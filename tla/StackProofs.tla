---------------------------- MODULE StackProofs -----------------------------
(***************************************************************************)
(* Theorems about AmplifierStack.  The driver inside the stack takes only  *)
(* steps of Tfa, so that the invariant of TfaProofs holds of it; with that *)
(* every step of the stack is a step of Amplifier or invisible to it, so   *)
(* that the theorems of AmplifierProofs hold of the two programs together. *)
(***************************************************************************)
EXTENDS StackProps, AmplifierProofs

Proved == INSTANCE TfaProofs

-----------------------------------------------------------------------------
(* The driver.                                                             *)

\* Whatever the HAL does, the driver under it moves as tfa.c does.
LEMMA DriverStep == [StackNext]_stackVars => [Driver!Next]_(Driver!vars)
<1> USE DEF Driver!Next, Driver!Lifecycle, Driver!Progress
<1>1. UNCHANGED driverVars => UNCHANGED Driver!vars
  BY DEF driverVars, Driver!vars, Driver!deviceVars, Driver!flagVars, Driver!writerVars
<1>2. ASSUME NEW c \in Callers, Handler(c) PROVE [Driver!Next]_(Driver!vars)
  <2>1. CASE ModuleOpens(c)  BY <1>1, <2>1 DEF ModuleOpens
  <2>2. CASE DeviceOpens(c)  BY <2>2 DEF DeviceOpens
  <2>3. CASE DeviceOpened(c)  BY <2>3 DEF DeviceOpened
  <2>4. CASE TfaPowerReturns(c)  BY <2>4 DEF TfaPowerReturns
  <2>5. ASSUME NEW d \in SndDevices, NEW enable \in BOOLEAN, OutputDevices(c, d, enable)
        PROVE  [Driver!Next]_(Driver!vars)
    <3>1. Driver!Power(c) \/ UNCHANGED driverVars
      BY <2>5 DEF OutputDevices
    <3> QED BY <1>1, <3>1
  <2>6. CASE DeviceCloses(c) \/ DeviceClosed(c)  BY <2>6 DEF DeviceCloses, DeviceClosed
  <2> QED BY <1>2, <2>1, <2>2, <2>3, <2>4, <2>5, <2>6 DEF Handler
<1>3. ASSUME NEW c \in Callers, Inner(c) PROVE Driver!Next
  BY <1>3 DEF Inner
<1>4. ASSUME NEW mode \in AudioModes, ModeSet(mode) PROVE UNCHANGED driverVars
  BY <1>4 DEF ModeSet
<1>5. UNCHANGED stackVars => UNCHANGED driverVars
  BY DEF stackVars
<1> QED BY <1>1, <1>2, <1>3, <1>4, <1>5 DEF StackNext

\* The driver's theorems hold under the HAL: every behaviour of the stack is one of
\* Tfa for the driver's part.
THEOREM DriverRuns == StackSpec => Driver!Spec
<1>1. StackInit => Driver!Init
  BY DEF StackInit
<1> QED BY <1>1, DriverStep, PTL DEF StackSpec, Driver!Spec

\* What Tfa is called in the module of its proofs.
LEMMA SameSpec == Driver!Spec => Proved!Spec
<1>1. Driver!Init => Proved!Init
  BY DEF Driver!Init, Proved!Init
<1>2. UNCHANGED Driver!vars => UNCHANGED Proved!vars
  BY DEF Driver!vars, Proved!vars, Driver!deviceVars, Proved!deviceVars, Driver!flagVars,
        Proved!flagVars, Driver!writerVars, Proved!writerVars
<1>3. ASSUME NEW c, Driver!Progress(c) PROVE Proved!Progress(c)
  BY <1>3 DEF Driver!Progress, Proved!Progress, Driver!Lock, Proved!Lock, Driver!ClockOn,
        Proved!ClockOn, Driver!Mutex, Proved!Mutex, Driver!Wait, Proved!Wait,
        Driver!ClocksEnabled, Proved!ClocksEnabled, Driver!Enable, Proved!Enable,
        Driver!ClockOff, Proved!ClockOff, Driver!ClockAlreadyOff, Proved!ClockAlreadyOff,
        Driver!Join, Proved!Join, Driver!JoinNoThread, Proved!JoinNoThread, Driver!Unlock,
        Proved!Unlock, Driver!Goto, Proved!Goto, Driver!WriterGoto, Proved!WriterGoto,
        Driver!deviceVars, Proved!deviceVars, Driver!flagVars, Proved!flagVars,
        Driver!writerVars, Proved!writerVars
<1>4. ASSUME NEW c, Driver!Lifecycle(c) PROVE Proved!Lifecycle(c)
  BY <1>4 DEF Driver!Lifecycle, Proved!Lifecycle, Driver!Power, Proved!Power, Driver!Open,
        Proved!Open, Driver!OpenFails, Proved!OpenFails, Driver!InitClockThenPowerUp,
        Proved!InitClockThenPowerUp, Driver!PowerDownAgain, Proved!PowerDownAgain,
        Driver!OpenSucceeds, Proved!OpenSucceeds, Driver!Close, Proved!Close, Driver!Free,
        Proved!Free, Driver!Enter, Proved!Enter, Driver!Goto, Proved!Goto, Driver!deviceVars,
        Proved!deviceVars, Driver!flagVars, Proved!flagVars, Driver!writerVars,
        Proved!writerVars
<1>5. ASSUME NEW c, Driver!SpuriousWakeup(c) PROVE Proved!SpuriousWakeup(c)
  BY <1>5 DEF Driver!SpuriousWakeup, Proved!SpuriousWakeup, Driver!Goto, Proved!Goto,
        Driver!deviceVars, Proved!deviceVars, Driver!flagVars, Proved!flagVars,
        Driver!writerVars, Proved!writerVars
<1>6. ASSUME NEW w, Driver!WriterStep(w) PROVE Proved!WriterStep(w)
  BY <1>6 DEF Driver!WriterStep, Proved!WriterStep, Driver!PcmOpen, Proved!PcmOpen,
        Driver!PcmOpenFails, Proved!PcmOpenFails, Driver!Calloc, Proved!Calloc,
        Driver!CallocFails, Proved!CallocFails, Driver!PcmWrite, Proved!PcmWrite,
        Driver!WriterLock, Proved!WriterLock, Driver!Signal, Proved!Signal, Driver!Test,
        Proved!Test, Driver!Reset, Proved!Reset, Driver!PcmClose, Proved!PcmClose, Driver!Exit,
        Proved!Exit, Driver!WriterGoto, Proved!WriterGoto, Driver!callerVars,
        Proved!callerVars, Driver!deviceVars, Proved!deviceVars, Driver!flagVars,
        Proved!flagVars, Driver!writerVars, Proved!writerVars
<1>7. Driver!Crash => Proved!Crash
  BY DEF Driver!Crash, Proved!Crash
<1>8. [Driver!Next]_(Driver!vars) => [Proved!Next]_(Proved!vars)
  BY <1>2, <1>3, <1>4, <1>5, <1>6, <1>7 DEF Driver!Next, Proved!Next
<1> QED BY <1>1, <1>8, PTL DEF Driver!Spec, Proved!Spec

\* What its invariant is called there.
LEMMA SameInv == Proved!IInv => Driver!IInv
<1>1. Proved!TypeOK => Driver!TypeOK
  BY DEF Driver!TypeOK, Proved!TypeOK, Driver!Phases, Proved!Phases, Driver!CallerPCs,
        Proved!CallerPCs, Driver!WriterPCs, Proved!WriterPCs
<1>2. Proved!LockInv => Driver!LockInv
  BY DEF Driver!LockInv, Proved!LockInv, Driver!Inside, Proved!Inside, Driver!CallerPCs,
        Proved!CallerPCs
<1>3. Proved!PhaseInv => Driver!PhaseInv
  BY DEF Driver!PhaseInv, Proved!PhaseInv
<1>4. Proved!ClockInv => Driver!ClockInv
  BY DEF Driver!ClockInv, Proved!ClockInv
<1>5. Proved!ThreadInv => Driver!ThreadInv
  BY DEF Driver!ThreadInv, Proved!ThreadInv
<1>6. Proved!PoweredDownInv => Driver!PoweredDownInv
  BY DEF Driver!PoweredDownInv, Proved!PoweredDownInv
<1>7. Proved!WriterInv => Driver!WriterInv
  BY DEF Driver!WriterInv, Proved!WriterInv, Driver!Streaming, Proved!Streaming
<1>8. Proved!HandshakeInv => Driver!HandshakeInv
  BY DEF Driver!HandshakeInv, Proved!HandshakeInv
<1>9. Proved!WakeInv => Driver!WakeInv
  BY DEF Driver!WakeInv, Proved!WakeInv
<1> QED BY <1>1, <1>2, <1>3, <1>4, <1>5, <1>6, <1>7, <1>8, <1>9 DEF Driver!IInv, Proved!IInv

\* The invariant of the driver, proved without the HAL, holds under it.
LEMMA DriverInv == StackSpec => []Driver!IInv
<1>1. Proved!TfaAssumption
  BY StackAssumption DEF Driver!TfaAssumption, Proved!TfaAssumption
<1> QED BY <1>1, DriverRuns, SameSpec, SameInv, Proved!Inductive, PTL

-----------------------------------------------------------------------------
(* The handlers.                                                           *)

\* The driver goes on being where the handler under way has called it.
LEMMA StepStep ==
  ASSUME AmpTypeOK, JobInv, StepInv, Driver!TypeOK, Driver!PhaseInv, [StackNext]_stackVars
  PROVE  StepInv'
<1> USE StackAssumption DEF Driver!TfaAssumption, AmpTypeOK, JobInv, Jobs, NoJob, StepInv,
      CallsOf, Driver!TypeOK, Driver!PhaseInv, Driver!CallerPCs, Driver!Phases, Driver!Goto,
      deviceVars, historyVars, halVars, Driver!deviceVars, Driver!flagVars, Driver!writerVars
<1>1. ASSUME NEW c \in Callers, ModuleOpens(c), call' = HandlerCall' PROVE StepInv'
  BY <1>1 DEF ModuleOpens, OpenBegins, driverVars
<1>2. ASSUME NEW c \in Callers, DeviceOpens(c), call' = HandlerCall' PROVE StepInv'
  <2>1. /\ job.op = "open" /\ job.by = c /\ job.calls \in 0..2
        /\ job'.op = "open" /\ job'.by = c /\ job'.calls = job.calls + 1 /\ job' # NoJob
    BY <1>2 DEF DeviceOpens, NextCall
  <2>2. /\ phase' \in {"powerdown1", "powerup", "powerdown2"} /\ opener' = c
        /\ pc' = [pc EXCEPT ![c] = "lock"] /\ (on'[c] <=> phase' = "powerup")
        /\ job'.calls = CallsOf(phase')
    <3>1. CASE Driver!Open(c)  BY <2>1, <3>1 DEF Driver!Open, Driver!Enter
    <3>2. CASE Driver!InitClockThenPowerUp(c)
      BY <2>1, <3>2 DEF Driver!InitClockThenPowerUp, Driver!Enter
    <3>3. CASE Driver!PowerDownAgain(c)  BY <2>1, <3>3 DEF Driver!PowerDownAgain, Driver!Enter
    <3> QED BY <1>2, <3>1, <3>2, <3>3 DEF DeviceOpens
  <2>3. \A d \in Callers : pc'[d] # "idle" => d = c
    BY <2>1, <2>2
  <2> QED BY <1>2, <2>1, <2>2, <2>3
<1>3. ASSUME NEW c \in Callers, DeviceOpened(c), call' = HandlerCall' PROVE StepInv'
  BY <1>3 DEF DeviceOpened, OpenAborted, DeviceCreated, Driver!OpenFails, Driver!OpenSucceeds
<1>4. ASSUME NEW c \in Callers, TfaPowerReturns(c), call' = HandlerCall' PROVE StepInv'
  BY <1>4 DEF TfaPowerReturns, HandlerReturns, Driver!Unlock
<1>5. ASSUME NEW c \in Callers, NEW d \in SndDevices, NEW enable \in BOOLEAN,
             OutputDevices(c, d, enable), call' = HandlerCall'
      PROVE  StepInv'
  BY <1>5 DEF OutputDevices, UsersChange, Powering, Driver!Power, Driver!Enter, driverVars
<1>6. ASSUME NEW c \in Callers, DeviceCloses(c), call' = HandlerCall' PROVE StepInv'
  BY <1>6 DEF DeviceCloses, Closing, Driver!Close, Driver!Enter
<1>7. ASSUME NEW c \in Callers, DeviceClosed(c), call' = HandlerCall' PROVE StepInv'
  BY <1>7 DEF DeviceClosed, DeviceFreed, Driver!Free
<1>8. ASSUME NEW c \in Callers, Inner(c), call' = HandlerCall' PROVE StepInv'
  BY <1>8 DEF Inner, Answered, Driver!WriterGoto, Driver!Enable, Driver!Lock, Driver!ClockOn,
        Driver!Mutex, Driver!Wait, Driver!SpuriousWakeup, Driver!ClocksEnabled,
        Driver!ClockOff, Driver!ClockAlreadyOff, Driver!Join, Driver!JoinNoThread
<1>9. ASSUME NEW mode \in AudioModes, ModeSet(mode), call' = HandlerCall' PROVE StepInv'
  BY <1>9 DEF ModeSet, SetMode, driverVars
<1>10. ASSUME NEW w \in Writers, Driver!WriterStep(w), UNCHANGED halVars, call' = HandlerCall'
       PROVE  StepInv'
  BY <1>10 DEF Driver!WriterStep, Driver!callerVars, Driver!WriterGoto, Driver!PcmOpen,
        Driver!PcmOpenFails, Driver!Calloc, Driver!CallocFails, Driver!PcmWrite,
        Driver!WriterLock, Driver!Signal, Driver!Test, Driver!Reset, Driver!PcmClose,
        Driver!Exit
<1>11. ASSUME Driver!Crash, HalDies, call' = HandlerCall' PROVE StepInv'
  BY <1>11 DEF HalDies, Driver!Crash
<1>12. CASE UNCHANGED stackVars
  BY <1>12 DEF stackVars, ampVars, driverVars, HandlerCall, Returning, Driver!PowerCall
<1> QED BY <1>1, <1>2, <1>3, <1>4, <1>5, <1>6, <1>7, <1>8, <1>9, <1>10, <1>11, <1>12
        DEF StackNext, Handler

\* Only the thread of the handler under way is ever inside the driver.
LEMMA OneAtWork ==
  ASSUME StepInv, StepInv', call' = HandlerCall', NEW c \in Callers,
         \A d \in Callers \ {c} : pc[d] = "idle" /\ pc'[d] = "idle"
  PROVE  call' = [call EXCEPT ![c] = HandlerCall'[c]]
<1> USE DEF StepInv, HandlerCall, Returning, Driver!PowerCall
<1>1. \A d \in Callers \ {c} : HandlerCall[d] = Idle /\ HandlerCall'[d] = Idle
  BY DEF Idle
<1>2. /\ HandlerCall = [d \in Callers |-> HandlerCall[d]]
      /\ HandlerCall' = [d \in Callers |-> HandlerCall'[d]]
  OBVIOUS
<1> QED BY <1>1, <1>2

\* HandlerCall, thread by thread.
CallValue(c) ==
  IF pc[c] = "idle" \/ (pc[c] = "next" /\ ~Returning(c)) THEN Idle
  ELSE IF pc[c] \in {"next", "clock_off", "join", "unlock"} THEN [st |-> "done", rc |-> rc[c]]
  ELSE [st |-> "called", on |-> on[c]]

LEMMA CallAt ==
  ASSUME NEW c \in Callers
  PROVE  HandlerCall[c] = CallValue(c) /\ HandlerCall'[c] = CallValue(c)'
  BY DEF HandlerCall, Returning, Driver!PowerCall, Idle, CallValue

\* Each step of the stack is a step of the HAL on the atomic switch, or the HAL and the
\* IC do not see it.
LEMMA HALStep ==
  ASSUME AmpTypeOK, JobInv, StepInv, StepInv', Driver!TypeOK, Driver!PhaseInv,
         [StackNext]_stackVars
  PROVE  [AmpNext]_ampVars
<1> USE StackAssumption DEF Driver!TfaAssumption, AmpTypeOK, JobInv, Jobs, NoJob, Idle, StepInv,
      CallsOf, Returning, Driver!TypeOK, Driver!PhaseInv, Driver!CallerPCs, Driver!Phases,
      Driver!Goto, Driver!Enter, deviceVars, historyVars, halVars, Driver!deviceVars,
      Driver!flagVars, Driver!writerVars
<1>1. ASSUME NEW c \in Callers, ModuleOpens(c) PROVE OpenBegins(c)
  BY <1>1 DEF ModuleOpens
<1>2. ASSUME NEW c \in Callers, DeviceOpens(c), call' = HandlerCall' PROVE OpenCalls(c)
  <2>1. /\ job.op = "open" /\ job.by = c /\ job.calls \in 0..2 /\ NextCall(c)
        /\ pc' = [pc EXCEPT ![c] = "lock"] /\ ic' = ic
    BY <1>2 DEF DeviceOpens, NextCall, Driver!Open, Driver!InitClockThenPowerUp,
          Driver!PowerDownAgain
  <2>2. call' = [call EXCEPT ![c] = HandlerCall'[c]]
    BY <1>2, <2>1, OneAtWork
  <2>3. /\ pc[c] = "idle" \/ (pc[c] = "next" /\ ~Returning(c))
        /\ IF job.calls = 1 THEN on'[c] = TRUE ELSE on'[c] = FALSE
    <3>1. CASE Driver!Open(c)  BY <2>1, <3>1 DEF Driver!Open
    <3>2. CASE Driver!InitClockThenPowerUp(c)  BY <2>1, <3>2 DEF Driver!InitClockThenPowerUp
    <3>3. CASE Driver!PowerDownAgain(c)  BY <2>1, <3>3 DEF Driver!PowerDownAgain
    <3> QED BY <1>2, <3>1, <3>2, <3>3 DEF DeviceOpens
  <2>4. HandlerCall'[c] = [st |-> "called", on |-> on'[c]]
    <3>1. pc'[c] = "lock"
      BY <2>1
    <3> QED BY <3>1, CallAt DEF CallValue
  <2>5. call[c] = Idle
    BY <2>3, CallAt DEF CallValue
  <2>6. on'[c] = (job.calls = 1)
    BY <2>3
  <2> QED BY <2>1, <2>2, <2>4, <2>5, <2>6 DEF OpenCalls, Call
<1>3. ASSUME NEW c \in Callers, DeviceOpened(c), call' = HandlerCall'
      PROVE  OpenFails(c) \/ OpenSucceeds(c)
  <2>1. /\ job.op = "open" /\ job.by = c
        /\ pc[c] = "next" /\ pc' = [pc EXCEPT ![c] = "idle"] /\ ic' = ic
    BY <1>3 DEF DeviceOpened, OpenAborted, DeviceCreated, Driver!OpenFails, Driver!OpenSucceeds
  <2>2. call' = [call EXCEPT ![c] = HandlerCall'[c]]
    BY <1>3, <2>1, OneAtWork
  <2>3. call[c] = [st |-> "done", rc |-> rc[c]] /\ HandlerCall'[c] = Idle
    <3>1. Returning(c)
      BY <1>3, <2>1 DEF DeviceOpened, Driver!OpenFails, Driver!OpenSucceeds
    <3>2. pc'[c] = "idle"
      BY <2>1
    <3> QED BY <3>1, <3>2, CallAt DEF CallValue
  <2>4. Respond(c)
    BY <2>1, <2>2, <2>3 DEF Respond
  <2>5. CASE Driver!OpenFails(c) /\ OpenAborted(c)
    BY <2>3, <2>4, <2>5 DEF Driver!OpenFails, OpenFails
  <2>6. CASE Driver!OpenSucceeds(c) /\ IF phase' = "open" THEN DeviceCreated(c) ELSE OpenAborted(c)
    <3>1. job.calls = 3 /\ call[c].rc >= 0
      BY <2>1, <2>3, <2>6 DEF Driver!OpenSucceeds
    <3> QED BY <2>4, <2>6, <3>1 DEF OpenFails, OpenSucceeds
  <2> QED BY <1>3, <2>5, <2>6 DEF DeviceOpened
<1>4. ASSUME NEW c \in Callers, TfaPowerReturns(c), call' = HandlerCall'
      PROVE  EnableReturns(c) \/ OpenGoesOn(c) \/ UNCHANGED ampVars
  <2>1. /\ job # NoJob /\ job.by = c
        /\ pc[c] = "unlock" /\ UNCHANGED <<phase, opener, on, rc, ic>>
    BY <1>4 DEF TfaPowerReturns, Driver!Unlock
  <2>2. pc' = [pc EXCEPT ![c] = IF phase = "open" THEN "idle" ELSE "next"]
    <3>1. phase = "open" <=> c # opener
      BY <2>1
    <3> QED BY <1>4, <3>1 DEF TfaPowerReturns, Driver!Unlock
  <2>3. call' = [call EXCEPT ![c] = HandlerCall'[c]]
    BY <1>4, <2>1, <2>2, OneAtWork
  <2>4. call[c] = [st |-> "done", rc |-> rc[c]]
    BY <2>1, CallAt DEF CallValue
  <2>5. HandlerCall'[c] = IF phase = "open" \/ ~Returning(c)' THEN Idle ELSE call[c]
    <3>1. pc'[c] = IF phase = "open" THEN "idle" ELSE "next"
      BY <2>1, <2>2
    <3> QED BY <2>1, <2>4, <3>1, CallAt DEF CallValue
  <2>6. CASE phase = "open"
    BY <1>4, <2>1, <2>3, <2>4, <2>5, <2>6 DEF TfaPowerReturns, EnableReturns, Respond
  <2>7. CASE phase # "open" /\ Returning(c)'
    <3>1. call' = call
      BY <2>3, <2>5, <2>7, CallAt
    <3> QED BY <1>4, <2>1, <2>7, <3>1 DEF ampVars, TfaPowerReturns
  <2>8. CASE phase # "open" /\ ~Returning(c)'
    BY <1>4, <2>1, <2>2, <2>3, <2>4, <2>5, <2>8 DEF TfaPowerReturns, OpenGoesOn, Respond
  <2> QED BY <2>6, <2>7, <2>8
<1>5. ASSUME NEW c \in Callers, NEW d \in SndDevices, NEW enable \in BOOLEAN,
             OutputDevices(c, d, enable), call' = HandlerCall'
      PROVE  EnableOutputDevices(c, d, enable)
  <2> DEFINE m == classify_snd_device(d)
  <2>1. UsersChange(m, enable) /\ job = NoJob /\ \A b \in Callers : pc[b] = "idle"
    BY <1>5 DEF OutputDevices, UsersChange
  <2>2. CASE NeedsPower(m, enable)
    <3>1. Driver!Power(c) /\ on'[c] = enable /\ Powering(c, classify_snd_device(d), enable)
      BY <1>5, <2>2 DEF OutputDevices
    <3>2. pc' = [pc EXCEPT ![c] = "lock"] /\ ic' = ic
      BY <3>1 DEF Driver!Power
    <3>3. call' = [call EXCEPT ![c] = HandlerCall'[c]]
      BY <1>5, <2>1, <3>2, OneAtWork
    <3>4. call[c] = Idle /\ HandlerCall'[c] = [st |-> "called", on |-> enable]
      BY <2>1, <3>1, <3>2, CallAt DEF CallValue
    <3> QED BY <2>1, <2>2, <3>1, <3>2, <3>3, <3>4 DEF EnableOutputDevices, Call
  <2>3. CASE ~NeedsPower(m, enable)
    <3>1. UNCHANGED <<job, driverVars>>
      BY <1>5, <2>3 DEF OutputDevices
    <3>2. HandlerCall' = HandlerCall
      BY <3>1 DEF driverVars, HandlerCall, Driver!PowerCall
    <3> QED BY <1>5, <2>1, <2>3, <3>1, <3>2 DEF EnableOutputDevices, driverVars
  <2> QED BY <2>2, <2>3
<1>6. ASSUME NEW c \in Callers, DeviceCloses(c), call' = HandlerCall' PROVE CloseBegins(c)
  <2>1. /\ pc' = [pc EXCEPT ![c] = "lock"] /\ on'[c] = FALSE /\ ic' = ic
        /\ \A d \in Callers : pc[d] = "idle"
    BY <1>6 DEF DeviceCloses, Driver!Close
  <2>2. call' = [call EXCEPT ![c] = HandlerCall'[c]]
    BY <1>6, <2>1, OneAtWork
  <2>3. call[c] = Idle /\ HandlerCall'[c] = [st |-> "called", on |-> FALSE]
    BY <2>1, CallAt DEF CallValue
  <2> QED BY <1>6, <2>1, <2>2, <2>3 DEF DeviceCloses, CloseBegins, Call
<1>7. ASSUME NEW c \in Callers, DeviceClosed(c), call' = HandlerCall' PROVE CloseReturns(c)
  <2>1. /\ pc[c] = "next" /\ phase = "closing" /\ pc' = [pc EXCEPT ![c] = "idle"] /\ ic' = ic
        /\ job.op = "close" /\ job.by = c
    BY <1>7 DEF DeviceClosed, DeviceFreed, Driver!Free
  <2>2. call' = [call EXCEPT ![c] = HandlerCall'[c]]
    BY <1>7, <2>1, OneAtWork
  <2>3. call[c] = [st |-> "done", rc |-> rc[c]] /\ HandlerCall'[c] = Idle
    BY <2>1, CallAt DEF CallValue
  <2> QED BY <1>7, <2>1, <2>2, <2>3 DEF DeviceClosed, CloseReturns, Respond
<1>8. ASSUME NEW c \in Callers, Inner(c), call' = HandlerCall'
      PROVE  PowerCommand(c) \/ UNCHANGED ampVars
  <2>1. CASE Driver!Enable(c) /\ Answered(on[c], rc'[c])
    <3>1. PICK r \in RC : rc' = [rc EXCEPT ![c] = r] /\ ic' = IF r = 0 THEN on[c] ELSE ic
      BY <2>1 DEF Driver!Enable
    <3>2. pc[c] = "enable" /\ pc' = [pc EXCEPT ![c] = "clock_off"] /\ job # NoJob /\ job.by = c
      BY <2>1 DEF Driver!Enable
    <3>3. call' = [call EXCEPT ![c] = HandlerCall'[c]]
      BY <1>8, <3>2, OneAtWork
    <3>4. call[c] = [st |-> "called", on |-> on[c]] /\ HandlerCall'[c] = [st |-> "done", rc |-> r]
      <4>1. pc'[c] = "clock_off" /\ rc'[c] = r
        BY <3>1, <3>2
      <4> QED BY <3>2, <4>1, CallAt DEF CallValue
    <3>5. Command(c)
      <4>1. ic' = Commanded(ic, call[c].on, r)
        BY <3>1, <3>4 DEF Commanded
      <4>2. call[c].st = "called"
        BY <3>4
      <4>3. r \in RC /\ call' = [call EXCEPT ![c] = [st |-> "done", rc |-> r]]
        BY <3>1, <3>3, <3>4
      <4> QED BY <4>1, <4>2, <4>3, Zenon DEF Command
    <3>6. call'[c].rc = rc'[c]
      BY <3>1, <3>2, <3>3, <3>4
    <3> QED BY <2>1, <3>4, <3>5, <3>6 DEF PowerCommand
  <2>2. CASE ~(Driver!Enable(c) /\ Answered(on[c], rc'[c]))
    <3>1. HandlerCall' = HandlerCall /\ ic' = ic
      BY <1>8, <2>2 DEF Inner, Driver!WriterGoto, HandlerCall, Driver!PowerCall,
            Driver!Lock, Driver!ClockOn, Driver!Mutex, Driver!Wait, Driver!SpuriousWakeup,
            Driver!ClocksEnabled, Driver!ClockOff, Driver!ClockAlreadyOff, Driver!Join,
            Driver!JoinNoThread
    <3> QED BY <1>8, <2>2, <3>1 DEF ampVars, Inner
  <2> QED BY <2>1, <2>2
<1>9. ASSUME NEW mode \in AudioModes, ModeSet(mode) PROVE SetMode(mode)
  BY <1>9 DEF ModeSet
<1>10. ASSUME NEW w \in Writers, Driver!WriterStep(w), UNCHANGED halVars, call' = HandlerCall'
       PROVE  UNCHANGED ampVars
  <2>1. HandlerCall' = HandlerCall /\ ic' = ic
    BY <1>10 DEF Driver!WriterStep, Driver!WriterGoto, Driver!callerVars, HandlerCall,
          Driver!PowerCall, Driver!PcmOpen, Driver!PcmOpenFails, Driver!Calloc,
          Driver!CallocFails, Driver!PcmWrite, Driver!WriterLock, Driver!Signal, Driver!Test,
          Driver!Reset, Driver!PcmClose, Driver!Exit
  <2> QED BY <1>10, <2>1 DEF ampVars
<1>11. ASSUME Driver!Crash, HalDies, call' = HandlerCall' PROVE AmpCrash
  <2>1. call' = [c \in Callers |-> Idle] /\ ic' = ic
    BY <1>11 DEF Driver!Crash, HandlerCall, Driver!PowerCall
  <2> QED BY <1>11, <2>1 DEF AmpCrash, Die
<1>12. CASE UNCHANGED stackVars
  BY <1>12 DEF stackVars
<1> QED BY <1>1, <1>2, <1>3, <1>4, <1>5, <1>6, <1>7, <1>8, <1>9, <1>10, <1>11, <1>12
        DEF StackNext, Handler, AmpNext

-----------------------------------------------------------------------------
(* The two programs together.                                              *)

\* StackInv is an invariant of the stack, inductive with the invariant of the driver.
THEOREM StackInductive == StackSpec => []StackInv
<1>1. StackInit => StepInv /\ AmpTypeOK /\ CallInv /\ JobInv
  <2> SUFFICES ASSUME StackInit PROVE StepInv
    BY AmpInitInv DEF StackInit, AmpInv
  <2> QED BY DEF StackInit, AmpInit, PowerInit, Driver!Init, StepInv, HandlerCall, Returning,
                 Driver!PowerCall, NoJob, Idle
<1>2. /\ StepInv /\ AmpTypeOK /\ CallInv /\ JobInv
      /\ Driver!IInv
      /\ [StackNext]_stackVars
      => (StepInv /\ AmpTypeOK /\ CallInv /\ JobInv)'
  <2> SUFFICES ASSUME StepInv, AmpTypeOK, CallInv, JobInv, Driver!TypeOK, Driver!PhaseInv,
                      [StackNext]_stackVars
               PROVE  StepInv' /\ AmpTypeOK' /\ CallInv' /\ JobInv'
    BY DEF Driver!IInv
  <2>1. StepInv'
    BY StepStep
  <2>2. [AmpNext]_ampVars
    BY <2>1, HALStep
  <2> QED BY <2>1, <2>2, AmpTypeStep, CallStep, JobStep
<1>3. Driver!IInv /\ StepInv /\ AmpTypeOK /\ CallInv /\ JobInv => StackInv
  BY DEF StackInv
<1> QED BY <1>1, <1>2, <1>3, DriverInv, PTL DEF StackSpec

\* The HAL on the threads of its driver is the HAL on the atomic switch
\* (amplifier.c:80-194 over tfa.c:181-295).
THEOREM HALImplemented == StackSpec => ImplementsHAL
<1>1. StackInit => AmpInit
  BY DEF StackInit
<1>2. StackInv /\ StackInv' /\ [StackNext]_stackVars => [AmpNext]_ampVars
  BY HALStep DEF StackInv, Driver!IInv
<1> QED BY <1>1, <1>2, StackInductive, PTL DEF StackSpec, ImplementsHAL, AmpSpec

\* No handler leaves anything behind in the driver (amplifier.c:118, amplifier.c:134,
\* amplifier.c:157).
THEOREM DriverIsQuiet == StackSpec => []QuietBetweenHandlers
<1>1. StackInv => QuietBetweenHandlers
  <2> SUFFICES ASSUME StackInv, job = NoJob
               PROVE  /\ phase = IF live THEN "open" ELSE "closed"
                      /\ tfa_lock = NoThread
                      /\ \A c \in Callers : pc[c] = "idle"
                      /\ \A w \in Writers : wpc[w] = "none" /\ pcm[w] = "closed"
                      /\ ~clock_enabled
    BY DEF QuietBetweenHandlers
  <2> USE StackAssumption DEF StackInv, Driver!IInv, Driver!TfaAssumption
  <2>1. phase = IF live THEN "open" ELSE "closed"
    BY DEF StepInv
  <2>2. \A c \in Callers : pc[c] = "idle"
    BY DEF StepInv
  <2>3. tfa_lock = NoThread
    BY <2>2 DEF Driver!TypeOK, Driver!LockInv, Driver!Inside
  <2>4. write_thread = NoThread /\ ~clock_enabled
    BY <2>1, <2>3 DEF Driver!ClockInv
  <2>5. \A w \in Writers : wpc[w] = "none" /\ pcm[w] = "closed"
    BY <2>4 DEF Driver!WriterInv, Driver!Streaming
  <2> QED BY <2>1, <2>2, <2>3, <2>4, <2>5
<1> QED BY <1>1, StackInductive, PTL

\* What is proved of the HAL on the atomic switch holds of the two programs together
\* (amplifier.c:102-116 over tfa.c:181-199).
THEOREM PromisesKept ==
  ASSUME \A r \in RC : r <= 0
  PROVE  StackSpec => [](AmpInv /\ StateMirrorsIC /\ UnusedIsOff /\ NoSilentMode)
BY HALImplemented, AmpInductive, StateIsTrue, UnusedIsPoweredDown, SilenceIsExcused, PTL
   DEF ImplementsHAL

=============================================================================
