--------------------------- MODULE AmplifierStack ---------------------------
(***************************************************************************)
(* The amplifier HAL (amplifier.c) on the threads of its driver (tfa.c):   *)
(* the handlers of Amplifier, with Tfa in the place of the atomic switch   *)
(* of TfaPower.  A thread inside a handler is the caller inside the driver *)
(* that the handler has called; `call' follows what it does there.         *)
(***************************************************************************)
EXTENDS AmplifierProps

CONSTANTS
  Writers, NoThread, Heap, AudioFaults, CreateFaults   \* see Tfa

VARIABLES
  phase, opener, pc, on, rc, tfa_lock, mutex, initializing, clock_enabled, writing,
  write_thread, wpc, signaled, pcm, fault              \* see Tfa

Driver == INSTANCE TfaProps

ASSUME StackAssumption == Driver!TfaAssumption

halVars == <<deviceVars, job, historyVars>>
driverVars ==
  <<phase, opener, pc, on, rc, tfa_lock, mutex, initializing, clock_enabled, writing,
    write_thread, wpc, signaled, pcm, fault, ic>>
stackVars == <<ampVars, driverVars>>

\* tfa_device_open and tfa_device_close are not over with their last tfa_power: the
\* handler has its answer when they return.
Returning(c) ==
  pc[c] = "next" /\ (phase \in {"powerdown2", "closing"} \/ rc[c] < 0)

HandlerCall ==
  [c \in Callers |->
     IF Returning(c) THEN [st |-> "done", rc |-> rc[c]] ELSE Driver!PowerCall[c]]

StackInit == Driver!Init /\ AmpInit

-----------------------------------------------------------------------------
(* amp_module_open.                                                        *)

ModuleOpens(c) == OpenBegins(c) /\ UNCHANGED driverVars

DeviceOpens(c) ==
  /\ Driver!Open(c) \/ Driver!InitClockThenPowerUp(c) \/ Driver!PowerDownAgain(c)
  /\ NextCall(c)

\* The driver's device without one of the HAL's is lost.
DeviceOpened(c) ==
  \/ Driver!OpenFails(c) /\ OpenAborted(c)
  \/ Driver!OpenSucceeds(c) /\ IF phase' = "open" THEN DeviceCreated(c) ELSE OpenAborted(c)

-----------------------------------------------------------------------------
(* The other handlers.                                                     *)

OutputDevices(c, d, enable) ==
  LET m == classify_snd_device(d) IN
  /\ UsersChange(m, enable)
  /\ IF NeedsPower(m, enable) THEN Driver!Power(c) /\ on'[c] = enable /\ Powering(c, m, enable)
     ELSE UNCHANGED <<job, driverVars>>

\* tfa_power returns to the handler, or to tfa_device_open and tfa_device_close.
TfaPowerReturns(c) ==
  /\ Driver!Unlock(c)
  /\ IF phase = "open" THEN HandlerReturns(c, rc[c]) ELSE UNCHANGED halVars

ModeSet(mode) == SetMode(mode) /\ UNCHANGED driverVars

DeviceCloses(c) == Driver!Close(c) /\ Closing(c)

DeviceClosed(c) == Driver!Free(c) /\ DeviceFreed(c)

-----------------------------------------------------------------------------

Handler(c) ==
  \/ ModuleOpens(c) \/ DeviceOpens(c) \/ DeviceOpened(c) \/ TfaPowerReturns(c)
  \/ \E d \in SndDevices, enable \in BOOLEAN : OutputDevices(c, d, enable)
  \/ DeviceCloses(c) \/ DeviceClosed(c)

\* What goes on inside tfa_power and its writers is not seen by the HAL, but for
\* the answer of the IC.
Inner(c) ==
  \/ Driver!Enable(c) /\ Answered(on[c], rc'[c])
  \/ /\ \/ Driver!Lock(c) \/ Driver!ClockOn(c) \/ Driver!Mutex(c) \/ Driver!Wait(c)
        \/ Driver!SpuriousWakeup(c) \/ Driver!ClocksEnabled(c) \/ Driver!ClockOff(c)
        \/ Driver!ClockAlreadyOff(c) \/ Driver!Join(c) \/ Driver!JoinNoThread(c)
     /\ UNCHANGED halVars

StackNext ==
  /\ \/ \E c \in Callers : Handler(c) \/ Inner(c)
     \/ \E mode \in AudioModes : ModeSet(mode)
     \/ \E w \in Writers : Driver!WriterStep(w) /\ UNCHANGED halVars
     \/ Driver!Crash /\ HalDies
  /\ call' = HandlerCall'

StackSpec == StackInit /\ [][StackNext]_stackVars

=============================================================================
