-------------------------- MODULE AmplifierProofs ---------------------------
(***************************************************************************)
(* Proofs about Amplifier, for every set of calling threads, every bound   *)
(* on the counts and every vendor library whose failures are negative: the *)
(* parts of AmpInv are kept by every step, and the properties follow.      *)
(***************************************************************************)
EXTENDS AmplifierProps, TLAPS

\* A new device, and no device, have the right types (amplifier.c:163-189).
LEMMA FreshTypes ==
  ASSUME FreshDevice
  PROVE  /\ refcount' \in [Modes -> 0..MaxRefs] /\ amp_state' \in {"DISABLED", "ENABLED"}
         /\ current_mode' \in AudioModes
         /\ offFailed' \in BOOLEAN /\ excused' \in [Modes -> Reasons]
<1>1. offFailed' \in BOOLEAN /\ excused' \in [Modes -> Reasons]
  BY Zenon DEF FreshDevice, NoExcuse, Reasons
<1> QED BY <1>1, AmplifierAssumption DEF FreshDevice, NoUsers, AudioModes

\* Every handler keeps the types; in particular a release without a user does
\* not take a count below zero (amplifier.c:95).
LEMMA AmpTypeStep ==
  ASSUME AmpTypeOK, [AmpNext]_ampVars
  PROVE  AmpTypeOK'
<1> USE RCAssumption, AmplifierAssumption DEF AmpTypeOK, Calls, Jobs, Idle, NoJob, NoUsers, NoExcuse,
      deviceVars, historyVars
<1>1. ASSUME NEW c \in Callers, OpenBegins(c) PROVE AmpTypeOK'
  BY <1>1 DEF OpenBegins
<1>2. ASSUME NEW c \in Callers, OpenCalls(c) PROVE AmpTypeOK'
  BY <1>2 DEF OpenCalls, NextCall, Call
<1>3. ASSUME NEW c \in Callers, OpenGoesOn(c) PROVE AmpTypeOK'
  BY <1>3 DEF OpenGoesOn, Respond
<1>4. ASSUME NEW c \in Callers, OpenFails(c) PROVE AmpTypeOK'
  BY <1>4 DEF OpenFails, OpenAborted, Respond
<1>5. ASSUME NEW c \in Callers, OpenSucceeds(c) PROVE AmpTypeOK'
  <2>1. call' \in [Callers -> Calls] /\ ic' \in BOOLEAN
    BY <1>5 DEF OpenSucceeds, DeviceCreated, Respond
  <2>2. amp_dev' \in BOOLEAN /\ live' \in BOOLEAN
    BY <1>5, Zenon DEF OpenSucceeds, DeviceCreated
  <2> QED BY <1>5, <2>1, <2>2, FreshTypes DEF OpenSucceeds, DeviceCreated
<1>6. ASSUME NEW c \in Callers, PowerCommand(c) PROVE AmpTypeOK'
  <2>1. call' \in [Callers -> Calls] /\ ic' \in BOOLEAN
    BY <1>6 DEF PowerCommand, Answered, Command, Commanded
  <2>2. offFailed' \in BOOLEAN
    BY <1>6, Zenon DEF PowerCommand, Answered
  <2> QED BY <1>6, <2>1, <2>2 DEF PowerCommand, Answered
<1>7. ASSUME NEW c \in Callers, EnableReturns(c) PROVE AmpTypeOK'
  <2>1. call' \in [Callers -> Calls] /\ ic' \in BOOLEAN /\ job' \in Jobs
    BY <1>7 DEF EnableReturns, HandlerReturns, Respond
  <2>2. amp_state' \in {"DISABLED", "ENABLED"}
    BY <1>7, Zenon DEF EnableReturns, HandlerReturns
  <2>3. excused' \in [Modes -> Reasons]
    BY <1>7 DEF EnableReturns, HandlerReturns, Reasons
  <2> QED BY <1>7, <2>1, <2>2, <2>3 DEF EnableReturns, HandlerReturns
<1>8. ASSUME NEW c \in Callers, CloseBegins(c) PROVE AmpTypeOK'
  BY <1>8 DEF CloseBegins, Closing, Call
<1>9. ASSUME NEW c \in Callers, CloseReturns(c) PROVE AmpTypeOK'
  <2>1. call' \in [Callers -> Calls] /\ ic' \in BOOLEAN
    BY <1>9 DEF CloseReturns, DeviceFreed, Respond
  <2>2. amp_dev' \in BOOLEAN /\ live' \in BOOLEAN
    BY <1>9, Zenon DEF CloseReturns, DeviceFreed
  <2> QED BY <1>9, <2>1, <2>2, FreshTypes DEF CloseReturns, DeviceFreed
<1>10. ASSUME NEW c \in Callers, NEW d \in SndDevices, NEW enable \in BOOLEAN,
            EnableOutputDevices(c, d, enable)
      PROVE AmpTypeOK'
  <2> DEFINE m == classify_snd_device(d)
  <2>1. m \in Modes /\ UsersChange(m, enable)
    BY <1>10 DEF EnableOutputDevices, UsersChange
  <2>2. refcount' \in [Modes -> 0..MaxRefs]
    BY <2>1 DEF UsersChange, Counted
  <2>3. excused' \in [Modes -> Reasons]
    BY <2>1 DEF UsersChange, Reasons
  <2>4. job' \in Jobs /\ call' \in [Callers -> Calls] /\ ic' = ic
    <3>1. CASE NeedsPower(m, enable)
      <4>1. Call(c, enable) /\ Powering(c, m, enable)
        BY <1>10, <3>1 DEF EnableOutputDevices
      <4>2. (refcount' # refcount) \in BOOLEAN
        OBVIOUS
      <4> HIDE DEF m
      <4> QED BY <2>1, <4>1, <4>2 DEF Powering, Call
    <3>2. CASE ~NeedsPower(m, enable)
      BY <1>10, <3>2 DEF EnableOutputDevices
    <3> QED BY <3>1, <3>2
  <2> QED BY <2>1, <2>2, <2>3, <2>4 DEF UsersChange
<1>11. ASSUME NEW mode \in AudioModes, SetMode(mode) PROVE AmpTypeOK'
  BY <1>11 DEF SetMode
<1>12. CASE AmpCrash
  <2>1. call' \in [Callers -> Calls] /\ ic' \in BOOLEAN
    BY <1>12 DEF AmpCrash, HalDies, Die
  <2>2. amp_dev' \in BOOLEAN /\ live' \in BOOLEAN
    BY <1>12, Zenon DEF AmpCrash, HalDies
  <2> QED BY <1>12, <2>1, <2>2, FreshTypes DEF AmpCrash, HalDies
<1>13. CASE UNCHANGED ampVars
  BY <1>13 DEF ampVars
<1> QED BY <1>1, <1>2, <1>3, <1>4, <1>5, <1>6, <1>7, <1>8, <1>9, <1>10, <1>11, <1>12, <1>13 DEF AmpNext

\* Only the handler under way has a call of tfa_power open.
LEMMA CallStep ==
  ASSUME AmpTypeOK, CallInv, [AmpNext]_ampVars
  PROVE  CallInv'
<1> USE RCAssumption, AmplifierAssumption DEF AmpTypeOK, Calls, Jobs, Idle, NoJob, NoUsers, NoExcuse,
      deviceVars, historyVars, CallInv
<1>1. ASSUME NEW c \in Callers, OpenBegins(c) PROVE CallInv'
  BY <1>1 DEF OpenBegins
<1>2. ASSUME NEW c \in Callers, OpenCalls(c) PROVE CallInv'
  BY <1>2 DEF OpenCalls, NextCall, Call
<1>3. ASSUME NEW c \in Callers, OpenGoesOn(c) PROVE CallInv'
  BY <1>3 DEF OpenGoesOn, Respond
<1>4. ASSUME NEW c \in Callers, OpenFails(c) PROVE CallInv'
  BY <1>4 DEF OpenFails, OpenAborted, Respond
<1>5. ASSUME NEW c \in Callers, OpenSucceeds(c) PROVE CallInv'
  BY <1>5 DEF OpenSucceeds, DeviceCreated, Respond, FreshDevice
<1>6. ASSUME NEW c \in Callers, PowerCommand(c) PROVE CallInv'
  BY <1>6 DEF PowerCommand, Answered, Command, Commanded
<1>7. ASSUME NEW c \in Callers, EnableReturns(c) PROVE CallInv'
  BY <1>7 DEF EnableReturns, HandlerReturns, Respond
<1>8. ASSUME NEW c \in Callers, CloseBegins(c) PROVE CallInv'
  BY <1>8 DEF CloseBegins, Closing, Call
<1>9. ASSUME NEW c \in Callers, CloseReturns(c) PROVE CallInv'
  BY <1>9 DEF CloseReturns, DeviceFreed, Respond, FreshDevice
<1>10. ASSUME NEW c \in Callers, NEW d \in SndDevices, NEW enable \in BOOLEAN,
            EnableOutputDevices(c, d, enable)
      PROVE CallInv'
  BY <1>10 DEF EnableOutputDevices, UsersChange, Powering, NeedsPower, Counted, Call
<1>11. ASSUME NEW mode \in AudioModes, SetMode(mode) PROVE CallInv'
  BY <1>11 DEF SetMode
<1>12. CASE AmpCrash
  BY <1>12 DEF AmpCrash, HalDies, Die, FreshDevice
<1>13. CASE UNCHANGED ampVars
  BY <1>13 DEF ampVars
<1> QED BY <1>1, <1>2, <1>3, <1>4, <1>5, <1>6, <1>7, <1>8, <1>9, <1>10, <1>11, <1>12, <1>13 DEF AmpNext

\* A handler that waits for tfa_power has a device, and the call it waits for is
\* the one its branch makes (amplifier.c:102-114, tfa.c:248-265).
LEMMA JobStep ==
  ASSUME AmpTypeOK, CallInv, JobInv, [AmpNext]_ampVars
  PROVE  JobInv'
<1> USE RCAssumption, AmplifierAssumption DEF AmpTypeOK, Calls, Jobs, Idle, NoJob, NoUsers, NoExcuse,
      deviceVars, historyVars, CallInv, JobInv
<1>1. ASSUME NEW c \in Callers, OpenBegins(c) PROVE JobInv'
  BY <1>1 DEF OpenBegins
<1>2. ASSUME NEW c \in Callers, OpenCalls(c) PROVE JobInv'
  BY <1>2 DEF OpenCalls, NextCall, Call
<1>3. ASSUME NEW c \in Callers, OpenGoesOn(c) PROVE JobInv'
  BY <1>3 DEF OpenGoesOn, Respond
<1>4. ASSUME NEW c \in Callers, OpenFails(c) PROVE JobInv'
  BY <1>4 DEF OpenFails, OpenAborted, Respond
<1>5. ASSUME NEW c \in Callers, OpenSucceeds(c) PROVE JobInv'
  BY <1>5 DEF OpenSucceeds, DeviceCreated, Respond, FreshDevice
<1>6. ASSUME NEW c \in Callers, PowerCommand(c) PROVE JobInv'
  BY <1>6 DEF PowerCommand, Answered, Command, Commanded
<1>7. ASSUME NEW c \in Callers, EnableReturns(c) PROVE JobInv'
  BY <1>7 DEF EnableReturns, HandlerReturns, Respond
<1>8. ASSUME NEW c \in Callers, CloseBegins(c) PROVE JobInv'
  BY <1>8 DEF CloseBegins, Closing, Call
<1>9. ASSUME NEW c \in Callers, CloseReturns(c) PROVE JobInv'
  BY <1>9 DEF CloseReturns, DeviceFreed, Respond, FreshDevice
<1>10. ASSUME NEW c \in Callers, NEW d \in SndDevices, NEW enable \in BOOLEAN,
            EnableOutputDevices(c, d, enable)
      PROVE JobInv'
  BY <1>10 DEF EnableOutputDevices, UsersChange, Powering, NeedsPower, Counted, Call
<1>11. ASSUME NEW mode \in AudioModes, SetMode(mode) PROVE JobInv'
  BY <1>11 DEF SetMode
<1>12. CASE AmpCrash
  BY <1>12 DEF AmpCrash, HalDies, Die, FreshDevice
<1>13. CASE UNCHANGED ampVars
  BY <1>13 DEF ampVars
<1> QED BY <1>1, <1>2, <1>3, <1>4, <1>5, <1>6, <1>7, <1>8, <1>9, <1>10, <1>11, <1>12, <1>13 DEF AmpNext

\* With the last user goes the power, or a failed power down is on record.
LEMMA UnusedStep ==
  ASSUME AmpTypeOK, CallInv, JobInv, UnusedInv, [AmpNext]_ampVars
  PROVE  UnusedInv'
<1> USE RCAssumption, AmplifierAssumption DEF AmpTypeOK, Calls, Jobs, Idle, NoJob, NoUsers, NoExcuse,
      deviceVars, historyVars, CallInv, JobInv, UnusedInv
<1>1. ASSUME NEW c \in Callers, OpenBegins(c) PROVE UnusedInv'
  BY <1>1 DEF OpenBegins
<1>2. ASSUME NEW c \in Callers, OpenCalls(c) PROVE UnusedInv'
  BY <1>2 DEF OpenCalls, NextCall, Call
<1>3. ASSUME NEW c \in Callers, OpenGoesOn(c) PROVE UnusedInv'
  BY <1>3 DEF OpenGoesOn, Respond
<1>4. ASSUME NEW c \in Callers, OpenFails(c) PROVE UnusedInv'
  BY <1>4 DEF OpenFails, OpenAborted, Respond
<1>5. ASSUME NEW c \in Callers, OpenSucceeds(c) PROVE UnusedInv'
  BY <1>5 DEF OpenSucceeds, DeviceCreated, Respond, FreshDevice
<1>6. ASSUME NEW c \in Callers, PowerCommand(c) PROVE UnusedInv'
  <2>1. job # NoJob /\ job.by = c /\ call[c].st = "called"
    BY <1>6 DEF PowerCommand, Answered, Command
  <2>2. call' = [call EXCEPT ![c] = call'[c]] /\ call'[c].st = "done"
    BY <1>6 DEF PowerCommand, Answered, Command
  <2>3. CASE call[c].on
    BY <1>6, <2>1, <2>2, <2>3 DEF PowerCommand, Answered
  <2>4. CASE ~call[c].on
    <3>1. offFailed' <=> call'[c].rc # 0
      BY <1>6, <2>4 DEF PowerCommand, Answered
    <3> QED BY <1>6, <2>1, <2>2, <3>1 DEF PowerCommand, Answered
  <2> QED BY <2>3, <2>4
<1>7. ASSUME NEW c \in Callers, EnableReturns(c) PROVE UnusedInv'
  <2>1. job' = NoJob /\ offFailed' = offFailed /\ live' = live /\ refcount' = refcount
    BY <1>7 DEF EnableReturns, HandlerReturns
  <2>2. job.op = "enable" /\ job.by = c /\ call[c].st = "done"
    BY <1>7 DEF EnableReturns, HandlerReturns, Respond
  <2>3. CASE job.on
    BY <1>7, <2>1, <2>2, <2>3 DEF EnableReturns, HandlerReturns
  <2>4. CASE ~job.on
    BY <1>7, <2>1, <2>2, <2>4 DEF EnableReturns, HandlerReturns
  <2> QED BY <2>3, <2>4
<1>8. ASSUME NEW c \in Callers, CloseBegins(c) PROVE UnusedInv'
  BY <1>8 DEF CloseBegins, Closing, Call
<1>9. ASSUME NEW c \in Callers, CloseReturns(c) PROVE UnusedInv'
  BY <1>9 DEF CloseReturns, DeviceFreed, Respond, FreshDevice
<1>10. ASSUME NEW c \in Callers, NEW d \in SndDevices, NEW enable \in BOOLEAN,
            EnableOutputDevices(c, d, enable)
      PROVE UnusedInv'
  BY <1>10 DEF EnableOutputDevices, UsersChange, Powering, NeedsPower, Counted, Call
<1>11. ASSUME NEW mode \in AudioModes, SetMode(mode) PROVE UnusedInv'
  BY <1>11 DEF SetMode
<1>12. CASE AmpCrash
  BY <1>12 DEF AmpCrash, HalDies, Die, FreshDevice
<1>13. CASE UNCHANGED ampVars
  BY <1>13 DEF ampVars
<1> QED BY <1>1, <1>2, <1>3, <1>4, <1>5, <1>6, <1>7, <1>8, <1>9, <1>10, <1>11, <1>12, <1>13 DEF AmpNext

\* A mode in use is powered, being powered, or silent for a reason
\* (amplifier.c:93-114).
LEMMA ExcuseStep ==
  ASSUME AmpTypeOK, CallInv, JobInv, ExcuseInv, [AmpNext]_ampVars
  PROVE  ExcuseInv'
<1> USE RCAssumption, AmplifierAssumption DEF AmpTypeOK, Calls, Jobs, Idle, NoJob, NoUsers, NoExcuse,
      deviceVars, historyVars, CallInv, JobInv, ExcuseInv
<1>1. ASSUME NEW c \in Callers, OpenBegins(c) PROVE ExcuseInv'
  BY <1>1 DEF OpenBegins
<1>2. ASSUME NEW c \in Callers, OpenCalls(c) PROVE ExcuseInv'
  BY <1>2 DEF OpenCalls, NextCall, Call
<1>3. ASSUME NEW c \in Callers, OpenGoesOn(c) PROVE ExcuseInv'
  BY <1>3 DEF OpenGoesOn, Respond
<1>4. ASSUME NEW c \in Callers, OpenFails(c) PROVE ExcuseInv'
  BY <1>4 DEF OpenFails, OpenAborted, Respond
<1>5. ASSUME NEW c \in Callers, OpenSucceeds(c) PROVE ExcuseInv'
  BY <1>5 DEF OpenSucceeds, DeviceCreated, Respond, FreshDevice
<1>6. ASSUME NEW c \in Callers, PowerCommand(c) PROVE ExcuseInv'
  BY <1>6 DEF PowerCommand, Answered, Command, Commanded
<1>7. ASSUME NEW c \in Callers, EnableReturns(c) PROVE ExcuseInv'
  <2>1. /\ job.op = "enable" /\ live /\ job.mode \in Modes
        /\ job' = NoJob /\ live' = live /\ refcount' = refcount
    BY <1>7 DEF EnableReturns, HandlerReturns
  <2>2. CASE job.on
    BY <1>7, <2>1, <2>2 DEF EnableReturns, HandlerReturns, Respond
  <2>3. CASE ~job.on /\ call[c].rc # 0
    <3>1. amp_state' = amp_state /\ amp_state = "ENABLED"
      BY <1>7, <2>1, <2>3 DEF EnableReturns, HandlerReturns
    <3> QED BY <2>1, <3>1
  <2>4. CASE ~job.on /\ call[c].rc = 0
    <3>1. refcount[job.mode] = 0
      BY <2>1, <2>4
    <3>2. ASSUME NEW m \in Modes, refcount[m] > 0
          PROVE  /\ excused'[m] \in {"last_user", "stray_release"}
                 /\ \A n \in Modes \ {m} : refcount[n] = 0
      <4>1. m # job.mode
        BY <3>1, <3>2
      <4>2. excused'[m] = IF job.counted THEN "last_user" ELSE "stray_release"
        BY <1>7, <2>4, <3>2, <4>1 DEF EnableReturns, HandlerReturns
      <4>3. Modes \ {m} = {job.mode}
        BY <2>1, <4>1 DEF Modes
      <4> QED BY <3>1, <4>2, <4>3
    <3> QED BY <2>1, <3>2
  <2> QED BY <2>2, <2>3, <2>4
<1>8. ASSUME NEW c \in Callers, CloseBegins(c) PROVE ExcuseInv'
  BY <1>8 DEF CloseBegins, Closing, Call
<1>9. ASSUME NEW c \in Callers, CloseReturns(c) PROVE ExcuseInv'
  BY <1>9 DEF CloseReturns, DeviceFreed, Respond, FreshDevice
<1>10. ASSUME NEW c \in Callers, NEW d \in SndDevices, NEW enable \in BOOLEAN,
            EnableOutputDevices(c, d, enable)
      PROVE ExcuseInv'
  BY <1>10 DEF EnableOutputDevices, UsersChange, Powering, NeedsPower, Counted, Call
<1>11. ASSUME NEW mode \in AudioModes, SetMode(mode) PROVE ExcuseInv'
  BY <1>11 DEF SetMode
<1>12. CASE AmpCrash
  BY <1>12 DEF AmpCrash, HalDies, Die, FreshDevice
<1>13. CASE UNCHANGED ampVars
  BY <1>13 DEF ampVars
<1> QED BY <1>1, <1>2, <1>3, <1>4, <1>5, <1>6, <1>7, <1>8, <1>9, <1>10, <1>11, <1>12, <1>13 DEF AmpNext

\* amp_state changes exactly when the IC has accepted a command
\* (amplifier.c:104-106, amplifier.c:110-112).
LEMMA MirrorStep ==
  ASSUME \A r \in RC : r <= 0, AmpTypeOK, CallInv, JobInv, MirrorInv, [AmpNext]_ampVars
  PROVE  MirrorInv'
<1> USE RCAssumption, AmplifierAssumption DEF AmpTypeOK, Calls, Jobs, Idle, NoJob, NoUsers, NoExcuse,
      deviceVars, historyVars, CallInv, JobInv, MirrorInv
<1>1. ASSUME NEW c \in Callers, OpenBegins(c) PROVE MirrorInv'
  BY <1>1 DEF OpenBegins
<1>2. ASSUME NEW c \in Callers, OpenCalls(c) PROVE MirrorInv'
  BY <1>2 DEF OpenCalls, NextCall, Call
<1>3. ASSUME NEW c \in Callers, OpenGoesOn(c) PROVE MirrorInv'
  BY <1>3 DEF OpenGoesOn, Respond
<1>4. ASSUME NEW c \in Callers, OpenFails(c) PROVE MirrorInv'
  BY <1>4 DEF OpenFails, OpenAborted, Respond
<1>5. ASSUME NEW c \in Callers, OpenSucceeds(c) PROVE MirrorInv'
  <2>1. job.op = "open" /\ job.by = c /\ job.calls = 3 /\ call[c].st = "done"
    BY <1>5 DEF OpenSucceeds, DeviceCreated, Respond
  <2>2. call[c].rc \in RC /\ call[c].rc >= 0
    BY <1>5, <2>1 DEF OpenSucceeds, DeviceCreated
  <2>3. call[c].rc = 0
    <3>1. call[c].rc \in Int /\ call[c].rc <= 0
      BY <2>2
    <3> QED BY <2>2, <3>1
  <2> QED BY <1>5, <2>1, <2>3 DEF OpenSucceeds, DeviceCreated, Respond, FreshDevice
<1>6. ASSUME NEW c \in Callers, PowerCommand(c) PROVE MirrorInv'
  BY <1>6 DEF PowerCommand, Answered, Command, Commanded
<1>7. ASSUME NEW c \in Callers, EnableReturns(c) PROVE MirrorInv'
  BY <1>7 DEF EnableReturns, HandlerReturns, Respond
<1>8. ASSUME NEW c \in Callers, CloseBegins(c) PROVE MirrorInv'
  BY <1>8 DEF CloseBegins, Closing, Call
<1>9. ASSUME NEW c \in Callers, CloseReturns(c) PROVE MirrorInv'
  BY <1>9 DEF CloseReturns, DeviceFreed, Respond, FreshDevice
<1>10. ASSUME NEW c \in Callers, NEW d \in SndDevices, NEW enable \in BOOLEAN,
            EnableOutputDevices(c, d, enable)
      PROVE MirrorInv'
  BY <1>10 DEF EnableOutputDevices, UsersChange, Powering, NeedsPower, Counted, Call
<1>11. ASSUME NEW mode \in AudioModes, SetMode(mode) PROVE MirrorInv'
  BY <1>11 DEF SetMode
<1>12. CASE AmpCrash
  BY <1>12 DEF AmpCrash, HalDies, Die, FreshDevice
<1>13. CASE UNCHANGED ampVars
  BY <1>13 DEF ampVars
<1> QED BY <1>1, <1>2, <1>3, <1>4, <1>5, <1>6, <1>7, <1>8, <1>9, <1>10, <1>11, <1>12, <1>13 DEF AmpNext

-----------------------------------------------------------------------------

\* The invariant holds before the HAL is opened.
LEMMA AmpInitInv == AmpInit => AmpInv
<1> SUFFICES ASSUME AmpInit PROVE AmpInv
  OBVIOUS
<1> USE RCAssumption, AmplifierAssumption DEF AmpInit, PowerInit, NoJob, Idle, NoUsers, NoExcuse
<1>1. AmpTypeOK
  <2>1. amp_dev \in BOOLEAN /\ live \in BOOLEAN /\ offFailed \in BOOLEAN
        /\ excused \in [Modes -> Reasons]
    BY Zenon DEF Reasons
  <2> QED BY <2>1 DEF AmpTypeOK, Jobs, Calls, AudioModes
<1>2. CallInv /\ JobInv /\ MirrorInv /\ UnusedInv /\ ExcuseInv
  BY DEF CallInv, JobInv, MirrorInv, UnusedInv, ExcuseInv
<1> QED BY <1>1, <1>2 DEF AmpInv

\* The amplifier HAL's state is well typed, whatever the vendor library answers.
THEOREM AmpTypeCorrect == AmpSpec => []AmpTypeOK
<1>1. AmpInit => AmpTypeOK
  BY AmpInitInv DEF AmpInv
<1>2. AmpTypeOK /\ [AmpNext]_ampVars => AmpTypeOK'
  BY AmpTypeStep
<1> QED BY <1>1, <1>2, PTL DEF AmpSpec

\* AmpInv is an inductive invariant of the HAL.
THEOREM AmpInductive ==
  ASSUME \A r \in RC : r <= 0
  PROVE  AmpSpec => []AmpInv
<1>1. AmpInv /\ [AmpNext]_ampVars => AmpInv'
  BY AmpTypeStep, CallStep, JobStep, UnusedStep, ExcuseStep, MirrorStep DEF AmpInv
<1> QED BY AmpInitInv, <1>1, PTL DEF AmpSpec

\* amp_state always tells where the IC is (amplifier.c:102-114).
THEOREM StateIsTrue ==
  ASSUME \A r \in RC : r <= 0
  PROVE  AmpSpec => []StateMirrorsIC
<1>1. AmpInv => StateMirrorsIC
  BY DEF AmpInv, MirrorInv, StateMirrorsIC, Settled, NoJob
<1> QED BY AmpInductive, <1>1, PTL

\* The amplifier is not left on by accident (amplifier.c:108-112).
THEOREM UnusedIsPoweredDown ==
  ASSUME \A r \in RC : r <= 0
  PROVE  AmpSpec => []UnusedIsOff
<1>1. AmpInv => UnusedIsOff
  BY DEF AmpInv, MirrorInv, UnusedInv, UnusedIsOff, Settled, NoJob
<1> QED BY AmpInductive, <1>1, PTL

\* A mode in use is silent for one of the three reasons only: powering up failed, or
\* the power went with the other mode, on its last user's release or on a release
\* that nobody was waiting for (amplifier.c:93-116).
THEOREM SilenceIsExcused ==
  ASSUME \A r \in RC : r <= 0
  PROVE  AmpSpec => []NoSilentMode
<1>1. AmpInv => NoSilentMode
  BY DEF AmpInv, AmpTypeOK, MirrorInv, ExcuseInv, NoSilentMode, Settled, NoJob
<1> QED BY AmpInductive, <1>1, PTL

=============================================================================
