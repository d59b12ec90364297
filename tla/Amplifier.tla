----------------------------- MODULE Amplifier ------------------------------
(***************************************************************************)
(* amplifier/amplifier.c: the amplifier HAL, which counts the users of     *)
(* each tfa mode and powers the IC through tfa_power (module TfaPower).    *)
(*                                                                         *)
(* The handlers touch their state without a lock of their own: the audio   *)
(* HAL that calls them holds its device lock around every call, so at most *)
(* one of them, `job', is under way.  The process can die in the middle of *)
(* it.                                                                     *)
(*                                                                         *)
(* What a step does to the HAL alone is an operator of its own (NextCall,  *)
(* OpenAborted, DeviceCreated, ...): AmplifierStack puts the same HAL on   *)
(* the threads of tfa.c instead of TfaPower.                               *)
(***************************************************************************)
EXTENDS TfaPower

CONSTANTS
  MaxRefs       \* bound: enables of one mode that are not yet released

ASSUME AmplifierAssumption == MaxRefs \in Nat \ {0}

VARIABLES
  amp_dev,      \* is the static pointer amp_dev non-NULL
  live,         \* the audio HAL holds an open device
  refcount, amp_state, current_mode,
  job,          \* the handler under way
  offFailed,    \* history: the last power off of this device failed
  excused       \* history: per mode, why it is without power

deviceVars == <<amp_dev, live, refcount, amp_state, current_mode>>
historyVars == <<offFailed, excused>>
ampVars == <<ic, call, deviceVars, job, historyVars>>

Modes == {"Music_Normal", "Voice"}
SndDevices == {"SPEAKER", "VOICE_SPEAKER", "VOICE_SPEAKER_WB", "HEADPHONES"}
AudioModes == {"NORMAL", "IN_CALL"}

NoJob == [op |-> "none"]

classify_snd_device(d) ==
  CASE d = "SPEAKER" -> "Music_Normal"
    [] d \in {"VOICE_SPEAKER", "VOICE_SPEAKER_WB"} -> "Voice"
    [] OTHER -> "None"

NoUsers == [m \in Modes |-> 0]
NoExcuse == [m \in Modes |-> "none"]

\* The calloc'ed device, and what is left of it when it is gone.
FreshDevice ==
  /\ refcount' = NoUsers /\ amp_state' = "DISABLED" /\ current_mode' = "NORMAL"
  /\ offFailed' = FALSE /\ excused' = NoExcuse

AmpInit ==
  /\ PowerInit
  /\ amp_dev = FALSE /\ live = FALSE
  /\ refcount = NoUsers /\ amp_state = "DISABLED" /\ current_mode = "NORMAL"
  /\ job = NoJob
  /\ offFailed = FALSE /\ excused = NoExcuse

-----------------------------------------------------------------------------
(* amp_module_open.  A wrong name, a device that exists already, a missing *)
(* library or no memory make it return with nothing changed.               *)

OpenBegins(c) ==
  /\ job = NoJob /\ ~amp_dev
  /\ job' = [op |-> "open", by |-> c, calls |-> 0]
  /\ UNCHANGED <<ic, call, deviceVars, historyVars>>

\* tfa_device_open powers the IC down, up and down again.
NextCall(c) ==
  /\ job.op = "open" /\ job.by = c /\ job.calls < 3
  /\ job' = [job EXCEPT !.calls = @ + 1]
  /\ UNCHANGED <<deviceVars, historyVars>>

OpenCalls(c) == NextCall(c) /\ Call(c, job.calls = 1)

OpenGoesOn(c) ==
  /\ job.op = "open" /\ job.by = c /\ job.calls < 3
  /\ Respond(c) /\ call[c].rc >= 0
  /\ UNCHANGED <<job, deviceVars, historyVars>>

\* A negative result ends it, and so does the calloc after the last call.
OpenAborted(c) ==
  /\ job.op = "open" /\ job.by = c
  /\ job' = NoJob
  /\ UNCHANGED <<deviceVars, historyVars>>

OpenFails(c) == OpenAborted(c) /\ Respond(c) /\ (call[c].rc < 0 \/ job.calls = 3)

DeviceCreated(c) ==
  /\ job.op = "open" /\ job.by = c
  /\ amp_dev' = TRUE /\ live' = TRUE
  /\ job' = NoJob
  /\ FreshDevice

OpenSucceeds(c) == DeviceCreated(c) /\ Respond(c) /\ call[c].rc >= 0 /\ job.calls = 3

-----------------------------------------------------------------------------
(* amp_enable_output_devices, amp_set_mode, amp_dev_close.                 *)

\* Mutant: a release that nobody is waiting for counts too.
CountedBelowZero(m, enable) ==
  [refcount EXCEPT ![m] = IF enable THEN @ + 1 ELSE @ - 1]

Counted(m, enable) ==
  [refcount EXCEPT ![m] = IF enable THEN @ + 1 ELSE IF @ > 0 THEN @ - 1 ELSE @]

\* Mutant: the count is looked at before it is changed.
NeedsPowerUncounted(m, enable) ==
  IF enable THEN amp_state = "DISABLED" /\ refcount[m] = 1
            ELSE amp_state = "ENABLED" /\ refcount[m] = 0

\* The first user of a mode powers the IC up, the last one powers it down.
NeedsPower(m, enable) ==
  IF enable THEN amp_state = "DISABLED" /\ Counted(m, enable)[m] = 1
            ELSE amp_state = "ENABLED" /\ Counted(m, enable)[m] = 0

\* The users of mode m are counted; whoever has no users needs no excuse.
UsersChange(m, enable) ==
  /\ live /\ job = NoJob
  /\ m \in Modes
  /\ enable => refcount[m] < MaxRefs
  /\ refcount' = Counted(m, enable)
  /\ excused' = [n \in Modes |-> IF refcount'[n] > 0 THEN excused[n] ELSE "none"]
  /\ UNCHANGED <<amp_dev, live, amp_state, current_mode, offFailed>>

\* A release of a mode without users counts nothing and gets here all the same.
Powering(c, m, enable) ==
  job' = [op |-> "enable", by |-> c, on |-> enable, mode |-> m, counted |-> refcount' # refcount]

EnableOutputDevices(c, d, enable) ==
  LET m == classify_snd_device(d) IN
  /\ UsersChange(m, enable)
  /\ IF NeedsPower(m, enable) THEN Call(c, enable) /\ Powering(c, m, enable)
     ELSE UNCHANGED <<ic, call, job>>

\* The command reaches the IC, which answers r.
Answered(on, r) ==
  /\ offFailed' = IF on THEN offFailed ELSE r # 0
  /\ UNCHANGED <<deviceVars, job, excused>>

PowerCommand(c) == Command(c) /\ Answered(call[c].on, call'[c].rc)

\* Mutant: amp_state follows the request and not its result.
HandlerReturnsUnchecked(c, r) ==
  /\ job.op = "enable" /\ job.by = c
  /\ job' = NoJob
  /\ amp_state' = IF job.on THEN "ENABLED" ELSE "DISABLED"
  /\ UNCHANGED <<amp_dev, live, refcount, current_mode, historyVars>>

\* A successful power up serves every mode, a failed one serves none; a
\* successful power down takes the power from the other mode too, and was asked
\* for by that mode's last user or by a release that nobody was waiting for.
HandlerReturns(c, r) ==
  /\ job.op = "enable" /\ job.by = c
  /\ job' = NoJob
  /\ IF r = 0 THEN amp_state' = IF job.on THEN "ENABLED" ELSE "DISABLED"
     ELSE UNCHANGED amp_state
  /\ excused' = [m \in Modes |->
       CASE job.on /\ r # 0 /\ refcount[m] > 0 -> "power_up"
         [] job.on /\ ~(r # 0 /\ refcount[m] > 0) -> "none"
         [] ~job.on /\ r = 0 /\ refcount[m] > 0 /\ m # job.mode ->
              IF job.counted THEN "last_user" ELSE "stray_release"
         [] OTHER -> excused[m]]
  /\ UNCHANGED <<amp_dev, live, refcount, current_mode, offFailed>>

EnableReturns(c) == Respond(c) /\ HandlerReturns(c, call[c].rc)

SetMode(mode) ==
  /\ live /\ job = NoJob
  /\ current_mode' = mode
  /\ UNCHANGED <<ic, call, amp_dev, live, refcount, amp_state, job, historyVars>>

\* tfa_device_close powers down once more and looks at no result.
Closing(c) ==
  /\ live /\ job = NoJob
  /\ job' = [op |-> "close", by |-> c]
  /\ UNCHANGED <<deviceVars, historyVars>>

CloseBegins(c) == Closing(c) /\ Call(c, FALSE)

\* The device is freed; the static pointer keeps its value.
DeviceFreed(c) ==
  /\ job.op = "close" /\ job.by = c
  /\ live' = FALSE
  /\ job' = NoJob
  /\ FreshDevice
  /\ UNCHANGED amp_dev

CloseReturns(c) == DeviceFreed(c) /\ Respond(c)

\* The process dies and init starts it again; the IC stays as it is.
HalDies ==
  /\ amp_dev' = FALSE /\ live' = FALSE
  /\ job' = NoJob
  /\ FreshDevice

AmpCrash == Die /\ HalDies

-----------------------------------------------------------------------------

AmpNext ==
  \/ \E c \in Callers :
       \/ OpenBegins(c) \/ OpenCalls(c) \/ OpenGoesOn(c) \/ OpenFails(c) \/ OpenSucceeds(c)
       \/ \E d \in SndDevices, enable \in BOOLEAN : EnableOutputDevices(c, d, enable)
       \/ PowerCommand(c) \/ EnableReturns(c) \/ CloseBegins(c) \/ CloseReturns(c)
  \/ \E mode \in AudioModes : SetMode(mode)
  \/ AmpCrash

AmpSpec == AmpInit /\ [][AmpNext]_ampVars

=============================================================================
