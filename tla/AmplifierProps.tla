--------------------------- MODULE AmplifierProps ---------------------------
(***************************************************************************)
(* The properties of Amplifier.                                            *)
(***************************************************************************)
EXTENDS Amplifier

Jobs ==
  {NoJob} \cup [op : {"open"}, by : Callers, calls : 0..3]
          \cup [op : {"enable"}, by : Callers, on : BOOLEAN, mode : Modes, counted : BOOLEAN]
          \cup [op : {"close"}, by : Callers]

Reasons == {"none", "power_up", "last_user", "stray_release"}

Calls ==
  {Idle} \cup [st : {"called"}, on : BOOLEAN] \cup [st : {"done"}, rc : RC]

\* Types: in particular no count falls below zero (amplifier.c:93-97).
AmpTypeOK ==
  /\ ic \in BOOLEAN
  /\ call \in [Callers -> Calls]
  /\ amp_dev \in BOOLEAN /\ live \in BOOLEAN
  /\ refcount \in [Modes -> 0..MaxRefs]
  /\ amp_state \in {"DISABLED", "ENABLED"}
  /\ current_mode \in AudioModes
  /\ job \in Jobs
  /\ offFailed \in BOOLEAN
  /\ excused \in [Modes -> Reasons]

\* The device is open and no handler is under way.
Settled == live /\ job = NoJob

\* amp_state is what the IC was last told, whatever failed in between
\* (amplifier.c:102-114); tfa_enable is taken to fail with negative results.
StateMirrorsIC ==
  Settled => (amp_state = "ENABLED" <=> ic)

\* The IC is left on without a user only by a power down that failed, which
\* the next release makes good (amplifier.c:108-112).
UnusedIsOff ==
  Settled /\ refcount = NoUsers /\ ic => offFailed

\* Since its own first user came, a mode in use is without power for one of three
\* reasons only ("TODO: Distinguish between tfa modes", amplifier.c:116):
\*   power_up       powering up failed (amplifier.c:103);
\*   last_user      the other mode's last user took the power away;
\*   stray_release  so did a release of the other mode while it had no user, which
\*                  counts nothing (amplifier.c:95) and still finds a count of 0
\*                  (amplifier.c:108).
\* In the last two the other mode has no user now: its next one powers the IC up.
NoSilentMode ==
  \A m \in Modes :
    Settled /\ refcount[m] > 0 /\ ~ic =>
      \/ excused[m] = "power_up"
      \/ /\ excused[m] \in {"last_user", "stray_release"}
         /\ \A n \in Modes \ {m} : refcount[n] = 0

\* "Unable to open second instance of the amplifier" (amplifier.c:153): an open
\* is turned away only while there is a first instance.
BusyMeansOpen ==
  amp_dev => live

-----------------------------------------------------------------------------
(* The inductive invariant behind the theorems of AmplifierProofs.         *)

\* A call of tfa_power belongs to the handler under way.
CallInv ==
  \A c \in Callers : call[c] # Idle => job # NoJob /\ job.by = c

\* What that call is about, and which devices can have handlers.
JobInv ==
  /\ live => amp_dev
  /\ job.op = "open" =>
       /\ ~amp_dev
       /\ job.calls = 3 => call[job.by] # Idle
       /\ job.calls = 3 /\ call[job.by].st = "called" => ~call[job.by].on
       /\ job.calls = 3 /\ call[job.by].st = "done" /\ call[job.by].rc = 0 => ~ic
  /\ job.op = "close" => live /\ call[job.by] # Idle
  /\ job.op = "enable" =>
       /\ live /\ call[job.by] # Idle
       /\ job.on <=> amp_state = "DISABLED"
       /\ call[job.by].st = "called" => call[job.by].on = job.on

\* The IC is where amp_state says, or where the command under way has put it.
MirrorInv ==
  /\ live /\ job.op = "none" => (amp_state = "ENABLED" <=> ic)
  /\ job.op = "enable" =>
       IF call[job.by].st = "done" /\ call[job.by].rc = 0
       THEN ic = job.on
       ELSE amp_state = "ENABLED" <=> ic

\* Without users the IC is off, unless a power down failed or is under way.
UnusedInv ==
  /\ job.op = "enable" /\ job.on => refcount # NoUsers
  /\ live /\ refcount = NoUsers /\ amp_state = "ENABLED" =>
       \/ job.op = "close"
       \/ job.op = "none" /\ offFailed
       \/ job.op = "enable" /\ (call[job.by].st = "done" /\ call[job.by].rc # 0 => offFailed)

\* A mode in use has power, or a reason, or it is being powered up.
ExcuseInv ==
  /\ job.op = "enable" /\ ~job.on => refcount[job.mode] = 0
  /\ \A m \in Modes :
       live /\ refcount[m] > 0 /\ amp_state = "DISABLED" =>
         \/ excused[m] = "power_up"
         \/ /\ excused[m] \in {"last_user", "stray_release"}
            /\ \A n \in Modes \ {m} : refcount[n] = 0
         \/ job.op = "close"
         \/ job.op = "enable" /\ job.on

AmpInv ==
  AmpTypeOK /\ CallInv /\ JobInv /\ MirrorInv /\ UnusedInv /\ ExcuseInv

=============================================================================
