------------------------------ MODULE TfaProps ------------------------------
(***************************************************************************)
(* The properties of Tfa.                                                  *)
(***************************************************************************)
EXTENDS Tfa

\* Types: the program counters, flags, locks and streams of all threads (tfa.h:62-77).
TypeOK ==
  /\ phase \in Phases
  /\ opener \in Callers \cup {NoThread}
  /\ pc \in [Callers -> CallerPCs]
  /\ on \in [Callers -> BOOLEAN]
  /\ rc \in [Callers -> RC]
  /\ tfa_lock \in Callers \cup {NoThread}
  /\ mutex \in Callers \cup Writers \cup {NoThread}
  /\ initializing \in BOOLEAN /\ clock_enabled \in BOOLEAN /\ writing \in BOOLEAN
  /\ write_thread \in Writers \cup {NoThread}
  /\ wpc \in [Writers -> WriterPCs]
  /\ signaled \in [Writers -> BOOLEAN]
  /\ pcm \in [Writers -> {"closed", "open", "running"}]
  /\ fault \in BOOLEAN
  /\ ic \in BOOLEAN

-----------------------------------------------------------------------------
(* Safety.                                                                 *)

\* tfa_power cleans up before it lets go of tfa_lock: whenever the lock is
\* free the clock is off, every writer has been joined and no playback stream
\* is held.  (The exception is the flag tfa_device_open reads before it has
\* set it, tfa.c:202 against tfa.c:256.)
ClockNeverOutlivesPower ==
  tfa_lock = NoThread =>
    /\ \A w \in Writers : wpc[w] = "none" /\ pcm[w] = "closed"
    /\ clock_enabled => phase = "powerdown1"

\* No second writer is ever started while one has not been joined, and the
\* thread that write_thread names is the one that is alive.
AtMostOneWriter ==
  \A w \in Writers : wpc[w] # "none" => write_thread = w

\* "This implementation requires explicit clock control" (tfa.c:192): the IC
\* is told to power up only while the writer of this very call is streaming.
\* The only excuse is a writer that failed and left `writing' set, and it
\* lasts until the next writer has ended well.
EnableClocked ==
  \A c \in Callers :
    pc[c] = "enable" /\ on[c] /\ ~fault =>
      write_thread # NoThread /\ pcm[write_thread] = "running"

\* The write of `writing' that takes no lock (tfa.c:81) cannot meet the
\* handshake that reads it (tfa.c:108): its caller is already joining.
ResetUnobserved ==
  \A w \in Writers : wpc[w] = "reset" =>
    \A c \in Callers : pc[c] \notin {"clock_on", "mutex", "check", "waiting", "enable"}

\* pthread_join is given a thread that exists, once tfa_device_open has
\* initialised the flags and as long as pthread_create never fails.
JoinHasThread ==
  \A c \in Callers :
    pc[c] = "join" /\ write_thread = NoThread => phase = "powerdown1" \/ CreateFaults

\* No wakeup is lost (tfa.c:107-111 against tfa.c:73-76 and tfa.c:88-93): a caller
\* in the handshake has a writer, unless pthread_create failed, and that writer
\* has its signal still to give, whatever fails, or has left it in `writing',
\* where the caller finds it without sleeping.
NoLostWakeup ==
  \A c \in Callers : pc[c] \in {"mutex", "check", "waiting"} =>
    IF write_thread = NoThread THEN CreateFaults
    ELSE IF signaled[write_thread] THEN writing /\ pc[c] # "waiting"
    ELSE wpc[write_thread] \notin {"none", "exited"}

\* A device is handed out with its IC powered down, unless the last power down of
\* tfa_device_open has failed with a positive result: tfa_power promises "!= 0 on
\* error" (tfa.c:179), and tfa.c:266 takes only negative results for errors.
OpenedPoweredDown ==
  [][phase # "open" /\ phase' = "open" /\ ic' => rc[opener] > 0]_vars

-----------------------------------------------------------------------------
(* Refinement and liveness.                                                *)

\* What a caller of tfa_power sees: called up to the command to the IC, done
\* until the function returns.
PowerCall ==
  [c \in Callers |->
     CASE pc[c] \in {"idle", "next"} -> [st |-> "idle"]
       [] pc[c] \in {"clock_off", "join", "unlock"} -> [st |-> "done", rc |-> rc[c]]
       [] OTHER -> [st |-> "called", on |-> on[c]]]

Abstract == INSTANCE TfaPower WITH call <- PowerCall

\* tfa_power with its lock, clock and threads behaves as one atomic command
\* per call (module TfaPower).
ImplementsPower == Abstract!PowerSpec

\* Whoever gets into tfa_power gets out again: no wakeup is lost in the
\* handshake, and the writer that is joined does end.
PowerReturns ==
  \A c \in Callers : tfa_lock = c ~> tfa_lock # c

-----------------------------------------------------------------------------
(* What the comments say and the code does not do.                         *)

\* tfa_device_open "initialize[s] clocks" (tfa.c:254) for the calls that use
\* them: nobody joins a writer that was never started.
JoinAlwaysHasThread ==
  \A c \in Callers : pc[c] = "join" => write_thread # NoThread

\* "clocks enabled" (tfa.c:114): tfa_clock_on ends only after the writer it
\* has started has signalled.
HandshakeOfThisCall ==
  \A c \in Callers :
    pc[c] = "enable" /\ on[c] => write_thread # NoThread /\ signaled[write_thread]

-----------------------------------------------------------------------------
(* The inductive invariant behind the theorems of TfaProofs.               *)

Inside == CallerPCs \ {"idle", "lock", "next"}
Streaming == {"calloc", "pcm_write", "lock", "signal", "test", "reset", "pcm_close"}

\* tfa_lock and mutex belong to exactly those whose program counter says so.
LockInv ==
  /\ \A c \in Callers : pc[c] \in Inside <=> tfa_lock = c
  /\ \A c \in Callers : pc[c] = "check" <=> mutex = c
  /\ \A w \in Writers : wpc[w] = "signal" <=> mutex = w

\* Outside `open' only the opener is doing anything.
PhaseInv ==
  /\ phase \in {"closed", "open"} <=> opener = NoThread
  /\ \A c \in Callers :
       /\ pc[c] = "next" => c = opener
       /\ phase # "open" /\ pc[c] # "idle" => c = opener
       /\ phase = "powerdown1" /\ c = opener => ~on[c]
       /\ c = opener => pc[c] # "idle"

\* What the flags and the writer look like at each point of tfa_power.
ClockInv ==
  /\ tfa_lock = NoThread => write_thread = NoThread
  /\ tfa_lock = NoThread /\ clock_enabled =>
       phase = "powerdown1" /\ pc[opener] = "lock"
  /\ \A c \in Callers :
       /\ pc[c] \in {"clock_on", "mutex", "check", "waiting"} => on[c] /\ ~clock_enabled
       /\ pc[c] \in {"clock_on", "unlock"} => write_thread = NoThread
       /\ pc[c] \in {"enable", "clock_off"} =>
            /\ on[c] => clock_enabled
            /\ ~on[c] => write_thread = NoThread /\ (clock_enabled => phase = "powerdown1")
       /\ pc[c] = "enable" /\ on[c] => writing
       /\ pc[c] = "join" => clock_enabled /\ ~initializing
       /\ pc[c] = "unlock" => ~clock_enabled

\* Who joins has started a writer, but for the first call of tfa_device_open
\* and a pthread_create that failed.
ThreadInv ==
  \A c \in Callers :
    /\ pc[c] \in {"mutex", "check", "waiting", "enable", "clock_off", "join"} /\ on[c] =>
         write_thread # NoThread \/ CreateFaults
    /\ pc[c] = "join" /\ ~on[c] => phase = "powerdown1"

\* The second power down of tfa_device_open leaves the IC off, or fails.
PoweredDownInv ==
  \A c \in Callers :
    phase = "powerdown2" /\ c = opener =>
      /\ ~on[c]
      /\ pc[c] \in {"clock_off", "join", "unlock", "next"} /\ rc[c] = 0 => ~ic

\* The one writer, and how far it can be.
WriterInv ==
  /\ \A w \in Writers : wpc[w] # "none" <=> write_thread = w
  /\ \A w \in Writers :
       /\ pcm[w] # "closed" => wpc[w] \in Streaming
       /\ wpc[w] \in {"calloc", "pcm_write", "test", "reset"} => pcm[w] # "closed"
       /\ wpc[w] = "calloc" => pcm[w] = "open"
       /\ wpc[w] = "pcm_write" /\ pcm[w] = "running" => signaled[w]
       /\ wpc[w] \in {"test", "reset"} => signaled[w]
       /\ wpc[w] = "reset" => ~initializing
       /\ wpc[w] # "none" /\ ~initializing => \E c \in Callers : pc[c] = "join"

\* Without a fault, `writing' is the doing of the writer that is streaming.
HandshakeInv ==
  /\ writing /\ ~fault /\ phase \notin {"closed", "powerdown1"} =>
       /\ write_thread # NoThread
       /\ pcm[write_thread] = "running"
       /\ wpc[write_thread] \in {"pcm_write", "test", "reset"}
  /\ \A w \in Writers :
       /\ wpc[w] \in {"pcm_close", "exit"} /\ ~signaled[w] => fault
       /\ wpc[w] \in {"lock", "signal"} /\ ~fault => pcm[w] = "running"

\* `writing' holds what has been signalled, and whoever sleeps has not missed it.
WakeInv ==
  /\ \A w \in Writers : wpc[w] = "exited" => signaled[w]
  /\ \A c \in Callers :
       /\ pc[c] = "waiting" => ~writing
       /\ pc[c] \in {"mutex", "check", "waiting"}
            /\ write_thread # NoThread /\ signaled[write_thread] => writing

IInv ==
  /\ TypeOK /\ LockInv /\ PhaseInv /\ ClockInv /\ ThreadInv /\ PoweredDownInv
  /\ WriterInv /\ HandshakeInv /\ WakeInv

=============================================================================
