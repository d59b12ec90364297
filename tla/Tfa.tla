-------------------------------- MODULE Tfa ---------------------------------
(***************************************************************************)
(* amplifier/tfa.c: the TFA9896 amplifier behind tfa_power, thread by      *)
(* thread.                                                                 *)
(*                                                                         *)
(* Callers are threads of the audio HAL inside tfa_power, tfa_device_open  *)
(* or tfa_device_close; writers are the threads pthread_create starts on   *)
(* write_dummy_data, which keep the I2S clock running with silence while   *)
(* the IC is being enabled.  The two meet in the handshake on              *)
(* mutex/cond/writing and in pthread_join.                                 *)
(*                                                                         *)
(* Abstracted: tfa_handle (a1 is only zeroed), the size and contents of    *)
(* the dummy buffer, the dlsym'ed pointers, and the memory that            *)
(* tfa_device_open leaks when it returns NULL.                             *)
(***************************************************************************)
EXTENDS Integers

CONSTANTS
  Callers,        \* threads of the audio HAL
  Writers,        \* identities for the threads running write_dummy_data
  NoThread,       \* no owner, or a pthread_t that denotes no joinable thread
  RC,             \* what the vendor function tfa_enable may return
  Heap,           \* what a bool in fresh malloc'ed memory may hold
  AudioFaults,    \* may pcm_open, calloc or pcm_write fail in a writer
  CreateFaults    \* may pthread_create fail

ASSUME TfaAssumption ==
  /\ RC \subseteq Int /\ 0 \in RC
  /\ Heap \subseteq BOOLEAN /\ Heap # {}
  /\ AudioFaults \in BOOLEAN /\ CreateFaults \in BOOLEAN
  /\ Callers \cap Writers = {}
  /\ NoThread \notin Callers \cup Writers

VARIABLES
  phase,          \* where the device is between tfa_device_open and _close
  opener,         \* the caller inside tfa_device_open or tfa_device_close
  pc, on, rc,     \* of each caller: program counter, argument and result
  tfa_lock,       \* owner of the mutex around the whole of tfa_power
  mutex,          \* owner of the handshake mutex
  initializing, clock_enabled, writing,
  write_thread,   \* the joinable writer, NoThread if there is none
  wpc, signaled,  \* of each writer: program counter, and has it signalled
  pcm,            \* of each writer: its stream
  fault,          \* history: a writer failed, and none has ended well since
  ic              \* is the IC on: the last command it accepted

deviceVars == <<phase, opener>>
flagVars   == <<initializing, clock_enabled, writing, write_thread>>
writerVars == <<wpc, signaled, pcm, fault>>
vars == <<deviceVars, pc, on, rc, tfa_lock, mutex, flagVars, writerVars, ic>>

Phases == {"closed", "powerdown1", "powerup", "powerdown2", "open", "closing"}

CallerPCs == {"idle", "lock", "clock_on", "mutex", "check", "waiting",
              "enable", "clock_off", "join", "unlock", "next"}

WriterPCs == {"none", "pcm_open", "calloc", "pcm_write", "lock", "signal",
              "test", "reset", "pcm_close", "exit", "exited"}

Goto(c, from, to) == pc[c] = from /\ pc' = [pc EXCEPT ![c] = to]

WriterGoto(w, from, to) == wpc[w] = from /\ wpc' = [wpc EXCEPT ![w] = to]

Init ==
  /\ phase = "closed" /\ opener = NoThread
  /\ pc = [c \in Callers |-> "idle"]
  /\ on = [c \in Callers |-> FALSE]
  /\ rc = [c \in Callers |-> 0]
  /\ tfa_lock = NoThread /\ mutex = NoThread
  /\ initializing = FALSE /\ clock_enabled = FALSE /\ writing = FALSE
  /\ write_thread = NoThread
  /\ wpc = [w \in Writers |-> "none"]
  /\ signaled = [w \in Writers |-> FALSE]
  /\ pcm = [w \in Writers |-> "closed"]
  /\ fault = FALSE
  /\ ic \in BOOLEAN

-----------------------------------------------------------------------------
(* tfa_clock_on, tfa_clock_off and tfa_power, for a caller c.              *)

\* The call of tfa_power: c goes for tfa_lock.
Enter(c, o, from) ==
  /\ Goto(c, from, "lock")
  /\ on' = [on EXCEPT ![c] = o]

Power(c) ==
  /\ phase = "open"
  /\ \E o \in BOOLEAN : Enter(c, o, "idle")
  /\ UNCHANGED <<deviceVars, rc, tfa_lock, mutex, flagVars, writerVars, ic>>

Lock(c) ==
  /\ tfa_lock = NoThread /\ tfa_lock' = c
  /\ Goto(c, "lock", IF on[c] THEN "clock_on" ELSE "enable")
  /\ UNCHANGED <<deviceVars, on, rc, mutex, flagVars, writerVars, ic>>

\* Mutant: `initializing' is not set.
ClockOnSetsNothing(c) ==
  /\ ~clock_enabled
  /\ Goto(c, "clock_on", "mutex")
  /\ \E w \in Writers :
       /\ WriterGoto(w, "none", "pcm_open")
       /\ signaled' = [signaled EXCEPT ![w] = FALSE]
       /\ write_thread' = w
  /\ UNCHANGED <<deviceVars, on, rc, tfa_lock, mutex, initializing, clock_enabled, writing,
                 pcm, fault, ic>>

\* tfa_clock_on up to the handshake.  tfa_power ignores -EBUSY, and nobody
\* looks at the result of pthread_create.
ClockOn(c) ==
  /\ Goto(c, "clock_on", IF clock_enabled THEN "enable" ELSE "mutex")
  /\ initializing' = (initializing \/ ~clock_enabled)
  /\ \/ ~clock_enabled /\ \E w \in Writers :
          /\ WriterGoto(w, "none", "pcm_open")
          /\ signaled' = [signaled EXCEPT ![w] = FALSE]
          /\ write_thread' = w
     \/ (clock_enabled \/ CreateFaults) /\ UNCHANGED <<wpc, signaled, write_thread>>
  /\ UNCHANGED <<deviceVars, on, rc, tfa_lock, mutex, clock_enabled, writing, pcm, fault, ic>>

Mutex(c) ==
  /\ mutex = NoThread /\ mutex' = c
  /\ Goto(c, "mutex", "check")
  /\ UNCHANGED <<deviceVars, on, rc, tfa_lock, flagVars, writerVars, ic>>

\* pthread_cond_wait gives the mutex back and sleeps in one step.
Wait(c) ==
  /\ ~writing
  /\ Goto(c, "check", "waiting")
  /\ mutex' = NoThread
  /\ UNCHANGED <<deviceVars, on, rc, tfa_lock, flagVars, writerVars, ic>>

SpuriousWakeup(c) ==
  /\ Goto(c, "waiting", "mutex")
  /\ UNCHANGED <<deviceVars, on, rc, tfa_lock, mutex, flagVars, writerVars, ic>>

\* Mutant: `if' for `while', any wakeup is taken for the signal.
ClocksEnabledByAnyWakeup(c) ==
  /\ Goto(c, "check", "enable")
  /\ mutex' = NoThread
  /\ clock_enabled' = TRUE
  /\ UNCHANGED <<deviceVars, on, rc, tfa_lock, initializing, writing, write_thread, writerVars, ic>>

ClocksEnabled(c) ==
  /\ writing
  /\ Goto(c, "check", "enable")
  /\ mutex' = NoThread
  /\ clock_enabled' = TRUE
  /\ UNCHANGED <<deviceVars, on, rc, tfa_lock, initializing, writing, write_thread, writerVars, ic>>

Enable(c) ==
  /\ Goto(c, "enable", "clock_off")
  /\ \E r \in RC :
       /\ rc' = [rc EXCEPT ![c] = r]
       /\ ic' = IF r = 0 THEN on[c] ELSE ic
  /\ UNCHANGED <<deviceVars, on, tfa_lock, mutex, flagVars, writerVars>>

\* Mutant: rc = tfa_clock_off(tfa_dev).
ClockOffReplacesResult(c) ==
  /\ clock_enabled
  /\ Goto(c, "clock_off", "join")
  /\ initializing' = FALSE
  /\ rc' = [rc EXCEPT ![c] = 0]
  /\ UNCHANGED <<deviceVars, on, tfa_lock, mutex, clock_enabled, writing, write_thread,
                 writerVars, ic>>

ClockOff(c) ==
  /\ clock_enabled
  /\ Goto(c, "clock_off", "join")
  /\ initializing' = FALSE
  /\ UNCHANGED <<deviceVars, on, rc, tfa_lock, mutex, clock_enabled, writing, write_thread,
                 writerVars, ic>>

ClockAlreadyOff(c) ==
  /\ ~clock_enabled
  /\ Goto(c, "clock_off", "unlock")
  /\ UNCHANGED <<deviceVars, on, rc, tfa_lock, mutex, flagVars, writerVars, ic>>

\* Mutant: the writer is detached instead of joined.
JoinDetaches(c) ==
  /\ write_thread # NoThread
  /\ Goto(c, "join", "unlock")
  /\ write_thread' = NoThread
  /\ clock_enabled' = FALSE
  /\ UNCHANGED <<deviceVars, on, rc, tfa_lock, mutex, initializing, writing, writerVars, ic>>

\* Mutant: clock_enabled is left set.
JoinKeepsFlag(c) ==
  /\ write_thread # NoThread
  /\ WriterGoto(write_thread, "exited", "none")
  /\ Goto(c, "join", "unlock")
  /\ write_thread' = NoThread
  /\ UNCHANGED <<deviceVars, on, rc, tfa_lock, mutex, initializing, clock_enabled, writing,
                 signaled, pcm, fault, ic>>

Join(c) ==
  /\ write_thread # NoThread
  /\ WriterGoto(write_thread, "exited", "none")
  /\ Goto(c, "join", "unlock")
  /\ write_thread' = NoThread
  /\ clock_enabled' = FALSE
  /\ UNCHANGED <<deviceVars, on, rc, tfa_lock, mutex, initializing, writing, signaled, pcm, fault, ic>>

\* Mutant: the error of pthread_join (ESRCH, 3) becomes the result.
JoinNoThreadReturnsError(c) ==
  /\ write_thread = NoThread
  /\ Goto(c, "join", "unlock")
  /\ clock_enabled' = FALSE
  /\ rc' = [rc EXCEPT ![c] = 3]
  /\ UNCHANGED <<deviceVars, on, tfa_lock, mutex, initializing, writing, write_thread,
                 writerVars, ic>>

\* Joining a pthread_t that denotes no thread is undefined: bionic aborts the
\* process (Crash below) or the call fails with ESRCH, which nobody looks at.
JoinNoThread(c) ==
  /\ write_thread = NoThread
  /\ Goto(c, "join", "unlock")
  /\ clock_enabled' = FALSE
  /\ UNCHANGED <<deviceVars, on, rc, tfa_lock, mutex, initializing, writing, write_thread,
                 writerVars, ic>>

\* tfa_power gives the lock back and returns rc[c].
Unlock(c) ==
  /\ Goto(c, "unlock", IF c = opener THEN "next" ELSE "idle")
  /\ tfa_lock' = NoThread
  /\ UNCHANGED <<deviceVars, on, rc, mutex, flagVars, writerVars, ic>>

-----------------------------------------------------------------------------
(* tfa_device_open and tfa_device_close.                                   *)

\* malloc, load_tfa_lib, the vendor's tfa_device_open, and the call of the
\* first power down.  The flags hold what malloc left there.
Open(c) ==
  /\ phase = "closed" /\ phase' = "powerdown1"
  /\ opener' = c
  /\ Enter(c, FALSE, "idle")
  /\ initializing' \in Heap /\ clock_enabled' \in Heap /\ writing' \in Heap
  /\ UNCHANGED <<rc, tfa_lock, mutex, write_thread, writerVars, ic>>

\* A negative result makes tfa_device_open return NULL.
OpenFails(c) ==
  /\ phase \in {"powerdown1", "powerup", "powerdown2"}
  /\ rc[c] < 0
  /\ Goto(c, "next", "idle")
  /\ phase' = "closed" /\ opener' = NoThread
  /\ UNCHANGED <<on, rc, tfa_lock, mutex, flagVars, writerVars, ic>>

InitClockThenPowerUp(c) ==
  /\ phase = "powerdown1" /\ phase' = "powerup"
  /\ rc[c] >= 0
  /\ writing' = FALSE /\ clock_enabled' = FALSE
  /\ fault' = FALSE
  /\ Enter(c, TRUE, "next")
  /\ UNCHANGED <<opener, rc, tfa_lock, mutex, initializing, write_thread, wpc, signaled, pcm, ic>>

PowerDownAgain(c) ==
  /\ phase = "powerup" /\ phase' = "powerdown2"
  /\ rc[c] >= 0
  /\ Enter(c, FALSE, "next")
  /\ UNCHANGED <<opener, rc, tfa_lock, mutex, flagVars, writerVars, ic>>

\* Mutant: the result of the second power down is not looked at.
OpenSucceedsAnyway(c) ==
  /\ phase = "powerdown2" /\ phase' \in {"open", "closed"}
  /\ Goto(c, "next", "idle")
  /\ opener' = NoThread
  /\ UNCHANGED <<on, rc, tfa_lock, mutex, flagVars, writerVars, ic>>

\* The HAL that gets the device may have no memory for its own part of it, and
\* then loses it (amplifier.c:163-167).
OpenSucceeds(c) ==
  /\ phase = "powerdown2" /\ phase' \in {"open", "closed"}
  /\ rc[c] >= 0
  /\ Goto(c, "next", "idle")
  /\ opener' = NoThread
  /\ UNCHANGED <<on, rc, tfa_lock, mutex, flagVars, writerVars, ic>>

\* The HAL closes a device nobody is using: tfa_lock is destroyed at the end.
Close(c) ==
  /\ phase = "open" /\ phase' = "closing"
  /\ \A d \in Callers : pc[d] = "idle"
  /\ opener' = c
  /\ Enter(c, FALSE, "idle")
  /\ UNCHANGED <<rc, tfa_lock, mutex, flagVars, writerVars, ic>>

Free(c) ==
  /\ phase = "closing" /\ phase' = "closed"
  /\ Goto(c, "next", "idle")
  /\ opener' = NoThread
  /\ UNCHANGED <<on, rc, tfa_lock, mutex, flagVars, writerVars, ic>>

\* The process dies at any moment and init starts it again: its memory,
\* threads and streams are gone, the IC stays as it is.
Crash ==
  /\ phase' = "closed" /\ opener' = NoThread
  /\ pc' = [c \in Callers |-> "idle"]
  /\ on' = [c \in Callers |-> FALSE]
  /\ rc' = [c \in Callers |-> 0]
  /\ tfa_lock' = NoThread /\ mutex' = NoThread
  /\ initializing' = FALSE /\ clock_enabled' = FALSE /\ writing' = FALSE
  /\ write_thread' = NoThread
  /\ wpc' = [w \in Writers |-> "none"]
  /\ signaled' = [w \in Writers |-> FALSE]
  /\ pcm' = [w \in Writers |-> "closed"]
  /\ fault' = FALSE
  /\ UNCHANGED ic

-----------------------------------------------------------------------------
(* write_dummy_data, for a writer w.                                       *)

callerVars == <<deviceVars, pc, on, rc, tfa_lock, initializing, clock_enabled, write_thread, ic>>

PcmOpen(w) ==
  /\ WriterGoto(w, "pcm_open", "calloc")
  /\ pcm' = [pcm EXCEPT ![w] = "open"]
  /\ UNCHANGED <<callerVars, mutex, writing, signaled, fault>>

\* A stream that is not ready is closed, unless the device was busy.
PcmOpenFails(w) ==
  /\ AudioFaults
  /\ WriterGoto(w, "pcm_open", "pcm_close") \/ WriterGoto(w, "pcm_open", "exit")
  /\ fault' = TRUE
  /\ UNCHANGED <<callerVars, mutex, writing, signaled, pcm>>

Calloc(w) ==
  /\ WriterGoto(w, "calloc", "pcm_write")
  /\ UNCHANGED <<callerVars, mutex, writing, signaled, pcm, fault>>

CallocFails(w) ==
  /\ AudioFaults
  /\ WriterGoto(w, "calloc", "pcm_close")
  /\ fault' = TRUE
  /\ UNCHANGED <<callerVars, mutex, writing, signaled, pcm>>

\* The first successful write starts the stream; a failed one is only logged.
PcmWrite(w) ==
  /\ WriterGoto(w, "pcm_write", IF signaled[w] THEN "test" ELSE "lock")
  /\ \/ pcm' = [pcm EXCEPT ![w] = "running"] /\ UNCHANGED fault
     \/ AudioFaults /\ fault' = TRUE /\ UNCHANGED pcm
  /\ UNCHANGED <<callerVars, mutex, writing, signaled>>

WriterLock(w) ==
  /\ mutex = NoThread /\ mutex' = w
  /\ WriterGoto(w, "lock", "signal")
  /\ UNCHANGED <<callerVars, writing, signaled, pcm, fault>>

\* Sets writing, wakes a waiting caller and unlocks; then back to the loop,
\* or to the end of the thread if this is the signal at `exit'.
Signal(w) ==
  /\ WriterGoto(w, "signal", IF pcm[w] = "closed" THEN "exited" ELSE "test")
  /\ writing' = TRUE
  /\ signaled' = [signaled EXCEPT ![w] = TRUE]
  /\ mutex' = NoThread
  /\ LET asleep == {c \in Callers : pc[c] = "waiting"}
     IN  IF asleep = {} THEN UNCHANGED pc
         ELSE \E c \in asleep : pc' = [pc EXCEPT ![c] = "mutex"]
  /\ UNCHANGED <<deviceVars, on, rc, tfa_lock, initializing, clock_enabled, write_thread,
                 pcm, fault, ic>>

Test(w) ==
  /\ WriterGoto(w, "test", IF initializing THEN "pcm_write" ELSE "reset")
  /\ UNCHANGED <<callerVars, mutex, writing, signaled, pcm, fault>>

\* Mutant: the flag is not reset.
ResetForgotten(w) ==
  /\ WriterGoto(w, "reset", "pcm_close")
  /\ fault' = FALSE
  /\ UNCHANGED <<callerVars, mutex, writing, signaled, pcm>>

\* Only a writer that got as far as its loop resets the flag.
Reset(w) ==
  /\ WriterGoto(w, "reset", "pcm_close")
  /\ writing' = FALSE
  /\ fault' = FALSE
  /\ UNCHANGED <<callerVars, mutex, signaled, pcm>>

PcmClose(w) ==
  /\ WriterGoto(w, "pcm_close", "exit")
  /\ pcm' = [pcm EXCEPT ![w] = "closed"]
  /\ UNCHANGED <<callerVars, mutex, writing, signaled, fault>>

\* Mutant: a writer that failed ends without the signal.
ExitSilently(w) ==
  /\ WriterGoto(w, "exit", "exited")
  /\ UNCHANGED <<callerVars, mutex, writing, signaled, pcm, fault>>

Exit(w) ==
  /\ WriterGoto(w, "exit", IF signaled[w] THEN "exited" ELSE "lock")
  /\ UNCHANGED <<callerVars, mutex, writing, signaled, pcm, fault>>

-----------------------------------------------------------------------------

\* The steps that take a caller through a tfa_power it has begun.
Progress(c) ==
  \/ Lock(c) \/ ClockOn(c) \/ Mutex(c) \/ Wait(c) \/ ClocksEnabled(c) \/ Enable(c)
  \/ ClockOff(c) \/ ClockAlreadyOff(c) \/ Join(c) \/ JoinNoThread(c) \/ Unlock(c)

Lifecycle(c) ==
  \/ Power(c) \/ Open(c) \/ OpenFails(c) \/ InitClockThenPowerUp(c)
  \/ PowerDownAgain(c) \/ OpenSucceeds(c) \/ Close(c) \/ Free(c)

WriterStep(w) ==
  \/ PcmOpen(w) \/ PcmOpenFails(w) \/ Calloc(w) \/ CallocFails(w) \/ PcmWrite(w)
  \/ WriterLock(w) \/ Signal(w) \/ Test(w) \/ Reset(w) \/ PcmClose(w) \/ Exit(w)

Next ==
  \/ \E c \in Callers : Progress(c) \/ SpuriousWakeup(c) \/ Lifecycle(c)
  \/ \E w \in Writers : WriterStep(w)
  \/ Crash

Spec == Init /\ [][Next]_vars

\* The scheduler runs every runnable thread, and spurious wakeups of the caller
\* do not keep the handshake mutex from a writer for ever.  Nobody owes a call,
\* and tfa_lock is promised to no one of the callers in particular.
FairSpec ==
  /\ Spec
  /\ \A c \in Callers : WF_vars(Progress(c))
  /\ \A w \in Writers : WF_vars(WriterStep(w)) /\ SF_vars(WriterLock(w))

=============================================================================
