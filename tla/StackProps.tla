----------------------------- MODULE StackProps -----------------------------
(***************************************************************************)
(* The properties of AmplifierStack.                                       *)
(***************************************************************************)
EXTENDS AmplifierStack

\* The HAL on its threads is the HAL on an atomic switch: what holds of Amplifier
\* holds of the two programs together (amplifier.c:80-194 over tfa.c:181-295).
ImplementsHAL == AmpSpec

\* No handler leaves anything behind in the driver (amplifier.c:118, amplifier.c:134,
\* amplifier.c:157): between two of them nobody is inside tfa.c, no writer lives, the
\* clock is off, and there is a device of the driver exactly if the HAL has one.
QuietBetweenHandlers ==
  job = NoJob =>
    /\ phase = IF live THEN "open" ELSE "closed"
    /\ tfa_lock = NoThread
    /\ \A c \in Callers : pc[c] = "idle"
    /\ \A w \in Writers : wpc[w] = "none" /\ pcm[w] = "closed"
    /\ ~clock_enabled

-----------------------------------------------------------------------------
(* The inductive invariant behind the theorems of StackProofs.             *)

CallsOf(p) == CASE p = "powerdown1" -> 1 [] p = "powerup" -> 2 [] OTHER -> 3

\* The driver is where the handler under way has called it, with what it was told.
StepInv ==
  /\ call = HandlerCall
  /\ \A c \in Callers : pc[c] # "idle" => job # NoJob /\ job.by = c
  /\ job = NoJob => phase = IF live THEN "open" ELSE "closed"
  /\ job.op = "open" =>
       IF job.calls = 0 THEN phase = "closed"
       ELSE /\ phase \in {"powerdown1", "powerup", "powerdown2"}
            /\ job.calls = CallsOf(phase) /\ opener = job.by
            /\ (on[opener] <=> phase = "powerup")
  /\ job.op = "enable" => phase = "open" /\ pc[job.by] # "idle" /\ on[job.by] = job.on
  /\ job.op = "close" => phase = "closing" /\ opener = job.by

StackInv == StepInv /\ Driver!IInv /\ AmpTypeOK /\ CallInv /\ JobInv

=============================================================================
