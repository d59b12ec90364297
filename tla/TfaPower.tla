------------------------------ MODULE TfaPower ------------------------------
(***************************************************************************)
(* What tfa_power (amplifier/tfa.c) promises to the amplifier HAL: a       *)
(* power switch shared by several callers.  A call takes effect at one     *)
(* instant between its invocation and its return, at which exactly one     *)
(* command is sent to the amplifier IC; the caller gets the result of that *)
(* command; nothing else ever touches the IC.  Threads, the mutexes and    *)
(* the clock do not appear here: module Tfa shows how the code keeps the   *)
(* promise.                                                                *)
(***************************************************************************)
EXTENDS Integers

CONSTANTS
  Callers,   \* threads of the audio HAL that call tfa_power
  RC         \* what the vendor function tfa_enable may return, 0 is success

ASSUME RCAssumption == RC \subseteq Int /\ 0 \in RC

VARIABLES
  ic,        \* is the IC on: the last command it accepted
  call       \* what each caller is doing

powerVars == <<ic, call>>

Idle == [st |-> "idle"]

\* The state of the IC once it has answered r to the command `on'.
Commanded(old, on, r) == IF r = 0 THEN on ELSE old

PowerInit ==
  /\ ic \in BOOLEAN
  /\ call = [c \in Callers |-> Idle]

Call(c, on) ==
  /\ call[c] = Idle
  /\ call' = [call EXCEPT ![c] = [st |-> "called", on |-> on]]
  /\ UNCHANGED ic

Invoke(c) == \E on \in BOOLEAN : Call(c, on)

\* The linearisation point: one command, and its answer is kept for c.
Command(c) ==
  /\ call[c].st = "called"
  /\ \E r \in RC :
       /\ ic' = Commanded(ic, call[c].on, r)
       /\ call' = [call EXCEPT ![c] = [st |-> "done", rc |-> r]]

Respond(c) ==
  /\ call[c].st = "done"
  /\ call' = [call EXCEPT ![c] = Idle]
  /\ UNCHANGED ic

\* The process dies: its calls are gone, the IC stays as it is.
Die ==
  /\ call' = [c \in Callers |-> Idle]
  /\ UNCHANGED ic

PowerNext ==
  \/ \E c \in Callers : Invoke(c) \/ Command(c) \/ Respond(c)
  \/ Die

PowerSpec == PowerInit /\ [][PowerNext]_powerVars

=============================================================================
