------------------------------ MODULE MCStack -------------------------------
(***************************************************************************)
(* AmplifierStack for TLC: two threads of the audio HAL, two writers, up   *)
(* to two users of a mode, and a vendor library that fails with negative   *)
(* results.                                                                *)
(***************************************************************************)
EXTENDS StackProps, TLC

CONSTANTS c1, c2, w1, w2

MCCallers == {c1, c2}
MCWriters == {w1, w2}
MCResults == {0, -1}
MCSymmetry == Permutations(MCCallers) \cup Permutations(MCWriters)

=============================================================================
