----------------------------- MODULE MCDisplay ------------------------------
(***************************************************************************)
(* The livedisplay service for TLC: a panel that takes all modes but the   *)
(* last, calibrations that are numbers or are not, and a                   *)
(* number in the default file that is no mode.                             *)
(***************************************************************************)
EXTENDS ServiceProps

MCStrange == {7}

=============================================================================
