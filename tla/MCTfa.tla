------------------------------- MODULE MCTfa --------------------------------
(***************************************************************************)
(* Tfa for TLC: two callers and room for two writers, so that a second     *)
(* writer could start before the first has been joined.                    *)
(***************************************************************************)
EXTENDS TfaProps

CONSTANTS c1, c2, w1, w2, none

MCCallers == {c1, c2}
MCWriters == {w1, w2}

\* Success, and the two kinds of failure tfa_device_open tells apart.
MCResults == {0, -1, 1}

\* What malloc leaves behind.
MCArbitrary == BOOLEAN

=============================================================================
