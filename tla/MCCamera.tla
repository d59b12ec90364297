------------------------------ MODULE MCCamera ------------------------------
(***************************************************************************)
(* CameraWrapper for TLC: two threads, two vendor devices, one camera, and *)
(* camera ids from below the first to beyond the last.                     *)
(***************************************************************************)
EXTENDS CameraProps, FiniteSets, TLC

CONSTANTS t1, t2, d1, d2

MCThreads == {t1, t2}
MCDevices == {d1, d2}
MCIds == -1 .. NumCameras + 1

\* A camera, one that the bounds check lets through and the vendor refuses (a
\* negative id goes the same way), and one that the check stops.
MCKinds == {0, NumCameras, NumCameras + 1}

MCSymmetry == Permutations(MCThreads) \cup Permutations(MCDevices)

=============================================================================
