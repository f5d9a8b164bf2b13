------------------------ MODULE MCAcquisitionPermits ------------------------
(* Instances of AcquisitionPermits for TLC.                                *)
EXTENDS AcquisitionPermits, TLC

Symmetry == Permutations(Run)
=============================================================================
