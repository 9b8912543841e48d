------------------------------ MODULE DmaBufMC ------------------------------
(* Instances of DmaBuf for TLC. *)
EXTENDS DmaBuf, TLC

ThreadSymmetry == Permutations(Thread)
=============================================================================
