----------------------------- MODULE RingBufMC -----------------------------
(* Instances of RingBuf for TLC. *)
EXTENDS RingBuf, TLC

ByteSymmetry == Permutations(Byte)
=============================================================================
