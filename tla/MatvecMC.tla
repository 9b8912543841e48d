------------------------------ MODULE MatvecMC ------------------------------
(* Every height up to three rounds, widths of part of a chunk, one, two, and *)
(* one and a half, and one that is refused.                                  *)
EXTENDS Matvec

AllShapes == (0..5) \X (0..6)
=============================================================================
