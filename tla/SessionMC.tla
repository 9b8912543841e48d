----------------------------- MODULE SessionMC -----------------------------
(* Instances of Session for TLC: heaps of eight L2 blocks, six of which    *)
(* the mailboxes need, and three L3 blocks.                                *)
EXTENDS Session

TwoRegions == [l \in Level |-> IF l = "l2" THEN 32 ELSE 12]
=============================================================================
