------------------------------ MODULE IslandMC ------------------------------
(* The three platforms, for TLC. *)
EXTENDS Island

AllPlatforms == {"safety", "spatz", "occamy"}
=============================================================================
