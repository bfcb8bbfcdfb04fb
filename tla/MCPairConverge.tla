-------------------------- MODULE MCPairConverge --------------------------
(* A small instance of PairConverge for TLC. *)
EXTENDS PairConverge, TLC
=============================================================================
