--------------------------- MODULE MCSwarmRegistry ---------------------------
(* Small instances of SwarmRegistry for TLC.  Swarms, spawn calls and       *)
(* salvagers are interchangeable; sessions are ordered and are not.         *)
EXTENDS SwarmRegistry, TLC

Symmetry ==
    Permutations(Swarms) \cup Permutations(Calls) \cup Permutations(Salvagers)
=============================================================================
