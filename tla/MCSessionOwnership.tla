------------------------ MODULE MCSessionOwnership ------------------------
(* A small instance of SessionOwnership for TLC. *)
EXTENDS SessionOwnership, TLC

CONSTANTS r1, r2, c1

MCRuntimes == {r1, r2}
MCClones == {c1}
MCHandle == c1 :> r1
=============================================================================
