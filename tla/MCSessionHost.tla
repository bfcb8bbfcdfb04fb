--------------------------- MODULE MCSessionHost ---------------------------
(* A small instance of SessionHost for TLC.  Liveness is checked, so no     *)
(* symmetry is used.                                                        *)
EXTENDS SessionHost, TLC
=============================================================================
