---------------------------- MODULE MCBatchCheck ----------------------------
(* All batches of up to MaxLen specs with up to MaxDeps dependencies each, in *)
(* every order, with repetitions and one index past the end.                  *)
EXTENDS BatchCheck

CONSTANTS MaxLen, MaxDeps

Lists(n) == UNION {[1..k -> 1..(n + 1)] : k \in 0..MaxDeps}
AllBatches == UNION {[1..n -> Lists(n)] : n \in 0..MaxLen}
=============================================================================
