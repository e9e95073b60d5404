----------------------------- MODULE MCPagePool -----------------------------
(* PagePool with callers that TLC may exchange.                            *)
EXTENDS PagePool, TLC

CallerSymmetry == Permutations(Callers)
=============================================================================
