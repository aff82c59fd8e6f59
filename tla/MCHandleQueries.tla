---------------------------- MODULE MCHandleQueries ----------------------------
(* The instance of HandleQueries for TLC. *)
EXTENDS HandleQueries, TLC

CONSTANTS t1, t2

TwoThreads == {t1, t2}
ThreadSymmetry == Permutations(TwoThreads)
=============================================================================
