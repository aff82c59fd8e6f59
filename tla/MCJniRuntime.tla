----------------------------- MODULE MCJniRuntime -----------------------------
(* Instances of JniRuntime for TLC. *)
EXTENDS JniRuntime, TLC

CONSTANTS b1, w1, w2, j1

TwoWorkers == {w1, w2}
OneBlock == {b1}
OneJava == {j1}
=============================================================================
