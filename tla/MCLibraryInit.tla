---------------------------- MODULE MCLibraryInit ----------------------------
(* Instances of LibraryInit for TLC. *)
EXTENDS LibraryInit, TLC

CONSTANTS t1, t2, t3

ThreeThreads == {t1, t2, t3}
=============================================================================
