-------------------------- MODULE MCMessageExchange --------------------------
(* The instance of MessageExchange for TLC. *)
EXTENDS MessageExchange
=============================================================================
