-------------------------- MODULE MCChannelMessages --------------------------
(* The instance of ChannelMessages for TLC. *)
EXTENDS ChannelMessages

CONSTANTS r1, r2

TwoReceivers == {r1, r2}
=============================================================================
