---------------------- MODULE MCEventListenerContainer ----------------------
(* Instances of EventListenerContainer for TLC. *)
EXTENDS EventListenerContainer

CONSTANTS a1, a2, n1, n2, l1, l2

MCListeners == {l1, l2}
MCNative    == {n1, n2}
MCApp       == {a1, a2}
MCOne       == {a1}
MCOneNative == {n1}
=============================================================================
