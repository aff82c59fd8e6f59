--------------------------- MODULE MCPeerLifecycle ---------------------------
(* Instances of PeerLifecycle for TLC. *)
EXTENDS PeerLifecycle, TLC

CONSTANTS p1, c1, c2, a1, n1, n2

OnePeer == {p1}
Local   == {c1}
Both    == {c1, c2}

OwnedByP1 == [c \in Channels |-> p1]

SecondRemote == {c2}
AllRemote    == Channels

OneApp    == {a1}
OneNative == {n1}
TwoNative == {n1, n2}

(* With EveryListener closing, the native threads are interchangeable. *)
NativeSymmetry == Permutations(TwoNative)

(* Who closes what: every listener everything, and the application thread  *)
(* the peer, and with it the channels; one application thread everything;  *)
(* or the listeners of one native thread everything.                       *)
EveryListener == (NativeThreads \X Objects) \cup (AppThreads \X Peers)
OneCloser  == {a1} \X Objects
InCallback == {n1} \X Objects

AnyClient    == {EveryListener}
OneClient    == {OneCloser}
CloseClients == {OneCloser, InCallback}
=============================================================================
