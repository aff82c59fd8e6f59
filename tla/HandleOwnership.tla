--------------------------- MODULE HandleOwnership ---------------------------
(***************************************************************************)
(* What the life cycle of peers and channels promises the native library   *)
(* about memory it handed out or was handed: handles are deleted once,     *)
(* a peer's after those of its channels; the callback record of a peer is  *)
(* freed once, after the peer; and neither goes while a handler uses it.   *)
(* How closers find out who may delete, and what they wait for, is left    *)
(* open.                                                                   *)
(***************************************************************************)

CONSTANTS Peers,     \* peer connections
          Channels,  \* data channels
          Owner,     \* the peer of each channel
          Handlers,  \* those that handle events of objects
          None       \* no object

VARIABLES handle,  \* per object: "none" yet, "live" or "gone"
          record,  \* per peer: the record that handlers use, "live" or "freed"
          using    \* per handler: the object whose event it handles

ownershipVars == <<handle, record, using>>

Objects   == Peers \cup Channels
PeerOf(o) == IF o \in Peers THEN o ELSE Owner[o]

Init ==
  /\ handle = [o \in Objects |-> IF o \in Peers THEN "live" ELSE "none"]
  /\ record = [p \in Peers |-> "live"]
  /\ using = [h \in Handlers |-> None]

(* A channel opens, of a peer that is still there ... *)
Open(c) ==
  /\ handle[c] = "none" /\ handle[Owner[c]] = "live"
  /\ handle' = [handle EXCEPT ![c] = "live"]

OpenHere(c) == Open(c) /\ UNCHANGED <<record, using>>

(* An event of o reaches a handler, which uses the record of o's peer. *)
Enter(h, o) ==
  /\ using[h] = None
  /\ handle[o] = "live" /\ record[PeerOf(o)] = "live"
  /\ using' = [using EXCEPT ![h] = o]
  /\ UNCHANGED record

HandleEvent(h, o) == Enter(h, o) /\ UNCHANGED handle

(* ... or the remote side opens it, and a handler of the peer is told. *)
OpenThere(h, c) == Open(c) /\ Enter(h, Owner[c])

Leave(h) ==
  /\ using[h] # None
  /\ using' = [using EXCEPT ![h] = None]
  /\ UNCHANGED <<handle, record>>

(* A handle goes when no handler uses the object; that of a peer goes last. *)
Delete(o) ==
  /\ handle[o] = "live"
  /\ \A h \in Handlers : using[h] # o
  /\ \A c \in Channels : Owner[c] = o => handle[c] # "live"
  /\ handle' = [handle EXCEPT ![o] = "gone"]
  /\ UNCHANGED <<record, using>>

(* The record of a peer goes after the peer, when no handler uses it. *)
Free(p) ==
  /\ handle[p] = "gone" /\ record[p] = "live"
  /\ \A h \in Handlers : using[h] # None => PeerOf(using[h]) # p
  /\ record' = [record EXCEPT ![p] = "freed"]
  /\ UNCHANGED <<handle, using>>

Next ==
  \/ \E c \in Channels : OpenHere(c)
  \/ \E h \in Handlers, o \in Objects : HandleEvent(h, o)
  \/ \E h \in Handlers, c \in Channels : OpenThere(h, c)
  \/ \E h \in Handlers : Leave(h)
  \/ \E o \in Objects : Delete(o)
  \/ \E p \in Peers : Free(p)

Spec == Init /\ [][Next]_ownershipVars
=============================================================================
