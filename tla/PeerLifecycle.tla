---------------------------- MODULE PeerLifecycle ----------------------------
(***************************************************************************)
(* Peer connections, their data channels and the callbacks of both, from   *)
(* the opening of a channel to the release of the peer's callback record.  *)
(*                                                                         *)
(* Three layers share state here.  The JAVA layer keeps, per peer, the map *)
(* `channels` and, per channel, the atomic flag `closed`.  The JNI layer   *)
(* keeps one callback record per peer (struct jvm_callback), to which the  *)
(* user pointer of the peer and of every channel of it points.  The NATIVE *)
(* library, which is external, owns the handles and the threads that run   *)
(* callbacks.  Of it we use what the Javadoc of the two close methods says *)
(* of the native deletion: it waits for the callbacks of the object that   *)
(* other threads are running, and none begins after it.                    *)
(*                                                                         *)
(* A close call is a sequence of steps of its thread, and so is a creation *)
(* of a channel, because other threads see what lies between the steps.    *)
(***************************************************************************)
EXTENDS Naturals, FiniteSets

CONSTANTS Peers,         \* peer connections, already created
          Channels,      \* data channels
          Owner,         \* the peer of each channel
          Remote,        \* the channels the remote side opens
          AppThreads,    \* threads of the application
          NativeThreads, \* threads of the native library
          Clients,       \* kinds of clients: sets of pairs <<t, o>>, see closes
          ListenerCount, \* listeners registered per event
          StackDepth,    \* bound: nested closeChannels a stack holds
          LateOpens,     \* channels may open while their peer is closed
          LostOpens,     \* the callback for a new channel may come to nothing
          DeleteMayFail, \* rtcDeletePeerConnection may report a failure
          None           \* no object

Threads == AppThreads \cup NativeThreads
Objects == Peers \cup Channels

ASSUME LifecycleAssumption ==
  /\ AppThreads \cap NativeThreads = {}
  /\ Peers \cap Channels = {}
  /\ None \notin Objects
  /\ Owner \in [Channels -> Peers]
  /\ Clients \subseteq SUBSET (Threads \X Objects)
  /\ Remote \subseteq Channels
  /\ ListenerCount \in Nat \ {0}
  /\ StackDepth \in Nat
  /\ LateOpens \in BOOLEAN
  /\ LostOpens \in BOOLEAN
  /\ DeleteMayFail \in BOOLEAN

VARIABLES
  native,      \* per object: the state of its native handle
  record,      \* per peer: its struct jvm_callback
  userPtr,     \* objects whose user pointer is their peer's record
  hooked,      \* objects with native callbacks installed
  shut,        \* objects whose event containers are closed
  channels,    \* the channels in the map of their peer
  closedFlag,  \* the channels whose `closed` flag is set
  cleaned,     \* the peers whose Cleaner action has been run
  callback,    \* per native thread: the callback it is running
  opening,     \* per thread: its createDataChannel call
  closing,     \* per thread: its DataChannel.close call
  tearing,     \* per thread: its PeerConnection.close call
  closes,      \* the client: pairs <<t, o>>, its code on t may close o
  returned,    \* history: objects on which a close call has returned
  aborted      \* history: peers whose close call ended with an Error

sharedVars == <<native, record, userPtr, hooked, shut, channels, closedFlag,
                cleaned>>
history == <<closes, returned, aborted>>
vars == <<native, record, userPtr, hooked, shut, channels, closedFlag, cleaned,
          callback, opening, closing, tearing, closes, returned, aborted>>

OwnerOf(o) == IF o \in Peers THEN o ELSE Owner[o]

NoCallback == [phase |-> "idle", obj |-> None, new |-> None, left |-> 0]
NoOpening  == [step |-> "no", chan |-> None, ptr |-> FALSE]
NoClosing  == [step |-> "no", chan |-> None]
NoTearing  == [step |-> "no", peer |-> None, work |-> {}, depth |-> 0]

(* Peers start as createPeer leaves them: the handle is open, the record   *)
(* allocated and the user pointer set.                                     *)
Init ==
  /\ native = [o \in Objects |-> IF o \in Peers THEN "open" ELSE "absent"]
  /\ record = [p \in Peers |-> "live"]
  /\ userPtr = Peers
  /\ hooked = {}
  /\ shut = {}
  /\ channels = {}
  /\ closedFlag = {}
  /\ cleaned = {}
  /\ callback = [n \in NativeThreads |-> NoCallback]
  /\ opening = [t \in Threads |-> NoOpening]
  /\ closing = [t \in Threads |-> NoClosing]
  /\ tearing = [t \in Threads |-> NoTearing]
  /\ closes \in Clients
  /\ returned = {}
  /\ aborted = {}

(* Client code runs on a thread: an application thread, or a native thread *)
(* inside a listener, with no call into the binding under way.             *)
Client(t) ==
  /\ t \in NativeThreads => callback[t].phase = "client"
  /\ opening[t].step = "no"
  /\ closing[t].step = "no"
  /\ tearing[t].step = "no"

(* A PeerConnection.close of p has begun. *)
TearingDown(p) ==
  \/ p \in cleaned
  \/ \E t \in Threads : tearing[t].peer = p

(* Without LateOpens the client closes a peer only when none of its        *)
(* channels is on its way, and opens none afterwards.                      *)
MayOpen(p) == LateOpens \/ ~TearingDown(p)
MayTearDown(p) ==
  LateOpens \/
  /\ \A t \in Threads : opening[t].step # "no" => Owner[opening[t].chan] # p
  /\ \A n \in NativeThreads : callback[n].new # None => callback[n].obj # p

-----------------------------------------------------------------------------
(* Faulty variants, each the change a plausible bug would make; no action  *)
(* below uses them.                                                        *)

WinCloseAlways(t, c) ==  \* no compareAndSet
  /\ closedFlag' = closedFlag \cup {c}
  /\ closing' = [closing EXCEPT ![t] = [step |-> "native", chan |-> c]]

CloseWithoutDelete(t) ==  \* rtcDeleteDataChannel is left out
  /\ closing[t].step = "native"
  /\ closing' = [closing EXCEPT ![t].step = "drop"]
  /\ native' = [native EXCEPT ![closing[t].chan] = "closed"]
  /\ UNCHANGED <<record, userPtr, hooked, shut, channels, closedFlag, cleaned,
                 callback, opening, tearing, history>>

DropNothing(t) ==  \* dropChannelState is left out
  /\ closing[t].step = "drop"
  /\ closing' = [closing EXCEPT ![t].step = "unhook"]
  /\ UNCHANGED <<sharedVars, callback, opening, tearing, history>>

CheckNothing(t) ==  \* closeChannels makes one pass only
  /\ tearing[t].step = "loop" /\ closing[t].step = "no"
  /\ tearing[t].work = {}
  /\ tearing' = [tearing EXCEPT ![t].step = "clean"]
  /\ UNCHANGED <<sharedVars, callback, opening, closing, history>>

UnhookAwaitsDispatch(t) ==  \* the containers wait for their dispatches
  /\ closing[t].step = "unhook"
  /\ \A n \in NativeThreads : callback[n].obj # closing[t].chan
  /\ hooked' = hooked \ {closing[t].chan}
  /\ shut' = shut \cup {closing[t].chan}
  /\ returned' = returned \cup {closing[t].chan}
  /\ closing' = [closing EXCEPT ![t] = NoClosing]
  /\ UNCHANGED <<native, record, userPtr, channels, closedFlag, cleaned,
                 callback, opening, tearing, closes, aborted>>

FreeBeforeDelete(t) ==  \* free_callback comes before the deletion
  /\ tearing[t].step = "delete" /\ closing[t].step = "no"
  /\ record' = [record EXCEPT ![tearing[t].peer] = "freed"]
  /\ tearing' = [tearing EXCEPT ![t].step = "await"]
  /\ UNCHANGED <<native, userPtr, hooked, shut, channels, closedFlag, cleaned,
                 callback, opening, closing, history>>

ReadPointerAfterDelete(t) ==  \* rtcGetUserPointer yields NULL by then
  /\ tearing[t].step = "await" /\ closing[t].step = "no"
  /\ \A n \in NativeThreads \ {t} : callback[n].obj # tearing[t].peer
  /\ native' = [native EXCEPT ![tearing[t].peer] = "deleted"]
  /\ userPtr' = userPtr \ {tearing[t].peer}
  /\ tearing' = [tearing EXCEPT ![t].step = "unhook"]
  /\ UNCHANGED <<record, hooked, shut, channels, closedFlag, cleaned,
                 callback, opening, closing, history>>

-----------------------------------------------------------------------------
(* Listening: the first listener of an event installs the native callback. *)

Listen(t, o) ==
  /\ Client(t)
  /\ o \in Peers \cup channels
  /\ o \notin hooked \cup shut  \* register throws on a closed container
  /\ native[o] \in {"open", "closed"}
  /\ hooked' = hooked \cup {o}
  /\ UNCHANGED <<native, record, userPtr, shut, channels, closedFlag, cleaned,
                 callback, opening, closing, tearing, history>>

-----------------------------------------------------------------------------
(* createDataChannel *)

Opening(t, step) == opening[t].step = step

(* rtcCreateDataChannelEx hands out a fresh handle. *)
Create(t, c) ==
  /\ Client(t)
  /\ c \notin Remote
  /\ native[c] = "absent"
  /\ native[Owner[c]] = "open"
  /\ MayOpen(Owner[c])
  /\ native' = [native EXCEPT ![c] = "open"]
  /\ opening' = [opening EXCEPT ![t] = [step |-> "get", chan |-> c, ptr |-> FALSE]]
  /\ UNCHANGED <<record, userPtr, hooked, shut, channels, closedFlag, cleaned,
                 callback, closing, tearing, history>>

(* rtcGetUserPointer(peerHandle) yields NULL once the peer is deleted. *)
GetPeerPointer(t) ==
  /\ Opening(t, "get")
  /\ LET p == Owner[opening[t].chan] IN
       opening' = [opening EXCEPT
         ![t].step = "set",
         ![t].ptr = p \in userPtr /\ native[p] # "deleted"]
  /\ UNCHANGED <<sharedVars, callback, closing, tearing, history>>

(* rtcSetUserPointer(result, ...) *)
SetChannelPointer(t) ==
  /\ Opening(t, "set")
  /\ userPtr' = IF opening[t].ptr THEN userPtr \cup {opening[t].chan} ELSE userPtr
  /\ opening' = [opening EXCEPT ![t].step = "put"]
  /\ UNCHANGED <<native, record, hooked, shut, channels, closedFlag, cleaned,
                 callback, closing, tearing, history>>

(* Back in Java: channels.put, and the object goes to the client. *)
PutChannel(t) ==
  /\ Opening(t, "put")
  /\ channels' = channels \cup {opening[t].chan}
  /\ opening' = [opening EXCEPT ![t] = NoOpening]
  /\ UNCHANGED <<native, record, userPtr, hooked, shut, closedFlag, cleaned,
                 callback, closing, tearing, history>>

-----------------------------------------------------------------------------
(* Callbacks *)

Running(n, o) == callback[n].obj = o

(* The native deletion of o is waiting: no callback of o is scheduled any  *)
(* more.  (One that was scheduled and has not started counts as started.)  *)
AwaitsDeletion(t, o) ==
  \/ closing[t] = [step |-> "await", chan |-> o]
  \/ tearing[t].step = "await" /\ tearing[t].peer = o

BeingDeleted(o) == \E t \in Threads : AwaitsDeletion(t, o)

(* The library raises an event of o.  It passes the user pointer it reads  *)
(* now; the handler dereferences it later, in Dispatch.  (A handler whose  *)
(* pointer is NULL returns at once.)                                       *)
Raise(n, o) ==
  /\ callback[n].phase = "idle"
  /\ o \in hooked \cap userPtr
  /\ native[o] \in {"open", "closed"} /\ ~BeingDeleted(o)
  /\ callback' = [callback EXCEPT
       ![n] = [phase |-> "entered", obj |-> o, new |-> None, left |-> 0]]
  /\ UNCHANGED <<sharedVars, opening, closing, tearing, history>>

(* The remote side opens c: an event of the peer that carries c's handle. *)
RemoteOpens(n, c) ==
  /\ callback[n].phase = "idle"
  /\ c \in Remote
  /\ native[c] = "absent"
  /\ Owner[c] \in hooked \cap userPtr
  /\ native[Owner[c]] = "open"
  /\ MayOpen(Owner[c])
  /\ native' = [native EXCEPT ![c] = "open"]
  /\ callback' = [callback EXCEPT
       ![n] = [phase |-> "entered", obj |-> Owner[c], new |-> c, left |-> 0]]
  /\ UNCHANGED <<record, userPtr, hooked, shut, channels, closedFlag, cleaned,
                 opening, closing, tearing, history>>

ToClient(n) ==
  callback' = [callback EXCEPT ![n].phase = "client",
                               ![n].left = ListenerCount - 1]

(* The handler of a new channel sets its user pointer, enters it in the    *)
(* map (newChannel) and calls the listeners.                               *)
DispatchNewChannel(n) ==
  /\ callback[n].phase = "entered"
  /\ callback[n].new # None
  /\ userPtr' = userPtr \cup {callback[n].new}
  /\ channels' = channels \cup {callback[n].new}
  /\ ToClient(n)
  /\ UNCHANGED <<native, record, hooked, shut, closedFlag, cleaned,
                 opening, closing, tearing, history>>

(* Any other event goes to the listeners, unless its container is closed;  *)
(* an event of a channel that is no longer in the map is dropped.          *)
DispatchEvent(n) ==
  /\ callback[n].phase = "entered"
  /\ callback[n].new = None
  /\ IF callback[n].obj \in (Peers \cup channels) \ shut
       THEN ToClient(n)
       ELSE callback' = [callback EXCEPT ![n] = NoCallback]
  /\ UNCHANGED <<sharedVars, opening, closing, tearing, history>>

(* Either handler on a thread that cannot be attached to the VM returns    *)
(* without a call of Java.  A new channel stays open then, and no map has  *)
(* it; without LostOpens this does not happen to new channels.             *)
MissCallback(n) ==
  /\ callback[n].phase = "entered"
  /\ callback[n].new # None => LostOpens
  /\ userPtr' = userPtr \cup ({callback[n].new} \ {None})
  /\ callback' = [callback EXCEPT ![n] = NoCallback]
  /\ UNCHANGED <<native, record, hooked, shut, channels, closedFlag, cleaned,
                 opening, closing, tearing, history>>

(* invoke calls the next listener of its snapshot, or returns. *)
NextListener(n) ==
  /\ callback[n].phase = "client"
  /\ Client(n)
  /\ callback[n].left > 0
  /\ callback' = [callback EXCEPT ![n].left = @ - 1]
  /\ UNCHANGED <<sharedVars, opening, closing, tearing, history>>

EndCallback(n) ==
  /\ callback[n].phase = "client"
  /\ Client(n)
  /\ callback[n].left = 0
  /\ callback' = [callback EXCEPT ![n] = NoCallback]
  /\ UNCHANGED <<sharedVars, opening, closing, tearing, history>>

(* The native deletion of o by t waits for the callbacks of o on other     *)
(* threads, not for the one t itself may be in.                            *)
DeletionAllowed(t, o) == \A n \in NativeThreads \ {t} : ~Running(n, o)

-----------------------------------------------------------------------------
(* DataChannel.close *)

ClosingAt(t, step) == closing[t].step = step

(* The winner of the compareAndSet goes on. *)
WinClose(t, c) ==
  /\ c \notin closedFlag
  /\ closedFlag' = closedFlag \cup {c}
  /\ closing' = [closing EXCEPT ![t] = [step |-> "native", chan |-> c]]

(* The client calls close on a channel it has seen. *)
CloseChannel(t, c) ==
  /\ Client(t)
  /\ <<t, c>> \in closes
  /\ c \in channels
  /\ WinClose(t, c)
  /\ UNCHANGED <<native, record, userPtr, hooked, shut, channels, cleaned,
                 callback, opening, tearing, history>>

(* A call that finds the flag set returns at once. *)
CloseChannelAgain(t, c) ==
  /\ Client(t)
  /\ <<t, c>> \in closes
  /\ c \in closedFlag
  /\ returned' = returned \cup {c}
  /\ UNCHANGED <<sharedVars, callback, opening, closing, tearing, closes, aborted>>

(* rtcClose; an unknown handle is not deleted again. *)
NativeCloseChannel(t) ==
  /\ ClosingAt(t, "native")
  /\ LET c == closing[t].chan IN
       /\ closing' = [closing EXCEPT ![t].step =
                        IF native[c] = "deleted" THEN "drop" ELSE "delete"]
       /\ native' = [native EXCEPT ![c] = IF @ = "deleted" THEN @ ELSE "closed"]
  /\ UNCHANGED <<record, userPtr, hooked, shut, channels, closedFlag, cleaned,
                 callback, opening, tearing, history>>

(* rtcDeleteDataChannel: the call is made, waits and returns. *)
CallDeleteChannel(t) ==
  /\ ClosingAt(t, "delete")
  /\ closing' = [closing EXCEPT ![t].step = "await"]
  /\ UNCHANGED <<sharedVars, callback, opening, tearing, history>>

DeleteChannel(t) ==
  /\ ClosingAt(t, "await")
  /\ LET c == closing[t].chan IN
       /\ DeletionAllowed(t, c)
       /\ native' = [native EXCEPT ![c] = "deleted"]
       /\ userPtr' = userPtr \ {c}
  /\ closing' = [closing EXCEPT ![t].step = "drop"]
  /\ UNCHANGED <<record, hooked, shut, channels, closedFlag, cleaned,
                 callback, opening, tearing, history>>

(* peer.dropChannelState *)
DropChannel(t) ==
  /\ ClosingAt(t, "drop")
  /\ channels' = channels \ {closing[t].chan}
  /\ closing' = [closing EXCEPT ![t].step = "unhook"]
  /\ UNCHANGED <<native, record, userPtr, hooked, shut, closedFlag, cleaned,
                 callback, opening, tearing, history>>

(* The six containers are closed and the call returns. *)
UnhookChannel(t) ==
  /\ ClosingAt(t, "unhook")
  /\ hooked' = hooked \ {closing[t].chan}
  /\ shut' = shut \cup {closing[t].chan}
  /\ returned' = returned \cup {closing[t].chan}
  /\ closing' = [closing EXCEPT ![t] = NoClosing]
  /\ UNCHANGED <<native, record, userPtr, channels, closedFlag, cleaned,
                 callback, opening, tearing, closes, aborted>>

-----------------------------------------------------------------------------
(* PeerConnection.close *)

TearingAt(t, step) == tearing[t].step = step /\ closing[t].step = "no"

ClosePeer(t, p) ==
  /\ Client(t)
  /\ <<t, p>> \in closes
  /\ MayTearDown(p)
  /\ tearing' = [tearing EXCEPT
       ![t] = [step |-> "scan", peer |-> p, work |-> {}, depth |-> 0]]
  /\ UNCHANGED <<sharedVars, callback, opening, closing, history>>

ChannelsOf(p) == {c \in channels : Owner[c] = p}

(* closeChannels copies the values of the map. *)
ScanChannels(t) ==
  /\ TearingAt(t, "scan")
  /\ tearing' = [tearing EXCEPT ![t].step = "loop",
                                ![t].work = ChannelsOf(tearing[t].peer)]
  /\ UNCHANGED <<sharedVars, callback, opening, closing, history>>

(* ... and closes them one by one, *)
CloseNextChannel(t, c) ==
  /\ TearingAt(t, "loop")
  /\ c \in tearing[t].work
  /\ tearing' = [tearing EXCEPT ![t].work = @ \ {c}]
  /\ \/ WinClose(t, c)
     \/ /\ c \in closedFlag
        /\ UNCHANGED <<closedFlag, closing>>
  /\ UNCHANGED <<native, record, userPtr, hooked, shut, channels, cleaned,
                 callback, opening, history>>

(* ... and calls itself while the map is not empty. *)
CheckChannels(t) ==
  /\ TearingAt(t, "loop")
  /\ tearing[t].work = {}
  /\ \/ /\ ChannelsOf(tearing[t].peer) = {}
        /\ tearing' = [tearing EXCEPT ![t].step = "clean"]
     \/ /\ ChannelsOf(tearing[t].peer) # {}
        /\ tearing[t].depth < StackDepth
        /\ tearing' = [tearing EXCEPT ![t].step = "scan", ![t].depth = @ + 1]
  /\ UNCHANGED <<sharedVars, callback, opening, closing, history>>

(* The recursion exhausts the stack.  A StackOverflowError is no Exception *)
(* and leaves close() through its catch clause.                            *)
StackOverflow(t) ==
  /\ TearingAt(t, "loop")
  /\ tearing[t].work = {}
  /\ ChannelsOf(tearing[t].peer) # {}
  /\ tearing[t].depth = StackDepth
  /\ aborted' = aborted \cup {tearing[t].peer}
  /\ tearing' = [tearing EXCEPT ![t] = NoTearing]
  /\ UNCHANGED <<sharedVars, callback, opening, closing, closes, returned>>

(* cleanable.clean() runs the Cleaner action once and for all: the first   *)
(* caller goes on to rtcClosePeerConnection, the others skip it.           *)
Clean(t) ==
  /\ TearingAt(t, "clean")
  /\ LET p == tearing[t].peer IN
       /\ cleaned' = cleaned \cup {p}
       /\ IF p \in cleaned \/ native[p] = "deleted"
            THEN /\ tearing' = [tearing EXCEPT ![t].step = "unhook"]
                 /\ UNCHANGED native
            ELSE /\ tearing' = [tearing EXCEPT ![t].step = "delete"]
                 /\ native' = [native EXCEPT ![p] = "closed"]
  /\ UNCHANGED <<record, userPtr, hooked, shut, channels, closedFlag,
                 callback, opening, closing, history>>

(* rtcDeletePeerConnection, for which the user pointer was read before: the *)
(* call is made, waits and returns.                                         *)
CallDeletePeer(t) ==
  /\ TearingAt(t, "delete")
  /\ tearing' = [tearing EXCEPT ![t].step = "await"]
  /\ UNCHANGED <<sharedVars, callback, opening, closing, history>>

DeletePeer(t) ==
  /\ TearingAt(t, "await")
  /\ DeletionAllowed(t, tearing[t].peer)
  /\ native' = [native EXCEPT ![tearing[t].peer] = "deleted"]
  /\ userPtr' = userPtr \ {tearing[t].peer}
  /\ tearing' = [tearing EXCEPT ![t].step = "free"]
  /\ UNCHANGED <<record, hooked, shut, channels, closedFlag, cleaned,
                 callback, opening, closing, history>>

(* A deletion that fails keeps the record. *)
DeletePeerFails(t) ==
  /\ DeleteMayFail
  /\ TearingAt(t, "await")
  /\ tearing' = [tearing EXCEPT ![t].step = "unhook"]
  /\ UNCHANGED <<sharedVars, callback, opening, closing, history>>

(* free_callback: the global reference and the record go. *)
FreeRecord(t) ==
  /\ TearingAt(t, "free")
  /\ record' = [record EXCEPT ![tearing[t].peer] = "freed"]
  /\ tearing' = [tearing EXCEPT ![t].step = "unhook"]
  /\ UNCHANGED <<native, userPtr, hooked, shut, channels, closedFlag, cleaned,
                 callback, opening, closing, history>>

(* The eight containers are closed and the call returns. *)
UnhookPeer(t) ==
  /\ TearingAt(t, "unhook")
  /\ hooked' = hooked \ {tearing[t].peer}
  /\ shut' = shut \cup {tearing[t].peer}
  /\ returned' = returned \cup {tearing[t].peer}
  /\ tearing' = [tearing EXCEPT ![t] = NoTearing]
  /\ UNCHANGED <<native, record, userPtr, channels, closedFlag, cleaned,
                 callback, opening, closing, closes, aborted>>

-----------------------------------------------------------------------------
(* What client code may start ... *)
Act(t) ==
  \/ \E o \in Objects : Listen(t, o)
  \/ \E c \in Channels : Create(t, c) \/ CloseChannel(t, c) \/ CloseChannelAgain(t, c)
  \/ \E p \in Peers : ClosePeer(t, p)

(* ... and what a call that was started goes through. *)
OpenStep(t) == GetPeerPointer(t) \/ SetChannelPointer(t) \/ PutChannel(t)

CloseStep(t) ==
  \/ NativeCloseChannel(t)
  \/ CallDeleteChannel(t)
  \/ DeleteChannel(t)
  \/ DropChannel(t)
  \/ UnhookChannel(t)

TearStep(t) ==
  \/ ScanChannels(t)
  \/ \E c \in Channels : CloseNextChannel(t, c)
  \/ CheckChannels(t)
  \/ StackOverflow(t)
  \/ Clean(t)
  \/ CallDeletePeer(t)
  \/ DeletePeer(t)
  \/ DeletePeerFails(t)
  \/ FreeRecord(t)
  \/ UnhookPeer(t)

Happen(n) ==
  \/ \E o \in Objects : Raise(n, o)
  \/ \E c \in Channels : RemoteOpens(n, c)

Handle(n) == DispatchNewChannel(n) \/ DispatchEvent(n) \/ MissCallback(n)

LeaveListener(n) == NextListener(n) \/ EndCallback(n)

Next ==
  \/ \E t \in Threads : Act(t) \/ OpenStep(t) \/ CloseStep(t) \/ TearStep(t)
  \/ \E n \in NativeThreads : Happen(n) \/ Handle(n) \/ LeaveListener(n)

(* Calls that have begun go on, and listeners return after finitely many   *)
(* calls of the binding; no client has to act, no event has to happen.     *)
Fairness ==
  /\ \A t \in Threads : WF_vars(OpenStep(t) \/ CloseStep(t) \/ TearStep(t))
  /\ \A n \in NativeThreads : WF_vars(Handle(n)) /\ SF_vars(LeaveListener(n))

Spec == Init /\ [][Next]_vars
FairSpec == Spec /\ Fairness

-----------------------------------------------------------------------------
(* Properties *)

HandleStates == {"absent", "open", "closed", "deleted"}

Callbacks == {NoCallback} \cup
  [phase : {"entered", "client"},
   obj   : Objects,
   new   : Channels \cup {None},
   left  : 0 .. ListenerCount - 1]

Openings == {NoOpening} \cup
  [step : {"get", "set", "put"}, chan : Channels, ptr : BOOLEAN]

Closings == {NoClosing} \cup
  [step : {"native", "delete", "await", "drop", "unhook"}, chan : Channels]

Tearings == {NoTearing} \cup
  [step  : {"scan", "loop", "clean", "delete", "await", "free", "unhook"},
   peer  : Peers,
   work  : SUBSET Channels,
   depth : 0 .. StackDepth]

TypeOK ==
  /\ native \in [Objects -> HandleStates]
  /\ record \in [Peers -> {"live", "freed"}]
  /\ userPtr \subseteq Objects
  /\ hooked \subseteq Objects
  /\ shut \subseteq Objects
  /\ channels \subseteq Channels
  /\ closedFlag \subseteq Channels
  /\ cleaned \subseteq Peers
  /\ callback \in [NativeThreads -> Callbacks]
  /\ opening \in [Threads -> Openings]
  /\ closing \in [Threads -> Closings]
  /\ tearing \in [Threads -> Tearings]
  /\ closes \in Clients
  /\ returned \subseteq Objects
  /\ aborted \subseteq Peers

(* Handles, callback records and the handlers that use them keep to the    *)
(* ownership rules of HandleOwnership: no handle is deleted twice or while *)
(* a handler is entered for its object, no peer before its channels, and   *)
(* no record is freed twice, before its peer, or while a handler that has  *)
(* the pointer is about to dereference it (DISPATCH_JNI uses cb->instance  *)
(* some time after the library read the user pointer).                     *)
Handles ==
  [o \in Objects |-> CASE native[o] = "absent"  -> "none"
                      [] native[o] = "deleted" -> "gone"
                      [] OTHER -> "live"]

Entered ==
  [n \in NativeThreads |->
     IF callback[n].phase = "entered" THEN callback[n].obj ELSE None]

Ownership == INSTANCE HandleOwnership WITH
  Handlers <- NativeThreads, handle <- Handles, using <- Entered

OwnershipSpec == Ownership!Spec

(* A handler that is about to dereference the callback record of its peer  *)
(* finds it allocated: DISPATCH_JNI uses cb->instance some time after the  *)
(* library read the user pointer, and rtcDeletePeerConnection frees it.    *)
PeerRecordLive ==
  \A n \in NativeThreads :
    callback[n].phase = "entered" /\ callback[n].obj \in Peers
      => record[callback[n].obj] = "live"

(* The same of the events of channels, which reach the record of a peer    *)
(* through a copy of its pointer that nobody clears when it is freed.      *)
ChannelRecordLive ==
  \A n \in NativeThreads :
    callback[n].phase = "entered" /\ callback[n].obj \in Channels
      => record[Owner[callback[n].obj]] = "live"

(* Whatever closers race, no thread hands a deleted channel to rtcClose or *)
(* rtcDeleteDataChannel, or a deleted peer to rtcDeletePeerConnection.     *)
NoCallOnDeleted ==
  \A t \in Threads :
    /\ closing[t].step \in {"native", "delete", "await"} =>
         native[closing[t].chan] # "deleted"
    /\ tearing[t].step \in {"delete", "await"} =>
         native[tearing[t].peer] # "deleted"

(* The native peer is deleted and its callback record freed, or some       *)
(* thread is about to do what is left of that.                             *)
Released(p) == native[p] = "deleted" /\ record[p] = "freed"

Releasing(p) ==
  \E t \in Threads :
    tearing[t].step \in {"delete", "await", "free"} /\ tearing[t].peer = p

(* A peer whose Cleaner action was run is released, with its record, or    *)
(* about to be, however closers race: the action runs once, and nobody     *)
(* else makes up for what it leaves.  Only a deletion that fails keeps the *)
(* peer, and then the record with it.                                      *)
RecordNotLeaked ==
  \A p \in Peers :
    p \in cleaned \/ native[p] = "deleted" =>
      Released(p) \/ Releasing(p) \/ (DeleteMayFail /\ native[p] # "deleted")

(* The map holds no dead channel: every channel in it still has its handle *)
(* or is being dropped by its closer.  A dead entry would make             *)
(* closeChannels call itself for ever.                                     *)
NoDeadEntry ==
  \A c \in channels :
    native[c] = "deleted" =>
      \E t \in Threads : closing[t] = [step |-> "drop", chan |-> c]

(* "Closes all Data Channels": when PeerConnection.close has returned, no  *)
(* channel of the peer has a live handle.  With LateOpens or LostOpens     *)
(* this does not hold.                                                     *)
AllChannelsClosed ==
  \A c \in Channels : Owner[c] \in returned => native[c] \in {"absent", "deleted"}

(* A close "will block until all scheduled callbacks of this channel       *)
(* return".  A listener that is waited for, and waits in a deletion        *)
(* itself, is deleting neither the object it was called for nor, if that   *)
(* is a peer, a channel of it: only a listener that closes across objects  *)
(* can be part of a deadlock.                                              *)
BlockedAcross ==
  \A s \in Threads, n \in NativeThreads, o, q \in Objects :
    AwaitsDeletion(s, o) /\ n # s /\ Running(n, o) /\ AwaitsDeletion(n, q)
      => q # o /\ OwnerOf(q) # o

(* A call of PeerConnection.close that has ended, in whatever way, has run *)
(* the Cleaner action, which the catch clause around closeChannels is      *)
(* there for: the peer is released, unless its deletion failed.            *)
CloseAlwaysReleases ==
  \A p \in (returned \cap Peers) \cup aborted :
    /\ p \in cleaned
    /\ DeleteMayFail \/ Released(p)

(* A thread starts to run a listener for an event of o. *)
StartsListener(n, o) ==
  /\ callback'[n].phase = "client"
  /\ callback'[n].obj = o
  /\ callback[n].phase = "client" => callback'[n].left < callback[n].left

(* "No other callback will be called for the channel after it returns",    *)
(* and the same of a peer: once a close of an object has returned, no      *)
(* listener is called for an event of it, "except the one this function    *)
(* might be called in".                                                    *)
QuietAfterClose ==
  [][\A n \in NativeThreads, o \in returned :
       StartsListener(n, o) => callback[n].phase = "client" /\ <<n, o>> \in closes]_vars

(* Every close call returns: the native deletions wait for the callbacks   *)
(* of other threads only, and the recursion of closeChannels comes to an   *)
(* end.                                                                    *)
CloseReturns ==
  \A t \in Threads :
    /\ closing[t].step # "no" ~> closing[t].step = "no"
    /\ tearing[t].step # "no" ~> tearing[t].step = "no"

(* A peer whose close was called is deleted in the end and its callback    *)
(* record, which pins the whole Java object, is released.                  *)
ClosedIsReleased ==
  \A p \in Peers :
    (\E t \in Threads : tearing[t].peer = p) ~> Released(p)
=============================================================================
