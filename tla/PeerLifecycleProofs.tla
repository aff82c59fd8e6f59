------------------------- MODULE PeerLifecycleProofs -------------------------
(***************************************************************************)
(* What holds of PeerLifecycle for any number of peers, channels and       *)
(* threads: first of any client, then of clients that open no channel of a *)
(* peer they close, and at last of those that close from one thread.       *)
(***************************************************************************)
EXTENDS PeerLifecycle, TLAPS

-----------------------------------------------------------------------------
(* Every state of the life cycle is of the declared types.                 *)

(* What the record of a thread holds while the call it stands for is under *)
(* way.                                                                    *)

ActiveCallbacks == [phase : {"entered", "client"}, obj : Objects,
                    new : Channels \cup {None}, left : 0 .. ListenerCount - 1]
ActiveOpenings  == [step : {"get", "set", "put"}, chan : Channels, ptr : BOOLEAN]
ActiveClosings  == [step : {"native", "delete", "await", "drop", "unhook"},
                    chan : Channels]
ActiveTearings  == [step : {"scan", "loop", "clean", "delete", "await", "free",
                            "unhook"},
                    peer : Peers, work : SUBSET Channels, depth : 0 .. StackDepth]

LEMMA CallbackRecord ==
  ASSUME TypeOK, NEW n \in NativeThreads
  PROVE  /\ callback[n].phase = "idle" => callback[n] = NoCallback
         /\ callback[n].phase # "idle" => callback[n] \in ActiveCallbacks
<1>1. callback[n] = NoCallback \/ callback[n] \in ActiveCallbacks
  BY DEF TypeOK, Callbacks, ActiveCallbacks
<1> QED
  BY <1>1 DEF NoCallback, ActiveCallbacks

LEMMA OpeningRecord ==
  ASSUME TypeOK, NEW t \in Threads
  PROVE  /\ opening[t].step = "no" => opening[t] = NoOpening
         /\ opening[t].step # "no" => opening[t] \in ActiveOpenings
<1>1. opening[t] = NoOpening \/ opening[t] \in ActiveOpenings
  BY DEF TypeOK, Openings, ActiveOpenings
<1> QED
  BY <1>1 DEF NoOpening, ActiveOpenings

LEMMA ClosingRecord ==
  ASSUME TypeOK, NEW t \in Threads
  PROVE  /\ closing[t].step = "no" => closing[t] = NoClosing
         /\ closing[t].step # "no" => closing[t] \in ActiveClosings
<1>1. closing[t] = NoClosing \/ closing[t] \in ActiveClosings
  BY DEF TypeOK, Closings, ActiveClosings
<1> QED
  BY <1>1 DEF NoClosing, ActiveClosings

LEMMA TearingRecord ==
  ASSUME TypeOK, NEW t \in Threads
  PROVE  /\ tearing[t].step = "no" => tearing[t] = NoTearing
         /\ tearing[t].step # "no" => tearing[t] \in ActiveTearings
<1>1. tearing[t] = NoTearing \/ tearing[t] \in ActiveTearings
  BY DEF TypeOK, Tearings, ActiveTearings
<1> QED
  BY <1>1 DEF NoTearing, ActiveTearings

LEMMA InitType == Init => TypeOK
<1> SUFFICES ASSUME Init PROVE TypeOK
  OBVIOUS
<1> USE LifecycleAssumption
<1>1. native \in [Objects -> HandleStates] /\ record \in [Peers -> {"live", "freed"}]
  BY DEF Init, HandleStates
<1>2. callback \in [NativeThreads -> Callbacks]
  BY DEF Init, NoCallback, Callbacks
<1>3. opening \in [Threads -> Openings]
  BY DEF Init, NoOpening, Openings
<1>4. closing \in [Threads -> Closings]
  BY DEF Init, NoClosing, Closings
<1>5. tearing \in [Threads -> Tearings]
  BY DEF Init, NoTearing, Tearings
<1> QED
  BY <1>1, <1>2, <1>3, <1>4, <1>5 DEF Init, TypeOK, Objects

LEMMA ActType ==
  ASSUME TypeOK, NEW t \in Threads, Act(t)
  PROVE  TypeOK'
<1> USE LifecycleAssumption DEF sharedVars, history
<1>1. ASSUME NEW o \in Objects, Listen(t, o) PROVE TypeOK'
  BY <1>1 DEF Listen, TypeOK
<1>2. ASSUME NEW c \in Channels, Create(t, c) PROVE TypeOK'
  <2>1. opening' \in [Threads -> Openings]
    BY <1>2 DEF Create, TypeOK, Openings
  <2>2. native' \in [Objects -> HandleStates]
    BY <1>2 DEF Create, TypeOK, HandleStates, Objects
  <2> QED
    BY <1>2, <2>1, <2>2 DEF Create, TypeOK
<1>3. ASSUME NEW c \in Channels, CloseChannel(t, c) PROVE TypeOK'
  <2>1. closing' \in [Threads -> Closings]
    BY <1>3 DEF CloseChannel, WinClose, TypeOK, Closings
  <2> QED
    BY <1>3, <2>1 DEF CloseChannel, WinClose, TypeOK
<1>4. ASSUME NEW c \in Channels, CloseChannelAgain(t, c) PROVE TypeOK'
  BY <1>4 DEF CloseChannelAgain, TypeOK, Objects
<1>5. ASSUME NEW p \in Peers, ClosePeer(t, p) PROVE TypeOK'
  <2>1. tearing' \in [Threads -> Tearings]
    BY <1>5 DEF ClosePeer, TypeOK, Tearings
  <2> QED
    BY <1>5, <2>1 DEF ClosePeer, TypeOK
<1> QED
  BY <1>1, <1>2, <1>3, <1>4, <1>5 DEF Act

LEMMA OpenStepType ==
  ASSUME TypeOK, NEW t \in Threads, OpenStep(t)
  PROVE  TypeOK'
<1> USE LifecycleAssumption DEF sharedVars, history
<1>1. opening[t] \in ActiveOpenings
  BY OpeningRecord DEF OpenStep, GetPeerPointer, SetChannelPointer, PutChannel, Opening
<1>2. CASE GetPeerPointer(t)
  <2>1. opening'[t] \in ActiveOpenings
    BY <1>1, <1>2 DEF GetPeerPointer, TypeOK, ActiveOpenings
  <2>2. opening' \in [Threads -> Openings]
    BY <1>2, <2>1 DEF GetPeerPointer, TypeOK, Openings, ActiveOpenings
  <2> QED
    BY <1>2, <2>2 DEF GetPeerPointer, TypeOK
<1>3. CASE SetChannelPointer(t)
  <2>1. opening'[t] \in ActiveOpenings
    BY <1>1, <1>3 DEF SetChannelPointer, TypeOK, ActiveOpenings
  <2>2. opening' \in [Threads -> Openings]
    BY <1>3, <2>1 DEF SetChannelPointer, TypeOK, Openings, ActiveOpenings
  <2> QED
    BY <1>1, <1>3, <2>2 DEF SetChannelPointer, TypeOK, Objects, ActiveOpenings
<1>4. CASE PutChannel(t)
  <2>1. opening' \in [Threads -> Openings]
    BY <1>4 DEF PutChannel, TypeOK, Openings
  <2> QED
    BY <1>1, <1>4, <2>1 DEF PutChannel, TypeOK, ActiveOpenings
<1> QED
  BY <1>2, <1>3, <1>4 DEF OpenStep

LEMMA CloseStepType ==
  ASSUME TypeOK, NEW t \in Threads, CloseStep(t)
  PROVE  TypeOK'
<1> USE LifecycleAssumption DEF sharedVars, history
<1>1. closing[t] \in ActiveClosings
  BY ClosingRecord
  DEF CloseStep, NativeCloseChannel, CallDeleteChannel, DeleteChannel,
      DropChannel, UnhookChannel, ClosingAt
<1>2. closing[t].chan \in Channels
  BY <1>1 DEF ActiveClosings
<1>3. ASSUME closing'[t] \in ActiveClosings,
             closing' = [closing EXCEPT ![t] = closing'[t]]
      PROVE  closing' \in [Threads -> Closings]
  BY <1>3 DEF TypeOK, Closings, ActiveClosings
<1>4. CASE NativeCloseChannel(t)
  <2>1. closing'[t] \in ActiveClosings
    BY <1>1, <1>4 DEF NativeCloseChannel, TypeOK, ActiveClosings
  <2>2. native' \in [Objects -> HandleStates]
    BY <1>2, <1>4 DEF NativeCloseChannel, TypeOK, HandleStates, Objects
  <2> QED
    BY <1>3, <1>4, <2>1, <2>2 DEF NativeCloseChannel, TypeOK
<1>5. CASE CallDeleteChannel(t)
  <2>1. closing'[t] \in ActiveClosings
    BY <1>1, <1>5 DEF CallDeleteChannel, TypeOK, ActiveClosings
  <2> QED
    BY <1>3, <1>5, <2>1 DEF CallDeleteChannel, TypeOK
<1>6. CASE DeleteChannel(t)
  <2>1. closing'[t] \in ActiveClosings
    BY <1>1, <1>6 DEF DeleteChannel, TypeOK, ActiveClosings
  <2>2. native' \in [Objects -> HandleStates]
    BY <1>2, <1>6 DEF DeleteChannel, TypeOK, HandleStates, Objects
  <2> QED
    BY <1>3, <1>6, <2>1, <2>2 DEF DeleteChannel, TypeOK
<1>7. CASE DropChannel(t)
  <2>1. closing'[t] \in ActiveClosings
    BY <1>1, <1>7 DEF DropChannel, TypeOK, ActiveClosings
  <2> QED
    BY <1>3, <1>7, <2>1 DEF DropChannel, TypeOK
<1>8. CASE UnhookChannel(t)
  <2>1. closing' \in [Threads -> Closings]
    BY <1>8 DEF UnhookChannel, TypeOK, Closings
  <2> QED
    BY <1>2, <1>8, <2>1 DEF UnhookChannel, TypeOK, Objects
<1> QED
  BY <1>4, <1>5, <1>6, <1>7, <1>8 DEF CloseStep

LEMMA TearStepType ==
  ASSUME TypeOK, NEW t \in Threads, TearStep(t)
  PROVE  TypeOK'
<1> USE LifecycleAssumption DEF sharedVars, history
<1>1. tearing[t] \in ActiveTearings
  BY TearingRecord
  DEF TearStep, ScanChannels, CloseNextChannel, CheckChannels, StackOverflow,
      Clean, CallDeletePeer, DeletePeer, DeletePeerFails, FreeRecord,
      UnhookPeer, TearingAt
<1>2. tearing[t].peer \in Peers
  BY <1>1 DEF ActiveTearings
<1>3. ASSUME tearing'[t] \in ActiveTearings,
             tearing' = [tearing EXCEPT ![t] = tearing'[t]]
      PROVE  tearing' \in [Threads -> Tearings]
  BY <1>3 DEF TypeOK, Tearings, ActiveTearings
<1>4. CASE ScanChannels(t)
  <2>1. ChannelsOf(tearing[t].peer) \subseteq Channels
    BY DEF ChannelsOf, TypeOK
  <2>a. tearing'[t] = [step |-> "loop", peer |-> tearing[t].peer,
                       work |-> ChannelsOf(tearing[t].peer),
                       depth |-> tearing[t].depth]
    BY <1>1, <1>4 DEF ScanChannels, TypeOK, ActiveTearings
  <2>2. tearing'[t] \in ActiveTearings
    BY <1>1, <2>1, <2>a DEF ActiveTearings
  <2> QED
    BY <1>3, <1>4, <2>2 DEF ScanChannels, TypeOK
<1>5. ASSUME NEW c \in Channels, CloseNextChannel(t, c) PROVE TypeOK'
  <2>1. tearing'[t] \in ActiveTearings
    BY <1>1, <1>5 DEF CloseNextChannel, TypeOK, ActiveTearings
  <2>2. closing' \in [Threads -> Closings] /\ closedFlag' \subseteq Channels
    BY <1>5 DEF CloseNextChannel, WinClose, TypeOK, Closings
  <2> QED
    BY <1>3, <1>5, <2>1, <2>2 DEF CloseNextChannel, TypeOK
<1>6. CASE CheckChannels(t)
  <2>1. tearing'[t] \in ActiveTearings
    BY <1>1, <1>6 DEF CheckChannels, TypeOK, ActiveTearings
  <2> QED
    BY <1>3, <1>6, <2>1 DEF CheckChannels, TypeOK
<1>7. CASE StackOverflow(t)
  <2>1. tearing' \in [Threads -> Tearings]
    BY <1>7 DEF StackOverflow, TypeOK, Tearings
  <2> QED
    BY <1>2, <1>7, <2>1 DEF StackOverflow, TypeOK
<1>8. CASE Clean(t)
  <2>1. tearing'[t] \in ActiveTearings
    BY <1>1, <1>8 DEF Clean, TypeOK, ActiveTearings
  <2>2. native' \in [Objects -> HandleStates]
    BY <1>2, <1>8 DEF Clean, TypeOK, HandleStates, Objects
  <2> QED
    BY <1>2, <1>3, <1>8, <2>1, <2>2 DEF Clean, TypeOK
<1>9. CASE CallDeletePeer(t) \/ DeletePeerFails(t)
  <2>1. tearing'[t] \in ActiveTearings
    BY <1>1, <1>9 DEF CallDeletePeer, DeletePeerFails, TypeOK, ActiveTearings
  <2> QED
    BY <1>3, <1>9, <2>1 DEF CallDeletePeer, DeletePeerFails, TypeOK
<1>10. CASE DeletePeer(t)
  <2>1. tearing'[t] \in ActiveTearings
    BY <1>1, <1>10 DEF DeletePeer, TypeOK, ActiveTearings
  <2>2. native' \in [Objects -> HandleStates]
    BY <1>2, <1>10 DEF DeletePeer, TypeOK, HandleStates, Objects
  <2> QED
    BY <1>3, <1>10, <2>1, <2>2 DEF DeletePeer, TypeOK
<1>11. CASE FreeRecord(t)
  <2>1. tearing'[t] \in ActiveTearings
    BY <1>1, <1>11 DEF FreeRecord, TypeOK, ActiveTearings
  <2> QED
    BY <1>3, <1>11, <2>1 DEF FreeRecord, TypeOK
<1>12. CASE UnhookPeer(t)
  <2>1. tearing' \in [Threads -> Tearings]
    BY <1>12 DEF UnhookPeer, TypeOK, Tearings
  <2> QED
    BY <1>2, <1>12, <2>1 DEF UnhookPeer, TypeOK, Objects
<1> QED
  BY <1>4, <1>5, <1>6, <1>7, <1>8, <1>9, <1>10, <1>11, <1>12 DEF TearStep

LEMMA CallbackStepType ==
  ASSUME TypeOK, NEW n \in NativeThreads,
         Happen(n) \/ Handle(n) \/ LeaveListener(n)
  PROVE  TypeOK'
<1> USE LifecycleAssumption DEF sharedVars, history
<1>1. ASSUME callback'[n] \in ActiveCallbacks,
             callback' = [callback EXCEPT ![n] = callback'[n]]
      PROVE  callback' \in [NativeThreads -> Callbacks]
  BY <1>1 DEF TypeOK, Callbacks, ActiveCallbacks
<1>2. ASSUME NEW o \in Objects, Raise(n, o) PROVE TypeOK'
  <2>1. callback'[n] \in ActiveCallbacks
    BY <1>2 DEF Raise, TypeOK, ActiveCallbacks
  <2> QED
    BY <1>1, <1>2, <2>1 DEF Raise, TypeOK
<1>3. ASSUME NEW c \in Channels, RemoteOpens(n, c) PROVE TypeOK'
  <2>1. callback'[n] \in ActiveCallbacks
    BY <1>3 DEF RemoteOpens, TypeOK, ActiveCallbacks, Objects
  <2>2. native' \in [Objects -> HandleStates]
    BY <1>3 DEF RemoteOpens, TypeOK, HandleStates, Objects
  <2> QED
    BY <1>1, <1>3, <2>1, <2>2 DEF RemoteOpens, TypeOK
<1>4. CASE DispatchNewChannel(n)
  <2>1. callback[n] \in ActiveCallbacks
    BY <1>4, CallbackRecord DEF DispatchNewChannel
  <2>a. callback'[n] = [phase |-> "client", obj |-> callback[n].obj,
                        new |-> callback[n].new, left |-> ListenerCount - 1]
    BY <1>4, <2>1 DEF DispatchNewChannel, ToClient, TypeOK, ActiveCallbacks
  <2>2. callback'[n] \in ActiveCallbacks
    BY <2>1, <2>a DEF ActiveCallbacks
  <2>3. callback[n].new \in Channels
    BY <1>4, <2>1 DEF DispatchNewChannel, ActiveCallbacks
  <2> QED
    BY <1>1, <1>4, <2>2, <2>3 DEF DispatchNewChannel, ToClient, TypeOK, Objects
<1>5. CASE DispatchEvent(n)
  <2>1. callback[n] \in ActiveCallbacks
    BY <1>5, CallbackRecord DEF DispatchEvent
  <2>2. CASE callback[n].obj \in (Peers \cup channels) \ shut
    <3>1. callback'[n] \in ActiveCallbacks
      BY <1>5, <2>1, <2>2 DEF DispatchEvent, ToClient, TypeOK, ActiveCallbacks
    <3> QED
      BY <1>1, <1>5, <2>2, <3>1 DEF DispatchEvent, ToClient, TypeOK
  <2>3. CASE callback[n].obj \notin (Peers \cup channels) \ shut
    <3>1. callback' \in [NativeThreads -> Callbacks]
      BY <1>5, <2>3 DEF DispatchEvent, TypeOK, Callbacks
    <3> QED
      BY <1>5, <3>1 DEF DispatchEvent, TypeOK
  <2> QED
    BY <2>2, <2>3
<1>6. CASE NextListener(n)
  <2>1. callback[n] \in ActiveCallbacks
    BY <1>6, CallbackRecord DEF NextListener
  <2>2. callback'[n] \in ActiveCallbacks
    BY <1>6, <2>1 DEF NextListener, TypeOK, ActiveCallbacks
  <2> QED
    BY <1>1, <1>6, <2>2 DEF NextListener, TypeOK
<1>7. CASE EndCallback(n)
  <2>1. callback' \in [NativeThreads -> Callbacks]
    BY <1>7 DEF EndCallback, TypeOK, Callbacks
  <2> QED
    BY <1>7, <2>1 DEF EndCallback, TypeOK
<1>8. CASE MissCallback(n)
  <2>1. callback' \in [NativeThreads -> Callbacks]
    BY <1>8 DEF MissCallback, TypeOK, Callbacks
  <2>2. callback[n] \in ActiveCallbacks
    BY <1>8, CallbackRecord DEF MissCallback
  <2>3. userPtr' \subseteq Objects
    BY <1>8, <2>2 DEF MissCallback, TypeOK, ActiveCallbacks, Objects
  <2> QED
    BY <1>8, <2>1, <2>3 DEF MissCallback, TypeOK
<1> QED
  BY <1>2, <1>3, <1>4, <1>5, <1>6, <1>7, <1>8 DEF Happen, Handle, LeaveListener

THEOREM TypeCorrect == Spec => []TypeOK
<1>1. TypeOK /\ [Next]_vars => TypeOK'
  <2>1. TypeOK /\ UNCHANGED vars => TypeOK'
    BY DEF TypeOK, vars
  <2> QED
    BY <2>1, ActType, OpenStepType, CloseStepType, TearStepType, CallbackStepType
    DEF Next
<1> QED
  BY <1>1, InitType, PTL DEF Spec

-----------------------------------------------------------------------------
(* The strengthening that makes the safety properties inductive.           *)

(* A native thread makes calls from inside a listener only. *)
CallsFromListeners ==
  \A n \in NativeThreads :
    opening[n].step # "no" \/ closing[n].step # "no" \/ tearing[n].step # "no"
      => callback[n].phase = "client"

(* No handler is on its way to the record with an object that is deleted. *)
DeletedIsQuiet ==
  \A n \in NativeThreads :
    callback[n].phase = "entered" => native[callback[n].obj] # "deleted"

FreedIsDeleted ==
  /\ \A p \in Peers : record[p] = "freed" => native[p] = "deleted"
  /\ \A t \in Threads :
       tearing[t].step = "free" => native[tearing[t].peer] = "deleted"

(* The Cleaner action of a peer is run by one thread. *)
Deleting(t) == tearing[t].step \in {"delete", "await"}
InCleaner(t) == tearing[t].step \in {"delete", "await", "free"}

UniqueCleaner ==
  /\ \A p \in Peers : native[p] = "deleted" => p \in cleaned
  /\ \A t \in Threads : InCleaner(t) => tearing[t].peer \in cleaned
  /\ \A s, t \in Threads :
       InCleaner(s) /\ InCleaner(t) /\ tearing[s].peer = tearing[t].peer => s = t
  /\ \A t \in Threads : Deleting(t) => native[tearing[t].peer] # "deleted"

(* A channel is closed by the thread that won its flag. *)
UniqueCloser ==
  /\ \A c \in Channels : native[c] = "deleted" => c \in closedFlag
  /\ \A t \in Threads : closing[t].step # "no" => closing[t].chan \in closedFlag
  /\ \A s, t \in Threads :
       /\ closing[s].step # "no" /\ closing[t].step # "no"
       /\ closing[s].chan = closing[t].chan
       => s = t
  /\ \A t \in Threads :
       closing[t].step \in {"native", "delete", "await"} =>
         native[closing[t].chan] # "deleted"

PeerInv == CallsFromListeners /\ DeletedIsQuiet /\ FreedIsDeleted /\ UniqueCleaner
             /\ UniqueCloser

LEMMA PeerInvInit == Init => PeerInv
  BY LifecycleAssumption
  DEF Init, PeerInv, CallsFromListeners, DeletedIsQuiet, FreedIsDeleted,
      UniqueCleaner, UniqueCloser, NoCallback, NoOpening, NoClosing, NoTearing,
      Deleting, InCleaner, Objects, Threads

LEMMA UniqueCloserStep ==
  ASSUME TypeOK, UniqueCloser, [Next]_vars
  PROVE  UniqueCloser'
<1> USE LifecycleAssumption DEF UniqueCloser, sharedVars, history
<1>1. ASSUME NEW t \in Threads, NEW c \in Channels, WinClose(t, c), UNCHANGED native
      PROVE  UniqueCloser'
  <2>1. \A s \in Threads : closing'[s] = IF s = t THEN [step |-> "native", chan |-> c]
                                                   ELSE closing[s]
    BY <1>1 DEF WinClose, TypeOK
  <2> QED
    BY <1>1, <2>1 DEF WinClose
<1>2. ASSUME NEW t \in Threads, CloseStep(t) PROVE UniqueCloser'
  <2>1. closing[t] \in ActiveClosings
    BY <1>2, ClosingRecord
    DEF CloseStep, NativeCloseChannel, CallDeleteChannel, DeleteChannel,
        DropChannel, UnhookChannel, ClosingAt
  <2>2. CASE NativeCloseChannel(t)
    BY <2>1, <2>2 DEF NativeCloseChannel, ClosingAt, TypeOK, ActiveClosings, Objects
  <2>3. CASE CallDeleteChannel(t)
    BY <2>1, <2>3 DEF CallDeleteChannel, ClosingAt, TypeOK, ActiveClosings
  <2>4. CASE DeleteChannel(t)
    BY <2>1, <2>4 DEF DeleteChannel, ClosingAt, TypeOK, ActiveClosings, Objects
  <2>5. CASE DropChannel(t)
    BY <2>1, <2>5 DEF DropChannel, ClosingAt, TypeOK, ActiveClosings
  <2>6. CASE UnhookChannel(t)
    BY <2>1, <2>6 DEF UnhookChannel, ClosingAt, TypeOK, ActiveClosings, NoClosing
  <2> QED
    BY <1>2, <2>2, <2>3, <2>4, <2>5, <2>6 DEF CloseStep
<1>3. ASSUME UNCHANGED <<closing, closedFlag>>,
             \A c \in Channels : native'[c] = "deleted" <=> native[c] = "deleted"
      PROVE  UniqueCloser'
  BY <1>3, ClosingRecord DEF ActiveClosings
<1>4. ASSUME NEW t \in Threads, NEW c \in Channels, CloseNextChannel(t, c)
      PROVE  UniqueCloser'
  BY <1>1, <1>3, <1>4 DEF CloseNextChannel
<1>5. ASSUME NEW t \in Threads, Act(t) PROVE UniqueCloser'
  <2>1. CASE \E c \in Channels : CloseChannel(t, c)
    BY <1>1, <2>1 DEF CloseChannel
  <2>2. CASE \E c \in Channels : Create(t, c)
    BY <1>3, <2>2 DEF Create, TypeOK, Objects
  <2> QED
    BY <1>3, <1>5, <2>1, <2>2 DEF Act, Listen, CloseChannelAgain, ClosePeer
<1>6. ASSUME NEW t \in Threads, OpenStep(t) PROVE UniqueCloser'
  BY <1>3, <1>6 DEF OpenStep, GetPeerPointer, SetChannelPointer, PutChannel
<1>7. ASSUME NEW t \in Threads, TearStep(t) PROVE UniqueCloser'
  <2>1. CASE Clean(t) \/ DeletePeer(t)
    BY <1>3, <2>1, TearingRecord
    DEF Clean, DeletePeer, TearingAt, ActiveTearings, TypeOK, Objects
  <2> QED
    BY <1>3, <1>4, <1>7, <2>1
    DEF TearStep, ScanChannels, CheckChannels, StackOverflow, CallDeletePeer,
        DeletePeerFails, FreeRecord, UnhookPeer
<1>8. ASSUME NEW n \in NativeThreads, Happen(n) \/ Handle(n) \/ LeaveListener(n)
      PROVE  UniqueCloser'
  <2>1. CASE \E c \in Channels : RemoteOpens(n, c)
    BY <1>3, <2>1 DEF RemoteOpens, TypeOK, Objects
  <2> QED
    BY <1>3, <1>8, <2>1
    DEF Happen, Handle, LeaveListener, Raise, DispatchNewChannel, DispatchEvent,
        MissCallback,
        NextListener, EndCallback
<1>9. CASE UNCHANGED vars
  BY <1>3, <1>9 DEF vars
<1> QED
  BY <1>2, <1>5, <1>6, <1>7, <1>8, <1>9 DEF Next

LEMMA CallsFromListenersStep ==
  ASSUME TypeOK, CallsFromListeners, [Next]_vars
  PROVE  CallsFromListeners'
<1> USE LifecycleAssumption DEF CallsFromListeners, sharedVars, history
<1>1. ASSUME NEW t \in Threads, Client(t), UNCHANGED callback,
             \A s \in Threads \ {t} :
               UNCHANGED <<opening[s], closing[s], tearing[s]>>
      PROVE  CallsFromListeners'
  BY <1>1 DEF Client, Threads
<1>2. ASSUME NEW t \in Threads, UNCHANGED callback,
             t \in NativeThreads => callback[t].phase = "client",
             \A s \in Threads \ {t} :
               UNCHANGED <<opening[s], closing[s], tearing[s]>>
      PROVE  CallsFromListeners'
  BY <1>2 DEF Threads
<1>3. ASSUME NEW t \in Threads, Act(t) PROVE CallsFromListeners'
  BY <1>1, <1>3
  DEF Act, Listen, Create, CloseChannel, WinClose, CloseChannelAgain, ClosePeer,
      TypeOK
<1>4. ASSUME NEW t \in Threads, OpenStep(t) PROVE CallsFromListeners'
  <2>1. t \in NativeThreads => callback[t].phase = "client"
    BY <1>4 DEF OpenStep, GetPeerPointer, SetChannelPointer, PutChannel, Opening
  <2> QED
    BY <1>2, <1>4, <2>1
    DEF OpenStep, GetPeerPointer, SetChannelPointer, PutChannel, TypeOK
<1>5. ASSUME NEW t \in Threads, CloseStep(t) PROVE CallsFromListeners'
  <2>1. t \in NativeThreads => callback[t].phase = "client"
    BY <1>5
    DEF CloseStep, NativeCloseChannel, CallDeleteChannel, DeleteChannel,
        DropChannel, UnhookChannel, ClosingAt
  <2> QED
    BY <1>2, <1>5, <2>1
    DEF CloseStep, NativeCloseChannel, CallDeleteChannel, DeleteChannel,
        DropChannel, UnhookChannel, TypeOK
<1>6. ASSUME NEW t \in Threads, TearStep(t) PROVE CallsFromListeners'
  <2>1. t \in NativeThreads => callback[t].phase = "client"
    BY <1>6
    DEF TearStep, ScanChannels, CloseNextChannel, CheckChannels, StackOverflow,
        Clean, CallDeletePeer, DeletePeer, DeletePeerFails, FreeRecord,
        UnhookPeer, TearingAt
  <2> QED
    BY <1>2, <1>6, <2>1
    DEF TearStep, ScanChannels, CloseNextChannel, WinClose, CheckChannels,
        StackOverflow, Clean, CallDeletePeer, DeletePeer, DeletePeerFails,
        FreeRecord, UnhookPeer, TypeOK
<1>7. ASSUME NEW n \in NativeThreads, Happen(n) \/ Handle(n) \/ LeaveListener(n)
      PROVE  CallsFromListeners'
  <2>1. /\ \A m \in NativeThreads \ {n} : UNCHANGED callback[m]
        /\ UNCHANGED <<opening, closing, tearing>>
    BY <1>7
    DEF Happen, Handle, LeaveListener, Raise, RemoteOpens, DispatchNewChannel,
        DispatchEvent, MissCallback, ToClient, NextListener, EndCallback, TypeOK
  <2>2. callback[n].phase = "client" =>
          opening[n].step = "no" /\ closing[n].step = "no" /\ tearing[n].step = "no"
    BY <1>7
    DEF Happen, Handle, LeaveListener, Raise, RemoteOpens, DispatchNewChannel,
        DispatchEvent, MissCallback, NextListener, EndCallback, Client
  <2>3. callback[n].phase # "client" =>
          opening[n].step = "no" /\ closing[n].step = "no" /\ tearing[n].step = "no"
    OBVIOUS
  <2> QED
    BY <2>1, <2>2, <2>3
<1>8. CASE UNCHANGED vars
  BY <1>8 DEF vars
<1> QED
  BY <1>3, <1>4, <1>5, <1>6, <1>7, <1>8 DEF Next

LEMMA UniqueCleanerStep ==
  ASSUME TypeOK, UniqueCleaner, [Next]_vars
  PROVE  UniqueCleaner'
<1> USE LifecycleAssumption
    DEF UniqueCleaner, InCleaner, Deleting, sharedVars, history
<1>1. ASSUME NEW t \in Threads, cleaned' = cleaned,
             \A s \in Threads \ {t} : UNCHANGED tearing[s],
             \A p \in Peers : native'[p] = "deleted" <=> native[p] = "deleted",
             \/ UNCHANGED tearing[t]
             \/ tearing'[t].step \notin {"delete", "await", "free"}
             \/ /\ tearing[t].step \in {"delete", "await"}
                /\ tearing'[t].step \in {"delete", "await"}
                /\ UNCHANGED tearing[t].peer
      PROVE  UniqueCleaner'
  <2>1. \A s \in Threads : InCleaner(s) => tearing[s].peer \in Peers
    BY TearingRecord DEF ActiveTearings
  <2> QED
    BY <1>1, <2>1
<1>2. ASSUME NEW t \in Threads, Clean(t) PROVE UniqueCleaner'
  <2>1. tearing[t] \in ActiveTearings
    BY <1>2, TearingRecord DEF Clean, TearingAt
  <2>2. CASE tearing[t].peer \in cleaned \/ native[tearing[t].peer] = "deleted"
    <3>1. cleaned' = cleaned
      BY <1>2, <2>1, <2>2 DEF Clean, ActiveTearings
    <3>2. tearing'[t].step = "unhook"
      BY <1>2, <2>1, <2>2 DEF Clean, TypeOK, ActiveTearings
    <3>3. UNCHANGED native /\ \A s \in Threads \ {t} : UNCHANGED tearing[s]
      BY <1>2, <2>2 DEF Clean, TypeOK
    <3> QED
      BY <1>1, <3>1, <3>2, <3>3
  <2>3. CASE ~(tearing[t].peer \in cleaned \/ native[tearing[t].peer] = "deleted")
    <3>1. /\ tearing[t].peer \in Peers
          /\ cleaned' = cleaned \cup {tearing[t].peer}
          /\ tearing'[t].step = "delete" /\ tearing'[t].peer = tearing[t].peer
      BY <1>2, <2>1, <2>3 DEF Clean, TypeOK, ActiveTearings
    <3>2. \A s \in Threads \ {t} : UNCHANGED tearing[s]
      BY <1>2, <2>3 DEF Clean, TypeOK
    <3>3. \A p \in Peers : native'[p] = IF p = tearing[t].peer THEN "closed"
                                                           ELSE native[p]
      BY <1>2, <2>3 DEF Clean, TypeOK, Objects
    <3>4. \A s \in Threads : InCleaner(s) => tearing[s].peer \in Peers
      BY TearingRecord DEF ActiveTearings
    <3> QED
      BY <2>3, <3>1, <3>2, <3>3, <3>4
  <2> QED
    BY <2>2, <2>3
<1>3. ASSUME NEW t \in Threads, DeletePeer(t) PROVE UniqueCleaner'
  <2>1. tearing[t] \in ActiveTearings
    BY <1>3, TearingRecord DEF DeletePeer, TearingAt
  <2> QED
    BY <1>3, <2>1, TearingRecord
    DEF DeletePeer, TearingAt, TypeOK, ActiveTearings, Objects
<1>4. ASSUME NEW t \in Threads, TearStep(t) PROVE UniqueCleaner'
  <2>1. CASE CallDeletePeer(t)
    BY <1>1, <2>1 DEF CallDeletePeer, TearingAt, TypeOK
  <2>2. CASE StackOverflow(t) \/ UnhookPeer(t)
    BY <1>1, <2>2 DEF StackOverflow, UnhookPeer, NoTearing, TypeOK
  <2>3. ASSUME NEW c \in Channels, CloseNextChannel(t, c)
        PROVE  UniqueCleaner'
    <3>1. tearing'[t].step = "loop"
      BY <2>3, TearingRecord DEF CloseNextChannel, TearingAt, TypeOK, ActiveTearings
    <3> QED
      BY <1>1, <2>3, <3>1 DEF CloseNextChannel, TypeOK
  <2>4. CASE ScanChannels(t) \/ CheckChannels(t) \/ DeletePeerFails(t) \/ FreeRecord(t)
    <3>1. tearing[t] \in ActiveTearings
      BY <2>4, TearingRecord
      DEF ScanChannels, CheckChannels, DeletePeerFails, FreeRecord, TearingAt
    <3>2. tearing'[t].step \notin {"delete", "await", "free"}
      BY <2>4, <3>1
      DEF ScanChannels, CheckChannels, DeletePeerFails, FreeRecord, TypeOK,
          ActiveTearings
    <3> QED
      BY <1>1, <2>4, <3>2
      DEF ScanChannels, CheckChannels, DeletePeerFails, FreeRecord, TypeOK
  <2> QED
    BY <1>2, <1>3, <1>4, <2>1, <2>2, <2>3, <2>4 DEF TearStep
<1>5. ASSUME NEW t \in Threads, Act(t) PROVE UniqueCleaner'
  <2>1. CASE \E p \in Peers : ClosePeer(t, p)
    <3>1. tearing'[t].step = "scan" /\ UNCHANGED <<native, cleaned>>
      BY <2>1 DEF ClosePeer, TypeOK
    <3>2. \A s \in Threads \ {t} : UNCHANGED tearing[s]
      BY <2>1 DEF ClosePeer, TypeOK
    <3> QED
      BY <1>1, <3>1, <3>2
  <2>2. CASE ~ \E p \in Peers : ClosePeer(t, p)
    <3>1. UNCHANGED <<tearing, cleaned>>
      BY <1>5, <2>2 DEF Act, Listen, Create, CloseChannel, CloseChannelAgain
    <3>2. \A p \in Peers : native'[p] = native[p]
      <4>1. CASE \E c \in Channels : Create(t, c)
        BY <4>1 DEF Create, TypeOK, Objects
      <4>2. CASE ~ \E c \in Channels : Create(t, c)
        BY <1>5, <2>2, <4>2 DEF Act, Listen, CloseChannel, CloseChannelAgain
      <4> QED
        BY <4>1, <4>2
    <3> QED
      BY <1>1, <3>1, <3>2
  <2> QED
    BY <2>1, <2>2
<1>6. ASSUME NEW t \in Threads, OpenStep(t) \/ CloseStep(t) PROVE UniqueCleaner'
  <2>1. closing[t].step # "no" => closing[t].chan \in Channels
    BY ClosingRecord DEF ActiveClosings
  <2> QED
    BY <1>1, <1>6, <2>1
    DEF OpenStep, GetPeerPointer, SetChannelPointer, PutChannel, CloseStep,
        NativeCloseChannel, CallDeleteChannel, DeleteChannel, DropChannel,
        UnhookChannel, ClosingAt, TypeOK, Objects
<1>7. ASSUME NEW n \in NativeThreads, Happen(n) \/ Handle(n) \/ LeaveListener(n)
      PROVE  UniqueCleaner'
  BY <1>1, <1>7
  DEF Happen, Handle, LeaveListener, Raise, RemoteOpens, DispatchNewChannel,
      DispatchEvent, MissCallback, NextListener, EndCallback, TypeOK, Objects, Threads
<1>8. CASE UNCHANGED vars
  BY <1>8 DEF vars, InCleaner, Deleting
<1> QED
  BY <1>4, <1>5, <1>6, <1>7, <1>8 DEF Next

LEMMA DeletedIsQuietStep ==
  ASSUME TypeOK, CallsFromListeners, DeletedIsQuiet, UniqueCloser, [Next]_vars
  PROVE  DeletedIsQuiet'
<1> USE LifecycleAssumption DEF DeletedIsQuiet, sharedVars, history
<1>1. ASSUME UNCHANGED callback,
             \A o \in Objects : native'[o] = "deleted" => native[o] = "deleted"
      PROVE  DeletedIsQuiet'
  BY <1>1, CallbackRecord DEF ActiveCallbacks
<1>2. ASSUME NEW t \in Threads, NEW o \in Objects, UNCHANGED callback,
             DeletionAllowed(t, o), native' = [native EXCEPT ![o] = "deleted"],
             t \in NativeThreads => callback[t].phase = "client"
      PROVE  DeletedIsQuiet'
  BY <1>2, CallbackRecord DEF DeletionAllowed, Running, ActiveCallbacks, TypeOK
<1>3. ASSUME NEW t \in Threads, Act(t) PROVE DeletedIsQuiet'
  <2>1. CASE \E c \in Channels : Create(t, c)
    BY <1>1, <2>1 DEF Create, TypeOK, Objects
  <2> QED
    BY <1>1, <1>3, <2>1 DEF Act, Listen, CloseChannel, CloseChannelAgain, ClosePeer
<1>4. ASSUME NEW t \in Threads, OpenStep(t) PROVE DeletedIsQuiet'
  BY <1>1, <1>4 DEF OpenStep, GetPeerPointer, SetChannelPointer, PutChannel
<1>5. ASSUME NEW t \in Threads, CloseStep(t) PROVE DeletedIsQuiet'
  <2>1. CASE DeleteChannel(t)
    <3>1. closing[t].chan \in Objects
      BY <2>1, ClosingRecord DEF DeleteChannel, ClosingAt, ActiveClosings, Objects
    <3>2. t \in NativeThreads => callback[t].phase = "client"
      BY <2>1 DEF DeleteChannel, ClosingAt, CallsFromListeners
    <3> QED
      BY <1>2, <2>1, <3>1, <3>2 DEF DeleteChannel
  <2>2. CASE NativeCloseChannel(t)
    <3>1. closing[t].chan \in Objects
      BY <2>2, ClosingRecord DEF NativeCloseChannel, ClosingAt, ActiveClosings, Objects
    <3> QED
      BY <1>1, <2>2, <3>1 DEF NativeCloseChannel, TypeOK
  <2> QED
    BY <1>1, <1>5, <2>1, <2>2
    DEF CloseStep, CallDeleteChannel, DropChannel, UnhookChannel
<1>6. ASSUME NEW t \in Threads, TearStep(t) PROVE DeletedIsQuiet'
  <2>1. CASE DeletePeer(t)
    <3>1. tearing[t].peer \in Objects
      BY <2>1, TearingRecord DEF DeletePeer, TearingAt, ActiveTearings, Objects
    <3>2. t \in NativeThreads => callback[t].phase = "client"
      BY <2>1 DEF DeletePeer, TearingAt, CallsFromListeners
    <3> QED
      BY <1>2, <2>1, <3>1, <3>2 DEF DeletePeer
  <2>2. CASE Clean(t)
    BY <1>1, <2>2 DEF Clean, TypeOK
  <2> QED
    BY <1>1, <1>6, <2>1, <2>2
    DEF TearStep, ScanChannels, CloseNextChannel, CheckChannels, StackOverflow,
        CallDeletePeer, DeletePeerFails, FreeRecord, UnhookPeer
<1>7. ASSUME NEW n \in NativeThreads, Happen(n) \/ Handle(n) \/ LeaveListener(n)
      PROVE  DeletedIsQuiet'
  <2>1. CASE \E o \in Objects : Raise(n, o)
    BY <2>1 DEF Raise, TypeOK
  <2>2. ASSUME NEW c \in Channels, RemoteOpens(n, c) PROVE DeletedIsQuiet'
    <3>1. \A o \in Objects : native'[o] = "deleted" => native[o] = "deleted"
      BY <2>2 DEF RemoteOpens, TypeOK, Objects
    <3>2. native[Owner[c]] # "deleted" /\ Owner[c] \in Objects
      BY <2>2 DEF RemoteOpens, Objects
    <3>3. \A m \in NativeThreads : callback'[m].phase = "entered" =>
            callback'[m].obj = Owner[c] \/ callback'[m] = callback[m]
      BY <2>2 DEF RemoteOpens, TypeOK
    <3> QED
      BY <3>1, <3>2, <3>3, CallbackRecord DEF ActiveCallbacks
  <2>3. CASE Handle(n) \/ LeaveListener(n)
    <3>1. /\ UNCHANGED native
          /\ \A m \in NativeThreads \ {n} : UNCHANGED callback[m]
      BY <2>3
      DEF Handle, DispatchNewChannel, DispatchEvent,
          MissCallback, ToClient, LeaveListener,
          NextListener, EndCallback, TypeOK
    <3>2. callback[n] \in ActiveCallbacks
      BY <2>3, CallbackRecord
      DEF Handle, DispatchNewChannel, DispatchEvent,
          MissCallback, LeaveListener, NextListener, EndCallback
    <3>3. callback'[n].phase # "entered"
      BY <2>3, <3>2
      DEF Handle, DispatchNewChannel, DispatchEvent,
          MissCallback, ToClient, LeaveListener,
          NextListener, EndCallback, NoCallback, TypeOK, ActiveCallbacks
    <3> QED
      BY <3>1, <3>3
  <2> QED
    BY <1>7, <2>1, <2>2, <2>3 DEF Happen
<1>8. CASE UNCHANGED vars
  BY <1>1, <1>8 DEF vars
<1> QED
  BY <1>3, <1>4, <1>5, <1>6, <1>7, <1>8 DEF Next

LEMMA FreedIsDeletedStep ==
  ASSUME TypeOK, FreedIsDeleted, [Next]_vars
  PROVE  FreedIsDeleted'
<1> USE LifecycleAssumption DEF FreedIsDeleted, sharedVars, history
<1>1. ASSUME UNCHANGED record,
             \A p \in Peers : native[p] = "deleted" => native'[p] = "deleted",
             \A t \in Threads : tearing'[t].step = "free" =>
               UNCHANGED tearing[t] \/ native'[tearing'[t].peer] = "deleted"
      PROVE  FreedIsDeleted'
  BY <1>1, TearingRecord DEF ActiveTearings
<1>2. ASSUME NEW t \in Threads, Act(t) PROVE FreedIsDeleted'
  <2>1. CASE \E c \in Channels : Create(t, c)
    BY <1>1, <2>1 DEF Create, TypeOK, Objects
  <2>2. CASE \E p \in Peers : ClosePeer(t, p)
    BY <1>1, <2>2 DEF ClosePeer, TypeOK
  <2> QED
    BY <1>1, <1>2, <2>1, <2>2 DEF Act, Listen, CloseChannel, CloseChannelAgain
<1>3. ASSUME NEW t \in Threads, OpenStep(t) PROVE FreedIsDeleted'
  BY <1>1, <1>3 DEF OpenStep, GetPeerPointer, SetChannelPointer, PutChannel
<1>4. ASSUME NEW t \in Threads, CloseStep(t) PROVE FreedIsDeleted'
  <2>1. closing[t].chan \in Channels
    BY <1>4, ClosingRecord
    DEF CloseStep, NativeCloseChannel, CallDeleteChannel, DeleteChannel,
        DropChannel, UnhookChannel, ClosingAt, ActiveClosings
  <2>2. UNCHANGED <<record, tearing>>
    BY <1>4
    DEF CloseStep, NativeCloseChannel, CallDeleteChannel, DeleteChannel,
        DropChannel, UnhookChannel
  <2>3. \A p \in Peers : native'[p] = native[p]
    BY <1>4, <2>1
    DEF CloseStep, NativeCloseChannel, CallDeleteChannel, DeleteChannel,
        DropChannel, UnhookChannel, TypeOK, Objects
  <2> QED
    BY <1>1, <2>2, <2>3
<1>5. ASSUME NEW t \in Threads, TearStep(t) PROVE FreedIsDeleted'
  <2>1. tearing[t] \in ActiveTearings
    BY <1>5, TearingRecord
    DEF TearStep, ScanChannels, CloseNextChannel, CheckChannels, StackOverflow,
        Clean, CallDeletePeer, DeletePeer, DeletePeerFails, FreeRecord,
        UnhookPeer, TearingAt
  <2>2. \A s \in Threads \ {t} : UNCHANGED tearing[s]
    BY <1>5
    DEF TearStep, ScanChannels, CloseNextChannel, CheckChannels, StackOverflow,
        Clean, CallDeletePeer, DeletePeer, DeletePeerFails, FreeRecord,
        UnhookPeer, TypeOK
  <2>3. CASE DeletePeer(t)
    BY <1>1, <2>1, <2>2, <2>3 DEF DeletePeer, TypeOK, ActiveTearings, Objects
  <2>4. CASE FreeRecord(t)
    BY <2>1, <2>2, <2>4 DEF FreeRecord, TearingAt, TypeOK, ActiveTearings
  <2>5. CASE Clean(t)
    <3>1. tearing'[t].step # "free"
      BY <2>1, <2>5 DEF Clean, TypeOK, ActiveTearings
    <3>2. \A p \in Peers : native[p] = "deleted" => native'[p] = "deleted"
      BY <2>1, <2>5 DEF Clean, TypeOK, ActiveTearings, Objects
    <3> QED
      BY <1>1, <2>2, <2>5, <3>1, <3>2 DEF Clean
  <2>6. CASE ~(DeletePeer(t) \/ FreeRecord(t) \/ Clean(t))
    <3>1. UNCHANGED <<native, record>>
      BY <1>5, <2>6
      DEF TearStep, ScanChannels, CloseNextChannel, CheckChannels,
          StackOverflow, CallDeletePeer, DeletePeerFails, UnhookPeer
    <3>2. tearing'[t].step = "free" => UNCHANGED tearing[t]
      BY <1>5, <2>1, <2>6
      DEF TearStep, ScanChannels, CloseNextChannel, CheckChannels, TearingAt,
          StackOverflow, CallDeletePeer, DeletePeerFails, UnhookPeer,
          NoTearing, TypeOK, ActiveTearings
    <3> QED
      BY <1>1, <2>2, <3>1, <3>2
  <2> QED
    BY <2>3, <2>4, <2>5, <2>6
<1>6. ASSUME NEW n \in NativeThreads, Happen(n) \/ Handle(n) \/ LeaveListener(n)
      PROVE  FreedIsDeleted'
  <2>1. \A p \in Peers : native[p] = "deleted" => native'[p] = "deleted"
    BY <1>6
    DEF Happen, Handle, LeaveListener, Raise, RemoteOpens, DispatchNewChannel,
        DispatchEvent, MissCallback, NextListener, EndCallback, TypeOK, Objects
  <2> QED
    BY <1>1, <1>6, <2>1
    DEF Happen, Handle, LeaveListener, Raise, RemoteOpens, DispatchNewChannel,
        DispatchEvent, MissCallback, NextListener, EndCallback
<1>7. CASE UNCHANGED vars
  BY <1>1, <1>7 DEF vars
<1> QED
  BY <1>2, <1>3, <1>4, <1>5, <1>6, <1>7 DEF Next

LEMMA PeerInvariant == Spec => []PeerInv
<1>1. TypeOK /\ PeerInv /\ [Next]_vars => PeerInv'
  BY CallsFromListenersStep, DeletedIsQuietStep, FreedIsDeletedStep,
     UniqueCleanerStep, UniqueCloserStep
  DEF PeerInv
<1> QED
  BY <1>1, PeerInvInit, TypeCorrect, PTL DEF Spec

(* Whatever closers race with whatever events: a handler of a peer's event *)
(* never finds the callback record freed.                                  *)
THEOREM PeerRecordStaysLive == Spec => []PeerRecordLive
<1>1. TypeOK /\ PeerInv => PeerRecordLive
  BY DEF TypeOK, PeerInv, DeletedIsQuiet, FreedIsDeleted, PeerRecordLive
<1> QED
  BY <1>1, TypeCorrect, PeerInvariant, PTL

(* No thread hands a deleted handle to a native close or delete.           *)
THEOREM DeletedIsLeftAlone == Spec => []NoCallOnDeleted
<1>1. TypeOK /\ PeerInv => NoCallOnDeleted
  BY DEF PeerInv, UniqueCleaner, UniqueCloser, Deleting, NoCallOnDeleted
<1> QED
  BY <1>1, TypeCorrect, PeerInvariant, PTL

-----------------------------------------------------------------------------
(* A deleted peer has lost its record, or the thread that deleted it is    *)
(* about to free it.                                                       *)
DeletedIsFreed ==
  \A p \in Peers :
    native[p] = "deleted" /\ record[p] = "live" =>
      \E t \in Threads : tearing[t].step = "free" /\ tearing[t].peer = p

LEMMA DeletedIsFreedStep ==
  ASSUME TypeOK, DeletedIsFreed, [Next]_vars
  PROVE  DeletedIsFreed'
<1> USE LifecycleAssumption DEF DeletedIsFreed, sharedVars, history
<1>1. ASSUME UNCHANGED record,
             \A p \in Peers : native'[p] = "deleted" => native[p] = "deleted",
             \A t \in Threads : tearing[t].step = "free" => UNCHANGED tearing[t]
      PROVE  DeletedIsFreed'
  BY <1>1
<1>2. ASSUME NEW t \in Threads, Act(t) PROVE DeletedIsFreed'
  <2>1. CASE \E c \in Channels : Create(t, c)
    BY <1>1, <2>1 DEF Create, TypeOK, Objects
  <2>2. CASE \E p \in Peers : ClosePeer(t, p)
    BY <1>1, <2>2 DEF ClosePeer, Client, TypeOK
  <2> QED
    BY <1>1, <1>2, <2>1, <2>2 DEF Act, Listen, CloseChannel, CloseChannelAgain
<1>3. ASSUME NEW t \in Threads, OpenStep(t) PROVE DeletedIsFreed'
  BY <1>1, <1>3 DEF OpenStep, GetPeerPointer, SetChannelPointer, PutChannel
<1>4. ASSUME NEW t \in Threads, CloseStep(t) PROVE DeletedIsFreed'
  <2>1. closing[t].chan \in Channels
    BY <1>4, ClosingRecord
    DEF CloseStep, NativeCloseChannel, CallDeleteChannel, DeleteChannel,
        DropChannel, UnhookChannel, ClosingAt, ActiveClosings
  <2>2. UNCHANGED <<record, tearing>>
    BY <1>4
    DEF CloseStep, NativeCloseChannel, CallDeleteChannel, DeleteChannel,
        DropChannel, UnhookChannel
  <2>3. \A p \in Peers : native'[p] = native[p]
    BY <1>4, <2>1
    DEF CloseStep, NativeCloseChannel, CallDeleteChannel, DeleteChannel,
        DropChannel, UnhookChannel, TypeOK, Objects
  <2> QED
    BY <1>1, <2>2, <2>3
<1>5. ASSUME NEW t \in Threads, TearStep(t) PROVE DeletedIsFreed'
  <2>1. tearing[t] \in ActiveTearings
    BY <1>5, TearingRecord
    DEF TearStep, ScanChannels, CloseNextChannel, CheckChannels, StackOverflow,
        Clean, CallDeletePeer, DeletePeer, DeletePeerFails, FreeRecord,
        UnhookPeer, TearingAt
  <2>2. \A s \in Threads \ {t} : UNCHANGED tearing[s]
    BY <1>5
    DEF TearStep, ScanChannels, CloseNextChannel, CheckChannels, StackOverflow,
        Clean, CallDeletePeer, DeletePeer, DeletePeerFails, FreeRecord,
        UnhookPeer, TypeOK
  <2>3. CASE DeletePeer(t)
    <3>1. /\ tearing'[t].step = "free" /\ tearing'[t].peer = tearing[t].peer
          /\ tearing[t].step = "await" /\ UNCHANGED record
          /\ \A p \in Peers : p # tearing[t].peer => native'[p] = native[p]
      BY <2>1, <2>3 DEF DeletePeer, TearingAt, TypeOK, ActiveTearings, Objects
    <3> QED
      BY <2>2, <3>1
  <2>4. CASE FreeRecord(t)
    <3>1. /\ record'[tearing[t].peer] = "freed" /\ UNCHANGED native
          /\ \A p \in Peers : p # tearing[t].peer => record'[p] = record[p]
      BY <2>1, <2>4 DEF FreeRecord, TypeOK, ActiveTearings
    <3> QED
      BY <2>2, <3>1
  <2>5. CASE Clean(t)
    <3>1. tearing[t].step # "free" /\ UNCHANGED record
      BY <2>5 DEF Clean, TearingAt
    <3>2. \A p \in Peers : native'[p] = "deleted" => native[p] = "deleted"
      BY <2>1, <2>5 DEF Clean, TypeOK, ActiveTearings, Objects
    <3> QED
      BY <1>1, <2>2, <3>1, <3>2
  <2>6. CASE ~(DeletePeer(t) \/ FreeRecord(t) \/ Clean(t))
    <3>1. UNCHANGED <<native, record>> /\ tearing[t].step # "free"
      BY <1>5, <2>6
      DEF TearStep, ScanChannels, CloseNextChannel, CheckChannels, TearingAt,
          StackOverflow, CallDeletePeer, DeletePeerFails, UnhookPeer
    <3> QED
      BY <1>1, <2>2, <3>1
  <2> QED
    BY <2>3, <2>4, <2>5, <2>6
<1>6. ASSUME NEW n \in NativeThreads, Happen(n) \/ Handle(n) \/ LeaveListener(n)
      PROVE  DeletedIsFreed'
  <2>1. \A p \in Peers : native'[p] = "deleted" => native[p] = "deleted"
    BY <1>6
    DEF Happen, Handle, LeaveListener, Raise, RemoteOpens, DispatchNewChannel,
        DispatchEvent, MissCallback, NextListener, EndCallback, TypeOK, Objects
  <2> QED
    BY <1>1, <1>6, <2>1
    DEF Happen, Handle, LeaveListener, Raise, RemoteOpens, DispatchNewChannel,
        DispatchEvent, MissCallback, NextListener, EndCallback
<1>7. CASE UNCHANGED vars
  BY <1>1, <1>7 DEF vars
<1> QED
  BY <1>2, <1>3, <1>4, <1>5, <1>6, <1>7 DEF Next

(* The Cleaner action, once begun, goes on until the peer is deleted, and  *)
(* nobody leaves PeerConnection.close without it.                          *)
CleanerGoesOn ==
  /\ \A p \in cleaned :
       \/ native[p] = "deleted"
       \/ DeleteMayFail
       \/ \E t \in Threads : Deleting(t) /\ tearing[t].peer = p
  /\ \A t \in Threads : tearing[t].step = "unhook" => tearing[t].peer \in cleaned
  /\ returned \cap Peers \subseteq cleaned

LEMMA CleanerGoesOnStep ==
  ASSUME TypeOK, UniqueCleaner, CleanerGoesOn, [Next]_vars
  PROVE  CleanerGoesOn'
<1> USE LifecycleAssumption DEF sharedVars, history
<1>1. ASSUME UNCHANGED cleaned, returned' \cap Peers \subseteq cleaned,
             \A p \in Peers : native[p] = "deleted" => native'[p] = "deleted",
             \A t \in Threads : Deleting(t) =>
               \/ Deleting(t)' /\ UNCHANGED tearing[t].peer
               \/ DeleteMayFail
               \/ native'[tearing[t].peer] = "deleted",
             \A t \in Threads :
               tearing'[t].step = "unhook" => tearing'[t].peer \in cleaned
      PROVE  CleanerGoesOn'
  BY <1>1 DEF CleanerGoesOn, TypeOK
<1>2. ASSUME UNCHANGED <<cleaned, tearing>>, returned' \cap Peers = returned \cap Peers,
             \A p \in Peers : native[p] = "deleted" => native'[p] = "deleted"
      PROVE  CleanerGoesOn'
  BY <1>1, <1>2 DEF CleanerGoesOn, Deleting
<1>3. ASSUME NEW t \in Threads, Act(t) PROVE CleanerGoesOn'
  <2>1. CASE \E c \in Channels : Create(t, c)
    BY <1>2, <2>1 DEF Create, TypeOK, Objects
  <2>2. CASE \E p \in Peers : ClosePeer(t, p)
    <3>1. /\ UNCHANGED <<native, cleaned, returned>>
          /\ tearing[t].step = "no" /\ tearing'[t].step = "scan"
          /\ \A s \in Threads \ {t} : UNCHANGED tearing[s]
      BY <2>2 DEF ClosePeer, Client, TypeOK
    <3> QED
      BY <3>1 DEF CleanerGoesOn, Deleting
  <2>3. CASE \E c \in Channels : CloseChannelAgain(t, c)
    BY <1>2, <2>3 DEF CloseChannelAgain
  <2> QED
    BY <1>2, <1>3, <2>1, <2>2, <2>3 DEF Act, Listen, CloseChannel
<1>4. ASSUME NEW t \in Threads, OpenStep(t) PROVE CleanerGoesOn'
  BY <1>2, <1>4 DEF OpenStep, GetPeerPointer, SetChannelPointer, PutChannel
<1>5. ASSUME NEW t \in Threads, CloseStep(t) PROVE CleanerGoesOn'
  <2>1. closing[t].chan \in Channels
    BY <1>5, ClosingRecord
    DEF CloseStep, NativeCloseChannel, CallDeleteChannel, DeleteChannel,
        DropChannel, UnhookChannel, ClosingAt, ActiveClosings
  <2>2. /\ UNCHANGED <<cleaned, tearing>>
        /\ returned' \cap Peers = returned \cap Peers
    BY <1>5, <2>1
    DEF CloseStep, NativeCloseChannel, CallDeleteChannel, DeleteChannel,
        DropChannel, UnhookChannel
  <2>3. \A p \in Peers : native'[p] = native[p]
    BY <1>5, <2>1
    DEF CloseStep, NativeCloseChannel, CallDeleteChannel, DeleteChannel,
        DropChannel, UnhookChannel, TypeOK, Objects
  <2> QED
    BY <1>2, <2>2, <2>3
<1>6. ASSUME NEW t \in Threads, TearStep(t) PROVE CleanerGoesOn'
  <2>1. tearing[t] \in ActiveTearings
    BY <1>6, TearingRecord
    DEF TearStep, ScanChannels, CloseNextChannel, CheckChannels, StackOverflow,
        Clean, CallDeletePeer, DeletePeer, DeletePeerFails, FreeRecord,
        UnhookPeer, TearingAt
  <2>2. \A s \in Threads \ {t} : UNCHANGED tearing[s]
    BY <1>6
    DEF TearStep, ScanChannels, CloseNextChannel, CheckChannels, StackOverflow,
        Clean, CallDeletePeer, DeletePeer, DeletePeerFails, FreeRecord,
        UnhookPeer, TypeOK
  <2>3. CASE Clean(t)
    <3>1. /\ tearing[t].step = "clean" /\ tearing[t].peer \in Peers
          /\ tearing'[t].peer = tearing[t].peer
          /\ cleaned' = cleaned \cup {tearing[t].peer} /\ UNCHANGED returned
      BY <2>1, <2>3 DEF Clean, TearingAt, TypeOK, ActiveTearings
    <3>2. CASE tearing[t].peer \in cleaned \/ native[tearing[t].peer] = "deleted"
      <4>1. UNCHANGED native /\ cleaned' = cleaned
        BY <2>3, <3>1, <3>2 DEF Clean, UniqueCleaner
      <4> QED
        BY <2>2, <3>1, <4>1 DEF CleanerGoesOn, Deleting
    <3>3. CASE ~(tearing[t].peer \in cleaned \/ native[tearing[t].peer] = "deleted")
      <4>1. /\ tearing'[t].step = "delete"
            /\ \A p \in Peers : p # tearing[t].peer => native'[p] = native[p]
        BY <2>1, <2>3, <3>3 DEF Clean, TypeOK, ActiveTearings, Objects
      <4>2. (\A p \in cleaned : native[p] = "deleted" \/ DeleteMayFail
               \/ \E s \in Threads : Deleting(s) /\ tearing[s].peer = p)'
        BY <2>2, <3>1, <4>1 DEF CleanerGoesOn, Deleting, TypeOK
      <4>3. (\A s \in Threads : tearing[s].step = "unhook" => tearing[s].peer \in cleaned)'
        BY <2>2, <3>1, <4>1 DEF CleanerGoesOn
      <4> QED
        BY <3>1, <4>2, <4>3 DEF CleanerGoesOn
    <3> QED
      BY <3>2, <3>3
  <2>4. CASE DeletePeer(t)
    <3>1. /\ UNCHANGED <<cleaned, returned>> /\ tearing'[t].step = "free"
          /\ native'[tearing[t].peer] = "deleted"
          /\ \A p \in Peers : native[p] = "deleted" => native'[p] = "deleted"
      BY <2>1, <2>4 DEF DeletePeer, TypeOK, ActiveTearings, Objects
    <3> QED
      BY <1>1, <2>2, <3>1 DEF CleanerGoesOn, Deleting
  <2>5. CASE UnhookPeer(t)
    <3>1. /\ UNCHANGED <<native, cleaned>> /\ tearing[t].step = "unhook"
          /\ tearing'[t].step = "no" /\ returned' = returned \cup {tearing[t].peer}
      BY <2>1, <2>5 DEF UnhookPeer, TearingAt, NoTearing, TypeOK
    <3> QED
      BY <1>1, <2>2, <3>1 DEF CleanerGoesOn, Deleting
  <2>6. CASE DeletePeerFails(t) \/ FreeRecord(t)
    <3>1. /\ UNCHANGED <<native, cleaned, returned>> /\ InCleaner(t)
          /\ tearing'[t].peer = tearing[t].peer
          /\ Deleting(t) => DeleteMayFail
      BY <2>1, <2>6
      DEF DeletePeerFails, FreeRecord, TearingAt, InCleaner, Deleting, TypeOK,
          ActiveTearings
    <3> QED
      BY <1>1, <2>2, <3>1 DEF CleanerGoesOn, UniqueCleaner, Deleting
  <2>7. CASE ~(Clean(t) \/ DeletePeer(t) \/ UnhookPeer(t) \/ DeletePeerFails(t)
               \/ FreeRecord(t))
    <3>1. UNCHANGED <<native, cleaned, returned>>
      BY <1>6, <2>7
      DEF TearStep, ScanChannels, CloseNextChannel, CheckChannels, StackOverflow,
          CallDeletePeer
    <3>2. /\ Deleting(t) => Deleting(t)' /\ tearing'[t].peer = tearing[t].peer
          /\ tearing'[t].step # "unhook"
      <4>1. CASE CallDeletePeer(t)
        BY <2>1, <4>1 DEF CallDeletePeer, TearingAt, Deleting, TypeOK, ActiveTearings
      <4>2. CASE \E c \in Channels : CloseNextChannel(t, c)
        BY <2>1, <4>2 DEF CloseNextChannel, TearingAt, Deleting, TypeOK, ActiveTearings
      <4>3. CASE ScanChannels(t) \/ CheckChannels(t) \/ StackOverflow(t)
        BY <2>1, <4>3
        DEF ScanChannels, CheckChannels, StackOverflow, TearingAt, Deleting, NoTearing,
            TypeOK, ActiveTearings
      <4> QED
        BY <1>6, <2>7, <4>1, <4>2, <4>3 DEF TearStep
    <3> QED
      BY <1>1, <2>2, <3>1, <3>2 DEF CleanerGoesOn, Deleting
  <2> QED
    BY <2>3, <2>4, <2>5, <2>6, <2>7
<1>7. ASSUME NEW n \in NativeThreads, Happen(n) \/ Handle(n) \/ LeaveListener(n)
      PROVE  CleanerGoesOn'
  <2>1. \A p \in Peers : native[p] = "deleted" => native'[p] = "deleted"
    BY <1>7
    DEF Happen, Handle, LeaveListener, Raise, RemoteOpens, DispatchNewChannel,
        DispatchEvent, MissCallback, NextListener, EndCallback, TypeOK, Objects
  <2> QED
    BY <1>2, <1>7, <2>1
    DEF Happen, Handle, LeaveListener, Raise, RemoteOpens, DispatchNewChannel,
        DispatchEvent, MissCallback, NextListener, EndCallback
<1>8. CASE UNCHANGED vars
  BY <1>2, <1>8 DEF vars
<1> QED
  BY <1>3, <1>4, <1>5, <1>6, <1>7, <1>8 DEF Next

LEMMA ReleaseInvariant == Spec => [](DeletedIsFreed /\ CleanerGoesOn)
<1>1. Init => DeletedIsFreed /\ CleanerGoesOn
  BY LifecycleAssumption
  DEF Init, DeletedIsFreed, CleanerGoesOn, NoTearing, Objects, Threads
<1>2. TypeOK /\ PeerInv /\ DeletedIsFreed /\ CleanerGoesOn /\ [Next]_vars
        => (DeletedIsFreed /\ CleanerGoesOn)'
  BY DeletedIsFreedStep, CleanerGoesOnStep DEF PeerInv
<1> QED
  BY <1>1, <1>2, PeerInvariant, TypeCorrect, PTL DEF Spec

LEMMA CleanedIsReleased ==
  ASSUME TypeOK, PeerInv, DeletedIsFreed, CleanerGoesOn, NEW p \in Peers,
         p \in cleaned \/ native[p] = "deleted"
  PROVE  Released(p) \/ Releasing(p) \/ (DeleteMayFail /\ native[p] # "deleted")
<1>1. CASE native[p] = "deleted"
  BY <1>1 DEF DeletedIsFreed, Released, Releasing, TypeOK
<1>2. CASE native[p] # "deleted"
  BY <1>2 DEF CleanerGoesOn, Releasing, Deleting
<1> QED
  BY <1>1, <1>2

(* However closers race, a peer whose Cleaner action was run is released,  *)
(* with its record, or about to be by the thread that runs it: nothing     *)
(* leaks unless the deletion fails.                                        *)
THEOREM RecordIsNotLeaked == Spec => []RecordNotLeaked
<1>1. TypeOK /\ PeerInv /\ DeletedIsFreed /\ CleanerGoesOn => RecordNotLeaked
  BY CleanedIsReleased DEF RecordNotLeaked
<1> QED
  BY <1>1, ReleaseInvariant, PeerInvariant, TypeCorrect, PTL

(* Even with racing closers and late channels a close call that returns    *)
(* leaves the peer released, or another thread that is releasing it: the   *)
(* closer that loses the race for the Cleaner action does not wait.        *)
THEOREM ReturnedIsReleased ==
  Spec => [](\A p \in returned \cap Peers :
               /\ p \in cleaned
               /\ Released(p) \/ Releasing(p) \/ (DeleteMayFail /\ native[p] # "deleted"))
<1>1. TypeOK /\ PeerInv /\ DeletedIsFreed /\ CleanerGoesOn =>
        \A p \in returned \cap Peers :
          /\ p \in cleaned
          /\ Released(p) \/ Releasing(p) \/ (DeleteMayFail /\ native[p] # "deleted")
  BY CleanedIsReleased DEF CleanerGoesOn
<1> QED
  BY <1>1, ReleaseInvariant, PeerInvariant, TypeCorrect, PTL

-----------------------------------------------------------------------------
(* What keeps dead channels out of the map: a channel on its way into it   *)
(* is known to one thread only, and nobody closes what is not in the map.  *)

Unseen(c) ==
  /\ c \notin channels \cup closedFlag
  /\ \A t \in Threads : c \notin tearing[t].work

Arriving(n) == callback[n].phase = "entered" /\ callback[n].new # None

WayInv ==
  /\ \A c \in Channels : native[c] = "absent" => Unseen(c)
  /\ \A t \in Threads : opening[t].step # "no" =>
       /\ opening[t].chan \notin Remote
       /\ native[opening[t].chan] # "absent"
       /\ Unseen(opening[t].chan)
  /\ \A n \in NativeThreads : Arriving(n) =>
       /\ callback[n].new \in Remote
       /\ native[callback[n].new] # "absent"
       /\ Unseen(callback[n].new)
  /\ \A s, t \in Threads :
       opening[s].step # "no" /\ opening[t].step # "no" /\ opening[s].chan = opening[t].chan
         => s = t
  /\ \A m, n \in NativeThreads :
       Arriving(m) /\ Arriving(n) /\ callback[m].new = callback[n].new => m = n

(* Nothing new is on its way, and what is stays unseen. *)
LEMMA WayFrame ==
  ASSUME TypeOK, WayInv,
         \A c \in Channels : native'[c] = "absent" <=> native[c] = "absent",
         channels' \subseteq channels,
         closedFlag' \subseteq closedFlag \cup channels
                                 \cup UNION {tearing[t].work : t \in Threads},
         \A t \in Threads : tearing'[t].work \subseteq tearing[t].work \cup channels,
         \A t \in Threads : opening'[t].step # "no" =>
           opening[t].step # "no" /\ opening'[t].chan = opening[t].chan,
         \A n \in NativeThreads : Arriving(n)' => Arriving(n) /\ UNCHANGED callback[n]
  PROVE  WayInv'
<1>1. \A c \in Channels : Unseen(c) => Unseen(c)'
  BY DEF Unseen
<1>2. \A t \in Threads : opening[t].step # "no" => opening[t].chan \in Channels
  BY OpeningRecord DEF ActiveOpenings
<1>3. \A n \in NativeThreads : Arriving(n) => callback[n].new \in Channels
  BY CallbackRecord DEF Arriving, ActiveCallbacks, NoCallback
<1>4. (\A c \in Channels : native[c] = "absent" => Unseen(c))'
  BY <1>1 DEF WayInv
<1>5. \A t \in Threads : opening'[t].step # "no" =>
        /\ opening'[t].chan \notin Remote
        /\ native'[opening'[t].chan] # "absent"
        /\ Unseen(opening[t].chan)' /\ opening'[t].chan = opening[t].chan
  BY <1>1, <1>2 DEF WayInv
<1> QED
  BY <1>1, <1>2, <1>3, <1>4, <1>5 DEF WayInv

LEMMA WayInit == Init => WayInv
BY LifecycleAssumption
DEF Init, WayInv, Unseen, Arriving, NoCallback, NoOpening, NoTearing, Objects, Threads

LEMMA WayStep ==
  ASSUME TypeOK, WayInv, UniqueCloser, [Next]_vars
  PROVE  WayInv'
<1> USE LifecycleAssumption DEF sharedVars, history
<1>1. ASSUME NEW t \in Threads, NEW c \in Channels, Create(t, c) PROVE WayInv'
  <2>1. /\ c \notin Remote /\ native[c] = "absent" /\ Unseen(c)
        /\ opening[t].step = "no"
    BY <1>1 DEF Create, Client, WayInv
  <2>2. /\ UNCHANGED <<channels, closedFlag, tearing, callback>>
        /\ \A d \in Channels : native'[d] = IF d = c THEN "open" ELSE native[d]
    BY <1>1 DEF Create, TypeOK, Objects
  <2>3. \A s \in Threads : opening'[s] =
          IF s = t THEN [step |-> "get", chan |-> c, ptr |-> FALSE] ELSE opening[s]
    BY <1>1 DEF Create, TypeOK
  <2>4. \A s \in Threads : opening[s].step # "no" => opening[s].chan \in Channels \ {c}
    BY <2>1, OpeningRecord DEF WayInv, ActiveOpenings
  <2>5. \A n \in NativeThreads : Arriving(n) => callback[n].new \in Channels \ {c}
    BY <2>1, CallbackRecord DEF WayInv, Arriving, ActiveCallbacks, NoCallback
  <2>6. \A d \in Channels : Unseen(d)' <=> Unseen(d)
    BY <2>2 DEF Unseen
  <2>7. \A n \in NativeThreads : Arriving(n)' <=> Arriving(n)
    BY <2>2 DEF Arriving
  <2>8. \A s \in Threads : opening'[s].step # "no" =>
          /\ opening'[s].chan \notin Remote
          /\ native'[opening'[s].chan] # "absent"
          /\ Unseen(opening'[s].chan)
    BY <2>1, <2>2, <2>3, <2>4 DEF WayInv
  <2>9. \A s \in Threads : opening'[s].step # "no" => opening'[s].chan \in Channels
    BY <2>3, <2>4
  <2> QED
    BY <2>1, <2>2, <2>3, <2>4, <2>5, <2>6, <2>7, <2>8, <2>9 DEF WayInv, Unseen
<1>2. ASSUME NEW t \in Threads, PutChannel(t) PROVE WayInv'
  <2>1. opening[t].step # "no" /\ opening[t].chan \in Channels
    BY <1>2, OpeningRecord DEF PutChannel, Opening, ActiveOpenings
  <2>2. /\ UNCHANGED <<native, closedFlag, tearing, callback>>
        /\ channels' = channels \cup {opening[t].chan}
    BY <1>2 DEF PutChannel
  <2>3. \A s \in Threads : opening'[s] = IF s = t THEN NoOpening ELSE opening[s]
    BY <1>2 DEF PutChannel, TypeOK
  <2>4. \A d \in Channels : Unseen(d) /\ d # opening[t].chan => Unseen(d)'
    BY <2>2 DEF Unseen
  <2>5. \A s \in Threads : opening'[s].step # "no" =>
          /\ opening[s].step # "no" /\ opening'[s] = opening[s]
          /\ opening[s].chan \in Channels \ {opening[t].chan}
    BY <2>1, <2>3, OpeningRecord DEF WayInv, NoOpening, ActiveOpenings
  <2>6. \A n \in NativeThreads : Arriving(n) => callback[n].new \in Channels \ {opening[t].chan}
    BY <2>1, CallbackRecord DEF WayInv, Arriving, ActiveCallbacks, NoCallback
  <2>7. \A n \in NativeThreads : Arriving(n)' <=> Arriving(n)
    BY <2>2 DEF Arriving
  <2> QED
    BY <2>1, <2>2, <2>4, <2>5, <2>6, <2>7 DEF WayInv
<1>3. ASSUME NEW n \in NativeThreads, NEW c \in Channels, RemoteOpens(n, c) PROVE WayInv'
  <2>1. /\ c \in Remote /\ native[c] = "absent" /\ Unseen(c)
    BY <1>3 DEF RemoteOpens, WayInv
  <2>2. /\ UNCHANGED <<channels, closedFlag, tearing, opening>>
        /\ \A d \in Channels : native'[d] = IF d = c THEN "open" ELSE native[d]
    BY <1>3 DEF RemoteOpens, TypeOK, Objects
  <2>3. \A m \in NativeThreads : callback'[m] =
          IF m = n THEN [phase |-> "entered", obj |-> Owner[c], new |-> c, left |-> 0]
                   ELSE callback[m]
    BY <1>3 DEF RemoteOpens, TypeOK
  <2>4. \A s \in Threads : opening[s].step # "no" => opening[s].chan \in Channels \ {c}
    BY <2>1, OpeningRecord DEF WayInv, ActiveOpenings
  <2>5. \A m \in NativeThreads : Arriving(m) => callback[m].new \in Channels \ {c}
    BY <2>1, CallbackRecord DEF WayInv, Arriving, ActiveCallbacks, NoCallback
  <2>6. \A d \in Channels : Unseen(d)' <=> Unseen(d)
    BY <2>2 DEF Unseen
  <2>7. /\ callback'[n].new = c
        /\ \A m \in NativeThreads \ {n} : (Arriving(m)' <=> Arriving(m)) /\ callback'[m] = callback[m]
    BY <2>3 DEF Arriving
  <2> QED
    BY <2>1, <2>2, <2>4, <2>5, <2>6, <2>7 DEF WayInv
<1>4. ASSUME NEW n \in NativeThreads, DispatchNewChannel(n) PROVE WayInv'
  <2>1. Arriving(n) /\ callback[n].new \in Channels
    BY <1>4, CallbackRecord DEF DispatchNewChannel, Arriving, ActiveCallbacks
  <2>2. /\ UNCHANGED <<native, closedFlag, tearing, opening>>
        /\ channels' = channels \cup {callback[n].new}
    BY <1>4 DEF DispatchNewChannel
  <2>3. ~Arriving(n)' /\ \A m \in NativeThreads \ {n} : callback'[m] = callback[m]
    BY <1>4 DEF DispatchNewChannel, ToClient, TypeOK, Arriving
  <2>4. \A d \in Channels : Unseen(d) /\ d # callback[n].new => Unseen(d)'
    BY <2>2 DEF Unseen
  <2>5. \A s \in Threads : opening[s].step # "no" =>
          opening[s].chan \in Channels \ {callback[n].new}
    BY <2>1, OpeningRecord DEF WayInv, ActiveOpenings
  <2>6. \A m \in NativeThreads : Arriving(m)' =>
          /\ Arriving(m) /\ callback'[m] = callback[m]
          /\ callback[m].new \in Channels \ {callback[n].new}
    BY <2>1, <2>3, CallbackRecord DEF WayInv, Arriving, ActiveCallbacks, NoCallback
  <2> QED
    BY <2>1, <2>2, <2>4, <2>5, <2>6 DEF WayInv
<1>5. ASSUME NEW t \in Threads, Act(t), ~\E c \in Channels : Create(t, c) PROVE WayInv'
  <2>1. \A n \in NativeThreads : UNCHANGED callback[n] /\ (Arriving(n)' => Arriving(n))
    BY <1>5 DEF Act, Listen, CloseChannel, CloseChannelAgain, ClosePeer, Arriving
  <2>2. UNCHANGED <<native, channels, opening>>
    BY <1>5 DEF Act, Listen, CloseChannel, CloseChannelAgain, ClosePeer
  <2>3. closedFlag' \subseteq closedFlag \cup channels
    <3>1. CASE \E c \in Channels : CloseChannel(t, c)
      BY <3>1 DEF CloseChannel, WinClose
    <3> QED
      BY <1>5, <3>1 DEF Act, Listen, CloseChannelAgain, ClosePeer
  <2>4. \A s \in Threads : tearing'[s].work \subseteq tearing[s].work \cup channels
    <3>1. CASE \E p \in Peers : ClosePeer(t, p)
      BY <3>1 DEF ClosePeer, TypeOK
    <3> QED
      BY <1>5, <3>1 DEF Act, Listen, CloseChannel, CloseChannelAgain
  <2> QED
    BY <2>1, <2>2, <2>3, <2>4, WayFrame
<1>6. ASSUME NEW t \in Threads, GetPeerPointer(t) \/ SetChannelPointer(t) PROVE WayInv'
  <2>1. /\ UNCHANGED <<native, channels, closedFlag, tearing, callback>>
        /\ \A s \in Threads : opening'[s].step # "no" =>
             opening[s].step # "no" /\ opening'[s].chan = opening[s].chan
    BY <1>6, OpeningRecord DEF GetPeerPointer, SetChannelPointer, Opening, TypeOK, ActiveOpenings
  <2>2. \A n \in NativeThreads : Arriving(n)' => Arriving(n)
    BY <2>1 DEF Arriving
  <2> QED
    BY <2>1, <2>2, WayFrame
<1>7. ASSUME NEW t \in Threads, CloseStep(t) PROVE WayInv'
  <2>1. closing[t].chan \in Channels /\ closing[t].chan \in closedFlag
    BY <1>7, ClosingRecord
    DEF CloseStep, NativeCloseChannel, CallDeleteChannel, DeleteChannel,
        DropChannel, UnhookChannel, ClosingAt, ActiveClosings, UniqueCloser
  <2>2. native[closing[t].chan] # "absent"
    BY <2>1 DEF WayInv, Unseen
  <2>3. \A c \in Channels : native'[c] = "absent" <=> native[c] = "absent"
    BY <1>7, <2>1, <2>2
    DEF CloseStep, NativeCloseChannel, CallDeleteChannel, DeleteChannel,
        DropChannel, UnhookChannel, TypeOK, Objects
  <2>4. channels' \subseteq channels /\ UNCHANGED <<closedFlag, tearing, opening, callback>>
    BY <1>7
    DEF CloseStep, NativeCloseChannel, CallDeleteChannel, DeleteChannel,
        DropChannel, UnhookChannel
  <2>5. \A n \in NativeThreads : Arriving(n)' => Arriving(n)
    BY <2>4 DEF Arriving
  <2> QED
    BY <2>3, <2>4, <2>5, WayFrame
<1>8. ASSUME NEW t \in Threads, TearStep(t) PROVE WayInv'
  <2>1. tearing[t] \in ActiveTearings
    BY <1>8, TearingRecord
    DEF TearStep, ScanChannels, CloseNextChannel, CheckChannels, StackOverflow,
        Clean, CallDeletePeer, DeletePeer, DeletePeerFails, FreeRecord,
        UnhookPeer, TearingAt
  <2>2. UNCHANGED <<channels, opening, callback>>
    BY <1>8
    DEF TearStep, ScanChannels, CloseNextChannel, CheckChannels, StackOverflow,
        Clean, CallDeletePeer, DeletePeer, DeletePeerFails, FreeRecord, UnhookPeer
  <2>3. closedFlag' \subseteq closedFlag \cup tearing[t].work
    BY <1>8
    DEF TearStep, ScanChannels, CloseNextChannel, CheckChannels, StackOverflow, WinClose,
        Clean, CallDeletePeer, DeletePeer, DeletePeerFails, FreeRecord, UnhookPeer
  <2>4. \A s \in Threads : tearing'[s].work \subseteq tearing[s].work \cup channels
    <3>1. tearing'[t].work \subseteq tearing[t].work \cup channels
      BY <1>8, <2>1
      DEF TearStep, ScanChannels, ChannelsOf, CloseNextChannel, CheckChannels, StackOverflow,
          Clean, CallDeletePeer, DeletePeer, DeletePeerFails, FreeRecord, UnhookPeer,
          TypeOK, ActiveTearings, NoTearing
    <3>2. \A s \in Threads \ {t} : UNCHANGED tearing[s]
      BY <1>8
      DEF TearStep, ScanChannels, CloseNextChannel, CheckChannels, StackOverflow,
          Clean, CallDeletePeer, DeletePeer, DeletePeerFails, FreeRecord, UnhookPeer, TypeOK
    <3> QED
      BY <3>1, <3>2
  <2>5. \A c \in Channels : native'[c] = native[c]
    BY <1>8, <2>1
    DEF TearStep, ScanChannels, CloseNextChannel, CheckChannels, StackOverflow,
        Clean, CallDeletePeer, DeletePeer, DeletePeerFails, FreeRecord, UnhookPeer,
        TypeOK, ActiveTearings, Objects
  <2>6. \A n \in NativeThreads : Arriving(n)' => Arriving(n)
    BY <2>2 DEF Arriving
  <2> QED
    BY <2>2, <2>3, <2>4, <2>5, <2>6, WayFrame
<1>9. ASSUME NEW n \in NativeThreads,
             \/ \E o \in Objects : Raise(n, o)
             \/ DispatchEvent(n) \/ MissCallback(n) \/ LeaveListener(n)
      PROVE  WayInv'
  <2>1. UNCHANGED <<native, channels, closedFlag, tearing, opening>>
    BY <1>9 DEF Raise, DispatchEvent,
      MissCallback, LeaveListener, NextListener, EndCallback
  <2>2. ~Arriving(n)'
    BY <1>9, CallbackRecord
    DEF Raise, DispatchEvent,
        MissCallback, ToClient, LeaveListener, NextListener, EndCallback,
        NoCallback, TypeOK, ActiveCallbacks, Arriving
  <2>3. \A m \in NativeThreads \ {n} : UNCHANGED callback[m]
    BY <1>9
    DEF Raise, DispatchEvent,
        MissCallback, ToClient, LeaveListener, NextListener, EndCallback, TypeOK
  <2>4. \A m \in NativeThreads : Arriving(m)' => Arriving(m) /\ UNCHANGED callback[m]
    BY <2>2, <2>3 DEF Arriving
  <2> QED
    BY <2>1, <2>4, WayFrame
<1>10. CASE UNCHANGED vars
  <2>1. \A n \in NativeThreads : Arriving(n)' => Arriving(n)
    BY <1>10 DEF vars, Arriving
  <2> QED
    BY <1>10, <2>1, WayFrame DEF vars
<1> QED
  BY <1>1, <1>2, <1>3, <1>4, <1>5, <1>6, <1>7, <1>8, <1>9, <1>10
  DEF Next, OpenStep, Happen, Handle

(* NoDeadEntry, in a form that steps preserve field by field. *)
DeadIsDropped ==
  \A c \in channels :
    native[c] = "deleted" =>
      \E t \in Threads : closing[t].step = "drop" /\ closing[t].chan = c

LEMMA DeadIsDroppedStep ==
  ASSUME TypeOK, WayInv, UniqueCloser, DeadIsDropped, [Next]_vars
  PROVE  DeadIsDropped'
<1> USE LifecycleAssumption DEF DeadIsDropped, sharedVars, history
<1>1. ASSUME channels' \subseteq channels,
             \A c \in Channels : native'[c] = "deleted" => native[c] = "deleted",
             \A t \in Threads : closing[t].step = "drop" => UNCHANGED closing[t]
      PROVE  DeadIsDropped'
  BY <1>1 DEF TypeOK
<1>2. ASSUME NEW c \in Channels, Unseen(c), channels' = channels \cup {c},
             UNCHANGED <<native, closing>>
      PROVE  DeadIsDropped'
  <2>1. native[c] # "deleted"
    BY <1>2 DEF Unseen, UniqueCloser
  <2> QED
    BY <1>2, <2>1
<1>3. ASSUME NEW t \in Threads, Act(t) PROVE DeadIsDropped'
  <2>1. CASE \E c \in Channels : Create(t, c)
    BY <1>1, <2>1 DEF Create, TypeOK, Objects
  <2>2. CASE \E c \in Channels : CloseChannel(t, c)
    BY <1>1, <2>2 DEF CloseChannel, Client, WinClose, TypeOK
  <2> QED
    BY <1>1, <1>3, <2>1, <2>2 DEF Act, Listen, CloseChannelAgain, ClosePeer
<1>4. ASSUME NEW t \in Threads, OpenStep(t) PROVE DeadIsDropped'
  <2>1. CASE PutChannel(t)
    <3>1. opening[t].chan \in Channels /\ Unseen(opening[t].chan)
      BY <2>1, OpeningRecord DEF PutChannel, Opening, ActiveOpenings, WayInv
    <3> QED
      BY <1>2, <2>1, <3>1 DEF PutChannel
  <2> QED
    BY <1>1, <1>4, <2>1 DEF OpenStep, GetPeerPointer, SetChannelPointer
<1>5. ASSUME NEW t \in Threads, CloseStep(t) PROVE DeadIsDropped'
  <2>1. closing[t] \in ActiveClosings
    BY <1>5, ClosingRecord
    DEF CloseStep, NativeCloseChannel, CallDeleteChannel, DeleteChannel,
        DropChannel, UnhookChannel, ClosingAt
  <2>2. \A s \in Threads \ {t} : UNCHANGED closing[s]
    BY <1>5
    DEF CloseStep, NativeCloseChannel, CallDeleteChannel, DeleteChannel,
        DropChannel, UnhookChannel, TypeOK
  <2>3. CASE DeleteChannel(t)
    <3>1. /\ closing'[t].step = "drop" /\ closing'[t].chan = closing[t].chan
          /\ closing[t].step = "await" /\ UNCHANGED channels
      BY <2>1, <2>3 DEF DeleteChannel, ClosingAt, TypeOK, ActiveClosings
    <3>2. \A c \in Channels : c # closing[t].chan => native'[c] = native[c]
      BY <2>1, <2>3 DEF DeleteChannel, TypeOK, ActiveClosings
    <3> QED
      BY <2>2, <3>1, <3>2 DEF TypeOK
  <2>4. CASE DropChannel(t)
    <3>1. channels' = channels \ {closing[t].chan} /\ UNCHANGED native
      BY <2>4 DEF DropChannel
    <3> QED
      BY <2>2, <3>1 DEF TypeOK
  <2>5. CASE NativeCloseChannel(t)
    BY <1>1, <2>1, <2>2, <2>5
    DEF NativeCloseChannel, ClosingAt, TypeOK, ActiveClosings, Objects
  <2>6. CASE CallDeleteChannel(t) \/ UnhookChannel(t)
    BY <1>1, <2>2, <2>6 DEF CallDeleteChannel, UnhookChannel, ClosingAt
  <2> QED
    BY <1>5, <2>3, <2>4, <2>5, <2>6 DEF CloseStep
<1>6. ASSUME NEW t \in Threads, TearStep(t) PROVE DeadIsDropped'
  <2>1. closing[t].step = "no"
    BY <1>6
    DEF TearStep, ScanChannels, CloseNextChannel, CheckChannels, StackOverflow,
        Clean, CallDeletePeer, DeletePeer, DeletePeerFails, FreeRecord,
        UnhookPeer, TearingAt
  <2>2. \A s \in Threads \ {t} : UNCHANGED closing[s]
    BY <1>6
    DEF TearStep, ScanChannels, CloseNextChannel, CheckChannels, StackOverflow,
        Clean, CallDeletePeer, DeletePeer, DeletePeerFails, FreeRecord,
        UnhookPeer, WinClose, TypeOK
  <2>3. UNCHANGED channels
    BY <1>6
    DEF TearStep, ScanChannels, CloseNextChannel, CheckChannels, StackOverflow,
        Clean, CallDeletePeer, DeletePeer, DeletePeerFails, FreeRecord, UnhookPeer
  <2>4. \A c \in Channels : native'[c] = native[c]
    BY <1>6, TearingRecord
    DEF TearStep, ScanChannels, CloseNextChannel, CheckChannels, StackOverflow,
        Clean, CallDeletePeer, DeletePeer, DeletePeerFails, FreeRecord, UnhookPeer,
        TearingAt, TypeOK, ActiveTearings, Objects
  <2> QED
    BY <1>1, <2>1, <2>2, <2>3, <2>4
<1>7. ASSUME NEW n \in NativeThreads, Happen(n) \/ Handle(n) \/ LeaveListener(n)
      PROVE  DeadIsDropped'
  <2>1. CASE DispatchNewChannel(n)
    <3>1. callback[n].new \in Channels /\ Unseen(callback[n].new)
      BY <2>1, CallbackRecord DEF DispatchNewChannel, ActiveCallbacks, Arriving, WayInv
    <3> QED
      BY <1>2, <2>1, <3>1 DEF DispatchNewChannel
  <2>2. CASE \E c \in Channels : RemoteOpens(n, c)
    BY <1>1, <2>2 DEF RemoteOpens, TypeOK, Objects
  <2> QED
    BY <1>1, <1>7, <2>1, <2>2
    DEF Happen, Handle, LeaveListener, Raise, DispatchEvent,
        MissCallback, NextListener, EndCallback
<1>8. CASE UNCHANGED vars
  BY <1>1, <1>8 DEF vars
<1> QED
  BY <1>3, <1>4, <1>5, <1>6, <1>7, <1>8 DEF Next

(* However creations, arrivals and closers race, the map holds no channel  *)
(* whose handle is deleted, but the one its closer is about to drop.       *)
THEOREM MapHoldsNoDead == Spec => []NoDeadEntry
<1>1. Init => DeadIsDropped
  BY DEF Init, DeadIsDropped
<1>2. TypeOK /\ PeerInv /\ WayInv /\ DeadIsDropped /\ [Next]_vars
        => (WayInv /\ DeadIsDropped)'
  BY WayStep, DeadIsDroppedStep DEF PeerInv
<1>3. TypeOK /\ DeadIsDropped => NoDeadEntry
  <2> SUFFICES ASSUME TypeOK, DeadIsDropped, NEW c \in channels, native[c] = "deleted"
               PROVE  \E t \in Threads : closing[t] = [step |-> "drop", chan |-> c]
    BY DEF NoDeadEntry
  <2>1. PICK t \in Threads : closing[t].step = "drop" /\ closing[t].chan = c
    BY DEF DeadIsDropped
  <2>2. closing[t] \in ActiveClosings
    BY <2>1, ClosingRecord
  <2> QED
    BY <2>1, <2>2 DEF ActiveClosings
<1> QED
  BY <1>1, <1>2, <1>3, WayInit, PeerInvariant, TypeCorrect, PTL DEF Spec

-----------------------------------------------------------------------------
(* A channel with a handle is in the map or on its way into it, if no      *)
(* callback for a new one is lost: nothing leaves the map before its       *)
(* handle is deleted.                                                      *)

OnItsWay(c) ==
  \/ \E t \in Threads : opening[t].step # "no" /\ opening[t].chan = c
  \/ \E n \in NativeThreads : Arriving(n) /\ callback[n].new = c

MapIsComplete ==
  /\ ~LostOpens => \A c \in Channels :
       native[c] \notin {"absent", "deleted"} => c \in channels \/ OnItsWay(c)
  /\ \A t \in Threads :
       closing[t].step \in {"drop", "unhook"} => native[closing[t].chan] = "deleted"

LEMMA MapIsCompleteStep ==
  ASSUME TypeOK, UniqueCloser, WayInv, MapIsComplete, [Next]_vars
  PROVE  MapIsComplete'
<1> USE LifecycleAssumption DEF sharedVars, history
<1>1. ASSUME channels \subseteq channels',
             \A c \in Channels : native'[c] = native[c],
             ~LostOpens => \A c \in Channels :
               OnItsWay(c) => OnItsWay(c)' \/ c \in channels',
             \A t \in Threads : closing'[t].step \in {"drop", "unhook"} => UNCHANGED closing[t]
      PROVE  MapIsComplete'
  BY <1>1, ClosingRecord DEF MapIsComplete, ActiveClosings
<1>2. ASSUME UNCHANGED <<opening, callback>>, NEW c \in Channels
      PROVE  OnItsWay(c)' <=> OnItsWay(c)
  BY <1>2 DEF OnItsWay, Arriving
<1>3. ASSUME NEW t \in Threads, NEW c \in Channels, Create(t, c) PROVE MapIsComplete'
  <2>1. opening[t].step = "no" /\ native[c] = "absent"
    BY <1>3 DEF Create, Client
  <2>2. \A d \in Channels : native'[d] = IF d = c THEN "open" ELSE native[d]
    BY <1>3 DEF Create, TypeOK, Objects
  <2>3. \A s \in Threads : opening'[s] =
          IF s = t THEN [step |-> "get", chan |-> c, ptr |-> FALSE] ELSE opening[s]
    BY <1>3 DEF Create, TypeOK
  <2>4. UNCHANGED <<channels, closing, callback>>
    BY <1>3 DEF Create
  <2>5. OnItsWay(c)' /\ \A d \in Channels : OnItsWay(d) => OnItsWay(d)'
    BY <2>1, <2>3, <2>4 DEF OnItsWay, Arriving
  <2> QED
    BY <2>1, <2>2, <2>4, <2>5, ClosingRecord DEF MapIsComplete, ActiveClosings
<1>4. ASSUME NEW n \in NativeThreads, NEW c \in Channels, RemoteOpens(n, c)
      PROVE  MapIsComplete'
  <2>1. ~Arriving(n) /\ native[c] = "absent"
    BY <1>4 DEF RemoteOpens, Arriving
  <2>2. \A d \in Channels : native'[d] = IF d = c THEN "open" ELSE native[d]
    BY <1>4 DEF RemoteOpens, TypeOK, Objects
  <2>3. \A m \in NativeThreads : callback'[m] =
          IF m = n THEN [phase |-> "entered", obj |-> Owner[c], new |-> c, left |-> 0]
                   ELSE callback[m]
    BY <1>4 DEF RemoteOpens, TypeOK
  <2>4. UNCHANGED <<channels, closing, opening>>
    BY <1>4 DEF RemoteOpens
  <2>5. c # None
    BY DEF Objects
  <2>6. OnItsWay(c)' /\ \A d \in Channels : OnItsWay(d) => OnItsWay(d)'
    BY <2>1, <2>3, <2>4, <2>5 DEF OnItsWay, Arriving
  <2> QED
    BY <2>1, <2>2, <2>4, <2>6, ClosingRecord DEF MapIsComplete, ActiveClosings
<1>5. ASSUME NEW t \in Threads, OpenStep(t) PROVE MapIsComplete'
  <2>1. opening[t] \in ActiveOpenings
    BY <1>5, OpeningRecord
    DEF OpenStep, GetPeerPointer, SetChannelPointer, PutChannel, Opening
  <2>2. /\ UNCHANGED <<native, closing, callback>>
        /\ channels \subseteq channels'
    BY <1>5 DEF OpenStep, GetPeerPointer, SetChannelPointer, PutChannel
  <2>3. /\ \A s \in Threads \ {t} : UNCHANGED opening[s]
        /\ \/ opening'[t].step # "no" /\ UNCHANGED opening[t].chan
           \/ opening[t].chan \in channels'
    BY <1>5, <2>1
    DEF OpenStep, GetPeerPointer, SetChannelPointer, PutChannel, TypeOK, ActiveOpenings
  <2>4. \A c \in Channels : OnItsWay(c) => OnItsWay(c)' \/ c \in channels'
    BY <2>2, <2>3 DEF OnItsWay, Arriving
  <2> QED
    BY <1>1, <2>2, <2>4
<1>6. ASSUME NEW n \in NativeThreads,
             (\E o \in Objects : Raise(n, o)) \/ Handle(n) \/ LeaveListener(n)
      PROVE  MapIsComplete'
  <2>1. /\ UNCHANGED <<native, closing, opening>>
        /\ channels \subseteq channels'
    BY <1>6
    DEF Raise, Handle, DispatchNewChannel, DispatchEvent,
        MissCallback, LeaveListener, NextListener,
        EndCallback
  <2>2. /\ \A m \in NativeThreads \ {n} : UNCHANGED callback[m]
        /\ ~LostOpens /\ Arriving(n) => callback[n].new \in channels'
    BY <1>6
    DEF Raise, Handle, DispatchNewChannel, DispatchEvent,
        MissCallback, ToClient, LeaveListener,
        NextListener, EndCallback, TypeOK, Arriving
  <2>3. ~LostOpens =>
          \A c \in Channels : OnItsWay(c) => OnItsWay(c)' \/ c \in channels'
    BY <2>1, <2>2 DEF OnItsWay, Arriving
  <2> QED
    BY <1>1, <2>1, <2>3
<1>7. ASSUME NEW t \in Threads, CloseStep(t) PROVE MapIsComplete'
  <2>1. closing[t] \in ActiveClosings
    BY <1>7, ClosingRecord
    DEF CloseStep, NativeCloseChannel, CallDeleteChannel, DeleteChannel,
        DropChannel, UnhookChannel, ClosingAt
  <2>2. \A s \in Threads \ {t} : UNCHANGED closing[s]
    BY <1>7
    DEF CloseStep, NativeCloseChannel, CallDeleteChannel, DeleteChannel,
        DropChannel, UnhookChannel, TypeOK
  <2>3. UNCHANGED <<opening, callback>>
    BY <1>7
    DEF CloseStep, NativeCloseChannel, CallDeleteChannel, DeleteChannel,
        DropChannel, UnhookChannel
  <2>4. \A c \in Channels : OnItsWay(c)' <=> OnItsWay(c)
    BY <1>2, <2>3
  <2>5. /\ \A c \in Channels : native[c] \in {"absent", "deleted"} =>
             native'[c] \in {"absent", "deleted"} \/ c = closing[t].chan
        /\ \A c \in Channels : native[c] = "deleted" => native'[c] = "deleted"
    BY <1>7, <2>1
    DEF CloseStep, NativeCloseChannel, CallDeleteChannel, DeleteChannel,
        DropChannel, UnhookChannel, TypeOK, ActiveClosings, Objects
  <2>6. closing'[t].step \in {"drop", "unhook"} =>
          native'[closing[t].chan] = "deleted" /\ closing'[t].chan = closing[t].chan
    BY <1>7, <2>1
    DEF CloseStep, NativeCloseChannel, CallDeleteChannel, DeleteChannel, DropChannel,
        UnhookChannel, ClosingAt, NoClosing, TypeOK, ActiveClosings, Objects, MapIsComplete
  <2>7. native[closing[t].chan] # "absent"
    BY <2>1 DEF UniqueCloser, WayInv, Unseen, ActiveClosings
  <2>8. \A c \in Channels : native'[c] \notin {"absent", "deleted"} =>
          native[c] \notin {"absent", "deleted"} /\ (c \in channels => c \in channels')
    BY <1>7, <2>1, <2>7
    DEF CloseStep, NativeCloseChannel, CallDeleteChannel, DeleteChannel, DropChannel,
        UnhookChannel, ClosingAt, TypeOK, ActiveClosings, Objects, MapIsComplete
  <2>9. \A s \in Threads : closing[s].step \in {"drop", "unhook"} => closing[s].chan \in Channels
    BY ClosingRecord DEF ActiveClosings
  <2> QED
    BY <2>1, <2>2, <2>4, <2>5, <2>6, <2>8, <2>9 DEF MapIsComplete
<1>8. ASSUME NEW t \in Threads, Act(t), ~\E c \in Channels : Create(t, c)
      PROVE  MapIsComplete'
  <2>1. UNCHANGED <<native, channels, opening, callback>>
    BY <1>8 DEF Act, Listen, CloseChannel, CloseChannelAgain, ClosePeer
  <2>2. \A c \in Channels : OnItsWay(c) => OnItsWay(c)'
    BY <1>2, <2>1
  <2>3. \A s \in Threads : closing'[s].step \in {"drop", "unhook"} => UNCHANGED closing[s]
    <3>1. CASE \E c \in Channels : CloseChannel(t, c)
      BY <3>1 DEF CloseChannel, WinClose, TypeOK
    <3> QED
      BY <1>8, <3>1 DEF Act, Listen, CloseChannelAgain, ClosePeer
  <2> QED
    BY <1>1, <2>1, <2>2, <2>3
<1>9. ASSUME NEW t \in Threads, TearStep(t) PROVE MapIsComplete'
  <2>1. UNCHANGED <<channels, opening, callback>>
    BY <1>9
    DEF TearStep, ScanChannels, CloseNextChannel, CheckChannels, StackOverflow,
        Clean, CallDeletePeer, DeletePeer, DeletePeerFails, FreeRecord, UnhookPeer
  <2>2. \A c \in Channels : OnItsWay(c) => OnItsWay(c)'
    BY <1>2, <2>1
  <2>3. \A s \in Threads : closing'[s].step \in {"drop", "unhook"} => UNCHANGED closing[s]
    BY <1>9
    DEF TearStep, ScanChannels, CloseNextChannel, CheckChannels, StackOverflow,
        Clean, CallDeletePeer, DeletePeer, DeletePeerFails, FreeRecord,
        UnhookPeer, WinClose, TypeOK
  <2>4. \A c \in Channels : native'[c] = native[c]
    BY <1>9, TearingRecord
    DEF TearStep, ScanChannels, CloseNextChannel, CheckChannels, StackOverflow,
        Clean, CallDeletePeer, DeletePeer, DeletePeerFails, FreeRecord, UnhookPeer,
        TearingAt, TypeOK, ActiveTearings, Objects
  <2> QED
    BY <1>1, <2>1, <2>2, <2>3, <2>4
<1>10. CASE UNCHANGED vars
  BY <1>1, <1>2, <1>10 DEF vars
<1> QED
  BY <1>3, <1>4, <1>5, <1>6, <1>7, <1>8, <1>9, <1>10 DEF Next, Happen

-----------------------------------------------------------------------------
(* For a client that opens no channel of a peer it closes (LateOpens is    *)
(* FALSE): the map of a peer whose Cleaner action has run stays empty.     *)

Emptied == {"clean", "delete", "await", "free", "unhook"}

TearInv ==
  /\ \A t \in Threads : opening[t].step # "no" => ~TearingDown(Owner[opening[t].chan])
  /\ \A n \in NativeThreads : Arriving(n) =>
       /\ callback[n].obj = Owner[callback[n].new]
       /\ ~TearingDown(Owner[callback[n].new])
  /\ \A p \in cleaned : ChannelsOf(p) = {}
  /\ \A t \in Threads : tearing[t].step \in Emptied => ChannelsOf(tearing[t].peer) = {}
  /\ \A n \in NativeThreads :
       callback[n].phase = "entered" => native[callback[n].obj] # "absent"

LEMMA TearInit == Init => TearInv
BY LifecycleAssumption
DEF Init, TearInv, TearingDown, Arriving, ChannelsOf, Emptied, NoCallback, NoOpening,
    NoTearing, Objects, Threads

(* No close of a peer begins or ends, and no channel comes near the map.   *)
LEMMA TearFrame ==
  ASSUME TypeOK, TearInv,
         channels' \subseteq channels,
         cleaned' = cleaned,
         \A t \in Threads : tearing'[t].step = tearing[t].step
                            /\ tearing'[t].peer = tearing[t].peer,
         \A o \in Objects : native'[o] = "absent" => native[o] = "absent",
         \A t \in Threads : opening'[t].step # "no" =>
           opening[t].step # "no" /\ opening'[t].chan = opening[t].chan,
         \A n \in NativeThreads : callback'[n].phase = "entered" =>
           \/ UNCHANGED callback[n]
           \/ callback'[n].obj \in Objects /\ callback'[n].new = None
              /\ native'[callback'[n].obj] # "absent"
  PROVE  TearInv'
<1>1. \A p \in Peers : TearingDown(p)' <=> TearingDown(p)
  BY DEF TearingDown
<1>2. \A p \in Peers : ChannelsOf(p)' \subseteq ChannelsOf(p)
  BY DEF ChannelsOf
<1>3. \A t \in Threads : opening[t].step # "no" => Owner[opening[t].chan] \in Peers
  BY OpeningRecord, LifecycleAssumption DEF ActiveOpenings
<1>4. \A n \in NativeThreads : Arriving(n) => Owner[callback[n].new] \in Peers
  BY CallbackRecord, LifecycleAssumption DEF Arriving, ActiveCallbacks, NoCallback
<1>5. \A n \in NativeThreads : Arriving(n)' => Arriving(n) /\ UNCHANGED callback[n]
  BY DEF Arriving
<1>6. (\A t \in Threads : opening[t].step # "no" => ~TearingDown(Owner[opening[t].chan]))'
  BY <1>1, <1>3 DEF TearInv
<1>7. (\A n \in NativeThreads : Arriving(n) =>
         /\ callback[n].obj = Owner[callback[n].new]
         /\ ~TearingDown(Owner[callback[n].new]))'
  BY <1>1, <1>4, <1>5 DEF TearInv
<1>8. (\A p \in cleaned : ChannelsOf(p) = {})'
  BY <1>2 DEF TearInv, TypeOK
<1>9. (\A t \in Threads : tearing[t].step \in Emptied => ChannelsOf(tearing[t].peer) = {})'
  BY <1>2, TearingRecord DEF TearInv, Emptied, ActiveTearings
<1>10. (\A n \in NativeThreads :
          callback[n].phase = "entered" => native[callback[n].obj] # "absent")'
  BY CallbackRecord DEF TearInv, ActiveCallbacks
<1> QED
  BY <1>6, <1>7, <1>8, <1>9, <1>10 DEF TearInv

LEMMA TearInvStep ==
  ASSUME ~LateOpens, TypeOK, UniqueCleaner, TearInv, [Next]_vars
  PROVE  TearInv'
<1> USE LifecycleAssumption DEF sharedVars, history
<1>2. ASSUME NEW t \in Threads, NEW c \in Channels, Create(t, c) PROVE TearInv'
  <2>1. ~TearingDown(Owner[c]) /\ Owner[c] \in Peers
    BY <1>2 DEF Create, MayOpen
  <2>2. /\ UNCHANGED <<channels, cleaned, tearing, callback>>
        /\ \A o \in Objects : native'[o] = "absent" => native[o] = "absent"
    BY <1>2 DEF Create, TypeOK
  <2>3. \A s \in Threads : opening'[s] =
          IF s = t THEN [step |-> "get", chan |-> c, ptr |-> FALSE] ELSE opening[s]
    BY <1>2 DEF Create, TypeOK
  <2>4. \A s \in Threads : opening'[s].step # "no" =>
          opening'[s].chan \in Channels /\ ~TearingDown(Owner[opening'[s].chan])
    BY <2>1, <2>3, OpeningRecord DEF TearInv, ActiveOpenings
  <2>5. \A q : (TearingDown(q)' <=> TearingDown(q)) /\ ChannelsOf(q)' = ChannelsOf(q)
    BY <2>2 DEF TearingDown, ChannelsOf
  <2>6. \A n \in NativeThreads : (Arriving(n)' <=> Arriving(n)) /\ UNCHANGED callback[n]
    BY <2>2 DEF Arriving
  <2>7. \A n \in NativeThreads :
          callback[n].phase = "entered" => callback[n].obj \in Objects
    BY CallbackRecord DEF ActiveCallbacks
  <2>8. \A n \in NativeThreads :
          callback[n].phase = "entered" => native'[callback[n].obj] # "absent"
    BY <2>2, <2>7 DEF TearInv
  <2>9. (\A s \in Threads : opening[s].step # "no" => ~TearingDown(Owner[opening[s].chan]))'
    BY <2>4, <2>5
  <2>10. (\A n \in NativeThreads : Arriving(n) =>
            /\ callback[n].obj = Owner[callback[n].new]
            /\ ~TearingDown(Owner[callback[n].new]))'
    BY <2>5, <2>6 DEF TearInv
  <2> QED
    BY <2>2, <2>5, <2>6, <2>8, <2>9, <2>10 DEF TearInv
<1>3. ASSUME NEW n \in NativeThreads, NEW c \in Channels, RemoteOpens(n, c)
      PROVE  TearInv'
  <2>1. ~TearingDown(Owner[c]) /\ Owner[c] \in Peers
    BY <1>3 DEF RemoteOpens, MayOpen
  <2>2. /\ UNCHANGED <<channels, cleaned, tearing, opening>>
        /\ \A o \in Objects : native'[o] = "absent" => native[o] = "absent"
        /\ native'[Owner[c]] # "absent"
    BY <1>3, <2>1 DEF RemoteOpens, TypeOK, Objects
  <2>3. \A m \in NativeThreads : callback'[m] =
          IF m = n THEN [phase |-> "entered", obj |-> Owner[c], new |-> c, left |-> 0]
                   ELSE callback[m]
    BY <1>3 DEF RemoteOpens, TypeOK
  <2>4. \A m \in NativeThreads : Arriving(m)' =>
          callback'[m].obj = Owner[callback'[m].new]
          /\ ~TearingDown(Owner[callback'[m].new])
    BY <2>1, <2>3 DEF TearInv, Arriving
  <2>5. \A q : (TearingDown(q)' <=> TearingDown(q)) /\ ChannelsOf(q)' = ChannelsOf(q)
    BY <2>2 DEF TearingDown, ChannelsOf
  <2>6. \A m \in NativeThreads : callback'[m].phase = "entered" =>
          native'[callback'[m].obj] # "absent"
    BY <2>2, <2>3, CallbackRecord DEF TearInv, ActiveCallbacks
  <2> QED
    BY <2>2, <2>4, <2>5, <2>6 DEF TearInv
<1>4. ASSUME NEW c \in Channels, ~TearingDown(Owner[c]), channels' = channels \cup {c},
             UNCHANGED <<native, cleaned, tearing>>,
             \A t \in Threads : opening'[t].step # "no" => UNCHANGED opening[t],
             \A n \in NativeThreads : callback'[n].phase = "entered" => UNCHANGED callback[n]
      PROVE  TearInv'
  <2>1. \A q : TearingDown(q)' <=> TearingDown(q)
    BY <1>4 DEF TearingDown
  <2>2. \A q : q # Owner[c] => ChannelsOf(q)' = ChannelsOf(q)
    BY <1>4 DEF ChannelsOf
  <2>3. /\ Owner[c] \notin cleaned
        /\ \A t \in Threads : tearing[t].peer # Owner[c]
    BY <1>4 DEF TearingDown
  <2>4. \A n \in NativeThreads : Arriving(n)' => Arriving(n) /\ UNCHANGED callback[n]
    BY <1>4 DEF Arriving
  <2>5. (\A p \in cleaned : ChannelsOf(p) = {})'
    BY <1>4, <2>2, <2>3 DEF TearInv
  <2>6. (\A t \in Threads : tearing[t].step \in Emptied => ChannelsOf(tearing[t].peer) = {})'
    BY <1>4, <2>2, <2>3 DEF TearInv
  <2>7. (\A t \in Threads : opening[t].step # "no" => ~TearingDown(Owner[opening[t].chan]))'
    BY <1>4, <2>1 DEF TearInv
  <2>8. (\A n \in NativeThreads : Arriving(n) =>
           /\ callback[n].obj = Owner[callback[n].new]
           /\ ~TearingDown(Owner[callback[n].new]))'
    BY <2>1, <2>4 DEF TearInv
  <2>9. (\A n \in NativeThreads :
           callback[n].phase = "entered" => native[callback[n].obj] # "absent")'
    BY <1>4 DEF TearInv
  <2> QED
    BY <2>5, <2>6, <2>7, <2>8, <2>9 DEF TearInv
<1>5. ASSUME NEW t \in Threads, NEW p \in Peers, ClosePeer(t, p) PROVE TearInv'
  <2>1. /\ UNCHANGED <<native, channels, cleaned, opening, callback>>
        /\ \A s \in Threads : opening[s].step # "no" => Owner[opening[s].chan] # p
        /\ \A n \in NativeThreads : callback[n].new # None => callback[n].obj # p
    BY <1>5 DEF ClosePeer, MayTearDown
  <2>2. \A s \in Threads : tearing'[s] =
          IF s = t THEN [step |-> "scan", peer |-> p, work |-> {}, depth |-> 0]
                   ELSE tearing[s]
    BY <1>5 DEF ClosePeer, TypeOK
  <2>3. \A q : q # p /\ TearingDown(q)' => TearingDown(q)
    BY <2>1, <2>2 DEF TearingDown
  <2>4. \A q : ChannelsOf(q)' = ChannelsOf(q)
    BY <2>1 DEF ChannelsOf
  <2>5. \A n \in NativeThreads : (Arriving(n)' <=> Arriving(n)) /\ UNCHANGED callback[n]
    BY <2>1 DEF Arriving
  <2>6. \A n \in NativeThreads : Arriving(n) => Owner[callback[n].new] # p
    BY <2>1 DEF Arriving, TearInv
  <2>7. (\A n \in NativeThreads : Arriving(n) =>
           /\ callback[n].obj = Owner[callback[n].new]
           /\ ~TearingDown(Owner[callback[n].new]))'
    BY <2>3, <2>5, <2>6 DEF TearInv
  <2>8. (\A s \in Threads : opening[s].step # "no" => ~TearingDown(Owner[opening[s].chan]))'
    BY <2>1, <2>3 DEF TearInv
  <2>9. (\A s \in Threads : tearing[s].step \in Emptied => ChannelsOf(tearing[s].peer) = {})'
    BY <2>2, <2>4 DEF TearInv, Emptied
  <2>10. (\A q \in cleaned : ChannelsOf(q) = {})'
    BY <2>1, <2>4 DEF TearInv
  <2> QED
    BY <2>1, <2>7, <2>8, <2>9, <2>10 DEF TearInv
<1>6. ASSUME NEW t \in Threads, OpenStep(t) PROVE TearInv'
  <2>1. opening[t] \in ActiveOpenings
    BY <1>6, OpeningRecord
    DEF OpenStep, GetPeerPointer, SetChannelPointer, PutChannel, Opening
  <2>2. CASE PutChannel(t)
    <3>1. opening[t].chan \in Channels /\ ~TearingDown(Owner[opening[t].chan])
      BY <2>1, <2>2 DEF PutChannel, Opening, TearInv, ActiveOpenings
    <3>2. /\ channels' = channels \cup {opening[t].chan}
          /\ UNCHANGED <<native, cleaned, tearing, callback>>
      BY <2>2 DEF PutChannel
    <3>3. \A s \in Threads : opening'[s].step # "no" => UNCHANGED opening[s]
      BY <2>2 DEF PutChannel, NoOpening, TypeOK
    <3> QED
      BY <1>4, <3>1, <3>2, <3>3
  <2>3. CASE ~PutChannel(t)
    <3>1. UNCHANGED <<native, channels, cleaned, tearing, callback>>
      BY <1>6, <2>3 DEF OpenStep, GetPeerPointer, SetChannelPointer
    <3>2. \A s \in Threads : opening'[s].step # "no" =>
            opening[s].step # "no" /\ opening'[s].chan = opening[s].chan
      BY <1>6, <2>1, <2>3
      DEF OpenStep, GetPeerPointer, SetChannelPointer, TypeOK, ActiveOpenings
    <3> QED
      BY <3>1, <3>2, TearFrame
  <2> QED
    BY <2>2, <2>3
<1>7. ASSUME NEW t \in Threads, CloseStep(t) PROVE TearInv'
  <2>1. closing[t].chan \in Channels
    BY <1>7, ClosingRecord
    DEF CloseStep, NativeCloseChannel, CallDeleteChannel, DeleteChannel,
        DropChannel, UnhookChannel, ClosingAt, ActiveClosings
  <2>2. UNCHANGED <<cleaned, tearing, opening, callback>> /\ channels' \subseteq channels
    BY <1>7
    DEF CloseStep, NativeCloseChannel, CallDeleteChannel, DeleteChannel,
        DropChannel, UnhookChannel
  <2>3. \A o \in Objects : native'[o] = "absent" => native[o] = "absent"
    BY <1>7, <2>1
    DEF CloseStep, NativeCloseChannel, CallDeleteChannel, DeleteChannel,
        DropChannel, UnhookChannel, TypeOK, Objects
  <2> QED
    BY <2>2, <2>3, TearFrame
<1>8. ASSUME NEW n \in NativeThreads, DispatchNewChannel(n) PROVE TearInv'
  <2>1. Arriving(n) /\ callback[n].new \in Channels
    BY <1>8, CallbackRecord DEF DispatchNewChannel, Arriving, ActiveCallbacks
  <2>2. ~TearingDown(Owner[callback[n].new])
    BY <2>1 DEF TearInv
  <2>3. /\ UNCHANGED <<native, cleaned, tearing, opening>>
        /\ channels' = channels \cup {callback[n].new}
    BY <1>8 DEF DispatchNewChannel
  <2>4. \A m \in NativeThreads : callback'[m].phase = "entered" => UNCHANGED callback[m]
    BY <1>8 DEF DispatchNewChannel, ToClient, TypeOK
  <2> QED
    BY <1>4, <2>1, <2>2, <2>3, <2>4
<1>9. ASSUME NEW n \in NativeThreads,
             \/ \E o \in Objects : Raise(n, o)
             \/ DispatchEvent(n) \/ MissCallback(n) \/ LeaveListener(n)
      PROVE  TearInv'
  <2>1. UNCHANGED <<native, channels, cleaned, tearing, opening>>
    BY <1>9 DEF Raise, DispatchEvent,
      MissCallback, LeaveListener, NextListener, EndCallback
  <2>2. \A m \in NativeThreads \ {n} : UNCHANGED callback[m]
    BY <1>9
    DEF Raise, DispatchEvent,
        MissCallback, ToClient, LeaveListener, NextListener, EndCallback, TypeOK
  <2>3. callback'[n].phase = "entered" =>
          /\ callback'[n].obj \in Objects /\ callback'[n].new = None
          /\ native'[callback'[n].obj] # "absent"
    <3>1. CASE \E o \in Objects : Raise(n, o)
      BY <3>1 DEF Raise, TypeOK
    <3>2. CASE DispatchEvent(n) \/ MissCallback(n) \/ LeaveListener(n)
      BY <3>2, CallbackRecord
      DEF DispatchEvent,
          MissCallback, ToClient, LeaveListener, NextListener, EndCallback, NoCallback,
          TypeOK, ActiveCallbacks
    <3> QED
      BY <1>9, <3>1, <3>2
  <2> QED
    BY <2>1, <2>2, <2>3, TearFrame
<1>10. ASSUME NEW t \in Threads, Act(t), ~\E c \in Channels : Create(t, c),
              ~\E p \in Peers : ClosePeer(t, p)
       PROVE  TearInv'
  <2>1. UNCHANGED <<native, channels, cleaned, tearing, opening, callback>>
    BY <1>10 DEF Act, Listen, CloseChannel, CloseChannelAgain
  <2> QED
    BY <2>1, TearFrame
<1>11. ASSUME NEW t \in Threads, TearStep(t) PROVE TearInv'
  <2> DEFINE p == tearing[t].peer
  <2>1. tearing[t] \in ActiveTearings
    BY <1>11, TearingRecord
    DEF TearStep, ScanChannels, CloseNextChannel, CheckChannels, StackOverflow,
        Clean, CallDeletePeer, DeletePeer, DeletePeerFails, FreeRecord,
        UnhookPeer, TearingAt
  <2>2. /\ UNCHANGED <<channels, opening, callback>>
        /\ \A s \in Threads \ {t} : UNCHANGED tearing[s]
    BY <1>11
    DEF TearStep, ScanChannels, CloseNextChannel, CheckChannels, StackOverflow,
        Clean, CallDeletePeer, DeletePeer, DeletePeerFails, FreeRecord, UnhookPeer, TypeOK
  <2>3. tearing'[t] = NoTearing \/ tearing'[t].peer = p
    BY <1>11, <2>1
    DEF TearStep, ScanChannels, CloseNextChannel, CheckChannels, StackOverflow,
        Clean, CallDeletePeer, DeletePeer, DeletePeerFails, FreeRecord, UnhookPeer,
        TypeOK, ActiveTearings
  <2>4. tearing'[t].step \in Emptied => ChannelsOf(p) = {}
    <3>1. CASE CheckChannels(t)
      BY <2>1, <3>1 DEF CheckChannels, TypeOK, ActiveTearings, Emptied
    <3>2. CASE tearing[t].step \in Emptied
      BY <3>2 DEF TearInv
    <3>3. CASE ~CheckChannels(t) /\ tearing[t].step \notin Emptied
      BY <1>11, <2>1, <3>3
      DEF TearStep, ScanChannels, CloseNextChannel, StackOverflow, Clean, CallDeletePeer,
          DeletePeer, DeletePeerFails, FreeRecord, UnhookPeer, TearingAt, NoTearing,
          TypeOK, ActiveTearings, Emptied
    <3> QED
      BY <3>1, <3>2, <3>3
  <2>5. cleaned \subseteq cleaned' /\ cleaned' \subseteq cleaned \cup {p}
    BY <1>11
    DEF TearStep, ScanChannels, CloseNextChannel, CheckChannels, StackOverflow,
        Clean, CallDeletePeer, DeletePeer, DeletePeerFails, FreeRecord, UnhookPeer
  <2>6. p \in cleaned' => ChannelsOf(p) = {}
    BY <1>11
    DEF TearStep, ScanChannels, CloseNextChannel, CheckChannels, StackOverflow,
        Clean, CallDeletePeer, DeletePeer, DeletePeerFails, FreeRecord, UnhookPeer,
        TearingAt, TearInv, Emptied
  <2>7. \A o \in Objects : native'[o] = "absent" => native[o] = "absent"
    BY <1>11
    DEF TearStep, ScanChannels, CloseNextChannel, CheckChannels, StackOverflow,
        Clean, CallDeletePeer, DeletePeer, DeletePeerFails, FreeRecord, UnhookPeer,
        TypeOK
  <2>8. p \in Peers /\ p # None /\ NoTearing.peer = None /\ NoTearing.step = "no"
    BY <2>1 DEF ActiveTearings, NoTearing, Objects
  <2>9. \A q \in Peers : TearingDown(q)' => TearingDown(q)
    BY <2>2, <2>3, <2>5, <2>8 DEF TearingDown, Objects
  <2>10. \A q : ChannelsOf(q)' = ChannelsOf(q)
    BY <2>2 DEF ChannelsOf
  <2>11. \A s \in Threads : opening[s].step # "no" => Owner[opening[s].chan] \in Peers
    BY OpeningRecord DEF ActiveOpenings
  <2>12. \A n \in NativeThreads :
           /\ (Arriving(n)' <=> Arriving(n)) /\ UNCHANGED callback[n]
           /\ Arriving(n) => Owner[callback[n].new] \in Peers
           /\ callback[n].phase = "entered" => callback[n].obj \in Objects
    BY <2>2, CallbackRecord DEF Arriving, ActiveCallbacks, NoCallback
  <2>13. (\A s \in Threads : opening[s].step # "no" => ~TearingDown(Owner[opening[s].chan]))'
    BY <2>2, <2>9, <2>11 DEF TearInv
  <2>14. (\A n \in NativeThreads : Arriving(n) =>
            /\ callback[n].obj = Owner[callback[n].new]
            /\ ~TearingDown(Owner[callback[n].new]))'
    BY <2>9, <2>12 DEF TearInv
  <2>15. (\A s \in Threads : tearing[s].step \in Emptied => ChannelsOf(tearing[s].peer) = {})'
    BY <2>2, <2>3, <2>4, <2>8, <2>10 DEF TearInv, Emptied
  <2>16. (\A q \in cleaned : ChannelsOf(q) = {})'
    BY <2>5, <2>6, <2>10 DEF TearInv
  <2>17. (\A n \in NativeThreads :
            callback[n].phase = "entered" => native[callback[n].obj] # "absent")'
    BY <2>7, <2>12 DEF TearInv
  <2> QED
    BY <2>13, <2>14, <2>15, <2>16, <2>17 DEF TearInv
<1>12. CASE UNCHANGED vars
  BY <1>12, TearFrame DEF vars
<1> QED
  BY <1>2, <1>3, <1>5, <1>6, <1>7, <1>8, <1>9, <1>10, <1>11, <1>12
  DEF Next, Act, Happen, Handle

LEMMA CleanedIsEmpty ==
  ASSUME ~LostOpens, TypeOK, MapIsComplete, TearInv, NEW c \in Channels,
         Owner[c] \in cleaned
  PROVE  native[c] \in {"absent", "deleted"}
<1>1. c \notin channels
  BY DEF TearInv, ChannelsOf
<1>2. ~OnItsWay(c)
  BY DEF TearInv, OnItsWay, TearingDown
<1> QED
  BY <1>1, <1>2 DEF MapIsComplete

LEMMA MapInvariant == Spec => [](WayInv /\ MapIsComplete)
<1>1. Init => MapIsComplete
  BY LifecycleAssumption DEF Init, MapIsComplete, NoClosing, Objects
<1>2. TypeOK /\ PeerInv /\ WayInv /\ MapIsComplete /\ [Next]_vars
        => (WayInv /\ MapIsComplete)'
  BY WayStep, MapIsCompleteStep DEF PeerInv
<1> QED
  BY <1>1, <1>2, WayInit, PeerInvariant, TypeCorrect, PTL DEF Spec

LEMMA TearInvariant ==
  ASSUME ~LateOpens
  PROVE  Spec => []TearInv
<1>1. TypeOK /\ PeerInv /\ TearInv /\ [Next]_vars => TearInv'
  BY TearInvStep DEF PeerInv
<1> QED
  BY <1>1, TearInit, PeerInvariant, TypeCorrect, PTL DEF Spec

(* PeerConnection.close leaves no channel of the peer with a live handle,  *)
(* however closers race, if none of its channels opens meanwhile and Java  *)
(* hears of every channel that was opened (LostOpens is FALSE).            *)
THEOREM NoChannelSurvives ==
  ASSUME ~LateOpens, ~LostOpens
  PROVE  Spec => []AllChannelsClosed
<1>1. TypeOK /\ MapIsComplete /\ TearInv /\ CleanerGoesOn => AllChannelsClosed
  BY CleanedIsEmpty, LifecycleAssumption DEF AllChannelsClosed, CleanerGoesOn
<1> QED
  BY <1>1, MapInvariant, TearInvariant, ReleaseInvariant, TypeCorrect, PTL

(* Under the same conditions no handler of a channel's event finds the      *)
(* callback record freed, to which the channel has a pointer of its own.   *)
THEOREM ChannelRecordStaysLive ==
  ASSUME ~LateOpens, ~LostOpens
  PROVE  Spec => []ChannelRecordLive
<1>1. TypeOK /\ PeerInv /\ MapIsComplete /\ TearInv => ChannelRecordLive
  <2> SUFFICES ASSUME TypeOK, PeerInv, MapIsComplete, TearInv, NEW n \in NativeThreads,
                      callback[n].phase = "entered", callback[n].obj \in Channels
               PROVE  record[Owner[callback[n].obj]] = "live"
    BY DEF ChannelRecordLive
  <2>1. native[callback[n].obj] \notin {"absent", "deleted"}
    BY DEF PeerInv, DeletedIsQuiet, TearInv
  <2>2. Owner[callback[n].obj] \in Peers \ cleaned
    BY <2>1, CleanedIsEmpty, LifecycleAssumption
  <2> QED
    BY <2>2 DEF PeerInv, UniqueCleaner, FreedIsDeleted, TypeOK
<1> QED
  BY <1>1, MapInvariant, TearInvariant, PeerInvariant, TypeCorrect, PTL

(* Two threads that both wait in a native deletion wait for different      *)
(* objects, and not one for a peer and the other for a channel of it: two  *)
(* closers are kept apart by the channel's flag and the peer's Cleaner,    *)
(* and a peer is not deleted while a channel of it is left.                *)
LEMMA DeletionsApart ==
  ASSUME ~LostOpens, TypeOK, PeerInv, WayInv, MapIsComplete, TearInv,
         NEW s \in Threads, NEW t \in Threads, s # t,
         NEW o \in Objects, NEW q \in Objects,
         AwaitsDeletion(s, o), AwaitsDeletion(t, q)
  PROVE  q # o /\ OwnerOf(q) # o
<1> USE LifecycleAssumption
<1>1. \/ closing[s].step = "await" /\ closing[s].chan = o /\ o \in Channels
      \/ tearing[s].step = "await" /\ tearing[s].peer = o /\ o \in Peers
  BY ClosingRecord, TearingRecord DEF AwaitsDeletion, ActiveClosings, ActiveTearings
<1>2. \/ closing[t].step = "await" /\ closing[t].chan = q /\ q \in Channels
      \/ tearing[t].step = "await" /\ tearing[t].peer = q /\ q \in Peers
  BY ClosingRecord, TearingRecord DEF AwaitsDeletion, ActiveClosings, ActiveTearings
<1>3. q # o
  BY <1>1, <1>2 DEF PeerInv, UniqueCloser, UniqueCleaner, InCleaner
<1>4. OwnerOf(q) # o
  <2>1. SUFFICES ASSUME q \in Channels, Owner[q] = o PROVE FALSE
    BY <1>3 DEF OwnerOf, Objects
  <2>2. closing[t].step = "await" /\ closing[t].chan = q
    BY <1>2, <2>1
  <2>3. q \in closedFlag /\ native[q] # "deleted"
    BY <2>2 DEF PeerInv, UniqueCloser
  <2>4. native[q] # "absent"
    BY <2>1, <2>3 DEF WayInv, Unseen
  <2>5. o \in cleaned
    BY <1>1, <2>1 DEF PeerInv, UniqueCleaner, InCleaner
  <2> QED
    BY <2>1, <2>3, <2>4, <2>5, CleanedIsEmpty
<1> QED
  BY <1>3, <1>4

(* A listener that a deletion waits for, and that waits in a deletion      *)
(* itself, is closing an object across: nobody waits for a callback of an  *)
(* object, or of its peer, from within which another close of it waits.    *)
(* The conditions are those of NoChannelSurvives.                          *)
THEOREM OnlyAcrossBlocks ==
  ASSUME ~LateOpens, ~LostOpens
  PROVE  Spec => []BlockedAcross
<1>1. TypeOK /\ PeerInv /\ WayInv /\ MapIsComplete /\ TearInv => BlockedAcross
  BY DeletionsApart DEF BlockedAcross, Threads
<1> QED
  BY <1>1, MapInvariant, TearInvariant, PeerInvariant, TypeCorrect, PTL

-----------------------------------------------------------------------------
(* Under the same conditions the life cycle implements HandleOwnership.    *)

PeersExist == \A p \in Peers : native[p] # "absent"

LEMMA NothingVanishes ==
  ASSUME TypeOK, [Next]_vars, NEW o \in Objects, native'[o] = "absent"
  PROVE  native[o] = "absent"
<1> USE DEF sharedVars, history
<1>1. ASSUME NEW t \in Threads, Act(t) PROVE native[o] = "absent"
  BY <1>1 DEF Act, Listen, Create, CloseChannel, CloseChannelAgain, ClosePeer, TypeOK
<1>2. ASSUME NEW t \in Threads, OpenStep(t) PROVE native[o] = "absent"
  BY <1>2 DEF OpenStep, GetPeerPointer, SetChannelPointer, PutChannel
<1>3. ASSUME NEW t \in Threads, CloseStep(t) PROVE native[o] = "absent"
  BY <1>3
  DEF CloseStep, NativeCloseChannel, CallDeleteChannel, DeleteChannel, DropChannel,
      UnhookChannel, TypeOK
<1>4. ASSUME NEW t \in Threads, TearStep(t) PROVE native[o] = "absent"
  BY <1>4
  DEF TearStep, ScanChannels, CloseNextChannel, CheckChannels, StackOverflow, Clean,
      CallDeletePeer, DeletePeer, DeletePeerFails, FreeRecord, UnhookPeer, TypeOK
<1>5. ASSUME NEW n \in NativeThreads, Happen(n) \/ Handle(n) \/ LeaveListener(n)
      PROVE  native[o] = "absent"
  BY <1>5
  DEF Happen, Handle, LeaveListener, Raise, RemoteOpens, DispatchNewChannel,
      DispatchEvent, MissCallback, NextListener, EndCallback, TypeOK
<1> QED
  BY <1>1, <1>2, <1>3, <1>4, <1>5 DEF Next, vars

LEMMA HandleValues ==
  ASSUME NEW o \in Objects
  PROVE  /\ Handles[o] = "none" <=> native[o] = "absent"
         /\ Handles[o] = "gone" <=> native[o] = "deleted"
         /\ Handles[o] = "live" <=> native[o] \notin {"absent", "deleted"}
BY DEF Handles

(* What has a handle has its record.                                       *)
LEMMA LiveHasRecord ==
  ASSUME ~LostOpens, TypeOK, PeerInv, MapIsComplete, TearInv, NEW o \in Objects,
         native[o] \notin {"absent", "deleted"}
  PROVE  record[Ownership!PeerOf(o)] = "live"
<1>1. CASE o \in Peers
  BY <1>1 DEF Ownership!PeerOf, PeerInv, FreedIsDeleted, TypeOK
<1>2. CASE o \in Channels
  <2>1. Owner[o] \in Peers \ cleaned /\ Ownership!PeerOf(o) = Owner[o]
    BY <1>2, CleanedIsEmpty, LifecycleAssumption DEF Ownership!PeerOf
  <2> QED
    BY <2>1 DEF PeerInv, UniqueCleaner, FreedIsDeleted, TypeOK
<1> QED
  BY <1>1, <1>2 DEF Objects

(* A deletion that is allowed finds no handler entered for the object.     *)
LEMMA DeletedIsNotUsed ==
  ASSUME TypeOK, CallsFromListeners, NEW t \in Threads, NEW o \in Objects,
         closing[t].step # "no" \/ tearing[t].step # "no", DeletionAllowed(t, o)
  PROVE  \A n \in NativeThreads : Entered[n] # o
<1>1. t \in NativeThreads => callback[t].phase # "entered"
  BY DEF CallsFromListeners
<1> QED
  BY <1>1, LifecycleAssumption DEF DeletionAllowed, Running, Entered

LEMMA OwnershipStep ==
  ASSUME ~LostOpens, TypeOK, PeerInv, WayInv, MapIsComplete, TearInv, PeersExist,
         [Next]_vars
  PROVE  [Ownership!Next]_(Ownership!ownershipVars)
<1> USE LifecycleAssumption DEF sharedVars, history, Ownership!ownershipVars
<1> DEFINE Step == [Ownership!Next]_(Ownership!ownershipVars)
<1>1. ASSUME UNCHANGED record,
             \A o \in Objects : /\ native'[o] = "absent" <=> native[o] = "absent"
                                /\ native'[o] = "deleted" <=> native[o] = "deleted",
             \A n \in NativeThreads :
               \/ UNCHANGED callback[n]
               \/ callback[n].phase # "entered" /\ callback'[n].phase # "entered"
      PROVE  Step
  <2>1. Handles' = Handles
    BY <1>1 DEF Handles
  <2>2. Entered' = Entered
    BY <1>1 DEF Entered
  <2> QED
    BY <1>1, <2>1, <2>2
<1>2. ASSUME NEW o \in Objects, native[o] \notin {"absent", "deleted"},
             native' = [native EXCEPT ![o] = "deleted"],
             \A n \in NativeThreads : Entered[n] # o,
             \A c \in Channels : Owner[c] = o => native[c] \in {"absent", "deleted"},
             UNCHANGED <<record, callback>>
      PROVE  Step
  <2>1. Handles' = [Handles EXCEPT ![o] = "gone"]
    BY <1>2 DEF Handles, TypeOK
  <2>2. Entered' = Entered
    BY <1>2 DEF Entered
  <2>3. Handles[o] = "live" /\ \A c \in Channels : Owner[c] = o => Handles[c] # "live"
    BY <1>2, HandleValues DEF Objects
  <2>4. Ownership!Delete(o)
    BY <1>2, <2>1, <2>2, <2>3 DEF Ownership!Delete
  <2> QED
    BY <2>4 DEF Ownership!Next, Ownership!Objects, Objects
<1>3. ASSUME NEW t \in Threads, NEW c \in Channels, Create(t, c) PROVE Step
  <2>1. Handles[c] = "none" /\ Handles[Owner[c]] = "live"
    BY <1>3, HandleValues DEF Create, Objects
  <2>2. Handles' = [Handles EXCEPT ![c] = "live"]
    BY <1>3 DEF Create, Handles, TypeOK
  <2>3. Entered' = Entered /\ record' = record
    BY <1>3 DEF Create, Entered
  <2>4. Ownership!OpenHere(c)
    BY <2>1, <2>2, <2>3 DEF Ownership!OpenHere, Ownership!Open
  <2> QED
    BY <2>4 DEF Ownership!Next
<1>4. ASSUME NEW t \in Threads, Act(t), ~\E c \in Channels : Create(t, c) PROVE Step
  BY <1>1, <1>4 DEF Act, Listen, CloseChannel, CloseChannelAgain, ClosePeer
<1>5. ASSUME NEW t \in Threads, OpenStep(t) PROVE Step
  BY <1>1, <1>5 DEF OpenStep, GetPeerPointer, SetChannelPointer, PutChannel
<1>6. ASSUME NEW t \in Threads, CloseStep(t) PROVE Step
  <2>1. closing[t] \in ActiveClosings /\ closing[t].step # "no"
    BY <1>6, ClosingRecord
    DEF CloseStep, NativeCloseChannel, CallDeleteChannel, DeleteChannel,
        DropChannel, UnhookChannel, ClosingAt
  <2>2. closing[t].chan \in Channels /\ closing[t].chan \in Objects
    BY <2>1 DEF ActiveClosings, Objects
  <2>3. native[closing[t].chan] # "absent"
    BY <2>1, <2>2 DEF PeerInv, UniqueCloser, WayInv, Unseen
  <2>4. CASE NativeCloseChannel(t)
    BY <1>1, <2>2, <2>3, <2>4 DEF NativeCloseChannel, TypeOK
  <2>5. CASE DeleteChannel(t)
    <3>1. native[closing[t].chan] # "deleted"
      BY <2>5 DEF DeleteChannel, ClosingAt, PeerInv, UniqueCloser
    <3>2. \A n \in NativeThreads : Entered[n] # closing[t].chan
      BY <2>1, <2>2, <2>5, DeletedIsNotUsed DEF DeleteChannel, PeerInv
    <3>3. \A c \in Channels :
            Owner[c] = closing[t].chan => native[c] \in {"absent", "deleted"}
      <4>1. \A c \in Channels : Owner[c] # closing[t].chan
        BY <2>2
      <4> QED
        BY <4>1
    <3>4. /\ native' = [native EXCEPT ![closing[t].chan] = "deleted"]
          /\ UNCHANGED <<record, callback>>
      BY <2>5 DEF DeleteChannel
    <3>5. native[closing[t].chan] \notin {"absent", "deleted"}
      BY <2>3, <3>1
    <3> QED
      BY <1>2, <2>2, <3>2, <3>3, <3>4, <3>5
  <2>6. CASE CallDeleteChannel(t) \/ DropChannel(t) \/ UnhookChannel(t)
    BY <1>1, <2>6 DEF CallDeleteChannel, DropChannel, UnhookChannel
  <2> QED
    BY <1>6, <2>4, <2>5, <2>6 DEF CloseStep
<1>7. ASSUME NEW t \in Threads, TearStep(t) PROVE Step
  <2> DEFINE p == tearing[t].peer
  <2>1. tearing[t] \in ActiveTearings /\ tearing[t].step # "no"
    BY <1>7, TearingRecord
    DEF TearStep, ScanChannels, CloseNextChannel, CheckChannels, StackOverflow,
        Clean, CallDeletePeer, DeletePeer, DeletePeerFails, FreeRecord,
        UnhookPeer, TearingAt
  <2>2. p \in Peers /\ p \in Objects /\ native[p] # "absent"
    BY <2>1 DEF ActiveTearings, Objects, PeersExist
  <2>3. InCleaner(t) => \A c \in Channels : Owner[c] = p => native[c] \in {"absent", "deleted"}
    BY CleanedIsEmpty DEF PeerInv, UniqueCleaner
  <2>4. CASE Clean(t)
    <3>1. \A o \in Objects : /\ native'[o] = "absent" <=> native[o] = "absent"
                             /\ native'[o] = "deleted" <=> native[o] = "deleted"
      BY <2>2, <2>4 DEF Clean, TypeOK
    <3> QED
      BY <1>1, <2>4, <3>1 DEF Clean
  <2>5. CASE DeletePeer(t)
    <3>1. native[p] # "deleted" /\ InCleaner(t)
      BY <2>5 DEF DeletePeer, TearingAt, PeerInv, UniqueCleaner, Deleting, InCleaner
    <3>2. \A n \in NativeThreads : Entered[n] # p
      BY <2>1, <2>2, <2>5, DeletedIsNotUsed DEF DeletePeer, PeerInv
    <3> QED
      BY <1>2, <2>2, <2>3, <2>5, <3>1, <3>2 DEF DeletePeer
  <2>6. CASE FreeRecord(t)
    <3>1. native[p] = "deleted" /\ InCleaner(t)
      BY <2>6 DEF FreeRecord, TearingAt, PeerInv, FreedIsDeleted, InCleaner
    <3>2. Handles' = Handles /\ Entered' = Entered
      BY <2>6 DEF FreeRecord, Handles, Entered
    <3>3. \A n \in NativeThreads : Entered[n] # None => Ownership!PeerOf(Entered[n]) # p
      <4>1. SUFFICES ASSUME NEW n \in NativeThreads, callback[n].phase = "entered"
                     PROVE  Ownership!PeerOf(callback[n].obj) # p
        BY DEF Entered
      <4>2. callback[n].obj \in Objects
        BY <4>1, CallbackRecord DEF ActiveCallbacks
      <4>3. native[callback[n].obj] \notin {"absent", "deleted"}
        BY <4>1 DEF PeerInv, DeletedIsQuiet, TearInv
      <4> QED
        BY <2>3, <3>1, <4>2, <4>3 DEF Ownership!PeerOf, Objects
    <3>4. CASE record[p] = "live"
      <4>1. Ownership!Free(p)
        BY <2>2, <2>6, <3>1, <3>2, <3>3, <3>4, HandleValues DEF FreeRecord, Ownership!Free
      <4> QED
        BY <2>2, <4>1 DEF Ownership!Next
    <3>5. CASE record[p] = "freed"
      <4>1. record' = record
        BY <2>2, <2>6, <3>5 DEF FreeRecord, TypeOK
      <4> QED
        BY <3>2, <4>1
    <3> QED
      BY <2>2, <3>4, <3>5 DEF TypeOK
  <2>7. CASE ~(Clean(t) \/ DeletePeer(t) \/ FreeRecord(t))
    BY <1>1, <1>7, <2>7
    DEF TearStep, ScanChannels, CloseNextChannel, CheckChannels, StackOverflow,
        CallDeletePeer, DeletePeerFails, UnhookPeer
  <2> QED
    BY <2>4, <2>5, <2>6, <2>7
<1>8. ASSUME NEW n \in NativeThreads, NEW o \in Objects, Raise(n, o) PROVE Step
  <2>1. Entered[n] = None /\ Handles[o] = "live" /\ record[Ownership!PeerOf(o)] = "live"
    BY <1>8, HandleValues, LiveHasRecord DEF Raise, Entered
  <2>2. Handles' = Handles /\ record' = record
    BY <1>8 DEF Raise, Handles
  <2>3. Entered' = [Entered EXCEPT ![n] = o]
    BY <1>8 DEF Raise, Entered, TypeOK
  <2>4. Ownership!HandleEvent(n, o)
    BY <2>1, <2>2, <2>3 DEF Ownership!HandleEvent, Ownership!Enter
  <2> QED
    BY <2>4 DEF Ownership!Next, Ownership!Objects, Objects
<1>9. ASSUME NEW n \in NativeThreads, NEW c \in Channels, RemoteOpens(n, c) PROVE Step
  <2>1. Owner[c] \in Objects /\ native[Owner[c]] = "open" /\ native[c] = "absent"
    BY <1>9 DEF RemoteOpens, Objects
  <2>2. /\ Entered[n] = None /\ Handles[c] = "none" /\ Handles[Owner[c]] = "live"
        /\ record[Ownership!PeerOf(Owner[c])] = "live"
    BY <1>9, <2>1, HandleValues, LiveHasRecord DEF RemoteOpens, Entered, Objects
  <2>3. Handles' = [Handles EXCEPT ![c] = "live"] /\ record' = record
    BY <1>9 DEF RemoteOpens, Handles, TypeOK
  <2>4. Entered' = [Entered EXCEPT ![n] = Owner[c]]
    BY <1>9 DEF RemoteOpens, Entered, TypeOK
  <2>5. Ownership!OpenThere(n, c)
    BY <2>2, <2>3, <2>4 DEF Ownership!OpenThere, Ownership!Open, Ownership!Enter
  <2> QED
    BY <2>5 DEF Ownership!Next
<1>10. ASSUME NEW n \in NativeThreads, Handle(n) PROVE Step
  <2>1. callback[n].phase = "entered" /\ callback[n].obj \in Objects
    BY <1>10, CallbackRecord DEF Handle, DispatchNewChannel, DispatchEvent,
      MissCallback, ActiveCallbacks
  <2>2. UNCHANGED <<native, record>>
    BY <1>10 DEF Handle, DispatchNewChannel, DispatchEvent, MissCallback
  <2>3. /\ callback'[n].phase # "entered"
        /\ \A m \in NativeThreads \ {n} : UNCHANGED callback[m]
    <3>1. CASE ToClient(n)
      <4>1. callback[n] \in ActiveCallbacks
        BY <2>1, CallbackRecord
      <4> QED
        BY <3>1, <4>1 DEF ToClient, TypeOK, ActiveCallbacks
    <3>2. CASE callback' = [callback EXCEPT ![n] = NoCallback]
      BY <3>2 DEF NoCallback, TypeOK
    <3> QED
      BY <1>10, <3>1, <3>2 DEF Handle, DispatchNewChannel, DispatchEvent, MissCallback
  <2>4. Entered[n] # None /\ Handles' = Handles
    BY <2>1, <2>2 DEF Entered, Handles
  <2>5. Entered' = [Entered EXCEPT ![n] = None]
    BY <2>3 DEF Entered
  <2>6. Ownership!Leave(n)
    BY <2>2, <2>4, <2>5 DEF Ownership!Leave
  <2> QED
    BY <2>6 DEF Ownership!Next
<1>11. ASSUME NEW n \in NativeThreads, LeaveListener(n) PROVE Step
  <2>1. callback[n].phase # "entered" /\ callback'[n].phase # "entered"
    BY <1>11, CallbackRecord
    DEF LeaveListener, NextListener, EndCallback, NoCallback, TypeOK, ActiveCallbacks
  <2>2. /\ UNCHANGED <<native, record>>
        /\ \A m \in NativeThreads \ {n} : UNCHANGED callback[m]
    BY <1>11 DEF LeaveListener, NextListener, EndCallback, TypeOK
  <2> QED
    BY <1>1, <2>1, <2>2
<1>12. CASE UNCHANGED vars
  BY <1>1, <1>12 DEF vars
<1> QED
  BY <1>3, <1>4, <1>5, <1>6, <1>7, <1>8, <1>9, <1>10, <1>11, <1>12 DEF Next, Happen

(* Whatever closers, creations and events race, each step of the life      *)
(* cycle is one that HandleOwnership allows, or leaves handles, records    *)
(* and handlers as they are.                                               *)
THEOREM ImplementsOwnership ==
  ASSUME ~LateOpens, ~LostOpens
  PROVE  Spec => OwnershipSpec
<1>1. Init => PeersExist
  BY DEF Init, PeersExist, Objects
<1>2. TypeOK /\ PeersExist /\ [Next]_vars => PeersExist'
  BY NothingVanishes DEF PeersExist, Objects
<1>3. Init => Ownership!Init
  BY LifecycleAssumption
  DEF Init, Ownership!Init, Ownership!Objects, Handles, Entered, NoCallback, Objects
<1>4. TypeOK /\ PeerInv /\ WayInv /\ MapIsComplete /\ TearInv /\ PeersExist /\ [Next]_vars
        => [Ownership!Next]_(Ownership!ownershipVars)
  BY OwnershipStep
<1> QED
  BY <1>1, <1>2, <1>3, <1>4, MapInvariant, TearInvariant, PeerInvariant, TypeCorrect, PTL
  DEF Spec, OwnershipSpec, Ownership!Spec

-----------------------------------------------------------------------------
(* A client that closes from one thread: closeChannels comes to an end,    *)
(* because what is in the map when a pass begins has left it when the pass *)
(* is over.                                                                *)

OneCloses == \A c \in Clients : \E t \in Threads : c \subseteq {t} \X Objects

Active(t) == closing[t].step # "no" \/ tearing[t].step # "no"

PassInv ==
  /\ \A t \in Threads : Active(t) => \E o \in Objects : <<t, o>> \in closes
  /\ \A c \in closedFlag \cap channels : \E t \in Threads : closing[t].chan = c
  /\ \A t \in Threads : closing[t].step = "unhook" => closing[t].chan \notin channels
  /\ \A t \in Threads : tearing[t].step = "loop" =>
       \A c \in ChannelsOf(tearing[t].peer) : c \in tearing[t].work \/ closing[t].chan = c
  /\ aborted = {}

LEMMA OneIsActive ==
  ASSUME OneCloses, TypeOK, PassInv,
         NEW s \in Threads, NEW t \in Threads, Active(s), Active(t)
  PROVE  s = t
<1>1. PICK u \in Threads : closes \subseteq {u} \X Objects
  BY DEF OneCloses, TypeOK
<1>2. \A v \in Threads : Active(v) => v = u
  BY <1>1 DEF PassInv
<1> QED
  BY <1>2

LEMMA PassInvStep ==
  ASSUME ~LateOpens, OneCloses, TypeOK, UniqueCloser, WayInv, TearInv, PassInv,
         [Next]_vars
  PROVE  PassInv'
<1> USE LifecycleAssumption DEF sharedVars, history
<1>1. ASSUME UNCHANGED <<channels, closedFlag, closing, closes, aborted>>,
             \A t \in Threads : tearing'[t].step # "no" => tearing[t].step # "no",
             \A t \in Threads : tearing'[t].step = "loop" => UNCHANGED tearing[t]
      PROVE  PassInv'
  BY <1>1 DEF PassInv, Active, ChannelsOf
<1>2. ASSUME NEW c \in Channels, Unseen(c), ~TearingDown(Owner[c]),
             channels' = channels \cup {c},
             UNCHANGED <<closedFlag, closing, tearing, closes, aborted>>
      PROVE  PassInv'
  <2>1. c \notin closedFlag /\ \A t \in Threads : tearing[t].peer # Owner[c]
    BY <1>2 DEF Unseen, TearingDown
  <2>2. \A q : q # Owner[c] => ChannelsOf(q)' = ChannelsOf(q)
    BY <1>2 DEF ChannelsOf
  <2>3. \A t \in Threads : closing[t].step = "unhook" => closing[t].chan # c
    BY <2>1 DEF UniqueCloser
  <2>4. (\A t \in Threads : tearing[t].step = "loop" =>
          \A d \in ChannelsOf(tearing[t].peer) : d \in tearing[t].work \/ closing[t].chan = d)'
    BY <1>2, <2>1, <2>2 DEF PassInv
  <2> QED
    BY <1>2, <2>1, <2>3, <2>4 DEF PassInv, Active
<1>3. ASSUME NEW t \in Threads, NEW c \in Channels, WinClose(t, c), closing[t].step = "no",
             UNCHANGED <<channels, closes, aborted>>,
             \E o \in Objects : <<t, o>> \in closes,
             \A s \in Threads \ {t} : UNCHANGED tearing[s],
             tearing'[t].step = "loop" =>
               /\ tearing[t].step = "loop" /\ tearing'[t].peer = tearing[t].peer
               /\ tearing'[t].work = tearing[t].work \ {c}
      PROVE  PassInv'
  <2>1. /\ closedFlag' = closedFlag \cup {c}
        /\ closing'[t].step = "native" /\ closing'[t].chan = c
        /\ \A s \in Threads \ {t} : UNCHANGED closing[s]
    BY <1>3 DEF WinClose, TypeOK
  <2>2. closing[t].chan = None
    BY <1>3, ClosingRecord DEF NoClosing
  <2>3. \A d \in Channels : d # None
    BY DEF Objects
  <2>4. \A q : ChannelsOf(q)' = ChannelsOf(q) /\ ChannelsOf(q) \subseteq Channels
    BY <1>3 DEF ChannelsOf, TypeOK
  <2>5. (\A s \in Threads : tearing[s].step = "loop" =>
          \A d \in ChannelsOf(tearing[s].peer) : d \in tearing[s].work \/ closing[s].chan = d)'
    <3>1. SUFFICES ASSUME NEW s \in Threads, tearing'[s].step = "loop",
                          NEW d \in ChannelsOf(tearing[s].peer), tearing'[s].peer = tearing[s].peer
                   PROVE  d \in tearing'[s].work \/ closing'[s].chan = d
      BY <1>3, <2>4
    <3>2. d \in tearing[s].work \/ closing[s].chan = d
      BY <1>3, <3>1 DEF PassInv
    <3> QED
      BY <1>3, <2>1, <2>2, <2>3, <2>4, <3>1, <3>2
  <2>6. (\A d \in closedFlag \cap channels : \E s \in Threads : closing[s].chan = d)'
    BY <1>3, <2>1, <2>2, <2>3 DEF PassInv, TypeOK
  <2>7. (\A s \in Threads : closing[s].step = "unhook" => closing[s].chan \notin channels)'
    BY <1>3, <2>1 DEF PassInv
  <2>8. (\A s \in Threads : Active(s) => \E o \in Objects : <<s, o>> \in closes)'
    BY <1>3, <2>1 DEF PassInv, Active
  <2> QED
    BY <1>3, <2>5, <2>6, <2>7, <2>8 DEF PassInv
<1>4. ASSUME NEW t \in Threads, Act(t) PROVE PassInv'
  <2>1. ASSUME NEW c \in Channels, CloseChannel(t, c) PROVE PassInv'
    <3>1. closing[t].step = "no" /\ tearing[t].step = "no" /\ UNCHANGED tearing
      BY <2>1 DEF CloseChannel, Client
    <3>2. WinClose(t, c) /\ <<t, c>> \in closes /\ UNCHANGED <<channels, closes, aborted>>
      BY <2>1 DEF CloseChannel
    <3> QED
      BY <1>3, <3>1, <3>2 DEF Objects
  <2>2. ASSUME NEW p \in Peers, ClosePeer(t, p) PROVE PassInv'
    <3>1. \A s \in Threads : tearing'[s] =
            IF s = t THEN [step |-> "scan", peer |-> p, work |-> {}, depth |-> 0]
                     ELSE tearing[s]
      BY <2>2 DEF ClosePeer, TypeOK
    <3>2. <<t, p>> \in closes /\ UNCHANGED <<channels, closedFlag, closing, closes, aborted>>
      BY <2>2 DEF ClosePeer
    <3>3. \A q : ChannelsOf(q)' = ChannelsOf(q)
      BY <3>2 DEF ChannelsOf
    <3>4. (\A s \in Threads : tearing[s].step = "loop" =>
            \A d \in ChannelsOf(tearing[s].peer) : d \in tearing[s].work \/ closing[s].chan = d)'
      BY <3>1, <3>2, <3>3 DEF PassInv
    <3>5. (\A s \in Threads : Active(s) => \E o \in Objects : <<s, o>> \in closes)'
      BY <3>1, <3>2 DEF PassInv, Active, Objects
    <3> QED
      BY <3>2, <3>4, <3>5 DEF PassInv
  <2> QED
    BY <1>1, <1>4, <2>1, <2>2 DEF Act, Listen, Create, CloseChannelAgain
<1>5. ASSUME NEW t \in Threads, OpenStep(t) PROVE PassInv'
  <2>1. CASE PutChannel(t)
    <3>1. /\ opening[t].chan \in Channels /\ Unseen(opening[t].chan)
          /\ ~TearingDown(Owner[opening[t].chan])
      BY <2>1, OpeningRecord DEF PutChannel, Opening, ActiveOpenings, WayInv, TearInv
    <3> QED
      BY <1>2, <2>1, <3>1 DEF PutChannel
  <2> QED
    BY <1>1, <1>5, <2>1 DEF OpenStep, GetPeerPointer, SetChannelPointer
<1>6. ASSUME NEW n \in NativeThreads, Happen(n) \/ Handle(n) \/ LeaveListener(n)
      PROVE  PassInv'
  <2>1. CASE DispatchNewChannel(n)
    <3>1. /\ callback[n].new \in Channels /\ Unseen(callback[n].new)
          /\ ~TearingDown(Owner[callback[n].new])
      BY <2>1, CallbackRecord
      DEF DispatchNewChannel, ActiveCallbacks, Arriving, WayInv, TearInv
    <3> QED
      BY <1>2, <2>1, <3>1 DEF DispatchNewChannel
  <2> QED
    BY <1>1, <1>6, <2>1
    DEF Happen, Handle, LeaveListener, Raise, RemoteOpens, DispatchEvent,
        MissCallback, NextListener,
        EndCallback
<1>7. ASSUME NEW t \in Threads, CloseStep(t) PROVE PassInv'
  <2>1. closing[t] \in ActiveClosings /\ closing[t].step # "no"
    BY <1>7, ClosingRecord
    DEF CloseStep, NativeCloseChannel, CallDeleteChannel, DeleteChannel,
        DropChannel, UnhookChannel, ClosingAt
  <2>2. /\ UNCHANGED <<closedFlag, tearing, closes, aborted>>
        /\ \A s \in Threads \ {t} : UNCHANGED closing[s]
    BY <1>7
    DEF CloseStep, NativeCloseChannel, CallDeleteChannel, DeleteChannel,
        DropChannel, UnhookChannel, TypeOK
  <2>3. /\ channels' \subseteq channels
        /\ \/ closing'[t].chan = closing[t].chan
           \/ closing[t].chan \notin channels'
        /\ closing'[t].step = "unhook" => closing'[t].chan \notin channels'
    BY <1>7, <2>1
    DEF CloseStep, NativeCloseChannel, CallDeleteChannel, DeleteChannel, DropChannel,
        UnhookChannel, ClosingAt, NoClosing, TypeOK, ActiveClosings, PassInv
  <2>4. \A q : ChannelsOf(q)' \subseteq ChannelsOf(q) \cap channels'
    BY <2>3 DEF ChannelsOf
  <2>5. (\A s \in Threads : tearing[s].step = "loop" =>
          \A d \in ChannelsOf(tearing[s].peer) : d \in tearing[s].work \/ closing[s].chan = d)'
    BY <2>2, <2>3, <2>4 DEF PassInv
  <2>6. (\A s \in Threads : closing[s].step = "unhook" => closing[s].chan \notin channels)'
    BY <2>2, <2>3 DEF PassInv
  <2>7. (\A s \in Threads : Active(s) => \E o \in Objects : <<s, o>> \in closes)'
    BY <2>1, <2>2 DEF PassInv, Active
  <2>8. (\A d \in closedFlag \cap channels : \E s \in Threads : closing[s].chan = d)'
    BY <2>2, <2>3 DEF PassInv
  <2> QED
    BY <2>2, <2>5, <2>6, <2>7, <2>8 DEF PassInv
<1>8. ASSUME NEW t \in Threads, TearStep(t) PROVE PassInv'
  <2>1. tearing[t] \in ActiveTearings /\ tearing[t].step # "no" /\ closing[t].step = "no"
    BY <1>8, TearingRecord
    DEF TearStep, ScanChannels, CloseNextChannel, CheckChannels, StackOverflow,
        Clean, CallDeletePeer, DeletePeer, DeletePeerFails, FreeRecord,
        UnhookPeer, TearingAt
  <2>2. /\ UNCHANGED <<channels, closes>>
        /\ \A s \in Threads \ {t} : UNCHANGED tearing[s]
    BY <1>8
    DEF TearStep, ScanChannels, CloseNextChannel, CheckChannels, StackOverflow,
        Clean, CallDeletePeer, DeletePeer, DeletePeerFails, FreeRecord, UnhookPeer, TypeOK
  <2>3. Active(t) /\ \E o \in Objects : <<t, o>> \in closes
    BY <2>1 DEF Active, PassInv
  <2>4. closing[t].chan = None /\ \A c \in Channels : c # None
    BY <2>1, ClosingRecord DEF NoClosing, Objects
  <2>5. CASE ScanChannels(t)
    <3>1. /\ tearing'[t].peer = tearing[t].peer
          /\ tearing'[t].work = ChannelsOf(tearing[t].peer)
          /\ UNCHANGED <<channels, closedFlag, closing, closes, aborted>>
      BY <2>1, <2>5 DEF ScanChannels, TypeOK, ActiveTearings
    <3>2. \A q : ChannelsOf(q)' = ChannelsOf(q)
      BY <2>2 DEF ChannelsOf
    <3>3. (\A s \in Threads : tearing[s].step = "loop" =>
            \A d \in ChannelsOf(tearing[s].peer) : d \in tearing[s].work \/ closing[s].chan = d)'
      BY <2>2, <3>1, <3>2 DEF PassInv
    <3> QED
      BY <2>2, <2>3, <3>1, <3>3 DEF PassInv, Active
  <2>6. ASSUME NEW c \in Channels, CloseNextChannel(t, c) PROVE PassInv'
    <3>1. /\ tearing[t].step = "loop" /\ tearing'[t].peer = tearing[t].peer
          /\ tearing'[t].work = tearing[t].work \ {c} /\ tearing'[t].step = "loop"
          /\ UNCHANGED aborted
      BY <2>1, <2>6 DEF CloseNextChannel, TearingAt, TypeOK, ActiveTearings
    <3>2. CASE WinClose(t, c)
      BY <1>3, <2>1, <2>2, <2>3, <3>1, <3>2
    <3>3. CASE c \in closedFlag /\ UNCHANGED <<closedFlag, closing>>
      <4>1. c \notin channels
        <5>1. \A s \in Threads : closing[s].chan = c => Active(s)
          BY <2>4, ClosingRecord DEF Active, NoClosing
        <5>2. \A s \in Threads : closing[s].chan = c => s = t
          BY <2>3, <5>1, OneIsActive
        <5> QED
          BY <2>4, <3>3, <5>2 DEF PassInv
      <4>2. \A q : ChannelsOf(q)' = ChannelsOf(q) /\ c \notin ChannelsOf(q)
        BY <2>2, <4>1 DEF ChannelsOf
      <4>3. (\A s \in Threads : tearing[s].step = "loop" =>
              \A d \in ChannelsOf(tearing[s].peer) : d \in tearing[s].work \/ closing[s].chan = d)'
        BY <2>2, <3>1, <3>3, <4>2 DEF PassInv
      <4> QED
        BY <2>2, <2>3, <3>1, <3>3, <4>3 DEF PassInv, Active
    <3> QED
      BY <2>6, <3>2, <3>3 DEF CloseNextChannel
  <2>7. ~StackOverflow(t)
    <3>1. SUFFICES ASSUME StackOverflow(t) PROVE FALSE
      OBVIOUS
    <3>2. PICK c \in ChannelsOf(tearing[t].peer) : TRUE
      BY <3>1 DEF StackOverflow
    <3>3. c \in Channels /\ c # None
      BY <2>4 DEF ChannelsOf, TypeOK
    <3> QED
      BY <2>4, <3>1, <3>3 DEF StackOverflow, TearingAt, PassInv
  <2>8. CASE ~ScanChannels(t) /\ ~\E c \in Channels : CloseNextChannel(t, c)
    <3>1. UNCHANGED <<channels, closedFlag, closing, closes, aborted>>
      BY <1>8, <2>7, <2>8
      DEF TearStep, CheckChannels, Clean, CallDeletePeer, DeletePeer, DeletePeerFails,
          FreeRecord, UnhookPeer
    <3>2. tearing'[t].step # "loop"
      BY <1>8, <2>1, <2>7, <2>8
      DEF TearStep, CheckChannels, Clean, CallDeletePeer, DeletePeer, DeletePeerFails,
          FreeRecord, UnhookPeer, TypeOK, ActiveTearings, NoTearing
    <3> QED
      BY <1>1, <2>1, <2>2, <3>1, <3>2
  <2> QED
    BY <2>5, <2>6, <2>8
<1>9. CASE UNCHANGED vars
  BY <1>1, <1>9 DEF vars
<1> QED
  BY <1>4, <1>5, <1>6, <1>7, <1>8, <1>9 DEF Next

LEMMA PassInvariant ==
  ASSUME ~LateOpens, OneCloses
  PROVE  Spec => []PassInv
<1>1. Init => PassInv
  BY LifecycleAssumption
  DEF Init, PassInv, Active, NoClosing, NoTearing, ChannelsOf, Objects, Threads
<1>2. TypeOK /\ PeerInv /\ WayInv /\ TearInv /\ PassInv /\ [Next]_vars => PassInv'
  BY PassInvStep DEF PeerInv
<1> QED
  BY <1>1, <1>2, MapInvariant, TearInvariant, PeerInvariant, TypeCorrect, PTL DEF Spec

(* With one closing thread closeChannels needs one pass: when every value  *)
(* it copied is closed, the map holds no channel of the peer and it does   *)
(* not call itself.                                                        *)
THEOREM OnePassSuffices ==
  ASSUME ~LateOpens, OneCloses
  PROVE  Spec => [](\A t \in Threads :
                      TearingAt(t, "loop") /\ tearing[t].work = {}
                        => ChannelsOf(tearing[t].peer) = {})
<1>1. ASSUME TypeOK, PassInv, NEW t \in Threads, TearingAt(t, "loop"), tearing[t].work = {}
      PROVE  ChannelsOf(tearing[t].peer) = {}
  <2>1. closing[t].chan = None
    BY <1>1, ClosingRecord DEF TearingAt, NoClosing
  <2>2. \A c \in ChannelsOf(tearing[t].peer) : c \in Objects
    BY <1>1 DEF ChannelsOf, TypeOK, Objects
  <2> QED
    BY <1>1, <2>1, <2>2, LifecycleAssumption DEF PassInv, TearingAt
<1>2. TypeOK /\ PassInv =>
        \A t \in Threads :
          TearingAt(t, "loop") /\ tearing[t].work = {} => ChannelsOf(tearing[t].peer) = {}
  BY <1>1
<1> QED
  BY <1>2, PassInvariant, TypeCorrect, PTL

(* The thread in the Cleaner action of a peer is the one whose close of it *)
(* has not returned.                                                       *)
CleanerIsBusy == \A t \in Threads : InCleaner(t) => tearing[t].peer \notin returned

LEMMA CleanerIsBusyStep ==
  ASSUME OneCloses, TypeOK, PassInv, CleanerGoesOn, CleanerIsBusy, [Next]_vars
  PROVE  CleanerIsBusy'
<1> USE LifecycleAssumption DEF sharedVars, history
<1>1. ASSUME returned' \cap Peers \subseteq returned,
             \A t \in Threads : InCleaner(t)' => InCleaner(t) /\ UNCHANGED tearing[t].peer
      PROVE  CleanerIsBusy'
  BY <1>1, TearingRecord DEF CleanerIsBusy, InCleaner, ActiveTearings
<1>2. ASSUME NEW t \in Threads, Act(t) PROVE CleanerIsBusy'
  <2>1. returned' \cap Peers \subseteq returned
    BY <1>2 DEF Act, Listen, Create, CloseChannel, CloseChannelAgain, ClosePeer
  <2>2. CASE \E p \in Peers : ClosePeer(t, p)
    BY <1>1, <2>1, <2>2 DEF ClosePeer, InCleaner, TypeOK
  <2>3. CASE UNCHANGED tearing
    BY <1>1, <2>1, <2>3 DEF InCleaner
  <2> QED
    BY <1>2, <2>2, <2>3 DEF Act, Listen, Create, CloseChannel, CloseChannelAgain
<1>3. ASSUME NEW t \in Threads, OpenStep(t) PROVE CleanerIsBusy'
  BY <1>1, <1>3 DEF OpenStep, GetPeerPointer, SetChannelPointer, PutChannel, InCleaner
<1>4. ASSUME NEW t \in Threads, CloseStep(t) PROVE CleanerIsBusy'
  <2>1. closing[t].chan \in Channels
    BY <1>4, ClosingRecord
    DEF CloseStep, NativeCloseChannel, CallDeleteChannel, DeleteChannel,
        DropChannel, UnhookChannel, ClosingAt, ActiveClosings
  <2>2. UNCHANGED tearing /\ returned' \cap Peers \subseteq returned
    BY <1>4, <2>1
    DEF CloseStep, NativeCloseChannel, CallDeleteChannel, DeleteChannel,
        DropChannel, UnhookChannel
  <2> QED
    BY <1>1, <2>2 DEF InCleaner
<1>5. ASSUME NEW t \in Threads, TearStep(t) PROVE CleanerIsBusy'
  <2>1. tearing[t] \in ActiveTearings /\ tearing[t].step # "no"
    BY <1>5, TearingRecord
    DEF TearStep, ScanChannels, CloseNextChannel, CheckChannels, StackOverflow,
        Clean, CallDeletePeer, DeletePeer, DeletePeerFails, FreeRecord,
        UnhookPeer, TearingAt
  <2>2. \A s \in Threads \ {t} : UNCHANGED tearing[s]
    BY <1>5
    DEF TearStep, ScanChannels, CloseNextChannel, CheckChannels, StackOverflow,
        Clean, CallDeletePeer, DeletePeer, DeletePeerFails, FreeRecord,
        UnhookPeer, TypeOK
  <2>3. CASE Clean(t)
    <3>1. tearing'[t].peer = tearing[t].peer /\ UNCHANGED returned
      BY <2>1, <2>3 DEF Clean, TypeOK, ActiveTearings
    <3>2. InCleaner(t)' => tearing[t].peer \in Peers \ cleaned
      BY <2>1, <2>3 DEF Clean, InCleaner, TypeOK, ActiveTearings
    <3> QED
      BY <2>2, <3>1, <3>2 DEF CleanerIsBusy, CleanerGoesOn, InCleaner
  <2>4. CASE UnhookPeer(t)
    <3>1. \A s \in Threads \ {t} : ~InCleaner(s)
      BY <2>1, OneIsActive DEF Active, InCleaner
    <3>2. tearing'[t].step = "no"
      BY <2>4 DEF UnhookPeer, NoTearing, TypeOK
    <3> QED
      BY <2>2, <3>1, <3>2 DEF CleanerIsBusy, InCleaner
  <2>5. CASE ~Clean(t) /\ ~UnhookPeer(t)
    <3>1. UNCHANGED returned
      BY <1>5, <2>5
      DEF TearStep, ScanChannels, CloseNextChannel, CheckChannels, StackOverflow,
          CallDeletePeer, DeletePeer, DeletePeerFails, FreeRecord
    <3>2. InCleaner(t)' => InCleaner(t) /\ tearing'[t].peer = tearing[t].peer
      <4>1. CASE \E c \in Channels : CloseNextChannel(t, c)
        BY <2>1, <4>1 DEF CloseNextChannel, TearingAt, InCleaner, TypeOK, ActiveTearings
      <4>2. CASE ScanChannels(t) \/ CheckChannels(t) \/ StackOverflow(t)
        BY <2>1, <4>2
        DEF ScanChannels, CheckChannels, StackOverflow, TearingAt, InCleaner, NoTearing,
            TypeOK, ActiveTearings
      <4>3. CASE CallDeletePeer(t) \/ DeletePeer(t) \/ DeletePeerFails(t) \/ FreeRecord(t)
        BY <2>1, <4>3
        DEF CallDeletePeer, DeletePeer, DeletePeerFails, FreeRecord, TearingAt, InCleaner,
            TypeOK, ActiveTearings
      <4> QED
        BY <1>5, <2>5, <4>1, <4>2, <4>3 DEF TearStep
    <3> QED
      BY <1>1, <2>2, <3>1, <3>2 DEF InCleaner
  <2> QED
    BY <2>3, <2>4, <2>5
<1>6. ASSUME NEW n \in NativeThreads, Happen(n) \/ Handle(n) \/ LeaveListener(n)
      PROVE  CleanerIsBusy'
  BY <1>1, <1>6
  DEF Happen, Handle, LeaveListener, Raise, RemoteOpens, DispatchNewChannel,
      DispatchEvent, MissCallback, NextListener, EndCallback, InCleaner
<1>7. CASE UNCHANGED vars
  BY <1>1, <1>7 DEF vars, InCleaner
<1> QED
  BY <1>2, <1>3, <1>4, <1>5, <1>6, <1>7 DEF Next

(* With one closing thread the recursion of closeChannels never exhausts   *)
(* the stack, however small, and a close that ends has run the Cleaner     *)
(* action to its end: the peer is deleted and its record freed, unless the *)
(* deletion failed.                                                        *)
THEOREM CloseReleases ==
  ASSUME ~LateOpens, OneCloses
  PROVE  Spec => []CloseAlwaysReleases
<1>1. Init => CleanerIsBusy
  BY DEF Init, CleanerIsBusy
<1>2. TypeOK /\ PassInv /\ CleanerGoesOn /\ CleanerIsBusy /\ [Next]_vars => CleanerIsBusy'
  BY CleanerIsBusyStep
<1>3. TypeOK /\ PeerInv /\ PassInv /\ DeletedIsFreed /\ CleanerGoesOn /\ CleanerIsBusy
        => CloseAlwaysReleases
  <2> SUFFICES ASSUME TypeOK, PeerInv, PassInv, DeletedIsFreed, CleanerGoesOn,
                      CleanerIsBusy, NEW p \in returned \cap Peers
               PROVE  p \in cleaned /\ (DeleteMayFail \/ Released(p))
    BY DEF CloseAlwaysReleases, PassInv
  <2>1. p \in cleaned
    BY DEF CleanerGoesOn
  <2>2. ~Releasing(p)
    BY DEF CleanerIsBusy, InCleaner, Releasing
  <2> QED
    BY <2>1, <2>2, CleanedIsReleased
<1> QED
  BY <1>1, <1>2, <1>3, PassInvariant, ReleaseInvariant, PeerInvariant, TypeCorrect, PTL
  DEF Spec

-----------------------------------------------------------------------------
(* A client that closes from one thread, and the channels of a peer too    *)
(* where it closes the peer, and deletions that do not fail: what a close  *)
(* call has returned for is deleted, and only the closing thread may still *)
(* be in a callback of it.                                                 *)

ClosesChannels ==
  \A cl \in Clients, t \in Threads, c \in Channels :
    <<t, Owner[c]>> \in cl => <<t, c>> \in cl

(* What a thread closes, its client may close. *)
ClientInv ==
  /\ \A t \in Threads : closing[t].step # "no" => <<t, closing[t].chan>> \in closes
  /\ \A t \in Threads : tearing[t].step # "no" =>
       /\ <<t, tearing[t].peer>> \in closes
       /\ \A c \in tearing[t].work : Owner[c] = tearing[t].peer

QuietInv ==
  /\ \A c \in closedFlag : c \in shut \/ \E t \in Threads : closing[t].chan = c
  /\ \A o \in shut : native[o] = "deleted"
  /\ returned \subseteq shut
  /\ \A n \in NativeThreads, o \in Objects :
       callback[n].obj = o /\ native[o] = "deleted" => <<n, o>> \in closes
  /\ \A t \in Threads :
       tearing[t].step \in {"free", "unhook"} => native[tearing[t].peer] = "deleted"

LEMMA ClientInvStep ==
  ASSUME ClosesChannels, TypeOK, ClientInv, [Next]_vars
  PROVE  ClientInv'
<1> USE LifecycleAssumption DEF ClientInv, sharedVars, history
<1>1. ASSUME UNCHANGED closes,
             \A t \in Threads :
               \/ UNCHANGED closing[t]
               \/ closing'[t].step = "no"
               \/ <<t, closing'[t].chan>> \in closes,
             \A t \in Threads : tearing'[t].step # "no" =>
               /\ tearing[t].step # "no" /\ tearing'[t].peer = tearing[t].peer
               /\ tearing'[t].work \subseteq tearing[t].work \cup ChannelsOf(tearing[t].peer)
      PROVE  ClientInv'
  BY <1>1 DEF ChannelsOf
<1>2. ASSUME UNCHANGED <<closes, closing, tearing>> PROVE ClientInv'
  BY <1>2
<1>3. ASSUME NEW t \in Threads, Act(t) PROVE ClientInv'
  <2>1. CASE \E c \in Channels : CloseChannel(t, c)
    BY <1>1, <2>1 DEF CloseChannel, WinClose, TypeOK
  <2>2. CASE \E p \in Peers : ClosePeer(t, p)
    BY <2>2 DEF ClosePeer, TypeOK
  <2> QED
    BY <1>2, <1>3, <2>1, <2>2 DEF Act, Listen, Create, CloseChannelAgain
<1>4. ASSUME NEW t \in Threads, CloseStep(t) PROVE ClientInv'
  <2>1. closing[t] \in ActiveClosings /\ closing[t].step # "no"
    BY <1>4, ClosingRecord
    DEF CloseStep, NativeCloseChannel, CallDeleteChannel, DeleteChannel,
        DropChannel, UnhookChannel, ClosingAt
  <2>2. UNCHANGED <<closes, tearing>> /\ \A s \in Threads \ {t} : UNCHANGED closing[s]
    BY <1>4
    DEF CloseStep, NativeCloseChannel, CallDeleteChannel, DeleteChannel,
        DropChannel, UnhookChannel, TypeOK
  <2>3. closing'[t].chan = closing[t].chan \/ closing'[t].step = "no"
    BY <1>4, <2>1
    DEF CloseStep, NativeCloseChannel, CallDeleteChannel, DeleteChannel,
        DropChannel, UnhookChannel, NoClosing, TypeOK, ActiveClosings
  <2> QED
    BY <2>1, <2>2, <2>3
<1>5. ASSUME NEW t \in Threads, TearStep(t) PROVE ClientInv'
  <2>1. tearing[t] \in ActiveTearings /\ tearing[t].step # "no"
    BY <1>5, TearingRecord
    DEF TearStep, ScanChannels, CloseNextChannel, CheckChannels, StackOverflow,
        Clean, CallDeletePeer, DeletePeer, DeletePeerFails, FreeRecord,
        UnhookPeer, TearingAt
  <2>2. UNCHANGED closes /\ \A s \in Threads \ {t} : UNCHANGED tearing[s]
    BY <1>5
    DEF TearStep, ScanChannels, CloseNextChannel, CheckChannels, StackOverflow,
        Clean, CallDeletePeer, DeletePeer, DeletePeerFails, FreeRecord,
        UnhookPeer, TypeOK
  <2>3. ASSUME NEW c \in Channels, CloseNextChannel(t, c) PROVE ClientInv'
    <3>1. c \in tearing[t].work /\ <<t, c>> \in closes
      BY <2>1, <2>3 DEF CloseNextChannel, ClosesChannels, TypeOK
    <3>2. closing' = closing \/ closing' = [closing EXCEPT ![t] = [step |-> "native", chan |-> c]]
      BY <2>3 DEF CloseNextChannel, WinClose
    <3>3. \A s \in Threads : closing'[s] = closing[s] \/ (s = t /\ closing'[s].chan = c)
      BY <3>2 DEF TypeOK
    <3>4. tearing'[t].peer = tearing[t].peer /\ tearing'[t].work \subseteq tearing[t].work
      BY <2>1, <2>3 DEF CloseNextChannel, TypeOK, ActiveTearings
    <3> QED
      BY <1>1, <2>1, <2>2, <3>1, <3>3, <3>4
  <2>4. CASE ~\E c \in Channels : CloseNextChannel(t, c)
    <3>1. UNCHANGED closing
      BY <1>5, <2>4
      DEF TearStep, ScanChannels, CheckChannels, StackOverflow, Clean, CallDeletePeer,
          DeletePeer, DeletePeerFails, FreeRecord, UnhookPeer
    <3>2. tearing'[t].step # "no" =>
            /\ tearing'[t].peer = tearing[t].peer
            /\ tearing'[t].work \subseteq tearing[t].work \cup ChannelsOf(tearing[t].peer)
      BY <1>5, <2>1, <2>4
      DEF TearStep, ScanChannels, CheckChannels, StackOverflow, Clean, CallDeletePeer,
          DeletePeer, DeletePeerFails, FreeRecord, UnhookPeer, NoTearing, TypeOK,
          ActiveTearings
    <3> QED
      BY <1>1, <2>1, <2>2, <3>1, <3>2
  <2> QED
    BY <2>3, <2>4
<1>6. ASSUME NEW t \in Threads, OpenStep(t) PROVE ClientInv'
  BY <1>2, <1>6 DEF OpenStep, GetPeerPointer, SetChannelPointer, PutChannel
<1>7. ASSUME NEW n \in NativeThreads, Happen(n) \/ Handle(n) \/ LeaveListener(n)
      PROVE  ClientInv'
  BY <1>2, <1>7
  DEF Happen, Handle, LeaveListener, Raise, RemoteOpens, DispatchNewChannel,
      DispatchEvent, MissCallback, NextListener, EndCallback
<1>8. CASE UNCHANGED vars
  BY <1>2, <1>8 DEF vars
<1> QED
  BY <1>3, <1>4, <1>5, <1>6, <1>7, <1>8 DEF Next

LEMMA CloserIsAlone ==
  ASSUME OneCloses, TypeOK, PassInv, NEW t \in Threads, NEW o \in Objects,
         <<t, o>> \in closes
  PROVE  \A s \in Threads : Active(s) => s = t
<1>1. PICK u \in Threads : closes \subseteq {u} \X Objects
  BY DEF OneCloses, TypeOK
<1> QED
  BY <1>1 DEF PassInv

LEMMA QuietInvStep ==
  ASSUME ~DeleteMayFail, OneCloses, TypeOK, UniqueCleaner, MapIsComplete, CleanerGoesOn,
         PassInv, ClientInv, QuietInv, [Next]_vars
  PROVE  QuietInv'
<1> USE LifecycleAssumption DEF sharedVars, history
<1>1. ASSUME UNCHANGED <<shut, closedFlag, returned, closes, closing>>,
             \A o \in Objects : native'[o] = "deleted" <=> native[o] = "deleted",
             \A t \in Threads : tearing'[t].step \in {"free", "unhook"} =>
               tearing[t].step \in {"free", "unhook"} /\ UNCHANGED tearing[t].peer,
             \A n \in NativeThreads, o \in Objects : callback'[n].obj = o =>
               callback[n].obj = o \/ native[o] # "deleted"
      PROVE  QuietInv'
  <2>1. \A t \in Threads : tearing[t].step \in {"free", "unhook"} => tearing[t].peer \in Objects
    BY TearingRecord DEF ActiveTearings, Objects
  <2>2. (\A t \in Threads :
          tearing[t].step \in {"free", "unhook"} => native[tearing[t].peer] = "deleted")'
    BY <1>1, <2>1 DEF QuietInv
  <2>3. (\A n \in NativeThreads, o \in Objects :
          callback[n].obj = o /\ native[o] = "deleted" => <<n, o>> \in closes)'
    BY <1>1 DEF QuietInv
  <2>4. (\A o \in shut : native[o] = "deleted")'
    BY <1>1 DEF QuietInv, TypeOK
  <2> QED
    BY <1>1, <2>2, <2>3, <2>4 DEF QuietInv
<1>2. ASSUME NEW t \in Threads, NEW c \in Channels, WinClose(t, c), closing[t].step = "no",
             UNCHANGED <<native, shut, returned, closes, callback>>,
             \A s \in Threads : UNCHANGED <<tearing[s].step, tearing[s].peer>>
      PROVE  QuietInv'
  <2>1. /\ closedFlag' = closedFlag \cup {c} /\ closing'[t].chan = c
        /\ \A s \in Threads \ {t} : UNCHANGED closing[s]
    BY <1>2 DEF WinClose, TypeOK
  <2>2. closing[t].chan = None /\ \A d \in Channels : d # None
    BY <1>2, ClosingRecord DEF NoClosing, Objects
  <2>3. (\A d \in closedFlag : d \in shut \/ \E s \in Threads : closing[s].chan = d)'
    BY <1>2, <2>1, <2>2 DEF QuietInv, TypeOK
  <2> QED
    BY <1>2, <2>3 DEF QuietInv
<1>3. ASSUME NEW t \in Threads, Act(t) PROVE QuietInv'
  <2>1. ASSUME NEW c \in Channels, CloseChannel(t, c) PROVE QuietInv'
    BY <1>2, <2>1 DEF CloseChannel, Client
  <2>2. ASSUME NEW c \in Channels, CloseChannelAgain(t, c) PROVE QuietInv'
    <3>1. \A s \in Threads : closing[s].chan = c => Active(s)
      BY ClosingRecord DEF NoClosing, Active, Objects
    <3>2. \A s \in Threads : closing[s].chan = c => s = t
      BY <2>2, <3>1, CloserIsAlone DEF CloseChannelAgain, Objects
    <3>3. closing[t].chan # c
      BY <2>2, ClosingRecord DEF CloseChannelAgain, Client, NoClosing, Objects
    <3>4. c \in shut
      BY <2>2, <3>2, <3>3 DEF CloseChannelAgain, QuietInv
    <3> QED
      BY <2>2, <3>4 DEF CloseChannelAgain, QuietInv
  <2>3. CASE \E c \in Channels : Create(t, c)
    BY <1>1, <2>3 DEF Create, TypeOK, Objects
  <2>4. ASSUME NEW p \in Peers, ClosePeer(t, p) PROVE QuietInv'
    <3>1. \A s \in Threads : tearing'[s] =
            IF s = t THEN [step |-> "scan", peer |-> p, work |-> {}, depth |-> 0]
                     ELSE tearing[s]
      BY <2>4 DEF ClosePeer, TypeOK
    <3>2. tearing[t].step = "no"
      BY <2>4 DEF ClosePeer, Client
    <3> QED
      BY <1>1, <2>4, <3>1, <3>2 DEF ClosePeer
  <2>5. CASE \E o \in Objects : Listen(t, o)
    BY <1>1, <2>5 DEF Listen
  <2> QED
    BY <1>3, <2>1, <2>2, <2>3, <2>4, <2>5 DEF Act
<1>4. ASSUME NEW t \in Threads, OpenStep(t) PROVE QuietInv'
  BY <1>1, <1>4 DEF OpenStep, GetPeerPointer, SetChannelPointer, PutChannel
<1>5. ASSUME NEW n \in NativeThreads, Happen(n) \/ Handle(n) \/ LeaveListener(n)
      PROVE  QuietInv'
  <2>1. /\ UNCHANGED <<shut, closedFlag, returned, closes, closing, tearing>>
        /\ \A o \in Objects : native'[o] = "deleted" <=> native[o] = "deleted"
    BY <1>5
    DEF Happen, Handle, LeaveListener, Raise, RemoteOpens, DispatchNewChannel,
        DispatchEvent, MissCallback, NextListener, EndCallback, TypeOK, Objects
  <2>2. \A m \in NativeThreads \ {n} : UNCHANGED callback[m]
    BY <1>5
    DEF Happen, Handle, LeaveListener, Raise, RemoteOpens, DispatchNewChannel,
        DispatchEvent, MissCallback, ToClient, NextListener, EndCallback, TypeOK
  <2>3. \A o \in Objects : callback'[n].obj = o =>
          callback[n].obj = o \/ native[o] # "deleted"
    <3>1. CASE Happen(n)
      BY <3>1 DEF Happen, Raise, RemoteOpens, TypeOK
    <3>2. CASE Handle(n) \/ LeaveListener(n)
      <4>1. callback'[n].obj = callback[n].obj \/ callback'[n] = NoCallback
        <5>1. callback[n] \in ActiveCallbacks
          BY <3>2, CallbackRecord
          DEF Handle, LeaveListener, DispatchNewChannel, DispatchEvent,
              MissCallback, NextListener,
              EndCallback
        <5> QED
          BY <3>2, <5>1
          DEF Handle, LeaveListener, DispatchNewChannel, DispatchEvent,
              MissCallback, ToClient,
              NextListener, EndCallback, TypeOK, ActiveCallbacks
      <4> QED
        BY <4>1 DEF NoCallback, Objects
    <3> QED
      BY <1>5, <3>1, <3>2
  <2> QED
    BY <1>1, <2>1, <2>2, <2>3
<1>6. ASSUME NEW t \in Threads, CloseStep(t) PROVE QuietInv'
  <2> DEFINE c == closing[t].chan
  <2>1. closing[t] \in ActiveClosings /\ closing[t].step # "no"
    BY <1>6, ClosingRecord
    DEF CloseStep, NativeCloseChannel, CallDeleteChannel, DeleteChannel,
        DropChannel, UnhookChannel, ClosingAt
  <2>2. /\ UNCHANGED <<closes, callback, tearing, closedFlag>>
        /\ \A s \in Threads \ {t} : UNCHANGED closing[s]
    BY <1>6
    DEF CloseStep, NativeCloseChannel, CallDeleteChannel, DeleteChannel,
        DropChannel, UnhookChannel, TypeOK
  <2>3. /\ \A o \in Objects : native[o] = "deleted" => native'[o] = "deleted"
        /\ \/ \A o \in Objects : native'[o] = "deleted" => native[o] = "deleted"
           \/ /\ \A n \in NativeThreads \ {t} : callback[n].obj # c
              /\ \A o \in Objects : native'[o] = "deleted" => native[o] = "deleted" \/ o = c
    <3>1. CASE NativeCloseChannel(t)
      <4>1. c \in Objects
        BY <2>1 DEF ActiveClosings, Objects
      <4>2. \A o \in Objects : native'[o] = "deleted" <=> native[o] = "deleted"
        BY <3>1, <4>1 DEF NativeCloseChannel, TypeOK
      <4> QED
        BY <4>2
    <3>2. CASE DeleteChannel(t)
      <4>1. c \in Objects
        BY <2>1 DEF ActiveClosings, Objects
      <4>2. /\ \A o \in Objects : native[o] = "deleted" => native'[o] = "deleted"
            /\ \A o \in Objects : native'[o] = "deleted" => native[o] = "deleted" \/ o = c
        BY <3>2, <4>1 DEF DeleteChannel, TypeOK
      <4>3. \A n \in NativeThreads \ {t} : callback[n].obj # c
        BY <3>2 DEF DeleteChannel, DeletionAllowed, Running
      <4> QED
        BY <4>2, <4>3
    <3>3. CASE native' = native
      BY <3>3
    <3> QED
      BY <1>6, <3>1, <3>2, <3>3
      DEF CloseStep, CallDeleteChannel, DropChannel, UnhookChannel
  <2>4. \/ UNCHANGED <<shut, returned>> /\ closing'[t].chan = c
        \/ /\ shut' = shut \cup {c} /\ returned' = returned \cup {c}
           /\ native[c] = "deleted"
    BY <1>6, <2>1
    DEF CloseStep, NativeCloseChannel, CallDeleteChannel, DeleteChannel, DropChannel,
        UnhookChannel, ClosingAt, TypeOK, ActiveClosings, MapIsComplete
  <2>5. <<t, c>> \in closes
    BY <2>1 DEF ClientInv
  <2>6. (\A n \in NativeThreads, o \in Objects :
          callback[n].obj = o /\ native[o] = "deleted" => <<n, o>> \in closes)'
    BY <2>2, <2>3, <2>5 DEF QuietInv
  <2>7. (\A o \in shut : native[o] = "deleted")' /\ returned' \subseteq shut'
    BY <2>1, <2>3, <2>4 DEF QuietInv, TypeOK, ActiveClosings, Objects
  <2>8. (\A d \in closedFlag : d \in shut \/ \E s \in Threads : closing[s].chan = d)'
    BY <2>2, <2>4 DEF QuietInv
  <2>9. \A s \in Threads : tearing[s].step \in {"free", "unhook"} => tearing[s].peer \in Objects
    BY TearingRecord DEF ActiveTearings, Objects
  <2>10. (\A s \in Threads :
           tearing[s].step \in {"free", "unhook"} => native[tearing[s].peer] = "deleted")'
    BY <2>2, <2>3, <2>9 DEF QuietInv
  <2> QED
    BY <2>2, <2>6, <2>7, <2>8, <2>10 DEF QuietInv
<1>7. ASSUME NEW t \in Threads, TearStep(t) PROVE QuietInv'
  <2> DEFINE p == tearing[t].peer
  <2>1. tearing[t] \in ActiveTearings /\ tearing[t].step # "no" /\ closing[t].step = "no"
    BY <1>7, TearingRecord
    DEF TearStep, ScanChannels, CloseNextChannel, CheckChannels, StackOverflow,
        Clean, CallDeletePeer, DeletePeer, DeletePeerFails, FreeRecord,
        UnhookPeer, TearingAt
  <2>2. /\ UNCHANGED <<closes, callback>>
        /\ \A s \in Threads \ {t} : UNCHANGED tearing[s]
    BY <1>7
    DEF TearStep, ScanChannels, CloseNextChannel, CheckChannels, StackOverflow,
        Clean, CallDeletePeer, DeletePeer, DeletePeerFails, FreeRecord, UnhookPeer, TypeOK
  <2>3. /\ <<t, p>> \in closes
        /\ \A s \in Threads : Active(s) => s = t
        /\ p \in Peers /\ p \in Objects
    BY <2>1, OneIsActive DEF Active, ClientInv, ActiveTearings, Objects
  <2>4. CASE ScanChannels(t) \/ CheckChannels(t) \/ StackOverflow(t) \/ CallDeletePeer(t)
             \/ FreeRecord(t)
    <3>1. UNCHANGED <<shut, closedFlag, returned, closes, closing, native, callback>>
      BY <2>4
      DEF ScanChannels, CheckChannels, StackOverflow, CallDeletePeer, FreeRecord
    <3>2. tearing'[t].step \in {"free", "unhook"} =>
            tearing[t].step \in {"free", "unhook"} /\ tearing'[t].peer = tearing[t].peer
      BY <2>1, <2>4
      DEF ScanChannels, CheckChannels, StackOverflow, CallDeletePeer, FreeRecord,
          TearingAt, NoTearing, TypeOK, ActiveTearings
    <3> QED
      BY <1>1, <2>2, <3>1, <3>2
  <2>5. ASSUME NEW c \in Channels, CloseNextChannel(t, c) PROVE QuietInv'
    <3>1. /\ UNCHANGED <<native, shut, returned, closes, callback>>
          /\ \A s \in Threads : UNCHANGED <<tearing[s].step, tearing[s].peer>>
      BY <2>1, <2>2, <2>5 DEF CloseNextChannel, TypeOK, ActiveTearings
    <3>2. CASE WinClose(t, c)
      BY <1>2, <2>1, <3>1, <3>2
    <3>3. CASE UNCHANGED <<closedFlag, closing>>
      BY <1>1, <3>1, <3>3
    <3> QED
      BY <2>5, <3>2, <3>3 DEF CloseNextChannel
  <2>6. CASE Clean(t)
    <3>1. /\ tearing[t].step = "clean" /\ tearing'[t].peer = p
          /\ UNCHANGED <<shut, closedFlag, returned, closing>>
      BY <2>1, <2>6 DEF Clean, TearingAt, TypeOK, ActiveTearings
    <3>2. CASE p \in cleaned \/ native[p] = "deleted"
      <4>1. native[p] = "deleted"
        BY <2>3, <3>1, <3>2 DEF UniqueCleaner, CleanerGoesOn, Deleting, Active
      <4>2. tearing'[t].step = "unhook" /\ UNCHANGED native
        BY <2>1, <2>6, <3>2 DEF Clean, TypeOK, ActiveTearings
      <4> QED
        BY <2>2, <3>1, <4>1, <4>2 DEF QuietInv
    <3>3. CASE ~(p \in cleaned \/ native[p] = "deleted")
      <4>1. tearing'[t].step = "delete" /\ native' = [native EXCEPT ![p] = "closed"]
        BY <2>1, <2>6, <3>3 DEF Clean, TypeOK, ActiveTearings
      <4>2. \A o \in Objects : native'[o] = "deleted" <=> native[o] = "deleted"
        BY <2>3, <3>3, <4>1 DEF TypeOK
      <4>3. (\A s \in Threads :
              tearing[s].step \in {"free", "unhook"} => native[tearing[s].peer] = "deleted")'
        <5>1. \A s \in Threads : tearing[s].step # "no" => tearing[s].peer \in Objects
          BY TearingRecord DEF ActiveTearings, Objects
        <5> QED
          BY <2>2, <4>1, <4>2, <5>1 DEF QuietInv
      <4>4. (\A o \in shut : native[o] = "deleted")'
        BY <3>1, <4>2 DEF QuietInv, TypeOK
      <4>5. (\A n \in NativeThreads, o \in Objects :
              callback[n].obj = o /\ native[o] = "deleted" => <<n, o>> \in closes)'
        BY <2>2, <4>2 DEF QuietInv
      <4> QED
        BY <3>1, <4>3, <4>4, <4>5 DEF QuietInv
    <3> QED
      BY <3>2, <3>3
  <2>7. CASE DeletePeer(t)
    <3>1. /\ tearing'[t].peer = p /\ tearing'[t].step = "free" /\ tearing[t].step = "await"
          /\ native' = [native EXCEPT ![p] = "deleted"]
          /\ DeletionAllowed(t, p)
          /\ UNCHANGED <<shut, closedFlag, returned, closing>>
      BY <2>1, <2>7 DEF DeletePeer, TearingAt, TypeOK, ActiveTearings
    <3>2. /\ native'[p] = "deleted"
          /\ \A o \in Objects \ {p} : native'[o] = native[o]
      BY <2>3, <3>1 DEF TypeOK
    <3>3. (\A n \in NativeThreads, o \in Objects :
            callback[n].obj = o /\ native[o] = "deleted" => <<n, o>> \in closes)'
      BY <2>2, <2>3, <3>1, <3>2 DEF QuietInv, DeletionAllowed, Running
    <3>4. (\A s \in Threads :
            tearing[s].step \in {"free", "unhook"} => native[tearing[s].peer] = "deleted")'
      <4>1. \A s \in Threads : tearing[s].step # "no" => tearing[s].peer \in Objects
        BY TearingRecord DEF ActiveTearings, Objects
      <4> QED
        BY <2>2, <3>1, <3>2, <4>1 DEF QuietInv
    <3>5. (\A o \in shut : native[o] = "deleted")'
      BY <3>1, <3>2 DEF QuietInv, TypeOK
    <3> QED
      BY <3>1, <3>3, <3>4, <3>5 DEF QuietInv
  <2>8. CASE UnhookPeer(t)
    <3>1. /\ tearing[t].step = "unhook" /\ tearing'[t].step = "no"
          /\ shut' = shut \cup {p} /\ returned' = returned \cup {p}
          /\ UNCHANGED <<native, closedFlag, closing>>
      BY <2>1, <2>8 DEF UnhookPeer, TearingAt, TypeOK, NoTearing
    <3>2. native[p] = "deleted"
      BY <3>1 DEF QuietInv
    <3> QED
      BY <2>2, <3>1, <3>2 DEF QuietInv
  <2> QED
    BY <1>7, <2>4, <2>5, <2>6, <2>7, <2>8 DEF TearStep, DeletePeerFails
<1>8. CASE UNCHANGED vars
  BY <1>1, <1>8 DEF vars
<1> QED
  BY <1>3, <1>4, <1>5, <1>6, <1>7, <1>8 DEF Next

(* When a close call has returned, the only callbacks of its object are    *)
(* those the closing thread is in, so no other listener is called.         *)
LEMMA QuietStep ==
  ASSUME TypeOK, TearInv, CleanerGoesOn, QuietInv, Next,
         NEW n \in NativeThreads, NEW o \in returned, StartsListener(n, o)
  PROVE  callback[n].phase = "client" /\ <<n, o>> \in closes
<1> USE LifecycleAssumption DEF sharedVars, history
<1>1. o \in Objects /\ o \in shut /\ native[o] = "deleted"
  BY DEF QuietInv, TypeOK
<1>2. callback'[n] # callback[n] /\ callback'[n].obj = o /\ callback'[n].phase = "client"
  BY CallbackRecord DEF StartsListener, ActiveCallbacks, NoCallback
<1>3. \A m \in NativeThreads : Happen(m) \/ Handle(m) \/ LeaveListener(m) => m = n
  BY <1>2
  DEF Happen, Handle, LeaveListener, Raise, RemoteOpens, DispatchNewChannel,
      DispatchEvent, MissCallback, ToClient, NextListener, EndCallback, TypeOK
<1>4. Happen(n) \/ Handle(n) \/ LeaveListener(n)
  <2>1. ASSUME NEW t \in Threads, Act(t) PROVE callback' = callback
    BY <2>1 DEF Act, Listen, Create, CloseChannel, CloseChannelAgain, ClosePeer
  <2>2. ASSUME NEW t \in Threads, OpenStep(t) PROVE callback' = callback
    BY <2>2 DEF OpenStep, GetPeerPointer, SetChannelPointer, PutChannel
  <2>3. ASSUME NEW t \in Threads, CloseStep(t) PROVE callback' = callback
    BY <2>3
    DEF CloseStep, NativeCloseChannel, CallDeleteChannel, DeleteChannel, DropChannel,
        UnhookChannel
  <2>4. ASSUME NEW t \in Threads, TearStep(t) PROVE callback' = callback
    BY <2>4
    DEF TearStep, ScanChannels, CloseNextChannel, CheckChannels, StackOverflow,
        Clean, CallDeletePeer, DeletePeer, DeletePeerFails, FreeRecord, UnhookPeer
  <2> QED
    BY <1>2, <1>3, <2>1, <2>2, <2>3, <2>4 DEF Next
<1>5. ~Happen(n) /\ ~EndCallback(n)
  BY <1>2 DEF Happen, Raise, RemoteOpens, EndCallback, NoCallback, TypeOK
<1>6. ~DispatchEvent(n) /\ ~MissCallback(n)
  <2>1. SUFFICES ASSUME DispatchEvent(n) PROVE FALSE
    BY <1>2 DEF MissCallback, NoCallback, TypeOK
  <2>2. callback[n].obj \notin shut /\ ToClient(n)
    BY <1>2, <2>1 DEF DispatchEvent, NoCallback, TypeOK
  <2>3. callback'[n].obj = callback[n].obj
    BY <2>1, <2>2, CallbackRecord DEF DispatchEvent, ToClient, TypeOK, ActiveCallbacks
  <2> QED
    BY <1>1, <1>2, <2>2, <2>3
<1>7. ~DispatchNewChannel(n)
  <2>1. SUFFICES ASSUME DispatchNewChannel(n) PROVE FALSE
    OBVIOUS
  <2>2. callback[n] \in ActiveCallbacks /\ Arriving(n)
    BY <2>1, CallbackRecord DEF DispatchNewChannel, Arriving
  <2>3. callback'[n].obj = callback[n].obj
    BY <2>1, <2>2 DEF DispatchNewChannel, ToClient, TypeOK, ActiveCallbacks
  <2>4. o \in Peers /\ ~TearingDown(o)
    BY <1>2, <2>2, <2>3 DEF TearInv, Arriving, ActiveCallbacks
  <2> QED
    BY <2>4 DEF CleanerGoesOn, TearingDown
<1>8. NextListener(n)
  BY <1>4, <1>5, <1>6, <1>7 DEF Handle, LeaveListener
<1>9. callback[n].phase = "client" /\ callback[n].obj = o
  BY <1>2, <1>8, CallbackRecord DEF NextListener, TypeOK, ActiveCallbacks
<1> QED
  BY <1>1, <1>9 DEF QuietInv

(* A client that closes from one thread, and the channels of a peer too    *)
(* where it closes the peer, hears of no object it has closed, except in   *)
(* the listener that closes it and those after it.                         *)
THEOREM ClosedIsQuiet ==
  ASSUME ~LateOpens, ~DeleteMayFail, OneCloses, ClosesChannels
  PROVE  Spec => QuietAfterClose
<1>1. Init => ClientInv /\ QuietInv
  BY LifecycleAssumption
  DEF Init, ClientInv, QuietInv, NoCallback, NoClosing, NoTearing, Objects, Threads
<1>2. TypeOK /\ PeerInv /\ MapIsComplete /\ CleanerGoesOn /\ PassInv /\ ClientInv
        /\ QuietInv /\ [Next]_vars => (ClientInv /\ QuietInv)'
  BY ClientInvStep, QuietInvStep DEF PeerInv
<1>3. TypeOK /\ TearInv /\ CleanerGoesOn /\ QuietInv /\ [Next]_vars =>
        [\A n \in NativeThreads, o \in returned :
           StartsListener(n, o) => callback[n].phase = "client" /\ <<n, o>> \in closes]_vars
  BY QuietStep
<1> QED
  BY <1>1, <1>2, <1>3, PassInvariant, ReleaseInvariant, MapInvariant, TearInvariant,
     PeerInvariant, TypeCorrect, PTL
  DEF Spec, QuietAfterClose
=============================================================================
