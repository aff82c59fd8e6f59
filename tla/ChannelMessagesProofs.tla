------------------------- MODULE ChannelMessagesProofs -------------------------
(***************************************************************************)
(* What holds of ChannelMessages for any messages, any buffers and any     *)
(* number of receivers: no message is lost, and a receiver that no other   *)
(* one overtakes gets a message in a buffer of its size.                   *)
(***************************************************************************)
EXTENDS ChannelMessages, SequenceTheorems, TLAPS

Steps == {"idle", "query", "fetch", "into"}
Kinds == {"none", "empty", "exception", "buffer", "count"}
Values == Rooms \cup {- s : s \in Sizes}

CallTypes == [step : Steps, size : Rooms]
ResultTypes == [kind : Kinds, value : Values, from : Sizes \cup {0}]

ReceiveStep(r) == Query(r) \/ Fetch(r) \/ Into(r)

-----------------------------------------------------------------------------
LEMMA RoomsAreNat == \A n \in Rooms : n \in Nat
<1>1. Sizes \subseteq Nat /\ Capacities \subseteq Nat /\ 0 \in Nat
  BY MessagesAssumption
<1> QED
  BY <1>1 DEF Rooms

(* What is pending, and its size, is of the declared types. *)
LEMMA HeadType ==
  ASSUME TypeOK, queue # <<>>
  PROVE  /\ Head(queue) \in Messages
         /\ Head(queue).size \in Sizes
         /\ Tail(queue) \in Seq(Messages)
<1>1. Head(queue) \in Messages /\ Tail(queue) \in Seq(Messages)
  BY HeadTailProperties DEF TypeOK
<1> QED
  BY <1>1 DEF Messages

(* A call that ends gives its receiver a result, and nothing to the others. *)
LEMMA ReturnType ==
  ASSUME TypeOK, NEW r \in Receivers, NEW kind \in Kinds, NEW value \in Values,
         NEW from \in Sizes \cup {0}, Return(r, kind, value, from)
  PROVE  /\ call' \in [Receivers -> CallTypes]
         /\ result' \in [Receivers -> ResultTypes]
         /\ UNCHANGED <<arrived, channel>>
<1>1. Idle \in CallTypes
  BY DEF Idle, CallTypes, Steps, Rooms
<1>2. [kind |-> kind, value |-> value, from |-> from] \in ResultTypes
  BY DEF ResultTypes
<1> QED
  BY <1>1, <1>2
     DEF TypeOK, Return, CallTypes, ResultTypes, Steps, Kinds, Values

(* The type invariant, with the abbreviations above. *)
LEMMA TypeForm ==
  TypeOK <=> /\ queue \in Seq(Messages)
             /\ arrived \in 0 .. MaxMessages
             /\ channel \in {"open", "flagged", "deleted"}
             /\ call \in [Receivers -> CallTypes]
             /\ result \in [Receivers -> ResultTypes]
             /\ received \subseteq Messages
             /\ overtaken \subseteq Receivers
  BY DEF TypeOK, CallTypes, ResultTypes, Steps, Kinds, Values

-----------------------------------------------------------------------------
LEMMA TypeStep == TypeOK /\ [Next]_vars => TypeOK'
<1> SUFFICES ASSUME TypeOK, [Next]_vars PROVE TypeOK'
  OBVIOUS
<1>0. 0 \in Rooms /\ Rooms \subseteq Values /\ Sizes \subseteq Rooms
  BY DEF Rooms, Values
<1>1. CASE UNCHANGED vars
  BY <1>1 DEF vars, TypeOK
<1>2. ASSUME NEW size \in Sizes, NEW text \in BOOLEAN, Arrive(size, text)
      PROVE  TypeOK'
  <2>1. arrived + 1 \in 1 .. MaxMessages
    BY <1>2, MessagesAssumption DEF Arrive, TypeOK
  <2>2. [id |-> arrived + 1, size |-> size, text |-> text] \in Messages
    BY <2>1 DEF Messages
  <2>3. queue' \in Seq(Messages)
    BY <1>2, <2>2 DEF Arrive, TypeOK
  <2>4. arrived' \in 0 .. MaxMessages
    BY <1>2, <2>1 DEF Arrive
  <2> QED
    BY <1>2, <2>3, <2>4 DEF Arrive, TypeOK
<1>3. CASE FlagClosed \/ DeleteChannel
  <2>1. <<>> \in Seq(Messages)
    OBVIOUS
  <2> QED
    BY <1>3, <2>1 DEF FlagClosed, DeleteChannel, TypeOK
<1>4. ASSUME NEW r \in Receivers, NEW c \in CallTypes, Start(r, c)
      PROVE  TypeOK'
  <2>1. NoResult \in ResultTypes
    BY <1>0 DEF NoResult, ResultTypes, Kinds
  <2> QED
    BY <1>4, <2>1, TypeForm DEF Start, TypeOK, CallTypes, ResultTypes, Steps, Kinds, Values
<1>5. ASSUME NEW r \in Receivers, StartReceive(r)
      PROVE  TypeOK'
  BY <1>5, <1>4, <1>0 DEF StartReceive, CallTypes, Steps
<1>6. ASSUME NEW r \in Receivers, NEW room \in Capacities, StartReceiveInto(r, room)
      PROVE  TypeOK'
  BY <1>6, <1>4 DEF StartReceiveInto, CallTypes, Steps, Rooms
<1>7. ASSUME NEW r \in Receivers, Allocate(r)
      PROVE  TypeOK'
  <2>1. Head(queue).size \in Rooms
    BY <1>7, <1>0, HeadType DEF Allocate, Pending
  <2> DEFINE c == [step |-> "fetch", size |-> Head(queue).size]
  <2>2. c \in CallTypes
    BY <2>1 DEF CallTypes, Steps
  <2>3. /\ call' = [call EXCEPT ![r] = c]
        /\ UNCHANGED <<queue, arrived, channel, result, received, overtaken>>
    BY <1>7 DEF Allocate
  <2> HIDE DEF c
  <2> QED
    BY <2>2, <2>3, TypeForm DEF TypeOK, CallTypes, ResultTypes, Steps, Kinds, Values
<1>8. ASSUME NEW r \in Receivers, NEW kind \in Kinds, NEW value \in Values,
             NEW from \in Sizes \cup {0}, Return(r, kind, value, from),
             queue' \in Seq(Messages), received' \subseteq Messages,
             overtaken' \subseteq Receivers
      PROVE  TypeOK'
  <2>1. /\ call' \in [Receivers -> CallTypes]
        /\ result' \in [Receivers -> ResultTypes]
        /\ UNCHANGED <<arrived, channel>>
    BY <1>8, ReturnType
  <2> QED
    BY <1>8, <2>1 DEF TypeOK, CallTypes, ResultTypes, Steps, Kinds, Values
<1>9. ASSUME NEW r \in Receivers, ReceiveStep(r)
      PROVE  TypeOK'
  <2>0. /\ queue \in Seq(Messages) /\ received \subseteq Messages
        /\ overtaken \subseteq Receivers /\ call[r].size \in Rooms
    BY DEF TypeOK
  <2>1. CASE QueryThrowsException(r) \/ AllocateFails(r) \/ FetchFails(r) \/ IntoFails(r)
    <3>1. Return(r, "exception", 0, 0) /\ LeaveQueue
      BY <2>1 DEF QueryThrowsException, AllocateFails, FetchFails, IntoFails
    <3> QED
      BY <3>1, <2>0, <1>0, <1>8 DEF LeaveQueue, Kinds
  <2>2. CASE QueryFindsZero(r) \/ FetchNothing(r)
    <3>1. Return(r, "empty", 0, 0) /\ LeaveQueue
      BY <2>2 DEF QueryFindsZero, FetchNothing
    <3> QED
      BY <3>1, <2>0, <1>0, <1>8 DEF LeaveQueue, Kinds
  <2>3. CASE Allocate(r)
    BY <2>3, <1>7
  <2>4. CASE FetchMessage(r)
    <3>1. /\ Return(r, "buffer", call[r].size, Head(queue).size)
          /\ Take(r) /\ queue # <<>>
      BY <2>4 DEF FetchMessage, Pending
    <3>2. /\ queue' \in Seq(Messages) /\ received' \subseteq Messages
          /\ overtaken' \subseteq Receivers
      BY <3>1, <2>0, HeadType DEF Take
    <3>3. Head(queue).size \in Sizes
      BY <3>1, HeadType
    <3> QED
      BY <3>1, <3>2, <3>3, <2>0, <1>0, <1>8 DEF Kinds
  <2>5. CASE IntoNothing(r)
    BY <2>5, <2>0, <1>0, <1>8 DEF IntoNothing, LeaveQueue, Kinds
  <2>6. CASE IntoTooSmall(r) \/ IntoMessage(r)
    <3>1. queue # <<>>
      BY <2>6 DEF IntoTooSmall, IntoMessage, Pending
    <3>2. Head(queue).size \in Sizes /\ Head(queue).size \in Nat
      BY <3>1, HeadType, MessagesAssumption
    <3>3. Reported(Head(queue)) \in Values /\ - Reported(Head(queue)) \in Values
      BY <3>2, <1>0 DEF Reported, Values
    <3>4. CASE IntoTooSmall(r)
      BY <3>3, <3>4, <2>0, <1>8 DEF IntoTooSmall, LeaveQueue, Kinds
    <3>5. CASE IntoMessage(r)
      <4>1. /\ queue' \in Seq(Messages) /\ received' \subseteq Messages
            /\ overtaken' \subseteq Receivers
        BY <3>1, <3>5, <2>0, HeadType DEF IntoMessage, Take
      <4> QED
        BY <3>2, <3>3, <3>5, <4>1, <1>8 DEF IntoMessage, Kinds
    <3> QED
      BY <2>6, <3>4, <3>5
  <2> QED
    BY <1>9, <2>1, <2>2, <2>3, <2>4, <2>5, <2>6 DEF ReceiveStep, Query, Fetch, Into
<1> QED
  BY <1>1, <1>2, <1>3, <1>5, <1>6, <1>9 DEF Next, ReceiveStep

LEMMA TypeInit == Init => TypeOK
<1> SUFFICES ASSUME Init PROVE TypeOK
  OBVIOUS
<1>1. Idle \in CallTypes /\ NoResult \in ResultTypes
  BY DEF Idle, NoResult, CallTypes, ResultTypes, Steps, Kinds, Values, Rooms
<1>2. <<>> \in Seq(Messages) /\ 0 \in 0 .. MaxMessages
  BY MessagesAssumption
<1> QED
  BY <1>1, <1>2, TypeForm DEF Init

(* Every state of the queue and its receivers is of the declared types.    *)
THEOREM TypeCorrect == Spec => []TypeOK
BY TypeInit, TypeStep, PTL DEF Spec

-----------------------------------------------------------------------------
(* Nothing is lost: a message that leaves the queue goes into a buffer.    *)

Kept(i) ==
  \/ \E k \in 1 .. Len(queue) : queue[k].id = i
  \/ \E m \in received : m.id = i

LossInv == TypeOK /\ NothingLost

LEMMA TakeKeeps ==
  ASSUME LossInv, queue # <<>>, NEW r, Take(r), UNCHANGED <<arrived, channel>>
  PROVE  NothingLost'
<1>1. /\ Len(Tail(queue)) = Len(queue) - 1
      /\ \A k \in 1 .. Len(Tail(queue)) : Tail(queue)[k] = queue[k + 1]
      /\ Len(queue) \in Nat \ {0}
      /\ Head(queue) = queue[1]
  BY HeadTailProperties, EmptySeq DEF LossInv, TypeOK
<1>2. queue' = Tail(queue) /\ received' = received \cup {queue[1]}
  BY <1>1 DEF Take
<1> SUFFICES ASSUME channel # "deleted", NEW i \in 1 .. arrived
             PROVE  Kept(i)'
  BY DEF NothingLost, Kept
<1>3. CASE \E m \in received : m.id = i
  BY <1>2, <1>3 DEF Kept
<1>4. CASE \E k \in 1 .. Len(queue) : queue[k].id = i
  <2>1. PICK k \in 1 .. Len(queue) : queue[k].id = i
    BY <1>4
  <2>2. CASE k = 1
    BY <1>2, <2>1, <2>2 DEF Kept
  <2>3. CASE k # 1
    <3>1. k - 1 \in 1 .. Len(queue') /\ queue'[k - 1] = queue[k]
      BY <1>1, <1>2, <2>1, <2>3
    <3> QED
      BY <2>1, <3>1 DEF Kept
  <2> QED
    BY <2>2, <2>3
<1> QED
  BY <1>3, <1>4 DEF LossInv, NothingLost

LEMMA LossStep == LossInv /\ [Next]_vars => LossInv'
<1> SUFFICES ASSUME LossInv, [Next]_vars PROVE LossInv'
  OBVIOUS
<1> USE DEF LossInv
<1>t. TypeOK'
  BY TypeStep
<1>0. ASSUME UNCHANGED <<queue, arrived, received>>,
             channel' # "deleted" => channel # "deleted"
      PROVE  LossInv'
  BY <1>t, <1>0 DEF NothingLost
<1>1. CASE UNCHANGED vars
  BY <1>1, <1>0 DEF vars
<1>2. ASSUME NEW size \in Sizes, NEW text \in BOOLEAN, Arrive(size, text)
      PROVE  LossInv'
  <2> DEFINE m == [id |-> arrived + 1, size |-> size, text |-> text]
  <2>1. /\ queue' = Append(queue, m) /\ arrived' = arrived + 1
        /\ UNCHANGED <<channel, received>> /\ m.id = arrived + 1
        /\ channel # "deleted"
    BY <1>2 DEF Arrive
  <2>2. /\ Len(queue) \in Nat /\ Len(queue') = Len(queue) + 1
        /\ \A k \in 1 .. Len(queue) : queue'[k] = queue[k]
        /\ queue'[Len(queue) + 1] = m
    <3>1. queue \in Seq(Messages \cup {m}) /\ m \in Messages \cup {m}
      BY DEF TypeOK
    <3> QED
      BY <2>1, <3>1, AppendProperties
  <2>4. NothingLost'
    <3> SUFFICES ASSUME NEW i \in 1 .. arrived + 1 PROVE Kept(i)'
      BY <2>1 DEF NothingLost, Kept
    <3>1. CASE i = arrived + 1
      BY <2>1, <2>2, <3>1 DEF Kept
    <3>2. CASE i # arrived + 1
      <4>1. i \in 1 .. arrived
        BY <3>2, MessagesAssumption DEF TypeOK
      <4>2. Kept(i)
        BY <2>1, <4>1 DEF NothingLost, Kept
      <4> QED
        BY <2>1, <2>2, <4>2 DEF Kept
    <3> QED
      BY <3>1, <3>2
  <2> QED
    BY <1>t, <2>4
<1>3. CASE FlagClosed
  BY <1>3, <1>0 DEF FlagClosed
<1>4. CASE DeleteChannel
  <2>1. Len(<<>>) = 0
    OBVIOUS
  <2> QED
    BY <1>4, <1>t, <2>1 DEF DeleteChannel, NothingLost
<1>5. ASSUME NEW r \in Receivers,
             StartReceive(r) \/ (\E room \in Capacities : StartReceiveInto(r, room))
      PROVE  LossInv'
  BY <1>5, <1>0 DEF StartReceive, StartReceiveInto, Start
<1>6. ASSUME NEW r \in Receivers, ReceiveStep(r)
      PROVE  LossInv'
  <2>1. CASE Query(r) \/ FetchNothing(r) \/ FetchFails(r) \/ IntoNothing(r)
             \/ IntoTooSmall(r) \/ IntoFails(r)
    <3>1. UNCHANGED <<queue, arrived, channel, received>>
      BY <2>1 DEF Query, QueryThrowsException, QueryFindsZero, Allocate, AllocateFails,
           FetchNothing, FetchFails, IntoNothing, IntoTooSmall, IntoFails,
           LeaveQueue, Return
    <3> QED
      BY <3>1, <1>0
  <2>2. CASE FetchMessage(r) \/ IntoMessage(r)
    <3>1. queue # <<>> /\ Take(r) /\ UNCHANGED <<arrived, channel>>
      BY <2>2 DEF FetchMessage, IntoMessage, Pending, Return
    <3> QED
      BY <1>t, <3>1, TakeKeeps
  <2> QED
    BY <1>6, <2>1, <2>2 DEF ReceiveStep, Fetch, Into
<1> QED
  BY <1>1, <1>2, <1>3, <1>4, <1>5, <1>6 DEF Next, ReceiveStep

(* No message is lost to any number of receivers, whatever overtakes,      *)
(* fails or is too small.                                                  *)
THEOREM NoMessageIsLost == Spec => []NothingLost
<1>1. Init => LossInv
  <2>1. Init => TypeOK
    BY TypeInit
  <2>2. Len(<<>>) = 0
    OBVIOUS
  <2> QED
    BY <2>1, <2>2 DEF Init, LossInv, NothingLost
<1>2. LossInv => NothingLost
  BY DEF LossInv
<1> QED
  BY <1>1, <1>2, LossStep, PTL DEF Spec

-----------------------------------------------------------------------------
(* What a receiver was told of the first message stays true until another  *)
(* receiver takes that message, and what it was given stays as it was.     *)

SizeStands(r) ==
  At(r, "fetch") /\ channel # "deleted"
    => queue # <<>> /\ Head(queue).size = call[r].size

BufferExact(r) == result[r].kind = "buffer" => result[r].value = result[r].from

BufferInv ==
  TypeOK /\ \A r \in Receivers \ overtaken : SizeStands(r) /\ BufferExact(r)

LEMMA AppendKeepsHead ==
  ASSUME NEW S, NEW s \in Seq(S), s # <<>>, NEW x
  PROVE  Append(s, x) # <<>> /\ Head(Append(s, x)) = Head(s)
<1>1. s \in Seq(S \cup {x})
  OBVIOUS
<1>2. Len(s) \in Nat \ {0} /\ Len(Append(s, x)) = Len(s) + 1
  BY <1>1, EmptySeq, AppendProperties
<1> QED
  BY <1>1, <1>2, AppendProperties, EmptySeq, HeadTailProperties

LEMMA BufferStep == BufferInv /\ [Next]_vars => BufferInv'
<1> SUFFICES ASSUME BufferInv, [Next]_vars, NEW s \in Receivers, s \notin overtaken'
             PROVE  SizeStands(s)' /\ BufferExact(s)'
  BY TypeStep DEF BufferInv
<1>0. TypeOK /\ (s \notin overtaken => SizeStands(s) /\ BufferExact(s))
  BY DEF BufferInv
<1>1. CASE UNCHANGED vars
  BY <1>0, <1>1 DEF vars, SizeStands, BufferExact, At
<1>2. ASSUME NEW size \in Sizes, NEW text \in BOOLEAN, Arrive(size, text)
      PROVE  SizeStands(s)' /\ BufferExact(s)'
  <2>1. s \notin overtaken
    BY <1>2 DEF Arrive
  <2>2. BufferExact(s)'
    BY <1>0, <1>2, <2>1 DEF Arrive, BufferExact
  <2>3. SizeStands(s)'
    BY <1>0, <1>2, <2>1, AppendKeepsHead DEF Arrive, SizeStands, At, TypeOK
  <2> QED
    BY <2>2, <2>3
<1>3. CASE FlagClosed \/ DeleteChannel
  BY <1>0, <1>3 DEF FlagClosed, DeleteChannel, SizeStands, BufferExact, At
<1>4. ASSUME NEW r \in Receivers, NEW c, c.step # "fetch", Start(r, c)
      PROVE  SizeStands(s)' /\ BufferExact(s)'
  <2>1. CASE s = r
    BY <1>0, <1>4, <2>1 DEF Start, NoResult, SizeStands, BufferExact, At, TypeOK
  <2>2. CASE s # r
    BY <1>0, <1>4, <2>2 DEF Start, SizeStands, BufferExact, At, TypeOK
  <2> QED
    BY <2>1, <2>2
<1>5. ASSUME NEW r \in Receivers, Allocate(r)
      PROVE  SizeStands(s)' /\ BufferExact(s)'
  BY <1>0, <1>5 DEF Allocate, SizeStands, BufferExact, At, Pending, TypeOK
<1>6. ASSUME NEW r \in Receivers, NEW kind, NEW value, NEW from,
             Return(r, kind, value, from), kind # "buffer" \/ value = from,
             s # r => UNCHANGED queue /\ s \notin overtaken
      PROVE  SizeStands(s)' /\ BufferExact(s)'
  <2>1. CASE s = r
    BY <1>0, <1>6, <2>1 DEF Return, Idle, SizeStands, BufferExact, At, TypeOK
  <2>2. CASE s # r
    BY <1>0, <1>6, <2>2 DEF Return, SizeStands, BufferExact, At, TypeOK
  <2> QED
    BY <2>1, <2>2
<1>7. ASSUME NEW r \in Receivers, ReceiveStep(r), ~Allocate(r)
      PROVE  SizeStands(s)' /\ BufferExact(s)'
  <2>1. CASE FetchMessage(r)
    <3>1. s = r
      BY <2>1 DEF FetchMessage, Take
    <3>2. s \notin overtaken /\ channel # "deleted" /\ At(r, "fetch")
      BY <2>1, <3>1 DEF FetchMessage, Take, Pending
    <3>3. Head(queue).size = call[r].size
      BY <1>0, <3>1, <3>2 DEF SizeStands
    <3> QED
      BY <1>6, <2>1, <3>1, <3>3 DEF FetchMessage
  <2>2. CASE IntoMessage(r)
    <3>1. s = r
      BY <2>2 DEF IntoMessage, Take
    <3> QED
      BY <1>6, <2>2, <3>1 DEF IntoMessage
  <2>3. CASE ~FetchMessage(r) /\ ~IntoMessage(r)
    <3>1. /\ UNCHANGED <<queue, overtaken>>
          /\ \E kind \in Kinds \ {"buffer"} : \E value, from : Return(r, kind, value, from)
      BY <1>7, <2>3
         DEF ReceiveStep, Query, Fetch, Into, QueryThrowsException, QueryFindsZero,
             AllocateFails, FetchNothing, FetchFails,
             IntoNothing, IntoTooSmall, IntoFails, LeaveQueue, Kinds
    <3> QED
      BY <1>6, <3>1
  <2> QED
    BY <2>1, <2>2, <2>3
<1>8. ASSUME NEW r \in Receivers,
             StartReceive(r) \/ \E room \in Capacities : StartReceiveInto(r, room)
      PROVE  SizeStands(s)' /\ BufferExact(s)'
  <2>1. CASE StartReceive(r)
    BY <1>4, <2>1 DEF StartReceive
  <2>2. ASSUME NEW room \in Capacities, StartReceiveInto(r, room)
        PROVE  SizeStands(s)' /\ BufferExact(s)'
    BY <1>4, <2>2 DEF StartReceiveInto
  <2> QED
    BY <1>8, <2>1, <2>2
<1> QED
  BY <1>1, <1>2, <1>3, <1>5, <1>7, <1>8 DEF Next, ReceiveStep

(* For any number of receivers, receiveMessage() returns the message and   *)
(* nothing else, whatever arrives between its two calls of the library,    *)
(* unless another receiver takes a message in between.                     *)
THEOREM BufferHoldsMessage == Spec => []BufferIsMessage
<1>1. Init => BufferInv
  <2>1. Init => TypeOK
    BY TypeInit
  <2> QED
    BY <2>1 DEF Init, Idle, NoResult, BufferInv, SizeStands, BufferExact, At
<1>2. BufferInv => BufferIsMessage
  BY DEF BufferInv, BufferExact, BufferIsMessage
<1> QED
  BY <1>1, <1>2, BufferStep, PTL DEF Spec

-----------------------------------------------------------------------------
(* A negative count that came without a message stays the size of the      *)
(* first one pending.                                                      *)

TooSmall(r) == result[r].kind = "count" /\ result[r].value < 0 /\ result[r].from = 0

TellsSize(r) ==
  TooSmall(r) /\ channel # "deleted" =>
    queue # <<>> /\ result[r].value = - Head(queue).size

TellInv == TypeOK /\ \A r \in Receivers \ overtaken : TellsSize(r)

LEMMA TellStep == TellInv /\ [Next]_vars => TellInv'
<1> SUFFICES ASSUME TellInv, [Next]_vars, NEW s \in Receivers, s \notin overtaken'
             PROVE  TellsSize(s)'
  BY TypeStep DEF TellInv
<1>0. TypeOK /\ (s \notin overtaken => TellsSize(s))
  BY DEF TellInv
<1>1. CASE UNCHANGED vars
  BY <1>0, <1>1 DEF vars, TellsSize, TooSmall
<1>2. ASSUME NEW size \in Sizes, NEW text \in BOOLEAN, Arrive(size, text)
      PROVE  TellsSize(s)'
  <2>1. s \notin overtaken
    BY <1>2 DEF Arrive
  <2> QED
    BY <1>0, <1>2, <2>1, AppendKeepsHead DEF Arrive, TellsSize, TooSmall, TypeOK
<1>3. CASE FlagClosed \/ DeleteChannel
  BY <1>0, <1>3 DEF FlagClosed, DeleteChannel, TellsSize, TooSmall
<1>4. ASSUME NEW r \in Receivers, NEW c, Start(r, c)
      PROVE  TellsSize(s)'
  <2>1. CASE s = r
    <3>1. result'[s].kind = "none"
      BY <1>0, <1>4, <2>1 DEF Start, NoResult, TypeOK
    <3> QED
      BY <3>1 DEF TellsSize, TooSmall
  <2>2. CASE s # r
    BY <1>0, <1>4, <2>2 DEF Start, TellsSize, TooSmall, TypeOK
  <2> QED
    BY <2>1, <2>2
<1>5. ASSUME NEW r \in Receivers, Allocate(r)
      PROVE  TellsSize(s)'
  BY <1>0, <1>5 DEF Allocate, TellsSize, TooSmall
<1>6. ASSUME NEW r \in Receivers, NEW kind, NEW value, NEW from,
             Return(r, kind, value, from), s # r => UNCHANGED queue /\ s \notin overtaken,
             kind = "count" /\ value < 0 /\ from = 0 /\ channel # "deleted" =>
               queue' # <<>> /\ value = - Head(queue').size
      PROVE  TellsSize(s)'
  <2>1. CASE s = r
    <3>1. /\ result'[s].kind = kind /\ result'[s].value = value /\ result'[s].from = from
          /\ channel' = channel
      BY <1>0, <1>6, <2>1 DEF Return, TypeOK
    <3> QED
      BY <1>6, <3>1 DEF TellsSize, TooSmall
  <2>2. CASE s # r
    <3>1. result'[s] = result[s] /\ UNCHANGED <<queue, channel>>
      BY <1>0, <1>6, <2>2 DEF Return, TypeOK
    <3> QED
      BY <1>0, <1>6, <2>2, <3>1 DEF TellsSize, TooSmall
  <2> QED
    BY <2>1, <2>2
<1>7. ASSUME NEW r \in Receivers, ReceiveStep(r), ~Allocate(r)
      PROVE  TellsSize(s)'
  <2>0. queue # <<>> => Head(queue) \in Messages /\ Head(queue).size \in Nat
    <3>1. \A m \in Messages : m.size \in Nat
      BY MessagesAssumption DEF Messages
    <3>2. queue \in Seq(Messages)
      BY <1>0 DEF TypeOK
    <3>3. queue # <<>> => Head(queue) \in Messages
      BY <3>2, HeadTailProperties
    <3> QED
      BY <3>1, <3>3
  <2>1. CASE FetchMessage(r)
    <3>1. s = r
      BY <2>1 DEF FetchMessage, Take
    <3> QED
      BY <1>6, <2>1, <3>1 DEF FetchMessage
  <2>2. CASE IntoMessage(r)
    <3>1. s = r /\ queue # <<>>
      BY <2>2 DEF IntoMessage, Take, Pending
    <3>2. ~(Reported(Head(queue)) < 0 /\ Head(queue).size = 0)
      BY <2>0, <3>1 DEF Reported
    <3> QED
      BY <1>6, <2>2, <3>1, <3>2 DEF IntoMessage
  <2>3. CASE IntoTooSmall(r)
    <3>1. /\ queue # <<>> /\ UNCHANGED <<queue, overtaken>>
          /\ Return(r, "count", - Reported(Head(queue)), 0)
      BY <2>3 DEF IntoTooSmall, Pending, LeaveQueue
    <3>2. - Reported(Head(queue)) < 0 => Reported(Head(queue)) = Head(queue).size
      BY <2>0, <3>1 DEF Reported
    <3> QED
      BY <1>6, <3>1, <3>2
  <2>4. CASE IntoNothing(r)
    <3>1. UNCHANGED <<queue, overtaken>> /\ Return(r, "count", 0, 0) /\ ~(0 < 0)
      BY <2>4 DEF IntoNothing, LeaveQueue
    <3> QED
      BY <1>6, <3>1
  <2>5. CASE Query(r) \/ FetchNothing(r) \/ FetchFails(r) \/ IntoFails(r)
    <3>1. /\ UNCHANGED <<queue, overtaken>>
          /\ \E kind \in Kinds \ {"count"} : \E value, from : Return(r, kind, value, from)
      BY <1>7, <2>5
         DEF Query, QueryThrowsException, QueryFindsZero,
             AllocateFails, FetchNothing, FetchFails, IntoFails, LeaveQueue, Kinds
    <3> QED
      BY <1>6, <3>1
  <2> QED
    BY <1>7, <2>1, <2>2, <2>3, <2>4, <2>5 DEF ReceiveStep, Fetch, Into
<1>8. ASSUME NEW r \in Receivers,
             StartReceive(r) \/ \E room \in Capacities : StartReceiveInto(r, room)
      PROVE  TellsSize(s)'
  BY <1>4, <1>8 DEF StartReceive, StartReceiveInto
<1> QED
  BY <1>1, <1>2, <1>3, <1>5, <1>7, <1>8 DEF Next, ReceiveStep

(* For any number of receivers, a negative count that receiveMessage       *)
(* (ByteBuffer) returned tells the size of the first pending message,      *)
(* unless another receiver took one since the call began.                  *)
THEOREM NegativeCountTellsSize == Spec => []NegativeIsPendingSize
<1>1. Init => TellInv
  <2>1. Init => TypeOK
    BY TypeInit
  <2> QED
    BY <2>1 DEF Init, NoResult, TellInv, TellsSize, TooSmall
<1>2. TellInv => NegativeIsPendingSize
  BY DEF TellInv, TellsSize, TooSmall, NegativeIsPendingSize, Pending
<1> QED
  BY <1>1, <1>2, TellStep, PTL DEF Spec

-----------------------------------------------------------------------------
(* The queue holds the newest messages, in the order they arrived, and     *)
(* only older ones were received.                                          *)
OrderInv ==
  channel # "deleted" =>
    /\ Len(queue) <= arrived
    /\ \A k \in 1 .. Len(queue) : queue[k].id = arrived - Len(queue) + k
    /\ \A m \in received : m.id <= arrived - Len(queue)

LEMMA TakeKeepsOrder ==
  ASSUME TypeOK, OrderInv, queue # <<>>, NEW r, Take(r), UNCHANGED <<arrived, channel>>
  PROVE  OrderInv'
<1> SUFFICES ASSUME channel # "deleted" PROVE OrderInv'
  BY DEF OrderInv
<1>1. /\ Len(Tail(queue)) = Len(queue) - 1
      /\ \A k \in 1 .. Len(Tail(queue)) : Tail(queue)[k] = queue[k + 1]
      /\ Len(queue) \in Nat \ {0}
      /\ Head(queue) = queue[1]
  BY HeadTailProperties, EmptySeq DEF TypeOK
<1>2. queue' = Tail(queue) /\ received' = received \cup {queue[1]}
  BY <1>1 DEF Take
<1>3. arrived \in Nat /\ \A m \in received : m.id \in Nat
  BY MessagesAssumption DEF TypeOK, Messages
<1>4. Len(queue') = Len(queue) - 1 /\ arrived' = arrived
  BY <1>1, <1>2
<1>5. ASSUME NEW k \in 1 .. Len(queue')
      PROVE  queue'[k].id = arrived' - Len(queue') + k
  <2>1. k + 1 \in 1 .. Len(queue) /\ queue'[k] = queue[k + 1]
    BY <1>1, <1>2, <1>4, <1>5
  <2>2. queue[k + 1].id = arrived - Len(queue) + (k + 1)
    BY <2>1 DEF OrderInv
  <2> QED
    BY <1>1, <1>3, <1>4, <2>1, <2>2
<1>6. ASSUME NEW m \in received'
      PROVE  m.id <= arrived' - Len(queue')
  <2>1. m = queue[1] => m.id = arrived - Len(queue) + 1
    BY <1>1 DEF OrderInv
  <2>2. m \in received => m.id \in Nat /\ m.id <= arrived - Len(queue)
    BY <1>3 DEF OrderInv
  <2> QED
    BY <1>1, <1>2, <1>3, <1>4, <1>6, <2>1, <2>2
<1>7. Len(queue') <= arrived'
  BY <1>1, <1>3, <1>4 DEF OrderInv
<1> QED
  BY <1>5, <1>6, <1>7 DEF OrderInv

LEMMA OrderStep == TypeOK /\ OrderInv /\ [Next]_vars => OrderInv'
<1> SUFFICES ASSUME TypeOK, OrderInv, [Next]_vars PROVE OrderInv'
  OBVIOUS
<1>0. ASSUME UNCHANGED <<queue, arrived, received>>,
             channel' # "deleted" => channel # "deleted"
      PROVE  OrderInv'
  BY <1>0 DEF OrderInv
<1>1. CASE UNCHANGED vars
  BY <1>1, <1>0 DEF vars
<1>2. ASSUME NEW size \in Sizes, NEW text \in BOOLEAN, Arrive(size, text)
      PROVE  OrderInv'
  <2> DEFINE m == [id |-> arrived + 1, size |-> size, text |-> text]
  <2>1. /\ queue' = Append(queue, m) /\ arrived' = arrived + 1
        /\ UNCHANGED <<channel, received>> /\ m.id = arrived + 1
        /\ channel # "deleted"
    BY <1>2 DEF Arrive
  <2>2. /\ Len(queue) \in Nat /\ Len(queue') = Len(queue) + 1
        /\ \A k \in 1 .. Len(queue) : queue'[k] = queue[k]
        /\ queue'[Len(queue) + 1] = m
    <3>1. queue \in Seq(Messages \cup {m}) /\ m \in Messages \cup {m}
      BY DEF TypeOK
    <3> QED
      BY <2>1, <3>1, AppendProperties
  <2>3. arrived \in Nat /\ \A n \in received : n.id \in Nat
    BY MessagesAssumption DEF TypeOK, Messages
  <2> HIDE DEF m
  <2>4. ASSUME NEW k \in 1 .. Len(queue')
        PROVE  queue'[k].id = arrived' - Len(queue') + k
    <3>1. CASE k = Len(queue) + 1
      BY <2>1, <2>2, <2>3, <3>1
    <3>2. CASE k # Len(queue) + 1
      <4>1. k \in 1 .. Len(queue)
        BY <2>2, <2>4, <3>2
      <4>2. queue'[k] = queue[k] /\ queue[k].id = arrived - Len(queue) + k
        BY <2>1, <2>2, <4>1 DEF OrderInv
      <4> QED
        BY <2>1, <2>2, <2>3, <4>1, <4>2
    <3> QED
      BY <3>1, <3>2
  <2>5. ASSUME NEW n \in received'
        PROVE  n.id <= arrived' - Len(queue')
    <3>1. n.id \in Nat /\ n.id <= arrived - Len(queue)
      BY <2>1, <2>3, <2>5 DEF OrderInv
    <3> QED
      BY <2>1, <2>2, <2>3, <3>1
  <2>6. Len(queue') <= arrived'
    BY <2>1, <2>2, <2>3 DEF OrderInv
  <2> QED
    BY <2>4, <2>5, <2>6 DEF OrderInv
<1>3. CASE FlagClosed
  BY <1>3, <1>0 DEF FlagClosed
<1>4. CASE DeleteChannel
  BY <1>4 DEF DeleteChannel, OrderInv
<1>5. ASSUME NEW r \in Receivers,
             StartReceive(r) \/ (\E room \in Capacities : StartReceiveInto(r, room))
      PROVE  OrderInv'
  BY <1>5, <1>0 DEF StartReceive, StartReceiveInto, Start
<1>6. ASSUME NEW r \in Receivers, ReceiveStep(r)
      PROVE  OrderInv'
  <2>1. CASE Query(r) \/ FetchNothing(r) \/ FetchFails(r) \/ IntoNothing(r)
             \/ IntoTooSmall(r) \/ IntoFails(r)
    <3>1. UNCHANGED <<queue, arrived, channel, received>>
      BY <2>1 DEF Query, QueryThrowsException, QueryFindsZero, Allocate, AllocateFails,
           FetchNothing, FetchFails, IntoNothing, IntoTooSmall, IntoFails,
           LeaveQueue, Return
    <3> QED
      BY <3>1, <1>0
  <2>2. CASE FetchMessage(r) \/ IntoMessage(r)
    <3>1. queue # <<>> /\ Take(r) /\ UNCHANGED <<arrived, channel>>
      BY <2>2 DEF FetchMessage, IntoMessage, Pending, Return
    <3> QED
      BY <3>1, TakeKeepsOrder
  <2> QED
    BY <1>6, <2>1, <2>2 DEF ReceiveStep, Fetch, Into
<1> QED
  BY <1>1, <1>2, <1>3, <1>4, <1>5, <1>6 DEF Next, ReceiveStep

(* Whatever receivers race, messages are received in the order they        *)
(* arrived, and none is received twice.                                    *)
THEOREM MessagesTakenInOrder == Spec => []TakenInOrder
<1>1. Init => OrderInv
  <2>1. Len(<<>>) = 0
    OBVIOUS
  <2> QED
    BY <2>1 DEF Init, OrderInv
<1>2. TypeOK /\ OrderInv => TakenInOrder
  <2> SUFFICES ASSUME TypeOK, OrderInv, channel # "deleted", NEW k \in 1 .. Len(queue)
               PROVE  /\ \A m \in received : m.id < queue[k].id
                      /\ \A i \in 1 .. k - 1 : queue[i].id < queue[k].id
    BY DEF TakenInOrder
  <2>1. arrived \in Nat /\ Len(queue) \in Nat /\ \A m \in received : m.id \in Nat
    BY MessagesAssumption DEF TypeOK, Messages
  <2>2. queue[k].id = arrived - Len(queue) + k
    BY DEF OrderInv
  <2>3. ASSUME NEW m \in received PROVE m.id < queue[k].id
    <3>1. m.id <= arrived - Len(queue) /\ m.id \in Nat
      BY <2>1, <2>3 DEF OrderInv
    <3> QED
      BY <2>1, <2>2, <3>1
  <2>4. ASSUME NEW i \in 1 .. k - 1 PROVE queue[i].id < queue[k].id
    <3>1. i \in 1 .. Len(queue)
      BY <2>1, <2>4
    <3>2. queue[i].id = arrived - Len(queue) + i
      BY <3>1 DEF OrderInv
    <3> QED
      BY <2>1, <2>2, <2>4, <3>1, <3>2
  <2> QED
    BY <2>3, <2>4
<1> QED
  BY <1>1, <1>2, OrderStep, TypeCorrect, PTL DEF Spec
=============================================================================
