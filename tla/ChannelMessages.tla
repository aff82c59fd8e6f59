--------------------------- MODULE ChannelMessages ---------------------------
(***************************************************************************)
(* Receiving messages from a data channel without an onMessage listener.   *)
(*                                                                         *)
(* DataChannel.receiveMessage() asks the native library for the size of    *)
(* the first pending message, allocates a buffer and then takes the        *)
(* message; receiveMessage(ByteBuffer) takes it into a buffer of the       *)
(* client or says that the buffer is too small.  Between the two calls of  *)
(* the first the queue may change, and the channel may be closed.          *)
(*                                                                         *)
(* The queue belongs to the external library.  A call with a buffer takes  *)
(* the first message if the buffer holds it; one without a buffer leaves   *)
(* it.  The size of a text is reported as a negative number, the           *)
(* convention handle_channel_message relies on.                            *)
(***************************************************************************)
EXTENDS Integers, Sequences

CONSTANTS Receivers,   \* threads that receive from the channel
          Sizes,       \* sizes messages may have
          Capacities,  \* room in the buffers clients bring
          MaxMessages  \* bound: messages the remote side sends

ASSUME MessagesAssumption ==
  /\ Sizes \subseteq Nat
  /\ Capacities \subseteq Nat
  /\ MaxMessages \in Nat

VARIABLES
  queue,    \* the pending messages
  arrived,  \* how many messages have arrived
  channel,  \* "open", "flagged" by DataChannel.close, "deleted"
  call,     \* per receiver: the call it is in
  result,   \* per receiver: what its last call returned, if it has ended
  received, \* history: the messages that went into a buffer of a client
  overtaken \* history: receivers since whose call began another took a message

vars == <<queue, arrived, channel, call, result, received, overtaken>>

Messages == [id : 1 .. MaxMessages, size : Sizes, text : BOOLEAN]

Idle == [step |-> "idle", size |-> 0]
NoResult == [kind |-> "none", value |-> 0, from |-> 0]

Init ==
  /\ queue = <<>>
  /\ arrived = 0
  /\ channel = "open"
  /\ call = [r \in Receivers |-> Idle]
  /\ result = [r \in Receivers |-> NoResult]
  /\ received = {}
  /\ overtaken = {}

-----------------------------------------------------------------------------
(* The native queue and the end of a call *)

Pending == channel # "deleted" /\ queue # <<>>

Reported(m) == IF m.text THEN - m.size ELSE m.size

Fits(room) == Head(queue).size <= room

(* The message leaves the queue for the buffer of r. *)
Take(r) ==
  /\ queue' = Tail(queue)
  /\ received' = received \cup {Head(queue)}
  /\ overtaken' = overtaken \cup (Receivers \ {r})

(* The call of r ends; `from` is the size of the message it took, if any.  *)
Return(r, kind, value, from) ==
  /\ call' = [call EXCEPT ![r] = Idle]
  /\ result' = [result EXCEPT ![r] = [kind |-> kind, value |-> value, from |-> from]]
  /\ UNCHANGED <<arrived, channel>>

(* A call of r begins. *)
Start(r, c) ==
  /\ call' = [call EXCEPT ![r] = c]
  /\ result' = [result EXCEPT ![r] = NoResult]
  /\ overtaken' = overtaken \ {r}
  /\ UNCHANGED <<queue, arrived, channel, received>>

LeaveQueue == UNCHANGED <<queue, received, overtaken>>

At(r, step) == call[r].step = step

-----------------------------------------------------------------------------
(* Faulty variants, each the change a plausible bug would make; no action  *)
(* below uses them.                                                        *)

AllocateRounded(r) ==  \* the buffer is larger than the message
  /\ At(r, "query") /\ Pending /\ Reported(Head(queue)) > 0
  /\ call' = [call EXCEPT ![r] = [step |-> "fetch", size |-> Head(queue).size + 1]]
  /\ UNCHANGED <<queue, arrived, channel, result, received, overtaken>>

QueryThrows(r) ==  \* the size is read with a buffer, which takes the message
  /\ At(r, "query") /\ Pending /\ Reported(Head(queue)) # 0
  /\ queue' = Tail(queue) /\ UNCHANGED <<received, overtaken>>
  /\ Return(r, "exception", 0, 0)

FetchPeeks(r) ==  \* the second call has no buffer either
  /\ At(r, "fetch") /\ Pending /\ Fits(call[r].size)
  /\ LeaveQueue
  /\ Return(r, "buffer", call[r].size, Head(queue).size)

TooSmallTellsRoom(r) ==  \* the negative capacity is returned
  /\ At(r, "into") /\ Pending /\ ~Fits(call[r].size)
  /\ LeaveQueue
  /\ Return(r, "count", - call[r].size, 0)

-----------------------------------------------------------------------------
(* The remote side and the closing thread *)

(* The size of a text counts its terminator. *)
Arrive(size, text) ==
  /\ arrived < MaxMessages
  /\ text => size > 0
  /\ channel # "deleted"
  /\ arrived' = arrived + 1
  /\ queue' = Append(queue, [id |-> arrived + 1, size |-> size, text |-> text])
  /\ UNCHANGED <<channel, call, result, received, overtaken>>

(* DataChannel.close sets its flag before it deletes the handle. *)
FlagClosed ==
  /\ channel = "open"
  /\ channel' = "flagged"
  /\ UNCHANGED <<queue, arrived, call, result, received, overtaken>>

DeleteChannel ==
  /\ channel = "flagged"
  /\ channel' = "deleted"
  /\ queue' = <<>>
  /\ UNCHANGED <<arrived, call, result, received, overtaken>>

-----------------------------------------------------------------------------
(* receiveMessage() *)

(* ensureNotClosed *)
StartReceive(r) ==
  /\ At(r, "idle")
  /\ channel = "open"
  /\ Start(r, [step |-> "query", size |-> 0])

(* WRAP_ERROR throws if nothing is pending or the handle is gone; of a     *)
(* text, allocate refuses the negative size.                               *)
QueryThrowsException(r) ==
  /\ At(r, "query")
  /\ Pending => Reported(Head(queue)) < 0
  /\ LeaveQueue
  /\ Return(r, "exception", 0, 0)

(* A message of size 0 is reported as no message. *)
QueryFindsZero(r) ==
  /\ At(r, "query")
  /\ Pending
  /\ Reported(Head(queue)) = 0
  /\ LeaveQueue
  /\ Return(r, "empty", 0, 0)

Allocate(r) ==
  /\ At(r, "query")
  /\ Pending
  /\ Reported(Head(queue)) > 0
  /\ call' = [call EXCEPT ![r] = [step |-> "fetch", size |-> Head(queue).size]]
  /\ UNCHANGED <<queue, arrived, channel, result, received, overtaken>>

(* The allocator of the client throws, or its buffer is not direct. *)
AllocateFails(r) ==
  /\ At(r, "query")
  /\ Pending
  /\ Reported(Head(queue)) # 0
  /\ LeaveQueue
  /\ Return(r, "exception", 0, 0)

(* Another receiver was faster: RTC_ERR_NOT_AVAIL yields no message, *)
FetchNothing(r) ==
  /\ At(r, "fetch")
  /\ channel # "deleted"
  /\ queue = <<>>
  /\ LeaveQueue
  /\ Return(r, "empty", 0, 0)

(* ... any other error is thrown, *)
FetchFails(r) ==
  /\ At(r, "fetch")
  /\ Pending => ~Fits(call[r].size)
  /\ queue = <<>> => channel = "deleted"
  /\ LeaveQueue
  /\ Return(r, "exception", 0, 0)

(* ... and a message that fits is returned in the whole buffer: the size   *)
(* the second call reports is not looked at.                               *)
FetchMessage(r) ==
  /\ At(r, "fetch")
  /\ Pending
  /\ Fits(call[r].size)
  /\ Take(r)
  /\ Return(r, "buffer", call[r].size, Head(queue).size)

-----------------------------------------------------------------------------
(* receiveMessage(ByteBuffer) *)

StartReceiveInto(r, room) ==
  /\ At(r, "idle")
  /\ channel = "open"
  /\ Start(r, [step |-> "into", size |-> room])

IntoNothing(r) ==
  /\ At(r, "into")
  /\ channel # "deleted"
  /\ queue = <<>>
  /\ LeaveQueue
  /\ Return(r, "count", 0, 0)

IntoTooSmall(r) ==
  /\ At(r, "into")
  /\ Pending
  /\ ~Fits(call[r].size)
  /\ LeaveQueue
  /\ Return(r, "count", - Reported(Head(queue)), 0)

IntoFails(r) ==
  /\ At(r, "into")
  /\ channel = "deleted"
  /\ LeaveQueue
  /\ Return(r, "exception", 0, 0)

IntoMessage(r) ==
  /\ At(r, "into")
  /\ Pending
  /\ Fits(call[r].size)
  /\ Take(r)
  /\ Return(r, "count", Reported(Head(queue)), Head(queue).size)

-----------------------------------------------------------------------------
Query(r) ==
  QueryThrowsException(r) \/ QueryFindsZero(r) \/ Allocate(r) \/ AllocateFails(r)

Fetch(r) == FetchNothing(r) \/ FetchFails(r) \/ FetchMessage(r)

Into(r) == IntoNothing(r) \/ IntoTooSmall(r) \/ IntoFails(r) \/ IntoMessage(r)

Next ==
  \/ \E size \in Sizes, text \in BOOLEAN : Arrive(size, text)
  \/ FlagClosed
  \/ DeleteChannel
  \/ \E r \in Receivers :
       \/ StartReceive(r)
       \/ \E room \in Capacities : StartReceiveInto(r, room)
       \/ Query(r) \/ Fetch(r) \/ Into(r)

Spec == Init /\ [][Next]_vars

(* A client that polls with receiveMessage() for as long as the channel is *)
(* open, and an allocator that does not always fail.                       *)
Polling ==
  \A r \in Receivers :
    /\ WF_vars(Query(r) \/ Fetch(r) \/ Into(r))
    /\ SF_vars(StartReceive(r))
    /\ SF_vars(Allocate(r))

PollingSpec == Spec /\ Polling

-----------------------------------------------------------------------------
(* Properties *)

Rooms == Sizes \cup Capacities \cup {0}

TypeOK ==
  /\ queue \in Seq(Messages)
  /\ arrived \in 0 .. MaxMessages
  /\ channel \in {"open", "flagged", "deleted"}
  /\ call \in [Receivers -> [step : {"idle", "query", "fetch", "into"}, size : Rooms]]
  /\ result \in [Receivers ->
       [kind  : {"none", "empty", "exception", "buffer", "count"},
        value : Rooms \cup {- s : s \in Sizes},
        from  : Sizes \cup {0}]]
  /\ received \subseteq Messages
  /\ overtaken \subseteq Receivers

(* receiveMessage() returns the message and nothing else: the buffer ends  *)
(* where the message it was filled with ends, unless another receiver took *)
(* the message whose size it has.                                          *)
BufferIsMessage ==
  \A r \in Receivers \ overtaken :
    result[r].kind = "buffer" => result[r].value = result[r].from

(* Until the channel is deleted, every message that arrived is pending or  *)
(* went into a buffer of a client: no failure between the two native       *)
(* calls, no buffer that is too small and no other receiver loses one.     *)
NothingLost ==
  channel # "deleted" =>
    \A i \in 1 .. arrived :
      \/ \E k \in 1 .. Len(queue) : queue[k].id = i
      \/ \E m \in received : m.id = i

(* Receivers take the messages in the order they arrived, and none twice:  *)
(* what was received came before all that is pending, and the next to be   *)
(* taken is the one after.                                                 *)
TakenInOrder ==
  channel # "deleted" =>
    \A k \in 1 .. Len(queue) :
      /\ \A m \in received : m.id < queue[k].id
      /\ \A i \in 1 .. k - 1 : queue[i].id < queue[k].id

(* "The bytes received or the negative size of the message if the buffer   *)
(* was too small": a negative count that comes without a message is the    *)
(* size of the first one pending, so that a second call with that much     *)
(* room receives it.                                                       *)
NegativeIsPendingSize ==
  \A r \in Receivers \ overtaken :
    result[r].kind = "count" /\ result[r].value < 0 /\ result[r].from = 0 /\ Pending
      => result[r].value = - Head(queue).size

(* A client that polls receives every message, until one that              *)
(* receiveMessage() does not take, a text or an empty one, is in the way.  *)
EveryMessageReceived ==
  \A i \in 1 .. MaxMessages :
    arrived >= i ~>
      \/ channel # "open"
      \/ \E m \in received : m.id = i
      \/ \E k \in 1 .. Len(queue) : queue[k].id <= i /\ Reported(queue[k]) <= 0
=============================================================================
