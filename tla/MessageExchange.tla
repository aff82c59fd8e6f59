--------------------------- MODULE MessageExchange ---------------------------
(***************************************************************************)
(* Sending messages over a data channel, and the onMessage listeners at    *)
(* its other end.                                                          *)
(*                                                                         *)
(* A client sends from one thread and paces itself: before a message it    *)
(* compares bufferedAmount() with its threshold and, above it, waits for   *)
(* onBufferedAmountLow.  Its binary messages are what is between position  *)
(* and limit of a direct buffer, which sendMessage reads in two steps; a   *)
(* text is copied into a buffer of its own, with a terminator, and passed  *)
(* with the length -1.  At the other end handle_channel_message tells a    *)
(* text by its negative size, and gives the listeners a string, or one     *)
(* buffer that they share.  A callback that finds no user pointer, no      *)
(* environment of the VM or no channel in the map of the peer comes to     *)
(* nothing, and nobody is told.                                            *)
(*                                                                         *)
(* Of the library the model assumes a reliable and ordered channel, one    *)
(* callback of a channel at a time, and that the low event is raised when  *)
(* the buffered amount falls from above the threshold.                     *)
(***************************************************************************)
EXTENDS Integers, Sequences

CONSTANTS Capacity,      \* of the direct buffer the client sends from
          TextLengths,   \* lengths of its texts
          Thresholds,    \* thresholds it sets
          ListenerCount, \* onMessage listeners at the other end
          MaxMessages    \* bound: messages the client tries to send

ASSUME ExchangeAssumption ==
  /\ Capacity \in Nat
  /\ TextLengths \subseteq Nat
  /\ Thresholds \subseteq Nat
  /\ ListenerCount \in Nat
  /\ MaxMessages \in Nat

VARIABLES
  sender,    \* where the sending thread stands
  data,      \* the buffer of the message being sent
  tries,     \* messages the client has tried to send
  mark,      \* the threshold the client has asked for
  threshold, \* the threshold of the library
  hooked,    \* whether the callback for the low event is installed
  raised,    \* whether a low event is on its way
  missed,    \* history: whether the last low event came to nothing
  signal,    \* set by the client's onBufferedAmountLow listener
  flag,      \* DataChannel.closed
  deleted,   \* whether the native channel is deleted
  amount,    \* bufferedAmount
  buffered,  \* messages in the send buffer of the library
  inbox,     \* messages that have reached the other end
  handler,   \* the message handle_channel_message is at
  accepted,  \* history: the messages the library has accepted
  seen       \* history: per listener, what each message has come to

nearVars == <<sender, data, tries, mark, signal>>
channelVars == <<threshold, hooked, raised, missed, flag, deleted, amount, buffered>>
farVars == <<inbox, handler, seen>>
vars == <<nearVars, channelVars, farVars, accepted>>

Listener == 1 .. ListenerCount

NoData == [text |-> FALSE, offset |-> 0, length |-> 0, position |-> 0, limit |-> 0,
           room |-> 0, content |-> 0, moved |-> FALSE, wide |-> FALSE]
NoMessage == [stage |-> 0]

(* What a message that is lost on the way comes to, for a listener         *)
Nothing == [came |-> FALSE, text |-> FALSE, null |-> FALSE, size |-> 0, reads |-> FALSE]

Init ==
  /\ sender = "idle"
  /\ data = NoData
  /\ tries = 0
  /\ mark = 0
  /\ threshold = 0
  /\ hooked = FALSE
  /\ raised = FALSE
  /\ missed = FALSE
  /\ signal = FALSE
  /\ flag = FALSE
  /\ deleted = FALSE
  /\ amount = 0
  /\ buffered = <<>>
  /\ inbox = <<>>
  /\ handler = NoMessage
  /\ accepted = <<>>
  /\ seen = [l \in Listener |-> <<>>]

-----------------------------------------------------------------------------
(* The library: the size of a text is negative and counts the terminator.  *)

Reported(m) == IF m.text THEN - (m.size + 1) ELSE m.size

(* What the library takes: `length` bytes, or up to the terminator. *)
MessageOf(d) ==
  [text |-> d.length < 0, from |-> d.offset, room |-> d.room, content |-> d.content,
   moved |-> d.moved, asText |-> d.text, wide |-> d.wide,
   size |-> IF d.length < 0 THEN d.content ELSE d.length]

-----------------------------------------------------------------------------
(* Faulty variants, each the change a plausible bug would make; no action  *)
(* below uses them.                                                        *)

InBoundsAlways == TRUE

HandleZeroAsText(decoded) ==  \* tests size <= 0
  /\ handler = NoMessage
  /\ inbox # <<>>
  /\ decoded = Head(inbox).size
  /\ handler' = [stage |-> 1, text |-> Reported(Head(inbox)) <= 0, null |-> FALSE,
                 size |-> decoded, read |-> 0]
  /\ inbox' = Tail(inbox)
  /\ UNCHANGED <<nearVars, channelVars, accepted, seen>>

SetIgnoresZero(n) ==  \* 0 is taken for no threshold
  /\ sender = "idle"
  /\ ~flag
  /\ mark' = n
  /\ threshold' = IF n = 0 THEN threshold ELSE n
  /\ UNCHANGED <<sender, data, tries, signal, hooked, raised, missed, flag, deleted, amount,
                 buffered, farVars, accepted>>

-----------------------------------------------------------------------------
(* The client paces itself. *)

(* onBufferedAmountLow.register *)
HookLow ==
  /\ ~hooked
  /\ ~flag
  /\ hooked' = TRUE
  /\ UNCHANGED <<nearVars, threshold, raised, missed, flag, deleted, amount, buffered, farVars,
                 accepted>>

SetThreshold(n) ==
  /\ sender = "idle"
  /\ ~flag
  /\ mark' = n
  /\ threshold' = n
  /\ UNCHANGED <<sender, data, tries, signal, hooked, raised, missed, flag, deleted, amount,
                 buffered, farVars, accepted>>

(* bufferedAmount() *)
AskAmount ==
  /\ sender = "idle"
  /\ tries < MaxMessages
  /\ hooked
  /\ ~flag
  /\ sender' = IF amount > mark THEN "wait" ELSE "ready"
  /\ UNCHANGED <<data, tries, mark, signal, channelVars, farVars, accepted>>

Wake ==
  /\ sender = "wait"
  /\ signal
  /\ signal' = FALSE
  /\ sender' = "idle"
  /\ UNCHANGED <<data, tries, mark, channelVars, farVars, accepted>>

-----------------------------------------------------------------------------
(* sendMessage *)

(* sendMessage(ByteBuffer) evaluates data.position(), *)
SendBinary(position, limit) ==
  /\ sender = "ready"
  /\ position <= limit
  /\ data' = [NoData EXCEPT !.offset = position, !.position = position, !.limit = limit,
                            !.room = Capacity, !.content = limit - position]
  /\ sender' = "sized"
  /\ tries' = tries + 1
  /\ UNCHANGED <<mark, signal, channelVars, farVars, accepted>>

(* ... another thread may use the buffer, *)
MoveBuffer(position, limit) ==
  /\ sender = "sized"
  /\ position <= limit
  /\ data' = [data EXCEPT !.position = position, !.limit = limit, !.moved = TRUE]
  /\ UNCHANGED <<sender, tries, mark, signal, channelVars, farVars, accepted>>

(* ... and then data.remaining(). *)
ReadRemaining ==
  /\ sender = "sized"
  /\ data' = [data EXCEPT !.length = data.limit - data.position]
  /\ sender' = "check"
  /\ UNCHANGED <<tries, mark, signal, channelVars, farVars, accepted>>

(* sendMessage(String): the text and a terminator go into a new buffer;    *)
(* the content the library finds ends at the first terminator.  A wide     *)
(* text has characters beyond the 16-bit ones.                             *)
SendText(length, content, wide) ==
  /\ sender = "ready"
  /\ content <= length
  /\ wide => content > 0
  /\ data' = [NoData EXCEPT !.text = TRUE, !.length = -1, !.room = length + 1, !.content = content,
                            !.wide = wide]
  /\ sender' = "check"
  /\ tries' = tries + 1
  /\ UNCHANGED <<mark, signal, channelVars, farVars, accepted>>

(* The call throws: the check of the buffer, the allocator of the client,  *)
(* the check of the flag, of the bounds, or the library.                   *)
Throws(step) ==
  /\ sender = step
  /\ sender' = "idle"
  /\ data' = NoData
  /\ UNCHANGED <<mark, signal, channelVars, farVars, accepted>>

(* The buffer is not a direct one. *)
RejectBuffer == Throws("ready") /\ tries' = tries + 1

AllocateTextFails == Throws("ready") /\ tries' = tries + 1

EnsureNotClosed ==
  /\ sender = "check"
  /\ ~flag
  /\ sender' = "native"
  /\ UNCHANGED <<data, tries, mark, signal, channelVars, farVars, accepted>>

SendOnClosed == flag /\ Throws("check") /\ UNCHANGED tries

(* The offset is not negative: it is the position of a buffer. *)
InBounds ==
  /\ data.offset <= data.room
  /\ data.length >= 0 => data.offset + data.length <= data.room

RejectBounds == ~InBounds /\ Throws("native") /\ UNCHANGED tries

(* The channel is deleted or not open, or the message is too large for it. *)
SendFails == InBounds /\ Throws("native") /\ UNCHANGED tries

SendMessage ==
  /\ sender = "native"
  /\ InBounds
  /\ ~deleted
  /\ LET m == MessageOf(data) IN
       /\ accepted' = Append(accepted, m)
       /\ buffered' = Append(buffered, m)
       /\ amount' = amount + m.size
  /\ sender' = "idle"
  /\ data' = NoData
  /\ UNCHANGED <<tries, mark, signal, threshold, hooked, raised, missed, flag, deleted, farVars>>

-----------------------------------------------------------------------------
(* The library sends what is buffered, and raises the low event. *)

Drain ==
  /\ buffered # <<>>
  /\ ~deleted
  /\ LET m == Head(buffered)
         falls == hooked /\ amount > threshold /\ amount - m.size <= threshold
     IN
       /\ amount' = amount - m.size
       /\ raised' = (raised \/ falls)
       /\ missed' = (missed /\ ~falls)
       /\ inbox' = Append(inbox, m)
  /\ buffered' = Tail(buffered)
  /\ UNCHANGED <<nearVars, threshold, hooked, flag, deleted, handler, seen, accepted>>

(* handle_channel_buffered_amount_low, onChannelBufferedAmountLow, and the *)
(* listener of the client                                                  *)
HandleLow ==
  /\ raised
  /\ raised' = FALSE
  /\ signal' = TRUE
  /\ UNCHANGED <<sender, data, tries, mark, threshold, hooked, missed, flag, deleted, amount,
                 buffered, farVars, accepted>>

(* ... or not: no user pointer, a thread that cannot be attached, or no    *)
(* such channel in the map.                                                *)
MissLow ==
  /\ raised
  /\ raised' = FALSE
  /\ missed' = TRUE
  /\ UNCHANGED <<nearVars, threshold, hooked, flag, deleted, amount, buffered, farVars, accepted>>

(* DataChannel.close, in another thread *)
FlagClosed ==
  /\ ~flag
  /\ flag' = TRUE
  /\ UNCHANGED <<nearVars, threshold, hooked, raised, missed, deleted, amount, buffered, farVars,
                 accepted>>

(* No callback is called after the deletion. *)
DeleteChannel ==
  /\ flag
  /\ ~deleted
  /\ deleted' = TRUE
  /\ hooked' = FALSE
  /\ raised' = FALSE
  /\ UNCHANGED <<nearVars, threshold, missed, flag, amount, buffered, farVars, accepted>>

-----------------------------------------------------------------------------
(* The other end: handle_channel_message and the listeners *)

(* NewStringUTF copies a text, of which it expects the modified UTF-8 of    *)
(* JNI: what it makes of a wide one, which was sent in UTF-8, is not        *)
(* defined.  NewDirectByteBuffer wraps the message.                         *)
HandleMessage(decoded) ==
  /\ handler = NoMessage
  /\ inbox # <<>>
  /\ Head(inbox).wide \/ decoded = Head(inbox).size
  /\ handler' = [stage |-> 1, text |-> Reported(Head(inbox)) < 0, null |-> FALSE,
                 size |-> decoded, read |-> 0]
  /\ inbox' = Tail(inbox)
  /\ UNCHANGED <<nearVars, channelVars, accepted, seen>>

(* NewStringUTF or NewDirectByteBuffer fails.  Java is called with null     *)
(* while the exception is pending, which JNI leaves undefined: the          *)
(* listeners are given null, or nobody is called.                           *)
HandleNull ==
  /\ handler = NoMessage
  /\ inbox # <<>>
  /\ handler' = [stage |-> 1, text |-> Reported(Head(inbox)) < 0, null |-> TRUE,
                 size |-> 0, read |-> 0]
  /\ inbox' = Tail(inbox)
  /\ UNCHANGED <<nearVars, channelVars, accepted, seen>>

(* The message comes to nothing: no user pointer, a thread that cannot be  *)
(* attached, no such channel in the map, listeners that are closed, or the *)
(* failure above.                                                          *)
MissMessage ==
  /\ handler = NoMessage
  /\ inbox # <<>>
  /\ inbox' = Tail(inbox)
  /\ seen' = [l \in Listener |-> Append(seen[l], Nothing)]
  /\ UNCHANGED <<nearVars, channelVars, handler, accepted>>

(* onText or onBinary of the next listener, which may read the buffer.     *)
CallListener(reads) ==
  /\ handler.stage \in Listener
  /\ reads => ~handler.text /\ ~handler.null
  /\ seen' = [seen EXCEPT ![handler.stage] =
       Append(@, [came |-> TRUE, text |-> handler.text, null |-> handler.null,
                  size |-> handler.size - handler.read, reads |-> reads])]
  /\ handler' = [handler EXCEPT !.stage = @ + 1,
                                !.read = IF reads THEN handler.size ELSE @]
  /\ UNCHANGED <<nearVars, channelVars, inbox, accepted>>

(* The library frees the message. *)
HandlerReturns ==
  /\ handler.stage = ListenerCount + 1
  /\ handler' = NoMessage
  /\ UNCHANGED <<nearVars, channelVars, inbox, seen, accepted>>

-----------------------------------------------------------------------------
Positions == 0 .. Capacity

StartSend ==
  \/ \E position, limit \in Positions : SendBinary(position, limit)
  \/ \E length \in TextLengths : \E content \in 0 .. length, wide \in BOOLEAN :
       SendText(length, content, wide)
  \/ RejectBuffer \/ AllocateTextFails

SendStep ==
  \/ ReadRemaining \/ EnsureNotClosed \/ SendOnClosed
  \/ RejectBounds \/ SendFails \/ SendMessage

Far ==
  \/ inbox # <<>> /\ \E decoded \in 0 .. Head(inbox).size : HandleMessage(decoded)
  \/ HandleNull \/ MissMessage
  \/ \E reads \in BOOLEAN : CallListener(reads)
  \/ HandlerReturns

Next ==
  \/ HookLow
  \/ \E n \in Thresholds : SetThreshold(n)
  \/ AskAmount \/ Wake \/ StartSend \/ SendStep
  \/ \E position, limit \in Positions : MoveBuffer(position, limit)
  \/ Drain \/ HandleLow \/ MissLow \/ FlagClosed \/ DeleteChannel
  \/ Far

Spec == Init /\ [][Next]_vars

(* Calls go on, an open channel sends what is buffered and calls back; the *)
(* callback may come to nothing each time.                                 *)
Fairness ==
  /\ WF_vars(Wake)
  /\ WF_vars(SendStep)
  /\ WF_vars(Drain)
  /\ WF_vars(HandleLow \/ MissLow)
  /\ WF_vars(Far)

FairSpec == Spec /\ Fairness

-----------------------------------------------------------------------------
(* Properties *)

Data == [text : BOOLEAN, offset : Nat, length : Int, position : Nat, limit : Nat,
         room : Nat, content : Nat, moved : BOOLEAN, wide : BOOLEAN]

Messages == [text : BOOLEAN, from : Nat, room : Nat, content : Nat, moved : BOOLEAN,
             asText : BOOLEAN, wide : BOOLEAN, size : Nat]

Calls == [came : BOOLEAN, text : BOOLEAN, null : BOOLEAN, size : Int, reads : BOOLEAN]

Handlers == [stage : 1 .. ListenerCount + 1, text : BOOLEAN, null : BOOLEAN, size : Nat, read : Nat]

TypeOK ==
  /\ sender \in {"idle", "wait", "ready", "sized", "check", "native"}
  /\ data \in Data
  /\ tries \in Nat /\ mark \in Nat /\ threshold \in Nat /\ amount \in Int
  /\ signal \in BOOLEAN /\ hooked \in BOOLEAN /\ raised \in BOOLEAN /\ missed \in BOOLEAN
  /\ flag \in BOOLEAN /\ deleted \in BOOLEAN
  /\ buffered \in Seq(Messages)
  /\ inbox \in Seq(Messages)
  /\ handler \in {NoMessage} \cup Handlers
  /\ accepted \in Seq(Messages)
  /\ seen \in [Listener -> Seq(Calls)]

(* The library reads the client's memory only between the start and the    *)
(* end of the buffer it was given, even if another thread moves position   *)
(* and limit of the buffer between the two reads of sendMessage.           *)
SentWithinBuffer ==
  \A k \in DOMAIN accepted :
    LET m == accepted[k] IN
      m.from + (IF m.text THEN m.size + 1 ELSE m.size) <= m.room

(* The listeners are called with the messages in the order they were sent, *)
(* each as the text or the binary it was sent as.  A message may be lost   *)
(* on the way, or come as null when JNI fails, but then it is for all the  *)
(* listeners: none of them gets what another did not.  Otherwise a text of *)
(* 16-bit characters reaches every listener whole, but for what follows a  *)
(* terminator inside it.  So does a binary message, sent from a buffer     *)
(* that nobody else moved, until some listener reads the one they share.   *)
SeenAsSent ==
  \A l \in Listener : \A k \in DOMAIN seen[l] :
    LET m == accepted[k]
        c == seen[l][k]
    IN
      /\ k <= Len(accepted)
      /\ \A j \in 1 .. l - 1 : seen[j][k].came = c.came /\ seen[j][k].null = c.null
      /\ c.came => c.text = m.asText
      /\ c.came /\ ~c.null =>
           \/ m.moved \/ m.wide
           \/ c.size = m.content
           \/ ~m.asText /\ \E j \in 1 .. l - 1 : seen[j][k].reads

(* As long as the channel is open, a sender that waits has been told, is   *)
(* about to be, or waits for an amount above the threshold of the library, *)
(* which is the one it has set last.  Nothing else leaves it waiting but a *)
(* last low event that came to nothing in the callback.                    *)
NoLostWakeup ==
  sender = "wait" /\ ~flag =>
    /\ threshold = mark
    /\ hooked
    /\ signal \/ raised \/ amount > threshold \/ missed

(* The one way an open channel leaves its sender waiting: the event was    *)
(* raised, and came to nothing, and there is nothing left to raise another.*)
Abandoned == missed /\ ~raised /\ amount <= threshold

(* A sender that found too much buffered goes on, unless the channel is    *)
(* closed or the event it waits for came to nothing in the callback: the   *)
(* low event is raised for the threshold it has set last.                  *)
SenderProceeds == sender = "wait" ~> sender # "wait" \/ flag \/ Abandoned
=============================================================================
