------------------------- MODULE MessageExchangeProofs -------------------------
(***************************************************************************)
(* What holds of MessageExchange for any buffer, texts, thresholds and     *)
(* number of listeners and messages: only the buffer of the client is      *)
(* sent, and what comes to the listeners is what was sent, in its order.   *)
(*                                                                         *)
(* The invariant follows a message on its way.  DataInv: what the sending  *)
(* call knows of its buffer at each step.  MessagesInv: what is thereby    *)
(* true of every message the library accepts.  OrderInv: the messages that *)
(* were accepted are those the listeners have had, the one that is being   *)
(* handled, those that have arrived and those still buffered, in this      *)
(* order, where one that was lost on the way counts as had by all.         *)
(* SeenInv: what the listeners have had and the handler has.               *)
(***************************************************************************)
EXTENDS MessageExchange, SequenceTheorems, TLAPS

DataInv ==
  /\ sender = "sized" =>
       ~data.text /\ (data.moved \/ data.content = data.limit - data.position)
                  /\ data.position <= data.limit
  /\ sender \in {"check", "native"} =>
       /\ data.text => /\ data.length = -1 /\ data.offset = 0 /\ ~data.moved
                       /\ data.content + 1 <= data.room
       /\ ~data.text => data.length >= 0 /\ (data.moved \/ data.length = data.content)

Good(m) ==
  /\ m.from + (IF m.text THEN m.size + 1 ELSE m.size) <= m.room
  /\ m.text = m.asText
  /\ m.moved \/ m.size = m.content

MessagesInv == \A k \in 1 .. Len(accepted) : Good(accepted[k])

(* Messages that have been given to the handler                            *)
Passed == Len(accepted) - Len(buffered) - Len(inbox)

OrderInv ==
  /\ Passed >= 0
  /\ \A k \in 1 .. Len(inbox) : inbox[k] = accepted[Passed + k]
  /\ \A k \in 1 .. Len(buffered) : buffered[k] = accepted[Passed + Len(inbox) + k]

Handling == handler # NoMessage

(* Listeners the handler has come to have had one message more.  One that  *)
(* came to nothing counts for all of them.                                 *)
CountInv ==
  /\ Handling => Passed >= 1
  /\ \A l \in Listener :
       Len(seen[l]) = IF Handling /\ l >= handler.stage THEN Passed - 1 ELSE Passed

ReadBefore(l, k) == \E j \in Listener : j < l /\ k <= Len(seen[j]) /\ seen[j][k].reads

(* A message is lost, or null, for all the listeners or for none. *)
Alike(l, k) ==
  \A j \in Listener : j < l => /\ seen[j][k].came = seen[l][k].came
                             /\ seen[j][k].null = seen[l][k].null

(* What listener l was given of message k.                                 *)
CallOK(l, k) ==
  LET m == accepted[k] IN
    /\ Alike(l, k)
    /\ seen[l][k].came => seen[l][k].text = m.asText
    /\ seen[l][k].came /\ ~seen[l][k].null =>
         \/ m.moved \/ m.wide
         \/ seen[l][k].size = m.content
         \/ ~m.asText /\ ReadBefore(l, k)

HandlerInv ==
  Handling =>
    LET m == accepted[Passed] IN
      /\ handler.text = m.text
      /\ handler.null \/ m.wide \/ handler.size = m.size
      /\ handler.read = 0 \/ (~m.text /\ ReadBefore(handler.stage, Passed))
      /\ \A j \in Listener : j < handler.stage =>
           seen[j][Passed].came = TRUE /\ seen[j][Passed].null = handler.null

SeenInv == \A l \in Listener : \A k \in 1 .. Len(seen[l]) : CallOK(l, k)

ExchangeInv ==
  TypeOK /\ DataInv /\ MessagesInv /\ OrderInv /\ CountInv /\ HandlerInv /\ SeenInv

-----------------------------------------------------------------------------
(* What a step sets in the buffer. *)
LEMMA NoDataType ==
  /\ NoData \in Data
  /\ NoData.text = FALSE /\ NoData.moved = FALSE /\ NoData.offset = 0
BY DEF NoData, Data

LEMMA BinaryData ==
  ASSUME NEW position \in Nat, NEW limit \in Nat, limit - position \in Nat, Capacity \in Nat,
         SendBinary(position, limit)
  PROVE  /\ data' \in Data /\ data'.text = FALSE
         /\ data'.position = position /\ data'.limit = limit /\ data'.content = limit - position
<1>1. data' \in Data
  BY NoDataType DEF SendBinary, Data
<1>2. data'.text = FALSE
  BY DEF SendBinary, NoData, Data
<1>3. data'.limit = limit /\ data'.position = position /\ data'.content = limit - position
  BY DEF SendBinary, NoData, Data
<1> QED
  BY <1>1, <1>2, <1>3

TextFrom(d, t, n, r, c, w) ==
  [d EXCEPT !.text = t, !.length = n, !.room = r, !.content = c, !.wide = w]

LEMMA TextType ==
  ASSUME NEW d \in Data, NEW t \in BOOLEAN, NEW n \in Int, NEW r \in Nat,
         NEW c \in Nat, NEW w \in BOOLEAN
  PROVE  TextFrom(d, t, n, r, c, w) \in Data
BY DEF TextFrom, Data

LEMMA TextData ==
  ASSUME NEW length \in Nat, NEW content \in Nat, NEW wide \in BOOLEAN,
         SendText(length, content, wide)
  PROVE  /\ data' \in Data /\ data'.text = TRUE /\ data'.moved = FALSE
         /\ data'.length = -1 /\ data'.offset = 0 /\ data'.content = content
         /\ data'.room = length + 1
<1>1. data' \in Data
  <2>1. length + 1 \in Nat /\ -1 \in Int /\ TRUE \in BOOLEAN
    OBVIOUS
  <2>2. data' = TextFrom(NoData, TRUE, -1, length + 1, content, wide)
    BY DEF SendText, TextFrom
  <2> QED
    BY <2>1, <2>2, NoDataType, TextType
<1>2. data'.text = TRUE
  BY DEF SendText, NoData, Data
<1>3. data'.moved = FALSE
  BY DEF SendText, NoData, Data
<1>4. /\ data'.length = -1 /\ data'.offset = 0 /\ data'.content = content
      /\ data'.room = length + 1
  BY DEF SendText, NoData, Data
<1> QED
  BY <1>1, <1>2, <1>3, <1>4

LEMMA MovedData ==
  ASSUME NEW position \in Nat, NEW limit \in Nat, data \in Data, MoveBuffer(position, limit)
  PROVE  /\ data' \in Data /\ data'.text = data.text /\ data'.moved = TRUE
         /\ data'.position = position /\ data'.limit = limit
<1>1. data' \in Data
  BY DEF MoveBuffer, Data
<1>2. data'.text = data.text
  BY DEF MoveBuffer, Data
<1>3. data'.moved = TRUE
  BY DEF MoveBuffer, Data
<1>4. data'.position = position /\ data'.limit = limit
  BY DEF MoveBuffer, Data
<1> QED
  BY <1>1, <1>2, <1>3, <1>4

LEMMA SizedData ==
  ASSUME data \in Data, data.limit - data.position \in Nat, ReadRemaining
  PROVE  /\ data' \in Data /\ data'.text = data.text /\ data'.moved = data.moved
         /\ data'.content = data.content /\ data'.length = data.limit - data.position
<1>1. data' \in Data
  BY DEF ReadRemaining, Data
<1>2. data'.text = data.text
  BY DEF ReadRemaining, Data
<1>3. data'.moved = data.moved
  BY DEF ReadRemaining, Data
<1>4. data'.content = data.content /\ data'.length = data.limit - data.position
  BY DEF ReadRemaining, Data
<1> QED
  BY <1>1, <1>2, <1>3, <1>4

(* It holds when a channel is new. *)
LEMMA InitInv == Init => ExchangeInv
<1> SUFFICES ASSUME Init PROVE ExchangeInv
  OBVIOUS
<1>1. Len(<<>>) = 0 /\ \A S : <<>> \in Seq(S)
  OBVIOUS
<1>2. ListenerCount \in Nat
  BY ExchangeAssumption
<1>3. TypeOK
  <2>1. seen \in [Listener -> Seq(Calls)]
    BY <1>1 DEF Init
  <2>2. buffered \in Seq(Messages) /\ inbox \in Seq(Messages) /\ accepted \in Seq(Messages)
    BY <1>1 DEF Init
  <2>3. tries \in Nat /\ mark \in Nat /\ threshold \in Nat /\ amount \in Int
    BY DEF Init
  <2> QED
    BY <2>1, <2>2, <2>3, NoDataType DEF Init, TypeOK
<1>4. DataInv
  BY DEF Init, DataInv
<1>5. MessagesInv /\ OrderInv
  BY <1>1 DEF Init, MessagesInv, OrderInv, Passed
<1>6. CountInv /\ HandlerInv /\ SeenInv
  <2>0. ~Handling
    BY DEF Init, Handling
  <2>1. Passed = 0
    <3>1. accepted = <<>> /\ buffered = <<>> /\ inbox = <<>>
      BY DEF Init
    <3>2. Len(accepted) = 0 /\ Len(buffered) = 0 /\ Len(inbox) = 0
      BY <3>1
    <3> QED
      BY <3>2 DEF Passed
  <2>2. \A l \in Listener : seen[l] = <<>> /\ Len(seen[l]) = 0
    BY <1>1 DEF Init
  <2> QED
    BY <2>0, <2>1, <2>2 DEF CountInv, HandlerInv, SeenInv
<1> QED
  BY <1>3, <1>4, <1>5, <1>6 DEF ExchangeInv

(* A step that moves no message keeps what is known of the messages.       *)
LEMMA SameMessages ==
  ASSUME ExchangeInv, UNCHANGED <<accepted, buffered, farVars>>, TypeOK', DataInv'
  PROVE  ExchangeInv'
<1>1. UNCHANGED <<accepted, buffered, inbox, handler, seen>>
  BY DEF farVars
<1>2. Passed' = Passed /\ Handling' = Handling
  BY <1>1 DEF Passed, Handling
<1>3. MessagesInv' /\ OrderInv'
  BY <1>1, <1>2 DEF ExchangeInv, MessagesInv, OrderInv
<1>4. CountInv'
  BY <1>1, <1>2 DEF ExchangeInv, CountInv
<1>5. HandlerInv'
  BY <1>1, <1>2 DEF ExchangeInv, HandlerInv, ReadBefore
<1>6. SeenInv'
  BY <1>1 DEF ExchangeInv, SeenInv, CallOK, Alike, ReadBefore
<1> QED
  BY <1>3, <1>4, <1>5, <1>6 DEF ExchangeInv

(* The client paces itself, and closes.                                    *)
LEMMA PaceStep ==
  ASSUME ExchangeInv,
         \/ HookLow \/ AskAmount \/ Wake \/ HandleLow \/ MissLow \/ FlagClosed
         \/ DeleteChannel
         \/ \E n \in Thresholds : SetThreshold(n)
         \/ UNCHANGED vars
  PROVE  ExchangeInv'
<1> USE DEF ExchangeInv
<1>1. CASE HookLow \/ HandleLow \/ MissLow \/ FlagClosed \/ DeleteChannel
  <2>1. UNCHANGED <<sender, data, accepted, buffered, farVars>>
    BY <1>1 DEF HookLow, HandleLow, MissLow, FlagClosed, DeleteChannel, nearVars
  <2>2. TypeOK'
    BY <1>1, <2>1 DEF HookLow, HandleLow, MissLow, FlagClosed, DeleteChannel, nearVars, farVars, TypeOK
  <2> QED
    BY <2>1, <2>2, SameMessages DEF DataInv
<1>2. CASE AskAmount \/ Wake
  <2>1. UNCHANGED <<data, accepted, channelVars, farVars>> /\ sender' \in {"idle", "wait", "ready"}
    BY <1>2 DEF AskAmount, Wake
  <2>2. TypeOK'
    BY <1>2, <2>1 DEF AskAmount, Wake, channelVars, farVars, TypeOK
  <2> QED
    BY <2>1, <2>2, SameMessages DEF DataInv, channelVars
<1>3. ASSUME NEW n \in Thresholds, SetThreshold(n)
      PROVE  ExchangeInv'
  <2>1. UNCHANGED <<sender, data, accepted, buffered, farVars>> /\ n \in Nat
    BY <1>3, ExchangeAssumption DEF SetThreshold
  <2>2. TypeOK'
    BY <1>3, <2>1 DEF SetThreshold, farVars, TypeOK
  <2> QED
    BY <2>1, <2>2, SameMessages DEF DataInv
<1>4. CASE UNCHANGED vars
  <2>1. TypeOK' /\ DataInv' /\ UNCHANGED <<accepted, buffered, farVars>>
    BY <1>4 DEF vars, nearVars, channelVars, farVars, TypeOK, DataInv
  <2> QED
    BY <2>1, SameMessages
<1> QED
  BY <1>1, <1>2, <1>3, <1>4

(* sendMessage, until the library takes the message.                       *)
LEMMA SendingStep ==
  ASSUME ExchangeInv,
         \/ StartSend \/ ReadRemaining \/ EnsureNotClosed
         \/ SendOnClosed \/ RejectBounds \/ SendFails
         \/ \E position, limit \in Positions : MoveBuffer(position, limit)
  PROVE  ExchangeInv'
<1> USE DEF ExchangeInv
<1>0. Capacity \in Nat /\ Positions \subseteq Nat
  BY ExchangeAssumption DEF Positions
<1>1. ASSUME UNCHANGED <<mark, signal, channelVars, farVars, accepted>>,
             sender' \in {"idle", "ready", "sized", "check", "native"},
             data' \in Data, tries' \in Nat, DataInv'
      PROVE  ExchangeInv'
  <2>1. TypeOK'
    BY <1>1 DEF channelVars, farVars, TypeOK
  <2> QED
    BY <1>1, <2>1, SameMessages DEF channelVars
<1>2. ASSUME NEW step, Throws(step), tries' = tries \/ tries' = tries + 1
      PROVE  ExchangeInv'
  BY <1>1, <1>2, NoDataType DEF Throws, DataInv, TypeOK
<1>3. ASSUME NEW position \in Positions, NEW limit \in Positions, SendBinary(position, limit)
      PROVE  ExchangeInv'
  <2>1. /\ position \in Nat /\ limit \in Nat /\ limit - position \in Nat
        /\ position <= limit
    BY <1>0, <1>3 DEF SendBinary
  <2>2. /\ data' \in Data /\ data'.text = FALSE /\ data'.position = position /\ data'.limit = limit
        /\ data'.content = limit - position
    BY <1>0, <1>3, <2>1, BinaryData
  <2>3. DataInv'
    BY <1>3, <2>1, <2>2 DEF SendBinary, DataInv
  <2> QED
    BY <1>1, <1>3, <2>2, <2>3 DEF SendBinary, TypeOK
<1>4. ASSUME NEW position \in Positions, NEW limit \in Positions, MoveBuffer(position, limit)
      PROVE  ExchangeInv'
  <2>1. position \in Nat /\ limit \in Nat /\ position <= limit /\ sender = "sized"
    BY <1>0, <1>4 DEF MoveBuffer
  <2>2. /\ data' \in Data /\ data'.text = data.text /\ data'.moved = TRUE
        /\ data'.position = position /\ data'.limit = limit
    BY <1>4, <2>1, MovedData DEF TypeOK
  <2>3. DataInv'
    BY <1>4, <2>1, <2>2 DEF MoveBuffer, DataInv
  <2> QED
    BY <1>1, <1>4, <2>2, <2>3, <2>1 DEF MoveBuffer, TypeOK
<1>5. CASE ReadRemaining
  <2>1. sender = "sized" /\ data.limit - data.position \in Nat
    BY <1>5 DEF ReadRemaining, DataInv, TypeOK, Data
  <2>2. /\ data' \in Data /\ data'.text = data.text /\ data'.moved = data.moved
        /\ data'.content = data.content /\ data'.length = data.limit - data.position
    BY <1>5, <2>1, SizedData DEF TypeOK
  <2>3. DataInv'
    BY <1>5, <2>1, <2>2 DEF ReadRemaining, DataInv
  <2> QED
    BY <1>1, <1>5, <2>2, <2>3 DEF ReadRemaining, TypeOK
<1>6. CASE EnsureNotClosed
  <2>1. DataInv'
    BY <1>6 DEF EnsureNotClosed, DataInv
  <2> QED
    BY <1>1, <1>6, <2>1 DEF EnsureNotClosed, TypeOK
<1>7. ASSUME NEW length \in TextLengths, NEW content \in 0 .. length, NEW wide \in BOOLEAN,
             SendText(length, content, wide)
      PROVE  ExchangeInv'
  <2>1. length \in Nat /\ content \in Nat /\ content <= length
    BY <1>7, ExchangeAssumption
  <2>2. /\ data' \in Data /\ data'.text = TRUE /\ data'.length = -1 /\ data'.offset = 0
        /\ data'.moved = FALSE /\ data'.content = content /\ data'.room = length + 1
    BY <1>7, <2>1, TextData
  <2>3. DataInv'
    BY <1>7, <2>1, <2>2 DEF SendText, DataInv
  <2> QED
    BY <1>1, <1>7, <2>2, <2>3 DEF SendText, TypeOK
<1>8. CASE \/ SendOnClosed \/ RejectBounds \/ SendFails
          \/ RejectBuffer \/ AllocateTextFails
  BY <1>2, <1>8 DEF SendOnClosed, RejectBounds, SendFails, RejectBuffer, AllocateTextFails
<1> QED
  BY <1>3, <1>4, <1>5, <1>6, <1>7, <1>8 DEF StartSend

(* The message that the library takes is good. *)
LEMMA MessageGood ==
  ASSUME data \in Data, DataInv, sender = "native", InBounds
  PROVE  MessageOf(data) \in Messages /\ Good(MessageOf(data))
<1> DEFINE m == MessageOf(data)
<1>1. data.text = TRUE \/ data.text = FALSE
  BY DEF Data
<1>2. /\ m.from = data.offset /\ m.room = data.room /\ m.content = data.content
      /\ m.size = IF data.length < 0 THEN data.content ELSE data.length
  BY DEF MessageOf
<1>3. /\ data.length < 0 => m.text = TRUE
      /\ ~(data.length < 0) => m.text = FALSE
  <2>1. CASE data.length < 0
    BY <2>1 DEF MessageOf
  <2>2. CASE ~(data.length < 0)
    <3>1. (data.length < 0) = FALSE
      BY <2>2
    <3>2. m.text = (data.length < 0)
      BY Zenon DEF MessageOf
    <3> QED
      BY <3>1, <3>2, Zenon
  <2> QED
    BY <2>1, <2>2
<1>4. m.moved = data.moved
  BY DEF MessageOf
<1>5. m.asText = data.text
  BY DEF MessageOf
<1>6. m \in Messages
  <2>1. (data.length < 0) \in BOOLEAN
    OBVIOUS
  <2>2. (IF data.length < 0 THEN data.content ELSE data.length) \in Nat
    BY DEF Data
  <2> QED
    BY <2>1, <2>2 DEF MessageOf, Messages, Data
<1> HIDE DEF m
<1>9. m.from \in Nat /\ m.room \in Nat /\ m.size \in Nat /\ data.length \in Int
  BY <1>6 DEF Messages, Data
<1>7. ASSUME data.text = TRUE PROVE Good(m)
  <2>1. /\ data.length = -1 /\ data.offset = 0
        /\ data.content + 1 <= data.room
    BY <1>7 DEF DataInv
  <2>2. m.size = data.content
    BY <1>2, <2>1
  <2>3. m.text = TRUE
    BY <1>3, <2>1
  <2>4. m.from + (m.size + 1) <= m.room
    BY <1>2, <1>9, <2>1, <2>2
  <2> QED
    <3>1. m.text = m.asText
      BY <1>5, <1>7, <2>3
    <3>2. m.size = m.content
      BY <1>2, <2>2
    <3>3. m.from + (IF m.text THEN m.size + 1 ELSE m.size) <= m.room
      BY <2>3, <2>4
    <3> QED
      BY <3>1, <3>2, <3>3, Zenon DEF Good
<1>8. ASSUME data.text = FALSE PROVE Good(m)
  <2>1. data.length >= 0 /\ (data.moved \/ data.length = data.content)
    BY <1>8 DEF DataInv
  <2>2. ~(data.length < 0)
    BY <2>1 DEF Data
  <2>3. m.size = data.length
    BY <1>2, <2>2
  <2>4. m.text = FALSE
    BY <1>3, <2>2
  <2>5. m.from + m.size <= m.room
    BY <1>2, <2>1, <2>3 DEF InBounds
  <2>6. m.moved \/ m.size = m.content
    BY <1>2, <1>4, <2>1, <2>3
  <2> QED
    <3>1. m.text = m.asText
      BY <1>5, <1>8, <2>4
    <3>2. m.from + (IF m.text THEN m.size + 1 ELSE m.size) <= m.room
      BY <2>4, <2>5
    <3> QED
      BY <2>6, <3>1, <3>2, Zenon DEF Good
<1> QED
  BY <1>1, <1>6, <1>7, <1>8 DEF m

(* What the counts say of the lengths. *)
LEMMA Counts ==
  ASSUME ExchangeInv
  PROVE  /\ Len(accepted) \in Nat /\ Len(buffered) \in Nat /\ Len(inbox) \in Nat
         /\ Passed \in Nat /\ Passed = Len(accepted) - Len(buffered) - Len(inbox)
         /\ Passed <= Len(accepted)
         /\ \A l \in Listener : seen[l] \in Seq(Calls) /\ Len(seen[l]) \in Nat
                                /\ Len(seen[l]) <= Passed
<1>1. Len(accepted) \in Nat /\ Len(buffered) \in Nat /\ Len(inbox) \in Nat
  BY DEF ExchangeInv, TypeOK
<1>2. Passed \in Nat /\ Passed <= Len(accepted)
  BY <1>1 DEF ExchangeInv, OrderInv, Passed
<1>3. \A l \in Listener : seen[l] \in Seq(Calls) /\ Len(seen[l]) \in Nat
  BY DEF ExchangeInv, TypeOK
<1>4. \A l \in Listener : Len(seen[l]) <= Passed
  BY <1>2, <1>3 DEF ExchangeInv, CountInv
<1> QED
  BY <1>1, <1>2, <1>3, <1>4 DEF Passed

(* Messages that join the end of `accepted` change nothing for the         *)
(* listeners and the handler.                                              *)
LEMMA SameListeners ==
  ASSUME ExchangeInv, UNCHANGED <<handler, seen>>, Passed' = Passed,
         \A k \in 1 .. Len(accepted) : accepted'[k] = accepted[k]
  PROVE  CountInv' /\ HandlerInv' /\ SeenInv'
<1> USE DEF ExchangeInv
<1>1. Handling' = Handling
  BY DEF Handling
<1>2. CountInv'
  BY <1>1 DEF CountInv
<1>3. HandlerInv'
  <2> SUFFICES ASSUME Handling PROVE HandlerInv'
    BY <1>1 DEF HandlerInv
  <2>1. Passed \in 1 .. Len(accepted)
    BY Counts DEF CountInv
  <2>2. accepted'[Passed'] = accepted[Passed]
    BY <2>1
  <2>3. ReadBefore(handler.stage, Passed)' = ReadBefore(handler.stage, Passed)
    BY DEF ReadBefore
  <2> QED
    BY <1>1, <2>2, <2>3 DEF HandlerInv
<1>4. ASSUME NEW l \in Listener, NEW k \in 1 .. Len(seen[l])
      PROVE  CallOK(l, k)'
  <2>1. k \in 1 .. Len(accepted)
    BY Counts
  <2>2. accepted'[k] = accepted[k] /\ CallOK(l, k)
    BY <2>1 DEF SeenInv
  <2> QED
    BY <2>2 DEF CallOK, Alike, ReadBefore
<1> QED
  BY <1>2, <1>3, <1>4 DEF SeenInv

(* The library takes a message, *)
LEMMA SendMessageStep == ASSUME ExchangeInv, SendMessage PROVE ExchangeInv'
<1> USE DEF ExchangeInv
<1> DEFINE m == MessageOf(data)
<1>1. m \in Messages /\ Good(m)
  BY MessageGood DEF SendMessage, TypeOK
<1>2. /\ accepted' = Append(accepted, m) /\ buffered' = Append(buffered, m)
      /\ UNCHANGED <<inbox, handler, seen>> /\ sender' = "idle" /\ data' = NoData
  BY DEF SendMessage, farVars
<1>3. /\ accepted' \in Seq(Messages) /\ Len(accepted') = Len(accepted) + 1
      /\ \A k \in 1 .. Len(accepted) : accepted'[k] = accepted[k]
      /\ accepted'[Len(accepted) + 1] = m
  BY <1>1, <1>2, AppendProperties DEF TypeOK
<1>4. /\ buffered' \in Seq(Messages) /\ Len(buffered') = Len(buffered) + 1
      /\ \A k \in 1 .. Len(buffered) : buffered'[k] = buffered[k]
      /\ buffered'[Len(buffered) + 1] = m
  BY <1>1, <1>2, AppendProperties DEF TypeOK
<1>5. Passed' = Passed /\ Len(inbox') = Len(inbox)
  BY <1>2, <1>3, <1>4, Counts DEF Passed
<1>6. TypeOK'
  <2>1. m.size \in Nat
    BY <1>1 DEF Messages
  <2>2. amount' = amount + m.size
    BY DEF SendMessage
  <2>3. amount' \in Int
    BY <2>1, <2>2 DEF TypeOK
  <2> QED
    BY <1>2, <1>3, <1>4, <2>3, NoDataType DEF SendMessage, TypeOK
<1>7. DataInv'
  BY <1>2 DEF DataInv
<1>8. MessagesInv'
  <2>1. ASSUME NEW k \in 1 .. Len(accepted) + 1
        PROVE  Good(accepted'[k])
    <3>1. CASE k \in 1 .. Len(accepted)
      BY <1>3, <3>1 DEF MessagesInv
    <3>2. CASE k = Len(accepted) + 1
      BY <1>1, <1>3, <3>2
    <3> QED
      BY <3>1, <3>2, Counts
  <2> QED
    BY <1>3, <2>1 DEF MessagesInv, Good
<1>9. OrderInv'
  <2>1. ASSUME NEW k \in 1 .. Len(inbox)
        PROVE  inbox'[k] = accepted'[Passed + k]
    <3>1. Passed + k \in 1 .. Len(accepted)
      BY Counts
    <3> QED
      BY <1>2, <1>3, <3>1 DEF OrderInv
  <2>2. ASSUME NEW k \in 1 .. Len(buffered) + 1
        PROVE  buffered'[k] = accepted'[Passed + Len(inbox) + k]
    <3>1. CASE k \in 1 .. Len(buffered)
      <4>1. Passed + Len(inbox) + k \in 1 .. Len(accepted)
        BY <3>1, Counts
      <4> QED
        BY <1>3, <1>4, <3>1, <4>1 DEF OrderInv
    <3>2. CASE k = Len(buffered) + 1
      <4>1. Passed + Len(inbox) + k = Len(accepted) + 1
        BY <3>2, Counts
      <4> QED
        BY <1>3, <1>4, <3>2, <4>1
    <3> QED
      BY <3>1, <3>2, Counts
  <2> QED
    BY <1>4, <1>5, <2>1, <2>2, Counts DEF OrderInv
<1> QED
  BY <1>2, <1>3, <1>5, <1>6, <1>7, <1>8, <1>9, SameListeners

(* ... and sends it. *)
LEMMA DrainStep == ASSUME ExchangeInv, Drain PROVE ExchangeInv'
<1> USE DEF ExchangeInv
<1> DEFINE m == Head(buffered)
<1>1. /\ buffered # <<>> /\ buffered' = Tail(buffered) /\ inbox' = Append(inbox, m)
      /\ UNCHANGED <<accepted, handler, seen, sender, data>>
  BY DEF Drain, nearVars
<1>2. /\ m \in Messages /\ m = buffered[1]
      /\ buffered' \in Seq(Messages) /\ Len(buffered') = Len(buffered) - 1
      /\ \A k \in 1 .. Len(buffered) - 1 : buffered'[k] = buffered[k + 1]
  BY <1>1, HeadTailProperties DEF TypeOK
<1>3. /\ inbox' \in Seq(Messages) /\ Len(inbox') = Len(inbox) + 1
      /\ \A k \in 1 .. Len(inbox) : inbox'[k] = inbox[k]
      /\ inbox'[Len(inbox) + 1] = m
  BY <1>1, <1>2, AppendProperties DEF TypeOK
<1>4. Len(buffered) >= 1
  BY <1>1, EmptySeq DEF TypeOK
<1>5. Passed' = Passed
  BY <1>1, <1>2, <1>3, Counts DEF Passed
<1>6. TypeOK'
  <2>1. m.size \in Nat
    BY <1>2 DEF Messages
  <2>2. amount' = amount - m.size
    BY DEF Drain
  <2>3. amount' \in Int
    BY <2>1, <2>2 DEF TypeOK
  <2>4. raised' \in BOOLEAN /\ missed' \in BOOLEAN
    BY DEF Drain, TypeOK
  <2> QED
    BY <1>1, <1>2, <1>3, <2>3, <2>4 DEF Drain, nearVars, TypeOK
<1>7. DataInv' /\ MessagesInv'
  BY <1>1 DEF DataInv, MessagesInv
<1>8. OrderInv'
  <2>1. ASSUME NEW k \in 1 .. Len(inbox) + 1
        PROVE  inbox'[k] = accepted[Passed + k]
    <3>1. CASE k \in 1 .. Len(inbox)
      BY <1>3, <3>1 DEF OrderInv
    <3>2. CASE k = Len(inbox) + 1
      <4>1. m = accepted[Passed + Len(inbox) + 1]
        BY <1>2, <1>4 DEF OrderInv
      <4>2. Passed + Len(inbox) + 1 = Passed + k
        BY <3>2, Counts
      <4> QED
        BY <1>3, <3>2, <4>1, <4>2
    <3> QED
      BY <3>1, <3>2, Counts
  <2>2. ASSUME NEW k \in 1 .. Len(buffered) - 1
        PROVE  buffered'[k] = accepted[Passed + (Len(inbox) + 1) + k]
    <3>1. k + 1 \in 1 .. Len(buffered)
      BY Counts
    <3>2. buffered[k + 1] = accepted[Passed + Len(inbox) + (k + 1)]
      BY <3>1 DEF OrderInv
    <3>3. Passed + Len(inbox) + (k + 1) = Passed + (Len(inbox) + 1) + k
      BY Counts
    <3> QED
      BY <1>2, <3>2, <3>3
  <2> QED
    BY <1>1, <1>2, <1>3, <1>5, <2>1, <2>2, Counts DEF OrderInv
<1> QED
  BY <1>1, <1>5, <1>6, <1>7, <1>8, SameListeners

-----------------------------------------------------------------------------
(* The record of the handler at each step of handle_channel_message. *)
LEMMA HandlerTypes ==
  ASSUME handler \in {NoMessage} \cup Handlers
  PROVE  /\ Handling <=> handler \in Handlers
         /\ handler.stage \in Listener => Handling
         /\ handler.stage = ListenerCount + 1 => Handling
<1>1. NoMessage.stage = 0 /\ ListenerCount \in Nat
  BY ExchangeAssumption DEF NoMessage
<1>2. \A h \in Handlers : h.stage # 0 /\ h # NoMessage
  BY <1>1 DEF Handlers
<1> QED
  BY <1>1, <1>2 DEF Handling, Listener

(* handle_channel_message begins with the first message that has come. *)
LEMMA MessageHandled ==
  ASSUME NEW decoded \in Nat, Head(inbox) \in Messages, HandleMessage(decoded) \/ HandleNull
  PROVE  /\ handler' \in Handlers
         /\ handler'.stage = 1 /\ handler'.read = 0
         /\ handler'.text = Head(inbox).text
         /\ handler'.null \/ Head(inbox).wide \/ handler'.size = Head(inbox).size
<1>1. ListenerCount \in Nat
  BY ExchangeAssumption
<1>2. /\ Head(inbox).text \in BOOLEAN /\ Head(inbox).size \in Nat
  BY DEF Messages
<1>3. (Reported(Head(inbox)) < 0) = Head(inbox).text
  <2>1. CASE Head(inbox).text
    BY <1>2, <2>1 DEF Reported
  <2>2. CASE ~Head(inbox).text
    BY <1>2, <2>2 DEF Reported
  <2> QED
    BY <2>1, <2>2
<1>4. 1 \in 1 .. ListenerCount + 1
  BY <1>1
<1>5. CASE HandleMessage(decoded)
  <2>1. handler' = [stage |-> 1, text |-> Head(inbox).text, null |-> FALSE,
                    size |-> decoded, read |-> 0]
    BY <1>3, <1>5 DEF HandleMessage
  <2>2. Head(inbox).wide \/ decoded = Head(inbox).size
    BY <1>5 DEF HandleMessage
  <2> QED
    BY <1>2, <1>4, <2>1, <2>2 DEF Handlers
<1>6. CASE HandleNull
  <2>1. handler' = [stage |-> 1, text |-> Head(inbox).text, null |-> TRUE, size |-> 0, read |-> 0]
    BY <1>3, <1>6 DEF HandleNull
  <2> QED
    BY <1>2, <1>4, <2>1 DEF Handlers
<1> QED
  BY <1>5, <1>6

(* The first message that has come is taken. *)
LEMMA MessageTaken ==
  ASSUME ExchangeInv, inbox # <<>>, inbox' = Tail(inbox), UNCHANGED <<accepted, buffered>>
  PROVE  /\ Head(inbox) \in Messages /\ Head(inbox) = accepted[Passed + 1]
         /\ inbox' \in Seq(Messages)
         /\ Passed' = Passed + 1
         /\ OrderInv'
<1> USE DEF ExchangeInv
<1>1. /\ inbox # <<>> /\ inbox' = Tail(inbox)
      /\ UNCHANGED <<accepted, buffered>>
  OBVIOUS
<1>2. /\ Head(inbox) \in Messages /\ Head(inbox) = inbox[1]
      /\ inbox' \in Seq(Messages) /\ Len(inbox') = Len(inbox) - 1
      /\ \A k \in 1 .. Len(inbox) - 1 : inbox'[k] = inbox[k + 1]
  BY <1>1, HeadTailProperties DEF TypeOK
<1>3. Len(inbox) >= 1
  BY <1>1, EmptySeq DEF TypeOK
<1>4. accepted[Passed + 1] = Head(inbox)
  BY <1>2, <1>3 DEF OrderInv
<1>5. Passed' = Passed + 1
  BY <1>1, <1>2, Counts DEF Passed
<1>9. OrderInv'
  <2>1. ASSUME NEW k \in 1 .. Len(inbox) - 1
        PROVE  inbox'[k] = accepted[(Passed + 1) + k]
    <3>1. k + 1 \in 1 .. Len(inbox)
      BY Counts
    <3>2. inbox[k + 1] = accepted[Passed + (k + 1)]
      BY <3>1 DEF OrderInv
    <3>3. Passed + (k + 1) = (Passed + 1) + k
      BY Counts
    <3> QED
      BY <1>2, <3>2, <3>3
  <2>2. ASSUME NEW k \in 1 .. Len(buffered)
        PROVE  buffered[k] = accepted[(Passed + 1) + (Len(inbox) - 1) + k]
    <3>1. Passed + Len(inbox) + k = (Passed + 1) + (Len(inbox) - 1) + k
      BY Counts
    <3> QED
      BY <3>1 DEF OrderInv
  <2> QED
    BY <1>1, <1>2, <1>5, <2>1, <2>2, Counts DEF OrderInv
<1> QED
  BY <1>2, <1>4, <1>5, <1>9

(* handle_channel_message, *)
LEMMA HandleMessageStep ==
  ASSUME ExchangeInv, NEW decoded \in Nat, HandleMessage(decoded) \/ HandleNull
  PROVE  ExchangeInv'
<1> USE DEF ExchangeInv
<1>1. /\ inbox # <<>> /\ inbox' = Tail(inbox) /\ ~Handling
      /\ UNCHANGED <<nearVars, channelVars, accepted, seen>>
      /\ UNCHANGED <<sender, data, buffered>>
  BY DEF HandleMessage, HandleNull, Handling, nearVars, channelVars
<1>2. /\ Head(inbox) \in Messages /\ Head(inbox) = accepted[Passed + 1]
      /\ inbox' \in Seq(Messages) /\ Passed' = Passed + 1 /\ OrderInv'
  BY <1>1, MessageTaken
<1>4. /\ handler' \in Handlers
      /\ handler'.stage = 1 /\ handler'.read = 0
      /\ handler'.text = Head(inbox).text
      /\ handler'.null \/ Head(inbox).wide \/ handler'.size = Head(inbox).size
  BY <1>2, MessageHandled
<1>6. TypeOK'
  BY <1>1, <1>2, <1>4 DEF TypeOK, nearVars, channelVars
<1>7. Handling'
  BY <1>4, <1>6, HandlerTypes, ExchangeAssumption DEF Handling, Handlers, NoMessage
<1>8. DataInv' /\ MessagesInv'
  BY <1>1 DEF DataInv, MessagesInv
<1>9. \A l \in Listener : Len(seen[l]) = Passed /\ l >= 1 /\ ~(l < 1)
  BY <1>1, ExchangeAssumption DEF CountInv, Listener
<1>10. CountInv'
  BY <1>1, <1>2, <1>4, <1>7, <1>9, Counts DEF CountInv
<1>11. HandlerInv'
  BY <1>1, <1>2, <1>4, <1>9 DEF HandlerInv
<1>12. SeenInv'
  BY <1>1 DEF SeenInv, CallOK, Alike, ReadBefore
<1> QED
  BY <1>2, <1>6, <1>8, <1>10, <1>11, <1>12

(* ... which may come to nothing, *)
LEMMA MissMessageStep ==
  ASSUME ExchangeInv, MissMessage
  PROVE  ExchangeInv'
<1> USE DEF ExchangeInv
<1>1. /\ inbox # <<>> /\ inbox' = Tail(inbox) /\ ~Handling /\ ~Handling'
      /\ UNCHANGED <<nearVars, channelVars, handler, accepted>>
      /\ UNCHANGED <<sender, data, buffered>>
      /\ seen' = [l \in Listener |-> Append(seen[l], Nothing)]
  BY DEF MissMessage, Handling, nearVars, channelVars
<1>2. inbox' \in Seq(Messages) /\ Passed' = Passed + 1 /\ OrderInv'
  BY <1>1, MessageTaken
<1>3. /\ Nothing \in Calls
      /\ Nothing.came = FALSE /\ Nothing.null = FALSE
  BY DEF Nothing, Calls
<1>4. PICK p \in Nat : p = Passed
  BY Counts
<1>5. ASSUME NEW l \in Listener
      PROVE  /\ Len(seen[l]) = p
             /\ seen'[l] \in Seq(Calls) /\ Len(seen'[l]) = p + 1
             /\ \A k \in 1 .. p : seen'[l][k] = seen[l][k]
             /\ seen'[l][p + 1] = Nothing
  <2>1. Len(seen[l]) = p /\ seen[l] \in Seq(Calls)
    BY <1>1, <1>4 DEF CountInv, TypeOK
  <2>2. seen'[l] = Append(seen[l], Nothing)
    BY <1>1
  <2> QED
    BY <1>3, <2>1, <2>2, AppendProperties
<1>6. seen' \in [Listener -> Seq(Calls)]
  BY <1>1, <1>5
<1>7. TypeOK'
  BY <1>1, <1>2, <1>6 DEF TypeOK, nearVars, channelVars
<1>8. DataInv' /\ MessagesInv' /\ HandlerInv'
  BY <1>1 DEF DataInv, MessagesInv, HandlerInv
<1>9. CountInv'
  BY <1>1, <1>2, <1>4, <1>5 DEF CountInv
<1>10. ASSUME NEW l \in Listener, NEW k \in 1 .. p
       PROVE  CallOK(l, k)'
  <2>1. CallOK(l, k)
    BY <1>5 DEF SeenInv
  <2>2. seen'[l][k] = seen[l][k]
    BY <1>5
  <2>3. Alike(l, k) => Alike(l, k)'
    BY <1>5, <2>2 DEF Alike
  <2>4. ReadBefore(l, k) => ReadBefore(l, k)'
    BY <1>4, <1>5 DEF ReadBefore
  <2> QED
    BY <1>1, <2>1, <2>2, <2>3, <2>4 DEF CallOK
<1>11. ASSUME NEW l \in Listener
       PROVE  CallOK(l, p + 1)'
  BY <1>3, <1>5 DEF CallOK, Alike
<1>12. SeenInv'
  <2> SUFFICES ASSUME NEW l \in Listener, NEW k \in 1 .. Len(seen'[l])
               PROVE  CallOK(l, k)'
    BY DEF SeenInv
  <2>1. k \in 1 .. p \/ k = p + 1
    BY <1>5
  <2> QED
    BY <1>10, <1>11, <2>1
<1> QED
  BY <1>2, <1>7, <1>8, <1>9, <1>12

(* ... its return, *)
LEMMA HandlerReturnsStep == ASSUME ExchangeInv, HandlerReturns PROVE ExchangeInv'
<1> USE DEF ExchangeInv
<1>1. /\ handler.stage = ListenerCount + 1 /\ handler' = NoMessage
      /\ UNCHANGED <<nearVars, channelVars, inbox, seen, accepted>>
      /\ UNCHANGED <<sender, data, buffered>>
  BY DEF HandlerReturns, nearVars, channelVars
<1>2. TypeOK'
  BY <1>1 DEF TypeOK, nearVars, channelVars
<1>3. Handling /\ ~Handling'
  BY <1>1, HandlerTypes DEF Handling, TypeOK
<1>4. Passed' = Passed
  BY <1>1 DEF Passed
<1>5. DataInv' /\ MessagesInv' /\ OrderInv' /\ HandlerInv'
  BY <1>1, <1>3, <1>4 DEF DataInv, MessagesInv, OrderInv, HandlerInv
<1>6. CountInv'
  <2>1. \A l \in Listener : ~(l >= handler.stage)
    BY <1>1, ExchangeAssumption DEF Listener
  <2> QED
    BY <1>1, <1>3, <1>4, <2>1 DEF CountInv
<1>7. SeenInv'
  BY <1>1 DEF SeenInv, CallOK, Alike, ReadBefore
<1> QED
  BY <1>2, <1>5, <1>6, <1>7

(* What a call of a listener leaves in the handler, *)
LEMMA HandlerCalled ==
  ASSUME handler \in Handlers, handler.stage \in Listener, NEW reads \in BOOLEAN,
         CallListener(reads)
  PROVE  /\ handler' \in Handlers
         /\ handler'.stage = handler.stage + 1 /\ handler'.size = handler.size
         /\ handler'.text = handler.text /\ handler'.null = handler.null
         /\ handler'.read = IF reads THEN handler.size ELSE handler.read
         /\ reads => ~handler.text
<1>1. ListenerCount \in Nat /\ handler.stage + 1 \in 1 .. ListenerCount + 1
  BY ExchangeAssumption DEF Listener
<1>2. (IF reads THEN handler.size ELSE handler.read) \in Nat
  BY DEF Handlers
<1>3. handler' \in Handlers
  BY <1>1, <1>2 DEF CallListener, Handlers
<1>4. handler'.text = handler.text /\ handler'.null = handler.null
  BY DEF CallListener, Handlers
<1>5. handler'.stage = handler.stage + 1 /\ handler'.size = handler.size
  BY DEF CallListener, Handlers
<1>6. /\ handler'.read = IF reads THEN handler.size ELSE handler.read
      /\ reads => ~handler.text
  BY DEF CallListener, Handlers
<1> QED
  BY <1>3, <1>4, <1>5, <1>6

(* ... and the listener. *)
LEMMA ListenerCalled ==
  ASSUME ExchangeInv, handler \in Handlers, handler.stage \in Listener, NEW reads \in BOOLEAN,
         CallListener(reads)
  PROVE  /\ seen' \in [Listener -> Seq(Calls)]
         /\ \A l \in Listener : l # handler.stage => seen'[l] = seen[l]
         /\ Len(seen'[handler.stage]) = Len(seen[handler.stage]) + 1
         /\ \A k \in 1 .. Len(seen[handler.stage]) :
              seen'[handler.stage][k] = seen[handler.stage][k]
         /\ LET c == seen'[handler.stage][Len(seen[handler.stage]) + 1] IN
              /\ c.text = handler.text /\ c.size = handler.size - handler.read
              /\ c.reads = reads /\ c.came = TRUE /\ c.null = handler.null
<1> DEFINE c == [came |-> TRUE, text |-> handler.text, null |-> handler.null,
                 size |-> handler.size - handler.read, reads |-> reads]
<1>1. c \in Calls
  BY DEF Calls, Handlers
<1>2. c.text = handler.text /\ c.size = handler.size - handler.read
  OBVIOUS
<1>3. c.reads = reads /\ c.came = TRUE /\ c.null = handler.null
  OBVIOUS
<1>4. seen' = [seen EXCEPT ![handler.stage] = Append(@, c)]
  BY DEF CallListener
<1> HIDE DEF c
<1>5. seen \in [Listener -> Seq(Calls)]
  BY DEF ExchangeInv, TypeOK
<1>6. seen'[handler.stage] = Append(seen[handler.stage], c)
  BY <1>4, <1>5
<1>7. \A l \in Listener : l # handler.stage => seen'[l] = seen[l]
  BY <1>4, <1>5
<1>8. /\ seen'[handler.stage] \in Seq(Calls)
      /\ Len(seen'[handler.stage]) = Len(seen[handler.stage]) + 1
      /\ \A k \in 1 .. Len(seen[handler.stage]) :
           seen'[handler.stage][k] = seen[handler.stage][k]
      /\ seen'[handler.stage][Len(seen[handler.stage]) + 1] = c
  BY <1>1, <1>5, <1>6, AppendProperties
<1>9. seen' \in [Listener -> Seq(Calls)]
  BY <1>4, <1>5, <1>6, <1>8
<1> QED
  BY <1>2, <1>3, <1>7, <1>8, <1>9

(* ... and the call of a listener in between. *)
LEMMA CallListenerStep ==
  ASSUME ExchangeInv, NEW reads \in BOOLEAN, CallListener(reads)
  PROVE  ExchangeInv'
<1> USE DEF ExchangeInv
<1>1. PICK i \in Listener : i = handler.stage
  BY DEF CallListener
<1>2. PICK p \in Nat : p = Passed
  BY Counts
<1>3. Handling /\ handler \in Handlers
  BY <1>1, HandlerTypes DEF TypeOK
<1>4. /\ i \in Nat /\ i >= 1 /\ p >= 1 /\ p <= Len(accepted)
      /\ Len(seen[i]) = p - 1
      /\ \A l \in Listener : l \in Nat /\ Len(seen[l]) \in Nat
                             /\ Len(seen[l]) = IF l >= i THEN p - 1 ELSE p
  BY <1>1, <1>2, <1>3, Counts DEF CountInv, Listener
<1>5. /\ UNCHANGED <<nearVars, channelVars, inbox, accepted>>
      /\ UNCHANGED <<sender, data, buffered>>
  BY DEF CallListener, nearVars, channelVars
<1>6. /\ handler' \in Handlers
      /\ handler'.stage = i + 1 /\ handler'.size = handler.size
      /\ handler'.text = handler.text /\ handler'.null = handler.null
      /\ handler'.read = IF reads THEN handler.size ELSE handler.read
      /\ reads => ~handler.text
  BY <1>1, <1>3, HandlerCalled
<1>7. /\ seen' \in [Listener -> Seq(Calls)]
      /\ \A l \in Listener : l # i => seen'[l] = seen[l]
      /\ Len(seen'[i]) = p
      /\ \A k \in 1 .. p - 1 : seen'[i][k] = seen[i][k]
      /\ seen'[i][p].text = handler.text
      /\ seen'[i][p].size = handler.size - handler.read
      /\ seen'[i][p].reads = reads /\ seen'[i][p].came = TRUE
      /\ seen'[i][p].null = handler.null
  <2>1. Len(seen[i]) + 1 = p
    BY <1>4
  <2> QED
    BY <1>1, <1>3, <1>4, <2>1, ListenerCalled
<1>8. Passed' = p
  BY <1>2, <1>5 DEF Passed
<1>9. TypeOK'
  BY <1>5, <1>6, <1>7 DEF TypeOK, nearVars, channelVars
<1>10. Handling'
  BY <1>6, ExchangeAssumption DEF Handling, Handlers, NoMessage
<1>11. DataInv' /\ MessagesInv' /\ OrderInv'
  BY <1>2, <1>5, <1>8 DEF DataInv, MessagesInv, OrderInv
<1>12. CountInv'
  <2>1. ASSUME NEW l \in Listener
        PROVE  Len(seen'[l]) = IF l >= i + 1 THEN p - 1 ELSE p
    <3>1. CASE l = i
      <4>1. ~(i >= i + 1)
        BY <1>4
      <4> QED
        BY <1>7, <3>1, <4>1
    <3>2. CASE l # i
      BY <1>4, <1>7, <3>2
    <3> QED
      BY <3>1, <3>2
  <2> QED
    BY <1>4, <1>6, <1>8, <1>10, <2>1 DEF CountInv
<1>13. ASSUME NEW l, NEW k \in Nat, k >= 1, ReadBefore(l, k)
       PROVE  ReadBefore(l, k)'
  <2>1. PICK j \in Listener : j < l /\ k <= Len(seen[j]) /\ seen[j][k].reads
    BY <1>13 DEF ReadBefore
  <2>2. k <= Len(seen'[j]) /\ seen'[j][k] = seen[j][k]
    <3>1. CASE j = i
      <4>1. k \in 1 .. p - 1 /\ k <= p
        BY <1>4, <1>13, <2>1, <3>1
      <4> QED
        BY <1>7, <3>1, <4>1
    <3>2. CASE j # i
      BY <1>7, <2>1, <3>2
    <3> QED
      BY <3>1, <3>2
  <2> QED
    BY <2>1, <2>2 DEF ReadBefore
<1>14. /\ handler.text = accepted[p].text
       /\ handler.null \/ accepted[p].wide \/ handler.size = accepted[p].size
       /\ handler.read = 0 \/ (~accepted[p].text /\ ReadBefore(i, p))
       /\ \A j \in Listener : j < i => seen[j][p].came = TRUE /\ seen[j][p].null = handler.null
  BY <1>1, <1>2, <1>3 DEF HandlerInv
<1>15. handler'.read = 0 \/ (~accepted[p].text /\ ReadBefore(i + 1, p)')
  <2>1. CASE reads
    <3>1. /\ i < i + 1 /\ p <= Len(seen'[i])
          /\ seen'[i][p].reads
      BY <1>4, <1>7, <2>1
    <3>2. ReadBefore(i + 1, p)'
      BY <3>1 DEF ReadBefore
    <3> QED
      BY <1>6, <1>14, <2>1, <3>2
  <2>2. CASE ~reads
    <3>1. ASSUME ReadBefore(i, p)
          PROVE  ReadBefore(i + 1, p)'
      <4>1. ReadBefore(i, p)'
        BY <1>4, <1>13, <3>1
      <4>2. \A j \in Listener : j < i => j < i + 1
        BY <1>4
      <4> QED
        BY <4>1, <4>2 DEF ReadBefore
    <3> QED
      BY <1>6, <1>14, <2>2, <3>1
  <2> QED
    BY <2>1, <2>2
<1>16. HandlerInv'
  <2>1. ASSUME NEW j \in Listener, j < i + 1
        PROVE  seen'[j][p].came = TRUE /\ seen'[j][p].null = handler.null
    <3>1. CASE j = i
      BY <1>7, <3>1
    <3>2. CASE j # i
      <4>1. j < i
        BY <1>4, <2>1, <3>2
      <4> QED
        BY <1>7, <1>14, <3>2, <4>1
    <3> QED
      BY <3>1, <3>2
  <2> QED
    BY <1>5, <1>6, <1>8, <1>14, <1>15, <2>1 DEF HandlerInv
<1>17. ASSUME NEW l \in Listener, NEW k \in 1 .. Len(seen[l])
       PROVE  CallOK(l, k)'
  <2>1. seen'[l][k] = seen[l][k]
    BY <1>4, <1>7
  <2>2. CallOK(l, k)
    BY DEF SeenInv
  <2>3. ReadBefore(l, k) => ReadBefore(l, k)'
    BY <1>4, <1>13
  <2>4. ASSUME NEW j \in Listener, j < l
        PROVE  seen'[j][k] = seen[j][k]
    <3>1. k <= Len(seen[j])
      BY <1>4, <2>4
    <3>2. CASE j = i
      <4>1. k \in 1 .. p - 1
        BY <1>4, <3>1, <3>2
      <4> QED
        BY <1>7, <3>2, <4>1
    <3>3. CASE j # i
      BY <1>7, <3>3
    <3> QED
      BY <3>2, <3>3
  <2>5. Alike(l, k)'
    BY <2>1, <2>2, <2>4 DEF CallOK, Alike
  <2> QED
    BY <1>5, <2>1, <2>2, <2>3, <2>5 DEF CallOK
<1>18. CallOK(i, p)'
  <2>1. Good(accepted[p])
    BY <1>4, Counts DEF MessagesInv
  <2>2. accepted[p] \in Messages
    BY <1>4, Counts DEF TypeOK
  <2>3. seen'[i][p].text = accepted[p].asText
    BY <1>7, <1>14, <2>1 DEF Good
  <2>6. Alike(i, p)'
    BY <1>4, <1>7, <1>14 DEF Alike
  <2>4. CASE handler.read = 0
    <3>1. seen'[i][p].size = handler.size
      BY <1>3, <1>7, <2>4 DEF Handlers
    <3>2. \/ seen'[i][p].null \/ accepted[p].moved \/ accepted[p].wide
          \/ seen'[i][p].size = accepted[p].content
      BY <1>7, <1>14, <2>1, <3>1 DEF Good
    <3> QED
      BY <1>5, <2>3, <2>6, <3>2 DEF CallOK
  <2>5. CASE handler.read # 0
    <3>1. ReadBefore(i, p)' /\ ~accepted[p].asText
      BY <1>4, <1>13, <1>14, <2>1, <2>5 DEF Good
    <3> QED
      BY <1>5, <2>3, <2>6, <3>1 DEF CallOK
  <2> QED
    BY <2>4, <2>5
<1>19. SeenInv'
  <2> SUFFICES ASSUME NEW l \in Listener, NEW k \in 1 .. Len(seen'[l])
               PROVE  CallOK(l, k)'
    BY DEF SeenInv
  <2>1. CASE l = i /\ k = p
    BY <1>18, <2>1
  <2>2. CASE ~(l = i /\ k = p)
    <3>1. k \in 1 .. Len(seen[l])
      BY <1>4, <1>7, <2>2
    <3> QED
      BY <1>17, <3>1
  <2> QED
    BY <2>1, <2>2
<1> QED
  BY <1>9, <1>11, <1>12, <1>16, <1>19

-----------------------------------------------------------------------------
(* Every step preserves the invariant. *)
LEMMA NextInv == ExchangeInv /\ [Next]_vars => ExchangeInv'
<1> SUFFICES ASSUME ExchangeInv, [Next]_vars PROVE ExchangeInv'
  OBVIOUS
<1>1. CASE \/ HookLow \/ AskAmount \/ Wake \/ HandleLow \/ MissLow \/ FlagClosed
           \/ DeleteChannel
           \/ \E n \in Thresholds : SetThreshold(n)
           \/ UNCHANGED vars
  BY <1>1, PaceStep
<1>2. CASE \/ StartSend \/ SendStep
           \/ \E position, limit \in Positions : MoveBuffer(position, limit)
  BY <1>2, SendingStep, SendMessageStep DEF SendStep
<1>3. CASE Drain
  BY <1>3, DrainStep
<1>4. CASE Far
  <2>1. ASSUME inbox # <<>>, NEW decoded \in 0 .. Head(inbox).size, HandleMessage(decoded)
        PROVE  ExchangeInv'
    BY <2>1, HandleMessageStep
  <2>2. ASSUME NEW reads \in BOOLEAN, CallListener(reads)
        PROVE  ExchangeInv'
    BY <2>2, CallListenerStep
  <2>3. CASE HandleNull
    BY <2>3, HandleMessageStep, 0 \in Nat
  <2> QED
    BY <1>4, <2>1, <2>2, <2>3, HandlerReturnsStep, MissMessageStep DEF Far
<1> QED
  BY <1>1, <1>2, <1>3, <1>4 DEF Next

(* What is known of a message on its way, from the buffer it is sent from  *)
(* to the listeners: the inductive invariant.                              *)
THEOREM ExchangeInvariant == Spec => []ExchangeInv
<1> QED
  BY InitInv, NextInv, PTL DEF Spec

(* The variables keep their types: sizes are never negative. *)
THEOREM TypeCorrect == Spec => []TypeOK
<1>1. ExchangeInv => TypeOK
  BY DEF ExchangeInv
<1> QED
  BY <1>1, ExchangeInvariant, PTL

(* sendMessage gives the library no byte outside the client's buffer,      *)
(* whatever another thread does to its position and limit.                 *)
THEOREM OnlyBufferIsSent == Spec => []SentWithinBuffer
<1>1. ExchangeInv => SentWithinBuffer
  BY DEF ExchangeInv, TypeOK, MessagesInv, Good, SentWithinBuffer
<1> QED
  BY <1>1, ExchangeInvariant, PTL

(* What comes to the listeners comes in the order it was sent, as text or  *)
(* binary, for all of them or for none, and whole but for what SeenAsSent  *)
(* names.                                                                  *)
THEOREM ListenersSeeWhatWasSent == Spec => []SeenAsSent
<1>1. ExchangeInv => SeenAsSent
  <2> SUFFICES ASSUME ExchangeInv, NEW l \in Listener, NEW k \in DOMAIN seen[l]
               PROVE  LET m == accepted[k]
                          c == seen[l][k]
                      IN
                        /\ k <= Len(accepted)
                        /\ \A j \in 1 .. l - 1 : seen[j][k].came = c.came /\ seen[j][k].null = c.null
                        /\ c.came => c.text = m.asText
                        /\ c.came /\ ~c.null =>
                             \/ m.moved \/ m.wide
                             \/ c.size = m.content
                             \/ ~m.asText /\ \E j \in 1 .. l - 1 : seen[j][k].reads
    BY DEF SeenAsSent
  <2>1. k \in 1 .. Len(seen[l]) /\ k <= Len(accepted) /\ CallOK(l, k)
    BY Counts DEF ExchangeInv, SeenInv
  <2>2. ReadBefore(l, k) => \E j \in 1 .. l - 1 : seen[j][k].reads
    BY DEF ReadBefore, Listener
  <2>3. \A j \in 1 .. l - 1 : j \in Listener /\ j < l
    BY ExchangeAssumption DEF Listener
  <2> QED
    BY <2>1, <2>2, <2>3 DEF CallOK, Alike
<1> QED
  BY <1>1, ExchangeInvariant, PTL

-----------------------------------------------------------------------------
(* Pacing.  The threshold of the library is the client's, and the callback *)
(* stays installed until the channel is deleted.                           *)
PacingInv ==
  /\ threshold = mark
  /\ deleted => flag
  /\ NoLostWakeup

(* A message that leaves the buffer lowers the amount, and whoever waits   *)
(* is told if it falls from above the threshold.                           *)
LEMMA DrainPaces ==
  ASSUME TypeOK, PacingInv, Drain
  PROVE  PacingInv'
<1>1. Head(buffered) \in Messages
  BY DEF Drain, TypeOK
<1>2. Head(buffered).size \in Nat
  BY <1>1 DEF Messages
<1>3. /\ UNCHANGED <<sender, mark, signal, threshold, hooked, flag, deleted>>
      /\ amount' = amount - Head(buffered).size
      /\ raised' = (raised \/ (hooked /\ amount > threshold /\ amount' <= threshold))
      /\ missed' = (missed /\ ~(hooked /\ amount > threshold /\ amount' <= threshold))
  BY DEF Drain, nearVars
<1>4. amount \in Int /\ threshold \in Nat
  BY DEF TypeOK
<1>5. amount > threshold => amount' > threshold \/ amount' <= threshold
  BY <1>2, <1>3, <1>4
<1>6. (raised => raised') /\ (missed => missed' \/ raised')
  BY <1>3
<1>7. hooked /\ amount > threshold /\ amount' <= threshold => raised'
  BY <1>3
<1> QED
  BY <1>3, <1>5, <1>6, <1>7 DEF PacingInv, NoLostWakeup

LEMMA AskPaces ==
  ASSUME TypeOK, PacingInv, AskAmount
  PROVE  PacingInv'
BY DEF AskAmount, PacingInv, NoLostWakeup, TypeOK, channelVars

LEMMA SendMessagePaces ==
  ASSUME PacingInv, SendMessage
  PROVE  PacingInv'
BY DEF SendMessage, PacingInv, NoLostWakeup

LEMMA PacingStep == TypeOK /\ PacingInv /\ [Next]_vars => PacingInv'
<1> SUFFICES ASSUME TypeOK, PacingInv, [Next]_vars PROVE PacingInv'
  OBVIOUS
<1> USE DEF PacingInv, NoLostWakeup, nearVars, channelVars
<1>1. CASE UNCHANGED vars
  BY <1>1 DEF vars
<1>2. CASE HookLow
  BY <1>2 DEF HookLow
<1>3. CASE \E n \in Thresholds : SetThreshold(n)
  BY <1>3 DEF SetThreshold
<1>4. CASE AskAmount
  BY <1>4, AskPaces
<1>5. CASE Wake
  BY <1>5 DEF Wake
<1>6. CASE StartSend
  <2>1. /\ sender = "ready" /\ sender' # "wait"
        /\ UNCHANGED <<mark, threshold, hooked, raised, missed, signal, flag, deleted, amount>>
    BY <1>6 DEF StartSend, SendBinary, SendText, RejectBuffer, AllocateTextFails, Throws
  <2> QED
    BY <2>1
<1>7. CASE SendStep
  <2>1. CASE SendMessage
    BY <2>1, SendMessagePaces
  <2>2. CASE ~SendMessage
    BY <1>7, <2>2 DEF SendStep, ReadRemaining, EnsureNotClosed, SendOnClosed, RejectBounds,
                      SendFails, Throws
  <2> QED
    BY <2>1, <2>2
<1>8. CASE \E position, limit \in Positions : MoveBuffer(position, limit)
  BY <1>8 DEF MoveBuffer
<1>9. CASE Drain
  BY <1>9, DrainPaces
<1>10. CASE HandleLow
  BY <1>10 DEF HandleLow
<1>14. CASE MissLow
  BY <1>14 DEF MissLow
<1>11. CASE FlagClosed
  BY <1>11 DEF FlagClosed
<1>12. CASE DeleteChannel
  BY <1>12 DEF DeleteChannel
<1>13. CASE Far
  <2>1. UNCHANGED <<nearVars, channelVars>>
    BY <1>13 DEF Far, HandleMessage, HandleNull, MissMessage, CallListener, HandlerReturns
  <2> QED
    BY <2>1
<1> QED
  BY <1>1, <1>2, <1>3, <1>4, <1>5, <1>6, <1>7, <1>8, <1>9, <1>10, <1>11, <1>12, <1>13, <1>14
  DEF Next

(* A sender that waits has something to wait for: between the comparison   *)
(* of the amount, the event of the library and the listener, only a        *)
(* callback that came to nothing can have lost it.                         *)
THEOREM NoWakeupIsLost == Spec => []NoLostWakeup
<1>1. Init => PacingInv
  BY DEF Init, PacingInv, NoLostWakeup
<1>2. PacingInv => NoLostWakeup
  BY DEF PacingInv
<1> QED
  BY <1>1, <1>2, PacingStep, TypeCorrect, PTL DEF Spec
=============================================================================
