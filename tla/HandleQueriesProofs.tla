-------------------------- MODULE HandleQueriesProofs --------------------------
(***************************************************************************)
(* What holds of HandleQueries for any threads, lengths and number of      *)
(* replaced strings.                                                       *)
(*                                                                         *)
(* ThreadInv says of one thread what its call knows at each step: the      *)
(* string it asks for is one it may return, the size it was told is that   *)
(* of such a string, its buffers are those of its step.  ObjectInv says    *)
(* who closes the object, and how far.  A step of one thread leaves        *)
(* ThreadInv of the others alone (Others), since a closed object is not    *)
(* opened again; a step that closes nothing leaves ObjectInv alone         *)
(* (NotClosing).                                                           *)
(***************************************************************************)
EXTENDS HandleQueries, TLAPS

Ended == {"closed", "deleted"}

StringSteps == {"size", "allocate", "fetch", "convert", "local", "remote", "pair", "parse"}

Asks(t) ==
  call[t].step \in StringSteps =>
    /\ call[t].source \in Sources
    /\ strings[call[t].source] \in during[t]

Told(t) ==
  call[t].step \in {"allocate", "fetch"} =>
    \E s \in during[t] : s # NoString /\ call[t].size = SizeOf(s)

Got(t) == call[t].step \in {"convert", "parse"} => call[t].text \in during[t]

Buffers(t) ==
  /\ call[t].step \in {"fetch", "convert", "remote"} => heap[t] = 1
  /\ call[t].step \in {"pair", "parse"} => heap[t] = 2
  /\ call[t].step \notin {"fetch", "convert", "remote", "pair", "parse"} => heap[t] = 0

Late(t) ==
  /\ call[t] \in Running /\ call[t].late => shut
  /\ call[t].step = "askOpen" /\ call[t].late => handle \in Ended

Ends(t) ==
  /\ result[t].kind = "string" => result[t].text \in during[t]
  /\ result[t] = [kind |-> "exception", why |-> "tooSmall"] => \E s1, s2 \in during[t] : s1 # s2
  /\ result[t].kind = "isOpen" /\ result[t].late => ~result[t].answer

ThreadInv(t) == Asks(t) /\ Told(t) /\ Got(t) /\ Buffers(t) /\ Late(t) /\ Ends(t)

Closing(t) == call[t].step \in {"close", "delete", "drop"}

ObjectInv ==
  /\ \A t \in Threads : Closing(t) => flag
  /\ \A t, u \in Threads : Closing(t) /\ Closing(u) => t = u
  /\ \A t \in Threads : call[t].step \in {"close", "delete"} => handle # "deleted"
  /\ \A t \in Threads : call[t].step = "close" => kind \notin Tracks
  /\ \A t \in Threads : call[t].step = "drop" => handle = "deleted"
  /\ handle = "deleted" => flag
  /\ shut => flag \/ handle \in Ended
  /\ known => kind = "remoteTrack"
  /\ kind = "remoteTrack" /\ handle \in {"connecting", "open"} => known
  /\ known /\ handle = "deleted" => \E t \in Threads : At(t, "drop")

QueriesInv == TypeOK /\ ObjectInv /\ \A t \in Threads : ThreadInv(t)

-----------------------------------------------------------------------------
LEMMA IdleCall == Idle.step = "idle" /\ Idle \notin Running
BY DEF Idle, Running, Steps

LEMMA NoResultKind == NoResult \in Results /\ NoResult.kind = "none"
BY DEF NoResult, Results

(* A call that is at a step is a running one. *)
LEMMA RunningCall ==
  ASSUME TypeOK, NEW t \in Threads
  PROVE  call[t].step # "idle" <=> call[t] \in Running
BY IdleCall DEF TypeOK, Running, Steps

LEMMA NewCall ==
  ASSUME NEW step \in Steps, NEW source \in Sources \cup {"none"}, NEW l \in BOOLEAN
  PROVE  LET c == [step |-> step, source |-> source, size |-> 0, text |-> NoString, late |-> l]
         IN  /\ c \in Running /\ c.step = step /\ c.source = source
             /\ c.late = l
<1> DEFINE c == [step |-> step, source |-> source, size |-> 0, text |-> NoString, late |-> l]
<1>1. c \in Running
  BY DEF Running
<1>2. c.step = step /\ c.source = source
  OBVIOUS
<1>3. c.late = l
  OBVIOUS
<1> QED
  BY <1>1, <1>2, <1>3

LEMMA StepSet ==
  ASSUME NEW c \in Running, NEW s \in Steps
  PROVE  /\ [c EXCEPT !.step = s] \in Running
         /\ [c EXCEPT !.step = s].step = s
         /\ [c EXCEPT !.step = s].source = c.source
         /\ [c EXCEPT !.step = s].size = c.size
         /\ [c EXCEPT !.step = s].text = c.text
         /\ [c EXCEPT !.step = s].late = c.late
<1>1. [c EXCEPT !.step = s] \in Running
  BY DEF Running
<1>2. /\ [c EXCEPT !.step = s].step = s
      /\ [c EXCEPT !.step = s].source = c.source
      /\ [c EXCEPT !.step = s].size = c.size
      /\ [c EXCEPT !.step = s].text = c.text
  BY DEF Running
<1>3. [c EXCEPT !.step = s].late = c.late
  BY DEF Running
<1> QED
  BY <1>1, <1>2, <1>3

WithSize(c, s, n) == [c EXCEPT !.step = s, !.size = n]

LEMMA SizeSet ==
  ASSUME NEW c \in Running, NEW s \in Steps, NEW n \in Nat
  PROVE  /\ WithSize(c, s, n) \in Running
         /\ WithSize(c, s, n).step = s /\ WithSize(c, s, n).source = c.source
         /\ WithSize(c, s, n).size = n /\ WithSize(c, s, n).late = c.late
<1>1. WithSize(c, s, n) \in Running
  BY DEF Running, WithSize
<1>2. /\ WithSize(c, s, n).step = s /\ WithSize(c, s, n).source = c.source
      /\ WithSize(c, s, n).size = n
  BY DEF Running, WithSize
<1>3. WithSize(c, s, n).late = c.late
  BY DEF Running, WithSize
<1> QED
  BY <1>1, <1>2, <1>3

WithText(c, s, x) == [c EXCEPT !.step = s, !.text = x]

LEMMA TextSet ==
  ASSUME NEW c \in Running, NEW s \in Steps, NEW x \in Strings \cup {NoString}
  PROVE  /\ WithText(c, s, x) \in Running
         /\ WithText(c, s, x).step = s /\ WithText(c, s, x).source = c.source
         /\ WithText(c, s, x).text = x /\ WithText(c, s, x).late = c.late
<1>1. WithText(c, s, x) \in Running
  BY DEF Running, WithText
<1>2. /\ WithText(c, s, x).step = s /\ WithText(c, s, x).source = c.source
      /\ WithText(c, s, x).text = x
  BY DEF Running, WithText
<1>3. WithText(c, s, x).late = c.late
  BY DEF Running, WithText
<1> QED
  BY <1>1, <1>2, <1>3

(* What the operators that the actions share do to `call` and `result`.    *)
AllCalls == [Threads -> {Idle} \cup Running]

SameOthers(t) ==
  \A u \in Threads \ {t} :
    /\ call'[u] = call[u] /\ heap'[u] = heap[u]
    /\ result'[u] = result[u] /\ during'[u] = during[u]

LEMMA GoStep ==
  ASSUME TypeOK, NEW t \in Threads, call[t].step # "idle", NEW s \in Steps, Go(t, s)
  PROVE  /\ call' \in AllCalls /\ call'[t] \in Running
         /\ call'[t].step = s /\ call'[t].source = call[t].source
         /\ call'[t].size = call[t].size /\ call'[t].text = call[t].text
         /\ call'[t].late = call[t].late
         /\ \A u \in Threads \ {t} : call'[u] = call[u]
<1>1. call[t] \in Running /\ call \in AllCalls
  BY RunningCall DEF TypeOK, AllCalls
<1>2. call'[t] = [call[t] EXCEPT !.step = s] /\ \A u \in Threads \ {t} : call'[u] = call[u]
  BY <1>1 DEF Go, AllCalls
<1>3. call' = [call EXCEPT ![t] = call'[t]]
  BY <1>1, <1>2 DEF Go, AllCalls
<1>4. call'[t] \in Running
  BY <1>1, <1>2, StepSet
<1> QED
  BY <1>1, <1>2, <1>3, <1>4, StepSet DEF AllCalls

LEMMA SizeStep ==
  ASSUME TypeOK, NEW t \in Threads, Asks(t), QuerySize(t)
  PROVE  /\ call' \in AllCalls /\ call'[t] \in Running
         /\ call'[t].step = "allocate" /\ call'[t].source = call[t].source
         /\ call'[t].size = SizeOf(String(t)) /\ call'[t].late = call[t].late
         /\ \A u \in Threads \ {t} : call'[u] = call[u]
<1>1. call[t] \in Running /\ call \in AllCalls
  BY RunningCall DEF TypeOK, AllCalls, QuerySize, At
<1>2. "allocate" \in Steps /\ SizeOf(String(t)) \in Nat
  <2>1. String(t) \in Strings
    BY DEF QuerySize, At, Available, String, TypeOK, Asks, StringSteps
  <2>2. String(t).length \in Nat
    BY <2>1, QueriesAssumption DEF Strings
  <2> QED
    BY <2>2 DEF SizeOf, Steps
<1> DEFINE n == SizeOf(String(t))
<1>3. call' = [call EXCEPT ![t] = WithSize(call[t], "allocate", n)]
  BY <1>1 DEF AllCalls, WithSize, QuerySize
<1>4. /\ call'[t] = WithSize(call[t], "allocate", n)
      /\ \A u \in Threads \ {t} : call'[u] = call[u]
  BY <1>1, <1>3 DEF AllCalls
<1>5. call' = [call EXCEPT ![t] = call'[t]]
  BY <1>1, <1>3, <1>4 DEF AllCalls
<1>6. call'[t] \in Running
  BY <1>1, <1>2, <1>4, SizeSet
<1> QED
  BY <1>1, <1>2, <1>4, <1>5, <1>6, SizeSet DEF AllCalls

LEMMA TextStep ==
  ASSUME TypeOK, NEW t \in Threads, call[t].step # "idle", NEW s \in Steps,
         NEW x \in Strings \cup {NoString},
         call' = [call EXCEPT ![t].step = s, ![t].text = x]
  PROVE  /\ call' \in AllCalls /\ call'[t] \in Running
         /\ call'[t].step = s /\ call'[t].source = call[t].source
         /\ call'[t].text = x /\ call'[t].late = call[t].late
         /\ \A u \in Threads \ {t} : call'[u] = call[u]
<1>1. call[t] \in Running /\ call \in AllCalls
  BY RunningCall DEF TypeOK, AllCalls
<1>2. call' = [call EXCEPT ![t] = WithText(call[t], s, x)]
  BY <1>1 DEF AllCalls, WithText
<1>3. /\ call'[t] = WithText(call[t], s, x)
      /\ \A u \in Threads \ {t} : call'[u] = call[u]
  BY <1>1, <1>2 DEF AllCalls
<1>4. call' = [call EXCEPT ![t] = call'[t]]
  BY <1>1, <1>2, <1>3 DEF AllCalls
<1>5. call'[t] \in Running
  BY <1>1, <1>3, TextSet
<1> QED
  BY <1>1, <1>3, <1>4, <1>5, TextSet DEF AllCalls

LEMMA StartStep ==
  ASSUME TypeOK, NEW t \in Threads, NEW step \in Steps, NEW source \in Sources \cup {"none"},
         Start(t, step, source)
  PROVE  /\ call' \in AllCalls /\ call'[t] \in Running
         /\ call'[t].step = step /\ call'[t].source = source
         /\ call'[t].late = shut
         /\ result' \in [Threads -> Results] /\ result'[t] = NoResult
         /\ during' \in [Threads -> SUBSET (Strings \cup {NoString})]
         /\ source \in Sources => strings[source] \in during'[t]
         /\ UNCHANGED <<strings, changes, heap, shut>>
         /\ SameOthers(t)
<1> DEFINE c == [step |-> step, source |-> source, size |-> 0, text |-> NoString, late |-> shut]
<1>1. c \in Running /\ c.step = step /\ c.source = source /\ c.late = shut
  BY NewCall DEF TypeOK
<1>2. call \in AllCalls /\ result \in [Threads -> Results]
  BY DEF TypeOK, AllCalls
<1>3. call' = [call EXCEPT ![t] = c]
  BY DEF Start
<1> HIDE DEF c
<1>4. call' \in AllCalls /\ call'[t] = c /\ \A u \in Threads \ {t} : call'[u] = call[u]
  BY <1>1, <1>2, <1>3 DEF AllCalls
<1>5. /\ result' \in [Threads -> Results] /\ result'[t] = NoResult
      /\ \A u \in Threads \ {t} : result'[u] = result[u]
  BY <1>2, NoResultKind DEF Start
<1>6. /\ during' \in [Threads -> SUBSET (Strings \cup {NoString})]
      /\ source \in Sources => strings[source] \in during'[t]
      /\ \A u \in Threads \ {t} : during'[u] = during[u]
  <2>1. {strings[s] : s \in {source} \cap Sources} \in SUBSET (Strings \cup {NoString})
    BY DEF TypeOK
  <2>2. during' = [during EXCEPT ![t] = {strings[s] : s \in {source} \cap Sources}]
    BY DEF Start
  <2> QED
    BY <2>1, <2>2 DEF TypeOK
<1> QED
  BY <1>1, <1>4, <1>5, <1>6 DEF Start, SameOthers

LEMMA ReturnStep ==
  ASSUME TypeOK, NEW t \in Threads, NEW r \in Results, Return(t, r)
  PROVE  /\ call' \in AllCalls /\ call'[t] = Idle
         /\ result' \in [Threads -> Results] /\ result'[t] = r
         /\ heap' \in [Threads -> 0 .. 2] /\ heap'[t] = 0
         /\ UNCHANGED <<objectVars, strings, changes, during, shut>>
         /\ SameOthers(t)
<1>1. call \in AllCalls /\ result \in [Threads -> Results] /\ heap \in [Threads -> 0 .. 2]
  BY DEF TypeOK, AllCalls
<1>2. call' \in AllCalls /\ call'[t] = Idle /\ \A u \in Threads \ {t} : call'[u] = call[u]
  BY <1>1 DEF Return, AllCalls
<1>3. /\ result' \in [Threads -> Results] /\ result'[t] = r
      /\ \A u \in Threads \ {t} : result'[u] = result[u]
  BY <1>1 DEF Return
<1>4. /\ heap' \in [Threads -> 0 .. 2] /\ heap'[t] = 0
      /\ \A u \in Threads \ {t} : heap'[u] = heap[u]
  BY <1>1 DEF Return
<1> QED
  BY <1>2, <1>3, <1>4 DEF Return, SameOthers

-----------------------------------------------------------------------------
(* A step of t that leaves the strings and opens nothing again keeps what  *)
(* the other threads know.                                                 *)
LEMMA Others ==
  ASSUME QueriesInv, NEW t \in Threads, SameOthers(t), strings' = strings,
         shut => shut', handle \in Ended => handle' \in Ended,
         TypeOK', ObjectInv', ThreadInv(t)'
  PROVE  QueriesInv'
<1>1. ASSUME NEW u \in Threads \ {t}
      PROVE  ThreadInv(u)'
  <2>1. ThreadInv(u)
    BY DEF QueriesInv
  <2>2. /\ call'[u] = call[u] /\ heap'[u] = heap[u]
        /\ result'[u] = result[u] /\ during'[u] = during[u]
    BY DEF SameOthers
  <2>3. Asks(u)' /\ Told(u)' /\ Got(u)' /\ Buffers(u)'
    BY <2>1, <2>2 DEF ThreadInv, Asks, Told, Got, Buffers
  <2>4. Late(u)'
    BY <2>1, <2>2 DEF ThreadInv, Late
  <2>5. Ends(u)'
    BY <2>1, <2>2 DEF ThreadInv, Ends
  <2> QED
    BY <2>3, <2>4, <2>5 DEF ThreadInv
<1> QED
  BY <1>1 DEF QueriesInv

(* A step of t outside close() keeps what is known of the object. *)
LEMMA NotClosing ==
  ASSUME QueriesInv, NEW t \in Threads, UNCHANGED <<objectVars, shut>>,
         \A u \in Threads \ {t} : call'[u] = call[u],
         call[t].step \notin {"close", "delete", "drop"},
         call'[t].step \notin {"close", "delete", "drop"}
  PROVE  ObjectInv'
<1>1. \A u \in Threads :
        call'[u].step \in {"close", "delete", "drop"} => call'[u] = call[u]
  OBVIOUS
<1>2. \A u \in Threads :
        call[u].step \in {"close", "delete", "drop"} => call'[u] = call[u]
  OBVIOUS
<1> QED
  BY <1>1, <1>2 DEF QueriesInv, ObjectInv, Closing, At, objectVars

-----------------------------------------------------------------------------
(* A call begins, *)
LEMMA Begins ==
  ASSUME QueriesInv, NEW t \in Threads,
         NEW step \in {"size", "local", "number", "isOpen", "isClosed"},
         NEW source \in Sources \cup {"none"}, step \in {"size", "local"} => source \in Sources,
         Start(t, step, source), UNCHANGED objectVars
  PROVE  QueriesInv'
<1> USE DEF QueriesInv
<1>1. step \in Steps /\ TypeOK
  BY DEF Steps
<1>2. /\ call' \in AllCalls /\ call'[t] \in Running
      /\ call'[t].step = step /\ call'[t].source = source
      /\ result' \in [Threads -> Results] /\ result'[t] = NoResult
      /\ during' \in [Threads -> SUBSET (Strings \cup {NoString})]
      /\ source \in Sources => strings[source] \in during'[t]
      /\ UNCHANGED <<strings, changes, heap, shut>>
      /\ SameOthers(t)
  BY <1>1, StartStep
<1>3. call'[t].late = shut
  BY <1>1, StartStep
<1>4. TypeOK'
  BY <1>2 DEF TypeOK, AllCalls, objectVars
<1>5. call[t].step = "idle"
  BY DEF Start, At
<1>6. ObjectInv'
  BY <1>2, <1>5, NotClosing DEF SameOthers
<1>7. heap[t] = 0
  BY <1>5 DEF ThreadInv, Buffers
<1>8. ThreadInv(t)'
  <2>1. Asks(t)' /\ Told(t)' /\ Got(t)'
    BY <1>2 DEF Asks, Told, Got, StringSteps
  <2>2. Buffers(t)'
    BY <1>2, <1>7 DEF Buffers
  <2>3. Late(t)'
    BY <1>2, <1>3 DEF Late
  <2>4. Ends(t)'
    <3>1. NoResult.kind = "none" /\ NoResult # [kind |-> "exception", why |-> "tooSmall"]
      BY DEF NoResult
    <3> QED
      BY <1>2, <3>1 DEF Ends
  <2> QED
    BY <2>1, <2>2, <2>3, <2>4 DEF ThreadInv
<1> QED
  BY <1>2, <1>4, <1>6, <1>8, Others DEF objectVars

LEMMA AskStep == ASSUME QueriesInv, NEW t \in Threads, Ask(t) PROVE QueriesInv'
<1>1. CASE LocalDescription(t) \/ RemoteDescription(t) \/ Address(t)
           \/ LabelOrProtocol(t) \/ TrackDescription(t) \/ SelectedCandidatePair(t)
  BY <1>1, Begins DEF LocalDescription, RemoteDescription, Address, LabelOrProtocol,
     TrackDescription, SelectedCandidatePair, Sources
<1>2. CASE ChannelNumber(t) \/ PeerNumber(t) \/ TrackDirection(t) \/ IsOpen(t) \/ IsClosed(t)
  BY <1>2, Begins DEF ChannelNumber, PeerNumber, TrackDirection, IsOpen, IsClosed
<1> QED
  BY <1>1, <1>2 DEF Ask

(* ... and ends. *)
LEMMA Finishes ==
  ASSUME QueriesInv, NEW t \in Threads, NEW r \in Results, Return(t, r),
         r.kind = "string" => r.text \in during[t],
         r = [kind |-> "exception", why |-> "tooSmall"] => \E s1, s2 \in during[t] : s1 # s2,
         r.kind = "isOpen" /\ r.late => ~r.answer,
         ObjectInv'
  PROVE  QueriesInv'
<1> USE DEF QueriesInv
<1>1. /\ call' \in AllCalls /\ call'[t] = Idle
      /\ result' \in [Threads -> Results] /\ result'[t] = r
      /\ heap' \in [Threads -> 0 .. 2] /\ heap'[t] = 0
      /\ UNCHANGED <<objectVars, strings, changes, during, shut>>
      /\ SameOthers(t)
  BY ReturnStep
<1>2. TypeOK'
  BY <1>1 DEF TypeOK, AllCalls, objectVars
<1>3. Asks(t)' /\ Told(t)' /\ Got(t)' /\ Buffers(t)'
  BY <1>1, IdleCall DEF Asks, Told, Got, Buffers, StringSteps
<1>4. Late(t)'
  BY <1>1, IdleCall DEF Late
<1>5. Ends(t)'
  BY <1>1 DEF Ends
<1> QED
  BY <1>1, <1>2, <1>3, <1>4, <1>5, Others DEF ThreadInv, objectVars

(* The object is left alone by a return from an accessor. *)
LEMMA FinishesAccessor ==
  ASSUME QueriesInv, NEW t \in Threads, NEW r \in Results, Return(t, r),
         call[t].step \notin {"close", "delete", "drop"}
  PROVE  ObjectInv'
<1>1. call'[t] = Idle /\ UNCHANGED <<objectVars, shut>> /\ SameOthers(t)
  BY ReturnStep DEF QueriesInv
<1> QED
  BY <1>1, IdleCall, NotClosing DEF SameOthers

LEMMA Throws ==
  ASSUME QueriesInv, NEW t \in Threads, call[t].step \notin {"close", "delete", "drop"},
         NEW why \in {"invalid", "notAvailable", "tooSmall", "longAddress", "native", "failure"},
         why = "tooSmall" => \E s1, s2 \in during[t] : s1 # s2,
         Throw(t, why)
  PROVE  QueriesInv'
<1> DEFINE r == [kind |-> "exception", why |-> why]
<1>1. r \in Results /\ r.kind = "exception"
  BY DEF Results
<1>2. r = [kind |-> "exception", why |-> "tooSmall"] => why = "tooSmall"
  OBVIOUS
<1>3. Return(t, r)
  BY DEF Throw
<1> HIDE DEF r
<1>4. ObjectInv'
  BY <1>1, <1>3, FinishesAccessor
<1> QED
  BY <1>1, <1>2, <1>3, <1>4, Finishes

-----------------------------------------------------------------------------
(* A step between the calls of the library that fetch a string. *)
LEMMA Proceeds ==
  ASSUME QueriesInv, NEW t \in Threads,
         call[t].step \in StringSteps,
         call' \in AllCalls, call'[t] \in Running, call'[t].step \in StringSteps,
         call'[t].source = call[t].source, call'[t].late = call[t].late,
         \A u \in Threads \ {t} : call'[u] = call[u] /\ heap'[u] = heap[u],
         heap' \in [Threads -> 0 .. 2],
         UNCHANGED <<objectVars, strings, changes, result, during, shut>>,
         Told(t)', Got(t)', Buffers(t)'
  PROVE  QueriesInv'
<1> USE DEF QueriesInv
<1>1. TypeOK'
  BY DEF TypeOK, AllCalls, objectVars
<1>2. ObjectInv'
  BY NotClosing DEF StringSteps
<1>3. Asks(t)'
  BY DEF ThreadInv, Asks
<1>4. Late(t)'
  <2>1. call[t] \in Running
    BY RunningCall DEF StringSteps
  <2> QED
    BY <2>1 DEF ThreadInv, Late, StringSteps
<1>5. Ends(t)'
  BY DEF ThreadInv, Ends
<1>6. SameOthers(t)
  BY DEF SameOthers
<1> QED
  BY <1>1, <1>2, <1>3, <1>4, <1>5, <1>6, Others DEF ThreadInv, objectVars

LEMMA Allocates ==
  ASSUME QueriesInv, NEW t \in Threads,
         Allocate(t) \/ AllocateLocal(t) \/ AllocateRemote(t)
  PROVE  QueriesInv'
<1> USE DEF QueriesInv
<1>1. PICK s \in {"fetch", "remote", "pair"} :
        /\ Go(t, s) /\ heap' = [heap EXCEPT ![t] = IF s = "pair" THEN 2 ELSE 1]
        /\ call[t].step \in {"allocate", "local", "remote"}
        /\ s = "fetch" => call[t].step = "allocate"
        /\ UNCHANGED <<objectVars, strings, changes, result, during, shut>>
  <2>1. CASE Allocate(t)
    BY <2>1 DEF Allocate, At
  <2>2. CASE AllocateLocal(t)
    BY <2>2 DEF AllocateLocal, At
  <2>3. CASE AllocateRemote(t)
    BY <2>3 DEF AllocateRemote, At
  <2> QED
    BY <2>1, <2>2, <2>3
<1>2. /\ call' \in AllCalls /\ call'[t] \in Running
      /\ call'[t].step = s /\ call'[t].source = call[t].source
      /\ call'[t].size = call[t].size
      /\ \A u \in Threads \ {t} : call'[u] = call[u]
  BY <1>1, GoStep DEF Steps
<1>3. call'[t].late = call[t].late
  BY <1>1, GoStep DEF Steps
<1>4. /\ heap' \in [Threads -> 0 .. 2]
      /\ heap'[t] = IF s = "pair" THEN 2 ELSE 1
      /\ \A u \in Threads \ {t} : heap'[u] = heap[u]
  BY <1>1 DEF TypeOK
<1>5. Told(t)' /\ Got(t)' /\ Buffers(t)'
  BY <1>1, <1>2, <1>4 DEF ThreadInv, Told, Got, Buffers, SizeOf
<1> QED
  BY <1>1, <1>2, <1>3, <1>4, <1>5, Proceeds DEF StringSteps

LEMMA AsksSize == ASSUME QueriesInv, NEW t \in Threads, QuerySize(t) PROVE QueriesInv'
<1> USE DEF QueriesInv
<1>1. /\ call[t].step = "size" /\ Available(t)
      /\ UNCHANGED <<objectVars, strings, changes, heap, result, during, shut>>
  BY DEF QuerySize, At
<1>2. /\ call' \in AllCalls /\ call'[t] \in Running
      /\ call'[t].step = "allocate" /\ call'[t].source = call[t].source
      /\ call'[t].size = SizeOf(String(t))
      /\ \A u \in Threads \ {t} : call'[u] = call[u]
  BY SizeStep DEF ThreadInv
<1>3. call'[t].late = call[t].late
  BY SizeStep DEF ThreadInv
<1>4. String(t) \in during[t] /\ String(t) # NoString
  BY <1>1 DEF Available, String, ThreadInv, Asks, StringSteps
<1>5. Told(t)' /\ Got(t)' /\ Buffers(t)'
  <2>1. Told(t)'
    BY <1>1, <1>2, <1>4 DEF Told, SizeOf
  <2>2. heap[t] = 0
    BY <1>1 DEF ThreadInv, Buffers
  <2> QED
    BY <1>1, <1>2, <2>1, <2>2 DEF Got, Buffers
<1> QED
  BY <1>1, <1>2, <1>3, <1>5, Proceeds DEF StringSteps, TypeOK

LEMMA Fetches ==
  ASSUME QueriesInv, NEW t \in Threads, FetchString(t) \/ FetchPair(t)
  PROVE  QueriesInv'
<1> USE DEF QueriesInv
<1>1. PICK s \in {"convert", "parse"} :
        /\ call' = [call EXCEPT ![t].step = s, ![t].text = String(t)]
        /\ call[t].step = IF s = "convert" THEN "fetch" ELSE "pair"
        /\ UNCHANGED <<objectVars, strings, changes, heap, result, during, shut>>
  <2>1. CASE FetchString(t)
    BY <2>1 DEF FetchString, At
  <2>2. CASE FetchPair(t)
    BY <2>2 DEF FetchPair, At
  <2> QED
    BY <2>1, <2>2
<1>2. String(t) \in during[t] /\ String(t) \in Strings \cup {NoString}
  BY <1>1 DEF String, ThreadInv, Asks, StringSteps, TypeOK
<1>3. PICK x \in Strings \cup {NoString} : x = String(t)
  BY <1>2
<1>4. /\ call' \in AllCalls /\ call'[t] \in Running
      /\ call'[t].step = s /\ call'[t].source = call[t].source
      /\ call'[t].text = x /\ call'[t].late = call[t].late
      /\ \A u \in Threads \ {t} : call'[u] = call[u]
  <2>1. call[t].step # "idle" /\ s \in Steps
    BY <1>1 DEF Steps
  <2>2. call' = [call EXCEPT ![t].step = s, ![t].text = x]
    BY <1>1, <1>3
  <2>3. call[t] \in Running /\ call \in AllCalls
    BY <2>1, RunningCall DEF TypeOK, AllCalls
  <2>4. call'[t] = WithText(call[t], s, x)
    BY <2>2, <2>3 DEF AllCalls, WithText
  <2>5. /\ call'[t].step = s /\ call'[t].source = call[t].source
        /\ call'[t].text = x
    BY <2>1, <2>3, <2>4, TextSet
  <2>6. call' \in AllCalls /\ call'[t] \in Running /\ call'[t].late = call[t].late
    BY <2>1, <2>2, TextStep
  <2>7. \A u \in Threads \ {t} : call'[u] = call[u]
    BY <2>1, <2>2, TextStep
  <2> QED
    BY <2>5, <2>6, <2>7
<1>5. Told(t)' /\ Got(t)'
  BY <1>1, <1>2, <1>3, <1>4 DEF Told, Got
<1>6. Buffers(t)'
  BY <1>1, <1>4 DEF ThreadInv, Buffers
<1> QED
  BY <1>1, <1>4, <1>5, <1>6, Proceeds DEF StringSteps, TypeOK

(* The errors of fetching a string. *)
LEMMA FetchingThrows ==
  ASSUME QueriesInv, NEW t \in Threads,
         \/ QuerySizeFails(t) \/ AllocateFails(t) \/ FetchFails(t)
         \/ AllocatePairFails(t) \/ FetchPairFails(t)
  PROVE  QueriesInv'
<1>1. LibraryError(t) \in {"invalid", "notAvailable"}
  BY DEF LibraryError
<1>2. CASE QuerySizeFails(t)
  BY <1>1, <1>2, Throws DEF QuerySizeFails, At
<1>3. CASE AllocateFails(t)
  BY <1>3, Throws DEF AllocateFails, At
<1>4. CASE FetchFails(t)
  <2>1. /\ call[t].step = "fetch" /\ Throw(t, FetchError(t))
        /\ Available(t) => SizeOf(String(t)) > call[t].size
    BY <1>4 DEF FetchFails, At
  <2>2. ASSUME FetchError(t) = "tooSmall"
        PROVE  \E s1, s2 \in during[t] : s1 # s2
    <3>1. SizeOf(String(t)) > call[t].size
      BY <1>1, <2>1, <2>2 DEF FetchError
    <3>2. String(t) \in during[t]
      BY <2>1 DEF QueriesInv, ThreadInv, Asks, String, StringSteps
    <3>3. PICK s \in during[t] : s # NoString /\ call[t].size = SizeOf(s)
      BY <2>1 DEF QueriesInv, ThreadInv, Told
    <3>4. SizeOf(s) \in Nat
      <4>1. s \in Strings
        BY <3>3 DEF QueriesInv, TypeOK
      <4>2. s.length \in Nat
        BY <4>1, QueriesAssumption DEF Strings
      <4> QED
        BY <4>2 DEF SizeOf
    <3>5. s # String(t)
      BY <3>1, <3>3, <3>4
    <3> QED
      BY <3>2, <3>3, <3>5
  <2>3. FetchError(t) \in {"invalid", "notAvailable", "tooSmall"}
    BY <1>1 DEF FetchError
  <2> QED
    BY <2>1, <2>2, <2>3, Throws
<1>5. CASE AllocatePairFails(t)
  BY <1>5, Throws DEF AllocatePairFails, At
<1>6. CASE FetchPairFails(t)
  <2>1. (IF Available(t) THEN "longAddress" ELSE LibraryError(t))
           \in {"longAddress", "invalid", "notAvailable"}
    BY <1>1
  <2> QED
    BY <1>6, <2>1, Throws DEF FetchPairFails, At
<1> QED
  BY <1>2, <1>3, <1>4, <1>5, <1>6

(* The string is made. *)
LEMMA Converts ==
  ASSUME QueriesInv, NEW t \in Threads, Convert(t) \/ ConvertPair(t)
  PROVE  QueriesInv'
<1> DEFINE r == [kind |-> "string", text |-> call[t].text]
<1>1. call[t].step \in {"convert", "parse"} /\ Return(t, r)
  BY DEF Convert, ConvertPair, At
<1>2. call[t].text \in during[t]
  BY <1>1 DEF QueriesInv, ThreadInv, Got
<1>3. call[t].text \in Strings \cup {NoString}
  BY <1>2 DEF QueriesInv, TypeOK
<1>4. r \in Results /\ r.kind = "string" /\ r.text = call[t].text
  BY <1>3 DEF Results
<1>5. r # [kind |-> "exception", why |-> "tooSmall"]
  <2>1. [kind |-> "exception", why |-> "tooSmall"].kind = "exception"
    OBVIOUS
  <2> QED
    BY <1>4, <2>1
<1> HIDE DEF r
<1>6. ObjectInv'
  BY <1>1, <1>4, FinishesAccessor
<1> QED
  BY <1>1, <1>2, <1>4, <1>5, <1>6, Finishes

LEMMA FetchingStep ==
  ASSUME QueriesInv, NEW t \in Threads, GetDynamicString(t) \/ GetPair(t)
  PROVE  QueriesInv'
BY Allocates, AsksSize, Fetches, FetchingThrows, Converts DEF GetDynamicString, GetPair

-----------------------------------------------------------------------------
(* The numbers, isOpen and isClosed *)
LEMMA NumberStep ==
  ASSUME QueriesInv, NEW t \in Threads, AnswerNumber(t) \/ NumberFails(t)
  PROVE  QueriesInv'
<1>1. ASSUME NEW k \in {"number", "code"}, call[t].step = "number", Return(t, [kind |-> k])
      PROVE  QueriesInv'
  <2> DEFINE r == [kind |-> k]
  <2>1. r \in Results /\ r.kind = k
    BY DEF Results
  <2>2. r # [kind |-> "exception", why |-> "tooSmall"]
    <3>1. [kind |-> "exception", why |-> "tooSmall"].kind = "exception"
      OBVIOUS
    <3> QED
      BY <2>1, <3>1
  <2>3. Return(t, r)
    BY <1>1
  <2> HIDE DEF r
  <2>4. ObjectInv'
    BY <1>1, <2>1, <2>3, FinishesAccessor
  <2> QED
    BY <2>1, <2>2, <2>3, <2>4, Finishes
<1>2. CASE AnswerNumber(t)
  BY <1>1, <1>2 DEF AnswerNumber, At
<1>3. CASE NumberFails(t) /\ kind = "peer"
  BY <1>1, <1>3 DEF NumberFails, At
<1>4. CASE NumberFails(t) /\ kind # "peer"
  BY <1>4, Throws DEF NumberFails, At
<1> QED
  BY <1>2, <1>3, <1>4

(* An answer of isOpen(): true only if the channel is not known closed. *)
LEMMA Answers ==
  ASSUME QueriesInv, NEW t \in Threads, call[t].step \in {"isOpen", "askOpen"},
         NEW a \in BOOLEAN, a => ~call[t].late,
         Return(t, [kind |-> "isOpen", answer |-> a, late |-> call[t].late])
  PROVE  QueriesInv'
<1>1. call[t].late \in BOOLEAN
  BY RunningCall DEF QueriesInv, Running
<1>2. PICK l \in BOOLEAN : l = call[t].late
  BY <1>1
<1> DEFINE r == [kind |-> "isOpen", answer |-> a, late |-> l]
<1>3. r \in Results /\ r.kind = "isOpen"
  BY DEF Results
<1>4. r.late = l
  OBVIOUS
<1>5. r.answer = a
  OBVIOUS
<1>6. r # [kind |-> "exception", why |-> "tooSmall"]
  <2>1. [kind |-> "exception", why |-> "tooSmall"].kind = "exception"
    OBVIOUS
  <2> QED
    BY <1>3, <2>1
<1>7. Return(t, r)
  BY <1>2
<1> HIDE DEF r
<1>8. ObjectInv'
  BY <1>3, <1>7, FinishesAccessor
<1> QED
  BY <1>2, <1>3, <1>4, <1>5, <1>6, <1>7, <1>8, Finishes

(* The flag is read, and the library is asked. *)
LEMMA AsksLibrary ==
  ASSUME QueriesInv, NEW t \in Threads, ~flag,
         NEW s \in {"askOpen", "askClosed"},
         call[t].step = IF s = "askOpen" THEN "isOpen" ELSE "isClosed",
         Go(t, s), UNCHANGED <<objectVars, strings, changes, heap, result, during, shut>>
  PROVE  QueriesInv'
<1> USE DEF QueriesInv
<1>1. call[t].step # "idle" /\ s \in Steps
  BY DEF Steps
<1>2. /\ call' \in AllCalls /\ call'[t] \in Running /\ call'[t].step = s
      /\ \A u \in Threads \ {t} : call'[u] = call[u]
  BY <1>1, GoStep
<1>3. call'[t].late = call[t].late
  BY <1>1, GoStep
<1>4. TypeOK'
  BY <1>2 DEF TypeOK, AllCalls, objectVars
<1>5. ObjectInv'
  BY <1>2, NotClosing
<1>6. Asks(t)' /\ Told(t)' /\ Got(t)'
  BY <1>2 DEF Asks, Told, Got, StringSteps
<1>7. Buffers(t)'
  BY <1>2 DEF ThreadInv, Buffers
<1>8. Late(t)'
  <2>1. call[t].late => shut
    BY <1>1, RunningCall DEF ThreadInv, Late
  <2>2. shut => handle \in Ended
    BY DEF ObjectInv
  <2> QED
    BY <1>2, <1>3, <2>1, <2>2 DEF Late, objectVars
<1>9. Ends(t)'
  BY DEF ThreadInv, Ends
<1>10. SameOthers(t)
  BY <1>2 DEF SameOthers
<1> QED
  BY <1>4, <1>5, <1>6, <1>7, <1>8, <1>9, <1>10, Others DEF ThreadInv, objectVars

LEMMA AnswersClosed ==
  ASSUME QueriesInv, NEW t \in Threads, call[t].step \in {"isClosed", "askClosed"},
         NEW a \in BOOLEAN, a => flag \/ handle \in Ended,
         AnswerClosed(t, a)
  PROVE  QueriesInv'
<1> USE DEF QueriesInv
<1> DEFINE r == [kind |-> "isClosed", answer |-> a]
<1>1. r \in Results /\ r.kind = "isClosed"
  BY DEF Results
<1>2. r # [kind |-> "exception", why |-> "tooSmall"]
  <2>1. [kind |-> "exception", why |-> "tooSmall"].kind = "exception"
    OBVIOUS
  <2> QED
    BY <1>1, <2>1
<1>3. /\ call' = [call EXCEPT ![t] = Idle] /\ result' = [result EXCEPT ![t] = r]
      /\ UNCHANGED <<objectVars, strings, changes, heap, during>>
  BY DEF AnswerClosed
<1>4. shut' = (shut \/ a)
  BY DEF AnswerClosed
<1> HIDE DEF r
<1>5. /\ call' \in AllCalls /\ call'[t] = Idle /\ \A u \in Threads \ {t} : call'[u] = call[u]
  BY <1>3 DEF TypeOK, AllCalls
<1>6. /\ result' \in [Threads -> Results] /\ result'[t] = r
      /\ \A u \in Threads \ {t} : result'[u] = result[u]
  BY <1>1, <1>3 DEF TypeOK
<1>7. TypeOK'
  <2>1. shut' \in BOOLEAN
    BY <1>4
  <2> QED
    BY <1>3, <1>5, <1>6, <2>1 DEF TypeOK, AllCalls, objectVars
<1>8. ObjectInv'
  <2>1. \A u \in Threads :
          call'[u].step \in {"close", "delete", "drop"} => call'[u] = call[u]
    BY <1>5, IdleCall
  <2>2. \A u \in Threads :
          call[u].step \in {"close", "delete", "drop"} => call'[u] = call[u]
    BY <1>5
  <2>3. shut' => flag \/ handle \in Ended
    BY <1>4 DEF ObjectInv
  <2> QED
    BY <1>3, <2>1, <2>2, <2>3 DEF ObjectInv, Closing, At, objectVars
<1>9. Asks(t)' /\ Told(t)' /\ Got(t)'
  BY <1>5, IdleCall DEF Asks, Told, Got, StringSteps
<1>10. Buffers(t)'
  BY <1>3, <1>5, IdleCall DEF ThreadInv, Buffers
<1>11. Late(t)'
  BY <1>5, IdleCall DEF Late
<1>12. Ends(t)'
  BY <1>1, <1>2, <1>6 DEF Ends
<1>13. SameOthers(t)
  BY <1>3, <1>5, <1>6 DEF SameOthers
<1> QED
  BY <1>3, <1>4, <1>7, <1>8, <1>9, <1>10, <1>11, <1>12, <1>13, Others DEF ThreadInv, objectVars

LEMMA StateStep ==
  ASSUME QueriesInv, NEW t \in Threads,
         ReadFlag(t) \/ AskOpen(t) \/ ReadFlagFirst(t) \/ AskClosed(t)
  PROVE  QueriesInv'
<1>1. CASE ReadFlag(t)
  <2>1. call[t].step = "isOpen"
    BY <1>1 DEF ReadFlag, At
  <2>2. CASE flag
    BY <1>1, <2>1, <2>2, Answers DEF ReadFlag
  <2>3. CASE ~flag
    BY <1>1, <2>1, <2>3, AsksLibrary DEF ReadFlag
  <2> QED
    BY <2>2, <2>3
<1>2. CASE AskOpen(t)
  <2>1. call[t].step = "askOpen"
    BY <1>2 DEF AskOpen, At
  <2>2. PICK a \in BOOLEAN : a = (handle = "open")
    OBVIOUS
  <2>3. a => ~call[t].late
    BY <2>1, <2>2 DEF QueriesInv, ThreadInv, Late, Ended
  <2>4. Return(t, [kind |-> "isOpen", answer |-> a, late |-> call[t].late])
    BY <1>2, <2>2 DEF AskOpen
  <2> QED
    BY <2>1, <2>3, <2>4, Answers
<1>3. CASE ReadFlagFirst(t)
  <2>1. call[t].step = "isClosed"
    BY <1>3 DEF ReadFlagFirst, At
  <2>2. CASE flag
    BY <1>3, <2>1, <2>2, AnswersClosed DEF ReadFlagFirst
  <2>3. CASE ~flag
    BY <1>3, <2>1, <2>3, AsksLibrary DEF ReadFlagFirst
  <2> QED
    BY <2>2, <2>3
<1>4. CASE AskClosed(t)
  <2>1. call[t].step = "askClosed"
    BY <1>4 DEF AskClosed, At
  <2>2. PICK a \in BOOLEAN : a = (handle = "closed")
    OBVIOUS
  <2>3. AnswerClosed(t, a)
    BY <1>4, <2>2 DEF AskClosed
  <2> QED
    BY <2>1, <2>2, <2>3, AnswersClosed DEF Ended
<1> QED
  BY <1>1, <1>2, <1>3, <1>4

-----------------------------------------------------------------------------
(* close *)
LEMMA CloseBegins == ASSUME QueriesInv, NEW t \in Threads, Close(t) PROVE QueriesInv'
<1> USE DEF QueriesInv
<1>1. PICK step \in {"close", "delete"} :
        /\ Start(t, step, "none")
        /\ step = "close" => kind \notin Tracks
        /\ ~flag /\ flag' = TRUE /\ UNCHANGED <<kind, handle, known>>
  BY DEF Close
<1>2. step \in Steps /\ "none" \in Sources \cup {"none"}
  BY DEF Steps
<1>3. /\ call' \in AllCalls /\ call'[t] \in Running
      /\ call'[t].step = step
      /\ result' \in [Threads -> Results] /\ result'[t] = NoResult
      /\ during' \in [Threads -> SUBSET (Strings \cup {NoString})]
      /\ UNCHANGED <<strings, changes, heap, shut>>
      /\ SameOthers(t)
  BY <1>1, <1>2, StartStep
<1>4. call'[t].late = shut
  BY <1>1, <1>2, StartStep
<1>5. TypeOK'
  BY <1>1, <1>3 DEF TypeOK, AllCalls
<1>6. call[t].step = "idle" /\ handle # "absent"
  BY <1>1 DEF Start, At
<1>7. ObjectInv'
  <2>1. \A u \in Threads : ~Closing(u) /\ handle # "deleted"
    BY <1>1 DEF ObjectInv
  <2>2. \A u \in Threads \ {t} : call'[u].step \notin {"close", "delete", "drop"}
    BY <1>3, <2>1 DEF Closing, SameOthers
  <2> QED
    BY <1>1, <1>3, <1>6, <2>1, <2>2 DEF ObjectInv, Closing, At
<1>8. heap[t] = 0
  BY <1>6 DEF ThreadInv, Buffers
<1>9. Asks(t)' /\ Told(t)' /\ Got(t)'
  BY <1>3 DEF Asks, Told, Got, StringSteps
<1>10. Buffers(t)'
  BY <1>3, <1>8 DEF Buffers
<1>11. Late(t)'
  BY <1>3, <1>4 DEF Late
<1>12. Ends(t)'
  <2>1. NoResult.kind = "none" /\ NoResult # [kind |-> "exception", why |-> "tooSmall"]
    BY DEF NoResult
  <2> QED
    BY <1>3, <2>1 DEF Ends
<1> QED
  BY <1>1, <1>3, <1>5, <1>7, <1>9, <1>10, <1>11, <1>12, Others DEF ThreadInv

(* What a step of the closer keeps beside the object. *)
LEMMA Closes ==
  ASSUME QueriesInv, NEW t \in Threads, Closing(t),
         call' \in AllCalls,
         call'[t] = Idle \/ (call'[t] \in Running /\ call'[t].step \in {"delete", "drop"}),
         call'[t] \in Running => call'[t].late = call[t].late,
         \A u \in Threads \ {t} : call'[u] = call[u],
         handle' \in {"absent", "connecting", "open", "closed", "deleted"},
         handle \in Ended => handle' \in Ended, known' \in BOOLEAN,
         UNCHANGED <<kind, flag, strings, changes, heap, result, during, shut>>,
         ObjectInv'
  PROVE  QueriesInv'
<1> USE DEF QueriesInv
<1>1. TypeOK'
  BY DEF TypeOK, AllCalls
<1>2. call'[t].step \in {"idle", "delete", "drop"}
  BY IdleCall
<1>3. Asks(t)' /\ Told(t)' /\ Got(t)'
  BY <1>2 DEF Asks, Told, Got, StringSteps
<1>4. Buffers(t)'
  BY <1>2 DEF ThreadInv, Buffers, Closing
<1>5. Late(t)'
  <2>1. call[t] \in Running
    BY RunningCall DEF Closing
  <2> QED
    BY <1>2, <2>1, IdleCall DEF ThreadInv, Late
<1>6. Ends(t)'
  BY DEF ThreadInv, Ends
<1>7. SameOthers(t)
  BY DEF SameOthers
<1> QED
  BY <1>1, <1>3, <1>4, <1>5, <1>6, <1>7, Others DEF ThreadInv

LEMMA CloseStepInv == ASSUME QueriesInv, NEW t \in Threads, CloseStep(t) PROVE QueriesInv'
<1> USE DEF QueriesInv
<1>1. CASE NativeClose(t)
  <2>1. /\ call[t].step = "close" /\ handle' = "closed" /\ Go(t, "delete")
        /\ UNCHANGED <<kind, flag, known, strings, changes, heap, result, during, shut>>
    BY <1>1 DEF NativeClose, At
  <2>2. /\ call' \in AllCalls /\ call'[t] \in Running
        /\ call'[t].step = "delete"
        /\ \A u \in Threads \ {t} : call'[u] = call[u]
    BY <2>1, GoStep DEF Steps
  <2>3. call'[t].late = call[t].late
    BY <2>1, GoStep DEF Steps
  <2>4. Closing(t) /\ handle # "deleted" /\ kind \notin Tracks
    BY <2>1 DEF ObjectInv, Closing
  <2>5. \A u \in Threads \ {t} : call'[u].step \notin {"close", "delete", "drop"}
    BY <2>2, <2>4 DEF ObjectInv, Closing
  <2>6. known = FALSE /\ kind # "remoteTrack" /\ flag
    BY <2>4 DEF ObjectInv, Tracks, TypeOK
  <2>7. ObjectInv'
    BY <2>1, <2>2, <2>4, <2>5, <2>6 DEF ObjectInv, Closing, At, Ended
  <2> QED
    BY <2>1, <2>2, <2>3, <2>4, <2>7, Closes DEF Ended, TypeOK
<1>2. CASE Delete(t)
  <2>1. /\ call[t].step = "delete" /\ handle' = "deleted"
        /\ UNCHANGED <<kind, flag, known, strings, changes, heap, result, during, shut>>
    BY <1>2 DEF Delete, At
  <2>2. Closing(t) /\ flag
    BY <2>1 DEF ObjectInv, Closing
  <2>3. CASE kind \in Tracks
    <3>1. Go(t, "drop")
      BY <1>2, <2>3 DEF Delete, Go, TypeOK
    <3>2. /\ call' \in AllCalls /\ call'[t] \in Running
          /\ call'[t].step = "drop"
          /\ \A u \in Threads \ {t} : call'[u] = call[u]
      BY <2>1, <3>1, GoStep DEF Steps
    <3>3. call'[t].late = call[t].late
      BY <2>1, <3>1, GoStep DEF Steps
    <3>4. \A u \in Threads \ {t} : call'[u].step \notin {"close", "delete", "drop"}
      BY <2>2, <3>2 DEF ObjectInv, Closing
    <3>5. ObjectInv'
      BY <2>1, <2>2, <3>2, <3>4 DEF ObjectInv, Closing, At, Ended
    <3> QED
      BY <2>1, <2>2, <3>2, <3>3, <3>5, Closes DEF Ended, TypeOK
  <2>4. CASE kind \notin Tracks
    <3>1. /\ call' \in AllCalls /\ call'[t] = Idle
          /\ \A u \in Threads \ {t} : call'[u] = call[u]
      BY <1>2, <2>4 DEF Delete, TypeOK, AllCalls
    <3>2. \A u \in Threads : call'[u].step \notin {"close", "delete", "drop"}
      BY <2>2, <3>1, IdleCall DEF ObjectInv, Closing
    <3>3. known = FALSE /\ kind # "remoteTrack"
      BY <2>4 DEF ObjectInv, Tracks, TypeOK
    <3>4. ObjectInv'
      BY <2>1, <2>2, <3>1, <3>2, <3>3 DEF ObjectInv, Closing, At, Ended
    <3> QED
      BY <2>1, <2>2, <3>1, <3>4, IdleCall, Closes DEF Ended, TypeOK
  <2> QED
    BY <2>3, <2>4
<1>3. CASE DeleteTrackFails(t)
  <2> DEFINE r == [kind |-> "exception", why |-> "failure"]
  <2>1. /\ call[t].step = "delete" /\ Return(t, r)
    BY <1>3 DEF DeleteTrackFails, At, Throw
  <2>2. r \in Results /\ r.kind = "exception"
    BY DEF Results
  <2>3. r # [kind |-> "exception", why |-> "tooSmall"]
    OBVIOUS
  <2> HIDE DEF r
  <2>4. call'[t] = Idle /\ UNCHANGED <<objectVars, shut>> /\ SameOthers(t)
    BY <2>1, <2>2, ReturnStep
  <2>5. \A u \in Threads : call'[u].step \notin {"close", "delete", "drop"}
    BY <2>1, <2>4, IdleCall DEF ObjectInv, Closing, SameOthers
  <2>6. handle # "deleted" /\ flag
    BY <2>1 DEF ObjectInv, Closing
  <2>7. ObjectInv'
    BY <2>4, <2>5, <2>6 DEF ObjectInv, Closing, At, objectVars
  <2> QED
    BY <2>1, <2>2, <2>3, <2>7, Finishes
<1>4. CASE DropTrack(t)
  <2>1. /\ call[t].step = "drop" /\ known' = FALSE
        /\ call' = [call EXCEPT ![t] = Idle]
        /\ UNCHANGED <<kind, handle, flag, strings, changes, heap, result, during, shut>>
    BY <1>4 DEF DropTrack, At
  <2>2. /\ call' \in AllCalls /\ call'[t] = Idle
        /\ \A u \in Threads \ {t} : call'[u] = call[u]
    BY <2>1 DEF TypeOK, AllCalls
  <2>3. Closing(t) /\ handle = "deleted" /\ flag
    BY <2>1 DEF ObjectInv, Closing
  <2>4. \A u \in Threads : call'[u].step \notin {"close", "delete", "drop"}
    BY <2>2, <2>3, IdleCall DEF ObjectInv, Closing
  <2>5. ObjectInv'
    BY <2>1, <2>3, <2>4 DEF ObjectInv, Closing, At, Ended
  <2> QED
    BY <2>1, <2>2, <2>3, <2>5, IdleCall, Closes DEF TypeOK
<1>5. CASE DeleteFails(t)
  <2>1. call[t].step = "delete" /\ Return(t, NoResult)
    BY <1>5 DEF DeleteFails, At
  <2>2. NoResult \in Results /\ NoResult.kind = "none"
    BY DEF Results, NoResult
  <2>3. NoResult # [kind |-> "exception", why |-> "tooSmall"]
    BY DEF NoResult
  <2>4. call'[t] = Idle /\ UNCHANGED <<objectVars, shut>> /\ SameOthers(t)
    BY <2>1, <2>2, ReturnStep
  <2>5. \A u \in Threads : call'[u].step \notin {"close", "delete", "drop"}
    BY <2>1, <2>4, IdleCall DEF ObjectInv, Closing, SameOthers
  <2>6. handle # "deleted" /\ flag
    BY <2>1 DEF ObjectInv, Closing
  <2>7. ObjectInv'
    BY <2>4, <2>5, <2>6 DEF ObjectInv, Closing, At, objectVars
  <2> QED
    BY <2>1, <2>2, <2>3, <2>7, Finishes
<1> QED
  BY <1>1, <1>2, <1>3, <1>4, <1>5 DEF CloseStep

-----------------------------------------------------------------------------
(* The peers at both sides and their negotiation *)
LEMMA ReplaceStep ==
  ASSUME QueriesInv, NEW source \in Sources, NEW length \in Lengths, Replace(source, length)
  PROVE  QueriesInv'
<1> USE DEF QueriesInv
<1> DEFINE x == [version |-> changes + 1, length |-> length]
<1>1. /\ changes < MaxChanges /\ changes' = changes + 1
      /\ strings' = [strings EXCEPT ![source] = x]
      /\ during' = [t \in Threads |->
                     IF ~At(t, "idle") /\ call[t].source = source
                       THEN during[t] \cup {strings'[source]} ELSE during[t]]
      /\ UNCHANGED <<objectVars, call, heap, result, shut>>
  BY DEF Replace
<1>2. x \in Strings /\ changes' \in 0 .. MaxChanges
  BY <1>1, QueriesAssumption DEF Strings, TypeOK
<1> HIDE DEF x
<1>3. /\ strings' \in [Sources -> Strings \cup {NoString}] /\ strings'[source] = x
      /\ \A s \in Sources \ {source} : strings'[s] = strings[s]
  BY <1>1, <1>2 DEF TypeOK
<1>4. /\ during' \in [Threads -> SUBSET (Strings \cup {NoString})]
      /\ \A t \in Threads : during[t] \subseteq during'[t]
  BY <1>1, <1>2, <1>3 DEF TypeOK
<1>5. TypeOK'
  BY <1>1, <1>2, <1>3, <1>4 DEF TypeOK, objectVars
<1>6. ObjectInv'
  BY <1>1 DEF ObjectInv, Closing, At, objectVars
<1>7. ASSUME NEW t \in Threads
      PROVE  ThreadInv(t)'
  <2>1. Asks(t)'
    <3> SUFFICES ASSUME call[t].step \in StringSteps
                 PROVE  call[t].source \in Sources /\ strings'[call[t].source] \in during'[t]
      BY <1>1 DEF Asks
    <3>1. call[t].source \in Sources /\ strings[call[t].source] \in during[t]
      BY DEF ThreadInv, Asks
    <3>2. CASE call[t].source = source
      <4>1. ~At(t, "idle")
        BY DEF At, StringSteps
      <4> QED
        BY <1>1, <3>1, <3>2, <4>1
    <3>3. CASE call[t].source # source
      BY <1>3, <1>4, <3>1, <3>3
    <3> QED
      BY <3>2, <3>3
  <2>2. Told(t)'
    <3>1. Told(t)
      BY DEF ThreadInv
    <3> QED
      BY <1>1, <1>4, <3>1 DEF Told, SizeOf
  <2>3. Got(t)' /\ Buffers(t)'
    BY <1>1, <1>4 DEF ThreadInv, Got, Buffers
  <2>4. Late(t)'
    BY <1>1 DEF ThreadInv, Late, objectVars
  <2>5. Ends(t)'
    BY <1>1, <1>4 DEF ThreadInv, Ends
  <2> QED
    BY <2>1, <2>2, <2>3, <2>4, <2>5 DEF ThreadInv
<1> QED
  BY <1>5, <1>6, <1>7

LEMMA HandleMoves ==
  ASSUME QueriesInv, RemoteAnswers \/ RemoteCloses \/ OnTrack \/ AddTrack
  PROVE  QueriesInv'
<1> USE DEF QueriesInv
<1>1. /\ UNCHANGED <<kind, flag, strings, changes, call, heap, result, during, shut>>
      /\ handle' \in {"connecting", "open", "closed"} /\ handle # "deleted"
      /\ handle \in Ended => handle' \in Ended
      /\ known' \in BOOLEAN
  BY DEF RemoteAnswers, RemoteCloses, OnTrack, AddTrack, Ended, TypeOK
<1>2. TypeOK'
  BY <1>1 DEF TypeOK
<1>3. /\ known' => kind = "remoteTrack"
      /\ kind = "remoteTrack" /\ handle' \in {"connecting", "open"} => known'
  BY DEF RemoteAnswers, RemoteCloses, OnTrack, AddTrack, ObjectInv, TypeOK
<1>4. ObjectInv'
  <2>1. \A u \in Threads : call[u].step # "drop"
    BY <1>1 DEF ObjectInv
  <2> QED
    BY <1>1, <1>3, <2>1 DEF ObjectInv, Closing, At
<1>5. ASSUME NEW t \in Threads
      PROVE  ThreadInv(t)'
  <2>1. Asks(t)' /\ Told(t)' /\ Got(t)' /\ Buffers(t)'
    BY <1>1 DEF ThreadInv, Asks, Told, Got, Buffers
  <2>2. Late(t)'
    BY <1>1 DEF ThreadInv, Late
  <2>3. Ends(t)'
    BY <1>1 DEF ThreadInv, Ends
  <2> QED
    BY <2>1, <2>2, <2>3 DEF ThreadInv
<1> QED
  BY <1>2, <1>4, <1>5

-----------------------------------------------------------------------------
(* The invariant holds of a new object, *)
LEMMA InitInv == Init => QueriesInv
<1> SUFFICES ASSUME Init PROVE QueriesInv
  OBVIOUS
<1>1. TypeOK
  <2>1. strings \in [Sources -> Strings \cup {NoString}]
    <3>1. PICK n \in Lengths :
            strings = [s \in Sources |-> IF s \in {"label", "media"}
                                           THEN [version |-> 0, length |-> n] ELSE NoString]
      BY DEF Init
    <3>2. [version |-> 0, length |-> n] \in Strings
      BY QueriesAssumption DEF Strings
    <3> QED
      BY <3>1, <3>2
  <2>2. call \in [Threads -> {Idle} \cup Running] /\ result \in [Threads -> Results]
    BY NoResultKind DEF Init
  <2>3. changes \in 0 .. MaxChanges
    BY QueriesAssumption DEF Init
  <2>4. heap \in [Threads -> 0 .. 2] /\ during \in [Threads -> SUBSET (Strings \cup {NoString})]
    BY DEF Init
  <2> QED
    BY <2>1, <2>2, <2>3, <2>4 DEF Init, TypeOK
<1>2. \A t \in Threads : call[t] = Idle /\ call[t].step = "idle"
  BY IdleCall DEF Init
<1>3. ObjectInv
  BY <1>2 DEF Init, ObjectInv, Closing, Tracks, Kinds
<1>4. \A t \in Threads : ThreadInv(t)
  <2>1. NoResult # [kind |-> "exception", why |-> "tooSmall"]
    BY DEF NoResult
  <2> QED
    BY <1>2, <2>1, IdleCall, NoResultKind
       DEF Init, ThreadInv, Asks, Told, Got, Buffers, Late, Ends, StringSteps
<1> QED
  BY <1>1, <1>3, <1>4 DEF QueriesInv

(* ... and every step preserves it. *)
LEMMA NextInv == QueriesInv /\ [Next]_vars => QueriesInv'
<1> SUFFICES ASSUME QueriesInv, [Next]_vars PROVE QueriesInv'
  OBVIOUS
<1>1. CASE Environment
  BY <1>1, ReplaceStep, HandleMoves DEF Environment
<1>2. ASSUME NEW t \in Threads,
             \/ Ask(t) \/ GetDynamicString(t) \/ GetPair(t)
             \/ AnswerNumber(t) \/ NumberFails(t)
             \/ ReadFlag(t) \/ AskOpen(t) \/ ReadFlagFirst(t) \/ AskClosed(t)
             \/ Close(t) \/ CloseStep(t)
      PROVE  QueriesInv'
  BY <1>2, AskStep, FetchingStep, NumberStep, StateStep, CloseBegins, CloseStepInv
<1>3. CASE UNCHANGED vars
  <2>1. TypeOK' /\ ObjectInv'
    BY <1>3 DEF QueriesInv, TypeOK, ObjectInv, Closing, At, vars, objectVars
  <2>2. ASSUME NEW t \in Threads PROVE ThreadInv(t)'
    <3>1. ThreadInv(t)
      BY DEF QueriesInv
    <3>2. UNCHANGED <<handle, strings, call, heap, result, during, shut>>
      BY <1>3 DEF vars, objectVars
    <3>3. Asks(t)' /\ Told(t)' /\ Got(t)' /\ Buffers(t)'
      BY <3>1, <3>2 DEF ThreadInv, Asks, Told, Got, Buffers
    <3>4. Late(t)' /\ Ends(t)'
      BY <3>1, <3>2 DEF ThreadInv, Late, Ends
    <3> QED
      BY <3>3, <3>4 DEF ThreadInv
  <2> QED
    BY <2>1, <2>2 DEF QueriesInv
<1> QED
  BY <1>1, <1>2, <1>3 DEF Next

(* What calls know at each step, and who closes: the inductive invariant.  *)
THEOREM QueriesInvariant == Spec => []QueriesInv
<1> QED
  BY InitInv, NextInv, PTL DEF Spec

(* The variables keep their types. *)
THEOREM TypeCorrect == Spec => []TypeOK
<1>1. QueriesInv => TypeOK
  BY DEF QueriesInv
<1> QED
  BY <1>1, QueriesInvariant, PTL

(* get_dynamic_string and rtcGetSelectedCandidatePair return strings the   *)
(* object had during the call, uncut.                                      *)
THEOREM StringsAreWhole == Spec => []StringIsWhole
<1>1. QueriesInv => StringIsWhole
  BY DEF QueriesInv, ThreadInv, Ends, StringIsWhole
<1> QED
  BY <1>1, QueriesInvariant, PTL

(* Their buffers are allocated when used, and freed when a call ends.      *)
THEOREM BuffersAreOwned == Spec => []BuffersOwned
<1>1. QueriesInv => BuffersOwned
  BY DEF QueriesInv, ThreadInv, Buffers, BuffersOwned
<1> QED
  BY <1>1, QueriesInvariant, PTL

(* Their buffer is too small only if the string was replaced.              *)
THEOREM TooSmallAfterChange == Spec => []TooSmallIsStale
<1>1. QueriesInv => TooSmallIsStale
  BY DEF QueriesInv, ThreadInv, Ends, TooSmallIsStale
<1> QED
  BY <1>1, QueriesInvariant, PTL

(* After isClosed() has returned true no isOpen() that begins does.        *)
THEOREM ClosedStaysClosed == Spec => []ClosedIsFinal
<1>1. QueriesInv => ClosedIsFinal
  BY DEF QueriesInv, ThreadInv, Ends, ClosedIsFinal
<1> QED
  BY <1>1, QueriesInvariant, PTL

(* A handle is deleted by one close() only, and a deleted track dropped.   *)
THEOREM DeletedOnce == Spec => []DeletedOnceAndDropped
<1>1. QueriesInv => DeletedOnceAndDropped
  BY DEF QueriesInv, ObjectInv, At, DeletedOnceAndDropped
<1> QED
  BY <1>1, QueriesInvariant, PTL
=============================================================================
