----------------------------- MODULE HandleQueries -----------------------------
(***************************************************************************)
(* The accessors of a peer, a channel or a track, and the end of its       *)
(* native handle.                                                          *)
(*                                                                         *)
(* A string is fetched in two native calls: get_dynamic_string asks for    *)
(* its size, allocates a buffer and asks for the string.  The addresses of *)
(* the selected candidate pair are fetched in one call, into two buffers   *)
(* of a fixed size.  Between the steps negotiation may replace the string, *)
(* and another thread may close the object.  Channels and tracks have a    *)
(* `closed` flag, which accessors read before they call the library; peers *)
(* have none, and their Cleaner action, which runs once, takes its place.  *)
(*                                                                         *)
(* A behaviour follows one object of any of the three kinds.  What closing *)
(* does to callbacks is the subject of PeerLifecycle.                      *)
(***************************************************************************)
EXTENDS Naturals

CONSTANTS Threads,    \* threads of the application
          Lengths,    \* lengths strings may have
          PairRoom,   \* bufSize of rtcGetSelectedCandidatePair
          MaxChanges  \* bound: how often negotiation replaces a string

ASSUME QueriesAssumption ==
  /\ Lengths \subseteq Nat
  /\ PairRoom \in Nat
  /\ MaxChanges \in Nat

VARIABLES
  kind,    \* what the object is
  handle,  \* the state of its native handle
  flag,    \* `closed`, or that the Cleaner action has run
  known,   \* whether the object is in the map `tracks` of its peer
  strings, \* the strings the library has, by where they come from
  changes, \* how often one was replaced
  call,    \* per thread: the call it is in
  heap,    \* per thread: the buffers it has allocated
  result,  \* per thread: how its last call ended
  during,  \* history: per thread, the strings there were since its call began
  shut     \* history: whether isClosed() has returned true

objectVars == <<kind, handle, flag, known>>
vars == <<kind, handle, flag, known, strings, changes, call, heap, result, during, shut>>

Tracks == {"localTrack", "remoteTrack"}
Kinds == {"peer", "channel"} \cup Tracks

(* Local and remote description, each with its type; both addresses of the *)
(* selected pair; label and protocol of a channel; description and media   *)
(* id of a track.                                                          *)
Sources == {"local", "remote", "pair", "label", "media"}

Strings == [version : 0 .. MaxChanges, length : Lengths]
NoString == [version |-> 0]

Idle == [step |-> "idle"]
NoResult == [kind |-> "none"]

Init ==
  /\ kind \in Kinds
  /\ handle = IF kind \in Tracks THEN "absent" ELSE "connecting"
  /\ flag = FALSE
  /\ known = FALSE
  /\ \E n \in Lengths :
       strings = [s \in Sources |-> IF s \in {"label", "media"}
                                      THEN [version |-> 0, length |-> n]
                                      ELSE NoString]
  /\ changes = 0
  /\ call = [t \in Threads |-> Idle]
  /\ heap = [t \in Threads |-> 0]
  /\ result = [t \in Threads |-> NoResult]
  /\ during = [t \in Threads |-> {}]
  /\ shut = FALSE

-----------------------------------------------------------------------------
At(t, step) == call[t].step = step

Go(t, step) == call' = [call EXCEPT ![t].step = step]

(* A call of t begins; `late` says that the object was known to be closed. *)
Start(t, step, source) ==
  /\ At(t, "idle")
  /\ handle # "absent"
  /\ call' = [call EXCEPT ![t] = [step |-> step, source |-> source,
                               size |-> 0, text |-> NoString, late |-> shut]]
  /\ result' = [result EXCEPT ![t] = NoResult]
  /\ during' = [during EXCEPT ![t] = {strings[s] : s \in {source} \cap Sources}]
  /\ UNCHANGED <<strings, changes, heap, shut>>

(* The call of t ends, with its buffers freed. *)
Return(t, r) ==
  /\ call' = [call EXCEPT ![t] = Idle]
  /\ result' = [result EXCEPT ![t] = r]
  /\ heap' = [heap EXCEPT ![t] = 0]
  /\ UNCHANGED <<objectVars, strings, changes, during, shut>>

Throw(t, why) == Return(t, [kind |-> "exception", why |-> why])

String(t) == strings[call[t].source]

(* The library has the string that t asks for. *)
Available(t) == handle # "deleted" /\ String(t) # NoString

(* The size of a string counts its terminator. *)
SizeOf(s) == s.length + 1

(* The library's errors become exceptions. *)
LibraryError(t) == IF handle = "deleted" THEN "invalid" ELSE "notAvailable"
FetchError(t) == IF Available(t) THEN "tooSmall" ELSE LibraryError(t)

-----------------------------------------------------------------------------
(* Faulty variants, each the change a plausible bug would make; no action  *)
(* below uses them.                                                        *)

AllocateWithoutTerminator(t) ==
  /\ At(t, "allocate")
  /\ call' = [call EXCEPT ![t] = [@ EXCEPT !.step = "fetch", !.size = @ - 1]]
  /\ heap' = [heap EXCEPT ![t] = 1]
  /\ UNCHANGED <<objectVars, strings, changes, result, during, shut>>

FetchTruncated(t) ==  \* a string that has grown is cut
  /\ At(t, "fetch") /\ Available(t)
  /\ call' = [call EXCEPT ![t].step = "convert",
       ![t].text = [String(t) EXCEPT !.length =
         IF SizeOf(String(t)) <= call[t].size THEN @ ELSE call[t].size - 1]]
  /\ UNCHANGED <<objectVars, strings, changes, heap, result, during, shut>>

FetchFailsKeeping(t) ==  \* the buffer is freed on success only
  /\ At(t, "fetch")
  /\ Available(t) => SizeOf(String(t)) > call[t].size
  /\ call' = [call EXCEPT ![t] = Idle]
  /\ result' = [result EXCEPT ![t] = [kind |-> "exception", why |-> FetchError(t)]]
  /\ UNCHANGED <<objectVars, strings, changes, heap, during, shut>>

AskFlagOnly(t) ==  \* isOpen does not ask the library
  /\ At(t, "isOpen")
  /\ Return(t, [kind |-> "isOpen", answer |-> ~flag, late |-> call[t].late])

CloseTwice(t) ==  \* no compareAndSet
  /\ Start(t, IF kind \in Tracks THEN "delete" ELSE "close", "none")
  /\ flag' = TRUE
  /\ UNCHANGED <<kind, handle, known>>

-----------------------------------------------------------------------------
(* Negotiation, the remote side, and the tracks of either side             *)

(* A description or a pair is set or replaced.  Labels stay. *)
Replace(source, length) ==
  /\ changes < MaxChanges
  /\ handle \notin {"absent", "deleted"}
  /\ CASE kind = "peer"     -> source \in {"local", "remote", "pair"}
       [] kind \in Tracks   -> source = "media"
       [] kind = "channel"  -> FALSE
  /\ changes' = changes + 1
  /\ strings' = [strings EXCEPT ![source] = [version |-> changes + 1, length |-> length]]
  /\ during' = [t \in Threads |->
       IF ~At(t, "idle") /\ call[t].source = source
         THEN during[t] \cup {strings'[source]}
         ELSE during[t]]
  /\ UNCHANGED <<objectVars, call, heap, result, shut>>

RemoteAnswers ==
  /\ handle = "connecting"
  /\ handle' = "open"
  /\ UNCHANGED <<kind, flag, known, strings, changes, call, heap, result, during, shut>>

RemoteCloses ==
  /\ kind = "channel"
  /\ handle \in {"connecting", "open"}
  /\ handle' = "closed"
  /\ UNCHANGED <<kind, flag, known, strings, changes, call, heap, result, during, shut>>

(* A track of the remote side is entered in the map, one of this side not. *)
OnTrack ==
  /\ kind = "remoteTrack"
  /\ handle = "absent"
  /\ handle' = "open"
  /\ known' = TRUE
  /\ UNCHANGED <<kind, flag, strings, changes, call, heap, result, during, shut>>

AddTrack ==
  /\ kind = "localTrack"
  /\ handle = "absent"
  /\ handle' = "connecting"
  /\ UNCHANGED <<kind, flag, known, strings, changes, call, heap, result, during, shut>>

-----------------------------------------------------------------------------
(* The accessors begin.  Those of channels and tracks check the flag.      *)

EnsureNotClosed == ~flag

(* localDescription, localDescriptionType *)
LocalDescription(t) ==
  kind = "peer" /\ Start(t, "size", "local") /\ UNCHANGED objectVars

RemoteDescription(t) ==
  kind = "peer" /\ Start(t, "size", "remote") /\ UNCHANGED objectVars

(* localAddress, remoteAddress *)
Address(t) ==
  kind = "peer" /\ Start(t, "size", "pair") /\ UNCHANGED objectVars

LabelOrProtocol(t) ==
  kind = "channel" /\ EnsureNotClosed /\ Start(t, "size", "label") /\ UNCHANGED objectVars

TrackDescription(t) ==
  kind \in Tracks /\ EnsureNotClosed /\ Start(t, "size", "media") /\ UNCHANGED objectVars

SelectedCandidatePair(t) ==
  kind = "peer" /\ Start(t, "local", "pair") /\ UNCHANGED objectVars

-----------------------------------------------------------------------------
(* get_dynamic_string *)

QuerySize(t) ==
  /\ At(t, "size")
  /\ Available(t)
  /\ call' = [call EXCEPT ![t].step = "allocate", ![t].size = SizeOf(String(t))]
  /\ UNCHANGED <<objectVars, strings, changes, heap, result, during, shut>>

QuerySizeFails(t) ==
  /\ At(t, "size")
  /\ ~Available(t)
  /\ Throw(t, LibraryError(t))

Allocate(t) ==
  /\ At(t, "allocate")
  /\ heap' = [heap EXCEPT ![t] = 1]
  /\ Go(t, "fetch")
  /\ UNCHANGED <<objectVars, strings, changes, result, during, shut>>

(* throw_native_exception, with errno *)
AllocateFails(t) ==
  /\ At(t, "allocate")
  /\ Throw(t, "native")

FetchString(t) ==
  /\ At(t, "fetch")
  /\ Available(t)
  /\ SizeOf(String(t)) <= call[t].size
  /\ call' = [call EXCEPT ![t].step = "convert", ![t].text = String(t)]
  /\ UNCHANGED <<objectVars, strings, changes, heap, result, during, shut>>

FetchFails(t) ==
  /\ At(t, "fetch")
  /\ Available(t) => SizeOf(String(t)) > call[t].size
  /\ Throw(t, FetchError(t))

(* NewStringUTF copies the buffer, which is then freed. *)
Convert(t) ==
  /\ At(t, "convert")
  /\ Return(t, [kind |-> "string", text |-> call[t].text])

-----------------------------------------------------------------------------
(* rtcGetSelectedCandidatePair: a buffer for each address, and one call    *)

AllocateLocal(t) ==
  /\ At(t, "local")
  /\ heap' = [heap EXCEPT ![t] = 1]
  /\ Go(t, "remote")
  /\ UNCHANGED <<objectVars, strings, changes, result, during, shut>>

AllocateRemote(t) ==
  /\ At(t, "remote")
  /\ heap' = [heap EXCEPT ![t] = 2]
  /\ Go(t, "pair")
  /\ UNCHANGED <<objectVars, strings, changes, result, during, shut>>

(* Without memory for the second, the first is freed. *)
AllocatePairFails(t) ==
  /\ At(t, "local") \/ At(t, "remote")
  /\ Throw(t, "native")

FetchPair(t) ==
  /\ At(t, "pair")
  /\ Available(t)
  /\ SizeOf(String(t)) <= PairRoom
  /\ call' = [call EXCEPT ![t].step = "parse", ![t].text = String(t)]
  /\ UNCHANGED <<objectVars, strings, changes, heap, result, during, shut>>

FetchPairFails(t) ==
  /\ At(t, "pair")
  /\ Available(t) => SizeOf(String(t)) > PairRoom
  /\ Throw(t, IF Available(t) THEN "longAddress" ELSE LibraryError(t))

(* CandidatePair.parse copies both. *)
ConvertPair(t) ==
  /\ At(t, "parse")
  /\ Return(t, [kind |-> "string", text |-> call[t].text])

-----------------------------------------------------------------------------
(* Numbers: one call of the library, whose error WRAP_ERROR or wrapError   *)
(* throws.  Those of a peer return it for the number.                      *)

ChannelNumber(t) ==
  kind = "channel" /\ EnsureNotClosed /\ Start(t, "number", "none") /\ UNCHANGED objectVars

PeerNumber(t) ==
  kind = "peer" /\ Start(t, "number", "none") /\ UNCHANGED objectVars

TrackDirection(t) ==
  kind \in Tracks /\ EnsureNotClosed /\ Start(t, "number", "none") /\ UNCHANGED objectVars

AnswerNumber(t) ==
  /\ At(t, "number")
  /\ handle # "deleted"
  /\ Return(t, [kind |-> "number"])

NumberFails(t) ==
  /\ At(t, "number")
  /\ handle = "deleted"
  /\ IF kind = "peer" THEN Return(t, [kind |-> "code"]) ELSE Throw(t, "invalid")

-----------------------------------------------------------------------------
(* isOpen and isClosed: the flag, then the library *)

IsOpen(t) == kind = "channel" /\ Start(t, "isOpen", "none") /\ UNCHANGED objectVars

IsClosed(t) == kind = "channel" /\ Start(t, "isClosed", "none") /\ UNCHANGED objectVars

ReadFlag(t) ==
  /\ At(t, "isOpen")
  /\ IF flag THEN Return(t, [kind |-> "isOpen", answer |-> FALSE, late |-> call[t].late])
             ELSE /\ Go(t, "askOpen")
                  /\ UNCHANGED <<objectVars, strings, changes, heap, result, during, shut>>

AskOpen(t) ==
  /\ At(t, "askOpen")
  /\ Return(t, [kind |-> "isOpen", answer |-> handle = "open", late |-> call[t].late])

(* isClosed() returns what the flag or the library says. *)
AnswerClosed(t, answer) ==
  /\ shut' = (shut \/ answer)
  /\ call' = [call EXCEPT ![t] = Idle]
  /\ result' = [result EXCEPT ![t] = [kind |-> "isClosed", answer |-> answer]]
  /\ UNCHANGED <<objectVars, strings, changes, heap, during>>

ReadFlagFirst(t) ==
  /\ At(t, "isClosed")
  /\ IF flag THEN AnswerClosed(t, TRUE)
             ELSE /\ Go(t, "askClosed")
                  /\ UNCHANGED <<objectVars, strings, changes, heap, result, during, shut>>

AskClosed(t) == At(t, "askClosed") /\ AnswerClosed(t, handle = "closed")

-----------------------------------------------------------------------------
(* close: the flag, the library, and the map of tracks *)

Close(t) ==
  /\ ~flag
  /\ Start(t, IF kind \in Tracks THEN "delete" ELSE "close", "none")
  /\ flag' = TRUE
  /\ UNCHANGED <<kind, handle, known>>

(* rtcClosePeerConnection, rtcClose.  (ERR_INVALID, after which nothing is *)
(* deleted, is their answer for a handle that is gone; the flag keeps the  *)
(* one that closes from meeting one.)                                      *)
NativeClose(t) ==
  /\ At(t, "close")
  /\ handle' = "closed"
  /\ Go(t, "delete")
  /\ UNCHANGED <<kind, flag, known, strings, changes, heap, result, during, shut>>

Delete(t) ==
  /\ At(t, "delete")
  /\ handle' = "deleted"
  /\ call' = [call EXCEPT ![t] = IF kind \in Tracks THEN [@ EXCEPT !.step = "drop"] ELSE Idle]
  /\ UNCHANGED <<kind, flag, known, strings, changes, heap, result, during, shut>>

(* What rtcDeletePeerConnection and rtcDeleteDataChannel report is ignored. *)
DeleteFails(t) ==
  /\ kind \notin Tracks
  /\ At(t, "delete")
  /\ Return(t, NoResult)

(* Track.close throws what rtcDeleteTrack reports, and drops nothing. *)
DeleteTrackFails(t) ==
  /\ kind \in Tracks
  /\ At(t, "delete")
  /\ Throw(t, "failure")

DropTrack(t) ==
  /\ At(t, "drop")
  /\ known' = FALSE
  /\ call' = [call EXCEPT ![t] = Idle]
  /\ UNCHANGED <<kind, handle, flag, strings, changes, heap, result, during, shut>>

-----------------------------------------------------------------------------
Ask(t) ==
  \/ LocalDescription(t) \/ RemoteDescription(t) \/ Address(t)
  \/ LabelOrProtocol(t) \/ TrackDescription(t) \/ SelectedCandidatePair(t)
  \/ ChannelNumber(t) \/ PeerNumber(t) \/ TrackDirection(t)
  \/ IsOpen(t) \/ IsClosed(t)

GetDynamicString(t) ==
  \/ QuerySize(t) \/ QuerySizeFails(t) \/ Allocate(t) \/ AllocateFails(t)
  \/ FetchString(t) \/ FetchFails(t) \/ Convert(t)

GetPair(t) ==
  \/ AllocateLocal(t) \/ AllocateRemote(t) \/ AllocatePairFails(t)
  \/ FetchPair(t) \/ FetchPairFails(t) \/ ConvertPair(t)

CloseStep(t) ==
  NativeClose(t) \/ Delete(t) \/ DeleteFails(t) \/ DeleteTrackFails(t) \/ DropTrack(t)

Environment ==
  \/ \E source \in Sources, length \in Lengths : Replace(source, length)
  \/ RemoteAnswers \/ RemoteCloses \/ OnTrack \/ AddTrack

Next ==
  \/ Environment
  \/ \E t \in Threads :
       \/ Ask(t) \/ GetDynamicString(t) \/ GetPair(t)
       \/ AnswerNumber(t) \/ NumberFails(t)
       \/ ReadFlag(t) \/ AskOpen(t) \/ ReadFlagFirst(t) \/ AskClosed(t)
       \/ Close(t) \/ CloseStep(t)

Spec == Init /\ [][Next]_vars

-----------------------------------------------------------------------------
(* Properties *)

Steps ==
  {"size", "allocate", "fetch", "convert", "local", "remote", "pair", "parse",
   "number", "isOpen", "isClosed", "askOpen", "askClosed", "close", "delete", "drop"}

Running == [step : Steps, source : Sources \cup {"none"}, size : Nat,
            text : Strings \cup {NoString}, late : BOOLEAN]

Results ==
  [kind : {"none", "number", "code"}]
    \cup [kind : {"string"}, text : Strings \cup {NoString}]
    \cup [kind : {"exception"},
          why : {"invalid", "notAvailable", "tooSmall", "longAddress", "native", "failure"}]
    \cup [kind : {"isOpen"}, answer : BOOLEAN, late : BOOLEAN]
    \cup [kind : {"isClosed"}, answer : BOOLEAN]

TypeOK ==
  /\ kind \in Kinds
  /\ handle \in {"absent", "connecting", "open", "closed", "deleted"}
  /\ flag \in BOOLEAN
  /\ known \in BOOLEAN
  /\ strings \in [Sources -> Strings \cup {NoString}]
  /\ changes \in 0 .. MaxChanges
  /\ call \in [Threads -> {Idle} \cup Running]
  /\ result \in [Threads -> Results]
  /\ heap \in [Threads -> 0 .. 2]
  /\ during \in [Threads -> SUBSET (Strings \cup {NoString})]
  /\ shut \in BOOLEAN

(* A string, or the pair, that an accessor returns is one that the object  *)
(* had while the accessor ran, and all of it: one that has grown since its *)
(* size was asked for is not cut.                                          *)
StringIsWhole ==
  \A t \in Threads : result[t].kind = "string" => result[t].text \in during[t]

(* The library is called with buffers that are allocated, a string is made *)
(* from one that is not freed yet, and a call that has ended, in whatever  *)
(* way, has freed what it allocated.                                       *)
BuffersOwned ==
  \A t \in Threads :
    heap[t] = CASE call[t].step \in {"fetch", "convert", "remote"} -> 1
                [] call[t].step \in {"pair", "parse"} -> 2
                [] OTHER -> 0

(* An accessor of a string complains that its buffer is too small only if  *)
(* the string was replaced while it ran: of strings that stay the two      *)
(* calls agree on the size.                                                *)
TooSmallIsStale ==
  \A t \in Threads :
    result[t] = [kind |-> "exception", why |-> "tooSmall"] =>
      \E s1, s2 \in during[t] : s1 # s2

(* A channel that was seen closed is not seen open any more: no call of    *)
(* isOpen() that begins after some isClosed() returned true returns true,  *)
(* whoever closes the channel and however far the close has come.          *)
ClosedIsFinal ==
  \A t \in Threads :
    result[t].kind = "isOpen" /\ result[t].late => ~result[t].answer

(* Whatever threads close an object at once, its handle is deleted once;   *)
(* and a track of the remote side is in the map of its peer for as long as *)
(* it has its handle, also if its deletion fails, and no longer, but for   *)
(* the step its closer has left.                                           *)
DeletedOnceAndDropped ==
  /\ \A t \in Threads : At(t, "close") \/ At(t, "delete") => handle # "deleted"
  /\ kind = "remoteTrack" /\ handle \in {"connecting", "open"} => known
  /\ known /\ handle = "deleted" => \E t \in Threads : At(t, "drop")
=============================================================================
