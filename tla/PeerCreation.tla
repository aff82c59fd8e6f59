----------------------------- MODULE PeerCreation -----------------------------
(***************************************************************************)
(* What a JNI call acquires and gives back, and what a peer owns.          *)
(*                                                                         *)
(* The entry points that take strings borrow their characters from the VM  *)
(* one after the other, hand them to the native library and release them.  *)
(* Every acquisition may fail, and each failure has a clean-up of its own  *)
(* in the code.  rtcCreatePeerConnection also keeps two tables and a local *)
(* reference per ICE server.                                               *)
(*                                                                         *)
(* createPeer then constructs the Java object, whose Cleaner action        *)
(* deletes the handle when the object is unreachable, and gives the handle *)
(* a callback record.  The record holds a global reference to the peer's   *)
(* PeerConnectionListener, which refers to the peer.                       *)
(*                                                                         *)
(* rtcCreateDataChannelEx also converts the settings of the channel, which *)
(* reliability() reads back; the model follows a channel until the next    *)
(* call begins.                                                            *)
(*                                                                         *)
(* One thread creates one peer, makes calls on it, and closes or forgets   *)
(* it.  What a peer's callbacks do is the subject of PeerLifecycle.        *)
(***************************************************************************)
EXTENDS ChannelSettings, Sequences

CONSTANT MaxServers  \* bound: ICE servers in a configuration

ASSUME CreationAssumption == MaxServers \in Nat

VARIABLES
  call,     \* the entry point that runs, and where it stands
  args,     \* its strings, in the order it borrows them
  chars,    \* the positions whose characters are borrowed
  refs,     \* the positions with a local reference
  tables,   \* whether the tables for the servers are allocated
  handle,   \* the native handle of the peer
  cleaner,  \* the Cleaner registration of the Java object
  record,   \* the callback record with its global reference
  pointer,  \* whether the handle's user pointer is the record
  held,     \* whether the application refers to the peer
  settings, \* what createChannel was asked for
  channel,  \* the rtcDataChannelInit the library made the channel from
  read      \* what reliability() returned for it

jniVars == <<args, chars, refs, tables>>
peerVars == <<handle, cleaner, record, pointer, held>>
channelVars == <<settings, channel, read>>
vars == <<call, args, chars, refs, tables, handle, cleaner, record, pointer, held,
          settings, channel, read>>

NotYet == [made |-> FALSE]

(* A string argument is given or null, which the entry point takes or      *)
(* not; one that stands for an ICE server is an element of an array.       *)
Strings(server, required) ==
  {[server |-> server, required |-> required, given |-> g] : g \in BOOLEAN}

Optional == Strings(FALSE, FALSE)
Required == Strings(FALSE, TRUE)
ServerLists == UNION {[1 .. n -> Strings(TRUE, TRUE)] : n \in 0 .. MaxServers}

(* The entry points, each by the strings that it borrows, in order: the    *)
(* servers, proxy and bind address, *)
rtcCreatePeerConnection == UNION {{s \o pb : s \in ServerLists} : pb \in Optional \X Optional}

(* ... label and protocol, *)
rtcCreateDataChannelEx == Optional \X Optional

(* ... type, *)
rtcSetLocalDescription == {<<type>> : type \in Optional}

(* ... description and type, *)
rtcSetRemoteDescription == Required \X Optional

(* ... candidate and media id, *)
rtcAddRemoteCandidate == Optional \X Optional

(* ... description, *)
rtcAddTrack == {<<sdp>> : sdp \in Optional}

(* ... and none: direction and codec are numbers. *)
rtcAddTrackEx == {<<>>}

Arguments(entry) ==
  CASE entry = "createPeer"    -> rtcCreatePeerConnection
    [] entry = "createChannel" -> rtcCreateDataChannelEx
    [] entry = "setLocal"      -> rtcSetLocalDescription
    [] entry = "setRemote"     -> rtcSetRemoteDescription
    [] entry = "addCandidate"  -> rtcAddRemoteCandidate
    [] entry = "addTrack"      -> rtcAddTrack
    [] entry = "addTrackEx"    -> rtcAddTrackEx

Later == {"createChannel", "setLocal", "setRemote", "addCandidate", "addTrack", "addTrackEx"}
Entries == {"createPeer"} \cup Later

Idle == [entry |-> "none", step |-> "idle", next |-> 1]

Init ==
  /\ call = Idle
  /\ args = <<>>
  /\ chars = {}
  /\ refs = {}
  /\ tables = FALSE
  /\ handle = "none"
  /\ cleaner = "none"
  /\ record = "none"
  /\ pointer = FALSE
  /\ held = FALSE
  /\ settings = NotYet
  /\ channel = NotYet
  /\ read = NotYet

-----------------------------------------------------------------------------
At(step) == call.step = step

Current == args[call.next]

HasServers(a) == \E i \in DOMAIN a : a[i].server

Advance == call' = [call EXCEPT !.next = @ + 1]

(* The call ends with an exception.  The clean-up releases the characters  *)
(* of the strings before the current one and the references up to position *)
(* n, and frees the tables.                                                *)
ThrowReleasing(n) ==
  /\ call' = Idle
  /\ args' = <<>>
  /\ chars' = chars \ 1 .. call.next - 1
  /\ refs' = refs \ 1 .. n
  /\ tables' = FALSE
  /\ UNCHANGED <<peerVars, channelVars>>

-----------------------------------------------------------------------------
(* Faulty variants, each the change a plausible bug would make; no action  *)
(* below uses them.                                                        *)

ForgetCurrentRef ==  \* the clean-up stops one reference short
  /\ At("borrow") /\ call.next <= Len(args) /\ Current.given
  /\ Current.server => call.next \in refs
  /\ ThrowReleasing(call.next - 1)

ReleaseWithReference ==  \* the characters go with the local reference
  /\ At("borrow") /\ call.next <= Len(args) /\ Current.given
  /\ Current.server => call.next \in refs
  /\ chars' = {i \in chars : ~args[i].server} \cup {call.next}
  /\ Advance
  /\ UNCHANGED <<args, refs, tables, peerVars, channelVars>>

ConstructUnregistered ==  \* the constructor registers no Cleaner action
  /\ At("construct")
  /\ call' = [call EXCEPT !.step = "setup"]
  /\ UNCHANGED <<jniVars, peerVars, channelVars>>

KeepRecord(result) ==  \* rtcDeletePeerConnection does not free the record
  /\ handle' = "deleted"
  /\ pointer' = FALSE
  /\ record' = record

-----------------------------------------------------------------------------
(* A call begins *)

Begin(entry) ==
  /\ At("idle")
  /\ IF entry = "createPeer" THEN handle = "none" ELSE held
  /\ args' \in Arguments(entry)
  /\ call' = [entry |-> entry,
              step  |-> IF HasServers(args') THEN "tables" ELSE "borrow",
              next  |-> 1]
  /\ IF entry = "createChannel" THEN settings' \in Settings ELSE settings' = NotYet
  /\ channel' = NotYet
  /\ read' = NotYet
  /\ UNCHANGED <<chars, refs, tables, peerVars>>

(* rtcCreatePeerConnection allocates its two tables, or frees the one it   *)
(* got.                                                                    *)
AllocateTables ==
  /\ At("tables")
  /\ tables' = TRUE
  /\ call' = [call EXCEPT !.step = "borrow"]
  /\ UNCHANGED <<args, chars, refs, peerVars, channelVars>>

AllocateTablesFails ==
  /\ At("tables")
  /\ ThrowReleasing(0)

-----------------------------------------------------------------------------
(* Strings are borrowed in order *)

Borrowing == At("borrow") /\ call.next <= Len(args)

(* GetObjectArrayElement *)
GetElement ==
  /\ Borrowing
  /\ Current.server /\ Current.given /\ call.next \notin refs
  /\ refs' = refs \cup {call.next}
  /\ UNCHANGED <<call, args, chars, tables, peerVars, channelVars>>

(* A null element, or a null description: everything before it goes back.  *)
RejectNull ==
  /\ Borrowing
  /\ ~Current.given /\ Current.required
  /\ ThrowReleasing(call.next - 1)

(* Any other argument may be null. *)
SkipNull ==
  /\ Borrowing
  /\ ~Current.given /\ ~Current.required
  /\ Advance
  /\ UNCHANGED <<jniVars, peerVars, channelVars>>

(* GetStringUTFChars *)
GetChars ==
  /\ Borrowing
  /\ Current.given
  /\ Current.server => call.next \in refs
  /\ chars' = chars \cup {call.next}
  /\ Advance
  /\ UNCHANGED <<args, refs, tables, peerVars, channelVars>>

GetCharsFails ==
  /\ Borrowing
  /\ Current.given
  /\ Current.server => call.next \in refs
  /\ ThrowReleasing(call.next)

-----------------------------------------------------------------------------
(* The library is called, and everything is released *)

CallLibrary(ok) ==
  /\ At("borrow") /\ call.next = Len(args) + 1
  /\ handle' = IF call.entry = "createPeer" /\ ok THEN "open" ELSE handle
  /\ channel' = IF call.entry = "createChannel" /\ ok THEN ChannelInit(settings) ELSE channel
  /\ call' = [call EXCEPT !.step = IF ok THEN "release" ELSE "releaseThrow"]
  /\ UNCHANGED <<jniVars, cleaner, record, pointer, held, settings, read>>

Release ==
  /\ At("release") \/ At("releaseThrow")
  /\ chars' = chars \ {i \in DOMAIN args : args[i].given}
  /\ refs' = refs \ {i \in DOMAIN args : args[i].server}
  /\ tables' = FALSE
  /\ args' = <<>>
  /\ call' = IF At("release") /\ call.entry = "createPeer"
               THEN [call EXCEPT !.step = "construct"]
               ELSE Idle
  /\ UNCHANGED <<peerVars, channelVars>>

-----------------------------------------------------------------------------
(* createPeer goes on in Java *)

Construct ==
  /\ At("construct")
  /\ cleaner' = "registered"
  /\ call' = [call EXCEPT !.step = "setup"]
  /\ UNCHANGED <<jniVars, handle, record, pointer, held, channelVars>>

(* setupPeerConnectionListener: the record and its global reference *)
AllocateCallback ==
  /\ At("setup")
  /\ record' = "live"
  /\ call' = [call EXCEPT !.step = "point"]
  /\ UNCHANGED <<jniVars, handle, cleaner, pointer, held, channelVars>>

(* Without memory for either, createPeer throws and nobody has the peer. *)
AllocateCallbackFails ==
  /\ At("setup")
  /\ call' = Idle
  /\ UNCHANGED <<jniVars, peerVars, channelVars>>

SetPointer ==
  /\ At("point")
  /\ pointer' = TRUE
  /\ held' = TRUE
  /\ call' = Idle
  /\ UNCHANGED <<jniVars, handle, cleaner, record, channelVars>>

-----------------------------------------------------------------------------
(* The end of a peer *)

(* rtcDeletePeerConnection reads the user pointer first and frees the      *)
(* record unless the deletion fails.                                       *)
DeletePeer(result) ==
  /\ handle' = IF result = "ok" THEN "deleted" ELSE handle
  /\ pointer' = (pointer /\ result # "ok")
  /\ record' = IF result = "ok" /\ pointer THEN "freed" ELSE record

RunCleaner(result) ==
  /\ cleaner = "registered"
  /\ cleaner' = "ran"
  /\ DeletePeer(result)

Close(result) ==
  /\ At("idle") /\ held
  /\ RunCleaner(result)
  /\ UNCHANGED <<call, jniVars, held, channelVars>>

Forget ==
  /\ At("idle") /\ held
  /\ held' = FALSE
  /\ UNCHANGED <<call, jniVars, handle, cleaner, record, pointer, channelVars>>

(* The record holds a global reference to the listener, which holds the    *)
(* peer.                                                                   *)
RecordRefers == record = "live"

(* createPeer refers to the peer until it ends.                            *)
Reachable == held \/ ~At("idle") \/ RecordRefers

(* The collector finds the peer unreachable: the Cleaner thread runs. *)
Collect ==
  /\ ~Reachable
  /\ RunCleaner("ok")
  /\ UNCHANGED <<call, jniVars, held, channelVars>>

-----------------------------------------------------------------------------
(* DataChannel.reliability on the channel of the newest call *)
Reliability ==
  /\ At("idle") /\ held /\ cleaner = "registered"
  /\ channel # NotYet
  /\ read' = ReadBack(channel)
  /\ UNCHANGED <<call, jniVars, peerVars, settings, channel>>

-----------------------------------------------------------------------------
CallStep ==
  \/ AllocateTables \/ AllocateTablesFails
  \/ GetElement \/ RejectNull \/ SkipNull \/ GetChars \/ GetCharsFails
  \/ \E ok \in BOOLEAN : CallLibrary(ok)
  \/ Release \/ Construct
  \/ AllocateCallback \/ AllocateCallbackFails \/ SetPointer

Next ==
  \/ \E entry \in Entries : Begin(entry)
  \/ CallStep
  \/ \E result \in {"ok", "failure"} : Close(result)
  \/ Forget
  \/ Collect
  \/ Reliability

Spec == Init /\ [][Next]_vars

(* Calls go on, and the collector finds what is unreachable. *)
FairSpec == Spec /\ WF_vars(CallStep) /\ WF_vars(Collect)

-----------------------------------------------------------------------------
(* Properties *)

Positions == 1 .. MaxServers + 2

TypeOK ==
  /\ call \in [entry : Entries \cup {"none"},
               step  : {"idle", "tables", "borrow", "release", "releaseThrow",
                        "construct", "setup", "point"},
               next  : 1 .. MaxServers + 3]
  /\ args \in Seq([server : BOOLEAN, required : BOOLEAN, given : BOOLEAN])
  /\ chars \subseteq Positions
  /\ refs \subseteq Positions
  /\ tables \in BOOLEAN
  /\ handle \in {"none", "open", "deleted"}
  /\ cleaner \in {"none", "registered", "ran"}
  /\ record \in {"none", "live", "freed"}
  /\ pointer \in BOOLEAN
  /\ held \in BOOLEAN
  /\ settings \in Settings \cup {NotYet}
  /\ channel = NotYet \/ settings \in Settings
  /\ read = NotYet \/ channel # NotYet

(* A call that is back in Java has given back every string, reference and  *)
(* table, whichever acquisition failed.                                    *)
NothingKept ==
  call.step \in {"idle", "construct", "setup", "point"}
    => chars = {} /\ refs = {} /\ ~tables

(* The library is called with every string the caller gave, and all of     *)
(* them are still borrowed.                                                *)
LibrarySeesStrings ==
  At("borrow") /\ call.next = Len(args) + 1
    => chars = {i \in DOMAIN args : args[i].given}

(* A handle that createPeer cannot give to its caller is not leaked: the   *)
(* Cleaner deletes it.                                                     *)
FailedCreationIsUndone ==
  (handle = "open" /\ At("idle") /\ record = "none") ~> handle = "deleted"

(* Nothing holds on to such a peer: the Cleaner knows it, and neither the  *)
(* application nor a callback record keeps it reachable.                   *)
FailedCreationIsCollectable ==
  handle = "open" /\ At("idle") /\ record = "none"
    => cleaner = "registered" /\ ~pointer /\ ~Reachable

(* The callback record goes with the handle. *)
RecordGoesWithHandle == handle = "deleted" => record # "live" /\ ~pointer

(* "Make sure not to capture this here, that would be a memory leak": a    *)
(* peer that the application forgets without closing it is deleted.        *)
ForgottenIsDeleted ==
  (cleaner = "registered" /\ At("idle") /\ ~held) ~> handle = "deleted"

(* A channel is created with the stream the application asked for: stream  *)
(* 0 is a stream, and no stream is none.                                   *)
StreamIsHonoured == channel # NotYet => Honours(channel, settings)

(* reliability() returns what the application asked for, a number of       *)
(* retransmissions below 0 included.                                       *)
ReliabilityReadsBack == read # NotYet => Agrees(read, settings)
=============================================================================
