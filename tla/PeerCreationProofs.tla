-------------------------- MODULE PeerCreationProofs --------------------------
(***************************************************************************)
(* What holds of PeerCreation for any number of ICE servers, whichever of  *)
(* the acquisitions fail.                                                  *)
(*                                                                         *)
(* The invariant says what a call holds at each of its steps: while it     *)
(* borrows, the characters of the given strings before the current one,    *)
(* and the references of the servers up to it.                             *)
(***************************************************************************)
EXTENDS PeerCreation, SequenceTheorems, TLAPS

Arg == [server : BOOLEAN, required : BOOLEAN, given : BOOLEAN]

ArgsOK == args \in Seq(Arg) /\ Len(args) <= MaxServers + 2

GivenBefore(n) == {i \in DOMAIN args : i < n /\ args[i].given}

Holdings ==
  /\ call.step \in {"idle", "tables", "construct", "setup", "point"}
       => chars = {} /\ refs = {} /\ ~tables /\ call.next \in Nat
  /\ call.step = "tables" => call.next = 1
  /\ At("borrow") =>
       /\ call.next \in 1 .. Len(args) + 1
       /\ chars = GivenBefore(call.next)
       /\ \A i \in refs : i \in 1 .. call.next /\ i \in DOMAIN args
                          /\ args[i].server /\ args[i].given
  /\ At("release") \/ At("releaseThrow") =>
       /\ chars = {i \in DOMAIN args : args[i].given}
       /\ \A i \in refs : i \in DOMAIN args /\ args[i].server

CallType ==
  call \in [entry : Entries \cup {"none"},
            step  : {"idle", "tables", "borrow", "release", "releaseThrow",
                     "construct", "setup", "point"},
            next  : 1 .. MaxServers + 3]

CreationInv == CallType /\ ArgsOK /\ Holdings

-----------------------------------------------------------------------------
(* A pair is a sequence. *)
LEMMA PairIsSeq ==
  ASSUME NEW S, NEW x \in S \X S
  PROVE  x \in Seq(S) /\ Len(x) = 2
<1>1. PICK p \in S, b \in S : x = <<p, b>>
  OBVIOUS
<1> QED
  BY <1>1

(* The arguments of every entry point are a list of strings, no longer     *)
(* than the servers with the proxy and the bind address.                   *)
LEMMA ArgumentsType ==
  ASSUME NEW entry \in Entries, NEW a \in Arguments(entry)
  PROVE  a \in Seq(Arg) /\ Len(a) <= MaxServers + 2
<1>1. \A server, required \in BOOLEAN : Strings(server, required) \subseteq Arg
  BY DEF Strings, Arg
<1>2. Optional \subseteq Arg /\ Required \subseteq Arg
  BY <1>1 DEF Optional, Required
<1>3. CASE entry = "createPeer"
  <2>0. a \in UNION {{s \o pb : s \in ServerLists} : pb \in Optional \X Optional}
    BY <1>3 DEF Arguments, rtcCreatePeerConnection
  <2>1. PICK s \in ServerLists, pb \in Optional \X Optional : a = s \o pb
    BY <2>0
  <2>2. PICK n \in 0 .. MaxServers : s \in [1 .. n -> Strings(TRUE, TRUE)]
    BY DEF ServerLists
  <2>3. n \in Nat /\ n <= MaxServers
    BY CreationAssumption
  <2>4. s \in [1 .. n -> Arg]
    BY <1>1, <2>2
  <2>5. s \in Seq(Arg) /\ Len(s) = n
    BY <2>3, <2>4, SeqDef, LenProperties
  <2>6. pb \in Seq(Arg) /\ Len(pb) = 2
    BY <1>2, PairIsSeq
  <2>7. a \in Seq(Arg) /\ Len(a) = Len(s) + Len(pb)
    BY <2>1, <2>5, <2>6, ConcatProperties
  <2> QED
    BY <2>3, <2>5, <2>6, <2>7, CreationAssumption
<1>4. CASE entry \in {"createChannel", "setRemote", "addCandidate"}
  <2>1. a \in Arg \X Arg
    BY <1>2, <1>4 DEF Arguments, rtcCreateDataChannelEx, rtcSetRemoteDescription,
                      rtcAddRemoteCandidate
  <2>2. a \in Seq(Arg) /\ Len(a) = 2
    BY <2>1, PairIsSeq
  <2> QED
    BY <2>2, CreationAssumption
<1>5. CASE entry \in {"setLocal", "addTrack"}
  <2>1. PICK text \in Optional : a = <<text>>
    BY <1>5 DEF Arguments, rtcSetLocalDescription, rtcAddTrack
  <2>2. a \in Seq(Arg) /\ Len(a) = 1
    BY <1>2, <2>1
  <2> QED
    BY <2>2, CreationAssumption
<1>6. CASE entry = "addTrackEx"
  <2>1. a = <<>>
    BY <1>6 DEF Arguments, rtcAddTrackEx
  <2> QED
    BY <2>1, CreationAssumption
<1> QED
  BY <1>3, <1>4, <1>5, <1>6 DEF Entries, Later

LEMMA InitInv == Init => CreationInv
<1> SUFFICES ASSUME Init PROVE CreationInv
  OBVIOUS
<1>1. CallType
  BY CreationAssumption DEF Init, Idle, CallType
<1>2. ArgsOK
  BY CreationAssumption DEF Init, ArgsOK
<1>3. Holdings
  BY DEF Init, Idle, Holdings, At
<1> QED
  BY <1>1, <1>2, <1>3 DEF CreationInv

(* A call that ends holding nothing. *)
LEMMA EndsEmpty ==
  ASSUME CreationInv, call' = Idle, args' = <<>>, chars' = {}, refs' = {}, tables' = FALSE
  PROVE  CreationInv'
<1>1. CallType'
  BY CreationAssumption DEF Idle, CallType
<1>2. ArgsOK'
  BY CreationAssumption DEF ArgsOK
<1>3. Holdings'
  BY DEF Idle, Holdings, At
<1> QED
  BY <1>1, <1>2, <1>3 DEF CreationInv

-----------------------------------------------------------------------------
LEMMA StepInv == CreationInv /\ [Next]_vars => CreationInv'
<1> SUFFICES ASSUME CreationInv, [Next]_vars PROVE CreationInv'
  OBVIOUS
<1> USE DEF CreationInv
<1>l. Len(args) \in Nat /\ DOMAIN args = 1 .. Len(args)
  BY DEF ArgsOK
<1>t. call.next \in Nat
  BY CreationAssumption DEF CallType
<1>1. CASE UNCHANGED vars
  BY <1>1 DEF vars, CallType, ArgsOK, Holdings, GivenBefore, At
<1>2. ASSUME NEW entry \in Entries, Begin(entry)
      PROVE  CreationInv'
  <2>1. ArgsOK'
    BY <1>2, ArgumentsType DEF Begin, ArgsOK
  <2>2. Len(args') \in Nat
    BY <2>1 DEF ArgsOK
  <2>3. chars' = {} /\ refs' = {} /\ ~tables'
    BY <1>2 DEF Begin, Holdings, At
  <2>4. CallType' /\ call'.next = 1 /\ call'.step \in {"tables", "borrow"}
    BY <1>2, CreationAssumption DEF Begin, CallType
  <2>5. GivenBefore(1)' = {}
    BY <2>1 DEF GivenBefore, ArgsOK
  <2>6. Holdings'
    BY <2>2, <2>3, <2>4, <2>5 DEF Holdings, At
  <2> QED
    BY <2>1, <2>4, <2>6
<1>3. CASE AllocateTables
  <2>1. CallType' /\ ArgsOK' /\ call'.step = "borrow" /\ call'.next = 1
    BY <1>3 DEF AllocateTables, CallType, ArgsOK, Holdings, At
  <2>2. chars' = {} /\ refs' = {} /\ GivenBefore(1)' = {}
    BY <1>3, <1>l DEF AllocateTables, Holdings, At, GivenBefore
  <2>3. Len(args') \in Nat
    BY <1>3, <1>l DEF AllocateTables
  <2> QED
    BY <2>1, <2>2, <2>3 DEF Holdings, At
<1>4. CASE AllocateTablesFails
  BY <1>4, EndsEmpty DEF AllocateTablesFails, ThrowReleasing, Holdings, At
<1>5. CASE GetElement
  <2>1. CallType' /\ ArgsOK'
    BY <1>5 DEF GetElement, CallType, ArgsOK
  <2>2. Holdings'
    BY <1>5, <1>l, <1>t DEF GetElement, Borrowing, Current, Holdings, GivenBefore, At
  <2> QED
    BY <2>1, <2>2
<1>6. CASE RejectNull \/ GetCharsFails
  <2>1. call.next \in 1 .. Len(args) + 1 /\ chars = GivenBefore(call.next)
    BY <1>6 DEF RejectNull, GetCharsFails, Borrowing, Holdings, At
  <2>2. chars \ 1 .. call.next - 1 = {}
    BY <2>1, <1>l DEF GivenBefore
  <2>3. \A i \in refs : i \in 1 .. call.next /\ args[i].given
    BY <1>6 DEF RejectNull, GetCharsFails, Borrowing, Holdings, At
  <2>4. refs \ 1 .. call.next = {}
    BY <2>3
  <2>5. CASE RejectNull
    <3>1. call.next \notin refs
      BY <2>3, <2>5 DEF RejectNull, Current
    <3>2. refs \ 1 .. call.next - 1 = {}
      BY <2>1, <2>3, <3>1, <1>l
    <3> QED
      BY <2>2, <2>5, <3>2, EndsEmpty DEF RejectNull, ThrowReleasing
  <2>6. CASE GetCharsFails
    BY <2>2, <2>4, <2>6, EndsEmpty DEF GetCharsFails, ThrowReleasing
  <2> QED
    BY <1>6, <2>5, <2>6
<1>7. CASE SkipNull \/ GetChars
  <2>1. /\ At("borrow") /\ call.next \in 1 .. Len(args)
        /\ UNCHANGED <<args, refs>>
        /\ call' = [call EXCEPT !.next = @ + 1]
    BY <1>7, <1>l DEF SkipNull, GetChars, Borrowing, Advance, jniVars, Holdings, At
  <2>2. CallType' /\ ArgsOK'
    BY <2>1, <1>l, CreationAssumption DEF CallType, ArgsOK
  <2>3. At("borrow")' /\ call'.next = call.next + 1
    BY <2>1 DEF CallType, At
  <2>4. chars' = GivenBefore(call.next + 1)
    <3>1. CASE SkipNull
      BY <2>1, <3>1, <1>l DEF SkipNull, Current, jniVars, Holdings, GivenBefore, At
    <3>2. CASE GetChars
      BY <2>1, <3>2, <1>l DEF GetChars, Current, Holdings, GivenBefore, At
    <3> QED
      BY <1>7, <3>1, <3>2
  <2>5. Holdings'
    BY <2>1, <2>3, <2>4, <1>l, <1>t DEF Holdings, GivenBefore, At
  <2> QED
    BY <2>2, <2>5
<1>8. ASSUME NEW ok \in BOOLEAN, CallLibrary(ok)
      PROVE  CreationInv'
  <2>1. CallType' /\ ArgsOK' /\ call'.step \in {"release", "releaseThrow"}
    BY <1>8 DEF CallLibrary, CallType, ArgsOK, jniVars
  <2>2. chars' = {i \in DOMAIN args' : args'[i].given}
    BY <1>8, <1>l DEF CallLibrary, Holdings, GivenBefore, jniVars, At
  <2>3. \A i \in refs' : i \in DOMAIN args' /\ args'[i].server
    BY <1>8 DEF CallLibrary, Holdings, jniVars, At
  <2> QED
    BY <2>1, <2>2, <2>3 DEF Holdings, At
<1>9. CASE Release
  <2>1. chars' = {} /\ refs' = {} /\ tables' = FALSE /\ args' = <<>>
    BY <1>9 DEF Release, Holdings, At
  <2>2. CASE call' = Idle
    BY <2>1, <2>2, EndsEmpty
  <2>3. CASE call' = [call EXCEPT !.step = "construct"]
    <3>1. CallType' /\ call'.step = "construct" /\ call'.next \in Nat
      BY <2>3 DEF CallType
    <3>2. ArgsOK'
      BY <2>1, CreationAssumption DEF ArgsOK
    <3> QED
      BY <2>1, <3>1, <3>2 DEF Holdings, At
  <2> QED
    BY <1>9, <2>2, <2>3 DEF Release
<1>10. CASE Construct \/ AllocateCallback \/ AllocateCallbackFails \/ SetPointer
  <2>1. /\ UNCHANGED jniVars
        /\ CallType' /\ call'.step \in {"idle", "setup", "point"}
        /\ chars = {} /\ refs = {} /\ ~tables
    BY <1>10, CreationAssumption
       DEF Construct, AllocateCallback, AllocateCallbackFails, SetPointer, Idle, CallType, Holdings, At
  <2>2. ArgsOK'
    BY <2>1 DEF ArgsOK, jniVars
  <2> QED
    BY <2>1, <2>2 DEF Holdings, jniVars, At, CallType
<1>11. CASE Forget \/ Collect \/ Reliability \/ \E result \in {"ok", "failure"} : Close(result)
  BY <1>11 DEF Forget, Collect, Reliability, Close, jniVars, CallType, ArgsOK, Holdings,
               GivenBefore, At
<1> QED
  BY <1>1, <1>2, <1>3, <1>4, <1>5, <1>6, <1>7, <1>8, <1>9, <1>10, <1>11
     DEF Next, CallStep

LEMMA Invariance == Spec => []CreationInv
BY InitInv, StepInv, PTL DEF Spec

-----------------------------------------------------------------------------
(* For any number of ICE servers, a call that is back in Java has given    *)
(* back every string, reference and table, whichever acquisition failed.   *)
THEOREM NothingStaysBorrowed == Spec => []NothingKept
<1>1. CreationInv => NothingKept
  BY DEF CreationInv, Holdings, NothingKept
<1> QED
  BY <1>1, Invariance, PTL

(* For any number of ICE servers, the library is called with every string  *)
(* that was given, while all of them are borrowed.                         *)
THEOREM StringsReachLibrary == Spec => []LibrarySeesStrings
<1>1. CreationInv => LibrarySeesStrings
  <2> SUFFICES ASSUME CreationInv, At("borrow"), call.next = Len(args) + 1
               PROVE  chars = {i \in DOMAIN args : args[i].given}
    BY DEF LibrarySeesStrings
  <2>1. Len(args) \in Nat /\ DOMAIN args = 1 .. Len(args)
    BY DEF CreationInv, ArgsOK
  <2> QED
    BY <2>1 DEF CreationInv, Holdings, GivenBefore
<1> QED
  BY <1>1, Invariance, PTL

-----------------------------------------------------------------------------
(* The settings of a channel, for the C integers of any width *)

InRange ==
  /\ Lifetimes \subseteq 0 .. UnsignedRange - 1
  /\ Streams \subseteq 0 .. StreamRange - 1

(* A number that fits keeps its value. *)
LEMMA SmallRemainder ==
  ASSUME NEW m \in Nat \ {0}, NEW n \in 0 .. m - 1
  PROVE  n % m = n
OBVIOUS

(* A negative number is read back from the unsigned one it became. *)
LEMMA IntRoundTrip ==
  ASSUME NEW n \in JInt
  PROVE  ToJavaInt(UInt(n)) = n
<1>1. HalfRange \in Nat \ {0} /\ UnsignedRange \in Nat \ {0}
  BY SettingsAssumption DEF UnsignedRange
<1> USE DEF JInt
<1>2. CASE n >= 0
  <2>1. n \in 0 .. UnsignedRange - 1 /\ n < HalfRange
    BY <1>1, <1>2 DEF UnsignedRange
  <2>2. n % UnsignedRange = n
    BY <1>1, <2>1, SmallRemainder
  <2> QED
    BY <2>1, <2>2 DEF ToJavaInt, UInt
<1>3. CASE n < 0
  <2>1. n + UnsignedRange \in HalfRange .. UnsignedRange - 1
    BY <1>1, <1>3 DEF UnsignedRange
  <2>2. n % UnsignedRange = n + UnsignedRange
    BY <1>1, <2>1
  <2> QED
    BY <1>1, <2>1, <2>2 DEF ToJavaInt, UInt
<1> QED
  BY <1>1, <1>2, <1>3

LEMMA ChannelInitFaithful ==
  ASSUME InRange, NEW s \in Settings
  PROVE  Honours(ChannelInit(s), s) /\ Agrees(ReadBack(ChannelInit(s)), s)
<1>1. HalfRange \in Nat \ {0} /\ StreamRange \in Nat \ {0} /\ UnsignedRange \in Nat \ {0}
  BY SettingsAssumption DEF UnsignedRange
<1>2. UInt(s.lifetime) = s.lifetime
  BY <1>1, SmallRemainder DEF InRange, Settings, UInt
<1>3. ToJavaInt(UInt(s.retransmits)) = s.retransmits
  BY IntRoundTrip, SettingsAssumption DEF Settings
<1>4. s.stream # Automatic => UInt16(s.stream) = s.stream
  BY <1>1, SmallRemainder DEF InRange, Settings, UInt16
<1>5. Honours(ChannelInit(s), s)
  BY <1>4 DEF Honours, ChannelInit
<1>6. Agrees(ReadBack(ChannelInit(s)), s)
  BY <1>2, <1>3 DEF Agrees, ReadBack, Keep, ChannelInit
<1> QED
  BY <1>5, <1>6

(* The channel is made from the settings of the call, and what was read    *)
(* from the channel.                                                       *)
ChannelInv ==
  /\ settings \in Settings \cup {NotYet}
  /\ call.entry = "createChannel" => settings \in Settings
  /\ channel # NotYet => settings \in Settings /\ channel = ChannelInit(settings)
  /\ read # NotYet => channel # NotYet /\ read = ReadBack(channel)

LEMMA ChannelInvariance == Spec => []ChannelInv
<1>1. Init => ChannelInv
  BY DEF Init, Idle, ChannelInv
<1>2. CreationInv /\ ChannelInv /\ [Next]_vars => ChannelInv'
  <2> SUFFICES ASSUME CallType, ChannelInv, [Next]_vars PROVE ChannelInv'
    BY DEF CreationInv
  <2>1. CASE UNCHANGED channelVars /\ call'.entry \in {call.entry, "none"}
    BY <2>1 DEF channelVars, ChannelInv
  <2>2. ASSUME NEW entry \in Entries, Begin(entry)
        PROVE  ChannelInv'
    BY <2>2 DEF Begin, ChannelInv
  <2>3. ASSUME NEW ok \in BOOLEAN, CallLibrary(ok)
        PROVE  ChannelInv'
    <3>1. call'.entry = call.entry /\ UNCHANGED <<settings, read>>
      BY <2>3 DEF CallLibrary
    <3> QED
      BY <2>3, <3>1 DEF CallLibrary, ChannelInv
  <2>4. CASE Reliability
    BY <2>4 DEF Reliability, ChannelInv
  <2>5. CASE CallStep /\ ~ \E ok \in BOOLEAN : CallLibrary(ok)
    <3>1. ASSUME AllocateTables \/ GetElement \/ SkipNull \/ GetChars
                 \/ Construct \/ AllocateCallback
          PROVE  UNCHANGED channelVars /\ call'.entry = call.entry
      BY <3>1 DEF AllocateTables, GetElement, SkipNull, GetChars, Construct,
         AllocateCallback, Advance, CallType
    <3>2. ASSUME AllocateTablesFails \/ RejectNull \/ GetCharsFails
                 \/ AllocateCallbackFails \/ SetPointer
          PROVE  UNCHANGED channelVars /\ call'.entry = "none"
      BY <3>2 DEF AllocateTablesFails, RejectNull, GetCharsFails,
         AllocateCallbackFails, SetPointer, ThrowReleasing, Idle
    <3>3. ASSUME Release
          PROVE  UNCHANGED channelVars /\ call'.entry \in {call.entry, "none"}
      BY <3>3 DEF Release, Idle
    <3> QED
      BY <2>1, <2>5, <3>1, <3>2, <3>3 DEF CallStep
  <2>6. CASE UNCHANGED vars \/ Forget \/ Collect \/ \E result \in {"ok", "failure"} : Close(result)
    <3>1. UNCHANGED channelVars /\ call' = call
      BY <2>6 DEF vars, channelVars, Forget, Collect, Close
    <3> QED
      BY <2>1, <3>1
  <2> QED
    BY <2>2, <2>3, <2>4, <2>5, <2>6 DEF Next
<1> QED
  BY <1>1, <1>2, Invariance, PTL DEF Spec

(* With ints and stream ids of any width, a channel whose settings fit is  *)
(* created with the stream it was to have.                                 *)
THEOREM StreamArrives == ASSUME InRange PROVE Spec => []StreamIsHonoured
<1>1. ChannelInv => StreamIsHonoured
  BY ChannelInitFaithful DEF ChannelInv, StreamIsHonoured
<1> QED
  BY <1>1, ChannelInvariance, PTL

(* With ints of any width, reliability() returns settings that fit as the  *)
(* application gave them, numbers below 0 included.                        *)
THEOREM SettingsComeBack == ASSUME InRange PROVE Spec => []ReliabilityReadsBack
<1>1. ChannelInv => ReliabilityReadsBack
  BY ChannelInitFaithful DEF ChannelInv, ReliabilityReadsBack
<1> QED
  BY <1>1, ChannelInvariance, PTL

-----------------------------------------------------------------------------
(* What the calls leave of the peer has its type. *)
PeerType ==
  /\ tables \in BOOLEAN
  /\ handle \in {"none", "open", "deleted"}
  /\ cleaner \in {"none", "registered", "ran"}
  /\ record \in {"none", "live", "freed"}
  /\ pointer \in BOOLEAN
  /\ held \in BOOLEAN

LEMMA PeerTypeInvariance == Spec => []PeerType
<1>1. Init => PeerType
  BY DEF Init, PeerType
<1>2. PeerType /\ [Next]_vars => PeerType'
  <2> SUFFICES ASSUME PeerType, [Next]_vars PROVE PeerType'
    OBVIOUS
  <2> USE DEF PeerType
  <2>1. CASE UNCHANGED vars
    BY <2>1 DEF vars
  <2>2. CASE \E entry \in Entries : Begin(entry)
    BY <2>2 DEF Begin, peerVars
  <2>3. CASE CallStep
    BY <2>3 DEF CallStep, AllocateTables, AllocateTablesFails, GetElement,
       RejectNull, SkipNull, GetChars, GetCharsFails, CallLibrary, Release,
       Construct, AllocateCallback, AllocateCallbackFails, SetPointer,
       ThrowReleasing, jniVars, peerVars
  <2>4. CASE Forget \/ Collect \/ Reliability
    BY <2>4 DEF Forget, Collect, Reliability, RunCleaner, DeletePeer, jniVars, peerVars
  <2>5. ASSUME NEW result \in {"ok", "failure"}, Close(result)
        PROVE  PeerType'
    BY <2>5 DEF Close, RunCleaner, DeletePeer, jniVars
  <2> QED
    BY <2>1, <2>2, <2>3, <2>4, <2>5 DEF Next
<1> QED
  BY <1>1, <1>2, PTL DEF Spec

(* Every reachable state of a call and a peer is well typed, for any       *)
(* number of ICE servers.                                                  *)
THEOREM TypeCorrect == Spec => []TypeOK
<1>1. CreationInv /\ ChannelInv /\ PeerType => TypeOK
  <2> SUFFICES ASSUME CreationInv, ChannelInv, PeerType PROVE TypeOK
    OBVIOUS
  <2>1. DOMAIN args = 1 .. Len(args) /\ Len(args) \in Nat /\ Len(args) <= MaxServers + 2
    BY DEF CreationInv, ArgsOK
  <2>2. DOMAIN args \subseteq Positions
    BY <2>1, CreationAssumption DEF Positions
  <2>3. chars \subseteq DOMAIN args /\ refs \subseteq DOMAIN args
    BY DEF CreationInv, CallType, Holdings, GivenBefore, At
  <2>4. args \in Seq([server : BOOLEAN, required : BOOLEAN, given : BOOLEAN])
    BY DEF CreationInv, ArgsOK, Arg
  <2> QED
    BY <2>2, <2>3, <2>4 DEF CreationInv, CallType, ChannelInv, PeerType, TypeOK
<1> QED
  BY <1>1, Invariance, ChannelInvariance, PeerTypeInvariance, PTL

-----------------------------------------------------------------------------
(* Only createPeer makes a record, and it runs while the handle is open:   *)
(* nothing deletes the handle before the record is its user pointer.       *)
SetupSteps == {"construct", "setup", "point"}

DeletionInv ==
  /\ At("idle") => call.entry = "none"
  /\ call.step \in SetupSteps => call.entry = "createPeer"
  /\ call.entry = "createPeer" => handle # "deleted"
  /\ record = "live" => pointer \/ At("point")
  /\ RecordGoesWithHandle

LEMMA DeletionInvariance == Spec => []DeletionInv
<1>1. Init => DeletionInv
  BY DEF Init, Idle, DeletionInv, SetupSteps, RecordGoesWithHandle
<1>2. CreationInv /\ DeletionInv /\ [Next]_vars => DeletionInv'
  <2> SUFFICES ASSUME CallType, DeletionInv, [Next]_vars PROVE DeletionInv'
    BY DEF CreationInv
  <2> USE DEF DeletionInv, SetupSteps, RecordGoesWithHandle, At
  <2>1. CASE UNCHANGED vars
    BY <2>1 DEF vars
  <2>2. ASSUME NEW entry \in Entries, Begin(entry)
        PROVE  DeletionInv'
    BY <2>2 DEF Begin, peerVars
  <2>3. CASE AllocateTables \/ GetElement \/ SkipNull \/ GetChars
    BY <2>3 DEF AllocateTables, GetElement, SkipNull, GetChars, Borrowing,
       Advance, peerVars, CallType
  <2>4. CASE AllocateTablesFails \/ RejectNull \/ GetCharsFails
    BY <2>4 DEF AllocateTablesFails, RejectNull, GetCharsFails, Borrowing,
       ThrowReleasing, Idle, peerVars
  <2>5. ASSUME NEW ok \in BOOLEAN, CallLibrary(ok)
        PROVE  DeletionInv'
    BY <2>5 DEF CallLibrary, CallType
  <2>6. CASE Release
    BY <2>6 DEF Release, Idle, peerVars, CallType
  <2>7. CASE Construct \/ AllocateCallback
    BY <2>7 DEF Construct, AllocateCallback, CallType
  <2>8. CASE AllocateCallbackFails \/ SetPointer
    BY <2>8 DEF AllocateCallbackFails, SetPointer, Idle, peerVars
  <2>9. CASE Forget \/ Collect \/ Reliability
    <3>1. CASE Forget
      BY <3>1 DEF Forget
    <3>2. CASE Reliability
      BY <3>2 DEF Reliability, peerVars
    <3>3. CASE Collect
      BY <3>3 DEF Collect, Reachable, RecordRefers, RunCleaner, DeletePeer
    <3> QED
      BY <2>9, <3>1, <3>2, <3>3
  <2>10. ASSUME NEW result \in {"ok", "failure"}, Close(result)
         PROVE  DeletionInv'
    BY <2>10 DEF Close, RunCleaner, DeletePeer, CallType
  <2> QED
    BY <2>1, <2>2, <2>3, <2>4, <2>5, <2>6, <2>7, <2>8, <2>9, <2>10 DEF Next, CallStep
<1> QED
  BY <1>1, <1>2, Invariance, PTL DEF Spec

(* However its creation ends, a peer whose handle is deleted has no        *)
(* callback record left, and so no global reference that keeps it.         *)
THEOREM RecordIsFreed == Spec => []RecordGoesWithHandle
<1>1. DeletionInv => RecordGoesWithHandle
  BY DEF DeletionInv
<1> QED
  BY <1>1, DeletionInvariance, PTL

-----------------------------------------------------------------------------
(* Until a peer has its callback record nobody but createPeer refers to    *)
(* it, and from its constructor on the Cleaner knows it.                   *)
UnfinishedInv ==
  /\ record = "none" => ~held /\ ~pointer /\ call.entry \notin Later
  /\ ~At("idle") => call.entry # "none"
  /\ call.entry = "createPeer" /\ call.step \in {"tables", "borrow", "releaseThrow"}
       => handle = "none"
  /\ At("setup") => cleaner = "registered"
  /\ At("point") => record # "none"
  /\ At("idle") /\ handle = "open" /\ record = "none" => cleaner = "registered"

LEMMA UnfinishedInvariance == Spec => []UnfinishedInv
<1>1. Init => UnfinishedInv
  BY DEF Init, Idle, UnfinishedInv, At, Later
<1>2. CreationInv /\ PeerType /\ DeletionInv /\ UnfinishedInv /\ [Next]_vars => UnfinishedInv'
  <2> SUFFICES ASSUME CallType, PeerType, DeletionInv, UnfinishedInv, [Next]_vars
               PROVE  UnfinishedInv'
    BY DEF CreationInv
  <2> USE DEF UnfinishedInv, At
  <2>1. CASE UNCHANGED vars
    BY <2>1 DEF vars
  <2>2. ASSUME NEW entry \in Entries, Begin(entry)
        PROVE  UnfinishedInv'
    BY <2>2 DEF Begin, peerVars, Entries, Later
  <2>3. CASE AllocateTables \/ GetElement \/ SkipNull \/ GetChars
    BY <2>3 DEF AllocateTables, GetElement, SkipNull, GetChars, Borrowing,
       Advance, peerVars, CallType
  <2>4. CASE AllocateTablesFails \/ RejectNull \/ GetCharsFails
    <3>1. call' = Idle /\ UNCHANGED peerVars /\ call.step \in {"tables", "borrow"}
      BY <2>4 DEF AllocateTablesFails, RejectNull, GetCharsFails, Borrowing, ThrowReleasing
    <3>2. call.entry # "none"
      BY <3>1
    <3> QED
      BY <3>1, <3>2 DEF Idle, peerVars, Later, CallType, Entries
  <2>5. ASSUME NEW ok \in BOOLEAN, CallLibrary(ok)
        PROVE  UnfinishedInv'
    BY <2>5 DEF CallLibrary, CallType, Entries
  <2>6. CASE Release
    BY <2>6 DEF Release, Idle, peerVars, CallType, Later, Entries
  <2>7. CASE Construct \/ AllocateCallback
    BY <2>7 DEF Construct, AllocateCallback, CallType
  <2>8. CASE AllocateCallbackFails \/ SetPointer
    BY <2>8 DEF AllocateCallbackFails, SetPointer, Idle, peerVars, Later
  <2>9. CASE Forget \/ Reliability
    BY <2>9 DEF Forget, Reliability, peerVars
  <2>10. CASE Collect
    BY <2>10 DEF Collect, Reachable, RunCleaner, DeletePeer, PeerType
  <2>11. ASSUME NEW result \in {"ok", "failure"}, Close(result)
         PROVE  UnfinishedInv'
    BY <2>11 DEF Close, RunCleaner, DeletePeer, CallType, PeerType
  <2> QED
    BY <2>1, <2>2, <2>3, <2>4, <2>5, <2>6, <2>7, <2>8, <2>9, <2>10, <2>11 DEF Next, CallStep
<1> QED
  BY <1>1, <1>2, Invariance, PeerTypeInvariance, DeletionInvariance, PTL DEF Spec

(* A peer whose creation failed after the library made it is left to the   *)
(* Cleaner alone: no reference and no callback record keeps it from being  *)
(* collected and deleted.                                                  *)
THEOREM FailedIsCollectable == Spec => []FailedCreationIsCollectable
<1>1. UnfinishedInv => FailedCreationIsCollectable
  BY DEF UnfinishedInv, FailedCreationIsCollectable, Reachable, RecordRefers
<1> QED
  BY <1>1, UnfinishedInvariance, PTL
=============================================================================
