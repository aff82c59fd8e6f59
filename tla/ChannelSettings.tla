---------------------------- MODULE ChannelSettings ----------------------------
(***************************************************************************)
(* The settings of a data channel on their way to the native library and   *)
(* back, as operators.                                                     *)
(*                                                                         *)
(* createDataChannel unpacks DataChannelInitSettings; the JNI layer stores *)
(* them in C integers of other widths; the library keeps what its rules    *)
(* leave of them; and reliability() reads them back.                       *)
(***************************************************************************)
EXTENDS Integers

CONSTANTS HalfRange,   \* 2^31: a Java int has twice as many values
          StreamRange, \* 2^16: the values of a uint16_t
          Lifetimes,   \* lifetimes in ms an application asks for
          Retransmits, \* numbers of retransmissions it asks for
          Streams      \* stream ids it asks for

Automatic == -1  \* no stream id of the application's

JInt == - HalfRange .. HalfRange - 1

ASSUME SettingsAssumption ==
  /\ HalfRange \in Nat \ {0}
  /\ StreamRange \in Nat \ {0}
  /\ Lifetimes \subseteq Nat
  /\ Retransmits \subseteq JInt
  /\ Streams \subseteq Nat

UnsignedRange == 2 * HalfRange

(* Whatever the order in which an application calls the `with` methods.    *)
Settings == [unordered : BOOLEAN, unreliable : BOOLEAN, lifetime : Lifetimes,
             retransmits : Retransmits, stream : Streams \cup {Automatic}]

-----------------------------------------------------------------------------
(* Conversions of C: to an unsigned int, to a uint16_t, and back to a jint *)

UInt(n) == n % UnsignedRange
UInt16(n) == n % StreamRange

ReadUnsigned(n) == n  \* a faulty variant of the next: without the cast

ToJavaInt(n) == IF n < HalfRange THEN n ELSE n - UnsignedRange

-----------------------------------------------------------------------------
(* Faulty variants of ChannelInit, each the change a plausible bug would   *)
(* make.                                                                   *)

ZeroMeansAutomatic(s) ==  \* stream 0 is taken for no stream
  [unordered |-> s.unordered, unreliable |-> s.unreliable,
   lifetime |-> UInt(s.lifetime), retransmits |-> UInt(s.retransmits),
   stream |-> UInt16(s.stream), manualStream |-> s.stream > 0]

SwapLimits(s) ==  \* two positional arguments are swapped
  [unordered |-> s.unordered, unreliable |-> s.unreliable,
   lifetime |-> UInt(s.retransmits), retransmits |-> UInt(s.lifetime),
   stream |-> UInt16(s.stream), manualStream |-> s.stream # Automatic]

-----------------------------------------------------------------------------
(* The rtcDataChannelInit that rtcCreateDataChannelEx fills *)
ChannelInit(s) ==
  [unordered    |-> s.unordered,
   unreliable   |-> s.unreliable,
   lifetime     |-> UInt(s.lifetime),
   retransmits  |-> UInt(s.retransmits),
   stream       |-> IF s.stream = Automatic THEN 0 ELSE UInt16(s.stream),
   manualStream |-> s.stream # Automatic]

(* The library keeps one limit of an unreliable channel: the lifetime if   *)
(* it is not 0.                                                            *)
Keep(n) ==
  [unordered   |-> n.unordered,
   unreliable  |-> n.unreliable,
   lifetime    |-> IF n.unreliable THEN n.lifetime ELSE 0,
   retransmits |-> IF n.unreliable /\ n.lifetime = 0 THEN n.retransmits ELSE 0]

(* rtcGetDataChannelReliability: the Java object made of what was kept *)
ReadBack(n) == [Keep(n) EXCEPT !.retransmits = ToJavaInt(@)]

(* A channel is created with the stream the application asked for, and     *)
(* with one of the library's choice only if it asked for none.             *)
Honours(n, s) ==
  /\ n.manualStream <=> s.stream # Automatic
  /\ n.manualStream => n.stream = s.stream

(* What is read agrees with what was asked for, as far as the Javadoc      *)
(* gives it a meaning: the retransmissions count "if unreliable is true    *)
(* and maxPacketLifeTime is 0".                                            *)
Agrees(r, s) ==
  /\ r.unordered = s.unordered
  /\ r.unreliable = s.unreliable
  /\ s.unreliable => r.lifetime = s.lifetime
  /\ s.unreliable /\ s.lifetime = 0 => r.retransmits = s.retransmits
=============================================================================
