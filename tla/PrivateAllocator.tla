--------------------------- MODULE PrivateAllocator ---------------------------
(***************************************************************************)
(* The allocator that the native library keeps to itself, mimalloc.        *)
(*                                                                         *)
(* Every free() in the library is mimalloc's, so every block that library  *)
(* code holds must come from it, by whatever way it was allocated: C       *)
(* sources are compiled with a header that redirects the calls, calls in   *)
(* the embedded C++ runtime resolve to functions of the same names, on     *)
(* Windows through import addresses as well, and OpenSSL is told which     *)
(* functions to use.  OpenSSL takes that only before it allocates.         *)
(*                                                                         *)
(* This module has no behaviours of its own: JniRuntime loads and unloads  *)
(* the library with it.                                                    *)
(***************************************************************************)
CONSTANT Blocks  \* bound: blocks held at the same time

VARIABLES
  platform, \* "windows", "apple" or "other"
  hooks,    \* whether OpenSSL uses the functions of the library
  used,     \* whether OpenSSL has allocated
  blocks,   \* per block: the allocator it was taken from
  format    \* where a call of asprintf_l stands

allocatorVars == <<platform, hooks, used, blocks, format>>

AllocatorInit ==
  /\ platform \in {"windows", "apple", "other"}
  /\ hooks = FALSE
  /\ used = FALSE
  /\ blocks = [b \in Blocks |-> "none"]
  /\ format = "none"

-----------------------------------------------------------------------------
(* initialize_private_allocator: functions that are set already are        *)
(* accepted; others OpenSSL replaces only before its first allocation.     *)
Accepted == hooks \/ ~used

InitializePrivateAllocator == Accepted /\ hooks' = TRUE

(* Calls of malloc and its relatives. *)
Take(b, owner) ==
  /\ blocks[b] = "none"
  /\ blocks' = [blocks EXCEPT ![b] = owner]
  /\ UNCHANGED <<platform, hooks, format>>

(* C sources, and the embedded C++ runtime *)
Malloc(b) == Take(b, "private") /\ UNCHANGED used

(* Windows: the import addresses of the C runtime *)
ImportMalloc(b) == platform = "windows" /\ Take(b, "private") /\ UNCHANGED used

(* OpenSSL *)
CryptoMalloc(b) ==
  /\ Take(b, IF hooks THEN "private" ELSE "process")
  /\ used' = TRUE

Free(b) ==
  /\ blocks[b] # "none"
  /\ blocks' = [blocks EXCEPT ![b] = "none"]
  /\ UNCHANGED <<platform, hooks, used, format>>

-----------------------------------------------------------------------------
(* asprintf_l, which the C++ runtime of Apple calls and whose result it    *)
(* frees: measure, allocate, write                                         *)

FormatMeasure ==
  /\ platform = "apple"
  /\ format = "none"
  /\ format' = "measured"
  /\ UNCHANGED <<platform, hooks, used, blocks>>

(* -1, with no output *)
FormatFails ==
  /\ format = "measured"
  /\ format' = "none"
  /\ UNCHANGED <<platform, hooks, used, blocks>>

FormatAllocate(b) ==
  /\ format = "measured"
  /\ blocks[b] = "none"
  /\ blocks' = [blocks EXCEPT ![b] = "private"]
  /\ format' = b
  /\ UNCHANGED <<platform, hooks, used>>

(* The block is the caller's; or it is freed, and there is no output.      *)
FormatWrite(b, written) ==
  /\ format = b
  /\ blocks' = IF written THEN blocks ELSE [blocks EXCEPT ![b] = "none"]
  /\ format' = "none"
  /\ UNCHANGED <<platform, hooks, used>>

-----------------------------------------------------------------------------
(* What the code of the loaded library does with memory; a block that is   *)
(* being formatted is nobody else's.                                       *)
AllocatorStep(running) ==
  \/ FormatMeasure \/ FormatFails
  \/ \E b \in Blocks :
       \/ Malloc(b) \/ ImportMalloc(b)
       \/ running /\ CryptoMalloc(b)
       \/ format # b /\ Free(b)
       \/ FormatAllocate(b)
       \/ \E written \in BOOLEAN : FormatWrite(b, written)

AllocatorTypeOK ==
  /\ platform \in {"windows", "apple", "other"}
  /\ hooks \in BOOLEAN
  /\ used \in BOOLEAN
  /\ blocks \in [Blocks -> {"none", "private", "process"}]
  /\ format \in {"none", "measured"} \cup Blocks

(* Whatever library code frees, it frees with the allocator the block came *)
(* from: no block it holds is the process allocator's, be it from a C      *)
(* source, the C++ runtime, a CRT import, asprintf_l or OpenSSL, before    *)
(* and after the library is unloaded and loaded again.                     *)
FreedByOwner == \A b \in Blocks : blocks[b] # "process"
=============================================================================
