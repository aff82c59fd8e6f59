------------------------------ MODULE JniRuntime ------------------------------
(***************************************************************************)
(* The JNI library between loading and unloading, and the attachment of    *)
(* native threads to the Java VM.                                          *)
(*                                                                         *)
(* A callback on a thread the VM does not know attaches the thread and     *)
(* registers the attachment, so that it is undone when the thread ends.    *)
(* Elsewhere the registration is a thread-local object; on Windows it is a *)
(* value in a fiber-local slot, which is allocated when the library is     *)
(* loaded and freed, with all its values, when it is unloaded.  Threads    *)
(* that Java or another library attached are left alone.                   *)
(*                                                                         *)
(* Of the native library the model uses what thread_attachment.cpp says of *)
(* JNI_OnUnload: rtcCleanup stops the workers.                             *)
(***************************************************************************)
EXTENDS Naturals, FiniteSets, PrivateAllocator

CONSTANTS Workers,     \* threads of the native library
          JavaThreads, \* threads of Java
          MaxLoads     \* bound: how often the library is loaded

ASSUME RuntimeAssumption ==
  /\ Workers \cap JavaThreads = {}
  /\ MaxLoads \in Nat \ {0}

Threads == Workers \cup JavaThreads

VARIABLES
  jvm,        \* whether global_JVM is set
  loaded,     \* jvm_loaded
  unloading,  \* jvm_unloading
  load,       \* where initialize_jni stands: "no", "bind" or "preload"
  slot,       \* attachment_key: "free", "allocated", or "unused" if not Windows
  bound,      \* classes bound by module_OnLoad, not yet unbound
  loads,      \* how often the library has been loaded
  attached,   \* per thread: who attached it to the VM, if anyone
  registered, \* threads with a ThreadAttachment
  step,       \* per thread: where it stands
  unload,     \* where JNI_OnUnload stands
  refused     \* why initialize_jni failed last: "no", "allocator" or "slot"

libVars == <<jvm, loaded, unloading, load, slot, bound, loads>>
threadVars == <<attached, registered, step>>
memoryVars == <<refused, allocatorVars>>
vars == <<libVars, threadVars, unload, memoryVars>>

(* Which of the two registrations is compiled in *)
Windows == slot # "unused"

Init ==
  /\ jvm = FALSE
  /\ loaded = FALSE
  /\ unloading = FALSE
  /\ load = "no"
  /\ slot \in {"free", "unused"}
  /\ bound = 0
  /\ loads = 0
  /\ attached = [t \in Threads |-> IF t \in JavaThreads THEN "java" ELSE "no"]
  /\ registered = {}
  /\ step = [t \in Threads |-> IF t \in JavaThreads THEN "idle" ELSE "gone"]
  /\ unload = "no"
  /\ refused = "no"
  /\ AllocatorInit
  /\ Windows <=> platform = "windows"

At(t, s) == step[t] = s
Go(t, s) == step' = [step EXCEPT ![t] = s]

-----------------------------------------------------------------------------
(* Faulty variants, each the change a plausible bug would make; no action  *)
(* below uses them.                                                        *)

RegisterFailsAttached(t) ==  \* the attachment is not undone
  /\ Windows /\ At(t, "attached")
  /\ Go(t, "idle")
  /\ UNCHANGED <<libVars, attached, registered, unload, memoryVars>>

RegisterAnyone(t) ==  \* every thread that runs a callback is registered
  /\ At(t, "checked") /\ attached[t] # "no"
  /\ registered' = registered \cup {t}
  /\ Go(t, "java")
  /\ UNCHANGED <<libVars, attached, unload, memoryVars>>

ForgetFirst ==  \* the VM is forgotten before the workers are stopped
  /\ loaded /\ unload = "no"
  /\ unloading' = TRUE
  /\ jvm' = FALSE
  /\ unload' = "cleanup"
  /\ UNCHANGED <<loaded, load, slot, bound, loads, threadVars, memoryVars>>

PreloadFirst ==  \* rtcPreload comes before the allocator
  /\ unload = "no" /\ load = "no" /\ ~loaded /\ loads < MaxLoads
  /\ jvm' = TRUE /\ unloading' = FALSE
  /\ used' = TRUE
  /\ UNCHANGED hooks
  /\ slot' = IF Windows THEN "allocated" ELSE slot
  /\ loads' = loads + 1
  /\ load' = "bind"
  /\ UNCHANGED <<loaded, bound, threadVars, unload, refused, platform, blocks, format>>

FreeSlotFirst ==  \* the slot is freed before the workers are stopped
  /\ loaded /\ unload = "no"
  /\ unloading' = TRUE
  /\ slot' = IF Windows THEN "free" ELSE slot
  /\ registered' = IF Windows THEN {} ELSE registered
  /\ unload' = "cleanup"
  /\ UNCHANGED <<jvm, loaded, load, bound, loads, attached, step, memoryVars>>

GetEnvLocked(t) ==  \* get_jni_env takes a lock that JNI_OnUnload holds
  /\ At(t, "checked")
  /\ attached[t] # "no"
  /\ ~unloading
  /\ Go(t, "java")
  /\ UNCHANGED <<libVars, attached, registered, unload, memoryVars>>

-----------------------------------------------------------------------------
(* Loading: JNI_OnLoad, and initializeNative where the library is linked   *)
(* statically                                                              *)

AlreadyLoaded == loaded /\ jvm /\ ~unloading

(* The allocator, the slot, and the VM: callbacks find it from here on.    *)
InitializeJni ==
  /\ unload = "no"
  /\ load = "no"
  /\ ~AlreadyLoaded
  /\ loads < MaxLoads
  /\ InitializePrivateAllocator
  /\ jvm' = TRUE
  /\ unloading' = FALSE
  /\ slot' = IF Windows THEN "allocated" ELSE slot
  /\ loads' = loads + 1
  /\ refused' = "no"
  /\ load' = "bind"
  /\ UNCHANGED <<loaded, bound, threadVars, unload, platform, used, blocks, format>>

(* module_OnLoad *)
BindClasses ==
  /\ load = "bind"
  /\ bound' = bound + 1
  /\ load' = "preload"
  /\ UNCHANGED <<jvm, loaded, unloading, slot, loads, threadVars, unload, memoryVars>>

(* rtcInitLogger and rtcPreload have started the library when they return. *)
PreloadReturns ==
  /\ load = "preload"
  /\ loaded' = TRUE
  /\ load' = "no"
  /\ used' \in {used, TRUE}
  /\ UNCHANGED <<jvm, unloading, slot, bound, loads, threadVars, unload, refused,
                 platform, hooks, blocks, format>>

(* The native library and OpenSSL work. *)
Running == loaded \/ load = "preload"

(* JNI_ERR: OpenSSL does not take the functions, also if the library is    *)
(* loaded already; or Windows has no fiber-local slot left.                *)
RefuseLoad ==
  /\ unload = "no"
  /\ load = "no"
  /\ Accepted => ~AlreadyLoaded /\ slot = "free"
  /\ refused' = IF Accepted THEN "slot" ELSE "allocator"
  /\ hooks' = (hooks \/ Accepted)
  /\ UNCHANGED <<libVars, threadVars, unload, platform, used, blocks, format>>

(* rtcPreload and the first connections start workers. *)
StartWorker(t) ==
  /\ t \in Workers
  /\ At(t, "gone")
  /\ Running /\ ~unloading
  /\ Go(t, "idle")
  /\ UNCHANGED <<libVars, attached, registered, unload, memoryVars>>

-----------------------------------------------------------------------------
(* A callback: get_jni_env, the call into Java, the return.  A callback    *)
(* that finds the VM unset or the library unloading is dropped.            *)

GetJniEnv(t) ==
  /\ At(t, "idle")
  /\ jvm /\ ~unloading
  /\ Go(t, "checked")
  /\ UNCHANGED <<libVars, attached, registered, unload, memoryVars>>

(* What GetEnv answers: JNI_EDETACHED, or JNI_OK *)
Detached(t) == attached[t] = "no"

(* The VM knows the thread already. *)
GetEnv(t) ==
  /\ At(t, "checked")
  /\ ~Detached(t)
  /\ Go(t, "java")
  /\ UNCHANGED <<libVars, attached, registered, unload, memoryVars>>

AttachThread(t) ==
  /\ At(t, "checked")
  /\ Detached(t)
  /\ attached' = [attached EXCEPT ![t] = "library"]
  /\ Go(t, "attached")
  /\ UNCHANGED <<libVars, registered, unload, memoryVars>>

AttachThreadFails(t) ==
  /\ At(t, "checked")
  /\ Detached(t)
  /\ Go(t, "idle")
  /\ UNCHANGED <<libVars, attached, registered, unload, memoryVars>>

RegisterThread(t) ==
  /\ At(t, "attached")
  /\ Windows => slot = "allocated"
  /\ registered' = registered \cup {t}
  /\ Go(t, "java")
  /\ UNCHANGED <<libVars, attached, unload, memoryVars>>

(* On Windows the slot may be gone or there may be no memory for the       *)
(* value: the thread is detached again and the callback dropped.           *)
RegisterThreadFails(t) ==
  /\ Windows
  /\ At(t, "attached")
  /\ attached' = [attached EXCEPT ![t] = "no"]
  /\ Go(t, "idle")
  /\ UNCHANGED <<libVars, registered, unload, memoryVars>>

ReturnFromJava(t) ==
  /\ At(t, "java")
  /\ Go(t, "idle")
  /\ UNCHANGED <<libVars, attached, registered, unload, memoryVars>>

(* The end of a thread runs the destructor of its attachment, *)
EndThread(t) ==
  /\ At(t, "idle")
  /\ attached' = [attached EXCEPT ![t] = IF t \in registered THEN "no" ELSE @]
  /\ registered' = registered \ {t}
  /\ Go(t, "gone")
  /\ UNCHANGED <<libVars, unload, memoryVars>>

-----------------------------------------------------------------------------
(* JNI_OnUnload *)

BeginUnload ==
  /\ loaded
  /\ unload = "no"
  /\ unloading' = TRUE
  /\ unload' = "cleanup"
  /\ UNCHANGED <<jvm, loaded, load, slot, bound, loads, threadVars, memoryVars>>

(* rtcCleanup returns when the workers have ended. *)
CleanupReturns ==
  /\ unload = "cleanup"
  /\ \A t \in Workers : At(t, "gone")
  /\ unload' = "forget"
  /\ UNCHANGED <<libVars, threadVars, memoryVars>>

ForgetJvm ==
  /\ unload = "forget"
  /\ bound' = bound - 1
  /\ jvm' = FALSE
  /\ loaded' = FALSE
  /\ unload' = "release"
  /\ UNCHANGED <<unloading, load, slot, loads, threadVars, memoryVars>>

(* The VM unmaps the library: DllMain does nothing, and its memory and     *)
(* that of OpenSSL are gone, with whatever was set in them.                *)
Unmapped ==
  /\ hooks' = FALSE
  /\ used' = FALSE
  /\ blocks' = [b \in Blocks |-> "none"]
  /\ format' = "none"

(* FlsFree runs detach_thread for every value, on this thread: it frees    *)
(* them, and detaches no thread but this one.  The VM may then unmap the   *)
(* library, or keep it.                                                    *)
ReleaseTracking(unmapped) ==
  /\ unload = "release"
  /\ slot' = IF Windows THEN "free" ELSE slot
  /\ registered' = IF Windows THEN {} ELSE registered
  /\ unload' = "no"
  /\ IF unmapped THEN Unmapped ELSE UNCHANGED <<hooks, used, blocks, format>>
  /\ UNCHANGED <<jvm, loaded, unloading, load, bound, loads, attached, step, refused, platform>>

-----------------------------------------------------------------------------
Callback(t) ==
  \/ GetEnv(t)
  \/ AttachThread(t) \/ AttachThreadFails(t)
  \/ RegisterThread(t) \/ RegisterThreadFails(t)
  \/ ReturnFromJava(t)

UnloadStep ==
  \/ CleanupReturns \/ ForgetJvm
  \/ \E unmapped \in BOOLEAN : ReleaseTracking(unmapped)

(* The library allocates and frees; OpenSSL works while it is running.     *)
Allocate == AllocatorStep(Running) /\ UNCHANGED <<libVars, threadVars, unload, refused>>

Next ==
  \/ InitializeJni \/ BindClasses \/ PreloadReturns \/ RefuseLoad
  \/ BeginUnload \/ UnloadStep \/ Allocate
  \/ \E t \in Threads : GetJniEnv(t) \/ Callback(t)
  \/ \E t \in Workers : StartWorker(t) \/ EndThread(t)

Spec == Init /\ [][Next]_vars

(* Callbacks return, rtcCleanup ends the workers, and JNI_OnUnload goes on. *)
Fairness ==
  /\ \A t \in Threads : WF_vars(Callback(t))
  /\ \A t \in Workers : SF_vars(unloading /\ EndThread(t))
  /\ WF_vars(UnloadStep)

FairSpec == Spec /\ Fairness

-----------------------------------------------------------------------------
(* Properties *)

TypeOK ==
  /\ jvm \in BOOLEAN
  /\ loaded \in BOOLEAN
  /\ unloading \in BOOLEAN
  /\ load \in {"no", "bind", "preload"}
  /\ slot \in {"unused", "free", "allocated"}
  /\ bound \in 0 .. 1
  /\ loads \in 0 .. MaxLoads
  /\ attached \in [Threads -> {"no", "java", "library"}]
  /\ registered \subseteq Threads
  /\ step \in [Threads -> {"gone", "idle", "checked", "attached", "java"}]
  /\ unload \in {"no", "cleanup", "forget", "release"}
  /\ refused \in {"no", "allocator", "slot"}
  /\ AllocatorTypeOK

(* "Returned native callback must release its Java thread": a thread that  *)
(* has ended is not attached any more.                                     *)
EndedIsDetached == \A t \in Threads : At(t, "gone") => attached[t] = "no"

(* "Java-owned threads and attachments belonging to another native caller  *)
(* keep their owner": only threads the library attached are registered to  *)
(* be detached.                                                            *)
OwnersKept == \A t \in registered : attached[t] = "library"

(* A worker that runs Java code, or is on its way to, does so while the    *)
(* library knows the VM and its classes are bound: also one that rtcPreload *)
(* has started before jvm_loaded is set.                                   *)
CallsWhileBound ==
  \A t \in Workers :
    step[t] \in {"checked", "attached", "java"} => jvm /\ bound = 1

(* When the library is unloaded no worker is left attached to the VM.      *)
UnloadLeavesNobody ==
  ~jvm => \A t \in Workers : attached[t] = "no" /\ t \notin registered

(* The library is never refused for its allocator: OpenSSL gets its         *)
(* functions before it first allocates, and they are recognised when the   *)
(* library is initialised again, in the same image or a new one.           *)
AllocatorAccepted == refused # "allocator"

(* A worker begins nothing, and if it is in a callback it gets on with it: *)
(* its attachment can still be registered.                                 *)
Drains(t) ==
  /\ At(t, "gone") => At(t, "gone")'
  /\ At(t, "idle") => At(t, "idle")' \/ At(t, "gone")'
  /\ At(t, "attached") /\ Windows => slot = "allocated"

(* While the library unloads no callback begins and no worker starts, and  *)
(* the slot for attachments is freed after the workers: rtcCleanup waits   *)
(* only for the callbacks that had begun.                                  *)
UnloadDrains ==
  [][\A t \in Workers : unload \in {"cleanup", "forget"} => Drains(t)]_vars

(* Unloading ends: no callback waits for something that unloading withholds. *)
UnloadEnds == unload # "no" ~> unload = "no"
=============================================================================
