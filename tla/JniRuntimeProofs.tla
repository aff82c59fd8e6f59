--------------------------- MODULE JniRuntimeProofs ---------------------------
(***************************************************************************)
(* What holds of JniRuntime for any number of workers and Java threads,    *)
(* with either way of registering attachments, however often the library   *)
(* is loaded.                                                              *)
(*                                                                         *)
(* The invariant has three parts.  Phases: which of the flags, the bound   *)
(* classes and the step of JNI_OnUnload go together, and that no worker is *)
(* left once rtcCleanup has returned.  ThreadInv: a worker the library     *)
(* attached is registered, unless it is on its way between the two steps.  *)
(* MemoryInv: OpenSSL does not allocate before it has its functions, in    *)
(* any image of the library.                                               *)
(***************************************************************************)
EXTENDS JniRuntime, TLAPS

Phases ==
  /\ jvm <=> loaded \/ load # "no"
  /\ bound = IF Running THEN 1 ELSE 0
  /\ load # "no" => ~loaded /\ ~unloading /\ unload = "no"
  /\ loaded /\ unload = "no" => ~unloading
  /\ unload # "no" => unloading
  /\ unload \in {"cleanup", "forget"} => loaded
  /\ unload = "release" => ~loaded

WorkersStopped ==
  unload = "forget" \/ ~Running => \A t \in Workers : At(t, "gone")

ThreadInv(t) ==
  /\ t \in JavaThreads => attached[t] = "java" /\ ~At(t, "gone")
  /\ t \in Workers => attached[t] # "java"
  /\ t \in registered =>
       attached[t] = "library" /\ ~At(t, "gone") /\ ~At(t, "attached")
  /\ At(t, "gone") => attached[t] = "no"
  /\ At(t, "attached") => attached[t] = "library"
  /\ attached[t] = "library" => t \in registered \/ At(t, "attached")

ThreadsInv == \A t \in Threads : ThreadInv(t)

MemoryInv ==
  /\ jvm \/ used => hooks
  /\ refused # "allocator"
  /\ FreedByOwner

RuntimeInv == TypeOK /\ Phases /\ WorkersStopped /\ ThreadsInv /\ MemoryInv

-----------------------------------------------------------------------------
LEMMA InitInv == Init => RuntimeInv
<1> SUFFICES ASSUME Init PROVE RuntimeInv
  OBVIOUS
<1>1. TypeOK
  <2>1. attached \in [Threads -> {"no", "java", "library"}]
    BY DEF Init
  <2>2. step \in [Threads -> {"gone", "idle", "checked", "attached", "java"}]
    BY DEF Init
  <2>3. bound \in 0 .. 1 /\ loads \in 0 .. MaxLoads
    BY RuntimeAssumption DEF Init
  <2>4. AllocatorTypeOK
    BY DEF Init, AllocatorInit, AllocatorTypeOK
  <2> QED
    BY <2>1, <2>2, <2>3, <2>4 DEF Init, TypeOK
<1>2. Phases
  BY DEF Init, Phases, Running
<1>3. WorkersStopped
  BY RuntimeAssumption DEF Init, WorkersStopped, At, Threads
<1>4. ThreadsInv
  <2> SUFFICES ASSUME NEW t \in Threads PROVE ThreadInv(t)
    BY DEF ThreadsInv
  <2> QED
    BY RuntimeAssumption DEF Init, ThreadInv, Threads, At
<1>5. MemoryInv
  BY DEF Init, AllocatorInit, MemoryInv, FreedByOwner
<1> QED
  BY <1>1, <1>2, <1>3, <1>4, <1>5 DEF RuntimeInv

(* A step that does not touch memory keeps what is known of it.            *)
LEMMA SameMemory ==
  ASSUME RuntimeInv, UNCHANGED memoryVars, jvm' => jvm
  PROVE  AllocatorTypeOK' /\ refused' \in {"no", "allocator", "slot"} /\ MemoryInv'
BY DEF RuntimeInv, TypeOK, MemoryInv, FreedByOwner, memoryVars, allocatorVars,
       AllocatorTypeOK

(* A step of one thread leaves the library alone, and the other threads    *)
(* where they are.                                                         *)
ThreadStep(t) ==
  /\ UNCHANGED <<libVars, unload, memoryVars>>
  /\ step' \in [Threads -> {"gone", "idle", "checked", "attached", "java"}]
  /\ attached' \in [Threads -> {"no", "java", "library"}]
  /\ registered' \subseteq Threads
  /\ \A u \in Threads \ {t} :
       /\ step'[u] = step[u]
       /\ attached'[u] = attached[u]
       /\ u \in registered' <=> u \in registered

LEMMA ThreadStepInv ==
  ASSUME RuntimeInv, NEW t \in Threads, ThreadStep(t),
         ~At(t, "gone") \/ (Running /\ ~unloading), ThreadInv(t)'
  PROVE  RuntimeInv'
<1>5. AllocatorTypeOK' /\ refused' \in {"no", "allocator", "slot"} /\ MemoryInv'
  BY SameMemory DEF ThreadStep, libVars
<1>1. TypeOK'
  BY <1>5 DEF RuntimeInv, TypeOK, ThreadStep, libVars
<1>2. Phases'
  BY DEF RuntimeInv, Phases, ThreadStep, libVars, Running
<1>3. WorkersStopped'
  <2> SUFFICES ASSUME unload = "forget" \/ ~Running, NEW u \in Workers
               PROVE  At(u, "gone")'
    BY DEF WorkersStopped, ThreadStep, libVars, Running
  <2>1. \A w \in Workers : At(w, "gone")
    BY DEF RuntimeInv, WorkersStopped
  <2>2. CASE u # t
    BY <2>1, <2>2 DEF ThreadStep, Threads, At
  <2>3. CASE u = t
    <3>1. Running /\ ~unloading
      BY <2>1, <2>3
    <3>2. unload = "forget"
      BY <3>1
    <3> QED
      BY <3>1, <3>2 DEF RuntimeInv, Phases
  <2> QED
    BY <2>2, <2>3
<1>4. ThreadsInv'
  <2> SUFFICES ASSUME NEW u \in Threads, u # t PROVE ThreadInv(u)'
    BY DEF ThreadsInv
  <2> QED
    BY DEF RuntimeInv, ThreadsInv, ThreadInv, ThreadStep, At
<1> QED
  BY <1>1, <1>2, <1>3, <1>4, <1>5 DEF RuntimeInv

(* What the library and OpenSSL do with memory disturbs nothing else.      *)
LEMMA AllocateInv == RuntimeInv /\ Allocate => RuntimeInv'
<1> SUFFICES ASSUME RuntimeInv, Allocate PROVE RuntimeInv'
  OBVIOUS
<1>1. /\ UNCHANGED <<libVars, threadVars, unload, refused>>
      /\ AllocatorStep(Running)
  BY DEF Allocate
<1>2. /\ AllocatorTypeOK
      /\ FreedByOwner
      /\ jvm \/ used => hooks
      /\ Running => jvm
  BY DEF RuntimeInv, TypeOK, MemoryInv, Phases, Running
<1>3. AllocatorTypeOK' /\ FreedByOwner' /\ hooks' = hooks /\ (used' => used \/ Running)
  <2>1. CASE FormatMeasure \/ FormatFails
    BY <1>2, <2>1 DEF FormatMeasure, FormatFails, AllocatorTypeOK, FreedByOwner
  <2>2. ASSUME NEW b \in Blocks, Malloc(b) \/ ImportMalloc(b)
        PROVE  AllocatorTypeOK' /\ FreedByOwner' /\ hooks' = hooks /\ used' = used
    BY <1>2, <2>2 DEF Malloc, ImportMalloc, Take, AllocatorTypeOK, FreedByOwner
  <2>3. ASSUME NEW b \in Blocks, Running, CryptoMalloc(b)
        PROVE  AllocatorTypeOK' /\ FreedByOwner' /\ hooks' = hooks
    BY <1>2, <2>3 DEF CryptoMalloc, Take, AllocatorTypeOK, FreedByOwner
  <2>4. ASSUME NEW b \in Blocks, Free(b) \/ FormatAllocate(b)
        PROVE  AllocatorTypeOK' /\ FreedByOwner' /\ hooks' = hooks /\ used' = used
    BY <1>2, <2>4 DEF Free, FormatAllocate, AllocatorTypeOK, FreedByOwner
  <2>5. ASSUME NEW b \in Blocks, NEW written \in BOOLEAN, FormatWrite(b, written)
        PROVE  AllocatorTypeOK' /\ FreedByOwner' /\ hooks' = hooks /\ used' = used
    BY <1>2, <2>5 DEF FormatWrite, AllocatorTypeOK, FreedByOwner
  <2> QED
    BY <1>1, <2>1, <2>2, <2>3, <2>4, <2>5 DEF AllocatorStep
<1>4. MemoryInv'
  BY <1>1, <1>2, <1>3 DEF RuntimeInv, MemoryInv, libVars
<1>5. TypeOK'
  BY <1>1, <1>3 DEF RuntimeInv, TypeOK, libVars, threadVars
<1>6. Phases' /\ WorkersStopped' /\ ThreadsInv'
  BY <1>1 DEF RuntimeInv, Phases, WorkersStopped, ThreadsInv, ThreadInv, At, Running,
              libVars, threadVars
<1> QED
  BY <1>4, <1>5, <1>6 DEF RuntimeInv

LEMMA StepInv == RuntimeInv /\ [Next]_vars => RuntimeInv'
<1> SUFFICES ASSUME RuntimeInv, [Next]_vars PROVE RuntimeInv'
  OBVIOUS
<1> USE DEF RuntimeInv
<1>1. CASE UNCHANGED vars
  <2>1. AllocatorTypeOK' /\ refused' \in {"no", "allocator", "slot"} /\ MemoryInv'
    BY <1>1, SameMemory DEF vars, libVars
  <2> QED
    BY <1>1, <2>1 DEF vars, libVars, threadVars, TypeOK, Phases, WorkersStopped,
                      ThreadsInv, ThreadInv, At, Running
<1>2. CASE InitializeJni
  <2>1. ~loaded /\ load = "no" /\ ~Running /\ bound = 0
    BY <1>2 DEF InitializeJni, AlreadyLoaded, Phases, Running
  <2>2. TypeOK'
    <3>1. loads' \in 0 .. MaxLoads
      BY <1>2, <2>1, RuntimeAssumption DEF InitializeJni, TypeOK
    <3>2. AllocatorTypeOK'
      BY <1>2 DEF InitializeJni, InitializePrivateAllocator, TypeOK, AllocatorTypeOK
    <3> QED
      BY <1>2, <3>1, <3>2, RuntimeAssumption DEF InitializeJni, TypeOK, threadVars
  <2>3. Phases'
    <3>1. /\ jvm' /\ load' = "bind" /\ ~loaded' /\ bound' = 0 /\ ~unloading' /\ unload' = "no"
      BY <1>2, <2>1 DEF InitializeJni
    <3> QED
      BY <3>1 DEF Phases, Running
  <2>4. WorkersStopped' /\ ThreadsInv'
    BY <1>2, <2>1 DEF InitializeJni, WorkersStopped, ThreadsInv, ThreadInv, At, threadVars
  <2>5. MemoryInv'
    BY <1>2 DEF InitializeJni, InitializePrivateAllocator, MemoryInv, FreedByOwner
  <2> QED
    BY <2>2, <2>3, <2>4, <2>5
<1>10. CASE BindClasses
  <2>1. load = "bind" /\ ~Running /\ bound = 0 /\ jvm /\ unload = "no"
    BY <1>10 DEF BindClasses, Phases, Running
  <2>2. AllocatorTypeOK' /\ refused' \in {"no", "allocator", "slot"} /\ MemoryInv'
    BY <1>10, SameMemory DEF BindClasses
  <2>3. bound' = 1
    BY <1>10, <2>1 DEF BindClasses
  <2>4. TypeOK'
    <3>1. bound' \in 0 .. 1
      BY <2>3
    <3> QED
      BY <1>10, <2>2, <3>1 DEF BindClasses, TypeOK, threadVars
  <2>5. Phases'
    BY <1>10, <2>1, <2>3 DEF BindClasses, Phases, Running
  <2>6. WorkersStopped' /\ ThreadsInv'
    BY <1>10, <2>1 DEF BindClasses, WorkersStopped, ThreadsInv, ThreadInv, At, threadVars
  <2> QED
    BY <2>2, <2>4, <2>5, <2>6
<1>11. CASE PreloadReturns
  <2>1. load = "preload" /\ Running /\ jvm /\ unload = "no" /\ bound = 1 /\ hooks /\ ~unloading
    BY <1>11 DEF PreloadReturns, Phases, MemoryInv, Running
  <2>2. TypeOK'
    <3>1. used' \in BOOLEAN /\ load' \in {"no", "bind", "preload"} /\ loaded' \in BOOLEAN
      BY <1>11 DEF PreloadReturns, TypeOK, AllocatorTypeOK
    <3>2. AllocatorTypeOK'
      BY <1>11, <3>1 DEF PreloadReturns, TypeOK, AllocatorTypeOK
    <3> QED
      BY <1>11, <3>1, <3>2 DEF PreloadReturns, TypeOK, threadVars
  <2>3. Phases'
    BY <1>11, <2>1 DEF PreloadReturns, Phases, Running
  <2>4. WorkersStopped' /\ ThreadsInv'
    BY <1>11, <2>1 DEF PreloadReturns, WorkersStopped, ThreadsInv, ThreadInv, At, Running, threadVars
  <2>5. MemoryInv'
    BY <1>11, <2>1 DEF PreloadReturns, MemoryInv, FreedByOwner
  <2> QED
    BY <2>2, <2>3, <2>4, <2>5
<1>3. CASE BeginUnload
  <2>3. AllocatorTypeOK' /\ refused' \in {"no", "allocator", "slot"} /\ MemoryInv'
    BY <1>3, SameMemory DEF BeginUnload, libVars
  <2>1. TypeOK' /\ Phases'
    BY <1>3, <2>3 DEF BeginUnload, TypeOK, Phases, Running, threadVars
  <2>2. WorkersStopped' /\ ThreadsInv'
    BY <1>3 DEF BeginUnload, WorkersStopped, ThreadsInv, ThreadInv, At, Running, threadVars
  <2> QED
    BY <2>1, <2>2, <2>3
<1>4. CASE CleanupReturns
  <2>3. AllocatorTypeOK' /\ refused' \in {"no", "allocator", "slot"} /\ MemoryInv'
    BY <1>4, SameMemory DEF CleanupReturns, libVars
  <2>1. TypeOK' /\ Phases'
    BY <1>4, <2>3 DEF CleanupReturns, TypeOK, Phases, Running, threadVars, libVars
  <2>2. WorkersStopped' /\ ThreadsInv'
    BY <1>4 DEF CleanupReturns, WorkersStopped, ThreadsInv, ThreadInv, At, Running,
                threadVars, libVars
  <2> QED
    BY <2>1, <2>2, <2>3
<1>5. CASE ForgetJvm
  <2>1. loaded /\ bound = 1 /\ load = "no"
    BY <1>5 DEF ForgetJvm, Phases, Running
  <2>2. bound' = 0
    BY <1>5, <2>1 DEF ForgetJvm
  <2>6. AllocatorTypeOK' /\ refused' \in {"no", "allocator", "slot"} /\ MemoryInv'
    BY <1>5, SameMemory DEF ForgetJvm
  <2>3. TypeOK'
    <3>1. bound' \in 0 .. 1
      BY <2>2
    <3> QED
      BY <1>5, <2>6, <3>1 DEF ForgetJvm, TypeOK, threadVars
  <2>4. Phases'
    BY <1>5, <2>1, <2>2 DEF ForgetJvm, Phases, Running
  <2>5. WorkersStopped' /\ ThreadsInv'
    BY <1>5 DEF ForgetJvm, WorkersStopped, ThreadsInv, ThreadInv, At, Running, threadVars
  <2> QED
    BY <2>3, <2>4, <2>5, <2>6
<1>6. ASSUME NEW unmapped \in BOOLEAN, ReleaseTracking(unmapped)
      PROVE  RuntimeInv'
  <2>1. ~Running /\ ~jvm /\ \A t \in Workers : At(t, "gone")
    BY <1>6 DEF ReleaseTracking, Phases, WorkersStopped, Running
  <2>5. AllocatorTypeOK' /\ MemoryInv'
    BY <1>6, <2>1 DEF ReleaseTracking, Unmapped, TypeOK, AllocatorTypeOK, MemoryInv, FreedByOwner
  <2>2. TypeOK' /\ Phases' /\ WorkersStopped'
    BY <1>6, <2>1, <2>5 DEF ReleaseTracking, TypeOK, Phases, WorkersStopped, Running, At
  <2>3. \A t \in Threads : attached[t] # "library"
    BY <2>1 DEF ThreadsInv, ThreadInv, Threads
  <2>4. ThreadsInv'
    BY <1>6, <2>3 DEF ReleaseTracking, ThreadsInv, ThreadInv, At
  <2> QED
    BY <2>2, <2>4, <2>5
<1>7. ASSUME NEW t \in Threads, GetJniEnv(t) \/ Callback(t)
      PROVE  RuntimeInv'
  <2>1. ThreadInv(t)
    BY DEF ThreadsInv
  <2>2. ThreadStep(t)
    BY <1>7 DEF GetJniEnv, Callback, GetEnv, Detached, AttachThread, AttachThreadFails,
                RegisterThread, RegisterThreadFails, ReturnFromJava,
                ThreadStep, Go, TypeOK, libVars, memoryVars
  <2>3. ThreadInv(t)'
    BY <1>7, <2>1 DEF GetJniEnv, Callback, GetEnv, Detached, AttachThread, AttachThreadFails,
                RegisterThread, RegisterThreadFails, ReturnFromJava,
                ThreadInv, At, Go, TypeOK
  <2>4. ~At(t, "gone")
    BY <1>7 DEF GetJniEnv, Callback, GetEnv, Detached, AttachThread, AttachThreadFails,
                RegisterThread, RegisterThreadFails, ReturnFromJava, At
  <2> QED
    BY <2>2, <2>3, <2>4, ThreadStepInv
<1>8. ASSUME NEW t \in Workers, StartWorker(t) \/ EndThread(t)
      PROVE  RuntimeInv'
  <2>1. t \in Threads /\ t \notin JavaThreads /\ ThreadInv(t)
    BY RuntimeAssumption DEF Threads, ThreadsInv
  <2>2. ThreadStep(t)
    BY <1>8, <2>1 DEF StartWorker, EndThread, ThreadStep, Go, TypeOK, libVars
  <2>3. ThreadInv(t)'
    BY <1>8, <2>1 DEF StartWorker, EndThread, ThreadInv, At, Go, TypeOK
  <2>4. ~At(t, "gone") \/ (Running /\ ~unloading)
    BY <1>8 DEF StartWorker, EndThread, At
  <2> QED
    BY <2>1, <2>2, <2>3, <2>4, ThreadStepInv
<1>9. CASE RefuseLoad
  <2>1. Accepted
    BY DEF MemoryInv, Accepted
  <2>2. AllocatorTypeOK' /\ MemoryInv' /\ refused' = "slot"
    BY <1>9, <2>1 DEF RefuseLoad, TypeOK, AllocatorTypeOK, MemoryInv, FreedByOwner, libVars
  <2>3. TypeOK' /\ Phases'
    BY <1>9, <2>2 DEF RefuseLoad, TypeOK, Phases, Running, libVars, threadVars
  <2>4. WorkersStopped' /\ ThreadsInv'
    BY <1>9 DEF RefuseLoad, WorkersStopped, ThreadsInv, ThreadInv, At, Running, libVars, threadVars
  <2> QED
    BY <2>2, <2>3, <2>4
<1> QED
  BY <1>1, <1>2, <1>3, <1>4, <1>5, <1>6, <1>7, <1>8, <1>9, <1>10, <1>11, AllocateInv
     DEF Next, UnloadStep

LEMMA Invariance == Spec => []RuntimeInv
BY InitInv, StepInv, PTL DEF Spec

-----------------------------------------------------------------------------
(* Every state of the runtime is of the declared types; in particular the  *)
(* classes are never bound twice.                                          *)
THEOREM TypeCorrect == Spec => []TypeOK
<1>1. RuntimeInv => TypeOK
  BY DEF RuntimeInv
<1> QED
  BY <1>1, Invariance, PTL

(* A thread that has ended is not attached to the VM any more, whichever   *)
(* of the two registrations is compiled in.                                *)
THEOREM EndedStayDetached == Spec => []EndedIsDetached
<1>1. RuntimeInv => EndedIsDetached
  BY DEF RuntimeInv, ThreadsInv, ThreadInv, EndedIsDetached
<1> QED
  BY <1>1, Invariance, PTL

(* Threads that Java or another library attached are never registered to   *)
(* be detached.                                                            *)
THEOREM OwnersAreKept == Spec => []OwnersKept
<1>1. RuntimeInv => OwnersKept
  BY DEF RuntimeInv, TypeOK, ThreadsInv, ThreadInv, OwnersKept
<1> QED
  BY <1>1, Invariance, PTL

(* A worker that is on its way into Java code finds the VM known and the   *)
(* classes bound, also while the library is being unloaded.                *)
THEOREM CallsFindClasses == Spec => []CallsWhileBound
<1>1. RuntimeInv => CallsWhileBound
  BY DEF RuntimeInv, Phases, WorkersStopped, CallsWhileBound, Running, At
<1> QED
  BY <1>1, Invariance, PTL

(* No worker is attached, or registered, when the library is unloaded.     *)
THEOREM NobodyIsLeft == Spec => []UnloadLeavesNobody
<1>1. RuntimeInv => UnloadLeavesNobody
  <2> SUFFICES ASSUME RuntimeInv, ~jvm, NEW t \in Workers
               PROVE  attached[t] = "no" /\ t \notin registered
    BY DEF UnloadLeavesNobody
  <2>1. t \in Threads /\ At(t, "gone")
    BY DEF Threads, RuntimeInv, WorkersStopped, Phases, Running
  <2> QED
    BY <2>1 DEF RuntimeInv, ThreadsInv, ThreadInv
<1> QED
  BY <1>1, Invariance, PTL

(* The library is never refused for its allocator: at every load, in a new *)
(* image or the same, OpenSSL takes the functions of the library.          *)
THEOREM AllocatorIsAccepted == Spec => []AllocatorAccepted
<1>1. RuntimeInv => AllocatorAccepted
  BY DEF RuntimeInv, MemoryInv, AllocatorAccepted
<1> QED
  BY <1>1, Invariance, PTL

(* Whatever the library frees was allocated by the allocator it frees with. *)
THEOREM BlocksKeepOwner == Spec => []FreedByOwner
<1>1. RuntimeInv => FreedByOwner
  BY DEF RuntimeInv, MemoryInv
<1> QED
  BY <1>1, Invariance, PTL

-----------------------------------------------------------------------------
(* The slot for attachments is there as long as the library knows the VM.  *)
SlotInv == jvm => slot # "free"

LEMMA SlotStep == RuntimeInv /\ SlotInv /\ [Next]_vars => SlotInv'
<1> SUFFICES ASSUME RuntimeInv, SlotInv, [Next]_vars PROVE SlotInv'
  OBVIOUS
<1> USE DEF SlotInv
<1>1. CASE InitializeJni
  BY <1>1 DEF InitializeJni, Windows
<1>2. CASE ForgetJvm
  BY <1>2 DEF ForgetJvm
<1>3. CASE \E unmapped \in BOOLEAN : ReleaseTracking(unmapped)
  BY <1>3 DEF ReleaseTracking, RuntimeInv, Phases
<1>4. CASE UNCHANGED <<jvm, slot>>
  BY <1>4
<1> QED
  BY <1>1, <1>2, <1>3, <1>4
  DEF Next, UnloadStep, BindClasses, PreloadReturns, RefuseLoad, BeginUnload, CleanupReturns, Allocate, GetJniEnv, Callback,
      GetEnv, AttachThread, AttachThreadFails, RegisterThread, RegisterThreadFails,
      ReturnFromJava, StartWorker, EndThread, libVars, vars

(* What rtcCleanup waits for comes to an end: no worker begins anything    *)
(* while the library unloads, and those that are attached for a callback   *)
(* still find the slot to register in.                                     *)
THEOREM UnloadIsNotHeldUp == Spec => UnloadDrains
<1>1. Init => SlotInv
  BY DEF Init, SlotInv
<1>2. RuntimeInv /\ SlotInv /\ [Next]_vars =>
        \A t \in Workers : unload \in {"cleanup", "forget"} => Drains(t)
  <2> SUFFICES ASSUME RuntimeInv, SlotInv, [Next]_vars, unload \in {"cleanup", "forget"},
                      NEW t \in Workers
               PROVE  Drains(t)
    OBVIOUS
  <2> USE DEF At, Drains
  <2>1. t \in Threads /\ step \in [Threads -> {"gone", "idle", "checked", "attached", "java"}]
    BY DEF Threads, RuntimeInv, TypeOK
  <2>2. unloading /\ loaded /\ jvm
    BY DEF RuntimeInv, Phases
  <2>3. At(t, "attached") /\ Windows => slot = "allocated"
    BY <2>2 DEF SlotInv, Windows, RuntimeInv, TypeOK
  <2>4. ASSUME NEW u \in Threads, Callback(u)
        PROVE  /\ At(t, "gone") => At(t, "gone")'
               /\ At(t, "idle") => At(t, "idle")'
    BY <2>1, <2>4 DEF Callback, GetEnv, AttachThread, AttachThreadFails, RegisterThread,
                      RegisterThreadFails, ReturnFromJava, Go
  <2>5. ASSUME NEW u \in Workers, EndThread(u)
        PROVE  /\ At(t, "gone") => At(t, "gone")'
               /\ At(t, "idle") => At(t, "idle")' \/ At(t, "gone")'
    BY <2>1, <2>5 DEF EndThread, Go
  <2>6. CASE UNCHANGED step
    <3>1. step'[t] = step[t]
      BY <2>6
    <3> QED
      BY <2>3, <3>1
  <2>7. UNCHANGED step
        \/ (\E u \in Threads : Callback(u)) \/ (\E u \in Workers : EndThread(u))
    BY <2>2 DEF Next, InitializeJni, BindClasses, PreloadReturns, RefuseLoad, BeginUnload, UnloadStep, CleanupReturns,
                ForgetJvm, ReleaseTracking, Allocate, GetJniEnv, StartWorker, threadVars, vars
  <2> QED
    BY <2>3, <2>4, <2>5, <2>6, <2>7
<1> QED
  BY <1>1, <1>2, SlotStep, Invariance, PTL DEF Spec, UnloadDrains
=============================================================================
