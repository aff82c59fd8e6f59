--------------------------- MODULE LibraryInitProofs ---------------------------
(***************************************************************************)
(* What holds of LibraryInit for any number of threads and of failures.    *)
(*                                                                         *)
(* The invariant says who holds the monitor, what the holder finds at each *)
(* of its steps, and what the state of the class says of the library.      *)
(***************************************************************************)
EXTENDS LibraryInit, TLAPS

InMonitor == {"load", "ask", "leave", "throw"}

Calls == [kind : {"none", "initialize", "native"},
          step : {"idle", "class", "native", "monitor", "load", "ask", "leave", "throw"}]

(* A thread is between EnterMonitor and its release exactly while it holds *)
(* the monitor.                                                            *)
MonitorInv == \A t \in Threads : call[t].step \in InMonitor <=> monitor = t

ThreadInv(t) ==
  /\ At(t, "load") => ~initialized /\ loads <= failures
  /\ At(t, "ask") => library
  /\ At(t, "leave") => initialized
  /\ At(t, "native") => class = "ready"

LibraryInv ==
  /\ loads <= failures + 1
  /\ loads > failures => initialized \/ \E t \in Threads : At(t, "ask")
  /\ initialized => library
  /\ class = "ready" => initialized
  /\ classOwner # NoThread => class = "busy"

LoadInv ==
  /\ TypeOK
  /\ MonitorInv
  /\ \A t \in Threads : ThreadInv(t)
  /\ LibraryInv

-----------------------------------------------------------------------------
LEMMA InitInv == Init => LoadInv
<1> SUFFICES ASSUME Init PROVE LoadInv
  OBVIOUS
<1>1. call \in [Threads -> Calls]
  BY DEF Init, Idle, Calls
<1>2. loads \in 0 .. MaxFailures + 1 /\ failures \in 0 .. MaxFailures
  BY InitAssumption DEF Init
<1>3. TypeOK
  BY <1>1, <1>2 DEF Init, TypeOK, Calls
<1>4. MonitorInv
  BY InitAssumption DEF Init, MonitorInv, InMonitor, Idle
<1>5. \A t \in Threads : ThreadInv(t)
  BY DEF Init, ThreadInv, At, Idle
<1>6. LibraryInv
  BY DEF Init, LibraryInv
<1> QED
  BY <1>3, <1>4, <1>5, <1>6 DEF LoadInv

(* A step that touches nothing but the call of one thread, which neither   *)
(* holds the monitor nor takes it.                                         *)
LEMMA OutsideMonitor ==
  ASSUME LoadInv, NEW t \in Threads, NEW c \in Calls,
         call' = [call EXCEPT ![t] = c],
         call[t].step \notin InMonitor, c.step \notin InMonitor,
         UNCHANGED <<hostVars, initialized, library, loads, failures, monitor>>,
         class' \in {"uninitialized", "busy", "ready", "erroneous"},
         classOwner' \in Threads \cup {NoThread},
         class = "ready" => class' = "ready",
         class' = "ready" => class = "ready",
         classOwner' # NoThread => class' = "busy",
         c.step = "native" => class = "ready"
  PROVE  LoadInv'
<1> USE DEF LoadInv
<1>1. call' \in [Threads -> Calls] /\ call'[t] = c
  BY DEF TypeOK, Calls
<1>2. TypeOK'
  BY <1>1 DEF TypeOK, Calls, hostVars
<1>3. \A u \in Threads : u # t => call'[u] = call[u]
  BY DEF TypeOK, Calls
<1>4. MonitorInv'
  BY <1>1, <1>3 DEF MonitorInv
<1>5. \A u \in Threads : ThreadInv(u)'
  BY <1>1, <1>3 DEF ThreadInv, At, InMonitor
<1>6. LibraryInv'
  <2>1. loads > failures => initialized \/ \E u \in Threads : At(u, "ask")'
    BY <1>3 DEF LibraryInv, At, InMonitor
  <2> QED
    BY <2>1 DEF LibraryInv
<1> QED
  BY <1>2, <1>4, <1>5, <1>6

-----------------------------------------------------------------------------
LEMMA StepInv == LoadInv /\ [Next]_vars => LoadInv'
<1> SUFFICES ASSUME LoadInv, [Next]_vars PROVE LoadInv'
  OBVIOUS
<1> USE DEF LoadInv
<1>1. CASE UNCHANGED vars
  BY <1>1 DEF vars, hostVars, TypeOK, MonitorInv, ThreadInv, LibraryInv, At
<1>2. ASSUME NEW t \in Threads, CallInitialize(t) \/ CallNative(t) \/ Step(t)
      PROVE  LoadInv'
  <2> call[t] \in Calls /\ call \in [Threads -> Calls]
    BY DEF TypeOK, Calls
  <2> DEFINE To(s) == [call[t] EXCEPT !.step = s]
  <2>0. \A s \in {"class", "native", "monitor", "load", "ask", "leave", "throw"} :
          /\ To(s) \in Calls
          /\ To(s).step = s
          /\ Go(t, s) <=> call' = [call EXCEPT ![t] = To(s)]
    BY DEF Calls, Go
  <2>i. Idle \in Calls /\ Idle.step = "idle"
    BY DEF Calls, Idle
  <2>1. CASE CallInitialize(t)
    BY <2>1, OutsideMonitor
       DEF CallInitialize, At, InMonitor, Calls, TypeOK, LibraryInv
  <2>2. CASE CallNative(t)
    BY <2>2, OutsideMonitor
       DEF CallNative, At, InMonitor, Calls, TypeOK, LibraryInv
  <2>3. CASE BeginClass(t)
    BY <2>3, <2>0, OutsideMonitor DEF BeginClass, At, InMonitor, TypeOK
  <2>4. CASE RunNative(t)
    BY <2>4, <2>0, OutsideMonitor DEF RunNative, At, InMonitor, TypeOK, LibraryInv
  <2>5. CASE RefuseNative(t) \/ ReturnFromNative(t)
    BY <2>5, <2>i, OutsideMonitor
       DEF RefuseNative, ReturnFromNative, At, InMonitor, TypeOK, LibraryInv
  <2> HIDE DEF To
  <2>6. CASE EnterMonitor(t) \/ Loaded(t) \/ Fails(t, "load") \/ Fails(t, "ask")
             \/ AskAllocator(t)
    <3>1. PICK s \in {"load", "ask", "leave", "throw"} :
            call' = [call EXCEPT ![t] = To(s)]
      BY <2>6, <2>0 DEF EnterMonitor, Loaded, Fails, AskAllocator
    <3>2. call'[t].step = s /\ call' \in [Threads -> Calls]
      BY <3>1, <2>0
    <3>3. \A u \in Threads : u # t => call'[u] = call[u]
      BY <3>1
    <3>4. monitor' = t /\ \A u \in Threads : u # t => call[u].step \notin InMonitor
      BY <2>6, InitAssumption
         DEF EnterMonitor, Loaded, Fails, AskAllocator, MonitorInv, InMonitor, At
    <3>5. MonitorInv'
      BY <3>2, <3>3, <3>4 DEF MonitorInv, InMonitor
    <3>6. call[t].step \notin {"native"} /\ UNCHANGED <<class, classOwner>>
      BY <2>6 DEF EnterMonitor, Loaded, Fails, AskAllocator, At
    <3>n. loads \in Nat /\ failures \in Nat
      BY InitAssumption DEF TypeOK
    <3>7. CASE EnterMonitor(t)
      <4>1. s = IF initialized THEN "leave" ELSE "load"
        BY <3>1, <3>2, <3>7, <2>0 DEF EnterMonitor
      <4>2. ~initialized => loads <= failures
        BY <3>4, <3>7, <3>n DEF LibraryInv, InMonitor, At, EnterMonitor
      <4>3. \A u \in Threads : ThreadInv(u)'
        BY <3>2, <3>3, <3>7, <4>1, <4>2 DEF EnterMonitor, ThreadInv, At
      <4>4. LibraryInv'
        BY <3>7, <3>n, <4>2 DEF EnterMonitor, LibraryInv
      <4>5. TypeOK'
        BY <3>2, <3>7 DEF EnterMonitor, TypeOK, Calls, hostVars
      <4> QED
        BY <3>5, <4>3, <4>4, <4>5
    <3>8. CASE Loaded(t)
      <4>1. s = "ask" /\ ~initialized /\ loads <= failures
        BY <3>1, <3>2, <3>8, <2>0 DEF Loaded, ThreadInv, At
      <4>2. loads' = loads + 1 /\ loads' \in 0 .. MaxFailures + 1
        BY <4>1, <3>8, InitAssumption DEF Loaded, TypeOK
      <4>3. \A u \in Threads : ThreadInv(u)'
        BY <3>2, <3>3, <3>4, <3>8, <4>1 DEF Loaded, ThreadInv, At, InMonitor
      <4>4. LibraryInv'
        BY <3>2, <3>8, <3>n, <4>1, <4>2 DEF Loaded, LibraryInv, At
      <4>5. TypeOK'
        BY <3>2, <3>8, <4>2 DEF Loaded, TypeOK, Calls, hostVars
      <4> QED
        BY <3>5, <4>3, <4>4, <4>5
    <3>9. CASE Fails(t, "load") \/ Fails(t, "ask")
      <4>1. s = "throw" /\ call[t].step \in {"load", "ask"}
        BY <3>1, <3>2, <3>9, <2>0 DEF Fails, At
      <4>2. failures' \in 0 .. MaxFailures /\ failures' = failures + 1
        BY <3>9, InitAssumption DEF Fails, TypeOK
      <4>3. UNCHANGED <<hostVars, initialized, library, loads, monitor, class, classOwner>>
        BY <3>9 DEF Fails
      <4>4. \A u \in Threads : ThreadInv(u)'
        <5> SUFFICES ASSUME NEW u \in Threads PROVE ThreadInv(u)'
          OBVIOUS
        <5>1. CASE u = t
          BY <3>2, <4>1, <4>3, <5>1 DEF ThreadInv, At
        <5>2. CASE u # t
          BY <3>3, <3>4, <4>2, <4>3, <5>2 DEF ThreadInv, At, InMonitor
        <5> QED
          BY <5>1, <5>2
      <4>5. LibraryInv'
        BY <3>n, <4>2, <4>3 DEF LibraryInv
      <4>6. TypeOK'
        BY <3>2, <4>2, <4>3 DEF TypeOK, Calls, hostVars
      <4> QED
        BY <3>5, <4>4, <4>5, <4>6
    <3>10. CASE AskAllocator(t)
      <4>1. s = "leave" /\ library
        BY <3>1, <3>2, <3>10, <2>0 DEF AskAllocator, ThreadInv, At
      <4>2. \A u \in Threads : ThreadInv(u)'
        BY <3>2, <3>3, <3>4, <3>10, <4>1 DEF AskAllocator, ThreadInv, At, InMonitor
      <4>3. LibraryInv'
        BY <3>10, <4>1 DEF AskAllocator, LibraryInv
      <4>4. TypeOK'
        BY <3>2, <3>10 DEF AskAllocator, AllocatorNames, TypeOK, Calls
      <4> QED
        BY <3>5, <4>2, <4>3, <4>4
    <3> QED
      BY <2>6, <3>7, <3>8, <3>9, <3>10
  <2>7. CASE Leave(t) \/ Throw(t)
    <3>1. /\ monitor' = NoThread
          /\ monitor = t
          /\ UNCHANGED <<hostVars, initialized, library, loads, failures>>
          /\ call[t].step \in {"leave", "throw"}
      BY <2>7 DEF Leave, Throw, MonitorInv, InMonitor, At
    <3>2. PICK c \in Calls : call' = [call EXCEPT ![t] = c] /\ c.step \in {"idle", "native"}
                             /\ (c.step = "native" => class' = "ready")
      BY <2>7, <2>0, <2>i DEF Leave, Throw
    <3>3. call' \in [Threads -> Calls] /\ call'[t] = c
          /\ \A u \in Threads : u # t => call'[u] = call[u]
      BY <3>2
    <3>4. \A u \in Threads : u # t => call[u].step \notin InMonitor
      BY <3>1 DEF MonitorInv
    <3>5. MonitorInv'
      BY <3>1, <3>2, <3>3, <3>4, InitAssumption DEF MonitorInv, InMonitor
    <3>6. /\ class' \in {"uninitialized", "busy", "ready", "erroneous"}
          /\ classOwner' \in Threads \cup {NoThread}
          /\ class = "ready" => class' = "ready"
          /\ classOwner' # NoThread => class' = "busy"
          /\ class' = "ready" => initialized
      BY <2>7, InitAssumption DEF Leave, Throw, TypeOK, LibraryInv, ThreadInv, At
    <3>7. \A u \in Threads : ThreadInv(u)'
      BY <3>1, <3>2, <3>3, <3>6 DEF ThreadInv, At
    <3>8. LibraryInv'
      <4>1. loads > failures => initialized
        BY <3>1, <3>4 DEF LibraryInv, At, InMonitor
      <4> QED
        BY <3>1, <3>6, <4>1 DEF LibraryInv
    <3>9. TypeOK'
      BY <3>1, <3>3, <3>6 DEF TypeOK, Calls, hostVars
    <3> QED
      BY <3>5, <3>7, <3>8, <3>9
  <2> QED
    BY <1>2, <2>1, <2>2, <2>3, <2>4, <2>5, <2>6, <2>7
       DEF Step, LoadLibrary, LoadLibraryFails, InitializeNative, InitializeNativeFails,
           AskAllocatorFails
<1> QED
  BY <1>1, <1>2 DEF Next

LEMMA Invariance == Spec => []LoadInv
BY InitInv, StepInv, PTL DEF Spec

-----------------------------------------------------------------------------
(* Every state of the loading is of the declared types.                    *)
THEOREM TypeCorrect == Spec => []TypeOK
<1>1. LoadInv => TypeOK
  BY DEF LoadInv
<1> QED
  BY <1>1, Invariance, PTL

(* Whoever calls a native method first, and however often loading fails,   *)
(* no native method runs without the library, and the library is not       *)
(* loaded again unless initialize() has failed.                            *)
THEOREM NativeFindsLibrary == Spec => []LoadedOnceBeforeUse
<1>1. LoadInv => LoadedOnceBeforeUse
  BY DEF LoadInv, ThreadInv, LibraryInv, LoadedOnceBeforeUse
<1> QED
  BY <1>1, Invariance, PTL

(* The static initialiser is run by a thread that is inside initialize, or *)
(* about to enter it.                                                      *)
OwnerInv ==
  /\ class = "busy" => classOwner \in Threads
  /\ \A t \in Threads : classOwner = t => call[t].step \in InMonitor \cup {"monitor"}

LEMMA OwnerStep == LoadInv /\ OwnerInv /\ [Next]_vars => OwnerInv'
<1> SUFFICES ASSUME LoadInv, OwnerInv, [Next]_vars PROVE OwnerInv'
  OBVIOUS
<1> USE InitAssumption DEF OwnerInv, InMonitor
<1>1. call \in [Threads -> Calls] /\ classOwner \in Threads \cup {NoThread}
  BY DEF LoadInv, TypeOK, Calls
<1>2. CASE UNCHANGED vars
  BY <1>2 DEF vars
<1>3. ASSUME NEW t \in Threads, NEW s \in {"monitor", "load", "ask", "leave", "throw"},
             call'[t].step = s, \A u \in Threads : u # t => call'[u] = call[u],
             \/ UNCHANGED <<class, classOwner>>
             \/ classOwner' = t
      PROVE  OwnerInv'
  BY <1>1, <1>3
<1>4. ASSUME NEW t \in Threads, \A u \in Threads : u # t => call'[u] = call[u],
             \/ classOwner # t /\ UNCHANGED <<class, classOwner>>
             \/ classOwner = t /\ classOwner' = NoThread /\ class' # "busy"
      PROVE  OwnerInv'
  BY <1>1, <1>4
<1>5. ASSUME NEW t \in Threads, CallInitialize(t) \/ CallNative(t) \/ Step(t)
      PROVE  OwnerInv'
  <2> USE <1>1 DEF At, Go
  <2>1. CASE CallInitialize(t)
    BY <1>3, <2>1 DEF CallInitialize
  <2>2. CASE CallNative(t)
    BY <1>4, <2>2 DEF CallNative
  <2>3. CASE BeginClass(t)
    BY <1>3, <2>3 DEF BeginClass
  <2>4. CASE RunNative(t) \/ RefuseNative(t) \/ ReturnFromNative(t)
    BY <1>4, <2>4 DEF RunNative, RefuseNative, ReturnFromNative
  <2>5. CASE EnterMonitor(t)
    BY <1>3, <2>5 DEF EnterMonitor
  <2>6. CASE Loaded(t) \/ Fails(t, "load") \/ Fails(t, "ask") \/ AskAllocator(t)
    <3>1. PICK s \in {"load", "ask", "leave", "throw"} :
            call' = [call EXCEPT ![t].step = s]
      BY <2>6 DEF Loaded, Fails, AskAllocator
    <3>2. UNCHANGED <<class, classOwner>>
      BY <2>6 DEF Loaded, Fails, AskAllocator
    <3>3. call'[t].step = s /\ \A u \in Threads : u # t => call'[u] = call[u]
      BY <3>1 DEF Calls
    <3> QED
      BY <1>3, <3>2, <3>3
  <2>7. CASE Leave(t)
    BY <1>4, <2>7 DEF Leave
  <2>8. CASE Throw(t)
    BY <1>4, <2>8 DEF Throw
  <2> QED
    BY <1>5, <2>1, <2>2, <2>3, <2>4, <2>5, <2>6, <2>7, <2>8
       DEF Step, LoadLibrary, LoadLibraryFails, InitializeNative, InitializeNativeFails,
           AskAllocatorFails
<1> QED
  BY <1>2, <1>5 DEF Next

(* No two threads that load the library, with initialize() or by their     *)
(* first native call, wait for each other's locks.                         *)
THEOREM NobodyWaitsInCircle == Spec => []WaitingIsOrdered
<1>1. Init => OwnerInv
  BY InitAssumption DEF Init, OwnerInv
<1>2. LoadInv /\ OwnerInv => WaitingIsOrdered
  <2> SUFFICES ASSUME LoadInv, OwnerInv PROVE WaitingIsOrdered
    OBVIOUS
  <2>1. ASSUME NEW t \in Threads, NEW u \in Threads, WaitsFor(t, u)
        PROVE  /\ call[u].step \in {"monitor", "load", "ask", "leave", "throw"}
               /\ At(t, "monitor") => call[u].step \in {"load", "ask", "leave", "throw"}
    BY <2>1 DEF WaitsFor, LoadInv, OwnerInv, MonitorInv, InMonitor, At
  <2>2. ASSUME NEW t \in Threads, At(t, "class"), class = "busy"
        PROVE  \E u \in Threads \ {t} : WaitsFor(t, u)
    <3>1. classOwner \in Threads \ {t}
      BY <2>2 DEF OwnerInv, InMonitor, At
    <3> QED
      BY <2>2, <3>1 DEF WaitsFor
  <2>3. ASSUME NEW t \in Threads, NEW u \in Threads, NEW v \in Threads,
               WaitsFor(t, u), WaitsFor(u, v)
        PROVE  call[v].step \in {"load", "ask", "leave", "throw"}
    <3>1. call[u].step \in {"monitor", "load", "ask", "leave", "throw"}
      BY <2>1, <2>3
    <3>2. At(u, "monitor")
      BY <2>3, <3>1 DEF WaitsFor, At
    <3> QED
      BY <2>1, <2>3, <3>2
  <2> QED
    BY <2>1, <2>2, <2>3 DEF WaitingIsOrdered
<1> QED
  BY <1>1, <1>2, OwnerStep, Invariance, PTL DEF Spec

(* The monitor keeps loading to one thread at a time.                      *)
THEOREM OneLoads == Spec => []OneLoader
<1>1. LoadInv => OneLoader
  BY DEF LoadInv, MonitorInv, InMonitor, OneLoader
<1> QED
  BY <1>1, Invariance, PTL
=============================================================================
