----------------------------- MODULE LibraryInit -----------------------------
(***************************************************************************)
(* Loading the native library, by whoever needs it first.                  *)
(*                                                                         *)
(* LibDataChannel.initialize() loads the library under the monitor of its  *)
(* class and sets `initialized`.  The application may call it, and so does *)
(* the static initialiser of LibDataChannelNative, which the VM runs when  *)
(* the first native method is called.  The VM runs a static initialiser    *)
(* once: other threads wait for it, and if it throws the class is unusable *)
(* for good.  On iOS the library is linked statically, and a native method *)
(* of LibDataChannel takes the place of loading.                           *)
(***************************************************************************)
EXTENDS Naturals, FiniteSets

CONSTANTS Threads, \* threads that use the binding
          NoThread,
          MaxFailures \* bound: how often loading, or asking for the allocator, fails

ASSUME InitAssumption == NoThread \notin Threads /\ MaxFailures \in Nat

VARIABLES
  ios,         \* Platform.isIOS()
  initialized, \* LibDataChannel.initialized
  innerAllocator, \* the name of the allocator
  library,     \* whether the native library is loaded
  loads,       \* how often JNI_OnLoad has run
  failures,    \* how often a step of initialize() has failed
  monitor,     \* the thread that holds the monitor of LibDataChannel
  class,       \* the state of LibDataChannelNative in the VM
  classOwner,  \* the thread that runs its static initialiser
  call         \* per thread: the call it is in, and where it stands

hostVars == <<ios, innerAllocator>>
vars == <<hostVars, initialized, library, loads, failures, monitor, class, classOwner, call>>

Idle == [kind |-> "none", step |-> "idle"]

Init ==
  /\ ios \in BOOLEAN
  /\ innerAllocator = "unknown"
  /\ initialized = FALSE
  /\ library = FALSE
  /\ loads = 0
  /\ failures = 0
  /\ monitor = NoThread
  /\ class = "uninitialized"
  /\ classOwner = NoThread
  /\ call = [t \in Threads |-> Idle]

At(t, step) == call[t].step = step
Go(t, step) == call' = [call EXCEPT ![t].step = step]

-----------------------------------------------------------------------------
(* Faulty variants, each the change a plausible bug would make; no action  *)
(* below uses them.                                                        *)

EnterUnsynchronized(t) ==  \* initialize is not synchronized
  /\ At(t, "monitor")
  /\ Go(t, IF initialized THEN "leave" ELSE "load")
  /\ UNCHANGED <<hostVars, initialized, library, loads, failures, monitor, class, classOwner>>

AskThroughNative(t) ==  \* the allocator's name is asked of LibDataChannelNative
  /\ At(t, "ask")
  /\ class = "ready" \/ classOwner = t
  /\ initialized' = TRUE
  /\ Go(t, "leave")
  /\ UNCHANGED <<hostVars, library, loads, failures, monitor, class, classOwner>>

-----------------------------------------------------------------------------
(* The application calls initialize(), or a native method. *)

CallInitialize(t) ==
  /\ At(t, "idle")
  /\ call' = [call EXCEPT ![t] = [kind |-> "initialize", step |-> "monitor"]]
  /\ UNCHANGED <<hostVars, initialized, library, loads, failures, monitor, class, classOwner>>

CallNative(t) ==
  /\ At(t, "idle")
  /\ call' = [call EXCEPT ![t] = [kind |-> "native", step |-> "class"]]
  /\ UNCHANGED <<hostVars, initialized, library, loads, failures, monitor, class, classOwner>>

(* The first caller of a native method runs the static initialiser. *)
BeginClass(t) ==
  /\ At(t, "class")
  /\ class = "uninitialized"
  /\ class' = "busy"
  /\ classOwner' = t
  /\ Go(t, "monitor")
  /\ UNCHANGED <<hostVars, initialized, library, loads, failures, monitor>>

(* With the class ready the method runs; with the class erroneous the VM   *)
(* throws a NoClassDefFoundError.                                          *)
RunNative(t) ==
  /\ At(t, "class")
  /\ class = "ready"
  /\ Go(t, "native")
  /\ UNCHANGED <<hostVars, initialized, library, loads, failures, monitor, class, classOwner>>

RefuseNative(t) ==
  /\ At(t, "class")
  /\ class = "erroneous"
  /\ call' = [call EXCEPT ![t] = Idle]
  /\ UNCHANGED <<hostVars, initialized, library, loads, failures, monitor, class, classOwner>>

ReturnFromNative(t) ==
  /\ At(t, "native")
  /\ call' = [call EXCEPT ![t] = Idle]
  /\ UNCHANGED <<hostVars, initialized, library, loads, failures, monitor, class, classOwner>>

-----------------------------------------------------------------------------
(* initialize *)

EnterMonitor(t) ==
  /\ At(t, "monitor")
  /\ monitor = NoThread
  /\ monitor' = t
  /\ Go(t, IF initialized THEN "leave" ELSE "load")
  /\ UNCHANGED <<hostVars, initialized, library, loads, failures, class, classOwner>>

Loaded(t) ==
  /\ At(t, "load")
  /\ library' = TRUE
  /\ loads' = loads + 1
  /\ Go(t, "ask")
  /\ UNCHANGED <<hostVars, initialized, failures, monitor, class, classOwner>>

Fails(t, step) ==
  /\ At(t, step)
  /\ failures < MaxFailures
  /\ failures' = failures + 1
  /\ Go(t, "throw")
  /\ UNCHANGED <<hostVars, initialized, library, loads, monitor, class, classOwner>>

(* Platform.loadNativeLibrary, which extracts the library and loads it: a  *)
(* second load would be of another file, and of a library of its own.      *)
LoadLibrary(t) == ~ios /\ Loaded(t)

LoadLibraryFails(t) == ~ios /\ Fails(t, "load")

(* initializeNative, which throws if it cannot find the VM *)
InitializeNative(t) == ios /\ Loaded(t)

InitializeNativeFails(t) == ios /\ Fails(t, "load")

(* getInnerAllocatorNative: builds for iOS and Android use the allocator   *)
(* of the process; the version is left out if it does not fit.             *)
AllocatorNames ==
  {"passthrough"} \cup IF ios THEN {} ELSE {"mimalloc-secure", "mimalloc-secure+version"}

(* initialized = true only follows when innerAllocator is set. *)
AskAllocator(t) ==
  /\ At(t, "ask")
  /\ innerAllocator' \in AllocatorNames
  /\ initialized' = TRUE
  /\ Go(t, "leave")
  /\ UNCHANGED <<ios, library, loads, failures, monitor, class, classOwner>>

(* There is no memory for the name: initialize() throws with the library   *)
(* loaded, and the next one loads it again.                                *)
AskAllocatorFails(t) == Fails(t, "ask")

(* initialize returns, and the static initialiser with it. *)
Leave(t) ==
  /\ At(t, "leave")
  /\ monitor' = NoThread
  /\ IF classOwner = t
       THEN /\ class' = "ready"
            /\ classOwner' = NoThread
            /\ Go(t, "native")
       ELSE /\ call' = [call EXCEPT ![t] = Idle]
            /\ UNCHANGED <<class, classOwner>>
  /\ UNCHANGED <<hostVars, initialized, library, loads, failures>>

(* initialize throws; so does the static initialiser it was called from.   *)
Throw(t) ==
  /\ At(t, "throw")
  /\ monitor' = NoThread
  /\ classOwner' = IF classOwner = t THEN NoThread ELSE classOwner
  /\ class' = IF classOwner = t THEN "erroneous" ELSE class
  /\ call' = [call EXCEPT ![t] = Idle]
  /\ UNCHANGED <<hostVars, initialized, library, loads, failures>>

-----------------------------------------------------------------------------
Step(t) ==
  \/ BeginClass(t) \/ RunNative(t) \/ RefuseNative(t) \/ ReturnFromNative(t)
  \/ EnterMonitor(t) \/ LoadLibrary(t) \/ LoadLibraryFails(t)
  \/ InitializeNative(t) \/ InitializeNativeFails(t)
  \/ AskAllocator(t) \/ AskAllocatorFails(t) \/ Leave(t) \/ Throw(t)

Next == \E t \in Threads : CallInitialize(t) \/ CallNative(t) \/ Step(t)

Spec == Init /\ [][Next]_vars

(* Threads go on, and each gets a monitor that is free again and again. *)
FairSpec ==
  Spec /\ \A t \in Threads : WF_vars(Step(t)) /\ SF_vars(EnterMonitor(t))

-----------------------------------------------------------------------------
(* Properties *)

TypeOK ==
  /\ ios \in BOOLEAN
  /\ innerAllocator \in {"unknown", "passthrough", "mimalloc-secure", "mimalloc-secure+version"}
  /\ initialized \in BOOLEAN
  /\ library \in BOOLEAN
  /\ loads \in 0 .. MaxFailures + 1
  /\ failures \in 0 .. MaxFailures
  /\ monitor \in Threads \cup {NoThread}
  /\ class \in {"uninitialized", "busy", "ready", "erroneous"}
  /\ classOwner \in Threads \cup {NoThread}
  /\ call \in [Threads ->
       [kind : {"none", "initialize", "native"},
        step : {"idle", "class", "native", "monitor", "load", "ask", "leave", "throw"}]]

(* A native method runs only when the library has been loaded, and only   *)
(* once: initialize() loads it again only if it has failed since.          *)
LoadedOnceBeforeUse ==
  /\ \A t \in Threads : At(t, "native") => library /\ initialized
  /\ loads <= failures + 1

(* No two threads load the library at the same time, or look at            *)
(* `initialized` while one does.                                           *)
OneLoader ==
  \A s, t \in Threads :
    /\ call[s].step \in {"load", "ask", "throw"}
    /\ call[t].step \in {"load", "ask", "throw", "leave"}
    => s = t

(* t is held up by u: by the monitor, or by the lock the VM has on a class *)
(* whose static initialiser u runs.                                        *)
WaitsFor(t, u) ==
  \/ At(t, "monitor") /\ monitor = u
  \/ At(t, "class") /\ class = "busy" /\ classOwner = u

(* Nobody waits in a circle.  Whoever is waited for is inside initialize;  *)
(* if it waits itself, it does so for the monitor, whose holder waits for  *)
(* nobody.  And only a lock that somebody holds keeps a caller waiting.    *)
WaitingIsOrdered ==
  /\ \A t \in Threads :
       At(t, "class") /\ class = "busy" => \E u \in Threads \ {t} : WaitsFor(t, u)
  /\ \A t, u, v \in Threads :
       WaitsFor(t, u) /\ WaitsFor(u, v) =>
         call[v].step \in {"load", "ask", "leave", "throw"}
  /\ \A t, u \in Threads :
       WaitsFor(t, u) => call[u].step \in {"monitor", "load", "ask", "leave", "throw"}

(* The two locks, the monitor and the one of the static initialiser, are   *)
(* taken in one order: every call comes back.                              *)
CallsReturn == \A t \in Threads : ~At(t, "idle") ~> At(t, "idle")
=============================================================================
