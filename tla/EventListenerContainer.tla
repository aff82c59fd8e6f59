----------------------- MODULE EventListenerContainer -----------------------
(***************************************************************************)
(* One EventListenerContainer<T>: the listeners of one event, the lock     *)
(* that guards them, and the lifecycle callback that installs or removes   *)
(* the event's native callback.                                            *)
(*                                                                         *)
(* Every body guarded by changeLock is one atomic action.  The lifecycle   *)
(* callback runs AFTER the lock is released, so a thread carries the call  *)
(* it still owes in lifecycle[t] and makes it in a step of its own: that   *)
(* is where two threads can overtake each other.                           *)
(*                                                                         *)
(* A dispatch (invoke) reads the volatile `closed`, takes the iterator of  *)
(* the copy-on-write list and calls the listeners of that snapshot one by  *)
(* one, each read and each call being a step.  A listener's own code may   *)
(* call the container back.                                                *)
(***************************************************************************)
EXTENDS Naturals, Sequences, SequencesExt

CONSTANTS AppThreads,     \* threads of the application
          NativeThreads,  \* threads of the native library, which dispatch
          Listeners,      \* the listener objects
          MaxListeners    \* bound: registrations held at the same time

Threads == AppThreads \cup NativeThreads

ASSUME ThreadsAssumption == AppThreads \cap NativeThreads = {}

VARIABLES listeners,  \* the registered listeners, in order, duplicates kept
          closed,     \* the volatile flag
          installed,  \* the native callback slot of this event is set
          lifecycle,  \* per thread: the lifecycle call it still has to make
          phase,      \* per native thread: where its dispatch stands
          todo,       \* per native thread: listeners its snapshot still holds
          serialised  \* the client: whether it lets one change of the
                      \* listeners return before it makes the next

vars == <<listeners, closed, installed, lifecycle, phase, todo, serialised>>

Phases == {"idle", "entered", "checked", "running", "calling"}
Owed   == {"none", "set", "unset"}

Wanted == listeners # <<>>

Init ==
  /\ listeners = <<>>
  /\ closed = FALSE
  /\ installed = FALSE
  /\ lifecycle = [t \in Threads |-> "none"]
  /\ phase = [t \in NativeThreads |-> "idle"]
  /\ todo = [t \in NativeThreads |-> <<>>]
  /\ serialised \in BOOLEAN

-----------------------------------------------------------------------------
(* Changing the listeners.  A native thread runs client code only while it *)
(* is inside a listener.  A client that serialises its changes has a lock  *)
(* of its own, or makes them in one thread.                                *)

CanMutate(t) ==
  /\ lifecycle[t] = "none"
  /\ serialised => \A s \in Threads : lifecycle[s] = "none"
  /\ t \in NativeThreads => phase[t] = "calling"

Owe(t, call) == lifecycle' = [lifecycle EXCEPT ![t] = call]

(* Faulty variants, each the change a plausible bug would make; no action  *)
(* below uses them.                                                        *)
DeregisterOwing(t, l, owed) ==
  /\ CanMutate(t)
  /\ \E i \in DOMAIN listeners : listeners[i] = l /\ listeners' = RemoveAt(listeners, i)
  /\ Owe(t, owed)
  /\ UNCHANGED <<closed, installed, phase, todo, serialised>>

DeregisterSilently(t, l) == DeregisterOwing(t, l, "none")

DeregisterAlwaysOwes(t, l) == DeregisterOwing(t, l, "unset")

CloseKeepingListeners(t) ==
  /\ CanMutate(t) /\ ~closed
  /\ closed' = TRUE
  /\ UNCHANGED <<listeners, installed, lifecycle, phase, todo, serialised>>

CallListenerLive(d) ==  \* iterates the live list
  /\ phase[d] = "running"
  /\ todo[d] # <<>>
  /\ phase' = [phase EXCEPT ![d] = "calling"]
  /\ todo' = [todo EXCEPT ![d] = listeners]
  /\ UNCHANGED <<listeners, closed, installed, lifecycle, serialised>>

(* The first registration owes accept(true). *)
Register(t, l) ==
  /\ CanMutate(t)
  /\ ~closed
  /\ Len(listeners) < MaxListeners
  /\ listeners' = Append(listeners, l)
  /\ Owe(t, IF Wanted THEN "none" ELSE "set")
  /\ UNCHANGED <<closed, installed, phase, todo, serialised>>

(* On a closed container register throws and changes nothing. *)
RegisterRejected(t) ==
  /\ CanMutate(t)
  /\ closed
  /\ UNCHANGED vars

(* Removes the first occurrence; owes accept(false) if it was the last     *)
(* registration.  Works on a closed container too (which holds none).      *)
Deregister(t, l) ==
  /\ CanMutate(t)
  /\ \E i \in DOMAIN listeners :
       /\ listeners[i] = l
       /\ \A j \in 1 .. i - 1 : listeners[j] # l
       /\ listeners' = RemoveAt(listeners, i)
  /\ Owe(t, IF listeners' = <<>> THEN "unset" ELSE "none")
  /\ UNCHANGED <<closed, installed, phase, todo, serialised>>

(* internalDeregisterAll: what both deregisterAll and close do inside the  *)
(* lock.                                                                   *)
ClearListeners(t) ==
  /\ ~closed
  /\ listeners' = <<>>
  /\ Owe(t, IF Wanted THEN "unset" ELSE "none")

DeregisterAll(t) ==
  /\ CanMutate(t)
  /\ ClearListeners(t)
  /\ UNCHANGED <<closed, installed, phase, todo, serialised>>

Close(t) ==
  /\ CanMutate(t)
  /\ ClearListeners(t)
  /\ closed' = TRUE
  /\ UNCHANGED <<installed, phase, todo, serialised>>

(* lifecycleCallback.accept(...), made after the lock was released. *)
RunLifecycle(t) ==
  /\ lifecycle[t] # "none"
  /\ installed' = (lifecycle[t] = "set")
  /\ Owe(t, "none")
  /\ UNCHANGED <<listeners, closed, phase, todo, serialised>>

-----------------------------------------------------------------------------
(* Dispatching an event. *)

(* The native library raises the event, which it does only while a         *)
(* callback is installed.                                                  *)
Enter(d) ==
  /\ phase[d] = "idle"
  /\ installed
  /\ phase' = [phase EXCEPT ![d] = "entered"]
  /\ UNCHANGED <<listeners, closed, installed, lifecycle, todo, serialised>>

(* invoke returns at once on a closed container. *)
CheckClosed(d) ==
  /\ phase[d] = "entered"
  /\ phase' = [phase EXCEPT ![d] = IF closed THEN "idle" ELSE "checked"]
  /\ UNCHANGED <<listeners, closed, installed, lifecycle, todo, serialised>>

(* The for loop obtains its iterator: the array current at this instant. *)
Snapshot(d) ==
  /\ phase[d] = "checked"
  /\ phase' = [phase EXCEPT ![d] = "running"]
  /\ todo' = [todo EXCEPT ![d] = listeners]
  /\ UNCHANGED <<listeners, closed, installed, lifecycle, serialised>>

CallListener(d) ==
  /\ phase[d] = "running"
  /\ todo[d] # <<>>
  /\ phase' = [phase EXCEPT ![d] = "calling"]
  /\ todo' = [todo EXCEPT ![d] = Tail(@)]
  /\ UNCHANGED <<listeners, closed, installed, lifecycle, serialised>>

(* The listener returns, or throws: invoke catches any Throwable. *)
ListenerEnds(d) ==
  /\ phase[d] = "calling"
  /\ lifecycle[d] = "none"
  /\ phase' = [phase EXCEPT ![d] = "running"]
  /\ UNCHANGED <<listeners, closed, installed, lifecycle, todo, serialised>>

EndInvoke(d) ==
  /\ phase[d] = "running"
  /\ todo[d] = <<>>
  /\ phase' = [phase EXCEPT ![d] = "idle"]
  /\ UNCHANGED <<listeners, closed, installed, lifecycle, todo, serialised>>

-----------------------------------------------------------------------------
Mutate(t) ==
  \/ \E l \in Listeners : Register(t, l) \/ Deregister(t, l)
  \/ RegisterRejected(t)
  \/ DeregisterAll(t)
  \/ Close(t)

Proceed(d) ==
  \/ CheckClosed(d)
  \/ Snapshot(d)
  \/ CallListener(d)
  \/ ListenerEnds(d)
  \/ EndInvoke(d)

Next ==
  \/ \E t \in Threads : Mutate(t) \/ RunLifecycle(t)
  \/ \E d \in NativeThreads : Enter(d) \/ Proceed(d)

(* A thread that left the lock makes the call it owes, and a dispatch that *)
(* has begun goes on; nobody has to raise an event or change a listener.   *)
(* Strong fairness of ListenerEnds says that a listener's code returns     *)
(* after finitely many calls of the container.                             *)
Fairness ==
  /\ \A t \in Threads : WF_vars(RunLifecycle(t))
  /\ \A d \in NativeThreads : WF_vars(Proceed(d)) /\ SF_vars(ListenerEnds(d))

Spec == Init /\ [][Next]_vars
FairSpec == Spec /\ Fairness

-----------------------------------------------------------------------------
(* Properties *)

TypeOK ==
  /\ listeners \in Seq(Listeners)
  /\ closed \in BOOLEAN
  /\ installed \in BOOLEAN
  /\ lifecycle \in [Threads -> Owed]
  /\ phase \in [NativeThreads -> Phases]
  /\ todo \in [NativeThreads -> Seq(Listeners)]
  /\ serialised \in BOOLEAN

(* A closed container holds no listener: close() clears the list inside    *)
(* the critical section that sets `closed`, and register checks the flag   *)
(* inside the one that appends.                                            *)
ClosedIsEmpty == closed => listeners = <<>>

(* close() stops new work although invoke reads `closed` and the list in   *)
(* two separate steps: a dispatch that read closed = false before close()  *)
(* finds the list cleared.  Once closed, no dispatch gains a listener.     *)
ClosedGainsNoListener ==
  [][closed => \A d \in NativeThreads : Len(todo'[d]) <= Len(todo[d])]_vars

(* When no thread owes a lifecycle call, the native callback is installed  *)
(* exactly when a listener is registered ("Called when ..." of the         *)
(* callback interfaces).  register and deregister owe one call each, made  *)
(* outside the lock, so this is about the order those calls arrive in.     *)
QuiescentSlot ==
  (\A t \in Threads : lifecycle[t] = "none") => (installed <=> Wanted)

(* "Called when the channel receives a message": while a listener is       *)
(* registered and no lifecycle call is owed, the native callback is        *)
(* installed, so that the listener hears of the event.                     *)
ListenerIsHeard ==
  (\A t \in Threads : lifecycle[t] = "none") /\ Wanted => installed

(* A client that lets each change return before it makes the next, from    *)
(* whatever threads, listeners included, has the right slot whenever no    *)
(* lifecycle call is owed.                                                 *)
SerialisedSlot == serialised => QuiescentSlot

(* A dispatch that has its iterator calls the listeners that were          *)
(* registered then, one after the other: whatever changes the container    *)
(* meanwhile, what is left for it to call only gets shorter, by one for    *)
(* each call.                                                              *)
SnapshotKept ==
  [][\A d \in NativeThreads :
       phase[d] \in {"running", "calling"} =>
         IF phase[d] = "running" /\ phase'[d] = "calling"
           THEN todo[d] # <<>> /\ todo'[d] = Tail(todo[d])
           ELSE todo'[d] = todo[d] /\ (phase'[d] = "idle" => todo[d] = <<>>)]_vars

(* Every dispatch comes to its end whatever the listeners do to the        *)
(* container meanwhile: it iterates a snapshot, so a listener that         *)
(* registers more listeners cannot keep it going.                          *)
DispatchEnds ==
  \A d \in NativeThreads : phase[d] = "entered" ~> phase[d] = "idle"

(* The client that serialises its changes sees the abstract callback slot. *)
Slot == INSTANCE CallbackSlot
  WITH wanted <- serialised /\ Wanted, installed <- serialised /\ installed,
       retired <- serialised /\ closed
SlotSpec == Slot!Spec
=============================================================================
