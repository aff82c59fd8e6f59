-------------------- MODULE EventListenerContainerProofs --------------------
(***************************************************************************)
(* What holds of EventListenerContainer for any number of threads and      *)
(* listeners.  The first three theorems are about every client; the others *)
(* are about one that serialises its changes of the listeners.             *)
(***************************************************************************)
EXTENDS EventListenerContainer, TLAPS

(* deregister keeps a list of listeners a list of listeners. *)
LEMMA RemoveAtType ==
  ASSUME NEW S, NEW s \in Seq(S), NEW i \in DOMAIN s
  PROVE  RemoveAt(s, i) \in Seq(S)
<1>1. i \in 1 .. Len(s)
  OBVIOUS
<1>2. SubSeq(s, 1, i - 1) \in Seq(S) /\ SubSeq(s, i + 1, Len(s)) \in Seq(S)
  BY <1>1
<1> QED
  BY <1>2 DEF RemoveAt

-----------------------------------------------------------------------------
(* Every state of the container is of the declared types.                  *)
THEOREM TypeCorrect == Spec => []TypeOK
<1>1. Init => TypeOK
  <2> SUFFICES ASSUME Init PROVE TypeOK
    OBVIOUS
  <2>1. <<>> \in Seq(Listeners)
    OBVIOUS
  <2>2. todo \in [NativeThreads -> Seq(Listeners)]
    BY <2>1 DEF Init
  <2>3. lifecycle \in [Threads -> Owed] /\ phase \in [NativeThreads -> Phases]
    BY DEF Init, Owed, Phases
  <2> QED
    BY <2>1, <2>2, <2>3 DEF Init, TypeOK
<1>2. TypeOK /\ [Next]_vars => TypeOK'
  <2> SUFFICES ASSUME TypeOK, [Next]_vars PROVE TypeOK'
    OBVIOUS
  <2> USE DEF TypeOK, Owed, Phases, Owe
  <2>1. CASE UNCHANGED vars
    BY <2>1 DEF vars
  <2>2. ASSUME NEW t \in Threads, NEW l \in Listeners, Register(t, l)
        PROVE  TypeOK'
    BY <2>2 DEF Register
  <2>3. ASSUME NEW t \in Threads, RegisterRejected(t)
        PROVE  TypeOK'
    BY <2>3 DEF RegisterRejected, vars
  <2>4. ASSUME NEW t \in Threads, NEW l \in Listeners, Deregister(t, l)
        PROVE  TypeOK'
    <3>1. listeners' \in Seq(Listeners)
      BY <2>4, RemoveAtType DEF Deregister
    <3> QED
      BY <2>4, <3>1 DEF Deregister
  <2>5. ASSUME NEW t \in Threads, DeregisterAll(t)
        PROVE  TypeOK'
    BY <2>5 DEF DeregisterAll, ClearListeners
  <2>6. ASSUME NEW t \in Threads, Close(t)
        PROVE  TypeOK'
    BY <2>6 DEF Close, ClearListeners
  <2>7. ASSUME NEW t \in Threads, RunLifecycle(t)
        PROVE  TypeOK'
    BY <2>7 DEF RunLifecycle
  <2>8. ASSUME NEW d \in NativeThreads, Enter(d) \/ Proceed(d)
        PROVE  TypeOK'
    <3>1. CASE Enter(d)
      BY <3>1 DEF Enter
    <3>2. CASE CheckClosed(d)
      BY <3>2 DEF CheckClosed
    <3>3. CASE Snapshot(d)
      BY <3>3 DEF Snapshot
    <3>4. CASE CallListener(d)
      BY <3>4 DEF CallListener
    <3>5. CASE ListenerEnds(d)
      BY <3>5 DEF ListenerEnds
    <3>6. CASE EndInvoke(d)
      BY <3>6 DEF EndInvoke
    <3> QED
      BY <2>8, <3>1, <3>2, <3>3, <3>4, <3>5, <3>6 DEF Proceed
  <2> QED
    BY <2>1, <2>2, <2>3, <2>4, <2>5, <2>6, <2>7, <2>8 DEF Next, Mutate
<1> QED
  BY <1>1, <1>2, PTL DEF Spec

-----------------------------------------------------------------------------
(* A closed container holds no listener, whoever races with close().       *)
THEOREM ClosedStaysEmpty == Spec => []ClosedIsEmpty
<1>1. Init => ClosedIsEmpty
  BY DEF Init, ClosedIsEmpty
<1>2. TypeOK /\ ClosedIsEmpty /\ [Next]_vars => ClosedIsEmpty'
  <2> SUFFICES ASSUME TypeOK, ClosedIsEmpty, [Next]_vars PROVE ClosedIsEmpty'
    OBVIOUS
  <2> USE DEF ClosedIsEmpty
  <2>1. ASSUME NEW t \in Threads, Mutate(t)
        PROVE  ClosedIsEmpty'
    <3>1. CASE \E l \in Listeners : Deregister(t, l)
      <4>1. listeners # <<>>
        BY <3>1 DEF Deregister, TypeOK
      <4> QED
        BY <3>1, <4>1 DEF Deregister
    <3>2. CASE DeregisterAll(t) \/ Close(t)
      BY <3>2 DEF DeregisterAll, Close, ClearListeners
    <3>3. CASE RegisterRejected(t) \/ \E l \in Listeners : Register(t, l)
      BY <3>3 DEF RegisterRejected, Register, vars
    <3> QED
      BY <2>1, <3>1, <3>2, <3>3 DEF Mutate
  <2>2. CASE UNCHANGED <<listeners, closed>>
    BY <2>2
  <2> QED
    BY <2>1, <2>2 DEF Next, Proceed, RunLifecycle, Enter, CheckClosed,
                      Snapshot, CallListener, ListenerEnds, EndInvoke, vars
<1> QED
  BY <1>1, <1>2, TypeCorrect, PTL DEF Spec

(* Once the container is closed no dispatch gains a listener to call.      *)
THEOREM ClosedGains == Spec => ClosedGainsNoListener
<1>1. TypeOK /\ ClosedIsEmpty /\ [Next]_vars /\ closed =>
        \A d \in NativeThreads : Len(todo'[d]) <= Len(todo[d])
  <2> SUFFICES ASSUME TypeOK, ClosedIsEmpty, [Next]_vars, closed,
                      NEW d \in NativeThreads
               PROVE  Len(todo'[d]) <= Len(todo[d])
    OBVIOUS
  <2>1. todo[d] \in Seq(Listeners) /\ Len(todo[d]) \in Nat
    BY DEF TypeOK
  <2>2. ASSUME NEW e \in NativeThreads, Snapshot(e)
        PROVE  Len(todo'[d]) <= Len(todo[d])
    BY <2>1, <2>2 DEF Snapshot, ClosedIsEmpty, TypeOK
  <2>3. ASSUME NEW e \in NativeThreads, CallListener(e)
        PROVE  Len(todo'[d]) <= Len(todo[d])
    BY <2>1, <2>3 DEF CallListener, TypeOK
  <2>4. CASE UNCHANGED todo
    BY <2>1, <2>4
  <2> QED
    BY <2>2, <2>3, <2>4
    DEF Next, Mutate, Register, RegisterRejected, Deregister, DeregisterAll,
        Close, RunLifecycle, Enter, Proceed, CheckClosed, ListenerEnds,
        EndInvoke, vars
<1> QED
  BY <1>1, TypeCorrect, ClosedStaysEmpty, PTL
  DEF Spec, ClosedGainsNoListener

(* A dispatch calls the listeners its iterator was made with, each once,   *)
(* whatever listeners and other threads do to the container: it makes as   *)
(* many calls as there were listeners, and ends.                           *)
THEOREM DispatchKeepsSnapshot == Spec => SnapshotKept
<1>1. TypeOK /\ [Next]_vars =>
        \A d \in NativeThreads :
          phase[d] \in {"running", "calling"} =>
            IF phase[d] = "running" /\ phase'[d] = "calling"
              THEN todo[d] # <<>> /\ todo'[d] = Tail(todo[d])
              ELSE todo'[d] = todo[d] /\ (phase'[d] = "idle" => todo[d] = <<>>)
  <2> SUFFICES ASSUME TypeOK, [Next]_vars, NEW d \in NativeThreads,
                      phase[d] \in {"running", "calling"}
               PROVE  IF phase[d] = "running" /\ phase'[d] = "calling"
                        THEN todo[d] # <<>> /\ todo'[d] = Tail(todo[d])
                        ELSE todo'[d] = todo[d] /\ (phase'[d] = "idle" => todo[d] = <<>>)
    OBVIOUS
  <2> USE DEF TypeOK
  <2>1. CASE UNCHANGED <<phase, todo>>
    BY <2>1
  <2>2. ASSUME NEW e \in NativeThreads,
               Enter(e) \/ CheckClosed(e) \/ Snapshot(e)
        PROVE  phase'[d] = phase[d] /\ todo'[d] = todo[d]
    BY <2>2 DEF Enter, CheckClosed, Snapshot
  <2>3. ASSUME NEW e \in NativeThreads, CallListener(e)
        PROVE  IF e = d
                 THEN phase[d] = "running" /\ phase'[d] = "calling"
                      /\ todo[d] # <<>> /\ todo'[d] = Tail(todo[d])
                 ELSE phase'[d] = phase[d] /\ todo'[d] = todo[d]
    BY <2>3 DEF CallListener
  <2>4. ASSUME NEW e \in NativeThreads, ListenerEnds(e) \/ EndInvoke(e)
        PROVE  /\ todo' = todo
               /\ IF e = d THEN phase'[d] = "running"
                               \/ (phase'[d] = "idle" /\ todo[d] = <<>>)
                           ELSE phase'[d] = phase[d]
    BY <2>4 DEF ListenerEnds, EndInvoke
  <2>5. CASE \E e \in NativeThreads : Enter(e) \/ Proceed(e)
    BY <2>2, <2>3, <2>4, <2>5 DEF Proceed
  <2> QED
    BY <2>1, <2>5
    DEF Next, Mutate, Register, RegisterRejected, Deregister, DeregisterAll,
        Close, RunLifecycle, vars
<1> QED
  BY <1>1, TypeCorrect, PTL DEF Spec, SnapshotKept

-----------------------------------------------------------------------------
(* A client that lets each change return before it makes the next.  Then a *)
(* call still owed always agrees with the list and disagrees with the      *)
(* slot, which is what makes the slot right once nothing is owed.          *)

Pending(t) == lifecycle[t] # "none"

OwedAgrees ==
  serialised =>
    /\ \A s, t \in Threads : Pending(s) /\ Pending(t) => s = t
    /\ \A t \in Threads : lifecycle[t] = "set" => Wanted /\ ~installed
    /\ \A t \in Threads : lifecycle[t] = "unset" => ~Wanted /\ installed
    /\ (\A t \in Threads : ~Pending(t)) => (installed <=> Wanted)

(* Nobody owes a call when a change begins, so it starts from a slot that  *)
(* is right.                                                               *)
LEMMA MutatorSettled ==
  ASSUME serialised, OwedAgrees, NEW t \in Threads, CanMutate(t)
  PROVE  /\ \A s \in Threads : ~Pending(s)
         /\ installed <=> Wanted
<1>1. \A s \in Threads : ~Pending(s)
  BY DEF CanMutate, Pending
<1> QED
  BY <1>1 DEF OwedAgrees

LEMMA OwedAgreesInductive == TypeOK /\ OwedAgrees /\ [Next]_vars => OwedAgrees'
<1> SUFFICES ASSUME TypeOK, OwedAgrees, [Next]_vars, serialised' PROVE OwedAgrees'
  BY DEF OwedAgrees
<1>0. serialised
  BY DEF Next, Mutate, Register, RegisterRejected, Deregister, DeregisterAll,
         Close, ClearListeners, RunLifecycle, Enter, Proceed, CheckClosed,
         Snapshot, CallListener, ListenerEnds, EndInvoke, vars
<1>1. ASSUME NEW t \in Threads, NEW call \in Owed, CanMutate(t),
             Owe(t, call), UNCHANGED installed,
             \/ call = "none" /\ (Wanted' <=> Wanted)
             \/ call = "set" /\ ~Wanted /\ Wanted'
             \/ call = "unset" /\ Wanted /\ ~Wanted'
      PROVE  OwedAgrees'
  <2>1. \A s \in Threads : lifecycle'[s] = IF s = t THEN call ELSE "none"
    BY <1>0, <1>1, MutatorSettled DEF TypeOK, Owe, Pending
  <2>2. installed <=> Wanted
    BY <1>0, <1>1, MutatorSettled
  <2> QED
    BY <1>1, <2>1, <2>2 DEF OwedAgrees, Pending, Owed
<1>2. ASSUME NEW t \in Threads, NEW l \in Listeners, Register(t, l)
      PROVE  OwedAgrees'
  <2>1. Wanted'
    BY <1>2 DEF Register, Wanted, TypeOK
  <2> QED
    BY <1>1, <1>2, <2>1 DEF Register, Owed
<1>3. ASSUME NEW t \in Threads, NEW l \in Listeners, Deregister(t, l)
      PROVE  OwedAgrees'
  <2>1. Wanted
    BY <1>3 DEF Deregister, Wanted, TypeOK
  <2> QED
    BY <1>1, <1>3, <2>1 DEF Deregister, Owed, Wanted
<1>4. ASSUME NEW t \in Threads, DeregisterAll(t) \/ Close(t)
      PROVE  OwedAgrees'
  BY <1>1, <1>4 DEF DeregisterAll, Close, ClearListeners, Owed, Wanted
<1>5. ASSUME NEW t \in Threads, RunLifecycle(t)
      PROVE  OwedAgrees'
  <2>1. \A s \in Threads : lifecycle'[s] = "none"
    BY <1>0, <1>5 DEF RunLifecycle, Owe, OwedAgrees, Pending, TypeOK
  <2>2. installed' <=> Wanted'
    BY <1>0, <1>5 DEF RunLifecycle, OwedAgrees, Wanted, TypeOK, Owed
  <2> QED
    BY <2>1, <2>2 DEF OwedAgrees, Pending
<1>6. CASE UNCHANGED <<listeners, installed, lifecycle, serialised>>
  BY <1>0, <1>6 DEF OwedAgrees, Pending, Wanted
<1> QED
  BY <1>2, <1>3, <1>4, <1>5, <1>6
  DEF Next, Mutate, RegisterRejected, Proceed, Enter, CheckClosed, Snapshot,
      CallListener, ListenerEnds, EndInvoke, vars

LEMMA OwedAgreesInvariant == Spec => []OwedAgrees
<1>1. Init => OwedAgrees
  BY DEF Init, OwedAgrees, Pending, Wanted
<1>2. TypeOK /\ OwedAgrees /\ [Next]_vars => OwedAgrees'
  BY OwedAgreesInductive
<1> QED
  BY <1>1, <1>2, TypeCorrect, PTL DEF Spec

(* With a client that serialises its changes the native callback is        *)
(* installed exactly when a listener is registered, whenever no lifecycle  *)
(* call is owed.                                                           *)
THEOREM SlotIsRight == Spec => []SerialisedSlot
<1>1. OwedAgrees => SerialisedSlot
  BY DEF OwedAgrees, SerialisedSlot, QuiescentSlot, Pending
<1> QED
  BY <1>1, OwedAgreesInvariant, PTL

-----------------------------------------------------------------------------
(* For a client that serialises its changes the container implements the   *)
(* safety part of CallbackSlot.                                            *)
THEOREM ImplementsSlot == Spec => Slot!Init /\ [][Slot!Next]_(Slot!slotVars)
<1>1. Init => Slot!Init
  BY DEF Init, Slot!Init, Wanted
<1>2. TypeOK /\ OwedAgrees /\ [Next]_vars => [Slot!Next]_(Slot!slotVars)
  <2> SUFFICES ASSUME TypeOK, OwedAgrees, [Next]_vars
               PROVE  [Slot!Next]_(Slot!slotVars)
    OBVIOUS
  <2> USE DEF Slot!Next, Slot!slotVars, Slot!Settled
  <2>0. serialised' = serialised
    BY DEF Next, Mutate, Register, RegisterRejected, Deregister, DeregisterAll,
           Close, ClearListeners, RunLifecycle, Enter, Proceed, CheckClosed,
           Snapshot, CallListener, ListenerEnds, EndInvoke, vars
  <2>7. CASE ~serialised
    BY <2>0, <2>7
  <2> SUFFICES ASSUME serialised PROVE [Slot!Next]_(Slot!slotVars)
    BY <2>7
  <2>1. ASSUME NEW t \in Threads, NEW l \in Listeners, Register(t, l)
        PROVE  [Slot!Next]_(Slot!slotVars)
    <3>1. Wanted' /\ ~closed
      BY <2>1 DEF Register, Wanted, TypeOK
    <3>2. installed <=> Wanted
      BY <2>1, MutatorSettled DEF Register
    <3> QED
      BY <2>0, <2>1, <3>1, <3>2 DEF Register, Slot!Demand, Wanted, TypeOK
  <2>2. ASSUME NEW t \in Threads, NEW l \in Listeners, Deregister(t, l)
        PROVE  [Slot!Next]_(Slot!slotVars)
    <3>1. Wanted
      BY <2>2 DEF Deregister, Wanted, TypeOK
    <3>2. installed <=> Wanted
      BY <2>2, MutatorSettled DEF Deregister
    <3> QED
      BY <2>0, <2>2, <3>1, <3>2 DEF Deregister, Slot!Drop, Wanted, TypeOK
  <2>3. ASSUME NEW t \in Threads, DeregisterAll(t)
        PROVE  [Slot!Next]_(Slot!slotVars)
    <3>1. installed <=> Wanted
      BY <2>3, MutatorSettled DEF DeregisterAll
    <3> QED
      BY <2>0, <2>3, <3>1 DEF DeregisterAll, ClearListeners, Slot!Drop, Wanted, TypeOK
  <2>4. ASSUME NEW t \in Threads, Close(t)
        PROVE  [Slot!Next]_(Slot!slotVars)
    <3>1. installed <=> Wanted
      BY <2>4, MutatorSettled DEF Close
    <3> QED
      BY <2>0, <2>4, <3>1 DEF Close, ClearListeners, Slot!Retire, Wanted, TypeOK
  <2>5. ASSUME NEW t \in Threads, RunLifecycle(t)
        PROVE  [Slot!Next]_(Slot!slotVars)
    <3>1. lifecycle[t] \in Owed
      BY DEF TypeOK
    <3>2. CASE lifecycle[t] = "set"
      BY <2>0, <2>5, <3>2 DEF RunLifecycle, OwedAgrees, Slot!Settle, Wanted, TypeOK
    <3>3. CASE lifecycle[t] = "unset"
      BY <2>0, <2>5, <3>3 DEF RunLifecycle, OwedAgrees, Slot!Settle, Wanted, TypeOK
    <3> QED
      BY <2>0, <2>5, <3>1, <3>2, <3>3 DEF RunLifecycle, Owed
  <2>6. CASE UNCHANGED <<listeners, installed, closed>>
    BY <2>0, <2>6 DEF Wanted
  <2> QED
    BY <2>1, <2>2, <2>3, <2>4, <2>5, <2>6
    DEF Next, Mutate, RegisterRejected, Proceed, Enter, CheckClosed, Snapshot,
        CallListener, ListenerEnds, EndInvoke, vars
<1> QED
  BY <1>1, <1>2, TypeCorrect, OwedAgreesInvariant, PTL DEF Spec
=============================================================================
