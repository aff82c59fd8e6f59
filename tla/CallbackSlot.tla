---------------------------- MODULE CallbackSlot ----------------------------
(***************************************************************************)
(* What an event container promises the native library: the callback slot  *)
(* of the event (one rtcSet...Callback registration per event) follows the *)
(* demand of the listeners.  The demand changes only while the slot agrees *)
(* with it, a change of demand is always carried to the slot, and after    *)
(* the container retires there is no demand again.                         *)
(***************************************************************************)

VARIABLES wanted,     \* some listener is registered
          installed,  \* the native library has a callback in the slot
          retired     \* the container is closed

slotVars == <<wanted, installed, retired>>

Settled == wanted = installed

Init == ~wanted /\ ~installed /\ ~retired

(* The first listener arrives. *)
Demand ==
  /\ Settled /\ ~retired /\ ~wanted
  /\ wanted' = TRUE
  /\ UNCHANGED <<installed, retired>>

(* The last listener leaves. *)
Drop ==
  /\ Settled /\ wanted
  /\ wanted' = FALSE
  /\ UNCHANGED <<installed, retired>>

(* The container retires, dropping what demand is left. *)
Retire ==
  /\ Settled /\ ~retired
  /\ wanted' = FALSE
  /\ retired' = TRUE
  /\ UNCHANGED installed

(* The native slot catches up with the demand. *)
Settle ==
  /\ ~Settled
  /\ installed' = wanted
  /\ UNCHANGED <<wanted, retired>>

Next == Demand \/ Drop \/ Retire \/ Settle

Spec == Init /\ [][Next]_slotVars /\ WF_slotVars(Settle)
=============================================================================
