------------------------------ MODULE Delivery ------------------------------
(***************************************************************************)
(* What the outbox promises: an event that is emitted stays owed until it  *)
(* is settled (handled, or given up after its attempts), once, and that    *)
(* comes for every event.                                                  *)
(***************************************************************************)
CONSTANT Events

VARIABLES owed, settled

vars == <<owed, settled>>

Init == owed = {} /\ settled = {}

Emit(e) ==
  /\ e \notin owed \cup settled
  /\ owed' = owed \cup {e}
  /\ UNCHANGED settled

Settle(e) ==
  /\ e \in owed
  /\ owed' = owed \ {e}
  /\ settled' = settled \cup {e}

Next == \E e \in Events : Emit(e) \/ Settle(e)

Spec == Init /\ [][Next]_vars /\ \A e \in Events : WF_vars(Settle(e))
=============================================================================
