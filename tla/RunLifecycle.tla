---------------------------- MODULE RunLifecycle ----------------------------
(***************************************************************************)
(* The life of one Run row as the table of RunStateTable promises it: the  *)
(* row starts pending and every change of its state is a legal move.       *)
(***************************************************************************)
EXTENDS RunStateTable

VARIABLE state

Init == state = "pending"

Move(to) == canTransition(state, to) /\ state' = to

Next == \E to \in RunStates : Move(to)

Spec == Init /\ [][Next]_state

=============================================================================
