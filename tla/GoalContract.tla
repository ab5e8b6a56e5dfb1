---------------------------- MODULE GoalContract ----------------------------
(***************************************************************************)
(* What the autonomous loop promises about one goal: it is decomposed      *)
(* into tasks, tasks are verified one by one and never un-verified, and it *)
(* closes, for good, only at a moment when every task it has is verified.  *)
(***************************************************************************)
EXTENDS Naturals

VARIABLES
  goal,      \* goals.state
  made,      \* tasks the goal has, numbered 1..made
  verified   \* those whose criterion is met

vars == <<goal, made, verified>>

Init == goal = "open" /\ made = 0 /\ verified = {}

\* The goal gets another task, by its first decomposition or by a retry.
Add ==
  /\ goal # "done"
  /\ made' = made + 1
  /\ UNCHANGED <<goal, verified>>

Activate ==
  /\ goal = "open" /\ made > 0
  /\ goal' = "active"
  /\ UNCHANGED <<made, verified>>

Verify(t) ==
  /\ goal = "active"
  /\ verified' = verified \cup {t}
  /\ UNCHANGED <<goal, made>>

Close ==
  /\ goal = "active" /\ verified = 1..made
  /\ goal' = "done"
  /\ UNCHANGED <<made, verified>>

Next ==
  \/ Add \/ Activate \/ Close
  \/ \E t \in 1..made : Verify(t)

Spec == Init /\ [][Next]_vars

=============================================================================
