---------------------------- MODULE MergePolicy ----------------------------
(***************************************************************************)
(* The pure decision of services/orchestrator/src/policy: what to do with  *)
(* a pull request from the autonomy dial, the risk verdict, the CI status  *)
(* and the UI quality gate, and the gate of services/app/src/fusion/gate.ts *)
(* that puts the placeholder/secret scan in front of it.                   *)
(***************************************************************************)

decideMerge(i) ==
  IF i.checks # "success" THEN "hold_for_human"
  ELSE IF i.autonomy = "monitor-only" THEN "monitor"
  ELSE IF \/ i.qaRequired /\ ~i.qaPassed
          \/ i.risk = "human"
          \/ i.autonomy # "autopilot-merge"
       THEN "hold_for_human"
       ELSE "merge"

\* What the gate learns from the changed files of the pull request: whether
\* the scan found a blocking line, the risk verdict and the UI QA result.
Findings == [blocked : BOOLEAN, risk : {"auto", "human"},
             qaRequired : BOOLEAN, qaPassed : BOOLEAN]

mergeGate(autonomy, f) ==
  /\ ~f.blocked
  /\ decideMerge([autonomy |-> autonomy, risk |-> f.risk, checks |-> "success",
                  qaRequired |-> f.qaRequired, qaPassed |-> f.qaPassed]) = "merge"

=============================================================================
