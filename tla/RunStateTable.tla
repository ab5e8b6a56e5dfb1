--------------------------- MODULE RunStateTable ---------------------------
(***************************************************************************)
(* The states of a Run row, its table of legal moves and its terminal      *)
(* states, as services/app/src/tasks/runs.ts defines them.                 *)
(***************************************************************************)

RunStates == {"pending", "running", "merged", "checks_failed", "timeout",
              "error", "held_for_human", "awaiting_plan_approval"}

TRANSITIONS ==
  [ s \in RunStates |->
      CASE s = "pending"  -> {"running", "error", "awaiting_plan_approval"}
        [] s = "running"  -> {"merged", "checks_failed", "timeout", "error",
                              "held_for_human"}
        [] s = "held_for_human"         -> {"merged"}
        [] s = "awaiting_plan_approval" -> {"running", "error"}
        [] OTHER -> {} ]

canTransition(from, to) == to \in TRANSITIONS[from]

TERMINAL_RUN_STATES == {"merged", "checks_failed", "timeout", "error",
                        "held_for_human"}

isTerminal(s) == s \in TERMINAL_RUN_STATES

=============================================================================
