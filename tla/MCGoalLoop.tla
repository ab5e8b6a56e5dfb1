----------------------------- MODULE MCGoalLoop -----------------------------
(***************************************************************************)
(* Small instances of GoalLoop for TLC.                                    *)
(***************************************************************************)
EXTENDS GoalLoopInvariant, TLC

CONSTANTS code, shop, site,  \* criteria: pure code, money, a public URL
          p1, p2, a1, t1     \* requests

=============================================================================
