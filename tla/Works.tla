------------------------------- MODULE Works --------------------------------
(***************************************************************************)
(* What works for an org by itself: Watch and Growth in one server, with   *)
(* the clock, the run that is watched, and restarts.                       *)
(***************************************************************************)
EXTENDS Watch, Growth

CONSTANT MaxDeaths  \* bound: requests that a failing statement ends, and restarts

VARIABLE deaths

vars == <<req, watchVars, growthVars, deaths>>

Init == /\ \E plan \in Plans : req = Planned(plan)
        /\ WatchInit /\ GrowthInit /\ deaths = 0

Handle(q) ==
  \/ WatchHandler(q) /\ UNCHANGED growthVars /\ UNCHANGED deaths
  \/ GrowthHandler(q) /\ UNCHANGED watchVars /\ UNCHANGED deaths

Time == (MinutePasses \/ RunMoves) /\ UNCHANGED growthVars /\ UNCHANGED deaths

\* A statement fails and the handler throws.
Throw ==
  /\ deaths < MaxDeaths /\ deaths' = deaths + 1 /\ \E q \in Reqs : Die(q)
  /\ UNCHANGED watchVars /\ UNCHANGED growthVars
Restart ==
  /\ deaths < MaxDeaths /\ deaths' = deaths + 1 /\ DieAll
  /\ UNCHANGED watchVars /\ UNCHANGED growthVars

Next == (\E q \in Reqs : Handle(q)) \/ Time \/ Throw \/ Restart

Spec == Init /\ [][Next]_vars

=============================================================================
