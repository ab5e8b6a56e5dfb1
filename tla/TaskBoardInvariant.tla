------------------------- MODULE TaskBoardInvariant -------------------------
(***************************************************************************)
(* The inductive invariant of the board and its teams, in parts.  What a   *)
(* request holds follows from the place it waits at; what it will do next  *)
(* is safe whatever the others did meanwhile.                              *)
(***************************************************************************)
EXTENDS RoleGraph

Has(q, fields) == fields \subseteq DOMAIN req[q]
Lacks(q, fields) == fields \cap DOMAIN req[q] = {}

-----------------------------------------------------------------------------
(* What requests hold. *)

\* The loop over mentions, the loop of a fan-out, a team, and the rest.
InMentions(q) == Has(q, {"author", "todo", "seen", "depth"}) /\ Lacks(q, {"order"}) /\ req[q].depth \in Nat
InChain(q) == InMentions(q) /\ Has(q, {"repo"}) /\ req[q].depth < MaxDepth
InFanOut(q) ==
  /\ Has(q, {"task", "todo", "seen", "parent", "base", "repo", "note"}) /\ Lacks(q, {"order", "depth"})
  /\ req[q].task \in Tasks /\ req[q].parent = 0 /\ req[q].base = 0
Alone(q) == Has(q, {"note"}) /\ Lacks(q, {"todo", "order", "depth"})

\* A team has the rest of its order in hand, and results for what came before.
InTeam(q) ==
  /\ Has(q, {"graph", "order"}) /\ Lacks(q, {"todo", "depth"})
  /\ req[q].graph \in Graphs
  /\ LET all == topoOrder(req[q].graph)
         rest == req[q].order
     IN  /\ InOrder(req[q].graph, all) /\ rest \in Seq(STRING) /\ Len(rest) <= Len(all)
         /\ \A i \in 1..Len(rest) : rest[i] = all[Len(all) - Len(rest) + i]
         /\ \A i \in 1..Len(all) : <<q, all[i]>> \in DOMAIN results <=> i <= Len(all) - Len(rest)
Working(q) == InTeam(q) /\ Has(q, {"repo", "polls"}) /\ req[q].order # <<>>

\* A request that is about to insert a run, or to start it.
InLoop(q) == CASE req[q].next = "each" -> InChain(q)
               [] req[q].next = "fan" -> InFanOut(q)
               [] req[q].next = "poll" -> Working(q)
               [] OTHER -> Alone(q)
Opening(q) ==
  /\ Has(q, {"agent", "base", "next"})
  /\ req[q].agent \in Agents \cup {"none"} /\ req[q].base \in 0..Len(run)
  /\ req[q].next \in {"each", "fan", "post", "poll"} /\ InLoop(q)
OfTask(q) ==
  Has(q, {"task", "parent"}) /\ req[q].task \in Tasks /\ req[q].parent \in 0..Len(run)
Recorded(q) == Has(q, {"run"}) /\ req[q].run \in Runs

\* The rows a request is about to copy are rows of one thread, one per repo.
Copying(q) ==
  /\ Has(q, {"rows"}) /\ req[q].rows \subseteq ThreadRepoRow
  /\ \A v, w \in req[q].rows : v[1] = w[1] /\ v[2] = w[2] => v = w
Attaching(q) ==
  /\ Has(q, {"thread", "repo", "primary"}) /\ req[q].thread \in DOMAIN repoId
  /\ req[q].repo \in Repos /\ req[q].primary \in BOOLEAN

Places == {"new", "done", "dead", "demote", "attach", "mirror", "copy", "mentions", "each", "open",
           "run", "repo", "start", "assign", "fan", "post", "clear", "set", "role", "poll"}

Fit(q) ==
  /\ Has(q, {"at"}) /\ req[q].at \in Places
  /\ req[q].at \in {"demote", "attach", "mirror"} => Attaching(q)
  /\ At(q, "copy") => Copying(q)
  /\ At(q, "mentions") => InMentions(q) /\ Has(q, {"directive"})
  /\ At(q, "each") => InChain(q)
  /\ At(q, "open") => Opening(q) /\ req[q].next \in {"each", "poll"}
  /\ req[q].at \in {"run", "repo", "start"} => Opening(q) /\ OfTask(q)
  /\ At(q, "assign") => Opening(q) /\ OfTask(q) /\ req[q].next = "post"
  /\ req[q].at \in {"repo", "start"} => Recorded(q)
  /\ At(q, "repo") => req[q].next = "post"
  /\ At(q, "start") => Has(q, {"repo"})
  /\ At(q, "fan") => InFanOut(q)
  /\ At(q, "post") => Has(q, {"note"})
  /\ req[q].at \in {"clear", "set"} => Recorded(q) /\ Has(q, {"note"})
  /\ At(q, "set") => Has(q, {"rows"})
  /\ At(q, "role") => InTeam(q)
  /\ At(q, "poll") => Working(q) /\ Recorded(q)

-----------------------------------------------------------------------------
(* Who was started. *)

By(q) == {w \in wf : w.by = q}

\* Nobody is started before the loop; in the loops, whoever was started is among
\* those seen, and the one about to be started is not; a role that waits was not.
Fresh(q) ==
  \/ req[q].at \in {"new", "mentions", "assign"}
  \/ req[q].at \in {"run", "repo", "start"} /\ req[q].next = "post"
About(q) == req[q].at \in {"open", "run", "repo", "start"}
StartsFit(q) ==
  /\ Fresh(q) => By(q) = {}
  /\ (req[q].at \in {"each", "fan"} \/ (About(q) /\ req[q].next \in {"each", "fan"})) =>
       \A w \in By(q) : w.agent \in req[q].seen /\ (About(q) => w.agent # req[q].agent)
  /\ (req[q].at \in {"role", "poll"} \/ (About(q) /\ req[q].next = "poll")) =>
       \A w \in By(q) : \A i \in 1..Len(req[q].order) :
         (At(q, "poll") => i > 1) => w.role # req[q].order[i]

-----------------------------------------------------------------------------
(* Who won. *)

\* The transaction that has cleared a task's runs holds the lock on them all but
\* those inserted since, which are not selected.
WinnerFit(q) ==
  At(q, "set") =>
    LET t == run[req[q].run].task
    IN  /\ req[q].rows \subseteq RunsOf(t) /\ req[q].run \in req[q].rows
        /\ \A r \in RunsOf(t) : run[r].selected => r \in req[q].rows
OneSetter ==
  \A p, q \in Reqs : At(p, "set") /\ At(q, "set") /\ p # q =>
    run[req[p].run].task # run[req[q].run].task
OneSelected ==
  \A r, s \in Runs : run[r].selected /\ run[s].selected /\ run[r].task = run[s].task => r = s

-----------------------------------------------------------------------------
\* A result is of a request that began; its run exists, and stopped or was given up on.
ResultsFit ==
  \A k \in DOMAIN results :
    /\ k \in Reqs \X STRING /\ req[k[1]].at # "new"
    /\ results[k].run \in {0} \cup Runs
    /\ results[k].run # 0 => results[k].outcome \in awaited

Ready(q) == Fit(q) /\ StartsFit(q) /\ WinnerFit(q)

IInv ==
  /\ DOMAIN req = Reqs /\ TypeOK /\ StartedOnce /\ ChainBounded
  /\ OneSetter /\ OneSelected /\ StrandedExplained /\ MergedIsTrue
  /\ ResultsFit /\ OutcomesStand
  /\ \A q \in Reqs : Ready(q)

\* Who holds a graph is a team at one of its places.
TeamFit(q) ==
  Has(q, {"graph"}) =>
    req[q].at \in {"role", "poll", "done", "dead"} \/ (About(q) /\ req[q].next = "poll")
TeamInv == IInv /\ \A q \in Reqs : TeamFit(q)

=============================================================================
