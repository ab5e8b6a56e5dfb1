----------------------------- MODULE RoleGraph ------------------------------
(***************************************************************************)
(* A goal worked by a team of roles (services/app/src/orchestration): a    *)
(* graph of roles is put in order, and one role after the other opens a    *)
(* task and a run on the board, is polled for its outcome, and hands it to *)
(* the roles that depend on it.  The route answers at once; what goes on   *)
(* is not recorded anywhere, and ends with the process or with the first   *)
(* statement that fails.                                                   *)
(***************************************************************************)
EXTENDS TaskBoard

CONSTANTS
  Graphs,   \* the graphs a team may be given
  MaxPolls  \* polls for an outcome, 40 in the code


VARIABLE results  \* of each team's roles: the run and the outcome it was told

teamVars == <<vars, results>>

Ids(graph) == {n.id : n \in ToSet(graph)}
NodeOf(graph, id) == CHOOSE n \in ToSet(graph) : n.id = id
ASSUME GraphAssumption ==
  MaxPolls \in Nat \ {0} /\ \A graph \in Graphs : Ids(graph) \subseteq STRING

Prerequisites(graph, id) == ToSet(NodeOf(graph, id).deps)

defaultRoleGraph ==
  <<[id |-> "plan", handle |-> "hermes", deps |-> <<>>],
    [id |-> "code", handle |-> "coder", deps |-> <<"plan">>],
    [id |-> "review", handle |-> "cursor", deps |-> <<"code">>]>>

-----------------------------------------------------------------------------
(* topoOrder. *)

Thrown == <<"thrown">>

\* A node goes in after what it depends on.  A node met again on the way down
\* closes a cycle.
Names(graph) == Ids(graph) \cup UNION {ToSet(n.deps) : n \in ToSet(graph)}
Visits(graph) == Seq(Names(graph) \cup {"thrown"}) \X (SUBSET Names(graph)) \X Names(graph)
topoOrder(graph) ==
  LET visit[v \in Visits(graph)] ==
        LET order == v[1]
            above == v[2]
            id == v[3]
        IN  IF order = Thrown \/ Contains(order, id) THEN order
            ELSE IF id \in above \/ id \notin Ids(graph) THEN Thrown
            ELSE LET deps == FoldLeft(LAMBDA o, d : visit[<<o, above \cup {id}, d>>],
                                      order, NodeOf(graph, id).deps)
                 IN  IF deps = Thrown THEN Thrown ELSE Append(deps, id)
  IN  FoldLeft(LAMBDA o, n : visit[<<o, {}, n.id>>], <<>>, graph)

\* What it should be: throws when no order exists, else returns one.  TLC evaluates
\* this once, for the graphs of the instance.
InOrder(graph, order) ==
  /\ order \in Seq(Ids(graph)) /\ ToSet(order) = Ids(graph) /\ IsInjective(order)
  /\ \A i \in DOMAIN order : Prerequisites(graph, order[i]) \subseteq {order[j] : j \in 1..(i - 1)}
Orderable(graph) == \E order \in SetToSeqs(Ids(graph)) : InOrder(graph, order)
ASSUME TopoOrderCorrect ==
  \A graph \in Graphs :
    IF Orderable(graph) THEN InOrder(graph, topoOrder(graph)) ELSE topoOrder(graph) = Thrown

-----------------------------------------------------------------------------
(* runGraph, with the executor of production. *)

\* POST /goals/:id/run-team.
RunTeam(q) ==
  /\ Called(q, "team")
  /\ \E graph \in Graphs :
       IF topoOrder(graph) = Thrown THEN Return(q)
       ELSE Enter(q, "team", [at |-> "role", graph |-> graph, order |-> topoOrder(graph)])
  /\ UNCHANGED <<board, results>>

\* The agent of the role's handle; any, by reputation, when the org has none of it.
pickAgentForRole(node) == IF node.handle \in Agents THEN {node.handle} ELSE Agents

\* results[id] = ..., and the next role.
Conclude(q, r, outcome) ==
  /\ results' = Put(results, <<q, Head(req[q].order)>>, [run |-> r, outcome |-> outcome])
  /\ GotoWith(q, "role", [order |-> Tail(req[q].order)])

\* The thread is looked up for every role: it may have lost its repo since.
NextRole(q) ==
  /\ At(q, "role")
  /\ \/ req[q].order = <<>> /\ Return(q) /\ UNCHANGED results
     \/ req[q].order # <<>> /\ repoId[Board] = NoRepo /\ Conclude(q, 0, "no-repo")
     \/ /\ req[q].order # <<>> /\ repoId[Board] # NoRepo
        /\ repoId[Board] \notin Tokens /\ Conclude(q, 0, "no-repo-token")
     \/ /\ req[q].order # <<>> /\ repoId[Board] \in Tokens
        /\ \E a \in pickAgentForRole(NodeOf(req[q].graph, Head(req[q].order))) :
             GotoWith(q, "open", [agent |-> a, repo |-> repoId[Board], base |-> 0,
                                  next |-> "poll", polls |-> 0])
        /\ UNCHANGED results
  /\ UNCHANGED board

awaited == {"merged", "checks_failed", "timeout", "error", "held_for_human",
            "awaiting_plan_approval"}

\* Mutant: a run that started counts as resolved.
AwaitRunTerminal_StopsEarly(q) ==
  /\ At(q, "poll")
  /\ LET r == req[q].run
     IN  IF run[r].state \in awaited \cup {"running"} THEN Conclude(q, r, run[r].state)
         ELSE IF req[q].polls + 1 = MaxPolls THEN Conclude(q, r, "timeout")
         ELSE GotoWith(q, "poll", [polls |-> req[q].polls + 1]) /\ UNCHANGED results
  /\ UNCHANGED board

\* awaitRunTerminal: one poll.  A run that is still at work after the last one is
\* reported as timed out, and left to itself.
AwaitRunTerminal(q) ==
  /\ At(q, "poll")
  /\ LET r == req[q].run
     IN  IF run[r].state \in awaited THEN Conclude(q, r, run[r].state)
         ELSE IF req[q].polls + 1 = MaxPolls THEN Conclude(q, r, "timeout")
         ELSE GotoWith(q, "poll", [polls |-> req[q].polls + 1]) /\ UNCHANGED results
  /\ UNCHANGED board

\* openTaskForMention and startFusionRun are TaskBoard's OpenTask, OpenRun and
\* StartFusionRun.
TeamSteps(q) == RunTeam(q) \/ NextRole(q) \/ AwaitRunTerminal(q)

TeamInit == Init /\ results = <<>>
TeamNext == (Next /\ UNCHANGED results) \/ \E q \in Reqs : TeamSteps(q)
TeamSpec == TeamInit /\ [][TeamNext]_teamVars

-----------------------------------------------------------------------------
(* Properties. *)

Teams == {q \in Reqs : Busy(q) /\ "graph" \in DOMAIN req[q]}
Resolved(q) == {id \in Ids(req[q].graph) : <<q, id>> \in DOMAIN results}
AtWork(q) == IF At(q, "role") THEN {} ELSE {Head(req[q].order)}

\* A role is put to work when all it depends on has an outcome, in an order that
\* exists ("The DAG runs nodes in order", role-graph.ts:41).
RolesInOrder ==
  \A q \in Teams : \A id \in Resolved(q) \cup AtWork(q) :
    Prerequisites(req[q].graph, id) \subseteq Resolved(q)

\* An outcome that was handed on stands: the run is still in that state, but for a
\* held one that a person merged since.  What waits for its plan, or was given up
\* on after the last poll, may go on.
OutcomesStand ==
  \A k \in DOMAIN results :
    \/ results[k].outcome \in {"timeout", "awaiting_plan_approval"} \/ results[k].run = 0
    \/ run[results[k].run].state = results[k].outcome
    \/ results[k].outcome = "held_for_human" /\ run[results[k].run].state = "merged"

\* A team works in order and hands on what is true.
TeamSound == RolesInOrder /\ OutcomesStand

\* What the code does not keep: "the next role only starts after this one resolves"
\* (role-graph.ts:40-41).
ResolvedBeforeNext ==
  \A k \in DOMAIN results :
    results[k].run = 0 \/ run[results[k].run].state \in awaited

=============================================================================
