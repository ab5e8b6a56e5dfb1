--------------------------- MODULE SandboxProofs ---------------------------
(***************************************************************************)
(* Theorems about Sandbox, for any number of requests and slots, whatever  *)
(* is asked for and wherever a subprocess fails or a deadline falls.       *)
(***************************************************************************)
EXTENDS Sandbox, FiniteSetTheorems, TLAPS

-----------------------------------------------------------------------------
(* The inductive invariant, in parts. *)

Kinds == {"run", "plan", "exec", "feedback"}
Places == {"prepare", "clone", "size", "setup", "command", "stuck", "work", "provision",
           "agent", "restore", "finish", "commit", "push", "sha"}
Refs == Branches \cup {"main"}
Pushes == {"pushed"} \X Refs \X Nat

\* What a handler has in hand.
Held == [at : Places, call : Kinds, body : Inputs, failed : BOOLEAN,
         written : SUBSET Paths, pushed : {<<>>} \cup Pushes]

TypeReq ==
  /\ DOMAIN req = Reqs
  /\ \A q \in Reqs : req[q].at \in {"new", "done"} \cup Places /\ (Busy(q) => req[q] \in Held)

TypeSlots ==
  /\ slots \subseteq Reqs /\ IsFiniteSet(slots) /\ Cardinality(slots) <= SlotCount
  /\ \A q \in Reqs : q \in slots <=> Busy(q)
  /\ over \subseteq slots

TypeClone ==
  /\ DOMAIN clone \subseteq slots /\ DOMAIN stash \subseteq slots
  /\ \A q \in DOMAIN clone : clone[q] \in [tree : Tree, parent : Nat]

Main == remote["main"][1]

TypeRemote ==
  /\ remote \in [Refs -> Seq(Tree)] /\ Len(remote["main"]) >= 1
  /\ Main \in [Paths -> {"repo", "none"}]

\* What a path may hold in the end: the repo's own, or the agent's.
Own(p) == {Main[p], "agent"}

\* From the clone on there is a directory; what is moved aside is there while the
\* agent works.
HasClone == {"size", "setup", "command", "work", "provision", "agent", "restore", "finish",
             "commit", "push", "sha"}
Placed(q) ==
  /\ req[q].at \in HasClone => q \in DOMAIN clone
  /\ q \in DOMAIN stash => req[q].at \in {"provision", "agent", "restore", "stuck"}

\* While something is moved aside it is the repo's own, and where nothing was moved
\* the repo had nothing.
Aside(q) ==
  /\ DOMAIN stash[q] \subseteq agentConfigPaths
  /\ \A p \in agentConfigPaths :
       IF p \in DOMAIN stash[q] THEN stash[q][p] \in Own(p) ELSE Main[p] = "none"

\* What the instruction files of a clone are, with them moved aside, and without.
Visible(place) == CASE place = "provision" -> {"none"}
                    [] place = "agent" -> {"none", "platform"}
                    [] OTHER -> {"none", "platform", "agent"}
Provisioned(q, p) ==
  req[q].at \in {"agent", "restore"} /\ clone[q].tree[p] = "platform" /\ Main[p] = "none"
Tidied(q) ==
  q \in DOMAIN clone /\ req[q].at # "stuck" =>
    IF q \in DOMAIN stash
    THEN Aside(q) /\ \A p \in agentConfigPaths : clone[q].tree[p] \in Visible(req[q].at)
    ELSE \A p \in agentConfigPaths : clone[q].tree[p] \in Own(p) \/ Provisioned(q, p)

\* Commits hold no more.
Landed ==
  \A b \in Refs : \A i \in 1..Len(remote[b]) : \A p \in agentConfigPaths :
    remote[b][i][p] \in Own(p)

\* A push that is about to be reported, or was, is on its branch.
OnBranch(result) == result \in Pushes /\ result[3] \in 1..Len(remote[result[2]])
Answered == \A q \in DOMAIN answer : answer[q] \in {<<"error">>, <<"result">>} \/ OnBranch(answer[q])

Ready(q) == Placed(q) /\ Tidied(q) /\ (At(q, "sha") => OnBranch(req[q].pushed))

IInv == /\ TypeReq /\ TypeSlots /\ TypeClone /\ TypeRemote /\ Landed /\ Answered
        /\ \A q \in Reqs : Ready(q)

-----------------------------------------------------------------------------
(* The lemmas of the proof: a way out, a step that only moves on, then the actions *)
(* that change a clone or a branch.                                                *)

\* The semaphore has a slot.
LEMMA SlotCountIsPositive == SlotCount \in Nat \ {0}
  BY SandboxAssumption DEF SandboxAssumption, SlotCount

\* At first there is only the repo's own commit.
LEMMA InitEstablishes == Init => IInv
<1> SUFFICES ASSUME Init PROVE IInv
  OBVIOUS
<1> USE DEF Init, SandboxInit
<1>1. PICK plan \in Plans : req = Planned(plan)
  OBVIOUS
<1>2. \A q \in Reqs : req[q].at = "new" /\ ~Busy(q)
  BY <1>1 DEF Planned, Busy
<1>3. PICK tree \in {[p \in Paths |-> "repo"], [p \in Paths |-> IF p = "src" THEN "repo" ELSE "none"]} :
        remote = [b \in Branches \cup {"main"} |-> IF b = "main" THEN <<tree>> ELSE <<>>]
  OBVIOUS
<1>4. tree \in [Paths -> {"repo", "none"}] /\ tree \in Tree
  BY <1>3 DEF Paths, agentConfigPaths, Tree, Owners
<1>5. remote["main"] = <<tree>> /\ Main = tree
  BY <1>3 DEF Main
<1>6. TypeRemote
  BY <1>3, <1>4, <1>5 DEF TypeRemote, Refs
<1>7. Landed
  BY <1>3, <1>5 DEF Landed, Refs, Own
<1>8. TypeReq
  BY <1>1, <1>2 DEF TypeReq, Planned
<1>9. TypeSlots
  BY <1>2, SlotCountIsPositive, FS_EmptySet DEF TypeSlots
<1>10. TypeClone /\ Answered /\ \A q \in Reqs : Ready(q)
  BY <1>2 DEF TypeClone, Answered, Ready, Placed, Tidied, At, HasClone
<1> QED
  BY <1>6, <1>7, <1>8, <1>9, <1>10 DEF IInv

\* What leaves the record, the clone and the stash of the others alone leaves them
\* ready; branches may grow.
OthersAlone(q) == \A r \in Reqs \ {q} :
  /\ req'[r] = req[r]
  /\ r \in DOMAIN clone' <=> r \in DOMAIN clone
  /\ r \in DOMAIN clone => clone'[r] = clone[r]
  /\ r \in DOMAIN stash' <=> r \in DOMAIN stash
  /\ r \in DOMAIN stash => stash'[r] = stash[r]

LEMMA OthersStayReady ==
  ASSUME NEW q \in Reqs, NEW r \in Reqs \ {q}, Ready(r), OthersAlone(q), Main' = Main,
         \A x : OnBranch(x) => OnBranch(x)'
  PROVE  Ready(r)'
<1>1. \A p : Own(p)' = Own(p)
  BY DEF Own
<1>2. Placed(r)'
  BY DEF Ready, Placed, OthersAlone
<1>3. r \in DOMAIN stash => (Aside(r)' <=> Aside(r))
  BY <1>1 DEF Aside, OthersAlone
<1>4. Tidied(r)'
  BY <1>1, <1>3 DEF Ready, Tidied, Provisioned, OthersAlone
<1> QED
  BY <1>2, <1>4 DEF Ready, At, OthersAlone

\* Every way out leaves the others as they were.
LEMMA RespondKeeps ==
  ASSUME IInv, NEW q \in Reqs, NEW result, Respond(q, result), UNCHANGED remote,
         result \in {<<"error">>, <<"result">>} \/ OnBranch(result)
  PROVE  IInv'
<1> USE DEF IInv
<1>1. /\ DOMAIN clone' = DOMAIN clone \ {q} /\ \A r \in DOMAIN clone' : clone'[r] = clone[r]
      /\ DOMAIN stash' = DOMAIN stash \ {q} /\ \A r \in DOMAIN stash' : stash'[r] = stash[r]
      /\ DOMAIN answer' = DOMAIN answer \cup {q} /\ answer'[q] = result
      /\ \A r \in DOMAIN answer \ {q} : answer'[r] = answer[r]
  BY DEF Respond, Put, Drop
<1>2. /\ DOMAIN req' = Reqs /\ req'[q] = [at |-> "done"]
      /\ \A r \in Reqs \ {q} : req'[r] = req[r]
  BY DEF Respond, Return, TypeReq
<1>3. Main' = Main /\ (\A p : Own(p)' = Own(p)) /\ \A x : OnBranch(x)' <=> OnBranch(x)
  BY DEF Main, Own, OnBranch
<1>4. TypeReq'
  BY <1>2 DEF TypeReq, Busy
<1>5. TypeSlots'
  <2>1. slots' = slots \ {q} /\ over' = over \ {q}
    BY DEF Respond
  <2>2. IsFiniteSet(slots') /\ Cardinality(slots') <= SlotCount
    <3>1. Cardinality(slots) \in Nat
      BY FS_CardinalityType DEF TypeSlots
    <3>2. IsFiniteSet(slots') /\ Cardinality(slots') \in {Cardinality(slots), Cardinality(slots) - 1}
      BY <2>1, FS_RemoveElement DEF TypeSlots
    <3> QED
      BY <3>1, <3>2, SlotCountIsPositive DEF TypeSlots
  <2> QED
    BY <1>2, <2>1, <2>2 DEF TypeSlots, Busy
<1>6. TypeClone'
  BY <1>1 DEF TypeClone, Respond
<1>7. TypeRemote' /\ Landed'
  BY <1>3 DEF TypeRemote, Landed
<1>8. Answered'
  BY <1>1, <1>3 DEF Answered
<1>9. ASSUME NEW r \in Reqs PROVE Ready(r)'
  <2>1. CASE r = q
    BY <1>1, <1>2, <2>1 DEF Ready, Placed, Tidied, HasClone, At
  <2>2. CASE r # q
    BY <1>1, <1>2, <1>3, <2>2, OthersStayReady DEF OthersAlone
  <2> QED
    BY <2>1, <2>2
<1> QED
  BY <1>4, <1>5, <1>6, <1>7, <1>8, <1>9

\* A failure is a way out.
LEMMA FailKeeps == ASSUME IInv, NEW q \in Reqs, Fail(q) PROVE IInv'
  BY RespondKeeps DEF Fail

\* A step of a handler that keeps its slot.
LEMMA WorkKeeps ==
  ASSUME IInv, NEW q \in Reqs, Busy(q), UNCHANGED <<slots, over, answer>>,
         DOMAIN req' = Reqs, req'[q] \in Held, OthersAlone(q),
         TypeClone', TypeRemote', Landed', Main' = Main,
         \A x : OnBranch(x) => OnBranch(x)', Ready(q)'
  PROVE  IInv'
<1> USE DEF IInv
<1>1. \A r \in Reqs : Busy(r)' <=> Busy(r)
  BY DEF Busy, Held, Places, OthersAlone
<1>2. TypeReq'
  BY <1>1 DEF TypeReq, OthersAlone, Held
<1>3. TypeSlots'
  BY <1>1 DEF TypeSlots
<1>4. Answered'
  BY DEF Answered
<1>5. \A r \in Reqs : Ready(r)'
  BY OthersStayReady
<1> QED
  BY <1>2, <1>3, <1>4, <1>5

\* A step that only moves on: its place is one the clone it has is fit for.
LEMMA GotoKeeps ==
  ASSUME IInv, NEW q \in Reqs, Busy(q), NEW place \in Places \ {"sha"}, Goto(q, place),
         UNCHANGED sandboxVars,
         place \in HasClone => q \in DOMAIN clone,
         q \in DOMAIN stash => place = "stuck",
         q \in DOMAIN clone => place = "stuck" \/ \A p \in agentConfigPaths : clone[q].tree[p] \in Own(p)
  PROVE  IInv'
<1> USE DEF IInv, sandboxVars
<1>1. /\ DOMAIN req' = Reqs /\ req'[q] = [req[q] EXCEPT !.at = place]
      /\ \A r \in Reqs \ {q} : req'[r] = req[r]
  BY DEF Goto, TypeReq
<1>2. req'[q] \in Held /\ req'[q].at = place
  BY <1>1 DEF TypeReq, Held
<1>3. OthersAlone(q)
  BY <1>1 DEF OthersAlone
<1>4. TypeClone' /\ TypeRemote' /\ Landed' /\ Main' = Main /\ \A x : OnBranch(x) => OnBranch(x)'
  BY DEF TypeClone, TypeRemote, Landed, Main, Own, OnBranch
<1>5. Ready(q)'
  BY <1>1, <1>2 DEF Ready, Placed, Tidied, Provisioned, Own, Main, At
<1> QED
  BY <1>1, <1>2, <1>3, <1>4, <1>5, WorkKeeps

\* A subprocess that ends or fails.
LEMMA StepKeeps ==
  ASSUME IInv, NEW q \in Reqs, NEW place \in Places, NEW next \in Places \ {"sha"}, Step(q, place, next),
         next \in HasClone => q \in DOMAIN clone,
         place \notin {"provision", "agent", "restore", "stuck"}
  PROVE  IInv'
<1>1. CASE Fail(q)
  BY <1>1, FailKeeps
<1>2. CASE Goto(q, next) /\ UNCHANGED sandboxVars
  <2>1. At(q, place) /\ Busy(q)
    BY DEF Step, At, Busy, Places
  <2>2. q \notin DOMAIN stash
    BY <2>1 DEF IInv, Ready, Placed, At
  <2>3. q \in DOMAIN clone => \A p \in agentConfigPaths : clone[q].tree[p] \in Own(p)
    BY <2>1, <2>2 DEF IInv, Ready, Tidied, Provisioned, At
  <2> QED
    BY <1>2, <2>1, <2>2, <2>3, GotoKeeps
<1> QED
  BY <1>1, <1>2 DEF Step

\* A handler that begins, or is refused.
LEMMA AcceptKeeps ==
  ASSUME IInv, NEW q \in Reqs, NEW kind \in Kinds, NEW valid \in SUBSET Inputs,
         NEW first \in {"prepare", "clone"}, Accept(q, kind, valid, first)
  PROVE  IInv'
<1>1. CASE Fail(q)
  BY <1>1, FailKeeps
<1>2. ASSUME NEW r \in Inputs, Cardinality(slots) < SlotCount,
             Enter(q, kind, [at |-> first, call |-> kind, body |-> r, failed |-> FALSE,
                             written |-> {}, pushed |-> <<>>]),
             slots' = slots \cup {q}, UNCHANGED <<clone, stash, over, answer, remote>>
      PROVE  IInv'
  <2> USE <1>2 DEF IInv
  <2>1. ~Busy(q) /\ q \notin slots
    BY DEF Enter, Called, At, Busy, TypeSlots
  <2>2. /\ DOMAIN req' = Reqs /\ \A s \in Reqs \ {q} : req'[s] = req[s]
        /\ req'[q] = [at |-> first, call |-> kind, body |-> r, failed |-> FALSE,
                      written |-> {}, pushed |-> <<>>]
    BY DEF Enter, TypeReq
  <2>3. req'[q] \in Held /\ req'[q].at = first
    BY <2>2 DEF Held, Places
  <2>4. Busy(q)' /\ \A s \in Reqs \ {q} : Busy(s)' <=> Busy(s)
    BY <2>2, <2>3 DEF Busy
  <2>5. TypeReq'
    BY <2>2, <2>3, <2>4 DEF TypeReq, Places
  <2>6. TypeSlots'
    <3>1. IsFiniteSet(slots') /\ Cardinality(slots') = Cardinality(slots) + 1
      BY <2>1, FS_AddElement DEF TypeSlots
    <3>2. Cardinality(slots) \in Nat
      BY FS_CardinalityType DEF TypeSlots
    <3> QED
      BY <2>4, <3>1, <3>2, SlotCountIsPositive DEF TypeSlots, SlotCount
  <2>7. TypeClone' /\ TypeRemote' /\ Landed' /\ Answered'
    BY DEF TypeClone, TypeRemote, Landed, Answered, Main, Own, OnBranch
  <2>8. q \notin DOMAIN clone /\ q \notin DOMAIN stash
    BY <2>1 DEF TypeClone
  <2>9. Ready(q)'
    BY <2>3, <2>8 DEF Ready, Placed, Tidied, HasClone, At
  <2>10. OthersAlone(q) /\ Main' = Main /\ \A x : OnBranch(x) => OnBranch(x)'
    BY <2>2 DEF OthersAlone, Main, OnBranch
  <2>11. \A s \in Reqs : Ready(s)'
    BY <2>9, <2>10, OthersStayReady
  <2> QED
    BY <2>5, <2>6, <2>7, <2>11
<1> QED
  BY <1>1, <1>2 DEF Accept

-----------------------------------------------------------------------------
(* The actions. *)

\* Between the agent's turn and the way out nothing is moved aside, and a clone holds
\* only the repo's files and the agent's.
LEMMA Settled ==
  ASSUME IInv, NEW q \in Reqs, req[q].at \in Places \ {"provision", "agent", "restore", "stuck"}
  PROVE  /\ Busy(q) /\ q \in slots /\ q \notin DOMAIN stash /\ req[q] \in Held
         /\ q \in DOMAIN clone => \A p \in agentConfigPaths : clone[q].tree[p] \in Own(p)
<1> USE DEF IInv
<1>1. Busy(q)
  BY DEF Busy, Places
<1>2. q \notin DOMAIN stash
  BY DEF Ready, Placed
<1>3. q \in DOMAIN clone => \A p \in agentConfigPaths : clone[q].tree[p] \in Own(p)
  BY <1>2 DEF Ready, Tidied, Provisioned
<1> QED
  BY <1>1, <1>2, <1>3 DEF TypeReq, TypeSlots

\* What does not touch the branches.
LEMMA BranchesKept ==
  ASSUME UNCHANGED remote, TypeRemote, Landed
  PROVE  TypeRemote' /\ Landed' /\ Main' = Main /\ \A x : OnBranch(x) => OnBranch(x)'
  BY DEF TypeRemote, Landed, Main, Own, OnBranch

\* A clone of a branch holds what its last commit holds.
LEMMA CloneIntoKeeps == ASSUME IInv, NEW q \in Reqs, CloneInto(q) PROVE IInv'
<1>1. CASE Fail(q)
  BY <1>1, FailKeeps
<1>2. CASE ~Fail(q)
  <2> DEFINE commits == remote[Base(q)]
             dir == [tree |-> commits[Len(commits)], parent |-> Len(commits)]
  <2>1. /\ req[q].at = "clone" /\ commits # <<>> /\ Goto(q, "size")
        /\ clone' = Put(clone, q, dir) /\ UNCHANGED <<slots, stash, remote, over, answer>>
    BY <1>2 DEF CloneInto, At
  <2>2. Busy(q) /\ q \in slots /\ q \notin DOMAIN stash /\ req[q] \in Held
    BY <2>1, Settled DEF Places
  <2>3. Base(q) \in Refs
    BY <2>2, SandboxAssumption DEF Base, Refs, Held, SandboxAssumption
  <2>4. commits \in Seq(Tree) /\ Len(commits) \in 1..Len(commits)
    BY <2>1, <2>3 DEF IInv, TypeRemote
  <2>5. dir \in [tree : Tree, parent : Nat]
    BY <2>4
  <2>6. \A p \in agentConfigPaths : dir.tree[p] \in Own(p)
    BY <2>3, <2>4 DEF IInv, Landed
  <2>7. /\ DOMAIN clone' = DOMAIN clone \cup {q} /\ clone'[q] = dir
        /\ \A r \in DOMAIN clone \ {q} : clone'[r] = clone[r]
    BY <2>1 DEF Put
  <2>8. /\ DOMAIN req' = Reqs /\ req'[q] = [req[q] EXCEPT !.at = "size"]
        /\ \A r \in Reqs \ {q} : req'[r] = req[r]
    BY <2>1 DEF Goto, IInv, TypeReq
  <2>9. req'[q] \in Held /\ req'[q].at = "size"
    BY <2>2, <2>8 DEF Held, Places
  <2> HIDE DEF dir, commits
  <2>10. TypeClone'
    BY <2>1, <2>2, <2>5, <2>7 DEF IInv, TypeClone
  <2>11. OthersAlone(q)
    BY <2>1, <2>7, <2>8 DEF OthersAlone
  <2>12. TypeRemote' /\ Landed' /\ Main' = Main /\ \A x : OnBranch(x) => OnBranch(x)'
    BY <2>1, BranchesKept DEF IInv
  <2>13. Ready(q)'
    BY <2>1, <2>2, <2>6, <2>7, <2>9, <2>12 DEF Ready, Placed, Tidied, HasClone, At, Own
  <2> QED
    BY <2>1, <2>2, <2>8, <2>9, <2>10, <2>11, <2>12, <2>13, WorkKeeps
<1> QED
  BY <1>1, <1>2

\* The subprocesses and checks that change nothing the invariant speaks of.
LEMMA StepsKeep ==
  ASSUME IInv, NEW q \in Reqs, Prepare(q) \/ checkRepoSize(q) \/ runSetupScript(q)
  PROVE  IInv'
<1>1. CASE Prepare(q)
  BY <1>1, StepKeeps DEF Prepare, Places, HasClone
<1>2. CASE checkRepoSize(q)
  <2>1. q \in DOMAIN clone
    BY <1>2 DEF checkRepoSize, Step, At, IInv, Ready, Placed, HasClone
  <2> QED
    BY <1>2, <2>1, StepKeeps DEF checkRepoSize, Places
<1>3. CASE runSetupScript(q)
  <2>1. q \in DOMAIN clone
    BY <1>3 DEF runSetupScript, Step, At, IInv, Ready, Placed, HasClone
  <2> QED
    BY <1>3, <2>1, StepKeeps DEF runSetupScript, Places
<1> QED
  BY <1>1, <1>2, <1>3

\* A handler that waits for ever keeps what it has.
LEMMA StuckKeeps == ASSUME IInv, NEW q \in Reqs, Stuck(q) PROVE IInv'
<1>1. Busy(q)
  BY DEF Stuck, At, Busy
<1> QED
  BY <1>1, GotoKeeps DEF Stuck, Places, HasClone

\* The ends of a handler: an answer, or on to the commit and the push.
LEMMA EndsKeep ==
  ASSUME IInv, NEW q \in Reqs, Exec(q) \/ Finish(q) \/ Commit(q) \/ Report(q)
  PROVE  IInv'
<1>1. CASE Fail(q)
  BY <1>1, FailKeeps
<1>2. CASE Respond(q, <<"result">>) /\ UNCHANGED remote
  BY <1>2, RespondKeeps
<1>3. ASSUME NEW from \in {"finish", "commit"}, NEW place \in {"commit", "push"},
             At(q, from), Goto(q, place), UNCHANGED sandboxVars
      PROVE  IInv'
  <2>1. req[q].at \in Places \ {"provision", "agent", "restore", "stuck"} /\ q \in DOMAIN clone
    BY <1>3 DEF At, Places, IInv, Ready, Placed, HasClone
  <2>2. Busy(q) /\ q \notin DOMAIN stash /\ \A p \in agentConfigPaths : clone[q].tree[p] \in Own(p)
    BY <2>1, Settled
  <2> QED
    BY <1>3, <2>1, <2>2, GotoKeeps DEF Places
<1>4. CASE At(q, "sha") /\ Respond(q, req[q].pushed) /\ UNCHANGED remote
  BY <1>4, RespondKeeps DEF IInv, Ready
<1> QED
  BY <1>1, <1>2, <1>3, <1>4 DEF Exec, Finish, Commit, Report

\* A turn of the agent's: only the record, the tree and the stash of q change.
Turn(q, place, tree) ==
  /\ req[q].at \in {"work", "provision", "agent", "restore"} /\ place \in HasClone \ {"sha"}
  /\ tree \in Tree
  /\ SetTree(q, tree) \/ (UNCHANGED clone /\ tree = clone[q].tree)
  /\ DOMAIN req' = Reqs /\ req'[q] \in Held /\ req'[q].at = place
  /\ \A r \in Reqs \ {q} : req'[r] = req[r]
  /\ DOMAIN stash' \subseteq DOMAIN stash \cup {q}
  /\ \A r \in DOMAIN stash \ {q} : r \in DOMAIN stash' /\ stash'[r] = stash[r]
  /\ UNCHANGED <<slots, over, answer, remote>>

LEMMA TurnKeeps ==
  ASSUME IInv, NEW q \in Reqs, NEW place, NEW tree, Turn(q, place, tree),
         q \in DOMAIN stash' => place \in {"provision", "agent", "restore"},
         q \in DOMAIN stash' =>
           /\ DOMAIN stash'[q] \subseteq agentConfigPaths
           /\ \A p \in agentConfigPaths :
                IF p \in DOMAIN stash'[q] THEN stash'[q][p] \in Own(p) ELSE Main[p] = "none"
           /\ \A p \in agentConfigPaths : tree[p] \in Visible(place),
         q \notin DOMAIN stash' =>
           \A p \in agentConfigPaths :
             \/ tree[p] \in Own(p)
             \/ place \in {"agent", "restore"} /\ tree[p] = "platform" /\ Main[p] = "none"
  PROVE  IInv'
<1>1. Busy(q) /\ q \in slots /\ q \in DOMAIN clone
  BY DEF Turn, Busy, IInv, Ready, Placed, TypeSlots, HasClone
<1>2. clone[q] \in [tree : Tree, parent : Nat]
  BY <1>1 DEF IInv, TypeClone
<1>3. /\ DOMAIN clone' = DOMAIN clone /\ \A r \in DOMAIN clone \ {q} : clone'[r] = clone[r]
      /\ clone'[q] \in [tree : Tree, parent : Nat] /\ clone'[q].tree = tree
  <2>1. CASE UNCHANGED clone /\ tree = clone[q].tree
    BY <1>2, <2>1
  <2>2. CASE SetTree(q, tree)
    <3>1. clone' = [clone EXCEPT ![q] = [clone[q] EXCEPT !.tree = tree]]
      BY <2>2 DEF SetTree
    <3> QED
      BY <1>1, <1>2, <3>1 DEF Turn
  <2> QED
    BY <2>1, <2>2 DEF Turn
<1>4. TypeClone'
  BY <1>1, <1>3 DEF IInv, TypeClone, Turn
<1>5. OthersAlone(q)
  BY <1>3 DEF OthersAlone, Turn
<1>6. TypeRemote' /\ Landed' /\ Main' = Main /\ \A x : OnBranch(x) => OnBranch(x)'
  BY BranchesKept DEF Turn, IInv
<1>7. \A p : Own(p)' = Own(p)
  BY <1>6 DEF Own
<1>8. Placed(q)'
  BY <1>1, <1>3 DEF Placed, Turn
<1>9. Tidied(q)'
  BY <1>3, <1>6, <1>7 DEF Tidied, Aside, Provisioned, Turn
<1>10. Ready(q)'
  BY <1>8, <1>9 DEF Ready, At, Turn
<1> QED
  BY <1>1, <1>4, <1>5, <1>6, <1>10, WorkKeeps DEF Turn

\* The trees of clones are trees.
LEMMA TreeOf ==
  ASSUME IInv, NEW q \in Reqs, req[q].at \in {"work", "provision", "agent", "restore"}
  PROVE  /\ q \in DOMAIN clone /\ clone[q].tree \in Tree /\ Main \in [Paths -> {"repo", "none"}]
         /\ req[q] \in Held /\ DOMAIN req = Reqs
<1>1. q \in DOMAIN clone
  BY DEF IInv, Ready, Placed, HasClone
<1> QED
  BY <1>1 DEF IInv, TypeClone, TypeRemote, TypeReq, Busy

\* Moving aside what the clone has; or not, and then the clone is as it was.
LEMMA QuarantineKeeps == ASSUME IInv, NEW q \in Reqs, quarantineRepoConfig(q) PROVE IInv'
<1> DEFINE tree == clone[q].tree
           moved == {p \in agentConfigPaths : tree[p] # "none"}
           aside == [p \in moved |-> tree[p]]
           left == [p \in Paths |-> IF p \in moved THEN "none" ELSE tree[p]]
<1>1. /\ req[q].at = "work" /\ Goto(q, "provision") /\ UNCHANGED <<slots, remote, over, answer>>
  BY DEF quarantineRepoConfig, At
<1>2. /\ q \in DOMAIN clone /\ tree \in Tree /\ Main \in [Paths -> {"repo", "none"}]
      /\ req[q] \in Held /\ DOMAIN req = Reqs
  BY <1>1, TreeOf
<1>3. Busy(q) /\ q \notin DOMAIN stash /\ \A p \in agentConfigPaths : tree[p] \in Own(p)
  BY <1>1, <1>2, Settled DEF Places
<1>4. /\ DOMAIN req' = Reqs /\ req'[q] = [req[q] EXCEPT !.at = "provision"]
      /\ \A r \in Reqs \ {q} : req'[r] = req[r]
  BY <1>1, <1>2 DEF Goto
<1>5. req'[q] \in Held /\ req'[q].at = "provision"
  BY <1>2, <1>4 DEF Held, Places
<1>6. CASE stash' = Put(stash, q, aside) /\ SetTree(q, left)
  <2>1. /\ DOMAIN stash' = DOMAIN stash \cup {q} /\ stash'[q] = aside
        /\ \A r \in DOMAIN stash \ {q} : stash'[r] = stash[r]
    BY <1>6 DEF Put
  <2>2. left \in Tree
    BY <1>2 DEF Tree, Owners
  <2>3. Turn(q, "provision", left)
    BY <1>1, <1>4, <1>5, <1>6, <2>1, <2>2 DEF Turn, HasClone
  <2>4. /\ DOMAIN aside \subseteq agentConfigPaths
        /\ \A p \in agentConfigPaths :
             IF p \in DOMAIN aside THEN aside[p] \in Own(p) ELSE Main[p] = "none"
    BY <1>3 DEF Own
  <2>5. \A p \in agentConfigPaths : left[p] \in Visible("provision")
    BY DEF Visible, Paths
  <2> HIDE DEF left, aside
  <2> QED
    BY <2>1, <2>3, <2>4, <2>5, TurnKeeps
<1>7. CASE UNCHANGED <<stash, clone>>
  <2>1. Turn(q, "provision", tree)
    BY <1>1, <1>2, <1>4, <1>5, <1>7 DEF Turn, HasClone
  <2> QED
    BY <1>3, <1>7, <2>1, TurnKeeps
<1> QED
  BY <1>6, <1>7 DEF quarantineRepoConfig

\* What the platform puts in is put where nothing is.
LEMMA ProvisionKeeps == ASSUME IInv, NEW q \in Reqs, ProvisionConfig(q) PROVE IInv'
<1> DEFINE tree == clone[q].tree
           skilled == [tree EXCEPT ![".claude"] = IF @ = "none" THEN "platform" ELSE @]
           full == provisionMcpConfig(req[q].body.mcp, skilled)
<1>1. /\ req[q].at = "provision" /\ Goto(q, "agent") /\ SetTree(q, full)
      /\ UNCHANGED <<slots, stash, remote, over, answer>>
  BY DEF ProvisionConfig, At
<1>2. /\ q \in DOMAIN clone /\ tree \in Tree /\ Main \in [Paths -> {"repo", "none"}]
      /\ req[q] \in Held /\ DOMAIN req = Reqs
  BY <1>1, TreeOf
<1>3. /\ DOMAIN req' = Reqs /\ req'[q] = [req[q] EXCEPT !.at = "agent"]
      /\ \A r \in Reqs \ {q} : req'[r] = req[r]
  BY <1>1, <1>2 DEF Goto
<1>4. req'[q] \in Held /\ req'[q].at = "agent"
  BY <1>2, <1>3 DEF Held, Places
<1>5. /\ skilled \in Tree
      /\ \A p \in agentConfigPaths :
           skilled[p] = tree[p] \/ (tree[p] = "none" /\ skilled[p] = "platform")
  BY <1>2 DEF Tree, Owners, Paths, agentConfigPaths
<1>6. full \in {skilled, [skilled EXCEPT ![".mcp.json"] = "platform"]}
  BY DEF provisionMcpConfig
<1> HIDE DEF skilled, full
<1>7. /\ full \in Tree
      /\ \A p \in agentConfigPaths :
           full[p] = tree[p] \/ (tree[p] = "none" /\ full[p] = "platform")
  BY <1>2, <1>5, <1>6 DEF Tree, Owners, Paths, agentConfigPaths
<1>8. Turn(q, "agent", full)
  BY <1>1, <1>3, <1>4, <1>7 DEF Turn, HasClone
<1>9. q \in DOMAIN stash => Aside(q) /\ \A p \in agentConfigPaths : full[p] \in Visible("agent")
  BY <1>1, <1>2, <1>7 DEF IInv, Ready, Tidied, Visible
<1>10. q \notin DOMAIN stash =>
         \A p \in agentConfigPaths : full[p] \in Own(p) \/ (full[p] = "platform" /\ Main[p] = "none")
  BY <1>1, <1>2, <1>7 DEF IInv, Ready, Tidied, Provisioned, Own
<1> QED
  BY <1>1, <1>8, <1>9, <1>10, TurnKeeps DEF Aside

\* The CLI may write its own instruction files; they are the agent's then.
LEMMA EditsKeep == ASSUME IInv, NEW q \in Reqs, AgentEdits(q) PROVE IInv'
<1>1. PICK written \in Writes(q), failed \in BOOLEAN :
        /\ SetTree(q, [p \in Paths |-> IF p \in written THEN "agent" ELSE clone[q].tree[p]])
        /\ req' = [req EXCEPT ![q].at = "restore", ![q].failed = failed, ![q].written = written]
  BY DEF AgentEdits
<1> DEFINE tree == clone[q].tree
           edited == [p \in Paths |-> IF p \in written THEN "agent" ELSE tree[p]]
<1>2. req[q].at = "agent" /\ SetTree(q, edited) /\ UNCHANGED <<slots, stash, remote, over, answer>>
  BY <1>1 DEF AgentEdits, At
<1>3. /\ q \in DOMAIN clone /\ tree \in Tree /\ Main \in [Paths -> {"repo", "none"}]
      /\ req[q] \in Held /\ DOMAIN req = Reqs
  BY <1>2, TreeOf
<1>4. written \in SUBSET Paths
  BY <1>1 DEF Writes, Paths, agentConfigPaths
<1>5. /\ DOMAIN req' = Reqs /\ \A r \in Reqs \ {q} : req'[r] = req[r]
      /\ req'[q] \in Held /\ req'[q].at = "restore"
  <2>1. req'[q] = [[[req[q] EXCEPT !.at = "restore"] EXCEPT !.failed = failed] EXCEPT !.written = written]
    BY <1>1, <1>3
  <2> QED
    BY <1>1, <1>3, <1>4, <2>1 DEF Held, Places
<1>6. edited \in Tree /\ \A p \in agentConfigPaths : edited[p] \in {tree[p], "agent"}
  BY <1>3 DEF Tree, Owners, Paths
<1> HIDE DEF edited
<1>7. Turn(q, "restore", edited)
  BY <1>2, <1>5, <1>6 DEF Turn, HasClone
<1>8. q \in DOMAIN stash => Aside(q) /\ \A p \in agentConfigPaths : edited[p] \in Visible("restore")
  BY <1>2, <1>3, <1>6 DEF IInv, Ready, Tidied, Visible
<1>9. q \notin DOMAIN stash =>
        \A p \in agentConfigPaths : edited[p] \in Own(p) \/ (edited[p] = "platform" /\ Main[p] = "none")
  BY <1>2, <1>3, <1>6 DEF IInv, Ready, Tidied, Provisioned, Own
<1> QED
  BY <1>2, <1>7, <1>8, <1>9, TurnKeeps DEF Aside

\* What was put in goes, what was moved aside comes back, or the agent's is there.
LEMMA RestoreKeeps == ASSUME IInv, NEW q \in Reqs, RestoreConfig(q) PROVE IInv'
<1> DEFINE tree == clone[q].tree
           aside == IF q \in DOMAIN stash THEN stash[q] ELSE [p \in {} |-> "none"]
           removed == [p \in Paths |-> IF tree[p] = "platform" THEN "none" ELSE tree[p]]
           back == [p \in Paths |->
                     IF p \in DOMAIN aside /\ ~(p = ".claude" /\ removed[p] # "none")
                     THEN aside[p] ELSE removed[p]]
<1>1. /\ req[q].at = "restore" /\ Goto(q, "finish") /\ SetTree(q, back) /\ stash' = Drop(stash, q)
      /\ UNCHANGED <<slots, remote, over, answer>>
  BY DEF RestoreConfig, At
<1>2. /\ q \in DOMAIN clone /\ tree \in Tree /\ Main \in [Paths -> {"repo", "none"}]
      /\ req[q] \in Held /\ DOMAIN req = Reqs
  BY <1>1, TreeOf
<1>3. /\ DOMAIN req' = Reqs /\ req'[q] = [req[q] EXCEPT !.at = "finish"]
      /\ \A r \in Reqs \ {q} : req'[r] = req[r]
  BY <1>1, <1>2 DEF Goto
<1>4. req'[q] \in Held /\ req'[q].at = "finish"
  BY <1>2, <1>3 DEF Held, Places
<1>5. DOMAIN stash' = DOMAIN stash \ {q} /\ \A r \in DOMAIN stash \ {q} : stash'[r] = stash[r]
  BY <1>1 DEF Drop
<1>6. removed \in Tree
  BY <1>2 DEF Tree, Owners
<1>7. \A p \in agentConfigPaths : back[p] \in Own(p)
  <2> SUFFICES ASSUME NEW p \in agentConfigPaths PROVE back[p] \in Own(p)
    OBVIOUS
  <2>1. p \in Paths /\ Main[p] \in {"repo", "none"}
    BY <1>2 DEF Paths
  <2>2. removed[p] = IF tree[p] = "platform" THEN "none" ELSE tree[p]
    BY <2>1
  <2>3. back[p] = IF p \in DOMAIN aside /\ ~(p = ".claude" /\ removed[p] # "none")
                  THEN aside[p] ELSE removed[p]
    BY <2>1
  <2>4. CASE q \in DOMAIN stash
    <3>1. /\ IF p \in DOMAIN stash[q] THEN stash[q][p] \in Own(p) ELSE Main[p] = "none"
          /\ tree[p] \in {"none", "platform", "agent"}
      BY <1>1, <1>2, <2>4 DEF IInv, Ready, Tidied, Aside, Visible
    <3>2. aside = stash[q] /\ removed[p] \in {"none", "agent"}
      BY <2>2, <2>4, <3>1
    <3> HIDE DEF aside, removed, back
    <3> QED
      BY <2>3, <3>1, <3>2 DEF Own
  <2>5. CASE q \notin DOMAIN stash
    <3>1. tree[p] \in Own(p) \/ (tree[p] = "platform" /\ Main[p] = "none")
      BY <1>1, <1>2, <2>5 DEF IInv, Ready, Tidied, Provisioned
    <3>2. back[p] = removed[p]
      BY <2>3, <2>5
    <3> HIDE DEF aside, removed, back
    <3> QED
      BY <2>1, <2>2, <3>1, <3>2 DEF Own
  <2> QED
    BY <2>4, <2>5
<1>8. back \in Tree
  <2>1. \A p \in Paths : back[p] \in Owners
    <3> SUFFICES ASSUME NEW p \in Paths PROVE back[p] \in Owners
      OBVIOUS
    <3>1. CASE p \in agentConfigPaths
      <4>1. back[p] \in Own(p) /\ Main[p] \in {"repo", "none"}
        BY <1>2, <1>7, <3>1
      <4> HIDE DEF back
      <4> QED
        BY <4>1 DEF Own, Owners
    <3>2. CASE p \notin agentConfigPaths
      <4>1. p \notin DOMAIN aside
        BY <1>1, <1>2, <3>2 DEF IInv, Ready, Tidied, Aside
      <4> QED
        BY <1>6, <4>1 DEF Tree
    <3> QED
      BY <3>1, <3>2
  <2> QED
    BY <2>1 DEF Tree
<1> HIDE DEF back
<1>9. Turn(q, "finish", back)
  BY <1>1, <1>3, <1>4, <1>5, <1>8 DEF Turn, HasClone
<1> QED
  BY <1>5, <1>7, <1>9, TurnKeeps

\* The fake agent touches no instruction file.
LEMMA FakeKeeps == ASSUME IInv, NEW q \in Reqs, FakeAgent(q) PROVE IInv'
<1> DEFINE tree == clone[q].tree
           edited == IF req[q].call = "plan" THEN tree ELSE [tree EXCEPT !["src"] = "agent"]
<1>1. /\ req[q].at = "work" /\ req' = [req EXCEPT ![q].at = "finish", ![q].written = {"src"}]
      /\ UNCHANGED <<slots, stash, remote, over, answer>>
  BY DEF FakeAgent, At
<1>2. /\ q \in DOMAIN clone /\ tree \in Tree /\ req[q] \in Held /\ DOMAIN req = Reqs
  BY <1>1, TreeOf
<1>3. q \notin DOMAIN stash /\ \A p \in agentConfigPaths : tree[p] \in Own(p)
  BY <1>1, <1>2, Settled DEF Places
<1>4. /\ DOMAIN req' = Reqs /\ \A r \in Reqs \ {q} : req'[r] = req[r]
      /\ req'[q] \in Held /\ req'[q].at = "finish"
  <2>1. req'[q] = [[req[q] EXCEPT !.at = "finish"] EXCEPT !.written = {"src"}]
    BY <1>1, <1>2
  <2> QED
    BY <1>1, <1>2, <2>1 DEF Held, Places, Paths
<1>5. edited \in Tree /\ \A p \in agentConfigPaths : edited[p] = tree[p]
  BY <1>2 DEF Tree, Owners, Paths, agentConfigPaths
<1>6. SetTree(q, edited) \/ (UNCHANGED clone /\ edited = tree)
  BY DEF FakeAgent
<1> HIDE DEF edited
<1>7. Turn(q, "finish", edited)
  BY <1>1, <1>4, <1>5, <1>6 DEF Turn, HasClone
<1> QED
  BY <1>1, <1>3, <1>5, <1>7, TurnKeeps

\* What appending does to a sequence.
LEMMA AppendGrows ==
  ASSUME NEW S, NEW s \in Seq(S), NEW e \in S
  PROVE  /\ Append(s, e) \in Seq(S) /\ Len(Append(s, e)) = Len(s) + 1
         /\ \A i \in 1..Len(s) : Append(s, e)[i] = s[i]
         /\ \A i \in 1..Len(Append(s, e)) : i \notin 1..Len(s) => Append(s, e)[i] = e
  OBVIOUS

\* A push appends the clone's tree to its branch: what was there stays there.
LEMMA PushKeeps == ASSUME IInv, NEW q \in Reqs, Push(q) PROVE IInv'
<1> DEFINE b == req[q].body.branch
           parent == IF req[q].call = "feedback" THEN clone[q].parent ELSE 0
           tree == clone[q].tree
<1>1. CASE Fail(q)
  BY <1>1, FailKeeps
<1>2. CASE ~Fail(q)
  <2>1. /\ req[q].at = "push" /\ Len(remote[b]) = parent
        /\ remote' = [remote EXCEPT ![b] = Append(@, tree)]
        /\ req' = [req EXCEPT ![q].at = "sha", ![q].pushed = <<"pushed", b, parent + 1>>]
        /\ UNCHANGED <<slots, clone, stash, over, answer>>
    BY <1>2 DEF Push, At
  <2>2. /\ Busy(q) /\ q \in slots /\ q \notin DOMAIN stash /\ req[q] \in Held
        /\ q \in DOMAIN clone => \A p \in agentConfigPaths : tree[p] \in Own(p)
    BY <2>1, Settled DEF Places
  <2>3. q \in DOMAIN clone /\ tree \in Tree
    BY <2>1 DEF IInv, Ready, Placed, HasClone, TypeClone
  <2>4. b \in Refs
    BY <2>2, SandboxAssumption DEF Refs, Held, SandboxAssumption
  <2>5. remote[b] \in Seq(Tree) /\ parent \in Nat /\ DOMAIN remote = Refs
    BY <2>1, <2>4 DEF IInv, TypeRemote
  <2> HIDE DEF b, parent, tree
  <2>6. /\ DOMAIN remote' = Refs /\ remote'[b] = Append(remote[b], tree)
        /\ \A c \in Refs \ {b} : remote'[c] = remote[c]
    BY <2>1, <2>4, <2>5
  <2>7. \A c \in Refs :
          /\ remote'[c] \in Seq(Tree) /\ Len(remote'[c]) >= Len(remote[c])
          /\ \A i \in 1..Len(remote[c]) : remote'[c][i] = remote[c][i]
          /\ \A i \in 1..Len(remote'[c]) : i \notin 1..Len(remote[c]) => remote'[c][i] = tree
    <3> SUFFICES ASSUME NEW c \in Refs
        PROVE  /\ remote'[c] \in Seq(Tree) /\ Len(remote'[c]) >= Len(remote[c])
               /\ \A i \in 1..Len(remote[c]) : remote'[c][i] = remote[c][i]
               /\ \A i \in 1..Len(remote'[c]) : i \notin 1..Len(remote[c]) => remote'[c][i] = tree
      OBVIOUS
    <3>1. remote[c] \in Seq(Tree) /\ Len(remote[c]) \in Nat
      BY DEF IInv, TypeRemote
    <3>2. CASE c = b
      <4>1. remote'[c] = Append(remote[c], tree)
        BY <2>6, <3>2
      <4> HIDE <3>2
      <4> QED
        BY <2>3, <3>1, <4>1, AppendGrows
    <3>3. CASE c # b
      BY <2>6, <3>1, <3>3
    <3> QED
      BY <3>2, <3>3
  <2>8. Len(remote["main"]) \in Nat /\ Len(remote["main"]) >= 1 /\ Len(remote'["main"]) \in Nat
    BY <2>7 DEF IInv, TypeRemote, Refs
  <2>9. Main' = Main
    BY <2>7, <2>8 DEF Main, Refs
  <2>10. remote' \in [Refs -> Seq(Tree)]
    <3>1. remote' = [c \in Refs |-> remote'[c]]
      BY <2>1, <2>6
    <3> QED
      BY <2>7, <3>1
  <2>11. TypeRemote'
    BY <2>7, <2>8, <2>9, <2>10 DEF IInv, TypeRemote, Refs
  <2>12. Landed'
    <3> SUFFICES ASSUME NEW c \in Refs, NEW i \in 1..Len(remote'[c]), NEW p \in agentConfigPaths
        PROVE  remote'[c][i][p] \in Own(p)
      BY <2>9 DEF Landed, Own
    <3>1. CASE i \in 1..Len(remote[c])
      BY <2>7, <3>1 DEF IInv, Landed
    <3>2. CASE i \notin 1..Len(remote[c])
      BY <2>2, <2>3, <2>7, <3>2
    <3> QED
      BY <3>1, <3>2
  <2>13. \A x : OnBranch(x) => OnBranch(x)'
    <3> SUFFICES ASSUME NEW x, OnBranch(x) PROVE OnBranch(x)'
      OBVIOUS
    <3>1. x \in Pushes /\ x[2] \in Refs /\ x[3] \in 1..Len(remote[x[2]])
      BY DEF OnBranch, Pushes
    <3>2. Len(remote[x[2]]) \in Nat /\ Len(remote'[x[2]]) \in Nat /\ Len(remote'[x[2]]) >= Len(remote[x[2]])
      BY <2>7, <3>1 DEF IInv, TypeRemote
    <3> QED
      BY <3>1, <3>2 DEF OnBranch
  <2>14. DOMAIN req' = Reqs /\ \A r \in Reqs \ {q} : req'[r] = req[r]
    BY <2>1 DEF IInv, TypeReq
  <2>15. <<"pushed", b, parent + 1>> \in Pushes
    BY <2>4, <2>5 DEF Pushes
  <2>16. req'[q] \in Held /\ req'[q].at = "sha" /\ req'[q].pushed = <<"pushed", b, parent + 1>>
    <3>1. req'[q] = [[req[q] EXCEPT !.at = "sha"] EXCEPT !.pushed = <<"pushed", b, parent + 1>>]
      BY <2>1 DEF IInv, TypeReq
    <3> QED
      BY <2>2, <2>15, <3>1 DEF Held, Places
  <2>17. OnBranch(req[q].pushed)'
    <3>1. parent = Len(remote[b])
      BY <2>1 DEF parent, b
    <3>2. Len(remote'[b]) = parent + 1
      BY <2>3, <2>5, <2>6, <3>1
    <3> QED
      BY <2>5, <2>15, <2>16, <3>2 DEF OnBranch
  <2>18. Ready(q)'
    BY <2>1, <2>2, <2>3, <2>9, <2>16, <2>17 DEF Ready, Placed, Tidied, Own, At, tree
  <2>19. TypeClone' /\ OthersAlone(q)
    BY <2>1, <2>14 DEF IInv, TypeClone, OthersAlone
  <2> QED
    BY <2>1, <2>2, <2>9, <2>11, <2>12, <2>13, <2>14, <2>16, <2>18, <2>19, WorkKeeps
<1> QED
  BY <1>1, <1>2

\* The deadline by itself changes nothing.
LEMMA ContextOverKeeps == ASSUME IInv, NEW q \in Reqs, ContextOver(q) PROVE IInv'
<1> USE DEF ContextOver, IInv
<1>1. TypeReq' /\ TypeSlots' /\ TypeClone' /\ TypeRemote' /\ Landed' /\ Answered'
  BY DEF TypeReq, TypeSlots, TypeClone, TypeRemote, Landed, Answered, Busy, Main, Own, OnBranch
<1>2. OthersAlone(q) /\ Main' = Main /\ \A x : OnBranch(x) => OnBranch(x)'
  BY DEF OthersAlone, Main, OnBranch
<1>3. Ready(q)'
  BY DEF Ready, Placed, Tidied, Aside, Provisioned, Own, Main, OnBranch, At
<1> QED
  BY <1>1, <1>2, <1>3, OthersStayReady

\* Every step of every handler.
LEMMA HandlerKeeps == ASSUME IInv, NEW q \in Reqs, SandboxHandler(q) PROVE IInv'
<1>1. CASE HandleRun(q) \/ HandlePlan(q) \/ HandleExec(q) \/ HandleFeedback(q)
  BY <1>1, AcceptKeeps DEF HandleRun, HandlePlan, HandleExec, HandleFeedback, Kinds
<1>2. CASE Stuck(q)
  BY <1>2, StuckKeeps
<1>3. CASE ContextOver(q)
  BY <1>3, ContextOverKeeps
<1>4. CASE Work(q)
  <2>1. CASE Prepare(q) \/ checkRepoSize(q) \/ runSetupScript(q)
    BY <2>1, StepsKeep
  <2>2. CASE CloneInto(q)
    BY <2>2, CloneIntoKeeps
  <2>3. CASE Exec(q) \/ Finish(q) \/ Commit(q) \/ Report(q)
    BY <2>3, EndsKeep
  <2>4. CASE runAgentShared(q)
    BY <2>4, QuarantineKeeps, ProvisionKeeps, EditsKeep, RestoreKeeps DEF runAgentShared
  <2>5. CASE FakeAgent(q)
    BY <2>5, FakeKeeps
  <2>6. CASE Push(q)
    BY <2>6, PushKeeps
  <2> QED
    BY <1>4, <2>1, <2>2, <2>3, <2>4, <2>5, <2>6 DEF Work
<1> QED
  BY <1>1, <1>2, <1>3, <1>4 DEF SandboxHandler

-----------------------------------------------------------------------------
(* The theorems. *)

\* The invariant holds of every behaviour of the runner.
THEOREM Invariance == Spec => []IInv
<1>1. Init => IInv
  BY InitEstablishes
<1>2. IInv /\ [Next]_<<req, sandboxVars>> => IInv'
  <2> SUFFICES ASSUME IInv, [Next]_<<req, sandboxVars>> PROVE IInv'
    OBVIOUS
  <2>1. CASE Next
    BY <2>1, HandlerKeeps DEF Next
  <2>2. CASE UNCHANGED <<req, sandboxVars>>
    BY <2>2 DEF sandboxVars, IInv, TypeReq, TypeSlots, TypeClone, TypeRemote, Landed, Answered,
                Ready, Placed, Tidied, Aside, Provisioned, Busy, Main, Own, OnBranch, At
  <2> QED
    BY <2>1, <2>2
<1> QED
  BY <1>1, <1>2, PTL DEF Spec

\* The repo's instruction files are out of the agent's sight while it works, unless
\* moving them aside was impossible, and back in every commit, however many requests
\* there are and wherever a subprocess fails or a deadline falls (quarantine.go).
THEOREM RepoConfigQuarantinedHolds == Spec => []RepoConfigQuarantined
<1>1. IInv => RepoConfigQuarantined
  <2> SUFFICES ASSUME IInv PROVE RepoConfigQuarantined
    OBVIOUS
  <2>1. SandboxTypeOK
    <3>1. \A b \in DOMAIN remote : remote[b] \in Seq(Tree)
      BY DEF IInv, TypeRemote
    <3>2. \A q \in DOMAIN clone : clone[q].tree \in Tree
      BY DEF IInv, TypeClone
    <3> QED
      BY <3>1, <3>2 DEF IInv, SandboxTypeOK, TypeSlots, TypeClone
  <2>2. AgentSeesNoRepoConfig
    <3> SUFFICES ASSUME NEW q \in DOMAIN stash, At(q, "agent"), NEW p \in agentConfigPaths
        PROVE  clone[q].tree[p] # "repo"
      BY DEF AgentSeesNoRepoConfig
    <3>1. q \in Reqs /\ q \in DOMAIN clone
      BY DEF IInv, TypeClone, TypeSlots, Ready, Placed, HasClone, At
    <3> QED
      BY <3>1 DEF IInv, Ready, Tidied, Visible, At
  <2>3. ConfigComesBack
    <3>1. DOMAIN remote = Refs
      BY DEF IInv, TypeRemote
    <3> QED
      BY <3>1 DEF IInv, ConfigComesBack, Landed, Own, Main
  <2> QED
    BY <2>1, <2>2, <2>3 DEF RepoConfigQuarantined
<1> QED
  BY <1>1, Invariance, PTL

\* A run or a feedback that was answered with a commit has that commit on its
\* branch for good, whoever else pushes (git push without --force).
THEOREM ReportedIsPushedHolds == Spec => []ReportedIsPushed
<1>1. IInv => ReportedIsPushed
  BY DEF IInv, Answered, OnBranch, ReportedIsPushed
<1> QED
  BY <1>1, Invariance, PTL

=============================================================================
