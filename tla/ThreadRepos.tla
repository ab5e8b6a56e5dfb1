---------------------------- MODULE ThreadRepos -----------------------------
(***************************************************************************)
(* The repos of a thread (services/app/src/nav/thread-repos.ts, nav.ts):   *)
(* rows of thread_repos, one of them flagged primary, and threads.repo_id, *)
(* which a run is dispatched on and which should name the primary.  Each   *)
(* statement is a step of its own; nothing is in a transaction.            *)
(***************************************************************************)
EXTENDS Requests, FiniteSets

CONSTANTS
  Repos,     \* repos of the org
  Threads    \* bound: rows of threads

NoRepo == "none"

VARIABLES
  repoId,    \* threads.repo_id of every thread there is
  attached   \* thread_repos: <<thread, repo, is_primary>>

repoVars == <<repoId, attached>>

ThreadRow == Repos \cup {NoRepo}
ThreadRepoRow == Threads \X Repos \X BOOLEAN

RowsOf(t) == {row \in attached : row[1] = t}
Primaries(t) == {row[2] : row \in {row \in RowsOf(t) : row[3]}}
\* on conflict (thread, repo): set is_primary
Upsert(t, r, primary) ==
  {row \in attached : ~(row[1] = t /\ row[2] = r)} \cup {<<t, r, primary>>}

NewThread(t, r) == repoId' = Put(repoId, t, r)

\* POST /threads/:id/repos; the thread and the repo are in the org.
AddThreadRepo(q) ==
  /\ \E t \in DOMAIN repoId, r \in Repos, primary \in BOOLEAN :
       Enter(q, "addRepo", [at |-> IF primary THEN "demote" ELSE "attach",
                            thread |-> t, repo |-> r, primary |-> primary])
  /\ UNCHANGED repoVars

DemoteOthers(q) ==
  /\ At(q, "demote") /\ Goto(q, "attach")
  /\ LET t == req[q].thread
     IN  attached' = (attached \ RowsOf(t)) \cup {<<t, row[2], FALSE>> : row \in RowsOf(t)}
  /\ UNCHANGED repoId

AttachRepo(q) ==
  /\ At(q, "attach")
  /\ attached' = Upsert(req[q].thread, req[q].repo, req[q].primary)
  /\ IF req[q].primary THEN Goto(q, "mirror") ELSE Return(q)
  /\ UNCHANGED repoId

MirrorPrimary(q) ==
  /\ At(q, "mirror") /\ Return(q)
  /\ repoId' = [repoId EXCEPT ![req[q].thread] = req[q].repo]
  /\ UNCHANGED attached

\* threads.repo_id is not looked at.
RemoveThreadRepo(q) ==
  /\ Called(q, "removeRepo") /\ Return(q)
  /\ \E t \in DOMAIN repoId, r \in Repos :
       attached' = {row \in attached : ~(row[1] = t /\ row[2] = r)}
  /\ UNCHANGED repoId

\* The rows to copy are read before the fork is inserted.
ForkThread(q) ==
  /\ \E t \in DOMAIN repoId, fork \in Threads \ DOMAIN repoId :
       /\ Enter(q, "fork", [at |-> "copy", thread |-> fork,
            rows |-> {<<fork, row[2], row[3]>> : row \in RowsOf(t)}])
       /\ NewThread(fork, repoId[t])
  /\ UNCHANGED attached

CopyRepos(q) ==
  /\ At(q, "copy") /\ Return(q)
  /\ attached' = attached \cup
       {row \in req[q].rows : ~\E old \in RowsOf(row[1]) : old[2] = row[2]}
  /\ UNCHANGED repoId

\* A thread with a repo gets its primary row in a second statement.
CreateThread(q) ==
  /\ \E t \in Threads \ DOMAIN repoId, r \in ThreadRow :
       /\ IF r = NoRepo THEN Called(q, "thread") /\ Return(q)
          ELSE Enter(q, "thread", [at |-> "copy", thread |-> t, rows |-> {<<t, r, TRUE>>}])
       /\ NewThread(t, r)
  /\ UNCHANGED attached

RepoHandler(q) ==
  \/ AddThreadRepo(q) \/ DemoteOthers(q) \/ AttachRepo(q) \/ MirrorPrimary(q)
  \/ RemoveThreadRepo(q) \/ ForkThread(q) \/ CopyRepos(q) \/ CreateThread(q)

\* A repo is attached to a thread in one row (the primary key).
RepoRowType ==
  /\ DOMAIN repoId \subseteq Threads /\ \A t \in DOMAIN repoId : repoId[t] \in ThreadRow
  /\ attached \subseteq ThreadRepoRow
  /\ \A v, w \in attached : v[1] = w[1] /\ v[2] = w[2] => v = w

\* Every thread has at most one primary repo ("all other rows for the thread are
\* demoted so exactly one primary remains", thread-repos.ts:19-20).
AtMostOnePrimary == \A t \in Threads : Cardinality(Primaries(t)) <= 1

=============================================================================
