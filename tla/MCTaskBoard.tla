---------------------------- MODULE MCTaskBoard -----------------------------
(***************************************************************************)
(* A small instance of TaskBoard, with its teams of roles, for TLC.        *)
(***************************************************************************)
EXTENDS RoleGraph
CONSTANTS alice, bob, web, api, q1, q2, q3

Both == {alice, bob}

\* bob is not shared, and api is in another workspace and has no token.
Permitted == {<<alice, web>>, <<bob, web>>, <<alice, api>>}

\* An agent by name, an agent and then its team, and ids that repeat or are
\* unknown.
Mentions == {<<bob, Team>>, <<alice, Unknown, bob, alice>>}

Calls(x, y, z) == q1 :> x @@ q2 :> y @@ q3 :> z

\* A chain of agents; competing runs and two selections; hand-off, restore and
\* people editing.
Thread ==
  {Calls("post", "agentPost", "agentPost"), Calls("fanOut", "edit", "relate"),
   Calls("reassign", "restore", "edit"), Calls("bulk", "reassign", "select"),
   Calls("fanOut", "select", "select"), Calls("addRepo", "addRepo", "post"),
   Calls("addRepo", "fork", "reassign"), Calls("thread", "removeRepo", "post"),
   Calls("team", "addRepo", "nothing")}

\* The team of production, and graphs as topoOrder's tests have them: listed
\* backwards, with a cycle, and with a node that is not there.
TheGraphs ==
  {defaultRoleGraph, Reverse(defaultRoleGraph),
   <<[id |-> "x", handle |-> alice, deps |-> <<"y">>],
     [id |-> "y", handle |-> alice, deps |-> <<"x">>]>>,
   <<[id |-> "x", handle |-> alice, deps |-> <<"gone">>]>>}

=============================================================================
