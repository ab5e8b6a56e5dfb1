------------------------------- MODULE Memory -------------------------------
(***************************************************************************)
(* What an org remembers (services/app/src/memory, http/memory-routes.ts): *)
(* nodes with versions, edges between them, replacing a node under an      *)
(* optimistic lock, linking nodes that share a term, and consolidating     *)
(* clusters of nodes into dream nodes.  One org, one statement at a time.  *)
(*                                                                         *)
(* A node's label and body are the set of significant terms in them.  A    *)
(* dream node's id is a hash of its members: it is the set of them.        *)
(***************************************************************************)
EXTENDS Requests, FiniteSets, Naturals

CONSTANTS
  Terms,
  MaxPerTerm,   \* a term shared by more nodes links none
  MaxNodes      \* bound: raw nodes

ASSUME MemoryAssumption == MaxPerTerm \in Nat /\ MaxNodes \in Nat

VARIABLES
  node,    \* memory_nodes but the dreams
  edge,    \* memory_edges but those of dreams: <<from, to, relation>>, unique
  dream,   \* memory_nodes with metadata.dream: the members of each
  linked   \* edges "consolidates": <<dream, node>>

memoryVars == <<node, edge, dream, linked>>

NodeRow == [terms : SUBSET Terms, version : Nat \ {0},
            status : {"active", "invalidated", "superseded"}]
Ids == DOMAIN node
EdgeRow == Ids \X Ids \X {"derived_from", "supersedes", "contradicts", "related"}

MemoryInit ==
  /\ \E t \in SUBSET Terms \ {{}} :
       node = <<[terms |-> t, version |-> 1, status |-> "active"]>>
  /\ edge = {} /\ dream = {} /\ linked = {}

NewId == Cardinality(Ids) + 1
InsertNode(terms, version) ==
  /\ NewId <= MaxNodes
  /\ node' = Put(node, NewId, [terms |-> terms, version |-> version, status |-> "active"])

-----------------------------------------------------------------------------

\* createNode, for a user or (without a source) for the decision of a run that ended.
CreateNode(q) ==
  /\ \E t \in SUBSET Terms \ {{}}, sources \in {{}} \cup {{n} : n \in Ids} :
       /\ InsertNode(t, 1)
       /\ IF sources = {} THEN Called(q, "remember") /\ Return(q)
          ELSE Enter(q, "remember", [at |-> "link", relation |-> "derived_from", from |-> NewId,
                                     to |-> CHOOSE n \in sources : TRUE])
  /\ UNCHANGED <<edge, dream, linked>>

\* createEdge: on conflict nothing.
CreateEdge(q) ==
  /\ At(q, "link") /\ Return(q)
  /\ edge' = edge \cup {<<req[q].from, req[q].to, req[q].relation>>}
  /\ UNCHANGED <<node, dream, linked>>

AddContradiction(q) ==
  /\ \E m, n \in Ids :
       Enter(q, "contradict", [at |-> "link", relation |-> "contradicts", from |-> m, to |-> n])
  /\ UNCHANGED memoryVars

\* supersedeNode: a stale version is a conflict (409); a fresh one is only read once.
Supersede(q) ==
  /\ \E n \in Ids, expected \in 1..MaxNodes :
       IF node[n].version # expected THEN Called(q, "supersede") /\ Return(q)
       ELSE Enter(q, "supersede", [at |-> "retire", old |-> n, version |-> node[n].version])
  /\ UNCHANGED memoryVars
Retire(q) ==
  /\ At(q, "retire") /\ Goto(q, "replace")
  /\ node' = [node EXCEPT ![req[q].old].status = "superseded"]
  /\ UNCHANGED <<edge, dream, linked>>
Replace(q) ==
  /\ At(q, "replace")
  /\ \E t \in SUBSET Terms \ {{}} : InsertNode(t, req[q].version + 1)
  /\ GotoWith(q, "link", [from |-> NewId, to |-> req[q].old, relation |-> "supersedes"])
  /\ UNCHANGED <<edge, dream, linked>>

\* Whatever the status was; a superseded node can be active again.
SetStatus(q) ==
  /\ Called(q, "status") /\ Return(q)
  /\ \E n \in Ids, status \in {"invalidated", "active"} :
       node' = [node EXCEPT ![n].status = status]
  /\ UNCHANGED <<edge, dream, linked>>

listNodes == {n \in Ids : node[n].status = "active"}

-----------------------------------------------------------------------------
(* Links between nodes that share a term, by a deterministic id. *)

HoldersOf(t) == {n \in listNodes : t \in node[n].terms}
Wanted == {pair \in SUBSET listNodes :
             Cardinality(pair) = 2 /\ \E t \in Terms :
               pair \subseteq HoldersOf(t) /\ Cardinality(HoldersOf(t)) <= MaxPerTerm}

relatedEdgeId(a, b) == {a, b}

DeriveRelatedEdges(q) ==
  /\ Enter(q, "derive", [at |-> "relate", todo |-> Wanted])
  /\ UNCHANGED memoryVars
\* The nodes come in no order: either end may be the first.
Relate(q) ==
  /\ At(q, "relate")
  /\ \/ req[q].todo = {} /\ Return(q) /\ UNCHANGED edge
     \/ \E pair \in req[q].todo : \E a \in pair : \E b \in pair \ {a} :
          /\ GotoWith(q, "relate", [todo |-> req[q].todo \ {pair}])
          /\ edge' = IF \E e \in edge : e[3] = "related" /\ relatedEdgeId(e[1], e[2]) = relatedEdgeId(a, b)
                     THEN edge ELSE edge \cup {<<a, b, "related">>}
  /\ UNCHANGED <<node, dream, linked>>

-----------------------------------------------------------------------------
(* Dreaming: one node per cluster of raw nodes, whatever their status. *)

Alike(m, n) == Cardinality(node[m].terms \cap node[n].terms) >= 2
Closed(S) == \A m \in S, n \in Ids : Alike(m, n) => n \in S
ClusterOf(n) == {m \in Ids : \A S \in SUBSET Ids : n \in S /\ Closed(S) => m \in S}
clusterNodes == {c \in {ClusterOf(n) : n \in Ids} : Cardinality(c) >= 2}

Consolidate(q) ==
  /\ Enter(q, "dream", [at |-> "cluster", todo |-> clusterNodes])
  /\ UNCHANGED memoryVars
\* The next cluster: nothing for one that has its dream, complete or not.
NextCluster(q) ==
  /\ At(q, "cluster")
  /\ \/ req[q].todo = {} /\ Return(q)
     \/ \E c \in req[q].todo \cap dream : GotoWith(q, "cluster", [todo |-> req[q].todo \ {c}])
     \/ \E c \in req[q].todo \ dream :
          GotoWith(q, "insertDream", [todo |-> req[q].todo \ {c}, cluster |-> c, members |-> c])
  /\ UNCHANGED memoryVars
InsertDream(q) ==
  /\ At(q, "insertDream") /\ Goto(q, "members") /\ dream' = dream \cup {req[q].cluster}
  /\ UNCHANGED <<node, edge, linked>>
\* Mutant: the first member is linked, the others are not.
LinkMember_First(q) ==
  /\ At(q, "members") /\ Goto(q, "cluster")
  /\ \E n \in req[q].members : linked' = linked \cup {<<req[q].cluster, n>>}
  /\ UNCHANGED <<node, edge, dream>>

LinkMember(q) ==
  /\ At(q, "members")
  /\ \/ req[q].members = {} /\ Goto(q, "cluster") /\ UNCHANGED linked
     \/ \E n \in req[q].members :
          /\ GotoWith(q, "members", [members |-> req[q].members \ {n}])
          /\ linked' = linked \cup {<<req[q].cluster, n>>}
  /\ UNCHANGED <<node, edge, dream>>

MemoryRoutes(q) ==
  \/ CreateNode(q) \/ CreateEdge(q) \/ AddContradiction(q) \/ SetStatus(q)
  \/ Supersede(q) \/ Retire(q) \/ Replace(q) \/ DeriveRelatedEdges(q) \/ Relate(q)
  \/ Consolidate(q) \/ NextCluster(q) \/ InsertDream(q) \/ LinkMember(q)

-----------------------------------------------------------------------------
(* Properties. *)

\* Rows have their types, and edges join nodes there are.
MemoryTypeOK ==
  /\ \A n \in Ids : node[n] \in NodeRow
  /\ edge \subseteq EdgeRow /\ dream \subseteq SUBSET Ids
  /\ linked \subseteq dream \X Ids /\ \A l \in linked : l[2] \in l[1]

\* Versions climb along "supersedes", so what replaces what never runs in a circle;
\* two nodes are related once, whichever way, though two derivations overlap.
GraphIsSound ==
  /\ \A e \in edge : e[3] = "supersedes" => node[e[1]].version = node[e[2]].version + 1
  /\ \A e, f \in edge : e[3] = "related" /\ f[3] = "related" /\ {e[1], e[2]} = {f[1], f[2]} => e = f

\* A dream node is linked to everything it was made of, or the one that made it is
\* still at it, or died: then nobody links the rest, for the dream is there.
DreamIsLinked ==
  \A d \in dream : \A n \in d : <<d, n>> \in linked
    \/ \E q \in Reqs : "cluster" \in DOMAIN req[q] /\ req[q].cluster = d

\* The graph of memories stays a graph of versions, and dreams of what they join.
MemorySound == MemoryTypeOK /\ GraphIsSound /\ DreamIsLinked

\* A version of a node is replaced once ("optimistic-locked versioning", memory.ts:147).
ReplacedOnce ==
  \A e, f \in edge : e[3] = "supersedes" /\ f[3] = "supersedes" /\ e[2] = f[2] => e = f

=============================================================================
