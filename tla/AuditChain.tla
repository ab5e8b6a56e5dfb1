----------------------------- MODULE AuditChain -----------------------------
(***************************************************************************)
(* The audit log of one organisation (services/app/src/audit/audit-log.ts):*)
(* rows that form a hash chain.  append reads the last row in one          *)
(* statement and inserts its successor in another, so several writers may  *)
(* hold the same last row; the unique index on (org_id, seq) and ON        *)
(* CONFLICT DO NOTHING decide between them.                                *)
(***************************************************************************)
EXTENDS Integers

CONSTANTS
  Writers,   \* requests that call record()
  Entries    \* what they record: action, actor, resource and payload

VARIABLES
  audit,     \* rows of audit_log
  tail       \* what each writer's select returned

chainVars == <<audit, tail>>

\* hashEntry: a collision-free hash is the triple it is computed from.
hashEntry(seq, prevHash, entry) == <<seq, prevHash, entry>>
NoHash == <<>>
NoTail == [seq |-> -1, hash |-> NoHash]

Init == audit = {} /\ tail = [w \in Writers |-> NoTail]

\* select seq, hash ... order by seq desc limit 1
ReadTail(w) ==
  /\ \/ audit = {} /\ tail' = [tail EXCEPT ![w] = NoTail]
     \/ \E r \in audit :
          /\ \A s \in audit : s.seq <= r.seq
          /\ tail' = [tail EXCEPT ![w] = [seq |-> r.seq, hash |-> r.hash]]
  /\ UNCHANGED audit

Link(w, entry) ==
  LET seq == tail[w].seq + 1
      prevHash == tail[w].hash
  IN [seq |-> seq, prevHash |-> prevHash, entry |-> entry,
      hash |-> hashEntry(seq, prevHash, entry)]

\* Mutant: a conflict overwrites the row.
Insert_Upserts(w, entry) ==
  audit' = {r \in audit : r.seq # Link(w, entry).seq} \cup {Link(w, entry)}
\* insert ... on conflict do nothing
Insert(w, entry) ==
  audit' = IF \E r \in audit : r.seq = Link(w, entry).seq
             THEN audit ELSE audit \cup {Link(w, entry)}

\* A writer is done with the row it read.
InsertLink(w, entry) ==
  Insert(w, entry) /\ tail' = [tail EXCEPT ![w] = NoTail]

Next ==
  \E w \in Writers :
    ReadTail(w) \/ \E entry \in Entries : InsertLink(w, entry)

Spec == Init /\ [][Next]_chainVars

-----------------------------------------------------------------------------
\* What verifyChain accepts.  Rows with distinct sequence numbers, each of
\* which has its predecessor, are exactly those numbered 0, 1, 2, ...
Follows(r, p) == p.seq = r.seq - 1 /\ p.hash = r.prevHash
verifyChain ==
  /\ \A r, s \in audit : r.seq = s.seq => r = s
  /\ \A r \in audit :
       /\ r.seq \in Nat
       /\ r.hash = hashEntry(r.seq, r.prevHash, r.entry)
       /\ IF r.seq = 0 THEN r.prevHash = NoHash
          ELSE \E p \in audit : Follows(r, p)

\* However many writers append at once, with whatever rows in hand, the chain
\* verifies: none of them ever forks it or leaves a gap (audit-log.ts:40).
ChainVerifies == verifyChain

=============================================================================
