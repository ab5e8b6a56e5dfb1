------------------------------ MODULE Requests ------------------------------
(***************************************************************************)
(* Request handlers of the server (Fastify, services/app/src/server.ts).   *)
(* A handler is suspended at every await; a step of another may come in    *)
(* between.  req[q] is what request q still has in hand: "at", the await   *)
(* it is suspended at, and the values it read before.  A request makes the *)
(* one call its plan says.  A statement that fails, or a restart, ends the *)
(* handler where it stands: nothing is rolled back.                        *)
(***************************************************************************)
EXTENDS Naturals, TLC

CONSTANTS
  Reqs,
  Plans    \* bound: which calls are made, one of these functions of Reqs

VARIABLE req

Planned(plan) == [q \in Reqs |-> [at |-> "new", call |-> plan[q]]]

At(q, place) == req[q].at = place
Called(q, call) == At(q, "new") /\ req[q].call = call

\* The handler is called; rec says where it first waits and what it holds.
Enter(q, call, rec) == Called(q, call) /\ req' = [req EXCEPT ![q] = rec]

Goto(q, place) == req' = [req EXCEPT ![q].at = place]

\* The one row v at k; f with v at k.
Just(k, v) == [x \in {k} |-> v]
Put(f, k, v) == [x \in DOMAIN f \cup {k} |-> IF x = k THEN v ELSE f[x]]
\* On conflict do nothing.
Inserted(f, k, v) == IF k \in DOMAIN f THEN f ELSE Put(f, k, v)

\* The values read so far are kept, those of rec are added.
Extended(held, place, rec) ==
  [x \in DOMAIN held \cup DOMAIN rec |->
     IF x \in DOMAIN rec THEN rec[x] ELSE IF x = "at" THEN place ELSE held[x]]
GotoWith(q, place, rec) == req' = [req EXCEPT ![q] = Extended(@, place, rec)]

Return(q) == req' = [req EXCEPT ![q] = [at |-> "done"]]

Busy(q) == req[q].at \notin {"new", "done", "dead"}

\* A restart: whatever was under way ends where it stands.
DieAll == req' = [q \in Reqs |-> IF Busy(q) THEN [req[q] EXCEPT !.at = "dead"] ELSE req[q]]

Die(q) == Busy(q) /\ req' = [req EXCEPT ![q].at = "dead"]

=============================================================================
