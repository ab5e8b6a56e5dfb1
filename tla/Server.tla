------------------------------- MODULE Server -------------------------------
(***************************************************************************)
(* The server (services/app/src/server.ts): the doors, the rooms, the      *)
(* roster, the memory and the businesses of an org are routes of one       *)
(* process.  A request of any of them may come between two statements of   *)
(* another; a restart ends all of them at once and takes what was only in  *)
(* the process, or in its temporary directory.                             *)
(***************************************************************************)
EXTENDS Access, Rooms, Roster, Memory, Ventures

ServerInit ==
  /\ AccessInit /\ RoomsInit /\ RosterInit /\ MemoryInit /\ VenturesInit
  /\ \E plan \in Plans : req = Planned(plan)

Handler(q) ==
  \/ AccessHandler(q) /\ UNCHANGED <<roomsVars, rosterVars, memoryVars, ventureVars>>
  \/ RoomsHandler(q) /\ UNCHANGED <<accessVars, rosterVars, memoryVars, ventureVars>>
  \/ RosterHandler(q) /\ UNCHANGED <<accessVars, roomsVars, memoryVars, ventureVars>>
  \/ MemoryRoutes(q) /\ UNCHANGED <<accessVars, roomsVars, rosterVars, ventureVars>>
  \/ BusinessRoutes(q) /\ UNCHANGED <<accessVars, roomsVars, rosterVars, memoryVars>>

TimePasses ==
  /\ NextWindow \/ \E token \in Tokens : Expire(token)
  /\ UNCHANGED <<roomsVars, rosterVars, memoryVars, ventureVars>>

ServerRestarts ==
  /\ Restart /\ LoseStorage
  /\ UNCHANGED <<channel, thread, note, file, whole, message, readAt, rows,
                 rosterVars, memoryVars, ventureVars>>

ServerNext == (\E q \in Reqs : Handler(q)) \/ TimePasses \/ ServerRestarts

vars == <<req, accessVars, roomsVars, rosterVars, memoryVars, ventureVars>>
Spec == ServerInit /\ [][ServerNext]_vars

=============================================================================
