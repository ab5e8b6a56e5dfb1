------------------------------ MODULE MCWorks -------------------------------
(***************************************************************************)
(* A small instance of Works for TLC: three requests that can meet.        *)
(* "nothing" is a request that is not made.                                *)
(***************************************************************************)
EXTENDS Works

CONSTANTS q1, q2, q3, r1, i1, i2, c1, u1, u2, ads, story

Calls(x, y, z) == q1 :> x @@ q2 :> y @@ q3 :> z

\* Ticks, scans and outcomes that overlap or follow each other, with an automation
\* made, switched or dropped under their hands; reports, deliveries and imports that
\* come twice; deploys and motions at once.
Days ==
  {Calls("addAutomation", "tick", "tick"), Calls("addAutomation", "outcomes", "tick"),
   Calls("addAutomation", "switch", "tick"), Calls("addAutomation", "dropAutomation", "tick"),
   Calls("tick", "scan", "tick"), Calls("report", "report", "logs"),
   Calls("webhook", "import", "webhook"), Calls("fromPr", "fromPr", "sync"),
   Calls("sync", "sync", "nothing"), Calls("gtm", "gtm", "nothing"),
   Calls("deploy", "deploy", "nothing"), Calls("deploy", "deployCommand", "nothing")}

TheFates ==
  {[state |-> "checks_failed", fixes |-> 2, aged |-> FALSE],
   [state |-> "held_for_human", fixes |-> 0, aged |-> TRUE],
   [state |-> "held_for_human", fixes |-> 0, aged |-> FALSE]}

=============================================================================
