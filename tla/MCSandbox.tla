----------------------------- MODULE MCSandbox ------------------------------
(***************************************************************************)
(* A small instance of Sandbox for TLC: an agent with an authorized server *)
(* and one without, a fake one, and an exec or an agent whose output has a *)
(* line longer than the scanner takes.                                     *)
(***************************************************************************)
EXTENDS Sandbox

CONSTANTS q1, q2, q3

Calls(x, y, z) == q1 :> x @@ q2 :> y @@ q3 :> z
Body(adapter, mcp, branch, longLine) ==
  [url |-> "https", text |-> "do it", model |-> "", adapter |-> adapter, mcp |-> mcp,
   branch |-> branch, longLine |-> longLine]
Some == {Body("claude-code", {"git"}, "b", FALSE), Body("fake", {"github"}, "b", FALSE), Body("claude-code", {}, "-flag", TRUE)}
Jobs == {Calls("run", "run", "feedback"), Calls("run", "feedback", "feedback"), Calls("plan", "exec", "run")}
=============================================================================
