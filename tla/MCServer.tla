------------------------------ MODULE MCServer ------------------------------
(***************************************************************************)
(* A small instance of Server for TLC: three requests of every kind that   *)
(* can meet.                                                               *)
(***************************************************************************)
EXTENDS Server

CONSTANTS m1, m2, m3, q1, q2, q3, bot, w1, w2, i1, i2, t1, t2, old, ann, ben

Calls(x, y, z) == q1 :> x @@ q2 :> y @@ q3 :> z

\* A login, by password and by link, while MFA is set up or taken away; a ticket
\* and a key used twice; an invite accepted, revoked and accepted again; two
\* people new to Google.
Doors ==
  {Calls("login", "enroll", "confirm"), Calls("login", "disable", "login"),
   Calls("requestLink", "verifyLink", "disable"), Calls("requestLink", "verifyLink", "verifyLink"),
   Calls("ticket", "socket", "socket"), Calls("ticket", "socket", "logout"),
   Calls("invite", "accept", "accept"), Calls("invite", "accept", "revokeInvite"),
   Calls("issueKey", "invite", "revokeKey"), Calls("google", "google", "team"),
   Calls("issueKey", "revokeInvite", "team"), Calls("invite", "issueKey", "revokeInvite"),
   Calls("login", "revokeSessions", "invite"), Calls("enroll", "confirm", "disable")}

\* A file uploaded twice and attached; two DMs with one peer; a note edited, and
\* deleted, under somebody's hands; markers, recaps and posts.
Talk ==
  {Calls("file", "put", "put"), Calls("file", "put", "attach"), Calls("dm", "dm", "attach"),
   Calls("channel", "archive", "thread"), Calls("note", "editNote", "editNote"),
   Calls("note", "editNote", "dropNote"), Calls("attach", "read", "read"),
   Calls("attach", "recap", "read")}

\* Agents up to the limit; assistants of two workspaces; preferences, skills,
\* outcomes, repos and issues from two sides.
Work ==
  {Calls("agent", "agent", "assistant"), Calls("assistant", "assistant", "config"),
   Calls("agent", "config", "config"), Calls("skill", "optimise", "nothing"),
   Calls("optimise", "optimise", "nothing"), Calls("outcome", "outcome", "nothing"),
   Calls("connect", "connect", "nothing"), Calls("ingest", "ingest", "nothing"),
   Calls("tool", "publish", "dropTool"), Calls("agent", "share", "share")}

Recall ==
  {Calls("remember", "derive", "derive"), Calls("remember", "dream", "dream"),
   Calls("supersede", "supersede", "status"), Calls("remember", "contradict", "status"),
   Calls("supersede", "supersede", "derive"), Calls("remember", "remember", "dream")}

\* Books that change while the portfolio is rebalanced, twice, around a spawn; a
\* campaign approved and declined at once, and booked; tickets resolved twice.
Trade ==
  {Calls("spawn", "line", "rebalance"), Calls("line", "rebalance", "rebalance"),
   Calls("decide", "rebalance", "nothing"), Calls("decide", "decide", "nothing"),
   Calls("campaign", "decide", "nothing"), Calls("complain", "resolve", "resolve")}

Mailing == <<ann, ben>>

Everything == Doors \cup Talk \cup Work \cup Recall \cup Trade

=============================================================================
