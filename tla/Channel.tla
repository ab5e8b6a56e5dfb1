------------------------------- MODULE Channel -------------------------------
(***************************************************************************)
(* A thread as one person sees it: the messages table and the NOTIFY bus   *)
(* (app/src/chat, realtime, db/client.ts) and the web client that shows it *)
(* (web/src/useThreadStream.ts, App.tsx, Composer.tsx).  A call of the     *)
(* client is sent, served and answered in three steps; calls overtake each *)
(* other, and any of them may fail.                                        *)
(*                                                                         *)
(* A message is its place in the table.  Times are Postgres's microseconds,*)
(* PerMs of them to the millisecond a JavaScript Date keeps.               *)
(***************************************************************************)
EXTENDS SequencesExt

CONSTANTS
  Threads,
  First,        \* the thread open at the start
  Words,        \* what the person types
  Page,         \* DEFAULT_LIMIT
  PerMs,        \* bound: microseconds in a millisecond
  Gaps,         \* bound: microseconds from one message to the next
  MaxMessages,  \* bound: messages of the table
  MaxCalls,     \* bound: calls of the client in flight
  MaxMoves,     \* bound: what the person does
  MaxUpsets     \* bound: calls and pushes that fail, sockets that drop

ASSUME ChannelAssumption ==
  /\ Page \in Nat \ {0} /\ PerMs \in Nat \ {0} /\ First \in Threads
  /\ Gaps \subseteq Nat \ {0}
  /\ MaxMessages \in Nat /\ MaxCalls \in Nat

VARIABLES
  messages,  \* the table, in the order of created_at
  activeThreadId,
  shown,     \* the messages on screen, in the order they were appended
  seen,      \* the ids append() remembers
  socket,    \* the socket of the open thread: "opening", "on" or "off"
  frames,    \* pushed on it, not yet delivered
  text,      \* what the composer holds
  calls,     \* the calls of the client in flight
  moves, upsets

channelVars == <<messages, activeThreadId, shown, seen, socket, frames, text,
                 calls, moves, upsets>>

Ids == 1..MaxMessages
Row == [thread : Threads, at : Nat, large : BOOLEAN, words : SUBSET Words]

Now == IF messages = <<>> THEN PerMs ELSE Last(messages).at
\* What a Date keeps of a timestamp.
AsDate(at) == (at \div PerMs) * PerMs

-----------------------------------------------------------------------------
(* The table. *)

IdsOf(t) == {id \in DOMAIN messages : messages[id].thread = t}
\* In the order of the table; the code orders those of one millisecond by id.
Ascending(ids) ==
  CHOOSE s \in [1..Cardinality(ids) -> ids] : \A i, j \in DOMAIN s : i < j => s[i] < s[j]
Newest(ids, limit) ==
  LET s == Ascending(ids) IN SubSeq(s, IF Len(s) > limit THEN Len(s) - limit + 1 ELSE 1, Len(s))
Oldest(ids, limit) == LET s == Ascending(ids) IN SubSeq(s, 1, IF Len(s) < limit THEN Len(s) ELSE limit)

\* No cursor: the newest page, in ascending order.
listMessages(t, limit) == Newest(IdsOf(t), limit)

\* The row's created_at is compared with the cursor's as a Date; a row is never equal
\* to it and of another id, for no two rows have the same created_at.
Newer(t, cursor) ==
  {id \in IdsOf(t) : messages[id].at > AsDate(messages[cursor].at)}
Older(t, cursor) ==
  {id \in IdsOf(t) : \/ messages[id].at < AsDate(messages[cursor].at)
                     \/ messages[id].at = AsDate(messages[cursor].at) /\ id < cursor}
listAfter(t, cursor, limit) == Oldest(Newer(t, cursor), limit)
listBefore(t, cursor, limit) == Newest(Older(t, cursor), limit)

\* Each insert is a transaction of its own, at a later time than the last.
createMessage(t, large, words) ==
  \E gap \in Gaps :
    messages' = Append(messages, [thread |-> t, at |-> Now + gap, large |-> large, words |-> words])

Upset == upsets < MaxUpsets /\ upsets' = upsets + 1

\* The broadcast of a message too big for NOTIFY goes without its metadata.  It
\* reaches the socket if that listens to the thread; a failed one is only logged.
notify(t, large) ==
  \/ /\ frames' = IF socket = "on" /\ t = activeThreadId
                  THEN Append(frames, [id |-> Len(messages) + 1, whole |-> ~large]) ELSE frames
     /\ UNCHANGED upsets
  \/ Upset /\ UNCHANGED frames

\* Somebody else posts, or an agent's run does.
OthersPost(t, large) ==
  /\ Len(messages) < MaxMessages
  /\ createMessage(t, large, {}) /\ notify(t, large)
  /\ UNCHANGED <<activeThreadId, shown, seen, socket, text, calls, moves>>

-----------------------------------------------------------------------------
(* The client. *)

Call(what, t) == [what |-> what, thread |-> t, served |-> FALSE, result |-> <<>>]
Move == moves < MaxMoves /\ moves' = moves + 1
Room == Cardinality(calls) < MaxCalls

\* Those of more that are not seen yet, in their order.
Unseen(more) ==
  LET places == Ascending({i \in DOMAIN more : more[i].id \notin seen})
  IN  [j \in DOMAIN places |-> more[places[j]]]

\* Mutant: what the socket brings is shown without being remembered.
append_Forgets(more) ==
  LET new == Unseen(more)
  IN  shown' = shown \o new /\ seen' = seen \cup {new[i].id : i \in {j \in DOMAIN new : new[j].whole}}

\* append(): by id, once.
append(more) ==
  LET new == Unseen(more)
  IN  shown' = shown \o new /\ seen' = seen \cup {new[i].id : i \in DOMAIN new}

\* The hook's effect: the list is emptied, history asked for and a socket opened.  What
\* the old effect still waits for is ignored (cancelled), a refetch of it is not.
Restart(t) ==
  /\ activeThreadId' = t /\ shown' = <<>> /\ seen' = {} /\ socket' = "opening" /\ frames' = <<>>
  /\ calls' = {c \in calls : c.what # "list"} \cup {Call("list", t)}

selectThread(t) ==
  /\ Move /\ Room /\ t # activeThreadId
  /\ Restart(t)
  /\ UNCHANGED <<messages, text, upsets>>

\* The ticket arrived and the socket is subscribed.
SocketOpens ==
  /\ socket = "opening" /\ socket' = "on"
  /\ UNCHANGED <<messages, activeThreadId, shown, seen, frames, text, calls, moves, upsets>>

\* It is never opened again for the same thread.
SocketDrops ==
  /\ socket \in {"opening", "on"} /\ Upset /\ socket' = "off" /\ frames' = <<>>
  /\ UNCHANGED <<messages, activeThreadId, shown, seen, text, calls, moves>>

\* ws.onmessage.
Frame ==
  /\ frames # <<>>
  /\ append(<<Head(frames)>>) /\ frames' = Tail(frames)
  /\ UNCHANGED <<messages, activeThreadId, socket, text, calls, moves, upsets>>

\* Mutant: the poll rests while the socket is up.
Poll_OnlyWithoutSocket ==
  /\ Room /\ Call("list", activeThreadId) \notin calls /\ socket # "on"
  /\ calls' = calls \cup {Call("list", activeThreadId)}
  /\ UNCHANGED <<messages, activeThreadId, shown, seen, socket, frames, text, moves, upsets>>

\* Every 2.5 s while the tab is visible.
Poll ==
  /\ Room /\ Call("list", activeThreadId) \notin calls
  /\ calls' = calls \cup {Call("list", activeThreadId)}
  /\ UNCHANGED <<messages, activeThreadId, shown, seen, socket, frames, text, moves, upsets>>

\* The box may be typed in while a message is on its way.
Type(w) ==
  /\ w \notin text /\ text' = text \cup {w}
  /\ \A id \in DOMAIN messages : w \notin messages[id].words
  /\ UNCHANGED <<messages, activeThreadId, shown, seen, socket, frames, calls, moves, upsets>>

sending == \E c \in calls : c.what = "post"
submit ==
  /\ Move /\ Room /\ text # {} /\ ~sending
  /\ calls' = calls \cup {[Call("post", activeThreadId) EXCEPT !.result = text]}
  /\ UNCHANGED <<messages, activeThreadId, shown, seen, socket, frames, text, upsets>>

\* The approve, decline, sync and restore buttons end in a refetch too.
refetch ==
  /\ Move /\ Room /\ Call("refetch", activeThreadId) \notin calls
  /\ calls' = calls \cup {Call("refetch", activeThreadId)}
  /\ UNCHANGED <<messages, activeThreadId, shown, seen, socket, frames, text, upsets>>

-----------------------------------------------------------------------------
(* A call is served, answered, or fails. *)

Served(c, result) == calls' = (calls \ {c}) \cup {[c EXCEPT !.served = TRUE, !.result = result]}
InFull(ids) == [i \in DOMAIN ids |-> [id |-> ids[i], whole |-> TRUE]]

ServeList(c) ==
  /\ c.what \in {"list", "refetch"} /\ Served(c, InFull(listMessages(c.thread, Page)))
  /\ UNCHANGED <<messages, frames, upsets>>
ServePost(c) ==
  /\ c.what = "post" /\ Len(messages) < MaxMessages /\ Served(c, c.result)
  /\ createMessage(c.thread, FALSE, c.result) /\ notify(c.thread, FALSE)
Serve(c) ==
  /\ ~c.served
  /\ ServeList(c) \/ ServePost(c)
  /\ UNCHANGED <<activeThreadId, shown, seen, socket, text, moves>>

Then(c, next) == calls' = (calls \ {c}) \cup next

AnswerList(c) ==
  /\ c.what \in {"list", "refetch"} /\ append(c.result) /\ Then(c, {}) /\ UNCHANGED text
\* The box is cleared once the message is sent, and the thread it went to asked again.
AnswerPost(c) ==
  /\ c.what = "post" /\ text' = {} /\ Then(c, {Call("refetch", c.thread)})
  /\ UNCHANGED <<shown, seen>>
Answer(c) ==
  /\ c.served
  /\ AnswerList(c) \/ AnswerPost(c)
  /\ UNCHANGED <<messages, activeThreadId, socket, frames, moves, upsets>>

\* Lost on the way or on the way back: caught, and nothing changes but the error shown.
Fail(c) ==
  /\ Upset /\ Then(c, {})
  /\ UNCHANGED <<messages, activeThreadId, shown, seen, socket, frames, text, moves>>

-----------------------------------------------------------------------------
ChannelInit ==
  /\ messages = <<>> /\ shown = <<>> /\ seen = {}
  /\ activeThreadId = First /\ socket = "opening" /\ frames = <<>> /\ text = {}
  /\ calls = {Call("list", activeThreadId)} /\ moves = 0 /\ upsets = 0

Client == SocketOpens \/ SocketDrops \/ Frame \/ Poll \/ submit \/ refetch
          \/ (\E t \in Threads : selectThread(t)) \/ (\E w \in Words : Type(w))
Network == \E c \in calls : Serve(c) \/ Answer(c) \/ Fail(c)

ChannelNext == Client \/ Network \/ \E t \in Threads, large \in BOOLEAN : OthersPost(t, large)

\* The timer fires, the server answers and the browser delivers.
ChannelFairness ==
  /\ WF_channelVars(Poll) /\ WF_channelVars(Frame)
  /\ WF_channelVars(\E c \in calls : Serve(c)) /\ WF_channelVars(\E c \in calls : Answer(c))

Spec == ChannelInit /\ [][ChannelNext]_channelVars /\ ChannelFairness

-----------------------------------------------------------------------------
ChannelTypeOK ==
  /\ messages \in Seq(Row) /\ Len(messages) <= MaxMessages
  /\ \A i \in 1..(Len(messages) - 1) : messages[i].at < messages[i + 1].at
  /\ activeThreadId \in Threads
  /\ seen = {shown[i].id : i \in DOMAIN shown} /\ seen \subseteq Ids
  /\ socket \in {"opening", "on", "off"} /\ \A i \in DOMAIN frames : frames[i].id \in Ids
  /\ text \subseteq Words
  /\ \A c \in calls : c.what \in {"list", "refetch", "post"} /\ c.thread \in Threads

\* "append() dedupes by id, so this never double-renders" (useThreadStream.ts): whatever
\* of push, poll, refetch and thread switch comes in between, a message is on screen once.
NeverDoubleRenders == \A i, j \in DOMAIN shown : shown[i].id = shown[j].id => i = j

\* A submitted message is never dropped silently (Composer.tsx, #123): it is in the table,
\* on its way, or still in the box.
SubmittedIsKept ==
  \A c \in calls : c.what = "post" =>
    \/ c.result \subseteq text
    \/ \E id \in DOMAIN messages : messages[id].words = c.result

\* What is on the screen and in the box is neither doubled nor lost.
ScreenSound == ChannelTypeOK /\ NeverDoubleRenders /\ SubmittedIsKept

\* The poll makes up for a push that was missed (#144): a message of the open thread is
\* shown, unless the person leaves or a page of newer ones came first.
EventuallyShown ==
  \A id \in Ids, t \in Threads :
    (activeThreadId = t /\ id \in IdsOf(t)) ~>
      (activeThreadId # t \/ id \in seen \/ ~Contains(listMessages(t, Page), id))

\* "after=<id>: the limit messages strictly NEWER than that id" (messages.ts).
CursorIsStrict ==
  \A t \in Threads : \A id \in IdsOf(t) : ~Contains(listAfter(t, id, Page), id)

\* "The client refetches full detail on demand" (db/client.ts): a message pushed without
\* its metadata is shown in full before long, unless the person leaves.
ShownInFull ==
  \A id \in Ids, t \in Threads :
    (activeThreadId = t /\ [id |-> id, whole |-> FALSE] \in ToSet(shown)) ~>
      (activeThreadId # t \/ [id |-> id, whole |-> TRUE] \in ToSet(shown))

=============================================================================
