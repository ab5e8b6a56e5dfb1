---------------------------- MODULE ChannelProofs ----------------------------
(***************************************************************************)
(* What one person sees of a thread is neither doubled nor lost, for any   *)
(* threads, messages, pages, calls and failures.                           *)
(*                                                                         *)
(* The proof first shows what Ascending returns: a set of numbers can be   *)
(* put in ascending order, by induction over its bound.  The induction is  *)
(* over a set of numbers, the form the provers can use.                    *)
(***************************************************************************)
EXTENDS Channel, FiniteSetTheorems, WellFoundedInduction, TLAPS

LEMMA SetInduction ==
  ASSUME NEW S, 0 \in S, \A n \in Nat : n \in S => n + 1 \in S
  PROVE  Nat \subseteq S
<1> SUFFICES ASSUME Nat \ S # {} PROVE FALSE
  OBVIOUS
<1> DEFINE R == OpToRel(<, Nat)
<1>1. IsWellFoundedOn(R, Nat)
  BY NatLessThanWellFounded
<1>2. \E x \in Nat \ S : \A y \in Nat \ S : <<y, x>> \notin R
  <2> HIDE DEF R
  <2> QED BY <1>1, WFMin
<1>3. PICK x \in Nat \ S : \A y \in Nat \ S : ~(y < x)
  BY <1>2 DEF OpToRel
<1>4. x # 0 /\ x - 1 \in Nat /\ x - 1 < x /\ x = (x - 1) + 1
  BY <1>3
<1>5. x - 1 \in S
  BY <1>3, <1>4
<1> QED BY <1>3, <1>4, <1>5

LEMMA Bounded ==
  ASSUME NEW m \in Nat, NEW ids \in SUBSET (1..m)
  PROVE  IsFiniteSet(ids) /\ Cardinality(ids) \in Nat
<1>1. IsFiniteSet(1..m)
  BY FS_Interval
<1>2. IsFiniteSet(ids)
  BY <1>1, FS_Subset
<1> QED BY <1>2, FS_CardinalityType

Rising(s) == \A i, j \in DOMAIN s : i < j => s[i] < s[j]
Orders(ids) == {s \in [1..Cardinality(ids) -> ids] : Rising(s)}

LEMMA CanBeOrdered ==
  ASSUME NEW m \in Nat, NEW ids \in SUBSET (1..m)
  PROVE  Orders(ids) # {}
<1> DEFINE S == {n \in Nat : \A X \in SUBSET (1..n) : Orders(X) # {}}
<1>1. 0 \in S
  <2> SUFFICES ASSUME NEW X \in SUBSET (1..0) PROVE Orders(X) # {}
    OBVIOUS
  <2>1. X = {}
    OBVIOUS
  <2>2. [i \in 1..0 |-> i] \in Orders(X)
    BY <2>1, FS_EmptySet DEF Orders, Rising
  <2> QED BY <2>2
<1>2. ASSUME NEW n \in Nat, n \in S PROVE n + 1 \in S
  <2> SUFFICES ASSUME NEW X \in SUBSET (1..(n + 1)) PROVE Orders(X) # {}
    OBVIOUS
  <2>1. CASE n + 1 \notin X
    <3>1. X \in SUBSET (1..n)
      BY <2>1
    <3> QED BY <1>2, <3>1
  <2>2. CASE n + 1 \in X
    <3> DEFINE Y == X \ {n + 1}
    <3>1. Y \in SUBSET (1..n)
      OBVIOUS
    <3>2. PICK s \in [1..Cardinality(Y) -> Y] : Rising(s)
      BY <1>2, <3>1 DEF Orders
    <3>3. IsFiniteSet(X) /\ Cardinality(X) \in Nat /\ Cardinality(Y) = Cardinality(X) - 1
      <4>1. n + 1 \in Nat
        OBVIOUS
      <4>2. IsFiniteSet(X) /\ Cardinality(X) \in Nat
        BY <4>1, Bounded
      <4> QED BY <2>2, <4>2, FS_RemoveElement
    <3>4. Cardinality(Y) \in Nat
      BY <3>1, Bounded
    <3> DEFINE c == Cardinality(X)
               t == [i \in 1..c |-> IF i = c THEN n + 1 ELSE s[i]]
    <3> HIDE DEF Y
    <3>5. c \in Nat /\ s \in [1..(c - 1) -> Y] /\ Y \subseteq X /\ Y \subseteq 1..n
      BY <3>2, <3>3, <3>1 DEF Y
    <3> HIDE DEF c
    <3>6. t \in [1..c -> X]
      <4>1. ASSUME NEW i \in 1..c, i # c PROVE s[i] \in X
        <5>1. i \in 1..(c - 1)
          BY <3>5, <4>1
        <5> QED BY <3>5, <5>1
      <4> QED BY <2>2, <4>1
    <3>7. ASSUME NEW i \in 1..c, NEW j \in 1..c, i < j PROVE t[i] < t[j]
      <4>1. i \in 1..(c - 1) /\ i # c
        BY <3>5, <3>7
      <4>2. s[i] \in 1..n
        BY <3>5, <4>1
      <4>3. t[i] = s[i] /\ (j = c => t[j] = n + 1)
        BY <4>1
      <4>4. CASE j = c
        BY <4>2, <4>3, <4>4
      <4>5. CASE j # c
        <5>1. j \in 1..(c - 1) /\ DOMAIN s = 1..(c - 1)
          BY <3>5, <4>5
        <5>2. s[i] < s[j] /\ t[j] = s[j]
          BY <3>2, <3>7, <4>1, <4>5, <5>1 DEF Rising
        <5> QED BY <4>3, <5>2
      <4> QED BY <4>4, <4>5
    <3> HIDE DEF t
    <3>8. Rising(t)
      BY <3>6, <3>7 DEF Rising
    <3> QED BY <3>6, <3>8 DEF Orders, c
  <2> QED BY <2>1, <2>2
<1> HIDE DEF S
<1>3. Nat \subseteq S
  BY <1>1, <1>2, SetInduction
<1> QED BY <1>3 DEF S

\* A sequence that names nothing twice.
Once(s) == \A i, j \in DOMAIN s : s[i] = s[j] => i = j

LEMMA AscendingIs ==
  ASSUME NEW m \in Nat, NEW ids \in SUBSET (1..m)
  PROVE  Ascending(ids) \in Seq(ids) /\ Once(Ascending(ids))
<1>1. Ascending(ids) \in Orders(ids)
  BY CanBeOrdered DEF Ascending, Orders, Rising
<1>2. IsFiniteSet(ids) /\ Cardinality(ids) \in Nat
  BY Bounded
<1> DEFINE s == Ascending(ids)
           k == Cardinality(ids)
<1>3. k \in Nat /\ s \in [1..k -> ids] /\ \A i, j \in 1..k : i < j => s[i] < s[j]
  BY <1>1, <1>2 DEF Orders, Rising
<1> HIDE DEF s, k
<1>4. s \in Seq(ids) /\ DOMAIN s = 1..k /\ \A i \in 1..k : s[i] \in Nat
  <2>1. \A i \in 1..k : s[i] \in ids
    BY <1>3
  <2>2. \A n \in ids : n \in Nat
    OBVIOUS
  <2>3. s \in Seq(ids)
    BY <1>3, <2>1
  <2> QED BY <1>3, <2>1, <2>2, <2>3
<1>5. Once(s)
  BY <1>3, <1>4 DEF Once
<1> QED BY <1>4, <1>5 DEF s

-----------------------------------------------------------------------------
Item == [id : Ids, whole : BOOLEAN]
NamesOnce(list) == \A i, j \in DOMAIN list : list[i].id = list[j].id => i = j
ItemsOf(list) == {list[i].id : i \in DOMAIN list}

\* A served list names no message twice; a post is in the box until it is in the table.
InFlight(c, table, box) ==
  /\ DOMAIN c = {"what", "thread", "served", "result"}
  /\ c.what \in {"list", "refetch", "post"} /\ c.thread \in Threads
  /\ c.what # "post" /\ c.served => c.result \in Seq(Item) /\ NamesOnce(c.result)
  /\ c.what = "post" =>
       /\ c.result \subseteq Words
       /\ IF c.served THEN \E id \in DOMAIN table : table[id].words = c.result
                      ELSE c.result \subseteq box

Screen ==
  /\ shown \in Seq(Item) /\ NamesOnce(shown) /\ seen = ItemsOf(shown)
  /\ frames \in Seq(Item)
Table ==
  /\ messages \in Seq(Row) /\ Len(messages) <= MaxMessages
  /\ \A i \in 1..(Len(messages) - 1) : messages[i].at < messages[i + 1].at
\* One message at a time is on its way.
Calls ==
  /\ \A c \in calls : InFlight(c, messages, text)
  /\ \A c, d \in calls : c.what = "post" /\ d.what = "post" => c = d
Open ==
  activeThreadId \in Threads /\ socket \in {"opening", "on", "off"} /\ text \subseteq Words
ChannelInv == Screen /\ Table /\ Calls /\ Open

\* A page is a sequence of messages of the thread, each once.
LEMMA PageIs ==
  ASSUME Table, NEW t
  PROVE  /\ InFull(listMessages(t, Page)) \in Seq(Item)
         /\ NamesOnce(InFull(listMessages(t, Page)))
<1> DEFINE s == Ascending(IdsOf(t))
           page == listMessages(t, Page)
<1>1. IdsOf(t) \in SUBSET (1..MaxMessages) /\ MaxMessages \in Nat /\ Page \in Nat \ {0}
  BY ChannelAssumption DEF Table, IdsOf
<1>2. s \in Seq(Ids) /\ Once(s)
  <2>1. s \in Seq(IdsOf(t)) /\ Once(s)
    BY <1>1, AscendingIs
  <2> QED BY <1>1, <2>1 DEF Ids
<1>3. page = SubSeq(s, IF Len(s) > Page THEN Len(s) - Page + 1 ELSE 1, Len(s))
  BY DEF listMessages, Newest
<1> HIDE DEF s, page
<1>4. page \in Seq(Ids) /\ Once(page)
  <2>1. CASE Len(s) > Page
    BY <1>1, <1>2, <1>3, <2>1 DEF Once
  <2>2. CASE ~(Len(s) > Page)
    BY <1>1, <1>2, <1>3, <2>2 DEF Once
  <2> QED BY <2>1, <2>2
<1> DEFINE full == [i \in DOMAIN page |-> [id |-> page[i], whole |-> TRUE]]
<1>5. \A i \in DOMAIN page : page[i] \in Ids /\ full[i] \in Item /\ full[i].id = page[i]
  BY <1>4 DEF Item
<1>6. full \in Seq(Item) /\ DOMAIN full = DOMAIN page
  <2> HIDE DEF Item
  <2>1. Len(page) \in Nat /\ DOMAIN page = 1..Len(page)
    BY <1>4
  <2> QED BY <1>5, <2>1
<1>7. NamesOnce(full)
  BY <1>4, <1>5, <1>6 DEF NamesOnce, Once
<1> QED BY <1>6, <1>7 DEF page, InFull

\* What is not seen yet is shown, each message once.
LEMMA AppendKeeps ==
  ASSUME Screen, NEW more \in Seq(Item), NamesOnce(more), append(more)
  PROVE  shown' \in Seq(Item) /\ NamesOnce(shown') /\ seen' = ItemsOf(shown')
<1> DEFINE ids == {i \in DOMAIN more : more[i].id \notin seen}
           places == Ascending(ids)
           new == Unseen(more)
<1>1. places \in Seq(ids) /\ Once(places)
  <2>1. ids \in SUBSET (1..Len(more)) /\ Len(more) \in Nat
    OBVIOUS
  <2> HIDE DEF ids
  <2> QED BY <2>1, AscendingIs
<1>2. new = [j \in DOMAIN places |-> more[places[j]]]
  BY DEF Unseen
<1> HIDE DEF places, new
<1>3. new \in Seq(Item) /\ NamesOnce(new) /\ ItemsOf(new) \cap seen = {}
  BY <1>1, <1>2 DEF NamesOnce, Once, ItemsOf
<1>4. shown' = shown \o new /\ seen' = seen \cup ItemsOf(new)
  BY DEF append, new, ItemsOf
<1> HIDE DEF Item
<1>5. shown \in Seq(Item) /\ new \in Seq(Item) /\ seen = ItemsOf(shown)
  BY <1>3 DEF Screen
<1> DEFINE l == Len(shown)
           k == Len(new)
<1>6. /\ shown' \in Seq(Item) /\ l \in Nat /\ k \in Nat
      /\ DOMAIN shown = 1..l /\ DOMAIN new = 1..k /\ DOMAIN shown' = 1..(l + k)
      /\ \A i \in 1..l : shown'[i] = shown[i]
      /\ \A i \in 1..k : shown'[l + i] = new[i]
  BY <1>4, <1>5
<1> HIDE DEF l, k
<1>7. \A i \in 1..(l + k) : i \in 1..l \/ (i - l \in 1..k /\ shown'[i] = new[i - l])
  <2>1. ASSUME NEW i \in 1..(l + k), i \notin 1..l PROVE i - l \in 1..k /\ i = l + (i - l)
    BY <1>6, <2>1
  <2> QED BY <1>6, <2>1
<1>8. ItemsOf(shown') = ItemsOf(shown) \cup ItemsOf(new)
  <2>1. \A i \in 1..l : i \in 1..(l + k)
    BY <1>6
  <2>2. \A i \in 1..k : l + i \in 1..(l + k)
    BY <1>6
  <2>3. ItemsOf(shown') \subseteq ItemsOf(shown) \cup ItemsOf(new)
    BY <1>6, <1>7 DEF ItemsOf
  <2>4. ItemsOf(shown) \subseteq ItemsOf(shown')
    BY <1>6, <2>1 DEF ItemsOf
  <2>5. ItemsOf(new) \subseteq ItemsOf(shown')
    <3> SUFFICES ASSUME NEW i \in 1..k PROVE new[i].id \in ItemsOf(shown')
      BY <1>6 DEF ItemsOf
    <3>1. l + i \in DOMAIN shown' /\ shown'[l + i] = new[i]
      BY <1>6, <2>2
    <3> QED BY <3>1 DEF ItemsOf
  <2> QED BY <2>3, <2>4, <2>5
<1>9. ASSUME NEW i \in 1..(l + k), NEW j \in 1..(l + k), shown'[i].id = shown'[j].id
      PROVE  i = j
  <2>1. CASE i \in 1..l /\ j \in 1..l
    BY <1>6, <1>9, <2>1 DEF Screen, NamesOnce
  <2>2. CASE i \notin 1..l /\ j \notin 1..l
    <3>1. /\ i - l \in DOMAIN new /\ shown'[i] = new[i - l]
          /\ j - l \in DOMAIN new /\ shown'[j] = new[j - l]
      BY <1>6, <1>7, <2>2
    <3>2. i - l = j - l
      BY <1>3, <1>9, <3>1 DEF NamesOnce
    <3> QED BY <1>6, <3>2
  <2>3. ASSUME NEW a \in 1..l, NEW b \in 1..k, shown[a].id = new[b].id PROVE FALSE
    BY <1>3, <1>5, <1>6, <2>3 DEF ItemsOf
  <2> QED BY <1>6, <1>7, <1>9, <2>1, <2>2, <2>3
<1>10. NamesOnce(shown')
  BY <1>6, <1>9 DEF NamesOnce
<1> QED BY <1>4, <1>5, <1>6, <1>8, <1>10

\* A message is added at the end, later than all.
LEMMA CreateKeeps ==
  ASSUME Table, NEW t \in Threads, NEW large \in BOOLEAN, NEW words \in SUBSET Words,
         Len(messages) < MaxMessages, createMessage(t, large, words)
  PROVE  /\ Table' /\ Len(messages) + 1 \in DOMAIN messages' /\ Len(messages) + 1 \in Ids
         /\ messages'[Len(messages) + 1].words = words
         /\ \A id \in DOMAIN messages : id \in DOMAIN messages' /\ messages'[id] = messages[id]
<1>1. PICK gap \in Gaps :
        messages' = Append(messages, [thread |-> t, at |-> Now + gap, large |-> large, words |-> words])
  BY DEF createMessage
<1>2. gap \in Nat \ {0} /\ MaxMessages \in Nat /\ PerMs \in Nat
  BY ChannelAssumption
<1>3. Now \in Nat /\ (messages # <<>> => Now = messages[Len(messages)].at)
  <2>1. CASE messages = <<>>
    BY <1>2, <2>1 DEF Now
  <2>2. CASE messages # <<>>
    <3>1. Len(messages) \in DOMAIN messages /\ messages \in Seq(Row)
      BY <2>2 DEF Table
    <3>2. messages[Len(messages)] \in Row
      BY <3>1
    <3>3. Now = messages[Len(messages)].at
      BY <2>2 DEF Now, Last
    <3> QED BY <3>2, <3>3 DEF Row
  <2> QED BY <2>1, <2>2
<1> DEFINE row == [thread |-> t, at |-> Now + gap, large |-> large, words |-> words]
<1>4. row \in Row /\ row.at = Now + gap /\ row.words = words
  BY <1>2, <1>3 DEF Row
<1>5. messages' = Append(messages, row)
  BY <1>1
<1> HIDE DEF row
<1>6. messages' \in Seq(Row) /\ Len(messages') = Len(messages) + 1
      /\ messages'[Len(messages) + 1] = row
      /\ \A id \in 1..Len(messages) : messages'[id] = messages[id]
  BY <1>4, <1>5 DEF Table
<1>7. \A i \in 1..(Len(messages') - 1) : messages'[i].at < messages'[i + 1].at
  <2> SUFFICES ASSUME NEW i \in 1..Len(messages) PROVE messages'[i].at < messages'[i + 1].at
    BY <1>6 DEF Table
  <2>1. CASE i = Len(messages)
    <3>1. messages # <<>> /\ Now = messages'[i].at
      BY <1>3, <1>6, <2>1 DEF Table
    <3>2. Now < Now + gap
      BY <1>2, <1>3
    <3> QED BY <1>4, <1>6, <2>1, <3>1, <3>2
  <2>2. CASE i # Len(messages)
    BY <1>6, <2>2 DEF Table
  <2> QED BY <2>1, <2>2
<1> QED BY <1>2, <1>4, <1>6, <1>7 DEF Table, Ids

-----------------------------------------------------------------------------
(* Calls in flight. *)

\* The table only grows.
Kept == \A id \in DOMAIN messages : id \in DOMAIN messages' /\ messages'[id] = messages[id]

LEMMA StaysInFlight ==
  ASSUME NEW c, InFlight(c, messages, text), Kept, c.what = "post" => text \subseteq text'
  PROVE  InFlight(c, messages', text')
<1>1. CASE c.what = "post"
  <2>1. CASE c.served
    <3>1. PICK id \in DOMAIN messages : messages[id].words = c.result
      BY <1>1, <2>1 DEF InFlight
    <3>2. id \in DOMAIN messages' /\ messages'[id].words = c.result
      BY <3>1 DEF Kept
    <3> QED BY <1>1, <2>1, <3>2 DEF InFlight
  <2>2. CASE ~c.served
    BY <1>1, <2>2 DEF InFlight
  <2> QED BY <2>1, <2>2
<1>2. CASE c.what # "post"
  BY <1>2 DEF InFlight
<1> QED BY <1>1, <1>2

\* A call that asks for messages may always be added, and any call ended.
LEMMA AskKeeps ==
  ASSUME Calls, NEW new, calls' \subseteq calls \cup {new}, Kept,
         \A c \in calls' : c.what = "post" => text \subseteq text',
         InFlight(new, messages', text'), new.what # "post"
  PROVE  Calls'
<1>1. ASSUME NEW c \in calls' PROVE InFlight(c, messages', text')
  <2>1. CASE c = new
    BY <2>1
  <2>2. CASE c \in calls
    <3>1. InFlight(c, messages, text)
      BY <2>2 DEF Calls
    <3> QED BY <3>1, StaysInFlight
  <2> QED BY <2>1, <2>2
<1>2. \A c, d \in calls' : c.what = "post" /\ d.what = "post" => c = d
  BY DEF Calls
<1> QED BY <1>1, <1>2 DEF Calls

LEMMA EndKeeps ==
  ASSUME Calls, calls' \subseteq calls, Kept,
         \A c \in calls' : c.what = "post" => text \subseteq text'
  PROVE  Calls'
<1>1. ASSUME NEW c \in calls' PROVE InFlight(c, messages', text')
  BY StaysInFlight DEF Calls
<1> QED BY <1>1 DEF Calls

LEMMA Asking ==
  ASSUME NEW what \in {"list", "refetch"}, NEW t \in Threads
  PROVE  InFlight(Call(what, t), messages', text') /\ Call(what, t).what = what
  BY DEF Call, InFlight

\* A served call takes the place of the one that was made.
Result(c, result) == [c EXCEPT !.served = TRUE, !.result = result]

LEMMA ResultIs ==
  ASSUME NEW c, InFlight(c, messages, text), NEW result
  PROVE  /\ DOMAIN Result(c, result) = DOMAIN c
         /\ Result(c, result).what = c.what /\ Result(c, result).thread = c.thread
         /\ Result(c, result).served = TRUE /\ Result(c, result).result = result
  BY DEF InFlight, Result

LEMMA ServeListKeeps ==
  ASSUME ChannelInv, NEW c \in calls, ServeList(c),
         UNCHANGED <<activeThreadId, shown, seen, socket, text, moves>>
  PROVE  ChannelInv'
<1> DEFINE result == InFull(listMessages(c.thread, Page))
           d == Result(c, result)
<1>1. result \in Seq(Item) /\ NamesOnce(result)
  BY PageIs DEF ChannelInv
<1>2. InFlight(c, messages, text) /\ c.what \in {"list", "refetch"}
  BY DEF ChannelInv, Calls, ServeList
<1>3. calls' = (calls \ {c}) \cup {d} /\ UNCHANGED <<messages, frames>>
  BY DEF ServeList, Served, Result
<1> HIDE DEF result
<1>4. InFlight(d, messages', text') /\ d.what # "post"
  <2>1. /\ DOMAIN d = DOMAIN c /\ d.what = c.what /\ d.thread = c.thread
        /\ d.served = TRUE /\ d.result = result
    BY <1>2, ResultIs
  <2> HIDE DEF d
  <2> QED BY <1>1, <1>2, <2>1 DEF InFlight, Item, Ids
<1> HIDE DEF d
<1>5. Kept
  BY <1>3 DEF Kept
<1>6. Calls'
  <2>1. calls' \subseteq calls \cup {d}
    BY <1>3
  <2> QED BY <1>4, <1>5, <2>1, AskKeeps DEF ChannelInv
<1> QED BY <1>3, <1>6 DEF ChannelInv, Screen, Table, Open, NamesOnce, ItemsOf

LEMMA NotifyKeeps ==
  ASSUME ChannelInv, NEW t, NEW large \in BOOLEAN, notify(t, large),
         Len(messages) + 1 \in Ids, UNCHANGED <<shown, seen>>
  PROVE  Screen'
<1> DEFINE m == [id |-> Len(messages) + 1, whole |-> ~large]
<1>1. m \in Item
  BY DEF Item
<1>2. frames' = Append(frames, m) \/ frames' = frames
  BY DEF notify
<1> HIDE DEF m, Item
<1>3. frames' \in Seq(Item)
  BY <1>1, <1>2 DEF ChannelInv, Screen
<1> QED BY <1>3 DEF ChannelInv, Screen, NamesOnce, ItemsOf, Item, Ids

LEMMA ServePostKeeps ==
  ASSUME ChannelInv, NEW c \in calls, ~c.served, ServePost(c),
         UNCHANGED <<activeThreadId, shown, seen, socket, text, moves>>
  PROVE  ChannelInv'
<1> DEFINE d == Result(c, c.result)
           new == Len(messages) + 1
<1>1. InFlight(c, messages, text) /\ c.what = "post" /\ c.result \subseteq Words /\ c.thread \in Threads
  BY DEF ChannelInv, Calls, ServePost, InFlight
<1>2. calls' = (calls \ {c}) \cup {d}
  BY DEF ServePost, Served, Result
<1>3. /\ Table' /\ new \in DOMAIN messages' /\ new \in Ids
      /\ messages'[new].words = c.result /\ Kept
  BY <1>1, CreateKeeps DEF ServePost, ChannelInv, Kept
<1>4. Screen'
  BY <1>3, NotifyKeeps DEF ServePost
<1>5. /\ DOMAIN d = DOMAIN c /\ d.what = c.what /\ d.thread = c.thread
      /\ d.served = TRUE /\ d.result = c.result
  BY <1>1, ResultIs
<1> HIDE DEF d
<1>6. InFlight(d, messages', text')
  BY <1>1, <1>3, <1>5 DEF InFlight
<1>7. ASSUME NEW e \in calls \ {c} PROVE InFlight(e, messages', text') /\ e.what # "post"
  <2>1. InFlight(e, messages, text) /\ e.what # "post"
    BY <1>1, <1>7 DEF ChannelInv, Calls
  <2> QED BY <1>3, <2>1, StaysInFlight
<1>8. Calls'
  BY <1>2, <1>6, <1>7 DEF Calls
<1> QED BY <1>3, <1>4, <1>8 DEF ChannelInv, Open

LEMMA AnswerKeeps ==
  ASSUME ChannelInv, NEW c \in calls, Answer(c)
  PROVE  ChannelInv'
<1>1. UNCHANGED <<messages, activeThreadId, socket, frames>> /\ InFlight(c, messages, text) /\ c.served
  BY DEF Answer, ChannelInv, Calls
<1>2. Kept /\ Table'
  BY <1>1 DEF Kept, ChannelInv, Table
<1>3. CASE AnswerList(c)
  <2>1. c.result \in Seq(Item) /\ NamesOnce(c.result)
    BY <1>1, <1>3 DEF AnswerList, InFlight
  <2>2. Screen'
    <3>1. shown' \in Seq(Item) /\ NamesOnce(shown') /\ seen' = ItemsOf(shown')
      BY <1>3, <2>1, AppendKeeps DEF AnswerList, ChannelInv
    <3> QED BY <1>1, <3>1 DEF ChannelInv, Screen, NamesOnce, ItemsOf, Item, Ids
  <2>3. calls' \subseteq calls /\ text' = text
    BY <1>3 DEF AnswerList, Then
  <2>4. Calls'
    BY <1>2, <2>3, EndKeeps DEF ChannelInv
  <2> QED BY <1>1, <1>2, <2>2, <2>3, <2>4 DEF ChannelInv, Open
<1>4. CASE AnswerPost(c)
  <2>1. /\ c.what = "post" /\ text' = {} /\ UNCHANGED <<shown, seen>>
        /\ calls' = (calls \ {c}) \cup {Call("refetch", c.thread)}
    BY <1>4 DEF AnswerPost, Then
  <2>2. Screen'
    BY <1>1, <2>1 DEF ChannelInv, Screen, NamesOnce, ItemsOf, Item, Ids
  <2>3. InFlight(Call("refetch", c.thread), messages', text') /\ Call("refetch", c.thread).what # "post"
    <3>1. c.thread \in Threads
      BY <1>1 DEF InFlight
    <3> QED BY <3>1, Asking
  <2>4. \A e \in calls' : e.what # "post"
    BY <2>1, <2>3 DEF ChannelInv, Calls
  <2>5. Calls'
    <3>1. calls' \subseteq calls \cup {Call("refetch", c.thread)}
      BY <2>1
    <3> QED BY <1>2, <2>3, <2>4, <3>1, AskKeeps DEF ChannelInv
  <2> QED BY <1>1, <1>2, <2>1, <2>2, <2>5 DEF ChannelInv, Open
<1> QED BY <1>3, <1>4 DEF Answer

\* What neither shows nor stores a message: calls begin, end and are kept.
LEMMA CallsOnly ==
  ASSUME ChannelInv, Calls', activeThreadId' \in Threads,
         socket' \in {"opening", "on", "off"}, text' \subseteq Words,
         UNCHANGED <<messages, shown, seen>>, frames' \in {frames, <<>>}
  PROVE  ChannelInv'
<1>1. frames' \in Seq(Item)
  <2>1. frames \in Seq(Item) /\ <<>> \in Seq(Item)
    BY DEF ChannelInv, Screen
  <2> QED BY <2>1
<1> QED BY <1>1 DEF ChannelInv, Screen, Table, Open, NamesOnce, ItemsOf, Item, Ids

LEMMA ClientKeeps ==
  ASSUME ChannelInv, Client
  PROVE  ChannelInv'
<1>1. /\ activeThreadId \in Threads /\ socket \in {"opening", "on", "off"}
      /\ text \subseteq Words /\ Calls
  BY DEF ChannelInv, Open
<1>2. ASSUME NEW what \in {"list", "refetch"}, calls' = calls \cup {Call(what, activeThreadId)},
             UNCHANGED <<messages, text>>
      PROVE  Calls'
  <2>1. InFlight(Call(what, activeThreadId), messages', text') /\ Call(what, activeThreadId).what # "post"
    BY <1>1, Asking
  <2>2. Kept
    BY <1>2 DEF Kept
  <2> QED BY <1>1, <1>2, <2>1, <2>2, AskKeeps
<1>3. ASSUME UNCHANGED <<messages, calls>>, text \subseteq text' PROVE Calls'
  <2>1. calls' \subseteq calls /\ Kept
    BY <1>3 DEF Kept
  <2> QED BY <1>1, <1>3, <2>1, EndKeeps
<1>4. CASE SocketOpens
  BY <1>1, <1>3, <1>4, CallsOnly DEF SocketOpens
<1>5. CASE SocketDrops
  BY <1>1, <1>3, <1>5, CallsOnly DEF SocketDrops
<1>6. CASE Poll
  BY <1>1, <1>2, <1>6, CallsOnly DEF Poll
<1>7. CASE refetch
  BY <1>1, <1>2, <1>7, CallsOnly DEF refetch
<1>8. CASE \E w \in Words : Type(w)
  BY <1>1, <1>3, <1>8, CallsOnly DEF Type
<1>9. CASE Frame
  <2>1. UNCHANGED <<messages, activeThreadId, socket, text, calls>> /\ frames' = Tail(frames)
    BY <1>9 DEF Frame
  <2> DEFINE one == <<Head(frames)>>
  <2>2. one \in Seq(Item) /\ NamesOnce(one) /\ frames' \in Seq(Item)
    BY <1>9, <2>1 DEF ChannelInv, Screen, NamesOnce, Frame
  <2>3. append(one)
    BY <1>9 DEF Frame
  <2> HIDE DEF one
  <2>4. shown' \in Seq(Item) /\ NamesOnce(shown') /\ seen' = ItemsOf(shown')
    BY <2>2, <2>3, AppendKeeps DEF ChannelInv
  <2>5. Screen'
    BY <2>2, <2>4 DEF Screen, NamesOnce, ItemsOf, Item, Ids
  <2>6. Calls'
    BY <1>3, <2>1
  <2> QED BY <2>1, <2>5, <2>6 DEF ChannelInv, Table, Open
<1>10. CASE submit
  <2> DEFINE c == [Call("post", activeThreadId) EXCEPT !.result = text]
  <2>1. calls' = calls \cup {c} /\ UNCHANGED <<messages, activeThreadId, shown, seen, socket, frames, text>>
    BY <1>10 DEF submit
  <2>2. \A d \in calls : d.what # "post"
    BY <1>10 DEF submit, sending
  <2>3. InFlight(c, messages', text')
    BY <1>1, <2>1 DEF Call, InFlight
  <2> HIDE DEF c
  <2>4. ASSUME NEW d \in calls PROVE InFlight(d, messages', text')
    BY <1>1, <2>1, <2>4, StaysInFlight DEF Calls, Kept
  <2>5. Calls'
    BY <2>1, <2>2, <2>3, <2>4 DEF Calls
  <2> QED BY <1>1, <2>1, <2>5, CallsOnly
<1>11. ASSUME NEW t \in Threads, selectThread(t) PROVE ChannelInv'
  <2>1. /\ activeThreadId' = t /\ shown' = <<>> /\ seen' = {} /\ socket' = "opening"
        /\ frames' = <<>> /\ UNCHANGED <<messages, text>>
        /\ calls' \subseteq calls \cup {Call("list", t)}
    BY <1>11 DEF selectThread, Restart
  <2>2. Calls'
    <3>1. InFlight(Call("list", t), messages', text') /\ Call("list", t).what # "post"
      BY Asking
    <3>2. Kept
      BY <2>1 DEF Kept
    <3> QED BY <1>1, <2>1, <3>1, <3>2, AskKeeps
  <2>3. Screen'
    BY <2>1 DEF Screen, NamesOnce, ItemsOf
  <2> QED BY <1>1, <2>1, <2>2, <2>3 DEF ChannelInv, Table, Open
<1> QED BY <1>4, <1>5, <1>6, <1>7, <1>8, <1>9, <1>10, <1>11 DEF Client

LEMMA ChannelKeeps ==
  ASSUME ChannelInv, [ChannelNext]_channelVars
  PROVE  ChannelInv'
<1>1. CASE Client
  BY <1>1, ClientKeeps
<1>2. ASSUME NEW c \in calls, Serve(c) PROVE ChannelInv'
  BY <1>2, ServeListKeeps, ServePostKeeps DEF Serve
<1>3. ASSUME NEW c \in calls, Answer(c) PROVE ChannelInv'
  BY <1>3, AnswerKeeps
<1>4. ASSUME NEW c \in calls, Fail(c) PROVE ChannelInv'
  <2>1. /\ UNCHANGED <<messages, activeThreadId, shown, seen, socket, frames, text>>
        /\ calls' \subseteq calls
    BY <1>4 DEF Fail, Then
  <2>2. Calls'
    BY <2>1, EndKeeps DEF ChannelInv, Kept
  <2> QED BY <2>1, <2>2, CallsOnly DEF ChannelInv, Open
<1>5. ASSUME NEW t \in Threads, NEW large \in BOOLEAN, OthersPost(t, large) PROVE ChannelInv'
  <2>1. /\ Len(messages) < MaxMessages /\ createMessage(t, large, {}) /\ notify(t, large)
        /\ UNCHANGED <<activeThreadId, shown, seen, socket, text, calls>>
    BY <1>5 DEF OthersPost
  <2>2. Table' /\ Len(messages) + 1 \in Ids /\ Kept
    <3>1. {} \in SUBSET Words
      OBVIOUS
    <3> QED BY <2>1, <3>1, CreateKeeps DEF ChannelInv, Kept
  <2>3. Screen'
    BY <2>1, <2>2, NotifyKeeps
  <2>4. Calls'
    <3>1. calls' \subseteq calls
      BY <2>1
    <3> QED BY <2>1, <2>2, <3>1, EndKeeps DEF ChannelInv
  <2> QED BY <2>1, <2>2, <2>3, <2>4 DEF ChannelInv, Open
<1>6. CASE UNCHANGED channelVars
  <2>1. /\ UNCHANGED <<messages, activeThreadId, shown, seen, socket, frames, text>>
        /\ calls' \subseteq calls
    BY <1>6 DEF channelVars
  <2>2. Calls'
    BY <2>1, EndKeeps DEF ChannelInv, Kept
  <2> QED BY <2>1, <2>2, CallsOnly DEF ChannelInv, Open
<1> QED BY <1>1, <1>2, <1>3, <1>4, <1>5, <1>6 DEF ChannelNext, Network

\* A message is on screen once, whatever of push, poll, refetch and switches of thread
\* comes in between, and one that was submitted is in the table or in the box, for any
\* pages, calls and failures.
THEOREM ScreenSoundHolds == Spec => []ScreenSound
<1>1. ChannelInit => ChannelInv
  <2> SUFFICES ASSUME ChannelInit PROVE ChannelInv
    OBVIOUS
  <2>1. Screen /\ Table /\ Open
    BY ChannelAssumption DEF ChannelInit, Screen, Table, Open, NamesOnce, ItemsOf
  <2>2. Calls
    BY ChannelAssumption DEF ChannelInit, Calls, Call, InFlight
  <2> QED BY <2>1, <2>2 DEF ChannelInv
<1>2. ChannelInv /\ [ChannelNext]_channelVars => ChannelInv'
  BY ChannelKeeps
<1>3. ChannelInv => ScreenSound
  <2> SUFFICES ASSUME ChannelInv PROVE ScreenSound
    OBVIOUS
  <2>1. shown \in Seq(Item) /\ NamesOnce(shown) /\ seen = ItemsOf(shown) /\ frames \in Seq(Item)
    BY DEF ChannelInv, Screen
  <2>2. \A m \in Item : m.id \in Ids
    BY DEF Item
  <2>3. /\ \A i \in DOMAIN shown : shown[i].id \in Ids
        /\ \A i \in DOMAIN frames : frames[i].id \in Ids
    BY <2>1, <2>2
  <2>4. ChannelTypeOK
    BY <2>1, <2>2, <2>3 DEF ChannelInv, Table, Open, Calls, InFlight, ItemsOf, ChannelTypeOK
  <2>5. NeverDoubleRenders
    BY <2>1 DEF NamesOnce, NeverDoubleRenders
  <2>6. SubmittedIsKept
    BY DEF ChannelInv, Calls, InFlight, SubmittedIsKept
  <2> QED BY <2>4, <2>5, <2>6 DEF ScreenSound
<1> QED BY <1>1, <1>2, <1>3, PTL DEF Spec

=============================================================================
