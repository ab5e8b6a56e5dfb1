------------------------------- MODULE Rooms --------------------------------
(***************************************************************************)
(* What an org talks in (services/app/src/nav, dm, files, chat, search and *)
(* their routes): channels, threads, direct messages, notes, read markers, *)
(* files and the messages they are attached to.  One org; the caller is    *)
(* signed in.  A handler is suspended between any two statements.          *)
(*                                                                         *)
(* Rows are numbered in the order they are inserted.  A file's bytes are   *)
(* its size; a body is the set of messages it tells of.  The clock is      *)
(* the number of rows.                                                     *)
(***************************************************************************)
EXTENDS Requests, FiniteSets, Integers, Sequences

CONSTANTS
  Users,     \* members who call
  Peers,     \* principals of the org: humans and agents
  Sizes,     \* bound: sizes of uploads
  MaxRows,   \* bound: rows inserted
  Durable    \* ACP_STORAGE_DIR is set: files survive a restart

ASSUME RoomsAssumption ==
  /\ "none" \notin Peers /\ Sizes \subseteq Nat \ {0} /\ MaxRows \in Nat \ {0, 1}
  /\ Durable \in BOOLEAN

VARIABLES
  channel,   \* channels: archived
  thread,    \* threads: the channel, or the peer of a DM
  note,      \* notes: who wrote title and body last
  file,      \* files: the row
  disk,      \* the storage backend: bytes by file; 0: a file not wholly written
  whole,     \* sizes that were once wholly on disk, by file
  message,   \* messages: thread, attachments and what a recap tells of
  readAt,    \* read_state: <<user, thread>> -> last_read_at
  rows       \* the rows inserted so far

roomsVars == <<channel, thread, note, file, disk, whole, message, readAt, rows>>

ChannelRow == [archived : BOOLEAN]
ThreadRow == [channel : 0..MaxRows, peer : Peers \cup {"none"}]
NoteRow == [title : Users \cup {"none"}, body : Users \cup {"none"}]
FileRow == [size : Sizes \cup {0}, uploaded : BOOLEAN]
MessageRow == [thread : 1..MaxRows, attachments : SUBSET (1..MaxRows), told : SUBSET (1..MaxRows)]

NewRow == rows + 1
Insert == rows < MaxRows /\ rows' = NewRow

RoomsInit ==
  /\ channel = Just(1, [archived |-> FALSE]) /\ thread = Just(2, [channel |-> 1, peer |-> "none"])
  /\ note = <<>> /\ file = <<>> /\ disk = <<>> /\ whole = <<>> /\ message = <<>>
  /\ readAt = <<>> /\ rows = 2

-----------------------------------------------------------------------------
(* Channels, threads, direct messages. *)

CreateChannel(q) ==
  /\ Called(q, "channel") /\ Return(q) /\ Insert
  /\ channel' = Put(channel, NewRow, [archived |-> FALSE])
  /\ UNCHANGED <<thread, note, file, disk, whole, message, readAt>>

\* What GET /channels shows.
listChannels(includeArchived) ==
  {c \in DOMAIN channel : includeArchived \/ ~channel[c].archived}

\* A renamed channel keeps its row; an archived one can be taken back.
SetChannelArchived(q) ==
  /\ Called(q, "archive") /\ Return(q)
  /\ \E c \in listChannels(TRUE), archived \in BOOLEAN :
       channel' = [channel EXCEPT ![c].archived = archived]
  /\ UNCHANGED <<thread, note, file, disk, whole, message, readAt, rows>>

\* The channel is looked up, then the thread inserted; channels are never deleted.
CreateThread(q) ==
  /\ \E c \in DOMAIN channel : Enter(q, "thread", [at |-> "insertThread", channel |-> c])
  /\ UNCHANGED roomsVars
InsertThread(q) ==
  /\ At(q, "insertThread") /\ Return(q) /\ Insert
  /\ thread' = Put(thread, NewRow, [channel |-> req[q].channel, peer |-> "none"])
  /\ UNCHANGED <<channel, note, file, disk, whole, message, readAt>>

listDms(p) == {t \in DOMAIN thread : thread[t].peer = p}

\* getOrCreateDm: the DM with that peer, whoever of the org started it; otherwise
\* the peer's name is read and a DM inserted.
GetDm(q) ==
  /\ \E p \in Peers :
       \/ listDms(p) # {} /\ Called(q, "dm") /\ Return(q)
       \/ listDms(p) = {} /\ Enter(q, "dm", [at |-> "insertDm", peer |-> p])
  /\ UNCHANGED roomsVars
InsertDm(q) ==
  /\ At(q, "insertDm") /\ Return(q) /\ Insert
  /\ thread' = Put(thread, NewRow, [channel |-> 0, peer |-> req[q].peer])
  /\ UNCHANGED <<channel, note, file, disk, whole, message, readAt>>

-----------------------------------------------------------------------------
(* Notes: one statement each; what a patch does not name stays as it is. *)

CreateNote(q) ==
  /\ Called(q, "note") /\ Return(q) /\ Insert
  /\ note' = Put(note, NewRow, [title |-> "none", body |-> "none"])
  /\ UNCHANGED <<channel, thread, file, disk, whole, message, readAt>>

UpdateNote(q) ==
  /\ Called(q, "editNote") /\ Return(q)
  /\ \E n \in DOMAIN note, u \in Users, fields \in SUBSET {"title", "body"} :
       note' = [note EXCEPT ![n] = [f \in {"title", "body"} |-> IF f \in fields THEN u ELSE @[f]]]
  /\ UNCHANGED <<channel, thread, file, disk, whole, message, readAt, rows>>

DeleteNote(q) ==
  /\ Called(q, "dropNote") /\ Return(q)
  /\ \E n \in DOMAIN note : note' = [m \in DOMAIN note \ {n} |-> note[m]]
  /\ UNCHANGED <<channel, thread, file, disk, whole, message, readAt, rows>>

-----------------------------------------------------------------------------
(* Files. *)

\* POST /files: the declared size, no bytes yet.
CreateFile(q) ==
  /\ Called(q, "file") /\ Return(q) /\ Insert
  /\ \E declared \in Sizes \cup {0} :
       file' = Put(file, NewRow, [size |-> declared, uploaded |-> FALSE])
  /\ whole' = Put(whole, NewRow, {})
  /\ UNCHANGED <<channel, thread, note, disk, message, readAt>>

Store(f, size) == disk' = Put(disk, f, size)

\* PUT /files/:id/content with the signed URL, which is good for any number of
\* uploads until it expires.  writeFile truncates, then writes.
PutContent(q) ==
  /\ \E f \in DOMAIN file, size \in Sizes :
       Enter(q, "put", [at |-> "write", file |-> f, size |-> size]) /\ Store(f, 0)
  /\ UNCHANGED <<channel, thread, note, file, whole, message, readAt, rows>>

\* Mutant: the row is marked before the bytes are written.
WriteFile_MarksFirst(q) ==
  /\ At(q, "write") /\ Goto(q, "mark")
  /\ Store(req[q].file, req[q].size)
  /\ file' = [file EXCEPT ![req[q].file].size = 1, ![req[q].file].uploaded = TRUE]
  /\ UNCHANGED <<channel, thread, note, whole, message, readAt, rows>>

\* storage.put returns.  (Two at once leave what came last.)
WriteFile(q) ==
  /\ At(q, "write") /\ Goto(q, "mark")
  /\ Store(req[q].file, req[q].size)
  /\ whole' = [whole EXCEPT ![req[q].file] = @ \cup {req[q].size}]
  /\ UNCHANGED <<channel, thread, note, file, message, readAt, rows>>

MarkUploaded(q) ==
  /\ At(q, "mark") /\ Return(q)
  /\ file' = [file EXCEPT ![req[q].file].size = req[q].size, ![req[q].file].uploaded = TRUE]
  /\ UNCHANGED <<channel, thread, note, disk, whole, message, readAt, rows>>

-----------------------------------------------------------------------------
(* Messages with attachments, recaps, read markers. *)

MessagesOf(t) == {m \in DOMAIN message : message[m].thread = t}

\* validateOrgFileIds: unknown ids fall away; whether bytes came is not asked.
ValidateFileIds(q) ==
  /\ \E t \in DOMAIN thread, wanted \in SUBSET (1..MaxRows) :
       /\ Cardinality(wanted) <= 1
       /\ Enter(q, "attach", [at |-> "insertMessage", thread |-> t, told |-> {},
                              files |-> wanted \cap DOMAIN file])
  /\ UNCHANGED roomsVars

\* summarizeThread: all messages of the thread, read in one statement.
SummarizeThread(q) ==
  /\ \E t \in DOMAIN thread :
       Enter(q, "recap", [at |-> "insertMessage", thread |-> t, told |-> MessagesOf(t), files |-> {}])
  /\ UNCHANGED roomsVars

InsertMessage(q) ==
  /\ At(q, "insertMessage") /\ Return(q) /\ Insert
  /\ message' = Put(message, NewRow, [thread |-> req[q].thread, told |-> req[q].told,
                                    attachments |-> req[q].files])
  /\ UNCHANGED <<channel, thread, note, file, disk, whole, readAt>>

lastReadAt(u, t) == IF <<u, t>> \in DOMAIN readAt THEN readAt[<<u, t>>] ELSE 0
unreadCounts(u, t) == Cardinality({m \in MessagesOf(t) : m > lastReadAt(u, t)})

\* Mutant: the reader's clock is taken, which may be ahead.
MarkRead_ReadersClock(q) ==
  /\ \E u \in Users, t \in DOMAIN thread :
       Enter(q, "read", [at |-> "markRead", key |-> <<u, t>>, now |-> NewRow])
  /\ UNCHANGED roomsVars

\* POST /threads/:id/read: the server's clock is read, and then written, also over
\* a later one.
MarkRead(q) ==
  /\ \E u \in Users, t \in DOMAIN thread :
       Enter(q, "read", [at |-> "markRead", key |-> <<u, t>>, now |-> rows])
  /\ UNCHANGED roomsVars
UpsertReadState(q) ==
  /\ At(q, "markRead") /\ Return(q)
  /\ readAt' = Put(readAt, req[q].key, req[q].now)
  /\ UNCHANGED <<channel, thread, note, file, disk, whole, message, rows>>

\* A restart takes a temporary directory with it.
LoseStorage == disk' = IF Durable THEN disk ELSE <<>>

NavRoutes(q) == CreateChannel(q) \/ SetChannelArchived(q) \/ CreateThread(q) \/ InsertThread(q)
DmRoutes(q) == GetDm(q) \/ InsertDm(q)
NotesRoutes(q) == CreateNote(q) \/ UpdateNote(q) \/ DeleteNote(q)
fileStorageRoutes(q) == CreateFile(q) \/ PutContent(q) \/ WriteFile(q) \/ MarkUploaded(q)
NotifyRoutes(q) == MarkRead(q) \/ UpsertReadState(q)
ThreadRoutes(q) == ValidateFileIds(q) \/ SummarizeThread(q) \/ InsertMessage(q)

RoomsHandler(q) ==
  \/ NavRoutes(q) \/ DmRoutes(q) \/ NotesRoutes(q) \/ fileStorageRoutes(q)
  \/ NotifyRoutes(q) \/ ThreadRoutes(q)

-----------------------------------------------------------------------------
(* Properties. *)

\* Rows have their types, and every reference is to a row that exists.
RoomsTypeOK ==
  /\ rows \in 0..MaxRows
  /\ \A c \in DOMAIN channel : channel[c] \in ChannelRow
  /\ \A t \in DOMAIN thread :
       thread[t] \in ThreadRow /\ (thread[t].peer = "none") = (thread[t].channel \in DOMAIN channel)
  /\ \A n \in DOMAIN note : note[n] \in NoteRow
  /\ \A f \in DOMAIN file : file[f] \in FileRow
  /\ \A k \in DOMAIN readAt : k[1] \in Users /\ k[2] \in DOMAIN thread
  /\ \A m \in DOMAIN message :
       /\ message[m] \in MessageRow /\ message[m].thread \in DOMAIN thread
       /\ message[m].attachments \subseteq DOMAIN file
       /\ message[m].told \subseteq MessagesOf(message[m].thread)

\* A file that is shown as uploaded shows the size of an upload that was wholly on
\* disk ("uploaded flips true only after a valid signed PUT stores the bytes",
\* db/schema.ts:477), though uploads overlap and die.
UploadedWasWhole == \A f \in DOMAIN file : file[f].uploaded => file[f].size \in whole[f]

\* References are to rows there are, and files to uploads there were.
RoomsSound == RoomsTypeOK /\ UploadedWasWhole

\* A message is unread to everybody when it is posted, whatever markers of the past
\* are written late or out of order.
PostedIsUnread ==
  [][\A u \in Users, t \in DOMAIN thread :
       Cardinality(MessagesOf(t)') > Cardinality(MessagesOf(t)) =>
         unreadCounts(u, t)' = unreadCounts(u, t) + 1]_roomsVars

\* One DM per peer (dm.test.ts: getOrCreateDm is idempotent).
OneDmPerPeer == \A p \in Peers : Cardinality(listDms(p)) <= 1

=============================================================================
