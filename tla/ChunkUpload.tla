---------------------------- MODULE ChunkUpload ----------------------------
(***************************************************************************)
(* Uploads in chunks: ChunkUploadManager of                                *)
(* src/src/service/ChunkUploadService.cpp and the handlers of              *)
(* src/src/main.cpp that use it.                                           *)
(*                                                                         *)
(* Two threads share the table of sessions: the request loop, which runs   *)
(* one handler at a time (task), and the cleanup thread, which erases old  *)
(* sessions.  Each call of the manager takes the mutex, so a handler is    *)
(* cut at those calls and at the calls of the disk, the blob store and the *)
(* database.  Sessions are in memory; the chunk files are not.             *)
(***************************************************************************)
EXTENDS Naturals, FiniteSets, Functions

CONSTANTS
    Users,
    Uploads,    \* the upload ids the random generator may return
    Data,       \* the contents a client may send for a chunk
    Spellings,  \* how a client may write an index: plain, or as in "01"
    MaxChunks,  \* bound: total_chunks of a session
    Faults      \* which calls may fail

FaultKinds == {"open", "cut", "store", "create", "crash"}

\* What a chunk file holds when the disk filled up while it was written.
Cut  == "cut"
None == "none"

ASSUME ChunkAssumption ==
    /\ MaxChunks \in Nat \ {0}
    /\ Spellings \subseteq {"plain", "padded"} /\ "plain" \in Spellings
    /\ Faults \subseteq FaultKinds
    /\ Cut \notin Data

NoTask  == [op |-> "none"]
NoReply == [op |-> "none"]

Indices(n) == 0..(n - 1)

VARIABLES
    sessions,   \* sessions_: upload id -> session
    old,        \* sessions with created_at more than 30 minutes ago
    chunks,     \* the files of uploads/tmp/<id>: path -> what the file holds
    merged,     \* the ids for which uploads/tmp/<id>_merged exists
    catalog,    \* contents for which createFile has returned a row
    running,    \* running_
    cleaner,    \* where the cleanup thread is
    server,     \* the process: up, stopping (the destructor joins), down
    task,       \* the handler in progress
    reply,      \* the last answer
    issued,     \* history: upload id -> who was given it
    acked,      \* history: <<id, i>> -> what the last request that was answered
                \* with success wrote under the plain spelling of i
    created     \* history: how often an upload was made a file

memory  == <<sessions, old, running, cleaner, server>>
disk    == <<chunks, merged>>
history == <<issued, acked, created>>
vars == <<memory, disk, catalog, task, reply, history>>

Empty == [x \in {} |-> 0]

Init ==
    /\ sessions = Empty /\ old = {}
    /\ chunks = Empty /\ merged = {}
    /\ catalog = {}
    /\ running = TRUE /\ cleaner = "loop" /\ server = "up"
    /\ task = NoTask /\ reply = NoReply
    /\ issued = Empty /\ acked = Empty
    /\ created = [u \in Uploads |-> 0]

With(f, k, v)  == [x \in DOMAIN f \cup {k} |-> IF x = k THEN v ELSE f[x]]
Without(f, ks) == [x \in DOMAIN f \ ks |-> f[x]]

Fault(kind) == kind \in Faults

-----------------------------------------------------------------------------
(* Handlers.  The cleanup thread may run between two steps of one.         *)

At(op, at) == server = "up" /\ task.op = op /\ task.at = at
Idle == server = "up" /\ task = NoTask

GoTo(at) == task' = [task EXCEPT !.at = at] /\ UNCHANGED reply

Answer(op, user, id, code) ==
    /\ task' = NoTask
    /\ reply' = [op |-> op, user |-> user, id |-> id, code |-> code]

Finish(code) == Answer(task.op, task.user, task.id, code)

\* handleChunkInit: a session under a fresh random id.
ChunkInit(user) ==
    /\ Idle
    /\ \E id \in Uploads \ DOMAIN issued, n \in 1..MaxChunks :
         /\ sessions' = With(sessions, id, [user |-> user, total |-> n, received |-> {}])
         /\ issued' = With(issued, id, user)
         /\ Answer("init", user, id, "ok")
    /\ UNCHANGED <<old, running, cleaner, server, disk, catalog, acked, created>>

MayUse(user, id) == id \in DOMAIN sessions /\ sessions[id].user = user

\* The bounds of the index.  An index that is no number (stoi throws) and an
\* empty body end the request in the same way: nothing is written.
ValidIndex(i, n) == i \in Indices(n)

\* handleChunkUpload up to the write: the session, the index, the body.
ChunkLookup(user) ==
    /\ Idle
    /\ \E id \in DOMAIN issued, i \in 0..MaxChunks, s \in Spellings, d \in Data :
         IF ~MayUse(user, id) THEN Answer("chunk", user, id, "missing")
         ELSE IF ~ValidIndex(i, sessions[id].total) THEN Answer("chunk", user, id, "invalid")
         ELSE /\ task' = [op |-> "chunk", at |-> "write", user |-> user, id |-> id,
                          index |-> i, spelling |-> s, data |-> d]
              /\ UNCHANGED reply
    /\ UNCHANGED <<memory, disk, catalog, history>>

ChunkPath(id, i, s) == <<id, i, s>>

\* The file is opened and written; whether the write succeeded is not asked.
\* Its name is the index as the client wrote it, not the number it means.
ChunkWrite ==
    /\ At("chunk", "write")
    /\ LET p == ChunkPath(task.id, task.index, task.spelling)
       IN  \/ chunks' = With(chunks, p, <<task.user, task.data>>) /\ GoTo("mark")
           \/ /\ Fault("cut") /\ chunks' = With(chunks, p, <<task.user, Cut>>)
              /\ task' = [task EXCEPT !.at = "mark", !.data = Cut] /\ UNCHANGED reply
           \/ Fault("open") /\ UNCHANGED chunks /\ Finish("failed")
    /\ UNCHANGED <<memory, merged, catalog, history>>

\* markChunkReceived looks the session up again: it may be gone by now, and
\* the answer is the same.
ChunkMark ==
    /\ At("chunk", "mark")
    /\ sessions' = IF task.id \in DOMAIN sessions
                   THEN [sessions EXCEPT ![task.id].received = @ \cup {task.index}]
                   ELSE sessions
    /\ acked' = IF task.spelling = "plain"
                THEN With(acked, <<task.id, task.index>>, task.data) ELSE acked
    /\ Finish("ok")
    /\ UNCHANGED <<old, running, cleaner, server, disk, catalog, issued, created>>

\* handleChunkComplete keeps the session alive by its shared_ptr, so what the
\* cleanup thread erases meanwhile is still there for the handler.
CompleteLookup(user) ==
    /\ Idle
    /\ \E id \in DOMAIN issued :
         IF ~MayUse(user, id) THEN Answer("complete", user, id, "missing")
         ELSE IF Cardinality(sessions[id].received) # sessions[id].total
              THEN Answer("complete", user, id, "incomplete")
         ELSE /\ task' = [op |-> "complete", at |-> "merge", user |-> user, id |-> id,
                          total |-> sessions[id].total, content |-> Empty]
              /\ UNCHANGED reply
    /\ UNCHANGED <<memory, disk, catalog, history>>

\* Mutant: the last chunk is forgotten.
MergedPartsShort == Indices(task.total - 1)

MergedParts == Indices(task.total)

\* The chunk files are read in the order of their indices.
Merge ==
    /\ At("complete", "merge")
    /\ \/ /\ Fault("open") /\ Finish("failed") /\ UNCHANGED merged
       \/ /\ merged' = merged \cup {task.id}
          /\ IF \A i \in MergedParts : ChunkPath(task.id, i, "plain") \in DOMAIN chunks
               THEN /\ task' = [task EXCEPT !.at = "store", !.content =
                                  [i \in MergedParts |-> chunks[ChunkPath(task.id, i, "plain")]]]
                    /\ UNCHANGED reply
               ELSE Finish("failed")
    /\ UNCHANGED <<memory, chunks, catalog, history>>

\* storeFile, and the removal of the merged file when it succeeds.
Store ==
    /\ At("complete", "store")
    /\ \/ merged' = merged \ {task.id} /\ GoTo("create")
       \/ Fault("store") /\ Finish("failed") /\ UNCHANGED merged
    /\ UNCHANGED <<memory, chunks, catalog, history>>

\* FileService::createFile (see FileCatalog): a row for the content, or none.
Create ==
    /\ At("complete", "create")
    /\ \/ /\ catalog' = catalog \cup {[id |-> task.id, user |-> task.user,
                                       content |-> task.content]}
          /\ created' = [created EXCEPT ![task.id] = @ + 1]
          /\ task' = [task EXCEPT !.at = "discard"]
       \/ /\ Fault("create")
          /\ task' = [task EXCEPT !.at = "failing"]
          /\ UNCHANGED <<catalog, created>>
    /\ UNCHANGED <<memory, disk, reply, issued, acked>>

\* remove_all(tmp_dir), whether or not there is a row.
DiscardChunks ==
    /\ At("complete", "discard") \/ At("complete", "failing")
    /\ chunks' = Without(chunks, {p \in DOMAIN chunks : p[1] = task.id})
    /\ GoTo(IF task.at = "discard" THEN "remove" ELSE "removeFailing")
    /\ UNCHANGED <<memory, merged, catalog, history>>

\* Mutant: the session is left in the table.
RemovedNot(id) == sessions

Removed(id) == Without(sessions, {id})

RemoveSession ==
    /\ At("complete", "remove") \/ At("complete", "removeFailing")
    /\ sessions' = Removed(task.id)
    /\ old' = old \cap DOMAIN sessions'
    /\ Finish(IF task.at = "remove" THEN "ok" ELSE "failed")
    /\ UNCHANGED <<running, cleaner, server, disk, catalog, history>>

\* handleChunkStatus only reads.
ChunkStatus(user) ==
    /\ Idle
    /\ \E id \in DOMAIN issued :
         Answer("status", user, id, IF MayUse(user, id) THEN "ok" ELSE "missing")
    /\ UNCHANGED <<memory, disk, catalog, history>>

-----------------------------------------------------------------------------
(* cleanupLoop(), and the process around it.                               *)

\* Mutant: the loop does not look at running_.
CleanerLoopForever ==
    /\ cleaner = "loop"
    /\ cleaner' = "sleeping"
    /\ UNCHANGED <<sessions, old, running, server, disk, catalog, task, reply, history>>

CleanerLoop ==
    /\ cleaner = "loop"
    /\ cleaner' = IF running THEN "sleeping" ELSE "exited"
    /\ UNCHANGED <<sessions, old, running, server, disk, catalog, task, reply, history>>

\* Mutant: a session that has received chunks is spared.
ExpiredIdle == {id \in old : sessions[id].received = {}}

Expired == old

\* One sweep under the mutex; the files stay where they are.
Sweep ==
    /\ cleaner = "sleeping"
    /\ sessions' = Without(sessions, Expired)
    /\ old' = old \ Expired
    /\ cleaner' = "loop"
    /\ UNCHANGED <<running, server, disk, catalog, task, reply, history>>

\* Thirty minutes pass for a session.
Age ==
    /\ server = "up"
    /\ \E id \in DOMAIN sessions \ old : old' = old \cup {id}
    /\ UNCHANGED <<sessions, running, cleaner, server, disk, catalog, task, reply, history>>

\* The process ends: the destructor of the manager clears the flag...
Stop ==
    /\ Idle
    /\ server' = "stopping" /\ running' = FALSE
    /\ UNCHANGED <<sessions, old, cleaner, disk, catalog, task, reply, history>>

\* ... and joins the thread.
Join ==
    /\ server = "stopping" /\ cleaner = "exited"
    /\ server' = "down"
    /\ sessions' = Empty /\ old' = {}
    /\ UNCHANGED <<running, cleaner, disk, catalog, task, reply, history>>

Crash ==
    /\ Fault("crash") /\ server # "down"
    /\ server' = "down" /\ cleaner' = "exited" /\ running' = FALSE
    /\ sessions' = Empty /\ old' = {}
    /\ task' = NoTask /\ reply' = NoReply
    /\ UNCHANGED <<disk, catalog, history>>

Start ==
    /\ server = "down"
    /\ server' = "up" /\ running' = TRUE /\ cleaner' = "loop"
    /\ reply' = NoReply
    /\ UNCHANGED <<sessions, old, disk, catalog, task, history>>

-----------------------------------------------------------------------------
HandlerStep == \/ ChunkWrite \/ ChunkMark \/ Merge \/ Store \/ Create
               \/ DiscardChunks \/ RemoveSession

Request(user) == ChunkInit(user) \/ ChunkLookup(user) \/ CompleteLookup(user)
                 \/ ChunkStatus(user)

Next == \/ \E user \in Users : Request(user)
        \/ HandlerStep
        \/ CleanerLoop \/ Sweep \/ Age
        \/ Stop \/ Join \/ Crash \/ Start

Spec == Init /\ [][Next]_vars

\* The cleanup thread keeps running, and a destructor waiting for it goes on
\* when it has ended.
Fairness == WF_vars(CleanerLoop) /\ WF_vars(Sweep) /\ WF_vars(Join)

FairSpec == Spec /\ Fairness

-----------------------------------------------------------------------------
(* Properties.                                                             *)

\* Every file made from an upload is its starter's and holds all its chunks,
\* in order, each as the last request of his for it left it, although chunks
\* are sent again, in other spellings and by users who guess the id, calls
\* fail, and the session may expire while a chunk is being written or the
\* chunks are being merged.
Whole ==
    \A f \in catalog : \E i \in Indices(MaxChunks) :
        /\ f.user = issued[f.id]
        /\ DOMAIN f.content = Indices(i + 1)
        /\ \A j \in Indices(i + 1) : f.content[j] = <<f.user, acked[<<f.id, j>>]>>
        /\ \A k \in Indices(MaxChunks) : <<f.id, k>> \in DOMAIN acked => k <= i

\* However often its completion is asked for, an upload becomes one file.
Once == \A id \in Uploads : created[id] <= 1

\* A session that has outlived its thirty minutes is erased, used or not.
SessionEnds == \A id \in Uploads : id \in old ~> id \notin DOMAIN sessions

\* The destructor returns: the cleanup thread sees the flag after its sleep.
StopReturns == server = "stopping" ~> server = "down"
=============================================================================
