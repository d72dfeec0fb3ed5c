---------------------------- MODULE SearchIndex ----------------------------
(***************************************************************************)
(* The semantic search: the second half of handleUpload and handleSearch   *)
(* of src/src/main.cpp, with LlmService::embed and the VectorStore.        *)
(*                                                                         *)
(* An upload splits its text into chunks (module TextChunker), asks the    *)
(* model for a vector of each and appends it to the index in memory.  The  *)
(* steps by which the file itself is stored, and the entries of the cache  *)
(* one by one, are in module FileCatalog: here they are one step.          *)
(***************************************************************************)
EXTENDS Naturals, Sequences, FiniteSets, Functions

CONSTANTS
    Contents,     \* what a file may contain
    Chunks,       \* the chunks of each content, as the kinds below
    MaxLimit,     \* results a search may ask for
    MaxId,        \* bound: rows ever inserted
    MaxDbFaults,  \* bound: failed calls of the database
    MaxLlmFaults, \* bound: failed calls of the model server
    MaxCrashes    \* bound: restarts of the process

\* A chunk is "plain"; or its first 200 bytes end inside a character; or it
\* begins or ends inside one, so that it is not UTF-8.
Kinds == {"plain", "wide", "cut"}

NoContent == "no content"

ASSUME SearchAssumption ==
    /\ MaxLimit \in Nat \ {0} /\ MaxId \in Nat /\ MaxDbFaults \in Nat
    /\ MaxLlmFaults \in Nat /\ MaxCrashes \in Nat
    /\ Chunks \in [Contents -> Seq(Kinds)]
    /\ NoContent \notin Contents

Ids == 1..MaxId
Idle == [at |-> "idle"]
NoReply == [op |-> "none", ok |-> TRUE]

VARIABLES
    rows,        \* table files: the content of each row
    nextId,      \* its AUTO_INCREMENT
    summarised,  \* rows with a summary or tags
    idCached,    \* ids in fileCacheById
    hashCached,  \* ids whose row is in fileCacheByHash
    index,       \* g_vector_store.index_
    task,        \* the upload in progress
    reply,       \* the last answer
    dbFaults, llmFaults, crashes

table  == <<rows, nextId, summarised>>
caches == <<idCached, hashCached>>
faults == <<dbFaults, llmFaults, crashes>>
vars == <<table, caches, index, task, reply, faults>>

Init ==
    /\ rows = [i \in Ids |-> NoContent] /\ nextId = 1 /\ summarised = {}
    /\ idCached = {} /\ hashCached = {}
    /\ index = <<>>
    /\ task = Idle /\ reply = NoReply
    /\ dbFaults = 0 /\ llmFaults = 0 /\ crashes = 0

Stored == {i \in Ids : rows[i] # NoContent}

DbFaults(n) == dbFaults + n <= MaxDbFaults /\ dbFaults' = dbFaults + n
LlmFault    == llmFaults < MaxLlmFaults /\ llmFaults' = llmFaults + 1

Reply(op, ok, id) == reply' = [op |-> op, ok |-> ok, id |-> id]

-----------------------------------------------------------------------------
(* Upload.                                                                 *)

Index(id, c) == task' = [at |-> "embed", id |-> id, content |-> c, chunk |-> 1]

\* AUTO_INCREMENT of MySQL 8: an id is never given twice.
NewId == nextId

\* getFileByHash finds the content: its row is the answer.
UploadKnown(c) ==
    \E i \in Stored :
        /\ task = Idle /\ rows[i] = c
        /\ Reply("upload", TRUE, i)
        /\ hashCached' = hashCached \cup {i}
        /\ UNCHANGED <<table, idCached, index, task, faults>>

\* getFileByHash fails for a fault of the database, and createFile finds the
\* row after all: the upload goes on as if it had created it.
UploadOverlooked(c) ==
    \E i \in Stored \ hashCached :
        /\ task = Idle /\ rows[i] = c
        /\ DbFaults(1)
        /\ Index(i, c)
        /\ UNCHANGED <<table, caches, index, reply, llmFaults, crashes>>

UploadNew(c) ==
    /\ task = Idle /\ nextId <= MaxId
    /\ \A i \in Stored : rows[i] # c
    /\ rows' = [rows EXCEPT ![NewId] = c] /\ nextId' = nextId + 1
    /\ idCached' = idCached \cup {NewId} /\ hashCached' = hashCached \cup {NewId}
    /\ Index(NewId, c)
    /\ UNCHANGED <<summarised, index, reply, faults>>

\* The file is not stored, or its row is not created or not read back.
UploadFails(c) ==
    /\ task = Idle /\ nextId <= MaxId
    /\ \A i \in Stored : rows[i] # c
    /\ DbFaults(1)
    /\ \/ rows' = [rows EXCEPT ![NewId] = c] /\ nextId' = nextId + 1
       \/ UNCHANGED <<rows, nextId>>
    /\ Reply("upload", FALSE, 0)
    /\ UNCHANGED <<summarised, caches, index, task, llmFaults, crashes>>

Chunk == Chunks[task.content][task.chunk]
MoreChunks == task.at = "embed" /\ task.chunk <= Len(Chunks[task.content])

Document(id, c, n) == [file |-> id, content |-> c, chunk |-> n, kind |-> Chunks[c][n]]

\* Mutant: the vectors carry the number of the chunk before.
EmbedStuck ==
    /\ MoreChunks /\ Chunk # "cut"
    /\ index' = Append(index, Document(task.id, task.content,
                                       IF task.chunk = 1 THEN 1 ELSE task.chunk - 1))
    /\ task' = [task EXCEPT !.chunk = @ + 1]
    /\ UNCHANGED <<table, caches, reply, faults>>

\* embed() answers: the chunk is appended to the index.
Embed ==
    /\ MoreChunks /\ Chunk # "cut"
    /\ index' = Append(index, Document(task.id, task.content, task.chunk))
    /\ task' = [task EXCEPT !.chunk = @ + 1]
    /\ UNCHANGED <<table, caches, reply, faults>>

\* Mutant: the upload ends with an error when a vector is missing.
EmbedFailsUpload ==
    /\ MoreChunks /\ Chunk # "cut"
    /\ LlmFault
    /\ task' = Idle /\ Reply("upload", FALSE, task.id)
    /\ UNCHANGED <<table, caches, index, dbFaults, crashes>>

\* embed() fails: the chunk is left out.
EmbedFails ==
    /\ MoreChunks /\ Chunk # "cut"
    /\ LlmFault
    /\ task' = [task EXCEPT !.chunk = @ + 1]
    /\ UNCHANGED <<table, caches, index, reply, dbFaults, crashes>>

\* A chunk that is not UTF-8: req_body.dump() throws, outside the try block of
\* embed, and the request loop answers 500.
EmbedThrows ==
    /\ MoreChunks /\ Chunk = "cut"
    /\ task' = Idle /\ Reply("upload", FALSE, task.id)
    /\ UNCHANGED <<table, caches, index, faults>>

\* The summary and the tags, from the model, go to the row only: updateFileMeta,
\* whose failure is not looked at.
Finish ==
    /\ task.at = "embed" /\ ~MoreChunks
    /\ IF Chunks[task.content] = <<>>
         THEN UNCHANGED <<summarised, dbFaults, llmFaults>>
         ELSE \/ summarised' = summarised \cup {task.id} /\ UNCHANGED <<dbFaults, llmFaults>>
              \/ UNCHANGED <<summarised, llmFaults>> /\ DbFaults(1)
              \/ UNCHANGED <<summarised, dbFaults>> /\ LlmFault
    /\ task' = Idle /\ Reply("upload", TRUE, task.id)
    /\ UNCHANGED <<rows, nextId, caches, index, crashes>>

-----------------------------------------------------------------------------
(* Delete and search.                                                      *)

\* Mutant: the entry of the cache outlives its row.
DeleteForgetNot(id) == UNCHANGED caches

\* removeFile takes the row out of the caches; nobody calls removeByFileId.
DeleteForget(id) ==
    /\ idCached' = idCached \ {id}
    /\ hashCached' = hashCached \ {id}

Delete(id) ==
    /\ task = Idle /\ id \in Stored
    /\ DeleteForget(id)
    /\ \/ /\ rows' = [rows EXCEPT ![id] = NoContent] /\ summarised' = summarised \ {id}
          /\ Reply("delete", TRUE, id) /\ UNCHANGED dbFaults
       \/ /\ DbFaults(1) /\ Reply("delete", FALSE, id)
          /\ \/ UNCHANGED <<rows, summarised>>
             \/ rows' = [rows EXCEPT ![id] = NoContent] /\ summarised' = summarised \ {id}
    /\ UNCHANGED <<nextId, index, task, llmFaults, crashes>>

\* The chunks a search finds most similar: any of them, as the vectors are not
\* modelled, and as many as it asks for.
Tops(limit) == {top \in SUBSET DOMAIN index :
                    Cardinality(top) = IF limit < Len(index) THEN limit ELSE Len(index)}

FilesOf(top) == {index[n].file : n \in top}

\* One chunk, the best, for each file among them.
Bests(top) == {best \in [FilesOf(top) -> top] : \A f \in FilesOf(top) : index[best[f]].file = f}

\* getFileById of each file: from the cache, or from the table, unless that fails.
Search(limit) ==
    /\ task = Idle
    /\ \E top \in Tops(limit) : \E best \in Bests(top), lost \in SUBSET (FilesOf(top) \ idCached) :
         LET found == FilesOf(top) \cap (idCached \cup (Stored \ lost))
             texts == {f \in found : index[best[f]].kind = "wide"}
         IN  /\ DbFaults(Cardinality(lost))
             /\ idCached' = idCached \cup found
             /\ reply' = IF texts # {}
                           THEN [op |-> "search", ok |-> FALSE, id |-> 0]
                           ELSE [op |-> "search", ok |-> TRUE, id |-> 0,
                                 results |-> {[id |-> f, content |-> index[best[f]].content] : f \in found}]
    /\ UNCHANGED <<table, hashCached, index, task, llmFaults, crashes>>

SearchFails ==
    /\ task = Idle /\ LlmFault
    /\ Reply("search", FALSE, 0)
    /\ UNCHANGED <<table, caches, index, task, dbFaults, crashes>>

\* An entry leaves a cache: the LRU needs the room, or its hour in Redis is over.
Expire ==
    /\ \/ \E i \in idCached : idCached' = idCached \ {i} /\ UNCHANGED hashCached
       \/ \E i \in hashCached : hashCached' = hashCached \ {i} /\ UNCHANGED idCached
    /\ UNCHANGED <<table, index, task, reply, faults>>

\* The process stops anywhere and starts again with an empty index; the caches
\* are empty too unless they are in Redis.
Restart ==
    /\ crashes < MaxCrashes /\ crashes' = crashes + 1
    /\ (idCached' = {} /\ hashCached' = {}) \/ UNCHANGED caches
    /\ index' = <<>>
    /\ task' = Idle /\ reply' = NoReply
    /\ UNCHANGED <<table, dbFaults, llmFaults>>

Upload(c) == UploadKnown(c) \/ UploadOverlooked(c) \/ UploadNew(c) \/ UploadFails(c)
Indexing  == Embed \/ EmbedFails \/ EmbedThrows \/ Finish

Next ==
    \/ \E c \in Contents : Upload(c)
    \/ Indexing
    \/ \E i \in Ids : Delete(i)
    \/ \E limit \in 1..MaxLimit : Search(limit)
    \/ SearchFails \/ Expire \/ Restart

Spec == Init /\ [][Next]_vars

-----------------------------------------------------------------------------
(* Properties.                                                             *)

\* The index keeps the chunks of deleted files, and a search shows none of
\* them: what it shows are the contents of files that exist.
ResultsExist ==
    reply.op = "search" /\ reply.ok =>
        \A r \in reply.results : rows[r.id] = r.content

\* No two chunks of the index bear the same chunk_id ("块唯一 ID"), as long as
\* the database answers: a content that is known is not indexed again, even
\* after its file was deleted and uploaded once more.
ChunkIdUnique ==
    dbFaults = 0 =>
        \A m, n \in DOMAIN index :
            index[m].file = index[n].file /\ index[m].chunk = index[n].chunk => m = n

\* "AI 处理失败不影响上传成功": once its row exists an upload succeeds, whether or
\* not the model answers, unless a chunk of its text is not UTF-8.
UploadSucceeds ==
    reply.op = "upload" /\ ~reply.ok /\ reply.id \in Stored =>
        "cut" \in Range(Chunks[rows[reply.id]])
=============================================================================
