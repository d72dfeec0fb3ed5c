---------------------------- MODULE FileCatalog ----------------------------
(***************************************************************************)
(* The files and shares of the server: the handlers of src/src/main.cpp,   *)
(* with the FileService, FileDao, ShareService and ShareDao they call.     *)
(*                                                                         *)
(* The request loop has one thread, so one handler runs at a time (task).  *)
(* A handler is cut into steps where the world may intervene: at each call *)
(* of the database, the blob store or the cache, any of which may fail,    *)
(* and between which the process may crash.  Rows, shares and blobs        *)
(* survive a crash; the in-memory caches do not.  The summary, the tags    *)
(* and the vector index, which an upload writes last and which no answer   *)
(* here depends on, are left to the module of the search.                  *)
(***************************************************************************)
EXTENDS Naturals, FiniteSets, Functions

CONSTANTS
    Users, Hashes, Tokens,
    Configs,        \* the configurations, [storage : {"local", "fastdfs"}, cache : {"lru", "redis"}]
    MaxId,          \* bound: rows ever inserted
    MaxNames,       \* bound: FastDFS names in use for one content
    MaxDbFaults,    \* bound: failed database calls
    MaxBlobFaults,  \* bound: failed calls of the blob store
    MaxCrashes,     \* bound: crashes of the process
    MaxFaults       \* bound: failures and crashes together, per configuration

NoTask  == [op |-> "none"]
NoReply == [code |-> "none", saved |-> <<>>]
NoRow   == [id |-> 0]
NoPath  == <<>>

ASSUME CatalogAssumption ==
    /\ Configs \subseteq [storage : {"local", "fastdfs"}, cache : {"lru", "redis"}]
    /\ MaxId \in Nat /\ MaxNames \in Nat /\ MaxDbFaults \in Nat
    /\ MaxBlobFaults \in Nat /\ MaxCrashes \in Nat
    /\ MaxFaults \in [Configs -> Nat]

Ids == 1..MaxId

VARIABLES
    files,      \* table files: id -> row
    nextId,     \* its AUTO_INCREMENT
    shares,     \* table shares: token -> share
    blobs,      \* the paths under which a content is stored
    fdfs,       \* g_fastdfs: the client was initialised when the process started
    spare,      \* history: second copies of a content that had a row already
    idCache,    \* fileCacheById
    hashCache,  \* fileCacheByHash
    cacheUp,    \* the cache answers (always, for the LRU)
    task,       \* the handler in progress
    reply,      \* the last answer, until the next event, and of a save also
                \* who asked for which content
    doomed,     \* history: rows whose owner has asked to delete them
    config,     \* the configuration, read once
    dbFaults, blobFaults, crashes

tables == <<files, nextId, shares>>
caches == <<idCache, hashCache, cacheUp>>
store  == <<blobs, fdfs, spare>>
faults == <<dbFaults, blobFaults, crashes, config>>
vars == <<tables, store, caches, task, reply, doomed, faults>>

Empty == [x \in {} |-> NoRow]

Redis == config.cache = "redis"   \* the caches survive a restart

\* A start with a FastDFS that cannot be reached falls back to local files.
StorageAtStart == IF config.storage = "fastdfs" THEN BOOLEAN ELSE {FALSE}

Init ==
    /\ files = Empty /\ nextId = 1 /\ shares = Empty
    /\ blobs = {} /\ spare = {}
    /\ idCache = Empty /\ hashCache = Empty /\ cacheUp = TRUE
    /\ task = NoTask /\ reply = NoReply
    /\ doomed = {} /\ config \in Configs /\ fdfs \in StorageAtStart
    /\ dbFaults = 0 /\ blobFaults = 0 /\ crashes = 0

-----------------------------------------------------------------------------
(* The database: a failed call looks like an empty answer, and a failed    *)
(* update may have taken effect all the same.                              *)

Spendable == dbFaults + blobFaults + crashes < MaxFaults[config]

DbFault   == Spendable /\ dbFaults < MaxDbFaults /\ dbFaults' = dbFaults + 1
BlobFault == Spendable /\ blobFaults < MaxBlobFaults /\ blobFaults' = blobFaults + 1

With(f, k, v)  == [x \in DOMAIN f \cup {k} |-> IF x = k THEN v ELSE f[x]]
Without(f, ks) == [x \in DOMAIN f \ ks |-> f[x]]

KnownRows == Range(files) \cup Range(idCache) \cup Range(hashCache) \cup {NoRow}

FindById(i, r) ==
    \/ r = (IF i \in DOMAIN files THEN files[i] ELSE NoRow) /\ UNCHANGED dbFaults
    \/ r = NoRow /\ DbFault

\* SELECT ... WHERE file_hash = h LIMIT 1: any of the rows.
FindByHash(h, r) ==
    LET rows == {x \in Range(files) : x.hash = h}
    IN  \/ r \in (IF rows = {} THEN {NoRow} ELSE rows) /\ UNCHANGED dbFaults
        \/ r = NoRow /\ DbFault

FindShare(t, s) ==
    \/ /\ s = (IF t \in DOMAIN shares /\ ~shares[t].expired THEN shares[t] ELSE NoRow)
       /\ UNCHANGED dbFaults
    \/ s = NoRow /\ DbFault

\* The outcomes of an update: done, failed, done although reported failed.
Update(effect, noEffect, ok) ==
    \/ ok = TRUE  /\ effect   /\ UNCHANGED dbFaults
    \/ ok = FALSE /\ noEffect /\ DbFault
    \/ ok = FALSE /\ effect   /\ DbFault

-----------------------------------------------------------------------------
(* FileService: cache-aside reads.                                         *)

Hit(cache, k) == cacheUp /\ k \in DOMAIN cache
Cached(cache, k, r) == IF cacheUp THEN With(cache, k, r) ELSE cache
Dropped(cache, k) == IF cacheUp THEN Without(cache, {k}) ELSE cache

GetFileById(i, r) ==
    IF Hit(idCache, i)
      THEN r = idCache[i] /\ UNCHANGED <<idCache, dbFaults>>
      ELSE /\ FindById(i, r)
           /\ idCache' = IF r = NoRow THEN idCache ELSE Cached(idCache, i, r)

GetFileByHash(h, r) ==
    IF Hit(hashCache, h)
      THEN r = hashCache[h] /\ UNCHANGED <<hashCache, dbFaults>>
      ELSE /\ FindByHash(h, r)
           /\ hashCache' = IF r = NoRow THEN hashCache ELSE Cached(hashCache, h, r)

-----------------------------------------------------------------------------
(* Requests.  A task names the next step of its handler.                   *)

Begin(op, u, h, i, t) ==
    /\ task = NoTask
    /\ task' = [op |-> op, at |-> "start", user |-> u, hash |-> h, id |-> i,
                token |-> t, path |-> NoPath]
    /\ reply' = NoReply
    /\ UNCHANGED <<tables, store, caches, doomed, faults>>

\* A path is a content and a number: 0 for the local file named after the
\* hash, else the name FastDFS has given.  FastDFS gives fresh names; one that
\* nothing refers to any more is as good as fresh.
LocalPath(h) == <<h, 0>>
OnFastDfs(p) == p[2] > 0

InUse == blobs \cup {r.path : r \in KnownRows \ {NoRow}}
FreshNames(h) == {n \in 1..MaxNames : <<h, n>> \notin InUse}
FastDfsPath(h) == <<h, CHOOSE n \in FreshNames(h) : \A m \in FreshNames(h) : n <= m>>

\* Bounds: an insertion is started only while an id and a name are left.
Room == nextId <= MaxId
Nameable(h) == fdfs => FreshNames(h) # {}

Request(u) ==
    \/ \E h \in Hashes, op \in {"upload", "complete"} :
          Room /\ Nameable(h) /\ Begin(op, u, h, 0, "-")
    \/ \E i \in Ids, op \in {"download", "analyze", "delete"} :
          i < nextId /\ Begin(op, u, "-", i, "-")
    \/ \E i \in Ids, t \in Tokens \ DOMAIN shares :
          i < nextId /\ Begin("share", u, "-", i, t)
    \/ \E t \in DOMAIN shares :
          \/ Begin("unshare", u, "-", 0, t)
          \/ Room /\ Begin("save", u, "-", 0, t)

\* The answers to these do not depend on who asks.
PublicRequest ==
    \/ \E t \in DOMAIN shares : Begin("fetch", "-", "-", 0, t)
    \/ \E h \in Hashes : Begin("check", "-", h, 0, "-")

Finish(code) ==
    /\ task' = NoTask
    /\ reply' = [code |-> code,
                 saved |-> IF task.op = "save" THEN <<task.user, task.hash>> ELSE <<>>]

GoTo(at) == task' = [task EXCEPT !.at = at] /\ UNCHANGED reply

At(op, at) == task.op = op /\ task.at = at

-----------------------------------------------------------------------------
(* handleUpload: look the hash up, store the content, create the row,      *)
(* index it.  handleChunkComplete, once the chunks are merged (see the     *)
(* module of the chunks), stores at once and creates the row.              *)

\* retrieveFile and deleteStoredFile take a FastDFS name for a local path
\* while FastDFS is not initialised; there is no such file.
Reachable(p) == p \in blobs /\ (OnFastDfs(p) => fdfs)

UploadLookup ==
    /\ At("upload", "start")
    /\ \E r \in KnownRows :
         /\ GetFileByHash(task.hash, r)
         /\ IF r # NoRow THEN Finish("exists") ELSE GoTo("store")
    /\ UNCHANGED <<tables, store, idCache, cacheUp, doomed,
                   blobFaults, crashes, config>>

StoreFile ==
    /\ At("upload", "store") \/ At("complete", "start")
    /\ \/ LET p == IF fdfs THEN FastDfsPath(task.hash) ELSE LocalPath(task.hash)
          IN  /\ blobs' = blobs \cup {p}
              /\ task' = [task EXCEPT !.path = p, !.at = "create"]
              /\ UNCHANGED <<reply, blobFaults>>
       \/ BlobFault /\ Finish("failed") /\ UNCHANGED blobs
    /\ UNCHANGED <<tables, fdfs, spare, caches, doomed, dbFaults, crashes, config>>

\* The operations that end in FileService::createFile.
Creating(at) == task.op \in {"upload", "complete", "save"} /\ task.at = at

\* createFile fails: the upload deletes the LOCAL file its path names; a
\* FastDFS path names none.  A completion leaves what it has stored.
CreateFails ==
    /\ Finish("failed")
    /\ blobs' = IF task.op = "upload" /\ ~OnFastDfs(task.path)
                THEN blobs \ {task.path} ELSE blobs
    /\ UNCHANGED <<fdfs, spare, idCache, hashCache>>

\* createFile returns row r, which may be one that existed before, and then
\* what a completion has stored is a second copy.
CreateReturns(r) ==
    /\ Finish("ok")
    /\ spare' = IF task.op = "complete" /\ r.path # task.path
                THEN spare \cup {task.path} ELSE spare
    /\ UNCHANGED <<blobs, fdfs>>

\* Mutant: createFile does not look for a row with the hash.
CreateCheckSkipped ==
    /\ Creating("create")
    /\ GoTo("insert")
    /\ UNCHANGED <<tables, store, caches, doomed, faults>>

CreateCheck ==
    /\ Creating("create")
    /\ \E r \in KnownRows :
         /\ FindByHash(task.hash, r)
         /\ IF r # NoRow THEN CreateReturns(r)
                         ELSE GoTo("insert") /\ UNCHANGED store
    /\ UNCHANGED <<tables, caches, doomed, blobFaults, crashes, config>>

NewRow == [id |-> nextId, owner |-> task.user, hash |-> task.hash,
           path |-> task.path]

CreateInsert ==
    /\ Creating("insert")
    /\ \E ok \in BOOLEAN :
         /\ Update(files' = With(files, nextId, NewRow) /\ nextId' = nextId + 1,
                   UNCHANGED <<files, nextId>>, ok)
         /\ IF ok THEN GoTo("reload") /\ UNCHANGED <<store, idCache, hashCache>>
                  ELSE CreateFails
    /\ UNCHANGED <<shares, cacheUp, doomed, blobFaults, crashes, config>>

CreateReload ==
    /\ Creating("reload")
    /\ \E r \in KnownRows :
         /\ FindByHash(task.hash, r)
         /\ IF r = NoRow THEN CreateFails
            ELSE /\ idCache' = Cached(idCache, r.id, r)
                 /\ hashCache' = Cached(hashCache, r.hash, r)
                 /\ CreateReturns(r)
    /\ UNCHANGED <<tables, cacheUp, doomed, blobFaults, crashes, config>>

-----------------------------------------------------------------------------
(* handleDownload, handleFileCheck and the public GET /api/shares/{token}. *)

\* Mutant: the owner of the row is not compared with the user.
MayUseAny(r) == r # NoRow

MayUse(r) == r # NoRow /\ r.owner = task.user

\* With a FastDFS data path configured the answer names the file and Nginx
\* reads it, to the same effect.
Serve(r) ==
    \/ Finish(IF Reachable(r.path) THEN "content" ELSE "missing") /\ UNCHANGED blobFaults
    \/ Reachable(r.path) /\ BlobFault /\ Finish("missing")

Download ==
    /\ At("download", "start")
    /\ \E r \in KnownRows :
         /\ GetFileById(task.id, r)
         /\ \/ r = NoRow /\ Finish("missing") /\ UNCHANGED blobFaults
            \/ r # NoRow /\ ~MayUse(r) /\ Finish("denied") /\ UNCHANGED blobFaults
            \/ MayUse(r) /\ Serve(r)
    /\ UNCHANGED <<tables, store, hashCache, cacheUp, doomed, crashes, config>>

\* handleLlmAnalyze opens the path as a local file, whatever it is, and then
\* asks the model, which may fail.
Analyze ==
    /\ At("analyze", "start")
    /\ \E r \in KnownRows, code \in {"analysis", "failed"} :
         /\ GetFileById(task.id, r)
         /\ \/ r = NoRow /\ Finish("missing")
            \/ r # NoRow /\ ~MayUse(r) /\ Finish("denied")
            \/ /\ MayUse(r)
               /\ code = "analysis" => r.path \in blobs /\ ~OnFastDfs(r.path)
               /\ Finish(code)
    /\ UNCHANGED <<tables, store, hashCache, cacheUp, doomed,
                   blobFaults, crashes, config>>

FileCheck ==
    /\ At("check", "start")
    /\ \E r \in KnownRows :
         /\ GetFileByHash(task.hash, r)
         /\ IF r = NoRow THEN Finish("missing") ELSE Finish("exists")
    /\ UNCHANGED <<tables, store, idCache, cacheUp, doomed,
                   blobFaults, crashes, config>>

FetchShare ==
    /\ At("fetch", "start")
    /\ \E s \in Range(shares) \cup {NoRow} :
         /\ FindShare(task.token, s)
         /\ IF s = NoRow THEN Finish("missing")
            ELSE /\ task' = [task EXCEPT !.at = "serve", !.id = s.file]
                 /\ UNCHANGED reply
    /\ UNCHANGED <<tables, store, caches, doomed, blobFaults, crashes, config>>

FetchServe ==
    /\ At("fetch", "serve")
    /\ \E r \in KnownRows :
         /\ GetFileById(task.id, r)
         /\ IF r = NoRow THEN Finish("missing") /\ UNCHANGED blobFaults
                         ELSE Serve(r)
    /\ UNCHANGED <<tables, store, hashCache, cacheUp, doomed, crashes, config>>

-----------------------------------------------------------------------------
(* handleDelete and FileService::removeFile: blob, caches, row.            *)

DeleteLookup ==
    /\ At("delete", "start")
    /\ \E r \in KnownRows :
         /\ GetFileById(task.id, r)
         /\ \/ /\ ~MayUse(r)
               /\ Finish(IF r = NoRow THEN "missing" ELSE "denied")
            \/ /\ MayUse(r)
               /\ task' = [task EXCEPT !.at = "unlink", !.path = r.path]
               /\ UNCHANGED reply
         /\ doomed' = IF r # NoRow /\ r.owner = task.user
                      THEN doomed \cup {task.id} ELSE doomed
    /\ UNCHANGED <<tables, store, hashCache, cacheUp, blobFaults, crashes, config>>

\* Mutant: the content is left behind.
DeleteBlobNot ==
    /\ At("delete", "unlink")
    /\ GoTo("forget")
    /\ UNCHANGED <<tables, store, caches, doomed, faults>>

\* A blob that cannot be deleted, or not be reached, is left behind.
DeleteBlob ==
    /\ At("delete", "unlink")
    /\ \/ /\ blobs' = IF Reachable(task.path) THEN blobs \ {task.path} ELSE blobs
          /\ UNCHANGED blobFaults
       \/ Reachable(task.path) /\ BlobFault /\ UNCHANGED blobs
    /\ GoTo("forget")
    /\ UNCHANGED <<tables, fdfs, spare, caches, doomed, dbFaults, crashes, config>>

\* Mutant: only the id entry is dropped.
DeleteForgetId ==
    /\ At("delete", "forget")
    /\ idCache' = Dropped(idCache, task.id)
    /\ GoTo("erase")
    /\ UNCHANGED <<tables, store, hashCache, cacheUp, doomed, faults>>

\* Mutant: only the hash entry is dropped.
DeleteForgetHash ==
    /\ At("delete", "forget")
    /\ hashCache' = IF Hit(idCache, task.id)
                    THEN Dropped(hashCache, idCache[task.id].hash) ELSE hashCache
    /\ GoTo("erase")
    /\ UNCHANGED <<tables, store, idCache, cacheUp, doomed, faults>>

\* The hash entry is found through the id entry.
DeleteForget ==
    /\ At("delete", "forget")
    /\ hashCache' = IF Hit(idCache, task.id)
                    THEN Dropped(hashCache, idCache[task.id].hash) ELSE hashCache
    /\ idCache' = Dropped(idCache, task.id)
    /\ GoTo("erase")
    /\ UNCHANGED <<tables, store, cacheUp, doomed, faults>>

\* Deleting the row deletes its shares (ON DELETE CASCADE).
DeleteRow ==
    /\ At("delete", "erase")
    /\ \E ok \in BOOLEAN :
         /\ Update(/\ files' = Without(files, {task.id})
                   /\ shares' = Without(shares, {t \in DOMAIN shares :
                                                   shares[t].file = task.id}),
                   UNCHANGED <<files, shares>>, ok)
         /\ Finish(IF ok THEN "ok" ELSE "failed")
    /\ doomed' = doomed \cap DOMAIN files'
    /\ UNCHANGED <<nextId, store, caches, blobFaults, crashes, config>>

-----------------------------------------------------------------------------
(* handleShareCreate, handleShareDelete, handleShareSave.                  *)

\* ShareService reads the row from the table, not from the cache.
ShareLookup ==
    /\ At("share", "start")
    /\ \E r \in KnownRows :
         /\ FindById(task.id, r)
         /\ IF r = NoRow \/ r.owner # task.user THEN Finish("denied")
                                                ELSE GoTo("insert")
    /\ UNCHANGED <<tables, store, caches, doomed, blobFaults, crashes, config>>

ShareInsert ==
    /\ At("share", "insert")
    /\ \E ok \in BOOLEAN :
         /\ Update(shares' = With(shares, task.token,
                        [file |-> task.id, user |-> task.user, expired |-> FALSE]),
                   UNCHANGED shares, ok)
         /\ Finish(IF ok THEN "ok" ELSE "failed")
    /\ UNCHANGED <<files, nextId, store, caches, doomed, blobFaults, crashes, config>>

UnshareLookup ==
    /\ At("unshare", "start")
    /\ \E s \in Range(shares) \cup {NoRow} :
         /\ FindShare(task.token, s)
         /\ \/ s = NoRow /\ Finish("missing")
            \/ s # NoRow /\ s.user # task.user /\ Finish("denied")
            \/ s # NoRow /\ s.user = task.user /\ GoTo("erase")
    /\ UNCHANGED <<tables, store, caches, doomed, blobFaults, crashes, config>>

\* The result of the DELETE is not looked at.
UnshareErase ==
    /\ At("unshare", "erase")
    /\ \E ok \in BOOLEAN :
         Update(shares' = Without(shares, {task.token}), UNCHANGED shares, ok)
    /\ Finish("ok")
    /\ UNCHANGED <<files, nextId, store, caches, doomed, blobFaults, crashes, config>>

SaveLookup ==
    /\ At("save", "start")
    /\ \E s \in Range(shares) \cup {NoRow} :
         /\ FindShare(task.token, s)
         /\ \/ s = NoRow /\ Finish("missing")
            \/ s # NoRow /\ s.user = task.user /\ Finish("denied")
            \/ /\ s # NoRow /\ s.user # task.user
               /\ task' = [task EXCEPT !.at = "original", !.id = s.file]
               /\ UNCHANGED reply
    /\ UNCHANGED <<tables, store, caches, doomed, blobFaults, crashes, config>>

SaveOriginal ==
    /\ At("save", "original")
    /\ \E r \in KnownRows :
         /\ GetFileById(task.id, r)
         /\ IF r = NoRow THEN Finish("missing")
            ELSE /\ task' = [task EXCEPT !.at = "dup", !.hash = r.hash, !.path = r.path]
                 /\ UNCHANGED reply
    /\ UNCHANGED <<tables, store, hashCache, cacheUp, doomed,
                   blobFaults, crashes, config>>

\* Already saved by this user?  Otherwise createFile, on the original's path.
SaveDuplicate ==
    /\ At("save", "dup")
    /\ \E r \in KnownRows :
         /\ GetFileByHash(task.hash, r)
         /\ IF r # NoRow /\ r.owner = task.user THEN Finish("exists")
                                                ELSE GoTo("create")
    /\ UNCHANGED <<tables, store, idCache, cacheUp, doomed,
                   blobFaults, crashes, config>>

-----------------------------------------------------------------------------
(* The surroundings.                                                       *)

ShareExpires ==
    /\ \E t \in DOMAIN shares :
         ~shares[t].expired /\ shares' = [shares EXCEPT ![t].expired = TRUE]
    /\ reply' = NoReply
    /\ UNCHANGED <<files, nextId, store, caches, task, doomed, faults>>

\* An entry leaves a cache: the LRU evicts one to make room for another,
\* which no handler does to the entry it is using; a Redis key times out
\* at any moment.
Evict ==
    /\ Redis \/ task = NoTask
    /\ \/ \E i \in DOMAIN idCache : idCache' = Without(idCache, {i}) /\ UNCHANGED hashCache
       \/ \E h \in DOMAIN hashCache : hashCache' = Without(hashCache, {h}) /\ UNCHANGED idCache
    /\ reply' = NoReply
    /\ UNCHANGED <<tables, store, cacheUp, task, doomed, faults>>

\* RedisClient never reconnects by itself.
RedisLost ==
    /\ Redis /\ cacheUp /\ cacheUp' = FALSE
    /\ reply' = NoReply
    /\ UNCHANGED <<tables, store, idCache, hashCache, task,
                   doomed, faults>>

\* The process ends, at any moment, and starts again, perhaps without FastDFS.
Crash ==
    /\ Spendable /\ crashes < MaxCrashes /\ crashes' = crashes + 1
    /\ task' = NoTask /\ reply' = NoReply
    /\ cacheUp' = TRUE
    /\ IF Redis THEN UNCHANGED <<idCache, hashCache>>
                ELSE idCache' = Empty /\ hashCache' = Empty
    /\ fdfs' \in StorageAtStart
    /\ UNCHANGED <<tables, blobs, spare, doomed, dbFaults, blobFaults, config>>

-----------------------------------------------------------------------------
UploadStep == \/ UploadLookup \/ StoreFile \/ CreateCheck \/ CreateInsert
              \/ CreateReload
ReadStep   == Download \/ Analyze \/ FileCheck \/ FetchShare \/ FetchServe
DeleteStep == DeleteLookup \/ DeleteBlob \/ DeleteForget \/ DeleteRow
ShareStep  == \/ ShareLookup \/ ShareInsert \/ UnshareLookup \/ UnshareErase
              \/ SaveLookup \/ SaveOriginal \/ SaveDuplicate

Next == \/ (\E u \in Users : Request(u)) \/ PublicRequest
        \/ UploadStep \/ ReadStep \/ DeleteStep \/ ShareStep
        \/ ShareExpires \/ Evict \/ RedisLost \/ Crash

Spec == Init /\ [][Next]_vars

-----------------------------------------------------------------------------
(* Properties.                                                             *)

Quiet == task = NoTask

\* Redis forgets no entry but by a remove or a timeout, so what it held when it
\* was lost answers again after a restart.
NoRevival == Redis => crashes = 0

\* Deduplication: with a database that answers, no two rows have the same
\* content, although nothing but the order of the lookups in createFile sees
\* to it (the table has no unique key on file_hash).
HashUnique ==
    dbFaults = 0 =>
        \A i, j \in DOMAIN files : files[i].hash = files[j].hash => i = j

\* Between requests, rows and stored contents correspond, until a call fails
\* or the process crashes: no row without its content, no content without a
\* row, whichever order the handlers write them in.  The exception are the
\* second copies that a completed upload makes of a known content in FastDFS.
Intact ==
    Quiet /\ dbFaults = 0 /\ blobFaults = 0 /\ crashes = 0 =>
        /\ blobs \ spare = {files[i].path : i \in DOMAIN files}
        /\ \A p \in spare : OnFastDfs(p)

\* While nothing has failed, a download or a fetch answers with the content
\* exactly when the table says it should: the file is there, and is the user's
\* own.  What the cache holds, over deletions, saves and second uploads of the
\* content, never shows.
ReadsExact ==
    [][task.op \in {"download", "fetch"} /\ task' = NoTask
         /\ dbFaults' + blobFaults' + crashes' = 0 =>
           (reply'.code = "content" <=>
              /\ task.id \in DOMAIN files
              /\ task.op = "download" => files[task.id].owner = task.user)]_vars

\* A file keeps its content until its own owner asks to delete it: no upload
\* that fails, no other row and no crash takes it away.
ContentKept ==
    dbFaults = 0 /\ NoRevival =>
        \A i \in DOMAIN files \ doomed : files[i].path \in blobs

\* Between requests, what the in-memory caches answer is what the table holds,
\* whatever failed in between.
CacheCoherent ==
    Quiet /\ ~Redis =>
        /\ \A i \in DOMAIN idCache : i \in DOMAIN files /\ idCache[i] = files[i]
        /\ \A h \in DOMAIN hashCache :
             LET r == hashCache[h]
             IN  r.hash = h /\ r.id \in DOMAIN files /\ r = files[r.id]

\* Who was told that his share was saved has a file with that content.
SavedIsOwned ==
    reply.code = "ok" /\ reply.saved # <<>> =>
        \E i \in DOMAIN files : <<files[i].owner, files[i].hash>> = reply.saved
=============================================================================
