------------------------- MODULE FileCatalogProofs -------------------------
(***************************************************************************)
(* What the run files checks of module FileCatalog for two users, two      *)
(* contents and two ids, proved for any users, contents, shares and        *)
(* configurations, any number of rows and any number of faults.            *)
(***************************************************************************)
EXTENDS FileCatalog, WellFoundedInduction, TLAPS

Paths == Hashes \X Nat

RowTypes == [id : Nat \ {0}, owner : Users, hash : Hashes, path : Paths]

ShareTypes == [file : Nat, user : Users, expired : BOOLEAN]

Ops == {"upload", "complete", "download", "analyze", "delete", "share", "unshare",
        "save", "fetch", "check"}

Stages == {"start", "store", "create", "insert", "reload", "serve", "unlink", "forget",
           "erase", "original", "dup"}

Tasks == [op : Ops, at : Stages, user : Users \cup {"-"}, hash : Hashes \cup {"-"},
          id : Nat, token : Tokens \cup {"-"}, path : Paths \cup {NoPath}]

\* The stages of a handler that has stored a content and has yet to create
\* its row.
Storing == task.op \in {"upload", "complete"} /\ task.at \in {"create", "insert"}

Before == \/ task.op = "upload" /\ task.at \in {"start", "store"}
          \/ task.op = "complete" /\ task.at = "start"

TypeOK ==
    /\ nextId \in Nat \ {0} /\ files \in [DOMAIN files -> RowTypes]
    /\ \A i \in DOMAIN files : files[i].id = i /\ i < nextId
    /\ shares \in [DOMAIN shares -> ShareTypes] /\ DOMAIN shares \subseteq Tokens
    /\ idCache \in [DOMAIN idCache -> RowTypes] /\ hashCache \in [DOMAIN hashCache -> RowTypes]
    /\ cacheUp \in BOOLEAN /\ fdfs \in BOOLEAN
    /\ blobs \subseteq Paths /\ spare \subseteq Paths
    /\ dbFaults \in Nat /\ blobFaults \in Nat /\ crashes \in Nat
    /\ task \in {NoTask} \cup Tasks

\* A row's path is one of its content.
PathsFit == \A r \in Range(files) \cup Range(idCache) \cup Range(hashCache) : r.path[1] = r.hash

\* What a handler carries from step to step: a user, a content, and a path of
\* that content or a name for one.
Carries ==
    /\ PathsFit
    /\ task.op \in {"upload", "complete", "save", "share"} => task.user \in Users
    /\ task.op = "share" => task.token \in Tokens
    /\ task.op \in {"upload", "complete"} => task.hash \in Hashes
    /\ task.op \in {"upload", "complete", "save"} /\ task.at \in {"dup", "create", "insert", "reload"} =>
          task.hash \in Hashes /\ task.path \in Paths /\ task.path[1] = task.hash
    /\ Before /\ fdfs => FreshNames(task.hash) # {}
    /\ At("fetch", "start") => task.id = 0

-----------------------------------------------------------------------------
(* The parts of the inductive invariant.                                   *)

HasRow(h) == \E i \in DOMAIN files : files[i].hash = h

\* createFile inserts a row only for a content that has none, and reads it
\* back.
Unique ==
    dbFaults = 0 =>
        /\ \A i, j \in DOMAIN files : files[i].hash = files[j].hash => i = j
        /\ Creating("insert") => ~HasRow(task.hash)
        /\ Creating("reload") => \E i \in DOMAIN files : /\ files[i].hash = task.hash
                                                         /\ files[i].path = task.path

\* The entries of a cache are rows of the table.
IdsCoherent == \A i \in DOMAIN idCache : i \in DOMAIN files /\ idCache[i] = files[i]

HashesCoherent ==
    \A h \in DOMAIN hashCache :
       LET r == hashCache[h]
       IN  r.hash = h /\ r.id \in DOMAIN files /\ r = files[r.id]

\* A delete takes the row out of the caches before it takes it out of the
\* table.  Only the in-memory caches hold the entry that leads it to the one
\* by hash.
Coherent ==
    /\ cacheUp /\ NoRevival =>
         /\ IdsCoherent
         /\ At("delete", "erase") => task.id \notin DOMAIN idCache
    /\ ~Redis =>
         /\ cacheUp /\ HashesCoherent
         /\ At("delete", "unlink") \/ At("delete", "forget") => task.id \in DOMAIN idCache
         /\ At("delete", "erase") => \A h \in DOMAIN hashCache : hashCache[h].id # task.id

\* What a row refers to is stored; a delete removes the content of the row it
\* deletes; and a save never inserts, as the content it saves has a row.
Kept ==
    dbFaults = 0 /\ NoRevival =>
        /\ \A i \in DOMAIN files \ doomed : files[i].path \in blobs
        /\ At("delete", "unlink") => /\ task.id \in DOMAIN files /\ task.id \in doomed
                                     /\ task.path = files[task.id].path
        /\ task.op = "save" /\ task.at \in {"dup", "create"} => HasRow(task.hash)
        /\ task.op = "save" => task.at # "insert"
        /\ Storing => task.path \in blobs

Clean == dbFaults = 0 /\ blobFaults = 0 /\ crashes = 0

PathsOf(ids) == {files[i].path : i \in ids}

\* The paths that should be stored: of the rows, without the one a delete has
\* taken the content of, and with the one an upload has yet to create.
Due == PathsOf(IF task.op = "delete" /\ task.at \in {"forget", "erase"}
                 THEN DOMAIN files \ {task.id} ELSE DOMAIN files)
       \cup (IF Storing THEN {task.path} ELSE {})

\* How contents are named: by FastDFS, or by their hash.
Named(p, h) == IF fdfs THEN OnFastDfs(p) ELSE p = LocalPath(h)

Matched ==
    Clean =>
        /\ blobs \ spare = Due /\ spare \subseteq blobs
        /\ \A p \in spare : OnFastDfs(p)
        /\ ~fdfs => spare = {}
        /\ \A i \in DOMAIN files : Named(files[i].path, files[i].hash)
        /\ Storing => /\ Named(task.path, task.hash)
                      /\ fdfs => task.path \notin PathsOf(DOMAIN files)
        /\ task.op = "upload" /\ task.at \in {"store", "create"} => ~HasRow(task.hash)

\* The inductive invariant.
Inv == TypeOK /\ Carries /\ Unique /\ Coherent /\ Kept /\ Matched

-----------------------------------------------------------------------------
(* The operators of the model.                                             *)

\* A fresh name is one of the fresh names.
LEMMA FastDfsName ==
    ASSUME NEW h, FreshNames(h) # {}
    PROVE  FastDfsPath(h) \in ({h} \X (Nat \ {0})) \ InUse
<1> DEFINE Less == OpToRel(<, Nat)
<1>1. FreshNames(h) \subseteq Nat \ {0}
  BY CatalogAssumption DEF FreshNames
<1>2. PICK n \in FreshNames(h) : \A m \in FreshNames(h) : <<m, n>> \notin Less
  <2> HIDE DEF Less
  <2> QED BY <1>1, NatLessThanWellFounded, WFMin DEF Less
<1>3. ASSUME NEW m \in FreshNames(h) PROVE n <= m
  <2>1. m \in Nat /\ n \in Nat
    BY <1>1
  <2>2. <<m, n>> \in {p \in Nat \X Nat : p[1] < p[2]} <=> m < n
    BY <2>1
  <2>3. <<m, n>> \notin {p \in Nat \X Nat : p[1] < p[2]}
    BY <1>2 DEF OpToRel
  <2> QED BY <2>1, <2>2, <2>3
<1>4. \E k \in FreshNames(h) : \A m \in FreshNames(h) : k <= m
  BY <1>3
<1> DEFINE k == CHOOSE k \in FreshNames(h) : \A m \in FreshNames(h) : k <= m
<1>5. k \in FreshNames(h)
  BY <1>4
<1>6. FastDfsPath(h) = <<h, k>>
  BY DEF FastDfsPath
<1>7. <<h, k>> \notin InUse
  BY <1>5 DEF FreshNames
<1> HIDE DEF k
<1>8. <<h, k>> \in {h} \X (Nat \ {0})
  BY <1>1, <1>5
<1> QED BY <1>6, <1>7, <1>8

\* A name stays fresh when nothing new is referred to.
LEMMA StillFresh ==
    ASSUME NEW h, InUse' \subseteq InUse, FreshNames(h) # {}
    PROVE  (FreshNames(h))' # {}
BY DEF FreshNames

LEMMA NoRowIsNone == NoRow \notin RowTypes /\ \A r \in RowTypes : r # NoRow
BY DEF NoRow, RowTypes

LEMMA KnownTypes == TypeOK => KnownRows \subseteq RowTypes \cup {NoRow}
BY DEF TypeOK, KnownRows, Range

\* FindById answers with the row, or with none and a fault.
LEMMA FoundById ==
    ASSUME TypeOK, NEW i, NEW r, FindById(i, r)
    PROVE  /\ dbFaults' \in Nat /\ dbFaults' >= dbFaults
           /\ r # NoRow => i \in DOMAIN files /\ r = files[i]
           /\ r = NoRow => i \notin DOMAIN files \/ dbFaults' > 0
BY NoRowIsNone DEF TypeOK, FindById, DbFault

LEMMA FoundByHash ==
    ASSUME TypeOK, NEW h, NEW r, FindByHash(h, r)
    PROVE  /\ dbFaults' \in Nat /\ dbFaults' >= dbFaults
           /\ r # NoRow => \E i \in DOMAIN files : r = files[i] /\ r.hash = h
           /\ r = NoRow => ~HasRow(h) \/ dbFaults' > 0
BY NoRowIsNone DEF TypeOK, FindByHash, DbFault, HasRow, Range

LEMMA RowRange == ASSUME NEW f, f \in [DOMAIN f -> RowTypes] PROVE Range(f) \subseteq RowTypes
BY DEF Range

LEMMA WithRow ==
    ASSUME NEW f, f \in [DOMAIN f -> RowTypes], NEW k, NEW r \in RowTypes
    PROVE  /\ With(f, k, r) \in [DOMAIN With(f, k, r) -> RowTypes]
           /\ Range(With(f, k, r)) \subseteq Range(f) \cup {r}
BY DEF With, Range

LEMMA WithoutRow ==
    ASSUME NEW f, f \in [DOMAIN f -> RowTypes], NEW K
    PROVE  /\ Without(f, K) \in [DOMAIN Without(f, K) -> RowTypes]
           /\ Range(Without(f, K)) \subseteq Range(f)
BY DEF Without, Range

\* What GetFileById answers, and what it leaves in the cache.
LEMMA GotById ==
    ASSUME TypeOK, NEW i, NEW r, GetFileById(i, r)
    PROVE  /\ dbFaults' \in Nat /\ dbFaults' >= dbFaults
           /\ \/ i \in DOMAIN idCache /\ cacheUp /\ r = idCache[i] /\ idCache' = idCache
              \/ i \in DOMAIN files /\ r = files[i]
                   /\ idCache' = IF cacheUp THEN With(idCache, i, r) ELSE idCache
              \/ r = NoRow /\ idCache' = idCache /\ (i \notin DOMAIN files \/ dbFaults' > 0)
BY FoundById DEF TypeOK, GetFileById, Hit, Cached

LEMMA GotByHash ==
    ASSUME TypeOK, NEW h, NEW r, GetFileByHash(h, r)
    PROVE  /\ dbFaults' \in Nat /\ dbFaults' >= dbFaults
           /\ \/ h \in DOMAIN hashCache /\ cacheUp /\ r = hashCache[h] /\ hashCache' = hashCache
              \/ \E i \in DOMAIN files :
                   /\ r = files[i] /\ r.hash = h
                   /\ hashCache' = IF cacheUp THEN With(hashCache, h, r) ELSE hashCache
              \/ r = NoRow /\ hashCache' = hashCache /\ (~HasRow(h) \/ dbFaults' > 0)
BY FoundByHash DEF TypeOK, GetFileByHash, Hit, Cached

\* The caches take in nothing but rows of the table.
LEMMA CachedRows ==
    ASSUME TypeOK, NEW k, NEW r,
           (GetFileById(k, r) /\ hashCache' = hashCache) \/ (GetFileByHash(k, r) /\ idCache' = idCache)
    PROVE  /\ idCache' \in [DOMAIN idCache' -> RowTypes]
           /\ hashCache' \in [DOMAIN hashCache' -> RowTypes]
           /\ Range(idCache') \subseteq Range(idCache) \cup Range(files)
           /\ Range(hashCache') \subseteq Range(hashCache) \cup Range(files)
           /\ r \in Range(files) \cup Range(idCache) \cup Range(hashCache) \cup {NoRow}
           /\ r # NoRow => r \in RowTypes
           /\ dbFaults' \in Nat /\ dbFaults' >= dbFaults
<1>1. CASE GetFileById(k, r) /\ hashCache' = hashCache
  <2>1. r \in Range(files) \cup Range(idCache) \cup {NoRow}
    BY <1>1, GotById DEF Range
  <2>2. CASE idCache' = idCache
    BY <1>1, <2>1, <2>2, GotById, RowRange, NoRowIsNone DEF TypeOK
  <2>3. CASE k \in DOMAIN files /\ r = files[k] /\ idCache' = With(idCache, k, r)
    <3>1. r \in RowTypes /\ r \in Range(files)
      BY <2>3 DEF TypeOK, Range
    <3> QED BY <1>1, <2>3, <3>1, GotById, WithRow DEF TypeOK
  <2> QED BY <1>1, <2>2, <2>3, GotById
<1>2. CASE GetFileByHash(k, r) /\ idCache' = idCache
  <2>1. r \in Range(files) \cup Range(hashCache) \cup {NoRow}
    BY <1>2, GotByHash DEF Range
  <2>2. CASE hashCache' = hashCache
    BY <1>2, <2>1, <2>2, GotByHash, RowRange, NoRowIsNone DEF TypeOK
  <2>3. CASE r \in Range(files) /\ hashCache' = With(hashCache, k, r)
    <3>1. r \in RowTypes
      BY <2>3, RowRange DEF TypeOK
    <3> QED BY <1>2, <2>3, <3>1, GotByHash, WithRow DEF TypeOK
  <2> QED BY <1>2, <2>2, <2>3, GotByHash DEF Range
<1> QED BY <1>1, <1>2

-----------------------------------------------------------------------------
(* The types, and what the handlers carry.                                 *)

LEMMA TypeInit == Init => TypeOK /\ Carries
<1> SUFFICES ASSUME Init PROVE TypeOK /\ Carries
  OBVIOUS
<1>1. DOMAIN Empty = {} /\ Empty = [x \in {} |-> NoRow] /\ Range(Empty) = {}
  BY DEF Empty, Range
<1>2. \A S : Empty \in [DOMAIN Empty -> S]
  BY <1>1
<1>3. fdfs \in BOOLEAN
  BY DEF Init, StorageAtStart
<1>4. TypeOK
  BY <1>1, <1>2, <1>3 DEF Init, TypeOK
<1>5. Carries
  BY <1>1 DEF Init, Carries, PathsFit, Before, At, NoTask
<1> QED BY <1>4, <1>5

LEMMA TaskShape ==
    ASSUME TypeOK
    PROVE  /\ task.op \in Ops => task \in Tasks
           /\ task.op = "none" <=> task = NoTask
           /\ task.op \in Ops <=> task # NoTask
BY DEF TypeOK, Tasks, NoTask, Ops

\* The steps that read one cache, and the table behind it.
Reads ==
    /\ \E k, r : (GetFileById(k, r) /\ hashCache' = hashCache) \/ (GetFileByHash(k, r) /\ idCache' = idCache)
    /\ UNCHANGED <<tables, store, cacheUp, crashes, config>>

LEMMA ReadingSteps ==
    ASSUME \/ UploadLookup \/ Download \/ Analyze \/ FileCheck \/ FetchServe
           \/ DeleteLookup \/ SaveOriginal \/ SaveDuplicate
    PROVE  Reads
<1> USE DEF tables, store
<1>1. CASE UploadLookup \/ FileCheck \/ SaveDuplicate
  <2>1. \E k, r : GetFileByHash(k, r)
    BY <1>1 DEF UploadLookup, FileCheck, SaveDuplicate
  <2> QED BY <1>1, <2>1 DEF Reads, UploadLookup, FileCheck, SaveDuplicate
<1>2. CASE Download \/ Analyze \/ FetchServe \/ DeleteLookup \/ SaveOriginal
  <2>1. \E k, r : GetFileById(k, r)
    BY <1>2 DEF Download, Analyze, FetchServe, DeleteLookup, SaveOriginal
  <2> QED BY <1>2, <2>1 DEF Reads, Download, Analyze, FetchServe, DeleteLookup, SaveOriginal
<1> QED BY <1>1, <1>2

LEMMA TypeStep == TypeOK /\ Carries /\ [Next]_vars => TypeOK'
<1> SUFFICES ASSUME TypeOK, Carries, [Next]_vars PROVE TypeOK'
  OBVIOUS
<1> USE DEF tables, store, caches, faults, Finish, GoTo, At
<1>0. task.op \in Ops => task \in Tasks
  BY TaskShape
<1>a. ASSUME Reads, task' \in {NoTask} \cup Tasks, blobFaults' \in Nat PROVE TypeOK'
  BY <1>a, CachedRows DEF Reads, TypeOK
<1>1. ASSUME NEW u \in Users, Request(u) PROVE TypeOK'
  BY <1>1 DEF Request, Begin, TypeOK, Tasks, Ops, Stages, Ids
<1>2. CASE PublicRequest
  BY <1>2 DEF PublicRequest, Begin, TypeOK, Tasks, Ops, Stages
<1>3. CASE UploadLookup
  <2>1. task' \in {NoTask} \cup Tasks /\ blobFaults' \in Nat
    BY <1>3, <1>0 DEF UploadLookup, Tasks, Ops, Stages, TypeOK
  <2> QED BY <1>3, <2>1, <1>a, ReadingSteps
<1>4. CASE StoreFile
  <2>1. task \in Tasks /\ Before /\ task.hash \in Hashes
    BY <1>4, <1>0 DEF StoreFile, Ops, Before, Carries
  <2> DEFINE p == IF fdfs THEN FastDfsPath(task.hash) ELSE LocalPath(task.hash)
  <2>2. p \in Paths
    BY <2>1, FastDfsName DEF Carries, Paths, LocalPath
  <2>3. \/ blobs' = blobs \cup {p} /\ task' = [task EXCEPT !.path = p, !.at = "create"]
             /\ UNCHANGED blobFaults
        \/ task' = NoTask /\ BlobFault /\ UNCHANGED blobs
    BY <1>4 DEF StoreFile
  <2> HIDE DEF p
  <2>4. task' \in {NoTask} \cup Tasks
    <3>1. [task EXCEPT !.path = p, !.at = "create"] \in Tasks
      BY <2>1, <2>2 DEF Tasks, Stages
    <3> QED BY <2>3, <3>1
  <2>5. blobs' \subseteq Paths /\ blobFaults' \in Nat
    BY <2>2, <2>3 DEF TypeOK, BlobFault
  <2> QED BY <1>4, <2>4, <2>5 DEF StoreFile, TypeOK
<1>5. CASE CreateCheck
  <2>1. PICK r \in KnownRows : /\ FindByHash(task.hash, r)
                               /\ IF r # NoRow THEN CreateReturns(r)
                                               ELSE GoTo("insert") /\ UNCHANGED store
    BY <1>5 DEF CreateCheck
  <2>2. task \in Tasks
    BY <1>5, <1>0 DEF CreateCheck, Creating, Ops
  <2>3. task' \in {NoTask} \cup Tasks
    BY <2>1, <2>2 DEF CreateReturns, Tasks, Stages
  <2>4. spare' \subseteq Paths /\ UNCHANGED <<blobs, fdfs>>
    BY <1>5, <2>1 DEF CreateReturns, TypeOK, Carries, CreateCheck, Creating
  <2>5. dbFaults' \in Nat
    BY <2>1, FoundByHash
  <2> QED BY <1>5, <2>3, <2>4, <2>5 DEF CreateCheck, TypeOK
<1>6. CASE CreateInsert
  <2>1. task \in Tasks
    BY <1>6, <1>0 DEF CreateInsert, Creating, Ops
  <2>2. NewRow \in RowTypes /\ NewRow.id = nextId
    BY <1>6 DEF CreateInsert, Creating, NewRow, RowTypes, Carries, TypeOK
  <2>3. \/ files' = With(files, nextId, NewRow) /\ nextId' = nextId + 1
        \/ UNCHANGED <<files, nextId>>
    BY <1>6 DEF CreateInsert, Update
  <2>4. /\ nextId' \in Nat \ {0} /\ files' \in [DOMAIN files' -> RowTypes]
        /\ \A i \in DOMAIN files' : files'[i].id = i /\ i < nextId'
    <3>1. CASE files' = With(files, nextId, NewRow) /\ nextId' = nextId + 1
      <4>1. files' \in [DOMAIN files' -> RowTypes]
        BY <2>2, <3>1, WithRow DEF TypeOK
      <4>2. ASSUME NEW i \in DOMAIN files' PROVE files'[i].id = i /\ i < nextId'
        <5>1. (i = nextId /\ files'[i] = NewRow) \/ (i \in DOMAIN files /\ files'[i] = files[i])
          BY <3>1 DEF With
        <5>2. i \in DOMAIN files => files[i].id = i /\ files[i] \in RowTypes
          BY DEF TypeOK
        <5>3. i \in Nat
          BY <5>1, <5>2 DEF RowTypes, TypeOK
        <5> QED BY <2>2, <3>1, <5>1, <5>2, <5>3 DEF TypeOK
      <4> QED BY <3>1, <4>1, <4>2 DEF TypeOK
    <3>2. CASE UNCHANGED <<files, nextId>>
      BY <3>2 DEF TypeOK
    <3> QED BY <2>3, <3>1, <3>2
  <2>5. task' \in {NoTask} \cup Tasks /\ blobs' \subseteq blobs /\ dbFaults' \in Nat
        /\ UNCHANGED <<fdfs, spare, idCache, hashCache>>
    BY <1>6, <2>1 DEF CreateInsert, CreateFails, Update, DbFault, Tasks, Stages, TypeOK
  <2> QED BY <1>6, <2>4, <2>5 DEF CreateInsert, TypeOK
<1>7. CASE CreateReload
  <2>1. PICK r \in KnownRows :
          /\ FindByHash(task.hash, r)
          /\ IF r = NoRow THEN CreateFails
             ELSE /\ idCache' = Cached(idCache, r.id, r)
                  /\ hashCache' = Cached(hashCache, r.hash, r)
                  /\ CreateReturns(r)
    BY <1>7 DEF CreateReload
  <2>2. r # NoRow => r \in RowTypes
    BY KnownTypes
  <2>3. idCache' = idCache \/ (r # NoRow /\ idCache' = With(idCache, r.id, r))
    BY <2>1 DEF Cached, CreateFails
  <2>4. hashCache' = hashCache \/ (r # NoRow /\ hashCache' = With(hashCache, r.hash, r))
    BY <2>1 DEF Cached, CreateFails
  <2>5. idCache' \in [DOMAIN idCache' -> RowTypes]
    BY <2>2, <2>3, WithRow DEF TypeOK
  <2>6. hashCache' \in [DOMAIN hashCache' -> RowTypes]
    BY <2>2, <2>4, WithRow DEF TypeOK
  <2>7. blobs' \subseteq blobs /\ spare' \subseteq Paths /\ fdfs' = fdfs
    BY <1>7, <2>1 DEF CreateReload, CreateReturns, CreateFails, Creating, Carries, TypeOK
  <2>8. dbFaults' \in Nat
    BY <2>1, FoundByHash
  <2>9. task' = NoTask
    BY <2>1 DEF CreateReturns, CreateFails
  <2> QED BY <1>7, <2>5, <2>6, <2>7, <2>8, <2>9 DEF CreateReload, TypeOK
<1>8. CASE Download \/ FetchServe
  <2>1. task' \in {NoTask} \cup Tasks /\ blobFaults' \in Nat
    BY <1>8 DEF Download, FetchServe, Serve, BlobFault, TypeOK
  <2> QED BY <1>8, <2>1, <1>a, ReadingSteps
<1>9. CASE Analyze \/ FileCheck
  <2>1. task' \in {NoTask} \cup Tasks /\ blobFaults' \in Nat
    BY <1>9 DEF Analyze, FileCheck, TypeOK
  <2> QED BY <1>9, <2>1, <1>a, ReadingSteps
<1>10. CASE FetchShare \/ SaveLookup
  <2>1. task \in Tasks
    BY <1>10, <1>0 DEF FetchShare, SaveLookup, Ops
  <2>2. PICK s \in Range(shares) \cup {NoRow} :
          /\ FindShare(task.token, s)
          /\ \/ task' = NoTask
             \/ s # NoRow /\ \E at \in Stages : task' = [task EXCEPT !.at = at, !.id = s.file]
    BY <1>10 DEF FetchShare, SaveLookup, Stages
  <2>3. s # NoRow => s.file \in Nat
    BY DEF Range, TypeOK, ShareTypes
  <2>4. task' \in {NoTask} \cup Tasks
    BY <2>1, <2>2, <2>3 DEF Tasks
  <2>5. dbFaults' \in Nat
    <3>1. dbFaults' = dbFaults \/ dbFaults' = dbFaults + 1
      BY <2>2 DEF FindShare, DbFault
    <3> QED BY <3>1 DEF TypeOK
  <2> QED BY <1>10, <2>4, <2>5 DEF FetchShare, SaveLookup, TypeOK
<1>11. CASE DeleteLookup \/ SaveOriginal
  <2>1. task \in Tasks
    BY <1>11, <1>0 DEF DeleteLookup, SaveOriginal, Ops
  <2>2. PICK r \in KnownRows :
          \/ task' = NoTask
          \/ r # NoRow /\ \E at \in Stages, h \in {task.hash, r.hash} :
               task' = [task EXCEPT !.at = at, !.hash = h, !.path = r.path]
    <3>1. CASE DeleteLookup
      <4>1. PICK r \in KnownRows : \/ task' = NoTask
                                   \/ /\ r # NoRow
                                      /\ task' = [task EXCEPT !.at = "unlink", !.path = r.path]
        BY <3>1 DEF DeleteLookup, MayUse
      <4>2. task' # NoTask =>
              task' = [task EXCEPT !.at = "unlink", !.hash = task.hash, !.path = r.path]
        BY <2>1, <4>1 DEF Tasks
      <4> QED BY <4>1, <4>2 DEF Stages
    <3>2. CASE SaveOriginal
      BY <3>2 DEF SaveOriginal, Stages
    <3> QED BY <1>11, <3>1, <3>2
  <2>3. r # NoRow => r \in RowTypes
    BY KnownTypes
  <2>4. task' \in {NoTask} \cup Tasks
    <3>1. CASE r # NoRow
      <4>1. task.hash \in Hashes \cup {"-"} /\ r.hash \in Hashes /\ r.path \in Paths
        BY <2>1, <2>3, <3>1 DEF Tasks, RowTypes
      <4>2. \A at \in Stages, h \in {task.hash, r.hash} :
              [task EXCEPT !.at = at, !.hash = h, !.path = r.path] \in Tasks
        BY <2>1, <4>1 DEF Tasks
      <4> QED BY <2>2, <3>1, <4>2
    <3>2. CASE r = NoRow
      BY <2>2, <3>2
    <3> QED BY <3>1, <3>2
  <2>5. blobFaults' \in Nat
    BY <1>11 DEF DeleteLookup, SaveOriginal, TypeOK
  <2> QED BY <1>11, <2>4, <2>5, <1>a, ReadingSteps
<1>12. CASE DeleteBlob
  <2>1. task \in Tasks
    BY <1>12, <1>0 DEF DeleteBlob, Ops
  <2> QED BY <1>12, <2>1 DEF DeleteBlob, BlobFault, Tasks, Stages, TypeOK
<1>13. CASE DeleteForget
  <2>1. task \in Tasks
    BY <1>13, <1>0 DEF DeleteForget, Ops
  <2>2. idCache' \in [DOMAIN idCache' -> RowTypes] /\ hashCache' \in [DOMAIN hashCache' -> RowTypes]
    BY <1>13, WithoutRow DEF DeleteForget, Dropped, TypeOK
  <2> QED BY <1>13, <2>1, <2>2 DEF DeleteForget, Tasks, Stages, TypeOK
<1>14. CASE DeleteRow
  <2>1. files' = files \/ files' = Without(files, {task.id})
    BY <1>14 DEF DeleteRow, Update
  <2>2. shares' = shares \/ \E K : shares' = Without(shares, K)
    BY <1>14 DEF DeleteRow, Update
  <2>3. files' \in [DOMAIN files' -> RowTypes]
    BY <2>1, WithoutRow DEF TypeOK
  <2>4. \A i \in DOMAIN files' : i \in DOMAIN files /\ files'[i] = files[i]
    BY <2>1 DEF Without
  <2>5. shares' \in [DOMAIN shares' -> ShareTypes] /\ DOMAIN shares' \subseteq Tokens
    BY <2>2 DEF Without, TypeOK
  <2> QED BY <1>14, <2>3, <2>4, <2>5 DEF DeleteRow, Update, DbFault, TypeOK
<1>15. CASE ShareLookup
  <2>1. task \in Tasks
    BY <1>15, <1>0 DEF ShareLookup, Ops
  <2>2. dbFaults' \in Nat
    BY <1>15, FoundById DEF ShareLookup
  <2> QED BY <1>15, <2>1, <2>2 DEF ShareLookup, Tasks, Stages, TypeOK
<1>16. CASE ShareInsert
  <2>1. task \in Tasks /\ task.user \in Users
    BY <1>16, <1>0 DEF ShareInsert, Ops, Carries
  <2> DEFINE s == [file |-> task.id, user |-> task.user, expired |-> FALSE]
  <2>2. s \in ShareTypes
    BY <2>1 DEF ShareTypes, Tasks
  <2>3. shares' = shares \/ shares' = With(shares, task.token, s)
    BY <1>16 DEF ShareInsert, Update
  <2> HIDE DEF s
  <2>4. shares' \in [DOMAIN shares' -> ShareTypes]
    BY <2>2, <2>3 DEF With, TypeOK
  <2>5. DOMAIN shares' \subseteq Tokens
    BY <1>16, <2>3 DEF With, TypeOK, Carries, ShareInsert
  <2> QED BY <1>16, <2>4, <2>5 DEF ShareInsert, Update, DbFault, TypeOK
<1>17. CASE UnshareLookup
  <2>1. task \in Tasks
    BY <1>17, <1>0 DEF UnshareLookup, Ops
  <2> QED BY <1>17, <2>1 DEF UnshareLookup, FindShare, DbFault, Tasks, Stages, TypeOK
<1>18. CASE UnshareErase
  <2>1. shares' \in [DOMAIN shares' -> ShareTypes] /\ DOMAIN shares' \subseteq Tokens
    BY <1>18 DEF UnshareErase, Update, Without, TypeOK
  <2> QED BY <1>18, <2>1 DEF UnshareErase, Update, DbFault, TypeOK
<1>19. CASE SaveDuplicate
  <2>1. task' \in {NoTask} \cup Tasks /\ blobFaults' \in Nat
    BY <1>19, <1>0 DEF SaveDuplicate, Tasks, Ops, Stages, TypeOK
  <2> QED BY <1>19, <2>1, <1>a, ReadingSteps
<1>20. CASE ShareExpires
  <2>1. shares' \in [DOMAIN shares' -> ShareTypes] /\ DOMAIN shares' = DOMAIN shares
    <3>1. PICK t \in DOMAIN shares : shares' = [shares EXCEPT ![t].expired = TRUE]
      BY <1>20 DEF ShareExpires
    <3>2. \A x \in DOMAIN shares : shares[x] \in ShareTypes
      BY DEF TypeOK
    <3>3. [shares[t] EXCEPT !.expired = TRUE] \in ShareTypes
      BY <3>2 DEF ShareTypes
    <3>4. shares' = [shares EXCEPT ![t] = [shares[t] EXCEPT !.expired = TRUE]]
      BY <3>1
    <3> QED BY <3>2, <3>3, <3>4 DEF TypeOK
  <2> QED BY <1>20, <2>1 DEF ShareExpires, TypeOK
<1>21. CASE Evict
  <2>1. idCache' \in [DOMAIN idCache' -> RowTypes] /\ hashCache' \in [DOMAIN hashCache' -> RowTypes]
    <3>1. PICK K : idCache' = idCache \/ idCache' = Without(idCache, K)
      BY <1>21 DEF Evict
    <3>2. PICK L : hashCache' = hashCache \/ hashCache' = Without(hashCache, L)
      BY <1>21 DEF Evict
    <3>3. Without(idCache, K) \in [DOMAIN Without(idCache, K) -> RowTypes]
      BY WithoutRow DEF TypeOK
    <3>4. Without(hashCache, L) \in [DOMAIN Without(hashCache, L) -> RowTypes]
      BY WithoutRow DEF TypeOK
    <3> QED BY <3>1, <3>2, <3>3, <3>4 DEF TypeOK
  <2> QED BY <1>21, <2>1 DEF Evict, TypeOK
<1>22. CASE RedisLost
  BY <1>22 DEF RedisLost, TypeOK
<1>23. CASE Crash
  <2>1. Empty \in [DOMAIN Empty -> RowTypes]
    BY DEF Empty
  <2>2. idCache' \in [DOMAIN idCache' -> RowTypes] /\ hashCache' \in [DOMAIN hashCache' -> RowTypes]
    BY <1>23, <2>1 DEF Crash, TypeOK
  <2>3. fdfs' \in BOOLEAN
    BY <1>23 DEF Crash, StorageAtStart
  <2> QED BY <1>23, <2>2, <2>3 DEF Crash, TypeOK
<1>24. CASE UNCHANGED vars
  BY <1>24 DEF vars, TypeOK
<1> QED
  BY <1>1, <1>2, <1>3, <1>4, <1>5, <1>6, <1>7, <1>8, <1>9, <1>10, <1>11, <1>12, <1>13, <1>14,
     <1>15, <1>16, <1>17, <1>18, <1>19, <1>20, <1>21, <1>22, <1>23, <1>24
  DEF Next, UploadStep, ReadStep, DeleteStep, ShareStep

LEMMA FewerRows ==
    ASSUME Range(files') \subseteq Range(files),
           Range(idCache') \subseteq Range(idCache) \cup Range(files),
           Range(hashCache') \subseteq Range(hashCache) \cup Range(files)
    PROVE  PathsFit => PathsFit'
BY DEF PathsFit

\* What is known only shrinks.
LEMMA FewerNames ==
    ASSUME Range(files') \subseteq Range(files), blobs' \subseteq blobs,
           Range(idCache') \subseteq Range(idCache) \cup Range(files),
           Range(hashCache') \subseteq Range(hashCache) \cup Range(files)
    PROVE  InUse' \subseteq InUse
BY DEF InUse, KnownRows

LEMMA SameNames ==
    ASSUME UNCHANGED <<files, idCache, hashCache, blobs>>
    PROVE  PathsFit' = PathsFit /\ InUse' = InUse
BY DEF PathsFit, InUse, KnownRows

LEMMA CarriesStep == TypeOK /\ Carries /\ [Next]_vars => Carries'
<1> SUFFICES ASSUME TypeOK, Carries, [Next]_vars PROVE Carries'
  OBVIOUS
<1> USE DEF tables, store, caches, faults, Finish, GoTo, At
<1>0. task.op \in Ops => task \in Tasks
  BY TaskShape
<1>a. PathsFit
  BY DEF Carries
<1>c. ASSUME Reads PROVE PathsFit' /\ InUse' \subseteq InUse
  BY <1>a, <1>c, FewerRows, FewerNames, CachedRows DEF Reads
<1>d. ASSUME task' = NoTask, PathsFit' PROVE Carries'
  BY <1>d DEF Carries, NoTask, Before
<1>1. ASSUME NEW u \in Users, Request(u) PROVE Carries'
  <2>1. UNCHANGED <<files, idCache, hashCache, blobs, fdfs>>
    BY <1>1 DEF Request, Begin
  <2>2. PathsFit' /\ InUse' = InUse
    BY <1>a, <2>1, SameNames
  <2>3. /\ task'.op \in {"upload", "complete", "save", "share"} => task'.user \in Users
        /\ task'.op = "share" => task'.token \in Tokens
        /\ task'.op \in {"upload", "complete"} =>
              task'.hash \in Hashes /\ (fdfs => FreshNames(task'.hash) # {})
        /\ task'.at = "start" /\ task'.op # "fetch"
    BY <1>1 DEF Request, Begin, Nameable
  <2>4. Before' /\ fdfs' => (FreshNames(task.hash))' # {}
    BY <2>1, <2>2, <2>3 DEF Before, FreshNames
  <2> QED BY <2>2, <2>3, <2>4 DEF Carries
<1>2. CASE PublicRequest
  <2>1. PathsFit'
    BY <1>2, <1>a, SameNames DEF PublicRequest, Begin
  <2> QED BY <1>2, <2>1 DEF PublicRequest, Begin, Carries, Before
<1>3. CASE UploadLookup
  <2>1. PathsFit' /\ InUse' \subseteq InUse /\ fdfs' = fdfs
    BY <1>3, <1>c, ReadingSteps DEF Reads
  <2>2. task \in Tasks /\ Before
    BY <1>3, <1>0 DEF UploadLookup, Ops, Before
  <2>3. task' = NoTask \/ task' = [task EXCEPT !.at = "store"]
    BY <1>3 DEF UploadLookup
  <2>4. CASE task' = [task EXCEPT !.at = "store"]
    <3>1. /\ task'.op = "upload" /\ task'.at = "store" /\ task'.user = task.user
          /\ task'.hash = task.hash
      BY <1>3, <2>2, <2>4 DEF Tasks, UploadLookup
    <3>2. fdfs' => (FreshNames(task.hash))' # {}
      BY <2>1, <2>2, <3>1, StillFresh DEF FreshNames, Carries
    <3> QED BY <1>3, <2>1, <3>1, <3>2 DEF Carries, UploadLookup
  <2> QED BY <2>1, <2>3, <2>4, <1>d
<1>4. CASE StoreFile
  <2>1. task \in Tasks /\ Before /\ task.hash \in Hashes /\ task.op \in {"upload", "complete"}
    BY <1>4, <1>0 DEF StoreFile, Ops, Before, Carries
  <2> DEFINE p == IF fdfs THEN FastDfsPath(task.hash) ELSE LocalPath(task.hash)
  <2>2. p \in Paths /\ p[1] = task.hash
    BY <2>1, FastDfsName DEF Carries, Paths, LocalPath
  <2>3. PathsFit'
    BY <1>4, <1>a DEF StoreFile, PathsFit
  <2>4. task' = [task EXCEPT !.path = p, !.at = "create"] \/ task' = NoTask
    BY <1>4 DEF StoreFile
  <2> HIDE DEF p
  <2>5. CASE task' = [task EXCEPT !.path = p, !.at = "create"]
    <3>1. /\ task'.op = task.op /\ task'.at = "create" /\ task'.user = task.user
          /\ task'.hash = task.hash /\ task'.path = p
      BY <2>1, <2>5 DEF Tasks
    <3> QED BY <2>1, <2>2, <2>3, <3>1 DEF Carries, Before
  <2> QED BY <2>3, <2>4, <2>5, <1>d
<1>5. CASE CreateCheck \/ CreateInsert
  <2>1. task \in Tasks /\ task.op \in {"upload", "complete", "save"} /\ task.at \in {"create", "insert"}
    BY <1>5, <1>0 DEF CreateCheck, CreateInsert, Creating, Ops
  <2>2. PathsFit'
    <3>1. CASE CreateCheck
      BY <1>a, <3>1 DEF CreateCheck, PathsFit
    <3>2. CASE CreateInsert
      <4>1. NewRow.path[1] = NewRow.hash
        BY <2>1 DEF NewRow, Carries
      <4>2. UNCHANGED <<idCache, hashCache>>
        BY <3>2 DEF CreateInsert, CreateFails
      <4>3. files' = files \/ files' = With(files, nextId, NewRow)
        BY <3>2 DEF CreateInsert, Update
      <4>4. Range(files') \subseteq Range(files) \cup {NewRow}
        BY <4>3 DEF With, Range
      <4> HIDE DEF NewRow
      <4> QED BY <1>a, <4>1, <4>2, <4>4 DEF PathsFit
    <3> QED BY <1>5, <3>1, <3>2
  <2>3. task' = NoTask \/ \E at \in {"insert", "reload"} : task' = [task EXCEPT !.at = at]
    BY <1>5 DEF CreateCheck, CreateInsert, CreateReturns, CreateFails
  <2>4. ASSUME NEW at \in {"insert", "reload"}, task' = [task EXCEPT !.at = at] PROVE Carries'
    <3>1. /\ task'.op = task.op /\ task'.at = at /\ task'.user = task.user
          /\ task'.hash = task.hash /\ task'.path = task.path
      BY <2>1, <2>4 DEF Tasks
    <3> QED BY <2>1, <2>2, <3>1 DEF Carries, Before
  <2> QED BY <2>2, <2>3, <2>4, <1>d
<1>6. CASE CreateReload
  <2>1. task' = NoTask /\ files' = files
    BY <1>6 DEF CreateReload, CreateReturns, CreateFails
  <2>2. PICK r : /\ FindByHash(task.hash, r)
                 /\ idCache' = idCache \/ (r # NoRow /\ idCache' = With(idCache, r.id, r))
                 /\ hashCache' = hashCache \/ (r # NoRow /\ hashCache' = With(hashCache, r.hash, r))
    BY <1>6 DEF CreateReload, Cached, CreateFails
  <2>3. r # NoRow => r \in Range(files)
    BY <2>2, FoundByHash DEF Range
  <2>4. Range(idCache') \subseteq Range(idCache) \cup Range(files)
    BY <2>2, <2>3 DEF With, Range
  <2>5. Range(hashCache') \subseteq Range(hashCache) \cup Range(files)
    BY <2>2, <2>3 DEF With, Range
  <2> QED BY <2>1, <2>4, <2>5, <1>a, <1>d, FewerRows
<1>7. CASE Download \/ Analyze \/ FileCheck \/ FetchServe
  <2>1. task' = NoTask
    BY <1>7 DEF Download, Analyze, FileCheck, FetchServe, Serve
  <2> QED BY <1>7, <2>1, <1>c, <1>d, ReadingSteps
<1>8. CASE FetchShare \/ UnshareLookup \/ SaveLookup \/ ShareLookup
  <2>1. PathsFit' /\ task \in Tasks
    BY <1>8, <1>a, <1>0, SameNames DEF FetchShare, UnshareLookup, SaveLookup, ShareLookup, Ops
  <2>2. \/ task' = NoTask
        \/ \E at \in {"serve", "erase", "original", "insert"} : \E i :
              /\ task' = [task EXCEPT !.at = at, !.id = i]
              /\ task.op \in {"fetch", "unshare", "save", "share"}
              /\ at = "insert" => task.op = "share"
    <3>1. [task EXCEPT !.at = "erase"] = [task EXCEPT !.at = "erase", !.id = task.id]
          /\ [task EXCEPT !.at = "insert"] = [task EXCEPT !.at = "insert", !.id = task.id]
      BY <2>1 DEF Tasks
    <3>2. CASE FetchShare
      BY <3>2 DEF FetchShare
    <3>3. CASE UnshareLookup
      BY <3>1, <3>3 DEF UnshareLookup
    <3>4. CASE SaveLookup
      BY <3>4 DEF SaveLookup
    <3>5. CASE ShareLookup
      BY <3>1, <3>5 DEF ShareLookup
    <3> QED BY <1>8, <3>2, <3>3, <3>4, <3>5
  <2>3. ASSUME NEW at \in {"serve", "erase", "original", "insert"}, NEW i,
               task' = [task EXCEPT !.at = at, !.id = i],
               task.op \in {"fetch", "unshare", "save", "share"}, at = "insert" => task.op = "share"
        PROVE  Carries'
    <3>1. /\ task'.op = task.op /\ task'.at = at /\ task'.user = task.user
          /\ task'.token = task.token
      BY <2>1, <2>3 DEF Tasks
    <3> QED BY <2>1, <2>3, <3>1 DEF Carries, Before
  <2> QED BY <2>1, <2>2, <2>3, <1>d
<1>9. CASE DeleteLookup
  <2>1. PathsFit' /\ task \in Tasks
    BY <1>9, <1>c, <1>0, ReadingSteps DEF DeleteLookup, Ops
  <2>2. task' = NoTask \/ task'.op = "delete"
    BY <1>9, <2>1 DEF DeleteLookup, Tasks
  <2> QED BY <2>1, <2>2, <1>d DEF Carries, Before
<1>10. CASE SaveOriginal
  <2>1. PathsFit' /\ task \in Tasks /\ task.op = "save"
    BY <1>10, <1>c, <1>0, ReadingSteps DEF SaveOriginal, Ops
  <2>2. PICK r : /\ GetFileById(task.id, r) /\ UNCHANGED hashCache
                 /\ IF r = NoRow THEN task' = NoTask
                    ELSE task' = [task EXCEPT !.at = "dup", !.hash = r.hash, !.path = r.path]
    BY <1>10 DEF SaveOriginal
  <2>3. r # NoRow => r \in RowTypes /\ r \in Range(files) \cup Range(idCache) \cup Range(hashCache)
    BY <2>2, CachedRows
  <2>4. CASE r # NoRow
    <3>1. task'.op = "save" /\ task'.user = task.user /\ task'.hash = r.hash /\ task'.path = r.path
          /\ task'.at = "dup"
      BY <2>1, <2>2, <2>4 DEF Tasks
    <3>2. r.hash \in Hashes /\ r.path \in Paths /\ r.path[1] = r.hash
      BY <2>3, <2>4, <1>a DEF PathsFit, RowTypes
    <3> QED BY <2>1, <3>1, <3>2 DEF Carries, Before
  <2> QED BY <2>1, <2>2, <2>4, <1>d
<1>11. CASE SaveDuplicate
  <2>1. PathsFit' /\ task \in Tasks /\ task.op = "save" /\ task.at = "dup"
    BY <1>11, <1>c, <1>0, ReadingSteps DEF SaveDuplicate, Ops
  <2>2. task' = NoTask \/ task' = [task EXCEPT !.at = "create"]
    BY <1>11 DEF SaveDuplicate
  <2>3. CASE task' = [task EXCEPT !.at = "create"]
    <3>1. /\ task'.op = "save" /\ task'.user = task.user /\ task'.hash = task.hash
          /\ task'.path = task.path /\ task'.at = "create"
      BY <2>1, <2>3 DEF Tasks
    <3> QED BY <2>1, <3>1 DEF Carries, Before
  <2> QED BY <2>1, <2>2, <2>3, <1>d
<1>12. CASE DeleteBlob \/ DeleteForget
  <2>1. task \in Tasks /\ task'.op = "delete"
    BY <1>12, <1>0 DEF DeleteBlob, DeleteForget, Ops, Tasks
  <2>2. files' = files
    BY <1>12 DEF DeleteBlob, DeleteForget
  <2>3. Range(idCache') \subseteq Range(idCache)
    BY <1>12, WithoutRow DEF DeleteBlob, DeleteForget, Dropped, TypeOK
  <2>4. Range(hashCache') \subseteq Range(hashCache)
    BY <1>12, WithoutRow DEF DeleteBlob, DeleteForget, Dropped, TypeOK
  <2>5. PathsFit'
    BY <1>a, <2>2, <2>3, <2>4, FewerRows
  <2> QED BY <2>1, <2>5 DEF Carries, Before
<1>13. CASE DeleteRow \/ ShareInsert \/ UnshareErase
  <2>1. task' = NoTask /\ UNCHANGED <<idCache, hashCache>>
    BY <1>13 DEF DeleteRow, ShareInsert, UnshareErase
  <2>2. files' = files \/ files' = Without(files, {task.id})
    BY <1>13 DEF DeleteRow, ShareInsert, UnshareErase, Update
  <2>3. Range(files') \subseteq Range(files)
    BY <2>2, WithoutRow DEF TypeOK
  <2> QED BY <2>1, <2>3, <1>a, <1>d, FewerRows
<1>14. CASE ShareExpires \/ RedisLost \/ UNCHANGED vars
  <2>1. UNCHANGED <<files, idCache, hashCache, blobs, task, fdfs>>
    BY <1>14 DEF ShareExpires, RedisLost, vars
  <2>2. InUse' = InUse /\ PathsFit'
    BY <2>1, <1>a, SameNames
  <2> QED BY <2>1, <2>2 DEF Carries, Before, FreshNames
<1>15. CASE Evict
  <2>1. UNCHANGED <<files, blobs, task, fdfs>>
    BY <1>15 DEF Evict
  <2>2. idCache' = idCache \/ \E i : idCache' = Without(idCache, {i})
    BY <1>15 DEF Evict
  <2>3. hashCache' = hashCache \/ \E h : hashCache' = Without(hashCache, {h})
    BY <1>15 DEF Evict
  <2>4. Range(idCache') \subseteq Range(idCache)
    BY <2>2, WithoutRow DEF TypeOK
  <2>5. Range(hashCache') \subseteq Range(hashCache)
    BY <2>3, WithoutRow DEF TypeOK
  <2>6. PathsFit' /\ InUse' \subseteq InUse
    BY <2>1, <2>4, <2>5, <1>a, FewerRows, FewerNames
  <2>7. Before' /\ fdfs' => (FreshNames(task.hash))' # {}
    BY <2>1, <2>6, StillFresh DEF Before, FreshNames, Carries
  <2> QED BY <2>1, <2>6, <2>7 DEF Carries
<1>16. CASE Crash
  <2>1. task' = NoTask /\ files' = files
    BY <1>16 DEF Crash
  <2>2. Range(idCache') \subseteq Range(idCache) /\ Range(hashCache') \subseteq Range(hashCache)
    BY <1>16 DEF Crash, Empty, Range
  <2> QED BY <2>1, <2>2, <1>a, <1>d, FewerRows
<1> QED
  BY <1>1, <1>2, <1>3, <1>4, <1>5, <1>6, <1>7, <1>8, <1>9, <1>10, <1>11, <1>12, <1>13, <1>14,
     <1>15, <1>16
  DEF Next, UploadStep, ReadStep, DeleteStep, ShareStep

-----------------------------------------------------------------------------
(* Faults are never taken back, and one that a step meets excuses it.      *)

LEMMA FaultsGrow ==
    ASSUME TypeOK, [Next]_vars
    PROVE  /\ dbFaults' \in Nat /\ blobFaults' \in Nat /\ crashes' \in Nat
           /\ dbFaults' >= dbFaults /\ blobFaults' >= blobFaults /\ crashes' >= crashes
           /\ config' = config
<1> USE DEF faults, TypeOK
<1>1. CASE \/ (\E u \in Users : Request(u)) \/ PublicRequest \/ ShareExpires \/ Evict \/ RedisLost
           \/ UNCHANGED vars
  BY <1>1 DEF Request, PublicRequest, Begin, ShareExpires, Evict, RedisLost, vars
<1>2. CASE \/ UploadLookup \/ Download \/ Analyze \/ FileCheck \/ FetchServe
           \/ DeleteLookup \/ SaveOriginal \/ SaveDuplicate
  <2>1. Reads
    BY <1>2, ReadingSteps
  <2>2. dbFaults' \in Nat /\ dbFaults' >= dbFaults /\ UNCHANGED <<crashes, config>>
    BY <2>1, CachedRows DEF Reads
  <2>3. blobFaults' = blobFaults \/ BlobFault
    BY <1>2 DEF UploadLookup, Download, Analyze, FileCheck, FetchServe, DeleteLookup,
                SaveOriginal, SaveDuplicate, Serve
  <2> QED BY <2>2, <2>3 DEF BlobFault
<1>3. CASE StoreFile \/ DeleteBlob \/ DeleteForget
  BY <1>3 DEF StoreFile, DeleteBlob, DeleteForget, BlobFault
<1>4. CASE \/ CreateCheck \/ CreateReload \/ ShareLookup
  BY <1>4, FoundById, FoundByHash DEF CreateCheck, CreateReload, ShareLookup
<1>5. CASE FetchShare \/ UnshareLookup \/ SaveLookup
  <2>1. UNCHANGED <<blobFaults, crashes, config>>
    BY <1>5 DEF FetchShare, UnshareLookup, SaveLookup
  <2>2. dbFaults' = dbFaults \/ DbFault
    BY <1>5 DEF FetchShare, UnshareLookup, SaveLookup, FindShare
  <2> QED BY <2>1, <2>2 DEF DbFault
<1>6. CASE CreateInsert \/ DeleteRow \/ ShareInsert \/ UnshareErase
  <2>1. UNCHANGED <<blobFaults, crashes, config>>
    BY <1>6 DEF CreateInsert, DeleteRow, ShareInsert, UnshareErase
  <2>2. dbFaults' = dbFaults \/ DbFault
    BY <1>6 DEF CreateInsert, DeleteRow, ShareInsert, UnshareErase, Update
  <2> QED BY <2>1, <2>2 DEF DbFault
<1>7. CASE Crash
  BY <1>7 DEF Crash
<1> QED BY <1>1, <1>2, <1>3, <1>4, <1>5, <1>6, <1>7
        DEF Next, UploadStep, ReadStep, DeleteStep, ShareStep

-----------------------------------------------------------------------------
(* Deduplication.                                                          *)

LEMMA UniqueStep == TypeOK /\ Carries /\ Unique /\ [Next]_vars => Unique'
<1> SUFFICES ASSUME TypeOK, Carries, Unique, [Next]_vars, dbFaults' = 0 PROVE Unique'
  BY DEF Unique
<1> USE DEF tables, store, caches, faults, Finish, GoTo, At
<1>0. task.op \in Ops => task \in Tasks
  BY TaskShape
<1>a. dbFaults = 0
  BY FaultsGrow DEF TypeOK
<1>b. ASSUME files' = files,
             task' = task \/ task'.op \notin {"upload", "complete", "save"}
                          \/ task'.at \notin {"insert", "reload"}
      PROVE  Unique'
  BY <1>a, <1>b DEF Unique, Creating, HasRow
<1>1. CASE (\E u \in Users : Request(u)) \/ PublicRequest
  <2>1. files' = files /\ task'.at = "start"
    BY <1>1 DEF Request, PublicRequest, Begin
  <2> QED BY <2>1, <1>b
<1>2. CASE UploadLookup \/ StoreFile \/ SaveLookup \/ SaveOriginal \/ SaveDuplicate
  <2>1. task \in Tasks /\ files' = files
    BY <1>2, <1>0 DEF UploadLookup, StoreFile, SaveLookup, SaveOriginal, SaveDuplicate, Ops
  <2>2. task' = NoTask \/ task'.at \in {"store", "create", "original", "dup"}
    BY <1>2, <2>1 DEF UploadLookup, StoreFile, SaveLookup, SaveOriginal, SaveDuplicate, Tasks
  <2> QED BY <2>1, <2>2, <1>b DEF NoTask
<1>3. CASE CreateCheck
  <2>1. task \in Tasks /\ files' = files
    BY <1>3, <1>0 DEF CreateCheck, Creating, Ops
  <2>2. PICK r \in KnownRows : /\ FindByHash(task.hash, r)
                               /\ IF r # NoRow THEN task' = NoTask
                                               ELSE task' = [task EXCEPT !.at = "insert"]
    BY <1>3 DEF CreateCheck, CreateReturns
  <2>3. CASE r = NoRow
    <3>1. ~HasRow(task.hash) /\ task'.hash = task.hash /\ task'.at = "insert"
      BY <2>1, <2>2, <2>3, FoundByHash DEF Tasks
    <3> QED BY <1>a, <2>1, <3>1 DEF Unique, Creating, HasRow
  <2> QED BY <2>1, <2>2, <2>3, <1>b DEF NoTask
<1>4. CASE CreateInsert
  <2>1. task \in Tasks /\ ~HasRow(task.hash)
    BY <1>4, <1>0, <1>a DEF CreateInsert, Creating, Ops, Unique
  <2>2. files' = With(files, nextId, NewRow) /\ task' = [task EXCEPT !.at = "reload"]
    BY <1>4, <1>a DEF CreateInsert, Update, DbFault
  <2>3. task'.at = "reload" /\ task'.hash = task.hash /\ task'.path = task.path
    BY <2>1, <2>2 DEF Tasks
  <2>4. /\ DOMAIN files' = DOMAIN files \cup {nextId} /\ files'[nextId] = NewRow
        /\ \A i \in DOMAIN files : i # nextId /\ files'[i] = files[i] /\ files[i].hash # NewRow.hash
    BY <2>1, <2>2 DEF With, TypeOK, HasRow, NewRow
  <2>5. NewRow.hash = task.hash /\ NewRow.path = task.path
    BY DEF NewRow
  <2> HIDE DEF NewRow
  <2> QED BY <1>a, <2>3, <2>4, <2>5 DEF Unique, Creating
<1>5. CASE CreateReload
  BY <1>5, <1>b DEF CreateReload, CreateReturns, CreateFails, NoTask
<1>6. CASE Download \/ Analyze \/ FileCheck \/ FetchServe \/ ShareInsert \/ UnshareErase
  <2>1. files' = files /\ task' = NoTask
    BY <1>6 DEF Download, Analyze, FileCheck, FetchServe, Serve, ShareInsert, UnshareErase
  <2> QED BY <2>1, <1>b DEF NoTask
<1>7. CASE \/ FetchShare \/ DeleteLookup \/ DeleteBlob \/ DeleteForget \/ ShareLookup \/ UnshareLookup
  <2>1. task \in Tasks /\ files' = files /\ task.op \in {"fetch", "delete", "share", "unshare"}
    BY <1>7, <1>0 DEF FetchShare, DeleteLookup, DeleteBlob, DeleteForget, ShareLookup,
                      UnshareLookup, Ops
  <2>2. task' = NoTask \/ task'.op = task.op
    BY <1>7, <2>1 DEF FetchShare, DeleteLookup, DeleteBlob, DeleteForget, ShareLookup,
                      UnshareLookup, Tasks
  <2> QED BY <2>1, <2>2, <1>b DEF NoTask
<1>8. CASE DeleteRow
  <2>1. task' = NoTask /\ (files' = files \/ files' = Without(files, {task.id}))
    BY <1>8 DEF DeleteRow, Update
  <2>2. \A i \in DOMAIN files' : i \in DOMAIN files /\ files'[i] = files[i]
    BY <2>1 DEF Without
  <2> QED BY <1>a, <2>1, <2>2 DEF Unique, Creating, NoTask
<1>9. CASE ShareExpires \/ Evict \/ RedisLost \/ Crash \/ UNCHANGED vars
  <2>1. files' = files /\ (task' = task \/ task' = NoTask)
    BY <1>9 DEF ShareExpires, Evict, RedisLost, Crash, vars
  <2> QED BY <2>1, <1>b DEF NoTask
<1> QED
  BY <1>1, <1>2, <1>3, <1>4, <1>5, <1>6, <1>7, <1>8, <1>9
  DEF Next, UploadStep, ReadStep, DeleteStep, ShareStep

-----------------------------------------------------------------------------
(* Coherence of the caches.                                                *)

LEMMA ReadsCoherent ==
    ASSUME TypeOK, Coherent, Reads
    PROVE  /\ cacheUp /\ NoRevival => IdsCoherent'
           /\ ~Redis => HashesCoherent'
<1>0. files' = files
  BY DEF Reads, tables
<1>1. ASSUME NEW k, NEW r, GetFileById(k, r), hashCache' = hashCache
      PROVE  (cacheUp /\ NoRevival => IdsCoherent') /\ (~Redis => HashesCoherent')
  <2>1. idCache' = idCache \/ (k \in DOMAIN files /\ idCache' = With(idCache, k, files[k]))
    BY <1>1, GotById
  <2> QED BY <1>0, <1>1, <2>1 DEF Coherent, IdsCoherent, HashesCoherent, With
<1>2. ASSUME NEW k, NEW r, GetFileByHash(k, r), idCache' = idCache
      PROVE  (cacheUp /\ NoRevival => IdsCoherent') /\ (~Redis => HashesCoherent')
  <2>1. \/ hashCache' = hashCache
        \/ \E i \in DOMAIN files : files[i].hash = k /\ hashCache' = With(hashCache, k, files[i])
    BY <1>2, GotByHash
  <2>2. ASSUME NEW i \in DOMAIN files, files[i].hash = k, hashCache' = With(hashCache, k, files[i]),
               HashesCoherent
        PROVE  HashesCoherent'
    <3>1. files[i].id = i
      BY DEF TypeOK
    <3> QED BY <1>0, <2>2, <3>1 DEF HashesCoherent, With
  <2>3. HashesCoherent /\ hashCache' = hashCache => HashesCoherent'
    BY <1>0 DEF HashesCoherent
  <2>4. IdsCoherent => IdsCoherent'
    BY <1>0, <1>2 DEF IdsCoherent
  <2> QED BY <2>1, <2>2, <2>3, <2>4 DEF Coherent
<1> QED BY <1>1, <1>2 DEF Reads

LEMMA CoherentStep == TypeOK /\ Coherent /\ [Next]_vars => Coherent'
<1> SUFFICES ASSUME TypeOK, Coherent, [Next]_vars PROVE Coherent'
  OBVIOUS
<1> USE DEF tables, store, caches, faults, Finish, GoTo, At
<1>0. task.op \in Ops => task \in Tasks
  BY TaskShape
<1>a. Redis' = Redis /\ (NoRevival' => NoRevival)
  BY FaultsGrow DEF Redis, NoRevival, TypeOK
<1>b. ASSUME UNCHANGED <<files, idCache, hashCache, cacheUp>>,
             task' = task \/ task'.op # "delete" \/ task'.at = "start"
      PROVE  Coherent'
  BY <1>a, <1>b DEF Coherent, IdsCoherent, HashesCoherent
<1>c. ASSUME Reads, task'.op # "delete" PROVE Coherent'
  <2>1. cacheUp' = cacheUp
    BY <1>c DEF Reads
  <2> QED BY <1>a, <1>c, <2>1, ReadsCoherent DEF Coherent
<1>1. CASE (\E u \in Users : Request(u)) \/ PublicRequest
  <2>1. UNCHANGED <<files, idCache, hashCache, cacheUp>> /\ task'.at = "start"
    BY <1>1 DEF Request, PublicRequest, Begin
  <2> QED BY <2>1, <1>b
<1>2. CASE \/ UploadLookup \/ Download \/ Analyze \/ FileCheck \/ FetchServe
           \/ SaveOriginal \/ SaveDuplicate
  <2>1. CASE UploadLookup \/ SaveOriginal \/ SaveDuplicate
    <3>1. task \in Tasks /\ task.op # "delete"
      BY <2>1, <1>0 DEF UploadLookup, SaveOriginal, SaveDuplicate, Ops
    <3>2. task'.op # "delete"
      <4>1. CASE UploadLookup
        BY <3>1, <4>1 DEF UploadLookup, NoTask, Tasks
      <4>2. CASE SaveDuplicate
        BY <3>1, <4>2 DEF SaveDuplicate, NoTask, Tasks
      <4>3. CASE SaveOriginal
        <5>1. PICK r : \/ task' = NoTask
                       \/ task' = [task EXCEPT !.at = "dup", !.hash = r.hash, !.path = r.path]
          BY <4>3 DEF SaveOriginal
        <5>2. task' = NoTask => task'.op # "delete"
          BY DEF NoTask
        <5>3. CASE task' = [task EXCEPT !.at = "dup", !.hash = r.hash, !.path = r.path]
          BY <3>1, <5>3 DEF Tasks
        <5> QED BY <5>1, <5>2, <5>3
      <4> QED BY <2>1, <4>1, <4>2, <4>3
    <3> QED BY <1>c, <2>1, <3>2, ReadingSteps
  <2>2. CASE Download \/ Analyze \/ FileCheck \/ FetchServe
    <3>1. task' = NoTask
      BY <2>2 DEF Download, Analyze, FileCheck, FetchServe, Serve
    <3> QED BY <1>c, <2>2, <3>1, ReadingSteps DEF NoTask
  <2> QED BY <1>2, <2>1, <2>2
<1>3. CASE \/ StoreFile \/ CreateCheck \/ FetchShare \/ ShareLookup \/ ShareInsert
           \/ UnshareLookup \/ UnshareErase \/ SaveLookup
  <2>1. task \in Tasks /\ task.op # "delete"
    BY <1>3, <1>0 DEF StoreFile, CreateCheck, Creating, FetchShare, ShareLookup, ShareInsert,
                      UnshareLookup, UnshareErase, SaveLookup, Ops
  <2>2. UNCHANGED <<files, idCache, hashCache, cacheUp>>
    BY <1>3 DEF StoreFile, CreateCheck, FetchShare, ShareLookup, ShareInsert,
                UnshareLookup, UnshareErase, SaveLookup
  <2>3. task' = NoTask \/ task'.op = task.op
    <3>1. CASE StoreFile \/ CreateCheck
      BY <2>1, <3>1 DEF StoreFile, CreateCheck, CreateReturns, Tasks
    <3>2. CASE FetchShare \/ SaveLookup
      BY <2>1, <3>2 DEF FetchShare, SaveLookup, Tasks
    <3>3. CASE ShareLookup \/ ShareInsert \/ UnshareLookup \/ UnshareErase
      BY <2>1, <3>3 DEF ShareLookup, ShareInsert, UnshareLookup, UnshareErase, Tasks
    <3> QED BY <1>3, <3>1, <3>2, <3>3
  <2> QED BY <2>1, <2>2, <2>3, <1>b DEF NoTask
<1>4. CASE CreateInsert
  <2>1. task \in Tasks /\ task.op # "delete"
    BY <1>4, <1>0 DEF CreateInsert, Creating, Ops
  <2>2. UNCHANGED <<idCache, hashCache, cacheUp>>
    BY <1>4 DEF CreateInsert, CreateFails
  <2>3. task'.op # "delete"
    BY <1>4, <2>1 DEF CreateInsert, CreateFails, NoTask, Tasks
  <2>4. files' = files \/ files' = With(files, nextId, NewRow)
    BY <1>4 DEF CreateInsert, Update
  <2>5. \A i \in DOMAIN files : i \in DOMAIN files' /\ files'[i] = files[i]
    BY <2>4 DEF With, TypeOK
  <2> QED BY <1>a, <2>2, <2>3, <2>5 DEF Coherent, IdsCoherent, HashesCoherent
<1>5. CASE CreateReload
  <2>1. PICK r : /\ FindByHash(task.hash, r)
                 /\ \/ UNCHANGED <<idCache, hashCache>>
                    \/ /\ r # NoRow /\ idCache' = Cached(idCache, r.id, r)
                       /\ hashCache' = Cached(hashCache, r.hash, r)
    BY <1>5 DEF CreateReload, CreateFails
  <2>2. task' = NoTask /\ UNCHANGED <<files, cacheUp>>
    BY <1>5 DEF CreateReload, CreateReturns, CreateFails
  <2>3. CASE r # NoRow /\ idCache' = Cached(idCache, r.id, r) /\ hashCache' = Cached(hashCache, r.hash, r)
    <3>1. r.id \in DOMAIN files /\ r = files[r.id]
      BY <2>1, <2>3, FoundByHash DEF TypeOK
    <3>2. IdsCoherent => IdsCoherent'
      BY <2>2, <2>3, <3>1 DEF IdsCoherent, Cached, With
    <3>3. HashesCoherent => HashesCoherent'
      BY <2>2, <2>3, <3>1 DEF HashesCoherent, Cached, With
    <3> QED BY <1>a, <2>2, <3>2, <3>3 DEF Coherent, NoTask
  <2> QED BY <2>1, <2>2, <2>3, <1>b DEF NoTask
<1>6. CASE DeleteLookup
  <2>1. task \in Tasks
    BY <1>6, <1>0 DEF DeleteLookup, Ops
  <2>2. PICK r \in KnownRows :
          /\ GetFileById(task.id, r) /\ hashCache' = hashCache
          /\ \/ task' = NoTask
             \/ r # NoRow /\ task' = [task EXCEPT !.at = "unlink", !.path = r.path]
    BY <1>6 DEF DeleteLookup, MayUse
  <2>3. cacheUp' = cacheUp /\ Reads
    BY <1>6, ReadingSteps DEF DeleteLookup
  <2>4. CASE r # NoRow /\ task' = [task EXCEPT !.at = "unlink", !.path = r.path]
    <3>1. task'.at = "unlink" /\ task'.id = task.id
      BY <2>1, <2>4 DEF Tasks
    <3>2. cacheUp => task.id \in DOMAIN idCache'
      <4>1. \/ task.id \in DOMAIN idCache /\ idCache' = idCache
            \/ cacheUp => idCache' = With(idCache, task.id, r)
        BY <2>2, <2>4, GotById
      <4> QED BY <4>1 DEF With
    <3> QED BY <1>a, <2>3, <3>1, <3>2, ReadsCoherent DEF Coherent
  <2> QED BY <2>2, <2>3, <2>4, <1>c DEF NoTask
<1>7. CASE DeleteBlob
  <2>1. task \in Tasks
    BY <1>7, <1>0 DEF DeleteBlob, Ops
  <2>2. task'.at = "forget" /\ task'.id = task.id
    BY <1>7, <2>1 DEF DeleteBlob, Tasks
  <2>3. UNCHANGED <<files, idCache, hashCache, cacheUp>>
    BY <1>7 DEF DeleteBlob
  <2> QED BY <1>a, <1>7, <2>2, <2>3 DEF Coherent, IdsCoherent, HashesCoherent, DeleteBlob
<1>8. CASE DeleteForget
  <2>1. task \in Tasks
    BY <1>8, <1>0 DEF DeleteForget, Ops
  <2>2. task'.at = "erase" /\ task'.id = task.id /\ UNCHANGED <<files, cacheUp>>
    BY <1>8, <2>1 DEF DeleteForget, Tasks
  <2>3. ASSUME cacheUp, NoRevival PROVE IdsCoherent' /\ task.id \notin DOMAIN idCache'
    BY <1>8, <2>2, <2>3 DEF Coherent, IdsCoherent, DeleteForget, Dropped, Without
  <2>4. ASSUME ~Redis
        PROVE  HashesCoherent' /\ \A h \in DOMAIN hashCache' : hashCache'[h].id # task.id
    <3>1. cacheUp /\ HashesCoherent /\ task.id \in DOMAIN idCache /\ NoRevival /\ IdsCoherent
      BY <1>8, <2>4 DEF Coherent, DeleteForget, NoRevival
    <3>2. task.id \in DOMAIN files /\ hashCache' = Without(hashCache, {files[task.id].hash})
      BY <1>8, <3>1 DEF IdsCoherent, DeleteForget, Dropped, Hit
    <3> QED BY <2>2, <3>1, <3>2 DEF HashesCoherent, Without
  <2> QED BY <1>a, <2>2, <2>3, <2>4 DEF Coherent
<1>9. CASE DeleteRow
  <2>1. task' = NoTask /\ UNCHANGED <<idCache, hashCache, cacheUp>>
    BY <1>9 DEF DeleteRow
  <2>2. files' = files \/ files' = Without(files, {task.id})
    BY <1>9 DEF DeleteRow, Update
  <2>3. \A i \in DOMAIN files : i # task.id => i \in DOMAIN files' /\ files'[i] = files[i]
    BY <2>2 DEF Without
  <2>4. ASSUME cacheUp, NoRevival PROVE IdsCoherent'
    BY <1>9, <2>1, <2>3, <2>4 DEF Coherent, IdsCoherent, DeleteRow
  <2>5. ASSUME ~Redis PROVE cacheUp /\ HashesCoherent'
    BY <1>9, <2>1, <2>3, <2>5 DEF Coherent, HashesCoherent, DeleteRow
  <2> QED BY <1>a, <2>1, <2>4, <2>5 DEF Coherent, NoTask
<1>10. CASE ShareExpires \/ UNCHANGED vars
  BY <1>10, <1>b DEF ShareExpires, vars
<1>11. CASE Evict
  <2>1. PICK K, L : /\ idCache' = idCache \/ idCache' = Without(idCache, K)
                    /\ hashCache' = hashCache \/ hashCache' = Without(hashCache, L)
    BY <1>11 DEF Evict
  <2>2. UNCHANGED <<files, cacheUp, task>>
    BY <1>11 DEF Evict
  <2>3. /\ \A i \in DOMAIN idCache' : i \in DOMAIN idCache /\ idCache'[i] = idCache[i]
        /\ \A h \in DOMAIN hashCache' : h \in DOMAIN hashCache /\ hashCache'[h] = hashCache[h]
    BY <2>1 DEF Without
  <2>4. ASSUME cacheUp, NoRevival
        PROVE  IdsCoherent' /\ (At("delete", "erase") => task.id \notin DOMAIN idCache')
    BY <2>2, <2>3, <2>4 DEF Coherent, IdsCoherent
  <2>5. ASSUME ~Redis PROVE cacheUp /\ HashesCoherent' /\ task.op # "delete"
    BY <1>11, <2>2, <2>3, <2>5 DEF Coherent, HashesCoherent, Evict, NoTask
  <2> QED BY <1>a, <2>2, <2>4, <2>5 DEF Coherent
<1>12. CASE RedisLost
  BY <1>12, <1>a DEF RedisLost, Coherent
<1>13. CASE Crash
  <2>1. task' = NoTask /\ cacheUp' = TRUE /\ files' = files
    BY <1>13 DEF Crash
  <2>2. CASE Redis
    <3>1. crashes' # 0
      BY <1>13 DEF Crash, TypeOK
    <3> QED BY <1>a, <2>2, <3>1 DEF Coherent, NoRevival
  <2>3. CASE ~Redis
    <3>1. DOMAIN idCache' = {} /\ DOMAIN hashCache' = {}
      BY <1>13, <2>3 DEF Crash, Empty
    <3> QED BY <2>1, <3>1 DEF Coherent, IdsCoherent, HashesCoherent, NoTask
  <2> QED BY <2>2, <2>3
<1> QED
  BY <1>1, <1>2, <1>3, <1>4, <1>5, <1>6, <1>7, <1>8, <1>9, <1>10, <1>11, <1>12, <1>13
  DEF Next, UploadStep, ReadStep, DeleteStep, ShareStep

-----------------------------------------------------------------------------
(* Contents are kept.                                                      *)

\* What GetFileById answers while the cache is coherent and the database
\* answers.
LEMMA ExactById ==
    ASSUME TypeOK, Coherent, NoRevival, NEW i, NEW r, GetFileById(i, r), dbFaults' = 0
    PROVE  IF i \in DOMAIN files THEN r = files[i] ELSE r = NoRow
<1>1. cacheUp => IdsCoherent
  BY DEF Coherent
<1> QED BY <1>1, GotById, NoRowIsNone DEF IdsCoherent, TypeOK

LEMMA KeptStep == TypeOK /\ Carries /\ Unique /\ Coherent /\ Kept /\ [Next]_vars => Kept'
<1> SUFFICES ASSUME TypeOK, Carries, Unique, Coherent, Kept, [Next]_vars, dbFaults' = 0, NoRevival'
             PROVE  Kept'
  BY DEF Kept
<1> USE DEF tables, store, caches, faults, Finish, GoTo, At
<1>0. task.op \in Ops => task \in Tasks
  BY TaskShape
<1>a. dbFaults = 0 /\ NoRevival
  BY FaultsGrow DEF TypeOK, Redis, NoRevival
<1>b. ASSUME files' = files, blobs \subseteq blobs', doomed \subseteq doomed',
             \/ task'.op \notin {"upload", "complete", "save", "delete"}
             \/ task'.at \in {"start", "store", "forget", "erase", "original", "reload"}
      PROVE  Kept'
  BY <1>a, <1>b DEF Kept, Storing
<1>c. ASSUME UNCHANGED <<files, blobs, doomed>>, task'.op = task.op, task'.hash = task.hash,
             task'.path = task.path, task.op \in {"upload", "complete", "save"},
             \/ task.op = "save" /\ task.at = "dup" /\ task'.at = "create"
             \/ task.at = "create" /\ task'.at = "insert" /\ ~HasRow(task.hash)
      PROVE  Kept'
  <2>1. \A i \in DOMAIN files' \ doomed' : files'[i].path \in blobs'
    BY <1>a, <1>c DEF Kept
  <2>2. CASE task.op = "save"
    <3>1. HasRow(task.hash) /\ (HasRow(task.hash))'
      BY <1>a, <1>c, <2>2 DEF Kept, HasRow
    <3> QED BY <1>c, <2>1, <2>2, <3>1 DEF Kept, Storing
  <2>3. CASE task.op \in {"upload", "complete"} /\ task.at = "create"
    <3>1. task.path \in blobs
      BY <1>a, <2>3 DEF Kept, Storing
    <3> QED BY <1>c, <2>1, <2>3, <3>1 DEF Kept, Storing
  <2> QED BY <1>c, <2>2, <2>3
<1>1. CASE (\E u \in Users : Request(u)) \/ PublicRequest
  <2>1. UNCHANGED <<files, blobs, doomed>> /\ task'.at = "start"
    BY <1>1 DEF Request, PublicRequest, Begin
  <2> QED BY <2>1, <1>b
<1>2. CASE UploadLookup \/ SaveLookup
  <2>1. task \in Tasks /\ UNCHANGED <<files, blobs, doomed>>
    BY <1>2, <1>0 DEF UploadLookup, SaveLookup, Ops
  <2>2. task' = NoTask \/ task'.at \in {"store", "original"}
    BY <1>2, <2>1 DEF UploadLookup, SaveLookup, Tasks
  <2> QED BY <2>1, <2>2, <1>b DEF NoTask
<1>3. CASE StoreFile
  <2>1. task \in Tasks /\ task.op \in {"upload", "complete"} /\ UNCHANGED <<files, doomed>>
    BY <1>3, <1>0 DEF StoreFile, Ops
  <2>2. PICK p : \/ blobs' = blobs \cup {p} /\ task' = [task EXCEPT !.path = p, !.at = "create"]
                 \/ blobs' = blobs /\ task' = NoTask
    BY <1>3 DEF StoreFile
  <2>3. CASE blobs' = blobs \cup {p} /\ task' = [task EXCEPT !.path = p, !.at = "create"]
    <3>1. task'.op = task.op /\ task'.at = "create" /\ task'.path = p
      BY <2>1, <2>3 DEF Tasks
    <3> QED BY <1>a, <2>1, <2>3, <3>1 DEF Kept, Storing
  <2> QED BY <2>1, <2>2, <2>3, <1>b DEF NoTask
<1>4. CASE CreateCheck
  <2>1. task \in Tasks /\ task.op \in {"upload", "complete", "save"} /\ task.at = "create"
        /\ UNCHANGED <<files, blobs, doomed>>
    BY <1>4, <1>0 DEF CreateCheck, Creating, CreateReturns, Ops
  <2>2. PICK r \in KnownRows : /\ FindByHash(task.hash, r)
                               /\ IF r # NoRow THEN task' = NoTask
                                               ELSE task' = [task EXCEPT !.at = "insert"]
    BY <1>4 DEF CreateCheck, CreateReturns
  <2>3. CASE r = NoRow
    <3>1. /\ ~HasRow(task.hash) /\ task'.at = "insert"
          /\ task'.op = task.op /\ task'.hash = task.hash /\ task'.path = task.path
      BY <2>1, <2>2, <2>3, FoundByHash DEF Tasks
    <3> QED BY <2>1, <3>1, <1>c
  <2> QED BY <2>1, <2>2, <2>3, <1>b DEF NoTask
<1>5. CASE CreateInsert
  <2>1. task \in Tasks /\ task.op \in {"upload", "complete", "save"} /\ task.at = "insert"
    BY <1>5, <1>0 DEF CreateInsert, Creating, Ops
  <2>2. /\ files' = With(files, nextId, NewRow) /\ task' = [task EXCEPT !.at = "reload"]
        /\ UNCHANGED <<blobs, doomed>>
    BY <1>5, <1>a DEF CreateInsert, Update, DbFault
  <2>3. task'.at = "reload"
    BY <2>1, <2>2 DEF Tasks
  <2>4. NewRow.path \in blobs
    BY <1>a, <2>1 DEF Kept, Storing, NewRow
  <2>5. \A i \in DOMAIN files' : files'[i] = NewRow \/ (i \in DOMAIN files /\ files'[i] = files[i])
    BY <2>2 DEF With
  <2> HIDE DEF NewRow
  <2> QED BY <1>a, <2>2, <2>3, <2>4, <2>5 DEF Kept, Storing
<1>6. CASE CreateReload
  <2>1. PICK r : /\ FindByHash(task.hash, r)
                 /\ r # NoRow => UNCHANGED blobs
    BY <1>6 DEF CreateReload, CreateReturns
  <2>2. r # NoRow
    BY <1>6, <1>a, <2>1, FoundByHash DEF CreateReload, Unique, HasRow
  <2>3. task' = NoTask /\ UNCHANGED <<files, doomed>>
    BY <1>6 DEF CreateReload, CreateReturns, CreateFails
  <2> QED BY <2>1, <2>2, <2>3, <1>b DEF NoTask
<1>7. CASE \/ Download \/ Analyze \/ FileCheck \/ FetchServe \/ ShareInsert \/ UnshareErase
  <2>1. task' = NoTask /\ UNCHANGED <<files, blobs, doomed>>
    BY <1>7 DEF Download, Analyze, FileCheck, FetchServe, Serve, ShareInsert, UnshareErase
  <2> QED BY <2>1, <1>b DEF NoTask
<1>8. CASE FetchShare \/ ShareLookup \/ UnshareLookup
  <2>1. task \in Tasks /\ task.op \in {"fetch", "share", "unshare"} /\ UNCHANGED <<files, blobs, doomed>>
    BY <1>8, <1>0 DEF FetchShare, ShareLookup, UnshareLookup, Ops
  <2>2. task' = NoTask \/ task'.op = task.op
    BY <1>8, <2>1 DEF FetchShare, ShareLookup, UnshareLookup, Tasks
  <2> QED BY <2>1, <2>2, <1>b DEF NoTask
<1>9. CASE DeleteLookup
  <2>1. task \in Tasks /\ UNCHANGED <<files, blobs>>
    BY <1>9, <1>0 DEF DeleteLookup, Ops
  <2>2. PICK r \in KnownRows :
          /\ GetFileById(task.id, r)
          /\ \/ task' = NoTask
             \/ /\ r # NoRow /\ r.owner = task.user
                /\ task' = [task EXCEPT !.at = "unlink", !.path = r.path]
          /\ doomed' = IF r # NoRow /\ r.owner = task.user THEN doomed \cup {task.id} ELSE doomed
    BY <1>9 DEF DeleteLookup, MayUse
  <2>3. CASE /\ r # NoRow /\ r.owner = task.user
             /\ task' = [task EXCEPT !.at = "unlink", !.path = r.path]
    <3>1. task.id \in DOMAIN files /\ r = files[task.id]
      BY <1>a, <2>2, <2>3, ExactById
    <3>2. /\ task'.op = "delete" /\ task'.at = "unlink" /\ task'.id = task.id
          /\ task'.path = files[task.id].path
      BY <1>9, <2>1, <2>3, <3>1 DEF DeleteLookup, Tasks
    <3> QED BY <1>a, <2>1, <2>2, <2>3, <3>1, <3>2 DEF Kept, Storing
  <2> QED BY <2>1, <2>2, <2>3, <1>b DEF NoTask
<1>10. CASE DeleteBlob
  <2>1. task \in Tasks /\ UNCHANGED <<files, doomed>> /\ task' = [task EXCEPT !.at = "forget"]
    BY <1>10, <1>0 DEF DeleteBlob, Ops
  <2>2. task'.op = "delete" /\ task'.at = "forget"
    BY <1>10, <2>1 DEF DeleteBlob, Tasks
  <2>3. blobs \ {task.path} \subseteq blobs'
    BY <1>10 DEF DeleteBlob
  <2>4. task.id \in DOMAIN files /\ task.id \in doomed /\ task.path = files[task.id].path
    BY <1>10, <1>a DEF DeleteBlob, Kept
  <2>5. ASSUME NEW i \in DOMAIN files \ doomed PROVE files[i].path \in blobs'
    <3>1. files[i].path \in blobs /\ i # task.id
      BY <1>a, <2>4 DEF Kept
    <3>2. files[i].hash # files[task.id].hash
      BY <1>a, <2>4, <3>1 DEF Unique
    <3>3. files[i].path[1] = files[i].hash /\ files[task.id].path[1] = files[task.id].hash
      BY <2>4 DEF Carries, PathsFit, Range
    <3> QED BY <2>3, <2>4, <3>1, <3>2, <3>3
  <2> QED BY <2>1, <2>2, <2>5 DEF Kept, Storing
<1>11. CASE DeleteForget
  <2>1. task \in Tasks /\ UNCHANGED <<files, blobs, doomed>>
    BY <1>11, <1>0 DEF DeleteForget, Ops
  <2>2. task'.at = "erase"
    BY <1>11, <2>1 DEF DeleteForget, Tasks
  <2> QED BY <2>1, <2>2, <1>b
<1>12. CASE DeleteRow
  <2>1. task' = NoTask /\ blobs' = blobs /\ doomed' = doomed \cap DOMAIN files'
    BY <1>12 DEF DeleteRow
  <2>2. files' = files \/ files' = Without(files, {task.id})
    BY <1>12 DEF DeleteRow, Update
  <2>3. \A i \in DOMAIN files' : i \in DOMAIN files /\ files'[i] = files[i]
    BY <2>2 DEF Without
  <2> QED BY <1>a, <2>1, <2>3 DEF Kept, Storing, NoTask
<1>13. CASE SaveOriginal
  <2>1. task \in Tasks /\ task.op = "save" /\ UNCHANGED <<files, blobs, doomed>>
    BY <1>13, <1>0 DEF SaveOriginal, Ops
  <2>2. PICK r : /\ GetFileById(task.id, r)
                 /\ \/ task' = NoTask
                    \/ /\ r # NoRow
                       /\ task' = [task EXCEPT !.at = "dup", !.hash = r.hash, !.path = r.path]
    BY <1>13 DEF SaveOriginal
  <2>3. CASE r # NoRow /\ task' = [task EXCEPT !.at = "dup", !.hash = r.hash, !.path = r.path]
    <3>1. task.id \in DOMAIN files /\ r = files[task.id]
      BY <1>a, <2>2, <2>3, ExactById
    <3>2. task'.op = "save" /\ task'.at = "dup" /\ task'.hash = files[task.id].hash
      BY <2>1, <2>3, <3>1 DEF Tasks
    <3> QED BY <1>a, <2>1, <3>1, <3>2 DEF Kept, Storing, HasRow
  <2> QED BY <2>1, <2>2, <2>3, <1>b DEF NoTask
<1>14. CASE SaveDuplicate
  <2>1. task \in Tasks /\ task.op = "save" /\ task.at = "dup" /\ UNCHANGED <<files, blobs, doomed>>
    BY <1>14, <1>0 DEF SaveDuplicate, Ops
  <2>2. task' = NoTask \/ task' = [task EXCEPT !.at = "create"]
    BY <1>14 DEF SaveDuplicate
  <2>3. task' = [task EXCEPT !.at = "create"] =>
          /\ task'.op = "save" /\ task'.at = "create"
          /\ task'.hash = task.hash /\ task'.path = task.path
    BY <2>1 DEF Tasks
  <2> QED BY <2>1, <2>2, <2>3, <1>b, <1>c DEF NoTask
<1>15. CASE ShareExpires \/ Evict \/ RedisLost \/ UNCHANGED vars
  <2>1. UNCHANGED <<files, blobs, doomed, task>>
    BY <1>15 DEF ShareExpires, Evict, RedisLost, vars
  <2> QED BY <1>a, <2>1 DEF Kept, Storing, HasRow
<1>16. CASE Crash
  <2>1. task' = NoTask /\ UNCHANGED <<files, blobs, doomed>>
    BY <1>16 DEF Crash
  <2> QED BY <2>1, <1>b DEF NoTask
<1> QED
  BY <1>1, <1>2, <1>3, <1>4, <1>5, <1>6, <1>7, <1>8, <1>9, <1>10, <1>11, <1>12, <1>13, <1>14,
     <1>15, <1>16
  DEF Next, UploadStep, ReadStep, DeleteStep, ShareStep

-----------------------------------------------------------------------------
(* Rows and contents correspond.                                           *)

\* A delete that has yet to take out the row of a content it took.
Deleting == task.op = "delete" /\ task.at \in {"forget", "erase"}

LEMMA DueFacts ==
    /\ ~Deleting /\ ~Storing => Due = PathsOf(DOMAIN files)
    /\ Storing => Due = PathsOf(DOMAIN files) \cup {task.path}
    /\ Deleting => Due = PathsOf(DOMAIN files \ {task.id})
BY DEF Due, Deleting, Storing

LEMMA DueNext ==
    /\ ~Deleting' /\ ~Storing' => Due' = (PathsOf(DOMAIN files))'
    /\ Storing' => Due' = (PathsOf(DOMAIN files))' \cup {task'.path}
    /\ Deleting' => Due' = (PathsOf(DOMAIN files \ {task.id}))'
BY DEF Due, Deleting, Storing

LEMMA MatchedStep ==
    TypeOK /\ Carries /\ Unique /\ Coherent /\ Kept /\ Matched /\ [Next]_vars => Matched'
<1> SUFFICES ASSUME TypeOK, Carries, Unique, Coherent, Kept, Matched, [Next]_vars, Clean'
             PROVE  Matched'
  BY DEF Matched
<1> USE DEF tables, store, caches, faults, Finish, GoTo, At
<1>0. task.op \in Ops => task \in Tasks
  BY TaskShape
<1>a. Clean /\ dbFaults = 0 /\ NoRevival /\ dbFaults' = 0 /\ blobFaults' = 0
  BY FaultsGrow DEF TypeOK, Clean, Redis, NoRevival
<1>b. ASSUME UNCHANGED <<files, blobs, spare, fdfs>>, ~Storing, ~Storing', ~Deleting, ~Deleting',
             task'.op = "upload" /\ task'.at \in {"store", "create"} => ~HasRow(task'.hash)
      PROVE  Matched'
  <2>1. Due' = Due
    BY <1>b, DueFacts, DueNext DEF PathsOf
  <2> QED BY <1>a, <1>b, <2>1 DEF Matched, Named, HasRow
<1>c. ASSUME UNCHANGED <<files, blobs, spare, fdfs>>, task'.op \notin {"upload", "complete", "delete"},
             task.op \notin {"upload", "complete", "delete"}
      PROVE  Matched'
  BY <1>b, <1>c DEF Storing, Deleting
<1>1. CASE (\E u \in Users : Request(u)) \/ PublicRequest
  <2>1. UNCHANGED <<files, blobs, spare, fdfs>> /\ task = NoTask /\ task'.at = "start"
    BY <1>1 DEF Request, PublicRequest, Begin
  <2> QED BY <2>1, <1>b DEF Storing, Deleting, NoTask
<1>2. CASE UploadLookup
  <2>1. task \in Tasks /\ UNCHANGED <<files, blobs, spare, fdfs>>
    BY <1>2, <1>0 DEF UploadLookup, Ops
  <2>2. PICK r : /\ GetFileByHash(task.hash, r)
                 /\ IF r # NoRow THEN task' = NoTask ELSE task' = [task EXCEPT !.at = "store"]
    BY <1>2 DEF UploadLookup
  <2>3. CASE r = NoRow
    <3>1. task'.at = "store" /\ task'.op = "upload" /\ task'.hash = task.hash
      BY <1>2, <2>1, <2>2, <2>3 DEF UploadLookup, Tasks
    <3>2. ~HasRow(task.hash)
      BY <1>a, <2>2, <2>3, GotByHash, NoRowIsNone DEF TypeOK
    <3> QED BY <1>2, <2>1, <3>1, <3>2, <1>b DEF UploadLookup, Storing, Deleting
  <2> QED BY <1>2, <2>1, <2>2, <2>3, <1>b DEF UploadLookup, Storing, Deleting, NoTask
<1>3. CASE StoreFile
  <2>1. /\ task \in Tasks /\ task.op \in {"upload", "complete"} /\ Before
        /\ task.op = "upload" => task.at = "store"
        /\ UNCHANGED <<files, spare, fdfs>> /\ ~Storing /\ ~Deleting
    BY <1>3, <1>0 DEF StoreFile, Ops, Before, Storing, Deleting
  <2> DEFINE p == IF fdfs THEN FastDfsPath(task.hash) ELSE LocalPath(task.hash)
  <2>2. blobs' = blobs \cup {p} /\ task' = [task EXCEPT !.path = p, !.at = "create"]
    BY <1>3, <1>a DEF StoreFile, BlobFault, TypeOK
  <2>3. Named(p, task.hash)
    BY <2>1, FastDfsName DEF Named, OnFastDfs, Carries
  <2>4. fdfs => p \notin blobs /\ p \notin PathsOf(DOMAIN files)
    <3>1. fdfs => p \notin InUse
      BY <2>1, FastDfsName DEF Carries
    <3>2. blobs \subseteq InUse
      BY DEF InUse
    <3>3. PathsOf(DOMAIN files) \subseteq InUse
      BY NoRowIsNone DEF InUse, KnownRows, PathsOf, Range, TypeOK
    <3> QED BY <3>1, <3>2, <3>3
  <2> HIDE DEF p
  <2>5. /\ task'.op = task.op /\ task'.at = "create" /\ task'.path = p /\ task'.hash = task.hash
    BY <2>1, <2>2 DEF Tasks
  <2>6. Storing' /\ (PathsOf(DOMAIN files))' = PathsOf(DOMAIN files)
    BY <2>1, <2>5 DEF Storing, PathsOf
  <2>7. Due = PathsOf(DOMAIN files) /\ Due' = PathsOf(DOMAIN files) \cup {p}
    BY <2>1, <2>5, <2>6, DueFacts, DueNext
  <2>8. blobs' \ spare' = Due' /\ spare' \subseteq blobs'
    BY <1>a, <2>1, <2>2, <2>4, <2>7 DEF Matched
  <2> QED BY <1>a, <2>1, <2>3, <2>4, <2>5, <2>6, <2>8 DEF Matched, Named, HasRow
<1>4. CASE CreateCheck
  <2>1. /\ task \in Tasks /\ task.op \in {"upload", "complete", "save"} /\ task.at = "create"
        /\ UNCHANGED <<files, blobs, fdfs>> /\ ~Deleting
    BY <1>4, <1>0 DEF CreateCheck, Creating, CreateReturns, Ops, Deleting
  <2>2. PICK r \in KnownRows : /\ FindByHash(task.hash, r)
                               /\ IF r # NoRow THEN CreateReturns(r)
                                  ELSE task' = [task EXCEPT !.at = "insert"] /\ UNCHANGED store
    BY <1>4 DEF CreateCheck
  <2>3. CASE r = NoRow
    <3>1. /\ task'.op = task.op /\ task'.at = "insert" /\ task'.path = task.path
          /\ task'.hash = task.hash /\ UNCHANGED spare
      BY <2>1, <2>2, <2>3 DEF Tasks
    <3>2. Storing' = Storing /\ ~Deleting'
      BY <2>1, <3>1 DEF Storing, Deleting
    <3>3. Due' = Due
      BY <2>1, <3>1, <3>2, DueFacts, DueNext DEF PathsOf
    <3> QED BY <1>a, <2>1, <3>1, <3>2, <3>3 DEF Matched, Named, PathsOf
  <2>4. CASE r # NoRow
    <3>1. PICK i \in DOMAIN files : r = files[i] /\ files[i].hash = task.hash
      BY <2>2, <2>4, FoundByHash
    <3>2. task' = NoTask /\ task.op # "upload"
      BY <1>a, <2>1, <2>2, <2>4, <3>1 DEF CreateReturns, Matched, HasRow
    <3>3. CASE task.op = "save"
      BY <2>1, <2>2, <2>4, <3>2, <3>3, <1>c DEF CreateReturns, NoTask
    <3>4. CASE task.op = "complete"
      <4>1. Storing /\ ~Storing' /\ ~Deleting'
        BY <2>1, <3>2, <3>4 DEF Storing, Deleting, NoTask
      <4>2. (PathsOf(DOMAIN files))' = PathsOf(DOMAIN files) /\ r.path \in PathsOf(DOMAIN files)
        BY <2>1, <3>1 DEF PathsOf
      <4>3. Due = PathsOf(DOMAIN files) \cup {task.path} /\ Due' = PathsOf(DOMAIN files)
        BY <4>1, <4>2, DueFacts, DueNext
      <4>4. spare' = IF r.path # task.path THEN spare \cup {task.path} ELSE spare
        BY <2>2, <2>4, <3>4 DEF CreateReturns
      <4>5. CASE r.path = task.path
        BY <1>a, <2>1, <3>2, <4>2, <4>3, <4>4, <4>1, <4>5 DEF Matched, Named, NoTask
      <4>6. CASE r.path # task.path
        <5>1. fdfs
          BY <1>a, <3>1, <4>1, <4>6 DEF Matched, Named
        <5>2. task.path \notin PathsOf(DOMAIN files) /\ OnFastDfs(task.path) /\ task.path \in blobs
          BY <1>a, <4>1, <4>3, <5>1 DEF Matched, Named
        <5>3. blobs' \ spare' = Due' /\ spare' \subseteq blobs'
          BY <1>a, <2>1, <4>3, <4>4, <4>6, <5>2 DEF Matched
        <5> QED BY <1>a, <2>1, <3>2, <4>1, <4>4, <4>6, <5>1, <5>2, <5>3 DEF Matched, Named, NoTask
      <4> QED BY <4>5, <4>6
    <3> QED BY <2>1, <3>2, <3>3, <3>4
  <2> QED BY <2>3, <2>4
<1>5. CASE CreateInsert
  <2>1. task \in Tasks /\ task.op \in {"upload", "complete"} /\ task.at = "insert" /\ Storing
    BY <1>5, <1>0, <1>a DEF CreateInsert, Creating, Ops, Kept, Storing
  <2>2. /\ files' = With(files, nextId, NewRow) /\ task' = [task EXCEPT !.at = "reload"]
        /\ UNCHANGED <<blobs, spare, fdfs>>
    BY <1>5, <1>a DEF CreateInsert, Update, DbFault
  <2>3. task'.at = "reload" /\ ~Storing' /\ ~Deleting'
    BY <2>1, <2>2 DEF Tasks, Storing, Deleting
  <2>4. /\ DOMAIN files' = DOMAIN files \cup {nextId} /\ files'[nextId] = NewRow
        /\ \A i \in DOMAIN files : i # nextId /\ files'[i] = files[i]
    BY <2>2 DEF With, TypeOK
  <2>5. NewRow.hash = task.hash /\ NewRow.path = task.path
    BY DEF NewRow
  <2> HIDE DEF NewRow
  <2>6. (PathsOf(DOMAIN files))' = PathsOf(DOMAIN files) \cup {task.path}
    BY <2>4, <2>5 DEF PathsOf
  <2>7. Due' = Due
    BY <2>1, <2>3, <2>6, DueFacts, DueNext
  <2>8. \A i \in DOMAIN files' : Named(files'[i].path, files'[i].hash)
    BY <1>a, <2>1, <2>4, <2>5 DEF Matched
  <2> QED BY <1>a, <2>2, <2>3, <2>7, <2>8 DEF Matched, Named
<1>6. CASE CreateReload
  <2>1. PICK r : /\ FindByHash(task.hash, r)
                 /\ r # NoRow => CreateReturns(r)
    BY <1>6 DEF CreateReload
  <2>2. PICK i \in DOMAIN files : files[i].hash = task.hash /\ files[i].path = task.path
    BY <1>6, <1>a DEF CreateReload, Unique
  <2>3. r # NoRow /\ r.path = task.path
    BY <1>a, <2>1, <2>2, FoundByHash DEF Unique, HasRow
  <2>4. UNCHANGED <<files, blobs, spare, fdfs>> /\ task' = NoTask
    BY <1>6, <2>1, <2>3 DEF CreateReload, CreateReturns
  <2>5. ~Storing /\ ~Deleting
    BY <1>6 DEF CreateReload, Creating, Storing, Deleting
  <2> QED BY <2>4, <2>5, <1>b DEF Storing, Deleting, NoTask
<1>7. CASE \/ Download \/ Analyze \/ FileCheck \/ FetchServe \/ ShareInsert \/ UnshareErase
  <2>1. /\ task' = NoTask /\ UNCHANGED <<files, blobs, spare, fdfs>>
        /\ task.op \notin {"upload", "complete", "delete"}
    BY <1>7 DEF Download, Analyze, FileCheck, FetchServe, Serve, ShareInsert, UnshareErase
  <2> QED BY <2>1, <1>c DEF NoTask
<1>8. CASE FetchShare \/ ShareLookup \/ UnshareLookup \/ SaveLookup \/ SaveDuplicate
  <2>1. task \in Tasks /\ task.op \in {"fetch", "share", "unshare", "save"}
        /\ UNCHANGED <<files, blobs, spare, fdfs>>
    BY <1>8, <1>0 DEF FetchShare, ShareLookup, UnshareLookup, SaveLookup, SaveDuplicate, Ops
  <2>2. task' = NoTask \/ task'.op = task.op
    BY <1>8, <2>1 DEF FetchShare, ShareLookup, UnshareLookup, SaveLookup, SaveDuplicate, Tasks
  <2> QED BY <2>1, <2>2, <1>c DEF NoTask
<1>9. CASE SaveOriginal
  <2>1. task \in Tasks /\ task.op = "save" /\ UNCHANGED <<files, blobs, spare, fdfs>>
    BY <1>9, <1>0 DEF SaveOriginal, Ops
  <2>2. PICK r : \/ task' = NoTask
                 \/ task' = [task EXCEPT !.at = "dup", !.hash = r.hash, !.path = r.path]
    BY <1>9 DEF SaveOriginal
  <2>3. CASE task' = [task EXCEPT !.at = "dup", !.hash = r.hash, !.path = r.path]
    <3>1. task'.op = "save"
      BY <2>1, <2>3 DEF Tasks
    <3> QED BY <2>1, <3>1, <1>c
  <2> QED BY <2>1, <2>2, <2>3, <1>c DEF NoTask
<1>10. CASE DeleteLookup
  <2>1. task \in Tasks /\ task.op = "delete" /\ task.at = "start"
        /\ UNCHANGED <<files, blobs, spare, fdfs>>
    BY <1>10, <1>0 DEF DeleteLookup, Ops
  <2>2. task' = NoTask \/ (task'.op = "delete" /\ task'.at = "unlink")
    BY <1>10, <2>1 DEF DeleteLookup, Tasks
  <2> QED BY <2>1, <2>2, <1>b DEF Storing, Deleting, NoTask
<1>11. CASE DeleteBlob
  <2>1. /\ task \in Tasks /\ task.op = "delete" /\ task.at = "unlink" /\ ~Deleting /\ ~Storing
        /\ UNCHANGED <<files, spare, fdfs>> /\ task' = [task EXCEPT !.at = "forget"]
    BY <1>11, <1>0 DEF DeleteBlob, Ops, Deleting, Storing
  <2>2. task'.op = "delete" /\ task'.at = "forget" /\ task'.id = task.id
    BY <2>1 DEF Tasks
  <2>3. Deleting' /\ ~Storing'
    BY <2>2 DEF Deleting, Storing
  <2>4. task.id \in DOMAIN files /\ task.path = files[task.id].path
    BY <1>a, <2>1 DEF Kept
  <2>5. Due = PathsOf(DOMAIN files) /\ Due' = PathsOf(DOMAIN files \ {task.id})
    BY <2>1, <2>2, <2>3, DueFacts, DueNext DEF PathsOf
  <2>6. task.path \in blobs /\ task.path \notin spare
    BY <1>a, <2>4, <2>5 DEF Matched, PathsOf
  <2>7. Reachable(task.path)
    BY <1>a, <2>4, <2>6 DEF Reachable, Matched, Named, OnFastDfs, LocalPath
  <2>8. blobs' = blobs \ {task.path}
    BY <1>11, <1>a, <2>7 DEF DeleteBlob, BlobFault, TypeOK
  <2>9. PathsOf(DOMAIN files \ {task.id}) = PathsOf(DOMAIN files) \ {task.path}
    <3>1. ASSUME NEW i \in DOMAIN files, i # task.id PROVE files[i].path # task.path
      <4>1. files[i].hash # files[task.id].hash
        BY <1>a, <2>4, <3>1 DEF Unique
      <4>2. files[i].path[1] = files[i].hash /\ files[task.id].path[1] = files[task.id].hash
        BY <2>4 DEF Carries, PathsFit, Range
      <4> QED BY <2>4, <4>1, <4>2
    <3> QED BY <2>4, <3>1 DEF PathsOf
  <2>10. blobs' \ spare' = Due' /\ spare' \subseteq blobs'
    BY <1>a, <2>1, <2>5, <2>6, <2>8, <2>9 DEF Matched
  <2> QED BY <1>a, <2>1, <2>2, <2>3, <2>10 DEF Matched, Named
<1>12. CASE DeleteForget
  <2>1. task \in Tasks /\ Deleting /\ UNCHANGED <<files, blobs, spare, fdfs>>
    BY <1>12, <1>0 DEF DeleteForget, Ops, Deleting
  <2>2. task'.op = "delete" /\ task'.at = "erase" /\ task'.id = task.id
    BY <1>12, <2>1 DEF DeleteForget, Tasks
  <2>3. Deleting' /\ ~Storing' /\ ~Storing
    BY <2>1, <2>2 DEF Deleting, Storing
  <2>4. Due' = Due
    BY <2>1, <2>2, <2>3, DueFacts, DueNext DEF PathsOf
  <2> QED BY <1>a, <2>1, <2>2, <2>3, <2>4 DEF Matched, Named
<1>13. CASE DeleteRow
  <2>1. task' = NoTask /\ UNCHANGED <<blobs, spare, fdfs>> /\ Deleting
    BY <1>13 DEF DeleteRow, Deleting
  <2>2. files' = Without(files, {task.id})
    BY <1>13, <1>a DEF DeleteRow, Update, DbFault
  <2>3. DOMAIN files' = DOMAIN files \ {task.id} /\ \A i \in DOMAIN files' : files'[i] = files[i]
    BY <2>2 DEF Without
  <2>4. ~Deleting' /\ ~Storing'
    BY <2>1 DEF Deleting, Storing, NoTask
  <2>5. (PathsOf(DOMAIN files))' = PathsOf(DOMAIN files \ {task.id})
    BY <2>3 DEF PathsOf
  <2>6. Due' = Due
    BY <2>1, <2>4, <2>5, DueFacts, DueNext
  <2> QED BY <1>a, <2>1, <2>3, <2>4, <2>6 DEF Matched, Named, NoTask
<1>14. CASE ShareExpires \/ Evict \/ RedisLost \/ UNCHANGED vars
  <2>1. UNCHANGED <<files, blobs, spare, fdfs, task>>
    BY <1>14 DEF ShareExpires, Evict, RedisLost, vars
  <2> QED BY <1>a, <2>1 DEF Matched, Named, Due, Storing, PathsOf, HasRow
<1>15. CASE Crash
  BY <1>15 DEF Crash, Clean, TypeOK
<1> QED
  BY <1>1, <1>2, <1>3, <1>4, <1>5, <1>6, <1>7, <1>8, <1>9, <1>10, <1>11, <1>12, <1>13, <1>14,
     <1>15
  DEF Next, UploadStep, ReadStep, DeleteStep, ShareStep

-----------------------------------------------------------------------------
(* The theorems.                                                           *)

LEMMA InvInit == Init => Inv
<1> SUFFICES ASSUME Init PROVE Inv
  OBVIOUS
<1>1. TypeOK /\ Carries
  BY TypeInit
<1>2. DOMAIN Empty = {}
  BY DEF Empty
<1>3. Unique
  BY <1>2 DEF Init, Unique, Creating, NoTask
<1>4. Coherent
  BY <1>2 DEF Init, Coherent, IdsCoherent, HashesCoherent, At, NoTask
<1>5. Kept
  BY <1>2 DEF Init, Kept, Storing, At, NoTask
<1>6. Due = {}
  BY <1>2 DEF Init, Due, PathsOf, Storing, NoTask
<1>7. Matched
  BY <1>2, <1>6 DEF Init, Matched, Storing, NoTask
<1> QED BY <1>1, <1>3, <1>4, <1>5, <1>7 DEF Inv

LEMMA InvStep == Inv /\ [Next]_vars => Inv'
BY TypeStep, CarriesStep, UniqueStep, CoherentStep, KeptStep, MatchedStep DEF Inv

\* The state keeps its shape, and a row's path is one of its content: for any
\* users, contents, shares and configurations, whatever fails.
THEOREM TypeCorrect == Spec => []TypeOK
<1>1. Inv => TypeOK
  BY DEF Inv
<1> QED BY InvInit, InvStep, <1>1, PTL DEF Spec

\* Deduplication: no sequence of uploads, saves and deletions creates a second
\* row of a content while the database answers.
THEOREM RowsAreUnique == Spec => []HashUnique
<1>1. Inv => HashUnique
  BY DEF Inv, Unique, HashUnique
<1> QED BY InvInit, InvStep, <1>1, PTL DEF Spec

\* Between requests, every row has its content and every content its row, until
\* something fails.
THEOREM RowsMatchContents == Spec => []Intact
<1>1. Inv => Intact
  <2> SUFFICES ASSUME Inv, Quiet, dbFaults = 0, blobFaults = 0, crashes = 0
               PROVE  /\ blobs \ spare = {files[i].path : i \in DOMAIN files}
                      /\ \A p \in spare : OnFastDfs(p)
    BY DEF Intact
  <2>1. ~Storing /\ ~Deleting
    BY DEF Quiet, Storing, Deleting, NoTask
  <2>2. Due = {files[i].path : i \in DOMAIN files}
    BY <2>1, DueFacts DEF PathsOf
  <2> QED BY <2>2 DEF Inv, Matched, Clean
<1> QED BY InvInit, InvStep, <1>1, PTL DEF Spec

\* Nothing but its own deletion takes away the content of a file, while the
\* database answers.
THEOREM ContentsAreKept == Spec => []ContentKept
<1>1. Inv => ContentKept
  BY DEF Inv, Kept, ContentKept
<1> QED BY InvInit, InvStep, <1>1, PTL DEF Spec

\* The in-memory caches never answer with a row that the table does not hold,
\* whatever fails.
THEOREM CachesAgree == Spec => []CacheCoherent
<1>1. Inv => CacheCoherent
  <2> SUFFICES ASSUME Inv, Quiet, ~Redis
               PROVE  IdsCoherent /\ HashesCoherent
    BY DEF CacheCoherent, IdsCoherent, HashesCoherent
  <2> QED BY DEF Inv, Coherent, NoRevival
<1> QED BY InvInit, InvStep, <1>1, PTL DEF Spec

\* While nothing has failed, the content of a row can be read.
LEMMA RowsReadable ==
    ASSUME Inv, Clean, task.op \in {"download", "fetch"}, NEW i \in DOMAIN files
    PROVE  Reachable(files[i].path)
<1>1. Due = PathsOf(DOMAIN files)
  BY DueFacts DEF Storing, Deleting
<1>2. files[i].path \in blobs
  BY <1>1 DEF Inv, Matched, PathsOf
<1>3. OnFastDfs(files[i].path) => fdfs
  BY DEF Inv, Matched, Named, LocalPath, OnFastDfs
<1> QED BY <1>2, <1>3 DEF Reachable

\* A read that ends without a fault answers with the content exactly when the
\* table says so.
LEMMA ReadStepExact ==
    ASSUME Inv, [Next]_vars, task.op \in {"download", "fetch"}, task' = NoTask,
           dbFaults' + blobFaults' + crashes' = 0
    PROVE  reply'.code = "content" <=>
              /\ task.id \in DOMAIN files
              /\ task.op = "download" => files[task.id].owner = task.user
<1> USE DEF Inv
<1>1. dbFaults' = 0 /\ blobFaults' = 0 /\ crashes' = 0 /\ Clean /\ NoRevival
  BY FaultsGrow DEF TypeOK, Clean, NoRevival
<1>2. ~BlobFault /\ ~Crash
  BY <1>1 DEF BlobFault, Crash, TypeOK
<1>3. Download \/ FetchShare \/ FetchServe
  <2>1. task # NoTask
    BY DEF NoTask
  <2>2. ~((\E u \in Users : Request(u)) \/ PublicRequest)
    BY <2>1 DEF Request, PublicRequest, Begin
  <2>3. ~UploadStep
    BY DEF UploadStep, UploadLookup, StoreFile, CreateCheck, CreateInsert, CreateReload, Creating, At
  <2>4. ~(Analyze \/ FileCheck \/ DeleteStep)
    BY DEF Analyze, FileCheck, DeleteStep, DeleteLookup, DeleteBlob, DeleteForget, DeleteRow, At
  <2>5. ~ShareStep
    BY DEF ShareStep, ShareLookup, ShareInsert, UnshareLookup, UnshareErase, SaveLookup,
           SaveOriginal, SaveDuplicate, At
  <2>6. ~(ShareExpires \/ Evict \/ RedisLost \/ UNCHANGED vars)
    BY <2>1 DEF ShareExpires, Evict, RedisLost, vars
  <2> QED BY <1>2, <2>2, <2>3, <2>4, <2>5, <2>6 DEF Next, ReadStep
<1>4. CASE Download
  <2>1. PICK r \in KnownRows :
          /\ GetFileById(task.id, r)
          /\ \/ r = NoRow /\ reply'.code = "missing"
             \/ r # NoRow /\ ~MayUse(r) /\ reply'.code = "denied"
             \/ MayUse(r) /\ Serve(r)
    BY <1>4 DEF Download, Finish
  <2>2. IF task.id \in DOMAIN files THEN r = files[task.id] ELSE r = NoRow
    BY <1>1, <2>1, ExactById
  <2>3. Serve(r) => reply'.code = IF Reachable(r.path) THEN "content" ELSE "missing"
    BY <1>2 DEF Serve, Finish
  <2>4. task.id \in DOMAIN files => Reachable(files[task.id].path) /\ files[task.id] # NoRow
    BY <1>1, RowsReadable, NoRowIsNone DEF TypeOK
  <2>5. task.op = "download"
    BY <1>4 DEF Download, At
  <2> QED BY <2>1, <2>2, <2>3, <2>4, <2>5 DEF MayUse
<1>5. CASE FetchShare
  <2>1. At("fetch", "start")
    BY <1>5 DEF FetchShare
  <2>2. task.id = 0 /\ 0 \notin DOMAIN files
    BY <2>1 DEF Carries, TypeOK, RowTypes
  <2>3. task \in Tasks
    BY <2>1, TaskShape DEF At, Ops
  <2>4. reply'.code = "missing"
    <3>1. PICK s : IF s = NoRow THEN Finish("missing")
                   ELSE task' = [task EXCEPT !.at = "serve", !.id = s.file]
      BY <1>5 DEF FetchShare
    <3>2. [task EXCEPT !.at = "serve", !.id = s.file].op = task.op
      BY <2>3 DEF Tasks
    <3>3. s = NoRow => reply'.code = "missing"
      BY <3>1 DEF Finish
    <3> QED BY <2>1, <3>1, <3>2, <3>3 DEF At, NoTask
  <2> QED BY <2>2, <2>4
<1>6. CASE FetchServe
  <2>1. PICK r \in KnownRows :
          /\ GetFileById(task.id, r)
          /\ IF r = NoRow THEN reply'.code = "missing" ELSE Serve(r)
    BY <1>6 DEF FetchServe, Finish
  <2>2. IF task.id \in DOMAIN files THEN r = files[task.id] ELSE r = NoRow
    BY <1>1, <2>1, ExactById
  <2>3. Serve(r) => reply'.code = IF Reachable(r.path) THEN "content" ELSE "missing"
    BY <1>2 DEF Serve, Finish
  <2>4. task.id \in DOMAIN files => Reachable(files[task.id].path) /\ files[task.id] # NoRow
    BY <1>1, RowsReadable, NoRowIsNone DEF TypeOK
  <2>5. task.op = "fetch"
    BY <1>6 DEF FetchServe, At
  <2> QED BY <2>1, <2>2, <2>3, <2>4, <2>5
<1> QED BY <1>3, <1>4, <1>5, <1>6

\* While nothing has failed, a download or a fetch of a share answers with the
\* content exactly when the table says it should: whatever the caches hold, for
\* any number of users, contents and rows.
THEOREM ReadsAreExact == Spec => ReadsExact
<1>1. Inv /\ [Next]_vars =>
        [task.op \in {"download", "fetch"} /\ task' = NoTask
           /\ dbFaults' + blobFaults' + crashes' = 0 =>
             (reply'.code = "content" <=>
                /\ task.id \in DOMAIN files
                /\ task.op = "download" => files[task.id].owner = task.user)]_vars
  BY ReadStepExact
<1> QED BY InvInit, InvStep, <1>1, PTL DEF Spec, ReadsExact
=============================================================================
