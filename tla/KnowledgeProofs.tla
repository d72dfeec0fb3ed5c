-------------------------- MODULE KnowledgeProofs --------------------------
(***************************************************************************)
(* What the run knowledge checks of the semantic search, proved: of module *)
(* SearchIndex for any contents with any chunks, any number of rows and    *)
(* any number of failures and restarts; of module Outbound for answers of  *)
(* any length, any pipe and any limit; of module TextChunker for texts of  *)
(* any length and any size and overlap that ChunkerAssumption allows.      *)
(***************************************************************************)
EXTENDS SearchIndex, Outbound, TextChunker,
        FiniteSetTheorems, SequenceTheorems, WellFoundedInduction, TLAPS

-----------------------------------------------------------------------------
(* The index.                                                              *)

Documents == [file : Ids, content : Contents, chunk : Nat \ {0}, kind : Kinds]

Indexings == [at : {"embed"}, id : Ids, content : Contents, chunk : Nat \ {0}]

TypeOK ==
    /\ rows \in [Ids -> Contents \cup {NoContent}] /\ nextId \in Nat \ {0}
    /\ idCached \subseteq Ids /\ hashCached \subseteq Ids
    /\ index \in Seq(Documents)
    /\ task \in {Idle} \cup Indexings
    /\ dbFaults \in Nat /\ llmFaults \in Nat /\ crashes \in Nat

\* Ids are given out in order, and a row never changes its content: it is
\* there from its insertion to its deletion, and its id is not used again.
Before(i, c) == i < nextId /\ rows[i] \in {c, NoContent}

\* What the caches, the index, the upload in progress and the last answer say
\* of a row is true of it, unless it was deleted.
Sound ==
    /\ \A i \in Ids : i >= nextId => rows[i] = NoContent
    /\ idCached \subseteq Stored
    /\ \A n \in DOMAIN index : Before(index[n].file, index[n].content)
    /\ task # Idle => task.id < nextId /\ rows[task.id] = task.content
    /\ reply.op = "search" /\ reply.ok =>
          \A r \in reply.results : r.id \in Ids /\ r.id < nextId /\ rows[r.id] = r.content
    /\ reply.op = "upload" /\ ~reply.ok /\ reply.id \in Ids =>
          /\ reply.id < nextId
          /\ reply.id \in Stored => "cut" \in Range(Chunks[rows[reply.id]])

\* Chunks are indexed in the order of the text, each once.
IndexedOnce ==
    dbFaults = 0 =>
        /\ ChunkIdUnique
        /\ task # Idle => \A n \in DOMAIN index : index[n].file = task.id => index[n].chunk < task.chunk

\* The inductive invariant.
Inv == TypeOK /\ Sound /\ IndexedOnce

-----------------------------------------------------------------------------
LEMMA InvInit == Init => Inv
<1> SUFFICES ASSUME Init PROVE Inv
  OBVIOUS
<1> USE DEF Init
<1>1. TypeOK
  BY DEF TypeOK
<1>2. Sound
  BY DEF Sound, Stored, NoReply, Idle
<1>3. IndexedOnce
  BY DEF IndexedOnce, ChunkIdUnique
<1> QED BY <1>1, <1>2, <1>3 DEF Inv

\* The chunks found are of rows, and there are finitely many rows to read.
LEMMA FilesAreIds ==
    ASSUME TypeOK, NEW limit, NEW top \in Tops(limit)
    PROVE  FilesOf(top) \subseteq Ids
<1>1. ASSUME NEW n \in top PROVE index[n].file \in Ids
  <2>1. n \in DOMAIN index
    BY DEF Tops
  <2>2. index[n] \in Documents
    BY <2>1 DEF TypeOK
  <2> QED BY <2>2 DEF Documents
<1> QED BY <1>1 DEF FilesOf

LEMMA FewIds ==
    ASSUME NEW S \in SUBSET Ids
    PROVE  Cardinality(S) \in Nat
<1>1. IsFiniteSet(Ids)
  BY SearchAssumption, FS_Interval DEF Ids
<1> QED BY <1>1, FS_Subset, FS_CardinalityType

LEMMA NextChunk ==
    ASSUME task \in Indexings
    PROVE  /\ [task EXCEPT !.chunk = @ + 1] \in Indexings
           /\ [task EXCEPT !.chunk = @ + 1].id = task.id
           /\ [task EXCEPT !.chunk = @ + 1].content = task.content
           /\ [task EXCEPT !.chunk = @ + 1].chunk = task.chunk + 1
<1>1. task.chunk + 1 \in Nat \ {0}
  BY DEF Indexings
<1> QED BY <1>1 DEF Indexings

LEMMA TypeStep == TypeOK /\ [Next]_vars => TypeOK'
<1> SUFFICES ASSUME TypeOK, [Next]_vars PROVE TypeOK'
  OBVIOUS
<1> USE SearchAssumption DEF TypeOK, table, caches, faults, DbFaults, LlmFault, Reply, Ids
<1>1. ASSUME NEW c \in Contents, UploadKnown(c) PROVE TypeOK'
  BY <1>1 DEF UploadKnown, Stored
<1>2. ASSUME NEW c \in Contents, UploadOverlooked(c) PROVE TypeOK'
  BY <1>2 DEF UploadOverlooked, Index, Indexings, Stored
<1>3. ASSUME NEW c \in Contents, UploadNew(c) PROVE TypeOK'
  BY <1>3 DEF UploadNew, Index, Indexings, NewId
<1>4. ASSUME NEW c \in Contents, UploadFails(c) PROVE TypeOK'
  BY <1>4 DEF UploadFails, NewId
<1>5. CASE Embed
  <2>1. task \in Indexings /\ task.chunk \in 1..Len(Chunks[task.content])
    BY <1>5, SMTT(30) DEF Embed, MoreChunks, Idle, Indexings
  <2>2. Chunks[task.content][task.chunk] \in Kinds
    BY <2>1 DEF Indexings
  <2>3. Document(task.id, task.content, task.chunk) \in Documents
    BY <2>1, <2>2 DEF Document, Documents, Indexings
  <2>4. index' \in Seq(Documents)
    BY <1>5, <2>3 DEF Embed
  <2>5. task' \in Indexings
    BY <1>5, <2>1, NextChunk DEF Embed
  <2> QED BY <1>5, <2>4, <2>5 DEF Embed
<1>6. CASE EmbedFails
  <2>1. task \in Indexings
    BY <1>6 DEF EmbedFails, MoreChunks, Idle, Indexings
  <2>2. task' \in Indexings
    BY <1>6, <2>1, NextChunk DEF EmbedFails
  <2> QED BY <1>6, <2>2 DEF EmbedFails
<1>7. CASE EmbedThrows
  BY <1>7 DEF EmbedThrows
<1>8. CASE Finish
  BY <1>8 DEF Finish
<1>9. ASSUME NEW i \in Ids, Delete(i) PROVE TypeOK'
  BY <1>9 DEF Delete, DeleteForget
<1>10. ASSUME NEW limit \in 1..MaxLimit, Search(limit) PROVE TypeOK'
  <2>1. PICK top \in Tops(limit), lost \in SUBSET (Ids \ idCached) :
          /\ dbFaults' = dbFaults + Cardinality(lost)
          /\ idCached' \subseteq idCached \cup Ids
    BY <1>10, FilesAreIds DEF Search, Stored
  <2>2. Cardinality(lost) \in Nat
    BY FewIds
  <2>3. dbFaults' \in Nat /\ idCached' \subseteq Ids
    BY <2>1, <2>2
  <2> QED BY <1>10, <2>3 DEF Search
<1>11. CASE SearchFails
  BY <1>11 DEF SearchFails
<1>12. CASE Expire
  BY <1>12 DEF Expire
<1>13. CASE Restart
  <2>1. idCached' \subseteq Ids /\ hashCached' \subseteq Ids /\ index' = <<>> /\ task' = Idle
    BY <1>13 DEF Restart
  <2> QED BY <1>13, <2>1 DEF Restart
<1>14. CASE UNCHANGED vars
  BY <1>14 DEF vars
<1> QED
  BY <1>1, <1>2, <1>3, <1>4, <1>5, <1>6, <1>7, <1>8, <1>9, <1>10, <1>11, <1>12, <1>13, <1>14
     DEF Next, Upload, Indexing

-----------------------------------------------------------------------------
(* What is said of a row is true of it.                                    *)

LEMMA IndexTyped ==
    ASSUME TypeOK, NEW n \in DOMAIN index
    PROVE  index[n].file \in Ids /\ index[n].content \in Contents /\ index[n].chunk \in Nat \ {0}
<1>1. index[n] \in Documents
  BY DEF TypeOK
<1> QED BY <1>1 DEF Documents

LEMMA SoundStep == TypeOK /\ Sound /\ [Next]_vars => Sound'
<1> SUFFICES ASSUME TypeOK, Sound, [Next]_vars PROVE Sound'
  OBVIOUS
<1> USE SearchAssumption DEF table, caches, faults, DbFaults, LlmFault, Reply
<1>0. /\ task # Idle <=> task \in Indexings
      /\ \A n \in DOMAIN index : index[n].file \in Ids /\ index[n].content \in Contents
      /\ \A i \in Stored : i \in Ids /\ i < nextId
  <2>1. task # Idle <=> task \in Indexings
    BY DEF TypeOK, Idle, Indexings
  <2>2. \A i \in Stored : i \in Ids /\ i < nextId
    BY DEF TypeOK, Sound, Stored, Ids
  <2> QED BY <2>1, <2>2, IndexTyped
<1>1. ASSUME NEW c \in Contents, UploadKnown(c) PROVE Sound'
  BY <1>0, <1>1 DEF UploadKnown, Sound, Before, Stored
<1>2. ASSUME NEW c \in Contents, UploadOverlooked(c) PROVE Sound'
  BY <1>0, <1>2 DEF UploadOverlooked, Sound, Before, Stored, Index
<1>3. ASSUME NEW c \in Contents, UploadNew(c) PROVE Sound'
  <2>1. /\ rows' = [rows EXCEPT ![nextId] = c] /\ nextId' = nextId + 1 /\ nextId \in Ids
        /\ idCached' = idCached \cup {nextId} /\ UNCHANGED <<index, reply>>
        /\ task' = [at |-> "embed", id |-> nextId, content |-> c, chunk |-> 1]
    BY <1>3 DEF UploadNew, NewId, Index, TypeOK, Ids
  <2>2. \A i \in Ids : i # nextId => rows'[i] = rows[i]
    BY <2>1 DEF TypeOK
  <2>3. rows'[nextId] = c /\ c # NoContent
    BY <2>1, <1>3 DEF TypeOK
  <2>4. idCached' \subseteq Stored'
    BY <2>1, <2>2, <2>3 DEF Sound, Stored
  <2>5. \A i \in Ids : i < nextId => i < nextId' /\ rows'[i] = rows[i]
    BY <2>1, <2>2 DEF TypeOK, Ids
  <2>6. \A i \in Ids : i >= nextId' => rows'[i] = NoContent
    BY <2>1, <2>2 DEF TypeOK, Ids, Sound
  <2>7. \A n \in DOMAIN index : Before(index[n].file, index[n].content)'
    BY <1>0, <2>1, <2>5 DEF Sound, Before
  <2>8. nextId < nextId'
    BY <2>1 DEF TypeOK
  <2> QED BY <1>0, <2>1, <2>3, <2>4, <2>5, <2>6, <2>7, <2>8 DEF Sound, Stored
<1>4. ASSUME NEW c \in Contents, UploadFails(c) PROVE Sound'
  <2>1. /\ nextId \in Ids /\ UNCHANGED <<index, task, idCached>>
        /\ reply'.op = "upload" /\ reply'.id \notin Ids /\ task = Idle
        /\ \/ rows' = [rows EXCEPT ![nextId] = c] /\ nextId' = nextId + 1
           \/ UNCHANGED <<rows, nextId>>
    BY <1>4 DEF UploadFails, NewId, TypeOK, Ids
  <2>2. /\ \A i \in Ids : i < nextId => i < nextId' /\ rows'[i] = rows[i]
        /\ \A i \in Ids : i >= nextId' => rows'[i] = NoContent
    <3>1. CASE rows' = [rows EXCEPT ![nextId] = c] /\ nextId' = nextId + 1
      BY <2>1, <3>1 DEF TypeOK, Ids, Sound
    <3>2. CASE UNCHANGED <<rows, nextId>>
      BY <3>2 DEF Sound
    <3> QED BY <2>1, <3>1, <3>2
  <2>3. \A i \in Stored : i < nextId /\ rows'[i] = rows[i]
    BY <1>0, <2>2
  <2>4. idCached' \subseteq Stored'
    BY <2>1, <2>3 DEF Sound, Stored
  <2>5. \A n \in DOMAIN index : Before(index[n].file, index[n].content)'
    BY <1>0, <2>1, <2>2 DEF Sound, Before
  <2> QED BY <2>1, <2>2, <2>4, <2>5 DEF Sound
<1>5. CASE Embed
  <2>1. task \in Indexings /\ UNCHANGED <<rows, nextId, idCached, reply>>
    BY <1>0, <1>5 DEF Embed, MoreChunks, Idle
  <2>2. \A n \in DOMAIN index' : \/ n \in DOMAIN index /\ index'[n] = index[n]
                                 \/ index'[n] = Document(task.id, task.content, task.chunk)
    BY <1>5 DEF Embed, TypeOK
  <2>3. task.id < nextId /\ rows[task.id] = task.content
    BY <1>0, <2>1 DEF Sound
  <2>4. \A n \in DOMAIN index' : Before(index'[n].file, index'[n].content)
    BY <2>2, <2>3 DEF Sound, Before, Document
  <2>5. task' \in Indexings /\ task'.id = task.id /\ task'.content = task.content
    BY <1>5, <2>1, NextChunk DEF Embed
  <2> QED BY <2>1, <2>3, <2>4, <2>5 DEF Sound, Stored, Before
<1>6. CASE EmbedFails
  <2>1. task \in Indexings /\ UNCHANGED <<rows, nextId, idCached, index, reply>>
    BY <1>0, <1>6 DEF EmbedFails, MoreChunks, Idle
  <2>2. task' \in Indexings /\ task'.id = task.id /\ task'.content = task.content
    BY <1>6, <2>1, NextChunk DEF EmbedFails
  <2> QED BY <1>0, <2>1, <2>2 DEF Sound, Stored, Before
<1>7. CASE EmbedThrows
  <2>1. task \in Indexings /\ UNCHANGED <<rows, nextId, idCached, index>> /\ task' = Idle
        /\ reply' = [op |-> "upload", ok |-> FALSE, id |-> task.id]
        /\ task.chunk \in DOMAIN Chunks[task.content] /\ Chunks[task.content][task.chunk] = "cut"
    BY <1>0, <1>7 DEF EmbedThrows, MoreChunks, Chunk, Idle, Indexings
  <2>2. "cut" \in Range(Chunks[task.content])
    BY <2>1 DEF Range
  <2> QED BY <1>0, <2>1, <2>2 DEF Sound, Stored, Before
<1>8. CASE Finish
  BY <1>0, <1>8 DEF Finish, Sound, Stored, Before
<1>9. ASSUME NEW i \in Ids, Delete(i) PROVE Sound'
  <2>1. /\ UNCHANGED <<nextId, index, task>> /\ task = Idle
        /\ idCached' = idCached \ {i} /\ reply'.op = "delete"
        /\ rows' = rows \/ rows' = [rows EXCEPT ![i] = NoContent]
    BY <1>9 DEF Delete, DeleteForget
  <2>2. \A j \in Ids : rows'[j] = rows[j] \/ (j = i /\ rows'[j] = NoContent)
    BY <2>1 DEF TypeOK
  <2>3. idCached' \subseteq Stored'
    BY <2>1, <2>2 DEF Sound, Stored
  <2> QED BY <1>0, <2>1, <2>2, <2>3 DEF Sound, Before
<1>10. ASSUME NEW limit \in 1..MaxLimit, Search(limit) PROVE Sound'
  <2>1. PICK top \in Tops(limit) :
          \E best \in [FilesOf(top) -> DOMAIN index], found \in SUBSET FilesOf(top) :
          /\ \A f \in FilesOf(top) : index[best[f]].file = f
          /\ found \subseteq idCached \cup Stored /\ idCached' = idCached \cup found
          /\ reply'.op = "search"
          /\ reply'.ok => reply'.results = {[id |-> f, content |-> index[best[f]].content] : f \in found}
    <3>1. PICK top \in Tops(limit) : \E best \in Bests(top), lost \in SUBSET (FilesOf(top) \ idCached) :
            LET found == FilesOf(top) \cap (idCached \cup (Stored \ lost))
                texts == {f \in found : index[best[f]].kind = "wide"}
            IN  /\ idCached' = idCached \cup found
                /\ reply' = IF texts # {}
                              THEN [op |-> "search", ok |-> FALSE, id |-> 0]
                              ELSE [op |-> "search", ok |-> TRUE, id |-> 0,
                                    results |-> {[id |-> f, content |-> index[best[f]].content] : f \in found}]
      BY <1>10 DEF Search
    <3>2. \A best \in Bests(top) : /\ best \in [FilesOf(top) -> DOMAIN index]
                                  /\ \A f \in FilesOf(top) : index[best[f]].file = f
      BY DEF Bests, Tops
    <3>3. PICK best \in Bests(top), lost \in SUBSET (FilesOf(top) \ idCached) :
            LET found == FilesOf(top) \cap (idCached \cup (Stored \ lost))
            IN  /\ idCached' = idCached \cup found
                /\ reply'.op = "search"
                /\ reply'.ok => reply'.results = {[id |-> f, content |-> index[best[f]].content] : f \in found}
      BY <3>1
    <3> DEFINE found == FilesOf(top) \cap (idCached \cup (Stored \ lost))
    <3>4. found \in SUBSET FilesOf(top) /\ found \subseteq idCached \cup Stored
      OBVIOUS
    <3>5. best \in [FilesOf(top) -> DOMAIN index]
      BY <3>2
    <3> USE <3>4, <3>5
    <3> HIDE DEF found
    <3> WITNESS top \in Tops(limit)
    <3> WITNESS best \in [FilesOf(top) -> DOMAIN index], found \in SUBSET FilesOf(top)
    <3> QED BY <3>2, <3>3, <3>4 DEF found
  <2>2. PICK best \in [FilesOf(top) -> DOMAIN index], found \in SUBSET FilesOf(top) :
          /\ \A f \in FilesOf(top) : index[best[f]].file = f
          /\ found \subseteq idCached \cup Stored /\ idCached' = idCached \cup found
          /\ reply'.op = "search"
          /\ reply'.ok => reply'.results = {[id |-> f, content |-> index[best[f]].content] : f \in found}
    BY <2>1
  <2>3. UNCHANGED <<rows, nextId, index, task>>
    BY <1>10 DEF Search
  <2>4. \A f \in found : /\ f \in Stored /\ f \in Ids /\ f < nextId
                         /\ rows[f] = index[best[f]].content
    BY <1>0, <2>2, FilesAreIds DEF Sound, Before, Stored
  <2>5. idCached' \subseteq Stored'
    BY <2>2, <2>3, <2>4 DEF Sound, Stored
  <2>6. reply'.ok => \A r \in reply'.results : r.id \in Ids /\ r.id < nextId /\ rows[r.id] = r.content
    BY <2>2, <2>4
  <2> QED BY <2>2, <2>3, <2>5, <2>6 DEF Sound, Before
<1>11. CASE SearchFails
  BY <1>0, <1>11 DEF SearchFails, Sound, Before, Stored
<1>12. CASE Expire
  BY <1>0, <1>12 DEF Expire, Sound, Before, Stored
<1>13. CASE Restart
  BY <1>0, <1>13 DEF Restart, Sound, Before, Stored, NoReply
<1>14. CASE UNCHANGED vars
  BY <1>0, <1>14 DEF vars, Sound, Before, Stored
<1> QED
  BY <1>1, <1>2, <1>3, <1>4, <1>5, <1>6, <1>7, <1>8, <1>9, <1>10, <1>11, <1>12, <1>13, <1>14
     DEF Next, Upload, Indexing

-----------------------------------------------------------------------------
(* No chunk is indexed twice.                                              *)

LEMMA IndexedOnceStep == TypeOK /\ Sound /\ IndexedOnce /\ [Next]_vars => IndexedOnce'
<1> SUFFICES ASSUME TypeOK, TypeOK', Sound, IndexedOnce, [Next]_vars, dbFaults' = 0 PROVE IndexedOnce'
  BY TypeStep DEF IndexedOnce
<1> USE SearchAssumption DEF table, caches, faults, DbFaults, LlmFault, Reply
<1>0. task # Idle <=> task \in Indexings
  BY DEF TypeOK, Idle, Indexings
<1>1. ASSUME UNCHANGED <<index, task>> \/ index' = <<>> \/ (UNCHANGED index /\ task' = Idle),
             dbFaults = 0
      PROVE  IndexedOnce'
  BY <1>1 DEF IndexedOnce, ChunkIdUnique
<1>2. ASSUME NEW c \in Contents, UploadKnown(c) PROVE IndexedOnce'
  BY <1>1, <1>2 DEF UploadKnown
<1>3. ASSUME NEW c \in Contents, UploadOverlooked(c) PROVE IndexedOnce'
  BY <1>3 DEF UploadOverlooked, TypeOK
<1>4. ASSUME NEW c \in Contents, UploadNew(c) PROVE IndexedOnce'
  <2>1. UNCHANGED <<index, dbFaults>> /\ task'.id = nextId
    BY <1>4 DEF UploadNew, Index, NewId
  <2>2. \A n \in DOMAIN index : index[n].file # nextId
    BY DEF Sound, Before, TypeOK
  <2> QED BY <2>1, <2>2 DEF IndexedOnce, ChunkIdUnique
<1>5. ASSUME NEW c \in Contents, UploadFails(c) PROVE IndexedOnce'
  BY <1>5 DEF UploadFails, TypeOK
<1>6. CASE Embed
  <2>1. task \in Indexings /\ task # Idle /\ dbFaults = 0
    BY <1>0, <1>6 DEF Embed, MoreChunks, Idle
  <2>2. task'.id = task.id /\ task'.chunk = task.chunk + 1
    BY <1>6, <2>1, NextChunk DEF Embed
  <2>3. /\ Len(index') = Len(index) + 1 /\ DOMAIN index' = 1..(Len(index) + 1)
        /\ \A n \in DOMAIN index : index'[n] = index[n]
        /\ index'[Len(index) + 1].file = task.id /\ index'[Len(index) + 1].chunk = task.chunk
    BY <1>6 DEF Embed, TypeOK, Document
  <2>4. DOMAIN index = 1..Len(index) /\ Len(index) \in Nat
    BY DEF TypeOK
  <2>5. \A n \in DOMAIN index : index[n].file = task.id => index[n].chunk < task.chunk
    BY <2>1 DEF IndexedOnce
  <2>6. \A n \in DOMAIN index : index[n].chunk \in Nat
    BY IndexTyped
  <2>7. ChunkIdUnique'
    <3> SUFFICES ASSUME NEW m \in DOMAIN index', NEW n \in DOMAIN index', m < n,
                        index'[m].file = index'[n].file, index'[m].chunk = index'[n].chunk
                 PROVE  FALSE
      BY <2>3, <2>4 DEF ChunkIdUnique
    <3>1. m \in DOMAIN index
      BY <2>3, <2>4
    <3>2. CASE n \in DOMAIN index
      BY <2>1, <2>3, <3>1, <3>2 DEF ChunkIdUnique, IndexedOnce
    <3>3. CASE n = Len(index) + 1
      BY <2>1, <2>3, <2>5, <2>6, <3>1, <3>3 DEF Indexings
    <3> QED BY <2>3, <2>4, <3>2, <3>3
  <2>8. \A n \in DOMAIN index' : index'[n].file = task'.id => index'[n].chunk < task'.chunk
    BY <2>1, <2>2, <2>3, <2>4, <2>5, <2>6 DEF Indexings
  <2> QED BY <2>7, <2>8 DEF IndexedOnce
<1>7. CASE EmbedFails
  <2>1. task \in Indexings /\ task # Idle /\ UNCHANGED <<index, dbFaults>>
    BY <1>0, <1>7 DEF EmbedFails, MoreChunks, Idle
  <2>2. task'.id = task.id /\ task'.chunk = task.chunk + 1
    BY <1>7, <2>1, NextChunk DEF EmbedFails
  <2>3. \A n \in DOMAIN index : index[n].chunk \in Nat
    BY IndexTyped
  <2> QED BY <2>1, <2>2, <2>3 DEF IndexedOnce, ChunkIdUnique, Indexings
<1>8. CASE EmbedThrows
  BY <1>1, <1>8 DEF EmbedThrows
<1>9. CASE Finish
  <2>1. dbFaults = 0
    BY <1>9 DEF Finish, TypeOK
  <2> QED BY <1>1, <1>9, <2>1 DEF Finish
<1>10. ASSUME NEW i \in Ids, Delete(i) PROVE IndexedOnce'
  <2>1. dbFaults = 0
    BY <1>10 DEF Delete, TypeOK
  <2> QED BY <1>1, <1>10, <2>1 DEF Delete
<1>11. ASSUME NEW limit \in 1..MaxLimit, Search(limit) PROVE IndexedOnce'
  <2>1. PICK lost \in SUBSET Ids : dbFaults' = dbFaults + Cardinality(lost)
    BY <1>11, FilesAreIds DEF Search
  <2>2. dbFaults = 0
    BY <2>1, FewIds DEF TypeOK
  <2> QED BY <1>1, <1>11, <2>2 DEF Search
<1>12. CASE SearchFails
  BY <1>1, <1>12 DEF SearchFails
<1>13. CASE Expire
  BY <1>1, <1>13 DEF Expire
<1>14. CASE Restart
  BY <1>1, <1>14 DEF Restart
<1>15. CASE UNCHANGED vars
  BY <1>1, <1>15 DEF vars
<1> QED
  BY <1>2, <1>3, <1>4, <1>5, <1>6, <1>7, <1>8, <1>9, <1>10, <1>11, <1>12, <1>13, <1>14, <1>15
     DEF Next, Upload, Indexing

-----------------------------------------------------------------------------
(* The theorems.                                                           *)

LEMMA InvStep == Inv /\ [Next]_vars => Inv'
BY TypeStep, SoundStep, IndexedOnceStep DEF Inv

\* What a search shows are contents of files that exist, although the index
\* keeps the chunks of deleted files and answers come out of a cache: for any
\* contents and any failures and restarts.
THEOREM SearchShowsFiles == Spec => []ResultsExist
<1>1. Inv => ResultsExist
  BY DEF Inv, Sound, ResultsExist
<1> QED BY InvInit, InvStep, <1>1, PTL DEF Spec

\* While the database answers, no chunk is in the index twice: an upload of a
\* content that has a row is not indexed, and no id is given twice.
THEOREM ChunksAreUnique == Spec => []ChunkIdUnique
<1>1. Inv => ChunkIdUnique
  BY DEF Inv, IndexedOnce, ChunkIdUnique
<1> QED BY InvInit, InvStep, <1>1, PTL DEF Spec

\* An upload whose row exists fails for a chunk that is no UTF-8 and for no
\* other reason, however often the model server does not answer.
THEOREM UploadsSucceed == Spec => []UploadSucceeds
<1>1. Inv => UploadSucceeds
  BY DEF Inv, Sound, UploadSucceeds, Stored
<1> QED BY InvInit, InvStep, <1>1, PTL DEF Spec

-----------------------------------------------------------------------------
(* The calls that leave the process.                                       *)

Resources == {"addrinfo", "socket", "tracker", "buffer", "file", "descriptor", "stream", "pipe"}

\* What a call holds is told by where it is.
HeldAt ==
    /\ held \subseteq Resources
    /\ "addrinfo" \in held <=> at \in {"socket", "connect"}
    /\ "socket" \in held <=> at \in {"connect", "send", "receive"}
    /\ "tracker" \in held <=> at \in {"query", "transfer"}
    /\ "buffer" \in held => at \in {"transferred", "not transferred"} /\ call = "download"
    /\ at = "transferred" /\ call = "download" => "buffer" \in held
    /\ "file" \in held <=> at \in {"open", "fill", "run", "read", "close"}
    /\ "descriptor" \in held <=> at = "open"
    /\ "stream" \in held <=> at = "fill"
    /\ "pipe" \in held <=> at \in {"read", "close"}

\* Each place belongs to the calls that pass it.
Places ==
    /\ call = "embed" => at \in {"idle", "resolve", "socket", "connect", "send", "receive", "parse"}
    /\ call \in {"upload", "download", "remove"} =>
         at \in {"idle", "tracker", "query", "transfer", "transferred", "not transferred"}
    /\ call = "pdf" => at \in {"idle", "create", "open", "fill", "run", "read", "close"}
    /\ call \in Calls

Balanced == Places /\ HeldAt /\ ~misused

\* A peer that has ended has said everything; what was read was sent.
Heard ==
    /\ peer = "ended" => written = answer.length
    /\ at \in {"receive", "parse"} => answer.is \in HttpAnswers
    /\ at \in {"read", "close"} => peer \in {"talking", "ended", "failed"}
    /\ at = "close" /\ ~marked => got = written /\ peer # "talking"
    /\ at = "idle" /\ call = "pdf" /\ result = "ok" => peer # "talking"

-----------------------------------------------------------------------------
(* What is taken is given back.                                            *)

LEMMA PlacesStep == Places /\ [CallNext]_callVars => Places'
<1> SUFFICES ASSUME Places, [CallNext]_callVars PROVE Places'
  OBVIOUS
<1> USE DEF Places, GoTo, End, Calls
<1>1. ASSUME NEW c \in Calls, Begin(c) PROVE Places'
  BY <1>1 DEF Begin
<1>2. CASE PeerWrites
  BY <1>2 DEF PeerWrites
<1>3. CASE PeerStops
  BY <1>3 DEF PeerStops
<1>4. CASE Resolve
  BY <1>4 DEF Resolve
<1>5. CASE Socket
  BY <1>5 DEF Socket
<1>6. CASE Connect
  BY <1>6 DEF Connect, ConnectFails
<1>7. CASE Send
  BY <1>7 DEF Send
<1>8. CASE Receive
  BY <1>8 DEF Receive
<1>9. CASE ParseAnswer
  BY <1>9 DEF ParseAnswer, HasHeaders, IsJson
<1>10. CASE Tracker
  BY <1>10 DEF Tracker
<1>11. CASE Query
  BY <1>11 DEF Query
<1>12. CASE Transfer
  BY <1>12 DEF Transfer
<1>13. CASE Transferred
  BY <1>13 DEF Transferred
<1>14. CASE Create
  BY <1>14 DEF Create
<1>15. CASE Open
  BY <1>15 DEF Open
<1>16. CASE Fill
  BY <1>16 DEF Fill
<1>17. CASE Run
  BY <1>17 DEF Run
<1>18. CASE ReadText
  BY <1>18 DEF ReadText
<1>19. CASE ClosePipe
  BY <1>19 DEF ClosePipe
<1>20. CASE UNCHANGED callVars
  BY <1>20 DEF callVars
<1> QED
  BY <1>1, <1>2, <1>3, <1>4, <1>5, <1>6, <1>7, <1>8, <1>9, <1>10, <1>11, <1>12,
     <1>13, <1>14, <1>15, <1>16, <1>17, <1>18, <1>19, <1>20 DEF CallNext

LEMMA HeldStep == Balanced /\ [CallNext]_callVars => HeldAt'
<1> SUFFICES ASSUME Balanced, [CallNext]_callVars PROVE HeldAt'
  OBVIOUS
<1> USE DEF Balanced, Places, HeldAt, Resources, GoTo, End
<1>1. ASSUME NEW c \in Calls, Begin(c) PROVE HeldAt'
  BY <1>1 DEF Begin
<1>2. CASE PeerWrites
  BY <1>2 DEF PeerWrites, Room
<1>3. CASE PeerStops
  BY <1>3 DEF PeerStops
<1>4. CASE Resolve
  BY <1>4 DEF Resolve, Take
<1>5. CASE Socket
  BY <1>5 DEF Socket, Take, Release
<1>6. CASE Connect
  BY <1>6 DEF Connect, Release, ConnectFails
<1>7. CASE Send
  BY <1>7 DEF Send, Release, Listen
<1>8. CASE Receive
  BY <1>8 DEF Receive, Release, ReadPiece
<1>9. CASE ParseAnswer
  BY <1>9 DEF ParseAnswer, HasHeaders, IsJson
<1>10. CASE Tracker
  BY <1>10 DEF Tracker, Take
<1>11. CASE Query
  BY <1>11 DEF Query, Release
<1>12. CASE Transfer
  <2>1. PICK ok \in BOOLEAN, buffer \in BOOLEAN :
          /\ (ok \/ call # "download") => (buffer <=> call = "download")
          /\ IF buffer THEN Swap("tracker", "buffer") ELSE Release({"tracker"})
          /\ GoTo(IF ok THEN "transferred" ELSE "not transferred")
    BY <1>12 DEF Transfer
  <2>2. at = "transfer"
    BY <1>12 DEF Transfer
  <2>3. CASE buffer
    <3>1. held' = (held \ {"tracker"}) \cup {"buffer"}
      BY <2>1, <2>3 DEF Swap
    <3> QED BY <2>1, <2>2, <2>3, <3>1
  <2>4. CASE ~buffer
    <3>1. held' = held \ {"tracker"}
      BY <2>1, <2>4 DEF Release
    <3> QED BY <2>1, <2>2, <2>4, <3>1
  <2> QED BY <2>3, <2>4
<1>13. CASE Transferred
  BY <1>13 DEF Transferred, Release
<1>14. CASE Create
  BY <1>14 DEF Create
<1>15. CASE Open
  BY <1>15 DEF Open, Swap, Release
<1>16. CASE Fill
  BY <1>16 DEF Fill, Release
<1>17. CASE Run
  BY <1>17 DEF Run, Take, Release, Listen
<1>18. CASE ReadText
  BY <1>18 DEF ReadText, ReadPiece, Silence
<1>19. CASE ClosePipe
  BY <1>19 DEF ClosePipe, Release, ConverterOk
<1>20. CASE UNCHANGED callVars
  BY <1>20 DEF callVars
<1> QED
  BY <1>1, <1>2, <1>3, <1>4, <1>5, <1>6, <1>7, <1>8, <1>9, <1>10, <1>11, <1>12,
     <1>13, <1>14, <1>15, <1>16, <1>17, <1>18, <1>19, <1>20 DEF CallNext

LEMMA MisusedStep == Balanced /\ [CallNext]_callVars => ~misused'
<1> SUFFICES ASSUME Balanced, [CallNext]_callVars PROVE ~misused'
  OBVIOUS
<1> USE DEF Balanced, Places, HeldAt, Resources, GoTo, End
<1>1. ASSUME NEW c \in Calls, Begin(c) PROVE ~misused'
  BY <1>1 DEF Begin
<1>2. CASE PeerWrites
  BY <1>2 DEF PeerWrites, Room
<1>3. CASE PeerStops
  BY <1>3 DEF PeerStops
<1>4. CASE Resolve
  BY <1>4 DEF Resolve, Take
<1>5. CASE Socket
  BY <1>5 DEF Socket, Take, Release
<1>6. CASE Connect
  BY <1>6 DEF Connect, Release, ConnectFails
<1>7. CASE Send
  BY <1>7 DEF Send, Release, Listen
<1>8. CASE Receive
  BY <1>8 DEF Receive, Release, ReadPiece
<1>9. CASE ParseAnswer
  BY <1>9 DEF ParseAnswer, HasHeaders, IsJson
<1>10. CASE Tracker
  BY <1>10 DEF Tracker, Take
<1>11. CASE Query
  BY <1>11 DEF Query, Release
<1>12. CASE Transfer
  BY <1>12 DEF Transfer, Swap, Release
<1>13. CASE Transferred
  BY <1>13 DEF Transferred, Release
<1>14. CASE Create
  BY <1>14 DEF Create
<1>15. CASE Open
  BY <1>15 DEF Open, Swap, Release
<1>16. CASE Fill
  BY <1>16 DEF Fill, Release
<1>17. CASE Run
  BY <1>17 DEF Run, Take, Release, Listen
<1>18. CASE ReadText
  BY <1>18 DEF ReadText, ReadPiece, Silence
<1>19. CASE ClosePipe
  BY <1>19 DEF ClosePipe, Release, ConverterOk
<1>20. CASE UNCHANGED callVars
  BY <1>20 DEF callVars
<1> QED
  BY <1>1, <1>2, <1>3, <1>4, <1>5, <1>6, <1>7, <1>8, <1>9, <1>10, <1>11, <1>12,
     <1>13, <1>14, <1>15, <1>16, <1>17, <1>18, <1>19, <1>20 DEF CallNext

LEMMA BalancedStep == Balanced /\ [CallNext]_callVars => Balanced'
BY PlacesStep, HeldStep, MisusedStep DEF Balanced

\* Whichever step of a call fails, it returns with everything given back, and
\* gives back nothing it does not hold: for answers of any length.
THEOREM AllReleased == CallSpec => []ReleasedOnce
<1>1. CallInit => Balanced
  BY DEF CallInit, Balanced, Places, HeldAt, Calls
<1>2. Balanced /\ [CallNext]_callVars => Balanced'
  BY BalancedStep
<1>3. Balanced => ReleasedOnce
  BY DEF Balanced, HeldAt, Resources, ReleasedOnce
<1> QED BY <1>1, <1>2, <1>3, PTL DEF CallSpec

-----------------------------------------------------------------------------
(* What is reported as a success is complete.                              *)

LEMMA HeardStep == Balanced /\ Heard /\ [CallNext]_callVars => Heard'
<1> SUFFICES ASSUME Balanced, Heard, [CallNext]_callVars PROVE Heard'
  OBVIOUS
<1> USE DEF Balanced, Places, Heard, GoTo, End, Silent, talk
<1>1. ASSUME NEW c \in Calls, Begin(c) PROVE Heard'
  BY <1>1 DEF Begin
<1>2. CASE PeerWrites
  BY <1>2 DEF PeerWrites, Room
<1>3. CASE PeerStops
  BY <1>3 DEF PeerStops
<1>4. CASE Resolve
  BY <1>4 DEF Resolve, Take
<1>5. CASE Socket
  BY <1>5 DEF Socket, Take, Release
<1>6. CASE Connect
  BY <1>6 DEF Connect, Release, ConnectFails
<1>7. CASE Send
  BY <1>7 DEF Send, Release, Listen
<1>8. CASE Receive
  BY <1>8 DEF Receive, Release, ReadPiece
<1>9. CASE ParseAnswer
  BY <1>9 DEF ParseAnswer, HasHeaders, IsJson
<1>10. CASE Tracker
  BY <1>10 DEF Tracker, Take
<1>11. CASE Query
  BY <1>11 DEF Query, Release
<1>12. CASE Transfer
  BY <1>12 DEF Transfer, Swap, Release
<1>13. CASE Transferred
  BY <1>13 DEF Transferred, Release
<1>14. CASE Create
  BY <1>14 DEF Create
<1>15. CASE Open
  BY <1>15 DEF Open, Swap, Release
<1>16. CASE Fill
  BY <1>16 DEF Fill, Release
<1>17. CASE Run
  BY <1>17 DEF Run, Take, Release, Listen
<1>18. CASE ReadText
  BY <1>18 DEF ReadText, ReadPiece, Silence
<1>19. CASE ClosePipe
  BY <1>19 DEF ClosePipe, Release, ConverterOk
<1>20. CASE UNCHANGED callVars
  BY <1>20 DEF callVars
<1> QED
  BY <1>1, <1>2, <1>3, <1>4, <1>5, <1>6, <1>7, <1>8, <1>9, <1>10, <1>11, <1>12,
     <1>13, <1>14, <1>15, <1>16, <1>17, <1>18, <1>19, <1>20 DEF CallNext

LEMMA CompleteStep ==
    Balanced /\ Heard /\ CompleteAnswer /\ [CallNext]_callVars => CompleteAnswer'
<1> SUFFICES ASSUME Balanced, Heard, CompleteAnswer, [CallNext]_callVars PROVE CompleteAnswer'
  OBVIOUS
<1> USE DEF Balanced, Places, Heard, CompleteAnswer, HttpAnswers, GoTo, End, Silent, talk
<1>1. ASSUME NEW c \in Calls, Begin(c) PROVE CompleteAnswer'
  BY <1>1 DEF Begin
<1>2. CASE PeerWrites
  BY <1>2 DEF PeerWrites, Room
<1>3. CASE PeerStops
  BY <1>3 DEF PeerStops
<1>4. CASE Resolve
  BY <1>4 DEF Resolve, Take
<1>5. CASE Socket
  BY <1>5 DEF Socket, Take, Release
<1>6. CASE Connect
  BY <1>6 DEF Connect, Release, ConnectFails
<1>7. CASE Send
  BY <1>7 DEF Send, Release, Listen
<1>8. CASE Receive
  BY <1>8 DEF Receive, Release, ReadPiece
<1>9. CASE ParseAnswer
  BY <1>9 DEF ParseAnswer, HasHeaders, IsJson
<1>10. CASE Tracker
  BY <1>10 DEF Tracker, Take
<1>11. CASE Query
  BY <1>11 DEF Query, Release
<1>12. CASE Transfer
  BY <1>12 DEF Transfer, Swap, Release
<1>13. CASE Transferred
  BY <1>13 DEF Transferred, Release
<1>14. CASE Create
  BY <1>14 DEF Create
<1>15. CASE Open
  BY <1>15 DEF Open, Swap, Release
<1>16. CASE Fill
  BY <1>16 DEF Fill, Release
<1>17. CASE Run
  BY <1>17 DEF Run, Take, Release, Listen
<1>18. CASE ReadText
  BY <1>18 DEF ReadText, ReadPiece, Silence
<1>19. CASE ClosePipe
  <2>1. PICK ok \in ConverterOk :
          at' = "idle" /\ result' = (IF ok /\ got > 0 THEN "ok" ELSE "failed")
    BY <1>19 DEF ClosePipe
  <2>2. /\ at = "close" /\ UNCHANGED <<answer, written, got, call, marked>>
        /\ peer' = IF peer = "talking" THEN "failed" ELSE peer
    BY <1>19 DEF ClosePipe
  <2>3. call = "pdf"
    BY <2>2 DEF Calls
  <2>4. CASE peer = "ended"
    BY <2>1, <2>2, <2>3, <2>4
  <2>5. CASE peer = "failed"
    <3>1. ok = FALSE
      BY <2>5 DEF ConverterOk
    <3> QED BY <2>1, <2>2, <2>3, <3>1
  <2>6. CASE peer = "talking"
    BY <2>1, <2>2, <2>3, <2>6
  <2> QED BY <2>2, <2>4, <2>5, <2>6
<1>20. CASE UNCHANGED callVars
  BY <1>20 DEF callVars
<1> QED
  BY <1>1, <1>2, <1>3, <1>4, <1>5, <1>6, <1>7, <1>8, <1>9, <1>10, <1>11, <1>12,
     <1>13, <1>14, <1>15, <1>16, <1>17, <1>18, <1>19, <1>20 DEF CallNext

\* A vector comes from the whole of an answer that has one, and a text that is
\* not marked as cut is all the converter wrote: for answers of any length.
THEOREM AnswersComplete == CallSpec => []CompleteAnswer
<1>1. CallInit => Balanced /\ Heard /\ CompleteAnswer
  BY DEF CallInit, Balanced, Places, HeldAt, Resources, Calls, Heard, CompleteAnswer
<1>2. Balanced /\ Heard /\ CompleteAnswer /\ [CallNext]_callVars
        => (Balanced /\ Heard /\ CompleteAnswer)'
  BY BalancedStep, HeardStep, CompleteStep
<1> QED BY <1>1, <1>2, PTL DEF CallSpec

-----------------------------------------------------------------------------
(* The chunker.  The invariant follows the text through the loops: the     *)
(* lines read are in the paragraphs, the paragraphs not yet merged, the    *)
(* chunk being filled, the part of a long paragraph the window has not     *)
(* reached and the chunks together hold every byte that is not a newline,  *)
(* each in its order and each before the next.                             *)

(* Pieces of a text t.                                                     *)

NL(t, p) == p > Len(t) \/ t[p] = "newline"

\* A part of the text without a gap.
Block(t, b) ==
    /\ b \in Seq(Nat) /\ Len(b) > 0 /\ b[1] > 0
    /\ \A i \in 1..Len(b) : b[i] = b[1] + i - 1

\* Between the end of c and the position q there are newlines only.
Ahead(t, c, q) ==
    /\ c[Len(c)] < q
    /\ \A p \in (c[Len(c)] + 1)..(q - 1) : NL(t, p)

\* A chunk, or what becomes one.
Piece(t, c) ==
    /\ c \in Seq(Nat) /\ Len(c) > 0
    /\ \A i \in 1..(Len(c) - 1) : c[i] < c[i + 1] /\ \A p \in (c[i] + 1)..(c[i + 1] - 1) : NL(t, p)

LEMMA SeqFacts ==
    ASSUME NEW S, NEW s \in Seq(S)
    PROVE  /\ Len(s) \in Nat /\ DOMAIN s = 1..Len(s)
           /\ \A i \in 1..Len(s) : s[i] \in S
           /\ s # <<>> <=> Len(s) > 0
<1>1. Len(s) \in Nat /\ DOMAIN s = 1..Len(s) /\ \A i \in 1..Len(s) : s[i] \in S
  BY LenProperties, ElementOfSeq
<1>2. s # <<>> => Len(s) > 0
  BY EmptySeq
<1>3. Len(<<>>) = 0
  OBVIOUS
<1> QED BY <1>1, <1>2, <1>3

LEMMA BlockFacts ==
    ASSUME NEW t, NEW b, Block(t, b)
    PROVE  /\ Len(b) \in Nat \ {0} /\ b[1] \in Nat \ {0} /\ b # <<>>
           /\ b[Len(b)] = b[1] + Len(b) - 1
           /\ Range(b) = b[1]..b[Len(b)]
<1>1. /\ b \in Seq(Nat) /\ Len(b) \in Nat /\ Len(b) > 0 /\ DOMAIN b = 1..Len(b) /\ b # <<>>
      /\ b[1] \in Nat /\ b[1] > 0 /\ \A i \in 1..Len(b) : b[i] = b[1] + i - 1
  BY SeqFacts DEF Block
<1>2. b[Len(b)] = b[1] + Len(b) - 1
  BY <1>1
<1>3. ASSUME NEW p \in Range(b)
      PROVE  p \in b[1]..b[Len(b)]
  <2>1. PICK i \in 1..Len(b) : p = b[i]
    BY <1>1 DEF Range
  <2>2. p = b[1] + i - 1
    BY <1>1, <2>1
  <2> QED BY <1>1, <1>2, <2>2
<1>4. ASSUME NEW p \in b[1]..b[Len(b)]
      PROVE  p \in Range(b)
  <2>1. p - b[1] + 1 \in 1..Len(b)
    BY <1>1, <1>2
  <2>2. b[p - b[1] + 1] = p
    <3>1. b[p - b[1] + 1] = b[1] + (p - b[1] + 1) - 1
      BY <1>1, <2>1
    <3> QED BY <1>1, <2>1, <3>1
  <2> QED BY <1>1, <2>1, <2>2 DEF Range
<1>5. Range(b) = b[1]..b[Len(b)]
  BY <1>3, <1>4
<1>6. Len(b) \in Nat \ {0} /\ b[1] \in Nat \ {0} /\ b # <<>>
  BY <1>1
<1> QED BY <1>2, <1>5, <1>6

LEMMA BlockIsPiece ==
    ASSUME NEW t, NEW b, Block(t, b)
    PROVE  Piece(t, b)
<1>1. /\ b \in Seq(Nat) /\ Len(b) \in Nat /\ Len(b) > 0 /\ b[1] \in Nat
      /\ \A i \in 1..Len(b) : b[i] = b[1] + i - 1
  BY BlockFacts DEF Block
<1>2. ASSUME NEW i \in 1..(Len(b) - 1)
      PROVE  b[i] < b[i + 1] /\ \A p \in (b[i] + 1)..(b[i + 1] - 1) : NL(t, p)
  <2>1. i \in 1..Len(b) /\ i + 1 \in 1..Len(b)
    BY <1>1
  <2>2. b[i] = b[1] + i - 1 /\ b[i + 1] = b[1] + (i + 1) - 1
    BY <1>1, <2>1
  <2>3. b[i] \in Int /\ b[i + 1] = b[i] + 1
    <3>1. b[1] \in Int /\ i \in Int
      BY <1>1
    <3> QED BY <2>2, <3>1
  <2> QED BY <2>3
<1> QED BY <1>1, <1>2 DEF Piece

\* A part of a block is a block.
LEMMA BlockCut ==
    ASSUME NEW t, NEW b, Block(t, b), NEW s \in Nat, NEW e \in Nat, s < e, e <= Len(b)
    PROVE  /\ Block(t, SubSeq(b, s + 1, e))
           /\ Len(SubSeq(b, s + 1, e)) = e - s
           /\ SubSeq(b, s + 1, e)[1] = b[s + 1]
           /\ \A i \in (s + 1)..e : b[i] \in Range(SubSeq(b, s + 1, e))
<1> DEFINE c == SubSeq(b, s + 1, e)
<1>1. /\ b \in Seq(Nat) /\ Len(b) \in Nat /\ Len(b) > 0 /\ b[1] \in Nat /\ b[1] > 0
      /\ \A i \in 1..Len(b) : b[i] = b[1] + i - 1
  BY BlockFacts DEF Block
<1>2. /\ c \in Seq(Nat) /\ Len(c) = e - s
      /\ \A i \in 1..(e - s) : c[i] = b[s + i]
  <2>1. s + 1 \in Int /\ e \in Int /\ \A i \in (s + 1)..e : b[i] \in Nat
    BY <1>1, SeqFacts
  <2>2. /\ c \in Seq(Nat)
        /\ Len(c) = IF s + 1 <= e THEN e - (s + 1) + 1 ELSE 0
        /\ \A i \in 1..(e - (s + 1) + 1) : c[i] = b[(s + 1) + i - 1]
    BY <2>1, SubSeqProperties
  <2> HIDE DEF c
  <2>3. Len(c) = e - s
    <3>1. s + 1 <= e /\ e - (s + 1) + 1 = e - s
      OBVIOUS
    <3> QED BY <2>2, <3>1
  <2>4. ASSUME NEW i \in 1..(e - s)
        PROVE  c[i] = b[s + i]
    <3>1. i \in 1..(e - (s + 1) + 1) /\ (s + 1) + i - 1 = s + i
      OBVIOUS
    <3> QED BY <2>2, <3>1
  <2> QED BY <2>2, <2>3, <2>4
<1> HIDE DEF c
<1>3. c[1] = b[s + 1] /\ b[s + 1] = b[1] + s
  <2>1. 1 \in 1..(e - s) /\ s + 1 \in 1..Len(b)
    BY <1>1
  <2> QED BY <1>1, <1>2, <2>1
<1>4. ASSUME NEW i \in 1..Len(c)
      PROVE  c[i] = c[1] + i - 1
  <2>1. s + i \in 1..Len(b) /\ c[i] = b[s + i]
    <3>1. i \in 1..(e - s)
      BY <1>2
    <3>2. s + i \in 1..Len(b)
      BY <1>1, <3>1
    <3> QED BY <1>2, <3>1, <3>2
  <2>2. b[s + i] = b[1] + (s + i) - 1
    BY <1>1, <2>1
  <2>3. c[i] = b[1] + (s + i) - 1 /\ c[1] = b[1] + s /\ i \in Nat
    BY <1>2, <1>3, <2>1, <2>2
  <2> QED BY <1>1, <2>3
<1>5. Block(t, c)
  <2>1. Len(c) > 0
    BY <1>2
  <2>2. c[1] > 0
    BY <1>1, <1>3
  <2> QED BY <1>2, <1>4, <2>1, <2>2 DEF Block
<1>6. ASSUME NEW i \in (s + 1)..e
      PROVE  b[i] \in Range(c)
  <2>1. i - s \in 1..(e - s) /\ s + (i - s) = i
    OBVIOUS
  <2>2. c[i - s] = b[i] /\ i - s \in DOMAIN c
    BY <1>2, <2>1, SeqFacts
  <2> QED BY <2>2 DEF Range
<1> QED BY <1>2, <1>3, <1>5, <1>6 DEF c

\* The positions a..e of a text.
LEMMA RunIsBlock ==
    ASSUME NEW t, NEW a \in Nat \ {0}, NEW e \in Nat, a <= e
    PROVE  /\ Block(t, [i \in 1..(e - a + 1) |-> a + i - 1])
           /\ [i \in 1..(e - a + 1) |-> a + i - 1][1] = a
           /\ Len([i \in 1..(e - a + 1) |-> a + i - 1]) = e - a + 1
<1> DEFINE n == e - a + 1
           r == [i \in 1..n |-> a + i - 1]
<1>1. n \in Nat /\ n > 0
  OBVIOUS
<1> HIDE DEF n
<1>2. \A i \in 1..n : a + i - 1 \in Nat
  BY <1>1
<1>3. r \in Seq(Nat) /\ Len(r) = n
  BY <1>1, <1>2
<1>4. 1 \in 1..n
  BY <1>1
<1>5. r[1] = a
  BY <1>4
<1>6. \A i \in 1..n : r[i] = a + i - 1
  OBVIOUS
<1> HIDE DEF r
<1>7. Block(t, r)
  BY <1>1, <1>3, <1>5, <1>6 DEF Block
<1> QED BY <1>3, <1>5, <1>7 DEF r, n

\* j begins like c, ends like b and has what either has.
Joins(c, b, j) ==
    /\ Len(j) = Len(c) + Len(b)
    /\ j[1] = c[1]
    /\ j[Len(j)] = b[Len(b)]
    /\ \A p \in Range(c) \cup Range(b) : p \in Range(j)

\* A block is put behind a piece.
LEMMA Joined ==
    ASSUME NEW t, NEW c, Piece(t, c), NEW b, Block(t, b), Ahead(t, c, b[1])
    PROVE  Piece(t, c \o b) /\ Joins(c, b, c \o b)
<1> DEFINE j == c \o b
<1>1. /\ c \in Seq(Nat) /\ Len(c) \in Nat /\ Len(c) > 0 /\ DOMAIN c = 1..Len(c)
      /\ \A i \in 1..Len(c) : c[i] \in Nat
  BY SeqFacts DEF Piece
<1>2. /\ b \in Seq(Nat) /\ Len(b) \in Nat /\ Len(b) > 0 /\ DOMAIN b = 1..Len(b)
      /\ \A i \in 1..Len(b) : b[i] \in Nat
  BY SeqFacts, BlockFacts DEF Block
<1>3. /\ j \in Seq(Nat) /\ Len(j) = Len(c) + Len(b)
      /\ \A i \in 1..(Len(c) + Len(b)) : j[i] = IF i <= Len(c) THEN c[i] ELSE b[i - Len(c)]
  BY <1>1, <1>2, ConcatProperties
<1> HIDE DEF j
<1>4. Piece(t, b)
  BY BlockIsPiece
<1>5. ASSUME NEW i \in 1..Len(c)
      PROVE  i \in 1..Len(j) /\ j[i] = c[i]
  <2>1. i \in 1..(Len(c) + Len(b)) /\ i <= Len(c)
    BY <1>1, <1>2
  <2> QED BY <1>3, <2>1
<1>6. ASSUME NEW i \in 1..Len(b)
      PROVE  Len(c) + i \in 1..Len(j) /\ j[Len(c) + i] = b[i]
  <2>1. Len(c) + i \in 1..(Len(c) + Len(b)) /\ ~(Len(c) + i <= Len(c)) /\ Len(c) + i - Len(c) = i
    BY <1>1, <1>2
  <2> QED BY <1>3, <2>1
<1>7. ASSUME NEW i \in 1..(Len(j) - 1)
      PROVE  j[i] < j[i + 1] /\ \A p \in (j[i] + 1)..(j[i + 1] - 1) : NL(t, p)
  <2>1. CASE i < Len(c)
    <3>1. i \in 1..(Len(c) - 1) /\ i \in 1..Len(c) /\ i + 1 \in 1..Len(c)
      BY <1>1, <2>1
    <3>2. j[i] = c[i] /\ j[i + 1] = c[i + 1]
      BY <1>5, <3>1
    <3> QED BY <3>1, <3>2 DEF Piece
  <2>2. CASE i = Len(c)
    <3>1. i \in 1..Len(c) /\ 1 \in 1..Len(b)
      BY <1>1, <1>2, <2>2
    <3>2. j[i] = c[Len(c)] /\ j[i + 1] = b[1]
      BY <1>5, <1>6, <2>2, <3>1
    <3> QED BY <3>2 DEF Ahead
  <2>3. CASE i > Len(c)
    <3> DEFINE k == i - Len(c)
    <3>1. k \in 1..(Len(b) - 1) /\ k \in 1..Len(b) /\ k + 1 \in 1..Len(b)
          /\ i = Len(c) + k /\ i + 1 = Len(c) + (k + 1)
      <4>1. Len(c) \in Nat /\ Len(b) \in Nat /\ i \in 1..(Len(c) + Len(b) - 1)
        BY <1>1, <1>2, <1>3
      <4>2. k \in Nat /\ k > 0 /\ k <= Len(b) - 1
        BY <2>3, <4>1
      <4>3. i = Len(c) + k /\ i + 1 = Len(c) + (k + 1)
        BY <4>1
      <4> QED BY <4>1, <4>2, <4>3
    <3> HIDE DEF k
    <3>2. j[i] = b[k] /\ j[i + 1] = b[k + 1]
      BY <1>6, <3>1
    <3> QED BY <1>4, <3>1, <3>2 DEF Piece
  <2>4. i < Len(c) \/ i = Len(c) \/ i > Len(c)
    <3>1. i \in Int /\ Len(c) \in Int
      BY <1>1
    <3> QED BY <3>1
  <2> QED BY <2>1, <2>2, <2>3, <2>4
<1>8. Piece(t, j)
  BY <1>1, <1>2, <1>3, <1>7 DEF Piece
<1>9. j[1] = c[1] /\ j[Len(j)] = b[Len(b)]
  <2>1. 1 \in 1..Len(c) /\ Len(b) \in 1..Len(b)
    BY <1>1, <1>2
  <2> QED BY <1>3, <1>5, <1>6, <2>1
<1>10. ASSUME NEW p \in Range(c) \cup Range(b)
       PROVE  p \in Range(j)
  <2>1. DOMAIN j = 1..Len(j)
    BY <1>3, SeqFacts
  <2>2. CASE p \in Range(c)
    BY <1>1, <1>5, <2>1, <2>2 DEF Range
  <2>3. CASE p \in Range(b)
    BY <1>2, <1>6, <2>1, <2>3 DEF Range
  <2> QED BY <2>2, <2>3
<1>11. Joins(c, b, j)
  BY <1>3, <1>9, <1>10 DEF Joins
<1> QED BY <1>8, <1>11 DEF j

\* A block goes on without a gap.
LEMMA Continued ==
    ASSUME NEW t, NEW c, Block(t, c), NEW b, Block(t, b), b[1] = c[Len(c)] + 1
    PROVE  Block(t, c \o b) /\ Joins(c, b, c \o b)
<1> DEFINE j == c \o b
<1>1. /\ c \in Seq(Nat) /\ Len(c) \in Nat /\ Len(c) > 0 /\ c[1] \in Nat /\ c[1] > 0
      /\ c[Len(c)] = c[1] + Len(c) - 1
      /\ \A i \in 1..Len(c) : c[i] = c[1] + i - 1
  BY BlockFacts DEF Block
<1>2. /\ b \in Seq(Nat) /\ Len(b) \in Nat /\ Len(b) > 0 /\ b[1] \in Nat
      /\ \A i \in 1..Len(b) : b[i] = b[1] + i - 1
  BY BlockFacts DEF Block
<1>3. Piece(t, c) /\ Ahead(t, c, b[1])
  <2>1. c[Len(c)] \in Nat
    BY <1>1
  <2>2. c[Len(c)] < b[1] /\ (c[Len(c)] + 1)..(b[1] - 1) = {}
    BY <2>1
  <2> QED BY <2>2, BlockIsPiece DEF Ahead
<1>4. Piece(t, j) /\ Joins(c, b, j) /\ Len(j) = Len(c) + Len(b) /\ j[1] = c[1]
  <2>1. Piece(t, j) /\ Joins(c, b, j)
    BY <1>3, Joined
  <2> QED BY <2>1 DEF Joins
<1>5. \A i \in 1..(Len(c) + Len(b)) : j[i] = IF i <= Len(c) THEN c[i] ELSE b[i - Len(c)]
  BY <1>1, <1>2, ConcatProperties
<1> HIDE DEF j
<1>6. ASSUME NEW i \in 1..Len(j)
      PROVE  j[i] = j[1] + i - 1
  <2>1. CASE i <= Len(c)
    <3>1. i \in 1..Len(c) /\ j[i] = c[i]
      BY <1>1, <1>2, <1>4, <1>5, <2>1
    <3>2. c[i] = c[1] + i - 1
      BY <1>1, <3>1
    <3> QED BY <1>4, <3>1, <3>2
  <2>2. CASE ~(i <= Len(c))
    <3>1. i - Len(c) \in 1..Len(b) /\ j[i] = b[i - Len(c)]
      BY <1>1, <1>2, <1>4, <1>5, <2>2
    <3>2. b[i - Len(c)] = b[1] + (i - Len(c)) - 1
      BY <1>2, <3>1
    <3>3. j[1] = c[1] /\ b[1] = c[1] + Len(c) - 1 + 1
      BY <1>1, <1>4
    <3>4. j[i] = b[1] + (i - Len(c)) - 1
      BY <3>1, <3>2
    <3>5. Len(c) \in Nat /\ c[1] \in Nat /\ i \in Nat
      BY <1>1, <1>4
    <3>6. b[1] = c[1] + Len(c)
      BY <3>3, <3>5
    <3>7. (c[1] + Len(c)) + (i - Len(c)) - 1 = c[1] + i - 1
      BY <3>5
    <3> QED BY <3>3, <3>4, <3>6, <3>7
  <2> QED BY <2>1, <2>2
<1>7. Block(t, j)
  BY <1>1, <1>4, <1>6 DEF Block, Piece
<1> QED BY <1>4, <1>7 DEF j

-----------------------------------------------------------------------------
(* The invariant.                                                          *)

ChunkerTypeOK ==
    /\ entry \in {"paragraph", "size"}
    /\ text \in Seq(Bytes)
    /\ size \in Nat \ {0} /\ overlap \in Nat
    /\ Len(text) + 1 + size < Word /\ Word \in Nat
    /\ overlap < size /\ overlap <= size \div 2 + 1
    /\ pc \in {"lines", "merge", "window", "done"}
    /\ line \in Nat \ {0} /\ start \in Nat
    /\ para \in Seq(Nat) /\ current \in Seq(Nat) /\ long \in Seq(Nat)
    /\ paragraphs \in Seq(Seq(Nat)) /\ chunks \in Seq(Seq(Nat))

\* The paragraphs follow each other in the text.
Paragraphs ==
    /\ \A i \in 1..Len(paragraphs) :
         Block(text, paragraphs[i]) /\ paragraphs[i][Len(paragraphs[i])] <= Len(text) + 1
    /\ \A i \in 1..(Len(paragraphs) - 1) : Ahead(text, paragraphs[i], paragraphs[i + 1][1])

\* The paragraph being read ends where the next line begins, and with the ones
\* before it has what was read.
Lines ==
    pc = "lines" =>
        /\ chunks = <<>> /\ current = <<>>
        /\ para # <<>> => /\ Block(text, para) /\ para[Len(para)] = line - 1
                          /\ line - 1 <= Len(text) + 1
        /\ para # <<>> /\ paragraphs # <<>> =>
             Ahead(text, paragraphs[Len(paragraphs)], para[1])
        /\ para = <<>> /\ paragraphs # <<>> =>
             Ahead(text, paragraphs[Len(paragraphs)], line)
        /\ \A p \in 1..(line - 1) : ~NL(text, p) =>
             p \in Range(para) \/ \E i \in 1..Len(paragraphs) : p \in Range(paragraphs[i])

ChunksFilled ==
    /\ \A i \in 1..Len(chunks) : Piece(text, chunks[i]) /\ Len(chunks[i]) <= size + 1
    /\ \A i \in 1..(Len(chunks) - 1) : chunks[i][1] < chunks[i + 1][1]

\* The last chunk, if there is one, begins before the position q.
Behind(q) == chunks # <<>> => chunks[Len(chunks)][1] < q

\* The chunk being filled stands between the chunks and the paragraphs.
Current ==
    /\ current # <<>> =>
         /\ Piece(text, current) /\ Len(current) <= size /\ Behind(current[1])
         /\ paragraphs # <<>> =>
              current[1] < paragraphs[1][1] /\ Ahead(text, current, paragraphs[1][1])
    /\ pc \in {"window", "done"} => current = <<>>
    /\ pc = "merge" /\ paragraphs # <<>> => Behind(paragraphs[1][1])

\* What the window has still to cover stands between the chunks and the
\* paragraphs too.
Long ==
    pc = "window" =>
        /\ Block(text, long) /\ long[Len(long)] <= Len(text) + 1
        /\ start < Len(long) /\ Behind(long[start + 1])
        /\ paragraphs # <<>> => Ahead(text, long, paragraphs[1][1])

\* Where a byte of the text is.
Held(p) ==
    \/ \E i \in 1..Len(chunks) : p \in Range(chunks[i])
    \/ p \in Range(current)
    \/ \E i \in 1..Len(paragraphs) : p \in Range(paragraphs[i])
    \/ pc = "window" /\ \E i \in (start + 1)..Len(long) : p = long[i]

Covered ==
    /\ pc # "lines" => \A p \in 1..Len(text) : ~NL(text, p) => Held(p)
    /\ pc = "done" => paragraphs = <<>>
    /\ entry = "size" => paragraphs = <<>> /\ pc \in {"window", "done"}

\* The inductive invariant.
ChunkerInv == ChunkerTypeOK /\ Paragraphs /\ Lines /\ ChunksFilled /\ Current /\ Long /\ Covered

-----------------------------------------------------------------------------
(* The start.                                                              *)

LEMMA TextIsSeq == MaxText \in Nat => \A t \in Texts : t \in Seq(Bytes) /\ Len(t) <= MaxText
<1> SUFFICES ASSUME MaxText \in Nat, NEW t \in Texts
             PROVE  t \in Seq(Bytes) /\ Len(t) <= MaxText
  OBVIOUS
<1>1. PICK m \in 0..MaxText : t \in [1..m -> Bytes]
  BY DEF Texts, BoundedSeq, SeqOf
<1>2. m \in Nat /\ m <= MaxText
  BY <1>1
<1>3. t \in Seq(Bytes) /\ Len(t) = m
  BY <1>1, <1>2
<1> QED BY <1>2, <1>3

LEMMA InitInv == ChunkerInit => ChunkerInv
<1> SUFFICES ASSUME ChunkerInit
             PROVE  ChunkerInv
  OBVIOUS
<1>1. text \in Seq(Bytes) /\ Len(text) <= MaxText /\ Len(text) \in Nat
  BY TextIsSeq, SeqFacts, ChunkerAssumption DEF ChunkerInit
<1>2. PICK s \in Sizes : size = Sized(s)
  BY DEF ChunkerInit
<1>3. PICK o \in Overlaps : overlap = IF entry = "size" THEN Overlapping(o, size) ELSE size \div 5
  BY DEF ChunkerInit
<1>4. size \in Nat \ {0} /\ MaxText \in Nat /\ MaxText + 1 + size < Word /\ o \in Nat /\ Word \in Nat
  BY <1>2, ChunkerAssumption DEF Sized
<1>5. overlap \in Nat /\ overlap < size /\ overlap <= size \div 2 + 1
  <2>1. CASE entry = "size"
    <3>1. overlap = Overlapping(o, size) /\ overlap <= size \div 2 + 1
      BY <1>2, <1>3, <2>1, ChunkerAssumption
    <3>2. size \div 4 \in Nat /\ size \div 4 < size
      BY <1>4
    <3> QED BY <1>4, <3>1, <3>2 DEF Overlapping
  <2>2. CASE entry # "size"
    BY <1>3, <1>4, <2>2
  <2> QED BY <2>1, <2>2
<1>6. /\ entry \in {"paragraph", "size"}
      /\ pc = IF Len(text) <= size THEN "done" ELSE IF entry = "size" THEN "window" ELSE "lines"
      /\ chunks = IF Len(text) \in 1..size THEN <<Whole>> ELSE <<>>
      /\ long = IF entry = "size" THEN Whole ELSE <<>>
      /\ para = <<>> /\ paragraphs = <<>> /\ line = 1 /\ current = <<>> /\ start = 0
  BY ChunkerAssumption DEF ChunkerInit
<1>7. ASSUME Len(text) > 0
      PROVE  /\ Block(text, Whole) /\ Len(Whole) = Len(text) /\ Whole[1] = 1
             /\ Range(Whole) = 1..Len(text) /\ Whole[Len(Whole)] = Len(text)
  <2> DEFINE n == Len(text)
             r == [i \in 1..(n - 1 + 1) |-> 1 + i - 1]
  <2>1. n \in Nat \ {0}
    BY <1>1, <1>7
  <2> HIDE DEF n
  <2>2. r = [i \in 1..n |-> i]
    BY <2>1
  <2>3. Block(text, r) /\ r[1] = 1 /\ Len(r) = n
    <3>1. n \in Nat /\ 1 \in Nat \ {0} /\ 1 <= n /\ n - 1 + 1 = n
      BY <2>1
    <3> QED BY <3>1, RunIsBlock
  <2>4. Whole = r
    BY <2>2 DEF Whole, n
  <2>5. r[Len(r)] = n /\ Range(r) = 1..n
    <3>1. r[Len(r)] = r[1] + Len(r) - 1 /\ Range(r) = r[1]..r[Len(r)]
      BY <2>3, BlockFacts
    <3>2. r[Len(r)] = n
      BY <2>1, <2>3, <3>1
    <3> QED BY <2>3, <3>1, <3>2
  <2> QED BY <2>3, <2>4, <2>5 DEF n
<1>8. Whole \in Seq(Nat)
  <2>1. CASE Len(text) > 0
    BY <1>7, <2>1 DEF Block
  <2>2. CASE Len(text) = 0
    BY <2>2 DEF Whole
  <2> QED BY <1>1, <2>1, <2>2
<1>9. ChunkerTypeOK
  BY <1>1, <1>4, <1>5, <1>6, <1>8 DEF ChunkerTypeOK
<1>10. Paragraphs /\ Lines
  BY <1>6 DEF Paragraphs, Lines
<1>11. ChunksFilled
  <2>1. CASE Len(text) \in 1..size
    <3>1. Piece(text, Whole) /\ Len(Whole) <= size + 1
      BY <1>1, <1>4, <1>7, <2>1, BlockIsPiece
    <3>2. chunks = <<Whole>>
      BY <1>6, <2>1
    <3> QED BY <3>1, <3>2 DEF ChunksFilled
  <2>2. CASE Len(text) \notin 1..size
    BY <1>6, <2>2 DEF ChunksFilled
  <2> QED BY <2>1, <2>2
<1>12. Current
  BY <1>6 DEF Current
<1>13. Long
  <2> SUFFICES ASSUME pc = "window"
               PROVE  Long
    BY DEF Long
  <2>1. Len(text) > size /\ long = Whole /\ chunks = <<>>
    BY <1>1, <1>4, <1>6
  <2>2. Len(text) > 0
    BY <1>1, <1>4, <2>1
  <2> QED BY <1>1, <1>6, <1>7, <2>1, <2>2 DEF Long, Behind
<1>14. Covered
  <2>1. ASSUME pc # "lines", NEW p \in 1..Len(text)
        PROVE  Held(p)
    <3>1. Len(text) > 0
      BY <1>1
    <3>2. CASE Len(text) <= size
      <4>1. chunks = <<Whole>>
        BY <1>1, <1>4, <1>6, <3>1, <3>2
      <4>2. 1 \in 1..Len(chunks) /\ chunks[1] = Whole
        BY <4>1
      <4> QED BY <1>7, <3>1, <4>2 DEF Held
    <3>3. CASE ~(Len(text) <= size)
      <4>1. pc = "window" /\ long = Whole /\ start = 0
        BY <1>6, <2>1, <3>3
      <4>2. p \in (start + 1)..Len(long) /\ long[p] = p
        BY <1>1, <1>7, <3>1, <4>1 DEF Whole
      <4> QED BY <4>1, <4>2 DEF Held
    <3> QED BY <3>2, <3>3
  <2> QED BY <1>6, <2>1 DEF Covered
<1> QED BY <1>9, <1>10, <1>11, <1>12, <1>13, <1>14 DEF ChunkerInv

-----------------------------------------------------------------------------
(* Reading the lines.                                                      *)

LEMMA ByteIsNL ==
    ASSUME ChunkerTypeOK, NEW p \in Nat \ {0}
    PROVE  Byte(p) = "newline" <=> NL(text, p)
<1>1. Len(text) \in Nat
  BY SeqFacts DEF ChunkerTypeOK
<1> QED BY <1>1 DEF Byte, NL

LEMMA LineEnds ==
    ASSUME ChunkerTypeOK, line <= Len(text)
    PROVE  /\ LineEnd \in line..(Len(text) + 1)
           /\ NL(text, LineEnd)
           /\ \A p \in line..(LineEnd - 1) : ~NL(text, p)
<1>1. Len(text) \in Nat /\ line \in Nat \ {0}
  BY SeqFacts DEF ChunkerTypeOK
<1> DEFINE S == {e \in line..(Len(text) + 1) : Byte(e) = "newline"}
<1>2. Len(text) + 1 \in S
  BY <1>1 DEF Byte
<1>3. S \in SUBSET Nat
  BY <1>1
<1>4. PICK m \in S : \A n \in S : m <= n
  <2>1. PICK m \in S : \A y \in S : ~(<<y, m>> \in OpToRel(<, Nat))
    BY <1>2, <1>3, NatLessThanWellFounded, WFMin
  <2>2. ASSUME NEW n \in S
        PROVE  m <= n
    <3>1. m \in Nat /\ n \in Nat
      BY <1>3
    <3>2. <<n, m>> \in {p \in Nat \X Nat : p[1] < p[2]} <=> n < m
      BY <3>1
    <3>3. <<n, m>> \notin {p \in Nat \X Nat : p[1] < p[2]}
      BY <2>1 DEF OpToRel
    <3> QED BY <3>1, <3>2, <3>3
  <2> QED BY <2>2
<1>5. /\ m \in line..(Len(text) + 1) /\ Byte(m) = "newline"
      /\ \A p \in line..(m - 1) : Byte(p) # "newline"
  <2>1. ASSUME NEW p \in line..(m - 1)
        PROVE  Byte(p) # "newline"
    <3>1. p \in line..(Len(text) + 1) /\ ~(m <= p)
      BY <1>1, <1>4
    <3> QED BY <1>4, <3>1
  <2> QED BY <1>4, <2>1
<1>6. /\ LineEnd \in line..(Len(text) + 1) /\ Byte(LineEnd) = "newline"
      /\ \A p \in line..(LineEnd - 1) : Byte(p) # "newline"
  <2> HIDE DEF S
  <2> DEFINE P(e) == Byte(e) = "newline" /\ \A p \in line..(e - 1) : Byte(p) # "newline"
  <2>1. \E e \in line..(Len(text) + 1) : P(e)
    BY <1>5
  <2>2. LineEnd = CHOOSE e \in line..(Len(text) + 1) : P(e)
    BY DEF LineEnd
  <2> HIDE DEF P
  <2>3. LineEnd \in line..(Len(text) + 1) /\ P(LineEnd)
    BY <2>1, <2>2
  <2> QED BY <2>3 DEF P
<1>7. \A p \in line..(LineEnd - 1) : p \in Nat \ {0}
  BY <1>1, <1>6
<1>8. LineEnd \in Nat \ {0}
  BY <1>1, <1>6
<1> QED BY <1>6, <1>7, <1>8, ByteIsNL

\* What is in the text stays as it is.
LEMMA Unchanged ==
    ASSUME ChunkerTypeOK, UNCHANGED args
    PROVE  entry' = entry /\ text' = text /\ size' = size /\ overlap' = overlap
BY DEF args

LEMMA AddLineInv == ChunkerInv /\ AddLine => ChunkerInv'
<1> SUFFICES ASSUME ChunkerInv, AddLine
             PROVE  ChunkerInv'
  OBVIOUS
<1> DEFINE n == Len(paragraphs)
           e == LineEnd
           run == [i \in 1..(e - line + 1) |-> line + i - 1]
<1>1. /\ ChunkerTypeOK /\ pc = "lines" /\ line <= Len(text) /\ line' = e + 1
      /\ entry' = entry /\ text' = text /\ size' = size /\ overlap' = overlap /\ pc' = pc
      /\ current' = current /\ long' = long /\ start' = start /\ chunks' = chunks
  BY Unchanged DEF ChunkerInv, AddLine
<1>2. Len(text) \in Nat /\ line \in Nat \ {0} /\ n \in Nat /\ para \in Seq(Nat)
      /\ paragraphs \in Seq(Seq(Nat)) /\ (paragraphs # <<>> <=> n > 0)
  BY <1>1, SeqFacts DEF ChunkerTypeOK
<1>3. e \in line..(Len(text) + 1) /\ NL(text, e) /\ \A p \in line..(e - 1) : ~NL(text, p)
  BY <1>1, LineEnds
<1> HIDE DEF e
<1>4. /\ chunks = <<>> /\ current = <<>>
      /\ para # <<>> => /\ Block(text, para) /\ para[Len(para)] = line - 1
                        /\ line - 1 <= Len(text) + 1
      /\ para # <<>> /\ paragraphs # <<>> => Ahead(text, paragraphs[n], para[1])
      /\ para = <<>> /\ paragraphs # <<>> => Ahead(text, paragraphs[n], line)
      /\ \A p \in 1..(line - 1) : ~NL(text, p) =>
             p \in Range(para) \/ \E i \in 1..n : p \in Range(paragraphs[i])
  BY <1>1 DEF ChunkerInv, Lines
<1>5. /\ \A i \in 1..n : Block(text, paragraphs[i]) /\ paragraphs[i][Len(paragraphs[i])] <= Len(text) + 1
      /\ \A i \in 1..(n - 1) : Ahead(text, paragraphs[i], paragraphs[i + 1][1])
  BY DEF ChunkerInv, Paragraphs
<1>6. e + 1 \in Nat \ {0}
  BY <1>2, <1>3
<1>7. entry # "size"
  BY <1>1 DEF ChunkerInv, Covered
<1>8. ChunksFilled' /\ Current' /\ Long' /\ Covered'
  <2>1. chunks' = <<>> /\ current' = <<>> /\ pc' = "lines" /\ entry' # "size"
    BY <1>1, <1>4, <1>7
  <2> QED BY <2>1 DEF ChunksFilled, Current, Long, Covered
<1>9. CASE e = line /\ para # <<>>
  <2>1. paragraphs' = Append(paragraphs, para) /\ para' = <<>>
    BY <1>9 DEF AddLine, e
  <2>2. /\ paragraphs' \in Seq(Seq(Nat)) /\ Len(paragraphs') = n + 1
        /\ \A i \in 1..n : paragraphs'[i] = paragraphs[i]
        /\ paragraphs'[n + 1] = para
    BY <1>2, <2>1, AppendProperties
  <2> HIDE DEF n
  <2>3. ChunkerTypeOK'
    BY <1>1, <1>6, <2>1, <2>2 DEF ChunkerTypeOK
  <2>4. /\ Block(text, para) /\ para[Len(para)] = line - 1 /\ line - 1 <= Len(text) + 1
        /\ n > 0 => Ahead(text, paragraphs[n], para[1])
    BY <1>2, <1>4, <1>9
  <2>5. ASSUME NEW i \in 1..(n + 1)
        PROVE  /\ Block(text, paragraphs'[i])
               /\ paragraphs'[i][Len(paragraphs'[i])] <= Len(text) + 1
    <3>1. CASE i = n + 1
      <4>1. para[Len(para)] <= Len(text) + 1
        BY <2>4
      <4> QED BY <2>2, <2>4, <3>1, <4>1
    <3>2. CASE i # n + 1
      <4>1. i \in 1..n
        BY <1>2, <3>2
      <4> QED BY <1>5, <2>2, <4>1 DEF n
    <3> QED BY <3>1, <3>2
  <2>6. ASSUME NEW i \in 1..n
        PROVE  Ahead(text, paragraphs'[i], paragraphs'[i + 1][1])
    <3>1. CASE i < n
      <4>1. i + 1 \in 1..n /\ i \in 1..(n - 1)
        BY <1>2, <3>1
      <4> QED BY <1>5, <2>2, <4>1
    <3>2. CASE i = n
      BY <1>2, <2>2, <2>4, <3>2
    <3> QED BY <1>2, <3>1, <3>2
  <2>7. Paragraphs'
    <3>1. n + 1 - 1 = n
      BY <1>2
    <3>2. \A i \in 1..Len(paragraphs') :
            /\ Block(text', paragraphs'[i])
            /\ paragraphs'[i][Len(paragraphs'[i])] <= Len(text') + 1
      BY <1>1, <2>2, <2>5
    <3>3. \A i \in 1..(Len(paragraphs') - 1) : Ahead(text', paragraphs'[i], paragraphs'[i + 1][1])
      <4>1. Len(paragraphs') - 1 = n /\ text' = text
        BY <1>1, <1>2, <2>2
      <4>2. \A i \in 1..n : Ahead(text, paragraphs'[i], paragraphs'[i + 1][1])
        BY <2>6
      <4> QED BY <4>1, <4>2
    <3> QED BY <3>2, <3>3 DEF Paragraphs
  <2>8. Ahead(text, para, line + 1)
    <3>1. para[Len(para)] < line + 1
      BY <1>2, <2>4
    <3>2. ASSUME NEW p \in (para[Len(para)] + 1)..((line + 1) - 1)
          PROVE  NL(text, p)
      <4>1. p = line
        BY <1>2, <2>4
      <4> QED BY <1>3, <1>9, <4>1
    <3>3. \A p \in (para[Len(para)] + 1)..((line + 1) - 1) : NL(text, p)
      BY <3>2
    <3> QED BY <3>1, <3>3 DEF Ahead
  <2>9. ASSUME NEW p \in 1..(line' - 1), ~NL(text, p)
        PROVE  \E i \in 1..(n + 1) : p \in Range(paragraphs'[i])
    <3>1. p \in 1..line /\ p # line
      BY <1>1, <1>2, <1>3, <1>9, <2>9
    <3>2. p \in 1..(line - 1)
      BY <1>2, <3>1
    <3>3. CASE p \in Range(para)
      <4>1. n + 1 \in 1..(n + 1)
        BY <1>2
      <4> QED BY <2>2, <3>3, <4>1
    <3>4. CASE \E i \in 1..n : p \in Range(paragraphs[i])
      <4>1. PICK i \in 1..n : p \in Range(paragraphs[i])
        BY <3>4
      <4>2. i \in 1..(n + 1)
        BY <1>2
      <4> QED BY <2>2, <4>1, <4>2
    <3> QED BY <1>4, <2>9, <3>2, <3>3, <3>4 DEF n
  <2>10. Lines'
    <3>1. /\ chunks' = <<>> /\ current' = <<>> /\ para' = <<>> /\ line' = line + 1
          /\ Ahead(text', paragraphs'[Len(paragraphs')], line')
      BY <1>1, <1>4, <1>9, <2>1, <2>2, <2>8
    <3>2. \A p \in 1..(line' - 1) : ~NL(text', p) =>
             \E i \in 1..Len(paragraphs') : p \in Range(paragraphs'[i])
      BY <1>1, <2>2, <2>9
    <3> QED BY <3>1, <3>2 DEF Lines
  <2> QED BY <1>8, <2>3, <2>7, <2>10 DEF ChunkerInv
<1>10. CASE ~(e = line /\ para # <<>>)
  <2>1. para' = para \o run /\ paragraphs' = paragraphs
    BY <1>10 DEF AddLine, e
  <2>2. Block(text, run) /\ run[1] = line /\ run # <<>> /\ run[Len(run)] = e /\ Range(run) = line..e
    <3>1. e \in Nat /\ line <= e
      BY <1>2, <1>3
    <3>2. Block(text, run) /\ run[1] = line /\ Len(run) = e - line + 1
      BY <1>2, <3>1, RunIsBlock
    <3> HIDE DEF run
    <3>3. run[Len(run)] = run[1] + Len(run) - 1 /\ Range(run) = run[1]..run[Len(run)] /\ run # <<>>
      BY <3>2, BlockFacts
    <3>4. run[Len(run)] = e
      BY <1>2, <3>1, <3>2, <3>3
    <3> QED BY <3>2, <3>3, <3>4
  <2> HIDE DEF run
  <2>3. /\ Block(text, para') /\ para'[Len(para')] = e
        /\ para'[1] = IF para = <<>> THEN line ELSE para[1]
        /\ \A p \in Range(para) \cup Range(run) : p \in Range(para')
    <3>1. CASE para = <<>>
      <4>1. para' = run
        BY <2>1, <2>2, <3>1, ConcatEmptySeq DEF Block
      <4>2. Range(para) = {}
        BY <3>1 DEF Range
      <4> QED BY <2>2, <3>1, <4>1, <4>2
    <3>2. CASE para # <<>>
      <4>1. Block(text, para) /\ run[1] = para[Len(para)] + 1
        BY <1>2, <1>4, <2>2, <3>2
      <4>2. Block(text, para') /\ Joins(para, run, para')
        BY <2>1, <2>2, <4>1, Continued
      <4> QED BY <2>2, <3>2, <4>2 DEF Joins
    <3> QED BY <3>1, <3>2
  <2>4. para' \in Seq(Nat) /\ para' # <<>>
    BY <2>3, BlockFacts DEF Block
  <2>5. ChunkerTypeOK'
    BY <1>1, <1>2, <1>6, <2>1, <2>4 DEF ChunkerTypeOK
  <2>6. Paragraphs'
    BY <1>1, <1>5, <2>1 DEF Paragraphs
  <2>7. paragraphs # <<>> => Ahead(text, paragraphs[n], para'[1])
    BY <1>4, <2>3
  <2>8. ASSUME NEW p \in 1..(line' - 1), ~NL(text, p)
        PROVE  p \in Range(para') \/ \E i \in 1..n : p \in Range(paragraphs[i])
    <3>1. CASE p < line
      <4>1. p \in 1..(line - 1)
        BY <1>2, <3>1
      <4> QED BY <1>4, <2>3, <2>8, <4>1
    <3>2. CASE p >= line
      <4>1. p \in line..e
        BY <1>1, <1>2, <1>3, <3>2
      <4> QED BY <2>2, <2>3, <4>1
    <3> QED BY <1>2, <3>1, <3>2
  <2>9. line' - 1 = e /\ e <= Len(text) + 1
    BY <1>1, <1>2, <1>3
  <2>10. Lines'
    <3>1. /\ chunks' = <<>> /\ current' = <<>> /\ Block(text', para') /\ para'[Len(para')] = line' - 1
          /\ line' - 1 <= Len(text') + 1
      BY <1>1, <1>4, <2>3, <2>9
    <3>2. paragraphs' # <<>> => Ahead(text', paragraphs'[Len(paragraphs')], para'[1])
      BY <1>1, <2>1, <2>7
    <3>3. \A p \in 1..(line' - 1) : ~NL(text', p) =>
             p \in Range(para') \/ \E i \in 1..Len(paragraphs') : p \in Range(paragraphs'[i])
      BY <1>1, <2>1, <2>8
    <3> QED BY <2>4, <3>1, <3>2, <3>3 DEF Lines
  <2> QED BY <1>8, <2>5, <2>6, <2>10 DEF ChunkerInv
<1> QED BY <1>9, <1>10

LEMMA EndLinesInv == ChunkerInv /\ EndLines => ChunkerInv'
<1> SUFFICES ASSUME ChunkerInv, EndLines
             PROVE  ChunkerInv'
  OBVIOUS
<1> DEFINE n == Len(paragraphs)
<1>1. /\ ChunkerTypeOK /\ pc = "lines" /\ line > Len(text) /\ para' = <<>> /\ pc' = "merge"
      /\ entry' = entry /\ text' = text /\ size' = size /\ overlap' = overlap /\ line' = line
      /\ current' = current /\ long' = long /\ start' = start /\ chunks' = chunks
      /\ paragraphs' = IF para # <<>> THEN Append(paragraphs, para) ELSE paragraphs
  BY Unchanged DEF ChunkerInv, EndLines
<1>2. Len(text) \in Nat /\ line \in Nat \ {0} /\ n \in Nat /\ para \in Seq(Nat)
      /\ paragraphs \in Seq(Seq(Nat)) /\ (paragraphs # <<>> <=> n > 0)
  BY <1>1, SeqFacts DEF ChunkerTypeOK
<1>3. /\ chunks = <<>> /\ current = <<>>
      /\ para # <<>> => /\ Block(text, para) /\ para[Len(para)] = line - 1
                        /\ line - 1 <= Len(text) + 1
      /\ para # <<>> /\ paragraphs # <<>> => Ahead(text, paragraphs[n], para[1])
      /\ \A p \in 1..(line - 1) : ~NL(text, p) =>
             p \in Range(para) \/ \E i \in 1..n : p \in Range(paragraphs[i])
  BY <1>1 DEF ChunkerInv, Lines
<1>4. /\ \A i \in 1..n : Block(text, paragraphs[i]) /\ paragraphs[i][Len(paragraphs[i])] <= Len(text) + 1
      /\ \A i \in 1..(n - 1) : Ahead(text, paragraphs[i], paragraphs[i + 1][1])
  BY DEF ChunkerInv, Paragraphs
<1>5. chunks' = <<>> /\ current' = <<>> /\ entry' # "size" /\ pc' = "merge"
  BY <1>1, <1>3 DEF ChunkerInv, Covered
<1>6. Lines' /\ ChunksFilled' /\ Current' /\ Long'
  BY <1>5 DEF Lines, ChunksFilled, Current, Long, Behind
<1>7. \A p \in 1..Len(text) : p \in 1..(line - 1)
  BY <1>1, <1>2
<1>8. CASE para = <<>>
  <2>1. paragraphs' = paragraphs
    BY <1>1, <1>8
  <2>2. ChunkerTypeOK'
    BY <1>1, <1>8, <2>1 DEF ChunkerTypeOK
  <2>3. Paragraphs'
    BY <1>1, <1>4, <2>1 DEF Paragraphs
  <2>4. Range(para) = {}
    BY <1>8 DEF Range
  <2>5. Covered'
    BY <1>1, <1>3, <1>5, <1>7, <2>1, <2>4 DEF Covered, Held
  <2> QED BY <1>6, <2>2, <2>3, <2>5 DEF ChunkerInv
<1>9. CASE para # <<>>
  <2>1. paragraphs' = Append(paragraphs, para)
    BY <1>1, <1>9
  <2>2. /\ paragraphs' \in Seq(Seq(Nat)) /\ Len(paragraphs') = n + 1
        /\ \A i \in 1..n : paragraphs'[i] = paragraphs[i]
        /\ paragraphs'[n + 1] = para
    BY <1>2, <2>1, AppendProperties
  <2> HIDE DEF n
  <2>3. ChunkerTypeOK'
    <3>1. para' \in Seq(Nat)
      BY <1>1
    <3> QED BY <1>1, <2>2, <3>1 DEF ChunkerTypeOK
  <2>4. /\ Block(text, para) /\ para[Len(para)] <= Len(text) + 1
        /\ n > 0 => Ahead(text, paragraphs[n], para[1])
    BY <1>2, <1>3, <1>9
  <2>5. ASSUME NEW i \in 1..(n + 1)
        PROVE  /\ Block(text, paragraphs'[i])
               /\ paragraphs'[i][Len(paragraphs'[i])] <= Len(text) + 1
    <3>1. CASE i = n + 1
      BY <2>2, <2>4, <3>1
    <3>2. CASE i # n + 1
      <4>1. i \in 1..n
        BY <1>2, <3>2
      <4> QED BY <1>4, <2>2, <4>1 DEF n
    <3> QED BY <3>1, <3>2
  <2>6. ASSUME NEW i \in 1..n
        PROVE  Ahead(text, paragraphs'[i], paragraphs'[i + 1][1])
    <3>1. CASE i < n
      <4>1. i + 1 \in 1..n /\ i \in 1..(n - 1)
        BY <1>2, <3>1
      <4> QED BY <1>4, <2>2, <4>1
    <3>2. CASE i = n
      BY <1>2, <2>2, <2>4, <3>2
    <3> QED BY <1>2, <3>1, <3>2
  <2>7. Paragraphs'
    <3>1. \A i \in 1..Len(paragraphs') :
            /\ Block(text', paragraphs'[i])
            /\ paragraphs'[i][Len(paragraphs'[i])] <= Len(text') + 1
      BY <1>1, <2>2, <2>5
    <3>2. \A i \in 1..(Len(paragraphs') - 1) : Ahead(text', paragraphs'[i], paragraphs'[i + 1][1])
      <4>1. Len(paragraphs') - 1 = n /\ text' = text
        BY <1>1, <1>2, <2>2
      <4>2. \A i \in 1..n : Ahead(text, paragraphs'[i], paragraphs'[i + 1][1])
        BY <2>6
      <4> QED BY <4>1, <4>2
    <3> QED BY <3>1, <3>2 DEF Paragraphs
  <2>8. ASSUME NEW p \in 1..Len(text), ~NL(text, p)
        PROVE  \E i \in 1..Len(paragraphs') : p \in Range(paragraphs'[i])
    <3>1. CASE p \in Range(para)
      <4>1. n + 1 \in 1..Len(paragraphs')
        BY <1>2, <2>2
      <4> QED BY <2>2, <3>1, <4>1
    <3>2. CASE \E i \in 1..n : p \in Range(paragraphs[i])
      <4>1. PICK i \in 1..n : p \in Range(paragraphs[i])
        BY <3>2
      <4>2. i \in 1..Len(paragraphs')
        BY <1>2, <2>2
      <4> QED BY <2>2, <4>1, <4>2
    <3> QED BY <1>3, <1>7, <2>8, <3>1, <3>2 DEF n
  <2>9. Covered'
    BY <1>1, <1>5, <2>8 DEF Covered, Held
  <2> QED BY <1>6, <2>3, <2>7, <2>9 DEF ChunkerInv
<1> QED BY <1>8, <1>9

-----------------------------------------------------------------------------
(* Merging the paragraphs.                                                 *)

\* A chunk is put behind the chunks.
LEMMA ChunkAppended ==
    ASSUME ChunkerInv, NEW c, Piece(text, c), Len(c) <= size + 1, Behind(c[1]),
           chunks' = Append(chunks, c), UNCHANGED args
    PROVE  /\ chunks' \in Seq(Seq(Nat)) /\ Len(chunks') = Len(chunks) + 1 /\ chunks' # <<>>
           /\ \A i \in 1..Len(chunks) : chunks'[i] = chunks[i]
           /\ chunks'[Len(chunks')] = c
           /\ ChunksFilled'
<1> DEFINE n == Len(chunks)
<1>1. /\ chunks \in Seq(Seq(Nat)) /\ n \in Nat /\ c \in Seq(Nat) /\ (chunks # <<>> <=> n > 0)
      /\ text' = text /\ size' = size
      /\ \A i \in 1..n : Piece(text, chunks[i]) /\ Len(chunks[i]) <= size + 1
      /\ \A i \in 1..(n - 1) : chunks[i][1] < chunks[i + 1][1]
  BY SeqFacts DEF ChunkerInv, ChunkerTypeOK, ChunksFilled, Piece, args
<1>2. /\ chunks' \in Seq(Seq(Nat)) /\ Len(chunks') = n + 1 /\ chunks' # <<>>
      /\ \A i \in 1..n : chunks'[i] = chunks[i]
      /\ chunks'[n + 1] = c
  BY <1>1, AppendProperties
<1>3. n > 0 => chunks[n][1] < c[1]
  BY <1>1 DEF Behind
<1> HIDE DEF n
<1>4. ASSUME NEW i \in 1..(n + 1)
      PROVE  Piece(text, chunks'[i]) /\ Len(chunks'[i]) <= size + 1
  <2>1. CASE i = n + 1
    BY <1>2, <2>1
  <2>2. CASE i # n + 1
    <3>1. i \in 1..n
      BY <1>1, <2>2
    <3> QED BY <1>1, <1>2, <3>1
  <2> QED BY <2>1, <2>2
<1>5. ASSUME NEW i \in 1..n
      PROVE  chunks'[i][1] < chunks'[i + 1][1]
  <2>1. CASE i = n
    BY <1>1, <1>2, <1>3, <2>1
  <2>2. CASE i # n
    <3>1. i \in 1..(n - 1) /\ i + 1 \in 1..n
      BY <1>1, <2>2
    <3> QED BY <1>1, <1>2, <3>1
  <2> QED BY <2>1, <2>2
<1>6. ChunksFilled'
  <2>1. \A i \in 1..Len(chunks') : Piece(text', chunks'[i]) /\ Len(chunks'[i]) <= size' + 1
    BY <1>1, <1>2, <1>4
  <2>2. Len(chunks') - 1 = n
    BY <1>1, <1>2
  <2> QED BY <1>5, <2>1, <2>2 DEF ChunksFilled
<1> QED BY <1>2, <1>6 DEF n

\* The paragraphs that are left when the first is taken.
LEMMA FirstTaken ==
    ASSUME ChunkerInv, paragraphs # <<>>
    PROVE  /\ Tail(paragraphs) \in Seq(Seq(Nat))
           /\ Head(paragraphs) = paragraphs[1] /\ Block(text, paragraphs[1])
           /\ paragraphs[1][Len(paragraphs[1])] <= Len(text) + 1
           /\ Len(Tail(paragraphs)) = Len(paragraphs) - 1
           /\ \A i \in 1..Len(Tail(paragraphs)) : /\ i + 1 \in 1..Len(paragraphs)
                                                  /\ Tail(paragraphs)[i] = paragraphs[i + 1]
           /\ \A i \in 1..Len(paragraphs) :
                i = 1 \/ (i - 1 \in 1..Len(Tail(paragraphs)) /\ Tail(paragraphs)[i - 1] = paragraphs[i])
           /\ Tail(paragraphs) # <<>> =>
                /\ Ahead(text, paragraphs[1], Tail(paragraphs)[1][1])
                /\ paragraphs[1][1] < Tail(paragraphs)[1][1]
           /\ UNCHANGED args /\ paragraphs' = Tail(paragraphs) => Paragraphs'
<1> DEFINE n == Len(paragraphs)
           q == Tail(paragraphs)
<1>1. /\ paragraphs \in Seq(Seq(Nat)) /\ n \in Nat /\ n > 0
      /\ \A i \in 1..n : Block(text, paragraphs[i]) /\ paragraphs[i][Len(paragraphs[i])] <= Len(text) + 1
      /\ \A i \in 1..(n - 1) : Ahead(text, paragraphs[i], paragraphs[i + 1][1])
  BY SeqFacts DEF ChunkerInv, ChunkerTypeOK, Paragraphs
<1>2. q \in Seq(Seq(Nat)) /\ Len(q) = n - 1 /\ \A i \in 1..(n - 1) : q[i] = paragraphs[i + 1]
  BY <1>1, HeadTailProperties
<1>3. Head(paragraphs) = paragraphs[1]
  BY <1>1
<1> HIDE DEF q
<1>4. 1 \in 1..n
  BY <1>1
<1>5. \A i \in 1..Len(q) : i + 1 \in 1..n /\ q[i] = paragraphs[i + 1]
  BY <1>1, <1>2
<1>6. ASSUME NEW i \in 1..n, i # 1
      PROVE  i - 1 \in 1..Len(q) /\ q[i - 1] = paragraphs[i]
  <2>1. i - 1 \in 1..(n - 1) /\ (i - 1) + 1 = i
    BY <1>1, <1>6
  <2> QED BY <1>2, <2>1
<1>7. ASSUME q # <<>>
      PROVE  Ahead(text, paragraphs[1], q[1][1]) /\ paragraphs[1][1] < q[1][1]
  <2>1. 1 \in 1..(n - 1) /\ 1 \in 1..Len(q)
    BY <1>1, <1>2, <1>7, SeqFacts
  <2>2. 1 + 1 = 2
    OBVIOUS
  <2>3. Ahead(text, paragraphs[1], q[1][1])
    BY <1>1, <1>2, <2>1
  <2>4. /\ Block(text, paragraphs[1]) /\ paragraphs[1][1] \in Nat
        /\ paragraphs[1][Len(paragraphs[1])] = paragraphs[1][1] + Len(paragraphs[1]) - 1
        /\ Len(paragraphs[1]) \in Nat \ {0}
    BY <1>1, <1>4, BlockFacts
  <2>5. Block(text, paragraphs[2]) /\ q[1] = paragraphs[2] /\ q[1][1] \in Nat
    <3>1. 2 \in 1..n
      BY <1>1, <2>1
    <3> QED BY <1>1, <1>2, <2>1, <2>2, <3>1, BlockFacts
  <2>6. paragraphs[1][Len(paragraphs[1])] < q[1][1]
    BY <2>3 DEF Ahead
  <2> QED BY <2>3, <2>4, <2>5, <2>6
<1>8. ASSUME UNCHANGED args, paragraphs' = q
      PROVE  Paragraphs'
  <2>1. text' = text
    BY <1>8 DEF args
  <2>2. \A i \in 1..Len(q) : Block(text, q[i]) /\ q[i][Len(q[i])] <= Len(text) + 1
    BY <1>1, <1>5
  <2>3. ASSUME NEW i \in 1..(Len(q) - 1)
        PROVE  Ahead(text, q[i], q[i + 1][1])
    <3>1. i + 1 \in 1..(n - 1) /\ i \in 1..(n - 1)
      <4>1. PICK m : m = n
        OBVIOUS
      <4>2. m \in Nat /\ i \in 1..(m - 1 - 1)
        BY <1>1, <1>2, <4>1
      <4>3. i + 1 \in 1..(m - 1) /\ i \in 1..(m - 1)
        BY <4>2
      <4> QED
        BY <4>1, <4>3
    <3>2. q[i] = paragraphs[i + 1] /\ q[i + 1] = paragraphs[(i + 1) + 1]
      BY <1>2, <3>1
    <3> QED BY <1>1, <3>1, <3>2
  <2> QED BY <1>8, <2>1, <2>2, <2>3 DEF Paragraphs
<1> QED BY <1>1, <1>2, <1>3, <1>4, <1>5, <1>6, <1>7, <1>8 DEF q

LEMMA MergeInv == ChunkerInv /\ Merge => ChunkerInv'
<1> SUFFICES ASSUME ChunkerInv, Merge
             PROVE  ChunkerInv'
  OBVIOUS
<1> DEFINE b == paragraphs[1]
           q == Tail(paragraphs)
           rest == IF Flush(b) THEN <<>> ELSE current
<1>1. /\ pc = "merge" /\ paragraphs # <<>> /\ Head(paragraphs) = b /\ UNCHANGED args
      /\ chunks' = IF Flush(b) THEN Append(chunks, current) ELSE chunks
      /\ IF Len(b) > size
           THEN pc' = "window" /\ long' = b /\ start' = 0 /\ current' = rest
           ELSE current' = rest \o b /\ UNCHANGED <<pc, long, start>>
      /\ paragraphs' = q /\ UNCHANGED <<args, para, line>>
  BY FirstTaken DEF Merge
<1>2. /\ ChunkerTypeOK /\ entry' = entry /\ text' = text /\ size' = size /\ overlap' = overlap
      /\ para' = para /\ line' = line
  BY <1>1, Unchanged DEF ChunkerInv
<1>3. /\ Len(text) \in Nat /\ size \in Nat \ {0} /\ current \in Seq(Nat) /\ Len(current) \in Nat
      /\ chunks \in Seq(Seq(Nat)) /\ Len(chunks) \in Nat /\ paragraphs \in Seq(Seq(Nat))
      /\ Len(paragraphs) \in Nat
  BY <1>2, SeqFacts DEF ChunkerTypeOK
<1>4. /\ Block(text, b) /\ b[Len(b)] <= Len(text) + 1 /\ b \in Seq(Nat) /\ b # <<>>
      /\ Len(b) \in Nat \ {0} /\ b[1] \in Nat
  BY <1>1, FirstTaken, BlockFacts DEF Block
<1>5. q \in Seq(Seq(Nat)) /\ Paragraphs'
  BY <1>1, FirstTaken
<1>6. q # <<>> => Ahead(text, b, q[1][1]) /\ b[1] < q[1][1]
  BY <1>1, FirstTaken
<1>7. \A i \in 1..Len(paragraphs) :
         i = 1 \/ (i - 1 \in 1..Len(q) /\ q[i - 1] = paragraphs[i])
  BY <1>1, FirstTaken
<1>8. /\ current # <<>> =>
            /\ Piece(text, current) /\ Len(current) <= size /\ Behind(current[1])
            /\ current[1] < b[1] /\ Ahead(text, current, b[1])
      /\ Behind(b[1])
  BY <1>1 DEF ChunkerInv, Current
<1>9. pc' \in {"merge", "window"} /\ entry' # "size"
  BY <1>1, <1>2 DEF ChunkerInv, Covered
<1> HIDE DEF b, q
<1>10. q # <<>> => q[1][1] \in Nat
  <2> SUFFICES ASSUME q # <<>>
               PROVE  q[1][1] \in Nat
    OBVIOUS
  <2>1. 1 \in 1..Len(paragraphs') /\ paragraphs' = q
    BY <1>1, <1>5, SeqFacts
  <2>2. Block(text', q[1])
    BY <1>5, <2>1 DEF Paragraphs
  <2> QED BY <2>2, BlockFacts
\* The chunk that may be closed before the paragraph is looked at.
<1>11. /\ chunks' \in Seq(Seq(Nat)) /\ ChunksFilled'
       /\ chunks' # <<>> => chunks'[Len(chunks')][1] < b[1]
       /\ \A i \in 1..Len(chunks) : i \in 1..Len(chunks') /\ chunks'[i] = chunks[i]
       /\ rest # <<>> => chunks' = chunks
       /\ Flush(b) => Len(chunks') \in 1..Len(chunks') /\ chunks'[Len(chunks')] = current
  <2>1. CASE Flush(b)
    <3>1. chunks' = Append(chunks, current) /\ rest = <<>>
      BY <1>1, <2>1
    <3>2. current # <<>>
      BY <2>1 DEF Flush
    <3>3. Piece(text, current) /\ Len(current) <= size + 1 /\ Behind(current[1]) /\ current[1] < b[1]
      BY <1>3, <1>8, <3>2
    <3>4. /\ chunks' \in Seq(Seq(Nat)) /\ Len(chunks') = Len(chunks) + 1 /\ ChunksFilled'
          /\ chunks'[Len(chunks')] = current
      BY <1>1, <3>1, <3>3, ChunkAppended
    <3>5. \A i \in 1..Len(chunks) : chunks'[i] = chunks[i]
      BY <1>1, <3>1, <3>3, ChunkAppended
    <3>6. \A i \in 1..Len(chunks) : i \in 1..Len(chunks')
      BY <1>3, <3>4
    <3>7. Len(chunks') \in 1..Len(chunks')
      BY <1>3, <3>4
    <3> QED BY <3>1, <3>3, <3>4, <3>5, <3>6, <3>7
  <2>2. CASE ~Flush(b)
    <3>1. chunks' = chunks
      BY <1>1, <2>2
    <3>2. ChunksFilled'
      BY <1>2, <3>1 DEF ChunkerInv, ChunksFilled
    <3> QED BY <1>3, <1>8, <2>2, <3>1, <3>2 DEF Behind
  <2> QED BY <2>1, <2>2
\* What is in none of the parts that stay is in the paragraph.
<1>12. ASSUME NEW p \in 1..Len(text), ~NL(text, p)
       PROVE  \/ \E i \in 1..Len(chunks') : p \in Range(chunks'[i])
              \/ p \in Range(rest) \/ p \in Range(b)
              \/ \E i \in 1..Len(paragraphs') : p \in Range(paragraphs'[i])
  <2>1. Held(p)
    BY <1>1, <1>12 DEF ChunkerInv, Covered
  <2>2. CASE \E i \in 1..Len(chunks) : p \in Range(chunks[i])
    BY <1>11, <2>2
  <2>3. CASE p \in Range(current)
    <3>1. CASE Flush(b)
      BY <1>11, <2>3, <3>1
    <3>2. CASE ~Flush(b)
      BY <2>3, <3>2
    <3> QED BY <3>1, <3>2
  <2>4. CASE \E i \in 1..Len(paragraphs) : p \in Range(paragraphs[i])
    <3>1. PICK i \in 1..Len(paragraphs) : p \in Range(paragraphs[i])
      BY <2>4
    <3>2. CASE i = 1
      BY <3>1, <3>2 DEF b
    <3>3. CASE i # 1
      <4>1. i - 1 \in 1..Len(paragraphs') /\ paragraphs'[i - 1] = paragraphs[i]
        BY <1>1, <1>7, <3>3
      <4> QED BY <3>1, <4>1
    <3> QED BY <3>2, <3>3
  <2> QED BY <1>1, <2>1, <2>2, <2>3, <2>4 DEF Held
<1>13. Lines'
  BY <1>9 DEF Lines
<1>14. CASE Len(b) > size
  <2>1. rest = <<>>
    <3>1. CASE current = <<>>
      BY <3>1
    <3>2. CASE current # <<>>
      <4>1. Len(current) + Len(b) > size
        BY <1>3, <1>4, <1>14
      <4> QED BY <3>2, <4>1 DEF Flush
    <3> QED BY <3>1, <3>2
  <2>2. pc' = "window" /\ long' = b /\ start' = 0 /\ current' = <<>>
    BY <1>1, <1>14, <2>1
  <2>3. ChunkerTypeOK'
    BY <1>1, <1>2, <1>4, <1>5, <1>11, <2>2 DEF ChunkerTypeOK
  <2>4. Current'
    BY <2>2 DEF Current
  <2>5. Long'
    <3>1. long'[start' + 1] = b[1] /\ start' < Len(long')
      BY <1>4, <2>2
    <3>2. chunks' # <<>> => chunks'[Len(chunks')][1] < long'[start' + 1]
      BY <1>11, <3>1
    <3>3. Block(text', long') /\ long'[Len(long')] <= Len(text') + 1
      BY <1>2, <1>4, <2>2
    <3>4. paragraphs' # <<>> => Ahead(text', long', paragraphs'[1][1])
      BY <1>1, <1>2, <1>6, <2>2
    <3> QED BY <3>1, <3>2, <3>3, <3>4 DEF Long, Behind
  <2>6. ASSUME NEW p \in 1..Len(text), ~NL(text, p)
        PROVE  Held(p)'
    <3>1. Range(rest) = {}
      BY <2>1 DEF Range
    <3>2. CASE p \in Range(b)
      <4>1. PICK i \in 1..Len(b) : p = b[i]
        BY <1>4, <3>2, SeqFacts DEF Range
      <4>2. i \in (start' + 1)..Len(long') /\ p = long'[i]
        BY <1>4, <2>2, <4>1
      <4> QED BY <2>2, <4>2 DEF Held
    <3>3. CASE \/ \E i \in 1..Len(chunks') : p \in Range(chunks'[i])
               \/ \E i \in 1..Len(paragraphs') : p \in Range(paragraphs'[i])
      BY <3>3 DEF Held
    <3> QED BY <1>12, <2>6, <3>1, <3>2, <3>3
  <2>7. Covered'
    BY <1>2, <1>9, <2>2, <2>6 DEF Covered
  <2> QED BY <1>5, <1>11, <1>13, <2>3, <2>4, <2>5, <2>7 DEF ChunkerInv
<1>15. CASE ~(Len(b) > size)
  <2>1. current' = rest \o b /\ pc' = "merge" /\ long' = long /\ start' = start
    BY <1>1, <1>15
  <2>2. /\ Piece(text, current') /\ Len(current') <= size
        /\ current'[Len(current')] = b[Len(b)] /\ current'[1] <= b[1]
        /\ chunks' # <<>> => chunks'[Len(chunks')][1] < current'[1]
        /\ \A p \in Range(rest) \cup Range(b) : p \in Range(current')
    <3>1. CASE rest = <<>>
      <4>1. current' = b
        BY <1>4, <2>1, <3>1, ConcatEmptySeq
      <4>2. Range(rest) = {}
        BY <3>1 DEF Range
      <4>3. Piece(text, b) /\ Len(b) <= size /\ b[1] <= b[1]
        BY <1>3, <1>4, <1>15, BlockIsPiece
      <4> QED BY <1>11, <4>1, <4>2, <4>3
    <3>2. CASE rest # <<>>
      <4>1. ~Flush(b) /\ rest = current /\ current # <<>>
        BY <3>2
      <4>2. Len(current) + Len(b) <= size
        BY <1>3, <1>4, <4>1 DEF Flush
      <4>3. Piece(text, current) /\ Behind(current[1]) /\ current[1] < b[1] /\ Ahead(text, current, b[1])
        BY <1>8, <4>1
      <4>4. Piece(text, current') /\ Joins(current, b, current')
        BY <1>4, <2>1, <4>1, <4>3, Joined
      <4>5. current[1] \in Nat
        BY <1>3, <4>1, SeqFacts
      <4>6. chunks' = chunks
        BY <1>11, <3>2
      <4> HIDE DEF rest
      <4>7. Len(current') <= size
        BY <4>2, <4>4 DEF Joins
      <4>8. current'[1] <= b[1]
        BY <1>4, <4>3, <4>4, <4>5 DEF Joins
      <4>9. chunks' # <<>> => chunks'[Len(chunks')][1] < current'[1]
        BY <4>3, <4>4, <4>6 DEF Joins, Behind
      <4> QED BY <4>1, <4>4, <4>7, <4>8, <4>9 DEF Joins
    <3> QED BY <3>1, <3>2
  <2> HIDE DEF rest
  <2>3. current' \in Seq(Nat) /\ current'[1] \in Nat
    <3>1. current' \in Seq(Nat) /\ Len(current') > 0
      BY <2>2 DEF Piece
    <3> QED BY <3>1, SeqFacts
  <2>4. ChunkerTypeOK'
    BY <1>1, <1>2, <1>5, <1>11, <2>1, <2>3 DEF ChunkerTypeOK
  <2>5. Current'
    <3>1. Piece(text', current') /\ Len(current') <= size' /\ Behind(current[1])'
      BY <1>2, <2>2 DEF Behind
    <3>2. ASSUME paragraphs' # <<>>
          PROVE  /\ current'[1] < paragraphs'[1][1] /\ Ahead(text', current', paragraphs'[1][1])
                 /\ Behind(paragraphs[1][1])'
      <4>1. /\ Ahead(text, b, q[1][1]) /\ b[1] < q[1][1] /\ q[1][1] \in Nat
            /\ paragraphs' = q
        BY <1>1, <1>6, <1>10, <3>2
      <4>2. current'[1] < q[1][1]
        BY <1>4, <2>2, <2>3, <4>1
      <4>3. Ahead(text, current', q[1][1])
        BY <2>2, <4>1 DEF Ahead
      <4>4. chunks' # <<>> => chunks'[Len(chunks')][1] < q[1][1]
        <5> SUFFICES ASSUME chunks' # <<>>
                     PROVE  chunks'[Len(chunks')][1] < q[1][1]
          OBVIOUS
        <5>1. chunks'[Len(chunks')][1] < b[1]
          BY <1>11
        <5>2. chunks'[Len(chunks')][1] \in Nat
          <6>1. Len(chunks') \in 1..Len(chunks')
            BY <1>11, SeqFacts
          <6>2. Piece(text', chunks'[Len(chunks')])
            BY <1>11, <6>1 DEF ChunksFilled
          <6> QED BY <6>2, SeqFacts DEF Piece
        <5> QED BY <1>4, <4>1, <5>1, <5>2
      <4> QED BY <1>2, <4>1, <4>2, <4>3, <4>4 DEF Behind
    <3> QED BY <2>1, <3>1, <3>2 DEF Current
  <2>6. Long'
    BY <2>1 DEF Long
  <2>7. ASSUME NEW p \in 1..Len(text), ~NL(text, p)
        PROVE  Held(p)'
    BY <1>12, <2>2, <2>7 DEF Held
  <2>8. Covered'
    BY <1>2, <1>9, <2>1, <2>7 DEF Covered
  <2> QED BY <1>5, <1>11, <1>13, <2>4, <2>5, <2>6, <2>8 DEF ChunkerInv
<1> QED BY <1>14, <1>15

LEMMA EndMergeInv == ChunkerInv /\ EndMerge => ChunkerInv'
<1> SUFFICES ASSUME ChunkerInv, EndMerge
             PROVE  ChunkerInv'
  OBVIOUS
<1>1. /\ ChunkerTypeOK /\ pc = "merge" /\ paragraphs = <<>> /\ pc' = "done" /\ current' = <<>>
      /\ UNCHANGED args /\ para' = para /\ line' = line /\ long' = long /\ start' = start
      /\ entry' = entry /\ text' = text /\ size' = size /\ overlap' = overlap
      /\ paragraphs' = <<>>
      /\ chunks' = IF current # <<>> THEN Append(chunks, current) ELSE chunks
  BY Unchanged DEF ChunkerInv, EndMerge
<1>2. entry # "size"
  BY <1>1 DEF ChunkerInv, Covered
<1>3. Paragraphs' /\ Lines' /\ Current' /\ Long'
  BY <1>1 DEF Paragraphs, Lines, Current, Long
<1>4. \A p \in 1..Len(text) : ~NL(text, p) =>
        (\E i \in 1..Len(chunks) : p \in Range(chunks[i])) \/ p \in Range(current)
  BY <1>1 DEF ChunkerInv, Covered, Held
<1>5. /\ chunks' \in Seq(Seq(Nat)) /\ ChunksFilled'
      /\ \A p \in 1..Len(text) : ~NL(text, p) => \E i \in 1..Len(chunks') : p \in Range(chunks'[i])
  <2>1. CASE current = <<>>
    <3>1. chunks' = chunks /\ Range(current) = {}
      BY <1>1, <2>1 DEF Range
    <3>2. chunks \in Seq(Seq(Nat)) /\ ChunksFilled
      BY DEF ChunkerInv, ChunkerTypeOK
    <3> QED BY <1>1, <1>4, <3>1, <3>2 DEF ChunksFilled
  <2>2. CASE current # <<>>
    <3>1. chunks' = Append(chunks, current)
      BY <1>1, <2>2
    <3>2. Piece(text, current) /\ Len(current) <= size + 1 /\ Behind(current[1])
      <4>1. Piece(text, current) /\ Len(current) <= size /\ Behind(current[1])
        BY <2>2 DEF ChunkerInv, Current
      <4>2. size \in Nat /\ Len(current) \in Nat
        BY <1>1, SeqFacts DEF ChunkerTypeOK
      <4> QED BY <4>1, <4>2
    <3>3. /\ chunks' \in Seq(Seq(Nat)) /\ ChunksFilled' /\ Len(chunks') = Len(chunks) + 1
          /\ chunks'[Len(chunks')] = current
      BY <1>1, <3>1, <3>2, ChunkAppended
    <3>4. \A i \in 1..Len(chunks) : chunks'[i] = chunks[i]
      BY <1>1, <3>1, <3>2, ChunkAppended
    <3>5. Len(chunks) \in Nat
      BY <1>1, SeqFacts DEF ChunkerTypeOK
    <3>6. Len(chunks') \in 1..Len(chunks') /\ \A i \in 1..Len(chunks) : i \in 1..Len(chunks')
      BY <3>3, <3>5
    <3> QED BY <1>4, <3>3, <3>4, <3>6
  <2> QED BY <2>1, <2>2
<1>6. ChunkerTypeOK'
  BY <1>1, <1>5 DEF ChunkerTypeOK
<1>7. Covered'
  BY <1>1, <1>2, <1>5 DEF Covered, Held
<1> QED BY <1>3, <1>5, <1>6, <1>7 DEF ChunkerInv

-----------------------------------------------------------------------------
(* The window.                                                             *)

\* Nothing wraps around.
LEMMA NoWrap ==
    ASSUME NEW w \in Nat, NEW a \in Nat, a < w
    PROVE  a % w = a
OBVIOUS

\* A window begins in the text, ends in it and is not empty; unless the text
\* ends in it, it is of the size asked for or longer than a half of that, a
\* byte more counted.
LEMMA WindowEnds ==
    ASSUME ChunkerInv, pc = "window"
    PROVE  /\ WindowEnd \in (start + 1)..Len(long)
           /\ WindowEnd <= start + size + 1
           /\ WindowEnd < Len(long) =>
                WindowEnd = start + size \/ WindowEnd >= start + (size \div 2) + 2
<1>1. /\ start \in Nat /\ size \in Nat \ {0} /\ long \in Seq(Nat) /\ Len(long) \in Nat /\ Word \in Nat
      /\ Len(text) \in Nat /\ Len(text) + 1 + size < Word /\ start < Len(long)
  BY SeqFacts DEF ChunkerInv, ChunkerTypeOK, Long
<1>2. Len(long) <= Len(text) + 1
  <2>1. Block(text, long) /\ long[Len(long)] <= Len(text) + 1
    BY DEF ChunkerInv, Long
  <2>2. long[Len(long)] = long[1] + Len(long) - 1 /\ long[1] \in Nat \ {0}
    BY <2>1, BlockFacts
  <2>3. Len(long) \in Nat /\ Len(text) \in Nat
    BY <1>1
  <2> QED BY <2>1, <2>2, <2>3
<1> DEFINE limit == (start + size) % Word
           found == {o \in Newlines(limit) : \A r \in Newlines(limit) : r <= o}
           late == {o \in found : o > (start + size \div 2) % Word}
<1>3. limit = start + size
  <2>1. start + size \in Nat /\ start + size < Word
    BY <1>1, <1>2
  <2> QED BY <1>1, <2>1, NoWrap
<1>4. (start + size \div 2) % Word = start + (size \div 2) /\ size \div 2 \in Nat /\ size \div 2 < size
  <2>1. size \div 2 \in Nat /\ size \div 2 < size
    BY <1>1
  <2>2. start + size \div 2 \in Nat /\ start + size \div 2 < Word
    BY <1>1, <1>2, <2>1
  <2> QED BY <1>1, <2>1, <2>2, NoWrap
<1>5. WindowEnd = IF limit >= Len(long) THEN Len(long)
                  ELSE IF late # {} THEN (CHOOSE o \in late : TRUE) + 1 ELSE limit
  BY DEF WindowEnd
<1>6. ASSUME NEW o \in late, limit < Len(long)
      PROVE  o \in Nat /\ o <= limit /\ o < Len(long) /\ o > start + (size \div 2)
  <2>1. o \in Newlines(limit) /\ o > (start + size \div 2) % Word
    OBVIOUS
  <2>2. o \in 0..(Len(long) - 1) /\ o <= limit
    BY <2>1 DEF Newlines
  <2> QED BY <1>1, <1>4, <2>1, <2>2
<1> HIDE DEF limit, late
<1>7. CASE limit >= Len(long)
  BY <1>1, <1>3, <1>5, <1>7
<1>8. CASE limit < Len(long) /\ late # {}
  <2> DEFINE o == CHOOSE o \in late : TRUE
  <2>1. o \in late
    BY <1>8
  <2>2. WindowEnd = o + 1
    BY <1>1, <1>3, <1>5, <1>8
  <2> HIDE DEF o
  <2>3. o \in Nat /\ o <= limit /\ o < Len(long) /\ o > start + (size \div 2)
    BY <1>6, <1>8, <2>1
  <2> QED BY <1>1, <1>3, <1>4, <2>2, <2>3
<1>9. CASE limit < Len(long) /\ late = {}
  <2>1. WindowEnd = limit
    BY <1>1, <1>3, <1>5, <1>9
  <2> QED BY <1>1, <1>3, <1>9, <2>1
<1> QED BY <1>1, <1>3, <1>7, <1>8, <1>9

\* Where the next window begins: behind the start of this one and not behind its end.
LEMMA NextStarts ==
    ASSUME ChunkerInv, pc = "window", WindowEnd < Len(long)
    PROVE  /\ NextStart(WindowEnd) \in (start + 1)..WindowEnd
           /\ overlap <= (size \div 4) + 2 => NextStart(WindowEnd) >= start + (size \div 4)
<1> DEFINE end == WindowEnd
           quarter == size \div 4
           half == size \div 2
<1>1. /\ start \in Nat /\ size \in Nat \ {0} /\ long \in Seq(Nat) /\ Len(long) \in Nat /\ Word \in Nat
      /\ Len(text) \in Nat /\ Len(text) + 1 + size < Word /\ start < Len(long)
      /\ overlap \in Nat /\ overlap < size /\ overlap <= half + 1
  BY SeqFacts DEF ChunkerInv, ChunkerTypeOK, Long
<1>2. Len(long) <= Len(text) + 1
  <2>1. Block(text, long) /\ long[Len(long)] <= Len(text) + 1
    BY DEF ChunkerInv, Long
  <2>2. long[Len(long)] = long[1] + Len(long) - 1 /\ long[1] \in Nat \ {0}
    BY <2>1, BlockFacts
  <2>3. Len(long) \in Nat /\ Len(text) \in Nat
    BY <1>1
  <2> QED BY <2>1, <2>2, <2>3
<1>3. end \in Nat /\ end > start /\ (end = start + size \/ end >= start + half + 2)
  BY <1>1, WindowEnds
<1>4. /\ quarter \in Nat /\ half \in Nat /\ quarter < size
      /\ quarter + quarter <= half /\ half + half <= size
      /\ half + 1 + quarter <= size \/ quarter = 0
  BY <1>1
<1>5. NextStart(end) = IF (((end - overlap) % Word) + quarter) % Word >= end
                         THEN (end - quarter) % Word ELSE (end - overlap) % Word
  BY DEF NextStart
<1>6. end < Len(long)
  OBVIOUS
<1> HIDE DEF end, quarter, half
<1>7. end - overlap \in Nat /\ end - overlap > start /\ end - overlap < Word
  BY <1>1, <1>2, <1>3, <1>4, <1>6
<1>8. (end - overlap) % Word = end - overlap
  BY <1>1, <1>7, NoWrap
<1>9. (end - overlap + quarter) % Word = end - overlap + quarter
  <2>1. end + quarter < Word /\ end - overlap <= end
    BY <1>1, <1>2, <1>3, <1>4, <1>6
  <2>2. end - overlap + quarter \in Nat /\ end - overlap + quarter <= end + quarter
    BY <1>3, <1>4, <1>7, <2>1
  <2>3. end - overlap + quarter < Word
    BY <1>1, <1>3, <1>4, <2>1, <2>2
  <2> QED BY <1>1, <2>2, <2>3, NoWrap
<1>10. (end - quarter) % Word = end - quarter /\ end - quarter > start
  <2>1. end - quarter \in Nat /\ end - quarter < Word /\ end - quarter > start
    BY <1>1, <1>2, <1>3, <1>4, <1>6
  <2> QED BY <1>1, <2>1, NoWrap
<1>11. NextStart(end) = IF end - overlap + quarter >= end THEN end - quarter ELSE end - overlap
  BY <1>5, <1>8, <1>9, <1>10
<1>12. NextStart(end) \in (start + 1)..end
  BY <1>1, <1>3, <1>4, <1>7, <1>10, <1>11
<1>13. ASSUME overlap <= quarter + 2
       PROVE  NextStart(end) >= start + quarter
  <2>1. CASE end - overlap + quarter >= end
    BY <1>1, <1>3, <1>4, <1>11, <2>1
  <2>2. CASE ~(end - overlap + quarter >= end)
    <3>1. NextStart(end) = end - overlap
      BY <1>11, <2>2
    <3>2. CASE end = start + size
      <4>1. overlap + quarter <= size
        <5>1. CASE quarter = 0
          BY <1>1, <1>4, <5>1
        <5>2. CASE half + 1 + quarter <= size
          BY <1>1, <1>4, <5>2
        <5> QED BY <1>4, <5>1, <5>2
      <4> QED BY <1>1, <1>3, <1>4, <3>1, <3>2, <4>1
    <3>3. CASE end >= start + half + 2
      BY <1>1, <1>3, <1>4, <1>13, <3>1, <3>3
    <3> QED BY <1>3, <3>2, <3>3
  <2> QED BY <2>1, <2>2
<1> QED BY <1>12, <1>13 DEF end, quarter

\* The chunk that a window makes.
LEMMA WindowChunk ==
    ASSUME ChunkerInv, Window
    PROVE  /\ \A p \in (start + 1)..WindowEnd : long[p] \in Range(SubSeq(long, start + 1, WindowEnd))
           /\ chunks' \in Seq(Seq(Nat)) /\ Len(chunks') = Len(chunks) + 1 /\ chunks' # <<>>
           /\ \A i \in 1..Len(chunks) : chunks'[i] = chunks[i]
           /\ chunks'[Len(chunks')] = SubSeq(long, start + 1, WindowEnd)
           /\ chunks'[Len(chunks')][1] = long[start + 1]
           /\ ChunksFilled'
<1> DEFINE c == SubSeq(long, start + 1, WindowEnd)
<1>1. /\ Block(text, long) /\ pc = "window" /\ start \in Nat /\ size \in Nat /\ Len(long) \in Nat
      /\ Behind(long[start + 1]) /\ chunks' = Append(chunks, c) /\ UNCHANGED args
  BY SeqFacts DEF ChunkerInv, ChunkerTypeOK, Long, Window
<1>2. WindowEnd \in (start + 1)..Len(long) /\ WindowEnd <= start + size + 1
  BY <1>1, WindowEnds
<1>3. WindowEnd \in Nat /\ start < WindowEnd /\ WindowEnd <= Len(long)
  BY <1>1, <1>2
<1>4. /\ Block(text, c) /\ Len(c) = WindowEnd - start /\ c[1] = long[start + 1]
      /\ \A i \in (start + 1)..WindowEnd : long[i] \in Range(c)
  <2>1. PICK l, a, e : l = long /\ a = start /\ e = WindowEnd
    OBVIOUS
  <2>2. Block(text, l) /\ a \in Nat /\ e \in Nat /\ a < e /\ e <= Len(l)
    BY <1>1, <1>3, <2>1
  <2>3. /\ Block(text, SubSeq(l, a + 1, e)) /\ Len(SubSeq(l, a + 1, e)) = e - a
        /\ SubSeq(l, a + 1, e)[1] = l[a + 1]
        /\ \A i \in (a + 1)..e : l[i] \in Range(SubSeq(l, a + 1, e))
    BY <2>2, BlockCut
  <2> QED
    BY <2>1, <2>3
<1>5. Piece(text, c) /\ Len(c) <= size + 1 /\ Behind(c[1])
  <2>1. Len(c) <= size + 1
    BY <1>1, <1>2, <1>3, <1>4
  <2> QED BY <1>1, <1>4, <2>1, BlockIsPiece
<1> HIDE DEF c
<1>6. /\ chunks' \in Seq(Seq(Nat)) /\ Len(chunks') = Len(chunks) + 1 /\ chunks' # <<>>
      /\ chunks'[Len(chunks')] = c /\ ChunksFilled'
  BY <1>1, <1>5, ChunkAppended
<1>7. \A i \in 1..Len(chunks) : chunks'[i] = chunks[i]
  BY <1>1, <1>5, ChunkAppended
<1> QED BY <1>4, <1>6, <1>7 DEF c

LEMMA WindowInv == ChunkerInv /\ Window => ChunkerInv'
<1> SUFFICES ASSUME ChunkerInv, Window
             PROVE  ChunkerInv'
  OBVIOUS
<1> DEFINE e == WindowEnd
<1>1. /\ ChunkerTypeOK /\ pc = "window" /\ UNCHANGED args /\ para' = para /\ paragraphs' = paragraphs
      /\ line' = line /\ current' = current /\ long' = long
      /\ entry' = entry /\ text' = text /\ size' = size /\ overlap' = overlap
      /\ start' = (IF e >= Len(long) THEN start ELSE NextStart(e))
      /\ pc' = (IF e >= Len(long) \/ start' >= Len(long) THEN After ELSE pc)
  BY Unchanged DEF ChunkerInv, Window
<1>2. /\ \A p \in (start + 1)..e : long[p] \in Range(chunks'[Len(chunks')])
      /\ chunks' \in Seq(Seq(Nat)) /\ Len(chunks') = Len(chunks) + 1 /\ chunks' # <<>>
      /\ chunks'[Len(chunks')][1] = long[start + 1] /\ ChunksFilled'
  BY WindowChunk
<1>3. \A i \in 1..Len(chunks) : chunks'[i] = chunks[i]
  BY WindowChunk
<1>4. /\ start \in Nat /\ Len(long) \in Nat /\ Len(chunks) \in Nat /\ start < Len(long)
      /\ Block(text, long) /\ long[Len(long)] <= Len(text) + 1
      /\ paragraphs # <<>> => Ahead(text, long, paragraphs[1][1])
      /\ current = <<>>
  BY <1>1, SeqFacts DEF ChunkerInv, ChunkerTypeOK, Long, Current
<1>5. e \in (start + 1)..Len(long)
  BY <1>1, WindowEnds
<1>6. ASSUME e < Len(long)
      PROVE  start' \in (start + 1)..e /\ start' \in Nat /\ pc' = "window"
  <2>1. NextStart(e) \in (start + 1)..e
    BY <1>1, <1>6, NextStarts
  <2>2. start' = NextStart(e)
    BY <1>1, <1>4, <1>5, <1>6
  <2>3. ~(e >= Len(long)) /\ ~(start' >= Len(long)) /\ start' \in Nat
    BY <1>4, <1>5, <1>6, <2>1, <2>2
  <2> QED BY <1>1, <2>1, <2>2, <2>3
<1>7. ASSUME ~(e < Len(long))
      PROVE  e = Len(long) /\ start' = start /\ pc' = After
  BY <1>1, <1>4, <1>5, <1>7
<1>8. After \in {"merge", "done"} /\ (After = "done" <=> entry = "size")
  BY DEF After
<1> HIDE DEF e
<1>9. pc' \in {"window", "merge", "done"} /\ start' \in Nat /\ (pc' = "done" => paragraphs = <<>>)
      /\ (entry = "size" => paragraphs = <<>> /\ pc' \in {"window", "done"})
  BY <1>1, <1>4, <1>6, <1>7, <1>8 DEF ChunkerInv, Covered
<1>10. ChunkerTypeOK'
  BY <1>1, <1>2, <1>9 DEF ChunkerTypeOK
<1>11. Paragraphs'
  BY <1>1 DEF ChunkerInv, Paragraphs
<1>12. Lines'
  BY <1>9 DEF Lines
<1>13. long[start + 1] = long[1] + start /\ long[Len(long)] = long[1] + Len(long) - 1 /\ long[1] \in Nat
  <2>1. start + 1 \in 1..Len(long) /\ long[1] \in Nat
    BY <1>4, BlockFacts
  <2>2. long[start + 1] = long[1] + (start + 1) - 1
    BY <1>4, <2>1 DEF Block
  <2> QED BY <1>4, <2>1, <2>2, BlockFacts
<1>14. Current'
  <2>1. ASSUME paragraphs # <<>>
        PROVE  long[start + 1] < paragraphs[1][1]
    <3>1. long[Len(long)] < paragraphs[1][1]
      BY <1>4, <2>1 DEF Ahead
    <3>2. paragraphs[1][1] \in Nat
      <4>1. Block(text, paragraphs[1])
        BY <2>1, FirstTaken
      <4> QED BY <4>1, BlockFacts
    <3> QED BY <1>4, <1>13, <3>1, <3>2
  <2> QED BY <1>1, <1>2, <1>4, <2>1 DEF Current, Behind
<1>15. Long'
  <2>1. CASE e < Len(long)
    <3>1. start' < Len(long) /\ start' + 1 \in 1..Len(long)
      BY <1>4, <1>5, <1>6, <2>1
    <3>2. long[start' + 1] = long[1] + (start' + 1) - 1
      BY <1>4, <3>1 DEF Block
    <3>3. long[start + 1] < long[start' + 1]
      <4>1. start' \in Nat /\ start' > start
        BY <1>4, <1>5, <1>6, <2>1
      <4>2. long[1] \in Nat /\ start \in Nat
        BY <1>4, <1>13
      <4>3. long[start' + 1] = long[1] + start'
        BY <3>2, <4>1, <4>2
      <4>4. long[1] + start < long[1] + start'
        BY <4>1, <4>2
      <4> QED BY <1>13, <4>3, <4>4
    <3> QED BY <1>1, <1>2, <1>4, <3>1, <3>3 DEF Long, Behind
  <2>2. CASE ~(e < Len(long))
    <3>1. pc' # "window"
      BY <1>7, <1>8, <2>2
    <3> QED BY <3>1 DEF Long
  <2> QED BY <2>1, <2>2
<1>16. Covered'
  <2>1. ASSUME NEW p \in 1..Len(text), Held(p)
        PROVE  Held(p)'
    <3>0. Len(chunks') \in 1..Len(chunks') /\ \A i \in 1..Len(chunks) : i \in 1..Len(chunks')
      BY <1>2, <1>4
    <3>1. CASE \E i \in 1..Len(chunks) : p \in Range(chunks[i])
      <4>1. \E i \in 1..Len(chunks') : p \in Range(chunks'[i])
        BY <1>3, <3>0, <3>1
      <4> QED BY <4>1 DEF Held
    <3>2. CASE p \in Range(current)
      BY <1>4, <3>2 DEF Range
    <3>3. CASE \E i \in 1..Len(paragraphs) : p \in Range(paragraphs[i])
      BY <1>1, <3>3 DEF Held
    <3>4. CASE \E i \in (start + 1)..Len(long) : p = long[i]
      <4>1. PICK i \in (start + 1)..Len(long) : p = long[i]
        BY <3>4
      <4>2. CASE i \in (start + 1)..e
        <5>1. p \in Range(chunks'[Len(chunks')])
          BY <1>2, <4>1, <4>2
        <5>2. \E k \in 1..Len(chunks') : p \in Range(chunks'[k])
          BY <3>0, <5>1
        <5> QED BY <5>2 DEF Held
      <4>3. CASE i \notin (start + 1)..e
        <5>1. e < Len(long)
          BY <1>4, <1>5, <4>3
        <5>2. i \in (start' + 1)..Len(long) /\ pc' = "window"
          BY <1>4, <1>5, <1>6, <4>3, <5>1
        <5>3. \E k \in (start' + 1)..Len(long') : p = long'[k]
          BY <1>1, <4>1, <5>2
        <5> QED BY <5>2, <5>3 DEF Held
      <4> QED BY <4>2, <4>3
    <3> QED BY <2>1, <3>1, <3>2, <3>3, <3>4 DEF Held
  <2>2. \A p \in 1..Len(text) : ~NL(text, p) => Held(p)
    BY <1>1 DEF ChunkerInv, Covered
  <2>3. \A p \in 1..Len(text') : ~NL(text', p) => Held(p)'
    BY <1>1, <2>1, <2>2
  <2> QED BY <1>1, <1>9, <2>3 DEF Covered
<1> QED BY <1>2, <1>10, <1>11, <1>12, <1>14, <1>15, <1>16 DEF ChunkerInv

-----------------------------------------------------------------------------
(* The theorems.                                                           *)

LEMMA StepInv == ChunkerInv /\ [ChunkerNext]_chunkerVars => ChunkerInv'
<1> SUFFICES ASSUME ChunkerInv, [ChunkerNext]_chunkerVars
             PROVE  ChunkerInv'
  OBVIOUS
<1>1. CASE AddLine
  BY <1>1, AddLineInv
<1>2. CASE EndLines
  BY <1>2, EndLinesInv
<1>3. CASE Merge
  BY <1>3, MergeInv
<1>4. CASE EndMerge
  BY <1>4, EndMergeInv
<1>5. CASE Window
  BY <1>5, WindowInv
<1>6. CASE UNCHANGED chunkerVars
  BY <1>6 DEF chunkerVars, args, ChunkerInv, ChunkerTypeOK, Paragraphs, Lines, ChunksFilled, Current, Long, Covered,
              Behind, Held
<1> QED BY <1>1, <1>2, <1>3, <1>4, <1>5, <1>6 DEF ChunkerNext

LEMMA InvNothingLost == ChunkerInv => NothingLost
<1> SUFFICES ASSUME ChunkerInv, pc = "done"
             PROVE  /\ \A p \in 1..Len(text) : text[p] # "newline" => \E i \in DOMAIN chunks : p \in Range(chunks[i])
                    /\ \A i \in DOMAIN chunks : InOrder(chunks[i])
                    /\ \A i \in 1..(Len(chunks) - 1) : chunks[i][1] < chunks[i + 1][1]
                    /\ \A i \in DOMAIN chunks : Len(chunks[i]) <= size + 1
  BY DEF NothingLost
<1>1. /\ ChunkerTypeOK /\ ChunksFilled /\ current = <<>> /\ paragraphs = <<>>
      /\ Len(text) \in Nat /\ DOMAIN chunks = 1..Len(chunks)
  BY SeqFacts DEF ChunkerInv, ChunkerTypeOK, Current, Covered
<1>2. ASSUME NEW p \in 1..Len(text), text[p] # "newline"
      PROVE  \E i \in DOMAIN chunks : p \in Range(chunks[i])
  <2>1. ~NL(text, p)
    BY <1>1, <1>2 DEF NL
  <2>2. Held(p)
    BY <2>1 DEF ChunkerInv, Covered
  <2>3. p \notin Range(current)
    BY <1>1 DEF Range
  <2>4. ~\E i \in 1..Len(paragraphs) : p \in Range(paragraphs[i])
    BY <1>1
  <2> QED BY <1>1, <2>2, <2>3, <2>4 DEF Held
<1>3. ASSUME NEW i \in DOMAIN chunks
      PROVE  InOrder(chunks[i])
  <2> DEFINE c == chunks[i]
  <2>1. Piece(text, c)
    BY <1>1 DEF ChunksFilled
  <2>2. c \in Seq(Nat) /\ Len(c) \in Nat /\ \A j \in 1..Len(c) : c[j] \in Nat
    BY <2>1, SeqFacts DEF Piece
  <2> HIDE DEF c
  <2>3. ASSUME NEW j \in 1..(Len(c) - 1)
        PROVE  c[j] < c[j + 1] /\ \A p \in (c[j] + 1)..(c[j + 1] - 1) : Byte(p) = "newline"
    <3>1. c[j] < c[j + 1] /\ \A p \in (c[j] + 1)..(c[j + 1] - 1) : NL(text, p)
      BY <2>1 DEF Piece
    <3>2. c[j] \in Nat /\ c[j + 1] \in Nat
      BY <2>2
    <3>3. \A p \in (c[j] + 1)..(c[j + 1] - 1) : p \in Nat \ {0}
      BY <3>2
    <3> QED BY <1>1, <3>1, <3>3, ByteIsNL
  <2>4. InOrder(c)
    BY <2>3 DEF InOrder
  <2> QED BY <2>4 DEF c
<1> QED BY <1>1, <1>2, <1>3 DEF ChunksFilled

\* However the loops of chunkByParagraph and chunkBySize cut a text, nothing of
\* it but newlines is lost, each chunk follows the text, no chunk begins before
\* the one that precedes it and none is larger than asked for but for a newline.
THEOREM NothingIsLost == ChunkerSpec => []NothingLost
<1>1. ChunkerInit => ChunkerInv
  BY InitInv
<1>2. ChunkerInv /\ [ChunkerNext]_chunkerVars => ChunkerInv'
  BY StepInv
<1>3. ChunkerInv => NothingLost
  BY InvNothingLost
<1> QED BY <1>1, <1>2, <1>3, PTL DEF ChunkerSpec

\* For an advance of a quarter of the size the overlap is to be smaller.
OverlapsSmall ==
    \A s \in Sizes, o \in Overlaps : Overlapping(o, Sized(s)) <= (Sized(s) \div 4) + 2

\* The overlap stays what the caller asked for.
Small == overlap <= (size \div 4) + 2

LEMMA InitSmall == OverlapsSmall /\ ChunkerInit => Small
<1> SUFFICES ASSUME OverlapsSmall, ChunkerInit
             PROVE  Small
  OBVIOUS
<1>1. PICK s \in Sizes : size = Sized(s)
  BY DEF ChunkerInit
<1>2. PICK o \in Overlaps : overlap = IF entry = "size" THEN Overlapping(o, size) ELSE size \div 5
  BY DEF ChunkerInit
<1>3. size \in Nat
  BY <1>1, ChunkerAssumption DEF Sized
<1>4. CASE entry = "size"
  BY <1>1, <1>2, <1>4 DEF OverlapsSmall, Small
<1>5. CASE entry # "size"
  <2>1. overlap = size \div 5
    BY <1>2, <1>5
  <2>2. size \div 5 <= (size \div 4) + 2
    BY <1>3
  <2> QED BY <2>1, <2>2 DEF Small
<1> QED BY <1>4, <1>5

LEMMA StepSmall == Small /\ [ChunkerNext]_chunkerVars => Small'
<1> SUFFICES ASSUME Small, [ChunkerNext]_chunkerVars
             PROVE  Small'
  OBVIOUS
<1>1. UNCHANGED args
  BY DEF ChunkerNext, AddLine, EndLines, Merge, EndMerge, Window, chunkerVars
<1> QED BY <1>1 DEF args, Small

\* "至少前进 chunk_size/4": a window of chunkBySize begins at least a quarter of
\* the size behind the one before and not behind its end, so that the loop
\* ends, whatever the size and the text, as long as the overlap is not larger
\* than the quarter and two bytes.
THEOREM WindowsAdvance ==
    ASSUME OverlapsSmall
    PROVE  ChunkerSpec => Advances
<1>1. ChunkerInit => ChunkerInv /\ Small
  BY InitInv, InitSmall
<1>2. (ChunkerInv /\ Small) /\ [ChunkerNext]_chunkerVars => (ChunkerInv /\ Small)'
  BY StepInv, StepSmall
<1>3. (ChunkerInv /\ Small) /\ [ChunkerNext]_chunkerVars =>
        [pc = "window" /\ pc' = "window" /\ long' = long =>
           start' >= start + size \div 4 /\ start' > start /\ start' <= WindowEnd]_chunkerVars
  <2> SUFFICES ASSUME ChunkerInv, Small, ChunkerNext, pc = "window", pc' = "window"
               PROVE  start' >= start + size \div 4 /\ start' > start /\ start' <= WindowEnd
    OBVIOUS
  <2>1. Window
    BY DEF ChunkerNext, AddLine, EndLines, Merge, EndMerge
  <2>2. start \in Nat /\ Len(long) \in Nat /\ WindowEnd \in (start + 1)..Len(long)
    BY WindowEnds, SeqFacts DEF ChunkerInv, ChunkerTypeOK
  <2>3. WindowEnd < Len(long) /\ start' = NextStart(WindowEnd)
    <3>1. ~(WindowEnd >= Len(long))
      BY <2>1 DEF Window, After
    <3> QED BY <2>1, <2>2, <3>1 DEF Window
  <2>4. /\ NextStart(WindowEnd) \in (start + 1)..WindowEnd
        /\ NextStart(WindowEnd) >= start + (size \div 4)
    BY <2>3, NextStarts DEF Small
  <2> QED BY <2>2, <2>3, <2>4
<1> QED BY <1>1, <1>2, <1>3, PTL DEF ChunkerSpec, Advances

=============================================================================
