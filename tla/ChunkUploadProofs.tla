------------------------- MODULE ChunkUploadProofs -------------------------
(***************************************************************************)
(* What the run chunks checks of module ChunkUpload for one upload of two  *)
(* chunks, proved for any users and uploads, any number of chunks and any  *)
(* set of faults.                                                          *)
(***************************************************************************)
EXTENDS ChunkUpload, TLAPS

Written == Data \cup {Cut}

\* What chunk files hold: who wrote them, and what.
Files == Users \X Written

Texts == {Empty} \cup UNION {[Indices(n) -> Files] : n \in 1..MaxChunks}

Sessions == [user : Users, total : 1..MaxChunks, received : SUBSET Nat]

ChunkTasks == [op : {"chunk"}, at : {"write", "mark"}, user : Users, id : Uploads,
               index : Nat, spelling : Spellings, data : Written]

CompleteTasks ==
    [op : {"complete"}, user : Users, id : Uploads, total : 1..MaxChunks, content : Texts,
     at : {"merge", "store", "create", "discard", "remove", "failing", "removeFailing"}]

TypeOK ==
    /\ DOMAIN issued \subseteq Uploads /\ issued \in [DOMAIN issued -> Users]
    /\ sessions \in [DOMAIN sessions -> Sessions] /\ old \subseteq DOMAIN sessions
    /\ DOMAIN chunks \subseteq Uploads \X Nat \X Spellings
    /\ chunks \in [DOMAIN chunks -> Files]
    /\ DOMAIN acked \subseteq Uploads \X Nat /\ acked \in [DOMAIN acked -> Written]
    /\ created \in [Uploads -> Nat]
    /\ catalog \subseteq [id : Uploads, user : Users, content : Texts]
    /\ merged \subseteq Uploads
    /\ task \in {NoTask} \cup ChunkTasks \cup CompleteTasks
    /\ running \in BOOLEAN /\ cleaner \in {"loop", "sleeping", "exited"}
    /\ server \in {"up", "stopping", "down"}

\* Nothing is known of an id that was not given out, and what is known of one
\* belongs to the user it was given to.
Owned ==
    /\ \A id \in DOMAIN sessions : id \in DOMAIN issued /\ sessions[id].user = issued[id]
    /\ \A p \in DOMAIN chunks : p[1] \in DOMAIN issued
    /\ \A q \in DOMAIN acked : q[1] \in DOMAIN issued
    /\ \A f \in catalog : f.id \in DOMAIN issued /\ f.user = issued[f.id]
    /\ task # NoTask => task.id \in DOMAIN issued /\ task.user = issued[task.id]

\* Where the handler stands that has made the file and has yet to erase the
\* session.
Leaving(id) == task.op = "complete" /\ task.id = id /\ task.at \in {"discard", "remove"}

\* A file is made once, and no request of any other handler finds its session.
MadeOnce ==
    /\ Once
    /\ \A id \in Uploads : created[id] # 0 => id \in DOMAIN issued
    /\ \A id \in DOMAIN sessions : created[id] = 0 \/ Leaving(id)
    /\ \A f \in catalog : created[f.id] # 0
    /\ task.op = "chunk" => created[task.id] = 0
    /\ task.op = "complete" /\ task.at \in {"merge", "store", "create"} => created[task.id] = 0

\* The file of chunk i is written, and its request not yet answered.
Writing(id, i) ==
    /\ task.op = "chunk" /\ task.at = "mark"
    /\ task.id = id /\ task.index = i /\ task.spelling = "plain"

\* No chunk beyond the n-th is acknowledged, and the chunk files under plain
\* names hold what was.
Agrees(id, n) ==
    /\ \A q \in DOMAIN acked : q[1] = id => q[2] < n
    /\ \A p \in DOMAIN chunks :
          p[1] = id /\ p[3] = "plain" /\ ~Writing(id, p[2]) =>
             /\ <<id, p[2]>> \in DOMAIN acked
             /\ chunks[p] = <<issued[id], acked[<<id, p[2]>>]>>

\* A content of n chunks, each as it was acknowledged.
Complete(id, n, content) ==
    /\ DOMAIN content = Indices(n)
    /\ \A j \in Indices(n) : /\ <<id, j>> \in DOMAIN acked
                             /\ content[j] = <<issued[id], acked[<<id, j>>]>>
    /\ \A q \in DOMAIN acked : q[1] = id => q[2] < n

\* From the first chunk to the file, no step loses what was acknowledged.
Carried ==
    /\ \A id \in DOMAIN sessions : Agrees(id, sessions[id].total)
    /\ task.op = "chunk" /\ task.id \in DOMAIN sessions => task.index < sessions[task.id].total
    /\ task.op = "chunk" /\ task.at = "mark" /\ task.spelling = "plain" =>
          /\ <<task.id, task.index, "plain">> \in DOMAIN chunks
          /\ chunks[<<task.id, task.index, "plain">>] = <<task.user, task.data>>
    /\ task.op = "complete" /\ task.at = "merge" => Agrees(task.id, task.total)
    /\ task.op = "complete" /\ task.at \in {"store", "create"} =>
          Complete(task.id, task.total, task.content)
    /\ \A f \in catalog : \E n \in 1..MaxChunks : Complete(f.id, n, f.content)

\* The inductive invariant.
Inv == TypeOK /\ Owned /\ MadeOnce /\ Carried

-----------------------------------------------------------------------------
(* Functions that grow and shrink.                                         *)

LEMMA WithFacts ==
    ASSUME NEW f, NEW k, NEW v
    PROVE  /\ DOMAIN With(f, k, v) = DOMAIN f \cup {k}
           /\ With(f, k, v)[k] = v
           /\ \A x \in DOMAIN f \ {k} : With(f, k, v)[x] = f[x]
BY DEF With

LEMMA WithType ==
    ASSUME NEW S, NEW f, f \in [DOMAIN f -> S], NEW k, NEW v \in S
    PROVE  With(f, k, v) \in [DOMAIN With(f, k, v) -> S]
BY DEF With

LEMMA WithoutFacts ==
    ASSUME NEW f, NEW K
    PROVE  /\ DOMAIN Without(f, K) = DOMAIN f \ K
           /\ \A x \in DOMAIN f \ K : Without(f, K)[x] = f[x]
BY DEF Without

LEMMA WithoutType ==
    ASSUME NEW S, NEW f, f \in [DOMAIN f -> S], NEW K
    PROVE  Without(f, K) \in [DOMAIN Without(f, K) -> S]
BY DEF Without

LEMMA EmptyFacts ==
    ASSUME NEW S
    PROVE  DOMAIN Empty = {} /\ Empty \in [{} -> S]
BY DEF Empty

-----------------------------------------------------------------------------
(* The types.                                                              *)

LEMMA TaskShape ==
    ASSUME TypeOK
    PROVE  /\ task.op = "chunk" => task \in ChunkTasks
           /\ task.op = "complete" => task \in CompleteTasks
           /\ task # NoTask <=> task.op \in {"chunk", "complete"}
BY DEF TypeOK, ChunkTasks, CompleteTasks, NoTask

LEMMA TypeInit == Init => TypeOK
<1> SUFFICES ASSUME Init PROVE TypeOK
  OBVIOUS
<1>1. Empty \in [{} -> Users] /\ Empty \in [{} -> Sessions] /\ Empty \in [{} -> Files]
      /\ Empty \in [{} -> Written] /\ DOMAIN Empty = {}
  BY EmptyFacts
<1> QED BY <1>1 DEF Init, TypeOK

LEMMA TypeStep == TypeOK /\ [Next]_vars => TypeOK'
<1> SUFFICES ASSUME TypeOK, [Next]_vars PROVE TypeOK'
  OBVIOUS
<1> USE DEF TypeOK, memory, disk, history, Finish, GoTo, Answer
<1>1. ASSUME NEW user \in Users, ChunkInit(user) PROVE TypeOK'
  <2>1. PICK id \in Uploads \ DOMAIN issued, n \in 1..MaxChunks :
          /\ sessions' = With(sessions, id, [user |-> user, total |-> n, received |-> {}])
          /\ issued' = With(issued, id, user) /\ task' = NoTask
          /\ UNCHANGED <<old, running, cleaner, server, disk, catalog, acked, created>>
    BY <1>1 DEF ChunkInit
  <2>2. [user |-> user, total |-> n, received |-> {}] \in Sessions
    BY DEF Sessions
  <2>3. sessions' \in [DOMAIN sessions' -> Sessions]
    BY <2>1, <2>2, WithType
  <2>4. issued' \in [DOMAIN issued' -> Users]
    BY <2>1, WithType
  <2>5. DOMAIN issued' = DOMAIN issued \cup {id} /\ DOMAIN sessions \subseteq DOMAIN sessions'
    BY <2>1 DEF With
  <2> QED BY <1>1, <2>1, <2>3, <2>4, <2>5 DEF ChunkInit
<1>2. ASSUME NEW user \in Users, ChunkLookup(user) PROVE TypeOK'
  BY <1>2 DEF ChunkLookup, ChunkTasks, Written
<1>3. CASE ChunkWrite
  <2>1. task \in ChunkTasks
    BY <1>3, TaskShape DEF ChunkWrite, At
  <2> DEFINE p == <<task.id, task.index, task.spelling>>
  <2>2. p \in Uploads \X Nat \X Spellings
    BY <2>1 DEF ChunkTasks
  <2>3. PICK w \in Written : chunks' = chunks \/ chunks' = With(chunks, p, <<task.user, w>>)
    BY <1>3, <2>1 DEF ChunkWrite, ChunkTasks, ChunkPath, Written
  <2>4. <<task.user, w>> \in Files
    BY <2>1 DEF ChunkTasks, Files
  <2>5. chunks' \in [DOMAIN chunks' -> Files]
    BY <2>3, <2>4, WithType
  <2>6. DOMAIN chunks' \subseteq Uploads \X Nat \X Spellings
    BY <2>2, <2>3 DEF With
  <2>7. task' \in {NoTask} \cup ChunkTasks
    <3>1. \/ task' = NoTask
          \/ task' = [task EXCEPT !.at = "mark"]
          \/ task' = [task EXCEPT !.at = "mark", !.data = Cut]
      BY <1>3 DEF ChunkWrite
    <3> QED BY <2>1, <3>1 DEF ChunkTasks, Written
  <2> QED BY <1>3, <2>5, <2>6, <2>7 DEF ChunkWrite
<1>4. CASE ChunkMark
  <2>1. task \in ChunkTasks
    BY <1>4, TaskShape DEF ChunkMark, At
  <2>2. sessions' \in [DOMAIN sessions' -> Sessions] /\ DOMAIN sessions' = DOMAIN sessions
    <3>1. sessions' = sessions \/
            /\ task.id \in DOMAIN sessions
            /\ sessions' = [sessions EXCEPT ![task.id].received = @ \cup {task.index}]
      BY <1>4 DEF ChunkMark
    <3>2. task.index \in Nat
      BY <2>1 DEF ChunkTasks
    <3> QED BY <3>1, <3>2 DEF Sessions
  <2>3. acked' = acked \/ acked' = With(acked, <<task.id, task.index>>, task.data)
    BY <1>4 DEF ChunkMark
  <2>4. task.data \in Written /\ <<task.id, task.index>> \in Uploads \X Nat
    BY <2>1 DEF ChunkTasks
  <2>5. acked' \in [DOMAIN acked' -> Written]
    BY <2>3, <2>4 DEF With
  <2>6. DOMAIN acked' \subseteq Uploads \X Nat
    BY <2>3, <2>4 DEF With
  <2> QED BY <1>4, <2>2, <2>5, <2>6 DEF ChunkMark
<1>5. ASSUME NEW user \in Users, CompleteLookup(user) PROVE TypeOK'
  <2>1. task' = NoTask \/ \E id \in DOMAIN issued :
          /\ id \in DOMAIN sessions
          /\ task' = [op |-> "complete", at |-> "merge", user |-> user, id |-> id,
                      total |-> sessions[id].total, content |-> Empty]
    BY <1>5 DEF CompleteLookup, MayUse
  <2>2. \A id \in DOMAIN sessions : sessions[id].total \in 1..MaxChunks
    BY DEF Sessions
  <2>3. task' \in {NoTask} \cup CompleteTasks
    BY <1>5, <2>1, <2>2 DEF CompleteTasks, Texts
  <2> QED BY <1>5, <2>3 DEF CompleteLookup
<1>6. CASE Merge
  <2>1. task \in CompleteTasks
    BY <1>6, TaskShape DEF Merge, At
  <2> DEFINE content == [i \in Indices(task.total) |-> chunks[<<task.id, i, "plain">>]]
  <2>2. task' = NoTask \/ /\ \A i \in Indices(task.total) : <<task.id, i, "plain">> \in DOMAIN chunks
                          /\ task' = [task EXCEPT !.at = "store", !.content = content]
    BY <1>6 DEF Merge, MergedParts, ChunkPath
  <2>3. CASE \A i \in Indices(task.total) : <<task.id, i, "plain">> \in DOMAIN chunks
    <3>1. content \in [Indices(task.total) -> Files]
      BY <2>3
    <3>2. content \in Texts
      BY <2>1, <3>1 DEF Texts, CompleteTasks
    <3>3. task' \in {NoTask} \cup CompleteTasks
      BY <2>1, <2>2, <3>2 DEF CompleteTasks
    <3> QED BY <1>6, <2>1, <3>3 DEF Merge, CompleteTasks
  <2>4. CASE task' = NoTask
    BY <1>6, <2>1, <2>4 DEF Merge, CompleteTasks
  <2> QED BY <2>2, <2>3, <2>4
<1>7. CASE Store
  <2>1. task \in CompleteTasks
    BY <1>7, TaskShape DEF Store, At
  <2> QED BY <1>7, <2>1 DEF Store, CompleteTasks
<1>8. CASE Create
  <2>1. task \in CompleteTasks
    BY <1>8, TaskShape DEF Create, At
  <2> QED BY <1>8, <2>1 DEF Create, CompleteTasks
<1>9. CASE DiscardChunks
  <2>1. task \in CompleteTasks
    BY <1>9, TaskShape DEF DiscardChunks, At
  <2>2. chunks' \in [DOMAIN chunks' -> Files]
    BY <1>9, WithoutType DEF DiscardChunks
  <2>3. DOMAIN chunks' \subseteq DOMAIN chunks
    BY <1>9, WithoutFacts DEF DiscardChunks
  <2>4. task' \in CompleteTasks
    BY <1>9, <2>1 DEF DiscardChunks, CompleteTasks
  <2> QED BY <1>9, <2>2, <2>3, <2>4 DEF DiscardChunks
<1>10. CASE RemoveSession
  <2>1. sessions' \in [DOMAIN sessions' -> Sessions]
    BY <1>10, WithoutType DEF RemoveSession, Removed
  <2> QED BY <1>10, <2>1 DEF RemoveSession
<1>11. ASSUME NEW user \in Users, ChunkStatus(user) PROVE TypeOK'
  BY <1>11 DEF ChunkStatus
<1>12. CASE CleanerLoop
  BY <1>12 DEF CleanerLoop
<1>13. CASE Sweep
  <2>1. sessions' \in [DOMAIN sessions' -> Sessions]
    BY <1>13, WithoutType DEF Sweep
  <2>2. DOMAIN sessions' = DOMAIN sessions \ old /\ old' = {}
    BY <1>13, WithoutFacts DEF Sweep, Expired
  <2> QED BY <1>13, <2>1, <2>2 DEF Sweep
<1>14. CASE Age
  BY <1>14 DEF Age
<1>15. CASE Stop
  BY <1>15 DEF Stop
<1>16. CASE Join
  BY <1>16, EmptyFacts DEF Join
<1>17. CASE Crash
  BY <1>17, EmptyFacts DEF Crash
<1>18. CASE Start
  BY <1>18 DEF Start
<1>19. CASE UNCHANGED vars
  BY <1>19 DEF vars
<1> QED
  BY <1>1, <1>2, <1>3, <1>4, <1>5, <1>6, <1>7, <1>8, <1>9, <1>10, <1>11, <1>12, <1>13,
     <1>14, <1>15, <1>16, <1>17, <1>18, <1>19 DEF Next, Request, HandlerStep

\* The state keeps its shape, for any users, uploads, contents and faults.
THEOREM TypeCorrect == Spec => []TypeOK
BY TypeInit, TypeStep, PTL DEF Spec

-----------------------------------------------------------------------------
(* Steps of the cleanup thread and of the process.                         *)

\* They change nothing but the table of sessions, which shrinks; a crash, which
\* empties it, ends the request in progress as well.
Losing ==
    /\ DOMAIN sessions' \subseteq DOMAIN sessions
    /\ \A id \in DOMAIN sessions' : sessions'[id] = sessions[id]
    /\ \/ task' = task
       \/ task' = NoTask /\ DOMAIN sessions' = {}
    /\ UNCHANGED <<chunks, catalog, issued, acked, created>>

LEMMA LosingSteps ==
    ASSUME CleanerLoop \/ Sweep \/ Age \/ Stop \/ Join \/ Crash \/ Start \/ UNCHANGED vars
    PROVE  Losing
<1> USE DEF Losing, memory, disk, history
<1>1. CASE CleanerLoop \/ Age \/ Stop \/ Start \/ UNCHANGED vars
  BY <1>1 DEF CleanerLoop, Age, Stop, Start, vars
<1>2. CASE Sweep
  BY <1>2 DEF Sweep, Without
<1>3. CASE Join \/ Crash
  BY <1>3 DEF Join, Crash, Empty
<1> QED BY <1>1, <1>2, <1>3

-----------------------------------------------------------------------------
(* What each request is about belongs to the user who makes it.            *)

LEMMA OwnedStep == TypeOK /\ Owned /\ [Next]_vars => Owned'
<1> SUFFICES ASSUME TypeOK, Owned, [Next]_vars PROVE Owned'
  OBVIOUS
<1> USE DEF Owned, memory, disk, history, Finish, GoTo, Answer, At
<1>0. CASE Losing
  BY <1>0 DEF Losing
<1>1. ASSUME NEW user \in Users, ChunkInit(user) PROVE Owned'
  BY <1>1 DEF ChunkInit, With, NoTask, TypeOK
<1>2. ASSUME NEW user \in Users, ChunkLookup(user) PROVE Owned'
  BY <1>2 DEF ChunkLookup, MayUse
<1>3. CASE ChunkWrite
  <2>1. task \in ChunkTasks
    BY <1>3, TaskShape DEF ChunkWrite
  <2>2. PICK w : chunks' = chunks \/ chunks' = With(chunks, <<task.id, task.index, task.spelling>>, w)
    BY <1>3 DEF ChunkWrite, ChunkPath
  <2>3. task.id \in DOMAIN issued
    BY <1>3, TaskShape DEF ChunkWrite
  <2>4. \A p \in DOMAIN chunks' : p \in DOMAIN chunks \/ p = <<task.id, task.index, task.spelling>>
    BY <2>2 DEF With
  <2>5. \A p \in DOMAIN chunks' : p[1] \in DOMAIN issued
    BY <2>3, <2>4
  <2> QED BY <1>3, <2>1, <2>5, TaskShape DEF ChunkWrite, ChunkTasks
<1>4. CASE ChunkMark
  <2>1. task \in ChunkTasks
    BY <1>4, TaskShape DEF ChunkMark
  <2>2. \A q \in DOMAIN acked' : q[1] \in DOMAIN issued
    BY <1>4, <2>1, TaskShape DEF ChunkMark, With
  <2>3. \A id \in DOMAIN sessions' : id \in DOMAIN sessions /\ sessions'[id].user = sessions[id].user
    BY <1>4, <2>1 DEF ChunkMark, TypeOK, Sessions
  <2> QED BY <1>4, <2>2, <2>3 DEF ChunkMark
<1>5. ASSUME NEW user \in Users, CompleteLookup(user) PROVE Owned'
  BY <1>5 DEF CompleteLookup, MayUse
<1>6. CASE Merge
  BY <1>6, TaskShape DEF Merge, CompleteTasks
<1>7. CASE Store
  BY <1>7, TaskShape DEF Store, CompleteTasks
<1>8. CASE Create
  BY <1>8, TaskShape DEF Create, CompleteTasks
<1>9. CASE DiscardChunks
  BY <1>9, TaskShape DEF DiscardChunks, CompleteTasks, Without
<1>10. CASE RemoveSession
  BY <1>10, TaskShape DEF RemoveSession, CompleteTasks, Removed, Without
<1>11. ASSUME NEW user \in Users, ChunkStatus(user) PROVE Owned'
  BY <1>11 DEF ChunkStatus
<1> QED
  BY <1>0, <1>1, <1>2, <1>3, <1>4, <1>5, <1>6, <1>7, <1>8, <1>9, <1>10, <1>11, LosingSteps
     DEF Next, Request, HandlerStep

-----------------------------------------------------------------------------
(* An upload becomes one file.                                             *)

LEMMA MadeOnceStep == TypeOK /\ Owned /\ MadeOnce /\ [Next]_vars => MadeOnce'
<1> SUFFICES ASSUME TypeOK, Owned, MadeOnce, [Next]_vars PROVE MadeOnce'
  OBVIOUS
<1> USE DEF MadeOnce, Once, Leaving, memory, disk, history, Finish, GoTo, Answer, At
<1>0. CASE Losing
  BY <1>0 DEF Losing, NoTask
<1>1. ASSUME NEW user \in Users, ChunkInit(user) PROVE MadeOnce'
  <2>1. PICK id \in Uploads \ DOMAIN issued :
          /\ DOMAIN sessions' = DOMAIN sessions \cup {id}
          /\ DOMAIN issued' = DOMAIN issued \cup {id}
    BY <1>1 DEF ChunkInit, With
  <2>2. task = NoTask /\ task' = NoTask /\ UNCHANGED <<created, catalog>>
    BY <1>1 DEF ChunkInit, Idle
  <2> QED BY <2>1, <2>2 DEF NoTask
<1>2. ASSUME NEW user \in Users, ChunkLookup(user) PROVE MadeOnce'
  BY <1>2 DEF ChunkLookup, MayUse, Idle, NoTask
<1>3. CASE ChunkWrite
  <2>1. task \in ChunkTasks /\ UNCHANGED <<sessions, created, catalog, issued>>
    BY <1>3, TaskShape DEF ChunkWrite
  <2>2. task' = NoTask \/ (task'.op = "chunk" /\ task'.id = task.id)
    BY <1>3, <2>1 DEF ChunkWrite, ChunkTasks
  <2> QED BY <2>1, <2>2 DEF ChunkTasks, NoTask
<1>4. CASE ChunkMark
  BY <1>4, TaskShape DEF ChunkMark, ChunkTasks, NoTask
<1>5. ASSUME NEW user \in Users, CompleteLookup(user) PROVE MadeOnce'
  BY <1>5 DEF CompleteLookup, MayUse, Idle, NoTask
<1>6. CASE Merge
  <2>1. task \in CompleteTasks /\ task.at = "merge" /\ UNCHANGED <<sessions, created, catalog, issued>>
    BY <1>6, TaskShape DEF Merge
  <2>2. task' = NoTask \/ (task'.op = "complete" /\ task'.id = task.id /\ task'.at = "store")
    BY <1>6, <2>1 DEF Merge, CompleteTasks
  <2> QED BY <2>1, <2>2 DEF CompleteTasks, NoTask
<1>7. CASE Store
  BY <1>7, TaskShape DEF Store, CompleteTasks, NoTask
<1>8. CASE Create
  <2>1. task \in CompleteTasks /\ task.at = "create" /\ UNCHANGED <<sessions, issued>>
    BY <1>8, TaskShape DEF Create
  <2>2. task.id \in Uploads /\ created[task.id] = 0 /\ task.id \in DOMAIN issued
    BY <2>1, TaskShape DEF CompleteTasks, Owned
  <2>3. CASE /\ catalog' = catalog \cup {[id |-> task.id, user |-> task.user, content |-> task.content]}
             /\ created' = [created EXCEPT ![task.id] = @ + 1]
             /\ task' = [task EXCEPT !.at = "discard"]
    <3>1. created' = [created EXCEPT ![task.id] = 1]
      BY <2>2, <2>3
    <3>2. task'.op = "complete" /\ task'.id = task.id /\ task'.at = "discard"
      BY <2>1, <2>3 DEF CompleteTasks
    <3>3. \A f \in catalog' : f \in catalog \/ f.id = task.id
      BY <2>3
    <3>4. \A f \in catalog' : f.id \in Uploads /\ created'[f.id] # 0
      BY <2>2, <3>1, <3>3 DEF TypeOK
    <3> QED BY <2>1, <2>2, <3>1, <3>2, <3>4 DEF TypeOK, CompleteTasks
  <2>4. CASE task' = [task EXCEPT !.at = "failing"] /\ UNCHANGED <<catalog, created>>
    BY <2>1, <2>2, <2>4 DEF CompleteTasks
  <2> QED BY <1>8, <2>3, <2>4 DEF Create
<1>9. CASE DiscardChunks
  BY <1>9, TaskShape DEF DiscardChunks, CompleteTasks
<1>10. CASE RemoveSession
  BY <1>10, TaskShape DEF RemoveSession, CompleteTasks, Removed, Without, NoTask
<1>11. ASSUME NEW user \in Users, ChunkStatus(user) PROVE MadeOnce'
  BY <1>11 DEF ChunkStatus, Idle, NoTask
<1> QED
  BY <1>0, <1>1, <1>2, <1>3, <1>4, <1>5, <1>6, <1>7, <1>8, <1>9, <1>10, <1>11, LosingSteps
     DEF Next, Request, HandlerStep

-----------------------------------------------------------------------------
(* What was acknowledged reaches the file.                                 *)

\* A content stays complete until something more is acknowledged.
LEMMA StaysComplete ==
    ASSUME NEW id, NEW n, NEW content, Complete(id, n, content),
           UNCHANGED <<acked, issued>>
    PROVE  Complete(id, n, content)'
BY DEF Complete

LEMMA CarriedLosing ==
    ASSUME Carried, Losing
    PROVE  Carried'
<1> USE DEF Losing
<1>1. CASE task' = task
  <2>1. \A id, n : Agrees(id, n) => Agrees(id, n)'
    BY <1>1 DEF Agrees, Writing
  <2> QED BY <1>1, <2>1, StaysComplete DEF Carried
<1>2. CASE task' = NoTask /\ DOMAIN sessions' = {}
  BY <1>2, StaysComplete DEF Carried, NoTask
<1> QED BY <1>1, <1>2

LEMMA CarriedStep == TypeOK /\ Owned /\ MadeOnce /\ Carried /\ [Next]_vars => Carried'
<1> SUFFICES ASSUME TypeOK, Owned, MadeOnce, Carried, [Next]_vars PROVE Carried'
  OBVIOUS
<1> USE DEF memory, disk, history, Finish, GoTo, Answer, At
<1>0. CASE Losing
  BY <1>0, CarriedLosing
<1>1. ASSUME NEW user \in Users, ChunkInit(user) PROVE Carried'
  <2>1. PICK id \in Uploads \ DOMAIN issued, n \in 1..MaxChunks :
          /\ sessions' = With(sessions, id, [user |-> user, total |-> n, received |-> {}])
          /\ issued' = With(issued, id, user)
    BY <1>1 DEF ChunkInit
  <2>2. task = NoTask /\ task' = NoTask /\ UNCHANGED <<chunks, acked, catalog>>
    BY <1>1 DEF ChunkInit, Idle
  <2>3. Agrees(id, n)'
    BY <2>1, <2>2 DEF Agrees, Owned
  <2>4. \A x \in DOMAIN issued : issued'[x] = issued[x]
    BY <2>1 DEF With
  <2>5. \A m : \A x \in DOMAIN issued : Agrees(x, m) => Agrees(x, m)'
    BY <2>2, <2>4 DEF Agrees, Writing, NoTask
  <2>6. ASSUME NEW x \in DOMAIN sessions' PROVE Agrees(x, sessions[x].total)'
    <3>1. CASE x = id
      <4>1. sessions'[x].total = n
        BY <2>1, <3>1 DEF With
      <4> QED BY <2>3, <3>1, <4>1
    <3>2. CASE x # id
      <4>1. x \in DOMAIN sessions /\ sessions'[x] = sessions[x] /\ x \in DOMAIN issued
        BY <2>1, <3>2 DEF With, Owned
      <4>2. Agrees(x, sessions[x].total)
        BY <4>1 DEF Carried
      <4> QED BY <2>5, <4>1, <4>2
    <3> QED BY <3>1, <3>2
  <2>7. \A m, c : \A x \in DOMAIN issued : Complete(x, m, c) => Complete(x, m, c)'
    BY <2>2, <2>4 DEF Complete
  <2>8. \A f \in catalog' : \E m \in 1..MaxChunks : Complete(f.id, m, f.content)'
    BY <2>2, <2>7 DEF Carried, Owned
  <2> QED BY <2>2, <2>6, <2>8 DEF Carried, NoTask
<1>2. ASSUME NEW user \in Users, ChunkLookup(user) PROVE Carried'
  <2>1. task = NoTask /\ UNCHANGED <<sessions, chunks, acked, catalog, issued>>
    BY <1>2 DEF ChunkLookup, Idle
  <2>2. \/ task' = NoTask
        \/ /\ task'.op = "chunk" /\ task'.at = "write" /\ task'.id \in DOMAIN sessions
           /\ task'.index < sessions[task'.id].total
    BY <1>2 DEF ChunkLookup, MayUse, ValidIndex, Indices, TypeOK, Sessions
  <2>3. \A id, n : Agrees(id, n) => Agrees(id, n)'
    BY <2>1, <2>2 DEF Agrees, Writing, NoTask
  <2> QED BY <2>1, <2>2, <2>3, StaysComplete DEF Carried, NoTask
<1>3. CASE ChunkWrite
  <2> DEFINE p == <<task.id, task.index, "plain">>
  <2>1. /\ task \in ChunkTasks /\ task.at = "write"
        /\ UNCHANGED <<sessions, acked, catalog, issued>>
    BY <1>3, TaskShape DEF ChunkWrite
  <2>2. CASE UNCHANGED chunks /\ task' = NoTask
    <3>1. \A id, n : Agrees(id, n) => Agrees(id, n)'
      BY <2>1, <2>2 DEF Agrees, Writing, NoTask
    <3> QED BY <2>1, <2>2, <3>1, StaysComplete DEF Carried, NoTask
  <2>3. ASSUME NEW w,
               chunks' = With(chunks, <<task.id, task.index, task.spelling>>, <<task.user, w>>),
               task' = [task EXCEPT !.at = "mark", !.data = w]
        PROVE  Carried'
    <3>1. /\ task'.op = "chunk" /\ task'.at = "mark" /\ task'.id = task.id
          /\ task'.index = task.index /\ task'.spelling = task.spelling
          /\ task'.user = task.user /\ task'.data = w
      BY <2>1, <2>3 DEF ChunkTasks
    <3>2. \A x \in DOMAIN chunks' : \/ x \in DOMAIN chunks /\ chunks'[x] = chunks[x]
                                    \/ x = <<task.id, task.index, task.spelling>>
      BY <2>3 DEF With
    <3>3. ASSUME NEW id, NEW n, Agrees(id, n) PROVE Agrees(id, n)'
      <4> SUFFICES ASSUME NEW x \in DOMAIN chunks', x[1] = id, x[3] = "plain", ~Writing(id, x[2])'
                   PROVE  /\ <<id, x[2]>> \in DOMAIN acked
                          /\ chunks'[x] = <<issued[id], acked[<<id, x[2]>>]>>
        BY <2>1, <3>3 DEF Agrees
      <4>1. x # <<task.id, task.index, task.spelling>>
        BY <3>1 DEF Writing
      <4>2. x \in DOMAIN chunks /\ chunks'[x] = chunks[x] /\ ~Writing(id, x[2])
        BY <2>1, <3>2, <4>1 DEF Writing
      <4> QED BY <3>3, <4>2 DEF Agrees
    <3>4. task.spelling = "plain" => p \in DOMAIN chunks' /\ chunks'[p] = <<task.user, w>>
      BY <2>3 DEF With
    <3>5. task.op = "chunk"
      BY <2>1 DEF ChunkTasks
    <3>6. ASSUME NEW id \in DOMAIN sessions PROVE Agrees(id, sessions[id].total)'
      <4>1. Agrees(id, sessions[id].total)
        BY DEF Carried
      <4> QED BY <2>1, <3>3, <4>1
    <3>7. \A f \in catalog' : \E n \in 1..MaxChunks : Complete(f.id, n, f.content)'
      BY <2>1, StaysComplete DEF Carried
    <3> QED BY <2>1, <3>1, <3>4, <3>5, <3>6, <3>7 DEF Carried
  <2>4. \/ UNCHANGED chunks /\ task' = NoTask
        \/ \E w \in Written :
              /\ chunks' = With(chunks, <<task.id, task.index, task.spelling>>, <<task.user, w>>)
              /\ task' = [task EXCEPT !.at = "mark", !.data = w]
    <3>1. task.data \in Written /\ [task EXCEPT !.at = "mark"] = [task EXCEPT !.at = "mark", !.data = task.data]
      BY <2>1 DEF ChunkTasks
    <3>2. Cut \in Written
      BY DEF Written
    <3> QED BY <1>3, <3>1, <3>2 DEF ChunkWrite, ChunkPath
  <2> QED BY <2>2, <2>3, <2>4
<1>4. CASE ChunkMark
  <2>1. /\ task \in ChunkTasks /\ task.at = "mark" /\ task' = NoTask
        /\ UNCHANGED <<chunks, catalog, issued>>
    BY <1>4, TaskShape DEF ChunkMark
  <2>2. /\ DOMAIN sessions' = DOMAIN sessions
        /\ \A id \in DOMAIN sessions : sessions'[id].total = sessions[id].total
    BY <1>4, <2>1 DEF ChunkMark, TypeOK, Sessions
  <2>3. DOMAIN acked \subseteq DOMAIN acked' /\ DOMAIN acked' \subseteq DOMAIN acked \cup {<<task.id, task.index>>}
    BY <1>4 DEF ChunkMark, With
  <2>4. \A q \in DOMAIN acked : q # <<task.id, task.index>> => acked'[q] = acked[q]
    BY <1>4 DEF ChunkMark, With
  <2>5. task.spelling = "plain" => /\ <<task.id, task.index>> \in DOMAIN acked'
                                   /\ acked'[<<task.id, task.index>>] = task.data
    BY <1>4 DEF ChunkMark, With
  <2>6. task.spelling # "plain" => acked' = acked
    BY <1>4 DEF ChunkMark
  <2>7. ASSUME NEW id \in DOMAIN sessions, NEW n, n = sessions[id].total
        PROVE  Agrees(id, n)'
    <3>1. Agrees(id, n)
      BY <2>7 DEF Carried
    <3>2. task.id = id => task.index < n
      BY <2>1, <2>7 DEF Carried, ChunkTasks
    <3>3. \A q \in DOMAIN acked' : q[1] = id => q[2] < n
      BY <2>3, <3>1, <3>2 DEF Agrees
    <3>4. ASSUME NEW x \in DOMAIN chunks, x[1] = id, x[3] = "plain"
          PROVE  /\ <<id, x[2]>> \in DOMAIN acked'
                 /\ chunks[x] = <<issued[id], acked'[<<id, x[2]>>]>>
      <4>1. CASE Writing(id, x[2])
        <5>1. x = <<task.id, task.index, "plain">>
          BY <3>4, <4>1 DEF Writing, TypeOK
        <5>2. chunks[x] = <<task.user, task.data>> /\ task.user = issued[id]
          BY <4>1, <5>1, TaskShape DEF Carried, Writing, Owned
        <5> QED BY <2>5, <4>1, <5>2 DEF Writing
      <4>2. CASE ~Writing(id, x[2])
        <5>1. <<id, x[2]>> \in DOMAIN acked /\ chunks[x] = <<issued[id], acked[<<id, x[2]>>]>>
          BY <3>1, <3>4, <4>2 DEF Agrees
        <5>2. <<id, x[2]>> # <<task.id, task.index>> \/ task.spelling # "plain"
          BY <2>1, <4>2 DEF Writing, ChunkTasks
        <5> QED BY <2>3, <2>4, <2>6, <5>1, <5>2
      <4> QED BY <4>1, <4>2
    <3> QED BY <2>1, <3>3, <3>4 DEF Agrees
  <2>8. ASSUME NEW f \in catalog PROVE  \E n \in 1..MaxChunks : Complete(f.id, n, f.content)'
    <3>1. PICK n \in 1..MaxChunks : Complete(f.id, n, f.content)
      BY DEF Carried
    <3>2. f.id # task.id
      BY <2>1 DEF MadeOnce, ChunkTasks
    <3>3. \A q \in DOMAIN acked' : q[1] = f.id => q \in DOMAIN acked
      BY <2>3, <3>2
    <3>4. \A j \in Indices(n) : acked'[<<f.id, j>>] = acked[<<f.id, j>>]
      <4> TAKE j \in Indices(n)
      <4>1. <<f.id, j>> # <<task.id, task.index>> /\ <<f.id, j>> \in DOMAIN acked
        BY <3>1, <3>2 DEF Complete
      <4> QED BY <2>4, <4>1
    <3> QED BY <2>1, <2>3, <3>1, <3>3, <3>4 DEF Complete
  <2> QED BY <2>1, <2>2, <2>7, <2>8 DEF Carried, NoTask
<1>5. ASSUME NEW user \in Users, CompleteLookup(user) PROVE Carried'
  <2>1. task = NoTask /\ UNCHANGED <<sessions, chunks, acked, catalog, issued>>
    BY <1>5 DEF CompleteLookup, Idle
  <2>2. \/ task' = NoTask
        \/ /\ task'.op = "complete" /\ task'.at = "merge" /\ task'.id \in DOMAIN sessions
           /\ task'.total = sessions[task'.id].total
    BY <1>5 DEF CompleteLookup, MayUse
  <2>3. \A id, n : Agrees(id, n) => Agrees(id, n)'
    BY <2>1, <2>2 DEF Agrees, Writing, NoTask
  <2> QED BY <2>1, <2>2, <2>3, StaysComplete DEF Carried, NoTask
<1>6. CASE Merge
  <2>1. /\ task \in CompleteTasks /\ task.at = "merge"
        /\ UNCHANGED <<sessions, chunks, acked, catalog, issued>>
    BY <1>6, TaskShape DEF Merge
  <2> DEFINE content == [i \in Indices(task.total) |-> chunks[<<task.id, i, "plain">>]]
  <2>2. \/ task' = NoTask
        \/ /\ \A i \in Indices(task.total) : <<task.id, i, "plain">> \in DOMAIN chunks
           /\ task' = [task EXCEPT !.at = "store", !.content = content]
    BY <1>6 DEF Merge, MergedParts, ChunkPath
  <2>3. \A id, n : Agrees(id, n) => Agrees(id, n)'
    BY <2>1, <2>2 DEF Agrees, Writing, NoTask, CompleteTasks
  <2>4. CASE task' = NoTask
    BY <2>1, <2>3, <2>4, StaysComplete DEF Carried, NoTask
  <2>5. CASE /\ \A i \in Indices(task.total) : <<task.id, i, "plain">> \in DOMAIN chunks
             /\ task' = [task EXCEPT !.at = "store", !.content = content]
    <3>1. /\ task'.op = "complete" /\ task'.at = "store" /\ task'.id = task.id
          /\ task'.total = task.total /\ task'.content = content
      BY <2>1, <2>5 DEF CompleteTasks
    <3>2. Agrees(task.id, task.total) /\ task.op = "complete"
      BY <2>1 DEF Carried, CompleteTasks
    <3>3. \A i \in Indices(task.total) : /\ <<task.id, i>> \in DOMAIN acked
                                         /\ content[i] = <<issued[task.id], acked[<<task.id, i>>]>>
      BY <2>5, <3>2 DEF Agrees, Writing
    <3>4. Complete(task.id, task.total, content)
      BY <3>2, <3>3 DEF Agrees, Complete
    <3>5. Complete(task.id, task.total, task.content)'
      BY <2>1, <3>1, <3>4 DEF Complete
    <3> QED BY <2>1, <2>3, <3>1, <3>5, StaysComplete DEF Carried
  <2> QED BY <2>2, <2>4, <2>5
<1>7. CASE Store
  <2>1. /\ task \in CompleteTasks /\ task.at = "store"
        /\ UNCHANGED <<sessions, chunks, acked, catalog, issued>>
    BY <1>7, TaskShape DEF Store
  <2>2. task' = NoTask \/ task' = [task EXCEPT !.at = "create"]
    BY <1>7 DEF Store
  <2>3. \A id, n : Agrees(id, n) => Agrees(id, n)'
    BY <2>1, <2>2 DEF Agrees, Writing, NoTask, CompleteTasks
  <2> QED BY <2>1, <2>2, <2>3, StaysComplete DEF Carried, NoTask, CompleteTasks
<1>8. CASE Create
  <2>1. /\ task \in CompleteTasks /\ task.at = "create"
        /\ UNCHANGED <<sessions, chunks, acked, issued>>
        /\ \A f \in catalog' : f \in catalog \/ (f.id = task.id /\ f.content = task.content)
    BY <1>8, TaskShape DEF Create
  <2>2. task'.op = "complete" /\ task'.at \in {"discard", "failing"}
    BY <1>8, <2>1 DEF Create, CompleteTasks
  <2>3. \A id, n : Agrees(id, n) => Agrees(id, n)'
    BY <2>1, <2>2 DEF Agrees, Writing, CompleteTasks
  <2>4. Complete(task.id, task.total, task.content) /\ task.total \in 1..MaxChunks
    BY <2>1 DEF Carried, CompleteTasks
  <2>5. \A f \in catalog' : \E n \in 1..MaxChunks : Complete(f.id, n, f.content)
    BY <2>1, <2>4 DEF Carried
  <2> QED BY <2>1, <2>2, <2>3, <2>5, StaysComplete DEF Carried
<1>9. CASE DiscardChunks
  <2>1. /\ task \in CompleteTasks
        /\ UNCHANGED <<sessions, acked, catalog, issued>>
        /\ \A p \in DOMAIN chunks' : p \in DOMAIN chunks /\ chunks'[p] = chunks[p]
    BY <1>9, TaskShape DEF DiscardChunks, Without
  <2>2. task'.op = "complete" /\ task'.at \in {"remove", "removeFailing"}
    BY <1>9, <2>1 DEF DiscardChunks, CompleteTasks
  <2>3. \A id, n : Agrees(id, n) => Agrees(id, n)'
    BY <2>1, <2>2 DEF Agrees, Writing, CompleteTasks
  <2> QED BY <2>1, <2>2, <2>3, StaysComplete DEF Carried
<1>10. CASE RemoveSession
  <2>1. /\ task \in CompleteTasks /\ task' = NoTask
        /\ UNCHANGED <<chunks, acked, catalog, issued>>
        /\ \A id \in DOMAIN sessions' : id \in DOMAIN sessions /\ sessions'[id] = sessions[id]
    BY <1>10, TaskShape DEF RemoveSession, Removed, Without
  <2>2. \A id, n : Agrees(id, n) => Agrees(id, n)'
    BY <2>1 DEF Agrees, Writing, NoTask, CompleteTasks
  <2> QED BY <2>1, <2>2, StaysComplete DEF Carried, NoTask
<1>11. ASSUME NEW user \in Users, ChunkStatus(user) PROVE Carried'
  <2>1. Losing
    BY <1>11 DEF ChunkStatus, Losing, Idle
  <2> QED BY <2>1, CarriedLosing
<1> QED
  BY <1>0, <1>1, <1>2, <1>3, <1>4, <1>5, <1>6, <1>7, <1>8, <1>9, <1>10, <1>11, LosingSteps
     DEF Next, Request, HandlerStep

-----------------------------------------------------------------------------
(* The theorems.                                                           *)

LEMMA InvInit == Init => Inv
<1> SUFFICES ASSUME Init PROVE Inv
  OBVIOUS
<1>1. DOMAIN Empty = {}
  BY EmptyFacts
<1>2. Owned /\ MadeOnce /\ Carried
  BY <1>1 DEF Init, Owned, MadeOnce, Once, Carried, NoTask
<1> QED BY <1>2, TypeInit DEF Inv

LEMMA InvStep == Inv /\ [Next]_vars => Inv'
BY TypeStep, OwnedStep, MadeOnceStep, CarriedStep DEF Inv

LEMMA InvWhole == Inv => Whole
<1> SUFFICES ASSUME Inv, NEW f \in catalog
             PROVE  \E i \in Indices(MaxChunks) :
                      /\ f.user = issued[f.id]
                      /\ DOMAIN f.content = Indices(i + 1)
                      /\ \A j \in Indices(i + 1) : f.content[j] = <<f.user, acked[<<f.id, j>>]>>
                      /\ \A k \in Indices(MaxChunks) : <<f.id, k>> \in DOMAIN acked => k <= i
  BY DEF Whole
<1>1. PICK n \in 1..MaxChunks : Complete(f.id, n, f.content)
  BY DEF Inv, Carried
<1>2. n - 1 \in Indices(MaxChunks) /\ (n - 1) + 1 = n
  BY <1>1, ChunkAssumption DEF Indices
<1>3. f.user = issued[f.id]
  BY DEF Inv, Owned
<1>4. \A k \in Indices(MaxChunks) : <<f.id, k>> \in DOMAIN acked => k <= n - 1
  BY <1>1, ChunkAssumption DEF Complete, Indices
<1> QED BY <1>1, <1>2, <1>3, <1>4 DEF Complete

\* Every file made from an upload is its starter's and holds every chunk as it
\* was last acknowledged, over repeated chunks, other spellings, foreign users,
\* failures, crashes and sessions that expire in the middle of a handler.
THEOREM FilesAreWhole == Spec => []Whole
BY InvInit, InvStep, InvWhole, PTL DEF Spec

\* An upload becomes one file at most, however often its completion is asked
\* for: the session is erased before the next request, or is gone already.
THEOREM FilesMadeOnce == Spec => []Once
<1>1. Inv => Once
  BY DEF Inv, MadeOnce
<1> QED BY InvInit, InvStep, <1>1, PTL DEF Spec
=============================================================================
