----------------------------- MODULE Statement -----------------------------
(***************************************************************************)
(* PreparedStatement of src/src/db/PreparedStatement.cpp and the queries   *)
(* of src/src/db/MysqlConn.cpp, as UserDao uses both on a connection lent  *)
(* by the pool: findByUsername prepares a statement, findById sends text.  *)
(*                                                                         *)
(* A result column is read into a buffer of fixed size; lengths are in     *)
(* units of 64 bytes.                                                      *)
(***************************************************************************)
EXTENDS Naturals, FiniteSets

CONSTANTS
    People,     \* user names
    EmailSizes  \* lengths of an email address, up to the 8 units the column has

Nobody == "nobody"

VARIABLES
    stored,    \* table users: name -> length of the email, 0 for no such row
    doing,     \* "idle", "findByUsername" or "findById"
    step,      \* the call that comes next
    wanted,    \* the name bound, or whose id is asked for
    held,      \* what the statement has allocated
    results,   \* MYSQL_RES of the connection that are not freed
    row,       \* the row that fetch or next made current
    found,     \* the answer of the last findBy...
    failed     \* a call of the database failed meanwhile

lookupVars == <<stored, doing, step, wanted, held, results, row, found, failed>>

NoRow == [name |-> Nobody, email |-> 0]

LookupInit ==
    /\ stored \in [People -> {0}]
    /\ doing = "idle" /\ step = "none" /\ wanted = Nobody
    /\ held = {} /\ results = 0
    /\ row = NoRow /\ found = NoRow /\ failed = FALSE

Then(s) == step' = s /\ UNCHANGED <<stored, doing, wanted>>
Fine    == UNCHANGED failed
Fault   == failed' = TRUE

\* createUser, between two lookups.
Insert(n) ==
    /\ doing = "idle" /\ stored[n] = 0
    /\ \E size \in EmailSizes : stored' = [stored EXCEPT ![n] = size]
    /\ found' = NoRow /\ wanted' = Nobody
    /\ UNCHANGED <<doing, step, held, results, row, failed>>

Begin(op, n) ==
    /\ doing = "idle"
    /\ doing' = op /\ wanted' = n /\ found' = NoRow /\ failed' = FALSE
    /\ step' = IF op = "findById" THEN "query" ELSE "construct"
    /\ UNCHANGED <<stored, held, results, row>>

-----------------------------------------------------------------------------
(* PreparedStatement.                                                      *)

\* mysql_stmt_init; without a statement prepare() fails.
Construct ==
    /\ step = "construct"
    /\ \/ held' = {"statement"} /\ Fine /\ Then("prepare")
       \/ UNCHANGED held /\ Fault /\ Then("free")
    /\ UNCHANGED <<results, row, found>>

\* The buffers are there before bind_result may fail.
Prepare ==
    /\ step = "prepare"
    /\ \/ held' = held \cup {"metadata", "params", "results"}
          /\ ((Fine /\ Then("execute")) \/ (Fault /\ Then("free")))
       \/ UNCHANGED held /\ Fault /\ Then("free")
    /\ UNCHANGED <<results, row, found>>

\* bindString and execute; a store_result that fails shows at the fetch.
Execute ==
    /\ step = "execute"
    /\ (Fine /\ Then("fetch")) \/ (Fault /\ Then("fetch")) \/ (Fault /\ Then("free"))
    /\ UNCHANGED <<held, results, row, found>>

\* Mutant: a buffer that counts the characters of the widest column, not their
\* bytes.
BufferSizeChars == 2

\* 1024 bytes.
BufferSize == 16

\* fetch: no row, or one that is cut to a buffer, is none.
Fetch ==
    /\ step = "fetch"
    /\ IF ~failed /\ stored[wanted] \in 1..BufferSize
         THEN row' = [name |-> wanted, email |-> stored[wanted]] /\ Fine /\ Then("read")
         ELSE UNCHANGED row /\ Fine /\ Then("free")
    /\ UNCHANGED <<held, results, found>>

\* getInt64 and getString of every column.
Read ==
    /\ step = "read"
    /\ found' = row /\ row' = NoRow /\ Then("free")
    /\ UNCHANGED <<held, results, failed>>

\* Mutant: the buffers of the result are freed, the statement is not closed.
FreeStmtOpen == held' = held \cap {"statement", "metadata"}

\* The destructor.
FreeStmt == held' = {}

\* The statement goes before the guard gives the connection back: they are
\* destroyed in the reverse order of their declaration.
Return ==
    /\ step = "free"
    /\ IF doing = "findByUsername" THEN FreeStmt ELSE UNCHANGED held
    /\ doing' = "idle" /\ step' = "none"
    /\ UNCHANGED <<stored, wanted, results, row, found, failed>>

-----------------------------------------------------------------------------
(* MysqlConn: a result stays with the connection until the next query.     *)

\* freeResult, which forgets the row of the result too.
Unfreed == IF results > 0 THEN results - 1 ELSE 0

\* query(): mysql_query or mysql_store_result may fail.
Query ==
    /\ step = "query" /\ row' = NoRow
    /\ \/ results' = Unfreed + 1 /\ Fine /\ Then("next")
       \/ results' = Unfreed /\ Fault /\ Then("free")
    /\ UNCHANGED <<held, found>>

\* next() and value() of every column, which is as long as it has to be.
FetchRow ==
    /\ step = "next"
    /\ row' = IF stored[wanted] > 0 THEN [name |-> wanted, email |-> stored[wanted]] ELSE NoRow
    /\ found' = row'
    /\ Then("free")
    /\ UNCHANGED <<held, results, failed>>

LookupNext ==
    \/ \E n \in People : Insert(n) \/ Begin("findByUsername", n) \/ Begin("findById", n)
    \/ Construct \/ Prepare \/ Execute \/ Fetch \/ Read \/ Return
    \/ Query \/ FetchRow

LookupSpec == LookupInit /\ [][LookupNext]_lookupVars

-----------------------------------------------------------------------------
(* Properties.                                                             *)

\* While the database answers, both lookups find a user who exists, with the
\* whole record, whatever the bytes of its widest column; when it does not,
\* they find nobody, never what an earlier lookup left on the connection.
RecordWhole ==
    doing = "idle" /\ wanted # Nobody =>
        \/ found = [name |-> wanted, email |-> stored[wanted]] /\ stored[wanted] > 0
        \/ found = NoRow /\ (failed \/ stored[wanted] = 0)

\* A connection comes back to the pool with no statement open and no more than
\* the result of its last query, whichever call failed in between.
GivenBackClean ==
    doing = "idle" => held = {} /\ results <= 1
=============================================================================
