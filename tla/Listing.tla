------------------------------ MODULE Listing -------------------------------
(***************************************************************************)
(* The lists of the server: handleListFiles and handleAdminUsers of        *)
(* src/src/main.cpp with FileService::listUserFiles, FileDao::listByUserId *)
(* and UserDao::listAll.  A page is one SELECT with LIMIT and OFFSET, and  *)
(* between two pages of a reader rows come and go.                         *)
(***************************************************************************)
EXTENDS Integers, Sequences, FiniteSets, Functions

CONSTANTS
    MaxRow,        \* bound: rows ever inserted
    Limits,        \* the page sizes readers ask for
    MaxListFaults  \* bound: failed calls of the database

ASSUME ListingAssumption == Limits \subseteq Int

Lists == {"files", "users"}

VARIABLES
    rows,      \* ids of the listed table: the files of a user, or all users
    nextRow,   \* its AUTO_INCREMENT
    reader,    \* who pages through the list, and what he has seen
    removed,   \* history: a row went away while he was reading
    listFaults

listVars == <<rows, nextRow, reader, removed, listFaults>>

NoReader == [list |-> "none", ended |-> TRUE]

ListInit ==
    /\ rows = {} /\ nextRow = 1
    /\ reader = NoReader
    /\ removed = FALSE /\ listFaults = 0

-----------------------------------------------------------------------------
\* Mutant: the newest users come first.
BeforeNewestFirst(list, i) == {j \in rows : j > i}

\* ORDER BY id: the newest file first, the oldest user first.
Before(list, i) == {j \in rows : IF list = "files" THEN j > i ELSE j < i}

Order(list) ==
    [n \in 1..Cardinality(rows) |-> CHOOSE i \in rows : Cardinality(Before(list, i)) = n - 1]

\* LIMIT and OFFSET; MySQL refuses a negative number in either.
Select(list, limit, offset) ==
    IF limit < 0 \/ offset < 0 THEN <<>>
    ELSE LET all == Order(list)
             end == IF offset + limit < Len(all) THEN offset + limit ELSE Len(all)
         IN  SubSeq(all, offset + 1, end)

\* listUserFiles refuses a limit that listAll takes.
Refused(list, limit) == list = "files" /\ (limit <= 0 \/ limit > 100)

Open(list, limit) ==
    /\ reader.ended
    /\ reader' = [list |-> list, limit |-> limit, offset |-> 0, seen |-> <<>>,
                  found |-> rows, ended |-> FALSE, failed |-> FALSE]
    /\ removed' = FALSE
    /\ UNCHANGED <<rows, nextRow, listFaults>>

\* What the reader makes of an answer: he goes on where the page ended, and
\* takes a page that is not full for the last one.
TakePage(page) ==
    reader' = [reader EXCEPT !.seen = @ \o page, !.offset = @ + Len(page),
                             !.ended = Len(page) < reader.limit \/ page = <<>>]

Page ==
    /\ ~reader.ended
    /\ ~Refused(reader.list, reader.limit)
    /\ TakePage(Select(reader.list, reader.limit, reader.offset))
    /\ UNCHANGED <<rows, nextRow, removed, listFaults>>

PageRefused ==
    /\ ~reader.ended
    /\ Refused(reader.list, reader.limit)
    /\ reader' = NoReader
    /\ UNCHANGED <<rows, nextRow, removed, listFaults>>

\* No connection, or the query fails: an empty page, answered with success.
PageEmpty ==
    /\ ~reader.ended /\ ~Refused(reader.list, reader.limit)
    /\ listFaults < MaxListFaults /\ listFaults' = listFaults + 1
    /\ reader' = [reader EXCEPT !.ended = TRUE, !.failed = TRUE]
    /\ UNCHANGED <<rows, nextRow, removed>>

\* Another request uploads a file, or registers a user.
Insert ==
    /\ nextRow <= MaxRow
    /\ rows' = rows \cup {nextRow} /\ nextRow' = nextRow + 1
    /\ UNCHANGED <<reader, removed, listFaults>>

\* A file is deleted; no handler deletes a user.
Delete ==
    /\ reader.list # "users"
    /\ \E i \in rows : rows' = rows \ {i}
    /\ removed' = TRUE
    /\ UNCHANGED <<nextRow, reader, listFaults>>

ListNext ==
    \/ \E list \in Lists, limit \in Limits : Open(list, limit)
    \/ Page \/ PageRefused \/ PageEmpty \/ Insert \/ Delete

ListSpec == ListInit /\ [][ListNext]_listVars

-----------------------------------------------------------------------------
(* Properties.                                                             *)

\* Page after page a reader sees every row that was there when he began,
\* although new ones are inserted in between, unless a row was deleted or the
\* database failed; and the list of users shows nobody twice.
PagesComplete ==
    reader.ended /\ reader # NoReader /\ reader.limit > 0 =>
        /\ removed \/ reader.failed \/ reader.found \subseteq Range(reader.seen)
        /\ reader.list = "users" => IsInjective(reader.seen)
=============================================================================
