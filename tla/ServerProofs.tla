---------------------------- MODULE ServerProofs ----------------------------
(***************************************************************************)
(* What the run server checks around the handlers for a few rows, settings *)
(* and requests, proved for any number of rows, any page sizes and uploads *)
(* of any length.                                                          *)
(***************************************************************************)
EXTENDS FrontEnd, Startup, MultipartForm, Listing, StringFindProofs, FiniteSetTheorems,
        SequenceTheorems, WellFoundedInduction, TLAPS

-----------------------------------------------------------------------------
(* The lists.                                                              *)

Readers == [list : Lists, limit : Int, offset : Nat, seen : Seq(Nat),
            found : SUBSET Nat, ended : BOOLEAN, failed : BOOLEAN]

ListTypeOK ==
    /\ rows \subseteq 1..(nextRow - 1) /\ nextRow \in Nat \ {0}
    /\ reader \in {NoReader} \cup Readers
    /\ removed \in BOOLEAN

\* How many rows come before a row in the order of a list.
Rank(list, i) == Cardinality(Before(list, i))

\* The list of users: what was read is the beginning of the list.
UsersRead ==
    reader # NoReader /\ reader.list = "users" =>
        /\ reader.offset = Len(reader.seen)
        /\ \A n \in 1..Len(reader.seen) :
              reader.seen[n] \in rows /\ Rank("users", reader.seen[n]) = n - 1

\* Any list: of the rows that were there at the beginning, those before the
\* position of the reader were read, and all of them once a page was not full.
FoundRead ==
    reader # NoReader /\ ~removed =>
        /\ reader.found \subseteq rows
        /\ \A i \in reader.found :
              Rank(reader.list, i) < reader.offset => i \in Range(reader.seen)
        /\ reader.ended /\ ~reader.failed /\ reader.limit > 0 =>
              reader.found \subseteq Range(reader.seen)

ListInv == ListTypeOK /\ UsersRead /\ FoundRead

LEMMA RowsFinite ==
    ASSUME ListTypeOK
    PROVE  IsFiniteSet(rows) /\ Cardinality(rows) \in Nat
<1>1. IsFiniteSet(1..(nextRow - 1))
  BY FS_Interval DEF ListTypeOK
<1> QED
  BY <1>1, FS_Subset, FS_CardinalityType DEF ListTypeOK

LEMMA RankType ==
    ASSUME ListTypeOK, NEW list \in Lists, NEW i \in rows
    PROVE  Rank(list, i) \in Nat /\ Rank(list, i) < Cardinality(rows)
<1>1. IsFiniteSet(rows) /\ Cardinality(rows) \in Nat
  BY RowsFinite
<1>2. i \notin Before(list, i) /\ Before(list, i) \in SUBSET rows
  BY DEF Before, ListTypeOK
<1>3. Before(list, i) # rows
  BY <1>2
<1> QED
  BY <1>1, <1>2, <1>3, FS_Subset, FS_CardinalityType DEF Rank

\* No two rows have a rank.
LEMMA RankApart ==
    ASSUME ListTypeOK, NEW list \in Lists, NEW i \in rows, NEW j \in rows,
           Rank(list, i) = Rank(list, j)
    PROVE  i = j
<1>1. ASSUME NEW a \in rows, NEW b \in rows, a \in Before(list, b)
      PROVE  Rank(list, a) # Rank(list, b)
  <2>0. \A r \in rows : r \in Nat
    BY DEF ListTypeOK
  <2>1. Before(list, a) \in SUBSET Before(list, b)
    <3>1. CASE list = "files"
      BY <1>1, <2>0, <3>1 DEF Before
    <3>2. CASE list # "files"
      BY <1>1, <2>0, <3>2 DEF Before
    <3> QED
      BY <3>1, <3>2
  <2>2. a \notin Before(list, a)
    BY DEF Before, ListTypeOK
  <2>3. IsFiniteSet(Before(list, b))
    BY RowsFinite, FS_Subset DEF Before
  <2> QED
    BY <1>1, <2>1, <2>2, <2>3, FS_Subset DEF Rank
<1>2. i # j => i \in Before(list, j) \/ j \in Before(list, i)
  BY DEF Before, ListTypeOK
<1> QED
  BY <1>1, <1>2

\* Order is the list by rank: each place has a row, and each row its place.
LEMMA OrderByRank ==
    ASSUME ListTypeOK, NEW list \in Lists
    PROVE  /\ Order(list) \in [1..Cardinality(rows) -> rows]
           /\ \A n \in 1..Cardinality(rows) : Rank(list, Order(list)[n]) = n - 1
           /\ \A i \in rows : Rank(list, i) + 1 \in 1..Cardinality(rows)
                              /\ Order(list)[Rank(list, i) + 1] = i
<1> DEFINE place == [i \in rows |-> Rank(list, i) + 1]
           N == Cardinality(rows)
<1>1. N \in Nat /\ IsFiniteSet(1..N) /\ Cardinality(1..N) = N
  BY RowsFinite, FS_Interval
<1>2. place \in [rows -> 1..N]
  BY RankType, <1>1
<1>3. ASSUME NEW i \in rows, NEW j \in rows, place[i] = place[j]
      PROVE  i = j
  BY <1>3, RankType, RankApart
<1>4. place \in Injection(rows, 1..N)
  BY <1>2, <1>3 DEF Injection, IsInjective
<1>5. place \in Surjection(rows, 1..N)
  BY <1>1, <1>4, FS_Injection
<1>6. \A n \in 1..N : \E i \in rows : Rank(list, i) + 1 = n
  BY <1>5 DEF Surjection
<1>7. ASSUME NEW n \in 1..N
      PROVE  Order(list)[n] \in rows /\ Rank(list, Order(list)[n]) = n - 1
  <2>1. \E i \in rows : Rank(list, i) = n - 1
    BY <1>1, <1>6, RankType
  <2> QED
    BY <2>1 DEF Order, Rank
<1>8. Order(list) \in [1..N -> rows]
  BY <1>7 DEF Order
<1>9. ASSUME NEW i \in rows
      PROVE  Rank(list, i) + 1 \in 1..N /\ Order(list)[Rank(list, i) + 1] = i
  <2>1. Rank(list, i) + 1 \in 1..N /\ Rank(list, i) \in Nat
    BY <1>1, RankType
  <2>2. Rank(list, Order(list)[Rank(list, i) + 1]) = Rank(list, i)
    BY <1>7, <2>1
  <2> QED
    BY <1>7, <2>1, <2>2, RankApart
<1> QED
  BY <1>7, <1>8, <1>9

\* A page is the rows from the position of the reader on.
LEMMA PageRows ==
    ASSUME ListTypeOK, NEW list \in Lists, NEW limit \in Int, NEW offset \in Nat
    PROVE  LET page == Select(list, limit, offset)
           IN  /\ page \in Seq(rows)
               /\ \A n \in 1..Len(page) : Rank(list, page[n]) = offset + n - 1
               /\ \A i \in rows :
                     offset <= Rank(list, i) /\ Rank(list, i) < offset + Len(page)
                       => i \in Range(page)
               /\ limit > 0 /\ Len(page) < limit =>
                     \A i \in rows : Rank(list, i) < offset + Len(page) \/ Rank(list, i) < offset
<1> DEFINE page == Select(list, limit, offset)
           N == Cardinality(rows)
           end == IF offset + limit < N THEN offset + limit ELSE N
<1>1. N \in Nat
  BY RowsFinite
<1>2. CASE limit < 0
  <2>1. page = <<>>
    BY <1>2 DEF Select
  <2> QED
    BY <1>2, <2>1, RankType
<1>3. CASE limit >= 0
  <2>1. Order(list) \in Seq(rows) /\ Len(Order(list)) = N
    <3> DEFINE row(n) == CHOOSE i \in rows : Cardinality(Before(list, i)) = n - 1
    <3>1. Order(list) = [n \in 1..N |-> row(n)]
      BY DEF Order
    <3> HIDE DEF row
    <3>2. ASSUME NEW n \in 1..N
          PROVE  row(n) \in rows
      <4>1. Order(list)[n] = row(n)
        BY <3>1
      <4> QED
        BY <4>1, OrderByRank, ZenonT(40)
    <3>3. [n \in 1..N |-> row(n)] \in Seq(rows) /\ Len([n \in 1..N |-> row(n)]) = N
      BY <1>1, <3>2
    <3> QED
      BY <3>1, <3>3
  <2>2. page = SubSeq(Order(list), offset + 1, end)
    BY <1>3, <2>1 DEF Select
  <2>3. /\ Len(page) = IF end > offset THEN end - offset ELSE 0
        /\ end \in Nat /\ end <= N
        /\ \A n \in 1..Len(page) : page[n] = Order(list)[offset + n] /\ offset + n \in 1..N
    <3>1. end \in Nat /\ end <= N
      BY <1>1, <1>3
    <3>2. \A n \in (offset + 1)..end : Order(list)[n] \in rows
      BY <1>1, <2>1, <3>1
    <3> HIDE DEF end, page, N
    <3>3. /\ Len(page) = IF offset + 1 <= end THEN end - (offset + 1) + 1 ELSE 0
          /\ \A n \in 1..(end - (offset + 1) + 1) : page[n] = Order(list)[offset + 1 + n - 1]
      BY <2>2, <3>1, <3>2, SubSeqProperties
    <3> QED
      BY <1>1, <3>1, <3>3
  <2>4. page \in Seq(rows)
    <3>1. \A n \in (offset + 1)..end : Order(list)[n] \in rows
      BY <1>1, <2>1, <2>3
    <3> HIDE DEF end, page, N
    <3> QED
      BY <2>2, <2>3, <3>1, SubSeqProperties
  <2>5. \A n \in 1..Len(page) : Rank(list, page[n]) = offset + n - 1
    BY <1>1, <2>3, OrderByRank
  <2>6. ASSUME NEW i \in rows, offset <= Rank(list, i), Rank(list, i) < offset + Len(page)
        PROVE  i \in Range(page)
    <3>1. Rank(list, i) \in Nat /\ Len(page) \in Nat
      BY RankType, <2>3
    <3> DEFINE n == Rank(list, i) + 1 - offset
    <3>2. n \in 1..Len(page) /\ offset + n = Rank(list, i) + 1
      BY <2>6, <3>1
    <3>3. page[n] = i
      <4>1. page[n] = Order(list)[Rank(list, i) + 1]
        BY <2>3, <3>2
      <4> QED
        BY <4>1, OrderByRank, Zenon
    <3> QED
      BY <2>4, <3>2, <3>3 DEF Range
  <2>7. ASSUME limit > 0, Len(page) < limit, NEW i \in rows
        PROVE  Rank(list, i) < offset + Len(page) \/ Rank(list, i) < offset
    BY <1>1, <1>3, <2>3, <2>7, RankType
  <2> QED
    BY <2>4, <2>5, <2>6, <2>7
<1> QED
  BY <1>2, <1>3

\* A new row is the last by its id, so it changes no rank among the users.
LEMMA RankAfterInsert ==
    ASSUME ListTypeOK, Insert, NEW list \in Lists, NEW i \in rows
    PROVE  /\ i \in rows'
           /\ Rank(list, i)' >= Rank(list, i)
           /\ list = "users" => Rank(list, i)' = Rank(list, i)
<1>1. rows' = rows \cup {nextRow} /\ IsFiniteSet(rows')
  BY RowsFinite, FS_AddElement DEF Insert
<1>2. Before(list, i) \in SUBSET Before(list, i)'
  BY <1>1 DEF Before
<1>3. IsFiniteSet(Before(list, i)')
  BY <1>1, FS_Subset DEF Before
<1>4. \A r \in rows : r \in Nat /\ r < nextRow
  BY DEF ListTypeOK
<1>5. list = "users" => Before(list, i)' = Before(list, i)
  <2>1. nextRow \in Nat /\ i \in Nat /\ i < nextRow
    BY <1>4 DEF ListTypeOK
  <2> QED
    BY <1>1, <2>1 DEF Before
<1>6. Rank(list, i) <= Rank(list, i)' /\ Rank(list, i) \in Nat /\ Rank(list, i)' \in Nat
  BY <1>2, <1>3, FS_Subset, FS_CardinalityType DEF Rank
<1>7. list = "users" => Rank(list, i)' = Rank(list, i)
  BY <1>5 DEF Rank
<1> QED
  BY <1>1, <1>6, <1>7

LEMMA ListInitInv == ListInit => ListInv
<1> SUFFICES ASSUME ListInit
             PROVE  ListInv
  OBVIOUS
<1>1. rows = {} /\ nextRow = 1 /\ reader = NoReader /\ removed = FALSE
  BY DEF ListInit
<1>2. ListTypeOK
  <2>1. rows \subseteq 1..(nextRow - 1) /\ nextRow \in Nat \ {0}
    BY <1>1
  <2> QED
    BY <1>1, <2>1 DEF ListTypeOK
<1> QED
  BY <1>1, <1>2 DEF ListInv, UsersRead, FoundRead

LEMMA OpenKeeps ==
    ASSUME ListInv, NEW list \in Lists, NEW limit \in Limits, Open(list, limit)
    PROVE  ListInv'
<1>1. /\ reader' = [list |-> list, limit |-> limit, offset |-> 0, seen |-> <<>>,
                    found |-> rows, ended |-> FALSE, failed |-> FALSE]
      /\ removed' = FALSE /\ rows' = rows /\ nextRow' = nextRow
  BY DEF Open
<1>2. ListTypeOK'
  <2>1. limit \in Int /\ rows \in SUBSET Nat /\ <<>> \in Seq(Nat)
    BY ListingAssumption DEF ListInv, ListTypeOK
  <2>2. reader' \in Readers
    BY <1>1, <2>1 DEF Readers
  <2> QED
    BY <1>1, <2>2 DEF ListInv, ListTypeOK
<1>3. UsersRead'
  <2>1. reader.seen' = <<>> /\ reader.offset' = 0 /\ Len(<<>>) = 0
    BY <1>1
  <2> QED
    BY <2>1 DEF UsersRead
<1>4. FoundRead'
  <2>1. /\ reader.offset' = 0 /\ reader.found' = rows' /\ reader.list' = list
        /\ reader.ended' = FALSE
    BY <1>1
  <2>2. ASSUME NEW i \in rows'
        PROVE  ~(Rank(list, i)' < 0)
    <3>1. Rank(list, i)' = Rank(list, i) /\ i \in rows
      BY <1>1, <2>2 DEF Rank, Before
    <3>2. Rank(list, i) \in Nat
      BY <3>1, RankType DEF ListInv
    <3> QED
      BY <3>1, <3>2
  <2> QED
    BY <2>1, <2>2 DEF FoundRead
<1> QED
  BY <1>2, <1>3, <1>4 DEF ListInv

LEMMA PageKeeps ==
    ASSUME ListInv, Page
    PROVE  ListInv'
<1> DEFINE page == Select(reader.list, reader.limit, reader.offset)
<1>1. /\ reader' = [reader EXCEPT !.seen = @ \o page, !.offset = @ + Len(page),
                                  !.ended = Len(page) < reader.limit \/ page = <<>>]
      /\ UNCHANGED <<rows, nextRow, removed>> /\ ~reader.ended
  BY DEF Page, TakePage
<1>2. /\ reader \in Readers /\ reader # NoReader
      /\ reader.list \in Lists /\ reader.limit \in Int /\ reader.offset \in Nat
      /\ reader.seen \in Seq(Nat) /\ reader.found \in SUBSET Nat
      /\ rows \in SUBSET Nat /\ ListTypeOK
  <2>1. reader # NoReader
    BY <1>1 DEF NoReader
  <2> QED
    BY <2>1 DEF ListInv, ListTypeOK, Readers
<1> HIDE DEF page
<1>3. /\ page \in Seq(rows) /\ Len(page) \in Nat
      /\ \A n \in 1..Len(page) :
            page[n] \in rows /\ Rank(reader.list, page[n]) = reader.offset + n - 1
      /\ \A i \in rows :
            reader.offset <= Rank(reader.list, i) /\ Rank(reader.list, i) < reader.offset + Len(page)
              => i \in Range(page)
      /\ reader.limit > 0 /\ Len(page) < reader.limit =>
            \A i \in rows : \/ Rank(reader.list, i) < reader.offset + Len(page)
                            \/ Rank(reader.list, i) < reader.offset
  BY <1>2, PageRows, LenProperties, ElementOfSeq DEF page
<1>4. page \in Seq(Nat)
  BY <1>2, <1>3, SeqMonotonic
<1>5. /\ reader.seen' = reader.seen \o page /\ reader.offset' = reader.offset + Len(page)
      /\ reader.ended' = (Len(page) < reader.limit \/ page = <<>>)
      /\ reader.list' = reader.list /\ reader.limit' = reader.limit
      /\ reader.found' = reader.found /\ reader.failed' = reader.failed
      /\ reader' \in Readers
  <2>1. reader.seen \o page \in Seq(Nat) /\ reader.offset + Len(page) \in Nat
    BY <1>2, <1>3, <1>4, ConcatProperties
  <2>2. DOMAIN reader = {"list", "limit", "offset", "seen", "found", "ended", "failed"}
    BY <1>2 DEF Readers
  <2>3. /\ reader.seen' = reader.seen \o page /\ reader.offset' = reader.offset + Len(page)
        /\ reader.ended' = (Len(page) < reader.limit \/ page = <<>>)
        /\ reader.list' = reader.list /\ reader.limit' = reader.limit
        /\ reader.found' = reader.found /\ reader.failed' = reader.failed
    BY <1>1, <2>2, Zenon
  <2>4. reader' \in Readers
    <3> DEFINE over == Len(page) < reader.limit \/ page = <<>>
    <3>1. over \in BOOLEAN
      OBVIOUS
    <3>2. reader' = [reader EXCEPT !.seen = @ \o page, !.offset = @ + Len(page), !.ended = over]
      BY <1>1
    <3> HIDE DEF over
    <3> QED
      BY <1>2, <2>1, <3>1, <3>2 DEF Readers
  <2> QED
    BY <2>3, <2>4
<1>6. /\ Len(reader.seen \o page) = Len(reader.seen) + Len(page) /\ Len(reader.seen) \in Nat
      /\ \A n \in 1..(Len(reader.seen) + Len(page)) :
            (reader.seen \o page)[n] =
               IF n <= Len(reader.seen) THEN reader.seen[n] ELSE page[n - Len(reader.seen)]
  BY <1>2, <1>4, ConcatProperties, LenProperties
<1>7. ASSUME NEW i, i \in Range(reader.seen) \/ i \in Range(page)
      PROVE  i \in Range(reader.seen')
  <2>1. CASE i \in Range(reader.seen)
    <3>1. PICK n \in 1..Len(reader.seen) : reader.seen[n] = i
      BY <1>2, <2>1, LenProperties DEF Range
    <3>2. (reader.seen \o page)[n] = i /\ n \in DOMAIN (reader.seen \o page)
      BY <1>2, <1>3, <1>4, <1>6, <3>1, ConcatProperties, LenProperties
    <3> QED
      BY <1>5, <3>2 DEF Range
  <2>2. CASE i \in Range(page)
    <3>1. PICK n \in 1..Len(page) : page[n] = i
      BY <1>3, <2>2, LenProperties DEF Range
    <3> DEFINE m == Len(reader.seen) + n
    <3>2. (reader.seen \o page)[m] = i /\ m \in DOMAIN (reader.seen \o page)
      BY <1>2, <1>3, <1>4, <1>6, <3>1, ConcatProperties, LenProperties
    <3> QED
      BY <1>5, <3>2 DEF Range
  <2> QED
    BY <1>7, <2>1, <2>2
<1>8. \A i \in rows : Rank(reader.list, i)' = Rank(reader.list, i)
  BY <1>1, <1>5 DEF Rank, Before
<1>9. ListTypeOK'
  BY <1>1, <1>5 DEF ListInv, ListTypeOK
<1>10. UsersRead'
  <2> SUFFICES ASSUME reader.list = "users"
               PROVE  /\ reader.offset' = Len(reader.seen)'
                      /\ \A n \in 1..Len(reader.seen)' :
                            (reader.seen[n] \in rows /\ Rank("users", reader.seen[n]) = n - 1)'
    BY <1>5 DEF UsersRead
  <2>1. /\ reader.offset = Len(reader.seen)
        /\ \A n \in 1..Len(reader.seen) :
              reader.seen[n] \in rows /\ Rank("users", reader.seen[n]) = n - 1
    BY <1>2 DEF ListInv, UsersRead
  <2>2. ASSUME NEW n \in 1..Len(reader.seen)'
        PROVE  (reader.seen[n] \in rows /\ Rank("users", reader.seen[n]) = n - 1)'
    <3> DEFINE row == (reader.seen \o page)[n]
    <3>1. n \in 1..(Len(reader.seen) + Len(page)) /\ reader.seen'[n] = row
      BY <1>5, <1>6
    <3>2. row \in rows /\ Rank("users", row) = n - 1
      <4>1. CASE n <= Len(reader.seen)
        BY <1>6, <2>1, <3>1, <4>1
      <4>2. CASE ~(n <= Len(reader.seen))
        <5> DEFINE m == n - Len(reader.seen)
        <5>1. m \in 1..Len(page) /\ row = page[m]
          BY <1>3, <1>6, <3>1, <4>2
        <5>2. page[m] \in rows /\ Rank("users", page[m]) = reader.offset + m - 1
          BY <1>3, <5>1
        <5> QED
          BY <1>6, <2>1, <3>1, <5>1, <5>2
      <4> QED
        BY <4>1, <4>2
    <3>3. Rank("users", reader.seen[n])' = Rank("users", row)
      BY <1>1, <3>1 DEF Rank, Before
    <3> QED
      BY <1>1, <3>1, <3>2, <3>3
  <2> QED
    BY <1>5, <1>6, <2>1, <2>2
<1>11. FoundRead'
  <2> SUFFICES ASSUME ~removed
               PROVE  /\ reader.found \subseteq rows
                      /\ \A i \in reader.found :
                            Rank(reader.list, i) < reader.offset + Len(page) => i \in Range(reader.seen')
                      /\ reader.ended' /\ reader.limit > 0 => reader.found \subseteq Range(reader.seen')
    BY <1>1, <1>2, <1>5, <1>8 DEF FoundRead
  <2>1. /\ reader.found \subseteq rows
        /\ \A i \in reader.found :
              Rank(reader.list, i) < reader.offset => i \in Range(reader.seen)
    BY <1>2 DEF ListInv, FoundRead
  <2>2. ASSUME NEW i \in reader.found, Rank(reader.list, i) < reader.offset + Len(page)
        PROVE  i \in Range(reader.seen')
    <3>1. Rank(reader.list, i) \in Nat
      BY <1>2, <2>1, RankType
    <3> QED
      BY <1>2, <1>3, <1>7, <2>1, <2>2, <3>1
  <2>3. ASSUME reader.ended', reader.limit > 0, NEW i \in reader.found
        PROVE  i \in Range(reader.seen')
    <3>1. Len(page) < reader.limit
      BY <1>2, <1>5, <2>3, EmptySeq
    <3> QED
      BY <1>2, <1>3, <1>7, <2>1, <2>2, <2>3, <3>1
  <2> QED
    BY <2>1, <2>2, <2>3
<1> QED
  BY <1>9, <1>10, <1>11 DEF ListInv

LEMMA InsertKeeps ==
    ASSUME ListInv, Insert
    PROVE  ListInv'
<1>1. /\ rows' = rows \cup {nextRow} /\ nextRow' = nextRow + 1
      /\ reader' = reader /\ removed' = removed
  BY DEF Insert
<1>2. ListTypeOK /\ ListTypeOK'
  BY <1>1 DEF ListInv, ListTypeOK
<1>3. UsersRead'
  <2>1. \A i \in rows : i \in rows' /\ Rank("users", i)' = Rank("users", i)
    BY <1>2, RankAfterInsert DEF Lists
  <2> QED
    BY <1>1, <2>1 DEF ListInv, UsersRead
<1>4. FoundRead'
  <2> SUFFICES ASSUME reader # NoReader, ~removed
               PROVE  FoundRead'
    BY <1>1 DEF FoundRead
  <2>1. reader.list \in Lists /\ reader.offset \in Nat
    BY <1>2 DEF ListTypeOK, Readers
  <2>2. reader.found \subseteq rows /\ reader.found \subseteq rows'
    BY <1>1 DEF ListInv, FoundRead
  <2>3. ASSUME NEW i \in reader.found, Rank(reader.list, i)' < reader.offset
        PROVE  i \in Range(reader.seen)
    <3>1. Rank(reader.list, i)' >= Rank(reader.list, i) /\ Rank(reader.list, i) \in Nat
      <4>1. PICK list \in Lists : list = reader.list
        BY <2>1
      <4>2. Rank(list, i)' >= Rank(list, i) /\ Rank(list, i) \in Nat
        BY <1>2, <2>2, RankAfterInsert, RankType
      <4>3. Rank(reader.list, i)' = Rank(list, i)'
        BY <1>1, <4>1 DEF Rank, Before
      <4> QED
        BY <4>1, <4>2, <4>3
    <3>2. Rank(reader.list, i)' \in Nat
      <4>1. rows' \in SUBSET Nat /\ IsFiniteSet(rows')
        BY <1>1, <1>2, RowsFinite, FS_AddElement DEF ListTypeOK
      <4>2. Before(reader.list, i)' \in SUBSET rows'
        BY <1>1 DEF Before
      <4> QED
        BY <1>1, <4>1, <4>2, FS_Subset, FS_CardinalityType DEF Rank
    <3>3. Rank(reader.list, i) < reader.offset
      BY <2>1, <2>3, <3>1, <3>2
    <3> QED
      BY <3>3 DEF ListInv, FoundRead
  <2> QED
    BY <1>1, <2>2, <2>3 DEF ListInv, FoundRead
<1> QED
  BY <1>2, <1>3, <1>4 DEF ListInv

LEMMA DeleteKeeps ==
    ASSUME ListInv, Delete
    PROVE  ListInv'
<1>1. /\ rows' \subseteq rows /\ nextRow' = nextRow /\ reader' = reader
      /\ removed' = TRUE /\ reader.list # "users"
  BY DEF Delete
<1>2. ListTypeOK'
  BY <1>1 DEF ListInv, ListTypeOK
<1> QED
  BY <1>1, <1>2 DEF ListInv, UsersRead, FoundRead

LEMMA PageRefusedKeeps ==
    ASSUME ListInv, PageRefused
    PROVE  ListInv'
<1>1. UNCHANGED <<rows, nextRow, removed>> /\ reader' = NoReader
  BY DEF PageRefused
<1>2. ListTypeOK'
  BY <1>1 DEF ListInv, ListTypeOK
<1> QED
  BY <1>1, <1>2 DEF ListInv, UsersRead, FoundRead

LEMMA PageEmptyKeeps ==
    ASSUME ListInv, PageEmpty
    PROVE  ListInv'
<1>1. /\ reader' = [reader EXCEPT !.ended = TRUE, !.failed = TRUE]
      /\ UNCHANGED <<rows, nextRow, removed>> /\ ~reader.ended
  BY DEF PageEmpty
<1>2. reader \in Readers /\ reader # NoReader
  <2>1. reader # NoReader
    BY <1>1 DEF NoReader
  <2> QED
    BY <2>1 DEF ListInv, ListTypeOK
<1>3. /\ reader' \in Readers /\ reader.list' = reader.list /\ reader.offset' = reader.offset
      /\ reader.seen' = reader.seen /\ reader.found' = reader.found /\ reader.failed'
  BY <1>1, <1>2 DEF Readers
<1>4. ListTypeOK'
  BY <1>1, <1>3 DEF ListInv, ListTypeOK
<1>5. UsersRead'
  <2>1. ASSUME NEW n \in 1..Len(reader.seen)
        PROVE  Rank("users", reader.seen[n])' = Rank("users", reader.seen[n])
    BY <1>1, <1>3 DEF Rank, Before
  <2> QED
    BY <1>1, <1>2, <1>3, <2>1 DEF ListInv, UsersRead
<1>6. FoundRead'
  <2>1. ASSUME NEW i \in reader.found
        PROVE  Rank(reader.list, i)' = Rank(reader.list, i)
    BY <1>1, <1>3 DEF Rank, Before
  <2> QED
    BY <1>1, <1>2, <1>3, <2>1 DEF ListInv, FoundRead
<1> QED
  BY <1>4, <1>5, <1>6 DEF ListInv

LEMMA ListStutterKeeps ==
    ASSUME ListInv, UNCHANGED listVars
    PROVE  ListInv'
<1>1. UNCHANGED <<rows, nextRow, reader, removed>>
  BY DEF listVars
<1> QED
  BY <1>1 DEF ListInv, ListTypeOK, UsersRead, FoundRead, Rank, Before

LEMMA ListNextInv == ListInv /\ [ListNext]_listVars => ListInv'
<1> SUFFICES ASSUME ListInv, [ListNext]_listVars
             PROVE  ListInv'
  OBVIOUS
<1> QED
  BY OpenKeeps, PageKeeps, InsertKeeps, DeleteKeeps, PageRefusedKeeps, PageEmptyKeeps,
     ListStutterKeeps DEF ListNext

LEMMA ListInvImplies == ListInv => PagesComplete
<1> SUFFICES ASSUME ListInv, reader.ended, reader # NoReader, reader.limit > 0
             PROVE  /\ removed \/ reader.failed \/ reader.found \subseteq Range(reader.seen)
                    /\ reader.list = "users" => IsInjective(reader.seen)
  BY DEF PagesComplete
<1>1. removed \/ reader.failed \/ reader.found \subseteq Range(reader.seen)
  BY DEF ListInv, FoundRead
<1>2. ASSUME reader.list = "users"
      PROVE  IsInjective(reader.seen)
  <2>1. reader.seen \in Seq(Nat)
    BY DEF ListInv, ListTypeOK, Readers
  <2>2. DOMAIN reader.seen = 1..Len(reader.seen) /\ Len(reader.seen) \in Nat
    BY <2>1, LenProperties
  <2>3. \A n \in 1..Len(reader.seen) : Rank("users", reader.seen[n]) = n - 1
    BY <1>2 DEF ListInv, UsersRead
  <2>4. ASSUME NEW m \in 1..Len(reader.seen), NEW n \in 1..Len(reader.seen),
               reader.seen[m] = reader.seen[n]
        PROVE  m = n
    BY <2>2, <2>3, <2>4
  <2> QED
    BY <2>2, <2>4 DEF IsInjective
<1> QED
  BY <1>1, <1>2

\* Whatever is inserted while he reads, however many rows there are and however
\* long his pages: a reader of a list misses no row that was there when he began,
\* unless one was deleted or the database failed, and meets no user twice
\* (FileDao::listByUserId, UserDao::listAll).
THEOREM PagesMissNothing == ListSpec => []PagesComplete
<1>1. ListSpec => []ListInv
  BY ListInitInv, ListNextInv, PTL DEF ListSpec
<1> QED
  BY <1>1, ListInvImplies, PTL

-----------------------------------------------------------------------------
(* The start.                                                              *)

Numeric == {"port", "threads", "min", "max", "capacity"}

\* The places of main() behind the validation.
Validated == {"pool", "cache", "llm", "agent", "storage", "listen", "serve"}

\* Each part is there from the place behind the one that builds it.
StartInv ==
    /\ step \in Validated => Valid /\ \A s \in Numeric : config[s] \in Nat
    /\ step = "validate" => \A s \in Numeric : config[s] \in Nat
    /\ step \in Validated \ {"pool"} => pool = "open"
    /\ step \in Validated \ {"pool", "cache"} => cacheKind \in {"redis", "lru"}
    /\ step \in Validated \ {"pool", "cache", "llm"} => llm \in {"empty", "model"}
    /\ agent => llm = "model" /\ step \notin {"load", "validate", "pool", "cache", "llm"}
    /\ fdfs => config.storage = "fastdfs" /\ step \notin {"load", "validate"}

\* A number is read from a file as a number, or is the one of Config.h.
LEMMA ReadNumbers ==
    ASSUME NEW file \in Settings, NEW s \in Numeric
    PROVE  Read(file)[s] \in Nat
<1>1. file[s] \in Given(s) /\ s \in DOMAIN Default
  BY DEF Settings, Numeric, Default
<1>2. Offered[s] \subseteq Nat
  BY StartupAssumption DEF Numeric
<1>3. Default[s] \in Nat
  <2>1. /\ Default.port = 10086 /\ Default.threads = 4 /\ Default.min = 4
        /\ Default.max = 20 /\ Default.capacity = 10000
    BY DEF Default
  <2> QED
    BY <2>1 DEF Numeric
<1>4. file[s] # {} => (CHOOSE v \in file[s] : TRUE) \in Nat
  BY <1>1, <1>2 DEF Given
<1> QED
  BY <1>1, <1>3, <1>4 DEF Read

LEMMA StartStep ==
    ASSUME StartInv, [StartNext]_startVars
    PROVE  StartInv'
<1> USE DEF StartInv, Validated
<1>1. CASE LoadFails
  BY <1>1 DEF LoadFails, parts
<1>2. CASE Load
  <2>1. PICK file \in Settings : config' = Read(file)
    BY <1>2 DEF Load
  <2>2. \A s \in Numeric : config'[s] \in Nat
    BY <2>1, ReadNumbers
  <2> QED
    BY <1>2, <2>2 DEF Load, parts
<1>3. CASE Validate
  <2>1. /\ step = "validate" /\ step' = IF Valid THEN "pool" ELSE "exit 1"
        /\ UNCHANGED <<config, pool, cacheKind, llm, agent, fdfs>>
    BY <1>3 DEF Validate, parts
  <2>2. Valid' = Valid
    BY <2>1 DEF Valid, CapacityValid
  <2>3. \A s \in Numeric : config[s] \in Nat
    BY <2>1
  <2>4. ~agent /\ ~fdfs
    BY <2>1
  <2>5. CASE Valid
    BY <2>1, <2>2, <2>3, <2>4, <2>5
  <2>6. CASE ~Valid
    BY <2>1, <2>4, <2>6
  <2> QED
    BY <2>5, <2>6
<1>4. CASE InitPool
  BY <1>4 DEF InitPool, Valid, CapacityValid
<1>5. CASE InitCache
  BY <1>5 DEF InitCache, Valid, CapacityValid
<1>6. CASE InitLlm
  BY <1>6 DEF InitLlm, Valid, CapacityValid
<1>7. CASE InitAgent
  BY <1>7 DEF InitAgent, Valid, CapacityValid
<1>8. CASE InitStorage
  BY <1>8 DEF InitStorage, Valid, CapacityValid
<1>9. CASE Listen
  BY <1>9 DEF Listen, parts, Valid, CapacityValid
<1>10. CASE Stop
  BY <1>10 DEF Stop, parts, Valid, CapacityValid
<1>11. CASE UNCHANGED startVars
  BY <1>11 DEF startVars, parts, Valid, CapacityValid
<1> QED
  BY <1>1, <1>2, <1>3, <1>4, <1>5, <1>6, <1>7, <1>8, <1>9, <1>10, <1>11 DEF StartNext

LEMMA StartInvImplies == StartInv => ServesWhole
<1> SUFFICES ASSUME StartInv, step = "serve"
             PROVE  ServesWhole
  BY DEF ServesWhole
<1>1. /\ Valid /\ config.min \in Nat /\ config.max \in Nat /\ config.capacity \in Nat
      /\ pool = "open" /\ cacheKind \in {"redis", "lru"} /\ llm \in {"empty", "model"}
      /\ agent => llm = "model"
      /\ fdfs => config.storage = "fastdfs"
  BY DEF StartInv, Validated, Numeric
<1>2. config.min # 0 /\ config.min <= config.max /\ config.capacity # 0
  BY <1>1 DEF Valid, CapacityValid
<1>3. 0 < config.min /\ config.capacity > 0
  BY <1>1, <1>2
<1>4. cacheKind # "none" /\ llm # "none"
  BY <1>1
<1> QED
  BY <1>1, <1>2, <1>3, <1>4 DEF ServesWhole

\* Whatever numbers and names a configuration file gives or leaves out, and
\* whatever does not answer during the start: a server that serves has all the
\* parts its handlers use without asking (main, AppConfig::validate).
THEOREM StartsWhole == StartSpec => []ServesWhole
<1>1. StartInit => StartInv
  BY DEF StartInit, StartInv, Validated
<1>2. StartInv /\ [StartNext]_startVars => StartInv'
  BY StartStep
<1>3. StartSpec => []StartInv
  BY <1>1, <1>2, PTL DEF StartSpec
<1> QED
  BY <1>3, StartInvImplies, PTL

-----------------------------------------------------------------------------
(* The parser of uploads.                                                  *)

\* What a body is made of.
Atoms == {Delim, Dash, CrLf, Named, Quote, "a", "field", "name"}

LEMMA Apart ==
    /\ Delim # Dash /\ Delim # CrLf /\ Dash # CrLf
    /\ Named # CrLf /\ Named # Delim /\ Quote # CrLf /\ Quote # Delim
    /\ "name" # CrLf /\ "name" # Delim /\ "name" # Quote
    /\ "field" # CrLf /\ "field" # Delim /\ "field" # Named
  BY Zenon DEF Delim, Dash, CrLf, Named, Quote

LEMMA InAtoms ==
    /\ Delim \in Atoms /\ Dash \in Atoms /\ CrLf \in Atoms /\ Named \in Atoms /\ Quote \in Atoms
    /\ "a" \in Atoms /\ "field" \in Atoms /\ "name" \in Atoms
  BY Zenon DEF Atoms

\* In a header stands neither a line break nor a delimiter; in the content of
\* a part a delimiter does not begin a line.
Plain(h) == \A i \in 1..Len(h) : h[i] # CrLf /\ h[i] # Delim

Clean(c) == \A i \in 1..Len(c) : c[i] = Delim => i > 1 /\ c[i - 1] # CrLf

\* A part of a text: its delimiter stands at d, the next one behind it.
Laid(data, d, h, c) ==
    /\ data[d] = Delim /\ data[d + 1] = CrLf
    /\ \A i \in 1..Len(h) : data[d + 1 + i] = h[i]
    /\ data[d + Len(h) + 2] = CrLf /\ data[d + Len(h) + 3] = CrLf
    /\ \A i \in 1..Len(c) : data[d + Len(h) + 3 + i] = c[i]
    /\ data[d + Len(h) + Len(c) + 4] = CrLf /\ data[d + Len(h) + Len(c) + 5] = Delim
    /\ d + Len(h) + Len(c) + 6 <= Len(data)

\* The parser looks for a delimiter from the beginning, or from the line break
\* in front of it.
At(data, p, d) ==
    /\ d \in Nat \ {0} /\ d + 1 <= Len(data) /\ data[d] = Delim
    /\ p = d \/ (p = d - 1 /\ p > 0 /\ data[p] # Delim)

LEMMA DelimFound ==
    ASSUME body \in Seq(Atoms), NEW d, At(body, pos, d)
    PROVE  Find(<<Delim>>, pos) = d
<1>1. PICK p, b, x : p = pos /\ b = body /\ x = Delim
  OBVIOUS
<1>2. /\ b \in Seq(Atoms) /\ x \in Atoms /\ Len(b) \in Nat
      /\ d \in Nat \ {0} /\ d + 1 <= Len(b) /\ b[d] = x
      /\ p = d \/ (p = d - 1 /\ p > 0 /\ b[p] # x)
  BY <1>1, InAtoms DEF At
<1>3. p \in Nat \ {0} /\ d >= p /\ d <= Len(b)
  BY <1>2
<1>4. FirstOne(b, x, p, d)
  BY <1>2, <1>3 DEF FirstOne
<1>5. FindIn(b, <<x>>, p) = d
  BY <1>2, <1>3, <1>4, FindOne
<1> QED
  BY <1>1, <1>5 DEF Find

\* The next part is found.
LEMMA StartFound ==
    ASSUME body \in Seq(Atoms), NEW d, At(body, pos, d), body[d + 1] = CrLf
    PROVE  PartStart = d + 2
<1>1. Find(<<Delim>>, pos) = d
  BY DelimFound
<1>2. PICK p, b, x, y, z : p = pos /\ b = body /\ x = Delim /\ y = Dash /\ z = CrLf
  OBVIOUS
<1>3. /\ b \in Seq(Atoms) /\ x \in Atoms /\ y \in Atoms /\ z \in Atoms /\ Len(b) \in Nat
      /\ d \in Nat \ {0} /\ d + 1 <= Len(b) /\ b[d] = x /\ b[d + 1] = z
      /\ p \in Nat \ {0} /\ x # z /\ y # z
  BY <1>2, InAtoms, Apart DEF At
<1>4. FindIn(b, <<z>>, d) = d + 1
  <2>1. FirstOne(b, z, d, d + 1)
    BY <1>3 DEF FirstOne
  <2> QED
    BY <1>3, <2>1, FindOne
<1>5. FindIn(b, <<x, y>>, p) # d
  BY <1>3, FoundTwo
<1>6. Find(<<CrLf>>, d) = d + 1 /\ Find(<<Delim, Dash>>, pos) # d
  BY <1>2, <1>4, <1>5 DEF Find
<1> QED
  BY <1>1, <1>3, <1>6 DEF PartStart

\* The last delimiter begins no part.
LEMMA NoStart ==
    ASSUME body \in Seq(Atoms), NEW d, At(body, pos, d), body[d + 1] = Dash
    PROVE  PartStart = 0
<1>1. Find(<<Delim>>, pos) = d
  BY DelimFound
<1>2. PICK p, b, x, y : p = pos /\ b = body /\ x = Delim /\ y = Dash
  OBVIOUS
<1>3. /\ b \in Seq(Atoms) /\ x \in Atoms /\ y \in Atoms /\ Len(b) \in Nat
      /\ d \in Nat \ {0} /\ d + 1 <= Len(b) /\ b[d] = x /\ b[d + 1] = y
      /\ p = d \/ (p = d - 1 /\ p > 0 /\ b[p] # x)
  BY <1>2, InAtoms DEF At
<1>4. p \in Nat \ {0} /\ FirstTwo(b, x, y, p, d)
  BY <1>3 DEF FirstTwo
<1>5. FindIn(b, <<x, y>>, p) = d
  BY <1>3, <1>4, FindTwo
<1>6. Find(<<Delim, Dash>>, pos) = d
  BY <1>2, <1>5 DEF Find
<1> QED
  BY <1>1, <1>6 DEF PartStart

\* It ends before the line break in front of the next delimiter.
LEMMA EndFound ==
    ASSUME body \in Seq(Atoms), NEW d \in Nat \ {0}, NEW h \in Seq(Atoms), NEW c \in Seq(Atoms),
           Laid(body, d, h, c), Plain(h), Clean(c)
    PROVE  PartEnd(d + 2) = d + Len(h) + Len(c) + 4
<1>1. PICK b, x, z, m, n : b = body /\ x = Delim /\ z = CrLf /\ m = Len(h) /\ n = Len(c)
  OBVIOUS
<1>2. PICK e : e = d + m + n + 4
  OBVIOUS
<1>3. /\ b \in Seq(Atoms) /\ x \in Atoms /\ z \in Atoms /\ Len(b) \in Nat /\ m \in Nat /\ n \in Nat
      /\ e \in Nat /\ e >= d + 2 /\ d + 2 \in Nat \ {0} /\ x # z
  BY <1>1, <1>2, InAtoms, Apart
<1>4. /\ \A i \in 1..m : b[d + 1 + i] = h[i]
      /\ b[d + m + 2] = z /\ b[d + m + 3] = z
      /\ \A i \in 1..n : b[d + m + 3 + i] = c[i]
      /\ b[d + m + n + 4] = z /\ b[d + m + n + 5] = x
      /\ d + m + n + 6 <= Len(b)
  BY <1>1 DEF Laid
<1>5. ASSUME NEW i \in (d + 2)..(e - 1)
      PROVE  b[i] # z \/ b[i + 1] # x
  <2>1. CASE i < d + m + 2
    <3>1. PICK j : j = i - d - 1
      OBVIOUS
    <3>2. j \in 1..m /\ i = d + 1 + j
      BY <1>2, <1>3, <2>1, <3>1
    <3>3. h[j] # z
      BY <1>1, <3>2 DEF Plain
    <3> QED
      BY <1>4, <3>2, <3>3
  <2>2. CASE i = d + m + 2
    <3>1. i + 1 = d + m + 3
      BY <1>3, <2>2
    <3> QED
      BY <1>3, <1>4, <3>1
  <2>3. CASE i >= d + m + 3
    <3>1. PICK j : j = i - d - m - 2
      OBVIOUS
    <3>2. j \in 1..(n + 1) /\ i + 1 = d + m + 3 + j
      BY <1>2, <1>3, <2>3, <3>1
    <3>3. CASE j = n + 1
      <4>1. i + 1 = d + m + n + 4
        BY <1>3, <3>2, <3>3
      <4> QED
        BY <1>3, <1>4, <4>1
    <3>4. CASE j \in 1..n
      <4>1. b[i + 1] = c[j]
        BY <1>4, <3>2, <3>4
      <4>2. c[j] = x => j > 1 /\ c[j - 1] # z
        BY <1>1, <3>4 DEF Clean
      <4>3. ASSUME j > 1
            PROVE  b[i] = c[j - 1]
        <5>1. j - 1 \in 1..n /\ i = d + m + 3 + (j - 1)
          BY <1>3, <3>2, <3>4, <4>3
        <5> QED
          BY <1>4, <5>1
      <4> QED
        BY <4>1, <4>2, <4>3
    <3> QED
      BY <1>3, <3>2, <3>3, <3>4
  <2> QED
    BY <1>3, <2>1, <2>2, <2>3
<1>6. FindIn(b, <<z, x>>, d + 2) = e
  <2>1. e + 1 <= Len(b) /\ b[e] = z /\ b[e + 1] = x
    <3>1. e + 1 = d + m + n + 5
      BY <1>2, <1>3
    <3> QED
      BY <1>2, <1>3, <1>4, <3>1
  <2>2. PICK f : f = d + 2
    OBVIOUS
  <2>3. \A i \in f..(e - 1) : b[i] # z \/ b[i + 1] # x
    BY <1>5, <2>2
  <2>4. f \in Nat \ {0} /\ FirstTwo(b, z, x, f, e)
    BY <1>3, <2>1, <2>2, <2>3 DEF FirstTwo
  <2>5. FindIn(b, <<z, x>>, f) = e
    BY <1>3, <2>4, FindTwo
  <2> QED
    BY <2>2, <2>5
<1>7. Find(<<CrLf, Delim>>, d + 2) = e /\ e # 0
  BY <1>1, <1>3, <1>6 DEF Find
<1> QED
  BY <1>1, <1>2, <1>7 DEF PartEnd

\* What the parser cuts out: the header, the empty line and the content.
PartIs(part, h, c) ==
    /\ part \in Seq(Atoms) /\ Len(part) = Len(h) + Len(c) + 2
    /\ \A i \in 1..Len(h) : part[i] = h[i]
    /\ part[Len(h) + 1] = CrLf /\ part[Len(h) + 2] = CrLf
    /\ \A i \in 1..Len(c) : part[Len(h) + 2 + i] = c[i]

LEMMA PartCut ==
    ASSUME NEW data \in Seq(Atoms), NEW d \in Nat \ {0}, NEW h \in Seq(Atoms), NEW c \in Seq(Atoms),
           Laid(data, d, h, c), NEW f, f = d + 2, NEW l, l = d + Len(h) + Len(c) + 3
    PROVE  PartIs(SubSeq(data, f, l), h, c)
<1>1. PICK z, m, n : z = CrLf /\ m = Len(h) /\ n = Len(c)
  OBVIOUS
<1>2. m \in Nat /\ n \in Nat /\ Len(data) \in Nat
  BY <1>1
<1>3. /\ \A i \in 1..m : data[d + 1 + i] = h[i]
      /\ data[d + m + 2] = z /\ data[d + m + 3] = z
      /\ \A i \in 1..n : data[d + m + 3 + i] = c[i]
      /\ d + m + n + 6 <= Len(data)
  BY <1>1 DEF Laid
<1>4. PICK k, part : k = m + n + 2 /\ part = SubSeq(data, f, l)
  OBVIOUS
<1>5. /\ part \in Seq(Atoms) /\ Len(part) = k
      /\ \A j \in 1..k : part[j] = data[f + j - 1]
  <2>1. f \in Nat \ {0} /\ k \in Nat /\ l = f + k - 1 /\ l <= Len(data)
    BY <1>1, <1>2, <1>3, <1>4
  <2>2. SubSeq(data, f, l) \in Seq(Atoms) /\ IsCut(SubSeq(data, f, l), data, f, k)
    BY <2>1, CutOut
  <2> QED
    BY <1>4, <2>2 DEF IsCut
<1>6. /\ \A i \in 1..m : part[i] = h[i]
      /\ part[m + 1] = z /\ part[m + 2] = z
      /\ \A i \in 1..n : part[m + 2 + i] = c[i]
  <2>1. \A i \in 1..m : i \in 1..k /\ f + i - 1 = d + 1 + i
    BY <1>2, <1>4
  <2>2. m + 1 \in 1..k /\ m + 2 \in 1..k /\ f + (m + 1) - 1 = d + m + 2 /\ f + (m + 2) - 1 = d + m + 3
    BY <1>2, <1>4
  <2>3. \A i \in 1..n : m + 2 + i \in 1..k /\ f + (m + 2 + i) - 1 = d + m + 3 + i
    BY <1>2, <1>4
  <2>4. ASSUME NEW i \in 1..m
        PROVE  part[i] = h[i]
    <3>1. part[i] = data[f + i - 1]
      BY <1>5, <2>1
    <3>2. data[d + 1 + i] = h[i]
      BY <1>3
    <3> QED
      BY <2>1, <3>1, <3>2
  <2>5. part[m + 1] = z /\ part[m + 2] = z
    BY <1>3, <1>5, <2>2, SMTT(30)
  <2>6. ASSUME NEW i \in 1..n
        PROVE  part[m + 2 + i] = c[i]
    <3>1. part[m + 2 + i] = data[f + (m + 2 + i) - 1]
      BY <1>5, <2>3
    <3>2. data[d + m + 3 + i] = c[i]
      BY <1>3
    <3> QED
      BY <2>3, <3>1, <3>2
  <2> QED
    BY <2>4, <2>5, <2>6
<1> QED
  BY <1>1, <1>4, <1>5, <1>6 DEF PartIs

\* And what it finds in that.
Splits(part, h, c) ==
    /\ FindIn(part, <<CrLf, CrLf>>, 1) = Len(h) + 1
    /\ SubSeq(part, 1, Len(h)) = h
    /\ SubSeq(part, Len(h) + 3, Len(part)) = c

LEMMA PartRead ==
    ASSUME NEW h \in Seq(Atoms), NEW c \in Seq(Atoms), Plain(h), NEW part, PartIs(part, h, c)
    PROVE  Splits(part, h, c)
<1>1. PICK z, m, n : z = CrLf /\ m = Len(h) /\ n = Len(c)
  OBVIOUS
<1>2. z \in Atoms /\ m \in Nat /\ n \in Nat
  BY <1>1, InAtoms
<1>3. /\ part \in Seq(Atoms) /\ Len(part) = m + n + 2
      /\ \A i \in 1..m : part[i] = h[i]
      /\ part[m + 1] = z /\ part[m + 2] = z
      /\ \A i \in 1..n : part[m + 2 + i] = c[i]
  BY <1>1 DEF PartIs
<1>4. FindIn(part, <<z, z>>, 1) = m + 1
  <2>1. \A i \in 1..m : part[i] # z
    BY <1>1, <1>3 DEF Plain
  <2>2. PICK g, o : g = m + 1 /\ o = 1
    OBVIOUS
  <2>3. g \in Nat /\ g >= 1 /\ g + 1 = m + 2 /\ g + 1 <= Len(part) /\ g - 1 = m
    BY <1>2, <1>3, <2>2
  <2>4. part[g] = z /\ part[g + 1] = z
    BY <1>3, <2>2, <2>3
  <2>5. \A i \in o..(g - 1) : part[i] # z \/ part[i + 1] # z
    BY <2>1, <2>2, <2>3
  <2>6. o \in Nat \ {0} /\ FirstTwo(part, z, z, o, g)
    BY <2>2, <2>3, <2>4, <2>5 DEF FirstTwo
  <2>7. FindIn(part, <<z, z>>, o) = g
    BY <1>2, <1>3, <2>6, FindTwo
  <2> QED
    BY <2>2, <2>7
<1>5. SubSeq(part, 1, m) = h
  <2>1. PICK o : o = 1
    OBVIOUS
  <2>2. m = o + Len(h) - 1 /\ m <= Len(part) /\ o \in Nat \ {0}
    BY <1>1, <1>2, <1>3, <2>1
  <2>3. \A i \in 1..Len(h) : part[o + i - 1] = h[i]
    <3>1. \A i \in 1..m : o + i - 1 = i
      BY <1>2, <2>1
    <3> QED
      BY <1>1, <1>3, <3>1
  <2>4. SubSeq(part, o, m) = h
    BY <1>3, <2>2, <2>3, CutIs
  <2> QED
    BY <2>1, <2>4
<1>6. SubSeq(part, m + 3, m + n + 2) = c
  <2>1. PICK f, l : f = m + 3 /\ l = m + n + 2
    OBVIOUS
  <2>2. l = f + Len(c) - 1 /\ l <= Len(part) /\ f \in Nat \ {0}
    BY <1>1, <1>2, <1>3, <2>1
  <2>3. \A i \in 1..Len(c) : part[f + i - 1] = c[i]
    <3>1. \A i \in 1..n : f + i - 1 = m + 2 + i
      BY <1>2, <2>1
    <3> QED
      BY <1>1, <1>3, <3>1
  <2>4. SubSeq(part, f, l) = c
    BY <1>3, <2>2, <2>3, CutIs
  <2> QED
    BY <2>1, <2>4
<1> QED
  BY <1>1, <1>3, <1>4, <1>5, <1>6 DEF Splits

\* A part as a client makes it.
Part(p) == /\ p.filename \in {<<>>, <<"name">>}
           /\ p.content \in Seq(Atoms) /\ Clean(p.content)

\* The header of a part, and the name that is read from it.
LEMMA HeaderRead ==
    ASSUME NEW p, Part(p)
    PROVE  /\ Header(p) \in Seq(Atoms) /\ Plain(Header(p))
           /\ FileName(Header(p)) = p.filename
<1>1. PICK h, x, q : h = Header(p) /\ x = Named /\ q = Quote
  OBVIOUS
<1>2. x \in Atoms /\ q \in Atoms
  BY <1>1, InAtoms
<1>3. CASE p.filename = <<>>
  <2>1. h = <<"field">>
    BY <1>1, <1>3 DEF Header
  <2>2. PICK w : w = "field"
    OBVIOUS
  <2>3. w \in Atoms /\ w # CrLf /\ w # Delim /\ w # x
    BY <1>1, <2>2, InAtoms, Apart
  <2>4. h = <<w>>
    BY <2>1, <2>2
  <2>5. h \in Seq(Atoms) /\ Len(h) = 1 /\ h[1] = w
    BY <2>3, <2>4
  <2>6. \A i \in 1..Len(h) : h[i] = w
    BY <2>5
  <2>7. FindIn(h, <<x>>, 1) = 0
    BY <1>2, <2>3, <2>5, <2>6, FindNone
  <2>8. FileName(h) = <<>>
    BY <1>1, <2>7 DEF FileName
  <2> QED
    BY <1>1, <1>3, <2>3, <2>5, <2>6, <2>8 DEF Plain
<1>4. CASE p.filename = <<"name">>
  <2>1. PICK w : w = "name"
    OBVIOUS
  <2>2. w \in Atoms /\ w # CrLf /\ w # Delim /\ w # q
    BY <1>1, <2>1, InAtoms, Apart
  <2>3. p.filename # <<>>
    BY <1>4
  <2>4. h = <<x>> \o <<w>> \o <<q>>
    BY <1>1, <1>4, <2>1, <2>3 DEF Header
  <2>5. PICK a, b : a = <<x>> /\ b = With(a, w)
    OBVIOUS
  <2>6. h \in Seq(Atoms) /\ Len(h) = 3 /\ h[1] = x /\ h[2] = w /\ h[3] = q
    <3>1. a \in Seq(Atoms) /\ Len(a) = 1 /\ a[1] = x
      BY <1>2, <2>5
    <3>2. /\ With(a, w) \in Seq(Atoms) /\ Len(With(a, w)) = Len(a) + 1
          /\ \A i \in 1..Len(a) : With(a, w)[i] = a[i]
          /\ With(a, w)[Len(a) + 1] = w
      BY <2>2, <3>1, WithParts, ZenonT(40)
    <3>3. b \in Seq(Atoms) /\ Len(b) = 2 /\ b[1] = x /\ b[2] = w
      BY <2>5, <3>1, <3>2
    <3>4. /\ With(b, q) \in Seq(Atoms) /\ Len(With(b, q)) = Len(b) + 1
          /\ \A i \in 1..Len(b) : With(b, q)[i] = b[i]
          /\ With(b, q)[Len(b) + 1] = q
      BY <1>2, <3>3, WithParts, ZenonT(40)
    <3>5. h = With(b, q)
      BY <2>4, <2>5 DEF With
    <3> QED
      BY <3>3, <3>4, <3>5
  <2>7. \A i \in 1..Len(h) : h[i] # CrLf /\ h[i] # Delim
    <3>1. x # CrLf /\ x # Delim /\ q # CrLf /\ q # Delim
      BY <1>1, Apart
    <3>2. \A i \in 1..3 : i = 1 \/ i = 2 \/ i = 3
      OBVIOUS
    <3> QED
      BY <2>2, <2>6, <3>1, <3>2
  <2>8. FindIn(h, <<x>>, 1) = 1
    <3>1. FirstOne(h, x, 1, 1)
      BY <2>6 DEF FirstOne
    <3> QED
      BY <1>2, <2>6, <3>1, FindOne
  <2>9. FindIn(h, <<q>>, 2) = 3
    <3>1. FirstOne(h, q, 2, 3)
      BY <2>2, <2>6 DEF FirstOne
    <3> QED
      BY <1>2, <2>6, <3>1, FindOne
  <2>10. FileName(h) = SubSeq(h, 2, 2)
    <3>1. 1 + 1 = 2 /\ 3 - 1 = 2 /\ 1 # 0 /\ 3 # 0
      OBVIOUS
    <3> QED
      BY <1>1, <2>8, <2>9, <3>1 DEF FileName
  <2>11. SubSeq(h, 2, 2) = <<w>>
    <3>1. PICK s : s = <<w>>
      OBVIOUS
    <3>2. s \in Seq(Atoms) /\ Len(s) = 1 /\ s[1] = w
      BY <2>2, <3>1
    <3>3. /\ 2 \in Nat \ {0} /\ 2 = 2 + Len(s) - 1 /\ 2 <= Len(h)
          /\ \A i \in 1..Len(s) : h[2 + i - 1] = s[i]
      BY <2>6, <3>2
    <3>4. SubSeq(h, 2, 2) = s
      BY <2>6, <3>2, <3>3, CutIs
    <3> QED
      BY <3>1, <3>4
  <2> QED
    BY <1>1, <1>4, <2>1, <2>6, <2>7, <2>10, <2>11 DEF Plain
<1> QED
  BY <1>3, <1>4 DEF Part

\* A line break at the end of a content is all it may lose.
LEMMA StrippedRight ==
    ASSUME NEW c \in Seq(Atoms)
    PROVE  /\ Stripped(c) \in Seq(Atoms)
           /\ Stripped(c) = c \/ c = Append(Stripped(c), CrLf)
<1>1. CASE c # <<>> /\ Last(c) = CrLf
  <2>1. PICK n, f : n = Len(c) /\ f = SubSeq(c, 1, n - 1)
    OBVIOUS
  <2>2. n \in Nat /\ n > 0 /\ \A i \in 1..n : c[i] \in Atoms
    BY <1>1, <2>1, EmptySeq
  <2>3. Stripped(c) = f /\ c[n] = CrLf
    BY <1>1, <2>1 DEF Stripped, Last, Front
  <2>4. f \in Seq(Atoms) /\ Len(f) = n - 1 /\ \A i \in 1..(n - 1) : f[i] = c[i]
    <3>1. PICK l : l = n - 1
      OBVIOUS
    <3>2. l \in Nat /\ \A i \in 1..l : c[i] \in Atoms
      BY <2>2, <3>1
    <3>3. /\ f \in Seq(Atoms) /\ Len(f) = (IF 1 <= l THEN l - 1 + 1 ELSE 0)
          /\ \A i \in 1..(l - 1 + 1) : f[i] = c[1 + i - 1]
      BY <2>1, <3>1, <3>2, SubSeqProperties
    <3>4. Len(f) = l /\ \A i \in 1..l : f[i] = c[i]
      BY <3>2, <3>3
    <3> QED
      BY <3>1, <3>3, <3>4
  <2>5. PICK g, z : g = Append(f, z) /\ z = CrLf
    OBVIOUS
  <2>6. /\ g \in Seq(Atoms) /\ Len(g) = n /\ g[n] = z
        /\ \A i \in 1..(n - 1) : g[i] = f[i]
    <3>1. z \in Atoms
      BY <2>5, InAtoms
    <3>2. /\ Append(f, z) \in Seq(Atoms) /\ Len(Append(f, z)) = Len(f) + 1
          /\ \A i \in 1..Len(f) : Append(f, z)[i] = f[i]
          /\ Append(f, z)[Len(f) + 1] = z
      BY <2>4, <3>1, AppendProperties
    <3>3. Len(f) + 1 = n
      BY <2>2, <2>4
    <3> QED
      BY <2>4, <2>5, <3>2, <3>3
  <2>7. \A i \in 1..n : g[i] = c[i]
    <3>1. \A i \in 1..n : i = n \/ i \in 1..(n - 1)
      BY <2>2
    <3> QED
      BY <2>3, <2>4, <2>5, <2>6, <3>1
  <2>8. g = c
    BY <2>1, <2>6, <2>7, SeqEqual
  <2> QED
    BY <2>3, <2>4, <2>5, <2>8
<1>2. CASE ~(c # <<>> /\ Last(c) = CrLf)
  BY <1>2 DEF Stripped
<1> QED
  BY <1>1, <1>2

LEMMA ContentClean ==
    ASSUME NEW n \in Nat, NEW c \in ContentsOf(n)
    PROVE  c \in Seq(Atoms) /\ Clean(c)
<1>1. PICK S, x, z : S = {"a", CrLf, Dash, Delim} /\ x = Delim /\ z = CrLf
  OBVIOUS
<1>2. S \subseteq Atoms
  BY <1>1, InAtoms, Zenon
<1>3. c \in BoundedSeq(S, n) /\ \A i \in DOMAIN c : c[i] = x => i > 1 /\ c[i - 1] # z
  BY <1>1, Zenon DEF ContentsOf
<1>4. PICK m \in 0..n : c \in [1..m -> S]
  BY <1>3 DEF BoundedSeq, SeqOf
<1>5. m \in Nat /\ DOMAIN c = 1..m
  BY <1>4
<1>6. c \in Seq(S) /\ Len(c) = m
  BY <1>4, <1>5
<1>7. c \in Seq(Atoms)
  BY <1>2, <1>6
<1>8. \A i \in 1..Len(c) : c[i] = x => i > 1 /\ c[i - 1] # z
  BY <1>3, <1>5, <1>6
<1> QED
  BY <1>1, <1>7, <1>8 DEF Clean

\* A form has one part or two.
LEMMA FormParts ==
    ASSUME NEW f \in Forms
    PROVE  /\ Len(f) = 1 \/ Len(f) = 2
           /\ DOMAIN f = 1..Len(f)
           /\ \A i \in 1..Len(f) : Part(f[i])
<1>1. MaxContent \in Nat /\ 1 \in Nat
  BY FormAssumption
<1>2. Part(Field)
  <2>1. PICK w, c : w = "a" /\ c = <<w>>
    OBVIOUS
  <2>2. w \in Atoms /\ w # Delim
    BY <2>1, InAtoms, Zenon DEF Delim
  <2>3. c \in Seq(Atoms) /\ Len(c) = 1 /\ c[1] = w
    BY <2>1, <2>2
  <2>4. Clean(c)
    BY <2>2, <2>3 DEF Clean
  <2>5. Field.filename = <<>> /\ Field.content = c
    BY <2>1 DEF Field
  <2> QED
    BY <2>3, <2>4, <2>5 DEF Part
<1>3. ASSUME NEW n \in Nat, NEW c \in ContentsOf(n)
      PROVE  Part([filename |-> <<"name">>, content |-> c])
  BY ContentClean DEF Part
<1>4. CASE \E c \in ContentsOf(MaxContent) : f = <<[filename |-> <<"name">>, content |-> c]>>
  <2>1. PICK c \in ContentsOf(MaxContent) : f = <<[filename |-> <<"name">>, content |-> c]>>
    BY <1>4
  <2>2. PICK p : p = [filename |-> <<"name">>, content |-> c]
    OBVIOUS
  <2>3. Part(p) /\ f = <<p>>
    BY <1>1, <1>3, <2>1, <2>2
  <2>4. Len(f) = 1 /\ DOMAIN f = 1..1 /\ f[1] = p
    BY <2>3
  <2> QED
    BY <2>3, <2>4
<1>5. CASE \E c \in ContentsOf(1) : f = <<[filename |-> <<"name">>, content |-> c], Field>>
  <2>1. PICK c \in ContentsOf(1) : f = <<[filename |-> <<"name">>, content |-> c], Field>>
    BY <1>5
  <2>2. PICK p, q : p = [filename |-> <<"name">>, content |-> c] /\ q = Field
    OBVIOUS
  <2>3. Part(p) /\ Part(q) /\ f = <<p, q>>
    BY <1>1, <1>2, <1>3, <2>1, <2>2
  <2>4. Len(f) = 2 /\ DOMAIN f = 1..2 /\ f[1] = p /\ f[2] = q
    BY <2>3
  <2>5. \A i \in 1..2 : i = 1 \/ i = 2
    OBVIOUS
  <2> QED
    BY <2>3, <2>4, <2>5
<1> QED
  BY <1>4, <1>5 DEF Forms

\* The length of a part, and where the delimiters of a form stand.
PartLen(p) == Len(Header(p)) + Len(p.content) + 5

DelimAt(f, n) == IF n = 0 THEN 1
                 ELSE IF n = 1 THEN 1 + PartLen(f[1]) ELSE 1 + PartLen(f[1]) + PartLen(f[2])

\* The atoms of a part.
Parted(e, h, c) ==
    /\ e[1] = Delim /\ e[2] = CrLf
    /\ \A i \in 1..Len(h) : e[2 + i] = h[i]
    /\ e[Len(h) + 3] = CrLf /\ e[Len(h) + 4] = CrLf
    /\ \A i \in 1..Len(c) : e[Len(h) + 4 + i] = c[i]
    /\ e[Len(h) + Len(c) + 5] = CrLf

LEMMA EncodedParts ==
    ASSUME NEW p, Part(p)
    PROVE  /\ Encoded(p) \in Seq(Atoms) /\ Len(Encoded(p)) = PartLen(p) /\ PartLen(p) \in Nat
           /\ Parted(Encoded(p), Header(p), p.content)
<1>1. PICK h, c, m, n, x, z : /\ h = Header(p) /\ c = p.content /\ m = Len(h) /\ n = Len(c)
                              /\ x = Delim /\ z = CrLf
  OBVIOUS
<1>2. h \in Seq(Atoms) /\ c \in Seq(Atoms) /\ m \in Nat /\ n \in Nat /\ x \in Atoms /\ z \in Atoms
  BY <1>1, HeaderRead, InAtoms DEF Part
<1>3. PICK a, b, s : a = <<x, z>> /\ b = <<z, z>> /\ s = <<z>>
  OBVIOUS
<1>4. /\ a \in Seq(Atoms) /\ Len(a) = 2 /\ a[1] = x /\ a[2] = z
      /\ b \in Seq(Atoms) /\ Len(b) = 2 /\ b[1] = z /\ b[2] = z
      /\ s \in Seq(Atoms) /\ Len(s) = 1 /\ s[1] = z
  BY <1>2, <1>3
<1>5. PICK e1 : e1 = a \o h
  OBVIOUS
<1>6. /\ e1 \in Seq(Atoms) /\ Len(e1) = m + 2 /\ e1[1] = x /\ e1[2] = z
      /\ \A i \in 1..m : e1[2 + i] = h[i]
  <2>1. e1 \in Seq(Atoms) /\ IsJoined(e1, a, h)
    BY <1>2, <1>4, <1>5, Joined
  <2>2. /\ e1 \in Seq(Atoms) /\ Len(e1) = 2 + m
        /\ \A i \in 1..2 : e1[i] = a[i]
        /\ \A i \in 1..m : e1[2 + i] = h[i]
    BY <1>1, <1>4, <2>1 DEF IsJoined
  <2> QED
    BY <1>2, <1>4, <2>2
<1>7. PICK e2 : e2 = e1 \o b
  OBVIOUS
<1>8. /\ e2 \in Seq(Atoms) /\ Len(e2) = m + 4
      /\ \A i \in 1..(m + 2) : e2[i] = e1[i]
      /\ e2[m + 3] = z /\ e2[m + 4] = z
  <2>1. e2 \in Seq(Atoms) /\ IsJoined(e2, e1, b)
    BY <1>4, <1>6, <1>7, Joined
  <2>2. /\ e2 \in Seq(Atoms) /\ Len(e2) = m + 2 + 2
        /\ \A i \in 1..(m + 2) : e2[i] = e1[i]
        /\ \A i \in 1..2 : e2[m + 2 + i] = b[i]
    BY <1>4, <1>6, <2>1 DEF IsJoined
  <2>3. m + 2 + 1 = m + 3 /\ m + 2 + 2 = m + 4
    BY <1>2
  <2> QED
    BY <1>4, <2>2, <2>3
<1>9. PICK e3 : e3 = e2 \o c
  OBVIOUS
<1>10. /\ e3 \in Seq(Atoms) /\ Len(e3) = m + n + 4
       /\ \A i \in 1..(m + 4) : e3[i] = e2[i]
       /\ \A i \in 1..n : e3[m + 4 + i] = c[i]
  <2>1. e3 \in Seq(Atoms) /\ IsJoined(e3, e2, c)
    BY <1>2, <1>8, <1>9, Joined
  <2>2. m + 4 + n = m + n + 4
    BY <1>2
  <2> QED
    BY <1>1, <1>8, <2>1, <2>2 DEF IsJoined
<1>11. PICK e : e = e3 \o s
  OBVIOUS
<1>12. /\ e \in Seq(Atoms) /\ Len(e) = m + n + 5
       /\ \A i \in 1..(m + n + 4) : e[i] = e3[i]
       /\ e[m + n + 5] = z
  <2>1. e \in Seq(Atoms) /\ IsJoined(e, e3, s)
    BY <1>4, <1>10, <1>11, Joined
  <2>2. /\ e \in Seq(Atoms) /\ Len(e) = m + n + 4 + 1
        /\ \A i \in 1..(m + n + 4) : e[i] = e3[i]
        /\ e[m + n + 4 + 1] = s[1]
    BY <1>4, <1>10, <2>1 DEF IsJoined
  <2>3. m + n + 4 + 1 = m + n + 5
    BY <1>2
  <2> QED
    BY <1>4, <2>2, <2>3
<1>13. e = Encoded(p)
  BY <1>1, <1>3, <1>5, <1>7, <1>9, <1>11 DEF Encoded
<1>14. e[1] = x /\ e[2] = z /\ \A i \in 1..m : e[2 + i] = h[i]
  <2>1. \A i \in 1..(m + 2) : e[i] = e1[i]
    <3>1. \A i \in 1..(m + 2) : i \in 1..(m + 4) /\ i \in 1..(m + n + 4)
      BY <1>2
    <3> QED
      BY <1>8, <1>10, <1>12, <3>1
  <2>2. 1 \in 1..(m + 2) /\ 2 \in 1..(m + 2) /\ \A i \in 1..m : 2 + i \in 1..(m + 2)
    BY <1>2
  <2> QED
    BY <1>6, <2>1, <2>2
<1>15. e[m + 3] = z /\ e[m + 4] = z
  <2>1. m + 3 \in 1..(m + 4) /\ m + 4 \in 1..(m + 4) /\ m + 3 \in 1..(m + n + 4) /\ m + 4 \in 1..(m + n + 4)
    BY <1>2
  <2> QED
    BY <1>8, <1>10, <1>12, <2>1
<1>16. \A i \in 1..n : e[m + 4 + i] = c[i]
  <2>1. \A i \in 1..n : m + 4 + i \in 1..(m + n + 4)
    BY <1>2
  <2> QED
    BY <1>10, <1>12, <2>1
<1>17. Parted(e, h, c)
  BY <1>1, <1>12, <1>14, <1>15, <1>16 DEF Parted
<1>18. PartLen(p) = m + n + 5 /\ m + n + 5 \in Nat
  BY <1>1, <1>2 DEF PartLen
<1> QED
  BY <1>1, <1>12, <1>13, <1>17, <1>18

\* A part that stands in a text, before another delimiter.
LEMMA LaidAt ==
    ASSUME NEW data \in Seq(Atoms), NEW d \in Nat \ {0}, NEW p, Part(p), NEW k, k = PartLen(p),
           \A i \in 1..k : data[d - 1 + i] = Encoded(p)[i],
           data[d + k] = Delim, d + k + 1 <= Len(data)
    PROVE  Laid(data, d, Header(p), p.content)
<1>1. PICK e, h, c, m, n, x, z : /\ e = Encoded(p) /\ h = Header(p) /\ c = p.content
                                 /\ m = Len(h) /\ n = Len(c) /\ x = Delim /\ z = CrLf
  OBVIOUS
<1>2. h \in Seq(Atoms) /\ c \in Seq(Atoms) /\ m \in Nat /\ n \in Nat
  BY <1>1, HeaderRead DEF Part
<1>3. k = m + n + 5
  BY <1>1 DEF PartLen
<1>4. Parted(e, h, c)
  BY <1>1, EncodedParts
<1>5. /\ e[1] = x /\ e[2] = z
      /\ \A i \in 1..m : e[2 + i] = h[i]
      /\ e[m + 3] = z /\ e[m + 4] = z
      /\ \A i \in 1..n : e[m + 4 + i] = c[i]
      /\ e[m + n + 5] = z
  BY <1>1, <1>4 DEF Parted
<1>6. \A i \in 1..(m + n + 5) : data[d - 1 + i] = e[i]
  BY <1>1, <1>3
<1>7. data[d] = x /\ data[d + 1] = z
  <2>1. 1 \in 1..(m + n + 5) /\ 2 \in 1..(m + n + 5) /\ d - 1 + 1 = d /\ d - 1 + 2 = d + 1
    BY <1>2
  <2> QED
    BY <1>5, <1>6, <2>1
<1>8. \A i \in 1..m : data[d + 1 + i] = h[i]
  <2>1. \A i \in 1..m : 2 + i \in 1..(m + n + 5) /\ d - 1 + (2 + i) = d + 1 + i
    BY <1>2
  <2> QED
    BY <1>5, <1>6, <2>1
<1>9. data[d + m + 2] = z /\ data[d + m + 3] = z /\ data[d + m + n + 4] = z
  <2>1. /\ m + 3 \in 1..(m + n + 5) /\ d - 1 + (m + 3) = d + m + 2
        /\ m + 4 \in 1..(m + n + 5) /\ d - 1 + (m + 4) = d + m + 3
        /\ m + n + 5 \in 1..(m + n + 5) /\ d - 1 + (m + n + 5) = d + m + n + 4
    BY <1>2
  <2> QED
    BY <1>5, <1>6, <2>1, SMTT(30)
<1>10. \A i \in 1..n : data[d + m + 3 + i] = c[i]
  <2>1. \A i \in 1..n : m + 4 + i \in 1..(m + n + 5) /\ d - 1 + (m + 4 + i) = d + m + 3 + i
    BY <1>2
  <2> QED
    BY <1>5, <1>6, <2>1
<1>11. data[d + m + n + 5] = x /\ d + m + n + 6 <= Len(data)
  <2>1. d + k = d + m + n + 5 /\ d + k + 1 = d + m + n + 6
    BY <1>2, <1>3
  <2> QED
    BY <1>1, <2>1
<1> QED
  BY <1>1, <1>7, <1>8, <1>9, <1>10, <1>11 DEF Laid

\* A body: its parts, each behind its delimiter, and the last delimiter.
Whole(data, f) ==
    /\ data \in Seq(Atoms)
    /\ \A i \in 1..Len(f) : /\ DelimAt(f, i - 1) \in Nat \ {0}
                            /\ DelimAt(f, i) = DelimAt(f, i - 1) + PartLen(f[i])
                            /\ Laid(data, DelimAt(f, i - 1), Header(f[i]), f[i].content)
    /\ DelimAt(f, Len(f)) \in Nat \ {0} /\ DelimAt(f, Len(f)) + 1 <= Len(data)
    /\ data[DelimAt(f, Len(f))] = Delim /\ data[DelimAt(f, Len(f)) + 1] = Dash

LEMMA BodyWhole ==
    ASSUME NEW f \in Forms
    PROVE  Whole(Body(f), f)
<1>1. PICK b, g, x, y, z : /\ b = Body(f) /\ g = <<x, y, z>>
                           /\ x = Delim /\ y = Dash /\ z = CrLf
  OBVIOUS
<1>2. /\ x \in Atoms /\ y \in Atoms /\ z \in Atoms
      /\ g \in Seq(Atoms) /\ Len(g) = 3 /\ g[1] = x /\ g[2] = y
  <2>1. x \in Atoms /\ y \in Atoms /\ z \in Atoms
    BY <1>1, InAtoms
  <2> QED
    BY <1>1, <2>1
<1>3. b = Parts(f) \o g
  BY <1>1 DEF Body
<1>4. PICK p, e, k : p = f[1] /\ e = Encoded(p) /\ k = PartLen(p)
  OBVIOUS
<1>5. Part(p) /\ e \in Seq(Atoms) /\ Len(e) = k /\ k \in Nat /\ Parted(e, Header(p), p.content)
  <2>1. Part(p)
    BY <1>4, FormParts
  <2> QED
    BY <1>4, <2>1, EncodedParts
<1>6. CASE Len(f) = 1
  <2>1. b = e \o g
    BY <1>3, <1>4, <1>6 DEF Parts
  <2>2. b \in Seq(Atoms) /\ IsJoined(b, e, g)
    BY <1>2, <1>5, <2>1, Joined
  <2>3. /\ Len(b) = k + 3
        /\ \A i \in 1..k : b[i] = e[i]
        /\ b[k + 1] = x /\ b[k + 2] = y
    BY <1>2, <1>5, <2>2 DEF IsJoined
  <2>4. Laid(b, 1, Header(p), p.content)
    <3>1. \A i \in 1..k : b[1 - 1 + i] = e[i]
      <4>1. \A i \in 1..k : 1 - 1 + i = i
        OBVIOUS
      <4> QED
        BY <2>3, <4>1
    <3>2. b[1 + k] = Delim /\ 1 + k + 1 <= Len(b)
      <4>1. 1 + k = k + 1
        BY <1>5
      <4> QED
        BY <1>1, <1>5, <2>3, <4>1
    <3>3. 1 \in Nat \ {0} /\ \A i \in 1..k : b[1 - 1 + i] = Encoded(p)[i]
      BY <1>4, <3>1
    <3> QED
      BY <1>4, <1>5, <2>2, <3>2, <3>3, LaidAt
  <2>5. DelimAt(f, 0) = 1 /\ DelimAt(f, 1) = 1 + k
    BY <1>4 DEF DelimAt
  <2>6. \A i \in 1..1 : i = 1 /\ i - 1 = 0
    OBVIOUS
  <2>7. 1 + k \in Nat \ {0} /\ 1 + k + 1 <= Len(b) /\ b[1 + k] = Delim /\ b[1 + k + 1] = Dash
    <3>1. 1 + k = k + 1 /\ 1 + k + 1 = k + 2
      BY <1>5
    <3> QED
      BY <1>1, <1>5, <2>3, <3>1
  <2>8. \A i \in 1..1 : /\ DelimAt(f, i - 1) \in Nat \ {0}
                        /\ DelimAt(f, i) = DelimAt(f, i - 1) + PartLen(f[i])
                        /\ Laid(b, DelimAt(f, i - 1), Header(f[i]), f[i].content)
    BY <1>4, <2>4, <2>5, <2>6
  <2>9. DelimAt(f, Len(f)) = 1 + k
    BY <1>6, <2>5
  <2>10. Whole(b, f)
    BY <1>6, <2>2, <2>7, <2>8, <2>9 DEF Whole
  <2> QED
    BY <1>1, <2>10
<1>7. CASE Len(f) = 2
  <2>1. PICK q, r, l : q = f[2] /\ r = Encoded(q) /\ l = PartLen(q)
    OBVIOUS
  <2>2. Part(q) /\ r \in Seq(Atoms) /\ Len(r) = l /\ l \in Nat /\ Parted(r, Header(q), q.content)
    <3>1. Part(q)
      BY <1>7, <2>1, FormParts
    <3> QED
      BY <2>1, <3>1, EncodedParts
  <2>3. PICK a : a = e \o r
    OBVIOUS
  <2>4. a \in Seq(Atoms) /\ IsJoined(a, e, r)
    BY <1>5, <2>2, <2>3, Joined
  <2>5. b = a \o g
    BY <1>3, <1>4, <1>7, <2>1, <2>3 DEF Parts
  <2>6. b \in Seq(Atoms) /\ IsJoined(b, a, g)
    BY <1>2, <2>4, <2>5, Joined
  <2>7. /\ Len(a) = k + l
        /\ \A i \in 1..k : a[i] = e[i]
        /\ \A i \in 1..l : a[k + i] = r[i]
    BY <1>5, <2>2, <2>4 DEF IsJoined
  <2>8. /\ Len(b) = k + l + 3
        /\ \A i \in 1..(k + l) : b[i] = a[i]
        /\ b[k + l + 1] = x /\ b[k + l + 2] = y
    BY <1>2, <1>5, <2>2, <2>6, <2>7 DEF IsJoined
  <2>9. \A i \in 1..k : b[i] = e[i]
    <3>1. \A i \in 1..k : i \in 1..(k + l)
      BY <1>5, <2>2
    <3> QED
      BY <2>7, <2>8, <3>1
  <2>10. \A i \in 1..l : b[k + i] = r[i]
    <3>1. \A i \in 1..l : k + i \in 1..(k + l)
      BY <1>5, <2>2
    <3> QED
      BY <2>7, <2>8, <3>1
  <2>11. r[1] = x /\ l >= 5
    <3>1. PICK u, v : u = Header(q) /\ v = q.content
      OBVIOUS
    <3>2. u \in Seq(Atoms) /\ v \in Seq(Atoms)
      BY <2>2, <3>1, HeaderRead DEF Part
    <3>3. l = Len(u) + Len(v) + 5
      BY <2>1, <3>1 DEF PartLen
    <3> QED
      BY <1>1, <2>2, <3>2, <3>3 DEF Parted
  <2>12. b[1 + k] = Delim /\ 1 + k + 1 <= Len(b)
    <3>1. 1 \in 1..l /\ k + 1 = 1 + k
      BY <1>5, <2>2, <2>11
    <3> QED
      BY <1>1, <1>5, <2>2, <2>8, <2>10, <2>11, <3>1
  <2>13. Laid(b, 1, Header(p), p.content)
    <3>1. \A i \in 1..k : b[1 - 1 + i] = e[i]
      <4>1. \A i \in 1..k : 1 - 1 + i = i
        OBVIOUS
      <4> QED
        BY <2>9, <4>1
    <3>2. 1 \in Nat \ {0} /\ \A i \in 1..k : b[1 - 1 + i] = Encoded(p)[i]
      BY <1>4, <3>1
    <3> QED
      BY <1>4, <1>5, <2>6, <2>12, <3>2, LaidAt
  <2>14. PICK d : d = 1 + k
    OBVIOUS
  <2>15. d \in Nat \ {0} /\ b[d + l] = Delim /\ b[d + l + 1] = Dash /\ d + l \in Nat \ {0}
         /\ d + l + 1 <= Len(b)
    <3>1. d + l = k + l + 1 /\ d + l + 1 = k + l + 2 /\ d \in Nat \ {0} /\ k + l + 2 <= k + l + 3
      BY <1>5, <2>2, <2>14
    <3> QED
      BY <1>1, <1>5, <2>2, <2>8, <3>1
  <2>16. Laid(b, d, Header(q), q.content)
    <3>1. \A i \in 1..l : b[d - 1 + i] = r[i]
      <4>1. \A i \in 1..l : d - 1 + i = k + i
        BY <1>5, <2>14
      <4> QED
        BY <2>10, <4>1
    <3>2. \A i \in 1..l : b[d - 1 + i] = Encoded(q)[i]
      BY <2>1, <3>1
    <3> QED
      BY <2>1, <2>2, <2>6, <2>15, <3>2, LaidAt
  <2>17. DelimAt(f, 0) = 1 /\ DelimAt(f, 1) = d /\ DelimAt(f, 2) = d + l
    BY <1>4, <2>1, <2>14 DEF DelimAt
  <2>18. d = 1 + k /\ \A i \in 1..2 : (i = 1 /\ i - 1 = 0) \/ (i = 2 /\ i - 1 = 1)
    BY <2>14
  <2>19. \A i \in 1..2 : /\ DelimAt(f, i - 1) \in Nat \ {0}
                         /\ DelimAt(f, i) = DelimAt(f, i - 1) + PartLen(f[i])
                         /\ Laid(b, DelimAt(f, i - 1), Header(f[i]), f[i].content)
    BY <1>4, <2>1, <2>13, <2>15, <2>16, <2>17, <2>18
  <2>20. DelimAt(f, Len(f)) = d + l
    BY <1>7, <2>17
  <2>21. Whole(b, f)
    BY <1>7, <2>6, <2>15, <2>19, <2>20 DEF Whole
  <2> QED
    BY <1>1, <2>21
<1> QED
  BY <1>6, <1>7, FormParts

\* A file that was received for a part of a form.
Same(r, p) == /\ r.filename = p.filename
              /\ r.content = p.content \/ p.content = Append(r.content, CrLf)

ReceivedFiles == [filename : {<<>>, <<"name">>}, content : Seq(Atoms)]

\* As many parts as there are files were read, and the parser stands before
\* the delimiter of the next.
FormInv ==
    body # <<>> =>
        /\ form \in Forms /\ body = Body(form)
        /\ files \in Seq(ReceivedFiles) /\ Len(files) <= Len(form)
        /\ At(body, pos, DelimAt(form, Len(files)))
        /\ \A i \in 1..Len(files) : Same(files[i], form[i])

LEMMA FormInitInv == FormInit => FormInv
  BY DEF FormInit, FormInv

LEMMA ReceiveKeeps ==
    ASSUME NEW f \in Forms, Receive(f)
    PROVE  FormInv'
<1>1. form' = f /\ body' = Body(f) /\ pos' = 1 /\ files' = <<>>
  BY DEF Receive
<1>2. PICK b : b = Body(f)
  OBVIOUS
<1>3. Whole(b, f) /\ (Len(f) = 1 \/ Len(f) = 2)
  BY <1>2, BodyWhole, FormParts
<1>4. b \in Seq(Atoms) /\ Len(b) \in Nat /\ Laid(b, 1, Header(f[1]), f[1].content)
  <2>1. 1 \in 1..Len(f) /\ 1 - 1 = 0 /\ DelimAt(f, 0) = 1
    BY <1>3 DEF DelimAt
  <2>2. b \in Seq(Atoms) /\ Laid(b, DelimAt(f, 1 - 1), Header(f[1]), f[1].content)
    BY <1>3, <2>1 DEF Whole
  <2> QED
    BY <2>1, <2>2
<1>5. PICK h, c : h = Header(f[1]) /\ c = f[1].content
  OBVIOUS
<1>6. h \in Seq(Atoms) /\ c \in Seq(Atoms)
  <2>1. 1 \in 1..Len(f)
    BY <1>3
  <2>2. Part(f[1])
    BY <2>1, FormParts
  <2> QED
    BY <1>5, <2>2, HeaderRead DEF Part
<1>7. At(b, 1, 1)
  <2>1. b[1] = Delim /\ 1 + Len(h) + Len(c) + 6 <= Len(b)
    BY <1>4, <1>5 DEF Laid
  <2>2. Len(h) \in Nat /\ Len(c) \in Nat
    BY <1>6
  <2>3. 1 + 1 <= Len(b)
    BY <1>4, <2>1, <2>2
  <2> QED
    BY <2>1, <2>3 DEF At
<1>8. /\ files' \in Seq(ReceivedFiles) /\ Len(files') = 0 /\ Len(files') <= Len(f)
      /\ \A i \in 1..Len(files') : Same(files'[i], f[i])
  BY <1>1, <1>3
<1>9. DelimAt(f, Len(files')) = 1
  BY <1>8 DEF DelimAt
<1>10. /\ form' \in Forms /\ body' = Body(form')
       /\ At(body', pos', DelimAt(form', Len(files')))
  BY <1>1, <1>2, <1>7, <1>9
<1> QED
  BY <1>1, <1>8, <1>10 DEF FormInv

\* A part that is left is found, and the last delimiter is no part.
LEMMA PartLeft ==
    ASSUME FormInv, body # <<>>
    PROVE  /\ PartStart # 0 => Len(files) < Len(form)
           /\ Len(files) < Len(form) => PartStart = DelimAt(form, Len(files)) + 2
<1>1. /\ form \in Forms /\ body = Body(form) /\ Len(files) \in Nat /\ Len(files) <= Len(form)
      /\ At(body, pos, DelimAt(form, Len(files)))
  BY DEF FormInv
<1>2. Whole(body, form) /\ Len(form) \in Nat
  BY <1>1, BodyWhole, FormParts
<1>3. PICK n, d : n = Len(files) /\ d = DelimAt(form, n)
  OBVIOUS
<1>4. body \in Seq(Atoms) /\ At(body, pos, d)
  BY <1>1, <1>2, <1>3 DEF Whole
<1>5. CASE n < Len(form)
  <2>1. PICK k : k = n + 1
    OBVIOUS
  <2>0. k \in 1..Len(form) /\ k - 1 = n
    BY <1>1, <1>2, <1>3, <1>5, <2>1
  <2>2. Laid(body, DelimAt(form, k - 1), Header(form[k]), form[k].content)
    BY <1>2, <2>0 DEF Whole
  <2>3. body[d + 1] = CrLf
    BY <1>3, <2>0, <2>2 DEF Laid
  <2>4. PartStart = d + 2
    BY <1>4, <2>3, StartFound
  <2> QED
    BY <1>3, <1>5, <2>4
<1>6. CASE n = Len(form)
  <2>1. body[d + 1] = Dash
    BY <1>2, <1>3, <1>6 DEF Whole
  <2>2. PartStart = 0
    BY <1>4, <2>1, NoStart
  <2> QED
    BY <1>1, <1>2, <1>3, <1>6, <2>2
<1> QED
  BY <1>1, <1>2, <1>3, <1>5, <1>6

LEMMA ParsePartKeeps ==
    ASSUME FormInv, ParsePart
    PROVE  FormInv'
<1>1. body # <<>> /\ PartStart # 0 /\ form' = form /\ body' = body
  BY DEF ParsePart
<1>2. /\ form \in Forms /\ body = Body(form)
      /\ files \in Seq(ReceivedFiles) /\ Len(files) <= Len(form)
      /\ \A i \in 1..Len(files) : Same(files[i], form[i])
  BY <1>1 DEF FormInv
<1>3. PICK n, d, p, h, c : /\ n = Len(files) /\ d = DelimAt(form, n) /\ p = form[n + 1]
                           /\ h = Header(p) /\ c = p.content
  OBVIOUS
<1>4. n \in Nat /\ n < Len(form) /\ Len(form) \in Nat /\ n + 1 \in 1..Len(form) /\ PartStart = d + 2
  <2>1. n < Len(form) /\ PartStart = d + 2
    BY <1>1, <1>3, PartLeft
  <2>2. n \in Nat /\ Len(form) \in Nat
    BY <1>2, <1>3, FormParts
  <2> QED
    BY <2>1, <2>2
<1>5. Part(p) /\ h \in Seq(Atoms) /\ c \in Seq(Atoms) /\ Plain(h) /\ Clean(c) /\ FileName(h) = p.filename
  <2>1. Part(p)
    BY <1>2, <1>3, <1>4, FormParts
  <2> QED
    BY <1>3, <2>1, HeaderRead DEF Part
<1>6. PICK e : e = d + Len(h) + Len(c) + 4
  OBVIOUS
<1>7. /\ body \in Seq(Atoms) /\ d \in Nat \ {0} /\ Laid(body, d, h, c)
      /\ DelimAt(form, n + 1) = e + 1
  <2>1. Whole(body, form)
    BY <1>2, BodyWhole
  <2>2. n + 1 - 1 = n
    BY <1>4
  <2>3. /\ body \in Seq(Atoms) /\ d \in Nat \ {0} /\ Laid(body, d, h, c)
        /\ DelimAt(form, n + 1) = d + PartLen(p)
    BY <1>3, <1>4, <2>1, <2>2 DEF Whole
  <2>4. Len(h) \in Nat /\ Len(c) \in Nat /\ PartLen(p) = Len(h) + Len(c) + 5
    BY <1>3, <1>5 DEF PartLen
  <2> QED
    BY <1>6, <2>3, <2>4
<1>8. PartEnd(PartStart) = e
  <2>1. PartEnd(d + 2) = e
    BY <1>5, <1>6, <1>7, EndFound
  <2> QED
    BY <1>4, <2>1
<1>9. PICK part, s : part = SubSeq(body, d + 2, e - 1) /\ s = Stripped(c)
  OBVIOUS
<1>10. /\ FindIn(part, <<CrLf, CrLf>>, 1) = Len(h) + 1
       /\ SubSeq(part, 1, Len(h)) = h
       /\ SubSeq(part, Len(h) + 3, Len(part)) = c
  <2>1. PICK f, l : f = d + 2 /\ l = e - 1
    OBVIOUS
  <2>2. l = d + Len(h) + Len(c) + 3
    <3>1. Len(h) \in Nat /\ Len(c) \in Nat
      BY <1>5
    <3> QED
      BY <1>6, <1>7, <2>1, <3>1
  <2>3. PartIs(SubSeq(body, f, l), h, c)
    BY <1>5, <1>7, <2>1, <2>2, PartCut
  <2>4. PartIs(part, h, c)
    BY <1>9, <2>1, <2>3
  <2>5. Splits(part, h, c)
    BY <1>5, <2>4, PartRead
  <2> QED
    BY <2>5 DEF Splits
<1>11. PICK r : r = [filename |-> p.filename, content |-> s]
  OBVIOUS
<1>12. pos' = e /\ files' = Append(files, r)
  <2>1. PICK q : q = Len(h) + 1
    OBVIOUS
  <2>2. q # 0 /\ q - 1 = Len(h) /\ q + 2 = Len(h) + 3
    <3>1. Len(h) \in Nat
      BY <1>5
    <3> QED
      BY <2>1, <3>1
  <2>3. FindIn(part, <<CrLf, CrLf>>, 1) = q
    BY <1>10, <2>1
  <2>4. /\ pos' = PartEnd(PartStart)
        /\ PartEnd(PartStart) = e /\ PartStart = d + 2
        /\ files' = IF q = 0 THEN files
                    ELSE Append(files, [filename |-> FileName(SubSeq(part, 1, q - 1)),
                                        content  |-> Stripped(SubSeq(part, q + 2, Len(part)))])
    BY <1>4, <1>8, <1>9, <2>3 DEF ParsePart
  <2>5. FileName(SubSeq(part, 1, q - 1)) = p.filename /\ Stripped(SubSeq(part, q + 2, Len(part))) = s
    BY <1>5, <1>9, <1>10, <2>2
  <2> QED
    BY <1>11, <2>2, <2>4, <2>5
<1>13. s \in Seq(Atoms) /\ (s = c \/ c = Append(s, CrLf))
  BY <1>5, <1>9, StrippedRight
<1>14. r \in ReceivedFiles /\ Same(r, p)
  BY <1>3, <1>5, <1>11, <1>13 DEF ReceivedFiles, Same, Part
<1>15. PICK g : g = Append(files, r)
  OBVIOUS
<1>16. /\ g \in Seq(ReceivedFiles) /\ Len(g) = n + 1 /\ g[n + 1] = r
       /\ \A i \in 1..n : g[i] = files[i]
  <2>1. /\ Append(files, r) \in Seq(ReceivedFiles) /\ Len(Append(files, r)) = Len(files) + 1
        /\ \A i \in 1..Len(files) : Append(files, r)[i] = files[i]
        /\ Append(files, r)[Len(files) + 1] = r
    BY <1>2, <1>14, AppendProperties
  <2> QED
    BY <1>3, <1>15, <2>1
<1>17. \A i \in 1..(n + 1) : Same(g[i], form[i])
  <2>1. \A i \in 1..(n + 1) : i = n + 1 \/ i \in 1..n
    BY <1>4
  <2> QED
    BY <1>2, <1>3, <1>14, <1>16, <2>1
<1>18. At(body, e, e + 1)
  <2>1. PICK m, l : m = Len(h) /\ l = Len(c)
    OBVIOUS
  <2>2. m \in Nat /\ l \in Nat /\ Len(body) \in Nat /\ e = d + m + l + 4
    BY <1>5, <1>6, <1>7, <2>1
  <2>3. /\ body[d + m + l + 4] = CrLf /\ body[d + m + l + 5] = Delim
        /\ d + m + l + 6 <= Len(body)
    BY <1>7, <2>1 DEF Laid
  <2>4. /\ e + 1 = d + m + l + 5 /\ e + 1 + 1 = d + m + l + 6
        /\ e + 1 \in Nat \ {0} /\ e = e + 1 - 1 /\ e > 0
    BY <1>7, <2>2
  <2>5. body[e] = CrLf /\ body[e + 1] = Delim /\ e + 1 + 1 <= Len(body) /\ CrLf # Delim
    BY <2>2, <2>3, <2>4, Apart
  <2>6. PICK k : k = e + 1
    OBVIOUS
  <2>7. k \in Nat \ {0} /\ k + 1 <= Len(body) /\ body[k] = Delim /\ e = k - 1 /\ e > 0 /\ body[e] # Delim
    BY <1>7, <2>2, <2>4, <2>5, <2>6
  <2>8. At(body, e, k)
    BY <2>7 DEF At
  <2> QED
    BY <2>6, <2>8
<1>19. /\ files' \in Seq(ReceivedFiles) /\ Len(files') <= Len(form')
       /\ At(body', pos', DelimAt(form', Len(files')))
       /\ \A i \in 1..Len(files') : Same(files'[i], form'[i])
  <2>1. files' = g /\ Len(files') = n + 1
    BY <1>12, <1>15, <1>16
  <2> QED
    BY <1>1, <1>4, <1>7, <1>12, <1>16, <1>17, <1>18, <2>1
<1> QED
  BY <1>1, <1>2, <1>19 DEF FormInv

LEMMA FormStep == FormInv /\ [FormNext]_formVars => FormInv'
<1> SUFFICES ASSUME FormInv, [FormNext]_formVars
             PROVE  FormInv'
  OBVIOUS
<1>1. CASE \E f \in Forms : Receive(f)
  BY <1>1, ReceiveKeeps
<1>2. CASE ParsePart
  BY <1>2, ParsePartKeeps
<1>3. CASE Upload
  BY <1>3 DEF Upload, FormInv
<1>4. CASE \E c \in uploaded : Check(c)
  BY <1>4 DEF Check, FormInv
<1>5. CASE UNCHANGED formVars
  BY <1>5 DEF formVars, FormInv
<1> QED
  BY <1>1, <1>2, <1>3, <1>4, <1>5 DEF FormNext

LEMMA FormInvImplies == FormInv => Delivered
<1> SUFFICES ASSUME FormInv, body # <<>>, PartStart = 0
             PROVE  /\ Len(files) = Len(form)
                    /\ \A i \in DOMAIN form :
                         /\ files[i].filename = form[i].filename
                         /\ \/ files[i].content = form[i].content
                            \/ form[i].content = Append(files[i].content, CrLf)
  BY DEF Delivered, Parsed
<1>1. /\ form \in Forms /\ Len(files) \in Nat /\ Len(files) <= Len(form)
      /\ At(body, pos, DelimAt(form, Len(files)))
      /\ \A i \in 1..Len(files) : Same(files[i], form[i])
  BY DEF FormInv
<1>2. DelimAt(form, Len(files)) + 2 # 0
  BY <1>1 DEF At
<1>3. Len(form) \in Nat /\ DOMAIN form = 1..Len(form)
  BY <1>1, FormParts
<1>4. Len(files) = Len(form)
  BY <1>1, <1>2, <1>3, PartLeft
<1> QED
  BY <1>1, <1>3, <1>4 DEF Same

\* Every part of every form comes out of parseMultipartFormData under its name
\* and with its content to the byte, but for a line break at its end.
THEOREM FormsArrive == FormSpec => []Delivered
<1>1. FormSpec => []FormInv
  BY FormInitInv, FormStep, PTL DEF FormSpec
<1> QED
  BY <1>1, FormInvImplies, PTL

-----------------------------------------------------------------------------
(* The routes.                                                             *)

\* A tuple is a sequence over its own elements.
LEMMA TupleInRange ==
    /\ \A a, b, c : LET t == <<a, b, c>> IN t \in Seq(Range(t)) /\ Len(t) = 3
    /\ \A a, b, c, d, e : LET t == <<a, b, c, d, e>> IN t \in Seq(Range(t)) /\ Len(t) = 5
    /\ \A a, b, c, d, e, f : LET t == <<a, b, c, d, e, f>> IN t \in Seq(Range(t)) /\ Len(t) = 6
    /\ \A a, b, c, d, e, f, g : LET t == <<a, b, c, d, e, f, g>> IN t \in Seq(Range(t)) /\ Len(t) = 7
  BY DEF Range

\* All the routes.
RouteSet == UNION {Range(UserRoutes), Range(UploadRoutes), Range(FileRoutes),
                   Range(ShareRoutes), Range(OtherRoutes)}

LEMMA Groups ==
    /\ UserRoutes \in Seq(RouteSet) /\ Len(UserRoutes) = 5
    /\ UploadRoutes \in Seq(RouteSet) /\ Len(UploadRoutes) = 5
    /\ FileRoutes \in Seq(RouteSet) /\ Len(FileRoutes) = 3
    /\ ShareRoutes \in Seq(RouteSet) /\ Len(ShareRoutes) = 6
    /\ OtherRoutes \in Seq(RouteSet) /\ Len(OtherRoutes) = 7
<1>1. /\ UserRoutes \in Seq(Range(UserRoutes)) /\ Len(UserRoutes) = 5
      /\ UploadRoutes \in Seq(Range(UploadRoutes)) /\ Len(UploadRoutes) = 5
  BY TupleInRange DEF UserRoutes, UploadRoutes
<1>2. /\ FileRoutes \in Seq(Range(FileRoutes)) /\ Len(FileRoutes) = 3
      /\ ShareRoutes \in Seq(Range(ShareRoutes)) /\ Len(ShareRoutes) = 6
      /\ OtherRoutes \in Seq(Range(OtherRoutes)) /\ Len(OtherRoutes) = 7
  BY TupleInRange DEF FileRoutes, ShareRoutes, OtherRoutes
<1>3. /\ Range(UserRoutes) \subseteq RouteSet /\ Range(UploadRoutes) \subseteq RouteSet
      /\ Range(FileRoutes) \subseteq RouteSet /\ Range(ShareRoutes) \subseteq RouteSet
      /\ Range(OtherRoutes) \subseteq RouteSet
  BY DEF RouteSet
<1> QED
  BY <1>1, <1>2, <1>3, SeqMonotonic

\* Which group the n-th route belongs to.
LEMMA RouteAt ==
    /\ Len(Routes) = 26 /\ DOMAIN Routes = 1..26
    /\ \A n \in 1..26 : Routes[n] = IF n <= 5 THEN UserRoutes[n]
                                    ELSE IF n <= 10 THEN UploadRoutes[n - 5]
                                    ELSE IF n <= 13 THEN FileRoutes[n - 10]
                                    ELSE IF n <= 19 THEN ShareRoutes[n - 13]
                                    ELSE OtherRoutes[n - 19]
<1>a. PICK a : a = UserRoutes \o UploadRoutes
  OBVIOUS
<1>b. PICK b : b = a \o FileRoutes
  OBVIOUS
<1>c. PICK c : c = b \o ShareRoutes
  OBVIOUS
<1>d. Routes = c \o OtherRoutes
  BY <1>a, <1>b, <1>c DEF Routes
<1>1. /\ a \in Seq(RouteSet) /\ Len(a) = 10
      /\ \A n \in 1..10 : a[n] = IF n <= 5 THEN UserRoutes[n] ELSE UploadRoutes[n - 5]
  <2>1. /\ a \in Seq(RouteSet) /\ Len(a) = Len(UserRoutes) + Len(UploadRoutes)
        /\ \A n \in 1..(Len(UserRoutes) + Len(UploadRoutes)) : a[n] =
              IF n <= Len(UserRoutes) THEN UserRoutes[n] ELSE UploadRoutes[n - Len(UserRoutes)]
    BY <1>a, Groups, ConcatProperties
  <2> QED
    BY Groups, <2>1
<1>2. /\ b \in Seq(RouteSet) /\ Len(b) = 13
      /\ \A n \in 1..13 : b[n] = IF n <= 10 THEN a[n] ELSE FileRoutes[n - 10]
  <2>1. /\ b \in Seq(RouteSet) /\ Len(b) = Len(a) + Len(FileRoutes)
        /\ \A n \in 1..(Len(a) + Len(FileRoutes)) : b[n] =
              IF n <= Len(a) THEN a[n] ELSE FileRoutes[n - Len(a)]
    BY <1>b, <1>1, Groups, ConcatProperties, ZenonT(40)
  <2> QED
    BY <1>1, Groups, <2>1
<1>3. /\ c \in Seq(RouteSet) /\ Len(c) = 19
      /\ \A n \in 1..19 : c[n] = IF n <= 13 THEN b[n] ELSE ShareRoutes[n - 13]
  <2>1. /\ c \in Seq(RouteSet) /\ Len(c) = Len(b) + Len(ShareRoutes)
        /\ \A n \in 1..(Len(b) + Len(ShareRoutes)) : c[n] =
              IF n <= Len(b) THEN b[n] ELSE ShareRoutes[n - Len(b)]
    BY <1>c, <1>2, Groups, ConcatProperties, ZenonT(40)
  <2> QED
    BY <1>2, Groups, <2>1
<1>4. /\ Routes \in Seq(RouteSet) /\ Len(Routes) = 26
      /\ \A n \in 1..26 : Routes[n] = IF n <= 19 THEN c[n] ELSE OtherRoutes[n - 19]
  <2>1. /\ Routes \in Seq(RouteSet) /\ Len(Routes) = Len(c) + Len(OtherRoutes)
        /\ \A n \in 1..(Len(c) + Len(OtherRoutes)) : Routes[n] =
              IF n <= Len(c) THEN c[n] ELSE OtherRoutes[n - Len(c)]
    BY <1>d, <1>3, Groups, ConcatProperties, ZenonT(40)
  <2> QED
    BY <1>3, Groups, <2>1
<1>5. DOMAIN Routes = 1..26
  BY <1>4, LenProperties
<1> QED
  BY <1>1, <1>2, <1>3, <1>4, <1>5

\* The table with its numbers, group by group.
LEMMA UserTable ==
    /\ Routes[1] = R("GET", <<"health">>, "Health")
    /\ Routes[2] = R("POST", <<"api", "user", "register">>, "Register")
    /\ Routes[3] = R("POST", <<"api", "user", "login">>, "Login")
    /\ Routes[4] = R("POST", <<"api", "user", "logout">>, "Logout")
    /\ Routes[5] = R("POST", <<"api", "files", "check">>, "FileCheck")
<1>1. /\ Routes[1] = UserRoutes[1] /\ Routes[2] = UserRoutes[2] /\ Routes[3] = UserRoutes[3]
      /\ Routes[4] = UserRoutes[4] /\ Routes[5] = UserRoutes[5]
  BY RouteAt
<1> QED
  BY <1>1 DEF UserRoutes

LEMMA UploadTable ==
    /\ Routes[6] = R("POST", <<"api", "files", "upload", "init">>, "ChunkInit")
    /\ Routes[7] = R("POST", <<"api", "files", "upload", "{uploadId}", "complete">>, "ChunkComplete")
    /\ Routes[8] = R("GET", <<"api", "files", "upload", "{uploadId}", "status">>, "ChunkStatus")
    /\ Routes[9] = R("POST", <<"api", "files", "upload", "{uploadId}", "{chunkIndex}">>, "ChunkUpload")
    /\ Routes[10] = R("POST", <<"api", "files", "upload">>, "Upload")
<1>1. /\ Routes[6] = UploadRoutes[1] /\ Routes[7] = UploadRoutes[2] /\ Routes[8] = UploadRoutes[3]
      /\ Routes[9] = UploadRoutes[4] /\ Routes[10] = UploadRoutes[5]
  BY RouteAt
<1> QED
  BY <1>1 DEF UploadRoutes, InitRoute, CompleteRoute, StatusRoute, ChunkRoute, UploadRoute

LEMMA FileTable ==
    /\ Routes[11] = R("GET", <<"api", "files">>, "ListFiles")
    /\ Routes[12] = R("GET", <<"api", "files", "{fileId}">>, "Download")
    /\ Routes[13] = R("DELETE", <<"api", "files", "{fileId}">>, "Delete")
<1>1. /\ Routes[11] = FileRoutes[1] /\ Routes[12] = FileRoutes[2] /\ Routes[13] = FileRoutes[3]
  BY RouteAt
<1> QED
  BY <1>1 DEF FileRoutes

LEMMA ShareTable ==
    /\ Routes[14] = R("GET", <<"api", "shares", "{token}">>, "ShareDownload")
    /\ Routes[15] = R("POST", <<"api", "shares">>, "ShareCreate")
    /\ Routes[16] = R("GET", <<"api", "shares">>, "ShareList")
    /\ Routes[17] = R("DELETE", <<"api", "shares", "{token}">>, "ShareDelete")
    /\ Routes[18] = R("POST", <<"api", "shares", "{token}", "save">>, "ShareSave")
    /\ Routes[19] = R("GET", <<"api", "shares", "ranking">>, "ShareRanking")
<1>1. /\ Routes[14] = ShareRoutes[1] /\ Routes[15] = ShareRoutes[2] /\ Routes[16] = ShareRoutes[3]
      /\ Routes[17] = ShareRoutes[4] /\ Routes[18] = ShareRoutes[5] /\ Routes[19] = ShareRoutes[6]
  BY RouteAt
<1> QED
  BY <1>1 DEF ShareRoutes

LEMMA OtherTable ==
    /\ Routes[20] = R("POST", <<"api", "llm", "chat">>, "LlmChat")
    /\ Routes[21] = R("POST", <<"api", "llm", "analyze">>, "LlmAnalyze")
    /\ Routes[22] = R("POST", <<"api", "search">>, "Search")
    /\ Routes[23] = R("POST", <<"api", "agent", "chat">>, "AgentChat")
    /\ Routes[24] = R("GET", <<"api", "admin", "users">>, "AdminUsers")
    /\ Routes[25] = R("PATCH", <<"api", "admin", "users", "{userId}", "status">>, "AdminSetStatus")
    /\ Routes[26] = R("PATCH", <<"api", "admin", "users", "{userId}", "admin">>, "AdminSetAdmin")
<1>1. /\ Routes[20] = OtherRoutes[1] /\ Routes[21] = OtherRoutes[2] /\ Routes[22] = OtherRoutes[3]
      /\ Routes[23] = OtherRoutes[4] /\ Routes[24] = OtherRoutes[5] /\ Routes[25] = OtherRoutes[6]
      /\ Routes[26] = OtherRoutes[7]
  BY RouteAt
<1> QED
  BY <1>1 DEF OtherRoutes

\* A path is a sequence, of whatever the client wrote between the slashes.
IsPath(path) == path \in Seq(Range(path))

\* A segment of a pattern fits one of a path.
Fits(s, x) == s \in Params \/ s = x

\* A route of one, two ... five segments.
Row1(r, m, a, h) ==
    /\ r.method = m /\ r.handler = h /\ Len(r.segments) = 1
    /\ DOMAIN r.segments = 1..1
    /\ r.segments[1] = a

Row2(r, m, a, b, h) ==
    /\ r.method = m /\ r.handler = h /\ Len(r.segments) = 2
    /\ DOMAIN r.segments = 1..2
    /\ r.segments[1] = a /\ r.segments[2] = b

Row3(r, m, a, b, c, h) ==
    /\ r.method = m /\ r.handler = h /\ Len(r.segments) = 3
    /\ DOMAIN r.segments = 1..3
    /\ r.segments[1] = a /\ r.segments[2] = b /\ r.segments[3] = c

Row4(r, m, a, b, c, d, h) ==
    /\ r.method = m /\ r.handler = h /\ Len(r.segments) = 4
    /\ DOMAIN r.segments = 1..4
    /\ r.segments[1] = a /\ r.segments[2] = b /\ r.segments[3] = c /\ r.segments[4] = d

Row5(r, m, a, b, c, d, e, h) ==
    /\ r.method = m /\ r.handler = h /\ Len(r.segments) = 5
    /\ DOMAIN r.segments = 1..5
    /\ r.segments[1] = a /\ r.segments[2] = b /\ r.segments[3] = c /\ r.segments[4] = d /\ r.segments[5] = e

\* What R makes of the parts of a route.
LEMMA RowOf1 == \A m, a, h : Row1(R(m, <<a>>, h), m, a, h)
  BY DEF Row1, R

LEMMA RowOf2 == \A m, a, b, h : Row2(R(m, <<a, b>>, h), m, a, b, h)
  BY DEF Row2, R

LEMMA RowOf3 == \A m, a, b, c, h : Row3(R(m, <<a, b, c>>, h), m, a, b, c, h)
  BY DEF Row3, R

LEMMA RowOf4 == \A m, a, b, c, d, h : Row4(R(m, <<a, b, c, d>>, h), m, a, b, c, d, h)
  BY DEF Row4, R

LEMMA RowOf5 == \A m, a, b, c, d, e, h : Row5(R(m, <<a, b, c, d, e>>, h), m, a, b, c, d, e, h)
  BY DEF Row5, R

\* The segments of the table.
LEMMA UserRows ==
    /\ Row1(Routes[1], "GET", "health", "Health")
    /\ Row3(Routes[2], "POST", "api", "user", "register", "Register")
    /\ Row3(Routes[3], "POST", "api", "user", "login", "Login")
    /\ Row3(Routes[4], "POST", "api", "user", "logout", "Logout")
    /\ Row3(Routes[5], "POST", "api", "files", "check", "FileCheck")
  BY UserTable, RowOf1, RowOf3, Zenon

LEMMA UploadRows ==
    /\ Row4(Routes[6], "POST", "api", "files", "upload", "init", "ChunkInit")
    /\ Row5(Routes[7], "POST", "api", "files", "upload", "{uploadId}", "complete", "ChunkComplete")
    /\ Row5(Routes[8], "GET", "api", "files", "upload", "{uploadId}", "status", "ChunkStatus")
    /\ Row5(Routes[9], "POST", "api", "files", "upload", "{uploadId}", "{chunkIndex}", "ChunkUpload")
    /\ Row3(Routes[10], "POST", "api", "files", "upload", "Upload")
  BY UploadTable, RowOf3, RowOf4, RowOf5, Zenon

LEMMA FileRows ==
    /\ Row2(Routes[11], "GET", "api", "files", "ListFiles")
    /\ Row3(Routes[12], "GET", "api", "files", "{fileId}", "Download")
    /\ Row3(Routes[13], "DELETE", "api", "files", "{fileId}", "Delete")
  BY FileTable, RowOf2, RowOf3, Zenon

LEMMA ShareRows ==
    /\ Row3(Routes[14], "GET", "api", "shares", "{token}", "ShareDownload")
    /\ Row2(Routes[15], "POST", "api", "shares", "ShareCreate")
    /\ Row2(Routes[16], "GET", "api", "shares", "ShareList")
    /\ Row3(Routes[17], "DELETE", "api", "shares", "{token}", "ShareDelete")
    /\ Row4(Routes[18], "POST", "api", "shares", "{token}", "save", "ShareSave")
    /\ Row3(Routes[19], "GET", "api", "shares", "ranking", "ShareRanking")
  BY ShareTable, RowOf2, RowOf3, RowOf4, ZenonT(40)

LEMMA OtherRows ==
    /\ Row3(Routes[20], "POST", "api", "llm", "chat", "LlmChat")
    /\ Row3(Routes[21], "POST", "api", "llm", "analyze", "LlmAnalyze")
    /\ Row2(Routes[22], "POST", "api", "search", "Search")
    /\ Row3(Routes[23], "POST", "api", "agent", "chat", "AgentChat")
    /\ Row3(Routes[24], "GET", "api", "admin", "users", "AdminUsers")
    /\ Row5(Routes[25], "PATCH", "api", "admin", "users", "{userId}", "status", "AdminSetStatus")
    /\ Row5(Routes[26], "PATCH", "api", "admin", "users", "{userId}", "admin", "AdminSetAdmin")
  BY OtherTable, RowOf2, RowOf3, RowOf5, ZenonT(40)

\* A route that matches has the method and the length of the request, and fits
\* it segment by segment.
LEMMA Fitting ==
    ASSUME NEW method, NEW path, IsPath(path), NEW route, Matches(route, method, path)
    PROVE  /\ route.method = method /\ Len(path) = Len(route.segments)
           /\ \A i \in 1..Len(path) : Fits(route.segments[i], path[i])
<1>1. DOMAIN path = 1..Len(path) /\ Len(path) \in Nat
  BY LenProperties DEF IsPath
<1> QED
  BY <1>1 DEF Matches, Fits

\* In particular it has as many segments.
LEMMA LengthFits ==
    \A method, path, route : IsPath(path) /\ Matches(route, method, path) =>
        Len(path) = Len(route.segments)
  BY LenProperties DEF IsPath, Matches

\* The same by the number of segments.
LEMMA Fitting1 ==
    ASSUME NEW method, NEW path, IsPath(path), NEW route, Matches(route, method, path),
           NEW m, NEW h, NEW a, Row1(route, m, a, h)
    PROVE  /\ m = method /\ Len(path) = 1
           /\ Fits(a, path[1])
<1>1. /\ route.method = method /\ Len(path) = Len(route.segments)
      /\ \A i \in 1..Len(path) : Fits(route.segments[i], path[i])
  BY Fitting, Zenon
<1>2. /\ route.method = m /\ Len(route.segments) = 1
      /\ route.segments[1] = a
  BY DEF Row1
<1>3. m = method /\ Len(path) = 1
  BY <1>1, <1>2, Zenon
<1>4. /\ 1 \in 1..Len(path)
  BY <1>3
<1> QED
  BY <1>1, <1>2, <1>3, <1>4, Zenon

LEMMA Fitting2 ==
    ASSUME NEW method, NEW path, IsPath(path), NEW route, Matches(route, method, path),
           NEW m, NEW h, NEW a, NEW b, Row2(route, m, a, b, h)
    PROVE  /\ m = method /\ Len(path) = 2
           /\ Fits(a, path[1]) /\ Fits(b, path[2])
<1>1. /\ route.method = method /\ Len(path) = Len(route.segments)
      /\ \A i \in 1..Len(path) : Fits(route.segments[i], path[i])
  BY Fitting, Zenon
<1>2. /\ route.method = m /\ Len(route.segments) = 2
      /\ route.segments[1] = a /\ route.segments[2] = b
  BY DEF Row2
<1>3. m = method /\ Len(path) = 2
  BY <1>1, <1>2, Zenon
<1>4. /\ 1 \in 1..Len(path) /\ 2 \in 1..Len(path)
  BY <1>3
<1> QED
  BY <1>1, <1>2, <1>3, <1>4, Zenon

LEMMA Fitting3 ==
    ASSUME NEW method, NEW path, IsPath(path), NEW route, Matches(route, method, path),
           NEW m, NEW h, NEW a, NEW b, NEW c, Row3(route, m, a, b, c, h)
    PROVE  /\ m = method /\ Len(path) = 3
           /\ Fits(a, path[1]) /\ Fits(b, path[2]) /\ Fits(c, path[3])
<1>1. /\ route.method = method /\ Len(path) = Len(route.segments)
      /\ \A i \in 1..Len(path) : Fits(route.segments[i], path[i])
  BY Fitting, Zenon
<1>2. /\ route.method = m /\ Len(route.segments) = 3
      /\ route.segments[1] = a /\ route.segments[2] = b /\ route.segments[3] = c
  BY DEF Row3
<1>3. m = method /\ Len(path) = 3
  BY <1>1, <1>2, Zenon
<1>4. /\ 1 \in 1..Len(path) /\ 2 \in 1..Len(path) /\ 3 \in 1..Len(path)
  BY <1>3
<1> QED
  BY <1>1, <1>2, <1>3, <1>4, Zenon

LEMMA Fitting4 ==
    ASSUME NEW method, NEW path, IsPath(path), NEW route, Matches(route, method, path),
           NEW m, NEW h, NEW a, NEW b, NEW c, NEW d, Row4(route, m, a, b, c, d, h)
    PROVE  /\ m = method /\ Len(path) = 4
           /\ Fits(a, path[1]) /\ Fits(b, path[2]) /\ Fits(c, path[3]) /\ Fits(d, path[4])
<1>1. /\ route.method = method /\ Len(path) = Len(route.segments)
      /\ \A i \in 1..Len(path) : Fits(route.segments[i], path[i])
  BY Fitting, Zenon
<1>2. /\ route.method = m /\ Len(route.segments) = 4
      /\ route.segments[1] = a /\ route.segments[2] = b /\ route.segments[3] = c /\ route.segments[4] = d
  BY DEF Row4
<1>3. m = method /\ Len(path) = 4
  BY <1>1, <1>2, Zenon
<1>4. /\ 1 \in 1..Len(path) /\ 2 \in 1..Len(path) /\ 3 \in 1..Len(path) /\ 4 \in 1..Len(path)
  BY <1>3
<1> QED
  BY <1>1, <1>2, <1>3, <1>4, Zenon

LEMMA Fitting5 ==
    ASSUME NEW method, NEW path, IsPath(path), NEW route, Matches(route, method, path),
           NEW m, NEW h, NEW a, NEW b, NEW c, NEW d, NEW e, Row5(route, m, a, b, c, d, e, h)
    PROVE  /\ m = method /\ Len(path) = 5
           /\ Fits(a, path[1]) /\ Fits(b, path[2]) /\ Fits(c, path[3]) /\ Fits(d, path[4]) /\ Fits(e, path[5])
<1>1. /\ route.method = method /\ Len(path) = Len(route.segments)
      /\ \A i \in 1..Len(path) : Fits(route.segments[i], path[i])
  BY Fitting, Zenon
<1>2. /\ route.method = m /\ Len(route.segments) = 5
      /\ route.segments[1] = a /\ route.segments[2] = b /\ route.segments[3] = c /\ route.segments[4] = d /\ route.segments[5] = e
  BY DEF Row5
<1>3. m = method /\ Len(path) = 5
  BY <1>1, <1>2, Zenon
<1>4. /\ 1 \in 1..Len(path) /\ 2 \in 1..Len(path) /\ 3 \in 1..Len(path) /\ 4 \in 1..Len(path) /\ 5 \in 1..Len(path)
  BY <1>3
<1> QED
  BY <1>1, <1>2, <1>3, <1>4, Zenon

\* A segment that is no parameter is spelled out by the path.
LEMMA Spelled ==
    /\ \A s, x : Fits(s, x) /\ s \notin Params => x = s
    /\ \A s \in {"health", "api", "user", "register", "login", "logout", "files", "check", "upload",
                  "init", "complete", "status", "shares", "save", "ranking", "llm", "chat", "analyze",
                  "search", "agent", "admin", "users"} : s \notin Params
  BY DEF Fits, Params

\* What a request looks like that the n-th route matches.
Shaped(n, method, path) ==
    \/ /\ n = 1 /\ method = "GET" /\ Len(path) = 1
       /\ path[1] = "health"
    \/ /\ n = 2 /\ method = "POST" /\ Len(path) = 3
       /\ path[1] = "api" /\ path[2] = "user" /\ path[3] = "register"
    \/ /\ n = 3 /\ method = "POST" /\ Len(path) = 3
       /\ path[1] = "api" /\ path[2] = "user" /\ path[3] = "login"
    \/ /\ n = 4 /\ method = "POST" /\ Len(path) = 3
       /\ path[1] = "api" /\ path[2] = "user" /\ path[3] = "logout"
    \/ /\ n = 5 /\ method = "POST" /\ Len(path) = 3
       /\ path[1] = "api" /\ path[2] = "files" /\ path[3] = "check"
    \/ /\ n = 6 /\ method = "POST" /\ Len(path) = 4
       /\ path[1] = "api" /\ path[2] = "files" /\ path[3] = "upload" /\ path[4] = "init"
    \/ /\ n = 7 /\ method = "POST" /\ Len(path) = 5
       /\ path[1] = "api" /\ path[2] = "files" /\ path[3] = "upload" /\ path[5] = "complete"
    \/ /\ n = 8 /\ method = "GET" /\ Len(path) = 5
       /\ path[1] = "api" /\ path[2] = "files" /\ path[3] = "upload" /\ path[5] = "status"
    \/ /\ n = 9 /\ method = "POST" /\ Len(path) = 5
       /\ path[1] = "api" /\ path[2] = "files" /\ path[3] = "upload"
    \/ /\ n = 10 /\ method = "POST" /\ Len(path) = 3
       /\ path[1] = "api" /\ path[2] = "files" /\ path[3] = "upload"
    \/ /\ n = 11 /\ method = "GET" /\ Len(path) = 2
       /\ path[1] = "api" /\ path[2] = "files"
    \/ /\ n = 12 /\ method = "GET" /\ Len(path) = 3
       /\ path[1] = "api" /\ path[2] = "files"
    \/ /\ n = 13 /\ method = "DELETE" /\ Len(path) = 3
       /\ path[1] = "api" /\ path[2] = "files"
    \/ /\ n = 14 /\ method = "GET" /\ Len(path) = 3
       /\ path[1] = "api" /\ path[2] = "shares"
    \/ /\ n = 15 /\ method = "POST" /\ Len(path) = 2
       /\ path[1] = "api" /\ path[2] = "shares"
    \/ /\ n = 16 /\ method = "GET" /\ Len(path) = 2
       /\ path[1] = "api" /\ path[2] = "shares"
    \/ /\ n = 17 /\ method = "DELETE" /\ Len(path) = 3
       /\ path[1] = "api" /\ path[2] = "shares"
    \/ /\ n = 18 /\ method = "POST" /\ Len(path) = 4
       /\ path[1] = "api" /\ path[2] = "shares" /\ path[4] = "save"
    \/ /\ n = 19 /\ method = "GET" /\ Len(path) = 3
       /\ path[1] = "api" /\ path[2] = "shares" /\ path[3] = "ranking"
    \/ /\ n = 20 /\ method = "POST" /\ Len(path) = 3
       /\ path[1] = "api" /\ path[2] = "llm" /\ path[3] = "chat"
    \/ /\ n = 21 /\ method = "POST" /\ Len(path) = 3
       /\ path[1] = "api" /\ path[2] = "llm" /\ path[3] = "analyze"
    \/ /\ n = 22 /\ method = "POST" /\ Len(path) = 2
       /\ path[1] = "api" /\ path[2] = "search"
    \/ /\ n = 23 /\ method = "POST" /\ Len(path) = 3
       /\ path[1] = "api" /\ path[2] = "agent" /\ path[3] = "chat"
    \/ /\ n = 24 /\ method = "GET" /\ Len(path) = 3
       /\ path[1] = "api" /\ path[2] = "admin" /\ path[3] = "users"
    \/ /\ n = 25 /\ method = "PATCH" /\ Len(path) = 5
       /\ path[1] = "api" /\ path[2] = "admin" /\ path[3] = "users" /\ path[5] = "status"
    \/ /\ n = 26 /\ method = "PATCH" /\ Len(path) = 5
       /\ path[1] = "api" /\ path[2] = "admin" /\ path[3] = "users" /\ path[5] = "admin"

LEMMA Shape ==
    ASSUME NEW method, NEW path, IsPath(path), NEW n \in 1..26,
           Matches(Routes[n], method, path)
    PROVE  Shaped(n, method, path)
<1>0. n = 1 \/ n = 2 \/ n = 3 \/ n = 4 \/ n = 5 \/ n = 6 \/ n = 7 \/ n = 8 \/ n = 9
      \/ n = 10 \/ n = 11 \/ n = 12 \/ n = 13 \/ n = 14 \/ n = 15 \/ n = 16 \/ n = 17 \/ n = 18
      \/ n = 19 \/ n = 20 \/ n = 21 \/ n = 22 \/ n = 23 \/ n = 24 \/ n = 25 \/ n = 26
  OBVIOUS
<1>1. CASE n = 1
  <2>1. /\ "GET" = method /\ Len(path) = 1
        /\ Fits("health", path[1])
    <3>1. Matches(Routes[1], method, path)
      BY <1>1
    <3>2. Row1(Routes[1], "GET", "health", "Health")
      BY UserRows, Zenon
    <3> QED
      BY <3>1, <3>2, Fitting1
  <2> QED
    BY <1>1, <2>1, Spelled DEF Shaped
<1>2. CASE n = 2
  <2>1. /\ "POST" = method /\ Len(path) = 3
        /\ Fits("api", path[1]) /\ Fits("user", path[2]) /\ Fits("register", path[3])
    <3>1. Matches(Routes[2], method, path)
      BY <1>2
    <3>2. Row3(Routes[2], "POST", "api", "user", "register", "Register")
      BY UserRows, Zenon
    <3> QED
      BY <3>1, <3>2, Fitting3
  <2> QED
    BY <1>2, <2>1, Spelled DEF Shaped
<1>3. CASE n = 3
  <2>1. /\ "POST" = method /\ Len(path) = 3
        /\ Fits("api", path[1]) /\ Fits("user", path[2]) /\ Fits("login", path[3])
    <3>1. Matches(Routes[3], method, path)
      BY <1>3
    <3>2. Row3(Routes[3], "POST", "api", "user", "login", "Login")
      BY UserRows, Zenon
    <3> QED
      BY <3>1, <3>2, Fitting3
  <2> QED
    BY <1>3, <2>1, Spelled DEF Shaped
<1>4. CASE n = 4
  <2>1. /\ "POST" = method /\ Len(path) = 3
        /\ Fits("api", path[1]) /\ Fits("user", path[2]) /\ Fits("logout", path[3])
    <3>1. Matches(Routes[4], method, path)
      BY <1>4
    <3>2. Row3(Routes[4], "POST", "api", "user", "logout", "Logout")
      BY UserRows, Zenon
    <3> QED
      BY <3>1, <3>2, Fitting3
  <2> QED
    BY <1>4, <2>1, Spelled DEF Shaped
<1>5. CASE n = 5
  <2>1. /\ "POST" = method /\ Len(path) = 3
        /\ Fits("api", path[1]) /\ Fits("files", path[2]) /\ Fits("check", path[3])
    <3>1. Matches(Routes[5], method, path)
      BY <1>5
    <3>2. Row3(Routes[5], "POST", "api", "files", "check", "FileCheck")
      BY UserRows, Zenon
    <3> QED
      BY <3>1, <3>2, Fitting3
  <2> QED
    BY <1>5, <2>1, Spelled DEF Shaped
<1>6. CASE n = 6
  <2>1. /\ "POST" = method /\ Len(path) = 4
        /\ Fits("api", path[1]) /\ Fits("files", path[2]) /\ Fits("upload", path[3]) /\ Fits("init", path[4])
    <3>1. Matches(Routes[6], method, path)
      BY <1>6
    <3>2. Row4(Routes[6], "POST", "api", "files", "upload", "init", "ChunkInit")
      BY UploadRows, Zenon
    <3> QED
      BY <3>1, <3>2, Fitting4
  <2> QED
    BY <1>6, <2>1, Spelled DEF Shaped
<1>7. CASE n = 7
  <2>1. /\ "POST" = method /\ Len(path) = 5
        /\ Fits("api", path[1]) /\ Fits("files", path[2]) /\ Fits("upload", path[3]) /\ Fits("complete", path[5])
    <3>1. Matches(Routes[7], method, path)
      BY <1>7
    <3>2. PICK v : Row5(Routes[7], "POST", "api", "files", "upload", v, "complete", "ChunkComplete")
      BY UploadRows, Zenon
    <3> QED
      BY <3>1, <3>2, Fitting5
  <2> QED
    BY <1>7, <2>1, Spelled DEF Shaped
<1>8. CASE n = 8
  <2>1. /\ "GET" = method /\ Len(path) = 5
        /\ Fits("api", path[1]) /\ Fits("files", path[2]) /\ Fits("upload", path[3]) /\ Fits("status", path[5])
    <3>1. Matches(Routes[8], method, path)
      BY <1>8
    <3>2. PICK v : Row5(Routes[8], "GET", "api", "files", "upload", v, "status", "ChunkStatus")
      BY UploadRows, Zenon
    <3> QED
      BY <3>1, <3>2, Fitting5
  <2> QED
    BY <1>8, <2>1, Spelled DEF Shaped
<1>9. CASE n = 9
  <2>1. /\ "POST" = method /\ Len(path) = 5
        /\ Fits("api", path[1]) /\ Fits("files", path[2]) /\ Fits("upload", path[3])
    <3>1. Matches(Routes[9], method, path)
      BY <1>9
    <3>2. PICK v, w : Row5(Routes[9], "POST", "api", "files", "upload", v, w, "ChunkUpload")
      BY UploadRows, Zenon
    <3> QED
      BY <3>1, <3>2, Fitting5
  <2> QED
    BY <1>9, <2>1, Spelled DEF Shaped
<1>10. CASE n = 10
  <2>1. /\ "POST" = method /\ Len(path) = 3
        /\ Fits("api", path[1]) /\ Fits("files", path[2]) /\ Fits("upload", path[3])
    <3>1. Matches(Routes[10], method, path)
      BY <1>10
    <3>2. Row3(Routes[10], "POST", "api", "files", "upload", "Upload")
      BY UploadRows, Zenon
    <3> QED
      BY <3>1, <3>2, Fitting3
  <2> QED
    BY <1>10, <2>1, Spelled DEF Shaped
<1>11. CASE n = 11
  <2>1. /\ "GET" = method /\ Len(path) = 2
        /\ Fits("api", path[1]) /\ Fits("files", path[2])
    <3>1. Matches(Routes[11], method, path)
      BY <1>11
    <3>2. Row2(Routes[11], "GET", "api", "files", "ListFiles")
      BY FileRows, Zenon
    <3> QED
      BY <3>1, <3>2, Fitting2
  <2> QED
    BY <1>11, <2>1, Spelled DEF Shaped
<1>12. CASE n = 12
  <2>1. /\ "GET" = method /\ Len(path) = 3
        /\ Fits("api", path[1]) /\ Fits("files", path[2])
    <3>1. Matches(Routes[12], method, path)
      BY <1>12
    <3>2. PICK u : Row3(Routes[12], "GET", "api", "files", u, "Download")
      BY FileRows, Zenon
    <3> QED
      BY <3>1, <3>2, Fitting3
  <2> QED
    BY <1>12, <2>1, Spelled DEF Shaped
<1>13. CASE n = 13
  <2>1. /\ "DELETE" = method /\ Len(path) = 3
        /\ Fits("api", path[1]) /\ Fits("files", path[2])
    <3>1. Matches(Routes[13], method, path)
      BY <1>13
    <3>2. PICK u : Row3(Routes[13], "DELETE", "api", "files", u, "Delete")
      BY FileRows, Zenon
    <3> QED
      BY <3>1, <3>2, Fitting3
  <2> QED
    BY <1>13, <2>1, Spelled DEF Shaped
<1>14. CASE n = 14
  <2>1. /\ "GET" = method /\ Len(path) = 3
        /\ Fits("api", path[1]) /\ Fits("shares", path[2])
    <3>1. Matches(Routes[14], method, path)
      BY <1>14
    <3>2. PICK u : Row3(Routes[14], "GET", "api", "shares", u, "ShareDownload")
      BY ShareRows, Zenon
    <3> QED
      BY <3>1, <3>2, Fitting3
  <2> QED
    BY <1>14, <2>1, Spelled DEF Shaped
<1>15. CASE n = 15
  <2>1. /\ "POST" = method /\ Len(path) = 2
        /\ Fits("api", path[1]) /\ Fits("shares", path[2])
    <3>1. Matches(Routes[15], method, path)
      BY <1>15
    <3>2. Row2(Routes[15], "POST", "api", "shares", "ShareCreate")
      BY ShareRows, Zenon
    <3> QED
      BY <3>1, <3>2, Fitting2
  <2> QED
    BY <1>15, <2>1, Spelled DEF Shaped
<1>16. CASE n = 16
  <2>1. /\ "GET" = method /\ Len(path) = 2
        /\ Fits("api", path[1]) /\ Fits("shares", path[2])
    <3>1. Matches(Routes[16], method, path)
      BY <1>16
    <3>2. Row2(Routes[16], "GET", "api", "shares", "ShareList")
      BY ShareRows, Zenon
    <3> QED
      BY <3>1, <3>2, Fitting2
  <2> QED
    BY <1>16, <2>1, Spelled DEF Shaped
<1>17. CASE n = 17
  <2>1. /\ "DELETE" = method /\ Len(path) = 3
        /\ Fits("api", path[1]) /\ Fits("shares", path[2])
    <3>1. Matches(Routes[17], method, path)
      BY <1>17
    <3>2. PICK u : Row3(Routes[17], "DELETE", "api", "shares", u, "ShareDelete")
      BY ShareRows, Zenon
    <3> QED
      BY <3>1, <3>2, Fitting3
  <2> QED
    BY <1>17, <2>1, Spelled DEF Shaped
<1>18. CASE n = 18
  <2>1. /\ "POST" = method /\ Len(path) = 4
        /\ Fits("api", path[1]) /\ Fits("shares", path[2]) /\ Fits("save", path[4])
    <3>1. Matches(Routes[18], method, path)
      BY <1>18
    <3>2. PICK u : Row4(Routes[18], "POST", "api", "shares", u, "save", "ShareSave")
      BY ShareRows, Zenon
    <3> QED
      BY <3>1, <3>2, Fitting4
  <2> QED
    BY <1>18, <2>1, Spelled DEF Shaped
<1>19. CASE n = 19
  <2>1. /\ "GET" = method /\ Len(path) = 3
        /\ Fits("api", path[1]) /\ Fits("shares", path[2]) /\ Fits("ranking", path[3])
    <3>1. Matches(Routes[19], method, path)
      BY <1>19
    <3>2. Row3(Routes[19], "GET", "api", "shares", "ranking", "ShareRanking")
      BY ShareRows, Zenon
    <3> QED
      BY <3>1, <3>2, Fitting3
  <2> QED
    BY <1>19, <2>1, Spelled DEF Shaped
<1>20. CASE n = 20
  <2>1. /\ "POST" = method /\ Len(path) = 3
        /\ Fits("api", path[1]) /\ Fits("llm", path[2]) /\ Fits("chat", path[3])
    <3>1. Matches(Routes[20], method, path)
      BY <1>20
    <3>2. Row3(Routes[20], "POST", "api", "llm", "chat", "LlmChat")
      BY OtherRows, Zenon
    <3> QED
      BY <3>1, <3>2, Fitting3
  <2> QED
    BY <1>20, <2>1, Spelled DEF Shaped
<1>21. CASE n = 21
  <2>1. /\ "POST" = method /\ Len(path) = 3
        /\ Fits("api", path[1]) /\ Fits("llm", path[2]) /\ Fits("analyze", path[3])
    <3>1. Matches(Routes[21], method, path)
      BY <1>21
    <3>2. Row3(Routes[21], "POST", "api", "llm", "analyze", "LlmAnalyze")
      BY OtherRows, Zenon
    <3> QED
      BY <3>1, <3>2, Fitting3
  <2> QED
    BY <1>21, <2>1, Spelled DEF Shaped
<1>22. CASE n = 22
  <2>1. /\ "POST" = method /\ Len(path) = 2
        /\ Fits("api", path[1]) /\ Fits("search", path[2])
    <3>1. Matches(Routes[22], method, path)
      BY <1>22
    <3>2. Row2(Routes[22], "POST", "api", "search", "Search")
      BY OtherRows, Zenon
    <3> QED
      BY <3>1, <3>2, Fitting2
  <2> QED
    BY <1>22, <2>1, Spelled DEF Shaped
<1>23. CASE n = 23
  <2>1. /\ "POST" = method /\ Len(path) = 3
        /\ Fits("api", path[1]) /\ Fits("agent", path[2]) /\ Fits("chat", path[3])
    <3>1. Matches(Routes[23], method, path)
      BY <1>23
    <3>2. Row3(Routes[23], "POST", "api", "agent", "chat", "AgentChat")
      BY OtherRows, Zenon
    <3> QED
      BY <3>1, <3>2, Fitting3
  <2> QED
    BY <1>23, <2>1, Spelled DEF Shaped
<1>24. CASE n = 24
  <2>1. /\ "GET" = method /\ Len(path) = 3
        /\ Fits("api", path[1]) /\ Fits("admin", path[2]) /\ Fits("users", path[3])
    <3>1. Matches(Routes[24], method, path)
      BY <1>24
    <3>2. Row3(Routes[24], "GET", "api", "admin", "users", "AdminUsers")
      BY OtherRows, Zenon
    <3> QED
      BY <3>1, <3>2, Fitting3
  <2> QED
    BY <1>24, <2>1, Spelled DEF Shaped
<1>25. CASE n = 25
  <2>1. /\ "PATCH" = method /\ Len(path) = 5
        /\ Fits("api", path[1]) /\ Fits("admin", path[2]) /\ Fits("users", path[3]) /\ Fits("status", path[5])
    <3>1. Matches(Routes[25], method, path)
      BY <1>25
    <3>2. PICK v : Row5(Routes[25], "PATCH", "api", "admin", "users", v, "status", "AdminSetStatus")
      BY OtherRows, Zenon
    <3> QED
      BY <3>1, <3>2, Fitting5
  <2> QED
    BY <1>25, <2>1, Spelled DEF Shaped
<1>26. CASE n = 26
  <2>1. /\ "PATCH" = method /\ Len(path) = 5
        /\ Fits("api", path[1]) /\ Fits("admin", path[2]) /\ Fits("users", path[3]) /\ Fits("admin", path[5])
    <3>1. Matches(Routes[26], method, path)
      BY <1>26
    <3>2. PICK v : Row5(Routes[26], "PATCH", "api", "admin", "users", v, "admin", "AdminSetAdmin")
      BY OtherRows, Zenon
    <3> QED
      BY <3>1, <3>2, Fitting5
  <2> QED
    BY <1>26, <2>1, Spelled DEF Shaped
<1> QED
  BY <1>0, <1>1, <1>2, <1>3, <1>4, <1>5, <1>6, <1>7, <1>8, <1>9, <1>10, <1>11, <1>12, <1>13, <1>14, <1>15, <1>16, <1>17, <1>18, <1>19, <1>20, <1>21, <1>22, <1>23, <1>24, <1>25, <1>26, Zenon

\* Two routes match the same request in one case only besides the ranking of
\* the shares: a completion also fits the pattern of a chunk.
LEMMA Overlap ==
    ASSUME NEW method, NEW path, NEW d \in 1..26, NEW m \in 1..26, d < m,
           Shaped(d, method, path), Shaped(m, method, path)
    PROVE  \/ d = 7 /\ m = 9 /\ Len(path) = 5 /\ path[5] = "complete"
              /\ path[1] = "api" /\ path[2] = "files" /\ path[3] = "upload"
           \/ /\ method = "GET" /\ Len(path) = 3
              /\ path[1] = "api" /\ path[2] = "shares" /\ path[3] = "ranking"
  BY DEF Shaped

\* Dispatch gives the least number of a route that matches.
LEMMA DispatchLeast ==
    ASSUME NEW method, NEW path, Dispatch(method, path) # 0
    PROVE  /\ Dispatch(method, path) \in 1..26
           /\ Matches(Routes[Dispatch(method, path)], method, path)
           /\ \A m \in 1..26 : Matches(Routes[m], method, path) => Dispatch(method, path) <= m
<1>1. DOMAIN Routes = 1..26
  BY RouteAt
<1>2. PICK hits : hits = {n \in DOMAIN Routes : Matches(Routes[n], method, path)}
  OBVIOUS
<1>3. hits \subseteq Nat /\ hits # {}
  BY <1>1, <1>2 DEF Dispatch
<1>4. \E n \in hits : \A m \in hits : n <= m
  BY <1>3, Smallest, Zenon
<1> QED
  BY <1>1, <1>2, <1>3, <1>4 DEF Dispatch

\* A handler finds the parameter.
Found(route, path, name) == Cardinality({p \in Bound(route, path) : p[1] = name}) = 1

\* A parameter that the pattern names in one place is found.
LEMMA FoundOnce ==
    ASSUME NEW path, IsPath(path), NEW route, NEW k \in 1..Len(path), route.segments[k] \in Params,
           \A i \in 1..Len(path) : route.segments[i] = route.segments[k] => i = k
    PROVE  Found(route, path, route.segments[k])
<1>1. DOMAIN path = 1..Len(path)
  BY LenProperties DEF IsPath
<1>2. {p \in Bound(route, path) : p[1] = route.segments[k]} = {<<route.segments[k], path[k]>>}
  BY <1>1 DEF Bound
<1> QED
  BY <1>2, FS_Singleton DEF Found

LEMMA Found3 ==
    ASSUME NEW path, IsPath(path), Len(path) = 3, NEW route, NEW m, NEW h,
           NEW a, NEW b, NEW c, Row3(route, m, a, b, c, h)
    PROVE  c \in Params /\ c \notin {a, b} => Found(route, path, c)
<1>1. /\ route.segments[1] = a /\ route.segments[2] = b /\ route.segments[3] = c
  BY DEF Row3
<1>2. ASSUME c \in Params, c \notin {a, b}
      PROVE  Found(route, path, c)
  <2>1. 3 \in 1..Len(path) /\ \A i \in 1..Len(path) : route.segments[i] = route.segments[3] => i = 3
    BY <1>1, <1>2
  <2> QED
    BY <1>1, <1>2, <2>1, FoundOnce
<1> QED
  BY <1>2

LEMMA Found4 ==
    ASSUME NEW path, IsPath(path), Len(path) = 4, NEW route, NEW m, NEW h,
           NEW a, NEW b, NEW c, NEW d, Row4(route, m, a, b, c, d, h)
    PROVE  c \in Params /\ c \notin {a, b, d} => Found(route, path, c)
<1>1. /\ route.segments[1] = a /\ route.segments[2] = b /\ route.segments[3] = c /\ route.segments[4] = d
  BY DEF Row4
<1>2. ASSUME c \in Params, c \notin {a, b, d}
      PROVE  Found(route, path, c)
  <2>1. 3 \in 1..Len(path) /\ \A i \in 1..Len(path) : route.segments[i] = route.segments[3] => i = 3
    BY <1>1, <1>2
  <2> QED
    BY <1>1, <1>2, <2>1, FoundOnce
<1> QED
  BY <1>2

LEMMA Found5 ==
    ASSUME NEW path, IsPath(path), Len(path) = 5, NEW route, NEW m, NEW h,
           NEW a, NEW b, NEW c, NEW d, NEW e, Row5(route, m, a, b, c, d, e, h)
    PROVE  /\ d \in Params /\ d \notin {a, b, c, e} => Found(route, path, d)
           /\ e \in Params /\ e \notin {a, b, c, d} => Found(route, path, e)
<1>1. /\ route.segments[1] = a /\ route.segments[2] = b /\ route.segments[3] = c /\ route.segments[4] = d /\ route.segments[5] = e
  BY DEF Row5
<1>2. ASSUME d \in Params, d \notin {a, b, c, e}
      PROVE  Found(route, path, d)
  <2>1. 4 \in 1..Len(path) /\ \A i \in 1..Len(path) : route.segments[i] = route.segments[4] => i = 4
    BY <1>1, <1>2
  <2> QED
    BY <1>1, <1>2, <2>1, FoundOnce
<1>3. ASSUME e \in Params, e \notin {a, b, c, d}
      PROVE  Found(route, path, e)
  <2>1. 5 \in 1..Len(path) /\ \A i \in 1..Len(path) : route.segments[i] = route.segments[5] => i = 5
    BY <1>1, <1>3
  <2> QED
    BY <1>1, <1>3, <2>1, FoundOnce
<1> QED
  BY <1>2, <1>3

\* A handler that no parameter is listed for reads none.
LEMMA NoReads ==
    ASSUME NEW h,
           h \notin {"ChunkUpload", "ChunkComplete", "ChunkStatus", "Download", "Delete", "ShareDownload",
                     "ShareDelete", "ShareSave", "AdminSetStatus", "AdminSetAdmin"}
    PROVE  Reads(h) = {}
  BY Zenon DEF Reads

\* The handler of a route that matches finds each parameter it asks for.
LEMMA ReadsFound ==
    ASSUME NEW method, NEW path, IsPath(path), NEW n \in 1..26, Matches(Routes[n], method, path),
           NEW name \in Reads(Routes[n].handler)
    PROVE  Found(Routes[n], path, name)
<1>0. n = 1 \/ n = 2 \/ n = 3 \/ n = 4 \/ n = 5 \/ n = 6 \/ n = 7 \/ n = 8 \/ n = 9
      \/ n = 10 \/ n = 11 \/ n = 12 \/ n = 13 \/ n = 14 \/ n = 15 \/ n = 16 \/ n = 17 \/ n = 18
      \/ n = 19 \/ n = 20 \/ n = 21 \/ n = 22 \/ n = 23 \/ n = 24 \/ n = 25 \/ n = 26
  OBVIOUS
<1>len. Len(path) = Len(Routes[n].segments)
  BY LengthFits, Zenon
<1>1. CASE n = 1
  <2>1. Routes[1].handler = "Health"
    BY UserRows DEF Row1
  <2> QED
    BY <1>1, <2>1, NoReads, Zenon
<1>2. CASE n = 2
  <2>1. Routes[2].handler = "Register"
    BY UserRows DEF Row3
  <2> QED
    BY <1>2, <2>1, NoReads, Zenon
<1>3. CASE n = 3
  <2>1. Routes[3].handler = "Login"
    BY UserRows DEF Row3
  <2> QED
    BY <1>3, <2>1, NoReads, Zenon
<1>4. CASE n = 4
  <2>1. Routes[4].handler = "Logout"
    BY UserRows DEF Row3
  <2> QED
    BY <1>4, <2>1, NoReads, Zenon
<1>5. CASE n = 5
  <2>1. Routes[5].handler = "FileCheck"
    BY UserRows DEF Row3
  <2> QED
    BY <1>5, <2>1, NoReads, Zenon
<1>6. CASE n = 6
  <2>1. Routes[6].handler = "ChunkInit"
    BY UploadRows DEF Row4
  <2> QED
    BY <1>6, <2>1, NoReads, Zenon
<1>7. CASE n = 7
  <2>1. Row5(Routes[7], "POST", "api", "files", "upload", "{uploadId}", "complete", "ChunkComplete")
    BY UploadRows, Zenon
  <2>2. Routes[7].handler = "ChunkComplete" /\ Len(Routes[7].segments) = 5
    BY <2>1, Zenon DEF Row5
  <2>3. Len(path) = 5
    BY <1>len, <1>7, <2>2, Zenon
  <2>4. name = "{uploadId}"
    BY <1>7, <2>2, Zenon DEF Reads
  <2>5. PICK s :
           /\ /\ s = "{uploadId}" /\ s \in Params /\ s \notin {"api", "files", "upload", "complete"}
           /\ Row5(Routes[7], "POST", "api", "files", "upload", s, "complete", "ChunkComplete")
    BY <2>1, Zenon DEF Params
  <2>6. Found(Routes[7], path, s)
    BY <2>3, <2>5, Found5
  <2> QED
    BY <1>7, <2>4, <2>5, <2>6, Zenon
<1>8. CASE n = 8
  <2>1. Row5(Routes[8], "GET", "api", "files", "upload", "{uploadId}", "status", "ChunkStatus")
    BY UploadRows, Zenon
  <2>2. Routes[8].handler = "ChunkStatus" /\ Len(Routes[8].segments) = 5
    BY <2>1, Zenon DEF Row5
  <2>3. Len(path) = 5
    BY <1>len, <1>8, <2>2, Zenon
  <2>4. name = "{uploadId}"
    BY <1>8, <2>2, Zenon DEF Reads
  <2>5. PICK s :
           /\ /\ s = "{uploadId}" /\ s \in Params /\ s \notin {"api", "files", "upload", "status"}
           /\ Row5(Routes[8], "GET", "api", "files", "upload", s, "status", "ChunkStatus")
    BY <2>1, Zenon DEF Params
  <2>6. Found(Routes[8], path, s)
    BY <2>3, <2>5, Found5
  <2> QED
    BY <1>8, <2>4, <2>5, <2>6, Zenon
<1>9. CASE n = 9
  <2>1. Row5(Routes[9], "POST", "api", "files", "upload", "{uploadId}", "{chunkIndex}", "ChunkUpload")
    BY UploadRows, Zenon
  <2>2. Routes[9].handler = "ChunkUpload" /\ Len(Routes[9].segments) = 5
    BY <2>1, Zenon DEF Row5
  <2>3. Len(path) = 5
    BY <1>len, <1>9, <2>2, Zenon
  <2>4. name = "{uploadId}" \/ name = "{chunkIndex}"
    BY <1>9, <2>2, Zenon DEF Reads
  <2>5. PICK s, t :
           /\ /\ s = "{uploadId}" /\ s \in Params /\ s \notin {"api", "files", "upload", t}
           /\ /\ t = "{chunkIndex}" /\ t \in Params /\ t \notin {"api", "files", "upload", s}
           /\ Row5(Routes[9], "POST", "api", "files", "upload", s, t, "ChunkUpload")
    BY <2>1, Zenon DEF Params
  <2>6. Found(Routes[9], path, s) /\ Found(Routes[9], path, t)
    BY <2>3, <2>5, Found5
  <2> QED
    BY <1>9, <2>4, <2>5, <2>6, Zenon
<1>10. CASE n = 10
  <2>1. Routes[10].handler = "Upload"
    BY UploadRows DEF Row3
  <2> QED
    BY <1>10, <2>1, NoReads, Zenon
<1>11. CASE n = 11
  <2>1. Routes[11].handler = "ListFiles"
    BY FileRows DEF Row2
  <2> QED
    BY <1>11, <2>1, NoReads, Zenon
<1>12. CASE n = 12
  <2>1. Row3(Routes[12], "GET", "api", "files", "{fileId}", "Download")
    BY FileRows, Zenon
  <2>2. Routes[12].handler = "Download" /\ Len(Routes[12].segments) = 3
    BY <2>1, Zenon DEF Row3
  <2>3. Len(path) = 3
    BY <1>len, <1>12, <2>2, Zenon
  <2>4. name = "{fileId}"
    BY <1>12, <2>2, Zenon DEF Reads
  <2>5. PICK x :
           /\ /\ x = "{fileId}" /\ x \in Params /\ x \notin {"api", "files"}
           /\ Row3(Routes[12], "GET", "api", "files", x, "Download")
    BY <2>1, Zenon DEF Params
  <2>6. Found(Routes[12], path, x)
    BY <2>3, <2>5, Found3
  <2> QED
    BY <1>12, <2>4, <2>5, <2>6, Zenon
<1>13. CASE n = 13
  <2>1. Row3(Routes[13], "DELETE", "api", "files", "{fileId}", "Delete")
    BY FileRows, Zenon
  <2>2. Routes[13].handler = "Delete" /\ Len(Routes[13].segments) = 3
    BY <2>1, Zenon DEF Row3
  <2>3. Len(path) = 3
    BY <1>len, <1>13, <2>2, Zenon
  <2>4. name = "{fileId}"
    BY <1>13, <2>2, Zenon DEF Reads
  <2>5. PICK x :
           /\ /\ x = "{fileId}" /\ x \in Params /\ x \notin {"api", "files"}
           /\ Row3(Routes[13], "DELETE", "api", "files", x, "Delete")
    BY <2>1, Zenon DEF Params
  <2>6. Found(Routes[13], path, x)
    BY <2>3, <2>5, Found3
  <2> QED
    BY <1>13, <2>4, <2>5, <2>6, Zenon
<1>14. CASE n = 14
  <2>1. Row3(Routes[14], "GET", "api", "shares", "{token}", "ShareDownload")
    BY ShareRows, Zenon
  <2>2. Routes[14].handler = "ShareDownload" /\ Len(Routes[14].segments) = 3
    BY <2>1, Zenon DEF Row3
  <2>3. Len(path) = 3
    BY <1>len, <1>14, <2>2, Zenon
  <2>4. name = "{token}"
    BY <1>14, <2>2, Zenon DEF Reads
  <2>5. PICK x :
           /\ /\ x = "{token}" /\ x \in Params /\ x \notin {"api", "shares"}
           /\ Row3(Routes[14], "GET", "api", "shares", x, "ShareDownload")
    BY <2>1, Zenon DEF Params
  <2>6. Found(Routes[14], path, x)
    BY <2>3, <2>5, Found3
  <2> QED
    BY <1>14, <2>4, <2>5, <2>6, Zenon
<1>15. CASE n = 15
  <2>1. Routes[15].handler = "ShareCreate"
    BY ShareRows DEF Row2
  <2> QED
    BY <1>15, <2>1, NoReads, Zenon
<1>16. CASE n = 16
  <2>1. Routes[16].handler = "ShareList"
    BY ShareRows DEF Row2
  <2> QED
    BY <1>16, <2>1, NoReads, Zenon
<1>17. CASE n = 17
  <2>1. Row3(Routes[17], "DELETE", "api", "shares", "{token}", "ShareDelete")
    BY ShareRows, Zenon
  <2>2. Routes[17].handler = "ShareDelete" /\ Len(Routes[17].segments) = 3
    BY <2>1, Zenon DEF Row3
  <2>3. Len(path) = 3
    BY <1>len, <1>17, <2>2, Zenon
  <2>4. name = "{token}"
    BY <1>17, <2>2, Zenon DEF Reads
  <2>5. PICK x :
           /\ /\ x = "{token}" /\ x \in Params /\ x \notin {"api", "shares"}
           /\ Row3(Routes[17], "DELETE", "api", "shares", x, "ShareDelete")
    BY <2>1, Zenon DEF Params
  <2>6. Found(Routes[17], path, x)
    BY <2>3, <2>5, Found3
  <2> QED
    BY <1>17, <2>4, <2>5, <2>6, Zenon
<1>18. CASE n = 18
  <2>1. Row4(Routes[18], "POST", "api", "shares", "{token}", "save", "ShareSave")
    BY ShareRows, Zenon
  <2>2. Routes[18].handler = "ShareSave" /\ Len(Routes[18].segments) = 4
    BY <2>1, Zenon DEF Row4
  <2>3. Len(path) = 4
    BY <1>len, <1>18, <2>2, Zenon
  <2>4. name = "{token}"
    BY <1>18, <2>2, Zenon DEF Reads
  <2>5. PICK x :
           /\ /\ x = "{token}" /\ x \in Params /\ x \notin {"api", "shares", "save"}
           /\ Row4(Routes[18], "POST", "api", "shares", x, "save", "ShareSave")
    BY <2>1, Zenon DEF Params
  <2>6. Found(Routes[18], path, x)
    BY <2>3, <2>5, Found4
  <2> QED
    BY <1>18, <2>4, <2>5, <2>6, Zenon
<1>19. CASE n = 19
  <2>1. Routes[19].handler = "ShareRanking"
    BY ShareRows DEF Row3
  <2> QED
    BY <1>19, <2>1, NoReads, Zenon
<1>20. CASE n = 20
  <2>1. Routes[20].handler = "LlmChat"
    BY OtherRows DEF Row3
  <2> QED
    BY <1>20, <2>1, NoReads, Zenon
<1>21. CASE n = 21
  <2>1. Routes[21].handler = "LlmAnalyze"
    BY OtherRows DEF Row3
  <2> QED
    BY <1>21, <2>1, NoReads, Zenon
<1>22. CASE n = 22
  <2>1. Routes[22].handler = "Search"
    BY OtherRows DEF Row2
  <2> QED
    BY <1>22, <2>1, NoReads, Zenon
<1>23. CASE n = 23
  <2>1. Routes[23].handler = "AgentChat"
    BY OtherRows DEF Row3
  <2> QED
    BY <1>23, <2>1, NoReads, Zenon
<1>24. CASE n = 24
  <2>1. Routes[24].handler = "AdminUsers"
    BY OtherRows DEF Row3
  <2> QED
    BY <1>24, <2>1, NoReads, Zenon
<1>25. CASE n = 25
  <2>1. Row5(Routes[25], "PATCH", "api", "admin", "users", "{userId}", "status", "AdminSetStatus")
    BY OtherRows, Zenon
  <2>2. Routes[25].handler = "AdminSetStatus" /\ Len(Routes[25].segments) = 5
    BY <2>1, Zenon DEF Row5
  <2>3. Len(path) = 5
    BY <1>len, <1>25, <2>2, Zenon
  <2>4. name = "{userId}"
    BY <1>25, <2>2, Zenon DEF Reads
  <2>5. PICK s :
           /\ /\ s = "{userId}" /\ s \in Params /\ s \notin {"api", "admin", "users", "status"}
           /\ Row5(Routes[25], "PATCH", "api", "admin", "users", s, "status", "AdminSetStatus")
    BY <2>1, Zenon DEF Params
  <2>6. Found(Routes[25], path, s)
    BY <2>3, <2>5, Found5
  <2> QED
    BY <1>25, <2>4, <2>5, <2>6, Zenon
<1>26. CASE n = 26
  <2>1. Row5(Routes[26], "PATCH", "api", "admin", "users", "{userId}", "admin", "AdminSetAdmin")
    BY OtherRows, Zenon
  <2>2. Routes[26].handler = "AdminSetAdmin" /\ Len(Routes[26].segments) = 5
    BY <2>1, Zenon DEF Row5
  <2>3. Len(path) = 5
    BY <1>len, <1>26, <2>2, Zenon
  <2>4. name = "{userId}"
    BY <1>26, <2>2, Zenon DEF Reads
  <2>5. PICK s :
           /\ /\ s = "{userId}" /\ s \in Params /\ s \notin {"api", "admin", "users", "admin"}
           /\ Row5(Routes[26], "PATCH", "api", "admin", "users", s, "admin", "AdminSetAdmin")
    BY <2>1, Zenon DEF Params
  <2>6. Found(Routes[26], path, s)
    BY <2>3, <2>5, Found5
  <2> QED
    BY <1>26, <2>4, <2>5, <2>6, Zenon
<1> QED
  BY <1>0, <1>1, <1>2, <1>3, <1>4, <1>5, <1>6, <1>7, <1>8, <1>9, <1>10, <1>11, <1>12, <1>13, <1>14, <1>15, <1>16, <1>17, <1>18, <1>19, <1>20, <1>21, <1>22, <1>23, <1>24, <1>25, <1>26, Zenon

\* The segments of a route are numbered from 1.
LEMMA RouteLength == \A n \in 1..26 : \E k \in Nat : DOMAIN Routes[n].segments = 1..k
<1>0. \A k \in {1, 2, 3, 4, 5} : k \in Nat
  OBVIOUS
<1> SUFFICES ASSUME NEW n \in 1..26
             PROVE  \E k \in {1, 2, 3, 4, 5} : DOMAIN Routes[n].segments = 1..k
  BY <1>0, Zenon
<1>a. n = 1 \/ n = 2 \/ n = 3 \/ n = 4 \/ n = 5 \/ n = 6 \/ n = 7 \/ n = 8 \/ n = 9
      \/ n = 10 \/ n = 11 \/ n = 12 \/ n = 13 \/ n = 14 \/ n = 15 \/ n = 16 \/ n = 17 \/ n = 18
      \/ n = 19 \/ n = 20 \/ n = 21 \/ n = 22 \/ n = 23 \/ n = 24 \/ n = 25 \/ n = 26
  OBVIOUS
<1>1. DOMAIN Routes[1].segments = 1..1
  BY UserRows, Zenon DEF Row1
<1>2. DOMAIN Routes[2].segments = 1..3
  BY UserRows, Zenon DEF Row3
<1>3. DOMAIN Routes[3].segments = 1..3
  BY UserRows, Zenon DEF Row3
<1>4. DOMAIN Routes[4].segments = 1..3
  BY UserRows, Zenon DEF Row3
<1>5. DOMAIN Routes[5].segments = 1..3
  BY UserRows, Zenon DEF Row3
<1>6. DOMAIN Routes[6].segments = 1..4
  BY UploadRows, Zenon DEF Row4
<1>7. DOMAIN Routes[7].segments = 1..5
  BY UploadRows, Zenon DEF Row5
<1>8. DOMAIN Routes[8].segments = 1..5
  BY UploadRows, Zenon DEF Row5
<1>9. DOMAIN Routes[9].segments = 1..5
  BY UploadRows, Zenon DEF Row5
<1>10. DOMAIN Routes[10].segments = 1..3
  BY UploadRows, Zenon DEF Row3
<1>11. DOMAIN Routes[11].segments = 1..2
  BY FileRows, Zenon DEF Row2
<1>12. DOMAIN Routes[12].segments = 1..3
  BY FileRows, Zenon DEF Row3
<1>13. DOMAIN Routes[13].segments = 1..3
  BY FileRows, Zenon DEF Row3
<1>14. DOMAIN Routes[14].segments = 1..3
  BY ShareRows, Zenon DEF Row3
<1>15. DOMAIN Routes[15].segments = 1..2
  BY ShareRows, Zenon DEF Row2
<1>16. DOMAIN Routes[16].segments = 1..2
  BY ShareRows, Zenon DEF Row2
<1>17. DOMAIN Routes[17].segments = 1..3
  BY ShareRows, Zenon DEF Row3
<1>18. DOMAIN Routes[18].segments = 1..4
  BY ShareRows, Zenon DEF Row4
<1>19. DOMAIN Routes[19].segments = 1..3
  BY ShareRows, Zenon DEF Row3
<1>20. DOMAIN Routes[20].segments = 1..3
  BY OtherRows, Zenon DEF Row3
<1>21. DOMAIN Routes[21].segments = 1..3
  BY OtherRows, Zenon DEF Row3
<1>22. DOMAIN Routes[22].segments = 1..2
  BY OtherRows, Zenon DEF Row2
<1>23. DOMAIN Routes[23].segments = 1..3
  BY OtherRows, Zenon DEF Row3
<1>24. DOMAIN Routes[24].segments = 1..3
  BY OtherRows, Zenon DEF Row3
<1>25. DOMAIN Routes[25].segments = 1..5
  BY OtherRows, Zenon DEF Row5
<1>26. DOMAIN Routes[26].segments = 1..5
  BY OtherRows, Zenon DEF Row5
<1> QED
  BY <1>a, <1>1, <1>2, <1>3, <1>4, <1>5, <1>6, <1>7, <1>8, <1>9, <1>10, <1>11, <1>12, <1>13, <1>14, <1>15, <1>16, <1>17, <1>18, <1>19, <1>20, <1>21, <1>22, <1>23, <1>24, <1>25, <1>26, Zenon

\* A path that a client asks for is a sequence.
LEMMA Paths == \A r \in Requests : IsPath(r.path)
<1>1. ASSUME NEW n \in 1..26, NEW p \in Instances(Routes[n])
      PROVE  IsPath(p)
  <2>1. PICK k \in Nat : DOMAIN Routes[n].segments = 1..k
    BY RouteLength, Zenon
  <2>2. PICK e : p = [i \in 1..k |-> e[i]]
    <3>1. PICK v : p = [i \in DOMAIN Routes[n].segments |->
            IF Routes[n].segments[i] \in Params THEN v[i] ELSE Routes[n].segments[i]]
      BY DEF Instances
    <3>2. p = [i \in 1..k |-> p[i]]
      BY <2>1, <3>1
    <3> QED
      BY <3>2
  <2>3. p \in [1..k -> Range(p)]
    BY <2>2 DEF Range
  <2> QED
    BY <2>1, <2>3, SeqDef DEF IsPath
<1>2. IsPath(<<"nowhere">>)
  BY DEF IsPath, Range
<1>3. ASSUME NEW a \in Asked
      PROVE  IsPath(a[2])
  <2>1. CASE a = <<"GET", <<"nowhere">>>>
    BY <1>2, <2>1
  <2>2. a \in UNION {{<<Routes[n].method, p>> : p \in Instances(Routes[n])} : n \in DOMAIN Routes}
        \/ a = <<"GET", <<"nowhere">>>>
    <3>1. \A S, x : a \in {x} \cup S => a \in S \/ a = x
      OBVIOUS
    <3> QED
      BY <3>1, Zenon DEF Asked
  <2>3. ASSUME NEW n \in DOMAIN Routes, NEW p \in Instances(Routes[n]), a = <<Routes[n].method, p>>
        PROVE  IsPath(a[2])
    BY <1>1, <2>3, RouteAt
  <2> QED
    BY <2>1, <2>2, <2>3, Zenon
<1> QED
  BY <1>3 DEF Requests

\* What the loop keeps: the requests are some that a client makes, and a handler
\* runs for the route that was chosen, with the parameters of its pattern.
FrontInv ==
    /\ backlog \in Seq(Requests) /\ req \in Requests
    /\ phase = "handle" =>
          /\ Dispatch(req.method, req.path) # 0
          /\ params = Bound(Chosen, req.path)

LEMMA FrontInitInv == Init => FrontInv
  BY DEF Init, FrontInv

LEMMA FrontStep == FrontInv /\ [Next]_vars => FrontInv'
<1> SUFFICES ASSUME FrontInv, [Next]_vars
             PROVE  FrontInv'
  OBVIOUS
<1>1. ASSUME NEW c \in Clients, Ask(c)
      PROVE  FrontInv'
  BY <1>1, AppendProperties DEF Ask, FrontInv, Chosen
<1>2. ASSUME Accept
      PROVE  FrontInv'
  <2>1. Head(backlog) \in Requests /\ Tail(backlog) \in Seq(Requests)
    BY <1>2, HeadTailProperties DEF Accept, FrontInv
  <2> QED
    BY <1>2, <2>1 DEF Accept, FrontInv
<1>3. ASSUME Die
      PROVE  FrontInv'
  BY <1>3 DEF Die, FrontInv
<1>4. ASSUME Parse
      PROVE  FrontInv'
  BY <1>4 DEF Parse, FrontInv, Chosen
<1>5. ASSUME Write \/ Return \/ Throw \/ Send
      PROVE  FrontInv'
  BY <1>5 DEF Write, Return, Throw, Send, FrontInv, Chosen
<1>6. CASE UNCHANGED vars
  BY <1>6 DEF vars, FrontInv, Chosen
<1> QED
  BY <1>1, <1>2, <1>3, <1>4, <1>5, <1>6 DEF Next, ParseThrows, AcceptFails

LEMMA InvParamsFound == FrontInv => ParamsFound
<1> SUFFICES ASSUME FrontInv, phase = "handle", NEW name \in Reads(Chosen.handler)
             PROVE  Cardinality({p \in params : p[1] = name}) = 1
  BY DEF ParamsFound
<1>1. PICK n : n = Dispatch(req.method, req.path)
  OBVIOUS
<1>2. /\ n \in 1..26 /\ Matches(Routes[n], req.method, req.path)
      /\ Chosen = Routes[n] /\ params = Bound(Routes[n], req.path)
  BY <1>1, DispatchLeast DEF FrontInv, Chosen
<1>3. IsPath(req.path)
  BY Paths DEF FrontInv
<1>4. Found(Routes[n], req.path, name)
  BY <1>2, <1>3, ReadsFound
<1> QED
  BY <1>2, <1>4 DEF Found

\* A handler finds each path parameter it asks for, once, whatever stands in the
\* path: Router::match fills req.params for the handlers that main() registers.
THEOREM HandlersFindParams == Spec => []ParamsFound
<1> QED
  BY FrontInitInv, FrontStep, InvParamsFound, PTL DEF Spec

LEMMA InvRoutesApart == FrontInv => RoutesApart
<1> SUFFICES ASSUME FrontInv, phase = "handle", 
                    ~(req.method = "GET" /\ req.path = <<"api", "shares", "ranking">>)
             PROVE  BestMatch
  BY DEF RoutesApart
<1>1. PICK d : d = Dispatch(req.method, req.path)
  OBVIOUS
<1>2. /\ d \in 1..26 /\ Matches(Routes[d], req.method, req.path)
      /\ Chosen = Routes[d]
      /\ \A m \in 1..26 : Matches(Routes[m], req.method, req.path) => d <= m
  BY <1>1, DispatchLeast DEF FrontInv, Chosen
<1>3. IsPath(req.path)
  BY Paths DEF FrontInv
<1> SUFFICES ASSUME NEW m \in 1..26, Matches(Routes[m], req.method, req.path), d # m
             PROVE  ~(Literal(Chosen, req.path) \subseteq Literal(Routes[m], req.path))
  BY <1>2, RouteAt DEF BestMatch
<1>4. Shaped(d, req.method, req.path) /\ Shaped(m, req.method, req.path) /\ d < m
  BY <1>2, <1>3, Shape
<1>5. ~(Len(req.path) = 3 /\ req.path[1] = "api" /\ req.path[2] = "shares" /\ req.path[3] = "ranking" /\ req.method = "GET")
  <2>1. ASSUME Len(req.path) = 3, req.path[1] = "api", req.path[2] = "shares", req.path[3] = "ranking"
        PROVE  req.path = <<"api", "shares", "ranking">>
    BY <1>3, <2>1 DEF IsPath
  <2> QED
    BY <2>1
<1>6. d = 7 /\ m = 9 /\ Len(req.path) = 5 /\ req.path[5] = "complete"
  <2>1. PICK path, method : path = req.path /\ method = req.method
    OBVIOUS
  <2>2. /\ d \in 1..26 /\ d < m /\ Shaped(d, method, path) /\ Shaped(m, method, path)
    BY <1>2, <1>4, <2>1, Zenon
  <2>3. ~(Len(path) = 3 /\ path[1] = "api" /\ path[2] = "shares" /\ path[3] = "ranking" /\ method = "GET")
    BY <1>5, <2>1, Zenon
  <2>4. d = 7 /\ m = 9 /\ Len(path) = 5 /\ path[5] = "complete"
    BY <2>2, <2>3, Overlap
  <2> QED
    BY <2>1, <2>4, Zenon
<1>7. 5 \in DOMAIN req.path
  BY <1>3, <1>6, LenProperties DEF IsPath
<1>8. Routes[7].segments[5] = "complete" /\ Routes[9].segments[5] # "complete"
  <2>1. Routes[7].segments[5] = "complete" /\ Routes[9].segments[5] = "{chunkIndex}"
    BY UploadRows, Zenon DEF Row5
  <2> QED
    BY <2>1, Zenon
<1> QED
  BY <1>2, <1>6, <1>7, <1>8 DEF Literal

\* The order in which main() registers the routes hands no request but that of
\* the ranking to a route less explicit than another that matches.
THEOREM OrderSeparates == Spec => []RoutesApart
  BY FrontInitInv, FrontStep, InvRoutesApart, PTL DEF Spec
=============================================================================
