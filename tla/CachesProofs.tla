---------------------------- MODULE CachesProofs ----------------------------
(***************************************************************************)
(* What the run caches checks of the two implementations of the cache,     *)
(* proved: the LRU cache for any keys, values, nodes and capacity, the     *)
(* caches in Redis for any names of files.                                 *)
(***************************************************************************)
EXTENDS LruCache, RedisCache, StringFindProofs

-----------------------------------------------------------------------------
(* The LRU cache: the list and the map implement the store of module       *)
(* RecencyStore.                                                           *)
(*                                                                         *)
(* Every operation takes an entry out of the list, puts one in front, or   *)
(* both; two lemmas say what either does to the set of the entries and to  *)
(* their order, and the steps are proved from those.                       *)

Entries == [node : Nodes, key : Keys, value : Values]

KeysOf(l) == {l[i].key : i \in DOMAIN l}

\* No key is in the list twice, and no node.
Apart(l) ==
    /\ \A i, j \in DOMAIN l : l[i].key = l[j].key => i = j
    /\ \A i, j \in DOMAIN l : l[i].node = l[j].node => i = j

OlderOf(l) == {p \in Keys \X Keys : \E i, j \in DOMAIN l :
                 i > j /\ l[i].key = p[1] /\ l[j].key = p[2]}

StoredOf(l) == [k \in Keys |-> IF \E i \in DOMAIN l : l[i].key = k
                                 THEN l[CHOOSE i \in DOMAIN l : l[i].key = k].value
                                 ELSE None]

\* r is l without its entry i.
Without(l, i, r) ==
    /\ r \in Seq(Entries)
    /\ Len(r) = Len(l) - 1
    /\ \A j \in 1..(Len(l) - 1) : r[j] = IF j < i THEN l[j] ELSE l[j + 1]

TypeOK ==
    /\ list \in Seq(Entries) /\ Len(list) <= Capacity
    /\ map \in [Keys -> Nodes \cup {None}]

\* The iterators of the map lead to the entries of the list, each to its own.
Linked ==
    /\ \A i \in DOMAIN list : map[list[i].key] = list[i].node
    /\ \A k \in Keys : map[k] # None => k \in KeysOf(list)

\* The inductive invariant.
Inv == TypeOK /\ Linked /\ Apart(list)

-----------------------------------------------------------------------------
(* Lists of entries.                                                       *)

LEMMA CapacityFacts == Capacity \in Nat /\ Capacity >= 1
BY LruAssumption DEF Capacity

LEMMA ListFacts ==
    ASSUME NEW l \in Seq(Entries)
    PROVE  /\ Len(l) \in Nat /\ DOMAIN l = 1..Len(l)
           /\ \A i \in 1..Len(l) : /\ l[i] \in Entries /\ l[i].key \in Keys
                                   /\ l[i].node \in Nodes /\ l[i].value \in Values
<1>1. Len(l) \in Nat /\ DOMAIN l = 1..Len(l) /\ \A i \in 1..Len(l) : l[i] \in Entries
  BY LenProperties, ElementOfSeq
<1> QED BY <1>1 DEF Entries

\* What RemoveAt leaves.
LEMMA Removal ==
    ASSUME NEW l \in Seq(Entries), NEW i \in 1..Len(l)
    PROVE  Without(l, i, RemoveAt(l, i))
<1> DEFINE a == SubSeq(l, 1, i - 1)
           b == SubSeq(l, i + 1, Len(l))
<1>1. Len(l) \in Nat /\ \A j \in 1..Len(l) : l[j] \in Entries
  BY ListFacts
<1>2. a \in Seq(Entries) /\ Len(a) = i - 1 /\ \A j \in 1..(i - 1) : a[j] = l[j]
  <2>1. 1 \in Int /\ i - 1 \in Int /\ \A j \in 1..(i - 1) : l[j] \in Entries
    BY <1>1
  <2> QED BY <1>1, <2>1, SubSeqProperties
<1>3. /\ b \in Seq(Entries) /\ Len(b) = Len(l) - i
      /\ \A j \in 1..(Len(l) - i) : b[j] = l[i + j]
  <2>1. i + 1 \in Int /\ Len(l) \in Int /\ \A j \in (i + 1)..Len(l) : l[j] \in Entries
    BY <1>1
  <2> QED BY <1>1, <2>1, SubSeqProperties
<1>4. RemoveAt(l, i) = a \o b
  BY DEF RemoveAt
<1> HIDE DEF a, b
<1>5. /\ a \o b \in Seq(Entries) /\ Len(a \o b) = Len(a) + Len(b)
      /\ \A j \in 1..(Len(a) + Len(b)) : (a \o b)[j] = IF j <= Len(a) THEN a[j] ELSE b[j - Len(a)]
  BY <1>2, <1>3, ConcatProperties
<1>6. Len(a \o b) = Len(l) - 1
  BY <1>1, <1>2, <1>3, <1>5
<1>7. ASSUME NEW j \in 1..(Len(l) - 1)
      PROVE  (a \o b)[j] = IF j < i THEN l[j] ELSE l[j + 1]
  <2>1. CASE j < i
    BY <1>1, <1>2, <1>3, <1>5, <2>1
  <2>2. CASE ~(j < i)
    <3>1. j - Len(a) \in 1..(Len(l) - i) /\ i + (j - Len(a)) = j + 1
      BY <1>1, <1>2, <2>2
    <3>2. (a \o b)[j] = b[j - Len(a)]
      BY <1>1, <1>2, <1>3, <1>5, <2>2
    <3> QED BY <1>3, <2>2, <3>1, <3>2
  <2> QED BY <2>1, <2>2
<1> QED BY <1>4, <1>5, <1>6, <1>7 DEF Without

\* Front takes the last entry out.
LEMMA FrontRemoves ==
    ASSUME NEW l \in Seq(Entries), Len(l) > 0
    PROVE  Without(l, Len(l), Front(l))
<1>1. Len(l) \in Nat /\ \A j \in 1..Len(l) : l[j] \in Entries
  BY ListFacts
<1>2. 1 \in Int /\ Len(l) - 1 \in Int /\ \A j \in 1..(Len(l) - 1) : l[j] \in Entries
  BY <1>1
<1>3. /\ SubSeq(l, 1, Len(l) - 1) \in Seq(Entries)
      /\ Len(SubSeq(l, 1, Len(l) - 1)) = Len(l) - 1
      /\ \A j \in 1..(Len(l) - 1) : SubSeq(l, 1, Len(l) - 1)[j] = l[j]
  <2>1. /\ SubSeq(l, 1, Len(l) - 1) \in Seq(Entries)
        /\ Len(SubSeq(l, 1, Len(l) - 1)) = IF 1 <= Len(l) - 1 THEN Len(l) - 1 - 1 + 1 ELSE 0
        /\ \A j \in 1..(Len(l) - 1 - 1 + 1) : SubSeq(l, 1, Len(l) - 1)[j] = l[1 + j - 1]
    BY <1>2, SubSeqProperties
  <2>2. Len(SubSeq(l, 1, Len(l) - 1)) = Len(l) - 1
    <3> DEFINE n == Len(l)
    <3>0. n \in Nat /\ n > 0
      BY <1>1
    <3> HIDE DEF n
    <3>3. n = 1 \/ n > 1
      BY <3>0
    <3>1. CASE Len(l) = 1
      BY <2>1, <3>1
    <3>2. CASE Len(l) > 1
      <4>1. 1 <= Len(l) - 1 /\ Len(l) - 1 - 1 + 1 = Len(l) - 1
        BY <1>1, <3>2
      <4> QED BY <2>1, <4>1
    <3> QED BY <3>1, <3>2, <3>3 DEF n
  <2>3. ASSUME NEW j \in 1..(Len(l) - 1)
        PROVE  SubSeq(l, 1, Len(l) - 1)[j] = l[j]
    <3>1. j \in 1..(Len(l) - 1 - 1 + 1) /\ 1 + j - 1 = j
      BY <1>1
    <3> QED BY <2>1, <3>1
  <2> QED BY <2>1, <2>2, <2>3
<1> QED BY <1>1, <1>3 DEF Without, Front

\* What is left when the entry of a key is taken out.
LEMMA WithoutFacts ==
    ASSUME NEW l \in Seq(Entries), Apart(l), NEW i \in 1..Len(l), NEW r, Without(l, i, r)
    PROVE  /\ Apart(r)
           /\ \A m \in 1..Len(r) : \E j \in 1..Len(l) : j # i /\ r[m] = l[j]
           /\ \A j \in 1..Len(l) : j # i => \E m \in 1..Len(r) : r[m] = l[j]
           /\ KeysOf(r) = KeysOf(l) \ {l[i].key}
           /\ OlderOf(r) = {p \in OlderOf(l) : l[i].key \notin {p[1], p[2]}}
<1> DEFINE p(m) == IF m < i THEN m ELSE m + 1
<1>1. /\ Len(l) \in Nat /\ DOMAIN l = 1..Len(l) /\ Len(r) = Len(l) - 1 /\ DOMAIN r = 1..Len(r)
      /\ \A m \in 1..Len(r) : p(m) \in 1..Len(l) /\ p(m) # i /\ r[m] = l[p(m)]
  BY ListFacts DEF Without
<1>2. \A m, n \in 1..Len(r) : (m < n <=> p(m) < p(n)) /\ (p(m) = p(n) => m = n)
  BY <1>1
<1>3. \A j \in 1..Len(l) : j # i => \E m \in 1..Len(r) : p(m) = j
  <2> SUFFICES ASSUME NEW j \in 1..Len(l), j # i
               PROVE  \E m \in 1..Len(r) : p(m) = j
    OBVIOUS
  <2>1. CASE j < i
    BY <1>1, <2>1
  <2>2. CASE j > i
    <3>1. j - 1 \in 1..Len(r) /\ p(j - 1) = j
      BY <1>1, <2>2
    <3> QED BY <3>1
  <2> QED BY <1>1, <2>1, <2>2
<1> HIDE DEF p
<1>4. Apart(r)
  <2>1. ASSUME NEW m \in 1..Len(r), NEW n \in 1..Len(r), r[m].key = r[n].key
        PROVE  m = n
    <3>1. p(m) = p(n)
      BY <1>1, <2>1 DEF Apart
    <3> QED BY <1>2, <3>1
  <2>2. ASSUME NEW m \in 1..Len(r), NEW n \in 1..Len(r), r[m].node = r[n].node
        PROVE  m = n
    <3>1. p(m) = p(n)
      BY <1>1, <2>2 DEF Apart
    <3> QED BY <1>2, <3>1
  <2> QED BY <1>1, <2>1, <2>2 DEF Apart
<1>5. /\ \A m \in 1..Len(r) : \E j \in 1..Len(l) : j # i /\ r[m] = l[j]
      /\ \A j \in 1..Len(l) : j # i => \E m \in 1..Len(r) : r[m] = l[j]
  BY <1>1, <1>3
<1>6. KeysOf(r) = KeysOf(l) \ {l[i].key}
  <2>1. ASSUME NEW k \in KeysOf(r)
        PROVE  k \in KeysOf(l) \ {l[i].key}
    <3>1. PICK m \in 1..Len(r) : k = r[m].key
      BY <1>1 DEF KeysOf
    <3>2. PICK j \in 1..Len(l) : j # i /\ r[m] = l[j]
      BY <1>5
    <3>3. k = l[j].key
      BY <3>1, <3>2
    <3>4. k \in KeysOf(l)
      BY <1>1, <3>3 DEF KeysOf
    <3>5. l[j].key # l[i].key
      BY <1>1, <3>2 DEF Apart
    <3> QED BY <3>3, <3>4, <3>5
  <2>2. ASSUME NEW k \in KeysOf(l) \ {l[i].key}
        PROVE  k \in KeysOf(r)
    <3>1. PICK j \in 1..Len(l) : k = l[j].key
      BY <1>1 DEF KeysOf
    <3>2. PICK m \in 1..Len(r) : r[m] = l[j]
      BY <1>5, <2>2, <3>1
    <3> QED BY <1>1, <3>1, <3>2 DEF KeysOf
  <2> QED BY <2>1, <2>2
<1>7. OlderOf(r) = {q \in OlderOf(l) : l[i].key \notin {q[1], q[2]}}
  <2>1. ASSUME NEW q \in OlderOf(r)
        PROVE  q \in OlderOf(l) /\ l[i].key \notin {q[1], q[2]}
    <3>1. PICK m, n \in 1..Len(r) : m > n /\ r[m].key = q[1] /\ r[n].key = q[2]
      BY <1>1 DEF OlderOf
    <3>2. /\ p(m) \in 1..Len(l) /\ p(n) \in 1..Len(l) /\ p(n) < p(m)
          /\ l[p(m)].key = q[1] /\ l[p(n)].key = q[2] /\ p(m) # i /\ p(n) # i
      BY <1>1, <1>2, <3>1
    <3>3. l[i].key # q[1] /\ l[i].key # q[2]
      BY <1>1, <3>2 DEF Apart
    <3>4. q \in Keys \X Keys
      BY DEF OlderOf
    <3>5. p(m) > p(n)
      BY <1>1, <3>2
    <3> QED BY <1>1, <3>2, <3>3, <3>4, <3>5 DEF OlderOf
  <2>2. ASSUME NEW q \in OlderOf(l), l[i].key \notin {q[1], q[2]}
        PROVE  q \in OlderOf(r)
    <3>1. PICK a, b \in 1..Len(l) : a > b /\ l[a].key = q[1] /\ l[b].key = q[2]
      BY <1>1 DEF OlderOf
    <3>2. a # i /\ b # i
      BY <2>2, <3>1
    <3>3. PICK m \in 1..Len(r) : p(m) = a
      BY <1>3, <3>2
    <3>4. PICK n \in 1..Len(r) : p(n) = b
      BY <1>3, <3>2
    <3>5. n < m /\ r[m].key = q[1] /\ r[n].key = q[2]
      BY <1>1, <1>2, <3>1, <3>3, <3>4
    <3>6. m > n
      BY <1>1, <3>5
    <3> QED BY <1>1, <3>5, <3>6 DEF OlderOf
  <2> QED BY <2>1, <2>2
<1> QED BY <1>4, <1>5, <1>6, <1>7

\* An entry with a new key and a new node is put in front.
LEMMA ConsFacts ==
    ASSUME NEW l \in Seq(Entries), Apart(l), NEW e \in Entries, e.key \notin KeysOf(l),
           \A j \in 1..Len(l) : l[j].node # e.node
    PROVE  /\ <<e>> \o l \in Seq(Entries) /\ Len(<<e>> \o l) = Len(l) + 1 /\ Apart(<<e>> \o l)
           /\ (<<e>> \o l)[1] = e
           /\ \A j \in 1..Len(l) : (<<e>> \o l)[j + 1] = l[j]
           /\ \A m \in 1..(Len(l) + 1) : m = 1 \/ \E j \in 1..Len(l) : m = j + 1
           /\ KeysOf(<<e>> \o l) = KeysOf(l) \cup {e.key}
           /\ OlderOf(<<e>> \o l) = OlderOf(l) \cup (KeysOf(l) \X {e.key})
<1> DEFINE r == <<e>> \o l
<1>1. <<e>> \in Seq(Entries) /\ Len(<<e>>) = 1 /\ <<e>>[1] = e
  OBVIOUS
<1>2. Len(l) \in Nat /\ DOMAIN l = 1..Len(l) /\ \A j \in 1..Len(l) : l[j].key \in Keys
  BY ListFacts
<1>3. /\ r \in Seq(Entries) /\ Len(r) = 1 + Len(l)
      /\ \A m \in 1..(1 + Len(l)) : r[m] = IF m <= 1 THEN <<e>>[m] ELSE l[m - 1]
  <2>1. /\ r \in Seq(Entries) /\ Len(r) = Len(<<e>>) + Len(l)
        /\ \A m \in 1..(Len(<<e>>) + Len(l)) :
             r[m] = IF m <= Len(<<e>>) THEN <<e>>[m] ELSE l[m - Len(<<e>>)]
    BY <1>1, ConcatProperties
  <2> QED BY <1>1, <2>1
<1> HIDE DEF r
<1>4. DOMAIN r = 1..(1 + Len(l)) /\ r[1] = e /\ \A j \in 1..Len(l) : r[j + 1] = l[j]
  <2>1. DOMAIN r = 1..(1 + Len(l))
    BY <1>3, ListFacts
  <2>2. r[1] = e
    BY <1>1, <1>2, <1>3
  <2>3. ASSUME NEW j \in 1..Len(l)
        PROVE  r[j + 1] = l[j]
    <3>1. j + 1 \in 1..(1 + Len(l)) /\ ~(j + 1 <= 1) /\ (j + 1) - 1 = j
      BY <1>2
    <3> QED BY <1>3, <3>1
  <2> QED BY <2>1, <2>2, <2>3
<1>5. \A m \in 1..(1 + Len(l)) : m = 1 \/ \E j \in 1..Len(l) : m = j + 1
  <2> SUFFICES ASSUME NEW m \in 1..(1 + Len(l)), m # 1
               PROVE  \E j \in 1..Len(l) : m = j + 1
    OBVIOUS
  <2>1. m - 1 \in 1..Len(l) /\ m = (m - 1) + 1
    BY <1>2
  <2> QED BY <2>1
<1>6. \A j \in 1..Len(l) : l[j].key # e.key /\ l[j].node # e.node
  BY <1>2 DEF KeysOf
<1>7. Apart(r)
  <2>1. ASSUME NEW m \in 1..(1 + Len(l)), NEW n \in 1..(1 + Len(l)),
               r[m].key = r[n].key \/ r[m].node = r[n].node
        PROVE  m = n
    <3>1. CASE m = 1 /\ n # 1
      <4>1. PICK q \in 1..Len(l) : n = q + 1
        BY <1>5, <3>1
      <4>2. r[m] = e /\ r[n] = l[q]
        BY <1>4, <3>1, <4>1
      <4> QED BY <1>6, <2>1, <4>2
    <3>3. CASE m # 1 /\ n = 1
      <4>1. PICK j \in 1..Len(l) : m = j + 1
        BY <1>5, <3>3
      <4>2. r[m] = l[j] /\ r[n] = e
        BY <1>4, <3>3, <4>1
      <4> QED BY <1>6, <2>1, <4>2
    <3>2. CASE m # 1 /\ n # 1
      <4>1. PICK j \in 1..Len(l) : m = j + 1
        BY <1>5, <3>2
      <4>2. PICK q \in 1..Len(l) : n = q + 1
        BY <1>5, <3>2
      <4>3. l[j].key = l[q].key \/ l[j].node = l[q].node
        BY <1>4, <2>1, <4>1, <4>2
      <4>4. j = q
        BY <1>2, <4>3 DEF Apart
      <4> QED BY <4>1, <4>2, <4>4
    <3> QED BY <3>1, <3>2, <3>3
  <2> QED BY <1>4, <2>1 DEF Apart
<1>8. KeysOf(r) = KeysOf(l) \cup {e.key}
  <2>1. ASSUME NEW k \in KeysOf(r)
        PROVE  k \in KeysOf(l) \cup {e.key}
    <3>1. PICK m \in 1..(1 + Len(l)) : k = r[m].key
      BY <1>4 DEF KeysOf
    <3>2. CASE m = 1
      BY <1>4, <3>1, <3>2
    <3>3. CASE m # 1
      <4>1. PICK j \in 1..Len(l) : m = j + 1
        BY <1>5, <3>3
      <4> QED BY <1>2, <1>4, <3>1, <4>1 DEF KeysOf
    <3> QED BY <3>2, <3>3
  <2>2. \A j \in 1..Len(l) : j + 1 \in 1..(1 + Len(l))
    BY <1>2
  <2>3. e.key \in KeysOf(r) /\ 1 \in 1..(1 + Len(l))
    BY <1>2, <1>4 DEF KeysOf
  <2>4. \A k \in KeysOf(l) : k \in KeysOf(r)
    BY <1>2, <1>4, <2>2 DEF KeysOf
  <2> QED BY <2>1, <2>3, <2>4
<1>9. OlderOf(r) = OlderOf(l) \cup (KeysOf(l) \X {e.key})
  <2>1. ASSUME NEW q \in OlderOf(r)
        PROVE  q \in OlderOf(l) \/ q \in KeysOf(l) \X {e.key}
    <3>1. PICK m, n \in 1..(1 + Len(l)) : m > n /\ r[m].key = q[1] /\ r[n].key = q[2]
      BY <1>4 DEF OlderOf
    <3>2. q \in Keys \X Keys /\ q = <<q[1], q[2]>>
      BY DEF OlderOf
    <3>3. PICK j \in 1..Len(l) : m = j + 1
      BY <1>2, <1>5, <3>1
    <3>4. l[j].key = q[1] /\ q[1] \in KeysOf(l)
      BY <1>2, <1>4, <3>1, <3>3, ZenonT(60) DEF KeysOf
    <3>5. CASE n = 1
      <4>1. q[2] = e.key
        BY <1>4, <3>1, <3>5
      <4> QED BY <3>2, <3>4, <4>1
    <3>6. CASE n # 1
      <4>1. PICK o \in 1..Len(l) : n = o + 1
        BY <1>5, <3>6
      <4>2. j > o /\ l[o].key = q[2]
        BY <1>2, <1>4, <3>1, <3>3, <4>1
      <4> QED BY <1>2, <3>2, <3>4, <4>2 DEF OlderOf
    <3> QED BY <3>5, <3>6
  <2>2. ASSUME NEW q \in OlderOf(l)
        PROVE  q \in OlderOf(r)
    <3>1. PICK a, b \in 1..Len(l) : a > b /\ l[a].key = q[1] /\ l[b].key = q[2]
      BY <1>2 DEF OlderOf
    <3>2. /\ a + 1 \in 1..(1 + Len(l)) /\ b + 1 \in 1..(1 + Len(l)) /\ a + 1 > b + 1
          /\ r[a + 1].key = q[1] /\ r[b + 1].key = q[2]
      BY <1>2, <1>4, <3>1
    <3>3. q \in Keys \X Keys
      BY DEF OlderOf
    <3> QED BY <1>4, <3>2, <3>3 DEF OlderOf
  <2>3. ASSUME NEW k \in KeysOf(l)
        PROVE  <<k, e.key>> \in OlderOf(r)
    <3>1. PICK a \in 1..Len(l) : l[a].key = k
      BY <1>2 DEF KeysOf
    <3>2. /\ a + 1 \in 1..(1 + Len(l)) /\ 1 \in 1..(1 + Len(l)) /\ a + 1 > 1
          /\ r[a + 1].key = k /\ r[1].key = e.key
      BY <1>2, <1>4, <3>1
    <3>3. <<k, e.key>> \in Keys \X Keys
      BY <1>2, <3>1 DEF Entries
    <3>4. <<k, e.key>>[1] = k /\ <<k, e.key>>[2] = e.key
      OBVIOUS
    <3> QED BY <1>4, <3>2, <3>3, <3>4 DEF OlderOf
  <2> QED BY <2>1, <2>2, <2>3
<1>10. Len(r) = Len(l) + 1 /\ 1 + Len(l) = Len(l) + 1
  BY <1>2, <1>3
<1> QED BY <1>3, <1>4, <1>5, <1>7, <1>8, <1>9, <1>10 DEF r

\* The stored values are those of the entries.
LEMMA StoredFacts ==
    ASSUME NEW l \in Seq(Entries), Apart(l)
    PROVE  /\ \A i \in 1..Len(l) : StoredOf(l)[l[i].key] = l[i].value
           /\ \A k \in Keys \ KeysOf(l) : StoredOf(l)[k] = None
           /\ KeysOf(l) \subseteq Keys
           /\ \A k \in Keys : StoredOf(l)[k] # None <=> k \in KeysOf(l)
<1>1. /\ Len(l) \in Nat /\ DOMAIN l = 1..Len(l)
      /\ \A i \in 1..Len(l) : l[i].key \in Keys /\ l[i].value \in Values
  BY ListFacts
<1>2. ASSUME NEW i \in 1..Len(l)
      PROVE  StoredOf(l)[l[i].key] = l[i].value
  <2> DEFINE c == CHOOSE j \in DOMAIN l : l[j].key = l[i].key
  <2>1. c \in DOMAIN l /\ l[c].key = l[i].key
    BY <1>1
  <2>2. c = i
    BY <1>1, <2>1 DEF Apart
  <2>3. StoredOf(l)[l[i].key] = l[c].value
    BY <1>1 DEF StoredOf
  <2> QED BY <2>2, <2>3
<1>3. ASSUME NEW k \in Keys \ KeysOf(l)
      PROVE  StoredOf(l)[k] = None
  BY DEF StoredOf, KeysOf
<1>4. KeysOf(l) \subseteq Keys
  BY <1>1 DEF KeysOf
<1>5. ASSUME NEW k \in Keys, k \in KeysOf(l)
      PROVE  StoredOf(l)[k] # None
  <2>1. PICK i \in 1..Len(l) : k = l[i].key
    BY <1>1, <1>5 DEF KeysOf
  <2> QED BY <1>1, <1>2, <2>1, LruAssumption
<1> QED BY <1>2, <1>3, <1>4, <1>5

\* There are as many keys as entries.
LEMMA KeysCounted ==
    ASSUME NEW l \in Seq(Entries), Apart(l)
    PROVE  Cardinality(KeysOf(l)) = Len(l)
<1> DEFINE f == [i \in 1..Len(l) |-> l[i].key]
<1>1. Len(l) \in Nat /\ DOMAIN l = 1..Len(l)
  BY ListFacts
<1>2. f \in [1..Len(l) -> KeysOf(l)]
  BY <1>1 DEF KeysOf
<1>3. \A i, j \in 1..Len(l) : f[i] = f[j] => i = j
  BY <1>1 DEF Apart
<1>4. \A k \in KeysOf(l) : \E i \in 1..Len(l) : f[i] = k
  BY <1>1 DEF KeysOf
<1> HIDE DEF f
<1>5. f \in Bijection(1..Len(l), KeysOf(l))
  <2>1. DOMAIN f = 1..Len(l)
    BY <1>2
  <2>2. IsInjective(f)
    BY <1>3, <2>1 DEF IsInjective
  <2> QED BY <1>2, <1>4, <2>2 DEF Bijection, Injection, Surjection
<1>6. ExistsBijection(1..Len(l), KeysOf(l))
  BY <1>5 DEF ExistsBijection
<1> QED BY <1>1, <1>6, FS_CountingElements

\* The entry at the end is the one used the longest ago.
LEMMA OldestIsLast ==
    ASSUME NEW l \in Seq(Entries), Apart(l), Len(l) > 0
    PROVE  (CHOOSE k \in KeysOf(l) : \A j \in KeysOf(l) \ {k} : <<k, j>> \in OlderOf(l))
             = l[Len(l)].key
<1> DEFINE P(k) == \A j \in KeysOf(l) \ {k} : <<k, j>> \in OlderOf(l)
           n == Len(l)
           z == l[n].key
<1>1. /\ n \in Nat /\ n \in 1..n /\ DOMAIN l = 1..n
      /\ \A i \in 1..n : l[i].key \in Keys
  BY ListFacts
<1> HIDE DEF n
<1>2. z \in KeysOf(l)
  BY <1>1 DEF KeysOf, n
<1>3. ASSUME NEW j \in KeysOf(l) \ {z}
      PROVE  <<z, j>> \in OlderOf(l)
  <2>1. PICK i \in 1..n : j = l[i].key
    BY <1>1 DEF KeysOf
  <2>2. i # n
    BY <1>3, <2>1
  <2>3. n > i
    BY <1>1, <2>2
  <2>4. <<z, j>> \in Keys \X Keys /\ <<z, j>>[1] = z /\ <<z, j>>[2] = j
    BY <1>1, <2>1
  <2> QED BY <1>1, <2>1, <2>3, <2>4 DEF OlderOf
<1>4. ASSUME NEW k \in KeysOf(l), P(k)
      PROVE  k = z
  <2> SUFFICES ASSUME k # z
               PROVE  FALSE
    OBVIOUS
  <2>1. <<k, z>> \in OlderOf(l)
    BY <1>2, <1>4
  <2>2. PICK a, b \in 1..n : a > b /\ l[a].key = k /\ l[b].key = z
    <3>1. <<k, z>>[1] = k /\ <<k, z>>[2] = z
      OBVIOUS
    <3> QED BY <1>1, <2>1, <3>1 DEF OlderOf
  <2>3. b = n
    BY <1>1, <2>2 DEF Apart
  <2> QED BY <1>1, <2>2, <2>3
<1>5. (CHOOSE k \in KeysOf(l) : P(k)) = z
  <2>1. P(z)
    BY <1>3
  <2> HIDE DEF z, P
  <2> DEFINE c == CHOOSE k \in KeysOf(l) : P(k)
  <2>2. c \in KeysOf(l) /\ P(c)
    BY <1>2, <2>1
  <2> QED BY <1>4, <2>2
<1> QED BY <1>5 DEF n

-----------------------------------------------------------------------------
(* The list behind an iterator.                                            *)

LEMMA Found ==
    ASSUME Inv, NEW k \in Keys, map[k] # None
    PROVE  /\ At(map[k]) \in 1..Len(list)
           /\ list[At(map[k])].key = k /\ list[At(map[k])].node = map[k]
<1>1. list \in Seq(Entries) /\ Linked /\ Apart(list) /\ DOMAIN list = 1..Len(list)
  BY ListFacts DEF Inv, TypeOK
<1>2. PICK i \in 1..Len(list) : list[i].key = k
  BY <1>1 DEF Linked, KeysOf
<1>3. list[i].node = map[k]
  BY <1>1, <1>2 DEF Linked
<1>4. At(map[k]) \in DOMAIN list /\ list[At(map[k])].node = map[k]
  BY <1>1, <1>3 DEF At
<1>5. At(map[k]) = i
  BY <1>1, <1>3, <1>4 DEF Apart
<1> QED BY <1>2, <1>3, <1>5

\* A key is in the map exactly when it is in the list.
LEMMA Mapped ==
    ASSUME Inv, NEW k \in Keys
    PROVE  map[k] # None <=> k \in KeysOf(list)
<1>1. /\ list \in Seq(Entries) /\ Linked /\ DOMAIN list = 1..Len(list)
      /\ \A i \in 1..Len(list) : list[i].node \in Nodes
  BY ListFacts DEF Inv, TypeOK
<1>2. ASSUME k \in KeysOf(list)
      PROVE  map[k] # None
  <2>1. PICK i \in 1..Len(list) : k = list[i].key
    BY <1>1, <1>2 DEF KeysOf
  <2> QED BY <1>1, <2>1, LruAssumption DEF Linked
<1> QED BY <1>1, <1>2 DEF Linked

\* What taking an entry out, and putting one in front, do to the stored values.
LEMMA StoredWithout ==
    ASSUME NEW l \in Seq(Entries), Apart(l), NEW i \in 1..Len(l), NEW r, Without(l, i, r)
    PROVE  StoredOf(r) = [StoredOf(l) EXCEPT ![l[i].key] = None]
<1>1. /\ r \in Seq(Entries) /\ Apart(r) /\ KeysOf(r) = KeysOf(l) \ {l[i].key}
      /\ \A m \in 1..Len(r) : \E j \in 1..Len(l) : j # i /\ r[m] = l[j]
      /\ DOMAIN r = 1..Len(r) /\ DOMAIN l = 1..Len(l)
  <2>1. r \in Seq(Entries)
    BY DEF Without
  <2>2. DOMAIN r = 1..Len(r) /\ DOMAIN l = 1..Len(l)
    BY <2>1, ListFacts
  <2>3. Apart(r) /\ KeysOf(r) = KeysOf(l) \ {l[i].key}
    BY WithoutFacts
  <2>4. \A m \in 1..Len(r) : \E j \in 1..Len(l) : j # i /\ r[m] = l[j]
    BY WithoutFacts
  <2> QED BY <2>1, <2>2, <2>3, <2>4
<1>2. ASSUME NEW k \in Keys
      PROVE  StoredOf(r)[k] = IF k = l[i].key THEN None ELSE StoredOf(l)[k]
  <2>1. CASE k \in KeysOf(r)
    <3>1. PICK m \in 1..Len(r) : r[m].key = k
      BY <1>1, <2>1 DEF KeysOf
    <3>2. PICK j \in 1..Len(l) : j # i /\ r[m] = l[j]
      BY <1>1
    <3>3. StoredOf(r)[k] = r[m].value
      BY <1>1, <3>1, StoredFacts
    <3>4. StoredOf(l)[k] = l[j].value
      BY <3>1, <3>2, StoredFacts
    <3> QED BY <1>1, <2>1, <3>2, <3>3, <3>4
  <2>2. CASE k \notin KeysOf(r)
    <3>1. StoredOf(r)[k] = None
      BY <1>1, <2>2, StoredFacts
    <3>2. CASE k = l[i].key
      BY <3>1, <3>2
    <3>3. CASE k # l[i].key
      <4>1. k \notin KeysOf(l)
        BY <1>1, <2>2, <3>3
      <4> QED BY <3>1, <3>3, <4>1, StoredFacts
    <3> QED BY <3>2, <3>3
  <2> QED BY <2>1, <2>2
<1>3. DOMAIN StoredOf(r) = Keys /\ DOMAIN StoredOf(l) = Keys
  BY DEF StoredOf
<1>4. StoredOf(r) = [k \in Keys |-> StoredOf(r)[k]] /\ StoredOf(l) = [k \in Keys |-> StoredOf(l)[k]]
  BY DEF StoredOf
<1> HIDE DEF Without
<1> QED BY <1>2, <1>3, <1>4

LEMMA StoredCons ==
    ASSUME NEW l \in Seq(Entries), Apart(l), NEW e \in Entries, e.key \notin KeysOf(l),
           \A j \in 1..Len(l) : l[j].node # e.node
    PROVE  StoredOf(<<e>> \o l) = [StoredOf(l) EXCEPT ![e.key] = e.value]
<1> DEFINE r == <<e>> \o l
<1>1. /\ r \in Seq(Entries) /\ Apart(r) /\ KeysOf(r) = KeysOf(l) \cup {e.key}
      /\ Len(r) = Len(l) + 1 /\ Len(l) \in Nat /\ DOMAIN l = 1..Len(l)
      /\ r[1] = e /\ \A j \in 1..Len(l) : r[j + 1] = l[j]
  BY ConsFacts, ListFacts
<1> HIDE DEF r
<1>2. ASSUME NEW k \in Keys
      PROVE  StoredOf(r)[k] = IF k = e.key THEN e.value ELSE StoredOf(l)[k]
  <2>1. CASE k = e.key
    <3>1. 1 \in 1..Len(r)
      BY <1>1
    <3>2. StoredOf(r)[r[1].key] = r[1].value
      BY <1>1, <3>1, StoredFacts
    <3> QED BY <1>1, <2>1, <3>2
  <2>2. CASE k # e.key /\ k \in KeysOf(l)
    <3>1. PICK j \in 1..Len(l) : l[j].key = k
      BY <1>1, <2>2 DEF KeysOf
    <3>2. j + 1 \in 1..Len(r) /\ r[j + 1] = l[j]
      BY <1>1
    <3>3. StoredOf(r)[r[j + 1].key] = r[j + 1].value
      BY <1>1, <3>2, StoredFacts
    <3>4. StoredOf(l)[l[j].key] = l[j].value
      BY StoredFacts
    <3> QED BY <2>2, <3>1, <3>2, <3>3, <3>4
  <2>3. CASE k # e.key /\ k \notin KeysOf(l)
    <3>1. StoredOf(r)[k] = None /\ StoredOf(l)[k] = None
      BY <1>1, <2>3, StoredFacts
    <3> QED BY <2>3, <3>1
  <2> QED BY <2>1, <2>2, <2>3
<1>3. StoredOf(r) = [k \in Keys |-> StoredOf(r)[k]] /\ StoredOf(l) = [k \in Keys |-> StoredOf(l)[k]]
      /\ DOMAIN StoredOf(l) = Keys
  BY DEF StoredOf
<1> QED BY <1>2, <1>3 DEF r

\* The order relates the keys of the list.
LEMMA OlderKeys ==
    ASSUME NEW l \in Seq(Entries), NEW p \in OlderOf(l)
    PROVE  p[1] \in KeysOf(l) /\ p[2] \in KeysOf(l)
BY ListFacts DEF OlderOf, KeysOf

\* An entry is replaced by one for the same key and node, in front.
Topped(l, e, q) ==
    /\ q \in Seq(Entries) /\ Len(q) = Len(l) /\ Apart(q)
    /\ \A m \in 1..Len(l) : \E j \in 1..Len(l) : q[m].key = l[j].key /\ q[m].node = l[j].node
    /\ KeysOf(q) = KeysOf(l)
    /\ OlderOf(q) =
         {p \in OlderOf(l) : p[1] \in KeysOf(l) \ {e.key} /\ p[2] \in KeysOf(l) \ {e.key}}
           \cup ((KeysOf(l) \ {e.key}) \X {e.key})
    /\ StoredOf(q) = [StoredOf(l) EXCEPT ![e.key] = e.value]

LEMMA OnTop ==
    ASSUME NEW l \in Seq(Entries), Apart(l), NEW i \in 1..Len(l), NEW r, Without(l, i, r),
           NEW e \in Entries, e.key = l[i].key, e.node = l[i].node
    PROVE  Topped(l, e, <<e>> \o r)
<1> DEFINE q == <<e>> \o r
<1>1. /\ r \in Seq(Entries) /\ Apart(r) /\ Len(r) = Len(l) - 1 /\ Len(l) \in Nat
      /\ \A m \in 1..Len(r) : \E j \in 1..Len(l) : j # i /\ r[m] = l[j]
      /\ KeysOf(r) = KeysOf(l) \ {e.key}
      /\ OlderOf(r) = {p \in OlderOf(l) : e.key \notin {p[1], p[2]}}
      /\ DOMAIN l = 1..Len(l)
  <2>1. r \in Seq(Entries) /\ Len(r) = Len(l) - 1
    BY DEF Without
  <2>2. Len(l) \in Nat /\ DOMAIN l = 1..Len(l)
    BY ListFacts
  <2>3. Apart(r) /\ KeysOf(r) = KeysOf(l) \ {l[i].key}
    BY WithoutFacts
  <2>4. \A m \in 1..Len(r) : \E j \in 1..Len(l) : j # i /\ r[m] = l[j]
    BY WithoutFacts
  <2>5. OlderOf(r) = {p \in OlderOf(l) : l[i].key \notin {p[1], p[2]}}
    BY WithoutFacts
  <2> QED BY <2>1, <2>2, <2>3, <2>4, <2>5
<1>2. \A j \in 1..Len(r) : r[j].node # e.node
  BY <1>1 DEF Apart
<1>3. /\ q \in Seq(Entries) /\ Len(q) = Len(r) + 1 /\ Apart(q)
      /\ q[1] = e /\ \A j \in 1..Len(r) : q[j + 1] = r[j]
      /\ \A m \in 1..(Len(r) + 1) : m = 1 \/ \E j \in 1..Len(r) : m = j + 1
      /\ KeysOf(q) = KeysOf(r) \cup {e.key}
      /\ OlderOf(q) = OlderOf(r) \cup (KeysOf(r) \X {e.key})
  BY <1>1, <1>2, ConsFacts
<1>4. StoredOf(q) = [StoredOf(r) EXCEPT ![e.key] = e.value]
  BY <1>1, <1>2, StoredCons
<1> HIDE DEF q
<1>5. Len(q) = Len(l)
  BY <1>1, <1>3
<1>6. ASSUME NEW m \in 1..Len(l)
      PROVE  \E j \in 1..Len(l) : q[m].key = l[j].key /\ q[m].node = l[j].node
  <2>1. CASE m = 1
    BY <1>3, <2>1
  <2>2. CASE m # 1
    <3>1. PICK j \in 1..Len(r) : m = j + 1
      BY <1>1, <1>3, <2>2
    <3>2. PICK o \in 1..Len(l) : r[j] = l[o]
      BY <1>1
    <3>3. q[m] = l[o]
      BY <1>3, <3>1, <3>2
    <3> QED BY <3>3
  <2> QED BY <2>1, <2>2
<1>7. e.key \in KeysOf(l)
  BY <1>1 DEF KeysOf
<1>8. KeysOf(q) = KeysOf(l)
  BY <1>1, <1>3, <1>7
<1>9. OlderOf(r) =
        {p \in OlderOf(l) : p[1] \in KeysOf(l) \ {e.key} /\ p[2] \in KeysOf(l) \ {e.key}}
  BY <1>1, OlderKeys
<1>10. StoredOf(r) = [StoredOf(l) EXCEPT ![e.key] = None]
  BY StoredWithout
<1>11. StoredOf(q) = [StoredOf(l) EXCEPT ![e.key] = e.value]
  <2>1. StoredOf(l) = [k \in Keys |-> StoredOf(l)[k]] /\ DOMAIN StoredOf(l) = Keys
    BY DEF StoredOf
  <2> QED BY <1>4, <1>10, <2>1
<1>12. Topped(l, e, q)
  BY <1>1, <1>3, <1>5, <1>6, <1>8, <1>9, <1>11 DEF Topped
<1> QED BY <1>12 DEF q

-----------------------------------------------------------------------------
(* The state of the store.                                                 *)

LEMMA StateOfStore ==
    ASSUME Inv
    PROVE  /\ Stored = StoredOf(list) /\ Older = OlderOf(list)
           /\ Store!Held = KeysOf(list)
           /\ Cardinality(Store!Held) = Len(list)
           /\ Len(list) > 0 => Store!Oldest = Last(list).key
<1>1. list \in Seq(Entries) /\ Apart(list)
  BY DEF Inv, TypeOK
<1>2. Stored = StoredOf(list) /\ Older = OlderOf(list)
  BY DEF Stored, StoredOf, Older, OlderOf
<1>3. Store!Held = KeysOf(list)
  BY <1>1, <1>2, StoredFacts DEF Store!Held
<1>4. Cardinality(Store!Held) = Len(list)
  BY <1>1, <1>3, KeysCounted
<1>5. ASSUME Len(list) > 0
      PROVE  Store!Oldest = Last(list).key
  BY <1>1, <1>2, <1>3, <1>5, OldestIsLast DEF Store!Oldest, Last
<1> QED BY <1>2, <1>3, <1>4, <1>5

LEMMA InitOfStore == Init => Inv /\ Store!Init
<1> SUFFICES ASSUME Init
             PROVE  Inv /\ Store!Init
  OBVIOUS
<1>1. list = <<>> /\ map = [k \in Keys |-> None] /\ answer = None
  BY DEF Init
<1>2. list \in Seq(Entries) /\ Len(list) = 0 /\ DOMAIN list = {}
  BY <1>1
<1>3. Inv
  <2>1. TypeOK
    BY <1>1, <1>2, CapacityFacts DEF TypeOK
  <2>2. Linked
    BY <1>1, <1>2 DEF Linked
  <2>3. Apart(list)
    BY <1>2 DEF Apart
  <2> QED BY <2>1, <2>2, <2>3 DEF Inv
<1>4. Stored = [k \in Keys |-> None] /\ Older = {}
  BY <1>2 DEF Stored, Older
<1> QED BY <1>1, <1>3, <1>4 DEF Store!Init

-----------------------------------------------------------------------------
(* The operations: each keeps the invariant and is a step of the store.    *)

\* A hit: the entry of k, with the value v, is moved to the front.
LEMMA Refreshed ==
    ASSUME Inv, NEW k \in Keys, map[k] # None, NEW v \in Values,
           list' = <<[node |-> map[k], key |-> k, value |-> v]>> \o RemoveAt(list, At(map[k])),
           UNCHANGED map
    PROVE  /\ Inv'
           /\ Stored' = [Stored EXCEPT ![k] = v]
           /\ Older' = Store!Used(k, Store!Held)
<1> DEFINE e == [node |-> map[k], key |-> k, value |-> v]
           i == At(map[k])
           r == RemoveAt(list, i)
<1>1. /\ list \in Seq(Entries) /\ Apart(list) /\ TypeOK /\ Linked
      /\ Len(list) \in Nat /\ DOMAIN list = 1..Len(list)
  BY ListFacts DEF Inv, TypeOK
<1>2. i \in 1..Len(list) /\ list[i].key = k /\ list[i].node = map[k]
  BY Found
<1>3. Without(list, i, r)
  BY <1>1, <1>2, Removal
<1>4. e \in Entries /\ e.key = k /\ e.node = map[k] /\ e.value = v
  BY <1>1 DEF TypeOK, Entries
<1>5. list' = <<e>> \o r
  OBVIOUS
<1> HIDE DEF e, i, r
<1>6. /\ list' \in Seq(Entries) /\ Len(list') = Len(list) /\ Apart(list')
      /\ \A m \in 1..Len(list) : \E j \in 1..Len(list) :
           list'[m].key = list[j].key /\ list'[m].node = list[j].node
      /\ KeysOf(list') = KeysOf(list)
      /\ OlderOf(list') =
           {p \in OlderOf(list) : p[1] \in KeysOf(list) \ {k} /\ p[2] \in KeysOf(list) \ {k}}
             \cup ((KeysOf(list) \ {k}) \X {k})
      /\ StoredOf(list') = [StoredOf(list) EXCEPT ![k] = v]
  <2>1. e.key = list[i].key /\ e.node = list[i].node
    BY <1>2, <1>4
  <2> DEFINE q == <<e>> \o r
  <2>2. Topped(list, e, q)
    <3>1. list \in Seq(Entries) /\ Apart(list) /\ e \in Entries
      BY <1>1, <1>4
    <3> QED BY <1>2, <1>3, <2>1, <3>1, OnTop
  <2>3. list' = q /\ e.key = k /\ e.value = v
    BY <1>4, <1>5
  <2> HIDE DEF q
  <2> QED BY <2>2, <2>3, ZenonT(60) DEF Topped
<1>7. Inv'
  <2>1. TypeOK'
    BY <1>1, <1>6 DEF TypeOK
  <2>2. DOMAIN list' = 1..Len(list)
    BY <1>6, ListFacts
  <2>3. ASSUME NEW m \in DOMAIN list'
        PROVE  map'[list'[m].key] = list'[m].node
    <3>1. PICK j \in 1..Len(list) : list'[m].key = list[j].key /\ list'[m].node = list[j].node
      BY <1>6, <2>2
    <3> QED BY <1>1, <3>1 DEF Linked
  <2>4. Linked'
    BY <1>1, <1>6, <2>3 DEF Linked
  <2> QED BY <1>6, <2>1, <2>4 DEF Inv
<1>8. /\ Stored = StoredOf(list) /\ Older = OlderOf(list) /\ Store!Held = KeysOf(list)
  BY StateOfStore
<1>9. Stored' = StoredOf(list') /\ Older' = OlderOf(list')
  BY DEF Stored, StoredOf, Older, OlderOf
<1> QED BY <1>6, <1>7, <1>8, <1>9 DEF Store!Used

LEMMA PutKnownStep ==
    ASSUME Inv, NEW k \in Keys, NEW v \in Values, PutKnown(k, v), answer' = None
    PROVE  Inv' /\ Store!Put(k, v)
<1> DEFINE i == At(map[k])
           l == [list EXCEPT ![i].value = v]
           e == [node |-> map[k], key |-> k, value |-> v]
<1>1. /\ list \in Seq(Entries) /\ Len(list) \in Nat /\ DOMAIN list = 1..Len(list)
      /\ \A j \in 1..Len(list) : list[j] \in Entries
      /\ map[k] # None /\ UNCHANGED map /\ list' = ToFront(l, i)
  BY ListFacts DEF Inv, TypeOK, PutKnown
<1>2. i \in 1..Len(list) /\ list[i].key = k /\ list[i].node = map[k]
  BY <1>1, Found
<1> HIDE DEF i
<1>3. [list[i] EXCEPT !.value = v] = e
  BY <1>1, <1>2 DEF Entries
<1>4. e \in Entries
  BY <1>1, <1>2 DEF Entries
<1>5. l = [list EXCEPT ![i] = e]
  BY <1>1, <1>2, <1>3
<1> HIDE DEF l, e
<1>6. /\ l \in Seq(Entries) /\ Len(l) = Len(list)
      /\ \A j \in 1..Len(list) : l[j] = IF j = i THEN e ELSE list[j]
  BY <1>1, <1>2, <1>4, <1>5, ExceptSeq
<1>7. RemoveAt(l, i) = RemoveAt(list, i)
  <2>1. Without(l, i, RemoveAt(l, i)) /\ Without(list, i, RemoveAt(list, i))
    BY <1>1, <1>2, <1>6, Removal
  <2> DEFINE a == RemoveAt(l, i)
             b == RemoveAt(list, i)
  <2>2. /\ a \in Seq(Entries) /\ b \in Seq(Entries)
        /\ Len(a) = Len(list) - 1 /\ Len(b) = Len(list) - 1
        /\ \A j \in 1..(Len(list) - 1) : /\ a[j] = IF j < i THEN l[j] ELSE l[j + 1]
                                         /\ b[j] = IF j < i THEN list[j] ELSE list[j + 1]
    BY <1>6, <2>1 DEF Without
  <2> HIDE DEF a, b
  <2>3. ASSUME NEW j \in 1..Len(a)
        PROVE  a[j] = b[j]
    <3>1. CASE j < i
      <4>1. j \in 1..(Len(list) - 1) /\ j \in 1..Len(list) /\ j # i
        BY <1>1, <1>2, <2>2, <3>1
      <4> QED BY <1>6, <2>2, <3>1, <4>1
    <3>2. CASE ~(j < i)
      <4>1. j + 1 \in 1..Len(list) /\ j + 1 # i
        BY <1>1, <1>2, <2>2, <3>2
      <4> QED BY <1>6, <2>2, <3>2, <4>1
    <3> QED BY <3>1, <3>2
  <2>4. a = b
    BY <2>2, <2>3, SeqEqual
  <2> QED BY <2>4 DEF a, b
<1>8. list' = <<e>> \o RemoveAt(list, i)
  BY <1>1, <1>2, <1>6, <1>7 DEF ToFront
<1>9. Inv' /\ Stored' = [Stored EXCEPT ![k] = v] /\ Older' = Store!Used(k, Store!Held)
  BY <1>1, <1>8, Refreshed DEF e, i
<1>10. /\ Store!Held = KeysOf(list) /\ Stored = StoredOf(list) /\ k \in KeysOf(list)
       /\ \A j \in Keys : j \notin KeysOf(list) => StoredOf(list)[j] = None
  <2>1. Apart(list)
    BY DEF Inv
  <2> QED BY <1>1, <2>1, StateOfStore, Mapped, StoredFacts
<1>11. Store!Held \cup {k} = Store!Held
  BY <1>10
<1>12. Stored' = [j \in Keys |-> IF j = k THEN v ELSE IF j \in Store!Held THEN Stored[j] ELSE None]
  BY <1>9, <1>10 DEF Stored
<1> QED BY <1>9, <1>10, <1>11, <1>12 DEF Store!Put

LEMMA GetStep ==
    ASSUME Inv, NEW k \in Keys, Get(k)
    PROVE  Inv' /\ Store!Get(k)
<1>1. /\ list \in Seq(Entries) /\ Apart(list) /\ Len(list) \in Nat /\ DOMAIN list = 1..Len(list)
      /\ \A j \in 1..Len(list) : list[j] \in Entries /\ list[j].value \in Values
  BY ListFacts DEF Inv, TypeOK
<1>2. /\ Stored = StoredOf(list) /\ Older = OlderOf(list) /\ Store!Held = KeysOf(list)
  BY StateOfStore
<1>3. CASE map[k] = None
  <2>1. answer' = None /\ list' = list /\ map' = map
    BY <1>3 DEF Get
  <2>2. k \notin KeysOf(list)
    BY <1>3, Mapped
  <2>3. Stored[k] = None
    BY <1>1, <1>2, <2>2, StoredFacts
  <2>4. Inv'
    BY <2>1 DEF Inv, TypeOK, Linked
  <2>5. Stored' = Stored /\ Older' = Older
    BY <2>1 DEF Stored, Older
  <2> QED BY <1>2, <2>1, <2>2, <2>3, <2>4, <2>5 DEF Store!Get
<1>4. CASE map[k] # None
  <2> DEFINE i == At(map[k])
             v == list[i].value
  <2>1. i \in 1..Len(list) /\ list[i].key = k /\ list[i].node = map[k]
    BY <1>4, Found
  <2>2. answer' = v /\ list' = <<list[i]>> \o RemoveAt(list, i) /\ map' = map
    BY <1>4 DEF Get, Node, Touch, ToFront
  <2>3. list[i] = [node |-> map[k], key |-> k, value |-> v] /\ v \in Values
    <3> HIDE DEF i
    <3> QED BY <1>1, <2>1 DEF Entries
  <2>4. Inv' /\ Stored' = [Stored EXCEPT ![k] = v] /\ Older' = Store!Used(k, Store!Held)
    <3> HIDE DEF v
    <3> QED BY <1>4, <2>2, <2>3, Refreshed
  <2>5. Stored[k] = v /\ k \in KeysOf(list)
    <3>1. StoredOf(list)[list[i].key] = list[i].value
      <4> HIDE DEF i
      <4> QED BY <1>1, <2>1, StoredFacts
    <3> QED BY <1>2, <1>4, <2>1, <3>1, Mapped
  <2>6. Stored' = Stored
    <3>1. Stored = [j \in Keys |-> Stored[j]]
      BY DEF Stored
    <3> HIDE DEF v
    <3> QED BY <2>4, <2>5, <3>1
  <2> QED BY <1>2, <2>2, <2>4, <2>5, <2>6 DEF Store!Get
<1> QED BY <1>3, <1>4

\* The instance counts as this module does.
LEMMA SameCount ==
    ASSUME NEW S
    PROVE  Store!Cardinality(S) = Cardinality(S)
BY Zenon DEF Store!Cardinality, Cardinality

\* What the cache holds when there is room for one more.
Roomy == IF Cardinality(Store!Held) < Capacity THEN Store!Held ELSE Store!Held \ {Store!Oldest}

\* Room is made, by taking the last entry out of a full list and of the map.
LEMMA RoomMade ==
    ASSUME Inv
    PROVE  /\ Kept \in Seq(Entries) /\ Apart(Kept) /\ Len(Kept) + 1 <= Capacity
           /\ KeysOf(Kept) = Roomy
           /\ OlderOf(Kept) = {p \in Older : p[1] \in Roomy /\ p[2] \in Roomy}
           /\ \A j \in Keys : StoredOf(Kept)[j] = IF j \in Roomy THEN Stored[j] ELSE None
           /\ Evicted \in [Keys -> Nodes \cup {None}]
           /\ \A j \in Keys : map[j] = None => Evicted[j] = None
           /\ \A m \in 1..Len(Kept) : Evicted[Kept[m].key] = Kept[m].node
           /\ \A j \in Keys : Evicted[j] # None => j \in KeysOf(Kept)
<1>1. /\ list \in Seq(Entries) /\ Apart(list) /\ Len(list) <= Capacity /\ Capacity \in Nat
      /\ Capacity >= 1 /\ Len(list) \in Nat /\ DOMAIN list = 1..Len(list)
      /\ map \in [Keys -> Nodes \cup {None}] /\ Linked
      /\ \A i \in 1..Len(list) : list[i].key \in Keys
  BY CapacityFacts, ListFacts DEF Inv, TypeOK
<1>2. /\ Stored = StoredOf(list) /\ Older = OlderOf(list) /\ Store!Held = KeysOf(list)
      /\ Cardinality(Store!Held) = Len(list)
  BY StateOfStore
<1>3. CASE ~Full
  <2>1. Kept = list /\ Evicted = map /\ Len(list) < Capacity
    BY <1>1, <1>3 DEF Kept, Evicted, Full
  <2>2. Roomy = KeysOf(list)
    BY <1>2, <2>1 DEF Roomy
  <2>3. OlderOf(list) = {p \in OlderOf(list) : p[1] \in KeysOf(list) /\ p[2] \in KeysOf(list)}
    BY <1>1, OlderKeys
  <2>4. \A j \in Keys : StoredOf(list)[j] = IF j \in Roomy THEN Stored[j] ELSE None
    BY <1>1, <1>2, <2>2, StoredFacts
  <2>5. Len(Kept) + 1 <= Capacity
    BY <1>1, <2>1
  <2>6. \A j \in Keys : map[j] # None => j \in KeysOf(list)
    BY Mapped
  <2>7. \A m \in 1..Len(list) : map[list[m].key] = list[m].node
    BY <1>1 DEF Linked
  <2> QED BY <1>1, <1>2, <2>1, <2>2, <2>3, <2>4, <2>5, <2>6, <2>7
<1>4. CASE Full
  <2> DEFINE n == Len(list)
             z == list[n].key
             r == Front(list)
  <2>1. Kept = r /\ Evicted = [map EXCEPT ![z] = None] /\ Last(list) = list[n] /\ n = Capacity
    <3>1. Kept = r /\ Evicted = [map EXCEPT ![z] = None] /\ Last(list) = list[n]
      BY <1>4 DEF Kept, Evicted, Last
    <3>2. n = Capacity
      <4> HIDE DEF n
      <4>1. n >= Capacity
        BY <1>4 DEF Full, n
      <4>2. n <= Capacity /\ n \in Nat
        BY <1>1 DEF n
      <4> QED BY <1>1, <4>1, <4>2
    <3> QED BY <3>1, <3>2
  <2>2. n > 0 /\ n \in 1..n /\ z \in Keys
    BY <1>1, <2>1
  <2>3. Without(list, n, r)
    BY <1>1, <2>2, FrontRemoves
  <2>4. Store!Oldest = z
    BY <2>1, <2>2, StateOfStore
  <2>5. Roomy = KeysOf(list) \ {z}
    BY <1>1, <1>2, <2>1, <2>4 DEF Roomy
  <2> HIDE DEF r
  <2>6. r \in Seq(Entries) /\ Len(r) = n - 1
    BY <2>3 DEF Without
  <2>7. Apart(r) /\ KeysOf(r) = KeysOf(list) \ {list[n].key}
    BY <1>1, <2>2, <2>3, WithoutFacts
  <2>8. \A m \in 1..Len(r) : \E j \in 1..Len(list) : j # n /\ r[m] = list[j]
    BY <1>1, <2>2, <2>3, WithoutFacts, ZenonT(60)
  <2>9. OlderOf(r) = {p \in OlderOf(list) : list[n].key \notin {p[1], p[2]}}
    BY <1>1, <2>2, <2>3, WithoutFacts
  <2>10. StoredOf(r) = [StoredOf(list) EXCEPT ![list[n].key] = None]
    BY <1>1, <2>2, <2>3, StoredWithout
  <2> HIDE DEF n
  <2>11. OlderOf(r) = {p \in Older : p[1] \in Roomy /\ p[2] \in Roomy}
    BY <1>1, <1>2, <2>5, <2>9, OlderKeys
  <2>12. \A j \in Keys : StoredOf(r)[j] = IF j \in Roomy THEN Stored[j] ELSE None
    <3>1. DOMAIN StoredOf(list) = Keys
      BY DEF StoredOf
    <3>2. \A j \in Keys \ KeysOf(list) : StoredOf(list)[j] = None
      BY <1>1, StoredFacts
    <3> QED BY <1>2, <2>5, <2>10, <3>1, <3>2
  <2>13. /\ Evicted \in [Keys -> Nodes \cup {None}]
         /\ \A j \in Keys : Evicted[j] = IF j = z THEN None ELSE map[j]
    BY <1>1, <2>1, <2>2
  <2>14. ASSUME NEW m \in 1..Len(r)
         PROVE  Evicted[r[m].key] = r[m].node
    <3>1. PICK j \in 1..Len(list) : j # n /\ r[m] = list[j]
      BY <2>8
    <3>2. list[j].key # z
      BY <1>1, <2>2, <3>1 DEF Apart, n
    <3>3. map[list[j].key] = list[j].node /\ list[j].key \in Keys
      BY <1>1 DEF Linked
    <3> QED BY <2>13, <3>1, <3>2, <3>3
  <2>15. ASSUME NEW j \in Keys, Evicted[j] # None
         PROVE  j \in KeysOf(r)
    <3>1. j # z /\ map[j] # None
      BY <2>13, <2>15
    <3> QED BY <2>7, <3>1, Mapped
  <2>16. Len(r) + 1 <= Capacity
    BY <1>1, <2>1, <2>6 DEF n
  <2> QED BY <2>1, <2>5, <2>6, <2>7, <2>11, <2>12, <2>13, <2>14, <2>15, <2>16
<1> QED BY <1>3, <1>4

LEMMA PutNewStep ==
    ASSUME Inv, NEW k \in Keys, NEW v \in Values, PutNew(k, v), answer' = None
    PROVE  Inv' /\ Store!Put(k, v)
<1>1. map[k] = None
  BY DEF PutNew
<1>2. PICK n \in Nodes : /\ \A i \in DOMAIN Kept : n # Kept[i].node
                         /\ list' = <<[node |-> n, key |-> k, value |-> v]>> \o Kept
                         /\ map' = [Evicted EXCEPT ![k] = n]
  BY DEF PutNew
<1> DEFINE e == [node |-> n, key |-> k, value |-> v]
<1>3. e \in Entries /\ e.key = k /\ e.node = n /\ e.value = v
  BY DEF Entries
<1>4. list' = <<e>> \o Kept
  BY <1>2
<1> HIDE DEF e
<1>5. /\ Kept \in Seq(Entries) /\ Apart(Kept) /\ Len(Kept) + 1 <= Capacity
      /\ KeysOf(Kept) = Roomy
      /\ \A j \in Keys : StoredOf(Kept)[j] = IF j \in Roomy THEN Stored[j] ELSE None
  BY RoomMade
<1>6. /\ Evicted \in [Keys -> Nodes \cup {None}] /\ Evicted[k] = None
      /\ \A m \in 1..Len(Kept) : Evicted[Kept[m].key] = Kept[m].node
      /\ \A j \in Keys : Evicted[j] # None => j \in KeysOf(Kept)
  BY <1>1, RoomMade
<1>7. OlderOf(Kept) = {p \in Older : p[1] \in Roomy /\ p[2] \in Roomy}
  BY RoomMade
<1>8. k \notin Store!Held /\ k \notin Roomy
  BY <1>1, Mapped, StateOfStore DEF Roomy
<1>9. /\ Len(Kept) \in Nat /\ DOMAIN Kept = 1..Len(Kept)
      /\ \A m \in 1..Len(Kept) : Kept[m].key \in Keys /\ Kept[m].node # e.node
  BY <1>2, <1>3, <1>5, ListFacts
<1>10. e.key \notin KeysOf(Kept)
  BY <1>3, <1>5, <1>8
<1>11. /\ list' \in Seq(Entries) /\ Len(list') = Len(Kept) + 1 /\ Apart(list')
       /\ list'[1] = e /\ \A j \in 1..Len(Kept) : list'[j + 1] = Kept[j]
       /\ \A m \in 1..(Len(Kept) + 1) : m = 1 \/ \E j \in 1..Len(Kept) : m = j + 1
  BY <1>3, <1>4, <1>5, <1>9, <1>10, ConsFacts, SMTT(30)
<1>12. KeysOf(list') = Roomy \cup {k}
  BY <1>3, <1>4, <1>5, <1>9, <1>10, ConsFacts
<1>13. OlderOf(list') = {p \in Older : p[1] \in Roomy /\ p[2] \in Roomy} \cup (Roomy \X {k})
  <2>1. OlderOf(list') = OlderOf(Kept) \cup (KeysOf(Kept) \X {e.key})
    BY <1>3, <1>4, <1>5, <1>9, <1>10, ConsFacts
  <2> QED BY <1>3, <1>5, <1>7, <2>1
<1>14. StoredOf(list') = [StoredOf(Kept) EXCEPT ![k] = v]
  BY <1>3, <1>4, <1>5, <1>9, <1>10, StoredCons
<1>15. Inv'
  <2>1. TypeOK'
    BY <1>2, <1>5, <1>6, <1>11 DEF TypeOK
  <2>2. \A j \in Keys : map'[j] = IF j = k THEN n ELSE Evicted[j]
    BY <1>2, <1>6
  <2>3. ASSUME NEW m \in DOMAIN list'
        PROVE  map'[list'[m].key] = list'[m].node
    <3>1. m \in 1..(Len(Kept) + 1)
      BY <1>11, ListFacts
    <3>2. CASE m = 1
      BY <1>3, <1>11, <2>2, <3>2
    <3>3. CASE m # 1
      <4>1. PICK j \in 1..Len(Kept) : m = j + 1
        BY <1>11, <3>1, <3>3
      <4>2. list'[m] = Kept[j] /\ Kept[j].key \in Keys
        BY <1>9, <1>11, <4>1
      <4>3. Kept[j].key # k
        BY <1>3, <1>9, <1>10 DEF KeysOf
      <4> QED BY <1>6, <2>2, <4>2, <4>3
    <3> QED BY <3>2, <3>3
  <2>4. \A j \in Keys : map'[j] # None => j \in KeysOf(list')
    BY <1>5, <1>6, <1>12, <2>2
  <2>5. Linked'
    BY <2>3, <2>4 DEF Linked, KeysOf
  <2> QED BY <1>11, <2>1, <2>5 DEF Inv
<1>16. Stored' = [j \in Keys |-> IF j = k THEN v ELSE IF j \in Roomy THEN Stored[j] ELSE None]
  <2>1. Stored' = StoredOf(list') /\ DOMAIN StoredOf(Kept) = Keys
    BY DEF Stored, StoredOf
  <2>2. StoredOf(list') = [j \in Keys |-> StoredOf(list')[j]]
    BY DEF StoredOf
  <2>3. \A j \in Keys : StoredOf(list')[j]
                          = IF j = k THEN v ELSE IF j \in Roomy THEN Stored[j] ELSE None
    BY <1>5, <1>14, <2>1
  <2> QED BY <2>1, <2>2, <2>3
<1>17. Older' = Store!Used(k, Roomy \cup {k})
  <2>1. Older' = OlderOf(list')
    BY DEF Older, OlderOf
  <2>2. (Roomy \cup {k}) \ {k} = Roomy
    BY <1>8
  <2> QED BY <1>13, <2>1, <2>2 DEF Store!Used
<1>18. Store!Put(k, v)
  <2>1. CASE Cardinality(Store!Held) < Capacity
    <3>1. Roomy = Store!Held
      BY <2>1 DEF Roomy
    <3> QED BY <1>16, <1>17, <2>1, <3>1, SameCount DEF Store!Put
  <2>2. CASE ~(Cardinality(Store!Held) < Capacity)
    <3>1. Roomy = Store!Held \ {Store!Oldest}
      BY <2>2 DEF Roomy
    <3> QED BY <1>8, <1>16, <1>17, <2>2, <3>1, SameCount DEF Store!Put
  <2> QED BY <2>1, <2>2
<1> QED BY <1>15, <1>18

LEMMA RemoveKeyStep ==
    ASSUME Inv, NEW k \in Keys, RemoveKey(k)
    PROVE  Inv' /\ Store!RemoveKey(k)
<1>1. /\ list \in Seq(Entries) /\ Apart(list) /\ Len(list) \in Nat /\ Capacity \in Nat
      /\ DOMAIN list = 1..Len(list) /\ Len(list) <= Capacity
      /\ map \in [Keys -> Nodes \cup {None}] /\ Linked
      /\ \A i \in 1..Len(list) : list[i].key \in Keys
  BY CapacityFacts, ListFacts DEF Inv, TypeOK
<1>2. /\ Stored = StoredOf(list) /\ Older = OlderOf(list) /\ Store!Held = KeysOf(list)
      /\ Stored' = StoredOf(list') /\ Older' = OlderOf(list')
  BY StateOfStore DEF Stored, StoredOf, Older, OlderOf
<1>3. map' = [map EXCEPT ![k] = None]
  BY DEF RemoveKey
<1>4. answer' = (k \in Store!Held)
  <2>1. map[k] # None <=> k \in Store!Held
    BY <1>2, Mapped
  <2>2. answer' = (map[k] # None)
    BY DEF RemoveKey
  <2> QED BY <2>1, <2>2
<1>5. CASE map[k] = None
  <2>1. list' = list /\ map' = map
    BY <1>1, <1>3, <1>5 DEF RemoveKey
  <2>2. k \notin KeysOf(list)
    BY <1>5, Mapped
  <2>3. Inv'
    BY <2>1 DEF Inv, TypeOK, Linked
  <2>4. Stored' = [Stored EXCEPT ![k] = None]
    <3>1. StoredOf(list)[k] = None
      BY <1>1, <2>2, StoredFacts
    <3>2. StoredOf(list) = [j \in Keys |-> StoredOf(list)[j]]
      BY DEF StoredOf
    <3>3. StoredOf(list') = StoredOf(list)
      BY <2>1
    <3> QED BY <1>2, <3>1, <3>2, <3>3
  <2>5. Older' = {p \in Older : k \notin {p[1], p[2]}}
    <3>1. OlderOf(list') = OlderOf(list)
      BY <2>1
    <3> QED BY <1>1, <1>2, <2>2, <3>1, OlderKeys
  <2> QED BY <1>4, <2>3, <2>4, <2>5 DEF Store!RemoveKey
<1>6. CASE map[k] # None
  <2> DEFINE i == At(map[k])
  <2>1. i \in 1..Len(list) /\ list[i].key = k /\ list' = RemoveAt(list, i)
    BY <1>6, Found DEF RemoveKey
  <2> HIDE DEF i
  <2>2. Without(list, i, list')
    BY <1>1, <2>1, Removal
  <2>3. list' \in Seq(Entries) /\ Len(list') = Len(list) - 1
    BY <2>2 DEF Without
  <2>4. Apart(list') /\ KeysOf(list') = KeysOf(list) \ {list[i].key}
    BY <1>1, <2>1, <2>2, WithoutFacts
  <2>5. \A m \in 1..Len(list') : \E j \in 1..Len(list) : j # i /\ list'[m] = list[j]
    <3>1. list \in Seq(Entries) /\ Apart(list) /\ i \in 1..Len(list)
      BY <1>1, <2>1
    <3> QED BY <2>2, <3>1, WithoutFacts
  <2>6. OlderOf(list') = {p \in OlderOf(list) : list[i].key \notin {p[1], p[2]}}
    BY <1>1, <2>1, <2>2, WithoutFacts
  <2>7. StoredOf(list') = [StoredOf(list) EXCEPT ![list[i].key] = None]
    BY <1>1, <2>1, <2>2, StoredWithout
  <2>8. \A j \in Keys : map'[j] = IF j = k THEN None ELSE map[j]
    BY <1>1, <1>3
  <2>9. TypeOK'
    BY <1>1, <1>3, <2>3 DEF TypeOK
  <2>10. ASSUME NEW m \in DOMAIN list'
         PROVE  map'[list'[m].key] = list'[m].node
    <3>1. m \in 1..Len(list')
      BY <2>3, ListFacts
    <3>2. PICK j \in 1..Len(list) : j # i /\ list'[m] = list[j]
      BY <2>5, <3>1
    <3>3. list[j].key # k
      BY <1>1, <2>1, <3>2 DEF Apart
    <3>4. map[list[j].key] = list[j].node
      BY <1>1 DEF Linked
    <3> QED BY <1>1, <2>8, <3>2, <3>3, <3>4
  <2>11. \A j \in Keys : map'[j] # None => j \in KeysOf(list')
    BY <2>1, <2>4, <2>8, Mapped
  <2>12. Linked'
    BY <2>10, <2>11 DEF Linked, KeysOf
  <2>13. Inv'
    BY <2>4, <2>9, <2>12 DEF Inv
  <2>14. Older' = {p \in Older : k \notin {p[1], p[2]}}
    BY <1>2, <2>1, <2>6
  <2>15. Stored' = [Stored EXCEPT ![k] = None]
    BY <1>2, <2>1, <2>7
  <2> QED BY <1>4, <2>13, <2>14, <2>15 DEF Store!RemoveKey
<1> QED BY <1>5, <1>6

LEMMA ExistsStep ==
    ASSUME Inv, NEW k \in Keys, Exists(k)
    PROVE  Inv' /\ Store!Exists(k)
<1>1. answer' = (map[k] # None) /\ list' = list /\ map' = map
  BY DEF Exists
<1>2. Inv'
  BY <1>1 DEF Inv, TypeOK, Linked
<1>3. Stored' = Stored /\ Older' = Older
  BY <1>1 DEF Stored, Older
<1>4. map[k] # None <=> k \in Store!Held
  BY Mapped, StateOfStore
<1> QED BY <1>1, <1>2, <1>3, <1>4 DEF Store!Exists

LEMMA ClearStep ==
    ASSUME Inv, Clear
    PROVE  Inv' /\ Store!Clear
<1>1. list' = <<>> /\ map' = [k \in Keys |-> None] /\ answer' = None
  BY DEF Clear
<1>2. list' \in Seq(Entries) /\ Len(list') = 0 /\ DOMAIN list' = {}
  BY <1>1
<1>3. Inv'
  <2>1. TypeOK'
    BY <1>1, <1>2, CapacityFacts DEF TypeOK
  <2>2. Linked'
    BY <1>1, <1>2 DEF Linked
  <2>3. Apart(list')
    BY <1>2 DEF Apart
  <2> QED BY <2>1, <2>2, <2>3 DEF Inv
<1>4. Stored' = [k \in Keys |-> None] /\ Older' = {}
  BY <1>2 DEF Stored, Older
<1> QED BY <1>1, <1>3, <1>4 DEF Store!Clear

-----------------------------------------------------------------------------
(* The refinement.                                                         *)

LEMMA StepOfStore == Inv /\ [Next]_vars => Inv' /\ [Store!Next]_(Store!svars)
<1> SUFFICES ASSUME Inv, [Next]_vars
             PROVE  Inv' /\ [Store!Next]_(Store!svars)
  OBVIOUS
<1>1. ASSUME NEW k \in Keys, NEW v \in Values, Put(k, v)
      PROVE  Inv' /\ Store!Next
  <2>1. Inv' /\ Store!Put(k, v)
    BY <1>1, PutKnownStep, PutNewStep DEF Put
  <2> QED BY <2>1 DEF Store!Next
<1>2. ASSUME NEW k \in Keys, Get(k)
      PROVE  Inv' /\ Store!Next
  BY <1>2, GetStep DEF Store!Next
<1>3. ASSUME NEW k \in Keys, Exists(k)
      PROVE  Inv' /\ Store!Next
  BY <1>3, ExistsStep DEF Store!Next
<1>4. ASSUME NEW k \in Keys, RemoveKey(k)
      PROVE  Inv' /\ Store!Next
  BY <1>4, RemoveKeyStep DEF Store!Next
<1>5. CASE Clear
  BY <1>5, ClearStep DEF Store!Next
<1>6. CASE UNCHANGED vars
  <2>1. list' = list /\ map' = map /\ answer' = answer
    BY <1>6 DEF vars
  <2>2. Inv'
    BY <2>1 DEF Inv, TypeOK, Linked
  <2>3. Stored' = Stored /\ Older' = Older
    BY <2>1 DEF Stored, Older
  <2> QED BY <2>1, <2>2, <2>3 DEF Store!svars
<1> QED BY <1>1, <1>2, <1>3, <1>4, <1>5, <1>6 DEF Next

\* The list and the map of the cache, whatever its capacity, behave as a store
\* that forgets only the entry used the longest ago and only for want of room,
\* and that answers a hit with what was put last (LruCache.h, put, get, exists,
\* remove and clear).
THEOREM ImplementsStore == Spec => IsRecencyStore
<1>1. Init => Inv /\ Store!Init
  BY InitOfStore
<1>2. Inv /\ [Next]_vars => Inv' /\ [Store!Next]_(Store!svars)
  BY StepOfStore
<1> QED BY <1>1, <1>2, PTL DEF Spec, IsRecencyStore, Store!Spec

\* The map and the list never disagree: every iterator leads to the entry of its
\* key, every entry has its iterator, and the list holds no more than the capacity.
THEOREM MapMatchesList == Spec => []Inv
<1>1. Init => Inv
  BY InitOfStore
<1>2. Inv /\ [Next]_vars => Inv'
  BY StepOfStore
<1> QED BY <1>1, <1>2, PTL DEF Spec

-----------------------------------------------------------------------------
(* The text of a record.                                                   *)
(*                                                                         *)
(* A field is found again when no earlier piece of the text holds its      *)
(* prefix.  The ids come first, so they are found whatever the file is     *)
(* called; the fields behind its name when the name has no quote.          *)

\* No prefix of the field f begins in a piece of a text.
NoPrefix(e, f) ==
    \A i \in 1..Len(e) :
        \/ e[i] # Quote
        \/ i + 1 <= Len(e) /\ e[i + 1] # f
        \/ i + 3 <= Len(e) /\ (e[i + 2] # Quote \/ e[i + 3] # Colon)

\* Nor in two pieces, one behind the other, since every position is refuted by
\* atoms of its own piece.
LEMMA NoPrefixBoth ==
    ASSUME NEW A, NEW a \in Seq(A), NEW b \in Seq(A), NEW f, NoPrefix(a, f), NoPrefix(b, f)
    PROVE  NoPrefix(a \o b, f)
<1>1. PICK t, m, n, q, c : t = a \o b /\ m = Len(a) /\ n = Len(b) /\ q = Quote /\ c = Colon
  OBVIOUS
<1>2. /\ m \in Nat /\ n \in Nat /\ Len(t) = m + n
      /\ \A k \in 1..(m + n) : t[k] = IF k <= m THEN a[k] ELSE b[k - m]
  BY <1>1, ConcatProperties
<1>3. ASSUME NEW i \in 1..(m + n)
      PROVE  \/ t[i] # q
             \/ i + 1 <= m + n /\ t[i + 1] # f
             \/ i + 3 <= m + n /\ (t[i + 2] # q \/ t[i + 3] # c)
  <2>1. CASE i <= m
    <3>1. \/ a[i] # q
          \/ i + 1 <= m /\ a[i + 1] # f
          \/ i + 3 <= m /\ (a[i + 2] # q \/ a[i + 3] # c)
      BY <1>1, <1>2, <2>1 DEF NoPrefix
    <3> QED
      BY <1>2, <2>1, <3>1, SMTT(30)
  <2>2. CASE i > m
    <3>1. PICK j : j = i - m
      OBVIOUS
    <3>2. j \in 1..n /\ i = m + j
      BY <1>2, <2>2, <3>1
    <3>3. \/ b[j] # q
          \/ j + 1 <= n /\ b[j + 1] # f
          \/ j + 3 <= n /\ (b[j + 2] # q \/ b[j + 3] # c)
      BY <1>1, <1>2, <3>2 DEF NoPrefix
    <3>4. \A k \in 0..3 : j + k <= n => t[i + k] = b[j + k]
      BY <1>2, <3>2
    <3>5. t[i] = b[j] /\ (j + 1 <= n => t[i + 1] = b[j + 1])
          /\ (j + 3 <= n => t[i + 2] = b[j + 2] /\ t[i + 3] = b[j + 3])
      BY <3>4, <3>2, <1>2, SMTT(30)
    <3> QED
      BY <1>2, <3>2, <3>3, <3>5
  <2> QED
    BY <1>2, <2>1, <2>2
<1> QED
  BY <1>1, <1>2, <1>3 DEF NoPrefix

\* The empty text holds no prefix.
LEMMA NoPrefixEmpty ==
    ASSUME NEW f
    PROVE  NoPrefix(<<>>, f)
  BY EmptySeq DEF NoPrefix

\* The atoms of a prefix, of a number and of a string.
LEMMA PrefixParts ==
    ASSUME NEW A, Quote \in A, Colon \in A, NEW f \in A
    PROVE  /\ Prefix(f) \in Seq(A) /\ Len(Prefix(f)) = 4
           /\ Prefix(f)[1] = Quote /\ Prefix(f)[2] = f /\ Prefix(f)[3] = Quote /\ Prefix(f)[4] = Colon
<1>1. PICK a : a = <<Quote>>
  OBVIOUS
<1>2. a \in Seq(A) /\ Len(a) = 1 /\ a[1] = Quote
  BY <1>1
<1>3. PICK b : b = With(a, f)
  OBVIOUS
<1>4. /\ With(a, f) \in Seq(A) /\ Len(With(a, f)) = Len(a) + 1
      /\ \A i \in 1..Len(a) : With(a, f)[i] = a[i]
      /\ With(a, f)[Len(a) + 1] = f
  BY <1>2, WithParts, ZenonT(40)
<1>5. b \in Seq(A) /\ Len(b) = 2 /\ b[1] = Quote /\ b[2] = f
  BY <1>2, <1>3, <1>4
<1>6. PICK c : c = With(b, Quote)
  OBVIOUS
<1>7. /\ With(b, Quote) \in Seq(A) /\ Len(With(b, Quote)) = Len(b) + 1
      /\ \A i \in 1..Len(b) : With(b, Quote)[i] = b[i]
      /\ With(b, Quote)[Len(b) + 1] = Quote
  <2>1. PICK x \in A : x = Quote
    OBVIOUS
  <2>2. /\ With(b, x) \in Seq(A) /\ Len(With(b, x)) = Len(b) + 1
        /\ \A i \in 1..Len(b) : With(b, x)[i] = b[i]
        /\ With(b, x)[Len(b) + 1] = x
    BY <1>5, WithParts, ZenonT(40)
  <2> QED
    BY <2>1, <2>2
<1>8. c \in Seq(A) /\ Len(c) = 3 /\ c[1] = Quote /\ c[2] = f /\ c[3] = Quote
  BY <1>5, <1>6, <1>7
<1>9. /\ With(c, Colon) \in Seq(A) /\ Len(With(c, Colon)) = Len(c) + 1
      /\ \A i \in 1..Len(c) : With(c, Colon)[i] = c[i]
      /\ With(c, Colon)[Len(c) + 1] = Colon
  BY <1>8, WithParts, ZenonT(40)
<1>10. Prefix(f) = With(c, Colon)
  BY <1>1, <1>3, <1>6 DEF Prefix, Text, With
<1> QED
  BY <1>8, <1>9, <1>10

\* A number: the prefix, the digit, the comma.
LEMMA NumberParts ==
    ASSUME NEW A, Quote \in A, Colon \in A, Comma \in A, NEW f \in A, NEW x \in A
    PROVE  /\ Number(f, x) \in Seq(A) /\ Len(Number(f, x)) = 6
           /\ \A i \in 1..4 : Number(f, x)[i] = Prefix(f)[i]
           /\ Number(f, x)[5] = x /\ Number(f, x)[6] = Comma
<1>1. PICK a : a = Prefix(f)
  OBVIOUS
<1>2. a \in Seq(A) /\ Len(a) = 4
  BY <1>1, PrefixParts
<1>3. PICK b : b = With(a, x)
  OBVIOUS
<1>4. /\ With(a, x) \in Seq(A) /\ Len(With(a, x)) = Len(a) + 1
      /\ \A i \in 1..Len(a) : With(a, x)[i] = a[i]
      /\ With(a, x)[Len(a) + 1] = x
  BY <1>2, WithParts
<1>5. b \in Seq(A) /\ Len(b) = 5 /\ b[5] = x /\ \A i \in 1..4 : b[i] = a[i]
  BY <1>2, <1>3, <1>4
<1>6. /\ With(b, Comma) \in Seq(A) /\ Len(With(b, Comma)) = Len(b) + 1
      /\ \A i \in 1..Len(b) : With(b, Comma)[i] = b[i]
      /\ With(b, Comma)[Len(b) + 1] = Comma
  BY <1>5, WithParts, ZenonT(40)
<1>7. Number(f, x) = With(b, Comma)
  BY <1>1, <1>3 DEF Number, With
<1> QED
  BY <1>1, <1>5, <1>6, <1>7

\* A string: the prefix, and the content between two quotes.
LEMMA StringParts ==
    ASSUME NEW A, Quote \in A, Colon \in A, Comma \in A, NEW f \in A, NEW s \in Seq(A)
    PROVE  /\ String(f, s) \in Seq(A) /\ Len(s) \in Nat /\ Len(String(f, s)) = Len(s) + 7
           /\ \A i \in 1..4 : String(f, s)[i] = Prefix(f)[i]
           /\ String(f, s)[5] = Quote
           /\ \A i \in 1..Len(s) : String(f, s)[5 + i] = s[i]
           /\ String(f, s)[6 + Len(s)] = Quote /\ String(f, s)[7 + Len(s)] = Comma
<1>1. PICK a, n : a = Prefix(f) /\ n = Len(s)
  OBVIOUS
<1>2. a \in Seq(A) /\ Len(a) = 4 /\ n \in Nat
  BY <1>1, PrefixParts
<1>3. PICK q : q = <<Quote>>
  OBVIOUS
<1>4. q \in Seq(A) /\ Len(q) = 1 /\ q[1] = Quote
  BY <1>3
<1>5. PICK h : h = q \o s
  OBVIOUS
<1>6. /\ h \in Seq(A) /\ Len(h) = n + 1 /\ h[1] = Quote
      /\ \A i \in 1..n : h[1 + i] = s[i]
  <2>1. /\ q \o s \in Seq(A) /\ Len(q \o s) = Len(q) + Len(s)
        /\ \A i \in 1..(Len(q) + Len(s)) : (q \o s)[i] = IF i <= Len(q) THEN q[i] ELSE s[i - Len(q)]
    BY <1>4, ConcatProperties
  <2>2. /\ h \in Seq(A) /\ Len(h) = 1 + n
        /\ \A i \in 1..(1 + n) : h[i] = IF i <= 1 THEN q[i] ELSE s[i - 1]
    BY <1>1, <1>4, <1>5, <2>1
  <2> QED
    BY <1>2, <1>4, <2>2
<1>7. PICK b : b = With(h, Quote)
  OBVIOUS
<1>8. /\ With(h, Quote) \in Seq(A) /\ Len(With(h, Quote)) = Len(h) + 1
      /\ \A i \in 1..Len(h) : With(h, Quote)[i] = h[i]
      /\ With(h, Quote)[Len(h) + 1] = Quote
  <2>1. PICK x \in A : x = Quote
    OBVIOUS
  <2>2. /\ With(h, x) \in Seq(A) /\ Len(With(h, x)) = Len(h) + 1
        /\ \A i \in 1..Len(h) : With(h, x)[i] = h[i]
        /\ With(h, x)[Len(h) + 1] = x
    BY <1>6, WithParts
  <2> QED
    BY <2>1, <2>2
<1>9. /\ b \in Seq(A) /\ Len(b) = n + 2 /\ b[1] = Quote
      /\ \A i \in 1..n : b[1 + i] = s[i]
      /\ b[n + 2] = Quote
  BY <1>2, <1>6, <1>7, <1>8
<1>10. PICK c : c = a \o b
  OBVIOUS
<1>11. /\ c \in Seq(A) /\ Len(c) = n + 6
       /\ \A i \in 1..4 : c[i] = a[i]
       /\ c[5] = Quote /\ c[6 + n] = Quote
       /\ \A i \in 1..n : c[5 + i] = s[i]
  <2>1. /\ a \o b \in Seq(A) /\ Len(a \o b) = Len(a) + Len(b)
        /\ \A i \in 1..(Len(a) + Len(b)) : (a \o b)[i] = IF i <= Len(a) THEN a[i] ELSE b[i - Len(a)]
    BY <1>2, <1>9, ConcatProperties
  <2>2. /\ c \in Seq(A) /\ Len(c) = 4 + (n + 2)
        /\ \A i \in 1..(4 + (n + 2)) : c[i] = IF i <= 4 THEN a[i] ELSE b[i - 4]
    BY <1>2, <1>9, <1>10, <2>1
  <2> QED
    BY <1>2, <1>9, <2>2
<1>12. /\ With(c, Comma) \in Seq(A) /\ Len(With(c, Comma)) = Len(c) + 1
       /\ \A i \in 1..Len(c) : With(c, Comma)[i] = c[i]
       /\ With(c, Comma)[Len(c) + 1] = Comma
  BY <1>11, WithParts, ZenonT(40)
<1>13. String(f, s) = With(c, Comma)
  BY <1>1, <1>3, <1>5, <1>7, <1>10 DEF String, Text, With
<1>14. /\ With(c, Comma) \in Seq(A) /\ Len(With(c, Comma)) = n + 7
       /\ \A i \in 1..4 : With(c, Comma)[i] = a[i]
       /\ With(c, Comma)[5] = Quote
       /\ \A i \in 1..n : With(c, Comma)[5 + i] = s[i]
       /\ With(c, Comma)[6 + n] = Quote /\ With(c, Comma)[7 + n] = Comma
  BY <1>2, <1>11, <1>12
<1> QED
  BY <1>1, <1>2, <1>13, <1>14

\* A number holds the prefix of no other field.
LEMMA NumberNoPrefix ==
    ASSUME NEW A, Quote \in A, Colon \in A, Comma \in A, Quote # Colon, Quote # Comma,
           NEW g \in A, g # Quote, NEW f \in A, f # Colon, f # g, NEW x \in A, x # Quote
    PROVE  NoPrefix(Number(g, x), f)
<1>1. PICK e, p, q, c : e = Number(g, x) /\ p = Prefix(g) /\ q = Quote /\ c = Colon
  OBVIOUS
<1>2. /\ Len(e) = 6 /\ e[1] = p[1] /\ e[2] = p[2] /\ e[3] = p[3] /\ e[4] = p[4]
      /\ e[5] = x /\ e[6] = Comma
  <2>1. /\ Len(Number(g, x)) = 6
        /\ \A i \in 1..4 : Number(g, x)[i] = Prefix(g)[i]
        /\ Number(g, x)[5] = x /\ Number(g, x)[6] = Comma
    BY NumberParts
  <2> QED
    BY <1>1, <2>1
<1>3. p[1] = q /\ p[2] = g /\ p[3] = q /\ p[4] = c
  BY <1>1, PrefixParts
<1>4. \A i \in 1..6 : \/ e[i] # q
                      \/ i + 1 <= 6 /\ e[i + 1] # f
                      \/ i + 3 <= 6 /\ (e[i + 2] # q \/ e[i + 3] # c)
  BY <1>1, <1>2, <1>3
<1> QED
  BY <1>1, <1>2, <1>4 DEF NoPrefix

\* Nor does a string without a quote, even one that spells a field.
LEMMA StringNoPrefix ==
    ASSUME NEW A, Quote \in A, Colon \in A, Comma \in A, Quote # Colon, Quote # Comma, Colon # Comma,
           NEW g \in A, g # Quote, NEW f \in A, f # Colon, f # Comma, f # Quote, f # g,
           NEW s \in Seq(A), Quote \notin Range(s)
    PROVE  NoPrefix(String(g, s), f)
<1>1. PICK e, p, n, q, comma, colon :
        /\ e = String(g, s) /\ p = Prefix(g) /\ n = Len(s)
        /\ q = Quote /\ comma = Comma /\ colon = Colon
  OBVIOUS
<1>2. p[1] = q /\ p[2] = g /\ p[3] = q /\ p[4] = colon
  BY <1>1, PrefixParts
<1>3. /\ n \in Nat /\ Len(e) = n + 7
      /\ \A i \in 1..4 : e[i] = p[i]
      /\ e[5] = q
      /\ \A i \in 1..n : e[5 + i] = s[i]
      /\ e[6 + n] = q /\ e[7 + n] = comma
  <2>1. /\ Len(s) \in Nat /\ Len(String(g, s)) = Len(s) + 7
        /\ \A i \in 1..4 : String(g, s)[i] = Prefix(g)[i]
        /\ String(g, s)[5] = Quote
        /\ \A i \in 1..Len(s) : String(g, s)[5 + i] = s[i]
        /\ String(g, s)[6 + Len(s)] = Quote /\ String(g, s)[7 + Len(s)] = Comma
    BY StringParts
  <2> QED
    BY <1>1, <2>1
<1>4. e[1] = q /\ e[2] = g /\ e[3] = q /\ e[4] = colon
  BY <1>2, <1>3
<1>5. \A i \in 1..n : e[5 + i] # q
  <2>1. \A i \in 1..n : s[i] # q
    BY <1>1 DEF Range
  <2> QED
    BY <1>3, <2>1
<1>6. q # colon /\ q # comma /\ colon # comma /\ f # colon /\ f # comma /\ f # q /\ f # g /\ g # q
  BY <1>1
<1>7. ASSUME NEW i \in 1..(n + 7)
      PROVE  \/ e[i] # q
             \/ i + 1 <= n + 7 /\ e[i + 1] # f
             \/ i + 3 <= n + 7 /\ (e[i + 2] # q \/ e[i + 3] # colon)
  <2>1. CASE i <= 4
    <3>1. e[1 + 1] = g /\ e[3 + 1] = colon /\ i \in {1, 2, 3, 4} /\ 1 + 1 <= n + 7 /\ 3 + 1 <= n + 7
      BY <1>3, <1>4, <2>1
    <3> QED
      BY <1>4, <1>6, <3>1
  <2>2. CASE i = 5
    <3>1. CASE n = 0
      <4>1. e[5 + 1] = q /\ e[5 + 2] = comma
        BY <1>3, <3>1
      <4> QED
        BY <1>3, <1>6, <2>2, <3>1, <4>1
    <3>2. CASE n = 1
      <4>1. e[5 + 2] = q /\ e[5 + 3] = comma
        BY <1>3, <3>2
      <4> QED
        BY <1>3, <1>6, <2>2, <3>2, <4>1
    <3>3. CASE n >= 2
      <4>1. e[5 + 2] # q
        BY <1>3, <1>5, <3>3
      <4> QED
        BY <1>3, <2>2, <3>3, <4>1
    <3> QED
      BY <1>3, <3>1, <3>2, <3>3
  <2>3. CASE i >= 6 /\ i <= 5 + n
    <3>1. i - 5 \in 1..n /\ 5 + (i - 5) = i
      BY <1>3, <2>3
    <3> QED
      BY <1>5, <3>1
  <2>4. CASE i = 6 + n
    <3>1. e[i + 1] = comma /\ i + 1 <= n + 7
      BY <1>3, <2>4
    <3> QED
      BY <1>6, <3>1
  <2>5. CASE i = 7 + n
    BY <1>3, <1>6, <2>5
  <2> QED
    BY <1>3, <2>1, <2>2, <2>3, <2>4, <2>5
<1> QED
  BY <1>1, <1>3, <1>7 DEF NoPrefix

\* The first field of its name is found.
LEMMA FieldFound ==
    ASSUME NEW A, Quote \in A, Colon \in A, NEW f \in A,
           NEW data \in Seq(A), NEW a \in Seq(A), Begins(data, a), NoPrefix(a, f),
           NEW pattern \in Seq(A), Len(pattern) >= 4, \A i \in 1..4 : pattern[i] = Prefix(f)[i],
           Occurs(data, pattern, Len(a) + 1)
    PROVE  FindIn(data, pattern, 1) = Len(a) + 1
<1>1. PICK m, l, q, c : m = Len(a) /\ l = Len(pattern) /\ q = Quote /\ c = Colon
  OBVIOUS
<1>2. m \in Nat /\ l \in Nat /\ l >= 4
  BY <1>1
<1>0. \A k \in 1..m : k \in Nat
  BY <1>2
<1>3. pattern[1] = q /\ pattern[2] = f /\ pattern[3] = q /\ pattern[4] = c
  <2>1. PICK p : p = Prefix(f)
    OBVIOUS
  <2>2. p[1] = q /\ p[2] = f /\ p[3] = q /\ p[4] = c
    BY <1>1, <2>1, PrefixParts
  <2> QED
    BY <2>1, <2>2
<1>4. ASSUME NEW i \in 1..m
      PROVE  ~Occurs(data, pattern, i)
  <2>1. SUFFICES ASSUME Occurs(data, pattern, i)
                 PROVE  FALSE
    OBVIOUS
  <2>2. \A j \in 1..l : data[i + j - 1] = pattern[j]
    BY <1>1, <2>1 DEF Occurs
  <2>3. data[i] = q /\ data[i + 1] = f /\ data[i + 2] = q /\ data[i + 3] = c
    <3>1. /\ data[i + 1 - 1] = pattern[1] /\ data[i + 2 - 1] = pattern[2]
          /\ data[i + 3 - 1] = pattern[3] /\ data[i + 4 - 1] = pattern[4]
      <4>1. 1 \in 1..l /\ 2 \in 1..l /\ 3 \in 1..l /\ 4 \in 1..l
        BY <1>2
      <4> QED
        BY <2>2, <4>1, Zenon
    <3>2. i \in Nat
      BY <1>0, Zenon
    <3>3. \A k \in Nat : k + 1 - 1 = k /\ k + 2 - 1 = k + 1 /\ k + 3 - 1 = k + 2 /\ k + 4 - 1 = k + 3
      OBVIOUS
    <3>4. i + 1 - 1 = i /\ i + 2 - 1 = i + 1 /\ i + 3 - 1 = i + 2 /\ i + 4 - 1 = i + 3
      BY <3>2, <3>3, Zenon
    <3> QED
      BY <1>3, <3>1, <3>4
  <2>4. \A k \in 1..m : data[k] = a[k]
    BY <1>1 DEF Begins
  <2>5. \/ a[i] # q
        \/ i + 1 <= m /\ a[i + 1] # f
        \/ i + 3 <= m /\ (a[i + 2] # q \/ a[i + 3] # c)
    BY <1>1 DEF NoPrefix
  <2> QED
    BY <1>2, <2>3, <2>4, <2>5, SMTT(30)
<1>5. IsFirst(data, pattern, 1, m + 1)
  <2>1. ASSUME NEW i \in Nat, i >= 1, Occurs(data, pattern, i)
        PROVE  m + 1 <= i
    BY <1>2, <1>4, <2>1
  <2>2. Occurs(data, pattern, m + 1)
    BY <1>1
  <2> QED
    BY <1>2, <2>1, <2>2 DEF IsFirst
<1>6. IsFirst(data, pattern, 1, FindIn(data, pattern, 1))
  BY FindIsFirst
<1> QED
  BY <1>1, <1>5, <1>6, FirstUnique

\* A number is read behind a piece that holds no prefix of its field.
LEMMA ReadNumber ==
    ASSUME NEW A, Quote \in A, Colon \in A, Comma \in A, NEW f \in A,
           NEW x \in A, x \in Numbers,
           NEW data \in Seq(A), NEW a \in Seq(A), NoPrefix(a, f), Begins(data, a \o Number(f, x))
    PROVE  FindInt(data, f) = x
<1>1. PICK m, p, e : m = Len(a) /\ p = Prefix(f) /\ e = Number(f, x)
  OBVIOUS
<1>2. p \in Seq(A) /\ Len(p) = 4 /\ m \in Nat /\ Len(data) \in Nat
  BY <1>1, PrefixParts
<1>3. /\ e \in Seq(A) /\ Len(e) = 6 /\ e[5] = x
      /\ \A i \in 1..4 : e[i] = p[i]
  <2>1. /\ Number(f, x) \in Seq(A) /\ Len(Number(f, x)) = 6
        /\ \A i \in 1..4 : Number(f, x)[i] = Prefix(f)[i]
        /\ Number(f, x)[5] = x
    BY NumberParts
  <2> QED
    BY <1>1, <2>1
<1>4. /\ Begins(data, a) /\ m + 6 <= Len(data)
      /\ \A i \in 1..6 : data[m + i] = e[i]
  <2>1. /\ Begins(data, a) /\ Len(a) + Len(e) <= Len(data)
        /\ \A i \in 1..Len(e) : data[Len(a) + i] = e[i]
    <3>1. e \in Seq(A) /\ Begins(data, a \o e)
      BY <1>1, <1>3
    <3> QED
      BY <3>1, BehindPiece
  <2> QED
    BY <1>1, <1>3, <2>1
<1>5. Occurs(data, p, m + 1)
  <2>1. m + 1 \in 1..(Len(data) - Len(p) + 1)
    BY <1>2, <1>4
  <2>2. ASSUME NEW j \in 1..Len(p)
        PROVE  data[m + 1 + j - 1] = p[j]
    <3>1. j \in 1..4 /\ j \in 1..6 /\ m + 1 + j - 1 = m + j
      BY <1>2
    <3> QED
      BY <1>3, <1>4, <3>1
  <2> QED
    BY <2>1, <2>2 DEF Occurs
<1>6. FindIn(data, p, 1) = m + 1
  <2>1. Len(p) >= 4 /\ \A i \in 1..4 : p[i] = Prefix(f)[i]
    BY <1>1, <1>2
  <2>2. Begins(data, a) /\ Occurs(data, p, Len(a) + 1) /\ p \in Seq(A)
    BY <1>1, <1>2, <1>4, <1>5
  <2>3. FindIn(data, p, 1) = Len(a) + 1
    BY <2>1, <2>2, FieldFound
  <2> QED
    BY <1>1, <2>3
<1>7. data[m + 1 + Len(p)] = x
  <2>1. m + 1 + Len(p) = m + 5
    BY <1>2
  <2> QED
    BY <1>3, <1>4, <2>1, SMTT(30)
<1> QED
  BY <1>1, <1>2, <1>6, <1>7 DEF FindInt

\* And so is a string without a quote.
LEMMA ReadString ==
    ASSUME NEW A, Quote \in A, Colon \in A, Comma \in A, NEW f \in A,
           NEW s \in Seq(A), Quote \notin Range(s),
           NEW data \in Seq(A), NEW a \in Seq(A), NoPrefix(a, f), Begins(data, a \o String(f, s))
    PROVE  FindStr(data, f) = s
<1>1. PICK m, n, p, e, k, q : /\ m = Len(a) /\ n = Len(s) /\ p = Prefix(f) /\ e = String(f, s)
                              /\ k = With(p, Quote) /\ q = Quote
  OBVIOUS
<1>2. p \in Seq(A) /\ Len(p) = 4 /\ m \in Nat /\ n \in Nat /\ Len(data) \in Nat
  BY <1>1, PrefixParts
<1>3. /\ e \in Seq(A) /\ Len(e) = n + 7
      /\ \A i \in 1..4 : e[i] = p[i]
      /\ e[5] = q
      /\ \A i \in 1..n : e[5 + i] = s[i]
      /\ e[6 + n] = q
  <2>1. /\ String(f, s) \in Seq(A) /\ Len(String(f, s)) = Len(s) + 7
        /\ \A i \in 1..4 : String(f, s)[i] = Prefix(f)[i]
        /\ String(f, s)[5] = Quote
        /\ \A i \in 1..Len(s) : String(f, s)[5 + i] = s[i]
        /\ String(f, s)[6 + Len(s)] = Quote
    BY StringParts
  <2> QED
    BY <1>1, <2>1
<1>4. /\ Begins(data, a) /\ m + n + 7 <= Len(data)
      /\ \A i \in 1..(n + 7) : data[m + i] = e[i]
  <2>1. /\ Begins(data, a) /\ Len(a) + Len(e) <= Len(data)
        /\ \A i \in 1..Len(e) : data[Len(a) + i] = e[i]
    <3>1. e \in Seq(A) /\ Begins(data, a \o e)
      BY <1>1, <1>3
    <3> QED
      BY <3>1, BehindPiece
  <2>2. m = Len(a) /\ Len(e) = n + 7
    BY <1>1, <1>3
  <2>3. Begins(data, a) /\ m + (n + 7) <= Len(data) /\ \A i \in 1..(n + 7) : data[m + i] = e[i]
    BY <2>1, <2>2
  <2> QED
    BY <1>2, <2>3
<1>5. /\ k \in Seq(A) /\ Len(k) = 5 /\ k[5] = q
      /\ \A i \in 1..4 : k[i] = p[i]
  <2>1. PICK x \in A : x = Quote
    OBVIOUS
  <2>2. /\ With(p, x) \in Seq(A) /\ Len(With(p, x)) = Len(p) + 1
        /\ \A i \in 1..Len(p) : With(p, x)[i] = p[i]
        /\ With(p, x)[Len(p) + 1] = x
    BY <1>2, WithParts, ZenonT(40)
  <2> QED
    BY <1>1, <1>2, <2>1, <2>2
<1>6. Occurs(data, k, m + 1)
  <2>1. m + 1 \in 1..(Len(data) - Len(k) + 1)
    BY <1>2, <1>4, <1>5
  <2>2. ASSUME NEW j \in 1..Len(k)
        PROVE  data[m + 1 + j - 1] = k[j]
    <3>1. j \in 1..5 /\ j \in 1..(n + 7) /\ m + 1 + j - 1 = m + j /\ (j = 5 \/ j \in 1..4)
      BY <1>2, <1>5
    <3> QED
      BY <1>3, <1>4, <1>5, <3>1, SMTT(30)
  <2> QED
    BY <2>1, <2>2 DEF Occurs
<1>7. FindIn(data, k, 1) = m + 1
  <2>1. Len(k) >= 4 /\ \A i \in 1..4 : k[i] = Prefix(f)[i]
    BY <1>1, <1>5
  <2>2. Begins(data, a) /\ Occurs(data, k, Len(a) + 1) /\ k \in Seq(A)
    BY <1>1, <1>4, <1>5, <1>6
  <2>3. FindIn(data, k, 1) = Len(a) + 1
    BY <2>1, <2>2, FieldFound
  <2> QED
    BY <1>1, <2>3
<1>8. \A i \in 1..n : data[m + 5 + i] = s[i] /\ s[i] # q
  <2>1. ASSUME NEW i \in 1..n
        PROVE  data[m + 5 + i] = s[i] /\ s[i] # q
    <3>1. 5 + i \in 1..(n + 7) /\ m + (5 + i) = m + 5 + i
      BY <1>2
    <3>2. s[i] # q
      BY <1>1 DEF Range
    <3> QED
      BY <1>3, <1>4, <3>1, <3>2
  <2> QED
    BY <2>1
<1>9. data[m + 6 + n] = q
  <2>1. 6 + n \in 1..(n + 7) /\ m + (6 + n) = m + 6 + n
    BY <1>2
  <2> QED
    BY <1>3, <1>4, <2>1
<1>10. PICK u : u = <<Quote>>
  OBVIOUS
<1>11. u \in Seq(A) /\ Len(u) = 1 /\ u[1] = q
  BY <1>1, <1>10
<1>12. \A i \in Nat \ {0} : Occurs(data, u, i) <=> i <= Len(data) /\ data[i] = q
  <2>1. ASSUME NEW i \in Nat \ {0}
        PROVE  Occurs(data, u, i) <=> i <= Len(data) /\ data[i] = q
    <3>1. i \in 1..(Len(data) - Len(u) + 1) <=> i <= Len(data)
      BY <1>2, <1>11
    <3>2. (\A j \in 1..Len(u) : data[i + j - 1] = u[j]) <=> data[i + 1 - 1] = u[1]
      BY <1>11
    <3>3. i + 1 - 1 = i
      OBVIOUS
    <3> QED
      BY <1>11, <3>1, <3>2, <3>3 DEF Occurs
  <2> QED
    BY <2>1
<1>13. FindIn(data, u, m + 6) = m + 6 + n
  <2>1. ASSUME NEW i \in Nat, i >= m + 6, Occurs(data, u, i)
        PROVE  m + 6 + n <= i
    <3>1. SUFFICES ASSUME i < m + 6 + n
                   PROVE  FALSE
      BY <1>2
    <3>2. i - (m + 5) \in 1..n /\ m + 5 + (i - (m + 5)) = i
      BY <1>2, <2>1, <3>1
    <3>3. data[i] # q
      BY <1>8, <3>2
    <3>4. i \in Nat \ {0}
      BY <1>2, <2>1
    <3> QED
      BY <1>12, <2>1, <3>3, <3>4
  <2>2. m + 6 + n \in Nat \ {0} /\ m + 6 + n <= Len(data) /\ m + 6 + n >= m + 6 /\ m + 6 \in Nat \ {0}
    BY <1>2, <1>4
  <2>3. Occurs(data, u, m + 6 + n)
    BY <1>9, <1>12, <2>2
  <2>4. IsFirst(data, u, m + 6, m + 6 + n)
    BY <2>1, <2>2, <2>3 DEF IsFirst
  <2>5. IsFirst(data, u, m + 6, FindIn(data, u, m + 6))
    BY <1>11, <2>2, FindIsFirst
  <2> QED
    BY <2>2, <2>4, <2>5, FirstUnique
<1>20. PICK z : z = m + 6 + n
  OBVIOUS
<1>14. SubSeq(data, m + 6, z - 1) = s
  <2>1. m + 6 \in 1..(Len(data) - Len(s) + 1)
    BY <1>1, <1>2, <1>4
  <2>2. \A j \in 1..n : data[m + 6 + j - 1] = s[j]
    <3>1. ASSUME NEW j \in 1..n
          PROVE  data[m + 6 + j - 1] = s[j]
      <4>1. m + 6 + j - 1 = m + 5 + j
        BY <1>2
      <4> QED
        BY <1>8, <4>1
    <3> QED
      BY <3>1
  <2>3. Occurs(data, s, m + 6)
    BY <1>1, <2>1, <2>2 DEF Occurs
  <2>4. SubSeq(data, m + 6, m + 6 + Len(s) - 1) = s
    BY <2>1, <2>3, OccursCut
  <2>5. m + 6 + Len(s) - 1 = z - 1
    BY <1>1, <1>20
  <2> QED
    BY <2>4, <2>5
<1>15. Prefix(f) \o <<Quote>> = k
  BY <1>1 DEF With
<1>16. m + 1 + Len(k) = m + 6 /\ m + 1 # 0 /\ m + 6 + n # 0
  BY <1>2, <1>5
<1>17. FindStr(data, f) =
         IF FindIn(data, k, 1) = 0 \/ FindIn(data, u, FindIn(data, k, 1) + Len(k)) = 0 THEN <<>>
         ELSE SubSeq(data, FindIn(data, k, 1) + Len(k), FindIn(data, u, FindIn(data, k, 1) + Len(k)) - 1)
  BY <1>10, <1>15 DEF FindStr
<1>18. FindStr(data, f) =
         IF m + 1 = 0 \/ FindIn(data, u, m + 6) = 0 THEN <<>>
         ELSE SubSeq(data, m + 6, FindIn(data, u, m + 6) - 1)
  BY <1>7, <1>16, <1>17
<1>19. FindStr(data, f) = SubSeq(data, m + 6, z - 1)
  BY <1>13, <1>16, <1>18, <1>20
<1> QED
  BY <1>13, <1>14, <1>19

\* The names of the fields, and what else the records hold.
Names == {"id", "user_id", "filename", "file_hash", "file_size", "storage_path", "status",
          "created_at", "session_token", "expires_at"}

Letters == {"h", "p", "d", "t"}

\* The marks of the text are no names, numbers or letters.
LEMMA MarksApart ==
    /\ Quote \notin Names /\ Quote \notin Numbers /\ Quote \notin Letters
    /\ Quote # Colon /\ Quote # Comma /\ Colon # Comma
    /\ Colon \notin Names /\ Comma \notin Names
<1>1. Quote \notin Names
  BY Zenon DEF Quote, Names
<1>2. Quote \notin Numbers /\ Quote \notin Letters
  BY Zenon DEF Quote, Numbers, Letters
<1>3. Quote # Colon /\ Quote # Comma /\ Colon # Comma
  BY Zenon DEF Quote, Colon, Comma
<1>4. Colon \notin Names
  BY Zenon DEF Colon, Names
<1>5. Comma \notin Names
  BY Zenon DEF Comma, Names
<1> QED
  BY <1>1, <1>2, <1>3, <1>4, <1>5

\* A set of atoms that holds all of a text's.
Alphabet(A) == Names \cup Numbers \cup Letters \cup {Quote, Colon, Comma} \subseteq A

\* Nothing in a piece of a text can be taken for the beginning of one of these fields.
Free(t, F) == \A f \in F : NoPrefix(t, f)

\* The reader of a text is behind a piece of it, and has these fields ahead.
Ready(A, data, t, F) ==
    Alphabet(A) /\ F \subseteq Names /\ data \in Seq(A) /\ t \in Seq(A) /\ Free(t, F)

\* A string without a quote.
Bare(A, s) == s \in Seq(A) /\ Quote \notin Range(s)

\* The reader takes the next field, and has the others ahead.
LEMMA NextNumber ==
    ASSUME NEW A, NEW data, NEW t, NEW F, Ready(A, data, t, F),
           NEW f \in F, NEW x \in Numbers, Begins(data, t \o Number(f, x))
    PROVE  /\ FindInt(data, f) = x
           /\ Ready(A, data, t \o Number(f, x), F \ {f})
<1>0. Alphabet(A) /\ F \subseteq Names /\ data \in Seq(A) /\ t \in Seq(A) /\ Free(t, F)
  BY DEF Ready
<1>1. Quote \in A /\ Colon \in A /\ Comma \in A /\ x \in A /\ f \in A /\ F \subseteq A /\ f \in Names
  BY <1>0 DEF Alphabet
<1>2. NoPrefix(t, f)
  BY <1>0 DEF Free
<1>3. FindInt(data, f) = x
  BY <1>0, <1>1, <1>2, ReadNumber
<1>4. Number(f, x) \in Seq(A)
  BY <1>1, NumberParts
<1>5. ASSUME NEW g \in F \ {f}
      PROVE  NoPrefix(t \o Number(f, x), g)
  <2>1. /\ Quote # Colon /\ Quote # Comma /\ f # Quote /\ g # Colon /\ g # f /\ x # Quote
        /\ g \in A
    BY <1>0, <1>1, MarksApart
  <2>2. NoPrefix(Number(f, x), g)
    BY <1>1, <2>1, NumberNoPrefix
  <2>3. NoPrefix(t, g)
    BY <1>0 DEF Free
  <2> QED
    BY <1>0, <1>4, <2>2, <2>3, NoPrefixBoth
<1>6. Free(t \o Number(f, x), F \ {f}) /\ t \o Number(f, x) \in Seq(A)
  BY <1>0, <1>4, <1>5, ConcatProperties DEF Free
<1> QED
  BY <1>0, <1>3, <1>6 DEF Ready

\* The same for a string.
LEMMA NextString ==
    ASSUME NEW A, NEW data, NEW t, NEW F, Ready(A, data, t, F),
           NEW f \in F, NEW s, Bare(A, s), Begins(data, t \o String(f, s))
    PROVE  /\ FindStr(data, f) = s
           /\ Ready(A, data, t \o String(f, s), F \ {f})
<1>0. /\ Alphabet(A) /\ F \subseteq Names /\ data \in Seq(A) /\ t \in Seq(A) /\ Free(t, F)
      /\ s \in Seq(A) /\ Quote \notin Range(s)
  BY DEF Ready, Bare
<1>1. Quote \in A /\ Colon \in A /\ Comma \in A /\ f \in A /\ F \subseteq A /\ f \in Names
  BY <1>0 DEF Alphabet
<1>2. NoPrefix(t, f)
  BY <1>0 DEF Free
<1>3. FindStr(data, f) = s
  BY <1>0, <1>1, <1>2, ReadString
<1>4. String(f, s) \in Seq(A)
  BY <1>0, <1>1, StringParts
<1>5. ASSUME NEW g \in F \ {f}
      PROVE  NoPrefix(t \o String(f, s), g)
  <2>1. /\ Quote # Colon /\ Quote # Comma /\ Colon # Comma /\ f # Quote
        /\ g # Colon /\ g # Comma /\ g # Quote /\ g # f /\ g \in A
    BY <1>0, <1>1, MarksApart
  <2>2. NoPrefix(String(f, s), g)
    BY <1>0, <1>1, <2>1, StringNoPrefix
  <2>3. NoPrefix(t, g)
    BY <1>0 DEF Free
  <2> QED
    BY <1>0, <1>4, <2>2, <2>3, NoPrefixBoth
<1>6. Free(t \o String(f, s), F \ {f}) /\ t \o String(f, s) \in Seq(A)
  BY <1>0, <1>4, <1>5, ConcatProperties DEF Free
<1> QED
  BY <1>0, <1>3, <1>6 DEF Ready

\* The first two fields of a text, and the names of the others.
Ids(i, u) == Number("id", i) \o Number("user_id", u)
OtherNames == Names \ {"id", "user_id"}

\* They are found whatever stands behind them.
LEMMA IdsRead ==
    ASSUME NEW A, Alphabet(A), NEW i \in Numbers, NEW u \in Numbers, NEW data \in Seq(A),
           Begins(data, Ids(i, u))
    PROVE  /\ FindInt(data, "id") = i /\ FindInt(data, "user_id") = u
           /\ Ready(A, data, Ids(i, u), OtherNames)
<1>1. PICK a, b : a = Number("id", i) /\ b = Number("user_id", u)
  OBVIOUS
<1>8. Ids(i, u) = a \o b
  BY <1>1 DEF Ids
<1>2. a \in Seq(A) /\ b \in Seq(A)
  <2>1. Quote \in A /\ Colon \in A /\ Comma \in A /\ i \in A /\ u \in A /\ "id" \in A /\ "user_id" \in A
    BY DEF Alphabet, Names
  <2>2. Number("id", i) \in Seq(A)
    BY <2>1, NumberParts
  <2>3. Number("user_id", u) \in Seq(A)
    BY <2>1, NumberParts
  <2> QED
    BY <1>1, <2>2, <2>3
<1>3. Begins(data, a) /\ <<>> \o a = a /\ <<>> \in Seq(A)
  <2>1. Begins(data, a \o b)
    BY <1>8
  <2> QED
    BY <1>2, <2>1, BehindPiece, ConcatEmptySeq, EmptySeq
<1>4. Ready(A, data, <<>>, Names)
  BY <1>3, NoPrefixEmpty DEF Free, Ready
<1>5. FindInt(data, "id") = i /\ Ready(A, data, a, Names \ {"id"})
  <2>1. "id" \in Names
    BY DEF Names
  <2>2. Begins(data, <<>> \o Number("id", i))
    BY <1>1, <1>3
  <2>3. FindInt(data, "id") = i /\ Ready(A, data, <<>> \o Number("id", i), Names \ {"id"})
    BY <1>4, <2>1, <2>2, NextNumber
  <2> QED
    BY <1>1, <1>3, <2>3
<1>6. FindInt(data, "user_id") = u /\ Ready(A, data, a \o b, (Names \ {"id"}) \ {"user_id"})
  <2>1. "user_id" \in Names \ {"id"}
    BY DEF Names
  <2>2. Begins(data, a \o Number("user_id", u))
    BY <1>1, <1>8
  <2>3. /\ FindInt(data, "user_id") = u
        /\ Ready(A, data, a \o Number("user_id", u), (Names \ {"id"}) \ {"user_id"})
    BY <1>5, <2>1, <2>2, NextNumber
  <2> QED
    BY <1>1, <2>3
<1>7. (Names \ {"id"}) \ {"user_id"} = OtherNames
  BY DEF OtherNames
<1> QED
  BY <1>5, <1>6, <1>7, <1>8

\* The text of a record with these fields.
FileWith(i, u, n, h, z, p, c, d) ==
    Ids(i, u)
        \o String("filename", n)
        \o String("file_hash", h)
        \o Number("file_size", z)
        \o String("storage_path", p)
        \o Number("status", c)
        \o String("created_at", d)

\* It gives back the ids, and without a quote in the name each of the fields.
LEMMA FileRead ==
    ASSUME NEW A, Alphabet(A), NEW i \in Numbers, NEW u \in Numbers, NEW z \in Numbers, NEW c \in Numbers,
           NEW n, n \in Seq(A), NEW h, Bare(A, h), NEW p, Bare(A, p), NEW d, Bare(A, d),
           NEW data, data = FileWith(i, u, n, h, z, p, c, d)
    PROVE  /\ FindInt(data, "id") = i /\ FindInt(data, "user_id") = u
           /\ Bare(A, n) =>
                /\ FindStr(data, "filename") = n /\ FindStr(data, "file_hash") = h
                /\ FindInt(data, "file_size") = z /\ FindStr(data, "storage_path") = p
                /\ FindInt(data, "status") = c /\ FindStr(data, "created_at") = d
<1>1. PICK t2, t3, t4, t5, t6, t7, t8 :
        /\ t2 = Ids(i, u)
        /\ t3 = t2 \o String("filename", n)
        /\ t4 = t3 \o String("file_hash", h)
        /\ t5 = t4 \o Number("file_size", z)
        /\ t6 = t5 \o String("storage_path", p)
        /\ t7 = t6 \o Number("status", c)
        /\ t8 = t7 \o String("created_at", d)
  OBVIOUS
<1>2. data = t8
  BY <1>1 DEF FileWith
<1>3. Quote \in A /\ Colon \in A /\ Comma \in A /\ Names \subseteq A /\ Numbers \subseteq A
  BY DEF Alphabet
<1>4. "filename" \in Names /\ "file_hash" \in Names /\ "file_size" \in Names /\ "storage_path" \in Names /\ "status" \in Names /\ "created_at" \in Names
  BY DEF Names
<1>5. t2 \in Seq(A)
  <2>1. "id" \in A /\ "user_id" \in A /\ i \in A /\ u \in A
    BY <1>3 DEF Names
  <2>2. Number("id", i) \in Seq(A)
    BY <1>3, <2>1, NumberParts
  <2>3. Number("user_id", u) \in Seq(A)
    BY <1>3, <2>1, NumberParts
  <2> QED
    BY <1>1, <2>2, <2>3, ConcatProperties DEF Ids
<1>6. t3 \in Seq(A) /\ String("filename", n) \in Seq(A)
  <2>1. String("filename", n) \in Seq(A)
    BY <1>3, <1>4, StringParts DEF Bare
  <2> QED
    BY <1>1, <1>5, <2>1, ConcatProperties
<1>7. t4 \in Seq(A) /\ String("file_hash", h) \in Seq(A)
  <2>1. String("file_hash", h) \in Seq(A)
    BY <1>3, <1>4, StringParts DEF Bare
  <2> QED
    BY <1>1, <1>6, <2>1, ConcatProperties
<1>8. t5 \in Seq(A) /\ Number("file_size", z) \in Seq(A)
  <2>1. Number("file_size", z) \in Seq(A)
    BY <1>3, <1>4, NumberParts
  <2> QED
    BY <1>1, <1>7, <2>1, ConcatProperties
<1>9. t6 \in Seq(A) /\ String("storage_path", p) \in Seq(A)
  <2>1. String("storage_path", p) \in Seq(A)
    BY <1>3, <1>4, StringParts DEF Bare
  <2> QED
    BY <1>1, <1>8, <2>1, ConcatProperties
<1>10. t7 \in Seq(A) /\ Number("status", c) \in Seq(A)
  <2>1. Number("status", c) \in Seq(A)
    BY <1>3, <1>4, NumberParts
  <2> QED
    BY <1>1, <1>9, <2>1, ConcatProperties
<1>11. t8 \in Seq(A) /\ String("created_at", d) \in Seq(A)
  <2>1. String("created_at", d) \in Seq(A)
    BY <1>3, <1>4, StringParts DEF Bare
  <2> QED
    BY <1>1, <1>10, <2>1, ConcatProperties
<1>12. Begins(data, t8)
  BY <1>2, <1>11, BeginsSelf
<1>13. Begins(data, t7)
  <2>1. Begins(data, t7 \o String("created_at", d)) /\ data \in Seq(A)
    BY <1>1, <1>2, <1>11, <1>12
  <2> QED
    BY <1>10, <1>11, <2>1, BehindPiece
<1>14. Begins(data, t6)
  <2>1. Begins(data, t6 \o Number("status", c)) /\ data \in Seq(A)
    BY <1>1, <1>2, <1>11, <1>13
  <2> QED
    BY <1>9, <1>10, <2>1, BehindPiece
<1>15. Begins(data, t5)
  <2>1. Begins(data, t5 \o String("storage_path", p)) /\ data \in Seq(A)
    BY <1>1, <1>2, <1>11, <1>14
  <2> QED
    BY <1>8, <1>9, <2>1, BehindPiece
<1>16. Begins(data, t4)
  <2>1. Begins(data, t4 \o Number("file_size", z)) /\ data \in Seq(A)
    BY <1>1, <1>2, <1>11, <1>15
  <2> QED
    BY <1>7, <1>8, <2>1, BehindPiece
<1>17. Begins(data, t3)
  <2>1. Begins(data, t3 \o String("file_hash", h)) /\ data \in Seq(A)
    BY <1>1, <1>2, <1>11, <1>16
  <2> QED
    BY <1>6, <1>7, <2>1, BehindPiece
<1>18. Begins(data, t2)
  <2>1. Begins(data, t2 \o String("filename", n)) /\ data \in Seq(A)
    BY <1>1, <1>2, <1>11, <1>17
  <2> QED
    BY <1>5, <1>6, <2>1, BehindPiece
<1>19. /\ FindInt(data, "id") = i /\ FindInt(data, "user_id") = u
      /\ Ready(A, data, t2, OtherNames)
  <2>1. Begins(data, Ids(i, u)) /\ data \in Seq(A)
    BY <1>1, <1>2, <1>11, <1>18
  <2>2. /\ FindInt(data, "id") = i /\ FindInt(data, "user_id") = u
        /\ Ready(A, data, Ids(i, u), OtherNames)
    BY <2>1, IdsRead
  <2> QED
    BY <1>1, <2>2
<1>20. ASSUME Bare(A, n)
      PROVE  /\ FindStr(data, "filename") = n /\ FindStr(data, "file_hash") = h
             /\ FindInt(data, "file_size") = z /\ FindStr(data, "storage_path") = p
             /\ FindInt(data, "status") = c /\ FindStr(data, "created_at") = d
  <2>1. PICK F2 : F2 = OtherNames
    OBVIOUS
  <2>2. PICK F3 : F3 = F2 \ {"filename"}
    OBVIOUS
  <2>3. FindStr(data, "filename") = n /\ Ready(A, data, t3, F3)
    <3>1. Ready(A, data, t2, F2) /\ Begins(data, t2 \o String("filename", n))
      BY <1>1, <1>17, <1>19, <2>1
    <3>2. "filename" \in F2
      BY <1>4, <2>1 DEF OtherNames
    <3>3. /\ FindStr(data, "filename") = n
          /\ Ready(A, data, t2 \o String("filename", n), F2 \ {"filename"})
      BY <1>20, <3>1, <3>2, NextString
    <3> QED
      BY <1>1, <2>2, <3>3
  <2>4. PICK F4 : F4 = F3 \ {"file_hash"}
    OBVIOUS
  <2>5. FindStr(data, "file_hash") = h /\ Ready(A, data, t4, F4)
    <3>1. Ready(A, data, t3, F3) /\ Begins(data, t3 \o String("file_hash", h))
      BY <1>1, <1>16, <2>3
    <3>2. "file_hash" \in F3
      BY <1>4, <2>1, <2>2 DEF OtherNames
    <3>3. /\ FindStr(data, "file_hash") = h
          /\ Ready(A, data, t3 \o String("file_hash", h), F3 \ {"file_hash"})
      BY <1>20, <3>1, <3>2, NextString
    <3> QED
      BY <1>1, <2>4, <3>3
  <2>6. PICK F5 : F5 = F4 \ {"file_size"}
    OBVIOUS
  <2>7. FindInt(data, "file_size") = z /\ Ready(A, data, t5, F5)
    <3>1. Ready(A, data, t4, F4) /\ Begins(data, t4 \o Number("file_size", z))
      BY <1>1, <1>15, <2>5
    <3>2. "file_size" \in F4
      BY <1>4, <2>1, <2>2, <2>4 DEF OtherNames
    <3>3. /\ FindInt(data, "file_size") = z
          /\ Ready(A, data, t4 \o Number("file_size", z), F4 \ {"file_size"})
      BY <3>1, <3>2, NextNumber
    <3> QED
      BY <1>1, <2>6, <3>3
  <2>8. PICK F6 : F6 = F5 \ {"storage_path"}
    OBVIOUS
  <2>9. FindStr(data, "storage_path") = p /\ Ready(A, data, t6, F6)
    <3>1. Ready(A, data, t5, F5) /\ Begins(data, t5 \o String("storage_path", p))
      BY <1>1, <1>14, <2>7
    <3>2. "storage_path" \in F5
      BY <1>4, <2>1, <2>2, <2>4, <2>6 DEF OtherNames
    <3>3. /\ FindStr(data, "storage_path") = p
          /\ Ready(A, data, t5 \o String("storage_path", p), F5 \ {"storage_path"})
      BY <1>20, <3>1, <3>2, NextString
    <3> QED
      BY <1>1, <2>8, <3>3
  <2>10. PICK F7 : F7 = F6 \ {"status"}
    OBVIOUS
  <2>11. FindInt(data, "status") = c /\ Ready(A, data, t7, F7)
    <3>1. Ready(A, data, t6, F6) /\ Begins(data, t6 \o Number("status", c))
      BY <1>1, <1>13, <2>9
    <3>2. "status" \in F6
      BY <1>4, <2>1, <2>2, <2>4, <2>6, <2>8 DEF OtherNames
    <3>3. /\ FindInt(data, "status") = c
          /\ Ready(A, data, t6 \o Number("status", c), F6 \ {"status"})
      BY <3>1, <3>2, NextNumber
    <3> QED
      BY <1>1, <2>10, <3>3
  <2>12. PICK F8 : F8 = F7 \ {"created_at"}
    OBVIOUS
  <2>13. FindStr(data, "created_at") = d /\ Ready(A, data, t8, F8)
    <3>1. Ready(A, data, t7, F7) /\ Begins(data, t7 \o String("created_at", d))
      BY <1>1, <1>12, <2>11
    <3>2. "created_at" \in F7
      BY <1>4, <2>1, <2>2, <2>4, <2>6, <2>8, <2>10 DEF OtherNames
    <3>3. /\ FindStr(data, "created_at") = d
          /\ Ready(A, data, t7 \o String("created_at", d), F7 \ {"created_at"})
      BY <1>20, <3>1, <3>2, NextString
    <3> QED
      BY <1>1, <2>12, <3>3
  <2> QED
    BY <2>3, <2>5, <2>7, <2>9, <2>11, <2>13
<1> QED
  BY <1>19, <1>20

\* The text of a session with these fields.
SessionWith(i, u, t, e, d) ==
    Ids(i, u)
        \o String("session_token", t)
        \o String("expires_at", e)
        \o String("created_at", d)

\* The text of a session's record gives back each of its fields.
LEMMA SessionRead ==
    ASSUME NEW A, Alphabet(A), NEW i \in Numbers, NEW u \in Numbers,
           NEW t, Bare(A, t), NEW e, Bare(A, e), NEW d, Bare(A, d),
           NEW data, data = SessionWith(i, u, t, e, d)
    PROVE  /\ FindInt(data, "id") = i /\ FindInt(data, "user_id") = u
           /\ FindStr(data, "session_token") = t /\ FindStr(data, "expires_at") = e
           /\ FindStr(data, "created_at") = d
<1>1. PICK t2, t3, t4, t5 :
        /\ t2 = Ids(i, u)
        /\ t3 = t2 \o String("session_token", t)
        /\ t4 = t3 \o String("expires_at", e)
        /\ t5 = t4 \o String("created_at", d)
  OBVIOUS
<1>2. data = t5
  BY <1>1 DEF SessionWith
<1>3. Quote \in A /\ Colon \in A /\ Comma \in A /\ Names \subseteq A /\ Numbers \subseteq A
  BY DEF Alphabet
<1>4. "session_token" \in Names /\ "expires_at" \in Names /\ "created_at" \in Names
  BY DEF Names
<1>5. t2 \in Seq(A)
  <2>1. "id" \in A /\ "user_id" \in A /\ i \in A /\ u \in A
    BY <1>3 DEF Names
  <2>2. Number("id", i) \in Seq(A)
    BY <1>3, <2>1, NumberParts
  <2>3. Number("user_id", u) \in Seq(A)
    BY <1>3, <2>1, NumberParts
  <2> QED
    BY <1>1, <2>2, <2>3, ConcatProperties DEF Ids
<1>6. t3 \in Seq(A) /\ String("session_token", t) \in Seq(A)
  <2>1. String("session_token", t) \in Seq(A)
    BY <1>3, <1>4, StringParts DEF Bare
  <2> QED
    BY <1>1, <1>5, <2>1, ConcatProperties
<1>7. t4 \in Seq(A) /\ String("expires_at", e) \in Seq(A)
  <2>1. String("expires_at", e) \in Seq(A)
    BY <1>3, <1>4, StringParts DEF Bare
  <2> QED
    BY <1>1, <1>6, <2>1, ConcatProperties
<1>8. t5 \in Seq(A) /\ String("created_at", d) \in Seq(A)
  <2>1. String("created_at", d) \in Seq(A)
    BY <1>3, <1>4, StringParts DEF Bare
  <2> QED
    BY <1>1, <1>7, <2>1, ConcatProperties
<1>9. Begins(data, t5)
  BY <1>2, <1>8, BeginsSelf
<1>10. Begins(data, t4)
  <2>1. Begins(data, t4 \o String("created_at", d)) /\ data \in Seq(A)
    BY <1>1, <1>2, <1>8, <1>9
  <2> QED
    BY <1>7, <1>8, <2>1, BehindPiece
<1>11. Begins(data, t3)
  <2>1. Begins(data, t3 \o String("expires_at", e)) /\ data \in Seq(A)
    BY <1>1, <1>2, <1>8, <1>10
  <2> QED
    BY <1>6, <1>7, <2>1, BehindPiece
<1>12. Begins(data, t2)
  <2>1. Begins(data, t2 \o String("session_token", t)) /\ data \in Seq(A)
    BY <1>1, <1>2, <1>8, <1>11
  <2> QED
    BY <1>5, <1>6, <2>1, BehindPiece
<1>13. /\ FindInt(data, "id") = i /\ FindInt(data, "user_id") = u
      /\ Ready(A, data, t2, OtherNames)
  <2>1. Begins(data, Ids(i, u)) /\ data \in Seq(A)
    BY <1>1, <1>2, <1>8, <1>12
  <2>2. /\ FindInt(data, "id") = i /\ FindInt(data, "user_id") = u
        /\ Ready(A, data, Ids(i, u), OtherNames)
    BY <2>1, IdsRead
  <2> QED
    BY <1>1, <2>2
<1>14. PICK F2 : F2 = OtherNames
  OBVIOUS
<1>15. PICK F3 : F3 = F2 \ {"session_token"}
  OBVIOUS
<1>16. FindStr(data, "session_token") = t /\ Ready(A, data, t3, F3)
  <2>1. Ready(A, data, t2, F2) /\ Begins(data, t2 \o String("session_token", t))
    BY <1>1, <1>11, <1>13, <1>14
  <2>2. "session_token" \in F2
    BY <1>4, <1>14 DEF OtherNames
  <2>3. /\ FindStr(data, "session_token") = t
        /\ Ready(A, data, t2 \o String("session_token", t), F2 \ {"session_token"})
    BY <2>1, <2>2, NextString
  <2> QED
    BY <1>1, <1>15, <2>3
<1>17. PICK F4 : F4 = F3 \ {"expires_at"}
  OBVIOUS
<1>18. FindStr(data, "expires_at") = e /\ Ready(A, data, t4, F4)
  <2>1. Ready(A, data, t3, F3) /\ Begins(data, t3 \o String("expires_at", e))
    BY <1>1, <1>10, <1>16
  <2>2. "expires_at" \in F3
    BY <1>4, <1>14, <1>15 DEF OtherNames
  <2>3. /\ FindStr(data, "expires_at") = e
        /\ Ready(A, data, t3 \o String("expires_at", e), F3 \ {"expires_at"})
    BY <2>1, <2>2, NextString
  <2> QED
    BY <1>1, <1>17, <2>3
<1>19. PICK F5 : F5 = F4 \ {"created_at"}
  OBVIOUS
<1>20. FindStr(data, "created_at") = d /\ Ready(A, data, t5, F5)
  <2>1. Ready(A, data, t4, F4) /\ Begins(data, t4 \o String("created_at", d))
    BY <1>1, <1>9, <1>18
  <2>2. "created_at" \in F4
    BY <1>4, <1>14, <1>15, <1>17 DEF OtherNames
  <2>3. /\ FindStr(data, "created_at") = d
        /\ Ready(A, data, t4 \o String("created_at", d), F4 \ {"created_at"})
    BY <2>1, <2>2, NextString
  <2> QED
    BY <1>1, <1>19, <2>3
<1> QED
  BY <1>13, <1>16, <1>18, <1>20

\* The strings of the server's own making have no quote.
LEMMA LetterBare ==
    ASSUME NEW A, Alphabet(A), NEW l \in Letters
    PROVE  Bare(A, <<l>>)
<1>1. PICK s : s = <<l>>
  OBVIOUS
<1>2. l \in A /\ l # Quote
  BY MarksApart DEF Alphabet
<1>3. s \in Seq(A) /\ Len(s) = 1 /\ s[1] = l
  BY <1>1, <1>2
<1>4. Quote \notin Range(s)
  <2>1. DOMAIN s = 1..1
    BY <1>3, LenProperties
  <2> QED
    BY <1>2, <1>3, <2>1 DEF Range
<1> QED
  BY <1>1, <1>3, <1>4 DEF Bare

\* What the cache says of a text that was made from a record.
Agrees(g, r) ==
    /\ g.id = r.id /\ g.user_id = r.user_id
    /\ ~HasQuote(r) => g = r

\* A file's record comes back from its text.
LEMMA FileAgrees ==
    ASSUME NEW r \in FileRecords
    PROVE  r.id = "1" /\ Agrees(FileOf(FileText(r)), r)
<1>1. PICK u \in UserIds, n \in FileNames :
        r = [id |-> "1", user_id |-> u, filename |-> n, file_hash |-> <<"h">>, file_size |-> "2",
             storage_path |-> <<"p">>, status |-> "1", created_at |-> <<"d">>]
  BY DEF FileRecords
<1>2. PICK A : A = Names \cup Numbers \cup Letters \cup {Quote, Colon, Comma} \cup Range(n)
  OBVIOUS
<1>3. PICK h, p, d : h = <<"h">> /\ p = <<"p">> /\ d = <<"d">>
  OBVIOUS
<1>4. Alphabet(A) /\ Bare(A, h) /\ Bare(A, p) /\ Bare(A, d)
  <2>1. Alphabet(A)
    BY <1>2 DEF Alphabet
  <2>2. "h" \in Letters /\ "p" \in Letters /\ "d" \in Letters
    BY DEF Letters
  <2> QED
    BY <1>3, <2>1, <2>2, LetterBare
<1>5. n \in Seq(A)
  <2>1. n \in Seq(Range(n)) /\ Range(n) \subseteq A
    BY <1>2, RedisAssumption
  <2> QED
    BY <2>1, SeqMonotonic
<1>6. "1" \in Numbers /\ "2" \in Numbers /\ u \in Numbers
  BY RedisAssumption DEF Numbers
<1>7. PICK data : data = FileWith("1", u, n, h, "2", p, "1", d)
  OBVIOUS
<1>8. FileText(r) = data
  <2>1. /\ r.id = "1" /\ r.user_id = u /\ r.filename = n /\ r.file_hash = h /\ r.file_size = "2"
        /\ r.storage_path = p /\ r.status = "1" /\ r.created_at = d
    BY <1>1, <1>3
  <2> QED
    BY <1>7, <2>1 DEF FileText, FileWith, Ids
<1>9. /\ FindInt(data, "id") = "1" /\ FindInt(data, "user_id") = u
      /\ Bare(A, n) =>
           /\ FindStr(data, "filename") = n /\ FindStr(data, "file_hash") = h
           /\ FindInt(data, "file_size") = "2" /\ FindStr(data, "storage_path") = p
           /\ FindInt(data, "status") = "1" /\ FindStr(data, "created_at") = d
  BY <1>4, <1>5, <1>6, <1>7, FileRead
<1>10. r.id = "1" /\ r.user_id = u
  BY <1>1
<1>11. FileOf(data).id = "1" /\ FileOf(data).user_id = u
  BY <1>9 DEF FileOf
<1>12. ASSUME ~HasQuote(r)
       PROVE  FileOf(data) = r
  <2>1. "filename" \in DOMAIN r /\ r.filename = n
    BY <1>1
  <2>2. Bare(A, n)
    BY <1>5, <1>12, <2>1 DEF Bare, HasQuote
  <2> QED
    BY <1>1, <1>3, <1>9, <2>2 DEF FileOf
<1> QED
  BY <1>8, <1>10, <1>11, <1>12 DEF Agrees

\* And so does a session's.
LEMMA SessionAgrees ==
    ASSUME NEW r \in SessionRecords
    PROVE  r.id = "1" /\ Agrees(SessionOf(SessionText(r)), r)
<1>1. PICK u \in UserIds :
        r = [id |-> "1", user_id |-> u, session_token |-> <<"t">>, expires_at |-> <<"d">>,
             created_at |-> <<"d">>]
  BY DEF SessionRecords
<1>2. PICK A : A = Names \cup Numbers \cup Letters \cup {Quote, Colon, Comma}
  OBVIOUS
<1>3. PICK t, d : t = <<"t">> /\ d = <<"d">>
  OBVIOUS
<1>4. Alphabet(A) /\ Bare(A, t) /\ Bare(A, d)
  <2>1. Alphabet(A)
    BY <1>2 DEF Alphabet
  <2>2. "t" \in Letters /\ "d" \in Letters
    BY DEF Letters
  <2> QED
    BY <1>3, <2>1, <2>2, LetterBare
<1>6. "1" \in Numbers /\ u \in Numbers
  BY RedisAssumption DEF Numbers
<1>7. PICK data : data = SessionWith("1", u, t, d, d)
  OBVIOUS
<1>8. SessionText(r) = data
  <2>1. r.id = "1" /\ r.user_id = u /\ r.session_token = t /\ r.expires_at = d /\ r.created_at = d
    BY <1>1, <1>3
  <2> QED
    BY <1>7, <2>1 DEF SessionText, SessionWith, Ids
<1>9. /\ FindInt(data, "id") = "1" /\ FindInt(data, "user_id") = u
      /\ FindStr(data, "session_token") = t /\ FindStr(data, "expires_at") = d
      /\ FindStr(data, "created_at") = d
  BY <1>4, <1>6, <1>7, SessionRead
<1>10. SessionOf(data) = r
  BY <1>1, <1>3, <1>9 DEF SessionOf
<1>11. r.id = "1"
  BY <1>1
<1> QED
  BY <1>8, <1>10, <1>11 DEF Agrees

\* Whatever the kind of the cache, a text gives back the record it was made from.
LEMMA RecordAgrees ==
    ASSUME NEW kind \in Kinds, NEW r \in Records(kind)
    PROVE  r.id = "1" /\ Agrees(Deserialize(kind, Serialize(kind, r)), r)
<1>1. CASE kind = "session"
  <2>1. r \in SessionRecords
    BY <1>1 DEF Records
  <2>2. Deserialize(kind, Serialize(kind, r)) = SessionOf(SessionText(r))
    BY <1>1 DEF Serialize, Deserialize
  <2> QED
    BY <2>1, <2>2, SessionAgrees
<1>2. CASE kind # "session"
  <2>1. r \in FileRecords
    BY <1>2 DEF Records
  <2>2. Deserialize(kind, Serialize(kind, r)) = FileOf(FileText(r))
    BY <1>2 DEF Serialize, Deserialize
  <2> QED
    BY <2>1, <2>2, FileAgrees
<1> QED
  BY <1>1, <1>2

-----------------------------------------------------------------------------
(* The caches in Redis.                                                    *)
(*                                                                         *)
(* Neither property is inductive: both look at an answer only.  The        *)
(* invariant speaks of everything Redis holds.                             *)

\* Each text in Redis is that of the record it was made from.
TextsKept ==
    /\ DOMAIN redis = DOMAIN source
    /\ \A kind \in Kinds : MakeKey(kind) \in DOMAIN source =>
         /\ source[MakeKey(kind)] \in Records(kind)
         /\ redis[MakeKey(kind)] = Serialize(kind, source[MakeKey(kind)])

\* An answer was read from a text that is still there, over a connection that is up.
Answered ==
    got # NoGot =>
        /\ context = "up"
        /\ \E kind \in Kinds :
             /\ got.key = MakeKey(kind) /\ got.key \in DOMAIN source
             /\ got.record = Deserialize(kind, redis[got.key])

\* What Redis holds is the latest while the connection of this process is up
\* and no command was refused.
Fresh ==
    refusals = 0 /\ restarts = 0 /\ context = "up" =>
        \A kind \in Kinds : MakeKey(kind) \in DOMAIN source =>
            source[MakeKey(kind)] = latest[MakeKey(kind)]

\* The counters, and the shape of the history.
Counted == refusals \in Nat /\ restarts \in Nat /\ latest = [k \in RedisKeys |-> latest[k]]

RedisInv == TextsKept /\ Answered /\ Fresh /\ Counted

\* The three caches have keys of their own.
LEMMA KeysApart ==
    ASSUME NEW k1 \in Kinds, NEW k2 \in Kinds, MakeKey(k1) = MakeKey(k2)
    PROVE  k1 = k2
<1>1. /\ MakeKey("id") = <<"file:id:", "1">> /\ MakeKey("hash") = <<"file:hash:", "h">>
      /\ MakeKey("session") = <<"session:", "t">>
  BY Zenon DEF MakeKey
<1>2. k1 \in {"id", "hash", "session"} /\ k2 \in {"id", "hash", "session"}
  BY DEF Kinds
<1>3. "1" # "h" /\ "1" # "t" /\ "h" # "t"
  OBVIOUS
<1>4. PICK a, b, c : a = "file:id:" /\ b = "file:hash:" /\ c = "session:"
  OBVIOUS
<1>5. /\ MakeKey("id") = <<a, "1">> /\ MakeKey("hash") = <<b, "h">> /\ MakeKey("session") = <<c, "t">>
  BY <1>1, <1>4, Zenon
<1>6. MakeKey("id")[2] = "1" /\ MakeKey("hash")[2] = "h" /\ MakeKey("session")[2] = "t"
  BY <1>5
<1> QED
  BY <1>2, <1>3, <1>6

\* SETEX touches one key.
LEMMA SetEffect ==
    ASSUME TextsKept, NEW kind \in Kinds, NEW r \in Records(kind), Set(MakeKey(kind), kind, r)
    PROVE  /\ TextsKept'
           /\ source'[MakeKey(kind)] = r
           /\ \A k \in Kinds \ {kind} :
                /\ MakeKey(k) \in DOMAIN source' <=> MakeKey(k) \in DOMAIN source
                /\ MakeKey(k) \in DOMAIN source => source'[MakeKey(k)] = source[MakeKey(k)]
<1>1. PICK key, t : key = MakeKey(kind) /\ t = Serialize(kind, r)
  OBVIOUS
<1>2. /\ redis' = [x \in DOMAIN redis \cup {key} |-> IF x = key THEN t ELSE redis[x]]
      /\ source' = [x \in DOMAIN source \cup {key} |-> IF x = key THEN r ELSE source[x]]
  BY <1>1 DEF Set
<1>3. \A k \in Kinds \ {kind} : MakeKey(k) # key
  BY <1>1, KeysApart
<1>4. DOMAIN redis' = DOMAIN source'
  BY <1>2 DEF TextsKept
<1>5. ASSUME NEW k \in Kinds, MakeKey(k) \in DOMAIN source'
      PROVE  /\ source'[MakeKey(k)] \in Records(k)
             /\ redis'[MakeKey(k)] = Serialize(k, source'[MakeKey(k)])
  <2>1. CASE k = kind
    BY <1>1, <1>2, <2>1
  <2>2. CASE k # kind
    <3>1. MakeKey(k) # key /\ MakeKey(k) \in DOMAIN source /\ MakeKey(k) \in DOMAIN redis
      BY <1>2, <1>3, <1>5, <2>2 DEF TextsKept
    <3>2. source'[MakeKey(k)] = source[MakeKey(k)] /\ redis'[MakeKey(k)] = redis[MakeKey(k)]
      BY <1>2, <3>1
    <3> QED
      BY <3>1, <3>2 DEF TextsKept
  <2> QED
    BY <2>1, <2>2
<1>6. source'[key] = r
  BY <1>2
<1>7. ASSUME NEW k \in Kinds \ {kind}
      PROVE  /\ MakeKey(k) \in DOMAIN source' <=> MakeKey(k) \in DOMAIN source
             /\ MakeKey(k) \in DOMAIN source => source'[MakeKey(k)] = source[MakeKey(k)]
  BY <1>2, <1>3
<1> QED
  BY <1>1, <1>4, <1>5, <1>6, <1>7 DEF TextsKept

\* DEL, and the end of a key's time, take texts away.
LEMMA DelEffect ==
    ASSUME TextsKept, NEW ks, Del(ks)
    PROVE  /\ TextsKept'
           /\ DOMAIN source' = DOMAIN source \ ks
           /\ \A k \in DOMAIN source' : source'[k] = source[k]
<1>1. /\ redis' = [x \in DOMAIN redis \ ks |-> redis[x]]
      /\ source' = [x \in DOMAIN source \ ks |-> source[x]]
  BY DEF Del
<1>2. DOMAIN redis' = DOMAIN source'
  BY <1>1 DEF TextsKept
<1>3. ASSUME NEW k \in Kinds, MakeKey(k) \in DOMAIN source'
      PROVE  /\ source'[MakeKey(k)] \in Records(k)
             /\ redis'[MakeKey(k)] = Serialize(k, source'[MakeKey(k)])
  <2>1. MakeKey(k) \in DOMAIN source /\ MakeKey(k) \in DOMAIN redis \ ks
    BY <1>1, <1>3 DEF TextsKept
  <2>2. source'[MakeKey(k)] = source[MakeKey(k)] /\ redis'[MakeKey(k)] = redis[MakeKey(k)]
    BY <1>1, <1>3, <2>1
  <2> QED
    BY <2>1, <2>2 DEF TextsKept
<1> QED
  BY <1>1, <1>2, <1>3 DEF TextsKept

\* The invariant holds at the start.
LEMMA RedisInitInv == RedisInit => RedisInv
<1>1. SUFFICES ASSUME RedisInit
               PROVE  RedisInv
  OBVIOUS
<1>2. DOMAIN redis = {} /\ DOMAIN source = {}
  BY <1>1 DEF RedisInit
<1>3. TextsKept /\ Fresh
  BY <1>2 DEF TextsKept, Fresh
<1>4. Answered
  BY <1>1 DEF RedisInit, Answered
<1>5. Counted
  BY <1>1 DEF RedisInit, Counted
<1> QED
  BY <1>3, <1>4, <1>5 DEF RedisInv

\* Every step keeps it.
LEMMA RedisNextInv == RedisInv /\ [RedisNext]_redisVars => RedisInv'
<1>1. SUFFICES ASSUME RedisInv, [RedisNext]_redisVars
               PROVE  RedisInv'
  OBVIOUS
<1>2. TextsKept /\ Answered /\ Fresh /\ Counted
  BY <1>1 DEF RedisInv
<1>3. ASSUME NEW kind \in Kinds, NEW r \in Records(kind), PutRecord(kind, r)
      PROVE  RedisInv'
  <2>1. MakeKey(kind) \in RedisKeys
    BY DEF RedisKeys
  <2>2. /\ Command(Set(MakeKey(kind), kind, r)) /\ got' = NoGot
        /\ latest' = [latest EXCEPT ![MakeKey(kind)] = r] /\ restarts' = restarts
    BY <1>3 DEF PutRecord
  <2>3. /\ latest' = [k \in RedisKeys |-> latest'[k]] /\ latest'[MakeKey(kind)] = r
        /\ \A k \in Kinds \ {kind} : latest'[MakeKey(k)] = latest[MakeKey(k)]
    <3>1. PICK key : key = MakeKey(kind)
      OBVIOUS
    <3>2. latest' = [latest EXCEPT ![key] = r] /\ key \in RedisKeys
      BY <2>1, <2>2, <3>1
    <3>3. latest = [k \in RedisKeys |-> latest[k]]
      BY <1>2 DEF Counted
    <3>4. latest' = [k \in RedisKeys |-> latest'[k]] /\ latest'[key] = r
      BY <3>2, <3>3
    <3>5. \A x \in RedisKeys \ {key} : latest'[x] = latest[x]
      BY <3>2, <3>3
    <3>6. \A k \in Kinds \ {kind} : MakeKey(k) \in RedisKeys \ {key}
      BY <3>1, KeysApart DEF RedisKeys
    <3> QED
      BY <3>1, <3>4, <3>5, <3>6
  <2>4. Answered'
    BY <2>2 DEF Answered
  <2>5. CASE context = "up" /\ Set(MakeKey(kind), kind, r) /\ UNCHANGED <<context, refusals>>
    <3>1. /\ TextsKept' /\ source'[MakeKey(kind)] = r
          /\ \A k \in Kinds \ {kind} :
               /\ MakeKey(k) \in DOMAIN source' <=> MakeKey(k) \in DOMAIN source
               /\ MakeKey(k) \in DOMAIN source => source'[MakeKey(k)] = source[MakeKey(k)]
      BY <1>2, <2>5, SetEffect
    <3>2. Fresh'
      <4>1. SUFFICES ASSUME refusals = 0, restarts = 0, context = "up", NEW k \in Kinds,
                            MakeKey(k) \in DOMAIN source'
                     PROVE  source'[MakeKey(k)] = latest'[MakeKey(k)]
        BY <2>2, <2>5 DEF Fresh
      <4>2. CASE k = kind
        BY <2>3, <3>1, <4>2
      <4>3. CASE k # kind
        <5>1. MakeKey(k) \in DOMAIN source /\ source'[MakeKey(k)] = source[MakeKey(k)]
          BY <3>1, <4>1, <4>3
        <5>2. source[MakeKey(k)] = latest[MakeKey(k)]
          BY <1>2, <4>1, <5>1 DEF Fresh
        <5> QED
          BY <2>3, <4>3, <5>1, <5>2
      <4> QED
        BY <4>2, <4>3
    <3>3. Counted'
      BY <1>2, <2>2, <2>3, <2>5 DEF Counted
    <3> QED
      BY <2>4, <3>1, <3>2, <3>3 DEF RedisInv
  <2>6. CASE /\ UNCHANGED <<redis, source>> /\ refusals' \in Nat
             /\ ~(refusals' = 0 /\ context' = "up")
    <3>1. TextsKept' /\ Fresh'
      BY <1>2, <2>6 DEF TextsKept, Fresh
    <3>2. Counted'
      BY <1>2, <2>2, <2>3, <2>6 DEF Counted
    <3> QED
      BY <2>4, <3>1, <3>2 DEF RedisInv
  <2> QED
    BY <1>2, <2>2, <2>5, <2>6 DEF Command, IsConnected, Counted
<1>4. ASSUME NEW kind \in Kinds, RemoveRecord(kind)
      PROVE  RedisInv'
  <2>1. /\ Command(Del({MakeKey(kind)})) /\ got' = NoGot
        /\ latest' = [latest EXCEPT ![MakeKey(kind)] = NoRecord] /\ restarts' = restarts
    BY <1>4 DEF RemoveRecord
  <2>2. PICK key : key = MakeKey(kind)
    OBVIOUS
  <2>3. /\ latest' = [k \in RedisKeys |-> latest'[k]]
        /\ \A x \in RedisKeys \ {key} : latest'[x] = latest[x]
    <3>1. latest = [k \in RedisKeys |-> latest[k]] /\ latest' = [latest EXCEPT ![key] = NoRecord]
      BY <1>2, <2>1, <2>2 DEF Counted
    <3> QED
      BY <3>1
  <2>4. Answered'
    BY <2>1 DEF Answered
  <2>5. CASE context = "up" /\ Del({key}) /\ UNCHANGED <<context, refusals>>
    <3>1. TextsKept' /\ DOMAIN source' = DOMAIN source \ {key} /\ \A x \in DOMAIN source' : source'[x] = source[x]
      BY <1>2, <2>5, DelEffect
    <3>2. Fresh'
      <4>1. SUFFICES ASSUME refusals = 0, restarts = 0, context = "up", NEW k \in Kinds,
                            MakeKey(k) \in DOMAIN source'
                     PROVE  source'[MakeKey(k)] = latest'[MakeKey(k)]
        BY <2>1, <2>5 DEF Fresh
      <4>2. MakeKey(k) \in DOMAIN source /\ MakeKey(k) \in RedisKeys \ {key}
        BY <3>1, <4>1 DEF RedisKeys
      <4>3. source[MakeKey(k)] = latest[MakeKey(k)]
        BY <1>2, <4>1, <4>2 DEF Fresh
      <4> QED
        BY <2>3, <3>1, <4>1, <4>2, <4>3
    <3>3. Counted'
      BY <1>2, <2>1, <2>3, <2>5 DEF Counted
    <3> QED
      BY <2>4, <3>1, <3>2, <3>3 DEF RedisInv
  <2>6. CASE /\ UNCHANGED <<redis, source>> /\ refusals' \in Nat
             /\ ~(refusals' = 0 /\ context' = "up")
    <3>1. TextsKept' /\ Fresh'
      BY <1>2, <2>6 DEF TextsKept, Fresh
    <3>2. Counted'
      BY <1>2, <2>1, <2>3, <2>6 DEF Counted
    <3> QED
      BY <2>4, <3>1, <3>2 DEF RedisInv
  <2> QED
    BY <1>2, <2>1, <2>2, <2>5, <2>6 DEF Command, IsConnected, Counted
<1>5. ASSUME NEW kind \in Kinds, GetRecord(kind)
      PROVE  RedisInv'
  <2>1. UNCHANGED <<redis, source, latest, restarts>> /\ refusals' \in Nat
        /\ (context' = "up" => context = "up") /\ (refusals' = 0 => refusals = 0)
    BY <1>2, <1>5 DEF GetRecord, Command, IsConnected, Counted
  <2>2. TextsKept' /\ Fresh' /\ Counted'
    BY <1>2, <2>1 DEF TextsKept, Fresh, Counted
  <2>3. Answered'
    <3>1. SUFFICES ASSUME got' # NoGot
                   PROVE  /\ context' = "up"
                          /\ \E k \in Kinds :
                               /\ got'.key = MakeKey(k) /\ got'.key \in DOMAIN source'
                               /\ got'.record = Deserialize(k, redis'[got'.key])
      BY DEF Answered
    <3>2. /\ context = "up" /\ refusals' = refusals /\ MakeKey(kind) \in DOMAIN redis
          /\ got' = [key |-> MakeKey(kind), record |-> Deserialize(kind, redis[MakeKey(kind)])]
      BY <1>5, <3>1 DEF GetRecord
    <3>3. context' = "up"
      BY <1>5, <3>2 DEF GetRecord, Command, IsConnected
    <3>4. /\ got'.key = MakeKey(kind) /\ got'.key \in DOMAIN source'
          /\ got'.record = Deserialize(kind, redis'[got'.key])
      BY <1>2, <2>1, <3>2 DEF TextsKept
    <3> QED
      BY <3>3, <3>4
  <2> QED
    BY <2>2, <2>3 DEF RedisInv
<1>6. CASE Expire
  <2>1. PICK k \in DOMAIN redis : Del({k})
    BY <1>6 DEF Expire
  <2>2. got' = NoGot /\ UNCHANGED <<context, latest, refusals, restarts>>
    BY <1>6 DEF Expire, faults
  <2>3. TextsKept' /\ DOMAIN source' = DOMAIN source \ {k} /\ \A x \in DOMAIN source' : source'[x] = source[x]
    BY <1>2, <2>1, DelEffect
  <2>4. Fresh' /\ Answered' /\ Counted'
    BY <1>2, <2>2, <2>3 DEF Fresh, Answered, Counted
  <2> QED
    BY <2>3, <2>4 DEF RedisInv
<1>7. CASE Lose
  <2>1. /\ got' = NoGot /\ UNCHANGED <<refusals, restarts>> /\ context' # "up"
    BY <1>7 DEF Lose
  <2>2. Answered' /\ Fresh'
    BY <2>1 DEF Answered, Fresh
  <2>3. CASE UNCHANGED <<redis, source, latest>>
    BY <1>2, <2>1, <2>2, <2>3 DEF RedisInv, TextsKept, Counted
  <2>4. ASSUME NEW kind \in Kinds, NEW r \in Records(kind), Set(MakeKey(kind), kind, r),
               latest' = [latest EXCEPT ![MakeKey(kind)] = r]
        PROVE  RedisInv'
    <3>1. TextsKept'
      BY <1>2, <2>4, SetEffect
    <3>2. Counted'
      BY <1>2, <2>1, <2>4 DEF Counted
    <3> QED
      BY <2>2, <3>1, <3>2 DEF RedisInv
  <2>5. ASSUME NEW kind \in Kinds, Del({MakeKey(kind)}),
               latest' = [latest EXCEPT ![MakeKey(kind)] = NoRecord]
        PROVE  RedisInv'
    <3>1. TextsKept'
      BY <1>2, <2>5, DelEffect
    <3>2. Counted'
      BY <1>2, <2>1, <2>5 DEF Counted
    <3> QED
      BY <2>2, <3>1, <3>2 DEF RedisInv
  <2> QED
    BY <1>7, <2>3, <2>4, <2>5 DEF Lose
<1>8. CASE RedisStarts
  BY <1>2, <1>8 DEF RedisStarts, faults, RedisInv, TextsKept, Answered, Fresh, Counted
<1>9. CASE Restart
  <2>1. /\ got' = NoGot /\ restarts' = restarts + 1 /\ UNCHANGED <<redis, source, refusals>>
        /\ latest' = [k \in RedisKeys |-> NoRecord]
    BY <1>9 DEF Restart
  <2>2. restarts' # 0 /\ restarts' \in Nat /\ refusals' \in Nat
    BY <1>2, <2>1 DEF Counted
  <2> QED
    BY <1>2, <2>1, <2>2 DEF RedisInv, TextsKept, Answered, Fresh, Counted
<1>10. CASE UNCHANGED redisVars
  BY <1>2, <1>10 DEF redisVars, faults, RedisInv, TextsKept, Answered, Fresh, Counted
<1> QED
  BY <1>1, <1>3, <1>4, <1>5, <1>6, <1>7, <1>8, <1>9, <1>10 DEF RedisNext

\* So it holds in every reachable state.
LEMMA RedisAlways == RedisSpec => []RedisInv
  BY RedisInitInv, RedisNextInv, PTL DEF RedisSpec

\* An answer comes from a text that is there, and agrees with its record.
LEMMA AnswerOfRecord ==
    ASSUME RedisInv, got # NoGot
    PROVE  \E kind \in Kinds :
             /\ got.key = MakeKey(kind) /\ got.key \in DOMAIN source
             /\ source[got.key].id = "1" /\ Agrees(got.record, source[got.key])
<1>1. PICK kind \in Kinds : /\ got.key = MakeKey(kind) /\ got.key \in DOMAIN source
                            /\ got.record = Deserialize(kind, redis[got.key])
  BY DEF RedisInv, Answered
<1>2. PICK r : r = source[got.key]
  OBVIOUS
<1>3. r \in Records(kind) /\ redis[got.key] = Serialize(kind, r)
  BY <1>1, <1>2 DEF RedisInv, TextsKept
<1>4. r.id = "1" /\ Agrees(Deserialize(kind, Serialize(kind, r)), r)
  BY <1>3, RecordAgrees
<1> QED
  BY <1>1, <1>2, <1>3, <1>4

\* Whatever a file is called, and whatever was refused or lost, an answer of the
\* cache has the id and the owner of the record Redis was given, and all of its
\* fields unless its name has a quote (RedisFileCache::deserializeRecord).
THEOREM AnswersRight == RedisSpec => []AnswersRecord
<1>1. RedisInv => AnswersRecord
  BY AnswerOfRecord DEF AnswersRecord, Agrees
<1> QED
  BY <1>1, RedisAlways, PTL

\* Until Redis refuses a command or the process restarts, no answer is older than
\* the last put or remove of its key (RedisClient, which never connects again).
THEOREM AnswersFresh == RedisSpec => []AnswersLatest
<1>1. ASSUME RedisInv, got # NoGot, refusals = 0, restarts = 0
      PROVE  got.record.id = latest[got.key].id /\ source[got.key] = latest[got.key]
  <2>1. PICK kind \in Kinds :
             /\ got.key = MakeKey(kind) /\ got.key \in DOMAIN source
             /\ source[got.key].id = "1" /\ Agrees(got.record, source[got.key])
    BY <1>1, AnswerOfRecord
  <2>2. source[got.key] = latest[got.key]
    BY <1>1, <2>1 DEF RedisInv, Fresh, Answered
  <2> QED
    BY <2>1, <2>2 DEF Agrees
<1>2. RedisInv => AnswersLatest
  BY <1>1 DEF AnswersLatest
<1> QED
  BY <1>2, RedisAlways, PTL
=============================================================================
