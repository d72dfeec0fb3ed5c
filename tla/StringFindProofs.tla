-------------------------- MODULE StringFindProofs --------------------------
(***************************************************************************)
(* What FindIn finds, and how texts are put together: the lemmas that the  *)
(* proofs about cached records and about the bodies of uploads rest on.    *)
(***************************************************************************)
EXTENDS StringFind, SequenceTheorems, FiniteSetTheorems, WellFoundedInduction, TLAPS

\* A set of numbers has a smallest one.
LEMMA Smallest ==
    ASSUME NEW S, S \subseteq Nat, S # {}
    PROVE  \E n \in S : \A m \in S : n <= m
<1>1. PICK less : less = {ss \in Nat \X Nat : ss[1] < ss[2]}
  OBVIOUS
<1>2. IsWellFoundedOn(less, Nat)
  BY NatLessThanWellFounded, <1>1 DEF OpToRel
<1>3. PICK n \in S : \A m \in S : ~ (<<m, n>> \in less)
  BY <1>2, WFMin
<1>4. ASSUME NEW m \in S
      PROVE  n <= m
  <2>1. ~ (<<m, n>> \in less) /\ m \in Nat /\ n \in Nat
    BY <1>3
  <2> QED
    BY <1>1, <2>1
<1> QED
  BY <1>4

\* A pattern occurs at a position of a text.
Occurs(data, pattern, i) ==
    /\ i \in 1..(Len(data) - Len(pattern) + 1)
    /\ \A j \in 1..Len(pattern) : data[i + j - 1] = pattern[j]

\* Which is how FindIn compares.
LEMMA OccursCut ==
    ASSUME NEW A, NEW data \in Seq(A), NEW pattern \in Seq(A),
           NEW i \in 1..(Len(data) - Len(pattern) + 1)
    PROVE  SubSeq(data, i, i + Len(pattern) - 1) = pattern <=> Occurs(data, pattern, i)
<1>1. Len(data) \in Nat /\ Len(pattern) \in Nat
  OBVIOUS
<1>2. PICK k, n : k = i + Len(pattern) - 1 /\ n = Len(pattern)
  OBVIOUS
<1>3. k \in Int /\ i \in Int /\ n \in Nat /\ k <= Len(data) /\ i >= 1
  BY <1>1, <1>2
<1>4. \A j \in i..k : data[j] \in A
  BY <1>1, <1>3
<1>5. PICK cut : cut = SubSeq(data, i, k)
  OBVIOUS
<1>6. /\ cut \in Seq(A) /\ Len(cut) = n
      /\ \A j \in 1..n : cut[j] = data[i + j - 1]
  <2>1. /\ cut \in Seq(A) /\ Len(cut) = IF i <= k THEN k - i + 1 ELSE 0
        /\ \A j \in 1..(k - i + 1) : cut[j] = data[i + j - 1]
    BY <1>3, <1>4, <1>5, SubSeqProperties
  <2>2. k - i + 1 = n /\ (i <= k <=> n >= 1)
    BY <1>1, <1>2, <1>3
  <2> QED
    BY <2>1, <2>2, <1>3
<1>7. cut = pattern <=> \A j \in 1..n : cut[j] = pattern[j]
  BY <1>2, <1>6, SeqEqual
<1> QED
  BY <1>2, <1>5, <1>6, <1>7 DEF Occurs

\* Where the first occurrence of a pattern from some position on begins.
IsFirst(data, pattern, from, x) ==
    \/ x = 0 /\ \A i \in Nat : i >= from => ~Occurs(data, pattern, i)
    \/ /\ x \in Nat /\ x >= from /\ Occurs(data, pattern, x)
       /\ \A i \in Nat : i >= from /\ Occurs(data, pattern, i) => x <= i

\* FindIn finds it.
LEMMA FindIsFirst ==
    ASSUME NEW A, NEW data \in Seq(A), NEW pattern \in Seq(A), NEW from \in Nat \ {0}
    PROVE  IsFirst(data, pattern, from, FindIn(data, pattern, from))
<1>1. PICK last : last = Len(data) - Len(pattern) + 1
  OBVIOUS
<1>2. PICK hits : hits = {i \in from..last : SubSeq(data, i, i + Len(pattern) - 1) = pattern}
  OBVIOUS
<1>3. FindIn(data, pattern, from) = IF hits = {} THEN 0 ELSE Min(hits)
  BY <1>1, <1>2 DEF FindIn
<1>4. last \in Int /\ hits \subseteq Nat /\ 0 \notin hits
  BY <1>1, <1>2
<1>5. \A i \in Nat : i \in hits <=> i >= from /\ Occurs(data, pattern, i)
  <2>1. ASSUME NEW i \in Nat
        PROVE  i \in hits <=> i >= from /\ Occurs(data, pattern, i)
    <3>1. CASE i \in 1..last
      <4>1. SubSeq(data, i, i + Len(pattern) - 1) = pattern <=> Occurs(data, pattern, i)
        BY <1>1, <3>1, OccursCut
      <4> QED
        BY <1>2, <1>4, <3>1, <4>1
    <3>2. CASE i \notin 1..last
      BY <1>1, <1>2, <1>4, <3>2 DEF Occurs
    <3> QED
      BY <3>1, <3>2
  <2> QED
    BY <2>1
<1>6. CASE hits = {}
  BY <1>3, <1>5, <1>6 DEF IsFirst
<1>7. CASE hits # {}
  <2>1. \E n \in hits : \A m \in hits : n <= m
    BY <1>4, <1>7, Smallest
  <2>2. Min(hits) \in hits /\ \A m \in hits : Min(hits) <= m
    BY <2>1 DEF Min
  <2> QED
    BY <1>3, <1>4, <1>5, <1>7, <2>2 DEF IsFirst
<1> QED
  BY <1>6, <1>7

\* There is one first occurrence at the most.
LEMMA FirstUnique ==
    ASSUME NEW data, NEW pattern, NEW from \in Nat \ {0}, NEW x, NEW y,
           IsFirst(data, pattern, from, x), IsFirst(data, pattern, from, y)
    PROVE  x = y
  BY DEF IsFirst

\* A pattern that occurs, and nowhere before, is found there.
LEMMA FoundAt ==
    ASSUME NEW A, NEW data \in Seq(A), NEW pattern \in Seq(A), NEW from \in Nat \ {0},
           NEW x \in Nat, x >= from, Occurs(data, pattern, x),
           \A i \in Nat : i >= from /\ i < x => ~Occurs(data, pattern, i)
    PROVE  FindIn(data, pattern, from) = x
<1>1. IsFirst(data, pattern, from, FindIn(data, pattern, from))
  BY FindIsFirst
<1>2. ASSUME NEW i \in Nat, i >= from, Occurs(data, pattern, i)
      PROVE  x <= i
  BY <1>2
<1>3. IsFirst(data, pattern, from, x)
  BY <1>2 DEF IsFirst
<1> QED
  BY <1>1, <1>3, FirstUnique

\* Patterns of one and of two atoms.
LEMMA OccursOne ==
    ASSUME NEW A, NEW data \in Seq(A), NEW x \in A, NEW i \in Nat \ {0}
    PROVE  Occurs(data, <<x>>, i) <=> i <= Len(data) /\ data[i] = x
<1>1. PICK p, n : p = <<x>> /\ n = Len(data)
  OBVIOUS
<1>2. n \in Nat /\ Len(p) = 1 /\ p[1] = x
  BY <1>1
<1>3. Occurs(data, p, i) <=> i \in 1..n /\ data[i + 1 - 1] = p[1]
  <2>1. n - 1 + 1 = n /\ \A j \in 1..1 : j = 1
    BY <1>2
  <2> QED
    BY <1>1, <1>2, <2>1 DEF Occurs
<1>4. i + 1 - 1 = i
  OBVIOUS
<1> QED
  BY <1>1, <1>2, <1>3, <1>4

LEMMA OccursTwo ==
    ASSUME NEW A, NEW data \in Seq(A), NEW x \in A, NEW y \in A, NEW i \in Nat \ {0}
    PROVE  Occurs(data, <<x, y>>, i) <=> i + 1 <= Len(data) /\ data[i] = x /\ data[i + 1] = y
<1>1. PICK p, n : p = <<x, y>> /\ n = Len(data)
  OBVIOUS
<1>2. n \in Nat /\ Len(p) = 2 /\ p[1] = x /\ p[2] = y
  BY <1>1
<1>3. Occurs(data, p, i) <=> i \in 1..(n - 1) /\ data[i] = p[1] /\ data[i + 1] = p[2]
  <2>1. n - 2 + 1 = n - 1 /\ 1 \in 1..2 /\ 2 \in 1..2 /\ i + 1 - 1 = i /\ i + 2 - 1 = i + 1
    BY <1>2
  <2>2. \A j \in 1..2 : j = 1 \/ j = 2
    OBVIOUS
  <2>3. Occurs(data, p, i) <=> i \in 1..(n - 1) /\ \A j \in 1..2 : data[i + j - 1] = p[j]
    BY <1>1, <1>2, <2>1 DEF Occurs
  <2>4. (\A j \in 1..2 : data[i + j - 1] = p[j]) <=> data[i] = p[1] /\ data[i + 1] = p[2]
    BY <2>1, <2>2
  <2> QED
    BY <2>3, <2>4
<1> QED
  BY <1>1, <1>2, <1>3

\* Where an atom, or two, stand for the first time from some position on.
FirstOne(data, x, from, n) ==
    /\ n \in Nat /\ n >= from /\ n <= Len(data) /\ data[n] = x
    /\ \A i \in from..(n - 1) : data[i] # x

FirstTwo(data, x, y, from, n) ==
    /\ n \in Nat /\ n >= from /\ n + 1 <= Len(data) /\ data[n] = x /\ data[n + 1] = y
    /\ \A i \in from..(n - 1) : data[i] # x \/ data[i + 1] # y

\* There they are found.
LEMMA FindOne ==
    ASSUME NEW A, NEW data \in Seq(A), NEW x \in A, NEW from \in Nat \ {0}, NEW n,
           FirstOne(data, x, from, n)
    PROVE  FindIn(data, <<x>>, from) = n
<1>0. /\ n \in Nat \ {0} /\ n >= from /\ n <= Len(data) /\ data[n] = x
      /\ \A i \in from..(n - 1) : data[i] # x
  BY DEF FirstOne
<1>1. PICK p : p = <<x>>
  OBVIOUS
<1>2. p \in Seq(A)
  BY <1>1
<1>3. Occurs(data, p, n)
  BY <1>0, <1>1, OccursOne
<1>4. ASSUME NEW i \in Nat, i >= from, i < n
      PROVE  ~Occurs(data, p, i)
  <2>1. i \in Nat \ {0} /\ i \in from..(n - 1)
    BY <1>0, <1>4
  <2> QED
    BY <1>0, <1>1, <2>1, OccursOne
<1>5. FindIn(data, p, from) = n
  BY <1>0, <1>2, <1>3, <1>4, FoundAt
<1> QED
  BY <1>1, <1>5

LEMMA FindTwo ==
    ASSUME NEW A, NEW data \in Seq(A), NEW x \in A, NEW y \in A, NEW from \in Nat \ {0}, NEW n,
           FirstTwo(data, x, y, from, n)
    PROVE  FindIn(data, <<x, y>>, from) = n
<1>0. /\ n \in Nat \ {0} /\ n >= from /\ n + 1 <= Len(data) /\ data[n] = x /\ data[n + 1] = y
      /\ \A i \in from..(n - 1) : data[i] # x \/ data[i + 1] # y
  BY DEF FirstTwo
<1>1. PICK p : p = <<x, y>>
  OBVIOUS
<1>2. p \in Seq(A)
  BY <1>1
<1>3. Occurs(data, p, n)
  BY <1>0, <1>1, OccursTwo
<1>4. ASSUME NEW i \in Nat, i >= from, i < n
      PROVE  ~Occurs(data, p, i)
  <2>1. i \in Nat \ {0} /\ i \in from..(n - 1)
    BY <1>0, <1>4
  <2> QED
    BY <1>0, <1>1, <2>1, OccursTwo
<1>5. FindIn(data, p, from) = n
  BY <1>0, <1>2, <1>3, <1>4, FoundAt
<1> QED
  BY <1>1, <1>5

\* What is found is there.
LEMMA FoundTwo ==
    ASSUME NEW A, NEW data \in Seq(A), NEW x \in A, NEW y \in A, NEW from \in Nat \ {0},
           NEW n \in Nat \ {0}, FindIn(data, <<x, y>>, from) = n
    PROVE  data[n] = x /\ data[n + 1] = y
<1>1. PICK p : p = <<x, y>>
  OBVIOUS
<1>2. p \in Seq(A)
  BY <1>1
<1>3. IsFirst(data, p, from, FindIn(data, p, from))
  BY <1>2, FindIsFirst
<1>4. Occurs(data, p, n)
  BY <1>1, <1>3 DEF IsFirst
<1> QED
  BY <1>1, <1>4, OccursTwo

\* An atom that does not stand in a text is not found.
LEMMA FindNone ==
    ASSUME NEW A, NEW data \in Seq(A), NEW x \in A, NEW from \in Nat \ {0},
           \A i \in 1..Len(data) : data[i] # x
    PROVE  FindIn(data, <<x>>, from) = 0
<1>1. PICK p : p = <<x>>
  OBVIOUS
<1>2. p \in Seq(A)
  BY <1>1
<1>3. IsFirst(data, p, from, FindIn(data, p, from))
  BY <1>2, FindIsFirst
<1>4. ASSUME NEW i \in Nat, i >= from, Occurs(data, p, i)
      PROVE  FALSE
  <2>1. i \in Nat \ {0} /\ Len(data) \in Nat
    BY <1>4
  <2>2. i <= Len(data) /\ data[i] = x
    BY <1>1, <1>4, <2>1, OccursOne
  <2> QED
    BY <2>1, <2>2
<1>5. FindIn(data, p, from) = 0
  BY <1>3, <1>4 DEF IsFirst
<1> QED
  BY <1>1, <1>5

-----------------------------------------------------------------------------
(* Texts.                                                                  *)

\* A text begins with another.
Begins(data, p) ==
    /\ Len(p) <= Len(data)
    /\ \A i \in 1..Len(p) : data[i] = p[i]

\* A text begins with itself.
LEMMA BeginsSelf ==
    ASSUME NEW A, NEW p \in Seq(A)
    PROVE  Begins(p, p)
  BY DEF Begins

\* And keeps its beginning when something is put behind it.
LEMMA BeginsLonger ==
    ASSUME NEW A, NEW data \in Seq(A), NEW more \in Seq(A), NEW p \in Seq(A), Begins(data, p)
    PROVE  Begins(data \o more, p)
<1>1. PICK t, m, n, l : t = data \o more /\ m = Len(data) /\ n = Len(more) /\ l = Len(p)
  OBVIOUS
<1>2. /\ m \in Nat /\ n \in Nat /\ l \in Nat /\ Len(t) = m + n
      /\ \A k \in 1..(m + n) : t[k] = IF k <= m THEN data[k] ELSE more[k - m]
  BY <1>1, ConcatProperties
<1>3. l <= m /\ \A i \in 1..l : data[i] = p[i]
  BY <1>1 DEF Begins
<1>4. l <= m + n /\ \A i \in 1..l : t[i] = p[i]
  BY <1>2, <1>3
<1> QED
  BY <1>1, <1>2, <1>4 DEF Begins

\* One atom more at the end of a text.
With(s, x) == s \o <<x>>

\* Its atoms.
LEMMA WithParts ==
    ASSUME NEW A, NEW s \in Seq(A), NEW x \in A
    PROVE  /\ With(s, x) \in Seq(A) /\ Len(With(s, x)) = Len(s) + 1
           /\ \A i \in 1..Len(s) : With(s, x)[i] = s[i]
           /\ With(s, x)[Len(s) + 1] = x
<1>1. PICK t : t = <<x>>
  OBVIOUS
<1>2. t \in Seq(A) /\ Len(t) = 1 /\ t[1] = x /\ Len(s) \in Nat
  BY <1>1
<1>3. /\ s \o t \in Seq(A) /\ Len(s \o t) = Len(s) + Len(t)
      /\ \A i \in 1..(Len(s) + Len(t)) : (s \o t)[i] = IF i <= Len(s) THEN s[i] ELSE t[i - Len(s)]
  BY <1>2, ConcatProperties
<1>4. (s \o t)[Len(s) + 1] = x
  BY <1>2, <1>3
<1> QED
  BY <1>1, <1>2, <1>3, <1>4 DEF With

\* What stands in a text behind a piece it begins with.
LEMMA BehindPiece ==
    ASSUME NEW A, NEW data \in Seq(A), NEW a \in Seq(A), NEW e \in Seq(A), Begins(data, a \o e)
    PROVE  /\ Begins(data, a) /\ Len(a) + Len(e) <= Len(data)
           /\ \A i \in 1..Len(e) : data[Len(a) + i] = e[i]
<1>1. PICK t, m, n : t = a \o e /\ m = Len(a) /\ n = Len(e)
  OBVIOUS
<1>2. /\ m \in Nat /\ n \in Nat /\ Len(t) = m + n
      /\ \A k \in 1..(m + n) : t[k] = IF k <= m THEN a[k] ELSE e[k - m]
  BY <1>1, ConcatProperties
<1>3. m + n <= Len(data) /\ \A k \in 1..(m + n) : data[k] = t[k]
  BY <1>1, <1>2 DEF Begins
<1>4. \A i \in 1..n : data[m + i] = e[i]
  <2>1. \A i \in 1..n : m + i \in 1..(m + n) /\ ~(m + i <= m) /\ m + i - m = i
    BY <1>2
  <2> QED
    BY <1>2, <1>3, <2>1
<1>5. m <= Len(data) /\ \A k \in 1..m : data[k] = a[k]
  BY <1>2, <1>3
<1> QED
  BY <1>1, <1>3, <1>4, <1>5 DEF Begins

\* A text is two texts, one behind the other.
IsJoined(t, a, b) ==
    /\ Len(t) = Len(a) + Len(b)
    /\ \A i \in 1..Len(a) : t[i] = a[i]
    /\ \A i \in 1..Len(b) : t[Len(a) + i] = b[i]

LEMMA Joined ==
    ASSUME NEW A, NEW a \in Seq(A), NEW b \in Seq(A)
    PROVE  a \o b \in Seq(A) /\ IsJoined(a \o b, a, b)
<1>1. PICK t, m, n : t = a \o b /\ m = Len(a) /\ n = Len(b)
  OBVIOUS
<1>2. /\ t \in Seq(A) /\ m \in Nat /\ n \in Nat /\ Len(t) = m + n
      /\ \A k \in 1..(m + n) : t[k] = IF k <= m THEN a[k] ELSE b[k - m]
  BY <1>1, ConcatProperties
<1>3. \A i \in 1..m : t[i] = a[i]
  BY <1>2
<1>4. \A i \in 1..n : t[m + i] = b[i]
  <2>1. \A i \in 1..n : m + i \in 1..(m + n) /\ ~(m + i <= m) /\ m + i - m = i
    BY <1>2
  <2> QED
    BY <1>2, <2>1
<1> QED
  BY <1>1, <1>2, <1>3, <1>4 DEF IsJoined

\* What SubSeq cuts out of a text: n atoms from f on.
IsCut(cut, data, f, n) == Len(cut) = n /\ \A i \in 1..n : cut[i] = data[f + i - 1]

LEMMA CutOut ==
    ASSUME NEW A, NEW data \in Seq(A), NEW f \in Nat \ {0}, NEW n \in Nat, NEW l,
           l = f + n - 1, l <= Len(data)
    PROVE  SubSeq(data, f, l) \in Seq(A) /\ IsCut(SubSeq(data, f, l), data, f, n)
<1>1. /\ Len(data) \in Nat /\ l \in Int /\ f \in Int /\ f >= 1 /\ l <= Len(data)
      /\ l - f + 1 = n /\ (f <= l <=> n >= 1)
  OBVIOUS
<1>2. \A j \in f..l : data[j] \in A
  BY <1>1
<1>3. PICK cut : cut = SubSeq(data, f, l)
  OBVIOUS
<1>4. /\ cut \in Seq(A) /\ Len(cut) = IF f <= l THEN l - f + 1 ELSE 0
      /\ \A i \in 1..(l - f + 1) : cut[i] = data[f + i - 1]
  BY <1>1, <1>2, <1>3, SubSeqProperties
<1>5. Len(cut) = n
  BY <1>1, <1>4
<1>6. \A i \in 1..n : cut[i] = data[f + i - 1]
  BY <1>1, <1>4
<1> QED
  BY <1>3, <1>4, <1>5, <1>6 DEF IsCut

\* A part of a text is a text that stands there.
LEMMA CutIs ==
    ASSUME NEW A, NEW data \in Seq(A), NEW s \in Seq(A), NEW f \in Nat \ {0}, NEW l,
           l = f + Len(s) - 1, l <= Len(data), \A i \in 1..Len(s) : data[f + i - 1] = s[i]
    PROVE  SubSeq(data, f, l) = s
<1>1. PICK n : n = Len(s)
  OBVIOUS
<1>2. n \in Nat /\ l = f + n - 1 /\ l <= Len(data) /\ \A i \in 1..n : data[f + i - 1] = s[i]
  BY <1>1
<1>3. PICK cut : cut = SubSeq(data, f, l)
  OBVIOUS
<1>4. /\ cut \in Seq(A) /\ Len(cut) = n
      /\ \A i \in 1..n : cut[i] = data[f + i - 1]
  BY <1>2, <1>3, CutOut DEF IsCut
<1>5. Len(cut) = Len(s) /\ \A i \in 1..Len(s) : cut[i] = s[i]
  BY <1>1, <1>2, <1>4
<1> QED
  BY <1>3, <1>4, <1>5, SeqEqual

=============================================================================
