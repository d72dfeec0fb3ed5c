---------------------------- MODULE RecencyStore ----------------------------
(***************************************************************************)
(* What a user of CacheInterface (src/src/common/CacheInterface.h) is       *)
(* promised by the LRU cache: a bounded store that forgets the entry that  *)
(* was used the longest ago, and only when it needs the room.              *)
(***************************************************************************)
EXTENDS Naturals, FiniteSets

CONSTANTS Keys, Values, None, Capacity

VARIABLES
    stored,   \* the value of each key, or None
    older,    \* pairs of stored keys: the first was used before the second
    answer    \* what the last call returned

svars == <<stored, older, answer>>

Held == {k \in Keys : stored[k] # None}

Init ==
    /\ stored = [k \in Keys |-> None]
    /\ older = {}
    /\ answer = None

\* The order of the keys kept, with k as the one used last.
Used(k, kept) ==
    {p \in older : p[1] \in kept \ {k} /\ p[2] \in kept \ {k}} \cup ((kept \ {k}) \X {k})

\* The key of the entry to go: nothing held is older than it.
Oldest == CHOOSE k \in Held : \A j \in Held \ {k} : <<k, j>> \in older

Put(k, v) ==
    LET kept == IF k \in Held \/ Cardinality(Held) < Capacity THEN Held ELSE Held \ {Oldest}
    IN  /\ stored' = [j \in Keys |-> IF j = k THEN v ELSE IF j \in kept THEN stored[j] ELSE None]
        /\ older' = Used(k, kept \cup {k})
        /\ answer' = None

Get(k) ==
    /\ answer' = stored[k]
    /\ older' = IF k \in Held THEN Used(k, Held) ELSE older
    /\ UNCHANGED stored

Exists(k) == answer' = (k \in Held) /\ UNCHANGED <<stored, older>>

RemoveKey(k) ==
    /\ answer' = (k \in Held)
    /\ stored' = [stored EXCEPT ![k] = None]
    /\ older' = {p \in older : k \notin {p[1], p[2]}}

Clear ==
    /\ stored' = [k \in Keys |-> None]
    /\ older' = {}
    /\ answer' = None

Next ==
    \/ \E k \in Keys, v \in Values : Put(k, v)
    \/ \E k \in Keys : Get(k) \/ Exists(k) \/ RemoveKey(k)
    \/ Clear

Spec == Init /\ [][Next]_svars
=============================================================================
