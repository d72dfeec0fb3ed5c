------------------------------ MODULE LruCache ------------------------------
(***************************************************************************)
(* LruCache of src/src/common/LruCache.h: a list of nodes, the most        *)
(* recently used one first, and a map from keys to iterators into it.      *)
(* CacheManager builds three of them when the cache is not Redis.  Every   *)
(* operation holds mutex_ from its first line to its last, so each is one  *)
(* step.                                                                   *)
(***************************************************************************)
EXTENDS Naturals, Sequences, FiniteSets, SequencesExt

CONSTANTS
    Keys,
    Values,
    Nodes,     \* the memory list nodes live in: an iterator names its node
    None,      \* std::nullopt, a false result and the end iterator
    Wanted     \* the capacity the configuration asks for

ASSUME LruAssumption ==
    /\ Wanted \in Nat
    /\ IsFiniteSet(Nodes) /\ Cardinality(Nodes) > Wanted
    /\ None \notin Values \cup Nodes \cup BOOLEAN

\* The constructor: a cache that holds nothing is not built.
Capacity == IF Wanted > 0 THEN Wanted ELSE 1

VARIABLES
    list,    \* list_: nodes from the most to the least recently used
    map,     \* map_: an iterator for each key, or None
    answer   \* what the last call returned

vars == <<list, map, answer>>

Init ==
    /\ list = <<>>
    /\ map = [k \in Keys |-> None]
    /\ answer = None

-----------------------------------------------------------------------------
(* The containers.                                                         *)

Live == {list[i].node : i \in DOMAIN list}

\* Where the node of an iterator stands in the list.
At(it) == CHOOSE i \in DOMAIN list : list[i].node = it

Node(it) == list[At(it)]

\* list_.splice(list_.begin(), list_, it): the node moves, iterators stay valid.
ToFront(l, i) == <<l[i]>> \o RemoveAt(l, i)

\* Mutant: a hit does not count as a use.
TouchNot(it) == list

Touch(it) == ToFront(list, At(it))

Full == Len(list) >= Capacity

\* map_.erase(last->first) of a full cache; list_.pop_back() comes with it.
Evicted == IF Full THEN [map EXCEPT ![Last(list).key] = None] ELSE map

Kept == IF Full THEN Front(list) ELSE list

-----------------------------------------------------------------------------
(* The operations.                                                         *)

PutKnown(k, v) ==
    /\ map[k] # None
    /\ list' = ToFront([list EXCEPT ![At(map[k])].value = v], At(map[k]))
    /\ UNCHANGED map

\* The oldest entry goes when there is no room, then the new one is inserted;
\* its node may be the memory the evicted one has left.
PutNew(k, v) ==
    /\ map[k] = None
    /\ \E n \in Nodes \ {Kept[i].node : i \in DOMAIN Kept} :
         /\ list' = <<[node |-> n, key |-> k, value |-> v]>> \o Kept
         /\ map' = [Evicted EXCEPT ![k] = n]

Put(k, v) == (PutKnown(k, v) \/ PutNew(k, v)) /\ answer' = None

Get(k) ==
    /\ IF map[k] = None
         THEN answer' = None /\ UNCHANGED list
         ELSE answer' = Node(map[k]).value /\ list' = Touch(map[k])
    /\ UNCHANGED map

\* exists: no caller in the repository.
Exists(k) == answer' = (map[k] # None) /\ UNCHANGED <<list, map>>

RemoveKey(k) ==
    /\ answer' = (map[k] # None)
    /\ list' = IF map[k] = None THEN list ELSE RemoveAt(list, At(map[k]))
    /\ map' = [map EXCEPT ![k] = None]

\* clear: no caller in the repository.
Clear ==
    /\ list' = <<>>
    /\ map' = [k \in Keys |-> None]
    /\ answer' = None

Next ==
    \/ \E k \in Keys, v \in Values : Put(k, v)
    \/ \E k \in Keys : Get(k) \/ Exists(k) \/ RemoveKey(k)
    \/ Clear

Spec == Init /\ [][Next]_vars

-----------------------------------------------------------------------------
(* Properties.                                                             *)

\* What the list stands for.
Stored == [k \in Keys |-> IF \E i \in DOMAIN list : list[i].key = k
                            THEN list[CHOOSE i \in DOMAIN list : list[i].key = k].value
                            ELSE None]
Older == {p \in Keys \X Keys : \E i, j \in DOMAIN list :
                i > j /\ list[i].key = p[1] /\ list[j].key = p[2]}

Store == INSTANCE RecencyStore WITH stored <- Stored, older <- Older, answer <- answer

\* The cache is a store that forgets only its least recently used entry, and
\* only for want of room; a hit returns what was put last.
IsRecencyStore == Store!Spec
=============================================================================
