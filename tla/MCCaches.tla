------------------------------ MODULE MCCaches ------------------------------
(* The two implementations of CacheInterface side by side for TLC: a        *)
(* behaviour is one of the LRU cache or one of the caches in Redis.         *)
EXTENDS LruCache, RedisCache, TLC

VARIABLE part   \* the implementation that is used: CacheManager builds one

CachesInit == part \in {"lru", "redis"} /\ Init /\ RedisInit

CachesNext ==
    \/ part = "lru" /\ Next /\ UNCHANGED <<part, redisVars>>
    \/ part = "redis" /\ RedisNext /\ UNCHANGED <<part, vars>>

CachesSpec == CachesInit /\ [][CachesNext]_<<part, vars, redisVars>>

\* A plain name, and one with quotes that spells a field and its value.
MCNames == {<<"x">>, <<"'", "user_id", "'", ":", "2">>}

Symmetry == Permutations(Nodes)
=============================================================================
