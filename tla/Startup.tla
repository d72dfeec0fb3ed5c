------------------------------ MODULE Startup -------------------------------
(***************************************************************************)
(* The start of the server: main() of src/src/main.cpp before its request  *)
(* loop, AppConfig of src/src/common/ConfigLoader.cpp, CacheManager::init, *)
(* LlmService::init and AgentEngine::init.                                 *)
(*                                                                         *)
(* The configuration file gives each setting a value or none; a value that *)
(* does not have the type of its setting counts as none.  Then one part    *)
(* after the other is built, and each may find its server unreachable.     *)
(***************************************************************************)
EXTENDS Naturals, FiniteSets

CONSTANT Offered   \* for each setting the values a file may give it

ASSUME StartupAssumption ==
    \A s \in {"port", "threads", "min", "max", "capacity"} : Offered[s] \subseteq Nat

\* What the file may say of a setting: no value, or one.
Given(s) == {{}} \cup {{v} : v \in Offered[s]}

Settings == [port : Given("port"), threads : Given("threads"), account : Given("account"),
             min : Given("min"), max : Given("max"), cache : Given("cache"),
             capacity : Given("capacity"), storage : Given("storage"), model : Given("model")]

\* The initialisers of src/src/common/Config.h; user, password and database
\* have none.
Default ==
    [port |-> 10086, threads |-> 4, account |-> "", min |-> 4, max |-> 20,
     cache |-> "lru", capacity |-> 10000, storage |-> "local", model |-> "ollama"]

Unread == [port |-> 0]

VARIABLES
    step,      \* where main() is; "exit 0" and "exit 1" are its results
    config,    \* app_config
    pool,      \* the pool: "none", "open"
    cacheKind, \* the implementation CacheManager built: "none", "lru", "redis"
    llm,       \* LlmService: "none", "empty" (initialized_ without a model), "model"
    agent,     \* AgentEngine::initialized_
    fdfs       \* g_fastdfs is set

parts == <<pool, cacheKind, llm, agent, fdfs>>
startVars == <<step, config, parts>>

StartInit ==
    /\ step = "load" /\ config = Unread
    /\ pool = "none" /\ cacheKind = "none" /\ llm = "none"
    /\ agent = FALSE /\ fdfs = FALSE

-----------------------------------------------------------------------------
\* as<T>(fallback) of every setting.
Read(file) ==
    [s \in DOMAIN Default |-> IF file[s] = {} THEN Default[s] ELSE CHOOSE v \in file[s] : TRUE]

\* The file is missing, is no YAML, or has a scalar in the place of a section.
LoadFails ==
    /\ step = "load" /\ step' = "exit 1"
    /\ UNCHANGED <<config, parts>>

Load ==
    /\ step = "load"
    /\ \E file \in Settings : config' = Read(file)
    /\ step' = "validate"
    /\ UNCHANGED parts

\* Mutant: the capacity is looked at for the LRU only.
CapacityValidLru == config.cache = "lru" => config.capacity # 0

\* Whatever the type of the cache is.
CapacityValid == config.capacity # 0

Valid ==
    /\ config.port # 0
    /\ config.threads \in 1..256
    /\ config.account # ""
    /\ config.min # 0 /\ config.min <= config.max
    /\ config.cache \in {"redis", "lru"}
    /\ CapacityValid

Validate ==
    /\ step = "validate"
    /\ step' = IF Valid THEN "pool" ELSE "exit 1"
    /\ UNCHANGED <<config, parts>>

\* ConnectionPool::init: a failed one leaves nothing behind (ConnectionPool).
InitPool ==
    /\ step = "pool"
    /\ \/ pool' = "open" /\ step' = "cache"
       \/ step' = "exit 1" /\ UNCHANGED pool
    /\ UNCHANGED <<config, cacheKind, llm, agent, fdfs>>

\* CacheManager::init: without Redis the LRU cache stands in.
InitCache ==
    /\ step = "cache" /\ step' = "llm"
    /\ cacheKind' \in IF config.cache = "redis" THEN {"redis", "lru"} ELSE {"lru"}
    /\ UNCHANGED <<config, pool, llm, agent, fdfs>>

\* LlmService::init: a provider nobody knows gives no model, and the service
\* counts as initialised.
InitLlm ==
    /\ step = "llm" /\ step' = "agent"
    /\ llm' = IF config.model = "unknown" THEN "empty" ELSE "model"
    /\ UNCHANGED <<config, pool, cacheKind, agent, fdfs>>

\* main() asks whether there is a model, and AgentEngine::init does so again.
InitAgent ==
    /\ step = "agent" /\ step' = "storage"
    /\ agent' = (llm = "model")
    /\ UNCHANGED <<config, pool, cacheKind, llm, fdfs>>

\* A type that is not fastdfs, and a FastDFS that does not start, mean the disk.
InitStorage ==
    /\ step = "storage" /\ step' = "listen"
    /\ fdfs' \in IF config.storage = "fastdfs" THEN BOOLEAN ELSE {FALSE}
    /\ UNCHANGED <<config, pool, cacheKind, llm, agent>>

\* run() opens the socket; if it cannot, main() ends as if it had served.
Listen ==
    /\ step = "listen"
    /\ step' \in {"serve", "exit 0"}
    /\ UNCHANGED <<config, parts>>

\* The request loop ends (FrontEnd).
Stop ==
    /\ step = "serve" /\ step' = "exit 0"
    /\ UNCHANGED <<config, parts>>

StartNext ==
    \/ LoadFails \/ Load \/ Validate \/ InitPool \/ InitCache
    \/ InitLlm \/ InitAgent \/ InitStorage \/ Listen \/ Stop

StartSpec == StartInit /\ [][StartNext]_startVars

-----------------------------------------------------------------------------
(* Properties.                                                             *)

\* What the handlers rely on without asking is there as soon as a request can
\* come in, whatever the file left out and whatever was unreachable: a pool
\* whose sizes are in order, a cache with room for an entry, also when it is
\* the one that stands in for Redis, and a model behind the agent engine.
ServesWhole ==
    step = "serve" =>
        /\ pool = "open" /\ 0 < config.min /\ config.min <= config.max
        /\ cacheKind # "none" /\ (cacheKind = "lru" => config.capacity > 0)
        /\ llm # "none" /\ (agent => llm = "model")
        /\ fdfs => config.storage = "fastdfs"
=============================================================================
