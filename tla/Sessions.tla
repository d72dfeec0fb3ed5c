------------------------------ MODULE Sessions ------------------------------
(***************************************************************************)
(* Accounts and sessions: AuthService, UserDao and SessionDao under        *)
(* src/src/, and the handlers of src/src/main.cpp that register, log in,   *)
(* log out, authenticate a request and administer users.                   *)
(*                                                                         *)
(* The request loop runs one handler at a time (task), cut into steps at   *)
(* the calls of the database, any of which may fail, and between which the *)
(* process may crash.  Tables survive a crash, the LRU cache does not.     *)
(***************************************************************************)
EXTENDS Naturals, FiniteSets

CONSTANTS
    Users,        \* user names; the id of a user is not told apart from it
    Root,         \* one of them, the administrator set up with the database
    Tokens,       \* what the token generator may return
    CacheTypes,   \* values of cache.type: "lru", "redis" or both
    MaxDbFaults,  \* bound: failed database calls
    MaxCrashes    \* bound: crashes of the process

NoTask  == [op |-> "none"]
NoReply == [op |-> "none"]
NoUser  == "no user"
NoToken == "no token"

VARIABLES
    users,      \* table users: name -> [enabled, admin]
    sessions,   \* table sessions: token -> [user, expired]
    cache,      \* sessionCache: token -> user
    cacheUp,    \* the cache answers (always, for the LRU)
    task,       \* the handler in progress
    reply,      \* the last answer, until the next request
    issued,     \* history: token -> who was given it
    loggedOut,  \* history: tokens whose logout was answered with success
    cacheType,  \* cache.type, read once
    dbFaults, crashes

tables  == <<users, sessions>>
caches  == <<cache, cacheUp>>
history == <<issued, loggedOut>>
faults  == <<dbFaults, crashes, cacheType>>
vars == <<tables, caches, task, reply, history, faults>>

Empty == [x \in {} |-> NoUser]

Redis == cacheType = "redis"   \* the session cache survives a restart

Init ==
    /\ users = [u \in {Root} |-> [enabled |-> TRUE, admin |-> TRUE]]
    /\ sessions = Empty
    /\ cache = Empty /\ cacheUp = TRUE
    /\ task = NoTask /\ reply = NoReply
    /\ issued = Empty /\ loggedOut = {}
    /\ cacheType \in CacheTypes
    /\ dbFaults = 0 /\ crashes = 0

With(f, k, v)  == [x \in DOMAIN f \cup {k} |-> IF x = k THEN v ELSE f[x]]
Without(f, ks) == [x \in DOMAIN f \ ks |-> f[x]]

-----------------------------------------------------------------------------
(* The database: a failed query looks like an empty answer, and a failed   *)
(* update may have taken effect all the same.                              *)

DbFault == dbFaults < MaxDbFaults /\ dbFaults' = dbFaults + 1

Update(effect, noEffect, ok) ==
    \/ ok = TRUE  /\ effect   /\ UNCHANGED dbFaults
    \/ ok = FALSE /\ noEffect /\ DbFault
    \/ ok = FALSE /\ effect   /\ DbFault

\* UserDao::findByUsername and findById.
FindUser(u, found) ==
    \/ found = (u \in DOMAIN users) /\ UNCHANGED dbFaults
    \/ found = FALSE /\ DbFault

\* Mutant: the row is taken whatever its expires_at.
LiveAnyway(t) == t \in DOMAIN sessions

Live(t) == t \in DOMAIN sessions /\ ~sessions[t].expired

\* Mutant: a session is not looked for in the table.
FindByTokenCached(t, u) ==
    /\ u = IF cacheUp /\ t \in DOMAIN cache THEN cache[t] ELSE NoUser
    /\ UNCHANGED <<cache, dbFaults>>

\* SessionDao::findByToken: a hit in the cache is not checked for expiry.
FindByToken(t, u) ==
    IF cacheUp /\ t \in DOMAIN cache
      THEN u = cache[t] /\ UNCHANGED <<cache, dbFaults>>
      ELSE \/ /\ Live(t) /\ u = sessions[t].user
              /\ cache' = IF cacheUp THEN With(cache, t, u) ELSE cache
              /\ UNCHANGED dbFaults
           \/ ~Live(t) /\ u = NoUser /\ UNCHANGED <<cache, dbFaults>>
           \/ u = NoUser /\ DbFault /\ UNCHANGED cache

-----------------------------------------------------------------------------
Answer(op, user, token, code) ==
    /\ task' = NoTask
    /\ reply' = [op |-> op, user |-> user, token |-> token, code |-> code]

Finish(code) == Answer(task.op, task.user, task.token, code)

At(op, at) == task.op = op /\ task.at = at

Enter(op, at, user, token) ==
    /\ task' = [op |-> op, at |-> at, user |-> user, token |-> token]
    /\ reply' = NoReply

GoTo(at) == task' = [task EXCEPT !.at = at] /\ UNCHANGED reply

-----------------------------------------------------------------------------
(* handleRegister and AuthService::registerUser.                           *)

RegisterLookup ==
    /\ task = NoTask
    /\ \E u \in Users, found \in BOOLEAN :
         /\ FindUser(u, found)
         /\ IF found THEN Answer("register", u, NoToken, "exists")
                     ELSE Enter("register", "insert", u, NoToken)
    /\ UNCHANGED <<tables, caches, history, crashes, cacheType>>

NewUser == [enabled |-> TRUE, admin |-> FALSE]

\* The name is a unique key: inserting it twice fails.
RegisterInsert ==
    /\ At("register", "insert")
    /\ \/ \E ok \in BOOLEAN :
            /\ task.user \notin DOMAIN users
            /\ Update(users' = With(users, task.user, NewUser),
                      UNCHANGED users, ok)
            /\ IF ok THEN GoTo("reload") ELSE Finish("failed")
       \/ /\ task.user \in DOMAIN users
          /\ Finish("failed") /\ UNCHANGED <<users, dbFaults>>
    /\ UNCHANGED <<sessions, caches, history, crashes, cacheType>>

RegisterReload ==
    /\ At("register", "reload")
    /\ \E found \in BOOLEAN :
         /\ FindUser(task.user, found)
         /\ Finish(IF found THEN "ok" ELSE "failed")
    /\ UNCHANGED <<tables, caches, history, crashes, cacheType>>

\* Both handlers ask the limiter (see RateLimiter) before anything else.
Throttled ==
    /\ task = NoTask
    /\ \E op \in {"register", "login"}, u \in Users : Answer(op, u, NoToken, "throttled")
    /\ UNCHANGED <<tables, caches, history, faults>>

-----------------------------------------------------------------------------
(* handleLogin, AuthService::login, SessionDao::createSession.             *)

LoginLookup ==
    /\ task = NoTask
    /\ \E u \in Users, found \in BOOLEAN, rightPassword \in BOOLEAN :
         /\ FindUser(u, found)
         /\ IF found /\ users[u].enabled /\ rightPassword
              THEN Enter("login", "insert", u, NoToken)
              ELSE Answer("login", u, NoToken, "denied")
    /\ UNCHANGED <<tables, caches, history, crashes, cacheType>>

LoginInsert ==
    /\ At("login", "insert")
    /\ \E t \in Tokens \ (DOMAIN issued \cup DOMAIN sessions), ok \in BOOLEAN :
         /\ Update(sessions' = With(sessions, t, [user |-> task.user, expired |-> FALSE]),
                   UNCHANGED sessions, ok)
         /\ IF ok THEN /\ issued' = With(issued, t, task.user)
                       /\ Answer("login", task.user, t, "ok")
                  ELSE Finish("failed") /\ UNCHANGED issued
    /\ UNCHANGED <<users, caches, loggedOut, crashes, cacheType>>

-----------------------------------------------------------------------------
(* requireAuth, which every other handler starts with, and handleLogout.   *)

\* A handler that asks for nothing but a user.
Use ==
    /\ task = NoTask
    /\ \E t \in DOMAIN issued, u \in Users \cup {NoUser} :
         /\ FindByToken(t, u)
         /\ Answer("use", u, t, IF u = NoUser THEN "denied" ELSE "ok")
    /\ UNCHANGED <<tables, cacheUp, history, crashes, cacheType>>

LogoutAuth ==
    /\ task = NoTask
    /\ \E t \in DOMAIN issued, u \in Users \cup {NoUser} :
         /\ FindByToken(t, u)
         /\ IF u = NoUser THEN Answer("logout", u, t, "denied")
                          ELSE Enter("logout", "forget", u, t)
    /\ UNCHANGED <<tables, cacheUp, history, crashes, cacheType>>

\* Mutant: the cached entry is left behind.
LogoutForgetNot ==
    /\ At("logout", "forget")
    /\ GoTo("erase")
    /\ UNCHANGED <<tables, caches, history, faults>>

\* deleteByToken: the cache first, then the table; the handler does not look
\* at the result.
LogoutForget ==
    /\ At("logout", "forget")
    /\ cache' = IF cacheUp THEN Without(cache, {task.token}) ELSE cache
    /\ GoTo("erase")
    /\ UNCHANGED <<tables, cacheUp, history, faults>>

LogoutErase ==
    /\ At("logout", "erase")
    /\ \E ok \in BOOLEAN :
         Update(sessions' = Without(sessions, {task.token}), UNCHANGED sessions, ok)
    /\ Finish("ok")
    /\ loggedOut' = loggedOut \cup {task.token}
    /\ UNCHANGED <<users, caches, issued, crashes, cacheType>>

-----------------------------------------------------------------------------
(* requireAdmin, handleAdminSetStatus, handleAdminSetAdmin.                *)

AdminAuth ==
    /\ task = NoTask
    /\ \E t \in DOMAIN issued, u \in Users \cup {NoUser} :
         /\ FindByToken(t, u)
         /\ IF u = NoUser THEN Answer("admin", u, t, "denied")
                          ELSE Enter("admin", "rights", u, t)
    /\ UNCHANGED <<tables, cacheUp, history, crashes, cacheType>>

MayAdminister(found) == found /\ users[task.user].admin

AdminRights ==
    /\ At("admin", "rights")
    /\ \E found \in BOOLEAN :
         /\ FindUser(task.user, found)
         /\ IF MayAdminister(found) THEN GoTo("apply") ELSE Finish("denied")
    /\ UNCHANGED <<tables, caches, history, crashes, cacheType>>

\* Updating a user that does not exist changes no row and succeeds.
AdminApply ==
    /\ At("admin", "apply")
    /\ \E u \in Users, field \in {"enabled", "admin"}, v, ok \in BOOLEAN :
         /\ Update(users' = IF u \in DOMAIN users
                            THEN [users EXCEPT ![u] = [@ EXCEPT ![field] = v]] ELSE users,
                   UNCHANGED users, ok)
         /\ Finish(IF ok THEN "ok" ELSE "failed")
    /\ UNCHANGED <<sessions, caches, history, crashes, cacheType>>

-----------------------------------------------------------------------------
(* The surroundings.                                                       *)

\* expires_at passes; the row stays (nothing calls deleteExpiredSessions).
Expire ==
    /\ \E t \in DOMAIN sessions :
         ~sessions[t].expired /\ sessions' = [sessions EXCEPT ![t].expired = TRUE]
    /\ reply' = NoReply
    /\ UNCHANGED <<users, caches, task, history, faults>>

\* The LRU makes room for another entry, or a Redis key times out.
Evict ==
    /\ \E t \in DOMAIN cache : cache' = Without(cache, {t})
    /\ reply' = NoReply
    /\ UNCHANGED <<tables, cacheUp, task, history, faults>>

\* RedisClient never reconnects by itself.
RedisLost ==
    /\ Redis /\ cacheUp /\ cacheUp' = FALSE
    /\ reply' = NoReply
    /\ UNCHANGED <<tables, cache, task, history, faults>>

\* The process dies and is started again; with cache.type = redis it finds
\* Redis with what it held.
Crash ==
    /\ crashes < MaxCrashes /\ crashes' = crashes + 1
    /\ task' = NoTask /\ reply' = NoReply
    /\ cacheUp' = TRUE
    /\ cache' = IF Redis THEN cache ELSE Empty
    /\ UNCHANGED <<tables, history, dbFaults, cacheType>>

-----------------------------------------------------------------------------
RegisterStep == Throttled \/ RegisterLookup \/ RegisterInsert \/ RegisterReload
LoginStep    == LoginLookup \/ LoginInsert
LogoutStep   == LogoutAuth \/ LogoutForget \/ LogoutErase
AdminStep    == AdminAuth \/ AdminRights \/ AdminApply

Next == \/ RegisterStep \/ LoginStep \/ Use \/ LogoutStep \/ AdminStep
        \/ Expire \/ Evict \/ RedisLost \/ Crash

Spec == Init /\ [][Next]_vars

-----------------------------------------------------------------------------
(* Properties.                                                             *)

Served == reply.op = "use" /\ reply.code = "ok"

\* A logout that was answered with success is final, as long as the database
\* answers: neither the cache, nor a crash in the middle, nor a restart lets
\* the token in again.  (What Redis held when it was lost answers after a
\* restart, and a DELETE that failed is answered with success too.)
LogoutFinal ==
    Served /\ dbFaults = 0 /\ (Redis => crashes = 0) => reply.token \notin loggedOut

\* A token that login gave out opens the door until it is logged out or
\* expires, as long as the database answers: no crash, no eviction and no lost
\* Redis ends a session.
LoginLasts ==
    reply.op = "use" /\ reply.code = "denied" /\ dbFaults = 0 =>
        \/ reply.token \in loggedOut
        \/ reply.token \in DOMAIN sessions /\ sessions[reply.token].expired

\* An expired session is let in by nothing but the entry a request before its
\* end left in the cache: once that entry is evicted, timed out, removed or
\* lost with the process, nobody gets in with the token and none comes back.
ExpiryBinds ==
    [][\A t \in DOMAIN sessions : sessions[t].expired =>
         /\ t \notin DOMAIN cache => t \notin DOMAIN cache'
         /\ Served' /\ reply' # reply /\ reply'.token = t => cacheUp /\ t \in DOMAIN cache]_vars
=============================================================================
