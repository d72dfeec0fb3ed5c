--------------------------- MODULE AccountsProofs ---------------------------
(***************************************************************************)
(* What the run accounts checks of modules Sessions, RateLimiter and       *)
(* Statement for two users, two tokens or two clients, proved for any of   *)
(* them, any instants, any column and any number of faults.  The parts do  *)
(* not interact; each has its own inductive invariant.                     *)
(***************************************************************************)
EXTENDS Sessions, RateLimiter, Statement, SequenceTheorems, TLAPS

-----------------------------------------------------------------------------
(* The sessions.                                                           *)

Stages == {"insert", "reload", "forget", "erase", "rights", "apply"}

\* A handler in progress.
Handlers == [op : {"register", "login", "logout", "admin"}, at : Stages,
             user : Users, token : DOMAIN issued \cup {NoToken}]

\* The shape of the state, as far as the proofs need it: faults are counted,
\* a logout is of a token that was given out, and the LRU is always there.
Shape ==
    /\ dbFaults \in Nat /\ crashes \in Nat
    /\ loggedOut \subseteq DOMAIN issued
    /\ task = NoTask \/ task \in Handlers
    /\ task.op = "logout" => task.token \in DOMAIN issued
    /\ ~Redis => cacheUp

\* No call of the database has failed, and Redis has not come back with what
\* it held before it was lost.
Trusted == dbFaults = 0 /\ (Redis => crashes = 0)

\* A token whose logout was answered is neither in the table nor in a cache
\* that answers, from which a logout half done has taken it already.
Gone ==
    Trusted =>
        /\ \A t \in loggedOut : t \notin DOMAIN sessions
        /\ cacheUp => \A t \in loggedOut : t \notin DOMAIN cache
        /\ At("logout", "erase") /\ cacheUp => task.token \notin DOMAIN cache

\* A token that was given out has its row until it is logged out.
Kept ==
    /\ dbFaults = 0 => DOMAIN issued \subseteq DOMAIN sessions \cup loggedOut
    /\ \A t \in DOMAIN cache : cache[t] \in Users
    /\ \A t \in DOMAIN sessions : sessions[t] \in [user : Users, expired : BOOLEAN]

-----------------------------------------------------------------------------
(* The shape of the state.                                                 *)

LEMMA ShapeInit == Init => Shape
BY DEF Init, Shape, Empty, NoTask, NoReply

LEMMA ShapeStep == Shape /\ [Next]_vars => Shape'
<1> SUFFICES ASSUME Shape, [Next]_vars PROVE Shape'
  OBVIOUS
<1> USE DEF Shape, Handlers, Stages, Redis, NoTask
<1>1. CASE Throttled
  BY <1>1 DEF Throttled, Answer, tables, caches, history, faults
<1>2. CASE RegisterLookup
  BY <1>2 DEF RegisterLookup, FindUser, DbFault, Answer, Enter, NoReply,
     tables, caches, history
<1>3. CASE RegisterInsert
  BY <1>3 DEF RegisterInsert, Update, DbFault, With, Answer, Finish, At, GoTo,
     NewUser, caches, history
<1>4. CASE RegisterReload
  BY <1>4 DEF RegisterReload, FindUser, DbFault, Answer, Finish, At, tables,
     caches, history
<1>5. CASE LoginLookup
  BY <1>5 DEF LoginLookup, FindUser, DbFault, Answer, Enter, NoReply, tables,
     caches, history
<1>6. CASE LoginInsert
  BY <1>6 DEF LoginInsert, Update, DbFault, With, Answer, Finish, At, caches
<1>7. CASE Use
  BY <1>7 DEF Use, DbFault, FindByToken, Live, With, Answer, tables, history
<1>8. CASE LogoutAuth
  BY <1>8 DEF LogoutAuth, DbFault, FindByToken, Live, With, Answer, Enter,
     NoReply, tables, history
<1>9. CASE LogoutForget
  BY <1>9 DEF LogoutForget, Without, At, GoTo, tables, history, faults
<1>10. CASE LogoutErase
  BY <1>10 DEF LogoutErase, Update, DbFault, Without, Answer, Finish, At,
     caches
<1>11. CASE AdminAuth
  BY <1>11 DEF AdminAuth, DbFault, FindByToken, Live, With, Answer, Enter,
     NoReply, tables, history
<1>12. CASE AdminRights
  BY <1>12 DEF AdminRights, FindUser, DbFault, Answer, Finish, At, GoTo,
     tables, caches, history
<1>13. CASE AdminApply
  BY <1>13 DEF AdminApply, Update, DbFault, Answer, Finish, At, caches, history
<1>14. CASE Expire
  BY <1>14 DEF Expire, NoReply, caches, history, faults
<1>15. CASE Evict
  BY <1>15 DEF Evict, Without, NoReply, tables, history, faults
<1>16. CASE RedisLost
  BY <1>16 DEF RedisLost, NoReply, tables, history, faults
<1>17. CASE Crash
  BY <1>17 DEF Crash, Empty, NoReply, tables, history
<1>18. CASE UNCHANGED vars
  BY <1>18 DEF vars, tables, caches, history, faults
<1> QED
  BY <1>1, <1>2, <1>3, <1>4, <1>5, <1>6, <1>7, <1>8, <1>9, <1>10, <1>11, <1>12,
     <1>13, <1>14, <1>15, <1>16, <1>17, <1>18
     DEF Next, RegisterStep, LoginStep, LogoutStep, AdminStep

-----------------------------------------------------------------------------
(* A logout is final.                                                      *)

LEMMA GoneStep == Shape /\ Gone /\ [Next]_vars => Gone'
<1> SUFFICES ASSUME Shape, Gone, [Next]_vars PROVE Gone'
  OBVIOUS
<1> USE DEF Shape, Handlers, Stages, Gone, Trusted, Redis, NoTask, At
<1>1. CASE Throttled
  BY <1>1 DEF Throttled, Answer, tables, caches, history, faults
<1>2. CASE RegisterLookup
  BY <1>2 DEF RegisterLookup, FindUser, DbFault, Answer, Enter, NoReply,
     tables, caches, history
<1>3. CASE RegisterInsert
  BY <1>3 DEF RegisterInsert, Update, DbFault, With, Answer, Finish, GoTo,
     NewUser, caches, history
<1>4. CASE RegisterReload
  BY <1>4 DEF RegisterReload, FindUser, DbFault, Answer, Finish, tables,
     caches, history
<1>5. CASE LoginLookup
  BY <1>5 DEF LoginLookup, FindUser, DbFault, Answer, Enter, NoReply, tables,
     caches, history
<1>6. CASE LoginInsert
  BY <1>6 DEF LoginInsert, Update, DbFault, With, Answer, Finish, caches
<1>7. CASE Use
  BY <1>7 DEF Use, DbFault, FindByToken, Live, With, Answer, tables, history
<1>8. CASE LogoutAuth
  BY <1>8 DEF LogoutAuth, DbFault, FindByToken, Live, With, Answer, Enter,
     NoReply, tables, history
<1>9. CASE LogoutForget
  BY <1>9 DEF LogoutForget, Without, GoTo, tables, history, faults
<1>10. CASE LogoutErase
  BY <1>10 DEF LogoutErase, Update, DbFault, Without, Answer, Finish, caches
<1>11. CASE AdminAuth
  BY <1>11 DEF AdminAuth, DbFault, FindByToken, Live, With, Answer, Enter,
     NoReply, tables, history
<1>12. CASE AdminRights
  BY <1>12 DEF AdminRights, FindUser, DbFault, Answer, Finish, GoTo, tables,
     caches, history
<1>13. CASE AdminApply
  BY <1>13 DEF AdminApply, Update, DbFault, Answer, Finish, caches, history
<1>14. CASE Expire
  BY <1>14 DEF Expire, NoReply, caches, history, faults
<1>15. CASE Evict
  BY <1>15 DEF Evict, Without, NoReply, tables, history, faults
<1>16. CASE RedisLost
  BY <1>16 DEF RedisLost, NoReply, tables, history, faults
<1>17. CASE Crash
  BY <1>17 DEF Crash, Empty, NoReply, tables, history
<1>18. CASE UNCHANGED vars
  BY <1>18 DEF vars, tables, caches, history, faults
<1> QED
  BY <1>1, <1>2, <1>3, <1>4, <1>5, <1>6, <1>7, <1>8, <1>9, <1>10, <1>11, <1>12,
     <1>13, <1>14, <1>15, <1>16, <1>17, <1>18
     DEF Next, RegisterStep, LoginStep, LogoutStep, AdminStep

LEMMA LogoutFinalStep == Shape /\ Gone /\ LogoutFinal /\ [Next]_vars => LogoutFinal'
<1> SUFFICES ASSUME Shape, Gone, LogoutFinal, [Next]_vars PROVE LogoutFinal'
  OBVIOUS
<1> USE DEF Shape, Handlers, Stages, Gone, LogoutFinal, Served, Trusted, Redis, NoTask, At
<1>1. CASE Throttled
  BY <1>1 DEF Throttled, Answer, tables, caches, history, faults
<1>2. CASE RegisterLookup
  BY <1>2 DEF RegisterLookup, FindUser, DbFault, Answer, Enter, NoReply,
     tables, caches, history
<1>3. CASE RegisterInsert
  BY <1>3 DEF RegisterInsert, Update, DbFault, With, Answer, Finish, GoTo,
     NewUser, caches, history
<1>4. CASE RegisterReload
  BY <1>4 DEF RegisterReload, FindUser, DbFault, Answer, Finish, tables,
     caches, history
<1>5. CASE LoginLookup
  BY <1>5 DEF LoginLookup, FindUser, DbFault, Answer, Enter, NoReply, tables,
     caches, history
<1>6. CASE LoginInsert
  BY <1>6 DEF LoginInsert, Update, DbFault, With, Answer, Finish, caches
<1>7. CASE Use
  BY <1>7 DEF Use, DbFault, FindByToken, Live, With, Answer, tables, history
<1>8. CASE LogoutAuth
  BY <1>8 DEF LogoutAuth, DbFault, FindByToken, Live, With, Answer, Enter,
     NoReply, tables, history
<1>9. CASE LogoutForget
  BY <1>9 DEF LogoutForget, Without, GoTo, tables, history, faults
<1>10. CASE LogoutErase
  BY <1>10 DEF LogoutErase, Update, DbFault, Without, Answer, Finish, caches
<1>11. CASE AdminAuth
  BY <1>11 DEF AdminAuth, DbFault, FindByToken, Live, With, Answer, Enter,
     NoReply, tables, history
<1>12. CASE AdminRights
  BY <1>12 DEF AdminRights, FindUser, DbFault, Answer, Finish, GoTo, tables,
     caches, history
<1>13. CASE AdminApply
  BY <1>13 DEF AdminApply, Update, DbFault, Answer, Finish, caches, history
<1>14. CASE Expire
  BY <1>14 DEF Expire, NoReply, caches, history, faults
<1>15. CASE Evict
  BY <1>15 DEF Evict, Without, NoReply, tables, history, faults
<1>16. CASE RedisLost
  BY <1>16 DEF RedisLost, NoReply, tables, history, faults
<1>17. CASE Crash
  BY <1>17 DEF Crash, Empty, NoReply, tables, history
<1>18. CASE UNCHANGED vars
  BY <1>18 DEF vars, tables, caches, history, faults
<1> QED
  BY <1>1, <1>2, <1>3, <1>4, <1>5, <1>6, <1>7, <1>8, <1>9, <1>10, <1>11, <1>12,
     <1>13, <1>14, <1>15, <1>16, <1>17, <1>18
     DEF Next, RegisterStep, LoginStep, LogoutStep, AdminStep

\* A token whose logout was answered is not let in again, as long as the
\* database answers and Redis, if it is used, does not come back with old
\* entries: for any number of users and tokens, evictions and restarts.
THEOREM LogoutStays == Spec => []LogoutFinal
<1>1. Init => Shape /\ Gone /\ LogoutFinal
  BY ShapeInit DEF Init, Gone, LogoutFinal, Served, At, NoTask, NoReply
<1>2. Shape /\ Gone /\ LogoutFinal /\ [Next]_vars => (Shape /\ Gone /\ LogoutFinal)'
  BY ShapeStep, GoneStep, LogoutFinalStep
<1> QED BY <1>1, <1>2, PTL DEF Spec

-----------------------------------------------------------------------------
(* A login lasts.                                                          *)

LEMMA KeptStep == Shape /\ Kept /\ [Next]_vars => Kept'
<1> SUFFICES ASSUME Shape, Kept, [Next]_vars PROVE Kept'
  OBVIOUS
<1> USE DEF Shape, Handlers, Stages, Kept, Redis, NoTask, At
<1>1. CASE Throttled
  BY <1>1 DEF Throttled, Answer, tables, caches, history, faults
<1>2. CASE RegisterLookup
  BY <1>2 DEF RegisterLookup, FindUser, DbFault, Answer, Enter, NoReply,
     tables, caches, history
<1>3. CASE RegisterInsert
  BY <1>3 DEF RegisterInsert, Update, DbFault, With, Answer, Finish, GoTo,
     NewUser, caches, history
<1>4. CASE RegisterReload
  BY <1>4 DEF RegisterReload, FindUser, DbFault, Answer, Finish, tables,
     caches, history
<1>5. CASE LoginLookup
  BY <1>5 DEF LoginLookup, FindUser, DbFault, Answer, Enter, NoReply, tables,
     caches, history
<1>6. CASE LoginInsert
  <2> DEFINE newRow == [user |-> task.user, expired |-> FALSE]
  <2>1. PICK t \in Tokens \ (DOMAIN issued \cup DOMAIN sessions), ok \in BOOLEAN :
          /\ Update(sessions' = With(sessions, t, newRow), UNCHANGED sessions, ok)
          /\ IF ok THEN issued' = With(issued, t, task.user) ELSE issued' = issued
    BY <1>6 DEF LoginInsert
  <2>2. newRow \in [user : Users, expired : BOOLEAN]
    BY <1>6 DEF LoginInsert
  <2>3. loggedOut' = loggedOut /\ cache' = cache
    BY <1>6 DEF LoginInsert, caches
  <2> HIDE DEF newRow
  <2>4. /\ DOMAIN With(sessions, t, newRow) = DOMAIN sessions \cup {t}
        /\ DOMAIN With(issued, t, task.user) = DOMAIN issued \cup {t}
        /\ \A x \in DOMAIN With(sessions, t, newRow) :
             With(sessions, t, newRow)[x] = IF x = t THEN newRow ELSE sessions[x]
    BY DEF With
  <2>5. CASE sessions' = With(sessions, t, newRow)
    <3>1. \A x \in DOMAIN sessions' : sessions'[x] \in [user : Users, expired : BOOLEAN]
      BY <2>2, <2>4, <2>5
    <3>2. dbFaults' = 0 => DOMAIN issued' \subseteq DOMAIN sessions' \cup loggedOut'
      BY <2>1, <2>3, <2>4, <2>5 DEF Update, DbFault
    <3> QED BY <2>3, <3>1, <3>2
  <2>6. CASE sessions' = sessions /\ ok = FALSE
    BY <2>1, <2>3, <2>6 DEF Update, DbFault
  <2> QED BY <2>1, <2>5, <2>6 DEF Update
<1>7. CASE Use
  BY <1>7 DEF Use, DbFault, FindByToken, Live, With, Answer, tables, history
<1>8. CASE LogoutAuth
  BY <1>8 DEF LogoutAuth, DbFault, FindByToken, Live, With, Answer, Enter,
     NoReply, tables, history
<1>9. CASE LogoutForget
  BY <1>9 DEF LogoutForget, Without, GoTo, tables, history, faults
<1>10. CASE LogoutErase
  BY <1>10 DEF LogoutErase, Update, DbFault, Without, Answer, Finish, caches
<1>11. CASE AdminAuth
  BY <1>11 DEF AdminAuth, DbFault, FindByToken, Live, With, Answer, Enter,
     NoReply, tables, history
<1>12. CASE AdminRights
  BY <1>12 DEF AdminRights, FindUser, DbFault, Answer, Finish, GoTo, tables,
     caches, history
<1>13. CASE AdminApply
  BY <1>13 DEF AdminApply, Update, DbFault, Answer, Finish, caches, history
<1>14. CASE Expire
  <2>1. PICK t \in DOMAIN sessions : sessions' = [sessions EXCEPT ![t].expired = TRUE]
    BY <1>14 DEF Expire
  <2>2. /\ DOMAIN sessions' = DOMAIN sessions
        /\ \A s \in DOMAIN sessions : sessions'[s].user = sessions[s].user
    BY <2>1
  <2> QED BY <1>14, <2>2 DEF Expire, NoReply, caches, history, faults
<1>15. CASE Evict
  BY <1>15 DEF Evict, Without, NoReply, tables, history, faults
<1>16. CASE RedisLost
  BY <1>16 DEF RedisLost, NoReply, tables, history, faults
<1>17. CASE Crash
  BY <1>17 DEF Crash, Empty, NoReply, tables, history
<1>18. CASE UNCHANGED vars
  BY <1>18 DEF vars, tables, caches, history, faults
<1> QED
  BY <1>1, <1>2, <1>3, <1>4, <1>5, <1>6, <1>7, <1>8, <1>9, <1>10, <1>11, <1>12,
     <1>13, <1>14, <1>15, <1>16, <1>17, <1>18
     DEF Next, RegisterStep, LoginStep, LogoutStep, AdminStep

LEMMA LoginLastsStep ==
    ASSUME NoUser \notin Users
    PROVE  Shape /\ Kept /\ LoginLasts /\ [Next]_vars => LoginLasts'
<1> SUFFICES ASSUME Shape, Kept, LoginLasts, [Next]_vars PROVE LoginLasts'
  OBVIOUS
<1> USE DEF Shape, Handlers, Stages, Kept, LoginLasts, Redis, NoTask, At
<1>1. CASE Throttled
  BY <1>1 DEF Throttled, Answer, tables, caches, history, faults
<1>2. CASE RegisterLookup
  BY <1>2 DEF RegisterLookup, FindUser, DbFault, Answer, Enter, NoReply,
     tables, caches, history
<1>3. CASE RegisterInsert
  BY <1>3 DEF RegisterInsert, Update, DbFault, With, Answer, Finish, GoTo,
     NewUser, caches, history
<1>4. CASE RegisterReload
  BY <1>4 DEF RegisterReload, FindUser, DbFault, Answer, Finish, tables,
     caches, history
<1>5. CASE LoginLookup
  BY <1>5 DEF LoginLookup, FindUser, DbFault, Answer, Enter, NoReply, tables,
     caches, history
<1>6. CASE LoginInsert
  BY <1>6 DEF LoginInsert, Update, DbFault, With, Answer, Finish, caches
<1>7. CASE Use
  BY <1>7 DEF Use, DbFault, FindByToken, Live, With, Answer, tables, history
<1>8. CASE LogoutAuth
  BY <1>8 DEF LogoutAuth, DbFault, FindByToken, Live, With, Answer, Enter,
     NoReply, tables, history
<1>9. CASE LogoutForget
  BY <1>9 DEF LogoutForget, Without, GoTo, tables, history, faults
<1>10. CASE LogoutErase
  BY <1>10 DEF LogoutErase, Update, DbFault, Without, Answer, Finish, caches
<1>11. CASE AdminAuth
  BY <1>11 DEF AdminAuth, DbFault, FindByToken, Live, With, Answer, Enter,
     NoReply, tables, history
<1>12. CASE AdminRights
  BY <1>12 DEF AdminRights, FindUser, DbFault, Answer, Finish, GoTo, tables,
     caches, history
<1>13. CASE AdminApply
  BY <1>13 DEF AdminApply, Update, DbFault, Answer, Finish, caches, history
<1>14. CASE Expire
  BY <1>14 DEF Expire, NoReply, caches, history, faults
<1>15. CASE Evict
  BY <1>15 DEF Evict, Without, NoReply, tables, history, faults
<1>16. CASE RedisLost
  BY <1>16 DEF RedisLost, NoReply, tables, history, faults
<1>17. CASE Crash
  BY <1>17 DEF Crash, Empty, NoReply, tables, history
<1>18. CASE UNCHANGED vars
  BY <1>18 DEF vars, tables, caches, history, faults
<1> QED
  BY <1>1, <1>2, <1>3, <1>4, <1>5, <1>6, <1>7, <1>8, <1>9, <1>10, <1>11, <1>12,
     <1>13, <1>14, <1>15, <1>16, <1>17, <1>18
     DEF Next, RegisterStep, LoginStep, LogoutStep, AdminStep

\* A token that login gave out is denied only after its logout or its expiry,
\* as long as the database answers: for any number of users and tokens.
THEOREM LoginStays ==
    ASSUME NoUser \notin Users
    PROVE  Spec => []LoginLasts
<1>1. Init => Shape /\ Kept /\ LoginLasts
  BY ShapeInit DEF Init, Kept, LoginLasts, Empty, NoTask, NoReply
<1>2. Shape /\ Kept /\ LoginLasts /\ [Next]_vars => (Shape /\ Kept /\ LoginLasts)'
  BY ShapeStep, KeptStep, LoginLastsStep
<1> QED BY <1>1, <1>2, PTL DEF Spec

-----------------------------------------------------------------------------
(* An expired session is let in by the cache alone.                        *)

LEMMA ExpiryStep ==
    ASSUME Shape, [Next]_vars, NEW t \in DOMAIN sessions, sessions[t].expired
    PROVE  /\ t \notin DOMAIN cache => t \notin DOMAIN cache'
           /\ Served' /\ reply' # reply /\ reply'.token = t => cacheUp /\ t \in DOMAIN cache
<1> USE DEF Shape, Handlers, Stages, Served, Redis, NoTask, At
<1>1. CASE Throttled
  BY <1>1 DEF Throttled, Answer, tables, caches, history, faults
<1>2. CASE RegisterLookup
  BY <1>2 DEF RegisterLookup, FindUser, DbFault, Answer, Enter, NoReply,
     tables, caches, history
<1>3. CASE RegisterInsert
  BY <1>3 DEF RegisterInsert, Update, DbFault, With, Answer, Finish, GoTo,
     NewUser, caches, history
<1>4. CASE RegisterReload
  BY <1>4 DEF RegisterReload, FindUser, DbFault, Answer, Finish, tables,
     caches, history
<1>5. CASE LoginLookup
  BY <1>5 DEF LoginLookup, FindUser, DbFault, Answer, Enter, NoReply, tables,
     caches, history
<1>6. CASE LoginInsert
  BY <1>6 DEF LoginInsert, Update, DbFault, With, Answer, Finish, caches
<1>7. CASE Use
  BY <1>7 DEF Use, DbFault, FindByToken, Live, With, Answer, tables, history
<1>8. CASE LogoutAuth
  BY <1>8 DEF LogoutAuth, DbFault, FindByToken, Live, With, Answer, Enter,
     NoReply, tables, history
<1>9. CASE LogoutForget
  BY <1>9 DEF LogoutForget, Without, GoTo, tables, history, faults
<1>10. CASE LogoutErase
  BY <1>10 DEF LogoutErase, Update, DbFault, Without, Answer, Finish, caches
<1>11. CASE AdminAuth
  BY <1>11 DEF AdminAuth, DbFault, FindByToken, Live, With, Answer, Enter,
     NoReply, tables, history
<1>12. CASE AdminRights
  BY <1>12 DEF AdminRights, FindUser, DbFault, Answer, Finish, GoTo, tables,
     caches, history
<1>13. CASE AdminApply
  BY <1>13 DEF AdminApply, Update, DbFault, Answer, Finish, caches, history
<1>14. CASE Expire
  BY <1>14 DEF Expire, NoReply, caches, history, faults
<1>15. CASE Evict
  BY <1>15 DEF Evict, Without, NoReply, tables, history, faults
<1>16. CASE RedisLost
  BY <1>16 DEF RedisLost, NoReply, tables, history, faults
<1>17. CASE Crash
  BY <1>17 DEF Crash, Empty, NoReply, tables, history
<1>18. CASE UNCHANGED vars
  BY <1>18 DEF vars, tables, caches, history, faults
<1> QED
  BY <1>1, <1>2, <1>3, <1>4, <1>5, <1>6, <1>7, <1>8, <1>9, <1>10, <1>11, <1>12,
     <1>13, <1>14, <1>15, <1>16, <1>17, <1>18
     DEF Next, RegisterStep, LoginStep, LogoutStep, AdminStep

\* Nobody gets in with an expired token that is not in the cache, and no step
\* puts one there: for any number of users and tokens, whatever fails.
THEOREM ExpiryHolds == Spec => ExpiryBinds
<1>1. Init => Shape
  BY ShapeInit
<1>2. Shape /\ [Next]_vars => Shape'
  BY ShapeStep
<1>3. Shape /\ [Next]_vars =>
        [\A t \in DOMAIN sessions : sessions[t].expired =>
           /\ t \notin DOMAIN cache => t \notin DOMAIN cache'
           /\ Served' /\ reply' # reply /\ reply'.token = t => cacheUp /\ t \in DOMAIN cache]_vars
  BY ExpiryStep
<1> QED BY <1>1, <1>2, <1>3, PTL DEF Spec, ExpiryBinds

-----------------------------------------------------------------------------
(* The rate limiter of the logins.                                         *)

-----------------------------------------------------------------------------
\* What is left of a queue after n pops.
LEMMA Popped ==
    ASSUME NEW S, NEW s \in Seq(S), NEW n \in 0..Len(s)
    PROVE  LET d == SubSeq(s, n + 1, Len(s))
           IN  /\ d \in Seq(S)
               /\ Len(d) = Len(s) - n
               /\ \A i \in 1..(Len(s) - n) : d[i] = s[i + n]
<1> DEFINE d == SubSeq(s, n + 1, Len(s))
<1>1. Len(s) \in Nat /\ n \in Nat /\ n <= Len(s)
  OBVIOUS
<1>2. /\ d \in Seq(S)
      /\ Len(d) = IF n + 1 <= Len(s) THEN Len(s) - (n + 1) + 1 ELSE 0
      /\ \A i \in 1..(Len(s) - (n + 1) + 1) : d[i] = s[(n + 1) + i - 1]
  BY <1>1
<1> HIDE DEF d
<1>3. \A l \in Nat : n <= l =>
        /\ l - (n + 1) + 1 = l - n
        /\ (IF n + 1 <= l THEN l - (n + 1) + 1 ELSE 0) = l - n
  BY <1>1
<1>4. ASSUME NEW i \in 1..(Len(s) - n) PROVE d[i] = s[i + n]
  <2>1. (n + 1) + i - 1 = i + n /\ Len(s) - (n + 1) + 1 = Len(s) - n
    BY <1>1
  <2> QED BY <2>1, <1>2
<1> QED BY <1>1, <1>2, <1>3, <1>4 DEF d

\* What allow() does to the key it is asked for.
Refuses(k, n) ==
    /\ ~WithinLimit(Len(records[k]) - n)
    /\ records' = [records EXCEPT ![k] = SubSeq(records[k], n + 1, Len(records[k]))]
    /\ UNCHANGED granted

Records(k, n, client) ==
    /\ WithinLimit(Len(records[k]) - n)
    /\ records' = [records EXCEPT ![k] =
                     Append(SubSeq(records[k], n + 1, Len(records[k])), now)]
    /\ granted' = [granted EXCEPT ![k] = Append(@, [from |-> client, at |-> now])]

LEMMA AllowCases ==
    ASSUME TypeOK, NEW client \in Clients, Allow(client)
    PROVE  \E n \in 0..Len(records[Unknown]) :
             /\ Forgets(records[Unknown], n)
             /\ \/ Refuses(Unknown, n) /\ answer' = [from |-> client, allowed |-> FALSE]
                \/ Records(Unknown, n, client) /\ answer' = [from |-> client, allowed |-> TRUE]
             /\ now' = now
<1> DEFINE r == records[Unknown]
<1>1. r \in Seq(0..MaxTime)
  BY DEF TypeOK, Keys
<1>2. PICK n \in 0..Len(r) :
        LET kept == SubSeq(r, n + 1, Len(r))
        IN  /\ Forgets(r, n)
            /\ IF WithinLimit(Len(kept))
                 THEN /\ records' = [records EXCEPT ![Unknown] = Append(kept, now)]
                      /\ granted' = [granted EXCEPT ![Unknown] =
                                       Append(@, [from |-> client, at |-> now])]
                      /\ answer' = [from |-> client, allowed |-> TRUE]
                 ELSE /\ records' = [records EXCEPT ![Unknown] = kept]
                      /\ answer' = [from |-> client, allowed |-> FALSE]
                      /\ UNCHANGED granted
  BY DEF Allow, KeyOf, Stamp
<1>3. Len(SubSeq(r, n + 1, Len(r))) = Len(r) - n
  BY <1>1, Popped
<1>4. CASE WithinLimit(Len(r) - n)
  BY <1>2, <1>3, <1>4 DEF Records, Allow
<1>5. CASE ~WithinLimit(Len(r) - n)
  BY <1>2, <1>3, <1>5 DEF Refuses, Allow
<1> QED BY <1>4, <1>5

-----------------------------------------------------------------------------
(* The types.                                                              *)

LEMMA TypeInit == LimiterInit => TypeOK
<1> SUFFICES ASSUME LimiterInit PROVE TypeOK
  OBVIOUS
<1>1. <<>> \in Seq(0..MaxTime) /\ <<>> \in Seq(Grant)
  OBVIOUS
<1> QED BY <1>1, LimitAssumption DEF LimiterInit, TypeOK, NoAnswer, Keys

LEMMA TypeStep == TypeOK /\ [LimiterNext]_limiterVars => TypeOK'
<1> SUFFICES ASSUME TypeOK, [LimiterNext]_limiterVars PROVE TypeOK'
  OBVIOUS
<1>1. CASE Tick
  BY <1>1, LimitAssumption DEF Tick, TypeOK, NoAnswer, Keys
<1>2. ASSUME NEW client \in Clients, Allow(client) PROVE TypeOK'
  <2> DEFINE r == records[Unknown]
  <2>1. r \in Seq(0..MaxTime) /\ Unknown \in Keys /\ granted[Unknown] \in Seq(Grant)
    BY DEF TypeOK, Keys
  <2>2. PICK n \in 0..Len(r) :
          /\ \/ Refuses(Unknown, n) /\ answer' = [from |-> client, allowed |-> FALSE]
             \/ Records(Unknown, n, client) /\ answer' = [from |-> client, allowed |-> TRUE]
          /\ now' = now
    BY <1>2, AllowCases
  <2>3. SubSeq(r, n + 1, Len(r)) \in Seq(0..MaxTime)
    BY <2>1, Popped
  <2>4. Append(SubSeq(r, n + 1, Len(r)), now) \in Seq(0..MaxTime)
    BY <2>3 DEF TypeOK
  <2>5. [from |-> client, at |-> now] \in Grant
    BY DEF TypeOK, Grant
  <2>6. Append(granted[Unknown], [from |-> client, at |-> now]) \in Seq(Grant)
    BY <2>1, <2>5
  <2>7. records' \in [Keys -> Seq(0..MaxTime)]
    BY <2>2, <2>3, <2>4 DEF Refuses, Records, TypeOK
  <2>8. granted' \in [Keys -> Seq(Grant)]
    BY <2>2, <2>6 DEF Refuses, Records, TypeOK
  <2>9. answer' \in [from : Keys, allowed : BOOLEAN]
    <3>1. \/ answer' = [from |-> client, allowed |-> TRUE]
          \/ answer' = [from |-> client, allowed |-> FALSE]
      BY <2>2
    <3>2. client \in Keys
      BY DEF Keys
    <3>3. [from |-> client, allowed |-> TRUE] \in [from : Keys, allowed : BOOLEAN]
      BY <3>2
    <3>4. [from |-> client, allowed |-> FALSE] \in [from : Keys, allowed : BOOLEAN]
      BY <3>2
    <3> QED BY <3>1, <3>3, <3>4
  <2> QED BY <2>2, <2>7, <2>8, <2>9 DEF TypeOK
<1>3. CASE UNCHANGED limiterVars
  BY <1>3 DEF limiterVars, TypeOK
<1> QED BY <1>1, <1>2, <1>3 DEF LimiterNext

\* The limiter keeps its types for any limit and window.
THEOREM TypeCorrect == LimiterSpec => []TypeOK
BY TypeInit, TypeStep, PTL DEF LimiterSpec

-----------------------------------------------------------------------------
(* The limit.                                                              *)

\* The queue of a key holds its last grants; those before have left the window.
Remembers(g, r) ==
    /\ Len(r) <= MaxRequests /\ Len(r) <= Len(g)
    /\ \A i \in 1..Len(r) : r[i] = g[Len(g) - Len(r) + i].at
    /\ \A j \in 1..(Len(g) - Len(r)) : Outdated(g[j].at)

Memory == \A k \in Keys : Remembers(granted[k], records[k])

LimitInv == Memory /\ SlidingLimit

\* Popping what is outdated forgets nothing that is in the window.
LEMMA RemembersPopped ==
    ASSUME NEW g \in Seq(Grant), NEW r \in Seq(0..MaxTime), Remembers(g, r),
           NEW n \in 0..Len(r), Forgets(r, n)
    PROVE  Remembers(g, SubSeq(r, n + 1, Len(r)))
<1> DEFINE d == SubSeq(r, n + 1, Len(r))
<1>1. /\ d \in Seq(0..MaxTime) /\ Len(d) = Len(r) - n
      /\ \A i \in 1..(Len(r) - n) : d[i] = r[i + n]
  BY Popped
<1> HIDE DEF d
<1>2. Len(r) \in Nat /\ Len(g) \in Nat /\ n \in Nat /\ n <= Len(r)
      /\ MaxRequests \in Nat /\ Len(r) <= MaxRequests /\ Len(r) <= Len(g)
  BY LimitAssumption DEF Remembers
<1>3. ASSUME NEW i \in 1..Len(d) PROVE d[i] = g[Len(g) - Len(d) + i].at
  <2>1. i + n \in 1..Len(r) /\ d[i] = r[i + n]
    BY <1>1, <1>2
  <2>2. r[i + n] = g[Len(g) - Len(r) + (i + n)].at
    BY <2>1 DEF Remembers
  <2>3. Len(g) - Len(r) + (i + n) = Len(g) - Len(d) + i
    BY <1>1, <1>2
  <2> QED BY <2>1, <2>2, <2>3
<1>4. ASSUME NEW j \in 1..(Len(g) - Len(d)) PROVE Outdated(g[j].at)
  <2>1. CASE j <= Len(g) - Len(r)
    <3>1. j \in 1..(Len(g) - Len(r))
      BY <2>1, <1>1, <1>2
    <3> QED BY <3>1 DEF Remembers
  <2>2. CASE j > Len(g) - Len(r)
    <3> DEFINE i == j - (Len(g) - Len(r))
    <3>1. i \in 1..n /\ i \in 1..Len(r) /\ Len(g) - Len(r) + i = j
      BY <2>2, <1>1, <1>2
    <3>2. r[i] = g[Len(g) - Len(r) + i].at
      BY <3>1 DEF Remembers
    <3>3. Outdated(r[i])
      BY <3>1 DEF Forgets
    <3> QED BY <3>1, <3>2, <3>3
  <2> QED BY <2>1, <2>2, <1>1, <1>2
<1>5. Len(d) <= MaxRequests /\ Len(d) <= Len(g)
  BY <1>1, <1>2
<1>6. Remembers(g, d)
  BY <1>3, <1>4, <1>5 DEF Remembers
<1> QED BY <1>6 DEF d

\* Pushing the new time records the new grant.
LEMMA RemembersPushed ==
    ASSUME NEW g \in Seq(Grant), NEW r \in Seq(0..MaxTime), Remembers(g, r),
           Len(r) < MaxRequests, NEW e \in Grant
    PROVE  Remembers(Append(g, e), Append(r, e.at))
<1> DEFINE g2 == Append(g, e)
           r2 == Append(r, e.at)
<1>1. /\ Len(g2) = Len(g) + 1 /\ Len(r2) = Len(r) + 1
      /\ Len(g) \in Nat /\ Len(r) \in Nat /\ Len(r) <= Len(g)
      /\ \A i \in 1..Len(g) : g2[i] = g[i]
      /\ \A i \in 1..Len(r) : r2[i] = r[i]
      /\ g2[Len(g) + 1] = e /\ r2[Len(r) + 1] = e.at
  BY DEF Remembers
<1> HIDE DEF g2, r2
<1>2. ASSUME NEW i \in 1..Len(r2) PROVE r2[i] = g2[Len(g2) - Len(r2) + i].at
  <2>0. Len(g2) - Len(r2) = Len(g) - Len(r)
    BY <1>1
  <2>1. CASE i <= Len(r)
    <3>1. i \in 1..Len(r) /\ Len(g) - Len(r) + i \in 1..Len(g)
      BY <2>1, <1>1
    <3> QED BY <3>1, <2>0, <1>1 DEF Remembers
  <2>2. CASE i = Len(r) + 1
    <3>1. Len(g) - Len(r) + i = Len(g) + 1
      BY <2>2, <1>1
    <3> QED BY <3>1, <2>0, <2>2, <1>1
  <2> QED BY <2>1, <2>2, <1>1
<1>3. ASSUME NEW j \in 1..(Len(g2) - Len(r2)) PROVE Outdated(g2[j].at)
  <2>1. j \in 1..(Len(g) - Len(r)) /\ j \in 1..Len(g)
    BY <1>1
  <2> QED BY <2>1, <1>1 DEF Remembers
<1>4. Len(r2) <= MaxRequests /\ Len(r2) <= Len(g2)
  BY <1>1, LimitAssumption
<1> QED BY <1>2, <1>3, <1>4 DEF Remembers, g2, r2

\* The grant MaxRequests before a new one is one the queue has forgotten.
LEMMA NewGrantIsLate ==
    ASSUME NEW g \in Seq(Grant), NEW r \in Seq(0..MaxTime), Remembers(g, r),
           Len(r) < MaxRequests,
           NEW i \in 1..Len(g), i + MaxRequests = Len(g) + 1
    PROVE  Outdated(g[i].at)
<1>1. i \in 1..(Len(g) - Len(r))
  BY LimitAssumption
<1> QED BY <1>1 DEF Remembers

LEMMA LimitInit == LimiterInit => LimitInv
<1> SUFFICES ASSUME LimiterInit PROVE LimitInv
  OBVIOUS
<1>1. \A k \in Keys : granted[k] = <<>> /\ records[k] = <<>>
  BY DEF LimiterInit
<1>2. Len(<<>>) = 0 /\ 0 <= MaxRequests /\ 1..0 = {} /\ 1..(0 - 0) = {}
      /\ 1..(0 - MaxRequests) = {}
  BY LimitAssumption
<1>3. Remembers(<<>>, <<>>)
  BY <1>2 DEF Remembers
<1>4. Memory
  BY <1>1, <1>3 DEF Memory
<1>5. SlidingLimit
  BY <1>1, <1>2 DEF SlidingLimit
<1> QED BY <1>4, <1>5 DEF LimitInv

LEMMA LimitStep == TypeOK /\ LimitInv /\ [LimiterNext]_limiterVars => LimitInv'
<1> SUFFICES ASSUME TypeOK, LimitInv, [LimiterNext]_limiterVars PROVE LimitInv'
  OBVIOUS
<1>0. \A k \in Keys : granted[k] \in Seq(Grant) /\ records[k] \in Seq(0..MaxTime)
  BY DEF TypeOK
<1>1. CASE Tick
  <2>1. \A k \in Keys : \A j \in 1..Len(granted[k]) : granted[k][j].at \in Int
    <3>1. ASSUME NEW k \in Keys, NEW j \in 1..Len(granted[k])
          PROVE  granted[k][j].at \in Int
      <4>1. granted[k][j] \in Grant
        BY <1>0, ElementOfSeq
      <4> QED BY <4>1, LimitAssumption DEF Grant
    <3> QED BY <3>1
  <2>2. ASSUME NEW k \in Keys PROVE Remembers(granted[k], records[k])'
    <3>1. ASSUME NEW j \in 1..(Len(granted[k]) - Len(records[k]))
          PROVE  granted[k][j].at + Window < now + 1
      <4>1. j \in 1..Len(granted[k]) /\ Outdated(granted[k][j].at)
        <5>1. Len(granted[k]) \in Nat /\ Len(records[k]) \in Nat
          BY <1>0
        <5>2. Remembers(granted[k], records[k])
          BY DEF LimitInv, Memory
        <5>3. j \in 1..Len(granted[k])
          BY <5>1
        <5> QED BY <5>2, <5>3 DEF Remembers
      <4> QED BY <4>1, <2>1, LimitAssumption DEF Outdated, TypeOK
    <3>2. Remembers(granted[k], records[k])
      BY DEF LimitInv, Memory
    <3>3. granted' = granted /\ records' = records /\ now' = now + 1
      BY <1>1 DEF Tick
    <3> QED BY <3>1, <3>2, <3>3 DEF Remembers, Outdated
  <2>3. SlidingLimit'
    BY <1>1 DEF Tick, LimitInv, SlidingLimit
  <2> QED BY <2>2, <2>3 DEF LimitInv, Memory
<1>2. ASSUME NEW client \in Clients, Allow(client) PROVE LimitInv'
  <2> DEFINE k == Unknown
             r == records[k]
             g == granted[k]
             e == [from |-> client, at |-> now]
  <2>1. k \in Keys /\ g \in Seq(Grant) /\ r \in Seq(0..MaxTime) /\ Remembers(g, r)
        /\ e \in Grant /\ e.at = now
    BY <1>0 DEF LimitInv, Memory, Keys, Grant, TypeOK
  <2>2. PICK n \in 0..Len(r) :
          Forgets(r, n) /\ now' = now /\ (Refuses(k, n) \/ Records(k, n, client))
    BY <1>2, AllowCases
  <2> DEFINE d == SubSeq(r, n + 1, Len(r))
  <2>3. d \in Seq(0..MaxTime) /\ Len(d) = Len(r) - n /\ Remembers(g, d)
    <3>1. d \in Seq(0..MaxTime) /\ Len(d) = Len(r) - n
      BY <2>1, Popped
    <3>2. Remembers(g, d)
      BY <2>1, <2>2, RemembersPopped
    <3> QED BY <3>1, <3>2
  <2>4. ASSUME NEW x, NEW y PROVE Remembers(x, y)' <=> Remembers(x, y)
    BY <2>2 DEF Remembers, Outdated
  <2>5. CASE Refuses(k, n)
    <3>1. granted' = granted /\ records'[k] = d
          /\ \A l \in Keys : l # k => records'[l] = records[l]
      BY <2>5, <2>1 DEF Refuses, TypeOK
    <3> HIDE DEF d, k, r, g
    <3>2. ASSUME NEW l \in Keys PROVE Remembers(granted'[l], records'[l])
      <4>1. CASE l = k
        BY <4>1, <3>1, <2>3 DEF g
      <4>2. CASE l # k
        BY <4>2, <3>1 DEF LimitInv, Memory
      <4> QED BY <4>1, <4>2
    <3>3. SlidingLimit'
      BY <3>1 DEF LimitInv, SlidingLimit
    <3> QED BY <3>2, <3>3, <2>2 DEF LimitInv, Memory, Remembers, Outdated
  <2>6. CASE Records(k, n, client)
    <3>1. /\ granted'[k] = Append(g, e) /\ records'[k] = Append(d, e.at)
          /\ \A l \in Keys : l # k => records'[l] = records[l] /\ granted'[l] = granted[l]
          /\ Len(d) < MaxRequests
      BY <2>6, <2>1, <2>3 DEF Records, TypeOK, WithinLimit
    <3> HIDE DEF d, k, r, g, e
    <3>2. ASSUME NEW l \in Keys PROVE Remembers(granted'[l], records'[l])
      <4>1. CASE l = k
        BY <4>1, <3>1, <2>1, <2>3, RemembersPushed
      <4>2. CASE l # k
        BY <4>2, <3>1 DEF LimitInv, Memory
      <4> QED BY <4>1, <4>2
    <3>3. ASSUME NEW l \in Keys, NEW i \in 1..(Len(granted'[l]) - MaxRequests)
          PROVE  granted'[l][i].at + Window < granted'[l][i + MaxRequests].at
      <4>1. CASE l # k
        BY <4>1, <3>1 DEF LimitInv, SlidingLimit
      <4>2. CASE l = k
        <5> DEFINE h == Append(g, e)
        <5>1. /\ Len(h) = Len(g) + 1 /\ h[Len(g) + 1] = e /\ Len(g) \in Nat
              /\ \A j \in 1..Len(g) : h[j] = g[j]
          BY <2>1
        <5>2. granted'[l] = h /\ i \in 1..(Len(h) - MaxRequests)
          BY <4>2, <3>1
        <5> HIDE DEF h
        <5>3. i \in 1..Len(g) /\ h[i] = g[i]
          BY <5>1, <5>2, LimitAssumption
        <5>4. CASE i + MaxRequests = Len(g) + 1
          <6>1. Outdated(g[i].at)
            BY <5>3, <5>4, <3>1, <2>1, <2>3, NewGrantIsLate
          <6> QED BY <6>1, <5>1, <5>2, <5>3, <5>4, <2>1 DEF Outdated
        <5>5. CASE i + MaxRequests # Len(g) + 1
          <6>1. i \in 1..(Len(g) - MaxRequests) /\ i + MaxRequests \in 1..Len(g)
            BY <5>1, <5>2, <5>5, LimitAssumption
          <6>2. g[i].at + Window < g[i + MaxRequests].at
            BY <6>1, <2>1 DEF LimitInv, SlidingLimit, g
          <6> QED BY <6>1, <6>2, <5>1, <5>2, <5>3
        <5> QED BY <5>4, <5>5
      <4> QED BY <4>1, <4>2
    <3> QED BY <3>2, <3>3, <2>2 DEF LimitInv, Memory, Remembers, Outdated, SlidingLimit
  <2> QED BY <2>2, <2>5, <2>6
<1>3. CASE UNCHANGED limiterVars
  BY <1>3 DEF limiterVars, LimitInv, Memory, Remembers, Outdated, SlidingLimit
<1> QED BY <1>1, <1>2, <1>3 DEF LimiterNext

LEMMA LimitAlways == LimiterSpec => [](TypeOK /\ LimitInv)
<1>1. TypeOK /\ LimitInv /\ [LimiterNext]_limiterVars => (TypeOK /\ LimitInv)'
  BY TypeStep, LimitStep
<1> QED BY <1>1, TypeInit, LimitInit, PTL DEF LimiterSpec

\* For any limit, any window and any arrival of requests, between a request
\* that was allowed and the MaxRequests-th allowed after it more than the
\* window has passed.
THEOREM LimitHolds == LimiterSpec => []SlidingLimit
<1>1. LimitInv => SlidingLimit
  BY DEF LimitInv
<1> QED BY <1>1, LimitAlways, PTL

-----------------------------------------------------------------------------
(* The refusals.                                                           *)

LEMMA RefusalStep ==
    ASSUME TypeOK, LimitInv, RefusalJustified, [LimiterNext]_limiterVars
    PROVE  RefusalJustified'
<1>1. CASE Tick
  BY <1>1 DEF Tick, NoAnswer, RefusalJustified
<1>2. ASSUME NEW client \in Clients, Allow(client) PROVE RefusalJustified'
  <2> DEFINE r == records[Unknown]
             g == granted[Unknown]
  <2>1. g \in Seq(Grant) /\ r \in Seq(0..MaxTime) /\ Remembers(g, r)
    BY DEF TypeOK, LimitInv, Memory, Keys
  <2>2. PICK n \in 0..Len(r) :
          /\ Forgets(r, n) /\ now' = now
          /\ \/ Refuses(Unknown, n) /\ answer' = [from |-> client, allowed |-> FALSE]
             \/ Records(Unknown, n, client) /\ answer' = [from |-> client, allowed |-> TRUE]
    BY <1>2, AllowCases
  <2>3. CASE answer'.allowed
    BY <2>3 DEF RefusalJustified
  <2>4. CASE Refuses(Unknown, n)
    <3>1. /\ ~(Len(r) - n < MaxRequests) /\ granted' = granted
          /\ Len(r) \in Nat /\ Len(g) \in Nat /\ n \in Nat
          /\ Len(r) <= MaxRequests /\ Len(r) <= Len(g)
      BY <2>1, <2>4 DEF Refuses, WithinLimit, Remembers
    <3>2. n = 0 /\ Len(r) = MaxRequests
      BY <3>1, LimitAssumption
    <3>3. ~Outdated(r[1]) /\ 1 \in 1..Len(r)
      BY <2>2, <3>1, <3>2, LimitAssumption DEF Forgets
    <3>4. r[1] = g[Len(g) - MaxRequests + 1].at
      BY <2>1, <3>2, <3>3 DEF Remembers
    <3>5. ~(g[Len(g) - MaxRequests + 1].at + Window < now') /\ Len(g) >= MaxRequests
      BY <3>1, <3>2, <3>3, <3>4, <2>2 DEF Outdated
    <3> QED BY <3>1, <3>5 DEF RefusalJustified, KeyOf, Outdated
  <2> QED BY <2>2, <2>3, <2>4
<1>3. CASE UNCHANGED limiterVars
  BY <1>3 DEF limiterVars, RefusalJustified, Outdated, KeyOf
<1> QED BY <1>1, <1>2, <1>3 DEF LimiterNext

\* A refusal always has MaxRequests allowed requests in the window behind it:
\* asking again while refused does not prolong the wait.
THEOREM RefusalsAreJustified == LimiterSpec => []RefusalJustified
<1>1. LimiterInit => RefusalJustified
  BY DEF LimiterInit, NoAnswer, RefusalJustified
<1>2. TypeOK /\ LimitInv /\ RefusalJustified /\ [LimiterNext]_limiterVars => RefusalJustified'
  BY RefusalStep
<1> QED BY <1>1, <1>2, LimitAlways, PTL DEF LimiterSpec

-----------------------------------------------------------------------------
(* The lookups of users.                                                   *)

\* Where a lookup is, and what it holds there.
Places ==
    /\ doing \in {"idle", "findByUsername", "findById"}
    /\ doing = "idle" => step = "none"
    /\ doing = "findByUsername" =>
         step \in {"construct", "prepare", "execute", "fetch", "read", "free"}
    /\ doing = "findById" => step \in {"query", "next", "free"}
    /\ doing # "findByUsername" => held = {}
    /\ results \in {0, 1}

\* The answer is missing before the row is read, and right after it.
Right ==
    /\ stored \in [People -> Nat]
    /\ \A n \in People : stored[n] <= BufferSize
    /\ doing # "idle" => wanted \in People
    /\ step \notin {"none", "free"} => found = NoRow
    /\ step \in {"read", "query", "next"} => failed = FALSE
    /\ step = "read" => row = [name |-> wanted, email |-> stored[wanted]] /\ stored[wanted] > 0
    /\ step \in {"none", "free"} /\ wanted # Nobody =>
         \/ found = [name |-> wanted, email |-> stored[wanted]] /\ stored[wanted] > 0
         \/ found = NoRow /\ (failed = TRUE \/ stored[wanted] = 0)

-----------------------------------------------------------------------------
LEMMA PlacesStep == Places /\ [LookupNext]_lookupVars => Places'
<1> SUFFICES ASSUME Places, [LookupNext]_lookupVars PROVE Places'
  OBVIOUS
<1> USE DEF Places, Then
<1>1. ASSUME NEW n \in People, Insert(n) PROVE Places'
  BY <1>1 DEF Insert
<1>2. ASSUME NEW n \in People, NEW op \in {"findByUsername", "findById"}, Begin(op, n)
      PROVE  Places'
  BY <1>2 DEF Begin
<1>3. CASE Construct
  BY <1>3 DEF Construct
<1>4. CASE Prepare
  BY <1>4 DEF Prepare
<1>5. CASE Execute
  BY <1>5 DEF Execute
<1>6. CASE Fetch
  BY <1>6 DEF Fetch
<1>7. CASE Read
  BY <1>7 DEF Read
<1>8. CASE Return
  BY <1>8 DEF Return, FreeStmt
<1>9. CASE Query
  BY <1>9 DEF Query, Unfreed
<1>10. CASE FetchRow
  BY <1>10 DEF FetchRow
<1>11. CASE UNCHANGED lookupVars
  BY <1>11 DEF lookupVars
<1> QED
  BY <1>1, <1>2, <1>3, <1>4, <1>5, <1>6, <1>7, <1>8, <1>9, <1>10, <1>11 DEF LookupNext

\* A connection comes back to the pool with no statement open and no more than
\* the result of its last query: for any users.
THEOREM GivenBackAlways == LookupSpec => []GivenBackClean
<1>1. LookupInit => Places
  BY DEF LookupInit, Places
<1>2. Places /\ [LookupNext]_lookupVars => Places'
  BY PlacesStep
<1>3. Places => GivenBackClean
  BY DEF Places, GivenBackClean
<1> QED BY <1>1, <1>2, <1>3, PTL DEF LookupSpec

-----------------------------------------------------------------------------
LEMMA RightStep ==
    ASSUME EmailSizes \subseteq 1..BufferSize
    PROVE  Places /\ Right /\ [LookupNext]_lookupVars => Right'
<1> SUFFICES ASSUME Places, Right, [LookupNext]_lookupVars PROVE Right'
  OBVIOUS
<1> USE DEF Places, Right, Then, Fine, Fault, NoRow, BufferSize
<1>1. ASSUME NEW n \in People, Insert(n) PROVE Right'
  BY <1>1 DEF Insert
<1>2. ASSUME NEW n \in People, NEW op \in {"findByUsername", "findById"}, Begin(op, n)
      PROVE  Right'
  BY <1>2 DEF Begin
<1>3. CASE Construct
  BY <1>3 DEF Construct
<1>4. CASE Prepare
  BY <1>4 DEF Prepare
<1>5. CASE Execute
  BY <1>5 DEF Execute
<1>6. CASE Fetch
  BY <1>6 DEF Fetch
<1>7. CASE Read
  BY <1>7 DEF Read
<1>8. CASE Return
  BY <1>8 DEF Return, FreeStmt
<1>9. CASE Query
  BY <1>9 DEF Query, Unfreed
<1>10. CASE FetchRow
  BY <1>10 DEF FetchRow
<1>11. CASE UNCHANGED lookupVars
  BY <1>11 DEF lookupVars
<1> QED
  BY <1>1, <1>2, <1>3, <1>4, <1>5, <1>6, <1>7, <1>8, <1>9, <1>10, <1>11 DEF LookupNext

\* A lookup finds the whole record of a user who exists, or the database did
\* not answer: for any users and any addresses that a buffer holds.
THEOREM RecordAlwaysWhole ==
    ASSUME EmailSizes \subseteq 1..BufferSize
    PROVE  LookupSpec => []RecordWhole
<1>1. LookupInit => Places /\ Right
  BY DEF LookupInit, Places, Right, BufferSize
<1>2. Places /\ Right /\ [LookupNext]_lookupVars => (Places /\ Right)'
  BY PlacesStep, RightStep
<1>3. Places /\ Right => RecordWhole
  BY DEF Places, Right, RecordWhole
<1> QED BY <1>1, <1>2, <1>3, PTL DEF LookupSpec
=============================================================================
