----------------------------- MODULE MCAccounts -----------------------------
(* The rate limiter of the logins, the sessions they open and the lookups   *)
(* of users side by side for TLC: a behaviour is one of the three.          *)
EXTENDS Sessions, RateLimiter, Statement, TLC

VARIABLE part   \* the part this behaviour is about

AccountsInit ==
    /\ part \in {"limit", "sessions", "lookups"}
    /\ Init /\ LimiterInit /\ LookupInit

AccountsNext ==
    \/ part = "limit" /\ LimiterNext /\ UNCHANGED <<part, vars, lookupVars>>
    \/ part = "sessions" /\ Next /\ UNCHANGED <<part, limiterVars, lookupVars>>
    \/ part = "lookups" /\ LookupNext /\ UNCHANGED <<part, vars, limiterVars>>

AccountsSpec == AccountsInit /\ [][AccountsNext]_<<part, vars, limiterVars, lookupVars>>

Symmetry == Permutations(Tokens) \cup Permutations(Clients)
=============================================================================
