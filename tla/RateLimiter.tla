---------------------------- MODULE RateLimiter ----------------------------
(***************************************************************************)
(* The sliding window of src/src/common/RateLimiter.h, as handleRegister   *)
(* and handleLogin of src/src/main.cpp use it.  Both run in the request    *)
(* loop, so a call of allow() is one step.                                 *)
(***************************************************************************)
EXTENDS Integers, Sequences, FiniteSets

CONSTANTS
    Clients,      \* the addresses requests come from
    MaxRequests,  \* max_requests_
    Window,       \* window_sec_
    MaxTime       \* bound: the clock stops here

Unknown == "unknown"

ASSUME LimitAssumption ==
    /\ MaxRequests \in Nat \ {0} /\ Window \in Nat /\ MaxTime \in Nat
    /\ Unknown \notin Clients

Keys == Clients \cup {Unknown}

NoAnswer == [from |-> Unknown, allowed |-> TRUE]

VARIABLES
    now,      \* the steady clock
    records,  \* records_: per key, the times of the requests, oldest first
    granted,  \* history: per key, what was allowed, with its time and origin
    answer    \* the last answer, until the clock moves

limiterVars == <<now, records, granted, answer>>

LimiterInit ==
    /\ now = 0
    /\ records = [k \in Keys |-> <<>>]
    /\ granted = [k \in Keys |-> <<>>]
    /\ answer = NoAnswer

-----------------------------------------------------------------------------
\* The key under which a handler asks: the headers X-Forwarded-For and
\* Remote-Addr, neither of which the FastCGI front end copies to the request.
KeyOf(client) == Unknown

\* Mutants: a request at the edge of the window is forgotten; nothing is
\* forgotten.
OutdatedEdge(time) == time + Window <= now
ForgetsNone(s, n) == n = 0

Outdated(time) == time + Window < now

WithinLimit(n) == n < MaxRequests

Stamp == now

\* The loop pops n entries from the front: the outdated ones, up to the first
\* that is not.
Forgets(s, n) ==
    /\ \A i \in 1..n : Outdated(s[i])
    /\ n < Len(s) => ~Outdated(s[n + 1])

\* allow(): forget what has left the window, then refuse or record.
Allow(client) ==
    LET k == KeyOf(client)
    IN  \E n \in 0..Len(records[k]) :
          LET kept == SubSeq(records[k], n + 1, Len(records[k]))
          IN  /\ Forgets(records[k], n)
              /\ IF WithinLimit(Len(kept))
                   THEN /\ records' = [records EXCEPT ![k] = Append(kept, Stamp)]
                        /\ granted' = [granted EXCEPT ![k] =
                                         Append(@, [from |-> client, at |-> now])]
                        /\ answer' = [from |-> client, allowed |-> TRUE]
                   ELSE /\ records' = [records EXCEPT ![k] = kept]
                        /\ answer' = [from |-> client, allowed |-> FALSE]
                        /\ UNCHANGED granted
    /\ UNCHANGED now

Tick ==
    /\ now < MaxTime /\ now' = now + 1
    /\ answer' = NoAnswer
    /\ UNCHANGED <<records, granted>>

LimiterNext == Tick \/ \E client \in Clients : Allow(client)

LimiterSpec == LimiterInit /\ [][LimiterNext]_limiterVars

-----------------------------------------------------------------------------
(* Properties.                                                             *)

Grant == [from : Clients, at : 0..MaxTime]

\* The shape of the state; a record is a time that has passed.
TypeOK ==
    /\ now \in 0..MaxTime
    /\ records \in [Keys -> Seq(0..MaxTime)]
    /\ granted \in [Keys -> Seq(Grant)]
    /\ answer \in [from : Keys, allowed : BOOLEAN]

\* Whatever window is looked at, at most MaxRequests of the requests allowed
\* under a key fall into it: between a request and the MaxRequests-th after it
\* more than the window has passed.
SlidingLimit ==
    \A k \in Keys : \A i \in 1..(Len(granted[k]) - MaxRequests) :
        granted[k][i].at + Window < granted[k][i + MaxRequests].at

\* A request is refused only while MaxRequests allowed ones are in the window
\* that ends now: refused requests do not prolong the wait.
RefusalJustified ==
    ~answer.allowed =>
        LET g == granted[KeyOf(answer.from)]
        IN  /\ Len(g) >= MaxRequests
            /\ ~Outdated(g[Len(g) - MaxRequests + 1].at)
=============================================================================
