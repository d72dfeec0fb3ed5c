--------------------------- MODULE ConnectionPool ---------------------------
(***************************************************************************)
(* The MySQL connection pool of src/src/db/ConnectionPool.cpp.             *)
(*                                                                         *)
(* One queue of idle connections, one mutex and one condition variable are *)
(* shared by the threads that call getConnection (Clients), the producer   *)
(* thread that keeps at least MinSize connections idle, the recycler       *)
(* thread that destroys connections idle for too long, and the main thread *)
(* that initialises and shuts the pool down.  A critical section is one    *)
(* step, except where another thread can act inside it: running_ is an     *)
(* atomic that shutdown() writes WITHOUT the mutex, so it may change       *)
(* between the evaluation of a wait predicate and the wait itself, and     *)
(* between two iterations of a loop that holds the mutex.                  *)
(***************************************************************************)
EXTENDS Naturals, Sequences, FiniteSets, Functions

CONSTANTS
    Clients,        \* the threads that borrow connections
    Conns,          \* the addresses a MysqlConn object may have
    MinSize,        \* pool.min_size
    MaxSize,        \* pool.max_size
    MaxDbRestarts   \* bound: how often the MySQL server drops every session

Producer == "producer"
Recycler == "recycler"
Main     == "main"
NoThread == "no thread"
NoConn   == "no connection"

ASSUME SizeAssumption ==
    /\ MinSize \in Nat \ {0}
    /\ MaxSize \in Nat
    /\ MinSize <= MaxSize

ASSUME NameAssumption ==
    /\ {Producer, Recycler, Main, NoThread} \cap Clients = {}
    /\ NoConn \notin Conns

ASSUME BoundAssumption == MaxDbRestarts \in Nat /\ IsFiniteSet(Clients)

Waiters == Clients \cup {Producer}
Threads == Waiters \cup {Recycler, Main}

VARIABLES
    available,    \* available_: the queue of idle connections, front first
    active,       \* active_count_
    running,      \* running_
    initialized,  \* initialized_
    mutex,        \* the thread that holds mutex_ across several steps
    pc,           \* where each thread is
    late,         \* per waiter: its wait_for deadline has passed
    held,         \* per client: the connection its guard owns
    objects,      \* the MysqlConn objects that are allocated
    stale,        \* idle connections whose getAliveTime() >= idle_timeout
    dead,         \* connections whose session the MySQL server has closed
    dbRestarts    \* how often that has happened

vars == <<available, active, running, initialized, mutex, pc, late, held,
          objects, stale, dead, dbRestarts>>

poolVars == <<available, active, objects, stale, dead>>

ClientPC   == {"out", "get", "blocking", "waiting", "woken", "holding"}
ProducerPC == {"unborn", "loop", "get", "blocking", "waiting", "woken",
               "fill", "connecting", "exited"}
RecyclerPC == {"unborn", "loop", "sleeping", "exited"}
MainPC     == {"init", "up", "notify", "joinProducer", "joinRecycler",
               "drain", "down", "failed"}

Init ==
    /\ available = <<>> /\ active = 0
    /\ running = TRUE  /\ initialized = FALSE   \* inside init(), mutex taken
    /\ mutex = Main
    /\ pc = [t \in Threads |-> CASE t \in Clients -> "out"
                                 [] t = Main -> "init"
                                 [] OTHER    -> "unborn"]
    /\ late = [w \in Waiters |-> FALSE]
    /\ held = [c \in Clients |-> NoConn]
    /\ objects = {} /\ stale = {} /\ dead = {}
    /\ dbRestarts = 0

-----------------------------------------------------------------------------
(* The condition variable and the mutex.                                   *)

\* The thread locations that notify_one may leave behind, starting from f.
NotifyOne(f) ==
    LET asleep == {w \in Waiters : f[w] = "waiting"}
    IN  IF asleep = {} THEN {f}
        ELSE {[f EXCEPT ![w] = "woken"] : w \in asleep}

NotifyAll(f) ==
    [t \in Threads |-> IF t \in Waiters /\ f[t] = "waiting" THEN "woken" ELSE f[t]]

MutexFree == mutex = NoThread

\* The predicate each waiter passes to wait_for.
WaitOver(w) ==
    \/ ~running
    \/ IF w = Producer THEN Len(available) < MinSize ELSE available # <<>>

AtWait(w) == pc[w] \in {"get", "woken"}

\* The predicate is false and the deadline has not passed: about to block,
\* with the mutex still held.
PrepareWait(w) ==
    /\ AtWait(w) /\ MutexFree
    /\ ~WaitOver(w) /\ ~late[w]
    /\ mutex' = w
    /\ pc' = [pc EXCEPT ![w] = "blocking"]
    /\ UNCHANGED <<poolVars, running, initialized, late, held, dbRestarts>>

Block(w) ==
    /\ pc[w] = "blocking"
    /\ mutex' = NoThread
    /\ pc' = [pc EXCEPT ![w] = "waiting"]
    /\ UNCHANGED <<poolVars, running, initialized, late, held, dbRestarts>>

\* Mutant: wait instead of wait_for.
DeadlineNone(w) == FALSE

\* The wait deadline passes, whether or not the waiter is blocked then.
Deadline(w) ==
    /\ pc[w] \in {"get", "blocking", "waiting", "woken"}
    /\ ~late[w]
    /\ late' = [late EXCEPT ![w] = TRUE]
    /\ UNCHANGED <<poolVars, running, initialized, mutex, pc, held, dbRestarts>>

\* A blocked waiter returns without a notification: its deadline has passed,
\* or the wake-up is spurious.
Wake(w) ==
    /\ pc[w] = "waiting"
    /\ pc' = [pc EXCEPT ![w] = "woken"]
    /\ UNCHANGED <<poolVars, running, initialized, mutex, late, held, dbRestarts>>

-----------------------------------------------------------------------------
(* addConnectionLocked: a fresh object, connected, queued and announced.   *)

AddConnection(f) ==
    \E k \in Conns \ objects :
        /\ objects' = objects \cup {k}
        /\ available' = Append(available, k)
        /\ pc' \in NotifyOne(f)
        /\ UNCHANGED <<active, stale, dead>>

\* Mutant: the queue is emptied, the objects in it are not deleted.
DrainAvailableLeaks == available' = <<>> /\ UNCHANGED <<objects, stale, dead>>

\* Destroying every idle connection.
DrainAvailable ==
    /\ available' = <<>>
    /\ objects' = objects \ Range(available)
    /\ stale' = stale \ Range(available)
    /\ dead' = dead \ Range(available)

-----------------------------------------------------------------------------
(* init(): under the mutex, MinSize connections or none.                   *)

InitConnect ==
    /\ pc[Main] = "init" /\ Len(available) < MinSize
    /\ AddConnection(pc)
    /\ UNCHANGED <<running, initialized, mutex, late, held, dbRestarts>>

InitFail ==
    /\ pc[Main] = "init" /\ Len(available) < MinSize
    /\ running' = FALSE
    /\ DrainAvailable
    /\ mutex' = NoThread
    /\ pc' = [pc EXCEPT ![Main] = "failed"]
    /\ UNCHANGED <<active, initialized, late, held, dbRestarts>>

InitDone ==
    /\ pc[Main] = "init" /\ Len(available) >= MinSize
    /\ initialized' = TRUE
    /\ mutex' = NoThread
    /\ pc' = [pc EXCEPT ![Main] = "up", ![Producer] = "loop", ![Recycler] = "loop"]
    /\ UNCHANGED <<poolVars, running, late, held, dbRestarts>>

-----------------------------------------------------------------------------
(* getConnection() and the deleter of the guard it returns.                *)

Call(c) ==
    /\ pc[c] = "out" /\ pc[Main] \notin {"init", "failed"}
    /\ pc' = [pc EXCEPT ![c] = "get"]
    /\ late' = [late EXCEPT ![c] = FALSE]
    /\ UNCHANGED <<poolVars, running, initialized, mutex, held, dbRestarts>>

\* Mutant: the front is read and not popped.
PoppedNot == available

Popped == Tail(available)

Take(c) ==
    /\ AtWait(c) /\ MutexFree
    /\ running /\ available # <<>>
    /\ held' = [held EXCEPT ![c] = Head(available)]
    /\ available' = Popped
    /\ stale' = stale \ {Head(available)}
    /\ active' = active + 1
    /\ pc' = [pc EXCEPT ![c] = "holding"]
    /\ UNCHANGED <<running, initialized, mutex, late, objects, dead, dbRestarts>>

\* An empty guard: the pool is stopping, or the deadline passed with no
\* idle connection.
GiveUp(c) ==
    /\ AtWait(c) /\ MutexFree
    /\ ~running \/ (available = <<>> /\ late[c])
    /\ pc' = [pc EXCEPT ![c] = "out"]
    /\ UNCHANGED <<poolVars, running, initialized, mutex, late, held, dbRestarts>>

\* Mutants: one connection too many; a pool that has stopped.
RequeueOneMore == running /\ Len(available) <= MaxSize
RequeueStopped == Len(available) < MaxSize

Requeue == running /\ Len(available) < MaxSize

\* Mutant: the count is not taken back.
DecrementedNot == active

Decremented == IF active > 0 THEN active - 1 ELSE active

\* The deleter requeues the connection, or destroys it when the pool is
\* stopping or the queue is full.
Return(c) ==
    /\ pc[c] = "holding" /\ MutexFree
    /\ IF Requeue
         THEN /\ available' = Append(available, held[c])
              /\ UNCHANGED <<objects, dead>>
         ELSE /\ objects' = objects \ {held[c]}
              /\ dead' = dead \ {held[c]}
              /\ UNCHANGED available
    /\ active' = Decremented
    /\ held' = [held EXCEPT ![c] = NoConn]
    /\ pc' \in NotifyOne([pc EXCEPT ![c] = "out"])
    /\ UNCHANGED <<running, initialized, mutex, late, stale, dbRestarts>>

-----------------------------------------------------------------------------
(* producerLoop().                                                         *)

ProducerLoop ==
    /\ pc[Producer] = "loop"
    /\ pc' = [pc EXCEPT ![Producer] = IF running THEN "get" ELSE "exited"]
    /\ late' = [late EXCEPT ![Producer] = FALSE]
    /\ UNCHANGED <<poolVars, running, initialized, mutex, held, dbRestarts>>

\* wait_for has returned: leave the loop, or start filling with the mutex held.
ProducerAwake ==
    /\ AtWait(Producer) /\ MutexFree
    /\ WaitOver(Producer) \/ late[Producer]
    /\ IF running
         THEN /\ pc' = [pc EXCEPT ![Producer] = "fill"]
              /\ mutex' = Producer
         ELSE /\ pc' = [pc EXCEPT ![Producer] = "exited"]
              /\ UNCHANGED mutex
    /\ UNCHANGED <<poolVars, running, initialized, late, held, dbRestarts>>

\* The fill loop goes on: a connect starts, and nothing stops it from here.
ProducerConnect ==
    /\ pc[Producer] = "fill"
    /\ running /\ Len(available) < MinSize
    /\ pc' = [pc EXCEPT ![Producer] = "connecting"]
    /\ UNCHANGED <<poolVars, running, initialized, mutex, late, held, dbRestarts>>

\* The connect succeeds, after a stop request too.
ProducerAdd ==
    /\ pc[Producer] = "connecting"
    /\ AddConnection([pc EXCEPT ![Producer] = "fill"])
    /\ UNCHANGED <<running, initialized, mutex, late, held, dbRestarts>>

\* The fill loop ends: enough idle connections, a stop request, or a connect
\* that failed.
ProducerRelease ==
    /\ \/ pc[Producer] = "fill" /\ (~running \/ Len(available) >= MinSize)
       \/ pc[Producer] = "connecting"
    /\ mutex' = NoThread
    /\ pc' = [pc EXCEPT ![Producer] = "loop"]
    /\ UNCHANGED <<poolVars, running, initialized, late, held, dbRestarts>>

-----------------------------------------------------------------------------
(* recyclerLoop().                                                         *)

\* Mutant: the loop does not look at running_.
RecyclerLoopForever ==
    /\ pc[Recycler] = "loop"
    /\ pc' = [pc EXCEPT ![Recycler] = "sleeping"]
    /\ UNCHANGED <<poolVars, running, initialized, mutex, late, held, dbRestarts>>

RecyclerLoop ==
    /\ pc[Recycler] = "loop"
    /\ pc' = [pc EXCEPT ![Recycler] = IF running THEN "sleeping" ELSE "exited"]
    /\ UNCHANGED <<poolVars, running, initialized, mutex, late, held, dbRestarts>>

\* Mutant: min_size is forgotten.
RecyclableAll(n) == \A i \in 1..n : available[i] \in stale

\* How many connections the recycler pops: from the front, while more than
\* MinSize are idle and the front one has been idle long enough.
Recyclable(n) ==
    /\ \A i \in 1..n : available[i] \in stale
    /\ n > 0 => Len(available) - n >= MinSize

Recycle ==
    /\ pc[Recycler] = "sleeping" /\ MutexFree
    /\ \E n \in 0..Len(available) :
         /\ Recyclable(n)
         /\ n < Len(available) => ~Recyclable(n + 1)
         /\ LET gone == {available[i] : i \in 1..n}
            IN  /\ available' = SubSeq(available, n + 1, Len(available))
                /\ objects' = objects \ gone
                /\ stale' = stale \ gone
                /\ dead' = dead \ gone
    /\ pc' = [pc EXCEPT ![Recycler] = "loop"]
    /\ UNCHANGED <<active, running, initialized, mutex, late, held, dbRestarts>>

\* Time passes.  refreshAliveTime() runs just before every push, so the queue
\* is sorted by age and a prefix of it reaches idle_timeout first.
Age ==
    /\ \E n \in 1..Len(available) :
         LET aged == {available[i] : i \in 1..n}
         IN  ~(aged \subseteq stale) /\ stale' = stale \cup aged
    /\ UNCHANGED <<available, active, running, initialized, mutex, pc, late,
                   held, objects, dead, dbRestarts>>

\* The MySQL server restarts or times the sessions out: every open one is
\* closed from its side.  No code of the pool notices.
DbRestart ==
    /\ dbRestarts < MaxDbRestarts
    /\ objects \ dead # {}
    /\ dead' = objects
    /\ dbRestarts' = dbRestarts + 1
    /\ UNCHANGED <<available, active, running, initialized, mutex, pc, late,
                   held, objects, stale>>

-----------------------------------------------------------------------------
(* shutdown(), called by the destructor of the static pool.                *)

Shutdown ==
    /\ pc[Main] = "up"
    /\ running' = FALSE
    /\ pc' = [pc EXCEPT ![Main] = "notify"]
    /\ UNCHANGED <<poolVars, initialized, mutex, late, held, dbRestarts>>

ShutdownNotify ==
    /\ pc[Main] = "notify"
    /\ pc' = NotifyAll([pc EXCEPT ![Main] = "joinProducer"])
    /\ UNCHANGED <<poolVars, running, initialized, mutex, late, held, dbRestarts>>

JoinProducer ==
    /\ pc[Main] = "joinProducer" /\ pc[Producer] = "exited"
    /\ pc' = [pc EXCEPT ![Main] = "joinRecycler"]
    /\ UNCHANGED <<poolVars, running, initialized, mutex, late, held, dbRestarts>>

JoinRecycler ==
    /\ pc[Main] = "joinRecycler" /\ pc[Recycler] = "exited"
    /\ pc' = [pc EXCEPT ![Main] = "drain"]
    /\ UNCHANGED <<poolVars, running, initialized, mutex, late, held, dbRestarts>>

Drain ==
    /\ pc[Main] = "drain" /\ MutexFree
    /\ DrainAvailable
    /\ initialized' = FALSE
    /\ pc' = [pc EXCEPT ![Main] = "down"]
    /\ UNCHANGED <<active, running, mutex, late, held, dbRestarts>>

-----------------------------------------------------------------------------
MainStep == \/ InitConnect \/ InitFail \/ InitDone \/ Shutdown
            \/ ShutdownNotify \/ JoinProducer \/ JoinRecycler \/ Drain

WaitStep(w) == PrepareWait(w) \/ Block(w) \/ Deadline(w) \/ Wake(w)

ClientStep(c) == Call(c) \/ Take(c) \/ GiveUp(c) \/ Return(c)

ProducerStep == \/ ProducerLoop \/ ProducerAwake
                \/ ProducerConnect \/ ProducerAdd \/ ProducerRelease

Next == \/ MainStep
        \/ \E w \in Waiters : WaitStep(w)
        \/ \E c \in Clients : ClientStep(c)
        \/ ProducerStep
        \/ RecyclerLoop \/ Recycle
        \/ Age \/ DbRestart

Spec == Init /\ [][Next]_vars

\* What a thread does as soon as it gets the mutex.
ClientLocks(c) == PrepareWait(c) \/ Take(c) \/ GiveUp(c) \/ Return(c)
ProducerLocks  == PrepareWait(Producer) \/ ProducerAwake

\* Every thread keeps running and every deadline passes; a thread that wants
\* the mutex gets it in the end although others keep taking it (the mutex is
\* not released for ever to the same thread: strong fairness).  A client is
\* not obliged to call, but it returns what it borrowed.
Fairness ==
    /\ WF_vars(InitFail \/ InitDone \/ ShutdownNotify \/ JoinProducer \/ JoinRecycler)
    /\ SF_vars(Drain)
    /\ \A w \in Waiters : /\ WF_vars(Block(w) \/ (late[w] /\ Wake(w)))
                          /\ WF_vars(Deadline(w))
    /\ \A c \in Clients : SF_vars(ClientLocks(c))
    /\ SF_vars(ProducerLocks)
    /\ WF_vars(ProducerLoop \/ ProducerConnect \/ ProducerRelease)
    /\ WF_vars(RecyclerLoop)
    /\ SF_vars(Recycle)

FairSpec == Spec /\ Fairness

-----------------------------------------------------------------------------
(* Properties.                                                             *)

Placed(f) ==
    /\ f \in [Threads -> ClientPC \cup ProducerPC \cup RecyclerPC \cup MainPC]
    /\ \A c \in Clients : f[c] \in ClientPC
    /\ f[Producer] \in ProducerPC
    /\ f[Recycler] \in RecyclerPC
    /\ f[Main] \in MainPC

\* The shape of the state: every thread is at a location of its own program.
TypeOK ==
    /\ available \in Seq(Conns)
    /\ active \in Nat
    /\ running \in BOOLEAN /\ initialized \in BOOLEAN
    /\ mutex \in Threads \cup {NoThread}
    /\ Placed(pc)
    /\ late \in [Waiters -> BOOLEAN]
    /\ held \in [Clients -> Conns \cup {NoConn}]
    /\ objects \in SUBSET Conns
    /\ stale \in SUBSET Conns /\ dead \in SUBSET Conns
    /\ dbRestarts \in 0..MaxDbRestarts

Holding(c) == pc[c] = "holding"
Holders    == {c \in Clients : Holding(c)}
Lent       == {held[c] : c \in Holders}

\* A connection has one owner: it is queued once, or lent to one client, and
\* never both (queue, getConnection and the deleter of the guard).
OneOwner ==
    /\ \A i, j \in DOMAIN available : available[i] = available[j] => i = j
    /\ \A c, d \in Holders : held[c] = held[d] => c = d
    /\ Lent \cap Range(available) = {}

\* No MysqlConn object is lost or used after delete: what is allocated is
\* exactly what is queued or lent, through init failure, recycling, a full
\* queue and shutdown.
NoLeak == objects = Range(available) \cup Lent

\* The queue of idle connections never grows beyond max_size, although the
\* producer and several deleters push to it.
QueueBound == Len(available) <= MaxSize

\* active_count_, an atomic kept apart from the guards, is the number of
\* connections that are lent, so the deleter's guard on zero never fires.
ActiveExact == active = Cardinality(Holders)

\* After shutdown() has returned both threads have ended and no connection is
\* queued; one that a client still holds is destroyed when it comes back.
CleanStop ==
    pc[Main] \in {"down", "failed"} =>
        /\ available = <<>>
        /\ pc[Producer] \in {"unborn", "exited"}
        /\ pc[Recycler] \in {"unborn", "exited"}

\* While the pool runs, a connection is destroyed only when it has been idle
\* for idle_timeout and enough others are idle, or when the queue is full.
RetireJustified ==
    [][\A k \in objects \ objects' :
          running' => \/ k \in stale /\ Len(available') >= MinSize
                      \/ Len(available) >= MaxSize]_vars

\* Every getConnection() returns, with a connection or an empty guard,
\* although stop requests and notifications may be missed.
CallReturns == \A c \in Clients : pc[c] = "get" ~> pc[c] \in {"out", "holding"}

\* shutdown() returns: the flag it sets without the mutex may miss a thread
\* that is about to block, and then that thread's own deadline frees it.
ShutdownReturns == pc[Main] = "notify" ~> pc[Main] = "down"

\* The number of open connections, idle and lent, stays within max_size.
TotalBounded == Cardinality(objects) <= MaxSize
=============================================================================
