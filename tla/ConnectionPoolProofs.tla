------------------------ MODULE ConnectionPoolProofs ------------------------
(***************************************************************************)
(* What the runs of MCConnectionPool check on small instances, proved for  *)
(* any finite set of clients, any sizes and any set of connections.        *)
(***************************************************************************)
EXTENDS ConnectionPool, FiniteSetTheorems, SequenceTheorems, TLAPS

-----------------------------------------------------------------------------
(* Lemmas about the queue and the condition variable.                      *)

Distinct(s) == \A i, j \in DOMAIN s : s[i] = s[j] => i = j

\* push: the connection is added to what the queue holds.
LEMMA RangeOfAppend ==
    ASSUME NEW S, NEW s \in Seq(S), NEW x \in S
    PROVE  /\ Append(s, x) \in Seq(S)
           /\ Len(Append(s, x)) = Len(s) + 1
           /\ Range(Append(s, x)) = Range(s) \cup {x}
           /\ Distinct(s) /\ x \notin Range(s) => Distinct(Append(s, x))
<1>1. /\ Append(s, x) \in Seq(S)
      /\ Len(Append(s, x)) = Len(s) + 1
      /\ DOMAIN Append(s, x) = 1..(Len(s) + 1)
      /\ DOMAIN s = 1..Len(s) /\ Len(s) \in Nat
      /\ \A i \in 1..Len(s) : Append(s, x)[i] = s[i]
      /\ Append(s, x)[Len(s) + 1] = x
  OBVIOUS
<1>2. Range(Append(s, x)) = Range(s) \cup {x}
  BY <1>1 DEF Range
<1>3. Distinct(s) /\ x \notin Range(s) => Distinct(Append(s, x))
  BY <1>1 DEF Range, Distinct
<1> QED BY <1>1, <1>2, <1>3

\* The recycler: what is dropped from the front is what the queue loses.
LEMMA RangeOfDrop ==
    ASSUME NEW S, NEW s \in Seq(S), NEW n \in 0..Len(s), Distinct(s)
    PROVE  LET d == SubSeq(s, n + 1, Len(s))
           IN  /\ d \in Seq(S)
               /\ Len(d) = Len(s) - n
               /\ Range(d) = Range(s) \ {s[i] : i \in 1..n}
               /\ Distinct(d)
<1> DEFINE d == SubSeq(s, n + 1, Len(s))
<1>1. /\ DOMAIN s = 1..Len(s) /\ Len(s) \in Nat /\ n \in Nat /\ n <= Len(s)
  OBVIOUS
<1>2. /\ d \in Seq(S)
      /\ Len(d) = Len(s) - n
      /\ DOMAIN d = 1..(Len(s) - n)
      /\ \A i \in 1..(Len(s) - n) : d[i] = s[i + n]
  <2>1. /\ d \in Seq(S)
        /\ Len(d) = IF n + 1 <= Len(s) THEN Len(s) - (n + 1) + 1 ELSE 0
        /\ \A i \in 1..(Len(s) - (n + 1) + 1) : d[i] = s[(n + 1) + i - 1]
    BY <1>1
  <2> HIDE DEF d
  <2>2. DOMAIN d = 1..Len(d)
    BY <2>1
  <2>3. Len(d) = Len(s) - n /\ Len(s) - (n + 1) + 1 = Len(s) - n
    <3>1. \A l \in Nat : n <= l =>
            /\ l - (n + 1) + 1 = l - n
            /\ (IF n + 1 <= l THEN l - (n + 1) + 1 ELSE 0) = l - n
      BY <1>1
    <3> QED BY <3>1, <2>1, <1>1
  <2>4. ASSUME NEW i \in 1..(Len(s) - n) PROVE d[i] = s[i + n]
    <3>1. (n + 1) + i - 1 = i + n
      BY <1>1
    <3> QED BY <3>1, <2>1, <2>3
  <2> QED BY <2>1, <2>2, <2>3, <2>4
<1> HIDE DEF d
<1>3. Range(d) = Range(s) \ {s[i] : i \in 1..n}
  <2>1. ASSUME NEW i \in 1..(Len(s) - n)
        PROVE  d[i] \in Range(s) \ {s[j] : j \in 1..n}
    <3>1. i + n \in 1..Len(s) /\ i + n \notin 1..n /\ d[i] = s[i + n]
      BY <1>1, <1>2
    <3>2. \A j \in 1..n : s[j] # s[i + n]
      BY <3>1, <1>1 DEF Distinct
    <3> QED BY <3>1, <3>2, <1>1 DEF Range
  <2>2. ASSUME NEW i \in 1..Len(s), s[i] \notin {s[j] : j \in 1..n}
        PROVE  s[i] \in Range(d)
    <3>1. i - n \in 1..(Len(s) - n) /\ d[i - n] = s[i]
      BY <2>2, <1>1, <1>2
    <3> QED BY <3>1, <1>2 DEF Range
  <2> QED BY <2>1, <2>2, <1>1, <1>2 DEF Range
<1>4. ASSUME NEW i \in DOMAIN d, NEW j \in DOMAIN d, d[i] = d[j]
      PROVE  i = j
  <2>1. i + n \in 1..Len(s) /\ j + n \in 1..Len(s) /\ s[i + n] = s[j + n]
    <3>1. i \in 1..(Len(s) - n) /\ j \in 1..(Len(s) - n)
      BY <1>2
    <3>2. d[i] = s[i + n] /\ d[j] = s[j + n]
      BY <1>2, <3>1
    <3>3. i + n \in 1..Len(s) /\ j + n \in 1..Len(s)
      BY <1>1, <3>1
    <3> QED BY <1>4, <3>2, <3>3
  <2>2. i + n = j + n
    BY <2>1, <1>1 DEF Distinct
  <2> QED BY <2>2, <1>1, <1>2
<1> QED BY <1>2, <1>3, <1>4 DEF d, Distinct

\* pop: the queue loses its front.
LEMMA RangeOfTail ==
    ASSUME NEW S, NEW s \in Seq(S), s # <<>>
    PROVE  /\ Tail(s) \in Seq(S) /\ Len(Tail(s)) = Len(s) - 1
           /\ Head(s) \in Range(s) /\ Head(s) \in S
           /\ Distinct(s) => /\ Range(Tail(s)) = Range(s) \ {Head(s)}
                             /\ Distinct(Tail(s))
<1>1. /\ Tail(s) \in Seq(S) /\ Len(Tail(s)) = Len(s) - 1
      /\ Len(s) \in Nat \ {0} /\ DOMAIN s = 1..Len(s) /\ Head(s) = s[1]
      /\ DOMAIN Tail(s) = 1..(Len(s) - 1)
      /\ \A i \in 1..(Len(s) - 1) : Tail(s)[i] = s[i + 1]
  OBVIOUS
<1>2. Head(s) \in Range(s) /\ Head(s) \in S
  BY <1>1 DEF Range
<1>3. ASSUME Distinct(s)
      PROVE  Range(Tail(s)) = Range(s) \ {Head(s)} /\ Distinct(Tail(s))
  <2>1. ASSUME NEW i \in 1..(Len(s) - 1)
        PROVE  Tail(s)[i] \in Range(s) \ {Head(s)}
    BY <1>1, <1>3 DEF Range, Distinct
  <2>2. ASSUME NEW i \in 1..Len(s), s[i] # Head(s)
        PROVE  s[i] \in Range(Tail(s))
    <3>1. i - 1 \in 1..(Len(s) - 1) /\ Tail(s)[i - 1] = s[i]
      BY <2>2, <1>1
    <3> QED BY <3>1, <1>1 DEF Range
  <2>3. Distinct(Tail(s))
    BY <1>1, <1>3 DEF Distinct
  <2> QED BY <2>1, <2>2, <2>3, <1>1 DEF Range
<1> QED BY <1>1, <1>2, <1>3

\* A notification moves at most sleeping waiters, and only to "woken".
OnlyWakes(f, g) ==
    \A t \in Threads : g[t] = f[t] \/ (t \in Waiters /\ f[t] = "waiting" /\ g[t] = "woken")

LEMMA NotifyWakes ==
    ASSUME NEW f, Placed(f), NEW g \in NotifyOne(f) \cup {NotifyAll(f)}
    PROVE  Placed(g) /\ OnlyWakes(f, g)
<1>1. Threads = Clients \cup {Producer, Recycler, Main} /\ Waiters \subseteq Threads
  BY DEF Threads, Waiters
<1>2. /\ g \in [Threads -> ClientPC \cup ProducerPC \cup RecyclerPC \cup MainPC]
      /\ OnlyWakes(f, g)
  <2>1. CASE g \in NotifyOne(f)
    BY <2>1, <1>1 DEF NotifyOne, OnlyWakes, Placed, ClientPC
  <2>2. CASE g = NotifyAll(f)
    BY <2>2, <1>1 DEF NotifyAll, OnlyWakes, Placed, ClientPC
  <2> QED BY <2>1, <2>2
<1>3. Recycler \notin Waiters /\ Main \notin Waiters
  BY NameAssumption DEF Waiters, Recycler, Main, Producer
<1>4. Placed(g)
  BY <1>1, <1>2, <1>3 DEF OnlyWakes, Placed, ClientPC, ProducerPC
<1> QED BY <1>2, <1>4

\* The places a thread may be in.
PlacesOf(t) == CASE t \in Clients -> ClientPC
                 [] t = Producer  -> ProducerPC
                 [] t = Recycler  -> RecyclerPC
                 [] t = Main      -> MainPC

LEMMA ThreadFacts ==
    /\ Threads = Clients \cup {Producer, Recycler, Main}
    /\ Waiters = Clients \cup {Producer}
    /\ NoThread \notin Threads
    /\ Producer \notin Clients /\ Recycler \notin Waiters /\ Main \notin Waiters
    /\ Producer # Recycler /\ Producer # Main /\ Recycler # Main
BY NameAssumption DEF Threads, Waiters, Producer, Recycler, Main, NoThread

LEMMA PlacedMoves ==
    ASSUME NEW f, Placed(f), NEW t \in Threads, NEW v \in PlacesOf(t)
    PROVE  Placed([f EXCEPT ![t] = v])
<1> DEFINE g == [f EXCEPT ![t] = v]
<1>1. /\ DOMAIN g = Threads /\ g[t] = v
      /\ \A u \in Threads : u # t => g[u] = f[u]
      /\ g = [u \in Threads |-> g[u]]
  BY DEF Placed
<1> HIDE DEF g
<1>2. /\ \A c \in Clients : g[c] \in ClientPC
      /\ g[Producer] \in ProducerPC /\ g[Recycler] \in RecyclerPC
      /\ g[Main] \in MainPC
  BY <1>1, ThreadFacts DEF Placed, PlacesOf
<1>3. g \in [Threads -> ClientPC \cup ProducerPC \cup RecyclerPC \cup MainPC]
  BY <1>1, <1>2, ThreadFacts
<1> QED BY <1>2, <1>3 DEF g, Placed

LEMMA WaiterPlaces ==
    /\ \A w \in Waiters : {"blocking", "waiting", "woken"} \subseteq PlacesOf(w)
    /\ \A c \in Clients : PlacesOf(c) = ClientPC
    /\ PlacesOf(Producer) = ProducerPC /\ PlacesOf(Recycler) = RecyclerPC
    /\ PlacesOf(Main) = MainPC
BY ThreadFacts DEF PlacesOf, ClientPC, ProducerPC

-----------------------------------------------------------------------------
(* The types.                                                              *)

\* A client that holds a connection holds one of Conns: what the deleter
\* pushes back is a connection.
HeldOK == \A c \in Clients : Holding(c) => held[c] \in Conns

TypeInv == TypeOK /\ HeldOK

LEMMA TypeInit == Init => TypeInv
<1> SUFFICES ASSUME Init PROVE TypeInv
  OBVIOUS
<1>1. Placed(pc)
  BY ThreadFacts DEF Init, Placed, ClientPC, ProducerPC, RecyclerPC, MainPC
<1>2. HeldOK
  BY ThreadFacts DEF Init, HeldOK, Holding
<1>3. /\ mutex \in Threads \cup {NoThread} /\ dbRestarts \in 0..MaxDbRestarts
      /\ late \in [Waiters -> BOOLEAN] /\ held \in [Clients -> Conns \cup {NoConn}]
      /\ available \in Seq(Conns) /\ active \in Nat
  BY ThreadFacts, BoundAssumption DEF Init
<1> QED BY <1>1, <1>2, <1>3 DEF Init, TypeInv, TypeOK

\* Only holders matter to HeldOK: who starts to hold takes a connection.
LEMMA HeldOKKept ==
    ASSUME HeldOK, held' = held,
           \A c \in Clients : pc'[c] = "holding" => pc[c] = "holding"
    PROVE  HeldOK'
BY DEF HeldOK, Holding

LEMMA AddConnectionTypes ==
    ASSUME TypeOK, NEW f, Placed(f), AddConnection(f)
    PROVE  /\ available' \in Seq(Conns) /\ objects' \in SUBSET Conns
           /\ active' \in Nat /\ stale' \in SUBSET Conns /\ dead' \in SUBSET Conns
           /\ Placed(pc') /\ OnlyWakes(f, pc')
<1>1. PICK k \in Conns \ objects :
        /\ objects' = objects \cup {k} /\ available' = Append(available, k)
        /\ pc' \in NotifyOne(f) /\ UNCHANGED <<active, stale, dead>>
  BY DEF AddConnection
<1>2. Placed(pc') /\ OnlyWakes(f, pc')
  BY <1>1, NotifyWakes
<1>3. available' \in Seq(Conns)
  BY <1>1, RangeOfAppend DEF TypeOK
<1> QED BY <1>1, <1>2, <1>3 DEF TypeOK


\* A step of one thread that takes no connection and changes no queue.
LEMMA TypeMove ==
    ASSUME TypeInv,
           NEW t \in Threads, NEW v \in PlacesOf(t), v # "holding",
           pc' = [pc EXCEPT ![t] = v],
           UNCHANGED <<poolVars, held, dbRestarts>>,
           running' \in BOOLEAN, initialized' \in BOOLEAN,
           mutex' \in Threads \cup {NoThread}, late' \in [Waiters -> BOOLEAN]
    PROVE  TypeInv'
<1>1. Placed(pc')
  BY PlacedMoves DEF TypeInv, TypeOK
<1>2. HeldOK'
  BY HeldOKKept DEF TypeInv, TypeOK, Placed, HeldOK
<1> QED BY <1>1, <1>2 DEF TypeInv, TypeOK, poolVars

LEMMA DrainTypes ==
    ASSUME TypeOK, DrainAvailable
    PROVE  /\ available' \in Seq(Conns) /\ objects' \in SUBSET Conns
           /\ stale' \in SUBSET Conns /\ dead' \in SUBSET Conns
<1>1. available' \in Seq(Conns)
  BY DEF DrainAvailable
<1>2. /\ objects' \in SUBSET Conns
      /\ stale' \in SUBSET Conns /\ dead' \in SUBSET Conns
  BY DEF DrainAvailable, TypeOK
<1> QED BY <1>1, <1>2

LEMMA TypeInitStep == TypeInv /\ (InitConnect \/ InitFail \/ InitDone) => TypeInv'
<1> SUFFICES ASSUME TypeInv, InitConnect \/ InitFail \/ InitDone PROVE TypeInv'
  OBVIOUS
<1>0. TypeOK /\ HeldOK /\ Placed(pc)
  BY DEF TypeInv, TypeOK
<1>1. CASE InitConnect
  <2>1. Placed(pc') /\ OnlyWakes(pc, pc') /\ available' \in Seq(Conns)
        /\ objects' \in SUBSET Conns /\ active' \in Nat
        /\ stale' \in SUBSET Conns /\ dead' \in SUBSET Conns
    BY <1>0, <1>1, AddConnectionTypes DEF InitConnect
  <2>2. HeldOK'
    BY <2>1, <1>0, <1>1, HeldOKKept, ThreadFacts DEF InitConnect, OnlyWakes
  <2> QED BY <2>1, <2>2, <1>0, <1>1 DEF InitConnect, TypeInv, TypeOK
<1>2. CASE InitFail
  <2>1. Placed(pc')
    BY <1>0, <1>2, PlacedMoves, WaiterPlaces, ThreadFacts DEF InitFail, MainPC
  <2>2. HeldOK'
    BY <1>0, <1>2, HeldOKKept, ThreadFacts DEF InitFail, Placed
  <2> QED BY <2>1, <2>2, <1>0, <1>2, DrainTypes DEF InitFail, TypeInv, TypeOK
<1>3. CASE InitDone
  <2> DEFINE f == [pc EXCEPT ![Main] = "up"]
             g == [f EXCEPT ![Producer] = "loop"]
  <2>1. Placed(f)
    BY <1>0, PlacedMoves, WaiterPlaces, ThreadFacts DEF MainPC
  <2>2. Placed(g)
    BY <2>1, PlacedMoves, WaiterPlaces, ThreadFacts DEF ProducerPC
  <2>3. pc' = [g EXCEPT ![Recycler] = "loop"]
    BY <1>0, <1>3, ThreadFacts DEF InitDone, Placed
  <2>4. Placed(pc')
    BY <2>2, <2>3, PlacedMoves, WaiterPlaces, ThreadFacts DEF RecyclerPC
  <2>5. HeldOK'
    BY <1>0, <1>3, HeldOKKept, ThreadFacts DEF InitDone, Placed
  <2> QED BY <2>4, <2>5, <1>0, <1>3, ThreadFacts
          DEF InitDone, TypeInv, TypeOK, poolVars
<1> QED BY <1>1, <1>2, <1>3

LEMMA TypeStopStep ==
    TypeInv /\ (Shutdown \/ ShutdownNotify \/ JoinProducer \/ JoinRecycler \/ Drain)
      => TypeInv'
<1> SUFFICES ASSUME TypeInv, \/ Shutdown \/ ShutdownNotify \/ JoinProducer
                             \/ JoinRecycler \/ Drain
             PROVE  TypeInv'
  OBVIOUS
<1>0. TypeOK /\ HeldOK /\ Placed(pc) /\ Main \in Threads
      /\ {"notify", "joinProducer", "joinRecycler", "drain", "down"} \subseteq PlacesOf(Main)
  BY ThreadFacts, WaiterPlaces DEF TypeInv, TypeOK, MainPC
<1>1. CASE Shutdown
  BY <1>0, <1>1, TypeMove DEF Shutdown, TypeOK
<1>2. CASE ShutdownNotify
  <2> DEFINE f == [pc EXCEPT ![Main] = "joinProducer"]
  <2>1. Placed(f)
    BY <1>0, PlacedMoves
  <2>2. Placed(pc') /\ OnlyWakes(f, pc')
    BY <2>1, <1>2, NotifyWakes DEF ShutdownNotify
  <2>3. HeldOK'
    BY <2>2, <1>0, <1>2, HeldOKKept, ThreadFacts DEF ShutdownNotify, OnlyWakes, Placed
  <2> QED BY <2>2, <2>3, <1>0, <1>2 DEF ShutdownNotify, TypeInv, TypeOK, poolVars
<1>3. CASE JoinProducer
  BY <1>0, <1>3, TypeMove DEF JoinProducer, TypeOK
<1>4. CASE JoinRecycler
  BY <1>0, <1>4, TypeMove DEF JoinRecycler, TypeOK
<1>5. CASE Drain
  <2>1. Placed(pc')
    BY <1>0, <1>5, PlacedMoves DEF Drain
  <2>2. HeldOK'
    BY <1>0, <1>5, HeldOKKept, ThreadFacts DEF Drain, Placed
  <2> QED BY <2>1, <2>2, <1>0, <1>5, DrainTypes DEF Drain, TypeInv, TypeOK
<1> QED BY <1>1, <1>2, <1>3, <1>4, <1>5

LEMMA TypeWaitStep == ASSUME TypeInv, NEW w \in Waiters, WaitStep(w) PROVE TypeInv'
<1>0. TypeOK /\ HeldOK /\ Placed(pc) /\ w \in Threads
      /\ {"blocking", "waiting", "woken"} \subseteq PlacesOf(w)
  BY ThreadFacts, WaiterPlaces DEF TypeInv, TypeOK
<1>1. CASE PrepareWait(w)
  BY <1>0, <1>1, TypeMove DEF PrepareWait, TypeOK
<1>2. CASE Block(w)
  BY <1>0, <1>2, TypeMove DEF Block, TypeOK
<1>3. CASE Deadline(w)
  BY <1>0, <1>3 DEF Deadline, TypeInv, TypeOK, HeldOK, Holding, poolVars
<1>4. CASE Wake(w)
  BY <1>0, <1>4, TypeMove DEF Wake, TypeOK
<1> QED BY <1>1, <1>2, <1>3, <1>4 DEF WaitStep

LEMMA TypeClientStep == ASSUME TypeInv, NEW c \in Clients, ClientStep(c) PROVE TypeInv'
<1>0. TypeOK /\ HeldOK /\ Placed(pc) /\ c \in Threads /\ c \in Waiters
      /\ {"get", "out", "holding"} \subseteq PlacesOf(c)
  BY ThreadFacts, WaiterPlaces DEF TypeInv, TypeOK, ClientPC
<1>1. CASE Call(c)
  BY <1>0, <1>1, TypeMove DEF Call, TypeOK
<1>2. CASE Take(c)
  <2>1. Placed(pc')
    BY <1>0, <1>2, PlacedMoves DEF Take
  <2>2. Head(available) \in Conns /\ available' \in Seq(Conns)
    BY <1>0, <1>2, RangeOfTail DEF Take, TypeOK, Popped
  <2>3. HeldOK' /\ held' \in [Clients -> Conns \cup {NoConn}]
    BY <2>2, <1>0, <1>2 DEF Take, HeldOK, Holding, TypeOK, Placed
  <2> QED BY <2>1, <2>2, <2>3, <1>0, <1>2 DEF Take, TypeInv, TypeOK
<1>3. CASE GiveUp(c)
  BY <1>0, <1>3, TypeMove DEF GiveUp, TypeOK
<1>4. CASE Return(c)
  <2> DEFINE f == [pc EXCEPT ![c] = "out"]
  <2>1. Placed(f)
    BY <1>0, PlacedMoves
  <2>2. Placed(pc') /\ OnlyWakes(f, pc')
    BY <2>1, <1>4, NotifyWakes DEF Return
  <2>3. available' \in Seq(Conns)
    <3>1. available \in Seq(Conns)
      BY <1>0 DEF TypeOK
    <3>2. held[c] \in Conns
      BY <1>0, <1>4 DEF Return, HeldOK, Holding
    <3>3. Append(available, held[c]) \in Seq(Conns)
      BY <3>1, <3>2, RangeOfAppend
    <3>4. available' = Append(available, held[c]) \/ available' = available
      BY <1>4 DEF Return
    <3> QED BY <3>1, <3>3, <3>4
  <2>4. HeldOK' /\ held' \in [Clients -> Conns \cup {NoConn}]
    BY <2>2, <1>0, <1>4, ThreadFacts
       DEF Return, HeldOK, Holding, TypeOK, Placed, OnlyWakes
  <2>5. active' \in Nat
    BY <1>0, <1>4 DEF Return, Decremented, TypeOK
  <2>6. objects' \in SUBSET Conns /\ dead' \in SUBSET Conns
    BY <1>0, <1>4 DEF Return, TypeOK
  <2> QED BY <2>2, <2>3, <2>4, <2>5, <2>6, <1>0, <1>4 DEF Return, TypeInv, TypeOK
<1> QED BY <1>1, <1>2, <1>3, <1>4 DEF ClientStep

LEMMA TypeProducerStep == TypeInv /\ ProducerStep => TypeInv'
<1> SUFFICES ASSUME TypeInv, ProducerStep PROVE TypeInv'
  OBVIOUS
<1>0. TypeOK /\ HeldOK /\ Placed(pc) /\ Producer \in Threads /\ Producer \in Waiters
      /\ {"get", "exited", "fill", "connecting", "loop"} \subseteq PlacesOf(Producer)
  BY ThreadFacts, WaiterPlaces DEF TypeInv, TypeOK, ProducerPC
<1>1. CASE ProducerLoop
  BY <1>0, <1>1, TypeMove DEF ProducerLoop, TypeOK
<1>2. CASE ProducerAwake
  BY <1>0, <1>2, TypeMove DEF ProducerAwake, TypeOK
<1>3. CASE ProducerConnect
  BY <1>0, <1>3, TypeMove DEF ProducerConnect, TypeOK
<1>4. CASE ProducerAdd
  <2> DEFINE f == [pc EXCEPT ![Producer] = "fill"]
  <2>1. Placed(f)
    BY <1>0, PlacedMoves
  <2>2. Placed(pc') /\ OnlyWakes(f, pc') /\ available' \in Seq(Conns)
        /\ objects' \in SUBSET Conns /\ active' \in Nat
        /\ stale' \in SUBSET Conns /\ dead' \in SUBSET Conns
    BY <2>1, <1>0, <1>4, AddConnectionTypes DEF ProducerAdd
  <2>3. HeldOK'
    BY <2>2, <1>0, <1>4, HeldOKKept, ThreadFacts DEF ProducerAdd, OnlyWakes, Placed
  <2> QED BY <2>2, <2>3, <1>0, <1>4 DEF ProducerAdd, TypeInv, TypeOK
<1>5. CASE ProducerRelease
  BY <1>0, <1>5, TypeMove DEF ProducerRelease, TypeOK
<1> QED BY <1>1, <1>2, <1>3, <1>4, <1>5 DEF ProducerStep

LEMMA TypeOtherStep ==
    TypeInv /\ (RecyclerLoop \/ Recycle \/ Age \/ DbRestart \/ UNCHANGED vars) => TypeInv'
<1> SUFFICES ASSUME TypeInv, \/ RecyclerLoop \/ Recycle \/ Age \/ DbRestart
                             \/ UNCHANGED vars
             PROVE  TypeInv'
  OBVIOUS
<1>0. TypeOK /\ HeldOK /\ Placed(pc) /\ Recycler \in Threads
      /\ {"loop", "sleeping", "exited"} \subseteq PlacesOf(Recycler)
  BY ThreadFacts, WaiterPlaces DEF TypeInv, TypeOK, RecyclerPC
<1>1. CASE RecyclerLoop
  BY <1>0, <1>1, TypeMove DEF RecyclerLoop, TypeOK
<1>2. CASE Recycle
  <2>1. PICK n \in 0..Len(available) :
          LET gone == {available[i] : i \in 1..n}
          IN  /\ available' = SubSeq(available, n + 1, Len(available))
              /\ objects' = objects \ gone
              /\ stale' = stale \ gone
              /\ dead' = dead \ gone
    BY <1>2 DEF Recycle
  <2>2. available' \in Seq(Conns)
    BY <2>1, <1>0 DEF TypeOK
  <2>3. Placed(pc')
    BY <1>0, <1>2, PlacedMoves DEF Recycle
  <2>4. HeldOK'
    BY <1>0, <1>2, HeldOKKept, ThreadFacts DEF Recycle, Placed
  <2> QED BY <2>1, <2>2, <2>3, <2>4, <1>0, <1>2 DEF Recycle, TypeInv, TypeOK
<1>3. CASE Age
  <2>1. PICK n \in 1..Len(available) : stale' = stale \cup {available[i] : i \in 1..n}
    BY <1>3 DEF Age
  <2>2. stale' \in SUBSET Conns
    BY <2>1, <1>0 DEF TypeOK
  <2> QED BY <2>2, <1>0, <1>3 DEF Age, TypeInv, TypeOK, HeldOK, Holding
<1>4. CASE DbRestart
  BY <1>0, <1>4, BoundAssumption DEF DbRestart, TypeInv, TypeOK, HeldOK, Holding
<1>5. CASE UNCHANGED vars
  BY <1>0, <1>5 DEF vars, TypeInv, TypeOK, HeldOK, Holding
<1> QED BY <1>1, <1>2, <1>3, <1>4, <1>5

LEMMA TypeStep == TypeInv /\ [Next]_vars => TypeInv'
BY TypeInitStep, TypeStopStep, TypeWaitStep, TypeClientStep, TypeProducerStep,
   TypeOtherStep DEF Next, MainStep

\* Every variable of the pool keeps its type, for any clients, sizes and
\* connections: no thread is ever in a place its code does not have, and the
\* deleter never pushes anything but a connection.
THEOREM TypeCorrect == Spec => []TypeOK
<1>1. Spec => []TypeInv
  BY TypeInit, TypeStep, PTL DEF Spec
<1>2. TypeInv => TypeOK
  BY DEF TypeInv
<1> QED BY <1>1, <1>2, PTL

-----------------------------------------------------------------------------
(* Who holds the mutex, and how far the program has come.                  *)

\* The mutex is held across steps by main in init(), by the producer while it
\* fills the queue, and by a waiter between its predicate and its wait.
MutexInv ==
    /\ mutex = Main <=> pc[Main] = "init"
    /\ mutex = Producer <=> pc[Producer] \in {"fill", "connecting", "blocking"}
    /\ \A c \in Clients : mutex = c <=> pc[c] = "blocking"

\* Before init() has succeeded there are no threads and no clients.
StartInv ==
    pc[Main] \in {"init", "failed"} =>
        /\ pc[Producer] = "unborn" /\ pc[Recycler] = "unborn"
        /\ \A c \in Clients : pc[c] = "out"

\* shutdown() clears the flag first, then joins one thread after the other.
StopInv ==
    /\ running => pc[Main] \in {"init", "up"}
    /\ pc[Main] \in {"joinRecycler", "drain", "down"} => pc[Producer] = "exited"
    /\ pc[Main] \in {"drain", "down"} => pc[Recycler] = "exited"

Phase == MutexInv /\ StartInv /\ StopInv

LEMMA PhaseInit == Init => Phase
<1> SUFFICES ASSUME Init PROVE Phase
  OBVIOUS
<1>1. /\ pc[Main] = "init" /\ pc[Producer] = "unborn" /\ pc[Recycler] = "unborn"
      /\ \A c \in Clients : pc[c] = "out"
      /\ mutex = Main /\ running = TRUE
  BY ThreadFacts DEF Init
<1>2. Main \notin Clients
  BY ThreadFacts
<1> QED BY <1>1, <1>2, ThreadFacts DEF Phase, MutexInv, StartInv, StopInv

LEMMA PhaseInitStep ==
    ASSUME TypeInv, Phase, InitConnect \/ InitFail \/ InitDone
    PROVE  Phase'
<1>0. /\ TypeOK /\ Placed(pc) /\ DOMAIN pc = Threads
  BY DEF TypeInv, TypeOK, Placed
<1>1. CASE InitConnect
  <2>1. OnlyWakes(pc, pc')
    BY <1>0, <1>1, AddConnectionTypes DEF InitConnect
  <2>2. \A t \in Threads : pc'[t] = pc[t]
    BY <2>1, <1>1, ThreadFacts DEF InitConnect, OnlyWakes, Phase, StartInv
  <2> QED BY <2>2, <1>1, ThreadFacts DEF InitConnect, Phase, MutexInv, StartInv, StopInv
<1>2. CASE InitFail
  BY <1>0, <1>2, ThreadFacts DEF InitFail, Phase, MutexInv, StartInv, StopInv
<1>3. CASE InitDone
  BY <1>0, <1>3, ThreadFacts DEF InitDone, Phase, MutexInv, StartInv, StopInv
<1> QED BY <1>1, <1>2, <1>3

LEMMA PhaseStopStep ==
    ASSUME TypeInv, Phase,
           Shutdown \/ ShutdownNotify \/ JoinProducer \/ JoinRecycler \/ Drain
    PROVE  Phase'
<1>0. /\ TypeOK /\ Placed(pc) /\ DOMAIN pc = Threads
  BY DEF TypeInv, TypeOK, Placed
<1>1. CASE Shutdown
  BY <1>0, <1>1, ThreadFacts DEF Shutdown, Phase, MutexInv, StartInv, StopInv
<1>2. CASE ShutdownNotify
  <2> DEFINE f == [pc EXCEPT ![Main] = "joinProducer"]
  <2>1. OnlyWakes(f, pc')
    BY <1>0, <1>2, NotifyWakes, PlacedMoves, WaiterPlaces, ThreadFacts
       DEF ShutdownNotify, MainPC
  <2>2. /\ \A t \in Waiters : pc'[t] = pc[t] \/ (pc[t] = "waiting" /\ pc'[t] = "woken")
        /\ pc'[Main] = "joinProducer" /\ pc'[Recycler] = pc[Recycler]
    BY <2>1, <1>0, ThreadFacts DEF OnlyWakes
  <2> QED BY <2>2, <1>2, ThreadFacts DEF ShutdownNotify, Phase, MutexInv, StartInv, StopInv
<1>3. CASE JoinProducer
  BY <1>0, <1>3, ThreadFacts DEF JoinProducer, Phase, MutexInv, StartInv, StopInv
<1>4. CASE JoinRecycler
  BY <1>0, <1>4, ThreadFacts DEF JoinRecycler, Phase, MutexInv, StartInv, StopInv
<1>5. CASE Drain
  BY <1>0, <1>5, ThreadFacts DEF Drain, Phase, MutexInv, StartInv, StopInv
<1> QED BY <1>1, <1>2, <1>3, <1>4, <1>5

LEMMA PhaseWaitStep ==
    ASSUME TypeInv, Phase, NEW w \in Waiters, WaitStep(w)
    PROVE  Phase'
<1>0. /\ TypeOK /\ Placed(pc) /\ DOMAIN pc = Threads /\ mutex \in Threads \cup {NoThread}
  BY DEF TypeInv, TypeOK, Placed
<1>1. CASE PrepareWait(w)
  BY <1>0, <1>1, ThreadFacts
     DEF PrepareWait, AtWait, MutexFree, Phase, MutexInv, StartInv, StopInv
<1>2. CASE Block(w)
  BY <1>0, <1>2, ThreadFacts DEF Block, Phase, MutexInv, StartInv, StopInv
<1>3. CASE Deadline(w)
  BY <1>3 DEF Deadline, Phase, MutexInv, StartInv, StopInv
<1>4. CASE Wake(w)
  BY <1>0, <1>4, ThreadFacts DEF Wake, Phase, MutexInv, StartInv, StopInv
<1> QED BY <1>1, <1>2, <1>3, <1>4 DEF WaitStep

LEMMA PhaseClientStep ==
    ASSUME TypeInv, Phase, NEW c \in Clients, ClientStep(c)
    PROVE  Phase'
<1>0. /\ TypeOK /\ Placed(pc) /\ DOMAIN pc = Threads
  BY DEF TypeInv, TypeOK, Placed
<1>1. CASE Call(c)
  BY <1>0, <1>1, ThreadFacts DEF Call, Phase, MutexInv, StartInv, StopInv
<1>2. CASE Take(c)
  BY <1>0, <1>2, ThreadFacts
     DEF Take, AtWait, MutexFree, Phase, MutexInv, StartInv, StopInv
<1>3. CASE GiveUp(c)
  BY <1>0, <1>3, ThreadFacts
     DEF GiveUp, AtWait, MutexFree, Phase, MutexInv, StartInv, StopInv
<1>4. CASE Return(c)
  <2> DEFINE f == [pc EXCEPT ![c] = "out"]
  <2>1. OnlyWakes(f, pc')
    BY <1>0, <1>4, NotifyWakes, PlacedMoves, WaiterPlaces, ThreadFacts
       DEF Return, ClientPC
  <2>2. /\ \A t \in Waiters \ {c} :
              pc'[t] = pc[t] \/ (pc[t] = "waiting" /\ pc'[t] = "woken")
        /\ pc'[c] = "out" /\ pc'[Main] = pc[Main] /\ pc'[Recycler] = pc[Recycler]
    BY <2>1, <1>0, ThreadFacts DEF OnlyWakes
  <2> QED BY <2>2, <1>4, ThreadFacts
          DEF Return, MutexFree, Phase, MutexInv, StartInv, StopInv
<1> QED BY <1>1, <1>2, <1>3, <1>4 DEF ClientStep

LEMMA PhaseProducerStep ==
    ASSUME TypeInv, Phase, ProducerStep
    PROVE  Phase'
<1>0. /\ TypeOK /\ Placed(pc) /\ DOMAIN pc = Threads
  BY DEF TypeInv, TypeOK, Placed
<1>1. CASE ProducerLoop
  BY <1>0, <1>1, ThreadFacts DEF ProducerLoop, Phase, MutexInv, StartInv, StopInv
<1>2. CASE ProducerAwake
  BY <1>0, <1>2, ThreadFacts
     DEF ProducerAwake, AtWait, MutexFree, Phase, MutexInv, StartInv, StopInv
<1>3. CASE ProducerConnect
  BY <1>0, <1>3, ThreadFacts DEF ProducerConnect, Phase, MutexInv, StartInv, StopInv
<1>4. CASE ProducerAdd
  <2> DEFINE f == [pc EXCEPT ![Producer] = "fill"]
  <2>1. OnlyWakes(f, pc')
    <3>1. Placed(f)
      BY <1>0, PlacedMoves, WaiterPlaces, ThreadFacts DEF ProducerPC
    <3> QED BY <3>1, <1>0, <1>4, AddConnectionTypes DEF ProducerAdd
  <2>2. /\ \A t \in Clients :
              pc'[t] = pc[t] \/ (pc[t] = "waiting" /\ pc'[t] = "woken")
        /\ pc'[Producer] = "fill" /\ pc'[Main] = pc[Main] /\ pc'[Recycler] = pc[Recycler]
    BY <2>1, <1>0, ThreadFacts DEF OnlyWakes
  <2> QED BY <2>2, <1>4, ThreadFacts DEF ProducerAdd, Phase, MutexInv, StartInv, StopInv
<1>5. CASE ProducerRelease
  BY <1>0, <1>5, ThreadFacts DEF ProducerRelease, Phase, MutexInv, StartInv, StopInv
<1> QED BY <1>1, <1>2, <1>3, <1>4, <1>5 DEF ProducerStep

LEMMA PhaseStep == TypeInv /\ Phase /\ [Next]_vars => Phase'
<1> SUFFICES ASSUME TypeInv, Phase, [Next]_vars PROVE Phase'
  OBVIOUS
<1>0. /\ TypeOK /\ Placed(pc) /\ DOMAIN pc = Threads
  BY DEF TypeInv, TypeOK, Placed
<1>1. CASE RecyclerLoop
  BY <1>0, <1>1, ThreadFacts DEF RecyclerLoop, Phase, MutexInv, StartInv, StopInv
<1>2. CASE Recycle
  BY <1>0, <1>2, ThreadFacts DEF Recycle, Phase, MutexInv, StartInv, StopInv
<1>3. CASE Age \/ DbRestart \/ UNCHANGED vars
  BY <1>3 DEF Age, DbRestart, vars, Phase, MutexInv, StartInv, StopInv
<1> QED BY <1>1, <1>2, <1>3, PhaseInitStep, PhaseStopStep, PhaseWaitStep,
           PhaseClientStep, PhaseProducerStep DEF Next, MainStep

LEMMA BaseInvariant == Spec => [](TypeInv /\ Phase)
<1>1. TypeInv /\ Phase /\ [Next]_vars => (TypeInv /\ Phase)'
  BY TypeStep, PhaseStep
<1> QED BY <1>1, TypeInit, PhaseInit, PTL DEF Spec

-----------------------------------------------------------------------------
(* Ownership.  Whatever a step does, to the connections it does one of six *)
(* things.                                                                 *)

Adds ==
    /\ \/ pc[Main] = "init" /\ Len(available) < MinSize
       \/ pc[Producer] = "connecting"
    /\ \E k \in Conns \ objects : /\ objects' = objects \cup {k}
                                  /\ available' = Append(available, k)
    /\ UNCHANGED <<held, active, Holders>>
    /\ pc'[Main] = pc[Main] /\ pc'[Producer] # "connecting"

Drops ==
    /\ \E n \in 0..Len(available) :
          /\ available' = SubSeq(available, n + 1, Len(available))
          /\ objects' = objects \ {available[i] : i \in 1..n}
          /\ Recyclable(n)
    /\ UNCHANGED <<held, active, Holders>>

Drains ==
    /\ available' = <<>> /\ objects' = objects \ Range(available)
    /\ UNCHANGED <<held, active, Holders>>
    /\ ~running'

Lends(c) ==
    /\ available # <<>> /\ available' = Tail(available)
    /\ c \notin Holders /\ Holders' = Holders \cup {c}
    /\ held' = [held EXCEPT ![c] = Head(available)]
    /\ active' = active + 1 /\ objects' = objects

TakesBack(c) ==
    /\ \/ Requeue /\ available' = Append(available, held[c]) /\ objects' = objects
       \/ ~Requeue /\ available' = available /\ objects' = objects \ {held[c]}
    /\ MutexFree /\ running' = running
    /\ pc'[Main] = pc[Main] /\ pc'[Producer] \in {pc[Producer], "woken"}
    /\ c \in Holders /\ Holders' = Holders \ {c}
    /\ held' = [held EXCEPT ![c] = NoConn]
    /\ active' = Decremented

LeavesAlone == UNCHANGED <<available, objects, held, active, Holders>>

LEMMA SameHolders ==
    ASSUME \A c \in Clients : pc'[c] = "holding" <=> pc[c] = "holding"
    PROVE  Holders' = Holders
BY DEF Holders, Holding

LEMMA WokenHolders ==
    ASSUME NEW f, OnlyWakes(f, pc')
    PROVE  \A c \in Clients : pc'[c] = "holding" <=> f[c] = "holding"
BY ThreadFacts DEF OnlyWakes

LEMMA ShapeOfAdd == ASSUME TypeInv, Phase, InitConnect \/ ProducerAdd PROVE Adds
<1>0. /\ TypeOK /\ Placed(pc)
      /\ pc \in [Threads -> ClientPC \cup ProducerPC \cup RecyclerPC \cup MainPC]
  BY DEF TypeInv, TypeOK, Placed
<1>1. CASE InitConnect
  <2>1. OnlyWakes(pc, pc')
    BY <1>0, <1>1, AddConnectionTypes DEF InitConnect
  <2>2. Holders' = Holders
    BY <2>1, WokenHolders, SameHolders
  <2>3. pc'[Main] = pc[Main] /\ (pc'[Producer] = pc[Producer] \/ pc'[Producer] = "woken")
    BY <2>1, ThreadFacts DEF OnlyWakes
  <2> QED BY <2>2, <2>3, <1>1 DEF InitConnect, AddConnection, Adds, Phase, StartInv
<1>2. CASE ProducerAdd
  <2> DEFINE f == [pc EXCEPT ![Producer] = "fill"]
  <2>1. Placed(f)
    BY <1>0, PlacedMoves, ThreadFacts, WaiterPlaces DEF ProducerPC
  <2>2. OnlyWakes(f, pc')
    BY <2>1, <1>0, <1>2, AddConnectionTypes DEF ProducerAdd
  <2>3. \A c \in Clients : pc'[c] = "holding" <=> pc[c] = "holding"
    BY <2>2, <1>0, WokenHolders, ThreadFacts
  <2>4. pc'[Main] = pc[Main] /\ pc'[Producer] = "fill"
    BY <2>2, <1>0, ThreadFacts DEF OnlyWakes
  <2> QED BY <2>3, <2>4, <1>2, SameHolders DEF ProducerAdd, AddConnection, Adds
<1> QED BY <1>1, <1>2

LEMMA ShapeOfReturn == ASSUME TypeInv, NEW c \in Clients, Return(c) PROVE TakesBack(c)
<1>0. /\ TypeOK /\ Placed(pc)
      /\ pc \in [Threads -> ClientPC \cup ProducerPC \cup RecyclerPC \cup MainPC]
  BY DEF TypeInv, TypeOK, Placed
<1> DEFINE f == [pc EXCEPT ![c] = "out"]
<1>1. Placed(f)
  BY <1>0, PlacedMoves, ThreadFacts, WaiterPlaces DEF ClientPC
<1>2. OnlyWakes(f, pc')
  BY <1>1, NotifyWakes DEF Return
<1>3. \A d \in Clients : pc'[d] = "holding" <=> (pc[d] = "holding" /\ d # c)
  <2>1. \A d \in Clients : f[d] = IF d = c THEN "out" ELSE pc[d]
    BY <1>0, ThreadFacts
  <2> HIDE DEF f
  <2>2. \A d \in Clients : pc'[d] = "holding" <=> f[d] = "holding"
    BY <1>2, WokenHolders
  <2> QED BY <2>1, <2>2
<1>4. c \in Holders /\ Holders' = Holders \ {c}
  BY <1>3 DEF Return, Holders, Holding
<1>5. pc'[Main] = pc[Main] /\ pc'[Producer] \in {pc[Producer], "woken"}
  BY <1>2, <1>0, ThreadFacts DEF OnlyWakes
<1> QED BY <1>4, <1>5 DEF Return, TakesBack

LEMMA Shapes ==
    ASSUME TypeInv, Phase, [Next]_vars
    PROVE  \/ Adds \/ Drops \/ Drains \/ LeavesAlone
           \/ \E c \in Clients : Lends(c) \/ TakesBack(c)
<1>0. TypeOK /\ Placed(pc) /\ pc \in [Threads -> ClientPC \cup ProducerPC \cup RecyclerPC \cup MainPC]
  BY DEF TypeInv, TypeOK, Placed
<1>2. CASE InitFail
  BY <1>0, <1>2, ThreadFacts, SameHolders DEF InitFail, DrainAvailable, Drains
<1>3. CASE InitDone
  BY <1>0, <1>3, ThreadFacts, SameHolders DEF InitDone, poolVars, LeavesAlone
<1>4. CASE Shutdown
  BY <1>0, <1>4, ThreadFacts, SameHolders DEF Shutdown, poolVars, LeavesAlone
<1>5. CASE ShutdownNotify
  <2> DEFINE f == [pc EXCEPT ![Main] = "joinProducer"]
  <2>1. Placed(f)
    BY <1>0, PlacedMoves, ThreadFacts, WaiterPlaces DEF MainPC
  <2>2. OnlyWakes(f, pc')
    BY <2>1, <1>5, NotifyWakes DEF ShutdownNotify
  <2>3. \A c \in Clients : pc'[c] = "holding" <=> pc[c] = "holding"
    BY <2>2, <1>0, WokenHolders, ThreadFacts
  <2> QED BY <2>3, <1>5, SameHolders DEF ShutdownNotify, poolVars, LeavesAlone
<1>6. CASE JoinProducer \/ JoinRecycler
  BY <1>0, <1>6, ThreadFacts, SameHolders DEF JoinProducer, JoinRecycler, poolVars, LeavesAlone
<1>7. CASE Drain
  BY <1>0, <1>7, ThreadFacts, SameHolders
     DEF Drain, DrainAvailable, Drains, Phase, StopInv
<1>8. ASSUME NEW w \in Waiters, WaitStep(w) PROVE LeavesAlone
  BY <1>0, <1>8, ThreadFacts, SameHolders
     DEF WaitStep, PrepareWait, Block, Deadline, Wake, AtWait, poolVars, LeavesAlone
<1>9. ASSUME NEW c \in Clients, ClientStep(c) PROVE LeavesAlone \/ Lends(c) \/ TakesBack(c)
  <2>1. CASE Call(c)
    BY <1>0, <2>1, ThreadFacts, SameHolders DEF Call, poolVars, LeavesAlone
  <2>2. CASE Take(c)
    <3>1. c \notin Holders /\ Holders' = Holders \cup {c}
      BY <1>0, <2>2, ThreadFacts DEF Take, AtWait, Holders, Holding
    <3> QED BY <3>1, <2>2 DEF Take, Popped, Lends
  <2>3. CASE GiveUp(c)
    BY <1>0, <2>3, ThreadFacts, SameHolders DEF GiveUp, AtWait, poolVars, LeavesAlone
  <2> QED BY <1>9, <2>1, <2>2, <2>3, ShapeOfReturn DEF ClientStep
<1>11. CASE ProducerLoop \/ ProducerAwake \/ ProducerConnect \/ ProducerRelease
  <2>1. \A c \in Clients : pc'[c] = pc[c]
    BY <1>0, <1>11, ThreadFacts
       DEF ProducerLoop, ProducerAwake, ProducerConnect, ProducerRelease
  <2> QED BY <2>1, <1>11, SameHolders
          DEF ProducerLoop, ProducerAwake, ProducerConnect, ProducerRelease, poolVars, LeavesAlone
<1>12. CASE RecyclerLoop
  BY <1>0, <1>12, ThreadFacts, SameHolders DEF RecyclerLoop, poolVars, LeavesAlone
<1>13. CASE Recycle
  BY <1>0, <1>13, ThreadFacts, SameHolders DEF Recycle, Drops
<1>14. CASE Age \/ DbRestart \/ UNCHANGED vars
  BY <1>14, SameHolders DEF Age, DbRestart, vars, LeavesAlone
<1> QED BY <1>2, <1>3, <1>4, <1>5, <1>6, <1>7, <1>8, <1>9, <1>11, <1>12,
           <1>13, <1>14, ShapeOfAdd DEF Next, MainStep, ProducerStep

Owned == OneOwner /\ NoLeak

LEMMA SameLent ==
    ASSUME UNCHANGED <<held, Holders>>
    PROVE  Lent' = Lent /\ ((\A c, d \in Holders : held[c] = held[d] => c = d)
                            => (\A c, d \in Holders : held[c] = held[d] => c = d)')
BY DEF Lent

LEMMA OwnedStep ==
    ASSUME TypeInv, Phase, Owned, [Next]_vars
    PROVE  Owned'
<1>0. /\ available \in Seq(Conns) /\ Distinct(available)
      /\ held \in [Clients -> Conns \cup {NoConn}]
      /\ \A c \in Holders : held[c] \in Conns
      /\ Holders \subseteq Clients
  BY DEF TypeInv, TypeOK, Owned, OneOwner, Distinct, HeldOK, Holders
<1>1. CASE Adds
  <2>1. PICK k \in Conns \ objects : /\ objects' = objects \cup {k}
                                     /\ available' = Append(available, k)
    BY <1>1 DEF Adds
  <2>2. k \notin Range(available) /\ k \notin Lent
    BY <2>1 DEF Owned, NoLeak
  <2>3. Range(available)' = Range(available) \cup {k} /\ Distinct(available)'
    BY <1>0, <2>1, <2>2, RangeOfAppend
  <2>4. Lent' = Lent /\ (\A c, d \in Holders : held[c] = held[d] => c = d)'
    BY <1>1, SameLent DEF Adds, Owned, OneOwner
  <2> QED BY <2>1, <2>2, <2>3, <2>4 DEF Owned, OneOwner, NoLeak, Distinct
<1>2. CASE Drops
  <2>1. PICK n \in 0..Len(available) :
          /\ available' = SubSeq(available, n + 1, Len(available))
          /\ objects' = objects \ {available[i] : i \in 1..n}
    BY <1>2 DEF Drops
  <2> DEFINE gone == {available[i] : i \in 1..n}
  <2>2. Range(available)' = Range(available) \ gone /\ Distinct(available)'
    BY <1>0, <2>1, RangeOfDrop, ZenonT(30)
  <2>3. gone \subseteq Range(available)
    BY <1>0 DEF Range
  <2>4. Lent' = Lent /\ (\A c, d \in Holders : held[c] = held[d] => c = d)'
    BY <1>2, SameLent DEF Drops, Owned, OneOwner
  <2> QED BY <2>1, <2>2, <2>3, <2>4 DEF Owned, OneOwner, NoLeak, Distinct
<1>3. CASE Drains
  <2>1. Range(available)' = {} /\ Distinct(available)'
    BY <1>3 DEF Drains, Range, Distinct
  <2>2. Lent' = Lent /\ (\A c, d \in Holders : held[c] = held[d] => c = d)'
    BY <1>3, SameLent DEF Drains, Owned, OneOwner
  <2> QED BY <2>1, <2>2, <1>3 DEF Owned, OneOwner, NoLeak, Distinct, Drains
<1>4. CASE LeavesAlone
  BY <1>4 DEF LeavesAlone, Owned, OneOwner, NoLeak, Lent, Range
<1>5. ASSUME NEW c \in Clients, Lends(c) PROVE Owned'
  <2> DEFINE k == Head(available)
  <2>1. /\ Range(available)' = Range(available) \ {k} /\ Distinct(available)'
        /\ k \in Range(available)
    BY <1>0, <1>5, RangeOfTail DEF Lends
  <2> HIDE DEF k
  <2>2. /\ c \notin Holders /\ Holders' = Holders \cup {c}
        /\ held'[c] = k /\ \A d \in Clients : d # c => held'[d] = held[d]
    BY <1>0, <1>5 DEF Lends, k
  <2>3. Lent' = Lent \cup {k}
    BY <2>2, <1>0 DEF Lent
  <2>4. k \notin Lent
    BY <2>1 DEF Owned, OneOwner
  <2>5. (\A a, b \in Holders : held[a] = held[b] => a = b)'
    BY <2>2, <2>4, <1>0 DEF Lent, Owned, OneOwner
  <2> QED BY <2>1, <2>3, <2>4, <2>5, <1>5 DEF Lends, Owned, OneOwner, NoLeak, Distinct
<1>6. ASSUME NEW c \in Clients, TakesBack(c) PROVE Owned'
  <2> DEFINE k == held[c]
  <2>1. /\ c \in Holders /\ Holders' = Holders \ {c}
        /\ \A d \in Clients : d # c => held'[d] = held[d]
        /\ k \in Conns /\ k \in Lent /\ k \notin Range(available)
    BY <1>0, <1>6 DEF TakesBack, Lent, Owned, OneOwner
  <2>2. Lent' = Lent \ {k}
    BY <2>1, <1>0 DEF Lent, Owned, OneOwner
  <2>3. (\A a, b \in Holders : held[a] = held[b] => a = b)'
    BY <2>1, <1>0 DEF Owned, OneOwner
  <2>4. CASE available' = Append(available, k) /\ objects' = objects
    <3>1. Range(available)' = Range(available) \cup {k} /\ Distinct(available)'
      BY <1>0, <2>1, <2>4, RangeOfAppend
    <3> QED BY <3>1, <2>1, <2>2, <2>3, <2>4 DEF Owned, OneOwner, NoLeak, Distinct
  <2>5. CASE available' = available /\ objects' = objects \ {k}
    <3>1. Range(available)' = Range(available) /\ Distinct(available)'
      BY <1>0, <2>5 DEF Distinct, Range
    <3> QED BY <3>1, <2>1, <2>2, <2>3, <2>5 DEF Owned, OneOwner, NoLeak, Distinct
  <2> QED BY <1>6, <2>4, <2>5 DEF TakesBack
<1> QED BY <1>1, <1>2, <1>3, <1>4, <1>5, <1>6, Shapes

LEMMA OwnedInit == Init => Owned
<1> SUFFICES ASSUME Init PROVE Owned
  OBVIOUS
<1>1. Holders = {} /\ Lent = {}
  BY ThreadFacts DEF Init, Holders, Holding, Lent
<1>2. available = <<>> /\ Range(available) = {} /\ objects = {}
  BY DEF Init, Range
<1> QED BY <1>1, <1>2 DEF Owned, OneOwner, NoLeak

LEMMA OwnedAlways == Spec => []Owned
<1>1. TypeInv /\ Phase /\ Owned /\ [Next]_vars => Owned'
  BY OwnedStep
<1> QED BY <1>1, OwnedInit, BaseInvariant, PTL DEF Spec

\* No connection is ever lent to two clients, or lent while it is queued,
\* whatever the number of clients and however the deleter, the recycler, a
\* failed init and shutdown interleave.
THEOREM ConnectionHasOneOwner == Spec => []OneOwner
<1>1. Owned => OneOwner
  BY DEF Owned
<1> QED BY <1>1, OwnedAlways, PTL

\* Every object that is allocated is queued or lent, and nothing deleted is:
\* none is leaked and none is used after it was destroyed.
THEOREM NothingLeaks == Spec => []NoLeak
<1>1. Owned => NoLeak
  BY DEF Owned
<1> QED BY <1>1, OwnedAlways, PTL

-----------------------------------------------------------------------------
(* The counter.                                                            *)

Counted == IsFiniteSet(Holders) /\ ActiveExact

LEMMA CountedStep ==
    ASSUME TypeInv, Phase, Counted, [Next]_vars
    PROVE  Counted'
<1>0. active \in Nat /\ active = Cardinality(Holders) /\ IsFiniteSet(Holders)
  BY DEF TypeInv, TypeOK, Counted, ActiveExact
<1>1. CASE UNCHANGED <<active, Holders>>
  BY <1>1 DEF Counted, ActiveExact
<1>2. ASSUME NEW c \in Clients, Lends(c) PROVE Counted'
  <2>1. c \notin Holders /\ Holders' = Holders \cup {c} /\ active' = active + 1
    BY <1>2 DEF Lends
  <2>2. IsFiniteSet(Holders') /\ Cardinality(Holders') = Cardinality(Holders) + 1
    BY <2>1, <1>0, FS_AddElement
  <2> QED BY <2>1, <2>2, <1>0 DEF Counted, ActiveExact
<1>3. ASSUME NEW c \in Clients, TakesBack(c) PROVE Counted'
  <2>1. c \in Holders /\ Holders' = Holders \ {c} /\ active' = Decremented
    BY <1>3 DEF TakesBack
  <2>2. IsFiniteSet(Holders') /\ Cardinality(Holders') = Cardinality(Holders) - 1
    BY <2>1, <1>0, FS_RemoveElement
  <2>3. Cardinality(Holders) # 0
    BY <2>1, <1>0, FS_EmptySet
  <2> QED BY <2>1, <2>2, <2>3, <1>0 DEF Counted, ActiveExact, Decremented
<1> QED BY <1>1, <1>2, <1>3, Shapes DEF Adds, Drops, Drains, LeavesAlone

\* active_count_ is exactly the number of clients that hold a connection, so
\* the test for zero in the deleter never matters.
THEOREM ActiveCountExact == Spec => []ActiveExact
<1>1. Init => Counted
  <2>1. Init => Holders = {} /\ active = 0
    BY ThreadFacts DEF Init, Holders, Holding
  <2> QED BY <2>1, FS_EmptySet DEF Counted, ActiveExact
<1>2. TypeInv /\ Phase /\ Counted /\ [Next]_vars => Counted'
  BY CountedStep
<1>3. Counted => ActiveExact
  BY DEF Counted
<1> QED BY <1>1, <1>2, <1>3, BaseInvariant, PTL DEF Spec

-----------------------------------------------------------------------------
(* The length of the queue, a clean stop and the reasons to destroy.       *)

\* A connect has started only because the queue was short, and the mutex is
\* held until it ends: nobody else pushes meanwhile.
QueueInv ==
    /\ QueueBound
    /\ pc[Producer] = "connecting" => Len(available) < MinSize

\* A stopped pool is empty.
EmptyInv == pc[Main] \in {"down", "failed"} => available = <<>>

\* How the producer comes to connect and main to its end.
LEMMA Arrivals ==
    ASSUME TypeInv, Phase, [Next]_vars
    PROVE  /\ pc'[Producer] = "connecting" =>
                \/ pc[Producer] = "connecting"
                \/ available' = available /\ Len(available) < MinSize
           /\ pc'[Main] \in {"down", "failed"} =>
                pc[Main] \in {"down", "failed"} \/ available' = <<>>
<1>0. TypeOK /\ Placed(pc) /\ DOMAIN pc = Threads
  BY DEF TypeInv, TypeOK, Placed
<1>1. CASE Adds \/ \E c \in Clients : TakesBack(c)
  BY <1>1 DEF Adds, TakesBack
<1>2. CASE InitFail \/ Drain \/ InitDone
  BY <1>2, <1>0, ThreadFacts
     DEF InitFail, Drain, InitDone, DrainAvailable, Phase, StartInv, StopInv
<1>3. CASE Shutdown \/ JoinProducer \/ JoinRecycler
  BY <1>3, <1>0, ThreadFacts DEF Shutdown, JoinProducer, JoinRecycler
<1>4. CASE ShutdownNotify
  BY <1>4, <1>0, ThreadFacts DEF ShutdownNotify, NotifyAll
<1>5. ASSUME NEW w \in Waiters, WaitStep(w)
      PROVE  pc'[Main] = pc[Main] /\ pc'[Producer] \in {pc[Producer], "blocking", "waiting", "woken"}
  BY <1>5, <1>0, ThreadFacts DEF WaitStep, PrepareWait, Block, Deadline, Wake
<1>6. ASSUME NEW c \in Clients, Call(c) \/ Take(c) \/ GiveUp(c)
      PROVE  pc'[Main] = pc[Main] /\ pc'[Producer] = pc[Producer]
  BY <1>6, <1>0, ThreadFacts DEF Call, Take, GiveUp
<1>7. CASE ProducerLoop \/ ProducerAwake \/ ProducerConnect \/ ProducerRelease
  BY <1>7, <1>0, ThreadFacts
     DEF ProducerLoop, ProducerAwake, ProducerConnect, ProducerRelease, poolVars
<1>8. CASE RecyclerLoop \/ Recycle \/ Age \/ DbRestart \/ UNCHANGED vars
  BY <1>8, <1>0, ThreadFacts DEF RecyclerLoop, Recycle, Age, DbRestart, vars
<1>9. InitConnect \/ ProducerAdd => Adds
  BY ShapeOfAdd
<1>10. ASSUME NEW c \in Clients, Return(c) PROVE TakesBack(c)
  BY <1>10, ShapeOfReturn
<1> QED BY <1>1, <1>2, <1>3, <1>4, <1>5, <1>6, <1>7, <1>8, <1>9, <1>10
        DEF Next, MainStep, ClientStep, ProducerStep

LEMMA QueueStep == TypeInv /\ Phase /\ QueueInv /\ EmptyInv /\ [Next]_vars
                     => QueueInv' /\ EmptyInv'
<1> SUFFICES ASSUME TypeInv, Phase, QueueInv, EmptyInv, [Next]_vars
             PROVE  QueueInv' /\ EmptyInv'
  OBVIOUS
<1>0. available \in Seq(Conns) /\ Len(available) \in Nat
  BY DEF TypeInv, TypeOK
<1>1. CASE Adds
  <2>1. Len(available) < MinSize
    BY <1>1 DEF Adds, QueueInv
  <2>2. Len(available') = Len(available) + 1
    BY <1>0, <1>1, RangeOfAppend DEF Adds
  <2>3. pc[Main] \notin {"down", "failed"}
    BY <1>1 DEF Adds, Phase, StartInv, StopInv
  <2> QED BY <2>1, <2>2, <2>3, <1>0, <1>1, SizeAssumption
          DEF Adds, QueueInv, QueueBound, EmptyInv
<1>2. ASSUME NEW c \in Clients, TakesBack(c) PROVE QueueInv' /\ EmptyInv'
  <2>1. mutex # Producer
    BY <1>2, ThreadFacts DEF TakesBack, MutexFree
  <2>2. pc'[Producer] # "connecting"
    BY <2>1, <1>2 DEF TakesBack, Phase, MutexInv
  <2>3. CASE Requeue /\ available' = Append(available, held[c])
    <3>1. held[c] \in Conns
      BY <1>2 DEF TakesBack, TypeInv, HeldOK, Holders
    <3>2. Len(available') = Len(available) + 1
      BY <2>3, <3>1, <1>0, RangeOfAppend
    <3>3. pc[Main] \notin {"down", "failed"}
      BY <2>3 DEF Requeue, Phase, StopInv
    <3> QED BY <3>2, <3>3, <2>2, <2>3, <1>0, <1>2, SizeAssumption
            DEF TakesBack, Requeue, QueueInv, QueueBound, EmptyInv
  <2>4. CASE available' = available
    BY <2>2, <2>4, <1>2 DEF TakesBack, QueueInv, QueueBound, EmptyInv
  <2> QED BY <1>2, <2>3, <2>4 DEF TakesBack
<1>3. CASE Drops \/ Drains \/ LeavesAlone \/ \E c \in Clients : Lends(c)
  <2>1. Len(available') \in Nat /\ Len(available') <= Len(available)
    <3>1. CASE Drops
      BY <3>1, <1>0 DEF Drops
    <3>2. CASE Drains
      BY <3>2, <1>0 DEF Drains
    <3>3. CASE LeavesAlone
      BY <3>3, <1>0 DEF LeavesAlone
    <3>4. CASE \E c \in Clients : Lends(c)
      BY <3>4, <1>0, RangeOfTail DEF Lends
    <3> QED BY <1>3, <3>1, <3>2, <3>3, <3>4
  <2>2. available' \in Seq(Conns)
    BY TypeStep DEF TypeInv, TypeOK
  <2>3. available = <<>> => available' = <<>>
    BY <2>1, <2>2, <1>0
  <2>4. QueueBound'
    BY <2>1, <1>0, SizeAssumption DEF QueueInv, QueueBound
  <2>5. pc'[Producer] = "connecting" => Len(available') < MinSize
    BY <2>1, <1>0, SizeAssumption, Arrivals DEF QueueInv
  <2>6. EmptyInv'
    BY <2>3, Arrivals DEF EmptyInv
  <2> QED BY <2>4, <2>5, <2>6 DEF QueueInv
<1> QED BY <1>1, <1>2, <1>3, Shapes

LEMMA QueueAlways == Spec => [](QueueInv /\ EmptyInv)
<1>1. Init => QueueInv /\ EmptyInv
  <2>1. Init => available = <<>> /\ Len(available) = 0 /\ pc[Producer] = "unborn"
    BY ThreadFacts DEF Init
  <2> QED BY <2>1, SizeAssumption DEF QueueInv, QueueBound, EmptyInv
<1> QED BY <1>1, QueueStep, BaseInvariant, PTL DEF Spec

\* The queue never holds more than max_size connections: the producer fills it
\* to min_size only, under a mutex that no deleter gets meanwhile.
THEOREM QueueIsBounded == Spec => []QueueBound
<1>1. QueueInv => QueueBound
  BY DEF QueueInv
<1> QED BY <1>1, QueueAlways, PTL

\* After shutdown() both threads have ended and the queue is empty for good:
\* a guard that is released later destroys its connection.
THEOREM ShutdownIsClean == Spec => []CleanStop
<1>1. Phase /\ EmptyInv => CleanStop
  BY DEF Phase, StartInv, StopInv, EmptyInv, CleanStop
<1> QED BY <1>1, BaseInvariant, QueueAlways, PTL

\* A running pool destroys a connection only if it was idle for too long and
\* min_size others remain, or if the queue was full when it came back.
THEOREM RetirementIsJustified == Spec => RetireJustified
<1> DEFINE Justified ==
      \A k \in objects \ objects' :
          running' => \/ k \in stale /\ Len(available') >= MinSize
                      \/ Len(available) >= MaxSize
<1>1. ASSUME TypeInv, Phase, [Next]_vars PROVE Justified
  <2>0. available \in Seq(Conns) /\ Len(available) \in Nat
    BY <1>1 DEF TypeInv, TypeOK
  <2>1. CASE Drops
    <3>1. PICK n \in 0..Len(available) :
            /\ available' = SubSeq(available, n + 1, Len(available))
            /\ objects' = objects \ {available[i] : i \in 1..n}
            /\ Recyclable(n)
      BY <2>1 DEF Drops
    <3>2. ASSUME NEW k \in objects \ objects' PROVE k \in stale /\ n > 0
      BY <3>1 DEF Recyclable
    <3>3. n > 0 => Len(available') >= MinSize
      BY <3>1, <2>0 DEF Recyclable
    <3> QED BY <3>2, <3>3
  <2>2. CASE Drains \/ Adds \/ LeavesAlone
    BY <2>2 DEF Drains, Adds, LeavesAlone
  <2>3. ASSUME NEW c \in Clients, Lends(c) \/ TakesBack(c) PROVE Justified
    <3>1. CASE Lends(c)
      BY <3>1 DEF Lends
    <3>2. CASE TakesBack(c)
      BY <3>2, <2>0, SizeAssumption DEF TakesBack, Requeue
    <3> QED BY <2>3, <3>1, <3>2
  <2> QED BY <1>1, <2>1, <2>2, <2>3, Shapes
<1>2. TypeInv /\ Phase /\ [Next]_vars => [Justified]_vars
  BY <1>1
<1>3. Spec => [][Justified]_vars
  BY <1>2, BaseInvariant, PTL DEF Spec
<1> QED BY <1>3 DEF RetireJustified
=============================================================================
