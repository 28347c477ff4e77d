--------------------------- MODULE FrontEnd_proofs ---------------------------
(***************************************************************************)
(* Proofs about the FastCGI front end, for any number of worker threads:   *)
(* the slots are each in one place, the assertions of the ring and of the  *)
(* queue hold, except that of the ring after a wake-up without a signal,   *)
(* and the front end implements the safety of Connections.                 *)
(***************************************************************************)
EXTENDS FrontEnd, FiniteSetTheorems, TLAPS

-----------------------------------------------------------------------------
(* The inductive invariant.                                                *)

NoWorker == \A w \in Workers : wpc[w] = "off"

\* Where run() is inside the pool, and which threads the pool then has: all of
\* them between start() and the join of stop().
PoolPhase ==
    /\ numThreads = NumThreads /\ old = {} /\ pause = 0
    /\ threads \in {{}, Workers}
    /\ threads = {} => NoWorker
    /\ threads = Workers => \A w \in Workers : wpc[w] # "off" /\ (wpc[w] = "exited" => stop)
    /\ apc \in {"open", "cleanup", "returned"} => threads = {}
    /\ apc \notin {"open", "stopping", "cleanup", "returned"} => threads = Workers
    /\ apc = "stopping" => /\ cpc[Acceptor] \in {"joining", "joined"}
                           /\ cpc[Acceptor] = "joining" => threads = Workers
                           /\ cpc[Acceptor] = "joined" => threads = {}
    /\ apc = "draining" => cpc[Acceptor] \in {"idle", "draining", "dwoken"}
    /\ apc \notin {"draining", "stopping"} => cpc[Acceptor] = "idle"
    /\ stop <=> apc = "stopping"

\* drain() has returned, or nothing was ever queued.
Drained ==
    \/ apc \in {"open", "fill", "stopping", "cleanup", "returned"}
    \/ apc = "draining" /\ cpc[Acceptor] = "idle"

\* processing counts the workers with a request, and when drain() has returned
\* there is neither a request in the queue nor a worker with one.
PoolQuiet ==
    /\ processing = Cardinality(TP!Busy)
    /\ Drained => queue = <<>> /\ TP!Busy = {}

\* Which ring operation each thread is in: run() gives back a slot it could not
\* accept on, a worker one whose connection is finished.
RingPhase ==
    /\ apc = "dequeue" => rop[Acceptor] \in {"take", "wait", "woken", "stray"}
    /\ apc = "abort" => rop[Acceptor] = "put"
    /\ apc = "aborted" => rop[Acceptor] = "stray"
    /\ apc \notin {"dequeue", "abort", "aborted"} => rop[Acceptor] = "none"
    /\ \A w \in Workers : rop[w] \in {"none", "put"}
    /\ \A w \in Workers : rop[w] = "put" => wpc[w] = "process" /\ ~conn[item[w]]

\* The slot run() has, and whether it has a connection.
HeldPhase ==
    /\ held # NoSlot <=> apc \in {"accept", "submit", "abort"}
    /\ apc \in {"accept", "abort"} => ~conn[held]
    /\ \A w \in Workers : wpc[w] = "process" => item[w] \in Slots

\* Before the ring is filled no slot is anywhere, and after run() has returned no
\* connection is open.
Unused ==
    /\ apc \in {"open", "fill"} => \A s \in Slots : ~InRing(s)
    /\ apc \in {"open", "fill", "returned"} => \A s \in Slots : ~conn[s]

IInv ==
    /\ TypeOK
    /\ PoolPhase /\ PoolQuiet
    /\ RingPhase /\ HeldPhase /\ Unused
    /\ SlotInOnePlace /\ SlotUsedOnce /\ RingSlotsFinished
    /\ WokenFindsEntry

-----------------------------------------------------------------------------
(* The constants.                                                          *)

LEMMA Sizes ==
    /\ NumThreads \in Nat /\ NumThreads > 0
    /\ MaxConnections \in Nat /\ MaxConnections > 0
    /\ CounterMod \in Nat /\ CounterMod > MaxConnections
    /\ NoSlot \notin Slots
    /\ Acceptor \notin Workers
  <1>1. NumThreads \in Nat /\ NumThreads > 0
    BY FrontEndAssumption, FS_CardinalityType, FS_EmptySet DEF NumThreads
  <1>2. MaxConnections \in Nat /\ MaxConnections > 0
    BY <1>1 DEF MaxConnections
  <1> QED
    BY <1>1, <1>2, FrontEndAssumption

\* A ticket selects a bucket, and the counters wrap.
LEMMA Tickets ==
    ASSUME NEW n \in 0 .. CounterMod - 1
    PROVE  /\ R!Inc(n) \in 0 .. CounterMod - 1
           /\ R!Inc(n) % MaxConnections \in R!Buckets
  <1>1. CounterMod \in Nat /\ CounterMod > 0 /\ MaxConnections \in Nat /\ MaxConnections > 0
    BY Sizes
  <1>2. n + 1 \in Nat
    BY <1>1
  <1>3. (n + 1) % CounterMod \in 0 .. CounterMod - 1
    BY <1>1, <1>2
  <1>4. \A m \in Nat : m % MaxConnections \in 0 .. MaxConnections - 1
    BY <1>1
  <1> QED
    BY <1>1, <1>3, <1>4 DEF R!Inc, R!Buckets

\* The pool counts as this module does.
LEMMA PoolCardinality == \A S : TP!Cardinality(S) = Cardinality(S)
  BY DEF TP!Cardinality, Cardinality

\* The pool never has more threads than it should: nobody retires.
LEMMA NeverTooMany ==
    ASSUME PoolPhase
    PROVE  ~TP!TooMany
  <1>1. threads \subseteq Workers
    BY Zenon DEF PoolPhase
  <1>2. Cardinality(threads) <= Cardinality(Workers)
    BY <1>1, FrontEndAssumption, FS_Subset
  <1>3. Cardinality(threads) \in Nat /\ Cardinality(Workers) \in Nat
    BY <1>1, FrontEndAssumption, FS_Subset, FS_CardinalityType
  <1>4. numThreads = Cardinality(Workers)
    BY Zenon DEF PoolPhase, NumThreads
  <1> QED
    BY <1>2, <1>3, <1>4, PoolCardinality DEF TP!TooMany

\* One turn of the loop of worker(): leave, take the front of the queue, or sleep.
LEMMA LoopEffect ==
    ASSUME TP!TypeOK, PoolPhase, NEW w \in Workers, NEW p \in Int, TP!WorkerLoop(w, p)
    PROVE  /\ threads' = threads /\ old' = old
           /\ \/ /\ stop
                 /\ wpc' = [wpc EXCEPT ![w] = "exited"] /\ item' = [item EXCEPT ![w] = NoSlot]
                 /\ processing' = p /\ queue' = queue
              \/ /\ ~stop /\ queue # <<>> /\ queue' = Tail(queue)
                 /\ wpc' = [wpc EXCEPT ![w] = "process"]
                 /\ item' = [item EXCEPT ![w] = Head(queue)]
                 /\ processing' = p + 1
              \/ /\ ~stop /\ queue = <<>> /\ queue' = queue
                 /\ wpc' = [wpc EXCEPT ![w] = "wait"] /\ item' = [item EXCEPT ![w] = NoSlot]
                 /\ processing' = p
  <1>1. TP!JoinOld(wpc) = wpc
    BY Zenon DEF TP!JoinOld, PoolPhase, TP!TypeOK
  <1>2. old = {} /\ pause = 0
    BY Zenon DEF PoolPhase
  <1> QED
    BY Zenon, <1>1, <1>2, NeverTooMany DEF TP!WorkerLoop, TP!MayDequeue, TP!PopFront

-----------------------------------------------------------------------------
(* Types.                                                                  *)

LEMMA InitType == Init => TypeOK
  <1> SUFFICES ASSUME Init PROVE TypeOK
    OBVIOUS
  <1>1. TP!TypeOK
    <2>1. stop \in BOOLEAN
      BY Zenon DEF Init, TP!Init
    <2>2. queue \in Seq(Slots)
      BY DEF Init, TP!Init
    <2>3. /\ wpc \in [Workers -> TP!WorkerStates]
          /\ item \in [Workers -> Slots \cup {NoSlot}]
          /\ cpc \in [{Acceptor} -> TP!CallerStates]
      BY Zenon DEF Init, TP!Init, TP!WorkerStates, TP!CallerStates
    <2>4. /\ threads \subseteq Workers /\ old \subseteq Workers
          /\ numThreads \in {NumThreads}
          /\ processing \in Int /\ pause \in Int /\ draining \in Int
      BY DEF Init, TP!Init
    <2> QED
      BY <2>1, <2>2, <2>3, <2>4 DEF TP!TypeOK
  <1>2. R!RingTypeOK
    <2>1. 0 \in R!Buckets /\ 0 \in 0 .. CounterMod - 1
      BY Sizes DEF R!Buckets
    <2>2. buckets \in [R!Buckets -> Seq(Slots)]
      BY DEF Init, R!RingInit
    <2> QED
      BY <2>1, <2>2 DEF Init, R!RingInit, R!RingTypeOK, R!RingOps
  <1>3. apc \in AcceptorStates /\ held \in Slots \cup {NoSlot} /\ conn \in [Slots -> BOOLEAN]
    BY Zenon DEF Init, AcceptorStates
  <1> QED
    BY <1>1, <1>2, <1>3 DEF TypeOK

\* The pool's own steps keep the types of its fields.
LEMMA PoolStepType ==
    ASSUME TP!TypeOK, PoolPhase, NEW w \in Workers, PoolStep(w)
    PROVE  TP!TypeOK'
  <1> USE DEF TP!TypeOK, TP!WorkerStates, TP!callerVars
  <1>1. CASE TP!WaitTimeout(w)
    BY Zenon, <1>1 DEF TP!WaitTimeout
  <1>2. ASSUME NEW p \in Int, TP!WorkerLoop(w, p)
        PROVE  /\ wpc' \in [Workers -> TP!WorkerStates]
               /\ item' \in [Workers -> Slots \cup {NoSlot}]
               /\ threads' \subseteq Workers
               /\ old' \subseteq Workers
               /\ queue' \in Seq(Slots)
               /\ processing' \in Int
    <2>1. queue # <<>> => Head(queue) \in Slots /\ Tail(queue) \in Seq(Slots)
      OBVIOUS
    <2>2. wpc' \in [Workers -> TP!WorkerStates]
      BY Zenon, <1>2, LoopEffect
    <2>3. item' \in [Workers -> Slots \cup {NoSlot}]
      BY Zenon, <1>2, <2>1, LoopEffect
    <2>4. queue' \in Seq(Slots) /\ processing' \in Int /\ threads' = threads /\ old' = old
      BY SMTT(60), Z3T(60), <1>2, <2>1, LoopEffect
    <2> QED
      BY Zenon, <2>2, <2>3, <2>4
  <1>3. CASE TP!WorkerStart(w)
    BY Zenon, <1>2, <1>3 DEF TP!WorkerStart
  <1>4. CASE TP!WorkerFinish(w)
    <2>1. processing - 1 \in Int
      OBVIOUS
    <2>2. cpc' \in [{Acceptor} -> TP!CallerStates]
      BY Zenon, <1>4 DEF TP!WorkerFinish, TP!WakeCallers, TP!CallerStates
    <2> QED
      BY Zenon, <1>2, <1>4, <2>1, <2>2 DEF TP!WorkerFinish
  <1> QED
    BY Zenon, <1>1, <1>3, <1>4 DEF PoolStep

\* run()'s calls into the pool keep the types of its fields.
LEMMA RunPoolType ==
    ASSUME TP!TypeOK, held \in Slots \cup {NoSlot},
           apc = "submit" => held \in Slots, Run
    PROVE  TP!TypeOK'
  <1> USE DEF TP!TypeOK, TP!WorkerStates, TP!CallerStates, TP!workerVars, TP!callerVars
  <1>1. CASE UNCHANGED poolVars
    BY Zenon, <1>1 DEF poolVars
  <1>2. CASE StartPool
    BY Zenon, <1>2 DEF StartPool, TP!Start, TP!StartThreads
  <1>3. CASE Submit
    BY SMT, Z3, <1>3 DEF Submit, TP!Queue, TP!WakeOne
  <1>4. CASE DrainPool
    BY SMT, Z3, <1>4 DEF DrainPool, TP!Drain
  <1>5. CASE DrainAgain
    BY SMT, Z3, <1>5 DEF DrainAgain, TP!DrainWake
  <1>6. CASE StopPool
    BY Zenon, <1>6 DEF StopPool, TP!StopBegin, TP!WakeAll, TP!JoinOld
  <1>7. CASE JoinPool
    BY Zenon, <1>7 DEF JoinPool, TP!StopJoin
  <1>8. CASE ClearPool
    BY Zenon, <1>8 DEF ClearPool, TP!StopClear
  <1> QED
    BY Zenon, <1>1, <1>2, <1>3, <1>4, <1>5, <1>6, <1>7, <1>8
       DEF Run, OpenFail, FillRing, AllocTicket, AllocWait, AllocTake, AllocAborts, AcceptOk,
           AcceptFail, AbortPut, Cleanup

\* The ring keeps the types of its fields, whoever uses it.
LEMMA RingType ==
    ASSUME R!RingTypeOK, NEW t \in Threads,
           \/ UNCHANGED ringVars
           \/ FillRing
           \/ R!EnqueueTicket(t) \/ R!DequeueTicket(t) \/ R!DequeueWait(t) \/ R!DequeueStray(t)
           \/ \E s \in Slots : R!EnqueuePut(t, s) \/ R!DequeueTake(t, s)
    PROVE  R!RingTypeOK'
  <1> USE DEF R!RingTypeOK, R!RingOps, Threads
  <1>1. CASE UNCHANGED ringVars
    BY Zenon, <1>1 DEF ringVars
  <1>2. CASE FillRing
    <2>1. \A b \in R!Buckets : (IF b = 0 THEN MaxConnections ELSE b) \in Slots
      BY SMT, Z3, Sizes DEF R!Buckets, Slots
    <2>2. \A b \in R!Buckets : <<IF b = 0 THEN MaxConnections ELSE b>> \in Seq(Slots)
      BY <2>1
    <2>3. buckets' \in [R!Buckets -> Seq(Slots)]
      BY Zenon, <1>2, <2>2 DEF FillRing
    <2> QED
      BY SMT, Z3, <1>2, <2>3, Sizes DEF FillRing
  <1>3. CASE R!EnqueueTicket(t)
    BY Zenon, <1>3, Tickets DEF R!EnqueueTicket
  <1>4. CASE R!DequeueTicket(t)
    BY Zenon, <1>4, Tickets DEF R!DequeueTicket
  <1>5. CASE R!DequeueWait(t) \/ R!DequeueStray(t)
    BY Zenon, <1>5 DEF R!DequeueWait, R!DequeueStray
  <1>6. ASSUME NEW s \in Slots, R!EnqueuePut(t, s) PROVE R!RingTypeOK'
    <2>1. Append(buckets[rb[t]], s) \in Seq(Slots)
      BY SMT, Z3
    <2>2. buckets' \in [R!Buckets -> Seq(Slots)]
      BY Zenon, <1>6, <2>1 DEF R!EnqueuePut
    <2>3. rop' \in [Threads -> R!RingOps]
      BY Zenon, <1>6 DEF R!EnqueuePut, R!WakeReaders
    <2> QED
      BY Zenon, <1>6, <2>2, <2>3 DEF R!EnqueuePut
  <1>7. ASSUME NEW s \in Slots, R!DequeueTake(t, s) PROVE R!RingTypeOK'
    <2>1. Tail(buckets[rb[t]]) \in Seq(Slots)
      BY SMT, Z3, <1>7 DEF R!DequeueTake
    <2>2. buckets' \in [R!Buckets -> Seq(Slots)]
      BY Zenon, <1>7, <2>1 DEF R!DequeueTake
    <2> QED
      BY Zenon, <1>7, <2>2 DEF R!DequeueTake
  <1> QED
    BY Zenon, <1>1, <1>2, <1>3, <1>4, <1>5, <1>6, <1>7

\* Every field keeps its type.
LEMMA TypeStep ==
    ASSUME IInv, [Next]_vars
    PROVE  TypeOK'
  <1>h. /\ apc \in {"accept", "submit", "abort"} => held \in Slots
        /\ \A w \in Workers : wpc[w] = "process" => item[w] \in Slots
        /\ TP!TypeOK /\ R!RingTypeOK /\ PoolPhase
        /\ apc \in AcceptorStates /\ held \in Slots \cup {NoSlot} /\ conn \in [Slots -> BOOLEAN]
    BY Zenon, Sizes DEF IInv, HeldPhase, TypeOK
  <1>a. Acceptor \in Threads /\ Workers \subseteq Threads
    BY DEF Threads
  <1>1. CASE Run
    <2>1. TP!TypeOK'
      BY <1>1, <1>h, RunPoolType
    <2>2. R!RingTypeOK'
      <3>1. \/ UNCHANGED ringVars \/ FillRing
            \/ R!EnqueueTicket(Acceptor) \/ R!DequeueTicket(Acceptor) \/ R!DequeueWait(Acceptor)
            \/ \E s \in Slots : R!EnqueuePut(Acceptor, s) \/ R!DequeueTake(Acceptor, s)
        BY Zenon, <1>1, <1>h DEF Run, OpenFail, StartPool, AllocTicket, AllocWait, AllocTake, AllocAborts,
           AcceptOk, AcceptFail, AbortPut, Submit, DrainPool, DrainAgain, StopPool, JoinPool,
           ClearPool, Cleanup
      <3> QED
        BY Zenon, <1>a, <1>h, <3>1, RingType
    <2>3. apc' \in AcceptorStates /\ held' \in Slots \cup {NoSlot}
      BY Zenon, <1>1, <1>h DEF Run, Goto, AcceptorStates, runVars, OpenFail, StartPool, FillRing, AllocTicket,
         AllocWait, AllocTake, AllocAborts, AcceptOk, AcceptFail, AbortPut, Submit, DrainPool,
         DrainAgain, StopPool, JoinPool, ClearPool, Cleanup
    <2>4. conn' \in [Slots -> BOOLEAN]
      <3>1. \/ conn' = conn
            \/ conn' = [conn EXCEPT ![held] = TRUE]
            \/ conn' = [s \in Slots |-> FALSE]
        BY Zenon, <1>1 DEF Run, runVars, OpenFail, StartPool, FillRing, AllocTicket,
         AllocWait, AllocTake, AllocAborts, AcceptOk, AcceptFail, AbortPut, Submit, DrainPool,
         DrainAgain, StopPool, JoinPool, ClearPool, Cleanup
      <3> QED
        BY Zenon, <3>1, <1>h
    <2> QED
      BY <2>1, <2>2, <2>3, <2>4 DEF TypeOK
  <1>a1. CASE AllocStray
    <2>1. R!RingTypeOK'
      BY Zenon, <1>a1, <1>a, <1>h, RingType DEF AllocStray
    <2> QED
      BY Zenon, <1>a1, <1>h, <2>1 DEF AllocStray, TypeOK, poolVars, runVars, TP!TypeOK
  <1>2. ASSUME NEW w \in Workers, Serve(w) PROVE TypeOK'
    BY Zenon, <1>2, <1>h DEF Serve, TypeOK, poolVars, ringVars, TP!TypeOK, R!RingTypeOK
  <1>3. ASSUME NEW w \in Workers, Release(w) PROVE TypeOK'
    <2>1. R!RingTypeOK'
      BY Zenon, <1>3, <1>a, <1>h, RingType DEF Release
    <2> QED
      BY Zenon, <1>3, <1>h, <2>1 DEF Release, TypeOK, poolVars, runVars, TP!TypeOK
  <1>4. ASSUME NEW w \in Workers, GiveBack(w) PROVE TypeOK'
    <2>1. item[w] \in Slots
      BY Zenon, <1>4, <1>h DEF GiveBack, TP!Process
    <2>2. R!RingTypeOK'
      BY Zenon, <1>4, <1>a, <1>h, <2>1, RingType DEF GiveBack
    <2>3. TP!TypeOK'
      BY Zenon, <1>4, <1>h DEF GiveBack, TP!Process, TP!TypeOK, TP!WorkerStates, TP!callerVars
    <2> QED
      BY Zenon, <1>4, <1>h, <2>2, <2>3 DEF GiveBack, TypeOK, runVars
  <1>5. ASSUME NEW w \in Workers, PoolStep(w) PROVE TypeOK'
    <2>1. TP!TypeOK'
      BY SMTT(30), <1>5, <1>h, PoolStepType
    <2> QED
      BY Zenon, <1>5, <1>h, <2>1 DEF PoolStep, TypeOK, ringVars, runVars, R!RingTypeOK
  <1>6. CASE UNCHANGED vars
    BY Zenon, <1>6, <1>h DEF vars, poolVars, ringVars, runVars, TypeOK, TP!TypeOK, R!RingTypeOK
  <1> QED
    BY <1>1, <1>a1, <1>2, <1>3, <1>4, <1>5, <1>6 DEF Next, Worker, HandleRequest

-----------------------------------------------------------------------------
(* The pool.                                                               *)

Spent(w) == IF wpc[w] = "finish" THEN processing - 1 ELSE processing

\* What a worker's own step in the pool does: it takes the front of the queue, or
\* it has no request afterwards.
LEMMA PoolStepEffect ==
    ASSUME TP!TypeOK, PoolPhase, NEW w \in Workers, PoolStep(w)
    PROVE  /\ UNCHANGED <<threads, old, numThreads, pause, draining, stop, ringVars, runVars>>
           /\ \/ cpc' = cpc
              \/ cpc[Acceptor] = "draining" /\ cpc' = [cpc EXCEPT ![Acceptor] = "dwoken"]
           /\ wpc[w] \in {"start", "wait", "finish"}
           /\ \/ /\ ~stop /\ queue # <<>> /\ queue' = Tail(queue)
                 /\ wpc' = [wpc EXCEPT ![w] = "process"]
                 /\ item' = [item EXCEPT ![w] = Head(queue)]
                 /\ processing' = Spent(w) + 1
              \/ /\ queue' = queue /\ processing' = Spent(w)
                 /\ \E l \in {"exited", "wait", "start"} :
                        wpc' = [wpc EXCEPT ![w] = l] /\ (l = "exited" => stop)
                 /\ \A v \in Workers \ {w} : item'[v] = item[v]
  <1> USE DEF TP!callerVars
  <1>1. CASE TP!WaitTimeout(w)
    BY Zenon, <1>1 DEF TP!WaitTimeout, PoolStep, Spent
  <1>2. CASE TP!WorkerStart(w)
    <2>1. processing \in Int
      BY Zenon DEF TP!TypeOK
    <2>2. item \in [Workers -> Slots \cup {NoSlot}]
      BY Zenon DEF TP!TypeOK
    <2>3. TP!WorkerLoop(w, processing) /\ wpc[w] = "start"
      BY Zenon, <1>2 DEF TP!WorkerStart
    <2>4. UNCHANGED <<numThreads, pause, draining, stop, ringVars, runVars, cpc>>
      BY Zenon, <1>2 DEF TP!WorkerStart, PoolStep
    <2> QED
      BY Zenon, <2>1, <2>2, <2>3, <2>4, LoopEffect DEF Spent
  <1>3. CASE TP!WorkerFinish(w)
    <2>1. processing - 1 \in Int
      BY DEF TP!TypeOK
    <2>2. item \in [Workers -> Slots \cup {NoSlot}]
      BY Zenon DEF TP!TypeOK
    <2>3. TP!WorkerLoop(w, processing - 1) /\ wpc[w] = "finish"
      BY Zenon, <1>3 DEF TP!WorkerFinish
    <2>4. UNCHANGED <<numThreads, pause, draining, stop, ringVars, runVars>>
      BY Zenon, <1>3 DEF TP!WorkerFinish, PoolStep
    <2>5. \/ cpc' = cpc
          \/ cpc[Acceptor] = "draining" /\ cpc' = [cpc EXCEPT ![Acceptor] = "dwoken"]
      <3>1. cpc[Acceptor] # "pausing"
        BY Zenon DEF PoolPhase
      <3>2. cpc' = cpc \/ cpc' = TP!WakeCallers
        BY Zenon, <1>3 DEF TP!WorkerFinish
      <3> QED
        BY Zenon, <3>1, <3>2 DEF TP!WakeCallers, TP!TypeOK
    <2> QED
      BY Zenon, <2>1, <2>2, <2>3, <2>4, <2>5, LoopEffect DEF Spent
  <1> QED
    BY Zenon, <1>1, <1>2, <1>3 DEF PoolStep

\* start() makes every worker a thread of the pool.
LEMMA StartEffect ==
    ASSUME TP!TypeOK, PoolPhase, StartPool
    PROVE  /\ threads' = Workers
           /\ \A w \in Workers : wpc'[w] = "start"
           /\ UNCHANGED <<item, old, queue, processing, cpc, pause, draining, stop, numThreads,
                          ringVars, held, conn>>
           /\ apc = "open" /\ apc' = "fill"
  <1>1. threads = {} /\ numThreads = NumThreads /\ apc = "open"
    BY Zenon DEF PoolPhase, StartPool
  <1>2. Cardinality(threads) = 0
    BY <1>1, FS_EmptySet
  <1>3. PICK new \in SUBSET {w \in Workers : wpc[w] = "off"} :
           /\ Cardinality(new) = NumThreads
           /\ threads' = threads \cup new
           /\ wpc' = [w \in Workers |-> IF w \in new THEN "start" ELSE wpc[w]]
    BY SMT, Z3, <1>1, <1>2, PoolCardinality, Sizes DEF StartPool, TP!Start, TP!StartThreads
  <1>4. new = Workers
    BY Zenon, <1>3, FrontEndAssumption, FS_Subset DEF NumThreads
  <1> QED
    BY Zenon, <1>1, <1>3, <1>4 DEF StartPool, TP!Start, TP!callerVars, Goto

\* run() is in the pool where its own step says, and the pool has its threads.
LEMMA PoolPhaseStep ==
    ASSUME IInv, [Next]_vars
    PROVE  PoolPhase'
  <1>h. TP!TypeOK /\ PoolPhase /\ PoolQuiet /\ apc \in AcceptorStates
    BY Zenon DEF IInv, TypeOK
  <1>n. Workers # {}
    BY SMTT(30), FrontEndAssumption
  <1>1. CASE StartPool
    BY SMT, Z3, <1>1, <1>h, <1>n, StartEffect DEF PoolPhase, NoWorker
  <1>2. CASE Submit
    BY Zenon, <1>2, <1>h DEF Submit, TP!Queue, TP!WakeOne, Goto, PoolPhase, NoWorker, TP!callerVars, TP!TypeOK
  <1>3. CASE DrainPool
    BY Zenon, <1>3, <1>h DEF DrainPool, TP!Drain, Goto, PoolPhase, NoWorker, TP!workerVars, TP!TypeOK
  <1>4. CASE DrainAgain
    BY Zenon, <1>4, <1>h DEF DrainAgain, TP!DrainWake, runVars, PoolPhase, NoWorker, TP!workerVars, TP!TypeOK
  <1>5. CASE StopPool
    <2>1. TP!JoinOld(wpc) = wpc
      BY Zenon, <1>h DEF TP!JoinOld, PoolPhase, TP!TypeOK
    <2> QED
      BY Zenon, <1>5, <1>h, <2>1 DEF StopPool, TP!StopBegin, TP!WakeAll, Goto, PoolPhase, NoWorker, TP!TypeOK
  <1>6. CASE JoinPool
    BY Zenon, <1>6, <1>h, <1>n DEF JoinPool, TP!StopJoin, runVars, PoolPhase, NoWorker, TP!TypeOK
  <1>7. CASE ClearPool
    BY Zenon, <1>7, <1>h, <1>n DEF ClearPool, TP!StopClear, Goto, PoolPhase, NoWorker, TP!workerVars, TP!TypeOK
  <1>f. ASSUME UNCHANGED poolVars,
               \/ apc' = apc
               \/ apc \in {"open", "cleanup"} /\ apc' = "returned"
               \/ apc \in {"fill", "loop", "dequeue", "accept", "abort"}
                  /\ apc' \in {"loop", "dequeue", "accept", "submit", "abort", "aborted", "drain"}
        PROVE  PoolPhase'
    BY Zenon, <1>f, <1>h DEF poolVars, PoolPhase, NoWorker
  <1>8. CASE \/ OpenFail \/ FillRing \/ AllocTicket \/ AllocWait \/ AllocTake \/ AcceptOk
             \/ AcceptFail \/ AbortPut \/ Cleanup \/ AllocStray \/ AllocAborts
    BY Zenon, <1>8, <1>f DEF OpenFail, FillRing, AllocTicket, AllocWait, AllocTake, AcceptOk, AcceptFail,
       AbortPut, Cleanup, AllocStray, AllocAborts, Goto, runVars
  <1>9. ASSUME NEW w \in Workers, Serve(w) \/ Release(w) PROVE PoolPhase'
    BY Zenon, <1>9, <1>f DEF Serve, Release, runVars
  <1>10. ASSUME NEW w \in Workers, GiveBack(w) PROVE PoolPhase'
    BY Zenon, <1>10, <1>h, <1>n DEF GiveBack, TP!Process, TP!callerVars, runVars, PoolPhase, NoWorker, TP!TypeOK
  <1>11. ASSUME NEW w \in Workers, PoolStep(w) PROVE PoolPhase'
    <2>1. threads = Workers
      BY Zenon, <1>11, <1>h, PoolStepEffect DEF PoolPhase, NoWorker
    <2> QED
      BY SMTT(30), Z3T(30), <1>11, <1>h, <1>n, <2>1, PoolStepEffect DEF runVars, PoolPhase, NoWorker, TP!TypeOK
  <1>12. CASE UNCHANGED vars
    BY Zenon, <1>12, <1>h DEF vars, poolVars, ringVars, runVars, PoolPhase, NoWorker
  <1> QED
    BY Zenon, <1>1, <1>2, <1>3, <1>4, <1>5, <1>6, <1>7, <1>8, <1>9, <1>10, <1>11, <1>12
       DEF Next, Run, Worker, HandleRequest

\* The set that processing counts is finite, and empty when processing is 0.
LEMMA BusyFinite ==
    /\ IsFiniteSet(TP!Busy) /\ Cardinality(TP!Busy) \in Nat
    /\ Cardinality(TP!Busy) = 0 => TP!Busy = {}
  <1>1. TP!Busy \subseteq Workers
    BY DEF TP!Busy
  <1> QED
    BY Zenon, <1>1, FrontEndAssumption, FS_Subset, FS_CardinalityType, FS_EmptySet

\* A worker's own step in the pool keeps processing exact.
LEMMA PoolStepBusy ==
    ASSUME TP!TypeOK, PoolPhase, processing = Cardinality(TP!Busy), NEW w \in Workers, PoolStep(w)
    PROVE  /\ processing' = Cardinality(TP!Busy')
           /\ queue = <<>> /\ TP!Busy = {} => queue' = <<>> /\ TP!Busy' = {}
  <1> DEFINE B == TP!Busy
  <1>1. /\ w \in B <=> wpc[w] = "finish"
        /\ B' = (B \ {w}) \cup (IF wpc'[w] = "process" THEN {w} ELSE {})
    BY SMT, Z3, PoolStepEffect DEF TP!Busy, TP!TypeOK
  <1>a. w \in B => Cardinality(B \ {w}) = Cardinality(B) - 1
    BY Zenon, BusyFinite, FS_RemoveElement
  <1>c. w \notin B => B \ {w} = B
    BY Zenon
  <1>2. w \notin B => Cardinality(B \ {w}) = Cardinality(B)
    BY Zenon, <1>c
  <1>3. IsFiniteSet(B \ {w}) /\ w \notin B \ {w} /\ Cardinality(B \ {w}) \in Nat
    BY Zenon, BusyFinite, FS_RemoveElement, FS_CardinalityType
  <1>4. Cardinality((B \ {w}) \cup {w}) = Cardinality(B \ {w}) + 1
    BY Zenon, <1>3, FS_AddElement
  <1>5. Cardinality(B \ {w}) = Spent(w)
    BY Zenon, <1>1, <1>2, <1>a, BusyFinite DEF Spent
  <1>6. \/ wpc'[w] = "process" /\ processing' = Spent(w) + 1 /\ queue # <<>>
        \/ wpc'[w] # "process" /\ processing' = Spent(w) /\ queue' = queue
    BY Zenon, PoolStepEffect DEF TP!TypeOK
  <1>7. wpc'[w] = "process" => B' = (B \ {w}) \cup {w}
    BY Zenon, <1>1
  <1>8. wpc'[w] # "process" => B' = B \ {w}
    BY Zenon, <1>1
  <1> HIDE DEF B
  <1>9. processing' = Cardinality(B')
    BY Zenon, <1>4, <1>5, <1>6, <1>7, <1>8
  <1>10. queue = <<>> /\ B = {} => queue' = <<>> /\ B' = {}
    BY Zenon, <1>6, <1>8
  <1> QED
    BY Zenon, <1>9, <1>10 DEF B

\* processing stays exact, and once drain() has returned nothing is queued or
\* processed again.
LEMMA PoolQuietStep ==
    ASSUME IInv, [Next]_vars
    PROVE  PoolQuiet'
  <1>h. /\ TP!TypeOK /\ PoolPhase /\ apc \in AcceptorStates
        /\ processing = Cardinality(TP!Busy) /\ (Drained => queue = <<>> /\ TP!Busy = {})
        /\ PoolPhase'
    BY Zenon, PoolPhaseStep DEF IInv, TypeOK, PoolQuiet
  <1>b. ASSUME TP!Busy' = TP!Busy, processing' = processing,
               queue' = queue \/ ~Drained', Drained' => Drained \/ (processing = 0 /\ queue = <<>>)
        PROVE  PoolQuiet'
    <2>1. Drained' => queue' = <<>> /\ TP!Busy' = {}
      BY Zenon, <1>h, <1>b, BusyFinite
    <2> QED
      BY Zenon, <1>h, <1>b, <2>1 DEF PoolQuiet
  <1>1. CASE StartPool
    <2>1. TP!Busy' = TP!Busy
      BY Zenon, <1>1, <1>h, StartEffect DEF TP!Busy, Drained, PoolPhase, NoWorker
    <2> QED
      BY Zenon, <1>1, <1>b, <1>h, <2>1, StartEffect DEF Drained
  <1>2. CASE Submit
    <2>1. TP!Busy' = TP!Busy
      BY Zenon, <1>2, <1>h DEF Submit, TP!Queue, TP!WakeOne, TP!Busy, TP!TypeOK
    <2>2. ~Drained'
      BY Zenon, <1>2 DEF Submit, Goto, Drained
    <2> QED
      BY Zenon, <1>2, <1>b, <2>1, <2>2 DEF Submit, TP!Queue
  <1>3. CASE DrainPool
    <2>1. TP!Busy' = TP!Busy /\ processing' = processing /\ queue' = queue
      BY Zenon, <1>3 DEF DrainPool, TP!Drain, TP!Busy, TP!workerVars
    <2>2. Drained' => processing = 0 /\ queue = <<>>
      <3>1. Drained' => ~TP!MustWait
        BY Zenon, <1>3, <1>h DEF DrainPool, TP!Drain, Goto, Drained, TP!TypeOK
      <3> QED
        BY <3>1, <1>h, BusyFinite DEF TP!MustWait
    <2> QED
      BY Zenon, <1>b, <2>1, <2>2
  <1>4. CASE DrainAgain
    <2>1. TP!Busy' = TP!Busy /\ processing' = processing /\ queue' = queue
      BY Zenon, <1>4 DEF DrainAgain, TP!DrainWake, TP!Busy, TP!workerVars
    <2>2. Drained' => processing = 0 /\ queue = <<>>
      <3>1. Drained' => ~TP!MustWait
        BY Zenon, <1>4, <1>h DEF DrainAgain, TP!DrainWake, runVars, Drained, TP!TypeOK
      <3> QED
        BY <3>1, <1>h, BusyFinite DEF TP!MustWait
    <2> QED
      BY Zenon, <1>b, <2>1, <2>2
  <1>5. CASE StopPool
    <2>1. TP!Busy' = TP!Busy
      BY Zenon, <1>5, <1>h DEF StopPool, TP!StopBegin, TP!Busy, TP!TypeOK, TP!WakeAll, TP!JoinOld, PoolPhase
    <2>2. processing' = processing /\ queue' = queue
      BY Zenon, <1>5 DEF StopPool, TP!StopBegin
    <2>3. Drained
      BY Zenon, <1>5 DEF StopPool, TP!StopBegin, Drained
    <2> QED
      BY SMTT(30), <1>b, <2>1, <2>2, <2>3
  <1>6. CASE JoinPool \/ ClearPool
    <2>1. TP!Busy' = TP!Busy
      BY Zenon, <1>6, <1>h DEF JoinPool, ClearPool, TP!StopJoin, TP!StopClear, TP!Busy, TP!TypeOK, TP!workerVars
    <2>2. processing' = processing /\ queue' = queue /\ Drained
      BY Zenon, <1>6 DEF JoinPool, ClearPool, TP!StopJoin, TP!StopClear, Drained
    <2> QED
      BY Zenon, <1>b, <2>1, <2>2
  <1>7. CASE \/ OpenFail \/ FillRing \/ AllocTicket \/ AllocWait \/ AllocTake \/ AcceptOk
             \/ AcceptFail \/ AbortPut \/ Cleanup \/ AllocStray \/ AllocAborts
    <2>1. TP!Busy' = TP!Busy /\ processing' = processing /\ queue' = queue /\ cpc' = cpc
      BY Zenon, <1>7 DEF OpenFail, FillRing, AllocTicket, AllocWait, AllocTake, AcceptOk, AcceptFail,
         AbortPut, Cleanup, AllocStray, AllocAborts, poolVars, TP!Busy
    <2>2. Drained' => Drained
      BY Zenon, <1>7, <2>1 DEF OpenFail, FillRing, AllocTicket, AllocWait, AllocTake, AcceptOk, AcceptFail,
         AbortPut, Cleanup, AllocStray, AllocAborts, Goto, runVars, Drained
    <2> QED
      BY Zenon, <1>b, <2>1, <2>2
  <1>8. ASSUME NEW w \in Workers, Serve(w) \/ Release(w) PROVE PoolQuiet'
    <2>1. TP!Busy' = TP!Busy /\ processing' = processing /\ queue' = queue /\ (Drained' => Drained)
      BY Zenon, <1>8 DEF Serve, Release, poolVars, runVars, TP!Busy, Drained
    <2> QED
      BY Zenon, <1>b, <2>1
  <1>9. ASSUME NEW w \in Workers, GiveBack(w) PROVE PoolQuiet'
    <2>1. TP!Busy' = TP!Busy
      BY Zenon, <1>9, <1>h DEF GiveBack, TP!Process, TP!Busy, TP!TypeOK
    <2>2. processing' = processing /\ queue' = queue /\ (Drained' => Drained)
      BY Zenon, <1>9 DEF GiveBack, TP!Process, TP!callerVars, runVars, Drained
    <2> QED
      BY Zenon, <1>b, <2>1, <2>2
  <1>10. ASSUME NEW w \in Workers, PoolStep(w) PROVE PoolQuiet'
    <2>1. /\ processing' = Cardinality(TP!Busy')
          /\ queue = <<>> /\ TP!Busy = {} => queue' = <<>> /\ TP!Busy' = {}
      BY Zenon, <1>10, <1>h, PoolStepBusy
    <2>2. Drained' => Drained
      BY Zenon, <1>10, <1>h, PoolStepEffect DEF runVars, Drained, TP!TypeOK
    <2> QED
      BY Zenon, <1>h, <2>1, <2>2 DEF PoolQuiet
  <1>11. CASE UNCHANGED vars
    <2>1. TP!Busy' = TP!Busy /\ processing' = processing /\ queue' = queue /\ (Drained' => Drained)
      BY Zenon, <1>11 DEF vars, poolVars, runVars, TP!Busy, Drained
    <2> QED
      BY Zenon, <1>b, <2>1
  <1> QED
    BY SMT, Z3, <1>1, <1>2, <1>3, <1>4, <1>5, <1>6, <1>7, <1>8, <1>9, <1>10, <1>11
       DEF Next, Run, Worker, HandleRequest

-----------------------------------------------------------------------------
(* The ring.                                                               *)

\* Every step of a thread in the ring, and what it leaves alone.
LEMMA RingPhaseStep ==
    ASSUME IInv, [Next]_vars
    PROVE  RingPhase' /\ HeldPhase'
  <1>h. /\ TP!TypeOK /\ PoolPhase /\ RingPhase /\ HeldPhase /\ RingSlotsFinished
        /\ apc \in AcceptorStates /\ held \in Slots \cup {NoSlot} /\ conn \in [Slots -> BOOLEAN]
        /\ rop \in [Threads -> R!RingOps] /\ rb \in [Threads -> R!Buckets]
        /\ NoSlot \notin Slots /\ Acceptor \notin Workers /\ WokenFindsEntry
    BY Zenon, Sizes DEF IInv, TypeOK, R!RingTypeOK
  <1>p. /\ wpc \in [Workers -> TP!WorkerStates] /\ item \in [Workers -> Slots \cup {NoSlot}]
    BY Zenon, <1>h DEF TP!TypeOK
  <1>s. ASSUME rop' = rop, apc' = apc, held' = held, conn' = conn,
               \A w \in Workers : wpc[w] = "process" => wpc'[w] = "process" /\ item'[w] = item[w],
               \A w \in Workers : wpc'[w] = "process" /\ wpc[w] # "process" => item'[w] \in Slots
        PROVE  RingPhase' /\ HeldPhase'
    BY Zenon, <1>s, <1>h DEF RingPhase, HeldPhase
  <1>1. CASE StartPool
    <2>1. \A w \in Workers : wpc[w] = "off" /\ wpc'[w] = "start"
      BY Zenon, <1>1, <1>h, StartEffect DEF PoolPhase, NoWorker
    <2> QED
      BY Zenon, <1>1, <1>h, <2>1, StartEffect DEF ringVars, RingPhase, HeldPhase
  <1>2. CASE Submit
    <2>1. \A w \in Workers : wpc'[w] = "process" <=> wpc[w] = "process"
      BY Zenon, <1>2, <1>p DEF Submit, TP!Queue, TP!WakeOne
    <2> QED
      BY Zenon, <1>2, <1>h, <2>1 DEF Submit, TP!Queue, Goto, ringVars, RingPhase, HeldPhase
  <1>3. CASE DrainPool
    BY Zenon, <1>3, <1>h DEF DrainPool, TP!Drain, TP!workerVars, Goto, ringVars, RingPhase, HeldPhase
  <1>4. CASE DrainAgain
    BY Zenon, <1>4, <1>s DEF DrainAgain, TP!DrainWake, TP!workerVars, runVars, ringVars
  <1>5. CASE StopPool
    <2>1. \A w \in Workers : wpc'[w] = "process" <=> wpc[w] = "process"
      BY Zenon, <1>5, <1>p, <1>h DEF StopPool, TP!StopBegin, TP!WakeAll, TP!JoinOld, PoolPhase
    <2> QED
      BY Zenon, <1>5, <1>h, <2>1 DEF StopPool, TP!StopBegin, Goto, ringVars, RingPhase, HeldPhase
  <1>6. CASE JoinPool
    <2>1. \A w \in Workers : wpc'[w] = "process" <=> wpc[w] = "process"
      BY Zenon, <1>6, <1>p DEF JoinPool, TP!StopJoin
    <2> QED
      BY Zenon, <1>6, <1>h, <2>1 DEF JoinPool, TP!StopJoin, runVars, ringVars, RingPhase, HeldPhase
  <1>7. CASE ClearPool
    BY Zenon, <1>7, <1>h DEF ClearPool, TP!StopClear, TP!workerVars, Goto, ringVars, RingPhase, HeldPhase
  <1>8. CASE OpenFail \/ FillRing
    BY Zenon, <1>8, <1>h DEF OpenFail, FillRing, Goto, poolVars, ringVars, RingPhase, HeldPhase
  <1>9. CASE Cleanup
    BY Zenon, <1>9, <1>h, <1>p DEF Cleanup, Goto, poolVars, ringVars, RingPhase, HeldPhase
  <1>10. CASE AllocTicket
    BY Zenon, <1>10, <1>h DEF AllocTicket, R!DequeueTicket, Threads, Goto, poolVars, RingPhase, HeldPhase
  <1>11. CASE AllocWait \/ AllocStray
    BY Zenon, <1>11, <1>h DEF AllocWait, AllocStray, R!DequeueWait, R!DequeueStray, Threads, runVars,
       poolVars, RingPhase, HeldPhase
  <1>a. CASE AllocAborts
    <2>1. apc = "dequeue" /\ apc' = "aborted" /\ conn' = [s \in Slots |-> FALSE]
          /\ UNCHANGED <<poolVars, ringVars, held>>
      BY Zenon, <1>a DEF AllocAborts, Goto
    <2>2. rop[Acceptor] = "stray"
      BY Zenon, <1>a, <1>h, <2>1 DEF AllocAborts, R!DequeueAsserts, R!DequeueReady, RingPhase,
         WokenFindsEntry, Threads
    <2> QED
      BY Zenon, <1>h, <1>p, <2>1, <2>2 DEF poolVars, ringVars, RingPhase, HeldPhase
  <1>12. CASE AllocTake
    <2>1. PICK s \in Slots : R!DequeueTake(Acceptor, s) /\ held' = s
      BY Zenon, <1>12 DEF AllocTake
    <2>2. InRing(s)
      <3>1. R!RingTypeOK
        BY Zenon DEF IInv, TypeOK
      <3>2. rb[Acceptor] \in DOMAIN buckets /\ buckets[rb[Acceptor]] \in Seq(Slots)
        BY Zenon, <3>1 DEF R!RingTypeOK, Threads
      <3>3. buckets[rb[Acceptor]] # <<>> /\ s = Head(buckets[rb[Acceptor]])
        BY Zenon, <2>1 DEF R!DequeueTake
      <3>4. 1 \in DOMAIN buckets[rb[Acceptor]] /\ s = buckets[rb[Acceptor]][1]
        BY SMT, Z3, <3>2, <3>3
      <3> QED
        BY Zenon, <3>2, <3>4 DEF InRing
    <2>3. ~conn[s]
      BY Zenon, <2>2, <1>h DEF RingSlotsFinished
    <2> QED
      BY Zenon, <1>12, <1>h, <2>1, <2>3 DEF AllocTake, R!DequeueTake, Threads, Goto, poolVars, RingPhase, HeldPhase
  <1>13. CASE AcceptOk
    <2>1. \A w \in Workers : wpc[w] = "process" => item[w] # held
      BY Zenon, <1>13, <1>h DEF IInv, SlotInOnePlace, WithWorker, WithRun, HeldPhase, AcceptOk
    <2> QED
      BY Zenon, <1>13, <1>h, <2>1 DEF AcceptOk, Goto, poolVars, ringVars, RingPhase, HeldPhase
  <1>14. CASE AcceptFail
    BY Zenon, <1>14, <1>h DEF AcceptFail, R!EnqueueTicket, Threads, Goto, poolVars, RingPhase, HeldPhase
  <1>15. CASE AbortPut
    <2>1. \A w \in Workers : rop'[w] = rop[w]
      BY Zenon, <1>15, <1>h DEF AbortPut, R!EnqueuePut, R!WakeReaders, Threads, RingPhase
    <2>2. rop'[Acceptor] = "none"
      BY Zenon, <1>15, <1>h DEF AbortPut, R!EnqueuePut, R!WakeReaders, Threads
    <2> QED
      BY Zenon, <1>15, <1>h, <2>1, <2>2 DEF AbortPut, Goto, poolVars, RingPhase, HeldPhase
  <1>16. ASSUME NEW w \in Workers, Serve(w) PROVE RingPhase' /\ HeldPhase'
    BY Zenon, <1>16, <1>h DEF Serve, poolVars, ringVars, RingPhase, HeldPhase
  <1>17. ASSUME NEW w \in Workers, Release(w) PROVE RingPhase' /\ HeldPhase'
    BY Zenon, <1>17, <1>h DEF Release, R!EnqueueTicket, Threads, poolVars, runVars, RingPhase, HeldPhase
  <1>18. ASSUME NEW w \in Workers, GiveBack(w) PROVE RingPhase' /\ HeldPhase'
    <2>1. \A v \in Workers \ {w} : rop'[v] = rop[v] /\ wpc'[v] = wpc[v]
      BY Zenon, <1>18, <1>h, <1>p DEF GiveBack, TP!Process, R!EnqueuePut, R!WakeReaders, Threads, RingPhase
    <2>2. rop'[w] = "none" /\ wpc'[w] = "finish"
      BY Zenon, <1>18, <1>h, <1>p DEF GiveBack, TP!Process, R!EnqueuePut, R!WakeReaders, Threads
    <2>3. \/ rop'[Acceptor] = rop[Acceptor]
          \/ rop[Acceptor] = "wait" /\ rop'[Acceptor] = "woken"
      BY Zenon, <1>18, <1>h DEF GiveBack, R!EnqueuePut, R!WakeReaders, Threads
    <2>4. item' = item /\ UNCHANGED runVars
      BY Zenon, <1>18 DEF GiveBack, TP!Process
    <2> QED
      BY Zenon, <1>h, <2>1, <2>2, <2>3, <2>4 DEF runVars, RingPhase, HeldPhase
  <1>19. ASSUME NEW w \in Workers, PoolStep(w) PROVE RingPhase' /\ HeldPhase'
    <2>1. UNCHANGED <<ringVars, runVars>> /\ wpc[w] # "process"
      BY Zenon, <1>19, <1>h, PoolStepEffect
    <2>2. queue # <<>> => Head(queue) \in Slots
      BY SMTT(30), Z3T(30), <1>h DEF TP!TypeOK
    <2>3. \A v \in Workers \ {w} : wpc'[v] = wpc[v] /\ item'[v] = item[v]
      BY SMTT(30), Z3T(30), <1>19, <1>h, <1>p, PoolStepEffect
    <2>4. wpc'[w] = "process" => item'[w] \in Slots
      BY Zenon, <1>19, <1>h, <1>p, <2>2, PoolStepEffect
    <2> QED
      BY Zenon, <1>s, <2>1, <2>3, <2>4 DEF ringVars, runVars
  <1>20. CASE UNCHANGED vars
    BY Zenon, <1>20, <1>s DEF vars, poolVars, ringVars, runVars
  <1> QED
    BY SMT, Z3, <1>1, <1>2, <1>3, <1>4, <1>5, <1>6, <1>7, <1>8, <1>9, <1>10, <1>11, <1>12, <1>13, <1>14,
       <1>a, <1>15, <1>16, <1>17, <1>18, <1>19, <1>20 DEF Next, Run, Worker, HandleRequest

-----------------------------------------------------------------------------
(* The slots.                                                              *)

RingOnce ==
    \A b, c \in DOMAIN buckets : \A j \in DOMAIN buckets[b], k \in DOMAIN buckets[c] :
        buckets[b][j] = buckets[c][k] => b = c /\ j = k
QueueOnce == \A j, k \in DOMAIN queue : queue[j] = queue[k] => j = k
WorkersOnce ==
    \A v, w \in Workers : wpc[v] = "process" /\ wpc[w] = "process" /\ item[v] = item[w] => v = w

\* enqueue() adds its slot to the ring, at the back of one bucket.
LEMMA RingPut ==
    ASSUME R!RingTypeOK, NEW b \in R!Buckets, NEW e \in Slots,
           buckets' = [buckets EXCEPT ![b] = Append(@, e)]
    PROVE  /\ \A s \in Slots : InRing(s)' <=> InRing(s) \/ s = e
           /\ RingOnce /\ ~InRing(e) => RingOnce'
  <1>1. /\ DOMAIN buckets = R!Buckets /\ DOMAIN buckets' = R!Buckets
        /\ \A c \in R!Buckets : buckets[c] \in Seq(Slots)
    BY Zenon DEF R!RingTypeOK
  <1>2. /\ \A c \in R!Buckets \ {b} : buckets'[c] = buckets[c]
        /\ buckets'[b] = Append(buckets[b], e)
    BY Zenon, <1>1 DEF R!RingTypeOK
  <1>3. /\ DOMAIN buckets[b] = 1 .. Len(buckets[b])
        /\ DOMAIN buckets'[b] = 1 .. Len(buckets[b]) + 1
        /\ Len(buckets[b]) \in Nat
        /\ \A k \in 1 .. Len(buckets[b]) : buckets'[b][k] = buckets[b][k]
        /\ buckets'[b][Len(buckets[b]) + 1] = e
    BY SMT, Z3, <1>1, <1>2
  <1> DEFINE n == Len(buckets[b])
  <1> HIDE DEF n
  <1>4. \A k \in DOMAIN buckets'[b] : k \in DOMAIN buckets[b] \/ k = n + 1
    BY SMT, Z3, <1>3 DEF n
  <1>5. /\ \A k \in DOMAIN buckets[b] : k \in DOMAIN buckets'[b] /\ buckets'[b][k] = buckets[b][k]
        /\ n + 1 \in DOMAIN buckets'[b] /\ buckets'[b][n + 1] = e
    BY SMT, Z3, <1>3 DEF n
  <1>6. \A s \in Slots : InRing(s)' <=> InRing(s) \/ s = e
    BY SMTT(30), Z3T(30), <1>1, <1>2, <1>4, <1>5 DEF InRing
  <1>7. ASSUME RingOnce, ~InRing(e) PROVE RingOnce'
    <2> SUFFICES ASSUME NEW c \in R!Buckets, NEW d \in R!Buckets,
                        NEW j \in DOMAIN buckets'[c], NEW k \in DOMAIN buckets'[d],
                        buckets'[c][j] = buckets'[d][k]
                 PROVE  c = d /\ j = k
      BY SMTT(30), Z3T(30), <1>1 DEF RingOnce
    <2>1. \/ j \in DOMAIN buckets[c] /\ buckets'[c][j] = buckets[c][j]
          \/ c = b /\ j = n + 1 /\ buckets'[c][j] = e
      BY Zenon, <1>2, <1>4, <1>5
    <2>2. \/ k \in DOMAIN buckets[d] /\ buckets'[d][k] = buckets[d][k]
          \/ d = b /\ k = n + 1 /\ buckets'[d][k] = e
      BY Zenon, <1>2, <1>4, <1>5
    <2> QED
      BY SMT, Z3, <1>1, <1>7, <2>1, <2>2 DEF RingOnce, InRing
  <1> QED
    BY Zenon, <1>6, <1>7

\* dequeue() removes the slot at the front of one bucket.
LEMMA RingTake ==
    ASSUME R!RingTypeOK, RingOnce, NEW b \in R!Buckets, buckets[b] # <<>>,
           buckets' = [buckets EXCEPT ![b] = Tail(@)]
    PROVE  /\ Head(buckets[b]) \in Slots /\ InRing(Head(buckets[b]))
           /\ \A s \in Slots : InRing(s)' <=> InRing(s) /\ s # Head(buckets[b])
           /\ RingOnce'
  <1>1. /\ DOMAIN buckets = R!Buckets /\ DOMAIN buckets' = R!Buckets
        /\ \A c \in R!Buckets : buckets[c] \in Seq(Slots)
    BY Zenon DEF R!RingTypeOK
  <1>2. /\ \A c \in R!Buckets \ {b} : buckets'[c] = buckets[c]
        /\ buckets'[b] = Tail(buckets[b])
    BY Zenon, <1>1 DEF R!RingTypeOK
  <1> DEFINE n == Len(buckets[b])  h == Head(buckets[b])
  <1>3. /\ n \in Nat /\ n > 0 /\ h \in Slots /\ h = buckets[b][1]
        /\ DOMAIN buckets[b] = 1 .. n /\ DOMAIN buckets'[b] = 1 .. n - 1
        /\ \A k \in 1 .. n - 1 : buckets'[b][k] = buckets[b][k + 1]
    BY SMT, Z3, <1>1, <1>2
  <1> HIDE DEF n, h
  <1>4. \A k \in DOMAIN buckets'[b] :
            k + 1 \in DOMAIN buckets[b] /\ buckets'[b][k] = buckets[b][k + 1] /\ k + 1 # 1
    BY SMT, Z3, <1>3
  <1>5. \A k \in DOMAIN buckets[b] \ {1} :
            k - 1 \in DOMAIN buckets'[b] /\ buckets'[b][k - 1] = buckets[b][k]
    BY SMT, Z3, <1>3
  <1>6. 1 \in DOMAIN buckets[b] /\ buckets[b][1] = h
    BY SMTT(30), Z3T(30), <1>3
  <1>7. ASSUME NEW c \in R!Buckets, NEW j \in DOMAIN buckets'[c]
        PROVE  \/ c # b /\ j \in DOMAIN buckets[c] /\ buckets'[c][j] = buckets[c][j]
               \/ c = b /\ j + 1 \in DOMAIN buckets[b] \ {1} /\ buckets'[c][j] = buckets[b][j + 1]
                  /\ j \in Nat
    BY SMTT(30), Z3T(30), <1>2, <1>3, <1>4
  <1>8. \A s \in Slots : InRing(s)' => InRing(s) /\ s # h
    BY SMT, Z3, <1>1, <1>6, <1>7 DEF InRing, RingOnce
  <1>9. ASSUME NEW s \in Slots, InRing(s), s # h PROVE InRing(s)'
    <2>1. PICK c \in R!Buckets : \E k \in DOMAIN buckets[c] : buckets[c][k] = s
      BY Zenon, <1>1, <1>9 DEF InRing
    <2>2. CASE c # b
      BY Zenon, <1>1, <1>2, <2>1, <2>2 DEF InRing
    <2>3. CASE c = b
      <3>1. PICK k \in DOMAIN buckets[b] : buckets[b][k] = s
        BY Zenon, <2>1, <2>3
      <3>2. k # 1
        BY Zenon, <1>6, <1>9, <3>1
      <3>3. k - 1 \in DOMAIN buckets'[b] /\ buckets'[b][k - 1] = s
        BY Zenon, <1>5, <3>1, <3>2
      <3> QED
        BY Zenon, <1>1, <3>3 DEF InRing
    <2> QED
      BY Zenon, <2>2, <2>3
  <1>10. RingOnce'
    <2> SUFFICES ASSUME NEW c \in R!Buckets, NEW d \in R!Buckets,
                        NEW j \in DOMAIN buckets'[c], NEW k \in DOMAIN buckets'[d],
                        buckets'[c][j] = buckets'[d][k]
                 PROVE  c = d /\ j = k
      BY SMTT(30), Z3T(30), <1>1 DEF RingOnce
    <2>1. \/ c # b /\ j \in DOMAIN buckets[c] /\ buckets'[c][j] = buckets[c][j]
          \/ c = b /\ j + 1 \in DOMAIN buckets[b] \ {1} /\ buckets'[c][j] = buckets[b][j + 1]
             /\ j \in Nat
      BY Zenon, <1>7
    <2>2. \/ d # b /\ k \in DOMAIN buckets[d] /\ buckets'[d][k] = buckets[d][k]
          \/ d = b /\ k + 1 \in DOMAIN buckets[b] \ {1} /\ buckets'[d][k] = buckets[b][k + 1]
             /\ k \in Nat
      BY Zenon, <1>7
    <2> QED
      BY SMTT(30), Z3T(30), <1>1, <2>1, <2>2 DEF RingOnce
  <1>11. h \in Slots /\ InRing(h)
    BY Zenon, <1>1, <1>3, <1>6 DEF InRing
  <1> QED
    BY Zenon, <1>8, <1>9, <1>10, <1>11 DEF h

\* queue() appends a request to the queue of the pool, and a worker takes the front.
LEMMA QueuePut ==
    ASSUME queue \in Seq(Slots), NEW e \in Slots, queue' = Append(queue, e)
    PROVE  /\ \A s \in Slots : InQueue(s)' <=> InQueue(s) \/ s = e
           /\ QueueOnce /\ ~InQueue(e) => QueueOnce'
  BY SMT, Z3 DEF InQueue, QueueOnce

LEMMA QueueTake ==
    ASSUME queue \in Seq(Slots), queue # <<>>, QueueOnce, queue' = Tail(queue)
    PROVE  /\ Head(queue) \in Slots /\ InQueue(Head(queue))
           /\ \A s \in Slots : InQueue(s)' <=> InQueue(s) /\ s # Head(queue)
           /\ QueueOnce'
  <1> DEFINE n == Len(queue)
  <1>1. /\ n \in Nat /\ n > 0 /\ Head(queue) \in Slots /\ Head(queue) = queue[1]
        /\ DOMAIN queue = 1 .. n /\ DOMAIN queue' = 1 .. n - 1
        /\ \A k \in 1 .. n - 1 : queue'[k] = queue[k + 1]
    OBVIOUS
  <1> HIDE DEF n
  <1>2. \A k \in 1 .. n : k # 1 => k - 1 \in 1 .. n - 1 /\ queue'[k - 1] = queue[k]
    BY <1>1
  <1>3. Head(queue) \in Slots /\ InQueue(Head(queue))
    BY <1>1 DEF InQueue
  <1>4. ASSUME NEW s \in Slots, InQueue(s)' PROVE InQueue(s) /\ s # Head(queue)
    <2>1. PICK k \in 1 .. n - 1 : queue'[k] = s
      BY Zenon, <1>1, <1>4 DEF InQueue
    <2>2. k + 1 \in 1 .. n /\ k + 1 # 1 /\ queue[k + 1] = s
      BY SMT, Z3, <1>1, <2>1
    <2> QED
      BY SMT, Z3, <1>1, <2>2 DEF InQueue, QueueOnce
  <1>5. ASSUME NEW s \in Slots, InQueue(s), s # Head(queue) PROVE InQueue(s)'
    <2>1. PICK k \in 1 .. n : queue[k] = s
      BY Zenon, <1>1, <1>5 DEF InQueue
    <2>2. k - 1 \in 1 .. n - 1 /\ queue'[k - 1] = s
      BY Zenon, <1>1, <1>2, <1>5, <2>1
    <2> QED
      BY Zenon, <1>1, <2>2 DEF InQueue
  <1>6. QueueOnce'
    <2> SUFFICES ASSUME NEW j \in 1 .. n - 1, NEW k \in 1 .. n - 1, queue'[j] = queue'[k]
                 PROVE  j = k
      BY Zenon, <1>1 DEF QueueOnce
    <2>1. j + 1 \in 1 .. n /\ k + 1 \in 1 .. n /\ queue[j + 1] = queue[k + 1]
      BY SMTT(30), Z3T(30), <1>1
    <2>2. j + 1 = k + 1
      BY Zenon, <1>1, <2>1 DEF QueueOnce
    <2> QED
      BY <2>2
  <1> QED
    BY Zenon, <1>3, <1>4, <1>5, <1>6

OnePlace(s) ==
    /\ InRing(s) \/ InQueue(s) \/ WithWorker(s) \/ WithRun(s)
    /\ ~(InRing(s) /\ (InQueue(s) \/ WithWorker(s) \/ WithRun(s)))
    /\ ~(InQueue(s) /\ (WithWorker(s) \/ WithRun(s)))
    /\ ~(WithWorker(s) /\ WithRun(s))

Filled == apc \notin {"open", "fill", "returned"}

\* What the invariant says of the slots, with the names of this section.
SlotsInv ==
    /\ Filled => \A s \in Slots : OnePlace(s)
    /\ RingOnce /\ QueueOnce /\ WorkersOnce
    /\ RingSlotsFinished
    /\ Unused

LEMMA SlotsInvIs == SlotsInv <=> SlotInOnePlace /\ SlotUsedOnce /\ RingSlotsFinished /\ Unused
  BY Zenon DEF SlotsInv, SlotInOnePlace, SlotUsedOnce, OnePlace, Filled, RingOnce, QueueOnce, WorkersOnce

\* A step that moves no slot.
LEMMA SlotsUnmoved ==
    ASSUME SlotsInv, conn \in [Slots -> BOOLEAN],
           buckets' = buckets, queue' = queue, held' = held,
           \A w \in Workers : wpc'[w] = "process" <=> wpc[w] = "process",
           \A w \in Workers : wpc[w] = "process" => item'[w] = item[w],
           Filled' => Filled,
           \A s \in Slots : conn'[s] => conn[s] \/ ~InRing(s),
           Unused'
    PROVE  SlotsInv'
  <1>1. \A s \in Slots : /\ InRing(s)' <=> InRing(s)
                         /\ InQueue(s)' <=> InQueue(s)
                         /\ WithRun(s)' <=> WithRun(s)
    BY SMT, Z3 DEF InRing, InQueue, WithRun
  <1>2. \A s \in Slots : WithWorker(s)' <=> WithWorker(s)
    BY Zenon DEF WithWorker
  <1>3. Filled' => \A s \in Slots : OnePlace(s)'
    BY Zenon, <1>1, <1>2 DEF SlotsInv, OnePlace
  <1>4. RingOnce' /\ QueueOnce' /\ WorkersOnce'
    BY SMTT(30), Z3T(30) DEF SlotsInv, RingOnce, QueueOnce, WorkersOnce
  <1>5. RingSlotsFinished'
    BY Zenon, <1>1 DEF SlotsInv, RingSlotsFinished
  <1> QED
    BY Zenon, <1>3, <1>4, <1>5 DEF SlotsInv

\* No slot is lost or used twice by any step of run() or of a worker, and none is
\* put into the ring with its connection open.
LEMMA SlotsStep ==
    ASSUME IInv, [Next]_vars
    PROVE  SlotsInv'
  <1>h. /\ TP!TypeOK /\ R!RingTypeOK /\ PoolPhase /\ PoolQuiet /\ RingPhase /\ HeldPhase /\ SlotsInv
        /\ apc \in AcceptorStates /\ held \in Slots \cup {NoSlot} /\ conn \in [Slots -> BOOLEAN]
        /\ NoSlot \notin Slots
    BY Zenon, Sizes, SlotsInvIs DEF IInv, TypeOK
  <1>t. /\ queue \in Seq(Slots) /\ wpc \in [Workers -> TP!WorkerStates]
        /\ item \in [Workers -> Slots \cup {NoSlot}]
        /\ Acceptor \in Threads /\ Workers \subseteq Threads
        /\ rb \in [Threads -> R!Buckets]
    BY Zenon, <1>h DEF TP!TypeOK, R!RingTypeOK, Threads
  <1>u. ASSUME buckets' = buckets, conn' = conn, apc' = "returned" => apc = "open",
               apc' \in {"open", "fill"} => apc \in {"open", "fill"}
        PROVE  Unused'
    BY Zenon, <1>h, <1>u DEF SlotsInv, Unused, InRing
  <1>n. apc' \notin {"open", "fill", "returned"} => Unused'
    BY Zenon DEF Unused
  <1>1. CASE StartPool
    <2>1. \A w \in Workers : wpc[w] = "off" /\ wpc'[w] = "start"
      BY Zenon, <1>1, <1>h, StartEffect DEF PoolPhase, NoWorker
    <2>2. Unused'
      BY Zenon, <1>1, <1>h, <1>u, StartEffect DEF ringVars
    <2> QED
      BY Zenon, <1>1, <1>h, <2>1, <2>2, StartEffect, SlotsUnmoved DEF ringVars, Filled
  <1>2. CASE FillRing
    <2>1. /\ queue = <<>> /\ held = NoSlot /\ \A w \in Workers : wpc[w] # "process"
      BY Zenon, <1>2, <1>h DEF FillRing, PoolQuiet, Drained, TP!Busy, HeldPhase
    <2>2. UNCHANGED <<queue, held, wpc, conn>> /\ apc' = "loop" /\ apc = "fill"
      BY Zenon, <1>2 DEF FillRing, poolVars, Goto
    <2> DEFINE At(b) == IF b = 0 THEN MaxConnections ELSE b
    <2>3. /\ DOMAIN buckets' = R!Buckets
          /\ \A b \in R!Buckets : DOMAIN buckets'[b] = {1} /\ buckets'[b][1] = At(b)
      BY SMT, Z3, <1>2 DEF FillRing
    <2>4. /\ \A b, c \in R!Buckets : At(b) = At(c) => b = c
          /\ \A s \in Slots : \E b \in R!Buckets : At(b) = s
      <3>1. MaxConnections \in Nat /\ MaxConnections > 0
        BY Zenon, Sizes
      <3>2. \A s \in Slots : s = MaxConnections \/ (s \in R!Buckets /\ s # 0)
        BY <3>1 DEF Slots, R!Buckets
      <3>3. 0 \in R!Buckets
        BY <3>1 DEF R!Buckets
      <3>4. \A s \in Slots : \E b \in R!Buckets : At(b) = s
        BY Zenon, <3>2, <3>3
      <3>5. \A b, c \in R!Buckets : At(b) = At(c) => b = c
        BY SMTT(30), <3>1 DEF R!Buckets
      <3> QED
        BY Zenon, <3>4, <3>5
    <2> HIDE DEF At
    <2>5. \A s \in Slots : InRing(s)'
      BY SMTT(30), Z3T(30), <2>3, <2>4 DEF InRing
    <2>6. \A s \in Slots : ~InQueue(s)' /\ ~WithWorker(s)' /\ ~WithRun(s)'
      BY SMTT(30), Z3T(30), <1>h, <2>1, <2>2 DEF InQueue, WithWorker, WithRun
    <2>7. RingOnce'
      BY SMTT(30), Z3T(30), <2>3, <2>4 DEF RingOnce
    <2>8. QueueOnce' /\ WorkersOnce'
      BY SMTT(30), Z3T(30), <2>1, <2>2 DEF QueueOnce, WorkersOnce
    <2>9. RingSlotsFinished'
      BY Zenon, <1>h, <2>2 DEF RingSlotsFinished, SlotsInv, Unused
    <2> QED
      BY SMT, Z3, <1>n, <2>2, <2>5, <2>6, <2>7, <2>8, <2>9 DEF SlotsInv, OnePlace
  <1>3. CASE AllocTake
    <2>1. PICK s \in Slots : R!DequeueTake(Acceptor, s) /\ held' = s
      BY Zenon, <1>3 DEF AllocTake
    <2> DEFINE b == rb[Acceptor]
    <2>2. /\ b \in R!Buckets /\ buckets[b] # <<>> /\ s = Head(buckets[b])
          /\ buckets' = [buckets EXCEPT ![b] = Tail(@)]
      BY Zenon, <1>t, <2>1 DEF R!DequeueTake
    <2>3. RingOnce
      BY Zenon, <1>h DEF SlotsInv
    <2> HIDE DEF b
    <2>4. /\ InRing(s) /\ RingOnce'
          /\ \A x \in Slots : InRing(x)' <=> InRing(x) /\ x # s
      BY Zenon, <1>h, <2>2, <2>3, RingTake
    <2>5. UNCHANGED <<queue, wpc, item, conn>> /\ apc' = "accept" /\ apc = "dequeue"
      BY Zenon, <1>3 DEF AllocTake, poolVars, Goto
    <2>6. held = NoSlot
      BY Zenon, <1>h, <2>5 DEF HeldPhase
    <2>7. \A x \in Slots : /\ InQueue(x)' <=> InQueue(x)
                           /\ WithWorker(x)' <=> WithWorker(x)
                           /\ WithRun(x)' <=> x = s
                           /\ ~WithRun(x)
      BY Zenon, <1>h, <2>1, <2>5, <2>6 DEF InQueue, WithWorker, WithRun
    <2>8. \A x \in Slots : OnePlace(x)
      BY Zenon, <1>h, <2>5 DEF SlotsInv, Filled
    <2>9. \A x \in Slots : OnePlace(x)'
      BY Zenon, <2>4, <2>7, <2>8 DEF OnePlace
    <2>10. QueueOnce' /\ WorkersOnce'
      BY Zenon, <1>h, <2>5 DEF SlotsInv, QueueOnce, WorkersOnce
    <2>11. RingSlotsFinished'
      BY Zenon, <1>h, <2>4, <2>5 DEF SlotsInv, RingSlotsFinished
    <2> QED
      BY Zenon, <1>n, <2>4, <2>5, <2>9, <2>10, <2>11 DEF SlotsInv
  <1>4. CASE AbortPut
    <2>1. R!EnqueuePut(Acceptor, held) /\ held' = NoSlot /\ held \in Slots /\ ~conn[held]
      BY Zenon, <1>4, <1>h DEF AbortPut, HeldPhase
    <2> DEFINE b == rb[Acceptor]
    <2>2. b \in R!Buckets /\ buckets' = [buckets EXCEPT ![b] = Append(@, held)]
      BY Zenon, <1>t, <2>1 DEF R!EnqueuePut
    <2> HIDE DEF b
    <2>3. /\ \A x \in Slots : InRing(x)' <=> InRing(x) \/ x = held
          /\ RingOnce /\ ~InRing(held) => RingOnce'
      BY Zenon, <1>h, <2>1, <2>2, RingPut
    <2>4. UNCHANGED <<queue, wpc, item, conn>> /\ apc' = "drain" /\ apc = "abort"
      BY Zenon, <1>4 DEF AbortPut, poolVars, Goto
    <2>5. \A x \in Slots : /\ InQueue(x)' <=> InQueue(x)
                           /\ WithWorker(x)' <=> WithWorker(x)
                           /\ ~WithRun(x)'
                           /\ WithRun(x) <=> x = held
      BY Zenon, <1>h, <2>1, <2>4 DEF InQueue, WithWorker, WithRun
    <2>6. \A x \in Slots : OnePlace(x)
      BY Zenon, <1>h, <2>4 DEF SlotsInv, Filled
    <2>7. ~InRing(held) /\ \A x \in Slots : OnePlace(x)'
      BY Zenon, <2>1, <2>3, <2>5, <2>6 DEF OnePlace
    <2>8. RingOnce' /\ QueueOnce' /\ WorkersOnce'
      BY Zenon, <1>h, <2>3, <2>4, <2>7 DEF SlotsInv, QueueOnce, WorkersOnce
    <2>9. RingSlotsFinished'
      BY Zenon, <1>h, <2>1, <2>3, <2>4 DEF SlotsInv, RingSlotsFinished
    <2> QED
      BY Zenon, <1>n, <2>4, <2>7, <2>8, <2>9 DEF SlotsInv
  <1>5. CASE Submit
    <2>1. /\ queue' = Append(queue, held) /\ held' = NoSlot /\ held \in Slots
          /\ UNCHANGED <<item, conn, ringVars>> /\ apc' = "loop" /\ apc = "submit"
      BY Zenon, <1>5, <1>h DEF Submit, TP!Queue, Goto, HeldPhase
    <2>2. \A w \in Workers : wpc'[w] = "process" <=> wpc[w] = "process"
      BY Zenon, <1>5, <1>t DEF Submit, TP!Queue, TP!WakeOne
    <2>3. /\ \A x \in Slots : InQueue(x)' <=> InQueue(x) \/ x = held
          /\ QueueOnce /\ ~InQueue(held) => QueueOnce'
      BY Zenon, <1>t, <2>1, QueuePut
    <2>4. \A x \in Slots : /\ InRing(x)' <=> InRing(x)
                           /\ ~WithRun(x)'
                           /\ WithRun(x) <=> x = held
      BY Zenon, <1>h, <2>1 DEF InRing, WithRun, ringVars
    <2>5. \A x \in Slots : WithWorker(x)' <=> WithWorker(x)
      BY Zenon, <2>1, <2>2 DEF WithWorker
    <2>6. \A x \in Slots : OnePlace(x)
      BY Zenon, <1>h, <2>1 DEF SlotsInv, Filled
    <2>7. ~InQueue(held) /\ \A x \in Slots : OnePlace(x)'
      BY Zenon, <2>1, <2>3, <2>4, <2>5, <2>6 DEF OnePlace
    <2>r. RingOnce'
      BY SMTT(30), Z3T(30), <1>h, <2>1 DEF SlotsInv, RingOnce, ringVars
    <2>w. WorkersOnce'
      BY Zenon, <1>h, <2>1, <2>2 DEF SlotsInv, WorkersOnce
    <2>8. RingOnce' /\ QueueOnce' /\ WorkersOnce'
      BY Zenon, <1>h, <2>r, <2>w, <2>3, <2>7 DEF SlotsInv
    <2>9. RingSlotsFinished'
      BY Zenon, <1>h, <2>1, <2>4 DEF SlotsInv, RingSlotsFinished
    <2> QED
      BY Zenon, <1>n, <2>1, <2>7, <2>8, <2>9 DEF SlotsInv
  <1>6. ASSUME NEW w \in Workers, GiveBack(w) PROVE SlotsInv'
    <2>1. /\ R!EnqueuePut(w, item[w]) /\ wpc[w] = "process" /\ wpc' = [wpc EXCEPT ![w] = "finish"]
          /\ UNCHANGED <<item, queue, runVars>>
      BY Zenon, <1>6 DEF GiveBack, TP!Process
    <2>2. item[w] \in Slots /\ ~conn[item[w]]
      BY Zenon, <1>h, <2>1 DEF HeldPhase, RingPhase, R!EnqueuePut
    <2>a. Filled
      <3>1. w \in TP!Busy
        BY Zenon, <2>1 DEF TP!Busy
      <3> QED
        BY Zenon, <1>h, <3>1 DEF PoolQuiet, Drained, Filled
    <2> DEFINE b == rb[w]  e == item[w]
    <2>3. b \in R!Buckets /\ buckets' = [buckets EXCEPT ![b] = Append(@, e)]
      BY Zenon, <1>t, <2>1 DEF R!EnqueuePut
    <2>5. \A x \in Slots : /\ InQueue(x)' <=> InQueue(x)
                           /\ WithRun(x)' <=> WithRun(x)
      BY Zenon, <2>1 DEF InQueue, WithRun, runVars
    <2>6. \A v \in Workers : wpc'[v] = "process" <=> wpc[v] = "process" /\ v # w
      BY Zenon, <1>t, <2>1
    <2>7. \A x \in Slots : WithWorker(x)' <=> WithWorker(x) /\ x # e
      BY Zenon, <1>h, <2>1, <2>6 DEF WithWorker, SlotsInv, WorkersOnce
    <2>8. WithWorker(e)
      BY Zenon, <2>1 DEF WithWorker
    <2>x. WorkersOnce'
      BY Zenon, <1>h, <2>1, <2>6 DEF SlotsInv, WorkersOnce
    <2> HIDE DEF b, e
    <2>4. e \in Slots /\ ~conn[e]
      BY Zenon, <2>2 DEF e
    <2>9. /\ \A x \in Slots : InRing(x)' <=> InRing(x) \/ x = e
          /\ RingOnce /\ ~InRing(e) => RingOnce'
      BY Zenon, <1>h, <2>3, <2>4, RingPut
    <2>10. \A x \in Slots : OnePlace(x)
      BY Zenon, <1>h, <2>a DEF SlotsInv
    <2>11. ~InRing(e) /\ \A x \in Slots : OnePlace(x)'
      BY Zenon, <2>4, <2>5, <2>7, <2>8, <2>9, <2>10 DEF OnePlace
    <2>12. RingOnce' /\ QueueOnce'
      BY Zenon, <1>h, <2>1, <2>9, <2>11 DEF SlotsInv, QueueOnce
    <2>13. RingSlotsFinished'
      BY Zenon, <1>h, <2>1, <2>4, <2>9 DEF SlotsInv, RingSlotsFinished, runVars
    <2> QED
      BY SMT, Z3, <1>n, <2>1, <2>a, <2>x, <2>11, <2>12, <2>13 DEF SlotsInv, runVars, Filled
  <1>7. ASSUME NEW w \in Workers, PoolStep(w) PROVE SlotsInv'
    <2>1. UNCHANGED <<ringVars, runVars>> /\ wpc[w] # "process"
      BY Zenon, <1>7, <1>h, PoolStepEffect
    <2>2. CASE queue' = queue /\ wpc'[w] # "process"
      <3>1. \A v \in Workers : wpc'[v] = "process" <=> wpc[v] = "process"
        BY SMTT(30), Z3T(30), <1>7, <1>h, <1>t, <2>1, <2>2, PoolStepEffect
      <3>2. \A v \in Workers : wpc[v] = "process" => item'[v] = item[v]
        BY Zenon, <1>7, <1>h, <1>t, <2>1, PoolStepEffect
      <3>3. Unused'
        BY Zenon, <2>1, <1>h DEF ringVars, runVars, SlotsInv, Unused, InRing
      <3> QED
        BY SMT, Z3, <1>h, <2>1, <2>2, <3>1, <3>2, <3>3, SlotsUnmoved DEF ringVars, runVars, Filled
    <2>3. CASE wpc'[w] = "process"
      <3>1. /\ queue # <<>> /\ queue' = Tail(queue)
            /\ wpc' = [wpc EXCEPT ![w] = "process"]
            /\ item' = [item EXCEPT ![w] = Head(queue)]
        BY Zenon, <1>7, <1>h, <1>t, <2>3, PoolStepEffect
      <3>2. QueueOnce
        BY Zenon, <1>h DEF SlotsInv
      <3> DEFINE e == Head(queue)
      <3>3. /\ e \in Slots /\ InQueue(e) /\ QueueOnce'
            /\ \A x \in Slots : InQueue(x)' <=> InQueue(x) /\ x # e
        BY Zenon, <1>t, <3>1, <3>2, QueueTake
      <3>4. /\ wpc'[w] = "process" /\ item'[w] = e
            /\ \A v \in Workers \ {w} : wpc'[v] = wpc[v] /\ item'[v] = item[v]
        BY Zenon, <1>t, <3>1
      <3> HIDE DEF e
      <3>5. \A x \in Slots : WithWorker(x)' <=> WithWorker(x) \/ x = e
        BY Zenon, <2>1, <3>4 DEF WithWorker
      <3>6. \A x \in Slots : /\ InRing(x)' <=> InRing(x)
                             /\ WithRun(x)' <=> WithRun(x)
        BY Zenon, <2>1 DEF InRing, WithRun, ringVars, runVars
      <3>a. Filled /\ apc' = apc
        BY Zenon, <1>h, <2>1, <3>1 DEF PoolQuiet, Drained, Filled, runVars
      <3>7. \A x \in Slots : OnePlace(x)
        BY Zenon, <1>h, <3>a DEF SlotsInv
      <3>8. ~WithWorker(e) /\ \A x \in Slots : OnePlace(x)'
        BY Zenon, <3>3, <3>5, <3>6, <3>7 DEF OnePlace
      <3>9. WorkersOnce'
        BY Zenon, <1>h, <3>4, <3>8 DEF SlotsInv, WorkersOnce, WithWorker
      <3>10. RingOnce'
        BY SMT, Z3, <1>h, <2>1 DEF SlotsInv, RingOnce, ringVars
      <3>11. RingSlotsFinished'
        BY Zenon, <1>h, <2>1, <3>6 DEF SlotsInv, RingSlotsFinished, runVars
      <3> QED
        BY SMTT(30), Z3T(30), <1>n, <3>3, <3>a, <3>8, <3>9, <3>10, <3>11 DEF SlotsInv, Filled
    <2> QED
      BY SMTT(30), Z3T(30), <1>7, <1>h, <1>t, <2>2, <2>3, PoolStepEffect
  <1>8. CASE AcceptOk
    <2>1. ~InRing(held)
      BY Zenon, <1>8, <1>h DEF AcceptOk, HeldPhase, SlotsInv, OnePlace, Filled, WithRun
    <2>2. \A s \in Slots : conn'[s] => conn[s] \/ ~InRing(s)
      BY Zenon, <1>8, <1>h, <2>1 DEF AcceptOk
    <2> QED
      BY Zenon, <1>8, <1>h, <1>n, <2>2, SlotsUnmoved DEF AcceptOk, poolVars, ringVars, Goto, Filled
  <1>9. CASE Cleanup
    <2>1. Unused'
      BY Zenon, <1>9 DEF Cleanup, Unused, Goto
    <2> QED
      BY Zenon, <1>9, <1>h, <2>1, SlotsUnmoved DEF Cleanup, poolVars, ringVars, Goto, Filled
  <1>a. CASE AllocAborts
    BY Zenon, <1>a, <1>h, <1>n, SlotsUnmoved DEF AllocAborts, poolVars, ringVars, Goto, Filled
  <1>10. ASSUME NEW w \in Workers, Serve(w) PROVE SlotsInv'
    <2>1. \A s \in Slots : conn'[s] => conn[s]
      BY Zenon, <1>10, <1>h DEF Serve, HeldPhase
    <2>2. Unused'
      BY SMT, Z3, <1>10, <1>h, <2>1 DEF Serve, SlotsInv, Unused, InRing, ringVars
    <2> QED
      BY Zenon, <1>10, <1>h, <2>1, <2>2, SlotsUnmoved DEF Serve, poolVars, ringVars, Filled
  <1>11. CASE \/ OpenFail \/ AllocTicket \/ AllocWait \/ AllocStray \/ AcceptFail \/ DrainPool \/ DrainAgain
              \/ StopPool \/ JoinPool \/ ClearPool \/ UNCHANGED vars
              \/ \E w \in Workers : Release(w)
    <2>1. buckets' = buckets
      BY Zenon, <1>11 DEF OpenFail, AllocTicket, AllocWait, AllocStray, AcceptFail, DrainPool, DrainAgain, StopPool,
         JoinPool, ClearPool, vars, Release, ringVars, R!DequeueTicket, R!DequeueWait, R!DequeueStray,
         R!EnqueueTicket
    <2>2. /\ UNCHANGED <<held, conn>>
          /\ \/ apc' = apc
             \/ apc = "open" /\ apc' = "returned"
             \/ Filled /\ Filled'
      BY Zenon, <1>11 DEF OpenFail, AllocTicket, AllocWait, AllocStray, AcceptFail, DrainPool, DrainAgain, StopPool,
         JoinPool, ClearPool, vars, Release, runVars, Goto, Filled
    <2>3. UNCHANGED <<queue, item>>
      BY Zenon, <1>11 DEF OpenFail, AllocTicket, AllocWait, AllocStray, AcceptFail, DrainPool, DrainAgain, StopPool,
         JoinPool, ClearPool, vars, Release, poolVars, TP!Drain, TP!DrainWake, TP!StopBegin,
         TP!StopJoin, TP!StopClear, TP!workerVars
    <2>4. \A w \in Workers : wpc'[w] = "process" <=> wpc[w] = "process"
      <3>1. CASE StopPool
        BY Zenon, <3>1, <1>t, <1>h DEF StopPool, TP!StopBegin, TP!WakeAll, TP!JoinOld, PoolPhase
      <3>2. CASE JoinPool
        BY Zenon, <3>2, <1>t DEF JoinPool, TP!StopJoin
      <3> QED
        BY Zenon, <1>11, <3>1, <3>2 DEF OpenFail, AllocTicket, AllocWait, AllocStray, AcceptFail, DrainPool, DrainAgain,
           ClearPool, vars, Release, poolVars, TP!Drain, TP!DrainWake, TP!StopClear, TP!workerVars
    <2>5. Unused'
      BY Zenon, <1>h, <2>1, <2>2 DEF SlotsInv, Unused, InRing, Filled
    <2>6. Filled' => Filled
      BY Zenon, <2>2 DEF Filled
    <2> QED
      BY Zenon, <1>h, <2>1, <2>2, <2>3, <2>4, <2>5, <2>6, SlotsUnmoved
  <1> QED
    BY SMT, Z3, <1>1, <1>2, <1>3, <1>4, <1>5, <1>6, <1>7, <1>8, <1>9, <1>a, <1>10, <1>11
       DEF Next, Run, Worker, HandleRequest

-----------------------------------------------------------------------------
(* The theorems.                                                           *)

\* Whoever is signalled in dequeue() finds the entry it was woken for: run() is the only
\* thread that takes any.
LEMMA WokenStep ==
    ASSUME IInv, [Next]_vars
    PROVE  WokenFindsEntry'
  <1>h. /\ R!RingTypeOK /\ RingPhase /\ WokenFindsEntry /\ RingPhase' /\ Acceptor \notin Workers
    BY Zenon, RingPhaseStep, Sizes DEF IInv, TypeOK
  <1>t. /\ rop \in [Threads -> R!RingOps] /\ rb \in [Threads -> R!Buckets]
        /\ buckets \in [R!Buckets -> Seq(Slots)]
        /\ Acceptor \in Threads
    BY Zenon, <1>h DEF R!RingTypeOK, Threads
  <1>s. /\ apc = "abort" => held \in Slots
        /\ \A w \in Workers : wpc[w] = "process" => item[w] \in Slots
    BY Zenon DEF IInv, TypeOK, HeldPhase
  <1>w. SUFFICES ASSUME rop'[Acceptor] = "woken" PROVE buckets'[rb'[Acceptor]] # <<>>
    BY Zenon, <1>h DEF WokenFindsEntry, RingPhase, Threads
  <1>1. CASE UNCHANGED ringVars
    BY Zenon, <1>1, <1>h, <1>t, <1>w DEF ringVars, WokenFindsEntry
  <1>2. ASSUME NEW t \in Threads, NEW s \in Slots, R!EnqueuePut(t, s) PROVE buckets'[rb'[Acceptor]] # <<>>
    <2>1. rb' = rb /\ buckets' = [buckets EXCEPT ![rb[t]] = Append(@, s)]
      BY Zenon, <1>2 DEF R!EnqueuePut
    <2>2. Append(buckets[rb[t]], s) # <<>>
      <3>1. buckets[rb[t]] \in Seq(Slots)
        BY Zenon, <1>t
      <3> QED
        BY SMT, Z3, <3>1
    <2>3. rop[Acceptor] = "woken" \/ rb[t] = rb[Acceptor]
      BY Zenon, <1>2, <1>w, <1>t DEF R!EnqueuePut, R!WakeReaders
    <2> QED
      BY Zenon, <1>h, <1>t, <2>1, <2>2, <2>3 DEF WokenFindsEntry
  <1>3. ASSUME NEW t \in Threads, R!EnqueueTicket(t) PROVE buckets'[rb'[Acceptor]] # <<>>
    BY Zenon, <1>3, <1>h, <1>t, <1>w DEF R!EnqueueTicket, WokenFindsEntry
  <1>4. CASE R!DequeueTicket(Acceptor) \/ R!DequeueWait(Acceptor) \/ R!DequeueStray(Acceptor)
             \/ \E s \in Slots : R!DequeueTake(Acceptor, s)
    BY Zenon, <1>4, <1>t, <1>w DEF R!DequeueTicket, R!DequeueWait, R!DequeueStray, R!DequeueTake
  <1>5. CASE FillRing
    BY Zenon, <1>5, <1>t, <1>w, <1>h DEF FillRing, RingPhase
  <1>6. \A w \in Workers : w \in Threads
    BY Zenon DEF Threads
  <1>7. CASE Run \/ AllocStray
    BY Zenon, <1>1, <1>2, <1>3, <1>4, <1>5, <1>7, <1>s, <1>t
       DEF Run, OpenFail, StartPool, AllocTicket, AllocWait, AllocStray, AllocTake, AllocAborts, AcceptOk,
           AcceptFail, AbortPut, Submit, DrainPool, DrainAgain, StopPool, JoinPool, ClearPool, Cleanup
  <1>8. ASSUME NEW w \in Workers, HandleRequest(w) \/ PoolStep(w) PROVE buckets'[rb'[Acceptor]] # <<>>
    BY Zenon, <1>1, <1>2, <1>3, <1>6, <1>8, <1>s DEF HandleRequest, Serve, Release, GiveBack, PoolStep, TP!Process
  <1> QED
    BY Zenon, <1>1, <1>7, <1>8 DEF Next, Worker, vars

\* The invariant holds at the start and every step keeps it.
LEMMA InitInv == Init => IInv
  <1> SUFFICES ASSUME Init PROVE IInv
    BY Zenon
  <1>1. TypeOK
    BY Zenon, InitType
  <1>2. PoolPhase /\ NoWorker
    BY Zenon, Sizes DEF Init, TP!Init, PoolPhase, NoWorker, NumThreads
  <1>3. TP!Busy = {} /\ queue = <<>> /\ processing = 0
    BY Zenon, <1>2 DEF Init, TP!Init, TP!Busy, NoWorker
  <1>4. PoolQuiet
    BY Zenon, <1>3, FS_EmptySet DEF PoolQuiet
  <1>5. \A w \in Workers : w \in Threads /\ wpc[w] # "process"
    BY Zenon, <1>2 DEF NoWorker, Threads
  <1>6. RingPhase /\ HeldPhase
    BY Zenon, <1>5 DEF Init, R!RingInit, RingPhase, HeldPhase, Threads
  <1>7. buckets = [b \in R!Buckets |-> <<>>]
    BY Zenon DEF Init, R!RingInit
  <1>8. \A s \in Slots : ~InRing(s)
    BY SMTT(30), <1>7 DEF InRing
  <1>9. Unused /\ RingSlotsFinished /\ SlotInOnePlace
    BY Zenon, <1>8 DEF Init, Unused, RingSlotsFinished, SlotInOnePlace
  <1>10. SlotUsedOnce
    BY SMTT(30), Z3T(30), <1>3, <1>5, <1>7 DEF SlotUsedOnce
  <1>11. WokenFindsEntry
    BY Zenon DEF Init, R!RingInit, WokenFindsEntry
  <1> QED
    BY Zenon, <1>1, <1>2, <1>4, <1>6, <1>9, <1>10, <1>11 DEF IInv

LEMMA StepInv == IInv /\ [Next]_vars => IInv'
  <1> SUFFICES ASSUME IInv, [Next]_vars PROVE IInv'
    BY Zenon
  <1>1. TypeOK' /\ PoolPhase' /\ PoolQuiet'
    BY Zenon, TypeStep, PoolPhaseStep, PoolQuietStep
  <1>2. RingPhase' /\ HeldPhase' /\ WokenFindsEntry'
    BY Zenon, RingPhaseStep, WokenStep
  <1>3. SlotsInv' <=> SlotInOnePlace' /\ SlotUsedOnce' /\ RingSlotsFinished' /\ Unused'
    BY Zenon DEF SlotsInv, SlotInOnePlace, SlotUsedOnce, OnePlace, Filled, RingOnce, QueueOnce, WorkersOnce
  <1>4. SlotInOnePlace' /\ SlotUsedOnce' /\ RingSlotsFinished' /\ Unused'
    BY Zenon, <1>3, SlotsStep
  <1> QED
    BY Zenon, <1>1, <1>2, <1>4 DEF IInv

LEMMA AlwaysInv == Spec => []IInv
  BY InitInv, StepInv, PTL DEF Spec

\* Whatever the number of workers, and in whatever order they finish: every slot
\* of fcgx_reqs[] is in one place, there once, and in the ring only with its
\* connection finished.
THEOREM SlotsAlwaysAccounted == Spec => []SlotsAccounted
  <1>1. IInv => SlotsAccounted
    BY Zenon DEF IInv, SlotsAccounted
  <1> QED
    BY <1>1, AlwaysInv, PTL

\* The assertion of QueueBucket::dequeue() fails only after a wake-up without a signal:
\* no order of the requests makes it fail.  That of RGWWQ::_clear() never fails, and when
\* run() has returned no thread, request or connection is left.
THEOREM AssertionsAlwaysHold == Spec => []AssertionsHold
  <1>1. ASSUME IInv PROVE AssertionsHold
    <2>1. ClearFindsEmpty
      BY Zenon, <1>1 DEF IInv, PoolQuiet, Drained, ClearFindsEmpty
    <2>2. QuietAfterReturn
      BY Zenon, <1>1 DEF IInv, PoolPhase, NoWorker, PoolQuiet, Drained, HeldPhase, Unused, QuietAfterReturn
    <2> QED
      BY Zenon, <1>1, <2>1, <2>2 DEF IInv, AssertionsHold
  <1> QED
    BY <1>1, AlwaysInv, PTL

\* Every step of run() and of the workers is a step of the abstract service, or
\* changes nothing it shows.
LEMMA StepAbstract ==
    ASSUME IInv, [Next]_vars
    PROVE  [Abstract!Next]_(Abstract!vars)
  <1>h. /\ conn \in [Slots -> BOOLEAN] /\ HeldPhase /\ SlotInOnePlace /\ RingSlotsFinished
        /\ PoolQuiet /\ apc \in AcceptorStates /\ Unused /\ held \in Slots \cup {NoSlot}
        /\ NoSlot \notin Slots
    BY Zenon, Sizes DEF IInv, TypeOK
  <1>s. ASSUME conn' = conn, Phase' = Phase PROVE [Abstract!Next]_(Abstract!vars)
    BY Zenon, <1>s DEF Abstract!vars
  <1>1. CASE OpenFail
    <2>1. Abstract!Down
      BY Zenon, <1>1, <1>h DEF OpenFail, Goto, Unused, Abstract!Down, Phase
    <2> QED
      BY Zenon, <2>1 DEF Abstract!Next
  <1>2. CASE AcceptOk
    <2>1. Abstract!Accept(held) /\ held \in Slots
      BY Zenon, <1>2, <1>h DEF AcceptOk, Goto, HeldPhase, Abstract!Accept, Phase
    <2> QED
      BY Zenon, <2>1 DEF Abstract!Next
  <1>3. CASE AcceptFail
    <2>1. Abstract!Close
      BY Zenon, <1>3 DEF AcceptFail, Goto, Abstract!Close, Phase
    <2> QED
      BY Zenon, <2>1 DEF Abstract!Next
  <1>4. CASE Cleanup
    <2>1. apc = "cleanup" /\ apc' = "returned" /\ conn' = [s \in Slots |-> FALSE]
      BY Zenon, <1>4 DEF Cleanup, Goto
    <2>2. queue = <<>> /\ TP!Busy = {} /\ held = NoSlot
      BY Zenon, <1>h, <2>1 DEF PoolQuiet, Drained, HeldPhase
    <2>3. \A s \in Slots : ~InQueue(s) /\ ~WithWorker(s) /\ ~WithRun(s)
      BY SMTT(30), Z3T(30), <1>h, <2>2 DEF InQueue, WithWorker, WithRun, TP!Busy
    <2>4. \A s \in Slots : ~conn[s]
      BY Zenon, <1>h, <2>1, <2>3 DEF SlotInOnePlace, RingSlotsFinished
    <2>5. conn' = conn
      BY Zenon, <1>h, <2>1, <2>4
    <2>6. Abstract!Down
      BY Zenon, <2>1, <2>4, <2>5 DEF Abstract!Down, Phase
    <2> QED
      BY Zenon, <2>6 DEF Abstract!Next
  <1>5. ASSUME NEW w \in Workers, Serve(w) PROVE [Abstract!Next]_(Abstract!vars)
    <2>1. Abstract!Answer(item[w]) /\ item[w] \in Slots
      BY Zenon, <1>5, <1>h DEF Serve, HeldPhase, Abstract!Answer, Phase
    <2> QED
      BY Zenon, <2>1 DEF Abstract!Next
  <1>a. CASE AllocAborts
    <2>1. Abstract!Abort
      BY Zenon, <1>a DEF AllocAborts, Goto, Abstract!Abort, Phase
    <2> QED
      BY Zenon, <2>1 DEF Abstract!Next
  <1>6. CASE \/ StartPool \/ FillRing \/ AllocTicket \/ AllocWait \/ AllocTake \/ AbortPut \/ Submit
             \/ AllocStray \/ DrainPool \/ DrainAgain \/ StopPool \/ JoinPool \/ ClearPool
    <2>1. conn' = conn
      BY Zenon, <1>6 DEF StartPool, FillRing, AllocTicket, AllocWait, AllocStray, AllocTake, AbortPut, Submit, DrainPool,
         DrainAgain, StopPool, JoinPool, ClearPool, runVars
    <2>2. Phase' = Phase
      BY Zenon, <1>6 DEF StartPool, FillRing, AllocTicket, AllocWait, AllocStray, AllocTake, AbortPut, Submit, DrainPool,
         DrainAgain, StopPool, JoinPool, ClearPool, runVars, Goto, Phase
    <2> QED
      BY Zenon, <1>s, <2>1, <2>2
  <1>7. ASSUME NEW w \in Workers, Release(w) \/ GiveBack(w) \/ PoolStep(w) PROVE [Abstract!Next]_(Abstract!vars)
    BY Zenon, <1>7, <1>s DEF Release, GiveBack, PoolStep, runVars, Phase
  <1>8. CASE UNCHANGED vars
    BY Zenon, <1>8, <1>s DEF vars, runVars, Phase
  <1> QED
    BY Zenon, <1>1, <1>2, <1>3, <1>4, <1>5, <1>a, <1>6, <1>7, <1>8 DEF Next, Run, Worker, HandleRequest

\* The front end implements the safety of the service it promises: it accepts on a
\* slot only when its last connection is finished, accepts nothing once a shutdown has
\* begun, and run() returns only when every connection has been answered; no connection is
\* cut off but by an abort, and none of those once the shutdown has begun.
THEOREM ConnectionsImplemented == Spec => Abstract!Init /\ [][Abstract!Next]_(Abstract!vars)
  <1>1. Init => Abstract!Init
    BY Zenon DEF Init, Abstract!Init, Phase
  <1>2. IInv /\ [Next]_vars => [Abstract!Next]_(Abstract!vars)
    BY Zenon, StepAbstract
  <1> QED
    BY <1>1, <1>2, AlwaysInv, PTL DEF Spec
=============================================================================
