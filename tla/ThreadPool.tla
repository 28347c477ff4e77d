----------------------------- MODULE ThreadPool -----------------------------
(***************************************************************************)
(* The thread pool of common/WorkQueue.{h,cc} with the one work queue that *)
(* rgw_main.cc gives it (RGWProcess::RGWWQ over m_req_queue).              *)
(*                                                                         *)
(* Every action is one critical section of ThreadPool::_lock: the lock is  *)
(* held from its first to its last effect, so no other section can be      *)
(* ordered in between.  A worker that has processed an item keeps the lock *)
(* until it has taken the next item, gone to sleep or left, and so         *)
(* WorkerFinish contains the next turn of the loop.                        *)
(*                                                                         *)
(* Condition variables.  _cond is the set of workers whose wpc is "wait";  *)
(* they wait with a time-out and so may leave at any time.  _wait_cond is  *)
(* the set of callers whose cpc is "pausing" or "draining"; they have no   *)
(* time-out and leave only when signalled.                                 *)
(***************************************************************************)
EXTENDS Integers, Sequences, FiniteSets

CONSTANTS Workers,     \* identities of worker threads, free ones included
          Callers,     \* threads that call the pool's interface
          Items,       \* work items (pointers to requests)
          Sizes,       \* values _num_threads may take
          NoItem       \* a worker without an item

ASSUME PoolAssumption ==
    /\ IsFiniteSet(Workers)
    /\ IsFiniteSet(Callers)
    /\ Sizes \subseteq Nat \ {0}
    /\ NoItem \notin Items

VARIABLES
    wpc,          \* where each worker is
    item,         \* the item a worker has taken from the queue
    threads,      \* _threads
    old,          \* _old_threads
    numThreads,   \* _num_threads
    queue,        \* m_req_queue
    processing,   \* processing
    pause,        \* _pause
    draining,     \* _draining
    stop,         \* _stop
    cpc           \* where each caller is

workerVars == <<wpc, item, threads, old>>
callerVars == <<cpc, pause, draining, stop, numThreads>>
vars == <<wpc, item, threads, old, numThreads, queue, processing, pause,
          draining, stop, cpc>>

\* "off": no such thread; "start": about to take the lock at the loop's head;
\* "wait": in _cond.WaitInterval; "process": in _void_process; "finish": about
\* to take the lock after it; "exited": returned, not yet joined.
WorkerStates == {"off", "start", "wait", "process", "finish", "exited"}

\* "pausing"/"draining": asleep on _wait_cond; "pwoken"/"dwoken": signalled,
\* lock not yet retaken; "paused": pause() has returned; "held": pause_new()
\* has returned; "joining", "joined": inside stop().
CallerStates == {"idle", "pausing", "pwoken", "paused", "held",
                 "draining", "dwoken", "joining", "joined"}

Busy == {w \in Workers : wpc[w] \in {"process", "finish"}}
Pausers == {c \in Callers : cpc[c] \in {"pausing", "pwoken", "paused", "held"}}
Drainers == {c \in Callers : cpc[c] \in {"draining", "dwoken"}}

Init ==
    /\ wpc = [w \in Workers |-> "off"]
    /\ item = [w \in Workers |-> NoItem]
    /\ threads = {}
    /\ old = {}
    /\ numThreads \in Sizes
    /\ queue = <<>>
    /\ processing = 0
    /\ pause = 0
    /\ draining = 0
    /\ stop = FALSE
    /\ cpc = [c \in Callers |-> "idle"]

-----------------------------------------------------------------------------
(* Helpers.                                                                *)

\* _cond.Signal(), _cond.SignalAll(): every sleeping worker leaves the wait.
WakeAll(pc) == [w \in Workers |-> IF pc[w] = "wait" THEN "start" ELSE pc[w]]

\* _cond.SignalOne(): one sleeping worker, if there is one, leaves the wait.
WakeOne(pc) ==
    LET asleep == {w \in Workers : pc[w] = "wait"}
    IN  IF asleep = {} THEN {pc} ELSE {[pc EXCEPT ![w] = "start"] : w \in asleep}

\* join_old_threads(): every retired thread is joined and deleted.
JoinOld(pc) == [w \in Workers |-> IF w \in old THEN "off" ELSE pc[w]]

\* start_threads(): create threads until there are n of them; pc is where the
\* other threads are when the lock is released.
StartThreads(n, pc) ==
    \E new \in SUBSET {w \in Workers : wpc[w] = "off"} :
        /\ Cardinality(new) =
               IF n > Cardinality(threads) THEN n - Cardinality(threads) ELSE 0
        /\ threads' = threads \cup new
        /\ wpc' = [w \in Workers |-> IF w \in new THEN "start" ELSE pc[w]]

\* _wait_cond.Signal() is a broadcast: all sleeping callers leave the wait.
WakeCallers ==
    [c \in Callers |-> CASE cpc[c] = "pausing"  -> "pwoken"
                         [] cpc[c] = "draining" -> "dwoken"
                         [] OTHER -> cpc[c]]

SomebodyWaits_DrainOnly == draining > 0
SomebodyWaits_PauseOnly == pause > 0

\* A worker that finishes an item signals _wait_cond under this condition.
SomebodyWaits == pause > 0 \/ draining > 0

MayDequeue_Paused == queue # <<>>

\* The condition under which a worker takes an item.
MayDequeue == pause = 0 /\ queue # <<>>

\* The condition under which a worker retires.
TooMany == Cardinality(threads) > numThreads

PopFront_Kept == queue

\* _dequeue() takes the front of m_req_queue off.
PopFront == Tail(queue)

-----------------------------------------------------------------------------
(* Workers.                                                                *)

\* The loop of worker(), entered with the lock held and with p items being
\* processed, up to where the lock is released.
WorkerLoop(w, p) ==
    \/ /\ stop
       /\ wpc' = [wpc EXCEPT ![w] = "exited"]
       /\ item' = [item EXCEPT ![w] = NoItem]
       /\ processing' = p
       /\ UNCHANGED <<threads, old, queue>>
    \/ /\ ~stop
       /\ TooMany
       /\ threads' = threads \ {w}
       /\ old' = {w}
       /\ wpc' = [JoinOld(wpc) EXCEPT ![w] = "exited"]
       /\ item' = [item EXCEPT ![w] = NoItem]
       /\ processing' = p
       /\ UNCHANGED queue
    \/ /\ ~stop
       /\ ~TooMany
       /\ MayDequeue
       /\ queue' = PopFront
       /\ item' = [item EXCEPT ![w] = Head(queue)]
       /\ processing' = p + 1
       /\ wpc' = [JoinOld(wpc) EXCEPT ![w] = "process"]
       /\ old' = {}
       /\ UNCHANGED threads
    \/ /\ ~stop
       /\ ~TooMany
       /\ ~MayDequeue
       /\ wpc' = [JoinOld(wpc) EXCEPT ![w] = "wait"]
       /\ item' = [item EXCEPT ![w] = NoItem]
       /\ processing' = p
       /\ old' = {}
       /\ UNCHANGED <<threads, queue>>

\* A thread takes the lock at the head of the loop: at its start, or when
\* WaitInterval returns.
WorkerStart(w) ==
    /\ wpc[w] = "start"
    /\ WorkerLoop(w, processing)
    /\ UNCHANGED callerVars

\* The two seconds of WaitInterval pass.
WaitTimeout(w) ==
    /\ wpc[w] = "wait"
    /\ wpc' = [wpc EXCEPT ![w] = "start"]
    /\ UNCHANGED <<item, threads, old, queue, processing, callerVars>>

\* _void_process runs without the lock.
Process(w) ==
    /\ wpc[w] = "process"
    /\ wpc' = [wpc EXCEPT ![w] = "finish"]
    /\ UNCHANGED <<item, threads, old, queue, processing, callerVars>>

\* The lock is retaken: the item is accounted for, callers are signalled and
\* the loop goes on.
WorkerFinish(w) ==
    /\ wpc[w] = "finish"
    /\ cpc' = IF SomebodyWaits THEN WakeCallers ELSE cpc
    /\ WorkerLoop(w, processing - 1)
    /\ UNCHANGED <<pause, draining, stop, numThreads>>

Worker(w) == WorkerStart(w) \/ WaitTimeout(w) \/ Process(w) \/ WorkerFinish(w)

-----------------------------------------------------------------------------
(* Callers.                                                                *)

\* start()
Start(c) ==
    /\ cpc[c] = "idle"
    /\ StartThreads(numThreads, wpc)
    /\ UNCHANGED <<item, old, queue, processing, callerVars>>

\* handle_conf_change(), which ends with SignalAll.  The line that reads the option is
\* commented out in this port, so that the new size comes from memory nobody has set:
\* any n.  Nor is the observer registered in start(): the call is part of the pool's
\* interface, and nothing in the program makes it yet.
Resize(c, n) ==
    /\ cpc[c] = "idle"
    /\ numThreads' = n
    /\ StartThreads(n, WakeAll(wpc))
    /\ UNCHANGED <<item, old, queue, processing, cpc, pause, draining, stop>>

\* WorkQueue::queue(): _enqueue, then SignalOne.
Queue(c, i) ==
    /\ cpc[c] = "idle"
    /\ queue' = Append(queue, i)
    /\ wpc' \in WakeOne(wpc)
    /\ UNCHANGED <<item, threads, old, processing, callerVars>>

\* The test at the head of the loop of pause().
PauseTest(c) ==
    cpc' = [cpc EXCEPT ![c] = IF processing > 0 THEN "pausing" ELSE "paused"]

\* pause() up to its return or its first wait.
Pause(c) ==
    /\ cpc[c] = "idle"
    /\ pause' = pause + 1
    /\ PauseTest(c)
    /\ UNCHANGED <<workerVars, queue, processing, draining, stop, numThreads>>

\* pause() after a wait.
PauseWake(c) ==
    /\ cpc[c] = "pwoken"
    /\ PauseTest(c)
    /\ UNCHANGED <<workerVars, queue, processing, pause, draining, stop, numThreads>>

\* pause_new()
PauseNew(c) ==
    /\ cpc[c] = "idle"
    /\ pause' = pause + 1
    /\ cpc' = [cpc EXCEPT ![c] = "held"]
    /\ UNCHANGED <<workerVars, queue, processing, draining, stop, numThreads>>

\* unpause(), by a caller whose pause() or pause_new() has returned.
Unpause(c) ==
    /\ cpc[c] \in {"paused", "held"}
    /\ pause' = pause - 1
    /\ cpc' = [cpc EXCEPT ![c] = "idle"]
    /\ wpc' = WakeAll(wpc)
    /\ UNCHANGED <<item, threads, old, queue, processing, draining, stop, numThreads>>

\* The condition of the loop of drain().
MustWait == processing > 0 \/ queue # <<>>

\* drain() up to its return or its first wait: _draining is raised, and
\* lowered again on the way out.
Drain(c) ==
    /\ cpc[c] = "idle"
    /\ IF MustWait
       THEN /\ draining' = draining + 1
            /\ cpc' = [cpc EXCEPT ![c] = "draining"]
       ELSE UNCHANGED <<draining, cpc>>
    /\ UNCHANGED <<workerVars, queue, processing, pause, stop, numThreads>>

\* drain() after a wait.
DrainWake(c) ==
    /\ cpc[c] = "dwoken"
    /\ IF MustWait
       THEN /\ cpc' = [cpc EXCEPT ![c] = "draining"]
            /\ UNCHANGED draining
       ELSE /\ draining' = draining - 1
            /\ cpc' = [cpc EXCEPT ![c] = "idle"]
    /\ UNCHANGED <<workerVars, queue, processing, pause, stop, numThreads>>

\* stop(), first critical section.
StopBegin(c) ==
    /\ cpc[c] = "idle"
    /\ stop' = TRUE
    /\ wpc' = WakeAll(JoinOld(wpc))
    /\ old' = {}
    /\ cpc' = [cpc EXCEPT ![c] = "joining"]
    /\ UNCHANGED <<item, threads, queue, processing, pause, draining, numThreads>>

StopJoin_NoWait(c) ==
    /\ cpc[c] = "joining"
    /\ threads' = {}
    /\ cpc' = [cpc EXCEPT ![c] = "joined"]
    /\ UNCHANGED <<wpc, item, old, queue, processing, pause, draining, stop, numThreads>>

\* stop(): every thread of _threads is joined and deleted, the set cleared.
StopJoin(c) ==
    /\ cpc[c] = "joining"
    /\ \A w \in threads : wpc[w] = "exited"
    /\ wpc' = [w \in Workers |-> IF w \in threads THEN "off" ELSE wpc[w]]
    /\ threads' = {}
    /\ cpc' = [cpc EXCEPT ![c] = "joined"]
    /\ UNCHANGED <<item, old, queue, processing, pause, draining, stop, numThreads>>

\* stop(), last critical section; RGWWQ::_clear() asserts an empty queue and
\* changes nothing.
StopClear(c) ==
    /\ cpc[c] = "joined"
    /\ stop' = FALSE
    /\ cpc' = [cpc EXCEPT ![c] = "idle"]
    /\ UNCHANGED <<workerVars, queue, processing, pause, draining, numThreads>>

-----------------------------------------------------------------------------
(* The contract of the callers, as RGWFCGXProcess::run() keeps it: the     *)
(* other calls come after start(); stop() is called with nothing queued    *)
(* and nobody else inside the pool, and no call starts while it runs; an   *)
(* item is not queued while the pool has it.                               *)

Stopping == \E c \in Callers : cpc[c] \in {"joining", "joined"}

Running == threads # {} /\ ~Stopping

InPool(i) == \/ \E k \in DOMAIN queue : queue[k] = i
             \/ \E w \in Workers : item[w] = i

Caller(c) ==
    \/ ~Stopping /\ Start(c)
    \/ Running /\ \E n \in Sizes : Resize(c, n)
    \/ Running /\ \E i \in Items : ~InPool(i) /\ Queue(c, i)
    \/ Running /\ Pause(c)
    \/ PauseWake(c)
    \/ Running /\ PauseNew(c)
    \/ Unpause(c)
    \/ Running /\ Drain(c)
    \/ DrainWake(c)
    \/ /\ Running
       /\ \A d \in Callers : cpc[d] = "idle"
       /\ queue = <<>>
       /\ StopBegin(c)
    \/ StopJoin(c)
    \/ StopClear(c)

Next == (\E w \in Workers : Worker(w)) \/ (\E c \in Callers : Caller(c))

\* Threads that can run do run, the mutex is handed to every thread that
\* wants it, WaitInterval times out, an item's processing ends, and a caller
\* that has paused the pool resumes it.
Fairness ==
    /\ \A w \in Workers : WF_vars(Worker(w))
    /\ \A c \in Callers : /\ WF_vars(PauseWake(c))
                          /\ WF_vars(DrainWake(c))
                          /\ WF_vars(Unpause(c))
                          /\ WF_vars(StopJoin(c))
                          /\ WF_vars(StopClear(c))

Spec == Init /\ [][Next]_vars
FairSpec == Spec /\ Fairness

-----------------------------------------------------------------------------
(* Properties.                                                             *)

\* Types of the pool's fields; _num_threads is a value the option was given.
TypeOK ==
    /\ wpc \in [Workers -> WorkerStates]
    /\ item \in [Workers -> Items \cup {NoItem}]
    /\ threads \subseteq Workers
    /\ old \subseteq Workers
    /\ numThreads \in Sizes
    /\ queue \in Seq(Items)
    /\ processing \in Int
    /\ pause \in Int
    /\ draining \in Int
    /\ stop \in BOOLEAN
    /\ cpc \in [Callers -> CallerStates]

\* The counters that worker(), pause(), unpause() and drain() raise in one
\* critical section and lower in a later one count exactly the threads that
\* are in between: nothing is lost when a worker retires, stops or is paused.
CountersExact ==
    /\ processing = Cardinality(Busy)
    /\ pause = Cardinality(Pausers)
    /\ draining = Cardinality(Drainers)

\* From the return of pause() to the matching unpause() no item is being
\* processed, whatever the other callers queue, drain, pause or resume.
PausedIsQuiet ==
    (\E c \in Callers : cpc[c] = "paused") => Busy = {}

\* No item is lost or handed out twice: what a worker holds is not queued, two
\* workers hold different items and the queue has no duplicate.
ItemsOnce ==
    /\ \A w \in Workers : (item[w] # NoItem) <=> (w \in Busy)
    /\ \A v, w \in Workers : v # w /\ item[v] # NoItem => item[v] # item[w]
    /\ \A w \in Workers, k \in DOMAIN queue : queue[k] # item[w]
    /\ \A j, k \in DOMAIN queue : j # k => queue[j] # queue[k]

\* A thread leaves _threads exactly when it will be joined: the live threads
\* are those of _threads, and the ones waiting to be joined have returned.
ThreadsAccounted ==
    /\ \A w \in threads : wpc[w] # "off" /\ (wpc[w] = "exited" => stop)
    /\ \A w \in old : wpc[w] = "exited" /\ w \notin threads
    /\ \A w \in Workers \ (threads \cup old) : wpc[w] = "off"

\* While stop() runs it is alone: _stop is set exactly then, no other call is
\* in progress, and after the join no thread is left for it to race with.
StopExclusive ==
    /\ stop <=> Stopping
    /\ \A c \in Callers : cpc[c] \in {"joining", "joined"} =>
           \A d \in Callers \ {c} : cpc[d] = "idle"
    /\ (\E c \in Callers : cpc[c] = "joined") => threads = {}

\* The pool is consistent at every release of its lock, whatever calls and workers
\* overlap: the types, the threads that run and those still to be joined, stop() alone,
\* the three counters exact, and nothing in process while the pool is paused.  The
\* conjunction is preserved by every step; none of its parts is alone.
PoolInv ==
    TypeOK /\ ThreadsAccounted /\ StopExclusive /\ CountersExact /\ PausedIsQuiet

\* pause() returns: the worker that finishes the last item signals _wait_cond.
PauseReturns ==
    \A c \in Callers : cpc[c] \in {"pausing", "pwoken"} ~> cpc[c] = "paused"

\* Once the size stays at n after the calls of handle_conf_change(), of which the program
\* makes none yet, and the pool is not stopped, the pool gets down to n threads, although
\* only the workers themselves retire.
ResizeSettles ==
    \A n \in Sizes : <>[](numThreads = n) => []<>(stop \/ Cardinality(threads) <= n)

\* pause() and a change of the thread count take effect in the end.
CallsTakeEffect == PauseReturns /\ ResizeSettles

=============================================================================
