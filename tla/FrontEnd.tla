------------------------------ MODULE FrontEnd ------------------------------
(***************************************************************************)
(* The FastCGI front end of rgw/rgw_main.cc: RGWFCGXProcess::run() on the  *)
(* control thread, handle_request() on the workers of the thread pool, and *)
(* the ring of FCGX_Request slots between them.                            *)
(*                                                                         *)
(* A slot is an element of fcgx_reqs[], an array on run()'s stack.  It is  *)
(* taken from the ring by the constructor of RGWFCGXRequest and given back *)
(* by its destructor; a request is identified with its slot.  conn[s] says *)
(* that slot s has an open connection (FCGX_Accept_r succeeded, no         *)
(* FCGX_Finish_r since).                                                   *)
(*                                                                         *)
(* The pool and the ring are instances of their own modules; an action     *)
(* here is a step of run() or of handle_request() joined to the step of    *)
(* the pool or of the ring that it calls.                                  *)
(***************************************************************************)
EXTENDS Integers, Sequences, FiniteSets

CONSTANTS Workers,      \* the threads of the pool
          Acceptor,     \* the control thread
          NoSlot,       \* no request
          CounterMod    \* the wrap-around of the ring's counters

NumThreads == Cardinality(Workers)

\* max_connections(num_threads + (num_threads >> 3))
MaxConnections == NumThreads + NumThreads \div 8

Slots == 1 .. MaxConnections
Threads == Workers \cup {Acceptor}

ASSUME FrontEndAssumption ==
    /\ IsFiniteSet(Workers)
    /\ Workers # {}
    /\ Acceptor \notin Workers
    /\ NoSlot \notin Slots
    /\ CounterMod \in Nat
    /\ CounterMod > MaxConnections

VARIABLES wpc, item, threads, old, numThreads, queue, processing, pause,
          draining, stop, cpc                      \* the pool
VARIABLES buckets, curRead, curWrite, rop, rb      \* the ring
VARIABLES
    apc,      \* where run() is
    held,     \* the slot of the request run() has allocated
    conn      \* the slots with an open connection

TP == INSTANCE ThreadPool WITH Callers <- {Acceptor}, Items <- Slots,
                               Sizes <- {NumThreads}, NoItem <- NoSlot
R == INSTANCE QueueRing WITH Entries <- Slots, NumBuckets <- MaxConnections

poolVars == <<wpc, item, threads, old, numThreads, queue, processing, pause,
              draining, stop, cpc>>
ringVars == <<buckets, curRead, curWrite, rop, rb>>
runVars == <<apc, held, conn>>
vars == <<poolVars, ringVars, runVars>>

AcceptorStates == {"open", "fill", "loop", "dequeue", "accept", "submit", "abort",
                   "drain", "draining", "stopping", "cleanup", "returned", "aborted"}

Init ==
    /\ TP!Init
    /\ R!RingInit
    /\ apc = "open"
    /\ held = NoSlot
    /\ conn = [s \in Slots |-> FALSE]

Goto(l) == apc' = l
-----------------------------------------------------------------------------
(* run() on the control thread.                                            *)

\* The socket cannot be opened: run() returns before it starts the pool.
OpenFail ==
    /\ apc = "open"
    /\ Goto("returned")
    /\ UNCHANGED <<poolVars, ringVars, held, conn>>

\* m_tp.start()
StartPool ==
    /\ apc = "open"
    /\ TP!Start(Acceptor)
    /\ Goto("fill")
    /\ UNCHANGED <<ringVars, held, conn>>

\* The loop that initialises the slots and puts each into the ring: the i-th
\* one draws ticket i.  No other thread touches the ring yet.
FillRing ==
    /\ apc = "fill"
    /\ buckets' = [b \in R!Buckets |-> <<IF b = 0 THEN MaxConnections ELSE b>>]
    /\ curWrite' = MaxConnections
    /\ Goto("loop")
    /\ UNCHANGED <<poolVars, curRead, rop, rb, held, conn>>

\* new RGWFCGXRequest: qr->dequeue() draws its ticket ...
AllocTicket ==
    /\ apc = "loop"
    /\ R!DequeueTicket(Acceptor)
    /\ Goto("dequeue")
    /\ UNCHANGED <<poolVars, held, conn>>

\* ... sleeps while its bucket is empty ...
AllocWait ==
    /\ apc = "dequeue"
    /\ R!DequeueWait(Acceptor)
    /\ UNCHANGED <<poolVars, runVars>>

\* ... or until it wakes up without a signal ...
AllocStray ==
    /\ apc = "dequeue"
    /\ R!DequeueStray(Acceptor)
    /\ UNCHANGED <<poolVars, runVars>>

\* ... and takes a slot.
AllocTake ==
    /\ apc = "dequeue"
    /\ \E s \in Slots : R!DequeueTake(Acceptor, s) /\ held' = s
    /\ Goto("accept")
    /\ UNCHANGED <<poolVars, conn>>

\* The bucket is still empty: the assertion ends the process, and with it its
\* connections.
AllocAborts ==
    /\ apc = "dequeue"
    /\ R!DequeueAsserts(Acceptor)
    /\ conn' = [s \in Slots |-> FALSE]
    /\ Goto("aborted")
    /\ UNCHANGED <<poolVars, ringVars, held>>

\* FCGX_Accept_r returns a connection.
AcceptOk ==
    /\ apc = "accept"
    /\ conn' = [conn EXCEPT ![held] = TRUE]
    /\ Goto("submit")
    /\ UNCHANGED <<poolVars, ringVars, held>>

\* FCGX_Accept_r fails and leaves no connection: delete req draws a ticket and
\* gives the slot back.
AcceptFail ==
    /\ apc = "accept"
    /\ R!EnqueueTicket(Acceptor)
    /\ Goto("abort")
    /\ UNCHANGED <<poolVars, held, conn>>

AbortPut ==
    /\ apc = "abort"
    /\ R!EnqueuePut(Acceptor, held)
    /\ held' = NoSlot
    /\ Goto("drain")
    /\ UNCHANGED <<poolVars, conn>>

\* req_wq.queue(req)
Submit ==
    /\ apc = "submit"
    /\ TP!Queue(Acceptor, held)
    /\ held' = NoSlot
    /\ Goto("loop")
    /\ UNCHANGED <<ringVars, conn>>

DrainPool_Skipped ==
    /\ apc = "drain"
    /\ Goto("draining")
    /\ UNCHANGED <<poolVars, ringVars, held, conn>>

\* m_tp.drain(&req_wq), up to its return or its first wait ...
DrainPool ==
    /\ apc = "drain"
    /\ TP!Drain(Acceptor)
    /\ Goto("draining")
    /\ UNCHANGED <<ringVars, held, conn>>

\* ... and after a wait.
DrainAgain ==
    /\ apc = "draining"
    /\ TP!DrainWake(Acceptor)
    /\ UNCHANGED <<ringVars, runVars>>

\* m_tp.stop(): the flag is set, the threads are joined, the queue is cleared.
StopPool ==
    /\ apc = "draining"
    /\ TP!StopBegin(Acceptor)
    /\ Goto("stopping")
    /\ UNCHANGED <<ringVars, held, conn>>

JoinPool ==
    /\ apc = "stopping"
    /\ TP!StopJoin(Acceptor)
    /\ UNCHANGED <<ringVars, runVars>>

ClearPool ==
    /\ apc = "stopping"
    /\ TP!StopClear(Acceptor)
    /\ Goto("cleanup")
    /\ UNCHANGED <<ringVars, held, conn>>

\* The final loop over fcgx_reqs[]; run() returns and the array goes away.
Cleanup ==
    /\ apc = "cleanup"
    /\ conn' = [s \in Slots |-> FALSE]
    /\ Goto("returned")
    /\ UNCHANGED <<poolVars, ringVars, held>>

Run == OpenFail \/ StartPool \/ FillRing \/ AllocTicket \/ AllocWait \/ AllocTake
       \/ AllocAborts \/ AcceptOk \/ AcceptFail \/ AbortPut \/ Submit \/ DrainPool \/ DrainAgain
       \/ StopPool \/ JoinPool \/ ClearPool \/ Cleanup

-----------------------------------------------------------------------------
(* handle_request() on a worker, between the pool's dequeue and finish.    *)

\* process_request(), then FCGX_Finish_r.
Serve(w) ==
    /\ wpc[w] = "process"
    /\ conn[item[w]]
    /\ conn' = [conn EXCEPT ![item[w]] = FALSE]
    /\ UNCHANGED <<poolVars, ringVars, apc, held>>

Release_Early(w) ==
    /\ wpc[w] = "process"
    /\ R!EnqueueTicket(w)
    /\ UNCHANGED <<poolVars, runVars>>

\* delete req: the destructor's own FCGX_Finish_r finds the connection already
\* finished, and its enqueue draws a ticket ...
Release(w) ==
    /\ wpc[w] = "process"
    /\ ~conn[item[w]]
    /\ R!EnqueueTicket(w)
    /\ UNCHANGED <<poolVars, runVars>>

\* ... and puts the slot back; handle_request() returns.
GiveBack(w) ==
    /\ R!EnqueuePut(w, item[w])
    /\ TP!Process(w)
    /\ UNCHANGED runVars

\* The worker's own steps in the pool.
PoolStep(w) ==
    /\ TP!WorkerStart(w) \/ TP!WaitTimeout(w) \/ TP!WorkerFinish(w)
    /\ UNCHANGED <<ringVars, runVars>>

HandleRequest(w) == Serve(w) \/ Release(w) \/ GiveBack(w)

\* A worker runs as long as the process does.
Worker(w) == apc # "aborted" /\ (HandleRequest(w) \/ PoolStep(w))

Next == Run \/ AllocStray \/ \E w \in Workers : Worker(w)

\* Every thread that can take a step takes one: the mutexes are handed on,
\* WaitInterval times out and process_request() ends.  Whether FCGX_Accept_r
\* ever returns is up to the clients: AcceptOk and AcceptFail are not fair.  Nor
\* is a wake-up without a signal: nobody may count on it.
Fairness ==
    /\ WF_vars(Run /\ apc # "accept")
    /\ \A w \in Workers : WF_vars(Worker(w))

Spec == Init /\ [][Next]_vars
FairSpec == Spec /\ Fairness

-----------------------------------------------------------------------------
(* Properties.                                                             *)

InRing(s) == \E b \in DOMAIN buckets : \E k \in DOMAIN buckets[b] : buckets[b][k] = s
InQueue(s) == \E k \in DOMAIN queue : queue[k] = s
\* The worker still has the slot: it has not yet put it back into the ring.
WithWorker(s) == \E w \in Workers : item[w] = s /\ wpc[w] = "process"
WithRun(s) == held = s

\* Types of the fields of the pool, of the ring and of run(); a ticket always
\* selects a bucket of the ring.
TypeOK ==
    /\ TP!TypeOK
    /\ R!RingTypeOK
    /\ apc \in AcceptorStates
    /\ held \in Slots \cup {NoSlot}
    /\ conn \in [Slots -> BOOLEAN]

\* Once the ring is filled every slot is in exactly one place: in the ring, in
\* the request run() has allocated, in the request queue, or with a worker
\* that has not given it back.  No slot is lost and none is used twice.
SlotInOnePlace ==
    apc \notin {"open", "fill", "returned"} =>
        \A s \in Slots :
            /\ InRing(s) \/ InQueue(s) \/ WithWorker(s) \/ WithRun(s)
            /\ ~(InRing(s) /\ (InQueue(s) \/ WithWorker(s) \/ WithRun(s)))
            /\ ~(InQueue(s) /\ (WithWorker(s) \/ WithRun(s)))
            /\ ~(WithWorker(s) /\ WithRun(s))

\* The places hold a slot once: the ring and the queue have no duplicates and
\* two workers never serve the same slot.
SlotUsedOnce ==
    /\ \A b, c \in DOMAIN buckets : \A j \in DOMAIN buckets[b], k \in DOMAIN buckets[c] :
           buckets[b][j] = buckets[c][k] => b = c /\ j = k
    /\ \A j, k \in DOMAIN queue : queue[j] = queue[k] => j = k
    /\ \A v, w \in Workers : wpc[v] = "process" /\ wpc[w] = "process" /\ item[v] = item[w]
           => v = w

\* A slot in the ring has no open connection: its client was answered and the
\* connection finished before the slot may be accepted on again.
RingSlotsFinished == \A s \in Slots : InRing(s) => ~conn[s]

\* run(), the ring, the queue and the workers hand the slots of fcgx_reqs[] round: each
\* is in one place, there once, and finished before it is in the ring again.
SlotsAccounted == TypeOK /\ SlotInOnePlace /\ SlotUsedOnce /\ RingSlotsFinished

\* QueueBucket::dequeue() tests for an empty bucket with "if" and not with
\* "while": whoever was signalled finds an entry, and the process ends in the
\* assertion only after a wake-up without a signal.
WokenFindsEntry ==
    /\ \A t \in Threads : rop[t] = "woken" => buckets[rb[t]] # <<>>
    /\ apc = "aborted" => rop[Acceptor] = "stray"

\* The assertion itself, "assert(!entries.empty())": whoever gets past the test of
\* dequeue() finds an entry.  Without a loop round cond.Wait() it may not.
DequeueFindsEntry == \A t \in Threads : ~R!DequeueAsserts(t)

\* The assertion in RGWWQ::_clear(), which stop() calls: drain() has left the
\* queue empty and no request in processing, and it stays so.
ClearFindsEmpty ==
    apc \in {"stopping", "cleanup"} => queue = <<>> /\ TP!Busy = {}

\* When run() has returned, and fcgx_reqs[] with it, no thread is left that
\* could touch a slot and no connection is open.
QuietAfterReturn ==
    apc = "returned" => /\ \A w \in Workers : wpc[w] = "off"
                        /\ queue = <<>>
                        /\ held = NoSlot
                        /\ \A s \in Slots : ~conn[s]

\* Nothing but a wake-up without a signal makes the assertion of dequeue() fail, that
\* of _clear() never fails, and run() leaves nothing behind.
AssertionsHold == WokenFindsEntry /\ ClearFindsEmpty /\ QuietAfterReturn

\* run() always gets back to accepting, unless the assertion of dequeue() ends the
\* process: it does not sleep for ever on an empty bucket while the free slots are
\* in other ones, although tickets are drawn in one order and slots given back in
\* another.
AcceptsAgain == apc = "dequeue" ~> apc \in {"accept", "aborted"}

\* Once FCGX_Accept_r has failed, drain() and stop() come to an end and run()
\* returns.
ShutdownEnds == apc = "abort" ~> apc = "returned"

\* What the comment on max_connections promises: connections "are still
\* accepted even if we're still processing older requests", that is, run() is
\* not asleep for want of a slot while the requests are all with the workers.
AcceptsWhileBusy ==
    (\A w \in Workers : wpc[w] = "process") /\ queue = <<>> =>
        rop[Acceptor] # "wait"

-----------------------------------------------------------------------------
(* What the front end promises: a bounded set of connections, each of them *)
(* answered, and an orderly end, unless the process is aborted.            *)

Phase == CASE apc = "returned" -> "down"
           [] apc = "aborted" -> "aborted"
           [] apc \in {"abort", "drain", "draining", "stopping", "cleanup"} -> "closing"
           [] OTHER -> "up"

Abstract == INSTANCE Connections WITH phase <- Phase

\* run() and handle_request(), with the pool and the ring between them,
\* implement the abstract service: a slot is accepted on only when its previous
\* connection is finished, nothing is accepted once the shutdown has begun, run()
\* returns only when every connection has been answered, one by one, and each of
\* them is answered eventually, or cut off when the process is aborted, which does not
\* happen once the shutdown has begun.
ImplementsConnections == Abstract!FairSpec

=============================================================================
