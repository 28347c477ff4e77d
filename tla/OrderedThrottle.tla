--------------------------- MODULE OrderedThrottle ---------------------------
(***************************************************************************)
(* OrderedThrottle of common/Throttle.cc: at most m_max operations at a    *)
(* time, which finish in any order and whose callbacks run in the order of *)
(* the operations.  The callbacks are run by the threads inside start_op() *)
(* and wait_for_ret(), which release m_lock meanwhile; a callback reports  *)
(* the end of its operation with end_op().  Cond::Signal() is a broadcast. *)
(* One thread starts operations, as the class is meant to be used: a       *)
(* second one can take the slots an earlier tid waits for, and then no     *)
(* callback is next any more.                                              *)
(***************************************************************************)
EXTENDS Integers, Sequences, FiniteSets

CONSTANTS Starter,     \* the thread that starts operations
          Waiters,     \* the threads that only wait for the result
          NoThread,
          MaxCurrent,         \* m_max
          IgnoreEnoent, \* m_ignore_enoent
          MaxOps       \* bound: operations started

Threads == {Starter} \cup Waiters

OrderAssumption == MaxOps \in Nat /\ MaxCurrent \in Nat

VARIABLES
    lock,         \* m_lock between two steps of its holder
    current,      \* m_current
    nextTid,      \* m_next_tid
    completeTid,  \* m_complete_tid
    result,       \* m_tid_result: what is known of each tid in the map
    retVal,       \* the ret_val of each tid
    ret,          \* m_ret_val: the error wait_for_ret() returns
    pc,           \* where each thread is
    tid,          \* the operation a thread starts, or whose callback it runs
    called        \* the callbacks run so far, in order

vars == <<lock, current, nextTid, completeTid, result, retVal, ret, pc, tid, called>>

Tids == 0 .. MaxOps - 1

\* "starting": start_op() has not returned; "running": the caller has the context;
\* "finished": finish_op() was called.  The rest are not in the map.
ResultStates == {"none", "starting", "running", "finished", "erased"}
Outcomes == {"ok", "ENOENT", "EIO", "EPERM"}
Pending == {i \in Tids : result[i] \in {"starting", "running", "finished"}}

Init ==
    /\ lock = NoThread
    /\ current = 0
    /\ nextTid = 0
    /\ completeTid = 0
    /\ result = [i \in Tids |-> "none"]
    /\ retVal = [i \in Tids |-> "ok"]
    /\ ret = "ok"
    /\ pc = [t \in Threads |-> "idle"]
    /\ tid = [t \in Threads |-> 0]
    /\ called = <<>>

\* The threads that sleep on m_cond test again.
SignalAll(p) == [t \in Threads |-> CASE p[t] = "startwait" -> "start"
                                     [] p[t] = "retwait" -> "ret"
                                     [] OTHER -> p[t]]

-----------------------------------------------------------------------------

\* start_op() draws its tid and enters it in the map.
StartOp(t) ==
    /\ pc[t] = "idle" /\ lock = NoThread
    /\ nextTid < MaxOps
    /\ lock' = t
    /\ nextTid' = nextTid + 1
    /\ result' = [result EXCEPT ![nextTid] = "starting"]
    /\ tid' = [tid EXCEPT ![t] = nextTid]
    /\ pc' = [pc EXCEPT ![t] = "start"]
    /\ UNCHANGED <<current, completeTid, called, retVal, ret>>

\* wait_for_ret().
CallWait(t) ==
    /\ pc[t] = "idle"
    /\ pc' = [pc EXCEPT ![t] = "ret"]
    /\ UNCHANGED <<lock, current, nextTid, completeTid, result, tid, called, retVal, ret>>

FirstIsReady_AnyFinished(i) ==
    /\ i \in Pending /\ \A j \in Pending : result[j] = "finished" => i <= j
    /\ result[i] = "finished"

\* The test of complete_pending_ops(): m_tid_result.begin() is next and finished.
FirstIsReady(i) ==
    /\ i \in Pending /\ \A j \in Pending : i <= j
    /\ i = completeTid
    /\ result[i] = "finished"

\* complete_pending_ops() erases the first operation and releases m_lock.
TakeFirst(t, i) ==
    /\ pc[t] \in {"start", "ret"} /\ lock \in {NoThread, t}
    /\ lock' = NoThread
    /\ FirstIsReady(i)
    /\ result' = [result EXCEPT ![i] = "erased"]
    /\ pc' = [pc EXCEPT ![t] = IF @ = "start" THEN "startcall" ELSE "retcall"]
    /\ called' = Append(called, i)
    /\ UNCHANGED <<current, nextTid, completeTid, tid, retVal, ret>>

\* The first error is kept.
Worse(r) ==
    IF r # "ok" /\ ret = "ok" /\ (r # "ENOENT" \/ ~IgnoreEnoent) THEN r ELSE ret

EndOp_Quiet(r, p) ==
    /\ ret' = Worse(r)
    /\ current' = current - 1
    /\ pc' = p

\* end_op(), called by the callback with the result of its operation.
EndOp(r, p) ==
    /\ ret' = Worse(r)
    /\ current' = current - 1
    /\ pc' = SignalAll(p)

Callback(t) ==
    /\ pc[t] \in {"startcall", "retcall"} /\ lock = NoThread
    /\ EndOp(retVal[called[Len(called)]], [pc EXCEPT ![t] = IF @ = "startcall" THEN "startback" ELSE "retback"])
    /\ UNCHANGED <<lock, nextTid, completeTid, result, tid, called, retVal>>

\* complete_pending_ops() has m_lock again.
Advance(t) ==
    /\ pc[t] \in {"startback", "retback"} /\ lock = NoThread
    /\ lock' = t
    /\ completeTid' = completeTid + 1
    /\ pc' = [pc EXCEPT ![t] = IF @ = "startback" THEN "start" ELSE "ret"]
    /\ UNCHANGED <<current, nextTid, result, tid, called, retVal, ret>>

\* start_op() after complete_pending_ops(): the loop over m_max == m_current.
StartDone(t) ==
    /\ pc[t] = "start" /\ lock \in {NoThread, t}
    /\ lock' = NoThread
    /\ ~ \E i \in Tids : FirstIsReady(i)
    /\ IF current = MaxCurrent
       THEN /\ pc' = [pc EXCEPT ![t] = "startwait"]
            /\ UNCHANGED <<current, result>>
       ELSE /\ current' = current + 1
            /\ result' = [result EXCEPT ![tid[t]] = "running"]
            /\ pc' = [pc EXCEPT ![t] = "idle"]
    /\ UNCHANGED <<nextTid, completeTid, tid, called, retVal, ret>>

\* wait_for_ret() after complete_pending_ops().
RetDone(t) ==
    /\ pc[t] = "ret" /\ lock \in {NoThread, t}
    /\ lock' = NoThread
    /\ ~ \E i \in Tids : FirstIsReady(i)
    /\ pc' = [pc EXCEPT ![t] = IF current > 0 THEN "retwait" ELSE "idle"]
    /\ UNCHANGED <<current, nextTid, completeTid, result, tid, called, retVal, ret>>

\* finish_op(), called by whoever completes the operation.
FinishOp(i, r) ==
    /\ result[i] = "running" /\ lock = NoThread
    /\ result' = [result EXCEPT ![i] = "finished"]
    /\ retVal' = [retVal EXCEPT ![i] = r]
    /\ pc' = SignalAll(pc)
    /\ UNCHANGED <<lock, current, nextTid, completeTid, tid, called, ret>>

Step(t) ==
    \/ \E i \in Tids : TakeFirst(t, i)
    \/ Callback(t) \/ Advance(t) \/ StartDone(t) \/ RetDone(t)

Next ==
    \/ StartOp(Starter)
    \/ \E t \in Threads : CallWait(t) \/ Step(t)
    \/ \E i \in Tids, r \in Outcomes : FinishOp(i, r)

Spec == Init /\ [][Next]_vars

\* A thread that can run runs, and every operation finishes.
Fairness ==
    /\ \A t \in Threads : SF_vars(Step(t))
    /\ \A i \in Tids : WF_vars(\E r \in Outcomes : FinishOp(i, r))

FairSpec == Spec /\ Fairness

-----------------------------------------------------------------------------
(* Properties.                                                             *)

PcStates == {"idle", "start", "startwait", "startcall", "startback",
             "ret", "retwait", "retcall", "retback"}

TypeOK ==
    /\ lock \in Threads \cup {NoThread}
    /\ current \in 0 .. MaxCurrent
    /\ nextTid \in 0 .. MaxOps /\ completeTid \in 0 .. MaxOps
    /\ result \in [Tids -> ResultStates]
    /\ retVal \in [Tids -> Outcomes] /\ ret \in Outcomes
    /\ pc \in [Threads -> PcStates]
    /\ tid \in [Threads -> 0 .. MaxOps]
    /\ called \in Seq(Tids)

Calling(t) == pc[t] \in {"startcall", "retcall"}

\* "Operations can complete out-of-order but their associated Context callback
\* will completed in-order" (Throttle.h): also when several threads are inside
\* complete_pending_ops(), which releases the lock for each callback, the callbacks
\* start in the order of the tids and no two run at a time.
CallbacksInOrder ==
    /\ \A k \in 1 .. Len(called) : called[k] = k - 1
    /\ \A t, u \in Threads : Calling(t) /\ Calling(u) => t = u

\* m_current counts the operations whose start_op() has returned and whose callback
\* has not reported their end, so the assertion m_current > 0 of end_op() holds.
CurrentExact ==
    current = Cardinality({i \in Tids : result[i] \in {"running", "finished"}})
              + Cardinality({t \in Threads : Calling(t)})

Counted(r) == r \notin {"ok"} \cup (IF IgnoreEnoent THEN {"ENOENT"} ELSE {})
Ended == {i \in Tids : result[i] = "erased"
                       /\ (called # <<>> /\ i = called[Len(called)]
                           => \A t \in Threads : ~Calling(t))}

\* The result is the error of the first operation that failed, in the order the
\* operations were started and not in the order they finished.
RetIsFirstError ==
    LET failed == {i \in Ended : Counted(retVal[i])}
    IN  IF failed = {} THEN ret = "ok"
        ELSE \A i \in failed : (\A j \in failed : i <= j) => ret = retVal[i]

\* wait_for_ret() and start_op() return, whichever thread runs the callbacks: no
\* signal is missed while the lock is released for a callback.
CallsReturn ==
    \A t \in Threads : pc[t] # "idle" ~> pc[t] = "idle"

=============================================================================
