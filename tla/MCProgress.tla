----------------------------- MODULE MCProgress -----------------------------
(* Components with something that must eventually happen, on small         *)
(* instances: a behaviour is one of the component that part names, and the *)
(* others stay as they begin.                                              *)
EXTENDS Services, Counting, Listings

\* The components of Services, Counting and Listings get their constants from the configuration:
\* two threads log while a third flushes, dumps and stops, and m_new holds one entry or has
\* no limit; three ordered operations, two at a time, which one thread starts and another
\* waits for; two callbacks at three moments, in both modes; three threads with one
\* reference, of which two get another; two requests and two buckets for the statistics.
CONSTANTS t1, t2, b1, none

\* RGWDataChangesLog
VARIABLES time, statusMap, changeStatus, curCycle, call, renewer, renewBatch, stamp, logDown,
          lastEntry, changeOwed, addCalls
dataVars == <<time, statusMap, changeStatus, curCycle, call, renewer, renewBatch, stamp, logDown,
              lastEntry, changeOwed, addCalls>>

VARIABLE part
allVars == <<logVars, orderVars, timerVars, refVars, syncVars, listVars, dataVars, part>>

\* Three names, of which the buffer of shell_execute() holds two.
SomeKinds == {<<"plain", "folder", "plain">>, <<"folder", "hidden", "folder">>}
\* Two callers and one bucket shard; the window is one tick.
Data == INSTANCE DataChangesLog WITH
    Callers <- {t1, t2}, NoCaller <- none, BucketShards <- {b1}, NoShard <- none,
    ChooseOid <- [b \in {b1} |-> 0], Window <- 1, ChangesSize <- 1, MaxTime <- 2, MaxCalls <- 2,
    clock <- time, changes <- statusMap, status <- changeStatus, thread <- renewer,
    batch <- renewBatch, down <- logDown, owed <- changeOwed, calls <- addCalls

\* Where a component may begin in several ways, it does so when it is its turn.
Init ==
    /\ part \in {"log", "order", "timer", "ref", "sync", "list", "data"}
    /\ Logging!Init /\ Order!Init /\ Timer!Init /\ Ref!Init /\ Sync!Init /\ List!Init
    /\ Data!Init
    /\ part # "log" => maxNew = 0
    /\ part # "timer" => safe
    /\ part # "list" => dir = {} /\ kind[1] = "plain"

\* The components other than the one that takes the step.
Rest(name) ==
    /\ UNCHANGED part
    /\ IF name = "log" THEN TRUE ELSE UNCHANGED logVars
    /\ IF name = "order" THEN TRUE ELSE UNCHANGED orderVars
    /\ IF name = "timer" THEN TRUE ELSE UNCHANGED timerVars
    /\ IF name = "ref" THEN TRUE ELSE UNCHANGED refVars
    /\ IF name = "sync" THEN TRUE ELSE UNCHANGED syncVars
    /\ IF name = "list" THEN TRUE ELSE UNCHANGED listVars
    /\ IF name = "data" THEN TRUE ELSE UNCHANGED dataVars

Next ==
    \/ part = "log" /\ Logging!Next /\ Rest("log")
    \/ part = "order" /\ Order!Next /\ Rest("order")
    \/ part = "timer" /\ Timer!Next /\ Rest("timer")
    \/ part = "ref" /\ Ref!Next /\ Rest("ref")
    \/ part = "sync" /\ Sync!Next /\ Rest("sync")
    \/ part = "list" /\ List!Next /\ Rest("list")
    \/ part = "data" /\ Data!Next /\ Rest("data")

\* The fairness of each component, as its FairSpec has it.
Fairness ==
    /\ WF_logVars(part = "log" /\ Logging!ThreadStep)
    /\ WF_logVars(part = "log" /\ (\E c \in Callers : Logging!EndFlush(c) \/ Logging!EndDump(c) \/ Logging!Join(c)))
    /\ \A l \in Loggers :
           WF_logVars(part = "log" /\ logPc[l] = "woken"
                      /\ (Logging!SubmitWait(l) \/ Logging!SubmitEnqueue(l)))
    /\ \A i \in 0 .. 2 :
           WF_orderVars(part = "order" /\ \E r \in Order!Outcomes : Order!FinishOp(i, r))
    /\ WF_timerVars(part = "timer" /\ Timer!TimerThread)
    /\ WF_timerVars(part = "timer" /\ Timer!Join)
    /\ WF_timerVars(part = "timer" /\ Timer!Tick)
    /\ \A t \in RefThreads :
           /\ WF_refVars(part = "ref" /\ Ref!Step(t))
           /\ WF_refVars(part = "ref" /\ \E w \in BOOLEAN : Ref!PutBegin(t, w))
    /\ WF_syncVars(part = "sync" /\ Sync!Syncer)
    /\ WF_syncVars(part = "sync" /\ Sync!UserSync)
    /\ WF_syncVars(part = "sync" /\ Sync!StopLock)
    /\ WF_syncVars(part = "sync" /\ Sync!JoinBuckets)
    /\ WF_syncVars(part = "sync" /\ Sync!JoinUser)
    /\ WF_listVars(part = "list" /\ List!Serve)
    /\ WF_dataVars(part = "data" /\ Data!Renew)
    /\ \A c \in {t1, t2} : WF_dataVars(part = "data" /\ Data!Call(c))
    /\ SF_orderVars(part = "order" /\ Order!Step(Starter))
    /\ \A w \in Waiters : SF_orderVars(part = "order" /\ Order!Step(w))

FairSpec == Init /\ [][Next]_allVars /\ Fairness

-----------------------------------------------------------------------------
(* The properties of the components, stated in their modules, beside those *)
(* of Services and Counting.                                               *)

\* The variables of all components have their types.
TypesOK ==
    /\ part = "log" => Logging!TypeOK
    /\ part = "order" => Order!TypeOK
    /\ part = "timer" => Timer!TypeOK
    /\ part = "ref" => Ref!TypeOK
    /\ part = "sync" => Sync!TypeOK
    /\ part = "list" => List!TypeOK
    /\ part = "data" => Data!TypeOK

\* Log.cc: an entry is eventually written unless the log is stopped, and submit_entry()
\* does not wait for ever for a flush().
EntriesWritten == Logging!EntryWritten /\ Logging!SubmitReturns
\* Throttle.cc: start_op() and wait_for_ret() return.
CallsReturn == Order!CallsReturn
\* Timer.cc: a scheduled event runs or is cancelled, and shutdown() returns.
EventsRun == Timer!EventRuns /\ Timer!ShutdownReturns
\* RefCountedObj.h: put_wait() returns and nothing leaks.
PutWaitReturns == part = "ref" => Ref!PutWaitReturns
\* porting_quota.cc: sync_bucket() is called for a modified bucket unless the cache is stopped,
\* and stop() returns or stays for ever with the thread in swap_modified_buckets().
ModifiedIsHandedOver == Sync!ModifiedIsHandedOver /\ Sync!StopOutcome
\* porting_rados.cc, porting_op.cc: list_objects() and RGWListBuckets::execute() return.
ListingsReturn == List!ListReturns /\ List!ListBucketsReturns
\* rgw_bucket.cc: a change answered without an entry of its own gets one unless the write of
\* its batch fails, add_entry() returns, and the thread ends.
ChangeIsLogged == Data!ChangeIsLogged /\ Data!AddEntryReturns /\ Data!DownEnds

=============================================================================
