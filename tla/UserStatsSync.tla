---------------------------- MODULE UserStatsSync ----------------------------
(***************************************************************************)
(* RGWUserStatsCache of rgw/porting_quota.cc: requests note the buckets    *)
(* they modified in modified_buckets, and BucketsSyncThread takes the map  *)
(* away and hands the buckets to sync_bucket() one by one; UserSyncThread  *)
(* walks over all users.  stop() ends both threads, and holds rwlock while *)
(* it waits for the first.  A step is one critical section of rwlock, or   *)
(* the work between two of them.                                           *)
(*   What sync_bucket() does is not modelled: in this port the body of     *)
(* rgw_bucket_sync_user_stats() is commented out, an error is logged and   *)
(* the bucket is dropped all the same, and rgw_main.cc makes the store     *)
(* without quota threads.  The module is about the hand-over only.         *)
(***************************************************************************)
EXTENDS Naturals, FiniteSets

CONSTANTS Requests,   \* the threads that call data_modified()
          Buckets, NoBucket,
          MaxCalls    \* bound: calls of data_modified()

VARIABLES
    down,       \* down_flag
    rwlocked,   \* stop() holds rwlock for writing
    modified,   \* the keys of modified_buckets
    pc,         \* where each request is
    arg,        \* its bucket
    batch,      \* the buckets BucketsSyncThread has taken and not yet handed over
    syncer,     \* where BucketsSyncThread is
    user,       \* where UserSyncThread is
    stopper,    \* where stop() is
    owed,       \* modified buckets whose data_modified() returned, not handed over since
    calls

vars == <<down, rwlocked, modified, pc, arg, batch, syncer, user, stopper, owed, calls>>

Init ==
    /\ down = FALSE
    /\ rwlocked = FALSE
    /\ modified = {}
    /\ pc = [r \in Requests |-> "idle"]
    /\ arg = [r \in Requests |-> NoBucket]
    /\ batch = {}
    /\ syncer = "swap"
    /\ user = "sync"
    /\ stopper = "idle"
    /\ owed = {}
    /\ calls = 0

-----------------------------------------------------------------------------
(* data_modified(), after the object was written.                          *)

\* The test under the read lock.
DataModified(r, b) ==
    /\ pc[r] = "idle" /\ ~rwlocked
    /\ calls < MaxCalls
    /\ calls' = calls + 1
    /\ IF b \in modified
       THEN owed' = owed \cup {b} /\ UNCHANGED <<pc, arg>>
       ELSE /\ pc' = [pc EXCEPT ![r] = "insert"]
            /\ arg' = [arg EXCEPT ![r] = b]
            /\ UNCHANGED owed
    /\ UNCHANGED <<down, rwlocked, modified, batch, syncer, user, stopper>>

\* The insertion under the write lock.
Insert(r) ==
    /\ pc[r] = "insert" /\ ~rwlocked
    /\ modified' = modified \cup {arg[r]}
    /\ owed' = owed \cup {arg[r]}
    /\ pc' = [pc EXCEPT ![r] = "idle"]
    /\ UNCHANGED <<down, rwlocked, arg, batch, syncer, user, stopper, calls>>

-----------------------------------------------------------------------------
(* BucketsSyncThread::entry().                                             *)

\* swap_modified_buckets().
SwapModified ==
    /\ syncer = "swap" /\ ~rwlocked
    /\ batch' = modified
    /\ modified' = {}
    /\ syncer' = "sync"
    /\ UNCHANGED <<down, rwlocked, pc, arg, user, stopper, owed, calls>>

\* The call of sync_bucket() for the next bucket: whatever it returns, the bucket is not tried again.
SyncBucket(b) ==
    /\ syncer = "sync" /\ b \in batch
    /\ batch' = batch \ {b}
    /\ owed' = owed \ {b}
    /\ UNCHANGED <<down, rwlocked, modified, pc, arg, syncer, user, stopper, calls>>

\* The batch is done: the first test of going_down().
AfterBatch ==
    /\ syncer = "sync" /\ batch = {}
    /\ syncer' = IF down THEN "exited" ELSE "wait"
    /\ UNCHANGED <<down, rwlocked, modified, pc, arg, batch, user, stopper, owed, calls>>

AfterWait_Inverted ==
    /\ syncer = "wait"
    /\ syncer' = IF down THEN "swap" ELSE "exited"
    /\ UNCHANGED <<down, rwlocked, modified, pc, arg, batch, user, stopper, owed, calls>>

\* WaitInterval() of no length, and the test at the end of the loop.
AfterWait ==
    /\ syncer = "wait"
    /\ syncer' = IF down THEN "exited" ELSE "swap"
    /\ UNCHANGED <<down, rwlocked, modified, pc, arg, batch, user, stopper, owed, calls>>

\* UserSyncThread::entry(): sync_all_users(), the wait, and the test.
UserSync ==
    /\ user = "sync"
    /\ user' = IF down THEN "exited" ELSE "sync"
    /\ UNCHANGED <<down, rwlocked, modified, pc, arg, batch, syncer, stopper, owed, calls>>

-----------------------------------------------------------------------------
(* stop(), called by the destructor.                                       *)

StopFlag ==
    /\ stopper = "idle"
    /\ down' = TRUE
    /\ stopper' = "lock"
    /\ UNCHANGED <<rwlocked, modified, pc, arg, batch, syncer, user, owed, calls>>

\* rwlock.get_write(), then stop() of the thread and the join.
StopLock ==
    /\ stopper = "lock"
    /\ rwlocked' = TRUE
    /\ stopper' = "joinBuckets"
    /\ UNCHANGED <<down, modified, pc, arg, batch, syncer, user, owed, calls>>

\* The first thread has ended: rwlock is released.
JoinBuckets ==
    /\ stopper = "joinBuckets" /\ syncer = "exited"
    /\ rwlocked' = FALSE
    /\ stopper' = "joinUser"
    /\ UNCHANGED <<down, modified, pc, arg, batch, syncer, user, owed, calls>>

JoinUser ==
    /\ stopper = "joinUser" /\ user = "exited"
    /\ stopper' = "done"
    /\ UNCHANGED <<down, rwlocked, modified, pc, arg, batch, syncer, user, owed, calls>>

Syncer == SwapModified \/ (\E b \in Buckets : SyncBucket(b)) \/ AfterBatch \/ AfterWait

\* stop() waits for a thread that waits for rwlock, or everything has ended.
Stopped ==
    /\ stopper = "done" \/ (stopper = "joinBuckets" /\ syncer = "swap")
    /\ UNCHANGED vars

Next ==
    \/ \E r \in Requests : Insert(r) \/ \E b \in Buckets : DataModified(r, b)
    \/ Syncer \/ UserSync
    \/ StopFlag \/ StopLock \/ JoinBuckets \/ JoinUser \/ Stopped

Spec == Init /\ [][Next]_vars

\* The scheduler runs every thread; nobody but stop() keeps rwlock.
Fairness ==
    /\ WF_vars(Syncer) /\ WF_vars(UserSync)
    /\ WF_vars(StopLock) /\ WF_vars(JoinBuckets) /\ WF_vars(JoinUser)

FairSpec == Spec /\ Fairness

-----------------------------------------------------------------------------
(* Properties.                                                             *)

TypeOK ==
    /\ down \in BOOLEAN /\ rwlocked \in BOOLEAN
    /\ modified \subseteq Buckets /\ batch \subseteq Buckets /\ owed \subseteq Buckets
    /\ pc \in [Requests -> {"idle", "insert"}]
    /\ arg \in [Requests -> Buckets \cup {NoBucket}]
    /\ syncer \in {"swap", "sync", "wait", "exited"}
    /\ user \in {"sync", "exited"}
    /\ stopper \in {"idle", "lock", "joinBuckets", "joinUser", "done"}
    /\ calls \in 0 .. MaxCalls

\* "racy, but it's ok" (data_modified()): the test and the insertion are two critical
\* sections, and the sync thread may take the map between them; a bucket whose
\* data_modified() returned is in the map or in the batch still to be handed to sync_bucket().
ModifiedIsKept == owed \subseteq modified \cup batch

\* While the cache is not stopped, the thread calls sync_bucket() for a modified bucket
\* after it was modified.
ModifiedIsHandedOver ==
    \A b \in Buckets : b \in owed ~> b \notin owed \/ down

\* stop() has two ends: both threads are joined, or it waits for ever, with rwlock, for
\* BucketsSyncThread, which waits for rwlock in swap_modified_buckets().
StopOutcome ==
    stopper = "lock" ~>
        (stopper = "done" \/ [](stopper = "joinBuckets" /\ syncer = "swap"))

=============================================================================
