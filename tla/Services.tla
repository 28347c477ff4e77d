------------------------------ MODULE Services ------------------------------
(***************************************************************************)
(* The services that run on threads of their own beside the requests: the  *)
(* timer, the thread that syncs the statistics of users, and the log.      *)
(* Each is an instance of its module; a name that another module uses is   *)
(* renamed.                                                                *)
(***************************************************************************)
EXTENDS Integers, Sequences

\* SafeTimer
CONSTANTS Callbacks, NoCallback, SafeCallbacks, MaxTime
VARIABLES safe, clock, schedule, events, stopping, thread, now, deadline, signalled, running,
          timerClient, status
timerVars == <<safe, clock, schedule, events, stopping, thread, now, deadline, signalled,
               running, timerClient, status>>
Timer == INSTANCE SafeTimer WITH client <- timerClient

ASSUME TimerAssumption == Timer!TimerAssumption

\* RGWUserStatsCache
CONSTANTS Requests, Buckets, NoBucket, MaxCalls
VARIABLES down, rwlocked, modified, syncPc, arg, batch, syncer, user, stopper, owed, calls
syncVars == <<down, rwlocked, modified, syncPc, arg, batch, syncer, user, stopper, owed, calls>>
Sync == INSTANCE UserStatsSync WITH pc <- syncPc

\* Log
CONSTANTS Loggers, Callers, Flusher, NoThread, NewLimits, RecentLimits, MaxEntries
VARIABLES logPc, entries, recent, logBatch, flushMutex, logStopping, maxNew, maxRecent,
          submitted, written, dumpedLast, logOwed
logVars == <<logPc, entries, recent, logBatch, flushMutex, logStopping, maxNew, maxRecent,
             submitted, written, dumpedLast, logOwed>>
Logging == INSTANCE Log WITH
    pc <- logPc, batch <- logBatch, stopping <- logStopping, owed <- logOwed

ASSUME LogAssumption == Logging!LogAssumption

-----------------------------------------------------------------------------
(* What they promise, as stated in their modules.                          *)

\* Timer.cc: schedule and events name the same callbacks, those not yet run, and nothing
\* runs and nothing is left once shutdown() has returned.
EventsRunOnce == Timer!MapsAgree /\ Timer!ShutdownIsFinal

\* Timer.cc: a callback runs no earlier than its time, the earliest first.
NotBeforeItsTime == Timer!NotBeforeItsTime

\* Log.cc: no entry is lost, repeated or overtaken between submit_entry() and _flush(),
\* m_recent is an unbroken run of entries up to the last one written, and what was
\* submitted before stop() is written when the thread is gone.
EntriesInOrder ==
    Logging!EntriesInOrder /\ Logging!RecentIsUnbroken /\ Logging!StopWritesAll

=============================================================================
