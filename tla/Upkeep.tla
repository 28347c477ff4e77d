------------------------------- MODULE Upkeep -------------------------------
(***************************************************************************)
(* What keeps the store in order behind the requests: the log of changed   *)
(* buckets and the garbage collector.  Each is an instance of its module;  *)
(* a name that another module uses is renamed.                             *)
(***************************************************************************)
EXTENDS Integers, Sequences

\* DataChangesLog
CONSTANTS Callers, NoCaller, BucketShards, NoShard, ChooseOid, Window, ChangesSize, MaxTime,
          MaxCalls
VARIABLES clock, statusMap, changeStatus, curCycle, call, renewer, batch, stamp, down, lastEntry,
          owed, calls
dataVars == <<clock, statusMap, changeStatus, curCycle, call, renewer, batch, stamp, down,
              lastEntry, owed, calls>>
Data == INSTANCE DataChangesLog WITH
    changes <- statusMap, status <- changeStatus, thread <- renewer

ASSUME DataAssumption == Data!DataAssumption

\* GarbageCollector
CONSTANTS Processors, NoProcessor, Tags, NoTag, Objects, TagChain, MaxSecs, MinWait, MaxChunk,
          GcMaxTime, MaxDefers
VARIABLES gcClock, index, gcRefs, gcLock, gcPc, gcEnd, gcEntries, current, objs, removeTag,
          removeTags, gcDown, gcSent, skipped, defers
gcVars == <<gcClock, index, gcRefs, gcLock, gcPc, gcEnd, gcEntries, current, objs, removeTag,
            removeTags, gcDown, gcSent, skipped, defers>>
Garbage == INSTANCE GarbageCollector WITH
    NoOne <- NoProcessor, Chain <- TagChain, MaxTime <- GcMaxTime, clock <- gcClock,
    refs <- gcRefs, lock <- gcLock, pc <- gcPc, end <- gcEnd, entries <- gcEntries, down <- gcDown, sent <- gcSent

ASSUME GcAssumption == Garbage!GcAssumption

-----------------------------------------------------------------------------
(* What they promise, as stated in their modules.                          *)

\* rgw_bucket.cc: a change answered without an entry of its own is not forgotten before it
\* has one, unless the thread fails to write the batch it is in, and whoever waits for an entry waits for a call that is sending it.
ChangeIsKept == Data!ChangeIsKept /\ Data!WaitsForSender

\* rgw_gc.cc: a tag that came into the index is removed after its objects are released,
\* those aside whose pool cannot be opened, and one processor at a time
\* works on the index before its time is over.
NothingIsLost == Garbage!NothingIsLost /\ Garbage!OneInTime

=============================================================================
