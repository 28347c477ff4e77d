-------------------------- MODULE GarbageCollector --------------------------
(***************************************************************************)
(* RGWGC of rgw/rgw_gc.cc: the objects behind a deleted or overwritten     *)
(* object are listed, as a chain under a tag, in an index; some time later *)
(* a processor drops the reference of the tag to each of them and removes  *)
(* the tag.  Processors of several gateways take turns by a lock with a    *)
(* duration, and readers defer a chain that they still read.  A step is    *)
(* one operation on the storage; the object classes that carry it out are  *)
(* not part of this code, and are modelled from how it calls them.         *)
(***************************************************************************)
EXTENDS Naturals, FiniteSets

CONSTANTS Processors, NoOne,
          Tags, NoTag,
          Objects,
          Chain,        \* the objects of the chain of each tag
          MaxSecs,      \* rgw_gc_processor_max_time
          MinWait,      \* rgw_gc_obj_min_wait
          MaxChunk,     \* MAX_REMOVE_CHUNK
          MaxTime,      \* bound: the clock
          MaxDefers     \* bound: deferrals

GcAssumption ==
    /\ Chain \in [Tags -> SUBSET Objects]
    /\ MaxSecs \in Nat /\ MinWait \in Nat /\ MaxTime \in Nat \ {0}
    /\ NoOne \notin Processors

VARIABLES
    clock,
    index,      \* when the chain of each tag may be collected, 0 if it is not listed
    refs,       \* the tags with a reference to each object
    lock,       \* the lock of the index: its holder and when it expires
    pc,
    end,        \* when each processor shall stop
    entries,    \* the tags it still has to process
    current,    \* the tag it is at,
    objs,       \*   the objects of its chain that are left
    removeTag,  \*   and remove_tag
    removeTags, \* remove_tags
    down,       \* down_flag
    sent,       \* the tags that send_chain() was called with
    skipped,    \* the tags whose chain was not listed, or has an object whose pool could not be opened
    defers

vars == <<clock, index, refs, lock, pc, end, entries, current, objs, removeTag, removeTags, down,
          sent, skipped, defers>>
workVars == <<entries, current, objs, removeTag, removeTags>>
storeVars == <<index, refs, sent, defers>>

Unlocked == [by |-> NoOne, until |-> 0]

Init ==
    /\ clock = 1
    /\ index = [t \in Tags |-> 0]
    /\ refs = [o \in Objects |-> {t \in Tags : o \in Chain[t]}]
    /\ lock = Unlocked
    /\ pc = [p \in Processors |-> "idle"]
    /\ end = [p \in Processors |-> 0]
    /\ entries = [p \in Processors |-> {}]
    /\ current = [p \in Processors |-> NoTag]
    /\ objs = [p \in Processors |-> {}]
    /\ removeTag = [p \in Processors |-> FALSE]
    /\ removeTags = [p \in Processors |-> {}]
    /\ down = [p \in Processors |-> FALSE]
    /\ sent = {} /\ skipped = {} /\ defers = 0

-----------------------------------------------------------------------------
(* Requests.                                                               *)

\* send_chain(), once for each tag.
SendChain(t) ==
    /\ t \notin sent
    /\ sent' = sent \cup {t}
    /\ index' = [index EXCEPT ![t] = clock + MinWait]
    /\ UNCHANGED <<clock, refs, lock, pc, end, workVars, down, skipped, defers>>

\* The operation of send_chain(), which is asynchronous and has no callback, fails: the
\* request has been answered, and nobody sends the chain again.
SendFails(t) ==
    /\ t \notin sent
    /\ sent' = sent \cup {t}
    /\ skipped' = skipped \cup {t}
    /\ UNCHANGED <<clock, index, refs, lock, pc, end, workVars, down, defers>>

\* defer_chain(): of no effect when the tag is not listed.
DeferChain(t) ==
    /\ index[t] # 0
    /\ defers < MaxDefers
    /\ defers' = defers + 1
    /\ index' = [index EXCEPT ![t] = clock + MinWait]
    /\ UNCHANGED <<clock, refs, lock, pc, end, workVars, down, sent, skipped>>

-----------------------------------------------------------------------------
(* process(index, max_secs), for an index object.                          *)

\* What process() has in its frame is gone with it.
Leave(p, where) ==
    /\ pc' = [pc EXCEPT ![p] = where]
    /\ end' = [end EXCEPT ![p] = 0]
    /\ entries' = [entries EXCEPT ![p] = {}]
    /\ current' = [current EXCEPT ![p] = NoTag]
    /\ objs' = [objs EXCEPT ![p] = {}]
    /\ removeTag' = [removeTag EXCEPT ![p] = FALSE]
    /\ removeTags' = [removeTags EXCEPT ![p] = {}]
    /\ UNCHANGED <<clock, storeVars, down, skipped>>

\* process() goes through the index objects without a look at down_flag, so that this one
\* may have its turn when the flag is set already.
Process(p) ==
    /\ pc[p] = "idle"
    /\ end' = [end EXCEPT ![p] = clock + MaxSecs]
    /\ pc' = [pc EXCEPT ![p] = "lock"]
    /\ UNCHANGED <<clock, lock, workVars, storeVars, down, skipped>>

\* lock_exclusive(): a lock that has expired is free, and one that is held says -EBUSY.
Held == lock.by # NoOne /\ clock < lock.until

LockExclusive(p) ==
    /\ pc[p] = "lock" /\ ~Held
    /\ lock' = [by |-> p, until |-> clock + MaxSecs]
    /\ pc' = [pc EXCEPT ![p] = "list"]
    /\ UNCHANGED <<clock, end, workVars, storeVars, down, skipped>>

\* It is held, or fails in another way: process() returns.
LockFails(p) ==
    /\ pc[p] = "lock"
    /\ Leave(p, "idle")
    /\ UNCHANGED lock

\* cls_rgw_gc_list() of the tags that have expired, which are fewer than the 100 of a
\* page, or an error.
List(p) ==
    /\ pc[p] = "list"
    /\ \/ entries' = [entries EXCEPT ![p] = {t \in Tags : index[t] \in 1 .. clock}]
          /\ pc' = [pc EXCEPT ![p] = "entry"]
       \/ pc' = [pc EXCEPT ![p] = "done"] /\ UNCHANGED entries
    /\ UNCHANGED <<clock, lock, end, current, objs, removeTag, removeTags, storeVars, down, skipped>>

\* The next tag, unless the time is over.
NextEntry(p) ==
    /\ pc[p] = "entry"
    /\ IF entries[p] = {} \/ clock >= end[p]
       THEN /\ pc' = [pc EXCEPT ![p] = "done"]
            /\ entries' = [entries EXCEPT ![p] = {}]
            /\ UNCHANGED <<current, objs, removeTag>>
       ELSE \E t \in entries[p] :
            /\ entries' = [entries EXCEPT ![p] = @ \ {t}]
            /\ current' = [current EXCEPT ![p] = t]
            /\ objs' = [objs EXCEPT ![p] = Chain[t]]
            /\ removeTag' = [removeTag EXCEPT ![p] = TRUE]
            /\ pc' = [pc EXCEPT ![p] = "objs"]
    /\ UNCHANGED <<clock, lock, end, removeTags, storeVars, down, skipped>>

\* After an operation on an object: leave early when the gateway goes down.
GoOn(p) == pc' = [pc EXCEPT ![p] = IF down[p] THEN "done" ELSE "objs"]

\* cls_refcount_put() of one object; a reference that is gone already is no error.
RefcountPut(p) ==
    /\ pc[p] = "objs"
    /\ \E o \in objs[p] :
           /\ refs' = [refs EXCEPT ![o] = @ \ {current[p]}]
           /\ objs' = [objs EXCEPT ![p] = @ \ {o}]
    /\ GoOn(p)
    /\ UNCHANGED <<clock, index, lock, end, entries, current, removeTag, removeTags, down, sent,
                   skipped, defers>>

RefcountPutFails_Kept(p) ==
    /\ pc[p] = "objs"
    /\ \E o \in objs[p] : objs' = [objs EXCEPT ![p] = @ \ {o}]
    /\ GoOn(p)
    /\ UNCHANGED <<clock, lock, end, entries, current, removeTag, removeTags, storeVars, down,
                   skipped>>

\* Another error: the tag stays listed for the next round.
RefcountPutFails(p) ==
    /\ pc[p] = "objs"
    /\ \E o \in objs[p] : objs' = [objs EXCEPT ![p] = @ \ {o}]
    /\ removeTag' = [removeTag EXCEPT ![p] = FALSE]
    /\ GoOn(p)
    /\ UNCHANGED <<clock, lock, end, entries, current, removeTags, storeVars, down, skipped>>

\* ioctx_create() fails: continue with the next object, and remove_tag stays.
PoolFails(p) ==
    /\ pc[p] = "objs"
    /\ \E o \in objs[p] : objs' = [objs EXCEPT ![p] = @ \ {o}]
    /\ skipped' = skipped \cup {current[p]}
    /\ UNCHANGED <<clock, lock, pc, end, entries, current, removeTag, removeTags, storeVars, down>>

\* The chain is done; its tag is to be removed, and many tags are removed together.
EndChain(p) ==
    /\ pc[p] = "objs" /\ objs[p] = {}
    /\ IF removeTag[p] THEN removeTags' = [removeTags EXCEPT ![p] = @ \cup {current[p]}]
                       ELSE UNCHANGED removeTags
    /\ pc' = [pc EXCEPT ![p] =
                 IF removeTag[p] /\ Cardinality(removeTags'[p]) > MaxChunk THEN "chunk" ELSE "entry"]
    /\ UNCHANGED <<clock, lock, end, entries, current, objs, removeTag, storeVars, down, skipped>>

\* remove(), whose result nobody looks at, in the loop or at the end.
Remove(p) ==
    /\ pc[p] \in {"chunk", "done"}
    /\ index' \in {[t \in Tags |-> IF t \in removeTags[p] THEN 0 ELSE index[t]], index}
    /\ removeTags' = [removeTags EXCEPT ![p] = {}]
    /\ pc' = [pc EXCEPT ![p] = IF pc[p] = "chunk" THEN "entry" ELSE "unlock"]
    /\ UNCHANGED <<clock, refs, lock, end, entries, current, objs, removeTag, down, sent, skipped,
                   defers>>

\* unlock(), of no effect when the lock is somebody else's by now, and process() returns.
Unlock(p) ==
    /\ pc[p] = "unlock"
    /\ lock' = IF lock.by = p THEN Unlocked ELSE lock
    /\ Leave(p, "idle")

\* stop_processor() sets down_flag.
StopProcessor(p) ==
    /\ ~down[p]
    /\ down' = [down EXCEPT ![p] = TRUE]
    /\ UNCHANGED <<clock, lock, pc, end, workVars, storeVars, skipped>>

\* A gateway dies in process(): its lock is left to expire.
Crash(p) ==
    /\ pc[p] \notin {"idle", "crashed"}
    /\ Leave(p, "crashed")
    /\ UNCHANGED lock

Tick ==
    /\ clock < MaxTime
    /\ clock' = clock + 1
    /\ UNCHANGED <<lock, pc, end, workVars, storeVars, down, skipped>>

Processor(p) ==
    \/ Process(p) \/ LockExclusive(p) \/ LockFails(p) \/ List(p) \/ NextEntry(p)
    \/ RefcountPut(p) \/ RefcountPutFails(p) \/ PoolFails(p) \/ EndChain(p)
    \/ Remove(p) \/ Unlock(p)

Next ==
    \/ \E t \in Tags : SendChain(t) \/ SendFails(t) \/ DeferChain(t)
    \/ \E p \in Processors : Processor(p) \/ StopProcessor(p) \/ Crash(p)
    \/ Tick

Spec == Init /\ [][Next]_vars

-----------------------------------------------------------------------------
(* Properties.                                                             *)

TypeOK ==
    /\ clock \in 1 .. MaxTime
    /\ index \in [Tags -> 0 .. MaxTime + MinWait]
    /\ refs \in [Objects -> SUBSET Tags]
    /\ lock \in [by : Processors \cup {NoOne}, until : 0 .. MaxTime + MaxSecs]
    /\ end \in [Processors -> 0 .. MaxTime + MaxSecs]
    /\ entries \in [Processors -> SUBSET Tags] /\ removeTags \in [Processors -> SUBSET Tags]
    /\ pc \in [Processors -> {"idle", "lock", "list", "entry", "objs", "chunk", "done", "unlock",
                              "crashed"}]

\* A tag leaves the index only when none of its objects is referred to by it any more:
\* otherwise nobody would ever find them again.  Two cases are left out, in which objects
\* are lost: the chain never came into the index because the send failed, and an object
\* whose pool cannot be opened, for which process() still removes the tag.
NothingIsLost ==
    \A t \in sent \ skipped : index[t] = 0 => \A o \in Objects : t \notin refs[o]

\* Of the processors that start a chain, one at a time does so before its time is over:
\* the lock does not expire before end.
OneInTime ==
    \A p \in Processors :
        pc[p] \in {"list", "entry"} /\ clock < end[p] => lock.by = p /\ clock < lock.until

=============================================================================
