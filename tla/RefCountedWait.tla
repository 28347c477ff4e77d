--------------------------- MODULE RefCountedWait ---------------------------
(***************************************************************************)
(* RefCountedWaitObject of common/RefCountedObj.h, which the quota caches  *)
(* use to wait for their asynchronous refreshes: an object with a counter  *)
(* and a condition (RefCountedCond), itself reference counted because it   *)
(* is used after the object is gone.  Each thread has at most one          *)
(* reference and gives it up with put() or put_wait().                     *)
(***************************************************************************)
EXTENDS Integers, FiniteSets

CONSTANTS Threads,
          Creator,    \* the thread that constructs the object
          MaxGets     \* bound: calls of get()

RefAssumption == IsFiniteSet(Threads) /\ Creator \in Threads

VARIABLES
    nref,       \* nref of the object
    freed,      \* the object is deleted
    condRefs,   \* nref of the RefCountedCond
    condFreed,  \* the RefCountedCond is deleted
    complete,   \* its flag
    pc,         \* where each thread is
    waits,      \* the threads that called put_wait(), not put()
    gets,       \* calls of get() so far
    misused     \* a freed object or condition was touched

vars == <<nref, freed, condRefs, condFreed, complete, pc, waits, gets, misused>>

Init ==
    /\ nref = 1
    /\ freed = FALSE
    /\ condRefs = 1
    /\ condFreed = FALSE
    /\ complete = FALSE
    /\ pc = [t \in Threads |-> IF t = Creator THEN "ref" ELSE "none"]
    /\ waits = {}
    /\ gets = 0
    /\ misused = FALSE

-----------------------------------------------------------------------------

\* get() by a thread that has a reference, for one that has none.
Get(t, u) ==
    /\ gets < MaxGets
    /\ pc[t] = "ref" /\ pc[u] = "none"
    /\ nref' = nref + 1
    /\ pc' = [pc EXCEPT ![u] = "ref"]
    /\ gets' = gets + 1
    /\ misused' = (misused \/ freed)
    /\ UNCHANGED <<freed, condRefs, condFreed, complete, waits>>

PutBegin_NoRef(t, w) ==
    /\ pc[t] = "ref"
    /\ waits' = IF w THEN waits \cup {t} ELSE waits
    /\ pc' = [pc EXCEPT ![t] = "dec"]
    /\ misused' = (misused \/ freed \/ condFreed)
    /\ UNCHANGED <<nref, freed, condRefs, condFreed, complete, gets>>

\* put() and put_wait() read c and take a reference on it.
PutBegin(t, w) ==
    /\ pc[t] = "ref"
    /\ waits' = IF w THEN waits \cup {t} ELSE waits
    /\ condRefs' = condRefs + 1
    /\ pc' = [pc EXCEPT ![t] = "dec"]
    /\ misused' = (misused \/ freed \/ condFreed)
    /\ UNCHANGED <<nref, freed, condFreed, complete, gets>>

\* nref.dec(): the last one goes on to delete, put_wait() waits.
Dec(t) ==
    /\ pc[t] = "dec"
    /\ nref' = nref - 1
    /\ pc' = [pc EXCEPT ![t] = IF nref = 1 THEN "done"
                               ELSE IF t \in waits THEN "wait" ELSE "condput"]
    /\ misused' = (misused \/ freed)
    /\ UNCHANGED <<freed, condRefs, condFreed, complete, waits, gets>>

Done_Forgotten(t) ==
    /\ pc[t] = "done"
    /\ pc' = [pc EXCEPT ![t] = "delete"]
    /\ UNCHANGED <<nref, freed, condRefs, condFreed, complete, waits, gets, misused>>

\* RefCountedCond::done(), which wakes the waiters.
Done(t) ==
    /\ pc[t] = "done"
    /\ complete' = TRUE
    /\ pc' = [pc EXCEPT ![t] = "delete"]
    /\ misused' = (misused \/ condFreed)
    /\ UNCHANGED <<nref, freed, condRefs, condFreed, waits, gets>>

\* put() of the RefCountedCond.
CondPut ==
    /\ condRefs' = condRefs - 1
    /\ condFreed' = (condFreed \/ condRefs = 1)
    /\ misused' = (misused \/ condFreed)

\* delete this: the destructor gives up the object's reference on the condition.
Delete(t) ==
    /\ pc[t] = "delete"
    /\ freed' = TRUE
    /\ CondPut
    /\ pc' = [pc EXCEPT ![t] = "condput"]
    /\ UNCHANGED <<nref, complete, waits, gets>>

\* RefCountedCond::wait() returns.
Wake(t) ==
    /\ pc[t] = "wait" /\ complete
    /\ pc' = [pc EXCEPT ![t] = "condput"]
    /\ misused' = (misused \/ condFreed)
    /\ UNCHANGED <<nref, freed, condRefs, condFreed, complete, waits, gets>>

\* The call gives up its own reference on the condition and returns.
Return(t) ==
    /\ pc[t] = "condput"
    /\ CondPut
    /\ pc' = [pc EXCEPT ![t] = "returned"]
    /\ UNCHANGED <<nref, freed, complete, waits, gets>>

Step(t) == Dec(t) \/ Done(t) \/ Delete(t) \/ Wake(t) \/ Return(t)

Finished == (\A t \in Threads : pc[t] \in {"none", "returned"}) /\ UNCHANGED vars

Next ==
    \/ \E t, u \in Threads : Get(t, u)
    \/ \E t \in Threads : (\E w \in BOOLEAN : PutBegin(t, w)) \/ Step(t)
    \/ Finished

Spec == Init /\ [][Next]_vars

\* Threads inside a call go on, and every reference is given up in the end.
Fairness ==
    \A t \in Threads : WF_vars(Step(t)) /\ WF_vars(\E w \in BOOLEAN : PutBegin(t, w))

FairSpec == Spec /\ Fairness

-----------------------------------------------------------------------------
(* Properties.                                                             *)

TypeOK ==
    /\ nref \in 0 .. Cardinality(Threads)
    /\ condRefs \in 0 .. Cardinality(Threads) + 1
    /\ {freed, condFreed, complete, misused} \subseteq BOOLEAN
    /\ pc \in [Threads -> {"none", "ref", "dec", "done", "delete", "wait", "condput",
                           "returned"}]
    /\ waits \subseteq Threads
    /\ gets \in 0 .. MaxGets

\* "the condition can be referenced after the object destruction": however the puts
\* interleave, neither the object nor its condition is touched once it is deleted.
NotUsedAfterFree == ~misused

\* The counter is the number of references, and the condition lives exactly as long as
\* the object or a call needs it.
CountersExact ==
    /\ nref = Cardinality({t \in Threads : pc[t] \in {"ref", "dec"}})
    /\ condRefs = Cardinality({t \in Threads :
                      pc[t] \in {"dec", "done", "delete", "wait", "condput"}})
                  + (IF freed THEN 0 ELSE 1)
    /\ condFreed <=> condRefs = 0

\* put_wait() returns once every other reference is given up, and then nothing leaks.
PutWaitReturns == <>[](freed /\ condFreed /\ \A t \in Threads : pc[t] # "wait")

\* "a put_wait() will return only when the object is destroyed" (RefCountedObj.h).
\* done() wakes the waiter before the last put() deletes the object, so it can return
\* while the destructor has not yet run.
ReturnsAfterDestruction ==
    (\E t \in waits : pc[t] = "returned") => freed

=============================================================================
