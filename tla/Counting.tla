------------------------------ MODULE Counting ------------------------------
(***************************************************************************)
(* What is counted: the operations in flight of a throttle that keeps      *)
(* their order, and the references to an object.  Each is an instance of   *)
(* its module; a name that another module uses is renamed.                 *)
(***************************************************************************)
EXTENDS Integers, Sequences, FiniteSets

\* OrderedThrottle
CONSTANTS Starter, Waiters, NoHolder, MaxCurrent, IgnoreEnoent, MaxOps
VARIABLES lock, current, nextTid, completeTid, result, retVal, ret, orderPc, tid, called
orderVars == <<lock, current, nextTid, completeTid, result, retVal, ret, orderPc, tid, called>>
Order == INSTANCE OrderedThrottle WITH NoThread <- NoHolder, pc <- orderPc

ASSUME OrderAssumption == Order!OrderAssumption

\* RefCountedWaitObject
CONSTANTS RefThreads, Creator, MaxGets
VARIABLES nref, freed, condRefs, condFreed, complete, refPc, waits, gets, misused
refVars == <<nref, freed, condRefs, condFreed, complete, refPc, waits, gets, misused>>
Ref == INSTANCE RefCountedWait WITH Threads <- RefThreads, pc <- refPc

ASSUME RefAssumption == Ref!RefAssumption

-----------------------------------------------------------------------------
(* What they promise, as stated in their modules.                          *)

\* Throttle.cc: callbacks run one at a time in the order of start_op(), m_current counts
\* the operations in flight, and wait_for_ret() reports the first that failed.
CallbacksInOrder == Order!CallbacksInOrder /\ Order!CurrentExact /\ Order!RetIsFirstError

\* RefCountedObj.h: neither the object nor its condition is used after delete, and the
\* counters are the references that exist.
NotUsedAfterFree == Ref!NotUsedAfterFree /\ Ref!CountersExact

=============================================================================
