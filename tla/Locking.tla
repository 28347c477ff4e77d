------------------------------ MODULE Locking ------------------------------
(***************************************************************************)
(* What threads wait on: mutexes under the checker of their order, and the *)
(* slots of a throttle.  Each is an instance of its module; a name that    *)
(* another module uses is renamed.                                         *)
(***************************************************************************)
EXTENDS Integers, Sequences, FiniteSets

\* Lockdep
CONSTANTS Lockers, Mutexes, NoThread, NoMutex, LockNames, NameMaps, MaxLocks
VARIABLES nameOf, lockIds, lockRefs, freeIds, lockHeld, follows, alive, lockOwner, lockWant,
          aborted
lockVars == <<nameOf, lockIds, lockRefs, freeIds, lockHeld, follows, alive, lockOwner, lockWant,
              aborted>>
Locks == INSTANCE Lockdep WITH
    Threads <- Lockers, Names <- LockNames, refs <- lockRefs, held <- lockHeld,
    owner <- lockOwner, want <- lockWant

ASSUME LockdepAssumption == Locks!LockdepAssumption

\* Throttle
CONSTANTS Takers, Amounts, Maxima, MaxHeld
VARIABLES count, max, cond, takerPc, want, held
throttleVars == <<count, max, cond, takerPc, want, held>>
Slots == INSTANCE Throttle WITH Threads <- Takers, pc <- takerPc

ASSUME ThrottleAssumption == Slots!ThrottleAssumption

-----------------------------------------------------------------------------
(* What they promise, as stated in their modules.                          *)

\* lockdep.cc: threads never wait for each other in a circle, the recorded order has no
\* cycle, and an id given out again carries no order of its previous name.
LocksInOrder == Locks!NoCircularWait /\ Locks!OrderAcyclic /\ Locks!IdsClean

\* Throttle.cc: cond lists exactly the threads that wait, the first of them is woken
\* whenever it could go on, and count is what the threads hold.
FrontIsWoken == Slots!FrontIsWoken /\ Slots!WaitersListed /\ Slots!CountExact

=============================================================================
