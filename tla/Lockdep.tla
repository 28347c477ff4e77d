------------------------------- MODULE Lockdep -------------------------------
(***************************************************************************)
(* The lock-order checker of common/lockdep.cc, driven by Mutex            *)
(* (common/Mutex.cc).  Every mutex name has an id; before a thread blocks  *)
(* on a mutex, lockdep_will_lock() records that its id follows the ids the *)
(* thread holds, and ends the program when that closes a cycle.  Ids are   *)
(* counted per mutex object and given to another name once the last object *)
(* with the name is gone.                                                  *)
(*   Two ways to a mutex that bypass the checker are left out: Lock(true), *)
(* which skips lockdep_will_lock(), and the return of Cond::Wait(), which  *)
(* takes the mutex back without it.  The module is about the other locks.  *)
(***************************************************************************)
EXTENDS Integers, Sequences, FiniteSets

CONSTANTS Threads, Mutexes, NoThread, NoMutex,
          Names,      \* the names of the mutexes
          NameMaps,   \* the names that the mutexes may have; several may share one
          MaxLocks    \* MAX_LOCKS: the number of ids

LockdepAssumption ==
    /\ NameMaps \subseteq [Mutexes -> Names]
    /\ MaxLocks \in Nat
    /\ IsFiniteSet(Mutexes) /\ NoMutex \notin Mutexes /\ NoThread \notin Threads

Ids == 0 .. MaxLocks - 1

VARIABLES
    nameOf,     \* the name each mutex is constructed with
    lockIds,    \* lock_ids: the id of a name, -1 for a name without one
    refs,       \* lock_refs
    freeIds,    \* free_ids
    held,       \* held: the ids each thread holds
    follows,    \* follows: the pairs <<a, b>> with b taken after a
    alive,      \* the mutex objects that exist
    owner,      \* who holds each pthread mutex
    want,       \* the mutex whose pthread_mutex_lock() a thread is in
    aborted     \* the assertion that ended the program

vars == <<nameOf, lockIds, refs, freeIds, held, follows, alive, owner, want, aborted>>

Id(m) == lockIds[nameOf[m]]
Idle(t) == aborted = "no" /\ want[t] = NoMutex

Init ==
    /\ nameOf \in NameMaps
    /\ lockIds = [n \in Names |-> -1]
    /\ refs = [i \in Ids |-> 0]
    /\ freeIds = [k \in 1 .. MaxLocks |-> k - 1]
    /\ held = [t \in Threads |-> {}]
    /\ follows = {}
    /\ alive = {}
    /\ owner = [m \in Mutexes |-> NoThread]
    /\ want = [t \in Threads |-> NoMutex]
    /\ aborted = "no"

-----------------------------------------------------------------------------

\* Mutex::Mutex() and lockdep_register().
Register(m) ==
    /\ aborted = "no"
    /\ m \notin alive
    /\ LET id == IF Id(m) >= 0 THEN Id(m) ELSE Head(freeIds)
       IN  IF Id(m) < 0 /\ freeIds = <<>>
           THEN /\ aborted' = "ids"
                /\ UNCHANGED <<lockIds, refs, freeIds, alive>>
           ELSE /\ freeIds' = IF Id(m) >= 0 THEN freeIds ELSE Tail(freeIds)
                /\ lockIds' = [lockIds EXCEPT ![nameOf[m]] = id]
                /\ refs' = [refs EXCEPT ![id] = @ + 1]
                /\ alive' = alive \cup {m}
                /\ UNCHANGED aborted
    /\ UNCHANGED <<held, follows, owner, want>>

ForgetOrder_RowOnly(id) == {e \in follows : e[1] # id}

\* lockdep_unregister() resets the dependency ordering of an id.
ForgetOrder(id) == {e \in follows : e[1] # id /\ e[2] # id}

LastReference(id) == refs[id] = 1

\* Mutex::~Mutex(), which asserts that the mutex is not held, and
\* lockdep_unregister().  The caller knows that no thread is about to lock it.
Unregister(m) ==
    /\ aborted = "no"
    /\ m \in alive /\ owner[m] = NoThread /\ \A t \in Threads : want[t] # m
    /\ alive' = alive \ {m}
    /\ refs' = [refs EXCEPT ![Id(m)] = @ - 1]
    /\ IF LastReference(Id(m))
       THEN /\ follows' = ForgetOrder(Id(m))
            /\ freeIds' = Append(freeIds, Id(m))
            /\ lockIds' = [lockIds EXCEPT ![nameOf[m]] = -1]
       ELSE UNCHANGED <<follows, freeIds, lockIds>>
    /\ UNCHANGED <<held, owner, want, aborted>>

\* The ids that does_follow() meets from a on lie in every set that holds the ids after
\* a and, with an id, the ids after it.
DoesFollow(a, b) ==
    \A S \in SUBSET Ids :
        (\A e \in follows : e[1] = a \/ e[1] \in S => e[2] \in S) => b \in S

\* The new dependency h -> id would close a cycle.
Closes(id, h) == <<h, id>> \notin follows /\ DoesFollow(id, h)

\* Mutex::Lock() up to pthread_mutex_lock(): lockdep_will_lock().
WillLock(t, m) ==
    /\ Idle(t) /\ m \in alive
    /\ IF Id(m) \in held[t]
       THEN aborted' = "recursive" /\ UNCHANGED <<follows, want>>
       ELSE IF \E h \in held[t] : Closes(Id(m), h)
       THEN aborted' = "cycle" /\ UNCHANGED <<follows, want>>
       ELSE /\ follows' = follows \cup (held[t] \X {Id(m)})
            /\ want' = [want EXCEPT ![t] = m]
            /\ UNCHANGED aborted
    /\ UNCHANGED <<lockIds, refs, freeIds, held, alive, owner>>

\* pthread_mutex_lock() returns, and lockdep_locked().
Locked(t) ==
    /\ aborted = "no"
    /\ want[t] # NoMutex /\ owner[want[t]] = NoThread
    /\ owner' = [owner EXCEPT ![want[t]] = t]
    /\ held' = [held EXCEPT ![t] = @ \cup {Id(want[t])}]
    /\ want' = [want EXCEPT ![t] = NoMutex]
    /\ UNCHANGED <<lockIds, refs, freeIds, follows, alive, aborted>>

\* Mutex::TryLock(), which does not block and records no order.  A caller holds no
\* other mutex of the same name: held counts an id once, and the first Unlock() of two
\* would hide the second from the checker.
TryLock(t, m) ==
    /\ Idle(t) /\ m \in alive /\ owner[m] = NoThread
    /\ Id(m) \notin held[t]
    /\ owner' = [owner EXCEPT ![m] = t]
    /\ held' = [held EXCEPT ![t] = @ \cup {Id(m)}]
    /\ UNCHANGED <<lockIds, refs, freeIds, follows, alive, want, aborted>>

\* Mutex::Unlock(): lockdep_will_unlock() and pthread_mutex_unlock().
Unlock(t, m) ==
    /\ Idle(t) /\ m \in alive /\ owner[m] = t
    /\ held' = [held EXCEPT ![t] = @ \ {Id(m)}]
    /\ owner' = [owner EXCEPT ![m] = NoThread]
    /\ UNCHANGED <<lockIds, refs, freeIds, follows, alive, want, aborted>>

\* The program has ended.
Aborted == aborted # "no" /\ UNCHANGED vars

Next ==
    /\ \/ \E m \in Mutexes : Register(m) \/ Unregister(m)
       \/ \E t \in Threads, m \in Mutexes : WillLock(t, m) \/ TryLock(t, m) \/ Unlock(t, m)
       \/ \E t \in Threads : Locked(t)
       \/ Aborted
    /\ UNCHANGED nameOf

Spec == Init /\ [][Next]_vars

-----------------------------------------------------------------------------
(* Properties.                                                             *)

TypeOK ==
    /\ nameOf \in NameMaps
    /\ lockIds \in [Names -> Ids \cup {-1}]
    /\ refs \in [Ids -> 0 .. Cardinality(Mutexes)]
    /\ freeIds \in Seq(Ids)
    /\ held \in [Threads -> SUBSET Ids]
    /\ follows \subseteq Ids \X Ids
    /\ alive \subseteq Mutexes
    /\ owner \in [Mutexes -> Threads \cup {NoThread}]
    /\ want \in [Threads -> Mutexes \cup {NoMutex}]
    /\ aborted \in {"no", "ids", "recursive", "cycle"}

\* What the checker is for: the threads never wait for one another in a circle, since
\* the program ends before the wait that would close it begins.  TryLock() records no
\* order and two mutexes may share a name.  Every wait is one of Lock() with the checker:
\* it sees no other, and promises nothing for Lock(true) and Cond::Wait().
NoCircularWait ==
    ~ \E S \in (SUBSET Threads) \ {{}} :
        \A t \in S : want[t] # NoMutex /\ owner[want[t]] \in S

\* "don't add this dependency, or we'll get a cycle in the graph, and does_follow()
\* won't terminate" (lockdep.cc): the recorded order has no cycle, that is, in every set of
\* ids there is one that none of the set follows.
OrderAcyclic ==
    \A S \in (SUBSET Ids) \ {{}} : \E i \in S : \A j \in S : <<i, j>> \notin follows

\* An id is free or belongs to one name, and a free id has no order left from the name
\* that had it: a new name starts clean, and ids do not run out while there are no more
\* names than ids.
IdsClean ==
    /\ \A n \in Names, p \in Names : lockIds[n] = lockIds[p] /\ lockIds[n] >= 0 => n = p
    /\ {freeIds[k] : k \in DOMAIN freeIds} = Ids \ {lockIds[n] : n \in Names}
    /\ \A e \in follows : {e[1], e[2]} \subseteq {lockIds[n] : n \in Names}
    /\ \A t \in Threads : held[t] \subseteq {lockIds[n] : n \in Names}

=============================================================================
