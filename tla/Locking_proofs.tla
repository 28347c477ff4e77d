--------------------------- MODULE Locking_proofs ---------------------------
(***************************************************************************)
(* Locks are taken in an order without cycles, and a throttle counts exactly *)
(* and wakes whoever can go on, for any number of threads, mutexes, names and *)
(* slots.                                                                  *)
(***************************************************************************)
EXTENDS Locking, FiniteSetTheorems, TLAPS

-----------------------------------------------------------------------------
(* The order of locks.                                                     *)

LockTypes ==
    /\ nameOf \in [Mutexes -> LockNames]
    /\ lockIds \in [LockNames -> Locks!Ids \cup {-1}]
    /\ lockRefs \in [Locks!Ids -> Nat]
    /\ freeIds \in Seq(Locks!Ids)
    /\ lockHeld \in [Lockers -> SUBSET Locks!Ids]
    /\ follows \subseteq Locks!Ids \X Locks!Ids
    /\ alive \subseteq Mutexes
    /\ lockOwner \in [Mutexes -> Lockers \cup {NoThread}]
    /\ lockWant \in [Lockers -> Mutexes \cup {NoMutex}]

\* The mutexes that exist with the name of an id.
Bearers(i) == {m \in alive : Locks!Id(m) = i}

\* The free ids are listed once.
FreeOnce == \A j, k \in 1 .. Len(freeIds) : freeIds[j] = freeIds[k] => j = k

\* A name has an id exactly as long as a mutex has the name, and the references of the id
\* are these mutexes.
RefsExact ==
    /\ \A m \in alive : Locks!Id(m) \in Locks!Ids
    /\ \A i \in Locks!Ids : lockRefs[i] = Cardinality(Bearers(i))
    /\ \A n \in LockNames : lockIds[n] \in Locks!Ids => \E m \in alive : nameOf[m] = n

\* What a thread holds it owns, each id through one mutex.
HeldIsOwned ==
    /\ \A m \in Mutexes, t \in Lockers : lockOwner[m] = t => m \in alive /\ Locks!Id(m) \in lockHeld[t]
    /\ \A t \in Lockers : \A h \in lockHeld[t] : \E m \in alive : lockOwner[m] = t /\ Locks!Id(m) = h
    /\ \A t \in Lockers : \A m, k \in Mutexes :
          lockOwner[m] = t /\ lockOwner[k] = t /\ Locks!Id(m) = Locks!Id(k) => m = k

\* A thread that waits for a mutex recorded that its id comes after all it holds.
WaitIsRecorded ==
    \A t \in Lockers :
        lockWant[t] # NoMutex =>
                /\ lockWant[t] \in alive /\ Locks!Id(lockWant[t]) \notin lockHeld[t]
                /\ \A h \in lockHeld[t] : <<h, Locks!Id(lockWant[t])>> \in follows

LockInv ==
    LockTypes /\ FreeOnce /\ RefsExact /\ HeldIsOwned /\ WaitIsRecorded /\ Locks!OrderAcyclic /\ Locks!IdsClean

-----------------------------------------------------------------------------

\* A circle of waiting threads would be a cycle of the ids they wait for.
LEMMA NoCircle ==
    ASSUME Locks!LockdepAssumption, LockInv
    PROVE  Locks!NoCircularWait
  <1> SUFFICES ASSUME NEW S \in (SUBSET Lockers) \ {{}},
                      \A t \in S : lockWant[t] # NoMutex /\ lockOwner[lockWant[t]] \in S
               PROVE  FALSE
    BY DEF Locks!NoCircularWait
  <1> DEFINE X == {Locks!Id(lockWant[t]) : t \in S}
  <1>1. ASSUME NEW t \in S
        PROVE  Locks!Id(lockWant[t]) \in Locks!Ids /\ \E u \in S : <<Locks!Id(lockWant[t]), Locks!Id(lockWant[u])>> \in follows
    <2>1. t \in Lockers /\ lockWant[t] \in Mutexes /\ lockOwner[lockWant[t]] \in Lockers
      BY Zenon DEF LockInv, LockTypes
    <2>2. Locks!Id(lockWant[t]) \in lockHeld[lockOwner[lockWant[t]]]
      BY Zenon, <2>1 DEF LockInv, HeldIsOwned
    <2>3. Locks!Id(lockWant[t]) \in Locks!Ids
      BY Zenon, <2>1, <2>2 DEF LockInv, LockTypes
    <2>4. <<Locks!Id(lockWant[t]), Locks!Id(lockWant[lockOwner[lockWant[t]]])>> \in follows
      BY Zenon, <2>1, <2>2 DEF LockInv, WaitIsRecorded
    <2> QED
      BY Zenon, <2>3, <2>4
  <1>2. X \in (SUBSET Locks!Ids) \ {{}}
    BY <1>1
  <1>3. PICK i \in X : \A j \in X : <<i, j>> \notin follows
    BY Zenon, <1>2 DEF LockInv, Locks!OrderAcyclic
  <1> QED
    BY Zenon, <1>1, <1>3

\* An order without a cycle gets none from edges to id that come from ids that do not
\* follow id.
LEMMA StillAcyclic ==
    ASSUME Locks!OrderAcyclic, follows \subseteq Locks!Ids \X Locks!Ids, NEW id \in Locks!Ids, NEW H \in SUBSET Locks!Ids,
           id \notin H, \A h \in H : ~Locks!Closes(id, h),
           follows' = follows \cup (H \X {id})
    PROVE  Locks!OrderAcyclic'
  <1> DEFINE R == {b \in Locks!Ids : Locks!DoesFollow(id, b)}
             T == R \cup {id}
  <1>1. ASSUME NEW b \in T, NEW c \in Locks!Ids, <<b, c>> \in follows
        PROVE  c \in R
    <2> SUFFICES ASSUME NEW S \in SUBSET Locks!Ids,
                        \A e \in follows : e[1] = id \/ e[1] \in S => e[2] \in S
                 PROVE  c \in S
      BY Zenon DEF Locks!DoesFollow
    <2>1. CASE b = id
      BY <1>1, <2>1
    <2>2. CASE b \in R
      <3>1. b \in S
        BY <2>2 DEF Locks!DoesFollow
      <3> QED
        BY <1>1, <3>1
    <2> QED
      BY <2>1, <2>2
  <1>2. ASSUME NEW b \in T, <<b, id>> \in H \X {id}
        PROVE  <<b, id>> \in follows
    <2>1. b \in H /\ b # id
      BY <1>2
    <2>2. Locks!DoesFollow(id, b)
      BY <2>1
    <2> QED
      BY <2>1, <2>2 DEF Locks!Closes
  <1> SUFFICES ASSUME NEW S \in (SUBSET Locks!Ids) \ {{}}
               PROVE  \E i \in S : \A j \in S : <<i, j>> \notin follows'
    BY Zenon DEF Locks!OrderAcyclic
  <1> HIDE DEF R
  <1>3. CASE S \cap T = {}
    <2>1. PICK i \in S : \A j \in S : <<i, j>> \notin follows
      BY Zenon DEF Locks!OrderAcyclic
    <2>2. \A j \in S : j # id
      BY <1>3
    <2> QED
      BY <2>1, <2>2
  <1>4. CASE S \cap T # {}
    <2>1. S \cap T \in (SUBSET Locks!Ids) \ {{}}
      BY <1>4
    <2>2. PICK i \in S \cap T : \A j \in S \cap T : <<i, j>> \notin follows
      BY Zenon, <2>1 DEF Locks!OrderAcyclic
    <2>3. ASSUME NEW j \in S, <<i, j>> \in follows'
          PROVE  FALSE
      <3>1. <<i, j>> \in follows
        BY <1>2, <2>2, <2>3
      <3>2. j \in R
        BY <1>1, <2>2, <3>1
      <3> QED
        BY <2>2, <3>1, <3>2
    <2> QED
      BY <2>2, <2>3
  <1> QED
    BY <1>3, <1>4

\* Forgetting edges makes no cycle.
LEMMA FewerAcyclic ==
    ASSUME Locks!OrderAcyclic, follows' \subseteq follows
    PROVE  Locks!OrderAcyclic'
  BY DEF Locks!OrderAcyclic

-----------------------------------------------------------------------------

LEMMA LockInit == Locks!LockdepAssumption /\ Locks!Init => LockInv
  <1> SUFFICES ASSUME Locks!LockdepAssumption, Locks!Init PROVE LockInv
    OBVIOUS
  <1> USE DEF Locks!Init
  <1>1. DOMAIN freeIds = 1 .. MaxLocks /\ freeIds \in Seq(Locks!Ids) /\ Len(freeIds) = MaxLocks /\ \A k \in 1 .. MaxLocks : freeIds[k] = k - 1
    <2>1. MaxLocks \in Nat /\ \A k \in 1 .. MaxLocks : k - 1 \in Locks!Ids
      BY DEF Locks!LockdepAssumption, Locks!Ids
    <2>2. freeIds \in [1 .. MaxLocks -> Locks!Ids]
      BY <2>1
    <2>3. freeIds \in Seq(Locks!Ids)
      BY <2>1, <2>2
    <2> QED
      BY <2>1, <2>2, <2>3
  <1>2. LockTypes
    BY Zenon, <1>1 DEF Locks!LockdepAssumption, LockTypes
  <1>3. FreeOnce
    BY <1>1 DEF FreeOnce, Locks!LockdepAssumption
  <1>4. RefsExact
    <2>1. \A i \in Locks!Ids : Bearers(i) = {}
      BY DEF Bearers
    <2>2. \A i \in Locks!Ids : lockRefs[i] = Cardinality(Bearers(i))
      BY Zenon, <2>1, FS_EmptySet
    <2>3. \A n \in LockNames : lockIds[n] \notin Locks!Ids
      BY DEF Locks!Ids, Locks!LockdepAssumption
    <2> QED
      BY <2>2, <2>3 DEF RefsExact
  <1>5. HeldIsOwned
    BY Zenon DEF HeldIsOwned, Locks!LockdepAssumption
  <1>6. WaitIsRecorded
    BY Zenon DEF WaitIsRecorded
  <1>7. Locks!OrderAcyclic
    BY DEF Locks!OrderAcyclic
  <1>8. Locks!IdsClean
    <2>1. {freeIds[k] : k \in DOMAIN freeIds} = Locks!Ids
      <3>1. \A k \in DOMAIN freeIds : freeIds[k] \in Locks!Ids
        BY <1>1 DEF Locks!Ids, Locks!LockdepAssumption
      <3>2. \A i \in Locks!Ids : i + 1 \in DOMAIN freeIds /\ freeIds[i + 1] = i
        BY <1>1 DEF Locks!Ids, Locks!LockdepAssumption
      <3> QED
        BY Zenon, <3>1, <3>2
    <2>2. \A n \in LockNames : lockIds[n] = -1 /\ -1 \notin Locks!Ids
      BY DEF Locks!Ids, Locks!LockdepAssumption
    <2>3. Locks!Ids \ {lockIds[n] : n \in LockNames} = Locks!Ids
      BY <2>2
    <2> QED
      BY <2>1, <2>2, <2>3 DEF Locks!IdsClean
  <1> QED
    BY <1>2, <1>3, <1>4, <1>5, <1>6, <1>7, <1>8 DEF LockInv

\* What a step leaves alone that changes neither mutexes nor names.
SameNames == UNCHANGED <<nameOf, lockIds, lockRefs, freeIds, alive>>

LEMMA NamesKept ==
    ASSUME LockInv, SameNames
    PROVE  /\ FreeOnce' /\ RefsExact'
           /\ \A m : Locks!Id(m)' = Locks!Id(m)
           /\ \A m \in alive : Locks!Id(m) \in Locks!Ids /\ Locks!Id(m) \in {lockIds[n] : n \in LockNames}
  <1>1. FreeOnce'
    BY DEF LockInv, SameNames, FreeOnce
  <1>2. \A m : Locks!Id(m)' = Locks!Id(m)
    BY DEF SameNames, Locks!Id
  <1>3. \A i : Bearers(i)' = Bearers(i)
    BY DEF SameNames, Bearers, Locks!Id
  <1>4. RefsExact'
    BY <1>2, <1>3 DEF LockInv, SameNames, RefsExact
  <1>5. \A m \in alive : Locks!Id(m) \in Locks!Ids /\ Locks!Id(m) \in {lockIds[n] : n \in LockNames}
    BY Zenon DEF LockInv, RefsExact, LockTypes, Locks!Id
  <1> QED
    BY <1>1, <1>2, <1>4, <1>5

\* A step that changes no more than aborted.
LEMMA QuietStep ==
    ASSUME LockInv, SameNames, UNCHANGED <<lockHeld, lockOwner, follows, lockWant>>
    PROVE  LockInv'
  <1>1. \A k : Locks!Id(k)' = Locks!Id(k)
    BY NamesKept
  <1>2. HeldIsOwned'
    BY Zenon, <1>1 DEF LockInv, HeldIsOwned, SameNames
  <1>3. WaitIsRecorded'
    <2> SUFFICES ASSUME NEW u \in Lockers, lockWant'[u] # NoMutex
                 PROVE  /\ lockWant'[u] \in alive' /\ Locks!Id(lockWant'[u]) \notin lockHeld'[u]
                        /\ \A h \in lockHeld'[u] : <<h, Locks!Id(lockWant'[u])>> \in follows'
      BY Zenon, <1>1 DEF WaitIsRecorded
    <2> QED
      BY Zenon DEF LockInv, WaitIsRecorded, SameNames
  <1>4. LockTypes'
    BY Zenon DEF LockInv, LockTypes, SameNames
  <1>5. Locks!OrderAcyclic'
    BY FewerAcyclic DEF LockInv
  <1>6. Locks!IdsClean'
    BY SMT, Z3 DEF LockInv, Locks!IdsClean, SameNames
  <1> QED
    BY <1>2, <1>3, <1>4, <1>5, <1>6, NamesKept DEF LockInv

LEMMA WillLockStep ==
    ASSUME Locks!LockdepAssumption, LockInv, NEW t \in Lockers, NEW m \in Mutexes, Locks!WillLock(t, m),
           UNCHANGED nameOf
    PROVE  LockInv'
  <1>0. SameNames /\ UNCHANGED <<lockHeld, lockOwner>> /\ m \in alive /\ lockWant[t] = NoMutex
    BY Zenon DEF Locks!WillLock, SameNames, Locks!Idle
  <1>1. CASE UNCHANGED <<follows, lockWant>>
    BY <1>0, <1>1, QuietStep
  <1>2. CASE ~UNCHANGED <<follows, lockWant>>
    <2>1. /\ Locks!Id(m) \notin lockHeld[t] /\ \A h \in lockHeld[t] : ~Locks!Closes(Locks!Id(m), h)
          /\ follows' = follows \cup (lockHeld[t] \X {Locks!Id(m)})
          /\ lockWant' = [lockWant EXCEPT ![t] = m]
      BY Zenon, <1>2 DEF Locks!WillLock
    <2>2. Locks!Id(m) \in Locks!Ids /\ Locks!Id(m) \in {lockIds[n] : n \in LockNames} /\ lockHeld[t] \subseteq Locks!Ids
      BY Zenon, <1>0, NamesKept DEF LockInv, LockTypes
    <2>3. LockTypes'
      BY Zenon, <1>0, <2>1, <2>2 DEF LockInv, LockTypes, SameNames
    <2>4. HeldIsOwned'
      BY SMT, Z3, <1>0, NamesKept DEF LockInv, HeldIsOwned, SameNames
    <2>5. WaitIsRecorded'
      <3>1. \A k : Locks!Id(k)' = Locks!Id(k)
        BY <1>0, NamesKept
      <3> SUFFICES ASSUME NEW u \in Lockers, lockWant'[u] # NoMutex
                   PROVE  /\ lockWant'[u] \in alive' /\ Locks!Id(lockWant'[u]) \notin lockHeld'[u]
                          /\ \A h \in lockHeld'[u] : <<h, Locks!Id(lockWant'[u])>> \in follows'
        BY Zenon, <3>1 DEF WaitIsRecorded
      <3>2. CASE u = t
        <4>1. lockWant'[u] = m
          BY Zenon, <2>1, <3>2 DEF LockInv, LockTypes
        <4> QED
          BY <1>0, <2>1, <3>2, <4>1 DEF SameNames
      <3>3. CASE u # t
        <4>1. lockWant'[u] = lockWant[u]
          BY Zenon, <2>1, <3>3 DEF LockInv, LockTypes
        <4> QED
          BY SMT, Z3, <1>0, <2>1, <4>1 DEF LockInv, WaitIsRecorded, SameNames
      <3> QED
        BY Zenon, <3>2, <3>3
    <2>6. Locks!OrderAcyclic'
      BY Zenon, <2>1, <2>2, StillAcyclic DEF LockInv, LockTypes
    <2>7. Locks!IdsClean'
      <3>1. \A h \in lockHeld[t] : h \in {lockIds[n] : n \in LockNames}
        BY Zenon DEF LockInv, Locks!IdsClean
      <3>2. \A e \in follows' : {e[1], e[2]} \subseteq {lockIds[n] : n \in LockNames}
        BY SMT, Z3, <2>1, <2>2, <3>1 DEF LockInv, Locks!IdsClean
      <3> QED
        BY SMT, Z3, <1>0, <3>2 DEF LockInv, Locks!IdsClean, SameNames
    <2> QED
      BY <1>0, <2>3, <2>4, <2>5, <2>6, <2>7, NamesKept DEF LockInv
  <1> QED
    BY <1>1, <1>2

\* The thread t comes to own m.
LEMMA OwnStep ==
    ASSUME Locks!LockdepAssumption, LockInv, NEW t \in Lockers, NEW m \in alive, SameNames,
           lockOwner[m] = NoThread, Locks!Id(m) \notin lockHeld[t], UNCHANGED follows,
           lockOwner' = [lockOwner EXCEPT ![m] = t],
           lockHeld' = [lockHeld EXCEPT ![t] = @ \cup {Locks!Id(m)}],
           lockWant' \in [Lockers -> Mutexes \cup {NoMutex}], lockWant'[t] = NoMutex,
           \A u \in Lockers \ {t} : lockWant'[u] = lockWant[u]
    PROVE  LockInv'
  <1>1. m \in Mutexes /\ Locks!Id(m) \in Locks!Ids /\ Locks!Id(m) \in {lockIds[n] : n \in LockNames}
    BY Zenon, NamesKept DEF LockInv, LockTypes
  <1>2. LockTypes'
    BY Zenon, <1>1 DEF LockInv, LockTypes, SameNames
  <1>3. \A u \in Lockers : lockHeld'[u] = IF u = t THEN lockHeld[t] \cup {Locks!Id(m)} ELSE lockHeld[u]
    BY Zenon DEF LockInv, LockTypes
  <1>4. \A k \in Mutexes : lockOwner'[k] = IF k = m THEN t ELSE lockOwner[k]
    BY Zenon DEF LockInv, LockTypes
  <1>5. \A k : Locks!Id(k)' = Locks!Id(k)
    BY Zenon, NamesKept
  <1>6. HeldIsOwned'
    <2>1. ASSUME NEW k \in Mutexes, NEW u \in Lockers, lockOwner'[k] = u
          PROVE  k \in alive' /\ Locks!Id(k) \in lockHeld'[u]
      <3>1. CASE k = m
        BY <1>3, <1>4, <2>1, <3>1 DEF SameNames
      <3>2. CASE k # m
        BY SMT, Z3, <1>3, <1>4, <2>1, <3>2 DEF SameNames, LockInv, HeldIsOwned
      <3> QED
        BY Zenon, <3>1, <3>2
    <2>2. ASSUME NEW u \in Lockers, NEW h \in lockHeld'[u]
          PROVE  \E k \in alive' : lockOwner'[k] = u /\ Locks!Id(k) = h
      <3>1. CASE u = t /\ h = Locks!Id(m)
        BY Zenon, <1>1, <1>4, <3>1 DEF SameNames
      <3>2. CASE h \in lockHeld[u]
        <4>1. PICK k \in alive : lockOwner[k] = u /\ Locks!Id(k) = h
          BY Zenon, <3>2 DEF LockInv, HeldIsOwned
        <4>2. k # m /\ k \in Mutexes
          BY Zenon, <4>1 DEF LockInv, LockTypes, Locks!LockdepAssumption
        <4> QED
          BY Zenon, <1>4, <4>1, <4>2 DEF SameNames
      <3> QED
        BY <1>3, <2>2, <3>1, <3>2
    <2>3. ASSUME NEW u \in Lockers, NEW k \in Mutexes, NEW j \in Mutexes,
                 lockOwner'[k] = u, lockOwner'[j] = u, Locks!Id(k) = Locks!Id(j)
          PROVE  k = j
      <3>1. CASE k # m /\ j # m
        BY SMT, Z3, <1>4, <2>3, <3>1 DEF LockInv, HeldIsOwned
      <3>2. CASE k = m /\ j # m
        BY SMT, Z3, <1>4, <2>3, <3>2 DEF LockInv, HeldIsOwned
      <3>3. CASE k # m /\ j = m
        BY SMT, Z3, <1>4, <2>3, <3>3 DEF LockInv, HeldIsOwned
      <3> QED
        BY Zenon, <3>1, <3>2, <3>3
    <2> QED
      BY SMT, Z3, <1>5, <2>1, <2>2, <2>3 DEF HeldIsOwned
  <1>7. WaitIsRecorded'
    <2> SUFFICES ASSUME NEW u \in Lockers, lockWant'[u] # NoMutex
                 PROVE  /\ lockWant'[u] \in alive' /\ Locks!Id(lockWant'[u]) \notin lockHeld'[u]
                        /\ \A h \in lockHeld'[u] : <<h, Locks!Id(lockWant'[u])>> \in follows'
      BY Zenon, <1>5 DEF WaitIsRecorded
    <2>1. u # t /\ lockWant'[u] = lockWant[u] /\ lockHeld'[u] = lockHeld[u]
      BY Zenon, <1>3
    <2> QED
      BY Zenon, <2>1 DEF LockInv, WaitIsRecorded, SameNames
  <1>8. Locks!OrderAcyclic'
    BY Zenon, FewerAcyclic DEF LockInv
  <1>9. Locks!IdsClean'
    <2>1. \A u \in Lockers : lockHeld'[u] \subseteq {lockIds[n] : n \in LockNames}
      BY SMT, Z3, <1>1, <1>3 DEF LockInv, Locks!IdsClean
    <2> QED
      BY SMT, Z3, <2>1 DEF LockInv, Locks!IdsClean, SameNames
  <1> QED
    BY Zenon, <1>2, <1>6, <1>7, <1>8, <1>9, NamesKept DEF LockInv

LEMMA LockedStep ==
    ASSUME Locks!LockdepAssumption, LockInv, NEW t \in Lockers, Locks!Locked(t), UNCHANGED nameOf
    PROVE  LockInv'
  <1>1. lockWant[t] \in alive /\ Locks!Id(lockWant[t]) \notin lockHeld[t]
    BY Zenon DEF Locks!Locked, LockInv, WaitIsRecorded
  <1>2. /\ lockWant' \in [Lockers -> Mutexes \cup {NoMutex}] /\ lockWant'[t] = NoMutex
        /\ \A u \in Lockers \ {t} : lockWant'[u] = lockWant[u]
    BY Zenon DEF Locks!Locked, LockInv, LockTypes
  <1>3. SameNames /\ UNCHANGED follows /\ lockOwner[lockWant[t]] = NoThread
        /\ lockOwner' = [lockOwner EXCEPT ![lockWant[t]] = t] /\ lockHeld' = [lockHeld EXCEPT ![t] = @ \cup {Locks!Id(lockWant[t])}]
    BY Zenon DEF Locks!Locked, SameNames
  <1> QED
    BY Zenon, <1>1, <1>2, <1>3, OwnStep

LEMMA TryLockStep ==
    ASSUME Locks!LockdepAssumption, LockInv, NEW t \in Lockers, NEW m \in Mutexes, Locks!TryLock(t, m),
           UNCHANGED nameOf
    PROVE  LockInv'
  <1>1. lockWant \in [Lockers -> Mutexes \cup {NoMutex}] /\ lockWant' = lockWant /\ lockWant[t] = NoMutex
    BY Zenon DEF Locks!TryLock, Locks!Idle, LockInv, LockTypes
  <1>2. /\ SameNames /\ UNCHANGED follows /\ lockOwner[m] = NoThread /\ m \in alive
        /\ Locks!Id(m) \notin lockHeld[t]
        /\ lockOwner' = [lockOwner EXCEPT ![m] = t] /\ lockHeld' = [lockHeld EXCEPT ![t] = @ \cup {Locks!Id(m)}]
    BY Zenon DEF Locks!TryLock, SameNames
  <1> QED
    BY Zenon, <1>1, <1>2, OwnStep

LEMMA UnlockStep ==
    ASSUME Locks!LockdepAssumption, LockInv, NEW t \in Lockers, NEW m \in Mutexes, Locks!Unlock(t, m),
           UNCHANGED nameOf
    PROVE  LockInv'
  <1>1. /\ SameNames /\ UNCHANGED <<follows, lockWant>> /\ lockOwner[m] = t /\ lockWant[t] = NoMutex
        /\ lockOwner' = [lockOwner EXCEPT ![m] = NoThread] /\ lockHeld' = [lockHeld EXCEPT ![t] = @ \ {Locks!Id(m)}]
    BY Zenon DEF Locks!Unlock, SameNames, Locks!Idle
  <1>2. LockTypes'
    BY Zenon, <1>1 DEF LockInv, LockTypes, SameNames
  <1>3. \A u \in Lockers : lockHeld'[u] = IF u = t THEN lockHeld[t] \ {Locks!Id(m)} ELSE lockHeld[u]
    BY Zenon, <1>1 DEF LockInv, LockTypes
  <1>4. \A k \in Mutexes : lockOwner'[k] = IF k = m THEN NoThread ELSE lockOwner[k]
    BY Zenon, <1>1 DEF LockInv, LockTypes
  <1>5. \A k : Locks!Id(k)' = Locks!Id(k)
    BY Zenon, <1>1, NamesKept
  <1>6. HeldIsOwned'
    <2>1. ASSUME NEW k \in Mutexes, NEW u \in Lockers, lockOwner'[k] = u
          PROVE  k \in alive' /\ Locks!Id(k) \in lockHeld'[u]
      <3>1. k # m /\ lockOwner[k] = u
        BY SMTT(30), <1>4, <2>1 DEF Locks!LockdepAssumption
      <3>2. k \in alive /\ Locks!Id(k) \in lockHeld[u]
        BY Zenon, <3>1 DEF LockInv, HeldIsOwned
      <3>3. u = t => Locks!Id(k) # Locks!Id(m)
        BY Zenon, <1>1, <3>1 DEF LockInv, HeldIsOwned
      <3> QED
        BY SMTT(30), <1>1, <1>3, <3>2, <3>3 DEF SameNames
    <2>2. ASSUME NEW u \in Lockers, NEW h \in lockHeld'[u]
          PROVE  \E k \in alive' : lockOwner'[k] = u /\ Locks!Id(k) = h
      <3>1. h \in lockHeld[u] /\ (u = t => h # Locks!Id(m))
        BY <1>3, <2>2
      <3>2. PICK k \in alive : lockOwner[k] = u /\ Locks!Id(k) = h
        BY Zenon, <3>1 DEF LockInv, HeldIsOwned
      <3>3. k # m /\ k \in Mutexes
        BY Zenon, <1>1, <3>1, <3>2 DEF LockInv, LockTypes
      <3> QED
        BY Zenon, <1>1, <1>4, <3>2, <3>3 DEF SameNames
    <2>3. ASSUME NEW u \in Lockers, NEW k \in Mutexes, NEW j \in Mutexes,
                 lockOwner'[k] = u, lockOwner'[j] = u, Locks!Id(k) = Locks!Id(j)
          PROVE  k = j
      <3>1. lockOwner[k] = u /\ lockOwner[j] = u
        BY Zenon, <1>4, <2>3 DEF Locks!LockdepAssumption
      <3> QED
        BY Zenon, <2>3, <3>1 DEF LockInv, HeldIsOwned
    <2> QED
      BY Zenon, <1>5, <2>1, <2>2, <2>3 DEF HeldIsOwned
  <1>7. WaitIsRecorded'
    <2> SUFFICES ASSUME NEW u \in Lockers, lockWant'[u] # NoMutex
                 PROVE  /\ lockWant'[u] \in alive' /\ Locks!Id(lockWant'[u]) \notin lockHeld'[u]
                        /\ \A h \in lockHeld'[u] : <<h, Locks!Id(lockWant'[u])>> \in follows'
      BY Zenon, <1>5 DEF WaitIsRecorded
    <2>1. lockWant'[u] = lockWant[u] /\ lockHeld'[u] \subseteq lockHeld[u]
      BY Zenon, <1>1, <1>3
    <2> QED
      BY Zenon, <1>1, <2>1 DEF LockInv, WaitIsRecorded, SameNames
  <1>8. Locks!OrderAcyclic'
    BY Zenon, <1>1, FewerAcyclic DEF LockInv
  <1>9. Locks!IdsClean'
    <2>1. \A u \in Lockers : lockHeld'[u] \subseteq {lockIds[n] : n \in LockNames}
      BY Zenon, <1>3 DEF LockInv, Locks!IdsClean
    <2> QED
      BY SMT, Z3, <1>1, <2>1 DEF LockInv, Locks!IdsClean, SameNames
  <1> QED
    BY Zenon, <1>1, <1>2, <1>6, <1>7, <1>8, <1>9, NamesKept DEF LockInv

LEMMA TailOnce ==
    ASSUME NEW s \in Seq(Locks!Ids), s # <<>>, \A j, k \in 1 .. Len(s) : s[j] = s[k] => j = k
    PROVE  /\ \A j, k \in 1 .. Len(Tail(s)) : Tail(s)[j] = Tail(s)[k] => j = k
           /\ {Tail(s)[k] : k \in DOMAIN Tail(s)} = {s[k] : k \in DOMAIN s} \ {Head(s)}
           /\ Head(s) \in {s[k] : k \in DOMAIN s}
  <1>1. /\ Tail(s) \in Seq(Locks!Ids) /\ Len(s) \in Nat /\ Len(s) >= 1 /\ Len(Tail(s)) = Len(s) - 1
        /\ \A k \in 1 .. Len(s) - 1 : Tail(s)[k] = s[k + 1]
        /\ Head(s) = s[1] /\ DOMAIN s = 1 .. Len(s) /\ DOMAIN Tail(s) = 1 .. Len(s) - 1
    OBVIOUS
  <1>2. \A j, k \in 1 .. Len(Tail(s)) : Tail(s)[j] = Tail(s)[k] => j = k
    BY <1>1
  <1>3. ASSUME NEW k \in DOMAIN Tail(s)
        PROVE  Tail(s)[k] \in {s[j] : j \in DOMAIN s} \ {Head(s)}
    <2>1. k + 1 \in DOMAIN s /\ Tail(s)[k] = s[k + 1] /\ s[k + 1] # s[1]
      BY <1>1
    <2> QED
      BY <1>1, <2>1
  <1>4. ASSUME NEW k \in DOMAIN s, s[k] # Head(s)
        PROVE  s[k] \in {Tail(s)[j] : j \in DOMAIN Tail(s)}
    <2>1. k # 1 /\ k - 1 \in DOMAIN Tail(s) /\ Tail(s)[k - 1] = s[(k - 1) + 1]
      BY <1>1, <1>4
    <2>2. (k - 1) + 1 = k
      BY <1>1
    <2> QED
      BY <2>1, <2>2
  <1> QED
    BY SMT, Z3, <1>1, <1>2, <1>3, <1>4

\* The instances have finiteness and cardinality under names of their own.
LEMMA LocksFinite == \A S : Locks!IsFiniteSet(S) <=> IsFiniteSet(S)
  BY DEF Locks!IsFiniteSet, IsFiniteSet

LEMMA SlotsCounted == \A S : Slots!Cardinality(S) = Cardinality(S)
  BY DEF Slots!Cardinality, Cardinality

LEMMA FiniteBearers ==
    ASSUME Locks!LockdepAssumption, LockInv, NEW i
    PROVE  IsFiniteSet(Bearers(i)) /\ Cardinality(Bearers(i)) \in Nat
  <1>1. Bearers(i) \subseteq Mutexes
    BY Zenon DEF Bearers, LockInv, LockTypes
  <1> QED
    BY <1>1, LocksFinite, FS_Subset, FS_CardinalityType DEF Locks!LockdepAssumption

LEMMA RegisterStep ==
    ASSUME Locks!LockdepAssumption, LockInv, NEW m \in Mutexes, Locks!Register(m), UNCHANGED nameOf
    PROVE  LockInv'
  <1>0. UNCHANGED <<lockHeld, follows, lockOwner, lockWant>> /\ m \notin alive
    BY Zenon DEF Locks!Register
  <1>t. /\ nameOf \in [Mutexes -> LockNames] /\ lockIds \in [LockNames -> Locks!Ids \cup {-1}]
        /\ lockRefs \in [Locks!Ids -> Nat] /\ freeIds \in Seq(Locks!Ids) /\ alive \subseteq Mutexes
        /\ nameOf[m] \in LockNames /\ Locks!Id(m) \in Locks!Ids \cup {-1}
        /\ \A i \in Locks!Ids : i \in Int /\ i >= 0
    BY SMT, Z3 DEF LockInv, LockTypes, Locks!Id, Locks!Ids
  <1>1. CASE Locks!Id(m) < 0 /\ freeIds = <<>>
    <2>1. SameNames
      BY Zenon, <1>1 DEF Locks!Register, SameNames
    <2> QED
      BY <1>0, <2>1, QuietStep
  <1>2. CASE ~(Locks!Id(m) < 0 /\ freeIds = <<>>)
    <2> DEFINE id == IF Locks!Id(m) >= 0 THEN Locks!Id(m) ELSE Head(freeIds)
               n == nameOf[m]
    <2>1. /\ freeIds' = IF Locks!Id(m) >= 0 THEN freeIds ELSE Tail(freeIds)
          /\ lockIds' = [lockIds EXCEPT ![n] = id]
          /\ lockRefs' = [lockRefs EXCEPT ![id] = @ + 1]
          /\ alive' = alive \cup {m}
      BY Zenon, <1>2 DEF Locks!Register
    <2>2. id \in Locks!Ids /\ (Locks!Id(m) >= 0 => id = lockIds[n])
      <3>1. CASE Locks!Id(m) >= 0
        BY <1>t, <3>1 DEF Locks!Id
      <3>2. CASE ~(Locks!Id(m) >= 0)
        <4>1. freeIds # <<>>
          BY <1>2, <1>t, <3>2
        <4> QED
          BY <1>t, <3>2, <4>1
      <3> QED
        BY Zenon, <3>1, <3>2
    <2>3. LockTypes'
      <3>1. freeIds' \in Seq(Locks!Ids)
        BY SMT, Z3, <1>2, <1>t, <2>1
      <3>2. lockIds' \in [LockNames -> Locks!Ids \cup {-1}] /\ lockRefs' \in [Locks!Ids -> Nat] /\ alive' \subseteq Mutexes
        <4> HIDE DEF id
        <4> QED
          BY SMT, Z3, <1>t, <2>1, <2>2
      <3> QED
        BY Zenon, <1>0, <3>1, <3>2 DEF LockInv, LockTypes
    \* The ids of the names in use stay.
    <2>4. \A k \in alive : Locks!Id(k)' = Locks!Id(k) /\ Locks!Id(k) \in Locks!Ids
      <3> SUFFICES ASSUME NEW k \in alive
                   PROVE  Locks!Id(k)' = Locks!Id(k) /\ Locks!Id(k) \in Locks!Ids
        BY Zenon
      <3>1. Locks!Id(k) \in Locks!Ids /\ k \in Mutexes
        BY Zenon, <1>t DEF LockInv, RefsExact
      <3>2. CASE nameOf[k] = n
        <4>1. Locks!Id(m) = Locks!Id(k)
          BY <3>2 DEF Locks!Id
        <4>2. id = Locks!Id(k)
          BY Zenon, <1>t, <3>1, <4>1
        <4> HIDE DEF id
        <4> QED
          BY Zenon, <1>t, <2>1, <3>1, <3>2, <4>2 DEF Locks!Id
      <3>3. CASE nameOf[k] # n
        BY Zenon, <1>t, <2>1, <3>1, <3>3 DEF Locks!Id
      <3> QED
        BY Zenon, <3>2, <3>3
    <2>5. Locks!Id(m)' = id
      <3> HIDE DEF id
      <3> QED
        BY Zenon, <1>t, <2>1 DEF Locks!Id
    <2>6. FreeOnce'
      <3>1. CASE Locks!Id(m) >= 0
        BY Zenon, <2>1, <3>1 DEF LockInv, FreeOnce
      <3>2. CASE ~(Locks!Id(m) >= 0)
        <4>1. freeIds # <<>> /\ freeIds' = Tail(freeIds)
          BY SMTT(30), Z3T(30), <1>2, <1>t, <2>1, <3>2
        <4> QED
          BY SMT, Z3, <1>t, <4>1, TailOnce DEF LockInv, FreeOnce
      <3> QED
        BY <3>1, <3>2
    <2> HIDE DEF id
    <2>7. RefsExact'
      <3>1. \A k \in alive' : Locks!Id(k)' \in Locks!Ids
        BY Zenon, <2>1, <2>2, <2>4, <2>5
      <3>2. ASSUME NEW i \in Locks!Ids
            PROVE  lockRefs'[i] = Cardinality(Bearers(i)')
        <4>1. Bearers(i)' = IF i = id THEN Bearers(i) \cup {m} ELSE Bearers(i)
          BY Zenon, <1>0, <2>1, <2>4, <2>5 DEF Bearers
        <4>2. IsFiniteSet(Bearers(i)) /\ lockRefs[i] = Cardinality(Bearers(i)) /\ m \notin Bearers(i)
          BY Zenon, <1>0, FiniteBearers DEF LockInv, RefsExact, Bearers
        <4>3. Cardinality(Bearers(i) \cup {m}) = lockRefs[i] + 1
          BY Zenon, <4>2, FS_AddElement
        <4>4. lockRefs'[i] = IF i = id THEN lockRefs[i] + 1 ELSE lockRefs[i]
          BY Zenon, <1>t, <2>1
        <4> QED
          BY Zenon, <4>1, <4>2, <4>3, <4>4
      <3>3. ASSUME NEW p \in LockNames, lockIds'[p] \in Locks!Ids
            PROVE  \E k \in alive' : nameOf'[k] = p
        <4>1. CASE p = n
          BY Zenon, <2>1, <4>1
        <4>2. CASE p # n
          <5>1. lockIds[p] \in Locks!Ids
            BY Zenon, <1>t, <2>1, <3>3, <4>2
          <5> QED
            BY Zenon, <2>1, <5>1 DEF LockInv, RefsExact
        <4> QED
          BY Zenon, <4>1, <4>2
      <3> QED
        BY Zenon, <3>1, <3>2, <3>3 DEF RefsExact
    <2>8. \A t \in Lockers : \A k \in Mutexes : lockOwner[k] = t => k \in alive /\ Locks!Id(k)' = Locks!Id(k)
      BY Zenon, <2>4 DEF LockInv, HeldIsOwned
    <2>9. HeldIsOwned'
      <3>1. \A k \in Mutexes, t \in Lockers : lockOwner'[k] = t => k \in alive' /\ Locks!Id(k)' \in lockHeld'[t]
        BY SMTT(30), Z3T(30), <1>0, <2>1, <2>8 DEF LockInv, HeldIsOwned
      <3>2. \A t \in Lockers : \A h \in lockHeld'[t] : \E k \in alive' : lockOwner'[k] = t /\ Locks!Id(k)' = h
        BY SMTT(30), Z3T(30), <1>0, <2>1, <2>4 DEF LockInv, HeldIsOwned
      <3>3. \A t \in Lockers : \A j, k \in Mutexes :
                lockOwner'[j] = t /\ lockOwner'[k] = t /\ Locks!Id(j)' = Locks!Id(k)' => j = k
        BY SMT, Z3, <1>0, <2>8 DEF LockInv, HeldIsOwned
      <3> QED
        BY Zenon, <3>1, <3>2, <3>3 DEF HeldIsOwned
    <2>10. WaitIsRecorded'
      <3> SUFFICES ASSUME NEW u \in Lockers, lockWant[u] # NoMutex
                   PROVE  /\ lockWant[u] \in alive' /\ Locks!Id(lockWant[u])' \notin lockHeld[u]
                          /\ \A h \in lockHeld[u] : <<h, Locks!Id(lockWant[u])'>> \in follows
        BY Zenon, <1>0 DEF WaitIsRecorded, Locks!Id
      <3>1. lockWant[u] \in alive
        BY Zenon DEF LockInv, WaitIsRecorded
      <3>2. Locks!Id(lockWant[u])' = Locks!Id(lockWant[u])
        BY Zenon, <1>0, <2>4, <3>1 DEF Locks!Id
      <3> QED
        BY Zenon, <2>1, <3>1, <3>2 DEF LockInv, WaitIsRecorded
    <2>11. Locks!OrderAcyclic'
      BY <1>0, FewerAcyclic DEF LockInv
    <2>12. Locks!IdsClean'
      <3>1. \A p \in LockNames : lockIds'[p] = IF p = n THEN id ELSE lockIds[p]
        BY Zenon, <1>t, <2>1
      <3>2. \A p \in LockNames : lockIds[p] \in Locks!Ids => lockIds'[p] = lockIds[p]
        BY Zenon, <1>t, <2>2, <3>1 DEF Locks!Id
      <3>3. Locks!Id(m) >= 0 \/ id \in Locks!Ids \ {lockIds[p] : p \in LockNames}
        <4>1. CASE ~(Locks!Id(m) >= 0)
          <5>1. freeIds # <<>> /\ id = Head(freeIds)
            BY <1>2, <1>t, <4>1 DEF id
          <5>2. id \in {freeIds[k] : k \in DOMAIN freeIds}
            BY <1>t, <5>1
          <5> QED
            BY Zenon, <5>2 DEF LockInv, Locks!IdsClean
        <4> QED
          BY Zenon, <4>1
      <3>4. ASSUME NEW p \in LockNames, NEW q \in LockNames, lockIds'[p] = lockIds'[q], lockIds'[p] >= 0
            PROVE  p = q
        <4>1. CASE Locks!Id(m) >= 0
          <5>1. lockIds'[p] = lockIds[p] /\ lockIds'[q] = lockIds[q]
            BY Zenon, <2>2, <3>1, <4>1
          <5> QED
            BY Zenon, <3>4, <5>1 DEF LockInv, Locks!IdsClean
        <4>2. CASE ~(Locks!Id(m) >= 0)
          <5>1. id \notin {lockIds[r] : r \in LockNames}
            BY Zenon, <3>3, <4>2
          <5>2. CASE p # n /\ q # n
            BY Zenon, <3>1, <3>4, <5>2 DEF LockInv, Locks!IdsClean
          <5> QED
            BY <3>1, <3>4, <5>1, <5>2
        <4> QED
          BY <4>1, <4>2
      <3>5. {freeIds'[k] : k \in DOMAIN freeIds'} = Locks!Ids \ {lockIds'[p] : p \in LockNames}
        <4>0. {freeIds[k] : k \in DOMAIN freeIds} = Locks!Ids \ {lockIds[p] : p \in LockNames}
          BY Zenon DEF LockInv, Locks!IdsClean
        <4>1. CASE Locks!Id(m) >= 0
          <5>1. \A p \in LockNames : lockIds'[p] = lockIds[p]
            BY Zenon, <2>2, <3>1, <4>1
          <5>2. freeIds' = freeIds
            BY Zenon, <2>1, <4>1
          <5> QED
            BY <4>0, <5>1, <5>2
        <4>2. CASE ~(Locks!Id(m) >= 0)
          <5>1. freeIds # <<>> /\ freeIds' = Tail(freeIds) /\ id = Head(freeIds)
            BY SMT, Z3, <1>2, <1>t, <2>1, <4>2 DEF id
          <5>2. {freeIds'[k] : k \in DOMAIN freeIds'} = {freeIds[k] : k \in DOMAIN freeIds} \ {id}
            <6>1. \A j, k \in 1 .. Len(freeIds) : freeIds[j] = freeIds[k] => j = k
              BY Zenon DEF LockInv, FreeOnce
            <6>2. {Tail(freeIds)[k] : k \in DOMAIN Tail(freeIds)}
                      = {freeIds[k] : k \in DOMAIN freeIds} \ {Head(freeIds)}
              BY Zenon, <1>t, <5>1, <6>1, TailOnce
            <6> QED
              BY Zenon, <5>1, <6>2
          <5>3. lockIds[n] \notin Locks!Ids
            BY Zenon, <1>t, <4>2 DEF Locks!Id
          <5>4. \A i \in Locks!Ids : i \in {lockIds'[p] : p \in LockNames}
                                      <=> i = id \/ i \in {lockIds[p] : p \in LockNames}
            <6> SUFFICES ASSUME NEW i \in Locks!Ids
                         PROVE  (\E p \in LockNames : lockIds'[p] = i)
                                   <=> i = id \/ \E p \in LockNames : lockIds[p] = i
              BY Zenon
            <6>1. lockIds'[n] = id /\ n \in LockNames /\ lockIds[n] # i
              BY Zenon, <1>t, <3>1, <5>3
            <6>2. \A p \in LockNames \ {n} : lockIds'[p] = lockIds[p]
              BY Zenon, <3>1
            <6> QED
              BY Zenon, <6>1, <6>2
          <5> QED
            BY Zenon, <4>0, <5>2, <5>4
        <4> QED
          BY Zenon, <4>1, <4>2
      <3>6. \A i \in Locks!Ids : i \in {lockIds[p] : p \in LockNames} => i \in {lockIds'[p] : p \in LockNames}
        BY Zenon, <3>2
      <3>7. \A e \in follows' : {e[1], e[2]} \subseteq {lockIds'[p] : p \in LockNames}
        <4>1. \A e \in follows : e[1] \in Locks!Ids /\ e[2] \in Locks!Ids
          BY Zenon DEF LockInv, LockTypes
        <4>2. \A e \in follows : {e[1], e[2]} \subseteq {lockIds[p] : p \in LockNames}
          BY Zenon DEF LockInv, Locks!IdsClean
        <4> QED
          BY Zenon, <1>0, <3>6, <4>1, <4>2
      <3>8. \A t \in Lockers : lockHeld'[t] \subseteq {lockIds'[p] : p \in LockNames}
        <4>1. \A t \in Lockers : lockHeld[t] \subseteq Locks!Ids /\ lockHeld[t] \subseteq {lockIds[p] : p \in LockNames}
          BY Zenon DEF LockInv, LockTypes, Locks!IdsClean
        <4> QED
          BY Zenon, <1>0, <3>6, <4>1
      <3> QED
        BY Zenon, <3>4, <3>5, <3>7, <3>8 DEF Locks!IdsClean
    <2> QED
      BY <2>3, <2>6, <2>7, <2>9, <2>10, <2>11, <2>12 DEF LockInv
  <1> QED
    BY <1>1, <1>2

LEMMA UnregisterStep ==
    ASSUME Locks!LockdepAssumption, LockInv, NEW m \in Mutexes, Locks!Unregister(m), UNCHANGED nameOf
    PROVE  LockInv'
  <1> DEFINE id == Locks!Id(m)
             n == nameOf[m]
  <1>0. /\ UNCHANGED <<lockHeld, lockOwner, lockWant>> /\ m \in alive /\ lockOwner[m] = NoThread
        /\ \A t \in Lockers : lockWant[t] # m
        /\ alive' = alive \ {m} /\ lockRefs' = [lockRefs EXCEPT ![id] = @ - 1]
    BY Zenon DEF Locks!Unregister
  <1>t. /\ nameOf \in [Mutexes -> LockNames] /\ lockIds \in [LockNames -> Locks!Ids \cup {-1}]
        /\ lockRefs \in [Locks!Ids -> Nat] /\ freeIds \in Seq(Locks!Ids) /\ alive \subseteq Mutexes
        /\ n \in LockNames /\ id \in Locks!Ids /\ id = lockIds[n]
        /\ \A i \in Locks!Ids : i \in Int /\ i >= 0
    BY SMT, Z3, <1>0 DEF LockInv, LockTypes, RefsExact, Locks!Id, Locks!Ids
  <1>1. /\ IsFiniteSet(Bearers(id)) /\ lockRefs[id] = Cardinality(Bearers(id))
        /\ m \in Bearers(id) /\ lockRefs[id] \in Nat /\ lockRefs[id] # 0
    <2>1. IsFiniteSet(Bearers(id)) /\ lockRefs[id] = Cardinality(Bearers(id)) /\ m \in Bearers(id)
      BY Zenon, <1>0, <1>t, FiniteBearers DEF LockInv, RefsExact, Bearers
    <2>2. Cardinality(Bearers(id)) # 0
      BY Zenon, <2>1, FS_EmptySet
    <2> QED
      BY Zenon, <1>t, <2>1, <2>2
  <1>2. \A k \in alive : nameOf[k] \in LockNames /\ Locks!Id(k) = lockIds[nameOf[k]] /\ Locks!Id(k) \in Locks!Ids
    BY Zenon, <1>t DEF LockInv, RefsExact, Locks!Id
  <1>3. \A p, q \in LockNames : lockIds[p] = lockIds[q] /\ lockIds[p] >= 0 => p = q
    BY Zenon DEF LockInv, Locks!IdsClean
  <1>4. lockRefs' \in [Locks!Ids -> Nat] /\ \A i \in Locks!Ids : lockRefs'[i] = IF i = id THEN lockRefs[i] - 1 ELSE lockRefs[i]
    BY SMTT(30), Z3T(30), <1>0, <1>1, <1>t
  <1>5. \A t \in Lockers : \A h \in lockHeld[t] : \E k \in alive' : lockOwner[k] = t /\ Locks!Id(k) = h
    <2> SUFFICES ASSUME NEW t \in Lockers, NEW h \in lockHeld[t]
                 PROVE  \E k \in alive' : lockOwner[k] = t /\ Locks!Id(k) = h
      BY Zenon
    <2>1. PICK k \in alive : lockOwner[k] = t /\ Locks!Id(k) = h
      BY Zenon DEF LockInv, HeldIsOwned
    <2>2. k # m
      BY Zenon, <1>0, <2>1 DEF Locks!LockdepAssumption
    <2> QED
      BY Zenon, <1>0, <2>1, <2>2
  <1>6. \A t \in Lockers : \A k \in Mutexes : lockOwner[k] = t => k \in alive'
    BY SMT, Z3, <1>0 DEF LockInv, HeldIsOwned, Locks!LockdepAssumption
  <1>7. \A t \in Lockers : lockWant[t] # NoMutex => lockWant[t] \in alive'
    BY Zenon, <1>0 DEF LockInv, WaitIsRecorded
  \* What is left to show for the two cases: the ids of the other mutexes stay.
  <1>8. ASSUME \A k \in alive' : Locks!Id(k)' = Locks!Id(k),
               follows' \subseteq follows,
               \A t \in Lockers : lockWant[t] # NoMutex =>
                   \A h \in lockHeld[t] : <<h, Locks!Id(lockWant[t])>> \in follows'
        PROVE  HeldIsOwned' /\ WaitIsRecorded' /\ Locks!OrderAcyclic'
    <2>1. HeldIsOwned'
      <3>1. \A k \in Mutexes, t \in Lockers : lockOwner'[k] = t => k \in alive' /\ Locks!Id(k)' \in lockHeld'[t]
        BY SMTT(60), Z3T(60), <1>0, <1>6, <1>8 DEF LockInv, HeldIsOwned
      <3>2. \A t \in Lockers : \A h \in lockHeld'[t] : \E k \in alive' : lockOwner'[k] = t /\ Locks!Id(k)' = h
        BY SMTT(60), Z3T(60), <1>0, <1>5, <1>8
      <3>3. \A t \in Lockers : \A j, k \in Mutexes :
                lockOwner'[j] = t /\ lockOwner'[k] = t /\ Locks!Id(j)' = Locks!Id(k)' => j = k
        BY SMTT(60), Z3T(60), <1>0, <1>6, <1>8 DEF LockInv, HeldIsOwned
      <3> QED
        BY Zenon, <3>1, <3>2, <3>3 DEF HeldIsOwned
    <2>2. WaitIsRecorded'
      <3> SUFFICES ASSUME NEW u \in Lockers, lockWant[u] # NoMutex
                   PROVE  /\ lockWant[u] \in alive' /\ Locks!Id(lockWant[u])' \notin lockHeld[u]
                          /\ \A h \in lockHeld[u] : <<h, Locks!Id(lockWant[u])'>> \in follows'
        BY Zenon, <1>0 DEF WaitIsRecorded, Locks!Id
      <3>1. lockWant[u] \in alive'
        BY Zenon, <1>7
      <3>2. Locks!Id(lockWant[u])' = Locks!Id(lockWant[u])
        BY Zenon, <1>0, <1>8, <3>1 DEF Locks!Id
      <3> QED
        BY Zenon, <1>8, <3>1, <3>2 DEF LockInv, WaitIsRecorded
    <2>3. Locks!OrderAcyclic'
      BY Zenon, <1>8, FewerAcyclic DEF LockInv
    <2> QED
      BY <2>1, <2>2, <2>3
  <1>9. ASSUME \A k \in alive' : Locks!Id(k)' = Locks!Id(k)
        PROVE  /\ \A k \in alive' : Locks!Id(k)' \in Locks!Ids
               /\ \A i \in Locks!Ids : lockRefs'[i] = Cardinality(Bearers(i)')
    <2>1. \A k \in alive' : Locks!Id(k)' \in Locks!Ids
      BY Zenon, <1>0, <1>2, <1>9
    <2>2. ASSUME NEW i \in Locks!Ids
          PROVE  lockRefs'[i] = Cardinality(Bearers(i)')
      <3>1. Bearers(i)' = Bearers(i) \ {m}
        BY Zenon, <1>0, <1>9 DEF Bearers
      <3>2. IsFiniteSet(Bearers(i)) /\ lockRefs[i] = Cardinality(Bearers(i))
        BY Zenon, FiniteBearers DEF LockInv, RefsExact
      <3>3. m \in Bearers(i) <=> i = id
        BY Zenon, <1>0 DEF Bearers
      <3>4. Cardinality(Bearers(i) \ {m}) = IF m \in Bearers(i) THEN lockRefs[i] - 1 ELSE lockRefs[i]
        BY Zenon, <3>2, FS_RemoveElement
      <3> QED
        BY Zenon, <1>4, <3>1, <3>3, <3>4
    <2> QED
      BY Zenon, <2>1, <2>2
  <1>10. CASE lockRefs[id] # 1
    <2>1. UNCHANGED <<follows, freeIds, lockIds>>
      BY Zenon, <1>10 DEF Locks!Unregister, Locks!LastReference
    <2>2. \A k : Locks!Id(k)' = Locks!Id(k)
      BY Zenon, <2>1 DEF Locks!Id
    <2>3. HeldIsOwned' /\ WaitIsRecorded' /\ Locks!OrderAcyclic'
      <3>1. \A t \in Lockers : lockWant[t] # NoMutex =>
                   \A h \in lockHeld[t] : <<h, Locks!Id(lockWant[t])>> \in follows'
        BY Zenon, <2>1 DEF LockInv, WaitIsRecorded
      <3> QED
        BY Zenon, <1>8, <2>1, <2>2, <3>1
    <2>4. LockTypes' /\ FreeOnce'
      BY SMT, Z3, <1>0, <1>4, <1>t, <2>1 DEF LockInv, LockTypes, FreeOnce
    <2>5. Locks!IdsClean'
      BY SMTT(30), Z3T(30), <1>0, <2>1 DEF LockInv, Locks!IdsClean
    <2>6. RefsExact'
      <3>1. PICK k \in Bearers(id) : k # m
        <4>1. ~\E x : Bearers(id) = {x}
          BY Zenon, <1>1, <1>10, FS_Singleton
        <4> QED
          BY <1>1, <4>1
      <3>2. k \in alive' /\ nameOf[k] = n
        BY SMTT(30), Z3T(30), <1>0, <1>2, <1>3, <1>t, <3>1 DEF Bearers
      <3>3. ASSUME NEW p \in LockNames, lockIds'[p] \in Locks!Ids
            PROVE  \E j \in alive' : nameOf'[j] = p
        <4>1. PICK j \in alive : nameOf[j] = p
          BY Zenon, <2>1, <3>3 DEF LockInv, RefsExact
        <4> QED
          BY Zenon, <1>0, <3>2, <4>1
      <3> QED
        BY Zenon, <1>9, <2>2, <3>3 DEF RefsExact
    <2> QED
      BY Zenon, <2>3, <2>4, <2>5, <2>6 DEF LockInv
  <1>11. CASE lockRefs[id] = 1
    <2>1. /\ follows' = Locks!ForgetOrder(id) /\ freeIds' = Append(freeIds, id)
          /\ lockIds' = [lockIds EXCEPT ![n] = -1]
      BY Zenon, <1>11 DEF Locks!Unregister, Locks!LastReference
    <2>2. \A k \in alive' : Locks!Id(k) # id /\ nameOf[k] # n
      <3>1. PICK x : Bearers(id) = {x}
        BY Zenon, <1>1, <1>11, FS_Singleton
      <3>2. Bearers(id) = {m}
        BY Zenon, <1>1, <3>1
      <3>3. \A k \in alive' : Locks!Id(k) # id
        BY Zenon, <1>0, <3>2 DEF Bearers
      <3> QED
        BY Zenon, <3>3 DEF Locks!Id
    <2>3. \A p \in LockNames : lockIds'[p] = IF p = n THEN -1 ELSE lockIds[p]
      BY Zenon, <1>t, <2>1
    <2>4. \A k \in alive' : Locks!Id(k)' = Locks!Id(k)
      BY Zenon, <1>0, <1>2, <2>2, <2>3 DEF Locks!Id
    <2>5. follows' \subseteq follows /\ \A e \in follows' : e[1] # id /\ e[2] # id
      BY Zenon, <2>1 DEF Locks!ForgetOrder
    <2>6. \A t \in Lockers : id \notin lockHeld[t]
      BY Zenon, <1>5, <2>2
    <2>7. \A t \in Lockers : lockWant[t] # NoMutex =>
                   \A h \in lockHeld[t] : <<h, Locks!Id(lockWant[t])>> \in follows'
      <3> SUFFICES ASSUME NEW t \in Lockers, lockWant[t] # NoMutex, NEW h \in lockHeld[t]
                   PROVE  <<h, Locks!Id(lockWant[t])>> \in follows'
        BY Zenon
      <3>1. <<h, Locks!Id(lockWant[t])>> \in follows
        BY Zenon DEF LockInv, WaitIsRecorded
      <3>2. h # id /\ Locks!Id(lockWant[t]) # id
        BY Zenon, <1>7, <2>2, <2>6
      <3> QED
        BY Zenon, <2>1, <3>1, <3>2 DEF Locks!ForgetOrder
    <2>8. HeldIsOwned' /\ WaitIsRecorded' /\ Locks!OrderAcyclic'
      BY Zenon, <1>8, <2>4, <2>5, <2>7
    <2>9. /\ freeIds' \in Seq(Locks!Ids) /\ Len(freeIds') = Len(freeIds) + 1 /\ Len(freeIds) \in Nat
          /\ \A k \in 1 .. Len(freeIds) : freeIds'[k] = freeIds[k]
          /\ freeIds'[Len(freeIds) + 1] = id
      <3> HIDE DEF id
      <3> QED
        BY SMTT(30), Z3T(30), <1>t, <2>1
    <2>10. LockTypes'
      <3>1. lockIds' \in [LockNames -> Locks!Ids \cup {-1}] /\ alive' \subseteq Mutexes
        BY Zenon, <1>0, <1>t, <2>1
      <3> QED
        BY Zenon, <1>0, <1>4, <2>5, <2>9, <3>1 DEF LockInv, LockTypes
    <2>11. \A k \in 1 .. Len(freeIds) : freeIds[k] # id
      <3>1. {freeIds[k] : k \in DOMAIN freeIds} = Locks!Ids \ {lockIds[p] : p \in LockNames}
        BY Zenon DEF LockInv, Locks!IdsClean
      <3>2. DOMAIN freeIds = 1 .. Len(freeIds)
        BY SMTT(30), <1>t
      <3> QED
        BY Zenon, <1>t, <3>1, <3>2
    <2>12. FreeOnce'
      BY SMT, Z3, <2>9, <2>11 DEF LockInv, FreeOnce
    <2>13. RefsExact'
      <3>1. ASSUME NEW p \in LockNames, lockIds'[p] \in Locks!Ids
            PROVE  \E k \in alive' : nameOf'[k] = p
        <4>1. p # n /\ lockIds[p] \in Locks!Ids
          BY SMT, Z3, <1>t, <2>3, <3>1
        <4>2. PICK k \in alive : nameOf[k] = p
          BY Zenon, <4>1 DEF LockInv, RefsExact
        <4> QED
          BY Zenon, <1>0, <4>1, <4>2
      <3> QED
        BY Zenon, <1>9, <2>4, <3>1 DEF RefsExact
    <2>14. Locks!IdsClean'
      <3>1. \A p, q \in LockNames : lockIds'[p] = lockIds'[q] /\ lockIds'[p] >= 0 => p = q
        BY <1>3, <2>3
      <3>2. \A i \in Locks!Ids : i \in {lockIds'[p] : p \in LockNames}
                                  <=> i # id /\ i \in {lockIds[p] : p \in LockNames}
        <4> SUFFICES ASSUME NEW i \in Locks!Ids
                     PROVE  (\E p \in LockNames : lockIds'[p] = i)
                                <=> i # id /\ \E p \in LockNames : lockIds[p] = i
          BY Zenon
        <4>1. lockIds'[n] # i
          BY SMT, Z3, <1>t, <2>3
        <4>2. \A p \in LockNames \ {n} : lockIds'[p] = lockIds[p] /\ lockIds[p] # id
          BY SMT, Z3, <1>3, <1>t, <2>3
        <4> QED
          BY Zenon, <1>t, <4>1, <4>2
      <3>3. {freeIds'[k] : k \in DOMAIN freeIds'} = Locks!Ids \ {lockIds'[p] : p \in LockNames}
        <4>1. {freeIds[k] : k \in DOMAIN freeIds} = Locks!Ids \ {lockIds[p] : p \in LockNames}
          BY Zenon DEF LockInv, Locks!IdsClean
        <4>2. DOMAIN freeIds = 1 .. Len(freeIds) /\ DOMAIN freeIds' = 1 .. Len(freeIds) + 1
          BY SMT, Z3, <1>t, <2>9
        <4>3. \A k \in DOMAIN freeIds' : freeIds'[k] = id \/ freeIds'[k] \in {freeIds[j] : j \in DOMAIN freeIds}
          BY SMT, Z3, <2>9, <4>2
        <4>4. \A k \in DOMAIN freeIds : freeIds[k] \in {freeIds'[j] : j \in DOMAIN freeIds'}
          BY SMT, Z3, <2>9, <4>2
        <4>5. id \in {freeIds'[j] : j \in DOMAIN freeIds'}
          BY SMT, Z3, <2>9, <4>2
        <4>6. {freeIds'[j] : j \in DOMAIN freeIds'} = {freeIds[k] : k \in DOMAIN freeIds} \cup {id}
          BY Zenon, <4>3, <4>4, <4>5
        <4> HIDE DEF id
        <4> QED
          BY Zenon, <1>t, <3>2, <4>1, <4>6
      <3>4. \A e \in follows' : {e[1], e[2]} \subseteq {lockIds'[p] : p \in LockNames}
        <4>1. \A e \in follows : e[1] \in Locks!Ids /\ e[2] \in Locks!Ids
          BY Zenon DEF LockInv, LockTypes
        <4>2. \A e \in follows : {e[1], e[2]} \subseteq {lockIds[p] : p \in LockNames}
          BY Zenon DEF LockInv, Locks!IdsClean
        <4> QED
          BY Zenon, <2>5, <3>2, <4>1, <4>2
      <3>5. \A t \in Lockers : lockHeld'[t] \subseteq {lockIds'[p] : p \in LockNames}
        <4>1. \A t \in Lockers : lockHeld[t] \subseteq Locks!Ids /\ lockHeld[t] \subseteq {lockIds[p] : p \in LockNames}
          BY Zenon DEF LockInv, LockTypes, Locks!IdsClean
        <4> QED
          BY Zenon, <1>0, <2>6, <3>2, <4>1
      <3> QED
        BY Zenon, <3>1, <3>3, <3>4, <3>5 DEF Locks!IdsClean
    <2> QED
      BY Zenon, <2>8, <2>10, <2>12, <2>13, <2>14 DEF LockInv
  <1> QED
    BY Zenon, <1>10, <1>11

LEMMA LockStep == Locks!LockdepAssumption /\ LockInv /\ [Locks!Next]_(Locks!vars) => LockInv'
  <1> SUFFICES ASSUME Locks!LockdepAssumption, LockInv, [Locks!Next]_(Locks!vars) PROVE LockInv'
    OBVIOUS
  <1>1. CASE UNCHANGED Locks!vars
    BY <1>1, QuietStep DEF Locks!vars, SameNames
  <1>2. CASE Locks!Next
    <2>1. UNCHANGED nameOf
      BY Zenon, <1>2 DEF Locks!Next
    <2>2. CASE Locks!Aborted
      BY Zenon, <2>2, QuietStep DEF Locks!Aborted, Locks!vars, SameNames
    <2>3. ASSUME NEW m \in Mutexes, Locks!Register(m) \/ Locks!Unregister(m) PROVE LockInv'
      BY <2>1, <2>3, RegisterStep, UnregisterStep
    <2>4. ASSUME NEW t \in Lockers, NEW m \in Mutexes, Locks!WillLock(t, m) \/ Locks!TryLock(t, m) \/ Locks!Unlock(t, m)
          PROVE  LockInv'
      BY <2>1, <2>4, WillLockStep, TryLockStep, UnlockStep
    <2>5. ASSUME NEW t \in Lockers, Locks!Locked(t) PROVE LockInv'
      BY <2>1, <2>5, LockedStep
    <2> QED
      BY Zenon, <1>2, <2>2, <2>3, <2>4, <2>5 DEF Locks!Next
  <1> QED
    BY <1>1, <1>2

\* lockdep_will_lock(), lockdep_locked() and lockdep_unregister(): with any number of
\* threads, mutexes and names, those that share a name included, the recorded order has no
\* cycle, an id that is given out again carries no order, and no threads wait in a circle,
\* as long as all of them wait in a Lock() that the checker sees.
THEOREM LocksStayInOrder == Locks!Spec => []LocksInOrder
  <1> USE LockdepAssumption
  <1>1. LockInv => LocksInOrder
    BY NoCircle DEF LockInv, LocksInOrder
  <1> QED
    BY <1>1, LockInit, LockStep, PTL DEF Locks!Spec

-----------------------------------------------------------------------------
(* The throttle.                                                           *)

\* What the proofs need of the types; that count is not negative follows from CountExact.
Types ==
    /\ count \in Int /\ max \in Nat
    /\ cond \in Seq(Takers)
    /\ takerPc \in [Takers -> {"idle", "wait", "woken"}]
    /\ want \in [Takers -> Nat]

ThrottleInv == Types /\ Slots!WaitersListed /\ Slots!FrontIsWoken

\* More slots in use never make room.
LEMMA ShouldWaitGrows ==
    ASSUME NEW c \in Nat, NEW cur \in Int, NEW m \in Nat, NEW d \in Nat, Slots!ShouldWait(c, cur, m)
    PROVE  Slots!ShouldWait(c, cur + d, m)
  BY DEF Slots!ShouldWait

LEMMA SignalFrontFacts ==
    ASSUME NEW p \in [Takers -> {"idle", "wait", "woken"}], NEW q \in Seq(Takers)
    PROVE  /\ Slots!SignalFront(p, q) \in [Takers -> {"idle", "wait", "woken"}]
           /\ q # <<>> => Head(q) \in Takers /\ Slots!SignalFront(p, q)[Head(q)] = "woken"
           /\ \A t \in Takers : (q = <<>> \/ t # Head(q)) => Slots!SignalFront(p, q)[t] = p[t]
           /\ q = <<>> => Slots!SignalFront(p, q) = p
  <1>1. CASE q = <<>>
    BY <1>1 DEF Slots!SignalFront
  <1>2. CASE q # <<>>
    <2>1. Head(q) \in Takers
      BY <1>2
    <2> QED
      BY Zenon, <1>2, <2>1 DEF Slots!SignalFront
  <1> QED
    BY Zenon, <1>1, <1>2

LEMMA HeadIsListed ==
    ASSUME NEW q \in Seq(Takers), q # <<>>
    PROVE  Head(q) \in Takers /\ Head(q) = q[1] /\ 1 \in 1 .. Len(q)
  OBVIOUS

\* Signalling a waiter changes neither who waits nor the list.
LEMMA SignalKeepsListed ==
    ASSUME Types, Slots!WaitersListed, cond' = cond, takerPc' = Slots!SignalFront(takerPc, cond)
    PROVE  Slots!WaitersListed'
  <1>1. CASE cond = <<>>
    BY <1>1 DEF Slots!SignalFront, Slots!WaitersListed
  <1>2. CASE cond # <<>>
    <2>1. takerPc[Head(cond)] # "idle"
      BY Zenon, <1>2, HeadIsListed DEF Types, Slots!WaitersListed
    <2>2. \A t \in Takers : takerPc'[t] # "idle" <=> takerPc[t] # "idle"
      BY Zenon, <1>2, <2>1, SignalFrontFacts DEF Types
    <2> QED
      BY Zenon, <2>2 DEF Slots!WaitersListed
  <1> QED
    BY <1>1, <1>2

LEMMA ThrottleInit == Slots!ThrottleAssumption /\ Slots!Init => ThrottleInv
  <1> SUFFICES ASSUME Slots!ThrottleAssumption, Slots!Init PROVE ThrottleInv
    OBVIOUS
  <1>1. Types
    BY DEF Slots!ThrottleAssumption, Slots!Init, Types
  <1>2. Slots!WaitersListed
    BY DEF Slots!Init, Slots!WaitersListed
  <1>3. Slots!FrontIsWoken
    BY Zenon DEF Slots!Init, Slots!FrontIsWoken
  <1> QED
    BY <1>1, <1>2, <1>3 DEF ThrottleInv

LEMMA ResetStep ==
    ASSUME Slots!ThrottleAssumption, ThrottleInv, NEW t \in Takers, NEW m \in Maxima, Slots!CallResetMax(t, m)
    PROVE  ThrottleInv'
  <1> USE DEF ThrottleInv, Slots!CallResetMax, Slots!ResetMax
  <1>1. CASE m = max
    BY SMT, Z3, <1>1 DEF Types, Slots!WaitersListed, Slots!FrontIsWoken
  <1>2. CASE m # max
    <2>1. Types'
      BY Zenon, <1>2, SignalFrontFacts DEF Types, Slots!ThrottleAssumption
    <2>2. Slots!WaitersListed'
      BY Zenon, <1>2, SignalKeepsListed
    <2>3. Slots!FrontIsWoken'
      BY Zenon, <1>2, SignalFrontFacts DEF Types, Slots!FrontIsWoken
    <2> QED
      BY SMTT(30), <2>1, <2>2, <2>3
  <1> QED
    BY Zenon, <1>1, <1>2

LEMMA GetAtOnceStep ==
    ASSUME Slots!ThrottleAssumption, ThrottleInv, NEW t \in Takers, NEW m \in Maxima,
           NEW c \in Amounts \cup {0}, Slots!GetAtOnce(t, c, m)
    PROVE  ThrottleInv'
  <1> USE DEF ThrottleInv, Slots!GetAtOnce
  <1>1. Types'
    BY SMT, Z3 DEF Types, Slots!ThrottleAssumption
  <1> QED
    BY SMT, Z3, <1>1 DEF Slots!WaitersListed, Slots!FrontIsWoken

LEMMA GetWaitStep ==
    ASSUME Slots!ThrottleAssumption, ThrottleInv, NEW t \in Takers, NEW m \in Maxima,
           NEW c \in Amounts \cup {0}, Slots!GetWait(t, c, m)
    PROVE  ThrottleInv'
  <1> USE DEF ThrottleInv
  <1> DEFINE p == IF m = max THEN takerPc ELSE Slots!SignalFront(takerPc, cond)
  <1>1. /\ takerPc[t] = "idle"
        /\ Slots!ShouldWait(c, count, m) \/ cond # <<>>
        /\ max' = m /\ cond' = Append(cond, t)
        /\ takerPc' = [p EXCEPT ![t] = "wait"]
        /\ want' = [want EXCEPT ![t] = c]
        /\ UNCHANGED count
    BY Zenon DEF Slots!GetWait
  <1>2. cond \in Seq(Takers) /\ Len(cond) \in Nat
    BY DEF Types
  <1>3. p \in [Takers -> {"idle", "wait", "woken"}]
    BY Zenon, SignalFrontFacts DEF Types
  <1>4. \A u \in Takers : p[u] # "idle" <=> takerPc[u] # "idle"
    <2>1. cond # <<>> => takerPc[Head(cond)] # "idle"
      BY Zenon, HeadIsListed DEF Types, Slots!WaitersListed
    <2> QED
      BY SMT, Z3, <2>1, SignalFrontFacts DEF Types
  <1>5. ~ \E i \in 1 .. Len(cond) : cond[i] = t
    BY Zenon, <1>1 DEF Slots!WaitersListed
  <1>6. /\ Len(cond') = Len(cond) + 1
        /\ \A i \in 1 .. Len(cond) : cond'[i] = cond[i]
        /\ cond'[Len(cond) + 1] = t
        /\ cond' \in Seq(Takers) /\ cond' # <<>>
    BY SMT, Z3, <1>1, <1>2
  <1>7. Types'
    BY SMTT(30), Z3T(30), <1>1, <1>3, <1>6 DEF Types, Slots!ThrottleAssumption
  <1>8. Slots!WaitersListed'
    <2>1. \A i, j \in 1 .. Len(cond') : cond'[i] = cond'[j] => i = j
      BY SMT, Z3, <1>2, <1>5, <1>6 DEF Slots!WaitersListed
    <2>2. ASSUME NEW u \in Takers
          PROVE  takerPc'[u] # "idle" <=> \E i \in 1 .. Len(cond') : cond'[i] = u
      <3>1. CASE u = t
        BY SMTT(30), Z3T(30), <1>1, <1>2, <1>3, <1>6, <3>1
      <3>2. CASE u # t
        <4>1. takerPc'[u] # "idle" <=> takerPc[u] # "idle"
          BY Zenon, <1>1, <1>3, <1>4, <3>2
        <4>2. (\E i \in 1 .. Len(cond') : cond'[i] = u) <=> \E i \in 1 .. Len(cond) : cond[i] = u
          BY <1>2, <1>6, <3>2
        <4> QED
          BY Zenon, <4>1, <4>2 DEF Slots!WaitersListed
      <3> QED
        BY Zenon, <3>1, <3>2
    <2> QED
      BY Zenon, <2>1, <2>2 DEF Slots!WaitersListed
  <1>9. Slots!FrontIsWoken'
    <2>1. CASE cond = <<>>
      <3>1. Head(cond') = t
        BY <1>1, <2>1
      <3>2. want'[t] = c
        BY Zenon, <1>1 DEF Types
      <3> QED
        BY Zenon, <1>1, <2>1, <3>1, <3>2 DEF Slots!FrontIsWoken
    <2>2. CASE cond # <<>>
      <3>1. Head(cond') = Head(cond) /\ Head(cond) \in Takers /\ Head(cond) # t
        BY Zenon, <1>2, <1>5, <1>6, <2>2, HeadIsListed
      <3>2. want'[Head(cond)] = want[Head(cond)] /\ takerPc'[Head(cond)] = p[Head(cond)]
        BY Zenon, <1>1, <1>3, <3>1 DEF Types
      <3>3. CASE m = max
        BY Zenon, <1>1, <2>2, <3>1, <3>2, <3>3 DEF Slots!FrontIsWoken
      <3>4. CASE m # max
        BY Zenon, <2>2, <3>1, <3>2, <3>4, SignalFrontFacts DEF Slots!FrontIsWoken, Types
      <3> QED
        BY Zenon, <3>3, <3>4
    <2> QED
      BY Zenon, <2>1, <2>2
  <1> QED
    BY Zenon, <1>7, <1>8, <1>9

LEMMA WaitAgainStep ==
    ASSUME Slots!ThrottleAssumption, ThrottleInv, NEW t \in Takers, Slots!WaitAgain(t)
    PROVE  ThrottleInv'
  <1> USE DEF ThrottleInv, Slots!WaitAgain
  <1>1. Types'
    BY Zenon DEF Types
  <1>2. Slots!WaitersListed'
    BY SMT, Z3 DEF Types, Slots!WaitersListed
  <1>3. Slots!FrontIsWoken'
    <2>1. cond # <<>>
      <3>1. takerPc[t] # "idle" /\ \E i \in 1 .. Len(cond) : cond[i] = t
        BY Zenon DEF Slots!WaitersListed
      <3> QED
        BY SMTT(30), <3>1
    <2>2. CASE t = Head(cond)
      BY Zenon, <2>2 DEF Slots!FrontIsWoken
    <2>3. CASE t # Head(cond)
      BY Zenon, <2>1, <2>3, HeadIsListed DEF Slots!FrontIsWoken, Types
    <2> QED
      BY Zenon, <2>2, <2>3
  <1> QED
    BY Zenon, <1>1, <1>2, <1>3

LEMMA WaitDoneStep ==
    ASSUME Slots!ThrottleAssumption, ThrottleInv, NEW t \in Takers, Slots!WaitDone(t)
    PROVE  ThrottleInv'
  <1> USE DEF ThrottleInv
  <1> DEFINE p == [takerPc EXCEPT ![t] = "idle"]
             q == Tail(cond)
  <1>1. /\ takerPc[t] = "woken" /\ t = Head(cond)
        /\ cond' = q /\ takerPc' = Slots!SignalFront(p, q)
        /\ count' = count + want[t]
        /\ want' = [want EXCEPT ![t] = 0]
        /\ UNCHANGED max
    BY Zenon DEF Slots!WaitDone
  <1>2. cond \in Seq(Takers) /\ cond # <<>>
    BY SMT, Z3, <1>1 DEF Types, Slots!WaitersListed
  <1>3. /\ q \in Seq(Takers) /\ Len(q) \in Nat /\ Len(cond) = Len(q) + 1
        /\ \A i \in 1 .. Len(q) : q[i] = cond[i + 1]
        /\ cond[1] = t
    BY SMT, Z3, <1>1, <1>2, HeadIsListed
  <1>4. p \in [Takers -> {"idle", "wait", "woken"}]
    BY Zenon DEF Types
  <1>5. Types'
    <2>1. takerPc' \in [Takers -> {"idle", "wait", "woken"}]
      BY Zenon, <1>1, <1>3, <1>4, SignalFrontFacts
    <2>2. want[t] \in Nat /\ want' \in [Takers -> Nat]
      BY Zenon, <1>1 DEF Types
    <2>3. count' \in Int /\ max' \in Nat
      BY SMT, Z3, <1>1, <2>2 DEF Types
    <2>4. cond' \in Seq(Takers)
      BY Zenon, <1>1, <1>3
    <2> HIDE DEF p, q
    <2> QED
      BY Zenon, <2>1, <2>2, <2>3, <2>4 DEF Types
  <1>6. Slots!WaitersListed'
    <2>1. \A i, j \in 1 .. Len(q) : q[i] = q[j] => i = j
      BY <1>3 DEF Slots!WaitersListed
    <2>2. \A u \in Takers : p[u] # "idle" <=> \E i \in 1 .. Len(q) : q[i] = u
      <3> SUFFICES ASSUME NEW u \in Takers
                   PROVE  p[u] # "idle" <=> \E i \in 1 .. Len(q) : q[i] = u
        BY Zenon
      <3>1. CASE u = t
        <4>1. p[u] = "idle"
          BY Zenon, <3>1 DEF Types
        <4>2. ASSUME NEW i \in 1 .. Len(q), q[i] = u
              PROVE  FALSE
          <5>1. cond[i + 1] = cond[1] /\ i + 1 \in 1 .. Len(cond) /\ 1 \in 1 .. Len(cond)
            BY <1>3, <3>1, <4>2
          <5>2. i + 1 = 1
            BY Zenon, <5>1 DEF Slots!WaitersListed
          <5> QED
            BY <5>2
        <4> QED
          BY Zenon, <4>1, <4>2
      <3>2. CASE u # t
        <4>1. p[u] = takerPc[u]
          BY Zenon, <3>2 DEF Types
        <4>2. (\E i \in 1 .. Len(cond) : cond[i] = u) <=> \E i \in 1 .. Len(q) : q[i] = u
          <5>1. ASSUME NEW i \in 1 .. Len(cond), cond[i] = u
                PROVE  \E j \in 1 .. Len(q) : q[j] = u
            <6>1. i # 1 /\ i - 1 \in 1 .. Len(q) /\ q[i - 1] = cond[(i - 1) + 1]
              BY <1>3, <3>2, <5>1
            <6> QED
              BY SMT, Z3, <5>1, <6>1
          <5>2. ASSUME NEW i \in 1 .. Len(q), q[i] = u
                PROVE  \E j \in 1 .. Len(cond) : cond[j] = u
            <6>1. i + 1 \in 1 .. Len(cond) /\ cond[i + 1] = u
              BY SMTT(30), <1>3, <5>2
            <6> QED
              BY Zenon, <6>1
          <5> QED
            BY Zenon, <5>1, <5>2
        <4> QED
          BY Zenon, <4>1, <4>2 DEF Slots!WaitersListed
      <3> QED
        BY Zenon, <3>1, <3>2
    <2>3. \A u \in Takers : takerPc'[u] # "idle" <=> p[u] # "idle"
      <3>1. q # <<>> => p[Head(q)] # "idle" /\ Head(q) \in Takers
        BY Zenon, <1>3, <2>2, HeadIsListed
      <3> QED
        BY Zenon, <1>1, <1>3, <1>4, <3>1, SignalFrontFacts
    <2> QED
      BY Zenon, <1>1, <2>1, <2>2, <2>3 DEF Slots!WaitersListed
  <1>7. Slots!FrontIsWoken'
    BY Zenon, <1>1, <1>3, <1>4, SignalFrontFacts DEF Slots!FrontIsWoken
  <1> QED
    BY <1>5, <1>6, <1>7

LEMMA TakeStep ==
    ASSUME Slots!ThrottleAssumption, ThrottleInv, NEW t \in Takers, NEW c \in Amounts, Slots!Take(t, c)
    PROVE  ThrottleInv'
  <1> USE DEF ThrottleInv, Slots!Take
  <1>1. Types'
    BY SMTT(30) DEF Types, Slots!ThrottleAssumption
  <1>2. Slots!FrontIsWoken'
    <2> SUFFICES ASSUME cond # <<>>, ~ Slots!ShouldWait(want[Head(cond)], count + c, max)
                 PROVE  takerPc[Head(cond)] = "woken"
      BY Zenon DEF Slots!FrontIsWoken
    <2>1. want[Head(cond)] \in Nat /\ count \in Int /\ max \in Nat /\ c \in Nat
      BY Zenon, HeadIsListed DEF Types, Slots!ThrottleAssumption
    <2>2. ~ Slots!ShouldWait(want[Head(cond)], count, max)
      BY Zenon, <2>1, ShouldWaitGrows
    <2> QED
      BY Zenon, <2>2 DEF Slots!FrontIsWoken
  <1> QED
    BY SMT, Z3, <1>1, <1>2 DEF Slots!WaitersListed

LEMMA PutStep ==
    ASSUME Slots!ThrottleAssumption, ThrottleInv, NEW t \in Takers, NEW c \in Amounts, Slots!Put(t, c)
    PROVE  ThrottleInv'
  <1> USE DEF ThrottleInv, Slots!Put
  <1>1. Types'
    <2>1. takerPc' \in [Takers -> {"idle", "wait", "woken"}]
      BY Zenon, SignalFrontFacts DEF Types
    <2>2. count' \in Int
      BY DEF Types, Slots!ThrottleAssumption
    <2> QED
      BY Zenon, <2>1, <2>2 DEF Types
  <1>2. Slots!WaitersListed'
    BY Zenon, SignalKeepsListed
  <1>3. Slots!FrontIsWoken'
    BY Zenon, SignalFrontFacts DEF Types, Slots!FrontIsWoken
  <1> QED
    BY Zenon, <1>1, <1>2, <1>3

LEMMA ThrottleStep ==
    Slots!ThrottleAssumption /\ ThrottleInv /\ [Slots!Next]_(Slots!vars) => ThrottleInv'
  <1> SUFFICES ASSUME Slots!ThrottleAssumption, ThrottleInv, [Slots!Next]_(Slots!vars)
               PROVE  ThrottleInv'
    OBVIOUS
  <1>1. CASE UNCHANGED Slots!vars
    BY SMTT(30), Z3T(30), <1>1 DEF Slots!vars, ThrottleInv, Types, Slots!WaitersListed, Slots!FrontIsWoken
  <1>2. CASE Slots!Next
    BY Zenon, <1>2, ResetStep, GetAtOnceStep, GetWaitStep, WaitAgainStep, WaitDoneStep, TakeStep, PutStep
       DEF Slots!Next
  <1> QED
    BY <1>1, <1>2

LEMMA IntervalSize ==
    ASSUME NEW a \in Nat, NEW c \in Nat
    PROVE  IsFiniteSet(a + 1 .. a + c) /\ Cardinality(a + 1 .. a + c) = c
  <1> DEFINE x == a + 1
             y == a + c
  <1>1. x \in Int /\ y \in Int
    OBVIOUS
  <1>2. (IF x > y THEN 0 ELSE y - x + 1) = c
    OBVIOUS
  <1> HIDE DEF x, y
  <1>3. IsFiniteSet(x .. y) /\ Cardinality(x .. y) = IF x > y THEN 0 ELSE y - x + 1
    BY Zenon, <1>1, FS_Interval
  <1>4. IsFiniteSet(x .. y) /\ Cardinality(x .. y) = c
    BY Zenon, <1>2, <1>3
  <1> QED
    BY Zenon, <1>4 DEF x, y

LEMMA DisjointUnion ==
    ASSUME NEW S, IsFiniteSet(S), NEW T, IsFiniteSet(T), S \cap T = {}
    PROVE  /\ IsFiniteSet(S \cup T)
           /\ Cardinality(S) \in Nat
           /\ Cardinality(S \cup T) = Cardinality(S) + Cardinality(T)
  <1>1. Cardinality(S) \in Nat /\ Cardinality(T) \in Nat /\ Cardinality({}) = 0
    BY Zenon, FS_EmptySet, FS_CardinalityType
  <1>2. /\ IsFiniteSet(S \cup T)
        /\ Cardinality(S \cup T) = Cardinality(S) + Cardinality(T) - Cardinality(S \cap T)
    BY Zenon, FS_Union
  <1>3. IsFiniteSet(S \cup T) /\ Cardinality(S \cup T) = Cardinality(S) + Cardinality(T) - 0
    BY Zenon, <1>1, <1>2
  <1> QED
    BY <1>1, <1>3

\* The slots a thread takes are new ones.
LEMMA SlotsAdded ==
    ASSUME NEW h \in [Takers -> Nat], NEW t \in Takers, NEW c \in Nat,
           IsFiniteSet(Slots!SlotsHeld(h)), NEW g, g = [h EXCEPT ![t] = @ + c]
    PROVE  /\ IsFiniteSet(Slots!SlotsHeld(g))
           /\ Cardinality(Slots!SlotsHeld(h)) \in Nat
           /\ Cardinality(Slots!SlotsHeld(g)) = Cardinality(Slots!SlotsHeld(h)) + c
  <1> DEFINE I == h[t] + 1 .. h[t] + c
             N == {t} \X I
  <1>1. h[t] + 1 \in Int /\ h[t] + c \in Int /\ h[t] \in Nat
    OBVIOUS
  <1>2. IsFiniteSet(I) /\ Cardinality(I) = c
    BY Zenon, <1>1, IntervalSize
  <1>3. IsFiniteSet(N) /\ Cardinality(N) = c
    <2>1. IsFiniteSet({t}) /\ Cardinality({t}) = 1
      BY Zenon, FS_Singleton
    <2> HIDE DEF I
    <2>2. IsFiniteSet(N) /\ Cardinality(N) = Cardinality({t}) * Cardinality(I)
      BY Zenon, <1>2, <2>1, FS_Product
    <2>3. 1 * c = c
      OBVIOUS
    <2> QED
      BY Zenon, <1>2, <2>1, <2>2, <2>3
  <1>4. Slots!SlotsHeld(g) = Slots!SlotsHeld(h) \cup N
    <2>1. ASSUME NEW s PROVE s \in Slots!SlotsHeld(g) <=> s \in Slots!SlotsHeld(h) \/ s \in N
      <3>1. s \in Slots!SlotsHeld(g) <=> \E u \in Takers : s \in {u} \X (1 .. g[u])
        BY Zenon DEF Slots!SlotsHeld
      <3>2. s \in Slots!SlotsHeld(h) <=> \E u \in Takers : s \in {u} \X (1 .. h[u])
        BY Zenon DEF Slots!SlotsHeld
      <3>3. \A u \in Takers : g[u] = IF u = t THEN h[t] + c ELSE h[u]
        BY Zenon
      <3>4. 1 .. g[t] = (1 .. h[t]) \cup I
        BY <1>1, <3>3
      <3>5. \A u \in Takers \ {t} : g[u] = h[u]
        BY Zenon, <3>3
      <3>6. s \in {t} \X (1 .. g[t]) <=> s \in {t} \X (1 .. h[t]) \/ s \in N
        BY Zenon, <3>4
      <3> HIDE DEF N, I
      <3> QED
        BY Zenon, <3>1, <3>2, <3>5, <3>6
    <2> HIDE DEF N
    <2> QED
      BY Zenon, <2>1
  <1>5. Slots!SlotsHeld(h) \cap N = {}
    <2> SUFFICES ASSUME NEW s, s \in Slots!SlotsHeld(h), s \in N PROVE FALSE
      BY Zenon
    <2>1. PICK u \in Takers : s \in {u} \X (1 .. h[u])
      BY Zenon DEF Slots!SlotsHeld
    <2>2. s[1] = t /\ s[2] \in I /\ s[1] = u /\ s[2] \in 1 .. h[u]
      BY Zenon, <2>1
    <2> QED
      BY <1>1, <2>2
  <1> HIDE DEF N
  <1>6. /\ IsFiniteSet(Slots!SlotsHeld(h) \cup N)
        /\ Cardinality(Slots!SlotsHeld(h)) \in Nat
        /\ Cardinality(Slots!SlotsHeld(h) \cup N) = Cardinality(Slots!SlotsHeld(h)) + Cardinality(N)
    BY Zenon, <1>3, <1>5, DisjointUnion
  <1> QED
    BY Zenon, <1>3, <1>4, <1>6

CountInv ==
    /\ held \in [Takers -> Nat]
    /\ IsFiniteSet(Slots!SlotsHeld(held))
    /\ Slots!CountExact

LEMMA CountTaken ==
    ASSUME CountInv, NEW t \in Takers, NEW c \in Nat,
           count' = count + c, held' = [held EXCEPT ![t] = @ + c]
    PROVE  CountInv'
  <1>1. /\ IsFiniteSet(Slots!SlotsHeld(held'))
        /\ Cardinality(Slots!SlotsHeld(held')) = Cardinality(Slots!SlotsHeld(held)) + c
    BY Zenon, SlotsAdded DEF CountInv
  <1>2. Slots!SlotsHeld(held)' = Slots!SlotsHeld(held')
    BY Zenon DEF Slots!SlotsHeld
  <1> QED
    BY SMT, Z3, <1>1, <1>2, SlotsCounted DEF CountInv, Slots!CountExact

LEMMA CountReturned ==
    ASSUME CountInv, NEW t \in Takers, NEW c \in 1 .. held[t],
           count' = count - c, held' = [held EXCEPT ![t] = @ - c]
    PROVE  CountInv'
  <1>1. held' \in [Takers -> Nat]
    BY DEF CountInv
  <1>2. held = [held' EXCEPT ![t] = @ + c]
    <2>1. held \in [Takers -> Nat] /\ held'[t] = held[t] - c /\ c \in Nat
      BY DEF CountInv
    <2>2. held'[t] + c = held[t]
      BY <2>1
    <2>3. \A u \in Takers \ {t} : held'[u] = held[u]
      BY Zenon, <2>1
    <2> QED
      BY Zenon, <1>1, <2>1, <2>2, <2>3
  <1>3. Slots!SlotsHeld(held)' = Slots!SlotsHeld(held')
    BY Zenon DEF Slots!SlotsHeld
  <1>4. IsFiniteSet(Slots!SlotsHeld(held'))
    <2>1. Slots!SlotsHeld(held') \subseteq Slots!SlotsHeld(held)
      <3>1. \A u \in Takers : 1 .. held'[u] \subseteq 1 .. held[u]
        BY <1>1 DEF CountInv
      <3>2. \A u \in Takers : {u} \X (1 .. held'[u]) \subseteq {u} \X (1 .. held[u])
        BY Zenon, <3>1
      <3> QED
        BY <3>2 DEF Slots!SlotsHeld
    <2> QED
      BY Zenon, <2>1, FS_Subset DEF CountInv
  <1>5. /\ Cardinality(Slots!SlotsHeld(held')) \in Nat
        /\ Cardinality(Slots!SlotsHeld(held)) = Cardinality(Slots!SlotsHeld(held')) + c
    BY SMT, Z3, <1>1, <1>2, <1>4, SlotsAdded
  <1> QED
    BY SMT, Z3, <1>1, <1>3, <1>4, <1>5, SlotsCounted DEF CountInv, Slots!CountExact

LEMMA CountInit == Slots!Init => CountInv
  <1> SUFFICES ASSUME Slots!Init PROVE CountInv
    OBVIOUS
  <1>1. held \in [Takers -> Nat] /\ \A t \in Takers : held[t] = 0
    BY Zenon DEF Slots!Init
  <1>2. Slots!SlotsHeld(held) = {}
    BY <1>1 DEF Slots!SlotsHeld
  <1> QED
    BY Zenon, <1>1, <1>2, FS_EmptySet, SlotsCounted DEF Slots!Init, CountInv, Slots!CountExact

LEMMA CountStep ==
    Slots!ThrottleAssumption /\ ThrottleInv /\ CountInv /\ [Slots!Next]_(Slots!vars) => CountInv'
  <1> SUFFICES ASSUME Slots!ThrottleAssumption, ThrottleInv, CountInv, [Slots!Next]_(Slots!vars)
               PROVE  CountInv'
    BY Zenon
  <1>1. ASSUME UNCHANGED <<count, held>> PROVE CountInv'
    BY Zenon, <1>1 DEF CountInv, Slots!CountExact, Slots!SlotsHeld
  <1>2. ASSUME NEW t \in Takers, NEW m \in Maxima, NEW c \in Amounts \cup {0}, Slots!GetAtOnce(t, c, m)
        PROVE  CountInv'
    <2>1. c \in Nat
      BY DEF Slots!ThrottleAssumption
    <2> QED
      BY Zenon, <1>2, <2>1, CountTaken DEF Slots!GetAtOnce
  <1>3. ASSUME NEW t \in Takers, NEW c \in Amounts, Slots!Take(t, c)
        PROVE  CountInv'
    <2>1. c \in Nat
      BY Zenon DEF Slots!ThrottleAssumption
    <2> QED
      BY Zenon, <1>3, <2>1, CountTaken DEF Slots!Take
  <1>4. ASSUME NEW t \in Takers, NEW c \in Amounts, Slots!Put(t, c)
        PROVE  CountInv'
    BY Zenon, <1>4, CountReturned DEF Slots!Put
  <1>5. ASSUME NEW t \in Takers, Slots!WaitDone(t)
        PROVE  CountInv'
    <2>1. want[t] \in Nat
      BY Zenon DEF ThrottleInv, Types
    <2> QED
      BY Zenon, <1>5, <2>1, CountTaken DEF Slots!WaitDone
  <1> QED
    BY SMT, Z3, <1>1, <1>2, <1>3, <1>4, <1>5 DEF Slots!Next, Slots!vars, Slots!CallResetMax, Slots!GetWait,
       Slots!WaitAgain

LEMMA ThrottleCorrect == Slots!ThrottleAssumption /\ Slots!Spec => []ThrottleInv
  <1> SUFFICES ASSUME Slots!ThrottleAssumption PROVE Slots!Spec => []ThrottleInv
    OBVIOUS
  <1> QED
    BY ThrottleInit, ThrottleStep, PTL DEF Slots!Spec

-----------------------------------------------------------------------------
(* The theorems.                                                           *)

\* No wake-up is lost in a throttle whose maximum is never 0: whatever put(), take(), reset_max() and the waiters do, cond names
\* every waiting thread once and no other, the waiter at the front has been signalled when
\* there is room for it, and count is what the threads hold.
THEOREM NoLostWakeUp == Slots!Spec => []FrontIsWoken
  <1> USE ThrottleAssumption
  <1>1. ThrottleInv /\ CountInv => FrontIsWoken
    BY Zenon DEF ThrottleInv, CountInv, FrontIsWoken
  <1>2. Slots!Spec => []ThrottleInv
    BY ThrottleCorrect
  <1> QED
    BY <1>1, <1>2, CountInit, CountStep, PTL DEF Slots!Spec

=============================================================================
