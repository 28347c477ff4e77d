-------------------------- MODULE Requests_proofs ---------------------------
(***************************************************************************)
(* The requests that create buckets and read files, and the upkeep of what *)
(* requests leave behind, for any number of threads, users, buckets,       *)
(* shards and tags: who creates a bucket owns it, a GET sends the bytes    *)
(* that its headers announce, changes of buckets are logged, and garbage   *)
(* is released before it is forgotten.                                     *)
(***************************************************************************)
EXTENDS Requests, Upkeep, TLAPS

-----------------------------------------------------------------------------
(* The owners of buckets.                                                  *)

OwnInv == Bucketing!TypeOK /\ Bucketing!CreatedIsOwned

LEMMA StateNames ==
    /\ {"idle", "rmtest", "rm", "test", "stat", "instance", "iput", "imkdir", "iroot", "iagain",
        "eput", "emkdir", "eroot", "eagain", "created", "exists", "failed", "deleted", "absent"}
          = Bucketing!States
    /\ \A s \in Bucketing!Storing : s \in Bucketing!States
    /\ "created" \notin Bucketing!Storing /\ "idle" \notin Bucketing!Storing
  BY Zenon DEF Bucketing!States, Bucketing!Looking, Bucketing!InstanceStates, Bucketing!EntryStates,
     Bucketing!Storing, Bucketing!Replies

LEMMA RequestFields ==
    ASSUME Bucketing!TypeOK, NEW t \in Creators
    PROVE  Bucketing!Bucket(t) \in BucketNames /\ Bucketing!User(t) \in Accounts
  BY Zenon DEF Bucketing!TypeOK, Bucketing!Requests, Bucketing!Bucket, Bucketing!User

\* A step of t at its bucket b that leaves the requests as they are.
AtBucket(t, b) ==
    /\ bucketReq' = bucketReq
    /\ \A u \in Creators \ {t} : bucketPc'[u] = bucketPc[u]
    /\ \A c \in BucketNames \ {b} : owner'[c] = owner[c]
    /\ \A u \in Creators \ {t} : alone'[u] => alone[u] /\ (Bucketing!Bucket(u) # b \/ bucketPc[u] = "idle")
    /\ alone'[t] = alone[t]

LEMMA AloneKept ==
    ASSUME Bucketing!TypeOK, NEW t \in Creators, Bucketing!Touch(t)
    PROVE  /\ alone' \in [Creators -> BOOLEAN]
           /\ \A u \in Creators \ {t} :
                 alone'[u] => alone[u] /\ (Bucketing!Bucket(u) # Bucketing!Bucket(t) \/ bucketPc[u] = "idle")
           /\ alone'[t] = alone[t]
  BY Zenon DEF Bucketing!TypeOK, Bucketing!Touch

LEMMA GoFacts ==
    ASSUME Bucketing!TypeOK, NEW t \in Creators, NEW s \in Bucketing!States, Bucketing!Go(t, s)
    PROVE  /\ bucketPc' \in [Creators -> Bucketing!States] /\ bucketPc'[t] = s
           /\ \A u \in Creators \ {t} : bucketPc'[u] = bucketPc[u]
  BY Zenon DEF Bucketing!TypeOK, Bucketing!Go

\* The two writes to a directory's owner.
LEMMA OwnerSet ==
    ASSUME Bucketing!TypeOK, NEW b \in BucketNames, NEW o \in Accounts \cup {RootUser, NoOwner},
           owner' = [owner EXCEPT ![b] = o] \/ owner' = [owner EXCEPT ![b] = IF @ = NoOwner THEN @ ELSE o]
               \/ owner' = [owner EXCEPT ![b] = IF @ = NoOwner THEN o ELSE @]
    PROVE  /\ owner' \in [BucketNames -> Accounts \cup {RootUser, NoOwner}]
           /\ \A c \in BucketNames \ {b} : owner'[c] = owner[c]
  BY Zenon DEF Bucketing!TypeOK

\* What every step of a request does, whatever its outcome: it stays at its own bucket,
\* and it answers "created" only when the directory is its user's.
LEMMA StepFacts ==
    ASSUME OwnInv, NEW t \in Creators, Bucketing!Step(t), ~ Bucketing!Respond(t)
    PROVE  /\ Bucketing!TypeOK'
           /\ AtBucket(t, Bucketing!Bucket(t))
           /\ bucketPc'[t] = "created" => owner'[Bucketing!Bucket(t)] = Bucketing!User(t)
  <1> USE DEF OwnInv
  <1> DEFINE b == Bucketing!Bucket(t)
  <1>0. b \in BucketNames /\ Bucketing!User(t) \in Accounts
    BY Zenon, RequestFields
  <1>1. CASE Bucketing!PermissionLost(t)
    <2>1. Bucketing!Go(t, "failed") /\ Bucketing!Touch(t) /\ UNCHANGED <<bucketReq, told, owner>>
      BY Zenon, <1>1 DEF Bucketing!PermissionLost, Bucketing!Keep
    <2> QED
      BY Zenon, <2>1, GoFacts, AloneKept, StateNames DEF Bucketing!TypeOK, AtBucket
  <1>2. CASE Bucketing!EntryTest(t) \/ Bucketing!EntryStat(t) \/ Bucketing!InstanceTest(t) \/ Bucketing!RmTest(t)
    <2>1. /\ \E s \in Bucketing!States \ {"created"} : Bucketing!Go(t, s)
          /\ Bucketing!Touch(t) /\ UNCHANGED <<bucketReq, told, owner>>
      BY Zenon, <1>2, StateNames DEF Bucketing!EntryTest, Bucketing!EntryStat, Bucketing!InstanceTest,
         Bucketing!RmTest, Bucketing!Keep
    <2> QED
      BY Zenon, <2>1, GoFacts, AloneKept DEF Bucketing!TypeOK, AtBucket
  <1>3. CASE Bucketing!Put(t) \/ Bucketing!Again(t)
    <2>1. Bucketing!Touch(t) /\ UNCHANGED bucketReq
      BY Zenon, <1>3 DEF Bucketing!Put, Bucketing!Again
    <2>2. CASE Bucketing!CanChown(t) /\ Bucketing!Chown(t, Bucketing!User(t)) /\ Bucketing!Stored(t)
      <3>1. owner' \in [BucketNames -> Accounts \cup {RootUser, NoOwner}] /\ \A c \in BucketNames \ {b} : owner'[c] = owner[c]
        BY Zenon, <1>0, <2>2, OwnerSet DEF Bucketing!Chown
      <3>2. owner'[b] = Bucketing!User(t)
        BY Zenon, <1>0, <2>2 DEF Bucketing!Chown, Bucketing!CanChown, Bucketing!Exists, Bucketing!TypeOK
      <3>3. /\ \E s \in Bucketing!States : Bucketing!Go(t, s)
            /\ told' \in [BucketNames -> SUBSET Accounts]
        BY SMT, Z3, <1>0, <2>2, StateNames DEF Bucketing!Stored, Bucketing!TypeOK
      <3> QED
        BY Zenon, <2>1, <3>1, <3>2, <3>3, GoFacts, AloneKept DEF Bucketing!TypeOK, AtBucket
    <2>3. CASE ~Bucketing!CanChown(t) /\ (\E s \in Bucketing!States \ {"created"} : Bucketing!Go(t, s)) /\ UNCHANGED <<owner, told>>
      BY Zenon, <2>1, <2>3, GoFacts, AloneKept DEF Bucketing!TypeOK, AtBucket
    <2> QED
      BY Zenon, <1>3, <2>2, <2>3, StateNames DEF Bucketing!Put, Bucketing!Again
  <1>4. CASE Bucketing!MkDir(t)
    <2>1. /\ \E s \in Bucketing!States \ {"created"} : Bucketing!Go(t, s)
          /\ Bucketing!Touch(t) /\ UNCHANGED bucketReq
      BY Zenon, <1>4, StateNames DEF Bucketing!MkDir
    <2>2. owner' \in [BucketNames -> Accounts \cup {RootUser, NoOwner}] /\ \A c \in BucketNames \ {b} : owner'[c] = owner[c]
      BY Zenon, <1>0, <1>4, OwnerSet DEF Bucketing!MkDir
    <2>3. told' \in [BucketNames -> SUBSET Accounts]
      BY Zenon, <1>0, <1>4 DEF Bucketing!MkDir, Bucketing!TypeOK
    <2> QED
      BY Zenon, <2>1, <2>2, <2>3, GoFacts, AloneKept DEF Bucketing!TypeOK, AtBucket
  <1>5. CASE Bucketing!ChownRoot(t)
    <2>1. /\ \E s \in Bucketing!States \ {"created"} : Bucketing!Go(t, s)
          /\ Bucketing!Touch(t) /\ UNCHANGED <<bucketReq, told>>
      BY Zenon, <1>5, StateNames DEF Bucketing!ChownRoot, Bucketing!Keep
    <2>2. owner' \in [BucketNames -> Accounts \cup {RootUser, NoOwner}] /\ \A c \in BucketNames \ {b} : owner'[c] = owner[c]
      BY Zenon, <1>0, <1>5, OwnerSet DEF Bucketing!ChownRoot, Bucketing!Chown
    <2> QED
      BY Zenon, <2>1, <2>2, GoFacts, AloneKept DEF Bucketing!TypeOK, AtBucket
  <1>6. CASE Bucketing!Rm(t)
    <2>1. /\ \E s \in Bucketing!States \ {"created"} : Bucketing!Go(t, s)
          /\ Bucketing!Touch(t) /\ UNCHANGED <<bucketReq, told>>
      BY Zenon, <1>6, StateNames DEF Bucketing!Rm, Bucketing!Keep
    <2>2. owner' \in [BucketNames -> Accounts \cup {RootUser, NoOwner}] /\ \A c \in BucketNames \ {b} : owner'[c] = owner[c]
      BY Zenon, <1>0, <1>6, OwnerSet DEF Bucketing!Rm, Bucketing!TypeOK
    <2> QED
      BY Zenon, <2>1, <2>2, GoFacts, AloneKept DEF Bucketing!TypeOK, AtBucket
  <1> QED
    BY Zenon, <1>1, <1>2, <1>3, <1>4, <1>5, <1>6 DEF Bucketing!Step

LEMMA BeginFacts ==
    ASSUME Bucketing!TypeOK, NEW t \in Creators, NEW b \in BucketNames, NEW u \in Accounts,
           Bucketing!CreateBucket(t, b, u) \/ Bucketing!DeleteBucket(t, b, u)
    PROVE  /\ Bucketing!TypeOK' /\ bucketPc[t] = "idle" /\ bucketPc'[t] \in {"test", "rmtest"}
           /\ \A v \in Creators \ {t} : bucketPc'[v] = bucketPc[v] /\ bucketReq'[v] = bucketReq[v] /\ alone'[v] = alone[v]
           /\ UNCHANGED owner
  <1>1. PICK s \in {"test", "rmtest"} : Bucketing!Begin(t, b, u, s)
    BY Zenon DEF Bucketing!CreateBucket, Bucketing!DeleteBucket
  <1>2. [bucket |-> b, user |-> u] \in Bucketing!Requests
    BY Zenon DEF Bucketing!Requests
  <1> QED
    BY SMT, Z3, <1>1, <1>2, GoFacts, StateNames DEF Bucketing!Begin, Bucketing!TypeOK

LEMMA RespondFacts ==
    ASSUME Bucketing!TypeOK, NEW t \in Creators, Bucketing!Respond(t)
    PROVE  /\ Bucketing!TypeOK' /\ bucketPc'[t] = "idle"
           /\ \A v \in Creators \ {t} : bucketPc'[v] = bucketPc[v] /\ alone'[v] = alone[v]
           /\ UNCHANGED <<owner, bucketReq>>
  BY Zenon, GoFacts, StateNames DEF Bucketing!Respond, Bucketing!TypeOK

LEMMA OwnInit == Bucketing!Init => OwnInv
  BY Zenon, StateNames DEF Bucketing!Init, OwnInv, Bucketing!TypeOK, Bucketing!CreatedIsOwned

LEMMA OwnStep == OwnInv /\ [Bucketing!Next]_(Bucketing!vars) => OwnInv'
  <1> SUFFICES ASSUME OwnInv, [Bucketing!Next]_(Bucketing!vars)
               PROVE  OwnInv'
    BY Zenon
  <1> USE DEF OwnInv
  <1>1. ASSUME NEW t \in Creators, Bucketing!Step(t), ~ Bucketing!Respond(t)
        PROVE  OwnInv'
    <2>1. /\ Bucketing!TypeOK' /\ AtBucket(t, Bucketing!Bucket(t))
          /\ bucketPc'[t] = "created" => owner'[Bucketing!Bucket(t)] = Bucketing!User(t)
      BY Zenon, <1>1, StepFacts
    <2>2. ASSUME NEW u \in Creators, bucketPc'[u] = "created", alone'[u]
          PROVE  owner'[Bucketing!Bucket(u)] = Bucketing!User(u)
      <3>1. CASE u = t
        BY Zenon, <2>1, <2>2, <3>1
      <3>2. CASE u # t
        <4>1. bucketPc[u] = "created" /\ alone[u] /\ Bucketing!Bucket(u) # Bucketing!Bucket(t)
          BY Zenon, <2>1, <2>2, <3>2 DEF AtBucket
        <4>2. Bucketing!Bucket(u) \in BucketNames
          BY Zenon, RequestFields
        <4> QED
          BY Zenon, <2>1, <4>1, <4>2 DEF AtBucket, Bucketing!CreatedIsOwned
      <3> QED
        BY Zenon, <3>1, <3>2
    <2> QED
      BY Zenon, <2>1, <2>2 DEF AtBucket, Bucketing!CreatedIsOwned, Bucketing!Bucket, Bucketing!User
  <1>2. ASSUME NEW t \in Creators, Bucketing!Respond(t)
        PROVE  OwnInv'
    BY Zenon, <1>2, RespondFacts DEF Bucketing!CreatedIsOwned, Bucketing!Bucket, Bucketing!User
  <1>3. ASSUME NEW t \in Creators, NEW b \in BucketNames, NEW u \in Accounts,
               Bucketing!CreateBucket(t, b, u) \/ Bucketing!DeleteBucket(t, b, u)
        PROVE  OwnInv'
    BY Zenon, <1>3, BeginFacts DEF Bucketing!CreatedIsOwned, Bucketing!Bucket, Bucketing!User
  <1>4. CASE Bucketing!Restart
    BY Zenon, <1>4, StateNames DEF Bucketing!Restart, Bucketing!TypeOK, Bucketing!CreatedIsOwned
  <1>5. CASE UNCHANGED Bucketing!vars
    BY Zenon, <1>5 DEF Bucketing!vars, Bucketing!TypeOK, Bucketing!CreatedIsOwned, Bucketing!Bucket,
       Bucketing!User
  <1> QED
    BY Zenon, <1>1, <1>2, <1>3, <1>4, <1>5 DEF Bucketing!Next

\* A request at an existing bucket that no creation for a user with a name is storing
\* does not begin to store for such a user, and leaves the owner, removes the bucket or
\* gives it to root.
LEMMA SettledStep ==
    ASSUME OwnInv, NEW t \in Creators, Bucketing!Step(t), ~ Bucketing!Respond(t), Bucketing!Settled(Bucketing!Bucket(t))
    PROVE  /\ bucketPc'[t] \in Bucketing!Storing => Bucketing!User(t) = Anonymous
           /\ \/ owner'[Bucketing!Bucket(t)] \in {owner[Bucketing!Bucket(t)], NoOwner}
              \/ owner'[Bucketing!Bucket(t)] = RootUser /\ bucketPc[t] \in Bucketing!Storing
  <1> USE DEF OwnInv
  <1>1. /\ bucketPc[t] \in Bucketing!Storing => Bucketing!User(t) = Anonymous
        /\ Bucketing!Exists(Bucketing!Bucket(t))
    BY Zenon DEF Bucketing!Settled, Bucketing!Creating
  <1>2. Bucketing!Bucket(t) \in BucketNames
    BY Zenon, RequestFields
  <1>3. CASE Bucketing!PermissionLost(t) \/ Bucketing!EntryTest(t) \/ Bucketing!EntryStat(t) \/ Bucketing!RmTest(t)
    <2>1. UNCHANGED owner /\ \E s \in {"failed", "stat", "instance", "rm", "absent"} : Bucketing!Go(t, s)
      BY Zenon, <1>1, <1>3 DEF Bucketing!PermissionLost, Bucketing!EntryTest, Bucketing!EntryStat,
         Bucketing!RmTest
    <2> QED
      BY Zenon, <2>1, GoFacts, StateNames DEF Bucketing!Storing, Bucketing!InstanceStates,
         Bucketing!EntryStates
  <1>4. CASE Bucketing!InstanceTest(t)
    <2>1. /\ UNCHANGED owner
          /\ Bucketing!User(t) # Anonymous => Bucketing!Go(t, "exists")
      BY Zenon, <1>1, <1>4 DEF Bucketing!InstanceTest
    <2> QED
      BY Zenon, <2>1, GoFacts, StateNames DEF Bucketing!Storing, Bucketing!InstanceStates,
         Bucketing!EntryStates
  <1>5. CASE Bucketing!Put(t) \/ Bucketing!MkDir(t) \/ Bucketing!ChownRoot(t) \/ Bucketing!Again(t)
    <2>1. bucketPc[t] \in Bucketing!Storing
      BY Zenon, <1>5 DEF Bucketing!Put, Bucketing!MkDir, Bucketing!ChownRoot, Bucketing!Again,
         Bucketing!Storing, Bucketing!InstanceStates, Bucketing!EntryStates
    <2>2. Bucketing!User(t) = Anonymous /\ ~Bucketing!CanChown(t)
      BY Zenon, <1>1, <2>1, BucketOpsAssumption DEF Bucketing!CanChown, Bucketing!BucketOpsAssumption
    <2>3. owner'[Bucketing!Bucket(t)] \in {owner[Bucketing!Bucket(t)], RootUser}
      BY Zenon, <1>1, <1>2, <1>5, <2>2 DEF Bucketing!Put, Bucketing!MkDir, Bucketing!ChownRoot,
         Bucketing!Again, Bucketing!Chown, Bucketing!Exists, Bucketing!TypeOK
    <2> QED
      BY Zenon, <2>1, <2>2, <2>3
  <1>6. CASE Bucketing!Rm(t)
    <2>1. \E s \in {"deleted", "failed"} : Bucketing!Go(t, s)
      BY Zenon, <1>6 DEF Bucketing!Rm
    <2>2. owner'[Bucketing!Bucket(t)] \in {owner[Bucketing!Bucket(t)], NoOwner}
      BY Zenon, <1>2, <1>6 DEF Bucketing!Rm, Bucketing!TypeOK
    <2> QED
      BY Zenon, <2>1, <2>2, GoFacts, StateNames DEF Bucketing!Storing, Bucketing!InstanceStates,
         Bucketing!EntryStates
  <1> QED
    BY Zenon, <1>3, <1>4, <1>5, <1>6 DEF Bucketing!Step

LEMMA KeptStep ==
    ASSUME OwnInv, [Bucketing!Next]_(Bucketing!vars), NEW b \in BucketNames, Bucketing!Settled(b)
    PROVE  \/ owner'[b] = NoOwner
           \/ Bucketing!Settled(b)' /\ owner'[b] = owner[b]
           \/ Bucketing!Settled(b)' /\ owner'[b] = RootUser /\ Bucketing!CreatingUnnamed(b)
  <1> USE DEF OwnInv
  <1>0. /\ Bucketing!Exists(b)
        /\ \A u \in Creators : bucketPc[u] \in Bucketing!Storing /\ Bucketing!User(u) # Anonymous
                                  => Bucketing!Bucket(u) # b
    BY Zenon DEF Bucketing!Settled, Bucketing!Creating
  <1>1. ASSUME NEW t \in Creators, Bucketing!Step(t), ~ Bucketing!Respond(t)
        PROVE  \/ owner'[b] = NoOwner
               \/ Bucketing!Settled(b)' /\ owner'[b] = owner[b]
               \/ Bucketing!Settled(b)' /\ owner'[b] = RootUser /\ Bucketing!CreatingUnnamed(b)
    <2>1. AtBucket(t, Bucketing!Bucket(t))
      BY Zenon, <1>1, StepFacts
    <2>2. \/ owner'[b] \in {owner[b], NoOwner}
          \/ owner'[b] = RootUser /\ Bucketing!CreatingUnnamed(b)
      <3>1. CASE Bucketing!Bucket(t) = b
        BY Zenon, <1>0, <1>1, <3>1, SettledStep DEF Bucketing!CreatingUnnamed
      <3>2. CASE Bucketing!Bucket(t) # b
        BY Zenon, <2>1, <3>2 DEF AtBucket
      <3> QED
        BY Zenon, <3>1, <3>2
    <2>3. \A u \in Creators : bucketPc'[u] \in Bucketing!Storing /\ bucketReq'[u].user # Anonymous
                                  => bucketReq'[u].bucket # b
      <3> SUFFICES ASSUME NEW u \in Creators, bucketPc'[u] \in Bucketing!Storing,
                          bucketReq[u].user # Anonymous, bucketReq[u].bucket = b
                   PROVE  FALSE
        BY Zenon, <2>1 DEF AtBucket
      <3>1. CASE u = t
        BY Zenon, <1>1, <3>1, SettledStep DEF Bucketing!Bucket, Bucketing!User
      <3>2. CASE u # t
        BY Zenon, <1>0, <2>1, <3>2 DEF AtBucket, Bucketing!Bucket, Bucketing!User
      <3> QED
        BY Zenon, <3>1, <3>2
    <2>4. RootUser # NoOwner
      BY Zenon, BucketOpsAssumption DEF Bucketing!BucketOpsAssumption
    <2> QED
      BY Zenon, <1>0, <2>2, <2>3, <2>4 DEF Bucketing!Settled, Bucketing!Creating, Bucketing!Exists,
         Bucketing!Bucket, Bucketing!User
  <1>2. ASSUME NEW t \in Creators, Bucketing!Respond(t)
        PROVE  owner'[b] = owner[b] /\ Bucketing!Settled(b)'
    BY Zenon, <1>0, <1>2, RespondFacts, StateNames DEF Bucketing!Settled, Bucketing!Creating,
       Bucketing!Exists, Bucketing!Bucket, Bucketing!User
  <1>3. ASSUME NEW t \in Creators, NEW c \in BucketNames, NEW u \in Accounts,
               Bucketing!CreateBucket(t, c, u) \/ Bucketing!DeleteBucket(t, c, u)
        PROVE  owner'[b] = owner[b] /\ Bucketing!Settled(b)'
    <2>1. bucketPc'[t] \notin Bucketing!Storing
      BY Zenon, <1>3, BeginFacts DEF Bucketing!Storing, Bucketing!InstanceStates, Bucketing!EntryStates
    <2> QED
      BY Zenon, <1>0, <1>3, <2>1, BeginFacts DEF Bucketing!Settled, Bucketing!Creating, Bucketing!Exists,
         Bucketing!Bucket, Bucketing!User
  <1>4. CASE Bucketing!Restart
    BY Zenon, <1>0, <1>4, StateNames DEF Bucketing!Restart, Bucketing!Settled, Bucketing!Creating,
       Bucketing!Exists, Bucketing!Bucket, Bucketing!User
  <1>5. CASE UNCHANGED Bucketing!vars
    BY Zenon, <1>0, <1>5 DEF Bucketing!vars, Bucketing!Settled, Bucketing!Creating, Bucketing!Exists,
       Bucketing!Bucket, Bucketing!User
  <1> QED
    BY Zenon, <1>1, <1>2, <1>3, <1>4, <1>5 DEF Bucketing!Next

LEMMA OwnCorrect == Bucketing!Spec => []OwnInv
  BY OwnInit, OwnStep, PTL DEF Bucketing!Spec

-----------------------------------------------------------------------------
(* The theorems.                                                           *)

\* A creation that had its bucket to itself and answers success leaves the directory
\* with its user as the owner, through every path of create_bucket().
THEOREM CreatorOwns == Bucketing!Spec => []CreatedIsOwned
  <1>1. OwnInv => CreatedIsOwned
    BY Zenon DEF OwnInv, CreatedIsOwned
  <1> QED
    BY OwnCorrect, <1>1, PTL

\* A bucket that exists and that no creation for a user with a name is storing never
\* passes to another user until it is deleted: RGWCreateBucket::execute() stops at every
\* later request for the name, except that of an anonymous client, which may leave the
\* bucket to root.
THEOREM OwnersStay == Bucketing!Spec => OwnerIsKept
  <1>1. OwnInv /\ [Bucketing!Next]_(Bucketing!vars) =>
            [\A b \in BucketNames :
                Bucketing!Settled(b) =>
                    \/ owner'[b] = NoOwner
                    \/ Bucketing!Settled(b)' /\ owner'[b] = owner[b]
                    \/ Bucketing!Settled(b)' /\ owner'[b] = RootUser
                          /\ Bucketing!CreatingUnnamed(b)]_(Bucketing!vars)
    BY Zenon, KeptStep
  <1> QED
    BY OwnCorrect, <1>1, PTL DEF Bucketing!Spec, OwnerIsKept, Bucketing!OwnerIsKept

-----------------------------------------------------------------------------
(* The reads of files.                                                     *)

LEMMA ReadFacts == MaxSize \in Nat /\ ChunkSize \in Nat
  BY Zenon, ReadAssumption DEF Reads!ReadAssumption

\* A chunk, and the body with the chunk appended.
LEMMA ChunkIsASequence ==
    ASSUME NEW n \in Nat, NEW p \in Int
    PROVE  LET c == [i \in 1 .. n |-> p + i - 1] IN c \in Seq(Int) /\ Len(c) = n
  <1> DEFINE c == [i \in 1 .. n |-> p + i - 1]
  <1>1. \A i \in 1 .. n : p + i - 1 \in Int
    OBVIOUS
  <1>2. c \in [1 .. n -> Int]
    BY Zenon, <1>1
  <1>3. c \in Seq(Int)
    BY <1>2
  <1>4. Len(c) = n
    BY <1>2, <1>3
  <1> QED
    BY Zenon, <1>3, <1>4

LEMMA BodyGrows ==
    ASSUME NEW s \in Seq(Int), NEW o \in Int, NEW n \in Nat,
           \A i \in DOMAIN s : s[i] = o + i - 1
    PROVE  LET b == s \o [i \in 1 .. n |-> o + Len(s) + i - 1]
           IN  /\ b \in Seq(Int) /\ Len(b) = Len(s) + n
               /\ \A i \in DOMAIN b : b[i] = o + i - 1
  <1> DEFINE c == [i \in 1 .. n |-> o + Len(s) + i - 1]
             b == s \o c
  <1>1. o + Len(s) \in Int /\ Len(s) \in Nat
    OBVIOUS
  <1>2. c \in Seq(Int) /\ Len(c) = n /\ \A i \in 1 .. n : c[i] = o + Len(s) + i - 1
    BY Zenon, <1>1, ChunkIsASequence
  <1> HIDE DEF c
  <1>3. b \in Seq(Int) /\ Len(b) = Len(s) + n /\ DOMAIN b = 1 .. Len(s) + n
    BY SMT, Z3, <1>2
  <1>4. ASSUME NEW i \in DOMAIN b PROVE b[i] = o + i - 1
    <2>1. i \in 1 .. Len(s) + n
      BY Zenon, <1>3
    <2>2. CASE i <= Len(s)
      BY SMT, Z3, <1>1, <1>2, <2>1, <2>2
    <2>3. CASE i > Len(s)
      <3>1. b[i] = c[i - Len(s)] /\ i - Len(s) \in 1 .. n
        BY SMT, Z3, <1>1, <1>2, <2>1, <2>3
      <3> QED
        BY SMT, Z3, <1>1, <1>2, <2>1, <3>1
    <2> QED
      BY SMT, Z3, <1>1, <2>1, <2>2, <2>3
  <1> QED
    BY Zenon, <1>3, <1>4 DEF c

ReadStates == {"idle", "stat", "open", "body", "lost"} \cup Reads!Answered

ReadTypes ==
    /\ readFile \in Int /\ readFile >= Reads!NoFile
    /\ readPc \in [Getters -> ReadStates]
    /\ readOfs \in [Getters -> Int] /\ end \in [Getters -> Int]
    /\ readSize \in [Getters -> Nat] /\ left \in [Getters -> Int] /\ cur \in [Getters -> Nat]
    /\ sent \in [Getters -> Seq(Int)] /\ calm \in [Getters -> BOOLEAN]

\* The body so far is the bytes from the place asked for to the place of the next chunk.
BodyIsRun ==
    \A r \in Getters :
        /\ Len(sent[r]) = cur[r]
        /\ \A i \in DOMAIN sent[r] : sent[r][i] = readOfs[r] + i - 1

\* Nothing is sent before the file is open.
NotYet ==
    \A r \in Getters :
        readPc[r] \in {"idle", "badrange", "stat", "open", "notfound", "lost"} => cur[r] = 0

\* What is left and what is sent are the length together, up to the last chunk, which
\* takes left to 0 or below.
Remaining ==
    \A r \in Getters :
        readPc[r] \in {"open", "notfound", "body", "short", "done"} /\ ~Reads!Ranged(r) =>
                IF left[r] > 0 THEN cur[r] + left[r] = readSize[r] ELSE cur[r] = readSize[r]

\* The size is that of the file until another request changes it.
SizeIsFresh ==
    \A r \in Getters :
        /\ calm[r] /\ readPc[r] \in {"open", "notfound"} => readFile = Reads!NoFile \/ readSize[r] = readFile
        /\ calm[r] /\ readPc[r] \in {"body", "short", "done"} => readSize[r] = readFile

AllSent == \A r \in Getters : readPc[r] = "done" => left[r] <= 0

ReadInv == ReadTypes /\ BodyIsRun /\ NotYet /\ Remaining /\ SizeIsFresh /\ AllSent

LEMMA ReadInit == Reads!Init => ReadInv
  <1> SUFFICES ASSUME Reads!Init PROVE ReadInv
    BY Zenon
  <1>1. ReadTypes
    BY SMTT(30), Z3T(30), ReadFacts DEF Reads!Init, ReadTypes, ReadStates, Reads!NoFile
  <1>2. BodyIsRun /\ NotYet /\ Remaining /\ SizeIsFresh /\ AllSent
    BY SMT, Z3, Z3 DEF Reads!Init, BodyIsRun, NotYet, Remaining, SizeIsFresh, AllSent
  <1> QED
    BY Zenon, <1>1, <1>2 DEF ReadInv

LEMMA GetStep == ReadInv /\ [Reads!Next]_(Reads!vars) => ReadInv'
  <1> SUFFICES ASSUME ReadInv, [Reads!Next]_(Reads!vars) PROVE ReadInv'
    BY Zenon
  <1>h. ReadTypes /\ BodyIsRun /\ NotYet /\ Remaining /\ SizeIsFresh /\ AllSent
    BY Zenon DEF ReadInv
  <1>t. /\ readFile \in Int /\ readFile >= -1 /\ readPc \in [Getters -> ReadStates]
        /\ readOfs \in [Getters -> Int] /\ end \in [Getters -> Int]
        /\ readSize \in [Getters -> Nat] /\ left \in [Getters -> Int] /\ cur \in [Getters -> Nat]
        /\ sent \in [Getters -> Seq(Int)] /\ calm \in [Getters -> BOOLEAN]
    BY Zenon, <1>h DEF ReadTypes, Reads!NoFile
  <1>1. ASSUME NEW r \in Getters, Reads!GetObj(r) PROVE ReadInv'
    <2>1. PICK h \in Reads!Headers :
              /\ readOfs' = [readOfs EXCEPT ![r] = Reads!ParsedOfs(h)] /\ end' = [end EXCEPT ![r] = Reads!ParsedEnd(h)]
              /\ readPc' = [readPc EXCEPT ![r] = IF Reads!ParseFails(h) THEN "badrange" ELSE "stat"]
      BY Zenon, <1>1 DEF Reads!GetObj, Reads!Go
    <2>2. readPc[r] = "idle" /\ calm' = [calm EXCEPT ![r] = TRUE] /\ UNCHANGED <<readFile, readSize, left, cur, sent>>
      BY Zenon, <1>1 DEF Reads!GetObj
    <2>3. Reads!ParsedOfs(h) \in Int /\ Reads!ParsedEnd(h) \in Int
      BY SMT, Z3, ReadFacts DEF Reads!Headers, Reads!ParsedOfs, Reads!ParsedEnd, Reads!NotGiven
    <2>4. ReadTypes'
      BY Zenon, <1>h, <2>1, <2>2, <2>3 DEF ReadTypes, ReadStates, Reads!Answered
    <2>5. /\ readPc'[r] \in {"badrange", "stat"}
          /\ \A q \in Getters \ {r} : readPc'[q] = readPc[q] /\ readOfs'[q] = readOfs[q] /\ end'[q] = end[q] /\ calm'[q] = calm[q]
      BY Zenon, <1>t, <2>1, <2>2
    <2>6. BodyIsRun' /\ NotYet'
      <3>1. Len(sent[r]) = 0 /\ DOMAIN sent[r] = {}
        BY SMT, Z3, <1>h, <1>t, <2>2 DEF BodyIsRun, NotYet
      <3>2. ASSUME NEW q \in Getters \ {r}
            PROVE  /\ Len(sent'[q]) = cur'[q]
                   /\ \A i \in DOMAIN sent'[q] : sent'[q][i] = readOfs'[q] + i - 1
        BY Zenon, <1>h, <2>2, <2>5 DEF BodyIsRun
      <3>3. /\ Len(sent'[r]) = cur'[r]
            /\ \A i \in DOMAIN sent'[r] : sent'[r][i] = readOfs'[r] + i - 1
        BY Zenon, <1>h, <2>2, <3>1 DEF BodyIsRun
      <3>4. BodyIsRun'
        BY Zenon, <3>2, <3>3 DEF BodyIsRun
      <3>5. NotYet'
        BY Zenon, <1>h, <2>2, <2>5 DEF NotYet
      <3> QED
        BY Zenon, <3>4, <3>5
    <2>7. Remaining' /\ SizeIsFresh' /\ AllSent'
      BY Zenon, <1>h, <2>2, <2>5 DEF Remaining, SizeIsFresh, AllSent, Reads!Ranged
    <2> QED
      BY Zenon, <2>4, <2>6, <2>7 DEF ReadInv
  <1>2. ASSUME NEW r \in Getters, Reads!Stat(r) PROVE ReadInv'
    <2>1. PICK n \in (IF readFile = Reads!NoFile THEN 0 .. MaxSize ELSE {readFile}) :
              /\ readSize' = [readSize EXCEPT ![r] = n]
              /\ left' = [left EXCEPT ![r] = IF Reads!Ranged(r) THEN end[r] - readOfs[r] ELSE n]
      BY Zenon, <1>2 DEF Reads!Stat
    <2>2. /\ readPc[r] = "stat" /\ readPc' = [readPc EXCEPT ![r] = "open"] /\ cur' = [cur EXCEPT ![r] = 0]
          /\ UNCHANGED <<readFile, readOfs, end, sent, calm>>
      BY Zenon, <1>2 DEF Reads!Stat, Reads!Go, Reads!readVars
    <2>3. n \in Nat /\ (readFile = Reads!NoFile \/ n = readFile)
      BY SMTT(30), Z3T(30), <1>t, <2>1, ReadFacts DEF Reads!NoFile
    <2>4. /\ readSize' \in [Getters -> Nat] /\ readSize'[r] = n /\ left' \in [Getters -> Int]
          /\ (~Reads!Ranged(r) => left'[r] = n)
          /\ \A q \in Getters \ {r} : readSize'[q] = readSize[q] /\ left'[q] = left[q]
      BY SMTT(30), Z3T(30), <1>t, <2>1, <2>3
    <2>5. cur' = cur /\ cur[r] = 0
      BY Zenon, <1>h, <1>t, <2>2 DEF NotYet
    <2>6. readPc'[r] = "open" /\ \A q \in Getters \ {r} : readPc'[q] = readPc[q]
      BY Zenon, <1>t, <2>2
    <2>7. ReadTypes'
      BY Zenon, <1>h, <2>2, <2>4, <2>5 DEF ReadTypes, ReadStates
    <2>8. BodyIsRun' /\ NotYet'
      BY Zenon, <1>h, <2>2, <2>5, <2>6 DEF BodyIsRun, NotYet
    <2>9. Remaining'
      BY SMT, Z3, <1>h, <2>2, <2>3, <2>4, <2>5, <2>6 DEF Remaining, Reads!Ranged
    <2>10. SizeIsFresh' /\ AllSent'
      BY Zenon, <1>h, <2>2, <2>3, <2>4, <2>6 DEF SizeIsFresh, AllSent
    <2> QED
      BY Zenon, <2>7, <2>8, <2>9, <2>10 DEF ReadInv
  <1>3. ASSUME NEW r \in Getters, Reads!Open(r) PROVE ReadInv'
    <2>1. /\ readPc[r] = "open" /\ UNCHANGED <<readFile, readOfs, end, readSize, left, cur, sent, calm>>
          /\ \/ readPc' = [readPc EXCEPT ![r] = "body"] /\ readFile # Reads!NoFile
             \/ \E s \in {"notfound", "lost"} : readPc' = [readPc EXCEPT ![r] = s]
      BY Zenon, <1>3 DEF Reads!Open, Reads!Go, Reads!Opens
    <2>2. /\ readPc' \in [Getters -> ReadStates]
          /\ readPc'[r] \in {"notfound", "lost"} \/ (readPc'[r] = "body" /\ readFile # Reads!NoFile)
          /\ \A q \in Getters \ {r} : readPc'[q] = readPc[q]
      BY Zenon, <1>t, <2>1 DEF ReadStates, Reads!Answered
    <2>3. ReadTypes'
      BY Zenon, <1>h, <2>1, <2>2 DEF ReadTypes
    <2>4. BodyIsRun' /\ NotYet'
      BY Zenon, <1>h, <2>1, <2>2 DEF BodyIsRun, NotYet
    <2>5. Remaining'
      BY Zenon, <1>h, <2>1, <2>2 DEF Remaining, Reads!Ranged
    <2>6. SizeIsFresh' /\ AllSent'
      BY Zenon, <1>h, <2>1, <2>2 DEF SizeIsFresh, AllSent
    <2> QED
      BY Zenon, <2>3, <2>4, <2>5, <2>6 DEF ReadInv
  <1>4. ASSUME NEW r \in Getters, Reads!SendChunk(r) PROVE ReadInv'
    <2> DEFINE len == Reads!ChunkLen(r)
    <2>1. readPc[r] = "body" /\ left[r] > 0 /\ UNCHANGED <<readFile, readOfs, end, readSize, calm>>
      BY Zenon, <1>4 DEF Reads!SendChunk, Reads!readVars
    <2>2. CASE readPc' = [readPc EXCEPT ![r] = "short"] /\ UNCHANGED <<sent, left, cur>>
      <3>1. readPc' \in [Getters -> ReadStates] /\ readPc'[r] = "short" /\ \A q \in Getters \ {r} : readPc'[q] = readPc[q]
        BY Zenon, <1>t, <2>2 DEF ReadStates, Reads!Answered
      <3>2. ReadTypes'
        BY Zenon, <1>h, <2>1, <2>2, <3>1 DEF ReadTypes
      <3>3. BodyIsRun' /\ NotYet'
        BY Zenon, <1>h, <2>1, <2>2, <3>1 DEF BodyIsRun, NotYet
      <3>4. Remaining'
        BY Zenon, <1>h, <2>1, <2>2, <3>1 DEF Remaining, Reads!Ranged
      <3>5. SizeIsFresh' /\ AllSent'
        BY Zenon, <1>h, <2>1, <2>2, <3>1 DEF SizeIsFresh, AllSent
      <3> QED
        BY Zenon, <3>2, <3>3, <3>4, <3>5 DEF ReadInv
    <2>3. CASE /\ sent' = [sent EXCEPT ![r] = @ \o [i \in 1 .. len |-> Reads!Place(r) + i - 1]]
               /\ left' = [left EXCEPT ![r] = Reads!NextLeft(r)]
               /\ cur' = [cur EXCEPT ![r] = Reads!NextPlace(r, len)]
               /\ UNCHANGED readPc
      <3>1. /\ left[r] \in Int /\ cur[r] \in Nat /\ readOfs[r] \in Int /\ sent[r] \in Seq(Int)
            /\ ChunkSize \in Nat /\ len \in Nat
            /\ len = IF ChunkSize > left[r] THEN left[r] ELSE ChunkSize
        BY SMTT(30), Z3T(30), <1>t, <2>1, ReadFacts DEF Reads!ChunkLen
      <3>2. Reads!Place(r) = readOfs[r] + Len(sent[r]) /\ Len(sent[r]) = cur[r]
        BY SMTT(30), Z3T(30), <1>h, <3>1 DEF Reads!Place, Reads!Ranged, BodyIsRun
      <3> HIDE DEF len
      <3> DEFINE b == sent[r] \o [i \in 1 .. len |-> readOfs[r] + Len(sent[r]) + i - 1]
      <3>3. b \in Seq(Int) /\ Len(b) = Len(sent[r]) + len /\ \A i \in DOMAIN b : b[i] = readOfs[r] + i - 1
        BY Zenon, <1>h, <3>1, BodyGrows DEF BodyIsRun
      <3>4. sent' = [sent EXCEPT ![r] = b]
        BY Zenon, <2>3, <3>2
      <3> HIDE DEF b
      <3>5. /\ sent' \in [Getters -> Seq(Int)] /\ sent'[r] = b
            /\ \A q \in Getters \ {r} : sent'[q] = sent[q]
        BY Zenon, <1>t, <3>3, <3>4
      <3>6. /\ left' \in [Getters -> Int] /\ left'[r] = left[r] - ChunkSize
            /\ cur' \in [Getters -> Nat] /\ cur'[r] = cur[r] + len
            /\ \A q \in Getters \ {r} : left'[q] = left[q] /\ cur'[q] = cur[q]
        <4>1. /\ left' = [left EXCEPT ![r] = left[r] - ChunkSize]
              /\ cur' = [cur EXCEPT ![r] = cur[r] + len]
          BY Zenon, <2>3 DEF Reads!NextLeft, Reads!NextPlace
        <4>2. left[r] - ChunkSize \in Int /\ cur[r] + len \in Nat
          BY SMTT(30), Z3T(30), <3>1
        <4> QED
          BY Zenon, <1>t, <4>1, <4>2
      <3>7. ReadTypes'
        BY Zenon, <1>h, <2>1, <2>3, <3>5, <3>6 DEF ReadTypes
      <3>8. BodyIsRun'
        <4> SUFFICES ASSUME NEW q \in Getters
                     PROVE  /\ Len(sent'[q]) = cur'[q]
                            /\ \A i \in DOMAIN sent'[q] : sent'[q][i] = readOfs[q] + i - 1
          BY Zenon, <2>1 DEF BodyIsRun
        <4>1. CASE q = r
          BY Zenon, <3>2, <3>3, <3>5, <3>6, <4>1
        <4>2. CASE q # r
          BY Zenon, <1>h, <3>5, <3>6, <4>2 DEF BodyIsRun
        <4> QED
          BY Zenon, <4>1, <4>2
      <3>9. NotYet'
        BY Zenon, <1>h, <2>1, <2>3, <3>6 DEF NotYet
      <3>10. Remaining'
        <4> SUFFICES ASSUME NEW q \in Getters,
                            readPc[q] \in {"open", "notfound", "body", "short", "done"}, ~Reads!Ranged(q)
                     PROVE  IF left'[q] > 0 THEN cur'[q] + left'[q] = readSize[q] ELSE cur'[q] = readSize[q]
          BY Zenon, <2>1, <2>3 DEF Remaining, Reads!Ranged
        <4>1. IF left[q] > 0 THEN cur[q] + left[q] = readSize[q] ELSE cur[q] = readSize[q]
          BY Zenon, <1>h DEF Remaining
        <4>2. CASE q = r
          <5>1. /\ cur[r] + left[r] = readSize[r] /\ readSize[r] \in Nat
                /\ left'[r] = left[r] - ChunkSize /\ cur'[r] = cur[r] + len
            BY Zenon, <1>t, <2>1, <3>6, <4>1, <4>2
          <5>2. CASE ChunkSize > left[r]
            BY SMT, Z3, <2>1, <3>1, <4>2, <5>1, <5>2
          <5>3. CASE ChunkSize <= left[r]
            BY SMTT(60), Z3T(60), <2>1, <3>1, <4>2, <5>1, <5>3
          <5> QED
            BY SMTT(60), Z3T(60), <3>1, <5>2, <5>3
        <4>3. CASE q # r
          BY Zenon, <3>6, <4>1, <4>3
        <4> QED
          BY Zenon, <4>2, <4>3
      <3>11. SizeIsFresh' /\ AllSent'
        BY Zenon, <1>h, <2>1, <2>3, <3>6 DEF SizeIsFresh, AllSent
      <3> QED
        BY Zenon, <3>7, <3>8, <3>9, <3>10, <3>11 DEF ReadInv
    <2> QED
      BY Zenon, <1>4, <2>2, <2>3 DEF Reads!SendChunk, Reads!Go
  <1>5. ASSUME NEW r \in Getters, Reads!Finish(r) PROVE ReadInv'
    <2>1. /\ readPc[r] = "body" /\ left[r] <= 0 /\ readPc' = [readPc EXCEPT ![r] = "done"]
          /\ UNCHANGED <<readFile, readOfs, end, readSize, left, cur, sent, calm>>
      BY Zenon, <1>5 DEF Reads!Finish, Reads!Go, Reads!readVars
    <2>2. readPc' \in [Getters -> ReadStates] /\ readPc'[r] = "done" /\ \A q \in Getters \ {r} : readPc'[q] = readPc[q]
      BY Zenon, <1>t, <2>1 DEF ReadStates, Reads!Answered
    <2>3. ReadTypes'
      BY Zenon, <1>h, <2>1, <2>2 DEF ReadTypes
    <2>4. BodyIsRun' /\ NotYet'
      BY Zenon, <1>h, <2>1, <2>2 DEF BodyIsRun, NotYet
    <2>5. Remaining'
      BY Zenon, <1>h, <2>1, <2>2 DEF Remaining, Reads!Ranged
    <2>6. SizeIsFresh' /\ AllSent'
      BY Zenon, <1>h, <2>1, <2>2 DEF SizeIsFresh, AllSent
    <2> QED
      BY Zenon, <2>3, <2>4, <2>5, <2>6 DEF ReadInv
  <1>6. ASSUME NEW r \in Getters, Reads!Respond(r) PROVE ReadInv'
    <2>1. /\ readPc' = [readPc EXCEPT ![r] = "idle"] /\ sent' = [sent EXCEPT ![r] = <<>>]
          /\ calm' = [calm EXCEPT ![r] = TRUE] /\ readSize' = [readSize EXCEPT ![r] = 0]
          /\ left' = [left EXCEPT ![r] = 0] /\ cur' = [cur EXCEPT ![r] = 0]
          /\ UNCHANGED <<readFile, readOfs, end>>
      BY Zenon, <1>6 DEF Reads!Respond, Reads!Go
    <2>2. ReadTypes'
      BY SMTT(30), Z3T(30), <1>h, <2>1 DEF ReadTypes, ReadStates
    <2>3. /\ readPc'[r] = "idle" /\ sent'[r] = <<>> /\ cur'[r] = 0
          /\ \A q \in Getters \ {r} : /\ readPc'[q] = readPc[q] /\ sent'[q] = sent[q] /\ calm'[q] = calm[q]
                                      /\ readSize'[q] = readSize[q] /\ left'[q] = left[q] /\ cur'[q] = cur[q]
      BY Zenon, <1>t, <2>1
    <2>4. BodyIsRun' /\ NotYet'
      <3>1. Len(<<>>) = 0 /\ DOMAIN <<>> = {}
        BY SMT, Z3
      <3>2. ASSUME NEW q \in Getters \ {r}
            PROVE  /\ Len(sent'[q]) = cur'[q]
                   /\ \A i \in DOMAIN sent'[q] : sent'[q][i] = readOfs'[q] + i - 1
        <4>1. sent'[q] = sent[q] /\ cur'[q] = cur[q] /\ readOfs'[q] = readOfs[q]
          BY Zenon, <2>1, <2>3
        <4>2. /\ Len(sent[q]) = cur[q]
              /\ \A i \in DOMAIN sent[q] : sent[q][i] = readOfs[q] + i - 1
          BY Zenon, <1>h DEF BodyIsRun
        <4> QED
          BY Zenon, <4>1, <4>2
      <3>3. /\ Len(sent'[r]) = cur'[r]
            /\ \A i \in DOMAIN sent'[r] : sent'[r][i] = readOfs'[r] + i - 1
        BY Zenon, <2>3, <3>1
      <3>4. BodyIsRun'
        BY Zenon, <3>2, <3>3 DEF BodyIsRun
      <3>5. NotYet'
        BY Zenon, <1>h, <2>1, <2>3 DEF NotYet
      <3> QED
        BY Zenon, <3>4, <3>5
    <2>5. Remaining'
      BY Zenon, <1>h, <2>1, <2>3 DEF Remaining, Reads!Ranged
    <2>6. SizeIsFresh' /\ AllSent'
      BY Zenon, <1>h, <2>1, <2>3 DEF SizeIsFresh, AllSent
    <2> QED
      BY Zenon, <2>2, <2>4, <2>5, <2>6 DEF ReadInv
  <1>7. ASSUME NEW n \in Int, n >= Reads!NoFile, Reads!Change(n) PROVE ReadInv'
    <2>1. /\ readFile' = n /\ calm' = [r \in Getters |-> readPc[r] = "idle"]
          /\ UNCHANGED <<readPc, readOfs, end, readSize, left, cur, sent>>
      BY Zenon, <1>7 DEF Reads!Change
    <2>2. \A r \in Getters : calm'[r] => readPc[r] = "idle"
      BY Zenon, <2>1
    <2>3. ReadTypes'
      BY Zenon, <1>h, <1>7, <2>1 DEF ReadTypes
    <2>4. BodyIsRun' /\ NotYet'
      BY Zenon, <1>h, <2>1 DEF BodyIsRun, NotYet
    <2>5. Remaining'
      BY Zenon, <1>h, <2>1 DEF Remaining, Reads!Ranged
    <2>6. SizeIsFresh' /\ AllSent'
      BY Zenon, <1>h, <2>1, <2>2 DEF SizeIsFresh, AllSent
    <2> QED
      BY Zenon, <2>3, <2>4, <2>5, <2>6 DEF ReadInv
  <1>8. CASE Reads!PutTruncates \/ Reads!PutWrites \/ Reads!Removed
    <2>1. PICK n \in Int : n >= Reads!NoFile /\ Reads!Change(n)
      <3>1. CASE Reads!PutTruncates
        BY SMT, Z3, <3>1 DEF Reads!PutTruncates, Reads!NoFile
      <3>2. CASE Reads!PutWrites
        <4>1. readFile + 1 \in Int /\ readFile + 1 >= Reads!NoFile
          BY SMT, Z3, <1>t DEF Reads!NoFile
        <4> QED
          BY Zenon, <3>2, <4>1 DEF Reads!PutWrites
      <3>3. CASE Reads!Removed
        BY SMT, Z3, <3>3 DEF Reads!Removed, Reads!NoFile
      <3> QED
        BY Zenon, <1>8, <3>1, <3>2, <3>3
    <2> QED
      BY Zenon, <1>7, <2>1
  <1>9. CASE UNCHANGED Reads!vars
    <2>1. UNCHANGED <<readFile, readPc, readOfs, end, readSize, left, cur, sent, calm>>
      BY Zenon, <1>9 DEF Reads!vars
    <2>2. ReadTypes'
      BY Zenon, <1>h, <2>1 DEF ReadTypes
    <2>3. BodyIsRun' /\ NotYet'
      BY Zenon, <1>h, <2>1 DEF BodyIsRun, NotYet
    <2>4. Remaining' /\ SizeIsFresh' /\ AllSent'
      BY Zenon, <1>h, <2>1 DEF Remaining, Reads!Ranged, SizeIsFresh, AllSent
    <2> QED
      BY Zenon, <2>2, <2>3, <2>4 DEF ReadInv
  <1> QED
    BY Zenon, <1>1, <1>2, <1>3, <1>4, <1>5, <1>6, <1>8, <1>9 DEF Reads!Next, Reads!Read

\* RGWGetObj::execute() and get_data(), whatever the sizes, chunks and ranges and however
\* the file changes between two reads: the body is a run of consecutive bytes; without a
\* range it does not exceed Content-Length; and it is the file when nobody disturbs it.
THEOREM ReadsAreExact == Reads!Spec => []ReadIsExact
  <1>1. ReadInv => ReadIsExact
    <2> SUFFICES ASSUME ReadInv PROVE ReadIsExact
      BY Zenon
    <2>h. ReadTypes /\ BodyIsRun /\ NotYet /\ Remaining /\ SizeIsFresh /\ AllSent
      BY Zenon DEF ReadInv
    <2>1. Reads!SentInOrder
      BY Zenon, <2>h DEF BodyIsRun, Reads!SentInOrder
    <2>2. Reads!WithinLength
      <3> SUFFICES ASSUME NEW r \in Getters, ~Reads!Ranged(r) PROVE cur[r] <= readSize[r]
        BY Zenon, <2>h DEF Reads!WithinLength, BodyIsRun
      <3>1. cur[r] \in Nat /\ readSize[r] \in Nat /\ left[r] \in Int /\ readPc[r] \in ReadStates
        BY Zenon, <2>h DEF ReadTypes
      <3>2. CASE readPc[r] \in {"open", "notfound", "body", "short", "done"}
        BY SMTT(30), Z3T(30), <2>h, <3>1, <3>2 DEF Remaining
      <3>3. CASE readPc[r] \in {"idle", "badrange", "stat", "lost"}
        BY SMTT(30), Z3T(30), <2>h, <3>1, <3>3 DEF NotYet
      <3> QED
        BY Zenon, <3>1, <3>2, <3>3 DEF ReadStates, Reads!Answered
    <2>3. Reads!WholeExact
      <3> SUFFICES ASSUME NEW r \in Getters, readPc[r] = "done", calm[r], ~Reads!Ranged(r)
                   PROVE  Len(sent[r]) = readFile /\ readSize[r] = readFile
        BY Zenon DEF Reads!WholeExact
      <3>1. left[r] \in Int /\ left[r] <= 0 /\ readSize[r] = readFile /\ Len(sent[r]) = cur[r]
        BY Zenon, <2>h DEF ReadTypes, AllSent, SizeIsFresh, BodyIsRun
      <3> QED
        BY SMTT(30), Z3T(30), <2>h, <3>1 DEF Remaining
    <2> QED
      BY Zenon, <2>1, <2>2, <2>3 DEF ReadIsExact
  <1> QED
    BY <1>1, ReadInit, GetStep, PTL DEF Reads!Spec

-----------------------------------------------------------------------------
(* The log of changed buckets.                                             *)

LEMMA DataFacts ==
    /\ ChooseOid \in [BucketShards -> Nat]
    /\ NoCaller \notin Callers
    /\ Window \in Nat
  BY Zenon, DataAssumption DEF Data!DataAssumption

LEMMA LaterOfTwo ==
    ASSUME NEW a \in Nat, NEW b \in Nat
    PROVE  Data!Later(a, b) \in {a, b} /\ Data!Later(a, b) >= a /\ Data!Later(a, b) >= b
  BY SMT, Z3 DEF Data!Later

CallStates == {"idle", "test", "wait", "send", "sent", "done", "renew"}
CallType == [pc : CallStates, bs : BucketShards \cup {NoShard}, st : Data!Statuses \cup {0}, now : Nat,
             expiration : Nat, cond : Callers \cup {NoCaller}, ret : {"ok", "error"}]
StatusType == [expiration : Nat, sent : Nat, pending : BOOLEAN, cond : Callers \cup {NoCaller}]

DataTypes ==
    /\ clock \in Nat
    /\ call \in [Callers -> CallType]
    /\ \A c \in Callers : call[c].pc # "idle" => call[c].bs \in BucketShards /\ call[c].st \in Data!Statuses
    /\ changeStatus \in [Data!Statuses -> StatusType]
    /\ curCycle \subseteq BucketShards /\ batch \subseteq BucketShards
    /\ renewer \in {"swap", "add", "update", "wait", "exited"}
    /\ stamp \in [entries : Nat, add : Nat]
    /\ lastEntry \in [BucketShards -> Nat] /\ owed \in [BucketShards -> Nat]

\* Nothing is owed for a later time than now.
InThePast ==
    /\ \A c \in Callers : call[c].now <= clock
    /\ \A b \in BucketShards : owed[b] <= clock

\* A change that waits in the batch alone began before the batch was taken, and the entry that
\* the thread writes for it is of that time.
OwedInBatch ==
    \A b \in BucketShards :
        owed[b] > lastEntry[b] /\ b \notin curCycle => b \in batch /\ owed[b] <= stamp.entries

\* The bucket shards whose windows the thread is about to renew have their entry.
WrittenFirst == renewer = "update" => \A b \in Data!AtIndex : lastEntry[b] >= stamp.entries

BatchPhase == renewer \notin {"add", "update"} => batch = {}

\* A status that is pending has a call that sends for it, and that call has it.
PendingHasSender ==
    \A s \in Data!Statuses :
        changeStatus[s].pending =>
            /\ changeStatus[s].cond \in Callers
            /\ call[changeStatus[s].cond].pc \in {"send", "sent"}
            /\ call[changeStatus[s].cond].st = s

WaiterHasSender ==
    \A c \in Callers :
        call[c].pc = "wait" =>
            call[c].cond \in Callers /\ call[call[c].cond].pc \in {"send", "sent", "done"}

DataInv ==
    /\ DataTypes /\ InThePast /\ OwedInBatch /\ WrittenFirst /\ BatchPhase
    /\ PendingHasSender /\ WaiterHasSender

LEMMA IdleType == Data!Idle \in CallType /\ Data!Idle.pc = "idle" /\ Data!Idle.now = 0
  BY Zenon DEF Data!Idle, CallType, CallStates

LEMMA DataInit == Data!Init => DataInv
  <1> SUFFICES ASSUME Data!Init PROVE DataInv
    BY Zenon
  <1>1. Data!NewStatus \in StatusType /\ ~Data!NewStatus.pending
    BY Zenon DEF Data!NewStatus, StatusType
  <1>2. DataTypes
    BY Zenon, <1>1, IdleType DEF Data!Init, DataTypes
  <1>3. InThePast
    BY SMT, Z3, IdleType DEF Data!Init, InThePast
  <1>4. OwedInBatch /\ WrittenFirst /\ BatchPhase
    BY SMT, Z3 DEF Data!Init, OwedInBatch, WrittenFirst, BatchPhase
  <1>5. PendingHasSender /\ WaiterHasSender
    BY Zenon, <1>1, IdleType DEF Data!Init, PendingHasSender, WaiterHasSender
  <1> QED
    BY Zenon, <1>2, <1>3, <1>4, <1>5 DEF DataInv

\* _get_change() yields the status of the map, or a new one that no call has.
LEMMA GetChangeFacts ==
    ASSUME NEW b, NEW s \in Data!Statuses, NEW old, Data!GetChange(b, s, old)
    PROVE  \/ old = changeStatus[s]
           \/ old = Data!NewStatus /\ \A c \in Callers : call[c].st # s
  BY Zenon DEF Data!GetChange, Data!Add, Data!Free

\* A step that changes neither the calls nor who sends for a status.
LEMMA SendersKept ==
    ASSUME DataInv, call' = call, NEW s \in Data!Statuses, NEW old, NEW new,
           \/ old = changeStatus[s]
           \/ old = Data!NewStatus /\ \A c \in Callers : call[c].st # s,
           new.pending = old.pending, new.cond = old.cond,
           changeStatus' = [changeStatus EXCEPT ![s] = new]
    PROVE  PendingHasSender' /\ WaiterHasSender'
  <1>1. ~Data!NewStatus.pending
    BY Zenon DEF Data!NewStatus
  <1>2. \A x \in Data!Statuses : changeStatus'[x].pending => changeStatus[x].pending /\ changeStatus'[x].cond = changeStatus[x].cond
    BY Zenon, <1>1 DEF DataInv, DataTypes
  <1>3. PendingHasSender'
    BY Zenon, <1>2 DEF DataInv, PendingHasSender
  <1> QED
    BY Zenon, <1>3 DEF DataInv, WaiterHasSender

\* What the properties of the changes depend on.
changeVars == <<clock, curCycle, batch, renewer, stamp, lastEntry, owed>>

LEMMA ChangesKept ==
    ASSUME DataInv, UNCHANGED changeVars
    PROVE  OwedInBatch' /\ WrittenFirst' /\ BatchPhase'
  BY Zenon DEF DataInv, changeVars, OwedInBatch, WrittenFirst, BatchPhase, Data!AtIndex

LEMMA CallUpdate ==
    ASSUME call \in [Callers -> CallType], NEW c \in Callers, NEW r \in CallType,
           call' = [call EXCEPT ![c] = r]
    PROVE  /\ call' \in [Callers -> CallType] /\ call'[c] = r
           /\ \A d \in Callers \ {c} : call'[d] = call[d]
  BY Zenon

\* One call goes on with the status that it has.
LEMMA CallMoves ==
    ASSUME DataTypes, InThePast, NEW c \in Callers, call[c].pc # "idle",
           UNCHANGED <<clock, curCycle, batch, renewer, stamp, owed>>,
           lastEntry' \in [BucketShards -> Nat], changeStatus' \in [Data!Statuses -> StatusType],
           call' \in [Callers -> CallType], call'[c].bs = call[c].bs, call'[c].st = call[c].st,
           call'[c].now \in {call[c].now, clock},
           \A d \in Callers \ {c} : call'[d] = call[d]
    PROVE  DataTypes' /\ InThePast'
  <1>1. \A d \in Callers : call'[d].now <= clock
    <2>1. clock \in Nat /\ call[c].now <= clock
      BY Zenon DEF DataTypes, InThePast
    <2>2. call'[c].now <= clock
      BY SMT, Z3, <2>1
    <2> QED
      BY Zenon, <2>2 DEF InThePast
  <1>2. \A d \in Callers : call'[d].pc # "idle" => call'[d].bs \in BucketShards /\ call'[d].st \in Data!Statuses
    BY Zenon DEF DataTypes
  <1> QED
    BY Zenon, <1>1, <1>2 DEF DataTypes, InThePast

\* A call that sends keeps the statuses that wait for it.
LEMMA SenderMoves ==
    ASSUME PendingHasSender, NEW c \in Callers,
           \A d \in Callers \ {c} : call'[d] = call[d],
           call'[c].pc \in {"send", "sent"}, call'[c].st = call[c].st,
           \A x \in Data!Statuses : /\ changeStatus'[x].pending = changeStatus[x].pending
                                    /\ changeStatus'[x].cond = changeStatus[x].cond
    PROVE  PendingHasSender'
  <1> SUFFICES ASSUME NEW x \in Data!Statuses, changeStatus'[x].pending
               PROVE  /\ changeStatus'[x].cond \in Callers
                      /\ call'[changeStatus'[x].cond].pc \in {"send", "sent"}
                      /\ call'[changeStatus'[x].cond].st = x
    BY Zenon DEF PendingHasSender
  <1>1. changeStatus[x].pending /\ changeStatus'[x].cond = changeStatus[x].cond
    BY Zenon
  <1>2. PICK d \in Callers : /\ changeStatus'[x].cond = d
                             /\ call[d].pc \in {"send", "sent"} /\ call[d].st = x
    BY Zenon, <1>1 DEF PendingHasSender
  <1>3. call'[d].pc \in {"send", "sent"} /\ call'[d].st = x
    BY Zenon, <1>2
  <1> QED
    BY Zenon, <1>2, <1>3

\* And so do the calls.
LEMMA WaitersKept ==
    ASSUME WaiterHasSender, NEW c \in Callers,
           \A d \in Callers \ {c} : call'[d] = call[d],
           call'[c].pc \in {"send", "sent", "done"}
    PROVE  WaiterHasSender'
  <1> SUFFICES ASSUME NEW w \in Callers, call'[w].pc = "wait"
               PROVE  call'[w].cond \in Callers /\ call'[call'[w].cond].pc \in {"send", "sent", "done"}
    BY Zenon DEF WaiterHasSender
  <1>1. call'[w] = call[w]
    BY Zenon
  <1>2. PICK d \in Callers : call'[w].cond = d /\ call[d].pc \in {"send", "sent", "done"}
    BY Zenon, <1>1 DEF WaiterHasSender
  <1>3. call'[d].pc \in {"send", "sent", "done"}
    BY Zenon, <1>2
  <1> QED
    BY Zenon, <1>2, <1>3

\* The calls.
LEMMA CallStep ==
    ASSUME DataInv, NEW c \in Callers, Data!Call(c) \/ \E b \in BucketShards : Data!AddEntry(c, b)
    PROVE  DataInv'
  <1>h. /\ DataTypes /\ InThePast /\ OwedInBatch /\ WrittenFirst /\ BatchPhase
        /\ PendingHasSender /\ WaiterHasSender
    BY Zenon DEF DataInv
  <1>t. /\ clock \in Nat /\ call \in [Callers -> CallType] /\ changeStatus \in [Data!Statuses -> StatusType]
        /\ \A d \in Callers : /\ call[d] \in CallType
                              /\ call[d].pc # "idle" => call[d].bs \in BucketShards /\ call[d].st \in Data!Statuses
        /\ \A x \in Data!Statuses : changeStatus[x] \in StatusType
    BY Zenon, <1>h DEF DataTypes
  <1>n. Data!NewStatus \in StatusType /\ ~Data!NewStatus.pending
    BY Zenon DEF Data!NewStatus, StatusType
  <1>1. ASSUME NEW b \in BucketShards, Data!AddEntry(c, b) PROVE DataInv'
    <2>0. PICK s \in Data!Statuses : \E old \in {changeStatus[s], Data!NewStatus} :
              /\ Data!GetChange(b, s, old)
              /\ changeStatus' = [changeStatus EXCEPT ![s] = old]
              /\ call' = [call EXCEPT ![c] =
                            [Data!Idle EXCEPT !.pc = "test", !.bs = b, !.st = s, !.now = clock]]
      BY Zenon, <1>1 DEF Data!AddEntry
    <2>1. PICK old \in {changeStatus[s], Data!NewStatus} :
              /\ Data!GetChange(b, s, old)
              /\ changeStatus' = [changeStatus EXCEPT ![s] = old]
              /\ call' = [call EXCEPT ![c] =
                            [Data!Idle EXCEPT !.pc = "test", !.bs = b, !.st = s, !.now = clock]]
      BY Zenon, <2>0
    <2>2. call[c].pc = "idle" /\ UNCHANGED changeVars
      BY Zenon, <1>1 DEF Data!AddEntry, changeVars, Data!threadVars
    <2> DEFINE new == [Data!Idle EXCEPT !.pc = "test", !.bs = b, !.st = s, !.now = clock]
    <2>3. new \in CallType /\ new.pc = "test" /\ new.bs = b /\ new.st = s /\ new.now = clock
      BY Zenon, <1>t DEF Data!Idle, CallType, CallStates
    <2> HIDE DEF new
    <2>4. call' = [call EXCEPT ![c] = new]
      BY Zenon, <2>1 DEF new
    <2>5. call' \in [Callers -> CallType] /\ call'[c] = new /\ \A d \in Callers \ {c} : call'[d] = call[d]
      BY Zenon, <1>t, <2>3, <2>4
    <2>6. changeStatus' \in [Data!Statuses -> StatusType]
      BY Zenon, <1>t, <1>n, <2>1
    <2>7. DataTypes'
      BY Zenon, <1>h, <2>2, <2>3, <2>5, <2>6 DEF DataTypes, changeVars
    <2>8. InThePast'
      BY SMT, Z3, <1>h, <1>t, <2>2, <2>3, <2>5 DEF InThePast, changeVars
    <2>9. \A x \in Data!Statuses : changeStatus'[x].pending =>
              changeStatus[x].pending /\ changeStatus'[x].cond = changeStatus[x].cond /\ changeStatus[x].cond # c
      <3>1. \A x \in Data!Statuses : changeStatus'[x].pending => changeStatus[x].pending /\ changeStatus'[x].cond = changeStatus[x].cond
        BY Zenon, <1>t, <1>n, <2>1
      <3> QED
        BY Zenon, <1>h, <2>2, <3>1 DEF PendingHasSender
    <2>10. PendingHasSender'
      BY SMT, Z3, <1>h, <2>5, <2>9 DEF PendingHasSender
    <2>11. WaiterHasSender'
      BY Zenon, <1>h, <2>2, <2>3, <2>5 DEF WaiterHasSender
    <2> QED
      BY Zenon, <2>2, <2>7, <2>8, <2>10, <2>11, ChangesKept DEF DataInv
  <1>2. CASE Data!Test(c)
    <2> DEFINE s == call[c].st
    <2>1. call[c].pc = "test" /\ s \in Data!Statuses /\ UNCHANGED changeVars
      BY Zenon, <1>2, <1>t DEF Data!Test, changeVars, Data!threadVars
    <2> HIDE DEF s
    <2>2. CASE call' = [call EXCEPT ![c].pc = "renew"] /\ UNCHANGED changeStatus
      <3>1. /\ call' \in [Callers -> CallType] /\ call'[c].pc = "renew"
            /\ call'[c].bs = call[c].bs /\ call'[c].st = call[c].st /\ call'[c].now = call[c].now
            /\ \A d \in Callers \ {c} : call'[d] = call[d]
        BY SMT, Z3, <1>t, <2>2 DEF CallType, CallStates
      <3>2. DataTypes' /\ InThePast'
        BY Zenon, <1>h, <2>1, <2>2, <3>1 DEF DataTypes, InThePast, changeVars
      <3>3. PendingHasSender' /\ WaiterHasSender'
        BY Zenon, <1>h, <2>1, <2>2, <3>1 DEF PendingHasSender, WaiterHasSender
      <3> QED
        BY Zenon, <2>1, <3>2, <3>3, ChangesKept DEF DataInv
    <2>3. CASE /\ changeStatus[s].pending /\ UNCHANGED changeStatus
               /\ call' = [call EXCEPT ![c].pc = "wait", ![c].cond = changeStatus[s].cond]
      <3>1. /\ call' \in [Callers -> CallType] /\ call'[c].pc = "wait" /\ call'[c].cond = changeStatus[s].cond
            /\ call'[c].bs = call[c].bs /\ call'[c].st = call[c].st /\ call'[c].now = call[c].now
            /\ \A d \in Callers \ {c} : call'[d] = call[d]
        <4>1. changeStatus[s].cond \in Callers \cup {NoCaller}
          BY Zenon, <1>t, <2>1 DEF StatusType
        <4> DEFINE r == [call[c] EXCEPT !.pc = "wait", !.cond = changeStatus[s].cond]
        <4>2. /\ r \in CallType /\ r.pc = "wait" /\ r.cond = changeStatus[s].cond
              /\ r.bs = call[c].bs /\ r.st = call[c].st /\ r.now = call[c].now
          BY Zenon, <1>t, <4>1 DEF CallType, CallStates
        <4>3. call' = [call EXCEPT ![c] = r]
          BY Zenon, <1>t, <2>3
        <4> HIDE DEF r
        <4> QED
          BY Zenon, <1>t, <4>2, <4>3, CallUpdate
      <3>2. DataTypes' /\ InThePast'
        BY Zenon, <1>h, <2>1, <2>3, <3>1 DEF DataTypes, InThePast, changeVars
      <3>3. PendingHasSender'
        BY Zenon, <1>h, <2>1, <2>3, <3>1 DEF PendingHasSender
      <3>4. WaiterHasSender'
        <4>1. PICK d \in Callers : changeStatus[s].cond = d /\ d # c /\ call[d].pc \in {"send", "sent"}
          BY Zenon, <1>h, <2>1, <2>3 DEF PendingHasSender
        <4>2. call'[c].cond \in Callers /\ call'[call'[c].cond].pc \in {"send", "sent"}
          BY Zenon, <3>1, <4>1
        <4>3. ASSUME NEW w \in Callers \ {c}, call[w].pc = "wait"
              PROVE  call'[w].cond \in Callers /\ call'[call'[w].cond].pc \in {"send", "sent", "done"}
          <5>1. PICK e \in Callers : call[w].cond = e /\ call[e].pc \in {"send", "sent", "done"}
            BY Zenon, <1>h, <4>3 DEF WaiterHasSender
          <5>2. call'[w] = call[w] /\ call'[e] = call[e]
            BY Zenon, <2>1, <3>1, <5>1
          <5> QED
            BY Zenon, <5>1, <5>2
        <4> QED
          BY Zenon, <3>1, <4>2, <4>3 DEF WaiterHasSender
      <3> QED
        BY Zenon, <2>1, <3>2, <3>3, <3>4, ChangesKept DEF DataInv
    <2>4. CASE /\ ~changeStatus[s].pending
               /\ changeStatus' = [changeStatus EXCEPT ![s].pending = TRUE, ![s].cond = c, ![s].sent = call[c].now]
               /\ call' = [call EXCEPT ![c].pc = "send", ![c].expiration = call[c].now + Window]
      <3>0. call[c].now \in Nat /\ call[c].now + Window \in Nat
        BY SMT, Z3, <1>t, DataFacts DEF CallType
      <3>1. /\ call' \in [Callers -> CallType] /\ call'[c].pc = "send"
            /\ call'[c].bs = call[c].bs /\ call'[c].st = call[c].st /\ call'[c].now = call[c].now
            /\ \A d \in Callers \ {c} : call'[d] = call[d]
        <4> DEFINE r == [call[c] EXCEPT !.pc = "send", !.expiration = call[c].now + Window]
        <4>1. /\ r \in CallType /\ r.pc = "send"
              /\ r.bs = call[c].bs /\ r.st = call[c].st /\ r.now = call[c].now
          BY Zenon, <1>t, <3>0 DEF CallType, CallStates
        <4>2. call' = [call EXCEPT ![c] = r]
          BY Zenon, <1>t, <2>4
        <4> HIDE DEF r
        <4> QED
          BY Zenon, <1>t, <4>1, <4>2, CallUpdate
      <3>2. /\ changeStatus' \in [Data!Statuses -> StatusType]
            /\ changeStatus'[s].cond = c
            /\ \A x \in Data!Statuses \ {s} : changeStatus'[x] = changeStatus[x]
        <4> DEFINE r == [changeStatus[s] EXCEPT !.pending = TRUE, !.cond = c, !.sent = call[c].now]
        <4>1. r \in StatusType /\ r.cond = c
          BY Zenon, <1>t, <2>1, <3>0 DEF StatusType
        <4>2. changeStatus' = [changeStatus EXCEPT ![s] = r]
          BY Zenon, <1>t, <2>1, <2>4
        <4> HIDE DEF r
        <4> QED
          BY Zenon, <1>t, <2>1, <4>1, <4>2
      <3>3. DataTypes' /\ InThePast'
        BY Zenon, <1>h, <2>1, <3>1, <3>2 DEF DataTypes, InThePast, changeVars
      <3>4. PendingHasSender'
        BY SMT, Z3, <1>h, <2>1, <3>1, <3>2 DEF PendingHasSender, s
      <3>5. WaiterHasSender'
        BY SMT, Z3, <1>h, <2>1, <3>1 DEF WaiterHasSender
      <3> QED
        BY Zenon, <2>1, <3>3, <3>4, <3>5, ChangesKept DEF DataInv
    <2> QED
      BY Zenon, <1>2, <2>2, <2>3, <2>4 DEF Data!Test, s
  <1>3. ASSUME NEW r \in Data!Results, Data!Send(c, r) PROVE DataInv'
    <2>1. /\ call[c].pc = "send" /\ call[c].bs \in BucketShards /\ call[c].now \in Nat
          /\ call' = [call EXCEPT ![c].pc = "sent", ![c].now = clock, ![c].ret = r]
          /\ UNCHANGED <<clock, changeStatus, curCycle, batch, renewer, stamp, owed>>
      BY Zenon, <1>3, <1>t DEF Data!Send, Data!threadVars, CallType
    <2>2. /\ call' \in [Callers -> CallType] /\ call'[c].pc = "sent"
          /\ call'[c].bs = call[c].bs /\ call'[c].st = call[c].st /\ call'[c].now = clock
          /\ \A d \in Callers \ {c} : call'[d] = call[d]
      <3> DEFINE v == [call[c] EXCEPT !.pc = "sent", !.now = clock, !.ret = r]
      <3>1. /\ v \in CallType /\ v.pc = "sent" /\ v.now = clock
            /\ v.bs = call[c].bs /\ v.st = call[c].st
        BY Zenon, <1>t DEF CallType, CallStates, Data!Results
      <3>2. call' = [call EXCEPT ![c] = v]
        BY Zenon, <1>t, <2>1
      <3> HIDE DEF v
      <3> QED
        BY Zenon, <1>t, <3>1, <3>2, CallUpdate
    <2>3. lastEntry' \in [BucketShards -> Nat] /\ \A b \in BucketShards : lastEntry'[b] >= lastEntry[b]
      <3>0. lastEntry \in [BucketShards -> Nat]
        BY Zenon, <1>h DEF DataTypes
      <3>1. \/ lastEntry' = [lastEntry EXCEPT ![call[c].bs] = Data!Later(lastEntry[call[c].bs], call[c].now)]
            \/ lastEntry' = lastEntry
        BY Zenon, <1>3, <2>1, <3>0 DEF Data!Send
      <3>2. /\ Data!Later(lastEntry[call[c].bs], call[c].now) \in Nat
            /\ Data!Later(lastEntry[call[c].bs], call[c].now) >= lastEntry[call[c].bs]
        <4>1. lastEntry[call[c].bs] \in Nat
          BY Zenon, <2>1, <3>0
        <4> HIDE <3>0
        <4> QED
          BY Zenon, <2>1, <4>1, LaterOfTwo
      <3> QED
        BY SMT, Z3, <2>1, <3>0, <3>1, <3>2
    <2>4. DataTypes' /\ InThePast'
      BY Zenon, <1>h, <1>t, <2>1, <2>2, <2>3, CallMoves
    <2>5. OwedInBatch' /\ WrittenFirst' /\ BatchPhase'
      <3>1. lastEntry \in [BucketShards -> Nat] /\ owed \in [BucketShards -> Nat] /\ stamp.entries \in Nat
            /\ batch \subseteq BucketShards
        BY Zenon, <1>h DEF DataTypes
      <3>2. OwedInBatch'
        BY SMT, Z3, <1>h, <2>1, <2>3, <3>1 DEF OwedInBatch
      <3>3. WrittenFirst' /\ BatchPhase'
        BY SMTT(30), Z3T(30), <1>h, <2>1, <2>3, <3>1 DEF WrittenFirst, BatchPhase, Data!AtIndex
      <3> QED
        BY Zenon, <3>2, <3>3
    <2>6. PendingHasSender' /\ WaiterHasSender'
      BY Zenon, <1>h, <2>1, <2>2, SenderMoves, WaitersKept
    <2> QED
      BY Zenon, <2>4, <2>5, <2>6 DEF DataInv
  <1>4. CASE Data!SendAgain(c)
    <2>1. /\ call[c].pc = "sent" /\ call[c].st \in Data!Statuses /\ UNCHANGED changeVars
          /\ call[c].now \in Nat /\ call[c].now + Window \in Nat
          /\ changeStatus' = [changeStatus EXCEPT ![call[c].st].sent = call[c].now]
          /\ call' = [call EXCEPT ![c].pc = "send", ![c].expiration = call[c].now + Window]
      BY SMT, Z3, <1>4, <1>t, DataFacts DEF Data!SendAgain, Data!threadVars, changeVars, CallType
    <2>2. /\ call' \in [Callers -> CallType] /\ call'[c].pc = "send"
          /\ call'[c].bs = call[c].bs /\ call'[c].st = call[c].st /\ call'[c].now = call[c].now
          /\ \A d \in Callers \ {c} : call'[d] = call[d]
      <3> DEFINE v == [call[c] EXCEPT !.pc = "send", !.expiration = call[c].now + Window]
      <3>1. /\ v \in CallType /\ v.pc = "send" /\ v.now = call[c].now
            /\ v.bs = call[c].bs /\ v.st = call[c].st
        BY Zenon, <1>t, <2>1 DEF CallType, CallStates
      <3>2. call' = [call EXCEPT ![c] = v]
        BY Zenon, <1>t, <2>1
      <3> HIDE DEF v
      <3> QED
        BY Zenon, <1>t, <3>1, <3>2, CallUpdate
    <2>3. /\ changeStatus' \in [Data!Statuses -> StatusType]
          /\ \A x \in Data!Statuses : changeStatus'[x].pending = changeStatus[x].pending /\ changeStatus'[x].cond = changeStatus[x].cond
      BY Zenon, <1>t, <2>1 DEF StatusType
    <2>4. DataTypes' /\ InThePast'
      <3>1. /\ UNCHANGED <<clock, curCycle, batch, renewer, stamp, owed, lastEntry>>
            /\ lastEntry \in [BucketShards -> Nat] /\ call[c].pc # "idle"
        BY Zenon, <1>h, <2>1 DEF changeVars, DataTypes
      <3> QED
        BY Zenon, <1>h, <2>2, <2>3, <3>1, CallMoves
    <2>5. PendingHasSender'
      BY Zenon, <1>h, <2>2, <2>3, SenderMoves
    <2>6. WaiterHasSender'
      BY Zenon, <1>h, <2>2, WaitersKept
    <2> QED
      BY Zenon, <2>1, <2>4, <2>5, <2>6, ChangesKept DEF DataInv
  <1>5. CASE Data!Sent(c)
    <2> DEFINE s == call[c].st
    <2>1. /\ call[c].pc = "sent" /\ s \in Data!Statuses /\ UNCHANGED changeVars
          /\ changeStatus' = [changeStatus EXCEPT ![s] = [@ EXCEPT !.pending = FALSE, !.cond = NoCaller,
                                                                   !.expiration = changeStatus[s].sent + Window]]
          /\ call' = [call EXCEPT ![c].pc = "done"]
      BY Zenon, <1>5, <1>t DEF Data!Sent, Data!threadVars, changeVars
    <2>2. /\ call' \in [Callers -> CallType] /\ call'[c].pc = "done"
          /\ call'[c].bs = call[c].bs /\ call'[c].st = call[c].st /\ call'[c].now = call[c].now
          /\ \A d \in Callers \ {c} : call'[d] = call[d]
      BY SMT, Z3, <1>t, <2>1 DEF CallType, CallStates
    <2>3. /\ changeStatus' \in [Data!Statuses -> StatusType] /\ ~changeStatus'[s].pending
          /\ \A x \in Data!Statuses \ {s} : changeStatus'[x] = changeStatus[x]
      <3>1. changeStatus[s].sent + Window \in Nat
        BY SMT, Z3, <1>t, <2>1, DataFacts DEF StatusType
      <3> QED
        BY Zenon, <1>t, <2>1, <3>1 DEF StatusType
    <2>4. DataTypes' /\ InThePast'
      <3>1. /\ UNCHANGED <<clock, curCycle, batch, renewer, stamp, owed, lastEntry>>
            /\ lastEntry \in [BucketShards -> Nat] /\ call[c].pc # "idle"
        BY Zenon, <1>h, <2>1 DEF changeVars, DataTypes
      <3> QED
        BY Zenon, <1>h, <2>2, <2>3, <3>1, CallMoves
    <2>5. \A x \in Data!Statuses \ {s} : changeStatus[x].pending => changeStatus[x].cond # c
      BY Zenon, <1>h DEF PendingHasSender
    <2>6. PendingHasSender'
      BY SMT, Z3, <1>h, <2>2, <2>3, <2>5 DEF PendingHasSender
    <2>7. WaiterHasSender'
      BY Zenon, <1>h, <2>1, <2>2 DEF WaiterHasSender
    <2> QED
      BY Zenon, <2>1, <2>4, <2>6, <2>7, ChangesKept DEF DataInv
  <1>6. CASE Data!Done(c)
    <2>1. call[c].pc = "done" /\ UNCHANGED <<changeVars, changeStatus>>
      BY Zenon, <1>6 DEF Data!Done, Data!threadVars, changeVars
    <2>2. \A w \in Callers :
              \/ call'[w] = Data!Idle /\ (w = c \/ w \in Data!Waiting(c))
              \/ /\ w \in Data!Waiting(c) /\ w # c
                 /\ call'[w] = [call[w] EXCEPT !.pc = "renew", !.cond = NoCaller]
              \/ w # c /\ w \notin Data!Waiting(c) /\ call'[w] = call[w]
      <3>1. call[c].ret \in {"ok", "error"}
        BY Zenon, <1>t DEF CallType
      <3>2. Data!Waiting(c) \subseteq Callers
        BY Zenon DEF Data!Waiting
      <3> QED
        BY Zenon, <1>6, <3>1, <3>2 DEF Data!Done
    <2>3. \A w \in Callers : w \in Data!Waiting(c) => call[w].pc = "wait" /\ call[w].cond = c
      BY Zenon DEF Data!Waiting
    <2>4. \A w \in Callers :
              /\ call'[w] \in CallType
              /\ call'[w].pc \in {"idle", "renew"} \/ (call'[w] = call[w] /\ w \notin Data!Waiting(c) /\ w # c)
              /\ call'[w].pc # "idle" => call'[w].bs \in BucketShards /\ call'[w].st \in Data!Statuses
              /\ call'[w].now <= clock
      <3> SUFFICES ASSUME NEW w \in Callers
                   PROVE  /\ call'[w] \in CallType
                          /\ call'[w].pc \in {"idle", "renew"} \/ (call'[w] = call[w] /\ w \notin Data!Waiting(c) /\ w # c)
                          /\ call'[w].pc # "idle" => call'[w].bs \in BucketShards /\ call'[w].st \in Data!Statuses
                          /\ call'[w].now <= clock
        BY Zenon
      <3>1. CASE call'[w] = Data!Idle
        BY SMT, Z3, <1>t, <3>1, IdleType
      <3>2. CASE w \in Data!Waiting(c) /\ call'[w] = [call[w] EXCEPT !.pc = "renew", !.cond = NoCaller]
        <4>1. call[w] \in CallType /\ call[w].pc = "wait" /\ call[w].now <= clock
          BY Zenon, <1>h, <1>t, <2>3, <3>2 DEF InThePast
        <4> QED
          BY Zenon, <1>t, <3>2, <4>1 DEF CallType, CallStates
      <3>3. CASE w # c /\ w \notin Data!Waiting(c) /\ call'[w] = call[w]
        BY Zenon, <1>h, <1>t, <3>3 DEF InThePast
      <3> QED
        BY Zenon, <2>2, <3>1, <3>2, <3>3
    <2>5. call' \in [Callers -> CallType]
      <3>1. DOMAIN call' = Callers /\ call' = [w \in DOMAIN call' |-> call'[w]]
        BY Zenon, <1>6 DEF Data!Done
      <3> QED
        BY Zenon, <2>4, <3>1
    <2>6. DataTypes' /\ InThePast'
      BY Zenon, <1>h, <2>1, <2>4, <2>5 DEF DataTypes, InThePast, changeVars
    <2>7. PendingHasSender'
      <3>1. \A x \in Data!Statuses : changeStatus[x].pending =>
                changeStatus[x].cond \in Callers /\ call'[changeStatus[x].cond] = call[changeStatus[x].cond]
        BY Zenon, <1>h, <2>1, <2>2, <2>3 DEF PendingHasSender
      <3> QED
        BY Zenon, <1>h, <2>1, <3>1 DEF PendingHasSender
    <2>8. WaiterHasSender'
      <3> SUFFICES ASSUME NEW w \in Callers, call'[w].pc = "wait"
                   PROVE  call'[w].cond \in Callers /\ call'[call'[w].cond].pc \in {"send", "sent", "done"}
        BY Zenon DEF WaiterHasSender
      <3>1. call'[w] = call[w] /\ w \notin Data!Waiting(c)
        BY Zenon, <2>4
      <3>2. call[w].cond \in Callers /\ call[w].cond # c /\ call[call[w].cond].pc \in {"send", "sent", "done"}
        BY Zenon, <1>h, <3>1 DEF WaiterHasSender, Data!Waiting
      <3>3. call'[call[w].cond] = call[call[w].cond]
        BY Zenon, <2>2, <2>3, <3>2
      <3> QED
        BY Zenon, <3>1, <3>2, <3>3
    <2> QED
      BY Zenon, <2>1, <2>6, <2>7, <2>8, ChangesKept DEF DataInv
  <1>7. CASE Data!RegisterRenew(c)
    <2> DEFINE k == call[c].bs
    <2>1. /\ call[c].pc = "renew" /\ k \in BucketShards /\ call[c].now \in Nat /\ call[c].now <= clock
          /\ curCycle' = curCycle \cup {k}
          /\ owed' = [owed EXCEPT ![k] = Data!Later(owed[k], call[c].now)]
          /\ call' = [call EXCEPT ![c] = Data!Idle]
          /\ UNCHANGED <<clock, changeStatus, batch, renewer, stamp, lastEntry>>
      BY Zenon, <1>7, <1>t, <1>h DEF Data!RegisterRenew, Data!threadVars, CallType, InThePast
    <2>2. owed \in [BucketShards -> Nat] /\ owed[k] \in Nat /\ owed[k] <= clock
      BY Zenon, <1>h, <2>1 DEF DataTypes, InThePast
    <2> HIDE DEF k
    <2>3. Data!Later(owed[k], call[c].now) \in Nat /\ Data!Later(owed[k], call[c].now) <= clock
      BY Zenon, <2>1, <2>2, LaterOfTwo
    <2>4. owed' \in [BucketShards -> Nat] /\ owed'[k] <= clock /\ \A x \in BucketShards \ {k} : owed'[x] = owed[x]
      BY Zenon, <2>1, <2>2, <2>3
    <2>5. call' \in [Callers -> CallType] /\ call'[c] = Data!Idle /\ \A d \in Callers \ {c} : call'[d] = call[d]
      BY Zenon, <1>t, <2>1, IdleType
    <2>6. DataTypes' /\ InThePast'
      <3>1. curCycle' \subseteq BucketShards
        BY Zenon, <1>h, <2>1 DEF DataTypes
      <3>2. \A d \in Callers : /\ call'[d].now <= clock
                               /\ call'[d].pc # "idle" => call'[d].bs \in BucketShards /\ call'[d].st \in Data!Statuses
        BY SMT, Z3, <1>h, <1>t, <2>5, IdleType DEF InThePast
      <3>3. UNCHANGED <<clock, changeStatus, batch, renewer, stamp, lastEntry>>
        BY Zenon, <2>1
      <3>4. DataTypes'
        BY Zenon, <1>h, <2>4, <2>5, <3>1, <3>2, <3>3 DEF DataTypes
      <3>5. \A x \in BucketShards : owed'[x] <= clock
        BY Zenon, <1>t, <1>h, <2>4 DEF InThePast
      <3>6. InThePast'
        BY Zenon, <3>2, <3>3, <3>5 DEF InThePast
      <3> QED
        BY Zenon, <3>4, <3>6
    <2>7. OwedInBatch'
      BY Zenon, <1>h, <2>1, <2>4 DEF OwedInBatch
    <2>8. WrittenFirst' /\ BatchPhase'
      BY Zenon, <1>h, <2>1 DEF WrittenFirst, BatchPhase, Data!AtIndex
    <2>9. PendingHasSender' /\ WaiterHasSender'
      BY Zenon, <1>h, <2>1, <2>5, IdleType DEF PendingHasSender, WaiterHasSender
    <2> QED
      BY Zenon, <2>6, <2>7, <2>8, <2>9 DEF DataInv
  <1> QED
    BY Zenon, <1>1, <1>2, <1>3, <1>4, <1>5, <1>6, <1>7 DEF Data!Call

\* The thread, and the clock.
LEMMA RenewStep ==
    ASSUME DataInv, Data!Renew \/ Data!GoDown \/ Data!Tick
    PROVE  DataInv'
  <1>h. /\ DataTypes /\ InThePast /\ OwedInBatch /\ WrittenFirst /\ BatchPhase
        /\ PendingHasSender /\ WaiterHasSender
    BY Zenon DEF DataInv
  <1>t. /\ clock \in Nat /\ stamp \in [entries : Nat, add : Nat]
        /\ changeStatus \in [Data!Statuses -> StatusType]
        /\ lastEntry \in [BucketShards -> Nat] /\ owed \in [BucketShards -> Nat]
        /\ batch \subseteq BucketShards /\ curCycle \subseteq BucketShards
        /\ \A b \in BucketShards : owed[b] \in Nat /\ lastEntry[b] \in Nat /\ owed[b] <= clock
    BY Zenon, <1>h DEF DataTypes, InThePast
  <1>c. ASSUME UNCHANGED <<call, changeStatus>> PROVE PendingHasSender' /\ WaiterHasSender'
    BY Zenon, <1>h, <1>c DEF PendingHasSender, WaiterHasSender
  <1>p. ASSUME UNCHANGED <<call, clock, owed>> PROVE InThePast'
    BY Zenon, <1>h, <1>p DEF InThePast
  <1>1. CASE Data!SwapCycle
    <2>1. /\ batch' = curCycle /\ curCycle' = {} /\ stamp' = [stamp EXCEPT !.entries = clock]
          /\ renewer = "swap" /\ renewer' = "add"
          /\ UNCHANGED <<clock, changeStatus, call, lastEntry, owed>>
      BY Zenon, <1>1 DEF Data!SwapCycle, Data!callVars
    <2>2. stamp' \in [entries : Nat, add : Nat] /\ stamp'.entries = clock
      BY Zenon, <1>t, <2>1
    <2>3. DataTypes'
      BY Zenon, <1>h, <2>1, <2>2 DEF DataTypes
    <2>4. OwedInBatch'
      BY Zenon, <1>h, <1>t, <2>1, <2>2 DEF OwedInBatch, BatchPhase
    <2>5. WrittenFirst' /\ BatchPhase'
      BY Zenon, <2>1 DEF WrittenFirst, BatchPhase
    <2> QED
      BY Zenon, <1>c, <1>p, <2>1, <2>3, <2>4, <2>5 DEF DataInv
  <1>2. CASE Data!TimeLogAdd
    <2>1. /\ renewer = "add" /\ renewer' = "update"
          /\ stamp' = [stamp EXCEPT !.add = clock]
          /\ lastEntry' = [b \in BucketShards |->
                IF b \in Data!AtIndex THEN Data!Later(lastEntry[b], stamp.entries) ELSE lastEntry[b]]
          /\ UNCHANGED <<clock, changeStatus, curCycle, call, batch, owed>>
      BY Zenon, <1>2 DEF Data!TimeLogAdd, Data!callVars
    <2>2. stamp' \in [entries : Nat, add : Nat] /\ stamp'.entries = stamp.entries /\ stamp.entries \in Nat
      BY Zenon, <1>t, <2>1
    <2>3. \A b \in BucketShards :
              /\ lastEntry'[b] \in Nat /\ lastEntry'[b] >= lastEntry[b]
              /\ b \in Data!AtIndex => lastEntry'[b] >= stamp.entries
      <3> SUFFICES ASSUME NEW b \in BucketShards
                   PROVE  /\ lastEntry'[b] \in Nat /\ lastEntry'[b] >= lastEntry[b]
                          /\ b \in Data!AtIndex => lastEntry'[b] >= stamp.entries
        BY Zenon
      <3>1. lastEntry[b] \in Nat
        BY Zenon, <1>t
      <3>2. /\ Data!Later(lastEntry[b], stamp.entries) \in Nat
            /\ Data!Later(lastEntry[b], stamp.entries) >= lastEntry[b]
            /\ Data!Later(lastEntry[b], stamp.entries) >= stamp.entries
        BY Zenon, <2>2, <3>1, LaterOfTwo
      <3> QED
        BY SMT, Z3, <2>1, <3>1, <3>2
    <2>4. Data!AtIndex' = Data!AtIndex /\ Data!AtIndex \subseteq BucketShards
      BY Zenon, <1>t, <2>1 DEF Data!AtIndex
    <2>5. DataTypes'
      BY Zenon, <1>h, <2>1, <2>2, <2>3 DEF DataTypes
    <2>6. OwedInBatch'
      BY SMT, Z3, <1>h, <1>t, <2>1, <2>2, <2>3 DEF OwedInBatch
    <2>7. WrittenFirst' /\ BatchPhase'
      BY Zenon, <2>1, <2>2, <2>3, <2>4 DEF WrittenFirst, BatchPhase
    <2> QED
      BY Zenon, <1>c, <1>p, <2>1, <2>5, <2>6, <2>7 DEF DataInv
  <1>3. CASE Data!TimeLogAddFails
    <2>1. /\ renewer = "add" /\ batch' = {}
          /\ owed' = [b \in BucketShards |-> IF b \in batch THEN 0 ELSE owed[b]]
          /\ UNCHANGED <<clock, changeStatus, curCycle, call, renewer, stamp, lastEntry>>
      BY Zenon, <1>3 DEF Data!TimeLogAddFails, Data!callVars
    <2>2. owed' \in [BucketShards -> Nat]
          /\ \A b \in BucketShards : (b \in batch => owed'[b] = 0) /\ (b \notin batch => owed'[b] = owed[b])
      BY Zenon, <1>t, <2>1
    <2>3. DataTypes'
      BY Zenon, <1>h, <2>1, <2>2 DEF DataTypes
    <2>4. InThePast'
      BY SMT, Z3, <1>h, <1>t, <2>1, <2>2 DEF InThePast
    <2>5. OwedInBatch'
      BY SMT, Z3, <1>h, <1>t, <2>1, <2>2 DEF OwedInBatch
    <2>6. WrittenFirst' /\ BatchPhase'
      BY Zenon, <2>1 DEF WrittenFirst, BatchPhase
    <2> QED
      BY Zenon, <1>c, <2>1, <2>3, <2>4, <2>5, <2>6 DEF DataInv
  <1>4. ASSUME NEW b \in BucketShards, Data!UpdateRenewed(b) PROVE DataInv'
    <2>1. /\ renewer = "update" /\ b \in Data!AtIndex /\ batch' = batch \ {b}
          /\ renewer' = IF Data!AtIndex = {b} THEN "add" ELSE "update"
          /\ UNCHANGED <<clock, curCycle, call, stamp, lastEntry, owed>>
      BY Zenon, <1>4 DEF Data!UpdateRenewed, Data!callVars
    <2>2. PICK s \in Data!Statuses : \E old \in {changeStatus[s], Data!NewStatus} :
              /\ Data!GetChange(b, s, old)
              /\ changeStatus' = [changeStatus EXCEPT ![s] = [old EXCEPT !.expiration = stamp.add + Window]]
      BY Zenon, <1>4 DEF Data!UpdateRenewed
    <2>3. PICK old \in {changeStatus[s], Data!NewStatus} :
              /\ Data!GetChange(b, s, old)
              /\ changeStatus' = [changeStatus EXCEPT ![s] = [old EXCEPT !.expiration = stamp.add + Window]]
      BY Zenon, <2>2
    <2> DEFINE new == [old EXCEPT !.expiration = stamp.add + Window]
    <2>4. new \in StatusType /\ new.pending = old.pending /\ new.cond = old.cond
      <3>1. old \in StatusType
        <4>1. changeStatus[s] \in StatusType
          BY Zenon, <1>t
        <4>2. Data!NewStatus \in StatusType
          BY Zenon DEF Data!NewStatus, StatusType
        <4> QED
          BY Zenon, <4>1, <4>2
      <3>2. stamp.add + Window \in Nat
        BY SMT, Z3, <1>t, DataFacts
      <3> QED
        BY Zenon, <3>1, <3>2 DEF StatusType
    <2>5. changeStatus' = [changeStatus EXCEPT ![s] = new]
      BY Zenon, <2>3
    <2> HIDE DEF new
    <2>6. PendingHasSender' /\ WaiterHasSender'
      BY Zenon, <2>1, <2>3, <2>4, <2>5, GetChangeFacts, SendersKept
    <2>7. DataTypes'
      <3>1. changeStatus' \in [Data!Statuses -> StatusType] /\ batch' \subseteq BucketShards
        BY Zenon, <1>t, <2>1, <2>4, <2>5
      <3> QED
        BY Zenon, <1>h, <2>1, <3>1 DEF DataTypes
    <2>8. lastEntry[b] >= stamp.entries
      BY Zenon, <1>h, <2>1 DEF WrittenFirst
    <2>9. OwedInBatch'
      <3> SUFFICES ASSUME NEW x \in BucketShards, owed[x] > lastEntry[x], x \notin curCycle
                   PROVE  x \in batch \ {b} /\ owed[x] <= stamp.entries
        BY Zenon, <2>1 DEF OwedInBatch
      <3>1. x \in batch /\ owed[x] <= stamp.entries
        BY Zenon, <1>h DEF OwedInBatch
      <3>2. x # b
        BY SMT, Z3, <1>t, <2>8, <3>1
      <3> QED
        BY Zenon, <3>1, <3>2
    <2>10. WrittenFirst'
      <3> SUFFICES ASSUME renewer' = "update", NEW x \in Data!AtIndex'
                   PROVE  lastEntry[x] >= stamp.entries
        BY Zenon, <2>1 DEF WrittenFirst
      <3>1. PICK y \in Data!AtIndex : y # b
        BY Zenon, <2>1
      <3>2. /\ x \in batch /\ y \in batch /\ y \in batch' /\ ChooseOid[x] <= ChooseOid[y]
            /\ \A z \in batch : ChooseOid[y] <= ChooseOid[z]
        BY Zenon, <2>1, <3>1 DEF Data!AtIndex
      <3>3. \A z \in batch : ChooseOid[z] \in Nat
        BY Zenon, <1>t, DataFacts
      <3>4. x \in Data!AtIndex
        BY SMT, Z3, <3>2, <3>3 DEF Data!AtIndex
      <3> QED
        BY Zenon, <1>h, <2>1, <3>4 DEF WrittenFirst
    <2>11. BatchPhase'
      BY Zenon, <2>1 DEF BatchPhase
    <2> QED
      BY Zenon, <1>p, <2>1, <2>6, <2>7, <2>9, <2>10, <2>11 DEF DataInv
  <1>5. CASE Data!Round \/ Data!AfterWait
    <2>1. /\ batch = {} /\ batch' = {}
          /\ renewer' \in {"exited", "wait", "swap"}
          /\ \/ stamp' = [entries |-> 0, add |-> 0]
             \/ stamp' = stamp
          /\ UNCHANGED <<clock, changeStatus, curCycle, call, lastEntry, owed>>
      BY Zenon, <1>5, <1>h DEF Data!Round, Data!AfterWait, Data!callVars, BatchPhase
    <2>2. stamp' \in [entries : Nat, add : Nat]
      BY SMT, Z3, <1>t, <2>1
    <2>3. DataTypes'
      BY Zenon, <1>h, <2>1, <2>2 DEF DataTypes
    <2>4. OwedInBatch'
      BY Zenon, <1>h, <2>1 DEF OwedInBatch
    <2>5. WrittenFirst' /\ BatchPhase'
      BY Zenon, <2>1 DEF WrittenFirst, BatchPhase
    <2> QED
      BY Zenon, <1>c, <1>p, <2>1, <2>3, <2>4, <2>5 DEF DataInv
  <1>6. CASE Data!GoDown
    <2>1. UNCHANGED <<clock, changeStatus, curCycle, call, renewer, batch, stamp, lastEntry, owed>>
      BY Zenon, <1>6 DEF Data!GoDown, Data!callVars, Data!threadVars
    <2>2. DataTypes'
      BY Zenon, <1>h, <2>1 DEF DataTypes
    <2>3. OwedInBatch' /\ WrittenFirst' /\ BatchPhase'
      BY Zenon, <2>1, ChangesKept DEF changeVars
    <2> QED
      BY Zenon, <1>c, <1>p, <2>1, <2>2, <2>3 DEF DataInv
  <1>7. CASE Data!Tick
    <2>1. clock' = clock + 1
          /\ UNCHANGED <<changeStatus, curCycle, call, renewer, batch, stamp, lastEntry, owed>>
      BY Zenon, <1>7 DEF Data!Tick, Data!callVars, Data!threadVars
    <2>2. DataTypes'
      BY SMTT(30), Z3T(30), <1>h, <1>t, <2>1 DEF DataTypes
    <2>3. InThePast'
      <3>1. \A c \in Callers : call[c].now \in Nat /\ call[c].now <= clock
        BY Zenon, <1>h DEF DataTypes, InThePast, CallType
      <3> QED
        BY SMT, Z3, <1>t, <2>1, <3>1 DEF InThePast
    <2>4. OwedInBatch' /\ WrittenFirst' /\ BatchPhase'
      BY Zenon, <1>h, <2>1 DEF OwedInBatch, WrittenFirst, BatchPhase, Data!AtIndex
    <2> QED
      BY Zenon, <1>c, <2>1, <2>2, <2>3, <2>4 DEF DataInv
  <1> QED
    BY Zenon, <1>1, <1>2, <1>3, <1>4, <1>5, <1>6, <1>7 DEF Data!Renew

LEMMA DataStep == DataInv /\ [Data!Next]_(Data!vars) => DataInv'
  <1> SUFFICES ASSUME DataInv, [Data!Next]_(Data!vars) PROVE DataInv'
    BY Zenon
  <1>1. CASE UNCHANGED Data!vars
    BY Zenon, <1>1 DEF Data!vars, DataInv, DataTypes, InThePast, OwedInBatch, WrittenFirst, BatchPhase,
       Data!AtIndex,
                PendingHasSender, WaiterHasSender
  <1> QED
    BY Zenon, <1>1, CallStep, RenewStep DEF Data!Next

\* RGWDataChangesLog::add_entry() and renew_entries(), with any number of callers and any
\* size of the map: a change that is answered without an entry of its own stays in cur_cycle
\* or in the batch under renewal until it has one or the write of its batch fails, and a
\* waiter has a sender to wait for.
THEOREM ChangesAreKept == Data!Spec => []ChangeIsKept
  <1>1. DataInv => ChangeIsKept
    BY Zenon DEF ChangeIsKept, DataInv, OwedInBatch, WaiterHasSender, Data!ChangeIsKept,
       Data!WaitsForSender
  <1> QED
    BY <1>1, DataInit, DataStep, PTL DEF Data!Spec

-----------------------------------------------------------------------------
(* The garbage collector.                                                  *)

LEMMA GcFacts ==
    /\ TagChain \in [Tags -> SUBSET Objects]
    /\ MaxSecs \in Nat /\ MinWait \in Nat /\ GcMaxTime \in Nat \ {0}
    /\ NoProcessor \notin Processors
  BY Zenon, GcAssumption DEF Garbage!GcAssumption

\* The steps that process() has still to take before it unlocks.
Collecting == {"list", "entry", "objs", "chunk"}

\* An object is referred to only by the tags whose chain it is in.
RefsInChain == \A o \in Objects : \A t \in gcRefs[o] : o \in TagChain[t]

Dropped(t, o) == t \in skipped \/ t \notin gcRefs[o]

\* The objects of the current chain that are done with are dropped by its tag, as long as
\* remove_tag stands.
ChainProgress ==
    \A p \in Processors :
        gcPc[p] = "objs" =>
              /\ current[p] \in Tags
              /\ removeTag[p] => \A o \in TagChain[current[p]] \ objs[p] : Dropped(current[p], o)

\* The tags collected in remove_tags have no object left.
RemovableDropped ==
    \A p \in Processors : \A t \in removeTags[p] : \A o \in Objects : Dropped(t, o)

\* A processor whose time is not over has the lock at least until then.
LockOutlasts ==
    \A p \in Processors :
        /\ gcPc[p] = "lock" => gcEnd[p] <= gcClock + MaxSecs
        /\ gcPc[p] \in Collecting /\ gcClock < gcEnd[p] => gcLock.by = p /\ gcEnd[p] <= gcLock.until

GcInv ==
    /\ Garbage!TypeOK /\ removeTag \in [Processors -> BOOLEAN] /\ gcSent \subseteq Tags
    /\ current \in [Processors -> Tags \cup {NoTag}]
    /\ objs \in [Processors -> SUBSET Objects]
    /\ RefsInChain /\ ChainProgress /\ RemovableDropped /\ LockOutlasts
    /\ Garbage!NothingIsLost

LEMMA GcInit == Garbage!Init => GcInv
  <1> SUFFICES ASSUME Garbage!Init PROVE GcInv
    BY Zenon
  <1> USE GcFacts DEF Garbage!Init
  <1>1. Garbage!TypeOK
    BY SMT, Z3 DEF Garbage!TypeOK, Garbage!Unlocked
  <1>2. removeTag \in [Processors -> BOOLEAN] /\ gcSent \subseteq Tags
        /\ current \in [Processors -> Tags \cup {NoTag}] /\ objs \in [Processors -> SUBSET Objects]
    BY Zenon
  <1>3. RefsInChain
    BY Zenon DEF RefsInChain
  <1>4. ChainProgress /\ RemovableDropped /\ LockOutlasts /\ Garbage!NothingIsLost
    BY Zenon DEF ChainProgress, RemovableDropped, LockOutlasts, Collecting, Garbage!NothingIsLost
  <1> QED
    BY Zenon, <1>1, <1>2, <1>3, <1>4 DEF GcInv

LEMMA Later ==
    ASSUME NEW c \in 1 .. GcMaxTime
    PROVE  c + MinWait \in 1 .. GcMaxTime + MinWait
  BY SMT, Z3, GcFacts

LEMMA GcStep == GcInv /\ [Garbage!Next]_(Garbage!vars) => GcInv'
  <1> SUFFICES ASSUME GcInv, [Garbage!Next]_(Garbage!vars) PROVE GcInv'
    BY Zenon
  <1> USE GcFacts DEF GcInv, Garbage!TypeOK
  <1>1. ASSUME NEW t \in Tags, Garbage!SendChain(t) \/ Garbage!DeferChain(t) PROVE GcInv'
    <2>1. gcClock + MinWait \in 1 .. GcMaxTime + MinWait
      <3>1. gcClock \in 1 .. GcMaxTime
        BY Zenon
      <3> QED
        BY ONLY Zenon, <3>1, Later
    <2>2. index' = [index EXCEPT ![t] = gcClock + MinWait]
      BY Zenon, <1>1 DEF Garbage!SendChain, Garbage!DeferChain
    <2>3. gcSent' = gcSent \cup {t} \/ (gcSent' = gcSent /\ index[t] # 0)
      BY Zenon, <1>1 DEF Garbage!SendChain, Garbage!DeferChain
    <2>4. UNCHANGED <<gcClock, gcRefs, gcLock, gcPc, gcEnd, Garbage!workVars, gcDown, skipped>>
      BY Zenon, <1>1 DEF Garbage!SendChain, Garbage!DeferChain
    <2>5. Garbage!NothingIsLost'
      BY SMT, Z3, <2>1, <2>2, <2>3, <2>4 DEF Garbage!NothingIsLost
    <2>6. Garbage!TypeOK' /\ removeTag' \in [Processors -> BOOLEAN] /\ gcSent' \subseteq Tags
          /\ current' \in [Processors -> Tags \cup {NoTag}] /\ objs' \in [Processors -> SUBSET Objects]
      BY SMTT(30), Z3T(30), <2>1, <2>2, <2>3, <2>4 DEF Garbage!workVars
    <2>7. RefsInChain' /\ ChainProgress' /\ RemovableDropped'
      BY Zenon, <2>4 DEF RefsInChain, ChainProgress, RemovableDropped, Dropped, Garbage!workVars
    <2>8. LockOutlasts'
      BY Zenon, <2>4 DEF LockOutlasts
    <2> QED
      BY Zenon, <2>5, <2>6, <2>7, <2>8
  <1>f. ASSUME NEW t \in Tags, Garbage!SendFails(t) PROVE GcInv'
    <2>1. /\ gcSent' = gcSent \cup {t} /\ skipped' = skipped \cup {t}
          /\ UNCHANGED <<gcClock, index, gcRefs, gcLock, gcPc, gcEnd, Garbage!workVars, gcDown>>
      BY Zenon, <1>f DEF Garbage!SendFails
    <2>2. Garbage!NothingIsLost' /\ RefsInChain' /\ ChainProgress' /\ RemovableDropped'
      BY Zenon, <2>1 DEF Garbage!NothingIsLost, RefsInChain, ChainProgress, RemovableDropped, Dropped,
         Garbage!workVars
    <2>3. Garbage!TypeOK' /\ removeTag' \in [Processors -> BOOLEAN] /\ gcSent' \subseteq Tags
          /\ current' \in [Processors -> Tags \cup {NoTag}] /\ objs' \in [Processors -> SUBSET Objects]
      BY Zenon, <2>1 DEF Garbage!workVars
    <2>4. LockOutlasts'
      BY Zenon, <2>1 DEF LockOutlasts
    <2> QED
      BY Zenon, <2>2, <2>3, <2>4
  <1>l. ASSUME NEW p \in Processors, NEW l, Garbage!Leave(p, l), l \in {"idle", "crashed"},
               gcLock' = gcLock \/ (gcLock.by = p /\ gcLock' = Garbage!Unlocked)
        PROVE  GcInv'
    <2>1. Garbage!TypeOK' /\ removeTag' \in [Processors -> BOOLEAN] /\ gcSent' \subseteq Tags
          /\ current' \in [Processors -> Tags \cup {NoTag}] /\ objs' \in [Processors -> SUBSET Objects]
      BY SMTT(30), Z3T(30), <1>l DEF Garbage!Leave, Garbage!storeVars, Garbage!Unlocked
    <2>2. RefsInChain' /\ Garbage!NothingIsLost'
      BY Zenon, <1>l DEF Garbage!Leave, Garbage!storeVars, RefsInChain, Garbage!NothingIsLost
    <2>3. ChainProgress' /\ RemovableDropped'
      BY SMTT(30), Z3T(30), <1>l DEF Garbage!Leave, Garbage!storeVars, ChainProgress, RemovableDropped, Dropped
    <2>4. LockOutlasts'
      BY Zenon, <1>l DEF Garbage!Leave, LockOutlasts, Collecting
    <2> QED
      BY Zenon, <2>1, <2>2, <2>3, <2>4
  <1>2. ASSUME NEW p \in Processors, Garbage!Process(p) PROVE GcInv'
    <2>1. Garbage!TypeOK' /\ removeTag' \in [Processors -> BOOLEAN] /\ gcSent' \subseteq Tags
          /\ current' \in [Processors -> Tags \cup {NoTag}] /\ objs' \in [Processors -> SUBSET Objects]
      BY SMTT(30), Z3T(30), <1>2 DEF Garbage!Process, Garbage!storeVars, Garbage!workVars
    <2>2. RefsInChain' /\ Garbage!NothingIsLost'
      BY Zenon, <1>2 DEF Garbage!Process, Garbage!storeVars, Garbage!workVars, RefsInChain,
         Garbage!NothingIsLost
    <2>3. ChainProgress' /\ RemovableDropped'
      BY Zenon, <1>2 DEF Garbage!Process, Garbage!storeVars, Garbage!workVars, ChainProgress,
         RemovableDropped, Dropped
    <2>4. LockOutlasts'
      BY SMTT(30), Z3T(30), <1>2 DEF Garbage!Process, LockOutlasts, Collecting
    <2> QED
      BY Zenon, <2>1, <2>2, <2>3, <2>4
  <1>3. ASSUME NEW p \in Processors, Garbage!LockExclusive(p) PROVE GcInv'
    <2>1. Garbage!TypeOK' /\ removeTag' \in [Processors -> BOOLEAN] /\ gcSent' \subseteq Tags
          /\ current' \in [Processors -> Tags \cup {NoTag}] /\ objs' \in [Processors -> SUBSET Objects]
      BY SMTT(30), Z3T(30), <1>3 DEF Garbage!LockExclusive, Garbage!storeVars, Garbage!workVars
    <2>2. RefsInChain' /\ Garbage!NothingIsLost'
      BY Zenon, <1>3 DEF Garbage!LockExclusive, Garbage!storeVars, Garbage!workVars, RefsInChain,
         Garbage!NothingIsLost
    <2>3. ChainProgress' /\ RemovableDropped'
      BY Zenon, <1>3 DEF Garbage!LockExclusive, Garbage!storeVars, Garbage!workVars, ChainProgress,
         RemovableDropped, Dropped
    <2>4. LockOutlasts'
      BY SMTT(30), Z3T(30), <1>3 DEF Garbage!LockExclusive, LockOutlasts, Collecting, Garbage!Held
    <2> QED
      BY Zenon, <2>1, <2>2, <2>3, <2>4
  <1>4. ASSUME NEW p \in Processors, Garbage!List(p) PROVE GcInv'
    <2>1. gcEntries' \in [Processors -> SUBSET Tags]
      BY SMTT(30), Z3T(30), <1>4 DEF Garbage!List
    <2>2. /\ UNCHANGED <<gcClock, gcLock, gcEnd, current, objs, removeTag, removeTags, Garbage!storeVars, skipped>>
          /\ gcPc[p] = "list" /\ \E l \in {"entry", "done"} : gcPc' = [gcPc EXCEPT ![p] = l]
      BY Zenon, <1>4 DEF Garbage!List
    <2>3. RefsInChain' /\ Garbage!NothingIsLost'
      BY Zenon, <2>2 DEF Garbage!storeVars, RefsInChain, Garbage!NothingIsLost
    <2>4. ChainProgress' /\ RemovableDropped'
      BY SMT, Z3, <2>2 DEF Garbage!storeVars, ChainProgress, RemovableDropped, Dropped
    <2>5. LockOutlasts'
      BY Zenon, <2>2 DEF LockOutlasts, Collecting
    <2> QED
      BY Zenon, <2>1, <2>2, <2>3, <2>4, <2>5 DEF Garbage!storeVars
  <1>5. ASSUME NEW p \in Processors, Garbage!NextEntry(p) PROVE GcInv'
    <2>1. UNCHANGED <<gcClock, gcLock, gcEnd, removeTags, Garbage!storeVars, skipped>> /\ gcPc[p] = "entry"
      BY Zenon, <1>5 DEF Garbage!NextEntry
    <2>2. CASE /\ gcPc' = [gcPc EXCEPT ![p] = "done"]
               /\ gcEntries' = [gcEntries EXCEPT ![p] = {}]
               /\ UNCHANGED <<current, objs, removeTag>>
      <3>1. RefsInChain' /\ Garbage!NothingIsLost'
        BY Zenon, <2>1 DEF Garbage!storeVars, RefsInChain, Garbage!NothingIsLost
      <3>2. ChainProgress' /\ RemovableDropped'
        BY Zenon, <2>1, <2>2 DEF Garbage!storeVars, ChainProgress, RemovableDropped, Dropped
      <3>3. LockOutlasts'
        BY Zenon, <2>1, <2>2 DEF LockOutlasts, Collecting
      <3> QED
        BY Zenon, <2>1, <2>2, <3>1, <3>2, <3>3 DEF Garbage!storeVars
    <2>3. ASSUME NEW t \in gcEntries[p],
                 gcEntries' = [gcEntries EXCEPT ![p] = @ \ {t}],
                 current' = [current EXCEPT ![p] = t],
                 objs' = [objs EXCEPT ![p] = TagChain[t]],
                 removeTag' = [removeTag EXCEPT ![p] = TRUE],
                 gcPc' = [gcPc EXCEPT ![p] = "objs"]
          PROVE  GcInv'
      <3>0. t \in Tags /\ TagChain[t] \in SUBSET Objects
        BY Zenon
      <3>1. RefsInChain' /\ Garbage!NothingIsLost'
        BY Zenon, <2>1 DEF Garbage!storeVars, RefsInChain, Garbage!NothingIsLost
      <3>2. ChainProgress'
        BY Zenon, <2>1, <2>3, <3>0 DEF Garbage!storeVars, ChainProgress, Dropped
      <3>3. RemovableDropped'
        BY Zenon, <2>1 DEF Garbage!storeVars, RemovableDropped, Dropped
      <3>4. LockOutlasts'
        BY Zenon, <2>1, <2>3 DEF LockOutlasts, Collecting
      <3>5. Garbage!TypeOK'
        BY Zenon, <2>1, <2>3, <3>0 DEF Garbage!storeVars
      <3> QED
        BY Zenon, <2>1, <2>3, <3>0, <3>1, <3>2, <3>3, <3>4, <3>5 DEF Garbage!storeVars
    <2> QED
      BY Zenon, <1>5, <2>2, <2>3 DEF Garbage!NextEntry
  \* An operation on one object of the chain.
  <1>o. ASSUME NEW p \in Processors, gcPc[p] = "objs", NEW o \in objs[p],
               objs' = [objs EXCEPT ![p] = @ \ {o}],
               NEW l \in {"objs", "done"}, gcPc' = [gcPc EXCEPT ![p] = l],
               UNCHANGED <<gcClock, index, gcLock, gcEnd, gcEntries, current, removeTags, gcSent>>,
               \/ /\ gcRefs' = [gcRefs EXCEPT ![o] = @ \ {current[p]}]
                  /\ UNCHANGED <<removeTag, skipped>>
               \/ /\ removeTag' = [removeTag EXCEPT ![p] = FALSE]
                  /\ UNCHANGED <<gcRefs, skipped>>
               \/ /\ skipped' = skipped \cup {current[p]}
                  /\ UNCHANGED <<gcRefs, removeTag>>
        PROVE  GcInv'
    <2>0. o \in Objects
      BY Zenon
    <2>1. /\ gcRefs' \in [Objects -> SUBSET Tags]
          /\ \A x \in Objects : gcRefs'[x] \subseteq gcRefs[x]
          /\ skipped \subseteq skipped'
      BY SMTT(30), Z3T(30), <1>o
    <2>2. \A t \in Tags, x \in Objects : Dropped(t, x) => Dropped(t, x)'
      BY Zenon, <2>1 DEF Dropped
    <2>3. RefsInChain'
      BY Zenon, <2>1 DEF RefsInChain
    <2>4. Garbage!NothingIsLost'
      BY Zenon, <1>o, <2>1 DEF Garbage!NothingIsLost
    <2>5. RemovableDropped'
      BY Zenon, <1>o, <2>2 DEF RemovableDropped
    <2>6. removeTag'[p] => removeTag[p] /\ Dropped(current[p], o)'
      BY SMT, Z3, <1>o, <2>0 DEF Dropped
    <2>7. ChainProgress'
      <3> SUFFICES ASSUME NEW q \in Processors, gcPc'[q] = "objs"
                   PROVE  /\ current[q] \in Tags
                          /\ removeTag'[q] =>
                                \A x \in TagChain[current[q]] \ objs'[q] : Dropped(current[q], x)'
        BY Zenon, <1>o DEF ChainProgress, Dropped
      <3>1. /\ current' = current /\ gcPc[q] = "objs" /\ current[q] \in Tags
            /\ removeTag'[q] => removeTag[q]
            /\ TagChain[current[q]] \subseteq Objects
        BY Zenon, <1>o, <2>6 DEF ChainProgress
      <3>2. CASE q = p
        <4>1. objs'[q] = objs[p] \ {o}
          BY Zenon, <1>o, <3>2
        <4> QED
          BY Zenon, <2>2, <2>6, <3>1, <3>2, <4>1 DEF ChainProgress
      <3>3. CASE q # p
        <4>1. objs'[q] = objs[q]
          BY Zenon, <1>o, <3>3
        <4> QED
          BY Zenon, <2>2, <3>1, <4>1 DEF ChainProgress
      <3> QED
        BY Zenon, <3>2, <3>3
    <2>8. LockOutlasts'
      BY Zenon, <1>o DEF LockOutlasts, Collecting
    <2>9. Garbage!TypeOK' /\ removeTag' \in [Processors -> BOOLEAN] /\ gcSent' \subseteq Tags
          /\ current' \in [Processors -> Tags \cup {NoTag}] /\ objs' \in [Processors -> SUBSET Objects]
      <3>1. objs' \in [Processors -> SUBSET Objects]
        BY Zenon, <1>o
      <3>2. removeTag' \in [Processors -> BOOLEAN]
        BY Zenon, <1>o
      <3> QED
        BY Zenon, <1>o, <2>1, <3>1, <3>2
    <2> QED
      BY Zenon, <2>3, <2>4, <2>5, <2>7, <2>8, <2>9
  <1>6. ASSUME NEW p \in Processors, Garbage!RefcountPut(p) \/ Garbage!RefcountPutFails(p) \/ Garbage!PoolFails(p)
        PROVE  GcInv'
    <2>1. gcPc[p] = "objs" /\ gcPc \in [Processors -> {"idle", "lock", "list", "entry", "objs", "chunk",
                                                       "done", "unlock", "crashed"}]
      BY Zenon, <1>6 DEF Garbage!RefcountPut, Garbage!RefcountPutFails, Garbage!PoolFails
    <2>2. \E l \in {"objs", "done"} : gcPc' = [gcPc EXCEPT ![p] = l]
      BY Zenon, <1>6, <2>1 DEF Garbage!RefcountPut, Garbage!RefcountPutFails, Garbage!PoolFails,
         Garbage!GoOn
    <2>3. UNCHANGED <<gcClock, index, gcLock, gcEnd, gcEntries, current, removeTags, gcSent>>
      BY Zenon, <1>6 DEF Garbage!RefcountPut, Garbage!RefcountPutFails, Garbage!PoolFails,
         Garbage!storeVars
    <2>4. \E o \in objs[p] :
            /\ objs' = [objs EXCEPT ![p] = @ \ {o}]
            /\ \/ /\ gcRefs' = [gcRefs EXCEPT ![o] = @ \ {current[p]}]
                  /\ UNCHANGED <<removeTag, skipped>>
               \/ /\ removeTag' = [removeTag EXCEPT ![p] = FALSE]
                  /\ UNCHANGED <<gcRefs, skipped>>
               \/ /\ skipped' = skipped \cup {current[p]}
                  /\ UNCHANGED <<gcRefs, removeTag>>
      BY Zenon, <1>6 DEF Garbage!RefcountPut, Garbage!RefcountPutFails, Garbage!PoolFails,
         Garbage!storeVars
    <2> QED
      BY Zenon, <1>o, <2>1, <2>2, <2>3, <2>4
  <1>7. ASSUME NEW p \in Processors, Garbage!EndChain(p) PROVE GcInv'
    <2>1. /\ gcPc[p] = "objs" /\ objs[p] = {} /\ current[p] \in Tags
          /\ UNCHANGED <<gcClock, gcLock, gcEnd, gcEntries, current, objs, removeTag, Garbage!storeVars, skipped>>
          /\ \E l \in {"chunk", "entry"} : gcPc' = [gcPc EXCEPT ![p] = l]
      BY Zenon, <1>7 DEF Garbage!EndChain, ChainProgress
    <2>2. \/ removeTags' = removeTags
          \/ removeTag[p] /\ removeTags' = [removeTags EXCEPT ![p] = @ \cup {current[p]}]
      BY Zenon, <1>7 DEF Garbage!EndChain
    <2>3. removeTag[p] => \A o \in Objects : Dropped(current[p], o)
      BY Zenon, <2>1 DEF ChainProgress, RefsInChain, Dropped
    <2>4. RemovableDropped'
      BY SMT, Z3, <2>1, <2>2, <2>3 DEF RemovableDropped, Dropped, Garbage!storeVars
    <2>5. RefsInChain' /\ Garbage!NothingIsLost'
      BY Zenon, <2>1 DEF Garbage!storeVars, RefsInChain, Garbage!NothingIsLost
    <2>6. ChainProgress'
      BY SMT, Z3, <2>1 DEF Garbage!storeVars, ChainProgress, Dropped
    <2>7. LockOutlasts'
      BY Zenon, <2>1 DEF LockOutlasts, Collecting
    <2>8. Garbage!TypeOK'
      BY SMTT(30), Z3T(30), <2>1, <2>2 DEF Garbage!storeVars
    <2> QED
      BY Zenon, <2>1, <2>4, <2>5, <2>6, <2>7, <2>8 DEF Garbage!storeVars
  <1>8. ASSUME NEW p \in Processors, Garbage!Remove(p) PROVE GcInv'
    <2>1. /\ gcPc[p] \in {"chunk", "done"}
          /\ \/ index' = index
             \/ index' = [t \in Tags |-> IF t \in removeTags[p] THEN 0 ELSE index[t]]
          /\ removeTags' = [removeTags EXCEPT ![p] = {}]
          /\ \/ gcPc[p] = "chunk" /\ gcPc' = [gcPc EXCEPT ![p] = "entry"]
             \/ gcPc' = [gcPc EXCEPT ![p] = "unlock"]
          /\ UNCHANGED <<gcClock, gcRefs, gcLock, gcEnd, gcEntries, current, objs, removeTag, gcSent, skipped>>
      BY Zenon, <1>8 DEF Garbage!Remove
    <2>2. Garbage!NothingIsLost'
      <3> SUFFICES ASSUME NEW t \in gcSent \ skipped, index'[t] = 0, NEW o \in Objects
                   PROVE  t \notin gcRefs[o]
        BY Zenon, <2>1 DEF Garbage!NothingIsLost
      <3>1. t \in Tags /\ (index[t] = 0 \/ t \in removeTags[p])
        BY Zenon, <2>1
      <3> QED
        BY Zenon, <3>1 DEF Garbage!NothingIsLost, RemovableDropped, Dropped
    <2>3. RefsInChain' /\ RemovableDropped'
      BY Zenon, <2>1 DEF RefsInChain, RemovableDropped, Dropped
    <2>4. ChainProgress'
      BY SMTT(30), Z3T(30), <2>1 DEF ChainProgress, Dropped
    <2>5. LockOutlasts'
      BY SMTT(30), Z3T(30), <2>1 DEF LockOutlasts, Collecting
    <2>6. Garbage!TypeOK'
      BY SMTT(30), Z3T(30), <2>1
    <2> QED
      BY Zenon, <2>1, <2>2, <2>3, <2>4, <2>5, <2>6
  <1>9. ASSUME NEW p \in Processors, Garbage!LockFails(p) \/ Garbage!Crash(p) \/ Garbage!Unlock(p)
        PROVE  GcInv'
    BY Zenon, <1>9, <1>l DEF Garbage!LockFails, Garbage!Crash, Garbage!Unlock
  <1>10. ASSUME NEW p \in Processors, Garbage!StopProcessor(p) PROVE GcInv'
    <2>1. UNCHANGED <<gcClock, gcLock, gcPc, gcEnd, Garbage!workVars, Garbage!storeVars, skipped>>
      BY Zenon, <1>10 DEF Garbage!StopProcessor
    <2>2. RefsInChain' /\ Garbage!NothingIsLost' /\ ChainProgress' /\ RemovableDropped'
      BY Zenon, <2>1 DEF Garbage!storeVars, Garbage!workVars, RefsInChain, Garbage!NothingIsLost,
         ChainProgress, RemovableDropped, Dropped
    <2>3. LockOutlasts'
      BY Zenon, <2>1 DEF LockOutlasts
    <2> QED
      BY Zenon, <2>1, <2>2, <2>3 DEF Garbage!storeVars, Garbage!workVars
  <1>11. CASE Garbage!Tick
    <2>1. gcClock' = gcClock + 1 /\ gcClock < GcMaxTime /\ UNCHANGED <<gcLock, gcPc, gcEnd, Garbage!workVars, Garbage!storeVars, skipped>>
      BY Zenon, <1>11 DEF Garbage!Tick
    <2>2. RefsInChain' /\ Garbage!NothingIsLost' /\ ChainProgress' /\ RemovableDropped'
      BY Zenon, <2>1 DEF Garbage!storeVars, Garbage!workVars, RefsInChain, Garbage!NothingIsLost,
         ChainProgress, RemovableDropped, Dropped
    <2>3. LockOutlasts'
      BY SMTT(30), Z3T(30), <2>1 DEF LockOutlasts
    <2> QED
      BY SMT, Z3, <2>1, <2>2, <2>3 DEF Garbage!storeVars, Garbage!workVars
  <1>12. CASE UNCHANGED Garbage!vars
    <2>1. RefsInChain' /\ Garbage!NothingIsLost' /\ ChainProgress' /\ RemovableDropped'
      BY Zenon, <1>12 DEF Garbage!vars, RefsInChain, Garbage!NothingIsLost, ChainProgress,
         RemovableDropped, Dropped
    <2>2. LockOutlasts'
      BY Zenon, <1>12 DEF Garbage!vars, LockOutlasts
    <2> QED
      BY Zenon, <1>12, <2>1, <2>2 DEF Garbage!vars
  <1> QED
    BY Zenon, <1>1, <1>f, <1>2, <1>3, <1>4, <1>5, <1>6, <1>7, <1>8, <1>9, <1>10, <1>11, <1>12 DEF Garbage!Next,
       Garbage!Processor

LEMMA GcAlways == Garbage!Spec => []GcInv
  BY GcInit, GcStep, PTL DEF Garbage!Spec

\* RGWGC::process(), with any number of processors, tags and objects and any chunk: a tag
\* that came into the index is removed after every object of its chain was released, unless
\* a pool could not be opened, and processors whose time is not over do not work on the index at once.
THEOREM TagsOutliveReferences == Garbage!Spec => []NothingIsLost
  <1>1. GcInv => NothingIsLost
    BY SMT, Z3 DEF NothingIsLost, GcInv, Garbage!TypeOK, LockOutlasts, Collecting, Garbage!OneInTime
  <1> QED
    BY <1>1, GcAlways, PTL

=============================================================================
