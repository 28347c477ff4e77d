------------------------------ MODULE BucketOps ------------------------------
(* Creating and deleting buckets: RGWCreateBucket::execute(),              *)
(* RGWRados::create_bucket() and the calls below them, and                 *)
(* RGWDeleteBucket::execute().  A bucket is a directory, its owner the     *)
(* owner of the directory.  Every look at it and every change of it is a   *)
(* system call or a shell command of its own, and nothing keeps two        *)
(* requests for one name apart.                                            *)
(*                                                                         *)
(* create_bucket() stores the bucket twice, as an instance and as an entry *)
(* point, each time through rgw_put_system_obj(): chown the directory, and *)
(* if that says ENOENT make the directory and chown again.  Neither store  *)
(* ever says EEXIST, so the loop of create_bucket() takes one turn.        *)
EXTENDS Naturals, FiniteSets

CONSTANTS
    Threads,
    Buckets,
    Users,
    Known,          \* the users that getpwnam() finds
    Anonymous,      \* the user of a request without credentials: its user_id is ""
    Root,           \* the owner of what the daemon makes
    NoOne           \* the owner of a bucket that does not exist

BucketOpsAssumption ==
    /\ Known \subseteq Users /\ Anonymous \in Users \ Known
    /\ Root \notin Users /\ NoOne \notin Users /\ Root # NoOne

VARIABLES
    owner,          \* owner of each bucket's directory
    pc,
    req,            \* the bucket and the user of each thread's request
    alone,          \* ghost: no other request touched the bucket since this one began
    told            \* ghost: the users told that they created the bucket that is there

vars == <<owner, pc, req, alone, told>>

Requests == [bucket : Buckets, user : Users]
Looking == {"test", "stat", "instance"}
\* The stores of a creation, first the instance ("i") and then the entry point ("e").
InstanceStates == {"iput", "imkdir", "iroot", "iagain"}
EntryStates == {"eput", "emkdir", "eroot", "eagain"}
Storing == InstanceStates \cup EntryStates
Replies == {"created", "exists", "failed", "deleted", "absent"}
States == {"idle", "rmtest", "rm"} \cup Looking \cup Storing \cup Replies

Exists(b) == owner[b] # NoOne
Bucket(t) == req[t].bucket
User(t) == req[t].user

Init ==
    /\ owner = [b \in Buckets |-> NoOne]
    /\ pc = [t \in Threads |-> "idle"]
    /\ req \in [Threads -> Requests]
    /\ alone = [t \in Threads |-> TRUE]
    /\ told = [b \in Buckets |-> {}]

Go(t, s) == pc' = [pc EXCEPT ![t] = s]

\* The step of t is at its bucket: the other requests for it are not alone.
Touch(t) == alone' = [u \in Threads |-> alone[u] /\ (u = t \/ Bucket(u) # Bucket(t) \/ pc[u] = "idle")]

Keep == UNCHANGED <<req, told>>

Begin(t, b, u, s) ==
    /\ pc[t] = "idle"
    /\ req' = [req EXCEPT ![t] = [bucket |-> b, user |-> u]]
    /\ Go(t, s)
    /\ alone' = [alone EXCEPT ![t] = \A v \in Threads \ {t} : pc[v] = "idle" \/ Bucket(v) # b]
    /\ UNCHANGED <<owner, told>>

-----------------------------------------------------------------------------
(* RGWCreateBucket::execute(): is there such a bucket?                     *)

CreateBucket(t, b, u) == Begin(t, b, u, "test")

\* RGWCreateBucket::verify_permission() returns no value: what its caller reads may
\* be an error.
PermissionLost(t) == pc[t] = "test" /\ Go(t, "failed") /\ Touch(t) /\ Keep /\ UNCHANGED owner

\* get_bucket_entrypoint_info(): the shell tests for the directory.
EntryTest(t) ==
    /\ pc[t] = "test"
    /\ Go(t, IF Exists(Bucket(t)) THEN "stat" ELSE "iput")
    /\ Touch(t) /\ Keep /\ UNCHANGED owner

\* get_bucket_entrypoint_info(): stat() it, to learn the owner.
EntryStat(t) ==
    /\ pc[t] = "stat"
    /\ Go(t, IF Exists(Bucket(t)) THEN "instance" ELSE "iput")
    /\ Touch(t) /\ Keep /\ UNCHANGED owner

InstanceTest_Passes(t) ==
    /\ pc[t] = "instance"
    /\ Go(t, "iput")
    /\ Touch(t) /\ Keep /\ UNCHANGED owner

\* get_bucket_instance_from_oid() tests once more; a bucket that is gone by now is
\* an error other than ENOENT.  A bucket that is there is somebody else's: the policy
\* is never read, and its owner "" is that of an anonymous client only.
InstanceTest(t) ==
    /\ pc[t] = "instance"
    /\ Go(t, IF ~Exists(Bucket(t)) THEN "failed"
             ELSE IF User(t) = Anonymous THEN "iput" ELSE "exists")
    /\ Touch(t) /\ Keep /\ UNCHANGED owner

-----------------------------------------------------------------------------
(* create_bucket(): put_linked_bucket_info() and below.                    *)

CanChown(t) == User(t) \in Known /\ Exists(Bucket(t))
Chown(t, o) == owner' = [owner EXCEPT ![Bucket(t)] = IF @ = NoOne THEN @ ELSE o]

\* What follows a store that worked: the second one, or the answer.
Stored(t) ==
    IF pc[t] \in InstanceStates
    THEN Go(t, "eput") /\ UNCHANGED told
    ELSE Go(t, "created") /\ told' = [told EXCEPT ![Bucket(t)] = @ \cup {User(t)}]

\* put_system_obj(): the "chown" of mon_command().  ENOENT, whether it is the user
\* or the directory that is not there, leads to create_pool().
Put(t) ==
    /\ pc[t] \in {"iput", "eput"}
    /\ \/ CanChown(t) /\ Chown(t, User(t)) /\ Stored(t)
       \/ ~CanChown(t) /\ Go(t, IF pc[t] = "iput" THEN "imkdir" ELSE "emkdir") /\ UNCHANGED <<owner, told>>
    /\ Touch(t) /\ UNCHANGED req

\* pool_create(): mkdir -p.
MkDir(t) ==
    /\ pc[t] \in {"imkdir", "emkdir"}
    /\ owner' = [owner EXCEPT ![Bucket(t)] = IF @ = NoOne THEN Root ELSE @]
    /\ told' = [told EXCEPT ![Bucket(t)] = IF Exists(Bucket(t)) THEN @ ELSE {}]
    /\ Go(t, IF pc[t] = "imkdir" THEN "iroot" ELSE "eroot")
    /\ Touch(t) /\ UNCHANGED req

\* pool_create(): chown to the user of auid 0.
ChownRoot(t) ==
    /\ pc[t] \in {"iroot", "eroot"}
    /\ Chown(t, Root)
    /\ Go(t, IF pc[t] = "iroot" THEN "iagain" ELSE "eagain")
    /\ Touch(t) /\ Keep

Again_NoChown(t) ==
    /\ pc[t] \in {"iagain", "eagain"}
    /\ Go(t, "created")
    /\ Touch(t) /\ Keep /\ UNCHANGED owner

\* rgw_put_system_obj(): the second put_system_obj().
Again(t) ==
    /\ pc[t] \in {"iagain", "eagain"}
    /\ \/ CanChown(t) /\ Chown(t, User(t)) /\ Stored(t)
       \/ ~CanChown(t) /\ Go(t, "failed") /\ UNCHANGED <<owner, told>>
    /\ Touch(t) /\ UNCHANGED req

-----------------------------------------------------------------------------
(* RGWDeleteBucket::execute().                                             *)

DeleteBucket(t, b, u) == Begin(t, b, u, "rmtest")

RmTest(t) ==
    /\ pc[t] = "rmtest"
    /\ Go(t, IF Exists(Bucket(t)) THEN "rm" ELSE "absent")
    /\ Touch(t) /\ Keep /\ UNCHANGED owner

\* rm -rf, which says nothing of a bucket that is gone, and fails when another
\* request fills the directory under its hands.
Rm(t) ==
    /\ pc[t] = "rm"
    /\ \/ owner' = [owner EXCEPT ![Bucket(t)] = NoOne] /\ Go(t, "deleted")
       \/ UNCHANGED owner /\ Go(t, "failed")
    /\ Touch(t) /\ Keep

Respond(t) ==
    /\ pc[t] \in Replies
    /\ Go(t, "idle") /\ alone' = [alone EXCEPT ![t] = TRUE]
    /\ UNCHANGED <<owner, req, told>>

\* The daemon dies and is started again.
Restart ==
    /\ pc' = [t \in Threads |-> "idle"] /\ alone' = [t \in Threads |-> TRUE]
    /\ UNCHANGED <<owner, req, told>>

Step(t) ==
    \/ PermissionLost(t) \/ EntryTest(t) \/ EntryStat(t) \/ InstanceTest(t)
    \/ Put(t) \/ MkDir(t) \/ ChownRoot(t) \/ Again(t)
    \/ RmTest(t) \/ Rm(t) \/ Respond(t)

Next ==
    \/ \E t \in Threads : Step(t)
    \/ \E t \in Threads, b \in Buckets, u \in Users : CreateBucket(t, b, u) \/ DeleteBucket(t, b, u)
    \/ Restart

Spec == Init /\ [][Next]_vars

-----------------------------------------------------------------------------
(* Properties.                                                             *)

TypeOK ==
    /\ owner \in [Buckets -> Users \cup {Root, NoOne}]
    /\ pc \in [Threads -> States]
    /\ req \in [Threads -> Requests]
    /\ alone \in [Threads -> BOOLEAN]
    /\ told \in [Buckets -> SUBSET Users]

\* A creation that was the only request for its bucket and answers success has
\* left the bucket with its user as the owner, whether the directory had to be
\* made or not.
CreatedIsOwned == \A t \in Threads : pc[t] = "created" /\ alone[t] => owner[Bucket(t)] = User(t)

\* A creation is storing the bucket, for a user with a name or for none.
Creating(b) == \E t \in Threads : pc[t] \in Storing /\ Bucket(t) = b /\ User(t) # Anonymous
CreatingUnnamed(b) == \E t \in Threads : pc[t] \in Storing /\ Bucket(t) = b /\ User(t) = Anonymous

Settled(b) == Exists(b) /\ ~Creating(b)

\* A bucket whose creations are over never passes to another user: whoever asks for
\* it, no creation for a user with a name gets past its test for the bucket until the
\* bucket is deleted.  A creation for an anonymous client does get past it, fails, and
\* may leave the bucket to root.
OwnerIsKept ==
    [][\A b \in Buckets :
          Settled(b) => \/ owner'[b] = NoOne
                        \/ Settled(b)' /\ owner'[b] = owner[b]
                        \/ Settled(b)' /\ owner'[b] = Root /\ CreatingUnnamed(b)]_vars

\* Of the creations of one bucket one succeeds: the others are told of the name
\* conflict ("Otherwise inform client about a name conflict").
OneCreator == \A b \in Buckets : Exists(b) => Cardinality(told[b]) <= 1

=============================================================================
