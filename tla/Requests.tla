------------------------------ MODULE Requests ------------------------------
(***************************************************************************)
(* The requests that create buckets and those that read files, beside the  *)
(* ones of ObjectOps that change files.  Each is an instance of its        *)
(* module; a name that another module uses is renamed.                     *)
(***************************************************************************)
EXTENDS Integers, Sequences

\* BucketOps
CONSTANTS Creators, BucketNames, Accounts, Known, Anonymous, RootUser, NoOwner
VARIABLES owner, bucketPc, bucketReq, alone, told
bucketVars == <<owner, bucketPc, bucketReq, alone, told>>
Bucketing == INSTANCE BucketOps WITH
    Threads <- Creators, Buckets <- BucketNames, Users <- Accounts, Root <- RootUser,
    NoOne <- NoOwner, pc <- bucketPc, req <- bucketReq

ASSUME BucketOpsAssumption == Bucketing!BucketOpsAssumption

\* ObjectReads
CONSTANTS Getters, MaxSize, ChunkSize, FdLimit, MaxChanges
VARIABLES readFile, fds, readPc, header, readOfs, end, readSize, left, cur, orphan, sent, calm,
          changes
readerVars == <<readFile, fds, readPc, header, readOfs, end, readSize, left, cur, orphan, sent, calm,
                changes>>
Reads == INSTANCE ObjectReads WITH
    Readers <- Getters, file <- readFile, pc <- readPc, ofs <- readOfs, size <- readSize

ASSUME ReadAssumption == Reads!ReadAssumption

-----------------------------------------------------------------------------
(* What they promise, as stated in their modules.                          *)

\* porting_op.cc: who is told that the bucket was created for them owns it.
CreatedIsOwned == Bucketing!CreatedIsOwned

\* porting_rados.cc: a bucket does not pass to another user while no creation for one is
\* past its test for the bucket; the creation of an anonymous client may leave it to root.
OwnerIsKept == Bucketing!OwnerIsKept

\* porting_op.cc: the body of a GET is a run of consecutive bytes, without a range never
\* longer than Content-Length, and the whole file when nobody disturbs it.
ReadIsExact == Reads!SentInOrder /\ Reads!WithinLength /\ Reads!WholeExact

=============================================================================
