------------------------------ MODULE ObjectOps ------------------------------
(***************************************************************************)
(* The operations that change objects, rgw/porting_op.cc: RGWPutObj,       *)
(* RGWDeleteObj and RGWCopyObj.  An object is a file of the bucket's       *)
(* directory; the number and the total size of a bucket's objects are kept *)
(* in the text file <bucket>/.bucket/stat, which every operation reads,    *)
(* changes and writes back without a lock.                                 *)
(*                                                                         *)
(* Each worker of the thread pool runs one operation at a time; between    *)
(* two steps of one worker the others may take theirs.  A step is one      *)
(* access to the file system.  A file is abstracted to its size in blocks, *)
(* the unit in which the body of a PUT is received.  The process runs as   *)
(* root and takes on the identity of the user with setfsuid(), which is a  *)
(* property of the thread.                                                 *)
(*                                                                         *)
(* Events names what may happen besides uploads of new objects that        *)
(* succeed: "overwrite" (an existing key is uploaded again), "part" (parts *)
(* of a multipart upload), "delete", "copy", "others" (users with a grant  *)
(* who do not own the bucket, and anonymous clients: their user's auid is  *)
(* the default 0, so that drop_privs() leaves them root), "early" (a PUT   *)
(* is refused before it opens its file), "quota" (it is over quota),       *)
(* "open", "write", "recv", "rm" (the call fails: no descriptors, no       *)
(* space, a lost client, no process), "crash" (the daemon dies and is      *)
(* started again), and "serial" (the clients of a bucket send one request  *)
(* at a time).                                                             *)
(***************************************************************************)
EXTENDS Integers, FiniteSets, FiniteSetsExt, Functions

CONSTANTS Workers, Buckets, Keys,
          Users,        \* the users of the gateway
          Owner,        \* the owner of each bucket
          Root,         \* uid 0, and the identity of an anonymous client
          NoOne,        \* owner of a stat file that does not exist
          MaxBlocks,    \* bound: blocks in the body of one PUT
          MaxFile,      \* bound: blocks in a file that parts are appended to
          MaxStat,      \* bound: a PUT starts while both figures of the stat
                        \* file are below it, a DELETE while above -MaxStat
          IntMod,       \* 2^32: the width of atoi()'s result
          Events

EventNames == {"overwrite", "part", "delete", "copy", "others", "early", "quota",
               "open", "write", "recv", "rm", "crash", "serial"}

ASSUME ObjectOpsAssumption ==
    /\ Owner \in [Buckets -> Users]
    /\ Root \notin Users /\ NoOne \notin Users \cup {Root}
    /\ MaxBlocks \in Nat /\ MaxFile \in Nat /\ MaxStat \in Nat
    /\ IntMod \in Nat \ {0}
    /\ Events \subseteq EventNames

ASSUME FiniteStore == IsFiniteSet(Buckets) /\ IsFiniteSet(Buckets \X Keys)

VARIABLES
    file,      \* the size of each object's file, or Absent
    stat,      \* the stat file of each bucket: its owner and what it says
    pc,        \* where each worker is
    req,       \* the request it executes
    fd,        \* the object that the file it has opened is linked to
    ofs,       \* blocks received
    info,      \* the sys_info it has read and changed
    fsuid,     \* its file system identity
    oldUid,    \* old_uid
    ret,       \* ret: what the client is told
    calm       \* history, not in the code: see Disturbed

workerVars == <<pc, req, fd, ofs, info, fsuid, oldUid, ret>>
vars == <<file, stat, workerVars, calm>>

Absent == -1
Objects == Buckets \X Keys
NoObject == <<>>
Kinds == {"put", "part", "delete"}
NoStat == [owner |-> NoOne, entries |-> 0, size |-> 0]
Zero == [entries |-> 0, size |-> 0]

NoRequest == [kind |-> "put", obj |-> NoObject, size |-> 0, user |-> Root]

WorkerStates == {"idle", "write", "rm", "parse", "sync", "fputs", "restore"}

Idle(w) == pc[w] = "idle"
Happens(e) == e \in Events

Init ==
    /\ file = [o \in Objects |-> Absent]
    /\ stat = [b \in Buckets |-> NoStat]
    /\ pc = [w \in Workers |-> "idle"]
    /\ req = [w \in Workers |-> NoRequest]
    /\ fd = [w \in Workers |-> NoObject]
    /\ ofs = [w \in Workers |-> 0]
    /\ info = [w \in Workers |-> Zero]
    /\ fsuid = [w \in Workers |-> Root]
    /\ oldUid = [w \in Workers |-> Root]
    /\ ret = [w \in Workers |-> "ok"]
    /\ calm = [w \in Workers |-> FALSE]

-----------------------------------------------------------------------------
(* The file system.                                                        *)

\* The bucket's directory and .bucket below it belong to the owner, mode 0755.
MayCreate(u, b) == u \in {Root, Owner[b]}

\* The stat file has the default mode 0644 of fopen().
MayWriteStat(u, b) ==
    IF stat[b].owner = NoOne THEN MayCreate(u, b) ELSE u \in {Root, stat[b].owner}

\* An object's file has been given mode 07777 by the PUT that created it.
MayOpen(u, o) == file[o] # Absent \/ MayCreate(u, o[1])

\* The descriptors that refer to the file named o now refer to p.
Relink(f, o, p) == [w \in Workers |-> IF f[w] = o THEN p ELSE f[w]]

\* The text is converted with atoi(), whatever was printed with %lld.
Atoi(n) == ((n + IntMod \div 2) % IntMod) - IntMod \div 2

\* Who may send a request for object o, and when.
Requested(w, u, o) ==
    /\ Idle(w)
    /\ u = Owner[o[1]] \/ Happens("others")
    /\ Happens("serial") =>
           \A v \in Workers : ~Idle(v) => req[v].obj[1] # o[1]

\* calm[w]: since the PUT of w opened its file no other request has named the
\* object, none was in progress then or had the file open, and no write() of the
\* PUT has failed.  Worker w starts a request that names the objects in S.
Disturbed(w, S) == [v \in Workers |-> v # w /\ calm[v] /\ req[v].obj \notin S]

\* Nobody but w has a request for object o in progress, or its file open.
Alone(w, o) == \A v \in Workers \ {w} : o \notin {req[v].obj, fd[v]}

-----------------------------------------------------------------------------
(* RGWPutObj::execute()                                                    *)

PutRequested(w, u, kind, o) ==
    /\ Requested(w, u, o)
    /\ kind \in {"put"} \cup (IF Happens("part") THEN {"part"} ELSE {})
    /\ kind = "put" /\ ~Happens("overwrite") => file[o] = Absent
    /\ stat[o[1]].entries < MaxStat /\ stat[o[1]].size < MaxStat

NewRequest(w, u, kind, o, size) ==
    req' = [req EXCEPT ![w] = [kind |-> kind, obj |-> o, size |-> size, user |-> u]]

\* drop_privs(): setfsuid() returns the previous identity.
DropPrivs(w, u) ==
    /\ oldUid' = [oldUid EXCEPT ![w] = fsuid[w]]
    /\ fsuid' = [fsuid EXCEPT ![w] = u]

\* No object name, bad parameters or a malformed digest: on to the label done,
\* still as root.
PutRefused(w, u, kind, o) ==
    /\ Happens("early")
    /\ PutRequested(w, u, kind, o)
    /\ NewRequest(w, u, kind, o, 0)
    /\ ret' = [ret EXCEPT ![w] = "error"]
    /\ oldUid' = [oldUid EXCEPT ![w] = Root]
    /\ pc' = [pc EXCEPT ![w] = "parse"]
    /\ calm' = Disturbed(w, {o})
    /\ UNCHANGED <<file, stat, fd, ofs, info, fsuid>>

PutOpen_NoTrunc(w, u, kind, o) ==
    /\ PutRequested(w, u, kind, o)
    /\ MayOpen(u, o)
    /\ DropPrivs(w, u)
    /\ file' = [file EXCEPT ![o] = IF @ # Absent THEN @ ELSE 0]
    /\ fd' = [fd EXCEPT ![w] = o]
    /\ ofs' = [ofs EXCEPT ![w] = 0]
    /\ NewRequest(w, u, kind, o, 0)
    /\ ret' = [ret EXCEPT ![w] = "ok"]
    /\ pc' = [pc EXCEPT ![w] = "write"]
    /\ calm' = [Disturbed(w, {o}) EXCEPT ![w] = kind = "put" /\ Alone(w, o)]
    /\ UNCHANGED <<stat, info>>

\* drop_privs(), then open() with O_TRUNC, or O_APPEND for a part; chmod().
PutOpen(w, u, kind, o) ==
    /\ PutRequested(w, u, kind, o)
    /\ MayOpen(u, o)
    /\ DropPrivs(w, u)
    /\ file' = [file EXCEPT ![o] = IF kind = "part" /\ @ # Absent THEN @ ELSE 0]
    /\ fd' = [fd EXCEPT ![w] = o]
    /\ ofs' = [ofs EXCEPT ![w] = 0]
    /\ NewRequest(w, u, kind, o, 0)
    /\ ret' = [ret EXCEPT ![w] = "ok"]
    /\ pc' = [pc EXCEPT ![w] = "write"]
    /\ calm' = [Disturbed(w, {o}) EXCEPT ![w] = kind = "put" /\ Alone(w, o)]
    /\ UNCHANGED <<stat, info>>

\* open() fails: on to done, with ret still 0.
PutOpenFails(w, u, kind, o) ==
    /\ PutRequested(w, u, kind, o)
    /\ Happens("open") \/ ~MayOpen(u, o)
    /\ DropPrivs(w, u)
    /\ NewRequest(w, u, kind, o, 0)
    /\ ret' = [ret EXCEPT ![w] = "ok"]
    /\ pc' = [pc EXCEPT ![w] = "parse"]
    /\ calm' = Disturbed(w, {o})
    /\ UNCHANGED <<file, stat, fd, ofs, info>>

PutData_LastLost(w) ==
    /\ pc[w] = "write"
    /\ ofs[w] < MaxBlocks
    /\ req[w].kind = "part" /\ fd[w] # NoObject => file[fd[w]] < MaxFile
    /\ ofs' = [ofs EXCEPT ![w] = @ + 1]
    /\ file' = IF fd[w] = NoObject THEN file
               ELSE [file EXCEPT ![fd[w]] = IF req[w].kind = "part"
                                            THEN @ + 1
                                            ELSE Max({@, ofs[w]})]
    /\ UNCHANGED <<stat, pc, req, fd, info, fsuid, oldUid, ret, calm>>

\* get_data() returns a block and write() appends it, or puts it at the
\* descriptor's own offset.  The file may have been unlinked meanwhile.
PutData(w) ==
    /\ pc[w] = "write"
    /\ ofs[w] < MaxBlocks
    /\ req[w].kind = "part" /\ fd[w] # NoObject => file[fd[w]] < MaxFile
    /\ ofs' = [ofs EXCEPT ![w] = @ + 1]
    /\ file' = IF fd[w] = NoObject THEN file
               ELSE [file EXCEPT ![fd[w]] = IF req[w].kind = "part"
                                            THEN @ + 1
                                            ELSE Max({@, ofs[w] + 1})]
    /\ UNCHANGED <<stat, pc, req, fd, info, fsuid, oldUid, ret, calm>>

\* get_data() fails and sets ret, or write() fails and does not; s->obj_size
\* has not been assigned.
PutDataFails(w) ==
    /\ pc[w] = "write"
    /\ \/ Happens("recv") /\ ret' = [ret EXCEPT ![w] = "error"] /\ UNCHANGED calm
       \/ Happens("write") /\ UNCHANGED ret /\ calm' = [calm EXCEPT ![w] = FALSE]
    /\ pc' = [pc EXCEPT ![w] = "parse"]
    /\ UNCHANGED <<file, stat, req, fd, ofs, info, fsuid, oldUid>>

\* The body is complete; check_quota() comes after the data was written.
PutEnd(w) ==
    /\ pc[w] = "write"
    /\ req' = [req EXCEPT ![w].size = ofs[w]]
    /\ \/ UNCHANGED ret
       \/ Happens("quota") /\ ret' = [ret EXCEPT ![w] = "error"]
    /\ pc' = [pc EXCEPT ![w] = "parse"]
    /\ UNCHANGED <<file, stat, fd, ofs, info, fsuid, oldUid, calm>>

-----------------------------------------------------------------------------
(* RGWDeleteObj::execute() up to its update of the stat file.              *)

DeleteRequested(w, u, o) ==
    /\ Happens("delete")
    /\ Requested(w, u, o)
    /\ stat[o[1]].entries > -MaxStat /\ stat[o[1]].size > -MaxStat

DeleteStat_NoGoto(w, u, o) ==
    /\ DeleteRequested(w, u, o)
    /\ DropPrivs(w, u)
    /\ NewRequest(w, u, "delete", o, IF file[o] = Absent THEN 0 ELSE file[o])
    /\ ret' = [ret EXCEPT ![w] = "ok"]
    /\ pc' = [pc EXCEPT ![w] = "rm"]
    /\ calm' = Disturbed(w, {o})
    /\ UNCHANGED <<file, stat, fd, ofs, info>>

DeleteStat_Return(w, u, o) ==
    /\ DeleteRequested(w, u, o)
    /\ DropPrivs(w, u)
    /\ NewRequest(w, u, "delete", o, IF file[o] = Absent THEN 0 ELSE file[o])
    /\ ret' = [ret EXCEPT ![w] = "ok"]
    /\ pc' = [pc EXCEPT ![w] = IF file[o] = Absent THEN "idle" ELSE "rm"]
    /\ calm' = Disturbed(w, {o})
    /\ UNCHANGED <<file, stat, fd, ofs, info>>

\* drop_privs() and ::stat(): without the file there is nothing to do.
DeleteStat(w, u, o) ==
    /\ DeleteRequested(w, u, o)
    /\ DropPrivs(w, u)
    /\ NewRequest(w, u, "delete", o, IF file[o] = Absent THEN 0 ELSE file[o])
    /\ ret' = [ret EXCEPT ![w] = "ok"]
    /\ pc' = [pc EXCEPT ![w] = IF file[o] = Absent THEN "restore" ELSE "rm"]
    /\ calm' = Disturbed(w, {o})
    /\ UNCHANGED <<file, stat, fd, ofs, info>>

\* mon_command("rm"): a shell, which is root again after exec(), removes the
\* file; nobody looks at its status.
DeleteRm(w) ==
    /\ pc[w] = "rm"
    /\ \/ /\ file' = [file EXCEPT ![req[w].obj] = Absent]
          /\ fd' = Relink(fd, req[w].obj, NoObject)
       \/ Happens("rm") /\ UNCHANGED <<file, fd>>
    /\ pc' = [pc EXCEPT ![w] = "parse"]
    /\ UNCHANGED <<stat, req, ofs, info, fsuid, oldUid, ret, calm>>

-----------------------------------------------------------------------------
(* The update of the stat file, the same in both operations.               *)

EntriesDelta(w) == IF req[w].kind = "delete" THEN -1 ELSE 1
SizeDelta(w) == IF req[w].kind = "delete" THEN -req[w].size ELSE req[w].size

\* parse_conf(): a missing or empty file leaves the zeros of the constructor.
StatParse(w) ==
    /\ pc[w] = "parse"
    /\ \E old \in {stat[req[w].obj[1]]} \cup (IF Happens("open") THEN {Zero} ELSE {}) :
           info' = [info EXCEPT ![w] = [entries |-> Atoi(old.entries) + EntriesDelta(w),
                                        size    |-> Atoi(old.size) + SizeDelta(w)]]
    /\ pc' = [pc EXCEPT ![w] = "sync"]
    /\ UNCHANGED <<file, stat, req, fd, ofs, fsuid, oldUid, ret, calm>>

\* sync_stat(): fopen() with "wb+" creates the file or truncates it ...
StatOpen(w) ==
    LET b == req[w].obj[1] IN
    /\ pc[w] = "sync"
    /\ MayWriteStat(fsuid[w], b)
    /\ stat' = [stat EXCEPT ![b] = [owner |-> IF @.owner = NoOne THEN fsuid[w] ELSE @.owner,
                                    entries |-> 0, size |-> 0]]
    /\ pc' = [pc EXCEPT ![w] = "fputs"]
    /\ UNCHANGED <<file, req, fd, ofs, info, fsuid, oldUid, ret, calm>>

\* ... or fails, which set_params() does not notice ...
StatOpenFails(w) ==
    /\ pc[w] = "sync"
    /\ Happens("open") \/ ~MayWriteStat(fsuid[w], req[w].obj[1])
    /\ pc' = [pc EXCEPT ![w] = "restore"]
    /\ UNCHANGED <<file, stat, req, fd, ofs, info, fsuid, oldUid, ret, calm>>

\* ... and fputs() and fclose() write the new text.
StatWrite(w) ==
    /\ pc[w] = "fputs"
    /\ stat' = [stat EXCEPT ![req[w].obj[1]] = [owner |-> @.owner,
                                                entries |-> info[w].entries,
                                                size |-> info[w].size]]
    /\ pc' = [pc EXCEPT ![w] = "restore"]
    /\ UNCHANGED <<file, req, fd, ofs, info, fsuid, oldUid, ret, calm>>

\* restore_privs(old_uid); the operation is over and its response is sent.
\* What the thread held in local variables is forgotten.
RestorePrivs(w) ==
    /\ pc[w] = "restore"
    /\ fsuid' = [fsuid EXCEPT ![w] = oldUid[w]]
    /\ fd' = [fd EXCEPT ![w] = NoObject]
    /\ ofs' = [ofs EXCEPT ![w] = 0]
    /\ info' = [info EXCEPT ![w] = Zero]
    /\ req' = [req EXCEPT ![w] = NoRequest]
    /\ ret' = [ret EXCEPT ![w] = "ok"]
    /\ pc' = [pc EXCEPT ![w] = "idle"]
    /\ calm' = [calm EXCEPT ![w] = FALSE]
    /\ UNCHANGED <<file, stat, oldUid>>

-----------------------------------------------------------------------------
(* RGWCopyObj::execute(): rename() between drop_privs() and                *)
(* restore_privs(), one access to the file system.                         *)

CopyObj(w, u, o, p) ==
    /\ Happens("copy")
    /\ Requested(w, u, o)
    /\ Requested(w, u, p)
    /\ file[p] # Absent => Happens("overwrite")
    /\ IF file[o] # Absent /\ MayCreate(u, o[1]) /\ MayCreate(u, p[1])
       THEN /\ file' = IF o = p THEN file
                       ELSE [file EXCEPT ![p] = file[o], ![o] = Absent]
            /\ fd' = IF o = p THEN fd ELSE Relink(Relink(fd, p, NoObject), o, p)
       ELSE UNCHANGED <<file, fd>>
    /\ calm' = Disturbed(w, {o, p})
    /\ UNCHANGED <<stat, pc, req, ofs, info, fsuid, oldUid, ret>>

-----------------------------------------------------------------------------
\* The daemon dies and is started again: only the files remain.
Crash ==
    /\ Happens("crash")
    /\ pc' = [w \in Workers |-> "idle"]
    /\ fd' = [w \in Workers |-> NoObject]
    /\ ofs' = [w \in Workers |-> 0]
    /\ info' = [w \in Workers |-> Zero]
    /\ fsuid' = [w \in Workers |-> Root]
    /\ oldUid' = [w \in Workers |-> Root]
    /\ req' = [w \in Workers |-> NoRequest]
    /\ ret' = [w \in Workers |-> "ok"]
    /\ calm' = [w \in Workers |-> FALSE]
    /\ UNCHANGED <<file, stat>>

Begin(w) ==
    \E u \in Users \cup {Root}, o \in Objects :
        \/ \E kind \in {"put", "part"} : \/ PutRefused(w, u, kind, o)
                                         \/ PutOpen(w, u, kind, o)
                                         \/ PutOpenFails(w, u, kind, o)
        \/ DeleteStat(w, u, o)
        \/ \E p \in Objects : CopyObj(w, u, o, p)

Continue(w) ==
    \/ PutData(w) \/ PutDataFails(w) \/ PutEnd(w) \/ DeleteRm(w)
    \/ StatParse(w) \/ StatOpen(w) \/ StatOpenFails(w) \/ StatWrite(w)
    \/ RestorePrivs(w)

Next == Crash \/ \E w \in Workers : Begin(w) \/ Continue(w)

Spec == Init /\ [][Next]_vars

-----------------------------------------------------------------------------
(* Properties.                                                             *)

\* Types of the files and of the local variables of an operation; drop_privs()
\* is called by root only, so that restore_privs() goes back to root.
TypeOK ==
    /\ file \in [Objects -> Nat \cup {Absent}]
    /\ stat \in [Buckets -> [owner : Users \cup {Root, NoOne}, entries : Int, size : Int]]
    /\ pc \in [Workers -> WorkerStates]
    /\ req \in [Workers -> [kind : Kinds, obj : Objects \cup {NoObject}, size : Nat,
                            user : Users \cup {Root}]]
    /\ \A w \in Workers : ~Idle(w) => req[w].obj \in Objects
    /\ fd \in [Workers -> Objects \cup {NoObject}]
    /\ ofs \in [Workers -> 0 .. MaxBlocks]
    /\ info \in [Workers -> [entries : Int, size : Int]]
    /\ fsuid \in [Workers -> Users \cup {Root}]
    /\ oldUid \in [Workers -> {Root}]
    /\ ret \in [Workers -> {"ok", "error"}]
    /\ calm \in [Workers -> BOOLEAN]

\* Whatever path an operation leaves by, its thread is root again when the next
\* request gets it; and what it does in between it does as the request's own user
\* (root, for an anonymous client), except that a PUT refused before drop_privs()
\* updates the stat file as root.
PrivsRestored ==
    \A w \in Workers :
        /\ Idle(w) => fsuid[w] = Root
        /\ ~Idle(w) => \/ fsuid[w] = req[w].user
                       \/ pc[w] \notin {"write", "rm"} /\ ret[w] = "error"

Files(b) == {k \in Keys : file[<<b, k>>] # Absent}
Held(o) == IF file[o] = Absent THEN 0 ELSE 1
Bytes(o) == IF file[o] = Absent THEN 0 ELSE file[o]
AllIdle == \A w \in Workers : Idle(w)
OwnStat == \A b \in Buckets : stat[b].owner # Root

\* Summed over the buckets, num_entries covers the files: overwriting, parts,
\* refused and failed uploads, copies and other users' requests only ever make
\* it too large, as long as requests to a bucket do not overlap, deletes remove
\* their file and no stat file belongs to root.
EntriesCoverFiles ==
    AllIdle /\ OwnStat =>
        SumFunction([b \in Buckets |-> stat[b].entries]) >= SumFunction([o \in Objects |-> Held(o)])

\* The same for total_size and the bytes in the files.
SizeCoversFiles ==
    AllIdle /\ OwnStat =>
        SumFunction([b \in Buckets |-> stat[b].size]) >= SumFunction([o \in Objects |-> Bytes(o)])

\* Neither figure of the stat files falls below what is stored.
FiguresCoverFiles == EntriesCoverFiles /\ SizeCoversFiles

\* The requests to a bucket take turns, and open() and write() succeed.
TakeTurns == "serial" \in Events /\ Events \cap {"open", "write", "others"} = {}

\* Besides, a client sends the whole body, rm removes the file, the daemon does
\* not die, and the figures stay within what atoi() returns.
FiguresKept ==
    /\ TakeTurns
    /\ Events \cap {"recv", "rm", "crash"} = {}
    /\ MaxStat + MaxFile + MaxBlocks < IntMod \div 2

\* The file of a calm upload has the blocks received so far, and in the end as
\* many as the upload has.
BlocksStored(w) ==
    /\ pc[w] = "write" => fd[w] = req[w].obj /\ file[req[w].obj] = ofs[w]
    /\ pc[w] \in {"parse", "sync", "fputs", "restore"} /\ ret[w] = "ok"
           => file[req[w].obj] = req[w].size

\* An upload that nobody overlaps on its own object has the file to itself from
\* open() to the response, whatever uploads, deletes, copies, failures and crashes
\* there are on other objects, of the same bucket too: no descriptor of another
\* operation comes to refer to it, and every block is where it belongs.
UploadUndisturbed ==
    \A w \in Workers : calm[w] => ~Idle(w) /\ Alone(w, req[w].obj) /\ BlocksStored(w)

\* A PUT that the client is told has succeeded has stored its whole body, at the
\* moment the operation ends, provided that no other request for the object
\* overlapped it and that its own open() and write() succeeded: the code tells the
\* client the same when they fail, and when another request has replaced or removed
\* the file.
AnsweredIsStored ==
    [][\A w \in Workers :
          /\ pc[w] = "restore" /\ pc'[w] = "idle" /\ req[w].kind = "put"
          /\ calm[w] /\ ret[w] = "ok"
          => file'[req[w].obj] = req[w].size]_vars

\* What RadosClient::mon_command says the field num_entries of the stat file is:
\* the number of files the bucket contains.
EntriesExact ==
    AllIdle => \A b \in Buckets : Atoi(stat[b].entries) = Cardinality(Files(b))

=============================================================================
