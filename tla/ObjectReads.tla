----------------------------- MODULE ObjectReads -----------------------------
(* Reading an object: RGWGetObj::execute(), parse_range() and              *)
(* RGWGetObj_ObjStore_S3::send_response_data().  The reader asks for the   *)
(* size, opens the file, sends the header with that size as the length of  *)
(* the body, and then sends the file chunk by chunk, while other requests  *)
(* truncate, extend, remove and make the file.                             *)
(*                                                                         *)
(* A file is its length; a byte is its place in the file.  The descriptor  *)
(* that execute() opens is never closed.                                   *)
EXTENDS Integers, Sequences, FiniteSets

CONSTANTS
    Readers,
    MaxSize,        \* bound on the length of a file
    ChunkSize,      \* rgw_max_chunk_size
    FdLimit,        \* descriptors the process may hold
    MaxChanges      \* changes of the file by other requests

NoFile == -1
NotGiven == -1
Live == -2          \* the descriptor is of the file that has the name

ReadAssumption == MaxSize \in Nat /\ ChunkSize \in Nat

VARIABLES
    file,           \* the length of the file, or NoFile
    fds,            \* descriptors held
    pc,
    header,         \* the Range header of each request
    ofs, end,
    size,           \* total_len: what stat() said, and Content-Length says
    left, cur,      \* left, and cur_ofs or the file position
    orphan,         \* the length of the file that is open and has no name, or Live
    sent,           \* the bytes of the body
    calm,           \* ghost: the file has not changed since the request began
    changes

vars == <<file, fds, pc, header, ofs, end, size, left, cur, orphan, sent, calm, changes>>
readVars == <<file, fds, calm, changes>>

\* "Range: bytes=first-last", either of them possibly absent; both are: no header.
Headers ==
    [first : {NotGiven}, last : {NotGiven} \cup 1 .. MaxSize]
        \cup [first : 0 .. MaxSize - 1, last : {NotGiven} \cup 0 .. MaxSize]

Init ==
    /\ file \in {NoFile} \cup 0 .. MaxSize
    /\ fds = 0 /\ changes = 0
    /\ pc = [r \in Readers |-> "idle"]
    /\ header = [r \in Readers |-> [first |-> NotGiven, last |-> NotGiven]]
    /\ ofs = [r \in Readers |-> 0] /\ end = [r \in Readers |-> -1]
    /\ size = [r \in Readers |-> 0] /\ left = [r \in Readers |-> 0]
    /\ cur = [r \in Readers |-> 0] /\ orphan = [r \in Readers |-> Live]
    /\ sent = [r \in Readers |-> <<>>] /\ calm = [r \in Readers |-> TRUE]

Go(r, s) == pc' = [pc EXCEPT ![r] = s]

-----------------------------------------------------------------------------
(* The request.                                                            *)

\* parse_range(): what ofs and end become.
ParsedOfs(h) == IF h.first # NotGiven THEN h.first ELSE IF h.last = NotGiven THEN 0 ELSE -h.last
ParsedEnd(h) == IF h.first = NotGiven THEN -1 ELSE h.last
ParseFails(h) == ParsedEnd(h) >= 0 /\ ParsedEnd(h) < ParsedOfs(h)

GetObj(r) ==
    /\ pc[r] = "idle"
    /\ \E h \in Headers :
        /\ header' = [header EXCEPT ![r] = h]
        /\ ofs' = [ofs EXCEPT ![r] = ParsedOfs(h)] /\ end' = [end EXCEPT ![r] = ParsedEnd(h)]
        /\ Go(r, IF ParseFails(h) THEN "badrange" ELSE "stat")
    /\ calm' = [calm EXCEPT ![r] = TRUE]
    /\ UNCHANGED <<file, fds, size, left, cur, orphan, sent, changes>>

Ranged(r) == ofs[r] # 0 \/ end[r] # -1

\* stat(), whose result is not looked at: without a file the size is whatever the
\* stack held.
Stat(r) ==
    /\ pc[r] = "stat"
    /\ \E n \in (IF file = NoFile THEN 0 .. MaxSize ELSE {file}) :
        /\ size' = [size EXCEPT ![r] = n]
        /\ left' = [left EXCEPT ![r] = IF Ranged(r) THEN end[r] - ofs[r] ELSE n]
    /\ cur' = [cur EXCEPT ![r] = 0]
    /\ Go(r, "open")
    /\ UNCHANGED <<readVars, header, ofs, end, orphan, sent>>

Opens_NoLimit == file # NoFile

Opens == file # NoFile /\ fds < FdLimit

\* open(), the digest for the ETag, and the header.  For bytes=n- with n > 0 the length is
\* negative and the digest reads that many bytes as a size_t: the request may go on, to
\* an empty body, or be lost with the process.
Open(r) ==
    /\ pc[r] = "open"
    /\ \/ /\ Opens
          /\ fds' = fds + 1 /\ orphan' = [orphan EXCEPT ![r] = Live]
          /\ Go(r, "body") \/ (left[r] < 0 /\ Go(r, "lost"))
       \/ /\ ~Opens
          /\ UNCHANGED <<fds, orphan>>
          /\ Go(r, "notfound")
    /\ UNCHANGED <<file, header, ofs, end, size, left, cur, sent, calm, changes>>

Length(r) == IF orphan[r] = Live THEN (IF file = NoFile THEN 0 ELSE file) ELSE orphan[r]
Place(r) == IF Ranged(r) THEN ofs[r] + cur[r] ELSE cur[r]

\* read_fd() and pread_fd(): the bytes there are, at most len; before the beginning
\* of the file there are none to be had.
Got(r, len) ==
    LET there == Length(r) - Place(r)
    IN  IF Place(r) < 0 \/ there <= 0 THEN 0 ELSE IF there < len THEN there ELSE len

\* How much the next turn asks for.
ChunkLen(r) == IF ChunkSize > left[r] THEN left[r] ELSE ChunkSize

\* cur_ofs, or the file position, after a chunk.
NextPlace(r, len) == cur[r] + len

NextLeft_Early(r) == left[r] - ChunkSize - 1

NextLeft(r) == left[r] - ChunkSize

\* One turn of the loop: a chunk that is not complete ends the reply.
SendChunk(r) ==
    /\ pc[r] = "body" /\ left[r] > 0
    /\ LET len == ChunkLen(r) IN
       IF Got(r, len) = len
       THEN /\ sent' = [sent EXCEPT ![r] = @ \o [i \in 1 .. len |-> Place(r) + i - 1]]
            /\ left' = [left EXCEPT ![r] = NextLeft(r)]
            /\ cur' = [cur EXCEPT ![r] = NextPlace(r, len)]
            /\ UNCHANGED pc
       ELSE Go(r, "short") /\ UNCHANGED <<sent, left, cur>>
    /\ UNCHANGED <<readVars, header, ofs, end, size, orphan>>

Finish(r) ==
    /\ pc[r] = "body" /\ left[r] <= 0
    /\ Go(r, "done")
    /\ UNCHANGED <<readVars, header, ofs, end, size, left, cur, orphan, sent>>

Answered == {"badrange", "notfound", "short", "done"}

\* The next request of the thread.
Respond(r) ==
    /\ pc[r] \in Answered
    /\ Go(r, "idle")
    /\ sent' = [sent EXCEPT ![r] = <<>>] /\ calm' = [calm EXCEPT ![r] = TRUE]
    /\ size' = [size EXCEPT ![r] = 0] /\ left' = [left EXCEPT ![r] = 0]
    /\ cur' = [cur EXCEPT ![r] = 0] /\ orphan' = [orphan EXCEPT ![r] = Live]
    /\ UNCHANGED <<file, fds, header, ofs, end, changes>>

-----------------------------------------------------------------------------
(* The other requests for the object.                                      *)

Change(n) ==
    /\ changes < MaxChanges /\ changes' = changes + 1
    /\ file' = n /\ calm' = [r \in Readers |-> pc[r] = "idle"]
    /\ UNCHANGED <<fds, pc, header, ofs, end, size, left, cur, sent>>

\* RGWPutObj opens the file with O_TRUNC, and writes a block.
PutTruncates == file # 0 /\ Change(0) /\ UNCHANGED orphan
PutWrites == file \in 0 .. MaxSize - 1 /\ Change(file + 1) /\ UNCHANGED orphan

\* RGWDeleteObj removes the name; who has the file open keeps it.
Removed ==
    /\ file # NoFile /\ Change(NoFile)
    /\ orphan' = [r \in Readers |-> IF pc[r] = "body" /\ orphan[r] = Live THEN file ELSE orphan[r]]

Read(r) == Stat(r) \/ Open(r) \/ SendChunk(r) \/ Finish(r)
Next ==
    \/ \E r \in Readers : GetObj(r) \/ Read(r) \/ Respond(r)
    \/ PutTruncates \/ PutWrites \/ Removed

Spec == Init /\ [][Next]_vars

-----------------------------------------------------------------------------
(* Properties.                                                             *)

TypeOK ==
    /\ file \in {NoFile} \cup 0 .. MaxSize
    /\ fds \in 0 .. FdLimit
    /\ pc \in [Readers -> {"idle", "stat", "open", "body", "lost"} \cup Answered]
    /\ header \in [Readers -> Headers]
    /\ size \in [Readers -> 0 .. MaxSize]
    /\ orphan \in [Readers -> {Live} \cup 0 .. MaxSize]
    /\ changes \in 0 .. MaxChanges

\* The body is a run of consecutive bytes from the place asked for, whatever the
\* other requests do to the file between two chunks.
SentInOrder == \A r \in Readers : \A i \in DOMAIN sent[r] : sent[r][i] = ofs[r] + i - 1

\* The body of a read without a range never exceeds the Content-Length that went
\* out before it, though the file may grow or be replaced meanwhile.
WithinLength == \A r \in Readers : ~Ranged(r) => Len(sent[r]) <= size[r]

\* A read without a range that finds the file as it was is answered with the whole
\* file, also when its length is not a multiple of the chunk, or is 0.
WholeExact ==
    \A r \in Readers :
        pc[r] = "done" /\ calm[r] /\ ~Ranged(r) => Len(sent[r]) = file /\ size[r] = file

\* "RFC2616 suffix-byte-range-spec": bytes=-n asks for the last n bytes.
SuffixServed ==
    \A r \in Readers :
        /\ pc[r] \in {"short", "done"} /\ calm[r]
        /\ header[r].first = NotGiven /\ header[r].last \in 1 .. file
        => Len(sent[r]) = header[r].last

=============================================================================
