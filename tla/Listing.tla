------------------------------- MODULE Listing -------------------------------
(* Listing a bucket (RGWListBucket, RGWRados::Bucket::List::list_objects,  *)
(* cls_bucket_list and the `ls' behind issue_bucket_list_op) and listing   *)
(* the buckets of a user (RGWListBuckets, rgw_read_user_buckets,           *)
(* cls_user_bucket_list).  Both are loops of chunks whose backend ignores  *)
(* the marker it is given and reads at most a buffer of the output of ls,  *)
(* and other requests create and remove names between two chunks.          *)
(*                                                                         *)
(* A name is a number, its place in the order of names.  A hidden name is  *)
(* one that parse_raw_oid() refuses or puts in another namespace (it       *)
(* begins with an underscore); a folder's name ends with the delimiter.    *)
(* "grouped" is a listing whose prefix names a directory without its final *)
(* slash: every entry then holds the delimiter at the same place.          *)
EXTENDS Integers, Sequences, FiniteSets, FiniteSetsExt

CONSTANTS
    MaxName,        \* names are 1 .. MaxName
    Fit,            \* names that fit the buffer of shell_execute()
    Kinds,          \* what the names may be: functions from names to NameKinds
    MaxKeys,        \* the values of max-keys
    Markers,        \* the values of marker
    Chunks,         \* the values of rgw_list_buckets_max_chunk
    MaxChanges      \* names created or removed during a listing

ListingAssumption ==
    /\ MaxName \in Nat /\ Fit \in Nat /\ MaxChanges \in Nat
    /\ Kinds \subseteq [1 .. MaxName -> {"plain", "hidden", "folder"}]
    /\ MaxKeys \subseteq Int /\ Chunks \subseteq Int
    /\ Markers \subseteq 0 .. MaxName

VARIABLES
    kind,           \* what each name is
    dir,            \* the names now in the directory
    req,            \* the parameters of the request being served
    pc,             \* "idle", "objects", "buckets" or "done"
    result,         \* objs: the names listed, in the order they are sent
    prefixes,       \* common_prefixes
    truncated,
    curMarker,      \* cur_marker, marker: where the next chunk should begin
    changes,
    asked           \* the directory at the moment the request began

vars == <<kind, dir, req, pc, result, prefixes, truncated, curMarker, changes, asked>>

Names == 1 .. MaxName
NameKinds == {"plain", "hidden", "folder"}
NoRequest == [op |-> "none"]
Group == 0          \* the common prefix of a grouped listing

Init ==
    /\ kind \in Kinds
    /\ dir \in SUBSET Names
    /\ req = NoRequest /\ pc = "idle"
    /\ result = <<>> /\ prefixes = {} /\ truncated = FALSE
    /\ curMarker = 0 /\ changes = 0 /\ asked = {}

-----------------------------------------------------------------------------
(* The backend.                                                            *)

\* How many members of a set of names come before n.
Rank(S, n) == Cardinality({m \in S : m < n})

\* The first k members of a set of names.
First(S, k) == {n \in S : Rank(S, n) < k}

\* A set of names as the sequence in which they are sent.
InOrder(S) == [i \in 1 .. Cardinality(S) |-> CHOOSE n \in S : Rank(S, n) = i - 1]

\* shell_execute("ls ..."): the names in order, as far as the buffer holds them.
ShellExecute(names) == First(names, Fit)

\* issue_bucket_list_op(): start_obj and num_entries are not looked at.
IssueBucketListOp(start) == ShellExecute(dir)

\* cls_user_bucket_list(): nor are in_marker and max_entries.
UserBucketList(start) == ShellExecute(dir)

\* rgw_read_user_buckets(): nobody sets truncated, so its loop takes one turn.
ReadUserBuckets(start) == UserBucketList(start)

-----------------------------------------------------------------------------
(* list_objects().                                                         *)

Count == Len(result) + Cardinality(prefixes)

\* The common prefix of a name: delim is found at or after the prefix.
HasDelim(n) == req.delim /\ (req.grouped \/ kind[n] = "folder")
PrefixKey(n) == IF req.grouped THEN Group ELSE n

Fresh_Names(batch, n) == kind[n] # "hidden"

\* The entries of ent_map that count: not hidden, and not of a common prefix that
\* is in the page already.
Fresh(batch, n) ==
    /\ kind[n] # "hidden"
    /\ HasDelim(n) => /\ PrefixKey(n) \notin prefixes
                      /\ \A m \in batch : m < n /\ kind[m] # "hidden" => PrefixKey(m) # PrefixKey(n)

\* The entries that still fit the page; the next one that counts ends the listing.
Room == req.max - Count

NumEntries_Max == req.max - Count

\* max + 1 - count: one more than fits, to learn whether there is more.
NumEntries == req.max + 1 - Count

\* Where a marker that points at a common prefix is moved to.
FastForward(common, m) == IF common /\ m > 0 THEN MaxName ELSE m

Begin(r) ==
    /\ pc = "idle"
    /\ req' = r /\ asked' = dir
    /\ result' = <<>> /\ prefixes' = {} /\ truncated' = TRUE
    /\ UNCHANGED <<kind, dir, changes>>

\* RGWListBucket::execute() up to the loop of list_objects().
ListBucket ==
    \E m \in MaxKeys, mk \in Markers, d \in BOOLEAN, g \in BOOLEAN :
        /\ Begin([op |-> "objects", max |-> m, marker |-> mk, delim |-> d, grouped |-> g])
        /\ curMarker' = FastForward(d /\ g, mk)
        /\ pc' = "objects"

\* One chunk: cls_bucket_list() and the loop over what it returned.
Chunk ==
    /\ pc = "objects" /\ truncated /\ Count <= req.max
    /\ LET found == IssueBucketListOp(curMarker)
           batch == First(found, NumEntries)
           fresh == {n \in batch : Fresh(batch, n)}
           taken == First(fresh, Room)
           full == Cardinality(fresh) > Room
       IN  /\ result' = result \o InOrder({n \in taken : ~HasDelim(n)})
           /\ prefixes' = prefixes \cup {PrefixKey(n) : n \in {m \in taken : HasDelim(m)}}
           /\ truncated' = (full \/ batch # found)
           /\ pc' = IF full THEN "done" ELSE pc
           /\ curMarker' = IF batch = {} THEN curMarker ELSE Max(batch)
    /\ UNCHANGED <<kind, dir, req, changes, asked>>

\* The condition of the loop fails.
ChunksEnd ==
    /\ pc = "objects" /\ ~(truncated /\ Count <= req.max)
    /\ pc' = "done"
    /\ UNCHANGED <<kind, dir, req, result, prefixes, truncated, curMarker, changes, asked>>

-----------------------------------------------------------------------------
(* RGWListBuckets::execute().                                              *)

ListBuckets ==
    \E c \in Chunks :
        /\ Begin([op |-> "buckets", chunk |-> c])
        /\ curMarker' = 0 /\ pc' = "buckets"

\* The output of ls split at the newlines: what follows the last newline is an
\* entry as well, empty, unless the buffer ended in front of the newline.
Junk(found) == IF found # dir \/ Cardinality(found) = Fit THEN {0, 1} ELSE {1}

\* done: the S3 operation sets limit to -1, so only the size of the chunk counts.
BucketsDone(n) == n < req.chunk

\* One chunk, and the reply to it.  With nothing in the
\* directory, cls_user_bucket_list() leaves rc unset: the read may fail.  Of a
\* reply that never ends the model keeps the first chunks.
BucketsChunk ==
    /\ pc = "buckets"
    /\ LET found == ReadUserBuckets(curMarker) IN
       \/ /\ dir # {}
          /\ \E j \in Junk(found) : pc' = IF BucketsDone(Cardinality(found) + j) THEN "done" ELSE pc
          /\ result' = IF Len(result) > Fit THEN result ELSE result \o InOrder(found)
          /\ curMarker' = Max(found)
          /\ UNCHANGED truncated
       \/ /\ dir = {}
          /\ pc' \in {"done", IF BucketsDone(0) THEN "done" ELSE pc}
          /\ UNCHANGED <<result, curMarker, truncated>>
    /\ UNCHANGED <<kind, dir, req, prefixes, changes, asked>>

Respond ==
    /\ pc = "done"
    /\ pc' = "idle" /\ req' = NoRequest
    /\ result' = <<>> /\ prefixes' = {} /\ truncated' = FALSE /\ curMarker' = 0
    /\ changes' = 0 /\ asked' = {}
    /\ UNCHANGED <<kind, dir>>

\* Another request creates or removes a name.
Change(n) ==
    /\ changes < MaxChanges
    /\ changes' = changes + 1
    /\ dir' = IF n \in dir THEN dir \ {n} ELSE dir \cup {n}
    /\ UNCHANGED <<kind, req, pc, result, prefixes, truncated, curMarker, asked>>

Serve == Chunk \/ ChunksEnd \/ BucketsChunk
Next == ListBucket \/ ListBuckets \/ Serve \/ Respond \/ \E n \in Names : Change(n)
Spec == Init /\ [][Next]_vars
Fairness == WF_vars(Serve)
FairSpec == Spec /\ Fairness

-----------------------------------------------------------------------------
(* Properties.                                                             *)

TypeOK ==
    /\ kind \in [Names -> NameKinds]
    /\ dir \subseteq Names /\ asked \subseteq Names
    /\ pc \in {"idle", "objects", "buckets", "done"}
    /\ result \in Seq(Names)
    /\ prefixes \subseteq {Group} \cup Names
    /\ truncated \in BOOLEAN
    /\ curMarker \in {Group} \cup Names
    /\ changes \in 0 .. MaxChanges

\* What a listing of the directory is to hold: the names that are not hidden, those
\* with the delimiter as their common prefix.
Visible == {n \in asked : kind[n] # "hidden"}
Items == {IF HasDelim(n) THEN PrefixKey(n) ELSE n : n \in Visible}
FirstPage == First(Items, req.max)
Common(i) == req.delim /\ (i = Group \/ kind[i] = "folder")

\* A page never holds more than max entries, names and common prefixes together,
\* however many chunks list_objects() took and whatever changed in between.
PageBounded == req.op = "objects" /\ req.max >= 0 => Count <= req.max

\* A listing without a marker during which nothing changed is the first page of
\* the bucket, each entry once and in order, and is_truncated says whether there
\* is more: provided the names fit the buffer of shell_execute(), and none is
\* hidden or the first chunk holds them all.
PageExact ==
    /\ pc = "done" /\ req.op = "objects" /\ req.marker = 0 /\ changes = 0
    /\ Cardinality(asked) <= Fit
    /\ Visible = asked \/ Cardinality(asked) <= req.max + 1
    => /\ result = InOrder({i \in FirstPage : ~Common(i)})
       /\ prefixes = {i \in FirstPage : Common(i)}
       /\ truncated = (Cardinality(Items) > req.max)

\* The reply to a listing of the buckets names every bucket once, when a chunk
\* asks for more than the buffer of shell_execute() holds.
BucketsOnce ==
    req.op = "buckets" /\ Fit + 1 < req.chunk => \A i, j \in 1 .. Len(result) : result[i] = result[j] => i = j

\* "marker: if filled in, begin the listing with this object."
BeginsAtMarker == pc = "done" /\ req.op = "objects" => \A i \in DOMAIN result : result[i] >= req.marker

\* list_objects() returns when no name is hidden and the listing is not grouped,
\* or when the page is as large as the buffer of shell_execute().
ListReturns ==
    (pc = "objects" /\ (Fit <= req.max \/ (~req.grouped /\ \A n \in Names : kind[n] # "hidden")))
        ~> pc # "objects"

\* RGWListBuckets::execute() returns when a chunk asks for more than the buffer
\* of shell_execute() holds.
ListBucketsReturns == (pc = "buckets" /\ Fit + 1 < req.chunk) ~> pc # "buckets"

=============================================================================
