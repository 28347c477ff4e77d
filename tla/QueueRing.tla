------------------------------ MODULE QueueRing ------------------------------
(***************************************************************************)
(* common/QueueRing.h: a ring of NumBuckets lists, each with its own mutex *)
(* and condition variable.  An operation first draws a ticket from an      *)
(* atomic counter, which selects the bucket, and then works on the bucket  *)
(* under the bucket's mutex; the two steps are not atomic together.        *)
(*                                                                         *)
(* The counters are unsigned machine words: they wrap at CounterMod (2^64  *)
(* in the code).  A thread in state "wait" is asleep on its bucket's       *)
(* condition variable; "woken" says that it was signalled, "stray" that it *)
(* came back from pthread_cond_wait() without a signal, which POSIX allows *)
(* and dequeue() cannot tell from the other.                               *)
(***************************************************************************)
EXTENDS Integers, Sequences

CONSTANTS Threads,      \* threads that enqueue or dequeue
          Entries,      \* what the ring carries
          NumBuckets,   \* num_buckets
          CounterMod    \* the wrap-around of atomic_t

VARIABLES
    buckets,     \* buckets[b].entries
    curRead,     \* cur_read_bucket
    curWrite,    \* cur_write_bucket
    rop,         \* the ring operation each thread is in
    rb           \* and the bucket its ticket selected

ringVars == <<buckets, curRead, curWrite, rop, rb>>

Buckets == 0 .. NumBuckets - 1
RingOps == {"none", "put", "take", "wait", "woken", "stray"}

RingInit ==
    /\ buckets = [b \in Buckets |-> <<>>]
    /\ curRead = 0
    /\ curWrite = 0
    /\ rop = [t \in Threads |-> "none"]
    /\ rb = [t \in Threads |-> 0]

\* atomic_t::inc() returns the new value.
Inc(n) == (n + 1) % CounterMod

\* cur_write_bucket.inc() % num_buckets
EnqueueTicket(t) ==
    /\ rop[t] = "none"
    /\ curWrite' = Inc(curWrite)
    /\ rop' = [rop EXCEPT ![t] = "put"]
    /\ rb' = [rb EXCEPT ![t] = curWrite' % NumBuckets]
    /\ UNCHANGED <<buckets, curRead>>

\* The threads asleep on bucket b are woken by cond.Signal(), a broadcast.
WakeReaders(b) ==
    [t \in Threads |-> IF rop[t] = "wait" /\ rb[t] = b THEN "woken" ELSE rop[t]]

SignalOnPut_Never(b) == FALSE

\* enqueue() signals only when it finds the bucket empty.
SignalOnPut(b) == buckets[b] = <<>>

\* QueueBucket::enqueue()
EnqueuePut(t, e) ==
    /\ rop[t] = "put"
    /\ buckets' = [buckets EXCEPT ![rb[t]] = Append(@, e)]
    /\ rop' = [(IF SignalOnPut(rb[t]) THEN WakeReaders(rb[t]) ELSE rop)
                  EXCEPT ![t] = "none"]
    /\ UNCHANGED <<curRead, curWrite, rb>>

\* cur_read_bucket.inc() % num_buckets
DequeueTicket(t) ==
    /\ rop[t] = "none"
    /\ curRead' = Inc(curRead)
    /\ rop' = [rop EXCEPT ![t] = "take"]
    /\ rb' = [rb EXCEPT ![t] = curRead' % NumBuckets]
    /\ UNCHANGED <<buckets, curWrite>>

\* QueueBucket::dequeue() finds the bucket empty and goes to sleep.
DequeueWait(t) ==
    /\ rop[t] = "take"
    /\ buckets[rb[t]] = <<>>
    /\ rop' = [rop EXCEPT ![t] = "wait"]
    /\ UNCHANGED <<buckets, curRead, curWrite, rb>>

\* cond.Wait() returns although nobody signalled.
DequeueStray(t) ==
    /\ rop[t] = "wait"
    /\ rop' = [rop EXCEPT ![t] = "stray"]
    /\ UNCHANGED <<buckets, curRead, curWrite, rb>>

\* dequeue() gets past its test: at once if the bucket has an entry, and after
\* a wait without looking again.
DequeueReady(t) ==
    \/ rop[t] = "take" /\ buckets[rb[t]] # <<>>
    \/ rop[t] \in {"woken", "stray"}

\* The assertion of dequeue() that the bucket is not empty fails.
DequeueAsserts(t) ==
    /\ DequeueReady(t)
    /\ buckets[rb[t]] = <<>>

\* It holds, and the rest of dequeue() takes the entry at the front.
DequeueTake(t, e) ==
    /\ DequeueReady(t)
    /\ buckets[rb[t]] # <<>>
    /\ e = Head(buckets[rb[t]])
    /\ buckets' = [buckets EXCEPT ![rb[t]] = Tail(@)]
    /\ rop' = [rop EXCEPT ![t] = "none"]
    /\ UNCHANGED <<curRead, curWrite, rb>>

\* Types of the fields of the ring.
RingTypeOK ==
    /\ buckets \in [Buckets -> Seq(Entries)]
    /\ curRead \in 0 .. CounterMod - 1
    /\ curWrite \in 0 .. CounterMod - 1
    /\ rop \in [Threads -> RingOps]
    /\ rb \in [Threads -> Buckets]

=============================================================================
