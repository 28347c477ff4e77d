-------------------------------- MODULE Log --------------------------------
(***************************************************************************)
(* The asynchronous log of log/Log.cc.  Threads submit entries to m_new    *)
(* under m_queue_mutex and wait while it is too long.  flush(), called by  *)
(* the log's own thread and by others, takes all of m_new at once, writes  *)
(* it and keeps it in m_recent; m_flush_mutex, taken first, makes the      *)
(* flushes exclude each other.  dump_recent() does the same and then       *)
(* writes and drops m_recent.                                              *)
(*                                                                         *)
(* A critical section of m_queue_mutex is one step, and so is the rest of  *)
(* a flush, which only the holder of m_flush_mutex can see.  An entry is   *)
(* its number in the order of submission; its level, its text and whether  *)
(* a file is open decide what _flush() prints, not where the entry goes.   *)
(***************************************************************************)
EXTENDS Integers, Sequences

CONSTANTS Loggers,      \* threads that call submit_entry()
          Callers,      \* threads that call flush(), dump_recent(), stop()
          Flusher,      \* the log's own thread
          NoThread,
          NewLimits,    \* values given to set_max_new()
          RecentLimits, \* values given to set_max_recent()
          MaxEntries    \* bound: entries submitted

LogAssumption ==
    /\ NoThread \notin Callers \cup {Flusher}
    /\ Flusher \notin Loggers \cup Callers
    /\ Loggers \cap Callers = {}
    /\ RecentLimits \subseteq Nat

VARIABLES
    pc,          \* where each thread is
    entries,     \* m_new
    recent,      \* m_recent
    batch,       \* the local queue t of each thread in flush() or dump_recent()
    flushMutex,  \* holder of m_flush_mutex
    stopping,    \* m_stop
    maxNew, maxRecent,
    submitted,   \* number of entries submitted so far
    written,     \* the entries _flush() has handled, in order
    dumpedLast,  \* the last to empty m_new was dump_recent()
    owed         \* entries submitted when stop() was last called

vars == <<pc, entries, recent, batch, flushMutex, stopping, maxNew, maxRecent,
          submitted, written, dumpedLast, owed>>

FlushThreads == Callers \cup {Flusher}
Threads == Loggers \cup FlushThreads

Init ==
    /\ pc = [t \in Threads |-> IF t = Flusher THEN "off" ELSE "idle"]
    /\ entries = <<>>
    /\ recent = <<>>
    /\ batch = [t \in FlushThreads |-> <<>>]
    /\ flushMutex = NoThread
    /\ stopping = FALSE
    /\ maxNew \in NewLimits
    /\ maxRecent \in RecentLimits
    /\ submitted = 0
    /\ written = <<>>
    /\ dumpedLast = FALSE
    /\ owed = 0

Goto(t, s) == pc' = [pc EXCEPT ![t] = s]

\* pthread_cond_signal(&m_cond_flusher) and pthread_cond_broadcast(&m_cond_loggers).
SignalFlusher(p) == [p EXCEPT ![Flusher] = IF @ = "wait" THEN "loop" ELSE @]
WakeLoggers(p) ==
    [t \in Threads |-> IF t \in Loggers /\ p[t] = "wait" THEN "woken" ELSE p[t]]

-----------------------------------------------------------------------------
(* submit_entry().                                                         *)

SubmitWait(l) ==
    /\ pc[l] \in {"idle", "woken"}
    /\ Len(entries) > maxNew
    /\ Goto(l, "wait")
    /\ UNCHANGED <<entries, recent, batch, flushMutex, stopping, maxNew,
                   maxRecent, submitted, written, dumpedLast, owed>>

SubmitEnqueue_NoSignal(l) ==
    /\ pc[l] \in {"idle", "woken"}
    /\ Len(entries) <= maxNew
    /\ submitted < MaxEntries
    /\ submitted' = submitted + 1
    /\ entries' = Append(entries, submitted + 1)
    /\ Goto(l, "idle")
    /\ UNCHANGED <<recent, batch, flushMutex, stopping, maxNew, maxRecent,
                   written, dumpedLast, owed>>

SubmitEnqueue(l) ==
    /\ pc[l] \in {"idle", "woken"}
    /\ Len(entries) <= maxNew
    /\ submitted < MaxEntries
    /\ submitted' = submitted + 1
    /\ entries' = Append(entries, submitted + 1)
    /\ pc' = SignalFlusher([pc EXCEPT ![l] = "idle"])
    /\ UNCHANGED <<recent, batch, flushMutex, stopping, maxNew, maxRecent,
                   written, dumpedLast, owed>>

-----------------------------------------------------------------------------
(* flush() and dump_recent(), called by f.                                 *)

Swap_Unlocked(f, p) ==
    /\ flushMutex' = f
    /\ batch' = [batch EXCEPT ![f] = entries]
    /\ entries' = <<>>
    /\ pc' = p
    /\ UNCHANGED <<recent, stopping, maxNew, maxRecent, submitted, written, owed>>

\* Both mutexes are taken, and t is swapped with m_new.
Swap(f, p) ==
    /\ flushMutex = NoThread
    /\ flushMutex' = f
    /\ batch' = [batch EXCEPT ![f] = entries]
    /\ entries' = <<>>
    /\ pc' = p
    /\ UNCHANGED <<recent, stopping, maxNew, maxRecent, submitted, written, owed>>

FlushSwap(f, s) ==
    /\ Swap(f, WakeLoggers([pc EXCEPT ![f] = s]))
    /\ dumpedLast' = FALSE

Trim(q) == IF Len(q) > maxRecent THEN SubSeq(q, Len(q) - maxRecent + 1, Len(q)) ELSE q

\* _flush(), the trimming of m_recent, and the release of m_flush_mutex.
FlushWrite(f, s) ==
    /\ flushMutex' = NoThread
    /\ written' = written \o batch[f]
    /\ recent' = Trim(recent \o batch[f])
    /\ batch' = [batch EXCEPT ![f] = <<>>]
    /\ Goto(f, s)
    /\ UNCHANGED <<entries, stopping, maxNew, maxRecent, submitted, dumpedLast, owed>>

CallFlush(c) == pc[c] = "idle" /\ FlushSwap(c, "flush")
EndFlush(c) == pc[c] = "flush" /\ FlushWrite(c, "idle")

\* dump_recent() does not broadcast m_cond_loggers.
CallDump(c) ==
    /\ pc[c] = "idle"
    /\ Swap(c, [pc EXCEPT ![c] = "dump"])
    /\ dumpedLast' = TRUE

EndDump(c) ==
    /\ pc[c] = "dump"
    /\ flushMutex' = NoThread
    /\ written' = written \o batch[c]
    /\ recent' = <<>>
    /\ batch' = [batch EXCEPT ![c] = <<>>]
    /\ Goto(c, "idle")
    /\ UNCHANGED <<entries, stopping, maxNew, maxRecent, submitted, dumpedLast, owed>>

SetMaxNew(c) ==
    /\ pc[c] = "idle"
    /\ maxNew' \in NewLimits
    /\ UNCHANGED <<pc, entries, recent, batch, flushMutex, stopping, maxRecent,
                   submitted, written, dumpedLast, owed>>

SetMaxRecent(c) ==
    /\ pc[c] = "idle"
    /\ flushMutex = NoThread
    /\ maxRecent' \in RecentLimits
    /\ UNCHANGED <<pc, entries, recent, batch, flushMutex, stopping, maxNew,
                   submitted, written, dumpedLast, owed>>

-----------------------------------------------------------------------------
(* start(), stop(), and the log's own thread.                              *)

Start(c) ==
    /\ pc[c] = "idle"
    /\ pc[Flusher] = "off"
    /\ stopping' = FALSE
    /\ Goto(Flusher, "loop")
    /\ UNCHANGED <<entries, recent, batch, flushMutex, maxNew, maxRecent,
                   submitted, written, dumpedLast, owed>>

\* One thread stops the log, once: join() then waits in "join".
Stop(c) ==
    /\ pc[c] = "idle"
    /\ pc[Flusher] \notin {"off", "exited"}
    /\ ~ stopping
    /\ stopping' = TRUE
    /\ owed' = submitted
    /\ pc' = SignalFlusher(WakeLoggers([pc EXCEPT ![c] = "join"]))
    /\ UNCHANGED <<entries, recent, batch, flushMutex, maxNew, maxRecent,
                   submitted, written, dumpedLast>>

Join(c) ==
    /\ pc[c] = "join"
    /\ pc[Flusher] = "exited"
    /\ pc' = [pc EXCEPT ![c] = "idle", ![Flusher] = "off"]
    /\ UNCHANGED <<entries, recent, batch, flushMutex, stopping, maxNew,
                   maxRecent, submitted, written, dumpedLast, owed>>

\* One turn of the loop of entry(), up to where m_queue_mutex is released.
Turn ==
    /\ pc[Flusher] = "loop"
    /\ Goto(Flusher, IF stopping THEN "last"
                     ELSE IF entries # <<>> THEN "flush" ELSE "wait")
    /\ UNCHANGED <<entries, recent, batch, flushMutex, stopping, maxNew,
                   maxRecent, submitted, written, dumpedLast, owed>>

ThreadSwap ==
    \/ pc[Flusher] = "flush" /\ FlushSwap(Flusher, "writing")
    \/ pc[Flusher] = "last" /\ FlushSwap(Flusher, "lastwriting")

ThreadWrite ==
    \/ pc[Flusher] = "writing" /\ FlushWrite(Flusher, "loop")
    \/ pc[Flusher] = "lastwriting" /\ FlushWrite(Flusher, "exited")

ThreadStep == Turn \/ ThreadSwap \/ ThreadWrite

Next ==
    \/ \E l \in Loggers : SubmitWait(l) \/ SubmitEnqueue(l)
    \/ \E c \in Callers :
          \/ CallFlush(c) \/ EndFlush(c) \/ CallDump(c) \/ EndDump(c)
          \/ SetMaxNew(c) \/ SetMaxRecent(c) \/ Start(c) \/ Stop(c) \/ Join(c)
    \/ ThreadStep

Spec == Init /\ [][Next]_vars

\* The log's thread runs, a thread inside flush() or dump_recent() finishes, and
\* a logger that was woken gets the mutex.
Fairness ==
    /\ WF_vars(ThreadStep)
    /\ \A c \in Callers : WF_vars(EndFlush(c) \/ EndDump(c) \/ Join(c))
    /\ \A l \in Loggers : WF_vars(pc[l] = "woken" /\ (SubmitWait(l) \/ SubmitEnqueue(l)))

FairSpec == Spec /\ Fairness

-----------------------------------------------------------------------------
(* Properties.                                                             *)

States == {"idle", "wait", "woken", "flush", "dump", "join", "off", "loop",
           "writing", "last", "lastwriting", "exited"}

\* Type invariant; at most one thread at a time holds m_flush_mutex and with it
\* a batch that is not yet written.
TypeOK ==
    /\ pc \in [Threads -> States]
    /\ entries \in Seq(Nat) /\ recent \in Seq(Nat) /\ written \in Seq(Nat)
    /\ batch \in [FlushThreads -> Seq(Nat)]
    /\ flushMutex \in FlushThreads \cup {NoThread}
    /\ stopping \in BOOLEAN /\ dumpedLast \in BOOLEAN
    /\ maxNew \in NewLimits /\ maxRecent \in RecentLimits
    /\ submitted \in Nat /\ owed \in Nat

Unwritten == (IF flushMutex = NoThread THEN <<>> ELSE batch[flushMutex]) \o entries

\* No entry is lost, repeated or overtaken between submit_entry() and _flush(),
\* whoever calls flush() and dump_recent(): what was written, what the flush in
\* progress holds and m_new are the entries in the order of submission.
EntriesInOrder ==
    LET all == written \o Unwritten
    IN /\ Len(all) = submitted
       /\ \A i \in 1 .. Len(all) : all[i] = i

\* m_recent, which a crash dump prints, is an unbroken run of entries that ends
\* with the last one written (Log.cc, flush(): trimming at the front only).
RecentIsUnbroken ==
    \A i \in 1 .. Len(recent) : recent[i] = Len(written) - Len(recent) + i

\* When stop() finds the log's thread gone, the last flush() has written every
\* entry that was submitted before m_stop was set.
StopWritesAll == pc[Flusher] = "exited" => Len(written) >= owed

\* An entry that was submitted is written unless the log is stopped.
EntryWritten ==
    \A k \in 1 .. MaxEntries : submitted >= k ~> (Len(written) >= k \/ pc[Flusher] = "off")

\* submit_entry() returns from its wait once a flush() has emptied m_new;
\* dump_recent() is excepted, see SubmitCaughtUp.
SubmitReturns ==
    \A l \in Loggers :
        pc[l] = "wait" ~> (pc[l] # "wait" \/ dumpedLast \/ pc[Flusher] = "off")

\* "wait for flush to catch up" (Log.cc:160): a thread that waits in
\* submit_entry() does not wait for ever once m_new is empty.
SubmitCaughtUp ==
    \A l \in Loggers : (pc[l] = "wait" /\ entries = <<>>) ~> pc[l] # "wait"

=============================================================================
