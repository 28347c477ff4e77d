--------------------------- MODULE DataChangesLog ---------------------------
(***************************************************************************)
(* RGWDataChangesLog of rgw/rgw_bucket.cc: requests that change a bucket   *)
(* shard note it in a log that other zones read, at most once per window.  *)
(* The first call of a window writes the entry and the others wait for it; *)
(* changes later in the window are collected in cur_cycle, and a thread    *)
(* writes an entry for each before the window ends.  A step is one         *)
(* critical section of lock or of the lock of a ChangeStatus, or one       *)
(* operation on the log.                                                   *)
(***************************************************************************)
EXTENDS Naturals, Sequences, FiniteSets

CONSTANTS Callers, NoCaller,
          BucketShards, NoShard,
          ChooseOid,     \* choose_oid(): the log object of each bucket shard
          Window,        \* rgw_data_log_window
          ChangesSize,   \* rgw_data_log_changes_size
          MaxTime,       \* bound: the clock
          MaxCalls       \* bound: calls of add_entry()

DataAssumption ==
    /\ ChooseOid \in [BucketShards -> Nat]
    /\ NoCaller \notin Callers
    /\ Window \in Nat

VARIABLES
    clock,
    changes,     \* lru_map: <<bucket shard, status>>, the most recent first
    status,      \* the ChangeStatus objects
    curCycle,    \* the keys of cur_cycle
    call,        \* each call of add_entry(): where it is, its bucket shard, status, clock,
                 \* the end of its window, the call on whose cond it waits, its result
    thread,      \* where ChangesRenewThread is
    batch,       \* the bucket shards it has taken
    stamp,       \* its clock: of the entries, and of the last time_log_add()
    down,        \* down_flag
    lastEntry,   \* the time stamp of the last entry of each bucket shard
    owed,        \* when the last change began that add_entry() answered with 0
    calls

vars == <<clock, changes, status, curCycle, call, thread, batch, stamp, down, lastEntry,
          owed, calls>>
callVars == <<call, calls>>
threadVars == <<thread, batch, stamp>>

\* One status for each call and for each place of the map, and one for the thread.
Statuses == 1 .. Cardinality(Callers) + ChangesSize + 1
NewStatus == [expiration |-> 0, sent |-> 0, pending |-> FALSE, cond |-> NoCaller]
Idle == [pc |-> "idle", bs |-> NoShard, st |-> 0, now |-> 0, expiration |-> 0,
         cond |-> NoCaller, ret |-> "ok"]

\* The later of two times.
Later(t, u) == IF t >= u THEN t ELSE u

Init ==
    /\ clock = 1
    /\ changes = <<>>
    /\ status = [s \in Statuses |-> NewStatus]
    /\ curCycle = {}
    /\ call = [c \in Callers |-> Idle]
    /\ thread = "swap" /\ batch = {} /\ stamp = [entries |-> 0, add |-> 0]
    /\ down = FALSE
    /\ lastEntry = [b \in BucketShards |-> 0]
    /\ owed = [b \in BucketShards |-> 0]
    /\ calls = 0

-----------------------------------------------------------------------------
(* The map of changes, holding lock.                                       *)

Mapped == {changes[i] : i \in 1 .. Len(changes)}

\* A status lives while the map or a call has it.
Free == Statuses \ ({e[2] : e \in Mapped} \cup {call[c].st : c \in Callers})

\* lru_map::find(), which makes the entry the most recent.
Find(b, s) ==
    /\ <<b, s>> \in Mapped
    /\ changes' = <<<<b, s>>>> \o SelectSeq(changes, LAMBDA e : e # <<b, s>>)

\* lru_map::add() of a new status, which drops the least recent entry of a full map.
Add(b, s) ==
    /\ \A e \in Mapped : e[1] # b
    /\ s \in Free /\ \A x \in Free : s <= x
    /\ changes' = <<<<b, s>>>> \o IF Len(changes) < ChangesSize THEN changes
                                ELSE SubSeq(changes, 1, Len(changes) - 1)

\* _get_change() yields the status s, whose value is old.
GetChange(b, s, old) ==
    \/ Find(b, s) /\ old = status[s]
    \/ Add(b, s) /\ old = NewStatus

-----------------------------------------------------------------------------
(* add_entry().                                                            *)

\* Up to the first clock reading.
AddEntry(c, b) ==
    /\ call[c].pc = "idle" /\ ~down
    /\ calls < MaxCalls
    /\ calls' = calls + 1
    /\ \E s \in Statuses : \E old \in {status[s], NewStatus} :
           /\ GetChange(b, s, old)
           /\ status' = [status EXCEPT ![s] = old]
           /\ call' = [call EXCEPT ![c] =
                  [Idle EXCEPT !.pc = "test", !.bs = b, !.st = s, !.now = clock]]
    /\ UNCHANGED <<clock, curCycle, threadVars, down, lastEntry, owed>>

\* With the lock of the status: an entry was sent less than a window ago, another call is
\* sending one, or this one does.
Test(c) ==
    LET s == call[c].st
    IN  /\ call[c].pc = "test"
        /\ \/ /\ call[c].now < status[s].expiration
              /\ call' = [call EXCEPT ![c].pc = "renew"]
              /\ UNCHANGED status
           \/ /\ call[c].now >= status[s].expiration /\ status[s].pending
              /\ call' = [call EXCEPT ![c].pc = "wait", ![c].cond = status[s].cond]
              /\ UNCHANGED status
           \/ /\ call[c].now >= status[s].expiration /\ ~status[s].pending
              /\ status' = [status EXCEPT ![s].pending = TRUE, ![s].cond = c,
                                          ![s].sent = call[c].now]
              /\ call' = [call EXCEPT ![c].pc = "send",
                                      ![c].expiration = call[c].now + Window]
        /\ UNCHANGED <<clock, changes, curCycle, threadVars, down, lastEntry, owed, calls>>

\* time_log_add(), and the next clock reading.
Send(c, r) ==
    /\ call[c].pc = "send"
    /\ call' = [call EXCEPT ![c].pc = "sent", ![c].now = clock, ![c].ret = r]
    /\ lastEntry' = [lastEntry EXCEPT ![call[c].bs] =
                        IF r = "ok" THEN Later(@, call[c].now) ELSE @]
    /\ UNCHANGED <<clock, changes, status, curCycle, threadVars, down, owed, calls>>

Late(c) == call[c].ret = "ok" /\ clock > call[c].expiration

\* It took longer than the window: once more.
SendAgain(c) ==
    /\ call[c].pc = "sent" /\ Late(c)
    /\ status' = [status EXCEPT ![call[c].st].sent = call[c].now]
    /\ call' = [call EXCEPT ![c].pc = "send", ![c].expiration = call[c].now + Window]
    /\ UNCHANGED <<clock, changes, curCycle, threadVars, down, lastEntry, owed, calls>>

\* The window begins when the entry was sent, also when that failed.
Sent(c) ==
    /\ call[c].pc = "sent" /\ ~Late(c)
    /\ status' = [status EXCEPT ![call[c].st] =
                     [@ EXCEPT !.pending = FALSE, !.cond = NoCaller,
                               !.expiration = status[call[c].st].sent + Window]]
    /\ call' = [call EXCEPT ![c].pc = "done"]
    /\ UNCHANGED <<clock, changes, curCycle, threadVars, down, lastEntry, owed, calls>>

Waiting(c) == {w \in Callers : call[w].pc = "wait" /\ call[w].cond = c}

Done_Quiet(c) ==
    /\ call[c].pc = "done"
    /\ call' = [call EXCEPT ![c] = Idle]
    /\ UNCHANGED <<clock, changes, status, curCycle, threadVars, down, lastEntry, owed, calls>>

\* cond->done(): the calls that wait on this cond return its result, if it is an error, or
\* go on to register for renewal.
Done(c) ==
    /\ call[c].pc = "done"
    /\ call' = [w \in Callers |->
          IF w = c \/ (w \in Waiting(c) /\ call[c].ret = "error") THEN Idle
          ELSE IF w \in Waiting(c) THEN [call[w] EXCEPT !.pc = "renew", !.cond = NoCaller]
          ELSE call[w]]
    /\ UNCHANGED <<clock, changes, status, curCycle, threadVars, down, lastEntry, owed, calls>>

\* register_renew(), and add_entry() returns 0.
RegisterRenew(c) ==
    /\ call[c].pc = "renew"
    /\ curCycle' = curCycle \cup {call[c].bs}
    /\ owed' = [owed EXCEPT ![call[c].bs] = Later(@, call[c].now)]
    /\ call' = [call EXCEPT ![c] = Idle]
    /\ UNCHANGED <<clock, changes, status, threadVars, down, lastEntry, calls>>

-----------------------------------------------------------------------------
(* ChangesRenewThread::entry() and renew_entries().                        *)

SwapCycle ==
    /\ thread = "swap"
    /\ batch' = curCycle
    /\ curCycle' = {}
    /\ stamp' = [stamp EXCEPT !.entries = clock]
    /\ thread' = "add"
    /\ UNCHANGED <<clock, changes, status, callVars, down, lastEntry, owed>>

\* The part of the batch for the first log object that is left.
AtIndex == {b \in batch : \A x \in batch : ChooseOid[b] <= ChooseOid[x]}

\* The entries of one log object are written.
TimeLogAdd ==
    /\ thread = "add" /\ batch # {}
    /\ stamp' = [stamp EXCEPT !.add = clock]
    /\ lastEntry' = [b \in BucketShards |->
          IF b \in AtIndex THEN Later(lastEntry[b], stamp.entries) ELSE lastEntry[b]]
    /\ thread' = "update"
    /\ UNCHANGED <<clock, changes, status, curCycle, callVars, batch, down, owed>>

\* They are not, and the thread forgets the rest of the batch, which nobody registers
\* again: these changes are lost, and owed, which follows the others, is reset for them.
TimeLogAddFails ==
    /\ thread = "add" /\ batch # {}
    /\ batch' = {}
    /\ owed' = [b \in BucketShards |-> IF b \in batch THEN 0 ELSE owed[b]]
    /\ UNCHANGED <<clock, changes, status, curCycle, callVars, thread, stamp, down, lastEntry>>

\* update_renewed() of one bucket shard of the log object.
UpdateRenewed(b) ==
    /\ thread = "update" /\ b \in AtIndex
    /\ \E s \in Statuses : \E old \in {status[s], NewStatus} :
           /\ GetChange(b, s, old)
           /\ status' = [status EXCEPT ![s] = [old EXCEPT !.expiration = stamp.add + Window]]
    /\ batch' = batch \ {b}
    /\ thread' = IF AtIndex = {b} THEN "add" ELSE "update"
    /\ UNCHANGED <<clock, curCycle, callVars, stamp, down, lastEntry, owed>>

Round_Clears ==
    /\ thread = "add" /\ batch = {}
    /\ thread' = IF down THEN "exited" ELSE "wait"
    /\ stamp' = [entries |-> 0, add |-> 0]
    /\ curCycle' = {}
    /\ UNCHANGED <<clock, changes, status, callVars, batch, down, lastEntry, owed>>

\* renew_entries() returns; the thread waits, for a signal or for three quarters of the
\* window, unless the log goes down.
Round ==
    /\ thread = "add" /\ batch = {}
    /\ thread' = IF down THEN "exited" ELSE "wait"
    /\ stamp' = [entries |-> 0, add |-> 0]
    /\ UNCHANGED <<clock, changes, status, curCycle, callVars, batch, down, lastEntry, owed>>

AfterWait ==
    /\ thread = "wait"
    /\ thread' = IF down THEN "exited" ELSE "swap"
    /\ UNCHANGED <<clock, changes, status, curCycle, callVars, batch, stamp, down,
                   lastEntry, owed>>

\* ~RGWDataChangesLog(), when no call is in progress.
GoDown ==
    /\ ~down /\ \A c \in Callers : call[c].pc = "idle"
    /\ down' = TRUE
    /\ UNCHANGED <<clock, changes, status, curCycle, callVars, threadVars, lastEntry, owed>>

Tick ==
    /\ clock < MaxTime
    /\ clock' = clock + 1
    /\ UNCHANGED <<changes, status, curCycle, callVars, threadVars, down, lastEntry, owed>>

Results == {"ok", "error"}

Call(c) ==
    Test(c) \/ SendAgain(c) \/ Sent(c) \/ Done(c) \/ RegisterRenew(c) \/ \E r \in Results : Send(c, r)

Renew ==
    \/ SwapCycle \/ TimeLogAdd \/ TimeLogAddFails \/ Round \/ AfterWait
    \/ \E b \in BucketShards : UpdateRenewed(b)

Next ==
    \/ \E c \in Callers : Call(c) \/ \E b \in BucketShards : AddEntry(c, b)
    \/ Renew
    \/ GoDown
    \/ Tick

Fairness == WF_vars(Renew) /\ \A c \in Callers : WF_vars(Call(c))

Spec == Init /\ [][Next]_vars
FairSpec == Spec /\ Fairness

-----------------------------------------------------------------------------
(* Properties.                                                             *)

TypeOK ==
    /\ clock \in 1 .. MaxTime
    /\ Len(changes) <= ChangesSize
    /\ status \in [Statuses -> [expiration : 0 .. MaxTime + Window, sent : 0 .. MaxTime,
                                pending : BOOLEAN, cond : Callers \cup {NoCaller}]]
    /\ curCycle \subseteq BucketShards /\ batch \subseteq BucketShards
    /\ \A c \in Callers :
           call[c].pc \in {"idle", "test", "wait", "send", "sent", "done", "renew"}
    /\ thread \in {"swap", "add", "update", "wait", "exited"}

\* A change that add_entry() answered without writing an entry of its own is not lost as
\* long as the thread can write the log: it has an entry at least as late, or waits in
\* cur_cycle or in the batch of the thread.  A batch whose write fails is lost.
ChangeIsKept ==
    \A b \in BucketShards : owed[b] > lastEntry[b] => b \in curCycle \cup batch

\* Whoever waits on a cond waits on that of a call that is still sending.
WaitsForSender ==
    \A c \in Callers : call[c].pc = "wait" => call[call[c].cond].pc \in {"send", "sent", "done"}

\* Such a change is followed by an entry, unless the log goes down or the write of the
\* batch with it fails.
ChangeIsLogged ==
    \A b \in BucketShards : owed[b] > lastEntry[b] ~> (owed[b] <= lastEntry[b] \/ down)

\* add_entry() returns.
AddEntryReturns == \A c \in Callers : call[c].pc # "idle" ~> call[c].pc = "idle"

\* The thread ends once ~RGWDataChangesLog() has set down_flag, so that join() returns.
DownEnds == down ~> thread = "exited"

=============================================================================
