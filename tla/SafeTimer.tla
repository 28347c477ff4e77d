------------------------------ MODULE SafeTimer ------------------------------
(***************************************************************************)
(* SafeTimer of common/Timer.cc: a thread that runs callbacks at their     *)
(* time, under a mutex it shares with its clients.  With safe_callbacks    *)
(* the thread keeps the mutex while a callback runs; without, it releases  *)
(* it.  The clients add and cancel events and shut the timer down, each    *)
(* call one critical section of the mutex.  The clock advances on its own. *)
(***************************************************************************)
EXTENDS Naturals, FiniteSets

CONSTANTS Callbacks,      \* the Context pointers
          NoCallback,
          SafeCallbacks,  \* safe_callbacks
          MaxTime         \* bound: the clock stops there

TimerAssumption ==
    /\ NoCallback \notin Callbacks
    /\ SafeCallbacks \subseteq BOOLEAN
    /\ MaxTime \in Nat

VARIABLES
    safe,       \* safe_callbacks
    clock,      \* ceph_clock_now()
    schedule,   \* the multimap, as a set of pairs <<time, callback>>
    events,     \* the keys of the lookup map
    stopping,
    thread,     \* where the timer thread is; "none" is the null pointer
    now,        \* the local variable of timer_thread()
    deadline,   \* until when the thread waits; Never in the wait without a deadline
    signalled,  \* cond was signalled since the thread went to sleep
    running,    \* the callback being run
    client,     \* "idle", or "joining" inside shutdown()
    status      \* what became of each callback

vars == <<safe, clock, schedule, events, stopping, thread, now, deadline, signalled,
          running, client, status>>

Never == MaxTime + 1

Due(s, at) == {e \in s : e[1] <= at}
First(s) == {e \in s : \A f \in s : e[1] <= f[1]}

Init ==
    /\ safe \in SafeCallbacks
    /\ clock = 0
    /\ schedule = {}
    /\ events = {}
    /\ stopping = FALSE
    /\ thread = "none"
    /\ now = 0
    /\ deadline = Never
    /\ signalled = FALSE
    /\ running = NoCallback
    /\ client = "idle"
    /\ status = [c \in Callbacks |-> "new"]

\* The thread holds the mutex while it looks at the schedule, and in a callback
\* when callbacks are safe.
LockFree == thread \notin {"loop", "scan"} /\ ~(thread = "run" /\ safe)

\* A client has the mutex, or a callback calls the timer.
MayCall == (LockFree /\ client = "idle") \/ thread = "run"

-----------------------------------------------------------------------------
(* The clients, holding the mutex.                                         *)

\* init().
StartTimer ==
    /\ thread = "none" /\ ~stopping
    /\ thread' = "create"
    /\ UNCHANGED <<safe, clock, schedule, events, stopping, now, deadline, signalled,
                   running, client, status>>

AddEventAt_NoSignal(c, at) ==
    /\ status[c] = "new"
    /\ schedule' = schedule \cup {<<at, c>>}
    /\ events' = events \cup {c}
    /\ status' = [status EXCEPT ![c] = "scheduled"]
    /\ signalled' = signalled

\* add_event_at(): wakes the thread when the new event is the first.  multimap
\* inserts after the events of the same time.
AddEventAt(c, at) ==
    /\ status[c] = "new"
    /\ schedule' = schedule \cup {<<at, c>>}
    /\ events' = events \cup {c}
    /\ status' = [status EXCEPT ![c] = "scheduled"]
    /\ signalled' = (signalled \/ \A e \in schedule : at < e[1])

\* A client calls add_event_at() or add_event_after(); so does a callback.  Nobody
\* adds events once shutdown() has begun, which the code leaves to its callers.
AddEvent(c, at) ==
    /\ MayCall /\ ~stopping
    /\ AddEventAt(c, at)
    /\ UNCHANGED <<safe, clock, stopping, thread, now, deadline, running, client>>

\* cancel_event(), which deletes the callback when it finds the event.
CancelEvent(c) ==
    /\ MayCall
    /\ c \in events
    /\ events' = events \ {c}
    /\ schedule' = {e \in schedule : e[2] # c}
    /\ status' = [status EXCEPT ![c] = "cancelled"]
    /\ UNCHANGED <<safe, clock, stopping, thread, now, deadline, signalled, running,
                   client>>

CancelAll ==
    /\ status' = [c \in Callbacks |-> IF c \in events THEN "cancelled" ELSE status[c]]
    /\ events' = {}
    /\ schedule' = {e \in schedule : e[2] \notin events}

\* cancel_all_events().
CancelAllEvents ==
    /\ MayCall
    /\ CancelAll
    /\ UNCHANGED <<safe, clock, stopping, thread, now, deadline, signalled, running,
                   client>>

Shutdown_NoCancel ==
    /\ LockFree /\ client = "idle" /\ thread # "none"
    /\ stopping' = TRUE
    /\ signalled' = TRUE
    /\ client' = "joining"
    /\ UNCHANGED <<safe, clock, schedule, events, thread, now, deadline, running,
                   status>>

\* shutdown() up to the join: cancel_all_events(), stopping, signal, unlock.
Shutdown ==
    /\ LockFree /\ client = "idle" /\ thread # "none"
    /\ CancelAll
    /\ stopping' = TRUE
    /\ signalled' = TRUE
    /\ client' = "joining"
    /\ UNCHANGED <<safe, clock, thread, now, deadline, running>>

\* The rest of shutdown().
Join ==
    /\ client = "joining" /\ thread = "exited"
    /\ client' = "idle"
    /\ thread' = "none"
    /\ UNCHANGED <<safe, clock, schedule, events, stopping, now, deadline, signalled,
                   running, status>>

-----------------------------------------------------------------------------
(* timer_thread().                                                         *)

\* The thread has the mutex: at its start, or back from the wait.
GetLock ==
    /\ \/ thread = "create"
       \/ thread = "sleep" /\ (signalled \/ deadline <= clock)
    /\ thread' = "loop"
    /\ deadline' = Never
    /\ UNCHANGED <<safe, clock, schedule, events, stopping, now, signalled,
                   running, client, status>>

Loop ==
    /\ thread = "loop"
    /\ now' = clock
    /\ thread' = IF stopping THEN "exited" ELSE "scan"
    /\ UNCHANGED <<safe, clock, schedule, events, stopping, deadline, signalled, running,
                   client, status>>

RunFirst_NoClock(e) ==
    /\ thread = "scan"
    /\ e \in First(schedule)
    /\ schedule' = schedule \ {e}
    /\ events' = events \ {e[2]}
    /\ running' = e[2]
    /\ status' = [status EXCEPT ![e[2]] = "running"]
    /\ thread' = "run"
    /\ UNCHANGED <<safe, clock, stopping, now, deadline, signalled, client>>

\* The first event is due: it leaves both maps and its callback starts.
RunFirst(e) ==
    /\ thread = "scan"
    /\ e \in First(Due(schedule, now))
    /\ schedule' = schedule \ {e}
    /\ events' = events \ {e[2]}
    /\ running' = e[2]
    /\ status' = [status EXCEPT ![e[2]] = "running"]
    /\ thread' = "run"
    /\ UNCHANGED <<safe, clock, stopping, now, deadline, signalled, client>>

\* The callback returns and the thread has the mutex (again).
Return ==
    /\ thread = "run"
    /\ status' = [status EXCEPT ![running] = "done"]
    /\ running' = NoCallback
    /\ thread' = "scan"
    /\ UNCHANGED <<safe, clock, schedule, events, stopping, now, deadline, signalled,
                   client>>

\* The wait: until the first event, or without a deadline when there is none.
GoToSleep ==
    /\ thread' = "sleep"
    /\ signalled' = FALSE
    /\ IF schedule = {} THEN deadline' = Never ELSE \E e \in First(schedule) : deadline' = e[1]

\* Nothing (more) is due: test stopping again if the mutex was dropped, and wait.
Sleep ==
    /\ thread = "scan" /\ Due(schedule, now) = {}
    /\ IF ~safe /\ stopping
       THEN thread' = "exited" /\ UNCHANGED <<signalled, deadline>>
       ELSE GoToSleep
    /\ UNCHANGED <<safe, clock, schedule, events, stopping, now, running, client, status>>

Tick ==
    /\ clock < MaxTime
    /\ clock' = clock + 1
    /\ UNCHANGED <<safe, schedule, events, stopping, thread, now, deadline, signalled,
                   running, client, status>>

TimerThread == GetLock \/ Loop \/ (\E e \in schedule : RunFirst(e)) \/ Return \/ Sleep

\* After shutdown() the object is only destroyed.
Finished ==
    /\ stopping /\ thread = "none"
    /\ UNCHANGED vars

Next ==
    \/ StartTimer \/ Shutdown \/ Join
    \/ \E c \in Callbacks, at \in 0 .. MaxTime : AddEvent(c, at)
    \/ \E c \in Callbacks : CancelEvent(c)
    \/ CancelAllEvents \/ TimerThread \/ Tick \/ Finished

Spec == Init /\ [][Next]_vars

\* The scheduler runs the thread, callbacks return, the join ends with the thread and
\* time passes.
Fairness == WF_vars(TimerThread) /\ WF_vars(Join) /\ WF_vars(Tick)

FairSpec == Spec /\ Fairness

-----------------------------------------------------------------------------
(* Properties.                                                             *)

TypeOK ==
    /\ safe \in BOOLEAN /\ stopping \in BOOLEAN /\ signalled \in BOOLEAN
    /\ clock \in 0 .. MaxTime /\ now \in 0 .. MaxTime
    /\ deadline \in 0 .. Never
    /\ schedule \subseteq (0 .. MaxTime) \X Callbacks
    /\ events \subseteq Callbacks
    /\ thread \in {"none", "create", "loop", "scan", "run", "sleep", "exited"}
    /\ running \in Callbacks \cup {NoCallback}
    /\ client \in {"idle", "joining"}
    /\ status \in [Callbacks -> {"new", "scheduled", "running", "done", "cancelled"}]

\* The two maps name the same callbacks, and these are the ones neither run nor
\* deleted: an event the thread took out cannot be cancelled, so cancel_event() never
\* deletes a callback that runs and no callback runs twice.
MapsAgree ==
    /\ events = {e[2] : e \in schedule}
    /\ events = {c \in Callbacks : status[c] = "scheduled"}
    /\ \A e, f \in schedule : e[2] = f[2] => e = f

\* A callback runs no earlier than its time and after every other scheduled callback
\* that was due before it at the moment the thread looked at the clock.
NotBeforeItsTime ==
    [][\A e \in schedule :
          e[2] = running' /\ running # running'
          => e[1] <= clock /\ \A f \in schedule : e[1] <= f[1]]_vars

\* shutdown() leaves nothing behind: when it has returned the thread is gone, no
\* callback runs and none is left to run.
ShutdownIsFinal ==
    stopping /\ thread \in {"none", "exited"} => running = NoCallback /\ schedule = {}

\* A scheduled event is run or cancelled: no order of add_event_at(), of the wait with
\* a deadline and of the clock makes the thread sleep past it.
EventRuns ==
    \A c \in Callbacks :
        status[c] = "scheduled" /\ thread # "none" ~> status[c] \in {"done", "cancelled"}

\* shutdown() returns, also when it is called while an unsafe callback runs.
ShutdownReturns == client = "joining" ~> client = "idle"

=============================================================================
