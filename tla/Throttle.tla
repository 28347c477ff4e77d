------------------------------ MODULE Throttle ------------------------------
(***************************************************************************)
(* Throttle of common/Throttle.cc: threads get() and put() slots of a      *)
(* stock and wait, each on its own condition variable, in the order of     *)
(* the list cond.  A step is one critical section of the mutex.  A thread  *)
(* that waits leaves its sleep only when its condition is signalled; a     *)
(* wake-up without a signal would only repeat the test.                    *)
(*                                                                         *)
(* A maximum of 0 switches the throttle off: get(), take(), put() and      *)
(* wait() then return at once and count nothing.  The model keeps to       *)
(* maxima above 0, and what it shows is for throttles that are never       *)
(* switched off.  Callers put back no more than they hold.                 *)
(***************************************************************************)
EXTENDS Integers, Sequences, FiniteSets

CONSTANTS Threads,
          Amounts,      \* what a thread asks for at a time
          Maxima,       \* values of max
          MaxHeld       \* bound: slots held by one thread

ThrottleAssumption ==
    /\ Amounts \subseteq Nat \ {0}
    /\ Maxima \subseteq Nat \ {0}
    /\ MaxHeld \in Nat

VARIABLES
    count,    \* count
    max,      \* max
    cond,     \* cond: the waiters, first come first
    pc,       \* where each thread is
    want,     \* the argument c of its get(); 0 in wait()
    held      \* slots that each thread has taken and not put back

vars == <<count, max, cond, pc, want, held>>

Init ==
    /\ count = 0
    /\ max \in Maxima
    /\ cond = <<>>
    /\ pc = [t \in Threads |-> "idle"]
    /\ want = [t \in Threads |-> 0]
    /\ held = [t \in Threads |-> 0]

ShouldWait(c, cur, m) ==
    \/ c <= m /\ cur + c > m     \* normally stay under max
    \/ c >= m /\ cur > m         \* except for large c

\* cond.front()->SignalOne() when somebody waits.
SignalFront(p, q) ==
    IF q = <<>> THEN p ELSE [p EXCEPT ![Head(q)] = "woken"]

-----------------------------------------------------------------------------

ResetMax_Quiet(m) ==
    /\ max' = m
    /\ pc' = pc

\* _reset_max(): the waiter at the front is signalled before max is changed, and
\* tests again when the mutex is released.
ResetMax(m) ==
    /\ max' = m
    /\ pc' = IF m = max THEN pc ELSE SignalFront(pc, cond)

\* reset_max().
CallResetMax(t, m) ==
    /\ pc[t] = "idle"
    /\ ResetMax(m)
    /\ UNCHANGED <<count, cond, want, held>>

\* get(c, m), and wait(m) with c = 0, that find room and nobody waiting; m is the
\* new maximum, or the present one where the argument is 0.  With m = max also
\* the success of get_or_fail(c).
GetAtOnce(t, c, m) ==
    /\ pc[t] = "idle"
    /\ held[t] + c <= MaxHeld
    /\ ~ ShouldWait(c, count, m) /\ cond = <<>>
    /\ max' = m
    /\ count' = count + c
    /\ held' = [held EXCEPT ![t] = @ + c]
    /\ UNCHANGED <<cond, pc, want>>

\* The same that must wait, behind the other waiters.
GetWait(t, c, m) ==
    /\ pc[t] = "idle"
    /\ held[t] + c <= MaxHeld
    /\ ShouldWait(c, count, m) \/ cond # <<>>
    /\ max' = m
    /\ cond' = Append(cond, t)
    /\ pc' = [(IF m = max THEN pc ELSE SignalFront(pc, cond)) EXCEPT ![t] = "wait"]
    /\ want' = [want EXCEPT ![t] = c]
    /\ UNCHANGED <<count, held>>

\* A signalled waiter finds that it is not its turn, or that there is no room.
WaitAgain(t) ==
    /\ pc[t] = "woken"
    /\ ShouldWait(want[t], count, max) \/ t # Head(cond)
    /\ pc' = [pc EXCEPT ![t] = "wait"]
    /\ UNCHANGED <<count, max, cond, want, held>>

\* It is its turn: it leaves the list and wakes up the next one.
WaitDone(t) ==
    /\ pc[t] = "woken"
    /\ ~ ShouldWait(want[t], count, max) /\ t = Head(cond)
    /\ cond' = Tail(cond)
    /\ pc' = SignalFront([pc EXCEPT ![t] = "idle"], Tail(cond))
    /\ count' = count + want[t]
    /\ held' = [held EXCEPT ![t] = @ + want[t]]
    /\ want' = [want EXCEPT ![t] = 0]
    /\ UNCHANGED max

\* take(): never waits.
Take(t, c) ==
    /\ pc[t] = "idle"
    /\ held[t] + c <= MaxHeld
    /\ count' = count + c
    /\ held' = [held EXCEPT ![t] = @ + c]
    /\ UNCHANGED <<max, cond, pc, want>>

\* put() of slots that t has taken, with max above 0; it may come from the completion of an I/O
\* while t itself waits for more.
Put(t, c) ==
    /\ c \in 1 .. held[t]
    /\ pc' = SignalFront(pc, cond)
    /\ count' = count - c
    /\ held' = [held EXCEPT ![t] = @ - c]
    /\ UNCHANGED <<max, cond, want>>

Next ==
    \E t \in Threads :
        \/ \E m \in Maxima :
              \/ CallResetMax(t, m)
              \/ \E c \in Amounts \cup {0} : GetAtOnce(t, c, m) \/ GetWait(t, c, m)
        \/ \E c \in Amounts : Take(t, c) \/ Put(t, c)
        \/ WaitAgain(t) \/ WaitDone(t)

Spec == Init /\ [][Next]_vars

-----------------------------------------------------------------------------
(* Properties.                                                             *)

TypeOK ==
    /\ count \in Nat /\ max \in Maxima
    /\ cond \in Seq(Threads)
    /\ pc \in [Threads -> {"idle", "wait", "woken"}]
    /\ want \in [Threads -> Amounts \cup {0}]
    /\ held \in [Threads -> Nat]

\* The threads that sleep or have just been woken are those in the list, once.
WaitersListed ==
    /\ \A i, j \in 1 .. Len(cond) : cond[i] = cond[j] => i = j
    /\ \A t \in Threads : pc[t] # "idle" <=> \E i \in 1 .. Len(cond) : cond[i] = t

\* No wake-up is lost: when there is room for the waiter at the front, it has been
\* signalled (put(), _reset_max() and the hand-on at the end of _wait()).
FrontIsWoken ==
    cond # <<>> /\ ~ ShouldWait(want[Head(cond)], count, max) => pc[Head(cond)] = "woken"

\* The slots that are taken, numbered for each thread.
SlotsHeld(h) == UNION {{t} \X (1 .. h[t]) : t \in Threads}

\* "if count goes negative, we failed somewhere" (the assertion in put()): count is
\* what the threads hold together, so none can put back more than there is.
CountExact == count = Cardinality(SlotsHeld(held))

=============================================================================
