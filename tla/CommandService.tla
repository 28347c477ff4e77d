--------------------------- MODULE CommandService ---------------------------
(***************************************************************************)
(* What the command server promises the threads of the gateway that ask it *)
(* for passwords and volumes: a bounded first-in first-out queue in which  *)
(* every question is answered once.                                        *)
(***************************************************************************)
EXTENDS Naturals, Sequences

CONSTANTS Clients,      \* the threads that ask
          QueueSize     \* questions that can be pending

VARIABLES asked,        \* the clients that wait for an answer
          pending       \* those whose question has been taken in, in order

vars == <<asked, pending>>

Init == asked = {} /\ pending = <<>>

\* A client puts its question.
Ask(c) ==
    /\ c \notin asked
    /\ asked' = asked \cup {c}
    /\ UNCHANGED pending

\* The question is taken in.
Take(c) ==
    /\ c \in asked
    /\ \A i \in DOMAIN pending : pending[i] # c
    /\ Len(pending) < QueueSize
    /\ pending' = Append(pending, c)
    /\ UNCHANGED asked

\* The oldest question is answered.
Answer ==
    /\ pending # <<>>
    /\ asked' = asked \ {Head(pending)}
    /\ pending' = Tail(pending)

Next == Answer \/ \E c \in Clients : Ask(c) \/ Take(c)

Spec == Init /\ [][Next]_vars

=============================================================================
