----------------------------- MODULE Connections -----------------------------
(***************************************************************************)
(* What the FastCGI front end promises its clients, without threads,       *)
(* queues and tickets: a fixed set of connection slots that are used again *)
(* and again, and a shutdown that answers everybody first.  Only an abort  *)
(* of the process cuts clients off.                                        *)
(***************************************************************************)
CONSTANTS Slots       \* the connections that can be open at once

VARIABLES conn,       \* the slots with an open connection
          phase       \* "up", "closing", "down" or "aborted"

vars == <<conn, phase>>

Init ==
    /\ conn = [s \in Slots |-> FALSE]
    /\ phase = "up"

\* A client connects.
Accept(s) ==
    /\ phase = "up"
    /\ ~conn[s]
    /\ conn' = [conn EXCEPT ![s] = TRUE]
    /\ UNCHANGED phase

\* Its request is processed and the connection closed.
Answer(s) ==
    /\ conn[s]
    /\ conn' = [conn EXCEPT ![s] = FALSE]
    /\ UNCHANGED phase

\* The listening socket fails: no more clients.
Close ==
    /\ phase = "up"
    /\ phase' = "closing"
    /\ UNCHANGED conn

\* The process is aborted while it waits for a free slot.
Abort ==
    /\ phase = "up"
    /\ phase' = "aborted"
    /\ conn' = [s \in Slots |-> FALSE]

\* The service ends, with nobody left waiting.
Down ==
    /\ phase \in {"up", "closing"}
    /\ \A s \in Slots : ~conn[s]
    /\ phase' = "down"
    /\ UNCHANGED conn

Next == Close \/ Abort \/ Down \/ \E s \in Slots : Accept(s) \/ Answer(s)

FairSpec ==
    /\ Init /\ [][Next]_vars
    /\ \A s \in Slots : WF_vars(Answer(s))
    /\ WF_vars(Down /\ phase = "closing")

=============================================================================
