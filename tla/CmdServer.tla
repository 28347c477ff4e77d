------------------------------ MODULE CmdServer ------------------------------
(***************************************************************************)
(* The command server of cgw/cgw.cc and its clients.  listen_loop accepts  *)
(* one connection at a time, reads one message from it and stores it in    *)
(* the array msg[]; main_loop handles what the array holds and closes the  *)
(* connections.  The two share msg_mutex, but listen_loop tests whether    *)
(* the array is full without it, and blocks in accept() and read() between *)
(* the test and the store.                                                 *)
(*                                                                         *)
(* A client is a thread of the gateway: post_msg() connects and writes,    *)
(* recv_msg() waits for the answer or the end of the connection.  A client *)
(* may die in between.  A message is identified with its client.           *)
(***************************************************************************)
EXTENDS Integers, Sequences, FiniteSets

CONSTANTS Clients,
          NoClient,     \* no connection
          QueueSize     \* MSG_QUEUE_SIZE

ASSUME CmdServerAssumption ==
    /\ NoClient \notin Clients
    /\ QueueSize \in Nat \ {0}

VARIABLES
    client,      \* where each client is
    backlog,     \* connections that accept() has not returned yet
    lpc,         \* where listen_loop is
    comFd,       \* com_fd: the connection it reads from
    mpc,         \* where main_loop is: "try", or "handle" with the mutex held
    count,       \* count
    msg,         \* msg[]
    msgUpdate    \* msg_update

vars == <<client, backlog, lpc, comFd, mpc, count, msg, msgUpdate>>

\* "closed": the client died after connect(); "sent": its message is written.
ClientStates == {"idle", "connected", "closed", "sent"}
ListenStates == {"test", "accept", "read", "store"}
Slots == 0 .. QueueSize - 1

Init ==
    /\ client = [c \in Clients |-> "idle"]
    /\ backlog = <<>>
    /\ lpc = "test"
    /\ comFd = NoClient
    /\ mpc = "try"
    /\ count = 0
    /\ msg = [i \in Slots |-> NoClient]
    /\ msgUpdate = 0

-----------------------------------------------------------------------------
(* Clients.                                                                *)

\* post_msg(), up to connect().
Connect(c) ==
    /\ client[c] = "idle"
    /\ client' = [client EXCEPT ![c] = "connected"]
    /\ backlog' = Append(backlog, c)
    /\ UNCHANGED <<lpc, comFd, mpc, count, msg, msgUpdate>>

\* The rest of post_msg(); recv_msg() waits from now on.
Send(c) ==
    /\ client[c] = "connected"
    /\ client' = [client EXCEPT ![c] = "sent"]
    /\ UNCHANGED <<backlog, lpc, comFd, mpc, count, msg, msgUpdate>>

\* The gateway dies before it has written.
Die(c) ==
    /\ client[c] = "connected"
    /\ client' = [client EXCEPT ![c] = "closed"]
    /\ UNCHANGED <<backlog, lpc, comFd, mpc, count, msg, msgUpdate>>

-----------------------------------------------------------------------------
(* listen_loop                                                             *)

Full_OffByOne == msgUpdate > QueueSize

\* The test at the head of the loop.
Full == msgUpdate > QueueSize - 1

\* Without the mutex.  When the array is full the thread sleeps and tests again.
Test ==
    /\ lpc = "test"
    /\ ~Full
    /\ lpc' = "accept"
    /\ UNCHANGED <<client, backlog, comFd, mpc, count, msg, msgUpdate>>

\* receive_msg(): accept() returns the oldest connection ...
Accept ==
    /\ lpc = "accept"
    /\ backlog # <<>>
    /\ comFd' = Head(backlog)
    /\ backlog' = Tail(backlog)
    /\ lpc' = "read"
    /\ UNCHANGED <<client, mpc, count, msg, msgUpdate>>

\* accept() fails: back to the loop.
AcceptFails ==
    /\ lpc = "accept"
    /\ lpc' = "test"
    /\ UNCHANGED <<client, backlog, comFd, mpc, count, msg, msgUpdate>>

\* ... and read() waits for its message.
Read ==
    /\ lpc = "read"
    /\ client[comFd] = "sent"
    /\ lpc' = "store"
    /\ UNCHANGED <<client, backlog, comFd, mpc, count, msg, msgUpdate>>

\* read() finds the end of the connection: back to the loop, which forgets the
\* descriptor.
ReadNothing ==
    /\ lpc = "read"
    /\ client[comFd] = "closed"
    /\ client' = [client EXCEPT ![comFd] = "idle"]
    /\ comFd' = NoClient
    /\ lpc' = "test"
    /\ UNCHANGED <<backlog, mpc, count, msg, msgUpdate>>

StoreIndex_Last == msgUpdate - 1

\* msg[msg_update-1] after msg_update++
StoreIndex == msgUpdate

\* The critical section of listen_loop.
Store ==
    /\ lpc = "store"
    /\ mpc = "try"
    /\ msgUpdate' = msgUpdate + 1
    /\ msg' = [msg EXCEPT ![StoreIndex] = comFd]
    /\ comFd' = NoClient
    /\ lpc' = "test"
    /\ UNCHANGED <<client, backlog, mpc, count>>

Listener == Test \/ Accept \/ AcceptFails \/ Read \/ ReadNothing \/ Store

-----------------------------------------------------------------------------
(* main_loop                                                               *)

\* pthread_mutex_trylock() succeeds.
TryLock ==
    /\ mpc = "try"
    /\ mpc' = "handle"
    /\ count' = 0
    /\ UNCHANGED <<client, backlog, lpc, comFd, msg, msgUpdate>>

Handle_ForgetsRest ==
    /\ mpc = "handle"
    /\ msgUpdate > 0
    /\ client' = [client EXCEPT ![msg[count]] = "idle"]
    /\ msgUpdate' = 0
    /\ count' = count + 1
    /\ UNCHANGED <<backlog, lpc, comFd, mpc, msg>>

Handle_Newest ==
    /\ mpc = "handle"
    /\ msgUpdate > 0
    /\ client' = [client EXCEPT ![msg[msgUpdate - 1]] = "idle"]
    /\ msgUpdate' = msgUpdate - 1
    /\ UNCHANGED <<backlog, lpc, comFd, mpc, count, msg>>

\* cgw_msg_handler() answers, or not, and closes the connection.
Handle ==
    /\ mpc = "handle"
    /\ msgUpdate > 0
    /\ client' = [client EXCEPT ![msg[count]] = "idle"]
    /\ msgUpdate' = msgUpdate - 1
    /\ count' = count + 1
    /\ UNCHANGED <<backlog, lpc, comFd, mpc, msg>>

\* The array is empty; count is set again after the next trylock.
Unlock ==
    /\ mpc = "handle"
    /\ msgUpdate = 0
    /\ mpc' = "try"
    /\ UNCHANGED <<client, backlog, lpc, comFd, count, msg, msgUpdate>>

Main == TryLock \/ Handle \/ Unlock

-----------------------------------------------------------------------------
Next == Listener \/ Main \/ \E c \in Clients : Connect(c) \/ Send(c) \/ Die(c)

\* Both threads run, and a client that has connected writes or dies.  Nothing makes
\* listen_loop get the mutex: main_loop locks it again as soon as it has unlocked it,
\* so that it is free again and again but never for long.
Fairness ==
    /\ WF_vars(Listener)
    /\ WF_vars(Main)
    /\ \A c \in Clients : WF_vars(Send(c) \/ Die(c))

Spec == Init /\ [][Next]_vars
FairSpec == Spec /\ Fairness

-----------------------------------------------------------------------------
(* Properties.                                                             *)

\* Types of the variables; msg_update never leaves the array.
TypeOK ==
    /\ client \in [Clients -> ClientStates]
    /\ backlog \in Seq(Clients)
    /\ lpc \in ListenStates
    /\ comFd \in Clients \cup {NoClient}
    /\ mpc \in {"try", "handle"}
    /\ count \in 0 .. QueueSize
    /\ msg \in [Slots -> Clients \cup {NoClient}]
    /\ msgUpdate \in 0 .. QueueSize

\* The first message that main_loop has not handled.
First == IF mpc = "handle" THEN count ELSE 0

\* The test of listen_loop still holds when the message is stored, although it
\* was made without the mutex and before two blocking calls: nobody else adds
\* messages.  And main_loop stays inside what was stored.
StoreInBounds ==
    /\ lpc # "test" => msgUpdate < QueueSize
    /\ First + msgUpdate <= QueueSize

\* The messages that are stored and not yet handled.
Pending == [i \in 1 .. msgUpdate |-> msg[First + i - 1]]

\* A connection is in one place: unread in the backlog, with listen_loop, or
\* stored once.  The client of a stored message waits for the answer.
ConnectionInOnePlace ==
    /\ \A i \in DOMAIN Pending : Pending[i] \in Clients /\ client[Pending[i]] = "sent"
    /\ \A j \in DOMAIN backlog : client[backlog[j]] # "idle"
    /\ comFd # NoClient <=> lpc \in {"read", "store"}
    /\ lpc = "read" => client[comFd] # "idle"
    /\ lpc = "store" => client[comFd] = "sent"
    /\ \A i, j \in DOMAIN Pending : Pending[i] = Pending[j] => i = j
    /\ \A i, j \in DOMAIN backlog : backlog[i] = backlog[j] => i = j
    /\ \A i \in DOMAIN Pending, j \in DOMAIN backlog : Pending[i] # backlog[j]
    /\ \A i \in DOMAIN Pending : Pending[i] # comFd
    /\ \A j \in DOMAIN backlog : backlog[j] # comFd

Stored(c) == \E i \in DOMAIN Pending : Pending[i] = c

\* listen_loop does not wait for the mutex for ever, and accept() does not fail for
\* ever while a connection waits.
ListenerServed == []<>(lpc # "store") /\ []<>(lpc = "read" \/ backlog = <<>>)

\* Every message that is stored is handled and its connection closed.  A message that
\* was written is stored, and so handled, if listen_loop gets the mutex and accept()
\* succeeds now and then, however many clients compete for the places of the array:
\* the code itself does not see to either.
EveryMessageHandled ==
    \A c \in Clients : /\ Stored(c) ~> client[c] = "idle"
                       /\ ListenerServed => (client[c] = "sent" ~> client[c] = "idle")

\* The clients that wait in recv_msg().
Asked == {c \in Clients : client[c] = "sent"}
Service == INSTANCE CommandService WITH asked <- Asked, pending <- Pending

\* The array with its two indices is a bounded queue: messages are handled in
\* the order in which they were read, each once.
ImplementsService == Service!Spec

=============================================================================
