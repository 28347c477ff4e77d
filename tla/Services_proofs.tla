-------------------------- MODULE Services_proofs ---------------------------
(***************************************************************************)
(* The services beside the requests, for any number of clients, threads,   *)
(* callbacks and buckets and any lengths of time: the command server never *)
(* overruns its store and implements the queue of CommandService; the timer *)
(* keeps its two maps in step, runs nothing early and nothing after its    *)
(* shutdown; no modified bucket is forgotten; and the log keeps the order of *)
(* its entries.                                                            *)
(***************************************************************************)
EXTENDS CmdServer, Services, TLAPS

\* What the steps preserve together: the types give the indices their range, the
\* bounds keep them inside the array, and the places of the connections make a
\* newly stored message differ from those that are pending.
Inv == TypeOK /\ StoreInBounds /\ ConnectionInOnePlace

USE CmdServerAssumption

\* What the proofs use of sequences.
LEMMA SeqIsFunction ==
    ASSUME NEW S, NEW s \in Seq(S)
    PROVE  /\ Len(s) \in Nat
           /\ s \in [1 .. Len(s) -> S]
           /\ DOMAIN s = 1 .. Len(s)
           /\ s # <<>> => Len(s) > 0
  OBVIOUS

LEMMA SeqAppended ==
    ASSUME NEW S, NEW s \in Seq(S), NEW e \in S
    PROVE  /\ Append(s, e) \in Seq(S) /\ Append(s, e) # <<>>
           /\ Len(Append(s, e)) = Len(s) + 1
           /\ \A i \in 1 .. Len(s) : Append(s, e)[i] = s[i]
           /\ Append(s, e)[Len(s) + 1] = e
  OBVIOUS

LEMMA SeqWithoutHead ==
    ASSUME NEW S, NEW s \in Seq(S), s # <<>>
    PROVE  /\ Head(s) \in S /\ Tail(s) \in Seq(S)
           /\ Len(Tail(s)) = Len(s) - 1
           /\ \A i \in 1 .. Len(Tail(s)) : Tail(s)[i] = s[i + 1]
  OBVIOUS

\* The indices of the pending messages are slots of the array.
LEMMA PendingSlots ==
  ASSUME TypeOK, StoreInBounds
  PROVE  /\ First \in Nat /\ msgUpdate \in Nat
         /\ DOMAIN Pending = 1 .. msgUpdate
         /\ Pending \in Seq(Clients \cup {NoClient})
         /\ Len(Pending) = msgUpdate
         /\ \A i \in 1 .. msgUpdate : First + i - 1 \in Slots
         /\ \A i \in 1 .. msgUpdate : Pending[i] = msg[First + i - 1]
  <1>1. First \in Nat /\ msgUpdate \in Nat
    BY DEF First, TypeOK
  <1>2. \A i \in 1 .. msgUpdate : First + i - 1 \in Slots
    BY <1>1 DEF StoreInBounds, Slots
  <1>3. \A i \in 1 .. msgUpdate : msg[First + i - 1] \in Clients \cup {NoClient}
    BY Zenon, <1>2 DEF TypeOK
  <1> QED
    BY <1>1, <1>2, <1>3 DEF Pending

LEMMA InitInv == Init => Inv
  <1> SUFFICES ASSUME Init PROVE Inv
    OBVIOUS
  <1>1. TypeOK
    BY DEF Init, TypeOK, ClientStates, ListenStates
  <1>2. StoreInBounds
    BY DEF Init, StoreInBounds, First
  <1>3. DOMAIN Pending = {}
    BY DEF Init, Pending
  <1>4. DOMAIN backlog = {}
    BY DEF Init
  <1>5. ConnectionInOnePlace
    BY <1>3, <1>4 DEF Init, ConnectionInOnePlace
  <1> QED
    BY <1>1, <1>2, <1>5 DEF Inv

-----------------------------------------------------------------------------
(* What the steps do to the pending messages.                              *)

\* Steps of clients, and of listen_loop before it stores, leave the array alone.
LEMMA PendingKept ==
  ASSUME UNCHANGED <<mpc, count, msg, msgUpdate>>
  PROVE  First' = First /\ Pending' = Pending
  BY DEF First, Pending

\* Between two passes of main_loop nothing is handled.
LEMMA PendingBetween ==
  ASSUME Inv, TryLock \/ Unlock
  PROVE  /\ First' = 0 \/ msgUpdate = 0
         /\ First' + msgUpdate' <= QueueSize
         /\ Pending' = Pending
  <1>1. CASE TryLock
    <2>1. First = 0 /\ First' = 0
      BY Zenon, <1>1 DEF TryLock, First
    <2> QED
      BY Zenon, <1>1, <2>1 DEF TryLock, Pending, Inv, StoreInBounds
  <1>2. CASE Unlock
    <2>1. msgUpdate = 0 /\ msgUpdate' = 0 /\ First' = 0
      BY Zenon, <1>2 DEF Unlock, First
    <2>2. 1 .. msgUpdate = {} /\ 1 .. msgUpdate' = {}
      BY <2>1
    <2> QED
      BY <2>1, <2>2 DEF Pending
  <1> QED
    BY <1>1, <1>2

\* listen_loop appends the message that it has read.
LEMMA PendingStored ==
  ASSUME Inv, Store
  PROVE  /\ First' = 0 /\ First = 0
         /\ msgUpdate' = msgUpdate + 1
         /\ msgUpdate < QueueSize
         /\ msg' \in [Slots -> Clients \cup {NoClient}]
         /\ comFd \in Clients
         /\ Pending' = Append(Pending, comFd)
  <1>1. First' = 0 /\ First = 0
    BY DEF Store, First
  <1>2. msgUpdate \in Nat /\ msgUpdate < QueueSize /\ msgUpdate \in Slots
    BY SMT, Z3 DEF Inv, TypeOK, StoreInBounds, Store, Slots
  <1>3. comFd \in Clients
    BY Zenon DEF Inv, TypeOK, ConnectionInOnePlace, Store
  <1>4. msg \in [Slots -> Clients \cup {NoClient}] /\ msg' = [msg EXCEPT ![msgUpdate] = comFd]
    BY Zenon DEF Inv, TypeOK, Store, StoreIndex
  <1>5. msg' \in [Slots -> Clients \cup {NoClient}]
    BY <1>2, <1>3, <1>4
  <1>6. /\ Pending \in Seq(Clients \cup {NoClient}) /\ Len(Pending) = msgUpdate
        /\ \A i \in 1 .. msgUpdate : Pending[i] = msg[i - 1]
        /\ \A i \in 1 .. msgUpdate : i - 1 \in Slots /\ i - 1 # msgUpdate
    BY <1>1, <1>2, PendingSlots DEF Inv
  <1>7. Pending' = [i \in 1 .. msgUpdate + 1 |-> msg'[i - 1]]
    BY <1>1, <1>2 DEF Pending, Store
  <1>8. \A i \in 1 .. msgUpdate + 1 : msg'[i - 1] = Append(Pending, comFd)[i]
    <2> SUFFICES ASSUME NEW i \in 1 .. msgUpdate + 1
                 PROVE  msg'[i - 1] = Append(Pending, comFd)[i]
      BY Zenon
    <2>1. CASE i = msgUpdate + 1
      BY <2>1, <1>2, <1>3, <1>4, <1>6
    <2>2. CASE i \in 1 .. msgUpdate
      BY <2>2, <1>2, <1>3, <1>4, <1>6
    <2>3. i = msgUpdate + 1 \/ i \in 1 .. msgUpdate
      BY <1>2
    <2> QED
      BY Zenon, <2>1, <2>2, <2>3
  <1>9. Append(Pending, comFd) = [i \in 1 .. msgUpdate + 1 |-> Append(Pending, comFd)[i]]
    <2>1. /\ Append(Pending, comFd) \in Seq(Clients \cup {NoClient})
          /\ Len(Append(Pending, comFd)) = msgUpdate + 1
      BY <1>3, <1>6, SeqAppended
    <2>2. Append(Pending, comFd) \in [1 .. msgUpdate + 1 -> Clients \cup {NoClient}]
      BY Zenon, <2>1, SeqIsFunction
    <2> QED
      BY Zenon, <2>2
  <1> QED
    BY Zenon, <1>1, <1>2, <1>3, <1>5, <1>7, <1>8, <1>9 DEF Store

\* main_loop removes the oldest message.
LEMMA PendingHandled ==
  ASSUME Inv, Handle
  PROVE  /\ First' = First + 1
         /\ msgUpdate \in Nat \ {0} /\ msgUpdate' = msgUpdate - 1
         /\ count' \in 0 .. QueueSize
         /\ msg[count] = Pending[1]
         /\ Pending # <<>>
         /\ Pending' = Tail(Pending)
  <1>1. First = count /\ First' = count + 1 /\ count \in Nat
    BY SMT, Z3 DEF Inv, TypeOK, Handle, First
  <1>2. msgUpdate \in Nat \ {0} /\ msgUpdate' = msgUpdate - 1 /\ msg' = msg
    BY SMT, Z3 DEF Inv, TypeOK, Handle
  <1>3. count' \in 0 .. QueueSize
    BY <1>1, <1>2 DEF Inv, StoreInBounds, Handle
  <1>4. /\ Pending \in Seq(Clients \cup {NoClient}) /\ Len(Pending) = msgUpdate
        /\ \A i \in 1 .. msgUpdate : Pending[i] = msg[count + i - 1]
    BY Zenon, <1>1, PendingSlots DEF Inv
  <1>5. msg[count] = Pending[1]
    BY <1>1, <1>2, <1>4
  <1>6. Pending' = [i \in 1 .. msgUpdate - 1 |-> msg[(count + 1) + i - 1]]
    BY <1>1, <1>2 DEF Pending
  <1>7. Tail(Pending) = [i \in 1 .. msgUpdate - 1 |-> Pending[i + 1]]
    <2>1. Pending # <<>>
      BY <1>2, <1>4
    <2>2. /\ Tail(Pending) \in Seq(Clients \cup {NoClient})
          /\ Len(Tail(Pending)) = msgUpdate - 1
          /\ \A i \in 1 .. msgUpdate - 1 : Tail(Pending)[i] = Pending[i + 1]
      BY <2>1, <1>4, SeqWithoutHead
    <2>3. Tail(Pending) \in [1 .. msgUpdate - 1 -> Clients \cup {NoClient}]
      BY Zenon, <2>2, SeqIsFunction
    <2> QED
      BY Zenon, <2>2, <2>3
  <1>8. \A i \in 1 .. msgUpdate - 1 : msg[(count + 1) + i - 1] = Pending[i + 1]
    BY <1>1, <1>2, <1>4
  <1>9. Pending # <<>>
    BY <1>2, <1>4
  <1> QED
    BY Zenon, <1>1, <1>2, <1>3, <1>5, <1>6, <1>7, <1>8, <1>9

-----------------------------------------------------------------------------
(* The steps preserve the invariant.                                       *)

LEMMA ConnectInv ==
  ASSUME Inv, NEW c \in Clients, Connect(c)
  PROVE  Inv'
  <1>1. First' = First /\ Pending' = Pending
    BY Zenon, PendingKept DEF Connect
  <1>2. /\ backlog' \in Seq(Clients)
        /\ DOMAIN backlog = 1 .. Len(backlog) /\ Len(backlog) \in Nat
        /\ DOMAIN backlog' = 1 .. Len(backlog) + 1
        /\ \A j \in DOMAIN backlog : backlog'[j] = backlog[j] /\ backlog[j] \in Clients
        /\ backlog'[Len(backlog) + 1] = c
    BY SMT, Z3 DEF Inv, TypeOK, Connect
  <1>3. /\ client \in [Clients -> ClientStates]
        /\ client' = [client EXCEPT ![c] = "connected"]
        /\ client[c] = "idle"
    BY Zenon DEF Inv, TypeOK, Connect
  <1>4. TypeOK'
    BY SMT, Z3, <1>2, <1>3 DEF Inv, TypeOK, Connect, ClientStates
  <1>5. StoreInBounds'
    BY Zenon, <1>1 DEF Inv, StoreInBounds, Connect
  <1>6. /\ \A i \in DOMAIN Pending : Pending[i] # c
        /\ \A j \in DOMAIN backlog : backlog[j] # c
        /\ comFd # c
    BY Zenon, <1>3 DEF Inv, TypeOK, ConnectionInOnePlace, ListenStates
  <1>7. ConnectionInOnePlace'
    BY SMT, Z3, <1>1, <1>2, <1>3, <1>6 DEF Inv, TypeOK, ConnectionInOnePlace, Connect
  <1> QED
    BY <1>4, <1>5, <1>7 DEF Inv

\* A client that has connected changes its state and nothing else.
LEMMA ClientInv ==
  ASSUME Inv, NEW c \in Clients, Send(c) \/ Die(c)
  PROVE  Inv'
  <1>1. First' = First /\ Pending' = Pending
    BY Zenon, PendingKept DEF Send, Die
  <1>2. PICK st \in {"sent", "closed"} : client' = [client EXCEPT ![c] = st]
    BY Zenon DEF Send, Die
  <1>3. client \in [Clients -> ClientStates] /\ client[c] = "connected"
    BY Zenon DEF Inv, TypeOK, Send, Die
  <1>4. UNCHANGED <<backlog, lpc, comFd, mpc, count, msg, msgUpdate>>
    BY Zenon DEF Send, Die
  <1>5. TypeOK'
    BY Zenon, <1>2, <1>3, <1>4 DEF Inv, TypeOK, ClientStates
  <1>6. StoreInBounds'
    BY Zenon, <1>1, <1>4 DEF Inv, StoreInBounds
  <1>7. \A d \in Clients : /\ client[d] = "sent" => client'[d] = "sent"
                           /\ client[d] # "idle" => client'[d] # "idle"
    BY SMTT(30), <1>2, <1>3
  <1>8. ConnectionInOnePlace'
    <2>1. \A j \in DOMAIN backlog : backlog[j] \in Clients
      BY DEF Inv, TypeOK
    <2>2. lpc \in {"read", "store"} => comFd \in Clients
      BY Zenon DEF Inv, TypeOK, ConnectionInOnePlace
    <2> QED
      BY SMT, Z3, <1>1, <1>4, <1>7, <2>1, <2>2 DEF Inv, ConnectionInOnePlace
  <1> QED
    BY <1>5, <1>6, <1>8 DEF Inv

LEMMA ListenerInv ==
  ASSUME Inv, Test \/ Accept \/ AcceptFails \/ Read \/ ReadNothing
  PROVE  Inv'
  <1>1. First' = First /\ Pending' = Pending
    BY Zenon, PendingKept DEF Test, Accept, AcceptFails, Read, ReadNothing
  <1>2. UNCHANGED <<mpc, count, msg, msgUpdate>>
    BY Zenon DEF Test, Accept, AcceptFails, Read, ReadNothing
  <1>3. msgUpdate \in Nat /\ QueueSize \in Nat
    BY DEF Inv, TypeOK
  <1>4. StoreInBounds'
    BY SMT, Z3, <1>1, <1>2, <1>3
    DEF Inv, StoreInBounds, Test, Full, Accept, AcceptFails, Read, ReadNothing
  <1>5. CASE Test \/ AcceptFails \/ Read
    <2>1. TypeOK'
      BY Zenon, <1>2, <1>5 DEF Inv, TypeOK, ListenStates, Test, AcceptFails, Read
    <2>2. ConnectionInOnePlace'
      <3>1. UNCHANGED <<client, backlog, comFd>>
        BY Zenon, <1>5 DEF Test, AcceptFails, Read
      <3>2. /\ lpc \in {"read", "store"} <=> lpc' \in {"read", "store"}
            /\ lpc' # "read" /\ (lpc' = "store" => client[comFd] = "sent")
        BY Zenon, <1>5 DEF Test, AcceptFails, Read
      <3>3. ConnectionInOnePlace
        BY DEF Inv
      <3> QED
        BY Zenon, <1>1, <3>1, <3>2, <3>3 DEF ConnectionInOnePlace
    <2> QED
      BY <1>4, <2>1, <2>2 DEF Inv
  <1>6. CASE Accept
    <2>1. /\ backlog \in Seq(Clients) /\ backlog # <<>>
          /\ Len(backlog) \in Nat \ {0} /\ DOMAIN backlog = 1 .. Len(backlog)
      BY SMT, Z3, <1>6, SeqIsFunction DEF Inv, TypeOK, Accept
    <2>2. /\ backlog' \in Seq(Clients)
          /\ Len(backlog') = Len(backlog) - 1
          /\ \A j \in 1 .. Len(backlog') : backlog'[j] = backlog[j + 1]
      BY Zenon, <1>6, <2>1, SeqWithoutHead DEF Accept
    <2>3. DOMAIN backlog' = 1 .. Len(backlog) - 1
      BY SMTT(30), <2>2, SeqIsFunction
    <2>4. comFd' = backlog[1] /\ comFd' \in Clients /\ comFd = NoClient
      BY SMT, Z3, <1>6, <2>1 DEF Inv, ConnectionInOnePlace, Accept
    <2>5. TypeOK'
      BY Zenon, <1>2, <1>6, <2>2, <2>4 DEF Inv, TypeOK, ListenStates, Accept
    <2>6. \A j \in DOMAIN backlog' : j + 1 \in DOMAIN backlog /\ 1 \in DOMAIN backlog
                                     /\ j + 1 # 1 /\ backlog'[j] = backlog[j + 1]
      BY <2>1, <2>2, <2>3
    <2>7. \A i, j \in DOMAIN backlog' : backlog'[i] = backlog'[j] => i = j
      <3> SUFFICES ASSUME NEW i \in DOMAIN backlog', NEW j \in DOMAIN backlog',
                          backlog'[i] = backlog'[j]
                   PROVE  i = j
        OBVIOUS
      <3>1. i + 1 = j + 1
        BY SMTT(30), Z3T(30), <2>6 DEF Inv, ConnectionInOnePlace
      <3> QED
        BY <3>1, <2>1, <2>3
    <2>8. ConnectionInOnePlace'
      <3>1. 1 \in DOMAIN backlog
        BY SMTT(30), <2>1
      <3> QED
        BY SMT, Z3, <1>1, <1>6, <2>4, <2>6, <2>7, <3>1 DEF Inv, ConnectionInOnePlace, Accept
    <2> QED
      BY <1>4, <2>5, <2>8 DEF Inv
  <1>7. CASE ReadNothing
    <2>1. /\ comFd \in Clients /\ client \in [Clients -> ClientStates]
          /\ client' = [client EXCEPT ![comFd] = "idle"] /\ comFd' = NoClient
      BY Zenon, <1>7 DEF Inv, TypeOK, ConnectionInOnePlace, ReadNothing
    <2>2. TypeOK'
      BY Zenon, <1>2, <1>7, <2>1 DEF Inv, TypeOK, ListenStates, ClientStates, ReadNothing
    <2>3. \A d \in Clients : d # comFd => client'[d] = client[d]
      BY <2>1
    <2>4. \A j \in DOMAIN backlog : backlog[j] \in Clients
      BY SMTT(30) DEF Inv, TypeOK
    <2>5. ConnectionInOnePlace'
      BY SMT, Z3, <1>1, <1>7, <2>1, <2>3, <2>4 DEF Inv, ConnectionInOnePlace, ReadNothing
    <2> QED
      BY <1>4, <2>2, <2>5 DEF Inv
  <1> QED
    BY <1>5, <1>6, <1>7

LEMMA StoreInv ==
  ASSUME Inv, Store
  PROVE  Inv'
  <1>1. /\ msgUpdate \in Nat /\ DOMAIN Pending = 1 .. msgUpdate
        /\ Pending \in Seq(Clients \cup {NoClient}) /\ Len(Pending) = msgUpdate
    BY SMTT(30), PendingSlots DEF Inv
  <1>2. /\ Pending' \in Seq(Clients \cup {NoClient})
        /\ Len(Pending') = msgUpdate + 1
        /\ \A i \in 1 .. msgUpdate : Pending'[i] = Pending[i]
        /\ Pending'[msgUpdate + 1] = comFd
    BY SMT, Z3, <1>1, PendingStored, SeqAppended
  <1>3. DOMAIN Pending' = 1 .. msgUpdate + 1
    BY <1>2, SeqIsFunction
  <1>4. TypeOK'
    BY SMT, Z3, <1>1, PendingStored DEF Inv, TypeOK, ListenStates, Store
  <1>5. StoreInBounds'
    BY SMTT(30), Z3T(30), <1>1, PendingStored DEF StoreInBounds, Store
  <1>6. /\ comFd \in Clients /\ client[comFd] = "sent" /\ comFd' = NoClient
        /\ UNCHANGED <<client, backlog>>
        /\ \A j \in DOMAIN backlog : backlog[j] # NoClient
    <2>1. comFd \in Clients /\ comFd # NoClient /\ NoClient \notin Clients
      BY Zenon, PendingStored, CmdServerAssumption
    <2>2. client[comFd] = "sent" /\ comFd' = NoClient /\ UNCHANGED <<client, backlog>>
      BY Zenon DEF Inv, ConnectionInOnePlace, Store
    <2>3. \A j \in DOMAIN backlog : backlog[j] \in Clients
      BY DEF Inv, TypeOK
    <2> QED
      BY Zenon, <2>1, <2>2, <2>3
  <1>7. \A i \in DOMAIN Pending' :
           \/ i \in DOMAIN Pending /\ Pending'[i] = Pending[i]
           \/ i = msgUpdate + 1 /\ Pending'[i] = comFd
    BY SMTT(30), <1>1, <1>2, <1>3
  <1>8. ConnectionInOnePlace'
    BY SMT, Z3, <1>6, <1>7 DEF Inv, ConnectionInOnePlace, Store
  <1> QED
    BY <1>4, <1>5, <1>8 DEF Inv

LEMMA MainInv ==
  ASSUME Inv, Main
  PROVE  Inv'
  <1>1. CASE TryLock \/ Unlock
    <2>1. TypeOK'
      BY SMT, Z3, <1>1 DEF Inv, TypeOK, TryLock, Unlock
    <2>2. StoreInBounds'
      BY Zenon, <1>1, PendingBetween DEF Inv, StoreInBounds, TryLock, Unlock
    <2>3. ConnectionInOnePlace'
      <3>1. UNCHANGED <<client, backlog, lpc, comFd>> /\ Pending' = Pending
        BY Zenon, <1>1, PendingBetween DEF TryLock, Unlock
      <3>2. ConnectionInOnePlace
        BY DEF Inv
      <3> QED
        BY Zenon, <3>1, <3>2 DEF ConnectionInOnePlace
    <2> QED
      BY <2>1, <2>2, <2>3 DEF Inv
  <1>2. CASE Handle
    <2>1. /\ msgUpdate \in Nat \ {0} /\ First \in Nat
          /\ DOMAIN Pending = 1 .. msgUpdate
          /\ Pending \in Seq(Clients \cup {NoClient}) /\ Len(Pending) = msgUpdate
          /\ Pending # <<>>
      BY Zenon, <1>2, PendingSlots, PendingHandled DEF Inv
    <2>2. /\ Pending' \in Seq(Clients \cup {NoClient})
          /\ Len(Pending') = msgUpdate - 1
          /\ \A i \in 1 .. msgUpdate - 1 : Pending'[i] = Pending[i + 1]
      <3>1. Pending' = Tail(Pending)
        BY Zenon, <1>2, PendingHandled
      <3>2. /\ Tail(Pending) \in Seq(Clients \cup {NoClient}) /\ Len(Tail(Pending)) = Len(Pending) - 1
            /\ \A i \in 1 .. Len(Tail(Pending)) : Tail(Pending)[i] = Pending[i + 1]
        BY Zenon, <2>1, SeqWithoutHead
      <3> QED
        BY Zenon, <2>1, <3>1, <3>2
    <2>3. DOMAIN Pending' = 1 .. msgUpdate - 1
      BY <2>2, SeqIsFunction
    <2>4. \A i \in DOMAIN Pending' : /\ i + 1 \in DOMAIN Pending /\ i + 1 # 1
                                     /\ Pending'[i] = Pending[i + 1]
      BY <2>1, <2>2, <2>3
    <2>5. 1 \in DOMAIN Pending
      BY <2>1
    <2>6. /\ Pending[1] \in Clients /\ client \in [Clients -> ClientStates]
          /\ client' = [client EXCEPT ![Pending[1]] = "idle"]
      BY Zenon, <1>2, <2>5, PendingHandled DEF Inv, TypeOK, ConnectionInOnePlace, Handle
    <2>7. TypeOK'
      BY SMT, Z3, <1>2, <2>1, <2>6, PendingHandled DEF Inv, TypeOK, ClientStates, Handle
    <2>8. StoreInBounds'
      BY SMT, Z3, <1>2, <2>1, PendingHandled DEF Inv, StoreInBounds, Handle
    <2>9. \A d \in Clients : d # Pending[1] => client'[d] = client[d]
      BY <2>6
    <2>10. \A i, j \in DOMAIN Pending' : Pending'[i] = Pending'[j] => i = j
      <3> SUFFICES ASSUME NEW i \in DOMAIN Pending', NEW j \in DOMAIN Pending',
                          Pending'[i] = Pending'[j]
                   PROVE  i = j
        BY SMTT(30)
      <3>1. i + 1 = j + 1
        BY SMTT(30), Z3T(30), <2>4 DEF Inv, ConnectionInOnePlace
      <3> QED
        BY <3>1, <2>1, <2>3
    <2>11. ConnectionInOnePlace'
      <3>1. /\ \A j \in DOMAIN backlog : backlog[j] \in Clients
            /\ lpc \in {"read", "store"} => comFd \in Clients
        BY SMT, Z3 DEF Inv, TypeOK, ConnectionInOnePlace
      <3>2. \A i \in DOMAIN Pending' : Pending'[i] \in Clients /\ client'[Pending'[i]] = "sent"
        <4> SUFFICES ASSUME NEW i \in DOMAIN Pending'
                     PROVE  Pending'[i] \in Clients /\ client'[Pending'[i]] = "sent"
          OBVIOUS
        <4>1. Pending'[i] = Pending[i + 1] /\ i + 1 \in DOMAIN Pending /\ i + 1 # 1
          BY <2>4
        <4>2. /\ Pending[i + 1] \in Clients /\ client[Pending[i + 1]] = "sent"
              /\ Pending[i + 1] # Pending[1]
          BY Zenon, <2>5, <4>1 DEF Inv, ConnectionInOnePlace
        <4> QED
          BY Zenon, <2>9, <4>1, <4>2
      <3> QED
        BY SMTT(30), Z3T(30), <1>2, <2>4, <2>5, <2>9, <2>10, <3>1, <3>2 DEF Inv, ConnectionInOnePlace, Handle
    <2> QED
      BY <2>7, <2>8, <2>11 DEF Inv
  <1> QED
    BY <1>1, <1>2 DEF Main

LEMMA InvStep == Inv /\ [Next]_vars => Inv'
  <1> SUFFICES ASSUME Inv, [Next]_vars PROVE Inv'
    OBVIOUS
  <1>1. CASE Listener
    BY <1>1, ListenerInv, StoreInv DEF Listener
  <1>2. CASE Main
    BY <1>2, MainInv
  <1>3. CASE \E c \in Clients : Connect(c) \/ Send(c) \/ Die(c)
    BY <1>3, ConnectInv, ClientInv
  <1>4. CASE UNCHANGED vars
    <2>1. UNCHANGED <<client, backlog, lpc, comFd, mpc, count, msg, msgUpdate>>
      BY Zenon, <1>4 DEF vars
    <2>2. First' = First /\ Pending' = Pending
      BY Zenon, <2>1 DEF First, Pending
    <2>3. TypeOK'
      BY Zenon, <2>1 DEF Inv, TypeOK
    <2>4. StoreInBounds' /\ ConnectionInOnePlace'
      BY Zenon, <2>1, <2>2 DEF Inv, StoreInBounds, ConnectionInOnePlace
    <2> QED
      BY <2>3, <2>4 DEF Inv
  <1> QED
    BY <1>1, <1>2, <1>3, <1>4 DEF Next

LEMMA AlwaysInv == Spec => []Inv
  BY InitInv, InvStep, PTL DEF Spec

\* listen_loop never stores outside msg[], and main_loop never reads outside it,
\* whatever the size of the array and the number of clients.
THEOREM NeverOverrun == Spec => []StoreInBounds
  <1>1. Inv => StoreInBounds
    BY DEF Inv
  <1> QED
    BY <1>1, AlwaysInv, PTL

\* No connection of a client is lost in two places: it is unread, with
\* listen_loop, or stored once.
THEOREM OnePlace == Spec => []ConnectionInOnePlace
  <1>1. Inv => ConnectionInOnePlace
    BY DEF Inv
  <1> QED
    BY <1>1, AlwaysInv, PTL

-----------------------------------------------------------------------------
(* The command server implements the bounded queue.                        *)

LEMMA ServiceInit == Init => Service!Init
  <1> SUFFICES ASSUME Init PROVE Asked = {} /\ Pending = <<>>
    BY DEF Service!Init
  <1>1. Asked = {}
    BY DEF Init, Asked
  <1>2. Pending = <<>>
    BY DEF Init, Pending
  <1> QED
    BY <1>1, <1>2

LEMMA ServiceStep ==
  ASSUME Inv, [Next]_vars
  PROVE  [Service!Next]_(Service!vars)
  <1> DEFINE Stutter == Asked' = Asked /\ Pending' = Pending
  <1>s. Stutter => [Service!Next]_(Service!vars)
    BY DEF Service!vars
  <1> HIDE DEF Stutter
  <1>1. CASE \E c \in Clients : Connect(c) \/ Die(c)
    <2>1. PICK c \in Clients : Connect(c) \/ Die(c)
      BY <1>1
    <2>2. Pending' = Pending
      BY Zenon, <2>1, PendingKept DEF Connect, Die
    <2>3. Asked' = Asked
      BY Zenon, <2>1 DEF Inv, TypeOK, Asked, Connect, Die
    <2> QED
      BY <2>2, <2>3, <1>s DEF Stutter
  <1>2. CASE \E c \in Clients : Send(c)
    <2>1. PICK c \in Clients : Send(c)
      BY <1>2
    <2>2. Pending' = Pending
      BY Zenon, <2>1, PendingKept DEF Send
    <2>3. c \notin Asked /\ Asked' = Asked \cup {c}
      BY Zenon, <2>1 DEF Inv, TypeOK, Asked, Send
    <2> QED
      BY <2>2, <2>3 DEF Service!Next, Service!Ask
  <1>3. CASE Test \/ Accept \/ AcceptFails \/ Read \/ ReadNothing
    <2>1. Pending' = Pending
      BY Zenon, <1>3, PendingKept DEF Test, Accept, AcceptFails, Read, ReadNothing
    <2>2. Asked' = Asked
      <3>1. CASE ReadNothing
        BY Zenon, <3>1 DEF Inv, TypeOK, ConnectionInOnePlace, Asked, ReadNothing
      <3>2. CASE client' = client
        BY <3>2 DEF Asked
      <3> QED
        BY Zenon, <1>3, <3>1, <3>2 DEF Test, Accept, AcceptFails, Read
    <2> QED
      BY SMTT(30), <2>1, <2>2, <1>s DEF Stutter
  <1>4. CASE Store
    <2>1. comFd \in Asked /\ Asked' = Asked
      BY Zenon, <1>4, PendingStored DEF Inv, ConnectionInOnePlace, Asked, Store
    <2>2. \A i \in DOMAIN Pending : Pending[i] # comFd
      BY Zenon DEF Inv, ConnectionInOnePlace
    <2>3. Len(Pending) < QueueSize /\ Pending' = Append(Pending, comFd)
      BY Zenon, <1>4, PendingSlots, PendingStored DEF Inv
    <2>4. Service!Take(comFd)
      BY <2>1, <2>2, <2>3 DEF Service!Take
    <2> QED
      BY Zenon, <1>4, <2>4, PendingStored DEF Service!Next
  <1>5. CASE TryLock \/ Unlock
    <2>1. Asked' = Asked
      BY Zenon, <1>5 DEF Asked, TryLock, Unlock
    <2> QED
      BY <1>5, <2>1, PendingBetween, <1>s DEF Stutter
  <1>6. CASE Handle
    <2>1. 1 \in DOMAIN Pending /\ Head(Pending) = Pending[1]
      BY SMT, Z3, <1>6, PendingSlots, PendingHandled DEF Inv
    <2>2. Asked' = Asked \ {Head(Pending)}
      BY Zenon, <1>6, <2>1, PendingHandled
      DEF Inv, TypeOK, ConnectionInOnePlace, Asked, Handle
    <2>3. Service!Answer
      BY Zenon, <1>6, <2>2, PendingHandled DEF Service!Answer
    <2> QED
      BY <2>3 DEF Service!Next
  <1>7. CASE UNCHANGED vars
    BY Zenon, <1>7, <1>s, PendingKept DEF vars, Asked, Stutter
  <1> QED
    BY Zenon, <1>1, <1>2, <1>3, <1>4, <1>5, <1>6, <1>7 DEF Next, Listener, Main

\* What passes through msg[], msg_update and count is a bounded queue: messages
\* are handled in the order in which listen_loop read them, each once.
THEOREM QueueImplemented == Spec => ImplementsService
  <1>1. Inv /\ [Next]_vars => [Service!Next]_(Service!vars)
    BY ServiceStep
  <1> QED
    BY <1>1, ServiceInit, AlwaysInv, PTL DEF Spec, ImplementsService, Service!Spec

HIDE CmdServerAssumption

-----------------------------------------------------------------------------
(* The timer.                                                              *)

\* running is the callback of a thread inside it, and of no other.
RunningIsRun ==
    /\ thread = "run" => running \in Callbacks /\ status[running] = "running"
    /\ thread # "run" => running = NoCallback

\* Once shutdown() has set the flag the maps stay empty.
StoppedIsEmpty == stopping => schedule = {}

\* The thread never looks at a clock that is ahead.
NowIsPast == now <= clock

TimerInv == Timer!TypeOK /\ Timer!MapsAgree /\ RunningIsRun /\ StoppedIsEmpty /\ NowIsPast

LEMMA TimerInit == Timer!TimerAssumption /\ Timer!Init => TimerInv
  <1> SUFFICES ASSUME Timer!TimerAssumption, Timer!Init PROVE TimerInv
    OBVIOUS
  <1> USE DEF Timer!TimerAssumption, Timer!Init
  <1>1. Timer!TypeOK
    <2>1. safe \in BOOLEAN
      BY Zenon
    <2>2. clock \in 0 .. MaxTime /\ now \in 0 .. MaxTime /\ deadline \in 0 .. Timer!Never
      BY DEF Timer!Never
    <2> QED
      BY Zenon, <2>1, <2>2 DEF Timer!TypeOK
  <1>2. Timer!MapsAgree
    BY Zenon DEF Timer!MapsAgree
  <1> QED
    BY <1>1, <1>2 DEF TimerInv, RunningIsRun, StoppedIsEmpty, NowIsPast

LEMMA EventTypes ==
    ASSUME Timer!TypeOK, NEW e \in schedule
    PROVE  e[1] \in Nat /\ e[2] \in Callbacks /\ e = <<e[1], e[2]>>
  BY DEF Timer!TypeOK

LEMMA AddStep ==
    ASSUME Timer!TimerAssumption, TimerInv, NEW c \in Callbacks, NEW at \in 0 .. MaxTime, Timer!AddEvent(c, at)
    PROVE  TimerInv'
  <1> USE DEF TimerInv
  <1>1. status[c] = "new" /\ ~stopping
    BY Zenon DEF Timer!AddEvent, Timer!AddEventAt, Timer!MayCall
  <1>2. /\ schedule' = schedule \cup {<<at, c>>}
        /\ events' = events \cup {c}
        /\ status' = [status EXCEPT ![c] = "scheduled"]
        /\ UNCHANGED <<safe, clock, stopping, thread, now, deadline, running, timerClient>>
    BY Zenon DEF Timer!AddEvent, Timer!AddEventAt, Timer!MayCall
  <1>3. Timer!TypeOK'
    <2>1. signalled' \in BOOLEAN
      BY Zenon DEF Timer!AddEvent, Timer!AddEventAt, Timer!TypeOK
    <2> QED
      BY SMT, Z3, <1>2, <2>1 DEF Timer!TypeOK, Timer!Never
  <1>4. Timer!MapsAgree'
    <2>1. \A e \in schedule : e[2] # c
      BY SMTT(30), <1>1 DEF Timer!MapsAgree
    <2>2. events' = {e[2] : e \in schedule'}
      <3>1. <<at, c>>[2] = c
        OBVIOUS
      <3>2. \A d : d \in events' <=> \E e \in schedule' : d = e[2]
        <4>1. \A d : d \in events <=> \E e \in schedule : d = e[2]
          BY Zenon DEF Timer!MapsAgree
        <4> QED
          BY <1>2, <3>1, <4>1, Zenon
      <3> QED
        BY <3>2
    <2>3. events' = {d \in Callbacks : status'[d] = "scheduled"}
      BY SMTT(30), Z3T(30), <1>2 DEF Timer!MapsAgree, Timer!TypeOK
    <2>4. \A e, f \in schedule' : e[2] = f[2] => e = f
      BY SMT, Z3, <1>2, <2>1 DEF Timer!MapsAgree
    <2> QED
      BY Zenon, <2>2, <2>3, <2>4 DEF Timer!MapsAgree
  <1>5. RunningIsRun'
    BY Zenon, <1>1, <1>2 DEF RunningIsRun, Timer!TypeOK
  <1> QED
    BY Zenon, <1>1, <1>2, <1>3, <1>4, <1>5 DEF StoppedIsEmpty, NowIsPast

LEMMA CancelStep ==
    ASSUME Timer!TimerAssumption, TimerInv, NEW c \in Callbacks, Timer!CancelEvent(c)
    PROVE  TimerInv'
  <1> USE DEF TimerInv, Timer!CancelEvent
  <1>1. status[c] = "scheduled"
    BY Zenon DEF Timer!MapsAgree
  <1>2. Timer!TypeOK'
    BY Zenon DEF Timer!TypeOK, Timer!Never
  <1>3. Timer!MapsAgree'
    <2>1. events' = {e[2] : e \in schedule'}
      BY SMT, Z3 DEF Timer!MapsAgree
    <2>2. events' = {d \in Callbacks : status'[d] = "scheduled"}
      BY Zenon DEF Timer!MapsAgree, Timer!TypeOK
    <2>3. \A e, f \in schedule' : e[2] = f[2] => e = f
      BY Zenon DEF Timer!MapsAgree
    <2> QED
      BY Zenon, <2>1, <2>2, <2>3 DEF Timer!MapsAgree
  <1>4. RunningIsRun'
    BY Zenon, <1>1 DEF RunningIsRun, Timer!TypeOK
  <1> QED
    BY Zenon, <1>2, <1>3, <1>4 DEF StoppedIsEmpty, NowIsPast

LEMMA CancelAllStep ==
    ASSUME Timer!TimerAssumption, TimerInv, Timer!CancelAllEvents
    PROVE  TimerInv'
  <1> USE DEF TimerInv, Timer!CancelAllEvents, Timer!CancelAll
  <1>1. schedule' = {}
    BY Zenon DEF Timer!MapsAgree
  <1>2. Timer!TypeOK'
    BY Zenon, <1>1 DEF Timer!TypeOK, Timer!Never
  <1>3. Timer!MapsAgree'
    BY SMT, Z3, <1>1 DEF Timer!MapsAgree, Timer!TypeOK
  <1>4. RunningIsRun'
    <2>1. running \notin events \/ thread # "run"
      BY Zenon DEF RunningIsRun, Timer!MapsAgree
    <2> QED
      BY Zenon, <2>1 DEF RunningIsRun, Timer!TypeOK
  <1> QED
    BY Zenon, <1>1, <1>2, <1>3, <1>4 DEF StoppedIsEmpty, NowIsPast

LEMMA ShutdownStep ==
    ASSUME Timer!TimerAssumption, TimerInv, Timer!Shutdown
    PROVE  TimerInv'
  <1> USE DEF TimerInv, Timer!Shutdown, Timer!CancelAll
  <1>1. schedule' = {}
    BY Zenon DEF Timer!MapsAgree
  <1>2. Timer!TypeOK'
    BY Zenon, <1>1 DEF Timer!TypeOK, Timer!Never
  <1>3. Timer!MapsAgree'
    BY SMTT(30), Z3T(30), <1>1 DEF Timer!MapsAgree, Timer!TypeOK
  <1>4. RunningIsRun'
    <2>1. running \notin events \/ thread # "run"
      BY Zenon DEF RunningIsRun, Timer!MapsAgree
    <2> QED
      BY Zenon, <2>1 DEF RunningIsRun
  <1> QED
    BY Zenon, <1>1, <1>2, <1>3, <1>4 DEF StoppedIsEmpty, NowIsPast

LEMMA RunStep ==
    ASSUME Timer!TimerAssumption, TimerInv, NEW e \in schedule, Timer!RunFirst(e)
    PROVE  TimerInv'
  <1> USE DEF TimerInv, Timer!RunFirst
  <1>1. e[2] \in Callbacks /\ status[e[2]] = "scheduled"
    BY Zenon, EventTypes DEF Timer!MapsAgree
  <1>2. Timer!TypeOK'
    BY Zenon, <1>1 DEF Timer!TypeOK, Timer!Never
  <1>3. Timer!MapsAgree'
    <2>1. events' = {f[2] : f \in schedule'}
      BY SMTT(60), Z3T(60) DEF Timer!MapsAgree
    <2>2. events' = {d \in Callbacks : status'[d] = "scheduled"}
      BY Zenon, <1>1 DEF Timer!MapsAgree, Timer!TypeOK
    <2>3. \A f, g \in schedule' : f[2] = g[2] => f = g
      BY Zenon DEF Timer!MapsAgree
    <2> QED
      BY Zenon, <2>1, <2>2, <2>3 DEF Timer!MapsAgree
  <1>4. RunningIsRun'
    BY Zenon, <1>1 DEF RunningIsRun, Timer!TypeOK
  <1> QED
    BY Zenon, <1>2, <1>3, <1>4 DEF StoppedIsEmpty, NowIsPast

LEMMA ReturnStep ==
    ASSUME Timer!TimerAssumption, TimerInv, Timer!Return
    PROVE  TimerInv'
  <1> USE DEF TimerInv, Timer!Return
  <1>1. running \in Callbacks /\ status[running] = "running"
    BY Zenon DEF RunningIsRun
  <1>2. Timer!TypeOK'
    BY Zenon, <1>1 DEF Timer!TypeOK, Timer!Never
  <1>3. Timer!MapsAgree'
    BY Zenon, <1>1 DEF Timer!MapsAgree, Timer!TypeOK
  <1> QED
    BY Zenon, <1>2, <1>3 DEF RunningIsRun, StoppedIsEmpty, NowIsPast

LEMMA SleepStep ==
    ASSUME Timer!TimerAssumption, TimerInv, Timer!Sleep
    PROVE  TimerInv'
  <1> USE DEF TimerInv, Timer!Sleep, Timer!GoToSleep
  <1>1. UNCHANGED <<safe, clock, schedule, events, stopping, now, running, timerClient, status>>
    BY Zenon
  <1>2. thread' \in {"sleep", "exited"} /\ signalled' \in BOOLEAN
    BY Zenon DEF Timer!TypeOK
  <1>3. deadline' \in 0 .. Timer!Never
    <2>1. CASE schedule = {}
      BY SMTT(30), Z3T(30), <2>1 DEF Timer!TypeOK, Timer!Never, Timer!TimerAssumption
    <2>2. CASE schedule # {}
      BY SMT, Z3, <2>2, EventTypes DEF Timer!TypeOK, Timer!First, Timer!Never, Timer!TimerAssumption
    <2> QED
      BY Zenon, <2>1, <2>2
  <1> QED
    BY SMTT(60), Z3T(60), <1>1, <1>2, <1>3 DEF Timer!TypeOK, Timer!MapsAgree, RunningIsRun, StoppedIsEmpty, NowIsPast

LEMMA TimerStep == Timer!TimerAssumption /\ TimerInv /\ [Timer!Next]_(Timer!vars) => TimerInv'
  <1> SUFFICES ASSUME Timer!TimerAssumption, TimerInv, [Timer!Next]_(Timer!vars)
               PROVE  TimerInv'
    BY SMTT(30)
  <1> USE DEF TimerInv, Timer!TypeOK, Timer!MapsAgree, RunningIsRun, StoppedIsEmpty, NowIsPast, Timer!Never
  <1>1. CASE Timer!StartTimer
    BY Zenon, <1>1 DEF Timer!StartTimer
  <1>2. CASE Timer!Join
    BY Zenon, <1>2 DEF Timer!Join
  <1>3. CASE Timer!GetLock
    BY SMTT(30), Z3T(30), <1>3 DEF Timer!GetLock, Timer!TimerAssumption
  <1>4. CASE Timer!Loop
    BY SMTT(30), Z3T(30), <1>4 DEF Timer!Loop
  <1>5. CASE Timer!Tick
    BY SMTT(30), Z3T(30), <1>5 DEF Timer!Tick, Timer!TimerAssumption
  <1>6. CASE Timer!Finished \/ UNCHANGED Timer!vars
    BY SMT, Z3, <1>6 DEF Timer!Finished, Timer!vars
  <1> QED
    BY Zenon, <1>1, <1>2, <1>3, <1>4, <1>5, <1>6, AddStep, CancelStep, CancelAllStep, ShutdownStep,
       RunStep,
       ReturnStep, SleepStep DEF Timer!Next, Timer!TimerThread

-----------------------------------------------------------------------------
(* The theorems.                                                           *)

LEMMA TimerCorrect == Timer!TimerAssumption /\ Timer!Spec => []TimerInv
  <1>1. Timer!TimerAssumption /\ TimerInv /\ [Timer!Next]_(Timer!vars) => TimerInv'
    BY TimerStep
  <1> SUFFICES ASSUME Timer!TimerAssumption PROVE Timer!Spec => []TimerInv
    OBVIOUS
  <1> QED
    BY TimerInit, <1>1, PTL DEF Timer!Spec

\* schedule and events name the same callbacks, those that neither ran nor were
\* deleted, so that cancel_event() never deletes a callback that runs; and when
\* shutdown() is over nothing runs and nothing is left to run.
THEOREM RunOnceOrCancelled == Timer!Spec => []EventsRunOnce
  <1>1. TimerInv => EventsRunOnce
    BY DEF TimerInv, EventsRunOnce, Timer!ShutdownIsFinal, RunningIsRun, StoppedIsEmpty
  <1> QED
    BY TimerAssumption, TimerCorrect, <1>1, PTL

LEMMA StepsInTime ==
    ASSUME Timer!TimerAssumption, TimerInv, [Timer!Next]_(Timer!vars),
           NEW e \in schedule, e[2] = running', running # running'
    PROVE  e[1] <= clock /\ \A f \in schedule : e[1] <= f[1]
  <1>1. e[2] \in Callbacks /\ running' # NoCallback
    BY Zenon, EventTypes DEF TimerInv, Timer!TimerAssumption
  <1>2. PICK g \in schedule : Timer!RunFirst(g)
    BY Zenon, <1>1 DEF Timer!Next, Timer!vars, Timer!TimerThread, Timer!StartTimer, Timer!Shutdown,
       Timer!Join, Timer!AddEvent, Timer!CancelEvent, Timer!CancelAllEvents, Timer!GetLock,
           Timer!Loop, Timer!Return, Timer!Sleep, Timer!Tick, Timer!Finished
  <1>3. g = e
    BY Zenon, <1>2 DEF Timer!RunFirst, TimerInv, Timer!MapsAgree
  <1>4. \A f \in schedule : f[1] \in Nat
    BY SMTT(30), EventTypes DEF TimerInv
  <1>5. e[1] <= now /\ now \in Nat /\ clock \in Nat
    BY SMT, Z3, <1>2, <1>3 DEF Timer!RunFirst, Timer!First, Timer!Due, TimerInv, Timer!TypeOK
  <1>6. \A f \in schedule : e[1] <= f[1]
    <2> SUFFICES ASSUME NEW f \in schedule PROVE e[1] <= f[1]
      BY SMTT(30)
    <2>1. CASE f[1] <= now
      BY Zenon, <1>2, <1>3, <2>1 DEF Timer!RunFirst, Timer!First, Timer!Due
    <2>2. CASE ~(f[1] <= now)
      BY <1>4, <1>5, <2>2
    <2> QED
      BY Zenon, <2>1, <2>2
  <1> QED
    BY <1>4, <1>5, <1>6 DEF TimerInv, NowIsPast

\* timer_thread() runs no callback before its time, and none before another that is
\* due earlier.
THEOREM NeverEarly == Timer!Spec => NotBeforeItsTime
  <1>1. TimerInv /\ [Timer!Next]_(Timer!vars) =>
            [\A e \in schedule :
                e[2] = running' /\ running # running'
                => e[1] <= clock /\ \A f \in schedule : e[1] <= f[1]]_(Timer!vars)
    BY StepsInTime, TimerAssumption
  <1> QED
    BY TimerAssumption, TimerCorrect, <1>1, PTL DEF Timer!Spec, NotBeforeItsTime,
       Timer!NotBeforeItsTime

-----------------------------------------------------------------------------
(* The modified buckets.                                                   *)

\* swap_modified_buckets() throws away what the thread's own map held: it is called
\* only after the whole batch was handed over.
BatchDone == syncer # "sync" => batch = {}

KeptInv == Sync!ModifiedIsKept /\ BatchDone

LEMMA KeptInit == Sync!Init => KeptInv
  BY SMTT(30) DEF Sync!Init, KeptInv, Sync!ModifiedIsKept, BatchDone

LEMMA KeptStep == KeptInv /\ [Sync!Next]_(Sync!vars) => KeptInv'
  <1> SUFFICES ASSUME KeptInv, [Sync!Next]_(Sync!vars)
               PROVE  KeptInv'
    OBVIOUS
  <1> USE DEF KeptInv, Sync!ModifiedIsKept, BatchDone
  <1>1. ASSUME NEW r \in Requests, NEW b \in Buckets, Sync!DataModified(r, b)
        PROVE  KeptInv'
    BY Zenon, <1>1 DEF Sync!DataModified
  <1>2. ASSUME NEW r \in Requests, Sync!Insert(r)
        PROVE  KeptInv'
    BY Zenon, <1>2 DEF Sync!Insert
  <1>3. CASE Sync!SwapModified
    BY <1>3 DEF Sync!SwapModified
  <1>4. ASSUME NEW b \in Buckets, Sync!SyncBucket(b)
        PROVE  KeptInv'
    BY Zenon, <1>4 DEF Sync!SyncBucket
  <1>5. CASE Sync!AfterBatch
    BY <1>5 DEF Sync!AfterBatch
  <1>6. CASE Sync!AfterWait
    BY <1>6 DEF Sync!AfterWait
  <1>7. CASE Sync!UserSync
    BY Zenon, <1>7 DEF Sync!UserSync
  <1>8. CASE Sync!StopFlag \/ Sync!StopLock \/ Sync!JoinBuckets \/ Sync!JoinUser
    BY Zenon, <1>8 DEF Sync!StopFlag, Sync!StopLock, Sync!JoinBuckets, Sync!JoinUser
  <1>9. CASE Sync!Stopped \/ UNCHANGED Sync!vars
    BY Zenon, <1>9 DEF Sync!Stopped, Sync!vars
  <1> QED
    BY Zenon, <1>1, <1>2, <1>3, <1>4, <1>5, <1>6, <1>7, <1>8, <1>9 DEF Sync!Next, Sync!Syncer

\* The race that the comment in data_modified() calls ok is ok, whatever the number of
\* requests: a bucket whose data_modified() has returned is in modified_buckets or in
\* the batch that BucketsSyncThread has yet to hand to sync_bucket().
THEOREM NothingForgotten == Sync!Spec => []Sync!ModifiedIsKept
  <1>1. KeptInv => Sync!ModifiedIsKept
    BY DEF KeptInv
  <1> QED
    BY KeptInit, KeptStep, <1>1, PTL DEF Sync!Spec

-----------------------------------------------------------------------------
(* The log.                                                                *)

LEMMA LogFacts ==
    /\ NoThread \notin Callers \cup {Flusher}
    /\ Flusher \notin Loggers \cup Callers
    /\ Loggers \cap Callers = {}
    /\ RecentLimits \subseteq Nat
  BY LogAssumption DEF Logging!LogAssumption

\* The entries of s are numbered from k + 1 on, without a gap.
Run(s, k) == \A i \in 1 .. Len(s) : s[i] = k + i

LEMMA RunEmpty == \A k : Run(<<>>, k)
  BY DEF Run

LEMMA RunAppend ==
    ASSUME NEW s \in Seq(Nat), NEW k \in Int, Run(s, k), k + Len(s) + 1 \in Nat
    PROVE  LET a == Append(s, k + Len(s) + 1)
           IN  a \in Seq(Nat) /\ Len(a) = Len(s) + 1 /\ Run(a, k)
  <1> DEFINE e == k + Len(s) + 1
             a == Append(s, e)
  <1>0. Len(s) \in Nat /\ e \in Nat
    OBVIOUS
  <1> HIDE DEF e
  <1>1. /\ a \in Seq(Nat) /\ Len(a) = Len(s) + 1 /\ a[Len(s) + 1] = e
        /\ \A i \in 1 .. Len(s) : a[i] = s[i]
    BY SMT, Z3, <1>0, SeqAppended
  <1> HIDE DEF a
  <1>2. ASSUME NEW i \in 1 .. Len(a) PROVE a[i] = k + i
    <2>1. CASE i = Len(s) + 1
      BY <1>0, <1>1, <2>1 DEF e
    <2>2. CASE i # Len(s) + 1
      <3>1. i \in 1 .. Len(s)
        BY <1>0, <1>1, <2>2
      <3> QED
        BY Zenon, <1>1, <3>1 DEF Run
    <2> QED
      BY Zenon, <2>1, <2>2
  <1>3. Run(a, k)
    BY Zenon, <1>2 DEF Run
  <1> QED
    BY Zenon, <1>1, <1>3 DEF a, e

LEMMA RunConcat ==
    ASSUME NEW s \in Seq(Nat), NEW t \in Seq(Nat), NEW k \in Int, Run(s, k), Run(t, k + Len(s))
    PROVE  s \o t \in Seq(Nat) /\ Len(s \o t) = Len(s) + Len(t) /\ Run(s \o t, k)
  <1>1. s \o t \in Seq(Nat) /\ Len(s \o t) = Len(s) + Len(t) /\ Len(s) \in Nat /\ Len(t) \in Nat
    OBVIOUS
  <1>2. ASSUME NEW i \in 1 .. Len(s \o t) PROVE (s \o t)[i] = k + i
    <2>1. CASE i <= Len(s)
      BY <1>1, <2>1 DEF Run
    <2>2. CASE i > Len(s)
      <3>1. (s \o t)[i] = t[i - Len(s)] /\ i - Len(s) \in 1 .. Len(t)
        BY <1>1, <2>2
      <3>2. t[i - Len(s)] = k + Len(s) + (i - Len(s))
        BY Zenon, <3>1 DEF Run
      <3> QED
        BY <1>1, <3>1, <3>2
    <2> QED
      BY SMT, Z3, <1>1, <2>1, <2>2
  <1> QED
    BY Zenon, <1>1, <1>2 DEF Run

LEMMA RunTail ==
    ASSUME NEW s \in Seq(Nat), NEW k \in Int, NEW m \in Nat, Run(s, k), Len(s) > m
    PROVE  LET t == SubSeq(s, Len(s) - m + 1, Len(s))
           IN  t \in Seq(Nat) /\ Len(t) = m /\ Run(t, k + Len(s) - m)
  <1> DEFINE t == SubSeq(s, Len(s) - m + 1, Len(s))
  <1>1. Len(s) \in Nat /\ Len(s) - m + 1 \in 1 .. Len(s) + 1
    OBVIOUS
  <1>2. t \in Seq(Nat) /\ Len(t) = m
    BY SMT, Z3, <1>1
  <1>3. ASSUME NEW i \in 1 .. m PROVE t[i] = k + Len(s) - m + i
    <2>1. t[i] = s[Len(s) - m + i] /\ Len(s) - m + i \in 1 .. Len(s)
      BY <1>1, <1>3
    <2> QED
      BY SMTT(30), <1>1, <2>1 DEF Run
  <1> QED
    BY Zenon, <1>2, <1>3 DEF Run

InFlush == IF flushMutex = NoThread THEN <<>> ELSE logBatch[flushMutex]

LogTypes ==
    /\ logPc \in [Logging!Threads -> Logging!States]
    /\ entries \in Seq(Nat) /\ recent \in Seq(Nat) /\ written \in Seq(Nat)
    /\ logBatch \in [Logging!FlushThreads -> Seq(Nat)]
    /\ flushMutex \in Logging!FlushThreads \cup {NoThread}
    /\ logStopping \in BOOLEAN
    /\ maxRecent \in Nat
    /\ submitted \in Nat /\ logOwed \in Nat

\* Whoever is between the swap and the write has m_flush_mutex.
FlushPhase ==
    /\ \A c \in Callers : logPc[c] \in {"flush", "dump"} => flushMutex = c
    /\ logPc[Flusher] \in {"writing", "lastwriting"} => flushMutex = Flusher

\* The entries are where they are in the order of their submission.
LogOrder ==
    /\ Run(written, 0)
    /\ Run(InFlush, Len(written))
    /\ Run(entries, Len(written) + Len(InFlush))
    /\ submitted = Len(written) + Len(InFlush) + Len(entries)

RecentRun == Run(recent, Len(written) - Len(recent))

\* What stop() waits for is with the thread when it writes for the last time.
StopPhase ==
    /\ logOwed <= submitted
    /\ logPc[Flusher] \in {"last", "lastwriting", "exited"} => logStopping
    /\ logPc[Flusher] = "lastwriting" => Len(written) + Len(InFlush) >= logOwed
    /\ logPc[Flusher] = "exited" => Len(written) >= logOwed

LogInv == LogTypes /\ FlushPhase /\ LogOrder /\ RecentRun /\ StopPhase

LEMMA LogInit == Logging!Init => LogInv
  <1> SUFFICES ASSUME Logging!Init PROVE LogInv
    OBVIOUS
  <1>1. LogTypes
    <2>1. logPc \in [Logging!Threads -> Logging!States] /\ logBatch \in [Logging!FlushThreads -> Seq(Nat)] /\ maxRecent \in Nat
      BY LogFacts DEF Logging!Init, Logging!States
    <2>2. <<>> \in Seq(Nat) /\ FALSE \in BOOLEAN /\ 0 \in Nat
      BY SMTT(30)
    <2> QED
      BY Zenon, <2>1, <2>2 DEF Logging!Init, LogTypes
  <1>2. FlushPhase
    <2>1. \A t \in Logging!Threads : logPc[t] \in {"off", "idle"}
      BY Zenon DEF Logging!Init
    <2> QED
      BY <2>1 DEF FlushPhase, Logging!Threads, Logging!FlushThreads
  <1>3. InFlush = <<>> /\ written = <<>> /\ entries = <<>> /\ recent = <<>> /\ submitted = 0 /\ logOwed = 0
    BY Zenon DEF Logging!Init, InFlush
  <1>4. LogOrder /\ RecentRun
    BY <1>3, RunEmpty DEF LogOrder, RecentRun
  <1>5. StopPhase
    BY SMTT(30), <1>3 DEF Logging!Init, StopPhase, Logging!Threads, Logging!FlushThreads
  <1> QED
    BY <1>1, <1>2, <1>4, <1>5 DEF LogInv

\* A step of the control alone.
LEMMA ControlStep ==
    ASSUME LogInv, UNCHANGED <<entries, recent, logBatch, flushMutex, submitted, written>>
    PROVE  LogOrder' /\ RecentRun' /\ InFlush' = InFlush
  BY Zenon DEF LogInv, LogOrder, RecentRun, InFlush, Run

LEMMA ThreadSets ==
    /\ Flusher \in Logging!FlushThreads /\ Flusher \in Logging!Threads /\ Flusher \notin Callers /\ Flusher \notin Loggers
    /\ \A c \in Callers : c \in Logging!FlushThreads /\ c \in Logging!Threads /\ c # Flusher /\ c \notin Loggers
    /\ \A l \in Loggers : l \in Logging!Threads /\ l \notin Logging!FlushThreads /\ l # Flusher
    /\ NoThread \notin Logging!FlushThreads
  BY Zenon, LogFacts DEF Logging!Threads, Logging!FlushThreads

LEMMA WakeFacts ==
    ASSUME NEW p \in [Logging!Threads -> Logging!States]
    PROVE  /\ Logging!WakeLoggers(p) \in [Logging!Threads -> Logging!States]
           /\ \A t \in Logging!FlushThreads : Logging!WakeLoggers(p)[t] = p[t]
  <1>1. \A t \in Logging!FlushThreads : t \in Logging!Threads /\ t \notin Loggers
    BY Zenon, ThreadSets DEF Logging!Threads, Logging!FlushThreads
  <1> QED
    BY Zenon, <1>1 DEF Logging!WakeLoggers, Logging!States

LEMMA SignalFacts ==
    ASSUME NEW p \in [Logging!Threads -> Logging!States]
    PROVE  /\ Logging!SignalFlusher(p) \in [Logging!Threads -> Logging!States]
           /\ \A t \in Callers : Logging!SignalFlusher(p)[t] = p[t]
           /\ \/ Logging!SignalFlusher(p)[Flusher] = p[Flusher]
              \/ Logging!SignalFlusher(p)[Flusher] = "loop"
  BY Zenon, ThreadSets DEF Logging!SignalFlusher, Logging!States

\* Nothing but where the threads are, and then no thread enters or leaves a flush.
LEMMA QuietStep ==
    ASSUME LogInv, UNCHANGED <<entries, recent, logBatch, flushMutex, submitted, written>>,
           logPc' \in [Logging!Threads -> Logging!States], maxRecent' \in Nat,
           logStopping' \in BOOLEAN, logOwed' \in Nat, logOwed' <= submitted,
           \A c \in Callers : logPc'[c] \in {"flush", "dump"} => logPc[c] \in {"flush", "dump"},
           logPc'[Flusher] \in {"writing", "lastwriting"} => logPc'[Flusher] = logPc[Flusher],
           logPc'[Flusher] \in {"lastwriting", "exited"} => logPc'[Flusher] = logPc[Flusher] /\ logOwed' = logOwed,
           logPc'[Flusher] \in {"last", "lastwriting", "exited"} => logStopping'
    PROVE  LogInv'
  <1>1. LogTypes'
    BY Zenon DEF LogInv, LogTypes
  <1>2. FlushPhase'
    BY Zenon DEF LogInv, FlushPhase
  <1>3. StopPhase'
    BY Zenon, ControlStep DEF LogInv, StopPhase
  <1> QED
    BY Zenon, <1>1, <1>2, <1>3, ControlStep DEF LogInv

LEMMA CallersQuiet ==
    ASSUME LogInv, NEW c \in Callers, Logging!SetMaxNew(c) \/ Logging!SetMaxRecent(c) \/ Logging!Start(c) \/ Logging!Stop(c) \/ Logging!Join(c)
    PROVE  LogInv'
  <1>h. LogTypes /\ StopPhase
    BY Zenon DEF LogInv
  <1>t. logPc \in [Logging!Threads -> Logging!States] /\ maxRecent \in Nat /\ logStopping \in BOOLEAN /\ logOwed \in Nat
        /\ submitted \in Nat /\ logOwed <= submitted
        /\ (logPc[Flusher] \in {"last", "lastwriting", "exited"} => logStopping)
    BY Zenon, <1>h DEF LogTypes, StopPhase
  <1>1. CASE Logging!SetMaxNew(c) \/ Logging!SetMaxRecent(c)
    <2>1. /\ UNCHANGED <<logPc, entries, recent, logBatch, flushMutex, submitted, written, logStopping, logOwed>>
          /\ maxRecent' \in Nat
      BY Zenon, <1>1, <1>t, LogFacts DEF Logging!SetMaxNew, Logging!SetMaxRecent
    <2> QED
      BY Zenon, <1>t, <2>1, QuietStep
  <1>2. CASE Logging!Start(c)
    <2>1. /\ logPc[Flusher] = "off" /\ logStopping' = FALSE /\ logPc' = [logPc EXCEPT ![Flusher] = "loop"]
          /\ UNCHANGED <<entries, recent, logBatch, flushMutex, maxRecent, submitted, written, logOwed>>
      BY Zenon, <1>2 DEF Logging!Start, Logging!Goto
    <2>2. /\ logPc' \in [Logging!Threads -> Logging!States] /\ logPc'[Flusher] = "loop"
          /\ \A d \in Callers : logPc'[d] = logPc[d]
      BY Zenon, <1>t, <2>1, ThreadSets DEF Logging!States
    <2> QED
      BY Zenon, <1>t, <2>1, <2>2, QuietStep
  <1>3. CASE Logging!Stop(c)
    <2> DEFINE p == [logPc EXCEPT ![c] = "join"]
               q == Logging!WakeLoggers(p)
    <2>1. /\ logPc[Flusher] \notin {"off", "exited"} /\ ~logStopping /\ logStopping' = TRUE /\ logOwed' = submitted
          /\ logPc' = Logging!SignalFlusher(q)
          /\ UNCHANGED <<entries, recent, logBatch, flushMutex, maxRecent, submitted, written>>
      BY Zenon, <1>3 DEF Logging!Stop
    <2>2. p \in [Logging!Threads -> Logging!States] /\ p[Flusher] = logPc[Flusher]
          /\ \A d \in Callers : p[d] = logPc[d] \/ p[d] = "join"
      BY Zenon, <1>t, ThreadSets DEF Logging!States
    <2> HIDE DEF p
    <2>3. /\ q \in [Logging!Threads -> Logging!States] /\ q[Flusher] = logPc[Flusher]
          /\ \A d \in Callers : q[d] = logPc[d] \/ q[d] = "join"
      BY Zenon, <2>2, WakeFacts, ThreadSets
    <2> HIDE DEF q
    <2>4. /\ logPc' \in [Logging!Threads -> Logging!States] /\ logPc'[Flusher] \in {logPc[Flusher], "loop"}
          /\ \A d \in Callers : logPc'[d] = logPc[d] \/ logPc'[d] = "join"
      BY Zenon, <2>1, <2>3, SignalFacts
    <2>5. logPc'[Flusher] \notin {"lastwriting", "exited"}
      BY Zenon, <1>t, <2>1, <2>4
    <2>6. \A d \in Callers : logPc'[d] \in {"flush", "dump"} => logPc[d] \in {"flush", "dump"}
      BY Zenon, <2>4
    <2> QED
      BY SMTT(30), Z3T(30), <1>t, <2>1, <2>4, <2>5, <2>6, QuietStep
  <1>4. CASE Logging!Join(c)
    <2>1. /\ logPc' = [logPc EXCEPT ![c] = "idle", ![Flusher] = "off"]
          /\ UNCHANGED <<entries, recent, logBatch, flushMutex, maxRecent, submitted, written, logStopping, logOwed>>
      BY Zenon, <1>4 DEF Logging!Join
    <2>2. /\ logPc' \in [Logging!Threads -> Logging!States] /\ logPc'[Flusher] = "off"
          /\ \A d \in Callers : logPc'[d] = logPc[d] \/ logPc'[d] = "idle"
      BY Zenon, <1>t, <2>1, ThreadSets DEF Logging!States
    <2>3. \A d \in Callers : logPc'[d] \in {"flush", "dump"} => logPc[d] \in {"flush", "dump"}
      BY Zenon, <2>2
    <2> QED
      BY Zenon, <1>t, <2>1, <2>2, <2>3, QuietStep
  <1> QED
    BY Zenon, <1>1, <1>2, <1>3, <1>4

LEMMA SubmitStep ==
    ASSUME LogInv, NEW l \in Loggers, Logging!SubmitWait(l) \/ Logging!SubmitEnqueue(l)
    PROVE  LogInv'
  <1>h. LogTypes /\ FlushPhase /\ LogOrder /\ RecentRun /\ StopPhase
    BY DEF LogInv
  <1>t. logPc \in [Logging!Threads -> Logging!States] /\ maxRecent \in Nat /\ logStopping \in BOOLEAN /\ logOwed \in Nat
        /\ submitted \in Nat /\ logOwed <= submitted /\ entries \in Seq(Nat) /\ written \in Seq(Nat)
        /\ (logPc[Flusher] \in {"last", "lastwriting", "exited"} => logStopping)
    BY Zenon, <1>h DEF LogTypes, StopPhase
  <1>1. CASE Logging!SubmitWait(l)
    <2>1. /\ logPc' = [logPc EXCEPT ![l] = "wait"]
          /\ UNCHANGED <<entries, recent, logBatch, flushMutex, logStopping, maxRecent, submitted, written, logOwed>>
      BY Zenon, <1>1 DEF Logging!SubmitWait, Logging!Goto
    <2>2. logPc' \in [Logging!Threads -> Logging!States] /\ \A t \in Logging!FlushThreads : logPc'[t] = logPc[t]
      BY Zenon, <1>t, <2>1, ThreadSets DEF Logging!States, Logging!Threads
    <2> QED
      BY Zenon, <1>t, <2>1, <2>2, ThreadSets, QuietStep
  <1>2. CASE Logging!SubmitEnqueue(l)
    <2> DEFINE p == [logPc EXCEPT ![l] = "idle"]
    <2>1. /\ submitted' = submitted + 1 /\ entries' = Append(entries, submitted + 1)
          /\ logPc' = Logging!SignalFlusher(p)
          /\ UNCHANGED <<recent, logBatch, flushMutex, logStopping, maxRecent, written, logOwed>>
      BY Zenon, <1>2 DEF Logging!SubmitEnqueue
    <2>2. p \in [Logging!Threads -> Logging!States] /\ \A t \in Logging!FlushThreads : p[t] = logPc[t]
      BY Zenon, <1>t, ThreadSets DEF Logging!States, Logging!Threads
    <2> HIDE DEF p
    <2>3. /\ logPc' \in [Logging!Threads -> Logging!States] /\ logPc'[Flusher] \in {logPc[Flusher], "loop"}
          /\ \A d \in Callers : logPc'[d] = logPc[d]
      BY Zenon, <2>1, <2>2, ThreadSets, SignalFacts
    <2>4. InFlush' = InFlush /\ InFlush \in Seq(Nat)
      <3>1. InFlush' = InFlush
        BY Zenon, <2>1 DEF InFlush
      <3>2. InFlush \in Seq(Nat)
        BY <1>h DEF LogTypes, InFlush
      <3> QED
        BY Zenon, <3>1, <3>2
    <2>5. entries' \in Seq(Nat) /\ Len(entries') = Len(entries) + 1
          /\ Run(entries', Len(written) + Len(InFlush))
      <3> DEFINE k == Len(written) + Len(InFlush)
      <3>1. k \in Nat /\ submitted = k + Len(entries) /\ Run(entries, k)
        BY SMTT(30), Z3T(30), <1>h, <1>t, <2>4 DEF LogOrder
      <3> HIDE DEF k
      <3>2. k \in Int /\ k + Len(entries) + 1 \in Nat
        BY <1>t, <3>1
      <3>3. entries' = Append(entries, k + Len(entries) + 1)
        BY Zenon, <2>1, <3>1
      <3>4. entries' \in Seq(Nat) /\ Len(entries') = Len(entries) + 1 /\ Run(entries', k)
        BY Zenon, <1>t, <3>1, <3>2, <3>3, RunAppend
      <3> QED
        BY Zenon, <3>4 DEF k
    <2>6. LogTypes'
      BY SMTT(30), Z3T(30), <1>h, <1>t, <2>1, <2>3, <2>5 DEF LogTypes
    <2>7. FlushPhase'
      BY Zenon, <1>h, <2>1, <2>3 DEF FlushPhase
    <2>8. LogOrder' /\ RecentRun'
      <3>1. submitted' = Len(written) + Len(InFlush) + Len(entries')
        BY SMT, Z3, <1>h, <1>t, <2>1, <2>4, <2>5 DEF LogOrder
      <3>2. written' = written /\ recent' = recent
        BY Zenon, <2>1
      <3> QED
        BY Zenon, <1>h, <2>4, <2>5, <3>1, <3>2 DEF LogOrder, RecentRun, Run
    <2>9. StopPhase'
      BY SMT, Z3, <1>h, <1>t, <2>1, <2>3, <2>4 DEF StopPhase
    <2> QED
      BY Zenon, <2>6, <2>7, <2>8, <2>9 DEF LogInv
  <1> QED
    BY Zenon, <1>1, <1>2

\* m_new becomes the batch of f, who takes m_flush_mutex.
LEMMA SwapStep ==
    ASSUME LogInv, NEW f \in Logging!FlushThreads, NEW p \in [Logging!Threads -> Logging!States], Logging!Swap(f, p),
           \A t \in Logging!FlushThreads \ {f} : p[t] = logPc[t],
           f # Flusher => p[Flusher] = logPc[Flusher],
           f = Flusher => /\ p[f] \in {"writing", "lastwriting"}
                          /\ p[f] = "lastwriting" => logStopping
    PROVE  LogInv'
  <1>h. LogTypes /\ FlushPhase /\ LogOrder /\ RecentRun /\ StopPhase
    BY Zenon DEF LogInv
  <1>1. /\ flushMutex = NoThread /\ flushMutex' = f /\ logBatch' = [logBatch EXCEPT ![f] = entries]
        /\ entries' = <<>> /\ logPc' = p
        /\ UNCHANGED <<recent, logStopping, maxRecent, submitted, written, logOwed>>
    BY Zenon DEF Logging!Swap
  <1>t. /\ entries \in Seq(Nat) /\ written \in Seq(Nat) /\ recent \in Seq(Nat)
        /\ logBatch \in [Logging!FlushThreads -> Seq(Nat)] /\ submitted \in Nat /\ logOwed \in Nat
    BY Zenon, <1>h DEF LogTypes
  <1>2. InFlush = <<>> /\ InFlush' = entries
    <2>1. f # NoThread
      BY Zenon, ThreadSets
    <2>2. logBatch'[f] = entries
      BY Zenon, <1>1, <1>t
    <2> QED
      BY Zenon, <1>1, <2>1, <2>2 DEF InFlush
  <1>3. LogTypes'
    <2>1. logBatch' \in [Logging!FlushThreads -> Seq(Nat)] /\ <<>> \in Seq(Nat)
      BY SMTT(30), Z3T(30), <1>1, <1>t
    <2> QED
      BY Zenon, <1>h, <1>1, <2>1 DEF LogTypes
  <1>n. (\A c \in Callers : logPc[c] \notin {"flush", "dump"}) /\ logPc[Flusher] \notin {"writing", "lastwriting"}
    BY Zenon, <1>h, <1>1, ThreadSets DEF FlushPhase
  <1>4. FlushPhase'
    BY Zenon, <1>1, <1>n, ThreadSets DEF FlushPhase
  <1>o. /\ Run(written, 0) /\ Run(entries, Len(written)) /\ submitted = Len(written) + Len(entries)
    <2>1. Len(InFlush) = 0 /\ Len(written) \in Nat /\ Len(entries) \in Nat
      BY SMTT(30), Z3T(30), <1>2, <1>t
    <2> QED
      BY SMT, Z3, <1>h, <2>1 DEF LogOrder
  <1>5. LogOrder'
    <2>1. Len(entries') = 0 /\ Len(written) \in Nat /\ Len(entries) \in Nat /\ Len(InFlush') = Len(entries)
      BY SMTT(30), Z3T(30), <1>1, <1>2, <1>t
    <2>2. Run(written', 0) /\ Run(InFlush', Len(written')) /\ Run(entries', Len(written') + Len(InFlush'))
      BY Zenon, <1>1, <1>2, <1>o, <2>1, RunEmpty
    <2>3. submitted' = Len(written') + Len(InFlush') + Len(entries')
      BY SMT, Z3, <1>1, <1>o, <2>1
    <2> QED
      BY Zenon, <2>2, <2>3 DEF LogOrder, Run
  <1>6. RecentRun'
    BY Zenon, <1>h, <1>1 DEF RecentRun, Run
  <1>7. StopPhase'
    <2>1. Len(written) + Len(InFlush') >= logOwed /\ logOwed <= submitted
      BY Zenon, <1>h, <1>2, <1>o, <1>t DEF StopPhase
    <2>2. f = Flusher \/ p[Flusher] = logPc[Flusher]
      BY Zenon
    <2>3. p[Flusher] = "exited" => logPc[Flusher] = "exited"
      BY Zenon, <2>2
    <2>4. p[Flusher] \in {"last", "lastwriting", "exited"} => logStopping
      BY Zenon, <1>h, <2>2 DEF StopPhase
    <2> QED
      BY Zenon, <1>h, <1>1, <2>1, <2>3, <2>4 DEF StopPhase
  <1> QED
    BY Zenon, <1>3, <1>4, <1>5, <1>6, <1>7 DEF LogInv

\* f writes its batch and releases m_flush_mutex.
LEMMA WriteStep ==
    ASSUME LogInv, NEW f \in Logging!FlushThreads, flushMutex = f, NEW s \in Logging!States,
           flushMutex' = NoThread, written' = written \o logBatch[f],
           recent' = <<>> \/ recent' = Logging!Trim(recent \o logBatch[f]),
           logBatch' = [logBatch EXCEPT ![f] = <<>>], logPc' = [logPc EXCEPT ![f] = s],
           UNCHANGED <<entries, logStopping, maxRecent, submitted, logOwed>>,
           f # Flusher => s = "idle",
           f = Flusher => s = "loop" \/ (s = "exited" /\ logPc[f] = "lastwriting")
    PROVE  LogInv'
  <1>h. LogTypes /\ FlushPhase /\ LogOrder /\ RecentRun /\ StopPhase
    BY Zenon DEF LogInv
  <1>t. /\ entries \in Seq(Nat) /\ written \in Seq(Nat) /\ recent \in Seq(Nat) /\ logBatch[f] \in Seq(Nat)
        /\ logBatch \in [Logging!FlushThreads -> Seq(Nat)] /\ submitted \in Nat /\ logOwed \in Nat /\ maxRecent \in Nat
        /\ logPc \in [Logging!Threads -> Logging!States]
        /\ Len(written) \in Nat /\ Len(recent) \in Nat /\ Len(logBatch[f]) \in Nat /\ Len(entries) \in Nat
    BY SMTT(30), Z3T(30), <1>h DEF LogTypes
  <1>1. InFlush = logBatch[f] /\ InFlush' = <<>> /\ f # NoThread
    BY Zenon, ThreadSets DEF InFlush
  <1>o. /\ Run(written, 0) /\ Run(logBatch[f], Len(written))
        /\ Run(entries, Len(written) + Len(logBatch[f]))
        /\ submitted = Len(written) + Len(logBatch[f]) + Len(entries)
    BY Zenon, <1>h, <1>1 DEF LogOrder
  <1>2. written' \in Seq(Nat) /\ Len(written') = Len(written) + Len(logBatch[f]) /\ Run(written', 0)
    <2>1. 0 + Len(written) = Len(written)
      BY SMTT(30), Z3T(30), <1>t
    <2> QED
      BY SMTT(30), Z3T(30), <1>o, <1>t, <2>1, RunConcat
  <1>3. recent' \in Seq(Nat) /\ Run(recent', Len(written') - Len(recent'))
    <2>1. CASE recent' = <<>>
      BY SMT, Z3, <2>1, RunEmpty
    <2>2. CASE recent' = Logging!Trim(recent \o logBatch[f])
      <3> DEFINE q == recent \o logBatch[f]
                 k == Len(written) - Len(recent)
      <3>1. k \in Int /\ k + Len(recent) = Len(written) /\ Run(recent, k)
        BY SMTT(30), Z3T(30), <1>h, <1>t DEF RecentRun
      <3>2. q \in Seq(Nat) /\ Len(q) = Len(recent) + Len(logBatch[f]) /\ Run(q, k)
        BY Zenon, <1>o, <1>t, <3>1, RunConcat
      <3>3. Len(written') - Len(q) = k /\ Len(q) \in Nat
        BY SMT, Z3, <1>2, <1>t, <3>2
      <3>4. recent' = Logging!Trim(q)
        BY Zenon, <2>2
      <3> HIDE DEF q, k
      <3>5. CASE Len(q) > maxRecent
        <4>1. recent' = SubSeq(q, Len(q) - maxRecent + 1, Len(q))
          BY Zenon, <3>4, <3>5 DEF Logging!Trim
        <4>2. recent' \in Seq(Nat) /\ Len(recent') = maxRecent /\ Run(recent', k + Len(q) - maxRecent)
          BY Zenon, <1>t, <3>1, <3>2, <3>5, <4>1, RunTail
        <4>3. k + Len(q) - maxRecent = Len(written') - Len(recent')
          BY SMT, Z3, <1>2, <1>t, <3>1, <3>3, <4>2
        <4> QED
          BY Zenon, <4>2, <4>3
      <3>6. CASE ~(Len(q) > maxRecent)
        BY Zenon, <3>2, <3>3, <3>4, <3>6 DEF Logging!Trim
      <3> QED
        BY Zenon, <3>5, <3>6
    <2> QED
      BY Zenon, <2>1, <2>2
  <1>4. /\ logPc' \in [Logging!Threads -> Logging!States] /\ logPc'[f] = s /\ f \in Logging!Threads
        /\ \A t \in Logging!Threads \ {f} : logPc'[t] = logPc[t]
    BY Zenon, <1>t DEF Logging!Threads
  <1>5. LogTypes'
    <2>1. logBatch' \in [Logging!FlushThreads -> Seq(Nat)]
      BY SMTT(30), Z3T(30), <1>t
    <2> QED
      BY Zenon, <1>h, <1>2, <1>3, <1>4, <2>1 DEF LogTypes
  <1>6. FlushPhase'
    BY Zenon, <1>h, <1>4, ThreadSets DEF FlushPhase
  <1>7. LogOrder'
    <2>1. Len(written') + Len(InFlush') = Len(written) + Len(logBatch[f]) /\ Len(InFlush') = 0
      BY SMT, Z3, <1>1, <1>2, <1>t
    <2>2. Run(InFlush', Len(written'))
      BY Zenon, <1>1, RunEmpty
    <2>3. Run(entries', Len(written') + Len(InFlush'))
      BY Zenon, <1>o, <2>1
    <2>4. submitted' = Len(written') + Len(InFlush') + Len(entries')
      BY Zenon, <1>o, <1>t, <2>1
    <2> QED
      BY Zenon, <1>2, <2>2, <2>3, <2>4 DEF LogOrder, Run
  <1>8. RecentRun'
    BY Zenon, <1>3 DEF RecentRun, Run
  <1>9. StopPhase'
    <2>1. Len(written') >= Len(written) /\ logOwed' = logOwed /\ submitted' = submitted /\ logStopping' = logStopping
      BY SMTT(30), Z3T(30), <1>2, <1>t
    <2>2. CASE f = Flusher
      <3>1. logPc'[Flusher] = s
        BY Zenon, <1>4, <2>2
      <3>2. s = "exited" => Len(written') >= logOwed /\ logStopping
        BY Zenon, <1>1, <1>2, <1>h, <2>2 DEF StopPhase
      <3> QED
        BY SMTT(30), Z3T(30), <1>h, <2>1, <2>2, <3>1, <3>2 DEF StopPhase
    <2>3. CASE f # Flusher
      <3>1. logPc'[Flusher] = logPc[Flusher] /\ logPc[Flusher] # "lastwriting"
        BY Zenon, <1>4, <1>h, <2>3, ThreadSets DEF FlushPhase
      <3>2. logPc[Flusher] = "exited" => Len(written') >= logOwed
        BY SMT, Z3, <1>h, <1>2, <1>t DEF StopPhase
      <3> QED
        BY SMTT(30), Z3T(30), <1>h, <2>1, <3>1, <3>2 DEF StopPhase
    <2> QED
      BY Zenon, <2>2, <2>3
  <1> QED
    BY Zenon, <1>5, <1>6, <1>7, <1>8, <1>9 DEF LogInv

LEMMA FlushStep ==
    ASSUME LogInv, \/ \E c \in Callers : Logging!CallFlush(c) \/ Logging!EndFlush(c) \/ Logging!CallDump(c) \/ Logging!EndDump(c)
                   \/ Logging!ThreadSwap \/ Logging!ThreadWrite
    PROVE  LogInv'
  <1>h. LogTypes /\ FlushPhase /\ StopPhase
    BY Zenon DEF LogInv
  <1>t. logPc \in [Logging!Threads -> Logging!States]
    BY Zenon, <1>h DEF LogTypes
  <1>1. ASSUME NEW c \in Callers, Logging!CallFlush(c) \/ Logging!CallDump(c) PROVE LogInv'
    <2>1. \E p \in [Logging!Threads -> Logging!States] : Logging!Swap(c, p) /\ \A t \in Logging!FlushThreads \ {c} : p[t] = logPc[t]
      <3>1. CASE Logging!CallFlush(c)
        <4> DEFINE r == [logPc EXCEPT ![c] = "flush"]
        <4>1. r \in [Logging!Threads -> Logging!States] /\ \A t \in Logging!FlushThreads \ {c} : r[t] = logPc[t]
          BY Zenon, <1>t DEF Logging!States, Logging!Threads
        <4> HIDE DEF r
        <4>2. Logging!WakeLoggers(r) \in [Logging!Threads -> Logging!States] /\ \A t \in Logging!FlushThreads \ {c} : Logging!WakeLoggers(r)[t] = logPc[t]
          BY Zenon, <4>1, WakeFacts
        <4>3. Logging!Swap(c, Logging!WakeLoggers(r))
          BY Zenon, <3>1 DEF Logging!CallFlush, Logging!FlushSwap, r
        <4> QED
          BY Zenon, <4>2, <4>3
      <3>2. CASE Logging!CallDump(c)
        <4> DEFINE r == [logPc EXCEPT ![c] = "dump"]
        <4>1. r \in [Logging!Threads -> Logging!States] /\ \A t \in Logging!FlushThreads \ {c} : r[t] = logPc[t]
          BY Zenon, <1>t DEF Logging!States, Logging!Threads
        <4>2. Logging!Swap(c, r)
          BY Zenon, <3>2 DEF Logging!CallDump
        <4> HIDE DEF r
        <4> QED
          BY Zenon, <4>1, <4>2
      <3> QED
        BY Zenon, <1>1, <3>1, <3>2
    <2>2. PICK p \in [Logging!Threads -> Logging!States] : Logging!Swap(c, p) /\ \A t \in Logging!FlushThreads \ {c} : p[t] = logPc[t]
      BY Zenon, <2>1
    <2>3. c \in Logging!FlushThreads /\ c # Flusher /\ p[Flusher] = logPc[Flusher]
      BY Zenon, <2>2, ThreadSets
    <2> QED
      BY Zenon, <2>2, <2>3, SwapStep
  <1>2. ASSUME NEW c \in Callers, Logging!EndFlush(c) \/ Logging!EndDump(c) PROVE LogInv'
    <2>1. flushMutex = c /\ c \in Logging!FlushThreads /\ c # Flusher /\ "idle" \in Logging!States
      BY Zenon, <1>2, <1>h, ThreadSets DEF FlushPhase, Logging!EndFlush, Logging!EndDump, Logging!States
    <2>2. /\ flushMutex' = NoThread /\ written' = written \o logBatch[c]
          /\ recent' = <<>> \/ recent' = Logging!Trim(recent \o logBatch[c])
          /\ logBatch' = [logBatch EXCEPT ![c] = <<>>] /\ logPc' = [logPc EXCEPT ![c] = "idle"]
          /\ UNCHANGED <<entries, logStopping, maxRecent, submitted, logOwed>>
      BY Zenon, <1>2 DEF Logging!EndFlush, Logging!EndDump, Logging!FlushWrite, Logging!Goto
    <2> QED
      BY Zenon, <2>1, <2>2, WriteStep
  <1>3. CASE Logging!ThreadSwap
    <2>1. PICK s \in {"writing", "lastwriting"} :
              Logging!FlushSwap(Flusher, s) /\ (s = "lastwriting" => logPc[Flusher] = "last")
      BY Zenon, <1>3 DEF Logging!ThreadSwap
    <2> DEFINE r == [logPc EXCEPT ![Flusher] = s]
    <2>2. r \in [Logging!Threads -> Logging!States] /\ r[Flusher] = s /\ \A t \in Logging!FlushThreads \ {Flusher} : r[t] = logPc[t]
      BY Zenon, <1>t, ThreadSets DEF Logging!States, Logging!Threads
    <2>3. Logging!Swap(Flusher, Logging!WakeLoggers(r))
      BY Zenon, <2>1 DEF Logging!FlushSwap
    <2> HIDE DEF r
    <2>4. /\ Logging!WakeLoggers(r) \in [Logging!Threads -> Logging!States] /\ Logging!WakeLoggers(r)[Flusher] = s
          /\ \A t \in Logging!FlushThreads \ {Flusher} : Logging!WakeLoggers(r)[t] = logPc[t]
      BY Zenon, <2>2, WakeFacts, ThreadSets
    <2>5. s = "lastwriting" => logStopping
      BY Zenon, <1>h, <2>1 DEF StopPhase
    <2> QED
      BY Zenon, <2>3, <2>4, <2>5, ThreadSets, SwapStep
  <1>4. CASE Logging!ThreadWrite
    <2>1. PICK s \in {"loop", "exited"} :
              /\ Logging!FlushWrite(Flusher, s)
              /\ logPc[Flusher] \in {"writing", "lastwriting"}
              /\ s = "exited" => logPc[Flusher] = "lastwriting"
      BY Zenon, <1>4 DEF Logging!ThreadWrite
    <2>2. flushMutex = Flusher /\ Flusher \in Logging!FlushThreads /\ s \in Logging!States
      BY Zenon, <1>h, <2>1, ThreadSets DEF FlushPhase, Logging!States
    <2>3. /\ flushMutex' = NoThread /\ written' = written \o logBatch[Flusher]
          /\ recent' = Logging!Trim(recent \o logBatch[Flusher])
          /\ logBatch' = [logBatch EXCEPT ![Flusher] = <<>>] /\ logPc' = [logPc EXCEPT ![Flusher] = s]
          /\ UNCHANGED <<entries, logStopping, maxRecent, submitted, logOwed>>
      BY Zenon, <2>1 DEF Logging!FlushWrite, Logging!Goto
    <2> QED
      BY Zenon, <2>1, <2>2, <2>3, WriteStep
  <1> QED
    BY Zenon, <1>1, <1>2, <1>3, <1>4

LEMMA LogStep == LogInv /\ [Logging!Next]_(Logging!vars) => LogInv'
  <1> SUFFICES ASSUME LogInv, [Logging!Next]_(Logging!vars) PROVE LogInv'
    OBVIOUS
  <1>h. LogTypes /\ StopPhase
    BY DEF LogInv
  <1>t. logPc \in [Logging!Threads -> Logging!States] /\ maxRecent \in Nat /\ logStopping \in BOOLEAN /\ logOwed \in Nat
        /\ submitted \in Nat /\ logOwed <= submitted
        /\ (logPc[Flusher] \in {"last", "lastwriting", "exited"} => logStopping)
    BY Zenon, <1>h DEF LogTypes, StopPhase
  <1>1. CASE Logging!Turn
    <2>1. /\ logPc[Flusher] = "loop"
          /\ logPc' = [logPc EXCEPT ![Flusher] = IF logStopping THEN "last" ELSE IF entries # <<>> THEN "flush" ELSE "wait"]
          /\ UNCHANGED <<entries, recent, logBatch, flushMutex, logStopping, maxRecent, submitted, written, logOwed>>
      BY Zenon, <1>1 DEF Logging!Turn, Logging!Goto
    <2>2. /\ logPc' \in [Logging!Threads -> Logging!States] /\ logPc'[Flusher] \in {"last", "flush", "wait"}
          /\ logPc'[Flusher] = "last" => logStopping
          /\ \A c \in Callers : logPc'[c] = logPc[c]
      BY Zenon, <1>t, <2>1, ThreadSets DEF Logging!States
    <2> QED
      BY Zenon, <1>t, <2>1, <2>2, QuietStep
  <1>2. CASE UNCHANGED Logging!vars
    <2>1. UNCHANGED <<logPc, entries, recent, logBatch, flushMutex, logStopping, maxRecent, submitted, written, logOwed>>
      BY Zenon, <1>2 DEF Logging!vars
    <2> QED
      BY Zenon, <1>t, <2>1, QuietStep
  <1> QED
    BY Zenon, <1>1, <1>2, SubmitStep, CallersQuiet, FlushStep DEF Logging!Next, Logging!ThreadStep

\* submit_entry(), flush() and the flusher thread, whatever limits are set and whenever
\* stop() comes: entries are written in the order in which they were submitted, each
\* once; m_recent is an unbroken run of them; and none is left when the thread is gone.
THEOREM EntriesKeepTheirOrder == Logging!Spec => []EntriesInOrder
  <1>1. LogInv => EntriesInOrder
    <2> SUFFICES ASSUME LogInv PROVE EntriesInOrder
      OBVIOUS
    <2>h. LogTypes /\ LogOrder /\ RecentRun /\ StopPhase
      BY DEF LogInv
    <2>1. /\ InFlush \in Seq(Nat) /\ entries \in Seq(Nat) /\ written \in Seq(Nat)
          /\ Len(InFlush) \in Nat /\ Len(entries) \in Nat /\ Len(written) \in Nat
      BY <2>h DEF LogTypes, InFlush
    <2>2. /\ Logging!Unwritten = InFlush \o entries /\ Logging!Unwritten \in Seq(Nat)
          /\ Len(Logging!Unwritten) = Len(InFlush) + Len(entries) /\ Run(Logging!Unwritten, Len(written))
      <3>1. Logging!Unwritten = InFlush \o entries
        BY DEF Logging!Unwritten, InFlush
      <3> QED
        BY SMT, Z3, <2>h, <2>1, <3>1, RunConcat DEF LogOrder
    <2>3. /\ written \o Logging!Unwritten \in Seq(Nat) /\ Run(written \o Logging!Unwritten, 0)
          /\ Len(written \o Logging!Unwritten) = Len(written) + Len(Logging!Unwritten)
      <3>1. Run(written, 0) /\ Run(Logging!Unwritten, 0 + Len(written))
        BY SMT, Z3, <2>h, <2>1, <2>2 DEF LogOrder
      <3>2. written \in Seq(Nat) /\ Logging!Unwritten \in Seq(Nat) /\ 0 \in Int
        BY <2>1, <2>2
      <3> QED
        BY Zenon, <3>1, <3>2, RunConcat
    <2>4. Logging!EntriesInOrder
      BY SMT, Z3, <2>h, <2>1, <2>2, <2>3 DEF Logging!EntriesInOrder, LogOrder, Run
    <2>5. Logging!RecentIsUnbroken
      BY Zenon, <2>h DEF RecentRun, Logging!RecentIsUnbroken, Run
    <2>6. Logging!StopWritesAll
      BY Zenon, <2>h DEF StopPhase, Logging!StopWritesAll
    <2> QED
      BY Zenon, <2>4, <2>5, <2>6 DEF EntriesInOrder
  <1> QED
    BY <1>1, LogInit, LogStep, PTL DEF Logging!Spec

=============================================================================
