-------------------------- MODULE ObjectOps_proofs --------------------------
(***************************************************************************)
(* The requests that change files, for any number of workers, buckets,     *)
(* users and objects: a worker gets its identity back, an upload that no   *)
(* other request for its object overlaps is not disturbed and is stored    *)
(* when it is answered, and the figures of the stat files cover what is    *)
(* stored when the requests to a bucket take turns.                        *)
(***************************************************************************)
EXTENDS ObjectOps, Sequences, WellFoundedInduction, TLAPS

\* Types and identities are preserved only together: drop_privs() saves the
\* identity that the previous operation has left.
PrivInv == TypeOK /\ PrivsRestored

LEMMA MaxIsOne ==
    ASSUME NEW a \in Int, NEW b \in Int
    PROVE  /\ Max({a, b}) \in {a, b}
           /\ Max({a, b}) >= a /\ Max({a, b}) >= b
  <1> DEFINE S == {a, b}
  <1>1. \E x \in S : \A y \in S : x >= y
    <2>1. CASE a >= b
      BY <2>1
    <2>2. CASE b >= a
      BY <2>2
    <2> QED
      BY <2>1, <2>2
  <1>2. (CHOOSE x \in S : \A y \in S : x >= y) \in S
    BY <1>1
  <1>3. \A y \in S : (CHOOSE x \in S : \A z \in S : x >= z) >= y
    BY <1>1
  <1> QED
    BY <1>2, <1>3 DEF Max

LEMMA NoObjectOutside == NoObject \notin Objects
  BY SMT, Z3 DEF NoObject, Objects

LEMMA NoRequestType == NoRequest \in [kind : Kinds, obj : Objects \cup {NoObject}, size : Nat,
                                      user : Users \cup {Root}]
  BY DEF NoRequest, Kinds

LEMMA SizeSet ==
    ASSUME NEW r \in [kind : Kinds, obj : Objects \cup {NoObject}, size : Nat,
                      user : Users \cup {Root}], NEW n \in Nat
    PROVE  [r EXCEPT !.size = n] \in [kind : Kinds, obj : Objects \cup {NoObject}, size : Nat,
                                      user : Users \cup {Root}]
  OBVIOUS

LEMMA StatSet ==
    ASSUME NEW f \in [Buckets -> [owner : Users \cup {Root, NoOne}, entries : Int, size : Int]],
           NEW b \in Buckets, NEW who \in Users \cup {Root, NoOne}, NEW m \in Int, NEW n \in Int
    PROVE  [f EXCEPT ![b] = [owner |-> who, entries |-> m, size |-> n]]
               \in [Buckets -> [owner : Users \cup {Root, NoOne}, entries : Int, size : Int]]
  <1>1. [owner |-> who, entries |-> m, size |-> n]
            \in [owner : Users \cup {Root, NoOne}, entries : Int, size : Int]
    OBVIOUS
  <1> QED
    BY <1>1

LEMMA AtoiInt == \A n \in Int : Atoi(n) \in Int
  <1> SUFFICES ASSUME NEW n \in Int PROVE Atoi(n) \in Int
    OBVIOUS
  <1>1. IntMod \in Nat /\ IntMod > 0
    BY ObjectOpsAssumption
  <1>2. IntMod \div 2 \in Int
    BY <1>1
  <1>3. (n + IntMod \div 2) % IntMod \in Int
    BY <1>1, <1>2
  <1> QED
    BY <1>2, <1>3 DEF Atoi

LEMMA NextCases ==
    ASSUME Next
    PROVE  \/ Crash
           \/ \E w \in Workers, u \in Users \cup {Root}, o \in Objects :
                 \/ \E kind \in {"put", "part"} : \/ PutRefused(w, u, kind, o)
                                                  \/ PutOpen(w, u, kind, o)
                                                  \/ PutOpenFails(w, u, kind, o)
                 \/ DeleteStat(w, u, o)
                 \/ \E p \in Objects : CopyObj(w, u, o, p)
           \/ \E w \in Workers : Continue(w)
  BY DEF Next, Begin

-----------------------------------------------------------------------------
(* Types and identities.                                                   *)

LEMMA InitPriv == Init => PrivInv
  BY NoRequestType, ObjectOpsAssumption
     DEF Init, PrivInv, TypeOK, PrivsRestored, NoStat, Zero, Absent, WorkerStates, Idle

\* A request that starts changes what one worker remembers.
LEMMA NewRequestType ==
    ASSUME TypeOK, NEW w \in Workers, NEW u \in Users \cup {Root}, NEW o \in Objects,
           NEW kind \in Kinds, NEW n \in Nat, NewRequest(w, u, kind, o, n)
    PROVE  /\ req' \in [Workers -> [kind : Kinds, obj : Objects \cup {NoObject}, size : Nat,
                                   user : Users \cup {Root}]]
           /\ \A v \in Workers \ {w} : req'[v] = req[v]
           /\ req'[w].obj = o /\ req'[w].user = u
  <1>1. [kind |-> kind, obj |-> o, size |-> n, user |-> u]
            \in [kind : Kinds, obj : Objects \cup {NoObject}, size : Nat, user : Users \cup {Root}]
    BY SMT, Z3
  <1>2. req \in [Workers -> [kind : Kinds, obj : Objects \cup {NoObject}, size : Nat,
                             user : Users \cup {Root}]]
    BY Zenon DEF TypeOK
  <1> QED
    BY Zenon, <1>1, <1>2 DEF NewRequest

\* A request that is made is remembered, whichever way it begins.
LEMMA RequestMade ==
    ASSUME TypeOK, NEW w \in Workers, NEW u \in Users \cup {Root}, NEW o \in Objects,
           \/ \E kind \in {"put", "part"} : \/ PutRefused(w, u, kind, o)
                                           \/ PutOpen(w, u, kind, o)
                                           \/ PutOpenFails(w, u, kind, o)
           \/ DeleteStat(w, u, o)
    PROVE  /\ req' \in [Workers -> [kind : Kinds, obj : Objects \cup {NoObject}, size : Nat,
                                   user : Users \cup {Root}]]
           /\ \A v \in Workers \ {w} : req'[v] = req[v]
           /\ req'[w].obj = o /\ req'[w].user = u
  <1>1. \E kind \in Kinds, n \in Nat : NewRequest(w, u, kind, o, n)
    <2>1. 0 \in Nat /\ (IF file[o] = Absent THEN 0 ELSE file[o]) \in Nat
      BY DEF TypeOK, Absent
    <2>2. {"put", "part", "delete"} \subseteq Kinds
      BY Zenon DEF Kinds
    <2>3. CASE DeleteStat(w, u, o)
      BY Zenon, <2>1, <2>2, <2>3 DEF DeleteStat
    <2>4. CASE \E kind \in {"put", "part"} : \/ PutRefused(w, u, kind, o)
                                           \/ PutOpen(w, u, kind, o)
                                           \/ PutOpenFails(w, u, kind, o)
      BY Zenon, <2>1, <2>2, <2>4 DEF PutRefused, PutOpen, PutOpenFails
    <2> QED
      BY Zenon, <2>3, <2>4
  <1>2. PICK kind \in Kinds, n \in Nat : NewRequest(w, u, kind, o, n)
    BY Zenon, <1>1
  <1> QED
    BY Zenon, <1>2, NewRequestType

LEMMA CalmType ==
    ASSUME NEW w \in Workers, NEW S, NEW P \in BOOLEAN
    PROVE  /\ Disturbed(w, S) \in [Workers -> BOOLEAN]
           /\ [Disturbed(w, S) EXCEPT ![w] = P] \in [Workers -> BOOLEAN]
  BY Zenon DEF Disturbed

LEMMA BeginPriv ==
    ASSUME PrivInv, NEW w \in Workers, NEW u \in Users \cup {Root}, NEW o \in Objects
    PROVE  /\ \A kind \in {"put", "part"} :
                 \/ PutRefused(w, u, kind, o) \/ PutOpen(w, u, kind, o)
                 \/ PutOpenFails(w, u, kind, o)
                 => PrivInv'
           /\ DeleteStat(w, u, o) => PrivInv'
           /\ \A p \in Objects : CopyObj(w, u, o, p) => PrivInv'
  <1>t. TypeOK
    BY Zenon DEF PrivInv
  <1>r. \/ \E kind \in {"put", "part"} : \/ PutRefused(w, u, kind, o)
                                        \/ PutOpen(w, u, kind, o)
                                        \/ PutOpenFails(w, u, kind, o)
        \/ DeleteStat(w, u, o)
        => /\ req' \in [Workers -> [kind : Kinds, obj : Objects \cup {NoObject}, size : Nat,
                                    user : Users \cup {Root}]]
           /\ \A v \in Workers \ {w} : req'[v] = req[v]
           /\ req'[w].obj = o /\ req'[w].user = u
    BY Zenon, <1>t, RequestMade
  <1> USE DEF PrivInv, TypeOK, PrivsRestored, WorkerStates, Idle
  <1>1. 0 \in 0 .. MaxBlocks /\ 0 \in Nat
    BY ObjectOpsAssumption
  <1>2. ASSUME NEW kind \in {"put", "part"}, PutRefused(w, u, kind, o) PROVE PrivInv'
    <2>1. /\ req' \in [Workers -> [kind : Kinds, obj : Objects \cup {NoObject}, size : Nat,
                                   user : Users \cup {Root}]]
          /\ \A v \in Workers \ {w} : req'[v] = req[v]
          /\ req'[w].obj = o
      BY Zenon, <1>r, <1>2
    <2>2. calm' \in [Workers -> BOOLEAN]
      BY Zenon, <1>2, CalmType DEF PutRefused
    <2> QED
      BY Zenon, <1>2, <2>1, <2>2 DEF PutRefused
  <1>3. ASSUME NEW kind \in {"put", "part"}, PutOpen(w, u, kind, o) PROVE PrivInv'
    <2>1. fsuid[w] = Root
      BY Zenon, <1>3 DEF PutOpen, PutRequested, Requested
    <2>2. /\ req' \in [Workers -> [kind : Kinds, obj : Objects \cup {NoObject}, size : Nat,
                                   user : Users \cup {Root}]]
          /\ \A v \in Workers \ {w} : req'[v] = req[v]
          /\ req'[w].obj = o /\ req'[w].user = u
      BY Zenon, <1>r, <1>3
    <2>3. calm' \in [Workers -> BOOLEAN]
      BY Zenon, <1>3, CalmType DEF PutOpen
    <2> QED
      BY Zenon, <1>1, <1>3, <2>1, <2>2, <2>3 DEF PutOpen, DropPrivs
  <1>4. ASSUME NEW kind \in {"put", "part"}, PutOpenFails(w, u, kind, o) PROVE PrivInv'
    <2>1. fsuid[w] = Root
      BY Zenon, <1>4 DEF PutOpenFails, PutRequested, Requested
    <2>2. /\ req' \in [Workers -> [kind : Kinds, obj : Objects \cup {NoObject}, size : Nat,
                                   user : Users \cup {Root}]]
          /\ \A v \in Workers \ {w} : req'[v] = req[v]
          /\ req'[w].obj = o /\ req'[w].user = u
      BY Zenon, <1>r, <1>4
    <2>3. calm' \in [Workers -> BOOLEAN]
      BY Zenon, <1>4, CalmType DEF PutOpenFails
    <2> QED
      BY Zenon, <1>4, <2>1, <2>2, <2>3 DEF PutOpenFails, DropPrivs
  <1>5. ASSUME DeleteStat(w, u, o) PROVE PrivInv'
    <2>1. fsuid[w] = Root
      BY Zenon, <1>5 DEF DeleteStat, DeleteRequested, Requested
    <2>3. /\ req' \in [Workers -> [kind : Kinds, obj : Objects \cup {NoObject}, size : Nat,
                                   user : Users \cup {Root}]]
          /\ \A v \in Workers \ {w} : req'[v] = req[v]
          /\ req'[w].obj = o /\ req'[w].user = u
      BY Zenon, <1>r, <1>5
    <2>4. calm' \in [Workers -> BOOLEAN]
      BY Zenon, <1>5, CalmType DEF DeleteStat
    <2> QED
      BY Zenon, <1>5, <2>1, <2>3, <2>4 DEF DeleteStat, DropPrivs
  <1>6. ASSUME NEW p \in Objects, CopyObj(w, u, o, p) PROVE PrivInv'
    <2>1. calm' \in [Workers -> BOOLEAN]
      BY Zenon, <1>6, CalmType DEF CopyObj
    <2>2. file' \in [Objects -> Nat \cup {Absent}]
      BY Zenon, <1>6 DEF CopyObj
    <2>3. fd' \in [Workers -> Objects \cup {NoObject}]
      <3>1. fd' \in {fd, Relink(Relink(fd, p, NoObject), o, p)}
        BY Zenon, <1>6 DEF CopyObj
      <3> QED
        BY Zenon, <3>1 DEF Relink
    <2> QED
      BY Zenon, <1>6, <2>1, <2>2, <2>3 DEF CopyObj
  <1> QED
    BY Zenon, <1>2, <1>3, <1>4, <1>5, <1>6

LEMMA ContinuePriv ==
    ASSUME PrivInv, NEW w \in Workers, Continue(w)
    PROVE  PrivInv'
  <1> USE DEF PrivInv, TypeOK, PrivsRestored, WorkerStates, Kinds, Idle
  <1>1. MaxBlocks \in Nat
    BY Zenon, ObjectOpsAssumption
  <1>2. CASE PutData(w)
    <2>1. ASSUME NEW o \in Objects
          PROVE  Max({file[o], ofs[w] + 1}) \in Nat \cup {Absent}
      <3>1. file[o] \in Int /\ ofs[w] + 1 \in Int /\ ofs[w] + 1 \in Nat
        BY <1>1 DEF Absent
      <3> HIDE DEF PrivInv, TypeOK
      <3>2. Max({file[o], ofs[w] + 1}) >= ofs[w] + 1
        BY Zenon, <3>1, MaxIsOne
      <3>3. Max({file[o], ofs[w] + 1}) \in {file[o], ofs[w] + 1}
        BY Zenon, <3>1, MaxIsOne
      <3> QED
        BY <3>1, <3>2, <3>3
    <2>2. \A o \in Objects : file[o] + 1 \in Nat
      BY SMT, Z3 DEF Absent
    <2>3. file' \in [Objects -> Nat \cup {Absent}]
      BY Zenon, <1>2, <2>1, <2>2 DEF PutData
    <2>4. ofs' \in [Workers -> 0 .. MaxBlocks]
      <3>1. ofs[w] + 1 \in 0 .. MaxBlocks
        BY SMT, Z3, <1>1, <1>2 DEF PutData
      <3> QED
        BY Zenon, <1>2, <3>1 DEF PutData
    <2> QED
      BY Zenon, <1>2, <2>3, <2>4 DEF PutData
  <1>3. CASE PutDataFails(w)
    BY Zenon, <1>3 DEF PutDataFails
  <1>4. CASE PutEnd(w)
    <2>1. ofs[w] \in Nat
      BY <1>1
    <2>2. req' \in [Workers -> [kind : Kinds, obj : Objects \cup {NoObject}, size : Nat,
                                user : Users \cup {Root}]]
      <3>1. [req[w] EXCEPT !.size = ofs[w]] \in [kind : Kinds, obj : Objects \cup {NoObject}, size : Nat,
                                                 user : Users \cup {Root}]
        BY <2>1, SizeSet
      <3>2. req' = [req EXCEPT ![w] = [req[w] EXCEPT !.size = ofs[w]]]
        BY Zenon, <1>4 DEF PutEnd
      <3> QED
        BY Zenon, <3>1, <3>2
    <2>3. ret' \in [Workers -> {"ok", "error"}]
      BY Zenon, <1>4 DEF PutEnd
    <2> QED
      BY SMT, Z3, <1>4, <2>2, <2>3 DEF PutEnd
  <1>5. CASE DeleteRm(w)
    <2>1. file' \in [Objects -> Nat \cup {Absent}] /\ fd' \in [Workers -> Objects \cup {NoObject}]
      BY SMT, Z3, <1>5 DEF DeleteRm, Relink
    <2> QED
      BY Zenon, <1>5, <2>1 DEF DeleteRm
  <1>6. CASE StatParse(w)
    <2>1. EntriesDelta(w) \in Int /\ SizeDelta(w) \in Int
      BY DEF EntriesDelta, SizeDelta
    <2>2. \A old \in {stat[req[w].obj[1]]} \cup (IF Happens("open") THEN {Zero} ELSE {}) :
              old.entries \in Int /\ old.size \in Int
      <3>1. req[w].obj[1] \in Buckets
        BY Zenon, <1>6 DEF StatParse, Objects
      <3> QED
        BY SMT, Z3, <3>1 DEF Zero
    <2> QED
      BY SMT, Z3, <1>6, <2>1, <2>2, AtoiInt DEF StatParse
  <1>7. CASE StatOpen(w)
    <2>1. req[w].obj[1] \in Buckets
      BY Zenon, <1>7 DEF StatOpen, Objects
    <2>2. PICK who \in Users \cup {Root, NoOne} :
              stat' = [stat EXCEPT ![req[w].obj[1]] = [owner |-> who, entries |-> 0, size |-> 0]]
      BY Zenon, <1>7, <2>1 DEF StatOpen
    <2>3. stat' \in [Buckets -> [owner : Users \cup {Root, NoOne}, entries : Int, size : Int]]
      BY SMTT(30), Z3T(30), <2>1, <2>2, StatSet
    <2> QED
      BY Zenon, <1>7, <2>3 DEF StatOpen
  <1>8. CASE StatOpenFails(w)
    BY Zenon, <1>8 DEF StatOpenFails
  <1>9. CASE StatWrite(w)
    BY Zenon, <1>9 DEF StatWrite, Objects
  <1>10. CASE RestorePrivs(w)
    BY SMT, Z3, <1>1, <1>10, NoRequestType DEF RestorePrivs, Zero
  <1> QED
    BY Zenon, <1>2, <1>3, <1>4, <1>5, <1>6, <1>7, <1>8, <1>9, <1>10 DEF Continue

LEMMA PrivStep == PrivInv /\ [Next]_vars => PrivInv'
  <1> SUFFICES ASSUME PrivInv, [Next]_vars PROVE PrivInv'
    OBVIOUS
  <1>1. CASE Crash
    BY SMT, Z3, <1>1, NoRequestType, ObjectOpsAssumption
       DEF Crash, PrivInv, TypeOK, PrivsRestored, WorkerStates, Idle, Zero
  <1>2. ASSUME NEW w \in Workers, Continue(w) PROVE PrivInv'
    BY <1>2, ContinuePriv
  <1>3. CASE UNCHANGED vars
    BY Zenon, <1>3 DEF vars, workerVars, PrivInv, TypeOK, PrivsRestored, Idle
  <1> QED
    BY <1>1, <1>2, <1>3, NextCases, BeginPriv

\* The files, the stat files and what a worker remembers keep their types; the
\* identity that restore_privs() goes back to is always root.
THEOREM TypeCorrect == Spec => []TypeOK
  BY InitPriv, PrivStep, PTL DEF Spec, PrivInv

\* Whatever path PUT, DELETE or COPY takes, errors and crashes included, the
\* thread is root again when it is free; in between it acts as the request's own
\* user, which is root for an anonymous client, except that a PUT refused before
\* drop_privs() updates the stat file as root.
THEOREM IdentityRestored == Spec => []PrivsRestored
  BY InitPriv, PrivStep, PTL DEF Spec, PrivInv

-----------------------------------------------------------------------------
(* Uploads that no other request for their object overlaps.                *)

\* Worker w starts a PUT, a part or a DELETE of object o for user u.
Starts(w, u, o) ==
    \/ \E kind \in {"put", "part"} : \/ PutRefused(w, u, kind, o)
                                     \/ PutOpen(w, u, kind, o)
                                     \/ PutOpenFails(w, u, kind, o)
    \/ DeleteStat(w, u, o)

\* A request that starts leaves the others and the other files as they are.
StartsLocal(w, o) ==
    /\ \A v \in Workers \ {w} : /\ pc'[v] = pc[v] /\ req'[v] = req[v] /\ ofs'[v] = ofs[v]
                                /\ ret'[v] = ret[v] /\ fd'[v] = fd[v]
    /\ req'[w].obj = o
    /\ fd'[w] \in {fd[w], o}
    /\ \A q \in Objects \ {o} : file'[q] = file[q]

LEMMA BeginLocal ==
    ASSUME TypeOK, NEW w \in Workers, NEW u \in Users \cup {Root}, NEW o \in Objects, Starts(w, u, o)
    PROVE  StartsLocal(w, o)
  <1>1. PICK kind, size : req' = [req EXCEPT ![w] = [kind |-> kind, obj |-> o, size |-> size, user |-> u]]
    BY Zenon DEF Starts, PutRefused, PutOpen, PutOpenFails, DeleteStat, NewRequest
  <1>2. /\ \A v \in Workers \ {w} : /\ pc'[v] = pc[v] /\ ofs'[v] = ofs[v]
                                    /\ ret'[v] = ret[v] /\ fd'[v] = fd[v]
        /\ fd'[w] \in {fd[w], o}
    <2>1. CASE \E knd \in {"put", "part"} : PutRefused(w, u, knd, o)
      BY Zenon, <2>1 DEF PutRefused, TypeOK
    <2>2. CASE \E knd \in {"put", "part"} : PutOpen(w, u, knd, o)
      BY Zenon, <2>2 DEF PutOpen, TypeOK
    <2>3. CASE \E knd \in {"put", "part"} : PutOpenFails(w, u, knd, o)
      BY Zenon, <2>3 DEF PutOpenFails, TypeOK
    <2>4. CASE DeleteStat(w, u, o)
      BY Zenon, <2>4 DEF DeleteStat, TypeOK
    <2> QED
      BY Zenon, <2>1, <2>2, <2>3, <2>4 DEF Starts
  <1>3. \A v \in Workers \ {w} : req'[v] = req[v]
    BY Zenon, <1>1 DEF TypeOK
  <1>4. req'[w].obj = o
    BY Zenon, <1>1 DEF TypeOK
  <1>5. \A q \in Objects \ {o} : file'[q] = file[q]
    BY Zenon DEF Starts, PutRefused, PutOpen, PutOpenFails, DeleteStat, TypeOK
  <1> QED
    BY Zenon, <1>2, <1>3, <1>4, <1>5 DEF StartsLocal

\* A calm worker executes a PUT.
CalmOf(w) == calm[w] => /\ ~Idle(w) /\ Alone(w, req[w].obj) /\ BlocksStored(w)
                        /\ req[w].kind = "put" /\ pc[w] # "rm"

UploadInv == \A w \in Workers : CalmOf(w)

\* The upload of v stays calm through a step of another worker that leaves its file alone.
LEMMA CalmStays ==
    ASSUME NEW v \in Workers, CalmOf(v), calm[v],
           pc'[v] = pc[v], req'[v] = req[v], ofs'[v] = ofs[v], ret'[v] = ret[v],
           pc[v] = "write" => fd'[v] = fd[v],
           file'[req[v].obj] = file[req[v].obj],
           \A x \in Workers \ {v} : req[v].obj \notin {req'[x].obj, fd'[x]}
    PROVE  CalmOf(v)'
  <1>1. /\ ~Idle(v) /\ BlocksStored(v) /\ req[v].kind = "put" /\ pc[v] # "rm"
    BY Zenon DEF CalmOf
  <1>2. ~Idle(v)' /\ req'[v].kind = "put" /\ pc'[v] # "rm"
    BY Zenon, <1>1 DEF Idle
  <1>3. BlocksStored(v)'
    BY Zenon, <1>1 DEF BlocksStored
  <1>4. Alone(v, req[v].obj)'
    BY Zenon DEF Alone
  <1> QED
    BY Zenon, <1>2, <1>3, <1>4 DEF CalmOf

LEMMA BeginCalm ==
    ASSUME TypeOK, UploadInv,
           NEW w \in Workers, NEW u \in Users \cup {Root}, NEW o \in Objects, Starts(w, u, o)
    PROVE  UploadInv'
  <1>1. /\ \A v \in Workers \ {w} : /\ pc'[v] = pc[v] /\ req'[v] = req[v] /\ ofs'[v] = ofs[v]
                                    /\ ret'[v] = ret[v] /\ fd'[v] = fd[v]
        /\ req'[w].obj = o
        /\ fd'[w] \in {fd[w], o}
        /\ \A q \in Objects \ {o} : file'[q] = file[q]
    <2>1. StartsLocal(w, o)
      BY Zenon, BeginLocal
    <2> QED
      BY Zenon, <2>1 DEF StartsLocal
  <1>2. \A v \in Workers \ {w} : calm'[v] => calm[v] /\ req[v].obj # o
    BY Zenon DEF Starts, PutRefused, PutOpen, PutOpenFails, DeleteStat, Disturbed
  <1>3. ASSUME NEW v \in Workers \ {w}, calm'[v] PROVE CalmOf(v)'
    <2>1. calm[v] /\ req[v].obj # o /\ CalmOf(v)
      BY Zenon, <1>2, <1>3 DEF UploadInv
    <2>2. req[v].obj \in Objects /\ Alone(v, req[v].obj)
      BY Zenon, <2>1 DEF CalmOf, TypeOK
    <2>3. \A x \in Workers \ {v} : req[v].obj \notin {req'[x].obj, fd'[x]}
      BY Zenon, <1>1, <2>1, <2>2 DEF Alone
    <2>4. file'[req[v].obj] = file[req[v].obj]
      BY Zenon, <1>1, <2>1, <2>2
    <2> QED
      BY Zenon, <1>1, <2>1, <2>3, <2>4, CalmStays
  <1>4. ASSUME calm'[w] PROVE CalmOf(w)'
    <2>1. PICK kind \in {"put", "part"} : PutOpen(w, u, kind, o)
      BY Zenon, <1>4 DEF Starts, PutRefused, PutOpenFails, DeleteStat, Disturbed
    <2>2. kind = "put" /\ Alone(w, o)
      BY Zenon, <1>4, <2>1 DEF PutOpen, Disturbed
    <2>3. /\ pc'[w] = "write" /\ fd'[w] = o /\ req'[w].kind = "put" /\ ofs'[w] = 0 /\ file'[o] = 0
      BY Zenon, <2>1, <2>2 DEF PutOpen, NewRequest, TypeOK
    <2>4. Alone(w, req[w].obj)'
      BY Zenon, <1>1, <2>2 DEF Alone
    <2>5. BlocksStored(w)'
      BY Zenon, <1>1, <2>3 DEF BlocksStored
    <2> QED
      BY Zenon, <2>3, <2>4, <2>5 DEF CalmOf, Idle
  <1> QED
    BY Zenon, <1>3, <1>4 DEF UploadInv, CalmOf

LEMMA CopyCalm ==
    ASSUME TypeOK, UploadInv, NEW w \in Workers, NEW u \in Users \cup {Root},
           NEW o \in Objects, NEW p \in Objects, CopyObj(w, u, o, p)
    PROVE  UploadInv'
  <1> SUFFICES ASSUME NEW v \in Workers, calm'[v] PROVE CalmOf(v)'
    BY Zenon DEF UploadInv, CalmOf
  <1>1. calm[v] /\ req[v].obj \notin {o, p} /\ CalmOf(v)
    BY Zenon DEF CopyObj, Disturbed, UploadInv
  <1>2. req[v].obj \in Objects /\ Alone(v, req[v].obj) /\ req[v].obj # NoObject
    BY Zenon, <1>1, NoObjectOutside DEF CalmOf, TypeOK
  <1>3. UNCHANGED <<pc, req, ofs, ret>>
    BY Zenon DEF CopyObj
  <1>4. file'[req[v].obj] = file[req[v].obj]
    BY Zenon, <1>1, <1>2 DEF CopyObj, TypeOK
  <1>5. \A x \in Workers : /\ fd'[x] \in {fd[x], p, NoObject}
                           /\ fd[x] \notin {o, p} => fd'[x] = fd[x]
    <2>1. fd' \in {fd, Relink(Relink(fd, p, NoObject), o, p)}
      BY Zenon DEF CopyObj
    <2> QED
      BY Zenon, <2>1 DEF Relink
  <1>6. pc[v] = "write" => fd'[v] = fd[v]
    BY Zenon, <1>1, <1>5 DEF CalmOf, BlocksStored
  <1>7. \A x \in Workers \ {v} : req[v].obj \notin {req'[x].obj, fd'[x]}
    BY Zenon, <1>1, <1>2, <1>3, <1>5 DEF Alone
  <1> QED
    BY Zenon, <1>1, <1>3, <1>4, <1>6, <1>7, CalmStays

\* A step of an operation in progress touches no file but the one it has open, or
\* the one that it deletes.
LEMMA ContinueLocal ==
    ASSUME TypeOK, NEW w \in Workers, Continue(w)
    PROVE  /\ \A v \in Workers \ {w} : /\ pc'[v] = pc[v] /\ req'[v] = req[v]
                                       /\ ofs'[v] = ofs[v] /\ ret'[v] = ret[v]
           /\ \A v \in Workers : /\ calm'[v] => calm[v]
                                 /\ fd'[v] \in {fd[v], NoObject}
                                 /\ v # w /\ fd[v] # req[w].obj => fd'[v] = fd[v]
           /\ req'[w].obj \in {req[w].obj, NoObject}
           /\ \A q \in Objects : q # req[w].obj /\ q # fd[w] => file'[q] = file[q]
  <1> USE DEF TypeOK
  <1>1. CASE PutData(w)
    BY Zenon, <1>1 DEF PutData
  <1>2. CASE PutDataFails(w)
    BY Zenon, <1>2 DEF PutDataFails
  <1>3. CASE PutEnd(w)
    <2>1. req' = [req EXCEPT ![w] = [req[w] EXCEPT !.size = ofs[w]]]
      BY Zenon, <1>3 DEF PutEnd
    <2>2. req'[w].obj = req[w].obj
      BY SMT, Z3, <2>1
    <2> QED
      BY Zenon, <1>3, <2>1, <2>2 DEF PutEnd
  <1>4. CASE DeleteRm(w)
    BY Zenon, <1>4 DEF DeleteRm, Relink
  <1>5. CASE StatParse(w) \/ StatOpenFails(w)
    BY Zenon, <1>5 DEF StatParse, StatOpenFails
  <1>6. CASE StatOpen(w) \/ StatWrite(w)
    BY Zenon, <1>6 DEF StatOpen, StatWrite
  <1>7. CASE RestorePrivs(w)
    BY Zenon, <1>7 DEF RestorePrivs, NoRequest
  <1> QED
    BY Zenon, <1>1, <1>2, <1>3, <1>4, <1>5, <1>6, <1>7 DEF Continue

\* The step of a calm upload itself.
LEMMA OwnCalm ==
    ASSUME TypeOK, UploadInv, NEW w \in Workers, Continue(w), calm'[w]
    PROVE  CalmOf(w)'
  <1>1. calm[w] /\ CalmOf(w)
    BY Zenon, ContinueLocal DEF UploadInv
  <1>2. /\ pc[w] # "idle" /\ pc[w] # "rm" /\ req[w].kind = "put" /\ req[w].obj \in Objects
        /\ Alone(w, req[w].obj) /\ BlocksStored(w)
    BY Zenon, <1>1 DEF CalmOf, Idle, TypeOK
  <1>3. ASSUME req'[w].obj = req[w].obj PROVE Alone(w, req[w].obj)'
    <2>1. \A v \in Workers \ {w} : req'[v] = req[v] /\ fd'[v] \in {fd[v], NoObject}
      BY Zenon, ContinueLocal
    <2> QED
      BY Zenon, <1>2, <1>3, <2>1, NoObjectOutside DEF Alone
  <1>4. CASE PutData(w)
    <2>1. pc[w] = "write" /\ fd[w] = req[w].obj /\ file[req[w].obj] = ofs[w]
      BY Zenon, <1>2, <1>4 DEF PutData, BlocksStored
    <2>2. ofs[w] \in Int /\ ofs[w] + 1 \in Int
      BY SMT, Z3, ObjectOpsAssumption DEF TypeOK
    <2>3. /\ Max({ofs[w], ofs[w] + 1}) \in {ofs[w], ofs[w] + 1}
          /\ Max({ofs[w], ofs[w] + 1}) >= ofs[w] + 1
      BY Zenon, <2>2, MaxIsOne
    <2>4. Max({ofs[w], ofs[w] + 1}) = ofs[w] + 1
      BY SMT, Z3, <2>2, <2>3
    <2>5. fd[w] # NoObject
      BY Zenon, <1>2, <2>1, NoObjectOutside
    <2>6. file'[req[w].obj] = ofs[w] + 1 /\ ofs'[w] = ofs[w] + 1 /\ UNCHANGED <<pc, req, fd, ret>>
      BY Zenon, <1>2, <1>4, <2>1, <2>4, <2>5 DEF PutData, TypeOK
    <2>7. BlocksStored(w)'
      BY Zenon, <2>1, <2>6 DEF BlocksStored
    <2> QED
      BY Zenon, <1>2, <1>3, <2>6, <2>7 DEF CalmOf, Idle
  <1>5. CASE PutDataFails(w)
    <2>1. ret'[w] = "error" /\ pc'[w] = "parse" /\ UNCHANGED req
      BY Zenon, <1>5 DEF PutDataFails, TypeOK
    <2>2. BlocksStored(w)'
      BY Zenon, <2>1 DEF BlocksStored
    <2> QED
      BY Zenon, <1>2, <1>3, <2>1, <2>2 DEF CalmOf, Idle
  <1>6. CASE PutEnd(w)
    <2>1. file[req[w].obj] = ofs[w]
      BY Zenon, <1>2, <1>6 DEF PutEnd, BlocksStored
    <2>2. req' = [req EXCEPT ![w] = [req[w] EXCEPT !.size = ofs[w]]]
      BY Zenon, <1>6 DEF PutEnd
    <2>3. req'[w].obj = req[w].obj /\ req'[w].kind = req[w].kind /\ req'[w].size = ofs[w]
      BY SMT, Z3, <2>2 DEF TypeOK
    <2>4. pc'[w] = "parse" /\ UNCHANGED file
      BY Zenon, <1>6 DEF PutEnd, TypeOK
    <2>5. BlocksStored(w)'
      BY Zenon, <2>1, <2>3, <2>4 DEF BlocksStored
    <2> QED
      BY Zenon, <1>2, <1>3, <2>3, <2>4, <2>5 DEF CalmOf, Idle
  <1>7. CASE StatParse(w) \/ StatOpen(w) \/ StatOpenFails(w) \/ StatWrite(w)
    <2>1. /\ pc[w] \in {"parse", "sync", "fputs"} /\ pc'[w] \in {"sync", "fputs", "restore"}
          /\ UNCHANGED <<file, req, ret>>
      BY Zenon, <1>7 DEF StatParse, StatOpen, StatOpenFails, StatWrite, TypeOK
    <2>2. BlocksStored(w)'
      BY Zenon, <1>2, <2>1 DEF BlocksStored
    <2> QED
      BY Zenon, <1>2, <1>3, <2>1, <2>2 DEF CalmOf, Idle
  <1>8. ~DeleteRm(w) /\ ~RestorePrivs(w)
    BY Zenon, <1>2 DEF DeleteRm, RestorePrivs, TypeOK
  <1> QED
    BY Zenon, <1>4, <1>5, <1>6, <1>7, <1>8 DEF Continue

LEMMA ContinueCalm ==
    ASSUME TypeOK, UploadInv, NEW w \in Workers, Continue(w)
    PROVE  UploadInv'
  <1>1. ASSUME NEW v \in Workers \ {w}, calm'[v] PROVE CalmOf(v)'
    <2>1. calm[v] /\ CalmOf(v)
      BY Zenon, <1>1, ContinueLocal DEF UploadInv
    <2>2. req[v].obj \in Objects /\ Alone(v, req[v].obj) /\ req[v].obj # NoObject
      BY Zenon, <2>1, NoObjectOutside DEF CalmOf, TypeOK
    <2>3. req[v].obj # req[w].obj /\ req[v].obj # fd[w]
      BY Zenon, <2>2 DEF Alone
    <2>4. file'[req[v].obj] = file[req[v].obj]
      <3>1. \A q \in Objects : q # req[w].obj /\ q # fd[w] => file'[q] = file[q]
        BY Zenon, ContinueLocal
      <3> QED
        BY Zenon, <2>2, <2>3, <3>1
    <2>5. pc[v] = "write" => fd'[v] = fd[v]
      BY Zenon, <2>1, <2>3, ContinueLocal DEF CalmOf, BlocksStored
    <2>6. \A x \in Workers \ {v} : req[v].obj \notin {req'[x].obj, fd'[x]}
      <3>1. ASSUME NEW x \in Workers \ {v}
            PROVE  req'[x].obj \in {req[x].obj, NoObject} /\ fd'[x] \in {fd[x], NoObject}
        <4>1. fd'[x] \in {fd[x], NoObject}
          BY Zenon, ContinueLocal
        <4>2. CASE x = w
          BY Zenon, <4>1, <4>2, ContinueLocal
        <4>3. CASE x # w
          BY Zenon, <4>1, <4>3, ContinueLocal
        <4> QED
          BY Zenon, <4>2, <4>3
      <3> QED
        BY Zenon, <2>2, <3>1 DEF Alone
    <2>7. pc'[v] = pc[v] /\ req'[v] = req[v] /\ ofs'[v] = ofs[v] /\ ret'[v] = ret[v]
      BY Zenon, ContinueLocal
    <2> QED
      BY Zenon, <2>1, <2>4, <2>5, <2>6, <2>7, CalmStays
  <1> QED
    BY Zenon, <1>1, OwnCalm DEF UploadInv, CalmOf

LEMMA UploadStep ==
    ASSUME TypeOK, UploadInv, [Next]_vars
    PROVE  UploadInv'
  <1>1. CASE Crash
    BY Zenon, <1>1 DEF Crash, UploadInv, CalmOf
  <1>2. ASSUME NEW w \in Workers, Continue(w) PROVE UploadInv'
    BY Zenon, <1>2, ContinueCalm
  <1>3. CASE UNCHANGED vars
    BY Zenon, <1>3 DEF vars, workerVars, UploadInv, CalmOf, Alone, BlocksStored, Idle
  <1> QED
    BY Zenon, <1>1, <1>2, <1>3, NextCases, BeginCalm, CopyCalm DEF Starts

LEMMA UploadsCalm == Spec => []UploadInv
  <1>1. Init => UploadInv
    BY Zenon DEF Init, UploadInv, CalmOf
  <1>2. TypeOK /\ UploadInv /\ [Next]_vars => UploadInv'
    BY Zenon, UploadStep
  <1> QED
    BY <1>1, <1>2, TypeCorrect, PTL DEF Spec

\* An upload that no other request for its object overlaps has the file to itself
\* from open() to the response, whatever happens to other objects, and every block
\* is where it belongs.
THEOREM UploadsUndisturbed == Spec => []UploadUndisturbed
  <1>1. UploadInv => UploadUndisturbed
    BY Zenon DEF UploadInv, CalmOf, UploadUndisturbed
  <1> QED
    BY <1>1, UploadsCalm, PTL

\* And when its open() and write() succeed and the client is told that it has
\* succeeded, its whole body is stored at that moment.
THEOREM AnsweredAreStored == Spec => AnsweredIsStored
  <1>1. TypeOK /\ UploadUndisturbed /\ [Next]_vars =>
            [\A w \in Workers :
               /\ pc[w] = "restore" /\ pc'[w] = "idle" /\ req[w].kind = "put"
               /\ calm[w] /\ ret[w] = "ok"
               => file'[req[w].obj] = req[w].size]_vars
    <2> SUFFICES ASSUME TypeOK, UploadUndisturbed, Next, NEW w \in Workers,
                        pc[w] = "restore", pc'[w] = "idle", calm[w], ret[w] = "ok"
                 PROVE  file'[req[w].obj] = req[w].size
      BY Zenon DEF vars
    <2>1. file[req[w].obj] = req[w].size
      BY Zenon DEF UploadUndisturbed, BlocksStored
    <2>2. UNCHANGED file
      <3>1. ASSUME NEW v \in Workers, NEW u \in Users \cup {Root}, NEW o \in Objects,
                   NEW kind \in {"put", "part"},
                   \/ PutRefused(v, u, kind, o) \/ PutOpen(v, u, kind, o)
                   \/ PutOpenFails(v, u, kind, o) \/ DeleteStat(v, u, o)
            PROVE  UNCHANGED file
        <4>1. CASE PutOpen(v, u, kind, o)
          <5>1. pc' = [pc EXCEPT ![v] = "write"]
            BY Zenon, <4>1 DEF PutOpen
          <5> QED
            BY Zenon, <5>1 DEF TypeOK
        <4> QED
          BY Zenon, <3>1, <4>1 DEF PutRefused, PutOpenFails, DeleteStat
      <3>2. ASSUME NEW v \in Workers, NEW u \in Users \cup {Root}, NEW o \in Objects, NEW p \in Objects,
                   CopyObj(v, u, o, p)
            PROVE  UNCHANGED file
        BY Zenon, <3>2 DEF CopyObj
      <3>3. ASSUME NEW v \in Workers, Continue(v) PROVE UNCHANGED file
        <4>1. CASE PutData(v)
          BY Zenon, <4>1 DEF PutData
        <4>2. CASE DeleteRm(v)
          BY Zenon, <4>2 DEF DeleteRm, TypeOK
        <4> QED
          BY Zenon, <3>3, <4>1, <4>2
             DEF Continue, PutDataFails, PutEnd, StatParse, StatOpen, StatOpenFails,
                 StatWrite, RestorePrivs
      <3>4. CASE Crash
        BY <3>4 DEF Crash
      <3> QED
        BY Zenon, <3>1, <3>2, <3>3, <3>4, NextCases
    <2> QED
      BY SMTT(30), <2>1, <2>2
  <1> QED
    BY <1>1, TypeCorrect, UploadsUndisturbed, PTL DEF Spec, AnsweredIsStored

-----------------------------------------------------------------------------
(* Uploads, when the requests to a bucket take turns.                      *)

\* No two operations are in progress in one bucket.
Apart ==
    \A v, w \in Workers : v # w /\ ~Idle(v) /\ ~Idle(w) => req[v].obj[1] # req[w].obj[1]

\* An operation has no other file open than that of its object.
FdOwn ==
    \A w \in Workers : /\ fd[w] # NoObject => ~Idle(w) /\ fd[w] = req[w].obj
                       /\ pc[w] = "rm" => req[w].kind = "delete"

\* The file of an upload has the blocks received so far.
InFull == \A w \in Workers : req[w].kind = "put" => BlocksStored(w)

TurnsTaken == Apart /\ FdOwn /\ InFull

\* What a request that starts now is kept apart from.
LEMMA StartsApart ==
    ASSUME TakeTurns, NEW w \in Workers, NEW u, NEW o, Requested(w, u, o)
    PROVE  /\ Idle(w)
           /\ u = Owner[o[1]]
           /\ \A v \in Workers : ~Idle(v) => req[v].obj[1] # o[1]
  BY SMTT(30) DEF TakeTurns, Requested, Happens

\* Its bucket is in use by nobody else, and the others and their files stay as they are.
StartsAlone(w, u, o) ==
    /\ Idle(w)
    /\ u = Owner[o[1]]
    /\ \A v \in Workers : ~Idle(v) => req[v].obj[1] # o[1]
    /\ \A v \in Workers \ {w} : /\ pc'[v] = pc[v] /\ req'[v] = req[v] /\ ofs'[v] = ofs[v]
                                /\ ret'[v] = ret[v] /\ fd'[v] = fd[v]
    /\ req'[w].obj = o
    /\ \A q \in Objects \ {o} : file'[q] = file[q]

LEMMA BeginApart ==
    ASSUME TakeTurns, TypeOK, TurnsTaken,
           NEW w \in Workers, NEW u \in Users \cup {Root}, NEW o \in Objects, Starts(w, u, o)
    PROVE  StartsAlone(w, u, o)
  <1>1. Requested(w, u, o)
    BY Zenon DEF Starts, PutRefused, PutOpen, PutOpenFails, DeleteStat, PutRequested,
              DeleteRequested
  <1>2. /\ Idle(w) /\ u = Owner[o[1]]
        /\ \A v \in Workers : ~Idle(v) => req[v].obj[1] # o[1]
    BY Zenon, <1>1, StartsApart
  <1>3. StartsLocal(w, o)
    BY Zenon, BeginLocal
  <1> QED
    BY Zenon, <1>2, <1>3 DEF StartsAlone, StartsLocal

LEMMA BeginTurns ==
    ASSUME TakeTurns, TypeOK, TypeOK', TurnsTaken,
           NEW w \in Workers, NEW u \in Users \cup {Root}, NEW o \in Objects, Starts(w, u, o)
    PROVE  TurnsTaken'
  <1>1. /\ Idle(w)
        /\ u = Owner[o[1]]
        /\ \A v \in Workers : ~Idle(v) => req[v].obj[1] # o[1]
        /\ \A v \in Workers \ {w} : /\ pc'[v] = pc[v] /\ req'[v] = req[v] /\ ofs'[v] = ofs[v]
                                    /\ ret'[v] = ret[v] /\ fd'[v] = fd[v]
        /\ req'[w].obj = o
        /\ \A q \in Objects \ {o} : file'[q] = file[q]
    <2>1. StartsAlone(w, u, o)
      BY Zenon, BeginApart
    <2> QED
      BY Zenon, <2>1 DEF StartsAlone
  <1>2. Apart'
    <2> SUFFICES ASSUME NEW v \in Workers, NEW x \in Workers, v # x,
                        pc'[v] # "idle", pc'[x] # "idle"
                 PROVE  req'[v].obj[1] # req'[x].obj[1]
      BY SMTT(30) DEF Apart, Idle
    <2>0. ASSUME NEW y \in Workers \ {w}, pc'[y] # "idle" PROVE req'[y].obj[1] # req'[w].obj[1]
      <3>1. req'[y] = req[y] /\ req'[w].obj = o /\ pc[y] # "idle"
        BY Zenon, <1>1, <2>0
      <3>2. req[y].obj[1] # o[1]
        BY Zenon, <1>1, <3>1 DEF Idle
      <3> QED
        BY Zenon, <3>1, <3>2
    <2>1. CASE v = w
      BY Zenon, <2>0, <2>1
    <2>2. CASE x = w
      BY Zenon, <2>0, <2>2
    <2>3. CASE v # w /\ x # w
      <3>1. pc[v] # "idle" /\ pc[x] # "idle" /\ req'[v] = req[v] /\ req'[x] = req[x]
        BY Zenon, <1>1, <2>3
      <3> QED
        BY Zenon, <3>1 DEF TurnsTaken, Apart, Idle
    <2> QED
      BY Zenon, <2>1, <2>2, <2>3
  <1>3. fd[w] = NoObject
    BY Zenon, <1>1 DEF TurnsTaken, FdOwn
  <1>4. FdOwn'
    <2>1. ASSUME NEW v \in Workers \ {w}
          PROVE  /\ fd'[v] # NoObject => pc'[v] # "idle" /\ fd'[v] = req'[v].obj
                 /\ pc'[v] = "rm" => req'[v].kind = "delete"
      <3>1. pc'[v] = pc[v] /\ req'[v] = req[v] /\ fd'[v] = fd[v]
        BY Zenon, <1>1
      <3>2. /\ fd[v] # NoObject => pc[v] # "idle" /\ fd[v] = req[v].obj
            /\ pc[v] = "rm" => req[v].kind = "delete"
        BY SMTT(30) DEF TurnsTaken, FdOwn, Idle
      <3> QED
        BY Zenon, <3>1, <3>2
    <2>2. /\ fd'[w] # NoObject => pc'[w] # "idle" /\ fd'[w] = req'[w].obj
          /\ pc'[w] = "rm" => req'[w].kind = "delete"
      <3>1. CASE \E kind \in {"put", "part"} : PutRefused(w, u, kind, o)
        BY Zenon, <1>3, <3>1 DEF PutRefused, TypeOK
      <3>2. CASE \E kind \in {"put", "part"} : PutOpen(w, u, kind, o)
        <4>1. pc'[w] = "write" /\ fd'[w] = o
          BY Zenon, <3>2 DEF PutOpen, TypeOK
        <4>2. req'[w].obj = o
          BY Zenon, <1>1
        <4> QED
          BY <4>1, <4>2
      <3>3. CASE \E kind \in {"put", "part"} : PutOpenFails(w, u, kind, o)
        BY Zenon, <1>3, <3>3 DEF PutOpenFails, TypeOK
      <3>4. CASE DeleteStat(w, u, o)
        BY Zenon, <1>3, <3>4 DEF DeleteStat, NewRequest, TypeOK
      <3> QED
        BY Zenon, <3>1, <3>2, <3>3, <3>4 DEF Starts
    <2> QED
      BY Zenon, <2>1, <2>2 DEF FdOwn, Idle
  <1>5. ASSUME NEW v \in Workers \ {w}, req'[v].kind = "put"
        PROVE  /\ pc'[v] = "write" => fd'[v] = req'[v].obj /\ file'[req'[v].obj] = ofs'[v]
               /\ pc'[v] \in {"parse", "sync", "fputs", "restore"} /\ ret'[v] = "ok"
                      => file'[req'[v].obj] = req'[v].size
    <2>1. CASE Idle(v)
      BY Zenon, <1>1, <1>5, <2>1 DEF Idle
    <2>2. CASE ~Idle(v)
      <3>1. req[v].obj \in Objects /\ req[v].obj # o
        BY Zenon, <1>1, <2>2 DEF TypeOK, Idle
      <3>2. file'[req'[v].obj] = file[req[v].obj]
        BY Zenon, <1>1, <3>1
      <3> QED
        <4>1. pc'[v] = pc[v] /\ req'[v] = req[v] /\ ofs'[v] = ofs[v] /\ ret'[v] = ret[v]
              /\ fd'[v] = fd[v]
          BY Zenon, <1>1
        <4>2. req[v].kind = "put"
          BY Zenon, <1>5, <4>1
        <4>3. /\ pc[v] = "write" => fd[v] = req[v].obj /\ file[req[v].obj] = ofs[v]
              /\ pc[v] \in {"parse", "sync", "fputs", "restore"} /\ ret[v] = "ok"
                     => file[req[v].obj] = req[v].size
          BY Zenon, <4>2 DEF TurnsTaken, InFull, BlocksStored
        <4> QED
          BY Zenon, <3>2, <4>1, <4>3
    <2> QED
      BY Zenon, <2>1, <2>2
  <1>6. MayOpen(u, o)
    BY Zenon, <1>1 DEF MayOpen, MayCreate
  <1>7. ASSUME req'[w].kind = "put"
        PROVE  /\ pc'[w] = "write" => fd'[w] = req'[w].obj /\ file'[req'[w].obj] = ofs'[w]
               /\ pc'[w] \in {"parse", "sync", "fputs", "restore"} /\ ret'[w] = "ok"
                      => file'[req'[w].obj] = req'[w].size
    <2>1. ASSUME NEW kind \in {"put", "part"}, PutRefused(w, u, kind, o)
          PROVE  pc'[w] = "parse" /\ ret'[w] = "error"
      BY Zenon, <2>1 DEF PutRefused, TypeOK
    <2>2. ASSUME NEW kind \in {"put", "part"}, PutOpen(w, u, kind, o)
          PROVE  pc'[w] = "write" /\ fd'[w] = o /\ req'[w].kind = kind /\ ofs'[w] = 0
                 /\ (kind = "put" => file'[o] = 0)
      BY Zenon, <2>2 DEF PutOpen, NewRequest, TypeOK
    <2>3. ASSUME NEW kind \in {"put", "part"}, PutOpenFails(w, u, kind, o)
          PROVE  FALSE
      BY <1>6, <2>3 DEF PutOpenFails, TakeTurns, Happens
    <2>4. CASE DeleteStat(w, u, o)
      BY Zenon, <1>7, <2>4 DEF DeleteStat, NewRequest, TypeOK
    <2> QED
      BY Zenon, <1>1, <1>7, <2>1, <2>2, <2>3, <2>4 DEF Starts
  <1> QED
    BY Zenon, <1>2, <1>4, <1>5, <1>7 DEF TurnsTaken, InFull, BlocksStored

LEMMA CopyTurns ==
    ASSUME TakeTurns, TypeOK, TurnsTaken, NEW w \in Workers, NEW u \in Users \cup {Root},
           NEW o \in Objects, NEW p \in Objects, CopyObj(w, u, o, p)
    PROVE  TurnsTaken'
  <1>1. \A v \in Workers : ~Idle(v) => req[v].obj[1] # o[1] /\ req[v].obj[1] # p[1]
    BY SMT, Z3, StartsApart DEF CopyObj
  <1>2. \A v \in Workers : fd[v] # o /\ fd[v] # p
    BY Zenon, <1>1, NoObjectOutside DEF TurnsTaken, FdOwn
  <1>3. UNCHANGED <<pc, req, ofs, ret>>
    BY Zenon DEF CopyObj
  <1>4. fd' = fd
    <2>1. Relink(fd, p, NoObject) = fd
      BY Zenon, <1>2 DEF Relink, TypeOK
    <2>2. Relink(fd, o, p) = fd
      BY Zenon, <1>2 DEF Relink, TypeOK
    <2> QED
      BY Zenon, <2>1, <2>2 DEF CopyObj
  <1>5. \A q \in Objects \ {o, p} : file'[q] = file[q]
    BY Zenon DEF CopyObj, TypeOK
  <1>6. \A v \in Workers : ~Idle(v) => file'[req[v].obj] = file[req[v].obj]
    BY Zenon, <1>1, <1>5 DEF TypeOK
  <1>7. Apart' /\ FdOwn'
    BY Zenon, <1>3, <1>4 DEF TurnsTaken, Apart, FdOwn, Idle
  <1>8. InFull'
    BY SMT, Z3, <1>3, <1>4, <1>6 DEF TurnsTaken, InFull, BlocksStored, Idle
  <1> QED
    BY <1>7, <1>8 DEF TurnsTaken

\* A step of an operation in progress touches no file but that of its object.
LEMMA ContinueTurns ==
    ASSUME TakeTurns, TypeOK, TurnsTaken, NEW w \in Workers, Continue(w)
    PROVE  TurnsTaken'
  <1>1. ~Idle(w)
    BY Zenon DEF Continue, PutData, PutDataFails, PutEnd, DeleteRm, StatParse, StatOpen,
           StatOpenFails, StatWrite, RestorePrivs, Idle
  <1>2. ASSUME NEW v \in Workers \ {w}
        PROVE  pc'[v] = pc[v] /\ req'[v] = req[v] /\ ofs'[v] = ofs[v] /\ ret'[v] = ret[v]
    BY Zenon, <1>2 DEF Continue, PutData, PutDataFails, PutEnd, DeleteRm, StatParse, StatOpen,
                StatOpenFails, StatWrite, RestorePrivs, TypeOK
  <1>3. ~Idle(w)' => req'[w].obj = req[w].obj /\ req'[w].kind = req[w].kind
    <2>1. CASE PutEnd(w)
      BY SMTT(30), <2>1 DEF PutEnd, TypeOK
    <2>2. CASE RestorePrivs(w)
      BY Zenon, <2>2 DEF RestorePrivs, TypeOK, Idle
    <2>3. CASE UNCHANGED req
      BY <2>3
    <2> QED
      BY Zenon, <2>1, <2>2, <2>3 DEF Continue, PutData, PutDataFails, DeleteRm, StatParse, StatOpen,
                              StatOpenFails, StatWrite
  <1>4. \A q \in Objects : q # req[w].obj => file'[q] = file[q]
    <2>1. fd[w] \in {NoObject, req[w].obj}
      BY DEF TurnsTaken, FdOwn
    <2>2. CASE PutData(w)
      <3> SUFFICES ASSUME NEW q \in Objects, q # req[w].obj PROVE file'[q] = file[q]
        BY Zenon
      <3>1. fd[w] # q
        BY <2>1, NoObjectOutside
      <3> QED
        <4>1. CASE fd[w] = NoObject
          BY Zenon, <2>2, <4>1 DEF PutData
        <4>2. CASE fd[w] # NoObject
          <5>1. PICK n : file' = [file EXCEPT ![fd[w]] = n]
            BY Zenon, <2>2, <4>2 DEF PutData
          <5> QED
            BY Zenon, <3>1, <5>1 DEF TypeOK
        <4> QED
          BY SMTT(30), <4>1, <4>2
    <2>3. CASE DeleteRm(w)
      BY Zenon, <2>3 DEF DeleteRm, TypeOK
    <2>4. CASE UNCHANGED file
      BY <2>4
    <2> QED
      BY Zenon, <2>2, <2>3, <2>4
         DEF Continue, PutDataFails, PutEnd, StatParse, StatOpen, StatOpenFails,
             StatWrite, RestorePrivs
  <1>5. ASSUME NEW v \in Workers \ {w}, ~Idle(v)
        PROVE  req[v].obj \in Objects /\ req[v].obj # req[w].obj
    BY Zenon, <1>1, <1>5 DEF TurnsTaken, Apart, TypeOK, Idle
  <1>6. ASSUME NEW v \in Workers \ {w} PROVE fd'[v] = fd[v]
    <2>1. fd[v] # req[w].obj
      <3>1. CASE fd[v] = NoObject
        BY Zenon, <1>1, <3>1, NoObjectOutside DEF TypeOK, Idle
      <3>2. CASE fd[v] # NoObject
        BY SMTT(30), <1>5, <3>2 DEF TurnsTaken, FdOwn
      <3> QED
        BY <3>1, <3>2
    <2> QED
      <3>1. CASE DeleteRm(w)
        BY Zenon, <2>1, <3>1 DEF DeleteRm, Relink, TypeOK
      <3>2. CASE RestorePrivs(w)
        BY Zenon, <3>2 DEF RestorePrivs, TypeOK
      <3>3. CASE UNCHANGED fd
        BY <3>3
      <3> QED
        BY Zenon, <3>1, <3>2, <3>3 DEF Continue, PutData, PutDataFails, PutEnd, StatParse, StatOpen,
                                StatOpenFails, StatWrite
  <1>7. Apart'
    <2> SUFFICES ASSUME NEW v \in Workers \ {w}, pc'[v] # "idle", pc'[w] # "idle"
                 PROVE  req'[v].obj[1] # req'[w].obj[1]
      BY SMTT(30), <1>2 DEF TurnsTaken, Apart, Idle
    <2> QED
      BY SMTT(30), <1>1, <1>2, <1>3 DEF TurnsTaken, Apart, Idle
  <1>8. FdOwn'
    <2>1. ASSUME NEW v \in Workers \ {w}
          PROVE  /\ fd'[v] # NoObject => pc'[v] # "idle" /\ fd'[v] = req'[v].obj
                 /\ pc'[v] = "rm" => req'[v].kind = "delete"
      BY <1>2, <1>6 DEF TurnsTaken, FdOwn, Idle
    <2>2. pc'[w] # "rm"
      BY Zenon DEF Continue, PutData, PutDataFails, PutEnd, DeleteRm, StatParse, StatOpen,
             StatOpenFails, StatWrite, RestorePrivs, TypeOK
    <2>3. fd'[w] # NoObject => pc'[w] # "idle" /\ fd'[w] = req'[w].obj
      <3>1. CASE RestorePrivs(w)
        BY Zenon, <3>1 DEF RestorePrivs, TypeOK
      <3>2. CASE DeleteRm(w)
        BY SMTT(30), Z3T(30), <1>3, <3>2 DEF DeleteRm, Relink, TypeOK, TurnsTaken, FdOwn, Idle
      <3>3. CASE UNCHANGED fd /\ pc'[w] # "idle"
        BY Zenon, <1>3, <3>3 DEF TurnsTaken, FdOwn, Idle
      <3> QED
        BY Zenon, <3>1, <3>2, <3>3, <1>1
           DEF Continue, PutData, PutDataFails, PutEnd, StatParse, StatOpen, StatOpenFails,
               StatWrite, TypeOK, Idle
    <2> QED
      BY SMTT(30), <2>1, <2>2, <2>3 DEF FdOwn, Idle
  <1>9. ASSUME NEW v \in Workers \ {w}, req'[v].kind = "put"
        PROVE  /\ pc'[v] = "write" => fd'[v] = req'[v].obj /\ file'[req'[v].obj] = ofs'[v]
               /\ pc'[v] \in {"parse", "sync", "fputs", "restore"} /\ ret'[v] = "ok"
                      => file'[req'[v].obj] = req'[v].size
    <2>1. CASE Idle(v)
      BY Zenon, <1>2, <2>1 DEF Idle
    <2>2. CASE ~Idle(v)
      <3>1. file'[req'[v].obj] = file[req[v].obj]
        BY Zenon, <1>2, <1>4, <1>5, <2>2
      <3> QED
        <4>1. /\ pc'[v] = pc[v] /\ req'[v] = req[v] /\ ofs'[v] = ofs[v]
              /\ ret'[v] = ret[v] /\ fd'[v] = fd[v]
          BY Zenon, <1>2, <1>6
        <4>2. /\ pc[v] = "write" => fd[v] = req[v].obj /\ file[req[v].obj] = ofs[v]
              /\ pc[v] \in {"parse", "sync", "fputs", "restore"} /\ ret[v] = "ok"
                     => file[req[v].obj] = req[v].size
          BY Zenon, <1>9, <4>1 DEF TurnsTaken, InFull, BlocksStored
        <4> QED
          BY Zenon, <3>1, <4>1, <4>2
    <2> QED
      BY Zenon, <2>1, <2>2
  <1>10. ASSUME req'[w].kind = "put"
         PROVE  /\ pc'[w] = "write" => fd'[w] = req'[w].obj /\ file'[req'[w].obj] = ofs'[w]
                /\ pc'[w] \in {"parse", "sync", "fputs", "restore"} /\ ret'[w] = "ok"
                      => file'[req'[w].obj] = req'[w].size
    <2>1. CASE PutData(w)
      <3>1. req[w].kind = "put" /\ fd[w] = req[w].obj /\ file[req[w].obj] = ofs[w]
        BY Zenon, <1>10, <2>1 DEF PutData, TurnsTaken, InFull, BlocksStored
      <3>2. ofs[w] \in Int /\ file[req[w].obj] \in Int
        BY SMT, Z3, ObjectOpsAssumption, <3>1 DEF TypeOK
      <3>3. Max({ofs[w], ofs[w] + 1}) = ofs[w] + 1
        <4>1. ofs[w] + 1 \in Int
          BY <3>2
        <4>2. /\ Max({ofs[w], ofs[w] + 1}) \in {ofs[w], ofs[w] + 1}
              /\ Max({ofs[w], ofs[w] + 1}) >= ofs[w] + 1
          BY Zenon, <3>2, <4>1, MaxIsOne
        <4> QED
          BY <3>2, <4>2
      <3>4. file'[req[w].obj] = ofs[w] + 1
        <4>1. fd[w] \in Objects /\ fd[w] # NoObject
          BY Zenon, <1>1, <3>1, NoObjectOutside DEF TypeOK, Idle
        <4>2. file' = [file EXCEPT ![fd[w]] = Max({file[fd[w]], ofs[w] + 1})]
          BY Zenon, <2>1, <3>1, <4>1 DEF PutData
        <4> QED
          BY Zenon, <3>1, <3>3, <4>1, <4>2 DEF TypeOK
      <3> QED
        BY Zenon, <2>1, <3>1, <3>4 DEF PutData, TypeOK
    <2>2. CASE PutDataFails(w)
      BY Zenon, <2>2 DEF PutDataFails, TakeTurns, Happens, TypeOK
    <2>3. CASE PutEnd(w)
      <3>1. req[w].kind = "put" /\ file[req[w].obj] = ofs[w]
        BY SMT, Z3, <1>10, <2>3 DEF PutEnd, TurnsTaken, InFull, BlocksStored, TypeOK
      <3>2. pc'[w] = "parse" /\ file'[req'[w].obj] = file[req[w].obj] /\ req'[w].size = ofs[w]
        BY SMTT(30), Z3T(30), <2>3 DEF PutEnd, TypeOK
      <3> QED
        BY Zenon, <3>1, <3>2
    <2>4. CASE DeleteRm(w)
      BY Zenon, <1>10, <2>4 DEF DeleteRm, TurnsTaken, FdOwn
    <2>5. CASE RestorePrivs(w)
      BY Zenon, <2>5 DEF RestorePrivs, TypeOK
    <2>6. CASE StatParse(w) \/ StatOpen(w) \/ StatOpenFails(w) \/ StatWrite(w)
      <3>1. /\ pc[w] \in {"parse", "sync", "fputs"} /\ pc'[w] \in {"sync", "fputs", "restore"}
            /\ UNCHANGED <<file, req, ret>>
        BY Zenon, <2>6 DEF StatParse, StatOpen, StatOpenFails, StatWrite, TypeOK
      <3> QED
        BY Zenon, <1>10, <3>1 DEF TurnsTaken, InFull, BlocksStored
    <2> QED
      BY Zenon, <2>1, <2>2, <2>3, <2>4, <2>5, <2>6 DEF Continue
  <1> QED
    BY Zenon, <1>7, <1>8, <1>9, <1>10 DEF TurnsTaken, InFull, BlocksStored

LEMMA TurnsStep ==
    ASSUME TakeTurns, TypeOK, TypeOK', TurnsTaken, [Next]_vars
    PROVE  TurnsTaken'
  <1>1. CASE Crash
    BY Zenon, <1>1 DEF Crash, TurnsTaken, Apart, FdOwn, InFull, BlocksStored, Idle
  <1>2. ASSUME NEW w \in Workers, Continue(w) PROVE TurnsTaken'
    BY SMTT(30), <1>2, ContinueTurns
  <1>3. CASE UNCHANGED vars
    BY Zenon, <1>3 DEF vars, workerVars, TurnsTaken, Apart, FdOwn, InFull, BlocksStored, Idle
  <1> QED
    BY Zenon, <1>1, <1>2, <1>3, NextCases, BeginTurns, CopyTurns DEF Starts

LEMMA TurnsAlways ==
    ASSUME TakeTurns
    PROVE  Spec => []TurnsTaken
  <1>1. Init => TurnsTaken
    BY DEF Init, TurnsTaken, Apart, FdOwn, InFull, BlocksStored, Idle
  <1>2. TypeOK /\ TypeOK' /\ TurnsTaken /\ [Next]_vars => TurnsTaken'
    BY TurnsStep
  <1> QED
    BY <1>1, <1>2, TypeCorrect, PTL DEF Spec

-----------------------------------------------------------------------------
(* Sums over finite sets.  A set of naturals with a least element stands   *)
(* for induction: it needs no operator as a parameter.                     *)

LEMMA Least ==
    ASSUME NEW T \in SUBSET Nat, T # {}
    PROVE  \E n \in T : \A m \in T : n <= m
  <1> DEFINE R == {ss \in Nat \X Nat : ss[1] < ss[2]}
  <1>1. IsWellFoundedOn(R, Nat)
    BY NatLessThanWellFounded DEF OpToRel
  <1>2. PICK n \in T : \A m \in T : <<m, n>> \notin R
    BY Zenon, <1>1, WFMin
  <1>3. ASSUME NEW m \in T PROVE n <= m
    <2>1. <<m, n>> \notin R
      BY <1>2
    <2>2. m \in Nat /\ n \in Nat
      OBVIOUS
    <2>3. ~(m < n)
      BY <2>1, <2>2
    <2> QED
      BY <2>2, <2>3
  <1> QED
    BY <1>3

LEMMA NatSetInduction ==
    ASSUME NEW P \in SUBSET Nat, 0 \in P, \A n \in P : n + 1 \in P
    PROVE  P = Nat
  <1> SUFFICES ASSUME Nat \ P # {} PROVE FALSE
    BY Zenon
  <1>1. PICK n \in Nat \ P : \A m \in Nat \ P : n <= m
    BY Zenon, Least
  <1>2. n - 1 \in P
    BY <1>1
  <1> QED
    BY <1>1, <1>2


\* A family of subsets of a finite set has a member that contains no other.
Smallest(T, C) == T \in C /\ \A U \in C : U \subseteq T => U = T

LEMMA HasSmallest ==
    ASSUME NEW S, IsFiniteSet(S), NEW C \in SUBSET (SUBSET S), C # {}
    PROVE  \E T : Smallest(T, C)
  <1>1. PICK seq \in Seq(S) : \A x \in S : \E i \in 1 .. Len(seq) : seq[i] = x
    BY Zenon DEF IsFiniteSet
  <1>0. Len(seq) \in Nat
    OBVIOUS
  <1> DEFINE Within(D, n) == \A T \in D : \A x \in T : \E i \in 1 .. n : seq[i] = x
             P == {n \in Nat : \A D \in SUBSET (SUBSET S) :
                                  D # {} /\ Within(D, n) => \E T : Smallest(T, D)}
  <1>2. 0 \in P
    <2> SUFFICES ASSUME NEW D \in SUBSET (SUBSET S), D # {}, Within(D, 0)
                 PROVE  \E T : Smallest(T, D)
      OBVIOUS
    <2>1. \A T \in D : T = {}
      <3>1. 1 .. 0 = {}
        OBVIOUS
      <3> QED
        BY <3>1
    <2>2. PICK T \in D : TRUE
      OBVIOUS
    <2>3. \A U \in D : U = T
      BY Zenon, <2>1
    <2>4. Smallest(T, D)
      BY Zenon, <2>3 DEF Smallest
    <2> QED
      BY Zenon, <2>4
  <1>3. ASSUME NEW n \in P PROVE n + 1 \in P
    <2>1. n \in Nat /\ n + 1 \in Nat /\ \A i \in 1 .. n + 1 : i = n + 1 \/ i \in 1 .. n
      OBVIOUS
    <2> SUFFICES ASSUME NEW D \in SUBSET (SUBSET S), D # {}, Within(D, n + 1)
                 PROVE  \E T : Smallest(T, D)
      BY Zenon, <2>1
    <2>2. \A E \in SUBSET (SUBSET S) : E # {} /\ Within(E, n) => \E T : Smallest(T, E)
      BY Zenon
    <2> DEFINE x == seq[n + 1]
               E == {T \in D : x \notin T}
               F == {T \ {x} : T \in D}
    <2>3. \A T \in D : \A y \in T : y # x => \E i \in 1 .. n : seq[i] = y
      BY Zenon, <2>1
    <2> HIDE DEF P, x
    <2>4. CASE E # {}
      <3>1. E \in SUBSET (SUBSET S) /\ Within(E, n)
        BY Zenon, <2>3
      <3>2. PICK T : Smallest(T, E)
        BY Zenon, <2>2, <2>4, <3>1
      <3>3. ASSUME NEW U \in D, U \subseteq T PROVE U \in E
        BY <3>2, <3>3 DEF Smallest
      <3>4. Smallest(T, D)
        BY Zenon, <3>2, <3>3 DEF Smallest
      <3> QED
        BY Zenon, <3>4
    <2>5. CASE E = {}
      <3>0. F \in SUBSET (SUBSET S) /\ F # {}
        <4>1. \A T \in D : T \ {x} \in SUBSET S
          OBVIOUS
        <4>2. PICK T \in D : T \ {x} \in F
          OBVIOUS
        <4>3. \A V \in F : V \in SUBSET S
          BY <4>1
        <4> QED
          BY Zenon, <4>2, <4>3
      <3>1. Within(F, n)
        <4> SUFFICES ASSUME NEW T \in D, NEW y \in T \ {x} PROVE \E i \in 1 .. n : seq[i] = y
          BY Zenon
        <4> QED
          BY Zenon, <2>3
      <3>2. PICK W : Smallest(W, F)
        BY Zenon, <2>2, <3>0, <3>1
      <3>3. PICK T \in D : W = T \ {x}
        BY Zenon, <3>2 DEF Smallest
      <3>4. ASSUME NEW U \in D, U \subseteq T PROVE U = T
        <4>1. x \in U /\ x \in T
          BY Zenon, <2>5
        <4>2. U \ {x} \in F /\ U \ {x} \subseteq W
          BY Zenon, <3>3, <3>4
        <4>3. U \ {x} = T \ {x}
          BY Zenon, <3>2, <3>3, <4>2 DEF Smallest
        <4>4. \A y : y \in U <=> y \in T
          BY Zenon, <4>1, <4>3
        <4> QED
          BY Zenon, <4>4
      <3> QED
        BY Zenon, <3>4 DEF Smallest
    <2> QED
      BY Zenon, <2>4, <2>5
  <1>4. P = Nat
    <2> HIDE DEF P
    <2>1. P \in SUBSET Nat
      BY Zenon DEF P
    <2> QED
      BY Zenon, <1>2, <1>3, <2>1, NatSetInduction
  <1>5. Len(seq) \in P
    BY Zenon, <1>0, <1>4
  <1>6. Within(C, Len(seq))
    BY <1>1
  <1> QED
    BY Zenon, <1>5, <1>6

\* Induction over the subsets of a finite set.
LEMMA SubsetInduction ==
    ASSUME NEW S, IsFiniteSet(S), NEW Q \in SUBSET (SUBSET S),
           {} \in Q,
           \A T \in SUBSET S : T # {} /\ (\A x \in T : T \ {x} \in Q) => T \in Q
    PROVE  Q = SUBSET S
  <1> DEFINE C == (SUBSET S) \ Q
  <1> SUFFICES ASSUME C # {} PROVE FALSE
    OBVIOUS
  <1>0. C \in SUBSET (SUBSET S)
    OBVIOUS
  <1>1. PICK T : Smallest(T, C)
    <2> HIDE DEF C
    <2> QED
      BY Zenon, <1>0, HasSmallest
  <1>2. ASSUME NEW x \in T PROVE T \ {x} \in Q
    <2>0. T \in SUBSET S
      BY Zenon, <1>0, <1>1 DEF Smallest
    <2>1. T \ {x} \in SUBSET S /\ T \ {x} \subseteq T /\ T \ {x} # T
      BY <2>0
    <2> QED
      BY Zenon, <1>1, <2>1 DEF Smallest
  <1> QED
    BY Zenon, <1>1, <1>2 DEF Smallest

-----------------------------------------------------------------------------
(* Sums over a finite set.                                                 *)

Pick(T) == CHOOSE x \in T : TRUE
PartialSums(f, S) ==
    CHOOSE g : g = [T \in SUBSET S |-> IF T = {} THEN 0 ELSE f[Pick(T)] + g[T \ {Pick(T)}]]

LEMMA SumIsPartial ==
    ASSUME NEW f, NEW S
    PROVE  SumFunctionOnSet(f, S) = PartialSums(f, S)[S]
  BY DEF SumFunctionOnSet, FoldFunctionOnSet, MapThenFoldSet, PartialSums, Pick

LEMMA PickIn == ASSUME NEW T, T # {} PROVE Pick(T) \in T
  BY DEF Pick

\* The recursion defines a function: g is it on the subsets of T.
SumsOn(g, f, T) ==
    /\ g \in [SUBSET T -> Int]
    /\ \A U \in SUBSET T : g[U] = IF U = {} THEN 0 ELSE f[Pick(U)] + g[U \ {Pick(U)}]

LEMMA SumsOnAgree ==
    ASSUME NEW S, IsFiniteSet(S), NEW f, NEW T \in SUBSET S, NEW V \in SUBSET S,
           NEW g, NEW h, SumsOn(g, f, T), SumsOn(h, f, V), NEW W \in SUBSET T, W \in SUBSET V
    PROVE  g[W] = h[W]
  <1> DEFINE Q == {U \in SUBSET S : U \in SUBSET T /\ U \in SUBSET V => g[U] = h[U]}
  <1>1. {} \in Q
    BY Zenon DEF SumsOn
  <1>2. ASSUME NEW U \in SUBSET S, U # {}, \A x \in U : U \ {x} \in Q PROVE U \in Q
    <2> SUFFICES ASSUME U \in SUBSET T, U \in SUBSET V PROVE g[U] = h[U]
      BY Zenon
    <2>1. Pick(U) \in U
      BY Zenon, <1>2, PickIn
    <2>2. U \ {Pick(U)} \in SUBSET T /\ U \ {Pick(U)} \in SUBSET V
      BY Zenon
    <2>3. g[U \ {Pick(U)}] = h[U \ {Pick(U)}]
      BY Zenon, <1>2, <2>1, <2>2
    <2> QED
      BY Zenon, <1>2, <2>3 DEF SumsOn
  <1>3. Q \in SUBSET (SUBSET S)
    BY Zenon
  <1>4. Q = SUBSET S
    <2> HIDE DEF Q
    <2> QED
      BY Zenon, <1>1, <1>2, <1>3, SubsetInduction
  <1> QED
    BY Zenon, <1>4

LEMMA SumsOnExist ==
    ASSUME NEW S, IsFiniteSet(S), NEW f \in [S -> Int]
    PROVE  \E g : SumsOn(g, f, S)
  <1> DEFINE Val(V) == (CHOOSE g : SumsOn(g, f, V))[V]
             Q == {T \in SUBSET S : \A U \in SUBSET T : \E g : SumsOn(g, f, U)}
  <1>1. {} \in Q
    <2>1. SumsOn([U \in SUBSET {} |-> 0], f, {})
      BY DEF SumsOn
    <2>2. \A U \in SUBSET {} : U = {}
      BY Zenon
    <2> QED
      BY Zenon, <2>1, <2>2
  <1>2. ASSUME NEW T \in SUBSET S, T # {}, \A x \in T : T \ {x} \in Q PROVE T \in Q
    <2>1. ASSUME NEW U \in SUBSET T, U # T PROVE \E g : SumsOn(g, f, U)
      <3>1. PICK x \in T : x \notin U
        BY Zenon, <2>1
      <3>2. U \in SUBSET (T \ {x})
        BY Zenon, <3>1
      <3> QED
        BY Zenon, <1>2, <3>2
    <2> DEFINE Step(U) == IF U = {} THEN 0 ELSE f[Pick(U)] + Val(U \ {Pick(U)})
               h == [U \in SUBSET T |-> Step(U)]
    <2>2. ASSUME NEW V \in SUBSET T, V # T PROVE Val(V) \in Int /\ Val(V) = Step(V)
      <3>1. PICK g : SumsOn(g, f, V) /\ Val(V) = g[V]
        BY Zenon, <2>1, <2>2
      <3>2. V \in SUBSET V
        BY Zenon
      <3>3. g[V] \in Int /\ g[V] = IF V = {} THEN 0 ELSE f[Pick(V)] + g[V \ {Pick(V)}]
        BY Zenon, <3>1, <3>2 DEF SumsOn
      <3>4. ASSUME V # {} PROVE g[V \ {Pick(V)}] = Val(V \ {Pick(V)})
        <4> DEFINE W == V \ {Pick(V)}
        <4>1. W \in SUBSET T /\ W # T /\ W \in SUBSET V /\ W \in SUBSET W
          BY Zenon, <2>2, <3>4, PickIn
        <4>2. PICK k : SumsOn(k, f, W) /\ Val(W) = k[W]
          <5> HIDE DEF W
          <5> QED
            BY Zenon, <2>1, <4>1
        <4>3. V \in SUBSET S /\ W \in SUBSET S
          BY Zenon
        <4> HIDE DEF W, Val
        <4>4. g[W] = k[W]
          BY <3>1, <4>1, <4>2, <4>3, SumsOnAgree
        <4> QED
          BY Zenon, <4>2, <4>4 DEF W
      <3> QED
        BY Zenon, <3>1, <3>3, <3>4
    <2> HIDE DEF Val
    <2>3. ASSUME NEW U \in SUBSET T, U # {}
          PROVE  /\ U \ {Pick(U)} \in SUBSET T /\ U \ {Pick(U)} # T
                 /\ f[Pick(U)] \in Int
      BY Zenon, <2>3, PickIn
    <2>4. ASSUME NEW U \in SUBSET T PROVE Step(U) \in Int
      <3>1. U # {} => f[Pick(U)] \in Int /\ Val(U \ {Pick(U)}) \in Int
        BY Zenon, <2>2, <2>3
      <3> QED
        BY <3>1
    <2>5. h \in [SUBSET T -> Int]
      BY Zenon, <2>4
    <2>6. ASSUME NEW U \in SUBSET T
          PROVE  h[U] = IF U = {} THEN 0 ELSE f[Pick(U)] + h[U \ {Pick(U)}]
      <3>1. h[U] = Step(U)
        BY Zenon
      <3>2. U # {} => h[U \ {Pick(U)}] = Val(U \ {Pick(U)})
        BY Zenon, <2>2, <2>3
      <3> HIDE DEF h
      <3> QED
        BY Zenon, <3>1, <3>2
    <2>7. SumsOn(h, f, T)
      <3> HIDE DEF h
      <3> QED
        BY Zenon, <2>5, <2>6 DEF SumsOn
    <2>8. \A U \in SUBSET T : \E g : SumsOn(g, f, U)
      <3> HIDE DEF h
      <3> QED
        BY Zenon, <2>1, <2>7
    <2> QED
      BY Zenon, <2>8
  <1>3. Q \in SUBSET (SUBSET S)
    BY Zenon
  <1>4. Q = SUBSET S
    <2> HIDE DEF Q
    <2> QED
      BY Zenon, <1>1, <1>2, <1>3, SubsetInduction
  <1> QED
    BY Zenon, <1>4

LEMMA PartialSumsRec ==
    ASSUME NEW S, IsFiniteSet(S), NEW f \in [S -> Int]
    PROVE  /\ PartialSums(f, S)[{}] = 0
           /\ \A T \in (SUBSET S) \ {{}} :
                 PartialSums(f, S)[T] = f[Pick(T)] + PartialSums(f, S)[T \ {Pick(T)}]
  <1>1. PICK g : SumsOn(g, f, S)
    BY Zenon, SumsOnExist
  <1>2. g = [T \in SUBSET S |-> IF T = {} THEN 0 ELSE f[Pick(T)] + g[T \ {Pick(T)}]]
    BY Zenon, <1>1 DEF SumsOn
  <1> DEFINE s == PartialSums(f, S)
  <1>3. s = [T \in SUBSET S |-> IF T = {} THEN 0 ELSE f[Pick(T)] + s[T \ {Pick(T)}]]
    BY Zenon, <1>2 DEF PartialSums
  <1> HIDE DEF s
  <1>4. s[{}] = 0 /\ \A T \in (SUBSET S) \ {{}} : s[T] = f[Pick(T)] + s[T \ {Pick(T)}]
    BY Zenon, <1>3
  <1> QED
    BY Zenon, <1>4 DEF s

LEMMA PartialSumsInt ==
    ASSUME NEW S, IsFiniteSet(S), NEW f \in [S -> Int]
    PROVE  \A T \in SUBSET S : PartialSums(f, S)[T] \in Int
  <1> DEFINE s == PartialSums(f, S)
             Q == {T \in SUBSET S : s[T] \in Int}
  <1>1. s[{}] = 0 /\ \A T \in (SUBSET S) \ {{}} : s[T] = f[Pick(T)] + s[T \ {Pick(T)}]
    BY PartialSumsRec
  <1> HIDE DEF s
  <1>2. {} \in Q
    BY <1>1
  <1>3. ASSUME NEW T \in SUBSET S, T # {}, \A x \in T : T \ {x} \in Q PROVE T \in Q
    <2>1. Pick(T) \in T
      BY <1>3, PickIn
    <2>2. s[T \ {Pick(T)}] \in Int /\ f[Pick(T)] \in Int
      BY <1>3, <2>1
    <2>3. s[T] = f[Pick(T)] + s[T \ {Pick(T)}]
      BY Zenon, <1>1, <1>3
    <2>4. s[T] \in Int
      BY <2>2, <2>3
    <2> QED
      BY <2>4
  <1>q. Q \in SUBSET (SUBSET S)
    OBVIOUS
  <1>4. Q = SUBSET S
    <2> HIDE DEF Q
    <2> QED
      BY Zenon, <1>2, <1>3, <1>q, SubsetInduction
  <1> QED
    BY <1>4 DEF s

\* Any element may be taken out first.
LEMMA PartialSumsTake ==
    ASSUME NEW S, IsFiniteSet(S), NEW f \in [S -> Int]
    PROVE  \A T \in SUBSET S : \A x \in T :
              PartialSums(f, S)[T] = f[x] + PartialSums(f, S)[T \ {x}]
  <1> DEFINE s == PartialSums(f, S)
             Q == {T \in SUBSET S : \A x \in T : s[T] = f[x] + s[T \ {x}]}
  <1>1. \A T \in (SUBSET S) \ {{}} : s[T] = f[Pick(T)] + s[T \ {Pick(T)}]
    BY PartialSumsRec
  <1>2. \A T \in SUBSET S : s[T] \in Int
    BY PartialSumsInt
  <1> HIDE DEF s
  <1>3. {} \in Q
    OBVIOUS
  <1>4. ASSUME NEW T \in SUBSET S, T # {}, \A x \in T : T \ {x} \in Q PROVE T \in Q
    <2> SUFFICES ASSUME NEW x \in T PROVE s[T] = f[x] + s[T \ {x}]
      OBVIOUS
    <2>1. PICK y \in T : s[T] = f[y] + s[T \ {y}]
      BY Zenon, <1>1, <1>4, PickIn
    <2>2. CASE x = y
      BY <2>1, <2>2
    <2>3. CASE x # y
      <3>1. s[T \ {y}] = f[x] + s[(T \ {y}) \ {x}]
        BY Zenon, <1>4, <2>3
      <3>2. s[T \ {x}] = f[y] + s[(T \ {x}) \ {y}]
        BY <1>4, <2>3
      <3>3. (T \ {x}) \ {y} = (T \ {y}) \ {x}
        OBVIOUS
      <3>4. f[x] \in Int /\ f[y] \in Int /\ s[(T \ {y}) \ {x}] \in Int
        BY <1>2
      <3>5. s[T] = f[y] + (f[x] + s[(T \ {y}) \ {x}])
        BY Zenon, <2>1, <3>1
      <3>6. f[x] + s[T \ {x}] = f[x] + (f[y] + s[(T \ {y}) \ {x}])
        BY Zenon, <3>2, <3>3
      <3> QED
        BY <3>4, <3>5, <3>6
    <2> QED
      BY <2>2, <2>3
  <1>q. Q \in SUBSET (SUBSET S)
    OBVIOUS
  <1>5. Q = SUBSET S
    <2> HIDE DEF Q
    <2> QED
      BY Zenon, <1>3, <1>4, <1>q, SubsetInduction
  <1> QED
    BY Zenon, <1>5 DEF s

\* Functions that agree on a set have the same sum over it.
LEMMA PartialSumsSame ==
    ASSUME NEW S, IsFiniteSet(S), NEW f \in [S -> Int], NEW h \in [S -> Int]
    PROVE  \A T \in SUBSET S :
              (\A x \in T : f[x] = h[x]) => PartialSums(f, S)[T] = PartialSums(h, S)[T]
  <1> DEFINE s == PartialSums(f, S)
             t == PartialSums(h, S)
             Q == {T \in SUBSET S : (\A x \in T : f[x] = h[x]) => s[T] = t[T]}
  <1>1. /\ s[{}] = 0 /\ \A T \in (SUBSET S) \ {{}} : s[T] = f[Pick(T)] + s[T \ {Pick(T)}]
        /\ t[{}] = 0 /\ \A T \in (SUBSET S) \ {{}} : t[T] = h[Pick(T)] + t[T \ {Pick(T)}]
    BY Zenon, PartialSumsRec
  <1> HIDE DEF s, t
  <1>2. {} \in Q
    BY <1>1
  <1>3. ASSUME NEW T \in SUBSET S, T # {}, \A x \in T : T \ {x} \in Q PROVE T \in Q
    <2> SUFFICES ASSUME \A x \in T : f[x] = h[x] PROVE s[T] = t[T]
      OBVIOUS
    <2>1. Pick(T) \in T
      BY <1>3, PickIn
    <2>2. s[T \ {Pick(T)}] = t[T \ {Pick(T)}]
      BY <1>3, <2>1
    <2> QED
      BY Zenon, <1>1, <1>3, <2>1, <2>2
  <1>q. Q \in SUBSET (SUBSET S)
    OBVIOUS
  <1>4. Q = SUBSET S
    <2> HIDE DEF Q
    <2> QED
      BY Zenon, <1>2, <1>3, <1>q, SubsetInduction
  <1> QED
    BY <1>4 DEF s, t

LEMMA SumInt ==
    ASSUME NEW S, IsFiniteSet(S), NEW f \in [S -> Int]
    PROVE  SumFunction(f) \in Int
  BY PartialSumsInt, SumIsPartial DEF SumFunction

\* Changing one value changes the sum by as much.
LEMMA SumOneChanged ==
    ASSUME NEW S, IsFiniteSet(S), NEW f \in [S -> Int], NEW h \in [S -> Int], NEW x \in S,
           \A y \in S \ {x} : h[y] = f[y]
    PROVE  SumFunction(h) = SumFunction(f) + h[x] - f[x]
  <1> DEFINE s == PartialSums(f, S)
             t == PartialSums(h, S)
  <1>1. SumFunction(f) = s[S] /\ SumFunction(h) = t[S]
    BY SumIsPartial DEF SumFunction
  <1>2. s[S] = f[x] + s[S \ {x}] /\ t[S] = h[x] + t[S \ {x}]
    BY SMT, Z3, PartialSumsTake
  <1>3. s[S \ {x}] = t[S \ {x}]
    BY PartialSumsSame
  <1>4. s[S \ {x}] \in Int /\ f[x] \in Int /\ h[x] \in Int
    BY PartialSumsInt
  <1> HIDE DEF s, t
  <1> QED
    BY <1>1, <1>2, <1>3, <1>4

LEMMA SumZero ==
    ASSUME NEW S, IsFiniteSet(S), NEW f \in [S -> Int], \A x \in S : f[x] = 0
    PROVE  SumFunction(f) = 0
  <1> DEFINE s == PartialSums(f, S)
             Q == {T \in SUBSET S : s[T] = 0}
  <1>1. s[{}] = 0 /\ \A T \in (SUBSET S) \ {{}} : s[T] = f[Pick(T)] + s[T \ {Pick(T)}]
    BY Zenon, PartialSumsRec
  <1>2. SumFunction(f) = s[S]
    BY SumIsPartial DEF SumFunction
  <1> HIDE DEF s
  <1>3. {} \in Q
    BY <1>1
  <1>4. ASSUME NEW T \in SUBSET S, T # {}, \A x \in T : T \ {x} \in Q PROVE T \in Q
    <2>1. Pick(T) \in T /\ f[Pick(T)] = 0
      BY <1>4, PickIn
    <2>2. s[T \ {Pick(T)}] = 0
      BY Zenon, <1>4, <2>1
    <2> QED
      BY <1>1, <1>4, <2>1, <2>2
  <1>q. Q \in SUBSET (SUBSET S)
    OBVIOUS
  <1>5. Q = SUBSET S
    <2> HIDE DEF Q
    <2> QED
      BY Zenon, <1>3, <1>4, <1>q, SubsetInduction
  <1> QED
    BY <1>2, <1>5

-----------------------------------------------------------------------------
(* The figures of the stat files cover what is stored.                     *)

\* The furthest a figure gets from zero.
Reach == MaxStat + MaxFile + MaxBlocks

\* What the stat file of bucket b will say of the operation of worker w, or of
\* no operation when w is idle, once its update is through.
DueEntries(w, b) ==
    IF pc[w] \in {"write", "parse"} THEN stat[b].entries + EntriesDelta(w)
    ELSE IF pc[w] \in {"sync", "fputs"} THEN info[w].entries ELSE stat[b].entries

DueSize(w, b) ==
    IF pc[w] = "write" THEN stat[b].size + ofs[w]
    ELSE IF pc[w] = "parse" THEN stat[b].size + SizeDelta(w)
    ELSE IF pc[w] \in {"sync", "fputs"} THEN info[w].size ELSE stat[b].size

Unused(b) == \A w \in Workers : Idle(w) \/ req[w].obj[1] # b

\* e and z are what the stat files say, with the updates that are on their way.
Due(e, z) ==
    \A b \in Buckets :
        /\ Unused(b) => e[b] = stat[b].entries /\ z[b] = stat[b].size
        /\ \A w \in Workers : ~Idle(w) /\ req[w].obj[1] = b
                                  => e[b] = DueEntries(w, b) /\ z[b] = DueSize(w, b)

StoredFiles == SumFunction([o \in Objects |-> Held(o)])
StoredBytes == SumFunction([o \in Objects |-> Bytes(o)])

DueCovers ==
    \E e \in [Buckets -> Int], z \in [Buckets -> Int] :
        /\ Due(e, z)
        /\ SumFunction(e) >= StoredFiles
        /\ SumFunction(z) >= StoredBytes

\* Who owns the stat files, and who an operation runs as.
WhoOf(w) == ~Idle(w) => fsuid[w] \in {Root, Owner[req[w].obj[1]]}
OwnerOf(b) == stat[b].owner \in {NoOne, Root, Owner[b]}

InRange(x) == x.entries \in -MaxStat .. MaxStat /\ x.size \in -Reach .. Reach

RangeOf(w) ==
    /\ pc[w] \in {"write", "parse", "rm"} =>
           LET s == stat[req[w].obj[1]] IN
           /\ req[w].kind = "delete" => s.entries > -MaxStat /\ s.size > -MaxStat
           /\ req[w].kind # "delete" => s.entries < MaxStat /\ s.size < MaxStat
    /\ pc[w] \in {"sync", "fputs"} => InRange(info[w])
    /\ ~Idle(w) => req[w].size <= MaxFile + MaxBlocks
    /\ ~Idle(w) /\ req[w].kind # "delete" => req[w].size <= MaxBlocks

\* A delete has seen the size of the file that it is about to remove.
OpenOf(w) ==
    /\ pc[w] = "rm" => file[req[w].obj] # Absent /\ file[req[w].obj] = req[w].size
    /\ pc[w] = "write" => req[w].kind # "delete"
    /\ fd[w] # NoObject => file[fd[w]] # Absent

FiguresInv ==
    /\ \A b \in Buckets : OwnerOf(b) /\ InRange(stat[b])
    /\ \A o \in Objects : file[o] <= MaxFile + MaxBlocks
    /\ \A w \in Workers : WhoOf(w) /\ RangeOf(w) /\ OpenOf(w)
    /\ OwnStat => DueCovers

LEMMA AtoiInRange ==
    ASSUME FiguresKept, NEW n \in -Reach .. Reach
    PROVE  Atoi(n) = n
  <1>1. /\ IntMod \in Nat \ {0} /\ MaxStat \in Nat /\ MaxFile \in Nat /\ MaxBlocks \in Nat
    BY ObjectOpsAssumption
  <1> DEFINE h == IntMod \div 2
  <1>2. h \in Int /\ 2 * h <= IntMod
    BY <1>1
  <1>3. Reach \in Nat /\ Reach < h
    BY <1>1 DEF FiguresKept, Reach
  <1> HIDE DEF h
  <1>4. n + h \in Nat /\ n + h < IntMod
    BY <1>1, <1>2, <1>3
  <1>5. (n + h) % IntMod = n + h
    BY <1>1, <1>4
  <1>6. (n + h) - h = n
    BY <1>2, <1>3
  <1> QED
    BY Zenon, <1>5, <1>6 DEF Atoi, h

LEMMA ObjectsFinite == IsFiniteSet(Objects)
  BY Zenon, FiniteStore DEF Objects

\* What the files hold, when one file changes.
LEMMA OneFile ==
    ASSUME TypeOK, TypeOK', NEW o \in Objects, \A q \in Objects \ {o} : file'[q] = file[q]
    PROVE  /\ StoredBytes \in Int /\ StoredBytes' = StoredBytes + Bytes(o)' - Bytes(o)
           /\ StoredFiles \in Int
           /\ (file[o] = Absent <=> file'[o] = Absent) => StoredFiles' = StoredFiles
           /\ file[o] = Absent /\ file'[o] # Absent => StoredFiles' = StoredFiles + 1
           /\ file[o] # Absent /\ file'[o] = Absent => StoredFiles' = StoredFiles - 1
  <1> DEFINE f == [q \in Objects |-> Bytes(q)]
             h == [q \in Objects |-> Bytes(q)']
             g == [q \in Objects |-> Held(q)]
             k == [q \in Objects |-> Held(q)']
  <1>1. f \in [Objects -> Int] /\ h \in [Objects -> Int]
    BY SMT, Z3 DEF TypeOK, Bytes, Absent
  <1>2. g \in [Objects -> Int] /\ k \in [Objects -> Int]
    BY DEF Held
  <1>3. \A q \in Objects \ {o} : h[q] = f[q] /\ k[q] = g[q]
    BY Zenon DEF Bytes, Held
  <1>4. f[o] = Bytes(o) /\ h[o] = Bytes(o)' /\ g[o] = Held(o) /\ k[o] = Held(o)'
    BY Zenon
  <1>5. /\ StoredBytes = SumFunction(f) /\ StoredBytes' = SumFunction(h)
        /\ StoredFiles = SumFunction(g) /\ StoredFiles' = SumFunction(k)
    BY Zenon DEF StoredBytes, StoredFiles
  <1> HIDE DEF f, h, g, k
  <1>6. SumFunction(f) \in Int /\ SumFunction(h) = SumFunction(f) + h[o] - f[o]
    BY Zenon, <1>1, <1>3, ObjectsFinite, SumOneChanged, SumInt
  <1>7. SumFunction(g) \in Int /\ SumFunction(k) = SumFunction(g) + k[o] - g[o]
    BY Zenon, <1>2, <1>3, ObjectsFinite, SumOneChanged, SumInt
  <1>8. StoredBytes \in Int /\ StoredBytes' = StoredBytes + Bytes(o)' - Bytes(o)
    BY Zenon, <1>4, <1>5, <1>6
  <1>9. StoredFiles \in Int /\ StoredFiles' = StoredFiles + Held(o)' - Held(o)
    BY Zenon, <1>4, <1>5, <1>7
  <1> QED
    BY SMT, Z3, <1>8, <1>9 DEF Held

LEMMA SameFiles ==
    ASSUME file' = file
    PROVE  StoredBytes' = StoredBytes /\ StoredFiles' = StoredFiles
  BY Zenon DEF StoredBytes, StoredFiles, Bytes, Held

LEMMA LocalTypes ==
    ASSUME PrivInv
    PROVE  /\ pc \in [Workers -> WorkerStates] /\ fd \in [Workers -> Objects \cup {NoObject}]
           /\ req \in [Workers -> [kind : Kinds, obj : Objects \cup {NoObject}, size : Nat,
                                   user : Users \cup {Root}]]
           /\ ofs \in [Workers -> 0 .. MaxBlocks] /\ fsuid \in [Workers -> Users \cup {Root}]
           /\ info \in [Workers -> [entries : Int, size : Int]]
  BY Zenon DEF PrivInv, TypeOK

LEMMA FileType == ASSUME PrivInv PROVE file \in [Objects -> Nat \cup {Absent}]
  BY Zenon DEF PrivInv, TypeOK

LEMMA StatType ==
    ASSUME PrivInv
    PROVE  stat \in [Buckets -> [owner : Users \cup {Root, NoOne}, entries : Int, size : Int]]
  BY Zenon DEF PrivInv, TypeOK

LEMMA LocalNumbers ==
    ASSUME PrivInv, NEW w \in Workers
    PROVE  /\ ofs[w] \in Nat /\ ofs[w] <= MaxBlocks /\ req[w].size \in Nat
           /\ req[w].kind \in Kinds
           /\ info[w].entries \in Int /\ info[w].size \in Int
  BY SMT, Z3, LocalTypes, ObjectOpsAssumption

LEMMA StatNumbers ==
    ASSUME PrivInv, NEW b \in Buckets
    PROVE  stat[b].entries \in Int /\ stat[b].size \in Int
  BY StatType

LEMMA NextNumbers ==
    ASSUME PrivInv', NEW w \in Workers, NEW b \in Buckets
    PROVE  /\ stat'[b].entries \in Int /\ stat'[b].size \in Int
           /\ info'[w].entries \in Int /\ info'[w].size \in Int
           /\ ofs'[w] \in Int /\ req'[w].size \in Int
  BY SMT, Z3, ObjectOpsAssumption DEF PrivInv, TypeOK

LEMMA Limits ==
    /\ MaxStat \in Nat /\ MaxFile \in Nat /\ MaxBlocks \in Nat
    /\ 0 <= MaxBlocks /\ 0 <= MaxFile + MaxBlocks /\ Absent <= MaxFile + MaxBlocks
  BY ObjectOpsAssumption DEF Absent

LEMMA DueIsInt ==
    ASSUME PrivInv, NEW w \in Workers, NEW b \in Buckets
    PROVE  DueEntries(w, b) \in Int /\ DueSize(w, b) \in Int
  <1>1. /\ stat[b].entries \in Int /\ stat[b].size \in Int
        /\ info[w].entries \in Int /\ info[w].size \in Int
        /\ ofs[w] \in Nat /\ req[w].size \in Nat
    BY Zenon, LocalNumbers, StatNumbers
  <1> QED
    BY SMT, Z3, <1>1 DEF DueEntries, DueSize, EntriesDelta, SizeDelta

LEMMA NextDueIsInt ==
    ASSUME PrivInv', NEW w \in Workers, NEW b \in Buckets
    PROVE  DueEntries(w, b)' \in Int /\ DueSize(w, b)' \in Int
  <1>1. /\ stat'[b].entries \in Int /\ stat'[b].size \in Int
        /\ info'[w].entries \in Int /\ info'[w].size \in Int
        /\ ofs'[w] \in Int /\ req'[w].size \in Int
    BY Zenon, NextNumbers
  <1> QED
    BY SMT, Z3, <1>1 DEF DueEntries, DueSize, EntriesDelta, SizeDelta

LEMMA Assigned ==
    ASSUME NEW D, NEW R, NEW f \in [D -> R], NEW x \in D, NEW v, NEW g, g = [f EXCEPT ![x] = v]
    PROVE  g[x] = v /\ \A y \in D \ {x} : g[y] = f[y]
  OBVIOUS

\* The other workers are where they were.
Others(w) ==
    \A v \in Workers \ {w} :
        /\ pc'[v] = pc[v] /\ req'[v] = req[v] /\ ofs'[v] = ofs[v]
        /\ info'[v] = info[v] /\ fsuid'[v] = fsuid[v] /\ fd'[v] = fd[v]

\* A step of worker w in bucket b, seen from the other workers and buckets.
StepIn(w, b) ==
    /\ Others(w)
    /\ \A v \in Workers \ {w} : Idle(v) \/ req[v].obj[1] # b
    /\ \A c \in Buckets \ {b} : stat'[c] = stat[c]
    /\ \A q \in Objects : q[1] # b => file'[q] = file[q]
    /\ Idle(w) \/ req[w].obj[1] = b
    /\ pc'[w] = "idle" \/ req'[w].obj[1] = b

LEMMA DueStep ==
    ASSUME PrivInv, PrivInv', NEW w \in Workers, NEW b \in Buckets, StepIn(w, b),
           stat'[b].owner # Root => stat[b].owner # Root,
           OwnStat => /\ StoredFiles' - StoredFiles
                             <= DueEntries(w, b)' - DueEntries(w, b)
                      /\ StoredBytes' - StoredBytes <= DueSize(w, b)' - DueSize(w, b),
           StoredFiles \in Int, StoredFiles' \in Int,
           StoredBytes \in Int, StoredBytes' \in Int,
           OwnStat => DueCovers, OwnStat'
    PROVE  DueCovers'
  <1>1. OwnStat
    BY Zenon DEF OwnStat, StepIn
  <1>2. PICK e \in [Buckets -> Int], z \in [Buckets -> Int] :
            /\ Due(e, z)
            /\ SumFunction(e) >= StoredFiles
            /\ SumFunction(z) >= StoredBytes
    BY Zenon, <1>1 DEF DueCovers
  <1>3. e[b] = DueEntries(w, b) /\ z[b] = DueSize(w, b)
    <2>1. CASE Idle(w)
      <3>1. Unused(b)
        BY Zenon, <2>1 DEF Unused, StepIn
      <3>2. e[b] = stat[b].entries /\ z[b] = stat[b].size
        BY Zenon, <3>1, <1>2 DEF Due
      <3> QED
        BY Zenon, <2>1, <3>2 DEF Idle, DueEntries, DueSize
    <2>2. CASE ~Idle(w)
      BY Zenon, <2>2, <1>2 DEF Due, StepIn
    <2> QED
      BY Zenon, <2>1, <2>2
  <1>4. DueEntries(w, b)' \in Int /\ DueSize(w, b)' \in Int
    BY Zenon, NextDueIsInt
  <1>5. PICK x \in Int, y \in Int : x = DueEntries(w, b)' /\ y = DueSize(w, b)'
    BY Zenon, <1>4
  <1> DEFINE e2 == [e EXCEPT ![b] = x]
             z2 == [z EXCEPT ![b] = y]
  <1>6. e2 \in [Buckets -> Int] /\ z2 \in [Buckets -> Int]
    BY Zenon
  <1>7. /\ e2[b] = x /\ z2[b] = y
        /\ \A c \in Buckets \ {b} : e2[c] = e[c] /\ z2[c] = z[c]
    BY Zenon
  <1> HIDE DEF e2, z2
  <1>8. SumFunction(e2) = SumFunction(e) + e2[b] - e[b] /\ SumFunction(e) \in Int
    BY Zenon, <1>6, <1>7, FiniteStore, SumOneChanged, SumInt
  <1>9. SumFunction(z2) = SumFunction(z) + z2[b] - z[b] /\ SumFunction(z) \in Int
    BY Zenon, <1>6, <1>7, FiniteStore, SumOneChanged, SumInt
  <1>10. e[b] \in Int /\ z[b] \in Int
    BY Zenon
  <1>11. StoredFiles' - StoredFiles <= x - e[b]
    BY Zenon, <1>1, <1>3, <1>5
  <1>12. SumFunction(e2) >= StoredFiles'
    BY SMT, Z3, <1>2, <1>7, <1>8, <1>10, <1>11
  <1>13. StoredBytes' - StoredBytes <= y - z[b]
    BY Zenon, <1>1, <1>3, <1>5
  <1>14. SumFunction(z2) >= StoredBytes'
    BY SMT, Z3, <1>2, <1>7, <1>9, <1>10, <1>13
  <1>15. Due(e2, z2)'
    <2> SUFFICES ASSUME NEW c \in Buckets
                 PROVE  /\ Unused(c)' => e2[c] = stat'[c].entries /\ z2[c] = stat'[c].size
                        /\ \A v \in Workers : pc'[v] # "idle" /\ req'[v].obj[1] = c
                               => e2[c] = DueEntries(v, c)' /\ z2[c] = DueSize(v, c)'
      BY Zenon DEF Due, Idle
    <2>1. CASE c = b
      <3>1. ASSUME Unused(b)' PROVE e2[b] = stat'[b].entries /\ z2[b] = stat'[b].size
        <4>1. pc'[w] = "idle"
          BY Zenon, <3>1 DEF Unused, StepIn, Others, Idle
        <4> QED
          BY Zenon, <4>1, <1>5, <1>7 DEF DueEntries, DueSize
      <3>2. ASSUME NEW v \in Workers, pc'[v] # "idle", req'[v].obj[1] = b PROVE v = w
        BY Zenon, <3>2 DEF StepIn, Others, Idle
      <3> QED
        BY Zenon, <2>1, <3>1, <3>2, <1>5, <1>7
    <2>2. CASE c # b
      <3>1. stat'[c] = stat[c] /\ e2[c] = e[c] /\ z2[c] = z[c]
        BY Zenon, <2>2, <1>7 DEF StepIn
      <3>2. ASSUME Unused(c)' PROVE Unused(c)
        BY Zenon, <3>2, <2>2 DEF Unused, StepIn, Others, Idle
      <3>3. ASSUME NEW v \in Workers, pc'[v] # "idle", req'[v].obj[1] = c
            PROVE  e2[c] = DueEntries(v, c)' /\ z2[c] = DueSize(v, c)'
        <4>1. v # w
          BY Zenon, <3>3, <2>2 DEF StepIn
        <4>2. /\ pc'[v] = pc[v] /\ req'[v] = req[v] /\ ofs'[v] = ofs[v] /\ info'[v] = info[v]
          BY Zenon, <4>1 DEF StepIn, Others
        <4>3. e[c] = DueEntries(v, c) /\ z[c] = DueSize(v, c)
          BY Zenon, <1>2, <3>3, <4>2 DEF Due, Idle
        <4>4. DueEntries(v, c)' = DueEntries(v, c) /\ DueSize(v, c)' = DueSize(v, c)
          BY Zenon, <3>1, <4>2 DEF DueEntries, DueSize, EntriesDelta, SizeDelta
        <4> QED
          BY Zenon, <3>1, <4>3, <4>4
      <3> QED
        BY Zenon, <3>1, <3>2, <3>3, <1>2 DEF Due
    <2> QED
      BY Zenon, <2>1, <2>2
  <1> QED
    BY Zenon, <1>6, <1>12, <1>14, <1>15 DEF DueCovers

\* To keep the invariant, a step has to keep it where it happens.
LEMMA FigureStep ==
    ASSUME PrivInv, PrivInv', TurnsTaken, FiguresInv,
           NEW w \in Workers, NEW b \in Buckets, StepIn(w, b),
           stat'[b].owner # Root => stat[b].owner # Root,
           OwnStat => /\ StoredFiles' - StoredFiles
                             <= DueEntries(w, b)' - DueEntries(w, b)
                      /\ StoredBytes' - StoredBytes <= DueSize(w, b)' - DueSize(w, b),
           StoredFiles \in Int, StoredFiles' \in Int,
           StoredBytes \in Int, StoredBytes' \in Int,
           OwnerOf(b)', InRange(stat[b])', WhoOf(w)', RangeOf(w)', OpenOf(w)',
           \A q \in Objects : q[1] = b => file'[q] <= MaxFile + MaxBlocks
    PROVE  FiguresInv'
  <1>1. OwnStat' => DueCovers'
    BY Zenon, DueStep DEF FiguresInv
  <1>2. \A c \in Buckets : OwnerOf(c)' /\ InRange(stat[c])'
    <2> SUFFICES ASSUME NEW c \in Buckets, c # b PROVE OwnerOf(c)' /\ InRange(stat[c])'
      BY Zenon
    <2>1. stat'[c] = stat[c]
      BY Zenon DEF StepIn
    <2> QED
      BY Zenon, <2>1 DEF FiguresInv, OwnerOf, InRange
  <1>3. \A o \in Objects : file'[o] <= MaxFile + MaxBlocks
    BY Zenon DEF FiguresInv, StepIn
  <1>4. ASSUME NEW v \in Workers, v # w PROVE WhoOf(v)' /\ RangeOf(v)' /\ OpenOf(v)'
    <2>1. /\ pc'[v] = pc[v] /\ req'[v] = req[v] /\ ofs'[v] = ofs[v]
          /\ info'[v] = info[v] /\ fsuid'[v] = fsuid[v] /\ fd'[v] = fd[v]
          /\ Idle(v) \/ req[v].obj[1] # b
      BY Zenon, <1>4 DEF StepIn, Others
    <2>2. WhoOf(v) /\ RangeOf(v) /\ OpenOf(v)
      BY Zenon DEF FiguresInv
    <2>3. WhoOf(v)'
      BY Zenon, <2>1, <2>2 DEF WhoOf, Idle
    <2>4. CASE Idle(v)
      <3>1. fd[v] = NoObject
        BY Zenon, <2>4 DEF TurnsTaken, FdOwn
      <3>2. pc[v] = "idle"
        BY Zenon, <2>4 DEF Idle
      <3>3. RangeOf(v)' /\ OpenOf(v)'
        BY Zenon, <2>1, <3>1, <3>2 DEF RangeOf, OpenOf, Idle
      <3> QED
        BY Zenon, <2>3, <3>3
    <2>5. CASE ~Idle(v)
      <3>1. req[v].obj \in Objects /\ req[v].obj[1] # b /\ req[v].obj[1] \in Buckets
        <4>1. req[v].obj \in Objects /\ req[v].obj[1] # b
          BY Zenon, <2>1, <2>5 DEF PrivInv, TypeOK
        <4> QED
          BY Zenon, <4>1 DEF Objects
      <3>2. file'[req[v].obj] = file[req[v].obj] /\ stat'[req[v].obj[1]] = stat[req[v].obj[1]]
        BY Zenon, <3>1 DEF StepIn
      <3>3. RangeOf(v)'
        BY Zenon, <2>1, <2>2, <3>2 DEF RangeOf, InRange, Idle
      <3>4. fd[v] # NoObject => fd[v] = req[v].obj
        BY Zenon DEF TurnsTaken, FdOwn
      <3>5. OpenOf(v)'
        BY Zenon, <2>1, <2>2, <3>2, <3>4 DEF OpenOf
      <3> QED
        BY Zenon, <2>3, <3>3, <3>5
    <2> QED
      BY Zenon, <2>4, <2>5
  <1> QED
    BY Zenon, <1>1, <1>2, <1>3, <1>4 DEF FiguresInv

LEMMA SumsInt ==
    ASSUME TypeOK
    PROVE  StoredFiles \in Int /\ StoredBytes \in Int
  <1>1. [o \in Objects |-> Held(o)] \in [Objects -> Int]
    BY DEF Held
  <1>2. StoredFiles \in Int
    BY Zenon, <1>1, ObjectsFinite, SumInt DEF StoredFiles
  <1>3. [o \in Objects |-> Bytes(o)] \in [Objects -> Int]
    BY SMT, Z3 DEF TypeOK, Bytes, Absent
  <1>4. StoredBytes \in Int
    BY Zenon, <1>3, ObjectsFinite, SumInt DEF StoredBytes
  <1> QED
    BY Zenon, <1>2, <1>4

\* What a request that starts finds and leaves alone.
LEMMA BeginStepIn ==
    ASSUME FiguresKept, PrivInv, NEW w \in Workers, NEW u \in Users \cup {Root}, NEW o \in Objects,
           Requested(w, u, o),
           Others(w),
           stat' = stat, \A q \in Objects \ {o} : file'[q] = file[q],
           req'[w].obj = o
    PROVE  /\ StepIn(w, o[1])
           /\ Idle(w) /\ u = Owner[o[1]] /\ o[1] \in Buckets /\ fsuid[w] = Root
  <1>0. TakeTurns
    BY Zenon DEF FiguresKept
  <1>1. /\ Idle(w) /\ u = Owner[o[1]]
        /\ \A v \in Workers : ~Idle(v) => req[v].obj[1] # o[1]
    BY SMT, Z3, <1>0, StartsApart
  <1>2. o[1] \in Buckets
    BY Zenon DEF Objects
  <1>3. \A q \in Objects : q[1] # o[1] => file'[q] = file[q]
    BY Zenon
  <1>4. fsuid[w] = Root
    BY Zenon, <1>1 DEF PrivInv, PrivsRestored
  <1> QED
    BY Zenon, <1>1, <1>2, <1>3, <1>4 DEF StepIn

LEMMA PutOpenFigures ==
    ASSUME FiguresKept, PrivInv, PrivInv', TurnsTaken, FiguresInv,
           NEW w \in Workers, NEW u \in Users \cup {Root}, NEW o \in Objects, NEW kind \in {"put", "part"},
           PutOpen(w, u, kind, o)
    PROVE  FiguresInv'
  <1> DEFINE b == o[1]
             new == IF kind = "part" /\ file[o] # Absent THEN file[o] ELSE 0
  <1>1. /\ Requested(w, u, o) /\ stat[b].entries < MaxStat /\ stat[b].size < MaxStat
    BY Zenon DEF PutOpen, PutRequested
  <1>2. /\ stat' = stat /\ info' = info
        /\ pc' = [pc EXCEPT ![w] = "write"]
        /\ req' = [req EXCEPT ![w] = [kind |-> kind, obj |-> o, size |-> 0, user |-> u]]
        /\ ofs' = [ofs EXCEPT ![w] = 0]
        /\ fd' = [fd EXCEPT ![w] = o]
        /\ fsuid' = [fsuid EXCEPT ![w] = u]
        /\ file' = [file EXCEPT ![o] = new]
    BY Zenon DEF PutOpen, DropPrivs, NewRequest
  <1> HIDE DEF new
  <1>3. /\ pc'[w] = "write" /\ req'[w] = [kind |-> kind, obj |-> o, size |-> 0, user |-> u]
        /\ ofs'[w] = 0 /\ fd'[w] = o /\ fsuid'[w] = u /\ file'[o] = new
    BY Zenon, <1>2, LocalTypes, FileType
  <1>4. req'[w].obj = o /\ req'[w].kind = kind /\ req'[w].size = 0 /\ kind # "delete"
    BY SMT, Z3, <1>3
  <1>f. \A q \in Objects \ {o} : file'[q] = file[q]
    BY Zenon, <1>2, FileType, Assigned
  <1>5. /\ StepIn(w, b) /\ Idle(w) /\ u = Owner[b] /\ b \in Buckets
    <2>1. Others(w)
      BY Zenon, <1>2, LocalTypes DEF Others
    <2> QED
      BY Zenon, <1>1, <1>2, <1>4, <1>f, <2>1, BeginStepIn
  <1>6. OwnerOf(b) /\ InRange(stat[b]) /\ file[o] <= MaxFile + MaxBlocks
    BY Zenon, <1>5 DEF FiguresInv
  <1>7. OwnerOf(b)' /\ InRange(stat[b])' /\ stat'[b] = stat[b]
    BY Zenon, <1>2, <1>6 DEF OwnerOf, InRange
  <1>8. WhoOf(w)'
    BY Zenon, <1>3, <1>4, <1>5 DEF WhoOf
  <1>9. RangeOf(w)'
    BY Zenon, <1>1, <1>3, <1>4, <1>7, Limits DEF RangeOf
  <1>10. new \in Nat /\ new # Absent /\ new <= Bytes(o) /\ new <= MaxFile + MaxBlocks
    <2>1. file[o] \in Nat \cup {Absent}
      BY Zenon, FileType
    <2> QED
      BY SMT, Z3, <1>6, <2>1, Limits DEF new, Bytes, Absent
  <1>11. OpenOf(w)'
    BY Zenon, <1>3, <1>4, <1>10 DEF OpenOf
  <1>12. \A q \in Objects : q[1] = b => file'[q] <= MaxFile + MaxBlocks
    BY Zenon, <1>3, <1>10, <1>f DEF FiguresInv
  <1>13. /\ StoredBytes' = StoredBytes + Bytes(o)' - Bytes(o)
         /\ StoredFiles' \in {StoredFiles, StoredFiles + 1}
    BY Zenon, <1>f, <1>3, <1>10, OneFile DEF PrivInv
  <1>14. Bytes(o)' = new
    BY Zenon, <1>3, <1>10 DEF Bytes
  <1>15. StoredFiles \in Int /\ StoredBytes \in Int
    BY Zenon, SumsInt DEF PrivInv
  <1>16. /\ DueEntries(w, b)' = stat[b].entries + 1 /\ DueEntries(w, b) = stat[b].entries
         /\ DueSize(w, b)' = stat[b].size + 0 /\ DueSize(w, b) = stat[b].size
    BY Zenon, <1>3, <1>4, <1>5, <1>7 DEF DueEntries, DueSize, EntriesDelta, Idle
  <1>17. stat[b].entries \in Int /\ stat[b].size \in Int /\ Bytes(o) \in Int
    <2>1. file[o] \in Nat \cup {Absent}
      BY Zenon, FileType
    <2>2. Bytes(o) \in Int
      BY <2>1 DEF Bytes
    <2> QED
      BY Zenon, <1>5, <2>2, StatNumbers
  <1>18. /\ StoredFiles' - StoredFiles <= DueEntries(w, b)' - DueEntries(w, b)
         /\ StoredFiles' \in Int /\ StoredBytes' \in Int
    BY SMT, Z3, <1>10, <1>13, <1>14, <1>15, <1>16, <1>17
  <1>19. StoredBytes' - StoredBytes <= DueSize(w, b)' - DueSize(w, b)
    BY SMT, Z3, <1>10, <1>13, <1>14, <1>15, <1>16, <1>17
  <1> QED
    BY Zenon, <1>5, <1>7, <1>8, <1>9, <1>11, <1>12, <1>15, <1>18, <1>19, FigureStep

\* A PUT that does not get as far as its file counts all the same.
LEMMA PutRefusedFigures ==
    ASSUME FiguresKept, PrivInv, PrivInv', TurnsTaken, FiguresInv,
           NEW w \in Workers, NEW u \in Users \cup {Root}, NEW o \in Objects, NEW kind \in {"put", "part"},
           PutRefused(w, u, kind, o) \/ PutOpenFails(w, u, kind, o)
    PROVE  FiguresInv'
  <1> DEFINE b == o[1]
  <1>1. /\ Requested(w, u, o) /\ stat[b].entries < MaxStat /\ stat[b].size < MaxStat
    BY Zenon DEF PutRefused, PutOpenFails, PutRequested
  <1>2. /\ file' = file /\ stat' = stat /\ info' = info /\ ofs' = ofs /\ fd' = fd
        /\ pc' = [pc EXCEPT ![w] = "parse"]
        /\ req' = [req EXCEPT ![w] = [kind |-> kind, obj |-> o, size |-> 0, user |-> u]]
        /\ fsuid' = fsuid \/ fsuid' = [fsuid EXCEPT ![w] = u]
    BY Zenon DEF PutRefused, PutOpenFails, DropPrivs, NewRequest
  <1>3. /\ pc'[w] = "parse" /\ req'[w] = [kind |-> kind, obj |-> o, size |-> 0, user |-> u]
        /\ fsuid'[w] \in {fsuid[w], u}
    BY Zenon, <1>2, LocalTypes, Assigned
  <1>4. req'[w].obj = o /\ req'[w].kind = kind /\ req'[w].size = 0 /\ kind # "delete"
    BY SMT, Z3, <1>3
  <1>5. /\ StepIn(w, b) /\ Idle(w) /\ u = Owner[b] /\ b \in Buckets /\ fsuid[w] = Root
    <2>1. Others(w)
      BY Zenon, <1>2, LocalTypes DEF Others
    <2> QED
      BY Zenon, <1>1, <1>2, <1>4, <2>1, BeginStepIn
  <1>6. OwnerOf(b) /\ InRange(stat[b])
    BY Zenon, <1>5 DEF FiguresInv
  <1>7. OwnerOf(b)' /\ InRange(stat[b])' /\ stat'[b] = stat[b]
    BY Zenon, <1>2, <1>6 DEF OwnerOf, InRange
  <1>8. WhoOf(w)'
    BY Zenon, <1>3, <1>4, <1>5 DEF WhoOf
  <1>9. RangeOf(w)'
    BY Zenon, <1>1, <1>3, <1>4, <1>7, Limits DEF RangeOf
  <1>10. OpenOf(w) /\ \A q \in Objects : file'[q] <= MaxFile + MaxBlocks
    BY Zenon, <1>2 DEF FiguresInv
  <1>11. OpenOf(w)'
    BY Zenon, <1>2, <1>3, <1>10 DEF OpenOf
  <1>12. StoredBytes' = StoredBytes /\ StoredFiles' = StoredFiles
    BY Zenon, <1>2, SameFiles
  <1>13. StoredFiles \in Int /\ StoredBytes \in Int
    BY Zenon, SumsInt DEF PrivInv
  <1>14. /\ DueEntries(w, b)' = stat[b].entries + 1 /\ DueEntries(w, b) = stat[b].entries
         /\ DueSize(w, b)' = stat[b].size + 0 /\ DueSize(w, b) = stat[b].size
    BY Zenon, <1>3, <1>4, <1>5, <1>7 DEF DueEntries, DueSize, EntriesDelta, SizeDelta, Idle
  <1>15. stat[b].entries \in Int /\ stat[b].size \in Int
    BY Zenon, <1>5, StatNumbers
  <1>16. /\ StoredFiles' - StoredFiles <= DueEntries(w, b)' - DueEntries(w, b)
         /\ StoredBytes' - StoredBytes <= DueSize(w, b)' - DueSize(w, b)
    BY SMT, Z3, <1>12, <1>13, <1>14, <1>15
  <1> QED
    BY Zenon, <1>5, <1>7, <1>8, <1>9, <1>10, <1>11, <1>12, <1>13, <1>16, FigureStep

LEMMA DeleteStatFigures ==
    ASSUME FiguresKept, PrivInv, PrivInv', TurnsTaken, FiguresInv,
           NEW w \in Workers, NEW u \in Users \cup {Root}, NEW o \in Objects, DeleteStat(w, u, o)
    PROVE  FiguresInv'
  <1> DEFINE b == o[1]
             pcw == IF file[o] = Absent THEN "restore" ELSE "rm"
  <1>1. /\ Requested(w, u, o) /\ stat[b].entries > -MaxStat /\ stat[b].size > -MaxStat
    BY Zenon DEF DeleteStat, DeleteRequested
  <1>2. /\ file' = file /\ stat' = stat /\ info' = info /\ ofs' = ofs /\ fd' = fd
        /\ pc' = [pc EXCEPT ![w] = pcw]
        /\ req' = [req EXCEPT ![w] = [kind |-> "delete", obj |-> o, size |-> Bytes(o), user |-> u]]
        /\ fsuid' = [fsuid EXCEPT ![w] = u]
    BY Zenon DEF DeleteStat, DropPrivs, NewRequest, Bytes
  <1>3. /\ pc'[w] = pcw /\ req'[w] = [kind |-> "delete", obj |-> o, size |-> Bytes(o), user |-> u]
        /\ fsuid'[w] = u
    BY Zenon, <1>2, LocalTypes
  <1>4. req'[w].obj = o /\ req'[w].kind = "delete" /\ req'[w].size = Bytes(o)
    BY SMT, Z3, <1>3
  <1>5. /\ StepIn(w, b) /\ Idle(w) /\ u = Owner[b] /\ b \in Buckets
    <2>1. Others(w)
      BY Zenon, <1>2, LocalTypes DEF Others
    <2> QED
      BY Zenon, <1>1, <1>2, <1>4, <2>1, BeginStepIn
  <1>6. OwnerOf(b) /\ InRange(stat[b])
    BY Zenon, <1>5 DEF FiguresInv
  <1>7. OwnerOf(b)' /\ InRange(stat[b])' /\ stat'[b] = stat[b]
    BY Zenon, <1>2, <1>6 DEF OwnerOf, InRange
  <1>8. WhoOf(w)'
    BY Zenon, <1>3, <1>4, <1>5 DEF WhoOf
  <1>9. OpenOf(w) /\ \A q \in Objects : file'[q] <= MaxFile + MaxBlocks
    BY Zenon, <1>2 DEF FiguresInv
  <1>10. Bytes(o) <= MaxFile + MaxBlocks
    BY Zenon, <1>2, <1>9, Limits DEF Bytes
  <1>11. RangeOf(w)'
    BY Zenon, <1>1, <1>3, <1>4, <1>7, <1>10 DEF RangeOf, Idle
  <1>12. OpenOf(w)'
    BY SMT, Z3, <1>2, <1>3, <1>4, <1>9 DEF OpenOf, Bytes
  <1>13. StoredBytes' = StoredBytes /\ StoredFiles' = StoredFiles
    BY Zenon, <1>2, SameFiles
  <1>14. StoredFiles \in Int /\ StoredBytes \in Int
    BY Zenon, SumsInt DEF PrivInv
  <1>15. /\ DueEntries(w, b)' = stat[b].entries /\ DueEntries(w, b) = stat[b].entries
         /\ DueSize(w, b)' = stat[b].size /\ DueSize(w, b) = stat[b].size
    BY Zenon, <1>3, <1>4, <1>5, <1>7 DEF DueEntries, DueSize, Idle
  <1>16. stat[b].entries \in Int /\ stat[b].size \in Int
    BY Zenon, <1>5, StatNumbers
  <1>17. /\ StoredFiles' - StoredFiles <= DueEntries(w, b)' - DueEntries(w, b)
         /\ StoredBytes' - StoredBytes <= DueSize(w, b)' - DueSize(w, b)
    BY SMT, Z3, <1>13, <1>14, <1>15, <1>16
  <1> QED
    BY Zenon, <1>5, <1>7, <1>8, <1>9, <1>11, <1>12, <1>13, <1>14, <1>17, FigureStep

\* A worker that goes on stays in its bucket, which it has to itself.
LEMMA OwnBucket ==
    ASSUME PrivInv, TurnsTaken, FiguresInv, NEW w \in Workers, ~Idle(w)
    PROVE  /\ req[w].obj \in Objects /\ req[w].obj[1] \in Buckets
           /\ \A v \in Workers \ {w} : Idle(v) \/ req[v].obj[1] # req[w].obj[1]
           /\ stat[req[w].obj[1]].entries \in Int /\ stat[req[w].obj[1]].size \in Int
           /\ OwnerOf(req[w].obj[1]) /\ InRange(stat[req[w].obj[1]])
           /\ WhoOf(w) /\ RangeOf(w) /\ OpenOf(w)
           /\ \A q \in Objects : file[q] <= MaxFile + MaxBlocks
           /\ StoredFiles \in Int /\ StoredBytes \in Int
  <1>1. req[w].obj \in Objects
    BY Zenon DEF PrivInv, TypeOK
  <1>2. req[w].obj[1] \in Buckets
    BY Zenon, <1>1 DEF Objects
  <1>3. \A v \in Workers \ {w} : Idle(v) \/ req[v].obj[1] # req[w].obj[1]
    BY Zenon DEF TurnsTaken, Apart
  <1>4. stat[req[w].obj[1]].entries \in Int /\ stat[req[w].obj[1]].size \in Int
    BY Zenon, <1>2, StatNumbers
  <1>5. StoredFiles \in Int /\ StoredBytes \in Int
    BY Zenon, SumsInt DEF PrivInv
  <1> QED
    BY Zenon, <1>1, <1>2, <1>3, <1>4, <1>5 DEF FiguresInv

\* What the figures and the files may do in one step, in numbers alone.
LEMMA SameMove == \A f \in Int, d \in Int : f - f <= d - d
  OBVIOUS

LEMMA BlockMove ==
    /\ \A s, s2 : \A a \in Int, n \in Nat : s2 = a + (n + 1) /\ s = a + n => s2 - s = 1
    /\ \A z \in Int : z - z <= 1 /\ (z + 1) - z <= 1 /\ z + 1 \in Int
  OBVIOUS

LEMMA LessMove ==
    \A f \in Int, a \in Int : (f - 1) - f <= (a + (-1)) - a /\ f - 1 \in Int
  OBVIOUS

LEMMA MaxStatInReach == \A n \in -MaxStat .. MaxStat : n \in -Reach .. Reach
  BY Limits DEF Reach

LEMMA OwnNumbers ==
    ASSUME PrivInv, NEW w \in Workers, ~Idle(w), NEW o, o = req[w].obj
    PROVE  /\ stat[o[1]].entries \in Int /\ stat[o[1]].size \in Int
           /\ ofs[w] \in Nat /\ ofs[w] <= MaxBlocks /\ req[w].size \in Nat
           /\ StoredFiles \in Int /\ StoredBytes \in Int
  <1>1. o \in Objects
    BY Zenon DEF PrivInv, TypeOK
  <1>2. o[1] \in Buckets
    BY Zenon, <1>1 DEF Objects
  <1> QED
    BY Zenon, <1>2, LocalNumbers, StatNumbers, SumsInt DEF PrivInv

LEMMA PutDataFigures ==
    ASSUME FiguresKept, PrivInv, PrivInv', TurnsTaken, FiguresInv,
           NEW w \in Workers, PutData(w)
    PROVE  FiguresInv'
  <1>0. pc[w] = "write" /\ ~Idle(w)
    BY Zenon DEF PutData, Idle
  <1> PICK o \in Objects : o = req[w].obj
    BY Zenon, <1>0 DEF PrivInv, TypeOK
  <1> DEFINE b == o[1]
  <1>1. /\ o \in Objects /\ b \in Buckets
        /\ \A v \in Workers \ {w} : Idle(v) \/ req[v].obj[1] # b
        /\ OwnerOf(b) /\ InRange(stat[b]) /\ WhoOf(w) /\ RangeOf(w) /\ OpenOf(w)
        /\ \A q \in Objects : file[q] <= MaxFile + MaxBlocks
    BY Zenon, <1>0, OwnBucket
  <1>n. /\ stat[b].entries \in Int /\ stat[b].size \in Int /\ ofs[w] \in Nat
        /\ StoredFiles \in Int /\ StoredBytes \in Int
    BY Zenon, <1>0, OwnNumbers
  <1>2. /\ UNCHANGED <<stat, pc, req, fd, info, fsuid>> /\ ofs[w] < MaxBlocks
        /\ ofs' = [ofs EXCEPT ![w] = ofs[w] + 1]
        /\ fd[w] = NoObject => file' = file
        /\ fd[w] # NoObject => file' = [file EXCEPT ![fd[w]] = IF req[w].kind = "part" THEN @ + 1
                                                               ELSE Max({@, ofs[w] + 1})]
        /\ req[w].kind = "part" /\ fd[w] # NoObject => file[fd[w]] < MaxFile
    BY Zenon DEF PutData
  <1>3. ofs[w] \in Nat /\ ofs'[w] = ofs[w] + 1 /\ ofs[w] + 1 <= MaxBlocks
    <2>1. MaxBlocks \in Nat /\ ofs[w] \in Nat /\ ofs[w] < MaxBlocks
      BY Zenon, <1>2, <1>n, Limits
    <2>2. ofs'[w] = ofs[w] + 1
      BY Zenon, <1>2, LocalTypes, Assigned
    <2> QED
      BY SMT, Z3, <2>1, <2>2
  <1>4. req[w].kind \in {"put", "part"}
    BY Zenon, <1>0, <1>1, LocalNumbers DEF OpenOf, Kinds
  <1>5. ASSUME fd[w] # NoObject
        PROVE  /\ fd[w] = o /\ file[o] # Absent /\ file[o] \in Nat
               /\ file' = [file EXCEPT ![o] = file[o] + 1]
               /\ file[o] + 1 <= MaxFile + MaxBlocks
    <2>1. fd[w] = o
      BY Zenon, <1>5 DEF TurnsTaken, FdOwn
    <2>2. file[o] # Absent /\ file[o] \in Nat
      BY Zenon, <1>1, <1>5, <2>1, FileType DEF OpenOf
    <2>3. CASE req[w].kind = "part"
      <3>1. file' = [file EXCEPT ![o] = file[o] + 1] /\ file[o] < MaxFile
        BY Zenon, <1>2, <1>5, <2>1, <2>3
      <3>2. file[o] + 1 <= MaxFile + MaxBlocks
        BY SMT, Z3, <2>2, <3>1, Limits
      <3> QED
        BY Zenon, <2>1, <2>2, <3>1, <3>2
    <2>4. CASE req[w].kind = "put"
      <3>1. file[o] = ofs[w]
        BY Zenon, <1>0, <2>4 DEF TurnsTaken, InFull, BlocksStored
      <3>2. ofs[w] \in Int /\ ofs[w] + 1 \in Int
        BY SMT, Z3, <1>3
      <3>3. /\ Max({ofs[w], ofs[w] + 1}) \in {ofs[w], ofs[w] + 1}
            /\ Max({ofs[w], ofs[w] + 1}) >= ofs[w] + 1
        BY Zenon, <3>2, MaxIsOne
      <3>4. Max({ofs[w], ofs[w] + 1}) = ofs[w] + 1
        BY SMT, Z3, <3>2, <3>3
      <3>5. file' = [file EXCEPT ![o] = Max({file[o], ofs[w] + 1})]
        BY Zenon, <1>2, <1>5, <2>1, <2>4
      <3>6. file' = [file EXCEPT ![o] = file[o] + 1]
        BY Zenon, <3>1, <3>4, <3>5
      <3> QED
        <4>1. file[o] + 1 <= MaxFile + MaxBlocks
          BY SMT, Z3, <1>3, <3>1, Limits
        <4> QED
          BY Zenon, <2>1, <2>2, <3>6, <4>1
    <2> QED
      BY Zenon, <1>4, <2>3, <2>4
  <1>6. \A q \in Objects \ {o} : file'[q] = file[q]
    <2>1. CASE fd[w] = NoObject
      BY Zenon, <1>2, <2>1
    <2>2. CASE fd[w] # NoObject
      BY Zenon, <1>5, <2>2, FileType, Assigned
    <2> QED
      BY Zenon, <2>1, <2>2
  <1>g. ASSUME fd[w] # NoObject
        PROVE  file'[o] = file[o] + 1 /\ file'[o] # Absent /\ file'[o] <= MaxFile + MaxBlocks
    <2>1. file'[o] = file[o] + 1
      BY Zenon, <1>5, <1>g, FileType, Assigned
    <2>2. file[o] \in Nat /\ file'[o] <= MaxFile + MaxBlocks
      BY Zenon, <1>5, <1>g, <2>1
    <2> QED
      BY SMT, Z3, <2>1, <2>2 DEF Absent
  <1>7. StepIn(w, b)
    <2>1. \A v \in Workers \ {w} : ofs'[v] = ofs[v]
      BY Zenon, <1>2, LocalTypes, Assigned
    <2>2. \A q \in Objects : q[1] # b => file'[q] = file[q]
      BY Zenon, <1>6
    <2> QED
      BY Zenon, <1>1, <1>2, <2>1, <2>2 DEF StepIn, Others
  <1>8. OwnerOf(b)' /\ InRange(stat[b])' /\ WhoOf(w)' /\ RangeOf(w)' /\ stat'[b] = stat[b]
    BY Zenon, <1>1, <1>2 DEF OwnerOf, InRange, WhoOf, RangeOf, Idle
  <1>9. file'[o] <= MaxFile + MaxBlocks /\ OpenOf(w)'
    <2>1. CASE fd[w] = NoObject
      BY Zenon, <1>1, <1>2, <2>1 DEF OpenOf
    <2>2. CASE fd[w] # NoObject
      <3>1. file'[o] = file[o] + 1 /\ file'[o] # Absent /\ file'[o] <= MaxFile + MaxBlocks
        BY Zenon, <1>g, <2>2
      <3>2. pc'[w] = "write" /\ req'[w] = req[w] /\ fd'[w] = o
        BY Zenon, <1>0, <1>2, <1>5, <2>2
      <3> QED
        BY Zenon, <1>0, <1>1, <3>1, <3>2 DEF OpenOf
    <2> QED
      BY Zenon, <2>1, <2>2
  <1>10. \A q \in Objects : q[1] = b => file'[q] <= MaxFile + MaxBlocks
    BY Zenon, <1>1, <1>6, <1>9
  <1>11. /\ StoredFiles' = StoredFiles
         /\ StoredBytes' \in {StoredBytes, StoredBytes + 1}
    <2>1. CASE fd[w] = NoObject
      BY Zenon, <1>2, <2>1, SameFiles
    <2>2. CASE fd[w] # NoObject
      <3>1. file'[o] = file[o] + 1 /\ file'[o] # Absent /\ file[o] # Absent /\ file[o] \in Nat
        BY Zenon, <1>g, <1>5, <2>2
      <3>2. Bytes(o)' = Bytes(o) + 1 /\ Bytes(o) \in Int
        BY SMT, Z3, <3>1 DEF Bytes
      <3>3. /\ StoredFiles' = StoredFiles
            /\ StoredBytes' = StoredBytes + Bytes(o)' - Bytes(o)
        BY Zenon, <1>1, <1>6, <3>1, OneFile DEF PrivInv
      <3> QED
        BY SMT, Z3, <1>n, <3>2, <3>3
    <2> QED
      BY Zenon, <2>1, <2>2
  <1>12. /\ DueEntries(w, b)' = DueEntries(w, b) /\ DueEntries(w, b) \in Int
    BY Zenon, <1>0, <1>1, <1>2, <1>8, DueIsInt DEF DueEntries, EntriesDelta
  <1>13. DueSize(w, b)' = stat[b].size + (ofs[w] + 1) /\ DueSize(w, b) = stat[b].size + ofs[w]
    BY Zenon, <1>0, <1>2, <1>3, <1>8 DEF DueSize
  <1>14. /\ StoredFiles' - StoredFiles <= DueEntries(w, b)' - DueEntries(w, b)
         /\ StoredBytes' - StoredBytes <= DueSize(w, b)' - DueSize(w, b)
         /\ StoredFiles' \in Int /\ StoredBytes' \in Int
    <2>1. /\ StoredFiles' - StoredFiles <= DueEntries(w, b)' - DueEntries(w, b)
          /\ StoredFiles' \in Int
      BY Zenon, <1>n, <1>11, <1>12, SameMove
    <2>2. /\ StoredBytes' - StoredBytes <= DueSize(w, b)' - DueSize(w, b)
          /\ StoredBytes' \in Int
      <3>1. DueSize(w, b)' - DueSize(w, b) = 1
        BY Zenon, <1>n, <1>13, BlockMove
      <3>2. StoredBytes' - StoredBytes <= 1 /\ StoredBytes' \in Int
        BY Zenon, <1>n, <1>11, BlockMove
      <3> QED
        BY Zenon, <3>1, <3>2
    <2> QED
      BY Zenon, <2>1, <2>2
  <1> QED
    BY Zenon, <1>1, <1>n, <1>7, <1>8, <1>9, <1>10, <1>14, FigureStep

LEMMA DeleteRmFigures ==
    ASSUME FiguresKept, PrivInv, PrivInv', TurnsTaken, FiguresInv,
           NEW w \in Workers, DeleteRm(w)
    PROVE  FiguresInv'
  <1>0. pc[w] = "rm" /\ ~Idle(w)
    BY Zenon DEF DeleteRm, Idle
  <1> PICK o \in Objects : o = req[w].obj
    BY Zenon, <1>0 DEF PrivInv, TypeOK
  <1> DEFINE b == o[1]
  <1>1. /\ o \in Objects /\ b \in Buckets
        /\ \A v \in Workers \ {w} : Idle(v) \/ req[v].obj[1] # b
        /\ OwnerOf(b) /\ InRange(stat[b]) /\ WhoOf(w) /\ RangeOf(w) /\ OpenOf(w)
        /\ \A q \in Objects : file[q] <= MaxFile + MaxBlocks
    BY Zenon, <1>0, OwnBucket
  <1>n. /\ stat[b].entries \in Int /\ stat[b].size \in Int /\ req[w].size \in Int
        /\ StoredFiles \in Int /\ StoredBytes \in Int
    <2>1. req[w].size \in Int
      BY SMT, Z3, LocalNumbers
    <2> QED
      BY Zenon, <1>0, <2>1, OwnNumbers
  <1>2. /\ UNCHANGED <<stat, req, ofs, info, fsuid>>
        /\ pc' = [pc EXCEPT ![w] = "parse"]
        /\ file' = [file EXCEPT ![o] = Absent]
        /\ fd' = Relink(fd, o, NoObject)
    BY Zenon DEF DeleteRm, FiguresKept, Happens
  <1>3. /\ pc'[w] = "parse" /\ req[w].kind = "delete"
        /\ file[o] # Absent /\ file[o] = req[w].size /\ file'[o] = Absent
    <2>1. pc'[w] = "parse" /\ file'[o] = Absent
      BY Zenon, <1>2, LocalTypes, FileType, Assigned
    <2>2. req[w].kind = "delete"
      BY Zenon, <1>0 DEF TurnsTaken, FdOwn
    <2> QED
      BY Zenon, <1>0, <1>1, <2>1, <2>2 DEF OpenOf
  <1>4. \A q \in Objects \ {o} : file'[q] = file[q]
    BY Zenon, <1>2, FileType, Assigned
  <1>5. ASSUME NEW v \in Workers, v # w PROVE fd'[v] = fd[v]
    <2>1. fd[v] # NoObject => fd[v] = req[v].obj /\ ~Idle(v)
      BY Zenon DEF TurnsTaken, FdOwn
    <2>2. fd[v] # o \/ fd[v] = NoObject
      BY Zenon, <1>1, <1>5, <2>1
    <2> QED
      BY Zenon, <1>2, <2>2 DEF Relink
  <1>6. StepIn(w, b)
    <2>1. \A v \in Workers \ {w} : pc'[v] = pc[v]
      BY Zenon, <1>2, LocalTypes, Assigned
    <2>2. \A q \in Objects : q[1] # b => file'[q] = file[q]
      BY Zenon, <1>4
    <2> QED
      BY Zenon, <1>1, <1>2, <1>5, <2>1, <2>2 DEF StepIn, Others
  <1>7. OwnerOf(b)' /\ InRange(stat[b])' /\ WhoOf(w)' /\ stat'[b] = stat[b]
    BY Zenon, <1>0, <1>1, <1>2 DEF OwnerOf, InRange, WhoOf
  <1>8. RangeOf(w)'
    BY Zenon, <1>0, <1>1, <1>2, <1>3 DEF RangeOf, Idle
  <1>9. OpenOf(w)'
    <2>1. fd[w] # NoObject => fd[w] = o
      BY Zenon DEF TurnsTaken, FdOwn
    <2>2. fd'[w] = NoObject
      BY Zenon, <1>2, <2>1 DEF Relink
    <2> QED
      BY Zenon, <1>3, <2>2 DEF OpenOf
  <1>10. \A q \in Objects : q[1] = b => file'[q] <= MaxFile + MaxBlocks
    BY Zenon, <1>1, <1>3, <1>4, Limits
  <1>11. /\ StoredFiles' = StoredFiles - 1
         /\ StoredBytes' = StoredBytes + Bytes(o)' - Bytes(o)
    BY Zenon, <1>1, <1>3, <1>4, OneFile DEF PrivInv
  <1>12. Bytes(o)' = 0 /\ Bytes(o) = req[w].size /\ req[w].size \in Int
    BY Zenon, <1>3, <1>n DEF Bytes
  <1>13. /\ DueEntries(w, b)' = stat[b].entries + (-1) /\ DueEntries(w, b) = stat[b].entries
         /\ DueSize(w, b)' = stat[b].size + (-req[w].size) /\ DueSize(w, b) = stat[b].size
    BY Zenon, <1>0, <1>2, <1>3, <1>7 DEF DueEntries, DueSize, EntriesDelta, SizeDelta
  <1>14. /\ StoredFiles' - StoredFiles <= DueEntries(w, b)' - DueEntries(w, b)
         /\ StoredBytes' - StoredBytes <= DueSize(w, b)' - DueSize(w, b)
         /\ StoredFiles' \in Int /\ StoredBytes' \in Int
    <2>1. /\ StoredFiles' - StoredFiles <= DueEntries(w, b)' - DueEntries(w, b)
          /\ StoredFiles' \in Int
      BY Zenon, <1>n, <1>11, <1>13, LessMove
    <2>2. /\ StoredBytes' - StoredBytes <= DueSize(w, b)' - DueSize(w, b)
          /\ StoredBytes' \in Int
      <3> PICK n \in Int, z \in Int, a \in Int :
                   n = req[w].size /\ z = StoredBytes /\ a = stat[b].size
        BY Zenon, <1>n
      <3>1. DueSize(w, b)' = a + (-n) /\ DueSize(w, b) = a /\ StoredBytes' = z + 0 - n
        BY Zenon, <1>11, <1>12, <1>13
      <3>2. (z + 0 - n) - z <= (a + (-n)) - a /\ z + 0 - n \in Int
        BY SMT, Z3
      <3> QED
        BY Zenon, <3>1, <3>2
    <2> QED
      BY Zenon, <2>1, <2>2
  <1> QED
    BY Zenon, <1>1, <1>n, <1>6, <1>7, <1>8, <1>9, <1>10, <1>14, FigureStep

\* The steps that leave the files alone leave what is due alone, too.
Quiet(w, o) ==
    /\ o = req[w].obj /\ file' = file /\ Others(w)
    /\ \A c \in Buckets \ {o[1]} : stat'[c] = stat[c]
    /\ pc'[w] = "idle" \/ req'[w].obj = o
    /\ stat'[o[1]].owner # Root => stat[o[1]].owner # Root
    /\ OwnerOf(o[1])' /\ InRange(stat[o[1]])'
    /\ WhoOf(w)' /\ RangeOf(w)' /\ OpenOf(w)'
    /\ OwnStat => /\ DueEntries(w, o[1])' = DueEntries(w, o[1])
                  /\ DueSize(w, o[1])' = DueSize(w, o[1])

LEMMA UpdateStep ==
    ASSUME PrivInv, PrivInv', TurnsTaken, FiguresInv, NEW w \in Workers, ~Idle(w),
           NEW o \in Objects, Quiet(w, o)
    PROVE  FiguresInv'
  <1> DEFINE b == o[1]
  <1>0. o = req[w].obj
    BY Zenon DEF Quiet
  <1>1. /\ b \in Buckets
        /\ \A v \in Workers \ {w} : Idle(v) \/ req[v].obj[1] # b
        /\ \A q \in Objects : file[q] <= MaxFile + MaxBlocks
    BY Zenon, <1>0, OwnBucket
  <1>2. StepIn(w, b)
    BY Zenon, <1>1 DEF StepIn, Quiet
  <1>3. StoredBytes' = StoredBytes /\ StoredFiles' = StoredFiles
    BY Zenon, SameFiles DEF Quiet
  <1>4. /\ DueEntries(w, b) \in Int /\ DueSize(w, b) \in Int
        /\ StoredFiles \in Int /\ StoredBytes \in Int
    BY Zenon, <1>0, <1>1, DueIsInt, OwnNumbers
  <1>5. OwnStat => DueEntries(w, b)' = DueEntries(w, b) /\ DueSize(w, b)' = DueSize(w, b)
    BY Zenon DEF Quiet
  <1>6. OwnStat => /\ StoredFiles' - StoredFiles <= DueEntries(w, b)' - DueEntries(w, b)
                   /\ StoredBytes' - StoredBytes <= DueSize(w, b)' - DueSize(w, b)
    BY SMT, Z3, <1>3, <1>4, <1>5
  <1>7. \A q \in Objects : q[1] = b => file'[q] <= MaxFile + MaxBlocks
    BY Zenon, <1>1 DEF Quiet
  <1> QED
    BY Zenon, <1>1, <1>2, <1>3, <1>4, <1>6, <1>7, FigureStep DEF Quiet

LEMMA PutEndFigures ==
    ASSUME FiguresKept, PrivInv, PrivInv', TurnsTaken, FiguresInv,
           NEW w \in Workers, PutEnd(w)
    PROVE  FiguresInv'
  <1>0. pc[w] = "write" /\ ~Idle(w)
    BY Zenon DEF PutEnd, Idle
  <1> PICK o \in Objects : o = req[w].obj
    BY Zenon, <1>0 DEF PrivInv, TypeOK
  <1>1. /\ OwnerOf(o[1]) /\ InRange(stat[o[1]]) /\ WhoOf(w) /\ RangeOf(w) /\ OpenOf(w)
    BY Zenon, <1>0, OwnBucket
  <1>2. /\ UNCHANGED <<file, stat, fd, ofs, info, fsuid>>
        /\ pc' = [pc EXCEPT ![w] = "parse"]
        /\ req' = [req EXCEPT ![w].size = ofs[w]]
    BY Zenon DEF PutEnd
  <1>3. /\ pc'[w] = "parse" /\ req'[w].obj = o
        /\ req'[w].kind = req[w].kind /\ req'[w].size = ofs[w]
    BY Zenon, <1>2, LocalTypes
  <1>4. req[w].kind # "delete"
    BY Zenon, <1>0, <1>1 DEF OpenOf
  <1>5. Others(w)
    BY Zenon, <1>2, LocalTypes DEF Others
  <1>6. OwnerOf(o[1])' /\ InRange(stat[o[1]])'
    BY Zenon, <1>1, <1>2 DEF OwnerOf, InRange
  <1>7. WhoOf(w)'
    BY Zenon, <1>0, <1>1, <1>2, <1>3 DEF WhoOf
  <1>8. RangeOf(w)'
    <2>1. ofs[w] <= MaxBlocks /\ ofs[w] <= MaxFile + MaxBlocks
      BY SMT, Z3, LocalNumbers, Limits
    <2> QED
      BY Zenon, <1>0, <1>1, <1>2, <1>3, <1>4, <2>1 DEF RangeOf, Idle
  <1>9. OpenOf(w)'
    BY Zenon, <1>1, <1>2, <1>3 DEF OpenOf
  <1>10. /\ DueEntries(w, o[1])' = DueEntries(w, o[1])
         /\ DueSize(w, o[1])' = DueSize(w, o[1])
    <2>1. /\ pc'[w] # "write" /\ pc[w] = "write" /\ stat' = stat
      BY Zenon, <1>0, <1>2, <1>3
    <2>2. EntriesDelta(w) = 1 /\ EntriesDelta(w)' = 1 /\ SizeDelta(w)' = ofs[w]
      BY Zenon, <1>3, <1>4 DEF EntriesDelta, SizeDelta
    <2>3. /\ DueEntries(w, o[1]) = stat[o[1]].entries + 1
          /\ DueSize(w, o[1]) = stat[o[1]].size + ofs[w]
      BY Zenon, <2>1, <2>2 DEF DueEntries, DueSize
    <2>4. /\ DueEntries(w, o[1])' = stat[o[1]].entries + 1
          /\ DueSize(w, o[1])' = stat[o[1]].size + ofs[w]
      BY Zenon, <1>3, <2>1, <2>2 DEF DueEntries, DueSize
    <2> QED
      BY Zenon, <2>3, <2>4
  <1> QED
    BY Zenon, <1>0, <1>2, <1>3, <1>5, <1>6, <1>7, <1>8, <1>9, <1>10, UpdateStep DEF Quiet

LEMMA StatParseFigures ==
    ASSUME FiguresKept, PrivInv, PrivInv', TurnsTaken, FiguresInv,
           NEW w \in Workers, StatParse(w)
    PROVE  FiguresInv'
  <1>0. pc[w] = "parse" /\ ~Idle(w)
    BY Zenon DEF StatParse, Idle
  <1> PICK o \in Objects : o = req[w].obj
    BY Zenon, <1>0 DEF PrivInv, TypeOK
  <1> DEFINE s == stat[o[1]]
  <1>1. /\ OwnerOf(o[1]) /\ InRange(s) /\ WhoOf(w) /\ RangeOf(w) /\ OpenOf(w)
    BY Zenon, <1>0, OwnBucket
  <1>n. /\ s.entries \in Int /\ s.size \in Int
        /\ s.entries \in -MaxStat .. MaxStat /\ s.size \in -Reach .. Reach
    BY Zenon, <1>0, <1>1, OwnNumbers DEF InRange
  <1>2. /\ UNCHANGED <<file, stat, req, fd, ofs, fsuid>>
        /\ pc' = [pc EXCEPT ![w] = "sync"]
        /\ info' = [info EXCEPT ![w] = [entries |-> Atoi(s.entries) + EntriesDelta(w),
                                        size    |-> Atoi(s.size) + SizeDelta(w)]]
    <2>1. ~Happens("open")
      BY Zenon DEF FiguresKept, TakeTurns, Happens
    <2> QED
      BY Zenon, <2>1 DEF StatParse
  <1>3. /\ MaxStat \in Nat /\ MaxFile \in Nat /\ MaxBlocks \in Nat /\ Reach \in Nat
        /\ MaxStat <= Reach /\ Reach = MaxStat + (MaxFile + MaxBlocks)
    BY SMT, Z3, Limits DEF Reach
  <1>4. s.entries \in -Reach .. Reach /\ s.size \in -Reach .. Reach
    BY Zenon, <1>n, MaxStatInReach
  <1>5. Atoi(s.entries) = s.entries /\ Atoi(s.size) = s.size
    BY Zenon, <1>4, AtoiInRange
  <1>6. /\ pc'[w] = "sync"
        /\ info'[w].entries = s.entries + EntriesDelta(w)
        /\ info'[w].size = s.size + SizeDelta(w)
    <2>1. info' = [info EXCEPT ![w] = [entries |-> s.entries + EntriesDelta(w),
                                       size    |-> s.size + SizeDelta(w)]]
      BY Zenon, <1>2, <1>5
    <2> QED
      <3>1. /\ pc'[w] = "sync"
            /\ info'[w] = [entries |-> s.entries + EntriesDelta(w),
                           size    |-> s.size + SizeDelta(w)]
        BY Zenon, <1>2, <2>1, LocalTypes, Assigned
      <3> QED
        BY SMT, Z3, <3>1
  <1>7. Others(w)
    BY Zenon, <1>2, LocalTypes DEF Others
  <1>8. OwnerOf(o[1])' /\ InRange(stat[o[1]])'
    BY Zenon, <1>1, <1>2 DEF OwnerOf, InRange
  <1>9. WhoOf(w)'
    BY Zenon, <1>0, <1>1, <1>2 DEF WhoOf
  <1>10. /\ req[w].size \in Nat /\ req[w].size <= MaxFile + MaxBlocks
         /\ req[w].kind # "delete" => req[w].size <= MaxBlocks
         /\ req[w].kind = "delete" => s.entries > -MaxStat /\ s.size > -MaxStat
         /\ req[w].kind # "delete" => s.entries < MaxStat /\ s.size < MaxStat
    BY Zenon, <1>0, <1>1, LocalNumbers DEF RangeOf
  <1> HIDE DEF s
  <1>11. /\ s.entries + EntriesDelta(w) \in -MaxStat .. MaxStat
         /\ s.size + SizeDelta(w) \in -Reach .. Reach
    <2>1. CASE req[w].kind = "delete"
      BY SMT, Z3, <1>n, <1>3, <1>10, <2>1 DEF EntriesDelta, SizeDelta
    <2>2. CASE req[w].kind # "delete"
      BY SMT, Z3, <1>n, <1>3, <1>10, <2>2 DEF EntriesDelta, SizeDelta
    <2> QED
      BY Zenon, <2>1, <2>2
  <1>12. RangeOf(w)'
    <2>1. InRange(info[w])'
      BY Zenon, <1>6, <1>11 DEF InRange
    <2> QED
      BY Zenon, <1>2, <1>6, <1>10, <2>1 DEF RangeOf
  <1>13. OpenOf(w)'
    BY Zenon, <1>1, <1>2, <1>6 DEF OpenOf
  <1>14. /\ DueEntries(w, o[1])' = DueEntries(w, o[1])
         /\ DueSize(w, o[1])' = DueSize(w, o[1])
    BY Zenon, <1>0, <1>6 DEF DueEntries, DueSize, s
  <1> QED
    BY Zenon, <1>0, <1>2, <1>7, <1>8, <1>9, <1>12, <1>13, <1>14, UpdateStep DEF Quiet

\* fopen() is refused only when the stat file belongs to root.
LEMMA StatOpenFailsFigures ==
    ASSUME FiguresKept, PrivInv, PrivInv', TurnsTaken, FiguresInv,
           NEW w \in Workers, StatOpenFails(w)
    PROVE  FiguresInv'
  <1>0. pc[w] = "sync" /\ ~Idle(w)
    BY Zenon DEF StatOpenFails, Idle
  <1> PICK o \in Objects : o = req[w].obj
    BY Zenon, <1>0 DEF PrivInv, TypeOK
  <1>1. /\ OwnerOf(o[1]) /\ InRange(stat[o[1]]) /\ WhoOf(w) /\ RangeOf(w) /\ OpenOf(w)
        /\ o[1] \in Buckets
    BY Zenon, <1>0, OwnBucket
  <1>2. /\ UNCHANGED <<file, stat, req, fd, ofs, info, fsuid>>
        /\ pc' = [pc EXCEPT ![w] = "restore"] /\ ~MayWriteStat(fsuid[w], o[1])
    BY Zenon DEF StatOpenFails, FiguresKept, TakeTurns, Happens
  <1>3. stat[o[1]].owner = Root
    BY Zenon, <1>0, <1>1, <1>2 DEF MayWriteStat, MayCreate, WhoOf, OwnerOf
  <1>4. ~OwnStat
    BY Zenon, <1>1, <1>3 DEF OwnStat
  <1>5. pc'[w] = "restore" /\ Others(w)
    BY Zenon, <1>2, LocalTypes, Assigned DEF Others
  <1>6. OwnerOf(o[1])' /\ InRange(stat[o[1]])' /\ WhoOf(w)'
    BY Zenon, <1>0, <1>1, <1>2 DEF OwnerOf, InRange, WhoOf
  <1>7. RangeOf(w)' /\ OpenOf(w)'
    BY Zenon, <1>0, <1>1, <1>2, <1>5 DEF RangeOf, OpenOf, Idle
  <1> QED
    BY Zenon, <1>0, <1>2, <1>4, <1>5, <1>6, <1>7, UpdateStep DEF Quiet

LEMMA StatOpenFigures ==
    ASSUME FiguresKept, PrivInv, PrivInv', TurnsTaken, FiguresInv,
           NEW w \in Workers, StatOpen(w)
    PROVE  FiguresInv'
  <1>0. pc[w] = "sync" /\ ~Idle(w)
    BY Zenon DEF StatOpen, Idle
  <1> PICK o \in Objects : o = req[w].obj
    BY Zenon, <1>0 DEF PrivInv, TypeOK
  <1>1. /\ OwnerOf(o[1]) /\ WhoOf(w) /\ RangeOf(w) /\ OpenOf(w) /\ o[1] \in Buckets
    BY Zenon, <1>0, OwnBucket
  <1> DEFINE who == IF stat[o[1]].owner = NoOne THEN fsuid[w] ELSE stat[o[1]].owner
  <1>2. /\ UNCHANGED <<file, req, fd, ofs, info, fsuid>>
        /\ pc' = [pc EXCEPT ![w] = "fputs"]
        /\ stat' = [stat EXCEPT ![o[1]] = [owner |-> who, entries |-> 0, size |-> 0]]
    BY Zenon DEF StatOpen
  <1> HIDE DEF who
  <1>3. /\ pc'[w] = "fputs"
        /\ stat'[o[1]].owner = who /\ stat'[o[1]].entries = 0 /\ stat'[o[1]].size = 0
    BY Zenon, <1>1, <1>2, LocalTypes, StatType
  <1>4. Others(w) /\ \A c \in Buckets \ {o[1]} : stat'[c] = stat[c]
    BY Zenon, <1>1, <1>2, LocalTypes, StatType, Assigned DEF Others
  <1>5. OwnerOf(o[1])'
    BY Zenon, <1>0, <1>1, <1>3 DEF OwnerOf, WhoOf, who
  <1>6. who # Root => stat[o[1]].owner # Root
    BY Zenon, ObjectOpsAssumption DEF who
  <1>7. InRange(stat[o[1]])'
    <2>1. 0 \in -MaxStat .. MaxStat /\ 0 \in -Reach .. Reach
      BY SMT, Z3, Limits DEF Reach
    <2> QED
      BY Zenon, <1>3, <2>1 DEF InRange
  <1>8. WhoOf(w)'
    BY Zenon, <1>0, <1>1, <1>2 DEF WhoOf
  <1>9. RangeOf(w)' /\ OpenOf(w)'
    <2>1. InRange(info[w]) /\ InRange(info[w])'
      BY Zenon, <1>0, <1>1, <1>2 DEF RangeOf, InRange
    <2> QED
      BY Zenon, <1>0, <1>1, <1>2, <1>3, <2>1 DEF RangeOf, OpenOf, Idle
  <1>10. /\ DueEntries(w, o[1])' = DueEntries(w, o[1])
         /\ DueSize(w, o[1])' = DueSize(w, o[1])
    BY Zenon, <1>0, <1>2, <1>3 DEF DueEntries, DueSize
  <1> QED
    BY Zenon, <1>0, <1>2, <1>3, <1>4, <1>5, <1>6, <1>7, <1>8, <1>9, <1>10, UpdateStep DEF Quiet

LEMMA StatWriteFigures ==
    ASSUME FiguresKept, PrivInv, PrivInv', TurnsTaken, FiguresInv,
           NEW w \in Workers, StatWrite(w)
    PROVE  FiguresInv'
  <1>0. pc[w] = "fputs" /\ ~Idle(w)
    BY Zenon DEF StatWrite, Idle
  <1> PICK o \in Objects : o = req[w].obj
    BY Zenon, <1>0 DEF PrivInv, TypeOK
  <1>1. /\ OwnerOf(o[1]) /\ WhoOf(w) /\ RangeOf(w) /\ OpenOf(w) /\ o[1] \in Buckets
    BY Zenon, <1>0, OwnBucket
  <1>2. /\ UNCHANGED <<file, req, fd, ofs, info, fsuid>>
        /\ pc' = [pc EXCEPT ![w] = "restore"]
        /\ stat' = [stat EXCEPT ![o[1]] = [owner |-> stat[o[1]].owner,
                                           entries |-> info[w].entries, size |-> info[w].size]]
    BY Zenon DEF StatWrite
  <1>3. /\ pc'[w] = "restore" /\ stat'[o[1]].owner = stat[o[1]].owner
        /\ stat'[o[1]].entries = info[w].entries /\ stat'[o[1]].size = info[w].size
    BY Zenon, <1>1, <1>2, LocalTypes, StatType
  <1>4. Others(w) /\ \A c \in Buckets \ {o[1]} : stat'[c] = stat[c]
    BY Zenon, <1>1, <1>2, LocalTypes, StatType, Assigned DEF Others
  <1>5. OwnerOf(o[1])'
    BY Zenon, <1>1, <1>3 DEF OwnerOf
  <1>6. InRange(stat[o[1]])'
    BY Zenon, <1>0, <1>1, <1>3 DEF RangeOf, InRange
  <1>7. WhoOf(w)'
    BY Zenon, <1>0, <1>1, <1>2 DEF WhoOf
  <1>8. RangeOf(w)' /\ OpenOf(w)'
    BY Zenon, <1>0, <1>1, <1>2, <1>3 DEF RangeOf, OpenOf, Idle
  <1>9. /\ DueEntries(w, o[1])' = DueEntries(w, o[1])
        /\ DueSize(w, o[1])' = DueSize(w, o[1])
    BY Zenon, <1>0, <1>2, <1>3 DEF DueEntries, DueSize
  <1> QED
    BY Zenon, <1>0, <1>2, <1>3, <1>4, <1>5, <1>6, <1>7, <1>8, <1>9, UpdateStep DEF Quiet

LEMMA RestoreFigures ==
    ASSUME FiguresKept, PrivInv, PrivInv', TurnsTaken, FiguresInv,
           NEW w \in Workers, RestorePrivs(w)
    PROVE  FiguresInv'
  <1>0. pc[w] = "restore" /\ ~Idle(w)
    BY Zenon DEF RestorePrivs, Idle
  <1> PICK o \in Objects : o = req[w].obj
    BY Zenon, <1>0 DEF PrivInv, TypeOK
  <1>1. OwnerOf(o[1]) /\ InRange(stat[o[1]])
    BY Zenon, <1>0, OwnBucket
  <1>2. /\ file' = file /\ stat' = stat /\ pc'[w] = "idle" /\ fd'[w] = NoObject
        /\ Others(w)
    BY Zenon, LocalTypes DEF RestorePrivs, Others
  <1>3. OwnerOf(o[1])' /\ InRange(stat[o[1]])'
    BY Zenon, <1>1, <1>2 DEF OwnerOf, InRange
  <1>4. WhoOf(w)' /\ RangeOf(w)' /\ OpenOf(w)'
    BY Zenon, <1>2 DEF WhoOf, RangeOf, OpenOf, Idle
  <1>5. /\ DueEntries(w, o[1])' = DueEntries(w, o[1])
        /\ DueSize(w, o[1])' = DueSize(w, o[1])
    BY Zenon, <1>0, <1>2 DEF DueEntries, DueSize
  <1> QED
    BY Zenon, <1>0, <1>2, <1>3, <1>4, <1>5, UpdateStep DEF Quiet

\* rename() moves a file, and what it replaces is gone: nothing is added.
LEMMA SumMoved ==
    ASSUME NEW S, IsFiniteSet(S), NEW f \in [S -> Int], NEW h \in [S -> Int],
           NEW o \in S, NEW p \in S, o # p, f[p] >= 0, h[o] = 0, h[p] = f[o],
           \A q \in S \ {o, p} : h[q] = f[q]
    PROVE  SumFunction(f) \in Int /\ SumFunction(h) \in Int /\ SumFunction(h) <= SumFunction(f)
  <1> DEFINE g == [f EXCEPT ![p] = h[p]]
  <1>1. g \in [S -> Int] /\ g[p] = h[p] /\ \A q \in S \ {p} : g[q] = f[q]
    BY Zenon
  <1> HIDE DEF g
  <1>2. SumFunction(g) = SumFunction(f) + g[p] - f[p]
    BY SMT, Z3, <1>1, SumOneChanged
  <1>3. \A q \in S \ {o} : h[q] = g[q]
    BY Zenon, <1>1
  <1>4. SumFunction(h) = SumFunction(g) + h[o] - g[o]
    BY Zenon, <1>1, <1>3, SumOneChanged
  <1>5. SumFunction(f) \in Int /\ SumFunction(h) \in Int
    BY Zenon, SumInt
  <1>6. g[o] = f[o] /\ f[o] \in Int /\ f[p] \in Int /\ g[p] = f[o]
    BY Zenon, <1>1
  <1> QED
    BY SMT, Z3, <1>2, <1>4, <1>5, <1>6

LEMMA MovedFile ==
    ASSUME TypeOK, TypeOK', NEW o \in Objects, NEW p \in Objects, o # p, file[o] # Absent,
           file' = [file EXCEPT ![p] = file[o], ![o] = Absent]
    PROVE  /\ StoredBytes' \in Int /\ StoredBytes \in Int /\ StoredBytes' <= StoredBytes
           /\ StoredFiles' \in Int /\ StoredFiles \in Int /\ StoredFiles' <= StoredFiles
  <1>1. /\ file'[o] = Absent /\ file'[p] = file[o]
        /\ \A q \in Objects \ {o, p} : file'[q] = file[q]
    BY Zenon DEF TypeOK
  <1> DEFINE f == [q \in Objects |-> Bytes(q)]
             h == [q \in Objects |-> Bytes(q)']
             g == [q \in Objects |-> Held(q)]
             k == [q \in Objects |-> Held(q)']
  <1>2. /\ f \in [Objects -> Int] /\ h \in [Objects -> Int]
        /\ f[p] >= 0 /\ h[o] = 0 /\ h[p] = f[o]
    <2>1. \A q \in Objects : Bytes(q) \in Int /\ Bytes(q)' \in Int /\ Bytes(q) >= 0
      <3>1. \A q \in Objects : file[q] \in Nat \cup {Absent} /\ file'[q] \in Nat \cup {Absent}
        BY Zenon DEF TypeOK
      <3>2. \A x \in Nat \cup {Absent} : /\ (IF x = Absent THEN 0 ELSE x) \in Int
                                         /\ (IF x = Absent THEN 0 ELSE x) >= 0
        OBVIOUS
      <3> QED
        BY Zenon, <3>1, <3>2 DEF Bytes
    <2>2. f \in [Objects -> Int] /\ h \in [Objects -> Int] /\ f[p] >= 0
      BY Zenon, <2>1
    <2>3. h[o] = 0 /\ h[p] = f[o]
      BY Zenon, <1>1 DEF Bytes
    <2> QED
      BY Zenon, <2>2, <2>3
  <1>3. /\ g \in [Objects -> Int] /\ k \in [Objects -> Int]
        /\ g[p] >= 0 /\ k[o] = 0 /\ k[p] = g[o]
    BY SMT, Z3, <1>1 DEF Held
  <1>4. \A q \in Objects \ {o, p} : h[q] = f[q] /\ k[q] = g[q]
    BY Zenon, <1>1 DEF Bytes, Held
  <1>5. /\ StoredBytes = SumFunction(f) /\ StoredBytes' = SumFunction(h)
        /\ StoredFiles = SumFunction(g) /\ StoredFiles' = SumFunction(k)
    BY Zenon DEF StoredBytes, StoredFiles
  <1> HIDE DEF f, h, g, k
  <1> QED
    BY Zenon, <1>2, <1>3, <1>4, <1>5, ObjectsFinite, SumMoved

LEMMA CopyFigures ==
    ASSUME FiguresKept, PrivInv, PrivInv', TurnsTaken, FiguresInv,
           NEW w \in Workers, NEW u \in Users \cup {Root}, NEW o \in Objects, NEW p \in Objects,
           CopyObj(w, u, o, p)
    PROVE  FiguresInv'
  <1>1. UNCHANGED <<stat, pc, req, ofs, info, fsuid>>
    BY Zenon DEF CopyObj
  <1>2. /\ \A v \in Workers : ~Idle(v) => req[v].obj[1] # o[1]
        /\ \A v \in Workers : ~Idle(v) => req[v].obj[1] # p[1]
    <2>1. TakeTurns /\ Requested(w, u, o) /\ Requested(w, u, p)
      BY Zenon DEF CopyObj, FiguresKept
    <2> QED
      BY SMT, Z3, <2>1, StartsApart
  <1>3. \/ file' = file /\ fd' = fd
        \/ /\ o # p /\ file[o] # Absent
           /\ file' = [file EXCEPT ![p] = file[o], ![o] = Absent]
           /\ fd' = Relink(Relink(fd, p, NoObject), o, p)
    BY Zenon DEF CopyObj
  <1>4. /\ StoredBytes' \in Int /\ StoredBytes \in Int /\ StoredBytes' <= StoredBytes
        /\ StoredFiles' \in Int /\ StoredFiles \in Int
        /\ StoredFiles' <= StoredFiles
    <2>1. CASE file' = file
      <3>1. StoredFiles \in Int /\ StoredBytes \in Int
        BY Zenon, SumsInt DEF PrivInv
      <3>2. StoredBytes' = StoredBytes /\ StoredFiles' = StoredFiles
        BY Zenon, <2>1, SameFiles
      <3> QED
        BY SMT, Z3, <3>1, <3>2
    <2>2. CASE o # p /\ file[o] # Absent /\ file' = [file EXCEPT ![p] = file[o], ![o] = Absent]
      BY Zenon, <2>2, MovedFile DEF PrivInv
    <2> QED
      BY Zenon, <1>3, <2>1, <2>2
  <1>5. ASSUME NEW v \in Workers, ~Idle(v)
        PROVE  file'[req[v].obj] = file[req[v].obj]
    <2>1. req[v].obj \in Objects /\ req[v].obj # o /\ req[v].obj # p
      BY Zenon, <1>2, <1>5 DEF PrivInv, TypeOK
    <2> QED
      BY Zenon, <1>3, <2>1, FileType
  <1>6. ASSUME NEW v \in Workers PROVE fd'[v] = fd[v]
    <2>1. fd[v] # NoObject => fd[v] = req[v].obj /\ ~Idle(v)
      BY Zenon DEF TurnsTaken, FdOwn
    <2>2. fd[v] # NoObject => fd[v] # o /\ fd[v] # p
      BY Zenon, <1>2, <2>1
    <2>3. o # NoObject /\ p # NoObject
      BY Zenon, NoObjectOutside
    <2>4. fd[v] # o /\ fd[v] # p
      BY Zenon, <2>2, <2>3
    <2> QED
      BY Zenon, <1>3, <2>4 DEF Relink
  <1>7. ASSUME NEW v \in Workers PROVE WhoOf(v)' /\ RangeOf(v)' /\ OpenOf(v)'
    <2>1. WhoOf(v) /\ RangeOf(v) /\ OpenOf(v)
      BY Zenon DEF FiguresInv
    <2>2. WhoOf(v)' /\ RangeOf(v)'
      BY Zenon, <1>1, <2>1 DEF WhoOf, RangeOf, InRange, Idle
    <2>3. fd[v] # NoObject => fd[v] = req[v].obj /\ ~Idle(v)
      BY Zenon DEF TurnsTaken, FdOwn
    <2>4. pc[v] = "rm" => ~Idle(v)
      BY Zenon DEF Idle
    <2>5. OpenOf(v)'
      BY Zenon, <1>1, <1>5, <1>6, <2>1, <2>3, <2>4 DEF OpenOf
    <2> QED
      BY Zenon, <2>2, <2>5
  <1>8. \A b \in Buckets : OwnerOf(b)' /\ InRange(stat[b])'
    BY Zenon, <1>1 DEF FiguresInv, OwnerOf, InRange
  <1>9. ASSUME NEW q \in Objects PROVE file'[q] <= MaxFile + MaxBlocks
    <2>1. file[q] <= MaxFile + MaxBlocks /\ file[o] <= MaxFile + MaxBlocks
      BY Zenon DEF FiguresInv
    <2>2. file'[q] \in {file[q], file[o], Absent}
      BY Zenon, <1>3, FileType
    <2>3. Absent <= MaxFile + MaxBlocks
      BY SMT, Z3, ObjectOpsAssumption DEF Absent
    <2> QED
      BY Zenon, <2>1, <2>2, <2>3
  <1>10. ASSUME OwnStat' PROVE DueCovers'
    <2>1. OwnStat
      BY Zenon, <1>1, <1>10 DEF OwnStat
    <2>2. PICK e \in [Buckets -> Int], z \in [Buckets -> Int] :
              /\ Due(e, z)
              /\ SumFunction(e) >= StoredFiles
              /\ SumFunction(z) >= StoredBytes
      BY Zenon, <2>1 DEF DueCovers, FiguresInv
    <2>3. Due(e, z)'
      BY Zenon, <1>1, <2>2
         DEF Due, Unused, Idle, DueEntries, DueSize, EntriesDelta, SizeDelta
    <2>4. SumFunction(e) \in Int /\ SumFunction(z) \in Int
      BY Zenon, FiniteStore, SumInt
    <2>5. SumFunction(e) >= StoredFiles' /\ SumFunction(z) >= StoredBytes'
      BY SMT, Z3, <1>4, <2>2, <2>4
    <2> QED
      BY Zenon, <2>3, <2>5 DEF DueCovers
  <1> QED
    BY Zenon, <1>7, <1>8, <1>9, <1>10 DEF FiguresInv

LEMMA InitFigures == Init => FiguresInv
  <1> SUFFICES ASSUME Init PROVE FiguresInv
    OBVIOUS
  <1>1. \A b \in Buckets : stat[b] = NoStat
    BY Zenon DEF Init
  <1>2. \A b \in Buckets : OwnerOf(b) /\ InRange(stat[b])
    BY SMT, Z3, <1>1, ObjectOpsAssumption DEF OwnerOf, InRange, NoStat, Reach
  <1>3. \A o \in Objects : file[o] = Absent
    BY Zenon DEF Init
  <1>4. \A o \in Objects : file[o] <= MaxFile + MaxBlocks
    BY SMT, Z3, <1>3, ObjectOpsAssumption DEF Absent
  <1>5. \A w \in Workers : pc[w] = "idle" /\ fd[w] = NoObject
    BY Zenon DEF Init
  <1>6. \A w \in Workers : WhoOf(w) /\ RangeOf(w) /\ OpenOf(w)
    BY Zenon, <1>5 DEF WhoOf, RangeOf, OpenOf, Idle
  <1>7. DueCovers
    <2> DEFINE none == [b \in Buckets |-> 0]
               nothing == [o \in Objects |-> 0]
    <2>1. none \in [Buckets -> Int] /\ \A b \in Buckets : none[b] = 0
      OBVIOUS
    <2>n. nothing \in [Objects -> Int] /\ \A o \in Objects : nothing[o] = 0
      OBVIOUS
    <2>2. SumFunction(none) = 0 /\ SumFunction(nothing) = 0
      <3> HIDE DEF none, nothing
      <3> QED
        BY Zenon, <2>1, <2>n, SumZero, FiniteStore, ObjectsFinite
    <2>3. StoredBytes = SumFunction(nothing) /\ StoredFiles = SumFunction(nothing)
      <3>1. [o \in Objects |-> Bytes(o)] = nothing /\ [o \in Objects |-> Held(o)] = nothing
        BY Zenon, <1>3 DEF Bytes, Held
      <3> QED
        BY Zenon, <3>1 DEF StoredBytes, StoredFiles
    <2>6. \A b \in Buckets : stat[b].entries = 0 /\ stat[b].size = 0
      BY SMT, Z3, <1>1 DEF NoStat
    <2> HIDE DEF none, nothing
    <2>7. Due(none, none)
      BY Zenon, <1>5, <2>1, <2>6 DEF Due, Idle
    <2>8. SumFunction(none) >= StoredFiles /\ SumFunction(none) >= StoredBytes
      BY SMT, Z3, <2>2, <2>3
    <2> QED
      BY Zenon, <2>1, <2>7, <2>8 DEF DueCovers
  <1> QED
    BY Zenon, <1>2, <1>4, <1>6, <1>7 DEF FiguresInv

LEMMA FiguresStep ==
    ASSUME FiguresKept, PrivInv, PrivInv', TurnsTaken, FiguresInv, [Next]_vars
    PROVE  FiguresInv'
  <1>1. CASE Crash
    BY Zenon, <1>1 DEF Crash, FiguresKept, Happens
  <1>2. ASSUME NEW w \in Workers, NEW u \in Users \cup {Root}, NEW o \in Objects,
               \/ \E kind \in {"put", "part"} : \/ PutRefused(w, u, kind, o)
                                                \/ PutOpen(w, u, kind, o)
                                                \/ PutOpenFails(w, u, kind, o)
               \/ DeleteStat(w, u, o)
               \/ \E p \in Objects : CopyObj(w, u, o, p)
        PROVE  FiguresInv'
    BY Zenon, <1>2, PutRefusedFigures, PutOpenFigures, DeleteStatFigures, CopyFigures
  <1>3. ASSUME NEW w \in Workers, Continue(w) PROVE FiguresInv'
    <2>1. ~PutDataFails(w)
      BY Zenon DEF PutDataFails, FiguresKept, TakeTurns, Happens
    <2> QED
      BY Zenon, <1>3, <2>1, PutDataFigures, PutEndFigures, DeleteRmFigures,
         StatParseFigures, StatOpenFigures, StatOpenFailsFigures, StatWriteFigures,
         RestoreFigures DEF Continue
  <1>4. CASE UNCHANGED vars
    <2>1. UNCHANGED <<file, stat, pc, req, fd, ofs, info, fsuid>>
      BY Zenon, <1>4 DEF vars, workerVars
    <2>2. UNCHANGED <<StoredBytes, StoredFiles>>
      BY Zenon, <2>1, SameFiles
    <2>3. ASSUME NEW e, NEW z, Due(e, z) PROVE Due(e, z)'
      <3>1. \A w \in Workers, b \in Buckets : /\ DueEntries(w, b)' = DueEntries(w, b)
                                              /\ DueSize(w, b)' = DueSize(w, b)
        BY Zenon, <2>1 DEF DueEntries, DueSize, EntriesDelta, SizeDelta
      <3> QED
        BY Zenon, <2>1, <2>3, <3>1 DEF Due, Unused, Idle
    <2>4. DueCovers => DueCovers'
      BY Zenon, <2>2, <2>3 DEF DueCovers
    <2> QED
      BY Zenon, <2>1, <2>4
         DEF FiguresInv, OwnerOf, InRange, WhoOf, RangeOf, OpenOf, OwnStat, Idle
  <1> QED
    BY Zenon, <1>1, <1>2, <1>3, <1>4, NextCases

\* When nobody is at work, what is due is what the stat files say.
LEMMA FiguresEnough ==
    ASSUME TypeOK, FiguresInv
    PROVE  FiguresCoverFiles
  <1> SUFFICES ASSUME AllIdle, OwnStat
               PROVE  /\ SumFunction([b \in Buckets |-> stat[b].entries]) >= StoredFiles
                      /\ SumFunction([b \in Buckets |-> stat[b].size]) >= StoredBytes
    BY Zenon
       DEF FiguresCoverFiles, EntriesCoverFiles, SizeCoversFiles, StoredBytes, StoredFiles
  <1>1. PICK e \in [Buckets -> Int], z \in [Buckets -> Int] :
            /\ Due(e, z)
            /\ SumFunction(e) >= StoredFiles
            /\ SumFunction(z) >= StoredBytes
    BY Zenon DEF FiguresInv, DueCovers
  <1>2. \A b \in Buckets : e[b] = stat[b].entries /\ z[b] = stat[b].size
    BY Zenon, <1>1 DEF Due, Unused, AllIdle
  <1>3. /\ e = [b \in Buckets |-> stat[b].entries]
        /\ z = [b \in Buckets |-> stat[b].size]
    BY Zenon, <1>2
  <1> QED
    BY Zenon, <1>1, <1>3

\* When the requests to a bucket take turns, deletes remove their files and
\* nothing else fails, the figures of the stat files never fall below what the
\* files hold, however many buckets, keys and uploads there are.
THEOREM FiguresAlwaysCover ==
    ASSUME FiguresKept
    PROVE  Spec => []FiguresCoverFiles
  <1>0. TakeTurns
    BY DEF FiguresKept
  <1>1. PrivInv /\ PrivInv' /\ TurnsTaken /\ FiguresInv /\ [Next]_vars => FiguresInv'
    BY Zenon, FiguresStep
  <1>2. PrivInv /\ FiguresInv => FiguresCoverFiles
    BY Zenon, FiguresEnough DEF PrivInv
  <1>3. Spec => []TurnsTaken
    BY Zenon, <1>0, TurnsAlways
  <1> QED
    BY InitPriv, InitFigures, PrivStep, <1>1, <1>2, <1>3, PTL DEF Spec

=============================================================================
