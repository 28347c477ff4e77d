-------------------------- MODULE Counting_proofs ---------------------------
(***************************************************************************)
(* The throttle that keeps the order of its operations, the object whose   *)
(* references are counted, and the thread pool, for any number of threads, *)
(* operations and items.                                                   *)
(***************************************************************************)
EXTENDS Counting, ThreadPool, FiniteSetTheorems, TLAPS

\* The instances have cardinality under a name of their own.
LEMMA OrderCounted == \A S : Order!Cardinality(S) = Cardinality(S)
  BY DEF Order!Cardinality, Cardinality

LEMMA RefCounted == \A S : Ref!Cardinality(S) = Cardinality(S)
  BY DEF Ref!Cardinality, Cardinality

LEMMA RefFinite == \A S : Ref!IsFiniteSet(S) <=> IsFiniteSet(S)
  BY DEF Ref!IsFiniteSet, IsFiniteSet

-----------------------------------------------------------------------------
(* The throttle that keeps the order.                                      *)

LEMMA OrderFacts == MaxOps \in Nat /\ MaxCurrent \in Nat
  BY OrderAssumption DEF Order!OrderAssumption

InCall(t) == orderPc[t] \in {"startcall", "retcall", "startback", "retback"}
Starting(t) == orderPc[t] \in {"start", "startwait", "startcall", "startback"}
InFlight == {i \in Order!Tids : result[i] \in {"running", "finished"}}

OrderTypes ==
    /\ current \in 0 .. MaxCurrent
    /\ nextTid \in Nat /\ completeTid \in Nat
    /\ result \in [Order!Tids -> Order!ResultStates]
    /\ retVal \in [Order!Tids -> Order!Outcomes] /\ ret \in Order!Outcomes
    /\ orderPc \in [Order!Threads -> Order!PcStates]
    /\ tid \in [Order!Threads -> Nat]
    /\ called \in Seq(Order!Tids)

\* The operations that left the map are the first ones, in their order.
CallLine ==
    /\ \A k \in 1 .. Len(called) : called[k] = k - 1
    /\ \A i \in Order!Tids : result[i] = "erased" <=> i < Len(called)

TidLine == \A i \in Order!Tids : i >= nextTid => result[i] = "none"

\* m_complete_tid is behind by one exactly while a thread is between the callback and
\* the increment, and then no other can be.
OneCaller ==
    /\ \A t, u \in Order!Threads : InCall(t) /\ InCall(u) => t = u
    /\ (\E t \in Order!Threads : InCall(t)) => Len(called) = completeTid + 1
    /\ (\A t \in Order!Threads : ~InCall(t)) => Len(called) = completeTid

\* Only the starter is inside start_op(), and its operation has not begun.
StarterOnly ==
    \A t \in Order!Threads :
        Starting(t) => t = Starter /\ tid[t] \in Order!Tids /\ result[tid[t]] = "starting"

CurrentIs ==
    current = Cardinality(InFlight) + IF \E t \in Order!Threads : Order!Calling(t) THEN 1 ELSE 0

Failed == {i \in Order!Ended : Order!Counted(retVal[i])}

RetIs ==
    \/ Failed = {} /\ ret = "ok"
    \/ \E i \in Failed : (\A j \in Failed : i <= j) /\ ret = retVal[i]

OrderInv ==
    OrderTypes /\ CallLine /\ TidLine /\ OneCaller /\ StarterOnly /\ CurrentIs /\ RetIs

LEMMA OrderInit == Order!Init => OrderInv
  <1> SUFFICES ASSUME Order!Init PROVE OrderInv
    OBVIOUS
  <1>1. OrderTypes
    BY OrderFacts DEF Order!Init, OrderTypes, Order!ResultStates, Order!Outcomes, Order!PcStates
  <1>p. \A t \in Order!Threads : orderPc[t] = "idle"
    BY Zenon DEF Order!Init
  <1>2. CallLine /\ TidLine
    BY OrderFacts DEF Order!Init, CallLine, TidLine, Order!Tids
  <1>3. OneCaller /\ StarterOnly
    BY Zenon, <1>p DEF Order!Init, OneCaller, StarterOnly, InCall, Starting
  <1>4. CurrentIs
    <2>1. InFlight = {}
      BY Zenon DEF Order!Init, InFlight
    <2>2. ~ \E t \in Order!Threads : Order!Calling(t)
      BY <1>p DEF Order!Calling
    <2> QED
      BY <2>1, <2>2, FS_EmptySet DEF Order!Init, CurrentIs
  <1>5. RetIs
    BY Zenon DEF Order!Init, RetIs, Failed, Order!Ended
  <1> QED
    BY <1>1, <1>2, <1>3, <1>4, <1>5 DEF OrderInv

LEMMA SignalAllFacts ==
    ASSUME NEW p \in [Order!Threads -> Order!PcStates]
    PROVE  /\ Order!SignalAll(p) \in [Order!Threads -> Order!PcStates]
           /\ \A t \in Order!Threads :
                  \/ Order!SignalAll(p)[t] = p[t]
                  \/ p[t] = "startwait" /\ Order!SignalAll(p)[t] = "start"
                  \/ p[t] = "retwait" /\ Order!SignalAll(p)[t] = "ret"
  BY Zenon DEF Order!SignalAll, Order!PcStates

LEMMA TidsFinite ==
    IsFiniteSet(Order!Tids) /\ IsFiniteSet(InFlight) /\ Cardinality(InFlight) \in Nat
  <1>1. IsFiniteSet(Order!Tids)
    BY OrderFacts, FS_Interval DEF Order!Tids
  <1>2. IsFiniteSet(InFlight)
    BY <1>1, FS_Subset DEF InFlight
  <1> QED
    BY <1>1, <1>2, FS_CardinalityType

\* The result of wait_for_ret(), when no callback begins or ends.
LEMMA RetKept ==
    ASSUME RetIs, UNCHANGED <<called, ret>>,
           \A i \in Order!Tids : result'[i] = "erased" <=> result[i] = "erased",
           \A i \in Order!Tids : result[i] = "erased" => retVal'[i] = retVal[i],
           \A t \in Order!Threads : Order!Calling(t)' <=> Order!Calling(t)
    PROVE  RetIs'
  <1>1. Order!Ended' = Order!Ended
    BY Zenon DEF Order!Ended
  <1>2. \A i \in Order!Ended : retVal'[i] = retVal[i]
    BY Zenon DEF Order!Ended
  <1>3. Failed' = Failed
    BY Zenon, <1>1, <1>2 DEF Failed, Order!Counted
  <1> QED
    BY Zenon, <1>2, <1>3 DEF RetIs, Failed

\* No operation changes, and no thread begins or ends a callback.
LEMMA OrderQuiet ==
    ASSUME OrderInv, UNCHANGED <<current, nextTid, completeTid, result, retVal, ret, tid, called>>,
           orderPc' \in [Order!Threads -> Order!PcStates],
           \A t \in Order!Threads : /\ InCall(t)' <=> InCall(t)
                                    /\ Order!Calling(t)' <=> Order!Calling(t)
                                    /\ Starting(t)' => Starting(t)
    PROVE  OrderInv'
  <1>h. OrderTypes /\ CallLine /\ TidLine /\ OneCaller /\ StarterOnly /\ CurrentIs /\ RetIs
    BY Zenon DEF OrderInv
  <1>1. OrderTypes'
    BY Zenon, <1>h DEF OrderTypes
  <1>2. CallLine' /\ TidLine'
    BY Zenon, <1>h DEF CallLine, TidLine
  <1>3. OneCaller'
    BY Zenon, <1>h DEF OneCaller
  <1>4. StarterOnly'
    BY Zenon, <1>h DEF StarterOnly
  <1>5. CurrentIs'
    BY Zenon, <1>h DEF CurrentIs, InFlight
  <1>6. RetIs'
    BY Zenon, <1>h, RetKept
  <1> QED
    BY Zenon, <1>1, <1>2, <1>3, <1>4, <1>5, <1>6 DEF OrderInv

LEMMA StartOpStep == ASSUME OrderInv, Order!StartOp(Starter) PROVE OrderInv'
  <1>h. OrderTypes /\ CallLine /\ TidLine /\ OneCaller /\ StarterOnly /\ CurrentIs /\ RetIs
    BY DEF OrderInv
  <1>1. /\ orderPc[Starter] = "idle" /\ nextTid < MaxOps /\ nextTid' = nextTid + 1
        /\ result' = [result EXCEPT ![nextTid] = "starting"]
        /\ tid' = [tid EXCEPT ![Starter] = nextTid]
        /\ orderPc' = [orderPc EXCEPT ![Starter] = "start"]
        /\ UNCHANGED <<current, completeTid, called, retVal, ret>>
    BY Zenon DEF Order!StartOp
  <1>t. /\ nextTid \in Nat /\ result \in [Order!Tids -> Order!ResultStates] /\ tid \in [Order!Threads -> Nat]
        /\ orderPc \in [Order!Threads -> Order!PcStates] /\ nextTid \in Order!Tids /\ Starter \in Order!Threads
    BY SMT, Z3, <1>h, <1>1, OrderFacts DEF OrderTypes, Order!Tids, Order!Threads
  <1>2. /\ result' \in [Order!Tids -> Order!ResultStates] /\ result'[nextTid] = "starting"
        /\ result[nextTid] = "none"
        /\ \A i \in Order!Tids \ {nextTid} : result'[i] = result[i]
    BY SMT, Z3, <1>h, <1>1, <1>t DEF Order!ResultStates, TidLine
  <1>3. /\ orderPc' \in [Order!Threads -> Order!PcStates] /\ orderPc'[Starter] = "start"
        /\ tid' \in [Order!Threads -> Nat] /\ tid'[Starter] = nextTid
        /\ \A t \in Order!Threads \ {Starter} : orderPc'[t] = orderPc[t] /\ tid'[t] = tid[t]
    BY Zenon, <1>1, <1>t DEF Order!PcStates
  <1>4. \A t \in Order!Threads : (InCall(t)' <=> InCall(t)) /\ (Order!Calling(t)' <=> Order!Calling(t))
    BY Zenon, <1>1, <1>3 DEF InCall, Order!Calling
  <1>5. OrderTypes'
    BY SMT, Z3, <1>h, <1>1, <1>2, <1>3 DEF OrderTypes
  <1>6. CallLine'
    BY Zenon, <1>h, <1>1, <1>2 DEF CallLine
  <1>7. TidLine'
    <2> SUFFICES ASSUME NEW i \in Order!Tids, i >= nextTid + 1 PROVE result'[i] = "none"
      BY Zenon, <1>1 DEF TidLine
    <2>1. i # nextTid /\ i >= nextTid
      BY <1>t, OrderFacts DEF Order!Tids
    <2> QED
      BY Zenon, <1>h, <1>2, <2>1 DEF TidLine
  <1>8. OneCaller'
    BY Zenon, <1>h, <1>1, <1>4 DEF OneCaller
  <1>9. StarterOnly'
    <2> SUFFICES ASSUME NEW t \in Order!Threads, Starting(t)'
                 PROVE  t = Starter /\ tid'[t] \in Order!Tids /\ result'[tid'[t]] = "starting"
      BY Zenon DEF StarterOnly
    <2>1. CASE t = Starter
      BY Zenon, <1>2, <1>3, <1>t, <2>1
    <2>2. CASE t # Starter
      BY Zenon, <1>h, <1>3, <2>2 DEF StarterOnly, Starting
    <2> QED
      BY Zenon, <2>1, <2>2
  <1>10. CurrentIs'
    <2>1. InFlight' = InFlight
      BY Zenon, <1>2 DEF InFlight
    <2> QED
      BY Zenon, <1>h, <1>1, <1>4, <2>1 DEF CurrentIs
  <1>11. RetIs'
    BY Zenon, <1>h, <1>1, <1>2, <1>4, RetKept
  <1> QED
    BY <1>5, <1>6, <1>7, <1>8, <1>9, <1>10, <1>11 DEF OrderInv

LEMMA TakeFirstStep ==
    ASSUME OrderInv, NEW t \in Order!Threads, NEW i \in Order!Tids, Order!TakeFirst(t, i) PROVE OrderInv'
  <1>h. OrderTypes /\ CallLine /\ TidLine /\ OneCaller /\ StarterOnly /\ CurrentIs /\ RetIs
    BY DEF OrderInv
  <1>1. /\ orderPc[t] \in {"start", "ret"} /\ i = completeTid /\ result[i] = "finished"
        /\ result' = [result EXCEPT ![i] = "erased"]
        /\ orderPc' = [orderPc EXCEPT ![t] = IF orderPc[t] = "start" THEN "startcall" ELSE "retcall"]
        /\ called' = Append(called, i)
        /\ UNCHANGED <<current, nextTid, completeTid, tid, retVal, ret>>
    BY Zenon DEF Order!TakeFirst, Order!FirstIsReady
  <1>t. /\ result \in [Order!Tids -> Order!ResultStates] /\ orderPc \in [Order!Threads -> Order!PcStates] /\ called \in Seq(Order!Tids)
        /\ Len(called) \in Nat /\ i \in Nat
    BY <1>h, OrderFacts DEF OrderTypes, Order!Tids
  <1>2. Len(called) = i /\ \A u \in Order!Threads : ~InCall(u)
    <2>1. ~(i < Len(called))
      BY Zenon, <1>h, <1>1 DEF CallLine
    <2>2. \A u \in Order!Threads : ~InCall(u)
      BY SMT, Z3, <1>h, <1>1, <1>t, <2>1 DEF OneCaller
    <2> QED
      BY Zenon, <1>h, <1>1, <2>2 DEF OneCaller
  <1>3. /\ called' \in Seq(Order!Tids) /\ Len(called') = i + 1 /\ called'[i + 1] = i
        /\ \A k \in 1 .. i : called'[k] = called[k]
    BY SMT, Z3, <1>1, <1>2, <1>t
  <1>4. /\ result' \in [Order!Tids -> Order!ResultStates] /\ result'[i] = "erased"
        /\ \A j \in Order!Tids \ {i} : result'[j] = result[j]
    BY Zenon, <1>1, <1>t DEF Order!ResultStates
  <1>5. /\ orderPc' \in [Order!Threads -> Order!PcStates] /\ orderPc'[t] \in {"startcall", "retcall"}
        /\ orderPc'[t] = "startcall" => orderPc[t] = "start"
        /\ \A u \in Order!Threads \ {t} : orderPc'[u] = orderPc[u]
    BY Zenon, <1>1, <1>t DEF Order!PcStates
  <1>6. InCall(t)' /\ Order!Calling(t)' /\ \A u \in Order!Threads \ {t} : ~InCall(u)' /\ ~Order!Calling(u)'
    BY Zenon, <1>2, <1>5 DEF InCall, Order!Calling
  <1>7. \A u \in Order!Threads : ~Order!Calling(u)
    BY Zenon, <1>2 DEF InCall, Order!Calling
  <1>8. OrderTypes'
    BY Zenon, <1>h, <1>1, <1>3, <1>4, <1>5 DEF OrderTypes
  <1>9. CallLine'
    <2>1. ASSUME NEW k \in 1 .. i + 1 PROVE called'[k] = k - 1
      <3>1. CASE k = i + 1
        BY <1>3, <1>t, <3>1
      <3>2. CASE k # i + 1
        <4>1. k \in 1 .. i
          BY <1>t, <3>2
        <4> QED
          BY Zenon, <1>h, <1>2, <1>3, <4>1 DEF CallLine
      <3> QED
        BY Zenon, <3>1, <3>2
    <2>2. ASSUME NEW j \in Order!Tids PROVE result'[j] = "erased" <=> j < i + 1
      <3>1. j \in Nat
        BY OrderFacts DEF Order!Tids
      <3>2. CASE j = i
        BY <1>4, <1>t, <3>2
      <3>3. CASE j # i
        <4>1. j < i + 1 <=> j < i
          BY <1>t, <3>1, <3>3
        <4> QED
          BY Zenon, <1>h, <1>2, <1>4, <3>3, <4>1 DEF CallLine
      <3> QED
        BY Zenon, <3>2, <3>3
    <2> QED
      BY Zenon, <1>3, <2>1, <2>2 DEF CallLine
  <1>10. TidLine'
    BY Zenon, <1>h, <1>1, <1>4 DEF TidLine
  <1>11. OneCaller'
    BY Zenon, <1>1, <1>3, <1>6 DEF OneCaller
  <1>12. StarterOnly'
    <2> SUFFICES ASSUME NEW u \in Order!Threads, Starting(u)'
                 PROVE  u = Starter /\ tid[u] \in Order!Tids /\ result'[tid[u]] = "starting"
      BY Zenon, <1>1 DEF StarterOnly
    <2>1. Starting(u)
      BY Zenon, <1>1, <1>5 DEF Starting
    <2>2. u = Starter /\ tid[u] \in Order!Tids /\ result[tid[u]] = "starting"
      BY Zenon, <1>h, <2>1 DEF StarterOnly
    <2> QED
      BY Zenon, <1>1, <1>4, <2>2
  <1>13. CurrentIs'
    <2>1. i \in InFlight /\ InFlight' = InFlight \ {i}
      BY Zenon, <1>1, <1>4 DEF InFlight
    <2>2. Cardinality(InFlight') = Cardinality(InFlight) - 1 /\ Cardinality(InFlight) \in Nat
      BY Zenon, <2>1, TidsFinite, FS_RemoveElement
    <2>3. current = Cardinality(InFlight)
      BY <1>h, <1>7, <2>2 DEF CurrentIs
    <2>4. \E u \in Order!Threads : Order!Calling(u)'
      BY Zenon, <1>6
    <2>5. current' = Cardinality(InFlight') + 1
      BY SMT, Z3, <1>1, <2>2, <2>3
    <2> QED
      BY Zenon, <2>4, <2>5 DEF CurrentIs
  <1>14. RetIs'
    <2>1. Order!Ended = {j \in Order!Tids : result[j] = "erased"}
      BY Zenon, <1>7 DEF Order!Ended
    <2>2. called' # <<>> /\ called'[Len(called')] = i
      BY <1>3, <1>t
    <2>3. Order!Ended' = {j \in Order!Tids : result'[j] = "erased" /\ j # i}
      BY Zenon, <1>6, <2>2 DEF Order!Ended
    <2>4. Order!Ended' = Order!Ended
      <3>1. \A j \in Order!Tids : (result'[j] = "erased" /\ j # i) <=> result[j] = "erased"
        BY Zenon, <1>1, <1>4
      <3> QED
        BY Zenon, <2>1, <2>3, <3>1
    <2>5. Failed' = Failed
      BY Zenon, <1>1, <2>4 DEF Failed, Order!Counted
    <2> QED
      BY Zenon, <1>h, <1>1, <2>5 DEF RetIs
  <1> QED
    BY <1>8, <1>9, <1>10, <1>11, <1>12, <1>13, <1>14 DEF OrderInv

LEMMA CallbackStep ==
    ASSUME OrderInv, NEW t \in Order!Threads, Order!Callback(t) PROVE OrderInv'
  <1>h. OrderTypes /\ CallLine /\ TidLine /\ OneCaller /\ StarterOnly /\ CurrentIs /\ RetIs
    BY DEF OrderInv
  <1> DEFINE last == called[Len(called)]
             p == [orderPc EXCEPT ![t] = IF orderPc[t] = "startcall" THEN "startback" ELSE "retback"]
  <1>1. /\ orderPc[t] \in {"startcall", "retcall"} /\ ret' = Order!Worse(retVal[last]) /\ current' = current - 1
        /\ orderPc' = Order!SignalAll(p)
        /\ UNCHANGED <<nextTid, completeTid, result, tid, called, retVal>>
    BY Zenon DEF Order!Callback, Order!EndOp
  <1>t. /\ orderPc \in [Order!Threads -> Order!PcStates] /\ called \in Seq(Order!Tids) /\ Len(called) \in Nat
        /\ retVal \in [Order!Tids -> Order!Outcomes] /\ ret \in Order!Outcomes /\ completeTid \in Nat
        /\ current \in Nat /\ current <= MaxCurrent /\ MaxCurrent \in Nat
    BY <1>h, OrderFacts DEF OrderTypes
  <1>2. InCall(t) /\ Order!Calling(t)
    BY Zenon, <1>1 DEF InCall, Order!Calling
  <1>3. /\ p \in [Order!Threads -> Order!PcStates] /\ p[t] \in {"startback", "retback"}
        /\ p[t] = "startback" => orderPc[t] = "startcall"
        /\ \A u \in Order!Threads \ {t} : p[u] = orderPc[u]
    BY Zenon, <1>1, <1>t DEF Order!PcStates
  <1> HIDE DEF p
  <1>4. /\ orderPc' \in [Order!Threads -> Order!PcStates]
        /\ \A u \in Order!Threads : \/ orderPc'[u] = p[u]
                                    \/ p[u] = "startwait" /\ orderPc'[u] = "start"
                                    \/ p[u] = "retwait" /\ orderPc'[u] = "ret"
    BY SMT, Z3, <1>1, <1>3, SignalAllFacts
  <1>5. \A u \in Order!Threads : /\ InCall(u)' <=> InCall(u)
                                 /\ ~Order!Calling(u)'
                                 /\ Starting(u)' => Starting(u)
    <2> SUFFICES ASSUME NEW u \in Order!Threads
                 PROVE (InCall(u)' <=> InCall(u)) /\ ~Order!Calling(u)' /\ (Starting(u)' => Starting(u))
      BY Zenon
    <2>1. CASE u = t
      BY Zenon, <1>1, <1>3, <1>4, <2>1 DEF InCall, Order!Calling, Starting
    <2>2. CASE u # t
      <3>1. ~InCall(u)
        BY Zenon, <1>h, <1>2, <2>2 DEF OneCaller
      <3> QED
        BY Zenon, <1>3, <1>4, <2>2, <3>1 DEF InCall, Order!Calling, Starting
    <2> QED
      BY Zenon, <2>1, <2>2
  <1>6. Len(called) = completeTid + 1 /\ Len(called) > 0 /\ called # <<>>
    <2>1. Len(called) = completeTid + 1
      BY Zenon, <1>h, <1>2 DEF OneCaller
    <2> QED
      BY <1>t, <2>1
  <1>7. last \in Order!Tids /\ last = Len(called) - 1 /\ retVal[last] \in Order!Outcomes /\ result[last] = "erased"
    <2>1. Len(called) \in 1 .. Len(called)
      BY <1>6, <1>t
    <2>2. last \in Order!Tids /\ last = Len(called) - 1
      BY <1>h, <1>t, <2>1 DEF CallLine
    <2>3. last < Len(called)
      BY <1>t, <2>2
    <2> QED
      BY Zenon, <1>h, <1>t, <2>2, <2>3 DEF CallLine
  <1> DEFINE r == retVal[last]
  <1>8. current >= 1
    <2>1. current = Cardinality(InFlight) + 1
      BY Zenon, <1>h, <1>2 DEF CurrentIs
    <2> QED
      BY <2>1, TidsFinite
  <1>9. OrderTypes'
    <2>1. current' \in 0 .. MaxCurrent
      BY SMT, Z3, <1>1, <1>8, <1>t
    <2>2. ret' \in Order!Outcomes
      BY Zenon, <1>1, <1>7, <1>t DEF Order!Worse
    <2> QED
      BY Zenon, <1>h, <1>1, <1>4, <2>1, <2>2 DEF OrderTypes
  <1>10. CallLine' /\ TidLine'
    BY Zenon, <1>h, <1>1 DEF CallLine, TidLine
  <1>11. OneCaller'
    BY Zenon, <1>h, <1>1, <1>5 DEF OneCaller
  <1>12. StarterOnly'
    BY Zenon, <1>h, <1>1, <1>5 DEF StarterOnly
  <1>13. CurrentIs'
    <2>1. InFlight' = InFlight
      BY Zenon, <1>1 DEF InFlight
    <2>2. current = Cardinality(InFlight) + 1
      BY Zenon, <1>h, <1>2 DEF CurrentIs
    <2>3. current' = Cardinality(InFlight)
      BY <1>1, <2>2, TidsFinite
    <2> QED
      BY <1>5, <2>1, <2>3, TidsFinite DEF CurrentIs
  <1>14. RetIs'
    <2> HIDE DEF last, r
    <2>1. Order!Ended = {i \in Order!Tids : result[i] = "erased" /\ i # last}
      BY Zenon, <1>2, <1>6 DEF Order!Ended, last
    <2>2. Order!Ended' = {i \in Order!Tids : result[i] = "erased"}
      BY Zenon, <1>1, <1>5 DEF Order!Ended
    <2>3. Order!Ended' = Order!Ended \cup {last} /\ last \notin Order!Ended
      BY Zenon, <1>7, <2>1, <2>2
    <2>4. \A i \in Order!Ended : i < last
      BY SMT, Z3, <1>7, <1>h, <1>t, <2>1, OrderFacts DEF CallLine, Order!Tids
    <2>5. r = retVal[last] /\ retVal' = retVal /\ ret' = Order!Worse(r)
      BY Zenon, <1>1 DEF r
    <2>6. CASE Order!Counted(r)
      <3>1. Failed' = Failed \cup {last}
        BY Zenon, <2>3, <2>5, <2>6 DEF Failed, Order!Counted
      <3>2. CASE Failed = {} /\ ret = "ok"
        <4>1. ret' = r
          BY Zenon, <2>5, <2>6, <3>2 DEF Order!Worse, Order!Counted
        <4>2. last \in Failed' /\ \A j \in Failed' : last <= j
          BY <1>7, <1>t, <3>1, <3>2
        <4> QED
          BY Zenon, <2>5, <4>1, <4>2 DEF RetIs
      <3>3. CASE \E i \in Failed : (\A j \in Failed : i <= j) /\ ret = retVal[i]
        <4>1. PICK i \in Failed : (\A j \in Failed : i <= j) /\ ret = retVal[i]
          BY Zenon, <3>3
        <4>2. ret # "ok" /\ i \in Order!Ended
          BY Zenon, <4>1 DEF Failed, Order!Counted
        <4>3. ret' = ret
          BY Zenon, <2>5, <4>2 DEF Order!Worse
        <4>4. i \in Failed' /\ i <= last
          <5>1. i < last /\ i \in Nat /\ last \in Nat
            BY <1>7, <2>1, <2>4, <4>2, OrderFacts DEF Order!Tids
          <5> QED
            BY <3>1, <5>1
        <4>5. \A j \in Failed' : i <= j
          BY Zenon, <3>1, <4>1, <4>4
        <4> QED
          BY Zenon, <2>5, <4>1, <4>3, <4>4, <4>5 DEF RetIs
      <3> QED
        BY Zenon, <1>h, <3>2, <3>3 DEF RetIs
    <2>7. CASE ~Order!Counted(r)
      <3>1. Failed' = Failed
        BY Zenon, <2>3, <2>5, <2>7 DEF Failed, Order!Counted
      <3>2. ret' = ret
        BY Zenon, <2>5, <2>7 DEF Order!Worse, Order!Counted
      <3> QED
        BY Zenon, <1>h, <2>5, <3>1, <3>2 DEF RetIs
    <2> QED
      BY <2>6, <2>7
  <1> QED
    BY <1>9, <1>10, <1>11, <1>12, <1>13, <1>14 DEF OrderInv

LEMMA AdvanceStep ==
    ASSUME OrderInv, NEW t \in Order!Threads, Order!Advance(t) PROVE OrderInv'
  <1>h. OrderTypes /\ CallLine /\ TidLine /\ OneCaller /\ StarterOnly /\ CurrentIs /\ RetIs
    BY DEF OrderInv
  <1>1. /\ orderPc[t] \in {"startback", "retback"} /\ completeTid' = completeTid + 1
        /\ orderPc' = [orderPc EXCEPT ![t] = IF orderPc[t] = "startback" THEN "start" ELSE "ret"]
        /\ UNCHANGED <<current, nextTid, result, tid, called, retVal, ret>>
    BY Zenon DEF Order!Advance
  <1>t. orderPc \in [Order!Threads -> Order!PcStates] /\ completeTid \in Nat
    BY Zenon, <1>h DEF OrderTypes
  <1>2. /\ orderPc' \in [Order!Threads -> Order!PcStates] /\ orderPc'[t] \in {"start", "ret"}
        /\ orderPc'[t] = "start" => orderPc[t] = "startback"
        /\ \A u \in Order!Threads \ {t} : orderPc'[u] = orderPc[u]
    BY Zenon, <1>1, <1>t DEF Order!PcStates
  <1>3. InCall(t) /\ \A u \in Order!Threads : ~InCall(u)' /\ (Order!Calling(u)' <=> Order!Calling(u)) /\ (Starting(u)' => Starting(u))
    <2>1. InCall(t)
      BY Zenon, <1>1 DEF InCall
    <2>2. \A u \in Order!Threads \ {t} : ~InCall(u)
      BY Zenon, <1>h, <2>1 DEF OneCaller
    <2> QED
      BY Zenon, <1>1, <1>2, <2>1, <2>2 DEF InCall, Order!Calling, Starting
  <1>4. OrderTypes'
    BY SMT, Z3, <1>h, <1>1, <1>2 DEF OrderTypes
  <1>5. CallLine' /\ TidLine'
    BY Zenon, <1>h, <1>1 DEF CallLine, TidLine
  <1>6. OneCaller'
    BY Zenon, <1>h, <1>1, <1>3 DEF OneCaller
  <1>7. StarterOnly'
    BY Zenon, <1>h, <1>1, <1>3 DEF StarterOnly
  <1>8. CurrentIs'
    BY Zenon, <1>h, <1>1, <1>3 DEF CurrentIs, InFlight
  <1>9. RetIs'
    BY Zenon, <1>h, <1>1, <1>3, RetKept
  <1> QED
    BY <1>4, <1>5, <1>6, <1>7, <1>8, <1>9 DEF OrderInv

LEMMA StartDoneStep ==
    ASSUME OrderInv, NEW t \in Order!Threads, Order!StartDone(t) PROVE OrderInv'
  <1>h. OrderTypes /\ CallLine /\ TidLine /\ OneCaller /\ StarterOnly /\ CurrentIs /\ RetIs
    BY DEF OrderInv
  <1>t. /\ orderPc \in [Order!Threads -> Order!PcStates] /\ result \in [Order!Tids -> Order!ResultStates]
        /\ current \in Nat /\ current <= MaxCurrent /\ MaxCurrent \in Nat
    BY <1>h, OrderFacts DEF OrderTypes
  <1>1. /\ orderPc[t] = "start" /\ t = Starter /\ tid[t] \in Order!Tids /\ result[tid[t]] = "starting"
        /\ UNCHANGED <<nextTid, completeTid, tid, called, retVal, ret>>
    BY Zenon, <1>h DEF Order!StartDone, StarterOnly, Starting
  <1>2. CASE orderPc' = [orderPc EXCEPT ![t] = "startwait"] /\ UNCHANGED <<current, result>>
    <2>1. orderPc' \in [Order!Threads -> Order!PcStates] /\ orderPc'[t] = "startwait" /\ \A u \in Order!Threads \ {t} : orderPc'[u] = orderPc[u]
      BY Zenon, <1>t, <1>2 DEF Order!PcStates
    <2>2. \A u \in Order!Threads : /\ InCall(u)' <=> InCall(u)
                                   /\ Order!Calling(u)' <=> Order!Calling(u)
                                   /\ Starting(u)' => Starting(u)
      BY Zenon, <1>1, <2>1 DEF InCall, Order!Calling, Starting
    <2> QED
      BY Zenon, <1>1, <1>2, <2>1, <2>2, OrderQuiet
  <1>3. CASE /\ current # MaxCurrent /\ current' = current + 1
             /\ result' = [result EXCEPT ![tid[t]] = "running"]
             /\ orderPc' = [orderPc EXCEPT ![t] = "idle"]
    <2>1. orderPc' \in [Order!Threads -> Order!PcStates] /\ orderPc'[t] = "idle" /\ \A u \in Order!Threads \ {t} : orderPc'[u] = orderPc[u]
      BY Zenon, <1>t, <1>3 DEF Order!PcStates
    <2>2. \A u \in Order!Threads : /\ InCall(u)' <=> InCall(u)
                                   /\ Order!Calling(u)' <=> Order!Calling(u)
                                   /\ ~Starting(u)'
      <3>1. \A u \in Order!Threads \ {t} : ~Starting(u)
        BY Zenon, <1>h, <1>1 DEF StarterOnly
      <3> QED
        BY Zenon, <1>1, <2>1, <3>1 DEF InCall, Order!Calling, Starting
    <2>3. /\ result' \in [Order!Tids -> Order!ResultStates] /\ result'[tid[t]] = "running"
          /\ \A i \in Order!Tids \ {tid[t]} : result'[i] = result[i]
      BY Zenon, <1>t, <1>1, <1>3 DEF Order!ResultStates
    <2>4. OrderTypes'
      <3>1. current' \in 0 .. MaxCurrent
        BY <1>t, <1>3
      <3> QED
        BY Zenon, <1>h, <1>1, <2>1, <2>3, <3>1 DEF OrderTypes
    <2>5. CallLine'
      BY Zenon, <1>h, <1>1, <2>3 DEF CallLine
    <2>6. TidLine'
      BY Zenon, <1>h, <1>1, <2>3 DEF TidLine
    <2>7. OneCaller'
      BY Zenon, <1>h, <1>1, <2>2 DEF OneCaller
    <2>8. StarterOnly'
      BY Zenon, <2>2 DEF StarterOnly
    <2>9. CurrentIs'
      <3>1. tid[t] \notin InFlight /\ InFlight' = InFlight \cup {tid[t]}
        BY Zenon, <1>1, <2>3 DEF InFlight
      <3>2. Cardinality(InFlight') = Cardinality(InFlight) + 1 /\ Cardinality(InFlight) \in Nat
        BY Zenon, <3>1, TidsFinite, FS_AddElement
      <3>3. CASE \E u \in Order!Threads : Order!Calling(u)
        <4>1. current' = Cardinality(InFlight') + 1
          BY Zenon, <1>h, <1>3, <3>2, <3>3 DEF CurrentIs
        <4> QED
          BY Zenon, <2>2, <3>3, <4>1 DEF CurrentIs
      <3>4. CASE ~ \E u \in Order!Threads : Order!Calling(u)
        <4>1. current' = Cardinality(InFlight') + 0
          BY SMTT(30), <1>h, <1>3, <3>2, <3>4 DEF CurrentIs
        <4> QED
          BY Zenon, <2>2, <3>4, <4>1 DEF CurrentIs
      <3> QED
        BY <3>3, <3>4
    <2>10. RetIs'
      BY Zenon, <1>h, <1>1, <2>2, <2>3, RetKept
    <2> QED
      BY <2>4, <2>5, <2>6, <2>7, <2>8, <2>9, <2>10 DEF OrderInv
  <1> QED
    BY Zenon, <1>2, <1>3 DEF Order!StartDone

LEMMA FinishOpStep ==
    ASSUME OrderInv, NEW i \in Order!Tids, NEW r \in Order!Outcomes, Order!FinishOp(i, r) PROVE OrderInv'
  <1>h. OrderTypes /\ CallLine /\ TidLine /\ OneCaller /\ StarterOnly /\ CurrentIs /\ RetIs
    BY DEF OrderInv
  <1>1. /\ result[i] = "running" /\ result' = [result EXCEPT ![i] = "finished"]
        /\ retVal' = [retVal EXCEPT ![i] = r] /\ orderPc' = Order!SignalAll(orderPc)
        /\ UNCHANGED <<current, nextTid, completeTid, tid, called, ret>>
    BY Zenon DEF Order!FinishOp
  <1>t. /\ orderPc \in [Order!Threads -> Order!PcStates] /\ result \in [Order!Tids -> Order!ResultStates]
        /\ retVal \in [Order!Tids -> Order!Outcomes]
    BY Zenon, <1>h DEF OrderTypes
  <1>2. /\ result' \in [Order!Tids -> Order!ResultStates] /\ result'[i] = "finished"
        /\ retVal' \in [Order!Tids -> Order!Outcomes]
        /\ \A j \in Order!Tids \ {i} : result'[j] = result[j] /\ retVal'[j] = retVal[j]
    BY Zenon, <1>t, <1>1 DEF Order!ResultStates
  <1>3. /\ orderPc' \in [Order!Threads -> Order!PcStates]
        /\ \A u \in Order!Threads : /\ InCall(u)' <=> InCall(u)
                                    /\ Order!Calling(u)' <=> Order!Calling(u)
                                    /\ Starting(u)' => Starting(u)
    <2>1. /\ orderPc' \in [Order!Threads -> Order!PcStates]
          /\ \A u \in Order!Threads : \/ orderPc'[u] = orderPc[u]
                                      \/ orderPc[u] = "startwait" /\ orderPc'[u] = "start"
                                      \/ orderPc[u] = "retwait" /\ orderPc'[u] = "ret"
      BY SMTT(30), Z3T(30), <1>t, <1>1, SignalAllFacts
    <2> QED
      BY Zenon, <2>1 DEF InCall, Order!Calling, Starting
  <1>4. OrderTypes'
    BY Zenon, <1>h, <1>1, <1>2, <1>3 DEF OrderTypes
  <1>5. CallLine'
    BY Zenon, <1>h, <1>1, <1>2 DEF CallLine
  <1>6. TidLine'
    BY Zenon, <1>h, <1>1, <1>2 DEF TidLine
  <1>7. OneCaller'
    BY Zenon, <1>h, <1>1, <1>3 DEF OneCaller
  <1>8. StarterOnly'
    BY Zenon, <1>h, <1>1, <1>2, <1>3 DEF StarterOnly
  <1>9. CurrentIs'
    <2>1. InFlight' = InFlight
      BY Zenon, <1>1, <1>2 DEF InFlight
    <2> QED
      BY Zenon, <1>h, <1>1, <1>3, <2>1 DEF CurrentIs
  <1>10. RetIs'
    BY Zenon, <1>h, <1>1, <1>2, <1>3, RetKept
  <1> QED
    BY <1>4, <1>5, <1>6, <1>7, <1>8, <1>9, <1>10 DEF OrderInv

LEMMA OrderStep == OrderInv /\ [Order!Next]_(Order!vars) => OrderInv'
  <1> SUFFICES ASSUME OrderInv, [Order!Next]_(Order!vars) PROVE OrderInv'
    OBVIOUS
  <1>t. orderPc \in [Order!Threads -> Order!PcStates]
    BY Zenon DEF OrderInv, OrderTypes
  <1>1. ASSUME NEW t \in Order!Threads, Order!CallWait(t) \/ Order!RetDone(t) PROVE OrderInv'
    <2>1. /\ orderPc[t] \in {"idle", "ret"}
          /\ UNCHANGED <<current, nextTid, completeTid, result, retVal, ret, tid, called>>
          /\ \E s \in {"ret", "retwait", "idle"} : orderPc' = [orderPc EXCEPT ![t] = s]
      BY Zenon, <1>1 DEF Order!CallWait, Order!RetDone
    <2>2. PICK s \in {"ret", "retwait", "idle"} : orderPc' = [orderPc EXCEPT ![t] = s]
      BY Zenon, <2>1
    <2>3. orderPc' \in [Order!Threads -> Order!PcStates] /\ orderPc'[t] = s /\ \A u \in Order!Threads \ {t} : orderPc'[u] = orderPc[u]
      BY <1>t, <2>2 DEF Order!PcStates
    <2>4. \A u \in Order!Threads : /\ InCall(u)' <=> InCall(u)
                                   /\ Order!Calling(u)' <=> Order!Calling(u)
                                   /\ Starting(u)' => Starting(u)
      BY Zenon, <2>1, <2>3 DEF InCall, Order!Calling, Starting
    <2> QED
      BY Zenon, <2>1, <2>3, <2>4, OrderQuiet
  <1>2. CASE UNCHANGED Order!vars
    <2>1. UNCHANGED <<orderPc, current, nextTid, completeTid, result, retVal, ret, tid, called>>
      BY Zenon, <1>2 DEF Order!vars
    <2> QED
      BY Zenon, <1>t, <2>1, OrderQuiet DEF InCall, Order!Calling, Starting
  <1> QED
    BY Zenon, <1>1, <1>2, StartOpStep, TakeFirstStep, CallbackStep, AdvanceStep, StartDoneStep,
       FinishOpStep
       DEF Order!Next, Order!Step

\* However many operations start, finish in whatever order and fail, the callbacks of
\* complete_pending_ops() run one at a time in the order of start_op(), m_current is what
\* is in flight, and wait_for_ret() returns the first failure.
THEOREM CallbacksKeepTheirOrder == Order!Spec => []CallbacksInOrder
  <1>1. OrderInv => CallbacksInOrder
    <2> SUFFICES ASSUME OrderInv PROVE CallbacksInOrder
      OBVIOUS
    <2>h. CallLine /\ OneCaller /\ CurrentIs /\ RetIs
      BY DEF OrderInv
    <2>1. Order!CallbacksInOrder
      BY Zenon, <2>h DEF Order!CallbacksInOrder, CallLine, OneCaller, Order!Calling, InCall
    <2>2. Order!CurrentExact
      <3> DEFINE C == {t \in Order!Threads : Order!Calling(t)}
      <3>1. CASE \E t \in Order!Threads : Order!Calling(t)
        <4>1. PICK t \in Order!Threads : Order!Calling(t)
          BY <3>1
        <4>2. C = {t}
          BY <2>1, <4>1 DEF Order!CallbacksInOrder
        <4> QED
          BY Zenon, <2>h, <3>1, <4>2, FS_Singleton, OrderCounted DEF CurrentIs, Order!CurrentExact,
             InFlight
      <3>2. CASE ~ \E t \in Order!Threads : Order!Calling(t)
        <4>1. C = {}
          BY <3>2
        <4> QED
          BY <2>h, <3>2, <4>1, FS_EmptySet, OrderCounted DEF CurrentIs, Order!CurrentExact, InFlight
      <3> QED
        BY <3>1, <3>2
    <2>3. Order!RetIsFirstError
      <3>1. CASE Failed = {} /\ ret = "ok"
        BY Zenon, <3>1 DEF Failed, Order!RetIsFirstError
      <3>2. CASE \E i \in Failed : (\A j \in Failed : i <= j) /\ ret = retVal[i]
        <4>1. PICK i \in Failed : (\A j \in Failed : i <= j) /\ ret = retVal[i]
          BY <3>2
        <4>2. \A j \in Failed : (\A k \in Failed : j <= k) => j = i
          <5>1. Failed \subseteq Nat
            BY OrderFacts DEF Failed, Order!Ended, Order!Tids
          <5> QED
            BY <4>1, <5>1
        <4> QED
          BY Zenon, <4>1, <4>2 DEF Failed, Order!RetIsFirstError
      <3> QED
        BY <2>h, <3>1, <3>2 DEF RetIs
    <2> QED
      BY <2>1, <2>2, <2>3 DEF CallbacksInOrder
  <1> QED
    BY <1>1, OrderInit, OrderStep, PTL DEF Order!Spec

-----------------------------------------------------------------------------
(* The counted object.                                                     *)

PcStates == {"none", "ref", "dec", "done", "delete", "wait", "condput", "returned"}

\* The threads that nref counts, and those that the condition's counter counts.
Holders == {t \in RefThreads : refPc[t] \in {"ref", "dec"}}
Users == {t \in RefThreads : refPc[t] \in {"dec", "done", "delete", "wait", "condput"}}

RefTypes ==
    /\ nref \in Nat /\ condRefs \in Nat
    /\ freed \in BOOLEAN /\ condFreed \in BOOLEAN /\ complete \in BOOLEAN /\ misused \in BOOLEAN
    /\ refPc \in [RefThreads -> PcStates]

\* Whoever still has a reference sees a live object, and one thread alone, the one
\* whose nref.dec() returned 0, is on its way to delete it.
LastOnly ==
    /\ \A t \in RefThreads : refPc[t] \in {"ref", "dec"} => ~freed
    /\ \A t \in RefThreads :
          refPc[t] \in {"done", "delete"}
          => ~freed /\ nref = 0 /\ \A u \in RefThreads : refPc[u] \in {"done", "delete"} => u = t

RefInv == RefTypes /\ Ref!CountersExact /\ LastOnly /\ Ref!NotUsedAfterFree

LEMMA OneMore ==
    ASSUME NEW S, IsFiniteSet(S), NEW x, x \notin S, NEW T, T = S \cup {x}
    PROVE  Cardinality(T) = Cardinality(S) + 1 /\ Cardinality(S) \in Nat
  BY Zenon, FS_AddElement, FS_CardinalityType

LEMMA NotEmpty ==
    ASSUME NEW S, IsFiniteSet(S), NEW x \in S
    PROVE  Cardinality(S) \in Nat /\ Cardinality(S) >= 1
  <1>1. Cardinality(S) \in Nat
    BY FS_CardinalityType
  <1>2. Cardinality(S) # 0
    BY FS_EmptySet
  <1> QED
    BY <1>1, <1>2

LEMMA OneLess ==
    ASSUME NEW S, IsFiniteSet(S), NEW x \in S, NEW T, T = S \ {x}
    PROVE  Cardinality(T) = Cardinality(S) - 1 /\ Cardinality(S) \in Nat /\ Cardinality(S) >= 1
  BY Zenon, FS_RemoveElement, NotEmpty

LEMMA FiniteHolders ==
    ASSUME IsFiniteSet(RefThreads)
    PROVE  IsFiniteSet(Holders) /\ IsFiniteSet(Users)
  BY Zenon, FS_Subset DEF Holders, Users

\* CountersExact without the sets spelled out.
LEMMA Counted ==
    Ref!CountersExact <=> /\ nref = Cardinality(Holders)
                          /\ condRefs = Cardinality(Users) + (IF freed THEN 0 ELSE 1)
                          /\ condFreed <=> condRefs = 0
  BY Zenon, RefCounted DEF Ref!CountersExact, Holders, Users

LEMMA CountedNext ==
    Ref!CountersExact' <=> /\ nref' = Cardinality(Holders')
                           /\ condRefs' = Cardinality(Users') + (IF freed' THEN 0 ELSE 1)
                           /\ condFreed' <=> condRefs' = 0
  BY Zenon, RefCounted DEF Ref!CountersExact, Holders, Users

LEMMA RefInit == IsFiniteSet(RefThreads) /\ Creator \in RefThreads /\ Ref!Init => RefInv
  <1> SUFFICES ASSUME IsFiniteSet(RefThreads), Creator \in RefThreads, Ref!Init PROVE RefInv
    BY Zenon
  <1>1. RefTypes
    BY Zenon DEF Ref!Init, RefTypes, PcStates
  <1>2. Holders = {Creator} /\ Users = {}
    BY Zenon DEF Ref!Init, Holders, Users
  <1>3. Cardinality(Holders) = 1 /\ Cardinality(Users) = 0
    BY Zenon, <1>2, FS_Singleton, FS_EmptySet
  <1>4. Ref!CountersExact
    BY <1>3, Counted DEF Ref!Init
  <1> QED
    BY Zenon, <1>1, <1>4 DEF RefInv, Ref!Init, LastOnly, Ref!NotUsedAfterFree

LEMMA GetStep ==
    ASSUME IsFiniteSet(RefThreads), RefInv, NEW t \in RefThreads, NEW u \in RefThreads, Ref!Get(t, u)
    PROVE  RefInv'
  <1> USE DEF RefInv, Ref!Get
  <1>1. Holders' = Holders \cup {u} /\ u \notin Holders /\ Users' = Users
    BY Zenon DEF RefTypes, Holders, Users
  <1>2. Cardinality(Holders') = Cardinality(Holders) + 1
    BY Zenon, <1>1, OneMore, FiniteHolders
  <1>3. Ref!CountersExact'
    BY Zenon, <1>1, <1>2, Counted, CountedNext
  <1>4. ~freed
    BY Zenon DEF LastOnly
  <1>5. RefTypes' /\ Ref!NotUsedAfterFree'
    BY SMT, Z3, <1>4 DEF RefTypes, PcStates, Ref!NotUsedAfterFree
  <1>6. nref # 0
    <2>1. t \in Holders
      BY Zenon DEF Holders
    <2> QED
      BY SMT, Z3, <2>1, NotEmpty, FiniteHolders, Counted
  <1>7. LastOnly'
    BY Zenon, <1>4, <1>6 DEF LastOnly, RefTypes
  <1> QED
    BY Zenon, <1>3, <1>5, <1>7

LEMMA RefPutStep ==
    ASSUME IsFiniteSet(RefThreads), RefInv, NEW t \in RefThreads, NEW w \in BOOLEAN, Ref!PutBegin(t, w)
    PROVE  RefInv'
  <1> USE DEF RefInv, Ref!PutBegin
  <1>1. Users' = Users \cup {t} /\ t \notin Users /\ Holders' = Holders
    BY Zenon DEF RefTypes, Holders, Users
  <1>2. Cardinality(Users') = Cardinality(Users) + 1 /\ Cardinality(Users) \in Nat
    BY Zenon, <1>1, OneMore, FiniteHolders
  <1>3. ~freed
    BY Zenon DEF LastOnly
  <1>4. ~condFreed /\ condRefs = Cardinality(Users) + 1
    BY SMT, Z3, <1>2, <1>3, Counted
  <1>5. Ref!CountersExact'
    BY SMT, Z3, <1>1, <1>2, <1>3, <1>4, Counted, CountedNext DEF RefTypes
  <1>6. RefTypes' /\ Ref!NotUsedAfterFree'
    BY SMT, Z3, <1>3, <1>4 DEF RefTypes, PcStates, Ref!NotUsedAfterFree
  <1>7. LastOnly'
    BY Zenon DEF LastOnly, RefTypes
  <1> QED
    BY Zenon, <1>5, <1>6, <1>7

LEMMA DecStep ==
    ASSUME IsFiniteSet(RefThreads), RefInv, NEW t \in RefThreads, Ref!Dec(t)
    PROVE  RefInv'
  <1> USE DEF RefInv
  <1>1. /\ refPc[t] = "dec" /\ nref' = nref - 1
        /\ refPc' = [refPc EXCEPT ![t] = IF nref = 1 THEN "done"
                                         ELSE IF t \in waits THEN "wait" ELSE "condput"]
        /\ misused' = (misused \/ freed)
        /\ UNCHANGED <<freed, condRefs, condFreed, complete, waits, gets>>
    BY Zenon DEF Ref!Dec
  <1>2. Holders' = Holders \ {t} /\ t \in Holders /\ Users' = Users
    BY Zenon, <1>1 DEF RefTypes, Holders, Users
  <1>3. Cardinality(Holders') = Cardinality(Holders) - 1 /\ Cardinality(Holders) >= 1
    BY Zenon, <1>2, OneLess, FiniteHolders
  <1>4. ~freed /\ nref >= 1
    BY Zenon, <1>1, <1>3, Counted DEF LastOnly
  <1>5. Ref!CountersExact'
    BY Zenon, <1>1, <1>2, <1>3, Counted, CountedNext
  <1>6. RefTypes' /\ Ref!NotUsedAfterFree'
    BY SMT, Z3, <1>1, <1>4 DEF RefTypes, PcStates, Ref!NotUsedAfterFree
  <1>7. LastOnly'
    <2>1. \A u \in RefThreads : refPc[u] \notin {"done", "delete"}
      BY <1>4 DEF LastOnly
    <2>2. \A u \in RefThreads : refPc'[u] \in {"done", "delete"} => u = t /\ nref' = 0
      BY SMT, Z3, <1>1, <2>1 DEF RefTypes
    <2> QED
      BY Zenon, <1>1, <1>4, <2>2 DEF LastOnly
  <1> QED
    BY Zenon, <1>5, <1>6, <1>7

LEMMA DoneStep ==
    ASSUME IsFiniteSet(RefThreads), RefInv, NEW t \in RefThreads, Ref!Done(t)
    PROVE  RefInv'
  <1> USE DEF RefInv, Ref!Done
  <1>1. Holders' = Holders /\ Users' = Users /\ t \in Users
    BY Zenon DEF RefTypes, Holders, Users
  <1>2. ~condFreed
    <2>1. Cardinality(Users) \in Nat /\ Cardinality(Users) >= 1
      BY Zenon, <1>1, NotEmpty, FiniteHolders
    <2> QED
      BY SMT, Z3, <2>1, Counted
  <1>3. Ref!CountersExact'
    BY Zenon, <1>1, Counted, CountedNext
  <1>4. RefTypes' /\ Ref!NotUsedAfterFree'
    BY Zenon, <1>2 DEF RefTypes, PcStates, Ref!NotUsedAfterFree
  <1>5. LastOnly'
    BY Zenon DEF LastOnly, RefTypes
  <1> QED
    BY Zenon, <1>3, <1>4, <1>5

LEMMA CondPutFacts ==
    ASSUME RefTypes, Ref!CountersExact, Ref!NotUsedAfterFree, Ref!CondPut, condRefs >= 1
    PROVE  /\ condRefs' \in Nat /\ condFreed' \in BOOLEAN /\ ~misused'
           /\ condFreed' <=> condRefs' = 0
  <1>1. ~condFreed
    BY Counted
  <1>2. condRefs' \in Nat /\ (condRefs' = 0 <=> condRefs = 1)
    BY DEF Ref!CondPut, RefTypes
  <1>3. ~misused'
    BY <1>1, Zenon DEF Ref!CondPut, Ref!NotUsedAfterFree
  <1>4. condFreed' \in BOOLEAN /\ (condFreed' <=> condRefs = 1)
    BY <1>1, Zenon DEF Ref!CondPut
  <1> QED
    BY Zenon, <1>2, <1>3, <1>4

LEMMA DeleteStep ==
    ASSUME IsFiniteSet(RefThreads), RefInv, NEW t \in RefThreads, Ref!Delete(t)
    PROVE  RefInv'
  <1> USE DEF RefInv, Ref!Delete
  <1>1. Holders' = Holders /\ Users' = Users /\ t \in Users
    BY Zenon DEF RefTypes, Holders, Users
  <1>2. ~freed /\ nref = 0 /\ \A u \in RefThreads : refPc[u] \in {"done", "delete"} => u = t
    BY Zenon DEF LastOnly
  <1>3. Cardinality(Users) \in Nat /\ Cardinality(Users) >= 1
    BY Zenon, <1>1, OneLess, FiniteHolders
  <1>4. condRefs = Cardinality(Users) + 1
    BY Zenon, <1>2, Counted
  <1>5. /\ condRefs' \in Nat /\ condFreed' \in BOOLEAN /\ ~misused'
        /\ condFreed' <=> condRefs' = 0
    BY SMT, Z3, <1>3, <1>4, CondPutFacts
  <1>6. Ref!CountersExact'
    BY SMT, Z3, <1>1, <1>3, <1>4, <1>5, Counted, CountedNext DEF Ref!CondPut
  <1>7. RefTypes' /\ Ref!NotUsedAfterFree'
    <2>1. refPc' \in [RefThreads -> PcStates]
      BY Zenon DEF RefTypes, PcStates
    <2>2. {freed', complete'} \subseteq BOOLEAN /\ nref' \in Nat
      BY Zenon DEF RefTypes
    <2>3. misused' = FALSE
      BY Zenon, <1>5 DEF Ref!CondPut
    <2> QED
      BY Zenon, <1>5, <2>1, <2>2, <2>3 DEF RefTypes, Ref!NotUsedAfterFree
  <1>8. Holders = {}
    BY Zenon, <1>2, Counted, FiniteHolders, FS_EmptySet
  <1>9. LastOnly'
    BY Zenon, <1>2, <1>8 DEF LastOnly, RefTypes, Holders
  <1> QED
    BY Zenon, <1>6, <1>7, <1>9

LEMMA WakeStep ==
    ASSUME IsFiniteSet(RefThreads), RefInv, NEW t \in RefThreads, Ref!Wake(t)
    PROVE  RefInv'
  <1> USE DEF RefInv, Ref!Wake
  <1>1. Holders' = Holders /\ Users' = Users /\ t \in Users
    BY Zenon DEF RefTypes, Holders, Users
  <1>2. ~condFreed
    <2>1. Cardinality(Users) \in Nat /\ Cardinality(Users) >= 1
      BY Zenon, <1>1, NotEmpty, FiniteHolders
    <2> QED
      BY SMT, Z3, <2>1, Counted
  <1>3. Ref!CountersExact'
    BY Zenon, <1>1, Counted, CountedNext
  <1>4. RefTypes' /\ Ref!NotUsedAfterFree'
    BY Zenon, <1>2 DEF RefTypes, PcStates, Ref!NotUsedAfterFree
  <1>5. LastOnly'
    BY Zenon DEF LastOnly, RefTypes
  <1> QED
    BY Zenon, <1>3, <1>4, <1>5

LEMMA ReturnStep ==
    ASSUME IsFiniteSet(RefThreads), RefInv, NEW t \in RefThreads, Ref!Return(t)
    PROVE  RefInv'
  <1> USE DEF RefInv, Ref!Return
  <1>1. Holders' = Holders /\ Users' = Users \ {t} /\ t \in Users
    BY Zenon DEF RefTypes, Holders, Users
  <1>2. Cardinality(Users') = Cardinality(Users) - 1 /\ Cardinality(Users) >= 1
        /\ Cardinality(Users) \in Nat
    BY Zenon, <1>1, OneLess, FiniteHolders
  <1>3. condRefs >= 1
    BY SMT, Z3, <1>2, Counted
  <1>4. /\ condRefs' \in Nat /\ condFreed' \in BOOLEAN /\ ~misused'
        /\ condFreed' <=> condRefs' = 0
    BY Zenon, <1>3, CondPutFacts
  <1>5. Ref!CountersExact'
    BY SMT, Z3, <1>1, <1>2, <1>4, Counted, CountedNext DEF Ref!CondPut
  <1>6. RefTypes' /\ Ref!NotUsedAfterFree'
    <2>1. refPc' \in [RefThreads -> PcStates]
      BY Zenon DEF RefTypes, PcStates
    <2>2. {freed', complete'} \subseteq BOOLEAN /\ nref' \in Nat
      BY Zenon DEF RefTypes
    <2>3. misused' = FALSE
      BY Zenon, <1>4 DEF Ref!CondPut
    <2> QED
      BY Zenon, <1>4, <2>1, <2>2, <2>3 DEF RefTypes, Ref!NotUsedAfterFree
  <1>7. LastOnly'
    BY Zenon DEF LastOnly, RefTypes
  <1> QED
    BY Zenon, <1>5, <1>6, <1>7

LEMMA RefStep == IsFiniteSet(RefThreads) /\ RefInv /\ [Ref!Next]_(Ref!vars) => RefInv'
  <1> SUFFICES ASSUME IsFiniteSet(RefThreads), RefInv, [Ref!Next]_(Ref!vars)
               PROVE  RefInv'
    BY Zenon
  <1>1. CASE UNCHANGED Ref!vars
    BY Zenon, <1>1 DEF Ref!vars, RefInv, RefTypes, Ref!CountersExact, LastOnly, Ref!NotUsedAfterFree
  <1>2. CASE Ref!Next
    BY Zenon, <1>1, <1>2, GetStep, RefPutStep, DecStep, DoneStep, DeleteStep, WakeStep, ReturnStep
       DEF Ref!Next, Ref!Step, Ref!Finished
  <1> QED
    BY Zenon, <1>1, <1>2

LEMMA RefCorrect == IsFiniteSet(RefThreads) /\ Creator \in RefThreads /\ Ref!Spec => []RefInv
  <1> SUFFICES ASSUME IsFiniteSet(RefThreads), Creator \in RefThreads PROVE Ref!Spec => []RefInv
    BY Zenon
  <1> QED
    BY RefInit, RefStep, PTL DEF Ref!Spec

-----------------------------------------------------------------------------
(* The theorems.                                                           *)

\* Neither the object nor its condition is touched after it was deleted, however the
\* put() and put_wait() of any number of threads interleave; nref counts the references,
\* and the condition is deleted exactly when the object is gone and no call is inside it.
THEOREM NoUseAfterFree == Ref!Spec => []NotUsedAfterFree
  <1>1. IsFiniteSet(RefThreads) /\ Creator \in RefThreads
    BY Zenon, RefAssumption, RefFinite DEF Ref!RefAssumption
  <1>2. RefInv => NotUsedAfterFree
    BY Zenon DEF RefInv, NotUsedAfterFree
  <1> QED
    BY RefCorrect, <1>1, <1>2, PTL

-----------------------------------------------------------------------------
(* The thread pool: PoolInv is inductive, and with it the items are handed *)
(* out once.                                                               *)

\* The definition of an action of a worker, and of a caller, unfolded.
LEMMA NextCases ==
    ASSUME Next
    PROVE  \/ \E w \in Workers : \/ WorkerStart(w) \/ WaitTimeout(w)
                                 \/ Process(w) \/ WorkerFinish(w)
           \/ \E c \in Callers : Caller(c)
  BY Zenon DEF Next, Worker

-----------------------------------------------------------------------------
(* Types.                                                                  *)

LEMMA LoopType ==
    ASSUME TypeOK, NEW w \in Workers, NEW p \in Int, WorkerLoop(w, p)
    PROVE  /\ wpc' \in [Workers -> WorkerStates]
           /\ item' \in [Workers -> Items \cup {NoItem}]
           /\ threads' \subseteq Workers
           /\ old' \subseteq Workers
           /\ queue' \in Seq(Items)
           /\ processing' \in Int
  <1>1. JoinOld(wpc) \in [Workers -> WorkerStates]
    BY Zenon DEF TypeOK, WorkerStates, JoinOld
  <1>2. wpc' \in [Workers -> WorkerStates]
    BY Zenon, <1>1 DEF TypeOK, WorkerLoop, WorkerStates
  <1>3. MayDequeue => Head(queue) \in Items /\ Tail(queue) \in Seq(Items)
    BY DEF TypeOK, MayDequeue
  <1>4. item' \in [Workers -> Items \cup {NoItem}]
    BY Zenon, <1>3 DEF TypeOK, WorkerLoop, PopFront
  <1>5. threads' \subseteq Workers /\ old' \subseteq Workers
    BY Zenon DEF TypeOK, WorkerLoop
  <1>6. queue' \in Seq(Items)
    BY Zenon, <1>3 DEF TypeOK, WorkerLoop, PopFront
  <1>7. processing' \in Int
    BY SMT, Z3 DEF WorkerLoop
  <1> QED
    BY Zenon, <1>2, <1>4, <1>5, <1>6, <1>7

LEMMA CallerType ==
    ASSUME TypeOK, NEW c \in Callers, Caller(c)
    PROVE  TypeOK'
  <1> USE DEF TypeOK, WorkerStates, CallerStates, workerVars, callerVars
  <1>1. CASE Start(c)
    BY SMT, Z3, <1>1 DEF Start, StartThreads
  <1>2. ASSUME NEW n \in Sizes, Resize(c, n) PROVE TypeOK'
    BY SMT, Z3, <1>2 DEF Resize, StartThreads, WakeAll
  <1>3. ASSUME NEW i \in Items, Queue(c, i) PROVE TypeOK'
    BY SMT, Z3, <1>3 DEF Queue, WakeOne
  <1>4. CASE Pause(c)
    BY SMT, Z3, <1>4 DEF Pause, PauseTest
  <1>5. CASE PauseWake(c)
    BY Zenon, <1>5 DEF PauseWake, PauseTest
  <1>6. CASE PauseNew(c)
    BY SMT, Z3, <1>6 DEF PauseNew
  <1>7. CASE Unpause(c)
    BY SMT, Z3, <1>7 DEF Unpause, WakeAll
  <1>8. CASE Drain(c)
    BY SMT, Z3, <1>8 DEF Drain
  <1>9. CASE DrainWake(c)
    BY SMT, Z3, <1>9 DEF DrainWake
  <1>10. CASE StopBegin(c)
    BY Zenon, <1>10 DEF StopBegin, WakeAll, JoinOld
  <1>11. CASE StopJoin(c)
    BY Zenon, <1>11 DEF StopJoin
  <1>12. CASE StopClear(c)
    BY Zenon, <1>12 DEF StopClear
  <1> QED
    BY Zenon, <1>1, <1>2, <1>3, <1>4, <1>5, <1>6, <1>7, <1>8, <1>9, <1>10, <1>11, <1>12
       DEF Caller

\* Every field of the pool keeps its type.
LEMMA TypeStep == TypeOK /\ [Next]_vars => TypeOK'
  <1> SUFFICES ASSUME TypeOK, [Next]_vars PROVE TypeOK'
    BY Zenon
  <1>1. ASSUME NEW w \in Workers, WorkerStart(w) PROVE TypeOK'
    BY Zenon, <1>1, LoopType DEF WorkerStart, callerVars, TypeOK
  <1>2. ASSUME NEW w \in Workers, WaitTimeout(w) PROVE TypeOK'
    BY Zenon, <1>2 DEF WaitTimeout, callerVars, TypeOK, WorkerStates
  <1>3. ASSUME NEW w \in Workers, Process(w) PROVE TypeOK'
    BY Zenon, <1>3 DEF Process, callerVars, TypeOK, WorkerStates
  <1>4. ASSUME NEW w \in Workers, WorkerFinish(w) PROVE TypeOK'
    <2>1. processing - 1 \in Int
      BY DEF TypeOK
    <2>2. cpc' \in [Callers -> CallerStates]
      BY Zenon, <1>4 DEF WorkerFinish, WakeCallers, TypeOK, CallerStates
    <2> QED
      BY Zenon, <1>4, <2>1, <2>2, LoopType DEF WorkerFinish, TypeOK
  <1>5. CASE UNCHANGED vars
    BY Zenon, <1>5 DEF vars, TypeOK
  <1> QED
    BY Zenon, <1>1, <1>2, <1>3, <1>4, <1>5, CallerType, NextCases

LEMMA InitType == Init => TypeOK
  <1>1. Init => stop \in BOOLEAN
    BY Zenon DEF Init
  <1>2. Init => /\ wpc \in [Workers -> WorkerStates]
                /\ item \in [Workers -> Items \cup {NoItem}]
                /\ cpc \in [Callers -> CallerStates]
    BY Zenon DEF Init, WorkerStates, CallerStates
  <1>3. Init => /\ threads \subseteq Workers /\ old \subseteq Workers
                /\ numThreads \in Sizes
                /\ processing \in Int /\ pause \in Int /\ draining \in Int
    BY DEF Init
  <1>4. Init => queue \in Seq(Items)
    BY DEF Init
  <1> QED
    BY Zenon, <1>1, <1>2, <1>3, <1>4 DEF TypeOK

\* The fields of the pool keep their types under every call and every turn of
\* the worker loop.
THEOREM TypeCorrect == Spec => []TypeOK
  BY InitType, TypeStep, PTL DEF Spec

-----------------------------------------------------------------------------
(* The threads and the exclusiveness of stop().                            *)

\* One turn of the loop of worker() keeps the thread sets consistent.
LEMMA LoopAccounted ==
    ASSUME TypeOK, ThreadsAccounted, NEW w \in Workers, NEW p \in Int,
           wpc[w] \in {"start", "finish"}, WorkerLoop(w, p), stop' = stop
    PROVE  ThreadsAccounted'
  <1>1. w \in threads /\ w \notin old
    BY Zenon DEF ThreadsAccounted
  <1>2. CASE stop
    BY Zenon, <1>1, <1>2 DEF TypeOK, ThreadsAccounted, WorkerLoop
  <1>3. CASE ~stop
    BY <1>1, <1>3, ZenonT(60) DEF TypeOK, ThreadsAccounted, WorkerLoop, JoinOld
  <1> QED
    BY Zenon, <1>2, <1>3

LEMMA AccountedStep ==
    ASSUME TypeOK, ThreadsAccounted, StopExclusive, [Next]_vars
    PROVE  ThreadsAccounted'
  <1> USE DEF TypeOK, ThreadsAccounted, workerVars, callerVars
  <1>1. ASSUME NEW w \in Workers, WorkerStart(w) PROVE ThreadsAccounted'
    BY Zenon, <1>1, LoopAccounted DEF WorkerStart
  <1>2. ASSUME NEW w \in Workers, WaitTimeout(w) PROVE ThreadsAccounted'
    BY Zenon, <1>2 DEF WaitTimeout
  <1>3. ASSUME NEW w \in Workers, Process(w) PROVE ThreadsAccounted'
    BY Zenon, <1>3 DEF Process
  <1>4. ASSUME NEW w \in Workers, WorkerFinish(w) PROVE ThreadsAccounted'
    <2>1. processing - 1 \in Int
      BY SMT, Z3
    <2> QED
      BY Zenon, <1>4, <2>1, LoopAccounted DEF WorkerFinish
  <1>5. ASSUME NEW c \in Callers, Caller(c) PROVE ThreadsAccounted'
    <2>1. CASE Start(c)
      BY Zenon, <2>1 DEF Start, StartThreads
    <2>2. ASSUME NEW n \in Sizes, Resize(c, n) PROVE ThreadsAccounted'
      BY Zenon, <2>2 DEF Resize, StartThreads, WakeAll
    <2>3. ASSUME NEW i \in Items, Queue(c, i) PROVE ThreadsAccounted'
      BY SMT, Z3, <2>3 DEF Queue, WakeOne
    <2>4. CASE Pause(c) \/ PauseWake(c) \/ PauseNew(c) \/ Drain(c) \/ DrainWake(c)
      BY Zenon, <2>4 DEF Pause, PauseWake, PauseNew, Drain, DrainWake
    <2>5. CASE Unpause(c)
      BY Zenon, <2>5 DEF Unpause, WakeAll
    <2>6. CASE StopBegin(c)
      BY Zenon, <2>6 DEF StopBegin, WakeAll, JoinOld
    <2>7. CASE StopJoin(c)
      BY Zenon, <2>7 DEF StopJoin
    <2>8. CASE StopClear(c)
      BY Zenon, <2>8 DEF StopClear, StopExclusive
    <2> QED
      BY Zenon, <1>5, <2>1, <2>2, <2>3, <2>4, <2>5, <2>6, <2>7, <2>8 DEF Caller
  <1>6. CASE UNCHANGED vars
    BY Zenon, <1>6 DEF vars
  <1> QED
    BY Zenon, <1>1, <1>2, <1>3, <1>4, <1>5, <1>6, NextCases

LEMMA ExclusiveStep ==
    ASSUME TypeOK, ThreadsAccounted, StopExclusive, [Next]_vars
    PROVE  StopExclusive'
  <1> USE DEF TypeOK, StopExclusive, Stopping, workerVars, callerVars, CallerStates
  <1>1. ASSUME NEW w \in Workers, WorkerStart(w) PROVE StopExclusive'
    BY Zenon, <1>1 DEF WorkerStart, WorkerLoop, ThreadsAccounted
  <1>2. ASSUME NEW w \in Workers, WaitTimeout(w) \/ Process(w) PROVE StopExclusive'
    BY SMT, Z3, <1>2 DEF WaitTimeout, Process
  <1>4. ASSUME NEW w \in Workers, WorkerFinish(w) PROVE StopExclusive'
    <2>1. \A c \in Callers : /\ cpc'[c] = "idle" <=> cpc[c] = "idle"
                             /\ cpc'[c] = "joining" <=> cpc[c] = "joining"
                             /\ cpc'[c] = "joined" <=> cpc[c] = "joined"
      BY Zenon, <1>4 DEF WorkerFinish, WakeCallers
    <2>2. stop' = stop /\ threads' \subseteq threads
      BY Zenon, <1>4 DEF WorkerFinish, WorkerLoop
    <2> QED
      BY Zenon, <2>1, <2>2
  <1>5. ASSUME NEW c \in Callers, Caller(c) PROVE StopExclusive'
    <2>1. CASE ~Stopping /\ Start(c)
      BY Zenon, <2>1 DEF Start, StartThreads
    <2>2. ASSUME NEW n \in Sizes, ~Stopping, Resize(c, n) PROVE StopExclusive'
      BY Zenon, <2>2 DEF Resize, StartThreads
    <2>3. ASSUME NEW i \in Items, Queue(c, i) PROVE StopExclusive'
      BY Zenon, <2>3 DEF Queue
    <2>4. CASE ~Stopping /\ (Pause(c) \/ PauseNew(c) \/ Drain(c))
      BY SMT, Z3, <2>4 DEF Pause, PauseTest, PauseNew, Drain
    <2>5. CASE PauseWake(c) \/ DrainWake(c) \/ Unpause(c)
      BY SMT, Z3, <2>5 DEF PauseWake, PauseTest, DrainWake, Unpause
    <2>6. CASE (\A d \in Callers : cpc[d] = "idle") /\ StopBegin(c)
      BY SMT, Z3, <2>6 DEF StopBegin
    <2>7. CASE StopJoin(c)
      BY SMT, Z3, <2>7 DEF StopJoin
    <2>8. CASE StopClear(c)
      BY SMT, Z3, <2>8 DEF StopClear
    <2> QED
      BY Zenon, <1>5, <2>1, <2>2, <2>3, <2>4, <2>5, <2>6, <2>7, <2>8 DEF Caller, Running
  <1>6. CASE UNCHANGED vars
    BY Zenon, <1>6 DEF vars
  <1> QED
    BY Zenon, <1>1, <1>2, <1>4, <1>5, <1>6, NextCases

-----------------------------------------------------------------------------
(* The counters.                                                           *)

\* The sets the counters count are finite.
LEMMA CountedFinite ==
    /\ IsFiniteSet(Busy) /\ IsFiniteSet(Pausers) /\ IsFiniteSet(Drainers)
    /\ Cardinality(Busy) \in Nat
    /\ Cardinality(Pausers) \in Nat
    /\ Cardinality(Drainers) \in Nat
  <1>1. Busy \subseteq Workers /\ Pausers \subseteq Callers /\ Drainers \subseteq Callers
    BY Zenon DEF Busy, Pausers, Drainers
  <1>2. IsFiniteSet(Busy) /\ IsFiniteSet(Pausers) /\ IsFiniteSet(Drainers)
    BY Zenon, <1>1, FS_Subset, PoolAssumption
  <1> QED
    BY Zenon, <1>2, FS_CardinalityType

\* A worker enters Busy exactly when its turn of the loop takes an item.
LEMMA LoopBusy ==
    ASSUME TypeOK, ThreadsAccounted, NEW w \in Workers, NEW p \in Int,
           wpc[w] \in {"start", "finish"}, WorkerLoop(w, p)
    PROVE  \/ Busy' = Busy \ {w} /\ processing' = p
           \/ Busy' = (Busy \ {w}) \cup {w} /\ processing' = p + 1 /\ pause = 0
  <1>1. w \notin old
    BY Zenon DEF ThreadsAccounted
  <1>2. \A v \in Workers \ {w} : wpc'[v] \in {"process", "finish"} <=>
                                wpc[v] \in {"process", "finish"}
    BY Zenon, <1>1 DEF TypeOK, ThreadsAccounted, WorkerLoop, JoinOld
  <1>3. \/ wpc'[w] \notin {"process", "finish"} /\ processing' = p
        \/ wpc'[w] = "process" /\ processing' = p + 1 /\ pause = 0
    BY Zenon, <1>1 DEF TypeOK, WorkerLoop, JoinOld, MayDequeue
  <1> QED
    BY Zenon, <1>2, <1>3 DEF Busy

\* Every step of a worker keeps processing exact.
LEMMA WorkerBusy ==
    ASSUME TypeOK, ThreadsAccounted, processing = Cardinality(Busy),
           NEW w \in Workers, Worker(w)
    PROVE  /\ processing' = Cardinality(Busy')
           /\ pause > 0 => Busy' \subseteq Busy
  <1>1. CASE WorkerStart(w)
    <2>1. w \notin Busy
      BY Zenon, <1>1 DEF WorkerStart, Busy
    <2>2. Cardinality(Busy \cup {w}) = Cardinality(Busy) + 1
      BY Zenon, <2>1, CountedFinite, FS_AddElement
    <2>3. Busy \ {w} = Busy
      BY Zenon, <2>1
    <2>4. \/ Busy' = Busy \ {w} /\ processing' = processing
          \/ Busy' = (Busy \ {w}) \cup {w} /\ processing' = processing + 1 /\ pause = 0
      BY Zenon, <1>1, LoopBusy DEF WorkerStart, TypeOK
    <2> QED
      BY SMT, Z3, <2>2, <2>3, <2>4
  <1>2. CASE WaitTimeout(w) \/ Process(w)
    <2>1. Busy' = Busy /\ processing' = processing
      BY Zenon, <1>2 DEF WaitTimeout, Process, Busy, TypeOK
    <2> QED
      BY Zenon, <2>1
  <1>3. CASE WorkerFinish(w)
    <2>1. w \in Busy
      BY Zenon, <1>3 DEF WorkerFinish, Busy
    <2>2. Cardinality(Busy \ {w}) = Cardinality(Busy) - 1
      BY Zenon, <2>1, CountedFinite, FS_RemoveElement
    <2>3. (Busy \ {w}) \cup {w} = Busy
      BY Zenon, <2>1
    <2>4. processing - 1 \in Int /\ (processing - 1) + 1 = processing
      BY SMT, Z3 DEF TypeOK
    <2>5. \/ Busy' = Busy \ {w} /\ processing' = processing - 1
          \/ Busy' = (Busy \ {w}) \cup {w} /\ processing' = (processing - 1) + 1 /\ pause = 0
      BY Zenon, <1>3, <2>4, LoopBusy DEF WorkerFinish
    <2> QED
      BY Zenon, <2>2, <2>3, <2>4, <2>5
  <1> QED
    BY Zenon, <1>1, <1>2, <1>3 DEF Worker

\* No call changes which workers are busy, or how many are counted.
LEMMA CallerBusy ==
    ASSUME TypeOK, ThreadsAccounted, NEW c \in Callers, Caller(c)
    PROVE  Busy' = Busy /\ processing' = processing
  <1> USE DEF TypeOK, ThreadsAccounted, Busy, workerVars, callerVars
  <1>1. CASE Start(c)
    BY Zenon, <1>1 DEF Start, StartThreads
  <1>2. ASSUME NEW n \in Sizes, Resize(c, n) PROVE Busy' = Busy /\ processing' = processing
    BY Zenon, <1>2 DEF Resize, StartThreads, WakeAll
  <1>3. ASSUME NEW i \in Items, Queue(c, i) PROVE Busy' = Busy /\ processing' = processing
    BY Zenon, <1>3 DEF Queue, WakeOne
  <1>4. CASE Pause(c) \/ PauseWake(c) \/ PauseNew(c) \/ Drain(c) \/ DrainWake(c)
    BY Zenon, <1>4 DEF Pause, PauseWake, PauseNew, Drain, DrainWake
  <1>5. CASE Unpause(c)
    BY Zenon, <1>5 DEF Unpause, WakeAll
  <1>6. CASE StopBegin(c)
    BY Zenon, <1>6 DEF StopBegin, WakeAll, JoinOld
  <1>7. CASE StopJoin(c) \/ StopClear(c)
    BY Zenon, <1>7 DEF StopJoin, StopClear
  <1> QED
    BY Zenon, <1>1, <1>2, <1>3, <1>4, <1>5, <1>6, <1>7 DEF Caller

\* Workers wake the callers asleep on _wait_cond and count nobody in or out.
LEMMA WorkerWaiters ==
    ASSUME TypeOK, NEW w \in Workers, Worker(w)
    PROVE  /\ Pausers' = Pausers /\ pause' = pause
           /\ Drainers' = Drainers /\ draining' = draining
           /\ \A c \in Callers : cpc'[c] = "paused" => cpc[c] = "paused"
  <1> USE DEF TypeOK, CallerStates, Pausers, Drainers, callerVars
  <1>1. CASE WorkerStart(w) \/ WaitTimeout(w) \/ Process(w)
    BY Zenon, <1>1 DEF WorkerStart, WaitTimeout, Process
  <1>2. CASE WorkerFinish(w)
    <2>1. \A c \in Callers :
            \/ cpc'[c] = cpc[c]
            \/ cpc[c] = "pausing" /\ cpc'[c] = "pwoken"
            \/ cpc[c] = "draining" /\ cpc'[c] = "dwoken"
      BY Zenon, <1>2 DEF WorkerFinish, WakeCallers
    <2>2. pause' = pause /\ draining' = draining
      BY Zenon, <1>2 DEF WorkerFinish
    <2>3. Pausers' = Pausers /\ Drainers' = Drainers
      BY Zenon, <2>1
    <2> QED
      BY Zenon, <2>1, <2>2, <2>3
  <1> QED
    BY Zenon, <1>1, <1>2 DEF Worker

\* A call enters or leaves the set of pausing callers with its ++ or --.
LEMMA CallerPausers ==
    ASSUME TypeOK, NEW c \in Callers, Caller(c)
    PROVE  \/ Pausers' = Pausers /\ pause' = pause
           \/ c \notin Pausers /\ Pausers' = Pausers \cup {c} /\ pause' = pause + 1
           \/ c \in Pausers /\ Pausers' = Pausers \ {c} /\ pause' = pause - 1
  <1> USE DEF TypeOK, Pausers, workerVars, callerVars
  <1>1. CASE \/ Start(c) \/ (\E n \in Sizes : Resize(c, n)) \/ (\E i \in Items : Queue(c, i))
    BY Zenon, <1>1 DEF Start, Resize, Queue
  <1>2. CASE Pause(c)
    BY Zenon, <1>2 DEF Pause, PauseTest
  <1>3. CASE PauseWake(c)
    BY Zenon, <1>3 DEF PauseWake, PauseTest
  <1>4. CASE PauseNew(c)
    BY Zenon, <1>4 DEF PauseNew
  <1>5. CASE Unpause(c)
    BY Zenon, <1>5 DEF Unpause
  <1>6. CASE Drain(c) \/ DrainWake(c)
    BY Zenon, <1>6 DEF Drain, DrainWake
  <1>7. CASE StopBegin(c) \/ StopJoin(c) \/ StopClear(c)
    BY Zenon, <1>7 DEF StopBegin, StopJoin, StopClear
  <1> QED
    BY Zenon, <1>1, <1>2, <1>3, <1>4, <1>5, <1>6, <1>7 DEF Caller

\* The same for drain().
LEMMA CallerDrainers ==
    ASSUME TypeOK, NEW c \in Callers, Caller(c)
    PROVE  \/ Drainers' = Drainers /\ draining' = draining
           \/ c \notin Drainers /\ Drainers' = Drainers \cup {c} /\ draining' = draining + 1
           \/ c \in Drainers /\ Drainers' = Drainers \ {c} /\ draining' = draining - 1
  <1> USE DEF TypeOK, Drainers, workerVars, callerVars
  <1>1. CASE \/ Start(c) \/ (\E n \in Sizes : Resize(c, n)) \/ (\E i \in Items : Queue(c, i))
    BY Zenon, <1>1 DEF Start, Resize, Queue
  <1>2. CASE Pause(c) \/ PauseWake(c)
    BY Zenon, <1>2 DEF Pause, PauseWake, PauseTest
  <1>3. CASE PauseNew(c) \/ Unpause(c)
    BY Zenon, <1>3 DEF PauseNew, Unpause
  <1>4. CASE Drain(c)
    BY Zenon, <1>4 DEF Drain
  <1>5. CASE DrainWake(c)
    BY Zenon, <1>5 DEF DrainWake
  <1>6. CASE StopBegin(c) \/ StopJoin(c) \/ StopClear(c)
    BY Zenon, <1>6 DEF StopBegin, StopJoin, StopClear
  <1> QED
    BY Zenon, <1>1, <1>2, <1>3, <1>4, <1>5, <1>6 DEF Caller

LEMMA CountersStep ==
    ASSUME TypeOK, ThreadsAccounted, CountersExact, [Next]_vars
    PROVE  CountersExact'
  <1>1. ASSUME NEW w \in Workers, Worker(w) PROVE CountersExact'
    BY Zenon, <1>1, WorkerBusy, WorkerWaiters DEF CountersExact
  <1>2. ASSUME NEW c \in Callers, Caller(c) PROVE CountersExact'
    <2>1. processing' = Cardinality(Busy')
      BY Zenon, <1>2, CallerBusy DEF CountersExact
    <2>2. /\ c \notin Pausers => Cardinality(Pausers \cup {c}) = Cardinality(Pausers) + 1
          /\ c \in Pausers => Cardinality(Pausers \ {c}) = Cardinality(Pausers) - 1
      BY Zenon, CountedFinite, FS_AddElement, FS_RemoveElement
    <2>3. pause' = Cardinality(Pausers')
      BY Zenon, <1>2, <2>2, CallerPausers DEF CountersExact
    <2>4. /\ c \notin Drainers => Cardinality(Drainers \cup {c}) = Cardinality(Drainers) + 1
          /\ c \in Drainers => Cardinality(Drainers \ {c}) = Cardinality(Drainers) - 1
      BY Zenon, CountedFinite, FS_AddElement, FS_RemoveElement
    <2>5. draining' = Cardinality(Drainers')
      BY Zenon, <1>2, <2>4, CallerDrainers DEF CountersExact
    <2> QED
      BY Zenon, <2>1, <2>3, <2>5 DEF CountersExact
  <1>3. CASE UNCHANGED vars
    BY Zenon, <1>3 DEF vars, CountersExact, Busy, Pausers, Drainers
  <1> QED
    BY Zenon, <1>1, <1>2, <1>3 DEF Next

\* A paused pool stays quiet: pause is positive, so no worker takes an item.
LEMMA QuietStep ==
    ASSUME TypeOK, ThreadsAccounted, CountersExact, PausedIsQuiet, [Next]_vars
    PROVE  PausedIsQuiet'
  <1>1. ASSUME NEW w \in Workers, Worker(w) PROVE PausedIsQuiet'
    <2> SUFFICES ASSUME NEW c \in Callers, cpc'[c] = "paused" PROVE Busy' = {}
      BY Zenon DEF PausedIsQuiet
    <2>1. cpc[c] = "paused"
      BY Zenon, <1>1, WorkerWaiters
    <2>2. Busy = {}
      BY Zenon, <2>1 DEF PausedIsQuiet
    <2>3. Pausers # {}
      BY Zenon, <2>1 DEF Pausers
    <2>4. pause > 0
      BY SMT, Z3, <2>3, CountedFinite, FS_EmptySet DEF CountersExact
    <2>5. Busy' \subseteq Busy
      BY Zenon, <1>1, <2>4, WorkerBusy DEF CountersExact
    <2> QED
      BY Zenon, <2>2, <2>5
  <1>2. ASSUME NEW c \in Callers, Caller(c) PROVE PausedIsQuiet'
    <2>1. Busy' = Busy
      BY Zenon, <1>2, CallerBusy
    <2>2. CASE \A d \in Callers : cpc'[d] = "paused" => cpc[d] = "paused"
      BY Zenon, <2>1, <2>2 DEF PausedIsQuiet
    <2>3. CASE \E d \in Callers : cpc'[d] = "paused" /\ cpc[d] # "paused"
      <3>1. Pause(c) \/ PauseWake(c)
        BY Zenon, <1>2, <2>3 DEF Caller, TypeOK, callerVars, Start, Resize, Queue, PauseNew,
           Unpause, Drain, DrainWake, StopBegin, StopJoin, StopClear
      <3>2. ~(processing > 0)
        BY Zenon, <2>3, <3>1 DEF Pause, PauseWake, PauseTest, TypeOK
      <3>3. Busy = {}
        BY SMT, Z3, <3>2, CountedFinite, FS_EmptySet DEF CountersExact
      <3> QED
        BY Zenon, <2>1, <3>3 DEF PausedIsQuiet
    <2> QED
      BY Zenon, <2>2, <2>3
  <1>3. CASE UNCHANGED vars
    BY Zenon, <1>3 DEF vars, PausedIsQuiet, Busy
  <1> QED
    BY Zenon, <1>1, <1>2, <1>3 DEF Next

-----------------------------------------------------------------------------
(* The invariant of the pool.                                              *)

LEMMA InitPoolInv == Init => PoolInv
  <1> SUFFICES ASSUME Init PROVE PoolInv
    BY Zenon
  <1>1. TypeOK
    BY Zenon, InitType
  <1>2. ThreadsAccounted
    BY Zenon DEF Init, ThreadsAccounted
  <1>3. StopExclusive
    <2>1. ~stop /\ ~Stopping
      BY Zenon DEF Init, Stopping
    <2>2. \A c \in Callers : cpc[c] = "idle"
      BY Zenon DEF Init
    <2> QED
      BY Zenon, <2>1, <2>2 DEF StopExclusive
  <1>4. Busy = {} /\ Pausers = {} /\ Drainers = {}
    BY Zenon DEF Init, Busy, Pausers, Drainers
  <1>5. CountersExact
    BY Zenon, <1>4, FS_EmptySet DEF Init, CountersExact
  <1>6. PausedIsQuiet
    BY Zenon, <1>4 DEF PausedIsQuiet
  <1> QED
    BY Zenon, <1>1, <1>2, <1>3, <1>5, <1>6 DEF PoolInv

\* The conjunction of the pool's safety properties is inductive, for any finite
\* number of workers and callers.
THEOREM PoolSafe == Spec => []PoolInv
  <1>1. PoolInv /\ [Next]_vars => PoolInv'
    BY Zenon, TypeStep, AccountedStep, ExclusiveStep, CountersStep, QuietStep DEF PoolInv
  <1> QED
    BY <1>1, InitPoolInv, PTL DEF Spec

\* processing, _pause and _draining count exactly the threads between the
\* increment and the decrement.
THEOREM CountersAlwaysExact == Spec => []CountersExact
  BY PoolSafe, PTL DEF PoolInv

\* Only the threads of _threads run, and a retired one has returned before it is
\* joined.
THEOREM ThreadsAlwaysAccounted == Spec => []ThreadsAccounted
  BY PoolSafe, PTL DEF PoolInv

\* Between the return of pause() and unpause() nothing is processed.
THEOREM PauseIsQuiet == Spec => []PausedIsQuiet
  BY PoolSafe, PTL DEF PoolInv

-----------------------------------------------------------------------------
(* Items.                                                                  *)

\* Taking the head of a queue without duplicates.
LEMMA TakeHead ==
    ASSUME TypeOK, queue # <<>>,
           \A j, k \in DOMAIN queue : j # k => queue[j] # queue[k]
    PROVE  /\ Head(queue) \in Items /\ Head(queue) = queue[1] /\ 1 \in DOMAIN queue
           /\ \A k \in DOMAIN Tail(queue) :
                  /\ k + 1 \in DOMAIN queue
                  /\ Tail(queue)[k] = queue[k + 1]
                  /\ Tail(queue)[k] # Head(queue)
           /\ \A j, k \in DOMAIN Tail(queue) : j # k => Tail(queue)[j] # Tail(queue)[k]
  <1>1. queue \in Seq(Items) /\ Len(queue) \in Nat /\ Len(queue) > 0
    BY SMT, Z3 DEF TypeOK
  <1>2. DOMAIN queue = 1..Len(queue) /\ DOMAIN Tail(queue) = 1..(Len(queue) - 1)
    BY SMT, Z3, <1>1
  <1>3. \A k \in DOMAIN Tail(queue) : Tail(queue)[k] = queue[k + 1] /\ k + 1 \in DOMAIN queue
    BY SMT, Z3, <1>1, <1>2
  <1>4. Head(queue) = queue[1] /\ 1 \in DOMAIN queue /\ queue[1] \in Items
    BY SMT, Z3, <1>1, <1>2
  <1>5. \A j, k \in DOMAIN Tail(queue) : j # k => j + 1 # k + 1 /\ k + 1 # 1
    BY SMT, Z3, <1>1, <1>2
  <1>6. \A k \in DOMAIN Tail(queue) : k + 1 # 1
    BY SMT, Z3, <1>1, <1>2
  <1> QED
    BY SMT, Z3, <1>3, <1>4, <1>5, <1>6

\* A worker that leaves an item or takes one keeps every item in one place.
LEMMA LoopItems ==
    ASSUME TypeOK, ThreadsAccounted, ItemsOnce, NEW w \in Workers, NEW p \in Int,
           wpc[w] \in {"start", "finish"}, WorkerLoop(w, p)
    PROVE  ItemsOnce'
  <1>1. w \notin old
    BY Zenon DEF ThreadsAccounted
  <1>2. \A v \in Workers \ {w} : /\ item'[v] = item[v]
                                 /\ v \in Busy' <=> v \in Busy
    BY Zenon, <1>1 DEF TypeOK, ThreadsAccounted, WorkerLoop, JoinOld, Busy
  <1>3. CASE wpc'[w] = "process"
    <2>1. /\ MayDequeue /\ queue' = Tail(queue) /\ item'[w] = Head(queue)
      BY Zenon, <1>1, <1>3 DEF TypeOK, WorkerLoop, JoinOld, PopFront
    <2>2. queue # <<>>
      BY Zenon, <2>1 DEF MayDequeue
    <2>h. \A j, k \in DOMAIN queue : j # k => queue[j] # queue[k]
      BY Zenon DEF ItemsOnce
    <2>t. /\ item'[w] \in Items /\ item'[w] = queue[1] /\ 1 \in DOMAIN queue
          /\ \A k \in DOMAIN queue' : /\ k + 1 \in DOMAIN queue
                                      /\ queue'[k] = queue[k + 1]
                                      /\ queue'[k] # item'[w]
          /\ \A j, k \in DOMAIN queue' : j # k => queue'[j] # queue'[k]
      BY Zenon, <2>1, <2>2, <2>h, TakeHead
    <2>3. item'[w] # NoItem /\ w \in Busy'
      BY Zenon, <1>3, <2>t, PoolAssumption DEF Busy
    <2>q. \A v \in Workers, k \in DOMAIN queue : queue[k] # item[v]
      BY Zenon DEF ItemsOnce
    <2>4. \A v \in Workers \ {w} : item'[v] # item'[w]
      BY SMT, Z3, <1>2, <2>t, <2>q
    <2>5. \A v \in Workers, k \in DOMAIN queue' : queue'[k] # item'[v]
      BY SMT, Z3, <1>2, <2>t, <2>q
    <2>6. \A j, k \in DOMAIN queue' : j # k => queue'[j] # queue'[k]
      BY Zenon, <2>t
    <2> QED
      BY SMT, Z3, <1>2, <2>3, <2>4, <2>5, <2>6 DEF ItemsOnce
  <1>4. CASE wpc'[w] # "process"
    <2>1. item'[w] = NoItem /\ w \notin Busy' /\ queue' = queue
      BY Zenon, <1>1, <1>4 DEF TypeOK, WorkerLoop, JoinOld, Busy
    <2>2. \A k \in DOMAIN queue : queue[k] \in Items
      BY SMT, Z3 DEF TypeOK
    <2>3. \A k \in DOMAIN queue : queue[k] # NoItem
      BY Zenon, <2>2, PoolAssumption
    <2>4. \A v \in Workers, k \in DOMAIN queue' : queue'[k] # item'[v]
      BY Zenon, <1>2, <2>1, <2>3 DEF ItemsOnce
    <2>5. \A u, v \in Workers : u # v /\ item'[u] # NoItem => item'[u] # item'[v]
      BY Zenon, <1>2, <2>1 DEF ItemsOnce
    <2>6. \A v \in Workers : (item'[v] # NoItem) <=> (v \in Busy')
      BY Zenon, <1>2, <2>1 DEF ItemsOnce
    <2> QED
      BY SMT, Z3, <2>1, <2>4, <2>5, <2>6 DEF ItemsOnce
  <1> QED
    BY Zenon, <1>3, <1>4

LEMMA ItemsStep ==
    ASSUME TypeOK, ThreadsAccounted, ItemsOnce, [Next]_vars
    PROVE  ItemsOnce'
  <1>1. ASSUME NEW w \in Workers, WorkerStart(w) PROVE ItemsOnce'
    BY Zenon, <1>1, LoopItems DEF WorkerStart, TypeOK
  <1>2. ASSUME NEW w \in Workers, WaitTimeout(w) \/ Process(w) PROVE ItemsOnce'
    BY SMT, Z3, <1>2 DEF WaitTimeout, Process, ItemsOnce, Busy, TypeOK
  <1>3. ASSUME NEW w \in Workers, WorkerFinish(w) PROVE ItemsOnce'
    <2>1. processing - 1 \in Int
      BY SMT, Z3 DEF TypeOK
    <2> QED
      BY Zenon, <1>3, <2>1, LoopItems DEF WorkerFinish
  <1>4. ASSUME NEW c \in Callers, NEW i \in Items, ~InPool(i), Queue(c, i), Caller(c)
        PROVE  ItemsOnce'
    <2>1. Busy' = Busy /\ item' = item
      BY Zenon, <1>4, CallerBusy DEF Queue
    <2>2. queue' = Append(queue, i) /\ queue \in Seq(Items) /\ Len(queue) \in Nat
      BY SMT, Z3, <1>4 DEF Queue, TypeOK
    <2>3. /\ DOMAIN queue' = 1..(Len(queue) + 1) /\ DOMAIN queue = 1..Len(queue)
          /\ \A k \in DOMAIN queue : queue'[k] = queue[k]
          /\ queue'[Len(queue) + 1] = i
      BY SMT, Z3, <2>2
    <2>4. \A k \in DOMAIN queue' : \/ k \in DOMAIN queue /\ queue'[k] = queue[k]
                                   \/ k = Len(queue) + 1 /\ queue'[k] = i
      BY SMT, Z3, <2>2, <2>3
    <2>5. (\A k \in DOMAIN queue : queue[k] # i) /\ (\A w \in Workers : item[w] # i)
      BY Zenon, <1>4 DEF InPool
    <2>6. \A w \in Workers, k \in DOMAIN queue' : queue'[k] # item'[w]
      BY Zenon, <2>1, <2>4, <2>5 DEF ItemsOnce
    <2>7. \A j, k \in DOMAIN queue' : j # k => queue'[j] # queue'[k]
      BY Zenon, <2>4, <2>5 DEF ItemsOnce
    <2> QED
      BY Zenon, <2>1, <2>6, <2>7 DEF ItemsOnce
  <1>5. ASSUME NEW c \in Callers, Caller(c), UNCHANGED <<item, queue>> PROVE ItemsOnce'
    BY Zenon, <1>5, CallerBusy DEF ItemsOnce
  <1>6. ASSUME NEW c \in Callers, Caller(c) PROVE ItemsOnce'
    <2>1. \/ \E i \in Items : ~InPool(i) /\ Queue(c, i)
          \/ UNCHANGED <<item, queue>>
      BY Zenon, <1>6 DEF Caller, workerVars, callerVars, Start, Resize, Pause, PauseWake, PauseNew,
         Unpause, Drain, DrainWake, StopBegin, StopJoin, StopClear
    <2> QED
      BY Zenon, <1>4, <1>5, <1>6, <2>1
  <1>7. CASE UNCHANGED vars
    BY Zenon, <1>7 DEF vars, ItemsOnce, Busy
  <1> QED
    BY Zenon, <1>1, <1>2, <1>3, <1>6, <1>7, NextCases

\* No request is lost between the queue and the workers, or handed out twice.
THEOREM ItemsHandedOutOnce == Spec => []ItemsOnce
  <1>1. Init => ItemsOnce
    BY SMT, Z3 DEF Init, ItemsOnce, Busy
  <1>2. PoolInv /\ ItemsOnce /\ [Next]_vars => ItemsOnce'
    BY Zenon, ItemsStep DEF PoolInv
  <1> QED
    BY <1>1, <1>2, PoolSafe, PTL DEF Spec

=============================================================================
