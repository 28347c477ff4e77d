------------------------- MODULE ObjectCache_proofs -------------------------
(***************************************************************************)
(* The cache of system objects, for any number of clients and names: the   *)
(* LRU list is the list of what is cached, and what is cached is what the  *)
(* storage holds.                                                          *)
(***************************************************************************)
EXTENDS ObjectCache, TLAPS

\* One list after another.
LEMMA Joined ==
    ASSUME NEW S, NEW a \in Seq(S), NEW b \in Seq(S)
    PROVE  /\ a \o b \in Seq(S)
           /\ Len(a \o b) = Len(a) + Len(b)
           /\ \A i \in 1 .. Len(a) : (a \o b)[i] = a[i]
           /\ \A i \in 1 .. Len(b) : (a \o b)[Len(a) + i] = b[i]
  OBVIOUS

\* The list without its first k names and the one at p.
LEMMA CutFacts ==
    ASSUME NEW k \in Nat, NEW p \in Nat, k < p, p <= Len(lru) + 1,
           lru \in Seq(Names), \A i, j \in 1 .. Len(lru) : lru[i] = lru[j] => i = j
    PROVE  /\ Cut(k, p) \in Seq(Names)
           /\ Len(Cut(k, p)) = IF p = Len(lru) + 1 THEN Len(lru) - k ELSE Len(lru) - k - 1
           /\ \A i, j \in 1 .. Len(Cut(k, p)) : Cut(k, p)[i] = Cut(k, p)[j] => i = j
           /\ \A x : (\E i \in 1 .. Len(Cut(k, p)) : Cut(k, p)[i] = x)
                       <=> \E i \in k + 1 .. Len(lru) : i # p /\ lru[i] = x
  <1> DEFINE L == Len(lru)
             a == SubSeq(lru, k + 1, p - 1)
             b == SubSeq(lru, p + 1, L)
             c == a \o b
             at(i) == IF i <= p - 1 - k THEN k + i ELSE k + i + 1
  <1>0. L \in Nat
    OBVIOUS
  <1>1. /\ a \in Seq(Names) /\ Len(a) = p - 1 - k
        /\ \A i \in 1 .. p - 1 - k : a[i] = lru[k + i]
    OBVIOUS
  <1>2. /\ b \in Seq(Names) /\ Len(b) = IF p = L + 1 THEN 0 ELSE L - p
        /\ \A i \in 1 .. L - p : b[i] = lru[p + i]
    BY SMT, Z3
  <1> HIDE DEF a, b
  <1> DEFINE N == IF p = L + 1 THEN L - k ELSE L - k - 1
  <1>3. c \in Seq(Names) /\ Len(c) = N /\ N \in Nat
    <2>1. c \in Seq(Names)
      BY <1>1, <1>2
    <2>2. Len(c) = Len(a) + Len(b)
      <3>1. a \in Seq(Names) /\ b \in Seq(Names)
        BY <1>1, <1>2
      <3> QED
        BY <3>1, Joined
    <2>3. Len(a) + Len(b) = N /\ N \in Nat
      BY <1>0, <1>1, <1>2
    <2> QED
      BY <2>1, <2>2, <2>3
  <1>c. /\ \A i \in 1 .. Len(a) : c[i] = a[i]
        /\ \A i \in 1 .. Len(b) : c[Len(a) + i] = b[i]
    <2>1. a \in Seq(Names) /\ b \in Seq(Names)
      BY <1>1, <1>2
    <2> QED
      BY <2>1, Joined
  <1>7. Cut(k, p) = c
    BY DEF Cut, a, b
  <1>4. \A i \in 1 .. N : at(i) \in k + 1 .. L /\ at(i) # p /\ c[i] = lru[at(i)]
    <2> SUFFICES ASSUME NEW i \in 1 .. N PROVE at(i) \in k + 1 .. L /\ at(i) # p /\ c[i] = lru[at(i)]
      BY Zenon
    <2>1. CASE i <= p - 1 - k
      BY <1>0, <1>1, <1>2, <2>1
    <2>2. CASE i > p - 1 - k
      <3>1. i - (p - 1 - k) \in 1 .. L - p /\ p # L + 1
        BY <1>0, <2>2
      <3>2. c[i] = b[i - (p - 1 - k)]
        <4> DEFINE y == i - (p - 1 - k)
        <4>1. y \in 1 .. Len(b) /\ Len(a) + y = i
          BY <1>0, <1>1, <1>2, <3>1
        <4> QED
          BY Zenon, <1>c, <4>1
      <3>3. b[i - (p - 1 - k)] = lru[p + (i - (p - 1 - k))] /\ p + (i - (p - 1 - k)) = k + i + 1
        BY SMTT(60), <1>0, <1>2, <3>1
      <3>4. at(i) = k + i + 1 /\ c[i] = lru[k + i + 1]
        BY <2>2, <3>2, <3>3
      <3>5. at(i) \in k + 1 .. L /\ at(i) # p
        BY <1>0, <2>2, <3>1
      <3> QED
        BY Zenon, <3>4, <3>5
    <2>3. i <= p - 1 - k \/ i > p - 1 - k
      BY <1>0, <1>3
    <2> QED
      BY Zenon, <2>1, <2>2, <2>3
  <1> HIDE DEF c
  <1>5. ASSUME NEW i \in 1 .. N, NEW j \in 1 .. N, c[i] = c[j] PROVE i = j
    <2>1. lru[at(i)] = lru[at(j)] /\ at(i) \in 1 .. L /\ at(j) \in 1 .. L
      BY SMT, Z3, <1>0, <1>4, <1>5
    <2>2. at(i) = at(j)
      BY Zenon, <2>1
    <2> QED
      BY SMT, Z3, <1>0, <2>2
  <1>6. ASSUME NEW x, NEW j \in k + 1 .. L, j # p, lru[j] = x PROVE \E i \in 1 .. N : c[i] = x
    <2>1. CASE j < p
      <3>1. j - k \in 1 .. N /\ at(j - k) = j
        BY <1>0, <2>1
      <3> QED
        BY Zenon, <1>4, <1>6, <3>1
    <2>2. CASE j > p
      <3>1. j - k - 1 \in 1 .. N /\ at(j - k - 1) = j
        BY <1>0, <2>2
      <3> QED
        BY Zenon, <1>4, <1>6, <3>1
    <2> QED
      BY <1>0, <1>6, <2>1, <2>2
  <1>8. \A x : (\E i \in 1 .. N : c[i] = x) <=> \E i \in k + 1 .. L : i # p /\ lru[i] = x
    <2>1. ASSUME NEW x, NEW i \in 1 .. N, c[i] = x PROVE \E j \in k + 1 .. L : j # p /\ lru[j] = x
      BY <1>4, <2>1, Zenon
    <2> QED
      BY <1>6, <2>1, Zenon
  <1> QED
    BY Zenon, <1>3, <1>5, <1>7, <1>8

-----------------------------------------------------------------------------
(* The LRU list.                                                           *)

Entries == [gen : Nat, flags : FlagSets, data : Int, attrs : Int, meta : Int,
            chained : SUBSET Names]
Maps == [Names -> Entries \cup {NoEntry}]

ListTypes ==
    /\ setup.lruSize \in Nat
    /\ cacheMap \in Maps
    /\ lru \in Seq(Names)

ListInv == ListTypes /\ LruListsMap /\ LruBounded /\ ChainedIsRegistered

LEMMA EntriesAreNot == NoEntry \notin Entries
  BY DEF NoEntry, None, Entries

\* Where touch_lru(n) finds n, and what it pops.
LEMMA Places ==
    ASSUME ListInv, NEW n \in Names
    PROVE  /\ LruIter(n) \in 1 .. Len(lru) + 1
           /\ n \in Listed => LruIter(n) <= Len(lru) /\ lru[LruIter(n)] = n
           /\ n \notin Listed => LruIter(n) = Len(lru) + 1
           /\ Popped(n) \in Nat /\ Popped(n) < LruIter(n)
           /\ Len(lru) - Popped(n) <= setup.lruSize + (IF n \in Listed THEN 1 ELSE 0)
  <1> USE DEF ListInv, ListTypes
  <1>0. Len(lru) \in Nat
    OBVIOUS
  <1>1. n \in Listed => LruIter(n) \in 1 .. Len(lru) /\ lru[LruIter(n)] = n
    BY DEF Listed, LruIter
  <1>2. n \notin Listed => LruIter(n) = Len(lru) + 1
    BY DEF LruIter
  <1>3. LruIter(n) \in 1 .. Len(lru) + 1
    BY <1>0, <1>1, <1>2
  <1>4. Excess \in Nat /\ Excess <= 1 /\ Len(lru) - Excess <= setup.lruSize /\ Excess <= Len(lru)
    <2>1. setup.lruSize \in Nat /\ Len(lru) <= setup.lruSize + 1
      BY DEF LruBounded
    <2> HIDE DEF ListInv
    <2> DEFINE z == setup.lruSize
               L == Len(lru)
    <2>2. z \in Nat /\ L \in Nat /\ L <= z + 1 /\ Excess = IF L > z THEN L - z ELSE 0
      BY <1>0, <2>1 DEF Excess
    <2> HIDE DEF z, L
    <2>3. Excess \in Nat /\ Excess <= 1 /\ L - Excess <= z /\ Excess <= L
      BY <2>2
    <2> QED
      BY <2>3 DEF z, L
  <1>5. Popped(n) \in Nat /\ Popped(n) < LruIter(n)
    BY <1>0, <1>3, <1>4 DEF Popped
  <1>6. n \in Listed => Len(lru) - Popped(n) <= setup.lruSize + 1
    BY SMT, Z3, <1>0, <1>3, <1>4, <1>5 DEF LruBounded
  <1>7. n \notin Listed => Len(lru) - Popped(n) <= setup.lruSize
    BY <1>0, <1>2, <1>4 DEF Popped
  <1> QED
    BY <1>0, <1>1, <1>2, <1>3, <1>5, <1>6, <1>7

\* touch_lru(n) on a map that has the listed names and n.
LEMMA TouchFacts ==
    ASSUME ListInv, NEW n \in Names, NEW m \in Maps,
           \A x \in Names : m[x] # NoEntry <=> x \in Listed \/ x = n,
           TouchLru(m, n), setup' = setup
    PROVE  /\ ListTypes' /\ LruListsMap' /\ LruBounded'
           /\ cacheMap'[n] = m[n]
           /\ \A x \in Names : cacheMap'[x] = m[x]
                 \/ (cacheMap'[x] = NoEntry /\ m[x] # NoEntry /\ m[x].chained \subseteq orphaned')
           /\ orphaned \subseteq orphaned'
  <1> DEFINE L == Len(lru)
             k == Popped(n)
             p == LruIter(n)
             t == Cut(k, p)
             gone == {lru[i] : i \in 1 .. k}
  <1>0. L \in Nat /\ lru \in Seq(Names) /\ \A i, j \in 1 .. L : lru[i] = lru[j] => i = j
    BY DEF ListInv, ListTypes, LruListsMap
  <1>1. /\ k \in Nat /\ p \in Nat /\ k < p /\ p <= L + 1
        /\ n \in Listed => p <= L /\ lru[p] = n
        /\ n \notin Listed => p = L + 1
        /\ L - k <= setup.lruSize + (IF n \in Listed THEN 1 ELSE 0)
    BY <1>0, Places
  <1>2. /\ cacheMap' = Drop(m, gone)
        /\ lru' = Append(t, n)
        /\ orphaned' = orphaned \cup UNION {m[g].chained : g \in gone \cap {x \in Names : m[x] # NoEntry}}
    BY Zenon DEF TouchLru
  <1> HIDE DEF k, p
  <1>3. /\ t \in Seq(Names)
        /\ Len(t) = IF p = L + 1 THEN L - k ELSE L - k - 1
        /\ \A i, j \in 1 .. Len(t) : t[i] = t[j] => i = j
        /\ \A x : (\E i \in 1 .. Len(t) : t[i] = x) <=> \E i \in k + 1 .. L : i # p /\ lru[i] = x
    BY Zenon, <1>0, <1>1, CutFacts
  <1> HIDE DEF t
  <1>4. /\ lru' \in Seq(Names) /\ Len(lru') = Len(t) + 1 /\ Len(t) \in Nat
        /\ \A i \in 1 .. Len(t) : lru'[i] = t[i]
        /\ lru'[Len(t) + 1] = n
    BY SMT, Z3, <1>2, <1>3
  <1>5. \A i \in 1 .. Len(t) : t[i] # n
    <2> SUFFICES ASSUME NEW i \in 1 .. Len(t), t[i] = n PROVE FALSE
      OBVIOUS
    <2>1. PICK j \in k + 1 .. L : j # p /\ lru[j] = n
      BY Zenon, <1>3
    <2>2. n \in Listed
      BY SMT, Z3, <1>0, <1>1, <2>1 DEF Listed
    <2> QED
      BY SMT, Z3, <1>0, <1>1, <2>1, <2>2
  <1>6. \A i, j \in 1 .. Len(lru') : lru'[i] = lru'[j] => i = j
    <2>1. ASSUME NEW i \in 1 .. Len(t), NEW j \in 1 .. Len(t), lru'[i] = lru'[j] PROVE i = j
      BY Zenon, <1>3, <1>4, <2>1
    <2>2. \A i \in 1 .. Len(t) : lru'[i] # lru'[Len(t) + 1]
      BY <1>4, <1>5
    <2>3. \A i \in 1 .. Len(lru') : i \in 1 .. Len(t) \/ i = Len(t) + 1
      BY <1>4
    <2> QED
      BY <2>1, <2>2, <2>3
  <1>7. \A x : x \in Listed' <=> x = n \/ \E i \in k + 1 .. L : i # p /\ lru[i] = x
    <2>1. \A x : x \in Listed' <=> \E i \in 1 .. Len(t) + 1 : lru'[i] = x
      BY <1>4 DEF Listed
    <2>2. \A x : (\E i \in 1 .. Len(t) + 1 : lru'[i] = x) <=> x = n \/ \E i \in 1 .. Len(t) : t[i] = x
      BY SMT, Z3, <1>4
    <2> QED
      BY Zenon, <1>3, <2>1, <2>2
  <1>8. n \notin gone
    BY SMT, Z3, <1>0, <1>1 DEF Listed
  <1>9. \A x : x \in Listed <=> (\E i \in k + 1 .. L : i # p /\ lru[i] = x) \/ x \in gone \/ (x = n /\ n \in Listed)
    BY SMT, Z3, <1>0, <1>1 DEF Listed
  <1>10. \A x : x \in gone => ~ \E i \in k + 1 .. L : i # p /\ lru[i] = x
    BY SMT, Z3, <1>0, <1>1
  <1> HIDE DEF gone
  <1>11. \A x \in Names : x \in Listed' <=> m[x] # NoEntry /\ x \notin gone
    BY <1>7, <1>8, <1>9, <1>10
  <1>12. cacheMap' \in Maps /\ \A x \in Names : cacheMap'[x] = IF x \in gone THEN NoEntry ELSE m[x]
    BY Zenon, <1>2 DEF Drop, Maps
  <1>13. Listed' = {x \in Names : Cached(x)}'
    <2>1. Listed' \subseteq Names
      BY <1>4 DEF Listed
    <2> QED
      BY <1>11, <1>12, <2>1 DEF Cached
  <1>14. LruListsMap'
    BY <1>6, <1>13 DEF LruListsMap
  <1>15. ListTypes'
    BY <1>4, <1>12 DEF ListInv, ListTypes
  <1>16. LruBounded'
    BY SMTT(60), Z3T(60), <1>0, <1>1, <1>3, <1>4 DEF LruBounded, ListInv, ListTypes
  <1>17. cacheMap'[n] = m[n]
    BY <1>8, <1>12
  <1>18. ASSUME NEW x \in Names, cacheMap'[x] # m[x]
         PROVE  cacheMap'[x] = NoEntry /\ m[x] # NoEntry /\ m[x].chained \subseteq orphaned'
    BY Zenon, <1>2, <1>12, <1>18
  <1> QED
    BY Zenon, <1>2, <1>14, <1>15, <1>16, <1>17, <1>18

-----------------------------------------------------------------------------
(* The types, and the list and the chained entries through every step.     *)

Kinds == {"get", "stat", "put", "setattr", "delete"}
Infos == [flags : FlagSets, data : Int, attrs : Int, ok : BOOLEAN]
Ops == [kind : Kinds, name : Names]
Sights == [name : Names, gen : Nat, data : Int]

\* Which calls are where.
OpPhase ==
    \A c \in Clients :
        /\ pc[c] = "idle" => op[c] = NoOp
        /\ pc[c] # "idle" => op[c] \in Ops
        /\ pc[c] \in {"promote", "fetch"} => op[c].kind \in {"get", "stat"}
        /\ pc[c] = "insert" => op[c].kind \in {"get", "stat", "put", "setattr"}
        /\ pc[c] = "erase" => op[c].kind = "delete"

CacheTypes ==
    /\ setup \in Setups
    /\ store \in [Names -> [data : Int, attrs : Int]]
    /\ chained \in [Names -> Int]
    /\ enabled \in BOOLEAN
    /\ pc \in [Clients -> {"idle", "promote", "fetch", "insert", "erase"}]
    /\ op \in [Clients -> Ops \cup {NoOp}]
    /\ info \in [Clients -> Infos]
    /\ seen \in [Clients -> Sights \cup {NoSeen}]
    /\ writes \in Nat
    /\ OpPhase

\* What put() makes of an entry is an entry.
LEMMA MergeTypes ==
    ASSUME NEW e \in Entries, NEW i \in Infos
    PROVE  /\ Merge(e, i) \in Entries
           /\ Merge(e, i).chained = e.chained
           /\ Merge(e, i).gen = e.gen
           /\ i.ok => /\ Merge(e, i).flags = MergeFlags(e.flags, i)
                      /\ Merge(e, i).meta = IF "meta" \in i.flags THEN i.data ELSE e.meta
                      /\ Merge(e, i).attrs = IF "xattrs" \in i.flags THEN i.attrs
                                             ELSE IF "modify" \in i.flags /\ "xattrs" \in e.flags
                                             THEN i.attrs ELSE e.attrs
                      /\ Merge(e, i).data = IF "data" \in i.flags THEN i.data ELSE e.data
           /\ ~i.ok => Merge(e, i).flags = {}
  <1>2. MergeFlags(e.flags, i) \in FlagSets
    BY DEF MergeFlags, FlagSets, Entries, Infos
  <1>3. {} \in FlagSets /\ None \in Int
    BY DEF FlagSets, None
  <1>4. CASE i.ok
    <2> DEFINE f == MergeFlags(e.flags, i)
               mt == IF "meta" \in i.flags THEN i.data ELSE e.meta
               at == IF "xattrs" \in i.flags THEN i.attrs
                     ELSE IF "modify" \in i.flags /\ "xattrs" \in e.flags
                     THEN i.attrs ELSE e.attrs
               d == IF "data" \in i.flags THEN i.data ELSE e.data
    <2>1. Merge(e, i) = [e EXCEPT !.flags = f, !.meta = mt, !.attrs = at, !.data = d]
      BY <1>4, Zenon DEF Merge
    <2>2. mt \in Int /\ at \in Int /\ d \in Int /\ f \in FlagSets
      BY <1>2 DEF Entries, Infos
    <2> HIDE DEF f, mt, at, d
    <2> DEFINE g == Merge(e, i)
    <2>3. /\ g \in Entries /\ g.chained = e.chained /\ g.gen = e.gen
          /\ g.flags = f /\ g.meta = mt /\ g.attrs = at /\ g.data = d
      <3> HIDE DEF g
      <3>1. g = [e EXCEPT !.flags = f, !.meta = mt, !.attrs = at, !.data = d]
        BY <2>1 DEF g
      <3> QED
        BY Zenon, <2>2, <3>1 DEF Entries
    <2> QED
      BY Zenon, <1>4, <2>3 DEF f, mt, at, d
  <1>5. CASE ~i.ok
    <2>1. Merge(e, i) = [e EXCEPT !.flags = {}, !.data = None, !.attrs = None]
      BY <1>5, Zenon DEF Merge
    <2> DEFINE g == Merge(e, i)
    <2>2. /\ g \in Entries /\ g.chained = e.chained /\ g.gen = e.gen /\ g.flags = {}
      <3> HIDE DEF g
      <3>1. g = [e EXCEPT !.flags = {}, !.data = None, !.attrs = None]
        BY <2>1 DEF g
      <3> QED
        BY Zenon, <1>3, <3>1 DEF Entries
    <2> QED
      BY Zenon, <1>5, <2>2
  <1> QED
    BY Zenon, <1>4, <1>5

\* The entry put() starts from, and the one it leaves.
Old(n) == IF Cached(n) THEN cacheMap[n] ELSE NewEntry
Renewed(n) == [Old(n) EXCEPT !.gen = @ + 1, !.chained = {}]

LEMMA OldTypes ==
    ASSUME ListInv, NEW n \in Names
    PROVE  /\ Old(n) \in Entries /\ Renewed(n) \in Entries
           /\ Renewed(n).chained = {}
           /\ Renewed(n).flags = Old(n).flags /\ Renewed(n).data = Old(n).data
           /\ Renewed(n).attrs = Old(n).attrs /\ Renewed(n).meta = Old(n).meta
  <1>1. Old(n) \in Entries
    BY SMT, Z3 DEF ListInv, ListTypes, Maps, Old, Cached, NewEntry, Entries, FlagSets, None
  <1> DEFINE e == Old(n)
             g == Renewed(n)
  <1>2. g = [e EXCEPT !.gen = e.gen + 1, !.chained = {}] /\ e \in Entries
    BY <1>1 DEF Renewed
  <1> HIDE DEF e, g
  <1>3. /\ g \in Entries /\ g.chained = {}
        /\ g.flags = e.flags /\ g.data = e.data /\ g.attrs = e.attrs /\ g.meta = e.meta
    <2> DEFINE h == e.gen + 1
               none == {}
    <2>1. h \in Nat /\ none \in SUBSET Names
      BY <1>2 DEF Entries
    <2>2. g = [e EXCEPT !.gen = h, !.chained = none]
      BY <1>2
    <2> HIDE DEF h
    <2> QED
      BY Zenon, <1>2, <2>1, <2>2 DEF Entries
  <1> QED
    BY <1>1, <1>3 DEF e, g

\* put() of n.
LEMMA PutFacts ==
    ASSUME ListInv, CacheTypes, enabled, NEW n \in Names, NEW i \in Infos, Put(n, i), setup' = setup
    PROVE  /\ ListInv'
           /\ chained' \in [Names -> Int]
           /\ cacheMap'[n] = Merge(Renewed(n), i)
           /\ cacheMap'[n] \in Entries
           /\ \A x \in Names : x # n => cacheMap'[x] = cacheMap[x] \/ cacheMap'[x] = NoEntry
  <1> DEFINE f == Merge(Renewed(n), i)
             m == [cacheMap EXCEPT ![n] = f]
  <1>1. f \in Entries /\ f.chained = {} /\ f # NoEntry
    BY SMT, Z3, OldTypes, MergeTypes, EntriesAreNot
  <1>2. TouchLru(m, n) /\ Unchain(n)
    BY DEF Put, Renewed, Old
  <1> HIDE DEF f
  <1>3. m \in Maps /\ m[n] = f /\ \A x \in Names : x # n => m[x] = cacheMap[x]
    BY <1>1 DEF ListInv, ListTypes, Maps
  <1> HIDE DEF m
  <1>4. \A x \in Names : m[x] # NoEntry <=> x \in Listed \/ x = n
    BY <1>1, <1>3 DEF ListInv, LruListsMap, Cached
  <1>5. /\ ListTypes' /\ LruListsMap' /\ LruBounded'
        /\ cacheMap'[n] = m[n]
        /\ \A x \in Names : cacheMap'[x] = m[x]
              \/ (cacheMap'[x] = NoEntry /\ m[x] # NoEntry /\ m[x].chained \subseteq orphaned')
        /\ orphaned \subseteq orphaned'
    BY Zenon, <1>2, <1>3, <1>4, TouchFacts
  <1>6. chained' \in [Names -> Int]
    BY <1>2 DEF Unchain, CacheTypes, None
  <1>7. \A x \in Names : chained'[x] # None =>
            chained[x] # None /\ (Cached(n) => x \notin cacheMap[n].chained)
    BY Zenon, <1>2 DEF Unchain, CacheTypes
  <1>8. ChainedIsRegistered'
    <2> SUFFICES ASSUME NEW x \in Names, chained'[x] # None, x \notin orphaned'
                 PROVE  cacheMap'[x] # NoEntry /\ x \in cacheMap'[x].chained
      BY DEF ChainedIsRegistered, Cached
    <2>1. Cached(x) /\ x \in cacheMap[x].chained
      BY Zenon, <1>5, <1>7 DEF ListInv, ChainedIsRegistered
    <2>2. x # n
      BY <1>7, <2>1
    <2> QED
      BY Zenon, <1>3, <1>5, <2>1, <2>2 DEF Cached
  <1> QED
    BY Zenon, <1>1, <1>3, <1>5, <1>6, <1>8 DEF ListInv, f

\* remove() of n.
LEMMA RemoveFacts ==
    ASSUME ListInv, CacheTypes, NEW n \in Names, RemoveEntry(n), setup' = setup
    PROVE  /\ ListInv'
           /\ chained' \in [Names -> Int]
           /\ enabled => cacheMap'[n] = NoEntry
           /\ \A x \in Names : cacheMap'[x] = cacheMap[x] \/ cacheMap'[x] = NoEntry
  <1>1. CASE ~enabled \/ ~Cached(n)
    BY SMTT(60), Z3T(60), <1>1 DEF RemoveEntry, ListInv, ListTypes, LruListsMap, LruBounded, ChainedIsRegistered,
                CacheTypes, Cached, Listed
  <1>2. CASE enabled /\ Cached(n)
    <2> DEFINE L == Len(lru)
               p == LruIter(n)
    <2>1. /\ Unchain(n) /\ cacheMap' = [cacheMap EXCEPT ![n] = NoEntry] /\ lru' = Cut(0, p)
          /\ orphaned' = orphaned
      BY <1>2 DEF RemoveEntry
    <2>2. L \in Nat /\ lru \in Seq(Names) /\ \A i, j \in 1 .. L : lru[i] = lru[j] => i = j
      BY DEF ListInv, ListTypes, LruListsMap
    <2>3. n \in Listed /\ p \in 1 .. L /\ lru[p] = n
      BY SMT, Z3, <1>2, <2>2, Places DEF ListInv, LruListsMap
    <2> HIDE DEF p
    <2>4. /\ lru' \in Seq(Names) /\ Len(lru') = L - 1
          /\ \A i, j \in 1 .. Len(lru') : lru'[i] = lru'[j] => i = j
          /\ \A x : (\E i \in 1 .. Len(lru') : lru'[i] = x) <=> \E i \in 1 .. L : i # p /\ lru[i] = x
      <3>1. 0 \in Nat /\ p \in Nat /\ 0 < p /\ p <= L + 1 /\ p # L + 1 /\ 0 + 1 = 1 /\ L - 0 - 1 = L - 1
        BY <2>2, <2>3
      <3> DEFINE t == Cut(0, p)
      <3>2. /\ t \in Seq(Names)
            /\ Len(t) = IF p = L + 1 THEN L - 0 ELSE L - 0 - 1
            /\ \A i, j \in 1 .. Len(t) : t[i] = t[j] => i = j
            /\ \A x : (\E i \in 1 .. Len(t) : t[i] = x) <=> \E i \in 0 + 1 .. L : i # p /\ lru[i] = x
        BY Zenon, <2>2, <3>1, CutFacts
      <3>3. t = lru'
        BY <2>1
      <3> HIDE DEF t
      <3>4. Len(t) = L - 1
        BY <3>1, <3>2
      <3>5. 0 + 1 .. L = 1 .. L
        BY <3>1
      <3> QED
        BY Zenon, <3>2, <3>3, <3>4, <3>5
    <2>5. \A x : x \in Listed' <=> x \in Listed /\ x # n
      <3>1. \A x : x \in Listed' <=> \E i \in 1 .. Len(lru') : lru'[i] = x
        BY Zenon DEF Listed
      <3>2. \A x : x \in Listed <=> \E i \in 1 .. L : lru[i] = x
        BY Zenon DEF Listed
      <3>3. \A x : (\E i \in 1 .. L : i # p /\ lru[i] = x) <=> (\E i \in 1 .. L : lru[i] = x) /\ x # n
        BY Zenon, <2>2, <2>3
      <3> QED
        BY Zenon, <2>4, <3>1, <3>2, <3>3
    <2>6. cacheMap' \in Maps /\ cacheMap'[n] = NoEntry /\ \A x \in Names : x # n => cacheMap'[x] = cacheMap[x]
      BY <2>1 DEF ListInv, ListTypes, Maps
    <2>7. LruListsMap'
      BY SMT, Z3, <2>4, <2>5, <2>6 DEF ListInv, LruListsMap, Cached
    <2>8. ListTypes' /\ LruBounded'
      BY SMT, Z3, <2>2, <2>4, <2>6 DEF ListInv, ListTypes, LruBounded
    <2>9. chained' \in [Names -> Int]
      BY SMT, Z3, <2>1 DEF Unchain, CacheTypes, None
    <2>10. \A x \in Names : chained'[x] # None => chained[x] # None /\ x \notin cacheMap[n].chained
      BY Zenon, <1>2, <2>1 DEF Unchain, CacheTypes
    <2>11. ChainedIsRegistered'
      BY Zenon, <2>1, <2>6, <2>10 DEF ListInv, ChainedIsRegistered, Cached
    <2> QED
      BY <2>6, <2>7, <2>8, <2>9, <2>11 DEF ListInv
  <1> QED
    BY <1>1, <1>2

\* touch_lru() of an entry that is there.
LEMMA TouchedFacts ==
    ASSUME ListInv, NEW n \in Names, Cached(n), TouchLru(cacheMap, n), setup' = setup, chained' = chained
    PROVE  /\ ListInv'
           /\ \A x \in Names : cacheMap'[x] = cacheMap[x] \/ cacheMap'[x] = NoEntry
  <1>1. cacheMap \in Maps /\ \A x \in Names : cacheMap[x] # NoEntry <=> x \in Listed \/ x = n
    BY DEF ListInv, ListTypes, LruListsMap, Cached
  <1>2. /\ ListTypes' /\ LruListsMap' /\ LruBounded'
        /\ \A x \in Names : cacheMap'[x] = cacheMap[x]
              \/ (cacheMap'[x] = NoEntry /\ cacheMap[x] # NoEntry /\ cacheMap[x].chained \subseteq orphaned')
        /\ orphaned \subseteq orphaned'
    BY Zenon, <1>1, TouchFacts
  <1>3. ChainedIsRegistered'
    BY Zenon, <1>2 DEF ListInv, ChainedIsRegistered, Cached
  <1> QED
    BY <1>2, <1>3 DEF ListInv

PcStates == {"idle", "promote", "fetch", "insert", "erase"}

Fits(where, o) ==
    /\ where = "idle" => o = NoOp
    /\ where # "idle" => o \in Ops
    /\ where \in {"promote", "fetch"} => o.kind \in {"get", "stat"}
    /\ where = "insert" => o.kind \in {"get", "stat", "put", "setattr"}
    /\ where = "erase" => o.kind = "delete"

LEMMA GotoTypes ==
    ASSUME CacheTypes, NEW c \in Clients, NEW where \in PcStates, NEW o, Fits(where, o),
           Goto(c, where, o)
    PROVE  /\ pc' \in [Clients -> PcStates] /\ op' \in [Clients -> Ops \cup {NoOp}] /\ OpPhase'
           /\ pc'[c] = where /\ op'[c] = o
           /\ \A d \in Clients : d # c => pc'[d] = pc[d] /\ op'[d] = op[d]
  <1>1. o \in Ops \cup {NoOp}
    BY DEF Fits
  <1>2. pc' = [pc EXCEPT ![c] = where] /\ op' = [op EXCEPT ![c] = o]
    BY DEF Goto
  <1>3. pc' \in [Clients -> PcStates] /\ op' \in [Clients -> Ops \cup {NoOp}]
    BY Zenon, <1>1, <1>2 DEF CacheTypes, PcStates
  <1>4. /\ pc'[c] = where /\ op'[c] = o
        /\ \A d \in Clients : d # c => pc'[d] = pc[d] /\ op'[d] = op[d]
    BY <1>2 DEF CacheTypes
  <1>5. OpPhase'
    BY SMT, Z3, <1>4 DEF CacheTypes, OpPhase, Fits
  <1> QED
    BY <1>3, <1>4, <1>5

\* The list and the chained entries are left alone.
LEMMA ListFrame ==
    ASSUME ListInv, UNCHANGED <<setup, cacheMap, lru, chained, orphaned>> PROVE ListInv'
  BY SMT, Z3 DEF ListInv, ListTypes, LruListsMap, LruBounded, ChainedIsRegistered, Cached, Listed

LEMMA FetchKinds ==
    ASSUME NEW kind \in {"get", "stat"}, NEW n \in Names
    PROVE  /\ [kind |-> kind, name |-> n] \in Ops
           /\ \A where \in {"promote", "fetch"} : Fits(where, [kind |-> kind, name |-> n])
           /\ Mask(kind) \in FlagSets
  <1>1. [kind |-> kind, name |-> n] \in Ops
    BY DEF Ops, Kinds
  <1>2. Mask(kind) \in FlagSets
    BY DEF Mask, FlagSets
  <1> QED
    BY <1>1, <1>2 DEF Fits

LEMMA SeeTypes ==
    ASSUME CacheTypes, NEW c \in Clients, NEW n \in Names, NEW gen \in Nat, NEW data \in Int
    PROVE  See(c, n, gen, data) \in [Clients -> Sights \cup {NoSeen}]
  <1>1. [name |-> n, gen |-> gen, data |-> data] \in Sights
    BY DEF Sights
  <1> QED
    BY Zenon, <1>1 DEF See, CacheTypes

LEMMA AnswerTypes ==
    ASSUME CacheTypes, NEW c \in Clients, NEW kind \in {"get", "stat"}, NEW n \in Names,
           NEW e \in Entries, Answer(c, kind, n, e)
    PROVE  /\ pc' \in [Clients -> PcStates] /\ op' \in [Clients -> Ops \cup {NoOp}] /\ OpPhase'
           /\ seen' \in [Clients -> Sights \cup {NoSeen}]
           /\ \A d \in Clients : d # c => pc'[d] = pc[d] /\ op'[d] = op[d]
           /\ pc'[c] = "idle" \/ (pc'[c] = "fetch" /\ op'[c] = [kind |-> kind, name |-> n])
  <1>1. CASE Mask(kind) \subseteq e.flags
    <2>1. seen' \in [Clients -> Sights \cup {NoSeen}]
      <3>1. See(c, n, e.gen, e.data) \in [Clients -> Sights \cup {NoSeen}]
        BY SeeTypes DEF Entries
      <3> QED
        BY Zenon, <1>1, <3>1 DEF Answer, CacheTypes
    <2>2. Goto(c, "idle", NoOp) /\ "idle" \in PcStates /\ Fits("idle", NoOp)
      BY Zenon, <1>1 DEF Answer, PcStates, Fits
    <2> QED
      BY Zenon, <2>1, <2>2, GotoTypes
  <1>2. CASE ~(Mask(kind) \subseteq e.flags)
    <2>1. seen' = seen /\ Goto(c, "fetch", [kind |-> kind, name |-> n]) /\ "fetch" \in PcStates
      BY Zenon, <1>2 DEF Answer, PcStates
    <2>2. Fits("fetch", [kind |-> kind, name |-> n])
      BY FetchKinds
    <2>3. /\ pc' \in [Clients -> PcStates] /\ op' \in [Clients -> Ops \cup {NoOp}] /\ OpPhase'
          /\ pc'[c] = "fetch" /\ op'[c] = [kind |-> kind, name |-> n]
          /\ \A d \in Clients : d # c => pc'[d] = pc[d] /\ op'[d] = op[d]
      BY Zenon, <2>1, <2>2, GotoTypes
    <2> QED
      BY Zenon, <2>1, <2>3 DEF CacheTypes
  <1> QED
    BY Zenon, <1>1, <1>2

LEMMA CachedIsEntry ==
    ASSUME ListInv, NEW n \in Names, Cached(n) PROVE cacheMap[n] \in Entries
  BY DEF ListInv, ListTypes, Maps, Cached

LEMMA LookupTypes ==
    ASSUME CacheTypes, ListInv, NEW c \in Clients, NEW kind \in {"get", "stat"}, NEW n \in Names,
           Lookup(c, kind, n), setup' = setup
    PROVE  /\ CacheTypes' /\ ListInv'
           /\ \A d \in Clients : d # c => pc'[d] = pc[d] /\ op'[d] = op[d]
           /\ pc'[c] = "idle" \/ op'[c] = [kind |-> kind, name |-> n]
           /\ pc'[c] # "insert"
  <1> DEFINE o == [kind |-> kind, name |-> n]
  <1>1. UNCHANGED <<setup, store, cacheMap, lru, chained, enabled, info, writes, orphaned>>
    BY Zenon DEF Lookup
  <1>2. ListInv'
    BY <1>1, ListFrame
  <1>3. ASSUME NEW where \in {"promote", "fetch"}, Goto(c, where, o), seen' = seen
        PROVE  /\ CacheTypes'
               /\ \A d \in Clients : d # c => pc'[d] = pc[d] /\ op'[d] = op[d]
               /\ op'[c] = o /\ pc'[c] # "insert"
    <2>1. Fits(where, o) /\ where \in PcStates
      BY SMTT(30), FetchKinds DEF PcStates
    <2>2. /\ pc' \in [Clients -> PcStates] /\ op' \in [Clients -> Ops \cup {NoOp}] /\ OpPhase'
          /\ pc'[c] = where /\ op'[c] = o
          /\ \A d \in Clients : d # c => pc'[d] = pc[d] /\ op'[d] = op[d]
      BY Zenon, <1>3, <2>1, GotoTypes
    <2> QED
      BY Zenon, <1>1, <1>3, <2>2 DEF CacheTypes, PcStates
  <1>4. CASE Cached(n) /\ Answer(c, kind, n, cacheMap[n])
    <2>1. cacheMap[n] \in Entries
      BY SMTT(30), <1>4, CachedIsEntry
    <2>2. /\ pc' \in [Clients -> PcStates] /\ op' \in [Clients -> Ops \cup {NoOp}] /\ OpPhase'
          /\ seen' \in [Clients -> Sights \cup {NoSeen}]
          /\ \A d \in Clients : d # c => pc'[d] = pc[d] /\ op'[d] = op[d]
          /\ pc'[c] = "idle" \/ (pc'[c] = "fetch" /\ op'[c] = [kind |-> kind, name |-> n])
      BY SMT, Z3, <1>4, <2>1, AnswerTypes
    <2> QED
      BY Zenon, <1>1, <1>2, <2>2 DEF CacheTypes, PcStates
  <1>5. \/ Goto(c, "fetch", o) /\ seen' = seen
        \/ Cached(n) /\ Answer(c, kind, n, cacheMap[n])
        \/ Goto(c, "promote", o) /\ seen' = seen
    BY Zenon DEF Lookup
  <1> QED
    BY Zenon, <1>2, <1>3, <1>4, <1>5

LEMMA PromoteTypes ==
    ASSUME CacheTypes, ListInv, NEW c \in Clients, Promote(c), setup' = setup
    PROVE  /\ CacheTypes' /\ ListInv'
           /\ \A d \in Clients : d # c => pc'[d] = pc[d] /\ op'[d] = op[d]
           /\ pc'[c] = "idle" \/ (pc'[c] = "fetch" /\ op'[c] = op[c])
           /\ \A x \in Names : cacheMap'[x] = cacheMap[x] \/ cacheMap'[x] = NoEntry
  <1> DEFINE n == op[c].name
             k == op[c].kind
  <1>1. /\ pc[c] = "promote" /\ op[c] \in Ops /\ k \in {"get", "stat"} /\ n \in Names
        /\ op[c] = [kind |-> k, name |-> n]
    BY Zenon DEF Promote, CacheTypes, OpPhase, Ops
  <1>2. UNCHANGED <<setup, store, chained, enabled, info, writes>>
    BY Zenon DEF Promote
  <1>3. CASE ~Cached(n)
    <2>1. Goto(c, "fetch", op[c]) /\ UNCHANGED <<seen, cacheMap, lru, orphaned>>
      BY Zenon, <1>3 DEF Promote
    <2>2. ListInv'
      BY <1>2, <2>1, ListFrame
    <2>3. Fits("fetch", op[c]) /\ "fetch" \in PcStates
      BY Zenon, <1>1 DEF Fits, PcStates
    <2>4. /\ pc' \in [Clients -> PcStates] /\ op' \in [Clients -> Ops \cup {NoOp}] /\ OpPhase'
          /\ pc'[c] = "fetch" /\ op'[c] = op[c]
          /\ \A d \in Clients : d # c => pc'[d] = pc[d] /\ op'[d] = op[d]
      BY Zenon, <2>1, <2>3, GotoTypes
    <2> QED
      BY Zenon, <1>2, <2>1, <2>2, <2>4 DEF CacheTypes, PcStates
  <1>4. CASE Cached(n)
    <2>1. /\ TouchLru(cacheMap, n) \/ UNCHANGED <<cacheMap, lru, orphaned>>
          /\ Answer(c, k, n, cacheMap[n])
      BY Zenon, <1>4 DEF Promote
    <2>2. /\ ListInv'
          /\ \A x \in Names : cacheMap'[x] = cacheMap[x] \/ cacheMap'[x] = NoEntry
      <3>1. CASE TouchLru(cacheMap, n)
        BY Zenon, <1>1, <1>2, <1>4, <3>1, TouchedFacts
      <3>2. CASE UNCHANGED <<cacheMap, lru, orphaned>>
        BY <1>2, <3>2, ListFrame
      <3> QED
        BY Zenon, <2>1, <3>1, <3>2
    <2>3. cacheMap[n] \in Entries
      BY Zenon, <1>1, <1>4, CachedIsEntry
    <2>4. /\ pc' \in [Clients -> PcStates] /\ op' \in [Clients -> Ops \cup {NoOp}] /\ OpPhase'
          /\ seen' \in [Clients -> Sights \cup {NoSeen}]
          /\ \A d \in Clients : d # c => pc'[d] = pc[d] /\ op'[d] = op[d]
          /\ pc'[c] = "idle" \/ (pc'[c] = "fetch" /\ op'[c] = [kind |-> k, name |-> n])
      <3>1. CacheTypes /\ k \in {"get", "stat"} /\ n \in Names
        BY Zenon, <1>1
      <3> QED
        BY Zenon, <2>1, <2>3, <3>1, AnswerTypes
    <2> QED
      BY Zenon, <1>1, <1>2, <2>2, <2>4 DEF CacheTypes, PcStates
  <1> QED
    BY Zenon, <1>3, <1>4

LEMMA FetchTypes ==
    ASSUME CacheTypes, ListInv, NEW c \in Clients, Fetch(c), setup' = setup
    PROVE  /\ CacheTypes' /\ ListInv'
           /\ \A d \in Clients : d # c => pc'[d] = pc[d] /\ op'[d] = op[d] /\ info'[d] = info[d]
           /\ pc'[c] = "insert" /\ op'[c] = op[c] /\ op[c].name \in Names
           /\ op[c].kind \in {"get", "stat"}
           /\ info'[c].flags = Mask(op[c].kind)
           /\ info'[c].data = store[op[c].name].data
           /\ info'[c].attrs = store[op[c].name].attrs
  <1> DEFINE n == op[c].name
             k == op[c].kind
             i == [flags |-> Mask(k), data |-> store[n].data, attrs |-> store[n].attrs,
                   ok |-> store[n] # Absent]
  <1>1. pc[c] = "fetch" /\ op[c] \in Ops /\ k \in {"get", "stat"} /\ n \in Names
    BY Zenon DEF Fetch, CacheTypes, OpPhase, Ops
  <1>2. /\ UNCHANGED <<setup, store, cacheMap, lru, chained, enabled, seen, writes, orphaned>>
        /\ Goto(c, "insert", op[c]) /\ info' = [info EXCEPT ![c] = i]
    BY Zenon DEF Fetch
  <1>3. ListInv'
    BY Zenon, <1>2, ListFrame
  <1>4. Fits("insert", op[c]) /\ "insert" \in PcStates
    BY Zenon, <1>1 DEF Fits, PcStates
  <1>5. /\ pc' \in [Clients -> PcStates] /\ op' \in [Clients -> Ops \cup {NoOp}] /\ OpPhase'
        /\ pc'[c] = "insert" /\ op'[c] = op[c]
        /\ \A d \in Clients : d # c => pc'[d] = pc[d] /\ op'[d] = op[d]
    BY Zenon, <1>2, <1>4, GotoTypes
  <1>6. i \in Infos
    BY Zenon, <1>1, FetchKinds DEF Infos, CacheTypes
  <1>7. /\ i.flags = Mask(k) /\ i.data = store[n].data /\ i.attrs = store[n].attrs
    BY Zenon
  <1> HIDE DEF i
  <1>8. info' \in [Clients -> Infos] /\ info'[c] = i /\ \A d \in Clients : d # c => info'[d] = info[d]
    BY Zenon, <1>2, <1>6 DEF CacheTypes
  <1>9. CacheTypes'
    BY Zenon, <1>2, <1>5, <1>8 DEF CacheTypes, PcStates
  <1> QED
    BY Zenon, <1>1, <1>3, <1>5, <1>7, <1>8, <1>9

\* A call that ends without touching the cache.
LEMMA EndTypes ==
    ASSUME CacheTypes, NEW c \in Clients, Goto(c, "idle", NoOp)
    PROVE  /\ pc' \in [Clients -> PcStates] /\ op' \in [Clients -> Ops \cup {NoOp}] /\ OpPhase'
           /\ pc'[c] = "idle" /\ op'[c] = NoOp
           /\ \A d \in Clients : d # c => pc'[d] = pc[d] /\ op'[d] = op[d]
  <1>1. Fits("idle", NoOp) /\ "idle" \in PcStates
    BY DEF Fits, PcStates
  <1> QED
    BY Zenon, <1>1, GotoTypes

LEMMA FetchFailsTypes ==
    ASSUME CacheTypes, ListInv, NEW c \in Clients, FetchFails(c), setup' = setup
    PROVE  /\ CacheTypes' /\ ListInv'
           /\ pc'[c] = "idle" /\ op'[c] = NoOp
           /\ \A d \in Clients : d # c => pc'[d] = pc[d] /\ op'[d] = op[d]
  <1>1. /\ UNCHANGED <<setup, store, cacheMap, lru, chained, enabled, info, seen, writes, orphaned>>
        /\ Goto(c, "idle", NoOp)
    BY DEF FetchFails
  <1>2. ListInv'
    BY SMTT(30), <1>1, ListFrame
  <1> QED
    BY Zenon, <1>1, <1>2, EndTypes DEF CacheTypes, PcStates

LEMMA EraseTypes ==
    ASSUME CacheTypes, ListInv, NEW c \in Clients, Erase(c), setup' = setup
    PROVE  /\ CacheTypes' /\ ListInv'
           /\ pc'[c] = "idle" /\ op'[c] = NoOp
           /\ \A d \in Clients : d # c => pc'[d] = pc[d] /\ op'[d] = op[d]
           /\ op[c].kind = "delete" /\ op[c].name \in Names
           /\ \A x \in Names : x # op[c].name => store'[x] = store[x]
  <1>1. /\ UNCHANGED <<setup, cacheMap, lru, chained, enabled, info, seen, writes, orphaned>>
        /\ Goto(c, "idle", NoOp) /\ store' = [store EXCEPT ![op[c].name] = Absent]
        /\ pc[c] = "erase"
    BY Zenon DEF Erase
  <1>2. ListInv'
    BY Zenon, <1>1, ListFrame
  <1>3. op[c].kind = "delete" /\ op[c].name \in Names
    BY Zenon, <1>1 DEF CacheTypes, OpPhase, Ops
  <1>4. store' \in [Names -> [data : Int, attrs : Int]]
    <2>1. Absent \in [data : Int, attrs : Int]
      BY DEF Absent, None
    <2> QED
      BY Zenon, <1>1, <2>1 DEF CacheTypes
  <1>5. CacheTypes'
    BY Zenon, <1>1, <1>4, EndTypes DEF CacheTypes, PcStates
  <1>6. \A x \in Names : x # op[c].name => store'[x] = store[x]
    BY Zenon, <1>1 DEF CacheTypes
  <1> QED
    BY Zenon, <1>1, <1>2, <1>3, <1>5, <1>6, EndTypes

\* What a write leaves for its second step.
Written(c, kind, n) ==
    /\ \A d \in Clients : d # c => pc'[d] = pc[d] /\ op'[d] = op[d] /\ info'[d] = info[d]
    /\ pc[c] = "idle" /\ pc'[c] = "insert" /\ op'[c].kind = kind /\ op'[c].name = n
    /\ info'[c].flags = IF kind = "put" THEN {"xattrs", "data"} ELSE {"modify"}
    /\ info'[c].ok => /\ info'[c].attrs = store'[n].attrs
                      /\ kind = "put" => info'[c].data = store'[n].data
    /\ \A x \in Names : x # n => store'[x] = store[x]
    /\ kind = "setattr" => store'[n].data = store[n].data

LEMMA StoreWriteTypes ==
    ASSUME CacheTypes, ListInv, NEW c \in Clients, NEW kind \in {"put", "setattr"}, NEW n \in Names,
           NEW ok \in BOOLEAN, StoreWrite(c, kind, n, ok), setup' = setup
    PROVE  CacheTypes' /\ ListInv' /\ Written(c, kind, n)
  <1> DEFINE v == writes + 1
             o == [kind |-> kind, name |-> n]
             f == IF kind = "put" THEN {"xattrs", "data"} ELSE {"modify"}
             i == [flags |-> f, data |-> v, attrs |-> v, ok |-> ok]
             both == [data |-> v, attrs |-> v]
  <1>1. /\ UNCHANGED <<setup, cacheMap, lru, chained, enabled, seen, orphaned>>
        /\ Goto(c, "insert", o) /\ info' = [info EXCEPT ![c] = i]
        /\ writes' = v /\ pc[c] = "idle"
        /\ store' = IF ~ok THEN store
                    ELSE IF kind = "put" THEN [store EXCEPT ![n] = both]
                    ELSE [store EXCEPT ![n].attrs = v]
    BY Zenon DEF StoreWrite, Call
  <1>2. ListInv'
    BY Zenon, <1>1, ListFrame
  <1>3. v \in Nat /\ both \in [data : Int, attrs : Int] /\ both.data = v /\ both.attrs = v
    BY SMT, Z3 DEF CacheTypes
  <1>4. o \in Ops /\ o.kind = kind /\ o.name = n
    BY Zenon DEF Ops, Kinds
  <1>5. f \in FlagSets /\ i \in Infos /\ i.flags = f /\ i.data = v /\ i.attrs = v /\ i.ok = ok
    BY Zenon, <1>3 DEF Infos, FlagSets
  <1> HIDE DEF v, both, i, o
  <1>6. Fits("insert", o) /\ "insert" \in PcStates
    BY <1>4 DEF Fits, PcStates
  <1>7. /\ pc' \in [Clients -> PcStates] /\ op' \in [Clients -> Ops \cup {NoOp}] /\ OpPhase'
        /\ pc'[c] = "insert" /\ op'[c] = o
        /\ \A d \in Clients : d # c => pc'[d] = pc[d] /\ op'[d] = op[d]
    BY Zenon, <1>1, <1>6, GotoTypes
  <1>8. info' \in [Clients -> Infos] /\ info'[c] = i /\ \A d \in Clients : d # c => info'[d] = info[d]
    BY Zenon, <1>1, <1>5 DEF CacheTypes
  <1>9. /\ store' \in [Names -> [data : Int, attrs : Int]]
        /\ \A x \in Names : x # n => store'[x] = store[x]
        /\ ok => store'[n].attrs = v
        /\ ok /\ kind = "put" => store'[n].data = v
        /\ kind = "setattr" => store'[n].data = store[n].data
    <2>0. store \in [Names -> [data : Int, attrs : Int]]
      BY Zenon DEF CacheTypes
    <2>1. CASE ~ok
      BY Zenon, <1>1, <2>0, <2>1
    <2>2. CASE ok /\ kind = "put"
      BY Zenon, <1>1, <1>3, <2>0, <2>2
    <2>3. CASE ok /\ kind = "setattr"
      <3>1. store' = [store EXCEPT ![n] = [store[n] EXCEPT !.attrs = v]]
        BY Zenon, <1>1, <2>3
      <3> DEFINE e == [store[n] EXCEPT !.attrs = v]
      <3>2. e \in [data : Int, attrs : Int] /\ e.attrs = v /\ e.data = store[n].data
        BY Zenon, <1>3, <2>0
      <3> HIDE DEF e
      <3>3. store' = [store EXCEPT ![n] = e]
        BY <3>1 DEF e
      <3> QED
        BY Zenon, <2>0, <2>3, <3>2, <3>3
    <2> QED
      BY Zenon, <2>1, <2>2, <2>3
  <1>10. CacheTypes'
    BY Zenon, <1>1, <1>3, <1>7, <1>8, <1>9 DEF CacheTypes, PcStates
  <1> QED
    BY Zenon, <1>1, <1>2, <1>4, <1>5, <1>7, <1>8, <1>9, <1>10 DEF Written

LEMMA InsertTypes ==
    ASSUME CacheTypes, ListInv, NEW c \in Clients, Insert(c), setup' = setup
    PROVE  /\ CacheTypes' /\ ListInv'
           /\ pc'[c] = "idle" /\ op'[c] = NoOp
           /\ \A d \in Clients : d # c => pc'[d] = pc[d] /\ op'[d] = op[d] /\ info'[d] = info[d]
           /\ pc[c] = "insert" /\ op[c].name \in Names /\ info[c] \in Infos
           /\ op[c].kind \in {"get", "stat", "put", "setattr"}
           /\ IF op[c].kind \in Writers /\ ~info[c].ok THEN RemoveEntry(op[c].name)
              ELSE Put(op[c].name, info[c])
  <1> DEFINE n == op[c].name
             i == info[c]
  <1>1. /\ IF op[c].kind \in Writers /\ ~info[c].ok THEN RemoveEntry(n) ELSE Put(n, i)
        /\ seen' = IF op[c].kind = "get" /\ i.ok /\ enabled
                   THEN See(c, n, cacheMap'[n].gen, i.data) ELSE seen
        /\ pc[c] = "insert" /\ Goto(c, "idle", NoOp)
        /\ info' = [info EXCEPT ![c] = NoInfo]
        /\ UNCHANGED <<setup, store, enabled, writes>>
    BY Zenon DEF Insert
  <1>2. /\ n \in Names /\ i \in Infos /\ op[c].kind \in {"get", "stat", "put", "setattr"}
    BY Zenon, <1>1 DEF CacheTypes, OpPhase, Ops
  <1>3. NoInfo \in Infos
    BY SMTT(30) DEF NoInfo, Infos, FlagSets, None
  <1>4. info' \in [Clients -> Infos] /\ \A d \in Clients : d # c => info'[d] = info[d]
    BY Zenon, <1>1, <1>3 DEF CacheTypes
  <1>5. /\ ListInv' /\ chained' \in [Names -> Int]
        /\ enabled /\ ~(op[c].kind \in Writers /\ ~i.ok) => cacheMap'[n] \in Entries
    <2>1. CASE op[c].kind \in Writers /\ ~i.ok
      BY Zenon, <1>1, <1>2, <2>1, RemoveFacts
    <2>2. CASE ~(op[c].kind \in Writers /\ ~i.ok) /\ enabled
      BY Zenon, <1>1, <1>2, <2>2, PutFacts
    <2>3. CASE ~(op[c].kind \in Writers /\ ~i.ok) /\ ~enabled
      <3>1. UNCHANGED <<cacheMap, lru, chained, orphaned>>
        BY Zenon, <1>1, <2>3 DEF Put
      <3> QED
        BY Zenon, <1>1, <2>3, <3>1, ListFrame DEF CacheTypes
    <2> QED
      BY Zenon, <2>1, <2>2, <2>3
  <1>6. seen' \in [Clients -> Sights \cup {NoSeen}]
    <2>1. CASE op[c].kind = "get" /\ i.ok /\ enabled
      <3>1. cacheMap'[n].gen \in Nat /\ i.data \in Int
        BY Zenon, <1>2, <1>5, <2>1 DEF Entries, Infos
      <3>2. See(c, n, cacheMap'[n].gen, i.data) \in [Clients -> Sights \cup {NoSeen}]
        BY Zenon, <1>2, <3>1, SeeTypes
      <3> QED
        BY Zenon, <1>1, <2>1, <3>2
    <2>2. CASE ~(op[c].kind = "get" /\ i.ok /\ enabled)
      BY Zenon, <1>1, <2>2 DEF CacheTypes
    <2> QED
      BY Zenon, <2>1, <2>2
  <1>7. /\ pc' \in [Clients -> PcStates] /\ op' \in [Clients -> Ops \cup {NoOp}] /\ OpPhase'
        /\ pc'[c] = "idle" /\ op'[c] = NoOp
        /\ \A d \in Clients : d # c => pc'[d] = pc[d] /\ op'[d] = op[d]
    BY Zenon, <1>1, EndTypes
  <1>8. CacheTypes'
    BY Zenon, <1>1, <1>4, <1>5, <1>6, <1>7 DEF CacheTypes, PcStates
  <1> QED
    BY Zenon, <1>1, <1>2, <1>4, <1>5, <1>7, <1>8

LEMMA DeleteBeginTypes ==
    ASSUME CacheTypes, ListInv, NEW c \in Clients, NEW n \in Names, DeleteBegin(c, n), setup' = setup
    PROVE  /\ CacheTypes' /\ ListInv'
           /\ \A d \in Clients : d # c => pc'[d] = pc[d] /\ op'[d] = op[d]
           /\ pc'[c] = "erase" /\ op'[c].kind = "delete" /\ op'[c].name = n
  <1> DEFINE o == [kind |-> "delete", name |-> n]
  <1>1. /\ RemoveEntry(n) /\ Goto(c, "erase", o)
        /\ UNCHANGED <<setup, store, enabled, info, seen, writes>>
    BY Zenon DEF DeleteBegin
  <1>2. ListInv' /\ chained' \in [Names -> Int]
    BY Zenon, <1>1, RemoveFacts
  <1>3. o \in Ops /\ o.kind = "delete" /\ o.name = n
    BY DEF Ops, Kinds
  <1> HIDE DEF o
  <1>4. Fits("erase", o) /\ "erase" \in PcStates
    BY <1>3 DEF Fits, PcStates
  <1>5. /\ pc' \in [Clients -> PcStates] /\ op' \in [Clients -> Ops \cup {NoOp}] /\ OpPhase'
        /\ pc'[c] = "erase" /\ op'[c] = o
        /\ \A d \in Clients : d # c => pc'[d] = pc[d] /\ op'[d] = op[d]
    BY Zenon, <1>1, <1>4, GotoTypes
  <1>6. CacheTypes'
    BY Zenon, <1>1, <1>2, <1>5 DEF CacheTypes, PcStates
  <1> QED
    BY Zenon, <1>2, <1>3, <1>5, <1>6

LEMMA ChainTypes ==
    ASSUME CacheTypes, ListInv, NEW c \in Clients, Chain(c), setup' = setup
    PROVE  /\ CacheTypes' /\ ListInv'
           /\ \A x \in Names : Cached(x)' <=> Cached(x)
           /\ \A x \in Names : Cached(x) =>
                 /\ cacheMap'[x].flags = cacheMap[x].flags /\ cacheMap'[x].data = cacheMap[x].data
                 /\ cacheMap'[x].attrs = cacheMap[x].attrs /\ cacheMap'[x].meta = cacheMap[x].meta
  <1> DEFINE s == seen[c]
             n == s.name
             e == [cacheMap[n] EXCEPT !.chained = {n}]
  <1>1. /\ UNCHANGED <<setup, store, lru, enabled, pc, op, info, writes>>
        /\ seen' = [seen EXCEPT ![c] = NoSeen] /\ s # NoSeen
    BY Zenon DEF Chain
  <1>2. s \in Sights /\ n \in Names /\ s.data \in Int
    BY Zenon, <1>1 DEF CacheTypes, Sights
  <1>3. seen' \in [Clients -> Sights \cup {NoSeen}] /\ OpPhase'
    BY Zenon, <1>1 DEF CacheTypes, OpPhase
  <1>4. CASE enabled /\ Valid(s)
    <2>1. /\ chained' = [chained EXCEPT ![n] = s.data]
          /\ cacheMap' = [cacheMap EXCEPT ![n] = e]
          /\ orphaned' = orphaned \ {n} /\ Cached(n)
      BY Zenon, <1>4 DEF Chain, Valid
    <2>2. cacheMap[n] \in Entries /\ cacheMap \in Maps
      BY Zenon, <1>2, <2>1, CachedIsEntry DEF ListInv, ListTypes
    <2>3. /\ e \in Entries /\ e.chained = {n} /\ e.flags = cacheMap[n].flags
          /\ e.data = cacheMap[n].data /\ e.attrs = cacheMap[n].attrs /\ e.meta = cacheMap[n].meta
      BY Zenon, <1>2, <2>2 DEF Entries
    <2> HIDE DEF e
    <2>4. e # NoEntry
      BY Zenon, <2>3, EntriesAreNot
    <2>5. cacheMap' \in Maps /\ cacheMap'[n] = e /\ \A x \in Names : x # n => cacheMap'[x] = cacheMap[x]
      BY Zenon, <1>2, <2>1, <2>2, <2>3 DEF Maps
    <2>6. \A x \in Names : Cached(x)' <=> Cached(x)
      BY Zenon, <2>1, <2>4, <2>5 DEF Cached
    <2>7. chained' \in [Names -> Int] /\ \A x \in Names : x # n => chained'[x] = chained[x]
      BY Zenon, <1>2, <2>1 DEF CacheTypes
    <2>8. ListTypes' /\ LruBounded'
      BY Zenon, <1>1, <2>5 DEF ListInv, ListTypes, LruBounded
    <2>9. LruListsMap'
      BY SMT, Z3, <1>1, <2>6 DEF ListInv, LruListsMap, Listed
    <2>10. ChainedIsRegistered'
      <3> SUFFICES ASSUME NEW x \in Names, chained'[x] # None, x \notin orphaned'
                   PROVE  Cached(x)' /\ x \in cacheMap'[x].chained
        BY Zenon DEF ChainedIsRegistered
      <3>1. CASE x = n
        BY Zenon, <2>1, <2>3, <2>5, <2>6, <3>1
      <3>2. CASE x # n
        BY Zenon, <2>1, <2>5, <2>6, <2>7, <3>2 DEF ListInv, ChainedIsRegistered
      <3> QED
        BY Zenon, <3>1, <3>2
    <2>11. CacheTypes'
      BY Zenon, <1>1, <1>3, <2>7 DEF CacheTypes
    <2> QED
      BY Zenon, <2>3, <2>5, <2>6, <2>8, <2>9, <2>10, <2>11 DEF ListInv
  <1>5. CASE ~(enabled /\ Valid(s))
    <2>1. UNCHANGED <<chained, cacheMap, orphaned>>
      BY Zenon, <1>5 DEF Chain
    <2>2. ListInv'
      BY Zenon, <1>1, <2>1, ListFrame
    <2>3. CacheTypes'
      BY Zenon, <1>1, <1>3, <2>1 DEF CacheTypes
    <2> QED
      BY Zenon, <2>1, <2>2, <2>3 DEF Cached
  <1> QED
    BY Zenon, <1>4, <1>5

LEMMA SetEnabledTypes ==
    ASSUME CacheTypes, ListInv, NEW on \in BOOLEAN, SetEnabled(on), setup' = setup
    PROVE  CacheTypes' /\ ListInv' /\ (~enabled' => \A x \in Names : ~Cached(x)')
  <1>1. /\ UNCHANGED <<setup, store, pc, op, info, seen, writes>>
        /\ enabled' = on
    BY Zenon DEF SetEnabled
  <1>2. OpPhase'
    BY Zenon, <1>1 DEF CacheTypes, OpPhase
  <1>3. CASE on
    <2>1. UNCHANGED <<cacheMap, lru, chained, orphaned>>
      BY Zenon, <1>3 DEF SetEnabled
    <2> QED
      BY Zenon, <1>1, <1>2, <1>3, <2>1, ListFrame DEF CacheTypes
  <1>4. CASE ~on
    <2>1. /\ cacheMap' = [n \in Names |-> NoEntry] /\ lru' = <<>>
          /\ chained' = [n \in Names |-> None]
      BY Zenon, <1>4 DEF SetEnabled
    <2>2. chained' \in [Names -> Int]
      BY <2>1 DEF None
    <2>3. CacheTypes'
      BY Zenon, <1>1, <1>2, <2>2 DEF CacheTypes
    <2>4. Len(lru') = 0 /\ lru' \in Seq(Names) /\ Listed' = {} /\ \A x \in Names : ~Cached(x)'
      BY <2>1 DEF Listed, Cached
    <2>5. ListTypes' /\ LruBounded'
      BY SMT, Z3, <1>1, <2>1, <2>4 DEF ListInv, ListTypes, LruBounded, Maps
    <2>6. LruListsMap'
      BY <2>4 DEF LruListsMap
    <2>7. ChainedIsRegistered'
      BY <2>1 DEF ChainedIsRegistered
    <2> QED
      BY Zenon, <2>3, <2>4, <2>5, <2>6, <2>7 DEF ListInv
  <1> QED
    BY Zenon, <1>3, <1>4

LEMMA ListInit == Init => CacheTypes /\ ListInv
  <1> SUFFICES ASSUME Init PROVE CacheTypes /\ ListInv
    OBVIOUS
  <1>1. OpPhase
    BY Zenon DEF Init, OpPhase
  <1>2. NoInfo \in Infos
    BY DEF NoInfo, Infos, FlagSets, None
  <1>3. CacheTypes
    BY SMT, Z3, <1>1, <1>2 DEF Init, CacheTypes, None
  <1>4. Len(lru) = 0 /\ lru \in Seq(Names) /\ Listed = {} /\ \A x \in Names : ~Cached(x)
    BY SMT, Z3 DEF Init, Listed, Cached
  <1>5. ListTypes
    BY Zenon, <1>4, CacheAssumption DEF Init, ListTypes, Maps
  <1>6. LruBounded
    BY <1>4, <1>5 DEF LruBounded, ListTypes
  <1>7. LruListsMap
    BY <1>4 DEF LruListsMap
  <1>8. ChainedIsRegistered
    BY Zenon DEF Init, ChainedIsRegistered
  <1> QED
    BY Zenon, <1>3, <1>5, <1>6, <1>7, <1>8 DEF ListInv

-----------------------------------------------------------------------------
(* The contents of the entries.                                            *)

DataFits(e, o) ==
    /\ "data" \in e.flags => e.data = o.data
    /\ "meta" \in e.flags => e.meta = o.data

AttrsFit(e, o) == "xattrs" \in e.flags => e.attrs = o.attrs

\* What a call is about to put fits the object.
InfoFits(i, kind, o) ==
    /\ kind \in {"get", "stat"} => i.flags = Mask(kind) /\ i.data = o.data /\ i.attrs = o.attrs
    /\ kind = "put" => /\ i.flags = {"xattrs", "data"}
                       /\ i.ok => i.data = o.data /\ i.attrs = o.attrs
    /\ kind = "setattr" => i.flags = {"modify"} /\ (i.ok => i.attrs = o.attrs)

InfoRight ==
    \A c \in Clients : pc[c] = "insert" /\ op[c].name \notin raced =>
        InfoFits(info[c], op[c].kind, store[op[c].name])

\* Where no write overlapped another call, a writer is alone on its object.
NoConflict ==
    \A c, d \in Clients :
        c # d /\ op[c].name = op[d].name /\ op[c].name \in Names \ raced => op[c].kind \notin Writers

\* An entry fits the object, but for the part that a write in progress will bring.
Right(n) ==
    Cached(n) /\ n \notin raced =>
        /\ \A c \in Clients : op[c].name = n => op[c].kind # "delete"
        /\ (\A c \in Clients : op[c].name = n => op[c].kind # "put") => DataFits(cacheMap[n], store[n])
        /\ (\A c \in Clients : op[c].name = n => op[c].kind \notin Writers) => AttrsFit(cacheMap[n], store[n])

OffIsEmpty == ~enabled => \A n \in Names : ~Cached(n)

CacheInv ==
    /\ CacheTypes /\ ListInv
    /\ NoConflict /\ InfoRight /\ OffIsEmpty
    /\ \A n \in Names : Right(n)

LEMMA InvCoherent == CacheInv => CacheCoherent
  BY Zenon DEF CacheInv, Right, CacheCoherent, Coherent, DataFits, AttrsFit

\* What put() leaves fits when what it brings does.
LEMMA MergeFits ==
    ASSUME NEW e \in Entries, NEW i \in Infos, NEW o, NEW kind \in {"get", "stat", "put", "setattr"},
           InfoFits(i, kind, o), kind \in Writers => i.ok,
           kind # "put" => DataFits(e, o), kind \in {"get", "stat"} => AttrsFit(e, o)
    PROVE  DataFits(Merge(e, i), o) /\ AttrsFit(Merge(e, i), o)
  <1> DEFINE g == Merge(e, i)
  <1>1. /\ i.ok => /\ g.flags = MergeFlags(e.flags, i)
                   /\ g.meta = IF "meta" \in i.flags THEN i.data ELSE e.meta
                   /\ g.attrs = IF "xattrs" \in i.flags THEN i.attrs
                                ELSE IF "modify" \in i.flags /\ "xattrs" \in e.flags
                                THEN i.attrs ELSE e.attrs
                   /\ g.data = IF "data" \in i.flags THEN i.data ELSE e.data
        /\ ~i.ok => g.flags = {}
    BY Zenon, MergeTypes
  <1> HIDE DEF g
  <1>2. CASE ~i.ok
    BY Zenon, <1>1, <1>2 DEF DataFits, AttrsFit, g
  <1>3. CASE i.ok /\ kind \in {"get", "stat"}
    <2>1. i.flags = Mask(kind) /\ i.data = o.data /\ i.attrs = o.attrs
      BY Zenon, <1>3 DEF InfoFits
    <2>2. CASE kind = "get"
      <3>1. i.flags = {"data"} /\ g.flags = (e.flags \cup {"data"}) \ {"meta"}
        BY SMTT(30), Z3T(30), <1>1, <1>3, <2>1, <2>2 DEF Mask, MergeFlags
      <3> QED
        BY Zenon, <1>1, <1>3, <2>1, <3>1 DEF DataFits, AttrsFit, g
    <2>3. CASE kind = "stat"
      <3>1. i.flags = {"meta", "xattrs"} /\ g.flags = e.flags \cup {"meta", "xattrs"}
        BY Zenon, <1>1, <1>3, <2>1, <2>3 DEF Mask, MergeFlags
      <3> QED
        BY Zenon, <1>1, <1>3, <2>1, <3>1 DEF DataFits, AttrsFit, g
    <2> QED
      BY Zenon, <1>3, <2>2, <2>3
  <1>4. CASE i.ok /\ kind = "put"
    <2>1. i.flags = {"xattrs", "data"} /\ i.data = o.data /\ i.attrs = o.attrs
      BY Zenon, <1>4 DEF InfoFits
    <2>2. g.flags = (e.flags \cup {"xattrs", "data"}) \ {"meta"}
      BY Zenon, <1>1, <1>4, <2>1 DEF MergeFlags
    <2> QED
      BY Zenon, <1>1, <1>4, <2>1, <2>2 DEF DataFits, AttrsFit, g
  <1>5. CASE i.ok /\ kind = "setattr"
    <2>1. i.flags = {"modify"} /\ i.attrs = o.attrs
      BY Zenon, <1>5 DEF InfoFits
    <2>2. g.flags = e.flags \cup {"modify"}
      BY Zenon, <1>1, <1>5, <2>1 DEF MergeFlags
    <2> QED
      BY Zenon, <1>1, <1>5, <2>1, <2>2 DEF DataFits, AttrsFit, g
  <1> QED
    BY Zenon, <1>2, <1>3, <1>4, <1>5

\* An entry and an object that a step does not change stay right.
LEMMA Kept ==
    ASSUME NEW n \in Names, Right(n), store'[n] = store[n], raced \subseteq raced',
           Cached(n)' => /\ Cached(n)
                         /\ cacheMap'[n].flags = cacheMap[n].flags
                         /\ cacheMap'[n].data = cacheMap[n].data
                         /\ cacheMap'[n].attrs = cacheMap[n].attrs
                         /\ cacheMap'[n].meta = cacheMap[n].meta,
           \A d \in Clients : op[d].name = n /\ op[d].kind \in Writers => op'[d] = op[d],
           \A d \in Clients : op'[d].name = n /\ op'[d].kind = "delete" => op'[d] = op[d]
    PROVE  Right(n)'
  <1> SUFFICES ASSUME Cached(n)', n \notin raced'
               PROVE  /\ \A c \in Clients : op'[c].name = n => op'[c].kind # "delete"
                      /\ (\A c \in Clients : op'[c].name = n => op'[c].kind # "put")
                            => DataFits(cacheMap'[n], store'[n])
                      /\ (\A c \in Clients : op'[c].name = n => op'[c].kind \notin Writers)
                            => AttrsFit(cacheMap'[n], store'[n])
    BY Zenon DEF Right, DataFits, AttrsFit
  <1>1. /\ \A c \in Clients : op[c].name = n => op[c].kind # "delete"
        /\ (\A c \in Clients : op[c].name = n => op[c].kind # "put") => DataFits(cacheMap[n], store[n])
        /\ (\A c \in Clients : op[c].name = n => op[c].kind \notin Writers) => AttrsFit(cacheMap[n], store[n])
    BY Zenon DEF Right
  <1>2. \A c \in Clients : op'[c].name = n => op'[c].kind # "delete"
    BY Zenon, <1>1
  <1>3. ASSUME \A c \in Clients : op'[c].name = n => op'[c].kind # "put"
        PROVE  DataFits(cacheMap'[n], store'[n])
    <2>1. \A c \in Clients : op[c].name = n => op[c].kind # "put"
      BY Zenon, <1>3 DEF Writers
    <2> QED
      BY Zenon, <1>1, <2>1 DEF DataFits
  <1>4. ASSUME \A c \in Clients : op'[c].name = n => op'[c].kind \notin Writers
        PROVE  AttrsFit(cacheMap'[n], store'[n])
    <2>1. \A c \in Clients : op[c].name = n => op[c].kind \notin Writers
      BY Zenon, <1>4
    <2> QED
      BY Zenon, <1>1, <2>1 DEF AttrsFit
  <1> QED
    BY Zenon, <1>2, <1>3, <1>4

Alone(c) == \A d \in Clients : d # c => pc'[d] = pc[d] /\ op'[d] = op[d]

LEMMA IdleIsOff ==
    ASSUME CacheTypes, NEW c \in Clients
    PROVE  /\ pc[c] = "idle" => op[c].name \notin Names /\ op[c].kind \notin Writers
           /\ NoOp.name \notin Names /\ NoOp.kind \notin Writers
  <1>1. NoOp.name = -1 /\ NoOp.kind = "none"
    BY DEF NoOp, None
  <1>2. NoOp.name \notin Names /\ NoOp.kind \notin Writers
    BY Zenon, <1>1, CacheAssumption DEF Writers
  <1> QED
    BY Zenon, <1>2 DEF CacheTypes, OpPhase

LEMMA ConflictKept ==
    ASSUME CacheTypes, NoConflict, NEW c \in Clients, Alone(c), raced \subseteq raced',
           op'[c] = op[c] \/ op'[c] = NoOp
    PROVE  NoConflict'
  <1> SUFFICES ASSUME NEW a \in Clients, NEW b \in Clients, a # b, op'[a].name = op'[b].name,
                      op'[a].name \in Names, op'[a].name \notin raced'
               PROVE  op'[a].kind \notin Writers
    BY Zenon DEF NoConflict
  <1>1. op'[a] = op[a] /\ op'[b] = op[b]
    BY Zenon, IdleIsOff DEF Alone
  <1> QED
    BY Zenon, <1>1 DEF NoConflict

LEMMA CallConflict ==
    ASSUME CacheTypes, NoConflict, NEW c \in Clients, NEW kind, NEW n \in Names,
           Call(c, kind, n), Alone(c), op'[c] = NoOp \/ (op'[c].kind = kind /\ op'[c].name = n)
    PROVE  /\ NoConflict' /\ raced \subseteq raced'
           /\ kind \in Writers /\ n \notin raced' => \A d \in Clients : op[d].name # n
  <1>1. raced \subseteq raced'
    BY Zenon DEF Call
  <1>2. \A d \in Clients : op[d].name = n /\ (kind \in Writers \/ op[d].kind \in Writers) => n \in raced'
    <2> SUFFICES ASSUME NEW d \in Clients, op[d].name = n, kind \in Writers \/ op[d].kind \in Writers
                 PROVE  n \in raced'
      BY Zenon
    <2>1. pc[d] # "idle"
      BY Zenon, IdleIsOff
    <2>2. {kind, op[d].kind} \cap Writers # {}
      BY Zenon
    <2> QED
      BY Zenon, <2>1, <2>2 DEF Call
  <1>3. NoConflict'
    <2> SUFFICES ASSUME NEW a \in Clients, NEW b \in Clients, a # b, op'[a].name = op'[b].name,
                        op'[a].name \in Names, op'[a].name \notin raced'
                 PROVE  op'[a].kind \notin Writers
      BY Zenon DEF NoConflict
    <2>1. CASE a = c
      <3>1. op'[b] = op[b] /\ op'[a].kind = kind /\ op'[a].name = n
        BY Zenon, <2>1, IdleIsOff DEF Alone
      <3> QED
        BY Zenon, <1>2, <3>1
    <2>2. CASE b = c
      <3>1. op'[a] = op[a] /\ op'[b].name = n
        BY Zenon, <2>2, IdleIsOff DEF Alone
      <3> QED
        BY Zenon, <1>2, <3>1
    <2>3. CASE a # c /\ b # c
      BY Zenon, <1>1, <2>3 DEF Alone, NoConflict
    <2> QED
      BY Zenon, <2>1, <2>2, <2>3
  <1> QED
    BY Zenon, <1>1, <1>2, <1>3

LEMMA InfoKept ==
    ASSUME CacheTypes, InfoRight, NEW c \in Clients, Alone(c), raced \subseteq raced',
           \A d \in Clients : d # c => info'[d] = info[d],
           \A d \in Clients : d # c /\ pc[d] = "insert" /\ op[d].name \notin raced'
                                => store'[op[d].name] = store[op[d].name],
           pc'[c] = "insert" /\ op'[c].name \notin raced'
              => InfoFits(info'[c], op'[c].kind, store'[op'[c].name])
    PROVE  InfoRight'
  <1> SUFFICES ASSUME NEW d \in Clients, pc'[d] = "insert", op'[d].name \notin raced'
               PROVE  InfoFits(info'[d], op'[d].kind, store'[op'[d].name])
    BY Zenon DEF InfoRight, InfoFits
  <1>1. CASE d = c
    BY Zenon, <1>1
  <1>2. CASE d # c
    <2>1. pc[d] = "insert" /\ op'[d] = op[d] /\ info'[d] = info[d]
      BY Zenon, <1>2 DEF Alone
    <2>2. store'[op[d].name] = store[op[d].name]
      BY Zenon, <1>2, <2>1
    <2>3. InfoFits(info[d], op[d].kind, store[op[d].name])
      BY Zenon, <2>1 DEF InfoRight
    <2> QED
      BY Zenon, <2>1, <2>2, <2>3
  <1> QED
    BY Zenon, <1>1, <1>2

\* A step that leaves the storage alone, takes nothing but whole entries from the cache,
\* and starts or ends a read.
LEMMA ReadStep ==
    ASSUME CacheInv, NEW c \in Clients, Alone(c), store' = store, enabled' = enabled,
           raced \subseteq raced', NoConflict', InfoRight',
           \A x \in Names : cacheMap'[x] = cacheMap[x] \/ cacheMap'[x] = NoEntry,
           op[c].kind \notin Writers, op'[c].kind # "delete", CacheTypes', ListInv'
    PROVE  CacheInv'
  <1>1. OffIsEmpty'
    BY Zenon DEF CacheInv, OffIsEmpty, Cached
  <1>2. ASSUME NEW x \in Names PROVE Right(x)'
    <2>1. Right(x) /\ store'[x] = store[x]
      BY Zenon DEF CacheInv
    <2>2. Cached(x)' => /\ Cached(x)
                        /\ cacheMap'[x] = cacheMap[x]
      BY Zenon DEF Cached
    <2>3. \A d \in Clients : op[d].name = x /\ op[d].kind \in Writers => op'[d] = op[d]
      BY Zenon DEF Alone
    <2>4. \A d \in Clients : op'[d].name = x /\ op'[d].kind = "delete" => op'[d] = op[d]
      BY Zenon DEF Alone
    <2> QED
      BY Zenon, <2>1, <2>2, <2>3, <2>4, Kept
  <1> QED
    BY Zenon, <1>1, <1>2 DEF CacheInv

LEMMA LookupStep ==
    ASSUME CacheInv, NEW c \in Clients, NEW kind \in {"get", "stat"}, NEW n \in Names,
           Lookup(c, kind, n), setup' = setup
    PROVE  CacheInv'
  <1>0. CacheTypes /\ ListInv /\ NoConflict /\ InfoRight
    BY Zenon DEF CacheInv
  <1>1. /\ CacheTypes' /\ ListInv' /\ Alone(c)
        /\ pc'[c] = "idle" \/ op'[c] = [kind |-> kind, name |-> n]
        /\ pc'[c] # "insert"
    BY Zenon, <1>0, LookupTypes DEF Alone
  <1>2. /\ UNCHANGED <<store, cacheMap, enabled, info>>
        /\ Call(c, kind, n) /\ pc[c] = "idle"
    BY Zenon DEF Lookup, Call
  <1>3. op'[c] = NoOp \/ (op'[c].kind = kind /\ op'[c].name = n)
    BY SMTT(30), Z3T(30), <1>1 DEF CacheTypes, OpPhase
  <1>4. NoConflict' /\ raced \subseteq raced'
    BY Zenon, <1>0, <1>1, <1>2, <1>3, CallConflict
  <1>5. InfoRight'
    BY Zenon, <1>0, <1>1, <1>2, <1>4, InfoKept
  <1>6. op[c].kind \notin Writers /\ op'[c].kind # "delete"
    BY Zenon, <1>0, <1>2, <1>3, IdleIsOff DEF Writers
  <1> QED
    BY Zenon, <1>1, <1>2, <1>4, <1>5, <1>6, ReadStep

LEMMA PromoteStep ==
    ASSUME CacheInv, NEW c \in Clients, Promote(c), setup' = setup
    PROVE  CacheInv'
  <1>0. CacheTypes /\ ListInv /\ NoConflict /\ InfoRight
    BY Zenon DEF CacheInv
  <1>1. /\ CacheTypes' /\ ListInv' /\ Alone(c)
        /\ pc'[c] = "idle" \/ (pc'[c] = "fetch" /\ op'[c] = op[c])
        /\ \A x \in Names : cacheMap'[x] = cacheMap[x] \/ cacheMap'[x] = NoEntry
    BY Zenon, <1>0, PromoteTypes DEF Alone
  <1>2. UNCHANGED <<store, enabled, info, raced>> /\ pc[c] = "promote"
    BY Zenon DEF Promote
  <1>3. op'[c] = NoOp \/ op'[c] = op[c]
    BY Zenon, <1>1 DEF CacheTypes, OpPhase
  <1>4. NoConflict'
    BY Zenon, <1>0, <1>1, <1>2, <1>3, ConflictKept
  <1>5. InfoRight'
    BY Zenon, <1>0, <1>1, <1>2, InfoKept
  <1>6. op[c].kind \notin Writers /\ op'[c].kind # "delete"
    <2>1. op[c].kind \in {"get", "stat"}
      BY Zenon, <1>0, <1>2 DEF CacheTypes, OpPhase
    <2> QED
      BY Zenon, <1>0, <1>3, <2>1, IdleIsOff DEF Writers
  <1> QED
    BY Zenon, <1>1, <1>2, <1>4, <1>5, <1>6, ReadStep

LEMMA FetchStep ==
    ASSUME CacheInv, NEW c \in Clients, Fetch(c), setup' = setup
    PROVE  CacheInv'
  <1>0. CacheTypes /\ ListInv /\ NoConflict /\ InfoRight
    BY Zenon DEF CacheInv
  <1>1. /\ CacheTypes' /\ ListInv' /\ Alone(c)
        /\ \A d \in Clients : d # c => info'[d] = info[d]
        /\ op'[c] = op[c] /\ op[c].kind \in {"get", "stat"}
        /\ info'[c].flags = Mask(op[c].kind)
        /\ info'[c].data = store[op[c].name].data
        /\ info'[c].attrs = store[op[c].name].attrs
    BY SMT, Z3, <1>0, FetchTypes DEF Alone
  <1>2. UNCHANGED <<store, cacheMap, enabled, raced>>
    BY Zenon DEF Fetch
  <1>3. NoConflict'
    BY Zenon, <1>0, <1>1, <1>2, ConflictKept
  <1>4. InfoFits(info'[c], op'[c].kind, store'[op'[c].name])
    BY Zenon, <1>1, <1>2 DEF InfoFits
  <1>5. InfoRight'
    BY Zenon, <1>0, <1>1, <1>2, <1>4, InfoKept
  <1>6. op[c].kind \notin Writers /\ op'[c].kind # "delete"
    BY Zenon, <1>1 DEF Writers
  <1> QED
    BY Zenon, <1>1, <1>2, <1>3, <1>5, <1>6, ReadStep

LEMMA FetchFailsStep ==
    ASSUME CacheInv, NEW c \in Clients, FetchFails(c), setup' = setup
    PROVE  CacheInv'
  <1>0. CacheTypes /\ ListInv /\ NoConflict /\ InfoRight
    BY Zenon DEF CacheInv
  <1>1. CacheTypes' /\ ListInv' /\ Alone(c) /\ pc'[c] = "idle" /\ op'[c] = NoOp
    BY Zenon, <1>0, FetchFailsTypes DEF Alone
  <1>2. UNCHANGED <<store, cacheMap, enabled, raced, info>> /\ pc[c] = "fetch"
    BY Zenon DEF FetchFails
  <1>3. NoConflict'
    BY Zenon, <1>0, <1>1, <1>2, ConflictKept
  <1>5. InfoRight'
    BY Zenon, <1>0, <1>1, <1>2, InfoKept
  <1>6. op[c].kind \notin Writers /\ op'[c].kind # "delete"
    <2>1. op[c].kind \in {"get", "stat"}
      BY Zenon, <1>0, <1>2 DEF CacheTypes, OpPhase
    <2> QED
      BY Zenon, <1>0, <1>1, <2>1, IdleIsOff DEF Writers
  <1> QED
    BY Zenon, <1>1, <1>2, <1>3, <1>5, <1>6, ReadStep

LEMMA StoreWriteStep ==
    ASSUME CacheInv, NEW c \in Clients, NEW kind \in {"put", "setattr"}, NEW n \in Names,
           NEW ok \in BOOLEAN, StoreWrite(c, kind, n, ok), setup' = setup
    PROVE  CacheInv'
  <1>0. CacheTypes /\ ListInv /\ NoConflict /\ InfoRight
    BY Zenon DEF CacheInv
  <1>1. /\ CacheTypes' /\ ListInv' /\ Alone(c)
        /\ \A d \in Clients : d # c => info'[d] = info[d]
        /\ pc[c] = "idle" /\ op'[c].kind = kind /\ op'[c].name = n
        /\ info'[c].flags = IF kind = "put" THEN {"xattrs", "data"} ELSE {"modify"}
        /\ info'[c].ok => /\ info'[c].attrs = store'[n].attrs
                          /\ kind = "put" => info'[c].data = store'[n].data
        /\ \A x \in Names : x # n => store'[x] = store[x]
        /\ kind = "setattr" => store'[n].data = store[n].data
    <2>1. CacheTypes' /\ ListInv' /\ Written(c, kind, n)
      BY Zenon, <1>0, StoreWriteTypes
    <2> QED
      BY Zenon, <2>1 DEF Alone, Written
  <1>2. UNCHANGED <<cacheMap, enabled>> /\ Call(c, kind, n)
    BY Zenon DEF StoreWrite
  <1>3. /\ NoConflict' /\ raced \subseteq raced'
        /\ n \notin raced' => \A d \in Clients : op[d].name # n
    <2>1. kind \in Writers
      BY Zenon DEF Writers
    <2> QED
      BY Zenon, <1>0, <1>1, <1>2, <2>1, CallConflict
  <1>4. InfoFits(info'[c], op'[c].kind, store'[op'[c].name])
    BY Zenon, <1>1 DEF InfoFits
  <1>5. InfoRight'
    <2>1. ASSUME NEW d \in Clients, d # c, pc[d] = "insert", op[d].name \notin raced'
          PROVE  store'[op[d].name] = store[op[d].name]
      <3>1. op[d].name \in Names
        BY Zenon, <1>0, <2>1 DEF CacheTypes, OpPhase, Ops
      <3> QED
        BY Zenon, <1>1, <1>3, <2>1, <3>1
    <2> QED
      BY Zenon, <1>0, <1>1, <1>3, <1>4, <2>1, InfoKept
  <1>6. OffIsEmpty'
    BY Zenon, <1>2 DEF CacheInv, OffIsEmpty, Cached
  <1>7. ASSUME NEW x \in Names PROVE Right(x)'
    <2>0. Right(x)
      BY Zenon DEF CacheInv
    <2>i. op[c].name \notin Names /\ op[c].kind \notin Writers
      BY Zenon, <1>0, <1>1, IdleIsOff
    <2>1. CASE x # n
      <3>1. \A d \in Clients : op[d].name = x /\ op[d].kind \in Writers => op'[d] = op[d]
        BY Zenon, <1>1, <2>i DEF Alone
      <3>2. \A d \in Clients : op'[d].name = x /\ op'[d].kind = "delete" => op'[d] = op[d]
        BY Zenon, <1>1 DEF Alone
      <3>3. Cached(x)' => Cached(x) /\ cacheMap'[x] = cacheMap[x]
        BY Zenon, <1>2 DEF Cached
      <3> QED
        BY Zenon, <1>1, <1>3, <2>0, <2>1, <3>1, <3>2, <3>3, Kept
    <2>2. CASE x = n
      <3> SUFFICES ASSUME Cached(n)', n \notin raced'
                   PROVE  Right(n)'
        BY Zenon, <2>2 DEF Right
      <3>1. \A d \in Clients : op'[d].name = n => d = c
        BY SMT, Z3, <1>1, <1>3 DEF Alone
      <3>2. cacheMap'[n] = cacheMap[n] /\ DataFits(cacheMap[n], store[n])
        BY Zenon, <1>2, <1>3, <2>0, <2>2 DEF Right, Cached
      <3>3. \A d \in Clients : op'[d].name = n => op'[d].kind # "delete"
        BY Zenon, <1>1, <3>1
      <3>4. ~ \A d \in Clients : op'[d].name = n => op'[d].kind \notin Writers
        BY Zenon, <1>1 DEF Writers
      <3>5. (\A d \in Clients : op'[d].name = n => op'[d].kind # "put") => DataFits(cacheMap'[n], store'[n])
        BY Zenon, <1>1, <3>2 DEF DataFits
      <3> QED
        BY Zenon, <3>3, <3>4, <3>5 DEF Right, DataFits, AttrsFit
    <2> QED
      BY Zenon, <2>1, <2>2
  <1> QED
    BY Zenon, <1>1, <1>3, <1>5, <1>6, <1>7 DEF CacheInv

LEMMA InsertStep ==
    ASSUME CacheInv, NEW c \in Clients, Insert(c), setup' = setup
    PROVE  CacheInv'
  <1> DEFINE n == op[c].name
             k == op[c].kind
             i == info[c]
  <1>0. CacheTypes /\ ListInv /\ NoConflict /\ InfoRight
    BY DEF CacheInv
  <1>1. /\ CacheTypes' /\ ListInv' /\ Alone(c) /\ pc'[c] = "idle" /\ op'[c] = NoOp
        /\ \A d \in Clients : d # c => info'[d] = info[d]
        /\ pc[c] = "insert" /\ n \in Names /\ i \in Infos /\ k \in {"get", "stat", "put", "setattr"}
        /\ IF k \in Writers /\ ~i.ok THEN RemoveEntry(n) ELSE Put(n, i)
    BY Zenon, <1>0, InsertTypes DEF Alone
  <1>2. UNCHANGED <<store, enabled, raced>>
    BY Zenon DEF Insert
  <1>3. NoConflict'
    BY Zenon, <1>0, <1>1, <1>2, ConflictKept
  <1>4. InfoRight'
    BY Zenon, <1>0, <1>1, <1>2, InfoKept
  <1>5. /\ \A x \in Names : x # n => cacheMap'[x] = cacheMap[x] \/ cacheMap'[x] = NoEntry
        /\ ~enabled => cacheMap' = cacheMap
        /\ enabled /\ k \in Writers /\ ~i.ok => cacheMap'[n] = NoEntry
        /\ enabled /\ (k \in Writers => i.ok) => cacheMap'[n] = Merge(Renewed(n), i)
    <2>1. CASE ~enabled
      BY Zenon, <1>1, <2>1 DEF RemoveEntry, Put
    <2>2. CASE enabled /\ k \in Writers /\ ~i.ok
      BY Zenon, <1>0, <1>1, <2>2, RemoveFacts
    <2>3. CASE enabled /\ (k \in Writers => i.ok)
      BY Zenon, <1>0, <1>1, <2>3, PutFacts
    <2> QED
      BY Zenon, <2>1, <2>2, <2>3
  <1>6. OffIsEmpty'
    BY Zenon, <1>2, <1>5 DEF CacheInv, OffIsEmpty, Cached
  <1>7. ASSUME NEW x \in Names PROVE Right(x)'
    <2>0. Right(x)
      BY Zenon DEF CacheInv
    <2>i. NoOp.name \notin Names /\ NoOp.kind \notin Writers
      BY Zenon, <1>0, IdleIsOff
    <2>1. CASE x # n
      <3>1. \A d \in Clients : op[d].name = x /\ op[d].kind \in Writers => op'[d] = op[d]
        BY Zenon, <1>1, <2>1 DEF Alone
      <3>2. \A d \in Clients : op'[d].name = x /\ op'[d].kind = "delete" => op'[d] = op[d]
        BY Zenon, <1>1, <2>i DEF Alone
      <3>3. Cached(x)' => Cached(x) /\ cacheMap'[x] = cacheMap[x]
        BY Zenon, <1>5, <2>1 DEF Cached
      <3> QED
        BY Zenon, <1>2, <2>0, <3>1, <3>2, <3>3, Kept
    <2>2. CASE x = n
      <3> SUFFICES ASSUME Cached(x)', x \notin raced PROVE Right(x)'
        BY Zenon, <1>2 DEF Right
      <3>1. enabled /\ (k \in Writers => i.ok) /\ cacheMap'[n] = Merge(Renewed(n), i)
        BY Zenon, <1>1, <1>2, <1>5, <1>6, <2>2 DEF OffIsEmpty, Cached
      <3>2. InfoFits(i, k, store[n])
        BY Zenon, <1>0, <1>1, <2>2 DEF InfoRight
      <3>3. \A d \in Clients : op[d].name = n => d = c \/ op[d].kind \notin Writers
        BY Zenon, <1>0, <1>1, <2>2 DEF NoConflict
      <3>4. k \in Writers => \A d \in Clients : op[d].name = n => d = c
        BY Zenon, <1>0, <1>1, <2>2 DEF NoConflict
      <3>5. k # "put" => DataFits(Renewed(n), store[n])
        <4> SUFFICES ASSUME k # "put" PROVE DataFits(Renewed(n), store[n])
          BY Zenon
        <4>1. \A d \in Clients : op[d].name = n => op[d].kind # "put"
          BY Zenon, <3>3 DEF Writers
        <4>2. CASE Cached(n)
          BY Zenon, <1>0, <1>1, <2>0, <2>2, <4>1, <4>2, OldTypes DEF Right, Old, DataFits
        <4>3. CASE ~Cached(n)
          <5>1. Renewed(n).flags = {}
            BY Zenon, <1>0, <1>1, <4>3, OldTypes DEF Old, NewEntry
          <5> QED
            BY Zenon, <5>1 DEF DataFits
        <4> QED
          BY Zenon, <4>2, <4>3
      <3>6. k \in {"get", "stat"} => AttrsFit(Renewed(n), store[n])
        <4> SUFFICES ASSUME k \in {"get", "stat"} PROVE AttrsFit(Renewed(n), store[n])
          BY Zenon
        <4>1. \A d \in Clients : op[d].name = n => op[d].kind \notin Writers
          BY Zenon, <3>3 DEF Writers
        <4>2. CASE Cached(n)
          BY Zenon, <1>0, <1>1, <2>0, <2>2, <4>1, <4>2, OldTypes DEF Right, Old, AttrsFit
        <4>3. CASE ~Cached(n)
          <5>1. Renewed(n).flags = {}
            BY Zenon, <1>0, <1>1, <4>3, OldTypes DEF Old, NewEntry
          <5> QED
            BY Zenon, <5>1 DEF AttrsFit
        <4> QED
          BY Zenon, <4>2, <4>3
      <3>7. Renewed(n) \in Entries
        BY Zenon, <1>0, <1>1, OldTypes
      <3>8. DataFits(cacheMap'[n], store[n]) /\ AttrsFit(cacheMap'[n], store[n])
        BY Zenon, <1>1, <3>1, <3>2, <3>5, <3>6, <3>7, MergeFits
      <3>9. \A d \in Clients : op'[d].name = x => op'[d].kind \notin Writers
        BY Zenon, <1>1, <2>i, <2>2, <3>3 DEF Alone
      <3>10. \A d \in Clients : op'[d].name = x => op'[d].kind # "delete"
        BY Zenon, <3>9 DEF Writers
      <3> QED
        BY Zenon, <1>2, <2>2, <3>8, <3>10 DEF Right, DataFits, AttrsFit
    <2> QED
      BY Zenon, <2>1, <2>2
  <1> QED
    BY Zenon, <1>1, <1>3, <1>4, <1>6, <1>7 DEF CacheInv

LEMMA DeleteBeginStep ==
    ASSUME CacheInv, NEW c \in Clients, NEW n \in Names, DeleteBegin(c, n), setup' = setup
    PROVE  CacheInv'
  <1>0. CacheTypes /\ ListInv /\ NoConflict /\ InfoRight
    BY Zenon DEF CacheInv
  <1>1. /\ CacheTypes' /\ ListInv' /\ Alone(c)
        /\ pc'[c] = "erase" /\ op'[c].kind = "delete" /\ op'[c].name = n
    BY Zenon, <1>0, DeleteBeginTypes DEF Alone
  <1>2. /\ UNCHANGED <<store, enabled, info>> /\ Call(c, "delete", n) /\ RemoveEntry(n) /\ pc[c] = "idle"
    BY Zenon DEF DeleteBegin, Call
  <1>3. NoConflict' /\ raced \subseteq raced'
    BY Zenon, <1>0, <1>1, <1>2, CallConflict
  <1>4. InfoRight'
    BY Zenon, <1>0, <1>1, <1>2, <1>3, InfoKept
  <1>5. /\ \A x \in Names : cacheMap'[x] = cacheMap[x] \/ cacheMap'[x] = NoEntry
        /\ enabled => cacheMap'[n] = NoEntry
    BY Zenon, <1>0, <1>2, RemoveFacts
  <1>6. OffIsEmpty'
    BY Zenon, <1>2, <1>5 DEF CacheInv, OffIsEmpty, Cached
  <1>7. ASSUME NEW x \in Names PROVE Right(x)'
    <2>0. Right(x)
      BY Zenon DEF CacheInv
    <2>1. CASE x # n
      <3>1. \A d \in Clients : op[d].name = x /\ op[d].kind \in Writers => op'[d] = op[d]
        BY Zenon, <1>0, <1>1, <1>2, IdleIsOff DEF Alone
      <3>2. \A d \in Clients : op'[d].name = x /\ op'[d].kind = "delete" => op'[d] = op[d]
        BY Zenon, <1>1, <2>1 DEF Alone
      <3>3. Cached(x)' => Cached(x) /\ cacheMap'[x] = cacheMap[x]
        BY Zenon, <1>5 DEF Cached
      <3> QED
        BY Zenon, <1>2, <1>3, <2>0, <3>1, <3>2, <3>3, Kept
    <2>2. CASE x = n
      <3>1. ~Cached(n)'
        BY Zenon, <1>2, <1>5, <1>6 DEF OffIsEmpty, Cached
      <3> QED
        BY Zenon, <2>2, <3>1 DEF Right
    <2> QED
      BY Zenon, <2>1, <2>2
  <1> QED
    BY Zenon, <1>1, <1>3, <1>4, <1>6, <1>7 DEF CacheInv

LEMMA EraseStep ==
    ASSUME CacheInv, NEW c \in Clients, Erase(c), setup' = setup
    PROVE  CacheInv'
  <1> DEFINE n == op[c].name
  <1>0. CacheTypes /\ ListInv /\ NoConflict /\ InfoRight
    BY Zenon DEF CacheInv
  <1>1. /\ CacheTypes' /\ ListInv' /\ Alone(c) /\ pc'[c] = "idle" /\ op'[c] = NoOp
        /\ op[c].kind = "delete" /\ n \in Names
        /\ \A x \in Names : x # n => store'[x] = store[x]
    BY Zenon, <1>0, EraseTypes DEF Alone
  <1>2. UNCHANGED <<cacheMap, enabled, info, raced>>
    BY Zenon DEF Erase
  <1>3. NoConflict'
    BY Zenon, <1>0, <1>1, <1>2, ConflictKept
  <1>4. InfoRight'
    <2>1. ASSUME NEW d \in Clients, d # c, pc[d] = "insert", op[d].name \notin raced'
          PROVE  store'[op[d].name] = store[op[d].name]
      <3>1. op[d].name \in Names
        BY Zenon, <1>0, <2>1 DEF CacheTypes, OpPhase, Ops
      <3>2. op[d].name # n
        BY Zenon, <1>0, <1>1, <1>2, <2>1, <3>1 DEF NoConflict, Writers
      <3> QED
        BY Zenon, <1>1, <3>1, <3>2
    <2> QED
      BY Zenon, <1>0, <1>1, <1>2, <2>1, InfoKept
  <1>6. OffIsEmpty'
    BY Zenon, <1>2 DEF CacheInv, OffIsEmpty, Cached
  <1>7. ASSUME NEW x \in Names PROVE Right(x)'
    <2>0. Right(x)
      BY Zenon DEF CacheInv
    <2>i. NoOp.name \notin Names /\ NoOp.kind \notin Writers
      BY Zenon, <1>0, IdleIsOff
    <2>1. CASE x # n
      <3>1. \A d \in Clients : op[d].name = x /\ op[d].kind \in Writers => op'[d] = op[d]
        BY Zenon, <1>1, <2>1 DEF Alone
      <3>2. \A d \in Clients : op'[d].name = x /\ op'[d].kind = "delete" => op'[d] = op[d]
        BY Zenon, <1>1, <2>i DEF Alone
      <3>3. Cached(x)' => Cached(x) /\ cacheMap'[x] = cacheMap[x]
        BY Zenon, <1>2 DEF Cached
      <3> QED
        BY Zenon, <1>1, <1>2, <2>0, <2>1, <3>1, <3>2, <3>3, Kept
    <2>2. CASE x = n
      BY Zenon, <1>1, <1>2, <2>0, <2>2 DEF Right, Cached
    <2> QED
      BY Zenon, <2>1, <2>2
  <1> QED
    BY Zenon, <1>1, <1>3, <1>4, <1>6, <1>7 DEF CacheInv

LEMMA ChainStep ==
    ASSUME CacheInv, NEW c \in Clients, Chain(c), setup' = setup
    PROVE  CacheInv'
  <1>0. CacheTypes /\ ListInv
    BY Zenon DEF CacheInv
  <1>1. /\ CacheTypes' /\ ListInv'
        /\ \A x \in Names : Cached(x)' <=> Cached(x)
        /\ \A x \in Names : Cached(x) =>
                 /\ cacheMap'[x].flags = cacheMap[x].flags /\ cacheMap'[x].data = cacheMap[x].data
                 /\ cacheMap'[x].attrs = cacheMap[x].attrs /\ cacheMap'[x].meta = cacheMap[x].meta
    BY Zenon, <1>0, ChainTypes
  <1>2. UNCHANGED <<store, enabled, pc, op, info, raced>>
    BY Zenon DEF Chain
  <1>3. NoConflict' /\ InfoRight'
    BY Zenon, <1>2 DEF CacheInv, NoConflict, InfoRight, InfoFits
  <1>4. OffIsEmpty'
    BY Zenon, <1>1, <1>2 DEF CacheInv, OffIsEmpty
  <1>5. ASSUME NEW x \in Names PROVE Right(x)'
    <2>1. Right(x)
      BY Zenon DEF CacheInv
    <2> QED
      BY Zenon, <1>1, <1>2, <2>1, Kept
  <1> QED
    BY Zenon, <1>1, <1>3, <1>4, <1>5 DEF CacheInv

LEMMA SetEnabledStep ==
    ASSUME CacheInv, NEW on \in BOOLEAN, SetEnabled(on), setup' = setup
    PROVE  CacheInv'
  <1>0. CacheTypes /\ ListInv
    BY Zenon DEF CacheInv
  <1>1. CacheTypes' /\ ListInv' /\ OffIsEmpty'
    BY Zenon, <1>0, SetEnabledTypes DEF OffIsEmpty
  <1>2. UNCHANGED <<store, pc, op, info, raced>>
    BY Zenon DEF SetEnabled
  <1>3. NoConflict' /\ InfoRight'
    BY Zenon, <1>2 DEF CacheInv, NoConflict, InfoRight, InfoFits
  <1>4. \A x \in Names : cacheMap'[x] = cacheMap[x] \/ cacheMap'[x] = NoEntry
    BY Zenon DEF SetEnabled
  <1>5. ASSUME NEW x \in Names PROVE Right(x)'
    <2>1. Right(x)
      BY Zenon DEF CacheInv
    <2>2. Cached(x)' => Cached(x) /\ cacheMap'[x] = cacheMap[x]
      BY Zenon, <1>4 DEF Cached
    <2> QED
      BY Zenon, <1>2, <2>1, <2>2, Kept
  <1> QED
    BY Zenon, <1>1, <1>3, <1>5 DEF CacheInv

LEMMA CacheInit == Init => CacheInv
  <1> SUFFICES ASSUME Init PROVE CacheInv
    OBVIOUS
  <1>1. CacheTypes /\ ListInv
    BY Zenon, ListInit
  <1>2. \A c \in Clients : op[c] = NoOp /\ pc[c] = "idle"
    BY Zenon DEF Init
  <1>3. NoConflict /\ InfoRight
    BY Zenon, <1>1, <1>2, IdleIsOff DEF NoConflict, InfoRight
  <1>4. OffIsEmpty /\ \A n \in Names : ~Cached(n)
    BY Zenon DEF Init, OffIsEmpty, Cached
  <1> QED
    BY Zenon, <1>1, <1>3, <1>4 DEF CacheInv, Right

LEMMA CacheStep == CacheInv /\ [Next]_vars => CacheInv'
  <1> SUFFICES ASSUME CacheInv, [Next]_vars PROVE CacheInv'
    BY Zenon
  <1>1. CASE UNCHANGED vars
    <2>1. ListInv'
      BY Zenon, <1>1, ListFrame DEF CacheInv, vars
    <2>2. CacheTypes'
      BY Zenon, <1>1 DEF CacheInv, CacheTypes, OpPhase, vars
    <2>3. NoConflict' /\ InfoRight' /\ OffIsEmpty'
      BY Zenon, <1>1 DEF CacheInv, NoConflict, InfoRight, InfoFits, OffIsEmpty, Cached, vars
    <2>4. ASSUME NEW n \in Names PROVE Right(n)'
      BY Zenon, <1>1, Kept DEF CacheInv, Cached, vars
    <2> QED
      BY Zenon, <2>1, <2>2, <2>3, <2>4 DEF CacheInv
  <1>2. CASE Next
    <2>0. setup' = setup
      BY Zenon, <1>2 DEF Next
    <2>1. ASSUME NEW c \in Readers, Reader(c) PROVE CacheInv'
      <3>0. c \in Clients
        BY Zenon DEF Clients
      <3> QED
        BY Zenon, <2>0, <2>1, <3>0, LookupStep, PromoteStep, FetchStep, FetchFailsStep, InsertStep, ChainStep
           DEF Reader
    <2>2. ASSUME NEW c \in Updaters, Updater(c) PROVE CacheInv'
      <3>0. c \in Clients
        BY Zenon DEF Clients
      <3> QED
        BY Zenon, <2>0, <2>2, <3>0, StoreWriteStep, DeleteBeginStep, InsertStep, EraseStep DEF Updater
    <2>3. ASSUME NEW on \in BOOLEAN, SetEnabled(on) PROVE CacheInv'
      BY Zenon, <2>0, <2>3, SetEnabledStep
    <2> QED
      BY Zenon, <1>2, <2>1, <2>2, <2>3 DEF Next
  <1> QED
    BY Zenon, <1>1, <1>2

\* ObjectCache::touch_lru(), remove_lru(): the LRU list names the entries of the map, each
\* once, and exceeds rgw_cache_lru_size by one at most; a chained entry stays registered
\* with the cached object it was derived from until this is evicted.
THEOREM LruStaysExact == Spec => []LruExact
  <1>1. CacheInv => LruExact
    BY Zenon DEF CacheInv, ListInv, LruExact
  <1> QED
    BY CacheInit, CacheStep, <1>1, PTL DEF Spec

\* RGWCache: whatever is read, written in whole or in part, deleted, evicted or chained, and
\* whichever of it fails, an object on which no write overlapped another call is cached as
\* the storage holds it.
THEOREM CacheStaysCoherent == Spec => []CacheCoherent
  <1> QED
    BY CacheInit, CacheStep, InvCoherent, PTL DEF Spec

=============================================================================
