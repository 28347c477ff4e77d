-------------------------- MODULE Listings_proofs ---------------------------
(***************************************************************************)
(* A page of a listing is the beginning of what is there, for any names,   *)
(* page sizes and buffers.                                                 *)
(***************************************************************************)
EXTENDS Listings, FiniteSetTheorems, WellFoundedInduction, TLAPS

-----------------------------------------------------------------------------
(* Listings: sets of names and their order.                                *)

\* A set of naturals has a least element.
LEMMA Least ==
    ASSUME NEW T \in SUBSET Nat, T # {}
    PROVE  \E n \in T : \A m \in T : n <= m
  <1> DEFINE R == {ss \in Nat \X Nat : ss[1] < ss[2]}
  <1>1. IsWellFoundedOn(R, Nat)
    BY Zenon, NatLessThanWellFounded DEF OpToRel
  <1>2. PICK n \in T : \A m \in T : <<m, n>> \notin R
    BY Zenon, <1>1, WFMin
  <1>3. ASSUME NEW m \in T PROVE n <= m
    <2>1. <<m, n>> \notin R
      BY Zenon, <1>2
    <2>2. m \in Nat /\ n \in Nat
      BY Zenon
    <2>3. ~(m < n)
      BY Zenon, <2>1, <2>2
    <2> QED
      BY <2>2, <2>3
  <1> QED
    BY Zenon, <1>3

LEMMA ListCounted == \A S : List!Cardinality(S) = Cardinality(S)
  BY Zenon DEF List!Cardinality, Cardinality

LEMMA ListFacts == /\ MaxName \in Nat /\ Fit \in Nat /\ DirChanges \in Nat
                   /\ Kinds \subseteq [1 .. MaxName -> {"plain", "hidden", "folder"}]
                   /\ MaxKeys \subseteq Int /\ Chunks \subseteq Int
  BY Zenon, ListingAssumption DEF List!ListingAssumption

\* The names and the group.
Entries == 0 .. MaxName

Before(S, n) == {m \in S : m < n}

LEMMA RankIs == \A S, n : List!Rank(S, n) = Cardinality(Before(S, n))
  BY Zenon, ListCounted DEF List!Rank, Before

LEMMA FirstIs == \A S, k : List!First(S, k) = {n \in S : Cardinality(Before(S, n)) < k}
  BY Zenon, RankIs DEF List!First

LEMMA EntriesFinite ==
    ASSUME NEW S \in SUBSET Entries
    PROVE  IsFiniteSet(S) /\ Cardinality(S) \in Nat
  <1>1. IsFiniteSet(Entries)
    BY ListFacts, FS_Interval DEF Entries
  <1> QED
    BY Zenon, <1>1, FS_Subset, FS_CardinalityType

LEMMA SmallerSize ==
    ASSUME NEW S \in SUBSET Entries, NEW T \in SUBSET S
    PROVE  Cardinality(T) <= Cardinality(S) /\ (Cardinality(T) = Cardinality(S) => T = S)
  BY Zenon, EntriesFinite, FS_Subset

LEMMA BeforeSize ==
    ASSUME NEW S \in SUBSET Entries, NEW n \in S
    PROVE  Cardinality(Before(S, n)) \in Nat /\ Cardinality(Before(S, n)) < Cardinality(S)
  <1>1. Before(S, n) \in SUBSET S /\ n \notin Before(S, n) /\ n \in Int
    BY ListFacts DEF Before, Entries
  <1>2. Before(S, n) # S
    BY Zenon, <1>1
  <1>3. /\ Cardinality(Before(S, n)) \in Nat /\ Cardinality(S) \in Nat
        /\ Cardinality(Before(S, n)) <= Cardinality(S)
        /\ Cardinality(Before(S, n)) # Cardinality(S)
    BY Zenon, <1>1, <1>2, EntriesFinite, SmallerSize
  <1> QED
    BY SMT, Z3, <1>3

\* A set that is small enough is its own beginning.
LEMMA FirstAll ==
    ASSUME NEW S \in SUBSET Entries, NEW k \in Int, Cardinality(S) <= k
    PROVE  List!First(S, k) = S
  <1>1. ASSUME NEW n \in S PROVE Cardinality(Before(S, n)) < k
    BY SMT, Z3, BeforeSize, EntriesFinite
  <1> QED
    BY Zenon, <1>1, FirstIs

LEMMA FirstSome == \A S, k : List!First(S, k) \subseteq S
  BY Zenon, FirstIs

LEMMA FirstNone ==
    ASSUME NEW S \in SUBSET Entries, NEW k \in Int, k <= 0
    PROVE  List!First(S, k) = {}
  <1>1. ASSUME NEW n \in S PROVE ~(Cardinality(Before(S, n)) < k)
    BY BeforeSize
  <1> QED
    BY Zenon, <1>1, FirstIs

LEMMA Greatest ==
    ASSUME NEW S \in SUBSET Entries, S # {}
    PROVE  \E x \in S : \A n \in S : n <= x
  <1> DEFINE T == {k \in Nat : MaxName - k \in S}
  <1>1. T # {}
    <2>1. PICK n \in S : TRUE
      BY Zenon
    <2>2. MaxName - n \in T
      BY ListFacts DEF Entries
    <2> QED
      BY Zenon, <2>2
  <1>2. PICK k \in T : \A m \in T : k <= m
    BY Zenon, <1>1, Least
  <1>3. ASSUME NEW n \in S PROVE n <= MaxName - k
    <2>1. MaxName - n \in T
      BY ListFacts DEF Entries
    <2>2. k <= MaxName - n
      BY Zenon, <1>2, <2>1
    <2>3. n \in Int /\ k \in Int /\ MaxName \in Int
      BY ListFacts DEF Entries
    <2> QED
      BY <2>2, <2>3
  <1> QED
    BY Zenon, <1>2, <1>3

\* The first k members are k, or all.
LEMMA FirstSize ==
    ASSUME NEW S \in SUBSET Entries, NEW k \in Nat, k <= Cardinality(S)
    PROVE  Cardinality(List!First(S, k)) = k
  <1> DEFINE Bad == {n \in Nat : \E T \in SUBSET Entries :
                        /\ Cardinality(T) = n /\ k <= n
                        /\ Cardinality(List!First(T, k)) # k}
  <1> SUFFICES ASSUME Bad # {} PROVE FALSE
    BY Zenon, EntriesFinite
  <1>1. PICK n \in Bad : \A m \in Bad : n <= m
    BY Zenon, Least
  <1>2. PICK T \in SUBSET Entries :
            Cardinality(T) = n /\ k <= n /\ Cardinality(List!First(T, k)) # k
    BY Zenon
  <1>3. k # n
    <2> SUFFICES ASSUME k = n PROVE FALSE
      BY Zenon
    <2>1. List!First(T, k) = T
      BY SMT, Z3, <1>2, FirstAll
    <2> QED
      BY Zenon, <1>2, <2>1
  <1>4. IsFiniteSet(T) /\ n \in Nat /\ k < n
    BY SMT, Z3, <1>2, <1>3, EntriesFinite
  <1>5. T # {}
    BY SMT, Z3, <1>2, <1>4, FS_EmptySet
  <1>6. PICK x \in T : \A m \in T : m <= x
    BY Zenon, <1>5, Greatest
  <1> DEFINE U == T \ {x}
  <1>7. Cardinality(U) = n - 1 /\ U \in SUBSET Entries
    BY Zenon, <1>2, <1>4, FS_RemoveElement
  <1>8. \A m \in U : Before(T, m) = Before(U, m)
    <2>1. \A m \in U : ~(x < m)
      BY SMT, Z3, <1>6 DEF Entries
    <2> QED
      BY Zenon, <2>1 DEF Before
  <1>9. Before(T, x) = U
    <2>1. \A m \in U : m < x
      BY SMT, Z3, <1>6 DEF Entries
    <2>2. ~(x < x)
      BY SMT, Z3 DEF Entries
    <2> QED
      BY Zenon, <2>1, <2>2 DEF Before
  <1>10. ~(Cardinality(Before(T, x)) < k)
    BY SMT, Z3, <1>4, <1>7, <1>9
  <1>11. List!First(T, k) = List!First(U, k)
    BY Zenon, <1>8, <1>10, FirstIs
  <1>12. n - 1 \in Bad
    BY SMT, Z3, <1>2, <1>4, <1>7, <1>11
  <1> QED
    BY SMT, Z3, <1>1, <1>4, <1>12

LEMMA FirstBound ==
    ASSUME NEW S \in SUBSET Entries, NEW k \in Nat
    PROVE  Cardinality(List!First(S, k)) <= k
  <1>1. CASE k <= Cardinality(S)
    BY <1>1, FirstSize
  <1>2. CASE ~(k <= Cardinality(S))
    <2>1. Cardinality(S) \in Nat
      BY Zenon, EntriesFinite
    <2>2. List!First(S, k) = S
      BY <1>2, <2>1, FirstAll
    <2> QED
      BY <1>2, <2>1, <2>2
  <1> QED
    BY Zenon, <1>1, <1>2

LEMMA FirstOfFirst ==
    ASSUME NEW S \in SUBSET Entries, NEW k \in Int, NEW l \in Int, k <= l
    PROVE  List!First(List!First(S, l), k) = List!First(S, k)
  <1> DEFINE F == List!First(S, l)
  <1>1. ASSUME NEW n \in F PROVE Before(F, n) = Before(S, n)
    <2>0. n \in S /\ Cardinality(Before(S, n)) < l
      BY Zenon, FirstIs
    <2>1. n \in S /\ Cardinality(Before(S, n)) < l /\ n \in Int
      BY SMT, Z3, <2>0 DEF Entries
    <2>2. ASSUME NEW m \in S, m < n PROVE m \in F
      <3>0. \A a \in S : a < m => a < n
        BY <2>1, <2>2 DEF Entries
      <3>1. Before(S, m) \in SUBSET Before(S, n)
        BY Zenon, <3>0 DEF Before
      <3>2. Before(S, n) \in SUBSET Entries
        BY Zenon DEF Before
      <3>3. Cardinality(Before(S, m)) <= Cardinality(Before(S, n))
        BY Zenon, <3>1, <3>2, SmallerSize
      <3>4. Cardinality(Before(S, m)) \in Nat /\ Cardinality(Before(S, n)) \in Nat
        BY Zenon, <2>1, BeforeSize
      <3>5. Cardinality(Before(S, m)) < l
        BY SMT, Z3, <2>1, <3>3, <3>4
      <3> QED
        BY Zenon, <3>5, FirstIs
    <2>3. F \subseteq S
      BY Zenon, FirstSome
    <2> QED
      BY Zenon, <2>2, <2>3 DEF Before
  <1>2. ASSUME NEW n \in S, Cardinality(Before(S, n)) < k PROVE n \in F
    <2>1. Cardinality(Before(S, n)) \in Nat
      BY Zenon, BeforeSize
    <2>2. Cardinality(Before(S, n)) < l
      BY <1>2, <2>1
    <2> QED
      BY Zenon, <2>2, FirstIs
  <1>3. List!First(F, k) = {n \in F : Cardinality(Before(F, n)) < k}
    BY Zenon, FirstIs
  <1>4. List!First(S, k) = {n \in S : Cardinality(Before(S, n)) < k}
    BY Zenon, FirstIs
  <1>5. F \subseteq S
    BY Zenon, FirstSome
  <1> HIDE DEF F
  <1>6. List!First(F, k) = List!First(S, k)
    <2>1. \A n \in List!First(F, k) : n \in List!First(S, k)
      BY Zenon, <1>1, <1>3, <1>4, <1>5
    <2>2. \A n \in List!First(S, k) : n \in List!First(F, k)
      BY Zenon, <1>1, <1>2, <1>3, <1>4
    <2> QED
      BY Zenon, <2>1, <2>2
  <1> QED
    BY Zenon, <1>6 DEF F

\* A set of names is sent in order, each once.
LEMMA InOrderIs ==
    ASSUME NEW S \in SUBSET Entries
    PROVE  /\ \A T : S \subseteq T => List!InOrder(S) \in Seq(T)
           /\ Len(List!InOrder(S)) = Cardinality(S)
           /\ \A i, j \in 1 .. Len(List!InOrder(S)) :
                  List!InOrder(S)[i] = List!InOrder(S)[j] => i = j
  <1>0. Cardinality(S) \in Nat
    BY Zenon, EntriesFinite
  <1>1. List!InOrder(S) = [i \in 1 .. Cardinality(S) |->
                              CHOOSE n \in S : List!Rank(S, n) = i - 1]
    BY Zenon, ListCounted DEF List!InOrder
  <1>2. ASSUME NEW i \in 1 .. Cardinality(S)
        PROVE  \E n \in S : List!Rank(S, n) = i - 1
    <2>1. /\ i \in Nat /\ i - 1 \in Nat /\ i <= Cardinality(S) /\ i - 1 <= Cardinality(S)
      BY <1>0
    <2>2. Cardinality(List!First(S, i)) = i /\ Cardinality(List!First(S, i - 1)) = i - 1
      BY Zenon, <2>1, FirstSize
    <2>3. PICK n \in List!First(S, i) : n \notin List!First(S, i - 1)
      <3> SUFFICES ASSUME List!First(S, i) \subseteq List!First(S, i - 1) PROVE FALSE
        BY Zenon
      <3>1. List!First(S, i - 1) \in SUBSET Entries
        BY Zenon, FirstSome
      <3>2. i <= i - 1
        BY Zenon, <2>2, <3>1, SmallerSize
      <3> QED
        BY SMT, Z3, <2>1, <3>2
    <2>4. n \in S /\ Cardinality(Before(S, n)) < i /\ ~(Cardinality(Before(S, n)) < i - 1)
      BY Zenon, <2>3, FirstIs
    <2>5. Cardinality(Before(S, n)) \in Nat
      BY Zenon, <2>4, BeforeSize
    <2>6. Cardinality(Before(S, n)) = i - 1
      BY SMT, Z3, <2>1, <2>4, <2>5
    <2> QED
      BY Zenon, <2>4, <2>6, RankIs
  <1> DEFINE q == List!InOrder(S)
  <1>3. \A i \in 1 .. Cardinality(S) : q[i] \in S /\ List!Rank(S, q[i]) = i - 1
    BY Zenon, <1>1, <1>2
  <1>4. q \in [1 .. Cardinality(S) -> S]
    BY Zenon, <1>1, <1>3
  <1> HIDE DEF q
  <1>5. Len(q) = Cardinality(S) /\ \A T : S \subseteq T => q \in Seq(T)
    <2>1. ASSUME NEW T, S \subseteq T PROVE q \in Seq(T)
      <3>1. q \in [1 .. Cardinality(S) -> T]
        BY Zenon, <1>4, <2>1
      <3> QED
        BY <1>0, <3>1
    <2> QED
      BY SMT, Z3, <1>0, <1>4, <2>1
  <1>6. \A i, j \in 1 .. Len(q) : q[i] = q[j] => i = j
    <2> SUFFICES ASSUME NEW i \in 1 .. Len(q), NEW j \in 1 .. Len(q), q[i] = q[j] PROVE i = j
      BY Zenon
    <2>1. i - 1 = j - 1
      BY Zenon, <1>3, <1>5
    <2> QED
      BY SMT, Z3, <2>1, <1>0, <1>5
  <1> QED
    BY Zenon, <1>5, <1>6 DEF q

-----------------------------------------------------------------------------
(* Listings: what a chunk adds to the page.                                *)

ListTypes ==
    /\ kind \in [1 .. MaxName -> {"plain", "hidden", "folder"}]
    /\ dir \subseteq 1 .. MaxName /\ asked \subseteq 1 .. MaxName
    /\ listPc \in {"idle", "objects", "buckets", "done"}
    /\ listed \in Seq(1 .. MaxName) /\ prefixes \subseteq Entries
    /\ truncated \in BOOLEAN /\ dirChanges \in Nat
    /\ listPc = "idle" => req = List!NoRequest
    /\ listPc \in {"objects", "buckets"} => req.op = listPc
    /\ req.op = "objects" => req.max \in Int /\ req.delim \in BOOLEAN /\ req.grouped \in BOOLEAN
    /\ req.op = "buckets" => req.chunk \in Int

LEMMA NamesAreEntries == 1 .. MaxName \subseteq Entries /\ List!Group \in Entries
  BY ListFacts DEF Entries, List!Group

LEMMA CountIs ==
    ASSUME ListTypes
    PROVE  /\ List!Count = Len(listed) + Cardinality(prefixes)
           /\ Len(listed) \in Nat /\ Cardinality(prefixes) \in Nat /\ List!Count \in Nat
           /\ IsFiniteSet(prefixes)
  <1>1. List!Count = Len(listed) + Cardinality(prefixes)
    BY Zenon, ListCounted DEF List!Count
  <1>2. Cardinality(prefixes) \in Nat /\ IsFiniteSet(prefixes)
    BY Zenon, EntriesFinite DEF ListTypes
  <1>3. Len(listed) \in Nat
    BY SMT, Z3 DEF ListTypes
  <1> QED
    BY SMT, Z3, <1>1, <1>2, <1>3

\* The chunk with the sets it is about by name.
ChunkOf(batch, fresh, taken) ==
    /\ batch = List!First(List!First(dir, Fit), req.max + 1 - List!Count)
    /\ fresh = {n \in batch : List!Fresh(batch, n)}
    /\ taken = List!First(fresh, req.max - List!Count)
    /\ listed' = listed \o List!InOrder({n \in taken : ~List!HasDelim(n)})
    /\ prefixes' = prefixes \cup {List!PrefixKey(n) : n \in {m \in taken : List!HasDelim(m)}}
    /\ truncated' = (Cardinality(fresh) > req.max - List!Count \/ batch # List!First(dir, Fit))
    /\ listPc' = IF Cardinality(fresh) > req.max - List!Count THEN "done" ELSE listPc

LEMMA ChunkIs ==
    ASSUME List!Chunk
    PROVE  /\ listPc = "objects" /\ truncated /\ List!Count <= req.max
           /\ UNCHANGED <<kind, dir, req, dirChanges, asked>>
           /\ \E batch, fresh, taken : ChunkOf(batch, fresh, taken)
  <1>1. /\ listPc = "objects" /\ truncated /\ List!Count <= req.max
        /\ UNCHANGED <<kind, dir, req, dirChanges, asked>>
    BY Zenon DEF List!Chunk
  <1> DEFINE batch == List!First(List!First(dir, Fit), req.max + 1 - List!Count)
             fresh == {n \in batch : List!Fresh(batch, n)}
             taken == List!First(fresh, req.max - List!Count)
  <1>2. /\ listed' = listed \o List!InOrder({n \in taken : ~List!HasDelim(n)})
        /\ prefixes' = prefixes \cup {List!PrefixKey(n) : n \in {m \in taken : List!HasDelim(m)}}
        /\ truncated' = (List!Cardinality(fresh) > req.max - List!Count \/ batch # List!First(dir, Fit))
        /\ listPc' = IF List!Cardinality(fresh) > req.max - List!Count THEN "done" ELSE listPc
    BY Zenon DEF List!Chunk, List!IssueBucketListOp, List!ShellExecute, List!NumEntries, List!Room
  <1>3. List!Cardinality(fresh) = Cardinality(fresh)
    BY Zenon, ListCounted
  <1>4. ChunkOf(batch, fresh, taken)
    BY Zenon, <1>2, <1>3 DEF ChunkOf
  <1> HIDE DEF batch, fresh, taken
  <1> QED
    BY Zenon, <1>1, <1>4

LEMMA ChunkTypes ==
    ASSUME ListTypes, req.op = "objects", List!Count <= req.max,
           NEW batch, NEW fresh, NEW taken, ChunkOf(batch, fresh, taken)
    PROVE  /\ batch \subseteq dir /\ fresh \subseteq batch /\ taken \subseteq fresh
           /\ fresh \in SUBSET Entries /\ taken \in SUBSET Entries
           /\ req.max - List!Count \in Nat
           /\ {n \in taken : ~List!HasDelim(n)} \in SUBSET (1 .. MaxName)
           /\ {n \in taken : List!HasDelim(n)} \in SUBSET (1 .. MaxName)
           /\ Cardinality(fresh) \in Nat /\ Cardinality(taken) <= req.max - List!Count
           /\ Cardinality(taken) \in Nat
  <1>1. batch \subseteq List!First(dir, Fit) /\ List!First(dir, Fit) \subseteq dir
    BY Zenon, FirstSome DEF ChunkOf
  <1>2. fresh \subseteq batch /\ taken \subseteq fresh
    BY Zenon, FirstSome DEF ChunkOf
  <1>3. dir \subseteq 1 .. MaxName
    BY Zenon DEF ListTypes
  <1>4. /\ fresh \in SUBSET Entries /\ taken \in SUBSET Entries
        /\ taken \subseteq 1 .. MaxName /\ batch \subseteq dir
    BY Zenon, <1>1, <1>2, <1>3, NamesAreEntries
  <1>5. req.max - List!Count \in Nat
    BY SMT, Z3, CountIs DEF ListTypes
  <1>6. Cardinality(fresh) \in Nat /\ Cardinality(taken) \in Nat
    BY Zenon, <1>4, EntriesFinite
  <1>7. Cardinality(List!First(fresh, req.max - List!Count)) <= req.max - List!Count
    BY Zenon, <1>4, <1>5, FirstBound
  <1>8. Cardinality(taken) <= req.max - List!Count
    BY Zenon, <1>7 DEF ChunkOf
  <1> QED
    BY Zenon, <1>1, <1>2, <1>4, <1>5, <1>6, <1>8

LEMMA ChunkKeeps ==
    ASSUME ListTypes, req.op = "objects", List!Count <= req.max,
           NEW batch, NEW fresh, NEW taken, ChunkOf(batch, fresh, taken)
    PROVE  /\ listed' \in Seq(1 .. MaxName) /\ prefixes' \subseteq Entries
           /\ Len(listed') + Cardinality(prefixes') <= req.max
  <1> DEFINE A == {n \in taken : ~List!HasDelim(n)}
             B == {n \in taken : List!HasDelim(n)}
             K == {List!PrefixKey(n) : n \in B}
  <1>1. /\ A \in SUBSET (1 .. MaxName) /\ B \in SUBSET (1 .. MaxName)
        /\ taken \in SUBSET Entries /\ Cardinality(taken) \in Nat
        /\ Cardinality(taken) <= req.max - List!Count /\ req.max - List!Count \in Nat
    BY Zenon, ChunkTypes
  <1>2. A \in SUBSET Entries /\ B \in SUBSET Entries
    BY Zenon, <1>1, NamesAreEntries
  <1>3. A \cup B = taken /\ A \cap B = {}
    BY Zenon
  <1>4. listed' = listed \o List!InOrder(A) /\ prefixes' = prefixes \cup K
    BY Zenon DEF ChunkOf
  <1> HIDE DEF A, B
  <1>5. /\ IsFiniteSet(A) /\ IsFiniteSet(B) /\ Cardinality(A) \in Nat /\ Cardinality(B) \in Nat
    BY Zenon, <1>2, EntriesFinite
  <1>6. Cardinality(A) + Cardinality(B) = Cardinality(taken)
    <2>1. Cardinality(A \cup B) = Cardinality(A) + Cardinality(B) - Cardinality(A \cap B)
      BY Zenon, <1>5, FS_Union
    <2>2. Cardinality(A \cap B) = 0
      BY Zenon, <1>3, FS_EmptySet
    <2>3. Cardinality(taken) = Cardinality(A) + Cardinality(B) - 0
      BY Zenon, <1>3, <2>1, <2>2
    <2> QED
      BY SMT, Z3, <1>5, <2>3
  <1>7. K \in SUBSET Entries /\ Cardinality(K) <= Cardinality(B)
    <2>1. CASE req.grouped
      <3>1. \A n \in B : List!PrefixKey(n) = List!Group
        BY Zenon, <2>1 DEF List!PrefixKey
      <3>2. CASE B = {}
        <4>1. K = {}
          BY Zenon, <3>2
        <4> QED
          BY SMT, Z3, <4>1, <3>2, <1>5
      <3>3. CASE B # {}
        <4>1. K = {List!Group}
          BY Zenon, <3>1, <3>3
        <4>2. Cardinality(K) = 1
          BY Zenon, <4>1, FS_Singleton
        <4>3. Cardinality(B) # 0
          BY Zenon, <1>5, <3>3, FS_EmptySet
        <4> QED
          BY SMT, Z3, <1>5, <4>1, <4>2, <4>3, NamesAreEntries
      <3> QED
        BY Zenon, <3>2, <3>3
    <2>2. CASE ~req.grouped
      <3>1. \A n \in B : List!PrefixKey(n) = n
        BY Zenon, <2>2 DEF List!PrefixKey
      <3>2. K = B
        BY Zenon, <3>1
      <3> QED
        BY SMT, Z3, <1>2, <1>5, <3>2
    <2> QED
      BY Zenon, <2>1, <2>2
  <1> HIDE DEF K
  <1>8. IsFiniteSet(K) /\ Cardinality(K) \in Nat
    BY Zenon, <1>7, EntriesFinite
  <1>9. prefixes \in SUBSET Entries /\ prefixes' \in SUBSET Entries
    BY Zenon, <1>4, <1>7 DEF ListTypes
  <1>10. Cardinality(prefixes') <= Cardinality(prefixes) + Cardinality(K)
    <2>1. IsFiniteSet(prefixes) /\ Cardinality(prefixes) \in Nat
      BY Zenon, CountIs
    <2>2. Cardinality(prefixes \cup K)
              = Cardinality(prefixes) + Cardinality(K) - Cardinality(prefixes \cap K)
      BY Zenon, <1>8, <2>1, FS_Union
    <2>3. Cardinality(prefixes \cap K) \in Nat
      <3>1. prefixes \cap K \in SUBSET Entries
        BY Zenon, <1>9
      <3> QED
        BY Zenon, <3>1, EntriesFinite
    <2> QED
      BY SMT, Z3, <1>4, <1>8, <2>1, <2>2, <2>3
  <1>11. PICK q : q = List!InOrder(A)
    BY Zenon
  <1>12. q \in Seq(1 .. MaxName) /\ Len(q) = Cardinality(A) /\ listed' = listed \o q
    BY Zenon, <1>1, <1>2, <1>4, <1>11, InOrderIs
  <1>13. listed \in Seq(1 .. MaxName)
    BY Zenon DEF ListTypes
  <1>14. listed' \in Seq(1 .. MaxName) /\ Len(listed') = Len(listed) + Cardinality(A)
    BY SMT, Z3, <1>12, <1>13
  <1>15. Cardinality(prefixes') \in Nat
    BY Zenon, <1>9, EntriesFinite
  <1>16. Len(listed') + Cardinality(prefixes') <= req.max
    <2>1. /\ List!Count = Len(listed) + Cardinality(prefixes)
          /\ Len(listed) \in Nat /\ Cardinality(prefixes) \in Nat /\ List!Count \in Nat
      BY Zenon, CountIs
    <2>2. req.max \in Int
      BY Zenon DEF ListTypes
    <2>3. Cardinality(prefixes') <= Cardinality(prefixes) + Cardinality(B)
      BY SMT, Z3, <1>5, <1>7, <1>8, <1>10, <1>15, <2>1
    <2>4. Cardinality(A) + Cardinality(B) <= req.max - List!Count
      BY Zenon, <1>1, <1>6
    <2>5. Cardinality(A) + Cardinality(B) + List!Count <= req.max
      BY SMT, Z3, <1>5, <2>1, <2>2, <2>4
    <2>6. Len(listed') + Cardinality(prefixes')
              <= Cardinality(A) + Cardinality(B) + (Len(listed) + Cardinality(prefixes))
      BY SMT, Z3, <1>5, <1>14, <1>15, <2>1, <2>3
    <2>7. Cardinality(A) + Cardinality(B) + (Len(listed) + Cardinality(prefixes)) <= req.max
      BY Zenon, <2>1, <2>5
    <2> QED
      BY SMT, Z3, <1>5, <1>14, <1>15, <2>1, <2>2, <2>6, <2>7
  <1> QED
    BY Zenon, <1>9, <1>14, <1>16

-----------------------------------------------------------------------------
(* Listings: the page as it should be.                                     *)

PageNames == {i \in List!FirstPage : ~List!Common(i)}
PageGroups == {i \in List!FirstPage : List!Common(i)}

Applies ==
    /\ req.op = "objects" /\ dirChanges = 0 /\ Cardinality(asked) <= Fit
    /\ List!Visible = asked \/ Cardinality(asked) <= req.max + 1

Exact ==
    /\ listed = List!InOrder(PageNames) /\ prefixes = PageGroups
    /\ truncated = (Cardinality(List!Items) > req.max)

\* The one common prefix of a grouped listing is in the page, and the names that
\* belong to it keep the listing going.
Stuck ==
    /\ req.delim /\ req.grouped /\ req.max >= 1 /\ Cardinality(asked) > req.max + 1
    /\ listed = <<>> /\ prefixes = {List!Group} /\ truncated

Unstarted == listed = <<>> /\ prefixes = {} /\ truncated

OnePage ==
    Applies => /\ listPc = "done" => Exact
               /\ listPc = "objects" => Unstarted \/ (~truncated /\ Exact) \/ Stuck

Once ==
    req.op = "buckets" /\ Fit + 1 < req.chunk
    => /\ listPc = "buckets" => listed = <<>>
       /\ \A i, j \in 1 .. Len(listed) : listed[i] = listed[j] => i = j

ListInv ==
    /\ ListTypes
    /\ listPc # "idle" /\ dirChanges = 0 => dir = asked
    /\ req.op = "objects" /\ req.max >= 0 => Len(listed) + Cardinality(prefixes) <= req.max
    /\ OnePage
    /\ Once

LEMMA EmptyInOrder == List!InOrder({}) = <<>>
  <1>1. {} \in SUBSET Entries
    BY Zenon
  <1>2. Len(List!InOrder({})) = 0 /\ List!InOrder({}) \in Seq(Entries)
    BY Zenon, <1>1, InOrderIs, FS_EmptySet
  <1> QED
    BY SMT, Z3, <1>2

\* Names are visible whatever the listing has come to.
LEMMA SamePage ==
    ASSUME kind' = kind, req' = req, asked' = asked
    PROVE  /\ List!Visible' = List!Visible /\ List!Items' = List!Items
           /\ PageNames' = PageNames /\ PageGroups' = PageGroups
  <1>1. List!Visible' = List!Visible
    BY Zenon DEF List!Visible
  <1>2. List!Items' = List!Items
    BY Zenon, <1>1 DEF List!Items, List!HasDelim, List!PrefixKey
  <1>3. List!FirstPage' = List!FirstPage
    BY Zenon, <1>2 DEF List!FirstPage
  <1>4. PageNames' = PageNames
    BY Zenon, <1>3 DEF PageNames, List!Common
  <1>5. PageGroups' = PageGroups
    BY Zenon, <1>3 DEF PageGroups, List!Common
  <1> QED
    BY Zenon, <1>1, <1>2, <1>4, <1>5

LEMMA ItemsTypes ==
    ASSUME ListTypes
    PROVE  /\ List!Visible \in SUBSET (1 .. MaxName) /\ List!Visible \in SUBSET Entries
           /\ List!Items \in SUBSET Entries /\ Cardinality(List!Items) \in Nat
           /\ Cardinality(asked) \in Nat /\ asked \in SUBSET Entries
  <1>1. List!Visible \subseteq asked /\ asked \subseteq 1 .. MaxName
    BY Zenon DEF List!Visible, ListTypes
  <1>2. asked \in SUBSET Entries /\ List!Visible \in SUBSET Entries
    BY Zenon, <1>1, NamesAreEntries
  <1>3. \A n \in List!Visible : List!PrefixKey(n) \in Entries
    BY Zenon, <1>2, NamesAreEntries DEF List!PrefixKey
  <1>4. List!Items \in SUBSET Entries
    BY Zenon, <1>2, <1>3 DEF List!Items
  <1> QED
    BY Zenon, <1>1, <1>2, <1>4, EntriesFinite

\* Without a common prefix for all, an entry of the page is a visible name.
LEMMA ItemsApart ==
    ASSUME ListTypes, ~(req.delim /\ req.grouped)
    PROVE  /\ List!Items = List!Visible
           /\ \A n \in List!Visible : /\ List!Common(n) <=> List!HasDelim(n)
                                      /\ List!HasDelim(n) => List!PrefixKey(n) = n
  <1>1. \A n \in List!Visible : n # List!Group
    BY SMT, Z3, ItemsTypes DEF List!Group
  <1>2. \A n \in List!Visible : List!HasDelim(n) => List!PrefixKey(n) = n
    BY Zenon DEF List!HasDelim, List!PrefixKey
  <1>3. \A n \in List!Visible : List!Common(n) <=> List!HasDelim(n)
    BY Zenon, <1>1 DEF List!HasDelim, List!Common
  <1>4. List!Items = List!Visible
    BY Zenon, <1>2 DEF List!Items
  <1> QED
    BY Zenon, <1>2, <1>3, <1>4

\* With one, it is all there is.
LEMMA ItemsGrouped ==
    ASSUME ListTypes, req.delim, req.grouped
    PROVE  /\ List!Visible = {} => List!Items = {}
           /\ List!Visible # {} => List!Items = {List!Group}
           /\ List!Common(List!Group) /\ \A i \in List!Items : i = List!Group
           /\ \A n : List!HasDelim(n) /\ List!PrefixKey(n) = List!Group
  <1>1. \A n : List!HasDelim(n) /\ List!PrefixKey(n) = List!Group
    BY Zenon DEF List!HasDelim, List!PrefixKey, ListTypes
  <1>2. List!Common(List!Group)
    BY Zenon DEF List!Common
  <1>3. \A i \in List!Items : i = List!Group /\ List!Visible # {}
    BY Zenon, <1>1 DEF List!Items
  <1>4. \A n \in List!Visible : List!Group \in List!Items
    <2> SUFFICES ASSUME NEW n \in List!Visible PROVE List!Group \in List!Items
      BY Zenon
    <2>1. (IF List!HasDelim(n) THEN List!PrefixKey(n) ELSE n) \in List!Items
      BY Zenon DEF List!Items
    <2> QED
      BY Zenon, <1>1, <2>1
  <1> QED
    BY Zenon, <1>1, <1>2, <1>3, <1>4

-----------------------------------------------------------------------------
(* Listings: the first chunk of a listing during which nothing changes.    *)

\* It reads the directory as it was when the request came, one name more than max.
FirstChunk(batch, fresh, taken) ==
    /\ req.op = "objects" /\ req.max \in Nat /\ batch \subseteq asked
    /\ Cardinality(asked) <= req.max + 1 => batch = asked
    /\ Cardinality(asked) > req.max + 1
           => /\ List!Visible = asked /\ batch # asked /\ Cardinality(batch) = req.max + 1
              /\ batch = List!First(asked, req.max + 1)
    /\ fresh = {n \in batch : List!Fresh(batch, n)} /\ fresh \in SUBSET Entries
    /\ taken = List!First(fresh, req.max) /\ taken \subseteq fresh
    /\ prefixes = {}
    /\ listed' = List!InOrder({n \in taken : ~List!HasDelim(n)})
    /\ prefixes' = {List!PrefixKey(n) : n \in {m \in taken : List!HasDelim(m)}}
    /\ truncated' = (Cardinality(fresh) > req.max \/ batch # asked)
    /\ listPc' = IF Cardinality(fresh) > req.max THEN "done" ELSE "objects"

LEMMA FirstChunkIs ==
    ASSUME ListTypes, Applies, Unstarted, dir = asked, listPc = "objects", List!Count <= req.max,
           NEW batch, NEW fresh, NEW taken, ChunkOf(batch, fresh, taken)
    PROVE  FirstChunk(batch, fresh, taken)
  <1>1. req.op = "objects" /\ req.max \in Int
    BY Zenon DEF Applies, ListTypes
  <1>2. List!Count = 0
    <2>1. Len(listed) = 0
      BY Zenon DEF Unstarted
    <2>2. Cardinality(prefixes) = 0
      BY Zenon, FS_EmptySet DEF Unstarted
    <2>3. List!Count = Len(listed) + Cardinality(prefixes)
      BY Zenon, CountIs
    <2> QED
      BY SMT, Z3, <2>1, <2>2, <2>3
  <1>3. /\ req.max \in Nat /\ req.max - List!Count = req.max
        /\ req.max + 1 - List!Count = req.max + 1 /\ req.max + 1 \in Nat
    BY SMT, Z3, <1>1, <1>2
  <1>4. asked \in SUBSET Entries /\ Cardinality(asked) \in Nat
    BY Zenon, ItemsTypes
  <1>5. List!First(dir, Fit) = asked
    <2>1. Fit \in Int /\ Cardinality(asked) <= Fit
      BY SMT, Z3, ListFacts DEF Applies
    <2> QED
      BY Zenon, <1>4, <2>1, FirstAll
  <1>6. /\ batch = List!First(asked, req.max + 1)
        /\ fresh = {n \in batch : List!Fresh(batch, n)}
        /\ taken = List!First(fresh, req.max)
        /\ truncated' = (Cardinality(fresh) > req.max \/ batch # asked)
        /\ listPc' = IF Cardinality(fresh) > req.max THEN "done" ELSE "objects"
    BY Zenon, <1>3, <1>5 DEF ChunkOf
  <1>7. Cardinality(asked) <= req.max + 1 => batch = asked
    <2>1. req.max + 1 \in Int
      BY SMT, Z3, <1>3
    <2> QED
      BY Zenon, <1>4, <1>6, <2>1, FirstAll
  <1>8. ASSUME Cardinality(asked) > req.max + 1
        PROVE  /\ List!Visible = asked /\ Cardinality(batch) = req.max + 1 /\ batch # asked
    <2>1. /\ ~(Cardinality(asked) <= req.max + 1) /\ req.max + 1 <= Cardinality(asked)
          /\ Cardinality(asked) # req.max + 1
      BY SMT, Z3, <1>3, <1>4, <1>8
    <2>2. Cardinality(batch) = req.max + 1
      BY Zenon, <1>3, <1>4, <1>6, <2>1, FirstSize
    <2> QED
      BY Zenon, <2>1, <2>2 DEF Applies
  <1>9. /\ batch \subseteq asked /\ taken \subseteq fresh /\ fresh \in SUBSET Entries
        /\ {n \in taken : ~List!HasDelim(n)} \in SUBSET (1 .. MaxName)
    BY Zenon, <1>1, ChunkTypes
  <1>10. listed' = List!InOrder({n \in taken : ~List!HasDelim(n)})
    <2> DEFINE A == {n \in taken : ~List!HasDelim(n)}
    <2>1. A \in SUBSET (1 .. MaxName) /\ A \in SUBSET Entries
      BY Zenon, <1>9, NamesAreEntries
    <2>2. listed' = <<>> \o List!InOrder(A)
      BY Zenon DEF ChunkOf, Unstarted
    <2> HIDE DEF A
    <2>3. PICK q : q = List!InOrder(A)
      BY Zenon
    <2>4. q \in Seq(1 .. MaxName)
      BY Zenon, <2>1, <2>3, InOrderIs
    <2>5. <<>> \o q = q
      BY SMT, Z3, <2>4
    <2> QED
      BY Zenon, <2>2, <2>3, <2>5 DEF A
  <1>11. prefixes = {} /\ prefixes' = {List!PrefixKey(n) : n \in {m \in taken : List!HasDelim(m)}}
    <2> DEFINE K == {List!PrefixKey(n) : n \in {m \in taken : List!HasDelim(m)}}
    <2>1. prefixes = {} /\ prefixes' = prefixes \cup K
      BY Zenon DEF ChunkOf, Unstarted
    <2> HIDE DEF K
    <2>2. prefixes' = K
      BY Zenon, <2>1
    <2> QED
      BY Zenon, <2>1, <2>2 DEF K
  <1> QED
    BY Zenon, <1>1, <1>3, <1>6, <1>7, <1>8, <1>9, <1>10, <1>11 DEF FirstChunk

\* A listing in which every entry stands for itself ends with its first chunk.
LEMMA FirstChunkApart ==
    ASSUME ListTypes, kind' = kind, req' = req, asked' = asked, ~(req.delim /\ req.grouped),
           NEW batch, NEW fresh, NEW taken, FirstChunk(batch, fresh, taken)
    PROVE  Exact' /\ (listPc' = "done" \/ (listPc' = "objects" /\ ~truncated'))
  <1>1. /\ List!Items = List!Visible
        /\ \A n \in List!Visible : /\ List!Common(n) <=> List!HasDelim(n)
                                   /\ List!HasDelim(n) => List!PrefixKey(n) = n
    BY Zenon, ItemsApart
  <1>2. batch \subseteq asked /\ fresh \subseteq batch /\ taken \subseteq fresh
    BY Zenon DEF FirstChunk
  <1>3. fresh = {n \in batch : kind[n] # "hidden"} /\ fresh \subseteq List!Visible
    <2>1. ASSUME NEW n \in batch, kind[n] # "hidden" PROVE List!Fresh(batch, n)
      <3>1. n \in List!Visible /\ n \in Int
        BY SMT, Z3, <1>2, <2>1 DEF List!Visible, ListTypes
      <3>2. \A m \in batch : m < n /\ kind[m] # "hidden" => m \in List!Visible /\ m # n
        BY SMT, Z3, <1>2, <3>1 DEF List!Visible, ListTypes
      <3>3. prefixes = {}
        BY Zenon DEF FirstChunk
      <3>4. List!HasDelim(n) => \A m \in List!Visible : List!PrefixKey(m) = m
        BY Zenon DEF List!HasDelim, List!PrefixKey
      <3> QED
        BY Zenon, <2>1, <3>1, <3>2, <3>3, <3>4 DEF List!Fresh
    <2>2. \A n \in fresh : n \in batch /\ kind[n] # "hidden"
      BY Zenon DEF FirstChunk, List!Fresh
    <2>3. \A n \in batch : kind[n] # "hidden" => n \in fresh
      BY Zenon, <2>1 DEF FirstChunk
    <2> QED
      BY Zenon, <1>2, <2>2, <2>3 DEF List!Visible
  <1>4. List!Visible \in SUBSET Entries /\ Cardinality(asked) \in Nat /\ asked \in SUBSET Entries
    BY Zenon, ItemsTypes
  <1>5. /\ req.max \in Nat /\ taken = List!First(fresh, req.max)
        /\ truncated' = (Cardinality(fresh) > req.max \/ batch # asked)
        /\ listPc' = IF Cardinality(fresh) > req.max THEN "done" ELSE "objects"
    BY Zenon DEF FirstChunk
  <1>6. /\ taken = List!First(List!Visible, req.max)
        /\ truncated' = (Cardinality(fresh) > req.max)
        /\ truncated' = (Cardinality(List!Visible) > req.max)
    <2>1. CASE Cardinality(asked) <= req.max + 1
      <3>1. batch = asked
        BY Zenon, <2>1 DEF FirstChunk
      <3>2. fresh = List!Visible
        BY Zenon, <1>3, <3>1 DEF List!Visible
      <3>3. (Cardinality(fresh) > req.max \/ batch # asked) = (Cardinality(fresh) > req.max)
        BY SMT, Z3, <3>1
      <3> QED
        BY Zenon, <1>5, <3>2, <3>3
    <2>2. CASE ~(Cardinality(asked) <= req.max + 1)
      <3>1. Cardinality(asked) > req.max + 1 /\ Cardinality(asked) > req.max
        BY SMT, Z3, <1>4, <1>5, <2>2
      <3>2. /\ List!Visible = asked /\ Cardinality(batch) = req.max + 1
            /\ batch = List!First(asked, req.max + 1)
        BY Zenon, <3>1 DEF FirstChunk
      <3>3. fresh = batch
        BY Zenon, <1>2, <1>3, <3>2 DEF List!Visible
      <3>4. req.max \in Int /\ req.max + 1 \in Int /\ req.max <= req.max + 1 /\ req.max + 1 > req.max
        BY SMT, Z3, <1>5
      <3>5. taken = List!First(asked, req.max)
        BY Zenon, <1>4, <1>5, <3>2, <3>3, <3>4, FirstOfFirst
      <3> QED
        BY Zenon, <1>5, <3>1, <3>2, <3>3, <3>4, <3>5
    <2> QED
      BY Zenon, <2>1, <2>2
  <1>7. taken = List!FirstPage /\ taken \subseteq List!Visible
    BY Zenon, <1>1, <1>2, <1>3, <1>6 DEF List!FirstPage
  <1>8. {n \in taken : ~List!HasDelim(n)} = PageNames
    BY Zenon, <1>1, <1>7 DEF PageNames
  <1>9. {List!PrefixKey(n) : n \in {m \in taken : List!HasDelim(m)}} = PageGroups
    <2> DEFINE K == {List!PrefixKey(n) : n \in {m \in taken : List!HasDelim(m)}}
    <2>1. \A n \in taken : List!HasDelim(n) => List!PrefixKey(n) = n /\ List!Common(n)
      BY Zenon, <1>1, <1>7
    <2>2. \A n \in taken : List!Common(n) => List!HasDelim(n)
      BY Zenon, <1>1, <1>7
    <2>3. ASSUME NEW k \in K PROVE k \in taken /\ List!Common(k)
      <3>1. PICK n \in taken : List!HasDelim(n) /\ k = List!PrefixKey(n)
        BY Zenon
      <3> QED
        BY Zenon, <2>1, <3>1
    <2>4. ASSUME NEW k \in taken, List!Common(k) PROVE k \in K
      <3>1. List!HasDelim(k) /\ List!PrefixKey(k) = k
        BY Zenon, <2>1, <2>2, <2>4
      <3>2. List!PrefixKey(k) \in K
        BY Zenon, <3>1
      <3> QED
        BY Zenon, <3>1, <3>2
    <2> HIDE DEF K
    <2>5. K = {n \in taken : List!Common(n)}
      BY Zenon, <2>3, <2>4
    <2> QED
      BY Zenon, <1>7, <2>5 DEF PageGroups, K
  <1>10. Exact'
    <2>1. List!Items' = List!Items /\ PageNames' = PageNames /\ PageGroups' = PageGroups
      BY Zenon, SamePage
    <2>2. listed' = List!InOrder(PageNames) /\ prefixes' = PageGroups
      BY Zenon, <1>8, <1>9 DEF FirstChunk
    <2> QED
      BY Zenon, <1>1, <1>6, <2>1, <2>2 DEF Exact
  <1>11. truncated' => Cardinality(fresh) > req.max
    BY Zenon, <1>6
  <1> QED
    BY Zenon, <1>5, <1>10, <1>11

\* A grouped listing has its one entry in the first chunk; when that is all the
\* page holds and there are more names, it does not end.
LEMMA FirstChunkGrouped ==
    ASSUME ListTypes, kind' = kind, req' = req, asked' = asked, req.delim, req.grouped,
           NEW batch, NEW fresh, NEW taken, FirstChunk(batch, fresh, taken)
    PROVE  \/ Exact' /\ (listPc' = "done" \/ (listPc' = "objects" /\ ~truncated'))
           \/ Stuck' /\ listPc' = "objects"
  <1>0. /\ req.max \in Nat /\ batch \subseteq asked /\ fresh \subseteq batch
        /\ taken = List!First(fresh, req.max) /\ taken \subseteq fresh
        /\ fresh \in SUBSET Entries
        /\ truncated' = (Cardinality(fresh) > req.max \/ batch # asked)
        /\ listPc' = IF Cardinality(fresh) > req.max THEN "done" ELSE "objects"
    BY Zenon DEF FirstChunk
  <1>1. /\ List!Visible = {} => List!Items = {}
        /\ List!Visible # {} => List!Items = {List!Group}
        /\ List!Common(List!Group) /\ \A i \in List!Items : i = List!Group
        /\ \A n : List!HasDelim(n) /\ List!PrefixKey(n) = List!Group
    BY Zenon, ItemsGrouped
  <1>2. listed' = <<>>
    <2>1. {n \in taken : ~List!HasDelim(n)} = {}
      BY Zenon, <1>1
    <2> QED
      BY Zenon, <2>1, EmptyInOrder DEF FirstChunk
  <1>3. taken = {} => prefixes' = {}
    BY Zenon DEF FirstChunk
  <1>4. taken # {} => prefixes' = {List!Group}
    <2> DEFINE K == {List!PrefixKey(n) : n \in {m \in taken : List!HasDelim(m)}}
    <2>1. \A k \in K : k = List!Group
      BY Zenon, <1>1
    <2>2. ASSUME NEW n \in taken PROVE List!Group \in K
      <3>1. List!PrefixKey(n) \in K
        BY Zenon, <1>1
      <3> QED
        BY Zenon, <1>1, <3>1
    <2>3. prefixes' = K
      BY Zenon DEF FirstChunk
    <2> HIDE DEF K
    <2> QED
      BY Zenon, <2>1, <2>2, <2>3
  <1>5. List!Items' = List!Items /\ PageNames' = PageNames /\ PageGroups' = PageGroups
    BY Zenon, SamePage
  <1>6. PageNames = {} /\ \A i \in List!FirstPage : i = List!Group /\ List!Common(i)
    <2>1. List!FirstPage \subseteq List!Items
      BY Zenon, FirstSome DEF List!FirstPage
    <2> QED
      BY Zenon, <1>1, <2>1 DEF PageNames
  <1>7. PageGroups = List!FirstPage
    BY Zenon, <1>6 DEF PageGroups
  <1>8. List!Items \in SUBSET Entries /\ Cardinality(asked) \in Nat /\ req.max \in Int
    <2>1. req.max \in Int
      BY SMT, Z3, <1>0
    <2> QED
      BY Zenon, <2>1, ItemsTypes
  <1>9. Exact' <=> /\ prefixes' = List!FirstPage
                   /\ truncated' = (Cardinality(List!Items) > req.max)
    BY Zenon, <1>2, <1>5, <1>6, <1>7, EmptyInOrder DEF Exact
  <1>10. CASE fresh = {}
    <2>1. List!Visible = {}
      <3> SUFFICES ASSUME List!Visible # {} PROVE FALSE
        BY Zenon
      <3>1. \E n \in batch : kind[n] # "hidden"
        <4>1. CASE Cardinality(asked) <= req.max + 1
          BY Zenon, <4>1 DEF FirstChunk, List!Visible
        <4>2. CASE ~(Cardinality(asked) <= req.max + 1)
          <5>1. Cardinality(asked) > req.max + 1 /\ req.max + 1 # 0
            BY SMT, Z3, <1>0, <1>8, <4>2
          <5>2. List!Visible = asked /\ Cardinality(batch) = req.max + 1
            BY Zenon, <5>1 DEF FirstChunk
          <5>3. batch # {}
            BY Zenon, <5>1, <5>2, FS_EmptySet
          <5> QED
            BY Zenon, <1>0, <5>2, <5>3 DEF List!Visible
        <4> QED
          BY Zenon, <4>1, <4>2
      <3> DEFINE V == {n \in batch : kind[n] # "hidden"}
      <3>2. V # {} /\ V \in SUBSET Nat
        <4>1. 1 .. MaxName \subseteq Nat
          BY SMT, Z3, ListFacts
        <4> QED
          BY Zenon, <1>0, <3>1, <4>1 DEF ListTypes
      <3>3. PICK x \in V : \A m \in V : x <= m
        BY Zenon, <3>2, Least
      <3>4. \A m \in batch : m < x /\ kind[m] # "hidden" => FALSE
        BY SMT, Z3, <3>2, <3>3
      <3>5. prefixes = {}
        BY Zenon DEF FirstChunk
      <3>6. List!Fresh(batch, x)
        BY Zenon, <3>3, <3>4, <3>5 DEF List!Fresh
      <3> QED
        BY Zenon, <1>10, <3>3, <3>6 DEF FirstChunk
    <2>2. List!Items = {} /\ taken = {} /\ List!FirstPage = {}
      BY Zenon, <1>0, <1>1, <1>10, <2>1, FirstSome DEF List!FirstPage
    <2>3. batch = asked
      <3>1. CASE Cardinality(asked) <= req.max + 1
        BY Zenon, <3>1 DEF FirstChunk
      <3>2. CASE ~(Cardinality(asked) <= req.max + 1)
        <4>1. Cardinality(asked) > req.max + 1 /\ Cardinality(asked) # 0
          BY SMT, Z3, <1>0, <1>8, <3>2
        <4>2. asked = {}
          BY Zenon, <2>1, <4>1 DEF FirstChunk
        <4> QED
          BY Zenon, <4>1, <4>2, FS_EmptySet
      <3> QED
        BY Zenon, <3>1, <3>2
    <2>4. Cardinality({}) = 0 /\ ~(Cardinality({}) > req.max)
      BY SMT, Z3, <1>0, FS_EmptySet
    <2>5. ~truncated' /\ listPc' = "objects"
      BY Zenon, <1>0, <1>10, <2>3, <2>4
    <2>6. truncated' = (Cardinality(List!Items) > req.max)
      BY SMT, Z3, <1>0, <1>10, <2>2, <2>3
    <2> QED
      BY Zenon, <1>3, <1>9, <2>2, <2>5, <2>6
  <1>11. CASE fresh # {}
    <2>1. Cardinality(fresh) = 1
      <3>1. PICK x \in fresh : TRUE
        BY Zenon, <1>11
      <3>2. \A y \in fresh : kind[y] # "hidden" /\ y \in Int
        BY SMT, Z3, <1>0 DEF FirstChunk, List!Fresh, Entries
      <3>3. \A y, z \in fresh : ~(y < z)
        BY Zenon, <1>0, <1>1, <3>2 DEF FirstChunk, List!Fresh
      <3>4. \A y \in fresh : y = x
        BY SMT, Z3, <3>1, <3>2, <3>3
      <3>5. fresh = {x}
        BY Zenon, <3>1, <3>4
      <3> QED
        BY Zenon, <3>5, FS_Singleton
    <2>2. List!Visible # {}
      BY Zenon, <1>0, <1>11 DEF FirstChunk, List!Fresh, List!Visible
    <2>3. List!Items = {List!Group} /\ Cardinality(List!Items) = 1
      BY Zenon, <1>1, <2>2, FS_Singleton
    <2>4. CASE req.max = 0
      <3>1. taken = {} /\ List!FirstPage = {}
        <4>1. req.max <= 0
          BY SMT, Z3, <2>4
        <4> QED
          BY Zenon, <1>0, <1>8, <4>1, FirstNone DEF List!FirstPage
      <3>2. 1 > req.max
        BY SMT, Z3, <2>4
      <3>3. listPc' = "done" /\ truncated' /\ Cardinality(List!Items) > req.max
        BY Zenon, <1>0, <2>1, <2>3, <3>2
      <3>4. truncated' = (Cardinality(List!Items) > req.max)
        BY Zenon, <1>0, <2>1, <2>3, <3>2
      <3> QED
        BY Zenon, <1>3, <1>9, <3>1, <3>3, <3>4
    <2>5. CASE req.max # 0
      <3>1. req.max >= 1 /\ 1 <= req.max /\ ~(1 > req.max)
        BY SMT, Z3, <1>0, <2>5
      <3>2. taken = fresh /\ List!FirstPage = {List!Group}
        BY Zenon, <1>0, <1>8, <2>1, <2>3, <3>1, FirstAll DEF List!FirstPage
      <3>3. prefixes' = {List!Group} /\ listPc' = "objects"
        BY Zenon, <1>0, <1>4, <1>11, <2>1, <3>1, <3>2
      <3>4. CASE Cardinality(asked) <= req.max + 1
        <4>1. batch = asked
          BY Zenon, <3>4 DEF FirstChunk
        <4>2. ~truncated'
          BY Zenon, <1>0, <2>1, <3>1, <4>1
        <4>3. truncated' = (Cardinality(List!Items) > req.max)
          BY SMT, Z3, <1>0, <2>1, <2>3, <4>1
        <4> QED
          BY Zenon, <1>9, <3>2, <3>3, <4>2, <4>3
      <3>5. CASE ~(Cardinality(asked) <= req.max + 1)
        <4>1. Cardinality(asked) > req.max + 1
          BY SMT, Z3, <1>0, <1>8, <3>5
        <4>2. truncated'
          BY Zenon, <1>0, <4>1 DEF FirstChunk
        <4> QED
          BY Zenon, <1>2, <3>1, <3>3, <4>1, <4>2 DEF Stuck
      <3> QED
        BY Zenon, <3>4, <3>5
    <2> QED
      BY Zenon, <2>4, <2>5
  <1> QED
    BY Zenon, <1>10, <1>11

-----------------------------------------------------------------------------
(* Listings: the invariant.                                                *)

\* A grouped listing that is stuck stays so.
LEMMA StuckStays ==
    ASSUME ListTypes, kind' = kind, req' = req, asked' = asked, Applies, Stuck, dir = asked,
           listPc = "objects", List!Count <= req.max,
           NEW batch, NEW fresh, NEW taken, ChunkOf(batch, fresh, taken)
    PROVE  Stuck' /\ listPc' = "objects"
  <1>1. /\ req.op = "objects" /\ req.max \in Int /\ req.max >= 1 /\ req.delim /\ req.grouped
        /\ listed = <<>> /\ prefixes = {List!Group} /\ Cardinality(asked) > req.max + 1
    BY Zenon DEF Applies, ListTypes, Stuck
  <1>2. List!Count = 1
    <2>1. Len(listed) = 0
      BY Zenon, <1>1
    <2>2. Cardinality(prefixes) = 1
      BY Zenon, <1>1, FS_Singleton
    <2>3. List!Count = Len(listed) + Cardinality(prefixes)
      BY Zenon, CountIs
    <2> QED
      BY SMT, Z3, <2>1, <2>2, <2>3
  <1>3. \A n : List!HasDelim(n) /\ List!PrefixKey(n) = List!Group
    BY Zenon, <1>1, ItemsGrouped
  <1>4. fresh = {} /\ taken = {}
    <2>1. \A n : ~List!Fresh(batch, n)
      BY Zenon, <1>1, <1>3 DEF List!Fresh
    <2> QED
      BY Zenon, <2>1, FirstSome DEF ChunkOf
  <1>5. listed' = <<>> /\ prefixes' = {List!Group}
    <2>1. {n \in taken : ~List!HasDelim(n)} = {} /\ {n \in taken : List!HasDelim(n)} = {}
      BY Zenon, <1>4
    <2>2. {List!PrefixKey(n) : n \in {m \in taken : List!HasDelim(m)}} = {}
      BY Zenon, <1>4
    <2>3. listed' = <<>> \o <<>>
      BY Zenon, <1>1, <2>1, EmptyInOrder DEF ChunkOf
    <2>4. prefixes' = {List!Group} \cup {}
      BY Zenon, <1>1, <2>2 DEF ChunkOf
    <2> QED
      BY SMT, Z3, <2>3, <2>4
  <1>6. Cardinality(fresh) = 0 /\ ~(Cardinality(fresh) > req.max - List!Count)
    <2>1. Cardinality(fresh) = 0
      BY Zenon, <1>4, FS_EmptySet
    <2> QED
      BY SMT, Z3, <1>1, <1>2, <2>1
  <1>7. batch # List!First(dir, Fit)
    <2>1. asked \in SUBSET Entries /\ Cardinality(asked) \in Nat /\ Fit \in Int
      BY SMT, Z3, ItemsTypes, ListFacts
    <2>2. List!First(dir, Fit) = asked
      BY Zenon, <2>1, FirstAll DEF Applies
    <2>3. req.max + 1 - List!Count \in Nat /\ req.max + 1 - List!Count <= Cardinality(asked)
      BY SMT, Z3, <1>1, <1>2, <2>1
    <2>4. Cardinality(batch) = req.max + 1 - List!Count
      BY Zenon, <2>1, <2>2, <2>3, FirstSize DEF ChunkOf
    <2>5. Cardinality(asked) # req.max + 1 - List!Count
      BY SMT, Z3, <1>1, <1>2, <2>1
    <2> QED
      BY Zenon, <2>2, <2>4, <2>5
  <1> QED
    BY Zenon, <1>1, <1>5, <1>6, <1>7 DEF ChunkOf, Stuck

LEMMA ChunkListInv == ASSUME ListInv, List!Chunk PROVE ListInv'
  <1>1. /\ ListTypes /\ OnePage /\ (dirChanges = 0 => dir = asked) /\ req.op = "objects"
        /\ listPc = "objects" /\ truncated /\ List!Count <= req.max
        /\ kind' = kind /\ dir' = dir /\ req' = req /\ dirChanges' = dirChanges /\ asked' = asked
    BY Zenon, ChunkIs DEF ListInv, ListTypes
  <1>2. PICK batch, fresh, taken : ChunkOf(batch, fresh, taken)
    BY Zenon, ChunkIs
  <1>3. /\ listed' \in Seq(1 .. MaxName) /\ prefixes' \subseteq Entries
        /\ Len(listed') + Cardinality(prefixes') <= req.max
    BY Zenon, <1>1, <1>2, ChunkKeeps
  <1>4. listPc' \in {"objects", "done"} /\ truncated' \in BOOLEAN
    BY Zenon, <1>1, <1>2 DEF ChunkOf
  <1>5. ListTypes'
    BY Zenon, <1>1, <1>3, <1>4 DEF ListTypes
  <1>6. OnePage'
    <2> SUFFICES ASSUME Applies'
                 PROVE  \/ Exact' /\ (listPc' = "done" \/ (listPc' = "objects" /\ ~truncated'))
                        \/ Stuck' /\ listPc' = "objects"
      BY Zenon DEF OnePage
    <2>1. Applies /\ dir = asked
      BY Zenon, <1>1, SamePage DEF Applies
    <2>2. Unstarted \/ Stuck
      BY Zenon, <1>1, <2>1 DEF OnePage
    <2>3. CASE Stuck
      BY Zenon, <1>1, <1>2, <2>1, <2>3, StuckStays
    <2>4. CASE Unstarted
      <3>1. FirstChunk(batch, fresh, taken)
        BY Zenon, <1>1, <1>2, <2>1, <2>4, FirstChunkIs
      <3> QED
        BY Zenon, <1>1, <3>1, FirstChunkApart, FirstChunkGrouped
    <2> QED
      BY Zenon, <2>2, <2>3, <2>4
  <1>7. Once'
    BY Zenon, <1>1 DEF Once
  <1> QED
    BY Zenon, <1>1, <1>3, <1>5, <1>6, <1>7 DEF ListInv

LEMMA ChunksEndListInv == ASSUME ListInv, List!ChunksEnd PROVE ListInv'
  <1>1. /\ listPc = "objects" /\ ~(truncated /\ List!Count <= req.max) /\ listPc' = "done"
        /\ kind' = kind /\ dir' = dir /\ req' = req /\ dirChanges' = dirChanges /\ asked' = asked
        /\ listed' = listed /\ prefixes' = prefixes /\ truncated' = truncated
    BY Zenon DEF List!ChunksEnd
  <1>2. ListTypes /\ OnePage /\ req.op = "objects" /\ req.max \in Int
    BY Zenon, <1>1 DEF ListInv, ListTypes
  <1>3. ListTypes'
    BY Zenon, <1>1, <1>2 DEF ListTypes
  <1>4. OnePage'
    <2> SUFFICES ASSUME Applies' PROVE Exact'
      BY Zenon, <1>1 DEF OnePage
    <2>0. List!Items' = List!Items /\ PageNames' = PageNames /\ PageGroups' = PageGroups
      BY Zenon, <1>1, SamePage
    <2>1. Applies
      BY Zenon, <1>1, SamePage DEF Applies
    <2> SUFFICES ASSUME Unstarted \/ (~truncated /\ Exact) \/ Stuck PROVE Exact
      BY Zenon, <1>1, <1>2, <2>0, <2>1 DEF OnePage, Exact
    <2>2. /\ List!Count = Len(listed) + Cardinality(prefixes)
      BY Zenon, <1>2, CountIs
    <2>3. CASE Unstarted
      <3>1. Len(listed) = 0 /\ Cardinality(prefixes) = 0
        BY Zenon, <2>3, FS_EmptySet DEF Unstarted
      <3>2. req.max < 0 /\ req.max <= 0
        BY SMT, Z3, <1>1, <1>2, <2>2, <2>3, <3>1 DEF Unstarted
      <3>3. List!Items \in SUBSET Entries /\ Cardinality(List!Items) \in Nat
        BY Zenon, <1>2, ItemsTypes
      <3>4. List!FirstPage = {}
        BY Zenon, <1>2, <3>2, <3>3, FirstNone DEF List!FirstPage
      <3>5. PageNames = {} /\ PageGroups = {}
        BY Zenon, <3>4 DEF PageNames, PageGroups
      <3>6. Cardinality(List!Items) > req.max
        BY SMT, Z3, <1>2, <3>2, <3>3
      <3>7. truncated = (Cardinality(List!Items) > req.max)
        <4>1. truncated \in BOOLEAN /\ truncated
          BY Zenon, <1>2, <2>3 DEF Unstarted, ListTypes
        <4> QED
          BY Zenon, <3>6, <4>1
      <3> QED
        BY Zenon, <2>3, <3>5, <3>7, EmptyInOrder DEF Unstarted, Exact
    <2>4. CASE Stuck
      <3>1. listed = <<>> /\ Cardinality(prefixes) = 1 /\ req.max >= 1
        BY Zenon, <2>4, FS_Singleton DEF Stuck
      <3>2. List!Count <= req.max
        <4>1. Len(listed) = 0
          BY Zenon, <3>1
        <4> QED
          BY SMT, Z3, <1>2, <2>2, <3>1, <4>1
      <3> QED
        BY Zenon, <1>1, <2>4, <3>2 DEF Stuck
    <2> QED
      BY Zenon, <2>3, <2>4
  <1>5. Once'
    BY Zenon, <1>1, <1>2 DEF Once
  <1> QED
    BY Zenon, <1>1, <1>3, <1>4, <1>5 DEF ListInv

LEMMA BucketsListInv == ASSUME ListInv, List!BucketsChunk PROVE ListInv'
  <1>1. /\ listPc = "buckets" /\ req.op = "buckets" /\ ListTypes /\ Once
        /\ kind' = kind /\ dir' = dir /\ req' = req /\ dirChanges' = dirChanges /\ asked' = asked
        /\ prefixes' = prefixes /\ truncated' = truncated
        /\ listPc # "idle" /\ dirChanges = 0 => dir = asked
    BY Zenon DEF ListInv, ListTypes, List!BucketsChunk
  <1> DEFINE found == List!First(dir, Fit)
  <1>2. /\ found \in SUBSET (1 .. MaxName) /\ found \in SUBSET Entries
        /\ Cardinality(found) \in Nat /\ Cardinality(found) <= Fit /\ Fit \in Nat
    <2>1. Fit \in Nat /\ dir \in SUBSET (1 .. MaxName) /\ dir \in SUBSET Entries
      BY Zenon, <1>1, ListFacts, NamesAreEntries DEF ListTypes
    <2>2. found \subseteq dir
      BY Zenon, FirstSome
    <2> QED
      BY Zenon, <2>1, <2>2, FirstBound, EntriesFinite
  <1>3. PICK q : q = List!InOrder(found)
    BY Zenon
  <1>4. /\ q \in Seq(1 .. MaxName)
        /\ \A i, j \in 1 .. Len(q) : q[i] = q[j] => i = j
    BY Zenon, <1>2, <1>3, InOrderIs
  <1>5. \/ /\ \E j \in {0, 1} :
                  listPc' = IF Cardinality(found) + j < req.chunk THEN "done" ELSE listPc
           /\ listed' = IF Len(listed) > Fit THEN listed ELSE listed \o q
        \/ /\ listPc' \in {"done", IF 0 < req.chunk THEN "done" ELSE listPc}
           /\ listed' = listed
    <2>1. CASE dir # {}
      <3>1. \E j \in List!Junk(found) :
                listPc' = IF List!Cardinality(found) + j < req.chunk THEN "done" ELSE listPc
        BY Zenon, <2>1 DEF List!BucketsChunk, List!ReadUserBuckets, List!UserBucketList,
              List!ShellExecute, List!BucketsDone
      <3>2. List!Junk(found) \subseteq {0, 1}
        BY Zenon DEF List!Junk
      <3>3. listed' = IF Len(listed) > Fit THEN listed ELSE listed \o List!InOrder(found)
        BY Zenon, <2>1 DEF List!BucketsChunk, List!ReadUserBuckets, List!UserBucketList,
              List!ShellExecute
      <3> QED
        BY Zenon, <1>3, <3>1, <3>2, <3>3, ListCounted
    <2>2. CASE dir = {}
      BY Zenon, <2>2 DEF List!BucketsChunk, List!BucketsDone
    <2> QED
      BY Zenon, <2>1, <2>2
  <1> HIDE DEF found
  <1>6. listPc' \in {"buckets", "done"}
    BY Zenon, <1>1, <1>5
  <1>7. listed' \in Seq(1 .. MaxName)
    <2>1. listed \in Seq(1 .. MaxName)
      BY Zenon, <1>1 DEF ListTypes
    <2>2. listed \o q \in Seq(1 .. MaxName)
      BY SMT, Z3, <1>4, <2>1
    <2> QED
      BY Zenon, <1>5, <2>1, <2>2
  <1>8. ListTypes'
    BY Zenon, <1>1, <1>6, <1>7 DEF ListTypes
  <1>9. Once'
    <2> SUFFICES ASSUME Fit + 1 < req.chunk
                 PROVE  /\ listPc' = "done"
                        /\ \A i, j \in 1 .. Len(listed') : listed'[i] = listed'[j] => i = j
      BY Zenon, <1>1 DEF Once
    <2>1. listed = <<>>
      BY Zenon, <1>1 DEF Once
    <2>2. req.chunk \in Int
      BY Zenon, <1>1 DEF ListTypes
    <2>3. 0 < req.chunk /\ \A j \in {0, 1} : Cardinality(found) + j < req.chunk
      BY SMT, Z3, <1>2, <2>2
    <2>4. listPc' = "done"
      BY Zenon, <1>5, <2>3
    <2>5. Len(listed) = 0 /\ ~(Len(listed) > Fit) /\ <<>> \o q = q
      BY SMT, Z3, <1>2, <1>4, <2>1
    <2>6. listed' = q \/ listed' = <<>>
      BY Zenon, <1>5, <2>1, <2>5
    <2>7. 1 .. Len(<<>>) = {}
      BY SMT, Z3
    <2> QED
      BY Zenon, <1>4, <2>4, <2>6, <2>7
  <1>10. OnePage'
    BY Zenon, <1>1 DEF OnePage, Applies
  <1> QED
    BY Zenon, <1>1, <1>8, <1>9, <1>10 DEF ListInv

LEMMA BeginListInv ==
    ASSUME ListInv, List!ListBucket \/ List!ListBuckets
    PROVE  ListInv'
  <1>1. ListTypes /\ listPc = "idle"
    BY Zenon DEF ListInv, List!ListBucket, List!ListBuckets, List!Begin
  <1>2. /\ kind' = kind /\ dir' = dir /\ dirChanges' = dirChanges /\ asked' = dir
        /\ listed' = <<>> /\ prefixes' = {} /\ truncated'
        /\ truncated' = TRUE /\ listPc' \in {"objects", "buckets"}
    BY Zenon DEF List!ListBucket, List!ListBuckets, List!Begin
  <1>3. \/ \E m \in MaxKeys, mk \in Markers, d \in BOOLEAN, g \in BOOLEAN :
               /\ req' = [op |-> "objects", max |-> m, marker |-> mk, delim |-> d, grouped |-> g]
               /\ listPc' = "objects"
        \/ \E c \in Chunks : req' = [op |-> "buckets", chunk |-> c] /\ listPc' = "buckets"
    BY Zenon DEF List!ListBucket, List!ListBuckets, List!Begin
  <1>4. /\ req'.op = listPc'
        /\ req'.op = "objects" => req'.max \in Int /\ req'.delim \in BOOLEAN
                                  /\ req'.grouped \in BOOLEAN
        /\ req'.op = "buckets" => req'.chunk \in Int
    <2>1. ASSUME NEW m \in MaxKeys, NEW mk \in Markers, NEW d \in BOOLEAN, NEW g \in BOOLEAN,
                 listPc' = "objects",
                 req' = [op |-> "objects", max |-> m, marker |-> mk, delim |-> d, grouped |-> g]
          PROVE  req'.op = listPc' /\ req'.op # "buckets" /\ req'.max \in Int
                 /\ req'.delim \in BOOLEAN /\ req'.grouped \in BOOLEAN
      BY Zenon, <2>1, ListFacts
    <2>2. ASSUME NEW c \in Chunks, listPc' = "buckets", req' = [op |-> "buckets", chunk |-> c]
          PROVE  req'.op = listPc' /\ req'.op # "objects" /\ req'.chunk \in Int
      BY Zenon, <2>2, ListFacts
    <2> QED
      BY Zenon, <1>3, <2>1, <2>2
  <1>5. /\ <<>> \in Seq(1 .. MaxName) /\ Len(<<>>) = 0 /\ 1 .. Len(<<>>) = {}
        /\ Cardinality({}) = 0
    BY SMT, Z3, FS_EmptySet
  <1>6. ListTypes'
    BY Zenon, <1>1, <1>2, <1>4, <1>5 DEF ListTypes
  <1>7. req'.op = "objects" /\ req'.max >= 0 => Len(listed') + Cardinality(prefixes') <= req'.max
    <2>1. Len(listed') = 0 /\ Cardinality(prefixes') = 0
      BY Zenon, <1>2, <1>5
    <2> QED
      BY SMT, Z3, <1>4, <2>1
  <1>8. OnePage'
    BY Zenon, <1>2 DEF OnePage, Unstarted
  <1>9. Once'
    BY Zenon, <1>2, <1>5 DEF Once
  <1> QED
    BY Zenon, <1>2, <1>6, <1>7, <1>8, <1>9 DEF ListInv

LEMMA RestListInv ==
    ASSUME ListInv,
           List!Respond \/ (\E n \in List!Names : List!Change(n)) \/ UNCHANGED listVars
    PROVE  ListInv'
  <1>1. CASE List!Respond
    <2>1. /\ listPc' = "idle" /\ req' = List!NoRequest /\ listed' = <<>> /\ prefixes' = {}
          /\ truncated' = FALSE /\ dirChanges' = 0 /\ asked' = {} /\ kind' = kind /\ dir' = dir
      BY Zenon, <1>1 DEF List!Respond
    <2>2. req'.op = "none"
      BY Zenon, <2>1 DEF List!NoRequest
    <2>3. <<>> \in Seq(1 .. MaxName) /\ 0 \in Nat
      BY SMT, Z3
    <2>4. ListTypes'
      BY Zenon, <2>1, <2>2, <2>3 DEF ListInv, ListTypes
    <2> QED
      BY Zenon, <2>1, <2>2, <2>4 DEF ListInv, OnePage, Applies, Once
  <1>2. ASSUME NEW n \in List!Names, List!Change(n) PROVE ListInv'
    <2>1. /\ dirChanges' = dirChanges + 1 /\ kind' = kind /\ req' = req /\ listPc' = listPc
          /\ listed' = listed /\ prefixes' = prefixes /\ truncated' = truncated /\ asked' = asked
          /\ dir' = IF n \in dir THEN dir \ {n} ELSE dir \cup {n}
      BY Zenon, <1>2 DEF List!Change
    <2>2. dirChanges \in Nat
      BY Zenon DEF ListInv, ListTypes
    <2>3. dirChanges' \in Nat /\ dirChanges' # 0
      BY SMT, Z3, <2>1, <2>2
    <2>4. dir' \subseteq 1 .. MaxName
      BY Zenon, <2>1 DEF List!Names, ListInv, ListTypes
    <2>5. ListTypes'
      BY Zenon, <2>1, <2>3, <2>4 DEF ListInv, ListTypes
    <2>6. OnePage'
      BY Zenon, <2>3 DEF OnePage, Applies
    <2>7. Once'
      BY Zenon, <2>1 DEF ListInv, Once
    <2> QED
      BY Zenon, <2>1, <2>3, <2>5, <2>6, <2>7 DEF ListInv
  <1>3. CASE UNCHANGED listVars
    <2>1. /\ kind' = kind /\ dir' = dir /\ req' = req /\ listPc' = listPc /\ listed' = listed
          /\ prefixes' = prefixes /\ truncated' = truncated /\ dirChanges' = dirChanges
          /\ asked' = asked
      BY Zenon, <1>3 DEF listVars
    <2>2. ListTypes'
      BY Zenon, <2>1 DEF ListInv, ListTypes
    <2>3. List!Visible' = List!Visible /\ List!Items' = List!Items
          /\ PageNames' = PageNames /\ PageGroups' = PageGroups
      BY Zenon, <2>1, SamePage
    <2>4. OnePage'
      BY Zenon, <2>1, <2>3 DEF ListInv, OnePage, Applies, Exact, Stuck, Unstarted
    <2>5. Once'
      BY Zenon, <2>1 DEF ListInv, Once
    <2> QED
      BY Zenon, <2>1, <2>2, <2>4, <2>5 DEF ListInv
  <1> QED
    BY Zenon, <1>1, <1>2, <1>3

LEMMA InitListInv == List!Init => ListInv
  <1> SUFFICES ASSUME List!Init PROVE ListInv
    BY Zenon
  <1>1. /\ kind \in Kinds /\ dir \in SUBSET (1 .. MaxName) /\ req = List!NoRequest
        /\ listPc = "idle" /\ listed = <<>> /\ prefixes = {} /\ truncated = FALSE
        /\ dirChanges = 0 /\ asked = {}
    BY Zenon DEF List!Init, List!Names
  <1>2. req.op = "none"
    BY Zenon, <1>1 DEF List!NoRequest
  <1>3. <<>> \in Seq(1 .. MaxName) /\ 0 \in Nat
    BY SMT, Z3
  <1>4. ListTypes
    BY Zenon, <1>1, <1>2, <1>3, ListFacts DEF ListTypes
  <1> QED
    BY Zenon, <1>1, <1>2, <1>4 DEF ListInv, OnePage, Applies, Once

LEMMA ListStep == ListInv /\ [List!Next]_(List!vars) => ListInv'
  <1> SUFFICES ASSUME ListInv, List!Next \/ UNCHANGED List!vars PROVE ListInv'
    BY Zenon
  <1>1. List!Next \/ UNCHANGED listVars
    BY Zenon DEF List!vars, listVars
  <1> QED
    BY Zenon, <1>1, ChunkListInv, ChunksEndListInv, BucketsListInv, BeginListInv, RestListInv
       DEF List!Next, List!Serve

LEMMA ListInvEnough == ListInv => PageExact
  <1> SUFFICES ASSUME ListInv PROVE PageExact
    BY Zenon
  <1>1. List!PageBounded
    BY Zenon, ListCounted DEF ListInv, List!PageBounded, List!Count
  <1>2. List!BucketsOnce
    BY Zenon DEF ListInv, Once, List!BucketsOnce
  <1>3. List!PageExact
    <2> SUFFICES ASSUME listPc = "done", req.op = "objects", dirChanges = 0,
                        List!Cardinality(asked) <= Fit,
                        List!Visible = asked \/ List!Cardinality(asked) <= req.max + 1
                 PROVE  /\ listed = List!InOrder(PageNames) /\ prefixes = PageGroups
                        /\ truncated = (List!Cardinality(List!Items) > req.max)
      BY Zenon DEF List!PageExact, PageNames, PageGroups
    <2>1. Applies
      BY Zenon, ListCounted DEF Applies
    <2>2. Exact
      BY Zenon, <2>1 DEF ListInv, OnePage
    <2> QED
      BY Zenon, <2>2, ListCounted DEF Exact
  <1> QED
    BY Zenon, <1>1, <1>2, <1>3 DEF PageExact

\* A page of list_objects() never holds more than max entries.  When nothing changed
\* meanwhile, the names fit the buffer of shell_execute() and none is hidden, or the
\* first chunk holds them all, it is the first page of the bucket in order, and
\* is_truncated says whether there is more.  RGWListBuckets names no bucket twice
\* when a chunk asks for more than the buffer holds.
THEOREM PagesAreExact == List!Spec => []PageExact
  BY InitListInv, ListStep, ListInvEnough, PTL DEF List!Spec

=============================================================================
