----------------------------- MODULE ObjectCache -----------------------------
(***************************************************************************)
(* The cache of system objects: ObjectCache (rgw/rgw_cache.cc) under       *)
(* RGWCache (rgw/rgw_cache.h), whose methods reach the storage first and   *)
(* the cache second, and the caches chained to it (RGWChainedCacheImpl,    *)
(* porting_rados.h), whose entries are derived from cached objects and     *)
(* dropped when these change.  One critical section of ObjectCache::lock   *)
(* is one step; the storage is external, and an access to it is one step.  *)
(*                                                                         *)
(* Contents are versions: every write has its own.  An object has data and *)
(* attributes; its metadata (size, time) follow its data.  The calls are   *)
(* those without an RGWObjVersionTracker: a call with one also asks for    *)
(* CACHE_FLAG_OBJV and caches the version of the object class, which is    *)
(* not modelled.                                                           *)
(***************************************************************************)
EXTENDS Integers, Sequences, FiniteSets

CONSTANTS Readers,     \* the clients that look objects up, and chain
          Updaters,    \* the clients that change objects
          Names,
          Setups       \* what a behaviour may be set up with: rgw_cache_lru_size (lruSize);
                       \* the calls that are made and on which names (calls, names); and
                       \* the bounds on the writes to the storage and on the generations
                       \* of an entry (maxWrites, maxGen)

ASSUME CacheAssumption ==
    /\ \A s \in Setups : s.lruSize \in Nat /\ s.names \subseteq Names /\ s.maxWrites \in Nat
    /\ -1 \notin Names

Clients == Readers \cup Updaters
None == -1
Absent == [data |-> None, attrs |-> None]
NoEntry == [gen |-> None]
NoSeen == [name |-> None]

VARIABLES
    setup,     \* never changes
    store,     \* the objects in the storage; Absent
    cacheMap,  \* cache_map; NoEntry
    lru,       \* the names, the oldest first
    chained,   \* the chained cache: the version an entry was derived from
    enabled,
    pc, op, info,   \* per client: where it is, its call, what it will put
    seen,      \* per client: the rgw_cache_entry_info and the data it got with it
    writes,
    raced,     \* names on which a write and another call overlapped
    orphaned   \* chained entries whose cached object was evicted

vars == <<setup, store, cacheMap, lru, chained, enabled, pc, op, info, seen, writes, raced,
          orphaned>>

NoOp == [kind |-> "none", name |-> None]
NoInfo == [flags |-> {}, data |-> None, attrs |-> None, ok |-> FALSE]
Cached(n) == cacheMap[n] # NoEntry
Writers == {"put", "setattr", "delete"}

Init ==
    /\ setup \in Setups
    /\ store = [n \in Names |-> [data |-> 0, attrs |-> 0]]
    /\ cacheMap = [n \in Names |-> NoEntry]
    /\ lru = <<>>
    /\ chained = [n \in Names |-> None]
    /\ enabled = TRUE
    /\ pc = [c \in Clients |-> "idle"]
    /\ op = [c \in Clients |-> NoOp]
    /\ info = [c \in Clients |-> NoInfo]
    /\ seen = [c \in Clients |-> NoSeen]
    /\ writes = 0
    /\ raced = {}
    /\ orphaned = {}

-----------------------------------------------------------------------------
(* ObjectCache, holding the lock.                                          *)

Listed == {lru[i] : i \in 1 .. Len(lru)}

\* lru_iter, the place of n in the list; lru.end() for a name that is not there.
LruIter(n) == IF n \in Listed THEN CHOOSE i \in 1 .. Len(lru) : lru[i] = n ELSE Len(lru) + 1

Excess == IF Len(lru) > setup.lruSize THEN Len(lru) - setup.lruSize ELSE 0

Popped_NoTest(n) == Excess

\* How many names touch_lru(n) pops from the front: while the list is too long, but not n.
Popped(n) == IF Excess < LruIter(n) THEN Excess ELSE LruIter(n) - 1

Drop(m, names) == [n \in Names |-> IF n \in names THEN NoEntry ELSE m[n]]

\* The list without the first k names and without the one at p.
Cut(k, p) == SubSeq(lru, k + 1, p - 1) \o SubSeq(lru, p + 1, Len(lru))

\* touch_lru(), in a map that already has the entry of n.
TouchLru(m, n) ==
    LET gone == {lru[i] : i \in 1 .. Popped(n)}
    IN  /\ cacheMap' = Drop(m, gone)
        /\ lru' = Append(Cut(Popped(n), LruIter(n)), n)
        /\ orphaned' = orphaned \cup UNION {m[g].chained : g \in gone \cap
                                               {x \in Names : m[x] # NoEntry}}

\* The chained entries of n are invalidated.
Unchain(n) ==
    LET keys == IF Cached(n) THEN cacheMap[n].chained ELSE {}
    IN  chained' = [k \in Names |-> IF k \in keys THEN None ELSE chained[k]]

NewEntry == [gen |-> 0, flags |-> {}, data |-> None, attrs |-> None,
             meta |-> None, chained |-> {}]

MergeFlags_KeepMeta(f, i) == f \cup i.flags

\* A change other than of the metadata or of single attributes resets META.
MergeFlags(f, i) ==
    LET all == f \cup i.flags
    IN  IF "meta" \in i.flags \/ "modify" \in i.flags THEN all ELSE all \ {"meta"}

\* What put() makes of the entry: flags and the parts that info brings.  Changing
\* some attributes of an entry that has them all gives all attributes of the object.
Merge(e, i) ==
    IF ~i.ok
    THEN [e EXCEPT !.flags = {}, !.data = None, !.attrs = None]
    ELSE [e EXCEPT !.flags = MergeFlags(@, i),
                   !.meta = IF "meta" \in i.flags THEN i.data ELSE @,
                   !.attrs = IF "xattrs" \in i.flags THEN i.attrs
                             ELSE IF "modify" \in i.flags /\ "xattrs" \in e.flags
                             THEN i.attrs ELSE @,
                   !.data = IF "data" \in i.flags THEN i.data ELSE @]

\* put(): a new generation, without chained entries; the version that comes with
\* CACHE_FLAG_OBJV is left out.
Put(n, i) ==
    IF ~enabled THEN UNCHANGED <<cacheMap, lru, chained, orphaned>>
    ELSE LET e == IF Cached(n) THEN cacheMap[n] ELSE NewEntry
             f == Merge([e EXCEPT !.gen = @ + 1, !.chained = {}], i)
         IN  TouchLru([cacheMap EXCEPT ![n] = f], n) /\ Unchain(n)

\* remove() and remove_lru().
RemoveEntry(n) ==
    IF ~enabled \/ ~Cached(n) THEN UNCHANGED <<cacheMap, lru, chained, orphaned>>
    ELSE /\ Unchain(n)
         /\ cacheMap' = [cacheMap EXCEPT ![n] = NoEntry]
         /\ lru' = Cut(0, LruIter(n))
         /\ UNCHANGED orphaned

-----------------------------------------------------------------------------
(* RGWCache: the calls of the clients.                                     *)

\* get_system_obj() asks for the data, raw_obj_stat() for metadata and attributes.
Mask(kind) == IF kind = "get" THEN {"data"} ELSE {"meta", "xattrs"}

Call(c, kind, n) ==
    /\ pc[c] = "idle" /\ kind \in setup.calls /\ n \in setup.names
    /\ raced' = IF \E d \in Clients : pc[d] # "idle" /\ op[d].name = n
                                      /\ {kind, op[d].kind} \cap Writers # {}
                THEN raced \cup {n} ELSE raced

Within(n) == Cached(n) => cacheMap[n].gen < setup.maxGen

Goto(c, where, o) ==
    /\ pc' = [pc EXCEPT ![c] = where]
    /\ op' = [op EXCEPT ![c] = o]

\* The cache_info a client keeps, for chaining, with the data it got.
See(c, n, gen, data) ==
    IF "chain" \in setup.calls
    THEN [seen EXCEPT ![c] = [name |-> n, gen |-> gen, data |-> data]] ELSE seen

\* The end of ObjectCache::get(): a hit returns, anything else goes to the storage.
Answer(c, kind, n, e) ==
    IF Mask(kind) \subseteq e.flags
    THEN /\ seen' = IF kind = "get" THEN See(c, n, e.gen, e.data) ELSE seen
         /\ Goto(c, "idle", NoOp)
    ELSE Goto(c, "fetch", [kind |-> kind, name |-> n]) /\ UNCHANGED seen

\* get() under the read lock; an entry not used for a while is to be touched, which
\* needs the write lock.
Lookup(c, kind, n) ==
    /\ Call(c, kind, n) /\ Within(n)
    /\ \/ /\ ~(enabled /\ Cached(n))
          /\ Goto(c, "fetch", [kind |-> kind, name |-> n]) /\ UNCHANGED seen
       \/ enabled /\ Cached(n) /\ Answer(c, kind, n, cacheMap[n])
       \/ /\ enabled /\ Cached(n)
          /\ Goto(c, "promote", [kind |-> kind, name |-> n]) /\ UNCHANGED seen
    /\ UNCHANGED <<store, cacheMap, lru, chained, enabled, info, writes, orphaned>>

\* The lock was released meanwhile: get() looks for the entry again, and touches it
\* unless another client just did.
Promote(c) ==
    /\ pc[c] = "promote"
    /\ LET n == op[c].name
       IN  IF ~Cached(n)
           THEN /\ Goto(c, "fetch", op[c])
                /\ UNCHANGED <<seen, cacheMap, lru, orphaned>>
           ELSE /\ TouchLru(cacheMap, n) \/ UNCHANGED <<cacheMap, lru, orphaned>>
                /\ Answer(c, op[c].kind, n, cacheMap[n])
    /\ UNCHANGED <<store, chained, enabled, info, writes, raced>>

\* A miss: read the object in the storage.
Fetch(c) ==
    /\ pc[c] = "fetch"
    /\ LET o == store[op[c].name]
       IN  info' = [info EXCEPT ![c] = [flags |-> Mask(op[c].kind), data |-> o.data,
                                        attrs |-> o.attrs, ok |-> o # Absent]]
    /\ Goto(c, "insert", op[c])
    /\ UNCHANGED <<store, cacheMap, lru, chained, enabled, seen, writes, raced,
                   orphaned>>

\* The read fails for another reason than ENOENT, or stops before the end of the
\* object: nothing is cached.
FetchFails(c) ==
    /\ pc[c] = "fetch"
    /\ Goto(c, "idle", NoOp)
    /\ UNCHANGED <<store, cacheMap, lru, chained, enabled, info, seen, writes, raced,
                   orphaned>>

\* put_system_obj_impl() and set_attrs() change the storage, or fail.
StoreWrite(c, kind, n, ok) ==
    /\ kind \in {"put", "setattr"}
    /\ Call(c, kind, n) /\ Within(n)
    /\ writes < setup.maxWrites
    /\ kind = "setattr" => store[n] # Absent
    /\ writes' = writes + 1
    /\ LET v == writes + 1
       IN  /\ info' = [info EXCEPT ![c] =
                         [flags |-> IF kind = "put" THEN {"xattrs", "data"} ELSE {"modify"},
                          data |-> v, attrs |-> v, ok |-> ok]]
           /\ store' = IF ~ok THEN store
                       ELSE IF kind = "put" THEN [store EXCEPT ![n] = [data |-> v, attrs |-> v]]
                       ELSE [store EXCEPT ![n].attrs = v]
    /\ Goto(c, "insert", [kind |-> kind, name |-> n])
    /\ UNCHANGED <<cacheMap, lru, chained, enabled, seen, orphaned>>

\* The call ends in the cache: put(), or remove() after a write that failed.  A read
\* that found the object remembers the generation it put.
Insert(c) ==
    /\ pc[c] = "insert"
    /\ LET n == op[c].name
       IN  /\ IF op[c].kind \in Writers /\ ~info[c].ok THEN RemoveEntry(n)
              ELSE Put(n, info[c])
           /\ seen' = IF op[c].kind = "get" /\ info[c].ok /\ enabled
                      THEN See(c, n, cacheMap'[n].gen, info[c].data) ELSE seen
    /\ Goto(c, "idle", NoOp)
    /\ info' = [info EXCEPT ![c] = NoInfo]
    /\ UNCHANGED <<store, enabled, writes, raced>>

\* delete_system_obj(): first the cache, then the storage.
DeleteBegin(c, n) ==
    /\ Call(c, "delete", n)
    /\ RemoveEntry(n)
    /\ Goto(c, "erase", [kind |-> "delete", name |-> n])
    /\ UNCHANGED <<store, enabled, info, seen, writes>>

Erase(c) ==
    /\ pc[c] = "erase"
    /\ store' = [store EXCEPT ![op[c].name] = Absent]
    /\ Goto(c, "idle", NoOp)
    /\ UNCHANGED <<cacheMap, lru, chained, enabled, info, seen, writes, raced, orphaned>>

\* chain_cache_entry(): is the entry a client has seen still the one in the cache?
Valid(s) == Cached(s.name) /\ cacheMap[s.name].gen = s.gen

\* RGWChainedCacheImpl::put(), chain_cache_entry() and chain_cb(): the client caches
\* what it derived from the data it has seen.
Chain(c) ==
    /\ pc[c] = "idle" /\ seen[c] # NoSeen
    /\ IF enabled /\ Valid(seen[c])
       THEN /\ chained' = [chained EXCEPT ![seen[c].name] = seen[c].data]
            /\ cacheMap' = [cacheMap EXCEPT ![seen[c].name].chained = {seen[c].name}]
            /\ orphaned' = orphaned \ {seen[c].name}
       ELSE UNCHANGED <<chained, cacheMap, orphaned>>
    /\ seen' = [seen EXCEPT ![c] = NoSeen]
    /\ UNCHANGED <<store, lru, enabled, pc, op, info, writes, raced>>

\* set_enabled(): switching off empties the cache and every chained cache.
SetEnabled(on) ==
    /\ "enable" \in setup.calls
    /\ enabled # on
    /\ enabled' = on
    /\ IF on THEN UNCHANGED <<cacheMap, lru, chained, orphaned>>
       ELSE /\ cacheMap' = [n \in Names |-> NoEntry]
            /\ lru' = <<>>
            /\ chained' = [n \in Names |-> None]
            /\ orphaned' = {}
    /\ UNCHANGED <<store, pc, op, info, seen, writes, raced>>

Reader(c) ==
    \/ \E n \in Names, kind \in {"get", "stat"} : Lookup(c, kind, n)
    \/ Promote(c) \/ Fetch(c) \/ FetchFails(c) \/ Insert(c) \/ Chain(c)

Updater(c) ==
    \/ \E n \in Names, kind \in {"put", "setattr"}, ok \in BOOLEAN :
           StoreWrite(c, kind, n, ok)
    \/ \E n \in Names : DeleteBegin(c, n)
    \/ Insert(c) \/ Erase(c)

Next ==
    /\ \/ \E c \in Readers : Reader(c)
       \/ \E c \in Updaters : Updater(c)
       \/ \E on \in BOOLEAN : SetEnabled(on)
    /\ UNCHANGED setup

Spec == Init /\ [][Next]_vars

-----------------------------------------------------------------------------
(* Properties.                                                             *)

FlagSets == SUBSET {"data", "xattrs", "meta", "modify"}

TypeOK ==
    /\ \A n \in Names : Cached(n) => /\ cacheMap[n].gen \in Nat \ {0}
                                     /\ cacheMap[n].flags \in FlagSets
                                     /\ cacheMap[n].chained \subseteq Names
    /\ lru \in Seq(Names)
    /\ chained \in [Names -> (0 .. setup.maxWrites) \cup {None}]
    /\ enabled \in BOOLEAN
    /\ pc \in [Clients -> {"idle", "promote", "fetch", "insert", "erase"}]

\* The LRU list names each cached object once and nothing else, through every mixture
\* of puts, promotions that lost the lock meanwhile, removals and evictions.
LruListsMap ==
    /\ Listed = {n \in Names : Cached(n)}
    /\ \A i, j \in 1 .. Len(lru) : lru[i] = lru[j] => i = j

\* Eviction keeps the cache within one entry of rgw_cache_lru_size.
LruBounded == Len(lru) <= setup.lruSize + 1

Coherent(n) ==
    LET e == cacheMap[n]
    IN  /\ "data" \in e.flags => e.data = store[n].data
        /\ "meta" \in e.flags => e.meta = store[n].data
        /\ "xattrs" \in e.flags => e.attrs = store[n].attrs

\* Where no write overlapped another call on the same object, what the cache would
\* answer is what the storage holds: data, metadata and attributes, after every order
\* of reads, whole and partial writes, failed writes and deletions.
CacheCoherent ==
    \A n \in Names :
        Cached(n) /\ n \notin raced /\ (\A c \in Clients : op[c].name # n) => Coherent(n)

\* A chained entry is always registered with the cached object it was derived from, so
\* that the next put() or remove() of the object drops it; only an eviction from the LRU
\* list breaks the link.
ChainedIsRegistered ==
    \A n \in Names :
        chained[n] # None => n \in orphaned \/ (Cached(n) /\ n \in cacheMap[n].chained)

\* The list names the entries, within its size, and the chained entries are registered.
LruExact == LruListsMap /\ LruBounded /\ ChainedIsRegistered

\* "first verify that all entries are still valid" (chain_cache_entry()): what is put in
\* the chained cache was derived from the object as it is cached.  A generation starts
\* again when an object is removed and cached anew, so an outdated entry can pass.
ChainedIsCurrent ==
    \A n \in Names :
        chained[n] # None /\ n \notin orphaned /\ "data" \in cacheMap[n].flags
        => chained[n] = cacheMap[n].data

=============================================================================
