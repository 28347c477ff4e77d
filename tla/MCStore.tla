------------------------------ MODULE MCStore ------------------------------
(* The requests on buckets and files, with the cache, the upkeep of the    *)
(* store, the throttle and the lock checker below them, on small           *)
(* instances: a behaviour is one of the component that part names, and the *)
(* others stay as they begin.                                              *)
EXTENDS ObjectCache, Requests, Upkeep, Locking, TLC

CONSTANTS alice, b1, b2, m1, m2, m3, n1, n2, o1, o2

\* The constants of the components, where the configuration cannot spell them out.  Beside
\* them: two requests for one bucket, of two users and one without an account; a reader that
\* asks again and again for parts of a file of up to three bytes, two to a chunk; three
\* threads that ask for one or two slots of a throttle whose max is one or two; two callers
\* and two bucket shards, in a map that holds one, with a window of one tick; and two
\* processors of garbage, in an index of which every tag is removed at once.

\* Two objects for a cache of one and for a cache of none, and one object with every call.
Evicting ==
    [lruSize |-> 1, names |-> {n1, n2}, calls |-> {"get", "put", "delete", "chain"},
     maxWrites |-> 1, maxGen |-> 2]
Limiting ==
    [lruSize |-> 0, names |-> {n1, n2}, calls |-> {"get", "put"}, maxWrites |-> 1, maxGen |-> 2]
Updating ==
    [lruSize |-> 1, names |-> {n1},
     calls |-> {"get", "stat", "put", "setattr", "delete", "enable"}, maxWrites |-> 2, maxGen |-> 3]
CacheSetups == {Evicting, Limiting, Updating}

\* Three mutexes of three names, and of two.
Apart == m1 :> "a" @@ m2 :> "b" @@ m3 :> "c"
Shared == m1 :> "a" @@ m2 :> "b" @@ m3 :> "b"
MutexNames == {Apart, Shared}

\* The shards of the log, and a chain of two objects.
ShardOf == b1 :> 0 @@ b2 :> 1
ChainOf == n1 :> {o1, o2}

VARIABLE part

\* Where a component may begin in several ways, it does so when it is its turn.
StoreInit ==
    /\ part \in {"bucket", "read", "cache", "throttle", "lock", "data", "garbage"}
    /\ Bucketing!Init /\ Reads!Init /\ Init /\ Slots!Init /\ Locks!Init /\ Data!Init
    /\ Garbage!Init
    /\ part # "bucket" => \A t \in Creators : bucketReq[t] = [bucket |-> b1, user |-> alice]
    /\ part # "read" => readFile = 0
    /\ part # "cache" => setup = Evicting
    /\ part # "throttle" => max = 1
    /\ part # "lock" => nameOf = Apart

\* The components other than the one that takes the step.
Rest(name) ==
    /\ UNCHANGED part
    /\ IF name = "bucket" THEN TRUE ELSE UNCHANGED bucketVars
    /\ IF name = "read" THEN TRUE ELSE UNCHANGED readerVars
    /\ IF name = "cache" THEN TRUE ELSE UNCHANGED vars
    /\ IF name = "throttle" THEN TRUE ELSE UNCHANGED throttleVars
    /\ IF name = "lock" THEN TRUE ELSE UNCHANGED lockVars
    /\ IF name = "data" THEN TRUE ELSE UNCHANGED dataVars
    /\ IF name = "garbage" THEN TRUE ELSE UNCHANGED gcVars

StoreNext ==
    \/ part = "bucket" /\ Bucketing!Next /\ Rest("bucket")
    \/ part = "read" /\ Reads!Next /\ Rest("read")
    \/ part = "cache" /\ Next /\ Rest("cache")
    \/ part = "throttle" /\ Slots!Next /\ Rest("throttle")
    \/ part = "lock" /\ Locks!Next /\ Rest("lock")
    \/ part = "data" /\ Data!Next /\ Rest("data")
    \/ part = "garbage" /\ Garbage!Next /\ Rest("garbage")

StoreSpec == StoreInit /\ [][StoreNext]_<<bucketVars, readerVars, vars, throttleVars, lockVars,
                                          dataVars, gcVars, part>>

-----------------------------------------------------------------------------
(* The properties are those of ObjectCache, Requests, Upkeep and Locking.  *)

\* The variables of the components have their types.
TypesOK ==
    /\ part = "bucket" => Bucketing!TypeOK
    /\ part = "read" => Reads!TypeOK
    /\ part = "cache" => TypeOK
    /\ part = "throttle" => Slots!TypeOK
    /\ part = "lock" => Locks!TypeOK
    /\ part = "data" => Data!TypeOK
    /\ part = "garbage" => Garbage!TypeOK

=============================================================================
