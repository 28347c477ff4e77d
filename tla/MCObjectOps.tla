----------------------------- MODULE MCObjectOps -----------------------------
(* One or two buckets with one or two keys, two users of whom one owns the *)
(* buckets, uploads of at most two blocks.                                 *)
EXTENDS ObjectOps, TLC

CONSTANTS w1, w2, b1, b2, k1, k2, alice, bob

TwoWorkers == {w1, w2}
OneBucket == {b1}
TwoBuckets == {b1, b2}
OneKey == {k1}
TwoKeys == {k1, k2}
MCUsers == {alice, bob}
MCOwner == [b \in Buckets |-> alice]

\* Requests overlap and everything fails that may; parts are left to the other
\* instance.
OverlapEvents == EventNames \ {"serial", "part"}
\* Requests to a bucket do not overlap, and what the daemon does to the file
\* system succeeds, except that uploads are refused or over quota.
SerialEvents == {"serial", "overwrite", "part", "delete", "copy", "early", "quota"}
\* Only uploads of new objects, all of them successful.
PlainUploads == {}

Sym == Permutations(Workers) \cup Permutations(Keys) \cup Permutations(Buckets)

=============================================================================
