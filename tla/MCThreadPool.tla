---------------------------- MODULE MCThreadPool ----------------------------
(* Small pools: two callers, two or three thread identities, two items.    *)
EXTENDS ThreadPool

CONSTANTS w1, w2, w3, c1, c2, i1, i2

MCWorkers == {w1, w2, w3}
MCCallers == {c1, c2}
MCItems == {i1, i2}
MCSizes == {1, 2}

=============================================================================
