----------------------------- MODULE MCFrontEnd -----------------------------
(* A pool of two threads; the counters of the ring wrap after a few        *)
(* requests.                                                               *)
EXTENDS FrontEnd

CONSTANTS w1, w2

TwoWorkers == {w1, w2}

=============================================================================
