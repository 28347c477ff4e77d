----------------------------- MODULE MCListing -----------------------------
(* Plain names only, so that nothing but the marker decides where a page   *)
(* begins.                                                                 *)
EXTENDS Listing

PlainNames == {[n \in Names |-> "plain"]}

=============================================================================
