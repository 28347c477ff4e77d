------------------------------ MODULE Listings ------------------------------
(***************************************************************************)
(* The requests that list a bucket and the buckets of a user, as an        *)
(* instance of Listing; a name that another module uses is renamed.        *)
(***************************************************************************)
EXTENDS Integers, Sequences, FiniteSets

CONSTANTS MaxName, Fit, Kinds, MaxKeys, Markers, Chunks, DirChanges
VARIABLES kind, dir, req, listPc, listed, prefixes, truncated, curMarker, dirChanges, asked
listVars == <<kind, dir, req, listPc, listed, prefixes, truncated, curMarker, dirChanges, asked>>
List == INSTANCE Listing WITH
    MaxChanges <- DirChanges, pc <- listPc, result <- listed, changes <- dirChanges

ASSUME ListingAssumption == List!ListingAssumption

-----------------------------------------------------------------------------
(* What they promise, as stated in Listing.                                *)

\* porting_rados.cc, porting_op.cc: a page holds at most max entries; an undisturbed
\* listing is the first page, and is_truncated right; no bucket is named twice.
PageExact == List!PageExact /\ List!PageBounded /\ List!BucketsOnce

=============================================================================
