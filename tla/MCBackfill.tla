------------------------------ MODULE MCBackfill ------------------------------
(* Three documents in batches of two, two replicas. *)
EXTENDS Backfill

CONSTANTS d1, d2, d3
MCListed == <<d1, d2, d3>>
=============================================================================
