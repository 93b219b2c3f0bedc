---------------------------- MODULE MCPublicBatch ----------------------------
(* A batch of a few questions, a visitor's page and the background runner. *)
EXTENDS PublicBatch

CONSTANTS page, runner

PageAndRunner == {page, runner}
=============================================================================
