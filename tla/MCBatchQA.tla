------------------------------- MODULE MCBatchQA -------------------------------
(* A small batch with two polls at a time, or its one thread. *)
EXTENDS BatchQA

CONSTANTS p1, p2
TwoThreads == {p1, p2}
=============================================================================
