---------------------------- MODULE MCIndexWorker ----------------------------
(* Instances of IndexWorker for TLC: the jobs of one tenant, index jobs j1
   and j2 and a deletion d1. *)
EXTENDS IndexWorker, TLC

CONSTANTS j1, j2, d1, o1, w1, w2

MCOwners == {o1}
MCOwnerOf == [j \in Jobs |-> o1]

OneTenant == {j1, j2}
WithDelete == {j1, d1}
OneDelete == {d1}
OneCancel == {j1}
OneWorker == {w1}
TwoWorkers == {w1, w2}

\* Safety only: sound because no definition names a worker or a job.
PairSymmetry == Permutations(Workers) \cup Permutations(OneTenant)
=============================================================================
