--------------------------- MODULE MCIndexPipeline ---------------------------
(* One job of one document in a few deployments, with history variables that  *)
(* remember a cancellation that was overwritten or dropped with its row, and  *)
(* a classic engine that failed before it could take its graph back.          *)
EXTENDS IndexPipeline

Scenario(apart, built, r, f) ==
    [distributed |-> apart, targets |-> built, requests |-> r, faults |-> f]

(* A classic job in one process and in two, a LightRAG job, both engines. *)
Jobs ==
    {Scenario(FALSE, {"legacy"}, 2, 1), Scenario(TRUE, {"legacy"}, 1, 1),
     Scenario(TRUE, {"lightrag"}, 1, 2), Scenario(TRUE, Engines, 0, 2)}

CancelledAndDeleted == {Scenario(TRUE, {"lightrag"}, 2, 0)}

VARIABLES overwritten, abandoned

HistoryInit == Init /\ overwritten = FALSE /\ abandoned = FALSE
HistoryNext ==
    /\ Next
    /\ overwritten' = (overwritten \/ (meta.status = "cancelled" /\ meta'.status # "cancelled"))
    /\ abandoned' = (abandoned \/ (/\ pc["legacy"] \in {"upsert", "guard2", "undo"}
                                  /\ outcome'["legacy"] = "failed" /\ ~WriteAllowed("legacy")))
    /\ UNCHANGED scenario
HistorySpec == HistoryInit /\ [][HistoryNext]_<<vars, scenario, overwritten, abandoned>> /\ Fairness

(* A deleted document is not in the classic graph afterwards, however its
   deletion interleaves with the job.  Between processes, where a row loaded
   before a cancellation may be saved after it, the guards around the upsert
   keep it out as long as no cancellation was overwritten or dropped.  An engine
   that fails between the upsert and the end of its removal, when it may not
   write any more, leaves what it wrote (README, P8). *)
GraphGone ==
    Quiet /\ Deleted /\ (Distributed => ~overwritten) /\ ~abandoned => ~graph
=============================================================================
