------------------------------- MODULE Backfill -------------------------------
(***************************************************************************)
(* The backfill of a release: workers put every document that only the     *)
(* classic engine has indexed into the queue of the LightRAG engine, batch *)
(* after batch, behind one maintenance lock, and keep what they have done  *)
(* in a row of the job table that the health page reads.                   *)
(* (backend/scripts/lightrag_backfill_worker.py, lightrag_backfill.py,     *)
(* worker.py, services/indexing_service.start_indexing, routers/system.py) *)
(*                                                                         *)
(* The switch, its acknowledgement, LIGHTRAG_ENABLED and a durable queue   *)
(* are given; LIGHTRAG_BACKFILL_FORCE is not.  All documents are indexed   *)
(* by the classic engine when the release starts.  An index job is taken   *)
(* from the queue and run in one step here: IndexPipeline and IndexWorker  *)
(* are about what happens in it.                                           *)
(***************************************************************************)
EXTENDS Integers, Sequences, FiniteSets

CONSTANTS Listed,    \* the documents in the order list_documents has them
          Workers,   \* replicas of the worker
          BatchSize, \* LIGHTRAG_BACKFILL_BATCH_SIZE
          Deletable, \* bound: documents that are deleted meanwhile
          MaxFaults  \* bound: calls that fail, and replicas that stop

Places == 1..Len(Listed)
Docs == {Listed[i] : i \in Places}

ASSUME BackfillAssumption ==
    /\ Listed \in Seq(Docs) /\ \A i, k \in Places : Listed[i] = Listed[k] => i = k
    /\ IsFiniteSet(Workers) /\ BatchSize \in Nat \ {0}
    /\ MaxFaults \in Nat

VARIABLES includeFailed, \* LIGHTRAG_BACKFILL_INCLUDE_FAILED
          index,         \* the LightRAG status in the row of each document
          saved, queued, \* how many live jobs of each document only their row
                         \* knows, and how many the queue holds too
          maint,         \* the maintenance row: its status, and if it counts failures
          lock,          \* the maintenance lock is taken
          pc, seen,      \* what each worker does next; the count it read before
          plan, failed, more, \* what is left of its batch (places in the list), and what it found
          faults,
          stopped,       \* documents with a job that was saved and then left
          overlap        \* the lock has expired under a worker

docVars == <<index, saved, queued>>
workerVars == <<pc, seen, plan, failed, more>>
ghosts == <<stopped, overlap>>
vars == <<includeFailed, docVars, maint, lock, workerVars, faults, ghosts>>

Init ==
    /\ includeFailed \in BOOLEAN
    /\ index = [d \in Docs |-> "missing"]
    /\ saved = [d \in Docs |-> 0] /\ queued = [d \in Docs |-> 0]
    /\ maint = [status |-> "none", failures |-> FALSE]
    /\ lock = FALSE
    /\ pc = [w \in Workers |-> "idle"]
    /\ seen = [w \in Workers |-> FALSE]
    /\ plan = [w \in Workers |-> {}]
    /\ failed = [w \in Workers |-> FALSE]
    /\ more = [w \in Workers |-> FALSE]
    /\ faults = 0
    /\ stopped = {} /\ overlap = FALSE

-----------------------------------------------------------------------------
Goto(w, step) == pc' = [pc EXCEPT ![w] = step]
Forget(w) ==
    /\ seen' = [seen EXCEPT ![w] = FALSE] /\ failed' = [failed EXCEPT ![w] = FALSE]
    /\ more' = [more EXCEPT ![w] = FALSE] /\ plan' = [plan EXCEPT ![w] = {}]
Fault == faults < MaxFaults /\ faults' = faults + 1
Jobs(d) == saved[d] + queued[d]
Least(S) == CHOOSE i \in S : \A k \in S : i <= k
Current(w) == Listed[Least(plan[w])]
Saving(d) == {w \in Workers : pc[w] \in {"row", "push", "undo"} /\ Current(w) = d}
Underway(d) == Saving(d) # {}
InRound(w) == pc[w] \notin {"idle", "lock"}

(* run_startup_backfill reads the row of the release, then asks for the lock.
   The variant leaves a round alone that somebody seems to be running. *)
CheckQuiet(w) ==
    /\ pc[w] = "idle" /\ maint.status \notin {"done", "running"}
    /\ Goto(w, "lock") /\ seen' = [seen EXCEPT ![w] = maint.failures]
    /\ UNCHANGED <<includeFailed, docVars, maint, lock, plan, failed, more, faults, ghosts>>
Check(w) ==
    /\ pc[w] = "idle" /\ maint.status # "done"
    /\ Goto(w, "lock") /\ seen' = [seen EXCEPT ![w] = maint.failures]
    /\ UNCHANGED <<includeFailed, docVars, maint, lock, plan, failed, more, faults, ghosts>>

(* SET NX EX; the token is the name of the release, the same for every worker.
   The variant goes on without the lock. *)
EnterAnyway(w) ==
    /\ pc[w] = "lock" /\ lock' = TRUE /\ Goto(w, "scan")
    /\ UNCHANGED <<includeFailed, docVars, maint, seen, plan, failed, more, faults, ghosts>>
Enter(w) ==
    /\ pc[w] = "lock" /\ lock' = TRUE
    /\ Goto(w, IF lock THEN "idle" ELSE "scan")
    /\ seen' = [seen EXCEPT ![w] = @ /\ ~lock]
    /\ UNCHANGED <<includeFailed, docVars, maint, plan, failed, more, faults, ghosts>>

(* Nobody renews the lock.  Bound: it expires once in the middle of a round. *)
LockExpires ==
    /\ lock /\ lock' = FALSE
    /\ overlap => ~\E w \in Workers : InRound(w)
    /\ overlap' = (overlap \/ \E w \in Workers : InRound(w))
    /\ UNCHANGED <<includeFailed, docVars, maint, workerVars, faults, stopped>>

(* select_document, and the batch that is planned of what it selects. *)
Selected ==
    {i \in Places : index[Listed[i]] = "missing" \/ (index[Listed[i]] = "failed" /\ includeFailed)}
Batch == {i \in Selected : Cardinality({k \in Selected : k < i}) < BatchSize}
Scan(w) ==
    /\ pc[w] = "scan" /\ Goto(w, "start")
    /\ maint' = [status |-> "running", failures |-> seen[w]]
    /\ plan' = [plan EXCEPT ![w] = Batch]
    /\ more' = [more EXCEPT ![w] = Cardinality(Selected) > BatchSize]
    /\ UNCHANGED <<includeFailed, docVars, lock, seen, failed, faults, ghosts>>

(* start_indexing for the next document of the batch: a live parent job of the
   document is returned in place of a new one. *)
Finished(w, failure) ==
    /\ Goto(w, "start") /\ plan' = [plan EXCEPT ![w] = @ \ {Least(@)}]
    /\ failed' = [failed EXCEPT ![w] = @ \/ failure]
Start(w) ==
    /\ pc[w] = "start" /\ plan[w] # {}
    /\ IF index[Current(w)] = "gone" THEN Finished(w, TRUE)
       ELSE IF Jobs(Current(w)) > 0 THEN Finished(w, FALSE)
       ELSE Goto(w, "save") /\ UNCHANGED <<plan, failed>>
    /\ UNCHANGED <<includeFailed, docVars, maint, lock, seen, more, faults, ghosts>>
SaveJob(w) ==
    /\ pc[w] = "save" /\ Goto(w, "row")
    /\ saved' = [saved EXCEPT ![Current(w)] = @ + 1]
    /\ UNCHANGED <<includeFailed, index, queued, maint, lock, seen, plan, failed, more, faults, ghosts>>
SetIndex(d, status) == index' = IF index[d] = "gone" THEN index ELSE [index EXCEPT ![d] = status]
SaveRow(w) ==
    /\ pc[w] = "row" /\ Goto(w, "push") /\ SetIndex(Current(w), "indexing")
    /\ UNCHANGED <<includeFailed, saved, queued, maint, lock, seen, plan, failed, more, faults, ghosts>>

(* A deletion has taken back the job meanwhile, or else it is queued. *)
Push(w) ==
    /\ pc[w] = "push" /\ Finished(w, FALSE)
    /\ LET d == Current(w)  n == IF saved[d] > 0 THEN 1 ELSE 0
       IN  saved' = [saved EXCEPT ![d] = @ - n] /\ queued' = [queued EXCEPT ![d] = @ + n]
    /\ UNCHANGED <<includeFailed, index, maint, lock, seen, more, faults, ghosts>>

(* The receipt is not queued; the job and the row are made terminal.  Where only
   the answer was lost a consumer drops the receipt of the terminal job. *)
PushFails(w) ==
    /\ pc[w] = "push" /\ Fault /\ Goto(w, "undo")
    /\ UNCHANGED <<includeFailed, docVars, maint, lock, seen, plan, failed, more, ghosts>>
Undo(w) ==
    /\ pc[w] = "undo" /\ Finished(w, TRUE) /\ SetIndex(Current(w), "failed")
    /\ saved' = [saved EXCEPT ![Current(w)] = IF @ > 0 THEN @ - 1 ELSE 0]
    /\ UNCHANGED <<includeFailed, queued, maint, lock, seen, more, faults, ghosts>>

(* A store fails under start_indexing; what it has saved before stays. *)
StartFails(w) ==
    /\ \/ pc[w] = "start" /\ plan[w] # {} /\ UNCHANGED stopped
       \/ pc[w] = "save" /\ UNCHANGED stopped
       \/ pc[w] = "row" /\ stopped' = stopped \cup {Current(w)}
    /\ Fault /\ Finished(w, TRUE)
    /\ UNCHANGED <<includeFailed, docVars, maint, lock, seen, more, overlap>>

(* The lock is given back, whoever's it is by now, unless the call fails. *)
Leave(w) ==
    /\ Goto(w, "idle") /\ Forget(w)
    /\ \/ lock' = FALSE /\ UNCHANGED faults
       \/ UNCHANGED lock /\ Fault

(* The verdict of a round.  The variant forgets that there may be more. *)
Quick(w) == IF failed[w] THEN "failed" ELSE "done"
Verdict(w) == IF failed[w] THEN "failed" ELSE IF more[w] THEN "pending" ELSE "done"
Report(w) ==
    /\ pc[w] = "start" /\ plan[w] = {} /\ Leave(w)
    /\ maint' = [status |-> Verdict(w), failures |-> failed[w]]
    /\ UNCHANGED <<includeFailed, docVars, ghosts>>

(* A store fails under the round itself; the row is marked if it can be. *)
RoundFails(w) ==
    /\ Fault /\ lock' = FALSE /\ Goto(w, "idle") /\ Forget(w)
    /\ \/ /\ pc[w] = "scan" \/ (pc[w] = "start" /\ plan[w] = {})
          /\ maint' \in {maint, [status |-> "failed", failures |-> seen[w]]}
       \/ pc[w] = "scan" /\ maint' = [status |-> "running", failures |-> seen[w]]
    /\ UNCHANGED <<includeFailed, docVars, ghosts>>

-----------------------------------------------------------------------------
(* The rest of the system *)

(* A replica stops and is started again; outside of a round it loses nothing. *)
Crash(w) ==
    /\ InRound(w) /\ Fault
    /\ Goto(w, "idle")
    /\ stopped' = IF pc[w] \in {"row", "push", "undo"} THEN stopped \cup {Current(w)} ELSE stopped
    /\ Forget(w)
    /\ UNCHANGED <<includeFailed, docVars, maint, lock, overlap>>

(* run_forever serves the queue between its rounds. *)
Serve(w) ==
    /\ pc[w] = "idle"
    /\ \E d \in Docs :
        /\ queued[d] > 0 /\ queued' = [queued EXCEPT ![d] = @ - 1]
        /\ \/ SetIndex(d, "done") /\ UNCHANGED faults
           \/ SetIndex(d, "failed") /\ Fault
    /\ UNCHANGED <<includeFailed, saved, maint, lock, workerVars, ghosts>>

Delete(d) ==
    /\ d \in Deletable /\ index[d] # "gone" /\ index' = [index EXCEPT ![d] = "gone"]
    /\ saved' = [saved EXCEPT ![d] = 0] /\ queued' = [queued EXCEPT ![d] = 0]
    /\ UNCHANGED <<includeFailed, maint, lock, workerVars, faults, ghosts>>

Step(w) ==
    \/ Enter(w) \/ Scan(w) \/ Start(w) \/ SaveJob(w) \/ SaveRow(w) \/ Push(w)
    \/ Undo(w) \/ Report(w) \/ Check(w)
Next ==
    \/ \E w \in Workers :
        Step(w) \/ Serve(w) \/ PushFails(w) \/ StartFails(w) \/ RoundFails(w) \/ Crash(w)
    \/ LockExpires
    \/ \E d \in Docs : Delete(d)

Spec == Init /\ [][Next]_vars

(* A worker goes on with its round and checks again after its interval; the
   queue is served again and again in between; a lock lasts its time. *)
FairSpec ==
    /\ Spec /\ WF_vars(LockExpires)
    /\ \A w \in Workers : WF_vars(Step(w))
    /\ SF_vars(\E w \in Workers : Serve(w))

-----------------------------------------------------------------------------
(* _lightrag_backfill_component: what the health page says. *)
CardFails == maint.status = "failed" \/ maint.failures \/ \E d \in Docs : index[d] = "failed"
Card == IF CardFails THEN "failed" ELSE maint.status

(* A release that the health page calls done has left no document behind: each
   is indexed, in the queue, about to be put there by a worker that still runs,
   or deleted, unless its start was cut short after its job was saved. *)
CardIsTrue ==
    Card = "done" =>
        \A d \in Docs : index[d] \in {"done", "gone"} \/ queued[d] > 0 \/ Underway(d) \/ d \in stopped

(* What a worker has in hand is in its batch. *)
TypeOK ==
    /\ index \in [Docs -> {"missing", "indexing", "done", "failed", "gone"}]
    /\ saved \in [Docs -> Nat] /\ queued \in [Docs -> Nat]
    /\ maint \in [status : {"none", "running", "pending", "failed", "done"}, failures : BOOLEAN]
    /\ lock \in BOOLEAN /\ faults \in 0..MaxFaults
    /\ \A w \in Workers :
        /\ pc[w] \in {"idle", "lock", "scan", "start", "save", "row", "push", "undo"}
        /\ plan[w] \subseteq Places /\ Cardinality(plan[w]) <= BatchSize
        /\ pc[w] \in {"save", "row", "push", "undo"} => plan[w] # {}

(* No document has two jobs, as long as no lock expires under its holder. *)
OneJobEach == overlap \/ \A d \in Docs : Jobs(d) <= 1
JobsAreSound == TypeOK /\ OneJobEach

(* Every document comes to an index or to a failure that is shown, or to a stop
   where its start was cut short, and the release is called done; though not
   for good where two replicas keep finding a round of each other, and not where
   the starts that were cut short fill a batch. *)
BackfillEnds ==
    \/ <>(Cardinality(stopped) >= BatchSize)
    \/ /\ <>[](\A d \in Docs : index[d] \in {"done", "failed", "gone"} \/ d \in stopped)
       /\ []<>(maint.status = "done")

-----------------------------------------------------------------------------
(* A statement of a comment that the code does not keep.  It is not checked: a
   run with it ends in the trace README.md tells.  "A failure keeps the state
   retryable": a document that could not be queued is tried again. *)
DoneMeansQueued == maint.status = "done" => \A d \in Docs : index[d] # "failed"
=============================================================================
