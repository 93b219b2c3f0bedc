-------------------------------- MODULE BatchQA --------------------------------
(***************************************************************************)
(* A batch of questions of the workspace (backend/services/qa_service.py). *)
(* The batch is one row that every actor loads and saves as a whole: a     *)
(* background thread answers all questions in turn, or, where there can be *)
(* no thread, every poll for the result answers one; a cancellation writes *)
(* the row beside them.  A question is asked between a load and a save.    *)
(*                                                                         *)
(* Whether an answer is an error is left out: both are appended.  The names *)
(* here differ from those of PublicBatch, so that one module can hold the  *)
(* proofs about both.                                                      *)
(***************************************************************************)
EXTENDS Naturals, Sequences

CONSTANTS Size,     \* questions of the batch
          Threads,  \* concurrent polls of the result; the first thread of a batch
          MaxCrashes

ASSUME BatchQAAssumption ==
    /\ Size \in Nat \ {0}
    /\ MaxCrashes \in Nat

Questions == 1..Size

VARIABLES inline,   \* _use_background_batch_worker() is false
          row,      \* the saved batch
          run,      \* where each run of _process_batch_items is
          meta,     \* the copy it works with
          answered, \* it has answered the one question of a poll
          put,      \* the questions that were put to run_query
          stopper, snapshot, \* cancel_batch and its copy
          crashes

batchVars == <<inline, row, run, meta, answered, put, stopper, snapshot, crashes>>

BatchOver == {"done", "cancelled"}
Rows == [status : {"submitted", "running"} \cup BatchOver, cancel : BOOLEAN,
         next : 0..Size, results : UNION {[1..n -> Questions] : n \in 0..Size}]

(* start_batch, which starts the thread unless polls do its work. *)
BatchInit ==
    /\ inline \in BOOLEAN
    /\ row = [status |-> "submitted", cancel |-> FALSE, next |-> 0, results |-> <<>>]
    /\ run \in [Threads -> {"idle", "load"}]
    /\ {run[p] : p \in Threads} = {"idle"} <=> inline
    /\ \A p, q \in Threads : run[p] = "load" /\ run[q] = "load" => p = q
    /\ meta = [p \in Threads |-> row]
    /\ answered = [p \in Threads |-> FALSE]
    /\ put = {}
    /\ stopper = "idle" /\ snapshot = row
    /\ crashes = 0

-----------------------------------------------------------------------------
Step(p, from, to) == run[p] = from /\ run' = [run EXCEPT ![p] = to]
Copy(p, m) == meta' = [meta EXCEPT ![p] = m]
others == <<inline, stopper, snapshot, crashes>>

(* get_batch_result, where it is more than a read. *)
PollResult(p) ==
    /\ inline /\ row.status \notin BatchOver
    /\ Step(p, "idle", "load")
    /\ answered' = [answered EXCEPT ![p] = FALSE]
    /\ UNCHANGED <<row, meta, put, others>>

(* _process_batch_items: a batch that is over is left alone; a requested
   cancellation is carried out; else the loaded row is saved as running. *)
Load(p) ==
    /\ \/ row.status \in BatchOver /\ Step(p, "load", "idle") /\ UNCHANGED meta
       \/ /\ row.status \notin BatchOver /\ row.cancel
          /\ Step(p, "load", "save cancelled")
          /\ Copy(p, [row EXCEPT !.status = "cancelled"])
       \/ /\ row.status \notin BatchOver /\ ~row.cancel
          /\ Step(p, "load", "begin")
          /\ Copy(p, [row EXCEPT !.status = "running"])
    /\ UNCHANGED <<row, answered, put, others>>

BeginRun(p) ==
    /\ Step(p, "begin", "loop")
    /\ row' = meta[p]
    /\ UNCHANGED <<meta, answered, put, others>>

(* The head of the loop.  The copy becomes the latest row, which another poll
   may have brought to its end: the question asked for is then out of range,
   and the poll fails. *)
Leave(p) ==
    /\ \/ meta[p].next >= Size /\ Step(p, "loop", "finish")
       \/ meta[p].next < Size /\ inline /\ answered[p] /\ Step(p, "loop", "idle")
    /\ UNCHANGED <<row, meta, answered, put, others>>

Continues(p) == meta[p].next < Size /\ ~(inline /\ answered[p])

(* Variant: the position of this run is kept beside the latest answers. *)
CheckKeepingNext(p) ==
    /\ Continues(p)
    /\ \/ /\ row.cancel \/ row.status = "cancelled"
          /\ Step(p, "loop", "save cancelled")
          /\ Copy(p, [row EXCEPT !.next = meta[p].next, !.status = "cancelled", !.cancel = TRUE])
       \/ /\ ~row.cancel /\ row.status # "cancelled"
          /\ Step(p, "loop", "ask")
          /\ Copy(p, [row EXCEPT !.next = meta[p].next])
    /\ UNCHANGED <<row, answered, put, others>>

CheckRow(p) ==
    /\ Continues(p)
    /\ \/ /\ row.cancel \/ row.status = "cancelled"
          /\ Step(p, "loop", "save cancelled")
          /\ Copy(p, [row EXCEPT !.next = meta[p].next, !.status = "cancelled", !.cancel = TRUE])
       \/ /\ ~row.cancel /\ row.status # "cancelled"
          /\ Step(p, "loop", IF row.next < Size THEN "ask" ELSE "idle")
          /\ Copy(p, row)
    /\ UNCHANGED <<row, answered, put, others>>

(* _append_batch_result and what follows it: one question, one answer. *)
WithAnswer(m) == [m EXCEPT !.results = Append(@, m.next + 1), !.next = @ + 1, !.status = "running"]
AskNext(p) ==
    /\ Step(p, "ask", "save")
    /\ put' = put \cup {meta[p].next + 1}
    /\ Copy(p, WithAnswer(meta[p]))
    /\ answered' = [answered EXCEPT ![p] = TRUE]
    /\ UNCHANGED <<row, others>>

(* Variant: the row is saved, the copy not advanced. *)
SaveAndReload(p) ==
    /\ Step(p, "save", "load")
    /\ UNCHANGED <<row, meta, answered, put, others>>

Save(p) ==
    /\ Step(p, "save", "loop")
    /\ row' = meta[p]
    /\ UNCHANGED <<meta, answered, put, others>>

Finish(p) ==
    /\ Step(p, "finish", "idle")
    /\ row' = [meta[p] EXCEPT !.status = "done"]
    /\ UNCHANGED <<meta, answered, put, others>>

SaveCancelled(p) ==
    /\ Step(p, "save cancelled", "idle")
    /\ row' = [meta[p] EXCEPT !.status = "cancelled", !.cancel = TRUE]
    /\ UNCHANGED <<meta, answered, put, others>>

(* cancel_batch. *)
ReadCancel ==
    /\ stopper = "idle"
    /\ snapshot' = row
    /\ stopper' = IF row.status \in BatchOver THEN "over" ELSE "write"
    /\ UNCHANGED <<inline, row, run, meta, answered, put, crashes>>

WriteCancel ==
    /\ stopper = "write" /\ stopper' = "over"
    /\ row' = [snapshot EXCEPT !.status = "cancelled", !.cancel = TRUE]
    /\ UNCHANGED <<inline, run, meta, answered, put, snapshot, crashes>>

(* The process stops: a poll is repeated by its client, a thread is gone. *)
Crash(p) ==
    /\ crashes < MaxCrashes /\ crashes' = crashes + 1
    /\ run[p] # "idle" /\ run' = [run EXCEPT ![p] = "idle"]
    /\ UNCHANGED <<inline, row, meta, answered, put, stopper, snapshot>>

Process(p) ==
    \/ Load(p) \/ BeginRun(p) \/ Leave(p) \/ CheckRow(p) \/ AskNext(p) \/ Save(p) \/ Finish(p)
    \/ SaveCancelled(p)

BatchNext ==
    \/ \E p \in Threads : PollResult(p) \/ Process(p) \/ Crash(p)
    \/ ReadCancel \/ WriteCancel

BatchSpec == BatchInit /\ [][BatchNext]_batchVars

(* Every call goes on, and a page that shows the batch keeps polling. *)
FairBatchSpec ==
    /\ BatchSpec /\ WF_batchVars(WriteCancel)
    /\ \A p \in Threads : WF_batchVars(PollResult(p) \/ Process(p))

-----------------------------------------------------------------------------
BatchTypeOK ==
    /\ inline \in BOOLEAN
    /\ row \in Rows /\ snapshot \in Rows /\ meta \in [Threads -> Rows]
    /\ run \in [Threads -> {"idle", "load", "begin", "loop", "ask", "save", "finish",
                           "save cancelled"}]
    /\ answered \in [Threads -> BOOLEAN]
    /\ put \subseteq Questions
    /\ stopper \in {"idle", "write", "over"}
    /\ crashes \in 0..MaxCrashes

(* However polls overwrite each other's rows, the answers of a saved batch are
   those of its first questions, each once and in order, and a batch that is
   shown as done has them all. *)
AnswersInOrder ==
    /\ row.results = [i \in 1..Len(row.results) |-> i]
    /\ row.status # "cancelled" => Len(row.results) = row.next
    /\ row.status = "done" => Len(row.results) = Size

(* The background thread asks no question twice, also when a cancellation
   writes an older row over its progress. *)
ThreadAsksOnce ==
    \A p \in Threads : ~inline /\ run[p] = "ask" => meta[p].next + 1 \notin put

(* Whatever polls, threads and cancellations overwrite, the batch goes through
   its questions in order. *)
BatchIsOrderly == BatchTypeOK /\ AnswersInOrder /\ ThreadAsksOnce

(* The batch comes to its end if its polls come to be one at a time, whatever
   they did to each other before, and in a thread unless its process stops. *)
OneAtATime == \A p, q \in Threads : run[p] # "idle" /\ run[q] # "idle" => p = q
BatchSettles ==
    <>[]OneAtATime => <>(row.status \in BatchOver \/ (~inline /\ crashes > 0))
=============================================================================
