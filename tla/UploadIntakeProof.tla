--------------------------- MODULE UploadIntakeProof ---------------------------
(***************************************************************************)
(* Three safety properties of UploadIntake, for every number of callbacks, *)
(* starts by hand and faults: rows have their types and no live job is     *)
(* forgotten; a document at rest says what its job says; a deletion leaves *)
(* no pages.                                                               *)
(*                                                                         *)
(* Each has an inductive invariant of its own, which says where the next   *)
(* step for a job, or for the pages, will come from:                       *)
(*   Sound      a live job is still to be queued, queued, or being run;    *)
(*   Emptied    who still has to take the pages away while a deletion is   *)
(*              under way (it rests on Cautious, what was so before);      *)
(*   Consistent a row that differs from its job has somebody under way who *)
(*              will write it.                                             *)
(***************************************************************************)
EXTENDS UploadIntake, FiniteSetTheorems, TLAPS

(* Where each of them can be. *)
StarterSteps == {"idle", "find", "register", "getDoc", "loadKeyed", "list", "save", "mark",
                 "markSave", "enqueue", "refused", "engine", "engineSave", "undo", "undoSave",
                 "redo", "redoSave", "end"}
Running == {"load", "begin", "beginSave", "insert", "check", "report", "reportSave", "finish"}
WorkerSteps == Running \cup {"idle", "cancel", "cancelSave", "fail", "failSave", "ack"}
ApiSteps == {"idle", "stop jobs", "schedule", "blob", "jobs", "row", "erase", "end"}
Steps == StarterSteps \cup WorkerSteps \cup ApiSteps

Placed ==
    /\ pc \in [Actors -> Steps] /\ doc \in [Actors -> Rows \cup {None}]
    /\ \A s \in Starters : pc[s] \in StarterSteps
    /\ pc["worker"] \in WorkerSteps /\ pc["api"] \in ApiSteps

(* The steps between the reading of a row and its saving, or its last use. *)
Holding == {"stop jobs", "schedule", "markSave", "undoSave", "redoSave", "beginSave",
            "reportSave", "cancelSave", "failSave"}
Fits == \A a \in Actors : IF pc[a] \in Holding THEN doc[a] \in Rows ELSE doc[a] = None

Stored ==
    /\ uploader \in Owners
    /\ blob \in BOOLEAN /\ claimed \in BOOLEAN
    /\ row \in Rows \cup {None}
    /\ jobs \in [JobIds -> {"none"} \cup Live \cup Terminal]
    /\ copy \in [Starters -> {"none", None} \cup Live \cup Terminal]
    /\ \A s \in Starters : pc[s] = "engineSave" => copy[s] \in {"none"} \cup Live \cup Terminal
    /\ pages \subseteq Owners /\ deletions \subseteq Owners
    /\ faults \in 0..MaxFaults

WorkerHolds ==
    /\ IF pc["worker"] = "idle" THEN work = None ELSE work \in JobIds
    /\ tenant \in Owners \cup {None}
    /\ pc["worker"] \in {"begin", "beginSave", "insert", "check"} => tenant \in Owners

(* Every receipt was pushed by a start that does not push again. *)
Pushed == Undoing \cup {"end"}
Ended(j) == {s \in Starters : ParentOf(s) = j /\ pc[s] \in Pushed}
QueueBound ==
    /\ queue \in [JobIds -> Nat]
    /\ \A j \in JobIds : queue[j] <= Cardinality(Ended(j))

(* A live job that the worker has, or had, in hand: it will still say how the
   job ended, or somebody queues it once more. *)
Sent(j) ==
    \/ queue[j] > 0
    \/ \E s \in Starters : ParentOf(s) = j /\ pc[s] \in {"mark", "markSave", "enqueue", "refused"}
    \/ j \in crashed \cup stale
Followed ==
    \A j \in JobIds : jobs[j] \in Live => Sent(j) \/ (work = j /\ pc["worker"] \in Running)

Typed == Placed /\ Fits /\ Stored /\ WorkerHolds /\ QueueBound
Sound == Typed /\ Followed

-----------------------------------------------------------------------------
(* Until the document is claimed, everything is the uploader's. *)
Owned ==
    ~claimed =>
        /\ row # None => row.owner = uploader
        /\ \A a \in Actors : doc[a] # None => doc[a].owner = uploader
        /\ pages \subseteq {uploader} /\ deletions \subseteq {uploader}
        /\ tenant \in {None, uploader}

(* Nothing has come to the worker yet, and nothing is on its way. *)
Untouched == pages = {} /\ pc["worker"] = "idle" /\ \A j \in JobIds : queue[j] = 0

(* Before any deletion a document is marked before its job is queued, and
   nothing is cancelled. *)
Careful ==
    /\ deletions = {} /\ pc["worker"] \notin {"cancel", "cancelSave"}
    /\ \A j \in JobIds : jobs[j] # "cancelled"
    /\ \A s \in Starters : pc[s] = "engineSave" => copy[s] # "cancelled"
    /\ row = None => /\ Untouched
                     /\ \A s \in Starters : pc[s] \in {"idle", "find", "register", "end"}
    /\ row # None => /\ row.index # "cancelled"
                     /\ row.index = "pending" =>
                            Untouched /\ \A s \in Starters : pc[s] # "enqueue"
Cautious == ~Deleted /\ ~reset => Careful

(* While a deletion is under way, and after it, no receipt brings new pages, and
   the pages that are there have their deletion scheduled or still to be. *)
NoMoreWork ==
    \A j \in JobIds :
        jobs[j] \in Live => queue[j] = 0 \/ (work = j /\ pc["worker"] \in Running)
Emptying ==
    /\ \A s \in Starters : pc[s] \in {"idle", "end"}
    /\ pc["api"] \in {"stop jobs", "schedule"} => MayBeIndexed(doc["api"]) \/ Untouched
    /\ pc["api"] # "stop jobs" => NoMoreWork
    /\ pc["api"] \notin {"stop jobs", "schedule"} =>
           deletions # {} \/ (pages = {} /\ pc["worker"] = "idle")
Emptied == Deleted /\ ~crossed /\ ~reset /\ ~claimed => Emptying

Deletion == Owned /\ Cautious /\ Emptied

-----------------------------------------------------------------------------
(* One start owns a job, from the row it saves to the receipt it pushes, or to
   the end of its handler. *)
Pushing == {"mark", "markSave", "enqueue"}
Again == {"redo", "redoSave"}
Undisturbed == ~Deleted /\ ~raced /\ ~reset /\ ~overtaken /\ crashed = {}

Owns(s, j) == ParentOf(s) = j /\ pc[s] \in Unsettled

OneOwner ==
    /\ \A d \in Deliveries : pc[d] \in {"list", "save"} => jobs[Keyed] = "none"
    /\ \A c \in Clicks :
        pc[c] \in StarterSteps \ (Unsettled \cup Again \cup {"end"}) => jobs[c] = "none"
    /\ \A s \in Starters : pc[s] \in Pushing => queue[ParentOf(s)] = 0
    /\ \A j \in JobIds :
        /\ jobs[j] = "none" => /\ queue[j] = 0 /\ work # j
                               /\ row # None => row.job # j
                               /\ \A s \in Starters : ~Owns(s, j)
        /\ \A s, t \in Starters : Owns(s, j) /\ Owns(t, j) => s = t
        /\ (\E s \in Starters : Owns(s, j)) => work # j
        /\ queue[j] \in {0, 1} /\ (queue[j] = 1 => work # j)

(* While a start has a job in hand no other job is live, and none was when it
   decided to save one. *)
Alone ==
    \A s \in Starters :
        /\ pc[s] = "save" => \A j \in JobIds : jobs[j] \notin Live
        /\ pc[s] \in Unsettled \cup Again =>
               /\ \A t \in Starters \ {s} : pc[t] \notin Unsettled \cup Again
               /\ \A j \in JobIds \ {ParentOf(s)} : jobs[j] \notin Live

(* What the row of the job says at each of its stages. *)
Staged ==
    /\ \A s \in Starters :
        /\ pc[s] \in {"mark", "markSave", "enqueue", "refused"} => jobs[ParentOf(s)] = "queued"
        /\ pc[s] \in {"mark", "markSave"} /\ row # None => row.job # ParentOf(s)
        /\ pc[s] \in {"engine", "engineSave", "undo", "undoSave", "redo", "redoSave"} =>
               jobs[ParentOf(s)] = "failed"
        /\ pc[s] = "engineSave" => copy[s] = "failed"
    /\ \A j \in JobIds : queue[j] = 1 => jobs[j] \in {"queued", "failed"}
    /\ pc["worker"] = "load" => jobs[work] = "queued"
    /\ pc["worker"] \in Running \ {"load"} => jobs[work] = "running"
    /\ pc["worker"] \in {"fail", "failSave"} => jobs[work] = "failed"
    /\ pc["worker"] = "ack" => jobs[work] \in {"done", "failed"}

(* The row says what its job says, or somebody is under way who writes it; the
   second marking of a handler writes what the row says already. *)
UnderWay(j) ==
    \/ \E s \in Starters : Owns(s, j)
    \/ queue[j] = 1 /\ jobs[j] = "queued"
    \/ work = j /\ pc["worker"] \notin {"finish", "ack"}
Shown ==
    row # None /\ row.job # None =>
        LET j == row.job IN
        IF UnderWay(j) THEN row.index = "indexing"
        ELSE IF work = j /\ pc["worker"] = "finish" THEN row.index = "done"
        ELSE row.index = jobs[j]
Remarked ==
    \A s \in Starters :
        /\ pc[s] = "redo" /\ row # None => row.index = "failed"
        /\ pc[s] = "redoSave" /\ doc[s].job # None =>
               jobs[doc[s].job] = "failed" /\ ~UnderWay(doc[s].job)

HasPages ==
    /\ row # None /\ row.index = "done" => pages # {}
    /\ pc["worker"] \in {"check", "report", "reportSave", "finish"} => pages # {}

Steady == OneOwner /\ Alone /\ Staged /\ Shown /\ Remarked /\ HasPages
Consistent == Undisturbed => Steady

-----------------------------------------------------------------------------
(* Rows, and the movement of one actor. *)

LEMMA RowFields == ASSUME NEW r \in Rows
    PROVE /\ r.owner \in Owners /\ r.job \in JobIds \cup {None}
          /\ r.index \in {"pending", "indexing"} \cup Terminal
          /\ r # None
  BY NoRow DEF Rows

LEMMA RowClaimed ==
    ASSUME NEW r \in Rows
    PROVE LET mine == [r EXCEPT !.owner = "account"]
          IN  mine \in Rows /\ mine.index = r.index /\ mine.job = r.job
  BY DEF Rows, Owners

LEMMA RowCancelled ==
    ASSUME NEW r \in Rows
    PROVE LET off == [r EXCEPT !.index = "cancelled"]
          IN  off \in Rows /\ off.owner = r.owner /\ off.index = "cancelled" /\ off.job = r.job
  BY DEF Rows, Terminal

LEMMA RowFresh ==
    ASSUME uploader \in Owners
    PROVE /\ Fresh \in Rows /\ Fresh.owner = uploader /\ Fresh.job = None
          /\ Fresh.index = "pending"
  BY DEF Fresh, Rows

LEMMA StarterIsNoOther == ASSUME NEW s \in Starters PROVE s \in Actors /\ s # "worker" /\ s # "api"
  BY IntakeAssumption DEF Starters, Actors

LEMMA ParentIsJob == ASSUME NEW s \in Starters PROVE ParentOf(s) \in JobIds
  BY DEF ParentOf, Starters, JobIds

LEMMA JobIsSome == ASSUME NEW j \in JobIds PROVE j # None
  BY IntakeAssumption DEF JobIds

LEMMA OthersAreActors == "worker" \in Actors /\ "api" \in Actors /\ "worker" # "api"
  BY DEF Actors

(* update_engine_index_status by any of its callers: the row is read, or is not
   there, or is saved whole with the new status and job. *)
Reads(a, from, mid) ==
    pc[a] = from /\ row \in Rows /\ row' = row
        /\ doc' = [doc EXCEPT ![a] = row] /\ pc' = [pc EXCEPT ![a] = mid]
FindsNone(a, from, to) ==
    pc[a] = from /\ row = None /\ row' = row
        /\ doc' = [doc EXCEPT ![a] = None] /\ pc' = [pc EXCEPT ![a] = to]
Writes(a, mid, status, j, to) ==
    pc[a] = mid /\ doc[a] \in Rows /\ row' \in Rows
        /\ row'.index = status /\ row'.job = j /\ row'.owner = doc[a].owner
        /\ doc' = [doc EXCEPT ![a] = None] /\ pc' = [pc EXCEPT ![a] = to]

LEMMA UpdateEffect ==
    ASSUME Fits, row \in Rows \cup {None}, NEW a \in Actors, NEW from, NEW mid \in Holding,
           NEW status \in {"pending", "indexing"} \cup Terminal, NEW j, NEW to,
           pc[a] = mid => j \in JobIds \cup {None},
           Update(a, from, mid, status, j, to)
    PROVE /\ UNCHANGED <<blob, jobs, queue, pages, deletions, work, tenant, claimed, faults,
                         copy, raced, crossed, reset, crashed, overtaken, stale>>
          /\ Reads(a, from, mid) \/ FindsNone(a, from, to) \/ Writes(a, mid, status, j, to)
<1>1. CASE pc[a] = from /\ doc' = [doc EXCEPT ![a] = row] /\ Goto(a, IF row = None THEN to ELSE mid)
           /\ UNCHANGED <<stores, copy, work, tenant, claimed, faults, ghosts>>
  BY <1>1 DEF Goto, stores, ghosts, undoings, Reads, FindsNone
<1>2. CASE /\ pc[a] = mid
           /\ row' = [doc[a] EXCEPT !.index = status, !.job = j]
           /\ doc' = [doc EXCEPT ![a] = None]
           /\ Goto(a, to)
           /\ UNCHANGED <<blob, jobs, queue, pages, deletions, copy, work, tenant, claimed, faults,
                         ghosts>>
  <2>1. doc[a] \in Rows
    BY <1>2 DEF Fits
  <2>2. row' = [doc[a] EXCEPT !.index = status, !.job = j] /\ j \in JobIds \cup {None}
    BY <1>2
  <2>3. row' \in Rows /\ row'.index = status /\ row'.job = j /\ row'.owner = doc[a].owner
    BY <2>1, <2>2 DEF Rows
  <2>. QED
    BY <1>2, <2>1, <2>3 DEF Goto, ghosts, undoings, Writes
<1>. QED
  BY <1>1, <1>2 DEF Update

LEMMA WorkerIsAtJob == ASSUME WorkerHolds, pc["worker"] # "idle" PROVE work \in JobIds /\ work # None
  BY JobIsSome DEF WorkerHolds

(* The seven calls of it. *)
LEMMA StarterUpdates ==
    ASSUME Fits, row \in Rows \cup {None}, NEW s \in Starters
    PROVE LET j == ParentOf(s)
              same == UNCHANGED <<blob, jobs, queue, pages, deletions, work, tenant, claimed, faults,
                                  copy, raced, crossed, reset, crashed, overtaken, stale>>
          IN  /\ MarkIndexing(s) => /\ same
                                    /\ \/ Reads(s, "mark", "markSave") \/ FindsNone(s, "mark", "enqueue")
                                       \/ Writes(s, "markSave", "indexing", j, "enqueue")
              /\ MarkFailed(s) => /\ same
                                  /\ \/ Reads(s, "undo", "undoSave") \/ FindsNone(s, "undo", Handled(s))
                                     \/ Writes(s, "undoSave", "failed", j, Handled(s))
              /\ MarkAgain(s) => /\ same
                                 /\ \/ Reads(s, "redo", "redoSave") \/ FindsNone(s, "redo", "end")
                                    \/ Writes(s, "redoSave", "failed", doc[s].job, "end")
<1>1. s \in Actors /\ ParentOf(s) \in JobIds
  BY StarterIsNoOther, ParentIsJob
<1>2. /\ "markSave" \in Holding /\ "undoSave" \in Holding /\ "redoSave" \in Holding
      /\ {"indexing", "failed"} \subseteq {"pending", "indexing"} \cup Terminal
  BY DEF Holding, Terminal
<1>3. ASSUME MarkIndexing(s)
      PROVE /\ UNCHANGED <<blob, jobs, queue, pages, deletions, work, tenant, claimed, faults,
                           copy, raced, crossed, reset, crashed, overtaken, stale>>
            /\ \/ Reads(s, "mark", "markSave") \/ FindsNone(s, "mark", "enqueue")
               \/ Writes(s, "markSave", "indexing", ParentOf(s), "enqueue")
  BY <1>1, <1>2, <1>3, UpdateEffect DEF MarkIndexing
<1>4. ASSUME MarkFailed(s)
      PROVE /\ UNCHANGED <<blob, jobs, queue, pages, deletions, work, tenant, claimed, faults,
                           copy, raced, crossed, reset, crashed, overtaken, stale>>
            /\ \/ Reads(s, "undo", "undoSave") \/ FindsNone(s, "undo", Handled(s))
               \/ Writes(s, "undoSave", "failed", ParentOf(s), Handled(s))
  BY <1>1, <1>2, <1>4, UpdateEffect DEF MarkFailed
<1>5. ASSUME MarkAgain(s)
      PROVE /\ UNCHANGED <<blob, jobs, queue, pages, deletions, work, tenant, claimed, faults,
                           copy, raced, crossed, reset, crashed, overtaken, stale>>
            /\ \/ Reads(s, "redo", "redoSave") \/ FindsNone(s, "redo", "end")
               \/ Writes(s, "redoSave", "failed", doc[s].job, "end")
  <2>1. pc[s] = "redoSave" => doc[s].job \in JobIds \cup {None}
    BY <1>1, <1>2, RowFields DEF Fits
  <2>. QED
    BY <1>1, <1>2, <1>5, <2>1, UpdateEffect DEF MarkAgain
<1>. QED
  BY <1>3, <1>4, <1>5

(* The handlers of a push that raised, before they come to the document. *)
Handle(s) == PushRaises(s) \/ Refuse(s) \/ LoadParent(s) \/ SaveParent(s)

LEMMA HandlerSteps ==
    ASSUME Placed, Stored, NEW s \in Starters, Handle(s)
    PROVE /\ UNCHANGED <<blob, row, pages, deletions, doc, work, tenant, claimed>>
          /\ UNCHANGED <<raced, crossed, reset, crashed, overtaken>>
          /\ \A b \in Actors \ {s} : pc'[b] = pc[b]
          /\ \A j \in JobIds \ {ParentOf(s)} : jobs'[j] = jobs[j] /\ (j \in stale' <=> j \in stale)
          /\ \/ /\ pc[s] = "enqueue" /\ pc'[s] = "refused" /\ UNCHANGED <<jobs, copy, stale>>
                /\ \/ UNCHANGED queue
                   \/ queue' = [queue EXCEPT ![ParentOf(s)] = @ + 1]
             \/ /\ pc[s] = "refused" /\ UNCHANGED <<queue, copy, stale>>
                /\ \/ /\ jobs[ParentOf(s)] = "none" /\ UNCHANGED jobs
                      /\ pc'[s] \in {"redo", "end"}
                   \/ /\ jobs[ParentOf(s)] # "none" /\ jobs'[ParentOf(s)] = "failed"
                      /\ pc'[s] = "engine"
             \/ /\ pc[s] = "engine" /\ pc'[s] = "engineSave" /\ UNCHANGED <<queue, jobs, stale>>
                /\ copy'[s] = jobs[ParentOf(s)]
             \/ /\ pc[s] = "engineSave" /\ pc'[s] = "undo" /\ UNCHANGED queue
                /\ jobs'[ParentOf(s)] = copy[s]
                /\ jobs'[ParentOf(s)] = jobs[ParentOf(s)] \/ ParentOf(s) \in stale'
<1>1. s \in Actors /\ ParentOf(s) \in JobIds
  BY StarterIsNoOther, ParentIsJob
<1>. USE <1>1
<1>2. CASE PushRaises(s)
  BY <1>2 DEF PushRaises, Goto, Placed, ghosts, undoings
<1>3. CASE Refuse(s)
  BY <1>3 DEF Refuse, FailParent, SetJob, Handled, Goto, Placed, Stored, ghosts, undoings
<1>4. CASE LoadParent(s)
  BY <1>4 DEF LoadParent, Goto, Placed, Stored, stores, ghosts, undoings
<1>5. CASE SaveParent(s)
  BY <1>5 DEF SaveParent, SetJob, Goto, Placed, Stored
<1>. QED
  BY <1>2, <1>3, <1>4, <1>5 DEF Handle

LEMMA WorkerUpdates ==
    ASSUME Fits, WorkerHolds, row \in Rows \cup {None}
    PROVE LET same == UNCHANGED <<blob, jobs, queue, pages, deletions, work, tenant, claimed, faults,
                                  copy, raced, crossed, reset, crashed, overtaken, stale>>
              w == "worker"
          IN  /\ ReportIndexing => /\ same
                 /\ \/ Reads(w, "begin", "beginSave") \/ FindsNone(w, "begin", "insert")
                    \/ Writes(w, "beginSave", "indexing", work, "insert")
              /\ ReportDone => /\ same
                 /\ \/ Reads(w, "report", "reportSave") \/ FindsNone(w, "report", "finish")
                    \/ Writes(w, "reportSave", "done", work, "finish")
              /\ ReportCancelled => /\ same
                 /\ \/ Reads(w, "cancel", "cancelSave") \/ FindsNone(w, "cancel", "ack")
                    \/ Writes(w, "cancelSave", "cancelled", work, "ack")
              /\ ReportFailed => /\ same
                 /\ \/ Reads(w, "fail", "failSave") \/ FindsNone(w, "fail", "ack")
                    \/ Writes(w, "failSave", "failed", work, "ack")
<1>1. {"beginSave", "reportSave", "cancelSave", "failSave"} \subseteq Holding
      /\ {"indexing", "done", "cancelled", "failed"} \subseteq {"pending", "indexing"} \cup Terminal
  BY DEF Holding, Terminal
<1>2. ASSUME ReportIndexing
      PROVE /\ UNCHANGED <<blob, jobs, queue, pages, deletions, work, tenant, claimed, faults,
                           copy, raced, crossed, reset, crashed, overtaken, stale>>
            /\ \/ Reads("worker", "begin", "beginSave") \/ FindsNone("worker", "begin", "insert")
               \/ Writes("worker", "beginSave", "indexing", work, "insert")
  <2>1. Update("worker", "begin", "beginSave", "indexing", work, "insert")
    BY <1>2 DEF ReportIndexing
  <2>2. work \in JobIds
    BY <2>1, WorkerIsAtJob DEF Update
  <2>. QED
    BY <1>1, <2>1, <2>2, UpdateEffect, OthersAreActors
<1>3. ASSUME ReportDone
      PROVE /\ UNCHANGED <<blob, jobs, queue, pages, deletions, work, tenant, claimed, faults,
                           copy, raced, crossed, reset, crashed, overtaken, stale>>
            /\ \/ Reads("worker", "report", "reportSave") \/ FindsNone("worker", "report", "finish")
               \/ Writes("worker", "reportSave", "done", work, "finish")
  <2>1. Update("worker", "report", "reportSave", "done", work, "finish")
    BY <1>3 DEF ReportDone
  <2>2. work \in JobIds
    BY <2>1, WorkerIsAtJob DEF Update
  <2>. QED
    BY <1>1, <2>1, <2>2, UpdateEffect, OthersAreActors
<1>4. ASSUME ReportCancelled
      PROVE /\ UNCHANGED <<blob, jobs, queue, pages, deletions, work, tenant, claimed, faults,
                           copy, raced, crossed, reset, crashed, overtaken, stale>>
            /\ \/ Reads("worker", "cancel", "cancelSave") \/ FindsNone("worker", "cancel", "ack")
               \/ Writes("worker", "cancelSave", "cancelled", work, "ack")
  <2>1. Update("worker", "cancel", "cancelSave", "cancelled", work, "ack")
    BY <1>4 DEF ReportCancelled
  <2>2. work \in JobIds
    BY <2>1, WorkerIsAtJob DEF Update
  <2>. QED
    BY <1>1, <2>1, <2>2, UpdateEffect, OthersAreActors
<1>5. ASSUME ReportFailed
      PROVE /\ UNCHANGED <<blob, jobs, queue, pages, deletions, work, tenant, claimed, faults,
                           copy, raced, crossed, reset, crashed, overtaken, stale>>
            /\ \/ Reads("worker", "fail", "failSave") \/ FindsNone("worker", "fail", "ack")
               \/ Writes("worker", "failSave", "failed", work, "ack")
  <2>1. Update("worker", "fail", "failSave", "failed", work, "ack")
    BY <1>5 DEF ReportFailed
  <2>2. work \in JobIds
    BY <2>1, WorkerIsAtJob DEF Update
  <2>. QED
    BY <1>1, <2>1, <2>2, UpdateEffect, OthersAreActors
<1>. QED
  BY <1>2, <1>3, <1>4, <1>5

LEMMA UpdateElsewhere ==
    ASSUME Placed, NEW a \in Actors, NEW from, NEW mid, NEW to, NEW status, NEW j,
           Reads(a, from, mid) \/ FindsNone(a, from, to) \/ Writes(a, mid, status, j, to)
    PROVE /\ \A b \in Actors \ {a} : pc'[b] = pc[b] /\ doc'[b] = doc[b]
          /\ \/ pc[a] = from /\ row \in Rows /\ row' = row /\ pc'[a] = mid /\ doc'[a] = row
             \/ pc[a] = from /\ row = None /\ row' = row /\ pc'[a] = to /\ doc'[a] = None
             \/ /\ pc[a] = mid /\ doc[a] \in Rows /\ row' \in Rows /\ row'.owner = doc[a].owner
                /\ row'.index = status /\ row'.job = j /\ pc'[a] = to /\ doc'[a] = None
  BY DEF Placed, Reads, FindsNone, Writes

LEMMA UpdateMoves ==
    ASSUME Placed, NEW a \in Actors, NEW from, NEW mid, NEW to, NEW status, NEW j,
           Reads(a, from, mid) \/ FindsNone(a, from, to) \/ Writes(a, mid, status, j, to)
    PROVE /\ \A b \in Actors \ {a} : pc'[b] = pc[b]
          /\ \/ pc[a] = from /\ pc'[a] \in {mid, to}
             \/ pc[a] = mid /\ pc'[a] = to
  BY DEF Placed, Reads, FindsNone, Writes

LEMMA UpdateLeavesEnded ==
    ASSUME Placed, NEW a \in Actors, NEW from, NEW mid, NEW to, NEW status, NEW j,
           Reads(a, from, mid) \/ FindsNone(a, from, to) \/ Writes(a, mid, status, j, to),
           a \in Starters => {from, mid} \cap Pushed = {} \/ {mid, to} \subseteq Pushed
    PROVE \A t \in Starters : pc[t] \in Pushed => pc'[t] \in Pushed
<1>1. \A b \in Actors \ {a} : pc'[b] = pc[b]
  BY UpdateMoves
<1>0. \/ pc[a] = from /\ pc'[a] \in {mid, to}
      \/ pc[a] = mid /\ pc'[a] = to
  BY UpdateMoves
<1>2. ASSUME NEW t \in Starters, pc[t] \in Pushed, t # a PROVE pc'[t] \in Pushed
  BY <1>1, <1>2, StarterIsNoOther
<1>3. ASSUME a \in Starters, pc[a] \in Pushed PROVE pc'[a] \in Pushed
  BY <1>0, <1>3
<1>. QED
  BY <1>2, <1>3

LEMMA StoredStep ==
    ASSUME Placed, Fits, Stored, WorkerHolds, [Next]_vars PROVE Stored'
<1>0. USE DEF Live, Terminal
<1>1. ASSUME NEW d \in Deliveries, Head(d), UNCHANGED bounds PROVE Stored'
  BY <1>1, StarterIsNoOther, OthersAreActors
     DEF Head, Goto, Stored, Placed, bounds, stores, actors, ghosts, undoings
<1>2. ASSUME NEW d \in Deliveries, Find(d), UNCHANGED bounds PROVE Stored'
  BY <1>2, StarterIsNoOther, OthersAreActors
     DEF Find, Goto, Stored, Placed, bounds, stores, actors, ghosts, undoings
<1>3. ASSUME NEW d \in Deliveries, Register(d), UNCHANGED bounds PROVE Stored'
  BY <1>3, RowFresh, StarterIsNoOther, OthersAreActors
     DEF Register, Goto, Stored, Placed, bounds, stores, actors, ghosts, undoings
<1>4. ASSUME NEW d \in Deliveries, LoadKeyed(d), UNCHANGED bounds PROVE Stored'
  BY <1>4, StarterIsNoOther, OthersAreActors
     DEF LoadKeyed, Goto, Stored, Placed, bounds, stores, actors, ghosts, undoings
<1>5. ASSUME NEW c \in Clicks, Click(c), UNCHANGED bounds PROVE Stored'
  BY <1>5, StarterIsNoOther, OthersAreActors
     DEF Click, Goto, Stored, Placed, bounds, stores, actors, ghosts, undoings
<1>6. ASSUME NEW s \in Starters, GetDocument(s), UNCHANGED bounds PROVE Stored'
  BY <1>6, StarterIsNoOther, OthersAreActors
     DEF GetDocument, Goto, Stored, Placed, bounds, stores, actors, ghosts, undoings
<1>7. ASSUME NEW s \in Starters, ListJobs(s), UNCHANGED bounds PROVE Stored'
  BY <1>7, StarterIsNoOther, OthersAreActors
     DEF ListJobs, Goto, Stored, Placed, bounds, stores, actors, ghosts, undoings
<1>8. ASSUME NEW s \in Starters, SaveJob(s), UNCHANGED bounds PROVE Stored'
  BY <1>8, ParentIsJob, StarterIsNoOther, OthersAreActors
     DEF SaveJob, Goto, SetJob, NewStatus, ParentOf, Stored, Placed, bounds, stores, actors, ghosts,
            undoings
<1>9. ASSUME NEW s \in Starters, MarkIndexing(s), UNCHANGED bounds PROVE Stored'
  BY <1>9, StarterUpdates, StarterIsNoOther, OthersAreActors
     DEF Reads, FindsNone, Writes, Stored, Placed, bounds
<1>10. ASSUME NEW s \in Starters, Enqueue(s), UNCHANGED bounds PROVE Stored'
  BY <1>10, StarterIsNoOther, OthersAreActors
     DEF Enqueue, Goto, Stored, Placed, bounds, stores, actors, ghosts, undoings
<1>11. ASSUME NEW s \in Starters, Handle(s), UNCHANGED bounds PROVE Stored'
  <2>1. ParentOf(s) \in JobIds /\ s \in Starters
    BY ParentIsJob
  <2>2. CASE PushRaises(s)
    BY <1>11, <2>2, IntakeAssumption DEF PushRaises, Goto, Stored, Placed, bounds
  <2>3. CASE Refuse(s)
    BY <1>11, <2>1, <2>3
       DEF Refuse, FailParent, SetJob, Handled, Goto, Stored, Placed, bounds
  <2>4. CASE LoadParent(s)
    BY <1>11, <2>1, <2>4 DEF LoadParent, Goto, Stored, Placed, bounds, stores
  <2>5. CASE SaveParent(s)
    <3>1. copy[s] \in {"none"} \cup Live \cup Terminal
      BY <2>1, <2>5 DEF SaveParent, Stored
    <3>2. jobs' \in [JobIds -> {"none"} \cup Live \cup Terminal]
      BY <2>1, <2>5, <3>1 DEF SaveParent, SetJob, Stored
    <3>3. copy' = [copy EXCEPT ![s] = None] /\ pc' = [pc EXCEPT ![s] = "undo"]
      BY <2>5 DEF SaveParent, Goto
    <3>4. /\ copy' \in [Starters -> {"none", None} \cup Live \cup Terminal]
          /\ \A t \in Starters : pc'[t] = "engineSave" =>
                 copy'[t] \in {"none"} \cup Live \cup Terminal
      BY <2>1, <3>3, StarterIsNoOther DEF Stored, Placed
    <3>. QED
      BY <1>11, <2>5, <3>2, <3>4 DEF SaveParent, Stored, bounds
  <2>. QED
    BY <1>11, <2>2, <2>3, <2>4, <2>5 DEF Handle
<1>12. ASSUME NEW s \in Starters, MarkFailed(s), UNCHANGED bounds PROVE Stored'
  BY <1>12, StarterUpdates, StarterIsNoOther, OthersAreActors
     DEF Handled, Reads, FindsNone, Writes, Stored, Placed, bounds
<1>13. ASSUME NEW s \in Starters, Stop(s), UNCHANGED bounds PROVE Stored'
  BY <1>13, IntakeAssumption, StarterIsNoOther, OthersAreActors
     DEF Stop, Goto, Stored, Placed, bounds, stores, actors, ghosts, undoings
<1>14. ASSUME NEW j \in JobIds, Take(j), UNCHANGED bounds PROVE Stored'
  BY <1>14, StarterIsNoOther, OthersAreActors
     DEF Take, Goto, Stored, Placed, bounds, stores, actors, ghosts, undoings
<1>15. ASSUME LoadDocument, UNCHANGED bounds PROVE Stored'
  BY <1>15, WorkerIsAtJob, IntakeAssumption, StarterIsNoOther, OthersAreActors
     DEF LoadDocument, Proceed, SetJob, Goto, LightragTenant, Stored, Placed, bounds, stores,
            actors,
            ghosts, undoings
<1>16. ASSUME ReportIndexing, UNCHANGED bounds PROVE Stored'
  BY <1>16, WorkerUpdates, StarterIsNoOther, OthersAreActors
     DEF Reads, FindsNone, Writes, Stored, Placed, bounds
<1>17. ASSUME Insert, UNCHANGED bounds PROVE Stored'
  BY <1>17, StarterIsNoOther, OthersAreActors
     DEF Insert, Goto, WorkerHolds, Stored, Placed, bounds, stores, actors, ghosts, undoings
<1>18. ASSUME Check, UNCHANGED bounds PROVE Stored'
  BY <1>18, StarterIsNoOther, OthersAreActors
     DEF Check, Goto, WorkerHolds, Stored, Placed, bounds, stores, actors, ghosts, undoings
<1>19. ASSUME ReportDone, UNCHANGED bounds PROVE Stored'
  BY <1>19, WorkerUpdates, StarterIsNoOther, OthersAreActors
     DEF Reads, FindsNone, Writes, Stored, Placed, bounds
<1>20. ASSUME ReportCancelled, UNCHANGED bounds PROVE Stored'
  BY <1>20, WorkerUpdates, StarterIsNoOther, OthersAreActors
     DEF Reads, FindsNone, Writes, Stored, Placed, bounds
<1>21. ASSUME ReportFailed, UNCHANGED bounds PROVE Stored'
  BY <1>21, WorkerUpdates, StarterIsNoOther, OthersAreActors
     DEF Reads, FindsNone, Writes, Stored, Placed, bounds
<1>22. ASSUME Finish, UNCHANGED bounds PROVE Stored'
  BY <1>22, WorkerIsAtJob, StarterIsNoOther, OthersAreActors
     DEF Finish, Proceed, SetJob, Goto, Stored, Placed, bounds, stores, actors, ghosts, undoings
<1>23. ASSUME Acknowledge, UNCHANGED bounds PROVE Stored'
  BY <1>23, StarterIsNoOther, OthersAreActors
     DEF Acknowledge, Goto, Stored, Placed, bounds, stores, actors, ghosts, undoings
<1>24. ASSUME NEW t \in Owners, DeletePages(t), UNCHANGED bounds PROVE Stored'
  BY <1>24, StarterIsNoOther, OthersAreActors
     DEF DeletePages, Stored, Placed, bounds, stores, actors, ghosts, undoings
<1>25. ASSUME Claim, UNCHANGED bounds PROVE Stored'
  BY <1>25, RowClaimed, StarterIsNoOther, OthersAreActors
     DEF Claim, Stored, Placed, bounds, stores, actors, ghosts, undoings
<1>26. ASSUME ReadDocument, UNCHANGED bounds PROVE Stored'
  BY <1>26, StarterIsNoOther, OthersAreActors
     DEF ReadDocument, Goto, Stored, Placed, bounds, stores, actors, ghosts, undoings
<1>27. ASSUME Export, UNCHANGED bounds PROVE Stored'
  BY <1>27, StarterIsNoOther, OthersAreActors
     DEF Export, Goto, Stored, Placed, bounds, stores, actors, ghosts, undoings
<1>28. ASSUME CancelJobs, UNCHANGED bounds PROVE Stored'
  BY <1>28, RowCancelled, StarterIsNoOther, OthersAreActors
     DEF CancelJobs, Goto, Stored, Placed, bounds, stores, actors, ghosts, undoings
<1>29. ASSUME Schedule, UNCHANGED bounds PROVE Stored'
  BY <1>29, RowFields, StarterIsNoOther, OthersAreActors
     DEF Schedule, Goto, LightragTenant, Fits, Holding, Stored, Placed, bounds, stores, actors,
            ghosts,
            undoings
<1>30. ASSUME DeleteBlob, UNCHANGED bounds PROVE Stored'
  BY <1>30, StarterIsNoOther, OthersAreActors
     DEF DeleteBlob, Goto, Stored, Placed, bounds, stores, actors, ghosts, undoings
<1>31. ASSUME DeleteJobs, UNCHANGED bounds PROVE Stored'
  BY <1>31, StarterIsNoOther, OthersAreActors
     DEF DeleteJobs, Goto, Stored, Placed, bounds, stores, actors, ghosts, undoings
<1>32. ASSUME DeleteRow, UNCHANGED bounds PROVE Stored'
  BY <1>32, StarterIsNoOther, OthersAreActors
     DEF DeleteRow, Goto, Stored, Placed, bounds, stores, actors, ghosts, undoings
<1>33. ASSUME DeleteTenantData, UNCHANGED bounds PROVE Stored'
  BY <1>33, StarterIsNoOther, OthersAreActors
     DEF DeleteTenantData, Goto, Stored, Placed, bounds, stores, actors, ghosts, undoings
<1>34. CASE UNCHANGED vars
  BY <1>34 DEF vars, Stored, bounds, stores, actors, ghosts, undoings
<1>35. ASSUME NEW d \in Deliveries, MarkAgain(d), UNCHANGED bounds PROVE Stored'
  BY <1>35, StarterUpdates, StarterIsNoOther, OthersAreActors
     DEF Starters, Reads, FindsNone, Writes, Stored, Placed, bounds
<1>. QED
  BY <1>1, <1>2, <1>3, <1>4, <1>5, <1>6, <1>7, <1>8, <1>9, <1>10, <1>11, <1>12, <1>13, <1>14, <1>15,
     <1>16, <1>17, <1>18, <1>19, <1>20, <1>21, <1>22, <1>23, <1>24, <1>25, <1>26, <1>27, <1>28,
     <1>29, <1>30, <1>31, <1>32, <1>33, <1>34, <1>35
     DEF Next, Callback, Start, Handle, Worker, Delete, Serve

(* An actor that has no copy of the row goes on, and takes none; or it takes or
   drops one. *)
Goes(a, Q) == UNCHANGED doc /\ \E q \in Q : pc' = [pc EXCEPT ![a] = q]
Takes(a, q) == row \in Rows /\ doc' = [doc EXCEPT ![a] = row] /\ pc' = [pc EXCEPT ![a] = q]
Drops(a, Q) == doc' = [doc EXCEPT ![a] = None] /\ \E q \in Q : pc' = [pc EXCEPT ![a] = q]
OwnSteps(a) == IF a = "worker" THEN WorkerSteps ELSE IF a = "api" THEN ApiSteps ELSE StarterSteps

LEMMA Walked ==
    ASSUME Placed, Fits, NEW a \in Actors, NEW q \in OwnSteps(a), NEW v \in Rows \cup {None},
           pc' = [pc EXCEPT ![a] = q], doc' = [doc EXCEPT ![a] = v],
           IF q \in Holding THEN v \in Rows ELSE v = None
    PROVE Placed' /\ Fits'
<1>1. q \in Steps
  BY DEF OwnSteps, Steps
<1>2. pc' \in [Actors -> Steps] /\ doc' \in [Actors -> Rows \cup {None}]
  BY <1>1 DEF Placed
<1>3. \A b \in Actors : pc'[b] = (IF b = a THEN q ELSE pc[b]) /\ doc'[b] = (IF b = a THEN v ELSE doc[b])
  BY DEF Placed
<1>4. \A s \in Starters : pc'[s] \in StarterSteps
  BY <1>3, StarterIsNoOther DEF Placed, OwnSteps
<1>5. pc'["worker"] \in WorkerSteps /\ pc'["api"] \in ApiSteps
  BY <1>3, OthersAreActors DEF Placed, OwnSteps
<1>6. Fits'
  BY <1>3 DEF Fits
<1>. QED
  BY <1>2, <1>4, <1>5, <1>6 DEF Placed

LEMMA GoesOn ==
    ASSUME Placed, Fits, NEW a \in Actors, NEW Q \in SUBSET OwnSteps(a), Goes(a, Q),
           Q \cap Holding = {}, pc[a] \notin Holding
    PROVE Placed' /\ Fits'
<1>1. PICK q \in Q : pc' = [pc EXCEPT ![a] = q]
  BY DEF Goes
<1>2. doc[a] = None /\ doc' = [doc EXCEPT ![a] = doc[a]]
  BY DEF Fits, Placed, Goes
<1>. QED
  BY <1>1, <1>2, Walked

LEMMA HoldsOn ==
    ASSUME Placed, Fits, NEW a \in Actors, NEW Q \in SUBSET OwnSteps(a), Goes(a, Q),
           Q \subseteq Holding, pc[a] \in Holding
    PROVE Placed' /\ Fits'
<1>1. PICK q \in Q : pc' = [pc EXCEPT ![a] = q]
  BY DEF Goes
<1>2. doc[a] \in Rows /\ doc' = [doc EXCEPT ![a] = doc[a]]
  BY DEF Fits, Placed, Goes
<1>. QED
  BY <1>1, <1>2, Walked

LEMMA TakesCopy ==
    ASSUME Placed, Fits, NEW a \in Actors, NEW q \in OwnSteps(a) \cap Holding, Takes(a, q)
    PROVE Placed' /\ Fits'
  BY Walked DEF Takes

LEMMA DropsCopy ==
    ASSUME Placed, Fits, NEW a \in Actors, NEW Q \in SUBSET OwnSteps(a), Drops(a, Q),
           Q \cap Holding = {}
    PROVE Placed' /\ Fits'
  BY Walked DEF Drops

LEMMA UpdateWalks ==
    ASSUME Placed, Fits, NEW a \in Actors, NEW from, NEW mid \in Holding \cap OwnSteps(a),
           NEW to \in OwnSteps(a), to \notin Holding, NEW status, NEW j,
           Reads(a, from, mid) \/ FindsNone(a, from, to) \/ Writes(a, mid, status, j, to)
    PROVE Placed' /\ Fits'
<1>1. ASSUME Reads(a, from, mid) PROVE Takes(a, mid)
  BY <1>1 DEF Reads, Takes
<1>2. ASSUME FindsNone(a, from, to) \/ Writes(a, mid, status, j, to) PROVE Drops(a, {to})
  BY <1>2 DEF FindsNone, Writes, Drops
<1>3. {to} \in SUBSET OwnSteps(a) /\ {to} \cap Holding = {}
  OBVIOUS
<1>4. ASSUME Takes(a, mid) PROVE Placed' /\ Fits'
  BY <1>4, TakesCopy
<1>5. ASSUME Drops(a, {to}) PROVE Placed' /\ Fits'
  BY <1>3, <1>5, DropsCopy
<1>. QED
  BY <1>1, <1>2, <1>4, <1>5

(* Every request, the worker and the deletion are at a step of theirs, and hold
   a copy of the row exactly between its reading and its last use. *)
LEMMA PlacedStep ==
    ASSUME Placed, Fits, Stored, WorkerHolds, [Next]_vars PROVE Placed' /\ Fits'
<1>0a. \A s \in Starters : s \in Actors /\ OwnSteps(s) = StarterSteps
  BY StarterIsNoOther DEF OwnSteps
<1>0b. \A s \in Deliveries \cup Clicks : s \in Starters
  BY DEF Starters
<1>0c. /\ "worker" \in Actors /\ OwnSteps("worker") = WorkerSteps
       /\ "api" \in Actors /\ OwnSteps("api") = ApiSteps
  BY OthersAreActors DEF OwnSteps
<1>1. ASSUME NEW d \in Deliveries, Head(d), UNCHANGED bounds PROVE Placed' /\ Fits'
  <2>1. pc[d] = "idle" /\ Goes(d, {"find", "end"})
    BY <1>1 DEF Head, Goto, Goes, stores, actors
  <2>2. /\ {"find", "end"} \in SUBSET OwnSteps(d)
        /\ {"find", "end"} \cap Holding = {}
        /\ pc[d] \notin Holding
    BY <2>1, <1>0a, <1>0b DEF Holding, StarterSteps
  <2>. QED
    BY <2>1, <2>2, <1>0a, <1>0b, GoesOn
<1>2. ASSUME NEW d \in Deliveries, Find(d), UNCHANGED bounds PROVE Placed' /\ Fits'
  <2>1. pc[d] = "find" /\ Goes(d, {"getDoc", "register"})
    BY <1>2 DEF Find, Goto, Goes, stores, actors
  <2>2. /\ {"getDoc", "register"} \in SUBSET OwnSteps(d)
        /\ {"getDoc", "register"} \cap Holding = {}
        /\ pc[d] \notin Holding
    BY <2>1, <1>0a, <1>0b DEF Holding, StarterSteps
  <2>. QED
    BY <2>1, <2>2, <1>0a, <1>0b, GoesOn
<1>3. ASSUME NEW d \in Deliveries, Register(d), UNCHANGED bounds PROVE Placed' /\ Fits'
  <2>1. pc[d] = "register" /\ Goes(d, {"getDoc"})
    BY <1>3 DEF Register, Goto, Goes, stores, actors
  <2>2. {"getDoc"} \in SUBSET OwnSteps(d) /\ {"getDoc"} \cap Holding = {} /\ pc[d] \notin Holding
    BY <2>1, <1>0a, <1>0b DEF Holding, StarterSteps
  <2>. QED
    BY <2>1, <2>2, <1>0a, <1>0b, GoesOn
<1>4. ASSUME NEW d \in Deliveries, LoadKeyed(d), UNCHANGED bounds PROVE Placed' /\ Fits'
  <2>1. pc[d] = "loadKeyed" /\ Goes(d, {"end", "list"})
    BY <1>4 DEF LoadKeyed, Goto, Goes, stores, actors
  <2>2. /\ {"end", "list"} \in SUBSET OwnSteps(d)
        /\ {"end", "list"} \cap Holding = {}
        /\ pc[d] \notin Holding
    BY <2>1, <1>0a, <1>0b DEF Holding, StarterSteps
  <2>. QED
    BY <2>1, <2>2, <1>0a, <1>0b, GoesOn
<1>5. ASSUME NEW c \in Clicks, Click(c), UNCHANGED bounds PROVE Placed' /\ Fits'
  <2>1. pc[c] = "idle" /\ Goes(c, {"getDoc"})
    BY <1>5 DEF Click, Goto, Goes, stores, actors
  <2>2. {"getDoc"} \in SUBSET OwnSteps(c) /\ {"getDoc"} \cap Holding = {} /\ pc[c] \notin Holding
    BY <2>1, <1>0a, <1>0b DEF Holding, StarterSteps
  <2>. QED
    BY <2>1, <2>2, <1>0a, <1>0b, GoesOn
<1>6. ASSUME NEW s \in Starters, GetDocument(s), UNCHANGED bounds PROVE Placed' /\ Fits'
  <2>1. pc[s] = "getDoc" /\ Goes(s, {"end", "loadKeyed", "list"})
    BY <1>6 DEF GetDocument, Goto, Goes, stores, actors
  <2>2. /\ {"end", "loadKeyed", "list"} \in SUBSET OwnSteps(s)
        /\ {"end", "loadKeyed", "list"} \cap Holding = {}
        /\ pc[s] \notin Holding
    BY <2>1, <1>0a, <1>0b DEF Holding, StarterSteps
  <2>. QED
    BY <2>1, <2>2, <1>0a, <1>0b, GoesOn
<1>7. ASSUME NEW s \in Starters, ListJobs(s), UNCHANGED bounds PROVE Placed' /\ Fits'
  <2>1. pc[s] = "list" /\ Goes(s, {"end", "save"})
    BY <1>7 DEF ListJobs, Goto, Goes, stores, actors
  <2>2. /\ {"end", "save"} \in SUBSET OwnSteps(s)
        /\ {"end", "save"} \cap Holding = {}
        /\ pc[s] \notin Holding
    BY <2>1, <1>0a, <1>0b DEF Holding, StarterSteps
  <2>. QED
    BY <2>1, <2>2, <1>0a, <1>0b, GoesOn
<1>8. ASSUME NEW s \in Starters, SaveJob(s), UNCHANGED bounds PROVE Placed' /\ Fits'
  <2>1. pc[s] = "save" /\ Goes(s, {"mark"})
    BY <1>8 DEF SaveJob, Goto, SetJob, NewStatus, ParentOf, Goes, stores, actors
  <2>2. {"mark"} \in SUBSET OwnSteps(s) /\ {"mark"} \cap Holding = {} /\ pc[s] \notin Holding
    BY <2>1, <1>0a, <1>0b DEF Holding, StarterSteps
  <2>. QED
    BY <2>1, <2>2, <1>0a, <1>0b, GoesOn
<1>9. ASSUME NEW s \in Starters, MarkIndexing(s), UNCHANGED bounds PROVE Placed' /\ Fits'
  <2>1. \/ Reads(s, "mark", "markSave") \/ FindsNone(s, "mark", "enqueue")
        \/ Writes(s, "markSave", "indexing", ParentOf(s), "enqueue")
    BY <1>9, StarterUpdates DEF Stored
  <2>2. /\ "markSave" \in Holding \cap OwnSteps(s)
        /\ "enqueue" \in OwnSteps(s) /\ "enqueue" \notin Holding
    BY <1>0a, <1>0b DEF Holding, StarterSteps
  <2>. QED
    BY <2>1, <2>2, <1>0a, <1>0b, UpdateWalks
<1>10. ASSUME NEW s \in Starters, Enqueue(s), UNCHANGED bounds PROVE Placed' /\ Fits'
  <2>1. pc[s] = "enqueue" /\ Goes(s, {"end"})
    BY <1>10 DEF Enqueue, Goto, Goes, stores, actors
  <2>2. {"end"} \in SUBSET OwnSteps(s) /\ {"end"} \cap Holding = {} /\ pc[s] \notin Holding
    BY <2>1, <1>0a, <1>0b DEF Holding, StarterSteps
  <2>. QED
    BY <2>1, <2>2, <1>0a, <1>0b, GoesOn
<1>11. ASSUME NEW s \in Starters, Handle(s), UNCHANGED bounds PROVE Placed' /\ Fits'
  <2>0. DEFINE Q == {"refused", "engine", "engineSave", "undo", "redo", "end"}
  <2>1. /\ pc[s] \in {"enqueue", "refused", "engine", "engineSave"} /\ Goes(s, Q)
    BY <1>11
       DEF Handle, PushRaises, Refuse, LoadParent, SaveParent, Handled, Goto, Goes, stores
  <2>2. Q \in SUBSET OwnSteps(s) /\ Q \cap Holding = {} /\ pc[s] \notin Holding
    BY <2>1, <1>0a, <1>0b DEF Holding, StarterSteps
  <2>. QED
    BY <2>1, <2>2, <1>0a, <1>0b, GoesOn
<1>12. ASSUME NEW s \in Starters, MarkFailed(s), UNCHANGED bounds PROVE Placed' /\ Fits'
  <2>1. \/ Reads(s, "undo", "undoSave") \/ FindsNone(s, "undo", Handled(s))
        \/ Writes(s, "undoSave", "failed", ParentOf(s), Handled(s))
    BY <1>12, StarterUpdates DEF Stored
  <2>2. /\ "undoSave" \in Holding \cap OwnSteps(s)
        /\ Handled(s) \in OwnSteps(s) /\ Handled(s) \notin Holding
    BY <1>0a, <1>0b DEF Handled, Holding, StarterSteps
  <2>. QED
    BY <2>1, <2>2, <1>0a, <1>0b, UpdateWalks
<1>13. ASSUME NEW s \in Starters, Stop(s), UNCHANGED bounds PROVE Placed' /\ Fits'
  <2>1. Drops(s, {"end"})
    BY <1>13 DEF Stop, Goto, Drops, stores, actors
  <2>2. {"end"} \in SUBSET OwnSteps(s) /\ {"end"} \cap Holding = {}
    BY <1>0a, <1>0b DEF Holding, StarterSteps
  <2>. QED
    BY <2>1, <2>2, <1>0a, <1>0b, DropsCopy
<1>14. ASSUME NEW j \in JobIds, Take(j), UNCHANGED bounds PROVE Placed' /\ Fits'
  <2>1. UNCHANGED <<pc, doc>> \/ (pc["worker"] = "idle" /\ Goes("worker", {"load"}))
    BY <1>14 DEF Take, Goto, Goes
  <2>2. /\ {"load"} \in SUBSET OwnSteps("worker")
        /\ {"load"} \cap Holding = {}
        /\ "idle" \notin Holding
    BY <1>0c DEF Holding, WorkerSteps, Running
  <2>3. CASE UNCHANGED <<pc, doc>>
    BY <2>3 DEF Placed, Fits
  <2>4. CASE pc["worker"] = "idle" /\ Goes("worker", {"load"})
    BY <2>2, <2>4, <1>0c, GoesOn
  <2>. QED
    BY <2>1, <2>3, <2>4
<1>15. ASSUME LoadDocument, UNCHANGED bounds PROVE Placed' /\ Fits'
  <2>1. pc["worker"] = "load" /\ Goes("worker", {"ack", "begin", "fail"})
    BY <1>15 DEF LoadDocument, Proceed, SetJob, Goto, LightragTenant, Goes, stores, actors
  <2>2. /\ {"ack", "begin", "fail"} \in SUBSET OwnSteps("worker")
        /\ {"ack", "begin", "fail"} \cap Holding = {}
        /\ pc["worker"] \notin Holding
    BY <2>1, <1>0c DEF Holding, WorkerSteps, Running
  <2>. QED
    BY <2>1, <2>2, <1>0c, GoesOn
<1>16. ASSUME ReportIndexing, UNCHANGED bounds PROVE Placed' /\ Fits'
  <2>1. \/ Reads("worker", "begin", "beginSave") \/ FindsNone("worker", "begin", "insert")
        \/ Writes("worker", "beginSave", "indexing", work, "insert")
    BY <1>16, WorkerUpdates DEF Stored
  <2>2. /\ "beginSave" \in Holding \cap OwnSteps("worker")
        /\ "insert" \in OwnSteps("worker") /\ "insert" \notin Holding
    BY <1>0c DEF Holding, WorkerSteps, Running
  <2>. QED
    BY <2>1, <2>2, <1>0c, UpdateWalks
<1>17. ASSUME Insert, UNCHANGED bounds PROVE Placed' /\ Fits'
  <2>1. pc["worker"] = "insert" /\ Goes("worker", {"cancel", "check"})
    BY <1>17 DEF Insert, Goto, Goes, stores, actors
  <2>2. /\ {"cancel", "check"} \in SUBSET OwnSteps("worker")
        /\ {"cancel", "check"} \cap Holding = {}
        /\ pc["worker"] \notin Holding
    BY <2>1, <1>0c DEF Holding, WorkerSteps, Running
  <2>. QED
    BY <2>1, <2>2, <1>0c, GoesOn
<1>18. ASSUME Check, UNCHANGED bounds PROVE Placed' /\ Fits'
  <2>1. pc["worker"] = "check" /\ Goes("worker", {"cancel", "report"})
    BY <1>18 DEF Check, Goto, Goes, stores, actors
  <2>2. /\ {"cancel", "report"} \in SUBSET OwnSteps("worker")
        /\ {"cancel", "report"} \cap Holding = {}
        /\ pc["worker"] \notin Holding
    BY <2>1, <1>0c DEF Holding, WorkerSteps, Running
  <2>. QED
    BY <2>1, <2>2, <1>0c, GoesOn
<1>19. ASSUME ReportDone, UNCHANGED bounds PROVE Placed' /\ Fits'
  <2>1. \/ Reads("worker", "report", "reportSave") \/ FindsNone("worker", "report", "finish")
        \/ Writes("worker", "reportSave", "done", work, "finish")
    BY <1>19, WorkerUpdates DEF Stored
  <2>2. /\ "reportSave" \in Holding \cap OwnSteps("worker")
        /\ "finish" \in OwnSteps("worker") /\ "finish" \notin Holding
    BY <1>0c DEF Holding, WorkerSteps, Running
  <2>. QED
    BY <2>1, <2>2, <1>0c, UpdateWalks
<1>20. ASSUME ReportCancelled, UNCHANGED bounds PROVE Placed' /\ Fits'
  <2>1. \/ Reads("worker", "cancel", "cancelSave") \/ FindsNone("worker", "cancel", "ack")
        \/ Writes("worker", "cancelSave", "cancelled", work, "ack")
    BY <1>20, WorkerUpdates DEF Stored
  <2>2. /\ "cancelSave" \in Holding \cap OwnSteps("worker")
        /\ "ack" \in OwnSteps("worker") /\ "ack" \notin Holding
    BY <1>0c DEF Holding, WorkerSteps, Running
  <2>. QED
    BY <2>1, <2>2, <1>0c, UpdateWalks
<1>21. ASSUME ReportFailed, UNCHANGED bounds PROVE Placed' /\ Fits'
  <2>1. \/ Reads("worker", "fail", "failSave") \/ FindsNone("worker", "fail", "ack")
        \/ Writes("worker", "failSave", "failed", work, "ack")
    BY <1>21, WorkerUpdates DEF Stored
  <2>2. /\ "failSave" \in Holding \cap OwnSteps("worker")
        /\ "ack" \in OwnSteps("worker") /\ "ack" \notin Holding
    BY <1>0c DEF Holding, WorkerSteps, Running
  <2>. QED
    BY <2>1, <2>2, <1>0c, UpdateWalks
<1>22. ASSUME Finish, UNCHANGED bounds PROVE Placed' /\ Fits'
  <2>1. pc["worker"] = "finish" /\ Goes("worker", {"ack"})
    BY <1>22 DEF Finish, Proceed, SetJob, Goto, Goes, stores, actors
  <2>2. /\ {"ack"} \in SUBSET OwnSteps("worker")
        /\ {"ack"} \cap Holding = {}
        /\ pc["worker"] \notin Holding
    BY <2>1, <1>0c DEF Holding, WorkerSteps, Running
  <2>. QED
    BY <2>1, <2>2, <1>0c, GoesOn
<1>23. ASSUME Acknowledge, UNCHANGED bounds PROVE Placed' /\ Fits'
  <2>1. pc["worker"] = "ack" /\ Goes("worker", {"idle"})
    BY <1>23 DEF Acknowledge, Goto, Goes, stores, actors
  <2>2. /\ {"idle"} \in SUBSET OwnSteps("worker")
        /\ {"idle"} \cap Holding = {}
        /\ pc["worker"] \notin Holding
    BY <2>1, <1>0c DEF Holding, WorkerSteps, Running
  <2>. QED
    BY <2>1, <2>2, <1>0c, GoesOn
<1>24. ASSUME NEW t \in Owners, DeletePages(t), UNCHANGED bounds PROVE Placed' /\ Fits'
  BY <1>24 DEF Placed, Fits, DeletePages, actors
<1>25. ASSUME Claim, UNCHANGED bounds PROVE Placed' /\ Fits'
  BY <1>25 DEF Placed, Fits, Claim, actors
<1>26. ASSUME ReadDocument, UNCHANGED bounds PROVE Placed' /\ Fits'
  <2>1. Takes("api", "stop jobs")
    BY <1>26 DEF ReadDocument, Goto, Takes, Stored
  <2>2. "stop jobs" \in OwnSteps("api") \cap Holding
    BY <1>0c DEF Holding, ApiSteps
  <2>. QED
    BY <2>1, <2>2, <1>0c, TakesCopy
<1>27. ASSUME Export, UNCHANGED bounds PROVE Placed' /\ Fits'
  <2>1. Takes("api", "stop jobs") \/ (pc["api"] = "idle" /\ Goes("api", {"erase"}))
    BY <1>27 DEF Export, Goto, Goes, Takes, Stored
  <2>2. /\ {"erase"} \in SUBSET OwnSteps("api") /\ {"erase"} \cap Holding = {} /\ "idle" \notin Holding
        /\ "stop jobs" \in OwnSteps("api") \cap Holding
    BY <1>0c DEF Holding, ApiSteps
  <2>. QED
    BY <2>1, <2>2, <1>0c, GoesOn, TakesCopy
<1>28. ASSUME CancelJobs, UNCHANGED bounds PROVE Placed' /\ Fits'
  <2>1. pc["api"] = "stop jobs" /\ Goes("api", {"schedule"})
    BY <1>28 DEF CancelJobs, Goto, Goes, stores, actors
  <2>2. /\ {"schedule"} \in SUBSET OwnSteps("api")
        /\ {"schedule"} \subseteq Holding
        /\ pc["api"] \in Holding
    BY <2>1, <1>0c DEF Holding, ApiSteps
  <2>. QED
    BY <2>1, <2>2, <1>0c, HoldsOn
<1>29. ASSUME Schedule, UNCHANGED bounds PROVE Placed' /\ Fits'
  <2>1. Drops("api", {"blob"})
    BY <1>29 DEF Schedule, Goto, LightragTenant, Drops, stores, actors
  <2>2. {"blob"} \in SUBSET OwnSteps("api") /\ {"blob"} \cap Holding = {}
    BY <1>0c DEF Holding, ApiSteps
  <2>. QED
    BY <2>1, <2>2, <1>0c, DropsCopy
<1>30. ASSUME DeleteBlob, UNCHANGED bounds PROVE Placed' /\ Fits'
  <2>1. pc["api"] = "blob" /\ Goes("api", {"erase", "jobs"})
    BY <1>30 DEF DeleteBlob, Goto, Goes, stores, actors
  <2>2. /\ {"erase", "jobs"} \in SUBSET OwnSteps("api")
        /\ {"erase", "jobs"} \cap Holding = {}
        /\ pc["api"] \notin Holding
    BY <2>1, <1>0c DEF Holding, ApiSteps
  <2>. QED
    BY <2>1, <2>2, <1>0c, GoesOn
<1>31. ASSUME DeleteJobs, UNCHANGED bounds PROVE Placed' /\ Fits'
  <2>1. pc["api"] = "jobs" /\ Goes("api", {"row"})
    BY <1>31 DEF DeleteJobs, Goto, Goes, stores, actors
  <2>2. {"row"} \in SUBSET OwnSteps("api") /\ {"row"} \cap Holding = {} /\ pc["api"] \notin Holding
    BY <2>1, <1>0c DEF Holding, ApiSteps
  <2>. QED
    BY <2>1, <2>2, <1>0c, GoesOn
<1>32. ASSUME DeleteRow, UNCHANGED bounds PROVE Placed' /\ Fits'
  <2>1. pc["api"] = "row" /\ Goes("api", {"end"})
    BY <1>32 DEF DeleteRow, Goto, Goes, stores, actors
  <2>2. {"end"} \in SUBSET OwnSteps("api") /\ {"end"} \cap Holding = {} /\ pc["api"] \notin Holding
    BY <2>1, <1>0c DEF Holding, ApiSteps
  <2>. QED
    BY <2>1, <2>2, <1>0c, GoesOn
<1>33. ASSUME DeleteTenantData, UNCHANGED bounds PROVE Placed' /\ Fits'
  <2>1. pc["api"] = "erase" /\ Goes("api", {"end"})
    BY <1>33 DEF DeleteTenantData, Goto, Goes, stores, actors
  <2>2. {"end"} \in SUBSET OwnSteps("api") /\ {"end"} \cap Holding = {} /\ pc["api"] \notin Holding
    BY <2>1, <1>0c DEF Holding, ApiSteps
  <2>. QED
    BY <2>1, <2>2, <1>0c, GoesOn
<1>34. CASE UNCHANGED vars
  BY <1>34 DEF vars, Placed, Fits, actors
<1>35. ASSUME NEW d \in Deliveries, MarkAgain(d), UNCHANGED bounds PROVE Placed' /\ Fits'
  <2>1. \/ Reads(d, "redo", "redoSave") \/ FindsNone(d, "redo", "end")
        \/ Writes(d, "redoSave", "failed", doc[d].job, "end")
    BY <1>35, <1>0b, StarterUpdates DEF Stored
  <2>2. /\ "redoSave" \in Holding \cap OwnSteps(d)
        /\ "end" \in OwnSteps(d) /\ "end" \notin Holding
    BY <1>0a, <1>0b DEF Holding, StarterSteps
  <2>. QED
    BY <2>1, <2>2, <1>0a, <1>0b, UpdateWalks
<1>. QED
  BY <1>1, <1>2, <1>3, <1>4, <1>5, <1>6, <1>7, <1>8, <1>9, <1>10, <1>11, <1>12, <1>13, <1>14, <1>15,
     <1>16, <1>17, <1>18, <1>19, <1>20, <1>21, <1>22, <1>23, <1>24, <1>25, <1>26, <1>27, <1>28,
     <1>29, <1>30, <1>31, <1>32, <1>33, <1>34, <1>35
     DEF Next, Callback, Start, Handle, Worker, Delete, Serve
(* The worker has a job while it is not idle, and a workspace once it has begun. *)
LEMMA WorkerHoldsStep ==
    ASSUME Placed, Fits, Stored, WorkerHolds, [Next]_vars PROVE WorkerHolds'
<1>1. ASSUME NEW d \in Deliveries, Head(d), UNCHANGED bounds PROVE WorkerHolds'
  BY <1>1, StarterIsNoOther
     DEF Head, Goto, Starters, WorkerHolds, Placed, Stored, bounds, stores, actors, ghosts, undoings
<1>2. ASSUME NEW d \in Deliveries, Find(d), UNCHANGED bounds PROVE WorkerHolds'
  BY <1>2, StarterIsNoOther
     DEF Find, Goto, Starters, WorkerHolds, Placed, Stored, bounds, stores, actors, ghosts, undoings
<1>3. ASSUME NEW d \in Deliveries, Register(d), UNCHANGED bounds PROVE WorkerHolds'
  BY <1>3, StarterIsNoOther
     DEF Register, Goto, Starters, WorkerHolds, Placed, Stored, bounds, stores, actors, ghosts,
            undoings
<1>4. ASSUME NEW d \in Deliveries, LoadKeyed(d), UNCHANGED bounds PROVE WorkerHolds'
  BY <1>4, StarterIsNoOther
     DEF LoadKeyed, Goto, Starters, WorkerHolds, Placed, Stored, bounds, stores, actors, ghosts,
            undoings
<1>5. ASSUME NEW c \in Clicks, Click(c), UNCHANGED bounds PROVE WorkerHolds'
  BY <1>5, StarterIsNoOther
     DEF Click, Goto, Starters, WorkerHolds, Placed, Stored, bounds, stores, actors, ghosts,
            undoings
<1>6. ASSUME NEW s \in Starters, GetDocument(s), UNCHANGED bounds PROVE WorkerHolds'
  BY <1>6, StarterIsNoOther
     DEF GetDocument, Goto, WorkerHolds, Placed, Stored, bounds, stores, actors, ghosts, undoings
<1>7. ASSUME NEW s \in Starters, ListJobs(s), UNCHANGED bounds PROVE WorkerHolds'
  BY <1>7, StarterIsNoOther
     DEF ListJobs, Goto, WorkerHolds, Placed, Stored, bounds, stores, actors, ghosts, undoings
<1>8. ASSUME NEW s \in Starters, SaveJob(s), UNCHANGED bounds PROVE WorkerHolds'
  BY <1>8, StarterIsNoOther
     DEF SaveJob, Goto, SetJob, NewStatus, ParentOf, WorkerHolds, Placed, Stored, bounds, stores,
         actors, ghosts, undoings
<1>9. ASSUME NEW s \in Starters, MarkIndexing(s), UNCHANGED bounds PROVE WorkerHolds'
  <2>1. /\ UNCHANGED <<work, tenant>>
        /\ \/ Reads(s, "mark", "markSave") \/ FindsNone(s, "mark", "enqueue")
           \/ Writes(s, "markSave", "indexing", ParentOf(s), "enqueue")
    BY <1>9, StarterUpdates DEF Stored
  <2>2. pc'["worker"] = pc["worker"]
    BY <2>1, UpdateMoves, StarterIsNoOther, OthersAreActors
  <2>. QED
    BY <2>1, <2>2 DEF WorkerHolds
<1>10. ASSUME NEW s \in Starters, Enqueue(s), UNCHANGED bounds PROVE WorkerHolds'
  BY <1>10, StarterIsNoOther
     DEF Enqueue, Goto, WorkerHolds, Placed, Stored, bounds, stores, actors, ghosts, undoings
<1>11. ASSUME NEW s \in Starters, Handle(s), UNCHANGED bounds PROVE WorkerHolds'
  <2>1. UNCHANGED <<work, tenant>> /\ pc'["worker"] = pc["worker"]
    BY <1>11, HandlerSteps, StarterIsNoOther, OthersAreActors
  <2>. QED
    BY <2>1 DEF WorkerHolds
<1>12. ASSUME NEW s \in Starters, MarkFailed(s), UNCHANGED bounds PROVE WorkerHolds'
  <2>1. /\ UNCHANGED <<work, tenant>>
        /\ \/ Reads(s, "undo", "undoSave") \/ FindsNone(s, "undo", Handled(s))
           \/ Writes(s, "undoSave", "failed", ParentOf(s), Handled(s))
    BY <1>12, StarterUpdates DEF Stored
  <2>2. pc'["worker"] = pc["worker"]
    BY <2>1, UpdateMoves, StarterIsNoOther, OthersAreActors
  <2>. QED
    BY <2>1, <2>2 DEF WorkerHolds
<1>13. ASSUME NEW s \in Starters, Stop(s), UNCHANGED bounds PROVE WorkerHolds'
  BY <1>13, StarterIsNoOther
     DEF Stop, Goto, WorkerHolds, Placed, Stored, bounds, stores, actors, ghosts, undoings
<1>14. ASSUME NEW j \in JobIds, Take(j), UNCHANGED bounds PROVE WorkerHolds'
  BY <1>14, OthersAreActors, JobIsSome
     DEF Take, Goto, WorkerHolds, Placed, Stored, bounds, stores, actors, ghosts, undoings
<1>15. ASSUME LoadDocument, UNCHANGED bounds PROVE WorkerHolds'
  BY <1>15, OthersAreActors, RowFields
     DEF LoadDocument, Proceed, SetJob, Goto, LightragTenant, WorkerHolds, Placed, Stored, bounds,
         stores, actors, ghosts, undoings
<1>16. ASSUME ReportIndexing, UNCHANGED bounds PROVE WorkerHolds'
  BY <1>16, WorkerUpdates, OthersAreActors
     DEF Reads, FindsNone, Writes, WorkerHolds, Placed, Stored, bounds
<1>17. ASSUME Insert, UNCHANGED bounds PROVE WorkerHolds'
  BY <1>17, OthersAreActors
     DEF Insert, Goto, WorkerHolds, Placed, Stored, bounds, stores, actors, ghosts, undoings
<1>18. ASSUME Check, UNCHANGED bounds PROVE WorkerHolds'
  BY <1>18, OthersAreActors
     DEF Check, Goto, WorkerHolds, Placed, Stored, bounds, stores, actors, ghosts, undoings
<1>19. ASSUME ReportDone, UNCHANGED bounds PROVE WorkerHolds'
  BY <1>19, WorkerUpdates, OthersAreActors
     DEF Reads, FindsNone, Writes, WorkerHolds, Placed, Stored, bounds
<1>20. ASSUME ReportCancelled, UNCHANGED bounds PROVE WorkerHolds'
  BY <1>20, WorkerUpdates, OthersAreActors
     DEF Reads, FindsNone, Writes, WorkerHolds, Placed, Stored, bounds
<1>21. ASSUME ReportFailed, UNCHANGED bounds PROVE WorkerHolds'
  BY <1>21, WorkerUpdates, OthersAreActors
     DEF Reads, FindsNone, Writes, WorkerHolds, Placed, Stored, bounds
<1>22. ASSUME Finish, UNCHANGED bounds PROVE WorkerHolds'
  BY <1>22, OthersAreActors
     DEF Finish, Proceed, SetJob, Goto, WorkerHolds, Placed, Stored, bounds, stores, actors, ghosts,
            undoings
<1>23. ASSUME Acknowledge, UNCHANGED bounds PROVE WorkerHolds'
  BY <1>23, OthersAreActors
     DEF Acknowledge, Goto, WorkerHolds, Placed, Stored, bounds, stores, actors, ghosts, undoings
<1>24. ASSUME NEW t \in Owners, DeletePages(t), UNCHANGED bounds PROVE WorkerHolds'
  BY <1>24 DEF DeletePages, WorkerHolds, Placed, Stored, bounds, stores, actors, ghosts, undoings
<1>25. ASSUME Claim, UNCHANGED bounds PROVE WorkerHolds'
  BY <1>25 DEF Claim, WorkerHolds, Placed, Stored, bounds, stores, actors, ghosts, undoings
<1>26. ASSUME ReadDocument, UNCHANGED bounds PROVE WorkerHolds'
  BY <1>26, OthersAreActors
     DEF ReadDocument, Goto, WorkerHolds, Placed, Stored, bounds, stores, actors, ghosts, undoings
<1>27. ASSUME Export, UNCHANGED bounds PROVE WorkerHolds'
  BY <1>27, OthersAreActors
     DEF Export, Goto, WorkerHolds, Placed, Stored, bounds, stores, actors, ghosts, undoings
<1>28. ASSUME CancelJobs, UNCHANGED bounds PROVE WorkerHolds'
  BY <1>28, OthersAreActors
     DEF CancelJobs, Goto, WorkerHolds, Placed, Stored, bounds, stores, actors, ghosts, undoings
<1>29. ASSUME Schedule, UNCHANGED bounds PROVE WorkerHolds'
  BY <1>29, OthersAreActors
     DEF Schedule, Goto, LightragTenant, WorkerHolds, Placed, Stored, bounds, stores, actors,
            ghosts, undoings
<1>30. ASSUME DeleteBlob, UNCHANGED bounds PROVE WorkerHolds'
  BY <1>30, OthersAreActors
     DEF DeleteBlob, Goto, WorkerHolds, Placed, Stored, bounds, stores, actors, ghosts, undoings
<1>31. ASSUME DeleteJobs, UNCHANGED bounds PROVE WorkerHolds'
  BY <1>31, OthersAreActors
     DEF DeleteJobs, Goto, WorkerHolds, Placed, Stored, bounds, stores, actors, ghosts, undoings
<1>32. ASSUME DeleteRow, UNCHANGED bounds PROVE WorkerHolds'
  BY <1>32, OthersAreActors
     DEF DeleteRow, Goto, WorkerHolds, Placed, Stored, bounds, stores, actors, ghosts, undoings
<1>33. ASSUME DeleteTenantData, UNCHANGED bounds PROVE WorkerHolds'
  BY <1>33, OthersAreActors
     DEF DeleteTenantData, Goto, WorkerHolds, Placed, Stored, bounds, stores, actors, ghosts,
            undoings
<1>34. CASE UNCHANGED vars
  BY <1>34 DEF vars, WorkerHolds, Placed, Stored, bounds, stores, actors, ghosts, undoings
<1>35. ASSUME NEW d \in Deliveries, MarkAgain(d), UNCHANGED bounds PROVE WorkerHolds'
  <2>1. d \in Starters
    BY DEF Starters
  <2>2. /\ UNCHANGED <<work, tenant>>
        /\ \/ Reads(d, "redo", "redoSave") \/ FindsNone(d, "redo", "end")
           \/ Writes(d, "redoSave", "failed", doc[d].job, "end")
    BY <1>35, <2>1, StarterUpdates DEF Stored
  <2>3. pc'["worker"] = pc["worker"]
    BY <2>1, <2>2, UpdateMoves, StarterIsNoOther, OthersAreActors
  <2>. QED
    BY <2>2, <2>3 DEF WorkerHolds
<1>. QED
  BY <1>1, <1>2, <1>3, <1>4, <1>5, <1>6, <1>7, <1>8, <1>9, <1>10, <1>11, <1>12, <1>13, <1>14, <1>15,
     <1>16, <1>17, <1>18, <1>19, <1>20, <1>21, <1>22, <1>23, <1>24, <1>25, <1>26, <1>27, <1>28,
     <1>29, <1>30, <1>31, <1>32, <1>33, <1>34, <1>35
     DEF Next, Callback, Start, Handle, Worker, Delete, Serve

(* A start that has pushed does not push again, and receipts come from starts. *)
Resting ==
    /\ \A t \in Starters : pc[t] \in Pushed => pc'[t] \in Pushed
    /\ \/ UNCHANGED queue
       \/ \E i \in JobIds : Take(i)
       \/ \E t \in Starters : Enqueue(t) \/ PushRaises(t)
LEMMA StartsEnd ==
    ASSUME Placed, Fits, Stored, WorkerHolds, [Next]_vars PROVE Resting
<1>1. ASSUME NEW d \in Deliveries, Head(d), UNCHANGED bounds PROVE Resting
  BY <1>1, StarterIsNoOther
     DEF Resting, Pushed, Undoing, Head, Goto, Starters, Placed, bounds, stores, actors, ghosts,
            undoings
<1>2. ASSUME NEW d \in Deliveries, Find(d), UNCHANGED bounds PROVE Resting
  BY <1>2, StarterIsNoOther
     DEF Resting, Pushed, Undoing, Find, Goto, Starters, Placed, bounds, stores, actors, ghosts,
            undoings
<1>3. ASSUME NEW d \in Deliveries, Register(d), UNCHANGED bounds PROVE Resting
  BY <1>3, StarterIsNoOther
     DEF Resting, Pushed, Undoing, Register, Goto, Starters, Placed, bounds, stores, actors, ghosts,
            undoings
<1>4. ASSUME NEW d \in Deliveries, LoadKeyed(d), UNCHANGED bounds PROVE Resting
  BY <1>4, StarterIsNoOther
     DEF Resting, Pushed, Undoing, LoadKeyed, Goto, Starters, Placed, bounds, stores, actors,
            ghosts, undoings
<1>5. ASSUME NEW c \in Clicks, Click(c), UNCHANGED bounds PROVE Resting
  BY <1>5, StarterIsNoOther
     DEF Resting, Pushed, Undoing, Click, Goto, Starters, Placed, bounds, stores, actors, ghosts,
            undoings
<1>6. ASSUME NEW s \in Starters, GetDocument(s), UNCHANGED bounds PROVE Resting
  BY <1>6, StarterIsNoOther
     DEF Resting, Pushed, Undoing, GetDocument, Goto, Placed, bounds, stores, actors, ghosts,
         undoings
<1>7. ASSUME NEW s \in Starters, ListJobs(s), UNCHANGED bounds PROVE Resting
  BY <1>7, StarterIsNoOther
     DEF Resting, Pushed, Undoing, ListJobs, Goto, Placed, bounds, stores, actors, ghosts, undoings
<1>8. ASSUME NEW s \in Starters, SaveJob(s), UNCHANGED bounds PROVE Resting
  BY <1>8, StarterIsNoOther
     DEF Resting, Pushed, Undoing, SaveJob, Goto, SetJob, NewStatus, ParentOf, Placed, bounds,
            stores, actors, ghosts, undoings
<1>9. ASSUME NEW s \in Starters, MarkIndexing(s), UNCHANGED bounds PROVE Resting
  <2>1. /\ UNCHANGED queue
        /\ \/ Reads(s, "mark", "markSave") \/ FindsNone(s, "mark", "enqueue")
           \/ Writes(s, "markSave", "indexing", ParentOf(s), "enqueue")
    BY <1>9, StarterUpdates DEF Stored
  <2>2. \A t \in Starters : pc[t] \in Pushed => pc'[t] \in Pushed
    BY <2>1, UpdateLeavesEnded, StarterIsNoOther, OthersAreActors DEF Pushed, Undoing, Handled
  <2>. QED
    BY <2>1, <2>2 DEF Resting
<1>10. ASSUME NEW s \in Starters, Enqueue(s), UNCHANGED bounds PROVE Resting
  BY <1>10, StarterIsNoOther
     DEF Resting, Pushed, Undoing, Enqueue, Goto, Placed, bounds, stores, actors, ghosts, undoings
<1>11. ASSUME NEW s \in Starters, Handle(s), UNCHANGED bounds PROVE Resting
  <2>1. (\A b \in Actors \ {s} : pc'[b] = pc[b]) /\ pc'[s] \in Pushed
    BY <1>11, HandlerSteps DEF Pushed, Undoing
  <2>2. UNCHANGED queue \/ PushRaises(s)
    BY <1>11 DEF Handle, Refuse, LoadParent, SaveParent, stores
  <2>3. \A t \in Starters : pc[t] \in Pushed => pc'[t] \in Pushed
    BY <2>1, StarterIsNoOther
  <2>. QED
    BY <2>2, <2>3 DEF Resting
<1>12. ASSUME NEW s \in Starters, MarkFailed(s), UNCHANGED bounds PROVE Resting
  <2>1. /\ UNCHANGED queue
        /\ \/ Reads(s, "undo", "undoSave") \/ FindsNone(s, "undo", Handled(s))
           \/ Writes(s, "undoSave", "failed", ParentOf(s), Handled(s))
    BY <1>12, StarterUpdates DEF Stored
  <2>2. \A t \in Starters : pc[t] \in Pushed => pc'[t] \in Pushed
    BY <2>1, UpdateLeavesEnded, StarterIsNoOther, OthersAreActors DEF Pushed, Undoing, Handled
  <2>. QED
    BY <2>1, <2>2 DEF Resting
<1>13. ASSUME NEW s \in Starters, Stop(s), UNCHANGED bounds PROVE Resting
  BY <1>13, StarterIsNoOther
     DEF Resting, Pushed, Undoing, Stop, Goto, Placed, bounds, stores, actors, ghosts, undoings
<1>14. ASSUME NEW j \in JobIds, Take(j), UNCHANGED bounds PROVE Resting
  BY <1>14, OthersAreActors, StarterIsNoOther
     DEF Resting, Pushed, Undoing, Take, Goto, Placed, bounds, stores, actors, ghosts, undoings
<1>15. ASSUME LoadDocument, UNCHANGED bounds PROVE Resting
  BY <1>15, OthersAreActors, StarterIsNoOther
     DEF Resting, Pushed, Undoing, LoadDocument, Proceed, SetJob, Goto, LightragTenant, Placed,
            bounds, stores,
         actors, ghosts, undoings
<1>16. ASSUME ReportIndexing, UNCHANGED bounds PROVE Resting
  <2>1. /\ UNCHANGED queue
        /\ \/ Reads("worker", "begin", "beginSave") \/ FindsNone("worker", "begin", "insert")
           \/ Writes("worker", "beginSave", "indexing", work, "insert")
    BY <1>16, WorkerUpdates DEF Stored
  <2>2. \A t \in Starters : pc[t] \in Pushed => pc'[t] \in Pushed
    BY <2>1, UpdateLeavesEnded, StarterIsNoOther, OthersAreActors DEF Pushed, Undoing, Handled
  <2>. QED
    BY <2>1, <2>2 DEF Resting
<1>17. ASSUME Insert, UNCHANGED bounds PROVE Resting
  BY <1>17, OthersAreActors, StarterIsNoOther
     DEF Resting, Pushed, Undoing, Insert, Goto, Placed, bounds, stores, actors, ghosts, undoings
<1>18. ASSUME Check, UNCHANGED bounds PROVE Resting
  BY <1>18, OthersAreActors, StarterIsNoOther
     DEF Resting, Pushed, Undoing, Check, Goto, Placed, bounds, stores, actors, ghosts, undoings
<1>19. ASSUME ReportDone, UNCHANGED bounds PROVE Resting
  <2>1. /\ UNCHANGED queue
        /\ \/ Reads("worker", "report", "reportSave") \/ FindsNone("worker", "report", "finish")
           \/ Writes("worker", "reportSave", "done", work, "finish")
    BY <1>19, WorkerUpdates DEF Stored
  <2>2. \A t \in Starters : pc[t] \in Pushed => pc'[t] \in Pushed
    BY <2>1, UpdateLeavesEnded, StarterIsNoOther, OthersAreActors DEF Pushed, Undoing, Handled
  <2>. QED
    BY <2>1, <2>2 DEF Resting
<1>20. ASSUME ReportCancelled, UNCHANGED bounds PROVE Resting
  <2>1. /\ UNCHANGED queue
        /\ \/ Reads("worker", "cancel", "cancelSave") \/ FindsNone("worker", "cancel", "ack")
           \/ Writes("worker", "cancelSave", "cancelled", work, "ack")
    BY <1>20, WorkerUpdates DEF Stored
  <2>2. \A t \in Starters : pc[t] \in Pushed => pc'[t] \in Pushed
    BY <2>1, UpdateLeavesEnded, StarterIsNoOther, OthersAreActors DEF Pushed, Undoing, Handled
  <2>. QED
    BY <2>1, <2>2 DEF Resting
<1>21. ASSUME ReportFailed, UNCHANGED bounds PROVE Resting
  <2>1. /\ UNCHANGED queue
        /\ \/ Reads("worker", "fail", "failSave") \/ FindsNone("worker", "fail", "ack")
           \/ Writes("worker", "failSave", "failed", work, "ack")
    BY <1>21, WorkerUpdates DEF Stored
  <2>2. \A t \in Starters : pc[t] \in Pushed => pc'[t] \in Pushed
    BY <2>1, UpdateLeavesEnded, StarterIsNoOther, OthersAreActors DEF Pushed, Undoing, Handled
  <2>. QED
    BY <2>1, <2>2 DEF Resting
<1>22. ASSUME Finish, UNCHANGED bounds PROVE Resting
  BY <1>22, OthersAreActors, StarterIsNoOther
     DEF Resting, Pushed, Undoing, Finish, Proceed, SetJob, Goto, Placed, bounds, stores, actors,
            ghosts, undoings
<1>23. ASSUME Acknowledge, UNCHANGED bounds PROVE Resting
  BY <1>23, OthersAreActors, StarterIsNoOther
     DEF Resting, Pushed, Undoing, Acknowledge, Goto, Placed, bounds, stores, actors, ghosts,
            undoings
<1>24. ASSUME NEW t \in Owners, DeletePages(t), UNCHANGED bounds PROVE Resting
  BY <1>24
     DEF Resting, Pushed, Undoing, DeletePages, Placed, bounds, stores, actors, ghosts, undoings
<1>25. ASSUME Claim, UNCHANGED bounds PROVE Resting
  BY <1>25 DEF Resting, Pushed, Undoing, Claim, Placed, bounds, stores, actors, ghosts, undoings
<1>26. ASSUME ReadDocument, UNCHANGED bounds PROVE Resting
  BY <1>26, OthersAreActors, StarterIsNoOther
     DEF Resting, Pushed, Undoing, ReadDocument, Goto, Placed, bounds, stores, actors, ghosts,
            undoings
<1>27. ASSUME Export, UNCHANGED bounds PROVE Resting
  BY <1>27, OthersAreActors, StarterIsNoOther
     DEF Resting, Pushed, Undoing, Export, Goto, Placed, bounds, stores, actors, ghosts, undoings
<1>28. ASSUME CancelJobs, UNCHANGED bounds PROVE Resting
  BY <1>28, OthersAreActors, StarterIsNoOther
     DEF Resting, Pushed, Undoing, CancelJobs, Goto, Placed, bounds, stores, actors, ghosts,
            undoings
<1>29. ASSUME Schedule, UNCHANGED bounds PROVE Resting
  BY <1>29, OthersAreActors, StarterIsNoOther
     DEF Resting, Pushed, Undoing, Schedule, Goto, LightragTenant, Placed, bounds, stores, actors,
            ghosts, undoings
<1>30. ASSUME DeleteBlob, UNCHANGED bounds PROVE Resting
  BY <1>30, OthersAreActors, StarterIsNoOther
     DEF Resting, Pushed, Undoing, DeleteBlob, Goto, Placed, bounds, stores, actors, ghosts,
            undoings
<1>31. ASSUME DeleteJobs, UNCHANGED bounds PROVE Resting
  BY <1>31, OthersAreActors, StarterIsNoOther
     DEF Resting, Pushed, Undoing, DeleteJobs, Goto, Placed, bounds, stores, actors, ghosts,
            undoings
<1>32. ASSUME DeleteRow, UNCHANGED bounds PROVE Resting
  BY <1>32, OthersAreActors, StarterIsNoOther
     DEF Resting, Pushed, Undoing, DeleteRow, Goto, Placed, bounds, stores, actors, ghosts, undoings
<1>33. ASSUME DeleteTenantData, UNCHANGED bounds PROVE Resting
  BY <1>33, OthersAreActors, StarterIsNoOther
     DEF Resting, Pushed, Undoing, DeleteTenantData, Goto, Placed, bounds, stores, actors, ghosts,
            undoings
<1>34. CASE UNCHANGED vars
  BY <1>34 DEF Resting, Pushed, Undoing, vars, Placed, bounds, stores, actors, ghosts, undoings
<1>35. ASSUME NEW d \in Deliveries, MarkAgain(d), UNCHANGED bounds PROVE Resting
  <2>1. /\ UNCHANGED queue
        /\ \/ Reads(d, "redo", "redoSave") \/ FindsNone(d, "redo", "end")
           \/ Writes(d, "redoSave", "failed", doc[d].job, "end")
    BY <1>35, StarterUpdates DEF Stored, Starters
  <2>2. \A t \in Starters : pc[t] \in Pushed => pc'[t] \in Pushed
    BY <2>1, UpdateLeavesEnded, StarterIsNoOther, OthersAreActors
       DEF Pushed, Undoing, Starters
  <2>. QED
    BY <2>1, <2>2 DEF Resting
<1>. QED
  BY <1>1, <1>2, <1>3, <1>4, <1>5, <1>6, <1>7, <1>8, <1>9, <1>10, <1>11, <1>12, <1>13, <1>14, <1>15,
     <1>16, <1>17, <1>18, <1>19, <1>20, <1>21, <1>22, <1>23, <1>24, <1>25, <1>26, <1>27, <1>28,
     <1>29, <1>30, <1>31, <1>32, <1>33, <1>34, <1>35
     DEF Resting, Pushed, Undoing, Next, Callback, Start, Handle, Worker, Delete, Serve

LEMMA EndedIsFinite == ASSUME NEW j \in JobIds
    PROVE IsFiniteSet(Ended(j)) /\ Cardinality(Ended(j)) \in Nat
                                /\ Cardinality(Ended(j)) <= Cardinality(Starters)
<1>1. IsFiniteSet(Starters) /\ Ended(j) \subseteq Starters
  BY IntakeAssumption DEF Starters, Ended
<1>. QED
  BY <1>1, FS_Subset, FS_CardinalityType

LEMMA QueueBoundStep ==
    ASSUME Placed, Fits, Stored, WorkerHolds, QueueBound, [Next]_vars PROVE QueueBound'
<1>1. Resting
  BY StartsEnd
<1>2. ASSUME NEW j \in JobIds
      PROVE IsFiniteSet(Ended(j)') /\ Cardinality(Ended(j)) <= Cardinality(Ended(j)')
  <2>1. IsFiniteSet(Ended(j)')
    <3>1. IsFiniteSet(Starters) /\ Ended(j)' \subseteq Starters
      BY IntakeAssumption DEF Starters, Ended
    <3>. QED
      BY <3>1, FS_Subset
  <2>2. Ended(j) \subseteq Ended(j)'
    BY <1>1 DEF Resting, Ended
  <2>. QED
    BY <2>1, <2>2, FS_Subset
<1>3. \A j \in JobIds : Cardinality(Ended(j)) \in Nat /\ Cardinality(Ended(j)') \in Nat
  BY <1>2, EndedIsFinite, FS_CardinalityType
<1>4. CASE UNCHANGED queue
  BY <1>2, <1>3, <1>4 DEF QueueBound
<1>5. ASSUME NEW i \in JobIds, Take(i) PROVE QueueBound'
  <2>1. queue' \in [JobIds -> Nat] /\ \A j \in JobIds : queue'[j] <= queue[j]
    BY <1>5 DEF Take, QueueBound
  <2>. QED
    BY <2>1, <1>2, <1>3 DEF QueueBound
<1>6. ASSUME NEW s \in Starters, Enqueue(s) \/ PushRaises(s), ~UNCHANGED queue
      PROVE QueueBound'
  <2>1. queue' \in [JobIds -> Nat] /\ queue'[ParentOf(s)] = queue[ParentOf(s)] + 1
        /\ \A j \in JobIds \ {ParentOf(s)} : queue'[j] = queue[j]
    BY <1>6, ParentIsJob DEF Enqueue, PushRaises, QueueBound
  <2>2. s \notin Ended(ParentOf(s)) /\ Ended(ParentOf(s))' = Ended(ParentOf(s)) \cup {s}
    BY <1>6, StarterIsNoOther DEF Enqueue, PushRaises, Goto, Ended, Pushed, Undoing, Placed
  <2>3. Cardinality(Ended(ParentOf(s))') = Cardinality(Ended(ParentOf(s))) + 1
    BY <2>2, FS_AddElement, EndedIsFinite, ParentIsJob
  <2>. QED
    BY <2>1, <2>3, <1>2, <1>3, ParentIsJob DEF QueueBound
<1>. QED
  BY <1>1, <1>4, <1>5, <1>6 DEF Resting

(* No live job is forgotten. *)
LEMMA FollowedStep ==
    ASSUME Placed, Fits, Stored, WorkerHolds, QueueBound, Followed, [Next]_vars PROVE Followed'
<1>1. ASSUME NEW d \in Deliveries, Head(d), UNCHANGED bounds PROVE Followed'
  BY <1>1, StarterIsNoOther
     DEF Head, Goto, Starters, Followed, Sent, Placed, Stored, QueueBound, Running, bounds, stores,
         actors, ghosts, undoings
<1>2. ASSUME NEW d \in Deliveries, Find(d), UNCHANGED bounds PROVE Followed'
  BY <1>2, StarterIsNoOther
     DEF Find, Goto, Starters, Followed, Sent, Placed, Stored, QueueBound, Running, bounds, stores,
         actors, ghosts, undoings
<1>3. ASSUME NEW d \in Deliveries, Register(d), UNCHANGED bounds PROVE Followed'
  BY <1>3, StarterIsNoOther
     DEF Register, Goto, Starters, Followed, Sent, Placed, Stored, QueueBound, Running, bounds,
         stores, actors, ghosts, undoings
<1>4. ASSUME NEW d \in Deliveries, LoadKeyed(d), UNCHANGED bounds PROVE Followed'
  BY <1>4, StarterIsNoOther
     DEF LoadKeyed, Goto, Starters, Followed, Sent, Placed, Stored, QueueBound, Running, bounds,
         stores, actors, ghosts, undoings
<1>5. ASSUME NEW c \in Clicks, Click(c), UNCHANGED bounds PROVE Followed'
  BY <1>5, StarterIsNoOther
     DEF Click, Goto, Starters, Followed, Sent, Placed, Stored, QueueBound, Running, bounds, stores,
         actors, ghosts, undoings
<1>6. ASSUME NEW s \in Starters, GetDocument(s), UNCHANGED bounds PROVE Followed'
  BY <1>6, StarterIsNoOther
     DEF GetDocument, Goto, Followed, Sent, Placed, Stored, QueueBound, Running, bounds, stores,
         actors, ghosts, undoings
<1>7. ASSUME NEW s \in Starters, ListJobs(s), UNCHANGED bounds PROVE Followed'
  BY <1>7, StarterIsNoOther
     DEF ListJobs, Goto, Followed, Sent, Placed, Stored, QueueBound, Running, bounds, stores,
         actors, ghosts, undoings
<1>8. ASSUME NEW s \in Starters, SaveJob(s), UNCHANGED bounds PROVE Followed'
  BY <1>8, StarterIsNoOther
     DEF SaveJob, Goto, SetJob, NewStatus, ParentOf, Followed, Sent, Placed, Stored, QueueBound,
         Running, bounds, stores, actors, ghosts, undoings
<1>9. ASSUME NEW s \in Starters, MarkIndexing(s), UNCHANGED bounds PROVE Followed'
  <2>1. /\ UNCHANGED <<jobs, queue, work, crashed, stale>>
        /\ \/ Reads(s, "mark", "markSave") \/ FindsNone(s, "mark", "enqueue")
           \/ Writes(s, "markSave", "indexing", ParentOf(s), "enqueue")
    BY <1>9, StarterUpdates DEF Stored
  <2>2. /\ \A b \in Actors \ {s} : pc'[b] = pc[b]
        /\ \/ pc[s] = "mark" /\ pc'[s] \in {"markSave", "enqueue"}
           \/ pc[s] = "markSave" /\ pc'[s] = "enqueue"
    BY <2>1, UpdateMoves, StarterIsNoOther, OthersAreActors DEF Handled
  <2>. QED
    BY <2>1, <2>2, StarterIsNoOther, OthersAreActors DEF Followed, Sent, Running
<1>10. ASSUME NEW s \in Starters, Enqueue(s), UNCHANGED bounds PROVE Followed'
  BY <1>10, StarterIsNoOther
     DEF Enqueue, Goto, Followed, Sent, Placed, Stored, QueueBound, Running, bounds, stores, actors,
         ghosts, undoings
<1>11. ASSUME NEW s \in Starters, Handle(s), UNCHANGED bounds PROVE Followed'
  <2>1. /\ UNCHANGED <<work, crashed>> /\ \A b \in Actors \ {s} : pc'[b] = pc[b]
        /\ ParentOf(s) \in JobIds /\ \A j \in JobIds \ {ParentOf(s)} : jobs'[j] = jobs[j]
        /\ stale \subseteq stale'
        /\ \A j \in JobIds : queue[j] > 0 => queue'[j] > 0
        /\ \/ pc[s] = "enqueue" /\ pc'[s] = "refused" /\ UNCHANGED jobs
           \/ /\ pc[s] = "refused" /\ jobs'[ParentOf(s)] \notin Live
           \/ /\ pc[s] \notin {"mark", "markSave", "enqueue", "refused"}
              /\ UNCHANGED jobs
           \/ ParentOf(s) \in stale'
    <3>1. ParentOf(s) \in JobIds /\ s \in Actors
      BY ParentIsJob, StarterIsNoOther
    <3>2. CASE PushRaises(s)
      BY <1>11, <3>1, <3>2 DEF PushRaises, Goto, Placed, QueueBound, ghosts
    <3>3. CASE Refuse(s)
      BY <1>11, <3>1, <3>3
         DEF Refuse, FailParent, SetJob, Handled, Goto, Placed, Stored, ghosts, Live
    <3>4. CASE LoadParent(s)
      BY <1>11, <3>1, <3>4 DEF LoadParent, Goto, Placed, Stored, stores, ghosts
    <3>5. CASE SaveParent(s)
      BY <1>11, <3>1, <3>5 DEF SaveParent, SetJob, Goto, Placed, Stored
    <3>. QED
      BY <1>11, <3>2, <3>3, <3>4, <3>5 DEF Handle
  <2>. QED
    BY <2>1, StarterIsNoOther, OthersAreActors DEF Followed, Sent
<1>12. ASSUME NEW s \in Starters, MarkFailed(s), UNCHANGED bounds PROVE Followed'
  <2>1. /\ UNCHANGED <<jobs, queue, work, crashed, stale>>
        /\ \/ Reads(s, "undo", "undoSave") \/ FindsNone(s, "undo", Handled(s))
           \/ Writes(s, "undoSave", "failed", ParentOf(s), Handled(s))
    BY <1>12, StarterUpdates DEF Stored
  <2>2. /\ \A b \in Actors \ {s} : pc'[b] = pc[b]
        /\ pc[s] \in {"undo", "undoSave"} /\ pc'[s] \in {"undoSave", Handled(s)}
    BY <2>1, UpdateMoves, StarterIsNoOther
  <2>3. Handled(s) \in {"redo", "end"}
    BY DEF Handled
  <2>. QED
    BY <2>1, <2>2, <2>3, StarterIsNoOther, OthersAreActors DEF Followed, Sent, Running
<1>13. ASSUME NEW s \in Starters, Stop(s), UNCHANGED bounds PROVE Followed'
  <2>1. /\ UNCHANGED <<jobs, queue, work, stale>> /\ crashed \subseteq crashed'
        /\ pc[s] \in Unsettled => ParentOf(s) \in crashed'
        /\ \A b \in Actors \ {s} : pc'[b] = pc[b]
    BY <1>13 DEF Stop, Goto, Placed, stores, undoings
  <2>2. \A t \in Starters : pc[t] \in {"mark", "markSave", "enqueue", "refused"} => pc'[t] = pc[t] \/ t = s
    BY <2>1, StarterIsNoOther
  <2>3. \A j \in JobIds : Sent(j) => Sent(j)'
    BY <2>1, <2>2 DEF Sent, Unsettled
  <2>. QED
    BY <2>1, <2>3, StarterIsNoOther, OthersAreActors DEF Followed
<1>14. ASSUME NEW j \in JobIds, Take(j), UNCHANGED bounds PROVE Followed'
  BY <1>14, OthersAreActors, StarterIsNoOther
     DEF Take, Goto, Followed, Sent, Placed, Stored, QueueBound, Running, bounds, stores, actors,
         ghosts, undoings
<1>15. ASSUME LoadDocument, UNCHANGED bounds PROVE Followed'
  <2>1. /\ UNCHANGED <<queue, work, crashed, stale>> /\ \A s \in Starters : pc'[s] = pc[s]
        /\ work \in JobIds /\ \A j \in JobIds \ {work} : jobs'[j] = jobs[j]
        /\ pc'["worker"] \in Running \/ jobs'[work] \notin Live
    BY <1>15, StarterIsNoOther, OthersAreActors, WorkerIsAtJob
       DEF LoadDocument, Proceed, SetJob, Goto, Placed, Stored, ghosts, undoings, Live, Running
  <2>. QED
    BY <2>1 DEF Followed, Sent
<1>16. ASSUME ReportIndexing, UNCHANGED bounds PROVE Followed'
  <2>1. /\ UNCHANGED <<jobs, queue, work, crashed, stale>>
        /\ \/ Reads("worker", "begin", "beginSave") \/ FindsNone("worker", "begin", "insert")
           \/ Writes("worker", "beginSave", "indexing", work, "insert")
    BY <1>16, WorkerUpdates DEF Stored
  <2>2. /\ \A b \in Actors \ {"worker"} : pc'[b] = pc[b]
        /\ \/ pc["worker"] = "begin" /\ pc'["worker"] \in {"beginSave", "insert"}
           \/ pc["worker"] = "beginSave" /\ pc'["worker"] = "insert"
    BY <2>1, UpdateMoves, StarterIsNoOther, OthersAreActors DEF Handled
  <2>. QED
    BY <2>1, <2>2, StarterIsNoOther, OthersAreActors DEF Followed, Sent, Running
<1>17. ASSUME Insert, UNCHANGED bounds PROVE Followed'
  <2>1. /\ UNCHANGED <<jobs, queue, work, crashed, stale>> /\ \A s \in Starters : pc'[s] = pc[s]
        /\ pc'["worker"] \in Running \/ jobs[work] = "cancelled"
    BY <1>17, StarterIsNoOther, OthersAreActors DEF Insert, Goto, Placed, Running, ghosts, undoings
  <2>. QED
    BY <2>1 DEF Followed, Sent, Live
<1>18. ASSUME Check, UNCHANGED bounds PROVE Followed'
  <2>1. /\ UNCHANGED <<jobs, queue, work, crashed, stale>> /\ \A s \in Starters : pc'[s] = pc[s]
        /\ pc'["worker"] \in Running \/ jobs[work] = "cancelled"
    BY <1>18, StarterIsNoOther, OthersAreActors DEF Check, Goto, Placed, Running, ghosts, undoings
  <2>. QED
    BY <2>1 DEF Followed, Sent, Live
<1>19. ASSUME ReportDone, UNCHANGED bounds PROVE Followed'
  <2>1. /\ UNCHANGED <<jobs, queue, work, crashed, stale>>
        /\ \/ Reads("worker", "report", "reportSave") \/ FindsNone("worker", "report", "finish")
           \/ Writes("worker", "reportSave", "done", work, "finish")
    BY <1>19, WorkerUpdates DEF Stored
  <2>2. /\ \A b \in Actors \ {"worker"} : pc'[b] = pc[b]
        /\ \/ pc["worker"] = "report" /\ pc'["worker"] \in {"reportSave", "finish"}
           \/ pc["worker"] = "reportSave" /\ pc'["worker"] = "finish"
    BY <2>1, UpdateMoves, StarterIsNoOther, OthersAreActors DEF Handled
  <2>. QED
    BY <2>1, <2>2, StarterIsNoOther, OthersAreActors DEF Followed, Sent, Running
<1>20. ASSUME ReportCancelled, UNCHANGED bounds PROVE Followed'
  <2>1. /\ UNCHANGED <<jobs, queue, work, crashed, stale>>
        /\ \/ Reads("worker", "cancel", "cancelSave") \/ FindsNone("worker", "cancel", "ack")
           \/ Writes("worker", "cancelSave", "cancelled", work, "ack")
    BY <1>20, WorkerUpdates DEF Stored
  <2>2. /\ \A b \in Actors \ {"worker"} : pc'[b] = pc[b]
        /\ \/ pc["worker"] = "cancel" /\ pc'["worker"] \in {"cancelSave", "ack"}
           \/ pc["worker"] = "cancelSave" /\ pc'["worker"] = "ack"
    BY <2>1, UpdateMoves, StarterIsNoOther, OthersAreActors DEF Handled
  <2>. QED
    BY <2>1, <2>2, StarterIsNoOther, OthersAreActors DEF Followed, Sent, Running
<1>21. ASSUME ReportFailed, UNCHANGED bounds PROVE Followed'
  <2>1. /\ UNCHANGED <<jobs, queue, work, crashed, stale>>
        /\ \/ Reads("worker", "fail", "failSave") \/ FindsNone("worker", "fail", "ack")
           \/ Writes("worker", "failSave", "failed", work, "ack")
    BY <1>21, WorkerUpdates DEF Stored
  <2>2. /\ \A b \in Actors \ {"worker"} : pc'[b] = pc[b]
        /\ \/ pc["worker"] = "fail" /\ pc'["worker"] \in {"failSave", "ack"}
           \/ pc["worker"] = "failSave" /\ pc'["worker"] = "ack"
    BY <2>1, UpdateMoves, StarterIsNoOther, OthersAreActors DEF Handled
  <2>. QED
    BY <2>1, <2>2, StarterIsNoOther, OthersAreActors DEF Followed, Sent, Running
<1>22. ASSUME Finish, UNCHANGED bounds PROVE Followed'
  <2>1. /\ UNCHANGED <<queue, work, crashed, stale>> /\ \A s \in Starters : pc'[s] = pc[s]
        /\ work \in JobIds /\ \A j \in JobIds \ {work} : jobs'[j] = jobs[j]
        /\ pc'["worker"] \in Running \/ jobs'[work] \notin Live
    BY <1>22, StarterIsNoOther, OthersAreActors, WorkerIsAtJob
       DEF Finish, Proceed, SetJob, Goto, Placed, Stored, ghosts, undoings, Live, Running
  <2>. QED
    BY <2>1 DEF Followed, Sent
<1>23. ASSUME Acknowledge, UNCHANGED bounds PROVE Followed'
  BY <1>23, OthersAreActors, StarterIsNoOther
     DEF Acknowledge, Goto, Followed, Sent, Placed, Stored, QueueBound, Running, bounds, stores,
         actors, ghosts, undoings
<1>24. ASSUME NEW t \in Owners, DeletePages(t), UNCHANGED bounds PROVE Followed'
  BY <1>24
     DEF DeletePages, Followed, Sent, Placed, Stored, QueueBound, Running, bounds, stores, actors,
         ghosts, undoings
<1>25. ASSUME Claim, UNCHANGED bounds PROVE Followed'
  BY <1>25
     DEF Claim, Followed, Sent, Placed, Stored, QueueBound, Running, bounds, stores, actors, ghosts,
            undoings
<1>26. ASSUME ReadDocument, UNCHANGED bounds PROVE Followed'
  BY <1>26, OthersAreActors, StarterIsNoOther
     DEF ReadDocument, Goto, Followed, Sent, Placed, Stored, QueueBound, Running, bounds, stores,
         actors, ghosts, undoings
<1>27. ASSUME Export, UNCHANGED bounds PROVE Followed'
  BY <1>27, OthersAreActors, StarterIsNoOther
     DEF Export, Goto, Followed, Sent, Placed, Stored, QueueBound, Running, bounds, stores, actors,
         ghosts, undoings
<1>28. ASSUME CancelJobs, UNCHANGED bounds PROVE Followed'
  BY <1>28, OthersAreActors, StarterIsNoOther
     DEF CancelJobs, Goto, Followed, Sent, Placed, Stored, QueueBound, Running, bounds, stores,
         actors, ghosts, undoings
<1>29. ASSUME Schedule, UNCHANGED bounds PROVE Followed'
  BY <1>29, OthersAreActors, StarterIsNoOther
     DEF Schedule, Goto, LightragTenant, Followed, Sent, Placed, Stored, QueueBound, Running,
         bounds, stores, actors, ghosts, undoings
<1>30. ASSUME DeleteBlob, UNCHANGED bounds PROVE Followed'
  BY <1>30, OthersAreActors, StarterIsNoOther
     DEF DeleteBlob, Goto, Followed, Sent, Placed, Stored, QueueBound, Running, bounds, stores,
         actors, ghosts, undoings
<1>31. ASSUME DeleteJobs, UNCHANGED bounds PROVE Followed'
  <2>1. /\ UNCHANGED <<queue, work, crashed, stale>> /\ \A s \in Starters : pc'[s] = pc[s]
        /\ pc'["worker"] = pc["worker"] /\ \A j \in JobIds : jobs'[j] \in Live => jobs[j] \in Live
    BY <1>31, StarterIsNoOther, OthersAreActors
       DEF DeleteJobs, Goto, Placed, Stored, ghosts, undoings, Live
  <2>. QED
    BY <2>1 DEF Followed, Sent
<1>32. ASSUME DeleteRow, UNCHANGED bounds PROVE Followed'
  BY <1>32, OthersAreActors, StarterIsNoOther
     DEF DeleteRow, Goto, Followed, Sent, Placed, Stored, QueueBound, Running, bounds, stores,
         actors, ghosts, undoings
<1>33. ASSUME DeleteTenantData, UNCHANGED bounds PROVE Followed'
  <2>1. /\ UNCHANGED <<queue, work, crashed, stale>> /\ \A s \in Starters : pc'[s] = pc[s]
        /\ pc'["worker"] = pc["worker"] /\ \A j \in JobIds : jobs'[j] \in Live => jobs[j] \in Live
    BY <1>33, StarterIsNoOther, OthersAreActors
       DEF DeleteTenantData, Goto, Placed, Stored, ghosts, undoings, Live
  <2>. QED
    BY <2>1 DEF Followed, Sent
<1>34. CASE UNCHANGED vars
  BY <1>34
     DEF vars, Followed, Sent, Placed, Stored, QueueBound, Running, bounds, stores, actors, ghosts,
            undoings
<1>35. ASSUME NEW d \in Deliveries, MarkAgain(d), UNCHANGED bounds PROVE Followed'
  <2>1. /\ UNCHANGED <<jobs, queue, work, crashed, stale>>
        /\ \/ Reads(d, "redo", "redoSave") \/ FindsNone(d, "redo", "end")
           \/ Writes(d, "redoSave", "failed", doc[d].job, "end")
    BY <1>35, StarterUpdates DEF Stored, Starters
  <2>2. /\ d \in Starters /\ \A b \in Actors \ {d} : pc'[b] = pc[b]
        /\ pc[d] \in {"redo", "redoSave"} /\ pc'[d] \in {"redoSave", "end"}
    BY <2>1, UpdateMoves, StarterIsNoOther, OthersAreActors DEF Starters
  <2>. QED
    BY <2>1, <2>2, StarterIsNoOther, OthersAreActors DEF Followed, Sent, Running
<1>. QED
  BY <1>1, <1>2, <1>3, <1>4, <1>5, <1>6, <1>7, <1>8, <1>9, <1>10, <1>11, <1>12, <1>13, <1>14, <1>15,
     <1>16, <1>17, <1>18, <1>19, <1>20, <1>21, <1>22, <1>23, <1>24, <1>25, <1>26, <1>27, <1>28,
     <1>29, <1>30, <1>31, <1>32, <1>33, <1>34, <1>35
     DEF Next, Callback, Start, Handle, Worker, Delete, Serve

LEMMA SoundInit == ASSUME Init PROVE Sound
<1>1. uploader \in Owners
  BY IntakeAssumption DEF Init, Owners
<1>2. Placed /\ Fits
  BY StarterIsNoOther, OthersAreActors
     DEF Init, Placed, Fits, Holding, Steps, StarterSteps, WorkerSteps, ApiSteps
<1>3. Stored
  <2>1. jobs \in [JobIds -> {"none"} \cup Live \cup Terminal]
    BY DEF Init
  <2>2. /\ blob \in BOOLEAN /\ claimed \in BOOLEAN /\ row \in Rows \cup {None}
        /\ pages \subseteq Owners /\ deletions \subseteq Owners
    BY DEF Init
  <2>3. faults \in 0..MaxFaults
    BY IntakeAssumption DEF Init
  <2>4. copy = [s \in Starters |-> None] /\ \A s \in Starters : pc[s] = "idle"
    BY StarterIsNoOther DEF Init
  <2>5. /\ copy \in [Starters -> {"none", None} \cup Live \cup Terminal]
        /\ \A s \in Starters :
               pc[s] = "engineSave" => copy[s] \in {"none"} \cup Live \cup Terminal
    BY <2>4
  <2>. QED
    BY <1>1, <2>1, <2>2, <2>3, <2>5 DEF Stored
<1>4. WorkerHolds
  BY OthersAreActors DEF Init, WorkerHolds
<1>5. QueueBound
  <2>1. queue \in [JobIds -> Nat] /\ \A j \in JobIds : queue[j] = 0
    BY DEF Init
  <2>2. \A j \in JobIds : Cardinality(Ended(j)) \in Nat
    BY EndedIsFinite
  <2>. QED
    BY <2>1, <2>2 DEF QueueBound
<1>6. Followed
  BY DEF Init, Followed, Live
<1>. QED
  BY <1>1, <1>2, <1>3, <1>4, <1>5, <1>6 DEF Sound, Typed

LEMMA SoundStep == ASSUME Sound, [Next]_vars PROVE Sound'
  BY PlacedStep, StoredStep, WorkerHoldsStep, QueueBoundStep, FollowedStep DEF Sound, Typed

LEMMA SoundRows == ASSUME Sound PROVE RowsAreSound
<1>1. queue \in [JobIds -> 0..Cardinality(Starters)]
  <2>1. Cardinality(Starters) \in Nat
    BY IntakeAssumption, FS_CardinalityType DEF Starters
  <2>2. \A j \in JobIds : /\ Cardinality(Ended(j)) \in Nat
                          /\ Cardinality(Ended(j)) <= Cardinality(Starters)
    BY EndedIsFinite
  <2>3. queue \in [JobIds -> Nat] /\ \A j \in JobIds : queue[j] <= Cardinality(Ended(j))
    BY DEF Sound, Typed, QueueBound
  <2>4. \A j \in JobIds : queue[j] \in 0..Cardinality(Starters)
    BY <2>1, <2>2, <2>3
  <2>. QED
    BY <2>3, <2>4
<1>2. work \in JobIds \cup {None}
  BY DEF Sound, Typed, WorkerHolds
<1>3. TypeOK
  BY <1>1, <1>2 DEF Sound, Typed, Stored, WorkerHolds, Fits, Holding, TypeOK
<1>4. NoOrphan
  BY DEF Sound, Followed, Sent, NoOrphan
<1>. QED
  BY <1>3, <1>4 DEF RowsAreSound

(* Rows, receipts and copies have their types, and a live job always has a
   receipt, the worker, or a start that is about to queue it, unless that start
   died (document_service.start_indexing and the handler of a failed enqueue). *)
THEOREM NoJobIsForgotten == Spec => []RowsAreSound
<1>1. Init => Sound
  BY SoundInit
<1>2. Sound /\ [Next]_vars => Sound'
  BY SoundStep
<1>3. Sound => RowsAreSound
  BY SoundRows
<1>. QED
  BY <1>1, <1>2, <1>3, PTL DEF Spec

-----------------------------------------------------------------------------
(* What a deletion leaves. *)

LEMMA UpdateCopies ==
    ASSUME Placed, NEW a \in Actors, NEW from, NEW mid, NEW to, NEW status, NEW j,
           Reads(a, from, mid) \/ FindsNone(a, from, to) \/ Writes(a, mid, status, j, to)
    PROVE /\ \A b \in Actors : doc'[b] # None => doc'[b] = doc[b] \/ (doc'[b] = row /\ row # None)
          /\ row' # None => \/ row' = row
                            \/ row' \in Rows /\ \E b \in Actors : doc[b] \in Rows /\ row'.owner = doc[b].owner
  BY DEF Placed, Reads, FindsNone, Writes

(* Until the document is claimed, all there is of it is the uploader's. *)
LEMMA OwnedStep ==
    ASSUME Typed, Owned, [Next]_vars PROVE Owned'
<1>0. USE DEF Typed
<1>1. ASSUME NEW d \in Deliveries, Head(d), UNCHANGED bounds PROVE Owned'
  BY <1>1 DEF Head, Goto, Owned, bounds, stores, actors, ghosts, undoings
<1>2. ASSUME NEW d \in Deliveries, Find(d), UNCHANGED bounds PROVE Owned'
  BY <1>2 DEF Find, Goto, Owned, bounds, stores, actors, ghosts, undoings
<1>3. ASSUME NEW d \in Deliveries, Register(d), UNCHANGED bounds PROVE Owned'
  BY <1>3, RowFresh DEF Register, Goto, Stored, Owned, bounds, stores, actors, ghosts, undoings
<1>4. ASSUME NEW d \in Deliveries, LoadKeyed(d), UNCHANGED bounds PROVE Owned'
  BY <1>4 DEF LoadKeyed, Goto, Owned, bounds, stores, actors, ghosts, undoings
<1>5. ASSUME NEW c \in Clicks, Click(c), UNCHANGED bounds PROVE Owned'
  BY <1>5 DEF Click, Goto, Owned, bounds, stores, actors, ghosts, undoings
<1>6. ASSUME NEW s \in Starters, GetDocument(s), UNCHANGED bounds PROVE Owned'
  BY <1>6 DEF GetDocument, Goto, Owned, bounds, stores, actors, ghosts, undoings
<1>7. ASSUME NEW s \in Starters, ListJobs(s), UNCHANGED bounds PROVE Owned'
  BY <1>7 DEF ListJobs, Goto, Owned, bounds, stores, actors, ghosts, undoings
<1>8. ASSUME NEW s \in Starters, SaveJob(s), UNCHANGED bounds PROVE Owned'
  BY <1>8
     DEF SaveJob, Goto, SetJob, NewStatus, ParentOf, Owned, bounds, stores, actors, ghosts, undoings
<1>9. ASSUME NEW s \in Starters, MarkIndexing(s), UNCHANGED bounds PROVE Owned'
  <2>1. /\ UNCHANGED <<claimed, pages, deletions, tenant>>
        /\ \/ Reads(s, "mark", "markSave") \/ FindsNone(s, "mark", "enqueue")
           \/ Writes(s, "markSave", "indexing", ParentOf(s), "enqueue")
    BY <1>9, StarterUpdates DEF Stored
  <2>2. \A b \in Actors : doc'[b] # None => doc'[b] = doc[b] \/ (doc'[b] = row /\ row # None)
    BY <2>1, UpdateCopies, StarterIsNoOther, OthersAreActors
  <2>3. row' # None =>
            \/ row' = row
            \/ row' \in Rows /\ \E b \in Actors : doc[b] \in Rows /\ row'.owner = doc[b].owner
    BY <2>1, UpdateCopies, StarterIsNoOther, OthersAreActors
  <2>. QED
    BY <1>9, <2>1, <2>2, <2>3, RowFields DEF Owned, bounds
<1>10. ASSUME NEW s \in Starters, Enqueue(s), UNCHANGED bounds PROVE Owned'
  BY <1>10 DEF Enqueue, Goto, Owned, bounds, stores, actors, ghosts, undoings
<1>11. ASSUME NEW s \in Starters, Handle(s), UNCHANGED bounds PROVE Owned'
  BY <1>11, HandlerSteps DEF Owned, bounds
<1>12. ASSUME NEW s \in Starters, MarkFailed(s), UNCHANGED bounds PROVE Owned'
  <2>1. /\ UNCHANGED <<claimed, pages, deletions, tenant>>
        /\ \/ Reads(s, "undo", "undoSave") \/ FindsNone(s, "undo", Handled(s))
           \/ Writes(s, "undoSave", "failed", ParentOf(s), Handled(s))
    BY <1>12, StarterUpdates DEF Stored
  <2>2. \A b \in Actors : doc'[b] # None => doc'[b] = doc[b] \/ (doc'[b] = row /\ row # None)
    BY <2>1, UpdateCopies, StarterIsNoOther, OthersAreActors
  <2>3. row' # None =>
            \/ row' = row
            \/ row' \in Rows /\ \E b \in Actors : doc[b] \in Rows /\ row'.owner = doc[b].owner
    BY <2>1, UpdateCopies, StarterIsNoOther, OthersAreActors
  <2>. QED
    BY <1>12, <2>1, <2>2, <2>3, RowFields DEF Owned, bounds
<1>13. ASSUME NEW s \in Starters, Stop(s), UNCHANGED bounds PROVE Owned'
  BY <1>13 DEF Stop, Goto, Placed, Owned, bounds, stores, actors, ghosts, undoings
<1>14. ASSUME NEW j \in JobIds, Take(j), UNCHANGED bounds PROVE Owned'
  BY <1>14 DEF Take, Goto, Owned, bounds, stores, actors, ghosts, undoings
<1>15. ASSUME LoadDocument, UNCHANGED bounds PROVE Owned'
  BY <1>15
     DEF LoadDocument, Proceed, SetJob, Goto, LightragTenant, Stored, Owned, bounds, stores, actors,
         ghosts, undoings
<1>16. ASSUME ReportIndexing, UNCHANGED bounds PROVE Owned'
  <2>1. /\ UNCHANGED <<claimed, pages, deletions, tenant>>
        /\ \/ Reads("worker", "begin", "beginSave") \/ FindsNone("worker", "begin", "insert")
           \/ Writes("worker", "beginSave", "indexing", work, "insert")
    BY <1>16, WorkerUpdates DEF Stored
  <2>2. \A b \in Actors : doc'[b] # None => doc'[b] = doc[b] \/ (doc'[b] = row /\ row # None)
    BY <2>1, UpdateCopies, StarterIsNoOther, OthersAreActors
  <2>3. row' # None =>
            \/ row' = row
            \/ row' \in Rows /\ \E b \in Actors : doc[b] \in Rows /\ row'.owner = doc[b].owner
    BY <2>1, UpdateCopies, StarterIsNoOther, OthersAreActors
  <2>. QED
    BY <1>16, <2>1, <2>2, <2>3, RowFields DEF Owned, bounds
<1>17. ASSUME Insert, UNCHANGED bounds PROVE Owned'
  BY <1>17, IntakeAssumption
     DEF Insert, Goto, WorkerHolds, Owners, Owned, bounds, stores, actors, ghosts, undoings
<1>18. ASSUME Check, UNCHANGED bounds PROVE Owned'
  BY <1>18 DEF Check, Goto, Owned, bounds, stores, actors, ghosts, undoings
<1>19. ASSUME ReportDone, UNCHANGED bounds PROVE Owned'
  <2>1. /\ UNCHANGED <<claimed, pages, deletions, tenant>>
        /\ \/ Reads("worker", "report", "reportSave") \/ FindsNone("worker", "report", "finish")
           \/ Writes("worker", "reportSave", "done", work, "finish")
    BY <1>19, WorkerUpdates DEF Stored
  <2>2. \A b \in Actors : doc'[b] # None => doc'[b] = doc[b] \/ (doc'[b] = row /\ row # None)
    BY <2>1, UpdateCopies, StarterIsNoOther, OthersAreActors
  <2>3. row' # None =>
            \/ row' = row
            \/ row' \in Rows /\ \E b \in Actors : doc[b] \in Rows /\ row'.owner = doc[b].owner
    BY <2>1, UpdateCopies, StarterIsNoOther, OthersAreActors
  <2>. QED
    BY <1>19, <2>1, <2>2, <2>3, RowFields DEF Owned, bounds
<1>20. ASSUME ReportCancelled, UNCHANGED bounds PROVE Owned'
  <2>1. /\ UNCHANGED <<claimed, pages, deletions, tenant>>
        /\ \/ Reads("worker", "cancel", "cancelSave") \/ FindsNone("worker", "cancel", "ack")
           \/ Writes("worker", "cancelSave", "cancelled", work, "ack")
    BY <1>20, WorkerUpdates DEF Stored
  <2>2. \A b \in Actors : doc'[b] # None => doc'[b] = doc[b] \/ (doc'[b] = row /\ row # None)
    BY <2>1, UpdateCopies, StarterIsNoOther, OthersAreActors
  <2>3. row' # None =>
            \/ row' = row
            \/ row' \in Rows /\ \E b \in Actors : doc[b] \in Rows /\ row'.owner = doc[b].owner
    BY <2>1, UpdateCopies, StarterIsNoOther, OthersAreActors
  <2>. QED
    BY <1>20, <2>1, <2>2, <2>3, RowFields DEF Owned, bounds
<1>21. ASSUME ReportFailed, UNCHANGED bounds PROVE Owned'
  <2>1. /\ UNCHANGED <<claimed, pages, deletions, tenant>>
        /\ \/ Reads("worker", "fail", "failSave") \/ FindsNone("worker", "fail", "ack")
           \/ Writes("worker", "failSave", "failed", work, "ack")
    BY <1>21, WorkerUpdates DEF Stored
  <2>2. \A b \in Actors : doc'[b] # None => doc'[b] = doc[b] \/ (doc'[b] = row /\ row # None)
    BY <2>1, UpdateCopies, StarterIsNoOther, OthersAreActors
  <2>3. row' # None =>
            \/ row' = row
            \/ row' \in Rows /\ \E b \in Actors : doc[b] \in Rows /\ row'.owner = doc[b].owner
    BY <2>1, UpdateCopies, StarterIsNoOther, OthersAreActors
  <2>. QED
    BY <1>21, <2>1, <2>2, <2>3, RowFields DEF Owned, bounds
<1>22. ASSUME Finish, UNCHANGED bounds PROVE Owned'
  BY <1>22 DEF Finish, Proceed, SetJob, Goto, Owned, bounds, stores, actors, ghosts, undoings
<1>23. ASSUME Acknowledge, UNCHANGED bounds PROVE Owned'
  BY <1>23 DEF Acknowledge, Goto, Owned, bounds, stores, actors, ghosts, undoings
<1>24. ASSUME NEW t \in Owners, DeletePages(t), UNCHANGED bounds PROVE Owned'
  BY <1>24 DEF DeletePages, Owned, bounds, stores, actors, ghosts, undoings
<1>25. ASSUME Claim, UNCHANGED bounds PROVE Owned'
  BY <1>25 DEF Claim, Owned, bounds, stores, actors, ghosts, undoings
<1>26. ASSUME ReadDocument, UNCHANGED bounds PROVE Owned'
  BY <1>26 DEF ReadDocument, Goto, Placed, Owned, bounds, stores, actors, ghosts, undoings
<1>27. ASSUME Export, UNCHANGED bounds PROVE Owned'
  BY <1>27 DEF Export, Goto, Placed, Owned, bounds, stores, actors, ghosts, undoings
<1>28. ASSUME CancelJobs, UNCHANGED bounds PROVE Owned'
  BY <1>28, RowCancelled
     DEF CancelJobs, Goto, Stored, Owned, bounds, stores, actors, ghosts, undoings
<1>29. ASSUME Schedule, UNCHANGED bounds PROVE Owned'
  BY <1>29, OthersAreActors, RowFields
     DEF Schedule, Goto, LightragTenant, Fits, Holding, Placed, Owned, bounds, stores, actors,
         ghosts, undoings
<1>30. ASSUME DeleteBlob, UNCHANGED bounds PROVE Owned'
  BY <1>30 DEF DeleteBlob, Goto, Owned, bounds, stores, actors, ghosts, undoings
<1>31. ASSUME DeleteJobs, UNCHANGED bounds PROVE Owned'
  BY <1>31 DEF DeleteJobs, Goto, Owned, bounds, stores, actors, ghosts, undoings
<1>32. ASSUME DeleteRow, UNCHANGED bounds PROVE Owned'
  BY <1>32 DEF DeleteRow, Goto, Owned, bounds, stores, actors, ghosts, undoings
<1>33. ASSUME DeleteTenantData, UNCHANGED bounds PROVE Owned'
  BY <1>33 DEF DeleteTenantData, Goto, Owned, bounds, stores, actors, ghosts, undoings
<1>34. CASE UNCHANGED vars
  BY <1>34 DEF vars, Owned, bounds, stores, actors, ghosts, undoings
<1>35. ASSUME NEW d \in Deliveries, MarkAgain(d), UNCHANGED bounds PROVE Owned'
  <2>1. /\ UNCHANGED <<claimed, pages, deletions, tenant>>
        /\ \/ Reads(d, "redo", "redoSave") \/ FindsNone(d, "redo", "end")
           \/ Writes(d, "redoSave", "failed", doc[d].job, "end")
    BY <1>35, StarterUpdates DEF Stored, Starters
  <2>2. \A b \in Actors : doc'[b] # None => doc'[b] = doc[b] \/ (doc'[b] = row /\ row # None)
    BY <2>1, UpdateCopies, StarterIsNoOther, OthersAreActors DEF Starters
  <2>3. row' # None =>
            \/ row' = row
            \/ row' \in Rows /\ \E b \in Actors : doc[b] \in Rows /\ row'.owner = doc[b].owner
    BY <2>1, UpdateCopies, StarterIsNoOther, OthersAreActors DEF Starters
  <2>. QED
    BY <1>35, <2>1, <2>2, <2>3, RowFields DEF Owned, bounds
<1>. QED
  BY <1>1, <1>2, <1>3, <1>4, <1>5, <1>6, <1>7, <1>8, <1>9, <1>10, <1>11, <1>12, <1>13, <1>14, <1>15,
     <1>16, <1>17, <1>18, <1>19, <1>20, <1>21, <1>22, <1>23, <1>24, <1>25, <1>26, <1>27, <1>28,
     <1>29, <1>30, <1>31, <1>32, <1>33, <1>34, <1>35
     DEF Next, Callback, Start, Handle, Worker, Delete, Serve

(* Before a deletion a document is marked before its job is queued. *)
LEMMA CautiousStep ==
    ASSUME Typed, Cautious, [Next]_vars PROVE Cautious'
<1>1. ASSUME NEW d \in Deliveries, Head(d), UNCHANGED bounds PROVE Cautious'
  BY <1>1, StarterIsNoOther, OthersAreActors
     DEF Head, Goto, Cautious, Careful, Untouched, Deleted, Typed, Placed, bounds, stores, actors,
         ghosts, undoings, Starters
<1>2. ASSUME NEW d \in Deliveries, Find(d), UNCHANGED bounds PROVE Cautious'
  BY <1>2, StarterIsNoOther, OthersAreActors
     DEF Find, Goto, Cautious, Careful, Untouched, Deleted, Typed, Placed, bounds, stores, actors,
         ghosts, undoings, Starters
<1>3. ASSUME NEW d \in Deliveries, Register(d), UNCHANGED bounds PROVE Cautious'
  <2>0. SUFFICES ASSUME ~Deleted, ~reset, row = None, Careful PROVE Careful'
    <3>1. ~reset' => ~reset /\ row = None
      BY <1>3 DEF Register
    <3>2. ~Deleted' => ~Deleted
      BY <1>3, StarterIsNoOther, OthersAreActors
         DEF Register, Goto, Deleted, Typed, Placed, Starters
    <3>. QED
      BY <3>1, <3>2 DEF Cautious
  <2>1. /\ UNCHANGED <<jobs, copy, queue, pages, deletions>> /\ d \in Starters
        /\ pc'[d] = "getDoc" /\ \A b \in Actors \ {d} : pc'[b] = pc[b]
    BY <1>3, StarterIsNoOther DEF Register, Goto, Typed, Placed, Starters
  <2>2. row' \in Rows /\ row'.index = "pending" /\ row' # None
    BY <1>3, RowFresh, RowFields DEF Register, Typed, Stored
  <2>. QED
    BY <2>0, <2>1, <2>2, StarterIsNoOther, OthersAreActors DEF Careful, Untouched
<1>4. ASSUME NEW d \in Deliveries, LoadKeyed(d), UNCHANGED bounds PROVE Cautious'
  BY <1>4, StarterIsNoOther, OthersAreActors
     DEF LoadKeyed, Goto, Cautious, Careful, Untouched, Deleted, Typed, Placed, bounds, stores,
         actors, ghosts, undoings, Starters
<1>5. ASSUME NEW c \in Clicks, Click(c), UNCHANGED bounds PROVE Cautious'
  BY <1>5, StarterIsNoOther, OthersAreActors
     DEF Click, Goto, Cautious, Careful, Untouched, Deleted, Typed, Placed, bounds, stores, actors,
         ghosts, undoings, Starters
<1>6. ASSUME NEW s \in Starters, GetDocument(s), UNCHANGED bounds PROVE Cautious'
  BY <1>6, StarterIsNoOther, OthersAreActors
     DEF GetDocument, Goto, Cautious, Careful, Untouched, Deleted, Typed, Placed, bounds, stores,
         actors, ghosts, undoings, Starters
<1>7. ASSUME NEW s \in Starters, ListJobs(s), UNCHANGED bounds PROVE Cautious'
  BY <1>7, StarterIsNoOther, OthersAreActors
     DEF ListJobs, Goto, Cautious, Careful, Untouched, Deleted, Typed, Placed, bounds, stores,
         actors, ghosts, undoings, Starters
<1>8. ASSUME NEW s \in Starters, SaveJob(s), UNCHANGED bounds PROVE Cautious'
  BY <1>8, StarterIsNoOther, OthersAreActors
     DEF SaveJob, Goto, SetJob, NewStatus, ParentOf, Cautious, Careful, Untouched, Deleted, Typed,
         Placed, bounds, stores, actors, ghosts, undoings, Starters
<1>9. ASSUME NEW s \in Starters, MarkIndexing(s), UNCHANGED bounds PROVE Cautious'
  <2>0. SUFFICES ASSUME Careful PROVE Careful'
    <3>1. UNCHANGED reset /\ pc'["api"] = pc["api"]
      BY <1>9, StarterUpdates, UpdateMoves, StarterIsNoOther, OthersAreActors DEF Typed, Stored
    <3>. QED
      BY <3>1 DEF Cautious, Deleted
  <2>1. /\ UNCHANGED <<jobs, copy, queue, pages, deletions, reset>>
        /\ \/ Reads(s, "mark", "markSave") \/ FindsNone(s, "mark", "enqueue")
           \/ Writes(s, "markSave", "indexing", ParentOf(s), "enqueue")
    BY <1>9, StarterUpdates DEF Typed, Stored
  <2>2. /\ \A b \in Actors \ {s} : pc'[b] = pc[b]
        /\ \/ pc[s] = "mark" /\ pc'[s] \in {"markSave", "enqueue"}
           \/ pc[s] = "markSave" /\ pc'[s] = "enqueue"
    BY <2>1, UpdateMoves, StarterIsNoOther, OthersAreActors DEF Typed
  <2>3. row # None /\ row' # None /\ (row' = row \/ row'.index = "indexing")
    BY <2>0, <2>1, <2>2, RowFields DEF Careful, Reads, FindsNone, Writes
  <2>4. pc'[s] = "enqueue" => row'.index = "indexing"
    BY <2>0, <2>1, <2>2, <2>3 DEF Typed, Placed, Reads, FindsNone, Writes
  <2>. QED
    BY <2>0, <2>1, <2>2, <2>3, <2>4, StarterIsNoOther, OthersAreActors DEF Careful, Untouched
<1>10. ASSUME NEW s \in Starters, Enqueue(s), UNCHANGED bounds PROVE Cautious'
  BY <1>10, StarterIsNoOther, OthersAreActors
     DEF Enqueue, Goto, Cautious, Careful, Untouched, Deleted, Typed, Placed, bounds, stores,
         actors, ghosts, undoings, Starters
<1>11. ASSUME NEW s \in Starters, Handle(s), UNCHANGED bounds PROVE Cautious'
  <2>0. SUFFICES ASSUME Careful PROVE Careful'
    BY <1>11, HandlerSteps, StarterIsNoOther, OthersAreActors DEF Cautious, Deleted, Typed
  <2>1. ParentOf(s) \in JobIds
    BY ParentIsJob
  <2>2. /\ pc[s] \in {"enqueue", "refused", "engine", "engineSave"}
        /\ UNCHANGED <<row, deletions>> /\ pc'["worker"] = pc["worker"]
    BY <1>11, HandlerSteps, StarterIsNoOther, OthersAreActors DEF Typed
  <2>3. /\ \A j \in JobIds : jobs'[j] # "cancelled"
        /\ \A t \in Starters : pc'[t] = "engineSave" => copy'[t] # "cancelled"
    <3>1. /\ \A j \in JobIds \ {ParentOf(s)} : jobs'[j] = jobs[j]
          /\ \/ jobs'[ParentOf(s)] \in {jobs[ParentOf(s)], "failed"}
             \/ jobs'[ParentOf(s)] = copy[s] /\ pc[s] = "engineSave"
      BY <1>11, <2>1, HandlerSteps DEF Typed, Stored
    <3>2. pc'[s] = "engineSave" => copy'[s] = jobs[ParentOf(s)]
      BY <1>11, HandlerSteps DEF Typed
    <3>3. \A t \in Starters \ {s} : pc'[t] = pc[t] /\ copy'[t] = copy[t]
      BY <1>11, <2>1, StarterIsNoOther
         DEF Handle, PushRaises, Refuse, LoadParent, SaveParent, Goto, Typed, Stored, Placed
    <3>. QED
      BY <2>0, <2>1, <3>1, <3>2, <3>3 DEF Careful
  <2>4. row # None
    BY <2>0, <2>2 DEF Careful
  <2>5. row.index = "pending" => pc[s] # "enqueue" /\ Untouched
    BY <2>0, <2>4 DEF Careful
  <2>6. row.index = "pending" => UNCHANGED <<pages, queue>> /\ \A t \in Starters : pc'[t] # "enqueue"
    <3>1. pc[s] # "enqueue" => UNCHANGED queue
      BY <1>11, HandlerSteps DEF Typed
    <3>2. UNCHANGED pages /\ \A t \in Starters : pc'[t] = pc[t] \/ pc'[t] # "enqueue"
      BY <1>11, HandlerSteps, StarterIsNoOther DEF Typed
    <3>. QED
      BY <2>0, <2>4, <2>5, <3>1, <3>2 DEF Careful
  <2>. QED
    BY <2>0, <2>2, <2>3, <2>4, <2>5, <2>6 DEF Careful, Untouched
<1>12. ASSUME NEW s \in Starters, MarkFailed(s), UNCHANGED bounds PROVE Cautious'
  <2>0. SUFFICES ASSUME Careful PROVE Careful'
    <3>1. UNCHANGED reset /\ pc'["api"] = pc["api"]
      BY <1>12, StarterUpdates, UpdateMoves, StarterIsNoOther, OthersAreActors DEF Typed, Stored
    <3>. QED
      BY <3>1 DEF Cautious, Deleted
  <2>1. /\ UNCHANGED <<jobs, copy, queue, pages, deletions, reset>>
        /\ \/ Reads(s, "undo", "undoSave") \/ FindsNone(s, "undo", Handled(s))
           \/ Writes(s, "undoSave", "failed", ParentOf(s), Handled(s))
    BY <1>12, StarterUpdates DEF Typed, Stored
  <2>2. /\ \A b \in Actors \ {s} : pc'[b] = pc[b]
        /\ pc[s] \in {"undo", "undoSave"} /\ pc'[s] \in {"undoSave", "redo", "end"}
    BY <2>1, UpdateMoves, StarterIsNoOther, OthersAreActors DEF Typed, Handled
  <2>3. row # None /\ row' # None /\ (row' = row \/ row'.index = "failed")
    BY <2>0, <2>1, <2>2, RowFields DEF Careful, Reads, FindsNone, Writes
  <2>. QED
    BY <2>0, <2>1, <2>2, <2>3, StarterIsNoOther, OthersAreActors DEF Careful, Untouched
<1>13. ASSUME NEW s \in Starters, Stop(s), UNCHANGED bounds PROVE Cautious'
  BY <1>13, StarterIsNoOther, OthersAreActors
     DEF Stop, Goto, Cautious, Careful, Untouched, Deleted, Typed, Placed, bounds, stores, actors,
         ghosts, undoings, Starters
<1>14. ASSUME NEW j \in JobIds, Take(j), UNCHANGED bounds PROVE Cautious'
  BY <1>14, StarterIsNoOther, OthersAreActors
     DEF Take, Goto, Cautious, Careful, Untouched, Deleted, Typed, Placed, bounds, stores, actors,
         ghosts, undoings, Starters
<1>15. ASSUME LoadDocument, UNCHANGED bounds PROVE Cautious'
  <2>0. SUFFICES ASSUME Careful PROVE Careful'
    BY <1>15, OthersAreActors
       DEF LoadDocument, Proceed, SetJob, Goto, Cautious, Deleted, Typed, Placed, ghosts, undoings
  <2>1. work \in JobIds /\ jobs[work] # "cancelled" /\ row # None /\ row.index \notin {"pending", "cancelled"}
    BY <1>15, <2>0, WorkerIsAtJob DEF LoadDocument, Typed, Careful, Untouched
  <2>2. UNCHANGED <<row, copy, deletions>> /\ pc'["worker"] \notin {"cancel", "cancelSave"}
    BY <1>15, <2>0, <2>1, OthersAreActors
       DEF LoadDocument, Proceed, SetJob, Goto, Typed, Placed, Careful
  <2>3. \A j \in JobIds : jobs'[j] # "cancelled"
    BY <1>15, <2>0, <2>1 DEF LoadDocument, Proceed, SetJob, Goto, Typed, Stored, Careful
  <2>4. \A s \in Starters : pc'[s] = pc[s]
    BY <1>15, StarterIsNoOther DEF LoadDocument, Proceed, Goto, Typed, Placed
  <2>. QED
    BY <2>0, <2>1, <2>2, <2>3, <2>4 DEF Careful
<1>16. ASSUME ReportIndexing, UNCHANGED bounds PROVE Cautious'
  <2>0. SUFFICES ASSUME Careful PROVE Careful'
    <3>1. UNCHANGED reset /\ pc'["api"] = pc["api"]
      BY <1>16, WorkerUpdates, UpdateMoves, StarterIsNoOther, OthersAreActors DEF Typed, Stored
    <3>. QED
      BY <3>1 DEF Cautious, Deleted
  <2>1. /\ UNCHANGED <<jobs, copy, queue, pages, deletions, reset>>
        /\ \/ Reads("worker", "begin", "beginSave") \/ FindsNone("worker", "begin", "insert")
           \/ Writes("worker", "beginSave", "indexing", work, "insert")
    BY <1>16, WorkerUpdates DEF Typed, Stored
  <2>2. /\ \A b \in Actors \ {"worker"} : pc'[b] = pc[b]
        /\ \/ pc["worker"] = "begin" /\ pc'["worker"] \in {"beginSave", "insert"}
           \/ pc["worker"] = "beginSave" /\ pc'["worker"] = "insert"
    BY <2>1, UpdateMoves, StarterIsNoOther, OthersAreActors DEF Typed
  <2>3. row # None /\ row' # None /\ row.index # "pending" /\ (row' = row \/ row'.index = "indexing")
    BY <2>0, <2>1, <2>2, RowFields DEF Careful, Untouched, Reads, FindsNone, Writes
  <2>. QED
    BY <2>0, <2>1, <2>2, <2>3, StarterIsNoOther, OthersAreActors DEF Careful
<1>17. ASSUME Insert, UNCHANGED bounds PROVE Cautious'
  <2>0. SUFFICES ASSUME Careful PROVE Careful'
    BY <1>17, OthersAreActors DEF Insert, Goto, Cautious, Deleted, Typed, Placed, ghosts, undoings
  <2>1. work \in JobIds /\ jobs[work] # "cancelled" /\ row # None /\ row.index \notin {"pending", "cancelled"}
    BY <1>17, <2>0, WorkerIsAtJob DEF Insert, Typed, Careful, Untouched
  <2>2. UNCHANGED <<row, copy, deletions>> /\ pc'["worker"] \notin {"cancel", "cancelSave"}
    BY <1>17, <2>0, <2>1, OthersAreActors DEF Insert, Goto, Typed, Placed, Careful
  <2>3. \A j \in JobIds : jobs'[j] # "cancelled"
    BY <1>17, <2>0, <2>1 DEF Insert, Goto, Typed, Stored, Careful
  <2>4. \A s \in Starters : pc'[s] = pc[s]
    BY <1>17, StarterIsNoOther DEF Insert, Goto, Typed, Placed
  <2>. QED
    BY <2>0, <2>1, <2>2, <2>3, <2>4 DEF Careful
<1>18. ASSUME Check, UNCHANGED bounds PROVE Cautious'
  <2>0. SUFFICES ASSUME Careful PROVE Careful'
    BY <1>18, OthersAreActors DEF Check, Goto, Cautious, Deleted, Typed, Placed, ghosts, undoings
  <2>1. work \in JobIds /\ jobs[work] # "cancelled" /\ row # None /\ row.index \notin {"pending", "cancelled"}
    BY <1>18, <2>0, WorkerIsAtJob DEF Check, Typed, Careful, Untouched
  <2>2. UNCHANGED <<row, copy, deletions>> /\ pc'["worker"] \notin {"cancel", "cancelSave"}
    BY <1>18, <2>0, <2>1, OthersAreActors DEF Check, Goto, Typed, Placed, Careful
  <2>3. \A j \in JobIds : jobs'[j] # "cancelled"
    BY <1>18, <2>0, <2>1 DEF Check, Goto, Typed, Stored, Careful
  <2>4. \A s \in Starters : pc'[s] = pc[s]
    BY <1>18, StarterIsNoOther DEF Check, Goto, Typed, Placed
  <2>. QED
    BY <2>0, <2>1, <2>2, <2>3, <2>4 DEF Careful
<1>19. ASSUME ReportDone, UNCHANGED bounds PROVE Cautious'
  <2>0. SUFFICES ASSUME Careful PROVE Careful'
    <3>1. UNCHANGED reset /\ pc'["api"] = pc["api"]
      BY <1>19, WorkerUpdates, UpdateMoves, StarterIsNoOther, OthersAreActors DEF Typed, Stored
    <3>. QED
      BY <3>1 DEF Cautious, Deleted
  <2>1. /\ UNCHANGED <<jobs, copy, queue, pages, deletions, reset>>
        /\ \/ Reads("worker", "report", "reportSave") \/ FindsNone("worker", "report", "finish")
           \/ Writes("worker", "reportSave", "done", work, "finish")
    BY <1>19, WorkerUpdates DEF Typed, Stored
  <2>2. /\ \A b \in Actors \ {"worker"} : pc'[b] = pc[b]
        /\ \/ pc["worker"] = "report" /\ pc'["worker"] \in {"reportSave", "finish"}
           \/ pc["worker"] = "reportSave" /\ pc'["worker"] = "finish"
    BY <2>1, UpdateMoves, StarterIsNoOther, OthersAreActors DEF Typed
  <2>3. row # None /\ row' # None /\ row.index # "pending" /\ (row' = row \/ row'.index = "done")
    BY <2>0, <2>1, <2>2, RowFields DEF Careful, Untouched, Reads, FindsNone, Writes
  <2>. QED
    BY <2>0, <2>1, <2>2, <2>3, StarterIsNoOther, OthersAreActors DEF Careful
<1>20. ASSUME ReportCancelled, UNCHANGED bounds PROVE Cautious'
  <2>0. SUFFICES ASSUME Careful PROVE Careful'
    <3>1. UNCHANGED reset /\ pc'["api"] = pc["api"]
      BY <1>20, WorkerUpdates, UpdateMoves, StarterIsNoOther, OthersAreActors DEF Typed, Stored
    <3>. QED
      BY <3>1 DEF Cautious, Deleted
  <2>1. /\ UNCHANGED <<jobs, copy, queue, pages, deletions, reset>>
        /\ \/ Reads("worker", "cancel", "cancelSave") \/ FindsNone("worker", "cancel", "ack")
           \/ Writes("worker", "cancelSave", "cancelled", work, "ack")
    BY <1>20, WorkerUpdates DEF Typed, Stored
  <2>2. /\ \A b \in Actors \ {"worker"} : pc'[b] = pc[b]
        /\ \/ pc["worker"] = "cancel" /\ pc'["worker"] \in {"cancelSave", "ack"}
           \/ pc["worker"] = "cancelSave" /\ pc'["worker"] = "ack"
    BY <2>1, UpdateMoves, StarterIsNoOther, OthersAreActors DEF Typed
  <2>. QED
    BY <2>0, <2>2 DEF Careful
<1>21. ASSUME ReportFailed, UNCHANGED bounds PROVE Cautious'
  <2>0. SUFFICES ASSUME Careful PROVE Careful'
    <3>1. UNCHANGED reset /\ pc'["api"] = pc["api"]
      BY <1>21, WorkerUpdates, UpdateMoves, StarterIsNoOther, OthersAreActors DEF Typed, Stored
    <3>. QED
      BY <3>1 DEF Cautious, Deleted
  <2>1. /\ UNCHANGED <<jobs, copy, queue, pages, deletions, reset>>
        /\ \/ Reads("worker", "fail", "failSave") \/ FindsNone("worker", "fail", "ack")
           \/ Writes("worker", "failSave", "failed", work, "ack")
    BY <1>21, WorkerUpdates DEF Typed, Stored
  <2>2. /\ \A b \in Actors \ {"worker"} : pc'[b] = pc[b]
        /\ \/ pc["worker"] = "fail" /\ pc'["worker"] \in {"failSave", "ack"}
           \/ pc["worker"] = "failSave" /\ pc'["worker"] = "ack"
    BY <2>1, UpdateMoves, StarterIsNoOther, OthersAreActors DEF Typed
  <2>3. row # None /\ row' # None /\ row.index # "pending" /\ (row' = row \/ row'.index = "failed")
    BY <2>0, <2>1, <2>2, RowFields DEF Careful, Untouched, Reads, FindsNone, Writes
  <2>. QED
    BY <2>0, <2>1, <2>2, <2>3, StarterIsNoOther, OthersAreActors DEF Careful
<1>22. ASSUME Finish, UNCHANGED bounds PROVE Cautious'
  <2>0. SUFFICES ASSUME Careful PROVE Careful'
    BY <1>22, OthersAreActors
       DEF Finish, Proceed, SetJob, Goto, Cautious, Deleted, Typed, Placed, ghosts, undoings
  <2>1. work \in JobIds /\ jobs[work] # "cancelled" /\ row # None /\ row.index \notin {"pending", "cancelled"}
    BY <1>22, <2>0, WorkerIsAtJob DEF Finish, Typed, Careful, Untouched
  <2>2. UNCHANGED <<row, copy, deletions>> /\ pc'["worker"] \notin {"cancel", "cancelSave"}
    BY <1>22, <2>0, <2>1, OthersAreActors DEF Finish, Proceed, SetJob, Goto, Typed, Placed, Careful
  <2>3. \A j \in JobIds : jobs'[j] # "cancelled"
    BY <1>22, <2>0, <2>1 DEF Finish, Proceed, SetJob, Goto, Typed, Stored, Careful
  <2>4. \A s \in Starters : pc'[s] = pc[s]
    BY <1>22, StarterIsNoOther DEF Finish, Proceed, Goto, Typed, Placed
  <2>. QED
    BY <2>0, <2>1, <2>2, <2>3, <2>4 DEF Careful
<1>23. ASSUME Acknowledge, UNCHANGED bounds PROVE Cautious'
  BY <1>23, StarterIsNoOther, OthersAreActors
     DEF Acknowledge, Goto, Cautious, Careful, Untouched, Deleted, Typed, Placed, bounds, stores,
         actors, ghosts, undoings, Starters
<1>24. ASSUME NEW t \in Owners, DeletePages(t), UNCHANGED bounds PROVE Cautious'
  BY <1>24, StarterIsNoOther, OthersAreActors
     DEF DeletePages, Cautious, Careful, Untouched, Deleted, Typed, Placed, bounds, stores, actors,
         ghosts, undoings, Starters
<1>25. ASSUME Claim, UNCHANGED bounds PROVE Cautious'
  <2>1. UNCHANGED <<jobs, copy, queue, pages, deletions, pc, reset>>
    BY <1>25 DEF Claim, ghosts, undoings
  <2>2. row' = None <=> row = None
    BY <1>25, RowClaimed, RowFields DEF Claim, Typed, Stored
  <2>3. row # None => row'.index = row.index
    BY <1>25, RowClaimed DEF Claim, Typed, Stored
  <2>. QED
    BY <2>1, <2>2, <2>3 DEF Cautious, Careful, Untouched, Deleted
<1>26. ASSUME ReadDocument, UNCHANGED bounds PROVE Cautious'
  BY <1>26, StarterIsNoOther, OthersAreActors
     DEF ReadDocument, Goto, Cautious, Careful, Untouched, Deleted, Typed, Placed, bounds, stores,
         actors, ghosts, undoings, Starters
<1>27. ASSUME Export, UNCHANGED bounds PROVE Cautious'
  BY <1>27, StarterIsNoOther, OthersAreActors
     DEF Export, Goto, Cautious, Careful, Untouched, Deleted, Typed, Placed, bounds, stores, actors,
         ghosts, undoings, Starters
<1>28. ASSUME CancelJobs, UNCHANGED bounds PROVE Cautious'
  BY <1>28, StarterIsNoOther, OthersAreActors
     DEF CancelJobs, Goto, Cautious, Careful, Untouched, Deleted, Typed, Placed, bounds, stores,
         actors, ghosts, undoings, Starters
<1>29. ASSUME Schedule, UNCHANGED bounds PROVE Cautious'
  BY <1>29, StarterIsNoOther, OthersAreActors
     DEF Schedule, Goto, LightragTenant, Cautious, Careful, Untouched, Deleted, Typed, Placed,
         bounds, stores, actors, ghosts, undoings, Starters
<1>30. ASSUME DeleteBlob, UNCHANGED bounds PROVE Cautious'
  BY <1>30, StarterIsNoOther, OthersAreActors
     DEF DeleteBlob, Goto, Cautious, Careful, Untouched, Deleted, Typed, Placed, bounds, stores,
         actors, ghosts, undoings, Starters
<1>31. ASSUME DeleteJobs, UNCHANGED bounds PROVE Cautious'
  BY <1>31, StarterIsNoOther, OthersAreActors
     DEF DeleteJobs, Goto, Cautious, Careful, Untouched, Deleted, Typed, Placed, bounds, stores,
         actors, ghosts, undoings, Starters
<1>32. ASSUME DeleteRow, UNCHANGED bounds PROVE Cautious'
  BY <1>32, StarterIsNoOther, OthersAreActors
     DEF DeleteRow, Goto, Cautious, Careful, Untouched, Deleted, Typed, Placed, bounds, stores,
         actors, ghosts, undoings, Starters
<1>33. ASSUME DeleteTenantData, UNCHANGED bounds PROVE Cautious'
  BY <1>33, StarterIsNoOther, OthersAreActors
     DEF DeleteTenantData, Goto, Cautious, Careful, Untouched, Deleted, Typed, Placed, bounds,
         stores, actors, ghosts, undoings, Starters
<1>34. CASE UNCHANGED vars
  BY <1>34, StarterIsNoOther, OthersAreActors
     DEF vars, Cautious, Careful, Untouched, Deleted, Typed, Placed, bounds, stores, actors, ghosts,
            undoings,
         Starters
<1>35. ASSUME NEW d \in Deliveries, MarkAgain(d), UNCHANGED bounds PROVE Cautious'
  <2>. d \in Starters
    BY DEF Starters
  <2>1. /\ UNCHANGED <<jobs, copy, queue, pages, deletions, reset>>
        /\ \/ Reads(d, "redo", "redoSave") \/ FindsNone(d, "redo", "end")
           \/ Writes(d, "redoSave", "failed", doc[d].job, "end")
    BY <1>35, StarterUpdates DEF Typed, Stored
  <2>2. /\ \A b \in Actors \ {d} : pc'[b] = pc[b]
        /\ pc[d] \in {"redo", "redoSave"} /\ pc'[d] \in {"redoSave", "end"}
    BY <2>1, UpdateMoves, StarterIsNoOther DEF Typed
  <2>0. SUFFICES ASSUME Careful PROVE Careful'
    BY <2>1, <2>2, StarterIsNoOther, OthersAreActors DEF Cautious, Deleted
  <2>3. row # None /\ row' # None /\ (row' = row \/ row'.index = "failed")
    BY <2>0, <2>1, <2>2, RowFields DEF Careful, Reads, FindsNone, Writes
  <2>. QED
    BY <2>0, <2>1, <2>2, <2>3, StarterIsNoOther, OthersAreActors DEF Careful, Untouched
<1>. QED
  BY <1>1, <1>2, <1>3, <1>4, <1>5, <1>6, <1>7, <1>8, <1>9, <1>10, <1>11, <1>12, <1>13, <1>14, <1>15,
     <1>16, <1>17, <1>18, <1>19, <1>20, <1>21, <1>22, <1>23, <1>24, <1>25, <1>26, <1>27, <1>28,
     <1>29, <1>30, <1>31, <1>32, <1>33, <1>34, <1>35
     DEF Next, Callback, Start, Handle, Worker, Delete, Serve

(* While a deletion is under way, somebody still has to take the pages away. *)
LEMMA EmptiedStep ==
    ASSUME Typed, Owned, Cautious, Emptied, [Next]_vars PROVE Emptied'
<1>1. ASSUME NEW d \in Deliveries, Head(d), UNCHANGED bounds PROVE Emptied'
  BY <1>1, StarterIsNoOther, OthersAreActors
     DEF Head, Goto, Emptied, Emptying, NoMoreWork, Untouched, Deleted, Typed, Placed, bounds,
         stores, actors, ghosts, undoings, Starters
<1>2. ASSUME NEW d \in Deliveries, Find(d), UNCHANGED bounds PROVE Emptied'
  BY <1>2, StarterIsNoOther, OthersAreActors
     DEF Find, Goto, Emptied, Emptying, NoMoreWork, Untouched, Deleted, Typed, Placed, bounds,
         stores, actors, ghosts, undoings, Starters
<1>3. ASSUME NEW d \in Deliveries, Register(d), UNCHANGED bounds PROVE Emptied'
  BY <1>3, StarterIsNoOther, OthersAreActors
     DEF Register, Goto, Emptied, Emptying, NoMoreWork, Untouched, Deleted, Typed, Placed, bounds,
         stores, actors, ghosts, undoings, Starters
<1>4. ASSUME NEW d \in Deliveries, LoadKeyed(d), UNCHANGED bounds PROVE Emptied'
  BY <1>4, StarterIsNoOther, OthersAreActors
     DEF LoadKeyed, Goto, Emptied, Emptying, NoMoreWork, Untouched, Deleted, Typed, Placed, bounds,
         stores, actors, ghosts, undoings, Starters
<1>5. ASSUME NEW c \in Clicks, Click(c), UNCHANGED bounds PROVE Emptied'
  BY <1>5, StarterIsNoOther, OthersAreActors
     DEF Click, Goto, Emptied, Emptying, NoMoreWork, Untouched, Deleted, Typed, Placed, bounds,
         stores, actors, ghosts, undoings, Starters
<1>6. ASSUME NEW s \in Starters, GetDocument(s), UNCHANGED bounds PROVE Emptied'
  BY <1>6, StarterIsNoOther, OthersAreActors
     DEF GetDocument, Goto, Emptied, Emptying, NoMoreWork, Untouched, Deleted, Typed, Placed,
         bounds, stores, actors, ghosts, undoings, Starters
<1>7. ASSUME NEW s \in Starters, ListJobs(s), UNCHANGED bounds PROVE Emptied'
  BY <1>7, StarterIsNoOther, OthersAreActors
     DEF ListJobs, Goto, Emptied, Emptying, NoMoreWork, Untouched, Deleted, Typed, Placed, bounds,
         stores, actors, ghosts, undoings, Starters
<1>8. ASSUME NEW s \in Starters, SaveJob(s), UNCHANGED bounds PROVE Emptied'
  BY <1>8, StarterIsNoOther, OthersAreActors
     DEF SaveJob, Goto, SetJob, NewStatus, ParentOf, Emptied, Emptying, NoMoreWork, Untouched,
         Deleted, Typed, Placed, bounds, stores, actors, ghosts, undoings, Starters
<1>9. ASSUME NEW s \in Starters, MarkIndexing(s), UNCHANGED bounds PROVE Emptied'
  <2>1. /\ UNCHANGED <<jobs, queue, pages, deletions, work, claimed, reset, crossed>>
        /\ \/ Reads(s, "mark", "markSave") \/ FindsNone(s, "mark", "enqueue")
           \/ Writes(s, "markSave", "indexing", ParentOf(s), "enqueue")
    BY <1>9, StarterUpdates DEF Typed, Stored
  <2>2. /\ \A b \in Actors \ {s} : pc'[b] = pc[b]
        /\ \/ pc[s] = "mark" /\ pc'[s] \in {"markSave", "enqueue"}
           \/ pc[s] = "markSave" /\ pc'[s] = "enqueue"
    BY <2>1, UpdateMoves, StarterIsNoOther, OthersAreActors DEF Typed
  <2>. QED
    BY <2>1, <2>2, StarterIsNoOther, OthersAreActors DEF Emptied, Emptying, Deleted
<1>10. ASSUME NEW s \in Starters, Enqueue(s), UNCHANGED bounds PROVE Emptied'
  BY <1>10, StarterIsNoOther, OthersAreActors
     DEF Enqueue, Goto, Emptied, Emptying, NoMoreWork, Untouched, Deleted, Typed, Placed, bounds,
         stores, actors, ghosts, undoings, Starters
<1>11. ASSUME NEW s \in Starters, Handle(s), UNCHANGED bounds PROVE Emptied'
  <2>1. /\ UNCHANGED <<claimed, reset, crossed>> /\ pc'["api"] = pc["api"]
        /\ pc[s] \notin {"idle", "end"}
    BY <1>11, HandlerSteps, StarterIsNoOther, OthersAreActors DEF Typed
  <2>. QED
    BY <2>1 DEF Emptied, Emptying, Deleted
<1>12. ASSUME NEW s \in Starters, MarkFailed(s), UNCHANGED bounds PROVE Emptied'
  <2>1. /\ UNCHANGED <<claimed, reset, crossed>> /\ pc[s] \notin {"idle", "end"}
    BY <1>12, StarterUpdates DEF Typed, Stored, MarkFailed, Update
  <2>2. pc'["api"] = pc["api"]
    BY <1>12, StarterUpdates, UpdateMoves, StarterIsNoOther, OthersAreActors DEF Typed, Stored
  <2>. QED
    BY <2>1, <2>2 DEF Emptied, Emptying, Deleted
<1>13. ASSUME NEW s \in Starters, Stop(s), UNCHANGED bounds PROVE Emptied'
  BY <1>13, StarterIsNoOther, OthersAreActors
     DEF Stop, Goto, Emptied, Emptying, NoMoreWork, Untouched, Deleted, Typed, Placed, bounds,
         stores, actors, ghosts, undoings, Starters
<1>14. ASSUME NEW j \in JobIds, Take(j), UNCHANGED bounds PROVE Emptied'
  <2>0. SUFFICES ASSUME Emptying PROVE Emptying'
    BY <1>14, StarterIsNoOther, OthersAreActors
       DEF Take, Goto, Emptied, Deleted, Typed, Placed, ghosts, undoings
  <2>1. /\ pc["worker"] = "idle" /\ queue[j] > 0 /\ UNCHANGED <<doc, jobs, pages, deletions>>
        /\ \A b \in Actors \ {"worker"} : pc'[b] = pc[b]
    BY <1>14, OthersAreActors DEF Take, Goto, Typed, Placed
  <2>2. \A i \in JobIds : queue[i] = 0 => queue'[i] = 0
    BY <1>14 DEF Take, Typed, QueueBound
  <2>3. pc'["api"] = pc["api"] /\ \A s \in Starters : pc'[s] = pc[s]
    BY <2>1, StarterIsNoOther, OthersAreActors
  <2>4. ~Untouched
    BY <2>1, <1>14 DEF Untouched, Typed, QueueBound
  <2>5. ASSUME NoMoreWork PROVE NoMoreWork' /\ pc'["worker"] = "idle"
    <3>1. jobs[j] \notin Live
      BY <1>14, <2>1, <2>5 DEF NoMoreWork, Running, Typed, QueueBound
    <3>2. UNCHANGED <<work, pc>>
      BY <1>14, <3>1 DEF Take
    <3>. QED
      BY <2>1, <2>2, <2>5, <3>2 DEF NoMoreWork
  <2>. QED
    BY <2>0, <2>1, <2>3, <2>4, <2>5 DEF Emptying
<1>15. ASSUME LoadDocument, UNCHANGED bounds PROVE Emptied'
  <2>0. SUFFICES ASSUME Emptying PROVE Emptying'
    BY <1>15, StarterIsNoOther, OthersAreActors
       DEF LoadDocument, Proceed, SetJob, Goto, Emptied, Deleted, Typed, Placed, ghosts, undoings
  <2>1. /\ UNCHANGED <<queue, deletions>> /\ pc["worker"] # "idle" /\ doc'["api"] = doc["api"]
        /\ \A b \in Actors \ {"worker"} : pc'[b] = pc[b]
        /\ pc["api"] = pc'["api"] /\ \A s \in Starters : pc'[s] = pc[s]
    BY <1>15, StarterIsNoOther, OthersAreActors
       DEF LoadDocument, Proceed, SetJob, Goto, Typed, Placed
  <2>2. ASSUME NoMoreWork PROVE NoMoreWork'
    <3>1. \A j \in JobIds \ {work} : jobs'[j] = jobs[j]
      BY <1>15, WorkerIsAtJob DEF LoadDocument, Proceed, SetJob, Goto, Typed, Stored
    <3>2. \/ work' = work /\ pc'["worker"] \in Running
          \/ work \in JobIds /\ jobs'[work] \notin Live
          \/ pc["worker"] \notin Running /\ UNCHANGED jobs
      BY <1>15, WorkerIsAtJob, OthersAreActors
         DEF LoadDocument, Proceed, SetJob, Goto, Typed, Placed, Stored, Running, Live
    <3>. QED
      BY <2>1, <2>2, <3>1, <3>2 DEF NoMoreWork
  <2>. QED
    BY <2>0, <2>1, <2>2 DEF Emptying, Untouched
<1>16. ASSUME ReportIndexing, UNCHANGED bounds PROVE Emptied'
  <2>1. /\ UNCHANGED <<jobs, queue, pages, deletions, work, claimed, reset, crossed>>
        /\ \/ Reads("worker", "begin", "beginSave") \/ FindsNone("worker", "begin", "insert")
           \/ Writes("worker", "beginSave", "indexing", work, "insert")
    BY <1>16, WorkerUpdates DEF Typed, Stored
  <2>2. /\ \A b \in Actors \ {"worker"} : pc'[b] = pc[b]
        /\ \/ pc["worker"] = "begin" /\ pc'["worker"] \in {"beginSave", "insert"}
           \/ pc["worker"] = "beginSave" /\ pc'["worker"] = "insert"
    BY <2>1, UpdateMoves, StarterIsNoOther, OthersAreActors DEF Typed
  <2>3. doc'["api"] = doc["api"] /\ pc'["api"] = pc["api"] /\ \A s \in Starters : pc'[s] = pc[s]
    BY <2>1, UpdateElsewhere, StarterIsNoOther, OthersAreActors DEF Typed
  <2>4. pc["worker"] # "idle" /\ (pc["worker"] \in Running => pc'["worker"] \in Running)
    BY <2>2 DEF Running
  <2>. QED
    BY <2>1, <2>3, <2>4 DEF Emptied, Emptying, NoMoreWork, Untouched, Deleted
<1>17. ASSUME Insert, UNCHANGED bounds PROVE Emptied'
  <2>0. SUFFICES ASSUME Emptying PROVE Emptying'
    BY <1>17, StarterIsNoOther, OthersAreActors
       DEF Insert, Goto, Emptied, Deleted, Typed, Placed, ghosts, undoings
  <2>1. /\ UNCHANGED <<queue, deletions>> /\ pc["worker"] # "idle" /\ doc'["api"] = doc["api"]
        /\ \A b \in Actors \ {"worker"} : pc'[b] = pc[b]
        /\ pc["api"] = pc'["api"] /\ \A s \in Starters : pc'[s] = pc[s]
    BY <1>17, StarterIsNoOther, OthersAreActors DEF Insert, Goto, Typed, Placed
  <2>2. ASSUME NoMoreWork PROVE NoMoreWork'
    <3>1. \A j \in JobIds \ {work} : jobs'[j] = jobs[j]
      BY <1>17, WorkerIsAtJob DEF Insert, Goto, Typed, Stored
    <3>2. \/ work' = work /\ pc'["worker"] \in Running
          \/ work \in JobIds /\ jobs'[work] \notin Live
          \/ pc["worker"] \notin Running /\ UNCHANGED jobs
      BY <1>17, WorkerIsAtJob, OthersAreActors
         DEF Insert, Goto, Typed, Placed, Stored, Running, Live
    <3>. QED
      BY <2>1, <2>2, <3>1, <3>2 DEF NoMoreWork
  <2>. QED
    BY <2>0, <2>1, <2>2 DEF Emptying, Untouched
<1>18. ASSUME Check, UNCHANGED bounds PROVE Emptied'
  <2>0. SUFFICES ASSUME Emptying PROVE Emptying'
    BY <1>18, StarterIsNoOther, OthersAreActors
       DEF Check, Goto, Emptied, Deleted, Typed, Placed, ghosts, undoings
  <2>1. /\ UNCHANGED <<queue, deletions>> /\ pc["worker"] # "idle" /\ doc'["api"] = doc["api"]
        /\ \A b \in Actors \ {"worker"} : pc'[b] = pc[b]
        /\ pc["api"] = pc'["api"] /\ \A s \in Starters : pc'[s] = pc[s]
    BY <1>18, StarterIsNoOther, OthersAreActors DEF Check, Goto, Typed, Placed
  <2>2. ASSUME NoMoreWork PROVE NoMoreWork'
    <3>1. \A j \in JobIds \ {work} : jobs'[j] = jobs[j]
      BY <1>18, WorkerIsAtJob DEF Check, Goto, Typed, Stored
    <3>2. \/ work' = work /\ pc'["worker"] \in Running
          \/ work \in JobIds /\ jobs'[work] \notin Live
          \/ pc["worker"] \notin Running /\ UNCHANGED jobs
      BY <1>18, WorkerIsAtJob, OthersAreActors DEF Check, Goto, Typed, Placed, Stored, Running, Live
    <3>. QED
      BY <2>1, <2>2, <3>1, <3>2 DEF NoMoreWork
  <2>. QED
    BY <2>0, <2>1, <2>2 DEF Emptying, Untouched
<1>19. ASSUME ReportDone, UNCHANGED bounds PROVE Emptied'
  <2>1. /\ UNCHANGED <<jobs, queue, pages, deletions, work, claimed, reset, crossed>>
        /\ \/ Reads("worker", "report", "reportSave") \/ FindsNone("worker", "report", "finish")
           \/ Writes("worker", "reportSave", "done", work, "finish")
    BY <1>19, WorkerUpdates DEF Typed, Stored
  <2>2. /\ \A b \in Actors \ {"worker"} : pc'[b] = pc[b]
        /\ \/ pc["worker"] = "report" /\ pc'["worker"] \in {"reportSave", "finish"}
           \/ pc["worker"] = "reportSave" /\ pc'["worker"] = "finish"
    BY <2>1, UpdateMoves, StarterIsNoOther, OthersAreActors DEF Typed
  <2>3. doc'["api"] = doc["api"] /\ pc'["api"] = pc["api"] /\ \A s \in Starters : pc'[s] = pc[s]
    BY <2>1, UpdateElsewhere, StarterIsNoOther, OthersAreActors DEF Typed
  <2>4. pc["worker"] # "idle" /\ (pc["worker"] \in Running => pc'["worker"] \in Running)
    BY <2>2 DEF Running
  <2>. QED
    BY <2>1, <2>3, <2>4 DEF Emptied, Emptying, NoMoreWork, Untouched, Deleted
<1>20. ASSUME ReportCancelled, UNCHANGED bounds PROVE Emptied'
  <2>1. /\ UNCHANGED <<jobs, queue, pages, deletions, work, claimed, reset, crossed>>
        /\ \/ Reads("worker", "cancel", "cancelSave") \/ FindsNone("worker", "cancel", "ack")
           \/ Writes("worker", "cancelSave", "cancelled", work, "ack")
    BY <1>20, WorkerUpdates DEF Typed, Stored
  <2>2. /\ \A b \in Actors \ {"worker"} : pc'[b] = pc[b]
        /\ \/ pc["worker"] = "cancel" /\ pc'["worker"] \in {"cancelSave", "ack"}
           \/ pc["worker"] = "cancelSave" /\ pc'["worker"] = "ack"
    BY <2>1, UpdateMoves, StarterIsNoOther, OthersAreActors DEF Typed
  <2>3. doc'["api"] = doc["api"] /\ pc'["api"] = pc["api"] /\ \A s \in Starters : pc'[s] = pc[s]
    BY <2>1, UpdateElsewhere, StarterIsNoOther, OthersAreActors DEF Typed
  <2>4. pc["worker"] # "idle" /\ (pc["worker"] \in Running => pc'["worker"] \in Running)
    BY <2>2 DEF Running
  <2>. QED
    BY <2>1, <2>3, <2>4 DEF Emptied, Emptying, NoMoreWork, Untouched, Deleted
<1>21. ASSUME ReportFailed, UNCHANGED bounds PROVE Emptied'
  <2>1. /\ UNCHANGED <<jobs, queue, pages, deletions, work, claimed, reset, crossed>>
        /\ \/ Reads("worker", "fail", "failSave") \/ FindsNone("worker", "fail", "ack")
           \/ Writes("worker", "failSave", "failed", work, "ack")
    BY <1>21, WorkerUpdates DEF Typed, Stored
  <2>2. /\ \A b \in Actors \ {"worker"} : pc'[b] = pc[b]
        /\ \/ pc["worker"] = "fail" /\ pc'["worker"] \in {"failSave", "ack"}
           \/ pc["worker"] = "failSave" /\ pc'["worker"] = "ack"
    BY <2>1, UpdateMoves, StarterIsNoOther, OthersAreActors DEF Typed
  <2>3. doc'["api"] = doc["api"] /\ pc'["api"] = pc["api"] /\ \A s \in Starters : pc'[s] = pc[s]
    BY <2>1, UpdateElsewhere, StarterIsNoOther, OthersAreActors DEF Typed
  <2>4. pc["worker"] # "idle" /\ (pc["worker"] \in Running => pc'["worker"] \in Running)
    BY <2>2 DEF Running
  <2>. QED
    BY <2>1, <2>3, <2>4 DEF Emptied, Emptying, NoMoreWork, Untouched, Deleted
<1>22. ASSUME Finish, UNCHANGED bounds PROVE Emptied'
  <2>0. SUFFICES ASSUME Emptying PROVE Emptying'
    BY <1>22, StarterIsNoOther, OthersAreActors
       DEF Finish, Proceed, SetJob, Goto, Emptied, Deleted, Typed, Placed, ghosts, undoings
  <2>1. /\ UNCHANGED <<queue, deletions>> /\ pc["worker"] # "idle" /\ doc'["api"] = doc["api"]
        /\ \A b \in Actors \ {"worker"} : pc'[b] = pc[b]
        /\ pc["api"] = pc'["api"] /\ \A s \in Starters : pc'[s] = pc[s]
    BY <1>22, StarterIsNoOther, OthersAreActors DEF Finish, Proceed, SetJob, Goto, Typed, Placed
  <2>2. ASSUME NoMoreWork PROVE NoMoreWork'
    <3>1. \A j \in JobIds \ {work} : jobs'[j] = jobs[j]
      BY <1>22, WorkerIsAtJob DEF Finish, Proceed, SetJob, Goto, Typed, Stored
    <3>2. \/ work' = work /\ pc'["worker"] \in Running
          \/ work \in JobIds /\ jobs'[work] \notin Live
          \/ pc["worker"] \notin Running /\ UNCHANGED jobs
      BY <1>22, WorkerIsAtJob, OthersAreActors
         DEF Finish, Proceed, SetJob, Goto, Typed, Placed, Stored, Running, Live
    <3>. QED
      BY <2>1, <2>2, <3>1, <3>2 DEF NoMoreWork
  <2>. QED
    BY <2>0, <2>1, <2>2 DEF Emptying, Untouched
<1>23. ASSUME Acknowledge, UNCHANGED bounds PROVE Emptied'
  <2>0. SUFFICES ASSUME Emptying PROVE Emptying'
    BY <1>23, StarterIsNoOther, OthersAreActors
       DEF Acknowledge, Goto, stores, Emptied, Deleted, Typed, Placed, ghosts, undoings
  <2>1. /\ UNCHANGED <<queue, deletions>> /\ pc["worker"] # "idle" /\ doc'["api"] = doc["api"]
        /\ \A b \in Actors \ {"worker"} : pc'[b] = pc[b]
        /\ pc["api"] = pc'["api"] /\ \A s \in Starters : pc'[s] = pc[s]
    BY <1>23, StarterIsNoOther, OthersAreActors DEF Acknowledge, Goto, stores, Typed, Placed
  <2>2. ASSUME NoMoreWork PROVE NoMoreWork'
    <3>1. \A j \in JobIds \ {work} : jobs'[j] = jobs[j]
      BY <1>23, WorkerIsAtJob DEF Acknowledge, Goto, stores, Typed, Stored
    <3>2. \/ work' = work /\ pc'["worker"] \in Running
          \/ work \in JobIds /\ jobs'[work] \notin Live
          \/ pc["worker"] \notin Running /\ UNCHANGED jobs
      BY <1>23, WorkerIsAtJob, OthersAreActors
         DEF Acknowledge, Goto, stores, Typed, Placed, Stored, Running, Live
    <3>. QED
      BY <2>1, <2>2, <3>1, <3>2 DEF NoMoreWork
  <2>. QED
    BY <2>0, <2>1, <2>2 DEF Emptying, Untouched
<1>24. ASSUME NEW t \in Owners, DeletePages(t), UNCHANGED bounds PROVE Emptied'
  <2>0. SUFFICES ASSUME Emptying, ~claimed PROVE Emptying'
    BY <1>24 DEF DeletePages, Emptied, Deleted, actors, ghosts, undoings
  <2>1. pages' = {} /\ pc["worker"] = "idle" /\ UNCHANGED <<pc, doc, jobs, queue, work>>
    BY <1>24, <2>0 DEF DeletePages, actors, Owned
  <2>. QED
    BY <2>0, <2>1 DEF Emptying, NoMoreWork, Untouched
<1>25. ASSUME Claim, UNCHANGED bounds PROVE Emptied'
  BY <1>25, StarterIsNoOther, OthersAreActors
     DEF Claim, Emptied, Emptying, NoMoreWork, Untouched, Deleted, Typed, Placed, bounds, stores,
         actors, ghosts, undoings, Starters
<1>26. ASSUME ReadDocument, UNCHANGED bounds PROVE Emptied'
  <2>0. SUFFICES ASSUME ~crossed', ~reset PROVE Emptying'
    BY <1>26 DEF ReadDocument, Emptied
  <2>1. Careful /\ row \in Rows /\ ~StartsUnderway
    BY <1>26, <2>0 DEF ReadDocument, Cautious, Deleted, Typed, Stored
  <2>2. /\ doc'["api"] = row /\ pc'["api"] = "stop jobs" /\ UNCHANGED <<pages, queue>>
        /\ \A b \in Actors \ {"api"} : pc'[b] = pc[b]
    BY <1>26, OthersAreActors DEF ReadDocument, Goto, Typed, Placed, stores
  <2>3. MayBeIndexed(row) \/ Untouched
    BY <2>1, RowFields DEF MayBeIndexed, Careful, Terminal
  <2>4. (MayBeIndexed(doc["api"]) \/ Untouched)'
    BY <2>2, <2>3, OthersAreActors DEF MayBeIndexed, Untouched
  <2>. QED
    BY <2>1, <2>2, <2>4, StarterIsNoOther DEF Emptying, StartsUnderway
<1>27. ASSUME Export, UNCHANGED bounds PROVE Emptied'
  <2>0. SUFFICES ASSUME ~crossed', ~reset, ~claimed PROVE Emptying'
    BY <1>27 DEF Export, Emptied
  <2>1. Careful /\ ~StartsUnderway
    BY <1>27, <2>0 DEF Export, Cautious, Deleted
  <2>2. UNCHANGED <<pages, queue, jobs>> /\ \A b \in Actors \ {"api"} : pc'[b] = pc[b]
    BY <1>27, OthersAreActors DEF Export, Goto, Typed, Placed, stores
  <2>3. CASE row # None
    <3>1. row \in Rows /\ doc'["api"] = row /\ pc'["api"] = "stop jobs"
      BY <1>27, <2>0, <2>3, OthersAreActors DEF Export, Goto, Typed, Placed, Stored, Owned
    <3>2. MayBeIndexed(row) \/ Untouched
      BY <2>1, <2>3, <3>1, RowFields DEF MayBeIndexed, Careful, Terminal
    <3>3. (MayBeIndexed(doc["api"]) \/ Untouched)'
      BY <2>2, <3>1, <3>2, OthersAreActors DEF MayBeIndexed, Untouched
    <3>. QED
      BY <2>1, <2>2, <3>1, <3>3, StarterIsNoOther DEF Emptying, StartsUnderway
  <2>4. CASE row = None
    <3>1. Untouched /\ pc'["api"] = "erase"
      BY <1>27, <2>1, <2>4, OthersAreActors DEF Export, Goto, Typed, Placed, Careful
    <3>. QED
      BY <2>1, <2>2, <3>1, StarterIsNoOther, OthersAreActors
         DEF Emptying, StartsUnderway, Untouched, NoMoreWork
  <2>. QED
    BY <2>3, <2>4
<1>28. ASSUME CancelJobs, UNCHANGED bounds PROVE Emptied'
  <2>0. SUFFICES ASSUME Emptying PROVE Emptying'
    BY <1>28 DEF CancelJobs, Emptied, Deleted, ghosts, undoings
  <2>1. /\ UNCHANGED <<pages, queue, work>>
        /\ \A b \in Actors \ {"api"} : pc'[b] = pc[b]
    BY <1>28, OthersAreActors DEF CancelJobs, Goto, Typed, Placed
  <2>2. pc["api"] = "stop jobs" /\ pc'["api"] = "schedule" /\ UNCHANGED doc
    BY <1>28, OthersAreActors DEF CancelJobs, Goto, Typed, Placed
  <2>3. \A j \in JobIds : jobs'[j] \notin Live
    BY <1>28 DEF CancelJobs, Live
  <2>4. MayBeIndexed(doc["api"]) \/ Untouched'
    BY <2>0, <2>1, <2>2, OthersAreActors DEF Emptying, Untouched
  <2>. QED
    BY <2>0, <2>1, <2>2, <2>3, <2>4, StarterIsNoOther DEF Emptying, NoMoreWork, MayBeIndexed
<1>29. ASSUME Schedule, UNCHANGED bounds PROVE Emptied'
  <2>0. SUFFICES ASSUME Emptying PROVE Emptying'
    BY <1>29 DEF Schedule, Emptied, Deleted, ghosts, undoings
  <2>1. /\ UNCHANGED <<pages, queue, work>>
        /\ \A b \in Actors \ {"api"} : pc'[b] = pc[b]
    BY <1>29, OthersAreActors DEF Schedule, Goto, Typed, Placed
  <2>2. pc["api"] = "schedule" /\ pc'["api"] = "blob" /\ UNCHANGED jobs
    BY <1>29, OthersAreActors DEF Schedule, Goto, Typed, Placed
  <2>3. deletions' # {} \/ Untouched
    BY <1>29, <2>0, <2>2 DEF Schedule, Emptying
  <2>. QED
    BY <2>0, <2>1, <2>2, <2>3, StarterIsNoOther, OthersAreActors DEF Emptying, NoMoreWork, Untouched
<1>30. ASSUME DeleteBlob, UNCHANGED bounds PROVE Emptied'
  BY <1>30, StarterIsNoOther, OthersAreActors
     DEF DeleteBlob, Goto, Emptied, Emptying, NoMoreWork, Untouched, Deleted, Typed, Placed, bounds,
         stores, actors, ghosts, undoings, Starters
<1>31. ASSUME DeleteJobs, UNCHANGED bounds PROVE Emptied'
  <2>0. SUFFICES ASSUME Emptying PROVE Emptying'
    BY <1>31 DEF DeleteJobs, Emptied, Deleted, ghosts, undoings
  <2>1. /\ UNCHANGED <<pages, queue, work>>
        /\ \A b \in Actors \ {"api"} : pc'[b] = pc[b]
    BY <1>31, OthersAreActors DEF DeleteJobs, Goto, Typed, Placed
  <2>2. /\ pc["api"] \notin {"stop jobs", "schedule"} /\ UNCHANGED deletions
        /\ pc'["api"] \notin {"stop jobs", "schedule"}
    BY <1>31, OthersAreActors DEF DeleteJobs, Goto, Typed, Placed
  <2>3. \A j \in JobIds : jobs'[j] \in Live => jobs[j] \in Live
    BY <1>31 DEF DeleteJobs, Live
  <2>. QED
    BY <2>0, <2>1, <2>2, <2>3, StarterIsNoOther, OthersAreActors DEF Emptying, NoMoreWork
<1>32. ASSUME DeleteRow, UNCHANGED bounds PROVE Emptied'
  BY <1>32, StarterIsNoOther, OthersAreActors
     DEF DeleteRow, Goto, Emptied, Emptying, NoMoreWork, Untouched, Deleted, Typed, Placed, bounds,
         stores, actors, ghosts, undoings, Starters
<1>33. ASSUME DeleteTenantData, UNCHANGED bounds PROVE Emptied'
  <2>0. SUFFICES ASSUME Emptying PROVE Emptying'
    BY <1>33 DEF DeleteTenantData, Emptied, Deleted, ghosts, undoings
  <2>1. /\ UNCHANGED <<pages, queue, work>>
        /\ \A b \in Actors \ {"api"} : pc'[b] = pc[b]
    BY <1>33, OthersAreActors DEF DeleteTenantData, Goto, Typed, Placed
  <2>2. /\ pc["api"] \notin {"stop jobs", "schedule"} /\ UNCHANGED deletions
        /\ pc'["api"] \notin {"stop jobs", "schedule"}
    BY <1>33, OthersAreActors DEF DeleteTenantData, Goto, Typed, Placed
  <2>3. \A j \in JobIds : jobs'[j] \in Live => jobs[j] \in Live
    BY <1>33 DEF DeleteTenantData, Live
  <2>. QED
    BY <2>0, <2>1, <2>2, <2>3, StarterIsNoOther, OthersAreActors DEF Emptying, NoMoreWork
<1>34. CASE UNCHANGED vars
  BY <1>34, StarterIsNoOther, OthersAreActors
     DEF vars, Emptied, Emptying, NoMoreWork, Untouched, Deleted, Typed, Placed, bounds, stores,
         actors, ghosts, undoings, Starters
<1>35. ASSUME NEW d \in Deliveries, MarkAgain(d), UNCHANGED bounds PROVE Emptied'
  <2>1. /\ UNCHANGED <<claimed, reset, crossed>> /\ pc[d] \notin {"idle", "end"} /\ d \in Starters
    BY <1>35, StarterUpdates DEF Typed, Stored, MarkAgain, Update, Starters
  <2>2. pc'["api"] = pc["api"]
    BY <1>35, <2>1, StarterUpdates, UpdateMoves, StarterIsNoOther, OthersAreActors
       DEF Typed, Stored
  <2>. QED
    BY <2>1, <2>2 DEF Emptied, Emptying, Deleted
<1>. QED
  BY <1>1, <1>2, <1>3, <1>4, <1>5, <1>6, <1>7, <1>8, <1>9, <1>10, <1>11, <1>12, <1>13, <1>14, <1>15,
     <1>16, <1>17, <1>18, <1>19, <1>20, <1>21, <1>22, <1>23, <1>24, <1>25, <1>26, <1>27, <1>28,
     <1>29, <1>30, <1>31, <1>32, <1>33, <1>34, <1>35
     DEF Next, Callback, Start, Handle, Worker, Delete, Serve

LEMMA DeletionInit == ASSUME Init PROVE Deletion
<1>1. Owned
  BY DEF Init, Owned
<1>2. Cautious
  BY StarterIsNoOther, OthersAreActors DEF Init, Cautious, Careful, Untouched, JobIds
<1>3. ~Deleted
  BY OthersAreActors DEF Init, Deleted
<1>. QED
  BY <1>1, <1>2, <1>3 DEF Deletion, Emptied

LEMMA DeletionEmpties == ASSUME Typed, Deletion PROVE NothingLeft
<1>1. SUFFICES ASSUME Quiet, pc["api"] = "end", ~claimed, ~reset, ~crossed PROVE pages = {}
  BY DEF NothingLeft
<1>2. Emptying
  BY <1>1 DEF Deletion, Emptied, Deleted
<1>. QED
  BY <1>1, <1>2 DEF Emptying, Quiet

(* The deletion of a document, or of all the data of the account that uploaded
   it, leaves no pages in any workspace, whatever ran and was queued when it
   began (delete_document, delete_tenant_data), except as NothingLeft says. *)
THEOREM DeletionLeavesNothing == Spec => []NothingLeft
<1>1. Init => Sound /\ Deletion
  BY SoundInit, DeletionInit
<1>2. Sound /\ Deletion /\ [Next]_vars => (Sound /\ Deletion)'
  BY SoundStep, OwnedStep, CautiousStep, EmptiedStep DEF Sound, Deletion
<1>3. Sound /\ Deletion => NothingLeft
  BY DeletionEmpties DEF Sound
<1>. QED
  BY <1>1, <1>2, <1>3, PTL DEF Spec

-----------------------------------------------------------------------------
(* What a document at rest says. *)

(* A request that has no job in hand goes on, or gives up. *)
LEMMA StarterPasses ==
    ASSUME Typed, Careful, Steady, NEW s \in Starters, UNCHANGED <<jobs, queue, work, pages>>,
           \A b \in Actors \ {s} : pc'[b] = pc[b] /\ doc'[b] = doc[b],
           \A t \in Starters \ {s} : copy'[t] = copy[t],
           pc[s] \notin Unsettled \cup {"end"},
           pc'[s] \in StarterSteps \ (Unsettled \cup Again), pc[s] \in Again => pc'[s] = "end",
           s \in Deliveries /\ pc'[s] \in {"list", "save"} => jobs[Keyed] = "none",
           pc'[s] = "save" => \A j \in JobIds : jobs[j] \notin Live,
           \/ row' = row
           \/ row = None /\ row' # None /\ row'.job = None /\ row'.index # "done"
    PROVE Steady'
<1>1. \A t \in Starters, j \in JobIds : Owns(t, j)' <=> Owns(t, j)
  BY StarterIsNoOther DEF Owns
<1>2. pc'["worker"] = pc["worker"]
  BY StarterIsNoOther, OthersAreActors
<1>3. \A d \in Deliveries : pc'[d] \in {"list", "save"} => jobs[Keyed] = "none"
  BY StarterIsNoOther DEF Steady, OneOwner, Starters
<1>4. \A c \in Clicks :
        pc'[c] \in StarterSteps \ (Unsettled \cup Again \cup {"end"}) => jobs[c] = "none"
  BY StarterIsNoOther DEF Steady, OneOwner, Starters, Typed, Placed
<1>6. \A t \in Starters : pc'[t] \in Unsettled \cup Again => t # s /\ pc'[t] = pc[t]
  BY StarterIsNoOther
<1>11. \A t \in Starters : pc'[t] \in Pushing => queue[ParentOf(t)] = 0
  BY <1>6 DEF Steady, OneOwner, Pushing, Unsettled
<1>5. OneOwner'
  BY <1>1, <1>3, <1>4, <1>11, JobIsSome DEF Steady, OneOwner
<1>12. Alone'
  <2>1. \A t \in Starters : pc'[t] = "save" => \A j \in JobIds : jobs[j] \notin Live
    BY StarterIsNoOther DEF Steady, Alone
  <2>. QED
    BY <2>1, <1>6 DEF Steady, Alone
<1>7. Staged'
  <2>1. \A t \in Starters :
          /\ pc'[t] \in {"mark", "markSave", "enqueue", "refused"} => jobs[ParentOf(t)] = "queued"
          /\ pc'[t] \in {"mark", "markSave"} /\ row' # None => row'.job # ParentOf(t)
          /\ pc'[t] \in {"engine", "engineSave", "undo", "undoSave", "redo", "redoSave"} =>
                 jobs[ParentOf(t)] = "failed"
          /\ pc'[t] = "engineSave" => copy'[t] = "failed"
    BY <1>6, ParentIsJob, JobIsSome DEF Steady, Staged, Unsettled, Again
  <2>. QED
    BY <2>1, <1>2 DEF Steady, Staged
<1>8. \A j \in JobIds : UnderWay(j)' <=> UnderWay(j)
  BY <1>1, <1>2 DEF UnderWay
<1>9. Shown'
  BY <1>2, <1>8, RowFields DEF Steady, Shown, Typed, Stored
<1>13. Remarked'
  <2>1. \A t \in Starters : pc'[t] \in Again => t # s /\ pc'[t] = pc[t] /\ doc'[t] = doc[t] /\ row' = row
    BY <1>6, StarterIsNoOther DEF Careful, Again
  <2>2. \A t \in Starters : pc'[t] = "redoSave" => doc[t].job \in JobIds \cup {None}
    BY <2>1, StarterIsNoOther, RowFields DEF Typed, Fits, Holding, Again
  <2>. QED
    BY <2>1, <2>2, <1>8 DEF Steady, Remarked, Again
<1>10. HasPages'
  BY <1>2 DEF Steady, HasPages
<1>. QED
  BY <1>5, <1>7, <1>9, <1>10, <1>12, <1>13 DEF Steady

(* A start with a job in hand goes on with it, or is through. *)
Onward(t) ==
    \/ pc'[t] = pc[t]
    \/ /\ pc[t] \in Unsettled \cup Again /\ pc'[t] \in Unsettled \cup Again \cup {"end"}
       /\ pc'[t] \in Pushing => pc[t] \in Pushing
       /\ pc'[t] \in Unsettled => pc[t] \in Unsettled

(* Nothing new comes to own a job. *)
LEMMA OwnersKept ==
    ASSUME OneOwner, UNCHANGED queue, work' \in {work, None}, \A t \in Starters : Onward(t),
           \A j \in JobIds : jobs'[j] = "none" <=> jobs[j] = "none",
           row' # None => row' = row \/ row'.job = None \/ jobs[row'.job] # "none"
    PROVE OneOwner'
<1>1. \A t \in Starters, j \in JobIds : Owns(t, j)' => Owns(t, j)
  BY DEF Owns, Onward
<1>2. \A d \in Deliveries : pc'[d] \in {"list", "save"} => jobs'[Keyed] = "none"
  BY DEF OneOwner, Onward, Unsettled, Again, Starters, JobIds
<1>3. \A c \in Clicks :
        pc'[c] \in StarterSteps \ (Unsettled \cup Again \cup {"end"}) => jobs'[c] = "none"
  BY DEF OneOwner, Onward, Starters, JobIds
<1>6. \A s \in Starters : pc'[s] \in Pushing => queue'[ParentOf(s)] = 0
  BY DEF OneOwner, Onward
<1>4. ASSUME NEW j \in JobIds
      PROVE /\ jobs'[j] = "none" => /\ queue'[j] = 0 /\ work' # j
                                    /\ row' # None => row'.job # j
                                    /\ \A s \in Starters : ~Owns(s, j)'
            /\ (\E s \in Starters : Owns(s, j)') => work' # j
            /\ queue'[j] \in {0, 1} /\ (queue'[j] = 1 => work' # j)
  BY <1>1, JobIsSome DEF OneOwner
<1>5. \A j \in JobIds : \A s, t \in Starters : Owns(s, j)' /\ Owns(t, j)' => s = t
  BY <1>1 DEF OneOwner
<1>. QED
  BY <1>2, <1>3, <1>4, <1>5, <1>6 DEF OneOwner

(* No new job is live. *)
LEMMA AloneKept ==
    ASSUME Alone, \A t \in Starters : Onward(t),
           \A j \in JobIds : jobs'[j] \in Live => jobs[j] \in Live
    PROVE Alone'
<1>1. \A t \in Starters : /\ pc'[t] = "save" => pc[t] = "save"
                          /\ pc'[t] \in Unsettled \cup Again => pc[t] \in Unsettled \cup Again
  BY DEF Onward, Unsettled, Again
<1>. QED
  BY <1>1 DEF Alone

(* Nobody else writes what a second marking has read, but that it failed. *)
LEMMA RemarkedKept ==
    ASSUME Typed, Remarked,
           \A t \in Starters : pc'[t] \in Again => pc'[t] = pc[t] /\ doc'[t] = doc[t],
           \/ row' = row \/ row' = None \/ row'.index = "failed"
           \/ \A t \in Starters : pc[t] \notin Again,
           \A j \in JobIds : jobs[j] = "failed" /\ ~UnderWay(j) => jobs'[j] = "failed" /\ ~UnderWay(j)'
    PROVE Remarked'
<1>1. \A t \in Starters : pc[t] = "redoSave" => doc[t].job \in JobIds \cup {None}
  BY StarterIsNoOther, RowFields DEF Typed, Fits, Holding
<1>. QED
  BY <1>1 DEF Remarked, Again

(* While a job is being run, nobody marks a second time. *)
LEMMA RunsAlone ==
    ASSUME Steady, work \in JobIds, jobs[work] \in Live
    PROVE \A t \in Starters : pc[t] \notin Again
  BY DEF Steady, Alone, Staged, Again, Live

(* The worker disturbs no start. *)
StartersStaged ==
    \A s \in Starters :
        /\ pc[s] \in {"mark", "markSave", "enqueue", "refused"} => jobs[ParentOf(s)] = "queued"
        /\ pc[s] \in {"mark", "markSave"} /\ row # None => row.job # ParentOf(s)
        /\ pc[s] \in {"engine", "engineSave", "undo", "undoSave", "redo", "redoSave"} =>
               jobs[ParentOf(s)] = "failed"
        /\ pc[s] = "engineSave" => copy[s] = "failed"
LEMMA StartersStagedKept ==
    ASSUME Steady, work \in JobIds, UNCHANGED <<copy, queue>>,
           \A t \in Starters : pc'[t] = pc[t],
           row' # None => row' = row \/ row'.job = work,
           \A i \in JobIds : jobs'[i] = jobs[i] \/ (i = work /\ jobs[work] \in Live)
    PROVE StartersStaged' /\ \A i \in JobIds : queue'[i] = 1 => jobs'[i] \in {"queued", "failed"}
<1>1. ASSUME NEW t \in Starters, pc[t] \in Unsettled PROVE jobs'[ParentOf(t)] = jobs[ParentOf(t)] /\ work # ParentOf(t)
  BY <1>1, ParentIsJob DEF Steady, OneOwner, Owns
<1>2. ASSUME NEW t \in Starters, pc[t] \in Again PROVE jobs'[ParentOf(t)] = "failed"
  BY <1>2, ParentIsJob DEF Steady, Staged, Again, Live
<1>3. StartersStaged'
  <2>1. ASSUME NEW t \in Starters
        PROVE /\ pc'[t] \in {"mark", "markSave", "enqueue", "refused"} => jobs'[ParentOf(t)] = "queued"
              /\ pc'[t] \in {"mark", "markSave"} /\ row' # None => row'.job # ParentOf(t)
              /\ pc'[t] \in {"engine", "engineSave", "undo", "undoSave", "redo", "redoSave"} =>
                     jobs'[ParentOf(t)] = "failed"
              /\ pc'[t] = "engineSave" => copy'[t] = "failed"
    BY <1>1, <1>2 DEF Steady, Staged, Unsettled, Again
  <2>. QED
    BY <2>1 DEF StartersStaged
<1>4. \A i \in JobIds : queue'[i] = 1 => jobs'[i] \in {"queued", "failed"}
  BY DEF Steady, OneOwner, Staged
<1>. QED
  BY <1>3, <1>4

LEMMA SteadyStep ==
    ASSUME Typed, Careful, Steady, Undisturbed, Undisturbed', [Next]_vars PROVE Steady'
<1>1. ASSUME NEW d \in Deliveries, Head(d), UNCHANGED bounds PROVE Steady'
  <2>1. /\ d \in Starters /\ UNCHANGED <<jobs, queue, work, pages, copy>>
        /\ \A b \in Actors \ {d} : pc'[b] = pc[b] /\ doc'[b] = doc[b]
        /\ pc[d] \notin Unsettled \cup {"end"} /\ pc'[d] \in StarterSteps \ (Unsettled \cup Again)
        /\ pc[d] \in Again => pc'[d] = "end"
    BY <1>1, StarterIsNoOther
       DEF Head, Goto, Typed, Placed, StarterSteps, Unsettled, Again, stores, Starters
  <2>2. /\ d \in Deliveries /\ pc'[d] \in {"list", "save"} => jobs[Keyed] = "none"
        /\ pc'[d] = "save" => \A j \in JobIds : jobs[j] \notin Live
    BY <1>1, <2>1 DEF Head, Goto, Typed, Placed, Steady, OneOwner
  <2>3. \/ row' = row
        \/ row = None /\ row' # None /\ row'.job = None /\ row'.index # "done"
    BY <1>1 DEF Head, Typed, Stored, stores
  <2>. QED
    BY <2>1, <2>2, <2>3, StarterPasses
<1>2. ASSUME NEW d \in Deliveries, Find(d), UNCHANGED bounds PROVE Steady'
  <2>1. /\ d \in Starters /\ UNCHANGED <<jobs, queue, work, pages, copy>>
        /\ \A b \in Actors \ {d} : pc'[b] = pc[b] /\ doc'[b] = doc[b]
        /\ pc[d] \notin Unsettled \cup {"end"} /\ pc'[d] \in StarterSteps \ (Unsettled \cup Again)
        /\ pc[d] \in Again => pc'[d] = "end"
    BY <1>2, StarterIsNoOther
       DEF Find, Goto, Typed, Placed, StarterSteps, Unsettled, Again, stores, Starters
  <2>2. /\ d \in Deliveries /\ pc'[d] \in {"list", "save"} => jobs[Keyed] = "none"
        /\ pc'[d] = "save" => \A j \in JobIds : jobs[j] \notin Live
    BY <1>2, <2>1 DEF Find, Goto, Typed, Placed, Steady, OneOwner
  <2>3. \/ row' = row
        \/ row = None /\ row' # None /\ row'.job = None /\ row'.index # "done"
    BY <1>2 DEF Find, Typed, Stored, stores
  <2>. QED
    BY <2>1, <2>2, <2>3, StarterPasses
<1>3. ASSUME NEW d \in Deliveries, Register(d), UNCHANGED bounds PROVE Steady'
  <2>1. /\ d \in Starters /\ UNCHANGED <<jobs, queue, work, pages, copy>>
        /\ \A b \in Actors \ {d} : pc'[b] = pc[b] /\ doc'[b] = doc[b]
        /\ pc[d] \notin Unsettled \cup {"end"} /\ pc'[d] \in StarterSteps \ (Unsettled \cup Again)
        /\ pc[d] \in Again => pc'[d] = "end"
    BY <1>3, StarterIsNoOther
       DEF Register, Goto, Typed, Placed, StarterSteps, Unsettled, Again, stores, Starters
  <2>2. /\ d \in Deliveries /\ pc'[d] \in {"list", "save"} => jobs[Keyed] = "none"
        /\ pc'[d] = "save" => \A j \in JobIds : jobs[j] \notin Live
    BY <1>3, <2>1 DEF Register, Goto, Typed, Placed, Steady, OneOwner
  <2>3. \/ row' = row
        \/ row = None /\ row' # None /\ row'.job = None /\ row'.index # "done"
    BY <1>3, RowFresh, RowFields DEF Register, Undisturbed, Typed, Stored, stores
  <2>. QED
    BY <2>1, <2>2, <2>3, StarterPasses
<1>4. ASSUME NEW d \in Deliveries, LoadKeyed(d), UNCHANGED bounds PROVE Steady'
  <2>1. /\ d \in Starters /\ UNCHANGED <<jobs, queue, work, pages, copy>>
        /\ \A b \in Actors \ {d} : pc'[b] = pc[b] /\ doc'[b] = doc[b]
        /\ pc[d] \notin Unsettled \cup {"end"} /\ pc'[d] \in StarterSteps \ (Unsettled \cup Again)
        /\ pc[d] \in Again => pc'[d] = "end"
    BY <1>4, StarterIsNoOther
       DEF LoadKeyed, Goto, Typed, Placed, StarterSteps, Unsettled, Again, stores, Starters
  <2>2. /\ d \in Deliveries /\ pc'[d] \in {"list", "save"} => jobs[Keyed] = "none"
        /\ pc'[d] = "save" => \A j \in JobIds : jobs[j] \notin Live
    BY <1>4, <2>1 DEF LoadKeyed, Goto, Typed, Placed, Steady, OneOwner
  <2>3. \/ row' = row
        \/ row = None /\ row' # None /\ row'.job = None /\ row'.index # "done"
    BY <1>4 DEF LoadKeyed, Typed, Stored, stores
  <2>. QED
    BY <2>1, <2>2, <2>3, StarterPasses
<1>5. ASSUME NEW c \in Clicks, Click(c), UNCHANGED bounds PROVE Steady'
  <2>1. /\ c \in Starters /\ UNCHANGED <<jobs, queue, work, pages, copy>>
        /\ \A b \in Actors \ {c} : pc'[b] = pc[b] /\ doc'[b] = doc[b]
        /\ pc[c] \notin Unsettled \cup {"end"} /\ pc'[c] \in StarterSteps \ (Unsettled \cup Again)
        /\ pc[c] \in Again => pc'[c] = "end"
    BY <1>5, StarterIsNoOther
       DEF Click, Goto, Typed, Placed, StarterSteps, Unsettled, Again, stores, Starters
  <2>2. /\ c \in Deliveries /\ pc'[c] \in {"list", "save"} => jobs[Keyed] = "none"
        /\ pc'[c] = "save" => \A j \in JobIds : jobs[j] \notin Live
    BY <1>5, <2>1 DEF Click, Goto, Typed, Placed, Steady, OneOwner
  <2>3. \/ row' = row
        \/ row = None /\ row' # None /\ row'.job = None /\ row'.index # "done"
    BY <1>5 DEF Click, Typed, Stored, stores
  <2>. QED
    BY <2>1, <2>2, <2>3, StarterPasses
<1>6. ASSUME NEW s \in Starters, GetDocument(s), UNCHANGED bounds PROVE Steady'
  <2>1. /\ s \in Starters /\ UNCHANGED <<jobs, queue, work, pages, copy>>
        /\ \A b \in Actors \ {s} : pc'[b] = pc[b] /\ doc'[b] = doc[b]
        /\ pc[s] \notin Unsettled \cup {"end"} /\ pc'[s] \in StarterSteps \ (Unsettled \cup Again)
        /\ pc[s] \in Again => pc'[s] = "end"
    BY <1>6, StarterIsNoOther
       DEF GetDocument, Goto, Typed, Placed, StarterSteps, Unsettled, Again, stores, Starters
  <2>2. /\ s \in Deliveries /\ pc'[s] \in {"list", "save"} => jobs[Keyed] = "none"
        /\ pc'[s] = "save" => \A j \in JobIds : jobs[j] \notin Live
    BY <1>6, <2>1 DEF GetDocument, Goto, Typed, Placed, Steady, OneOwner
  <2>3. \/ row' = row
        \/ row = None /\ row' # None /\ row'.job = None /\ row'.index # "done"
    BY <1>6 DEF GetDocument, Typed, Stored, stores
  <2>. QED
    BY <2>1, <2>2, <2>3, StarterPasses
<1>7. ASSUME NEW s \in Starters, ListJobs(s), UNCHANGED bounds PROVE Steady'
  <2>1. /\ s \in Starters /\ UNCHANGED <<jobs, queue, work, pages, copy>>
        /\ \A b \in Actors \ {s} : pc'[b] = pc[b] /\ doc'[b] = doc[b]
        /\ pc[s] \notin Unsettled \cup {"end"} /\ pc'[s] \in StarterSteps \ (Unsettled \cup Again)
        /\ pc[s] \in Again => pc'[s] = "end"
    BY <1>7, StarterIsNoOther
       DEF ListJobs, Goto, Typed, Placed, StarterSteps, Unsettled, Again, stores, Starters
  <2>2. /\ s \in Deliveries /\ pc'[s] \in {"list", "save"} => jobs[Keyed] = "none"
        /\ pc'[s] = "save" => \A j \in JobIds : jobs[j] \notin Live
    BY <1>7, <2>1 DEF ListJobs, VisibleParent, Goto, Typed, Placed, Steady, OneOwner
  <2>3. \/ row' = row
        \/ row = None /\ row' # None /\ row'.job = None /\ row'.index # "done"
    BY <1>7 DEF ListJobs, Typed, Stored, stores
  <2>. QED
    BY <2>1, <2>2, <2>3, StarterPasses
<1>8. ASSUME NEW s \in Starters, SaveJob(s), UNCHANGED bounds PROVE Steady'
  <2>1. /\ UNCHANGED <<row, queue, work, pages, copy>> /\ pc[s] = "save" /\ pc'[s] = "mark"
        /\ \A b \in Actors \ {s} : pc'[b] = pc[b] /\ doc'[b] = doc[b]
        /\ jobs'[ParentOf(s)] = "queued" /\ \A j \in JobIds \ {ParentOf(s)} : jobs'[j] = jobs[j]
    BY <1>8, ParentIsJob, StarterIsNoOther
       DEF SaveJob, SetJob, NewStatus, Goto, Typed, Placed, Stored
  <2>2. \A t \in Starters \ {s} : pc[t] \notin {"list", "save"}
    BY <1>8 DEF SaveJob, Undisturbed
  <2>3. jobs[ParentOf(s)] = "none"
    BY <2>1 DEF Steady, OneOwner, ParentOf, Starters, StarterSteps, Unsettled, Again
  <2>4. /\ ParentOf(s) \in JobIds /\ queue[ParentOf(s)] = 0 /\ work # ParentOf(s)
        /\ row # None => row.job # ParentOf(s)
        /\ \A t \in Starters : ~Owns(t, ParentOf(s))
    BY <2>3, ParentIsJob DEF Steady, OneOwner
  <2>9. \A t \in Starters, i \in JobIds :
            Owns(t, i)' <=> Owns(t, i) \/ (t = s /\ i = ParentOf(s))
    BY <2>1, <2>4, StarterIsNoOther DEF Owns, Unsettled
  <2>10. pc'["worker"] = pc["worker"]
    BY <2>1, StarterIsNoOther, OthersAreActors
  <2>13. \A j \in JobIds : jobs[j] \notin Live
    BY <2>1 DEF Steady, Alone
  <2>14. \A t \in Starters \ {s} : pc[t] \notin Unsettled \cup Again /\ pc'[t] = pc[t]
    <3>1. \A t \in Starters : pc[t] \notin Undoing
      BY <1>8 DEF SaveJob, Undisturbed
    <3>2. \A t \in Starters : pc[t] \notin Pushing
      BY <2>13, ParentIsJob DEF Steady, Staged, Pushing, Live
    <3>. QED
      BY <2>1, <3>1, <3>2, StarterIsNoOther DEF Unsettled, Again, Undoing, Pushing
  <2>15. pc'[s] \notin Again /\ \A t \in Starters : pc'[t] \notin Again
    BY <2>1, <2>14 DEF Again
  <2>11. Alone'
    BY <2>1, <2>2, <2>13, <2>14 DEF Alone, Live
  <2>12. Remarked'
    BY <2>15 DEF Remarked, Again
  <2>5. OneOwner'
    <3>1. \A d \in Deliveries : pc'[d] \notin {"list", "save"}
      BY <2>1, <2>2, StarterIsNoOther DEF Starters
    <3>2. \A c \in Clicks \ {s} : ParentOf(s) # c /\ pc'[c] = pc[c]
      BY <2>1, StarterIsNoOther, IntakeAssumption DEF ParentOf, Starters
    <3>3. \A c \in Clicks : pc'[c] \in StarterSteps \ (Unsettled \cup Again \cup {"end"}) => jobs'[c] = "none"
      BY <2>1, <3>2 DEF Steady, OneOwner, Unsettled, JobIds
    <3>4. /\ \A i \in JobIds : (\E t \in Starters : Owns(t, i)') => work' # i
          /\ \A t \in Starters : pc'[t] \in Pushing => queue'[ParentOf(t)] = 0
      BY <2>1, <2>4, <2>9, <2>14 DEF Steady, OneOwner, Pushing, Unsettled
    <3>5. \A i \in JobIds : queue'[i] \in {0, 1} /\ (queue'[i] = 1 => work' # i)
      BY <2>1 DEF Steady, OneOwner
    <3>6. \A i \in JobIds : jobs'[i] = "none" =>
             queue'[i] = 0 /\ work' # i /\ (row' # None => row'.job # i) /\ \A t \in Starters : ~Owns(t, i)'
      BY <2>1, <2>9 DEF Steady, OneOwner
    <3>7. \A i \in JobIds : \A t, u \in Starters : Owns(t, i)' /\ Owns(u, i)' => t = u
      BY <2>4, <2>9 DEF Steady, OneOwner
    <3>. QED
      BY <3>1, <3>3, <3>4, <3>5, <3>6, <3>7 DEF OneOwner
  <2>6. Staged'
    <3>3. work \in JobIds => jobs'[work] = jobs[work]
      BY <2>1, <2>4
    <3>4. \A t \in Starters :
            /\ pc'[t] \in {"mark", "markSave", "enqueue", "refused"} => jobs'[ParentOf(t)] = "queued"
            /\ pc'[t] \in {"mark", "markSave"} /\ row' # None => row'.job # ParentOf(t)
            /\ pc'[t] \in {"engine", "engineSave", "undo", "undoSave", "redo", "redoSave"} =>
                   jobs'[ParentOf(t)] = "failed"
            /\ pc'[t] = "engineSave" => copy'[t] = "failed"
      BY <2>1, <2>4, <2>14 DEF Unsettled, Again
    <3>5. \A j \in JobIds : queue'[j] = 1 => jobs'[j] \in {"queued", "failed"}
      BY <2>1, <2>4 DEF Steady, Staged
    <3>. QED
      BY <2>1, <2>10, <3>3, <3>4, <3>5, WorkerIsAtJob DEF Steady, Staged, Typed, Running
  <2>7. Shown'
    <3>1. \A i \in JobIds \ {ParentOf(s)} : UnderWay(i)' <=> UnderWay(i)
      BY <2>1, <2>9, <2>10 DEF UnderWay
    <3>. QED
      BY <2>1, <2>4, <2>10, <3>1, RowFields DEF Typed, Stored, Steady, Shown
  <2>8. HasPages'
    BY <2>1, <2>2, <2>3, JobIsSome, ParentIsJob, StarterIsNoOther, OthersAreActors
       DEF Typed, Stored, Steady, OneOwner, Owns, Staged, Shown, UnderWay, HasPages, Unsettled,
              Running,
           Live
  <2>. QED
    BY <2>5, <2>6, <2>7, <2>8, <2>11, <2>12 DEF Steady
<1>9. ASSUME NEW s \in Starters, MarkIndexing(s), UNCHANGED bounds PROVE Steady'
  <2>1. /\ UNCHANGED <<jobs, queue, work, pages, copy>>
        /\ \/ Reads(s, "mark", "markSave") \/ FindsNone(s, "mark", "enqueue")
           \/ Writes(s, "markSave", "indexing", ParentOf(s), "enqueue")
    BY <1>9, StarterUpdates DEF Typed, Stored
  <2>2. row # None
    BY <2>1 DEF Careful, Untouched, Reads, FindsNone, Writes
  <2>3. /\ \A b \in Actors \ {s} : pc'[b] = pc[b] /\ doc'[b] = doc[b]
        /\ \/ pc[s] = "mark" /\ row' = row /\ pc'[s] = "markSave"
           \/ /\ pc[s] = "markSave" /\ row' # None /\ pc'[s] = "enqueue"
              /\ row'.index = "indexing" /\ row'.job = ParentOf(s)
    BY <2>1, <2>2, RowFields, StarterIsNoOther, OthersAreActors
       DEF Typed, Placed, Reads, FindsNone, Writes
  <2>10. \A t \in Starters : Onward(t)
    BY <2>3, StarterIsNoOther DEF Onward, Unsettled, Pushing
  <2>9. \A t \in Starters : pc[t] \notin Again
    BY <2>3 DEF Steady, Alone, Unsettled, Again
  <2>5. OneOwner'
    <3>2. \A i \in JobIds : jobs'[i] = "none" <=> jobs[i] = "none"
      BY <2>1, <2>2, <2>3
    <3>3. row' # None => row' = row \/ jobs[row'.job] # "none"
      BY <2>1, <2>2, <2>3, ParentIsJob DEF Steady, OneOwner, Owns, Unsettled
    <3>4. UNCHANGED queue /\ work' \in {work, None}
      BY <2>1, <2>2, <2>3
    <3>. QED
      BY <2>10, <3>2, <3>3, <3>4, OwnersKept DEF Steady
  <2>6. Staged'
    BY <2>1, <2>2, <2>3, JobIsSome, ParentIsJob, StarterIsNoOther, OthersAreActors
       DEF Typed, Stored, Steady, OneOwner, Owns, Staged, Shown, UnderWay, HasPages, Unsettled,
              Running,
           Live
  <2>11. Alone'
    BY <2>1, <2>10, AloneKept DEF Steady
  <2>12. Remarked'
    BY <2>3, <2>9, StarterIsNoOther DEF Remarked, Again
  <2>7. Shown'
    BY <2>1, <2>2, <2>3, JobIsSome, ParentIsJob, StarterIsNoOther, OthersAreActors
       DEF Typed, Stored, Steady, OneOwner, Owns, Staged, Shown, UnderWay, HasPages, Unsettled,
              Running,
           Live
  <2>8. HasPages'
    BY <2>1, <2>2, <2>3, JobIsSome, ParentIsJob, StarterIsNoOther, OthersAreActors
       DEF Typed, Stored, Steady, OneOwner, Owns, Staged, Shown, UnderWay, HasPages, Unsettled,
              Running,
           Live
  <2>. QED
    BY <2>5, <2>6, <2>7, <2>8, <2>11, <2>12 DEF Steady
<1>10. ASSUME NEW s \in Starters, Enqueue(s), UNCHANGED bounds PROVE Steady'
  <2>1. /\ UNCHANGED <<row, jobs, work, pages, copy>> /\ pc[s] = "enqueue" /\ pc'[s] = "end"
        /\ \A b \in Actors \ {s} : pc'[b] = pc[b] /\ doc'[b] = doc[b]
        /\ queue'[ParentOf(s)] = queue[ParentOf(s)] + 1
        /\ \A j \in JobIds \ {ParentOf(s)} : queue'[j] = queue[j]
    BY <1>10, ParentIsJob, StarterIsNoOther DEF Enqueue, Goto, Typed, Placed, QueueBound
  <2>2. Owns(s, ParentOf(s)) /\ ParentOf(s) \in JobIds
    BY <2>1, ParentIsJob DEF Owns, Unsettled
  <2>3. /\ queue[ParentOf(s)] = 0 /\ queue'[ParentOf(s)] = 1 /\ work # ParentOf(s)
        /\ jobs[ParentOf(s)] = "queued" /\ \A t \in Starters : Owns(t, ParentOf(s)) => t = s
    BY <2>1, <2>2 DEF Steady, OneOwner, Staged, Pushing
  <2>4. \A t \in Starters, i \in JobIds : Owns(t, i)' <=> Owns(t, i) /\ i # ParentOf(s)
    BY <2>1, <2>2, <2>3, StarterIsNoOther DEF Owns, Unsettled
  <2>9. \A t \in Starters \ {s} : pc'[t] = pc[t] /\ pc[t] \notin Unsettled \cup Again
    BY <2>1, StarterIsNoOther DEF Steady, Alone, Unsettled
  <2>11. Alone'
    <3>1. \A t \in Starters : Onward(t)
      BY <2>1, <2>9 DEF Onward, Unsettled, Pushing
    <3>. QED
      BY <2>1, <3>1, AloneKept DEF Steady
  <2>12. Remarked'
    BY <2>1, <2>9 DEF Remarked, Again
  <2>5. OneOwner'
    <3>2. /\ \A i \in JobIds : (\E t \in Starters : Owns(t, i)') => work' # i
          /\ \A t \in Starters : pc'[t] \in Pushing => queue'[ParentOf(t)] = 0
      BY <2>1, <2>4, <2>9, ParentIsJob DEF Steady, OneOwner, Pushing, Unsettled
    <3>3. \A i \in JobIds : queue'[i] \in {0, 1} /\ (queue'[i] = 1 => work' # i)
      BY <2>1, <2>3 DEF Steady, OneOwner
    <3>4. \A i \in JobIds : jobs'[i] = "none" =>
             queue'[i] = 0 /\ work' # i /\ (row' # None => row'.job # i) /\ \A t \in Starters : ~Owns(t, i)'
      BY <2>1, <2>3, <2>4 DEF Steady, OneOwner
    <3>5. \A i \in JobIds : \A t, u \in Starters : Owns(t, i)' /\ Owns(u, i)' => t = u
      BY <2>4 DEF Steady, OneOwner
    <3>6. /\ \A d \in Deliveries : pc'[d] \in {"list", "save"} => jobs'[Keyed] = "none"
          /\ \A c \in Clicks : pc'[c] \in StarterSteps \ (Unsettled \cup Again \cup {"end"}) => jobs'[c] = "none"
      BY <2>1, StarterIsNoOther DEF Steady, OneOwner, Starters
    <3>. QED
      BY <3>2, <3>3, <3>4, <3>5, <3>6 DEF OneOwner
  <2>6. Staged'
    BY <2>1, <2>3, JobIsSome, ParentIsJob, StarterIsNoOther, OthersAreActors
       DEF Typed, Stored, Steady, OneOwner, Owns, Staged, Shown, UnderWay, HasPages, Unsettled,
              Running,
           Live
  <2>7. Shown'
    <3>1. \A i \in JobIds : UnderWay(i)' <=> UnderWay(i)
      BY <2>1, <2>2, <2>3, <2>4, StarterIsNoOther, OthersAreActors DEF UnderWay
    <3>2. pc'["worker"] = pc["worker"]
      BY <2>1, StarterIsNoOther, OthersAreActors
    <3>. QED
      BY <2>1, <3>1, <3>2, RowFields DEF Typed, Stored, Steady, Shown
  <2>8. HasPages'
    BY <2>1, <2>3, JobIsSome, ParentIsJob, StarterIsNoOther, OthersAreActors
       DEF Typed, Stored, Steady, OneOwner, Owns, Staged, Shown, UnderWay, HasPages, Unsettled,
              Running,
           Live
  <2>. QED
    BY <2>5, <2>6, <2>7, <2>8, <2>11, <2>12 DEF Steady
<1>11. ASSUME NEW s \in Starters, Handle(s), UNCHANGED bounds PROVE Steady'
  <2>1. /\ s \in Actors /\ ParentOf(s) \in JobIds /\ UNCHANGED <<row, doc, work, pages>>
        /\ \A b \in Actors \ {s} : pc'[b] = pc[b]
        /\ \A t \in Starters \ {s} : copy'[t] = copy[t]
        /\ \A j \in JobIds \ {ParentOf(s)} : jobs'[j] = jobs[j] /\ queue'[j] = queue[j]
    <3>1. /\ UNCHANGED <<row, doc, work, pages>> /\ \A b \in Actors \ {s} : pc'[b] = pc[b]
          /\ \A j \in JobIds \ {ParentOf(s)} : jobs'[j] = jobs[j]
      BY <1>11, HandlerSteps DEF Typed
    <3>2. \A j \in JobIds \ {ParentOf(s)} : queue'[j] = queue[j]
      BY <1>11, ParentIsJob
         DEF Handle, PushRaises, Refuse, LoadParent, SaveParent, stores, Typed, QueueBound
    <3>3. \A t \in Starters \ {s} : copy'[t] = copy[t]
      BY <1>11 DEF Handle, PushRaises, Refuse, LoadParent, SaveParent, Typed, Stored
    <3>. QED
      BY <3>1, <3>2, <3>3, ParentIsJob, StarterIsNoOther
  <2>2. /\ Owns(s, ParentOf(s)) /\ work # ParentOf(s) /\ jobs[ParentOf(s)] # "none"
        /\ \A t \in Starters \ {s} : pc[t] \notin Unsettled \cup Again
        /\ \A j \in JobIds \ {ParentOf(s)} : jobs[j] \notin Live
    <3>1. pc[s] \in {"enqueue", "refused", "engine", "engineSave"}
      BY <1>11, HandlerSteps DEF Typed
    <3>2. Owns(s, ParentOf(s))
      BY <3>1 DEF Owns, Unsettled
    <3>. QED
      BY <2>1, <3>1, <3>2 DEF Steady, OneOwner, Alone, Unsettled
  <2>3. \/ /\ pc[s] = "enqueue" /\ pc'[s] = "refused" /\ queue[ParentOf(s)] = 0
           /\ queue'[ParentOf(s)] \in {0, 1}
           /\ jobs[ParentOf(s)] = "queued" /\ jobs'[ParentOf(s)] = "queued"
        \/ /\ pc[s] = "refused" /\ pc'[s] = "engine" /\ queue'[ParentOf(s)] = queue[ParentOf(s)]
           /\ jobs'[ParentOf(s)] = "failed"
        \/ /\ pc[s] = "engine" /\ pc'[s] = "engineSave" /\ queue'[ParentOf(s)] = queue[ParentOf(s)]
           /\ jobs[ParentOf(s)] = "failed" /\ jobs'[ParentOf(s)] = "failed" /\ copy'[s] = "failed"
        \/ /\ pc[s] = "engineSave" /\ pc'[s] = "undo" /\ queue'[ParentOf(s)] = queue[ParentOf(s)]
           /\ jobs[ParentOf(s)] = "failed" /\ jobs'[ParentOf(s)] = "failed"
    BY <1>11, <2>1, <2>2, HandlerSteps
       DEF Typed, Stored, QueueBound, Steady, OneOwner, Staged, Pushing
  <2>4. \A t \in Starters : Onward(t)
    BY <2>1, <2>3, StarterIsNoOther DEF Onward, Unsettled, Pushing
  <2>10. \A t \in Starters, i \in JobIds : Owns(t, i)' <=> Owns(t, i)
    BY <2>1, <2>3, StarterIsNoOther DEF Owns, Unsettled
  <2>9. /\ pc'["worker"] = pc["worker"]
        /\ work \in JobIds => jobs'[work] = jobs[work]
        /\ \A t \in Starters \ {s} : pc'[t] = pc[t]
        /\ \A t \in Starters : pc'[t] \notin Again
    BY <2>1, <2>2, <2>3, StarterIsNoOther, OthersAreActors DEF Again
  <2>5. OneOwner'
    <3>1. /\ \A t \in Starters : pc'[t] \in Pushing => queue'[ParentOf(t)] = 0
          /\ \A d \in Deliveries : pc'[d] \in {"list", "save"} => jobs'[Keyed] = "none"
      <4>1. \A t \in Starters : pc'[t] \notin Pushing
        BY <2>2, <2>3, <2>9 DEF Pushing, Unsettled
      <4>2. ASSUME NEW d \in Deliveries, pc'[d] \in {"list", "save"} PROVE jobs'[Keyed] = "none"
        <5>1. d \in Starters /\ d # s /\ pc'[d] = pc[d] /\ ParentOf(d) = Keyed
          BY <2>3, <2>9, <4>2 DEF Starters, ParentOf
        <5>2. jobs[Keyed] = "none" /\ Keyed \in JobIds
          BY <5>1, <4>2, ParentIsJob DEF Steady, OneOwner
        <5>. QED
          BY <2>1, <2>2, <5>2
      <4>. QED
        BY <4>1, <4>2
    <3>2. \A c \in Clicks :
            pc'[c] \in StarterSteps \ (Unsettled \cup Again \cup {"end"}) => jobs'[c] = "none"
      <4>1. ASSUME NEW c \in Clicks, pc'[c] \in StarterSteps \ (Unsettled \cup Again \cup {"end"})
            PROVE jobs'[c] = "none"
        <5>1. c \in Starters /\ c # s /\ pc'[c] = pc[c] /\ c \in JobIds
          BY <2>3, <2>9, <4>1 DEF Starters, JobIds, Unsettled
        <5>2. jobs[c] = "none"
          BY <5>1, <4>1 DEF Steady, OneOwner
        <5>. QED
          BY <2>1, <2>2, <5>1, <5>2
      <4>. QED
        BY <4>1
    <3>3. ASSUME NEW i \in JobIds
          PROVE /\ jobs'[i] = "none" => /\ queue'[i] = 0 /\ work' # i
                                        /\ row' # None => row'.job # i
                                        /\ \A t \in Starters : ~Owns(t, i)'
                /\ (\E t \in Starters : Owns(t, i)') => work' # i
                /\ queue'[i] \in {0, 1} /\ (queue'[i] = 1 => work' # i)
      <4>1. CASE i = ParentOf(s)
        BY <2>1, <2>2, <2>3, <4>1 DEF Steady, OneOwner
      <4>2. CASE i # ParentOf(s)
        BY <2>1, <2>10, <4>2 DEF Steady, OneOwner
      <4>. QED
        BY <4>1, <4>2
    <3>4. \A i \in JobIds : \A t, u \in Starters : Owns(t, i)' /\ Owns(u, i)' => t = u
      BY <2>10 DEF Steady, OneOwner
    <3>. QED
      BY <3>1, <3>2, <3>3, <3>4 DEF OneOwner
  <2>6. Staged'
    <3>1. \A t \in Starters :
            /\ pc'[t] \in {"mark", "markSave", "enqueue", "refused"} => jobs'[ParentOf(t)] = "queued"
            /\ pc'[t] \in {"mark", "markSave"} /\ row' # None => row'.job # ParentOf(t)
            /\ pc'[t] \in {"engine", "engineSave", "undo", "undoSave", "redo", "redoSave"} =>
                   jobs'[ParentOf(t)] = "failed"
            /\ pc'[t] = "engineSave" => copy'[t] = "failed"
      BY <2>2, <2>3, <2>9 DEF Unsettled, Again
    <3>2. \A j \in JobIds : queue'[j] = 1 => jobs'[j] \in {"queued", "failed"}
      BY <2>1, <2>3 DEF Steady, Staged
    <3>. QED
      BY <2>1, <2>9, <3>1, <3>2, WorkerIsAtJob DEF Steady, Staged, Typed, Running
  <2>7. Shown'
    <3>1. \A i \in JobIds \ {ParentOf(s)} : UnderWay(i)' <=> UnderWay(i)
      BY <2>1, <2>9, <2>10 DEF UnderWay
    <3>2. UnderWay(ParentOf(s)) /\ UnderWay(ParentOf(s))'
      BY <2>2, <2>10, <2>1 DEF UnderWay
    <3>. QED
      BY <2>1, <2>9, <3>1, <3>2, RowFields DEF Typed, Stored, Steady, Shown
  <2>8. HasPages'
    BY <2>1, <2>9 DEF Steady, HasPages
  <2>11. Alone'
    <3>1. \A j \in JobIds : jobs'[j] \in Live => jobs[j] \in Live
      BY <2>1, <2>3 DEF Live
    <3>. QED
      BY <2>4, <3>1, AloneKept DEF Steady
  <2>12. Remarked'
    BY <2>9 DEF Remarked, Again
  <2>. QED
    BY <2>5, <2>6, <2>7, <2>8, <2>11, <2>12 DEF Steady
<1>12. ASSUME NEW s \in Starters, MarkFailed(s), UNCHANGED bounds PROVE Steady'
  <2>1. /\ UNCHANGED <<jobs, queue, work, pages, copy>>
        /\ \/ Reads(s, "undo", "undoSave") \/ FindsNone(s, "undo", Handled(s))
           \/ Writes(s, "undoSave", "failed", ParentOf(s), Handled(s))
    BY <1>12, StarterUpdates DEF Typed, Stored
  <2>2. row # None
    BY <2>1 DEF Careful, Untouched, Reads, FindsNone, Writes
  <2>3. /\ \A b \in Actors \ {s} : pc'[b] = pc[b] /\ doc'[b] = doc[b]
        /\ \/ pc[s] = "undo" /\ row' = row /\ pc'[s] = "undoSave"
           \/ /\ pc[s] = "undoSave" /\ row' # None /\ pc'[s] = Handled(s)
              /\ row'.index = "failed" /\ row'.job = ParentOf(s)
    BY <2>1, <2>2, RowFields, StarterIsNoOther, OthersAreActors
       DEF Typed, Placed, Reads, FindsNone, Writes
  <2>10. \A t \in Starters : Onward(t)
    BY <2>3, StarterIsNoOther DEF Onward, Unsettled, Pushing, Handled, Again
  <2>9. \A t \in Starters : pc[t] \notin Again
    BY <2>3 DEF Steady, Alone, Unsettled, Again
  <2>5. OneOwner'
    <3>2. \A i \in JobIds : jobs'[i] = "none" <=> jobs[i] = "none"
      BY <2>1, <2>2, <2>3
    <3>3. row' # None => row' = row \/ jobs[row'.job] # "none"
      BY <2>1, <2>2, <2>3, ParentIsJob DEF Steady, OneOwner, Owns, Unsettled
    <3>4. UNCHANGED queue /\ work' \in {work, None}
      BY <2>1, <2>2, <2>3
    <3>. QED
      BY <2>10, <3>2, <3>3, <3>4, OwnersKept DEF Steady
  <2>6. Staged'
    BY <2>1, <2>2, <2>3, JobIsSome, ParentIsJob, StarterIsNoOther, OthersAreActors
       DEF Handled, Typed, Stored, Steady, OneOwner, Owns, Staged, Shown, UnderWay, HasPages,
              Unsettled, Running,
           Live
  <2>11. Alone'
    BY <2>1, <2>10, AloneKept DEF Steady
  <2>12. Remarked'
    BY <2>3, <2>9, StarterIsNoOther DEF Remarked, Again, Handled
  <2>7. Shown'
    BY <2>1, <2>2, <2>3, JobIsSome, ParentIsJob, StarterIsNoOther, OthersAreActors
       DEF Handled, Typed, Stored, Steady, OneOwner, Owns, Staged, Shown, UnderWay, HasPages,
              Unsettled, Running,
           Live
  <2>8. HasPages'
    BY <2>1, <2>2, <2>3, JobIsSome, ParentIsJob, StarterIsNoOther, OthersAreActors
       DEF Handled, Typed, Stored, Steady, OneOwner, Owns, Staged, Shown, UnderWay, HasPages,
              Unsettled, Running,
           Live
  <2>. QED
    BY <2>5, <2>6, <2>7, <2>8, <2>11, <2>12 DEF Steady
<1>13. ASSUME NEW s \in Starters, Stop(s), UNCHANGED bounds PROVE Steady'
  <2>1. /\ UNCHANGED <<row, jobs, queue, work, pages>>
        /\ \A b \in Actors \ {s} : pc'[b] = pc[b] /\ doc'[b] = doc[b]
        /\ \A t \in Starters \ {s} : copy'[t] = copy[t]
        /\ pc[s] # "end" /\ pc'[s] = "end"
    BY <1>13, StarterIsNoOther DEF Stop, Goto, Typed, Placed, Fits, Stored, stores
  <2>2. pc[s] \notin Unsettled
    BY <1>13 DEF Stop, Undisturbed
  <2>3. "end" \in StarterSteps \ (Unsettled \cup Again)
    BY DEF StarterSteps, Unsettled, Again
  <2>4. /\ s \in Deliveries /\ pc'[s] \in {"list", "save"} => jobs[Keyed] = "none"
        /\ pc'[s] = "save" => \A j \in JobIds : jobs[j] \notin Live
    BY <2>1
  <2>. QED
    BY <2>1, <2>2, <2>3, <2>4, StarterPasses
<1>14. ASSUME NEW j \in JobIds, Take(j), UNCHANGED bounds PROVE Steady'
  <2>1. queue[j] = 1 /\ jobs[j] \in {"queued", "failed"}
    BY <1>14 DEF Take, Steady, OneOwner, Staged
  <2>2. /\ UNCHANGED <<row, jobs, pages, doc, copy>> /\ pc["worker"] = "idle" /\ work = None
        /\ \A b \in Actors \ {"worker"} : pc'[b] = pc[b]
        /\ queue'[j] = 0 /\ \A i \in JobIds \ {j} : queue'[i] = queue[i]
        /\ \/ jobs[j] = "queued" /\ work' = j /\ pc'["worker"] = "load"
           \/ jobs[j] = "failed" /\ work' = None /\ pc'["worker"] = "idle"
    BY <1>14, <2>1, OthersAreActors DEF Take, Goto, Live, Typed, Placed, WorkerHolds, QueueBound
  <2>3. \A t \in Starters : pc'[t] = pc[t]
    BY <2>2, StarterIsNoOther
  <2>4. \A t \in Starters, i \in JobIds : Owns(t, i)' <=> Owns(t, i)
    BY <2>3 DEF Owns
  <2>9. jobs[j] = "queued" => \A t \in Starters : ~Owns(t, j)
    <3>1. SUFFICES ASSUME jobs[j] = "queued", NEW t \in Starters, Owns(t, j) PROVE FALSE
      OBVIOUS
    <3>2. pc[t] \notin Undoing
      BY <1>14, <3>1 DEF Take, Live, Undisturbed, Owns
    <3>3. pc[t] \in Pushing
      BY <3>1, <3>2 DEF Owns, Unsettled, Undoing, Pushing
    <3>. QED
      BY <2>1, <3>1, <3>3 DEF Steady, OneOwner, Owns
  <2>10. \A t \in Starters : Onward(t)
    BY <2>3 DEF Onward
  <2>5. OneOwner'
    <3>1. \A t \in Starters : pc'[t] \in Pushing => queue'[ParentOf(t)] = 0
      BY <2>2, <2>3, ParentIsJob DEF Steady, OneOwner
    <3>2. \A i \in JobIds : (\E t \in Starters : Owns(t, i)') => work' # i
      BY <2>2, <2>4, <2>9, JobIsSome DEF Steady, OneOwner
    <3>3. \A i \in JobIds : queue'[i] \in {0, 1} /\ (queue'[i] = 1 => work' # i)
      BY <2>2, JobIsSome DEF Steady, OneOwner
    <3>4. \A i \in JobIds : jobs'[i] = "none" =>
             queue'[i] = 0 /\ work' # i /\ (row' # None => row'.job # i) /\ \A t \in Starters : ~Owns(t, i)'
      BY <2>1, <2>2, <2>4, JobIsSome DEF Steady, OneOwner
    <3>5. \A i \in JobIds : \A t, u \in Starters : Owns(t, i)' /\ Owns(u, i)' => t = u
      BY <2>4 DEF Steady, OneOwner
    <3>6. /\ \A d \in Deliveries : pc'[d] \in {"list", "save"} => jobs'[Keyed] = "none"
          /\ \A c \in Clicks :
               pc'[c] \in StarterSteps \ (Unsettled \cup Again \cup {"end"}) => jobs'[c] = "none"
      BY <2>2, <2>3 DEF Steady, OneOwner, Starters
    <3>. QED
      BY <3>1, <3>2, <3>3, <3>4, <3>5, <3>6 DEF OneOwner
  <2>6. Staged'
    <3>1. \A i \in JobIds : queue'[i] = 1 => queue[i] = 1
      BY <2>2
    <3>2. /\ \A t \in Starters :
               /\ pc'[t] \in {"mark", "markSave", "enqueue", "refused"} => jobs'[ParentOf(t)] = "queued"
               /\ pc'[t] \in {"mark", "markSave"} /\ row' # None => row'.job # ParentOf(t)
               /\ pc'[t] \in {"engine", "engineSave", "undo", "undoSave", "redo", "redoSave"} =>
                      jobs'[ParentOf(t)] = "failed"
               /\ pc'[t] = "engineSave" => copy'[t] = "failed"
          /\ \A i \in JobIds : queue'[i] = 1 => jobs'[i] \in {"queued", "failed"}
      BY <2>2, <2>3, <3>1 DEF Steady, Staged
    <3>. QED
      BY <2>2, <3>2 DEF Staged, Running
  <2>7. \A i \in JobIds : UnderWay(i)' <=> UnderWay(i)
    BY <2>1, <2>2, <2>4, JobIsSome DEF UnderWay
  <2>8. Shown'
    BY <2>1, <2>2, <2>7, RowFields, JobIsSome DEF Typed, Stored, Steady, Shown, UnderWay
  <2>11. Alone'
    BY <2>2, <2>10, AloneKept DEF Steady
  <2>12. Remarked'
    <3>1. \A t \in Starters : pc'[t] \in Again => pc'[t] = pc[t] /\ doc'[t] = doc[t]
      BY <2>2, <2>3
    <3>. QED
      BY <2>2, <2>7, <3>1, RemarkedKept DEF Steady
  <2>13. HasPages'
    BY <2>2 DEF Steady, HasPages
  <2>. QED
    BY <2>5, <2>6, <2>8, <2>11, <2>12, <2>13 DEF Steady
<1>15. ASSUME LoadDocument, UNCHANGED bounds PROVE Steady'
  <2>1. work \in JobIds /\ jobs[work] = "queued" /\ row # None
    BY <1>15, WorkerIsAtJob DEF LoadDocument, Typed, Steady, Staged, Careful, Untouched
  <2>2. /\ UNCHANGED <<row, queue, work, pages, copy>> /\ pc["worker"] = "load"
        /\ \A b \in Actors \ {"worker"} : pc'[b] = pc[b] /\ doc'[b] = doc[b]
        /\ \/ jobs'[work] = "running" /\ pc'["worker"] = "begin"
           \/ jobs'[work] = "failed" /\ pc'["worker"] = "fail"
        /\ \A j \in JobIds \ {work} : jobs'[j] = jobs[j]
    BY <1>15, <2>1, OthersAreActors DEF LoadDocument, Proceed, SetJob, Goto, Typed, Placed, Stored
  <2>10. \A t \in Starters : Onward(t) /\ pc'[t] = pc[t] /\ doc'[t] = doc[t]
    BY <2>2, <2>1, StarterIsNoOther DEF Onward
  <2>5. OneOwner'
    <3>2. \A i \in JobIds : jobs'[i] = "none" <=> jobs[i] = "none"
      BY <2>1, <2>2
    <3>3. row' # None => row' = row \/ jobs[row'.job] # "none"
      BY <2>1, <2>2, ParentIsJob DEF Steady, OneOwner
    <3>4. UNCHANGED queue /\ work' \in {work, None}
      BY <2>1, <2>2
    <3>. QED
      BY <2>10, <3>2, <3>3, <3>4, OwnersKept DEF Steady
  <2>6. Staged'
    <3>1. /\ UNCHANGED <<copy, queue>> /\ \A t \in Starters : pc'[t] = pc[t]
          /\ row' # None => row' = row \/ row'.job = work
          /\ \A i \in JobIds : jobs'[i] = jobs[i] \/ (i = work /\ jobs[work] \in Live)
      BY <2>1, <2>2, <2>10 DEF Live
    <3>2. StartersStaged' /\ \A i \in JobIds : queue'[i] = 1 => jobs'[i] \in {"queued", "failed"}
      BY <3>1, <2>1, StartersStagedKept
    <3>. QED
      BY <2>1, <2>2, <3>2, JobIsSome DEF Steady, Staged, StartersStaged, Running
  <2>11. Alone'
    <3>1. \A i \in JobIds : jobs'[i] \in Live => jobs[i] \in Live
      BY <2>1, <2>2 DEF Live
    <3>. QED
      BY <2>10, <3>1, AloneKept DEF Steady
  <2>12. Remarked'
    <3>1. \A i \in JobIds : jobs[i] = "failed" /\ ~UnderWay(i) =>
              jobs'[i] = "failed" /\ ~UnderWay(i)'
      BY <2>1, <2>2, <2>10, JobIsSome DEF UnderWay, Owns
    <3>2. \/ row' = row \/ row' = None \/ row'.index = "failed"
          \/ \A t \in Starters : pc[t] \notin Again
      BY <2>1, <2>2
    <3>. QED
      BY <2>10, <3>1, <3>2, RemarkedKept DEF Steady
  <2>7. Shown'
    <3>1. \A t \in Starters, i \in JobIds : Owns(t, i)' <=> Owns(t, i)
      BY <2>2, StarterIsNoOther, OthersAreActors DEF Owns
    <3>2. \A i \in JobIds \ {work} : UnderWay(i)' <=> UnderWay(i)
      BY <2>1, <2>2, <3>1, JobIsSome DEF UnderWay
    <3>3. (UnderWay(work) <=> pc["worker"] \notin {"finish", "ack"})
          /\ (UnderWay(work)' <=> pc'["worker"] \notin {"finish", "ack"})
      BY <2>1, <2>2, <3>1 DEF UnderWay, Steady, OneOwner
    <3>. QED
      BY <2>1, <2>2, <3>2, <3>3, RowFields, JobIsSome DEF Typed, Stored, Steady, Shown
  <2>8. HasPages'
    BY <2>1, <2>2, JobIsSome, ParentIsJob, StarterIsNoOther, OthersAreActors
       DEF Typed, Stored, Steady, OneOwner, Owns, Staged, Shown, UnderWay, HasPages, Unsettled,
              Running,
           Live
  <2>. QED
    BY <2>5, <2>6, <2>7, <2>8, <2>11, <2>12 DEF Steady
<1>16. ASSUME ReportIndexing, UNCHANGED bounds PROVE Steady'
  <2>1. /\ UNCHANGED <<jobs, queue, work, pages, copy>>
        /\ \/ Reads("worker", "begin", "beginSave") \/ FindsNone("worker", "begin", "insert")
           \/ Writes("worker", "beginSave", "indexing", work, "insert")
    BY <1>16, WorkerUpdates DEF Typed, Stored
  <2>2. row # None
    BY <2>1 DEF Careful, Untouched, Reads, FindsNone, Writes
  <2>3. /\ \A b \in Actors \ {"worker"} : pc'[b] = pc[b] /\ doc'[b] = doc[b]
        /\ \/ pc["worker"] = "begin" /\ row' = row /\ pc'["worker"] = "beginSave"
           \/ /\ pc["worker"] = "beginSave" /\ row' # None /\ pc'["worker"] = "insert"
              /\ row'.index = "indexing" /\ row'.job = work
    BY <2>1, <2>2, RowFields, StarterIsNoOther, OthersAreActors
       DEF Typed, Placed, Reads, FindsNone, Writes
  <2>4. work \in JobIds
    BY <2>3, WorkerIsAtJob DEF Typed
  <2>10. \A t \in Starters : Onward(t) /\ pc'[t] = pc[t] /\ doc'[t] = doc[t]
    BY <2>3, StarterIsNoOther DEF Onward
  <2>5. OneOwner'
    <3>2. \A i \in JobIds : jobs'[i] = "none" <=> jobs[i] = "none"
      BY <2>1, <2>2, <2>3, <2>4
    <3>3. row' # None => row' = row \/ jobs[row'.job] # "none"
      BY <2>1, <2>2, <2>3, <2>4, ParentIsJob DEF Steady, OneOwner
    <3>4. UNCHANGED queue /\ work' \in {work, None}
      BY <2>1, <2>2, <2>3, <2>4
    <3>. QED
      BY <2>10, <3>2, <3>3, <3>4, OwnersKept DEF Steady
  <2>6. Staged'
    <3>1. /\ UNCHANGED <<copy, queue>> /\ \A t \in Starters : pc'[t] = pc[t]
          /\ row' # None => row' = row \/ row'.job = work
          /\ \A i \in JobIds : jobs'[i] = jobs[i] \/ (i = work /\ jobs[work] \in Live)
      BY <2>1, <2>2, <2>3, <2>4, <2>10 DEF Live
    <3>2. StartersStaged' /\ \A i \in JobIds : queue'[i] = 1 => jobs'[i] \in {"queued", "failed"}
      BY <3>1, <2>4, StartersStagedKept
    <3>. QED
      BY <2>1, <2>2, <2>3, <2>4, <3>2, JobIsSome DEF Steady, Staged, StartersStaged, Running
  <2>11. Alone'
    <3>1. \A i \in JobIds : jobs'[i] \in Live => jobs[i] \in Live
      BY <2>1, <2>2, <2>3, <2>4 DEF Live
    <3>. QED
      BY <2>10, <3>1, AloneKept DEF Steady
  <2>12. Remarked'
    <3>1. \A i \in JobIds : jobs[i] = "failed" /\ ~UnderWay(i) =>
              jobs'[i] = "failed" /\ ~UnderWay(i)'
      BY <2>1, <2>2, <2>3, <2>4, <2>10, JobIsSome DEF UnderWay, Owns
    <3>2. \/ row' = row \/ row' = None \/ row'.index = "failed"
          \/ \A t \in Starters : pc[t] \notin Again
      BY <2>4, RunsAlone, <2>3 DEF Steady, Staged, Running, Live
    <3>. QED
      BY <2>10, <3>1, <3>2, RemarkedKept DEF Steady
  <2>7. Shown'
    BY <2>1, <2>2, <2>3, <2>4, JobIsSome, ParentIsJob, StarterIsNoOther, OthersAreActors
       DEF Typed, Stored, Steady, OneOwner, Owns, Staged, Shown, UnderWay, HasPages, Unsettled,
              Running,
           Live
  <2>8. HasPages'
    BY <2>1, <2>2, <2>3, <2>4, JobIsSome, ParentIsJob, StarterIsNoOther, OthersAreActors
       DEF Typed, Stored, Steady, OneOwner, Owns, Staged, Shown, UnderWay, HasPages, Unsettled,
              Running,
           Live
  <2>. QED
    BY <2>5, <2>6, <2>7, <2>8, <2>11, <2>12 DEF Steady
<1>17. ASSUME Insert, UNCHANGED bounds PROVE Steady'
  <2>1. work \in JobIds /\ jobs[work] = "running"
    BY <1>17, WorkerIsAtJob DEF Insert, Typed, Steady, Staged, Running
  <2>2. /\ UNCHANGED <<row, jobs, queue, work, copy>> /\ pc["worker"] = "insert" /\ pc'["worker"] = "check"
        /\ \A b \in Actors \ {"worker"} : pc'[b] = pc[b] /\ doc'[b] = doc[b]
        /\ pages' # {}
    BY <1>17, <2>1, OthersAreActors DEF Insert, Goto, Typed, Placed
  <2>10. \A t \in Starters : Onward(t) /\ pc'[t] = pc[t] /\ doc'[t] = doc[t]
    BY <2>2, <2>1, StarterIsNoOther DEF Onward
  <2>5. OneOwner'
    <3>2. \A i \in JobIds : jobs'[i] = "none" <=> jobs[i] = "none"
      BY <2>1, <2>2
    <3>3. row' # None => row' = row \/ jobs[row'.job] # "none"
      BY <2>1, <2>2, ParentIsJob DEF Steady, OneOwner
    <3>4. UNCHANGED queue /\ work' \in {work, None}
      BY <2>1, <2>2
    <3>. QED
      BY <2>10, <3>2, <3>3, <3>4, OwnersKept DEF Steady
  <2>6. Staged'
    <3>1. /\ UNCHANGED <<copy, queue>> /\ \A t \in Starters : pc'[t] = pc[t]
          /\ row' # None => row' = row \/ row'.job = work
          /\ \A i \in JobIds : jobs'[i] = jobs[i] \/ (i = work /\ jobs[work] \in Live)
      BY <2>1, <2>2, <2>10 DEF Live
    <3>2. StartersStaged' /\ \A i \in JobIds : queue'[i] = 1 => jobs'[i] \in {"queued", "failed"}
      BY <3>1, <2>1, StartersStagedKept
    <3>. QED
      BY <2>1, <2>2, <3>2, JobIsSome DEF Steady, Staged, StartersStaged, Running
  <2>11. Alone'
    <3>1. \A i \in JobIds : jobs'[i] \in Live => jobs[i] \in Live
      BY <2>1, <2>2 DEF Live
    <3>. QED
      BY <2>10, <3>1, AloneKept DEF Steady
  <2>12. Remarked'
    <3>1. \A i \in JobIds : jobs[i] = "failed" /\ ~UnderWay(i) =>
              jobs'[i] = "failed" /\ ~UnderWay(i)'
      BY <2>1, <2>2, <2>10, JobIsSome DEF UnderWay, Owns
    <3>2. \/ row' = row \/ row' = None \/ row'.index = "failed"
          \/ \A t \in Starters : pc[t] \notin Again
      BY <2>1, <2>2
    <3>. QED
      BY <2>10, <3>1, <3>2, RemarkedKept DEF Steady
  <2>7. Shown'
    BY <2>1, <2>2, JobIsSome, ParentIsJob, StarterIsNoOther, OthersAreActors
       DEF Typed, Stored, Steady, OneOwner, Owns, Staged, Shown, UnderWay, HasPages, Unsettled,
              Running,
           Live
  <2>8. HasPages'
    BY <2>1, <2>2, JobIsSome, ParentIsJob, StarterIsNoOther, OthersAreActors
       DEF Typed, Stored, Steady, OneOwner, Owns, Staged, Shown, UnderWay, HasPages, Unsettled,
              Running,
           Live
  <2>. QED
    BY <2>5, <2>6, <2>7, <2>8, <2>11, <2>12 DEF Steady
<1>18. ASSUME Check, UNCHANGED bounds PROVE Steady'
  <2>1. work \in JobIds /\ jobs[work] = "running"
    BY <1>18, WorkerIsAtJob DEF Check, Typed, Steady, Staged, Running
  <2>2. /\ UNCHANGED <<row, jobs, queue, work, copy>> /\ pc["worker"] = "check" /\ pc'["worker"] = "report"
        /\ \A b \in Actors \ {"worker"} : pc'[b] = pc[b] /\ doc'[b] = doc[b]
        /\ pages' = pages
    BY <1>18, <2>1, OthersAreActors DEF Check, Goto, Typed, Placed
  <2>10. \A t \in Starters : Onward(t) /\ pc'[t] = pc[t] /\ doc'[t] = doc[t]
    BY <2>2, <2>1, StarterIsNoOther DEF Onward
  <2>5. OneOwner'
    <3>2. \A i \in JobIds : jobs'[i] = "none" <=> jobs[i] = "none"
      BY <2>1, <2>2
    <3>3. row' # None => row' = row \/ jobs[row'.job] # "none"
      BY <2>1, <2>2, ParentIsJob DEF Steady, OneOwner
    <3>4. UNCHANGED queue /\ work' \in {work, None}
      BY <2>1, <2>2
    <3>. QED
      BY <2>10, <3>2, <3>3, <3>4, OwnersKept DEF Steady
  <2>6. Staged'
    <3>1. /\ UNCHANGED <<copy, queue>> /\ \A t \in Starters : pc'[t] = pc[t]
          /\ row' # None => row' = row \/ row'.job = work
          /\ \A i \in JobIds : jobs'[i] = jobs[i] \/ (i = work /\ jobs[work] \in Live)
      BY <2>1, <2>2, <2>10 DEF Live
    <3>2. StartersStaged' /\ \A i \in JobIds : queue'[i] = 1 => jobs'[i] \in {"queued", "failed"}
      BY <3>1, <2>1, StartersStagedKept
    <3>. QED
      BY <2>1, <2>2, <3>2, JobIsSome DEF Steady, Staged, StartersStaged, Running
  <2>11. Alone'
    <3>1. \A i \in JobIds : jobs'[i] \in Live => jobs[i] \in Live
      BY <2>1, <2>2 DEF Live
    <3>. QED
      BY <2>10, <3>1, AloneKept DEF Steady
  <2>12. Remarked'
    <3>1. \A i \in JobIds : jobs[i] = "failed" /\ ~UnderWay(i) =>
              jobs'[i] = "failed" /\ ~UnderWay(i)'
      BY <2>1, <2>2, <2>10, JobIsSome DEF UnderWay, Owns
    <3>2. \/ row' = row \/ row' = None \/ row'.index = "failed"
          \/ \A t \in Starters : pc[t] \notin Again
      BY <2>1, <2>2
    <3>. QED
      BY <2>10, <3>1, <3>2, RemarkedKept DEF Steady
  <2>7. Shown'
    BY <2>1, <2>2, JobIsSome, ParentIsJob, StarterIsNoOther, OthersAreActors
       DEF Typed, Stored, Steady, OneOwner, Owns, Staged, Shown, UnderWay, HasPages, Unsettled,
              Running,
           Live
  <2>8. HasPages'
    BY <2>1, <2>2, JobIsSome, ParentIsJob, StarterIsNoOther, OthersAreActors
       DEF Typed, Stored, Steady, OneOwner, Owns, Staged, Shown, UnderWay, HasPages, Unsettled,
              Running,
           Live
  <2>. QED
    BY <2>5, <2>6, <2>7, <2>8, <2>11, <2>12 DEF Steady
<1>19. ASSUME ReportDone, UNCHANGED bounds PROVE Steady'
  <2>1. /\ UNCHANGED <<jobs, queue, work, pages, copy>>
        /\ \/ Reads("worker", "report", "reportSave") \/ FindsNone("worker", "report", "finish")
           \/ Writes("worker", "reportSave", "done", work, "finish")
    BY <1>19, WorkerUpdates DEF Typed, Stored
  <2>2. row # None
    BY <2>1 DEF Careful, Untouched, Reads, FindsNone, Writes
  <2>3. /\ \A b \in Actors \ {"worker"} : pc'[b] = pc[b] /\ doc'[b] = doc[b]
        /\ \/ pc["worker"] = "report" /\ row' = row /\ pc'["worker"] = "reportSave"
           \/ /\ pc["worker"] = "reportSave" /\ row' # None /\ pc'["worker"] = "finish"
              /\ row'.index = "done" /\ row'.job = work
    BY <2>1, <2>2, RowFields, StarterIsNoOther, OthersAreActors
       DEF Typed, Placed, Reads, FindsNone, Writes
  <2>4. work \in JobIds
    BY <2>3, WorkerIsAtJob DEF Typed
  <2>10. \A t \in Starters : Onward(t) /\ pc'[t] = pc[t] /\ doc'[t] = doc[t]
    BY <2>3, StarterIsNoOther DEF Onward
  <2>5. OneOwner'
    <3>2. \A i \in JobIds : jobs'[i] = "none" <=> jobs[i] = "none"
      BY <2>1, <2>2, <2>3, <2>4
    <3>3. row' # None => row' = row \/ jobs[row'.job] # "none"
      BY <2>1, <2>2, <2>3, <2>4, ParentIsJob DEF Steady, OneOwner
    <3>4. UNCHANGED queue /\ work' \in {work, None}
      BY <2>1, <2>2, <2>3, <2>4
    <3>. QED
      BY <2>10, <3>2, <3>3, <3>4, OwnersKept DEF Steady
  <2>6. Staged'
    <3>1. /\ UNCHANGED <<copy, queue>> /\ \A t \in Starters : pc'[t] = pc[t]
          /\ row' # None => row' = row \/ row'.job = work
          /\ \A i \in JobIds : jobs'[i] = jobs[i] \/ (i = work /\ jobs[work] \in Live)
      BY <2>1, <2>2, <2>3, <2>4, <2>10 DEF Live
    <3>2. StartersStaged' /\ \A i \in JobIds : queue'[i] = 1 => jobs'[i] \in {"queued", "failed"}
      BY <3>1, <2>4, StartersStagedKept
    <3>. QED
      BY <2>1, <2>2, <2>3, <2>4, <3>2, JobIsSome DEF Steady, Staged, StartersStaged, Running
  <2>11. Alone'
    <3>1. \A i \in JobIds : jobs'[i] \in Live => jobs[i] \in Live
      BY <2>1, <2>2, <2>3, <2>4 DEF Live
    <3>. QED
      BY <2>10, <3>1, AloneKept DEF Steady
  <2>12. Remarked'
    <3>1. \A i \in JobIds : jobs[i] = "failed" /\ ~UnderWay(i) =>
              jobs'[i] = "failed" /\ ~UnderWay(i)'
      BY <2>1, <2>2, <2>3, <2>4, <2>10, JobIsSome DEF UnderWay, Owns
    <3>2. \/ row' = row \/ row' = None \/ row'.index = "failed"
          \/ \A t \in Starters : pc[t] \notin Again
      BY <2>4, RunsAlone, <2>3 DEF Steady, Staged, Running, Live
    <3>. QED
      BY <2>10, <3>1, <3>2, RemarkedKept DEF Steady
  <2>7. Shown'
    BY <2>1, <2>2, <2>3, <2>4, JobIsSome, ParentIsJob, StarterIsNoOther, OthersAreActors
       DEF Typed, Stored, Steady, OneOwner, Owns, Staged, Shown, UnderWay, HasPages, Unsettled,
              Running,
           Live
  <2>8. HasPages'
    BY <2>1, <2>2, <2>3, <2>4, JobIsSome, ParentIsJob, StarterIsNoOther, OthersAreActors
       DEF Typed, Stored, Steady, OneOwner, Owns, Staged, Shown, UnderWay, HasPages, Unsettled,
              Running,
           Live
  <2>. QED
    BY <2>5, <2>6, <2>7, <2>8, <2>11, <2>12 DEF Steady
<1>20. ASSUME ReportCancelled, UNCHANGED bounds PROVE Steady'
  BY <1>20, WorkerUpdates DEF Careful, Typed, Stored, Reads, FindsNone, Writes
<1>21. ASSUME ReportFailed, UNCHANGED bounds PROVE Steady'
  <2>1. /\ UNCHANGED <<jobs, queue, work, pages, copy>>
        /\ \/ Reads("worker", "fail", "failSave") \/ FindsNone("worker", "fail", "ack")
           \/ Writes("worker", "failSave", "failed", work, "ack")
    BY <1>21, WorkerUpdates DEF Typed, Stored
  <2>2. row # None
    BY <2>1 DEF Careful, Untouched, Reads, FindsNone, Writes
  <2>3. /\ \A b \in Actors \ {"worker"} : pc'[b] = pc[b] /\ doc'[b] = doc[b]
        /\ \/ pc["worker"] = "fail" /\ row' = row /\ pc'["worker"] = "failSave"
           \/ /\ pc["worker"] = "failSave" /\ row' # None /\ pc'["worker"] = "ack"
              /\ row'.index = "failed" /\ row'.job = work
    BY <2>1, <2>2, RowFields, StarterIsNoOther, OthersAreActors
       DEF Typed, Placed, Reads, FindsNone, Writes
  <2>4. work \in JobIds
    BY <2>3, WorkerIsAtJob DEF Typed
  <2>10. \A t \in Starters : Onward(t) /\ pc'[t] = pc[t] /\ doc'[t] = doc[t]
    BY <2>3, StarterIsNoOther DEF Onward
  <2>5. OneOwner'
    <3>2. \A i \in JobIds : jobs'[i] = "none" <=> jobs[i] = "none"
      BY <2>1, <2>2, <2>3, <2>4
    <3>3. row' # None => row' = row \/ jobs[row'.job] # "none"
      BY <2>1, <2>2, <2>3, <2>4, ParentIsJob DEF Steady, OneOwner
    <3>4. UNCHANGED queue /\ work' \in {work, None}
      BY <2>1, <2>2, <2>3, <2>4
    <3>. QED
      BY <2>10, <3>2, <3>3, <3>4, OwnersKept DEF Steady
  <2>6. Staged'
    <3>1. /\ UNCHANGED <<copy, queue>> /\ \A t \in Starters : pc'[t] = pc[t]
          /\ row' # None => row' = row \/ row'.job = work
          /\ \A i \in JobIds : jobs'[i] = jobs[i] \/ (i = work /\ jobs[work] \in Live)
      BY <2>1, <2>2, <2>3, <2>4, <2>10 DEF Live
    <3>2. StartersStaged' /\ \A i \in JobIds : queue'[i] = 1 => jobs'[i] \in {"queued", "failed"}
      BY <3>1, <2>4, StartersStagedKept
    <3>. QED
      BY <2>1, <2>2, <2>3, <2>4, <3>2, JobIsSome DEF Steady, Staged, StartersStaged, Running
  <2>11. Alone'
    <3>1. \A i \in JobIds : jobs'[i] \in Live => jobs[i] \in Live
      BY <2>1, <2>2, <2>3, <2>4 DEF Live
    <3>. QED
      BY <2>10, <3>1, AloneKept DEF Steady
  <2>12. Remarked'
    <3>1. \A i \in JobIds : jobs[i] = "failed" /\ ~UnderWay(i) =>
              jobs'[i] = "failed" /\ ~UnderWay(i)'
      BY <2>1, <2>2, <2>3, <2>4, <2>10, JobIsSome DEF UnderWay, Owns
    <3>2. \/ row' = row \/ row' = None \/ row'.index = "failed"
          \/ \A t \in Starters : pc[t] \notin Again
      BY <2>1, <2>2, <2>3, <2>4
    <3>. QED
      BY <2>10, <3>1, <3>2, RemarkedKept DEF Steady
  <2>7. Shown'
    BY <2>1, <2>2, <2>3, <2>4, JobIsSome, ParentIsJob, StarterIsNoOther, OthersAreActors
       DEF Typed, Stored, Steady, OneOwner, Owns, Staged, Shown, UnderWay, HasPages, Unsettled,
              Running,
           Live
  <2>8. HasPages'
    BY <2>1, <2>2, <2>3, <2>4, JobIsSome, ParentIsJob, StarterIsNoOther, OthersAreActors
       DEF Typed, Stored, Steady, OneOwner, Owns, Staged, Shown, UnderWay, HasPages, Unsettled,
              Running,
           Live
  <2>. QED
    BY <2>5, <2>6, <2>7, <2>8, <2>11, <2>12 DEF Steady
<1>22. ASSUME Finish, UNCHANGED bounds PROVE Steady'
  <2>1. work \in JobIds /\ jobs[work] = "running"
    BY <1>22, WorkerIsAtJob DEF Finish, Typed, Steady, Staged, Running
  <2>2. /\ UNCHANGED <<row, queue, work, pages, copy>> /\ pc["worker"] = "finish" /\ pc'["worker"] = "ack"
        /\ \A b \in Actors \ {"worker"} : pc'[b] = pc[b] /\ doc'[b] = doc[b]
        /\ jobs'[work] = "done" /\ \A j \in JobIds \ {work} : jobs'[j] = jobs[j]
    BY <1>22, <2>1, OthersAreActors DEF Finish, Proceed, SetJob, Goto, Typed, Placed, Stored
  <2>10. \A t \in Starters : Onward(t) /\ pc'[t] = pc[t] /\ doc'[t] = doc[t]
    BY <2>2, <2>1, StarterIsNoOther DEF Onward
  <2>5. OneOwner'
    <3>2. \A i \in JobIds : jobs'[i] = "none" <=> jobs[i] = "none"
      BY <2>1, <2>2
    <3>3. row' # None => row' = row \/ jobs[row'.job] # "none"
      BY <2>1, <2>2, ParentIsJob DEF Steady, OneOwner
    <3>4. UNCHANGED queue /\ work' \in {work, None}
      BY <2>1, <2>2
    <3>. QED
      BY <2>10, <3>2, <3>3, <3>4, OwnersKept DEF Steady
  <2>6. Staged'
    <3>1. /\ UNCHANGED <<copy, queue>> /\ \A t \in Starters : pc'[t] = pc[t]
          /\ row' # None => row' = row \/ row'.job = work
          /\ \A i \in JobIds : jobs'[i] = jobs[i] \/ (i = work /\ jobs[work] \in Live)
      BY <2>1, <2>2, <2>10 DEF Live
    <3>2. StartersStaged' /\ \A i \in JobIds : queue'[i] = 1 => jobs'[i] \in {"queued", "failed"}
      BY <3>1, <2>1, StartersStagedKept
    <3>. QED
      BY <2>1, <2>2, <3>2, JobIsSome DEF Steady, Staged, StartersStaged, Running
  <2>11. Alone'
    <3>1. \A i \in JobIds : jobs'[i] \in Live => jobs[i] \in Live
      BY <2>1, <2>2 DEF Live
    <3>. QED
      BY <2>10, <3>1, AloneKept DEF Steady
  <2>12. Remarked'
    <3>1. \A i \in JobIds : jobs[i] = "failed" /\ ~UnderWay(i) =>
              jobs'[i] = "failed" /\ ~UnderWay(i)'
      BY <2>1, <2>2, <2>10, JobIsSome DEF UnderWay, Owns
    <3>2. \/ row' = row \/ row' = None \/ row'.index = "failed"
          \/ \A t \in Starters : pc[t] \notin Again
      BY <2>1, <2>2
    <3>. QED
      BY <2>10, <3>1, <3>2, RemarkedKept DEF Steady
  <2>7. Shown'
    <3>1. \A t \in Starters, i \in JobIds : Owns(t, i)' <=> Owns(t, i)
      BY <2>2, StarterIsNoOther, OthersAreActors DEF Owns
    <3>2. \A i \in JobIds \ {work} : UnderWay(i)' <=> UnderWay(i)
      BY <2>1, <2>2, <3>1, JobIsSome DEF UnderWay
    <3>3. (UnderWay(work) <=> pc["worker"] \notin {"finish", "ack"})
          /\ (UnderWay(work)' <=> pc'["worker"] \notin {"finish", "ack"})
      BY <2>1, <2>2, <3>1 DEF UnderWay, Steady, OneOwner
    <3>. QED
      BY <2>1, <2>2, <3>2, <3>3, RowFields, JobIsSome DEF Typed, Stored, Steady, Shown
  <2>8. HasPages'
    BY <2>1, <2>2, JobIsSome, ParentIsJob, StarterIsNoOther, OthersAreActors
       DEF Typed, Stored, Steady, OneOwner, Owns, Staged, Shown, UnderWay, HasPages, Unsettled,
              Running,
           Live
  <2>. QED
    BY <2>5, <2>6, <2>7, <2>8, <2>11, <2>12 DEF Steady
<1>23. ASSUME Acknowledge, UNCHANGED bounds PROVE Steady'
  <2>1. work \in JobIds /\ jobs[work] \in {"done", "failed"}
    BY <1>23, WorkerIsAtJob DEF Acknowledge, Typed, Steady, Staged
  <2>2. /\ UNCHANGED <<row, jobs, queue, pages, copy>> /\ pc["worker"] = "ack" /\ pc'["worker"] = "idle"
        /\ \A b \in Actors \ {"worker"} : pc'[b] = pc[b] /\ doc'[b] = doc[b]
        /\ work' = None
    BY <1>23, OthersAreActors DEF Acknowledge, Goto, Typed, Placed, stores
  <2>10. \A t \in Starters : Onward(t) /\ pc'[t] = pc[t] /\ doc'[t] = doc[t]
    BY <2>2, <2>1, StarterIsNoOther DEF Onward
  <2>5. OneOwner'
    <3>2. \A i \in JobIds : jobs'[i] = "none" <=> jobs[i] = "none"
      BY <2>1, <2>2
    <3>3. row' # None => row' = row \/ jobs[row'.job] # "none"
      BY <2>1, <2>2, ParentIsJob DEF Steady, OneOwner
    <3>4. UNCHANGED queue /\ work' \in {work, None}
      BY <2>1, <2>2
    <3>. QED
      BY <2>10, <3>2, <3>3, <3>4, OwnersKept DEF Steady
  <2>6. Staged'
    <3>1. /\ UNCHANGED <<copy, queue>> /\ \A t \in Starters : pc'[t] = pc[t]
          /\ row' # None => row' = row \/ row'.job = work
          /\ \A i \in JobIds : jobs'[i] = jobs[i] \/ (i = work /\ jobs[work] \in Live)
      BY <2>1, <2>2, <2>10 DEF Live
    <3>2. StartersStaged' /\ \A i \in JobIds : queue'[i] = 1 => jobs'[i] \in {"queued", "failed"}
      BY <3>1, <2>1, StartersStagedKept
    <3>. QED
      BY <2>1, <2>2, <3>2, JobIsSome DEF Steady, Staged, StartersStaged, Running
  <2>11. Alone'
    <3>1. \A i \in JobIds : jobs'[i] \in Live => jobs[i] \in Live
      BY <2>1, <2>2 DEF Live
    <3>. QED
      BY <2>10, <3>1, AloneKept DEF Steady
  <2>12. Remarked'
    <3>1. \A i \in JobIds : jobs[i] = "failed" /\ ~UnderWay(i) =>
              jobs'[i] = "failed" /\ ~UnderWay(i)'
      BY <2>1, <2>2, <2>10, JobIsSome DEF UnderWay, Owns
    <3>2. \/ row' = row \/ row' = None \/ row'.index = "failed"
          \/ \A t \in Starters : pc[t] \notin Again
      BY <2>1, <2>2
    <3>. QED
      BY <2>10, <3>1, <3>2, RemarkedKept DEF Steady
  <2>7. Shown'
    BY <2>1, <2>2, JobIsSome, ParentIsJob, StarterIsNoOther, OthersAreActors
       DEF Typed, Stored, Steady, OneOwner, Owns, Staged, Shown, UnderWay, HasPages, Unsettled,
              Running,
           Live
  <2>8. HasPages'
    BY <2>1, <2>2, JobIsSome, ParentIsJob, StarterIsNoOther, OthersAreActors
       DEF Typed, Stored, Steady, OneOwner, Owns, Staged, Shown, UnderWay, HasPages, Unsettled,
              Running,
           Live
  <2>. QED
    BY <2>5, <2>6, <2>7, <2>8, <2>11, <2>12 DEF Steady
<1>24. ASSUME NEW t \in Owners, DeletePages(t), UNCHANGED bounds PROVE Steady'
  BY <1>24 DEF DeletePages, Careful
<1>25. ASSUME Claim, UNCHANGED bounds PROVE Steady'
  <2>1. UNCHANGED <<jobs, queue, work, pages, pc, doc, copy>>
    BY <1>25 DEF Claim
  <2>2. (row' = None <=> row = None) /\ (row # None => row'.index = row.index /\ row'.job = row.job)
    BY <1>25, RowClaimed, RowFields DEF Claim, Typed, Stored
  <2>5. OneOwner'
    BY <2>1, <2>2, JobIsSome, ParentIsJob, StarterIsNoOther, OthersAreActors
       DEF Typed, Stored, Steady, OneOwner, Owns, Staged, Shown, UnderWay, HasPages, Unsettled,
              Running,
           Live
  <2>6. Staged'
    BY <2>1, <2>2, JobIsSome, ParentIsJob, StarterIsNoOther, OthersAreActors
       DEF Typed, Stored, Steady, OneOwner, Owns, Staged, Shown, UnderWay, HasPages, Unsettled,
              Running,
           Live
  <2>11. Alone'
    BY <2>1 DEF Steady, Alone
  <2>12. Remarked'
    BY <2>1, <2>2 DEF Steady, Remarked, UnderWay, Owns
  <2>7. Shown'
    BY <2>1, <2>2, JobIsSome, ParentIsJob, StarterIsNoOther, OthersAreActors
       DEF Typed, Stored, Steady, OneOwner, Owns, Staged, Shown, UnderWay, HasPages, Unsettled,
              Running,
           Live
  <2>8. HasPages'
    BY <2>1, <2>2, JobIsSome, ParentIsJob, StarterIsNoOther, OthersAreActors
       DEF Typed, Stored, Steady, OneOwner, Owns, Staged, Shown, UnderWay, HasPages, Unsettled,
              Running,
           Live
  <2>. QED
    BY <2>5, <2>6, <2>7, <2>8, <2>11, <2>12 DEF Steady
<1>26. ASSUME ReadDocument, UNCHANGED bounds PROVE Steady'
  BY <1>26, OthersAreActors DEF ReadDocument, Goto, Undisturbed, Deleted, Typed, Placed
<1>27. ASSUME Export, UNCHANGED bounds PROVE Steady'
  BY <1>27, OthersAreActors DEF Export, Goto, Undisturbed, Deleted, Typed, Placed
<1>28. ASSUME CancelJobs, UNCHANGED bounds PROVE Steady'
  BY <1>28, OthersAreActors DEF CancelJobs, Goto, Undisturbed, Deleted, Typed, Placed
<1>29. ASSUME Schedule, UNCHANGED bounds PROVE Steady'
  BY <1>29, OthersAreActors DEF Schedule, Goto, LightragTenant, Undisturbed, Deleted, Typed, Placed
<1>30. ASSUME DeleteBlob, UNCHANGED bounds PROVE Steady'
  BY <1>30, OthersAreActors DEF DeleteBlob, Goto, Undisturbed, Deleted, Typed, Placed
<1>31. ASSUME DeleteJobs, UNCHANGED bounds PROVE Steady'
  BY <1>31, OthersAreActors DEF DeleteJobs, Goto, Undisturbed, Deleted, Typed, Placed
<1>32. ASSUME DeleteRow, UNCHANGED bounds PROVE Steady'
  BY <1>32, OthersAreActors DEF DeleteRow, Goto, Undisturbed, Deleted, Typed, Placed
<1>33. ASSUME DeleteTenantData, UNCHANGED bounds PROVE Steady'
  BY <1>33, OthersAreActors DEF DeleteTenantData, Goto, Undisturbed, Deleted, Typed, Placed
<1>34. CASE UNCHANGED vars
  BY <1>34
     DEF vars, stores, actors, Steady, OneOwner, Owns, Alone, Staged, Shown, UnderWay, Remarked,
            HasPages
<1>35. ASSUME NEW s \in Deliveries, MarkAgain(s), UNCHANGED bounds PROVE Steady'
  <2>1. /\ s \in Starters /\ UNCHANGED <<jobs, queue, work, pages, copy>>
        /\ \/ Reads(s, "redo", "redoSave") \/ FindsNone(s, "redo", "end")
           \/ Writes(s, "redoSave", "failed", doc[s].job, "end")
    BY <1>35, StarterUpdates DEF Typed, Stored, Starters
  <2>2. row # None /\ pc[s] \in Again
    BY <2>1 DEF Careful, Untouched, Reads, FindsNone, Writes, Again
  <2>3. /\ s \in Starters /\ \A b \in Actors \ {s} : pc'[b] = pc[b] /\ doc'[b] = doc[b]
        /\ \/ pc[s] = "redo" /\ row' = row /\ pc'[s] = "redoSave" /\ doc'[s] = row
           \/ /\ pc[s] = "redoSave" /\ row' # None /\ pc'[s] = "end"
              /\ row'.index = "failed" /\ row'.job = doc[s].job /\ row'.job \in JobIds \cup {None}
    BY <2>1, <2>2, RowFields, StarterIsNoOther, OthersAreActors
       DEF Typed, Placed, Reads, FindsNone, Writes
  <2>4. \A t \in Starters : Onward(t) /\ (t # s => pc[t] \notin Unsettled \cup Again /\ pc'[t] = pc[t])
    BY <2>2, <2>3, StarterIsNoOther DEF Onward, Unsettled, Pushing, Again, Steady, Alone
  <2>5. \A t \in Starters, i \in JobIds : Owns(t, i)' <=> Owns(t, i)
    BY <2>3, <2>4 DEF Owns, Unsettled
  <2>6. pc'["worker"] = pc["worker"] /\ \A i \in JobIds : UnderWay(i)' <=> UnderWay(i)
    BY <2>1, <2>3, <2>5, StarterIsNoOther, OthersAreActors DEF UnderWay
  <2>7. row' = row \/ row'.job = None \/ (jobs[row'.job] = "failed" /\ ~UnderWay(row'.job))
    BY <2>3 DEF Steady, Remarked
  <2>8. OneOwner'
    <3>1. /\ \A i \in JobIds : jobs'[i] = "none" <=> jobs[i] = "none"
          /\ UNCHANGED queue /\ work' \in {work, None}
          /\ row' # None => row' = row \/ row'.job = None \/ jobs[row'.job] # "none"
      BY <2>1, <2>7
    <3>. QED
      BY <2>4, <3>1, OwnersKept DEF Steady
  <2>9. Staged'
    <3>1. \A t \in Starters :
            /\ pc'[t] \in {"mark", "markSave", "enqueue", "refused"} => jobs'[ParentOf(t)] = "queued"
            /\ pc'[t] \in {"mark", "markSave"} /\ row' # None => row'.job # ParentOf(t)
            /\ pc'[t] \in {"engine", "engineSave", "undo", "undoSave", "redo", "redoSave"} =>
                   jobs'[ParentOf(t)] = "failed"
            /\ pc'[t] = "engineSave" => copy'[t] = "failed"
      BY <2>1, <2>3, <2>4 DEF Unsettled, Again, Steady, Staged
    <3>. QED
      BY <2>1, <2>6, <3>1 DEF Steady, Staged
  <2>10. Shown'
    <3>1. CASE row' = row
      BY <2>1, <2>6, <3>1, RowFields DEF Typed, Stored, Steady, Shown
    <3>2. CASE row' # row
      <4>1. SUFFICES ASSUME NEW i \in JobIds, row'.job = i
            PROVE /\ ~UnderWay(i)' /\ ~(work' = i /\ pc'["worker"] = "finish")
                  /\ row'.index = jobs'[i]
        BY <2>3, <3>2 DEF Shown, UnderWay, Owns
      <4>2. jobs'[i] = "failed" /\ ~UnderWay(i) /\ row'.index = "failed"
        BY <2>1, <2>3, <2>7, <3>2, <4>1, JobIsSome
      <4>3. ~(work = i /\ pc["worker"] = "finish")
        BY <2>1, <4>2 DEF Steady, Staged, Running
      <4>. QED
        BY <2>1, <2>6, <4>2, <4>3
    <3>. QED
      BY <3>1, <3>2
  <2>11. Alone'
    BY <2>1, <2>4, AloneKept DEF Steady
  <2>12. Remarked'
    <3>1. ASSUME pc[s] = "redo" PROVE Remarked'
      <4>1. doc'[s] = row /\ row' = row /\ pc'[s] = "redoSave" /\ row.index = "failed"
        BY <2>2, <2>3, <3>1 DEF Steady, Remarked
      <4>2. row.job # None => jobs[row.job] = "failed" /\ ~UnderWay(row.job)
        BY <2>2, <4>1 DEF Steady, Shown
      <4>3. row.job \in JobIds \cup {None}
        BY <2>2, RowFields DEF Typed, Stored
      <4>4. \A i \in JobIds : row.job = i => jobs'[i] = "failed" /\ ~UnderWay(i)'
        BY <2>1, <2>6, <4>2, JobIsSome
      <4>5. \A t \in Starters : t # s => pc'[t] \notin Again
        BY <2>4
      <4>. QED
        BY <4>1, <4>3, <4>4, <4>5 DEF Remarked, Again, UnderWay, Owns
    <3>2. ASSUME pc[s] # "redo" PROVE Remarked'
      BY <2>3, <2>4, <3>2 DEF Remarked, Again
    <3>. QED
      BY <3>1, <3>2
  <2>13. HasPages'
    BY <2>1, <2>3, <2>6 DEF Steady, HasPages
  <2>. QED
    BY <2>8, <2>9, <2>10, <2>11, <2>12, <2>13 DEF Steady
<1>. QED
  BY <1>1, <1>2, <1>3, <1>4, <1>5, <1>6, <1>7, <1>8, <1>9, <1>10, <1>11, <1>12, <1>13, <1>14, <1>15,
     <1>16, <1>17, <1>18, <1>19, <1>20, <1>21, <1>22, <1>23, <1>24, <1>25, <1>26, <1>27, <1>28,
     <1>29, <1>30, <1>31, <1>32, <1>33, <1>34, <1>35
     DEF Next, Callback, Start, Handle, Worker, Delete, Serve

(* What disturbs the document stays true. *)
LEMMA DisturbanceStays == ASSUME Typed, [Next]_vars, Undisturbed' PROVE Undisturbed
<1>1. ASSUME NEW d \in Deliveries, Head(d), UNCHANGED bounds PROVE Undisturbed
  BY <1>1, StarterIsNoOther, OthersAreActors
     DEF Head, Goto, Undisturbed, Deleted, Typed, Placed, actors, ghosts, undoings, Starters
<1>2. ASSUME NEW d \in Deliveries, Find(d), UNCHANGED bounds PROVE Undisturbed
  BY <1>2, StarterIsNoOther, OthersAreActors
     DEF Find, Goto, Undisturbed, Deleted, Typed, Placed, actors, ghosts, undoings, Starters
<1>3. ASSUME NEW d \in Deliveries, Register(d), UNCHANGED bounds PROVE Undisturbed
  BY <1>3, StarterIsNoOther, OthersAreActors
     DEF Register, Goto, Undisturbed, Deleted, Typed, Placed, actors, ghosts, undoings, Starters
<1>4. ASSUME NEW d \in Deliveries, LoadKeyed(d), UNCHANGED bounds PROVE Undisturbed
  BY <1>4, StarterIsNoOther, OthersAreActors
     DEF LoadKeyed, Goto, Undisturbed, Deleted, Typed, Placed, actors, ghosts, undoings, Starters
<1>5. ASSUME NEW c \in Clicks, Click(c), UNCHANGED bounds PROVE Undisturbed
  BY <1>5, StarterIsNoOther, OthersAreActors
     DEF Click, Goto, Undisturbed, Deleted, Typed, Placed, actors, ghosts, undoings, Starters
<1>6. ASSUME NEW s \in Starters, GetDocument(s), UNCHANGED bounds PROVE Undisturbed
  BY <1>6, StarterIsNoOther, OthersAreActors
     DEF GetDocument, Goto, Undisturbed, Deleted, Typed, Placed, actors, ghosts, undoings, Starters
<1>7. ASSUME NEW s \in Starters, ListJobs(s), UNCHANGED bounds PROVE Undisturbed
  BY <1>7, StarterIsNoOther, OthersAreActors
     DEF ListJobs, Goto, Undisturbed, Deleted, Typed, Placed, actors, ghosts, undoings, Starters
<1>8. ASSUME NEW s \in Starters, SaveJob(s), UNCHANGED bounds PROVE Undisturbed
  BY <1>8, StarterIsNoOther, OthersAreActors
     DEF SaveJob, Goto, SetJob, NewStatus, ParentOf, Undisturbed, Deleted, Typed, Placed, actors,
         ghosts, undoings, Starters
<1>9. ASSUME NEW s \in Starters, MarkIndexing(s), UNCHANGED bounds PROVE Undisturbed
  <2>1. UNCHANGED <<raced, reset, crashed, overtaken>> /\ pc'["api"] = pc["api"]
    BY <1>9, StarterUpdates, UpdateMoves, StarterIsNoOther, OthersAreActors DEF Typed, Stored
  <2>. QED
    BY <2>1 DEF Undisturbed, Deleted
<1>10. ASSUME NEW s \in Starters, Enqueue(s), UNCHANGED bounds PROVE Undisturbed
  BY <1>10, StarterIsNoOther, OthersAreActors
     DEF Enqueue, Goto, Undisturbed, Deleted, Typed, Placed, actors, ghosts, undoings, Starters
<1>11. ASSUME NEW s \in Starters, Handle(s), UNCHANGED bounds PROVE Undisturbed
  <2>1. UNCHANGED <<raced, reset, crashed, overtaken>> /\ pc'["api"] = pc["api"]
    BY <1>11, HandlerSteps, StarterIsNoOther, OthersAreActors DEF Typed
  <2>. QED
    BY <2>1 DEF Undisturbed, Deleted
<1>12. ASSUME NEW s \in Starters, MarkFailed(s), UNCHANGED bounds PROVE Undisturbed
  <2>1. UNCHANGED <<raced, reset, crashed, overtaken>> /\ pc'["api"] = pc["api"]
    BY <1>12, StarterUpdates, UpdateMoves, StarterIsNoOther, OthersAreActors DEF Typed, Stored
  <2>. QED
    BY <2>1 DEF Undisturbed, Deleted
<1>13. ASSUME NEW s \in Starters, Stop(s), UNCHANGED bounds PROVE Undisturbed
  BY <1>13, StarterIsNoOther, OthersAreActors
     DEF Stop, Goto, Undisturbed, Deleted, Typed, Placed, actors, ghosts, undoings, Starters
<1>14. ASSUME NEW j \in JobIds, Take(j), UNCHANGED bounds PROVE Undisturbed
  BY <1>14, StarterIsNoOther, OthersAreActors
     DEF Take, Goto, Undisturbed, Deleted, Typed, Placed, actors, ghosts, undoings, Starters
<1>15. ASSUME LoadDocument, UNCHANGED bounds PROVE Undisturbed
  BY <1>15, StarterIsNoOther, OthersAreActors
     DEF LoadDocument, Proceed, SetJob, Goto, LightragTenant, Undisturbed, Deleted, Typed, Placed,
         actors, ghosts, undoings, Starters
<1>16. ASSUME ReportIndexing, UNCHANGED bounds PROVE Undisturbed
  <2>1. UNCHANGED <<raced, reset, crashed, overtaken>> /\ pc'["api"] = pc["api"]
    BY <1>16, WorkerUpdates, UpdateMoves, StarterIsNoOther, OthersAreActors DEF Typed, Stored
  <2>. QED
    BY <2>1 DEF Undisturbed, Deleted
<1>17. ASSUME Insert, UNCHANGED bounds PROVE Undisturbed
  BY <1>17, StarterIsNoOther, OthersAreActors
     DEF Insert, Goto, Undisturbed, Deleted, Typed, Placed, actors, ghosts, undoings, Starters
<1>18. ASSUME Check, UNCHANGED bounds PROVE Undisturbed
  BY <1>18, StarterIsNoOther, OthersAreActors
     DEF Check, Goto, Undisturbed, Deleted, Typed, Placed, actors, ghosts, undoings, Starters
<1>19. ASSUME ReportDone, UNCHANGED bounds PROVE Undisturbed
  <2>1. UNCHANGED <<raced, reset, crashed, overtaken>> /\ pc'["api"] = pc["api"]
    BY <1>19, WorkerUpdates, UpdateMoves, StarterIsNoOther, OthersAreActors DEF Typed, Stored
  <2>. QED
    BY <2>1 DEF Undisturbed, Deleted
<1>20. ASSUME ReportCancelled, UNCHANGED bounds PROVE Undisturbed
  <2>1. UNCHANGED <<raced, reset, crashed, overtaken>> /\ pc'["api"] = pc["api"]
    BY <1>20, WorkerUpdates, UpdateMoves, StarterIsNoOther, OthersAreActors DEF Typed, Stored
  <2>. QED
    BY <2>1 DEF Undisturbed, Deleted
<1>21. ASSUME ReportFailed, UNCHANGED bounds PROVE Undisturbed
  <2>1. UNCHANGED <<raced, reset, crashed, overtaken>> /\ pc'["api"] = pc["api"]
    BY <1>21, WorkerUpdates, UpdateMoves, StarterIsNoOther, OthersAreActors DEF Typed, Stored
  <2>. QED
    BY <2>1 DEF Undisturbed, Deleted
<1>22. ASSUME Finish, UNCHANGED bounds PROVE Undisturbed
  BY <1>22, StarterIsNoOther, OthersAreActors
     DEF Finish, Proceed, SetJob, Goto, Undisturbed, Deleted, Typed, Placed, actors, ghosts,
            undoings,
         Starters
<1>23. ASSUME Acknowledge, UNCHANGED bounds PROVE Undisturbed
  BY <1>23, StarterIsNoOther, OthersAreActors
     DEF Acknowledge, Goto, Undisturbed, Deleted, Typed, Placed, actors, ghosts, undoings, Starters
<1>24. ASSUME NEW t \in Owners, DeletePages(t), UNCHANGED bounds PROVE Undisturbed
  BY <1>24, StarterIsNoOther, OthersAreActors
     DEF DeletePages, Undisturbed, Deleted, Typed, Placed, actors, ghosts, undoings, Starters
<1>25. ASSUME Claim, UNCHANGED bounds PROVE Undisturbed
  BY <1>25, OthersAreActors DEF Claim, Undisturbed, Deleted, Typed, Placed, ghosts, undoings
<1>26. ASSUME ReadDocument, UNCHANGED bounds PROVE Undisturbed
  BY <1>26, OthersAreActors
     DEF ReadDocument, Goto, Undisturbed, Deleted, Typed, Placed, ghosts, undoings
<1>27. ASSUME Export, UNCHANGED bounds PROVE Undisturbed
  BY <1>27, OthersAreActors DEF Export, Goto, Undisturbed, Deleted, Typed, Placed, ghosts, undoings
<1>28. ASSUME CancelJobs, UNCHANGED bounds PROVE Undisturbed
  BY <1>28, OthersAreActors
     DEF CancelJobs, Goto, Undisturbed, Deleted, Typed, Placed, ghosts, undoings
<1>29. ASSUME Schedule, UNCHANGED bounds PROVE Undisturbed
  BY <1>29, OthersAreActors
     DEF Schedule, Goto, LightragTenant, Undisturbed, Deleted, Typed, Placed, ghosts, undoings
<1>30. ASSUME DeleteBlob, UNCHANGED bounds PROVE Undisturbed
  BY <1>30, OthersAreActors
     DEF DeleteBlob, Goto, Undisturbed, Deleted, Typed, Placed, ghosts, undoings
<1>31. ASSUME DeleteJobs, UNCHANGED bounds PROVE Undisturbed
  BY <1>31, OthersAreActors
     DEF DeleteJobs, Goto, Undisturbed, Deleted, Typed, Placed, ghosts, undoings
<1>32. ASSUME DeleteRow, UNCHANGED bounds PROVE Undisturbed
  BY <1>32, OthersAreActors
     DEF DeleteRow, Goto, Undisturbed, Deleted, Typed, Placed, ghosts, undoings
<1>33. ASSUME DeleteTenantData, UNCHANGED bounds PROVE Undisturbed
  BY <1>33, OthersAreActors
     DEF DeleteTenantData, Goto, Undisturbed, Deleted, Typed, Placed, ghosts, undoings
<1>34. CASE UNCHANGED vars
  BY <1>34 DEF vars, actors, ghosts, undoings, Undisturbed, Deleted
<1>35. ASSUME NEW s \in Deliveries, MarkAgain(s), UNCHANGED bounds PROVE Undisturbed
  <2>1. UNCHANGED <<raced, reset, crashed, overtaken>> /\ pc'["api"] = pc["api"]
    BY <1>35, StarterUpdates, UpdateMoves, StarterIsNoOther, OthersAreActors
       DEF Typed, Stored, Starters
  <2>. QED
    BY <2>1 DEF Undisturbed, Deleted
<1>. QED
  BY <1>1, <1>2, <1>3, <1>4, <1>5, <1>6, <1>7, <1>8, <1>9, <1>10, <1>11, <1>12, <1>13, <1>14, <1>15,
     <1>16, <1>17, <1>18, <1>19, <1>20, <1>21, <1>22, <1>23, <1>24, <1>25, <1>26, <1>27, <1>28,
     <1>29, <1>30, <1>31, <1>32, <1>33, <1>34, <1>35
     DEF Next, Callback, Start, Handle, Worker, Delete, Serve

LEMMA ConsistentStep ==
    ASSUME Typed, Cautious, Consistent, [Next]_vars PROVE Consistent'
<1>1. SUFFICES ASSUME Undisturbed' PROVE Steady'
  BY DEF Consistent
<1>2. Undisturbed
  BY <1>1, DisturbanceStays
<1>3. Steady /\ Careful
  BY <1>2 DEF Consistent, Cautious, Undisturbed
<1>. QED
  BY <1>1, <1>2, <1>3, SteadyStep

LEMMA ConsistentInit == ASSUME Init PROVE Consistent
<1>1. OneOwner
  BY StarterIsNoOther, JobIsSome DEF Init, OneOwner, Owns, Unsettled, Pushing, JobIds
<1>4. Alone /\ Remarked
  BY StarterIsNoOther DEF Init, Alone, Remarked, Unsettled, Again
<1>2. Staged
  BY StarterIsNoOther, OthersAreActors DEF Init, Staged, Running
<1>3. Shown /\ HasPages
  BY OthersAreActors DEF Init, Shown, HasPages
<1>. QED
  BY <1>1, <1>2, <1>3, <1>4 DEF Consistent, Steady

LEMMA ConsistentTells == ASSUME Typed, Consistent PROVE RowTellsTheJob
<1>1. SUFFICES ASSUME Quiet, row # None, ~Deleted, ~raced, ~reset, ~overtaken, crashed = {}
      PROVE /\ row.job # None => row.index = jobs[row.job]
            /\ row.index = "done" => pages # {}
  BY DEF RowTellsTheJob
<1>2. Steady
  BY <1>1 DEF Consistent, Undisturbed
<1>3. row.index = "done" => pages # {}
  BY <1>1, <1>2 DEF Steady, HasPages
<1>4. ASSUME row.job # None PROVE row.index = jobs[row.job]
  <2>1. row.job \in JobIds
    BY <1>1, <1>4, RowFields DEF Typed, Stored
  <2>2. \A s \in Starters : ~Owns(s, row.job)
    BY <1>1 DEF Quiet, Owns, Unsettled
  <2>3. queue[row.job] = 0 /\ work # row.job
    BY <1>1, <2>1, JobIsSome DEF Quiet, Typed, WorkerHolds
  <2>. QED
    BY <1>1, <1>2, <1>4, <2>2, <2>3 DEF Steady, Shown, UnderWay
<1>. QED
  BY <1>3, <1>4

(* When everything is at rest, a document says what its last job says, and one
   that is done has its pages (update_engine_index_status, and the three places
   that report how a run ended), except as RowTellsTheJob says. *)
THEOREM DocumentSaysWhatItsJobSays == Spec => []RowTellsTheJob
<1>1. Init => Sound /\ Owned /\ Cautious /\ Consistent
  BY SoundInit, DeletionInit, ConsistentInit DEF Deletion
<1>2. Sound /\ Cautious /\ Consistent /\ [Next]_vars => (Sound /\ Cautious /\ Consistent)'
  BY SoundStep, CautiousStep, ConsistentStep DEF Sound
<1>3. Sound /\ Consistent => RowTellsTheJob
  BY ConsistentTells DEF Sound
<1>. QED
  BY <1>1, <1>2, <1>3, PTL DEF Spec
=============================================================================
