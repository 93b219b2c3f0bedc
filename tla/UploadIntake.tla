----------------------------- MODULE UploadIntake -----------------------------
(***************************************************************************)
(* From an upload to an index that answers: the completion callback of the *)
(* blob store and its redeliveries (api/blob-upload.ts,                    *)
(* document_service.register_direct_upload), start_indexing with and       *)
(* without an idempotency key, the durable queue and its one worker, the   *)
(* sign-in that moves the document to an account, its deletion, and the    *)
(* erasure of the account (backend/routers/account.py).                    *)
(*                                                                         *)
(* One document.  Every request is served by a process of its own, so the  *)
(* lock of update_engine_index_status excludes nobody here: a document row *)
(* is loaded by one step and saved whole by a later one.  Both engines are *)
(* started together and are one index.  The stages of the pipeline, its    *)
(* crashes and the leases of its receipts are in IndexPipeline and         *)
(* IndexWorker; here it inserts pages into a workspace and reports.        *)
(***************************************************************************)
EXTENDS Naturals, FiniteSets

CONSTANTS Deliveries, \* completion callbacks of the upload, redelivered ones included
          Clicks,     \* starts by hand; each has a random job id of its own
          Keyed,      \* the job id derived from the key "automatic-upload:<doc_id>"
          None,       \* no row
          Casts,      \* bound: which callbacks and starts come, who has uploaded, what happens
          MaxFaults   \* bound on requests that stop, pushes that raise, parses that fail

ASSUME IntakeAssumption ==
    /\ Keyed \notin Clicks /\ Deliveries \cap Clicks = {}
    /\ {"worker", "api"} \cap (Deliveries \cup Clicks) = {}
    /\ IsFiniteSet(Deliveries \cup Clicks) /\ None \notin {Keyed, "visitor", "account"} \cup Clicks
    /\ Casts \subseteq (SUBSET (Deliveries \cup Clicks)) \X {"visitor", "account"}
                      \X SUBSET {"stop", "refuse", "lose", "parse", "delete"}
    /\ Casts # {}
    /\ MaxFaults \in Nat

Starters == Deliveries \cup Clicks
Actors == Starters \cup {"worker", "api"}
JobIds == {Keyed} \cup Clicks
Owners == {"visitor", "account"} \* whoever signs in becomes the account

VARIABLES cast,      \* who comes
          uploader,  \* the owner the upload token names
          events,   \* which faults there may be, and whether a deletion
          erasing,   \* it is the whole account whose data is deleted
          blob,      \* the uploaded object is in the blob store
          row,       \* the row of the document, or None
          jobs,      \* the status of each parent job
          queue,     \* how many receipts of each job the durable queue holds
          pages,     \* the workspaces, named by their tenant, that hold pages of the document
          deletions, \* the workspaces with a scheduled deletion
          pc,        \* the next step of each request and of the worker
          doc,       \* the document row each of them has read last
          copy,      \* the status a handler read with the parent it will save
          work,      \* the job the worker runs
          tenant,    \* the workspace it works for, from the row it read at the start
          claimed,   \* the visitor has signed in and claimed the document
          faults,
          raced,     \* two starts were between their looks and their saves at a time
          crossed,   \* a start or a callback was under way when a deletion began, or came after
          reset,     \* a callback saved a fresh row over the one that was there
          crashed,   \* the jobs whose start stopped between saving them and its end
          overtaken, \* a job was taken, or one saved, while a push was being undone
          stale      \* the jobs an undoing put back to an older status

bounds == <<cast, uploader, events>>
stores == <<blob, row, jobs, queue, pages, deletions>>
actors == <<pc, doc, copy, work, tenant, claimed, faults>>
undoings == <<overtaken, stale>>
ghosts == <<raced, crossed, reset, crashed, overtaken, stale>>
vars == <<bounds, erasing, stores, actors, ghosts>>

Terminal == {"done", "failed", "cancelled"}
Live == {"queued", "running"}
Rows == [owner : Owners, index : {"pending", "indexing"} \cup Terminal, job : JobIds \cup {None}]
ASSUME NoRow == None \notin Rows
Fresh == [owner |-> uploader, index |-> "pending", job |-> None]

Init ==
    /\ \E c \in Casts : cast = c[1] /\ uploader = c[2] /\ events = c[3]
    /\ erasing = FALSE
    /\ blob = TRUE
    /\ row = None
    /\ jobs = [j \in JobIds |-> "none"]
    /\ queue = [j \in JobIds |-> 0]
    /\ pages = {} /\ deletions = {}
    /\ pc = [a \in Actors |-> "idle"]
    /\ doc = [a \in Actors |-> None]
    /\ copy = [s \in Starters |-> None]
    /\ work = None /\ tenant = None
    /\ claimed = FALSE
    /\ faults = 0
    /\ raced = FALSE /\ crossed = FALSE /\ reset = FALSE /\ crashed = {}
    /\ overtaken = FALSE /\ stale = {}

-----------------------------------------------------------------------------
(* What the steps are built from. *)

Goto(a, s) == pc' = [pc EXCEPT ![a] = s]
ParentOf(s) == IF s \in Deliveries THEN Keyed ELSE s
SetJob(j, s) == jobs' = [jobs EXCEPT ![j] = s]
Deleted == pc["api"] # "idle"

(* The handlers of a push that raised; where a start's parent is not settled. *)
Undoing == {"refused", "engine", "engineSave", "undo", "undoSave", "redo", "redoSave"}
Unsettled == {"mark", "markSave", "enqueue", "refused", "engine", "engineSave", "undo", "undoSave"}
StartsUnderway == \E s \in Starters : pc[s] \notin {"idle", "end"}

(* lightrag_tenant_for_document: what is kept is the scope "owner"; the tenant
   is read off the row. *)
LightragTenant(r) == r.owner

(* The search of start_indexing for a parent it can return. *)
VisibleParent == \E j \in JobIds : jobs[j] \in Live

(* delete_or_schedule: the statuses under which there may be pages (first: a
   variant that trusts the status "done"). *)
SurelyIndexed(r) == r.index = "done"
MayBeIndexed(r) == r.index \in {"done", "indexing", "failed"}

(* update_engine_index_status: load the row, save it whole with the new
   status; nothing happens without a row. *)
Update(a, from, mid, status, job, to) ==
    \/ /\ pc[a] = from
       /\ doc' = [doc EXCEPT ![a] = row]
       /\ Goto(a, IF row = None THEN to ELSE mid)
       /\ UNCHANGED <<stores, copy, work, tenant, claimed, faults, ghosts>>
    \/ /\ pc[a] = mid
       /\ row' = [doc[a] EXCEPT !.index = status, !.job = job]
       /\ doc' = [doc EXCEPT ![a] = None]
       /\ Goto(a, to)
       /\ UNCHANGED <<blob, jobs, queue, pages, deletions, copy, work, tenant, claimed, faults,
                      ghosts>>

-----------------------------------------------------------------------------
(* The completion callback. *)

(* blob-upload.ts looks the object up before it calls the gateway. *)
Head(d) ==
    /\ d \in cast /\ pc[d] = "idle"
    /\ Goto(d, IF blob THEN "find" ELSE "end")
    /\ crossed' = (crossed \/ (blob /\ Deleted))
    /\ UNCHANGED <<stores, doc, copy, work, tenant, claimed, faults, raced, reset, crashed,
                   undoings>>

(* find_document_by_blob(owner, pathname); the owner is in the upload token. *)
Find(d) ==
    /\ pc[d] = "find"
    /\ Goto(d, IF row # None /\ row.owner = uploader THEN "getDoc" ELSE "register")
    /\ UNCHANGED <<stores, doc, copy, work, tenant, claimed, faults, ghosts>>

(* _save_document_record under the deterministic id. *)
Register(d) ==
    /\ pc[d] = "register"
    /\ row' = Fresh
    /\ Goto(d, "getDoc")
    /\ reset' = (reset \/ row # None)
    /\ UNCHANGED <<blob, jobs, queue, pages, deletions, doc, copy, work, tenant, claimed, faults,
                   raced, crossed, crashed, undoings>>

Click(c) ==
    /\ c \in cast /\ pc[c] = "idle" /\ row # None
    /\ Goto(c, "getDoc")
    /\ crossed' = (crossed \/ Deleted)
    /\ UNCHANGED <<stores, doc, copy, work, tenant, claimed, faults, raced, reset, crashed,
                   undoings>>

-----------------------------------------------------------------------------
(* start_indexing. *)

GetDocument(s) ==
    /\ pc[s] = "getDoc"
    /\ Goto(s, IF row = None THEN "end" ELSE IF s \in Deliveries THEN "loadKeyed" ELSE "list")
    /\ UNCHANGED <<stores, doc, copy, work, tenant, claimed, faults, ghosts>>

LoadKeyed(d) ==
    /\ pc[d] = "loadKeyed"
    /\ Goto(d, IF jobs[Keyed] # "none" THEN "end" ELSE "list")
    /\ UNCHANGED <<stores, doc, copy, work, tenant, claimed, faults, ghosts>>

ListJobs(s) ==
    /\ pc[s] = "list"
    /\ Goto(s, IF VisibleParent THEN "end" ELSE "save")
    /\ UNCHANGED <<stores, doc, copy, work, tenant, claimed, faults, ghosts>>

(* The status of a new parent. *)
NewStatus == "queued"

SaveJob(s) ==
    /\ pc[s] = "save"
    /\ SetJob(ParentOf(s), NewStatus)
    /\ Goto(s, "mark")
    /\ raced' = (raced \/ \E t \in Starters \ {s} : pc[t] \in {"list", "save"})
    /\ overtaken' = (overtaken \/ \E t \in Starters : pc[t] \in Undoing)
    /\ UNCHANGED <<blob, row, queue, pages, deletions, doc, copy, work, tenant, claimed, faults,
                   crossed, reset, crashed, stale>>

MarkIndexing(s) ==
    Update(s, "mark", "markSave", "indexing", ParentOf(s), "enqueue")

Enqueue(s) ==
    /\ pc[s] = "enqueue"
    /\ queue' = [queue EXCEPT ![ParentOf(s)] = @ + 1]
    /\ Goto(s, "end")
    /\ UNCHANGED <<blob, row, jobs, pages, deletions, doc, copy, work, tenant, claimed, faults,
                   ghosts>>

(* The push is a REST call: when it raises, it was refused or only its answer
   is lost, and a worker may be ahead of the handler. *)
PushRaises(s) ==
    /\ pc[s] = "enqueue" /\ faults < MaxFaults
    /\ faults' = faults + 1
    /\ \/ "lose" \in events /\ queue' = [queue EXCEPT ![ParentOf(s)] = @ + 1]
       \/ "refuse" \in events /\ UNCHANGED queue
    /\ Goto(s, "refused")
    /\ UNCHANGED <<blob, row, jobs, pages, deletions, doc, copy, work, tenant, claimed, ghosts>>

(* Its handler makes the parent terminal; without its row this raises (first: a
   variant that leaves the parent as it is). *)
Handled(s) == IF s \in Deliveries THEN "redo" ELSE "end"
KeepParent(s) == UNCHANGED jobs
FailParent(s) == IF jobs[ParentOf(s)] = "none" THEN UNCHANGED jobs
                 ELSE SetJob(ParentOf(s), "failed")
Refuse(s) ==
    /\ pc[s] = "refused"
    /\ FailParent(s)
    /\ Goto(s, IF jobs[ParentOf(s)] = "none" THEN Handled(s) ELSE "engine")
    /\ UNCHANGED <<blob, row, queue, pages, deletions, doc, copy, work, tenant, claimed, faults,
                   ghosts>>

(* _update_engine_meta: the parent is loaded and saved whole with the status it
   had then.  A row that is gone comes back without a status, and counts as none. *)
LoadParent(s) ==
    /\ pc[s] = "engine"
    /\ copy' = [copy EXCEPT ![s] = jobs[ParentOf(s)]]
    /\ Goto(s, "engineSave")
    /\ UNCHANGED <<stores, doc, work, tenant, claimed, faults, ghosts>>
SaveParent(s) ==
    /\ pc[s] = "engineSave"
    /\ SetJob(ParentOf(s), copy[s])
    /\ stale' = IF copy[s] = jobs[ParentOf(s)] THEN stale ELSE stale \cup {ParentOf(s)}
    /\ copy' = [copy EXCEPT ![s] = None]
    /\ Goto(s, "undo")
    /\ UNCHANGED <<blob, row, queue, pages, deletions, doc, work, tenant, claimed, faults>>
    /\ UNCHANGED <<raced, crossed, reset, crashed, overtaken>>

(* Then the document (first: a variant that leaves it), and a second time, with
   whatever job it names by now, where the callback handles the exception. *)
LeaveMarked(s) ==
    /\ pc[s] = "undo" /\ Goto(s, Handled(s))
    /\ UNCHANGED <<stores, doc, copy, work, tenant, claimed, faults, ghosts>>
MarkFailed(s) == Update(s, "undo", "undoSave", "failed", ParentOf(s), Handled(s))
MarkAgain(d) == Update(d, "redo", "redoSave", "failed", doc[d].job, "end")

(* The process that serves the request stops. *)
Stop(s) ==
    /\ pc[s] \notin {"idle", "end"} /\ "stop" \in events /\ faults < MaxFaults
    /\ faults' = faults + 1
    /\ crashed' = IF pc[s] \in Unsettled
                  THEN crashed \cup {ParentOf(s)} ELSE crashed
    /\ doc' = [doc EXCEPT ![s] = None]
    /\ copy' = [copy EXCEPT ![s] = None]
    /\ Goto(s, "end")
    /\ UNCHANGED <<stores, work, tenant, claimed, raced, crossed, reset, undoings>>

Start(s) ==
    \/ GetDocument(s) \/ ListJobs(s) \/ SaveJob(s) \/ MarkIndexing(s) \/ Enqueue(s)
    \/ PushRaises(s) \/ Refuse(s) \/ LoadParent(s) \/ SaveParent(s) \/ MarkFailed(s)
Callback(d) == Head(d) \/ Find(d) \/ Register(d) \/ LoadKeyed(d) \/ MarkAgain(d)

-----------------------------------------------------------------------------
(* The worker: process_next_index_job and, in short, the pipeline. *)

(* A receipt of a job that is over, or has no row, is acknowledged at once. *)
Take(j) ==
    /\ pc["worker"] = "idle" /\ queue[j] > 0
    /\ queue' = [queue EXCEPT ![j] = @ - 1]
    /\ IF jobs[j] \in Live
       THEN /\ work' = j /\ Goto("worker", "load")
            /\ overtaken' = (overtaken \/ \E s \in Starters : ParentOf(s) = j /\ pc[s] \in Undoing)
       ELSE UNCHANGED <<work, pc, overtaken>>
    /\ UNCHANGED <<blob, row, jobs, pages, deletions, doc, copy, tenant, claimed, faults, raced,
                   crossed, reset, crashed, stale>>

(* An update of a row that is gone raises, and the run ends there; its
   receipt finds no row when it is recovered. *)
Proceed(status, to) ==
    IF jobs[work] = "none" THEN Goto("worker", "ack") /\ UNCHANGED jobs
    ELSE SetJob(work, status) /\ Goto("worker", to)

(* The pipeline reads the document once and works with this copy throughout;
   a parse may fail, and fails without the uploaded object. *)
LoadDocument ==
    /\ pc["worker"] = "load"
    /\ IF row = None THEN Proceed("failed", "ack") /\ UNCHANGED <<tenant, faults>>
       ELSE IF jobs[work] = "cancelled"
       THEN Goto("worker", "ack") /\ UNCHANGED <<jobs, tenant, faults>>
       ELSE /\ tenant' = LightragTenant(row)
            /\ \/ blob /\ Proceed("running", "begin") /\ UNCHANGED faults
               \/ ~blob /\ Proceed("failed", "fail") /\ UNCHANGED faults
               \/ /\ "parse" \in events /\ faults < MaxFaults
                  /\ faults' = faults + 1 /\ Proceed("failed", "fail")
    /\ UNCHANGED <<blob, row, queue, pages, deletions, doc, copy, work, claimed, ghosts>>

ReportIndexing == Update("worker", "begin", "beginSave", "indexing", work, "insert")

(* index_pages, and the look at the cancellation behind it that removes what
   was inserted. *)
Insert ==
    /\ pc["worker"] = "insert"
    /\ IF jobs[work] = "cancelled"
       THEN Goto("worker", "cancel") /\ UNCHANGED pages
       ELSE /\ pages' = pages \cup {tenant}
            /\ Goto("worker", "check")
    /\ UNCHANGED <<blob, row, jobs, queue, deletions, doc, copy, work, tenant, claimed, faults,
                   ghosts>>
Check ==
    /\ pc["worker"] = "check"
    /\ IF jobs[work] = "cancelled"
       THEN /\ pages' = pages \ {tenant}
            /\ Goto("worker", "cancel")
       ELSE Goto("worker", "report") /\ UNCHANGED pages
    /\ UNCHANGED <<blob, row, jobs, queue, deletions, doc, copy, work, tenant, claimed, faults,
                   ghosts>>

(* The ends of a run (FailSilently: a variant that leaves the document alone). *)
ReportDone == Update("worker", "report", "reportSave", "done", work, "finish")
ReportCancelled == Update("worker", "cancel", "cancelSave", "cancelled", work, "ack")
FailSilently ==
    /\ pc["worker"] = "fail" /\ Goto("worker", "ack")
    /\ UNCHANGED <<stores, doc, copy, work, tenant, claimed, faults, ghosts>>
ReportFailed == Update("worker", "fail", "failSave", "failed", work, "ack")

Finish ==
    /\ pc["worker"] = "finish"
    /\ IF jobs[work] = "cancelled" THEN Goto("worker", "ack") /\ UNCHANGED jobs
       ELSE Proceed("done", "ack")
    /\ UNCHANGED <<blob, row, queue, pages, deletions, doc, copy, work, tenant, claimed, faults,
                   ghosts>>

Acknowledge ==
    /\ pc["worker"] = "ack"
    /\ Goto("worker", "idle")
    /\ work' = None /\ tenant' = None
    /\ UNCHANGED <<stores, doc, copy, claimed, faults, ghosts>>

(* run_delete_job, by the same worker. *)
DeletePages(t) ==
    /\ pc["worker"] = "idle" /\ t \in deletions
    /\ pages' = pages \ {t}
    /\ deletions' = deletions \ {t}
    /\ UNCHANGED <<blob, row, jobs, queue, actors, ghosts>>

Worker ==
    \/ \E j \in JobIds : Take(j)
    \/ LoadDocument \/ ReportIndexing \/ Insert \/ Check
    \/ ReportDone \/ ReportCancelled \/ ReportFailed
    \/ Finish \/ Acknowledge
    \/ \E t \in Owners : DeletePages(t)

-----------------------------------------------------------------------------
(* Signing in, deleting the document, and erasing the account. *)

(* claim_visitor_data: one transaction over everything the visitor owns. *)
Claim ==
    /\ ~claimed /\ uploader = "visitor"
    /\ claimed' = TRUE
    /\ row' = IF row = None THEN None ELSE [row EXCEPT !.owner = "account"]
    /\ UNCHANGED <<erasing, blob, jobs, queue, pages, deletions, pc, doc, copy, work, tenant,
                   faults, ghosts>>

(* delete_document works with the row it has read here; the erasure with the
   documents its export lists, which may be none.  Bound: the account that is
   erased is the one that uploads; the pages of a claimed document are in
   another workspace anyway (README, U3). *)
ReadDocument ==
    /\ pc["api"] = "idle" /\ "delete" \in events /\ row # None
    /\ doc' = [doc EXCEPT !["api"] = row] /\ Goto("api", "stop jobs")
    /\ crossed' = (crossed \/ StartsUnderway)
    /\ UNCHANGED <<erasing, stores, copy, work, tenant, claimed, faults, raced, reset, crashed,
                   undoings>>
Export ==
    /\ pc["api"] = "idle" /\ "delete" \in events /\ uploader = "account" /\ erasing' = TRUE
    /\ IF row # None /\ row.owner = "account"
       THEN doc' = [doc EXCEPT !["api"] = row] /\ Goto("api", "stop jobs")
       ELSE Goto("api", "erase") /\ UNCHANGED doc
    /\ crossed' = (crossed \/ StartsUnderway)
    /\ UNCHANGED <<stores, copy, work, tenant, claimed, faults, raced, reset, crashed, undoings>>

(* cancel_document_jobs: the live parents keep their rows under another
   document id. *)
CancelJobs ==
    /\ pc["api"] = "stop jobs"
    /\ jobs' = [j \in JobIds |-> IF jobs[j] \in Live THEN "cancelled" ELSE jobs[j]]
    /\ row' = IF row # None /\ \E j \in JobIds : jobs[j] \in Live
              THEN [row EXCEPT !.index = "cancelled"] ELSE row
    /\ Goto("api", "schedule")
    /\ UNCHANGED <<erasing, blob, queue, pages, deletions, doc, copy, work, tenant, claimed,
                   faults, ghosts>>

Schedule ==
    /\ pc["api"] = "schedule"
    /\ deletions' = IF MayBeIndexed(doc["api"])
                    THEN deletions \cup {LightragTenant(doc["api"])} ELSE deletions
    /\ doc' = [doc EXCEPT !["api"] = None]
    /\ Goto("api", "blob")
    /\ UNCHANGED <<erasing, blob, row, jobs, queue, pages, copy, work, tenant, claimed, faults,
                   ghosts>>

DeleteBlob ==
    /\ pc["api"] = "blob"
    /\ blob' = FALSE
    /\ Goto("api", IF erasing THEN "erase" ELSE "jobs")
    /\ UNCHANGED <<erasing, row, jobs, queue, pages, deletions, doc, copy, work, tenant, claimed,
                   faults, ghosts>>

(* The rows of the jobs this deletion did not cancel. *)
DeleteJobs ==
    /\ pc["api"] = "jobs"
    /\ jobs' = [j \in JobIds |-> IF jobs[j] = "cancelled" THEN jobs[j] ELSE "none"]
    /\ Goto("api", "row")
    /\ UNCHANGED <<erasing, blob, row, queue, pages, deletions, doc, copy, work, tenant, claimed,
                   faults, ghosts>>

DeleteRow ==
    /\ pc["api"] = "row"
    /\ row' = None
    /\ Goto("api", "end")
    /\ UNCHANGED <<erasing, blob, jobs, queue, pages, deletions, doc, copy, work, tenant, claimed,
                   faults, ghosts>>

(* delete_tenant_data: one transaction over what the account owns by now; the
   jobs that were cancelled above are no longer jobs of the document. *)
DeleteTenantData ==
    /\ pc["api"] = "erase" /\ Goto("api", "end")
    /\ IF row # None /\ row.owner = "account"
       THEN /\ row' = None
            /\ jobs' = [j \in JobIds |-> IF jobs[j] = "cancelled" THEN jobs[j] ELSE "none"]
       ELSE UNCHANGED <<row, jobs>>
    /\ UNCHANGED <<erasing, blob, queue, pages, deletions, doc, copy, work, tenant, claimed,
                   faults, ghosts>>

Serve == CancelJobs \/ Schedule \/ DeleteBlob \/ DeleteJobs \/ DeleteRow \/ DeleteTenantData
Delete == ReadDocument \/ Export \/ Serve

Next ==
    /\ \/ \E d \in Deliveries : Callback(d) /\ UNCHANGED erasing
       \/ \E c \in Clicks : Click(c) /\ UNCHANGED erasing
       \/ \E s \in Starters : (Start(s) \/ Stop(s)) /\ UNCHANGED erasing
       \/ Worker /\ UNCHANGED erasing
       \/ Claim \/ Delete
    /\ UNCHANGED bounds

Spec == Init /\ [][Next]_vars

(* A request that has begun is served to its end, and the worker polls. *)
FairSpec ==
    /\ Spec
    /\ \A s \in Starters : WF_vars(Start(s) /\ UNCHANGED <<bounds, erasing>>)
    /\ \A d \in Deliveries : WF_vars(pc[d] # "idle" /\ Callback(d) /\ UNCHANGED <<bounds, erasing>>)
    /\ WF_vars(Worker /\ UNCHANGED <<bounds, erasing>>)
    /\ WF_vars(Serve /\ UNCHANGED bounds)

-----------------------------------------------------------------------------
(* Properties. *)

(* Rows, receipts and copies have their types; a request holds a copy of the
   row exactly while it has a use for it. *)
TypeOK ==
    /\ blob \in BOOLEAN /\ claimed \in BOOLEAN
    /\ row \in Rows \cup {None}
    /\ jobs \in [JobIds -> {"none"} \cup Live \cup Terminal]
    /\ queue \in [JobIds -> 0..Cardinality(Starters)]
    /\ pages \subseteq Owners /\ deletions \subseteq Owners
    /\ \A a \in Actors :
         IF pc[a] \in {"stop jobs", "schedule", "markSave", "undoSave", "redoSave",
                       "beginSave", "reportSave", "cancelSave", "failSave"}
         THEN doc[a] \in Rows ELSE doc[a] = None
    /\ work \in JobIds \cup {None} /\ tenant \in Owners \cup {None}
    /\ copy \in [Starters -> {"none", None} \cup Live \cup Terminal]
    /\ faults \in 0..MaxFaults

Quiet ==
    /\ \A s \in Starters : pc[s] \in {"idle", "end"}
    /\ pc["worker"] = "idle" /\ pc["api"] \in {"idle", "end"}
    /\ \A j \in JobIds : queue[j] = 0
    /\ deletions = {}

(* The comment of the handler of a failed enqueue ("A persisted queued row
   without a Redis receipt would make the idempotency check return an orphan
   forever"): a live parent has a receipt, the worker, or the start that is
   about to queue it or to give it up, unless that start died, or the handler
   saved the parent with an older status (README, U7). *)
NoOrphan ==
    \A j \in JobIds : jobs[j] \in Live =>
        \/ queue[j] > 0
        \/ work = j
        \/ \E s \in Starters :
               ParentOf(s) = j /\ pc[s] \in {"mark", "markSave", "enqueue", "refused"}
        \/ j \in crashed \cup stale

RowsAreSound == TypeOK /\ NoOrphan

(* When everything is at rest, a document that nobody deletes says what its
   last job says, and an index that is done has its pages: also when a push was
   carried out whose answer is lost.  The exceptions are starts that raced or
   died, a fresh row written over it (README, U1, U2), and a worker that took
   the job, or a start that saved another, before the handler of such a push was
   through (U7). *)
RowTellsTheJob ==
    (Quiet /\ row # None /\ ~Deleted /\ ~raced /\ ~reset /\ ~overtaken /\ crashed = {}) =>
        /\ row.job # None => row.index = jobs[row.job]
        /\ row.index = "done" => pages # {}

(* The deletion of a document, or of all data of the account that uploaded it,
   leaves no pages in any workspace, although jobs are running and queued when
   it begins, unless the document had changed hands (README, U3), its row had
   been written afresh (U1) or a start was under way (U4). *)
NothingLeft ==
    (Quiet /\ pc["api"] = "end" /\ ~claimed /\ ~reset /\ ~crossed) => pages = {}

(* A document that is being indexed, and not deleted, does not stay so, unless
   starts raced or died or a fresh row was written over it (README, U1, U2). *)
IndexSettles ==
    (row # None /\ row.index = "indexing") ~>
        (row = None \/ row.index # "indexing" \/ Deleted \/ raced \/ reset \/ crashed # {})
-----------------------------------------------------------------------------
(* Statements of comments and documents that the code does not keep.  They are
   not checked: a run with one of them ends in the trace README.md tells. *)

(* The docstring of lightrag_tenant_for_document ("immutable logical LightRAG
   scope ... so later environment changes or account-wide deletion cannot
   target the wrong workspace"), of a document uploaded and deleted without a
   race: no workspace keeps its pages. *)
DeletedFromItsWorkspace == (Quiet /\ pc["api"] = "end" /\ ~crossed) => pages = {}
=============================================================================
