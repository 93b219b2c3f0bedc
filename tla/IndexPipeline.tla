---------------------------- MODULE IndexPipeline ----------------------------
(***************************************************************************)
(* One index job of one document (backend/services/indexing_service.py):   *)
(* the pipeline thread, its two engine threads, and the API thread that    *)
(* cancels the job or deletes the document meanwhile.                      *)
(*                                                                         *)
(* A job row and a document row are read and written as a whole.  An       *)
(* update is a load and a save under a lock of its own process, so it is   *)
(* atomic for threads of that process and for nobody else.  In the         *)
(* distributed deployment the API and the worker are two processes and     *)
(* deletions of LightRAG data wait in the durable queue; otherwise all is  *)
(* one process and they run in a thread at once.                           *)
(***************************************************************************)
EXTENDS Naturals, FiniteSets

CONSTANTS Scenarios, \* what the runs of the model differ in, see below
          NoCopy     \* an actor that has loaded no row

Engines == {"legacy", "lightrag"}

ASSUME PipelineAssumption ==
    Scenarios \subseteq [distributed : BOOLEAN, targets : (SUBSET Engines) \ {{}},
                         requests : Nat, faults : Nat]

VARIABLE scenario \* one of them, chosen at the start

Distributed == scenario.distributed \* the API and the worker are processes of their own
Targets == scenario.targets         \* target_engines: what this job builds
MaxRequests == scenario.requests    \* bound on cancellations and deletions
MaxFaults == scenario.faults        \* bound on failing stages and incomplete removals

Actors == Engines \cup {"main", "api"}
Files == {"pages", "records", "graph"}

VARIABLES meta,      \* the row of the job
          doc,       \* the row of the document
          graph,     \* the graph store holds data of the document
          light,     \* LightRAG holds data of the document
          blobs,     \* the artifacts in the blob store
          deletions, \* scheduled deletions of LightRAG data
          flag,      \* _cancel_flags[job_id], where cancel_job ran
          pc,        \* the next step of each actor
          saving,    \* how far its _save_job_artifact has come
          copy,      \* the job row it has loaded to update
          dcopy,     \* the document row it has loaded to update
          outcome,   \* how each engine thread ended
          verdict,   \* the final status the pipeline worked out
          todo,      \* the engines the pipeline and cancel_job have yet to visit
          snap,      \* the job row an API call works with
          dsnap,     \* the document row delete_document works with
          request,   \* what the API thread is doing
          requests,  \* how many cancellations and deletions there were
          faults

rows == <<meta, doc>>
stores == <<graph, light, blobs>>
copies == <<copy, dcopy>>
worker == <<outcome, verdict, todo>>
api == <<snap, dsnap, request, requests>>
vars == <<rows, stores, deletions, flag, pc, saving, copies, worker, api, faults>>

Terminal == {"done", "partial", "failed", "cancelled"}
Statuses == Terminal \cup {"none", "queued", "parsing", "indexing"}
EngineStatuses == {"none", "pending", "indexing", "done", "failed", "cancelled"}

Rows == [stored : BOOLEAN, status : Statuses, legacy : EngineStatuses,
         lightrag : EngineStatuses, files : SUBSET Files, detached : BOOLEAN]
DocRows == [stored : BOOLEAN, status : {"uploaded", "indexing", "indexed", "failed"},
            legacy : EngineStatuses, lightrag : EngineStatuses]

(* update_engine_index_status on a row; the status of the document itself
   is that of its classic index. *)
DocStatus(s) == CASE s = "done" -> "indexed" [] s = "failed" -> "failed"
                  [] s \in {"cancelled", "pending"} -> "uploaded" [] OTHER -> "indexing"
SetDoc(row, e, s) ==
    IF e = "legacy" THEN [row EXCEPT !.legacy = s, !.status = DocStatus(s)]
    ELSE [row EXCEPT !.lightrag = s]

(* What _update_engine_meta makes of a row that is not there. *)
Blank == [stored |-> TRUE, status |-> "none", legacy |-> "none",
          lightrag |-> "none", files |-> {}, detached |-> FALSE]
NoRow == [Blank EXCEPT !.stored = FALSE]

(* start_indexing has saved the row, marked the document and handed the job
   to the queue or to a thread; an engine that is not a target was built by an
   earlier job. *)
Init ==
    /\ scenario \in Scenarios
    /\ LET Was(e, new) == IF e \in Targets THEN new ELSE "done"
           marked == IF Distributed THEN "indexing" ELSE "pending"
       IN  /\ meta = [Blank EXCEPT !.status = "queued", !.legacy = Was("legacy", "pending"),
                                   !.lightrag = Was("lightrag", "pending")]
           /\ doc = [stored |-> TRUE, status |-> DocStatus(Was("legacy", marked)),
                     legacy |-> Was("legacy", marked), lightrag |-> Was("lightrag", marked)]
    /\ graph = ("legacy" \notin Targets) /\ light = ("lightrag" \notin Targets)
    /\ blobs = {}
    /\ deletions = 0
    /\ flag = FALSE
    /\ pc = [a \in Actors |-> IF a = "main" THEN "start" ELSE "idle"]
    /\ saving = [a \in Actors |-> "no"]
    /\ copy = [a \in Actors |-> NoCopy] /\ dcopy = [a \in Actors |-> NoCopy]
    /\ outcome = [e \in Engines |-> "running"]
    /\ verdict = "none"
    /\ snap = NoRow /\ dsnap = doc
    /\ request = "none" /\ todo = [a \in {"main", "api"} |-> Targets]
    /\ requests = [cancel |-> 0, delete |-> 0] /\ faults = 0

-----------------------------------------------------------------------------
(* The helpers every actor uses. *)

Goto(a, s) == pc' = [pc EXCEPT ![a] = s]

SameProcess(a, b) == Distributed => (a = "api" <=> b = "api")

(* A row without created_at is one that _update_meta cannot write. *)
Whole == meta.stored /\ meta.status # "none"

(* _is_cancelled: the flag of this process, or the row. *)
IsCancelled(a) == (flag /\ SameProcess(a, "api")) \/ (Whole /\ meta.status = "cancelled")
WriteAllowed(a) == ~IsCancelled(a) /\ doc.stored

(* _meta_update_lock and _document_update_lock, held from load to save; the
   status update after a failed pipeline takes no lock. *)
MetaFree(a) == \A b \in Actors : SameProcess(a, b) => copy[b] = NoCopy
DocFree(a) == \A b \in Actors :
    SameProcess(a, b) => dcopy[b] = NoCopy \/ pc[b] = "failStatus"

Load(a, row) ==
    /\ copy[a] = NoCopy /\ MetaFree(a)
    /\ copy' = [copy EXCEPT ![a] = row]
    /\ UNCHANGED <<meta, pc>>

Save(a, row, to) ==
    /\ copy[a] # NoCopy
    /\ meta' = row
    /\ copy' = [copy EXCEPT ![a] = NoCopy]
    /\ Goto(a, to)

(* _update_meta; a missing row makes it raise, which is RowIsMissing. *)
UpdateMeta(a, from, new(_), to) ==
    /\ pc[a] = from
    /\ (Whole /\ Load(a, meta)) \/ Save(a, new(copy[a]), to)
    /\ UNCHANGED <<doc, stores, deletions, flag, saving, dcopy, worker, api, faults>>

(* update_engine_index_status and update_document_status: nothing without a
   document row. *)
UpdateDoc(a, from, new(_), to) ==
    /\ pc[a] = from
    /\ \/ /\ dcopy[a] = NoCopy /\ ~doc.stored
          /\ Goto(a, to)
          /\ UNCHANGED <<doc, dcopy>>
       \/ /\ dcopy[a] = NoCopy /\ doc.stored
          /\ DocFree(a) \/ from = "failStatus"
          /\ dcopy' = [dcopy EXCEPT ![a] = doc]
          /\ UNCHANGED <<doc, pc>>
       \/ /\ dcopy[a] # NoCopy
          /\ doc' = new(dcopy[a])
          /\ dcopy' = [dcopy EXCEPT ![a] = NoCopy]
          /\ Goto(a, to)
    /\ UNCHANGED <<meta, stores, deletions, flag, saving, copy, worker, api, faults>>

(* _update_engine_meta followed by update_engine_index_status. *)
SetEngine(a, e, status, from, mid, to) ==
    \/ /\ pc[a] = from
       /\ Load(a, IF meta.stored THEN meta ELSE Blank)
          \/ Save(a, [copy[a] EXCEPT ![e] = status], mid)
       /\ UNCHANGED <<doc, stores, deletions, flag, saving, dcopy, worker, api, faults>>
    \/ UpdateDoc(a, mid, LAMBDA row : SetDoc(row, e, status), to)

(* A step that only reads and branches. *)
Branch(a, from, test, yes, no) ==
    /\ pc[a] = from
    /\ Goto(a, IF test THEN yes ELSE no)
    /\ UNCHANGED <<rows, stores, deletions, flag, saving, copies, worker, api, faults>>

(* _save_job_artifact under _artifact_update_lock: the blob, a second look at
   the cancellation that takes the blob back, and the reference in the row. *)
ArtifactFree(a) == \A b \in Actors :
    SameProcess(a, b) => saving[b] = "no" /\ pc[b] # "tombstone"

SaveArtifact(a, file, from, to, cancelled) ==
    /\ pc[a] = from
    /\ \/ /\ saving[a] = "no" /\ ArtifactFree(a)
          /\ IF IsCancelled(a)
             THEN Goto(a, cancelled) /\ UNCHANGED <<blobs, saving>>
             ELSE /\ blobs' = blobs \cup {file}
                  /\ saving' = [saving EXCEPT ![a] = "written"]
                  /\ UNCHANGED pc
          /\ UNCHANGED <<meta, copy>>
       \/ /\ saving[a] = "written"
          /\ IF IsCancelled(a)
             THEN /\ blobs' = blobs \ {file}
                  /\ saving' = [saving EXCEPT ![a] = "no"]
                  /\ Goto(a, cancelled)
             ELSE /\ saving' = [saving EXCEPT ![a] = "checked"]
                  /\ UNCHANGED <<blobs, pc>>
          /\ UNCHANGED <<meta, copy>>
       \/ /\ saving[a] = "checked"
          /\ \/ Load(a, IF meta.stored THEN meta ELSE Blank) /\ UNCHANGED saving
             \/ /\ Save(a, [copy[a] EXCEPT !.files = @ \cup {file}], to)
                /\ saving' = [saving EXCEPT ![a] = "no"]
          /\ UNCHANGED blobs
    /\ UNCHANGED <<doc, graph, light, deletions, flag, dcopy, worker, api, faults>>

(* Names of the stages at which a row is set for an engine. *)
Report == [legacy |-> "reportLegacy", lightrag |-> "reportLightrag"]
ReportDoc == [legacy |-> "reportLegacyDoc", lightrag |-> "reportLightragDoc"]
Fail == [legacy |-> "failLegacy", lightrag |-> "failLightrag"]
FailDoc == [legacy |-> "failLegacyDoc", lightrag |-> "failLightragDoc"]
Void == [legacy |-> "voidLegacy", lightrag |-> "voidLightrag"]
VoidDoc == [legacy |-> "voidLegacyDoc", lightrag |-> "voidLightragDoc"]

SetStatus(row, s) == [row EXCEPT !.status = s]

-----------------------------------------------------------------------------
(* The engine threads. *)

(* A thread ends with a result, _IndexCancelled or another exception. *)
End(e, how) ==
    /\ outcome' = [outcome EXCEPT ![e] = how]
    /\ Goto(e, "over")
    /\ UNCHANGED <<rows, stores, deletions, flag, saving, copies, verdict, todo, api>>

Return(e) == pc[e] = "return" /\ End(e, "done") /\ UNCHANGED faults
Raise(e) == pc[e] = "raise" /\ End(e, "cancelled") /\ UNCHANGED faults

(* Any call of the extraction, of a store or of LightRAG raises, with the locks
   the thread holds let go.  One that writes or removes data may have done so in
   part; a row or an artifact that is saved by a call that raises is one whose
   thread fails right after it. *)
ChildFails(e) ==
    /\ pc[e] \notin {"idle", "return", "raise", "over"}
    /\ faults < MaxFaults
    /\ faults' = faults + 1
    /\ outcome' = [outcome EXCEPT ![e] = "failed"]
    /\ Goto(e, "over")
    /\ graph' \in CASE e = "legacy" /\ pc[e] = "upsert" -> {graph, TRUE}
                     [] e = "legacy" /\ pc[e] \in {"undo", "undoDone"} -> {graph, FALSE}
                     [] OTHER -> {graph}
    /\ light' \in CASE e = "lightrag" /\ pc[e] = "insert" -> {light, TRUE}
                     [] e = "lightrag" /\ pc[e] = "remove" -> {light, FALSE}
                     [] OTHER -> {light}
    /\ copy' = [copy EXCEPT ![e] = NoCopy] /\ dcopy' = [dcopy EXCEPT ![e] = NoCopy]
    /\ saving' = [saving EXCEPT ![e] = "no"]
    /\ UNCHANGED <<rows, blobs, deletions, flag, verdict, todo, api>>

(* _run_legacy_engine: the graph is written between two looks at the
   cancellation and taken back when the second or a later one finds one. *)
SetGraph(a, from, value, to) ==
    /\ pc[a] = from
    /\ graph' = value
    /\ Goto(a, to)
    /\ UNCHANGED <<rows, light, blobs, deletions, flag, saving, copies, worker, api, faults>>

Check(from, yes, no) == Branch("legacy", from, WriteAllowed("legacy"), yes, no)

(* Variant: the second look is missing. *)
PublishUnguarded ==
    \/ Check("guard", "upsert", "raise")
    \/ SetGraph("legacy", "upsert", TRUE, "guard2")
    \/ Branch("legacy", "guard2", TRUE, "saveGraph", "undo")

Publish ==
    \/ Check("guard", "upsert", "raise")
    \/ SetGraph("legacy", "upsert", TRUE, "guard2")
    \/ Check("guard2", "saveGraph", "undo")

RunLegacy ==
    \/ SetEngine("legacy", "legacy", "indexing", "mark", "markDoc", "page")
    \/ Branch("legacy", "page", IsCancelled("legacy"), "raise", "progress")
    \/ UpdateMeta("legacy", "progress", LAMBDA row : row, "saveRecords")
    \/ SaveArtifact("legacy", "records", "saveRecords", "guard", "raise")
    \/ Publish
    \/ SaveArtifact("legacy", "graph", "saveGraph", "guard3", "raise")
    \/ Check("guard3", "done", "undo")
    \/ SetEngine("legacy", "legacy", "done", "done", "doneDoc", "guard4")
    \/ Check("guard4", "return", "undoDone")
    \/ SetGraph("legacy", "undo", FALSE, "raise")
    \/ SetGraph("legacy", "undoDone", FALSE, "revoke")
    \/ SetEngine("legacy", "legacy", "cancelled", "revoke", "revokeDoc", "raise")

(* _run_lightrag_engine; the removal after a late cancellation may be
   incomplete, which nobody looks at. *)
InsertPages ==
    /\ pc["lightrag"] = "insert"
    /\ light' = TRUE
    /\ Goto("lightrag", "inserted")
    /\ UNCHANGED <<rows, graph, blobs, deletions, flag, saving, copies, worker, api, faults>>

RemovePages ==
    /\ pc["lightrag"] = "remove"
    /\ \/ light' = FALSE /\ UNCHANGED faults
       \/ faults < MaxFaults /\ faults' = faults + 1 /\ UNCHANGED light
    /\ Goto("lightrag", "raise")
    /\ UNCHANGED <<rows, graph, blobs, deletions, flag, saving, copies, worker, api>>

RunLightrag ==
    \/ Branch("lightrag", "begin", IsCancelled("lightrag"), "raise", "mark")
    \/ SetEngine("lightrag", "lightrag", "indexing", "mark", "markDoc", "insert")
    \/ InsertPages
    \/ Branch("lightrag", "inserted", IsCancelled("lightrag"), "remove", "done")
    \/ RemovePages
    \/ SetEngine("lightrag", "lightrag", "done", "done", "doneDoc", "return")

-----------------------------------------------------------------------------
(* The pipeline thread. *)

(* run_queued_job looks at the status, _run_local_job_serialized at the flag. *)
Start ==
    \/ Distributed /\ Branch("main", "start", ~Whole \/ meta.status \in Terminal, "over", "open")
    \/ ~Distributed /\ Branch("main", "start", IsCancelled("main"), "stopped", "open")

(* A job for LightRAG alone takes the pages of an earlier job, if there are. *)
Open ==
    \/ Branch("main", "open", doc.stored, "parse", "noDocument")
    \/ Targets = {"lightrag"} /\ doc.stored /\ Branch("main", "open", TRUE, "reuse", "reuse")

Parse ==
    \/ Branch("main", "parse", IsCancelled("main"), "sayCancelled", "parsing")
    \/ UpdateMeta("main", "parsing", LAMBDA row : SetStatus(row, "parsing"), "parsed")
    \/ Branch("main", "parsed", IsCancelled("main"), "sayCancelled", "savePages")
    \/ SaveArtifact("main", "pages", "savePages", "indexing", "failing")
    \/ UpdateMeta("main", "indexing", LAMBDA row : SetStatus(row, "indexing"), "indexingDoc")
    \/ "legacy" \in Targets
       /\ UpdateDoc("main", "indexingDoc", LAMBDA row : SetDoc(row, "legacy", "indexing"), "fork")
    \/ "legacy" \notin Targets /\ Branch("main", "indexingDoc", TRUE, "fork", "fork")

(* A call raises before the engines are started: of the download, the parser,
   the blob store or the repository. *)
ParserFails ==
    /\ pc["main"] \in {"parse", "parsing", "parsed", "savePages", "indexing", "indexingDoc"}
    /\ faults < MaxFaults
    /\ faults' = faults + 1
    /\ Goto("main", "failing")
    /\ copy' = [copy EXCEPT !["main"] = NoCopy] /\ dcopy' = [dcopy EXCEPT !["main"] = NoCopy]
    /\ saving' = [saving EXCEPT !["main"] = "no"]
    /\ UNCHANGED <<rows, stores, deletions, flag, worker, api>>

Fork ==
    /\ pc["main"] = "fork"
    /\ pc' = [a \in Actors |-> CASE a = "main" -> "join"
                                 [] a \in Targets -> IF a = "legacy" THEN "mark" ELSE "begin"
                                 [] OTHER -> pc[a]]
    /\ todo' = [todo EXCEPT !["main"] = Targets]
    /\ UNCHANGED <<rows, stores, deletions, flag, saving, copies, outcome, verdict, api, faults>>

Visit(a, e, to) ==
    /\ e \in todo[a]
    /\ todo' = [todo EXCEPT ![a] = @ \ {e}]
    /\ Goto(a, to)
    /\ UNCHANGED <<rows, stores, deletions, flag, saving, copies, outcome, verdict, api, faults>>

(* Variant: a child that fails is never collected. *)
JoinSuccess(e) ==
    \/ /\ pc["main"] = "join" /\ outcome[e] \in {"done", "cancelled"}
       /\ Visit("main", e, IF outcome[e] = "done" THEN "join" ELSE Report[e])
    \/ SetEngine("main", e, outcome[e], Report[e], ReportDoc[e], "join")

(* as_completed: a child that did not succeed is reported by the parent. *)
Join(e) ==
    \/ /\ pc["main"] = "join" /\ outcome[e] # "running"
       /\ Visit("main", e, IF outcome[e] = "done" THEN "join" ELSE Report[e])
    \/ SetEngine("main", e, outcome[e], Report[e], ReportDoc[e], "join")

Joined == todo["main"] = {} /\ Branch("main", "join", IsCancelled("main"), "sayCancelled", "tally")

(* Variant: an engine that failed is not looked at. *)
VerdictOfSuccess ==
    IF \E e \in Targets : meta[e] = "done" THEN "done" ELSE "failed"

Verdict ==
    LET failed == \E e \in Targets : meta[e] = "failed"
        completed == \E e \in Targets : meta[e] = "done"
    IN  IF failed /\ completed THEN "partial" ELSE IF failed THEN "failed" ELSE "done"

Tally ==
    /\ pc["main"] = "tally"
    /\ verdict' = Verdict
    /\ Goto("main", "settle")
    /\ UNCHANGED <<rows, stores, deletions, flag, saving, copies, outcome, todo, api, faults>>

Settle ==
    \/ UpdateMeta("main", "settle", LAMBDA row : SetStatus(row, verdict), "finally")
    \/ UpdateMeta("main", "sayCancelled", LAMBDA row : SetStatus(row, "cancelled"), "finally")
    \/ UpdateMeta("main", "noDocument", LAMBDA row : SetStatus(row, "failed"), "over")
    \/ UpdateMeta("main", "stopped", LAMBDA row : SetStatus(row, "cancelled"), "over")

(* The handler of every exception of the pipeline, a cancellation while the
   pages are saved included. *)
Failing == UpdateMeta("main", "failing", LAMBDA row : SetStatus(row, "failed"), "failEngines")

FailEngine(e) ==
    \/ /\ pc["main"] = "failEngines"
       /\ Visit("main", e, IF meta.stored /\ meta[e] = "done" THEN "failEngines" ELSE Fail[e])
    \/ SetEngine("main", e, "failed", Fail[e], FailDoc[e], "failEngines")

FailDocument ==
    \/ todo["main"] = {} /\ Branch("main", "failEngines", TRUE, "failStatus", "failStatus")
    \/ UpdateDoc("main", "failStatus", LAMBDA row : SetStatus(row, "failed"), "finally")

(* _update_meta on a missing row raises: in a child it fails the engine, in
   the pipeline it leads to the handler, in the handler out of the thread. *)
RowIsMissing ==
    /\ ~Whole
    /\ \/ /\ pc["legacy"] = "progress" /\ copy["legacy"] = NoCopy
          /\ End("legacy", "failed")
          /\ UNCHANGED faults
       \/ /\ copy["main"] = NoCopy
          /\ \/ pc["main"] \in {"parsing", "indexing", "settle", "sayCancelled"}
                /\ Goto("main", "failing")
             \/ pc["main"] = "failing" /\ Goto("main", "finally")
             \/ pc["main"] \in {"noDocument", "stopped", "reusing", "retryFailed", "retryDone"}
                /\ Goto("main", "over")
          /\ todo' = [todo EXCEPT !["main"] = Targets]
          /\ UNCHANGED <<rows, stores, deletions, flag, saving, copies, outcome, verdict, api,
                         faults>>

(* _run_lightrag_retry_from_artifact runs the engine in this thread; a
   cancellation while the pages are saved leaves _run_pipeline altogether. *)
RetryStarts ==
    /\ pc["main"] = "retry"
    /\ pc' = [pc EXCEPT !["main"] = "retrying", !["lightrag"] = "begin"]
    /\ UNCHANGED <<rows, stores, deletions, flag, saving, copies, worker, api, faults>>

Retry ==
    \/ SaveArtifact("main", "pages", "reuse", "reusing", "over")
    \/ UpdateMeta("main", "reusing", LAMBDA row : SetStatus(row, "indexing"), "retry")
    \/ RetryStarts
    \/ outcome["lightrag"] = "done" /\ Branch("main", "retrying", TRUE, "retried", "retried")
    \/ outcome["lightrag"] \in {"cancelled", "failed"}
       /\ SetEngine("main", "lightrag", outcome["lightrag"], "retrying", "retryingDoc", "retryEnds")
    \/ Branch("main", "retryEnds", outcome["lightrag"] = "failed", "retryFailed", "stopped")
    \/ UpdateMeta("main", "retryFailed", LAMBDA row : SetStatus(row, "failed"), "over")
    \/ Branch("main", "retried", IsCancelled("main"), "stopped", "retryDone")
    \/ UpdateMeta("main", "retryDone", LAMBDA row : SetStatus(row, "done"), "over")

Finally ==
    /\ pc["main"] = "finally"
    /\ flag' = (flag /\ Distributed)
    /\ Goto("main", "over")
    /\ UNCHANGED <<rows, stores, deletions, saving, copies, worker, api, faults>>

Pipeline ==
    \/ Start \/ Open \/ Parse \/ Fork \/ Joined \/ Tally \/ Settle \/ Retry
    \/ (\E e \in Targets : Join(e) \/ FailEngine(e))
    \/ Failing \/ FailDocument \/ RowIsMissing \/ Finally

-----------------------------------------------------------------------------
(* The API thread: cancel_job and delete_document. *)

Active(row) == row.stored /\ row.status \notin Terminal \cup {"none"} /\ ~row.detached

(* What delete_or_schedule takes as data to delete. *)
Schedule(status) == IF status \in {"done", "indexing", "failed"} THEN 1 ELSE 0

(* One step of the API thread that leaves the rows to the other operators. *)
ApiStep(from, to) ==
    /\ pc["api"] = from
    /\ Goto("api", to)
    /\ UNCHANGED <<saving, copies, outcome, verdict, faults>>

Request(kind) ==
    /\ requests.cancel + requests.delete < MaxRequests
    /\ requests' = [requests EXCEPT ![kind] = @ + 1]
    /\ request' = kind
    /\ \/ kind = "cancel" /\ ApiStep("idle", "cancel") /\ UNCHANGED dsnap
       \/ kind = "delete" /\ doc.stored /\ ApiStep("idle", "list") /\ dsnap' = doc
    /\ UNCHANGED <<rows, stores, deletions, flag, todo, snap>>

(* cancel_document_jobs looks for active jobs of the document; without one
   the rows of its jobs are dropped later. *)
List ==
    /\ ApiStep("list", IF Active(meta) THEN "cancel" ELSE "schedule")
    /\ request' = IF Active(meta) THEN "delete" ELSE "drop"
    /\ UNCHANGED <<rows, stores, deletions, flag, todo, snap, dsnap, requests>>

Ended(kind) == IF kind = "cancel" THEN "idle" ELSE "detach"

(* cancel_job reads the row once and works with what it read. *)
ReadJob ==
    /\ ApiStep("cancel", IF ~Whole THEN IF request = "cancel" THEN "idle" ELSE "schedule"
                         ELSE IF meta.status \in Terminal THEN Ended(request)
                         ELSE "flag")
    /\ snap' = meta
    /\ request' = IF ~Whole /\ request = "delete" THEN "drop" ELSE request
    /\ UNCHANGED <<rows, stores, deletions, flag, todo, dsnap, requests>>

Flag ==
    /\ ApiStep("flag", "cancelRow")
    /\ flag' = TRUE
    /\ todo' = [todo EXCEPT !["api"] = Targets]
    /\ UNCHANGED <<rows, stores, deletions, api>>

CancelRow == UpdateMeta("api", "cancelRow", LAMBDA row : SetStatus(row, "cancelled"), "visit")

(* The engines in any order; data of a completed engine is removed first,
   unless the deletion of the document will do it. *)
CancelEngine(e) ==
    \/ /\ pc["api"] = "visit"
       /\ e \in todo["api"]
       /\ todo' = [todo EXCEPT !["api"] = @ \ {e}]
       /\ ApiStep("visit", IF snap[e] = "failed" \/ (snap[e] = "done" /\ request = "delete")
                           THEN "visit" ELSE Void[e])
       /\ IF snap[e] = "done" /\ request = "cancel"
          THEN /\ graph' = (graph /\ e # "legacy")
               /\ deletions' = deletions + IF e = "lightrag" /\ doc.stored
                                           THEN Schedule(doc.lightrag) ELSE 0
          ELSE UNCHANGED <<graph, deletions>>
       /\ UNCHANGED <<rows, light, blobs, flag, api>>
    \/ SetEngine("api", e, "cancelled", Void[e], VoidDoc[e], "visit")

Visited ==
    /\ todo["api"] = {}
    /\ ApiStep("visit", Ended(request))
    /\ UNCHANGED <<rows, stores, deletions, flag, todo, api>>

Detach ==
    UpdateMeta("api", "detach",
               LAMBDA row : [row EXCEPT !.status = "cancelled", !.detached = TRUE], "purge")

(* purge_cancelled_job_artifacts, under the lock of the artifacts but not of
   the rows. *)
Purge ==
    \/ /\ ArtifactFree("api")
       /\ ApiStep("purge", IF Whole /\ meta.status = "cancelled" THEN "tombstone" ELSE "schedule")
       /\ snap' = meta
       /\ UNCHANGED <<rows, stores, deletions, flag, todo, dsnap, request, requests>>
    \/ /\ ApiStep("tombstone", "schedule")
       /\ blobs' = blobs \ snap.files
       /\ meta' = [Blank EXCEPT !.status = "cancelled", !.detached = snap.detached]
       /\ UNCHANGED <<doc, graph, light, deletions, flag, todo, api>>

ScheduleDelete ==
    /\ ApiStep("schedule", "unpublish")
    /\ deletions' = deletions + Schedule(dsnap.lightrag)
    /\ UNCHANGED <<rows, stores, flag, todo, api>>

Unpublish == SetGraph("api", "unpublish", FALSE, IF request = "drop" THEN "jobs" ELSE "row")

(* The jobs of the document that were not cancelled just now. *)
DropJob ==
    \/ /\ ApiStep("jobs", IF Whole /\ ~meta.detached THEN "drop" ELSE "row")
       /\ snap' = meta
       /\ UNCHANGED <<rows, stores, deletions, flag, todo, dsnap, request, requests>>
    \/ /\ ApiStep("drop", "row")
       /\ blobs' = blobs \ snap.files
       /\ meta' = NoRow
       /\ UNCHANGED <<doc, graph, light, deletions, flag, todo, api>>

DeleteRow ==
    /\ ApiStep("row", "idle")
    /\ doc' = [doc EXCEPT !.stored = FALSE]
    /\ UNCHANGED <<meta, stores, deletions, flag, todo, api>>

Api ==
    \/ Request("cancel") \/ Request("delete")
    \/ List \/ ReadJob \/ Flag \/ CancelRow \/ (\E e \in Engines : CancelEngine(e)) \/ Visited
    \/ Detach \/ Purge \/ ScheduleDelete \/ Unpublish \/ DropJob \/ DeleteRow

(* A scheduled deletion: the queue holds it back while a job of the tenant is
   in the pipeline, a local thread does not wait. *)
DeleteLight ==
    /\ deletions > 0
    /\ Distributed => pc["main"] \in {"start", "over"}
    /\ deletions' = deletions - 1
    /\ light' = FALSE
    /\ UNCHANGED <<rows, graph, blobs, flag, pc, saving, copies, worker, api, faults>>

Child(e) == Return(e) \/ Raise(e) \/ ChildFails(e)

Next ==
    \/ Pipeline \/ ParserFails
    \/ RunLegacy \/ RunLightrag \/ (\E e \in Engines : Child(e))
    \/ Api \/ DeleteLight

Spec == Init /\ [][Next /\ UNCHANGED scenario]_<<vars, scenario>>

Fairness ==
    /\ WF_vars(Pipeline) /\ WF_vars(RunLegacy) /\ WF_vars(RunLightrag)
    /\ \A e \in Engines : WF_vars(Return(e) \/ Raise(e))
    /\ WF_vars(Api) /\ WF_vars(DeleteLight)

-----------------------------------------------------------------------------
TypeOK ==
    /\ meta \in Rows /\ doc \in DocRows /\ snap \in Rows /\ dsnap \in DocRows
    /\ graph \in BOOLEAN /\ light \in BOOLEAN /\ flag \in BOOLEAN
    /\ blobs \subseteq Files
    /\ deletions \in 0..MaxRequests
    /\ saving \in [Actors -> {"no", "written", "checked"}]
    /\ copy \in [Actors -> Rows \cup {NoCopy}]
    /\ dcopy \in [Actors -> DocRows \cup {NoCopy}]
    /\ outcome \in [Engines -> {"running", "done", "cancelled", "failed"}]
    /\ verdict \in Statuses
    /\ todo \in [{"main", "api"} -> SUBSET Engines]
    /\ request \in {"none", "cancel", "delete", "drop"}
    /\ requests \in [cancel : 0..MaxRequests, delete : 0..MaxRequests]
    /\ faults \in 0..MaxFaults

Quiet == pc["main"] = "over" /\ pc["api"] = "idle" /\ deletions = 0
Deleted == requests.delete > 0 /\ pc["api"] = "idle"

(* A deleted document is not in LightRAG afterwards, however its deletion
   interleaves with the job: "a queued or already-running Worker ... cannot
   resurrect either index". *)
LightGone == Quiet /\ Deleted => ~light

(* A job for LightRAG alone leaves the healthy classic index in place, however
   it fails or is cancelled. *)
ClassicKept ==
    Targets = {"lightrag"} /\ requests.delete = 0 => graph /\ doc.legacy = "done"

(* What the parent reports is what its engines achieved, and what an engine
   reports is in its store, when some fail and nobody interferes; only a failure
   leaves data in the graph that no engine reports (README, P8). *)
VerdictIsTrue ==
    pc["main"] = "over" /\ requests.cancel + requests.delete = 0 =>
        /\ meta.status = "done" <=> \A e \in Targets : doc[e] = "done"
        /\ meta.status = "partial" <=> {doc[e] : e \in Targets} = {"done", "failed"}
        /\ \A e \in Targets : meta[e] = doc[e]
        /\ doc.legacy = "done" => graph
        /\ faults = 0 /\ graph => doc.legacy = "done"
        /\ doc.lightrag = "done" => light

(* Neither engine answers for the other. *)
EnginesApart == TypeOK /\ ClassicKept /\ VerdictIsTrue

(* The pipeline always comes to its end: the locks of its threads and of the
   API do not block each other, and every child is waited for and reported. *)
PipelineEnds == <>[](pc["main"] = "over")

-----------------------------------------------------------------------------
(* Statements of comments and documents that the code does not keep.  They are
   not checked: a run with one of them ends in the trace README.md tells. *)

(* Nor is anything derived from it left in the blob store, or its own row. *)
BlobsGone == Quiet /\ Deleted => blobs = {}
RowGone == Quiet /\ Deleted => ~doc.stored

(* Once everything is at rest the classic graph is there exactly when its
   state says so: graph and engine state stay symmetric under cancellation. *)
GraphFollowsState == Quiet /\ doc.stored => (graph <=> doc.legacy = "done")

(* A job is failed only by something that failed, not by its cancellation. *)
FailsByFault == faults = 0 /\ doc.stored => meta.status # "failed"

(* "Completed/failed parents are immutable": a late cancellation leaves them. *)
FinishedIsFinal ==
    [][meta.status \in {"done", "partial", "failed"} /\ meta'.stored
         => meta'.status = meta.status]_vars

(* The status of a document is that of its classic index, also after a job
   for the other engine. *)
StatusFollowsClassic ==
    Quiet /\ doc.stored => (doc.status = "indexed" <=> doc.legacy = "done")
=============================================================================
