----------------------------- MODULE IndexWorker -----------------------------
(***************************************************************************)
(* The consumers of the durable indexing queue: any number of processes    *)
(* (the long-running worker and the dispatcher's /run-next calls) that run *)
(* process_next_index_job against the Redis structures of JobQueue and the *)
(* job rows of the application store, while the gateway submits and        *)
(* cancels jobs, processes crash and leases and locks run out.             *)
(*                                                                         *)
(* One action is one call on Redis or on the job row, with the local       *)
(* computation up to the next call.  Every write of a row loads and saves  *)
(* the whole row under a lock of its own process.  A write of the status   *)
(* does not depend on what it loaded and is one step; a write of an engine *)
(* or of the progress puts back the status it loaded, and is two.  The     *)
(* pipeline is reduced to its checkpoints and these writes: "running"      *)
(* stands for parsing and indexing, "done" for done and partial.           *)
(***************************************************************************)
EXTENDS JobQueue

CONSTANTS Workers,      \* consumer processes
          OwnerOf,      \* the tenant each job belongs to
          DeleteJobs,   \* the jobs of type lightrag_delete
          Cancellable,  \* the jobs a user may cancel
          EngineRows,   \* the engines of a job, each a part of its row
          MaxFaults     \* bound on crashes, exceptions and failed calls

ASSUME WorkerAssumption == /\ OwnerOf \in [Jobs -> Owners]
                           /\ DeleteJobs \subseteq Jobs
                           /\ Cancellable \subseteq Jobs \ DeleteJobs
                           /\ EngineRows \in Nat
                           /\ MaxFaults \in Nat

VARIABLES status,     \* the status column of each job row
          gateway,    \* how far the submission of each job has come
          cancelling, \* jobs whose cancellation has read the row, not yet written
          rewrites,   \* the engines each handler of the API has yet to write
          copy,       \* the status it loaded with the row, to save it again
          pc,         \* the next call of each worker
          claim,      \* the receipt a worker popped
          todo,       \* job rows it still has to mark after a recovery pass
          heartbeat,  \* its renewal thread is alive
          flag,       \* the in-process cancel flag of the job it runs
          held,       \* the status a worker loaded with a row it will save
          faults,     \* faults so far
          breach,     \* history: tenants whose running job lost its renewals
          dropped,    \* history: jobs whose "failed" marks died with a worker
          stale       \* history: jobs whose status the API put back by a save

handlerVars == <<cancelling, rewrites, copy>>
rowVars == <<status, gateway, handlerVars>>
workerVars == <<pc, claim, todo, heartbeat, flag, held>>
historyVars == <<faults, breach, dropped, stale>>
vars == <<queueVars, ownerLock, rowVars, workerVars, historyVars>>

None == [job |-> NoJob, attempt |-> 0]

Statuses == {"absent", "queued", "running", "done", "failed", "cancelled"}
Terminal(s) == s \in {"done", "failed", "cancelled"}

(* The program points between taking the owner lock and giving it back. *)
Inside == {"start", "parse", "parsing", "work", "finish", "handler", "release"}
Stages == Inside \cup
    {"idle", "mark", "marking", "marked", "pop", "lookup", "lock", "return", "requeued",
     "deleting", "ack"}

Job(w) == claim[w].job
Owner(w) == OwnerOf[Job(w)]
Runs(w) == pc[w] \in Inside

Mark == [job : Jobs, as : {"queued", "failed"}]

(* The two handlers of the API that write rows engine by engine. *)
Handlers == {"submit", "cancel"} \X Jobs
NoCopy == "none"

TypeOK ==
    /\ QueueTypeOK
    /\ status \in [Jobs -> Statuses]
    /\ gateway \in [Jobs -> {"new", "saved", "sent", "refused", "failed"}]
    /\ cancelling \subseteq Cancellable
    /\ rewrites \in [Handlers -> 0..EngineRows]
    /\ copy \in [Handlers -> Statuses \cup {NoCopy}]
    /\ pc \in [Workers -> Stages]
    /\ claim \in [Workers -> Receipt \cup {None}]
    /\ todo \in [Workers -> Seq(Mark)]
    /\ heartbeat \in [Workers -> BOOLEAN]
    /\ flag \in [Workers -> BOOLEAN]
    /\ held \in [Workers -> Statuses \cup {NoCopy}]
    /\ faults \in 0..MaxFaults
    /\ breach \subseteq Owners
    /\ dropped \subseteq Jobs
    /\ stale \subseteq Jobs
    /\ \A w \in Workers :
         pc[w] \in Stages \ {"idle", "mark", "marking", "marked", "pop"} => claim[w] # None

Init ==
    /\ QueueInit
    /\ status = [j \in Jobs |-> "absent"]
    /\ gateway = [j \in Jobs |-> "new"]
    /\ cancelling = {}
    /\ rewrites = [h \in Handlers |-> 0]
    /\ copy = [h \in Handlers |-> NoCopy]
    /\ pc = [w \in Workers |-> "idle"]
    /\ claim = [w \in Workers |-> None]
    /\ todo = [w \in Workers |-> <<>>]
    /\ heartbeat = [w \in Workers |-> FALSE]
    /\ flag = [w \in Workers |-> FALSE]
    /\ held = [w \in Workers |-> NoCopy]
    /\ faults = 0
    /\ breach = {}
    /\ dropped = {}
    /\ stale = {}

Goto(w, p) == pc' = [pc EXCEPT ![w] = p]
Write(j, s) == status' = [status EXCEPT ![j] = s]

-----------------------------------------------------------------------------
(* The gateway. *)

(* start_indexing and delete_or_schedule save the row before the LPUSH. *)
SaveJob(j) ==
    /\ gateway[j] = "new"
    /\ gateway' = [gateway EXCEPT ![j] = "saved"]
    /\ Write(j, "queued")
    /\ UNCHANGED <<queueVars, ownerLock, handlerVars, workerVars, historyVars>>

SendJob(j) ==
    /\ gateway[j] = "saved"
    /\ gateway' = [gateway EXCEPT ![j] = "sent"]
    /\ Enqueue([job |-> j, attempt |-> 0])
    /\ UNCHANGED <<ownerLock, status, handlerVars, workerVars, historyVars>>

(* The LPUSH is a REST call: when it raises, it was refused or only its
   answer is lost. *)
PushRaises(j) ==
    /\ gateway[j] = "saved"
    /\ faults < MaxFaults
    /\ faults' = faults + 1
    /\ gateway' = [gateway EXCEPT ![j] = "refused"]
    /\ Enqueue([job |-> j, attempt |-> 0]) \/ UNCHANGED queueVars
    /\ UNCHANGED <<ownerLock, status, handlerVars, workerVars, breach, dropped, stale>>

(* The exception handler of start_indexing marks the row failed, then its
   engines; the row of a deletion keeps saying queued. *)
FailRefused(j) ==
    /\ gateway[j] = "refused"
    /\ j \notin DeleteJobs
    /\ gateway' = [gateway EXCEPT ![j] = "failed"]
    /\ Write(j, "failed")
    /\ rewrites' = [rewrites EXCEPT ![<<"submit", j>>] = EngineRows]
    /\ UNCHANGED <<queueVars, ownerLock, cancelling, copy, workerVars, historyVars>>

(* cancel_job reads the row once, and writes it in a later call; it then
   writes the engines.  One cancellation of a job at a time. *)
ReadCancel(j) ==
    /\ j \in Cancellable \ cancelling
    /\ rewrites[<<"cancel", j>>] = 0
    /\ status[j] \in {"queued", "running"}
    /\ cancelling' = cancelling \cup {j}
    /\ UNCHANGED <<queueVars, ownerLock, status, gateway, rewrites, copy, workerVars, historyVars>>

WriteCancel(j) ==
    /\ j \in cancelling
    /\ cancelling' = cancelling \ {j}
    /\ Write(j, "cancelled")
    /\ rewrites' = [rewrites EXCEPT ![<<"cancel", j>>] = EngineRows]
    /\ UNCHANGED <<queueVars, ownerLock, gateway, copy, workerVars, historyVars>>

(* _update_engine_meta in the API: the whole row is loaded, and saved with the
   status it had then.  An engine that is disabled, failed or done is left out. *)
LoadRow(h) ==
    /\ rewrites[h] > 0
    /\ copy[h] = NoCopy
    /\ copy' = [copy EXCEPT ![h] = status[h[2]]]
    /\ UNCHANGED <<queueVars, ownerLock, status, gateway, cancelling, rewrites, workerVars, historyVars>>

SkipRow(h) ==
    /\ rewrites[h] > 0
    /\ copy[h] = NoCopy
    /\ rewrites' = [rewrites EXCEPT ![h] = @ - 1]
    /\ UNCHANGED <<queueVars, ownerLock, status, gateway, cancelling, copy, workerVars, historyVars>>

SaveRow(h) ==
    /\ rewrites[h] > 0
    /\ copy[h] # NoCopy
    /\ Write(h[2], copy[h])
    /\ stale' = IF copy[h] = status[h[2]] THEN stale ELSE stale \cup {h[2]}
    /\ copy' = [copy EXCEPT ![h] = NoCopy]
    /\ rewrites' = [rewrites EXCEPT ![h] = @ - 1]
    /\ UNCHANGED <<queueVars, ownerLock, gateway, cancelling, workerVars, faults, breach, dropped>>

-----------------------------------------------------------------------------
(* The recovery pass that opens process_next_index_job. *)

RecoverExpired(w) ==
    /\ pc[w] = "idle"
    /\ \E B \in SUBSET expired :
         /\ RecoverBatch(B)
         /\ \E again \in Listings(Retryable(B)), spent \in Listings(B \ Retryable(B)) :
              /\ Recover(B, again)
              /\ todo' = [todo EXCEPT ![w] =
                   [i \in DOMAIN again |-> [job |-> again[i].job, as |-> "queued"]]
                   \o [i \in DOMAIN spent |-> [job |-> spent[i].job, as |-> "failed"]]]
    /\ Goto(w, "mark")
    /\ UNCHANGED <<ownerLock, rowVars, claim, heartbeat, flag, held, historyVars>>

(* Variant: a finished row is not recognised. *)
SettledOrCancelled(j) == status[j] \in {"absent", "cancelled"}

(* Both loops leave done, partial and cancelled rows alone, not failed ones. *)
Settled(j) == status[j] \in {"absent", "done", "cancelled"}

SkipMark(w) ==
    /\ pc[w] = "mark"
    /\ todo[w] # <<>>
    /\ Settled(Head(todo[w]).job)
    /\ todo' = [todo EXCEPT ![w] = Tail(@)]
    /\ UNCHANGED <<queueVars, ownerLock, rowVars, pc, claim, heartbeat, flag, held, historyVars>>

ReadMark(w) ==
    /\ pc[w] = "mark"
    /\ todo[w] # <<>>
    /\ ~Settled(Head(todo[w]).job)
    /\ Goto(w, "marking")
    /\ UNCHANGED <<queueVars, ownerLock, rowVars, claim, todo, heartbeat, flag, held, historyVars>>

(* A parent that is given up is followed by its engines. *)
WriteMark(w) ==
    /\ pc[w] = "marking"
    /\ LET m == Head(todo[w]) IN
         /\ Write(m.job, m.as)
         /\ IF m.as = "failed" /\ m.job \notin DeleteJobs
              THEN Goto(w, "marked") /\ UNCHANGED todo
              ELSE Goto(w, "mark") /\ todo' = [todo EXCEPT ![w] = Tail(@)]
    /\ UNCHANGED <<queueVars, ownerLock, gateway, handlerVars, claim, heartbeat, flag, held, historyVars>>

EndMark(w) ==
    /\ pc[w] = "marked"
    /\ held[w] = NoCopy
    /\ todo' = [todo EXCEPT ![w] = Tail(@)]
    /\ Goto(w, "mark")
    /\ UNCHANGED <<queueVars, ownerLock, rowVars, claim, heartbeat, flag, held, historyVars>>

-----------------------------------------------------------------------------
(* The claim and the decision what to do with it. *)

PopNothing(w) ==
    /\ pc[w] = "mark" /\ todo[w] = <<>>
    /\ queue = <<>>
    /\ Goto(w, "idle")
    /\ UNCHANGED <<queueVars, ownerLock, rowVars, claim, todo, heartbeat, flag, held, historyVars>>

Pop(w) ==
    /\ pc[w] = "mark" /\ todo[w] = <<>>
    /\ Claim
    /\ claim' = [claim EXCEPT ![w] = Head(queue)]
    /\ Goto(w, "lookup")
    /\ UNCHANGED <<ownerLock, rowVars, todo, heartbeat, flag, held, historyVars>>

(* A missing or terminal row is acknowledged without running anything. *)
LookupTerminal(w) ==
    /\ pc[w] = "lookup"
    /\ Job(w) \notin DeleteJobs
    /\ status[Job(w)] = "absent" \/ Terminal(status[Job(w)])
    /\ Goto(w, "ack")
    /\ UNCHANGED <<queueVars, ownerLock, rowVars, claim, todo, heartbeat, flag, held, historyVars>>

LookupActive(w) ==
    /\ pc[w] = "lookup"
    /\ Job(w) \notin DeleteJobs
    /\ status[Job(w)] \in {"queued", "running"}
    /\ Goto(w, "lock")
    /\ UNCHANGED <<queueVars, ownerLock, rowVars, claim, todo, heartbeat, flag, held, historyVars>>

(* Variant: the renewal thread is never started. *)
LockTakenUnrenewed(w) ==
    /\ pc[w] = "lock"
    /\ TakeLock(Owner(w), Job(w))
    /\ Goto(w, "start")
    /\ UNCHANGED <<queueVars, rowVars, claim, todo, heartbeat, flag, held, historyVars>>

(* The renewal thread starts with the lock, before any further call. *)
LockTaken(w) ==
    /\ pc[w] = "lock"
    /\ TakeLock(Owner(w), Job(w))
    /\ heartbeat' = [heartbeat EXCEPT ![w] = TRUE]
    /\ Goto(w, "start")
    /\ UNCHANGED <<queueVars, rowVars, claim, todo, flag, held, historyVars>>

LockBusy(w) ==
    /\ pc[w] = "lock"
    /\ ~LockFree(Owner(w))
    /\ Goto(w, "return")
    /\ UNCHANGED <<queueVars, ownerLock, rowVars, claim, todo, heartbeat, flag, held, historyVars>>

(* Variant: waiting for the tenant's lock spends a recovery attempt. *)
RequeueSpendingAttempt(w) ==
    /\ pc[w] = "return"
    /\ claim[w].attempt < MaxRecoveries
    /\ Enqueue(Retried(claim[w]))
    /\ Goto(w, "requeued")
    /\ UNCHANGED <<ownerLock, rowVars, claim, todo, heartbeat, flag, held, historyVars>>

(* The claim goes back to the list, attempt number and all ... *)
Requeue(w) ==
    /\ pc[w] = "return"
    /\ Enqueue(claim[w])
    /\ Goto(w, "requeued")
    /\ UNCHANGED <<ownerLock, rowVars, claim, todo, heartbeat, flag, held, historyVars>>

(* ... and the row is marked queued whatever it holds by now. *)
MarkRequeued(w) ==
    /\ pc[w] = "requeued"
    /\ Write(Job(w), "queued")
    /\ Goto(w, "ack")
    /\ UNCHANGED <<queueVars, ownerLock, gateway, handlerVars, claim, todo, heartbeat, flag, held, historyVars>>

AckClaim(w) ==
    /\ pc[w] = "ack"
    /\ Ack(claim[w])
    /\ claim' = [claim EXCEPT ![w] = None]
    /\ Goto(w, "idle")
    /\ UNCHANGED <<ownerLock, rowVars, todo, heartbeat, flag, held, historyVars>>

-----------------------------------------------------------------------------
(* The run of an index job under the owner lock. *)

(* run_queued_job reads the row again and clears the cancel flag. *)
StartTerminal(w) ==
    /\ pc[w] = "start"
    /\ Terminal(status[Job(w)])
    /\ Goto(w, "release")
    /\ UNCHANGED <<queueVars, ownerLock, rowVars, claim, todo, heartbeat, flag, held, historyVars>>

StartRun(w) ==
    /\ pc[w] = "start"
    /\ ~Terminal(status[Job(w)])
    /\ flag' = [flag EXCEPT ![w] = FALSE]
    /\ Goto(w, "parse")
    /\ UNCHANGED <<queueVars, ownerLock, rowVars, claim, todo, heartbeat, held, historyVars>>

Cancelled(w) == flag[w] \/ status[Job(w)] = "cancelled"

(* A checkpoint that sees the cancellation writes the row and stops. *)
StopCancelled(w) ==
    /\ pc[w] \in {"parse", "work"}
    /\ held[w] = NoCopy
    /\ Cancelled(w)
    /\ Write(Job(w), "cancelled")
    /\ Goto(w, "release")
    /\ UNCHANGED <<queueVars, ownerLock, gateway, handlerVars, claim, todo, heartbeat, flag, held, historyVars>>

(* A checkpoint that does not see it goes on to a write of the row. *)
PassCheckpoint(w) ==
    /\ pc[w] \in {"parse", "work"}
    /\ held[w] = NoCopy
    /\ ~Cancelled(w)
    /\ Goto(w, IF pc[w] = "parse" THEN "parsing" ELSE "finish")
    /\ UNCHANGED <<queueVars, ownerLock, rowVars, claim, todo, heartbeat, flag, held, historyVars>>

WriteRunning(w) ==
    /\ pc[w] = "parsing"
    /\ Write(Job(w), "running")
    /\ Goto(w, "work")
    /\ UNCHANGED <<queueVars, ownerLock, gateway, handlerVars, claim, todo, heartbeat, flag, held, historyVars>>

(* The last write of the pipeline. *)
WriteOutcome(w) ==
    /\ pc[w] = "finish"
    /\ \E s \in {"done", "failed"} : Write(Job(w), s)
    /\ Goto(w, "release")
    /\ UNCHANGED <<queueVars, ownerLock, gateway, handlerVars, claim, todo, heartbeat, flag, held, historyVars>>

(* Its exception handler marks the row failed, then its engines. *)
FailRun(w) ==
    /\ pc[w] \in {"parse", "work"}
    /\ held[w] = NoCopy
    /\ Write(Job(w), "failed")
    /\ Goto(w, "handler")
    /\ UNCHANGED <<queueVars, ownerLock, gateway, handlerVars, claim, todo, heartbeat, flag, held, historyVars>>

(* The writes of the worker that put back the status they loaded: of an engine
   while it works or gives a job up, of the progress, of an artifact. *)
RowOf(w) == IF pc[w] = "marked" THEN Head(todo[w]).job ELSE Job(w)

LoadEngineRow(w) ==
    /\ pc[w] \in {"marked", "work", "handler"}
    /\ held[w] = NoCopy
    /\ held' = [held EXCEPT ![w] = status[RowOf(w)]]
    /\ UNCHANGED <<queueVars, ownerLock, rowVars, pc, claim, todo, heartbeat, flag, historyVars>>

SaveEngineRow(w) ==
    /\ pc[w] \in {"marked", "work", "handler"}
    /\ held[w] # NoCopy
    /\ Write(RowOf(w), held[w])
    /\ held' = [held EXCEPT ![w] = NoCopy]
    /\ UNCHANGED <<queueVars, ownerLock, gateway, handlerVars, pc, claim, todo, heartbeat, flag, historyVars>>

Release(w) ==
    /\ pc[w] \in {"handler", "release"}
    /\ held[w] = NoCopy
    /\ ReleaseLock(Owner(w), Job(w))
    /\ heartbeat' = [heartbeat EXCEPT ![w] = FALSE]
    /\ Goto(w, "ack")
    /\ UNCHANGED <<queueVars, rowVars, claim, todo, flag, held, historyVars>>

(* The renewal thread ends: the lock is no longer this job's, the lease is
   gone, or the call failed.  The first and the last set the cancel flag. *)
HeartbeatEnds(w) ==
    /\ Runs(w) /\ heartbeat[w]
    /\ \/ /\ ~LockIsMine(Owner(w), Job(w))
          /\ flag' = [flag EXCEPT ![w] = TRUE]
          /\ UNCHANGED faults
       \/ /\ LockIsMine(Owner(w), Job(w)) /\ ~LeaseIsHeld(claim[w])
          /\ UNCHANGED <<flag, faults>>
       \/ /\ faults < MaxFaults
          /\ faults' = faults + 1
          /\ flag' = [flag EXCEPT ![w] = TRUE]
    /\ heartbeat' = [heartbeat EXCEPT ![w] = FALSE]
    /\ breach' = breach \cup {Owner(w)}
    /\ UNCHANGED <<queueVars, ownerLock, rowVars, pc, claim, todo, held, dropped, stale>>

-----------------------------------------------------------------------------
(* A LightRAG deletion: no owner lock, no renewals, no look at the row. *)

StartDelete(w) ==
    /\ pc[w] = "lookup"
    /\ Job(w) \in DeleteJobs
    /\ Write(Job(w), "running")
    /\ Goto(w, "deleting")
    /\ UNCHANGED <<queueVars, ownerLock, gateway, handlerVars, claim, todo, heartbeat, flag, held, historyVars>>

DeleteDone(w) ==
    /\ pc[w] = "deleting"
    /\ Write(Job(w), "done")
    /\ Goto(w, "ack")
    /\ UNCHANGED <<queueVars, ownerLock, gateway, handlerVars, claim, todo, heartbeat, flag, held, historyVars>>

(* The row says queued and the exception leaves the receipt leased. *)
DeleteFails(w) ==
    /\ pc[w] = "deleting"
    /\ faults < MaxFaults
    /\ faults' = faults + 1
    /\ Write(Job(w), "queued")
    /\ claim' = [claim EXCEPT ![w] = None]
    /\ Goto(w, "idle")
    /\ UNCHANGED <<queueVars, ownerLock, gateway, handlerVars, todo, heartbeat, flag, held, breach, dropped, stale>>

-----------------------------------------------------------------------------
(* Faults and the passing of time. *)

(* The process dies and is restarted, or an exception leaves the call: what
   is in Redis and in the rows stays.  An exception inside the run passes the
   finally clause, which gives the lock back. *)
Crash(w) ==
    /\ pc[w] # "idle"
    /\ faults < MaxFaults
    /\ faults' = faults + 1
    /\ \/ UNCHANGED ownerLock
       \/ Runs(w) /\ ReleaseLock(Owner(w), Job(w))
    /\ Goto(w, "idle")
    /\ claim' = [claim EXCEPT ![w] = None]
    /\ todo' = [todo EXCEPT ![w] = <<>>]
    /\ heartbeat' = [heartbeat EXCEPT ![w] = FALSE]
    /\ flag' = [flag EXCEPT ![w] = FALSE]
    /\ held' = [held EXCEPT ![w] = NoCopy]
    /\ dropped' = dropped \cup {m.job : m \in {todo[w][i] : i \in DOMAIN todo[w]}}
    /\ UNCHANGED <<queueVars, rowVars, breach, stale>>

(* Renewals every 60 seconds beat a lease of at least 60 and a lock of at
   least 120; the calls around a run are short beside both.  What runs out is
   therefore what no live renewal covers. *)
Covers(w, r) ==
    /\ claim[w] = r
    /\ pc[w] # "deleting"
    /\ Runs(w) => heartbeat[w]

TimePassesLease(r) ==
    /\ ~\E w \in Workers : Covers(w, r)
    /\ LeaseExpires(r)
    /\ UNCHANGED <<ownerLock, rowVars, workerVars, historyVars>>

TimePassesLock(o) ==
    /\ ~\E w \in Workers : Runs(w) /\ heartbeat[w] /\ Job(w) = ownerLock[o]
    /\ LockExpires(o)
    /\ UNCHANGED <<queueVars, rowVars, workerVars, historyVars>>

-----------------------------------------------------------------------------
Gateway(j) ==
    \/ SaveJob(j) \/ SendJob(j) \/ PushRaises(j) \/ FailRefused(j)
    \/ ReadCancel(j) \/ WriteCancel(j)

Handle(h) == LoadRow(h) \/ SkipRow(h) \/ SaveRow(h)

Decide(w) ==
    \/ RecoverExpired(w) \/ SkipMark(w) \/ ReadMark(w) \/ WriteMark(w) \/ EndMark(w)
    \/ PopNothing(w) \/ Pop(w) \/ LookupTerminal(w) \/ LookupActive(w)
    \/ LockTaken(w) \/ LockBusy(w) \/ Requeue(w) \/ MarkRequeued(w) \/ AckClaim(w)

Run(w) ==
    \/ StartTerminal(w) \/ StartRun(w) \/ StopCancelled(w) \/ PassCheckpoint(w)
    \/ WriteRunning(w) \/ WriteOutcome(w) \/ FailRun(w) \/ Release(w)
    \/ StartDelete(w) \/ DeleteDone(w)

Rewrite(w) == LoadEngineRow(w) \/ SaveEngineRow(w)

Fault(w) == HeartbeatEnds(w) \/ DeleteFails(w) \/ Crash(w)

Next ==
    \/ \E j \in Jobs : Gateway(j)
    \/ \E h \in Handlers : Handle(h)
    \/ \E w \in Workers : Decide(w) \/ Run(w) \/ Rewrite(w) \/ Fault(w)
    \/ \E r \in processing : TimePassesLease(r)
    \/ \E o \in Owners : TimePassesLock(o)

Spec == Init /\ [][Next]_vars

(* Every process keeps taking its next call, the pipeline and the deletion
   service return (strong, because the pipeline may report any number of times,
   but not for ever), and leases and locks that nothing renews run out.  Nothing
   forces a fault, a cancellation, a submission or a handler of the API. *)
Fairness ==
    /\ \A w \in Workers : SF_vars(Decide(w) \/ Run(w)) /\ WF_vars(SaveEngineRow(w))
    /\ \A r \in Receipt : WF_vars(TimePassesLease(r))
    /\ \A o \in Owners : WF_vars(TimePassesLock(o))

FairSpec == Spec /\ Fairness

-----------------------------------------------------------------------------
(* Two jobs of one tenant are never inside the pipeline together, unless a
   run of that tenant lost its renewals while it went on: the reason for the
   owner lock and for _owner_lock_heartbeat. *)
OwnerExclusion ==
    \A w1, w2 \in Workers :
        w1 # w2 /\ Runs(w1) /\ Runs(w2) /\ Owner(w1) = Owner(w2) =>
            Owner(w1) \in breach

(* The abstract lock service, seen through the workers inside the pipeline. *)
InsideOf == [o \in Owners |-> {w \in Workers : Runs(w) /\ Owner(w) = o}]
Mutex == INSTANCE TenantMutex WITH inside <- InsideOf

(* Every step of the workers is a step of the lock service or leaves it be. *)
ImplementsMutex == Mutex!Spec

Copies(j) == {r \in processing \cup {queue[i] : i \in DOMAIN queue} : r.job = j}
MarkPending(j) ==
    \E w \in Workers : \E i \in DOMAIN todo[w] : todo[w][i] = [job |-> j, as |-> "failed"]

InHand(j) == Copies(j) # {} \/ (\E w \in Workers : Job(w) = j) \/ MarkPending(j)

(* The submission of a job is over: its push was confirmed, or its row failed. *)
Submitted(j) == gateway[j] \in {"sent", "failed"}

(* With one consumer, a job whose submission is over and whose row is not
   terminal has a receipt in Redis, or the worker has it in hand or is about to
   mark it failed.  This holds for a refused job that runs all the same, because
   only the answer of its push was lost.  The exceptions are jobs whose mark died
   with the worker that had taken their last receipt out of the sorted set, and
   jobs whose row a handler of the API saved with an older status. *)
NoOtherOrphan ==
    \A j \in Jobs :
        Submitted(j) /\ ~Terminal(status[j]) => InHand(j) \/ j \in dropped \cup stale

(* As long as nothing fails no index job spends a recovery attempt: waiting for
   the tenant's lock "without consuming a recovery attempt" never brings a job
   nearer to exhaustion, and neither does a long run.  Deletions are left out:
   their leases are not renewed. *)
AttemptsCostFaults ==
    faults = 0 =>
        \A r \in processing \cup {queue[i] : i \in DOMAIN queue} :
            r.job \notin DeleteJobs => r.attempt = 0

(* A request of the API that may still write the row of a job. *)
ApiBusy(j) ==
    \/ gateway[j] = "refused" \/ j \in cancelling
    \/ rewrites[<<"submit", j>>] > 0 \/ rewrites[<<"cancel", j>>] > 0

(* No consumer takes back a finished index job: with one consumer the owner lock
   and the terminal checks fence every further copy of its receipt.  A row that
   says done is overwritten only by a request that read it before, or whose push
   seemed to fail, or after such a request saved an older status. *)
DoneIsFinal ==
    [][\A j \in Jobs \ DeleteJobs :
          status[j] = "done" /\ status'[j] # "done" => ApiBusy(j) \/ j \in stale]_vars

(* Once the faults are over, every submitted job reaches a terminal row and
   keeps it, unless a request of the API saved an older status over it. *)
EverythingSettles ==
    <>[](\A j \in Jobs :
            Submitted(j) => Terminal(status[j]) \/ j \in dropped \cup stale)

-----------------------------------------------------------------------------
(* Statements of comments and documents that the code does not keep.  A run
   with one of them ends in the trace README.md tells. *)

(* "Completed/failed parents are immutable", as the comment of cancel_job has it:
   a finished index job keeps its row, also when a cancellation is on its way. *)
CompletedIsImmutable ==
    [][\A j \in Jobs \ DeleteJobs : status[j] = "done" => status'[j] = "done"]_vars

(* OwnerExclusion without the exception, as the comments of _owner_lock_heartbeat
   put it: "healthy long-running jobs renew them so a 200MB document cannot
   overlap with a sibling job". *)
NoOverlap ==
    \A w1, w2 \in Workers :
        w1 # w2 /\ Runs(w1) /\ Runs(w2) => Owner(w1) # Owner(w2)

(* NoOtherOrphan without the exceptions, or with two consumers.  An active row without
   a receipt is what start_indexing calls an orphan: it is returned to every
   later submission and no worker will ever finish it. *)
NoOrphan ==
    \A j \in Jobs : Submitted(j) /\ ~Terminal(status[j]) => InHand(j)

(* A cancelled job is not put back to work: the cancelled status of the row is
   what every later consumer of the receipt looks at. *)
CancelledIsFinal ==
    [][\A j \in Jobs :
          status[j] = "cancelled" => status'[j] \notin {"queued", "running"}]_vars
=============================================================================
