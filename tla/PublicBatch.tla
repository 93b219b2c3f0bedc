----------------------------- MODULE PublicBatch -----------------------------
(***************************************************************************)
(* One public question batch in D1 (frontend/worker/public-batches.mjs):   *)
(* detail requests and the background runner claim its items one by one,   *)
(* ask the backend and write the answers, while the visitor cancels, edge  *)
(* isolates stop at any statement and the cleanup deletes expired rows.    *)
(*                                                                         *)
(* One action is one D1 statement (atomic) or one call of the backend.     *)
(* Every request works with the time at which it began: "seen" is the set  *)
(* of claims that had run out by then, "lapsed" those that have by now.    *)
(* An item is claimed at most once in its life, so its identity stands for *)
(* the claim token.                                                        *)
(***************************************************************************)
EXTENDS Naturals, FiniteSets

CONSTANTS Total,      \* number of questions, at least one
          Pollers,    \* concurrent executions of getBatchDetail
          Runner,     \* the one among them started by createBatch
          MaxFaults   \* bound on stopped isolates and failed statements

ASSUME BatchAssumption == /\ Total \in Nat \ {0}
                          /\ Runner \in Pollers
                          /\ MaxFaults \in Nat

Items == 1..Total

VARIABLES item,      \* the status of each item row, "deleted" without a row
          batch,     \* the batch row: status, completed and failed
          stored,    \* the batch row exists
          stale,     \* the rows are past their time to live
          lapsed,    \* items whose claim has run out
          asked,     \* how often the backend was asked each question
          pc,        \* the next statement of each poller
          seen,      \* what had lapsed when its request began
          held,      \* the item it claimed
          answer,    \* what the backend answered it
          before,    \* the runner's count of finished items before its request
          canceller, \* the next statement of cancelBatch
          cleaner,   \* the next statement of maybeCleanupExpired
          faults

rowVars == <<item, batch, stored>>
timeVars == <<stale, lapsed>>
pollVars == <<pc, seen, held, answer, before>>
vars == <<rowVars, timeVars, asked, pollVars, canceller, cleaner, faults>>

ItemStates == {"pending", "running", "done", "failed", "cancelled", "deleted"}
BatchStates == {"submitted", "running", "done", "cancelled"}
Stages == {"idle", "recover", "refresh", "check", "claim", "mark", "ask", "wait",
           "finish", "settle", "compare", "over"}

(* The program points at which a poller has an item of its own. *)
Holding == {"mark", "ask", "wait", "finish"}

TypeOK ==
    /\ item \in [Items -> ItemStates]
    /\ batch \in [status : BatchStates, completed : 0..Total, failed : 0..Total]
    /\ stored \in BOOLEAN /\ stale \in BOOLEAN
    /\ lapsed \subseteq Items
    /\ asked \in [Items -> Nat]
    /\ pc \in [Pollers -> Stages]
    /\ seen \in [Pollers -> SUBSET Items]
    /\ held \in [Pollers -> Items]
    /\ answer \in [Pollers -> {"done", "failed"}]
    /\ before \in 0..2 * Total
    /\ canceller \in {"idle", "batch", "items"}
    /\ cleaner \in {"idle", "batch"}
    /\ faults \in 0..MaxFaults

(* createBatch writes the batch and all its items in one D1 batch. *)
Init ==
    /\ item = [i \in Items |-> "pending"]
    /\ batch = [status |-> "submitted", completed |-> 0, failed |-> 0]
    /\ stored = TRUE /\ stale = FALSE
    /\ lapsed = {}
    /\ asked = [i \in Items |-> 0]
    /\ pc = [p \in Pollers |-> "idle"]
    /\ seen = [p \in Pollers |-> {}]
    /\ held = [p \in Pollers |-> 1]
    /\ answer = [p \in Pollers |-> "failed"]
    /\ before = 0
    /\ canceller = "idle" /\ cleaner = "idle"
    /\ faults = 0

Goto(p, s) == pc' = [pc EXCEPT ![p] = s]

(* The end of getBatchDetail: the runner goes on to compare its progress. *)
Return(p) == Goto(p, IF p = Runner THEN "compare" ELSE "idle")

Over == batch.status \in {"done", "cancelled"}
With(state) == {i \in Items : item[i] \in state}
Finished == batch.completed + batch.failed

-----------------------------------------------------------------------------
(* getBatchDetail. *)

(* Both load the row first; the runner stops at a missing or finished one. *)
Begin(p) ==
    /\ pc[p] = "idle"
    /\ stored
    /\ p = Runner => ~Over
    /\ seen' = [seen EXCEPT ![p] = lapsed]
    /\ before' = IF p = Runner THEN Finished ELSE before
    /\ Goto(p, "recover")
    /\ UNCHANGED <<rowVars, timeVars, asked, held, answer, canceller, cleaner, faults>>

RunnerStops ==
    /\ pc[Runner] = "idle"
    /\ ~stored \/ Over
    /\ Goto(Runner, "over")
    /\ UNCHANGED <<rowVars, timeVars, asked, seen, held, answer, before, canceller, cleaner, faults>>

(* Variant: a claim that ran out goes back to the pending items. *)
ReplayExpiredClaim(p) ==
    /\ pc[p] = "recover"
    /\ item' = [i \in Items |->
         IF item[i] = "running" /\ i \in seen[p] THEN "pending" ELSE item[i]]
    /\ Goto(p, "refresh")
    /\ UNCHANGED <<batch, stored, timeVars, asked, seen, held, answer, before, canceller, cleaner, faults>>

(* Variant: claims that ran out are left alone. *)
RecoverNothing(p) ==
    /\ pc[p] = "recover"
    /\ Goto(p, "refresh")
    /\ UNCHANGED <<rowVars, timeVars, asked, seen, held, answer, before, canceller, cleaner, faults>>

(* A claim that ran out is not retried: its query may have been answered. *)
RecoverExpiredClaim(p) ==
    /\ pc[p] = "recover"
    /\ item' = [i \in Items |->
         IF item[i] = "running" /\ i \in seen[p]
         THEN IF stored /\ batch.status = "cancelled" THEN "cancelled" ELSE "failed"
         ELSE item[i]]
    /\ Goto(p, "refresh")
    /\ UNCHANGED <<batch, stored, timeVars, asked, seen, held, answer, before, canceller, cleaner, faults>>

(* refreshBatchAggregate recounts the items and derives the status. *)
Aggregate ==
    [status |-> IF batch.status = "cancelled" THEN "cancelled"
                ELSE IF Cardinality(With({"done", "failed"})) >= Total THEN "done"
                ELSE IF With({"running", "done", "failed"}) # {} THEN "running"
                ELSE "submitted",
     completed |-> Cardinality(With({"done"})),
     failed |-> Cardinality(With({"failed"}))]

Refresh(p) ==
    /\ \/ pc[p] = "refresh" /\ Goto(p, "check")
       \/ pc[p] = "settle" /\ Return(p)
    /\ batch' = IF stored THEN Aggregate ELSE batch
    /\ UNCHANGED <<item, stored, timeVars, asked, seen, held, answer, before, canceller, cleaner, faults>>

(* The row is read again; a missing one ends the request with an error. *)
Check(p) ==
    /\ pc[p] = "check"
    /\ IF ~stored THEN Goto(p, IF p = Runner THEN "over" ELSE "idle")
       ELSE IF Over THEN Return(p)
       ELSE Goto(p, "claim")
    /\ UNCHANGED <<rowVars, timeVars, asked, seen, held, answer, before, canceller, cleaner, faults>>

(* Variant: CLAIM_NEXT_ITEM without the NOT EXISTS on active claims. *)
ClaimableBesideActive(p, i) ==
    /\ stored /\ ~Over
    /\ item[i] = "pending"
    /\ \A k \in Items : k < i => item[k] # "pending"

(* CLAIM_NEXT_ITEM: the first pending item of an active batch, while no claim
   is alive at the time of this request. *)
Claimable(p, i) ==
    /\ stored /\ ~Over
    /\ item[i] = "pending"
    /\ \A k \in Items : k < i => item[k] # "pending"
    /\ \A k \in Items : item[k] = "running" => k \in seen[p]

Claim(p, i) ==
    /\ pc[p] = "claim"
    /\ Claimable(p, i)
    /\ item' = [item EXCEPT ![i] = "running"]
    /\ held' = [held EXCEPT ![p] = i]
    /\ Goto(p, "mark")
    /\ UNCHANGED <<batch, stored, timeVars, asked, seen, answer, before, canceller, cleaner, faults>>

NothingToClaim(p) ==
    /\ pc[p] = "claim"
    /\ \A i \in Items : ~Claimable(p, i)
    /\ Return(p)
    /\ UNCHANGED <<rowVars, timeVars, asked, seen, held, answer, before, canceller, cleaner, faults>>

MarkRunning(p) ==
    /\ pc[p] = "mark"
    /\ batch' = IF stored /\ ~Over THEN [batch EXCEPT !.status = "running"] ELSE batch
    /\ Goto(p, "ask")
    /\ UNCHANGED <<item, stored, timeVars, asked, seen, held, answer, before, canceller, cleaner, faults>>

Ask(p) ==
    /\ pc[p] = "ask"
    /\ asked' = [asked EXCEPT ![held[p]] = @ + 1]
    /\ Goto(p, "wait")
    /\ UNCHANGED <<rowVars, timeVars, seen, held, answer, before, canceller, cleaner, faults>>

Answered(p) ==
    /\ pc[p] = "wait"
    /\ \E a \in {"done", "failed"} : answer' = [answer EXCEPT ![p] = a]
    /\ Goto(p, "finish")
    /\ UNCHANGED <<rowVars, timeVars, asked, seen, held, before, canceller, cleaner, faults>>

(* Variant: the answer is written without comparing the claim. *)
FinishAnyClaim(p) ==
    /\ pc[p] = "finish"
    /\ item' = [item EXCEPT ![held[p]] = IF @ = "deleted" THEN @ ELSE answer[p]]
    /\ Goto(p, "settle")
    /\ UNCHANGED <<batch, stored, timeVars, asked, seen, held, answer, before, canceller, cleaner, faults>>

(* finishClaim: only while the item is still running under this claim. *)
FinishClaim(p) ==
    /\ pc[p] = "finish"
    /\ item' = [item EXCEPT ![held[p]] = IF @ = "running" THEN answer[p] ELSE @]
    /\ Goto(p, "settle")
    /\ UNCHANGED <<batch, stored, timeVars, asked, seen, held, answer, before, canceller, cleaner, faults>>

(* A failed statement of the success path is retried as a failure. *)
FinishFails(p) ==
    /\ pc[p] = "finish" /\ answer[p] = "done"
    /\ faults < MaxFaults
    /\ faults' = faults + 1
    /\ answer' = [answer EXCEPT ![p] = "failed"]
    /\ UNCHANGED <<rowVars, timeVars, asked, pc, seen, held, before, canceller, cleaner>>

(* runBatchInBackground goes on only after progress. *)
Compare ==
    /\ pc[Runner] = "compare"
    /\ Goto(Runner, IF stored /\ ~Over /\ Finished > before THEN "idle" ELSE "over")
    /\ UNCHANGED <<rowVars, timeVars, asked, seen, held, answer, before, canceller, cleaner, faults>>

-----------------------------------------------------------------------------
(* cancelBatch: the batch first, its pending items in a second statement. *)

BeginCancel ==
    /\ canceller = "idle"
    /\ stored /\ ~Over
    /\ canceller' = "batch"
    /\ UNCHANGED <<rowVars, timeVars, asked, pollVars, cleaner, faults>>

CancelRow ==
    /\ canceller = "batch"
    /\ batch' = IF stored /\ ~Over THEN [batch EXCEPT !.status = "cancelled"] ELSE batch
    /\ canceller' = "items"
    /\ UNCHANGED <<item, stored, timeVars, asked, pollVars, cleaner, faults>>

CancelItems ==
    /\ canceller = "items"
    /\ item' = [i \in Items |-> IF item[i] = "pending" THEN "cancelled" ELSE item[i]]
    /\ canceller' = "idle"
    /\ UNCHANGED <<batch, stored, timeVars, asked, pollVars, cleaner, faults>>

-----------------------------------------------------------------------------
(* Faults, time and the cleanup. *)

(* The isolate is stopped, or a statement throws out of the request. *)
Stop(p) ==
    /\ pc[p] \notin {"idle", "over"}
    /\ faults < MaxFaults
    /\ faults' = faults + 1
    /\ Goto(p, IF p = Runner THEN "over" ELSE "idle")
    /\ UNCHANGED <<rowVars, timeVars, asked, seen, held, answer, before, canceller, cleaner>>

StopCancel ==
    /\ canceller # "idle"
    /\ faults < MaxFaults
    /\ faults' = faults + 1
    /\ canceller' = "idle"
    /\ UNCHANGED <<rowVars, timeVars, asked, pollVars, cleaner>>

Lapse(i) ==
    /\ item[i] = "running" /\ i \notin lapsed
    /\ lapsed' = lapsed \cup {i}
    /\ UNCHANGED <<rowVars, stale, asked, pollVars, canceller, cleaner, faults>>

GrowStale ==
    /\ ~stale
    /\ stale' = TRUE
    /\ UNCHANGED <<rowVars, lapsed, asked, pollVars, canceller, cleaner, faults>>

(* maybeCleanupExpired deletes the items and then the batch. *)
CleanItems ==
    /\ cleaner = "idle" /\ stale /\ stored
    /\ item' = [i \in Items |-> "deleted"]
    /\ cleaner' = "batch"
    /\ UNCHANGED <<batch, stored, timeVars, asked, pollVars, canceller, faults>>

CleanBatch ==
    /\ cleaner = "batch"
    /\ stored' = FALSE
    /\ cleaner' = "idle"
    /\ UNCHANGED <<item, batch, timeVars, asked, pollVars, canceller, faults>>

-----------------------------------------------------------------------------
Poll(p) ==
    \/ Begin(p) \/ RecoverExpiredClaim(p) \/ Refresh(p) \/ Check(p)
    \/ (\E i \in Items : Claim(p, i)) \/ NothingToClaim(p) \/ MarkRunning(p)
    \/ Ask(p) \/ Answered(p) \/ FinishClaim(p)

Background == RunnerStops \/ Compare
Cancel == BeginCancel \/ CancelRow \/ CancelItems
Cleanup == CleanItems \/ CleanBatch

Next ==
    \/ \E p \in Pollers : Poll(p) \/ FinishFails(p) \/ Stop(p)
    \/ Background \/ Cancel \/ StopCancel
    \/ \E i \in Items : Lapse(i)
    \/ GrowStale \/ Cleanup

Spec == Init /\ [][Next]_vars

(* The page of the visitor polls on until the batch is over, the background
   task runs unless it is stopped, and an unfinished claim runs out. *)
Fairness ==
    /\ \A p \in Pollers : WF_vars(Poll(p))
    /\ WF_vars(Background)
    /\ \A i \in Items : WF_vars(Lapse(i))

FairSpec == Spec /\ Fairness

-----------------------------------------------------------------------------
(* At any time at most one claim of the batch is alive, however many polls and
   background runs race: CLAIM_NEXT_ITEM is atomic and each request judges the
   claims by the time it began. *)
OneLiveClaim ==
    \A i, k \in Items :
        item[i] = "running" /\ item[k] = "running" /\ i # k => i \in lapsed \/ k \in lapsed

(* No question is put to the backend twice, whatever stops or runs out:
   "without replaying an uncertain claim". *)
AskedAtMostOnce == \A i \in Items : asked[i] <= 1

(* A batch that says done has a final answer for every question, and it never
   counts an answer that is not there, until its rows are deleted. *)
CountsAreTrue ==
    ~stale =>
        /\ batch.status = "done" => With({"done", "failed"}) = Items
        /\ batch.completed <= Cardinality(With({"done"}))
        /\ batch.failed <= Cardinality(With({"failed"}))

(* A cancelled batch stays cancelled and starts no further question. *)
CancelSticks ==
    [][batch.status = "cancelled" =>
         /\ batch'.status = "cancelled"
         /\ \A i \in Items : item[i] = "pending" => item'[i] # "running"]_vars

(* The answer, the failure or the cancellation of an item is final: a late
   answer of a claim that ran out does not replace what was shown. *)
ItemsAreFinal ==
    [][\A i \in Items :
         item[i] \in {"done", "failed", "cancelled"} => item'[i] \in {item[i], "deleted"}]_vars

(* What a visitor is shown of the batch is true and is not taken back. *)
ShownIsFinal == [](TypeOK /\ CountsAreTrue) /\ CancelSticks /\ ItemsAreFinal

(* While somebody polls, the batch comes to its end although isolates stop and
   answers get lost, unless it outlives its rows. *)
BatchEnds == <>(Over \/ stale)
=============================================================================
