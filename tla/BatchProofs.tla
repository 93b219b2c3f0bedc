------------------------------ MODULE BatchProofs ------------------------------
(***************************************************************************)
(* Proofs about the two kinds of batches of questions: those of the public *)
(* site (PublicBatch), for any number of questions, pollers and faults,    *)
(* and those of the workspace (BatchQA), for any number of questions,      *)
(* polls and crashes.                                                      *)
(***************************************************************************)
EXTENDS PublicBatch, BatchQA, FiniteSetTheorems, TLAPS

USE BatchAssumption DEF Items

(* The types the arguments below rest on. *)
Types ==
    /\ item \in [Items -> ItemStates]
    /\ pc \in [Pollers -> Stages]
    /\ seen \in [Pollers -> SUBSET Items]
    /\ held \in [Pollers -> Items]
    /\ asked \in [Items -> Nat]
    /\ answer \in [Pollers -> {"done", "failed"}]
    /\ lapsed \subseteq Items

(* A poller only sees claims run out that have, and of two running items one
   has run out. *)
LiveInv ==
    /\ \A p \in Pollers : seen[p] \subseteq lapsed
    /\ OneLiveClaim

(* An item is pending until its one claim; the claim is held by one poller at
   most, and the backend is asked before the claim is answered. *)
ClaimInv ==
    /\ \A p \in Pollers : pc[p] \in Holding => item[held[p]] # "pending"
    /\ \A p, q \in Pollers :
         p # q /\ pc[p] \in Holding /\ pc[q] \in Holding => held[p] # held[q]
    /\ \A p \in Pollers : pc[p] \in {"mark", "ask"} => asked[held[p]] = 0
    /\ \A i \in Items : item[i] = "pending" => asked[i] = 0
    /\ AskedAtMostOnce

Inv == Types /\ LiveInv /\ ClaimInv

LEMMA InitInv == Init => Inv
BY DEF Init, Inv, Types, LiveInv, ClaimInv, OneLiveClaim, AskedAtMostOnce, ItemStates,
       Stages, Holding

(* A step that touches neither the items nor the questions, and moves pollers
   without giving them an item, keeps everything. *)
LEMMA QuietStep ==
    ASSUME Inv, Types', item' = item, asked' = asked, held' = held,
           lapsed \subseteq lapsed',
           \A p \in Pollers : seen'[p] \subseteq lapsed',
           \A p \in Pollers : pc'[p] \in Holding => pc[p] \in Holding,
           \A p \in Pollers : pc'[p] \in {"mark", "ask"} => pc[p] \in {"mark", "ask"}
    PROVE  Inv'
BY DEF Inv, Types, LiveInv, ClaimInv, OneLiveClaim, AskedAtMostOnce

(* A step that only finishes, cancels or deletes items keeps everything. *)
LEMMA SettlingStep ==
    ASSUME Inv, Types', asked' = asked, held' = held, seen' = seen, lapsed' = lapsed,
           \A i \in Items : item'[i] = item[i] \/ item'[i] \notin {"pending", "running"},
           \A p \in Pollers : pc'[p] \in Holding => pc[p] \in Holding,
           \A p \in Pollers : pc'[p] \in {"mark", "ask"} => pc[p] \in {"mark", "ask"}
    PROVE  Inv'
BY DEF Inv, Types, LiveInv, ClaimInv, OneLiveClaim, AskedAtMostOnce

LEMMA PollTypes ==
    ASSUME Types, NEW p \in Pollers, Poll(p)
    PROVE  Types'
<1> USE DEF Types, ItemStates, Stages, Goto, Return, rowVars, timeVars, pollVars
<1>1. CASE Begin(p)
  BY <1>1 DEF Begin
<1>2. CASE RecoverExpiredClaim(p)
  BY <1>2 DEF RecoverExpiredClaim
<1>3. CASE Refresh(p)
  BY <1>3 DEF Refresh
<1>4. CASE Check(p)
  BY <1>4 DEF Check
<1>5. CASE \E i \in Items : Claim(p, i)
  BY <1>5 DEF Claim
<1>6. CASE NothingToClaim(p)
  BY <1>6 DEF NothingToClaim
<1>7. CASE MarkRunning(p)
  BY <1>7 DEF MarkRunning
<1>8. CASE Ask(p)
  BY <1>8 DEF Ask
<1>9. CASE Answered(p)
  BY <1>9 DEF Answered
<1>10. CASE FinishClaim(p)
  BY <1>10 DEF FinishClaim
<1> QED
  BY <1>1, <1>2, <1>3, <1>4, <1>5, <1>6, <1>7, <1>8, <1>9, <1>10 DEF Poll

LEMMA OtherTypes ==
    ASSUME Types,
           \/ \E p \in Pollers : FinishFails(p) \/ Stop(p)
           \/ Background \/ Cancel \/ StopCancel
           \/ \E i \in Items : Lapse(i)
           \/ GrowStale \/ Cleanup
           \/ UNCHANGED vars
    PROVE  Types'
<1> USE DEF Types, ItemStates, Stages, Goto, rowVars, timeVars, pollVars
<1>1. CASE \E p \in Pollers : FinishFails(p) \/ Stop(p)
  BY <1>1 DEF FinishFails, Stop
<1>2. CASE Background
  BY <1>2 DEF Background, RunnerStops, Compare
<1>3. CASE Cancel \/ StopCancel
  BY <1>3 DEF Cancel, BeginCancel, CancelRow, CancelItems, StopCancel
<1>4. CASE \E i \in Items : Lapse(i)
  BY <1>4 DEF Lapse
<1>5. CASE GrowStale \/ Cleanup
  BY <1>5 DEF GrowStale, Cleanup, CleanItems, CleanBatch
<1>6. CASE UNCHANGED vars
  BY <1>6 DEF vars
<1> QED
  BY <1>1, <1>2, <1>3, <1>4, <1>5, <1>6

LEMMA ClaimStep ==
    ASSUME Inv, NEW p \in Pollers, NEW i \in Items, Claim(p, i)
    PROVE  Inv'
<1>1. Types'
  BY PollTypes DEF Inv, Poll
<1>2. /\ item[i] = "pending" /\ item' = [item EXCEPT ![i] = "running"]
      /\ held' = [held EXCEPT ![p] = i] /\ pc' = [pc EXCEPT ![p] = "mark"]
      /\ asked' = asked /\ lapsed' = lapsed /\ seen' = seen
      /\ \A k \in Items : item[k] = "running" => k \in seen[p]
  BY DEF Claim, Claimable, Goto, timeVars
<1>3. LiveInv'
  BY <1>2 DEF Inv, Types, LiveInv, OneLiveClaim
<1>4. \A q \in Pollers : q # p => held'[q] = held[q] /\ pc'[q] = pc[q]
  BY <1>2 DEF Inv, Types
<1>5. held'[p] = i /\ pc'[p] = "mark" /\ item'[i] = "running" /\ asked'[i] = 0
  BY <1>2 DEF Inv, Types, ClaimInv
<1>6. \A q \in Pollers : q # p /\ pc[q] \in Holding => held[q] # i
  BY <1>2 DEF Inv, ClaimInv
<1>7. \A k \in Items : k # i => item'[k] = item[k]
  BY <1>2 DEF Inv, Types
<1>8. \A q \in Pollers : held[q] \in Items
  BY DEF Inv, Types
<1>9. ClaimInv'
  BY <1>2, <1>4, <1>5, <1>6, <1>7, <1>8 DEF Inv, ClaimInv, AskedAtMostOnce
<1> QED
  BY <1>1, <1>3, <1>9 DEF Inv

LEMMA AskStep ==
    ASSUME Inv, NEW p \in Pollers, Ask(p)
    PROVE  Inv'
<1>1. Types'
  BY PollTypes DEF Inv, Poll
<1>2. /\ pc[p] = "ask" /\ pc' = [pc EXCEPT ![p] = "wait"]
      /\ asked' = [asked EXCEPT ![held[p]] = @ + 1]
      /\ item' = item /\ held' = held /\ lapsed' = lapsed /\ seen' = seen
  BY DEF Ask, Goto, rowVars, timeVars
<1>3. LiveInv'
  BY <1>2 DEF Inv, LiveInv, OneLiveClaim
<1>4. held[p] \in Items /\ asked[held[p]] = 0 /\ item[held[p]] # "pending"
  BY <1>2 DEF Inv, Types, ClaimInv, Holding
<1>5. asked'[held[p]] = 1 /\ \A k \in Items : k # held[p] => asked'[k] = asked[k]
  BY <1>2, <1>4 DEF Inv, Types
<1>6. \A q \in Pollers : q # p /\ pc[q] \in Holding => held[q] # held[p]
  BY <1>2 DEF Inv, ClaimInv, Holding
<1>7. \A q \in Pollers : /\ q # p => pc'[q] = pc[q]
                         /\ pc'[q] \in Holding <=> pc[q] \in Holding
  BY <1>2 DEF Inv, Types, Holding
<1>8. pc'[p] = "wait"
  BY <1>2 DEF Inv, Types
<1>9. \A q \in Pollers : held[q] \in Items
  BY DEF Inv, Types
<1>10. ClaimInv'
  BY <1>2, <1>4, <1>5, <1>6, <1>7, <1>8, <1>9 DEF Inv, ClaimInv, AskedAtMostOnce, Holding
<1> QED
  BY <1>1, <1>3, <1>10 DEF Inv

LEMMA PollStep ==
    ASSUME Inv, NEW p \in Pollers, Poll(p)
    PROVE  Inv'
<1>0. Types'
  BY PollTypes DEF Inv
<1>1. CASE Begin(p)
  BY <1>0, <1>1, QuietStep DEF Begin, Goto, Inv, Types, LiveInv, Holding, rowVars, timeVars
<1>2. CASE RecoverExpiredClaim(p)
  BY <1>0, <1>2, SettlingStep DEF RecoverExpiredClaim, Goto, Inv, Types, Holding, timeVars
<1>3. CASE Refresh(p)
  BY <1>0, <1>3, QuietStep DEF Refresh, Goto, Return, Inv, Types, LiveInv, Holding, timeVars
<1>4. CASE Check(p)
  BY <1>0, <1>4, QuietStep DEF Check, Goto, Return, Inv, Types, LiveInv, Holding, rowVars, timeVars
<1>5. CASE \E i \in Items : Claim(p, i)
  BY <1>5, ClaimStep
<1>6. CASE NothingToClaim(p)
  BY <1>0, <1>6, QuietStep DEF NothingToClaim, Goto, Return, Inv, Types, LiveInv, Holding,
     rowVars, timeVars
<1>7. CASE MarkRunning(p)
  BY <1>0, <1>7, QuietStep DEF MarkRunning, Goto, Inv, Types, LiveInv, Holding, timeVars
<1>8. CASE Ask(p)
  BY <1>8, AskStep
<1>9. CASE Answered(p)
  BY <1>0, <1>9, QuietStep DEF Answered, Goto, Inv, Types, LiveInv, Holding, rowVars, timeVars
<1>10. CASE FinishClaim(p)
  BY <1>0, <1>10, SettlingStep DEF FinishClaim, Goto, Inv, Types, Holding, timeVars
<1> QED
  BY <1>1, <1>2, <1>3, <1>4, <1>5, <1>6, <1>7, <1>8, <1>9, <1>10 DEF Poll

LEMMA NextInv == Inv /\ [Next]_vars => Inv'
<1> SUFFICES ASSUME Inv, [Next]_vars PROVE Inv'
  OBVIOUS
<1>1. ASSUME NEW p \in Pollers, FinishFails(p) \/ Stop(p) PROVE Inv'
  BY <1>1, OtherTypes, QuietStep DEF FinishFails, Stop, Goto, Inv, Types, LiveInv, Holding,
     rowVars, timeVars
<1>2. CASE Background
  BY <1>2, OtherTypes, QuietStep DEF Background, RunnerStops, Compare, Goto, Inv, Types,
     LiveInv, Holding, rowVars, timeVars
<1>3. CASE Cancel \/ StopCancel
  <2>1. Types'
    BY <1>3, OtherTypes DEF Inv
  <2>2. \A i \in Items : item'[i] = item[i] \/ item'[i] \notin {"pending", "running"}
    BY <1>3 DEF Cancel, BeginCancel, CancelRow, CancelItems, StopCancel, rowVars
  <2> QED
    BY <1>3, <2>1, <2>2, SettlingStep DEF Cancel, BeginCancel, CancelRow, CancelItems,
       StopCancel, timeVars, pollVars
<1>4. ASSUME NEW i \in Items, Lapse(i) PROVE Inv'
  BY <1>4, OtherTypes, QuietStep DEF Lapse, Inv, LiveInv, rowVars, pollVars
<1>5. CASE GrowStale \/ Cleanup
  <2>1. Types'
    BY <1>5, OtherTypes DEF Inv
  <2>2. \A i \in Items : item'[i] = item[i] \/ item'[i] \notin {"pending", "running"}
    BY <1>5 DEF GrowStale, Cleanup, CleanItems, CleanBatch, rowVars
  <2> QED
    BY <1>5, <2>1, <2>2, SettlingStep DEF GrowStale, Cleanup, CleanItems, CleanBatch,
       timeVars, pollVars
<1>6. CASE UNCHANGED vars
  BY <1>6, OtherTypes, QuietStep DEF vars, Inv, LiveInv, rowVars, timeVars, pollVars
<1> QED
  BY <1>1, <1>2, <1>3, <1>4, <1>5, <1>6, PollStep DEF Next

LEMMA Reachable == Spec => []Inv
BY InitInv, NextInv, PTL DEF Spec

(* For any number of questions and concurrent requests, at most one claim of
   the batch is alive. *)
THEOREM SingleClaim == Spec => []OneLiveClaim
BY Reachable, PTL DEF Inv, LiveInv

(* And the backend is asked each question at most once. *)
THEOREM NoReplay == Spec => []AskedAtMostOnce
BY Reachable, PTL DEF Inv, ClaimInv

-----------------------------------------------------------------------------
(* What the visitor is shown: the counts of the batch row against the items. *)

LEMMA CountsInRange ==
    ASSUME NEW T \in SUBSET Items
    PROVE  /\ Cardinality(T) \in 0..Total
           /\ Cardinality(T) >= Total => T = Items
<1>1. IsFiniteSet(Items) /\ Cardinality(Items) = Total
  BY FS_Interval
<1>2. IsFiniteSet(T) /\ Cardinality(T) <= Total /\ (Cardinality(T) = Total => T = Items)
  BY <1>1, FS_Subset
<1>3. Cardinality(T) \in Nat
  BY <1>2, FS_CardinalityType
<1> QED
  BY <1>2, <1>3

LEMMA MoreCountsMore ==
    ASSUME NEW S \in SUBSET Items, NEW T \in SUBSET S
    PROVE  Cardinality(T) <= Cardinality(S)
<1>1. IsFiniteSet(Items)
  BY FS_Interval
<1>2. IsFiniteSet(S)
  BY <1>1, FS_Subset
<1> QED
  BY <1>2, FS_Subset

LEMMA InitTypeOK == Init => TypeOK
<1> SUFFICES ASSUME Init PROVE TypeOK
  OBVIOUS
<1>1. batch \in [status : BatchStates, completed : 0..Total, failed : 0..Total]
  BY DEF Init, BatchStates
<1>2. stored \in BOOLEAN /\ stale \in BOOLEAN
  BY DEF Init
<1>3. faults \in 0..MaxFaults /\ before \in 0..2 * Total
  BY DEF Init
<1>4. asked \in [Items -> Nat] /\ held \in [Pollers -> Items]
  BY DEF Init
<1> QED
  BY <1>1, <1>2, <1>3, <1>4 DEF Init, TypeOK, ItemStates, Stages

LEMMA AggregateType ==
    ASSUME TypeOK
    PROVE  Aggregate \in [status : BatchStates, completed : 0..Total, failed : 0..Total]
<1>1. Cardinality(With({"done"})) \in 0..Total /\ Cardinality(With({"failed"})) \in 0..Total
  BY CountsInRange DEF With
<1> QED
  BY <1>1 DEF Aggregate, BatchStates

LEMMA NextTypeOK == TypeOK /\ [Next]_vars => TypeOK'
<1> SUFFICES ASSUME TypeOK, [Next]_vars PROVE TypeOK'
  OBVIOUS
<1>0. Types /\ Types'
  BY PollTypes, OtherTypes DEF TypeOK, Types, Next
<1>1. SUFFICES ASSUME Types'
      PROVE /\ batch' \in [status : BatchStates, completed : 0..Total, failed : 0..Total]
            /\ stored' \in BOOLEAN /\ stale' \in BOOLEAN
            /\ before' \in 0..2 * Total
            /\ canceller' \in {"idle", "batch", "items"}
            /\ cleaner' \in {"idle", "batch"}
            /\ faults' \in 0..MaxFaults
  BY <1>0 DEF TypeOK, Types
<1> USE DEF TypeOK, BatchStates, rowVars, timeVars, pollVars
<1>2. ASSUME NEW p \in Pollers, Refresh(p) PROVE TypeOK'
  <2>1. batch' \in [status : BatchStates, completed : 0..Total, failed : 0..Total]
    BY <1>2, AggregateType DEF Refresh
  <2> QED
    BY <1>1, <1>2, <2>1 DEF Refresh, Types
<1>3. ASSUME NEW p \in Pollers, Begin(p) PROVE TypeOK'
  <2>1. before' \in 0..2 * Total
    BY <1>3 DEF Begin, Finished
  <2> QED
    BY <1>1, <1>3, <2>1 DEF Begin, Types
<1>4. ASSUME NEW p \in Pollers, MarkRunning(p) PROVE TypeOK'
  BY <1>1, <1>4 DEF MarkRunning, Types
<1>5. ASSUME NEW p \in Pollers, Poll(p), ~Refresh(p), ~Begin(p), ~MarkRunning(p) PROVE TypeOK'
  BY <1>1, <1>5 DEF Types, Poll, RecoverExpiredClaim, Check, Claim, NothingToClaim, Ask,
     Answered, FinishClaim
<1>6. ASSUME NEW p \in Pollers, FinishFails(p) \/ Stop(p) PROVE TypeOK'
  <2>1. faults < MaxFaults /\ faults' = faults + 1
    BY <1>6 DEF FinishFails, Stop
  <2>2. faults' \in 0..MaxFaults
    BY <2>1
  <2> QED
    BY <1>1, <1>6, <2>2 DEF Types, FinishFails, Stop
<1>7. CASE Background
  BY <1>1, <1>7 DEF Types, Background, RunnerStops, Compare
<1>8. CASE Cancel \/ StopCancel
  <2>1. faults' = faults \/ (faults < MaxFaults /\ faults' = faults + 1)
    BY <1>8 DEF Cancel, BeginCancel, CancelRow, CancelItems, StopCancel
  <2>2. faults' \in 0..MaxFaults
    BY <2>1
  <2>3. batch' \in [status : BatchStates, completed : 0..Total, failed : 0..Total]
    <3>1. batch' = batch \/ batch' = [batch EXCEPT !.status = "cancelled"]
      BY <1>8 DEF Cancel, BeginCancel, CancelRow, CancelItems, StopCancel
    <3> QED
      BY <3>1
  <2> QED
    BY <1>1, <1>8, <2>2, <2>3 DEF Types, Cancel, BeginCancel, CancelRow, CancelItems, StopCancel
<1>9. ASSUME NEW i \in Items, Lapse(i) PROVE TypeOK'
  BY <1>1, <1>9 DEF Types, Lapse
<1>10. CASE GrowStale \/ Cleanup
  BY <1>1, <1>10 DEF Types, GrowStale, Cleanup, CleanItems, CleanBatch
<1>11. CASE UNCHANGED vars
  BY <1>1, <1>11 DEF Types, vars
<1> QED
  BY <1>2, <1>3, <1>4, <1>5, <1>6, <1>7, <1>8, <1>9, <1>10, <1>11 DEF Next

(* Until the rows are past their time, an item that has its answer keeps it. *)
AnswersKept ==
    ~stale' => /\ ~stale
               /\ \A i \in Items : item[i] \in {"done", "failed"} => item'[i] = item[i]

LEMMA ItemsKept == TypeOK /\ [Next]_vars => AnswersKept
<1> SUFFICES ASSUME TypeOK, [Next]_vars PROVE AnswersKept
  OBVIOUS
<1> USE DEF AnswersKept, TypeOK, rowVars, timeVars
<1>1. ASSUME NEW p \in Pollers, Poll(p) PROVE AnswersKept
  BY <1>1 DEF Poll, Begin, RecoverExpiredClaim, Refresh, Check, Claim, Claimable, NothingToClaim,
     MarkRunning, Ask, Answered, FinishClaim
<1>2. ASSUME NEW p \in Pollers, FinishFails(p) \/ Stop(p) PROVE AnswersKept
  BY <1>2 DEF FinishFails, Stop
<1>3. CASE Background \/ Cancel \/ StopCancel
  BY <1>3
     DEF Background, RunnerStops, Compare, Cancel, BeginCancel, CancelRow, CancelItems, StopCancel
<1>4. ASSUME NEW i \in Items, Lapse(i) PROVE AnswersKept
  BY <1>4 DEF Lapse
<1>5. CASE GrowStale \/ Cleanup
  BY <1>5 DEF GrowStale, Cleanup, CleanItems, CleanBatch
<1>6. CASE UNCHANGED vars
  BY <1>6 DEF vars
<1> QED
  BY <1>1, <1>2, <1>3, <1>4, <1>5, <1>6 DEF Next

(* The batch row changes in three ways: it is recounted from the items, it
   turns "running", or it turns "cancelled"; the last two keep its counts. *)
LEMMA BatchSteps ==
    ASSUME TypeOK, [Next]_vars
    PROVE  \/ batch' = batch
           \/ batch' = Aggregate /\ item' = item
           \/ ~Over /\ batch' = [batch EXCEPT !.status = "running"]
           \/ ~Over /\ batch' = [batch EXCEPT !.status = "cancelled"]
<1> DEFINE Goal == \/ batch' = batch
                   \/ batch' = Aggregate /\ item' = item
                   \/ ~Over /\ batch' = [batch EXCEPT !.status = "running"]
                   \/ ~Over /\ batch' = [batch EXCEPT !.status = "cancelled"]
<1> USE DEF rowVars, timeVars
<1>1. ASSUME NEW p \in Pollers, Poll(p) PROVE Goal
  BY <1>1 DEF Poll, Begin, RecoverExpiredClaim, Refresh, Check, Claim, NothingToClaim,
     MarkRunning, Ask, Answered, FinishClaim
<1>2. ASSUME NEW p \in Pollers, FinishFails(p) \/ Stop(p) PROVE Goal
  BY <1>2 DEF FinishFails, Stop
<1>3. CASE Background \/ Cancel \/ StopCancel
  BY <1>3
     DEF Background, RunnerStops, Compare, Cancel, BeginCancel, CancelRow, CancelItems, StopCancel
<1>4. ASSUME NEW i \in Items, Lapse(i) PROVE Goal
  BY <1>4 DEF Lapse
<1>5. CASE GrowStale \/ Cleanup \/ UNCHANGED vars
  BY <1>5 DEF GrowStale, Cleanup, CleanItems, CleanBatch, vars
<1> QED
  BY <1>1, <1>2, <1>3, <1>4, <1>5 DEF Next

LEMMA InitCounts == Init => CountsAreTrue
<1> SUFFICES ASSUME Init PROVE CountsAreTrue
  OBVIOUS
<1>1. Cardinality(With({"done"})) \in 0..Total /\ Cardinality(With({"failed"})) \in 0..Total
  BY CountsInRange DEF With
<1> QED
  BY <1>1 DEF Init, CountsAreTrue

LEMMA NextCounts == TypeOK /\ CountsAreTrue /\ [Next]_vars => CountsAreTrue'
<1> SUFFICES ASSUME TypeOK, CountsAreTrue, [Next]_vars, ~stale' PROVE CountsAreTrue'
  BY DEF CountsAreTrue
<1>0. ~stale /\ TypeOK'
  BY ItemsKept, NextTypeOK DEF AnswersKept
<1> DEFINE Kept(set) == With(set) \subseteq With(set)'
<1>1. Kept({"done"}) /\ Kept({"failed"}) /\ Kept({"done", "failed"})
  BY ItemsKept DEF AnswersKept, With
<1>2. /\ With({"done"})' \in SUBSET Items /\ With({"failed"})' \in SUBSET Items
      /\ With({"done", "failed"})' \in SUBSET Items /\ With({"done", "failed"}) \in SUBSET Items
      /\ With({"done"}) \in SUBSET With({"done"})' /\ With({"failed"}) \in SUBSET With({"failed"})'
  BY <1>1 DEF With
<1>3. /\ Cardinality(With({"done"})) <= Cardinality(With({"done"})')
      /\ Cardinality(With({"failed"})) <= Cardinality(With({"failed"})')
  BY <1>2, MoreCountsMore
<1>4. /\ Cardinality(With({"done"})) \in Nat /\ Cardinality(With({"failed"})) \in Nat
      /\ Cardinality(With({"done"})') \in Nat /\ Cardinality(With({"failed"})') \in Nat
  BY <1>2, CountsInRange DEF With
<1>5. CASE \/ batch' = batch
           \/ ~Over /\ batch' = [batch EXCEPT !.status = "running"]
           \/ ~Over /\ batch' = [batch EXCEPT !.status = "cancelled"]
  <2>1. /\ batch'.completed = batch.completed /\ batch'.failed = batch.failed
        /\ batch'.status = "done" => batch.status = "done"
    BY <1>5 DEF TypeOK
  <2>2. batch'.status = "done" => With({"done", "failed"})' = Items
    BY <2>1, <1>0, <1>1, <1>2 DEF CountsAreTrue
  <2>3. batch.completed <= Cardinality(With({"done"})) /\ batch.failed <= Cardinality(With({"failed"}))
    BY <1>0 DEF CountsAreTrue
  <2>4. batch.completed \in Nat /\ batch.failed \in Nat
    BY DEF TypeOK
  <2>5. batch'.completed <= Cardinality(With({"done"})') /\ batch'.failed <= Cardinality(With({"failed"})')
    BY <2>1, <2>3, <2>4, <1>3, <1>4
  <2> QED
    BY <2>2, <2>5 DEF CountsAreTrue
<1>6. CASE batch' = Aggregate /\ item' = item
  <2>1. /\ With({"done"})' = With({"done"}) /\ With({"failed"})' = With({"failed"})
        /\ With({"done", "failed"})' = With({"done", "failed"})
    BY <1>6 DEF With
  <2>2. batch'.status = "done" => Cardinality(With({"done", "failed"})) >= Total
    BY <1>6 DEF Aggregate
  <2>3. batch'.status = "done" => With({"done", "failed"}) = Items
    BY <2>2, <1>2, CountsInRange
  <2>4. /\ batch'.completed = Cardinality(With({"done"}))
        /\ batch'.failed = Cardinality(With({"failed"}))
    BY <1>6 DEF Aggregate
  <2> QED
    BY <2>1, <2>3, <2>4, <1>4 DEF CountsAreTrue
<1> QED
  BY <1>5, <1>6, BatchSteps

-----------------------------------------------------------------------------
(* What a step never takes back. *)

LEMMA CancelStep ==
    ASSUME TypeOK, [Next]_vars, batch.status = "cancelled"
    PROVE  /\ batch'.status = "cancelled"
           /\ \A i \in Items : item[i] = "pending" => item'[i] # "running"
<1>1. batch'.status = "cancelled"
  BY BatchSteps DEF Aggregate, Over
<1> DEFINE NoStart == \A i \in Items : item[i] = "pending" => item'[i] # "running"
<1> USE DEF rowVars, TypeOK
<1>2. ASSUME NEW p \in Pollers, Poll(p) PROVE NoStart
  BY <1>2 DEF Poll, Begin, RecoverExpiredClaim, Refresh, Check, Claim, Claimable, Over,
     NothingToClaim, MarkRunning, Ask, Answered, FinishClaim
<1>3. ASSUME NEW p \in Pollers, FinishFails(p) \/ Stop(p) PROVE NoStart
  BY <1>3 DEF FinishFails, Stop
<1>4. CASE Background \/ Cancel \/ StopCancel
  BY <1>4
     DEF Background, RunnerStops, Compare, Cancel, BeginCancel, CancelRow, CancelItems, StopCancel
<1>5. ASSUME NEW i \in Items, Lapse(i) PROVE NoStart
  BY <1>5 DEF Lapse
<1>6. CASE GrowStale \/ Cleanup \/ UNCHANGED vars
  BY <1>6 DEF GrowStale, Cleanup, CleanItems, CleanBatch, vars
<1> QED
  BY <1>1, <1>2, <1>3, <1>4, <1>5, <1>6 DEF Next

LEMMA ItemStep ==
    ASSUME TypeOK, [Next]_vars, NEW i \in Items, item[i] \in {"done", "failed", "cancelled"}
    PROVE  item'[i] \in {item[i], "deleted"}
<1> DEFINE Goal == item'[i] \in {item[i], "deleted"}
<1> USE DEF rowVars, TypeOK
<1>1. ASSUME NEW p \in Pollers, Poll(p) PROVE Goal
  BY <1>1 DEF Poll, Begin, RecoverExpiredClaim, Refresh, Check, Claim, Claimable,
     NothingToClaim, MarkRunning, Ask, Answered, FinishClaim
<1>2. ASSUME NEW p \in Pollers, FinishFails(p) \/ Stop(p) PROVE Goal
  BY <1>2 DEF FinishFails, Stop
<1>3. CASE Background \/ Cancel \/ StopCancel
  BY <1>3
     DEF Background, RunnerStops, Compare, Cancel, BeginCancel, CancelRow, CancelItems, StopCancel
<1>4. ASSUME NEW k \in Items, Lapse(k) PROVE Goal
  BY <1>4 DEF Lapse
<1>5. CASE GrowStale \/ Cleanup \/ UNCHANGED vars
  BY <1>5 DEF GrowStale, Cleanup, CleanItems, CleanBatch, vars
<1> QED
  BY <1>1, <1>2, <1>3, <1>4, <1>5 DEF Next

(* What a visitor is shown is true and is not taken back: a batch that says
   done has every answer, its counts never run ahead of the items, a cancelled
   batch starts nothing more, and an item that has ended keeps its end. *)
THEOREM ShownIsTrueAndFinal == Spec => ShownIsFinal
<1>1. Init => TypeOK /\ CountsAreTrue
  BY InitTypeOK, InitCounts
<1>2. TypeOK /\ CountsAreTrue /\ [Next]_vars => (TypeOK /\ CountsAreTrue)'
  BY NextTypeOK, NextCounts
<1>3. TypeOK /\ [Next]_vars =>
        [batch.status = "cancelled" =>
           /\ batch'.status = "cancelled"
           /\ \A i \in Items : item[i] = "pending" => item'[i] # "running"]_vars
  BY CancelStep
<1>4. TypeOK /\ [Next]_vars =>
        [\A i \in Items :
           item[i] \in {"done", "failed", "cancelled"} => item'[i] \in {item[i], "deleted"}]_vars
  BY ItemStep
<1> QED
  BY <1>1, <1>2, <1>3, <1>4, PTL DEF Spec, ShownIsFinal, CancelSticks, ItemsAreFinal

-----------------------------------------------------------------------------
(***************************************************************************)
(* The batches of the workspace: however the actors overwrite each other's *)
(* rows, every copy of the row, saved or in flight, is one the batch could *)
(* have been in by itself.                                                 *)
(***************************************************************************)
USE BatchQAAssumption DEF Questions

(* The answers to the first n questions. *)
Firsts(n) == [i \in 1..n |-> i]

Answers == UNION {[1..k -> Questions] : k \in 0..Size}

(* A copy of the row is in order: its answers are those of the first questions,
   and unless it is cancelled its position counts them. *)
InOrder(m) ==
    \E n \in 0..Size :
        /\ m.results = Firsts(n)
        /\ m.status # "cancelled" => m.next = n
        /\ m.status = "done" => n = Size

(* The program points at which a run works through the questions. *)
Working == {"begin", "loop", "ask", "save", "finish"}

CopiesInOrder ==
    /\ InOrder(row) /\ InOrder(snapshot)
    /\ \A p \in Threads : InOrder(meta[p])
    /\ \A p \in Threads : run[p] \in Working => meta[p].status # "cancelled"
    /\ \A p \in Threads : run[p] = "ask" => meta[p].next < Size
    /\ \A p \in Threads : run[p] = "finish" => meta[p].next >= Size

(* Where a thread does the work there is one of it, and its position is behind
   no question it has asked, unless the batch is cancelled. *)
OneThread ==
    ~inline =>
        /\ \A p, q \in Threads : run[p] # "idle" /\ run[q] # "idle" => p = q
        /\ \A p \in Threads : run[p] = "load" => put = {}
        /\ \A p \in Threads :
             run[p] \in {"begin", "loop", "ask", "save"} => put \subseteq 1..meta[p].next
        /\ \A p \in Threads :
             run[p] = "loop" => row.status = "cancelled" \/ row.next = meta[p].next

OrderlyInv == BatchTypeOK /\ CopiesInOrder /\ OneThread

-----------------------------------------------------------------------------
(* Answers given in order are a sequence, and the next answer keeps it one. *)

LEMMA FirstsFacts ==
    ASSUME NEW n \in 0..Size
    PROVE  /\ Firsts(n) \in Answers
           /\ Len(Firsts(n)) = n
<1>1. Firsts(n) \in [1..n -> Questions]
  BY DEF Firsts
<1>2. Firsts(n) \in Seq(Questions)
  BY <1>1
<1> QED
  BY <1>1, <1>2 DEF Firsts, Answers

LEMMA FirstsAppend ==
    ASSUME NEW n \in 0..Size, n < Size
    PROVE  Append(Firsts(n), n + 1) = Firsts(n + 1)
<1>1. Firsts(n) \in Seq(Nat) /\ Len(Firsts(n)) = n
  BY DEF Firsts
<1>2. Firsts(n + 1) \in Seq(Nat) /\ Len(Firsts(n + 1)) = n + 1
  BY DEF Firsts
<1>3. Append(Firsts(n), n + 1) \in Seq(Nat) /\ Len(Append(Firsts(n), n + 1)) = n + 1
  BY <1>1
<1>4. \A i \in 1..n + 1 : Append(Firsts(n), n + 1)[i] = Firsts(n + 1)[i]
  BY <1>1 DEF Firsts
<1> QED
  BY <1>2, <1>3, <1>4

LEMMA RowFields ==
    ASSUME NEW m \in Rows
    PROVE  /\ m.status \in {"submitted", "running"} \cup BatchOver
           /\ m.cancel \in BOOLEAN /\ m.next \in 0..Size
           /\ m.results \in Answers
           /\ m = [status |-> m.status, cancel |-> m.cancel, next |-> m.next, results |-> m.results]
BY DEF Rows, Answers

LEMMA RowStatus ==
    ASSUME NEW m \in Rows, NEW s \in {"running", "done", "cancelled"}
    PROVE  /\ [m EXCEPT !.status = s] \in Rows
           /\ [m EXCEPT !.status = s, !.cancel = TRUE] \in Rows
BY DEF Rows, BatchOver

LEMMA RowAdvance ==
    ASSUME NEW m \in Rows, NEW n \in 0..Size,
           NEW r \in Answers
    PROVE  [m EXCEPT !.results = r, !.next = n, !.status = "running"] \in Rows
BY DEF Rows, Answers

LEMMA AnsweredInOrder ==
    ASSUME NEW m \in Rows, InOrder(m), m.status # "cancelled", m.next < Size
    PROVE  /\ WithAnswer(m) \in Rows
           /\ InOrder(WithAnswer(m))
           /\ WithAnswer(m).next = m.next + 1
           /\ WithAnswer(m).status = "running"
<1>1. PICK n \in 0..Size : m.results = Firsts(n) /\ m.next = n
  BY DEF InOrder
<1>2. /\ WithAnswer(m).results = Firsts(n + 1) /\ WithAnswer(m).next = n + 1
      /\ WithAnswer(m).status = "running" /\ WithAnswer(m).cancel = m.cancel
  BY <1>1, FirstsAppend DEF WithAnswer, Rows
<1>3. n + 1 \in 0..Size
  BY <1>1
<1>4. Firsts(n + 1) \in Answers
  BY <1>3, FirstsFacts
<1>5. WithAnswer(m) = [m EXCEPT !.results = Firsts(n + 1), !.next = n + 1, !.status = "running"]
  <2>1. Append(m.results, m.next + 1) = Firsts(n + 1)
    BY <1>1, FirstsAppend
  <2> QED
    BY <2>1, <1>1 DEF WithAnswer
<1>6. WithAnswer(m) \in Rows
  <2>1. [m EXCEPT !.results = Firsts(n + 1), !.next = n + 1, !.status = "running"] \in Rows
    BY <1>3, <1>4, RowAdvance, Zenon
  <2> QED
    BY <1>5, <2>1
<1> QED
  BY <1>1, <1>2, <1>3, <1>6 DEF InOrder

-----------------------------------------------------------------------------
LEMMA InitOrderly == BatchInit => OrderlyInv
<1> SUFFICES ASSUME BatchInit PROVE OrderlyInv
  OBVIOUS
<1>1. row.results = Firsts(0)
  <2>1. Firsts(0) = <<>>
    BY DEF Firsts
  <2> QED
    BY <2>1 DEF BatchInit
<1>2. row \in Rows
  <2>1. row = [status |-> "submitted", cancel |-> FALSE, next |-> 0, results |-> Firsts(0)]
    BY <1>1 DEF BatchInit
  <2>2. Firsts(0) \in Answers
    BY FirstsFacts
  <2> QED
    BY <2>1, <2>2 DEF Rows, Answers
<1>3. InOrder(row)
  BY <1>1 DEF BatchInit, InOrder
<1>4. BatchTypeOK
  <2>1. inline \in BOOLEAN /\ put \subseteq Questions /\ crashes \in 0..MaxCrashes
    BY DEF BatchInit
  <2>2. meta \in [Threads -> Rows] /\ snapshot \in Rows /\ answered \in [Threads -> BOOLEAN]
    BY <1>2 DEF BatchInit
  <2> QED
    BY <1>2, <2>1, <2>2 DEF BatchInit, BatchTypeOK
<1>5. CopiesInOrder
  BY <1>3 DEF BatchInit, CopiesInOrder, Working
<1>6. OneThread
  BY DEF BatchInit, OneThread
<1> QED
  BY <1>4, <1>5, <1>6 DEF OrderlyInv

(* What a poll or the thread does to the row, its copy and its program point
   keeps the invariant when the new copy and row are in order. *)
LEMMA LoadInOrder ==
    ASSUME OrderlyInv, NEW p \in Threads, Load(p)
    PROVE  OrderlyInv'
<1> USE DEF OrderlyInv, Load, Step, Copy, others
<1>1. row.status \notin BatchOver => row.status # "cancelled"
  BY DEF BatchOver
<1>2. BatchTypeOK'
  <2>1. [row EXCEPT !.status = "cancelled"] \in Rows /\ [row EXCEPT !.status = "running"] \in Rows
    <3>1. row \in Rows
      BY DEF BatchTypeOK
    <3> QED
      BY <3>1, RowStatus
  <2> QED
    BY <2>1 DEF BatchTypeOK
<1>3. CopiesInOrder'
  <2>1. InOrder([row EXCEPT !.status = "cancelled"])
    BY DEF BatchTypeOK, Rows, CopiesInOrder, InOrder
  <2>2. row.status \notin BatchOver => InOrder([row EXCEPT !.status = "running"])
    BY <1>1 DEF BatchTypeOK, Rows, CopiesInOrder, InOrder
  <2>3. InOrder(meta'[p])
    BY <2>1, <2>2 DEF BatchTypeOK, CopiesInOrder
  <2>4. run'[p] \in Working => meta'[p].status = "running" /\ run'[p] = "begin"
    <3>1. row \in Rows
      BY DEF BatchTypeOK
    <3>2. row = [status |-> row.status, cancel |-> row.cancel, next |-> row.next, results |-> row.results]
      BY <3>1, RowFields
    <3>3. [row EXCEPT !.status = "running"].status = "running"
      BY <3>2
    <3> QED
      BY <3>3 DEF BatchTypeOK, Working
  <2>5. \A q \in Threads : q # p => meta'[q] = meta[q] /\ run'[q] = run[q]
    BY DEF BatchTypeOK
  <2> QED
    BY <2>3, <2>4, <2>5 DEF CopiesInOrder, Working
<1>4. OneThread'
  <2>1. ~inline => put = {}
    BY DEF OneThread
  <2>2. run'[p] \in {"idle", "save cancelled", "begin"} /\ run[p] = "load"
    BY DEF BatchTypeOK
  <2>3. \A q \in Threads : q # p => meta'[q] = meta[q] /\ run'[q] = run[q]
    BY DEF BatchTypeOK
  <2> QED
    BY <2>1, <2>2, <2>3 DEF OneThread
<1> QED
  BY <1>2, <1>3, <1>4

LEMMA CheckInOrder ==
    ASSUME OrderlyInv, NEW p \in Threads, CheckRow(p)
    PROVE  OrderlyInv'
<1> USE DEF OrderlyInv, CheckRow, Step, Copy, others
<1> DEFINE stopped == [row EXCEPT !.next = meta[p].next, !.status = "cancelled", !.cancel = TRUE]
<1>1. meta[p] \in Rows /\ meta[p].next \in 0..Size /\ stopped \in Rows
  BY DEF BatchTypeOK, Rows, BatchOver
<1>2. BatchTypeOK'
  BY <1>1 DEF BatchTypeOK
<1>3. CopiesInOrder'
  <2>1. InOrder(stopped)
    BY DEF BatchTypeOK, Rows, CopiesInOrder, InOrder
  <2>2. InOrder(meta'[p])
    BY <2>1 DEF BatchTypeOK, CopiesInOrder
  <2>3. run'[p] \in Working => run'[p] = "ask" /\ meta'[p].status # "cancelled" /\ meta'[p].next < Size
    BY DEF BatchTypeOK, Working
  <2>4. \A q \in Threads : q # p => meta'[q] = meta[q] /\ run'[q] = run[q]
    BY DEF BatchTypeOK
  <2> QED
    BY <2>2, <2>3, <2>4 DEF CopiesInOrder, Working
<1>4. OneThread'
  <2>1. ~inline => put \subseteq 1..meta[p].next /\ (row.status = "cancelled" \/ row.next = meta[p].next)
    BY DEF OneThread
  <2>2. run'[p] = "ask" => meta'[p] = row /\ row.status # "cancelled"
    BY DEF BatchTypeOK
  <2>3. run'[p] \in {"ask", "idle", "save cancelled"}
    BY DEF BatchTypeOK
  <2>4. \A q \in Threads : q # p => meta'[q] = meta[q] /\ run'[q] = run[q]
    BY DEF BatchTypeOK
  <2> QED
    BY <2>1, <2>2, <2>3, <2>4 DEF OneThread
<1> QED
  BY <1>2, <1>3, <1>4

LEMMA AskInOrder ==
    ASSUME OrderlyInv, NEW p \in Threads, AskNext(p)
    PROVE  OrderlyInv'
<1> USE DEF OrderlyInv, AskNext, Step, Copy, others
<1>1. /\ meta[p] \in Rows /\ InOrder(meta[p]) /\ meta[p].next < Size
      /\ meta[p].status # "cancelled" /\ meta[p].next \in 0..Size
  BY DEF BatchTypeOK, Rows, CopiesInOrder, Working
<1>2. /\ meta'[p] \in Rows /\ InOrder(meta'[p])
      /\ meta'[p].next = meta[p].next + 1 /\ meta'[p].status = "running"
  BY <1>1, AnsweredInOrder DEF BatchTypeOK
<1>3. \A q \in Threads : q # p => meta'[q] = meta[q] /\ run'[q] = run[q]
  BY DEF BatchTypeOK
<1>4. run'[p] = "save"
  BY DEF BatchTypeOK
<1>5. BatchTypeOK'
  <2>1. meta[p].next + 1 \in Questions
    BY <1>1
  <2>2. put' \subseteq Questions
    BY <2>1 DEF BatchTypeOK
  <2>3. meta' \in [Threads -> Rows]
    BY <1>2 DEF BatchTypeOK
  <2> QED
    BY <2>2, <2>3 DEF BatchTypeOK
<1>6. CopiesInOrder'
  BY <1>2, <1>3, <1>4 DEF CopiesInOrder, Working
<1>7. OneThread'
  <2>1. ~inline => put' \subseteq 1..meta'[p].next
    BY <1>1, <1>2 DEF OneThread
  <2> QED
    BY <2>1, <1>3, <1>4 DEF OneThread
<1> QED
  BY <1>5, <1>6, <1>7

(* Begin, Save, Finish and SaveCancelled write the row. *)
LEMMA WriteInOrder ==
    ASSUME OrderlyInv, NEW p \in Threads, BeginRun(p) \/ Save(p) \/ Finish(p) \/ SaveCancelled(p)
    PROVE  OrderlyInv'
<1> USE DEF OrderlyInv, Step, others
<1>1. meta[p] \in Rows /\ InOrder(meta[p])
  BY DEF BatchTypeOK, CopiesInOrder
<1>2. Finish(p) => meta[p].next = Size /\ meta[p].status # "cancelled"
  BY <1>1 DEF Finish, CopiesInOrder, Working, Rows
<1>3. row' \in Rows /\ InOrder(row')
  <2>1. CASE BeginRun(p) \/ Save(p)
    BY <1>1, <2>1 DEF BeginRun, Save
  <2>2. CASE Finish(p)
    BY <1>1, <1>2, <2>2 DEF Finish, Rows, BatchOver, InOrder
  <2>3. CASE SaveCancelled(p)
    BY <1>1, <2>3 DEF SaveCancelled, Rows, BatchOver, InOrder
  <2> QED
    BY <2>1, <2>2, <2>3
<1>4. /\ UNCHANGED <<inline, snapshot, stopper, crashes, meta, answered, put>>
      /\ \A q \in Threads : q # p => run'[q] = run[q]
      /\ run' \in [Threads -> {"idle", "load", "begin", "loop", "ask", "save", "finish", "save cancelled"}]
      /\ \/ run[p] \in {"begin", "save"} /\ run'[p] = "loop" /\ row' = meta[p]
         \/ run'[p] = "idle"
      /\ run[p] # "idle"
  BY DEF BatchTypeOK, BeginRun, Save, Finish, SaveCancelled
<1>5. BatchTypeOK'
  BY <1>3, <1>4 DEF BatchTypeOK
<1>6. CopiesInOrder'
  BY <1>3, <1>4 DEF CopiesInOrder, Working
<1>7. OneThread'
  BY <1>4 DEF OneThread
<1> QED
  BY <1>5, <1>6, <1>7

LEMMA PollInOrder ==
    ASSUME OrderlyInv, NEW p \in Threads, PollResult(p) \/ Leave(p) \/ Crash(p)
    PROVE  OrderlyInv'
<1> USE DEF OrderlyInv, PollResult, Leave, Crash, Step, others
<1>1. BatchTypeOK'
  <2>1. crashes' = crashes \/ (crashes < MaxCrashes /\ crashes' = crashes + 1)
    OBVIOUS
  <2>2. crashes' \in 0..MaxCrashes
    <3>1. crashes \in 0..MaxCrashes
      BY DEF BatchTypeOK
    <3> HIDE DEF OrderlyInv, PollResult, Leave, Crash
    <3> QED
      BY <2>1, <3>1
  <2>3. answered' \in [Threads -> BOOLEAN]
    BY DEF BatchTypeOK
  <2>4. run' \in [Threads -> {"idle", "load", "begin", "loop", "ask", "save", "finish", "save cancelled"}]
    BY DEF BatchTypeOK
  <2> QED
    BY <2>2, <2>3, <2>4 DEF BatchTypeOK
<1>2. /\ UNCHANGED <<inline, row, meta, put, snapshot>>
      /\ \A q \in Threads : q # p => run'[q] = run[q]
      /\ \/ inline /\ run'[p] = "load"
         \/ run'[p] = "idle"
         \/ meta[p].next >= Size /\ run[p] = "loop" /\ run'[p] = "finish"
  BY DEF BatchTypeOK
<1>3. CopiesInOrder'
  BY <1>2 DEF CopiesInOrder, Working
<1>4. OneThread'
  BY <1>2 DEF OneThread
<1> QED
  BY <1>1, <1>3, <1>4

LEMMA CancelInOrder ==
    ASSUME OrderlyInv, ReadCancel \/ WriteCancel
    PROVE  OrderlyInv'
<1> USE DEF OrderlyInv
<1>a. row \in Rows /\ snapshot \in Rows /\ InOrder(row) /\ InOrder(snapshot)
  BY DEF BatchTypeOK, CopiesInOrder
<1>b. DEFINE cancelled == [snapshot EXCEPT !.status = "cancelled", !.cancel = TRUE]
<1>c. /\ cancelled \in Rows /\ cancelled.status = "cancelled"
      /\ cancelled.results = snapshot.results /\ cancelled.next = snapshot.next
  BY <1>a DEF Rows, BatchOver
<1>d. InOrder(cancelled)
  BY <1>a, <1>c DEF InOrder
<1>e. \/ row' = row /\ snapshot' = row
      \/ row' = cancelled /\ snapshot' = snapshot
  BY DEF ReadCancel, WriteCancel
<1>f. UNCHANGED <<inline, run, meta, answered, put, crashes>> /\ stopper' \in {"over", "write"}
  BY DEF ReadCancel, WriteCancel
<1> HIDE DEF cancelled
<1>1. row' \in Rows /\ InOrder(row') /\ snapshot' \in Rows /\ InOrder(snapshot')
  BY <1>a, <1>c, <1>d, <1>e
<1>2. row' = row \/ row'.status = "cancelled"
  BY <1>c, <1>e
<1>3. BatchTypeOK'
  BY <1>1, <1>f DEF BatchTypeOK
<1>4. CopiesInOrder'
  BY <1>1, <1>f DEF CopiesInOrder
<1>5. OneThread'
  BY <1>2, <1>f DEF OneThread
<1> QED
  BY <1>3, <1>4, <1>5

LEMMA NextOrderly == OrderlyInv /\ [BatchNext]_batchVars => OrderlyInv'
<1> SUFFICES ASSUME OrderlyInv, [BatchNext]_batchVars PROVE OrderlyInv'
  OBVIOUS
<1>1. ASSUME NEW p \in Threads, PollResult(p) \/ Process(p) \/ Crash(p) PROVE OrderlyInv'
  BY <1>1, LoadInOrder, CheckInOrder, AskInOrder, WriteInOrder, PollInOrder DEF Process
<1>2. CASE ReadCancel \/ WriteCancel
  BY <1>2, CancelInOrder
<1>3. CASE UNCHANGED batchVars
  BY <1>3 DEF batchVars, OrderlyInv, BatchTypeOK, CopiesInOrder, OneThread
<1> QED
  BY <1>1, <1>2, <1>3 DEF BatchNext

LEMMA InvOrderly == OrderlyInv => BatchIsOrderly
<1> SUFFICES ASSUME OrderlyInv PROVE BatchIsOrderly
  OBVIOUS
<1>1. AnswersInOrder
  <2>1. PICK n \in 0..Size :
          /\ row.results = Firsts(n)
          /\ row.status # "cancelled" => row.next = n
          /\ row.status = "done" => n = Size
    BY DEF OrderlyInv, CopiesInOrder, InOrder
  <2>2. Len(row.results) = n
    BY <2>1, FirstsFacts
  <2> QED
    BY <2>1, <2>2 DEF AnswersInOrder, Firsts
<1>2. ThreadAsksOnce
  <2> SUFFICES ASSUME NEW p \in Threads, ~inline, run[p] = "ask" PROVE meta[p].next + 1 \notin put
    BY DEF ThreadAsksOnce
  <2>1. meta[p] \in Rows /\ put \subseteq 1..meta[p].next
    BY DEF OrderlyInv, OneThread, BatchTypeOK
  <2>2. meta[p].next \in Nat
    BY <2>1, RowFields
  <2> QED
    BY <2>1, <2>2
<1> QED
  BY <1>1, <1>2 DEF BatchIsOrderly, OrderlyInv

(* Whatever polls, threads and cancellations overwrite, a saved batch has the
   answers of its first questions, each once and in order, a batch shown as
   done has them all, and the background thread asks no question twice. *)
THEOREM AnswersStayInOrder == BatchSpec => []BatchIsOrderly
BY InitOrderly, NextOrderly, InvOrderly, PTL DEF BatchSpec
=============================================================================
