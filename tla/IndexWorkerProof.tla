--------------------------- MODULE IndexWorkerProof ---------------------------
(***************************************************************************)
(* Proofs about IndexWorker for any number of workers, jobs, tenants and   *)
(* faults: type correctness, the mutual exclusion the owner lock gives,    *)
(* and that the workers implement the abstract lock service TenantMutex.   *)
(***************************************************************************)
EXTENDS IndexWorker, FiniteSetTheorems, TLAPS

USE QueueAssumption, WorkerAssumption

(* The leases are finitely many: a recovery pass can list them. *)
FiniteLeases == IsFiniteSet(processing)

(* A mark is being written, or followed by its engines, only while it is at the
   head of the list. *)
MarkInHand == \A w \in Workers : pc[w] \in {"marking", "marked"} => todo[w] # <<>>

TypeInv == TypeOK /\ FiniteLeases /\ MarkInHand

-----------------------------------------------------------------------------
(* What the Redis commands do to the types. *)

LEMMA EnqueueType ==
    ASSUME QueueTypeOK, FiniteLeases, NEW r \in Receipt, Enqueue(r), UNCHANGED ownerLock
    PROVE  QueueTypeOK' /\ FiniteLeases'
BY DEF QueueTypeOK, FiniteLeases, Enqueue

LEMMA ClaimType ==
    ASSUME QueueTypeOK, FiniteLeases, Claim, UNCHANGED ownerLock
    PROVE  QueueTypeOK' /\ FiniteLeases' /\ Head(queue) \in Receipt
<1>1. Head(queue) \in Receipt /\ Tail(queue) \in Seq(Receipt)
  BY DEF QueueTypeOK, Claim
<1>2. FiniteLeases'
  BY <1>1, FS_AddElement DEF FiniteLeases, Claim
<1> QED
  BY <1>1, <1>2 DEF QueueTypeOK, Claim

LEMMA AckType ==
    ASSUME QueueTypeOK, FiniteLeases, NEW r, Ack(r), UNCHANGED ownerLock
    PROVE  QueueTypeOK' /\ FiniteLeases'
<1>1. FiniteLeases'
  BY FS_Subset, processing \ {r} \subseteq processing DEF FiniteLeases, Ack
<1> QED
  BY <1>1 DEF QueueTypeOK, Ack

LEMMA ListingType ==
    ASSUME NEW S, IsFiniteSet(S), NEW s \in Listings(S)
    PROVE  s \in Seq(S) /\ DOMAIN s = 1..Len(s)
<1>1. Cardinality(S) \in Nat
  BY FS_CardinalityType
<1>2. s \in [1..Cardinality(S) -> S]
  BY DEF Listings
<1> QED
  BY <1>1, <1>2

LEMMA RecoverType ==
    ASSUME QueueTypeOK, FiniteLeases, UNCHANGED ownerLock,
           NEW B \in SUBSET expired,
           NEW again \in Listings(Retryable(B)),
           NEW spent \in Listings(B \ Retryable(B)),
           Recover(B, again)
    PROVE  /\ QueueTypeOK' /\ FiniteLeases'
           /\ [i \in DOMAIN again |-> [job |-> again[i].job, as |-> "queued"]]
              \o [i \in DOMAIN spent |-> [job |-> spent[i].job, as |-> "failed"]]
              \in Seq(Mark)
<1>1. IsFiniteSet(Retryable(B)) /\ IsFiniteSet(B \ Retryable(B)) /\ IsFiniteSet(processing \ B)
  BY FS_Subset, Retryable(B) \subseteq processing, B \ Retryable(B) \subseteq processing,
     processing \ B \subseteq processing
     DEF QueueTypeOK, FiniteLeases, Retryable
<1>2. /\ again \in Seq(Retryable(B)) /\ DOMAIN again = 1..Len(again)
      /\ spent \in Seq(B \ Retryable(B)) /\ DOMAIN spent = 1..Len(spent)
  BY <1>1, ListingType
<1>3. \A i \in 1..Len(again) : again[i] \in Receipt /\ Retried(again[i]) \in Receipt
  <2> SUFFICES ASSUME NEW i \in 1..Len(again)
               PROVE  again[i] \in Receipt /\ Retried(again[i]) \in Receipt
    OBVIOUS
  <2>1. again[i] \in Retryable(B)
    BY <1>2
  <2>2. again[i] \in Receipt /\ again[i].attempt + 1 <= MaxRecoveries
    BY <2>1 DEF Retryable, QueueTypeOK
  <2> QED
    BY <2>2 DEF Receipt, Retried
<1>4. \A i \in 1..Len(spent) : spent[i] \in Receipt
  BY <1>2 DEF QueueTypeOK
<1>5. [i \in DOMAIN again |-> Retried(again[i])] \in Seq(Receipt)
  BY <1>2, <1>3
<1>6. /\ [i \in DOMAIN again |-> [job |-> again[i].job, as |-> "queued"]] \in Seq(Mark)
      /\ [i \in DOMAIN spent |-> [job |-> spent[i].job, as |-> "failed"]] \in Seq(Mark)
  <2>1. \A i \in 1..Len(again) : [job |-> again[i].job, as |-> "queued"] \in Mark
    BY <1>3 DEF Receipt, Mark
  <2>2. \A i \in 1..Len(spent) : [job |-> spent[i].job, as |-> "failed"] \in Mark
    BY <1>4 DEF Receipt, Mark
  <2> QED
    BY <1>2, <2>1, <2>2
<1>7. QueueTypeOK'
  BY <1>5 DEF QueueTypeOK, Recover
<1>8. FiniteLeases'
  BY <1>1 DEF FiniteLeases, Recover
<1> QED
  BY <1>6, <1>7, <1>8

-----------------------------------------------------------------------------
(* Type correctness. *)

LEMMA InitType == Init => TypeInv
<1> SUFFICES ASSUME Init PROVE TypeInv
  OBVIOUS
<1>1. FiniteLeases
  BY FS_EmptySet DEF Init, QueueInit, FiniteLeases
<1>2. QueueTypeOK
  BY DEF Init, QueueInit, QueueTypeOK
<1>3. \A w \in Workers : pc[w] \in {"idle", "mark", "marking", "marked", "pop"}
  BY DEF Init
<1> QED
  BY <1>1, <1>2, <1>3 DEF Init, TypeInv, TypeOK, MarkInHand, Statuses, Stages, Inside, None, Mark

LEMMA EnginesWritten ==
    ASSUME rewrites \in [Handlers -> 0..EngineRows], NEW h,
           rewrites' = [rewrites EXCEPT ![h] = EngineRows]
    PROVE  rewrites' \in [Handlers -> 0..EngineRows]
<1>1. EngineRows \in 0..EngineRows
  OBVIOUS
<1> QED
  BY <1>1

LEMMA GatewayType ==
    ASSUME TypeInv, NEW j \in Jobs, Gateway(j)
    PROVE  TypeInv'
<1> USE DEF TypeInv, TypeOK, MarkInHand, Statuses, Write, rowVars, handlerVars, workerVars, historyVars, queueVars
<1>1. CASE SaveJob(j)
  BY <1>1 DEF SaveJob, QueueTypeOK, FiniteLeases, MarkInHand
<1>2. CASE SendJob(j)
  <2>1. [job |-> j, attempt |-> 0] \in Receipt
    BY DEF Receipt
  <2>2. QueueTypeOK' /\ FiniteLeases'
    BY <1>2, <2>1, EnqueueType DEF SendJob
  <2> QED
    BY <1>2, <2>2 DEF SendJob
<1>3. CASE PushRaises(j)
  <2>1. [job |-> j, attempt |-> 0] \in Receipt
    BY DEF Receipt
  <2>2. QueueTypeOK' /\ FiniteLeases'
    <3>1. CASE UNCHANGED queueVars
      BY <1>3, <3>1 DEF PushRaises, QueueTypeOK, FiniteLeases
    <3>2. CASE Enqueue([job |-> j, attempt |-> 0])
      BY <1>3, <2>1, <3>2, EnqueueType DEF PushRaises
    <3> QED
      BY <1>3, <3>1, <3>2 DEF PushRaises
  <2> QED
    BY <1>3, <2>2 DEF PushRaises
<1>4. CASE FailRefused(j)
  <2>1. /\ UNCHANGED <<queueVars, ownerLock, cancelling, copy, workerVars, historyVars>>
        /\ gateway' \in [Jobs -> {"new", "saved", "sent", "refused", "failed"}]
        /\ status' \in [Jobs -> Statuses]
    BY <1>4 DEF FailRefused
  <2>2. rewrites' \in [Handlers -> 0..EngineRows]
    BY <1>4, EnginesWritten DEF FailRefused
  <2> QED
    BY <2>1, <2>2 DEF QueueTypeOK, FiniteLeases
<1>5. CASE ReadCancel(j)
  BY <1>5 DEF ReadCancel, QueueTypeOK, FiniteLeases, MarkInHand
<1>6. CASE WriteCancel(j)
  <2>1. /\ UNCHANGED <<queueVars, ownerLock, gateway, copy, workerVars, historyVars>>
        /\ cancelling' \subseteq Cancellable
        /\ status' \in [Jobs -> Statuses]
    BY <1>6 DEF WriteCancel
  <2>2. rewrites' \in [Handlers -> 0..EngineRows]
    BY <1>6, EnginesWritten DEF WriteCancel
  <2> QED
    BY <2>1, <2>2 DEF QueueTypeOK, FiniteLeases
<1> QED
  BY <1>1, <1>2, <1>3, <1>4, <1>5, <1>6 DEF Gateway

LEMMA HandleType ==
    ASSUME TypeInv, NEW h \in Handlers, Handle(h)
    PROVE  TypeInv'
<1> USE DEF TypeInv, TypeOK, MarkInHand, Write, workerVars, historyVars, queueVars, QueueTypeOK,
            FiniteLeases
<1>1. h[2] \in Jobs
  BY DEF Handlers
<1>2. CASE LoadRow(h)
  BY <1>1, <1>2 DEF LoadRow
<1>3. CASE SkipRow(h)
  BY <1>3 DEF SkipRow
<1>4. CASE SaveRow(h)
  BY <1>1, <1>4 DEF SaveRow
<1> QED
  BY <1>2, <1>3, <1>4 DEF Handle

LEMMA DecideType ==
    ASSUME TypeInv, NEW w \in Workers, Decide(w)
    PROVE  TypeInv'
<1> USE DEF TypeInv, TypeOK, MarkInHand, Statuses, Stages, Inside, Write, Goto, Job, Owner,
            rowVars, handlerVars, workerVars, historyVars, queueVars
<1>1. CASE RecoverExpired(w)
  <2>1. PICK B \in SUBSET expired :
          \E again \in Listings(Retryable(B)), spent \in Listings(B \ Retryable(B)) :
            /\ Recover(B, again)
            /\ todo' = [todo EXCEPT ![w] =
                 [i \in DOMAIN again |-> [job |-> again[i].job, as |-> "queued"]]
                 \o [i \in DOMAIN spent |-> [job |-> spent[i].job, as |-> "failed"]]]
    BY <1>1 DEF RecoverExpired
  <2>2. PICK again \in Listings(Retryable(B)), spent \in Listings(B \ Retryable(B)) :
          /\ Recover(B, again)
          /\ todo' = [todo EXCEPT ![w] =
               [i \in DOMAIN again |-> [job |-> again[i].job, as |-> "queued"]]
               \o [i \in DOMAIN spent |-> [job |-> spent[i].job, as |-> "failed"]]]
    BY <2>1
  <2>3. UNCHANGED ownerLock
    BY <1>1 DEF RecoverExpired
  <2>4. /\ QueueTypeOK' /\ FiniteLeases'
        /\ [i \in DOMAIN again |-> [job |-> again[i].job, as |-> "queued"]]
           \o [i \in DOMAIN spent |-> [job |-> spent[i].job, as |-> "failed"]]
           \in Seq(Mark)
    <3>1. QueueTypeOK /\ FiniteLeases /\ Recover(B, again)
      BY <2>2
    <3> HIDE DEF TypeInv, TypeOK, queueVars
    <3> QED
      BY <2>3, <3>1, RecoverType
  <2>5. todo' \in [Workers -> Seq(Mark)]
    BY <2>2, <2>4
  <2> QED
    BY <1>1, <2>4, <2>5 DEF RecoverExpired
<1>2. CASE SkipMark(w)
  BY <1>2 DEF SkipMark, QueueTypeOK, FiniteLeases, MarkInHand
<1>3. CASE ReadMark(w)
  BY <1>3 DEF ReadMark, QueueTypeOK, FiniteLeases, MarkInHand
<1>4. CASE WriteMark(w)
  <2>1. Head(todo[w]) \in Mark /\ Tail(todo[w]) \in Seq(Mark)
    BY <1>4 DEF WriteMark
  <2>2. status' \in [Jobs -> Statuses]
    BY <1>4, <2>1 DEF WriteMark, Mark
  <2>3. todo' \in [Workers -> Seq(Mark)]
    BY <1>4, <2>1 DEF WriteMark
  <2>4. \/ pc' = [pc EXCEPT ![w] = "marked"] /\ todo' = todo
        \/ pc' = [pc EXCEPT ![w] = "mark"] /\ todo' = [todo EXCEPT ![w] = Tail(@)]
    BY <1>4 DEF WriteMark
  <2>5. MarkInHand'
    BY <1>4, <2>4 DEF WriteMark
  <2>6. /\ UNCHANGED <<queueVars, ownerLock, gateway, handlerVars, claim, heartbeat, flag, held>>
        /\ UNCHANGED historyVars /\ pc' \in [Workers -> Stages]
    BY <1>4, <2>4 DEF WriteMark
  <2>7. \A v \in Workers :
           pc'[v] \in Stages \ {"idle", "mark", "marking", "marked", "pop"} => claim'[v] # None
    <3>1. pc'[w] \in {"mark", "marked"} /\ \A v \in Workers : v # w => pc'[v] = pc[v]
      BY <2>4
    <3> QED
      BY <2>6, <3>1
  <2> QED
    BY <2>2, <2>3, <2>5, <2>6, <2>7 DEF QueueTypeOK, FiniteLeases
<1>5. CASE PopNothing(w)
  BY <1>5 DEF PopNothing, QueueTypeOK, FiniteLeases, MarkInHand
<1>6. CASE Pop(w)
  <2>1. QueueTypeOK' /\ FiniteLeases' /\ Head(queue) \in Receipt
    BY <1>6, ClaimType DEF Pop
  <2>2. Head(queue) # None
    BY <2>1 DEF Receipt, None
  <2> QED
    BY <1>6, <2>1, <2>2 DEF Pop
<1>7. CASE LookupTerminal(w)
  BY <1>7 DEF LookupTerminal, QueueTypeOK, FiniteLeases, MarkInHand
<1>8. CASE LookupActive(w)
  BY <1>8 DEF LookupActive, QueueTypeOK, FiniteLeases, MarkInHand
<1>9. CASE LockTaken(w)
  <2>1. Owner(w) \in Owners /\ Job(w) \in Jobs
    BY <1>9 DEF LockTaken, Receipt, None
  <2> QED
    BY <1>9, <2>1 DEF LockTaken, TakeLock, QueueTypeOK, FiniteLeases, MarkInHand
<1>10. CASE LockBusy(w)
  BY <1>10 DEF LockBusy, QueueTypeOK, FiniteLeases, MarkInHand
<1>11. CASE Requeue(w)
  <2>1. claim[w] \in Receipt
    BY <1>11 DEF Requeue
  <2>2. QueueTypeOK' /\ FiniteLeases'
    BY <1>11, <2>1, EnqueueType DEF Requeue
  <2> QED
    BY <1>11, <2>2 DEF Requeue
<1>12. CASE MarkRequeued(w)
  BY <1>12 DEF MarkRequeued, QueueTypeOK, FiniteLeases, MarkInHand
<1>13. CASE AckClaim(w)
  <2>1. QueueTypeOK' /\ FiniteLeases'
    BY <1>13, AckType DEF AckClaim
  <2> QED
    BY <1>13, <2>1 DEF AckClaim
<1>14. CASE EndMark(w)
  BY <1>14 DEF EndMark, QueueTypeOK, FiniteLeases, MarkInHand
<1> QED
  BY <1>1, <1>2, <1>3, <1>4, <1>5, <1>6, <1>7, <1>8, <1>9, <1>10, <1>11, <1>12, <1>13, <1>14
     DEF Decide

LEMMA RunType ==
    ASSUME TypeInv, NEW w \in Workers, Run(w)
    PROVE  TypeInv'
<1> USE DEF TypeInv, TypeOK, MarkInHand, Statuses, Stages, Inside, Write, Goto, Job, Owner,
            rowVars, handlerVars, workerVars, historyVars, queueVars, QueueTypeOK, FiniteLeases, MarkInHand
<1>1. CASE StartTerminal(w)
  BY <1>1 DEF StartTerminal
<1>2. CASE StartRun(w)
  BY <1>2 DEF StartRun
<1>3. CASE StopCancelled(w)
  BY <1>3 DEF StopCancelled
<1>4. CASE PassCheckpoint(w)
  BY <1>4 DEF PassCheckpoint
<1>5. CASE WriteRunning(w)
  BY <1>5 DEF WriteRunning
<1>6. CASE WriteOutcome(w)
  <2>1. PICK s \in {"done", "failed"} : Write(Job(w), s)
    BY <1>6 DEF WriteOutcome
  <2> QED
    BY <1>6, <2>1 DEF WriteOutcome
<1>7. CASE Release(w)
  BY <1>7 DEF Release, ReleaseLock
<1>8. CASE StartDelete(w)
  BY <1>8 DEF StartDelete
<1>9. CASE DeleteDone(w)
  BY <1>9 DEF DeleteDone
<1>10. CASE FailRun(w)
  BY <1>10 DEF FailRun
<1> QED
  BY <1>1, <1>2, <1>3, <1>4, <1>5, <1>6, <1>7, <1>8, <1>9, <1>10 DEF Run

LEMMA RewriteType ==
    ASSUME TypeInv, NEW w \in Workers, Rewrite(w)
    PROVE  TypeInv'
<1> USE DEF TypeInv, TypeOK, MarkInHand, Stages, Inside, Write, rowVars, handlerVars, historyVars, queueVars,
            QueueTypeOK, FiniteLeases
<1>1. CASE LoadEngineRow(w)
  <2>1. RowOf(w) \in Jobs
    <3>1. CASE pc[w] = "marked"
      <4>1. todo[w] \in Seq(Mark) /\ todo[w] # <<>>
        BY <3>1
      <4>2. Head(todo[w]) \in Mark
        BY <4>1
      <4> QED
        BY <3>1, <4>2 DEF RowOf, Mark
    <3>2. CASE pc[w] # "marked"
      BY <1>1, <3>2 DEF LoadEngineRow, RowOf, Job, Receipt
    <3> QED
      BY <3>1, <3>2
  <2> QED
    BY <1>1, <2>1 DEF LoadEngineRow
<1>2. CASE SaveEngineRow(w)
  BY <1>2 DEF SaveEngineRow
<1> QED
  BY <1>1, <1>2 DEF Rewrite

LEMMA FaultType ==
    ASSUME TypeInv, NEW w \in Workers, Fault(w)
    PROVE  TypeInv'
<1> USE DEF TypeInv, TypeOK, MarkInHand, Statuses, Stages, Inside, Write, Goto, Job, Owner, Runs,
            rowVars, handlerVars, workerVars, historyVars, queueVars, QueueTypeOK, FiniteLeases, MarkInHand
<1>1. CASE HeartbeatEnds(w)
  <2>1. Owner(w) \in Owners
    BY <1>1 DEF HeartbeatEnds, Receipt, None
  <2>2. flag' \in [Workers -> BOOLEAN]
    BY <1>1 DEF HeartbeatEnds
  <2>3. faults' \in 0..MaxFaults
    BY <1>1 DEF HeartbeatEnds
  <2> QED
    BY <1>1, <2>1, <2>2, <2>3 DEF HeartbeatEnds
<1>2. CASE DeleteFails(w)
  <2>1. faults' \in 0..MaxFaults
    BY <1>2 DEF DeleteFails
  <2> QED
    BY <1>2, <2>1 DEF DeleteFails
<1>3. CASE Crash(w)
  <2>1. \A i \in DOMAIN todo[w] : todo[w][i].job \in Jobs
    <3>1. todo[w] \in Seq(Mark)
      OBVIOUS
    <3>2. \A i \in DOMAIN todo[w] : todo[w][i] \in Mark
      BY <3>1
    <3> QED
      BY <3>2 DEF Mark
  <2>2. dropped' \subseteq Jobs
    BY <1>3, <2>1 DEF Crash
  <2>3. ownerLock' \in [Owners -> Jobs \cup {NoJob}]
    BY <1>3 DEF Crash, ReleaseLock
  <2> QED
    BY <1>3, <2>2, <2>3 DEF Crash
<1> QED
  BY <1>1, <1>2, <1>3 DEF Fault

LEMMA TimeType ==
    ASSUME TypeInv,
           \/ \E r \in processing : TimePassesLease(r)
           \/ \E o \in Owners : TimePassesLock(o)
    PROVE  TypeInv'
BY DEF TypeInv, TypeOK, MarkInHand, QueueTypeOK, FiniteLeases, TimePassesLease, TimePassesLock,
       LeaseExpires, LockExpires, rowVars, handlerVars, workerVars, historyVars, queueVars

LEMMA StutterType == TypeInv /\ UNCHANGED vars => TypeInv'
BY
   DEF TypeInv, TypeOK, MarkInHand, QueueTypeOK, FiniteLeases, vars, rowVars, handlerVars,
       workerVars,
       historyVars, queueVars

LEMMA NextType == TypeInv /\ [Next]_vars => TypeInv'
BY GatewayType, HandleType, DecideType, RunType, RewriteType, FaultType, TimeType, StutterType
   DEF Next

(* Every variable keeps its type; in particular no receipt ever carries more
   than MaxRecoveries attempts, however often it is recovered. *)
THEOREM TypeCorrect == Spec => []TypeOK
<1>1. Spec => []TypeInv
  BY InitType, NextType, PTL DEF Spec
<1> QED
  BY <1>1, PTL DEF TypeInv

-----------------------------------------------------------------------------
(* Mutual exclusion.  OwnerExclusion is not inductive by itself: what keeps a
   second job out is that the lock still names the first one, and what keeps
   the lock is its renewal. *)
RenewedRunsHoldLock ==
    \A w \in Workers :
        Runs(w) /\ Owner(w) \notin breach =>
            heartbeat[w] /\ ownerLock[Owner(w)] = Job(w)

ExclusionInv == RenewedRunsHoldLock /\ OwnerExclusion

LEMMA RunningClaim ==
    ASSUME TypeInv, NEW w \in Workers, Runs(w)
    PROVE  Job(w) \in Jobs /\ Owner(w) \in Owners
<1>1. claim[w] \in Receipt
  BY DEF TypeInv, TypeOK, Stages, Inside, Runs
<1> QED
  BY <1>1 DEF Receipt, Job, Owner

LEMMA InitExclusion == Init => ExclusionInv
BY DEF Init, ExclusionInv, RenewedRunsHoldLock, OwnerExclusion, Runs, Inside

(* A step that brings no worker inside and leaves the lock, the claims and the
   renewals of those inside as they are. *)
LEMMA QuietExclusion ==
    ASSUME ExclusionInv,
           \A v \in Workers : pc'[v] \in Inside =>
               pc[v] \in Inside /\ claim'[v] = claim[v] /\ heartbeat'[v] = heartbeat[v],
           ownerLock' = ownerLock,
           breach \subseteq breach'
    PROVE  ExclusionInv'
BY DEF ExclusionInv, RenewedRunsHoldLock, OwnerExclusion, Runs, Owner, Job

LEMMA DecideExclusion ==
    ASSUME TypeInv, ExclusionInv, NEW w \in Workers, Decide(w)
    PROVE  ExclusionInv'
<1>1. CASE LockTaken(w)
  <2>1. Job(w) \in Jobs /\ Owner(w) \in Owners /\ claim' = claim /\ breach' = breach
    BY <1>1 DEF LockTaken, TypeInv, TypeOK, Stages, Inside, Job, Owner, Receipt, None, historyVars
  <2>2. ownerLock[Owner(w)] = NoJob /\ ownerLock' = [ownerLock EXCEPT ![Owner(w)] = Job(w)]
    BY <1>1 DEF LockTaken, TakeLock, LockFree
  <2>3. /\ pc' = [pc EXCEPT ![w] = "start"]
        /\ heartbeat' = [heartbeat EXCEPT ![w] = TRUE]
    BY <1>1 DEF LockTaken, Goto
  <2>4. \A v \in Workers : Runs(v) => Job(v) \in Jobs
    BY RunningClaim
  <2>5. \A v \in Workers : Runs(v) /\ Owner(v) = Owner(w) => Owner(w) \in breach
    BY <2>2, <2>4 DEF ExclusionInv, RenewedRunsHoldLock
  <2>6. \A v \in Workers : v # w => (Runs(v)' <=> Runs(v)) /\ heartbeat'[v] = heartbeat[v]
    BY <2>3 DEF Runs, TypeInv, TypeOK
  <2>7. \A v \in Workers : Owner(v)' = Owner(v) /\ Job(v)' = Job(v)
    BY <2>1 DEF Owner, Job
  <2>8. heartbeat'[w] /\ ownerLock'[Owner(w)] = Job(w)
    BY <2>1, <2>2, <2>3 DEF TypeInv, TypeOK, QueueTypeOK
  <2>9. \A v \in Workers : Owner(v) # Owner(w) => ownerLock'[Owner(v)] = ownerLock[Owner(v)]
    BY <2>2 DEF TypeInv, TypeOK, QueueTypeOK
  <2>10. RenewedRunsHoldLock'
    BY <2>1, <2>5, <2>6, <2>7, <2>8, <2>9 DEF ExclusionInv, RenewedRunsHoldLock
  <2>11. OwnerExclusion'
    BY <2>1, <2>5, <2>6, <2>7 DEF ExclusionInv, OwnerExclusion
  <2> QED
    BY <2>10, <2>11 DEF ExclusionInv
<1>2. CASE ~LockTaken(w)
  <2>1. \A v \in Workers : pc'[v] \in Inside =>
          pc[v] \in Inside /\ claim'[v] = claim[v] /\ heartbeat'[v] = heartbeat[v]
    BY <1>2 DEF Decide, RecoverExpired, SkipMark, ReadMark, WriteMark, EndMark, PopNothing, Pop,
        LookupTerminal, LookupActive, LockBusy, Requeue, MarkRequeued, AckClaim,
        Goto, TypeInv, TypeOK, Inside
  <2>2. ownerLock' = ownerLock /\ breach' = breach
    BY <1>2 DEF Decide, RecoverExpired, SkipMark, ReadMark, WriteMark, EndMark, PopNothing, Pop,
        LookupTerminal, LookupActive, LockBusy, Requeue, MarkRequeued, AckClaim, historyVars
  <2> QED
    BY <2>1, <2>2, QuietExclusion
<1> QED
  BY <1>1, <1>2

(* Leaving gives back the lock of the leaver only: a run of another tenant
   keeps its own, and one of the same tenant is not covered any more. *)
LEMMA LeaveExclusion ==
    ASSUME TypeInv, ExclusionInv, NEW w \in Workers, Runs(w),
           \A v \in Workers : pc'[v] \in Inside =>
               v # w /\ pc[v] \in Inside /\ claim'[v] = claim[v] /\ heartbeat'[v] = heartbeat[v],
           UNCHANGED ownerLock \/ ReleaseLock(Owner(w), Job(w)),
           breach' = breach
    PROVE  ExclusionInv'
<1>1. Owner(w) \in Owners
  BY RunningClaim
<1>2. \A o \in Owners \ {Owner(w)} : ownerLock'[o] = ownerLock[o]
  BY DEF ReleaseLock, TypeInv, TypeOK, QueueTypeOK
<1>3. \A v \in Workers : Runs(v) => Owner(v) \in Owners
  BY RunningClaim
<1>4. \A v \in Workers : Runs(v)' =>
        v # w /\ Runs(v) /\ Owner(v)' = Owner(v) /\ Job(v)' = Job(v) /\ heartbeat'[v] = heartbeat[v]
  BY DEF Runs, Owner, Job
<1>5. \A v \in Workers : Runs(v)' /\ Owner(v) \notin breach => Owner(v) # Owner(w)
  BY <1>4 DEF ExclusionInv, OwnerExclusion
<1>6. RenewedRunsHoldLock'
  BY <1>2, <1>3, <1>4, <1>5 DEF ExclusionInv, RenewedRunsHoldLock
<1>7. OwnerExclusion'
  BY <1>4 DEF ExclusionInv, OwnerExclusion
<1> QED
  BY <1>6, <1>7 DEF ExclusionInv

LEMMA RunExclusion ==
    ASSUME TypeInv, ExclusionInv, NEW w \in Workers, Run(w)
    PROVE  ExclusionInv'
<1>1. CASE Release(w)
  <2>1. \A v \in Workers : pc'[v] \in Inside =>
          v # w /\ pc[v] \in Inside /\ claim'[v] = claim[v] /\ heartbeat'[v] = heartbeat[v]
    BY <1>1 DEF Release, Goto, TypeInv, TypeOK, Inside
  <2> QED
    BY <1>1, <2>1, LeaveExclusion DEF Release, Runs, Inside, historyVars
<1>2. CASE ~Release(w)
  <2>1. \A v \in Workers : pc'[v] \in Inside =>
          pc[v] \in Inside /\ claim'[v] = claim[v] /\ heartbeat'[v] = heartbeat[v]
    BY <1>2 DEF Run, StartTerminal, StartRun, StopCancelled, PassCheckpoint, WriteRunning,
        WriteOutcome, FailRun, StartDelete, DeleteDone, Goto, TypeInv, TypeOK, Inside
  <2>2. ownerLock' = ownerLock /\ breach' = breach
    BY <1>2 DEF Run, StartTerminal, StartRun, StopCancelled, PassCheckpoint, WriteRunning,
        WriteOutcome, FailRun, StartDelete, DeleteDone, historyVars
  <2> QED
    BY <2>1, <2>2, QuietExclusion
<1> QED
  BY <1>1, <1>2

LEMMA FaultExclusion ==
    ASSUME TypeInv, ExclusionInv, NEW w \in Workers, Fault(w)
    PROVE  ExclusionInv'
<1>1. CASE HeartbeatEnds(w)
  <2>1. /\ pc' = pc /\ claim' = claim /\ ownerLock' = ownerLock
        /\ heartbeat' = [heartbeat EXCEPT ![w] = FALSE]
        /\ breach' = breach \cup {Owner(w)}
    BY <1>1 DEF HeartbeatEnds
  <2>2. \A v \in Workers : Owner(v)' = Owner(v) /\ Job(v)' = Job(v) /\ (Runs(v)' <=> Runs(v))
    BY <2>1 DEF Owner, Job, Runs
  <2>3. \A v \in Workers : v # w => heartbeat'[v] = heartbeat[v]
    BY <2>1 DEF TypeInv, TypeOK
  <2>4. RenewedRunsHoldLock'
    BY <2>1, <2>2, <2>3 DEF ExclusionInv, RenewedRunsHoldLock
  <2>5. OwnerExclusion'
    BY <2>1, <2>2 DEF ExclusionInv, OwnerExclusion
  <2> QED
    BY <2>4, <2>5 DEF ExclusionInv
<1>2. CASE DeleteFails(w)
  <2>1. \A v \in Workers : pc'[v] \in Inside =>
          pc[v] \in Inside /\ claim'[v] = claim[v] /\ heartbeat'[v] = heartbeat[v]
    BY <1>2 DEF DeleteFails, Goto, TypeInv, TypeOK, Inside
  <2> QED
    BY <1>2, <2>1, QuietExclusion DEF DeleteFails
<1>3. CASE Crash(w)
  <2>1. \A v \in Workers : pc'[v] \in Inside =>
          v # w /\ pc[v] \in Inside /\ claim'[v] = claim[v] /\ heartbeat'[v] = heartbeat[v]
    BY <1>3 DEF Crash, Goto, TypeInv, TypeOK, Inside
  <2>2. CASE Runs(w)
    BY <1>3, <2>1, <2>2, LeaveExclusion DEF Crash
  <2>3. CASE ~Runs(w)
    BY <1>3, <2>1, <2>3, QuietExclusion DEF Crash
  <2> QED
    BY <2>2, <2>3
<1> QED
  BY <1>1, <1>2, <1>3 DEF Fault

LEMMA TimeExclusion ==
    ASSUME TypeInv, ExclusionInv,
           \/ \E r \in processing : TimePassesLease(r)
           \/ \E o \in Owners : TimePassesLock(o)
    PROVE  ExclusionInv'
<1>1. CASE \E r \in processing : TimePassesLease(r)
  BY <1>1, QuietExclusion DEF TimePassesLease, workerVars, historyVars
<1>2. ASSUME NEW o \in Owners, TimePassesLock(o) PROVE ExclusionInv'
  <2>1. /\ pc' = pc /\ claim' = claim /\ heartbeat' = heartbeat /\ breach' = breach
        /\ ownerLock' = [ownerLock EXCEPT ![o] = NoJob]
    BY <1>2 DEF TimePassesLock, LockExpires, workerVars, historyVars
  <2>2. \A v \in Workers : Owner(v)' = Owner(v) /\ Job(v)' = Job(v) /\ (Runs(v)' <=> Runs(v))
    BY <2>1 DEF Owner, Job, Runs
  <2>3. \A v \in Workers : Runs(v) /\ heartbeat[v] => ownerLock[o] # Job(v)
    BY <1>2 DEF TimePassesLock
  <2>4. \A v \in Workers : Runs(v) /\ Owner(v) \notin breach => Owner(v) # o
    BY <2>3 DEF ExclusionInv, RenewedRunsHoldLock
  <2>5. \A p \in Owners \ {o} : ownerLock'[p] = ownerLock[p]
    BY <2>1 DEF TypeInv, TypeOK, QueueTypeOK
  <2>6. \A v \in Workers : Runs(v) => Owner(v) \in Owners
    BY RunningClaim
  <2>7. RenewedRunsHoldLock'
    BY <2>1, <2>2, <2>4, <2>5, <2>6 DEF ExclusionInv, RenewedRunsHoldLock
  <2>8. OwnerExclusion'
    BY <2>1, <2>2 DEF ExclusionInv, OwnerExclusion
  <2> QED
    BY <2>7, <2>8 DEF ExclusionInv
<1> QED
  BY <1>1, <1>2

LEMMA NextExclusion == TypeInv /\ ExclusionInv /\ [Next]_vars => ExclusionInv'
<1> SUFFICES ASSUME TypeInv, ExclusionInv, [Next]_vars PROVE ExclusionInv'
  OBVIOUS
<1>1. ASSUME NEW j \in Jobs, Gateway(j) PROVE ExclusionInv'
  BY <1>1, QuietExclusion
     DEF Gateway, SaveJob, SendJob, PushRaises, FailRefused, ReadCancel, WriteCancel,
     workerVars, historyVars
<1>3. ASSUME NEW h \in Handlers, Handle(h) PROVE ExclusionInv'
  BY <1>3, QuietExclusion DEF Handle, LoadRow, SkipRow, SaveRow, workerVars, historyVars
<1>4. ASSUME NEW w \in Workers, Rewrite(w) PROVE ExclusionInv'
  BY <1>4, QuietExclusion DEF Rewrite, LoadEngineRow, SaveEngineRow, historyVars
<1>2. CASE UNCHANGED vars
  BY <1>2, QuietExclusion DEF vars, workerVars, historyVars
<1> QED
  BY <1>1, <1>2, <1>3, <1>4, DecideExclusion, RunExclusion, FaultExclusion, TimeExclusion DEF Next

LEMMA ReachableStates == Spec => [](TypeInv /\ ExclusionInv)
BY InitType, InitExclusion, NextType, NextExclusion, PTL DEF Spec

(* However many workers consume the queue and however often they crash, two
   jobs of a tenant are inside the pipeline together only after a run of that
   tenant lost its renewals. *)
THEOREM Exclusion == Spec => []OwnerExclusion
BY ReachableStates, PTL DEF ExclusionInv

-----------------------------------------------------------------------------
(* The workers implement the abstract lock service. *)

(* Taking the lock enters a tenant nobody is in, or one no longer covered. *)
LEMMA TakenIsEnter ==
    ASSUME TypeInv, ExclusionInv, NEW w \in Workers, LockTaken(w)
    PROVE  Mutex!Enter(w, Owner(w))
<1>1. claim[w] \in Receipt
  BY DEF LockTaken, TypeInv, TypeOK, Stages, Inside
<1>2. Job(w) \in Jobs /\ Owner(w) \in Owners
  BY <1>1 DEF Receipt, Job, Owner
<1>3. pc[w] = "lock" /\ pc' = [pc EXCEPT ![w] = "start"] /\ claim' = claim /\ breach' = breach
  BY DEF LockTaken, Goto, historyVars
<1>4. \A t \in Owners : w \notin InsideOf[t]
  BY <1>3 DEF InsideOf, Runs, Inside
<1>5. \A v \in Workers : Runs(v) /\ Owner(v) = Owner(w) => Owner(w) \in breach
  BY RunningClaim, QueueAssumption
     DEF LockTaken, TakeLock, LockFree, ExclusionInv, RenewedRunsHoldLock
<1>6. InsideOf[Owner(w)] = {} \/ Owner(w) \in breach
  BY <1>2, <1>5 DEF InsideOf
<1>7. \A v \in Workers : /\ Owner(v)' = Owner(v)
                         /\ Runs(v)' <=> Runs(v) \/ v = w
  BY <1>3 DEF Owner, Job, Runs, Inside, TypeInv, TypeOK
<1>8. InsideOf' = [InsideOf EXCEPT ![Owner(w)] = @ \cup {w}]
  BY <1>2, <1>7 DEF InsideOf
<1> QED
  BY <1>3, <1>4, <1>6, <1>8 DEF Mutex!Enter

(* A worker that goes out of the pipeline leaves its tenant. *)
LEMMA OutIsLeave ==
    ASSUME TypeInv, NEW w \in Workers, Runs(w), breach' = breach,
           \A v \in Workers : /\ Runs(v)' <=> Runs(v) /\ v # w
                              /\ v # w => claim'[v] = claim[v]
    PROVE  Mutex!Leave(w, Owner(w))
<1>1. Owner(w) \in Owners
  BY RunningClaim
<1>2. w \in InsideOf[Owner(w)]
  BY <1>1 DEF InsideOf
<1>3. \A v \in Workers : v # w => Owner(v)' = Owner(v)
  BY DEF Owner, Job
<1>4. \A o \in Owners : InsideOf'[o] = {v \in Workers : Runs(v) /\ v # w /\ Owner(v) = o}
  BY <1>3 DEF InsideOf
<1>5. InsideOf' = [InsideOf EXCEPT ![Owner(w)] = @ \ {w}]
  BY <1>1, <1>4 DEF InsideOf
<1> QED
  BY <1>2, <1>5 DEF Mutex!Leave

(* A step that moves nobody over the border is a stutter. *)
LEMMA QuietIsStutter ==
    ASSUME breach' = breach,
           \A v \in Workers : /\ Runs(v)' <=> Runs(v)
                              /\ Runs(v) => claim'[v] = claim[v]
    PROVE  UNCHANGED <<InsideOf, breach>>
BY DEF InsideOf, Owner, Job

LEMMA DecideRefines ==
    ASSUME TypeInv, ExclusionInv, NEW w \in Workers, Decide(w)
    PROVE  (\E o \in Owners : Mutex!Enter(w, o)) \/ UNCHANGED <<InsideOf, breach>>
<1>1. CASE LockTaken(w)
  <2>1. claim[w] \in Receipt
    BY <1>1 DEF LockTaken, TypeInv, TypeOK, Stages, Inside
  <2>2. Owner(w) \in Owners
    BY <2>1 DEF Receipt, Job, Owner
  <2> QED
    BY <1>1, <2>2, TakenIsEnter
<1>2. CASE ~LockTaken(w)
  <2>1. \A v \in Workers : (pc'[v] \in Inside <=> pc[v] \in Inside)
    BY <1>2 DEF Decide, RecoverExpired, SkipMark, ReadMark, WriteMark, EndMark, PopNothing, Pop,
        LookupTerminal, LookupActive, LockBusy, Requeue, MarkRequeued, AckClaim,
        Goto, TypeInv, TypeOK, Inside
  <2>2. \A v \in Workers : pc[v] \in Inside => claim'[v] = claim[v]
    BY <1>2 DEF Decide, RecoverExpired, SkipMark, ReadMark, WriteMark, EndMark, PopNothing, Pop,
        LookupTerminal, LookupActive, LockBusy, Requeue, MarkRequeued, AckClaim,
        TypeInv, TypeOK, Inside
  <2>3. breach' = breach
    BY <1>2 DEF Decide, RecoverExpired, SkipMark, ReadMark, WriteMark, EndMark, PopNothing, Pop,
        LookupTerminal, LookupActive, LockBusy, Requeue, MarkRequeued, AckClaim, historyVars
  <2> QED
    BY <2>1, <2>2, <2>3, QuietIsStutter DEF Runs
<1> QED
  BY <1>1, <1>2

LEMMA RunRefines ==
    ASSUME TypeInv, NEW w \in Workers, Run(w)
    PROVE  (\E o \in Owners : Mutex!Leave(w, o)) \/ UNCHANGED <<InsideOf, breach>>
<1>1. CASE Release(w)
  <2>1. /\ pc[w] \in {"handler", "release"} /\ pc' = [pc EXCEPT ![w] = "ack"]
        /\ claim' = claim /\ breach' = breach
    BY <1>1 DEF Release, Goto, historyVars
  <2>2. Runs(w)
    BY <2>1 DEF Runs, Inside
  <2>3. \A v \in Workers : /\ Runs(v)' <=> Runs(v) /\ v # w
                           /\ v # w => claim'[v] = claim[v]
    BY <2>1 DEF Runs, Inside, TypeInv, TypeOK
  <2> QED
    BY <2>1, <2>2, <2>3, OutIsLeave, RunningClaim
<1>2. CASE ~Release(w)
  <2>1. \A v \in Workers : pc'[v] \in Inside <=> pc[v] \in Inside
    BY <1>2 DEF Run, StartTerminal, StartRun, StopCancelled, PassCheckpoint, WriteRunning,
        WriteOutcome, FailRun, StartDelete, DeleteDone, Goto, TypeInv, TypeOK, Inside
  <2>2. claim' = claim /\ breach' = breach
    BY <1>2 DEF Run, StartTerminal, StartRun, StopCancelled, PassCheckpoint, WriteRunning,
        WriteOutcome, FailRun, StartDelete, DeleteDone, historyVars
  <2> QED
    BY <2>1, <2>2, QuietIsStutter DEF Runs
<1> QED
  BY <1>1, <1>2

LEMMA FaultRefines ==
    ASSUME TypeInv, NEW w \in Workers, Fault(w)
    PROVE  \/ \E o \in Owners : Mutex!Leave(w, o) \/ Mutex!Break(o)
           \/ UNCHANGED <<InsideOf, breach>>
<1>1. CASE HeartbeatEnds(w)
  <2>1. Runs(w) /\ pc' = pc /\ claim' = claim /\ breach' = breach \cup {Owner(w)}
    BY <1>1 DEF HeartbeatEnds
  <2>2. Owner(w) \in Owners
    BY <2>1, RunningClaim
  <2>3. w \in InsideOf[Owner(w)]
    BY <2>1, <2>2 DEF InsideOf
  <2>4. InsideOf' = InsideOf
    BY <2>1 DEF InsideOf, Owner, Job, Runs
  <2> QED
    BY <2>1, <2>2, <2>3, <2>4 DEF Mutex!Break
<1>2. CASE DeleteFails(w)
  <2>1. \A v \in Workers : pc'[v] \in Inside <=> pc[v] \in Inside
    BY <1>2 DEF DeleteFails, Goto, TypeInv, TypeOK, Inside
  <2>2. \A v \in Workers : pc[v] \in Inside => claim'[v] = claim[v]
    BY <1>2 DEF DeleteFails, TypeInv, TypeOK, Inside
  <2> QED
    BY <1>2, <2>1, <2>2, QuietIsStutter DEF DeleteFails, Runs
<1>3. CASE Crash(w)
  <2>1. /\ pc' = [pc EXCEPT ![w] = "idle"] /\ claim' = [claim EXCEPT ![w] = None]
        /\ breach' = breach
    BY <1>3 DEF Crash, Goto
  <2>2. \A v \in Workers : /\ pc'[v] \in Inside <=> pc[v] \in Inside /\ v # w
                           /\ v # w => claim'[v] = claim[v]
    BY <2>1 DEF Inside, TypeInv, TypeOK
  <2>3. CASE Runs(w)
    BY <2>1, <2>2, <2>3, OutIsLeave, RunningClaim DEF Runs
  <2>4. CASE ~Runs(w)
    BY <2>1, <2>2, <2>4, QuietIsStutter DEF Runs
  <2> QED
    BY <2>3, <2>4
<1> QED
  BY <1>1, <1>2, <1>3 DEF Fault

LEMMA OthersRefine ==
    ASSUME \/ \E j \in Jobs : Gateway(j)
           \/ \E h \in Handlers : Handle(h)
           \/ \E w \in Workers : Rewrite(w)
           \/ \E r \in processing : TimePassesLease(r)
           \/ \E o \in Owners : TimePassesLock(o)
           \/ UNCHANGED vars
    PROVE  UNCHANGED <<InsideOf, breach>>
<1>1. pc' = pc /\ claim' = claim /\ breach' = breach
  BY
     DEF Gateway, SaveJob, SendJob, PushRaises, FailRefused, ReadCancel, WriteCancel, Handle,
         LoadRow, SkipRow, SaveRow, Rewrite, LoadEngineRow, SaveEngineRow, TimePassesLease,
         TimePassesLock, vars, workerVars, historyVars
<1> QED
  BY <1>1, QuietIsStutter DEF Runs

LEMMA InitRefines == Init => Mutex!Init
BY DEF Init, Mutex!Init, InsideOf, Runs, Inside

LEMMA NextRefines ==
    TypeInv /\ ExclusionInv /\ [Next]_vars => [Mutex!Next]_<<InsideOf, breach>>
<1> SUFFICES ASSUME TypeInv, ExclusionInv, [Next]_vars
             PROVE  [Mutex!Next]_<<InsideOf, breach>>
  OBVIOUS
<1>1. ASSUME NEW w \in Workers, Decide(w) PROVE [Mutex!Next]_<<InsideOf, breach>>
  BY <1>1, DecideRefines DEF Mutex!Next
<1>2. ASSUME NEW w \in Workers, Run(w) PROVE [Mutex!Next]_<<InsideOf, breach>>
  BY <1>2, RunRefines DEF Mutex!Next
<1>3. ASSUME NEW w \in Workers, Fault(w) PROVE [Mutex!Next]_<<InsideOf, breach>>
  BY <1>3, FaultRefines DEF Mutex!Next
<1> QED
  BY <1>1, <1>2, <1>3, OthersRefine DEF Next

(* The workers, Redis and the renewals together are a lock service: a worker
   enters a tenant nobody is in, or one whose run lost its renewals. *)
THEOREM Refinement == Spec => ImplementsMutex
<1>1. Spec => Mutex!Init
  BY InitRefines, PTL DEF Spec
<1>2. Spec => [][Mutex!Next]_<<InsideOf, breach>>
  BY ReachableStates, NextRefines, PTL DEF Spec
<1> QED
  BY <1>1, <1>2, PTL DEF ImplementsMutex, Mutex!Spec
-----------------------------------------------------------------------------
(* Where a worker is, tells what it has in hand. *)
Waiting == {queue[i] : i \in DOMAIN queue}

IndexStages == Inside \cup {"lock", "return", "requeued"}

Placed ==
    \A w \in Workers :
        /\ pc[w] \in {"idle", "mark", "marking", "marked"} => claim[w] = None
        /\ pc[w] \notin {"mark", "marking", "marked"} => todo[w] = <<>>
        /\ pc[w] \notin {"marked", "work", "handler"} => held[w] = NoCopy
        /\ pc[w] \in IndexStages => Job(w) \notin DeleteJobs
        /\ pc[w] = "deleting" => Job(w) \in DeleteJobs

(* Receipts and marks are about jobs whose push was tried. *)
IsSent(j) == j \in Jobs /\ gateway[j] \in {"sent", "refused", "failed"}
AllSent ==
    /\ \A r \in processing : IsSent(r.job)
    /\ \A i \in DOMAIN queue : IsSent(queue[i].job)
    /\ \A w \in Workers : claim[w] # None => IsSent(Job(w))
    /\ \A w \in Workers : \A i \in DOMAIN todo[w] : IsSent(todo[w][i].job)

PlaceInv == Placed /\ AllSent

(* The entries of a list that got longer or lost its head. *)
LEMMA AppendEntries ==
    ASSUME NEW S, NEW q \in Seq(S), NEW r \in S
    PROVE  /\ \A i \in DOMAIN Append(q, r) :
                 \/ i \in DOMAIN q /\ Append(q, r)[i] = q[i]
                 \/ i = Len(q) + 1 /\ Append(q, r)[i] = r
           /\ \A i \in DOMAIN q : i \in DOMAIN Append(q, r) /\ Append(q, r)[i] = q[i]
           /\ Len(q) + 1 \in DOMAIN Append(q, r) /\ Append(q, r)[Len(q) + 1] = r
           /\ Len(q) + 1 \notin DOMAIN q
OBVIOUS

LEMMA TailEntries ==
    ASSUME NEW S, NEW q \in Seq(S), q # <<>>
    PROVE  /\ Tail(q) \in Seq(S)
           /\ \A i \in DOMAIN Tail(q) : i + 1 \in DOMAIN q /\ Tail(q)[i] = q[i + 1]
           /\ 1 \in DOMAIN q /\ Head(q) = q[1]
           /\ \A i \in DOMAIN Tail(q) : i + 1 # 1
           /\ \A i \in DOMAIN q : i = 1 \/ (i - 1 \in DOMAIN Tail(q) /\ Tail(q)[i - 1] = q[i])
OBVIOUS

LEMMA ConcatEntries ==
    ASSUME NEW S, NEW q \in Seq(S), NEW p \in Seq(S)
    PROVE  /\ \A i \in DOMAIN (q \o p) :
                 \/ i \in DOMAIN q /\ (q \o p)[i] = q[i]
                 \/ i \notin DOMAIN q /\ \E k \in DOMAIN p : (q \o p)[i] = p[k]
           /\ \A i \in DOMAIN q : i \in DOMAIN (q \o p) /\ (q \o p)[i] = q[i]
           /\ \A k \in DOMAIN p : \E i \in DOMAIN (q \o p) : (q \o p)[i] = p[k]
<1>1. ASSUME NEW i \in DOMAIN (q \o p)
      PROVE  \/ i \in DOMAIN q /\ (q \o p)[i] = q[i]
             \/ i \notin DOMAIN q /\ \E k \in DOMAIN p : (q \o p)[i] = p[k]
  <2>1. CASE i \in DOMAIN q
    BY <2>1
  <2>2. CASE i \notin DOMAIN q
    <3>1. i - Len(q) \in DOMAIN p /\ (q \o p)[i] = p[i - Len(q)]
      BY <2>2
    <3> QED
      BY <2>2, <3>1
  <2> QED
    BY <2>1, <2>2
<1>2. ASSUME NEW k \in DOMAIN p
      PROVE  \E i \in DOMAIN (q \o p) : (q \o p)[i] = p[k]
  <2>1. Len(q) + k \in DOMAIN (q \o p) /\ (q \o p)[Len(q) + k] = p[k]
    OBVIOUS
  <2> QED
    BY <2>1
<1> QED
  BY <1>1, <1>2

(* A listing of a finite set shows all of it. *)
LEMMA ListingCovers ==
    ASSUME NEW S, IsFiniteSet(S), NEW s \in Listings(S)
    PROVE  \A r \in S : \E i \in DOMAIN s : s[i] = r
<1>1. Cardinality(S) \in Nat
  BY FS_CardinalityType
<1>2. IsFiniteSet(1..Cardinality(S)) /\ Cardinality(1..Cardinality(S)) = Cardinality(S)
  BY <1>1, FS_Interval
<1>3. s \in [1..Cardinality(S) -> S] /\ s \in Injection(1..Cardinality(S), S)
  BY DEF Listings, Injection, IsInjective
<1>4. s \in Surjection(1..Cardinality(S), S)
  BY <1>2, <1>3, FS_Injection
<1> QED
  BY <1>3, <1>4 DEF Surjection

(* What a recovery pass does to the list of receipts and to the marks. *)
LEMMA RecoverEntries ==
    ASSUME TypeInv, NEW w \in Workers, RecoverExpired(w)
    PROVE  \E B \in SUBSET expired :
             /\ processing' = processing \ B /\ expired' = expired \ B
             /\ \A i \in DOMAIN queue' :
                   \/ i \in DOMAIN queue /\ queue'[i] = queue[i]
                   \/ i \notin DOMAIN queue /\ \E r \in B : queue'[i] = Retried(r)
             /\ \A i \in DOMAIN queue : i \in DOMAIN queue' /\ queue'[i] = queue[i]
             /\ todo'[w] \in Seq(Mark)
             /\ \A i \in DOMAIN todo'[w] :
                   /\ \E r \in B : todo'[w][i].job = r.job
                   /\ todo'[w][i].as = "queued" =>
                         \E k \in DOMAIN queue' : queue'[k].job = todo'[w][i].job
             /\ \A r \in B :
                   \/ \E k \in DOMAIN queue' : queue'[k].job = r.job
                   \/ \E i \in DOMAIN todo'[w] : todo'[w][i] = [job |-> r.job, as |-> "failed"]
<1>1. PICK B \in SUBSET expired :
        \E again \in Listings(Retryable(B)), spent \in Listings(B \ Retryable(B)) :
          /\ Recover(B, again)
          /\ todo' = [todo EXCEPT ![w] =
               [i \in DOMAIN again |-> [job |-> again[i].job, as |-> "queued"]]
               \o [i \in DOMAIN spent |-> [job |-> spent[i].job, as |-> "failed"]]]
  BY DEF RecoverExpired
<1>2. PICK again \in Listings(Retryable(B)), spent \in Listings(B \ Retryable(B)) :
        /\ Recover(B, again)
        /\ todo' = [todo EXCEPT ![w] =
             [i \in DOMAIN again |-> [job |-> again[i].job, as |-> "queued"]]
             \o [i \in DOMAIN spent |-> [job |-> spent[i].job, as |-> "failed"]]]
  BY <1>1
<1> DEFINE retried == [i \in DOMAIN again |-> Retried(again[i])]
           requeued == [i \in DOMAIN again |-> [job |-> again[i].job, as |-> "queued"]]
           given_up == [i \in DOMAIN spent |-> [job |-> spent[i].job, as |-> "failed"]]
<1>3. /\ processing' = processing \ B /\ expired' = expired \ B
      /\ queue' = queue \o retried
      /\ todo'[w] = requeued \o given_up
  BY <1>2 DEF Recover, TypeInv, TypeOK
<1>4. IsFiniteSet(Retryable(B)) /\ IsFiniteSet(B \ Retryable(B)) /\ B \subseteq Receipt
  BY FS_Subset, Retryable(B) \subseteq processing, B \ Retryable(B) \subseteq processing
     DEF TypeInv, TypeOK, QueueTypeOK, FiniteLeases, Retryable
<1>5. /\ again \in Seq(Retryable(B)) /\ DOMAIN again = 1..Len(again)
      /\ spent \in Seq(B \ Retryable(B)) /\ DOMAIN spent = 1..Len(spent)
  BY <1>4, ListingType
<1>6. /\ \A i \in DOMAIN again : again[i] \in B
      /\ \A i \in DOMAIN spent : spent[i] \in B
  BY <1>5 DEF Retryable
<1>7. retried \in Seq({Retried(r) : r \in B})
  BY <1>5, <1>6
<1>8. \A r \in B : Retried(r).job = r.job
  BY <1>4 DEF Retried, Receipt
<1>9. requeued \in Seq(Mark) /\ given_up \in Seq(Mark)
  <2>1. \A i \in DOMAIN again : [job |-> again[i].job, as |-> "queued"] \in Mark
    BY <1>4, <1>6 DEF Receipt, Mark
  <2>2. \A i \in DOMAIN spent : [job |-> spent[i].job, as |-> "failed"] \in Mark
    BY <1>4, <1>6 DEF Receipt, Mark
  <2> QED
    BY <1>5, <2>1, <2>2
<1>10. queue \in Seq(Receipt)
  BY DEF TypeInv, TypeOK, QueueTypeOK
<1>11. /\ DOMAIN retried = DOMAIN again /\ DOMAIN requeued = DOMAIN again
       /\ DOMAIN given_up = DOMAIN spent
       /\ \A k \in DOMAIN again :
             /\ again[k] \in B /\ retried[k] = Retried(again[k])
             /\ retried[k].job = again[k].job
             /\ requeued[k].job = again[k].job /\ requeued[k].as = "queued"
       /\ \A k \in DOMAIN spent :
             /\ spent[k] \in B /\ given_up[k] = [job |-> spent[k].job, as |-> "failed"]
             /\ given_up[k].job = spent[k].job /\ given_up[k].as = "failed"
  BY <1>6, <1>8
<1>20. /\ \A r \in Retryable(B) : \E k \in DOMAIN again : again[k] = r
       /\ \A r \in B \ Retryable(B) : \E k \in DOMAIN spent : spent[k] = r
  BY <1>4, ListingCovers
<1> HIDE DEF retried, requeued, given_up
<1>12. /\ queue \in Seq(Receipt \cup {Retried(r) : r \in B})
       /\ retried \in Seq(Receipt \cup {Retried(r) : r \in B})
  BY <1>7, <1>10
<1>13. /\ \A i \in DOMAIN queue' :
             \/ i \in DOMAIN queue /\ queue'[i] = queue[i]
             \/ i \notin DOMAIN queue /\ \E k \in DOMAIN retried : queue'[i] = retried[k]
       /\ \A i \in DOMAIN queue : i \in DOMAIN queue' /\ queue'[i] = queue[i]
       /\ \A k \in DOMAIN retried : \E i \in DOMAIN queue' : queue'[i] = retried[k]
  BY <1>3, <1>12, ConcatEntries
<1>14. /\ \A i \in DOMAIN todo'[w] :
             \/ i \in DOMAIN requeued /\ todo'[w][i] = requeued[i]
             \/ i \notin DOMAIN requeued /\ \E k \in DOMAIN given_up : todo'[w][i] = given_up[k]
       /\ \A k \in DOMAIN given_up : \E i \in DOMAIN todo'[w] : todo'[w][i] = given_up[k]
  BY <1>3, <1>9, ConcatEntries
<1>15. todo'[w] \in Seq(Mark)
  BY <1>3, <1>9
<1>16. \A i \in DOMAIN todo'[w] :
          /\ \E r \in B : todo'[w][i].job = r.job
          /\ todo'[w][i].as = "queued" => \E k \in DOMAIN queue' : queue'[k].job = todo'[w][i].job
  <2> SUFFICES ASSUME NEW i \in DOMAIN todo'[w]
               PROVE  /\ \E r \in B : todo'[w][i].job = r.job
                      /\ todo'[w][i].as = "queued" =>
                            \E k \in DOMAIN queue' : queue'[k].job = todo'[w][i].job
    OBVIOUS
  <2>1. CASE i \in DOMAIN requeued /\ todo'[w][i] = requeued[i]
    <3>1. again[i] \in B /\ todo'[w][i].job = again[i].job /\ retried[i].job = again[i].job
      BY <1>11, <2>1
    <3>2. \E k \in DOMAIN queue' : queue'[k] = retried[i]
      BY <1>11, <1>13, <2>1
    <3> QED
      BY <3>1, <3>2
  <2>2. CASE \E k \in DOMAIN given_up : todo'[w][i] = given_up[k]
    BY <1>11, <2>2
  <2> QED
    BY <1>14, <2>1, <2>2
<1>17. \A r \in B : \/ \E k \in DOMAIN queue' : queue'[k].job = r.job
                    \/ \E i \in DOMAIN todo'[w] : todo'[w][i] = [job |-> r.job, as |-> "failed"]
  <2> SUFFICES ASSUME NEW r \in B
               PROVE  \/ \E k \in DOMAIN queue' : queue'[k].job = r.job
                      \/ \E i \in DOMAIN todo'[w] :
                            todo'[w][i] = [job |-> r.job, as |-> "failed"]
    OBVIOUS
  <2>1. CASE r \in Retryable(B)
    <3>1. PICK k \in DOMAIN again : again[k] = r
      BY <1>20, <2>1
    <3>2. retried[k].job = r.job /\ k \in DOMAIN retried
      BY <1>11, <3>1
    <3> QED
      BY <1>13, <3>2
  <2>2. CASE r \notin Retryable(B)
    <3>1. PICK k \in DOMAIN spent : spent[k] = r
      BY <1>20, <2>2
    <3>2. given_up[k] = [job |-> r.job, as |-> "failed"] /\ k \in DOMAIN given_up
      BY <1>11, <3>1
    <3> QED
      BY <1>14, <3>2
  <2> QED
    BY <2>1, <2>2
<1>18. \A i \in DOMAIN queue' :
          \/ i \in DOMAIN queue /\ queue'[i] = queue[i]
          \/ i \notin DOMAIN queue /\ \E r \in B : queue'[i] = Retried(r)
  BY <1>11, <1>13
<1> QED
  BY <1>3, <1>13, <1>15, <1>16, <1>17, <1>18

(* Every step of a worker leaves the others where they are. *)
LEMMA InitPlace == Init => PlaceInv
BY DEF Init, QueueInit, PlaceInv, Placed, AllSent, IndexStages, Inside

LEMMA NextPlaced == TypeInv /\ Placed /\ [Next]_vars => Placed'
<1> SUFFICES ASSUME TypeInv, Placed, [Next]_vars PROVE Placed'
  OBVIOUS
<1> USE DEF Placed, IndexStages, Inside, Job, Goto
<1>0. /\ pc \in [Workers -> Stages] /\ claim \in [Workers -> Receipt \cup {None}]
      /\ todo \in [Workers -> Seq(Mark)] /\ held \in [Workers -> Statuses \cup {NoCopy}]
  BY DEF TypeInv, TypeOK
<1>1. ASSUME UNCHANGED <<pc, claim, todo, held>> PROVE Placed'
  BY <1>1
<1>2. ASSUME NEW w \in Workers,
             \/ RecoverExpired(w) \/ SkipMark(w) \/ ReadMark(w) \/ WriteMark(w) \/ EndMark(w)
             \/ PopNothing(w)
      PROVE  Placed'
  <2>1. /\ pc[w] \in {"idle", "mark", "marking", "marked"} /\ UNCHANGED <<claim, held>>
        /\ held[w] = NoCopy
        /\ \/ \E p \in {"mark", "marking", "marked"} : pc' = [pc EXCEPT ![w] = p]
           \/ pc' = [pc EXCEPT ![w] = "idle"] /\ todo[w] = <<>> /\ todo' = todo
           \/ pc' = pc /\ pc[w] = "mark"
    BY <1>0, <1>2 DEF RecoverExpired, SkipMark, ReadMark, WriteMark, EndMark, PopNothing
  <2>2. \A v \in Workers : v # w => todo'[v] = todo[v]
    BY <1>0, <1>2 DEF RecoverExpired, SkipMark, ReadMark, WriteMark, EndMark, PopNothing
  <2> QED
    BY <1>0, <2>1, <2>2
<1>3. ASSUME NEW w \in Workers, Pop(w) PROVE Placed'
  BY <1>0, <1>3 DEF Pop
<1>4. ASSUME NEW w \in Workers,
             \/ LookupTerminal(w) \/ LookupActive(w) \/ LockTaken(w) \/ LockBusy(w)
             \/ Requeue(w) \/ MarkRequeued(w)
      PROVE  Placed'
  BY <1>0, <1>4 DEF LookupTerminal, LookupActive, LockTaken, LockBusy, Requeue, MarkRequeued
<1>5. ASSUME NEW w \in Workers, AckClaim(w) PROVE Placed'
  BY <1>0, <1>5 DEF AckClaim
<1>6. ASSUME NEW w \in Workers, Run(w) PROVE Placed'
  BY <1>0, <1>6 DEF Run, StartTerminal, StartRun, StopCancelled, PassCheckpoint,
     WriteRunning, WriteOutcome, FailRun, Release, StartDelete, DeleteDone
<1>7. ASSUME NEW w \in Workers, DeleteFails(w) \/ Crash(w) PROVE Placed'
  <2>1. /\ pc' = [pc EXCEPT ![w] = "idle"] /\ claim' = [claim EXCEPT ![w] = None]
        /\ todo'[w] = <<>> /\ held'[w] = NoCopy
        /\ \A v \in Workers : v # w => todo'[v] = todo[v] /\ held'[v] = held[v]
    BY <1>0, <1>7 DEF DeleteFails, Crash
  <2> QED
    BY <1>0, <2>1
<1>11. ASSUME NEW w \in Workers, Rewrite(w) PROVE Placed'
  <2>1. /\ pc[w] \in {"marked", "work", "handler"} /\ UNCHANGED <<pc, claim, todo>>
        /\ \A v \in Workers : v # w => held'[v] = held[v]
    BY <1>11 DEF Rewrite, LoadEngineRow, SaveEngineRow, TypeInv, TypeOK
  <2> QED
    BY <2>1
<1>12. ASSUME NEW h \in Handlers, Handle(h) PROVE Placed'
  BY <1>1, <1>12 DEF Handle, LoadRow, SkipRow, SaveRow, workerVars
<1>8. ASSUME NEW w \in Workers, HeartbeatEnds(w) PROVE Placed'
  BY <1>1, <1>8 DEF HeartbeatEnds
<1>9. ASSUME NEW j \in Jobs, Gateway(j) PROVE Placed'
  BY <1>1, <1>9
     DEF Gateway, SaveJob, SendJob, PushRaises, FailRefused, ReadCancel, WriteCancel, workerVars
<1>10. ASSUME \/ \E r \in processing : TimePassesLease(r)
              \/ \E o \in Owners : TimePassesLock(o)
              \/ UNCHANGED vars
       PROVE  Placed'
  BY <1>1, <1>10 DEF TimePassesLease, TimePassesLock, vars, workerVars
<1> QED
  BY <1>2, <1>3, <1>4, <1>5, <1>6, <1>7, <1>8, <1>9, <1>10, <1>11, <1>12 DEF Next, Decide, Fault

(* What was sent stays sent, so it is enough that no step makes a receipt or a
   mark for any other job. *)
LEMMA SameSent ==
    ASSUME AllSent, \A j : IsSent(j) => IsSent(j)',
           \A r \in processing' : r \in processing,
           \A i \in DOMAIN queue' : \E k \in DOMAIN queue : queue'[i].job = queue[k].job,
           \A w \in Workers : claim'[w] = claim[w] \/ claim'[w] = None,
           \A w \in Workers : \A i \in DOMAIN todo'[w] :
               \E k \in DOMAIN todo[w] : todo'[w][i] = todo[w][k]
    PROVE  AllSent'
<1>1. (\A r \in processing : IsSent(r.job))'
  BY DEF AllSent
<1>2. (\A i \in DOMAIN queue : IsSent(queue[i].job))'
  BY DEF AllSent
<1>3. (\A w \in Workers : claim[w] # None => IsSent(Job(w)))'
  BY DEF AllSent, Job
<1>4. (\A w \in Workers : \A i \in DOMAIN todo[w] : IsSent(todo[w][i].job))'
  BY DEF AllSent
<1> QED
  BY <1>1, <1>2, <1>3, <1>4 DEF AllSent

LEMMA NextSent == TypeInv /\ Placed /\ AllSent /\ [Next]_vars => AllSent'
<1> SUFFICES ASSUME TypeInv, Placed, AllSent, [Next]_vars PROVE AllSent'
  OBVIOUS
<1>0. /\ pc \in [Workers -> Stages] /\ claim \in [Workers -> Receipt \cup {None}]
      /\ todo \in [Workers -> Seq(Mark)] /\ queue \in Seq(Receipt)
  BY DEF TypeInv, TypeOK, QueueTypeOK
<1>1. ASSUME NEW w \in Workers, RecoverExpired(w) PROVE AllSent'
  <2>1. PICK B \in SUBSET expired :
          /\ processing' = processing \ B
          /\ \A i \in DOMAIN queue' :
               \/ i \in DOMAIN queue /\ queue'[i] = queue[i]
               \/ i \notin DOMAIN queue /\ \E r \in B : queue'[i] = Retried(r)
          /\ \A i \in DOMAIN todo'[w] : \E r \in B : todo'[w][i].job = r.job
    BY <1>1, RecoverEntries
  <2>2. \A r \in B : r \in Receipt /\ IsSent(r.job)
    BY DEF AllSent, TypeInv, TypeOK, QueueTypeOK
  <2>3. \A r \in B : Retried(r).job = r.job
    BY <2>2 DEF Retried, Receipt
  <2>4. gateway' = gateway /\ claim' = claim /\ \A v \in Workers : v # w => todo'[v] = todo[v]
    BY <1>0, <1>1 DEF RecoverExpired, rowVars
  <2>5. (\A i \in DOMAIN queue : IsSent(queue[i].job))'
    BY <2>1, <2>2, <2>3, <2>4 DEF AllSent, IsSent
  <2>6. (\A v \in Workers : \A i \in DOMAIN todo[v] : IsSent(todo[v][i].job))'
    <3> SUFFICES ASSUME NEW v \in Workers, NEW i \in DOMAIN todo'[v]
                 PROVE  IsSent(todo'[v][i].job)
      BY <2>4 DEF IsSent
    <3>1. CASE v = w
      BY <2>1, <2>2, <3>1
    <3>2. CASE v # w
      BY <2>4, <3>2 DEF AllSent
    <3> QED
      BY <3>1, <3>2
  <2> QED
    BY <2>1, <2>4, <2>5, <2>6 DEF AllSent, IsSent, Job
<1>2. ASSUME NEW w \in Workers, SkipMark(w) \/ WriteMark(w) \/ EndMark(w) PROVE AllSent'
  <2>1. /\ todo[w] # <<>> /\ todo[w] \in Seq(Mark)
        /\ todo' = [todo EXCEPT ![w] = Tail(@)] \/ todo' = todo
    BY <1>0, <1>2 DEF SkipMark, WriteMark, EndMark, TypeInv, MarkInHand
  <2>2. \A i \in DOMAIN Tail(todo[w]) : \E k \in DOMAIN todo[w] : Tail(todo[w])[i] = todo[w][k]
    BY <2>1, TailEntries
  <2>3. \A v \in Workers : \A i \in DOMAIN todo'[v] :
          \E k \in DOMAIN todo[v] : todo'[v][i] = todo[v][k]
    BY <1>0, <2>1, <2>2
  <2>4. UNCHANGED <<queue, processing, claim, gateway>>
    BY <1>2 DEF SkipMark, WriteMark, EndMark, queueVars, rowVars
  <2> QED
    BY <2>3, <2>4, SameSent DEF IsSent
<1>3. ASSUME NEW w \in Workers, Pop(w) PROVE AllSent'
  <2>1. /\ queue # <<>> /\ queue' = Tail(queue) /\ processing' = processing \cup {Head(queue)}
        /\ claim' = [claim EXCEPT ![w] = Head(queue)] /\ UNCHANGED <<gateway, todo>>
    BY <1>3 DEF Pop, Claim, rowVars
  <2>2. /\ \A i \in DOMAIN queue' : \E k \in DOMAIN queue : queue'[i] = queue[k]
        /\ \E k \in DOMAIN queue : Head(queue) = queue[k]
    BY <1>0, <2>1, TailEntries
  <2>3. IsSent(Head(queue).job)
    BY <2>2 DEF AllSent
  <2>4. (\A v \in Workers : claim[v] # None => IsSent(Job(v)))'
    BY <1>0, <2>1, <2>3 DEF AllSent, Job, IsSent
  <2>5. (\A r \in processing : IsSent(r.job))'
    BY <2>1, <2>3 DEF AllSent, IsSent
  <2>6. (\A i \in DOMAIN queue : IsSent(queue[i].job))'
    BY <2>1, <2>2 DEF AllSent, IsSent
  <2> QED
    BY <2>1, <2>4, <2>5, <2>6 DEF AllSent, IsSent
<1>4. ASSUME NEW w \in Workers, Requeue(w) PROVE AllSent'
  <2>1. claim[w] \in Receipt /\ claim[w] # None
    BY <1>4 DEF Requeue, TypeInv, TypeOK, Stages, Inside
  <2>2. IsSent(claim[w].job)
    BY <2>1 DEF AllSent, Job
  <2>3. queue' = Append(queue, claim[w]) /\ UNCHANGED <<processing, gateway, claim, todo>>
    BY <1>4 DEF Requeue, Enqueue, rowVars
  <2>4. \A i \in DOMAIN queue' : (i \in DOMAIN queue /\ queue'[i] = queue[i]) \/ queue'[i] = claim[w]
    BY <1>0, <2>1, <2>3, AppendEntries
  <2> QED
    BY <2>2, <2>3, <2>4 DEF AllSent, IsSent, Job
<1>5. ASSUME NEW w \in Workers,
             \/ ReadMark(w) \/ PopNothing(w) \/ LookupTerminal(w) \/ LookupActive(w)
             \/ LockTaken(w) \/ LockBusy(w) \/ MarkRequeued(w) \/ Run(w) \/ HeartbeatEnds(w)
             \/ AckClaim(w) \/ DeleteFails(w) \/ Rewrite(w)
      PROVE  AllSent'
  <2>1. /\ UNCHANGED <<queue, gateway, todo>> /\ processing' \subseteq processing
        /\ \A v \in Workers : claim'[v] = claim[v] \/ claim'[v] = None
    BY <1>0, <1>5 DEF ReadMark, PopNothing, LookupTerminal, LookupActive, LockTaken, LockBusy,
       MarkRequeued, AckClaim, Ack, DeleteFails, HeartbeatEnds, Rewrite, LoadEngineRow,
       SaveEngineRow, Run, StartTerminal, StartRun,
       StopCancelled, PassCheckpoint, WriteRunning, WriteOutcome, FailRun, Release, StartDelete,
       DeleteDone, queueVars, rowVars
  <2> QED
    BY <2>1, SameSent DEF IsSent
<1>6. ASSUME NEW w \in Workers, Crash(w) PROVE AllSent'
  <2>1. /\ UNCHANGED <<queue, gateway, processing>>
        /\ \A v \in Workers : claim'[v] = claim[v] \/ claim'[v] = None
        /\ \A v \in Workers : todo'[v] = todo[v] \/ todo'[v] = <<>>
    BY <1>0, <1>6 DEF Crash, queueVars, rowVars
  <2>2. \A v \in Workers : \A i \in DOMAIN todo'[v] :
          \E k \in DOMAIN todo[v] : todo'[v][i] = todo[v][k]
    BY <2>1
  <2> QED
    BY <2>1, <2>2, SameSent DEF IsSent
<1>7. ASSUME NEW j \in Jobs, SendJob(j) \/ PushRaises(j) PROVE AllSent'
  <2>1. /\ \E g \in {"sent", "refused"} : gateway' = [gateway EXCEPT ![j] = g]
        /\ UNCHANGED <<processing, claim, todo>>
        /\ queue' = Append(queue, [job |-> j, attempt |-> 0]) \/ queue' = queue
    BY <1>7 DEF SendJob, PushRaises, Enqueue, queueVars, workerVars
  <2>2. [job |-> j, attempt |-> 0] \in Receipt
    BY DEF Receipt
  <2>3. \A i \in DOMAIN queue' : \/ i \in DOMAIN queue /\ queue'[i] = queue[i]
                                 \/ queue'[i] = [job |-> j, attempt |-> 0]
    BY <1>0, <2>1, <2>2, AppendEntries
  <2>4. (\A k : IsSent(k) => IsSent(k)') /\ IsSent(j)'
    BY <2>1 DEF IsSent, TypeInv, TypeOK
  <2>5. (\A i \in DOMAIN queue : IsSent(queue[i].job))'
    BY <2>3, <2>4 DEF AllSent
  <2> QED
    BY <2>1, <2>4, <2>5 DEF AllSent, Job
<1>8. ASSUME NEW j \in Jobs, SaveJob(j) \/ FailRefused(j) \/ ReadCancel(j) \/ WriteCancel(j)
      PROVE  AllSent'
  <2>1. UNCHANGED <<queue, processing, claim, todo>>
    BY <1>8 DEF SaveJob, FailRefused, ReadCancel, WriteCancel, workerVars, queueVars
  <2>2. \A k : IsSent(k) => IsSent(k)'
    BY <1>8 DEF SaveJob, FailRefused, ReadCancel, WriteCancel, TypeInv, TypeOK, IsSent
  <2> QED
    BY <2>1, <2>2, SameSent
<1>9. ASSUME \/ \E r \in processing : TimePassesLease(r)
             \/ \E o \in Owners : TimePassesLock(o)
             \/ \E h \in Handlers : Handle(h)
             \/ UNCHANGED vars
      PROVE  AllSent'
  <2>1. UNCHANGED <<queue, processing, claim, todo, gateway>>
    BY <1>9
       DEF TimePassesLease, LeaseExpires, TimePassesLock, Handle, LoadRow, SkipRow, SaveRow, vars,
           queueVars, workerVars, rowVars
  <2> QED
    BY <2>1, SameSent DEF IsSent
<1> QED
  BY <1>1, <1>2, <1>3, <1>4, <1>5, <1>6, <1>7, <1>8, <1>9 DEF Next, Gateway, Decide, Fault

-----------------------------------------------------------------------------
(* Without a fault an index job has one receipt, which is either waiting or
   with one worker that has yet to run it or to put it back. *)
TokenStages == Inside \cup {"lookup", "lock", "return"}
IndexClaim(w) == pc[w] \in TokenStages /\ Job(w) \notin DeleteJobs

FirstAttempts ==
    /\ \A r \in processing : r.job \notin DeleteJobs => r.attempt = 0
    /\ \A i \in DOMAIN queue : queue[i].job \notin DeleteJobs => queue[i].attempt = 0
    /\ \A w \in Workers : Job(w) \notin DeleteJobs => claim[w].attempt = 0

OneToken ==
    /\ \A i, k \in DOMAIN queue :
          queue[i].job = queue[k].job /\ queue[i].job \notin DeleteJobs => i = k
    /\ \A w \in Workers : IndexClaim(w) => \A i \in DOMAIN queue : queue[i].job # Job(w)
    /\ \A u, w \in Workers : IndexClaim(u) /\ IndexClaim(w) /\ Job(u) = Job(w) => u = w

(* A run whose receipt is leased renews it, and holds the lock. *)
RunsAreRenewed ==
    \A w \in Workers :
        Runs(w) /\ claim[w] \in processing =>
            heartbeat[w] /\ ownerLock[Owner(w)] = Job(w)

(* Whatever is leased is in the hands of a worker, so it does not run out. *)
LeasesAreHeld ==
    /\ \A r \in processing : r.job \notin DeleteJobs => \E w \in Workers : claim[w] = r
    /\ \A r \in expired : r.job \in DeleteJobs

Calm == FirstAttempts /\ OneToken /\ RunsAreRenewed /\ LeasesAreHeld

Untroubled == faults = 0 => Calm

LEMMA InitUntroubled == Init => Untroubled
BY DEF Init, QueueInit, Untroubled, Calm, FirstAttempts, OneToken, RunsAreRenewed, LeasesAreHeld,
       IndexClaim, TokenStages, Inside, Runs, None, Job

(* A step that moves no receipt, lets no lock go and brings nobody inside. *)
LEMMA QuietCalm ==
    ASSUME Calm, UNCHANGED <<queue, processing, expired, claim, ownerLock>>,
           \A v \in Workers : /\ pc'[v] \in TokenStages => pc[v] \in TokenStages
                              /\ pc'[v] \in Inside =>
                                    pc[v] \in Inside /\ heartbeat'[v] = heartbeat[v]
    PROVE  Calm'
<1>1. FirstAttempts'
  BY DEF Calm, FirstAttempts, Job
<1>2. OneToken'
  BY DEF Calm, OneToken, IndexClaim, Job
<1>3. RunsAreRenewed' /\ LeasesAreHeld'
  BY DEF Calm, RunsAreRenewed, LeasesAreHeld, Runs, Owner, Job
<1> QED
  BY <1>1, <1>2, <1>3 DEF Calm

LEMMA PopCalm ==
    ASSUME TypeInv, PlaceInv, Calm, NEW w \in Workers, Pop(w)
    PROVE  Calm'
<1>0. /\ pc \in [Workers -> Stages] /\ claim \in [Workers -> Receipt \cup {None}]
      /\ queue \in Seq(Receipt)
  BY DEF TypeInv, TypeOK, QueueTypeOK
<1>1. /\ pc[w] = "mark" /\ pc' = [pc EXCEPT ![w] = "lookup"]
      /\ queue # <<>> /\ queue' = Tail(queue) /\ processing' = processing \cup {Head(queue)}
      /\ expired' = expired \ {Head(queue)} /\ claim' = [claim EXCEPT ![w] = Head(queue)]
      /\ UNCHANGED <<ownerLock, heartbeat>>
  BY DEF Pop, Claim, Goto
<1>2. /\ \A i \in DOMAIN queue' : i + 1 \in DOMAIN queue /\ queue'[i] = queue[i + 1] /\ i + 1 # 1
      /\ 1 \in DOMAIN queue /\ Head(queue) = queue[1]
  BY <1>0, <1>1, TailEntries
<1>3. \A i, k \in DOMAIN queue' : i + 1 = k + 1 => i = k
  BY <1>0, <1>1, TailEntries
<1>4. claim[w] = None /\ ~Runs(w)
  BY <1>1 DEF PlaceInv, Placed, Runs, Inside
<1>5. \A v \in Workers : v # w => pc'[v] = pc[v] /\ claim'[v] = claim[v]
  BY <1>0, <1>1
<1>6. pc'[w] = "lookup" /\ claim'[w] = queue[1]
  BY <1>0, <1>1, <1>2
<1>7. FirstAttempts'
  BY <1>1, <1>2, <1>5, <1>6 DEF Calm, FirstAttempts, Job
<1>8. OneToken'
  <2>1. (\A i, k \in DOMAIN queue :
           queue[i].job = queue[k].job /\ queue[i].job \notin DeleteJobs => i = k)'
    BY <1>2, <1>3 DEF Calm, OneToken
  <2>2. (\A v \in Workers : IndexClaim(v) => \A i \in DOMAIN queue : queue[i].job # Job(v))'
    BY <1>2, <1>5, <1>6 DEF Calm, OneToken, IndexClaim, Job
  <2>3. (\A u, v \in Workers : IndexClaim(u) /\ IndexClaim(v) /\ Job(u) = Job(v) => u = v)'
    BY <1>2, <1>5, <1>6 DEF Calm, OneToken, IndexClaim, Job
  <2> QED
    BY <2>1, <2>2, <2>3 DEF OneToken
<1>9. RunsAreRenewed'
  <2> SUFFICES ASSUME NEW v \in Workers, Runs(v)', claim'[v] \in processing'
               PROVE  heartbeat'[v] /\ ownerLock'[Owner(v)'] = Job(v)'
    BY DEF RunsAreRenewed
  <2>1. v # w /\ Runs(v) /\ claim'[v] = claim[v]
    BY <1>5, <1>6 DEF Runs, Inside
  <2>2. IndexClaim(v)
    BY <2>1 DEF IndexClaim, TokenStages, Runs, PlaceInv, Placed, IndexStages
  <2>3. claim[v] # Head(queue)
    BY <1>2, <2>2 DEF Calm, OneToken, Job
  <2>4. claim[v] \in processing
    BY <1>1, <2>1, <2>3
  <2> QED
    BY <1>1, <2>1, <2>4 DEF Calm, RunsAreRenewed, Owner, Job
<1>10. LeasesAreHeld'
  <2>1. ASSUME NEW r \in processing', r.job \notin DeleteJobs
        PROVE  \E v \in Workers : claim'[v] = r
    <3>1. CASE r = Head(queue)
      BY <1>2, <1>6, <3>1
    <3>2. CASE r # Head(queue)
      <4>1. PICK v \in Workers : claim[v] = r
        BY <1>1, <2>1, <3>2 DEF Calm, LeasesAreHeld
      <4>2. r \in Receipt
        BY <1>1, <3>2 DEF TypeInv, TypeOK, QueueTypeOK
      <4>3. v # w
        BY <1>4, <4>1, <4>2 DEF Receipt, None
      <4> QED
        BY <1>5, <4>1, <4>3
    <3> QED
      BY <3>1, <3>2
  <2> QED
    BY <1>1, <2>1 DEF Calm, LeasesAreHeld
<1> QED
  BY <1>7, <1>8, <1>9, <1>10 DEF Calm

(* The receipt of a busy tenant goes from the worker to the end of the list. *)
LEMMA RequeueCalm ==
    ASSUME TypeInv, PlaceInv, Calm, NEW w \in Workers, Requeue(w)
    PROVE  Calm'
<1>0. /\ pc \in [Workers -> Stages] /\ claim \in [Workers -> Receipt \cup {None}]
      /\ queue \in Seq(Receipt)
  BY DEF TypeInv, TypeOK, QueueTypeOK
<1>1. /\ pc[w] = "return" /\ pc' = [pc EXCEPT ![w] = "requeued"]
      /\ queue' = Append(queue, claim[w])
      /\ UNCHANGED <<processing, expired, claim, ownerLock, heartbeat>>
  BY DEF Requeue, Enqueue, Goto
<1>2. claim[w] \in Receipt /\ claim[w] # None /\ IndexClaim(w)
  BY <1>1 DEF TypeInv, TypeOK, Stages, Inside, PlaceInv, Placed, IndexStages, IndexClaim,
     TokenStages
<1>3. \A i \in DOMAIN queue' : \/ i \in DOMAIN queue /\ queue'[i] = queue[i]
                               \/ i = Len(queue) + 1 /\ queue'[i] = claim[w]
  BY <1>0, <1>1, <1>2, AppendEntries
<1>4. \A v \in Workers : /\ v # w => pc'[v] = pc[v]
                         /\ pc'[v] \in TokenStages => v # w /\ pc[v] \in TokenStages
                         /\ pc'[v] \in Inside => v # w /\ pc[v] \in Inside
  BY <1>0, <1>1 DEF TokenStages, Inside
<1>5. FirstAttempts'
  BY <1>1, <1>2, <1>3 DEF Calm, FirstAttempts, Job
<1>6. OneToken'
  <2>1. \A i \in DOMAIN queue : queue[i].job # claim[w].job
    BY <1>2 DEF Calm, OneToken, Job
  <2>2. (\A i, k \in DOMAIN queue :
           queue[i].job = queue[k].job /\ queue[i].job \notin DeleteJobs => i = k)'
    BY <1>3, <2>1 DEF Calm, OneToken
  <2>3. \A v \in Workers : v # w /\ IndexClaim(v) => Job(v) # Job(w)
    BY <1>2 DEF Calm, OneToken
  <2>4. (\A v \in Workers : IndexClaim(v) => \A i \in DOMAIN queue : queue[i].job # Job(v))'
    BY <1>1, <1>3, <1>4, <2>3 DEF Calm, OneToken, IndexClaim, Job
  <2>5. (\A u, v \in Workers : IndexClaim(u) /\ IndexClaim(v) /\ Job(u) = Job(v) => u = v)'
    BY <1>1, <1>4 DEF Calm, OneToken, IndexClaim, Job
  <2> QED
    BY <2>2, <2>4, <2>5 DEF OneToken
<1>7. RunsAreRenewed' /\ LeasesAreHeld'
  BY <1>1, <1>4 DEF Calm, RunsAreRenewed, LeasesAreHeld, Runs, Owner, Job
<1> QED
  BY <1>5, <1>6, <1>7 DEF Calm

LEMMA AckCalm ==
    ASSUME TypeInv, Calm, NEW w \in Workers, AckClaim(w)
    PROVE  Calm'
<1>0. pc \in [Workers -> Stages] /\ claim \in [Workers -> Receipt \cup {None}]
  BY DEF TypeInv, TypeOK
<1>1. /\ pc' = [pc EXCEPT ![w] = "idle"] /\ claim' = [claim EXCEPT ![w] = None]
      /\ processing' = processing \ {claim[w]} /\ expired' = expired \ {claim[w]}
      /\ UNCHANGED <<queue, ownerLock, heartbeat>>
  BY DEF AckClaim, Ack, Goto
<1>2. \A v \in Workers : /\ v # w => pc'[v] = pc[v] /\ claim'[v] = claim[v]
                         /\ pc'[v] \in TokenStages => v # w /\ pc[v] \in TokenStages
                         /\ pc'[v] \in Inside => v # w /\ pc[v] \in Inside
  BY <1>0, <1>1 DEF TokenStages, Inside
<1>3. FirstAttempts'
  BY <1>0, <1>1, <1>2 DEF Calm, FirstAttempts, Job, None
<1>4. OneToken'
  BY <1>1, <1>2 DEF Calm, OneToken, IndexClaim, Job
<1>5. RunsAreRenewed'
  BY <1>1, <1>2 DEF Calm, RunsAreRenewed, Runs, Owner, Job
<1>6. LeasesAreHeld'
  BY <1>1, <1>2 DEF Calm, LeasesAreHeld
<1> QED
  BY <1>3, <1>4, <1>5, <1>6 DEF Calm

(* What a recovery pass takes up are deletions. *)
LEMMA RecoverCalm ==
    ASSUME TypeInv, Calm, NEW w \in Workers, RecoverExpired(w)
    PROVE  Calm'
<1>0. pc \in [Workers -> Stages]
  BY DEF TypeInv, TypeOK
<1>1. PICK B \in SUBSET expired :
        /\ processing' = processing \ B /\ expired' = expired \ B
        /\ \A i \in DOMAIN queue' :
             \/ i \in DOMAIN queue /\ queue'[i] = queue[i]
             \/ i \notin DOMAIN queue /\ \E r \in B : queue'[i] = Retried(r)
  BY RecoverEntries
<1>2. \A r \in B : r \in Receipt /\ r.job \in DeleteJobs
  BY DEF Calm, LeasesAreHeld, TypeInv, TypeOK, QueueTypeOK
<1>3. \A r \in B : Retried(r).job \in DeleteJobs
  BY <1>2 DEF Retried, Receipt
<1>4. \A i \in DOMAIN queue' :
         queue'[i].job \notin DeleteJobs => i \in DOMAIN queue /\ queue'[i] = queue[i]
  BY <1>1, <1>3
<1>5. /\ pc[w] = "idle" /\ pc' = [pc EXCEPT ![w] = "mark"]
      /\ UNCHANGED <<claim, ownerLock, heartbeat>>
  BY DEF RecoverExpired, Goto
<1>6. \A v \in Workers : /\ pc'[v] \in TokenStages => pc[v] \in TokenStages
                         /\ pc'[v] \in Inside => pc[v] \in Inside
  BY <1>0, <1>5 DEF TokenStages, Inside
<1>7. FirstAttempts'
  BY <1>1, <1>4, <1>5 DEF Calm, FirstAttempts, Job
<1>8. OneToken'
  <2>1. (\A i, k \in DOMAIN queue :
           queue[i].job = queue[k].job /\ queue[i].job \notin DeleteJobs => i = k)'
    BY <1>4 DEF Calm, OneToken
  <2>2. (\A v \in Workers : IndexClaim(v) => \A i \in DOMAIN queue : queue[i].job # Job(v))'
    BY <1>4, <1>5, <1>6 DEF Calm, OneToken, IndexClaim, Job
  <2>3. (\A u, v \in Workers : IndexClaim(u) /\ IndexClaim(v) /\ Job(u) = Job(v) => u = v)'
    BY <1>5, <1>6 DEF Calm, OneToken, IndexClaim, Job
  <2> QED
    BY <2>1, <2>2, <2>3 DEF OneToken
<1>9. RunsAreRenewed' /\ LeasesAreHeld'
  BY <1>1, <1>5, <1>6 DEF Calm, RunsAreRenewed, LeasesAreHeld, Runs, Owner, Job
<1> QED
  BY <1>7, <1>8, <1>9 DEF Calm

(* Two runs are of different jobs, so leaving takes nobody else's lock. *)
LEMMA LockCalm ==
    ASSUME TypeInv, PlaceInv, Calm, NEW w \in Workers, LockTaken(w) \/ Release(w)
    PROVE  Calm'
<1>0. /\ pc \in [Workers -> Stages] /\ heartbeat \in [Workers -> BOOLEAN]
      /\ ownerLock \in [Owners -> Jobs \cup {NoJob}]
  BY DEF TypeInv, TypeOK, QueueTypeOK
<1>1. UNCHANGED <<queue, processing, expired, claim>>
  BY DEF LockTaken, Release, queueVars
<1>2. pc[w] \in TokenStages /\ \A v \in Workers : v # w =>
        pc'[v] = pc[v] /\ heartbeat'[v] = heartbeat[v]
  BY <1>0 DEF LockTaken, Release, Goto, TokenStages, Inside
<1>3. FirstAttempts'
  BY <1>1 DEF Calm, FirstAttempts, Job
<1>4. OneToken'
  BY <1>1, <1>2 DEF Calm, OneToken, IndexClaim, Job
<1>5. LeasesAreHeld'
  BY <1>1 DEF Calm, LeasesAreHeld
<1>6. \A v \in Workers : Runs(v) => Owner(v) \in Owners /\ Job(v) \in Jobs
  BY RunningClaim
<1>7. Owner(w) \in Owners /\ Job(w) \in Jobs
  <2>1. claim[w] \in Receipt
    BY DEF LockTaken, Release, TypeInv, TypeOK, Stages, Inside
  <2> QED
    BY <2>1 DEF Receipt, Owner, Job
<1>8. RunsAreRenewed'
  <2> SUFFICES ASSUME NEW v \in Workers, Runs(v)', claim[v] \in processing
               PROVE  heartbeat'[v] /\ ownerLock'[Owner(v)] = Job(v)
    BY <1>1 DEF RunsAreRenewed, Owner, Job
  <2>1. CASE v = w
    <3>1. LockTaken(w)
      BY <1>0, <2>1 DEF Release, Goto, Runs, Inside
    <3> QED
      BY <1>0, <1>7, <2>1, <3>1 DEF LockTaken, TakeLock
  <2>2. CASE v # w
    <3>1. Runs(v) /\ heartbeat'[v] /\ ownerLock[Owner(v)] = Job(v)
      BY <1>2, <2>2 DEF Runs, Calm, RunsAreRenewed
    <3>2. Job(v) # Job(w)
      <4>1. IndexClaim(v) /\ IndexClaim(w)
        BY <1>2, <3>1 DEF IndexClaim, TokenStages, Runs, PlaceInv, Placed, IndexStages,
           LockTaken, Release, Inside
      <4> QED
        BY <2>2, <4>1 DEF Calm, OneToken
    <3>3. Owner(v) # Owner(w) => ownerLock'[Owner(v)] = ownerLock[Owner(v)]
      BY <1>0, <1>6, <3>1 DEF LockTaken, TakeLock, Release, ReleaseLock
    <3>4. CASE Owner(v) = Owner(w)
      <4>1. Release(w)
        BY <1>6, <3>1, <3>4 DEF LockTaken, TakeLock, LockFree
      <4> QED
        BY <1>0, <1>7, <3>1, <3>2, <3>4, <4>1 DEF Release, ReleaseLock
    <3> QED
      BY <3>1, <3>3, <3>4
  <2> QED
    BY <2>1, <2>2
<1> QED
  BY <1>3, <1>4, <1>5, <1>8 DEF Calm

LEMMA SendCalm ==
    ASSUME TypeInv, PlaceInv, Calm, NEW j \in Jobs, SendJob(j)
    PROVE  Calm'
<1>0. queue \in Seq(Receipt)
  BY DEF TypeInv, TypeOK, QueueTypeOK
<1> DEFINE r == [job |-> j, attempt |-> 0]
<1>1. /\ queue' = Append(queue, r)
      /\ UNCHANGED <<pc, processing, expired, claim, ownerLock, heartbeat>>
  BY DEF SendJob, Enqueue, workerVars
<1>2. r \in Receipt /\ r.job = j /\ r.attempt = 0
  BY DEF Receipt
<1> HIDE DEF r
<1>3. \A i \in DOMAIN queue' : \/ i \in DOMAIN queue /\ queue'[i] = queue[i]
                               \/ i = Len(queue) + 1 /\ queue'[i] = r
  BY <1>0, <1>1, <1>2, AppendEntries
<1>4. ~IsSent(j)
  BY DEF SendJob, IsSent
<1>5. /\ \A i \in DOMAIN queue : queue[i].job # j
      /\ \A v \in Workers : IndexClaim(v) => Job(v) # j
  <2>1. \A v \in Workers : IndexClaim(v) => claim[v] # None
    BY DEF IndexClaim, TokenStages, Inside, TypeInv, TypeOK, Stages
  <2> QED
    BY <1>4, <2>1 DEF PlaceInv, AllSent
<1>6. FirstAttempts'
  BY <1>1, <1>2, <1>3 DEF Calm, FirstAttempts, Job
<1>7. OneToken'
  <2>1. (\A i, k \in DOMAIN queue :
           queue[i].job = queue[k].job /\ queue[i].job \notin DeleteJobs => i = k)'
    BY <1>2, <1>3, <1>5 DEF Calm, OneToken
  <2>2. \A v \in Workers : IndexClaim(v)' <=> IndexClaim(v)
    BY <1>1 DEF IndexClaim, Job
  <2>3. (\A v \in Workers : IndexClaim(v) => \A i \in DOMAIN queue : queue[i].job # Job(v))'
    BY <1>1, <1>2, <1>3, <1>5, <2>2 DEF Calm, OneToken, Job
  <2>4. (\A u, v \in Workers : IndexClaim(u) /\ IndexClaim(v) /\ Job(u) = Job(v) => u = v)'
    BY <1>1, <2>2 DEF Calm, OneToken, Job
  <2> QED
    BY <2>1, <2>3, <2>4 DEF OneToken
<1>8. RunsAreRenewed' /\ LeasesAreHeld'
  BY <1>1 DEF Calm, RunsAreRenewed, LeasesAreHeld, Runs, Owner, Job
<1> QED
  BY <1>6, <1>7, <1>8 DEF Calm

(* A renewal that ends without a fault had nothing left to renew. *)
LEMMA HeartbeatCalm ==
    ASSUME TypeInv, Calm, NEW w \in Workers, HeartbeatEnds(w), faults' = faults
    PROVE  Calm'
<1>1. /\ Runs(w) /\ heartbeat' = [heartbeat EXCEPT ![w] = FALSE]
      /\ UNCHANGED <<queue, processing, expired, claim, pc, ownerLock>>
  BY DEF HeartbeatEnds, queueVars
<1>2. claim[w] \notin processing
  <2>1. faults \in Nat
    BY DEF TypeInv, TypeOK
  <2>2. faults' # faults + 1
    BY <2>1
  <2>3. ~LockIsMine(Owner(w), Job(w)) \/ ~LeaseIsHeld(claim[w])
    BY <2>2 DEF HeartbeatEnds
  <2> QED
    BY <1>1, <2>3 DEF LockIsMine, LeaseIsHeld, Calm, RunsAreRenewed
<1>3. FirstAttempts' /\ LeasesAreHeld'
  BY <1>1 DEF Calm, FirstAttempts, LeasesAreHeld, Job
<1>4. OneToken'
  BY <1>1 DEF Calm, OneToken, IndexClaim, Job
<1>5. RunsAreRenewed'
  BY <1>1, <1>2 DEF Calm, RunsAreRenewed, Runs, Owner, Job, TypeInv, TypeOK
<1> QED
  BY <1>3, <1>4, <1>5 DEF Calm

(* A lease that is held, and a lock whose run is renewed, do not run out. *)
LEMMA TimeCalm ==
    ASSUME TypeInv, PlaceInv, Calm,
           \/ \E r \in processing : TimePassesLease(r)
           \/ \E o \in Owners : TimePassesLock(o)
    PROVE  Calm'
<1>1. ASSUME NEW r \in processing, TimePassesLease(r) PROVE Calm'
  <2>1. /\ expired' = expired \cup {r}
        /\ UNCHANGED <<queue, processing, claim, pc, ownerLock, heartbeat>>
    BY <1>1 DEF TimePassesLease, LeaseExpires, workerVars
  <2>2. r.job \in DeleteJobs
    <3> SUFFICES ASSUME r.job \notin DeleteJobs PROVE FALSE
      OBVIOUS
    <3>1. PICK w \in Workers : claim[w] = r
      BY DEF Calm, LeasesAreHeld
    <3>2. pc[w] # "deleting" /\ (Runs(w) => heartbeat[w])
      BY <3>1 DEF PlaceInv, Placed, Job, Calm, RunsAreRenewed
    <3> QED
      BY <1>1, <3>1, <3>2 DEF TimePassesLease, Covers
  <2>3. FirstAttempts' /\ RunsAreRenewed'
    BY <2>1 DEF Calm, FirstAttempts, RunsAreRenewed, Runs, Owner, Job
  <2>4. OneToken'
    BY <2>1 DEF Calm, OneToken, IndexClaim, Job
  <2>5. LeasesAreHeld'
    BY <2>1, <2>2 DEF Calm, LeasesAreHeld
  <2> QED
    BY <2>3, <2>4, <2>5 DEF Calm
<1>2. ASSUME NEW o \in Owners, TimePassesLock(o) PROVE Calm'
  <2>1. /\ ownerLock' = [ownerLock EXCEPT ![o] = NoJob]
        /\ UNCHANGED <<queue, processing, expired, claim, pc, heartbeat>>
    BY <1>2 DEF TimePassesLock, LockExpires, workerVars, queueVars
  <2>2. FirstAttempts' /\ LeasesAreHeld'
    BY <2>1 DEF Calm, FirstAttempts, LeasesAreHeld, Job
  <2>3. OneToken'
    BY <2>1 DEF Calm, OneToken, IndexClaim, Job
  <2>4. RunsAreRenewed'
    <3> SUFFICES ASSUME NEW w \in Workers, Runs(w), claim[w] \in processing
                 PROVE  heartbeat[w] /\ ownerLock'[Owner(w)] = Job(w)
      BY <2>1 DEF RunsAreRenewed, Runs, Owner, Job
    <3>1. heartbeat[w] /\ ownerLock[Owner(w)] = Job(w) /\ Owner(w) \in Owners
      BY RunningClaim DEF Calm, RunsAreRenewed
    <3>2. Owner(w) # o
      BY <1>2, <3>1 DEF TimePassesLock
    <3> QED
      BY <2>1, <3>1, <3>2 DEF TypeInv, TypeOK, QueueTypeOK
  <2> QED
    BY <2>2, <2>3, <2>4 DEF Calm
<1> QED
  BY <1>1, <1>2

LEMMA NextUntroubled == TypeInv /\ PlaceInv /\ Untroubled /\ [Next]_vars => Untroubled'
<1> SUFFICES ASSUME TypeInv, PlaceInv, Untroubled, [Next]_vars, faults' = 0 PROVE Calm'
  BY DEF Untroubled, Calm
<1>0. pc \in [Workers -> Stages] /\ faults \in Nat
  BY DEF TypeInv, TypeOK
<1>1. faults' # faults + 1
  BY <1>0
<1>2. faults' = faults
  BY <1>1
     DEF Next, Gateway, SaveJob, SendJob, PushRaises, FailRefused, ReadCancel, WriteCancel, Decide,
     RecoverExpired, SkipMark, ReadMark, WriteMark, EndMark, PopNothing, Pop, LookupTerminal,
     LookupActive, LockTaken, LockBusy, Requeue, MarkRequeued, AckClaim, Run, StartTerminal,
     StartRun, StopCancelled, PassCheckpoint, WriteRunning, WriteOutcome, FailRun, Release, StartDelete,
     DeleteDone, Fault, HeartbeatEnds, DeleteFails, Crash, TimePassesLease, TimePassesLock,
     Handle, LoadRow, SkipRow, SaveRow, Rewrite, LoadEngineRow, SaveEngineRow, vars, historyVars
<1>3. Calm
  BY <1>2 DEF Untroubled, Calm
<1>4. ASSUME NEW j \in Jobs, Gateway(j) PROVE Calm'
  <2>1. CASE SendJob(j)
    BY <1>3, <2>1, SendCalm
  <2>2. CASE ~SendJob(j)
    <3>1. ~PushRaises(j)
      BY <1>1 DEF PushRaises
    <3> QED
      BY <1>3, <1>4, <2>2, <3>1, QuietCalm
         DEF Gateway, SaveJob, FailRefused, ReadCancel, WriteCancel,
         queueVars, workerVars
  <2> QED
    BY <2>1, <2>2
<1>5. ASSUME NEW w \in Workers,
             \/ SkipMark(w) \/ ReadMark(w) \/ WriteMark(w) \/ EndMark(w) \/ PopNothing(w)
             \/ LookupTerminal(w) \/ LookupActive(w) \/ LockBusy(w) \/ MarkRequeued(w)
             \/ (Run(w) /\ ~Release(w))
      PROVE  Calm'
  <2>1. UNCHANGED <<queue, processing, expired, claim, ownerLock, heartbeat>>
    BY <1>5 DEF SkipMark, ReadMark, WriteMark, EndMark, PopNothing, LookupTerminal, LookupActive,
       LockBusy, MarkRequeued, Run, StartTerminal, StartRun, StopCancelled, PassCheckpoint,
       WriteRunning, WriteOutcome, FailRun, StartDelete, DeleteDone, queueVars
  <2>2. \A v \in Workers : /\ pc'[v] \in TokenStages => pc[v] \in TokenStages
                           /\ pc'[v] \in Inside => pc[v] \in Inside
    BY <1>0, <1>5
       DEF SkipMark, ReadMark, WriteMark, EndMark, PopNothing, LookupTerminal, LookupActive,
       LockBusy, MarkRequeued, Run, StartTerminal, StartRun, StopCancelled, PassCheckpoint,
       WriteRunning, WriteOutcome, FailRun, StartDelete, DeleteDone, Goto, TokenStages, Inside
  <2> QED
    BY <1>3, <2>1, <2>2, QuietCalm
<1>6. ASSUME NEW w \in Workers, DeleteFails(w) \/ Crash(w) PROVE FALSE
  BY <1>1, <1>6 DEF DeleteFails, Crash
<1>7. ASSUME NEW w \in Workers, HeartbeatEnds(w) PROVE Calm'
  BY <1>2, <1>3, <1>7, HeartbeatCalm
<1>8. CASE UNCHANGED vars \/ \E h \in Handlers : Handle(h)
  BY <1>3, <1>8, QuietCalm DEF vars, Handle, LoadRow, SkipRow, SaveRow, queueVars, workerVars
<1>9. ASSUME NEW w \in Workers, Rewrite(w) PROVE Calm'
  BY <1>3, <1>9, QuietCalm DEF Rewrite, LoadEngineRow, SaveEngineRow, queueVars
<1> QED
  BY <1>3, <1>4, <1>5, <1>6, <1>7, <1>8, <1>9, PopCalm, RequeueCalm, AckCalm, RecoverCalm, LockCalm,
     TimeCalm DEF Next, Decide, Run, Fault

(* Up to the first fault no index job has spent one of its
   INDEX_JOB_MAX_RECOVERIES attempts, with any number of consumers, tenants and
   jobs: neither a busy tenant nor a long run costs one. *)
THEOREM CalmCostsNothing == Spec => []AttemptsCostFaults
<1>1. Init => TypeInv /\ PlaceInv /\ Untroubled
  BY InitType, InitPlace, InitUntroubled
<1>2. TypeInv /\ PlaceInv /\ Untroubled /\ [Next]_vars => (TypeInv /\ PlaceInv /\ Untroubled)'
  BY NextType, NextPlaced, NextSent, NextUntroubled DEF PlaceInv
<1>3. Untroubled => AttemptsCostFaults
  BY DEF Untroubled, Calm, FirstAttempts, AttemptsCostFaults
<1> QED
  BY <1>1, <1>2, <1>3, PTL DEF Spec

-----------------------------------------------------------------------------
(* One consumer. *)
OneConsumer == \A u, w \in Workers : u = w

(* Between the look at a row and the write that rests on it nobody else
   finishes the job, unless a handler of the API put an older status back. *)
Unfinished ==
    {"lock", "return", "requeued", "start", "parse", "parsing", "work", "finish", "handler"}
Fresh ==
    \A w \in Workers :
        /\ pc[w] \in Unfinished => status[Job(w)] # "done" \/ Job(w) \in stale
        /\ pc[w] \in {"marking", "marked"} =>
              status[Head(todo[w]).job] # "done" \/ Head(todo[w]).job \in stale
        /\ held[w] = "done" => RowOf(w) \in stale

(* A row is there from the first save on, and nobody holds a copy of a row that
   is not there. *)
Rows ==
    /\ \A j \in Jobs : gateway[j] = "new" <=> status[j] = "absent"
    /\ \A j \in cancelling : gateway[j] # "new"
    /\ \A h \in Handlers : rewrites[h] > 0 => gateway[h[2]] # "new"
    /\ \A h \in Handlers : copy[h] # "absent"
    /\ \A w \in Workers : held[w] # "absent"

Over(j) == Terminal(status[j]) \/ j \in stale

(* A claim stays leased until it is acknowledged, and by then the row is
   terminal or the receipt is back on the list. *)
InKeeping ==
    \A w \in Workers :
        /\ claim[w] # None => claim[w] \in processing
        /\ pc[w] \in {"handler", "release"} => Over(Job(w))
        /\ pc[w] = "marked" => Over(Head(todo[w]).job)
        /\ pc[w] \in {"marked", "handler"} /\ held[w] # NoCopy =>
              Terminal(held[w]) \/ RowOf(w) \in stale
        /\ pc[w] = "requeued" => claim[w] \in Waiting
        /\ pc[w] = "ack" => Over(Job(w)) \/ claim[w] \in Waiting
        /\ \A i \in DOMAIN todo[w] :
              todo[w][i].as = "queued" => \E r \in Waiting : r.job = todo[w][i].job

SoloInv == Fresh /\ Rows /\ InKeeping /\ NoOtherOrphan

LEMMA InitSolo == Init => SoloInv
BY DEF Init, QueueInit, SoloInv, Fresh, Rows, InKeeping, NoOtherOrphan, Submitted, Unfinished, None,
   NoCopy

(* What the stage of a worker says about what it has in hand. *)
LEMMA InStage ==
    ASSUME TypeInv, PlaceInv, NEW w \in Workers
    PROVE  /\ pc[w] \in Unfinished \cup {"release", "ack", "lookup", "deleting"} =>
                 claim[w] \in Receipt /\ claim[w] # None /\ Job(w) \in Jobs /\ IsSent(Job(w))
           /\ todo[w] \in Seq(Mark)
           /\ \A i \in DOMAIN todo[w] : todo[w][i] \in Mark /\ IsSent(todo[w][i].job)
<1>1. todo[w] \in Seq(Mark) /\ \A i \in DOMAIN todo[w] : todo[w][i] \in Mark
  <2>1. todo[w] \in Seq(Mark)
    BY DEF TypeInv, TypeOK
  <2> QED
    BY <2>1
<1>2. \A i \in DOMAIN todo[w] : IsSent(todo[w][i].job)
  BY DEF PlaceInv, AllSent
<1>3. ASSUME pc[w] \in Unfinished \cup {"release", "ack", "lookup", "deleting"}
      PROVE  claim[w] \in Receipt /\ claim[w] # None /\ Job(w) \in Jobs /\ IsSent(Job(w))
  <2>1. claim[w] \in Receipt /\ claim[w] # None
    BY <1>3 DEF TypeInv, TypeOK, Stages, Inside, Unfinished
  <2> QED
    BY <2>1 DEF Receipt, Job, PlaceInv, AllSent
<1> QED
  BY <1>1, <1>2, <1>3

LEMMA MarkedHead ==
    ASSUME TypeInv, PlaceInv, NEW w \in Workers, todo[w] # <<>>
    PROVE  /\ Head(todo[w]) \in Mark /\ IsSent(Head(todo[w]).job)
           /\ 1 \in DOMAIN todo[w] /\ Head(todo[w]) = todo[w][1]
<1>1. todo[w] \in Seq(Mark)
  BY InStage
<1>2. 1 \in DOMAIN todo[w] /\ Head(todo[w]) = todo[w][1]
  BY <1>1, TailEntries
<1> QED
  BY <1>2, InStage

(* The row a worker may save again is that of a job it has in hand. *)
LEMMA RowInHand ==
    ASSUME TypeInv, PlaceInv, NEW w \in Workers, pc[w] \in {"marked", "work", "handler"}
    PROVE  /\ RowOf(w) \in Jobs /\ IsSent(RowOf(w))
           /\ pc[w] = "marked" => RowOf(w) = Head(todo[w]).job
           /\ pc[w] # "marked" => RowOf(w) = Job(w)
<1>1. pc[w] = "marked" => IsSent(Head(todo[w]).job)
  BY MarkedHead DEF TypeInv, MarkInHand
<1>2. pc[w] # "marked" => IsSent(Job(w))
  BY InStage DEF Unfinished
<1> QED
  BY <1>1, <1>2 DEF RowOf, IsSent

(* The rows in hand are nobody's before the push. *)
LEMMA RowsInHand ==
    ASSUME TypeInv, PlaceInv, NEW w \in Workers
    PROVE  /\ pc[w] \in Unfinished \cup {"release", "ack"} => IsSent(Job(w))
           /\ pc[w] \in {"marking", "marked"} => IsSent(Head(todo[w]).job)
           /\ held[w] # NoCopy => pc[w] \in {"marked", "work", "handler"} /\ IsSent(RowOf(w))
<1>1. held[w] # NoCopy => pc[w] \in {"marked", "work", "handler"}
  BY DEF PlaceInv, Placed
<1> QED
  BY <1>1, InStage, MarkedHead, RowInHand DEF TypeInv, MarkInHand

(* A step that writes no row and moves no receipt, claim or mark. *)
LEMMA QuietSolo ==
    ASSUME SoloInv, UNCHANGED <<queue, processing, claim, todo, status, gateway, handlerVars, stale>>,
           dropped \subseteq dropped',
           \A w \in Workers :
              /\ pc'[w] \in Unfinished => status[Job(w)] # "done" \/ Job(w) \in stale
              /\ pc'[w] \in {"marking", "marked"} =>
                    status[Head(todo[w]).job] # "done" \/ Head(todo[w]).job \in stale
              /\ pc'[w] \in {"handler", "release"} => Over(Job(w))
              /\ pc'[w] = "marked" => Over(Head(todo[w]).job)
              /\ pc'[w] = "requeued" => claim[w] \in Waiting
              /\ pc'[w] = "ack" => Over(Job(w)) \/ claim[w] \in Waiting
              /\ \/ held'[w] = NoCopy
                 \/ held'[w] = held[w] /\ pc'[w] = pc[w]
    PROVE  SoloInv'
<1>1. \A w \in Workers : pc'[w] = pc[w] => RowOf(w)' = RowOf(w)
  BY DEF RowOf, Job
<1>2. Fresh'
  BY <1>1 DEF SoloInv, Fresh, Job, NoCopy
<1>3. Rows'
  BY DEF SoloInv, Rows, handlerVars, NoCopy
<1>4. InKeeping'
  BY <1>1 DEF SoloInv, InKeeping, Over, Job, Waiting
<1>5. NoOtherOrphan'
  <2>1. \A j \in Jobs : InHand(j)' <=> InHand(j)
    BY DEF InHand, Copies, MarkPending, Job
  <2> QED
    BY <2>1 DEF SoloInv, NoOtherOrphan, Submitted
<1> QED
  BY <1>2, <1>3, <1>4, <1>5 DEF SoloInv

(* The row of a job gets a status that ends it, the one it has, or one that
   the step notes as stale; nothing is moved. *)
LEMMA RowSolo ==
    ASSUME TypeInv, PlaceInv, SoloInv, NEW j \in Jobs, NEW s \in Statuses \ {"absent"},
           Write(j, s), gateway[j] # "new",
           UNCHANGED <<queue, processing, claim, todo, pc, dropped>>,
           stale \subseteq stale',
           (Terminal(s) /\ s # "done") \/ s = status[j] \/ j \in stale',
           \A k \in Jobs : /\ gateway'[k] = gateway[k]
                              \/ (k = j /\ gateway'[k] # "new" /\ Terminal(s)),
           \A w \in Workers : held'[w] \in {held[w], NoCopy},
           Rows'
    PROVE  SoloInv'
<1>0. status \in [Jobs -> Statuses]
  BY DEF TypeInv, TypeOK
<1>1. \A k \in Jobs : \/ status'[k] = status[k]
                      \/ k = j /\ status'[k] = s /\ Terminal(s) /\ s # "done"
                      \/ k \in stale'
  BY <1>0 DEF Write
<1>2. \A w \in Workers : RowOf(w)' = RowOf(w)
  BY DEF RowOf, Job
<1>3. \A w \in Workers : /\ pc[w] \in Unfinished \cup {"release", "ack"} => Job(w) \in Jobs
                         /\ pc[w] \in {"marking", "marked"} => Head(todo[w]).job \in Jobs
  BY RowsInHand DEF IsSent
<1>4. Fresh'
  BY <1>1, <1>2, <1>3 DEF SoloInv, Fresh, Job, NoCopy
<1>5. \A k \in Jobs : Over(k) => Over(k)'
  BY <1>1 DEF Over
<1>6. InKeeping'
  <2>1. \A w \in Workers :
          /\ pc[w] \in {"handler", "release"} => Over(Job(w))'
          /\ pc[w] = "marked" => Over(Head(todo[w]).job)'
          /\ pc[w] = "ack" => Over(Job(w))' \/ claim[w] \in Waiting
    BY <1>3, <1>5 DEF SoloInv, InKeeping, Unfinished, Over, Job
  <2> QED
    BY <1>2, <2>1 DEF SoloInv, InKeeping, Job, Waiting
<1>7. NoOtherOrphan'
  <2>1. \A k \in Jobs : InHand(k)' <=> InHand(k)
    BY DEF InHand, Copies, MarkPending, Job
  <2>2. ASSUME NEW k \in Jobs, Submitted(k)', ~Terminal(status'[k]), k \notin stale'
        PROVE  Submitted(k) /\ ~Terminal(status[k]) /\ k \notin stale
    <3>1. status'[k] = status[k]
      BY <1>1, <2>2
    <3>2. k = j => status'[k] = s
      BY <1>0 DEF Write
    <3>3. gateway'[k] = gateway[k]
      BY <2>2, <3>2
    <3> QED
      BY <2>2, <3>1, <3>3 DEF Submitted
  <2> QED
    BY <2>1, <2>2 DEF SoloInv, NoOtherOrphan
<1> QED
  BY <1>4, <1>6, <1>7 DEF SoloInv

(* The gateway writes the row of a job nobody has in hand yet, or ends it. *)
LEMMA GatewaySolo ==
    ASSUME TypeInv, PlaceInv, SoloInv, NEW j \in Jobs,
           SaveJob(j) \/ FailRefused(j) \/ ReadCancel(j) \/ WriteCancel(j)
    PROVE  SoloInv'
<1>0. /\ status \in [Jobs -> Statuses]
      /\ gateway \in [Jobs -> {"new", "saved", "sent", "refused", "failed"}]
      /\ rewrites \in [Handlers -> 0..EngineRows]
  BY DEF TypeInv, TypeOK
<1>1. CASE SaveJob(j)
  <2>1. /\ UNCHANGED <<queue, processing, claim, todo, pc, held, dropped, stale, handlerVars>>
        /\ gateway[j] = "new" /\ gateway' = [gateway EXCEPT ![j] = "saved"]
        /\ status' = [status EXCEPT ![j] = "queued"]
    BY <1>1 DEF SaveJob, Write, queueVars, workerVars, historyVars
  <2>2. ~IsSent(j) /\ ~Submitted(j)'
    BY <1>0, <2>1 DEF IsSent, Submitted
  <2>3. \A k \in Jobs : IsSent(k) => status'[k] = status[k]
    BY <1>0, <2>1, <2>2
  <2>4. \A w \in Workers : RowOf(w)' = RowOf(w)
    BY <2>1 DEF RowOf, Job
  <2>5. Fresh'
    BY <2>1, <2>3, <2>4, RowsInHand DEF SoloInv, Fresh, IsSent, Job
  <2>6. Rows'
    BY <1>0, <2>1 DEF SoloInv, Rows, handlerVars
  <2>7. InKeeping'
    <3>1. \A k \in Jobs : IsSent(k) /\ Over(k) => Over(k)'
      BY <2>1, <2>3 DEF Over
    <3>2. \A w \in Workers :
            /\ pc[w] \in {"handler", "release"} => Over(Job(w))'
            /\ pc[w] = "marked" => Over(Head(todo[w]).job)'
            /\ pc[w] = "ack" => Over(Job(w))' \/ claim[w] \in Waiting
      BY <2>1, <3>1, RowsInHand DEF SoloInv, InKeeping, Unfinished, IsSent, Over, Job
    <3> QED
      BY <2>1, <2>4, <3>2 DEF SoloInv, InKeeping, Job, Waiting
  <2>8. NoOtherOrphan'
    <3>1. \A k \in Jobs : InHand(k)' <=> InHand(k)
      BY <2>1 DEF InHand, Copies, MarkPending, Job
    <3> QED
      BY <1>0, <2>1, <2>2, <3>1 DEF SoloInv, NoOtherOrphan, Submitted
  <2> QED
    BY <2>5, <2>6, <2>7, <2>8 DEF SoloInv
<1>2. CASE ReadCancel(j)
  <2>1. /\ UNCHANGED <<queue, processing, claim, todo, pc, held, dropped, stale, status, gateway,
                       rewrites, copy>>
        /\ cancelling' = cancelling \cup {j} /\ status[j] # "absent"
    BY <1>2 DEF ReadCancel, queueVars, workerVars, historyVars
  <2>2. Rows'
    BY <2>1 DEF SoloInv, Rows
  <2>3. Fresh' /\ InKeeping' /\ NoOtherOrphan'
    BY <2>1 DEF SoloInv, Fresh, InKeeping, NoOtherOrphan, Submitted, InHand, Copies, MarkPending,
       Over, RowOf, Job, Waiting
  <2> QED
    BY <2>2, <2>3 DEF SoloInv
<1>3. CASE FailRefused(j)
  <2>1. /\ UNCHANGED <<queue, processing, claim, todo, pc, held, dropped, stale, cancelling, copy>>
        /\ gateway[j] = "refused" /\ gateway' = [gateway EXCEPT ![j] = "failed"]
        /\ Write(j, "failed")
        /\ rewrites' = [rewrites EXCEPT ![<<"submit", j>>] = EngineRows]
    BY <1>3 DEF FailRefused, queueVars, workerVars, historyVars
  <2>2. \A h \in Handlers : rewrites'[h] = rewrites[h] \/ h[2] = j
    BY <1>0, <2>1
  <2>3. Rows'
    BY <1>0, <2>1, <2>2 DEF SoloInv, Rows, Write, Handlers
  <2>4. /\ "failed" \in Statuses \ {"absent"} /\ Terminal("failed")
        /\ \A k \in Jobs : gateway'[k] = gateway[k] \/ (k = j /\ gateway'[k] # "new")
    BY <1>0, <2>1 DEF Statuses, Terminal
  <2> QED
    BY <2>1, <2>3, <2>4, RowSolo
<1>4. CASE WriteCancel(j)
  <2>1. /\ UNCHANGED <<queue, processing, claim, todo, pc, held, dropped, stale, gateway, copy>>
        /\ j \in cancelling /\ cancelling' = cancelling \ {j}
        /\ Write(j, "cancelled")
        /\ rewrites' = [rewrites EXCEPT ![<<"cancel", j>>] = EngineRows]
    BY <1>4 DEF WriteCancel, queueVars, workerVars, historyVars
  <2>2. gateway[j] # "new"
    BY <2>1 DEF SoloInv, Rows
  <2>3. \A h \in Handlers : rewrites'[h] = rewrites[h] \/ h[2] = j
    BY <1>0, <2>1
  <2>4. Rows'
    BY <1>0, <2>1, <2>2, <2>3 DEF SoloInv, Rows, Write, Handlers
  <2>5. "cancelled" \in Statuses \ {"absent"} /\ Terminal("cancelled")
    BY DEF Statuses, Terminal
  <2> QED
    BY <2>1, <2>2, <2>4, <2>5, RowSolo
<1> QED
  BY <1>1, <1>2, <1>3, <1>4

(* A handler of the API saves the row with the status it has, or the job is
   noted as stale. *)
LEMMA HandleSolo ==
    ASSUME TypeInv, PlaceInv, SoloInv, NEW h \in Handlers, Handle(h)
    PROVE  SoloInv'
<1>0. /\ status \in [Jobs -> Statuses] /\ copy \in [Handlers -> Statuses \cup {NoCopy}]
      /\ rewrites \in [Handlers -> 0..EngineRows] /\ h[2] \in Jobs
  BY DEF TypeInv, TypeOK, Handlers
<1>1. CASE SaveRow(h)
  <2>1. /\ UNCHANGED <<queue, processing, claim, todo, pc, held, dropped, gateway, cancelling>>
        /\ rewrites[h] > 0 /\ copy[h] # NoCopy /\ Write(h[2], copy[h])
        /\ stale' = IF copy[h] = status[h[2]] THEN stale ELSE stale \cup {h[2]}
        /\ copy' = [copy EXCEPT ![h] = NoCopy]
        /\ rewrites' = [rewrites EXCEPT ![h] = @ - 1]
    BY <1>1 DEF SaveRow, queueVars, workerVars
  <2>2. gateway[h[2]] # "new" /\ copy[h] \in Statuses \ {"absent"}
    BY <1>0, <2>1 DEF SoloInv, Rows
  <2>3. \A k \in Handlers : rewrites'[k] > 0 => rewrites[k] > 0
    BY <1>0, <2>1
  <2>4. Rows'
    BY <1>0, <2>1, <2>2, <2>3 DEF SoloInv, Rows, Write, NoCopy
  <2>5. stale \subseteq stale' /\ (copy[h] = status[h[2]] \/ h[2] \in stale')
    BY <2>1
  <2> QED
    BY <1>0, <2>1, <2>2, <2>4, <2>5, RowSolo
<1>2. CASE LoadRow(h) \/ SkipRow(h)
  <2>1. /\ UNCHANGED <<queue, processing, claim, todo, pc, held, dropped, stale, status, gateway,
                       cancelling>>
        /\ rewrites[h] > 0
        /\ \/ copy' = [copy EXCEPT ![h] = status[h[2]]] /\ rewrites' = rewrites
           \/ copy' = copy /\ rewrites' = [rewrites EXCEPT ![h] = @ - 1]
    BY <1>2 DEF LoadRow, SkipRow, queueVars, workerVars, historyVars
  <2>2. \A k \in Handlers : rewrites'[k] > 0 => rewrites[k] > 0
    BY <1>0, <2>1
  <2>3. status[h[2]] # "absent"
    BY <1>0, <2>1 DEF SoloInv, Rows
  <2>4. Rows'
    BY <1>0, <2>1, <2>2, <2>3 DEF SoloInv, Rows
  <2>5. Fresh' /\ InKeeping' /\ NoOtherOrphan'
    BY <2>1 DEF SoloInv, Fresh, InKeeping, NoOtherOrphan, Submitted, InHand, Copies, MarkPending,
       Over, RowOf, Job, Waiting
  <2> QED
    BY <2>4, <2>5 DEF SoloInv
<1> QED
  BY <1>1, <1>2 DEF Handle

(* The list of receipts gets a new entry, which is all that changes besides the
   stage of a worker. *)
LEMMA LongerList ==
    ASSUME NEW r \in Receipt, queue \in Seq(Receipt), queue' = Append(queue, r)
    PROVE  Waiting' = Waiting \cup {r}
<1>1. /\ \A i \in DOMAIN queue' : (i \in DOMAIN queue /\ queue'[i] = queue[i]) \/ queue'[i] = r
      /\ \A i \in DOMAIN queue : i \in DOMAIN queue' /\ queue'[i] = queue[i]
      /\ \E i \in DOMAIN queue' : queue'[i] = r
  BY AppendEntries
<1> QED
  BY <1>1 DEF Waiting

(* A push that was executed is one that is confirmed, or whose answer is lost. *)
LEMMA SendSolo ==
    ASSUME TypeInv, PlaceInv, SoloInv, NEW j \in Jobs, SendJob(j) \/ PushRaises(j)
    PROVE  SoloInv'
<1>0. /\ queue \in Seq(Receipt) /\ [job |-> j, attempt |-> 0] \in Receipt
      /\ gateway \in [Jobs -> {"new", "saved", "sent", "refused", "failed"}]
  BY DEF TypeInv, TypeOK, QueueTypeOK, Receipt
<1>1. /\ UNCHANGED <<processing, claim, todo, pc, held, status, dropped, stale, handlerVars>>
      /\ gateway[j] = "saved"
      /\ \/ gateway' = [gateway EXCEPT ![j] = "sent"] /\ queue' # queue
         \/ gateway' = [gateway EXCEPT ![j] = "refused"]
      /\ queue' = Append(queue, [job |-> j, attempt |-> 0]) \/ queue' = queue
  BY <1>0 DEF SendJob, PushRaises, Enqueue, workerVars, historyVars, queueVars
<1>2. \/ Waiting' = Waiting \cup {[job |-> j, attempt |-> 0]}
      \/ Waiting' = Waiting /\ queue' = queue
  <2>1. CASE queue' = queue
    BY <2>1 DEF Waiting
  <2>2. CASE queue' = Append(queue, [job |-> j, attempt |-> 0])
    BY <1>0, <2>2, LongerList
  <2> QED
    BY <1>1, <2>1, <2>2
<1>3. Fresh' /\ Rows'
  <2>1. \A k \in Jobs : gateway'[k] = "new" <=> gateway[k] = "new"
    BY <1>0, <1>1
  <2>2. Fresh'
    BY <1>1 DEF SoloInv, Fresh, RowOf, Job
  <2>3. Rows'
    BY <1>0, <1>1, <2>1 DEF SoloInv, Rows, handlerVars, Handlers, TypeInv, TypeOK
  <2> QED
    BY <2>2, <2>3
<1>4. InKeeping'
  BY <1>1, <1>2 DEF SoloInv, InKeeping, Over, RowOf, Job
<1>5. NoOtherOrphan'
  <2>1. \A k \in Jobs : InHand(k) => InHand(k)'
    BY <1>1, <1>2 DEF InHand, Copies, MarkPending, Job, Waiting
  <2>2. queue' # queue => InHand(j)'
    BY <1>2 DEF InHand, Copies, Waiting
  <2> QED
    BY <1>0, <1>1, <2>1, <2>2 DEF SoloInv, NoOtherOrphan, Submitted
<1> QED
  BY <1>3, <1>4, <1>5 DEF SoloInv

LEMMA RequeueSolo ==
    ASSUME TypeInv, PlaceInv, SoloInv, NEW w \in Workers, Requeue(w)
    PROVE  SoloInv'
<1>0. queue \in Seq(Receipt) /\ claim[w] \in Receipt /\ pc \in [Workers -> Stages]
  BY InStage DEF TypeInv, TypeOK, QueueTypeOK, Requeue, Unfinished
<1>1. /\ UNCHANGED <<processing, claim, todo, held, status, gateway, handlerVars, dropped, stale>>
      /\ pc[w] = "return" /\ pc' = [pc EXCEPT ![w] = "requeued"]
      /\ queue' = Append(queue, claim[w])
  BY DEF Requeue, Enqueue, Goto, rowVars, historyVars
<1>2. Waiting' = Waiting \cup {claim[w]}
  BY <1>0, <1>1, LongerList
<1>3. \A v \in Workers : /\ v # w => pc'[v] = pc[v]
                         /\ held[v] # NoCopy => v # w /\ RowOf(v)' = RowOf(v)
  <2>1. \A v \in Workers : held[v] # NoCopy => v # w
    BY <1>1 DEF PlaceInv, Placed
  <2> QED
    BY <1>0, <1>1, <2>1 DEF RowOf, Job
<1>4. Fresh' /\ Rows'
  BY <1>0, <1>1, <1>3 DEF SoloInv, Fresh, Rows, Job, Unfinished, handlerVars, NoCopy
<1>5. InKeeping'
  BY <1>0, <1>1, <1>2, <1>3 DEF SoloInv, InKeeping, Over, Job
<1>6. NoOtherOrphan'
  <2>1. \A k \in Jobs : InHand(k) => InHand(k)'
    BY <1>1, <1>2 DEF InHand, Copies, MarkPending, Job, Waiting
  <2> QED
    BY <1>1, <2>1 DEF SoloInv, NoOtherOrphan, Submitted
<1> QED
  BY <1>4, <1>5, <1>6 DEF SoloInv

(* The receipts a recovery pass takes out of the sorted set are on the list or
   in the marks afterwards. *)
LEMMA RecoverSolo ==
    ASSUME OneConsumer, TypeInv, PlaceInv, SoloInv, NEW w \in Workers, RecoverExpired(w)
    PROVE  SoloInv'
<1>0. pc \in [Workers -> Stages] /\ \A v \in Workers : v = w
  BY DEF TypeInv, TypeOK, OneConsumer
<1>1. PICK B \in SUBSET expired :
        /\ processing' = processing \ B /\ expired' = expired \ B
        /\ \A i \in DOMAIN queue' :
              \/ i \in DOMAIN queue /\ queue'[i] = queue[i]
              \/ i \notin DOMAIN queue /\ \E r \in B : queue'[i] = Retried(r)
        /\ \A i \in DOMAIN queue : i \in DOMAIN queue' /\ queue'[i] = queue[i]
        /\ todo'[w] \in Seq(Mark)
        /\ \A i \in DOMAIN todo'[w] :
              /\ \E r \in B : todo'[w][i].job = r.job
              /\ todo'[w][i].as = "queued" =>
                    \E k \in DOMAIN queue' : queue'[k].job = todo'[w][i].job
        /\ \A r \in B :
              \/ \E k \in DOMAIN queue' : queue'[k].job = r.job
              \/ \E i \in DOMAIN todo'[w] : todo'[w][i] = [job |-> r.job, as |-> "failed"]
  BY RecoverEntries
<1>2. /\ pc[w] = "idle" /\ pc'[w] = "mark" /\ claim[w] = None /\ todo[w] = <<>>
      /\ held[w] = NoCopy
      /\ UNCHANGED <<claim, held, status, gateway, handlerVars, dropped, stale>>
  BY <1>0 DEF RecoverExpired, Goto, PlaceInv, Placed, rowVars, historyVars
<1>3. Fresh' /\ Rows'
  BY <1>0, <1>2 DEF SoloInv, Fresh, Rows, Unfinished, handlerVars, NoCopy
<1>4. InKeeping'
  BY <1>0, <1>1, <1>2 DEF InKeeping, Waiting
<1>5. NoOtherOrphan'
  <2> SUFFICES ASSUME NEW j \in Jobs, InHand(j) PROVE InHand(j)'
    BY <1>2 DEF SoloInv, NoOtherOrphan, Submitted
  <2>1. Copies(j) # {}
    BY <1>0, <1>2 DEF InHand, MarkPending, Job, None
  <2>2. PICK r \in processing \cup {queue[i] : i \in DOMAIN queue} : r.job = j
    BY <2>1 DEF Copies
  <2>3. CASE r \in B
    <3>1. CASE \E k \in DOMAIN queue' : queue'[k].job = r.job
      BY <2>2, <3>1 DEF InHand, Copies
    <3>2. CASE \E i \in DOMAIN todo'[w] : todo'[w][i] = [job |-> r.job, as |-> "failed"]
      BY <2>2, <3>2 DEF InHand, MarkPending
    <3> QED
      BY <1>1, <2>3, <3>1, <3>2
  <2>4. CASE r \notin B
    BY <1>1, <2>2, <2>4 DEF InHand, Copies
  <2> QED
    BY <2>3, <2>4
<1> QED
  BY <1>3, <1>4, <1>5 DEF SoloInv

(* A mark is written, ended, or skipped because the row is settled: each time the
   row is active afterwards only if its receipt is back on the list. *)
LEMMA MarkSolo ==
    ASSUME OneConsumer, TypeInv, PlaceInv, SoloInv, NEW w \in Workers,
           SkipMark(w) \/ WriteMark(w) \/ EndMark(w)
    PROVE  SoloInv'
<1>0. /\ pc \in [Workers -> Stages] /\ status \in [Jobs -> Statuses]
      /\ todo \in [Workers -> Seq(Mark)] /\ \A v \in Workers : v = w
  BY DEF TypeInv, TypeOK, OneConsumer
<1> DEFINE m == Head(todo[w])
<1>1. /\ pc[w] \in {"mark", "marking", "marked"} /\ todo[w] # <<>> /\ held[w] = NoCopy
      /\ \/ pc'[w] = "mark" /\ todo'[w] = Tail(todo[w])
         \/ pc'[w] = "marked" /\ todo'[w] = todo[w] /\ m.as = "failed" /\ Write(m.job, m.as)
      /\ UNCHANGED <<queue, processing, claim, held, gateway, handlerVars, dropped, stale>>
  BY <1>0 DEF SkipMark, WriteMark, EndMark, Goto, TypeInv, MarkInHand, PlaceInv, Placed,
     queueVars, historyVars, rowVars
<1>2. m \in Mark /\ IsSent(m.job) /\ 1 \in DOMAIN todo[w] /\ m = todo[w][1]
  BY <1>1, MarkedHead
<1>3. m.job \in Jobs /\ m.as \in {"queued", "failed"} /\ status[m.job] # "absent"
  BY <1>2 DEF Mark, IsSent, SoloInv, Rows
<1>4. /\ \A j \in Jobs : j # m.job => status'[j] = status[j]
      /\ \/ status'[m.job] = status[m.job] /\ Over(m.job)
         \/ status'[m.job] = m.as
  <2>1. CASE SkipMark(w)
    BY <1>3, <2>1 DEF SkipMark, Settled, Terminal, Over, Statuses, rowVars
  <2>2. CASE WriteMark(w)
    BY <1>0, <1>3, <2>2 DEF WriteMark, Write
  <2>3. CASE EndMark(w)
    BY <2>3 DEF EndMark, rowVars, SoloInv, InKeeping
  <2> QED
    BY <2>1, <2>2, <2>3
<1>5. pc'[w] = "marked" => status'[m.job] = "failed"
  BY <1>0, <1>1, <1>3 DEF Write
<1> HIDE DEF m
<1>6. /\ \A i \in DOMAIN todo'[w] : \E k \in DOMAIN todo[w] : todo'[w][i] = todo[w][k]
      /\ \A i \in DOMAIN todo[w] : i = 1 \/ \E k \in DOMAIN todo'[w] : todo'[w][k] = todo[w][i]
  <2>1. todo[w] \in Seq(Mark) /\ todo[w] # <<>>
    BY <1>1, InStage
  <2>2. /\ \A i \in DOMAIN Tail(todo[w]) :
              i + 1 \in DOMAIN todo[w] /\ Tail(todo[w])[i] = todo[w][i + 1]
        /\ \A i \in DOMAIN todo[w] :
              i = 1 \/ (i - 1 \in DOMAIN Tail(todo[w]) /\ Tail(todo[w])[i - 1] = todo[w][i])
    BY <2>1, TailEntries
  <2> QED
    BY <1>1, <2>2
<1>7. pc'[w] = "marked" => Head(todo'[w]) = m /\ todo'[w] = todo[w]
  BY <1>1 DEF m
<1>8. Fresh'
  BY <1>0, <1>1, <1>5, <1>7 DEF Fresh, Unfinished, NoCopy
<1>9. Rows'
  BY <1>1, <1>2, <1>3, <1>4 DEF SoloInv, Rows, IsSent, handlerVars
<1>10. InKeeping'
  <2>1. Waiting' = Waiting
    BY <1>1 DEF Waiting
  <2>2. \A i \in DOMAIN todo'[w] :
           todo'[w][i].as = "queued" => \E r \in Waiting : r.job = todo'[w][i].job
    BY <1>6 DEF SoloInv, InKeeping
  <2>3. claim'[w] # None => claim'[w] \in processing'
    BY <1>1 DEF SoloInv, InKeeping
  <2>4. pc'[w] = "marked" => Over(Head(todo[w]).job)'
    BY <1>5, <1>7 DEF Over, Terminal
  <2> QED
    BY <1>0, <1>1, <1>7, <2>1, <2>2, <2>3, <2>4 DEF InKeeping
<1>11. NoOtherOrphan'
  <2> SUFFICES ASSUME NEW j \in Jobs, Submitted(j), ~Terminal(status'[j]),
                      j \notin dropped \cup stale
               PROVE  InHand(j)'
    BY <1>1 DEF NoOtherOrphan, Submitted
  <2>1. Copies(j)' = Copies(j) /\ \A v \in Workers : Job(v)' = Job(v)
    BY <1>1 DEF Copies, Job
  <2>2. CASE j = m.job
    <3>1. m.as = "queued"
      BY <1>3, <1>4, <2>2 DEF Terminal, Over
    <3>2. \E r \in Waiting : r.job = j
      BY <1>2, <2>2, <3>1 DEF SoloInv, InKeeping
    <3> QED
      BY <2>1, <3>2 DEF InHand, Copies, Waiting
  <2>3. CASE j # m.job
    <3>1. InHand(j)
      BY <1>4, <2>3 DEF SoloInv, NoOtherOrphan
    <3>2. MarkPending(j) => MarkPending(j)'
      BY <1>0, <1>2, <1>6, <2>3 DEF MarkPending
    <3> QED
      BY <2>1, <3>1, <3>2 DEF InHand
  <2> QED
    BY <2>2, <2>3
<1> QED
  BY <1>8, <1>9, <1>10, <1>11 DEF SoloInv

LEMMA PopSolo ==
    ASSUME OneConsumer, TypeInv, PlaceInv, SoloInv, NEW w \in Workers, Pop(w)
    PROVE  SoloInv'
<1>0. /\ pc \in [Workers -> Stages] /\ queue \in Seq(Receipt)
      /\ claim \in [Workers -> Receipt \cup {None}] /\ \A v \in Workers : v = w
  BY DEF TypeInv, TypeOK, QueueTypeOK, OneConsumer
<1>1. /\ pc[w] = "mark" /\ pc'[w] = "lookup" /\ todo[w] = <<>> /\ claim'[w] = Head(queue)
      /\ queue # <<>> /\ queue' = Tail(queue) /\ processing' = processing \cup {Head(queue)}
      /\ UNCHANGED <<todo, held, status, gateway, handlerVars, dropped, stale>>
  BY <1>0 DEF Pop, Claim, Goto, rowVars, historyVars
<1>2. claim[w] = None /\ held[w] = NoCopy
  BY <1>1 DEF PlaceInv, Placed
<1>3. \A i \in DOMAIN queue : queue[i] = Head(queue) \/ \E k \in DOMAIN queue' : queue'[k] = queue[i]
  <2>1. queue \in Seq(Receipt) /\ queue # <<>> /\ queue' = Tail(queue)
    BY <1>0, <1>1
  <2>2. /\ Head(queue) = queue[1]
        /\ \A i \in DOMAIN queue :
              i = 1 \/ (i - 1 \in DOMAIN Tail(queue) /\ Tail(queue)[i - 1] = queue[i])
    BY <2>1, TailEntries
  <2> QED
    BY <2>1, <2>2
<1>4. Fresh' /\ Rows'
  BY <1>0, <1>1, <1>2 DEF SoloInv, Fresh, Rows, Unfinished, handlerVars, NoCopy
<1>5. InKeeping'
  BY <1>0, <1>1 DEF InKeeping
<1>6. NoOtherOrphan'
  <2> SUFFICES ASSUME NEW j \in Jobs, InHand(j) PROVE InHand(j)'
    BY <1>1 DEF SoloInv, NoOtherOrphan, Submitted
  <2>1. Copies(j) # {}
    BY <1>0, <1>1, <1>2 DEF InHand, MarkPending, Job, None
  <2>2. PICK r \in processing \cup {queue[i] : i \in DOMAIN queue} : r.job = j
    BY <2>1 DEF Copies
  <2>3. r \in processing' \cup {queue'[i] : i \in DOMAIN queue'}
    BY <1>1, <1>3
  <2> QED
    BY <2>2, <2>3 DEF InHand, Copies
<1> QED
  BY <1>4, <1>5, <1>6 DEF SoloInv

(* A write of the row of the job in hand. *)
LEMMA WriteSolo ==
    ASSUME OneConsumer, TypeInv, PlaceInv, SoloInv, NEW w \in Workers, NEW s \in Statuses,
           pc[w] \in Unfinished \cup {"lookup", "deleting"}, Write(Job(w), s), s # "absent",
           UNCHANGED <<queue, processing, claim, todo, gateway, handlerVars, dropped, stale>>,
           held'[w] = NoCopy,
           pc'[w] \notin {"marking", "marked"},
           pc'[w] \in Unfinished => (s # "done" \/ Job(w) \in stale) /\ pc'[w] # "requeued",
           pc'[w] \in {"handler", "release"} => Terminal(s) \/ Job(w) \in stale,
           pc'[w] = "ack" => Terminal(s) \/ claim[w] \in Waiting
    PROVE  SoloInv'
<1>0. status \in [Jobs -> Statuses] /\ \A v \in Workers : v = w
  BY DEF TypeInv, TypeOK, OneConsumer
<1>1. claim[w] # None /\ Job(w) \in Jobs /\ IsSent(Job(w))
  BY InStage
<1>2. /\ status'[Job(w)] = s
      /\ \A j \in Jobs : j # Job(w) => status'[j] = status[j]
  BY <1>0, <1>1 DEF Write
<1>3. Job(w)' = Job(w) /\ Waiting' = Waiting
  BY DEF Job, Waiting
<1>4. Fresh'
  BY <1>0, <1>2, <1>3 DEF Fresh, NoCopy
<1>5. Rows'
  BY <1>0, <1>1, <1>2 DEF SoloInv, Rows, IsSent, handlerVars, NoCopy
<1>6. InKeeping'
  BY <1>0, <1>2, <1>3 DEF SoloInv, InKeeping, Over, Unfinished
<1>7. NoOtherOrphan'
  <2>1. \A j \in Jobs : InHand(j)' <=> InHand(j)
    BY DEF InHand, Copies, MarkPending, Job
  <2>2. InHand(Job(w))
    BY DEF InHand
  <2> QED
    BY <1>2, <2>1, <2>2 DEF SoloInv, NoOtherOrphan, Submitted
<1> QED
  BY <1>4, <1>5, <1>6, <1>7 DEF SoloInv

(* The worker saves the row of the job it works on, gave up or has just marked
   with the status it loaded. *)
LEMMA RewriteSolo ==
    ASSUME OneConsumer, TypeInv, PlaceInv, SoloInv, NEW w \in Workers, Rewrite(w)
    PROVE  SoloInv'
<1>0. /\ status \in [Jobs -> Statuses] /\ held \in [Workers -> Statuses \cup {NoCopy}]
      /\ \A v \in Workers : v = w
  BY DEF TypeInv, TypeOK, OneConsumer
<1>1. /\ pc[w] \in {"marked", "work", "handler"}
      /\ UNCHANGED <<queue, processing, claim, todo, pc, gateway, handlerVars, dropped, stale>>
  BY DEF Rewrite, LoadEngineRow, SaveEngineRow, queueVars, historyVars, rowVars
<1>2. /\ RowOf(w) \in Jobs /\ IsSent(RowOf(w)) /\ RowOf(w)' = RowOf(w)
      /\ pc[w] = "marked" => RowOf(w) = Head(todo[w]).job
      /\ pc[w] # "marked" => RowOf(w) = Job(w)
  BY <1>1, RowInHand DEF RowOf, Job
<1>3. CASE LoadEngineRow(w)
  <2>1. held'[w] = status[RowOf(w)] /\ status' = status
    BY <1>0, <1>3 DEF LoadEngineRow, rowVars
  <2>2. status[RowOf(w)] # "absent"
    BY <1>2 DEF SoloInv, Rows, IsSent
  <2>3. Fresh'
    BY <1>0, <1>1, <1>2, <2>1 DEF SoloInv, Fresh, Unfinished, Job
  <2>4. Rows'
    BY <1>0, <1>1, <2>1, <2>2 DEF SoloInv, Rows, handlerVars
  <2>5. InKeeping'
    BY <1>0, <1>1, <1>2, <2>1 DEF SoloInv, InKeeping, Over, Job, Waiting
  <2>6. NoOtherOrphan'
    <3>1. \A j \in Jobs : InHand(j)' <=> InHand(j)
      BY <1>1 DEF InHand, Copies, MarkPending, Job
    <3> QED
      BY <1>1, <2>1, <3>1 DEF SoloInv, NoOtherOrphan, Submitted
  <2> QED
    BY <2>3, <2>4, <2>5, <2>6 DEF SoloInv
<1>4. CASE SaveEngineRow(w)
  <2>1. /\ held[w] \in Statuses \ {"absent"} /\ held'[w] = NoCopy /\ Write(RowOf(w), held[w])
        /\ held[w] = "done" => RowOf(w) \in stale
    BY <1>0, <1>4 DEF SaveEngineRow, SoloInv, Fresh, Rows
  <2>2. CASE pc[w] = "marked"
    <3>1. (Terminal(held[w]) /\ held[w] # "done") \/ RowOf(w) \in stale
      BY <1>4, <2>1, <2>2 DEF SaveEngineRow, SoloInv, InKeeping
    <3>2. Rows'
      BY <1>0, <1>1, <1>2, <2>1 DEF SoloInv, Rows, Write, IsSent, handlerVars, NoCopy
    <3>3. gateway[RowOf(w)] # "new"
      BY <1>2 DEF IsSent
    <3> QED
      BY <1>0, <1>1, <1>2, <2>1, <3>1, <3>2, <3>3, RowSolo
  <2>3. CASE pc[w] # "marked"
    <3>1. pc[w] \in {"work", "handler"} /\ RowOf(w) = Job(w)
      BY <1>1, <1>2, <2>3
    <3>2. pc[w] = "handler" => Terminal(held[w]) \/ Job(w) \in stale
      BY <1>4, <3>1 DEF SaveEngineRow, SoloInv, InKeeping
    <3> QED
      BY <1>1, <2>1, <3>1, <3>2, WriteSolo DEF Unfinished
  <2> QED
    BY <2>2, <2>3
<1> QED
  BY <1>3, <1>4 DEF Rewrite

(* A claim is given up: its receipt is still leased, acknowledged with a
   terminal row, or waiting again. *)
LEMMA AckSolo ==
    ASSUME OneConsumer, TypeInv, PlaceInv, SoloInv, NEW w \in Workers, AckClaim(w)
    PROVE  SoloInv'
<1>0. /\ pc \in [Workers -> Stages] /\ claim \in [Workers -> Receipt \cup {None}]
      /\ \A v \in Workers : v = w
  BY DEF TypeInv, TypeOK, OneConsumer
<1>1. /\ pc[w] = "ack" /\ pc'[w] = "idle" /\ claim'[w] = None
      /\ processing' = processing \ {claim[w]}
      /\ UNCHANGED <<queue, todo, held, status, gateway, handlerVars, dropped, stale>>
  BY <1>0 DEF AckClaim, Ack, Goto, rowVars, historyVars
<1>2. todo[w] = <<>> /\ held[w] = NoCopy
  BY <1>1 DEF PlaceInv, Placed
<1>3. Fresh' /\ Rows'
  BY <1>0, <1>1, <1>2 DEF SoloInv, Fresh, Rows, Unfinished, handlerVars, NoCopy
<1>4. InKeeping'
  BY <1>0, <1>1, <1>2 DEF InKeeping
<1>5. NoOtherOrphan'
  <2> SUFFICES ASSUME NEW j \in Jobs, ~Over(j), InHand(j) PROVE InHand(j)'
    BY <1>1 DEF SoloInv, NoOtherOrphan, Submitted, Over
  <2>1. CASE Job(w) = j
    <3>1. claim[w] \in Waiting
      BY <1>1, <2>1 DEF SoloInv, InKeeping
    <3> QED
      BY <1>1, <2>1, <3>1 DEF InHand, Copies, Waiting, Job
  <2>2. CASE Job(w) # j
    <3>1. Copies(j) # {}
      BY <1>0, <1>2, <2>2 DEF InHand, MarkPending
    <3>2. Copies(j)' = Copies(j)
      BY <1>1, <2>2 DEF Copies, Job
    <3> QED
      BY <3>1, <3>2 DEF InHand
  <2> QED
    BY <2>1, <2>2
<1> QED
  BY <1>3, <1>4, <1>5 DEF SoloInv

LEMMA GiveUpSolo ==
    ASSUME OneConsumer, TypeInv, PlaceInv, SoloInv, NEW w \in Workers,
           DeleteFails(w) \/ Crash(w)
    PROVE  SoloInv'
<1>0. /\ pc \in [Workers -> Stages] /\ claim \in [Workers -> Receipt \cup {None}]
      /\ status \in [Jobs -> Statuses] /\ todo \in [Workers -> Seq(Mark)]
      /\ held \in [Workers -> Statuses \cup {NoCopy}]
      /\ \A v \in Workers : v = w
  BY DEF TypeInv, TypeOK, OneConsumer
<1>1. /\ pc'[w] = "idle" /\ claim'[w] = None
      /\ UNCHANGED <<queue, processing, gateway, handlerVars, stale>>
  BY <1>0 DEF DeleteFails, Crash, Goto, queueVars, rowVars
<1>2. /\ todo'[w] = <<>> /\ held'[w] = NoCopy /\ dropped \subseteq dropped'
      /\ \A i \in DOMAIN todo[w] : todo[w][i].job \in dropped'
  <2>1. CASE DeleteFails(w)
    BY <2>1 DEF DeleteFails, PlaceInv, Placed
  <2>2. CASE Crash(w)
    BY <1>0, <2>2 DEF Crash
  <2> QED
    BY <2>1, <2>2
<1>3. \/ status' = status
      \/ Job(w) \in Jobs /\ IsSent(Job(w)) /\ status' = [status EXCEPT ![Job(w)] = "queued"]
         /\ claim[w] # None
  BY InStage DEF DeleteFails, Crash, Write, rowVars
<1>4. Fresh'
  BY <1>0, <1>1, <1>2 DEF Fresh, Unfinished, NoCopy
<1>5. Rows'
  BY <1>0, <1>1, <1>2, <1>3 DEF SoloInv, Rows, IsSent, handlerVars, NoCopy
<1>6. InKeeping'
  BY <1>0, <1>1, <1>2 DEF InKeeping
<1>7. NoOtherOrphan'
  <2>1. Job(w) \in Jobs => Copies(Job(w)) # {}
    <3>1. claim[w] # None => claim[w] \in processing
      BY DEF SoloInv, InKeeping
    <3>2. claim[w] = None => Job(w) \notin Jobs
      BY DEF None, Job
    <3> QED
      BY <3>1, <3>2 DEF Copies, Job
  <2>2. ASSUME NEW j \in Jobs, InHand(j) PROVE InHand(j)' \/ j \in dropped'
    <3>1. Copies(j)' = Copies(j)
      BY <1>1 DEF Copies
    <3>2. MarkPending(j) => j \in dropped'
      BY <1>0, <1>2 DEF MarkPending
    <3>3. Copies(j) # {} \/ MarkPending(j)
      BY <1>0, <2>1, <2>2 DEF InHand
    <3> QED
      BY <3>1, <3>2, <3>3 DEF InHand
  <2>3. \A j \in Jobs : ~Terminal(status'[j]) => ~Terminal(status[j]) \/ InHand(j)
    BY <1>0, <1>3 DEF InHand
  <2> QED
    BY <1>1, <1>2, <2>2, <2>3 DEF SoloInv, NoOtherOrphan, Submitted
<1> QED
  BY <1>4, <1>5, <1>6, <1>7 DEF SoloInv

LEMMA NextSolo ==
    OneConsumer /\ TypeInv /\ PlaceInv /\ SoloInv /\ [Next]_vars => SoloInv'
<1> SUFFICES ASSUME OneConsumer, TypeInv, PlaceInv, SoloInv, [Next]_vars PROVE SoloInv'
  OBVIOUS
<1>0. pc \in [Workers -> Stages] /\ status \in [Jobs -> Statuses]
  BY DEF TypeInv, TypeOK
<1>1. ASSUME NEW j \in Jobs, Gateway(j) PROVE SoloInv'
  BY <1>1, GatewaySolo, SendSolo DEF Gateway
<1>2. ASSUME \/ \E r \in processing : TimePassesLease(r)
             \/ \E o \in Owners : TimePassesLock(o)
             \/ UNCHANGED vars
             \/ \E w \in Workers : HeartbeatEnds(w)
      PROVE  SoloInv'
  <2>1. /\ UNCHANGED <<queue, processing, claim, todo, status, gateway, handlerVars, pc, held>>
        /\ UNCHANGED <<dropped, stale>>
    BY <1>2 DEF TimePassesLease, LeaseExpires, TimePassesLock, HeartbeatEnds, vars, queueVars,
       workerVars, historyVars, rowVars
  <2> QED
    BY <2>1, QuietSolo DEF SoloInv, Fresh, InKeeping
<1>3. ASSUME NEW w \in Workers,
             \/ ReadMark(w) \/ PopNothing(w) \/ LookupTerminal(w) \/ LookupActive(w)
             \/ LockTaken(w) \/ LockBusy(w)
             \/ StartTerminal(w) \/ StartRun(w) \/ PassCheckpoint(w) \/ Release(w)
      PROVE  SoloInv'
  <2>1. UNCHANGED <<queue, processing, claim, todo, status, gateway, handlerVars, held, dropped,
                    stale>>
    BY <1>3 DEF ReadMark, PopNothing, LookupTerminal, LookupActive, LockTaken, LockBusy,
       StartTerminal, StartRun, PassCheckpoint, Release, queueVars, rowVars, historyVars
  <2>2. ASSUME NEW v \in Workers
        PROVE  /\ pc'[v] \in Unfinished => status[Job(v)] # "done" \/ Job(v) \in stale
               /\ pc'[v] \in {"marking", "marked"} =>
                     status[Head(todo[v]).job] # "done" \/ Head(todo[v]).job \in stale
               /\ pc'[v] \in {"handler", "release"} => Over(Job(v))
               /\ pc'[v] = "marked" => Over(Head(todo[v]).job)
               /\ pc'[v] = "requeued" => claim[v] \in Waiting
               /\ pc'[v] = "ack" => Over(Job(v)) \/ claim[v] \in Waiting
    <3>1. v = w
      BY DEF OneConsumer
    <3>2. CASE ReadMark(w)
      BY <1>0, <3>1, <3>2 DEF ReadMark, Goto, Settled, Unfinished
    <3>3. CASE LookupTerminal(w)
      <4>1. Job(w) \in Jobs /\ status[Job(w)] # "absent"
        BY <3>3, InStage DEF LookupTerminal, SoloInv, Rows, IsSent
      <4> QED
        BY <1>0, <3>1, <3>3, <4>1 DEF LookupTerminal, Goto, Unfinished, Over
    <3>4. CASE PopNothing(w) \/ LookupActive(w)
      BY <1>0, <3>1, <3>4 DEF PopNothing, LookupActive, Goto, Unfinished
    <3>5. CASE LockTaken(w) \/ LockBusy(w) \/ StartRun(w) \/ PassCheckpoint(w)
      BY <1>0, <3>1, <3>5
         DEF LockTaken, LockBusy, StartRun, PassCheckpoint, Goto, Unfinished, SoloInv, Fresh
    <3>6. CASE StartTerminal(w) \/ Release(w)
      BY <1>0, <3>1, <3>6 DEF StartTerminal, Release, Goto, Unfinished, SoloInv, InKeeping, Over
    <3> QED
      BY <1>3, <3>2, <3>3, <3>4, <3>5, <3>6
  <2>3. ASSUME NEW v \in Workers PROVE held[v] = NoCopy
    BY <1>3 DEF OneConsumer, PlaceInv, Placed, ReadMark, PopNothing, LookupTerminal, LookupActive,
       LockTaken, LockBusy, StartTerminal, StartRun, PassCheckpoint, Release
  <2> QED
    BY <2>1, <2>2, <2>3, QuietSolo
<1>4. ASSUME NEW w \in Workers,
             \/ MarkRequeued(w) \/ StopCancelled(w) \/ WriteRunning(w) \/ WriteOutcome(w)
             \/ FailRun(w) \/ StartDelete(w) \/ DeleteDone(w)
      PROVE  SoloInv'
  <2>1. /\ UNCHANGED <<queue, processing, claim, todo, gateway, handlerVars, dropped, stale>>
        /\ held'[w] = NoCopy
    BY <1>4 DEF MarkRequeued, StopCancelled, WriteRunning, WriteOutcome, FailRun, StartDelete,
       DeleteDone, queueVars, historyVars, PlaceInv, Placed
  <2>2. CASE MarkRequeued(w)
    <3>1. claim[w] \in Waiting /\ pc[w] = "requeued" /\ pc'[w] = "ack" /\ Write(Job(w), "queued")
      BY <1>0, <2>2 DEF MarkRequeued, Goto, SoloInv, InKeeping
    <3> QED
      BY <2>1, <3>1, WriteSolo DEF Statuses, Unfinished
  <2>3. CASE StopCancelled(w)
    <3>1. pc[w] \in {"parse", "work"} /\ pc'[w] = "release" /\ Write(Job(w), "cancelled")
      BY <1>0, <2>3 DEF StopCancelled, Goto
    <3> QED
      BY <2>1, <3>1, WriteSolo DEF Statuses, Unfinished, Terminal
  <2>4. CASE WriteRunning(w)
    <3>1. pc[w] = "parsing" /\ pc'[w] = "work" /\ Write(Job(w), "running")
      BY <1>0, <2>4 DEF WriteRunning, Goto
    <3> QED
      BY <2>1, <3>1, WriteSolo DEF Statuses, Unfinished
  <2>5. CASE WriteOutcome(w)
    <3>1. PICK s \in {"done", "failed"} : Write(Job(w), s)
      BY <2>5 DEF WriteOutcome
    <3>2. pc[w] = "finish" /\ pc'[w] = "release"
      BY <1>0, <2>5 DEF WriteOutcome, Goto
    <3> QED
      BY <2>1, <3>1, <3>2, WriteSolo DEF Statuses, Unfinished, Terminal
  <2>6. CASE FailRun(w)
    <3>1. pc[w] \in {"parse", "work"} /\ pc'[w] = "handler" /\ Write(Job(w), "failed")
      BY <1>0, <2>6 DEF FailRun, Goto
    <3> QED
      BY <2>1, <3>1, WriteSolo DEF Statuses, Unfinished, Terminal
  <2>7. CASE StartDelete(w)
    <3>1. pc[w] = "lookup" /\ pc'[w] = "deleting" /\ Write(Job(w), "running")
      BY <1>0, <2>7 DEF StartDelete, Goto
    <3> QED
      BY <2>1, <3>1, WriteSolo DEF Statuses, Unfinished
  <2>8. CASE DeleteDone(w)
    <3>1. pc[w] = "deleting" /\ pc'[w] = "ack" /\ Write(Job(w), "done")
      BY <1>0, <2>8 DEF DeleteDone, Goto
    <3> QED
      BY <2>1, <3>1, WriteSolo DEF Statuses, Unfinished, Terminal
  <2> QED
    BY <1>4, <2>2, <2>3, <2>4, <2>5, <2>6, <2>7, <2>8
<1> QED
  BY <1>1, <1>2, <1>3, <1>4, HandleSolo, RecoverSolo, MarkSolo, PopSolo, RequeueSolo, RewriteSolo,
     AckSolo, GiveUpSolo DEF Next, Decide, Run, Fault

LEMMA SoloStates == ASSUME OneConsumer PROVE Spec => [](TypeInv /\ PlaceInv /\ SoloInv)
<1>1. Init => TypeInv /\ PlaceInv /\ SoloInv
  BY InitType, InitPlace, InitSolo
<1>2. TypeInv /\ PlaceInv /\ SoloInv /\ [Next]_vars => (TypeInv /\ PlaceInv /\ SoloInv)'
  BY NextType, NextPlaced, NextSent, NextSolo DEF PlaceInv
<1> QED
  BY <1>1, <1>2, PTL DEF Spec

(* With one consumer no job whose submission is over is forgotten, however often
   the consumer crashes and whatever a lost answer or a cancellation wrote: its
   row is terminal, or there is a receipt, a claim or a mark for it.  Two ways
   remain to lose it: the mark died with the worker, or a handler of the API
   saved an older status over the row. *)
THEOREM NothingIsForgotten == ASSUME OneConsumer PROVE Spec => []NoOtherOrphan
<1>1. TypeInv /\ PlaceInv /\ SoloInv => NoOtherOrphan
  BY DEF SoloInv
<1> QED
  BY <1>1, SoloStates, PTL

(* No write of the consumer undoes "done": the marks of a recovery pass and the
   writes of a run rest on a look at the row that nothing has overtaken. *)
LEMMA DoneIsKept ==
    ASSUME OneConsumer, TypeInv, PlaceInv, SoloInv, [Next]_vars,
           NEW j \in Jobs \ DeleteJobs, status[j] = "done", ~ApiBusy(j), j \notin stale
    PROVE  status'[j] = "done"
<1>0. /\ status \in [Jobs -> Statuses] /\ gateway[j] \notin {"new", "refused"}
      /\ j \notin cancelling
  BY DEF TypeInv, TypeOK, SoloInv, Rows, ApiBusy
<1>1. ASSUME NEW k \in Jobs, Gateway(k) PROVE status'[j] = "done"
  BY <1>0, <1>1 DEF Gateway, SaveJob, SendJob, PushRaises, FailRefused, ReadCancel, WriteCancel,
     Write
<1>2. ASSUME NEW h \in Handlers, Handle(h) PROVE status'[j] = "done"
  <2>1. CASE SaveRow(h)
    <3>1. rewrites[h] > 0 /\ h = <<h[1], h[2]>> /\ h[1] \in {"submit", "cancel"}
      BY <2>1 DEF SaveRow, Handlers
    <3>2. h[2] # j
      BY <3>1 DEF ApiBusy
    <3> QED
      BY <1>0, <2>1, <3>2 DEF SaveRow, Write
  <2> QED
    BY <1>2, <2>1 DEF Handle, LoadRow, SkipRow
<1>3. ASSUME NEW w \in Workers, WriteMark(w) PROVE status'[j] = "done"
  BY <1>0, <1>3 DEF WriteMark, Write, SoloInv, Fresh
<1>4. ASSUME NEW w \in Workers,
             \/ MarkRequeued(w) \/ StopCancelled(w) \/ WriteRunning(w) \/ WriteOutcome(w)
             \/ FailRun(w)
      PROVE  status'[j] = "done"
  BY <1>0, <1>4 DEF MarkRequeued, StopCancelled, WriteRunning, WriteOutcome, FailRun, Write,
     SoloInv, Fresh, Unfinished
<1>5. ASSUME NEW w \in Workers, StartDelete(w) \/ DeleteDone(w) \/ DeleteFails(w)
      PROVE  status'[j] = "done"
  <2>1. Job(w) \in DeleteJobs
    BY <1>5 DEF StartDelete, DeleteDone, DeleteFails, PlaceInv, Placed
  <2> QED
    BY <1>0, <1>5, <2>1 DEF StartDelete, DeleteDone, DeleteFails, Write
<1>6. ASSUME NEW w \in Workers, Rewrite(w) PROVE status'[j] = "done"
  <2>1. CASE SaveEngineRow(w)
    <3>1. RowOf(w) # j
      BY <2>1, RowInHand DEF SaveEngineRow, SoloInv, Fresh, Unfinished
    <3> QED
      BY <1>0, <2>1, <3>1 DEF SaveEngineRow, Write
  <2> QED
    BY <1>6, <2>1 DEF Rewrite, LoadEngineRow, rowVars
<1>7. CASE status' = status
  BY <1>7
<1> QED
  BY <1>1, <1>2, <1>3, <1>4, <1>5, <1>6, <1>7 DEF Next, Decide, Run, Fault, RecoverExpired,
     SkipMark, ReadMark, EndMark, PopNothing, Pop, LookupTerminal, LookupActive, LockTaken,
     LockBusy, Requeue, AckClaim, StartTerminal, StartRun, PassCheckpoint, Release,
     HeartbeatEnds, Crash, TimePassesLease, TimePassesLock, vars, rowVars

(* With one consumer a finished index job keeps its row through every crash,
   recovery and stale copy of its receipt: only a request of the API that is
   still under way takes "done" back, or one that saved an older status did. *)
THEOREM DoneStaysDone == ASSUME OneConsumer PROVE Spec => DoneIsFinal
<1>1. TypeInv /\ PlaceInv /\ SoloInv /\ [Next]_vars =>
        [\A j \in Jobs \ DeleteJobs :
            status[j] = "done" /\ status'[j] # "done" => ApiBusy(j) \/ j \in stale]_vars
  BY DoneIsKept
<1> QED
  BY <1>1, SoloStates, PTL DEF Spec, DoneIsFinal
=============================================================================
