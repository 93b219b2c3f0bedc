------------------------------ MODULE JobQueue ------------------------------
(***************************************************************************)
(* The Redis structures behind UpstashRedisQueueRepository: the list of    *)
(* waiting receipts, the sorted set of leased receipts and the per-tenant  *)
(* owner lock.  Every operator is one Redis command or one EVAL script and *)
(* is therefore atomic.  The module has no behaviour of its own: the       *)
(* modules that extend it conjoin these operators into their actions.      *)
(*                                                                         *)
(* A receipt is the JSON text of the payload, so two copies of the same    *)
(* job with the same attempt number are the same member of the sorted set. *)
(* Time is abstracted: "expired" holds the leased receipts whose score has *)
(* passed, and a lock or a lease runs out by an action of its own, which   *)
(* the extending module guards with what the renewals prevent.             *)
(***************************************************************************)
EXTENDS Naturals, FiniteSets, Sequences

CONSTANTS Jobs,           \* job identifiers
          Owners,         \* tenants, the unit of serialisation
          NoJob,          \* the value of an absent lock key
          MaxRecoveries,  \* INDEX_JOB_MAX_RECOVERIES
          RecoverLimit    \* receipts one recovery pass handles (25)

ASSUME QueueAssumption == /\ NoJob \notin Jobs
                          /\ MaxRecoveries \in Nat
                          /\ RecoverLimit \in Nat \ {0}

VARIABLES queue,       \* LPUSH appends, RPOP takes the head
          processing,  \* the members of the sorted set of leases
          expired,     \* those of them whose lease has run out
          ownerLock    \* the job identifier stored under each tenant's key

queueVars == <<queue, processing, expired>>

Receipt == [job : Jobs, attempt : 0..MaxRecoveries]

QueueTypeOK ==
    /\ queue \in Seq(Receipt)
    /\ processing \subseteq Receipt
    /\ expired \subseteq processing
    /\ ownerLock \in [Owners -> Jobs \cup {NoJob}]

QueueInit ==
    /\ queue = <<>>
    /\ processing = {}
    /\ expired = {}
    /\ ownerLock = [o \in Owners |-> NoJob]

-----------------------------------------------------------------------------
(* LPUSH of a payload whose attempt number is kept, 0 for a new job. *)
Enqueue(r) ==
    /\ queue' = Append(queue, r)
    /\ UNCHANGED <<processing, expired>>

(* _CLAIM_SCRIPT: the oldest receipt leaves the list and is leased.  ZADD of
   a member already present only renews its score. *)
Claim ==
    /\ queue # <<>>
    /\ queue' = Tail(queue)
    /\ processing' = processing \cup {Head(queue)}
    /\ expired' = expired \ {Head(queue)}

(* ZREM of the receipt, whoever leased it last. *)
Ack(r) ==
    /\ processing' = processing \ {r}
    /\ expired' = expired \ {r}
    /\ UNCHANGED queue

(* _RECOVER_SCRIPT: a batch of expired receipts leaves the sorted set. *)
RecoverBatch(B) ==
    /\ B \subseteq expired
    /\ \/ B = expired /\ Cardinality(B) <= RecoverLimit
       \/ Cardinality(B) = RecoverLimit

Retried(r) == [r EXCEPT !.attempt = @ + 1]
(* Variant: one recovery too many. *)
RetryablePastLimit(B) == {r \in B : r.attempt <= MaxRecoveries}

Retryable(B) == {r \in B : r.attempt + 1 <= MaxRecoveries}

(* The orders in which the script may walk a set of receipts: ties of the
   score and the unmodelled scores leave it open. *)
Listings(S) ==
    {s \in [1..Cardinality(S) -> S] : \A i, j \in DOMAIN s : s[i] = s[j] => i = j}

(* Variant: the batch leaves the sorted set and is not pushed again. *)
RecoverWithoutPush(B, again) ==
    /\ queue' = queue
    /\ processing' = processing \ B
    /\ expired' = expired \ B

(* The receipts listed in "again" go back to the list with one more attempt;
   those that are not retryable only leave the sorted set. *)
Recover(B, again) ==
    /\ queue' = queue \o [i \in DOMAIN again |-> Retried(again[i])]
    /\ processing' = processing \ B
    /\ expired' = expired \ B

(* The score of a leased receipt passes. *)
LeaseExpires(r) ==
    /\ r \in processing \ expired
    /\ expired' = expired \cup {r}
    /\ UNCHANGED <<queue, processing>>

-----------------------------------------------------------------------------
(* SET key job NX: taken only when the key is absent, by the same job too. *)
LockFree(o) == ownerLock[o] = NoJob

(* Variant: SET without NX. *)
TakeLockFromHolder(o, j) == ownerLock' = [ownerLock EXCEPT ![o] = j]

TakeLock(o, j) ==
    /\ LockFree(o)
    /\ ownerLock' = [ownerLock EXCEPT ![o] = j]

(* _RELEASE_OWNER_LOCK_SCRIPT: the key goes only if it holds this job. *)
ReleaseLock(o, j) ==
    ownerLock' = [ownerLock EXCEPT ![o] = IF @ = j THEN NoJob ELSE @]

(* EXPIRE of the key. *)
LockExpires(o) ==
    /\ ownerLock[o] # NoJob
    /\ ownerLock' = [ownerLock EXCEPT ![o] = NoJob]

(* What the two refresh scripts answer: 1 exactly when there is something of
   this job left to renew. *)
LockIsMine(o, j) == ownerLock[o] = j
LeaseIsHeld(r) == r \in processing
=============================================================================
