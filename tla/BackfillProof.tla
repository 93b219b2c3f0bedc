----------------------------- MODULE BackfillProof -----------------------------
(***************************************************************************)
(* Proofs about Backfill for any list of documents, any number of replicas *)
(* and faults, and any size of a batch.                                    *)
(***************************************************************************)
EXTENDS Backfill, FiniteSetTheorems, NaturalsInduction, WellFoundedInduction, TLAPS


(* A worker that is in the middle of a start has a document in hand. *)
InHand == {"save", "row", "push", "undo"}

(* The lock: unless it has expired in the middle of a round, its holder is the
   only worker in a round, and nobody else has saved a job for its document. *)
Alone ==
    ~overlap =>
        /\ \A w \in Workers : InRound(w) => lock
        /\ \A v, w \in Workers : InRound(v) /\ InRound(w) => v = w
        /\ \A w \in Workers : pc[w] = "save" => Jobs(Current(w)) = 0
        /\ \A d \in Docs : Jobs(d) <= 1

(* The jobs that only their row knows are those of the workers that are about to
   queue them, but for starts that were cut short and for deleted documents. *)
Counted ==
    \A d \in Docs :
        /\ index[d] # "gone" => saved[d] >= Cardinality(Saving(d))
        /\ d \notin stopped => saved[d] <= Cardinality(Saving(d))

(* A document that is being indexed has its job in the queue or on its way. *)
Covered(d) == queued[d] > 0 \/ Underway(d) \/ d \in stopped
IndexingIsCovered == \A d \in Docs : index[d] = "indexing" => Covered(d)
RowBeforeQueue ==
    /\ \A w \in Workers : pc[w] \in {"push", "undo"} => index[Current(w)] # "missing"
    /\ \A d \in Docs : queued[d] > 0 => index[d] # "missing"

(* A round that has neither failed nor left documents for the next one has in
   its plan every document that nobody has started. *)
Unstarted(d) == index[d] = "missing" /\ ~Underway(d) /\ d \notin stopped
RoundIsWhole ==
    \A w \in Workers :
        pc[w] \in InHand \cup {"start"} /\ ~failed[w] /\ ~more[w] =>
            \A i \in Places : Unstarted(Listed[i]) => i \in plan[w]
DoneIsWhole == maint.status = "done" => \A d \in Docs : ~Unstarted(d)

Functions ==
    /\ pc \in [Workers -> {"idle", "lock", "scan", "start", "save", "row", "push", "undo"}]
    /\ plan \in [Workers -> SUBSET Places]
    /\ failed \in [Workers -> BOOLEAN] /\ more \in [Workers -> BOOLEAN]
    /\ seen \in [Workers -> BOOLEAN]
    /\ stopped \subseteq Docs

Inv ==
    /\ TypeOK /\ Functions
    /\ Alone /\ Counted /\ IndexingIsCovered /\ RowBeforeQueue /\ RoundIsWhole /\ DoneIsWhole

-----------------------------------------------------------------------------
(* The place that is next in a plan, and the size of a plan. *)

LEMMA LeastIn ==
    ASSUME NEW S \in SUBSET Nat, S # {}
    PROVE  Least(S) \in S
<1> DEFINE R == {ss \in Nat \X Nat : ss[1] < ss[2]}
<1>1. IsWellFoundedOn(R, Nat)
  BY NatLessThanWellFounded DEF OpToRel
<1>2. \E i \in S : \A k \in S : <<k, i>> \notin R
  <2> HIDE DEF R
  <2> QED
    BY <1>1, WFMin
<1>3. PICK i \in S : \A k \in S : <<k, i>> \notin R
  BY <1>2
<1>4. ASSUME NEW k \in S PROVE i <= k
  <2>1. i \in Nat /\ k \in Nat /\ <<k, i>> \in Nat \X Nat /\ <<k, i>> \notin R
    BY <1>3
  <2> QED
    BY <2>1
<1> QED
  BY <1>3, <1>4 DEF Least

(* The members of a finite set of places that come before one of them. *)
Before(S, i) == {k \in S : k < i}

LEMMA BeforeCounts ==
    ASSUME NEW S \in SUBSET Nat, IsFiniteSet(S)
    PROVE  \A i \in S : /\ Cardinality(Before(S, i)) \in Nat
                        /\ Cardinality(Before(S, i)) < Cardinality(S)
                        /\ \A j \in S : i < j => Cardinality(Before(S, i)) < Cardinality(Before(S, j))
<1> SUFFICES ASSUME NEW i \in S
             PROVE /\ Cardinality(Before(S, i)) \in Nat
                   /\ Cardinality(Before(S, i)) < Cardinality(S)
                   /\ \A j \in S : i < j => Cardinality(Before(S, i)) < Cardinality(Before(S, j))
  OBVIOUS
<1>0. ASSUME NEW T \in SUBSET S PROVE IsFiniteSet(T) /\ Cardinality(T) \in Nat
  BY FS_Subset, FS_CardinalityType
<1>1. \A j \in S : Before(S, j) \in SUBSET S /\ j \notin Before(S, j)
  BY DEF Before
<1>2. Cardinality(Before(S, i)) < Cardinality(S)
  <2>1. Cardinality(Before(S, i)) <= Cardinality(S) /\ Cardinality(Before(S, i)) # Cardinality(S)
    BY <1>1, FS_Subset
  <2> QED
    BY <1>0, <1>1, <2>1
<1>3. ASSUME NEW j \in S, i < j PROVE Cardinality(Before(S, i)) < Cardinality(Before(S, j))
  <2>1. Before(S, i) \in SUBSET Before(S, j) /\ i \in Before(S, j)
    <3>1. i \in Nat /\ j \in Nat /\ \A k \in S : k \in Nat
      OBVIOUS
    <3>2. \A k \in S : k < i => k < j
      BY <1>3, <3>1
    <3> QED
      BY <1>3, <3>2 DEF Before
  <2>2. IsFiniteSet(Before(S, j))
    BY <1>0, <1>1
  <2>3. /\ Cardinality(Before(S, i)) <= Cardinality(Before(S, j))
        /\ Cardinality(Before(S, i)) # Cardinality(Before(S, j))
    BY <1>1, <2>1, <2>2, FS_Subset
  <2> QED
    BY <1>0, <1>1, <2>3
<1> QED
  BY <1>0, <1>1, <1>2, <1>3

LEMMA FirstFew ==
    ASSUME NEW S \in SUBSET Nat, IsFiniteSet(S), NEW b \in Nat \ {0}, NEW T,
           T = {i \in S : Cardinality(Before(S, i)) < b}
    PROVE  /\ T \subseteq S /\ IsFiniteSet(T) /\ Cardinality(T) <= b
           /\ Cardinality(S) <= b => T = S
<1> DEFINE rank == [i \in T |-> Cardinality(Before(S, i))]
<1>1. T \in SUBSET S /\ IsFiniteSet(T)
  BY FS_Subset
<1>2. rank \in [T -> 0..b - 1]
  <2>1. \A i \in T : Cardinality(Before(S, i)) \in Nat /\ Cardinality(Before(S, i)) < b
    BY <1>1, BeforeCounts
  <2>2. \A i \in T : Cardinality(Before(S, i)) \in 0..b - 1
    BY <2>1
  <2> QED
    BY <2>2
<1>3. ASSUME NEW i \in T, NEW j \in T, rank[i] = rank[j] PROVE i = j
  <2>1. i \in S /\ j \in S /\ i \in Nat /\ j \in Nat
    BY <1>1
  <2>2. Cardinality(Before(S, i)) = Cardinality(Before(S, j))
    BY <1>3
  <2>3. Cardinality(Before(S, i)) \in Nat
    BY <2>1, BeforeCounts
  <2>4. ~(i < j) /\ ~(j < i)
    BY <2>1, <2>2, <2>3, BeforeCounts
  <2> QED
    BY <2>1, <2>4
<1>4. rank \in Injection(T, 0..b - 1)
  BY <1>2, <1>3 DEF Injection, IsInjective
<1>5. IsFiniteSet(0..b - 1) /\ Cardinality(0..b - 1) = b
  BY FS_Interval
<1>6. Cardinality(T) <= b
  <2> HIDE DEF rank
  <2> QED
    BY <1>4, <1>5, FS_Injection
<1>7. Cardinality(S) <= b => T = S
  <2>1. Cardinality(S) \in Nat
    BY FS_CardinalityType
  <2>2. ASSUME Cardinality(S) <= b, NEW i \in S PROVE i \in T
    <3>1. Cardinality(Before(S, i)) \in Nat /\ Cardinality(Before(S, i)) < Cardinality(S)
      BY BeforeCounts
    <3>2. Cardinality(Before(S, i)) < b
      BY <2>1, <2>2, <3>1
    <3> QED
      BY <3>2
  <2> QED
    BY <1>1, <2>2
<1> QED
  BY <1>1, <1>6, <1>7

LEMMA BatchFits ==
    /\ Batch \subseteq Places /\ Cardinality(Batch) <= BatchSize
    /\ Cardinality(Selected) <= BatchSize => Batch = Selected
<1>1. Len(Listed) \in Nat /\ BatchSize \in Nat \ {0}
  BY BackfillAssumption
<1>2. IsFiniteSet(Places) /\ Places \in SUBSET Nat
  BY <1>1, FS_Interval DEF Places
<1>3. Selected \in SUBSET Places
  BY DEF Selected
<1>4. Selected \in SUBSET Nat /\ IsFiniteSet(Selected)
  BY <1>2, <1>3, FS_Subset
<1>5. Batch = {i \in Selected : Cardinality(Before(Selected, i)) < BatchSize}
  BY DEF Batch, Before
<1> QED
  BY <1>1, <1>3, <1>4, <1>5, FirstFew

-----------------------------------------------------------------------------
(* The document in hand, and who is saving which document. *)

LEMMA Given == /\ IsFiniteSet(Workers) /\ BatchSize \in Nat \ {0} /\ MaxFaults \in Nat
               /\ Len(Listed) \in Nat /\ Places \subseteq Nat /\ IsFiniteSet(Places)
BY BackfillAssumption, FS_Interval DEF Places

LEMMA Hand ==
    ASSUME Functions, NEW w \in Workers, plan[w] # {}
    PROVE  Least(plan[w]) \in plan[w] /\ Least(plan[w]) \in Places /\ Current(w) \in Docs
<1>1. plan[w] \in SUBSET Nat /\ plan[w] \subseteq Places
  BY Given DEF Functions
<1>2. Least(plan[w]) \in plan[w]
  BY <1>1, LeastIn
<1> QED
  BY <1>1, <1>2 DEF Current, Docs

SavingAny(w) == pc[w] \in {"row", "push", "undo"}
OthersSame(w) == \A v \in Workers : v # w => pc'[v] = pc[v] /\ plan'[v] = plan[v]

LEMMA SavingSame ==
    ASSUME NEW w \in Workers, OthersSame(w), SavingAny(w)' <=> SavingAny(w),
           SavingAny(w) => plan'[w] = plan[w]
    PROVE  \A d : Saving(d)' = Saving(d)
BY DEF Saving, SavingAny, OthersSame, Current

LEMMA SavingAdds ==
    ASSUME NEW w \in Workers, OthersSame(w), SavingAny(w)', ~SavingAny(w), plan'[w] = plan[w]
    PROVE  \A d : IF d = Current(w) THEN w \notin Saving(d) /\ Saving(d)' = Saving(d) \cup {w}
                                    ELSE Saving(d)' = Saving(d)
<1>1. \A v \in Workers : Current(v)' = Current(v)
  BY DEF OthersSame, Current
<1>2. \A v \in Workers : v # w => (SavingAny(v)' <=> SavingAny(v))
  BY DEF OthersSame, SavingAny
<1>3. \A d : Saving(d) = {v \in Workers : SavingAny(v) /\ Current(v) = d}
  BY DEF Saving, SavingAny
<1>4. \A d : Saving(d)' = {v \in Workers : SavingAny(v)' /\ Current(v)' = d}
  BY DEF Saving, SavingAny
<1> QED
  BY <1>1, <1>2, <1>3, <1>4

LEMMA SavingDrops ==
    ASSUME NEW w \in Workers, OthersSame(w), ~SavingAny(w)', SavingAny(w)
    PROVE  \A d : IF d = Current(w) THEN w \in Saving(d) /\ Saving(d)' = Saving(d) \ {w}
                                    ELSE Saving(d)' = Saving(d)
<1>1. \A v \in Workers : v # w => Current(v)' = Current(v)
  BY DEF OthersSame, Current
<1>2. \A v \in Workers : v # w => (SavingAny(v)' <=> SavingAny(v))
  BY DEF OthersSame, SavingAny
<1>3. \A d : Saving(d) = {v \in Workers : SavingAny(v) /\ Current(v) = d}
  BY DEF Saving, SavingAny
<1>4. \A d : Saving(d)' = {v \in Workers : SavingAny(v)' /\ Current(v)' = d}
  BY DEF Saving, SavingAny
<1> QED
  BY <1>1, <1>2, <1>3, <1>4

LEMMA SavingCounts ==
    ASSUME NEW d
    PROVE  /\ Cardinality(Saving(d)) \in Nat
           /\ Cardinality(Saving(d)) = 0 <=> ~Underway(d)
           /\ \A w : w \notin Saving(d) => Cardinality(Saving(d) \cup {w}) = Cardinality(Saving(d)) + 1
           /\ \A w : w \in Saving(d) => /\ Cardinality(Saving(d) \ {w}) = Cardinality(Saving(d)) - 1
                                        /\ Cardinality(Saving(d)) > 0
<1>1. IsFiniteSet(Saving(d))
  BY Given, FS_Subset DEF Saving
<1>2. Cardinality(Saving(d)) \in Nat
  BY <1>1, FS_CardinalityType
<1>3. Cardinality(Saving(d)) = 0 <=> Saving(d) = {}
  BY <1>1, FS_EmptySet
<1> QED
  BY <1>1, <1>2, <1>3, FS_AddElement, FS_RemoveElement DEF Underway

LEMMA SavingCountsNext ==
    ASSUME NEW d
    PROVE  /\ Cardinality(Saving(d)') \in Nat
           /\ Cardinality(Saving(d)') = 0 <=> ~Underway(d)'
<1>1. IsFiniteSet(Saving(d)')
  BY Given, FS_Subset DEF Saving
<1>2. Cardinality(Saving(d)') \in Nat
  BY <1>1, FS_CardinalityType
<1>3. Cardinality(Saving(d)') = 0 <=> Saving(d)' = {}
  BY <1>1, FS_EmptySet
<1> QED
  BY <1>2, <1>3 DEF Underway

-----------------------------------------------------------------------------
(* Each step keeps what is known of the documents, and starts none of them
   without a job: the unstarted ones only become fewer. *)

DocsAreCovered == Counted /\ IndexingIsCovered /\ RowBeforeQueue
Shrinks == \A d \in Docs : Unstarted(d)' => Unstarted(d)

LEMMA IdleStep ==
    ASSUME Inv, NEW w \in Workers, OthersSame(w), SavingAny(w)' <=> SavingAny(w),
           SavingAny(w) => plan'[w] = plan[w],
           pc'[w] \in {"push", "undo"} => pc[w] \in {"push", "undo"},
           UNCHANGED docVars, stopped' = stopped
    PROVE  DocsAreCovered' /\ Shrinks
<1>1. \A d : Saving(d)' = Saving(d)
  BY SavingSame
<1>2. \A v \in Workers : pc'[v] \in {"push", "undo"} => pc[v] \in {"push", "undo"} /\ Current(v)' = Current(v)
  BY DEF OthersSame, Current, SavingAny
<1>3. Counted'
  BY <1>1 DEF Inv, Counted, docVars
<1>4. IndexingIsCovered'
  BY <1>1 DEF Inv, IndexingIsCovered, Covered, Underway, docVars
<1>5. RowBeforeQueue'
  BY <1>2 DEF Inv, RowBeforeQueue, docVars
<1>6. Shrinks
  BY <1>1 DEF Shrinks, Unstarted, Underway, docVars
<1> QED
  BY <1>3, <1>4, <1>5, <1>6 DEF DocsAreCovered

(* A start that is cut short after its job was saved. *)
LEMMA CutShortStep ==
    ASSUME Inv, NEW w \in Workers, OthersSame(w), SavingAny(w), ~SavingAny(w)',
           UNCHANGED docVars, stopped' = stopped \cup {Current(w)}
    PROVE  DocsAreCovered' /\ Shrinks
<1>1. \A d : IF d = Current(w) THEN w \in Saving(d) /\ Saving(d)' = Saving(d) \ {w}
                               ELSE Saving(d)' = Saving(d)
  BY SavingDrops
<1>2. \A v \in Workers : pc'[v] \in {"push", "undo"} => pc[v] \in {"push", "undo"} /\ Current(v)' = Current(v)
  BY DEF OthersSame, Current, SavingAny
<1>3. Counted'
  <2> SUFFICES ASSUME NEW d \in Docs
               PROVE /\ index'[d] # "gone" => saved'[d] >= Cardinality(Saving(d)')
                     /\ d \notin stopped' => saved'[d] <= Cardinality(Saving(d)')
    BY DEF Counted
  <2>1. CASE d = Current(w)
    <3>1. Cardinality(Saving(d)') = Cardinality(Saving(d)) - 1 /\ Cardinality(Saving(d)) \in Nat
      BY <1>1, <2>1, SavingCounts
    <3>2. saved[d] \in Nat
      BY DEF Inv, TypeOK
    <3> QED
      BY <2>1, <3>1, <3>2 DEF Inv, Counted, docVars
  <2>2. CASE d # Current(w)
    BY <1>1, <2>2 DEF Inv, Counted, docVars
  <2> QED
    BY <2>1, <2>2
<1>4. IndexingIsCovered'
  BY <1>1 DEF Inv, IndexingIsCovered, Covered, Underway, docVars
<1>5. RowBeforeQueue'
  BY <1>2 DEF Inv, RowBeforeQueue, docVars
<1>6. Shrinks
  BY <1>1 DEF Shrinks, Unstarted, Underway, docVars
<1> QED
  BY <1>3, <1>4, <1>5, <1>6 DEF DocsAreCovered

LEMMA SaveJobStep ==
    ASSUME Inv, NEW w \in Workers, SaveJob(w)
    PROVE  DocsAreCovered' /\ Shrinks /\ OthersSame(w)
<1>0. plan[w] # {} /\ pc[w] = "save" /\ pc' = [pc EXCEPT ![w] = "row"] /\ plan' = plan
  BY DEF Inv, TypeOK, SaveJob, Goto
<1>1. OthersSame(w) /\ SavingAny(w)' /\ ~SavingAny(w) /\ plan'[w] = plan[w]
  BY <1>0 DEF Inv, Functions, OthersSame, SavingAny
<1>2. \A d : IF d = Current(w) THEN w \notin Saving(d) /\ Saving(d)' = Saving(d) \cup {w}
                               ELSE Saving(d)' = Saving(d)
  BY <1>1, SavingAdds
<1>3. /\ Current(w) \in Docs /\ index' = index /\ queued' = queued /\ stopped' = stopped
      /\ saved' = [saved EXCEPT ![Current(w)] = @ + 1] /\ saved \in [Docs -> Nat]
  BY <1>0, Hand DEF Inv, TypeOK, SaveJob, ghosts
<1>4. Counted'
  <2> SUFFICES ASSUME NEW d \in Docs
               PROVE /\ index'[d] # "gone" => saved'[d] >= Cardinality(Saving(d)')
                     /\ d \notin stopped' => saved'[d] <= Cardinality(Saving(d)')
    BY DEF Counted
  <2>1. CASE d = Current(w)
    <3>1. Cardinality(Saving(d)') = Cardinality(Saving(d)) + 1 /\ Cardinality(Saving(d)) \in Nat
      BY <1>2, <2>1, SavingCounts
    <3>2. saved'[d] = saved[d] + 1 /\ saved[d] \in Nat
      BY <1>3, <2>1
    <3> QED
      BY <1>3, <3>1, <3>2 DEF Inv, Counted
  <2>2. CASE d # Current(w)
    BY <1>2, <1>3, <2>2 DEF Inv, Counted
  <2> QED
    BY <2>1, <2>2
<1>5. IndexingIsCovered' /\ Shrinks
  BY <1>2, <1>3 DEF Inv, IndexingIsCovered, Covered, Underway, Shrinks, Unstarted
<1>6. RowBeforeQueue'
  <2>1. \A v \in Workers : pc'[v] \in {"push", "undo"} => pc[v] \in {"push", "undo"} /\ Current(v)' = Current(v)
    BY <1>0 DEF Inv, Functions, Current
  <2> QED
    BY <1>3, <2>1 DEF Inv, RowBeforeQueue
<1> QED
  BY <1>1, <1>4, <1>5, <1>6 DEF DocsAreCovered

LEMMA SaveRowStep ==
    ASSUME Inv, NEW w \in Workers, SaveRow(w)
    PROVE  DocsAreCovered' /\ Shrinks /\ OthersSame(w)
<1>0. plan[w] # {} /\ pc[w] = "row" /\ pc' = [pc EXCEPT ![w] = "push"] /\ plan' = plan
  BY DEF Inv, TypeOK, SaveRow, Goto
<1>1. OthersSame(w) /\ SavingAny(w)' /\ SavingAny(w) /\ plan'[w] = plan[w]
  BY <1>0 DEF Inv, Functions, OthersSame, SavingAny
<1>2. \A d : Saving(d)' = Saving(d)
  BY <1>1, SavingSame
<1>3. Current(w) \in Docs /\ queued' = queued /\ saved' = saved /\ stopped' = stopped
  BY <1>0, Hand DEF Inv, SaveRow, ghosts
<1>4. \A d \in Docs : /\ d # Current(w) => index'[d] = index[d]
                      /\ d = Current(w) => index'[d] = IF index[d] = "gone" THEN "gone" ELSE "indexing"
  BY <1>3 DEF Inv, TypeOK, SaveRow, SetIndex
<1>5. \A d \in Docs : d = Current(w) => Saving(d) # {}
  BY <1>1 DEF Saving, SavingAny
<1>6. Counted'
  BY <1>2, <1>3, <1>4 DEF Inv, Counted
<1>7. IndexingIsCovered' /\ Shrinks
  BY <1>2, <1>3, <1>4, <1>5 DEF Inv, IndexingIsCovered, Covered, Underway, Shrinks, Unstarted
<1>8. RowBeforeQueue'
  <2>1. \A v \in Workers : /\ Current(v)' = Current(v)
                           /\ v # w => pc'[v] = pc[v]
    BY <1>0 DEF Inv, Functions, Current
  <2>2. \A v \in Workers : pc[v] \in {"push", "undo"} => Current(v) \in Docs
    BY Hand DEF Inv, TypeOK
  <2>3. \A d \in Docs : index'[d] = "missing" => index[d] = "missing" /\ d # Current(w)
    BY <1>4
  <2> QED
    BY <1>3, <2>1, <2>2, <2>3 DEF Inv, RowBeforeQueue
<1> QED
  BY <1>1, <1>6, <1>7, <1>8 DEF DocsAreCovered

(* Both end a start with the row known to be there: the job goes to the queue,
   or job and row are made terminal. *)
LEMMA PushStep ==
    ASSUME Inv, NEW w \in Workers, Push(w) \/ Undo(w)
    PROVE  DocsAreCovered' /\ Shrinks /\ OthersSame(w)
<1>0. /\ plan[w] # {} /\ pc[w] \in {"push", "undo"} /\ pc' = [pc EXCEPT ![w] = "start"]
      /\ plan' = [plan EXCEPT ![w] = @ \ {Least(@)}]
  BY DEF Inv, TypeOK, Push, Undo, Goto, Finished
<1>1. OthersSame(w) /\ ~SavingAny(w)' /\ SavingAny(w)
  BY <1>0 DEF Inv, Functions, OthersSame, SavingAny
<1>2. \A d : IF d = Current(w) THEN w \in Saving(d) /\ Saving(d)' = Saving(d) \ {w}
                               ELSE Saving(d)' = Saving(d)
  BY <1>1, SavingDrops
<1>3. /\ Current(w) \in Docs /\ stopped' = stopped
      /\ saved \in [Docs -> Nat] /\ queued \in [Docs -> Nat]
      /\ index[Current(w)] # "missing"
  BY <1>0, Hand DEF Inv, TypeOK, RowBeforeQueue, Push, Undo, ghosts
<1>4. \A d \in Docs : /\ d # Current(w) => saved'[d] = saved[d] /\ queued'[d] = queued[d] /\ index'[d] = index[d]
                      /\ d = Current(w) => saved'[d] = IF saved[d] > 0 THEN saved[d] - 1 ELSE 0
  <2>1. CASE Push(w)
    <3> DEFINE c == Current(w)
               n == IF saved[c] > 0 THEN 1 ELSE 0
    <3>1. /\ saved' = [saved EXCEPT ![c] = @ - n] /\ queued' = [queued EXCEPT ![c] = @ + n]
          /\ index' = index
      BY <2>1 DEF Push
    <3>2. saved[c] \in Nat /\ c \in Docs
      BY <1>3
    <3>3. saved[c] - n = IF saved[c] > 0 THEN saved[c] - 1 ELSE 0
      BY <3>2
    <3> HIDE DEF c, n
    <3>4. saved'[c] = saved[c] - n /\ \A d \in Docs : d # c => saved'[d] = saved[d] /\ queued'[d] = queued[d]
      BY <1>3, <3>1, <3>2
    <3> QED
      BY <3>1, <3>3, <3>4 DEF c
  <2>2. CASE Undo(w)
    BY <1>3, <2>2 DEF Inv, TypeOK, Undo, SetIndex
  <2> QED
    BY <2>1, <2>2
<1>5. \A d \in Docs : d = Current(w) =>
        \/ index'[d] = index[d] /\ queued'[d] = IF saved[d] > 0 THEN queued[d] + 1 ELSE queued[d]
        \/ queued'[d] = queued[d] /\ index'[d] \in {"gone", "failed"} /\ (index[d] = "gone" => index'[d] = "gone")
  <2>1. CASE Push(w)
    BY <1>3, <2>1 DEF Push
  <2>2. CASE Undo(w)
    BY <1>3, <2>2 DEF Inv, TypeOK, Undo, SetIndex
  <2> QED
    BY <2>1, <2>2
<1>6. \A d \in Docs : d = Current(w) =>
        /\ Cardinality(Saving(d)') = Cardinality(Saving(d)) - 1
        /\ Cardinality(Saving(d)) \in Nat /\ Cardinality(Saving(d)) > 0
  BY <1>2, SavingCounts
<1>7. \A d \in Docs : (index[d] = "gone" => index'[d] = "gone") /\ (index'[d] = "missing" => index[d] = "missing")
  BY <1>4, <1>5
<1>8. Counted'
  <2> SUFFICES ASSUME NEW d \in Docs
               PROVE /\ index'[d] # "gone" => saved'[d] >= Cardinality(Saving(d)')
                     /\ d \notin stopped' => saved'[d] <= Cardinality(Saving(d)')
    BY DEF Counted
  <2>0. /\ index[d] # "gone" => saved[d] >= Cardinality(Saving(d))
        /\ d \notin stopped => saved[d] <= Cardinality(Saving(d))
        /\ saved[d] \in Nat
    BY <1>3 DEF Inv, Counted
  <2>1. CASE d = Current(w)
    BY <1>3, <1>4, <1>6, <1>7, <2>0, <2>1
  <2>2. CASE d # Current(w)
    BY <1>2, <1>3, <1>4, <2>0, <2>2
  <2> QED
    BY <2>1, <2>2
<1>9. IndexingIsCovered'
  <2> SUFFICES ASSUME NEW d \in Docs, index'[d] = "indexing" PROVE Covered(d)'
    BY DEF IndexingIsCovered
  <2>1. CASE d = Current(w)
    <3>1. index[d] = "indexing" /\ queued'[d] = IF saved[d] > 0 THEN queued[d] + 1 ELSE queued[d]
      BY <1>5, <2>1
    <3>2. saved[d] >= Cardinality(Saving(d)) /\ saved[d] \in Nat /\ queued[d] \in Nat
      BY <1>3, <3>1 DEF Inv, Counted
    <3>3. saved[d] > 0
      BY <1>6, <2>1, <3>2
    <3> QED
      BY <3>1, <3>2, <3>3 DEF Covered
  <2>2. CASE d # Current(w)
    BY <1>2, <1>3, <1>4, <2>2 DEF Inv, IndexingIsCovered, Covered, Underway
  <2> QED
    BY <2>1, <2>2
<1>10. Shrinks
  BY <1>2, <1>3, <1>4, <1>7 DEF Shrinks, Unstarted, Underway
<1>11. RowBeforeQueue'
  <2>1. \A v \in Workers : pc'[v] \in {"push", "undo"} => /\ pc[v] \in {"push", "undo"}
                                                          /\ Current(v)' = Current(v)
                                                          /\ Current(v) \in Docs
    BY <1>1, Hand DEF Inv, TypeOK, OthersSame, SavingAny, Current
  <2>2. \A v \in Workers : pc'[v] \in {"push", "undo"} => index'[Current(v)'] # "missing"
    BY <1>7, <2>1 DEF Inv, RowBeforeQueue
  <2>3. \A d \in Docs : queued'[d] > 0 => index'[d] # "missing"
    <3> SUFFICES ASSUME NEW d \in Docs, queued'[d] > 0 PROVE index'[d] # "missing"
      OBVIOUS
    <3>1. CASE d = Current(w)
      BY <1>3, <1>7, <3>1
    <3>2. CASE d # Current(w)
      BY <1>4, <3>2 DEF Inv, RowBeforeQueue
    <3> QED
      BY <3>1, <3>2
  <2> QED
    BY <2>2, <2>3 DEF RowBeforeQueue
<1> QED
  BY <1>1, <1>8, <1>9, <1>10, <1>11 DEF DocsAreCovered

LEMMA ServeStep ==
    ASSUME Inv, NEW w \in Workers, Serve(w)
    PROVE  DocsAreCovered' /\ Shrinks
<1>0. pc' = pc /\ plan' = plan /\ saved' = saved /\ stopped' = stopped
  BY DEF Serve, workerVars, ghosts
<1>1. \A d : Saving(d)' = Saving(d)
  BY <1>0 DEF Saving, Current
<1>2. PICK c \in Docs : /\ queued[c] > 0 /\ queued' = [queued EXCEPT ![c] = @ - 1]
                        /\ SetIndex(c, "done") \/ SetIndex(c, "failed")
  BY DEF Serve
<1>3. queued \in [Docs -> Nat]
  BY DEF Inv, TypeOK
<1>4. \A d \in Docs : /\ d # c => queued'[d] = queued[d] /\ index'[d] = index[d]
                      /\ queued'[d] > 0 => queued[d] > 0
  BY <1>2, <1>3 DEF Inv, TypeOK, SetIndex
<1>5. /\ index'[c] \in {"gone", "done", "failed"}
      /\ index[c] = "gone" => index'[c] = "gone"
  BY <1>2 DEF Inv, TypeOK, SetIndex
<1>6. Counted'
  BY <1>0, <1>1, <1>4, <1>5 DEF Inv, Counted
<1>7. IndexingIsCovered' /\ Shrinks
  BY <1>0, <1>1, <1>4, <1>5 DEF Inv, IndexingIsCovered, Covered, Underway, Shrinks, Unstarted
<1>8. RowBeforeQueue'
  <2>1. \A v \in Workers : pc[v] \in {"push", "undo"} => Current(v) \in Docs /\ Current(v)' = Current(v)
    BY <1>0, Hand DEF Inv, TypeOK, Current
  <2>2. \A d \in Docs : index'[d] = "missing" => index[d] = "missing"
    BY <1>4, <1>5
  <2> QED
    BY <1>0, <1>4, <2>1, <2>2 DEF Inv, RowBeforeQueue
<1> QED
  BY <1>6, <1>7, <1>8 DEF DocsAreCovered

LEMMA DeleteStep ==
    ASSUME Inv, NEW c \in Docs, Delete(c)
    PROVE  DocsAreCovered' /\ Shrinks
<1>0. pc' = pc /\ plan' = plan /\ stopped' = stopped
  BY DEF Delete, workerVars, ghosts
<1>1. \A d : Saving(d)' = Saving(d)
  BY <1>0 DEF Saving, Current
<1>2. /\ \A d \in Docs : d # c => queued'[d] = queued[d] /\ index'[d] = index[d] /\ saved'[d] = saved[d]
      /\ index'[c] = "gone" /\ saved'[c] = 0 /\ queued'[c] = 0
  BY DEF Inv, TypeOK, Delete
<1>3. Counted'
  <2>1. Cardinality(Saving(c)') >= 0
    BY SavingCountsNext
  <2> QED
    BY <1>0, <1>1, <1>2, <2>1 DEF Inv, Counted
<1>4. IndexingIsCovered' /\ Shrinks
  BY <1>0, <1>1, <1>2 DEF Inv, IndexingIsCovered, Covered, Underway, Shrinks, Unstarted
<1>5. RowBeforeQueue'
  <2>1. \A v \in Workers : pc[v] \in {"push", "undo"} => Current(v) \in Docs /\ Current(v)' = Current(v)
    BY <1>0, Hand DEF Inv, TypeOK, Current
  <2> QED
    BY <1>0, <1>2, <2>1 DEF Inv, RowBeforeQueue
<1> QED
  BY <1>3, <1>4, <1>5 DEF DocsAreCovered

LEMMA StillStep ==
    ASSUME Inv, UNCHANGED <<docVars, pc, plan, stopped>>
    PROVE  DocsAreCovered' /\ Shrinks
<1>1. \A d : Saving(d)' = Saving(d)
  BY DEF Saving, Current
<1>2. \A v \in Workers : Current(v)' = Current(v)
  BY DEF Current
<1> QED
  BY <1>1, <1>2 DEF Inv, DocsAreCovered, Counted, IndexingIsCovered, Covered, RowBeforeQueue,
     Shrinks, Unstarted, Underway, docVars

LEMMA QuietWorkerStep ==
    ASSUME Inv, NEW w \in Workers,
           Check(w) \/ Enter(w) \/ Scan(w) \/ Start(w) \/ Report(w) \/ RoundFails(w) \/ PushFails(w)
    PROVE  DocsAreCovered' /\ Shrinks
<1>1. UNCHANGED docVars /\ stopped' = stopped
  BY DEF Check, Enter, Scan, Start, Report, RoundFails, PushFails, ghosts
<1>2. OthersSame(w)
  BY DEF Inv, Functions, OthersSame, Check, Enter, Scan, Start, Report, RoundFails, PushFails,
     Goto, Finished, Leave, Forget
<1>3. /\ SavingAny(w)' <=> SavingAny(w)
      /\ SavingAny(w) => plan'[w] = plan[w]
      /\ pc'[w] \in {"push", "undo"} => pc[w] \in {"push", "undo"}
  BY DEF Inv, Functions, SavingAny, Check, Enter, Scan, Start, Report, RoundFails, PushFails,
     Goto, Finished, Leave, Forget
<1> QED
  BY <1>1, <1>2, <1>3, IdleStep

LEMMA FaultyWorkerStep ==
    ASSUME Inv, NEW w \in Workers, StartFails(w) \/ Crash(w)
    PROVE  DocsAreCovered' /\ Shrinks
<1>1. UNCHANGED docVars
  BY DEF StartFails, Crash
<1>2. OthersSame(w)
  BY DEF Inv, Functions, OthersSame, StartFails, Crash, Goto, Finished, Forget
<1>3. pc'[w] \in {"start", "idle"} /\ ~SavingAny(w)'
  BY DEF Inv, Functions, SavingAny, StartFails, Crash, Goto, Finished
<1>4. CASE SavingAny(w)
  <2>1. stopped' = stopped \cup {Current(w)}
    BY <1>4 DEF SavingAny, StartFails, Crash
  <2> QED
    BY <1>1, <1>2, <1>3, <1>4, <2>1, CutShortStep
<1>5. CASE ~SavingAny(w)
  <2>1. stopped' = stopped
    BY <1>5 DEF SavingAny, StartFails, Crash
  <2> QED
    BY <1>1, <1>2, <1>3, <1>5, <2>1, IdleStep
<1> QED
  BY <1>4, <1>5

LEMMA DocsStep == Inv /\ [Next]_vars => DocsAreCovered' /\ Shrinks
<1> SUFFICES ASSUME Inv, [Next]_vars PROVE DocsAreCovered' /\ Shrinks
  OBVIOUS
<1>1. ASSUME NEW w \in Workers, Step(w) PROVE DocsAreCovered' /\ Shrinks
  BY <1>1, QuietWorkerStep, SaveJobStep, SaveRowStep, PushStep DEF Step
<1>2. ASSUME NEW w \in Workers, Serve(w) PROVE DocsAreCovered' /\ Shrinks
  BY <1>2, ServeStep
<1>3. ASSUME NEW w \in Workers, PushFails(w) \/ StartFails(w) \/ RoundFails(w) \/ Crash(w)
      PROVE DocsAreCovered' /\ Shrinks
  BY <1>3, QuietWorkerStep, FaultyWorkerStep
<1>4. CASE LockExpires
  BY <1>4, StillStep DEF LockExpires, workerVars
<1>5. ASSUME NEW d \in Docs, Delete(d) PROVE DocsAreCovered' /\ Shrinks
  BY <1>5, DeleteStep
<1>6. CASE UNCHANGED vars
  BY <1>6, StillStep DEF vars, workerVars, ghosts
<1> QED
  BY <1>1, <1>2, <1>3, <1>4, <1>5, <1>6 DEF Next

-----------------------------------------------------------------------------
(* A round leaves nothing out unless it says so. *)

Whole(v) ==
    pc[v] \in InHand \cup {"start"} /\ ~failed[v] /\ ~more[v] =>
        \A i \in Places : Unstarted(Listed[i]) => i \in plan[v]

LEMMA WholeKept ==
    ASSUME Inv, Shrinks, NEW v \in Workers,
           pc'[v] \in InHand \cup {"start"} => pc[v] \in InHand \cup {"start"},
           more'[v] = more[v], failed'[v] = failed[v], plan'[v] = plan[v]
    PROVE  Whole(v)'
<1>1. \A i \in Places : Listed[i] \in Docs
  BY DEF Docs
<1> QED
  BY <1>1 DEF Inv, RoundIsWhole, Whole, Shrinks

(* The worker itself plans and leaves documents. *)
LEMMA WholeScan ==
    ASSUME Inv, NEW w \in Workers, Scan(w)
    PROVE  Whole(w)'
<1>1. plan'[w] = Batch /\ (~more'[w] => ~(Cardinality(Selected) > BatchSize)) /\ index' = index
  BY DEF Inv, Functions, Scan, docVars
<1>2. Cardinality(Selected) \in Nat
  BY Given, FS_Subset, FS_CardinalityType DEF Selected
<1>3. ~more'[w] => plan'[w] = Selected
  BY <1>1, <1>2, Given, BatchFits
<1> QED
  BY <1>1, <1>3 DEF Whole, Unstarted, Selected

LEMMA WholeFinished ==
    ASSUME Inv, Shrinks, NEW w \in Workers, plan[w] # {}, pc[w] \in InHand \cup {"start"},
           Finished(w, FALSE), more' = more, ~Unstarted(Current(w))
    PROVE  Whole(w)'
<1>1. /\ plan'[w] = plan[w] \ {Least(plan[w])} /\ failed'[w] = failed[w] /\ more'[w] = more[w]
  BY DEF Inv, Functions, Finished
<1>2. \A i \in Places : Listed[i] \in Docs
  BY DEF Docs
<1>3. \A i \in Places : Unstarted(Listed[i])' => Unstarted(Listed[i])
  BY <1>2 DEF Shrinks
<1>4. ~Unstarted(Listed[Least(plan[w])])
  BY DEF Current
<1>5. Whole(w)
  BY DEF Inv, RoundIsWhole, Whole
<1>6. ASSUME ~failed'[w], ~more'[w], NEW i \in Places, Unstarted(Listed[i])' PROVE i \in plan'[w]
  <2>1. i \in plan[w]
    BY <1>1, <1>3, <1>5, <1>6 DEF Whole
  <2>2. i # Least(plan[w])
    BY <1>3, <1>4, <1>6
  <2> QED
    BY <1>1, <2>1, <2>2
<1> QED
  BY <1>6 DEF Whole

(* A document that has a live job has been started. *)
LEMMA JobMeansStarted ==
    ASSUME Inv, NEW d \in Docs, Jobs(d) > 0
    PROVE  ~Unstarted(d)
<1>1. saved[d] \in Nat /\ queued[d] \in Nat
  BY DEF Inv, TypeOK
<1>2. CASE queued[d] > 0
  BY <1>2 DEF Inv, RowBeforeQueue, Unstarted
<1>3. CASE saved[d] > 0
  <2> SUFFICES ASSUME d \notin stopped PROVE Underway(d)
    BY DEF Unstarted
  <2>1. saved[d] <= Cardinality(Saving(d)) /\ Cardinality(Saving(d)) \in Nat
    BY SavingCounts DEF Inv, Counted
  <2>2. Cardinality(Saving(d)) # 0
    BY <1>1, <1>3, <2>1
  <2> QED
    BY <2>2, SavingCounts
<1> QED
  BY <1>1, <1>2, <1>3 DEF Jobs

LEMMA WholeWorker ==
    ASSUME Inv, Shrinks, NEW w \in Workers,
           Step(w) \/ PushFails(w) \/ StartFails(w) \/ RoundFails(w) \/ Crash(w)
    PROVE  Whole(w)'
<1> USE DEF Inv, Functions
<1>1. CASE Check(w) \/ Enter(w) \/ Report(w) \/ RoundFails(w) \/ Crash(w)
  <2>1. pc'[w] \in {"idle", "lock", "scan"}
    BY <1>1 DEF Check, Enter, Report, RoundFails, Crash, Goto, Leave
  <2> QED
    BY <2>1 DEF Whole, InHand
<1>2. CASE Scan(w)
  BY <1>2, WholeScan
<1>3. CASE SaveJob(w) \/ SaveRow(w) \/ PushFails(w)
  <2>1. /\ pc[w] \in InHand /\ more' = more /\ failed' = failed /\ plan' = plan
    BY <1>3 DEF SaveJob, SaveRow, PushFails, InHand
  <2> QED
    BY <2>1, WholeKept
<1>4. CASE Undo(w) \/ StartFails(w)
  <2>1. failed'[w] = TRUE
    BY <1>4 DEF Undo, StartFails, Finished
  <2> QED
    BY <2>1 DEF Whole
<1>5. CASE Push(w)
  <2>1. plan[w] # {} /\ pc[w] \in InHand /\ Finished(w, FALSE) /\ more' = more
    BY <1>5 DEF Push, TypeOK, InHand
  <2>2. ~Unstarted(Current(w))
    BY <1>5 DEF Push, RowBeforeQueue, Unstarted
  <2> QED
    BY <2>1, <2>2, WholeFinished
<1>6. CASE Start(w)
  <2>0. plan[w] # {} /\ pc[w] = "start" /\ more' = more /\ Current(w) \in Docs
    BY <1>6, Hand DEF Start
  <2>1. CASE index[Current(w)] = "gone"
    <3>1. failed'[w] = TRUE
      BY <1>6, <2>1 DEF Start, Finished
    <3> QED
      BY <3>1 DEF Whole
  <2>2. CASE index[Current(w)] # "gone" /\ Jobs(Current(w)) > 0
    <3>1. Finished(w, FALSE)
      BY <1>6, <2>2 DEF Start
    <3>2. ~Unstarted(Current(w))
      BY <2>0, <2>2, JobMeansStarted
    <3> QED
      BY <2>0, <3>1, <3>2, WholeFinished
  <2>3. CASE index[Current(w)] # "gone" /\ ~(Jobs(Current(w)) > 0)
    <3>1. failed' = failed /\ plan' = plan
      BY <1>6, <2>3 DEF Start
    <3> QED
      BY <2>0, <3>1, WholeKept
  <2> QED
    BY <2>1, <2>2, <2>3
<1> QED
  BY <1>1, <1>2, <1>3, <1>4, <1>5, <1>6 DEF Step

LEMMA RoundStep ==
    ASSUME Inv, Shrinks, [Next]_vars
    PROVE  RoundIsWhole'
<1> SUFFICES ASSUME NEW v \in Workers PROVE Whole(v)'
  BY DEF RoundIsWhole, Whole
<1>1. ASSUME NEW w \in Workers, Step(w) \/ PushFails(w) \/ StartFails(w) \/ RoundFails(w) \/ Crash(w)
      PROVE Whole(v)'
  <2>1. CASE v = w
    BY <1>1, <2>1, WholeWorker
  <2>2. CASE v # w
    <3>1. pc'[v] = pc[v] /\ more'[v] = more[v] /\ failed'[v] = failed[v] /\ plan'[v] = plan[v]
      BY <1>1, <2>2 DEF Inv, Functions, Step, Check, Enter, Scan, Start, SaveJob, SaveRow, Push, Undo,
         Report, PushFails, StartFails, RoundFails, Crash, Goto, Finished, Leave, Forget
    <3> QED
      BY <3>1, WholeKept
  <2> QED
    BY <2>1, <2>2
<1>2. CASE \/ \E w \in Workers : Serve(w)
           \/ LockExpires \/ (\E d \in Docs : Delete(d)) \/ UNCHANGED vars
  <2>1. pc' = pc /\ more' = more /\ failed' = failed /\ plan' = plan
    BY <1>2 DEF Serve, LockExpires, Delete, vars, workerVars
  <2> QED
    BY <2>1, WholeKept
<1> QED
  BY <1>1, <1>2 DEF Next

LEMMA DoneStep ==
    ASSUME Inv, Shrinks, [Next]_vars
    PROVE  DoneIsWhole'
<1>1. CASE maint' = maint
  BY <1>1 DEF Inv, DoneIsWhole, Shrinks
<1>2. CASE maint'.status # "done"
  BY <1>2 DEF DoneIsWhole
<1>3. CASE \E w \in Workers : Report(w)
  <2>1. PICK w \in Workers : Report(w)
    BY <1>3
  <2>2. CASE failed[w] \/ more[w]
    <3>1. maint'.status # "done"
      BY <2>1, <2>2 DEF Report, Verdict
    <3> QED
      BY <3>1 DEF DoneIsWhole
  <2>3. CASE ~failed[w] /\ ~more[w]
    <3>1. pc[w] = "start" /\ plan[w] = {}
      BY <2>1 DEF Report
    <3>2. \A i \in Places : ~Unstarted(Listed[i])
      BY <2>3, <3>1 DEF Inv, RoundIsWhole
    <3>3. \A d \in Docs : ~Unstarted(d)
      BY <3>2 DEF Docs
    <3> QED
      BY <3>3 DEF DoneIsWhole, Shrinks
  <2> QED
    BY <2>2, <2>3
<1>4. \/ maint' = maint \/ maint'.status # "done" \/ \E w \in Workers : Report(w)
  <2>1. ASSUME NEW w \in Workers, Step(w) \/ Serve(w) \/ PushFails(w) \/ StartFails(w) \/ Crash(w)
        PROVE maint' = maint \/ maint'.status # "done" \/ Report(w)
    <3>1. CASE Scan(w)
      BY <3>1 DEF Scan
    <3>2. CASE ~Scan(w) /\ ~Report(w)
      BY <2>1, <3>2 DEF Step, Serve, Check, Enter, Start, SaveJob, SaveRow, Push, Undo,
         PushFails, StartFails, Crash
    <3> QED
      BY <3>1, <3>2
  <2>2. ASSUME NEW w \in Workers, RoundFails(w) PROVE maint' = maint \/ maint'.status # "done"
    BY <2>2 DEF RoundFails
  <2>3. CASE LockExpires \/ (\E d \in Docs : Delete(d)) \/ UNCHANGED vars
    BY <2>3 DEF LockExpires, Delete, vars
  <2> QED
    BY <2>1, <2>2, <2>3 DEF Next
<1> QED
  BY <1>1, <1>2, <1>3, <1>4

-----------------------------------------------------------------------------
(* The lock. *)

JobsNat == \A d \in Docs : saved[d] \in Nat /\ queued[d] \in Nat /\ saved'[d] \in Nat /\ queued'[d] \in Nat

LEMMA AloneInRound ==
    ASSUME Inv, ~overlap, NEW w \in Workers, InRound(w)
    PROVE  \A v \in Workers : v # w => pc[v] \in {"idle", "lock"}
BY DEF Inv, Alone, InRound

(* A step of the one worker in the round that adds no job keeps it alone. *)
LEMMA AloneWorks ==
    ASSUME Inv, JobsNat, ~overlap, overlap' = overlap, NEW w \in Workers, InRound(w), OthersSame(w),
           InRound(w)' => lock' = lock,
           \A d \in Docs : Jobs(d)' <= Jobs(d),
           pc'[w] = "save" => Jobs(Current(w)') = 0 /\ Current(w)' \in Docs
    PROVE  Alone'
<1>1. \A v \in Workers : v # w => pc'[v] \in {"idle", "lock"}
  BY AloneInRound DEF OthersSame
<1>2. lock
  BY DEF Inv, Alone
<1>3. \A d \in Docs : Jobs(d)' <= 1
  BY DEF Inv, Alone, JobsNat, Jobs
<1>4. ASSUME NEW v \in Workers, pc'[v] = "save" PROVE Jobs(Current(v))' = 0
  <2>1. v = w
    BY <1>1, <1>4
  <2>2. ASSUME NEW d \in Docs, d = Current(w)' PROVE Jobs(d)' = 0
    BY <1>4, <2>1, <2>2 DEF JobsNat, Jobs
  <2> QED
    BY <1>4, <2>1, <2>2 DEF Jobs
<1> QED
  BY <1>1, <1>2, <1>3, <1>4 DEF Alone, InRound

LEMMA AloneSaves ==
    ASSUME Inv, JobsNat, ~overlap, overlap' = overlap, NEW w \in Workers, SaveJob(w), OthersSame(w)
    PROVE  Alone'
<1>0. pc[w] = "save" /\ pc'[w] = "row" /\ InRound(w) /\ lock' = lock /\ plan[w] # {} /\ Current(w) \in Docs
  BY Hand DEF Inv, TypeOK, Functions, SaveJob, Goto, InRound
<1>1. \A v \in Workers : v # w => pc'[v] \in {"idle", "lock"}
  BY <1>0, AloneInRound DEF OthersSame
<1>2. lock
  BY <1>0 DEF Inv, Alone
<1>3. Jobs(Current(w)) = 0
  BY <1>0 DEF Inv, Alone
<1>4. saved' = [saved EXCEPT ![Current(w)] = @ + 1] /\ queued' = queued
  BY DEF SaveJob
<1>5. ASSUME NEW d \in Docs PROVE Jobs(d)' <= 1
  <2>1. CASE d = Current(w)
    BY <1>3, <1>4, <2>1 DEF Inv, TypeOK, JobsNat, Jobs
  <2>2. CASE d # Current(w)
    <3>1. saved'[d] = saved[d] /\ queued'[d] = queued[d]
      BY <1>4, <2>2 DEF Inv, TypeOK
    <3> QED
      BY <3>1 DEF Inv, Alone, Jobs
  <2> QED
    BY <2>1, <2>2
<1> QED
  BY <1>0, <1>1, <1>2, <1>5 DEF Alone, InRound

LEMMA AloneStep ==
    ASSUME Inv, TypeOK', Functions', [Next]_vars
    PROVE  Alone'
<1> SUFFICES ASSUME ~overlap' PROVE Alone'
  BY DEF Alone
<1>0. JobsNat
  BY DEF Inv, TypeOK, JobsNat
<1> DEFINE Same == UNCHANGED <<saved, queued>>
<1>1. ASSUME NEW w \in Workers, Check(w) PROVE Alone'
  <2>1. /\ pc[w] = "idle" /\ pc' = [pc EXCEPT ![w] = "lock"] /\ UNCHANGED <<saved, queued, lock, plan, overlap>>
    BY <1>1 DEF Check, Goto, docVars, ghosts
  <2>2. \A v \in Workers : /\ InRound(v)' <=> InRound(v)
                           /\ pc'[v] = "save" => pc[v] = "save" /\ Current(v)' = Current(v)
    BY <2>1 DEF Inv, Functions, InRound, Current
  <2> QED
    BY <2>1, <2>2 DEF Inv, Alone, Jobs
<1>2. ASSUME NEW w \in Workers, Enter(w) PROVE Alone'
  <2>1. /\ pc[w] = "lock" /\ lock' = TRUE /\ pc' = [pc EXCEPT ![w] = IF lock THEN "idle" ELSE "scan"]
        /\ UNCHANGED <<saved, queued, plan, overlap>>
    BY <1>2 DEF Enter, Goto, docVars, ghosts
  <2>2. \A v \in Workers : v # w => (InRound(v)' <=> InRound(v))
    BY <2>1 DEF Inv, Functions, InRound
  <2>3. \A v \in Workers : pc'[v] = "save" => pc[v] = "save" /\ Current(v)' = Current(v)
    BY <2>1 DEF Inv, Functions, Current
  <2>4. InRound(w)' => ~lock
    BY <2>1 DEF Inv, Functions, InRound
  <2> QED
    BY <2>1, <2>2, <2>3, <2>4 DEF Inv, Alone, Jobs
<1>3. ASSUME NEW w \in Workers, Serve(w) PROVE Alone'
  <2>1. /\ pc' = pc /\ lock' = lock /\ plan' = plan /\ overlap' = overlap
        /\ \A d \in Docs : Jobs(d)' <= Jobs(d)
    BY <1>3, <1>0 DEF Serve, workerVars, ghosts, JobsNat, Jobs, Inv, TypeOK
  <2>2. \A v \in Workers : pc[v] = "save" => Current(v) \in Docs /\ Current(v)' = Current(v)
    BY <2>1, Hand DEF Inv, TypeOK, Current
  <2>3. \A d \in Docs : Jobs(d) \in Nat /\ Jobs(d)' \in Nat
    BY <1>0 DEF JobsNat, Jobs
  <2>4. \A d \in Docs : (Jobs(d) <= 1 => Jobs(d)' <= 1) /\ (Jobs(d) = 0 => Jobs(d)' = 0)
    BY <2>1, <2>3
  <2> QED
    BY <2>1, <2>2, <2>4 DEF Inv, Alone, InRound
<1>4. CASE LockExpires
  <2>1. UNCHANGED <<saved, queued, pc, plan>> /\ (overlap' = (overlap \/ \E w \in Workers : InRound(w)))
    BY <1>4 DEF LockExpires, docVars, workerVars
  <2>2. ~overlap /\ \A v \in Workers : ~InRound(v) /\ ~InRound(v)' /\ pc'[v] # "save"
    BY <2>1 DEF InRound
  <2> QED
    BY <2>1, <2>2 DEF Inv, Alone, Jobs
<1>5. ASSUME NEW c \in Docs, Delete(c) PROVE Alone'
  <2>1. /\ pc' = pc /\ lock' = lock /\ plan' = plan /\ overlap' = overlap
        /\ \A d \in Docs : Jobs(d)' <= Jobs(d)
    BY <1>5, <1>0 DEF Delete, workerVars, ghosts, JobsNat, Jobs, Inv, TypeOK
  <2>2. \A v \in Workers : pc[v] = "save" => Current(v) \in Docs /\ Current(v)' = Current(v)
    BY <2>1, Hand DEF Inv, TypeOK, Current
  <2>3. \A d \in Docs : Jobs(d) \in Nat /\ Jobs(d)' \in Nat
    BY <1>0 DEF JobsNat, Jobs
  <2>4. \A d \in Docs : (Jobs(d) <= 1 => Jobs(d)' <= 1) /\ (Jobs(d) = 0 => Jobs(d)' = 0)
    BY <2>1, <2>3
  <2> QED
    BY <2>1, <2>2, <2>4 DEF Inv, Alone, InRound
<1>6. ASSUME NEW w \in Workers, SaveJob(w) PROVE Alone'
  BY <1>0, <1>6, SaveJobStep, AloneSaves DEF SaveJob, ghosts
<1>7. ASSUME NEW w \in Workers,
             \/ Scan(w) \/ Start(w) \/ SaveRow(w) \/ Push(w) \/ Undo(w) \/ Report(w)
             \/ PushFails(w) \/ StartFails(w) \/ RoundFails(w) \/ Crash(w)
      PROVE Alone'
  <2>1. overlap' = overlap /\ InRound(w)
    BY <1>7 DEF Inv, TypeOK, Scan, Start, SaveRow, Push, Undo, Report, PushFails, StartFails, RoundFails,
       Crash, ghosts, InRound
  <2>2. OthersSame(w)
    BY <1>7 DEF Inv, Functions, OthersSame, Scan, Start, SaveRow, Push, Undo, Report, PushFails, StartFails,
       RoundFails, Crash, Goto, Finished, Leave, Forget
  <2>3. InRound(w)' => lock' = lock
    BY <1>7 DEF Inv, Functions, InRound, Scan, Start, SaveRow, Push, Undo, Report, PushFails, StartFails,
       RoundFails, Crash, Goto, Finished, Leave, Forget
  <2>4. \A d \in Docs : Jobs(d)' <= Jobs(d)
    <3>1. CASE Push(w) \/ Undo(w)
      <4>1. Current(w) \in Docs
        BY <3>1, Hand DEF Inv, TypeOK, Push, Undo
      <4>2. CASE Undo(w)
        BY <4>1, <4>2, <1>0 DEF Undo, JobsNat, Jobs, Inv, TypeOK
      <4>3. CASE Push(w)
        <5>1. PICK n \in {0, 1} : /\ n = IF saved[Current(w)] > 0 THEN 1 ELSE 0
                                  /\ saved' = [saved EXCEPT ![Current(w)] = @ - n]
                                  /\ queued' = [queued EXCEPT ![Current(w)] = @ + n]
          BY <4>3 DEF Push
        <5> QED
          BY <4>1, <5>1, <1>0 DEF JobsNat, Jobs, Inv, TypeOK
      <4> QED
        BY <3>1, <4>2, <4>3
    <3>2. CASE UNCHANGED <<saved, queued>>
      BY <3>2, <1>0 DEF JobsNat, Jobs
    <3> QED
      BY <1>7, <3>1, <3>2 DEF Scan, Start, SaveRow, Report, PushFails, StartFails, RoundFails, Crash, docVars
  <2>5. pc'[w] = "save" => Jobs(Current(w)') = 0 /\ Current(w)' \in Docs
    <3> SUFFICES ASSUME pc'[w] = "save" PROVE Jobs(Current(w)') = 0 /\ Current(w)' \in Docs
      OBVIOUS
    <3>1. Start(w)
      BY <1>7 DEF Inv, Functions, Scan, Start, SaveRow, Push, Undo, Report, PushFails, StartFails,
         RoundFails, Crash, Goto, Finished, Leave
    <3>2. ~(Jobs(Current(w)) > 0) /\ plan' = plan /\ plan[w] # {}
      BY <3>1 DEF Inv, Functions, Start, Goto, Finished
    <3>3. Current(w) \in Docs /\ Current(w)' = Current(w)
      BY <3>2, Hand DEF Inv, Current
    <3>4. Jobs(Current(w)) \in Nat
      BY <1>0, <3>3 DEF JobsNat, Jobs
    <3> QED
      BY <3>2, <3>3, <3>4
  <2> QED
    BY <1>0, <2>1, <2>2, <2>3, <2>4, <2>5, AloneWorks
<1>8. CASE UNCHANGED vars
  <2>1. UNCHANGED <<saved, queued, pc, plan, lock, overlap>>
    BY <1>8 DEF vars, docVars, workerVars, ghosts
  <2> QED
    BY <2>1 DEF Inv, Alone, Jobs, InRound, Current
<1> QED
  BY <1>1, <1>2, <1>3, <1>4, <1>5, <1>6, <1>7, <1>8 DEF Next, Step

-----------------------------------------------------------------------------
(* Types. *)

RowTypes ==
    /\ index \in [Docs -> {"missing", "indexing", "done", "failed", "gone"}]
    /\ saved \in [Docs -> Nat] /\ queued \in [Docs -> Nat]
    /\ maint \in [status : {"none", "running", "pending", "failed", "done"}, failures : BOOLEAN]
    /\ lock \in BOOLEAN /\ faults \in 0..MaxFaults

InHandTypes(w) ==
    /\ Cardinality(plan[w]) <= BatchSize
    /\ pc[w] \in InHand => plan[w] # {}

LEMMA TypesSplit == TypeOK /\ Functions <=> RowTypes /\ Functions /\ \A w \in Workers : InHandTypes(w)
BY DEF TypeOK, Functions, RowTypes, InHandTypes, InHand

Steps == {"idle", "lock", "scan", "start", "save", "row", "push", "undo"}

LEMMA FinishedTypes ==
    ASSUME Functions, NEW w \in Workers, Finished(w, TRUE) \/ Finished(w, FALSE)
    PROVE  /\ pc' \in [Workers -> Steps]
           /\ plan' \in [Workers -> SUBSET Places]
           /\ failed' \in [Workers -> BOOLEAN]
<1>1. pc' \in [Workers -> Steps]
  BY DEF Functions, Finished, Goto, Steps
<1>2. plan' \in [Workers -> SUBSET Places]
  <2>1. plan[w] \ {Least(plan[w])} \in SUBSET Places
    BY DEF Functions
  <2>2. plan' = [plan EXCEPT ![w] = plan[w] \ {Least(plan[w])}]
    BY DEF Finished
  <2> QED
    BY <2>1, <2>2 DEF Functions
<1>3. failed' \in [Workers -> BOOLEAN]
  <2>1. PICK b \in BOOLEAN : failed' = [failed EXCEPT ![w] = @ \/ b]
    BY DEF Finished
  <2>2. (failed[w] \/ b) \in BOOLEAN
    OBVIOUS
  <2> QED
    BY <2>1, <2>2, Zenon DEF Functions
<1> QED
  BY <1>1, <1>2, <1>3

LEMMA NextFunctions ==
    ASSUME TypeOK, Functions, [Next]_vars
    PROVE  Functions'
<1> USE DEF Functions, Goto, Finished, Leave, Forget
<1>1. ASSUME NEW w \in Workers, Step(w) PROVE Functions'
  <2>1. CASE Check(w) \/ Enter(w) \/ Report(w)
    BY <2>1 DEF TypeOK, Check, Enter, Report, ghosts
  <2>2. CASE Scan(w)
    <3>1. Batch \subseteq Places
      BY BatchFits
    <3> QED
      BY <2>2, <3>1 DEF Scan, ghosts
  <2>3. CASE Start(w)
    <3>1. more' = more /\ seen' = seen /\ stopped' = stopped
      BY <2>3 DEF Start, ghosts
    <3>2. CASE Finished(w, TRUE) \/ Finished(w, FALSE)
      <4> HIDE DEF Finished
      <4> QED
        BY <3>1, <3>2, FinishedTypes DEF Steps
    <3>3. CASE Goto(w, "save") /\ UNCHANGED <<plan, failed>>
      BY <3>1, <3>3
    <3> QED
      BY <2>3, <3>2, <3>3 DEF Start
  <2>4. CASE SaveJob(w) \/ SaveRow(w)
    BY <2>4 DEF SaveJob, SaveRow, ghosts
  <2>5. CASE Push(w) \/ Undo(w)
    <3> HIDE DEF Finished
    <3>1. more' = more /\ seen' = seen /\ stopped' = stopped /\ (Finished(w, TRUE) \/ Finished(w, FALSE))
      BY <2>5 DEF Push, Undo, ghosts
    <3> QED
      BY <3>1, FinishedTypes DEF Steps
  <2> QED
    BY <1>1, <2>1, <2>2, <2>3, <2>4, <2>5 DEF Step
<1>2. ASSUME NEW w \in Workers, PushFails(w) \/ RoundFails(w) \/ Serve(w) PROVE Functions'
  BY <1>2 DEF PushFails, RoundFails, Serve, workerVars, ghosts
<1>3. ASSUME NEW w \in Workers, StartFails(w) \/ Crash(w) PROVE Functions'
  <2> HIDE DEF Finished
  <2>1. pc[w] \in {"row", "push", "undo"} => Current(w) \in Docs
    BY Hand DEF TypeOK
  <2>2. stopped' \subseteq Docs
    <3>1. \/ stopped' = stopped
          \/ pc[w] \in {"row", "push", "undo"} /\ stopped' = stopped \cup {Current(w)}
      BY <1>3 DEF StartFails, Crash
    <3> QED
      BY <2>1, <3>1
  <2>3. CASE StartFails(w)
    BY <2>2, <2>3, FinishedTypes DEF StartFails, Steps
  <2>4. CASE Crash(w)
    BY <2>2, <2>4 DEF Crash
  <2> QED
    BY <1>3, <2>3, <2>4
<1>4. CASE LockExpires \/ (\E d \in Docs : Delete(d)) \/ UNCHANGED vars
  BY <1>4 DEF LockExpires, Delete, vars, workerVars, ghosts
<1> QED
  BY <1>1, <1>2, <1>3, <1>4 DEF Next

LEMMA FaultType ==
    ASSUME faults \in 0..MaxFaults, Fault \/ faults' = faults
    PROVE  faults' \in 0..MaxFaults
BY Given DEF Fault

LEMMA SetIndexType ==
    ASSUME RowTypes, NEW d \in Docs, NEW status \in {"indexing", "done", "failed"}, SetIndex(d, status)
    PROVE  index' \in [Docs -> {"missing", "indexing", "done", "failed", "gone"}]
BY DEF RowTypes, SetIndex

LEMMA NextRowTypes ==
    ASSUME TypeOK, Functions, [Next]_vars
    PROVE  RowTypes'
<1>0. RowTypes
  BY TypesSplit
<1> USE DEF RowTypes, docVars
<1>1. ASSUME NEW w \in Workers, Check(w) \/ Enter(w) \/ Start(w) PROVE RowTypes'
  BY <1>0, <1>1 DEF Check, Enter, Start
<1>2. ASSUME NEW w \in Workers, Scan(w) PROVE RowTypes'
  <2>1. seen[w] \in BOOLEAN
    BY DEF Functions
  <2> QED
    BY <1>0, <1>2, <2>1 DEF Scan
<1>3. ASSUME NEW w \in Workers, SaveJob(w) PROVE RowTypes'
  <2>1. Current(w) \in Docs
    BY <1>3, Hand DEF TypeOK, SaveJob
  <2>2. saved[Current(w)] + 1 \in Nat
    BY <1>0, <2>1
  <2>3. saved' \in [Docs -> Nat]
    BY <1>0, <1>3, <2>2 DEF SaveJob
  <2> QED
    BY <1>0, <1>3, <2>3 DEF SaveJob
<1>4. ASSUME NEW w \in Workers, SaveRow(w) PROVE RowTypes'
  <2>1. Current(w) \in Docs
    BY <1>4, Hand DEF TypeOK, SaveRow
  <2> QED
    BY <1>0, <1>4, <2>1, SetIndexType DEF SaveRow
<1>5. ASSUME NEW w \in Workers, Push(w) PROVE RowTypes'
  <2> DEFINE c == Current(w)
  <2>1. PICK n \in {0, 1} : /\ n = IF saved[c] > 0 THEN 1 ELSE 0
                            /\ saved' = [saved EXCEPT ![c] = @ - n]
                            /\ queued' = [queued EXCEPT ![c] = @ + n]
    BY <1>5 DEF Push
  <2>2. c \in Docs
    BY <1>5, Hand DEF TypeOK, Push
  <2>3. saved[c] - n \in Nat /\ queued[c] + n \in Nat
    BY <1>0, <2>1, <2>2
  <2> HIDE DEF c
  <2>4. saved' \in [Docs -> Nat] /\ queued' \in [Docs -> Nat]
    BY <1>0, <2>1, <2>3
  <2> QED
    BY <1>0, <1>5, <2>4 DEF Push
<1>6. ASSUME NEW w \in Workers, Undo(w) PROVE RowTypes'
  <2>1. Current(w) \in Docs
    BY <1>6, Hand DEF TypeOK, Undo
  <2>2. index' \in [Docs -> {"missing", "indexing", "done", "failed", "gone"}]
    BY <1>0, <1>6, <2>1, SetIndexType DEF Undo
  <2>3. saved' \in [Docs -> Nat]
    BY <1>0, <1>6, <2>1 DEF Undo
  <2> QED
    BY <1>0, <1>6, <2>2, <2>3 DEF Undo
<1>7. ASSUME NEW w \in Workers, Report(w) PROVE RowTypes'
  <2>1. faults' \in 0..MaxFaults
    BY <1>0, <1>7, FaultType DEF Report, Leave
  <2>2. failed[w] \in BOOLEAN
    BY DEF Functions
  <2>3. maint' \in [status : {"none", "running", "pending", "failed", "done"}, failures : BOOLEAN]
    BY <1>7, <2>2 DEF Report, Verdict
  <2> QED
    BY <1>0, <1>7, <2>1, <2>3 DEF Report, Leave
<1>8. ASSUME NEW w \in Workers, PushFails(w) \/ StartFails(w) \/ Crash(w) PROVE RowTypes'
  <2>1. faults' \in 0..MaxFaults
    BY <1>0, <1>8, FaultType DEF PushFails, StartFails, Crash
  <2> QED
    BY <1>0, <1>8, <2>1 DEF PushFails, StartFails, Crash
<1>9. ASSUME NEW w \in Workers, RoundFails(w) PROVE RowTypes'
  <2>1. faults' \in 0..MaxFaults
    BY <1>0, <1>9, FaultType DEF RoundFails
  <2>2. seen[w] \in BOOLEAN
    BY DEF Functions
  <2>3. maint' \in [status : {"none", "running", "pending", "failed", "done"}, failures : BOOLEAN]
    BY <1>0, <1>9, <2>2 DEF RoundFails
  <2> QED
    BY <1>0, <1>9, <2>1, <2>3 DEF RoundFails
<1>10. ASSUME NEW w \in Workers, Serve(w) PROVE RowTypes'
  <2>1. PICK d \in Docs : /\ queued[d] > 0 /\ queued' = [queued EXCEPT ![d] = @ - 1]
                          /\ \/ SetIndex(d, "done") /\ UNCHANGED faults
                             \/ SetIndex(d, "failed") /\ Fault
    BY <1>10 DEF Serve
  <2>2. faults' \in 0..MaxFaults
    BY <1>0, <2>1, FaultType
  <2>3. index' \in [Docs -> {"missing", "indexing", "done", "failed", "gone"}]
    BY <1>0, <2>1, SetIndexType
  <2>4. queued' \in [Docs -> Nat]
    BY <1>0, <2>1
  <2> QED
    BY <1>0, <1>10, <2>2, <2>3, <2>4 DEF Serve
<1>11. CASE LockExpires \/ (\E d \in Docs : Delete(d)) \/ UNCHANGED vars
  <2>1. CASE LockExpires \/ UNCHANGED vars
    BY <1>0, <2>1 DEF LockExpires, vars
  <2>2. ASSUME NEW d \in Docs, Delete(d) PROVE RowTypes'
    BY <1>0, <2>2 DEF Delete
  <2> QED
    BY <1>11, <2>1, <2>2
<1> QED
  BY <1>1, <1>2, <1>3, <1>4, <1>5, <1>6, <1>7, <1>8, <1>9, <1>10, <1>11 DEF Next, Step

LEMMA SmallerPlan ==
    ASSUME Functions, NEW w \in Workers, Cardinality(plan[w]) <= BatchSize
    PROVE  Cardinality(plan[w] \ {Least(plan[w])}) <= BatchSize
<1>1. IsFiniteSet(plan[w])
  BY Given, FS_Subset DEF Functions
<1>2. Cardinality(plan[w]) \in Nat /\ BatchSize \in Nat
  BY <1>1, Given, FS_CardinalityType
<1>3. /\ IsFiniteSet(plan[w] \ {Least(plan[w])})
      /\ Cardinality(plan[w] \ {Least(plan[w])}) <= Cardinality(plan[w])
  BY <1>1, FS_Subset
<1>4. Cardinality(plan[w] \ {Least(plan[w])}) \in Nat
  BY <1>3, FS_CardinalityType
<1> QED
  BY <1>2, <1>3, <1>4

LEMMA NextInHandTypes ==
    ASSUME TypeOK, Functions, [Next]_vars
    PROVE  \A v \in Workers : InHandTypes(v)'
<1> SUFFICES ASSUME NEW v \in Workers PROVE InHandTypes(v)'
  OBVIOUS
<1>0. InHandTypes(v)
  BY TypesSplit
<1>1. ASSUME NEW w \in Workers,
             Step(w) \/ PushFails(w) \/ StartFails(w) \/ RoundFails(w) \/ Crash(w)
      PROVE InHandTypes(v)'
  <2>1. CASE v # w
    <3>1. pc'[v] = pc[v] /\ plan'[v] = plan[v]
      BY <1>1, <2>1 DEF Functions, Step, Check, Enter, Scan, Start, SaveJob, SaveRow, Push, Undo,
         Report, PushFails, StartFails, RoundFails, Crash, Goto, Finished, Leave, Forget
    <3> QED
      BY <1>0, <3>1 DEF InHandTypes
  <2>2. CASE v = w
    <3>1. CASE Scan(w)
      <4>1. plan'[w] = Batch /\ pc'[w] = "start"
        BY <3>1 DEF Functions, Scan, Goto
      <4> QED
        BY <2>2, <4>1, BatchFits DEF InHandTypes, InHand
    <3>2. CASE plan'[w] = {}
      <4>1. Cardinality(plan'[w]) <= BatchSize
        BY <3>2, FS_EmptySet, Given
      <4>2. pc'[w] \notin InHand
        BY <1>0, <2>2, <3>2, <1>1 DEF InHandTypes, InHand, Functions, Step, Check, Enter, Scan, Start, SaveJob,
           SaveRow, Push, Undo, Report, PushFails, StartFails, RoundFails, Crash, Goto, Finished, Leave, Forget
      <4> QED
        BY <2>2, <4>1, <4>2 DEF InHandTypes
    <3>3. CASE plan'[w] = plan[w] /\ plan[w] # {}
      BY <1>0, <2>2, <3>3 DEF InHandTypes
    <3>4. CASE Finished(w, TRUE) \/ Finished(w, FALSE)
      <4>1. plan'[w] = plan[w] \ {Least(plan[w])} /\ pc'[w] = "start"
        BY <3>4 DEF Functions, Finished, Goto
      <4> QED
        BY <1>0, <2>2, <4>1, SmallerPlan DEF InHandTypes, InHand
    <3> QED
      <4>1. CASE Check(w) \/ Enter(w) \/ SaveJob(w) \/ SaveRow(w) \/ PushFails(w)
        <5>1. plan' = plan
          BY <4>1 DEF Check, Enter, SaveJob, SaveRow, PushFails
        <5> QED
          BY <3>2, <3>3, <5>1
      <4>2. CASE Report(w) \/ RoundFails(w) \/ Crash(w)
        <5>1. plan'[w] = {}
          BY <4>2 DEF Functions, Report, RoundFails, Crash, Leave, Forget
        <5> QED
          BY <3>2, <5>1
      <4>3. CASE Start(w)
        <5>1. plan' = plan \/ Finished(w, TRUE) \/ Finished(w, FALSE)
          BY <4>3 DEF Start
        <5> QED
          BY <3>2, <3>3, <3>4, <5>1
      <4>4. CASE Push(w) \/ Undo(w) \/ StartFails(w)
        BY <4>4, <3>4 DEF Push, Undo, StartFails
      <4> QED
        BY <1>1, <3>1, <4>1, <4>2, <4>3, <4>4 DEF Step
  <2> QED
    BY <2>1, <2>2
<1>2. CASE (\E w \in Workers : Serve(w)) \/ LockExpires \/ (\E d \in Docs : Delete(d)) \/ UNCHANGED vars
  BY <1>0, <1>2 DEF InHandTypes, Serve, LockExpires, Delete, vars, workerVars
<1> QED
  BY <1>1, <1>2 DEF Next

LEMMA NextTypes ==
    ASSUME TypeOK, Functions, [Next]_vars
    PROVE  TypeOK' /\ Functions'
<1>1. RowTypes' /\ Functions' /\ \A w \in Workers : InHandTypes(w)'
  BY NextFunctions, NextRowTypes, NextInHandTypes
<1> QED
  BY <1>1 DEF TypeOK, Functions, RowTypes, InHandTypes, InHand

-----------------------------------------------------------------------------
LEMMA InitInv == Init => Inv
<1> SUFFICES ASSUME Init PROVE Inv
  OBVIOUS
<1>1. Functions
  BY DEF Init, Functions
<1>2. \A w \in Workers : InHandTypes(w)
  BY FS_EmptySet, Given DEF Init, InHandTypes, InHand
<1>3. RowTypes
  <2>1. maint \in [status : {"none", "running", "pending", "failed", "done"}, failures : BOOLEAN]
    BY DEF Init
  <2>2. faults \in 0..MaxFaults
    BY Given DEF Init
  <2>3. saved \in [Docs -> Nat] /\ queued \in [Docs -> Nat]
    BY DEF Init
  <2> QED
    BY <2>1, <2>2, <2>3 DEF Init, RowTypes
<1>4. TypeOK
  BY <1>1, <1>2, <1>3, TypesSplit
<1>5. Alone
  BY DEF Init, Alone, InRound, Jobs
<1>6. \A d \in Docs : Saving(d) = {} /\ Cardinality(Saving(d)) = 0
  BY FS_EmptySet DEF Init, Saving
<1>7. Counted
  BY <1>6 DEF Init, Counted
<1>8. IndexingIsCovered /\ RowBeforeQueue /\ RoundIsWhole /\ DoneIsWhole
  BY DEF Init, IndexingIsCovered, RowBeforeQueue, RoundIsWhole, DoneIsWhole, InHand
<1> QED
  BY <1>1, <1>4, <1>5, <1>7, <1>8 DEF Inv

LEMMA NextInv == Inv /\ [Next]_vars => Inv'
<1> SUFFICES ASSUME Inv, [Next]_vars PROVE Inv'
  OBVIOUS
<1>1. TypeOK' /\ Functions'
  BY NextTypes DEF Inv
<1>2. DocsAreCovered' /\ Shrinks
  BY DocsStep
<1>3. RoundIsWhole' /\ DoneIsWhole'
  BY <1>2, RoundStep, DoneStep
<1>4. Alone'
  BY <1>1, AloneStep
<1> QED
  BY <1>1, <1>2, <1>3, <1>4 DEF Inv, DocsAreCovered

LEMMA Reachable == Spec => []Inv
BY InitInv, NextInv, PTL DEF Spec

LEMMA InvCard == Inv => CardIsTrue
<1> SUFFICES ASSUME Inv, Card = "done", NEW d \in Docs
             PROVE index[d] \in {"done", "gone"} \/ queued[d] > 0 \/ Underway(d) \/ d \in stopped
  BY DEF CardIsTrue
<1>1. maint.status = "done" /\ index[d] # "failed"
  BY DEF Card, CardFails
<1>2. CASE index[d] = "missing"
  BY <1>1, <1>2 DEF Inv, DoneIsWhole, Unstarted
<1>3. CASE index[d] = "indexing"
  BY <1>3 DEF Inv, IndexingIsCovered, Covered
<1> QED
  BY <1>1, <1>2, <1>3 DEF Inv, TypeOK

(* A release that the health page calls done has left no document behind,
   whatever failed, stopped, overlapped or was deleted on the way: each is
   indexed, queued, about to be queued or deleted, or its start was cut short
   after its job was saved. *)
THEOREM DoneLeavesNothingBehind == Spec => []CardIsTrue
BY Reachable, InvCard, PTL

(* No document has two jobs as long as no lock expires under its holder. *)
THEOREM OneJobForEach == Spec => []JobsAreSound
<1>1. Inv => JobsAreSound
  BY DEF Inv, JobsAreSound, OneJobEach, Alone
<1> QED
  BY <1>1, Reachable, PTL
=============================================================================
