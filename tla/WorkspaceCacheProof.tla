-------------------------- MODULE WorkspaceCacheProof --------------------------
(***************************************************************************)
(* Proofs about WorkspaceCache for any number of requests, workspaces,     *)
(* objects and interruptions, and for any limit.                           *)
(***************************************************************************)
EXTENDS WorkspaceCache, FiniteSetTheorems, TLAPS

USE CacheAssumption

Stages == {"idle", "lookup", "wait", "creating", "trim", "trimming", "enter", "blocked",
           "using", "asked", "visiting", "release", "sweep", "sweeping"}
UserStages == {"using", "asked"}
LockStages == UserStages \cup {"blocked"}
InstStages == LockStages \cup {"trim", "trimming", "enter"}
LeaseStages == InstStages \cup {"lookup", "wait", "creating"}
FreeStages == {"idle", "sweep", "sweeping"}

(* The types the arguments below rest on; the bound of the counters is proved
   at the end. *)
Types ==
    /\ cache \in [Workspaces -> Objects \cup {None}]
    /\ active \in [Workspaces -> Nat]
    /\ locks \in [Workspaces -> Objects \cup {None}]
    /\ usageLocks \in [Workspaces -> Objects \cup {None}]
    /\ open \subseteq RagObjects
    /\ tracker \in [RagObjects -> SUBSET Tasks]
    /\ pc \in [Tasks -> Stages]
    /\ kind \in [Tasks -> Kinds]
    /\ held \in [Tasks -> SUBSET Workspaces]
    /\ inst \in [Tasks -> [Workspaces -> Objects \cup {None}]]
    /\ lock \in [Tasks -> Objects \cup {None}]
    /\ doomed \in [Tasks -> SUBSET RagObjects]
    /\ faults \in 0..MaxFaults

(* The counter of a workspace is the number of its leases. *)
Holders(w) == {t \in Tasks : w \in held[t]}
Counted == \A w \in Workspaces : active[w] = Cardinality(Holders(w))

(* A request leases one workspace, the metrics any number, and both nothing
   outside. *)
Leases ==
    \A t \in Tasks :
        /\ pc[t] \in LeaseStages => \E w \in Workspaces : held[t] = {w}
        /\ pc[t] \in FreeStages => held[t] = {}

(* What a request works with is what the cache has, and open. *)
Live ==
    /\ \A w \in Workspaces : cache[w] # None => <<w, cache[w]>> \in open
    /\ \A t \in Tasks, w \in Workspaces :
          inst[t][w] # None => w \in held[t] /\ inst[t][w] = cache[w]
    /\ \A t \in Tasks, w \in Workspaces :
          pc[t] \in InstStages /\ w \in held[t] => inst[t][w] # None

(* What is to be finalised is open, in nobody else's hands and not cached. *)
Doomed ==
    /\ \A t \in Tasks : doomed[t] # {} => pc[t] \in {"trimming", "sweeping"}
    /\ \A t \in Tasks : doomed[t] \subseteq open
    /\ \A t \in Tasks, w \in Workspaces : <<w, cache[w]>> \notin doomed[t]
    /\ \A t, u \in Tasks : t # u => doomed[t] \cap doomed[u] = {}

(* All that wait for the usage lock of a workspace wait for the same object,
   the one in the dictionary. *)
OneLock ==
    \A t \in Tasks, w \in Workspaces :
        pc[t] \in LockStages /\ w \in held[t] =>
            usageLocks[w] # None /\ lock[t] = usageLocks[w]

Exclusive ==
    \A t, u \in Tasks, w \in Workspaces :
        /\ pc[t] \in UserStages /\ pc[u] \in UserStages
        /\ w \in held[t] /\ w \in held[u]
        => t = u

IInv == Types /\ Counted /\ Leases /\ Live /\ Doomed /\ OneLock /\ Exclusive /\ ExactUsage

-----------------------------------------------------------------------------
LEMMA NewIsUnused == ASSUME NEW S, NEW x \in New(S) PROVE x \in S
BY DEF New

LEMMA HoldersFinite == \A w \in Workspaces : IsFiniteSet(Holders(w))
BY FS_Subset DEF Holders

(* A workspace whose counter is zero is leased by nobody. *)
LEMMA NobodyHolds ==
    ASSUME Counted, NEW w \in Workspaces, active[w] = 0
    PROVE  \A t \in Tasks : w \notin held[t]
<1>1. Cardinality(Holders(w)) = 0
  BY DEF Counted
<1>2. Holders(w) = {}
  BY <1>1, HoldersFinite, FS_EmptySet
<1> QED
  BY <1>2 DEF Holders

(* The counter keeps up with one more and one less lease. *)
LEMMA OneMore ==
    ASSUME Types, Counted, NEW t \in Tasks, held[t] = {}, NEW W \in SUBSET Workspaces,
           held' = [held EXCEPT ![t] = W],
           active' = [w \in Workspaces |-> IF w \in W THEN active[w] + 1 ELSE active[w]]
    PROVE  Counted'
<1> SUFFICES ASSUME NEW w \in Workspaces PROVE active'[w] = Cardinality(Holders(w)')
  BY DEF Counted
<1>1. CASE w \in W
  <2>1. Holders(w)' = Holders(w) \cup {t} /\ t \notin Holders(w)
    BY <1>1 DEF Holders, Types
  <2>2. Cardinality(Holders(w)') = Cardinality(Holders(w)) + 1
    BY <2>1, HoldersFinite, FS_AddElement
  <2> QED
    BY <1>1, <2>2 DEF Counted
<1>2. CASE w \notin W
  <2>1. Holders(w)' = Holders(w)
    BY <1>2 DEF Holders, Types
  <2> QED
    BY <1>2, <2>1 DEF Counted
<1> QED
  BY <1>1, <1>2

LEMMA OneLess ==
    ASSUME Types, Counted, NEW t \in Tasks, held' = [held EXCEPT ![t] = {}],
           active' = [w \in Workspaces |->
                        IF w \in held[t] THEN Fewer(active[w]) ELSE active[w]]
    PROVE  Counted'
<1> SUFFICES ASSUME NEW w \in Workspaces PROVE active'[w] = Cardinality(Holders(w)')
  BY DEF Counted
<1>1. CASE w \in held[t]
  <2>1. Holders(w)' = Holders(w) \ {t} /\ t \in Holders(w)
    BY <1>1 DEF Holders, Types
  <2>2. Cardinality(Holders(w)') = Cardinality(Holders(w)) - 1
    <3>1. IsFiniteSet(Holders(w))
      BY HoldersFinite
    <3>2. Cardinality(Holders(w) \ {t}) = Cardinality(Holders(w)) - 1
      BY ONLY <2>1, <3>1, FS_RemoveElement
    <3> QED
      BY ONLY <2>1, <3>2
  <2>3. Holders(w) # {} /\ Cardinality(Holders(w)) \in Nat
    BY <2>1, HoldersFinite, FS_CardinalityType
  <2>4. Cardinality(Holders(w)) # 0
    BY <2>3, HoldersFinite, FS_EmptySet
  <2> QED
    BY <1>1, <2>2, <2>3, <2>4 DEF Counted, Fewer
<1>2. CASE w \notin held[t]
  <2>1. Holders(w)' = Holders(w)
    BY <1>2 DEF Holders, Types
  <2> QED
    BY <1>2, <2>1 DEF Counted
<1> QED
  BY <1>1, <1>2

LEMMA SameLeases ==
    ASSUME Counted, held' = held, active' = active
    PROVE  Counted'
BY DEF Counted, Holders

-----------------------------------------------------------------------------
LEMMA InitInv == Init => IInv
<1> SUFFICES ASSUME Init PROVE IInv
  OBVIOUS
<1>1. Types /\ Leases /\ Live /\ Doomed /\ OneLock /\ Exclusive /\ ExactUsage
  BY DEF Init, Types, Leases, Live, Doomed, OneLock, Exclusive, ExactUsage, Nowhere,
         Stages, LeaseStages, InstStages, LockStages, UserStages, FreeStages, Kinds, RagObjects
<1>2. ASSUME NEW w \in Workspaces PROVE active[w] = Cardinality(Holders(w))
  <2>1. Holders(w) = {}
    BY DEF Holders, Init
  <2> QED
    BY <2>1, FS_EmptySet DEF Init
<1> QED
  BY <1>1, <1>2 DEF IInv, Counted

LEMMA StepTypes == Types /\ [Next]_vars => Types'
<1> SUFFICES ASSUME Types, [Next]_vars PROVE Types'
  OBVIOUS
<1> USE DEF Types, Step, Stages, Kinds, shared, objects, local
<1>1. ASSUME NEW t \in Tasks, NEW w \in Workspaces, NEW k \in {"query", "write"},
             Lease(t, w, k)
      PROVE  Types'
  BY <1>1 DEF Lease
<1>2. ASSUME NEW t \in Tasks, NEW w \in Workspaces, Locked(t, w) PROVE Types'
  <2>1. CASE CreatedMeanwhile(t, w)
    BY <2>1 DEF CreatedMeanwhile
  <2>2. CASE StartCreating(t, w)
    BY <2>2 DEF StartCreating
  <2>3. CASE Begin(t, w)
    <3>1. tracker' \in [RagObjects -> SUBSET Tasks]
      BY <2>3 DEF Begin
    <3> QED
      BY <2>3, <3>1 DEF Begin
  <2> QED
    BY <1>2, <2>1, <2>2, <2>3 DEF Locked
<1>3. ASSUME NEW t \in Tasks, NEW w \in Workspaces, Lookup(t, w) PROVE Types'
  <2>1. PICK l \in LockOf(locks, w, {"wait", "creating"}) :
           /\ locks' = [locks EXCEPT ![w] = l]
           /\ \/ /\ Step(t, "lookup", "trim")
                 /\ inst' = [inst EXCEPT ![t][w] = cache[w]]
                 /\ UNCHANGED lock
              \/ /\ Step(t, "lookup", "wait")
                 /\ lock' = [lock EXCEPT ![t] = l]
                 /\ UNCHANGED inst
    BY <1>3 DEF Lookup
  <2>2. l \in Objects \cup {None}
    BY NewIsUnused DEF LockOf
  <2>3. inst' \in [Tasks -> [Workspaces -> Objects \cup {None}]]
    <3>1. CASE inst' = inst
      BY <3>1
    <3>2. CASE inst' = [inst EXCEPT ![t][w] = cache[w]]
      BY <3>2
    <3> QED
      BY <2>1, <3>1, <3>2
  <2>4. lock' \in [Tasks -> Objects \cup {None}]
    <3>1. CASE lock' = lock
      BY <3>1
    <3>2. CASE lock' = [lock EXCEPT ![t] = l]
      BY <2>2, <3>2
    <3> QED
      BY <2>1, <3>1, <3>2
  <2>6. pc' \in [Tasks -> Stages]
    BY <2>1
  <2>5. locks' \in [Workspaces -> Objects \cup {None}]
    BY <2>1, <2>2
  <2> QED
    BY <1>3, <2>3, <2>4, <2>5, <2>6 DEF Lookup
<1>4. ASSUME NEW t \in Tasks, NEW w \in Workspaces, Create(t, w) PROVE Types'
  <2>1. PICK new \in New({id \in Objects : <<w, id>> \notin open}) :
           LET kept == IF cache[w] = None THEN new ELSE cache[w]
           IN  /\ cache' = [cache EXCEPT ![w] = kept]
               /\ inst' = [inst EXCEPT ![t][w] = kept]
               /\ open' = open \cup {<<w, kept>>}
    BY <1>4 DEF Create
  <2>2. new \in Objects
    BY NewIsUnused
  <2> QED
    BY <1>4, <2>1, <2>2 DEF Create, RagObjects
<1>5. ASSUME NEW t \in Tasks, NEW w \in Workspaces, Enter(t, w) PROVE Types'
  BY <1>5, NewIsUnused DEF Enter, LockOf
<1>6. ASSUME NEW t \in Tasks, NEW w \in Workspaces, Ask(t, w) \/ Finish(t, w) PROVE Types'
  <2>1. CASE Ask(t, w)
    <3>1. tracker' \in [RagObjects -> SUBSET Tasks]
      BY <2>1 DEF Ask
    <3> QED
      BY <2>1, <3>1 DEF Ask
  <2>2. CASE Finish(t, w)
    BY <2>2 DEF Finish
  <2> QED
    BY <1>6, <2>1, <2>2
<1>7. ASSUME NEW t \in Tasks, NEW from, NEW to \in Stages, NEW kept, Evict(t, from, to, kept)
      PROVE  Types'
  <2>1. PICK victims \in Evictions(kept) :
           /\ doomed' = [doomed EXCEPT ![t] = {<<w, cache[w]>> : w \in victims}]
           /\ cache' = Without(cache, victims, None)
           /\ active' = Without(active, victims, 0)
           /\ locks' = Without(locks, victims, None)
           /\ usageLocks' = Without(usageLocks, victims, None)
    BY <1>7 DEF Evict
  <2>2. \A w \in victims : w \in Workspaces /\ cache[w] \in Objects
    BY DEF Evictions, Candidates, Cached
  <2>3. {<<w, cache[w]>> : w \in victims} \subseteq RagObjects
    BY <2>2 DEF RagObjects
  <2> QED
    BY <1>7, <2>1, <2>3 DEF Evict, Without
<1>8. ASSUME NEW t \in Tasks, Finalize(t) PROVE Types'
  BY <1>8 DEF Finalize
<1>9. ASSUME NEW t \in Tasks, Finalized(t) \/ Visited(t) PROVE Types'
  BY <1>9 DEF Finalized, Visited
<1>10. ASSUME NEW t \in Tasks, Release(t) PROVE Types'
  <2>1. \A n \in Nat : Fewer(n) \in Nat
    BY DEF Fewer
  <2>2. active' \in [Workspaces -> Nat]
    BY <1>10, <2>1 DEF Release
  <2>3. inst' \in [Tasks -> [Workspaces -> Objects \cup {None}]]
    BY <1>10 DEF Release, Nowhere
  <2> QED
    BY <1>10, <2>2, <2>3 DEF Release
<1>11. ASSUME NEW t \in Tasks, Visit(t) PROVE Types'
  BY <1>11 DEF Visit, Cached
<1>12. ASSUME NEW t \in Tasks, Interrupt(t) PROVE Types'
  <2>1. faults' \in 0..MaxFaults
    BY <1>12 DEF Interrupt
  <2>2. pc' \in [Tasks -> Stages]
    BY <1>12 DEF Interrupt
  <2>3. doomed' \in [Tasks -> SUBSET RagObjects] /\ lock' \in [Tasks -> Objects \cup {None}]
    BY <1>12 DEF Interrupt
  <2> QED
    BY <1>12, <2>1, <2>2, <2>3 DEF Interrupt
<1>13. CASE UNCHANGED vars
  BY <1>13 DEF vars
<1> HIDE DEF Types
<1>14. ASSUME NEW t \in Tasks, Trim(t) \/ Sweep(t) PROVE Types'
  <2>1. "trimming" \in Stages /\ "sweeping" \in Stages
    BY DEF Stages
  <2> QED
    BY <1>7, <1>14, <2>1 DEF Trim, Sweep
<1>15. ASSUME NEW t \in Tasks, Alone(t) PROVE Types'
  BY <1>8, <1>9, <1>10, <1>14, <1>15 DEF Alone
<1>16. ASSUME NEW t \in Tasks, NEW w \in Workspaces, Working(t, w) PROVE Types'
  BY <1>3, <1>4, <1>5, <1>6, <1>16 DEF Working
<1> QED
  BY <1>1, <1>2, <1>11, <1>12, <1>13, <1>15, <1>16 DEF Next

(* A step that only moves requests, lets locks go and forgets what was to be
   finalised keeps everything. *)
LEMMA QuietStep ==
    ASSUME IInv, Types',
           UNCHANGED <<cache, active, usageLocks, open, tracker, kind, held, inst>>,
           \A t \in Tasks :
              /\ pc'[t] \in LeaseStages => pc[t] \in LeaseStages
              /\ pc'[t] \in FreeStages => pc[t] \in FreeStages
              /\ pc'[t] \in InstStages => pc[t] \in InstStages
              /\ pc'[t] \in LockStages => pc[t] \in LockStages /\ lock'[t] = lock[t]
              /\ pc'[t] \in UserStages => pc[t] = pc'[t]
              /\ doomed'[t] \subseteq doomed[t]
              /\ doomed'[t] # {} => pc'[t] = pc[t]
    PROVE  IInv'
<1>1. Counted' /\ Leases'
  BY SameLeases DEF IInv, Leases
<1>2. Live' /\ Doomed'
  BY DEF IInv, Live, Doomed
<1>3. OneLock' /\ Exclusive'
  BY DEF IInv, OneLock, Exclusive
<1>4. ExactUsage'
  BY DEF IInv, ExactUsage, UserStages
<1> QED
  BY <1>1, <1>2, <1>3, <1>4 DEF IInv

(* A request has found its instance in the cache. *)
LEMMA FoundStep ==
    ASSUME IInv, Types', NEW t \in Tasks, NEW w \in Workspaces, w \in held[t],
           cache[w] # None, pc[t] \in {"lookup", "wait"}, pc' = [pc EXCEPT ![t] = "trim"],
           inst' = [inst EXCEPT ![t][w] = cache[w]],
           UNCHANGED <<cache, active, usageLocks, open, tracker, kind, held, doomed>>,
           \A u \in Tasks : u # t => lock'[u] = lock[u]
    PROVE  IInv'
<1> USE DEF IInv, Types, LeaseStages, InstStages, LockStages, UserStages, FreeStages
<1>1. held[t] = {w}
  BY DEF Leases
<1>2. Counted' /\ Leases'
  BY SameLeases DEF Leases
<1>3. \A u \in Tasks, v \in Workspaces :
         inst'[u][v] = IF u = t /\ v = w THEN cache[w] ELSE inst[u][v]
  OBVIOUS
<1>4. Live'
  BY <1>1, <1>3 DEF Live
<1>5. Doomed'
  BY DEF Doomed
<1>6. OneLock' /\ Exclusive'
  BY DEF OneLock, Exclusive
<1>7. ExactUsage'
  BY <1>3 DEF ExactUsage
<1> QED
  BY <1>2, <1>4, <1>5, <1>6, <1>7

LEMMA LeaseStep ==
    ASSUME IInv, Types', NEW t \in Tasks, NEW w \in Workspaces,
           NEW k \in {"query", "write"}, Lease(t, w, k)
    PROVE  IInv'
<1> USE DEF IInv, Types, Lease, Step, LeaseStages, InstStages, LockStages, UserStages,
            FreeStages, objects
<1>1. held[t] = {}
  BY DEF Leases
<1>2. Counted'
  <2>1. held' = [held EXCEPT ![t] = {w}] /\ {w} \subseteq Workspaces
    OBVIOUS
  <2>2. active' = [v \in Workspaces |-> IF v \in {w} THEN active[v] + 1 ELSE active[v]]
    OBVIOUS
  <2>3. Types /\ Counted
    OBVIOUS
  <2> HIDE DEF Lease, IInv, Types
  <2> QED
    BY ONLY <1>1, <2>1, <2>2, <2>3, OneMore
<1>3. Leases' /\ Live' /\ Doomed'
  BY <1>1 DEF Leases, Live, Doomed
<1>4. OneLock' /\ Exclusive' /\ ExactUsage'
  BY <1>1 DEF OneLock, Exclusive, ExactUsage
<1> QED
  BY <1>2, <1>3, <1>4

LEMMA VisitStep ==
    ASSUME IInv, Types', NEW t \in Tasks, Visit(t)
    PROVE  IInv'
<1> USE DEF IInv, Types, Visit, Step, LeaseStages, InstStages, LockStages, UserStages,
            FreeStages, objects
<1>1. held[t] = {} /\ Cached \subseteq Workspaces
  BY DEF Leases, Cached
<1>2. Counted'
  <2>1. held' = [held EXCEPT ![t] = Cached]
    OBVIOUS
  <2>2. active' = [w \in Workspaces |-> IF w \in Cached THEN active[w] + 1 ELSE active[w]]
    OBVIOUS
  <2>3. Types /\ Counted
    OBVIOUS
  <2> HIDE DEF Visit, IInv, Types
  <2> QED
    BY ONLY <1>1, <2>1, <2>2, <2>3, OneMore
<1>3. Leases' /\ Live' /\ Doomed'
  BY <1>1 DEF Leases, Live, Doomed, Cached
<1>4. OneLock' /\ Exclusive' /\ ExactUsage'
  BY <1>1 DEF OneLock, Exclusive, ExactUsage
<1> QED
  BY <1>2, <1>3, <1>4

LEMMA ReleaseStep ==
    ASSUME IInv, Types', NEW t \in Tasks, Release(t)
    PROVE  IInv'
<1> USE DEF IInv, Types, Release, Step, LeaseStages, InstStages, LockStages, UserStages,
            FreeStages, objects
<1>1. Counted'
  BY OneLess
<1>2. Leases' /\ Live' /\ Doomed'
  BY DEF Leases, Live, Doomed, Nowhere
<1>3. OneLock' /\ Exclusive' /\ ExactUsage'
  BY DEF OneLock, Exclusive, ExactUsage
<1> QED
  BY <1>1, <1>2, <1>3

(* The created instance enters the cache, unless there is one. *)
LEMMA CreateStep ==
    ASSUME IInv, Types', NEW t \in Tasks, NEW w \in Workspaces, Create(t, w)
    PROVE  IInv'
<1> USE DEF IInv, Types, Step, LeaseStages, InstStages, LockStages, UserStages, FreeStages
<1>1. PICK new \in New({id \in Objects : <<w, id>> \notin open}) :
         LET kept == IF cache[w] = None THEN new ELSE cache[w]
         IN  /\ cache' = [cache EXCEPT ![w] = kept]
             /\ inst' = [inst EXCEPT ![t][w] = kept]
             /\ open' = open \cup {<<w, kept>>}
  BY DEF Create
<1> DEFINE kept == IF cache[w] = None THEN new ELSE cache[w]
<1>2. new \in Objects /\ <<w, new>> \notin open
  BY NewIsUnused
<1>3. kept # None /\ kept \in Objects
  BY <1>2
<1>4. cache' = [cache EXCEPT ![w] = kept] /\ open' = open \cup {<<w, kept>>}
  BY <1>1
<1>5. \A u \in Tasks, v \in Workspaces :
         inst'[u][v] = IF u = t /\ v = w THEN kept ELSE inst[u][v]
  BY <1>1
<1>6. \A u \in Tasks : <<w, kept>> \notin doomed[u]
  BY <1>2 DEF Doomed
<1>7. \A u \in Tasks : inst[u][w] # None => inst[u][w] = kept
  BY DEF Live
<1> HIDE DEF kept
<1>8. held[t] = {w} /\ held' = held
  BY DEF Leases, Create
<1>9. Counted' /\ Leases'
  BY SameLeases DEF Leases, Create
<1>10. Live'
  BY <1>3, <1>4, <1>5, <1>7, <1>8 DEF Live, Create
<1>11. Doomed'
  <2>1. pc' = [pc EXCEPT ![t] = "trim"] /\ pc[t] = "creating" /\ doomed' = doomed
    BY DEF Create
  <2>2. pc \in [Tasks -> Stages] /\ cache \in [Workspaces -> Objects \cup {None}] /\ Doomed
    OBVIOUS
  <2> QED
    BY ONLY <1>4, <1>6, <2>1, <2>2 DEF Doomed
<1>12. OneLock'
  BY DEF OneLock, Create
<1>14. Exclusive'
  BY DEF Exclusive, Create
<1>13. ExactUsage'
  BY <1>5, <1>8 DEF ExactUsage, Create
<1> QED
  BY <1>9, <1>10, <1>11, <1>12, <1>13, <1>14

(* The victims of an eviction are cached, and nobody leases them. *)
LEMMA EvictStep ==
    ASSUME IInv, Types', NEW t \in Tasks, NEW kept,
           \/ Evict(t, "trim", "trimming", kept)
           \/ Evict(t, "sweep", "sweeping", kept)
    PROVE  IInv'
<1> USE DEF IInv, Types, LeaseStages, InstStages, LockStages, UserStages, FreeStages
<1>1. PICK victims \in Evictions(kept) :
         /\ doomed' = [doomed EXCEPT ![t] = {<<w, cache[w]>> : w \in victims}]
         /\ cache' = Without(cache, victims, None)
         /\ active' = Without(active, victims, 0)
         /\ usageLocks' = Without(usageLocks, victims, None)
  BY DEF Evict
<1>2. UNCHANGED <<open, tracker, kind, held, inst, lock>>
  BY DEF Evict, objects
<1>3. \/ pc[t] = "trim" /\ pc' = [pc EXCEPT ![t] = "trimming"]
      \/ pc[t] = "sweep" /\ pc' = [pc EXCEPT ![t] = "sweeping"]
  BY DEF Evict, Step
<1>4. \A w \in victims : w \in Workspaces /\ cache[w] # None /\ active[w] = 0
  BY DEF Evictions, Candidates, Cached
<1>5. \A w \in victims, u \in Tasks : w \notin held[u]
  BY <1>4, NobodyHolds
<1>6. active' = active /\ Counted'
  <2>1. active' = active
    <3>1. active \in [Workspaces -> Nat] /\ active' = Without(active, victims, 0)
      BY <1>1
    <3> QED
      BY ONLY <1>4, <3>1 DEF Without
  <2> QED
    BY <1>2, <2>1, SameLeases
<1>7. Leases'
  <2>1. Leases /\ pc \in [Tasks -> Stages] /\ held' = held
    BY <1>2
  <2> QED
    BY ONLY <1>3, <2>1
       DEF Leases, LeaseStages, InstStages, LockStages, UserStages, FreeStages
<1>8. \A w \in Workspaces : cache'[w] = IF w \in victims THEN None ELSE cache[w]
  BY <1>1 DEF Without
<1>9. Live'
  BY <1>2, <1>3, <1>5, <1>8 DEF Live
<1>10. Doomed'
  <2>1. \A u \in Tasks : doomed'[u] = IF u = t THEN {<<w, cache[w]>> : w \in victims}
                                      ELSE doomed[u]
    BY <1>1
  <2>2. \A i \in doomed'[t] : \E w \in Workspaces : i = <<w, cache[w]>> /\ w \in victims
    BY <1>4, <2>1
  <2>3. \A i \in doomed'[t] : i \in open
    BY <1>4, <2>2 DEF Live
  <2>4. \A u \in Tasks : u # t => doomed'[t] \cap doomed'[u] = {}
    BY <2>1, <2>2 DEF Doomed
  <2>5. \A u \in Tasks, w \in Workspaces : <<w, cache'[w]>> \notin doomed'[u]
    <3> SUFFICES ASSUME NEW u \in Tasks, NEW w \in Workspaces, <<w, cache'[w]>> \in doomed'[u]
                 PROVE  FALSE
      OBVIOUS
    <3>1. cache'[w] # None
      BY <2>1, <1>4 DEF Doomed, RagObjects
    <3>2. u # t
      BY <1>8, <2>2, <3>1
    <3> QED
      BY <1>8, <2>1, <3>1, <3>2 DEF Doomed
  <2>6. \A u \in Tasks : doomed'[u] # {} => pc'[u] \in {"trimming", "sweeping"}
    BY <1>3, <2>1 DEF Doomed
  <2>7. \A u \in Tasks : doomed'[u] \subseteq open'
    BY <1>2, <2>1, <2>3 DEF Doomed
  <2>8. \A u, v \in Tasks : u # v => doomed'[u] \cap doomed'[v] = {}
    BY <2>1, <2>4 DEF Doomed
  <2> QED
    BY <2>5, <2>6, <2>7, <2>8 DEF Doomed
<1>11. OneLock'
  BY <1>1, <1>2, <1>3, <1>5 DEF OneLock, Without
<1>12. \A u \in Tasks : pc'[u] \in UserStages => pc'[u] = pc[u]
  BY <1>3
<1>13. Exclusive'
  BY <1>2, <1>12 DEF Exclusive
<1>14. ExactUsage'
  BY <1>2, <1>12 DEF ExactUsage
<1> QED
  BY <1>6, <1>7, <1>9, <1>10, <1>11, <1>13, <1>14

(* A finalised instance is one that nobody works with. *)
LEMMA FinalizeStep ==
    ASSUME IInv, Types', NEW t \in Tasks, Finalize(t)
    PROVE  IInv'
<1> USE DEF IInv, Types, LeaseStages, InstStages, LockStages, UserStages, FreeStages
<1>1. PICK i \in doomed[t] :
         /\ open' = open \ {i}
         /\ tracker' = [tracker EXCEPT ![i] = {}]
         /\ doomed' = [doomed EXCEPT ![t] = @ \ {i}]
  BY DEF Finalize
<1>2. UNCHANGED <<shared, pc, kind, held, inst, lock, cache, active, usageLocks>>
  BY DEF Finalize, shared
<1>3. Counted' /\ Leases'
  BY <1>2, SameLeases DEF Leases
<1>4. \A w \in Workspaces : i # <<w, cache[w]>>
  BY DEF Doomed
<1>5. Live'
  BY <1>1, <1>2, <1>4 DEF Live
<1>6. Doomed'
  BY <1>1, <1>2 DEF Doomed
<1>7. OneLock' /\ Exclusive'
  BY <1>2 DEF OneLock, Exclusive
<1>8. ExactUsage'
  <2> SUFFICES ASSUME NEW u \in Tasks, NEW w \in Workspaces,
                      pc[u] \in UserStages, w \in held[u]
               PROVE  tracker'[<<w, inst[u][w]>>] = tracker[<<w, inst[u][w]>>]
    BY <1>2 DEF ExactUsage
  <2>1. inst[u][w] = cache[w]
    BY DEF Live
  <2> QED
    BY <1>1, <1>4, <2>1
<1> QED
  BY <1>3, <1>5, <1>6, <1>7, <1>8

LEMMA EnterStep ==
    ASSUME IInv, Types', NEW t \in Tasks, NEW w \in Workspaces, Enter(t, w)
    PROVE  IInv'
<1> USE DEF IInv, Types, Step, LeaseStages, InstStages, LockStages, UserStages, FreeStages
<1>1. PICK l \in LockOf(usageLocks, w, {"blocked", "using", "asked"}) :
         /\ usageLocks' = [usageLocks EXCEPT ![w] = l]
         /\ lock' = [lock EXCEPT ![t] = l]
  BY DEF Enter
<1>2. l # None /\ (usageLocks[w] # None => l = usageLocks[w])
  BY NewIsUnused DEF LockOf
<1>3. held[t] = {w}
  BY DEF Leases, Enter
<1>4. Counted' /\ Leases'
  BY SameLeases DEF Leases, Enter
<1>5. Live' /\ Doomed'
  BY DEF Live, Doomed, Enter, objects
<1>6. OneLock'
  BY <1>1, <1>2, <1>3 DEF OneLock, Enter
<1>7. Exclusive' /\ ExactUsage'
  BY DEF Exclusive, ExactUsage, Enter, objects
<1> QED
  BY <1>4, <1>5, <1>6, <1>7

(* The lock that is free is the one everybody in the workspace has. *)
LEMMA BeginStep ==
    ASSUME IInv, Types', NEW t \in Tasks, NEW w \in Workspaces, Begin(t, w)
    PROVE  IInv'
<1> USE DEF IInv, Types, Step, LeaseStages, InstStages, LockStages, UserStages, FreeStages
<1>1. held[t] = {w} /\ pc[t] = "blocked" /\ pc' = [pc EXCEPT ![t] = "using"]
  BY DEF Leases, Begin
<1>2. UNCHANGED <<cache, active, usageLocks, open, kind, held, inst, lock, doomed>>
  BY DEF Begin, shared, local
<1>3. \A u \in Tasks : w \in held[u] => pc[u] \notin UserStages
  BY <1>1 DEF OneLock, Begin, InUse
<1>4. Counted' /\ Leases'
  BY <1>1, <1>2, SameLeases DEF Leases
<1>5. Live' /\ Doomed'
  BY <1>1, <1>2 DEF Live, Doomed
<1>6. OneLock' /\ Exclusive'
  BY <1>1, <1>2, <1>3 DEF OneLock, Exclusive
<1>7. ExactUsage'
  <2> SUFFICES ASSUME NEW u \in Tasks, NEW v \in Workspaces,
                      kind[u] = "query", v \in held[u], pc'[u] \in UserStages
               PROVE  /\ pc'[u] = "using" => tracker'[<<v, inst[u][v]>>] = {}
                      /\ pc'[u] = "asked" => tracker'[<<v, inst[u][v]>>] = {u}
    BY <1>2 DEF ExactUsage
  <2>1. CASE u = t
    <3>1. <<w, inst[t][w]>> \in RagObjects
      BY <1>1 DEF Live, RagObjects
    <3>2. v = w /\ pc'[u] = "using" /\ kind[t] = "query"
      BY <1>1, <2>1
    <3>3. tracker' = [tracker EXCEPT ![<<w, inst[t][w]>>] = {}]
      BY <3>2 DEF Begin
    <3>4. tracker'[<<w, inst[t][w]>>] = {}
      BY <3>1, <3>3
    <3> QED
      BY <2>1, <3>2, <3>4
  <2>2. CASE u # t
    <3>1. v # w /\ pc[u] = pc'[u]
      BY <1>1, <1>3, <2>2
    <3>2. <<v, inst[u][v]>> # <<w, inst[t][w]>>
      BY <3>1
    <3>3. <<v, inst[u][v]>> \in RagObjects
      BY <3>1 DEF Live, RagObjects
    <3> QED
      BY <3>1, <3>2, <3>3 DEF ExactUsage, Begin
  <2> QED
    BY <2>1, <2>2
<1> QED
  BY <1>4, <1>5, <1>6, <1>7

LEMMA AskStep ==
    ASSUME IInv, Types', NEW t \in Tasks, NEW w \in Workspaces, Ask(t, w)
    PROVE  IInv'
<1> USE DEF IInv, Types, Step, LeaseStages, InstStages, LockStages, UserStages, FreeStages
<1>1. held[t] = {w} /\ pc[t] = "using" /\ pc' = [pc EXCEPT ![t] = "asked"]
  BY DEF Leases, Ask
<1>2. UNCHANGED <<cache, active, usageLocks, open, kind, held, inst, lock, doomed>>
  BY DEF Ask, shared, local
<1>3. Counted' /\ Leases'
  BY <1>1, <1>2, SameLeases DEF Leases
<1>4. Live' /\ Doomed'
  BY <1>1, <1>2 DEF Live, Doomed
<1>5. OneLock' /\ Exclusive'
  BY <1>1, <1>2 DEF OneLock, Exclusive
<1>6. ExactUsage'
  <2> SUFFICES ASSUME NEW u \in Tasks, NEW v \in Workspaces,
                      kind[u] = "query", v \in held[u], pc'[u] \in UserStages
               PROVE  /\ pc'[u] = "using" => tracker'[<<v, inst[u][v]>>] = {}
                      /\ pc'[u] = "asked" => tracker'[<<v, inst[u][v]>>] = {u}
    BY <1>2 DEF ExactUsage
  <2>1. CASE u = t
    <3>1. <<w, inst[t][w]>> \in RagObjects
      BY <1>1 DEF Live, RagObjects
    <3>2. tracker[<<w, inst[t][w]>>] = {}
      BY <1>1, <2>1 DEF ExactUsage
    <3>3. v = w /\ pc'[u] = "asked"
      BY <1>1, <2>1
    <3>4. tracker' = [tracker EXCEPT ![<<w, inst[t][w]>>] = @ \cup {t}]
      BY DEF Ask
    <3>5. tracker'[<<w, inst[t][w]>>] = {t}
      BY <3>1, <3>2, <3>4
    <3> QED
      BY <2>1, <3>3, <3>5
  <2>2. CASE u # t
    <3>1. v # w /\ pc[u] = pc'[u]
      BY <1>1, <2>2 DEF Exclusive
    <3>2. <<v, inst[u][v]>> # <<w, inst[t][w]>>
      BY <3>1
    <3>3. <<v, inst[u][v]>> \in RagObjects
      BY <3>1 DEF Live, RagObjects
    <3> QED
      BY <3>1, <3>2, <3>3 DEF ExactUsage, Ask
  <2> QED
    BY <2>1, <2>2
<1> QED
  BY <1>3, <1>4, <1>5, <1>6

-----------------------------------------------------------------------------
LEMMA StepInv == IInv /\ [Next]_vars => IInv'
<1> SUFFICES ASSUME IInv, [Next]_vars PROVE IInv'
  OBVIOUS
<1> Types'
  BY StepTypes DEF IInv
<1> USE DEF Step, shared, objects, local
<1>1. ASSUME NEW t \in Tasks, NEW w \in Workspaces, NEW k \in {"query", "write"},
             Lease(t, w, k)
      PROVE  IInv'
  BY <1>1, LeaseStep
<1>2. ASSUME NEW t \in Tasks, NEW w \in Workspaces, Lookup(t, w) PROVE IInv'
  <2>1. CASE cache[w] # None
    BY <1>2, <2>1, FoundStep DEF Lookup
  <2>2. CASE cache[w] = None
    BY <1>2, <2>2, QuietStep DEF Lookup, LeaseStages, InstStages, LockStages, UserStages,
       FreeStages, IInv, Types, Doomed
  <2> QED
    BY <2>1, <2>2
<1>3. ASSUME NEW t \in Tasks, NEW w \in Workspaces, CreatedMeanwhile(t, w) PROVE IInv'
  BY <1>3, FoundStep DEF CreatedMeanwhile, IInv, Types
<1>4. ASSUME NEW t \in Tasks, NEW w \in Workspaces, StartCreating(t, w) PROVE IInv'
  BY <1>4, QuietStep DEF StartCreating, LeaseStages, InstStages, LockStages, UserStages,
     FreeStages, IInv, Types, Doomed
<1>5. ASSUME NEW t \in Tasks, NEW w \in Workspaces, Begin(t, w) PROVE IInv'
  BY <1>5, BeginStep
<1>6. ASSUME NEW t \in Tasks, NEW w \in Workspaces, Create(t, w) PROVE IInv'
  BY <1>6, CreateStep
<1>7. ASSUME NEW t \in Tasks, NEW w \in Workspaces, Enter(t, w) PROVE IInv'
  BY <1>7, EnterStep
<1>8. ASSUME NEW t \in Tasks, NEW w \in Workspaces, Ask(t, w) PROVE IInv'
  BY <1>8, AskStep
<1>9. ASSUME NEW t \in Tasks, NEW w \in Workspaces, Finish(t, w) PROVE IInv'
  BY <1>9, QuietStep DEF Finish, LeaseStages, InstStages, LockStages, UserStages,
     FreeStages, IInv, Types, Doomed
<1>10. ASSUME NEW t \in Tasks, Trim(t) \/ Sweep(t) PROVE IInv'
  BY <1>10, EvictStep DEF Trim, Sweep
<1>11. ASSUME NEW t \in Tasks, Finalize(t) PROVE IInv'
  BY <1>11, FinalizeStep
<1>12. ASSUME NEW t \in Tasks, Finalized(t) PROVE IInv'
  BY <1>12, QuietStep DEF Finalized, LeaseStages, InstStages, LockStages, UserStages,
     FreeStages, IInv, Types, Doomed
<1>13. ASSUME NEW t \in Tasks, Visited(t) PROVE IInv'
  BY <1>13, QuietStep DEF Visited, LeaseStages, InstStages, LockStages, UserStages,
     FreeStages, IInv, Types, Doomed
<1>14. ASSUME NEW t \in Tasks, Release(t) PROVE IInv'
  BY <1>14, ReleaseStep
<1>15. ASSUME NEW t \in Tasks, Visit(t) PROVE IInv'
  BY <1>15, VisitStep
<1>16. ASSUME NEW t \in Tasks, Interrupt(t) PROVE IInv'
  BY <1>16, QuietStep DEF Interrupt, LeaseStages, InstStages, LockStages, UserStages,
     FreeStages, IInv, Types, Doomed
<1>17. CASE UNCHANGED vars
  BY <1>17, QuietStep DEF vars
<1> QED
  BY <1>1, <1>2, <1>3, <1>4, <1>5, <1>6, <1>7, <1>8, <1>9, <1>10, <1>11, <1>12, <1>13,
     <1>14, <1>15, <1>16, <1>17 DEF Next, Locked, Working, Alone

LEMMA Invariance == Spec => []IInv
<1>1. Init => IInv
  BY InitInv
<1>2. IInv /\ [Next]_vars => IInv'
  BY StepInv
<1> QED
  BY <1>1, <1>2, PTL DEF Spec

(* Every variable has its type; no workspace counts more leases than there are
   requests (_instance_lease, _runtime_metrics). *)
THEOREM TypeCorrect == Spec => []TypeOK
<1>1. IInv => TypeOK
  <2> SUFFICES ASSUME IInv PROVE TypeOK
    OBVIOUS
  <2>1. ASSUME NEW w \in Workspaces PROVE active[w] \in 0..Cardinality(Tasks)
    <3>1. Holders(w) \subseteq Tasks
      BY DEF Holders
    <3>2. Cardinality(Holders(w)) <= Cardinality(Tasks)
      BY <3>1, FS_Subset
    <3>3. Cardinality(Holders(w)) \in Nat /\ Cardinality(Tasks) \in Nat
      BY HoldersFinite, FS_CardinalityType
    <3> QED
      BY <3>2, <3>3 DEF IInv, Counted
  <2>2. active \in [Workspaces -> 0..Cardinality(Tasks)]
    BY <2>1 DEF IInv, Types
  <2> QED
    BY <2>2 DEF TypeOK, IInv, Types, Stages
<1> QED
  BY <1>1, Invariance, PTL

(* The instance a request or the metrics work with is never finalised or
   replaced under them by _evict_instances, whatever the limit and however
   requests are interrupted. *)
THEOREM LeasedStaysLive == Spec => []LeasedIsLive
<1>1. IInv => LeasedIsLive
  BY DEF IInv, Live, LeasedIsLive, Types
<1> QED
  BY <1>1, Invariance, PTL

(* The usage lock admits one request to a workspace, although eviction throws
   lock objects away and setdefault makes new ones. *)
THEOREM OneUserAtATime == Spec => []OneUser
<1>1. IInv => OneUser
  BY DEF IInv, Exclusive, OneUser, UserStages, Types
<1> QED
  BY <1>1, Invariance, PTL

(* The usage a query reads from the TokenTracker is its own. *)
THEOREM UsageIsExact == Spec => []ExactUsage
<1>1. IInv => ExactUsage
  BY DEF IInv
<1> QED
  BY <1>1, Invariance, PTL
-----------------------------------------------------------------------------
(* What is not finalised is in the cache or in the hands of who evicted it. *)
Kept == {<<w, cache[w]>> : w \in Cached}
Evicted == UNION {doomed[t] : t \in Tasks}
Accounted == faults = 0 => open = Kept \cup Evicted

(* An overfull cache is one that somebody is still going to sweep. *)
Swept == {"idle", "sweeping"}
Bounded ==
    /\ IsFiniteSet(Cached)
    /\ Cardinality(Cached) <= Limit \/ \E t \in Tasks : pc[t] \notin Swept

Books == Accounted /\ Bounded

LEMMA InitBooks == Init => Books
<1> SUFFICES ASSUME Init PROVE Books
  OBVIOUS
<1>1. Cached = {}
  BY DEF Init, Cached, Nowhere
<1>2. Cardinality(Cached) = 0 /\ IsFiniteSet(Cached)
  BY <1>1, FS_EmptySet
<1>3. Kept = {} /\ Evicted = {} /\ open = {}
  BY <1>1 DEF Kept, Evicted, Init
<1> QED
  BY <1>2, <1>3 DEF Books, Accounted, Bounded

(* Whoever leaves the cache alone and has not swept it changes nothing. *)
LEMMA SameBooks ==
    ASSUME Books, UNCHANGED <<cache, open, doomed>>, faults' = 0 => faults = 0,
           \A t \in Tasks : pc[t] \notin Swept => pc'[t] \notin Swept
    PROVE  Books'
<1>1. Cached' = Cached /\ Kept' = Kept /\ Evicted' = Evicted
  BY DEF Cached, Kept, Evicted
<1>2. Accounted'
  BY <1>1 DEF Books, Accounted
<1>3. Bounded'
  BY <1>1 DEF Books, Bounded
<1> QED
  BY <1>2, <1>3 DEF Books

(* A new instance goes into the cache, and its maker has yet to sweep it. *)
LEMMA CreateBooks ==
    ASSUME IInv, Books, NEW t \in Tasks, NEW w \in Workspaces, Create(t, w)
    PROVE  Books'
<1> USE DEF IInv, Types
<1>1. PICK new \in New({id \in Objects : <<w, id>> \notin open}) :
         LET kept == IF cache[w] = None THEN new ELSE cache[w]
         IN  /\ cache' = [cache EXCEPT ![w] = kept]
             /\ open' = open \cup {<<w, kept>>}
  BY DEF Create
<1>2. new \in Objects
  BY NewIsUnused
<1> DEFINE kept == IF cache[w] = None THEN new ELSE cache[w]
<1>3. kept # None /\ kept \in Objects /\ (w \in Cached => kept = cache[w])
  BY <1>2 DEF Cached
<1>4. \A v \in Workspaces : cache'[v] = IF v = w THEN kept ELSE cache[v]
  BY <1>1
<1>5. open' = open \cup {<<w, kept>>}
  BY <1>1
<1>6. UNCHANGED <<doomed, faults>> /\ pc'[t] = "trim"
  BY DEF Create, Step
<1> HIDE DEF kept
<1>7. Cached' = Cached \cup {w}
  BY <1>3, <1>4 DEF Cached
<1>8. Kept' = Kept \cup {<<w, kept>>}
  <2>1. \A v \in Cached \cup {w} :
           <<v, cache'[v]>> = IF v = w THEN <<w, kept>> ELSE <<v, cache[v]>>
    BY <1>4 DEF Cached
  <2>2. Kept' = {<<v, cache'[v]>> : v \in Cached \cup {w}}
    BY <1>7 DEF Kept
  <2>3. w \in Cached => <<w, kept>> = <<w, cache[w]>>
    BY <1>3
  <2>4. Kept' \subseteq Kept \cup {<<w, kept>>}
    <3> SUFFICES ASSUME NEW v \in Cached \cup {w}
                 PROVE  <<v, cache'[v]>> \in Kept \cup {<<w, kept>>}
      BY <2>2
    <3>1. CASE v = w
      BY <2>1, <3>1
    <3>2. CASE v # w
      BY <2>1, <3>2 DEF Kept
    <3> QED
      BY <3>1, <3>2
  <2>5. \A v \in Cached : <<v, cache[v]>> = <<v, cache'[v]>>
    BY <2>1, <2>3
  <2>6. Kept \subseteq Kept'
    BY <2>2, <2>5 DEF Kept
  <2>7. <<w, kept>> \in Kept'
    BY <2>1, <2>2
  <2> QED
    BY <2>4, <2>6, <2>7
<1>9. Evicted' = Evicted
  BY <1>6 DEF Evicted
<1>10. Accounted'
  BY <1>5, <1>6, <1>8, <1>9 DEF Books, Accounted
<1>11. IsFiniteSet(Cached')
  BY <1>7, FS_AddElement DEF Books, Bounded
<1> QED
  BY <1>6, <1>10, <1>11 DEF Books, Bounded, Swept

(* An eviction moves its victims from the cache into the hands of its request. *)
LEMMA EvictAccounts ==
    ASSUME IInv, Books, NEW t \in Tasks, NEW from, NEW to, NEW kept,
           doomed[t] = {}, Evict(t, from, to, kept)
    PROVE  /\ Accounted'
           /\ \E victims \in Evictions(kept) : Cached' = Cached \ victims
<1> USE DEF IInv, Types
<1>1. PICK victims \in Evictions(kept) :
         /\ doomed' = [doomed EXCEPT ![t] = {<<w, cache[w]>> : w \in victims}]
         /\ cache' = Without(cache, victims, None)
  BY DEF Evict
<1>2. UNCHANGED <<open, faults>>
  BY DEF Evict, objects
<1>3. victims \subseteq Cached
  BY DEF Evictions, Candidates
<1>4. Cached' = Cached \ victims
  BY <1>1, <1>3 DEF Cached, Without
<1>5. Kept' = {<<w, cache[w]>> : w \in Cached \ victims}
  <2>1. \A w \in Cached \ victims : cache'[w] = cache[w]
    BY <1>1 DEF Cached, Without
  <2> QED
    BY <1>4, <2>1 DEF Kept
<1>6. Evicted' = Evicted \cup {<<w, cache[w]>> : w \in victims}
  <2>1. \A u \in Tasks : doomed'[u] = IF u = t THEN {<<w, cache[w]>> : w \in victims}
                                       ELSE doomed[u]
    BY <1>1
  <2>2. \A u \in Tasks : doomed[u] \subseteq doomed'[u]
    BY <1>1, <2>1
  <2>3. Evicted' \subseteq Evicted \cup {<<w, cache[w]>> : w \in victims}
    <3> SUFFICES ASSUME NEW u \in Tasks, NEW i \in doomed'[u]
                 PROVE  i \in Evicted \cup {<<w, cache[w]>> : w \in victims}
      BY DEF Evicted
    <3>1. CASE u = t
      BY <2>1, <3>1
    <3>2. CASE u # t
      BY <2>1, <3>2 DEF Evicted
    <3> QED
      BY <3>1, <3>2
  <2>4. Evicted \subseteq Evicted' /\ doomed'[t] \subseteq Evicted'
    BY <2>2 DEF Evicted
  <2> QED
    BY <2>1, <2>3, <2>4
<1>7. Kept = Kept' \cup {<<w, cache[w]>> : w \in victims}
  BY <1>3, <1>5 DEF Kept
<1>8. Accounted'
  BY <1>2, <1>6, <1>7 DEF Books, Accounted
<1> QED
  BY <1>4, <1>8

(* The last request to sweep finds all that is cached for the taking. *)
LEMMA SweepBooks ==
    ASSUME IInv, Books, NEW t \in Tasks, Trim(t) \/ Sweep(t)
    PROVE  Books'
<1> USE DEF IInv, Types
<1>1. doomed[t] = {}
  BY DEF Doomed, Trim, Sweep, Evict, Step
<1>2. CASE Trim(t)
  <2>1. Accounted' /\ \E victims : Cached' = Cached \ victims
    BY <1>1, <1>2, EvictAccounts DEF Trim
  <2>2. IsFiniteSet(Cached')
    BY <2>1, FS_Subset DEF Books, Bounded
  <2>3. pc'[t] = "trimming"
    BY <1>2 DEF Trim, Evict, Step
  <2> QED
    BY <2>1, <2>2, <2>3 DEF Books, Bounded, Swept
<1>3. CASE Sweep(t)
  <2>1. Accounted'
    BY <1>1, <1>3, EvictAccounts DEF Sweep
  <2>2. PICK victims \in Evictions({}) : Cached' = Cached \ victims
    BY <1>1, <1>3, EvictAccounts DEF Sweep
  <2>3. IsFiniteSet(Cached')
    BY <2>2, FS_Subset DEF Books, Bounded
  <2>4. pc[t] = "sweep" /\ pc' = [pc EXCEPT ![t] = "sweeping"]
    BY <1>3 DEF Sweep, Evict, Step
  <2>5. ASSUME \A u \in Tasks : pc'[u] \in Swept
        PROVE  Cardinality(Cached') <= Limit
    <3>1. \A u \in Tasks : pc[u] \in FreeStages
      BY <2>4, <2>5 DEF Swept, FreeStages
    <3>2. \A u \in Tasks : held[u] = {}
      BY <3>1 DEF Leases
    <3>3. \A w \in Workspaces : active[w] = 0
      <4> SUFFICES ASSUME NEW w \in Workspaces PROVE active[w] = 0
        OBVIOUS
      <4>1. Holders(w) = {}
        BY <3>2 DEF Holders
      <4> QED
        BY <4>1, FS_EmptySet DEF Counted
    <3>4. Candidates({}) = Cached
      BY <3>2, <3>3 DEF Candidates, Creating, InUse, Cached
    <3>5. Cardinality(Cached') <= Limit \/ Cached' = {}
      <4>1. Cardinality(Cached \ victims) <= Limit \/ victims = Cached
        BY <2>2, <3>4 DEF Evictions
      <4> QED
        BY <2>2, <4>1
    <3>6. CASE Cached' = {}
      <4>1. Cardinality(Cached') = 0
        BY <3>6, FS_EmptySet
      <4> QED
        BY <4>1
    <3> QED
      BY <3>5, <3>6
  <2> QED
    BY <2>1, <2>3, <2>5 DEF Books, Bounded
<1> QED
  BY <1>2, <1>3

LEMMA FinalizeBooks ==
    ASSUME IInv, Books, NEW t \in Tasks, Finalize(t)
    PROVE  Books'
<1> USE DEF IInv, Types
<1>1. PICK i \in doomed[t] :
         /\ open' = open \ {i}
         /\ doomed' = [doomed EXCEPT ![t] = @ \ {i}]
  BY DEF Finalize
<1>2. UNCHANGED <<cache, pc, faults>>
  BY DEF Finalize, shared
<1>3. Cached' = Cached /\ Kept' = Kept
  BY <1>2 DEF Cached, Kept
<1>4. i \notin Kept
  BY DEF Doomed, Kept, Cached
<1>5. Evicted' = Evicted \ {i}
  <2>1. \A u \in Tasks : doomed'[u] = doomed[u] \ {i}
    BY <1>1 DEF Doomed
  <2> QED
    BY <2>1 DEF Evicted
<1>6. Accounted'
  BY <1>1, <1>2, <1>3, <1>4, <1>5 DEF Books, Accounted
<1>7. Bounded'
  BY <1>2, <1>3 DEF Books, Bounded
<1> QED
  BY <1>6, <1>7 DEF Books

LEMMA InterruptBooks ==
    ASSUME IInv, Books, NEW t \in Tasks, Interrupt(t)
    PROVE  Books'
<1>1. faults' # 0
  BY DEF Interrupt, IInv, Types
<1>2. Cached' = Cached
  BY DEF Interrupt, shared, Cached
<1>3. \A u \in Tasks : pc[u] \notin Swept => pc'[u] \notin Swept
  BY DEF Interrupt, Swept, IInv, Types
<1> QED
  BY <1>1, <1>2, <1>3 DEF Books, Accounted, Bounded

LEMMA StepBooks == IInv /\ Books /\ [Next]_vars => Books'
<1> SUFFICES ASSUME IInv, Books, [Next]_vars PROVE Books'
  OBVIOUS
<1> USE DEF Step, shared, objects, local
<1>1. ASSUME NEW t \in Tasks, NEW w \in Workspaces,
             \/ \E k \in {"query", "write"} : Lease(t, w, k)
             \/ Locked(t, w) \/ Lookup(t, w) \/ Enter(t, w) \/ Ask(t, w) \/ Finish(t, w)
      PROVE  Books'
  <2>1. UNCHANGED <<cache, open, doomed, faults>>
    BY <1>1 DEF Lease, Locked, CreatedMeanwhile, StartCreating, Begin, Lookup, Enter, Ask,
       Finish
  <2>2. \A u \in Tasks : pc[u] \notin Swept => pc'[u] \notin Swept
    BY <1>1 DEF Lease, Locked, CreatedMeanwhile, StartCreating, Begin, Lookup, Enter, Ask,
       Finish, IInv, Types, Swept
  <2> QED
    BY <2>1, <2>2, SameBooks
<1>2. ASSUME NEW t \in Tasks, Visit(t) \/ Visited(t) \/ Release(t) \/ Finalized(t)
      PROVE  Books'
  <2>1. UNCHANGED <<cache, open, doomed, faults>>
    BY <1>2 DEF Visit, Visited, Release, Finalized
  <2>2. \A u \in Tasks : pc[u] \notin Swept => pc'[u] \notin Swept
    BY <1>2 DEF Visit, Visited, Release, Finalized, IInv, Types, Swept
  <2> QED
    BY <2>1, <2>2, SameBooks
<1>3. CASE UNCHANGED vars
  BY <1>3, SameBooks DEF vars
<1> QED
  BY <1>1, <1>2, <1>3, CreateBooks, SweepBooks, FinalizeBooks, InterruptBooks
     DEF Next, Working, Alone

(* No instance is lost between _instance, _evict_instances and the finaliser
   as long as nothing is interrupted, and with all requests over the cache is
   within its limit whatever was interrupted. *)
THEOREM NoInstanceIsLost == Spec => []NothingLeaks
<1>1. Init => IInv /\ Books
  BY InitInv, InitBooks
<1>2. IInv /\ Books /\ [Next]_vars => (IInv /\ Books)'
  BY StepInv, StepBooks
<1>3. IInv /\ Books => NothingLeaks
  <2> SUFFICES ASSUME IInv, Books PROVE NothingLeaks
    OBVIOUS
  <2>1. (\A t \in Tasks : pc[t] = "idle") => Cardinality(Cached) <= Limit
    BY DEF Books, Bounded, Swept
  <2>2. faults = 0 => open = Kept \cup Evicted
    BY DEF Books, Accounted
  <2>3. \A t \in Tasks : doomed[t] \cap Kept = {}
    BY DEF IInv, Doomed, Kept, Cached
  <2>4. \A t, u \in Tasks : t # u => doomed[t] \cap doomed[u] = {}
    BY DEF IInv, Doomed
  <2> QED
    BY <2>1, <2>2, <2>3, <2>4 DEF NothingLeaks, Kept, Evicted
<1> QED
  BY <1>1, <1>2, <1>3, PTL DEF Spec
=============================================================================
