---------------------------- MODULE WorkspaceCache ----------------------------
(***************************************************************************)
(* LocalLightRAGAdapter (backend/lightrag_integration/adapters.py): a      *)
(* bounded cache of LightRAG instances, one per workspace, shared by the   *)
(* requests of one event loop.                                             *)
(*                                                                         *)
(* Every request leases its workspace, finds or creates the instance under *)
(* the creation lock of the workspace, works under the usage lock of the   *)
(* workspace, gives the lease back and evicts what is too much.  Requests  *)
(* are tasks that switch at an await and may be cancelled there; the       *)
(* sections under _cache_guard contain no await and are single steps.      *)
(*                                                                         *)
(* The time of last use only decides which candidates are evicted, the     *)
(* oldest and those beyond their time to live; the model lets it be any.   *)
(***************************************************************************)
EXTENDS Naturals, FiniteSets

CONSTANTS Tasks,      \* concurrent requests of the event loop
          Workspaces,
          Objects,    \* tells objects of one kind and workspace apart
          Limit,      \* LIGHTRAG_WORKSPACE_CACHE_MAX, at least 1
          MaxFaults,  \* bound on cancelled requests and failing factories
          None        \* no entry in a dictionary

ASSUME CacheAssumption ==
    /\ IsFiniteSet(Tasks)
    /\ Limit \in Nat \ {0} /\ MaxFaults \in Nat
    /\ None \notin Objects

VARIABLES cache,      \* _instances
          active,     \* _active_workspaces, 0 where there is no entry
          locks,      \* _locks
          usageLocks, \* _usage_locks
          open,       \* <<workspace, instance>> whose storages are initialised and not finalised
          tracker,    \* whose model calls the TokenTracker of an instance has counted
          pc,         \* where each request is
          kind,       \* what it does with its instance
          held,       \* the workspaces it leases
          inst,       \* the instance it works with, for each of them
          lock,       \* the creation or usage lock it waits for or holds
          doomed,     \* what it has taken out of the cache to finalise
          faults

shared == <<cache, active, locks, usageLocks>>
objects == <<open, tracker>>
local == <<kind, held, inst, lock, doomed>>
vars == <<cache, active, locks, usageLocks, open, tracker, pc,
          kind, held, inst, lock, doomed, faults>>

Kinds == {"none", "query", "write", "metrics"}
RagObjects == Workspaces \X Objects
Nowhere == [w \in Workspaces |-> None]

TypeOK ==
    /\ cache \in [Workspaces -> Objects \cup {None}]
    /\ active \in [Workspaces -> 0..Cardinality(Tasks)]
    /\ locks \in [Workspaces -> Objects \cup {None}]
    /\ usageLocks \in [Workspaces -> Objects \cup {None}]
    /\ open \subseteq RagObjects
    /\ tracker \in [RagObjects -> SUBSET Tasks]
    /\ pc \in [Tasks -> {"idle", "lookup", "wait", "creating", "trim", "trimming", "enter",
                         "blocked", "using", "asked", "visiting", "release", "sweep", "sweeping"}]
    /\ kind \in [Tasks -> Kinds]
    /\ held \in [Tasks -> SUBSET Workspaces]
    /\ inst \in [Tasks -> [Workspaces -> Objects \cup {None}]]
    /\ lock \in [Tasks -> Objects \cup {None}]
    /\ doomed \in [Tasks -> SUBSET RagObjects]
    /\ faults \in 0..MaxFaults

Init ==
    /\ cache = Nowhere
    /\ active = [w \in Workspaces |-> 0]
    /\ locks = Nowhere /\ usageLocks = Nowhere
    /\ open = {} /\ tracker = [i \in RagObjects |-> {}]
    /\ pc = [t \in Tasks |-> "idle"]
    /\ kind = [t \in Tasks |-> "none"]
    /\ held = [t \in Tasks |-> {}]
    /\ inst = [t \in Tasks |-> Nowhere]
    /\ lock = [t \in Tasks |-> None]
    /\ doomed = [t \in Tasks |-> {}]
    /\ faults = 0

-----------------------------------------------------------------------------
Step(t, from, to) == pc[t] = from /\ pc' = [pc EXCEPT ![t] = to]

Cached == {w \in Workspaces : cache[w] # None}

(* An asyncio.Lock is held by the request that is inside its block. *)
Creating(w, l) == \E t \in Tasks : pc[t] = "creating" /\ w \in held[t] /\ lock[t] = l
InUse(w, l) == \E t \in Tasks : pc[t] \in {"using", "asked"} /\ w \in held[t] /\ lock[t] = l

(* A new object: any identity that is not in use will do. *)
New(unused) == IF unused = {} THEN {} ELSE {CHOOSE id \in unused : TRUE}

(* The entry of a dictionary of locks for a workspace: setdefault. *)
LockOf(table, w, users) ==
    IF table[w] # None THEN {table[w]}
    ELSE New(Objects \ {lock[t] : t \in {u \in Tasks : w \in held[u] /\ pc[u] \in users}})

(* _instance_lease up to the call of _instance. *)
Lease(t, w, k) ==
    /\ Step(t, "idle", "lookup")
    /\ active' = [active EXCEPT ![w] = @ + 1]
    /\ held' = [held EXCEPT ![t] = {w}]
    /\ kind' = [kind EXCEPT ![t] = k]
    /\ UNCHANGED <<cache, locks, usageLocks, objects, inst, lock, doomed, faults>>

(* _instance: the cached one, or a wait for the creation lock of the workspace. *)
Lookup(t, w) ==
    /\ w \in held[t]
    /\ \E l \in LockOf(locks, w, {"wait", "creating"}) :
          /\ locks' = [locks EXCEPT ![w] = l]
          /\ \/ /\ cache[w] # None
                /\ Step(t, "lookup", "trim")
                /\ inst' = [inst EXCEPT ![t][w] = cache[w]]
                /\ UNCHANGED lock
             \/ /\ cache[w] = None
                /\ Step(t, "lookup", "wait")
                /\ lock' = [lock EXCEPT ![t] = l]
                /\ UNCHANGED inst
    /\ UNCHANGED <<cache, active, usageLocks, objects, kind, held, doomed, faults>>

(* The creation lock is free: the cache is asked once more. *)
CreatedMeanwhile(t, w) ==
    /\ w \in held[t] /\ ~Creating(w, lock[t]) /\ cache[w] # None
    /\ Step(t, "wait", "trim")
    /\ inst' = [inst EXCEPT ![t][w] = cache[w]]
    /\ lock' = [lock EXCEPT ![t] = None]
    /\ UNCHANGED <<shared, objects, kind, held, doomed, faults>>

StartCreating(t, w) ==
    /\ w \in held[t] /\ ~Creating(w, lock[t]) /\ cache[w] = None
    /\ Step(t, "wait", "creating")
    /\ UNCHANGED <<shared, objects, local, faults>>

(* The factory has returned.  Should the cache have an entry by now, that one
   is used and the new instance finalised at once. *)
Create(t, w) ==
    /\ w \in held[t]
    /\ Step(t, "creating", "trim")
    /\ \E new \in New({id \in Objects : <<w, id>> \notin open}) :
          LET kept == IF cache[w] = None THEN new ELSE cache[w]
          IN  /\ cache' = [cache EXCEPT ![w] = kept]
              /\ inst' = [inst EXCEPT ![t][w] = kept]
              /\ open' = open \cup {<<w, kept>>}
    /\ lock' = [lock EXCEPT ![t] = None]
    /\ UNCHANGED <<active, locks, usageLocks, tracker, kind, held, doomed, faults>>

(* _evict_instances: the first is a variant that does not look at the leases. *)
CandidatesByLock(kept) ==
    {w \in Cached \ kept : ~Creating(w, locks[w]) /\ ~InUse(w, usageLocks[w])}
Candidates(kept) ==
    {w \in Cached \ kept : active[w] = 0 /\ ~Creating(w, locks[w]) /\ ~InUse(w, usageLocks[w])}

Evictions(kept) ==
    {victims \in SUBSET Candidates(kept) :
        Cardinality(Cached \ victims) <= Limit \/ victims = Candidates(kept)}

Without(table, victims, gone) == [w \in Workspaces |-> IF w \in victims THEN gone ELSE table[w]]

(* Variant: what is popped is not finalised. *)
EvictOnly(t, from, to, kept) ==
    /\ Step(t, from, to)
    /\ \E victims \in Evictions(kept) :
          /\ cache' = Without(cache, victims, None)
          /\ active' = Without(active, victims, 0)
          /\ locks' = Without(locks, victims, None)
          /\ usageLocks' = Without(usageLocks, victims, None)
    /\ UNCHANGED <<objects, local, faults>>

Evict(t, from, to, kept) ==
    /\ Step(t, from, to)
    /\ \E victims \in Evictions(kept) :
          /\ doomed' = [doomed EXCEPT ![t] = {<<w, cache[w]>> : w \in victims}]
          /\ cache' = Without(cache, victims, None)
          /\ active' = Without(active, victims, 0)
          /\ locks' = Without(locks, victims, None)
          /\ usageLocks' = Without(usageLocks, victims, None)
    /\ UNCHANGED <<objects, kind, held, inst, lock, faults>>

(* The tracker goes with its instance. *)
Finalize(t) ==
    /\ pc[t] \in {"trimming", "sweeping"}
    /\ \E i \in doomed[t] :
          /\ open' = open \ {i}
          /\ tracker' = [tracker EXCEPT ![i] = {}]
          /\ doomed' = [doomed EXCEPT ![t] = @ \ {i}]
    /\ UNCHANGED <<shared, pc, kind, held, inst, lock, faults>>

Trim(t) == Evict(t, "trim", "trimming", held[t])
Sweep(t) == Evict(t, "sweep", "sweeping", {})

Finalized(t) ==
    /\ doomed[t] = {}
    /\ Step(t, "trimming", "enter") \/ Step(t, "sweeping", "idle")
    /\ UNCHANGED <<shared, objects, local, faults>>

(* The block under the usage lock of the workspace, which an answer streamed to
   the client keeps from its first event to its last.  A query resets the
   tracker, and whatever asks a model is counted. *)
Enter(t, w) ==
    /\ w \in held[t]
    /\ Step(t, "enter", "blocked")
    /\ \E l \in LockOf(usageLocks, w, {"blocked", "using", "asked"}) :
          /\ usageLocks' = [usageLocks EXCEPT ![w] = l]
          /\ lock' = [lock EXCEPT ![t] = l]
    /\ UNCHANGED <<cache, active, locks, objects, kind, held, inst, doomed, faults>>

(* Variant: only what reads the tracker takes the lock. *)
BeginReading(t, w) ==
    /\ w \in held[t] /\ (kind[t] = "query" => ~InUse(w, lock[t]))
    /\ Step(t, "blocked", "using")
    /\ tracker' = IF kind[t] = "query" THEN [tracker EXCEPT ![<<w, inst[t][w]>>] = {}] ELSE tracker
    /\ UNCHANGED <<shared, open, local, faults>>

Begin(t, w) ==
    /\ w \in held[t] /\ ~InUse(w, lock[t])
    /\ Step(t, "blocked", "using")
    /\ tracker' = IF kind[t] = "query" THEN [tracker EXCEPT ![<<w, inst[t][w]>>] = {}] ELSE tracker
    /\ UNCHANGED <<shared, open, local, faults>>

Ask(t, w) ==
    /\ w \in held[t]
    /\ Step(t, "using", "asked")
    /\ tracker' = [tracker EXCEPT ![<<w, inst[t][w]>>] = @ \cup {t}]
    /\ UNCHANGED <<shared, open, local, faults>>

Finish(t, w) ==
    /\ w \in held[t]
    /\ Step(t, "using", "release") \/ Step(t, "asked", "release")
    /\ lock' = [lock EXCEPT ![t] = None]
    /\ UNCHANGED <<shared, objects, kind, held, inst, doomed, faults>>

(* _runtime_metrics leases all that is cached, but takes no usage lock. *)
Visit(t) ==
    /\ Step(t, "idle", "visiting")
    /\ active' = [w \in Workspaces |-> IF w \in Cached THEN active[w] + 1 ELSE active[w]]
    /\ held' = [held EXCEPT ![t] = Cached]
    /\ inst' = [inst EXCEPT ![t] = cache]
    /\ kind' = [kind EXCEPT ![t] = "metrics"]
    /\ UNCHANGED <<cache, locks, usageLocks, objects, lock, doomed, faults>>

Visited(t) ==
    /\ Step(t, "visiting", "release")
    /\ UNCHANGED <<shared, objects, local, faults>>

(* The end of a lease; the first is a variant that does not count it. *)
FewerForgotten(n) == n
Fewer(n) == IF n = 0 THEN 0 ELSE n - 1
Release(t) ==
    /\ Step(t, "release", "sweep")
    /\ active' = [w \in Workspaces |-> IF w \in held[t] THEN Fewer(active[w]) ELSE active[w]]
    /\ held' = [held EXCEPT ![t] = {}]
    /\ inst' = [inst EXCEPT ![t] = Nowhere]
    /\ kind' = [kind EXCEPT ![t] = "none"]
    /\ UNCHANGED <<cache, locks, usageLocks, objects, lock, doomed, faults>>

(* A failing operation, or a cancelled request, at one of its awaits: what it
   was about to finalise is forgotten. *)
Interrupt(t) ==
    /\ faults < MaxFaults
    /\ faults' = faults + 1
    /\ \/ /\ pc[t] \in {"wait", "creating", "blocked", "using", "asked", "visiting"}
          /\ pc' = [pc EXCEPT ![t] = "release"]
       \/ /\ doomed[t] # {} /\ pc[t] = "trimming"
          /\ pc' = [pc EXCEPT ![t] = "release"]
       \/ /\ doomed[t] # {} /\ pc[t] = "sweeping"
          /\ pc' = [pc EXCEPT ![t] = "idle"]
    /\ lock' = [lock EXCEPT ![t] = None]
    /\ doomed' = [doomed EXCEPT ![t] = {}]
    /\ UNCHANGED <<shared, objects, kind, held, inst>>

Locked(t, w) == CreatedMeanwhile(t, w) \/ StartCreating(t, w) \/ Begin(t, w)
Working(t, w) == Lookup(t, w) \/ Create(t, w) \/ Enter(t, w) \/ Ask(t, w) \/ Finish(t, w)
Alone(t) == Trim(t) \/ Sweep(t) \/ Finalize(t) \/ Finalized(t) \/ Visited(t) \/ Release(t)

Next ==
    \/ \E t \in Tasks, w \in Workspaces :
          (\E k \in {"query", "write"} : Lease(t, w, k)) \/ Locked(t, w) \/ Working(t, w)
    \/ \E t \in Tasks : Visit(t) \/ Alone(t) \/ Interrupt(t)

Spec == Init /\ [][Next]_vars

-----------------------------------------------------------------------------
(* The instance a request or the metrics work with stays the cached one of its
   workspace, and nobody finalises it under them, however full the cache is. *)
LeasedIsLive ==
    \A t \in Tasks, w \in Workspaces :
        inst[t][w] # None => inst[t][w] = cache[w] /\ <<w, inst[t][w]>> \in open

(* One request at a time is inside the block of a workspace, although the lock
   itself is thrown away and made anew with the cache entry. *)
OneUser ==
    \A t1, t2 \in Tasks :
        /\ {pc[t1], pc[t2]} \subseteq {"using", "asked"}
        /\ held[t1] \cap held[t2] # {}
        => t1 = t2

(* "per-request usage is exact and a concurrent index/query cannot reset
   another request": what a query finds in the tracker at its end are its own
   model calls and no others. *)
ExactUsage ==
    \A t \in Tasks, w \in Workspaces :
        kind[t] = "query" /\ w \in held[t] =>
            /\ pc[t] = "using" => tracker[<<w, inst[t][w]>>] = {}
            /\ pc[t] = "asked" => tracker[<<w, inst[t][w]>>] = {t}

(* With all requests over, also interrupted ones, the cache is within its limit;
   without an interruption every instance ever made is cached, about to be
   finalised by exactly one request, or finalised. *)
NothingLeaks ==
    LET kept == {<<w, cache[w]>> : w \in Cached}
    IN  /\ (\A t \in Tasks : pc[t] = "idle") => Cardinality(Cached) <= Limit
        /\ faults = 0 => open = kept \cup UNION {doomed[t] : t \in Tasks}
        /\ \A t \in Tasks : doomed[t] \cap kept = {}
        /\ \A t, u \in Tasks : t # u => doomed[t] \cap doomed[u] = {}
=============================================================================
