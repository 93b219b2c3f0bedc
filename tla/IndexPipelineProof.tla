------------------------- MODULE IndexPipelineProof -------------------------
(***************************************************************************)
(* Two theorems about one index job, for every deployment, every choice of *)
(* engines, and any number of cancellations, deletions and faults.         *)
(*                                                                         *)
(* The deletion of a document leaves nothing of it in the classic graph.   *)
(* What carries the proof is a fence.  Once a row is seen that is not      *)
(* active, the classic engine has been told to stop, or it will never      *)
(* write again.  Nothing takes that back, except that a cancelled row is   *)
(* overwritten or dropped, which the history variable remembers.  A        *)
(* deletion only goes on behind the fence; it empties the graph, and an    *)
(* engine that was just writing looks once more and undoes its write.      *)
(*                                                                         *)
(* Neither engine answers for the other: the second half of the module,    *)
(* from "Neither engine answers" on, with the types of every variable.     *)
(***************************************************************************)
EXTENDS MCIndexPipeline, TLAPS

(* The types the argument rests on, no finer than it needs them. *)
Names == Statuses \cup EngineStatuses \cup {"running"}
RoughRows == [stored : BOOLEAN, status : Names, legacy : Names, lightrag : Names,
              files : SUBSET Files, detached : BOOLEAN]

Types ==
    /\ scenario \in Scenarios
    /\ pc = [a \in Actors |-> pc[a]]
    /\ meta \in RoughRows /\ snap \in RoughRows
    /\ copy \in [Actors -> RoughRows \cup {NoCopy}]
    /\ outcome \in [Engines -> Names] /\ verdict \in Names
    /\ todo \in [{"main", "api"} -> SUBSET Engines]
    /\ graph \in BOOLEAN /\ flag \in BOOLEAN /\ overwritten \in BOOLEAN /\ abandoned \in BOOLEAN
    /\ requests \in [cancel : Nat, delete : Nat]
    /\ meta.stored \/ meta.status = "none"
    /\ \A a \in Actors : copy[a] # NoCopy => copy[a].stored

(* The pipeline forks the engines once and waits for each of them. *)
BeforeFork == {"start", "open", "parse", "parsing", "parsed", "savePages", "indexing",
               "indexingDoc", "fork"}
Joining == {"join", "reportLightrag", "reportLightragDoc"}
Running == pc["legacy"] \notin {"idle", "over"}

Control ==
    /\ pc["legacy"] # "over" => outcome["legacy"] = "running"
    /\ Running => pc["main"] \in Joining /\ "legacy" \in todo["main"]
    /\ pc["main"] \in BeforeFork => pc["legacy"] = "idle"

(* The fence: the classic engine has been told to stop, or is over, or was
   never begun and will not be. *)
Told == IF Distributed THEN overwritten \/ meta.status = "cancelled" ELSE flag
LegacyOver ==
    \/ pc["legacy"] = "over"
    \/ pc["legacy"] = "idle" /\ pc["main"] \notin BeforeFork
Fenced == Told \/ LegacyOver

(* A row that is not active, saved or in the hands of an actor, is behind it. *)
RowsFenced ==
    /\ ~Active(meta) => Fenced
    /\ \A a \in Actors : copy[a] # NoCopy /\ ~Active(copy[a]) => Fenced

(* There was a deletion that has come to its end. *)
Finished == requests.delete > IF pc["api"] = "idle" \/ request = "cancel" THEN 0 ELSE 1

(* What a deletion does once the job is cancelled or over. *)
Clearing == {"visit", "voidLegacy", "voidLegacyDoc", "voidLightrag", "voidLightragDoc", "detach",
             "purge", "tombstone", "schedule", "unpublish", "jobs", "drop", "row"}
ApiFenced ==
    /\ ~Distributed /\ pc["api"] = "cancelRow" => Fenced
    /\ pc["api"] \in Clearing \/ Finished => Fenced

(* From the removal of the graph on, only an engine that is about to look at
   the cancellation may have written it. *)
Emptied == Finished \/ pc["api"] \in {"jobs", "drop", "row"}
GraphUndone ==
    Emptied /\ (Distributed => ~overwritten) /\ ~abandoned =>
        (graph => pc["legacy"] \in {"guard2", "undo"})

FenceInv == Types /\ Control /\ RowsFenced /\ ApiFenced /\ GraphUndone

-----------------------------------------------------------------------------
(* What the helpers do to the variables above. *)

(* Actor a waits at a step, or goes on to another. *)
Moves(a, from, to) == pc[a] = from /\ pc' \in {pc, [pc EXCEPT ![a] = to]}

Alone(a) ==
    /\ pc' = [b \in Actors |-> pc'[b]]
    /\ \A b \in Actors \ {a} : pc'[b] = pc[b]

(* What most steps leave alone. *)
Frame == UNCHANGED <<graph, flag, outcome, todo, request, requests, verdict, snap>>

(* How a step treats the rows: not at all, it lets go of one it had loaded, it
   loads one, it saves one, or it rewrites the saved one behind the fence. *)
RowsMove ==
    \/ meta' = meta /\ copy' = copy
    \/ \E a \in Actors : meta' = meta /\ copy' = [copy EXCEPT ![a] = NoCopy]
    \/ \E a \in Actors, row \in RoughRows :
          /\ row.stored /\ (row = meta \/ ~meta.stored)
          /\ meta' = meta /\ copy' = [copy EXCEPT ![a] = row]
    \/ \E a \in Actors :
          /\ copy[a] # NoCopy /\ copy' = [copy EXCEPT ![a] = NoCopy]
          /\ meta' \in RoughRows /\ meta'.stored
          /\ ~Active(meta') => ~Active(copy[a]) \/ Fenced \/ Fenced'
    \/ /\ Fenced
       /\ copy' = copy
       /\ meta' \in RoughRows /\ (meta'.stored \/ meta'.status = "none")

LEMMA TargetsAreEngines == ASSUME scenario \in Scenarios PROVE Targets \subseteq Engines
BY PipelineAssumption DEF Targets

LEMMA StatusOfRow ==
    ASSUME NEW r \in RoughRows, NEW s \in Names
    PROVE  /\ SetStatus(r, s) \in RoughRows /\ SetStatus(r, s).status = s
           /\ SetStatus(r, s).stored = r.stored /\ SetStatus(r, s).detached = r.detached
BY DEF SetStatus, RoughRows

LEMMA EngineOfRow ==
    ASSUME NEW r \in RoughRows, NEW s \in Names, NEW e \in Engines
    PROVE  LET row == [r EXCEPT ![e] = s]
           IN  /\ row \in RoughRows /\ row.status = r.status
               /\ row.stored = r.stored /\ row.detached = r.detached
<1>1. CASE e = "legacy"
  BY <1>1 DEF RoughRows
<1>2. CASE e = "lightrag"
  BY <1>2 DEF RoughRows
<1> QED
  BY <1>1, <1>2 DEF Engines

LEMMA FilesOfRow ==
    ASSUME NEW r \in RoughRows, NEW f \in Files
    PROVE  LET row == [r EXCEPT !.files = @ \cup {f}]
           IN  /\ row \in RoughRows /\ row.status = r.status
               /\ row.stored = r.stored /\ row.detached = r.detached
BY DEF RoughRows

LEMMA NamesOfStates ==
    /\ Terminal \subseteq Names /\ EngineStatuses \subseteq Names
    /\ {"none", "queued", "parsing", "indexing"} \subseteq Names
BY DEF Names, Statuses

LEMMA BlankFacts ==
    /\ Blank \in RoughRows /\ Blank.stored
    /\ NoRow \in RoughRows /\ ~NoRow.stored /\ NoRow.status = "none"
    /\ \A b \in BOOLEAN :
         /\ [Blank EXCEPT !.status = "cancelled", !.detached = b] \in RoughRows
         /\ [Blank EXCEPT !.status = "cancelled", !.detached = b].stored
BY NamesOfStates DEF Blank, NoRow, Terminal, RoughRows

LEMMA LoadMoves ==
    ASSUME Types, NEW a \in Actors, Load(a, IF meta.stored THEN meta ELSE Blank)
    PROVE  RowsMove /\ pc' = pc
BY BlankFacts DEF Types, Load, RowsMove

LEMMA SaveMoves ==
    ASSUME Types, NEW a \in Actors, NEW row \in RoughRows, NEW to, Save(a, row, to),
           copy[a] # NoCopy => row.stored,
           ~Active(row) => ~Active(copy[a]) \/ Fenced \/ Fenced'
    PROVE  RowsMove /\ pc' = [pc EXCEPT ![a] = to]
BY DEF Types, Save, RowsMove, Goto

LEMMA SetEngineMoves ==
    ASSUME Types, NEW a \in Actors, NEW e \in Engines, NEW s \in Names,
           NEW from, NEW mid, NEW to, SetEngine(a, e, s, from, mid, to)
    PROVE  (Moves(a, from, mid) \/ Moves(a, mid, to)) /\ Frame /\ RowsMove
<1>1. CASE /\ pc[a] = from
           /\ Load(a, IF meta.stored THEN meta ELSE Blank)
           /\ UNCHANGED <<doc, stores, deletions, flag, saving, dcopy, worker, api, faults>>
  BY <1>1, LoadMoves DEF Moves, Frame, stores, worker, api
<1>2. CASE /\ pc[a] = from
           /\ Save(a, [copy[a] EXCEPT ![e] = s], mid)
           /\ UNCHANGED <<doc, stores, deletions, flag, saving, dcopy, worker, api, faults>>
  <2> DEFINE row == [copy[a] EXCEPT ![e] = s]
  <2>1. copy[a] \in RoughRows /\ copy[a].stored
    BY <1>2 DEF Types, Save
  <2>2. /\ row \in RoughRows /\ row.stored = copy[a].stored
        /\ row.detached = copy[a].detached /\ row.status = copy[a].status
    BY <2>1, EngineOfRow
  <2>3. Save(a, row, mid)
    BY <1>2
  <2> HIDE DEF row
  <2>4. RowsMove /\ pc' = [pc EXCEPT ![a] = mid]
    BY <2>1, <2>2, <2>3, SaveMoves DEF Active
  <2> QED
    BY <1>2, <2>4 DEF Moves, Frame, stores, worker, api
<1>3. CASE UpdateDoc(a, mid, LAMBDA row : SetDoc(row, e, s), to)
  BY <1>3 DEF UpdateDoc, Moves, Frame, RowsMove, Goto, stores, worker, api
<1> QED
  BY <1>1, <1>2, <1>3 DEF SetEngine

LEMMA SaveArtifactMoves ==
    ASSUME Types, NEW a \in Actors, NEW f \in Files, NEW from, NEW to, NEW cancelled,
           SaveArtifact(a, f, from, to, cancelled)
    PROVE  (Moves(a, from, to) \/ Moves(a, from, cancelled)) /\ Frame /\ RowsMove
<1>0. Frame /\ pc[a] = from
  BY DEF SaveArtifact, Frame, worker, api
<1>1. CASE UNCHANGED <<meta, copy>>
  <2>1. pc' \in {pc, [pc EXCEPT ![a] = to], [pc EXCEPT ![a] = cancelled]}
    BY <1>1 DEF SaveArtifact, Goto, Load, Save
  <2> QED
    BY <1>0, <1>1, <2>1 DEF Moves, RowsMove
<1>2. CASE Load(a, IF meta.stored THEN meta ELSE Blank)
  BY <1>0, <1>2, LoadMoves DEF Moves
<1>3. CASE Save(a, [copy[a] EXCEPT !.files = @ \cup {f}], to)
  <2> DEFINE row == [copy[a] EXCEPT !.files = @ \cup {f}]
  <2>1. copy[a] \in RoughRows /\ copy[a].stored
    BY <1>3 DEF Types, Save
  <2>2. /\ row \in RoughRows /\ row.stored = copy[a].stored
        /\ row.detached = copy[a].detached /\ row.status = copy[a].status
    BY <2>1, FilesOfRow
  <2>3. Save(a, row, to)
    BY <1>3
  <2> HIDE DEF row
  <2>4. RowsMove /\ pc' = [pc EXCEPT ![a] = to]
    BY <2>1, <2>2, <2>3, SaveMoves DEF Active
  <2> QED
    BY <1>0, <2>4 DEF Moves
<1> QED
  BY <1>1, <1>2, <1>3 DEF SaveArtifact

(* An update of the saved row to a given one. *)
Updates(a, from, row, to) ==
    /\ pc[a] = from
    /\ (Whole /\ Load(a, meta)) \/ Save(a, row, to)
    /\ UNCHANGED <<doc, stores, deletions, flag, saving, dcopy, worker, api, faults>>

LEMMA UpdateMoves ==
    ASSUME Types, NEW a \in Actors, NEW row, NEW from, NEW to, Updates(a, from, row, to),
           copy[a] # NoCopy =>
              /\ row \in RoughRows /\ row.stored
              /\ ~Active(row) => ~Active(copy[a]) \/ Fenced \/ Fenced'
    PROVE  Moves(a, from, to) /\ Frame /\ RowsMove
<1> Frame
  BY DEF Updates, Frame, stores, worker, api
<1>1. CASE Whole /\ Load(a, meta)
  <2>1. Load(a, IF meta.stored THEN meta ELSE Blank)
    BY <1>1 DEF Whole
  <2> QED
    BY <2>1, LoadMoves DEF Updates, Moves
<1>2. CASE Save(a, row, to)
  <2>1. copy[a] # NoCopy
    BY <1>2 DEF Save
  <2> QED
    BY <1>2, <2>1, SaveMoves DEF Updates, Moves
<1> QED
  BY <1>1, <1>2 DEF Updates

LEMMA StatusMoves ==
    ASSUME Types, NEW a \in Actors, NEW s \in Names, NEW from, NEW to,
           Updates(a, from, SetStatus(copy[a], s), to),
           s \in {"parsing", "indexing"} \/ Fenced \/ Fenced'
    PROVE  Moves(a, from, to) /\ Frame /\ RowsMove
<1> DEFINE row == SetStatus(copy[a], s)
<1>1. copy[a] # NoCopy =>
         /\ copy[a] \in RoughRows /\ copy[a].stored
         /\ row \in RoughRows /\ row.status = s
         /\ row.stored = copy[a].stored /\ row.detached = copy[a].detached
  BY StatusOfRow DEF Types
<1>2. Updates(a, from, row, to)
  OBVIOUS
<1> HIDE DEF row
<1>3. copy[a] # NoCopy =>
         /\ row \in RoughRows /\ row.stored
         /\ ~Active(row) => ~Active(copy[a]) \/ Fenced \/ Fenced'
  BY <1>1 DEF Active, Terminal
<1> QED
  BY <1>2, <1>3, UpdateMoves

-----------------------------------------------------------------------------
(* The classic engine. *)

LegacyMoves ==
    /\ Alone("legacy")
    /\ Running /\ pc'["legacy"] # "idle"
    /\ UNCHANGED <<flag, todo, request, requests, verdict, snap>>
    /\ RowsMove

(* The engine fails between the upsert and the end of its removal. *)
FailsOnGraph == pc["legacy"] \in {"upsert", "guard2", "undo"} /\ outcome'["legacy"] = "failed"

(* It leaves a written graph unguarded only when it sees no cancellation, or
   when it fails. *)
LegacyGraph ==
    /\ graph' \in BOOLEAN
    /\ graph' => \/ pc'["legacy"] \in {"guard2", "undo"}
                 \/ graph /\ pc["legacy"] \notin {"guard2", "undo"}
                 \/ pc["legacy"] = "guard2" /\ ~IsCancelled("legacy")
                 \/ FailsOnGraph

LEMMA EngineSteps ==
    ASSUME Types, NEW from, NEW to, Moves("legacy", from, to), Frame, RowsMove,
           from \notin {"idle", "over", "guard2", "undo"}, to # "idle"
    PROVE  LegacyMoves /\ LegacyGraph /\ outcome' = outcome
BY DEF Types, Moves, Alone, Frame, LegacyMoves, LegacyGraph, Running, Actors, Engines

LEMMA LegacySteps ==
    ASSUME Types, RunLegacy
    PROVE  LegacyMoves /\ LegacyGraph /\ outcome' = outcome
<1> USE NamesOfStates DEF EngineStatuses
<1> "legacy" \in Actors /\ "legacy" \in Engines /\ "records" \in Files /\ "graph" \in Files
  BY DEF Actors, Engines, Files
<1>1. CASE SetEngine("legacy", "legacy", "indexing", "mark", "markDoc", "page")
  BY <1>1, SetEngineMoves, EngineSteps
<1>2. CASE Branch("legacy", "page", IsCancelled("legacy"), "raise", "progress")
  BY <1>2
     DEF Branch, Goto, LegacyMoves, Alone, LegacyGraph, Running, RowsMove, Types, Actors, Engines,
              rows, stores, copies, worker, api
<1>3. CASE UpdateMeta("legacy", "progress", LAMBDA row : row, "saveRecords")
  <2>1. Updates("legacy", "progress", copy["legacy"], "saveRecords")
    BY <1>3 DEF UpdateMeta, Updates
  <2>2. copy["legacy"] # NoCopy => copy["legacy"] \in RoughRows /\ copy["legacy"].stored
    BY DEF Types
  <2> QED
    BY <2>1, <2>2, UpdateMoves, EngineSteps
<1>4. CASE SaveArtifact("legacy", "records", "saveRecords", "guard", "raise")
  BY <1>4, SaveArtifactMoves, EngineSteps
<1>5. CASE Publish
  <2>1. CASE Check("guard", "upsert", "raise")
    BY <2>1 DEF Check, Branch, Goto, LegacyMoves, Alone, LegacyGraph, Running, RowsMove, Types,
                Actors, Engines, rows, stores, copies, worker, api
  <2>2. CASE SetGraph("legacy", "upsert", TRUE, "guard2")
    BY <2>2 DEF SetGraph, Goto, LegacyMoves, Alone, LegacyGraph, Running, RowsMove, Types, Actors,
                Engines, rows, stores, copies, worker, api
  <2>3. CASE Check("guard2", "saveGraph", "undo")
    <3>1. /\ pc["legacy"] = "guard2" /\ UNCHANGED <<rows, stores, flag, copies, worker, api>>
          /\ \/ pc' = [pc EXCEPT !["legacy"] = "undo"]
             \/ pc' = [pc EXCEPT !["legacy"] = "saveGraph"] /\ ~IsCancelled("legacy")
      BY <2>3 DEF Check, Branch, WriteAllowed, Goto
    <3> QED
      BY <3>1 DEF LegacyMoves, Alone, LegacyGraph, Running, RowsMove, Types, Actors, rows, stores,
                  copies, worker, api
  <2> QED
    BY <1>5, <2>1, <2>2, <2>3 DEF Publish
<1>6. CASE SaveArtifact("legacy", "graph", "saveGraph", "guard3", "raise")
  BY <1>6, SaveArtifactMoves, EngineSteps
<1>7. CASE Check("guard3", "done", "undo") \/ Check("guard4", "return", "undoDone")
  BY <1>7
     DEF Check, Branch, Goto, LegacyMoves, Alone, LegacyGraph, Running, RowsMove, Types, Actors,
              Engines, rows, stores, copies, worker, api
<1>8. CASE SetEngine("legacy", "legacy", "done", "done", "doneDoc", "guard4")
  BY <1>8, SetEngineMoves, EngineSteps
<1>9. CASE \/ SetGraph("legacy", "undo", FALSE, "raise")
           \/ SetGraph("legacy", "undoDone", FALSE, "revoke")
  BY <1>9
     DEF SetGraph, Goto, LegacyMoves, Alone, LegacyGraph, Running, RowsMove, Types, Actors, Engines,
              rows, stores, copies, worker, api
<1>10. CASE SetEngine("legacy", "legacy", "cancelled", "revoke", "revokeDoc", "raise")
  BY <1>10, SetEngineMoves, EngineSteps
<1> QED
  BY <1>1, <1>2, <1>3, <1>4, <1>5, <1>6, <1>7, <1>8, <1>9, <1>10 DEF RunLegacy

(* An engine thread that ends holds no row any more. *)
LetsGo(e) == copy' = copy \/ copy' = [copy EXCEPT ![e] = NoCopy]

LEMMA LegacyEnds ==
    ASSUME Types,
           \/ Return("legacy") \/ Raise("legacy") \/ ChildFails("legacy")
           \/ pc["legacy"] = "progress" /\ End("legacy", "failed")
    PROVE  /\ LegacyMoves /\ LegacyGraph /\ pc'["legacy"] = "over"
           /\ \E how \in Names : outcome' = [outcome EXCEPT !["legacy"] = how]
<1> USE NamesOfStates DEF EngineStatuses, Terminal, Actors, Engines
<1>1. /\ pc["legacy"] \notin {"idle", "over"}
      /\ pc' = [pc EXCEPT !["legacy"] = "over"]
      /\ UNCHANGED <<flag, todo, request, requests, verdict, snap, meta>>
      /\ LetsGo("legacy")
  BY DEF Return, Raise, ChildFails, End, Goto, rows, stores, copies, api, LetsGo
<1>2. \E how \in Names : outcome' = [outcome EXCEPT !["legacy"] = how]
  BY DEF Return, Raise, ChildFails, End
<1>3. LegacyGraph
  <2>1. CASE ChildFails("legacy")
    <3>1. outcome'["legacy"] = "failed"
      BY <2>1 DEF ChildFails, Types
    <3>2. /\ graph' \in BOOLEAN
          /\ graph' => graph \/ pc["legacy"] = "upsert"
      BY <2>1 DEF ChildFails, Types
    <3> QED
      BY <3>1, <3>2 DEF LegacyGraph, FailsOnGraph
  <2>2. CASE ~ChildFails("legacy")
    <3>1. graph' = graph /\ pc["legacy"] \in {"return", "raise", "progress"}
      BY <2>2 DEF Return, Raise, End, stores
    <3> QED
      BY <3>1 DEF LegacyGraph, Types
  <2> QED
    BY <2>1, <2>2
<1>4. RowsMove
  BY <1>1 DEF LetsGo, RowsMove
<1> QED
  BY <1>1, <1>2, <1>3, <1>4 DEF LegacyMoves, Alone, Running, Types

-----------------------------------------------------------------------------
(* The LightRAG engine, and a deletion of its data. *)

LightMoves ==
    /\ Alone("lightrag")
    /\ UNCHANGED <<graph, flag, todo, request, requests, verdict, snap>>
    /\ outcome' \in [Engines -> Names] /\ outcome'["legacy"] = outcome["legacy"]
    /\ RowsMove

LEMMA LightSteps ==
    ASSUME Types,
           \/ RunLightrag \/ DeleteLight
           \/ Return("lightrag") \/ Raise("lightrag") \/ ChildFails("lightrag")
    PROVE  LightMoves
<1> USE NamesOfStates DEF EngineStatuses, Terminal
<1> "lightrag" \in Actors /\ "lightrag" \in Engines
  BY DEF Actors, Engines
<1>0. outcome \in [Engines -> Names]
  BY DEF Types
<1>1. ASSUME NEW s \in EngineStatuses, NEW from, NEW mid, NEW to,
             SetEngine("lightrag", "lightrag", s, from, mid, to)
      PROVE  LightMoves
  <2>1. (Moves("lightrag", from, mid) \/ Moves("lightrag", mid, to)) /\ Frame /\ RowsMove
    BY <1>1, SetEngineMoves
  <2> QED
    BY <1>0, <2>1 DEF Types, Moves, Alone, Frame, LightMoves, Actors
<1>2. CASE \/ SetEngine("lightrag", "lightrag", "indexing", "mark", "markDoc", "insert")
           \/ SetEngine("lightrag", "lightrag", "done", "done", "doneDoc", "return")
  BY <1>1, <1>2
<1>3. CASE \/ Branch("lightrag", "begin", IsCancelled("lightrag"), "raise", "mark")
           \/ InsertPages \/ RemovePages \/ DeleteLight
           \/ Branch("lightrag", "inserted", IsCancelled("lightrag"), "remove", "done")
  BY <1>0, <1>3
     DEF Branch, InsertPages, RemovePages, DeleteLight, Goto, Types, Alone, LightMoves, Actors,
         RowsMove, rows,
                    stores, copies, worker, api
<1>4. CASE Return("lightrag") \/ Raise("lightrag") \/ ChildFails("lightrag")
  <2>1. /\ pc' = [pc EXCEPT !["lightrag"] = "over"]
        /\ UNCHANGED <<flag, todo, request, requests, verdict, snap, meta>>
        /\ LetsGo("lightrag")
    BY <1>4 DEF Return, Raise, ChildFails, End, Goto, rows, stores, copies, api, LetsGo
  <2>3. graph' = graph
    BY <1>4 DEF Return, Raise, ChildFails, End, stores
  <2>2. \E how \in Names : outcome' = [outcome EXCEPT !["lightrag"] = how]
    BY <1>4 DEF Return, Raise, ChildFails, End
  <2>4. RowsMove
    BY <2>1 DEF LetsGo, RowsMove
  <2>5. Alone("lightrag")
    BY <2>1 DEF Types, Alone, Actors
  <2>6. outcome' \in [Engines -> Names] /\ outcome'["legacy"] = outcome["legacy"]
    <3>1. ASSUME NEW how \in Names, outcome' = [outcome EXCEPT !["lightrag"] = how]
          PROVE  outcome' \in [Engines -> Names] /\ outcome'["legacy"] = outcome["legacy"]
      BY <1>0, <3>1 DEF Engines
    <3> QED
      BY <2>2, <3>1
  <2> QED
    BY <2>1, <2>3, <2>4, <2>5, <2>6 DEF LightMoves
<1> QED
  BY <1>2, <1>3, <1>4 DEF RunLightrag

-----------------------------------------------------------------------------
(* The pipeline. *)

MainMoves ==
    /\ pc' = [b \in Actors |-> pc'[b]] /\ pc'["api"] = pc["api"]
    /\ pc["main"] \notin BeforeFork => pc'["main"] \notin BeforeFork
    /\ \/ pc'["legacy"] = pc["legacy"]
       \/ /\ pc["main"] = "fork" /\ pc'["main"] = "join"
          /\ pc'["legacy"] = "mark" /\ "legacy" \in todo'["main"]
    /\ Running => pc'["main"] \in Joining /\ "legacy" \in todo'["main"]
    /\ UNCHANGED <<graph, outcome, request, requests, snap>>
    /\ todo' \in [{"main", "api"} -> SUBSET Engines] /\ verdict' \in Names
    /\ flag' \in BOOLEAN
    /\ flag' # flag => pc["main"] \notin BeforeFork \cup Joining
    /\ RowsMove

LEMMA BranchMoves ==
    ASSUME NEW a \in Actors, NEW from, NEW test, NEW yes, NEW no, Branch(a, from, test, yes, no)
    PROVE  (Moves(a, from, yes) \/ Moves(a, from, no)) /\ Frame /\ RowsMove
BY DEF Branch, Goto, Moves, Frame, RowsMove, rows, stores, copies, worker, api

LEMMA MainIsPast ==
    ASSUME Control, pc["main"] \notin BeforeFork \cup Joining
    PROVE  ~Running /\ Fenced
BY DEF Control, Running, Fenced, LegacyOver

LEMMA MainSteps ==
    ASSUME Types, Control, NEW from, NEW to, Moves("main", from, to), Frame, RowsMove,
           ~Running \/ (from \in Joining /\ to \in Joining),
           from \in BeforeFork \/ to \notin BeforeFork
    PROVE  MainMoves
<1>1. /\ pc' = [b \in Actors |-> pc'[b]] /\ pc["main"] = from /\ pc'["main"] \in {from, to}
      /\ pc'["api"] = pc["api"] /\ pc'["legacy"] = pc["legacy"]
  BY DEF Types, Moves, Actors, Engines
<1>2. Running => pc'["main"] \in Joining /\ "legacy" \in todo'["main"]
  BY <1>1 DEF Control, Frame
<1>3. pc["main"] \notin BeforeFork => pc'["main"] \notin BeforeFork
  BY <1>1
<1> QED
  BY <1>1, <1>2, <1>3 DEF Types, Frame, MainMoves

LEMMA MainBefore ==
    ASSUME Types, Control, NEW from, NEW to, Moves("main", from, to), Frame, RowsMove,
           from \in BeforeFork
    PROVE  MainMoves
<1>1. ~Running
  BY DEF Control, Running, Moves
<1> QED
  BY <1>1, MainSteps

LEMMA MainAfter ==
    ASSUME Types, Control, NEW from, NEW to, Moves("main", from, to), Frame, RowsMove,
           from \notin BeforeFork \cup Joining, to \notin BeforeFork
    PROVE  MainMoves
<1>1. ~Running
  BY MainIsPast DEF Moves
<1> QED
  BY <1>1, MainSteps

(* An update of the status after the fork, where the engine is over. *)
LEMMA MainSettles ==
    ASSUME Types, Control, NEW s \in Names, NEW from, NEW to,
           Updates("main", from, SetStatus(copy["main"], s), to),
           from \notin BeforeFork \cup Joining, to \notin BeforeFork
    PROVE  MainMoves
<1>1. Fenced
  BY MainIsPast DEF Updates
<1>2. "main" \in Actors
  BY DEF Actors
<1>3. Moves("main", from, to) /\ Frame /\ RowsMove
  BY <1>1, <1>2, StatusMoves
<1> QED
  BY <1>3, MainAfter

LEMMA StartMoves == ASSUME Types, Control, Start \/ Open PROVE MainMoves
<1> "main" \in Actors
  BY DEF Actors
<1>1. ASSUME NEW from \in BeforeFork, NEW test, NEW yes, NEW no,
             Branch("main", from, test, yes, no)
      PROVE  MainMoves
  BY <1>1, BranchMoves, MainBefore
<1>2. CASE Start
  BY <1>1, <1>2 DEF Start, BeforeFork
<1>3. CASE Open
  BY <1>1, <1>3 DEF Open, BeforeFork
<1> QED
  BY <1>2, <1>3

LEMMA ParseMoves == ASSUME Types, Control, Parse \/ ParserFails PROVE MainMoves
<1> "main" \in Actors /\ "pages" \in Files
  BY DEF Actors, Files
<1> USE NamesOfStates
<1>1. ASSUME NEW from \in BeforeFork, NEW test, NEW yes, NEW no,
             Branch("main", from, test, yes, no)
      PROVE  MainMoves
  BY <1>1, BranchMoves, MainBefore
<1>2. CASE \/ Branch("main", "parse", IsCancelled("main"), "sayCancelled", "parsing")
           \/ Branch("main", "parsed", IsCancelled("main"), "sayCancelled", "savePages")
           \/ "legacy" \notin Targets /\ Branch("main", "indexingDoc", TRUE, "fork", "fork")
  BY <1>1, <1>2 DEF BeforeFork
<1>3. CASE UpdateMeta("main", "parsing", LAMBDA row : SetStatus(row, "parsing"), "parsed")
  <2>1. Updates("main", "parsing", SetStatus(copy["main"], "parsing"), "parsed")
    BY <1>3 DEF UpdateMeta, Updates
  <2> QED
    BY <2>1, StatusMoves, MainBefore DEF BeforeFork
<1>4. CASE UpdateMeta("main", "indexing", LAMBDA row : SetStatus(row, "indexing"), "indexingDoc")
  <2>1. Updates("main", "indexing", SetStatus(copy["main"], "indexing"), "indexingDoc")
    BY <1>4 DEF UpdateMeta, Updates
  <2> QED
    BY <2>1, StatusMoves, MainBefore DEF BeforeFork
<1>5. CASE SaveArtifact("main", "pages", "savePages", "indexing", "failing")
  BY <1>5, SaveArtifactMoves, MainBefore DEF BeforeFork
<1>6. CASE UpdateDoc("main", "indexingDoc", LAMBDA row : SetDoc(row, "legacy", "indexing"), "fork")
  <2>1. Moves("main", "indexingDoc", "fork") /\ Frame /\ RowsMove
    BY <1>6 DEF UpdateDoc, Moves, Frame, RowsMove, Goto, stores, worker, api
  <2> QED
    BY <2>1, MainBefore DEF BeforeFork
<1>7. CASE ParserFails
  <2>1. PICK from \in {"parse", "parsing", "parsed", "savePages", "indexing", "indexingDoc"} :
           pc["main"] = from
    BY <1>7 DEF ParserFails
  <2>2. Moves("main", from, "failing") /\ Frame /\ RowsMove
    BY <1>7, <2>1 DEF ParserFails, Goto, Moves, Frame, RowsMove, rows, stores, worker, api
  <2> QED
    BY <2>2, MainBefore DEF BeforeFork
<1> QED
  BY <1>2, <1>3, <1>4, <1>5, <1>6, <1>7 DEF Parse

LEMMA ForkMoves == ASSUME Types, Control, Fork PROVE MainMoves
<1>1. pc["main"] = "fork" /\ ~Running
  BY DEF Fork, Control, BeforeFork, Running
<1>2. pc' = [b \in Actors |-> pc'[b]] /\ pc'["api"] = pc["api"] /\ pc'["main"] = "join"
  BY TargetsAreEngines DEF Types, Fork, Actors, Engines
<1>3. pc'["legacy"] = IF "legacy" \in Targets THEN "mark" ELSE pc["legacy"]
  BY DEF Fork, Actors, Engines
<1>4. todo' = [todo EXCEPT !["main"] = Targets]
  BY DEF Fork
<1> QED
  BY <1>1, <1>2, <1>3, <1>4, TargetsAreEngines
     DEF Types, Fork, MainMoves, RowsMove, BeforeFork, rows, stores, copies, api

(* The pipeline turns to the next of its engines. *)
LEMMA VisitMoves ==
    ASSUME Types, Control, NEW e \in Engines, NEW to, Visit("main", e, to),
           pc["main"] \notin BeforeFork, to \notin BeforeFork,
           ~Running \/ (e # "legacy" /\ to \in Joining)
    PROVE  MainMoves
<1>1. /\ pc' = [b \in Actors |-> pc'[b]] /\ pc'["main"] = to
      /\ pc'["api"] = pc["api"] /\ pc'["legacy"] = pc["legacy"]
  BY DEF Types, Visit, Goto, Actors, Engines
<1>2. /\ todo' \in [{"main", "api"} -> SUBSET Engines]
      /\ todo'["main"] = todo["main"] \ {e}
  BY DEF Types, Visit
<1>3. Running => pc'["main"] \in Joining /\ "legacy" \in todo'["main"]
  BY <1>1, <1>2 DEF Control
<1> QED
  BY <1>1, <1>2, <1>3 DEF Types, Visit, MainMoves, RowsMove, rows, stores, copies, api

LEMMA JoinMoves == ASSUME Types, Control, NEW e \in Targets, Join(e) PROVE MainMoves
<1> e \in Engines /\ "main" \in Actors
  BY TargetsAreEngines DEF Types, Actors
<1>1. /\ Report[e] \notin BeforeFork /\ ReportDoc[e] \notin BeforeFork
      /\ IF e = "legacy" THEN Report[e] \notin Joining /\ ReportDoc[e] \notin Joining
                         ELSE Report[e] \in Joining /\ ReportDoc[e] \in Joining
  BY DEF Engines, Report, ReportDoc, BeforeFork, Joining
<1>2. CASE /\ pc["main"] = "join" /\ outcome[e] # "running"
           /\ Visit("main", e, IF outcome[e] = "done" THEN "join" ELSE Report[e])
  <2>1. Running => e # "legacy"
    BY <1>2 DEF Control, Running
  <2> QED
    BY <1>1, <1>2, <2>1, VisitMoves DEF BeforeFork, Joining
<1>3. CASE SetEngine("main", e, outcome[e], Report[e], ReportDoc[e], "join")
  <2>1. outcome[e] \in Names
    BY DEF Types
  <2>2. /\ Moves("main", Report[e], ReportDoc[e]) \/ Moves("main", ReportDoc[e], "join")
        /\ Frame /\ RowsMove
    BY <1>3, <2>1, SetEngineMoves
  <2>3. CASE e = "legacy"
    BY <1>1, <2>2, <2>3, MainAfter DEF BeforeFork
  <2>4. CASE e # "legacy"
    BY <1>1, <2>2, <2>4, MainSteps DEF BeforeFork, Joining
  <2> QED
    BY <2>3, <2>4
<1> QED
  BY <1>2, <1>3 DEF Join

LEMMA JoinedMoves == ASSUME Types, Control, Joined PROVE MainMoves
<1>1. ~Running
  BY DEF Joined, Control
<1>2. /\ Moves("main", "join", "sayCancelled") \/ Moves("main", "join", "tally")
      /\ Frame /\ RowsMove
  BY BranchMoves DEF Joined, Actors
<1> QED
  BY <1>1, <1>2, MainSteps DEF BeforeFork

LEMMA TallyMoves == ASSUME Types, Control, Tally PROVE MainMoves
<1>1. ~Running
  BY MainIsPast DEF Tally, BeforeFork, Joining
<1>2. /\ pc' = [b \in Actors |-> pc'[b]] /\ pc'["main"] = "settle"
      /\ pc'["api"] = pc["api"] /\ pc'["legacy"] = pc["legacy"]
  BY DEF Types, Tally, Goto, Actors, Engines
<1>3. verdict' \in Names
  BY NamesOfStates DEF Tally, Verdict, Terminal
<1> QED
  BY <1>1, <1>2, <1>3 DEF Types, Tally, MainMoves, RowsMove, BeforeFork, rows, stores, copies, api

LEMMA SettleMoves ==
    ASSUME Types, Control, Settle \/ Failing \/ FailDocument PROVE MainMoves
<1> "main" \in Actors
  BY DEF Actors
<1> USE NamesOfStates DEF Terminal
<1>1. CASE UpdateMeta("main", "settle", LAMBDA row : SetStatus(row, verdict), "finally")
  <2>1. Updates("main", "settle", SetStatus(copy["main"], verdict), "finally")
    BY <1>1 DEF UpdateMeta, Updates
  <2>2. verdict \in Names
    BY DEF Types
  <2> QED
    BY <2>1, <2>2, MainSettles DEF BeforeFork, Joining
<1>2. CASE UpdateMeta("main", "sayCancelled", LAMBDA row : SetStatus(row, "cancelled"), "finally")
  <2>1. Updates("main", "sayCancelled", SetStatus(copy["main"], "cancelled"), "finally")
    BY <1>2 DEF UpdateMeta, Updates
  <2> QED
    BY <2>1, MainSettles DEF BeforeFork, Joining
<1>3. CASE UpdateMeta("main", "noDocument", LAMBDA row : SetStatus(row, "failed"), "over")
  <2>1. Updates("main", "noDocument", SetStatus(copy["main"], "failed"), "over")
    BY <1>3 DEF UpdateMeta, Updates
  <2> QED
    BY <2>1, MainSettles DEF BeforeFork, Joining
<1>4. CASE UpdateMeta("main", "stopped", LAMBDA row : SetStatus(row, "cancelled"), "over")
  <2>1. Updates("main", "stopped", SetStatus(copy["main"], "cancelled"), "over")
    BY <1>4 DEF UpdateMeta, Updates
  <2> QED
    BY <2>1, MainSettles DEF BeforeFork, Joining
<1>5. CASE Failing
  <2>1. Updates("main", "failing", SetStatus(copy["main"], "failed"), "failEngines")
    BY <1>5 DEF Failing, UpdateMeta, Updates
  <2> QED
    BY <2>1, MainSettles DEF BeforeFork, Joining
<1>6. CASE Branch("main", "failEngines", TRUE, "failStatus", "failStatus")
  <2>1. Moves("main", "failEngines", "failStatus") /\ Frame /\ RowsMove
    BY <1>6, BranchMoves
  <2> QED
    BY <2>1, MainAfter DEF BeforeFork, Joining
<1>7. CASE UpdateDoc("main", "failStatus", LAMBDA row : SetStatus(row, "failed"), "finally")
  <2>1. Moves("main", "failStatus", "finally") /\ Frame /\ RowsMove
    BY <1>7 DEF UpdateDoc, Moves, Frame, RowsMove, Goto, stores, worker, api
  <2> QED
    BY <2>1, MainAfter DEF BeforeFork, Joining
<1> QED
  BY <1>1, <1>2, <1>3, <1>4, <1>5, <1>6, <1>7 DEF Settle, FailDocument

LEMMA FailEngineMoves == ASSUME Types, Control, NEW e \in Targets, FailEngine(e) PROVE MainMoves
<1> e \in Engines /\ "main" \in Actors
  BY TargetsAreEngines DEF Types, Actors
<1>1. {Fail[e], FailDoc[e]} \cap (BeforeFork \cup Joining) = {}
  BY DEF Engines, Fail, FailDoc, BeforeFork, Joining
<1>2. CASE /\ pc["main"] = "failEngines"
           /\ Visit("main", e, IF meta.stored /\ meta[e] = "done" THEN "failEngines" ELSE Fail[e])
  <2>1. ~Running
    BY <1>2, MainIsPast DEF BeforeFork, Joining
  <2> QED
    BY <1>1, <1>2, <2>1, VisitMoves DEF BeforeFork
<1>3. CASE SetEngine("main", e, "failed", Fail[e], FailDoc[e], "failEngines")
  <2>1. "failed" \in Names
    BY NamesOfStates DEF Terminal
  <2>2. /\ Moves("main", Fail[e], FailDoc[e]) \/ Moves("main", FailDoc[e], "failEngines")
        /\ Frame /\ RowsMove
    BY <1>3, <2>1, SetEngineMoves
  <2> QED
    BY <1>1, <2>2, MainAfter DEF BeforeFork
<1> QED
  BY <1>2, <1>3 DEF FailEngine

LEMMA MissingMoves ==
    ASSUME Types, Control, RowIsMissing, ~(pc["legacy"] = "progress" /\ End("legacy", "failed"))
    PROVE  MainMoves
<1>1. /\ pc["main"] \in {"parsing", "indexing", "settle", "sayCancelled", "failing", "noDocument",
                         "stopped", "reusing", "retryFailed", "retryDone"}
      /\ \E to \in {"failing", "finally", "over"} : pc' = [pc EXCEPT !["main"] = to]
      /\ todo' = [todo EXCEPT !["main"] = Targets]
      /\ UNCHANGED <<rows, stores, flag, copies, outcome, verdict, api>>
  BY DEF RowIsMissing, Goto
<1>2. /\ pc' = [b \in Actors |-> pc'[b]] /\ pc'["main"] \in {"failing", "finally", "over"}
      /\ pc'["api"] = pc["api"] /\ pc'["legacy"] = pc["legacy"]
  BY <1>1 DEF Types, Actors, Engines
<1>3. ~Running
  BY <1>1 DEF Control, Joining
<1>4. todo' \in [{"main", "api"} -> SUBSET Engines]
  BY <1>1, TargetsAreEngines DEF Types
<1> QED
  BY <1>1, <1>2, <1>3, <1>4 DEF Types, MainMoves, RowsMove, BeforeFork, rows, stores, copies, api

LEMMA RetryMoves == ASSUME Types, Control, Retry PROVE MainMoves
<1> "main" \in Actors /\ "lightrag" \in Engines /\ "pages" \in Files
  BY DEF Actors, Engines, Files
<1> USE NamesOfStates DEF Terminal
<1>1. CASE SaveArtifact("main", "pages", "reuse", "reusing", "over")
  BY <1>1, SaveArtifactMoves, MainAfter DEF BeforeFork, Joining
<1>2. CASE UpdateMeta("main", "reusing", LAMBDA row : SetStatus(row, "indexing"), "retry")
  <2>1. Updates("main", "reusing", SetStatus(copy["main"], "indexing"), "retry")
    BY <1>2 DEF UpdateMeta, Updates
  <2> QED
    BY <2>1, MainSettles DEF BeforeFork, Joining
<1>3. CASE RetryStarts
  <2>1. ~Running
    BY <1>3, MainIsPast DEF RetryStarts, BeforeFork, Joining
  <2>2. /\ pc' = [b \in Actors |-> pc'[b]] /\ pc'["main"] = "retrying"
        /\ pc'["api"] = pc["api"] /\ pc'["legacy"] = pc["legacy"]
    BY <1>3 DEF Types, RetryStarts, Actors, Engines
  <2> QED
    BY <1>3, <2>1, <2>2 DEF Types, RetryStarts, MainMoves, RowsMove, BeforeFork, rows, stores,
                            copies, worker, api
<1>4. CASE outcome["lightrag"] \in {"cancelled", "failed"}
           /\ SetEngine("main", "lightrag", outcome["lightrag"], "retrying", "retryingDoc", "retryEnds")
  <2>1. outcome["lightrag"] \in Names
    BY DEF Types
  <2>2. /\ Moves("main", "retrying", "retryingDoc") \/ Moves("main", "retryingDoc", "retryEnds")
        /\ Frame /\ RowsMove
    BY <1>4, <2>1, SetEngineMoves
  <2> QED
    BY <2>2, MainAfter DEF BeforeFork, Joining
<1>5. CASE \/ Branch("main", "retrying", TRUE, "retried", "retried")
           \/ Branch("main", "retryEnds", outcome["lightrag"] = "failed", "retryFailed", "stopped")
           \/ Branch("main", "retried", IsCancelled("main"), "stopped", "retryDone")
  <2>1. /\ \/ Moves("main", "retrying", "retried")
           \/ Moves("main", "retryEnds", "retryFailed") \/ Moves("main", "retryEnds", "stopped")
           \/ Moves("main", "retried", "stopped") \/ Moves("main", "retried", "retryDone")
        /\ Frame /\ RowsMove
    BY <1>5, BranchMoves
  <2> QED
    BY <2>1, MainAfter DEF BeforeFork, Joining
<1>6. CASE UpdateMeta("main", "retryFailed", LAMBDA row : SetStatus(row, "failed"), "over")
  <2>1. Updates("main", "retryFailed", SetStatus(copy["main"], "failed"), "over")
    BY <1>6 DEF UpdateMeta, Updates
  <2> QED
    BY <2>1, MainSettles DEF BeforeFork, Joining
<1>7. CASE UpdateMeta("main", "retryDone", LAMBDA row : SetStatus(row, "done"), "over")
  <2>1. Updates("main", "retryDone", SetStatus(copy["main"], "done"), "over")
    BY <1>7 DEF UpdateMeta, Updates
  <2> QED
    BY <2>1, MainSettles DEF BeforeFork, Joining
<1> QED
  BY <1>1, <1>2, <1>3, <1>4, <1>5, <1>6, <1>7 DEF Retry

LEMMA FinallyMoves == ASSUME Types, Control, Finally PROVE MainMoves
<1>1. ~Running
  BY MainIsPast DEF Finally, BeforeFork, Joining
<1>2. /\ pc' = [b \in Actors |-> pc'[b]] /\ pc'["main"] = "over"
      /\ pc'["api"] = pc["api"] /\ pc'["legacy"] = pc["legacy"]
  BY DEF Types, Finally, Goto, Actors, Engines
<1> QED
  BY <1>1, <1>2 DEF Types, Finally, MainMoves, RowsMove, BeforeFork, Joining, rows, stores, copies,
                    worker, api

LEMMA PipelineMoves ==
    ASSUME Types, Control, Pipeline \/ ParserFails,
           ~(pc["legacy"] = "progress" /\ End("legacy", "failed"))
    PROVE  MainMoves
BY StartMoves, ParseMoves, ForkMoves, JoinMoves, JoinedMoves, TallyMoves, SettleMoves,
   FailEngineMoves, MissingMoves, RetryMoves, FinallyMoves DEF Pipeline

-----------------------------------------------------------------------------
(* The API thread.  Where its step enters the clearing of a document, the
   fence stands. *)

ApiMoves ==
    /\ Alone("api")
    /\ UNCHANGED <<outcome, verdict>> /\ todo'["main"] = todo["main"]
    /\ todo' \in [{"main", "api"} -> SUBSET Engines]
    /\ snap' \in RoughRows /\ requests' \in [cancel : Nat, delete : Nat]
    /\ graph' \in BOOLEAN /\ (graph' => graph)
    /\ flag' \in BOOLEAN /\ (flag => flag')
    /\ RowsMove
    /\ ~Distributed /\ pc'["api"] = "cancelRow" => Fenced \/ flag'
    /\ pc'["api"] \in Clearing => Fenced \/ Fenced'
    /\ Finished' => Finished \/ pc["api"] = "row"
    /\ pc'["api"] \in {"jobs", "drop", "row"} => pc["api"] \in {"jobs", "drop", "row"} \/ ~graph'


LEMMA ApiStepFacts ==
    ASSUME Types, NEW from, NEW to, ApiStep(from, to)
    PROVE  /\ Alone("api") /\ pc["api"] = from /\ pc'["api"] = to
           /\ UNCHANGED <<copy, outcome, verdict>>
BY DEF Types, ApiStep, Goto, Alone, Actors, copies

LEMMA ApiWrites ==
    ASSUME Types, ApiFenced, NEW from, NEW to, Moves("api", from, to), Frame, RowsMove,
           from \in Clearing, to \in Clearing \ {"jobs", "drop", "row"}
    PROVE  ApiMoves
<1>1. /\ Alone("api") /\ pc["api"] = from /\ pc'["api"] \in {from, to}
  BY DEF Types, Moves, Alone, Actors
<1>2. Fenced
  BY <1>1 DEF ApiFenced
<1>3. pc'["api"] \in {"jobs", "drop", "row"} => pc["api"] \in {"jobs", "drop", "row"}
  BY <1>1
<1>4. Finished' => Finished \/ pc["api"] = "row"
  BY <1>1 DEF Finished, Clearing, Frame
<1> QED
  BY <1>1, <1>2, <1>3, <1>4 DEF Types, Frame, ApiMoves

LEMMA RequestMoves ==
    ASSUME Types, Request("cancel") \/ Request("delete") PROVE ApiMoves
<1>1. CASE Request("cancel")
  <2>1. /\ Alone("api") /\ pc["api"] = "idle" /\ pc'["api"] = "cancel"
        /\ UNCHANGED <<copy, outcome, verdict>>
    BY <1>1, ApiStepFacts DEF Request
  <2>2. /\ requests' \in [cancel : Nat, delete : Nat] /\ requests'.delete = requests.delete
        /\ request' = "cancel"
    BY <1>1 DEF Request, Types
  <2>3. Finished' => Finished
    BY <2>1, <2>2 DEF Finished
  <2> QED
    BY <1>1, <2>1, <2>2, <2>3 DEF Types, Request, ApiMoves, RowsMove, Clearing, rows, stores
<1>2. CASE Request("delete")
  <2>1. /\ Alone("api") /\ pc["api"] = "idle" /\ pc'["api"] = "list"
        /\ UNCHANGED <<copy, outcome, verdict>>
    BY <1>2, ApiStepFacts DEF Request
  <2>2. /\ requests' \in [cancel : Nat, delete : Nat] /\ requests'.delete = requests.delete + 1
        /\ request' = "delete" /\ requests.delete \in Nat
    BY <1>2 DEF Request, Types
  <2>3. Finished' => Finished
    BY <2>1, <2>2 DEF Finished
  <2> QED
    BY <1>2, <2>1, <2>2, <2>3 DEF Types, Request, ApiMoves, RowsMove, Clearing, rows, stores
<1> QED
  BY <1>1, <1>2

LEMMA ListMoves == ASSUME Types, RowsFenced, List PROVE ApiMoves
<1>1. /\ Alone("api") /\ pc["api"] = "list"
      /\ pc'["api"] = IF Active(meta) THEN "cancel" ELSE "schedule"
      /\ UNCHANGED <<copy, outcome, verdict>>
  BY ApiStepFacts DEF List
<1>2. pc'["api"] \in Clearing => Fenced
  BY <1>1 DEF RowsFenced, Clearing
<1>3. request' # "cancel" /\ requests' = requests /\ requests.delete \in Nat
  BY DEF List, Types
<1>4. Finished' => Finished
  BY <1>1, <1>3 DEF Finished
<1> QED
  BY <1>1, <1>2, <1>3, <1>4 DEF Types, List, ApiMoves, RowsMove, rows, stores

LEMMA ReadJobMoves == ASSUME Types, RowsFenced, ReadJob PROVE ApiMoves
<1>1. /\ Alone("api") /\ pc["api"] = "cancel"
      /\ pc'["api"] = IF ~Whole THEN IF request = "cancel" THEN "idle" ELSE "schedule"
                      ELSE IF meta.status \in Terminal THEN Ended(request) ELSE "flag"
      /\ UNCHANGED <<copy, outcome, verdict>>
  BY ApiStepFacts DEF ReadJob
<1>2. pc'["api"] \in {"idle", "schedule", "detach", "flag"}
      /\ (pc'["api"] = "idle" => request = "cancel")
  BY <1>1 DEF Ended
<1>3. pc'["api"] \in Clearing => Fenced
  <2>1. CASE ~Whole \/ meta.status \in Terminal
    BY <2>1 DEF RowsFenced, Whole, Active
  <2>2. CASE Whole /\ meta.status \notin Terminal
    BY <1>1, <2>2 DEF Clearing
  <2> QED
    BY <2>1, <2>2
<1>4. requests' = requests /\ requests.delete \in Nat /\ (request' = "cancel" <=> request = "cancel")
  BY DEF ReadJob, Types
<1>5. Finished' => Finished
  BY <1>1, <1>2, <1>4 DEF Finished
<1> QED
  BY <1>1, <1>2, <1>3, <1>4, <1>5 DEF Types, ReadJob, ApiMoves, RowsMove, rows, stores

LEMMA FlagMoves == ASSUME Types, Flag PROVE ApiMoves
<1>1. /\ Alone("api") /\ pc["api"] = "flag" /\ pc'["api"] = "cancelRow"
      /\ UNCHANGED <<copy, outcome, verdict>>
  BY ApiStepFacts DEF Flag
<1>2. /\ todo' \in [{"main", "api"} -> SUBSET Engines] /\ todo'["main"] = todo["main"]
  BY TargetsAreEngines DEF Flag, Types
<1>3. Finished' => Finished
  BY <1>1 DEF Finished, Flag, api
<1> QED
  BY <1>1, <1>2, <1>3 DEF Types, Flag, ApiMoves, RowsMove, Clearing, rows, stores, api

LEMMA CancelRowMoves ==
    ASSUME Types, ApiFenced, CancelRow, UNCHANGED scenario PROVE ApiMoves
<1> "api" \in Actors
  BY DEF Actors
<1> USE NamesOfStates DEF Terminal
<1>1. Updates("api", "cancelRow", SetStatus(copy["api"], "cancelled"), "visit")
  BY DEF CancelRow, UpdateMeta, Updates
<1>2. pc'["api"] = "visit" => Fenced \/ Fenced'
  <2>1. CASE ~Distributed
    BY <1>1, <2>1 DEF Updates, ApiFenced
  <2>2. CASE Distributed /\ Save("api", SetStatus(copy["api"], "cancelled"), "visit")
    <3>1. copy["api"] \in RoughRows
      BY <2>2 DEF Save, Types
    <3>2. meta'.status = "cancelled"
      BY <2>2, <3>1, StatusOfRow DEF Save
    <3>3. Told'
      BY <2>2, <3>2 DEF Told, Distributed
    <3> QED
      BY <3>3 DEF Fenced
  <2>3. CASE Load("api", meta)
    BY <1>1, <2>3 DEF Load, Updates
  <2> QED
    BY <1>1, <2>1, <2>2, <2>3 DEF Updates
<1>3. Moves("api", "cancelRow", "visit") /\ Frame /\ RowsMove
  <2>1. CASE Whole /\ Load("api", meta)
    <3>1. Load("api", IF meta.stored THEN meta ELSE Blank)
      BY <2>1 DEF Whole
    <3> QED
      BY <1>1, <3>1, LoadMoves DEF Updates, Moves, Frame, stores, worker, api
  <2>2. CASE Save("api", SetStatus(copy["api"], "cancelled"), "visit")
    <3>1. pc'["api"] = "visit"
      BY <2>2 DEF Save, Goto, Types
    <3> QED
      BY <1>1, <1>2, <3>1, StatusMoves
  <2> QED
    BY <1>1, <2>1, <2>2 DEF Updates
<1>4. Alone("api") /\ pc["api"] = "cancelRow" /\ pc'["api"] \in {"cancelRow", "visit"}
  BY <1>3 DEF Types, Moves, Alone
<1>5. ~Distributed => Fenced
  BY <1>4 DEF ApiFenced
<1>6. Finished' => Finished
  BY <1>3, <1>4 DEF Finished, Frame
<1> QED
  BY <1>2, <1>3, <1>4, <1>5, <1>6 DEF Types, Frame, ApiMoves, Clearing

LEMMA CancelEngineMoves ==
    ASSUME Types, ApiFenced, NEW e \in Engines, CancelEngine(e) PROVE ApiMoves
<1>1. Void[e] \in Clearing \ {"jobs", "drop", "row"} /\ VoidDoc[e] \in Clearing \ {"jobs", "drop", "row"}
  BY DEF Engines, Void, VoidDoc, Clearing
<1>2. CASE SetEngine("api", e, "cancelled", Void[e], VoidDoc[e], "visit")
  <2>1. "cancelled" \in Names /\ "api" \in Actors
    BY NamesOfStates DEF Terminal, Actors
  <2>2. /\ Moves("api", Void[e], VoidDoc[e]) \/ Moves("api", VoidDoc[e], "visit")
        /\ Frame /\ RowsMove
    BY <1>2, <2>1, SetEngineMoves
  <2> QED
    BY <1>1, <2>2, ApiWrites DEF Clearing
<1>3. CASE ~SetEngine("api", e, "cancelled", Void[e], VoidDoc[e], "visit")
  <2>1. /\ Alone("api") /\ pc["api"] = "visit" /\ pc'["api"] \in {"visit", Void[e]}
        /\ UNCHANGED <<copy, outcome, verdict>>
    BY <1>3, ApiStepFacts DEF CancelEngine
  <2>2. Fenced
    BY <2>1 DEF ApiFenced, Clearing
  <2>3. /\ todo' \in [{"main", "api"} -> SUBSET Engines] /\ todo'["main"] = todo["main"]
    BY <1>3 DEF CancelEngine, Types
  <2>4. graph' \in BOOLEAN /\ (graph' => graph)
    BY <1>3 DEF CancelEngine, Types
  <2>5. UNCHANGED <<meta, flag, snap, request, requests>>
    BY <1>3 DEF CancelEngine, rows, api
  <2>6. pc'["api"] # "idle" /\ pc'["api"] \notin {"cancelRow", "jobs", "drop", "row"}
    BY <1>1, <2>1 DEF Clearing
  <2>7. Finished' => Finished
    BY <2>1, <2>5, <2>6 DEF Finished
  <2> QED
    BY <2>1, <2>2, <2>3, <2>4, <2>5, <2>6, <2>7 DEF Types, ApiMoves, RowsMove
<1> QED
  BY <1>2, <1>3

LEMMA VisitedMoves == ASSUME Types, ApiFenced, Visited PROVE ApiMoves
<1>1. /\ Alone("api") /\ pc["api"] = "visit" /\ pc'["api"] = Ended(request)
      /\ UNCHANGED <<copy, outcome, verdict>>
  BY ApiStepFacts DEF Visited
<1>2. pc'["api"] \in {"idle", "detach"} /\ (pc'["api"] = "idle" => request = "cancel")
  BY <1>1 DEF Ended
<1>3. Fenced
  BY <1>1 DEF ApiFenced, Clearing
<1>4. UNCHANGED <<meta, graph, flag, todo, snap, request, requests>>
  BY DEF Visited, rows, stores, api
<1>5. Finished' => Finished
  BY <1>1, <1>2, <1>4 DEF Finished
<1> QED
  BY <1>1, <1>2, <1>3, <1>4, <1>5 DEF Types, ApiMoves, RowsMove

LEMMA DetachMoves == ASSUME Types, ApiFenced, Detach PROVE ApiMoves
<1> DEFINE row == [copy["api"] EXCEPT !.status = "cancelled", !.detached = TRUE]
<1>1. Updates("api", "detach", row, "purge")
  BY DEF Detach, UpdateMeta, Updates
<1>2. copy["api"] # NoCopy => row \in RoughRows /\ row.stored
  <2> SUFFICES ASSUME copy["api"] # NoCopy PROVE row \in RoughRows /\ row.stored
    OBVIOUS
  <2>1. copy["api"] \in RoughRows /\ copy["api"].stored
    BY DEF Types, Actors
  <2> QED
    BY <2>1, NamesOfStates DEF RoughRows, Terminal
<1> HIDE DEF row
<1>3. Fenced
  BY <1>1 DEF Updates, ApiFenced, Clearing
<1>4. Moves("api", "detach", "purge") /\ Frame /\ RowsMove
  BY <1>1, <1>2, <1>3, UpdateMoves DEF Actors
<1> QED
  BY <1>4, ApiWrites DEF Clearing

(* The steps of a deletion that rewrite the row of the job. *)
LEMMA PurgeMoves == ASSUME Types, ApiFenced, Purge PROVE ApiMoves
<1>1. /\ Alone("api") /\ pc["api"] \in {"purge", "tombstone"} /\ pc'["api"] \in {"tombstone", "schedule"}
      /\ UNCHANGED <<copy, outcome, verdict>>
  BY ApiStepFacts DEF Purge
<1>2. Fenced
  BY <1>1 DEF ApiFenced, Clearing
<1>3. UNCHANGED <<graph, flag, todo, request, requests>> /\ snap' \in RoughRows
  BY DEF Purge, Types, rows, stores, api
<1>4. RowsMove
  <2>1. meta' = meta \/ meta' = [Blank EXCEPT !.status = "cancelled", !.detached = snap.detached]
    BY DEF Purge, rows
  <2>2. snap.detached \in BOOLEAN
    BY DEF Types, RoughRows
  <2> QED
    BY <1>1, <1>2, <2>1, <2>2, BlankFacts DEF RowsMove
<1>5. Finished' => Finished
  BY <1>1, <1>3 DEF Finished
<1> QED
  BY <1>1, <1>2, <1>3, <1>4, <1>5 DEF Types, ApiMoves

LEMMA DropJobMoves == ASSUME Types, ApiFenced, DropJob PROVE ApiMoves
<1>1. /\ Alone("api") /\ pc["api"] \in {"jobs", "drop"} /\ pc'["api"] \in {"drop", "row"}
      /\ UNCHANGED <<copy, outcome, verdict>>
  BY ApiStepFacts DEF DropJob
<1>2. Fenced
  BY <1>1 DEF ApiFenced, Clearing
<1>3. UNCHANGED <<graph, flag, todo, request, requests>> /\ snap' \in RoughRows
  BY DEF DropJob, Types, rows, stores, api
<1>4. RowsMove
  <2>1. meta' = meta \/ meta' = NoRow
    BY DEF DropJob, rows
  <2> QED
    BY <1>1, <1>2, <2>1, BlankFacts DEF RowsMove
<1>5. Finished' => Finished
  BY <1>1, <1>3 DEF Finished
<1> QED
  BY <1>1, <1>2, <1>3, <1>4, <1>5 DEF Types, ApiMoves

LEMMA ClearMoves ==
    ASSUME Types, ApiFenced, ScheduleDelete \/ Unpublish \/ DeleteRow PROVE ApiMoves
<1>1. CASE ScheduleDelete
  <2>1. /\ Alone("api") /\ pc["api"] = "schedule" /\ pc'["api"] = "unpublish"
        /\ UNCHANGED <<copy, outcome, verdict>>
    BY <1>1, ApiStepFacts DEF ScheduleDelete
  <2>2. Fenced
    BY <2>1 DEF ApiFenced, Clearing
  <2>3. UNCHANGED <<meta, graph, flag, todo, snap, request, requests>>
    BY <1>1 DEF ScheduleDelete, rows, stores, api
  <2>4. Finished' => Finished
    BY <2>1, <2>3 DEF Finished
  <2> QED
    BY <2>1, <2>2, <2>3, <2>4 DEF Types, ApiMoves, RowsMove
<1>2. CASE Unpublish
  <2>1. /\ Alone("api") /\ pc["api"] = "unpublish" /\ pc'["api"] \in {"jobs", "row"}
    BY <1>2 DEF Unpublish, SetGraph, Goto, Types, Alone, Actors
  <2>2. Fenced
    BY <2>1 DEF ApiFenced, Clearing
  <2>3. /\ UNCHANGED <<copy, outcome, verdict, meta, flag, todo, snap, request, requests>>
        /\ graph' = FALSE
    BY <1>2 DEF Unpublish, SetGraph, rows, copies, worker, api
  <2>4. Finished' => Finished
    BY <2>1, <2>3 DEF Finished
  <2> QED
    BY <2>1, <2>2, <2>3, <2>4 DEF Types, ApiMoves, RowsMove
<1>3. CASE DeleteRow
  <2>1. /\ Alone("api") /\ pc["api"] = "row" /\ pc'["api"] = "idle"
        /\ UNCHANGED <<copy, outcome, verdict>>
    BY <1>3, ApiStepFacts DEF DeleteRow
  <2>2. UNCHANGED <<meta, graph, flag, todo, snap, request, requests>>
    BY <1>3 DEF DeleteRow, stores, api
  <2> QED
    BY <2>1, <2>2 DEF Types, ApiMoves, RowsMove, Clearing
<1> QED
  BY <1>1, <1>2, <1>3

LEMMA ApiThreadMoves ==
    ASSUME Types, RowsFenced, ApiFenced, Api, UNCHANGED scenario PROVE ApiMoves
BY RequestMoves, ListMoves, ReadJobMoves, FlagMoves, CancelRowMoves, CancelEngineMoves,
   VisitedMoves, DetachMoves, PurgeMoves, DropJobMoves, ClearMoves DEF Api

-----------------------------------------------------------------------------
(* Every step is one of four kinds, and each of them keeps the invariant. *)

LegacyStep ==
    /\ LegacyMoves /\ LegacyGraph
    /\ \/ outcome' = outcome
       \/ /\ pc'["legacy"] = "over"
          /\ \E how \in Names : outcome' = [outcome EXCEPT !["legacy"] = how]

LEMMA StepKinds ==
    ASSUME FenceInv, Next, UNCHANGED scenario
    PROVE  MainMoves \/ LegacyStep \/ LightMoves \/ ApiMoves
<1> Types /\ Control /\ RowsFenced /\ ApiFenced
  BY DEF FenceInv
<1>1. CASE RunLegacy
  BY <1>1, LegacySteps DEF LegacyStep
<1>2. CASE \/ Return("legacy") \/ Raise("legacy") \/ ChildFails("legacy")
           \/ pc["legacy"] = "progress" /\ End("legacy", "failed")
  BY <1>2, LegacyEnds DEF LegacyStep
<1>3. CASE \/ RunLightrag \/ DeleteLight
           \/ Return("lightrag") \/ Raise("lightrag") \/ ChildFails("lightrag")
  BY <1>3, LightSteps
<1>4. CASE (Pipeline \/ ParserFails) /\ ~(pc["legacy"] = "progress" /\ End("legacy", "failed"))
  BY <1>4, PipelineMoves
<1>5. CASE Api
  BY <1>5, ApiThreadMoves
<1> QED
  BY <1>1, <1>2, <1>3, <1>4, <1>5 DEF Next, Child, Engines

Kinds == MainMoves \/ LegacyStep \/ LightMoves \/ ApiMoves
Remembers ==
    /\ overwritten' = (overwritten \/ (meta.status = "cancelled" /\ meta'.status # "cancelled"))
    /\ abandoned' = (abandoned \/ (FailsOnGraph /\ ~WriteAllowed("legacy")))
    /\ UNCHANGED scenario

(* No step takes the fence down. *)
LEMMA FenceStands == ASSUME FenceInv, Kinds, Remembers PROVE Fenced => Fenced'
<1>1. LegacyOver => LegacyOver'
  <2>1. CASE MainMoves
    BY <2>1 DEF MainMoves, LegacyOver, FenceInv, Control, BeforeFork
  <2>2. CASE LegacyStep
    BY <2>2 DEF LegacyStep, LegacyMoves, Running, LegacyOver
  <2>3. CASE LightMoves \/ ApiMoves
    BY <2>3 DEF LightMoves, ApiMoves, Alone, LegacyOver, Actors, Engines
  <2> QED
    BY <2>1, <2>2, <2>3 DEF Kinds
<1>2. CASE Distributed
  BY <1>1, <1>2 DEF Remembers, Fenced, Told, Distributed
<1>3. CASE ~Distributed
  <2>1. flag => flag' \/ LegacyOver
    <3>1. CASE MainMoves
      <4>1. pc["main"] \notin BeforeFork \cup Joining => LegacyOver
        BY DEF FenceInv, Control, Running, LegacyOver
      <4> QED
        BY <3>1, <4>1 DEF MainMoves, FenceInv, Types
    <3>2. CASE LegacyStep \/ LightMoves \/ ApiMoves
      BY <3>2 DEF LegacyStep, LegacyMoves, LightMoves, ApiMoves
    <3> QED
      BY <3>1, <3>2 DEF Kinds
  <2> QED
    BY <1>1, <1>3, <2>1 DEF Remembers, Fenced, Told, Distributed
<1> QED
  BY <1>2, <1>3

LEMMA RowsKept ==
    ASSUME FenceInv, RowsMove, Fenced => Fenced'
    PROVE  /\ RowsFenced'
           /\ meta' \in RoughRows /\ (meta'.stored \/ meta'.status = "none")
           /\ copy' \in [Actors -> RoughRows \cup {NoCopy}]
           /\ \A a \in Actors : copy'[a] # NoCopy => copy'[a].stored
<1> Types /\ RowsFenced
  BY DEF FenceInv
<1>1. CASE meta' = meta /\ copy' = copy
  BY <1>1 DEF Types, RowsFenced, Active
<1>2. ASSUME NEW a \in Actors, NEW row \in RoughRows, row.stored, row = meta \/ ~meta.stored,
             meta' = meta, copy' = [copy EXCEPT ![a] = row]
      PROVE  /\ RowsFenced'
             /\ meta' \in RoughRows /\ (meta'.stored \/ meta'.status = "none")
             /\ copy' \in [Actors -> RoughRows \cup {NoCopy}]
             /\ \A b \in Actors : copy'[b] # NoCopy => copy'[b].stored
  <2>1. ~Active(row) => Fenced
    BY <1>2 DEF RowsFenced, Active
  <2>2. \A b \in Actors : copy'[b] = IF b = a THEN row ELSE copy[b]
    BY <1>2 DEF Types
  <2> QED
    BY <1>2, <2>1, <2>2 DEF Types, RowsFenced, Active
<1>3. ASSUME NEW a \in Actors, copy[a] # NoCopy, copy' = [copy EXCEPT ![a] = NoCopy],
             meta' \in RoughRows, meta'.stored,
             ~Active(meta') => ~Active(copy[a]) \/ Fenced \/ Fenced'
      PROVE  /\ RowsFenced'
             /\ meta' \in RoughRows /\ (meta'.stored \/ meta'.status = "none")
             /\ copy' \in [Actors -> RoughRows \cup {NoCopy}]
             /\ \A b \in Actors : copy'[b] # NoCopy => copy'[b].stored
  <2>1. \A b \in Actors : copy'[b] = IF b = a THEN NoCopy ELSE copy[b]
    BY <1>3 DEF Types
  <2> QED
    BY <1>3, <2>1 DEF Types, RowsFenced, Active
<1>4. CASE /\ Fenced /\ copy' = copy
           /\ meta' \in RoughRows /\ (meta'.stored \/ meta'.status = "none")
  BY <1>4 DEF Types, RowsFenced, Active
<1>5. ASSUME NEW a \in Actors, meta' = meta, copy' = [copy EXCEPT ![a] = NoCopy]
      PROVE  /\ RowsFenced'
             /\ meta' \in RoughRows /\ (meta'.stored \/ meta'.status = "none")
             /\ copy' \in [Actors -> RoughRows \cup {NoCopy}]
             /\ \A b \in Actors : copy'[b] # NoCopy => copy'[b].stored
  <2>1. \A b \in Actors : copy'[b] = IF b = a THEN NoCopy ELSE copy[b]
    BY <1>5 DEF Types
  <2> QED
    BY <1>5, <2>1 DEF Types, RowsFenced, Active
<1> QED
  BY <1>1, <1>2, <1>3, <1>4, <1>5 DEF RowsMove

LEMMA KindsMoveRows == ASSUME Kinds PROVE RowsMove
BY DEF Kinds, MainMoves, LegacyStep, LegacyMoves, LightMoves, ApiMoves

LEMMA TypesKept == ASSUME FenceInv, Kinds, Remembers PROVE Types'
<1>1. /\ meta' \in RoughRows /\ (meta'.stored \/ meta'.status = "none")
      /\ copy' \in [Actors -> RoughRows \cup {NoCopy}]
      /\ \A a \in Actors : copy'[a] # NoCopy => copy'[a].stored
  BY FenceStands, KindsMoveRows, RowsKept
<1>2. scenario' \in Scenarios /\ overwritten' \in BOOLEAN /\ abandoned' \in BOOLEAN
  BY DEF FenceInv, Types, Remembers
<1> Types
  BY DEF FenceInv
<1>3. CASE MainMoves
  BY <1>1, <1>2, <1>3 DEF MainMoves, Types
<1>4. CASE LegacyStep
  <2>1. outcome' \in [Engines -> Names]
    BY <1>4 DEF LegacyStep, Types
  <2> QED
    BY <1>1, <1>2, <1>4, <2>1 DEF LegacyStep, LegacyMoves, LegacyGraph, Alone, Types
<1>5. CASE LightMoves
  BY <1>1, <1>2, <1>5 DEF LightMoves, Alone, Types
<1>6. CASE ApiMoves
  BY <1>1, <1>2, <1>6 DEF ApiMoves, Alone, Types
<1> QED
  BY <1>3, <1>4, <1>5, <1>6 DEF Kinds

LEMMA ControlKept == ASSUME FenceInv, Kinds, Remembers PROVE Control'
<1> Types /\ Control
  BY DEF FenceInv
<1>1. CASE MainMoves
  <2>1. pc'["legacy"] # "over" => pc["legacy"] # "over"
    BY <1>1 DEF MainMoves, Control, BeforeFork
  <2>2. pc'["main"] \in BeforeFork => pc["main"] \in BeforeFork /\ pc'["legacy"] = pc["legacy"]
    BY <1>1 DEF MainMoves, BeforeFork
  <2> QED
    BY <1>1, <2>1, <2>2 DEF MainMoves, Control, Running, Joining
<1>2. CASE LegacyStep
  <2>1. pc'["main"] = pc["main"] /\ todo' = todo /\ Running
    BY <1>2 DEF LegacyStep, LegacyMoves, Alone, Actors
  <2>2. pc'["legacy"] # "over" => outcome' = outcome
    BY <1>2 DEF LegacyStep
  <2> QED
    BY <2>1, <2>2 DEF Control, Running, BeforeFork, Joining
<1>3. CASE LightMoves \/ ApiMoves
  <2>1. /\ pc'["main"] = pc["main"] /\ pc'["legacy"] = pc["legacy"]
        /\ todo'["main"] = todo["main"] /\ outcome'["legacy"] = outcome["legacy"]
    BY <1>3 DEF LightMoves, ApiMoves, Alone, Actors, Engines
  <2> QED
    BY <2>1 DEF Control, Running
<1> QED
  BY <1>1, <1>2, <1>3 DEF Kinds

LEMMA ApiFencedKept == ASSUME FenceInv, Kinds, Remembers PROVE ApiFenced'
<1> ApiFenced /\ (Fenced => Fenced')
  BY FenceStands DEF FenceInv
<1>1. CASE MainMoves \/ LegacyStep \/ LightMoves
  <2>1. pc'["api"] = pc["api"] /\ UNCHANGED <<request, requests>>
    BY <1>1 DEF MainMoves, LegacyStep, LegacyMoves, LightMoves, Alone, Actors
  <2> QED
    BY <2>1 DEF Remembers, ApiFenced, Finished, Distributed
<1>2. CASE ApiMoves
  <2>1. ~Distributed /\ flag' => Fenced'
    BY DEF Remembers, Fenced, Told, Distributed
  <2>2. pc["api"] = "row" => Fenced
    BY DEF ApiFenced, Clearing
  <2> QED
    BY <1>2, <2>1, <2>2 DEF Remembers, ApiMoves, ApiFenced, Distributed
<1> QED
  BY <1>1, <1>2 DEF Kinds

LEMMA GraphUndoneKept == ASSUME FenceInv, Kinds, Remembers PROVE GraphUndone'
<1> Types /\ Control /\ ApiFenced /\ GraphUndone
  BY DEF FenceInv
<1> SUFFICES ASSUME Emptied', Distributed => ~overwritten', ~abandoned', graph'
             PROVE  pc'["legacy"] \in {"guard2", "undo"}
  BY DEF GraphUndone, Remembers, Distributed
<1>1. (Distributed => ~overwritten) /\ ~abandoned
  BY DEF Remembers
<1>2. CASE ApiMoves
  <2>1. Emptied /\ graph /\ pc'["legacy"] = pc["legacy"]
    BY <1>2 DEF ApiMoves, Emptied, Alone, Actors, Engines
  <2> QED
    BY <1>1, <2>1 DEF GraphUndone
<1>3. CASE MainMoves \/ LegacyStep \/ LightMoves
  <2>1. Emptied
    <3>1. pc'["api"] = pc["api"] /\ UNCHANGED <<request, requests>>
      BY <1>3 DEF MainMoves, LegacyStep, LegacyMoves, LightMoves, Alone, Actors
    <3> QED
      BY <3>1 DEF Emptied, Finished
  <2>2. graph => pc["legacy"] \in {"guard2", "undo"}
    BY <1>1, <2>1 DEF GraphUndone
  <2>3. CASE MainMoves \/ LightMoves
    <3>1. graph /\ (pc'["legacy"] = pc["legacy"] \/ pc["main"] = "fork")
      BY <2>3 DEF MainMoves, LightMoves, Alone, Actors, Engines
    <3>2. pc["main"] = "fork" => pc["legacy"] = "idle"
      BY DEF Control, BeforeFork
    <3> QED
      BY <2>2, <3>1, <3>2
  <2>4. CASE LegacyStep
    <3>1. Running => IsCancelled("legacy")
      <4> SUFFICES ASSUME Running PROVE IsCancelled("legacy")
        OBVIOUS
      <4>1. Fenced
        BY <2>1 DEF ApiFenced, Emptied, Clearing
      <4>2. Told
        BY <4>1 DEF Fenced, LegacyOver, Running
      <4> QED
        BY <1>1, <4>2 DEF Told, IsCancelled, SameProcess, Whole, Types
    <3>2. ~FailsOnGraph
      <4>1. FailsOnGraph => WriteAllowed("legacy")
        BY DEF Remembers
      <4> QED
        BY <3>1, <4>1 DEF FailsOnGraph, WriteAllowed, Running
    <3> QED
      BY <2>2, <2>4, <3>1, <3>2 DEF LegacyStep, LegacyGraph, Running
  <2> QED
    BY <1>3, <2>3, <2>4
<1> QED
  BY <1>2, <1>3 DEF Kinds

LEMMA FenceInit == HistoryInit => FenceInv
<1> SUFFICES ASSUME HistoryInit PROVE FenceInv
  OBVIOUS
<1>1. /\ scenario \in Scenarios /\ overwritten = FALSE /\ abandoned = FALSE /\ flag = FALSE
      /\ pc = [a \in Actors |-> IF a = "main" THEN "start" ELSE "idle"]
      /\ copy = [a \in Actors |-> NoCopy] /\ outcome = [e \in Engines |-> "running"]
      /\ verdict = "none" /\ snap = NoRow /\ graph = ("legacy" \notin Targets)
      /\ todo = [a \in {"main", "api"} |-> Targets]
      /\ requests = [cancel |-> 0, delete |-> 0]
  BY DEF HistoryInit, Init
<1>2. /\ pc["main"] = "start" /\ pc["legacy"] = "idle" /\ pc["api"] = "idle"
      /\ \A a \in Actors : copy[a] = NoCopy
      /\ requests.delete = 0 /\ requests \in [cancel : Nat, delete : Nat]
  BY <1>1 DEF Actors, Engines
<1>3. meta \in RoughRows /\ meta.stored /\ Active(meta)
  <2> DEFINE was(e) == IF e \in Targets THEN "pending" ELSE "done"
  <2>1. meta = [Blank EXCEPT !.status = "queued", !.legacy = was("legacy"),
                             !.lightrag = was("lightrag")]
    BY DEF HistoryInit, Init
  <2>2. was("legacy") \in Names /\ was("lightrag") \in Names
    BY NamesOfStates DEF EngineStatuses
  <2> HIDE DEF was
  <2> QED
    BY <2>1, <2>2, NamesOfStates DEF Blank, RoughRows, Active, Terminal
<1>4. Types
  <2>1. outcome \in [Engines -> Names] /\ verdict \in Names
    BY <1>1, NamesOfStates DEF Names
  <2>2. todo \in [{"main", "api"} -> SUBSET Engines]
    BY <1>1, TargetsAreEngines
  <2>3. graph \in BOOLEAN
    BY <1>1
  <2>4. pc = [a \in Actors |-> pc[a]] /\ copy \in [Actors -> RoughRows \cup {NoCopy}]
    BY <1>1
  <2> QED
    BY <1>1, <1>2, <1>3, <2>1, <2>2, <2>3, <2>4, BlankFacts DEF Types
<1>5. Control
  BY <1>1, <1>2 DEF Control, Running, Engines
<1>6. ~Finished
  BY <1>2 DEF Finished
<1> QED
  BY <1>2, <1>3, <1>4, <1>5, <1>6
     DEF FenceInv, RowsFenced, ApiFenced, GraphUndone, Emptied, Clearing

LEMMA FenceNext == FenceInv /\ [HistoryNext]_<<vars, scenario, overwritten, abandoned>> => FenceInv'
<1> SUFFICES ASSUME FenceInv, [HistoryNext]_<<vars, scenario, overwritten, abandoned>> PROVE FenceInv'
  OBVIOUS
<1>1. CASE HistoryNext
  <2>1. Kinds /\ Remembers
    BY <1>1, StepKinds DEF HistoryNext, Kinds, Remembers, FailsOnGraph
  <2>2. RowsFenced'
    BY <2>1, FenceStands, KindsMoveRows, RowsKept
  <2> QED
    BY <2>1, <2>2, TypesKept, ControlKept, ApiFencedKept, GraphUndoneKept DEF FenceInv
<1>2. CASE UNCHANGED <<vars, scenario, overwritten, abandoned>>
  <2>1. UNCHANGED <<scenario, pc, meta, snap, copy, outcome, verdict, todo, graph, flag,
                    overwritten, abandoned, request, requests>>
    BY <1>2 DEF vars, rows, stores, copies, worker, api
  <2>2. Types' /\ Control'
    BY <2>1 DEF FenceInv, Types, Control, Running
  <2>3. Fenced' = Fenced /\ Finished' = Finished
    BY <2>1 DEF Fenced, Told, LegacyOver, Distributed, Finished
  <2> QED
    BY <2>1, <2>2, <2>3
       DEF FenceInv, RowsFenced, Active, ApiFenced, GraphUndone, Emptied, Distributed
<1> QED
  BY <1>1, <1>2

(* A deleted document is not in the classic graph once its job and its deletion
   have come to their end, whatever was cancelled, deleted and overwritten in
   between, unless the classic engine failed before it could take its graph back;
   across processes, unless a cancellation itself was lost. *)
THEOREM DeletionLeavesNoGraph == HistorySpec => []GraphGone
<1>1. FenceInv => GraphGone
  <2> SUFFICES ASSUME FenceInv, Quiet, Deleted, Distributed => ~overwritten, ~abandoned
               PROVE  ~graph
    BY DEF GraphGone
  <2>1. pc["legacy"] \in {"idle", "over"}
    BY DEF Quiet, FenceInv, Control, Running, Joining
  <2>2. Finished
    BY DEF Deleted, Finished
  <2> QED
    BY <2>1, <2>2 DEF FenceInv, GraphUndone, Emptied
<1> QED
  BY <1>1, FenceInit, FenceNext, PTL DEF HistorySpec

-----------------------------------------------------------------------------
(***************************************************************************)
(* Neither engine answers for the other (EnginesApart).  Three parts, of   *)
(* which the first two hold always, and the last until somebody cancels or *)
(* deletes: types and books, the healthy classic index beside a job for    *)
(* LightRAG alone, and what each stage of the pipeline knows of each       *)
(* engine.                                                                 *)
(***************************************************************************)

(* A request may add one deletion of LightRAG data, and has not yet. *)
MayAdd ==
    \/ pc["api"] \in {"list", "cancel", "flag", "cancelRow", "detach", "purge", "tombstone",
                      "schedule"}
    \/ /\ pc["api"] \in {"visit", "voidLegacy", "voidLegacyDoc", "voidLightrag", "voidLightragDoc"}
       /\ request # "cancel" \/ "lightrag" \in todo["api"]
Asked == requests.cancel + requests.delete
Booked == deletions + (IF MayAdd THEN 1 ELSE 0) <= Asked /\ Asked <= MaxRequests

(* Before the engines are started. *)
Beginning == BeforeFork \cup {"reuse", "reusing", "retry"}

(* An engine has a result when its thread is over, and then it keeps it; the
   pipeline reports engines of the job that have one. *)
Collected ==
    /\ \A e \in Engines : pc[e] = "over" <=> outcome[e] # "running"
    /\ \A e \in Engines : pc["main"] \in {Report[e], ReportDoc[e]} =>
                             outcome[e] # "running" /\ e \in Targets
    /\ \A a \in {"main", "api"} : todo[a] \subseteq Targets
    /\ pc["main"] \in Beginning => \A e \in Engines : pc[e] = "idle"

Placed == scenario \in Scenarios /\ pc = [a \in Actors |-> pc[a]]
Typed == TypeOK /\ Placed /\ Booked /\ Collected

(* The types of what the helpers write, and what they leave alone. *)
RowsTyped ==
    /\ meta \in Rows /\ doc \in DocRows
    /\ copy \in [Actors -> Rows \cup {NoCopy}] /\ dcopy \in [Actors -> DocRows \cup {NoCopy}]
    /\ blobs \subseteq Files /\ saving \in [Actors -> {"no", "written", "checked"}]
Rest == UNCHANGED <<graph, light, deletions, flag, outcome, verdict, todo, snap, dsnap, request,
                    requests, faults>>

LEMMA StatusTyped ==
    ASSUME NEW r \in Rows, NEW s \in Statuses
    PROVE  /\ SetStatus(r, s) \in Rows /\ SetStatus(r, s).status = s
           /\ SetStatus(r, s).stored = r.stored
           /\ SetStatus(r, s).legacy = r.legacy /\ SetStatus(r, s).lightrag = r.lightrag
BY DEF SetStatus, Rows

LEMMA EngineTyped ==
    ASSUME NEW r \in Rows, NEW s \in EngineStatuses, NEW e \in Engines
    PROVE  LET row == [r EXCEPT ![e] = s]
           IN  /\ row \in Rows /\ row.status = r.status /\ row.stored = r.stored
               /\ \A x \in Engines : row[x] = IF x = e THEN s ELSE r[x]
<1>1. CASE e = "legacy"
  BY <1>1 DEF Rows, Engines
<1>2. CASE e = "lightrag"
  BY <1>2 DEF Rows, Engines
<1> QED
  BY <1>1, <1>2 DEF Engines

LEMMA FilesTyped ==
    ASSUME NEW r \in Rows, NEW f \in Files
    PROVE  LET row == [r EXCEPT !.files = @ \cup {f}]
           IN  /\ row \in Rows /\ row.status = r.status /\ row.stored = r.stored
               /\ row.legacy = r.legacy /\ row.lightrag = r.lightrag
BY DEF Rows

LEMMA DocTyped ==
    ASSUME NEW r \in DocRows, NEW s \in EngineStatuses, NEW e \in Engines
    PROVE  LET row == SetDoc(r, e, s)
           IN  /\ row \in DocRows /\ row.stored = r.stored
               /\ \A x \in Engines : row[x] = IF x = e THEN s ELSE r[x]
<1>1. DocStatus(s) \in {"uploaded", "indexing", "indexed", "failed"}
  BY DEF DocStatus, EngineStatuses
<1>2. CASE e = "legacy"
  BY <1>1, <1>2 DEF SetDoc, DocRows, Engines
<1>3. CASE e = "lightrag"
  BY <1>3 DEF SetDoc, DocRows, Engines
<1> QED
  BY <1>2, <1>3 DEF Engines

LEMMA BlankTyped ==
    /\ Blank \in Rows /\ NoRow \in Rows
    /\ \A b \in BOOLEAN : [Blank EXCEPT !.status = "cancelled", !.detached = b] \in Rows
BY DEF Blank, NoRow, Rows, Statuses, Terminal, EngineStatuses

LEMMA LoadTyped ==
    ASSUME TypeOK, NEW a \in Actors, Load(a, IF meta.stored THEN meta ELSE Blank)
    PROVE  pc' = pc /\ meta' = meta /\ copy' \in [Actors -> Rows \cup {NoCopy}]
BY BlankTyped DEF TypeOK, Load

LEMMA SaveTyped ==
    ASSUME TypeOK, NEW a \in Actors, NEW row, NEW to, Save(a, row, to),
           copy[a] \in Rows => row \in Rows
    PROVE  /\ pc' = [pc EXCEPT ![a] = to]
           /\ meta' \in Rows /\ copy' \in [Actors -> Rows \cup {NoCopy}]
BY DEF TypeOK, Save, Goto

LEMMA UpdateTyped ==
    ASSUME TypeOK, NEW a \in Actors, NEW row, NEW from, NEW to, Updates(a, from, row, to),
           copy[a] \in Rows => row \in Rows
    PROVE  Moves(a, from, to) /\ RowsTyped' /\ Rest
<1>1. /\ pc' \in {pc, [pc EXCEPT ![a] = to]}
      /\ meta' \in Rows /\ copy' \in [Actors -> Rows \cup {NoCopy}]
  <2>1. CASE Whole /\ Load(a, meta)
    <3>1. Load(a, IF meta.stored THEN meta ELSE Blank)
      BY <2>1 DEF Whole
    <3> QED
      BY <3>1, LoadTyped DEF TypeOK
  <2>2. CASE Save(a, row, to)
    BY <2>2, SaveTyped
  <2> QED
    BY <2>1, <2>2 DEF Updates
<1> QED
  BY <1>1 DEF Updates, TypeOK, Moves, RowsTyped, Rest, stores, worker, api

(* An update of the row of the document. *)
DocUpdates(a, from, row, to) ==
    /\ pc[a] = from
    /\ \/ dcopy[a] = NoCopy /\ ~doc.stored /\ Goto(a, to) /\ UNCHANGED <<doc, dcopy>>
       \/ /\ dcopy[a] = NoCopy /\ doc.stored
          /\ DocFree(a) \/ from = "failStatus"
          /\ dcopy' = [dcopy EXCEPT ![a] = doc] /\ UNCHANGED <<doc, pc>>
       \/ /\ dcopy[a] # NoCopy /\ doc' = row
          /\ dcopy' = [dcopy EXCEPT ![a] = NoCopy] /\ Goto(a, to)
    /\ UNCHANGED <<meta, stores, deletions, flag, saving, copy, worker, api, faults>>

LEMMA DocUpdateTyped ==
    ASSUME TypeOK, NEW a \in Actors, NEW row, NEW from, NEW to, DocUpdates(a, from, row, to),
           dcopy[a] \in DocRows => row \in DocRows
    PROVE  Moves(a, from, to) /\ RowsTyped' /\ Rest
<1>1. /\ pc' \in {pc, [pc EXCEPT ![a] = to]}
      /\ doc' \in DocRows /\ dcopy' \in [Actors -> DocRows \cup {NoCopy}]
  BY DEF DocUpdates, TypeOK, Goto
<1> QED
  BY <1>1 DEF DocUpdates, TypeOK, Moves, RowsTyped, Rest, stores, worker, api

(* The two halves of a report on an engine. *)
LEMMA EngineHalves ==
    ASSUME NEW a, NEW e, NEW s, NEW from, NEW mid, NEW to, SetEngine(a, e, s, from, mid, to)
    PROVE  \/ /\ pc[a] = from
              /\ \/ Load(a, IF meta.stored THEN meta ELSE Blank)
                 \/ Save(a, [copy[a] EXCEPT ![e] = s], mid)
              /\ UNCHANGED <<doc, stores, deletions, flag, saving, dcopy, worker, api, faults>>
           \/ DocUpdates(a, mid, SetDoc(dcopy[a], e, s), to)
BY DEF SetEngine, UpdateDoc, DocUpdates

LEMMA SetEngineTyped ==
    ASSUME TypeOK, NEW a \in Actors, NEW e \in Engines, NEW s \in EngineStatuses,
           NEW from, NEW mid, NEW to, SetEngine(a, e, s, from, mid, to)
    PROVE  (Moves(a, from, mid) \/ Moves(a, mid, to)) /\ RowsTyped' /\ Rest
<1>1. CASE DocUpdates(a, mid, SetDoc(dcopy[a], e, s), to)
  <2>1. dcopy[a] \in DocRows => SetDoc(dcopy[a], e, s) \in DocRows
    BY DocTyped
  <2> QED
    BY <1>1, <2>1, DocUpdateTyped
<1>2. CASE /\ pc[a] = from
           /\ \/ Load(a, IF meta.stored THEN meta ELSE Blank)
              \/ Save(a, [copy[a] EXCEPT ![e] = s], mid)
           /\ UNCHANGED <<doc, stores, deletions, flag, saving, dcopy, worker, api, faults>>
  <2>1. copy[a] \in Rows => [copy[a] EXCEPT ![e] = s] \in Rows
    BY EngineTyped
  <2>2. /\ pc' \in {pc, [pc EXCEPT ![a] = mid]}
        /\ meta' \in Rows /\ copy' \in [Actors -> Rows \cup {NoCopy}]
    BY <1>2, <2>1, LoadTyped, SaveTyped DEF TypeOK
  <2> QED
    BY <1>2, <2>2 DEF TypeOK, Moves, RowsTyped, Rest, stores, worker, api
<1> QED
  BY <1>1, <1>2, EngineHalves

LEMMA SaveArtifactTyped ==
    ASSUME TypeOK, NEW a \in Actors, NEW f \in Files, NEW from, NEW to, NEW cancelled,
           SaveArtifact(a, f, from, to, cancelled)
    PROVE  (Moves(a, from, to) \/ Moves(a, from, cancelled)) /\ RowsTyped' /\ Rest
<1>0. Rest /\ pc[a] = from /\ UNCHANGED <<doc, dcopy>>
  BY DEF SaveArtifact, Rest, worker, api
<1>1. blobs' \subseteq Files /\ saving' \in [Actors -> {"no", "written", "checked"}]
  BY DEF SaveArtifact, TypeOK
<1>2. /\ pc' \in {pc, [pc EXCEPT ![a] = to], [pc EXCEPT ![a] = cancelled]}
      /\ meta' \in Rows /\ copy' \in [Actors -> Rows \cup {NoCopy}]
  <2>1. CASE UNCHANGED <<meta, copy>>
    <3>1. pc' \in {pc, [pc EXCEPT ![a] = to], [pc EXCEPT ![a] = cancelled]}
      BY <2>1 DEF SaveArtifact, Goto, Load, Save
    <3> QED
      BY <2>1, <3>1 DEF TypeOK
  <2>2. CASE Load(a, IF meta.stored THEN meta ELSE Blank)
    BY <2>2, LoadTyped DEF TypeOK
  <2>3. CASE Save(a, [copy[a] EXCEPT !.files = @ \cup {f}], to)
    BY <2>3, SaveTyped, FilesTyped
  <2> QED
    BY <2>1, <2>2, <2>3 DEF SaveArtifact
<1> QED
  BY <1>0, <1>1, <1>2 DEF TypeOK, Moves, RowsTyped

LEMMA BranchTyped ==
    ASSUME TypeOK, NEW a \in Actors, NEW from, NEW test, NEW yes, NEW no,
           Branch(a, from, test, yes, no)
    PROVE  (Moves(a, from, yes) \/ Moves(a, from, no)) /\ RowsTyped' /\ Rest
BY DEF TypeOK, Branch, Goto, Moves, RowsTyped, Rest, rows, stores, copies, worker, api

-----------------------------------------------------------------------------
(* Types and books are kept: first the steps that only update rows. *)

LEMMA RowsKeepTypes ==
    ASSUME TypeOK, RowsTyped', Rest, UNCHANGED scenario
    PROVE  TypeOK'
BY DEF TypeOK, RowsTyped, Rest, MaxRequests, MaxFaults

LEMMA ScenarioFacts ==
    ASSUME Placed PROVE MaxRequests \in Nat /\ MaxFaults \in Nat /\ Targets \subseteq Engines
BY PipelineAssumption DEF Placed, MaxRequests, MaxFaults, Targets

LEMMA PlacedFacts ==
    ASSUME Placed, NEW a \in Actors, NEW from, NEW to, Moves(a, from, to), UNCHANGED scenario
    PROVE  /\ Placed' /\ pc[a] = from /\ pc'[a] \in {from, to}
           /\ \A b \in Actors \ {a} : pc'[b] = pc[b]
BY DEF Placed, Moves

LEMMA BooksStay ==
    ASSUME TypeOK, Booked, UNCHANGED <<scenario, deletions, request, requests>>,
           pc'["api"] = pc["api"], todo'["api"] = todo["api"]
    PROVE  Booked'
BY DEF Booked, MayAdd, Asked, MaxRequests

LEMMA WorkerRowsKeep ==
    ASSUME Typed, UNCHANGED scenario, NEW a \in Actors \ {"api"}, NEW from, NEW to,
           Moves(a, from, to), RowsTyped', Rest,
           a # "main" => {"over", "idle"} \cap {from, to} = {},
           a = "main" => \A e \in Engines :
              to \in {Report[e], ReportDoc[e]} => outcome[e] # "running" /\ e \in Targets,
           a = "main" /\ to \in Beginning => from \in Beginning
    PROVE  Typed'
<1> TypeOK /\ Placed /\ Booked /\ Collected
  BY DEF Typed
<1>1. /\ Placed' /\ pc[a] = from /\ pc'[a] \in {from, to}
      /\ \A b \in Actors \ {a} : pc'[b] = pc[b]
  BY PlacedFacts
<1>2. TypeOK'
  BY RowsKeepTypes
<1>3. Booked'
  BY <1>1, BooksStay DEF Rest, Actors
<1>4. Collected'
  <2>1. UNCHANGED <<outcome, todo>> /\ Targets' = Targets
    BY DEF Rest, Targets
  <2>2. \A e \in Engines : pc'[e] = "over" <=> outcome'[e] # "running"
    BY <1>1, <2>1 DEF Collected, Actors, Engines
  <2>3. \A e \in Engines : pc'["main"] \in {Report[e], ReportDoc[e]} =>
                              outcome'[e] # "running" /\ e \in Targets
    BY <1>1, <2>1 DEF Collected, Actors
  <2>4. pc'["main"] \in Beginning => \A e \in Engines : pc'[e] = "idle"
    BY <1>1 DEF Collected, Actors, Engines
  <2> QED
    BY <2>1, <2>2, <2>3, <2>4 DEF Collected
<1> QED
  BY <1>1, <1>2, <1>3, <1>4 DEF Typed

LEMMA Reports ==
    /\ Report = [legacy |-> "reportLegacy", lightrag |-> "reportLightrag"]
    /\ ReportDoc = [legacy |-> "reportLegacyDoc", lightrag |-> "reportLightragDoc"]
    /\ \A e \in Engines : /\ Report[e] \in {"reportLegacy", "reportLightrag"}
                          /\ ReportDoc[e] \in {"reportLegacyDoc", "reportLightragDoc"}
BY DEF Report, ReportDoc, Engines

ReportSteps == {"reportLegacy", "reportLegacyDoc", "reportLightrag", "reportLightragDoc"}

(* A step of the pipeline that reports nothing and does not begin anew. *)
Onward(from, to) == to \notin ReportSteps /\ (to \in Beginning => from \in Beginning)

LEMMA MainRowsKeep ==
    ASSUME Typed, UNCHANGED scenario, NEW from, NEW to, Moves("main", from, to), RowsTyped', Rest,
           Onward(from, to)
    PROVE  Typed'
BY WorkerRowsKeep, Reports DEF Onward, ReportSteps, Actors

LEMMA EngineRowsKeep ==
    ASSUME Typed, UNCHANGED scenario, NEW e \in Engines, NEW from, NEW to, Moves(e, from, to),
           RowsTyped', Rest, {"over", "idle"} \cap {from, to} = {}
    PROVE  Typed'
BY WorkerRowsKeep DEF Actors, Engines

LEMMA EngineStepsKeepTypes ==
    ASSUME Typed, RunLegacy \/ RunLightrag, UNCHANGED scenario
    PROVE  Typed'
<1> TypeOK /\ Placed /\ Booked /\ Collected
  BY DEF Typed
<1> "legacy" \in Engines /\ "lightrag" \in Engines /\ "legacy" \in Actors /\ "lightrag" \in Actors
  BY DEF Engines, Actors
<1>1. ASSUME NEW e \in Engines, NEW s \in EngineStatuses, NEW from, NEW mid, NEW to,
             SetEngine(e, e, s, from, mid, to), {"over", "idle"} \cap {from, mid, to} = {}
      PROVE  Typed'
  BY <1>1, SetEngineTyped, EngineRowsKeep DEF Actors
<1>2. ASSUME NEW e \in Engines, NEW from, NEW test, NEW yes, NEW no,
             Branch(e, from, test, yes, no), {"over", "idle"} \cap {from, yes, no} = {}
      PROVE  Typed'
  BY <1>2, BranchTyped, EngineRowsKeep DEF Actors
<1>3. ASSUME NEW f \in Files, NEW from, NEW to, NEW cancelled,
             SaveArtifact("legacy", f, from, to, cancelled),
             {"over", "idle"} \cap {from, to, cancelled} = {}
      PROVE  Typed'
  BY <1>3, SaveArtifactTyped, EngineRowsKeep
<1>4. ASSUME NEW from, NEW to, {"over", "idle"} \cap {from, to} = {}, Moves("legacy", from, to),
             \E value \in BOOLEAN : SetGraph("legacy", from, value, to)
      PROVE  Typed'
  <2>1. TypeOK'
    BY <1>4 DEF TypeOK, SetGraph, MaxRequests, MaxFaults, rows, copies, worker, api
  <2>2. Moves("legacy", from, to)
    BY <1>4
  <2>3. /\ Placed' /\ pc["legacy"] = from /\ pc'["legacy"] \in {from, to}
        /\ \A b \in Actors \ {"legacy"} : pc'[b] = pc[b]
    BY <2>2, PlacedFacts
  <2>4. UNCHANGED <<deletions, outcome, todo, request, requests>> /\ Targets' = Targets
    BY <1>4 DEF SetGraph, worker, api, Targets
  <2>5. Booked'
    BY <2>3, <2>4, BooksStay DEF Actors, Engines
  <2>6. Collected'
    BY <1>4, <2>3, <2>4 DEF Collected, Actors, Engines, Beginning
  <2> QED
    BY <2>1, <2>3, <2>5, <2>6 DEF Typed
<1>5. ASSUME InsertPages \/ RemovePages
      PROVE  Typed'
  <2>0. faults' \in 0..MaxFaults
    BY <1>5, ScenarioFacts DEF InsertPages, RemovePages, TypeOK, worker, api
  <2> light' \in BOOLEAN
    BY <1>5 DEF InsertPages, RemovePages, TypeOK
  <2>1. TypeOK'
    BY <1>5, <2>0 DEF TypeOK, InsertPages, RemovePages, MaxRequests, MaxFaults, rows, copies,
                      worker, api
  <2>2. Moves("lightrag", "insert", "inserted") \/ Moves("lightrag", "remove", "raise")
    BY <1>5 DEF InsertPages, RemovePages, Goto, Moves
  <2>3. /\ Placed' /\ pc["lightrag"] \notin {"over", "idle"} /\ pc'["lightrag"] # "over"
        /\ \A b \in Actors \ {"lightrag"} : pc'[b] = pc[b]
    BY <2>2, PlacedFacts
  <2>4. UNCHANGED <<deletions, outcome, todo, request, requests>> /\ Targets' = Targets
    BY <1>5 DEF InsertPages, RemovePages, worker, api, Targets
  <2>5. Booked'
    BY <2>3, <2>4, BooksStay DEF Actors, Engines
  <2>6. Collected'
    BY <2>3, <2>4 DEF Collected, Actors, Engines
  <2> QED
    BY <2>1, <2>3, <2>5, <2>6 DEF Typed
<1>6. CASE RunLightrag
  BY <1>1, <1>2, <1>5, <1>6 DEF RunLightrag, EngineStatuses
<1>7. CASE UpdateMeta("legacy", "progress", LAMBDA row : row, "saveRecords")
  <2>1. Updates("legacy", "progress", copy["legacy"], "saveRecords")
    BY <1>7 DEF UpdateMeta, Updates
  <2> QED
    BY <2>1, UpdateTyped, EngineRowsKeep
<1>8. CASE Publish
  <2>1. CASE Check("guard", "upsert", "raise") \/ Check("guard2", "saveGraph", "undo")
    BY <1>2, <2>1 DEF Check
  <2>2. CASE SetGraph("legacy", "upsert", TRUE, "guard2")
    <3>1. Moves("legacy", "upsert", "guard2")
      BY <2>2 DEF SetGraph, Goto, Moves
    <3> QED
      BY <1>4, <2>2, <3>1
  <2> QED
    BY <1>8, <2>1, <2>2 DEF Publish
<1>9. CASE RunLegacy
  <2>1. CASE \/ SetEngine("legacy", "legacy", "indexing", "mark", "markDoc", "page")
             \/ SetEngine("legacy", "legacy", "done", "done", "doneDoc", "guard4")
             \/ SetEngine("legacy", "legacy", "cancelled", "revoke", "revokeDoc", "raise")
    BY <1>1, <2>1 DEF EngineStatuses
  <2>2. CASE \/ Branch("legacy", "page", IsCancelled("legacy"), "raise", "progress")
             \/ Check("guard3", "done", "undo") \/ Check("guard4", "return", "undoDone")
    BY <1>2, <2>2 DEF Check
  <2>3. CASE \/ SaveArtifact("legacy", "records", "saveRecords", "guard", "raise")
             \/ SaveArtifact("legacy", "graph", "saveGraph", "guard3", "raise")
    BY <1>3, <2>3 DEF Files
  <2>4. CASE SetGraph("legacy", "undo", FALSE, "raise")
    <3>1. Moves("legacy", "undo", "raise")
      BY <2>4 DEF SetGraph, Goto, Moves
    <3> QED
      BY <1>4, <2>4, <3>1
  <2>5. CASE SetGraph("legacy", "undoDone", FALSE, "revoke")
    <3>1. Moves("legacy", "undoDone", "revoke")
      BY <2>5 DEF SetGraph, Goto, Moves
    <3> QED
      BY <1>4, <2>5, <3>1
  <2> QED
    BY <1>7, <1>8, <1>9, <2>1, <2>2, <2>3, <2>4, <2>5 DEF RunLegacy
<1> QED
  BY <1>6, <1>9

LEMMA EngineEndsKeepTypes ==
    ASSUME Typed, UNCHANGED scenario, NEW e \in Engines,
           \/ Return(e) \/ Raise(e) \/ ChildFails(e)
           \/ e = "legacy" /\ pc[e] = "progress" /\ End(e, "failed") /\ UNCHANGED faults
    PROVE  Typed'
<1> TypeOK /\ Placed /\ Booked /\ Collected
  BY DEF Typed
<1>1. TypeOK'
  <2>1. outcome' \in [Engines -> {"running", "done", "cancelled", "failed"}]
    BY DEF Return, Raise, ChildFails, End, TypeOK
  <2>3. faults' \in 0..MaxFaults
    <3>1. CASE ChildFails(e)
      BY <3>1, ScenarioFacts DEF ChildFails, TypeOK
    <3>2. CASE UNCHANGED faults
      BY <3>2 DEF TypeOK, MaxFaults
    <3> QED
      BY <3>1, <3>2 DEF Return, Raise
  <2>4. light' \in BOOLEAN
    BY DEF Return, Raise, ChildFails, End, TypeOK, stores
  <2>5. graph' \in BOOLEAN
    BY DEF Return, Raise, ChildFails, End, TypeOK, stores
  <2>6. /\ copy' \in [Actors -> Rows \cup {NoCopy}]
        /\ dcopy' \in [Actors -> DocRows \cup {NoCopy}]
        /\ saving' \in [Actors -> {"no", "written", "checked"}]
    BY DEF Return, Raise, ChildFails, End, TypeOK, copies
  <2>2. UNCHANGED <<rows, blobs, deletions, flag, verdict, todo, api>>
    BY DEF Return, Raise, ChildFails, End, stores
  <2> QED
    BY <2>1, <2>2, <2>3, <2>4, <2>5, <2>6 DEF TypeOK, MaxRequests, MaxFaults, rows, api
<1>2. \E how \in {"done", "cancelled", "failed"} : outcome' = [outcome EXCEPT ![e] = how]
  BY DEF Return, Raise, ChildFails, End
<1>3. /\ pc' = [pc EXCEPT ![e] = "over"]
      /\ UNCHANGED <<deletions, todo, request, requests>> /\ Targets' = Targets
  BY DEF Return, Raise, ChildFails, End, Goto, stores, api, Targets
<1>4. /\ Placed' /\ pc'[e] = "over" /\ pc[e] # "idle"
      /\ \A b \in Actors \ {e} : pc'[b] = pc[b]
  BY <1>3 DEF Placed, Actors, Return, Raise, ChildFails
<1>5. Booked'
  BY <1>3, <1>4, BooksStay DEF Actors, Engines
<1>6. \A x \in Engines : outcome'[x] # "running" <=> (x = e \/ outcome[x] # "running")
  BY <1>2 DEF TypeOK
<1>7. Collected'
  BY <1>3, <1>4, <1>6 DEF Collected, Actors, Engines
<1> QED
  BY <1>1, <1>4, <1>5, <1>7 DEF Typed

(* The pipeline. *)

LEMMA MainBranchKeeps ==
    ASSUME Typed, UNCHANGED scenario, NEW from, NEW test, NEW yes, NEW no,
           Branch("main", from, test, yes, no), Onward(from, yes), Onward(from, no)
    PROVE  Typed'
<1>1. /\ Moves("main", from, yes) \/ Moves("main", from, no)
      /\ RowsTyped' /\ Rest
  BY BranchTyped DEF Typed, Actors
<1> QED
  BY <1>1, MainRowsKeep

LEMMA MainStatusKeeps ==
    ASSUME Typed, UNCHANGED scenario, NEW s \in Statuses, NEW from, NEW to,
           Updates("main", from, SetStatus(copy["main"], s), to), Onward(from, to)
    PROVE  Typed'
<1>1. Moves("main", from, to) /\ RowsTyped' /\ Rest
  BY UpdateTyped, StatusTyped DEF Typed, Actors
<1> QED
  BY <1>1, MainRowsKeep

LEMMA MainPagesKeep ==
    ASSUME Typed, UNCHANGED scenario, NEW from, NEW to, NEW cancelled,
           SaveArtifact("main", "pages", from, to, cancelled),
           Onward(from, to), Onward(from, cancelled)
    PROVE  Typed'
<1>1. /\ Moves("main", from, to) \/ Moves("main", from, cancelled)
      /\ RowsTyped' /\ Rest
  BY SaveArtifactTyped DEF Typed, Actors, Files
<1> QED
  BY <1>1, MainRowsKeep

(* A step of the pipeline that leaves the rows alone. *)
LEMMA MainDropKeeps ==
    ASSUME Typed, UNCHANGED scenario, NEW to, pc' = [pc EXCEPT !["main"] = to],
           UNCHANGED <<rows, stores, deletions, outcome, api>>,
           copy' \in [Actors -> Rows \cup {NoCopy}],
           dcopy' \in [Actors -> DocRows \cup {NoCopy}],
           saving' \in [Actors -> {"no", "written", "checked"}],
           todo'["api"] = todo["api"],
           todo' \in [{"main", "api"} -> SUBSET Engines], todo'["main"] \subseteq Targets,
           verdict' \in Statuses, flag' \in BOOLEAN, faults' \in 0..MaxFaults,
           to \in Beginning => pc["main"] \in Beginning,
           \A e \in Engines : to \in {Report[e], ReportDoc[e]} => outcome[e] # "running" /\ e \in Targets
    PROVE  Typed'
<1> TypeOK /\ Placed /\ Booked /\ Collected
  BY DEF Typed
<1>1. /\ Placed' /\ pc'["main"] = to /\ \A b \in Actors \ {"main"} : pc'[b] = pc[b]
  BY DEF Placed, Actors
<1>2. TypeOK'
  BY DEF TypeOK, MaxRequests, MaxFaults, rows, stores, api
<1>3. Booked'
  BY <1>1, BooksStay DEF Actors, api
<1>4. Targets' = Targets /\ \A e \in Engines : pc'[e] = pc[e]
  BY <1>1 DEF Targets, Actors, Engines
<1>5. Collected'
  BY <1>1, <1>4 DEF Collected
<1> QED
  BY <1>1, <1>2, <1>3, <1>5 DEF Typed

LEMMA MainMoveKeeps ==
    ASSUME Typed, UNCHANGED scenario, NEW to, pc' = [pc EXCEPT !["main"] = to],
           UNCHANGED <<rows, stores, deletions, saving, copies, outcome, api>>,
           todo'["api"] = todo["api"],
           todo' \in [{"main", "api"} -> SUBSET Engines], todo'["main"] \subseteq Targets,
           verdict' \in Statuses, flag' \in BOOLEAN, faults' \in 0..MaxFaults,
           to \in Beginning => pc["main"] \in Beginning,
           \A e \in Engines : to \in {Report[e], ReportDoc[e]} => outcome[e] # "running" /\ e \in Targets
    PROVE  Typed'
<1>1. /\ copy' \in [Actors -> Rows \cup {NoCopy}]
      /\ dcopy' \in [Actors -> DocRows \cup {NoCopy}]
      /\ saving' \in [Actors -> {"no", "written", "checked"}]
  BY DEF Typed, TypeOK, copies
<1> QED
  BY <1>1, MainDropKeeps

LEMMA StartKeepsTypes ==
    ASSUME Typed, UNCHANGED scenario, Start \/ Open \/ Joined
    PROVE  Typed'
<1>1. ASSUME NEW from, NEW test, NEW yes, NEW no, Branch("main", from, test, yes, no),
             Onward(from, yes), Onward(from, no)
      PROVE  Typed'
  BY <1>1, MainBranchKeeps
<1>2. CASE Start
  BY <1>1, <1>2 DEF Start, Onward, ReportSteps, Beginning, BeforeFork
<1>3. CASE Open
  <2>1. \A to \in {"parse", "noDocument", "reuse"} : Onward("open", to)
    BY DEF Onward, ReportSteps, Beginning, BeforeFork
  <2>2. CASE Branch("main", "open", doc.stored, "parse", "noDocument")
    BY <1>1, <2>1, <2>2
  <2>3. CASE Branch("main", "open", TRUE, "reuse", "reuse")
    BY <1>1, <2>1, <2>3
  <2> QED
    BY <1>3, <2>2, <2>3 DEF Open
<1>4. CASE Joined
  BY <1>1, <1>4 DEF Joined, Onward, ReportSteps, Beginning, BeforeFork
<1> QED
  BY <1>2, <1>3, <1>4

LEMMA ParseKeepsTypes ==
    ASSUME Typed, UNCHANGED scenario, Parse \/ ParserFails
    PROVE  Typed'
<1>0. ASSUME NEW from, NEW test, NEW yes, NEW no, Branch("main", from, test, yes, no),
             Onward(from, yes), Onward(from, no)
      PROVE  Typed'
  BY <1>0, MainBranchKeeps
<1>1. CASE \/ Branch("main", "parse", IsCancelled("main"), "sayCancelled", "parsing")
           \/ Branch("main", "parsed", IsCancelled("main"), "sayCancelled", "savePages")
           \/ "legacy" \notin Targets /\ Branch("main", "indexingDoc", TRUE, "fork", "fork")
  <2>1. /\ Onward("parse", "sayCancelled") /\ Onward("parse", "parsing")
        /\ Onward("parsed", "sayCancelled") /\ Onward("parsed", "savePages")
        /\ Onward("indexingDoc", "fork")
    BY DEF Onward, ReportSteps, Beginning, BeforeFork
  <2>2. CASE Branch("main", "parse", IsCancelled("main"), "sayCancelled", "parsing")
    BY <1>0, <2>1, <2>2
  <2>3. CASE Branch("main", "parsed", IsCancelled("main"), "sayCancelled", "savePages")
    BY <1>0, <2>1, <2>3
  <2>4. CASE Branch("main", "indexingDoc", TRUE, "fork", "fork")
    BY <1>0, <2>1, <2>4
  <2> QED
    BY <1>1, <2>2, <2>3, <2>4
<1>2. CASE UpdateMeta("main", "parsing", LAMBDA row : SetStatus(row, "parsing"), "parsed")
  <2>1. Updates("main", "parsing", SetStatus(copy["main"], "parsing"), "parsed")
    BY <1>2 DEF UpdateMeta, Updates
  <2> QED
    BY <2>1, MainStatusKeeps DEF Onward, ReportSteps, Beginning, BeforeFork, Statuses
<1>3. CASE UpdateMeta("main", "indexing", LAMBDA row : SetStatus(row, "indexing"), "indexingDoc")
  <2>1. Updates("main", "indexing", SetStatus(copy["main"], "indexing"), "indexingDoc")
    BY <1>3 DEF UpdateMeta, Updates
  <2> QED
    BY <2>1, MainStatusKeeps DEF Onward, ReportSteps, Beginning, BeforeFork, Statuses
<1>4. CASE SaveArtifact("main", "pages", "savePages", "indexing", "failing")
  BY <1>4, MainPagesKeep DEF Onward, ReportSteps, Beginning, BeforeFork
<1>5. CASE UpdateDoc("main", "indexingDoc", LAMBDA row : SetDoc(row, "legacy", "indexing"), "fork")
  <2>1. DocUpdates("main", "indexingDoc", SetDoc(dcopy["main"], "legacy", "indexing"), "fork")
    BY <1>5 DEF UpdateDoc, DocUpdates
  <2>2. dcopy["main"] \in DocRows => SetDoc(dcopy["main"], "legacy", "indexing") \in DocRows
    BY DocTyped DEF Engines, EngineStatuses
  <2>3. Moves("main", "indexingDoc", "fork") /\ RowsTyped' /\ Rest
    BY <2>1, <2>2, DocUpdateTyped DEF Typed, Actors
  <2> QED
    BY <2>3, MainRowsKeep DEF Onward, ReportSteps, Beginning, BeforeFork
<1>6. CASE ParserFails
  <2>1. faults' \in 0..MaxFaults
    BY <1>6, ScenarioFacts DEF ParserFails, Typed, TypeOK
  <2>2. pc' = [pc EXCEPT !["main"] = "failing"]
    BY <1>6 DEF ParserFails, Goto
  <2>3. UNCHANGED <<rows, stores, deletions, outcome, api, todo, verdict, flag>>
    BY <1>6 DEF ParserFails, worker
  <2>6. /\ copy' \in [Actors -> Rows \cup {NoCopy}]
        /\ dcopy' \in [Actors -> DocRows \cup {NoCopy}]
        /\ saving' \in [Actors -> {"no", "written", "checked"}]
    BY <1>6 DEF ParserFails, Typed, TypeOK
  <2>4. /\ todo' \in [{"main", "api"} -> SUBSET Engines] /\ todo'["main"] \subseteq Targets
        /\ verdict' \in Statuses /\ flag' \in BOOLEAN
    BY <2>3 DEF Typed, TypeOK, Collected
  <2>5. "failing" \notin Beginning /\ \A e \in Engines : "failing" \notin {Report[e], ReportDoc[e]}
    BY Reports DEF Beginning, BeforeFork
  <2> QED
    BY <2>1, <2>2, <2>3, <2>4, <2>5, <2>6, MainDropKeeps
<1> QED
  BY <1>1, <1>2, <1>3, <1>4, <1>5, <1>6 DEF Parse

LEMMA SettleKeepsTypes ==
    ASSUME Typed, UNCHANGED scenario, Settle \/ Failing \/ FailDocument
    PROVE  Typed'
<1> USE DEF Onward, ReportSteps, Beginning, BeforeFork, Statuses, Terminal
<1>1. CASE UpdateMeta("main", "settle", LAMBDA row : SetStatus(row, verdict), "finally")
  <2>1. Updates("main", "settle", SetStatus(copy["main"], verdict), "finally")
    BY <1>1 DEF UpdateMeta, Updates
  <2>2. verdict \in Statuses
    BY DEF Typed, TypeOK
  <2> QED
    BY <2>1, <2>2, MainStatusKeeps
<1>2. CASE UpdateMeta("main", "sayCancelled", LAMBDA row : SetStatus(row, "cancelled"), "finally")
  <2>1. Updates("main", "sayCancelled", SetStatus(copy["main"], "cancelled"), "finally")
    BY <1>2 DEF UpdateMeta, Updates
  <2> QED
    BY <2>1, MainStatusKeeps
<1>3. CASE UpdateMeta("main", "noDocument", LAMBDA row : SetStatus(row, "failed"), "over")
  <2>1. Updates("main", "noDocument", SetStatus(copy["main"], "failed"), "over")
    BY <1>3 DEF UpdateMeta, Updates
  <2> QED
    BY <2>1, MainStatusKeeps
<1>4. CASE UpdateMeta("main", "stopped", LAMBDA row : SetStatus(row, "cancelled"), "over")
  <2>1. Updates("main", "stopped", SetStatus(copy["main"], "cancelled"), "over")
    BY <1>4 DEF UpdateMeta, Updates
  <2> QED
    BY <2>1, MainStatusKeeps
<1>5. CASE Failing
  <2>1. Updates("main", "failing", SetStatus(copy["main"], "failed"), "failEngines")
    BY <1>5 DEF Failing, UpdateMeta, Updates
  <2> QED
    BY <2>1, MainStatusKeeps
<1>6. CASE Branch("main", "failEngines", TRUE, "failStatus", "failStatus")
  BY <1>6, MainBranchKeeps
<1>7. CASE UpdateDoc("main", "failStatus", LAMBDA row : SetStatus(row, "failed"), "finally")
  <2>1. DocUpdates("main", "failStatus", SetStatus(dcopy["main"], "failed"), "finally")
    BY <1>7 DEF UpdateDoc, DocUpdates
  <2>2. dcopy["main"] \in DocRows => SetStatus(dcopy["main"], "failed") \in DocRows
    BY DEF SetStatus, DocRows
  <2>3. Moves("main", "failStatus", "finally") /\ RowsTyped' /\ Rest
    BY <2>1, <2>2, DocUpdateTyped DEF Typed, Actors
  <2> QED
    BY <2>3, MainRowsKeep
<1> QED
  BY <1>1, <1>2, <1>3, <1>4, <1>5, <1>6, <1>7 DEF Settle, FailDocument

(* The engines are started: one that is not part of the job stays as it was, one
   that is has not been started before. *)
LEMMA StartsKeepTypes ==
    ASSUME Typed, UNCHANGED scenario, Fork \/ RetryStarts
    PROVE  Typed'
<1> TypeOK /\ Placed /\ Booked /\ Collected /\ Targets \subseteq Engines
  BY ScenarioFacts DEF Typed
<1>1. /\ pc' = [b \in Actors |-> pc'[b]] /\ pc'["api"] = pc["api"]
      /\ pc'["main"] \in {"join", "retrying"} /\ pc["main"] \in {"fork", "retry"}
  BY DEF Placed, Fork, RetryStarts, Actors, Engines
<1>0. \A e \in Engines : pc[e] = "idle" /\ pc'[e] # "over"
  <2>1. \A e \in Engines : pc[e] = "idle"
    BY <1>1 DEF Collected, Beginning, BeforeFork
  <2> QED
    BY <2>1 DEF Fork, RetryStarts, Placed, Actors, Engines
<1>2. /\ UNCHANGED <<rows, stores, deletions, flag, saving, copies, outcome, verdict, api, faults>>
      /\ todo' \in {todo, [todo EXCEPT !["main"] = Targets]}
  BY DEF Fork, RetryStarts, worker
<1>3. /\ todo' \in [{"main", "api"} -> SUBSET Engines] /\ todo'["api"] = todo["api"]
      /\ \A a \in {"main", "api"} : todo'[a] \subseteq Targets
  BY <1>2 DEF TypeOK, Collected
<1>4. TypeOK'
  BY <1>2, <1>3 DEF TypeOK, MaxRequests, MaxFaults, rows, stores, copies, api
<1>5. Placed'
  BY <1>1 DEF Placed
<1>6. Booked'
  BY <1>1, <1>2, <1>3, BooksStay DEF api
<1>7. Collected'
  <2>1. Targets' = Targets /\ outcome' = outcome
    BY <1>2 DEF Targets
  <2>2. /\ pc'["main"] \notin Beginning
        /\ \A e \in Engines : pc'["main"] \notin {Report[e], ReportDoc[e]}
    BY <1>1, Reports DEF Beginning, BeforeFork
  <2> QED
    BY <1>0, <1>3, <2>1, <2>2 DEF Collected
<1> QED
  BY <1>4, <1>5, <1>6, <1>7 DEF Typed

LEMMA VisitKeepsTypes ==
    ASSUME Typed, UNCHANGED scenario, NEW e \in Engines, NEW to, Visit("main", e, to),
           \A x \in Engines : to \in {Report[x], ReportDoc[x]} => outcome[x] # "running" /\ x \in Targets,
           to \notin Beginning
    PROVE  Typed'
<1>1. pc' = [pc EXCEPT !["main"] = to]
  BY DEF Visit, Goto
<1>2. /\ todo' \in [{"main", "api"} -> SUBSET Engines] /\ todo'["api"] = todo["api"]
      /\ todo'["main"] \subseteq Targets
  BY DEF Typed, TypeOK, Collected, Visit
<1>3. UNCHANGED <<rows, stores, deletions, flag, saving, copies, outcome, verdict, api, faults>>
  BY DEF Visit
<1>4. verdict' \in Statuses /\ flag' \in BOOLEAN /\ faults' \in 0..MaxFaults
  BY <1>3 DEF Typed, TypeOK
<1> QED
  BY <1>1, <1>2, <1>3, <1>4, MainMoveKeeps

LEMMA JoinKeepsTypes ==
    ASSUME Typed, UNCHANGED scenario, NEW e \in Targets, Join(e)
    PROVE  Typed'
<1> e \in Engines /\ "main" \in Actors
  BY ScenarioFacts DEF Typed, Actors
<1>0. outcome[e] \in {"running", "done", "cancelled", "failed"}
  BY DEF Typed, TypeOK
<1>1. CASE /\ pc["main"] = "join" /\ outcome[e] # "running"
           /\ Visit("main", e, IF outcome[e] = "done" THEN "join" ELSE Report[e])
  <2>1. "join" \notin Beginning /\ \A x \in Engines : "join" \notin {Report[x], ReportDoc[x]}
    BY Reports DEF Beginning, BeforeFork
  <2>2. /\ Report[e] \notin Beginning
        /\ \A x \in Engines : Report[e] \in {Report[x], ReportDoc[x]} => x = e
    BY Reports DEF Engines, Beginning, BeforeFork
  <2>3. CASE outcome[e] = "done"
    BY <1>1, <2>1, <2>3, VisitKeepsTypes
  <2>4. CASE outcome[e] # "done"
    BY <1>1, <2>2, <2>4, VisitKeepsTypes
  <2> QED
    BY <2>3, <2>4
<1>2. CASE SetEngine("main", e, outcome[e], Report[e], ReportDoc[e], "join")
  <2>1. pc["main"] \in {Report[e], ReportDoc[e]}
    BY <1>2 DEF SetEngine, UpdateDoc
  <2>2. outcome[e] \in EngineStatuses /\ outcome[e] # "running"
    BY <1>0, <2>1 DEF Typed, Collected, EngineStatuses
  <2>3. /\ Moves("main", Report[e], ReportDoc[e]) \/ Moves("main", ReportDoc[e], "join")
        /\ RowsTyped' /\ Rest
    BY <1>2, <2>2, SetEngineTyped DEF Typed
  <2>4. CASE Moves("main", Report[e], ReportDoc[e])
    <3>1. /\ ReportDoc[e] \notin Beginning
          /\ \A x \in Engines : ReportDoc[e] \in {Report[x], ReportDoc[x]} => x = e
      BY Reports DEF Engines, Beginning, BeforeFork
    <3> QED
      BY <2>2, <2>3, <2>4, <3>1, WorkerRowsKeep
  <2>5. CASE Moves("main", ReportDoc[e], "join")
    BY <2>3, <2>5, MainRowsKeep DEF Onward, ReportSteps, Beginning, BeforeFork
  <2> QED
    BY <2>3, <2>4, <2>5
<1> QED
  BY <1>1, <1>2 DEF Join

LEMMA FailEngineKeepsTypes ==
    ASSUME Typed, UNCHANGED scenario, NEW e \in Targets, FailEngine(e)
    PROVE  Typed'
<1> e \in Engines /\ "main" \in Actors
  BY ScenarioFacts DEF Typed, Actors
<1>0. {"failEngines", Fail[e], FailDoc[e]} \cap (ReportSteps \cup Beginning) = {}
  BY DEF Fail, FailDoc, Engines, ReportSteps, Beginning, BeforeFork
<1>1. CASE /\ pc["main"] = "failEngines"
           /\ Visit("main", e, IF meta.stored /\ meta[e] = "done" THEN "failEngines" ELSE Fail[e])
  <2>1. \A x \in Engines : {Report[x], ReportDoc[x]} \cap {"failEngines", Fail[e], FailDoc[e]} = {}
    BY <1>0, Reports DEF ReportSteps
  <2> QED
    BY <1>0, <1>1, <2>1, VisitKeepsTypes
<1>2. CASE SetEngine("main", e, "failed", Fail[e], FailDoc[e], "failEngines")
  <2>1. "failed" \in EngineStatuses
    BY DEF EngineStatuses
  <2>2. /\ Moves("main", Fail[e], FailDoc[e]) \/ Moves("main", FailDoc[e], "failEngines")
        /\ RowsTyped' /\ Rest
    BY <1>2, <2>1, SetEngineTyped DEF Typed
  <2> QED
    BY <1>0, <2>2, MainRowsKeep DEF Onward
<1> QED
  BY <1>1, <1>2 DEF FailEngine

LEMMA TallyKeepsTypes ==
    ASSUME Typed, UNCHANGED scenario, Tally \/ Finally
    PROVE  Typed'
<1>1. \E to \in {"settle", "over"} : pc' = [pc EXCEPT !["main"] = to]
  BY DEF Tally, Finally, Goto
<1>2. UNCHANGED <<rows, stores, deletions, saving, copies, outcome, todo, api, faults>>
  BY DEF Tally, Finally, worker
<1>3. verdict' \in Statuses /\ flag' \in BOOLEAN
  <2>1. CASE Tally
    BY <2>1 DEF Tally, Typed, TypeOK, Verdict, Statuses, Terminal
  <2>2. CASE Finally
    <3>1. verdict' = verdict /\ (flag' = flag \/ flag' = FALSE)
      BY <2>2 DEF Finally, worker, Typed, TypeOK
    <3> QED
      BY <3>1 DEF Typed, TypeOK
  <2> QED
    BY <2>1, <2>2
<1>4. /\ todo' \in [{"main", "api"} -> SUBSET Engines] /\ todo'["main"] \subseteq Targets
      /\ faults' \in 0..MaxFaults
  BY <1>2 DEF Typed, TypeOK, Collected
<1>5. /\ {"settle", "over"} \cap Beginning = {}
      /\ \A e \in Engines : {"settle", "over"} \cap {Report[e], ReportDoc[e]} = {}
  BY Reports DEF Beginning, BeforeFork
<1> QED
  BY <1>1, <1>2, <1>3, <1>4, <1>5, MainMoveKeeps

LEMMA MissingKeepsTypes ==
    ASSUME Typed, UNCHANGED scenario, RowIsMissing
    PROVE  Typed'
<1>1. CASE pc["legacy"] = "progress" /\ End("legacy", "failed") /\ UNCHANGED faults
  BY <1>1, EngineEndsKeepTypes DEF Engines
<1>2. CASE ~(pc["legacy"] = "progress" /\ End("legacy", "failed") /\ UNCHANGED faults)
  <2>1. /\ \E to \in {"failing", "finally", "over"} : pc' = [pc EXCEPT !["main"] = to]
        /\ todo' = [todo EXCEPT !["main"] = Targets]
        /\ UNCHANGED <<rows, stores, deletions, flag, saving, copies, outcome, verdict, api, faults>>
    BY <1>2 DEF RowIsMissing, Goto
  <2>2. /\ todo' \in [{"main", "api"} -> SUBSET Engines] /\ todo'["main"] \subseteq Targets
        /\ todo'["api"] = todo["api"]
    BY <2>1, ScenarioFacts DEF Typed, TypeOK
  <2>3. verdict' \in Statuses /\ flag' \in BOOLEAN /\ faults' \in 0..MaxFaults
    BY <2>1 DEF Typed, TypeOK
  <2>4. /\ {"failing", "finally", "over"} \cap Beginning = {}
        /\ \A e \in Engines : {"failing", "finally", "over"} \cap {Report[e], ReportDoc[e]} = {}
    BY Reports DEF Beginning, BeforeFork
  <2> QED
    BY <2>1, <2>2, <2>3, <2>4, MainMoveKeeps
<1> QED
  BY <1>1, <1>2

LEMMA RetryKeepsTypes ==
    ASSUME Typed, UNCHANGED scenario, Retry
    PROVE  Typed'
<1> "main" \in Actors /\ "lightrag" \in Engines
  BY DEF Actors, Engines
<1>0. /\ \A to \in {"retrying", "retryingDoc", "retryEnds", "retried", "retryFailed", "retryDone",
                    "stopped", "over"} : \A from : Onward(from, to)
      /\ Onward("reuse", "reusing") /\ Onward("reusing", "retry")
  BY DEF Onward, ReportSteps, Beginning, BeforeFork
<1> "failed" \in Statuses /\ "done" \in Statuses /\ "indexing" \in Statuses
  BY DEF Statuses, Terminal
<1>1. CASE SaveArtifact("main", "pages", "reuse", "reusing", "over")
  BY <1>0, <1>1, MainPagesKeep
<1>2. CASE UpdateMeta("main", "reusing", LAMBDA row : SetStatus(row, "indexing"), "retry")
  <2>1. Updates("main", "reusing", SetStatus(copy["main"], "indexing"), "retry")
    BY <1>2 DEF UpdateMeta, Updates
  <2> QED
    BY <1>0, <2>1, MainStatusKeeps
<1>3. CASE RetryStarts
  BY <1>3, StartsKeepTypes
<1>4. CASE outcome["lightrag"] \in {"cancelled", "failed"}
           /\ SetEngine("main", "lightrag", outcome["lightrag"], "retrying", "retryingDoc", "retryEnds")
  <2>1. outcome["lightrag"] \in EngineStatuses
    BY <1>4 DEF EngineStatuses
  <2>2. /\ Moves("main", "retrying", "retryingDoc") \/ Moves("main", "retryingDoc", "retryEnds")
        /\ RowsTyped' /\ Rest
    BY <1>4, <2>1, SetEngineTyped DEF Typed
  <2> QED
    BY <1>0, <2>2, MainRowsKeep
<1>5. CASE Branch("main", "retrying", TRUE, "retried", "retried")
  BY <1>0, <1>5, MainBranchKeeps
<1>6. CASE Branch("main", "retryEnds", outcome["lightrag"] = "failed", "retryFailed", "stopped")
  BY <1>0, <1>6, MainBranchKeeps
<1>7. CASE Branch("main", "retried", IsCancelled("main"), "stopped", "retryDone")
  BY <1>0, <1>7, MainBranchKeeps
<1>8. CASE UpdateMeta("main", "retryFailed", LAMBDA row : SetStatus(row, "failed"), "over")
  <2>1. Updates("main", "retryFailed", SetStatus(copy["main"], "failed"), "over")
    BY <1>8 DEF UpdateMeta, Updates
  <2> QED
    BY <1>0, <2>1, MainStatusKeeps
<1>9. CASE UpdateMeta("main", "retryDone", LAMBDA row : SetStatus(row, "done"), "over")
  <2>1. Updates("main", "retryDone", SetStatus(copy["main"], "done"), "over")
    BY <1>9 DEF UpdateMeta, Updates
  <2> QED
    BY <1>0, <2>1, MainStatusKeeps
<1> QED
  BY <1>1, <1>2, <1>3, <1>4, <1>5, <1>6, <1>7, <1>8, <1>9 DEF Retry

LEMMA PipelineKeepsTypes ==
    ASSUME Typed, UNCHANGED scenario, Pipeline \/ ParserFails
    PROVE  Typed'
BY StartKeepsTypes, ParseKeepsTypes, StartsKeepTypes, TallyKeepsTypes, SettleKeepsTypes,
   RetryKeepsTypes, JoinKeepsTypes, FailEngineKeepsTypes, MissingKeepsTypes DEF Pipeline

(* The API thread. *)

LEMMA BooksKept ==
    ASSUME Typed, UNCHANGED <<scenario, deletions, requests>>, MayAdd' => MayAdd
    PROVE  Booked'
<1>1. Asked \in Nat /\ deletions \in Nat /\ MaxRequests \in Nat /\ MaxRequests' = MaxRequests
  BY ScenarioFacts DEF Typed, TypeOK, Asked, MaxRequests
<1>2. Asked' = Asked /\ deletions' = deletions
  BY DEF Asked
<1> QED
  BY <1>1, <1>2 DEF Typed, Booked

LEMMA ApiKeeps ==
    ASSUME Typed, UNCHANGED scenario, Placed', \A b \in Actors \ {"api"} : pc'[b] = pc[b],
           RowsTyped', Booked', UNCHANGED <<light, outcome, verdict, faults>>,
           graph' \in BOOLEAN, flag' \in BOOLEAN, deletions' \in Nat,
           todo' \in [{"main", "api"} -> SUBSET Engines], todo'["main"] = todo["main"],
           todo'["api"] \subseteq Targets,
           snap' \in Rows, dsnap' \in DocRows, request' \in {"none", "cancel", "delete", "drop"},
           requests' \in [cancel : 0..MaxRequests, delete : 0..MaxRequests]
    PROVE  Typed'
<1> TypeOK /\ Placed /\ Booked /\ Collected /\ Targets \subseteq Engines /\ MaxRequests \in Nat
  BY ScenarioFacts DEF Typed
<1>1. MaxRequests' = MaxRequests /\ MaxFaults' = MaxFaults /\ Targets' = Targets
  BY DEF MaxRequests, MaxFaults, Targets
<1>3. deletions' \in 0..MaxRequests
  BY <1>1 DEF Booked, Asked
<1>4. TypeOK'
  BY <1>1, <1>3 DEF TypeOK, RowsTyped
<1>6. Collected'
  BY <1>1 DEF Collected, Actors, Engines
<1> QED
  BY <1>4, <1>6 DEF Typed

(* Steps that update the rows only. *)
LEMMA ApiRowsKeep ==
    ASSUME Typed, UNCHANGED scenario, NEW from, NEW to, Moves("api", from, to), RowsTyped', Rest,
           MayAdd' => MayAdd
    PROVE  Typed'
<1>1. Booked'
  BY BooksKept DEF Rest
<1>2. /\ graph' \in BOOLEAN /\ flag' \in BOOLEAN /\ deletions' \in Nat
      /\ todo' \in [{"main", "api"} -> SUBSET Engines] /\ todo'["main"] = todo["main"]
      /\ todo'["api"] \subseteq Targets
      /\ snap' \in Rows /\ dsnap' \in DocRows /\ request' \in {"none", "cancel", "delete", "drop"}
      /\ requests' \in [cancel : 0..MaxRequests, delete : 0..MaxRequests]
  BY DEF Typed, TypeOK, Collected, Rest
<1>3. /\ Placed' /\ \A b \in Actors \ {"api"} : pc'[b] = pc[b]
      /\ UNCHANGED <<light, outcome, verdict, faults, todo>>
  BY DEF Moves, Rest, Typed, Placed, Actors
<1> QED
  BY <1>1, <1>2, <1>3, ApiKeeps

VisitSteps == {"visit", "voidLegacy", "voidLegacyDoc", "voidLightrag", "voidLightragDoc"}

LEMMA MayAddMoves ==
    ASSUME Placed, NEW from, NEW to, Moves("api", from, to), UNCHANGED <<todo, request>>,
           \/ from \in {"cancelRow", "detach"}
           \/ from \in VisitSteps /\ to \in VisitSteps
           \/ to \in {"idle", "unpublish", "jobs", "drop", "row"}
    PROVE  MayAdd' => MayAdd
<1>1. pc["api"] = from /\ pc'["api"] \in {from, to}
  BY DEF Placed, Moves, Actors
<1> QED
  BY <1>1 DEF MayAdd, VisitSteps

LEMMA ApiRowStepsKeepTypes ==
    ASSUME Typed, UNCHANGED scenario,
           \/ CancelRow \/ Detach
           \/ \E e \in Engines : SetEngine("api", e, "cancelled", Void[e], VoidDoc[e], "visit")
    PROVE  Typed'
<1> "api" \in Actors /\ Placed /\ "cancelled" \in Statuses /\ "cancelled" \in EngineStatuses
  BY DEF Actors, Typed, Statuses, Terminal, EngineStatuses
<1>1. CASE CancelRow
  <2>1. Updates("api", "cancelRow", SetStatus(copy["api"], "cancelled"), "visit")
    BY <1>1 DEF CancelRow, UpdateMeta, Updates
  <2>2. Moves("api", "cancelRow", "visit") /\ RowsTyped' /\ Rest
    BY <2>1, UpdateTyped, StatusTyped DEF Typed
  <2>3. MayAdd' => MayAdd
    BY <2>2, MayAddMoves DEF Rest
  <2> QED
    BY <2>2, <2>3, ApiRowsKeep
<1>2. CASE Detach
  <2> DEFINE row == [copy["api"] EXCEPT !.status = "cancelled", !.detached = TRUE]
  <2>1. Updates("api", "detach", row, "purge")
    BY <1>2 DEF Detach, UpdateMeta, Updates
  <2>2. copy["api"] \in Rows => row \in Rows
    BY DEF Rows
  <2>3. Moves("api", "detach", "purge") /\ RowsTyped' /\ Rest
    BY <2>1, <2>2, UpdateTyped DEF Typed
  <2>4. MayAdd' => MayAdd
    BY <2>3, MayAddMoves DEF Rest
  <2> QED
    BY <2>3, <2>4, ApiRowsKeep
<1>3. ASSUME NEW e \in Engines, SetEngine("api", e, "cancelled", Void[e], VoidDoc[e], "visit")
      PROVE  Typed'
  <2>1. /\ Moves("api", Void[e], VoidDoc[e]) \/ Moves("api", VoidDoc[e], "visit")
        /\ RowsTyped' /\ Rest
    BY <1>3, SetEngineTyped DEF Typed
  <2>2. {Void[e], VoidDoc[e], "visit"} \subseteq VisitSteps
    BY DEF Void, VoidDoc, VisitSteps, Engines
  <2>3. MayAdd' => MayAdd
    BY <2>1, <2>2, MayAddMoves DEF Rest
  <2> QED
    BY <2>1, <2>3, ApiRowsKeep
<1> QED
  BY <1>1, <1>2, <1>3

LEMMA ScheduledOnce == ASSUME NEW s PROVE Schedule(s) \in {0, 1}
BY DEF Schedule

LEMMA RequestKeepsTypes ==
    ASSUME Typed, UNCHANGED scenario, NEW kind \in {"cancel", "delete"}, Request(kind)
    PROVE  Typed'
<1> TypeOK /\ Placed /\ Booked /\ MaxRequests \in Nat /\ MaxRequests' = MaxRequests
  BY ScenarioFacts DEF Typed, MaxRequests
<1>1. PICK to \in {"cancel", "list"} : pc' = [pc EXCEPT !["api"] = to]
  BY DEF Request, ApiStep, Goto
<1>2. pc["api"] = "idle" /\ ~MayAdd
  BY DEF Request, ApiStep, MayAdd
<1>3. /\ requests' \in [cancel : 0..MaxRequests, delete : 0..MaxRequests]
      /\ Asked' = Asked + 1 /\ Asked \in Nat /\ Asked' <= MaxRequests
  BY DEF Request, TypeOK, Asked
<1>4. UNCHANGED <<rows, stores, deletions, flag, todo, snap, saving, copies, outcome, verdict, faults>>
  BY DEF Request, ApiStep
<1>5. Booked'
  BY <1>2, <1>3, <1>4 DEF Booked, TypeOK
<1>6. dsnap' \in DocRows /\ request' \in {"none", "cancel", "delete", "drop"}
  BY DEF Request, TypeOK
<1>7. RowsTyped'
  BY <1>4 DEF TypeOK, RowsTyped, rows, stores, copies
<1>8. /\ graph' \in BOOLEAN /\ flag' \in BOOLEAN /\ deletions' \in Nat
      /\ todo' \in [{"main", "api"} -> SUBSET Engines] /\ todo'["main"] = todo["main"]
      /\ todo'["api"] \subseteq Targets /\ snap' \in Rows /\ light' = light
  BY <1>4 DEF Typed, TypeOK, Collected, stores
<1>9. /\ Placed' /\ \A b \in Actors \ {"api"} : pc'[b] = pc[b]
      /\ UNCHANGED <<todo, outcome, verdict, faults>>
  BY <1>1, <1>4 DEF Placed, Actors
<1> QED
  BY <1>3, <1>5, <1>6, <1>7, <1>8, <1>9, ApiKeeps

LEMMA ApiReadsKeep ==
    ASSUME Typed, UNCHANGED scenario, NEW from, NEW to, pc["api"] = from,
           pc' = [pc EXCEPT !["api"] = to],
           UNCHANGED <<light, deletions, saving, copies, outcome, verdict, dsnap, requests, faults>>,
           meta' \in Rows, doc' \in DocRows, blobs' \subseteq Files,
           graph' \in BOOLEAN, flag' \in BOOLEAN, snap' \in Rows,
           todo' \in {todo, [todo EXCEPT !["api"] = Targets]},
           request' \in {"none", "cancel", "delete", "drop"},
           \/ from \in {"list", "cancel", "flag", "purge", "tombstone"}
           \/ to \in {"idle", "unpublish", "jobs", "drop", "row"}
           \/ from = "visit" /\ request # "cancel"
    PROVE  Typed'
<1>1. pc'["api"] = to
  BY DEF Typed, Placed, Actors
<1>2. MayAdd' => MayAdd
  BY <1>1 DEF MayAdd
<1>3. Booked'
  BY <1>2, BooksKept
<1>4. RowsTyped' /\ deletions' \in Nat /\ dsnap' \in DocRows
  BY DEF RowsTyped, Typed, TypeOK, copies
<1>5. requests' \in [cancel : 0..MaxRequests, delete : 0..MaxRequests]
  BY DEF Typed, TypeOK
<1>6. /\ todo' \in [{"main", "api"} -> SUBSET Engines] /\ todo'["main"] = todo["main"]
      /\ todo'["api"] \subseteq Targets
  BY ScenarioFacts DEF Typed, TypeOK, Collected
<1>7. Placed' /\ \A b \in Actors \ {"api"} : pc'[b] = pc[b]
  BY DEF Typed, Placed, Actors
<1> QED
  BY <1>3, <1>4, <1>5, <1>6, <1>7, ApiKeeps

LEMMA ApiReadStepsKeepTypes ==
    ASSUME Typed, UNCHANGED scenario, List \/ ReadJob \/ Flag \/ Visited
    PROVE  Typed'
<1>1. /\ UNCHANGED <<rows, stores, deletions, saving, copies, outcome, verdict, dsnap, requests, faults>>
      /\ todo' \in {todo, [todo EXCEPT !["api"] = Targets]} /\ flag' \in {flag, TRUE}
      /\ snap' \in {snap, meta} /\ request' \in {request, "delete", "drop"}
  BY DEF List, ReadJob, Flag, Visited, ApiStep, api
<1>2. /\ meta' \in Rows /\ doc' \in DocRows /\ blobs' \subseteq Files
      /\ graph' \in BOOLEAN /\ flag' \in BOOLEAN /\ snap' \in Rows /\ light' = light
      /\ request' \in {"none", "cancel", "delete", "drop"}
  BY <1>1 DEF Typed, TypeOK, rows, stores
<1>3. PICK to : pc' = [pc EXCEPT !["api"] = to]
  BY DEF List, ReadJob, Flag, Visited, ApiStep, Goto
<1>4. \/ pc["api"] \in {"list", "cancel", "flag"}
      \/ pc["api"] = "visit" /\ request # "cancel"
      \/ pc["api"] = "visit" /\ pc' = [pc EXCEPT !["api"] = "idle"]
  BY DEF List, ReadJob, Flag, Visited, ApiStep, Goto, Ended
<1>5. CASE pc["api"] = "visit" /\ pc' = [pc EXCEPT !["api"] = "idle"]
  BY <1>1, <1>2, <1>5, ApiReadsKeep
<1>6. CASE pc["api"] \in {"list", "cancel", "flag"} \/ (pc["api"] = "visit" /\ request # "cancel")
  BY <1>1, <1>2, <1>3, <1>6, ApiReadsKeep
<1> QED
  BY <1>4, <1>5, <1>6

LEMMA ApiClearsKeepTypes ==
    ASSUME Typed, UNCHANGED scenario, Purge \/ Unpublish \/ DropJob \/ DeleteRow
    PROVE  Typed'
<1>1. /\ UNCHANGED <<light, deletions, saving, copies, outcome, verdict, dsnap, requests, faults,
                     todo, request, flag>>
      /\ graph' \in {graph, FALSE} /\ snap' \in {snap, meta}
  BY DEF Purge, Unpublish, SetGraph, DropJob, DeleteRow, ApiStep, stores, worker, api
<1>2. blobs' \subseteq Files /\ graph' \in BOOLEAN /\ flag' \in BOOLEAN /\ snap' \in Rows
  <2>1. blobs' \subseteq blobs
    BY DEF Purge, Unpublish, SetGraph, DropJob, DeleteRow, stores
  <2> QED
    BY <1>1, <2>1 DEF Typed, TypeOK
<1>3. doc' \in DocRows
  <2>1. doc' \in {doc, [doc EXCEPT !.stored = FALSE]}
    BY DEF Purge, Unpublish, SetGraph, DropJob, DeleteRow, rows
  <2> QED
    BY <2>1 DEF Typed, TypeOK, DocRows
<1>4. meta' \in Rows
  <2>1. meta' \in {meta, NoRow, [Blank EXCEPT !.status = "cancelled", !.detached = snap.detached]}
    BY DEF Purge, Unpublish, SetGraph, DropJob, DeleteRow, rows
  <2>2. snap.detached \in BOOLEAN
    BY DEF Typed, TypeOK, Rows
  <2> QED
    BY <2>1, <2>2, BlankTyped DEF Typed, TypeOK
<1>5. /\ request' \in {"none", "cancel", "delete", "drop"}
      /\ todo' \in {todo, [todo EXCEPT !["api"] = Targets]}
  BY <1>1 DEF Typed, TypeOK
<1>6. \/ pc["api"] \in {"purge", "tombstone"} /\ \E to : pc' = [pc EXCEPT !["api"] = to]
      \/ \E to \in {"idle", "unpublish", "jobs", "drop", "row"} : pc' = [pc EXCEPT !["api"] = to]
  BY DEF Purge, Unpublish, SetGraph, DropJob, DeleteRow, ApiStep, Goto
<1>7. CASE pc["api"] \in {"purge", "tombstone"} /\ \E to : pc' = [pc EXCEPT !["api"] = to]
  BY <1>1, <1>2, <1>3, <1>4, <1>5, <1>7, ApiReadsKeep
<1>8. CASE \E to \in {"idle", "unpublish", "jobs", "drop", "row"} : pc' = [pc EXCEPT !["api"] = to]
  BY <1>1, <1>2, <1>3, <1>4, <1>5, <1>8, ApiReadsKeep
<1> QED
  BY <1>6, <1>7, <1>8

(* The two steps that schedule a deletion of LightRAG data. *)
LEMMA ApiSchedulesKeepTypes ==
    ASSUME Typed, UNCHANGED scenario,
           \/ ScheduleDelete
           \/ \E e \in Engines : pc["api"] = "visit" /\ CancelEngine(e)
    PROVE  Typed'
<1> TypeOK /\ Booked /\ Placed
  BY DEF Typed
<1>1. CASE ScheduleDelete
  <2>1. /\ pc' = [pc EXCEPT !["api"] = "unpublish"] /\ MayAdd
        /\ deletions' \in {deletions, deletions + 1}
        /\ UNCHANGED <<rows, stores, flag, todo, api, saving, copies, outcome, verdict, faults>>
    BY <1>1, ScheduledOnce DEF ScheduleDelete, ApiStep, Goto, MayAdd, TypeOK
  <2>2. ~MayAdd'
    BY <2>1 DEF MayAdd, Placed, Actors
  <2>3. Booked' /\ deletions' \in Nat
    BY <2>1, <2>2, ScenarioFacts DEF Booked, Asked, MaxRequests, TypeOK, api
  <2>4. /\ RowsTyped' /\ graph' \in BOOLEAN /\ flag' \in BOOLEAN /\ todo'["api"] \subseteq Targets
        /\ todo' \in [{"main", "api"} -> SUBSET Engines] /\ todo'["main"] = todo["main"]
        /\ snap' \in Rows /\ dsnap' \in DocRows /\ request' \in {"none", "cancel", "delete", "drop"}
        /\ requests' \in [cancel : 0..MaxRequests, delete : 0..MaxRequests] /\ light' = light
    BY <2>1 DEF Typed, TypeOK, Collected, RowsTyped, rows, stores, copies, api
  <2>5. /\ Placed' /\ \A b \in Actors \ {"api"} : pc'[b] = pc[b]
        /\ UNCHANGED <<light, outcome, verdict, faults>>
    BY <2>1 DEF stores, Placed, Actors
  <2> QED
    BY <2>1, <2>3, <2>4, <2>5, ApiKeeps
<1>2. ASSUME NEW e \in Engines, pc["api"] = "visit", CancelEngine(e)
      PROVE  Typed'
  <2>0. ~SetEngine("api", e, "cancelled", Void[e], VoidDoc[e], "visit")
    BY <1>2 DEF SetEngine, UpdateDoc, Void, VoidDoc, Engines
  <2>1. /\ e \in todo["api"] /\ todo' = [todo EXCEPT !["api"] = @ \ {e}]
        /\ UNCHANGED <<rows, light, blobs, flag, api, saving, copies, outcome, verdict, faults>>
        /\ graph' \in {graph, graph /\ e # "legacy"}
    BY <1>2, <2>0 DEF CancelEngine, ApiStep
  <2>2. PICK to \in {"visit", Void[e]} : pc' = [pc EXCEPT !["api"] = to]
    BY <1>2, <2>0 DEF CancelEngine, ApiStep, Goto
  <2>3. \/ deletions' = deletions
        \/ e = "lightrag" /\ request = "cancel" /\ deletions' = deletions + 1
    BY <1>2, <2>0, ScheduledOnce DEF CancelEngine, TypeOK
  <2>4. pc'["api"] \in VisitSteps /\ VisitSteps \subseteq {"visit", "voidLegacy", "voidLegacyDoc",
                                                         "voidLightrag", "voidLightragDoc"}
    BY <2>2 DEF Placed, Actors, VisitSteps, Void, Engines
  <2>5. request' = request /\ requests' = requests /\ todo'["api"] = todo["api"] \ {e}
    BY <2>1 DEF api, TypeOK
  <2>6. Booked' /\ deletions' \in Nat
    <3>1. CASE deletions' = deletions
      <4>1. MayAdd' => MayAdd
        BY <1>2, <2>4, <2>5 DEF MayAdd, VisitSteps
      <4> QED
        BY <3>1, <4>1, <2>5, BooksKept DEF TypeOK
    <3>2. CASE e = "lightrag" /\ request = "cancel" /\ deletions' = deletions + 1
      <4>1. MayAdd /\ ~MayAdd'
        BY <1>2, <2>1, <2>4, <2>5, <3>2 DEF MayAdd, VisitSteps
      <4> QED
        BY <3>2, <4>1, <2>5, ScenarioFacts DEF Booked, Asked, MaxRequests, TypeOK
    <3> QED
      BY <2>3, <3>1, <3>2
  <2>7. /\ RowsTyped' /\ graph' \in BOOLEAN /\ flag' \in BOOLEAN /\ todo'["api"] \subseteq Targets
        /\ snap' \in Rows /\ dsnap' \in DocRows /\ request' \in {"none", "cancel", "delete", "drop"}
        /\ requests' \in [cancel : 0..MaxRequests, delete : 0..MaxRequests]
        /\ todo' \in [{"main", "api"} -> SUBSET Engines] /\ todo'["main"] = todo["main"]
    BY <2>1, <2>5 DEF Typed, TypeOK, Collected, RowsTyped, rows, copies, api
  <2>8. /\ Placed' /\ \A b \in Actors \ {"api"} : pc'[b] = pc[b]
        /\ UNCHANGED <<light, outcome, verdict, faults>>
    BY <2>1, <2>2 DEF Placed, Actors
  <2> QED
    BY <2>6, <2>7, <2>8, ApiKeeps
<1> QED
  BY <1>1, <1>2

LEMMA ApiKeepsTypes ==
    ASSUME Typed, UNCHANGED scenario, Api
    PROVE  Typed'
<1>1. ASSUME NEW e \in Engines, CancelEngine(e) PROVE Typed'
  <2>1. \/ pc["api"] = "visit"
        \/ SetEngine("api", e, "cancelled", Void[e], VoidDoc[e], "visit")
    BY <1>1 DEF CancelEngine
  <2> QED
    BY <1>1, <2>1, ApiRowStepsKeepTypes, ApiSchedulesKeepTypes
<1> QED
  BY <1>1, RequestKeepsTypes, ApiRowStepsKeepTypes, ApiReadStepsKeepTypes, ApiClearsKeepTypes,
     ApiSchedulesKeepTypes DEF Api

LEMMA DeletionKeepsTypes ==
    ASSUME Typed, UNCHANGED scenario, DeleteLight
    PROVE  Typed'
<1> TypeOK /\ Placed /\ Booked /\ Collected
  BY DEF Typed
<1>1. /\ deletions' = deletions - 1 /\ deletions > 0 /\ light' = FALSE
      /\ UNCHANGED <<rows, graph, blobs, flag, pc, saving, copies, worker, api, faults>>
  BY DEF DeleteLight
<1>2. Placed' /\ Collected'
  BY <1>1 DEF Placed, Collected, Targets, worker
<1>3. Booked'
  BY <1>1, ScenarioFacts DEF Booked, Asked, MaxRequests, MayAdd, TypeOK, worker, api
<1>4. deletions' \in 0..MaxRequests
  BY <1>1, ScenarioFacts DEF TypeOK
<1>5. TypeOK'
  BY <1>1, <1>4 DEF TypeOK, MaxRequests, MaxFaults, rows, copies, worker, api
<1> QED
  BY <1>2, <1>3, <1>5 DEF Typed

LEMMA EveryStepKeepsTypes ==
    ASSUME Typed, Next, UNCHANGED scenario
    PROVE  Typed'
<1>1. ASSUME NEW e \in Engines, Child(e) PROVE Typed'
  BY <1>1, EngineEndsKeepTypes DEF Child
<1>2. CASE Pipeline \/ ParserFails
  BY <1>2, PipelineKeepsTypes
<1>3. CASE RunLegacy \/ RunLightrag
  BY <1>3, EngineStepsKeepTypes
<1>4. CASE Api
  BY <1>4, ApiKeepsTypes
<1>5. CASE DeleteLight
  BY <1>5, DeletionKeepsTypes
<1> QED
  BY <1>1, <1>2, <1>3, <1>4, <1>5 DEF Next

(* A step that changes nothing of the model. *)
Still ==
    /\ UNCHANGED <<meta, doc, snap, dsnap, graph, light, flag, blobs, deletions, saving, copy>>
    /\ UNCHANGED <<dcopy, outcome, verdict, todo, request, requests, faults, pc, scenario>>

LEMMA StillTypes == ASSUME Typed, Still PROVE Typed'
<1>1. TypeOK'
  BY DEF Still, Typed, TypeOK, MaxRequests, MaxFaults
<1>2. Booked'
  BY BooksStay DEF Still, Typed
<1>3. Placed' /\ Collected'
  BY DEF Still, Typed, Placed, Collected, Targets
<1> QED
  BY <1>1, <1>2, <1>3 DEF Typed

LEMMA InitTypes == Init => Typed
<1> SUFFICES ASSUME Init PROVE Typed
  OBVIOUS
<1> USE DEF Init
<1>1. Targets \subseteq Engines /\ MaxRequests \in Nat /\ MaxFaults \in Nat
  BY PipelineAssumption DEF Targets, MaxRequests, MaxFaults
<1>2. meta \in Rows /\ doc \in DocRows /\ snap \in Rows
  <2> DEFINE Was(e, new) == IF e \in Targets THEN new ELSE "done"
             marked == IF Distributed THEN "indexing" ELSE "pending"
  <2>1. \A e : Was(e, "pending") \in EngineStatuses /\ Was(e, marked) \in EngineStatuses
    BY DEF EngineStatuses
  <2>2. DocStatus(Was("legacy", marked)) \in {"uploaded", "indexing", "indexed", "failed"}
    BY DEF DocStatus
  <2>3. /\ meta = [Blank EXCEPT !.status = "queued", !.legacy = Was("legacy", "pending"),
                               !.lightrag = Was("lightrag", "pending")]
        /\ doc = [stored |-> TRUE, status |-> DocStatus(Was("legacy", marked)),
                  legacy |-> Was("legacy", marked), lightrag |-> Was("lightrag", marked)]
        /\ snap = NoRow
    OBVIOUS
  <2> HIDE DEF Init, Was, marked
  <2>4. "queued" \in Statuses
    BY DEF Statuses
  <2> QED
    BY <2>1, <2>2, <2>3, <2>4, BlankTyped DEF Rows, DocRows
<1>3. TypeOK
  <2>1. dsnap \in DocRows /\ graph \in BOOLEAN /\ light \in BOOLEAN /\ flag \in BOOLEAN
    BY <1>2
  <2>2. pc = pc /\ saving \in [Actors -> {"no", "written", "checked"}]
    OBVIOUS
  <2>3. copy \in [Actors -> Rows \cup {NoCopy}] /\ dcopy \in [Actors -> DocRows \cup {NoCopy}]
    OBVIOUS
  <2>4. outcome \in [Engines -> {"running", "done", "cancelled", "failed"}] /\ verdict \in Statuses
    BY DEF Statuses
  <2>5. todo \in [{"main", "api"} -> SUBSET Engines]
    BY <1>1
  <2>6. /\ blobs \subseteq Files /\ deletions \in 0..MaxRequests /\ faults \in 0..MaxFaults
        /\ requests \in [cancel : 0..MaxRequests, delete : 0..MaxRequests]
        /\ request \in {"none", "cancel", "delete", "drop"}
    BY <1>1
  <2> QED
    BY <1>2, <2>1, <2>2, <2>3, <2>4, <2>5, <2>6 DEF TypeOK
<1>4. Placed /\ pc["main"] = "start" /\ pc["api"] = "idle" /\ \A e \in Engines : pc[e] = "idle"
  BY DEF Placed, Actors, Engines
<1>5. Booked
  BY <1>1, <1>4 DEF Booked, MayAdd, Asked
<1>6. Collected
  BY <1>1, <1>4, Reports DEF Collected, Engines
<1> QED
  BY <1>3, <1>4, <1>5, <1>6 DEF Typed

-----------------------------------------------------------------------------
(* The classic index beside a job for LightRAG alone.  Nothing of the job
   writes its state, and the graph is removed by deletions only. *)

DocStill == UNCHANGED <<doc, dcopy>>
Healthy ==
    /\ doc.legacy = "done"
    /\ \A a \in Actors : dcopy[a] # NoCopy => dcopy[a].legacy = "done"

BeforeDelete == Targets = {"lightrag"} /\ requests.delete = 0
Classic ==
    BeforeDelete =>
        /\ graph /\ Healthy /\ pc["legacy"] = "idle"
        /\ pc["api"] \in {"idle", "cancel", "flag", "cancelRow", "visit", "voidLightrag",
                          "voidLightragDoc"}
        /\ pc["api"] = "idle" \/ request = "cancel"

(* A call that raises lets go of what it had loaded. *)
DocDrop(a) == doc' = doc /\ dcopy' \in {dcopy, [dcopy EXCEPT ![a] = NoCopy]}

LEMMA HealthyDrop == ASSUME TypeOK, Healthy, NEW a \in Actors, DocDrop(a) PROVE Healthy'
BY DEF TypeOK, Healthy, DocDrop

LEMMA HealthyUpdate ==
    ASSUME TypeOK, Healthy, NEW a \in Actors, NEW row, NEW from, NEW to, DocUpdates(a, from, row, to),
           dcopy[a] # NoCopy => row.legacy = dcopy[a].legacy
    PROVE  Healthy'
BY DEF TypeOK, Healthy, DocUpdates

LEMMA HealthySet ==
    ASSUME TypeOK, Healthy, NEW a \in Actors, NEW s \in EngineStatuses, NEW from, NEW mid, NEW to,
           SetEngine(a, "lightrag", s, from, mid, to)
    PROVE  Healthy'
<1>1. CASE DocUpdates(a, mid, SetDoc(dcopy[a], "lightrag", s), to)
  <2>1. dcopy[a] # NoCopy => SetDoc(dcopy[a], "lightrag", s).legacy = dcopy[a].legacy
    BY DEF TypeOK, SetDoc, DocRows
  <2> QED
    BY <1>1, <2>1, HealthyUpdate
<1>2. CASE DocStill
  BY <1>2 DEF DocStill, Healthy
<1> QED
  BY <1>1, <1>2, EngineHalves DEF DocStill

LEMMA HealthyLight == ASSUME TypeOK, Healthy, RunLightrag PROVE Healthy'
<1>1. CASE \/ SetEngine("lightrag", "lightrag", "indexing", "mark", "markDoc", "insert")
           \/ SetEngine("lightrag", "lightrag", "done", "done", "doneDoc", "return")
  BY <1>1, HealthySet DEF Actors, Engines, EngineStatuses
<1>2. CASE \/ Branch("lightrag", "begin", IsCancelled("lightrag"), "raise", "mark")
           \/ InsertPages \/ RemovePages
           \/ Branch("lightrag", "inserted", IsCancelled("lightrag"), "remove", "done")
  BY <1>2 DEF Branch, InsertPages, RemovePages, rows, copies, Healthy
<1> QED
  BY <1>1, <1>2 DEF RunLightrag

LEMMA HealthyMain ==
    ASSUME Typed, Healthy, Targets = {"lightrag"}, Pipeline \/ ParserFails
    PROVE  Healthy'
<1> TypeOK /\ "main" \in Actors /\ "failed" \in EngineStatuses
  BY DEF Typed, Actors, EngineStatuses
<1>1. CASE DocStill
  BY <1>1 DEF DocStill, Healthy
<1>2. CASE Start \/ Open \/ Joined
  BY <1>1, <1>2 DEF DocStill, Start, Open, Joined, Branch, rows, copies
<1>3. CASE Parse \/ ParserFails
  <2>1. CASE Parse
    BY <1>1, <2>1 DEF DocStill, Parse, Branch, UpdateMeta, SaveArtifact, rows, copies
  <2>2. CASE ParserFails
    BY <2>2, HealthyDrop DEF DocDrop, ParserFails, rows
  <2> QED
    BY <1>3, <2>1, <2>2
<1>4. CASE Fork \/ Tally \/ Finally \/ RowIsMissing
  BY <1>1, <1>4 DEF DocStill, Fork, Tally, Finally, RowIsMissing, End, rows, copies
<1>5. CASE Settle \/ Failing
  BY <1>1, <1>5 DEF DocStill, Settle, Failing, UpdateMeta
<1>6. CASE FailDocument
  <2>1. CASE Branch("main", "failEngines", TRUE, "failStatus", "failStatus")
    BY <1>1, <2>1 DEF DocStill, Branch, rows, copies
  <2>2. CASE UpdateDoc("main", "failStatus", LAMBDA row : SetStatus(row, "failed"), "finally")
    <3>1. DocUpdates("main", "failStatus", SetStatus(dcopy["main"], "failed"), "finally")
      BY <2>2 DEF UpdateDoc, DocUpdates
    <3>2. dcopy["main"] # NoCopy => SetStatus(dcopy["main"], "failed").legacy = dcopy["main"].legacy
      BY DEF TypeOK, SetStatus, DocRows
    <3> QED
      BY <3>1, <3>2, HealthyUpdate
  <2> QED
    BY <1>6, <2>1, <2>2 DEF FailDocument
<1>7. ASSUME NEW e \in Targets, Join(e) \/ FailEngine(e) PROVE Healthy'
  <2>1. e = "lightrag" /\ outcome[e] \in {"running", "done", "cancelled", "failed"}
    BY <1>7 DEF TypeOK, Engines
  <2>2. CASE \E to : Visit("main", e, to)
    BY <1>1, <2>2 DEF DocStill, Visit, rows, copies
  <2>3. CASE SetEngine("main", e, outcome[e], Report[e], ReportDoc[e], "join")
    <3>1. outcome[e] \in EngineStatuses
      BY <2>1, <2>3 DEF EngineStatuses, SetEngine, UpdateDoc, Typed, Collected, Engines
    <3> QED
      BY <2>1, <2>3, <3>1, HealthySet
  <2>4. CASE SetEngine("main", e, "failed", Fail[e], FailDoc[e], "failEngines")
    BY <2>1, <2>4, HealthySet
  <2> QED
    BY <1>7, <2>2, <2>3, <2>4 DEF Join, FailEngine
<1>8. CASE Retry
  <2>1. CASE outcome["lightrag"] \in {"cancelled", "failed"}
             /\ SetEngine("main", "lightrag", outcome["lightrag"], "retrying", "retryingDoc",
                          "retryEnds")
    BY <2>1, HealthySet DEF EngineStatuses
  <2>2. CASE \/ SaveArtifact("main", "pages", "reuse", "reusing", "over")
             \/ UpdateMeta("main", "reusing", LAMBDA row : SetStatus(row, "indexing"), "retry")
             \/ UpdateMeta("main", "retryFailed", LAMBDA row : SetStatus(row, "failed"), "over")
             \/ UpdateMeta("main", "retryDone", LAMBDA row : SetStatus(row, "done"), "over")
    BY <1>1, <2>2 DEF DocStill, SaveArtifact, UpdateMeta
  <2>3. CASE \/ RetryStarts \/ Branch("main", "retrying", TRUE, "retried", "retried")
             \/ Branch("main", "retryEnds", outcome["lightrag"] = "failed", "retryFailed", "stopped")
             \/ Branch("main", "retried", IsCancelled("main"), "stopped", "retryDone")
    BY <1>1, <2>3 DEF DocStill, RetryStarts, Branch, rows, copies
  <2> QED
    BY <1>8, <2>1, <2>2, <2>3 DEF Retry
<1> QED
  BY <1>2, <1>3, <1>4, <1>5, <1>6, <1>7, <1>8 DEF Pipeline

LEMMA ClassicApi ==
    ASSUME Typed, Types, Classic, BeforeDelete, requests'.delete = 0, Api
    PROVE  /\ graph' = graph /\ Healthy' /\ pc'["legacy"] = pc["legacy"]
           /\ pc'["api"] \in {"idle", "cancel", "flag", "cancelRow", "visit", "voidLightrag",
                              "voidLightragDoc"}
           /\ pc'["api"] = "idle" \/ request' = "cancel"
<1> USE DEF Classic
<1> TypeOK /\ "api" \in Actors /\ "legacy" \in Actors /\ "cancelled" \in EngineStatuses
  BY DEF Typed, Actors, Engines, EngineStatuses
<1>0. DocStill => Healthy'
  BY DEF DocStill, Healthy
<1>1. CASE Request("cancel")
  BY <1>0, <1>1 DEF Request, ApiStep, Goto, Types, rows, stores, copies, DocStill
<1>2. CASE Request("delete")
  <2>1. requests'.delete = requests.delete + 1
    BY <1>2 DEF Request, TypeOK
  <2> QED
    BY <2>1 DEF BeforeDelete
<1>3. CASE ReadJob
  BY <1>0, <1>3 DEF ReadJob, ApiStep, Goto, Ended, Types, rows, stores, copies, DocStill
<1>4. CASE Flag \/ Visited
  BY <1>0, <1>4 DEF Flag, Visited, ApiStep, Goto, Ended, Types, rows, stores, copies, api, DocStill
<1>5. CASE CancelRow
  BY <1>0, <1>5 DEF CancelRow, UpdateMeta, Load, Save, Goto, Types, stores, api, DocStill
<1>6. ASSUME NEW e \in Engines, CancelEngine(e)
      PROVE  /\ graph' = graph /\ Healthy' /\ pc'["legacy"] = pc["legacy"]
             /\ pc'["api"] \in {"idle", "cancel", "flag", "cancelRow", "visit", "voidLightrag",
                                "voidLightragDoc"}
             /\ pc'["api"] = "idle" \/ request' = "cancel"
  <2>1. CASE SetEngine("api", e, "cancelled", Void[e], VoidDoc[e], "visit")
    <3>1. e = "lightrag"
      BY <2>1 DEF SetEngine, UpdateDoc, Void, VoidDoc, Engines
    <3>2. Healthy'
      BY <2>1, <3>1, HealthySet
    <3>3. /\ Moves("api", Void[e], VoidDoc[e]) \/ Moves("api", VoidDoc[e], "visit")
          /\ graph' = graph /\ request' = request
      BY <2>1, SetEngineTyped DEF Rest
    <3>4. Void[e] = "voidLightrag" /\ VoidDoc[e] = "voidLightragDoc"
      BY <3>1 DEF Void, VoidDoc
    <3> QED
      BY <3>2, <3>3, <3>4 DEF Moves, Types
  <2>2. CASE ~SetEngine("api", e, "cancelled", Void[e], VoidDoc[e], "visit")
    <3>1. e \in todo["api"] /\ pc["api"] = "visit"
      BY <1>6, <2>2 DEF CancelEngine
    <3>2. e = "lightrag" /\ Void[e] = "voidLightrag"
      BY <3>1 DEF Typed, Collected, BeforeDelete, Void
    <3>3. /\ \/ pc' = [pc EXCEPT !["api"] = "visit"]
             \/ pc' = [pc EXCEPT !["api"] = "voidLightrag"]
          /\ UNCHANGED <<rows, copies, api>> /\ graph' \in {graph, graph /\ e # "legacy"}
      BY <1>6, <2>2, <3>2 DEF CancelEngine, ApiStep, Goto
    <3>4. graph' = graph
      BY <3>2, <3>3 DEF TypeOK
    <3> QED
      BY <1>0, <3>1, <3>3, <3>4 DEF Types, rows, copies, api, DocStill
  <2> QED
    BY <2>1, <2>2
<1>7. ~(List \/ Detach \/ Purge \/ ScheduleDelete \/ Unpublish \/ DropJob \/ DeleteRow)
  BY DEF List, Detach, UpdateMeta, Purge, ScheduleDelete, Unpublish, SetGraph, DropJob, DeleteRow,
         ApiStep
<1> QED
  BY <1>1, <1>2, <1>3, <1>4, <1>5, <1>6, <1>7 DEF Api

(* Requests are counted up, by the API thread only. *)
LEMMA RequestsGrow ==
    ASSUME FenceInv, Next
    PROVE  \/ UNCHANGED requests
           \/ Api /\ \E k \in {"cancel", "delete"} : requests' = [requests EXCEPT ![k] = @ + 1]
<1> Types /\ Control
  BY DEF FenceInv
<1>1. CASE Api
  BY <1>1
     DEF Api, Request, List, ReadJob, Flag, CancelRow, CancelEngine, SetEngine, UpdateDoc,
         UpdateMeta,
              Visited, Detach, Purge, ScheduleDelete, Unpublish, SetGraph, DropJob, DeleteRow, api
<1>2. CASE RunLegacy \/ Child("legacy") \/ (pc["legacy"] = "progress" /\ End("legacy", "failed"))
  BY <1>2, LegacySteps, LegacyEnds DEF LegacyMoves, Child
<1>3. CASE RunLightrag \/ Child("lightrag") \/ DeleteLight
  BY <1>3, LightSteps DEF LightMoves, Child
<1>4. CASE (Pipeline \/ ParserFails) /\ ~(pc["legacy"] = "progress" /\ End("legacy", "failed"))
  BY <1>4, PipelineMoves DEF MainMoves
<1> QED
  BY <1>1, <1>2, <1>3, <1>4 DEF Next, Child, Engines

LEMMA ClassicStays ==
    ASSUME Typed, Typed', FenceInv, Classic, Next, UNCHANGED scenario
    PROVE  Classic'
<1> SUFFICES ASSUME BeforeDelete' PROVE
        /\ graph' /\ Healthy' /\ pc'["legacy"] = "idle"
        /\ pc'["api"] \in {"idle", "cancel", "flag", "cancelRow", "visit", "voidLightrag",
                           "voidLightragDoc"}
        /\ pc'["api"] = "idle" \/ request' = "cancel"
  BY DEF Classic
<1>0. Types /\ Targets' = Targets /\ BeforeDelete
  BY RequestsGrow DEF FenceInv, BeforeDelete, Targets, Typed, TypeOK
<1>1. CASE Api
  BY <1>0, <1>1, ClassicApi DEF BeforeDelete, Classic
<1>2. CASE RunLegacy \/ Child("legacy") \/ (pc["legacy"] = "progress" /\ End("legacy", "failed"))
  BY <1>0, <1>2, LegacySteps, LegacyEnds DEF LegacyMoves, Child, Classic, Running
<1>3. CASE RunLightrag \/ Child("lightrag") \/ DeleteLight
  <2>1. LightMoves
    BY <1>0, <1>3, LightSteps DEF Child
  <2>2. Healthy'
    <3>1. CASE RunLightrag
      BY <1>0, <3>1, HealthyLight DEF Classic, Typed
    <3>2. Child("lightrag") \/ DeleteLight => DocDrop("lightrag")
      BY DEF Child, Return, Raise, ChildFails, End, DeleteLight, rows, copies, DocDrop
    <3>3. DocDrop("lightrag") => Healthy'
      BY <1>0, HealthyDrop DEF Classic, Typed, Actors, Engines
    <3> QED
      BY <1>3, <3>1, <3>2, <3>3
  <2> QED
    BY <1>0, <2>1, <2>2 DEF LightMoves, Alone, Classic, Actors, Engines
<1>4. CASE (Pipeline \/ ParserFails) /\ ~(pc["legacy"] = "progress" /\ End("legacy", "failed"))
  <2>1. MainMoves
    BY <1>0, <1>4, PipelineMoves DEF FenceInv
  <2>2. Healthy'
    BY <1>0, <1>4, HealthyMain DEF Classic, BeforeDelete
  <2>3. "legacy" \notin todo'["main"]
    BY <1>0 DEF Typed, Collected, BeforeDelete
  <2> QED
    BY <1>0, <2>1, <2>2, <2>3 DEF MainMoves, Classic
<1> QED
  BY <1>1, <1>2, <1>3, <1>4 DEF Next, Child, Engines

-----------------------------------------------------------------------------
(* The job while nobody has cancelled or deleted anything.  First the rows:
   there is one copy in flight at most, and it is what is saved. *)

Calm == Asked = 0

Undisturbed ==
    /\ ~flag /\ doc.stored /\ meta.stored /\ meta.status \notin {"none", "cancelled"}
    /\ pc["api"] = "idle"

OneHolds(c, row) ==
    /\ c["api"] = NoCopy
    /\ \A a \in Actors : c[a] # NoCopy => c[a] = row
    /\ \A a, b \in Actors : c[a] # NoCopy /\ c[b] # NoCopy => a = b
Locks ==
    /\ OneHolds(copy, meta) /\ OneHolds(dcopy, doc)
    /\ \A e \in Engines : pc[e] = "idle" => dcopy[e] = NoCopy

(* The last update of the document row takes no lock and needs none. *)
FailsAlone ==
    /\ \A e \in Engines : pc[e] # "failStatus"
    /\ pc["main"] = "failStatus" => \A e \in Engines : pc[e] = "idle"

Peace == Typed /\ Undisturbed /\ Locks /\ FailsAlone

(* What a step does to the rows in peace. *)
Goes(a, from, to) == pc[a] = from /\ pc' = [pc EXCEPT ![a] = to]
Alike(r, s) == r.stored = s.stored /\ r.status = s.status /\ \A e \in Engines : r[e] = s[e]
Plain == Alike(meta', meta) /\ doc' = doc
Waits == pc' = pc /\ Plain
SetsStatus(s) ==
    /\ meta'.stored = meta.stored /\ meta'.status = s /\ \A e \in Engines : meta'[e] = meta[e]
    /\ doc' = doc
SetsMeta(e, s) ==
    /\ meta'.stored = meta.stored /\ meta'.status = meta.status
    /\ \A x \in Engines : meta'[x] = IF x = e THEN s ELSE meta[x]
    /\ doc' = doc
SetsDoc(e, s) ==
    /\ meta' = meta /\ doc'.stored = doc.stored
    /\ \A x \in Engines : doc'[x] = IF x = e THEN s ELSE doc[x]

LEMMA NothingIsCancelled ==
    ASSUME Undisturbed
    PROVE  Whole /\ \A a \in Actors : ~IsCancelled(a) /\ WriteAllowed(a)
BY DEF Undisturbed, Whole, IsCancelled, WriteAllowed

LEMMA CalmLoad ==
    ASSUME TypeOK, Undisturbed, OneHolds(copy, meta), NEW a \in Actors \ {"api"},
           Load(a, IF meta.stored THEN meta ELSE Blank)
    PROVE  pc' = pc /\ meta' = meta /\ OneHolds(copy', meta')
<1>1. \A b \in Actors : copy[b] = NoCopy
  BY DEF Load, MetaFree, SameProcess, OneHolds
<1>2. copy' = [copy EXCEPT ![a] = meta] /\ meta' = meta /\ pc' = pc
  BY DEF Load, Undisturbed
<1> QED
  BY <1>1, <1>2 DEF TypeOK, OneHolds

LEMMA CalmSave ==
    ASSUME TypeOK, OneHolds(copy, meta), NEW a \in Actors \ {"api"}, NEW row, NEW to,
           Save(a, row, to)
    PROVE  /\ copy[a] = meta /\ meta' = row /\ pc' = [pc EXCEPT ![a] = to]
           /\ OneHolds(copy', meta')
BY DEF TypeOK, Save, Goto, OneHolds

LEMMA LocksStay ==
    ASSUME Peace, NEW a \in Actors, NEW from, NEW to, Moves(a, from, to),
           OneHolds(copy', meta'), OneHolds(dcopy', doc'),
           a \in Engines => to # "idle" /\ from # "idle",
           \A b \in Actors \ {a} : dcopy'[b] = dcopy[b]
    PROVE  Locks'
<1>1. /\ pc[a] = from /\ pc'[a] \in {from, to} /\ \A b \in Actors \ {a} : pc'[b] = pc[b]
  BY DEF Peace, Typed, Placed, Moves
<1> QED
  BY <1>1 DEF Peace, Locks, Actors, Engines

LEMMA CalmUpdate ==
    ASSUME Peace, NEW a \in Actors \ {"api"}, NEW row, NEW from, NEW to, Updates(a, from, row, to),
           copy[a] \in Rows => row \in Rows, a \in Engines => {"idle"} \cap {from, to} = {}
    PROVE  /\ Rest /\ Locks'
           /\ Waits \/ (Goes(a, from, to) /\ copy[a] = meta /\ meta' = row /\ doc' = doc)
<1> TypeOK /\ OneHolds(copy, meta) /\ OneHolds(dcopy, doc) /\ Undisturbed
  BY DEF Peace, Typed, Locks
<1>1. Moves(a, from, to) /\ Rest /\ UNCHANGED <<doc, dcopy>>
  BY UpdateTyped DEF Updates
<1>2. OneHolds(dcopy', doc')
  BY <1>1 DEF OneHolds
<1>3. CASE Whole /\ Load(a, meta)
  <2>1. Load(a, IF meta.stored THEN meta ELSE Blank)
    BY <1>3 DEF Whole
  <2>2. pc' = pc /\ meta' = meta /\ OneHolds(copy', meta')
    BY <2>1, CalmLoad
  <2>3. Locks'
    BY <1>1, <1>2, <2>2, LocksStay
  <2> QED
    BY <1>1, <2>2, <2>3 DEF Waits, Plain, Alike
<1>4. CASE Save(a, row, to)
  <2>1. /\ copy[a] = meta /\ meta' = row /\ pc' = [pc EXCEPT ![a] = to]
        /\ OneHolds(copy', meta')
    BY <1>4, CalmSave
  <2>2. Locks'
    BY <1>1, <1>2, <2>1, LocksStay
  <2> QED
    BY <1>1, <2>1, <2>2 DEF Goes, Moves
<1> QED
  BY <1>3, <1>4 DEF Updates

LEMMA CalmDocUpdate ==
    ASSUME Peace, NEW a \in Actors \ {"api"}, NEW row, NEW from, NEW to, DocUpdates(a, from, row, to),
           dcopy[a] \in DocRows => row \in DocRows,
           a \in Engines => {"idle"} \cap {from, to} = {}, from = "failStatus" => a = "main"
    PROVE  /\ Rest /\ Locks' /\ meta' = meta
           /\ Waits \/ (Goes(a, from, to) /\ dcopy[a] = doc /\ doc' = row)
<1> TypeOK /\ OneHolds(copy, meta) /\ OneHolds(dcopy, doc) /\ Undisturbed /\ FailsAlone
  BY DEF Peace, Typed, Locks
<1>1. Moves(a, from, to) /\ Rest /\ UNCHANGED <<meta, copy>>
  BY DocUpdateTyped DEF DocUpdates
<1>2. OneHolds(copy', meta')
  BY <1>1 DEF OneHolds
<1>3. CASE /\ dcopy[a] = NoCopy /\ (DocFree(a) \/ from = "failStatus")
           /\ dcopy' = [dcopy EXCEPT ![a] = doc] /\ UNCHANGED <<doc, pc>>
  <2>1. \A b \in Actors \ {"api"} : dcopy[b] = NoCopy
    <3>1. CASE from = "failStatus"
      <4>1. a = "main" /\ \A e \in Engines : pc[e] = "idle"
        BY <3>1 DEF DocUpdates, FailsAlone
      <4> QED
        BY <1>3, <4>1 DEF Peace, Locks, Actors, Engines
    <3>2. CASE from # "failStatus"
      <4>1. DocFree(a) /\ pc["main"] # "failStatus"
        BY <1>3, <3>2 DEF DocUpdates, FailsAlone, Actors, Engines
      <4> QED
        BY <4>1 DEF DocFree, SameProcess, FailsAlone, Actors
    <3> QED
      BY <3>1, <3>2
  <2>2. OneHolds(dcopy', doc')
    BY <1>3, <2>1 DEF TypeOK, OneHolds
  <2>3. Locks'
    BY <1>1, <1>2, <1>3, <2>2, LocksStay DEF TypeOK
  <2> QED
    BY <1>1, <1>3, <2>3 DEF Waits, Plain, Alike
<1>4. CASE /\ dcopy[a] # NoCopy /\ doc' = row
           /\ dcopy' = [dcopy EXCEPT ![a] = NoCopy] /\ Goto(a, to)
  <2>1. dcopy[a] = doc /\ OneHolds(dcopy', doc') /\ pc' = [pc EXCEPT ![a] = to]
    BY <1>4 DEF TypeOK, OneHolds, Goto
  <2>2. Locks'
    BY <1>1, <1>2, <1>4, <2>1, LocksStay DEF TypeOK
  <2> QED
    BY <1>1, <1>4, <2>1, <2>2 DEF Goes, Moves
<1> QED
  BY <1>3, <1>4 DEF DocUpdates, Undisturbed

LEMMA CalmStatus ==
    ASSUME Peace, NEW s \in Statuses, NEW from, NEW to,
           Updates("main", from, SetStatus(copy["main"], s), to)
    PROVE  Rest /\ Locks' /\ (Waits \/ (Goes("main", from, to) /\ SetsStatus(s)))
<1> DEFINE row == SetStatus(copy["main"], s)
<1>1. copy["main"] \in Rows =>
         /\ row \in Rows /\ row.status = s /\ row.stored = copy["main"].stored
         /\ row.legacy = copy["main"].legacy /\ row.lightrag = copy["main"].lightrag
  BY StatusTyped
<1>2. Updates("main", from, row, to)
  OBVIOUS
<1>3. "main" \in Actors \ {"api"} /\ "main" \notin Engines /\ meta \in Rows
  BY DEF Actors, Engines, Peace, Typed, TypeOK
<1> HIDE DEF row
<1>4. /\ Rest /\ Locks'
      /\ Waits \/ (Goes("main", from, to) /\ copy["main"] = meta /\ meta' = row /\ doc' = doc)
  BY <1>1, <1>2, <1>3, CalmUpdate
<1> QED
  BY <1>1, <1>3, <1>4 DEF SetsStatus, Engines

LEMMA CalmSetEngine ==
    ASSUME Peace, NEW a \in Actors \ {"api"}, NEW e \in Engines, NEW s \in EngineStatuses,
           NEW from, NEW mid, NEW to, SetEngine(a, e, s, from, mid, to),
           a \in Engines => "idle" \notin {from, mid, to}, mid # "failStatus"
    PROVE  /\ Rest /\ Locks'
           /\ \/ Waits
              \/ Goes(a, from, mid) /\ SetsMeta(e, s)
              \/ Goes(a, mid, to) /\ SetsDoc(e, s)
<1> meta \in Rows /\ doc \in DocRows
  BY DEF Peace, Typed, TypeOK
<1>1. CASE DocUpdates(a, mid, SetDoc(dcopy[a], e, s), to)
  <2> DEFINE row == SetDoc(dcopy[a], e, s)
  <2>1. dcopy[a] \in DocRows =>
           /\ row \in DocRows /\ row.stored = dcopy[a].stored
           /\ \A x \in Engines : row[x] = IF x = e THEN s ELSE dcopy[a][x]
    BY DocTyped
  <2>2. DocUpdates(a, mid, row, to)
    BY <1>1
  <2> HIDE DEF row
  <2>3. /\ Rest /\ Locks' /\ meta' = meta
        /\ Waits \/ (Goes(a, mid, to) /\ dcopy[a] = doc /\ doc' = row)
    BY <2>1, <2>2, CalmDocUpdate
  <2> QED
    BY <2>1, <2>3 DEF SetsDoc
<1>2. CASE /\ pc[a] = from
           /\ \/ Load(a, IF meta.stored THEN meta ELSE Blank)
              \/ Save(a, [copy[a] EXCEPT ![e] = s], mid)
           /\ UNCHANGED <<doc, stores, deletions, flag, saving, dcopy, worker, api, faults>>
  <2> DEFINE row == [copy[a] EXCEPT ![e] = s]
  <2>1. copy[a] \in Rows =>
           /\ row \in Rows /\ row.stored = copy[a].stored /\ row.status = copy[a].status
           /\ \A x \in Engines : row[x] = IF x = e THEN s ELSE copy[a][x]
    BY EngineTyped
  <2>2. Updates(a, from, row, mid)
    BY <1>2 DEF Updates, Peace, Undisturbed, Whole
  <2> HIDE DEF row
  <2>3. /\ Rest /\ Locks'
        /\ Waits \/ (Goes(a, from, mid) /\ copy[a] = meta /\ meta' = row /\ doc' = doc)
    BY <2>1, <2>2, CalmUpdate
  <2> QED
    BY <2>1, <2>3 DEF SetsMeta
<1> QED
  BY <1>1, <1>2, EngineHalves

LEMMA CalmSaveArtifact ==
    ASSUME Peace, NEW a \in Actors \ {"api"}, NEW f \in Files, NEW from, NEW to, NEW cancelled,
           SaveArtifact(a, f, from, to, cancelled), a \in Engines => "idle" \notin {from, to}
    PROVE  Rest /\ Locks' /\ (Waits \/ (Goes(a, from, to) /\ Plain))
<1> /\ TypeOK /\ OneHolds(copy, meta) /\ OneHolds(dcopy, doc) /\ Undisturbed
    /\ meta \in Rows /\ ~IsCancelled(a) /\ a \in Actors
  BY NothingIsCancelled DEF Peace, Typed, Locks, TypeOK
<1>1. Rest /\ pc[a] = from /\ UNCHANGED <<doc, dcopy>>
  BY SaveArtifactTyped DEF SaveArtifact
<1>2. OneHolds(dcopy', doc')
  BY <1>1 DEF OneHolds
<1>3. CASE UNCHANGED <<meta, copy, pc>>
  <2>1. Moves(a, from, to) /\ OneHolds(copy', meta')
    BY <1>1, <1>3 DEF Moves, OneHolds
  <2> QED
    BY <1>1, <1>2, <1>3, <2>1, LocksStay DEF Waits, Plain, Alike
<1>4. CASE Load(a, IF meta.stored THEN meta ELSE Blank)
  <2>1. pc' = pc /\ meta' = meta /\ OneHolds(copy', meta')
    BY <1>4, CalmLoad
  <2>2. Moves(a, from, to)
    BY <1>1, <2>1 DEF Moves
  <2> QED
    BY <1>1, <1>2, <2>1, <2>2, LocksStay DEF Waits, Plain, Alike
<1>5. CASE Save(a, [copy[a] EXCEPT !.files = @ \cup {f}], to)
  <2>1. /\ copy[a] = meta /\ meta' = [copy[a] EXCEPT !.files = @ \cup {f}]
        /\ pc' = [pc EXCEPT ![a] = to] /\ OneHolds(copy', meta')
    BY <1>5, CalmSave
  <2>2. Moves(a, from, to)
    BY <1>1, <2>1 DEF Moves
  <2>3. Alike(meta', meta)
    BY <2>1, FilesTyped DEF Alike, Engines
  <2> QED
    BY <1>1, <1>2, <2>1, <2>2, <2>3, LocksStay DEF Goes, Plain
<1> QED
  BY <1>3, <1>4, <1>5 DEF SaveArtifact

LEMMA CalmRead ==
    ASSUME Peace, NEW a \in Actors \ {"api"}, NEW from, NEW to, Goes(a, from, to),
           UNCHANGED <<rows, copies>>, a \in Engines => "idle" \notin {from, to}
    PROVE  Plain /\ Locks'
<1>1. Moves(a, from, to) /\ UNCHANGED <<meta, doc, copy, dcopy>>
  BY DEF Goes, Moves, rows, copies
<1>2. OneHolds(copy', meta') /\ OneHolds(dcopy', doc')
  BY <1>1 DEF Peace, Locks, OneHolds
<1> QED
  BY <1>1, <1>2, LocksStay DEF Plain, Alike

LEMMA CalmDrop ==
    ASSUME Peace, NEW a \in Actors \ {"api"}, NEW from, NEW to, Goes(a, from, to), UNCHANGED rows,
           copy' \in {copy, [copy EXCEPT ![a] = NoCopy]},
           dcopy' \in {dcopy, [dcopy EXCEPT ![a] = NoCopy]},
           a \in Engines => "idle" \notin {from, to}
    PROVE  Plain /\ Locks'
<1>0. OneHolds(copy, meta) /\ OneHolds(dcopy, doc) /\ TypeOK
  BY DEF Peace, Locks, Typed
<1>1. Moves(a, from, to) /\ UNCHANGED <<meta, doc>>
  BY DEF Goes, Moves, rows
<1>2. OneHolds(copy', meta')
  <2>1. "api" \in Actors /\ \A b \in Actors : copy'[b] \in {copy[b], NoCopy}
    BY <1>0 DEF TypeOK, Actors
  <2> QED
    BY <1>0, <1>1, <2>1 DEF OneHolds
<1>3. OneHolds(dcopy', doc') /\ \A b \in Actors \ {a} : dcopy'[b] = dcopy[b]
  <2>1. /\ "api" \in Actors /\ \A b \in Actors : dcopy'[b] \in {dcopy[b], NoCopy}
        /\ \A b \in Actors \ {a} : dcopy'[b] = dcopy[b]
    BY <1>0 DEF TypeOK, Actors
  <2> QED
    BY <1>0, <1>1, <2>1 DEF OneHolds
<1> QED
  BY <1>1, <1>2, <1>3, LocksStay DEF Plain, Alike

-----------------------------------------------------------------------------
(* What each stage knows in peace.  An engine: the store it has written and
   the rows it has set. *)

Both(e, s) == meta[e] = s /\ doc[e] = s

LegacyBefore == {"idle", "mark", "markDoc", "page", "progress", "saveRecords", "guard", "upsert"}
LegacyAfter == {"guard2", "saveGraph", "guard3", "done", "doneDoc", "guard4", "return"}
LegacyTrue ==
    IF "legacy" \notin Targets THEN pc["legacy"] = "idle" /\ graph /\ doc.legacy = "done"
    ELSE /\ pc["legacy"] \in LegacyBefore \cup LegacyAfter \cup {"over"}
         /\ pc["legacy"] = "idle" => doc.legacy # "done"
         /\ pc["legacy"] \in LegacyBefore => ~graph
         /\ pc["legacy"] \in LegacyAfter => graph
         /\ pc["legacy"] = "doneDoc" => meta.legacy = "done"
         /\ pc["legacy"] \in {"guard4", "return"} => Both("legacy", "done")
         /\ pc["legacy"] = "over" =>
               \/ outcome["legacy"] = "done" /\ graph /\ Both("legacy", "done")
               \/ outcome["legacy"] = "failed"

LightBefore == {"idle", "begin", "mark", "markDoc", "insert"}
LightAfter == {"inserted", "done", "doneDoc", "return"}
LightTrue ==
    IF "lightrag" \notin Targets THEN pc["lightrag"] = "idle" /\ light
    ELSE /\ pc["lightrag"] \in LightBefore \cup LightAfter \cup {"over"}
         /\ pc["lightrag"] = "idle" => doc.lightrag # "done"
         /\ pc["lightrag"] \in LightAfter => light
         /\ pc["lightrag"] = "doneDoc" => meta.lightrag = "done"
         /\ pc["lightrag"] = "return" => Both("lightrag", "done")
         /\ pc["lightrag"] = "over" =>
               \/ outcome["lightrag"] = "done" /\ light /\ Both("lightrag", "done")
               \/ outcome["lightrag"] = "failed"

(* The pipeline: which engines it has still to visit, and what the rows say
   of the others. *)
Early == BeforeFork \cup {"failing", "reuse", "reusing", "retry"}
FailSteps == {"failEngines", "failLegacy", "failLegacyDoc", "failLightrag", "failLightragDoc",
              "failStatus"}
JoinSteps == {"join"} \cup ReportSteps
RetrySteps == {"retrying", "retryingDoc", "retryEnds", "retried", "retryDone", "retryFailed"}
LastSteps == {"tally", "settle", "finally", "over"}

Idle == \A e \in Engines : pc[e] = "idle"
Reported(e) == outcome[e] # "running" /\ Both(e, outcome[e])

MainEarly ==
    pc["main"] \in Early =>
        /\ Idle /\ todo["main"] = Targets /\ \A e \in Targets : meta[e] = "pending"
        /\ pc["main"] = "start" => meta.status = "queued"
        /\ pc["main"] \in {"reuse", "reusing", "retry"} => Targets = {"lightrag"}
MainFails ==
    pc["main"] \in FailSteps =>
        /\ Idle /\ meta.status = "failed"
        /\ \A e \in Targets :
             \/ e \in todo["main"] /\ meta[e] = "pending" /\ pc["main"] \notin {Fail[e], FailDoc[e]}
             \/ /\ e \notin todo["main"]
                /\ \/ pc["main"] = Fail[e]
                   \/ pc["main"] = FailDoc[e] /\ meta[e] = "failed"
                   \/ Both(e, "failed")
        /\ pc["main"] = "failStatus" => todo["main"] = {}
MainJoins ==
    pc["main"] \in JoinSteps =>
        \A e \in Targets :
            \/ /\ e \in todo["main"] \/ outcome[e] = "done"
               /\ pc["main"] \notin {Report[e], ReportDoc[e]}
            \/ /\ e \notin todo["main"] /\ outcome[e] = "failed"
               /\ \/ pc["main"] = Report[e]
                  \/ pc["main"] = ReportDoc[e] /\ meta[e] = "failed"
                  \/ Both(e, "failed")
MainRetries ==
    pc["main"] \in RetrySteps =>
        /\ Targets = {"lightrag"}
        /\ pc["main"] = "retryingDoc" => outcome["lightrag"] = "failed" /\ meta.lightrag = "failed"
        /\ pc["main"] \in {"retryEnds", "retryFailed"} =>
              outcome["lightrag"] = "failed" /\ Both("lightrag", "failed")
        /\ pc["main"] \in {"retried", "retryDone"} =>
              outcome["lightrag"] = "done" /\ Both("lightrag", "done")
MainTells ==
    /\ pc["main"] \in {"tally", "settle"} => \A e \in Targets : Reported(e)
    /\ pc["main"] = "settle" => verdict = Verdict
    /\ pc["main"] \in {"finally", "over"} =>
          /\ meta.status = Verdict
          /\ \A e \in Targets : Reported(e) \/ (pc[e] = "idle" /\ Both(e, "failed"))
MainPlaces == pc["main"] \in Early \cup FailSteps \cup JoinSteps \cup RetrySteps \cup LastSteps

MainTrue == MainPlaces /\ MainEarly /\ MainFails /\ MainJoins /\ MainRetries /\ MainTells
Truth == LegacyTrue /\ LightTrue /\ MainTrue
Peaceful == Undisturbed /\ Locks /\ Truth
CalmInv == Calm => Peaceful

LEMMA PeaceHolds == ASSUME Typed, Undisturbed, Locks, Truth PROVE Peace
BY DEF Peace, FailsAlone, Truth, LegacyTrue, LightTrue, LegacyBefore, LegacyAfter, LightBefore,
       LightAfter, MainTrue, MainFails, FailSteps, Idle, Engines

(* What a step leaves as it is with an engine. *)
Same(e) == /\ pc'[e] = pc[e] /\ meta'[e] = meta[e] /\ doc'[e] = doc[e] /\ outcome'[e] = outcome[e]
           /\ e = "legacy" => graph' = graph
           /\ e = "lightrag" => light' = light

LEMMA LegacySame == ASSUME LegacyTrue, Targets' = Targets, Same("legacy") PROVE LegacyTrue'
BY DEF LegacyTrue, Same, Both

LEMMA LightSame == ASSUME LightTrue, Targets' = Targets, Same("lightrag") PROVE LightTrue'
BY DEF LightTrue, Same, Both

LEMMA WaitKeeps ==
    ASSUME Typed, Peaceful, Waits, Rest, Locks', UNCHANGED scenario
    PROVE  Peaceful'
<1>1. /\ \A e \in Engines : Same(e)
      /\ Targets' = Targets /\ Targets \subseteq Engines
      /\ meta'.stored = meta.stored /\ meta'.status = meta.status /\ doc' = doc
      /\ UNCHANGED <<pc, flag, outcome, todo, verdict>>
      /\ \A e \in Engines : meta'[e] = meta[e]
  BY ScenarioFacts DEF Waits, Plain, Alike, Rest, Same, Targets, Typed
<1>2. Undisturbed'
  BY <1>1 DEF Peaceful, Undisturbed
<1>3. LegacyTrue' /\ LightTrue'
  BY <1>1, LegacySame, LightSame DEF Peaceful, Truth, Engines
<1>4. Verdict' = Verdict
  BY <1>1 DEF Verdict
<1>5. MainTrue'
  BY <1>1, <1>4
     DEF Peaceful, Truth, MainTrue, MainPlaces, MainEarly, MainFails, MainJoins, MainRetries,
                    MainTells, Idle, Reported, Both
<1> QED
  BY <1>2, <1>3, <1>5 DEF Peaceful, Truth

(* While an engine runs, the pipeline waits for it. *)
LEMMA WaitedFor ==
    ASSUME Typed, Truth, NEW e \in Engines, pc[e] \notin {"idle", "over"}
    PROVE  /\ e \in Targets /\ outcome[e] = "running"
           /\ \/ pc["main"] \in JoinSteps /\ e \in todo["main"]
              \/ pc["main"] = "retrying"
<1>1. e \in Targets
  BY DEF Truth, LegacyTrue, LightTrue, Engines
<1>2. outcome[e] = "running"
  BY DEF Typed, Collected
<1>3. pc["main"] \notin Early /\ pc["main"] \notin FailSteps /\ pc["main"] \notin LastSteps
  BY <1>1, <1>2 DEF Truth, MainTrue, MainEarly, MainFails, MainTells, LastSteps, Idle, Reported
<1>4. pc["main"] \in JoinSteps => e \in todo["main"]
  BY <1>1, <1>2 DEF Truth, MainTrue, MainJoins
<1>5. pc["main"] \in RetrySteps => pc["main"] = "retrying"
  BY <1>1, <1>2 DEF Truth, MainTrue, MainRetries, RetrySteps
<1> QED
  BY <1>1, <1>2, <1>3, <1>4, <1>5 DEF Truth, MainTrue, MainPlaces

(* A step of an engine thread. *)
EngineOnly(e) ==
    /\ pc[e] \notin {"idle", "over"}
    /\ \A a \in Actors \ {e} : pc'[a] = pc[a]
    /\ UNCHANGED <<todo, verdict, flag>>
    /\ meta'.stored = meta.stored /\ meta'.status = meta.status /\ doc'.stored = doc.stored
    /\ \A x \in Engines \ {e} : Same(x)

LEMMA EngineKeeps ==
    ASSUME Typed, Peaceful, NEW e \in Engines, EngineOnly(e), UNCHANGED scenario, Locks',
           IF e = "legacy" THEN LegacyTrue' ELSE LightTrue'
    PROVE  Peaceful'
<1>1. /\ e \in Targets /\ outcome[e] = "running"
      /\ \/ pc["main"] \in JoinSteps /\ e \in todo["main"]
         \/ pc["main"] = "retrying"
  BY WaitedFor DEF EngineOnly, Peaceful
<1>2. Targets' = Targets /\ Targets \subseteq Engines
  BY ScenarioFacts DEF Targets, Typed
<1>3. /\ pc'["main"] = pc["main"] /\ pc'["api"] = pc["api"]
      /\ \A x \in Engines \ {e} : Same(x)
  BY DEF EngineOnly, Actors, Engines
<1>4. LegacyTrue' /\ LightTrue'
  <2>1. CASE e = "legacy"
    BY <1>2, <1>3, <2>1, LightSame DEF Peaceful, Truth, Engines
  <2>2. CASE e = "lightrag"
    BY <1>2, <1>3, <2>2, LegacySame DEF Peaceful, Truth, Engines
  <2> QED
    BY <2>1, <2>2 DEF Engines
<1>5. Undisturbed'
  BY <1>3 DEF Peaceful, Undisturbed, EngineOnly
<1>6. MainTrue'
  <2>1. MainPlaces'
    BY <1>3 DEF Peaceful, Truth, MainTrue, MainPlaces
  <2>2. MainJoins'
    BY <1>1, <1>2, <1>3 DEF Peaceful, Truth, MainTrue, MainJoins, EngineOnly, Same, Both
  <2>3. MainRetries'
    BY <1>1, <1>2, <1>3
       DEF Peaceful, Truth, MainTrue, MainRetries, JoinSteps, ReportSteps, RetrySteps
  <2>4. MainEarly' /\ MainFails' /\ MainTells'
    BY <1>1, <1>3 DEF MainEarly, MainFails, MainTells, JoinSteps, ReportSteps, Early, BeforeFork,
                      FailSteps
  <2> QED
    BY <2>1, <2>2, <2>3, <2>4 DEF MainTrue
<1> QED
  BY <1>4, <1>5, <1>6 DEF Peaceful, Truth

(* The classic engine in peace. *)
LEMMA CalmLegacy ==
    ASSUME Typed, Peaceful, RunLegacy, UNCHANGED scenario
    PROVE  Peaceful'
<1> DEFINE L == "legacy"
<1>0. /\ L \in Engines /\ L \in Actors \ {"api"} /\ "main" \in Actors /\ "api" \in Actors
      /\ Engines \ {L} = {"lightrag"}
      /\ Actors \ {L} = {"lightrag", "main", "api"}
  BY DEF Engines, Actors
<1>1. Peace /\ LegacyTrue /\ Undisturbed /\ WriteAllowed(L) /\ ~IsCancelled(L) /\ TypeOK
  BY <1>0, PeaceHolds, NothingIsCancelled DEF Peaceful, Truth, Typed
<1>2. Targets' = Targets
  BY DEF Targets
<1>3. ASSUME Waits, Rest, Locks'
      PROVE  Peaceful'
  BY <1>3, WaitKeeps
<1>4. ASSUME NEW from, NEW to, Goes(L, from, to), UNCHANGED <<todo, verdict, flag, outcome, light>>,
             Locks', from \notin {"idle", "over"},
             \/ Plain \/ (\E s : SetsMeta(L, s) \/ SetsDoc(L, s)),
             LegacyTrue'
      PROVE  Peaceful'
  <2>1. pc'[L] = to /\ pc[L] = from /\ \A a \in Actors \ {L} : pc'[a] = pc[a]
    BY <1>0, <1>4 DEF Goes, Peace, Typed, Placed
  <2>2. EngineOnly(L)
    BY <1>0, <1>4, <2>1 DEF EngineOnly, Same, Plain, Alike, SetsMeta, SetsDoc
  <2> QED
    BY <1>0, <1>4, <2>2, EngineKeeps
<1>5. ASSUME NEW from, NEW to, Goes(L, from, to), UNCHANGED <<graph, outcome>>, Plain,
             from \notin {"idle", "over"},
             \/ from \in LegacyBefore /\ to \in LegacyBefore \ {"idle"}
             \/ from \in LegacyAfter /\ to \in LegacyAfter \ {"doneDoc", "guard4", "return"}
             \/ from = "guard4" /\ to = "return"
      PROVE  LegacyTrue'
  <2>1. pc'[L] = to /\ pc[L] = from
    BY <1>0, <1>5 DEF Goes, Peace, Typed, Placed
  <2>2. /\ UNCHANGED <<graph, outcome>> /\ meta'.legacy = meta.legacy /\ doc'.legacy = doc.legacy
    BY <1>0, <1>5 DEF Plain, Alike
  <2> QED
    BY <1>1, <1>2, <1>5, <2>1, <2>2 DEF LegacyTrue, LegacyBefore, LegacyAfter, Both
<1>6. ASSUME NEW from, NEW to, Goes(L, from, to), UNCHANGED <<rows, copies>>,
             UNCHANGED <<todo, verdict, flag, outcome, light, graph>>,
             <<from, to>> \in {<<"page", "progress">>, <<"guard", "upsert">>,
                              <<"guard2", "saveGraph">>, <<"guard3", "done">>,
                              <<"guard4", "return">>}
      PROVE  Peaceful'
  <2>1. Plain /\ Locks'
    BY <1>0, <1>1, <1>6, CalmRead
  <2>2. /\ {"page", "progress", "guard", "upsert"} \subseteq LegacyBefore \ {"idle"}
        /\ {"guard2", "saveGraph", "guard3", "done"} \subseteq LegacyAfter
    BY DEF LegacyBefore, LegacyAfter
  <2>3. LegacyTrue'
    BY <1>5, <1>6, <2>1, <2>2
  <2> QED
    BY <1>4, <1>6, <2>1, <2>3
<1>7. ASSUME NEW s \in EngineStatuses, NEW from, NEW mid, NEW to, SetEngine(L, L, s, from, mid, to),
             <<s, from, mid, to>> \in {<<"indexing", "mark", "markDoc", "page">>,
                                       <<"done", "done", "doneDoc", "guard4">>}
      PROVE  Peaceful'
  <2>0. "idle" \notin {from, mid, to} /\ mid # "failStatus" /\ "over" \notin {from, mid}
    BY <1>7
  <2>1. /\ Rest /\ Locks'
        /\ \/ Waits
           \/ Goes(L, from, mid) /\ SetsMeta(L, s)
           \/ Goes(L, mid, to) /\ SetsDoc(L, s)
    BY <1>0, <1>1, <1>7, <2>0, CalmSetEngine
  <2>2. CASE Goes(L, from, mid) /\ SetsMeta(L, s)
    <3>1. pc'[L] = mid /\ pc[L] = from
      BY <1>0, <1>1, <2>2 DEF Goes, Peace, Typed, Placed
    <3>2. /\ UNCHANGED <<todo, verdict, flag, outcome, light, graph>>
          /\ meta'.legacy = s /\ doc'.legacy = doc.legacy
      BY <1>0, <2>1, <2>2 DEF SetsMeta, Rest
    <3>3. LegacyTrue'
      BY <1>1, <1>2, <1>7, <3>1, <3>2 DEF LegacyTrue, LegacyBefore, LegacyAfter
    <3> QED
      BY <1>4, <2>0, <2>1, <2>2, <3>2, <3>3
  <2>3. CASE Goes(L, mid, to) /\ SetsDoc(L, s)
    <3>1. pc'[L] = to /\ pc[L] = mid
      BY <1>0, <1>1, <2>3 DEF Goes, Peace, Typed, Placed
    <3>2. /\ UNCHANGED <<todo, verdict, flag, outcome, light, graph>>
          /\ meta'.legacy = meta.legacy /\ doc'.legacy = s
      BY <1>0, <2>1, <2>3 DEF SetsDoc, Rest
    <3>3. LegacyTrue'
      BY <1>1, <1>2, <1>7, <3>1, <3>2 DEF LegacyTrue, LegacyBefore, LegacyAfter, Both
    <3> QED
      BY <1>4, <2>0, <2>1, <2>3, <3>2, <3>3
  <2> QED
    BY <1>3, <2>1, <2>2, <2>3
<1>8. ASSUME NEW f \in Files, NEW from, NEW to, NEW cancelled,
             SaveArtifact(L, f, from, to, cancelled),
             <<from, to>> \in {<<"saveRecords", "guard">>, <<"saveGraph", "guard3">>}
      PROVE  Peaceful'
  <2>1. Rest /\ Locks' /\ (Waits \/ (Goes(L, from, to) /\ Plain))
    BY <1>0, <1>1, <1>8, CalmSaveArtifact
  <2> QED
    BY <1>3, <1>4, <1>5, <1>8, <2>1 DEF Rest, LegacyBefore, LegacyAfter
<1>9. CASE UpdateMeta(L, "progress", LAMBDA row : row, "saveRecords")
  <2>1. Updates(L, "progress", copy[L], "saveRecords")
    BY <1>9 DEF UpdateMeta, Updates
  <2>2. /\ Rest /\ Locks'
        /\ Waits \/ (Goes(L, "progress", "saveRecords") /\ meta' = meta /\ doc' = doc)
    BY <1>0, <1>1, <2>1, CalmUpdate
  <2>3. meta' = meta /\ doc' = doc => Plain
    BY DEF Plain, Alike
  <2> QED
    BY <1>3, <1>4, <1>5, <2>2, <2>3 DEF Rest, LegacyBefore
<1>10. CASE \/ Branch(L, "page", IsCancelled(L), "raise", "progress")
            \/ Check("guard", "upsert", "raise") \/ Check("guard2", "saveGraph", "undo")
            \/ Check("guard3", "done", "undo") \/ Check("guard4", "return", "undoDone")
  <2>1. /\ \/ Goes(L, "page", "progress") \/ Goes(L, "guard", "upsert")
           \/ Goes(L, "guard2", "saveGraph") \/ Goes(L, "guard3", "done")
           \/ Goes(L, "guard4", "return")
        /\ UNCHANGED <<rows, copies>>
        /\ UNCHANGED <<todo, verdict, flag, outcome, light, graph>>
    BY <1>1, <1>10 DEF Check, Branch, Goes, Goto, worker, stores
  <2> QED
    BY <1>6, <2>1
<1>11. CASE SetGraph(L, "upsert", TRUE, "guard2")
  <2>1. /\ Goes(L, "upsert", "guard2") /\ UNCHANGED <<rows, copies>>
        /\ UNCHANGED <<todo, verdict, flag, outcome, light>> /\ graph'
    BY <1>11 DEF SetGraph, Goes, Goto, worker
  <2>2. Plain /\ Locks'
    BY <1>0, <1>1, <2>1, CalmRead
  <2>3. pc'[L] = "guard2" /\ pc[L] = "upsert"
    BY <1>0, <1>1, <2>1 DEF Goes, Peace, Typed, Placed
  <2>4. LegacyTrue'
    BY <1>1, <1>2, <2>1, <2>3 DEF LegacyTrue, LegacyBefore, LegacyAfter
  <2> QED
    BY <1>4, <2>1, <2>2, <2>4
<1>12. ~\/ SetGraph(L, "undo", FALSE, "raise") \/ SetGraph(L, "undoDone", FALSE, "revoke")
        \/ SetEngine(L, L, "cancelled", "revoke", "revokeDoc", "raise")
  BY <1>1 DEF SetGraph, SetEngine, UpdateDoc, LegacyTrue, LegacyBefore, LegacyAfter
<1>13. CASE \/ SetEngine(L, L, "indexing", "mark", "markDoc", "page")
            \/ SetEngine(L, L, "done", "done", "doneDoc", "guard4")
  BY <1>7, <1>13 DEF EngineStatuses
<1>14. CASE \/ SaveArtifact(L, "records", "saveRecords", "guard", "raise")
            \/ SaveArtifact(L, "graph", "saveGraph", "guard3", "raise")
  BY <1>8, <1>14 DEF Files
<1> QED
  BY <1>9, <1>10, <1>11, <1>12, <1>13, <1>14 DEF RunLegacy, Publish

(* LightRAG in peace. *)
LEMMA CalmLight ==
    ASSUME Typed, Peaceful, RunLightrag, UNCHANGED scenario
    PROVE  Peaceful'
<1> DEFINE L == "lightrag"
<1>0. /\ L \in Engines /\ L \in Actors \ {"api"} /\ "main" \in Actors /\ "api" \in Actors
      /\ Engines \ {L} = {"legacy"}
      /\ Actors \ {L} = {"legacy", "main", "api"}
  BY DEF Engines, Actors
<1>1. Peace /\ LightTrue /\ Undisturbed /\ ~IsCancelled(L) /\ TypeOK
  BY <1>0, PeaceHolds, NothingIsCancelled DEF Peaceful, Truth, Typed
<1>2. Targets' = Targets
  BY DEF Targets
<1>3. ASSUME Waits, Rest, Locks'
      PROVE  Peaceful'
  BY <1>3, WaitKeeps
<1>4. ASSUME NEW from, NEW to, Goes(L, from, to), UNCHANGED <<todo, verdict, flag, outcome, graph>>,
             Locks', from \notin {"idle", "over"},
             \/ Plain \/ (\E s : SetsMeta(L, s) \/ SetsDoc(L, s)),
             LightTrue'
      PROVE  Peaceful'
  <2>1. pc'[L] = to /\ pc[L] = from /\ \A a \in Actors \ {L} : pc'[a] = pc[a]
    BY <1>0, <1>4 DEF Goes, Peace, Typed, Placed
  <2>2. EngineOnly(L)
    BY <1>0, <1>4, <2>1 DEF EngineOnly, Same, Plain, Alike, SetsMeta, SetsDoc
  <2> QED
    BY <1>0, <1>4, <2>2, EngineKeeps
<1>5. ASSUME NEW from, NEW to, Goes(L, from, to), UNCHANGED <<rows, copies>>,
             UNCHANGED <<todo, verdict, flag, outcome, graph>>,
             <<from, to>> \in {<<"begin", "mark">>, <<"insert", "inserted">>, <<"inserted", "done">>},
             light => light', from = "insert" => light'
      PROVE  Peaceful'
  <2>1. Plain /\ Locks'
    BY <1>0, <1>1, <1>5, CalmRead
  <2>2. pc'[L] = to /\ pc[L] = from /\ from \notin {"idle", "over"}
    BY <1>0, <1>1, <1>5 DEF Goes, Peace, Typed, Placed
  <2>3. LightTrue'
    <3>1. outcome' = outcome /\ meta' = meta /\ doc' = doc
      BY <1>5 DEF rows
    <3> QED
      BY <1>1, <1>2, <1>5, <2>2, <3>1 DEF LightTrue, LightBefore, LightAfter
  <2> QED
    BY <1>4, <1>5, <2>1, <2>2, <2>3
<1>6. ASSUME NEW s \in EngineStatuses, NEW from, NEW mid, NEW to, SetEngine(L, L, s, from, mid, to),
             <<s, from, mid, to>> \in {<<"indexing", "mark", "markDoc", "insert">>,
                                       <<"done", "done", "doneDoc", "return">>}
      PROVE  Peaceful'
  <2>0. "idle" \notin {from, mid, to} /\ mid # "failStatus" /\ "over" \notin {from, mid}
    BY <1>6
  <2>1. /\ Rest /\ Locks'
        /\ \/ Waits
           \/ Goes(L, from, mid) /\ SetsMeta(L, s)
           \/ Goes(L, mid, to) /\ SetsDoc(L, s)
    BY <1>0, <1>1, <1>6, <2>0, CalmSetEngine
  <2>2. CASE Goes(L, from, mid) /\ SetsMeta(L, s)
    <3>1. pc'[L] = mid /\ pc[L] = from
      BY <1>0, <1>1, <2>2 DEF Goes, Peace, Typed, Placed
    <3>2. /\ UNCHANGED <<todo, verdict, flag, outcome, light, graph>>
          /\ meta'.lightrag = s /\ doc'.lightrag = doc.lightrag
      BY <1>0, <2>1, <2>2 DEF SetsMeta, Rest
    <3>3. LightTrue'
      BY <1>1, <1>2, <1>6, <3>1, <3>2 DEF LightTrue, LightBefore, LightAfter
    <3> QED
      BY <1>4, <2>0, <2>1, <2>2, <3>2, <3>3
  <2>3. CASE Goes(L, mid, to) /\ SetsDoc(L, s)
    <3>1. pc'[L] = to /\ pc[L] = mid
      BY <1>0, <1>1, <2>3 DEF Goes, Peace, Typed, Placed
    <3>2. /\ UNCHANGED <<todo, verdict, flag, outcome, light, graph>>
          /\ meta'.lightrag = meta.lightrag /\ doc'.lightrag = s
      BY <1>0, <2>1, <2>3 DEF SetsDoc, Rest
    <3>3. LightTrue'
      BY <1>1, <1>2, <1>6, <3>1, <3>2 DEF LightTrue, LightBefore, LightAfter, Both
    <3> QED
      BY <1>4, <2>0, <2>1, <2>3, <3>2, <3>3
  <2> QED
    BY <1>3, <2>1, <2>2, <2>3
<1>7. CASE \/ SetEngine(L, L, "indexing", "mark", "markDoc", "insert")
           \/ SetEngine(L, L, "done", "done", "doneDoc", "return")
  BY <1>6, <1>7 DEF EngineStatuses
<1>8. CASE InsertPages
  <2>1. /\ Goes(L, "insert", "inserted") /\ UNCHANGED <<rows, copies>>
        /\ UNCHANGED <<todo, verdict, flag, outcome, graph>> /\ light'
    BY <1>8 DEF InsertPages, Goes, Goto, worker
  <2> QED
    BY <1>5, <2>1
<1>9. CASE \/ Branch(L, "begin", IsCancelled(L), "raise", "mark")
           \/ Branch(L, "inserted", IsCancelled(L), "remove", "done")
  <2>1. /\ Goes(L, "begin", "mark") \/ Goes(L, "inserted", "done")
        /\ UNCHANGED <<rows, copies>> /\ UNCHANGED <<todo, verdict, flag, outcome, graph, light>>
    BY <1>1, <1>9 DEF Branch, Goes, Goto, worker, stores
  <2> QED
    BY <1>5, <2>1
<1>10. ~RemovePages
  BY <1>1 DEF RemovePages, LightTrue, LightBefore, LightAfter
<1> QED
  BY <1>7, <1>8, <1>9, <1>10 DEF RunLightrag

(* A thread of an engine ends. *)
LEMMA CalmEnd ==
    ASSUME Typed, Peaceful, NEW e \in Engines, Child(e), UNCHANGED scenario
    PROVE  Peaceful'
<1>0. Peace /\ TypeOK /\ e \in Actors \ {"api"} /\ Targets' = Targets
  BY PeaceHolds DEF Peaceful, Typed, Actors, Engines, Targets
<1>1. /\ Goes(e, pc[e], "over") /\ UNCHANGED rows
      /\ copy' \in {copy, [copy EXCEPT ![e] = NoCopy]}
      /\ dcopy' \in {dcopy, [dcopy EXCEPT ![e] = NoCopy]}
      /\ UNCHANGED <<todo, verdict, flag>> /\ pc[e] \notin {"idle", "over"}
  BY DEF Child, Return, Raise, ChildFails, End, Goto, Goes, copies
<1>2. /\ pc'[e] = "over" /\ \A a \in Actors \ {e} : pc'[a] = pc[a]
  BY <1>0, <1>1 DEF Goes, Typed, Placed
<1>3. Plain /\ Locks'
  BY <1>0, <1>1, CalmDrop
<1>4. /\ outcome'[e] = IF pc[e] = "return" THEN "done" ELSE "failed"
      /\ e # "legacy" \/ pc[e] = "return" => graph' = graph
      /\ e # "lightrag" \/ pc[e] = "return" => light' = light
      /\ \A x \in Engines \ {e} : outcome'[x] = outcome[x]
  <2>1. ~Raise(e)
    BY DEF Raise, Peaceful, Truth, LegacyTrue, LightTrue, LegacyBefore, LegacyAfter, LightBefore,
           LightAfter, Engines
  <2>2. CASE Return(e)
    BY <1>0, <2>2 DEF Return, End, TypeOK, stores
  <2>3. CASE ChildFails(e)
    BY <1>0, <2>3 DEF ChildFails, TypeOK
  <2> QED
    BY <2>1, <2>2, <2>3 DEF Child
<1>5. EngineOnly(e)
  BY <1>1, <1>2, <1>3, <1>4 DEF EngineOnly, Same, Plain, Alike, rows, Actors, Engines
<1>6. IF e = "legacy" THEN LegacyTrue' ELSE LightTrue'
  <2>1. CASE e = "legacy"
    BY <1>0, <1>1, <1>2, <1>4, <2>1
       DEF Peaceful, Truth, LegacyTrue, LegacyBefore, LegacyAfter, Both, rows
  <2>2. CASE e = "lightrag"
    BY <1>0, <1>1, <1>2, <1>4, <2>2
       DEF Peaceful, Truth, LightTrue, LightBefore, LightAfter, Both, rows
  <2> QED
    BY <2>1, <2>2 DEF Engines
<1> QED
  BY <1>3, <1>5, <1>6, EngineKeeps

(* The pipeline in peace. *)
LEMMA MainGoes ==
    ASSUME Typed, NEW from, NEW to, Goes("main", from, to)
    PROVE  /\ pc["main"] = from /\ pc'["main"] = to
           /\ \A a \in Actors \ {"main"} : pc'[a] = pc[a]
           /\ pc'["api"] = pc["api"] /\ \A e \in Engines : pc'[e] = pc[e]
BY DEF Typed, Placed, Goes, Actors, Engines

(* It sets the rows of an engine only before the engine has begun, or after
   it failed. *)
MaySet(e) ==
    \/ meta'[e] = meta[e] /\ doc'[e] = doc[e]
    \/ e \in Targets /\ pc[e] = "idle" /\ doc'[e] # "done"
    \/ e \in Targets /\ pc[e] = "over" /\ outcome[e] = "failed"

LEMMA MainKeeps ==
    ASSUME Typed, Peaceful, UNCHANGED scenario, NEW from, NEW to, Goes("main", from, to),
           UNCHANGED <<graph, light, outcome>>, ~flag', Locks',
           meta'.stored, meta'.status \notin {"none", "cancelled"}, doc'.stored,
           \A e \in Engines : MaySet(e), MainTrue'
    PROVE  Peaceful'
<1>1. Targets' = Targets /\ pc'["api"] = pc["api"] /\ \A e \in Engines : pc'[e] = pc[e]
  BY MainGoes DEF Targets
<1>2. Undisturbed'
  BY <1>1 DEF Peaceful, Undisturbed
<1>3. LegacyTrue'
  <2>1. MaySet("legacy") /\ pc'["legacy"] = pc["legacy"]
    BY <1>1 DEF Engines
  <2> QED
    BY <1>1, <2>1 DEF Peaceful, Truth, LegacyTrue, MaySet, Both, LegacyBefore, LegacyAfter
<1>4. LightTrue'
  <2>1. MaySet("lightrag") /\ pc'["lightrag"] = pc["lightrag"]
    BY <1>1 DEF Engines
  <2> QED
    BY <1>1, <2>1 DEF Peaceful, Truth, LightTrue, MaySet, Both, LightBefore, LightAfter
<1> QED
  BY <1>2, <1>3, <1>4 DEF Peaceful, Truth

(* The stages exclude each other. *)
LEMMA OneStage ==
    ASSUME \/ pc'["main"] \in Early /\ MainEarly'
           \/ pc'["main"] \in FailSteps /\ MainFails'
           \/ pc'["main"] \in JoinSteps /\ MainJoins'
           \/ pc'["main"] \in RetrySteps /\ MainRetries'
           \/ pc'["main"] \in LastSteps /\ MainTells'
    PROVE  MainTrue'
<1>1. CASE pc'["main"] \in Early /\ MainEarly'
  BY <1>1 DEF MainTrue, MainPlaces, MainFails, MainJoins, MainRetries, MainTells, Early, BeforeFork,
              FailSteps, JoinSteps, ReportSteps, RetrySteps
<1>2. CASE pc'["main"] \in FailSteps /\ MainFails'
  BY <1>2 DEF MainTrue, MainPlaces, MainEarly, MainJoins, MainRetries, MainTells, Early, BeforeFork,
              FailSteps, JoinSteps, ReportSteps, RetrySteps
<1>3. CASE pc'["main"] \in JoinSteps /\ MainJoins'
  BY <1>3 DEF MainTrue, MainPlaces, MainEarly, MainFails, MainRetries, MainTells, Early, BeforeFork,
              FailSteps, JoinSteps, ReportSteps, RetrySteps
<1>4. CASE pc'["main"] \in RetrySteps /\ MainRetries'
  BY <1>4 DEF MainTrue, MainPlaces, MainEarly, MainFails, MainJoins, MainTells, Early, BeforeFork,
              FailSteps, JoinSteps, ReportSteps, RetrySteps
<1>5. CASE pc'["main"] \in LastSteps /\ MainTells'
  BY <1>5 DEF MainTrue, MainPlaces, MainEarly, MainFails, MainJoins, MainRetries, Early, BeforeFork,
              FailSteps, JoinSteps, ReportSteps, RetrySteps, LastSteps
<1> QED
  BY <1>1, <1>2, <1>3, <1>4, <1>5

(* Before the engines are begun. *)
LEMMA EarlyMoves ==
    ASSUME Typed, Peaceful, UNCHANGED scenario, NEW from \in Early, NEW to \in Early \ {"start"},
           Goes("main", from, to), UNCHANGED <<graph, light, outcome, todo, flag>>, Locks',
           \/ Plain \/ SetsStatus("parsing") \/ SetsStatus("indexing")
           \/ "legacy" \in Targets /\ SetsDoc("legacy", "indexing"),
           to \in {"reuse", "reusing", "retry"} => Targets = {"lightrag"}
    PROVE  Peaceful'
<1>1. /\ pc["main"] = from /\ pc'["main"] = to /\ \A e \in Engines : pc'[e] = pc[e]
      /\ Targets' = Targets /\ Targets \subseteq Engines
  BY MainGoes, ScenarioFacts DEF Targets, Typed
<1>2. Idle /\ todo["main"] = Targets /\ \A e \in Targets : meta[e] = "pending"
  BY <1>1 DEF Peaceful, Truth, MainTrue, MainEarly
<1>3. /\ meta'.stored /\ meta'.status \notin {"none", "cancelled"} /\ doc'.stored /\ ~flag'
      /\ \A e \in Engines : meta'[e] = meta[e]
  BY DEF Peaceful, Undisturbed, Plain, Alike, SetsStatus, SetsDoc
<1>4. \A e \in Engines : MaySet(e)
  BY <1>2, <1>3 DEF MaySet, Plain, Alike, SetsStatus, SetsDoc, Idle
<1>5. MainTrue'
  <2>1. MainEarly'
    BY <1>1, <1>2, <1>3 DEF MainEarly, Idle
  <2> QED
    BY <1>1, <2>1, OneStage
<1> QED
  BY <1>3, <1>4, <1>5, MainKeeps

LEMMA EarlyReads ==
    ASSUME Typed, Peaceful, UNCHANGED scenario, NEW from \in Early, NEW to \in Early \ {"start"},
           Goes("main", from, to), UNCHANGED <<rows, copies>>,
           UNCHANGED <<graph, light, outcome, todo, flag>>,
           to \in {"reuse", "reusing", "retry"} => Targets = {"lightrag"}
    PROVE  Peaceful'
<1>1. "main" \in Actors \ {"api"} /\ "main" \notin Engines /\ Peace
  BY PeaceHolds DEF Actors, Engines, Peaceful
<1>2. Plain /\ Locks'
  BY <1>1, CalmRead
<1> QED
  BY <1>2, EarlyMoves

LEMMA EarlyStatus ==
    ASSUME Typed, Peaceful, UNCHANGED scenario, NEW s \in {"parsing", "indexing"},
           NEW from \in Early, NEW to \in Early \ {"start"},
           Updates("main", from, SetStatus(copy["main"], s), to),
           to \in {"reuse", "reusing", "retry"} => Targets = {"lightrag"}
    PROVE  Peaceful'
<1>1. Peace /\ s \in Statuses
  BY PeaceHolds DEF Peaceful, Statuses
<1>2. Rest /\ Locks' /\ (Waits \/ (Goes("main", from, to) /\ SetsStatus(s)))
  BY <1>1, CalmStatus
<1>3. CASE Waits
  BY <1>2, <1>3, WaitKeeps
<1>4. CASE Goes("main", from, to) /\ SetsStatus(s)
  BY <1>2, <1>4, EarlyMoves DEF Rest
<1> QED
  BY <1>2, <1>3, <1>4

LEMMA EarlyPages ==
    ASSUME Typed, Peaceful, UNCHANGED scenario, NEW from \in Early, NEW to \in Early \ {"start"},
           NEW cancelled, SaveArtifact("main", "pages", from, to, cancelled),
           to \in {"reuse", "reusing", "retry"} => Targets = {"lightrag"}
    PROVE  Peaceful'
<1>1. "main" \in Actors \ {"api"} /\ "main" \notin Engines /\ "pages" \in Files /\ Peace
  BY PeaceHolds DEF Actors, Engines, Files, Peaceful
<1>2. Rest /\ Locks' /\ (Waits \/ (Goes("main", from, to) /\ Plain))
  BY <1>1, CalmSaveArtifact
<1>3. CASE Waits
  BY <1>2, <1>3, WaitKeeps
<1>4. CASE Goes("main", from, to) /\ Plain
  BY <1>2, <1>4, EarlyMoves DEF Rest
<1> QED
  BY <1>2, <1>3, <1>4

LEMMA CalmStart ==
    ASSUME Typed, Peaceful, UNCHANGED scenario, Start \/ Open \/ Parse \/ ParserFails
    PROVE  Peaceful'
<1>0. /\ {"start", "open", "parse", "parsing", "parsed", "savePages", "indexing", "indexingDoc",
          "fork", "failing", "reuse"} \subseteq Early
      /\ "main" \in Actors
  BY DEF Early, BeforeFork, Actors
<1>1. ~IsCancelled("main") /\ Whole /\ doc.stored /\ Peace
  BY <1>0, NothingIsCancelled, PeaceHolds DEF Peaceful, Undisturbed
<1>2. ASSUME NEW from \in Early, NEW to \in Early \ {"start"}, Goes("main", from, to),
             UNCHANGED <<rows, copies>>, UNCHANGED <<graph, light, outcome, todo, flag>>,
             to \in {"reuse", "reusing", "retry"} => Targets = {"lightrag"}
      PROVE  Peaceful'
  BY <1>2, EarlyReads
<1>3. CASE Start
  <2>1. pc["main"] = "start" => meta.status \notin Terminal
    BY <1>0 DEF Peaceful, Truth, MainTrue, MainEarly, Terminal
  <2>2. /\ Goes("main", "start", "open") /\ UNCHANGED <<rows, copies>>
        /\ UNCHANGED <<graph, light, outcome, todo, flag>>
    BY <1>1, <1>3, <2>1 DEF Start, Branch, Goto, Goes, stores, worker
  <2> QED
    BY <1>0, <1>2, <2>2
<1>4. CASE Open
  <2>1. /\ Goes("main", "open", "parse") \/ (Targets = {"lightrag"} /\ Goes("main", "open", "reuse"))
        /\ UNCHANGED <<rows, copies>> /\ UNCHANGED <<graph, light, outcome, todo, flag>>
    BY <1>1, <1>4 DEF Open, Branch, Goto, Goes, stores, worker
  <2> QED
    BY <1>0, <1>2, <2>1
<1>5. CASE ParserFails
  <2>1. PICK from \in {"parse", "parsing", "parsed", "savePages", "indexing", "indexingDoc"} :
           pc["main"] = from
    BY <1>5 DEF ParserFails
  <2>2. /\ Goes("main", from, "failing") /\ UNCHANGED rows
        /\ copy' = [copy EXCEPT !["main"] = NoCopy]
        /\ dcopy' = [dcopy EXCEPT !["main"] = NoCopy]
        /\ UNCHANGED <<graph, light, outcome, todo, flag>>
    BY <1>5, <2>1 DEF ParserFails, Goto, Goes, stores, worker
  <2>3. Plain /\ Locks'
    BY <1>0, <1>1, <2>2, CalmDrop DEF Actors, Engines
  <2> QED
    BY <1>0, <2>2, <2>3, EarlyMoves
<1>6. CASE \/ Branch("main", "parse", IsCancelled("main"), "sayCancelled", "parsing")
           \/ Branch("main", "parsed", IsCancelled("main"), "sayCancelled", "savePages")
           \/ Branch("main", "indexingDoc", TRUE, "fork", "fork")
  <2>1. /\ \/ Goes("main", "parse", "parsing") \/ Goes("main", "parsed", "savePages")
           \/ Goes("main", "indexingDoc", "fork")
        /\ UNCHANGED <<rows, copies>> /\ UNCHANGED <<graph, light, outcome, todo, flag>>
    BY <1>1, <1>6 DEF Branch, Goto, Goes, stores, worker
  <2> QED
    BY <1>0, <1>2, <2>1
<1>7. CASE UpdateMeta("main", "parsing", LAMBDA row : SetStatus(row, "parsing"), "parsed")
  <2>1. Updates("main", "parsing", SetStatus(copy["main"], "parsing"), "parsed")
    BY <1>7 DEF UpdateMeta, Updates
  <2> QED
    BY <1>0, <2>1, EarlyStatus
<1>8. CASE UpdateMeta("main", "indexing", LAMBDA row : SetStatus(row, "indexing"), "indexingDoc")
  <2>1. Updates("main", "indexing", SetStatus(copy["main"], "indexing"), "indexingDoc")
    BY <1>8 DEF UpdateMeta, Updates
  <2> QED
    BY <1>0, <2>1, EarlyStatus
<1>9. CASE SaveArtifact("main", "pages", "savePages", "indexing", "failing")
  BY <1>0, <1>9, EarlyPages
<1>10. CASE /\ "legacy" \in Targets
            /\ UpdateDoc("main", "indexingDoc", LAMBDA row : SetDoc(row, "legacy", "indexing"), "fork")
  <2>1. SetEngine("main", "legacy", "indexing", "never", "indexingDoc", "fork")
    BY <1>10 DEF SetEngine
  <2>2. /\ Rest /\ Locks'
        /\ \/ Waits
           \/ Goes("main", "never", "indexingDoc") /\ SetsMeta("legacy", "indexing")
           \/ Goes("main", "indexingDoc", "fork") /\ SetsDoc("legacy", "indexing")
    BY <1>1, <2>1, CalmSetEngine DEF Actors, Engines, EngineStatuses
  <2>3. ~Goes("main", "never", "indexingDoc")
    BY <1>10 DEF Goes, UpdateDoc
  <2>4. CASE Waits
    BY <2>2, <2>4, WaitKeeps
  <2>5. CASE Goes("main", "indexingDoc", "fork") /\ SetsDoc("legacy", "indexing")
    BY <1>0, <1>10, <2>2, <2>5, EarlyMoves DEF Rest
  <2> QED
    BY <2>2, <2>3, <2>4, <2>5
<1> QED
  BY <1>3, <1>4, <1>5, <1>6, <1>7, <1>8, <1>9, <1>10 DEF Parse

LEMMA TargetsExist == ASSUME Placed PROVE Targets # {} /\ Targets \subseteq Engines
BY PipelineAssumption DEF Placed, Targets

LEMMA CalmFork == ASSUME Typed, Peaceful, UNCHANGED scenario, Fork PROVE Peaceful'
<1>0. "main" \in Actors /\ "api" \in Actors /\ Targets' = Targets /\ Targets \subseteq Engines
  BY TargetsExist DEF Actors, Targets, Typed
<1>1. /\ Idle /\ pc["main"] = "fork" /\ UNCHANGED <<meta, doc, copy, dcopy>>
      /\ UNCHANGED <<graph, light, flag, outcome, verdict>> /\ todo' = [todo EXCEPT !["main"] = Targets]
  BY DEF Fork, Peaceful, Truth, MainTrue, MainEarly, Early, BeforeFork, rows, copies, stores
<1>2. /\ pc'["main"] = "join" /\ pc'["api"] = pc["api"]
      /\ \A e \in Engines : pc'[e] = CASE e \in Targets -> IF e = "legacy" THEN "mark" ELSE "begin"
                                       [] OTHER -> pc[e]
  BY <1>0 DEF Fork, Actors, Engines
<1>3. Undisturbed'
  BY <1>1, <1>2 DEF Peaceful, Undisturbed
<1>4. Locks'
  BY <1>1 DEF Peaceful, Locks, OneHolds, Idle
<1>5. LegacyTrue'
  <2>1. pc["legacy"] = "idle" /\ pc'["legacy"] = IF "legacy" \in Targets THEN "mark" ELSE "idle"
    BY <1>1, <1>2 DEF Idle, Engines
  <2> QED
    BY <1>0, <1>1, <2>1 DEF Peaceful, Truth, LegacyTrue, LegacyBefore, LegacyAfter
<1>6. LightTrue'
  <2>1. pc["lightrag"] = "idle" /\ pc'["lightrag"] = IF "lightrag" \in Targets THEN "begin" ELSE "idle"
    BY <1>1, <1>2 DEF Idle, Engines
  <2> QED
    BY <1>0, <1>1, <2>1 DEF Peaceful, Truth, LightTrue, LightBefore, LightAfter
<1>7. MainTrue'
  <2>1. \A e \in Targets : "join" \notin {Report[e], ReportDoc[e]}
    BY <1>0, Reports
  <2>2. todo'["main"] = Targets
    BY <1>1 DEF Typed, TypeOK
  <2>3. MainJoins'
    BY <1>0, <1>2, <2>1, <2>2 DEF MainJoins
  <2> QED
    BY <1>2, <2>3, OneStage DEF JoinSteps
<1> QED
  BY <1>3, <1>4, <1>5, <1>6, <1>7 DEF Peaceful, Truth

(* The pipeline collects its engines. *)
LEMMA Collecting ==
    ASSUME Typed, Peaceful, UNCHANGED scenario, NEW from \in JoinSteps, NEW to \in JoinSteps,
           Goes("main", from, to), UNCHANGED <<graph, light, outcome, flag>>, Locks',
           meta'.stored, meta'.status = meta.status, doc'.stored,
           \A e \in Engines : MaySet(e), MainJoins'
    PROVE  Peaceful'
<1>1. pc'["main"] = to
  BY MainGoes
<1>2. MainTrue'
  BY <1>1, OneStage
<1> QED
  <2>1. ~flag' /\ meta'.status \notin {"none", "cancelled"} /\ UNCHANGED <<graph, light, outcome>>
    BY DEF Peaceful, Undisturbed
  <2> QED
    BY <1>2, <2>1, MainKeeps

LEMMA CalmJoin ==
    ASSUME Typed, Peaceful, UNCHANGED scenario, NEW e \in Targets, Join(e)
    PROVE  Peaceful'
<1>0. /\ "main" \in Actors \ {"api"} /\ "main" \notin Engines /\ Targets' = Targets
      /\ Targets \subseteq Engines /\ e \in Engines /\ Peace /\ TypeOK /\ Undisturbed
  BY TargetsExist, PeaceHolds DEF Actors, Engines, Targets, Typed, Peaceful
<1>1. /\ "join" \in JoinSteps /\ Report[e] \in JoinSteps /\ ReportDoc[e] \in JoinSteps
      /\ Report[e] # "join" /\ ReportDoc[e] # "join" /\ Report[e] # ReportDoc[e]
      /\ \A x \in Targets \ {e} : {Report[e], ReportDoc[e]} \cap {Report[x], ReportDoc[x]} = {}
      /\ \A x \in Targets : "join" \notin {Report[x], ReportDoc[x]}
      /\ "idle" \notin {Report[e], ReportDoc[e], "join"} /\ ReportDoc[e] # "failStatus"
  BY <1>0 DEF JoinSteps, ReportSteps, Report, ReportDoc, Engines
<1>2. MainJoins
  BY DEF Peaceful, Truth, MainTrue
<1>3. CASE /\ pc["main"] = "join" /\ outcome[e] # "running"
           /\ Visit("main", e, IF outcome[e] = "done" THEN "join" ELSE Report[e])
  <2> DEFINE to == IF outcome[e] = "done" THEN "join" ELSE Report[e]
  <2>1. /\ Goes("main", "join", to) /\ UNCHANGED <<rows, copies, meta, doc>>
        /\ UNCHANGED <<graph, light, outcome, flag>> /\ e \in todo["main"]
        /\ todo' = [todo EXCEPT !["main"] = @ \ {e}]
    BY <1>3 DEF Visit, Goes, Goto, rows, stores
  <2>2. to \in JoinSteps /\ "idle" \notin {"join", to}
    BY <1>1
  <2> HIDE DEF to
  <2>3. Locks'
    BY <1>0, <2>1, CalmRead
  <2>4. pc["main"] = "join" /\ pc'["main"] = to
    BY <2>1, MainGoes
  <2>5. outcome[e] \in {"done", "failed"}
    <3>1. pc[e] = "over"
      BY <1>0, <1>3 DEF Typed, Collected
    <3> QED
      BY <1>0, <3>1
         DEF Peaceful, Truth, LegacyTrue, LightTrue, LegacyBefore, LegacyAfter, LightBefore,
                        LightAfter, Engines
  <2>6. \A x \in Targets : x \in todo'["main"] <=> x \in todo["main"] /\ x # e
    BY <1>0, <2>1 DEF TypeOK
  <2>7. MainJoins'
    BY <1>0, <1>1, <1>2, <2>1, <2>4, <2>5, <2>6 DEF MainJoins, Both, to
  <2>8. \A x \in Engines : MaySet(x)
    BY <2>1 DEF MaySet
  <2> QED
    <3>1. /\ meta'.stored /\ meta'.status = meta.status /\ doc'.stored
          /\ UNCHANGED <<graph, light, outcome, flag>>
      BY <1>0, <2>1 DEF Undisturbed
    <3> QED
      BY <1>1, <2>1, <2>2, <2>3, <2>7, <2>8, <3>1, Collecting
<1>4. CASE SetEngine("main", e, outcome[e], Report[e], ReportDoc[e], "join")
  <2>1. outcome[e] = "failed" /\ pc["main"] \in {Report[e], ReportDoc[e]} /\ pc[e] = "over"
    <3>1. pc["main"] \in {Report[e], ReportDoc[e]}
      BY <1>4 DEF SetEngine, UpdateDoc
    <3>2. outcome[e] = "failed"
      BY <1>0, <1>1, <1>2, <3>1 DEF MainJoins
    <3> QED
      BY <1>0, <3>1, <3>2 DEF Typed, Collected
  <2>2. "failed" \in EngineStatuses /\ SetEngine("main", e, "failed", Report[e], ReportDoc[e], "join")
    BY <1>4, <2>1 DEF EngineStatuses
  <2>3. /\ Rest /\ Locks'
        /\ \/ Waits
           \/ Goes("main", Report[e], ReportDoc[e]) /\ SetsMeta(e, "failed")
           \/ Goes("main", ReportDoc[e], "join") /\ SetsDoc(e, "failed")
    BY <1>0, <1>1, <2>2, CalmSetEngine
  <2>4. CASE Goes("main", Report[e], ReportDoc[e]) /\ SetsMeta(e, "failed")
    <3>1. pc["main"] = Report[e] /\ pc'["main"] = ReportDoc[e]
      BY <2>4, MainGoes
    <3>2. \A x \in Engines : MaySet(x)
      BY <2>1, <2>4 DEF MaySet, SetsMeta
    <3>3. UNCHANGED <<graph, light, outcome, flag, todo>>
      BY <2>3 DEF Rest
    <3>4. MainJoins'
      BY <1>0, <1>1, <1>2, <2>1, <2>4, <3>1, <3>3 DEF MainJoins, Both, SetsMeta
    <3> QED
      <4>1. /\ meta'.stored /\ meta'.status = meta.status /\ doc'.stored
            /\ UNCHANGED <<graph, light, outcome, flag>>
        BY <1>0, <2>4, <3>3 DEF Undisturbed, SetsMeta
      <4> QED
        BY <1>1, <2>3, <2>4, <3>2, <3>4, <4>1, Collecting
  <2>5. CASE Goes("main", ReportDoc[e], "join") /\ SetsDoc(e, "failed")
    <3>1. pc["main"] = ReportDoc[e] /\ pc'["main"] = "join"
      BY <2>5, MainGoes
    <3>2. \A x \in Engines : MaySet(x)
      BY <2>1, <2>5 DEF MaySet, SetsDoc
    <3>3. UNCHANGED <<graph, light, outcome, flag, todo>>
      BY <2>3 DEF Rest
    <3>4. MainJoins'
      BY <1>0, <1>1, <1>2, <2>1, <2>5, <3>1, <3>3 DEF MainJoins, Both, SetsDoc
    <3> QED
      <4>1. /\ meta'.stored /\ meta'.status = meta.status /\ doc'.stored
            /\ UNCHANGED <<graph, light, outcome, flag>>
        BY <1>0, <2>5, <3>3 DEF Undisturbed, SetsDoc
      <4> QED
        BY <1>1, <2>3, <2>5, <3>2, <3>4, <4>1, Collecting
  <2> QED
    BY <2>3, <2>4, <2>5, WaitKeeps
<1> QED
  BY <1>3, <1>4 DEF Join

LEMMA MainReads ==
    ASSUME Typed, Peaceful, UNCHANGED scenario, NEW from, NEW to, Goes("main", from, to),
           UNCHANGED <<rows, copies>>, UNCHANGED <<graph, light, outcome>>, ~flag', MainTrue'
    PROVE  Peaceful'
<1>1. "main" \in Actors \ {"api"} /\ "main" \notin Engines /\ Peace
  BY PeaceHolds DEF Actors, Engines, Peaceful
<1>2. Locks'
  BY <1>1, CalmRead
<1>3. /\ meta'.stored /\ meta'.status \notin {"none", "cancelled"} /\ doc'.stored
      /\ \A e \in Engines : MaySet(e)
  BY DEF Peaceful, Undisturbed, MaySet, rows
<1> QED
  BY <1>2, <1>3, MainKeeps

LEMMA MainSetsStatus ==
    ASSUME Typed, Peaceful, UNCHANGED scenario, NEW s \in Statuses \ {"none", "cancelled"},
           NEW from, NEW to, Updates("main", from, SetStatus(copy["main"], s), to),
           Goes("main", from, to) /\ SetsStatus(s) /\ Rest => MainTrue'
    PROVE  Peaceful'
<1>1. Peace /\ s \in Statuses
  BY PeaceHolds DEF Peaceful
<1>2. Rest /\ Locks' /\ (Waits \/ (Goes("main", from, to) /\ SetsStatus(s)))
  BY <1>1, CalmStatus
<1>3. CASE Waits
  BY <1>2, <1>3, WaitKeeps
<1>4. CASE Goes("main", from, to) /\ SetsStatus(s)
  <2>1. /\ meta'.stored /\ meta'.status \notin {"none", "cancelled"} /\ doc'.stored /\ ~flag'
        /\ UNCHANGED <<graph, light, outcome>> /\ \A e \in Engines : MaySet(e)
    BY <1>2, <1>4 DEF Peaceful, Undisturbed, MaySet, SetsStatus, Rest
  <2> QED
    BY <1>2, <1>4, <2>1, MainKeeps
<1> QED
  BY <1>2, <1>3, <1>4

LEMMA CalmTells ==
    ASSUME Typed, Peaceful, UNCHANGED scenario, Joined \/ Tally \/ Settle \/ Finally
    PROVE  Peaceful'
<1>0. /\ "main" \in Actors /\ Targets' = Targets /\ Targets # {} /\ Targets \subseteq Engines
      /\ Peace /\ TypeOK /\ ~flag
  BY TargetsExist, PeaceHolds DEF Actors, Targets, Typed, Peaceful, Undisturbed
<1>1. ~IsCancelled("main")
  BY <1>0, NothingIsCancelled DEF Peaceful
<1>2. /\ {"tally", "settle", "finally", "over"} \subseteq LastSteps /\ "join" \in JoinSteps
  BY DEF LastSteps, JoinSteps
<1>3. ASSUME NEW from, NEW to \in LastSteps, Goes("main", from, to), UNCHANGED <<rows, copies>>,
             UNCHANGED <<graph, light, outcome>>, flag' => flag, MainTells'
      PROVE  Peaceful'
  <2>1. MainTrue' /\ ~flag'
    BY <1>0, <1>3, OneStage, MainGoes
  <2> QED
    BY <1>3, <2>1, MainReads
<1>4. CASE Joined
  <2>1. /\ Goes("main", "join", "tally") /\ UNCHANGED <<rows, copies>> /\ todo["main"] = {}
        /\ UNCHANGED <<graph, light, outcome, flag>>
    BY <1>1, <1>4 DEF Joined, Branch, Goto, Goes, stores, worker
  <2>2. pc["main"] = "join" /\ pc'["main"] = "tally" /\ meta' = meta /\ doc' = doc
    BY <2>1, MainGoes DEF rows
  <2>3. \A e \in Targets : Reported(e)
    <3> SUFFICES ASSUME NEW e \in Targets PROVE Reported(e)
      OBVIOUS
    <3>1. e \in Engines /\ "join" \notin {Report[e], ReportDoc[e]}
      BY <1>0, Reports
    <3>2. \/ outcome[e] = "done"
          \/ outcome[e] = "failed" /\ Both(e, "failed")
      BY <1>2, <2>1, <2>2, <3>1 DEF Peaceful, Truth, MainTrue, MainJoins
    <3>3. CASE outcome[e] = "done"
      <4>1. pc[e] = "over"
        BY <3>1, <3>3 DEF Typed, Collected
      <4>2. Both(e, "done")
        BY <3>1, <3>3, <4>1 DEF Peaceful, Truth, LegacyTrue, LightTrue, Engines
      <4> QED
        BY <3>3, <4>2 DEF Reported
    <3> QED
      BY <3>2, <3>3 DEF Reported
  <2>4. MainTells'
    BY <1>0, <2>1, <2>2, <2>3 DEF MainTells, Reported, Both
  <2> QED
    BY <1>2, <1>3, <2>1, <2>4
<1>5. CASE Tally
  <2>1. /\ Goes("main", "tally", "settle") /\ UNCHANGED <<rows, copies>> /\ verdict' = Verdict
        /\ UNCHANGED <<graph, light, outcome, flag>>
    BY <1>5 DEF Tally, Goto, Goes, stores
  <2>2. pc["main"] = "tally" /\ pc'["main"] = "settle" /\ meta' = meta /\ doc' = doc
    BY <2>1, MainGoes DEF rows
  <2>3. Verdict' = Verdict
    BY <1>0, <2>2 DEF Verdict
  <2>4. MainTells'
    BY <1>0, <2>1, <2>2, <2>3 DEF MainTells, Reported, Both, Peaceful, Truth, MainTrue
  <2> QED
    BY <1>2, <1>3, <2>1, <2>4
<1>6. CASE Finally
  <2>1. /\ Goes("main", "finally", "over") /\ UNCHANGED <<rows, copies>> /\ (flag' => flag)
        /\ UNCHANGED <<graph, light, outcome>>
    BY <1>6 DEF Finally, Goto, Goes, stores, worker
  <2>2. /\ pc["main"] = "finally" /\ pc'["main"] = "over" /\ meta' = meta /\ doc' = doc
        /\ \A e \in Engines : pc'[e] = pc[e]
    BY <2>1, MainGoes DEF rows
  <2>3. Verdict' = Verdict
    BY <1>0, <2>2 DEF Verdict
  <2>4. MainTells'
    BY <1>0, <2>1, <2>2, <2>3 DEF MainTells, Reported, Both, Peaceful, Truth, MainTrue
  <2> QED
    BY <1>2, <1>3, <2>1, <2>4
<1>7. CASE UpdateMeta("main", "settle", LAMBDA row : SetStatus(row, verdict), "finally")
  <2>1. Updates("main", "settle", SetStatus(copy["main"], verdict), "finally")
    BY <1>7 DEF UpdateMeta, Updates
  <2>2. /\ verdict = Verdict /\ \A e \in Targets : Reported(e)
    BY <2>1 DEF Updates, Peaceful, Truth, MainTrue, MainTells
  <2>3. verdict \in Statuses \ {"none", "cancelled"}
    BY <1>0, <2>2 DEF TypeOK, Verdict
  <2>4. ASSUME Goes("main", "settle", "finally"), SetsStatus(verdict), Rest PROVE MainTrue'
    <3>1. pc'["main"] = "finally"
      BY <2>4, MainGoes
    <3>2. /\ meta'.status = verdict /\ doc' = doc /\ outcome' = outcome
          /\ \A e \in Engines : meta'[e] = meta[e]
      BY <2>4 DEF SetsStatus, Rest
    <3>3. Verdict' = Verdict
      BY <1>0, <3>2 DEF Verdict
    <3>4. MainTells'
      BY <1>0, <2>2, <3>1, <3>2, <3>3 DEF MainTells, Reported, Both
    <3> QED
      BY <1>2, <3>1, <3>4, OneStage
  <2> QED
    BY <2>1, <2>3, <2>4, MainSetsStatus
<1>8. CASE \/ UpdateMeta("main", "sayCancelled", LAMBDA row : SetStatus(row, "cancelled"), "finally")
           \/ UpdateMeta("main", "noDocument", LAMBDA row : SetStatus(row, "failed"), "over")
           \/ UpdateMeta("main", "stopped", LAMBDA row : SetStatus(row, "cancelled"), "over")
  BY <1>8
     DEF UpdateMeta, Peaceful, Truth, MainTrue, MainPlaces, Early, BeforeFork, FailSteps, JoinSteps,
              ReportSteps, RetrySteps, LastSteps
<1> QED
  BY <1>4, <1>5, <1>6, <1>7, <1>8 DEF Settle

(* The handler of exceptions. *)
LEMMA CalmFailing ==
    ASSUME Typed, Peaceful, UNCHANGED scenario, Failing \/ FailDocument
    PROVE  Peaceful'
<1>0. /\ "main" \in Actors \ {"api"} /\ "main" \notin Engines /\ Targets' = Targets /\ Targets # {}
      /\ Targets \subseteq Engines /\ Peace /\ TypeOK /\ Undisturbed
  BY TargetsExist, PeaceHolds DEF Actors, Engines, Targets, Typed, Peaceful
<1>1. /\ "failing" \in Early /\ "finally" \in LastSteps
      /\ {"failEngines", "failStatus"} \subseteq FailSteps
      /\ \A e \in Targets : {"failEngines", "failStatus"} \cap {Fail[e], FailDoc[e]} = {}
  BY <1>0 DEF Early, FailSteps, LastSteps, Fail, FailDoc, Engines
<1>2. MainEarly /\ MainFails
  BY DEF Peaceful, Truth, MainTrue
<1>3. CASE Failing
  <2>1. Updates("main", "failing", SetStatus(copy["main"], "failed"), "failEngines")
    BY <1>3 DEF Failing, UpdateMeta, Updates
  <2>2. ASSUME Goes("main", "failing", "failEngines"), SetsStatus("failed"), Rest PROVE MainTrue'
    <3>1. /\ pc["main"] = "failing" /\ pc'["main"] = "failEngines"
          /\ \A e \in Engines : pc'[e] = pc[e]
      BY <2>2, MainGoes
    <3>2. meta'.status = "failed" /\ todo' = todo /\ \A e \in Engines : meta'[e] = meta[e]
      BY <2>2 DEF SetsStatus, Rest
    <3>3. MainFails'
      BY <1>0, <1>1, <1>2, <3>1, <3>2 DEF MainEarly, MainFails, Idle
    <3> QED
      BY <1>1, <3>1, <3>3, OneStage
  <2> QED
    BY <2>1, <2>2, MainSetsStatus DEF Statuses, Terminal
<1>4. CASE todo["main"] = {} /\ Branch("main", "failEngines", TRUE, "failStatus", "failStatus")
  <2>1. /\ Goes("main", "failEngines", "failStatus") /\ UNCHANGED <<rows, copies>>
        /\ UNCHANGED <<graph, light, outcome>> /\ UNCHANGED <<flag, todo>>
    BY <1>4 DEF Branch, Goto, Goes, stores, worker
  <2>2. /\ pc["main"] = "failEngines" /\ pc'["main"] = "failStatus" /\ meta' = meta /\ doc' = doc
        /\ \A e \in Engines : pc'[e] = pc[e]
    BY <2>1, MainGoes DEF rows
  <2>3. MainFails'
    BY <1>0, <1>1, <1>2, <1>4, <2>1, <2>2 DEF MainFails, Idle, Both
  <2>4. MainTrue' /\ ~flag'
    BY <1>0, <1>1, <2>1, <2>2, <2>3, OneStage DEF Undisturbed
  <2> QED
    BY <2>1, <2>4, MainReads
<1>5. CASE UpdateDoc("main", "failStatus", LAMBDA row : SetStatus(row, "failed"), "finally")
  <2> DEFINE row == SetStatus(dcopy["main"], "failed")
  <2>1. dcopy["main"] \in DocRows =>
           row \in DocRows /\ row.stored = dcopy["main"].stored
           /\ \A e \in Engines : row[e] = dcopy["main"][e]
    BY DEF SetStatus, DocRows, Engines
  <2>2. DocUpdates("main", "failStatus", row, "finally")
    BY <1>5 DEF UpdateDoc, DocUpdates
  <2> HIDE DEF row
  <2>3. /\ Rest /\ Locks' /\ meta' = meta
        /\ Waits \/ (Goes("main", "failStatus", "finally") /\ dcopy["main"] = doc /\ doc' = row)
    BY <1>0, <2>1, <2>2, CalmDocUpdate
  <2>4. CASE Waits
    BY <2>3, <2>4, WaitKeeps
  <2>5. CASE Goes("main", "failStatus", "finally") /\ dcopy["main"] = doc /\ doc' = row
    <3>1. /\ pc["main"] = "failStatus" /\ pc'["main"] = "finally"
          /\ \A e \in Engines : pc'[e] = pc[e]
      BY <2>5, MainGoes
    <3>2. doc'.stored = doc.stored /\ \A e \in Engines : doc'[e] = doc[e]
      BY <1>0, <2>1, <2>5 DEF TypeOK
    <3>3. Idle /\ meta.status = "failed" /\ \A e \in Targets : Both(e, "failed")
      BY <1>1, <1>2, <3>1 DEF MainFails
    <3>4. Verdict' = "failed"
      BY <1>0, <2>3, <3>3 DEF Verdict, Both
    <3>5. MainTells'
      BY <1>0, <2>3, <3>1, <3>2, <3>3, <3>4 DEF MainTells, Idle, Both
    <3>6. MainTrue'
      BY <1>1, <3>1, <3>5, OneStage
    <3>7. /\ meta'.stored /\ meta'.status \notin {"none", "cancelled"} /\ doc'.stored /\ ~flag'
          /\ UNCHANGED <<graph, light, outcome>> /\ \A e \in Engines : MaySet(e)
      BY <1>0, <2>3, <3>2 DEF Undisturbed, Rest, MaySet
    <3> QED
      BY <2>3, <2>5, <3>6, <3>7, MainKeeps
  <2> QED
    BY <2>3, <2>4, <2>5
<1> QED
  BY <1>3, <1>4, <1>5 DEF FailDocument

LEMMA FailMoves ==
    ASSUME Typed, Peaceful, UNCHANGED scenario, NEW from \in FailSteps, NEW to \in FailSteps,
           Goes("main", from, to), UNCHANGED <<graph, light, outcome, flag>>, Locks',
           meta'.stored, meta'.status = meta.status, doc'.stored,
           \A e \in Engines : MaySet(e), MainFails'
    PROVE  Peaceful'
<1>1. pc'["main"] = to
  BY MainGoes
<1>2. MainTrue'
  BY <1>1, OneStage
<1>3. ~flag' /\ meta'.status \notin {"none", "cancelled"} /\ UNCHANGED <<graph, light, outcome>>
  BY DEF Peaceful, Undisturbed
<1> QED
  BY <1>2, <1>3, MainKeeps

LEMMA CalmFail ==
    ASSUME Typed, Peaceful, UNCHANGED scenario, NEW e \in Targets, FailEngine(e)
    PROVE  Peaceful'
<1>0. /\ "main" \in Actors \ {"api"} /\ "main" \notin Engines /\ Targets' = Targets
      /\ Targets \subseteq Engines /\ e \in Engines /\ Peace /\ TypeOK /\ Undisturbed
      /\ "failed" \in EngineStatuses
  BY TargetsExist, PeaceHolds DEF Actors, Engines, Targets, Typed, Peaceful, EngineStatuses
<1>1. /\ "failEngines" \in FailSteps /\ Fail[e] \in FailSteps /\ FailDoc[e] \in FailSteps
      /\ Fail[e] # FailDoc[e] /\ "failStatus" \notin {"failEngines", Fail[e], FailDoc[e]}
      /\ \A x \in Targets \ {e} : {Fail[e], FailDoc[e]} \cap {Fail[x], FailDoc[x]} = {}
      /\ \A x \in Targets : "failEngines" \notin {Fail[x], FailDoc[x]}
      /\ "idle" \notin {Fail[e], FailDoc[e], "failEngines"}
  BY <1>0 DEF FailSteps, Fail, FailDoc, Engines
<1>2. MainFails
  BY DEF Peaceful, Truth, MainTrue
<1>3. CASE /\ pc["main"] = "failEngines"
           /\ Visit("main", e, IF meta.stored /\ meta[e] = "done" THEN "failEngines" ELSE Fail[e])
  <2>1. e \in todo["main"] /\ meta[e] = "pending"
    BY <1>1, <1>2, <1>3 DEF MainFails, Visit
  <2>2. /\ Goes("main", "failEngines", Fail[e]) /\ UNCHANGED <<rows, copies, meta, doc>>
        /\ UNCHANGED <<graph, light, outcome, flag>>
        /\ todo' = [todo EXCEPT !["main"] = @ \ {e}]
    BY <1>3, <2>1 DEF Visit, Goes, Goto, rows, stores
  <2>3. Locks'
    BY <1>0, <1>1, <2>2, CalmRead
  <2>4. pc["main"] = "failEngines" /\ pc'["main"] = Fail[e] /\ \A x \in Engines : pc'[x] = pc[x]
    BY <2>2, MainGoes
  <2>5. \A x \in Targets : x \in todo'["main"] <=> x \in todo["main"] /\ x # e
    BY <1>0, <2>2 DEF TypeOK
  <2>6. MainFails'
    BY <1>0, <1>1, <1>2, <2>2, <2>4, <2>5 DEF MainFails, Both, Idle
  <2>7. /\ meta'.stored /\ meta'.status = meta.status /\ doc'.stored
        /\ \A x \in Engines : MaySet(x)
    BY <1>0, <2>2 DEF Undisturbed, MaySet
  <2> QED
    BY <1>1, <2>2, <2>3, <2>6, <2>7, FailMoves
<1>4. CASE SetEngine("main", e, "failed", Fail[e], FailDoc[e], "failEngines")
  <2>1. pc[e] = "idle"
    <3>1. pc["main"] \in {Fail[e], FailDoc[e]}
      BY <1>4 DEF SetEngine, UpdateDoc
    <3> QED
      BY <1>0, <1>1, <1>2, <3>1 DEF MainFails, Idle
  <2>2. /\ Rest /\ Locks'
        /\ \/ Waits
           \/ Goes("main", Fail[e], FailDoc[e]) /\ SetsMeta(e, "failed")
           \/ Goes("main", FailDoc[e], "failEngines") /\ SetsDoc(e, "failed")
    BY <1>0, <1>1, <1>4, CalmSetEngine
  <2>3. UNCHANGED <<graph, light, outcome, flag>> /\ todo' = todo
    BY <2>2 DEF Rest
  <2>4. CASE Goes("main", Fail[e], FailDoc[e]) /\ SetsMeta(e, "failed")
    <3>1. pc["main"] = Fail[e] /\ pc'["main"] = FailDoc[e] /\ \A x \in Engines : pc'[x] = pc[x]
      BY <2>4, MainGoes
    <3>2. /\ meta'.stored /\ meta'.status = meta.status /\ doc'.stored
          /\ \A x \in Engines : MaySet(x)
      <4>1. doc.legacy # "done" \/ e # "legacy"
        BY <2>1 DEF Peaceful, Truth, LegacyTrue
      <4>2. doc.lightrag # "done" \/ e # "lightrag"
        BY <2>1 DEF Peaceful, Truth, LightTrue
      <4> QED
        BY <1>0, <2>1, <2>4, <4>1, <4>2 DEF Undisturbed, MaySet, SetsMeta, Engines
    <3>3. MainFails'
      <4>1. /\ Idle /\ meta.status = "failed" /\ e \notin todo["main"]
            /\ \A x \in Targets \ {e} :
                  \/ x \in todo["main"] /\ meta[x] = "pending"
                  \/ x \notin todo["main"] /\ meta[x] = "failed" /\ doc[x] = "failed"
        BY <1>1, <1>2, <3>1 DEF MainFails, Both
      <4>2. /\ Idle' /\ meta'.status = "failed"
            /\ \A x \in Targets \ {e} : meta'[x] = meta[x] /\ doc'[x] = doc[x]
            /\ meta'[e] = "failed"
        BY <1>0, <2>4, <3>1, <4>1 DEF Idle, SetsMeta
      <4>3. /\ pc'["main"] # "failStatus"
            /\ \A x \in Targets \ {e} : pc'["main"] \notin {Fail[x], FailDoc[x]}
        BY <1>1, <3>1
      <4> QED
        BY <1>0, <2>3, <3>1, <4>1, <4>2, <4>3 DEF MainFails, Both
    <3> QED
      BY <1>1, <2>2, <2>3, <2>4, <3>2, <3>3, FailMoves
  <2>5. CASE Goes("main", FailDoc[e], "failEngines") /\ SetsDoc(e, "failed")
    <3>1. pc["main"] = FailDoc[e] /\ pc'["main"] = "failEngines" /\ \A x \in Engines : pc'[x] = pc[x]
      BY <2>5, MainGoes
    <3>2. /\ meta'.stored /\ meta'.status = meta.status /\ doc'.stored
          /\ \A x \in Engines : MaySet(x)
      BY <1>0, <2>1, <2>5 DEF Undisturbed, MaySet, SetsDoc
    <3>3. MainFails'
      <4>1. /\ Idle /\ meta.status = "failed" /\ e \notin todo["main"] /\ meta[e] = "failed"
            /\ \A x \in Targets \ {e} :
                  \/ x \in todo["main"] /\ meta[x] = "pending"
                  \/ x \notin todo["main"] /\ meta[x] = "failed" /\ doc[x] = "failed"
        BY <1>1, <1>2, <3>1 DEF MainFails, Both
      <4>2. /\ Idle' /\ meta'.status = "failed"
            /\ \A x \in Targets \ {e} : meta'[x] = meta[x] /\ doc'[x] = doc[x]
            /\ meta'[e] = "failed" /\ doc'[e] = "failed"
        BY <1>0, <2>5, <3>1, <4>1 DEF Idle, SetsDoc
      <4>3. /\ pc'["main"] # "failStatus"
            /\ \A x \in Targets \ {e} : pc'["main"] \notin {Fail[x], FailDoc[x]}
        BY <1>1, <3>1
      <4> QED
        BY <1>0, <2>3, <3>1, <4>1, <4>2, <4>3 DEF MainFails, Both
    <3> QED
      BY <1>1, <2>2, <2>3, <2>5, <3>2, <3>3, FailMoves
  <2> QED
    BY <2>2, <2>4, <2>5, WaitKeeps
<1> QED
  BY <1>3, <1>4 DEF FailEngine

(* A job for LightRAG alone. *)
LEMMA CalmRetryStarts == ASSUME Typed, Peaceful, UNCHANGED scenario, RetryStarts PROVE Peaceful'
<1>0. /\ "main" \in Actors /\ "lightrag" \in Actors /\ "main" # "lightrag" /\ Targets' = Targets
  BY DEF Actors, Engines, Targets
<1>1. /\ Idle /\ pc["main"] = "retry" /\ Targets = {"lightrag"}
      /\ UNCHANGED <<meta, doc, copy, dcopy>> /\ UNCHANGED <<graph, light, flag, outcome>>
  BY DEF RetryStarts, Peaceful, Truth, MainTrue, MainEarly, Early, rows, copies, stores, worker
<1>2. /\ pc'["main"] = "retrying" /\ pc'["lightrag"] = "begin"
      /\ \A a \in Actors \ {"main", "lightrag"} : pc'[a] = pc[a]
  BY <1>0 DEF RetryStarts, Typed, Placed
<1>3. pc'["api"] = pc["api"] /\ pc'["legacy"] = pc["legacy"] /\ pc["lightrag"] = "idle"
  BY <1>1, <1>2 DEF Actors, Engines, Idle
<1>4. Undisturbed'
  BY <1>1, <1>3 DEF Peaceful, Undisturbed
<1>5. Locks'
  BY <1>1 DEF Peaceful, Locks, OneHolds, Idle
<1>6. LegacyTrue' /\ LightTrue'
  <2>1. LegacyTrue'
    BY <1>0, <1>1, <1>3 DEF Peaceful, Truth, LegacyTrue
  <2>2. LightTrue'
    BY <1>0, <1>1, <1>2, <1>3 DEF Peaceful, Truth, LightTrue, LightBefore, LightAfter
  <2> QED
    BY <2>1, <2>2
<1>7. MainTrue'
  <2>1. MainRetries'
    BY <1>0, <1>1, <1>2 DEF MainRetries
  <2> QED
    BY <1>2, <2>1, OneStage DEF RetrySteps
<1> QED
  BY <1>4, <1>5, <1>6, <1>7 DEF Peaceful, Truth

LEMMA CalmRetry == ASSUME Typed, Peaceful, UNCHANGED scenario, Retry PROVE Peaceful'
<1>0. /\ "main" \in Actors \ {"api"} /\ "main" \notin Engines /\ "lightrag" \in Engines
      /\ Targets' = Targets /\ Peace /\ TypeOK /\ Undisturbed
      /\ {"failed", "done"} \subseteq Statuses \ {"none", "cancelled"} /\ "failed" \in EngineStatuses
  BY PeaceHolds DEF Actors, Engines, Targets, Typed, Peaceful, Statuses, Terminal, EngineStatuses
<1>1. /\ {"reuse", "reusing", "retry"} \subseteq Early /\ "over" \in LastSteps
      /\ {"retrying", "retryingDoc", "retryEnds", "retried", "retryDone", "retryFailed"}
            \subseteq RetrySteps
  BY DEF Early, LastSteps, RetrySteps
<1>2. /\ MainRetries /\ LightTrue
      /\ pc["main"] \in {"reuse", "reusing", "retry"} => Targets = {"lightrag"}
  BY <1>1 DEF Peaceful, Truth, MainTrue, MainEarly
<1>3. CASE SaveArtifact("main", "pages", "reuse", "reusing", "over")
  <2>1. Targets = {"lightrag"}
    BY <1>2, <1>3 DEF SaveArtifact
  <2> QED
    BY <1>1, <1>3, <2>1, EarlyPages
<1>4. CASE UpdateMeta("main", "reusing", LAMBDA row : SetStatus(row, "indexing"), "retry")
  <2>1. Updates("main", "reusing", SetStatus(copy["main"], "indexing"), "retry")
    BY <1>4 DEF UpdateMeta, Updates
  <2>2. Targets = {"lightrag"}
    BY <1>2, <2>1 DEF Updates
  <2> QED
    BY <1>1, <2>1, <2>2, EarlyStatus
<1>5. ASSUME NEW from, NEW to \in RetrySteps, Goes("main", from, to), UNCHANGED <<rows, copies>>,
             UNCHANGED <<graph, light, outcome, flag>>, MainRetries'
      PROVE  Peaceful'
  <2>1. MainTrue' /\ ~flag'
    BY <1>0, <1>5, OneStage, MainGoes DEF Undisturbed
  <2> QED
    BY <1>5, <2>1, MainReads
<1>6. outcome["lightrag"] # "running" /\ pc["main"] = "retrying" =>
         /\ Targets = {"lightrag"} /\ pc["lightrag"] = "over"
         /\ \/ outcome["lightrag"] = "done" /\ Both("lightrag", "done")
            \/ outcome["lightrag"] = "failed"
  BY <1>0, <1>1, <1>2 DEF MainRetries, LightTrue, Typed, Collected
<1>7. CASE outcome["lightrag"] = "done" /\ Branch("main", "retrying", TRUE, "retried", "retried")
  <2>1. /\ Goes("main", "retrying", "retried") /\ UNCHANGED <<rows, copies, meta, doc>>
        /\ UNCHANGED <<graph, light, outcome, flag>>
    BY <1>7 DEF Branch, Goto, Goes, rows, stores, worker
  <2>2. pc["main"] = "retrying" /\ pc'["main"] = "retried"
    BY <2>1, MainGoes
  <2>3. MainRetries'
    BY <1>0, <1>6, <1>7, <2>1, <2>2 DEF MainRetries, Both
  <2> QED
    BY <1>1, <1>5, <2>1, <2>3
<1>8. CASE \/ Branch("main", "retryEnds", outcome["lightrag"] = "failed", "retryFailed", "stopped")
           \/ Branch("main", "retried", IsCancelled("main"), "stopped", "retryDone")
  <2>0. ~IsCancelled("main") /\ (pc["main"] = "retryEnds" => outcome["lightrag"] = "failed")
    BY <1>0, <1>1, <1>2, NothingIsCancelled DEF MainRetries
  <2>1. /\ Goes("main", "retryEnds", "retryFailed") \/ Goes("main", "retried", "retryDone")
        /\ UNCHANGED <<rows, copies, meta, doc>> /\ UNCHANGED <<graph, light, outcome, flag>>
    BY <1>8, <2>0 DEF Branch, Goto, Goes, rows, stores, worker
  <2>2. \/ pc["main"] = "retryEnds" /\ pc'["main"] = "retryFailed"
        \/ pc["main"] = "retried" /\ pc'["main"] = "retryDone"
    BY <2>1, MainGoes
  <2>3. MainRetries'
    BY <1>0, <1>1, <1>2, <2>1, <2>2 DEF MainRetries, Both
  <2> QED
    BY <1>1, <1>5, <2>1, <2>3
<1>9. ASSUME NEW s \in {"failed", "done"}, NEW from,
             Updates("main", from, SetStatus(copy["main"], s), "over"),
             <<s, from>> \in {<<"failed", "retryFailed">>, <<"done", "retryDone">>}
      PROVE  Peaceful'
  <2>1. /\ Targets = {"lightrag"} /\ outcome["lightrag"] = s /\ Both("lightrag", s)
    BY <1>1, <1>2, <1>9 DEF MainRetries, Updates
  <2>2. ASSUME Goes("main", from, "over"), SetsStatus(s), Rest PROVE MainTrue'
    <3>1. pc'["main"] = "over"
      BY <2>2, MainGoes
    <3>2. /\ meta'.status = s /\ doc' = doc /\ outcome' = outcome /\ meta'.lightrag = meta.lightrag
      BY <1>0, <2>2 DEF SetsStatus, Rest
    <3>3. Verdict' = s
      BY <1>0, <1>9, <2>1, <3>2 DEF Verdict, Both
    <3>4. MainTells'
      BY <1>0, <1>9, <2>1, <3>1, <3>2, <3>3 DEF MainTells, Reported, Both
    <3> QED
      BY <1>1, <3>1, <3>4, OneStage
  <2> QED
    BY <1>0, <1>9, <2>2, MainSetsStatus
<1>10. CASE UpdateMeta("main", "retryFailed", LAMBDA row : SetStatus(row, "failed"), "over")
  <2>1. Updates("main", "retryFailed", SetStatus(copy["main"], "failed"), "over")
    BY <1>10 DEF UpdateMeta, Updates
  <2> QED
    BY <1>9, <2>1
<1>11. CASE UpdateMeta("main", "retryDone", LAMBDA row : SetStatus(row, "done"), "over")
  <2>1. Updates("main", "retryDone", SetStatus(copy["main"], "done"), "over")
    BY <1>11 DEF UpdateMeta, Updates
  <2> QED
    BY <1>9, <2>1
<1>12. CASE /\ outcome["lightrag"] \in {"cancelled", "failed"}
            /\ SetEngine("main", "lightrag", outcome["lightrag"], "retrying", "retryingDoc", "retryEnds")
  <2>1. /\ pc["main"] \in {"retrying", "retryingDoc"} /\ Targets = {"lightrag"}
        /\ outcome["lightrag"] = "failed"
    <3>1. pc["main"] \in {"retrying", "retryingDoc"}
      BY <1>12 DEF SetEngine, UpdateDoc
    <3> QED
      BY <1>1, <1>2, <1>6, <1>12, <3>1 DEF MainRetries
  <2>2. pc["lightrag"] = "over"
    BY <1>0, <2>1 DEF Typed, Collected
  <2>3. /\ Rest /\ Locks'
        /\ \/ Waits
           \/ Goes("main", "retrying", "retryingDoc") /\ SetsMeta("lightrag", "failed")
           \/ Goes("main", "retryingDoc", "retryEnds") /\ SetsDoc("lightrag", "failed")
    <3>1. SetEngine("main", "lightrag", "failed", "retrying", "retryingDoc", "retryEnds")
      BY <1>12, <2>1
    <3> QED
      BY <1>0, <3>1, CalmSetEngine
  <2>4. /\ UNCHANGED <<graph, light, outcome>> /\ ~flag'
    BY <1>0, <2>3 DEF Rest, Undisturbed
  <2>5. CASE Goes("main", "retrying", "retryingDoc") /\ SetsMeta("lightrag", "failed")
    <3>1. pc["main"] = "retrying" /\ pc'["main"] = "retryingDoc"
      BY <2>5, MainGoes
    <3>2. MainRetries'
      BY <1>0, <2>1, <2>4, <2>5, <3>1 DEF MainRetries, SetsMeta
    <3>3. /\ meta'.stored /\ meta'.status \notin {"none", "cancelled"} /\ doc'.stored
          /\ \A e \in Engines : MaySet(e)
      BY <1>0, <2>1, <2>2, <2>5 DEF Undisturbed, MaySet, SetsMeta
    <3>4. MainTrue'
      BY <1>1, <3>1, <3>2, OneStage
    <3> QED
      BY <2>3, <2>4, <2>5, <3>3, <3>4, MainKeeps
  <2>6. CASE Goes("main", "retryingDoc", "retryEnds") /\ SetsDoc("lightrag", "failed")
    <3>1. pc["main"] = "retryingDoc" /\ pc'["main"] = "retryEnds"
      BY <2>6, MainGoes
    <3>2. MainRetries'
      BY <1>0, <1>1, <1>2, <2>1, <2>4, <2>6, <3>1 DEF MainRetries, Both, SetsDoc
    <3>3. /\ meta'.stored /\ meta'.status \notin {"none", "cancelled"} /\ doc'.stored
          /\ \A e \in Engines : MaySet(e)
      BY <1>0, <2>1, <2>2, <2>6 DEF Undisturbed, MaySet, SetsDoc
    <3>4. MainTrue'
      BY <1>1, <3>1, <3>2, OneStage
    <3> QED
      BY <2>3, <2>4, <2>6, <3>3, <3>4, MainKeeps
  <2> QED
    BY <2>3, <2>5, <2>6, WaitKeeps
<1> QED
  BY <1>3, <1>4, <1>7, <1>8, <1>10, <1>11, <1>12, CalmRetryStarts DEF Retry

LEMMA CalmPipeline ==
    ASSUME Typed, Peaceful, UNCHANGED scenario, Pipeline \/ ParserFails
    PROVE  Peaceful'
<1>1. ~RowIsMissing
  BY NothingIsCancelled DEF RowIsMissing, Peaceful
<1> QED
  BY <1>1, CalmStart, CalmFork, CalmJoin, CalmTells, CalmFailing, CalmFail, CalmRetry DEF Pipeline

LEMMA CalmStays ==
    ASSUME FenceInv, Typed, CalmInv, Next, UNCHANGED scenario
    PROVE  CalmInv'
<1> SUFFICES ASSUME Calm' PROVE Peaceful'
  BY DEF CalmInv
<1>1. UNCHANGED requests /\ Peaceful
  <2>1. requests.cancel \in Nat /\ requests.delete \in Nat
    BY DEF FenceInv, Types
  <2>2. UNCHANGED requests
    BY <2>1, RequestsGrow DEF Calm, Asked, FenceInv, Types
  <2> QED
    BY <2>2 DEF Calm, Asked, CalmInv
<1>2. ~Api
  <2>1. pc["api"] = "idle"
    BY <1>1 DEF Peaceful, Undisturbed
  <2>2. ~Request("cancel") /\ ~Request("delete")
    BY <1>1 DEF Request, FenceInv, Types
  <2>3. \A e \in Engines : ~CancelEngine(e)
    BY <2>1 DEF CancelEngine, ApiStep, SetEngine, UpdateDoc, Void, VoidDoc, Engines
  <2>4. ~(List \/ ReadJob \/ Flag \/ CancelRow \/ Visited \/ Detach \/ Purge \/ ScheduleDelete)
    BY <2>1
       DEF List, ReadJob, Flag, CancelRow, Visited, Detach, Purge, ScheduleDelete, ApiStep,
           UpdateMeta
  <2>5. ~(Unpublish \/ DropJob \/ DeleteRow)
    BY <2>1 DEF Unpublish, SetGraph, DropJob, DeleteRow, ApiStep
  <2> QED
    BY <2>2, <2>3, <2>4, <2>5 DEF Api
<1>3. ~DeleteLight
  <2>1. Asked = 0
    BY <1>1 DEF Calm, Asked
  <2> QED
    BY <2>1 DEF DeleteLight, Typed, Booked, TypeOK
<1> QED
  BY <1>1, <1>2, <1>3, CalmPipeline, CalmLegacy, CalmLight, CalmEnd DEF Next

LEMMA StillClassic == ASSUME Classic, Still PROVE Classic'
BY DEF Still, Classic, BeforeDelete, Healthy, Targets

LEMMA StillCalm == ASSUME Typed, CalmInv, Still PROVE CalmInv'
<1> SUFFICES ASSUME Calm' PROVE Peaceful'
  BY DEF CalmInv
<1>1. Peaceful
  BY DEF Still, Calm, Asked, CalmInv
<1>2. Waits /\ Rest /\ UNCHANGED scenario
  BY DEF Still, Waits, Plain, Alike, Rest
<1>3. Locks'
  BY <1>1 DEF Peaceful, Locks, OneHolds, Still
<1> QED
  BY <1>1, <1>2, <1>3, WaitKeeps

LEMMA InitCalm == ASSUME Init PROVE Classic /\ Peaceful
<1>1. /\ Typed /\ Targets \subseteq Engines
      /\ pc["main"] = "start" /\ pc["api"] = "idle" /\ \A e \in Engines : pc[e] = "idle"
  BY InitTypes, TargetsExist DEF Typed, Init, Actors, Engines
<1>2. /\ graph = ("legacy" \notin Targets) /\ light = ("lightrag" \notin Targets)
      /\ flag = FALSE /\ todo["main"] = Targets
      /\ \A a \in Actors : copy[a] = NoCopy /\ dcopy[a] = NoCopy
  BY DEF Init
<1>3. /\ meta.stored /\ meta.status = "queued" /\ doc.stored
      /\ \A e \in Targets : meta[e] = "pending" /\ doc[e] # "done"
      /\ \A e \in Engines \ Targets : doc[e] = "done"
  <2> DEFINE Was(e, new) == IF e \in Targets THEN new ELSE "done"
             marked == IF Distributed THEN "indexing" ELSE "pending"
  <2>1. /\ meta = [Blank EXCEPT !.status = "queued", !.legacy = Was("legacy", "pending"),
                               !.lightrag = Was("lightrag", "pending")]
        /\ doc = [stored |-> TRUE, status |-> DocStatus(Was("legacy", marked)),
                  legacy |-> Was("legacy", marked), lightrag |-> Was("lightrag", marked)]
    BY DEF Init
  <2>2. /\ meta.stored /\ meta.status = "queued" /\ doc.stored
        /\ \A e \in Engines : meta[e] = Was(e, "pending") /\ doc[e] = Was(e, marked)
    BY <2>1 DEF Blank, Engines
  <2>3. marked # "done"
    OBVIOUS
  <2> QED
    BY <1>1, <2>2, <2>3
<1>4. Classic
  BY <1>1, <1>2, <1>3 DEF Classic, Healthy, Engines, BeforeDelete
<1>5. Undisturbed
  BY <1>1, <1>2, <1>3 DEF Undisturbed
<1>6. Locks
  BY <1>2 DEF Locks, OneHolds, Actors
<1>7. LegacyTrue /\ LightTrue
  BY <1>1, <1>2, <1>3
     DEF LegacyTrue, LightTrue, LegacyBefore, LegacyAfter, LightBefore, LightAfter, Engines
<1>8. MainTrue
  BY <1>1, <1>2, <1>3
     DEF MainTrue, MainPlaces, MainEarly, MainFails, MainJoins, MainRetries, MainTells,
     Early, BeforeFork, FailSteps, JoinSteps, ReportSteps, RetrySteps, LastSteps, Idle
<1> QED
  BY <1>4, <1>5, <1>6, <1>7, <1>8 DEF Peaceful, Truth

(* While nobody interferes an engine fails by a fault only. *)
Caused == Calm /\ faults = 0 => \A e \in Engines : outcome[e] # "failed"

LEMMA Causes ==
    ASSUME Next
    PROVE  /\ faults' = faults \/ faults' = faults + 1
           /\ outcome' = outcome \/ RowIsMissing \/ \E e \in Engines : Child(e)
<1> DEFINE Grows == faults' = faults \/ faults' = faults + 1
           Keeps == outcome' = outcome \/ RowIsMissing
<1>1. CASE Start \/ Open \/ Parse \/ ParserFails
  BY <1>1 DEF Start, Open, Parse, ParserFails, Branch, UpdateMeta, UpdateDoc, SaveArtifact, worker
<1>2. CASE Fork \/ Joined \/ Tally \/ Settle \/ Failing \/ FailDocument \/ Finally
  BY <1>2
     DEF Fork, Joined, Tally, Settle, Failing, FailDocument, Finally, Branch, UpdateMeta,
         UpdateDoc, worker
<1>3. CASE Retry
  BY <1>3 DEF Retry, RetryStarts, Branch, UpdateMeta, UpdateDoc, SetEngine, SaveArtifact, worker
<1>4. CASE \E e \in Targets : Join(e) \/ FailEngine(e)
  BY <1>4 DEF Join, FailEngine, Visit, UpdateDoc, SetEngine, worker
<1>5. CASE RowIsMissing
  BY <1>5 DEF RowIsMissing
<1>6. CASE RunLegacy
  <2>1. CASE Publish
    BY <2>1 DEF Publish, Check, Branch, SetGraph, worker
  <2>2. CASE ~Publish
    BY <1>6, <2>2 DEF RunLegacy, Check, Branch, SetGraph, UpdateMeta, UpdateDoc, SetEngine,
                      SaveArtifact, worker
  <2> QED
    BY <2>1, <2>2
<1>7. CASE RunLightrag
  BY <1>7 DEF RunLightrag, InsertPages, RemovePages, Branch, UpdateDoc, SetEngine, worker
<1>8. CASE \E e \in Engines : Child(e)
  BY <1>8 DEF Child, Return, Raise, ChildFails
<1>9. CASE Request("cancel") \/ Request("delete") \/ List \/ ReadJob \/ Flag \/ Visited
  BY <1>9 DEF Request, List, ReadJob, Flag, Visited, ApiStep
<1>10. CASE CancelRow \/ Detach \/ \E e \in Engines : CancelEngine(e)
  BY <1>10 DEF CancelRow, Detach, CancelEngine, ApiStep, UpdateMeta, UpdateDoc, SetEngine, worker
<1>11. CASE Purge \/ ScheduleDelete \/ Unpublish \/ DropJob \/ DeleteRow \/ DeleteLight
  BY <1>11
     DEF Purge, ScheduleDelete, Unpublish, DropJob, DeleteRow, DeleteLight, ApiStep, SetGraph,
         worker
<1> QED
  BY <1>1, <1>2, <1>3, <1>4, <1>5, <1>6, <1>7, <1>8, <1>9, <1>10, <1>11 DEF Next, Pipeline, Api

LEMMA CausedStays ==
    ASSUME FenceInv, Typed, CalmInv, Caused, Next, UNCHANGED scenario
    PROVE  Caused'
<1> SUFFICES ASSUME Calm', faults' = 0, NEW e \in Engines PROVE outcome'[e] # "failed"
  BY DEF Caused
<1>1. Calm /\ Peaceful
  <2>1. requests.cancel \in Nat /\ requests.delete \in Nat
    BY DEF FenceInv, Types
  <2>2. UNCHANGED requests
    BY <2>1, RequestsGrow DEF Calm, Asked, FenceInv, Types
  <2> QED
    BY <2>2 DEF Calm, Asked, CalmInv
<1>2. faults = 0 /\ outcome[e] # "failed"
  <2>1. faults \in Nat
    BY ScenarioFacts DEF Typed, TypeOK
  <2> QED
    BY <1>1, <2>1, Causes DEF Caused
<1>3. ~RowIsMissing /\ \A x \in Engines : ~ChildFails(x)
  BY <1>1, <1>2, NothingIsCancelled DEF RowIsMissing, Peaceful, ChildFails
<1>4. CASE \E x \in Engines : Return(x) \/ Raise(x)
  BY <1>2, <1>4 DEF Return, Raise, End, Typed, TypeOK
<1> QED
  BY <1>2, <1>3, <1>4, Causes DEF Child

ApartInv == FenceInv /\ Typed /\ Classic /\ CalmInv /\ Caused

LEMMA ApartNext == ApartInv /\ [HistoryNext]_<<vars, scenario, overwritten, abandoned>> => ApartInv'
<1> SUFFICES ASSUME ApartInv, [HistoryNext]_<<vars, scenario, overwritten, abandoned>> PROVE ApartInv'
  OBVIOUS
<1> FenceInv /\ Typed /\ Classic /\ CalmInv /\ Caused
  BY DEF ApartInv
<1>1. FenceInv'
  BY FenceNext
<1>2. CASE HistoryNext
  <2>1. Next /\ UNCHANGED scenario
    BY <1>2 DEF HistoryNext
  <2>2. Typed'
    BY <2>1, EveryStepKeepsTypes
  <2> QED
    BY <1>1, <2>1, <2>2, ClassicStays, CalmStays, CausedStays DEF ApartInv
<1>3. CASE UNCHANGED <<vars, scenario, overwritten, abandoned>>
  <2>1. Still
    BY <1>3 DEF Still, vars, rows, stores, copies, worker, api
  <2>2. Caused'
    BY <2>1 DEF Caused, Calm, Asked, Still
  <2> QED
    BY <1>1, <2>1, <2>2, StillTypes, StillClassic, StillCalm DEF ApartInv
<1> QED
  BY <1>2, <1>3

LEMMA VerdictFollows == ASSUME Typed, CalmInv, Caused PROVE VerdictIsTrue
<1> SUFFICES ASSUME pc["main"] = "over", Calm
             PROVE /\ meta.status = "done" <=> \A e \in Targets : doc[e] = "done"
                   /\ meta.status = "partial" <=> {doc[e] : e \in Targets} = {"done", "failed"}
                   /\ \A e \in Targets : meta[e] = doc[e]
                   /\ doc.legacy = "done" => graph
                   /\ faults = 0 /\ graph => doc.legacy = "done"
                   /\ doc.lightrag = "done" => light
  BY DEF VerdictIsTrue, Calm, Asked
<1>1. Targets # {} /\ Targets \subseteq Engines /\ Peaceful
  BY TargetsExist DEF CalmInv, Typed
<1>2. /\ meta.status = Verdict
      /\ \A e \in Targets : Reported(e) \/ (pc[e] = "idle" /\ Both(e, "failed"))
  BY <1>1 DEF Peaceful, Truth, MainTrue, MainTells
<1>3. \A e \in Targets : outcome[e] # "running" => pc[e] = "over"
  BY <1>1 DEF Typed, Collected
<1>4. doc.legacy = "done" => graph
  BY <1>1, <1>2, <1>3 DEF Peaceful, Truth, LegacyTrue, LegacyBefore, Reported, Both
<1>9. faults = 0 /\ graph => doc.legacy = "done"
  <2>1. faults = 0 => outcome["legacy"] # "failed"
    BY DEF Caused, Engines
  <2> QED
    BY <1>1, <1>2, <1>3, <2>1 DEF Peaceful, Truth, LegacyTrue, LegacyBefore, Reported, Both
<1>5. doc.lightrag = "done" => light
  BY <1>1, <1>2, <1>3 DEF Peaceful, Truth, LightTrue, Reported, Both
<1>6. \A e \in Targets : meta[e] = doc[e] /\ doc[e] \in {"done", "failed"}
  BY <1>1, <1>2, <1>3 DEF Peaceful, Truth, LegacyTrue, LightTrue, Reported, Both, Engines
<1>7. meta.status = "done" <=> \A e \in Targets : doc[e] = "done"
  BY <1>1, <1>2, <1>6 DEF Verdict
<1>8. meta.status = "partial" <=> {doc[e] : e \in Targets} = {"done", "failed"}
  BY <1>2, <1>6 DEF Verdict
<1> QED
  BY <1>4, <1>5, <1>6, <1>7, <1>8, <1>9

(* Neither engine answers for the other, in every deployment and for every
   choice of engines, requests and faults: a job for LightRAG alone leaves the
   healthy classic index in place until somebody deletes the document, and the
   verdict of a job that nobody cancels or deletes is what its engines did. *)
THEOREM NeitherEngineAnswersForTheOther == HistorySpec => []EnginesApart
<1>1. HistoryInit => ApartInv
  <2>1. Init => Caused
    BY DEF Init, Caused
  <2> QED
    BY <2>1, FenceInit, InitTypes, InitCalm DEF HistoryInit, ApartInv, CalmInv
<1>2. ApartInv => EnginesApart
  BY VerdictFollows DEF ApartInv, EnginesApart, Typed, ClassicKept, Classic, BeforeDelete, Healthy
<1> QED
  BY <1>1, <1>2, ApartNext, PTL DEF HistorySpec

=============================================================================
