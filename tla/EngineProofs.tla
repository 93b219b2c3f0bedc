------------------------------ MODULE EngineProofs ------------------------------
(***************************************************************************)
(* Proofs about the two engines: the classic graph of all documents        *)
(* (GraphStore), for any documents, any parses and any number of           *)
(* operations, whichever the backend; and a request to LightRAG            *)
(* (EngineRequest), for any spaces, any limits and any number of faults.   *)
(***************************************************************************)
EXTENDS GraphStore, EngineRequest, NaturalsInduction, WellFoundedInduction, TLAPS

AllNodes == UNION {NodesOf(parse, d) : parse \in Parses \cup {NoParse}, d \in Docs}
AllEdges == UNION {EdgesOf(parse, d) : parse \in Parses \cup {NoParse}, d \in Docs}

Pcs == {"idle", "begin", "edges", "save", "save edges", "reset", "merge", "drop", "done"}
Operations == [pc : Pcs, doc : Docs \cup {""}, new : Parses \cup {NoParse},
               nodes : SUBSET AllNodes, edges : SUBSET AllEdges, stale : BOOLEAN]

RowsTyped ==
    /\ nodes \in SUBSET AllNodes /\ edges \in SUBSET AllEdges
    /\ cache \in [valid : BOOLEAN, nodes : SUBSET AllNodes, edges : SUBSET AllEdges]
    /\ published \in [Docs -> Parses \cup {NoParse}]

(* Every step of an operation belongs to one backend, and an operation that is
   under way has a document that no other operation has. *)
Placed(a) ==
    /\ op[a].pc \in {"edges", "save", "save edges"} => backend = "filesystem"
    /\ op[a].pc = "reset" => backend = "postgres"
    /\ op[a].pc \in {"merge", "drop"} => backend = "neo4j"
    /\ op[a].pc # "idle" => op[a].doc \in Docs
Apart ==
    \A a, b \in Actors :
        a # b /\ op[a].pc # "idle" /\ op[b].pc # "idle" => op[a].doc # op[b].doc
Typed == RowsTyped /\ op \in [Actors -> Operations] /\ (\A a \in Actors : Placed(a)) /\ Apart

-----------------------------------------------------------------------------
(* The copy of the API's process.  It is only made and kept under postgres, and
   is not declared good while it is being made.  What has been read so far is
   what the tables hold, and so is a good copy, unless an operation that will
   discard it has just committed. *)
SparesTheCopy(a) == a = "worker" /\ ~oneProcess
Refreshed ==
    /\ backend # "postgres" => ~cache.valid /\ reader = "idle"
    /\ reader \in {"idle", "edges", "store"}
    /\ reader # "idle" => ~cache.valid
    /\ reader \in {"edges", "store"} /\ ~missed => cache.nodes = nodes
    /\ reader = "store" /\ ~missed => cache.edges = edges
    /\ cache.valid /\ ~missed /\ (\A a \in Actors : At(a, "reset") => SparesTheCopy(a)) =>
           cache.nodes = nodes /\ cache.edges = edges

-----------------------------------------------------------------------------
(* A removal.  In Neo4j an entity with more than one document has been shared:
   whoever mentions an entity wrote it last or shares it, and so does the
   document of an edge with its ends. *)
HasOwn(id, d) == id \in shared \/ \E n \in nodes : n.id = id /\ n.doc = d
Mentioned ==
    backend = "neo4j" =>
        /\ \A m \in mentions : m[1] \in Docs /\ m = <<m[1], m[2]>> /\ \E n \in nodes : n.id = m[2]
        /\ \A m \in mentions, n \in nodes : n.id = m[2] => n.doc = m[1] \/ n.id \in shared
        /\ \A e \in edges : \A id \in e.ends : HasOwn(id, e.doc)

(* An operation half way.  In Neo4j, the nodes it has merged are there as its
   own or shared, and a removal has left no mention of its document.  What it
   has loaded from the files is what they hold, unless another has saved since. *)
Halfway(a) ==
    /\ op[a].pc = "merge" =>
        /\ op[a].new # NoParse
        /\ op[a].nodes \subseteq NodesOf(op[a].new, op[a].doc)
        /\ op[a].edges \subseteq EdgesOf(op[a].new, op[a].doc)
        /\ \A n \in NodesOf(op[a].new, op[a].doc) \ op[a].nodes : HasOwn(n.id, op[a].doc)
    /\ op[a].pc = "drop" =>
        /\ op[a].new = NoParse
        /\ \A m \in mentions : m[1] # op[a].doc
    /\ ~op[a].stale =>
        /\ op[a].pc \in {"edges", "save"} => op[a].nodes = nodes
        /\ op[a].pc \in {"save", "save edges"} => op[a].edges = edges

(* Unless a save has overwritten another, nothing but what it shared is there of
   a removed document, nor of one whose removal has come that far. *)
NoNodeOf(d) == \A n \in nodes : n.doc = d => n.id \in shared
NoEdgeOf(d) == \A e \in edges : e.doc = d => e.ends \subseteq shared
Cleared ==
    ~lost =>
        /\ \A d \in Docs : Settled(d) /\ published[d] = NoParse => NoNodeOf(d) /\ NoEdgeOf(d)
        /\ \A a \in Actors : op[a].new = NoParse =>
            /\ op[a].pc \in {"save edges", "reset", "done"} => NoNodeOf(op[a].doc)
            /\ op[a].pc \in {"reset", "done"} => NoEdgeOf(op[a].doc)

Removal == Mentioned /\ (\A a \in Actors : Halfway(a)) /\ Cleared

-----------------------------------------------------------------------------
(* What a document has in the store: its rows, but in the files for the nodes a
   namesake stands for and for one edge of each pair; in Neo4j its mentions, and
   edges that are its own unless an end of them is shared. *)
RowsOf(table, d) == {r \in table : r.doc = d}
FirstOfPair(given) == {e \in given : \A f \in given : f.ends = e.ends => e.page <= f.page}
IsMentioned(d, given) == \A n \in given : <<d, n.id>> \in mentions
IsLinked(d, given) ==
    \A e \in given :
        /\ \A id \in e.ends : <<d, id>> \in mentions
        /\ \E f \in edges : f.ends = e.ends /\ (f.doc = d \/ \E id \in e.ends : id \in shared)
HasNodes(d, parse) ==
    /\ backend = "filesystem" => RowsOf(nodes, d) = NodesOf(parse, d) \ hidden
    /\ backend = "postgres" => RowsOf(nodes, d) = NodesOf(parse, d)
    /\ backend = "neo4j" => IsMentioned(d, NodesOf(parse, d))
HasEdges(d, parse) ==
    /\ backend = "filesystem" => RowsOf(edges, d) = FirstOfPair(EdgesOf(parse, d))
    /\ backend = "postgres" => RowsOf(edges, d) = EdgesOf(parse, d)
    /\ backend = "neo4j" => IsLinked(d, EdgesOf(parse, d))

(* A document has what is published of it, or what its operation has got to. *)
Merging(a) ==
    op[a].pc = "merge" =>
        /\ IsMentioned(op[a].doc, NodesOf(op[a].new, op[a].doc) \ op[a].nodes)
        /\ IsLinked(op[a].doc, EdgesOf(op[a].new, op[a].doc) \ op[a].edges)
Kept ==
    ~lost =>
        /\ \A d \in Docs : Settled(d) => HasNodes(d, published[d]) /\ HasEdges(d, published[d])
        /\ \A a \in Actors :
            /\ op[a].pc \in {"save edges", "reset", "done"} => HasNodes(op[a].doc, op[a].new)
            /\ op[a].pc \in {"reset", "done"} => HasEdges(op[a].doc, op[a].new)
Distinct ==
    /\ backend \in {"filesystem", "postgres", "neo4j"}
    /\ backend # "filesystem" => ~lost
    /\ backend = "neo4j" => \A n, m \in nodes : n.id = m.id => n = m

Shares == Distinct /\ (\A a \in Actors : Merging(a)) /\ Kept

LEMMA NodesAreOwn ==
    ASSUME NEW parse, NEW d, NEW n \in NodesOf(parse, d)
    PROVE  n.doc = d
  BY DEF NodesOf, BuildNodes

LEMMA EdgesAreOwn ==
    ASSUME NEW parse, NEW d, NEW e \in EdgesOf(parse, d)
    PROVE  e.doc = d
<1>1. e \in BuildEdges(parse, d)
  BY DEF EdgesOf
<1> DEFINE pages == SelectSeq(parse, LAMBDA page : page # <<>>)
           onPage(p) == {[ends |-> {NodeId(parse, name) : name \in pair}, doc |-> d, page |-> p] :
                             pair \in PairsOf(pages, FirstMentions(parse[p]))}
<1>2. BuildEdges(parse, d) = UNION {onPage(p) : p \in DOMAIN parse}
  BY DEF BuildEdges
<1>3. PICK p \in DOMAIN parse : e \in onPage(p)
  BY <1>1, <1>2
<1> DEFINE pairs == PairsOf(pages, FirstMentions(parse[p]))
           edge(pair) == [ends |-> {NodeId(parse, name) : name \in pair}, doc |-> d, page |-> p]
<1>4. e \in {edge(pair) : pair \in pairs}
  BY <1>3
<1>5. \A pair : edge(pair).doc = d
  OBVIOUS
<1> HIDE DEF pairs, edge
<1>6. QED
  BY <1>4, <1>5

-----------------------------------------------------------------------------
(* What a step does to the operations: it moves one on. *)

SameJob(b) == op'[b].doc = op[b].doc /\ op'[b].new = op[b].new
SameCopies(b) == op'[b].nodes = op[b].nodes /\ op'[b].edges = op[b].edges
Elsewhere(a) ==
    \A b \in Actors \ {a} : op'[b].pc = op[b].pc /\ SameJob(b) /\ SameCopies(b)
Moves(a, place) == op'[a].pc = place /\ Elsewhere(a) /\ op' \in [Actors -> Operations]
SameStale == \A b \in Actors : op'[b].stale = op[b].stale

LEMMA Gone ==
    ASSUME Typed, NEW a \in Actors, NEW place \in Pcs, Go(a, place)
    PROVE  Moves(a, place) /\ SameJob(a) /\ SameCopies(a) /\ SameStale
<1>1. op \in [Actors -> Operations]
  BY DEF Typed
<1>2. [op[a] EXCEPT !.pc = place] \in Operations
  BY <1>1 DEF Operations
<1>3. /\ op' = [op EXCEPT ![a] = [op[a] EXCEPT !.pc = place]]
      /\ op' \in [Actors -> Operations]
  BY <1>1, <1>2 DEF Go
<1>4. /\ op'[a] = [op[a] EXCEPT !.pc = place] /\ op[a] \in Operations
      /\ \A b \in Actors \ {a} : op'[b] = op[b]
  BY <1>1, <1>3
<1>5. QED
  BY <1>3, <1>4 DEF Moves, SameJob, SameCopies, SameStale, Elsewhere, Operations

LEMMA BeginMoves ==
    ASSUME Typed, NEW a \in Actors, NEW d \in Docs, NEW new \in Parses \cup {NoParse}, Begin(a, d, new)
    PROVE  /\ Moves(a, "begin") /\ op'[a].doc = d /\ op'[a].new = new /\ ~op'[a].stale
           /\ \A b \in Actors \ {a} : op'[b].stale = op[b].stale
<1>1. op \in [Actors -> Operations]
  BY DEF Typed
<1> DEFINE o == [NoOp EXCEPT !.pc = "begin", !.doc = d, !.new = new]
<1>2. o \in Operations /\ o.pc = "begin" /\ o.doc = d /\ o.new = new /\ o.stale = FALSE
  BY DEF Operations, NoOp, Pcs
<1> HIDE DEF o
<1>3. op' = [op EXCEPT ![a] = o]
  BY DEF Begin, o
<1>4. op'[a] = o /\ op' \in [Actors -> Operations] /\ \A b \in Actors \ {a} : op'[b] = op[b]
  BY <1>1, <1>2, <1>3
<1>5. QED
  BY <1>2, <1>4 DEF Moves, SameJob, SameCopies, Elsewhere

LEMMA FileLoadNodesMoves ==
    ASSUME Typed, NEW a \in Actors, FileLoadNodes(a)
    PROVE  /\ Moves(a, "edges") /\ SameJob(a)
           /\ op'[a].nodes = nodes /\ ~op'[a].stale
           /\ \A b \in Actors \ {a} : op'[b].stale = op[b].stale
<1>1. op \in [Actors -> Operations] /\ nodes \in SUBSET AllNodes
  BY DEF Typed, RowsTyped
<1> DEFINE o == [op[a] EXCEPT !.pc = "edges", !.nodes = nodes, !.stale = FALSE]
<1>2. o \in Operations /\ o.pc = "edges" /\ o.nodes = nodes /\ o.stale = FALSE
      /\ o.doc = op[a].doc /\ o.new = op[a].new
  BY <1>1 DEF Operations, Pcs
<1>3. op' = [op EXCEPT ![a] = o]
  BY <1>1 DEF FileLoadNodes, Operations
<1> HIDE DEF o
<1>4. op'[a] = o /\ op' \in [Actors -> Operations] /\ \A b \in Actors \ {a} : op'[b] = op[b]
  BY <1>1, <1>2, <1>3
<1>5. QED
  BY <1>2, <1>4 DEF Moves, SameJob, SameCopies, Elsewhere

LEMMA FileLoadEdgesMoves ==
    ASSUME Typed, NEW a \in Actors, FileLoadEdges(a)
    PROVE  /\ Moves(a, "save") /\ SameJob(a) /\ SameStale
           /\ op'[a].nodes = op[a].nodes /\ op'[a].edges = edges
<1>1. op \in [Actors -> Operations] /\ edges \in SUBSET AllEdges
  BY DEF Typed, RowsTyped
<1> DEFINE o == [op[a] EXCEPT !.pc = "save", !.edges = edges]
<1>2. o \in Operations /\ o.pc = "save" /\ o.edges = edges /\ o.stale = op[a].stale
      /\ o.nodes = op[a].nodes /\ o.doc = op[a].doc /\ o.new = op[a].new
  BY <1>1 DEF Operations, Pcs
<1>3. op' = [op EXCEPT ![a] = o]
  BY <1>1 DEF FileLoadEdges, Operations
<1> HIDE DEF o
<1>4. op'[a] = o /\ op' \in [Actors -> Operations] /\ \A b \in Actors \ {a} : op'[b] = op[b]
  BY <1>1, <1>2, <1>3
<1>5. QED
  BY <1>2, <1>4 DEF Moves, SameJob, SameCopies, SameStale, Elsewhere

LEMMA SavedMoves ==
    ASSUME Typed, NEW a \in Actors, NEW place \in Pcs, Saved(a, place)
    PROVE  /\ Moves(a, place) /\ SameJob(a) /\ SameCopies(a) /\ op'[a].stale = op[a].stale
           /\ \A b \in Actors \ {a} : op'[b].stale = (op[b].pc \in {"edges", "save", "save edges"})
<1>1. op \in [Actors -> Operations]
  BY DEF Typed
<1> DEFINE late(b) == op[b].pc \in {"edges", "save", "save edges"}
<1>a. op' = [b \in Actors |-> IF b = a THEN [op[a] EXCEPT !.pc = place]
                                 ELSE [op[b] EXCEPT !.stale = late(b)]]
  BY Zenon DEF Saved
<1>b. \A b \in Actors : late(b) \in BOOLEAN
  OBVIOUS
<1> HIDE DEF late
<1>2. /\ op'[a] = [op[a] EXCEPT !.pc = place]
      /\ \A b \in Actors \ {a} : op'[b] = [op[b] EXCEPT !.stale = late(b)]
  BY <1>a
<1>3. op'[a] = [op[a] EXCEPT !.pc = place] /\ op[a] \in Operations /\ op'[a] \in Operations
  BY <1>1, <1>2 DEF Operations
<1>4. ASSUME NEW b \in Actors \ {a}
      PROVE  /\ op'[b] \in Operations /\ op'[b].stale = late(b) /\ op'[b].pc = op[b].pc
             /\ SameJob(b) /\ SameCopies(b)
  <2>1. op[b] \in Operations /\ op'[b] = [op[b] EXCEPT !.stale = late(b)] /\ late(b) \in BOOLEAN
    BY <1>1, <1>2, <1>b
  <2>2. op'[b] \in Operations
    BY <2>1 DEF Operations
  <2>3. QED
    BY <2>1, <2>2 DEF Operations, SameJob, SameCopies
<1>5. op' \in [Actors -> Operations]
  BY <1>a, <1>3, <1>4
<1>6. op'[a].pc = place /\ op'[a].stale = op[a].stale /\ SameJob(a) /\ SameCopies(a)
  BY <1>3 DEF Operations, SameJob, SameCopies
<1>7. Moves(a, place)
  BY <1>4, <1>5, <1>6 DEF Moves, Elsewhere
<1>8. \A b \in Actors \ {a} : op'[b].stale = (op[b].pc \in {"edges", "save", "save edges"})
  BY <1>4 DEF late
<1>9. QED
  BY <1>6, <1>7, <1>8

LEMMA Neo4jMergeDocumentMoves ==
    ASSUME Typed, NEW a \in Actors, Neo4jMergeDocument(a)
    PROVE  /\ Moves(a, "merge") /\ SameJob(a) /\ SameStale
           /\ op'[a].nodes = NodesOf(op[a].new, op[a].doc)
           /\ op'[a].edges = EdgesOf(op[a].new, op[a].doc)
<1>1. op \in [Actors -> Operations] /\ op[a].doc \in Docs /\ op[a].new \in Parses \cup {NoParse}
  BY DEF Typed, Placed, Neo4jMergeDocument, At, Operations
<1>2. NodesOf(op[a].new, op[a].doc) \in SUBSET AllNodes /\ EdgesOf(op[a].new, op[a].doc) \in SUBSET AllEdges
  BY <1>1 DEF AllNodes, AllEdges
<1> DEFINE o == [op[a] EXCEPT !.pc = "merge", !.nodes = NodesOf(op[a].new, op[a].doc),
                              !.edges = EdgesOf(op[a].new, op[a].doc)]
<1>3. o \in Operations /\ o.pc = "merge" /\ o.nodes = NodesOf(op[a].new, op[a].doc)
      /\ o.edges = EdgesOf(op[a].new, op[a].doc) /\ o.stale = op[a].stale
      /\ o.doc = op[a].doc /\ o.new = op[a].new
  BY <1>1, <1>2 DEF Operations, Pcs
<1>4. op' = [op EXCEPT ![a] = o]
  BY <1>1 DEF Neo4jMergeDocument, Operations
<1> HIDE DEF o
<1>5. op'[a] = o /\ op' \in [Actors -> Operations] /\ \A b \in Actors \ {a} : op'[b] = op[b]
  BY <1>1, <1>3, <1>4
<1>6. QED
  BY <1>3, <1>5 DEF Moves, SameJob, SameCopies, SameStale, Elsewhere

LEMMA Neo4jMergeNodeMoves ==
    ASSUME Typed, NEW a \in Actors, NEW n \in op[a].nodes,
           At(a, "merge"), op' = [op EXCEPT ![a].nodes = @ \ {n}]
    PROVE  /\ Moves(a, "merge") /\ SameJob(a) /\ SameStale
           /\ op'[a].nodes = op[a].nodes \ {n} /\ op'[a].edges = op[a].edges
<1>1. op \in [Actors -> Operations]
  BY DEF Typed
<1> DEFINE o == [op[a] EXCEPT !.nodes = @ \ {n}]
<1>2. o \in Operations /\ o.pc = "merge" /\ o.nodes = op[a].nodes \ {n} /\ o.edges = op[a].edges
      /\ o.stale = op[a].stale /\ o.doc = op[a].doc /\ o.new = op[a].new
  BY <1>1 DEF Operations, Pcs, At
<1>3. op' = [op EXCEPT ![a] = o]
  BY <1>1 DEF Operations
<1> HIDE DEF o
<1>4. op'[a] = o /\ op' \in [Actors -> Operations] /\ \A b \in Actors \ {a} : op'[b] = op[b]
  BY <1>1, <1>2, <1>3
<1>5. QED
  BY <1>2, <1>4 DEF Moves, SameJob, SameCopies, SameStale, Elsewhere

LEMMA Neo4jMergeEdgeMoves ==
    ASSUME Typed, NEW a \in Actors, NEW e \in op[a].edges,
           At(a, "merge"), op' = [op EXCEPT ![a].edges = @ \ {e}]
    PROVE  /\ Moves(a, "merge") /\ SameJob(a) /\ SameStale
           /\ op'[a].edges = op[a].edges \ {e} /\ op'[a].nodes = op[a].nodes
<1>1. op \in [Actors -> Operations]
  BY DEF Typed
<1> DEFINE o == [op[a] EXCEPT !.edges = @ \ {e}]
<1>2. o \in Operations /\ o.pc = "merge" /\ o.edges = op[a].edges \ {e} /\ o.nodes = op[a].nodes
      /\ o.stale = op[a].stale /\ o.doc = op[a].doc /\ o.new = op[a].new
  BY <1>1 DEF Operations, Pcs, At
<1>3. op' = [op EXCEPT ![a] = o]
  BY <1>1 DEF Operations
<1> HIDE DEF o
<1>4. op'[a] = o /\ op' \in [Actors -> Operations] /\ \A b \in Actors \ {a} : op'[b] = op[b]
  BY <1>1, <1>2, <1>3
<1>5. QED
  BY <1>2, <1>4 DEF Moves, SameJob, SameCopies, SameStale, Elsewhere

-----------------------------------------------------------------------------
(* The types. *)

LEMMA StillPlaced ==
    ASSUME Typed, NEW a \in Actors, NEW place \in Pcs, Moves(a, place), SameJob(a), backend' = backend,
           op[a].pc # "idle",
           place \in {"edges", "save", "save edges"} => backend = "filesystem",
           place = "reset" => backend = "postgres",
           place \in {"merge", "drop"} => backend = "neo4j"
    PROVE  op' \in [Actors -> Operations] /\ (\A b \in Actors : Placed(b))' /\ Apart'
<1>1. \A b \in Actors : Placed(b)'
  BY DEF Typed, Placed, Moves, SameJob, Elsewhere
<1>2. \A b \in Actors : op'[b].doc = op[b].doc /\ (op'[b].pc # "idle" => op[b].pc # "idle")
  BY DEF Moves, SameJob, Elsewhere
<1>3. Apart'
  BY <1>2 DEF Typed, Apart
<1>4. QED
  BY <1>1, <1>3 DEF Moves

LEMMA OwnRows ==
    ASSUME Typed, NEW a \in Actors, op[a].pc # "idle"
    PROVE  /\ op[a].doc \in Docs /\ op[a].new \in Parses \cup {NoParse}
           /\ NodesOf(op[a].new, op[a].doc) \subseteq AllNodes
           /\ EdgesOf(op[a].new, op[a].doc) \subseteq AllEdges
           /\ op[a].nodes \subseteq AllNodes /\ op[a].edges \subseteq AllEdges
<1>1. op[a].doc \in Docs /\ op[a].new \in Parses \cup {NoParse}
      /\ op[a].nodes \subseteq AllNodes /\ op[a].edges \subseteq AllEdges
  BY DEF Typed, Placed, Operations
<1>2. NodesOf(op[a].new, op[a].doc) \subseteq AllNodes
  BY <1>1 DEF AllNodes
<1>3. EdgesOf(op[a].new, op[a].doc) \subseteq AllEdges
  BY <1>1 DEF AllEdges
<1>4. QED
  BY <1>1, <1>2, <1>3

LEMMA TypedAtFirst == Init => Typed
<1> SUFFICES ASSUME Init PROVE Typed
  OBVIOUS
<1>1. NoOp \in Operations
  BY DEF NoOp, Operations, Pcs
<1>2. op \in [Actors -> Operations]
  BY <1>1 DEF Init
<1>3. \A a \in Actors : op[a] = NoOp /\ NoOp.pc = "idle"
  BY DEF Init, NoOp
<1>4. RowsTyped
  BY DEF Init, RowsTyped, NoCache
<1>5. (\A a \in Actors : Placed(a)) /\ Apart
  BY <1>3 DEF Placed, Apart
<1>6. QED
  BY <1>2, <1>4, <1>5 DEF Typed

LEMMA TypedIsKept == Typed /\ [Next]_vars => Typed'
<1> SUFFICES ASSUME Typed, [Next]_vars PROVE Typed'
  OBVIOUS
<1>u. /\ nodes \in SUBSET AllNodes /\ edges \in SUBSET AllEdges
      /\ cache \in [valid : BOOLEAN, nodes : SUBSET AllNodes, edges : SUBSET AllEdges]
      /\ published \in [Docs -> Parses \cup {NoParse}]
      /\ op \in [Actors -> Operations]
  BY DEF Typed, RowsTyped
<1>o. ASSUME UNCHANGED <<op, backend>>
      PROVE  op' \in [Actors -> Operations] /\ (\A b \in Actors : Placed(b))' /\ Apart'
  BY <1>o DEF Typed, Placed, Apart
<1>r. ASSUME UNCHANGED <<store, cache, published>>
      PROVE  RowsTyped'
  BY <1>r, <1>u DEF RowsTyped, store
<1>1. ASSUME NEW a \in Actors, NEW d \in Docs, NEW new \in Parses \cup {NoParse}, Begin(a, d, new)
      PROVE  Typed'
  <2>1. /\ Moves(a, "begin") /\ op'[a].doc = d /\ UNCHANGED <<backend, store, cache, published>>
        /\ \A b \in Actors : op[b].pc # "idle" => op[b].doc # d
    BY <1>1, BeginMoves DEF Begin, history
  <2>2. \A b \in Actors : Placed(b)'
    BY <2>1 DEF Typed, Placed, Moves, SameJob, Elsewhere
  <2>3. Apart'
    <3>1. \A b \in Actors \ {a} : op'[b].pc = op[b].pc /\ op'[b].doc = op[b].doc
      BY <2>1 DEF Moves, SameJob, Elsewhere
    <3>2. \A b \in Actors \ {a} : op'[b].pc # "idle" => op'[b].doc # d
      BY <2>1, <3>1
    <3>3. \A b, c \in Actors \ {a} :
              b # c /\ op'[b].pc # "idle" /\ op'[c].pc # "idle" => op'[b].doc # op'[c].doc
      BY <3>1 DEF Typed, Apart
    <3>4. QED
      BY <2>1, <3>2, <3>3 DEF Apart
  <2>4. QED
    BY <2>1, <2>2, <2>3, <1>r DEF Typed, Moves
<1>2. ASSUME NEW a \in Actors, FileLoadNodes(a)
      PROVE  Typed'
  <2>1. Moves(a, "edges") /\ SameJob(a)
    BY <1>2, FileLoadNodesMoves
  <2>2. backend = "filesystem" /\ op[a].pc # "idle" /\ UNCHANGED <<backend, store, cache, published>>
    BY <1>2 DEF FileLoadNodes, At, Idle, NoRead, history
  <2>3. QED
    BY <2>1, <2>2, <1>r, StillPlaced DEF Typed, Pcs
<1>3. ASSUME NEW a \in Actors, FileLoadEdges(a)
      PROVE  Typed'
  <2>1. Moves(a, "save") /\ SameJob(a)
    BY <1>3, FileLoadEdgesMoves
  <2>2. backend = "filesystem" /\ op[a].pc # "idle" /\ UNCHANGED <<backend, store, cache, published>>
    BY <1>3 DEF FileLoadEdges, At, Idle, NoRead, history
  <2>3. QED
    BY <2>1, <2>2, <1>r, StillPlaced DEF Typed, Pcs
<1>4. ASSUME NEW a \in Actors, FileSaveNodes(a)
      PROVE  Typed'
  <2>1. backend = "filesystem" /\ op[a].pc # "idle" /\ UNCHANGED <<backend, edges, cache, published>>
        /\ Saved(a, "save edges") /\ nodes' = MergedNodes(op[a].nodes, op[a].doc, op[a].new)
    BY <1>4 DEF FileSaveNodes, At, Idle, NoRead
  <2>2. Moves(a, "save edges") /\ SameJob(a)
    BY <2>1, SavedMoves DEF Pcs
  <2>3. nodes' \in SUBSET AllNodes
    BY <2>1, OwnRows DEF MergedNodes, Others
  <2>4. RowsTyped'
    BY <2>1, <2>3, <1>u DEF RowsTyped
  <2>5. QED
    BY <2>1, <2>2, <2>4, StillPlaced DEF Typed, Pcs
<1>5. ASSUME NEW a \in Actors, FileSaveEdges(a)
      PROVE  Typed'
  <2>1. backend = "filesystem" /\ op[a].pc # "idle" /\ UNCHANGED <<backend, nodes, cache, published>>
        /\ Saved(a, "done") /\ edges' = MergedEdges(op[a].edges, op[a].doc, op[a].new)
    BY <1>5 DEF FileSaveEdges, At, Idle, NoRead
  <2>2. Moves(a, "done") /\ SameJob(a)
    BY <2>1, SavedMoves DEF Pcs
  <2>3. edges' \in SUBSET AllEdges
    BY <2>1, OwnRows DEF MergedEdges, Others
  <2>4. RowsTyped'
    BY <2>1, <2>3, <1>u DEF RowsTyped
  <2>5. QED
    BY <2>1, <2>2, <2>4, StillPlaced DEF Typed, Pcs
<1>6. ASSUME NEW a \in Actors, PostgresCommit(a)
      PROVE  Typed'
  <2>1. backend = "postgres" /\ op[a].pc # "idle" /\ UNCHANGED <<backend, cache, published>>
        /\ Go(a, "reset")
        /\ nodes' = Others(nodes, op[a].doc) \cup NodesOf(op[a].new, op[a].doc)
        /\ edges' = Others(edges, op[a].doc) \cup EdgesOf(op[a].new, op[a].doc)
    BY <1>6 DEF PostgresCommit, At, Idle, NoRead
  <2>2. Moves(a, "reset") /\ SameJob(a)
    BY <2>1, Gone DEF Pcs
  <2>3. nodes' \in SUBSET AllNodes /\ edges' \in SUBSET AllEdges
    BY <2>1, <1>u, OwnRows DEF Others
  <2>4. RowsTyped'
    BY <2>1, <2>3, <1>u DEF RowsTyped
  <2>5. QED
    BY <2>1, <2>2, <2>4, StillPlaced DEF Typed, Pcs
<1>7. ASSUME NEW a \in Actors, PostgresReset(a)
      PROVE  Typed'
  <2>1. op[a].pc # "idle" /\ UNCHANGED <<backend, store, published>> /\ Go(a, "done")
        /\ cache' = [cache EXCEPT !.valid = @ /\ a = "worker" /\ ~oneProcess]
    BY <1>7 DEF PostgresReset, At, Idle, history
  <2>2. Moves(a, "done") /\ SameJob(a)
    BY <2>1, Gone DEF Pcs
  <2> DEFINE good == cache.valid /\ a = "worker" /\ ~oneProcess
  <2>3. good \in BOOLEAN /\ cache' = [cache EXCEPT !.valid = good]
    BY <2>1
  <2> HIDE DEF good
  <2>4. RowsTyped'
    BY <2>1, <2>3, <1>u DEF RowsTyped, store
  <2>5. QED
    BY <2>1, <2>2, <2>4, StillPlaced DEF Typed, Pcs
<1>8. ASSUME NEW a \in Actors, Neo4jMergeDocument(a)
      PROVE  Typed'
  <2>1. Moves(a, "merge") /\ SameJob(a)
    BY <1>8, Neo4jMergeDocumentMoves
  <2>2. backend = "neo4j" /\ op[a].pc # "idle" /\ UNCHANGED <<backend, store, cache, published>>
    BY <1>8 DEF Neo4jMergeDocument, At, Idle, NoRead, history
  <2>3. QED
    BY <2>1, <2>2, <1>r, StillPlaced DEF Typed, Pcs
<1>9. ASSUME NEW a \in Actors, Neo4jMergeNode(a)
      PROVE  Typed'
  <2>1. PICK n \in op[a].nodes :
            /\ At(a, "merge") /\ op' = [op EXCEPT ![a].nodes = @ \ {n}]
            /\ nodes' = {m \in nodes : m.id # n.id} \cup {n}
            /\ UNCHANGED <<backend, edges, cache, published>>
    BY <1>9 DEF Neo4jMergeNode, Idle, NoRead
  <2>2. Moves(a, "merge") /\ SameJob(a)
    BY <2>1, Neo4jMergeNodeMoves
  <2>3. backend = "neo4j" /\ op[a].pc # "idle"
    BY <2>1 DEF At, Typed, Placed
  <2>4. nodes' \in SUBSET AllNodes
    BY <2>1, <2>3, <1>u, OwnRows
  <2>5. RowsTyped'
    BY <2>1, <2>4, <1>u DEF RowsTyped
  <2>6. QED
    BY <2>1, <2>2, <2>3, <2>5, StillPlaced DEF Typed, Pcs
<1>10. ASSUME NEW a \in Actors, Neo4jMergeEdge(a)
       PROVE  Typed'
  <2>1. PICK e \in op[a].edges :
            /\ At(a, "merge") /\ op' = [op EXCEPT ![a].edges = @ \ {e}]
            /\ edges' = IF e.ends \subseteq Ids(nodes)
                        THEN {f \in edges : f.ends # e.ends} \cup {e} ELSE edges
            /\ UNCHANGED <<backend, nodes, cache, published>>
    BY <1>10 DEF Neo4jMergeEdge, Idle, NoRead, history
  <2>2. Moves(a, "merge") /\ SameJob(a)
    BY <2>1, Neo4jMergeEdgeMoves
  <2>3. backend = "neo4j" /\ op[a].pc # "idle"
    BY <2>1 DEF At, Typed, Placed
  <2>4. edges' \in SUBSET AllEdges
    BY <2>1, <2>3, <1>u, OwnRows
  <2>5. RowsTyped'
    BY <2>1, <2>4, <1>u DEF RowsTyped
  <2>6. QED
    BY <2>1, <2>2, <2>3, <2>5, StillPlaced DEF Typed, Pcs
<1>11. ASSUME NEW a \in Actors, Neo4jMerged(a)
       PROVE  Typed'
  <2>1. op[a].pc # "idle" /\ Go(a, "done") /\ UNCHANGED <<backend, store, cache, published>>
    BY <1>11 DEF Neo4jMerged, At, Idle, NoRead, history
  <2>2. Moves(a, "done") /\ SameJob(a)
    BY <2>1, Gone DEF Pcs
  <2>3. QED
    BY <2>1, <2>2, <1>r, StillPlaced DEF Typed, Pcs
<1>12. ASSUME NEW a \in Actors, Neo4jRemoveDocument(a)
       PROVE  Typed'
  <2>1. /\ op[a].pc # "idle" /\ Go(a, "drop") /\ backend = "neo4j"
        /\ UNCHANGED <<backend, nodes, edges, cache, published>>
    BY <1>12 DEF Neo4jRemoveDocument, At, Idle, NoRead, history
  <2>2. Moves(a, "drop") /\ SameJob(a)
    BY <2>1, Gone DEF Pcs
  <2>3. RowsTyped'
    BY <2>1, <1>u DEF RowsTyped
  <2>4. QED
    BY <2>1, <2>2, <2>3, StillPlaced DEF Typed, Pcs
<1>13. ASSUME NEW a \in Actors, Neo4jRemoveEntities(a)
       PROVE  Typed'
  <2>1. /\ op[a].pc # "idle" /\ Go(a, "done") /\ UNCHANGED <<backend, cache, published>>
        /\ nodes' \subseteq nodes /\ edges' \subseteq edges
    BY <1>13 DEF Neo4jRemoveEntities, At, Idle, NoRead, history
  <2>2. Moves(a, "done") /\ SameJob(a)
    BY <2>1, Gone DEF Pcs
  <2>3. RowsTyped'
    BY <2>1, <1>u DEF RowsTyped
  <2>4. QED
    BY <2>1, <2>2, <2>3, StillPlaced DEF Typed, Pcs
<1>14. ASSUME NEW a \in Actors, Return(a)
       PROVE  Typed'
  <2>1. /\ op[a].pc # "idle" /\ Go(a, "idle") /\ UNCHANGED <<backend, store, cache>>
        /\ published' = [published EXCEPT ![op[a].doc] = op[a].new]
    BY <1>14 DEF Return, Ends, At, Idle, NoRead
  <2>2. Moves(a, "idle") /\ SameJob(a)
    BY <2>1, Gone DEF Pcs
  <2>3. op[a].new \in Parses \cup {NoParse}
    BY <2>1, OwnRows
  <2>4. RowsTyped'
    BY <2>1, <2>3, <1>u DEF RowsTyped, store
  <2>5. QED
    BY <2>1, <2>2, <2>4, StillPlaced DEF Typed, Pcs
<1>15. CASE RefreshNodes
  <2>1. UNCHANGED <<op, backend, store, published>> /\ cache' = [cache EXCEPT !.nodes = nodes]
    BY <1>15 DEF RefreshNodes, Idle
  <2>2. RowsTyped'
    BY <2>1, <1>u DEF RowsTyped, store
  <2>3. QED
    BY <2>1, <2>2, <1>o DEF Typed
<1>16. CASE RefreshEdges
  <2>1. UNCHANGED <<op, backend, store, published>> /\ cache' = [cache EXCEPT !.edges = edges]
    BY <1>16 DEF RefreshEdges, Idle, history
  <2>2. RowsTyped'
    BY <2>1, <1>u DEF RowsTyped, store
  <2>3. QED
    BY <2>1, <2>2, <1>o DEF Typed
<1>17. CASE RefreshStore
  <2>1. UNCHANGED <<op, backend, store, published>> /\ cache' = [cache EXCEPT !.valid = TRUE]
    BY <1>17 DEF RefreshStore, Idle, history
  <2>2. RowsTyped'
    BY <2>1, <1>u DEF RowsTyped, store
  <2>3. QED
    BY <2>1, <2>2, <1>o DEF Typed
<1>18. CASE CacheExpires
  <2>1. UNCHANGED <<op, backend, store, published>> /\ cache' = NoCache
    BY <1>18 DEF CacheExpires, Idle, history
  <2>2. RowsTyped'
    BY <2>1, <1>u DEF RowsTyped, store, NoCache
  <2>3. QED
    BY <2>1, <2>2, <1>o DEF Typed
<1>19. CASE UNCHANGED vars
  BY <1>19, <1>o, <1>r DEF Typed, vars, history
<1>20. QED
  BY <1>1, <1>2, <1>3, <1>4, <1>5, <1>6, <1>7, <1>8, <1>9, <1>10, <1>11, <1>12, <1>13, <1>14,
     <1>15, <1>16, <1>17, <1>18, <1>19 DEF Next, Work

-----------------------------------------------------------------------------
(* The copy of the API's process. *)

LEMMA NoCopyElsewhere ==
    ASSUME Refreshed, backend # "postgres", UNCHANGED <<backend, cache, reader>>
    PROVE  Refreshed'
  BY DEF Refreshed

LEMMA CopyUntouched ==
    ASSUME Refreshed, UNCHANGED <<backend, oneProcess, nodes, edges, cache, reader, missed>>,
           \A b \in Actors : op[b].pc = "reset" => op'[b].pc = "reset"
    PROVE  Refreshed'
  BY DEF Refreshed, SparesTheCopy, At

LEMMA RefreshedIsKept == Typed /\ Refreshed /\ [Next]_vars => Refreshed'
<1> SUFFICES ASSUME Typed, Refreshed, [Next]_vars PROVE Refreshed'
  OBVIOUS
<1>1. ASSUME NEW a \in Actors, NEW d \in Docs, NEW new \in Parses \cup {NoParse}, Begin(a, d, new)
      PROVE  Refreshed'
  <2>1. /\ Moves(a, "begin") /\ op[a].pc = "idle"
        /\ UNCHANGED <<backend, oneProcess, nodes, edges, cache, reader, missed>>
    BY <1>1, BeginMoves DEF Begin, store, history, At
  <2>2. QED
    BY <2>1, CopyUntouched DEF Moves, Elsewhere
<1>2. ASSUME NEW a \in Actors, \/ FileLoadNodes(a) \/ FileLoadEdges(a)
                               \/ FileSaveNodes(a) \/ FileSaveEdges(a)
      PROVE  Refreshed'
  <2>1. backend = "filesystem" /\ UNCHANGED <<backend, cache, reader>>
    BY <1>2 DEF FileLoadNodes, FileLoadEdges, FileSaveNodes, FileSaveEdges, NoRead, Idle
  <2>2. QED
    BY <2>1, NoCopyElsewhere
<1>3. ASSUME NEW a \in Actors, \/ Neo4jMergeDocument(a) \/ Neo4jMergeNode(a) \/ Neo4jMergeEdge(a)
                               \/ Neo4jMerged(a) \/ Neo4jRemoveDocument(a) \/ Neo4jRemoveEntities(a)
      PROVE  Refreshed'
  <2>1. UNCHANGED <<backend, cache, reader>> /\ (backend = "neo4j" \/ op[a].pc \in {"merge", "drop"})
    BY <1>3
       DEF Neo4jMergeDocument, Neo4jMergeNode, Neo4jMergeEdge, Neo4jMerged, Neo4jRemoveDocument,
                Neo4jRemoveEntities, NoRead, Idle, At
  <2>2. backend = "neo4j"
    BY <2>1 DEF Typed, Placed
  <2>3. QED
    BY <2>1, <2>2, NoCopyElsewhere
<1>4. ASSUME NEW a \in Actors, PostgresCommit(a)
      PROVE  Refreshed'
  <2>1. /\ Go(a, "reset") /\ UNCHANGED <<backend, oneProcess, cache, reader>> /\ backend = "postgres"
        /\ missed' = (missed \/ (a = "worker" /\ ~oneProcess) \/ reader # "idle")
    BY <1>4 DEF PostgresCommit, Idle, NoRead
  <2>2. op'[a].pc = "reset"
    BY <2>1, Gone DEF Moves, Pcs
  <2>3. ~missed' => reader = "idle" /\ ~SparesTheCopy(a)
    BY <2>1 DEF SparesTheCopy
  <2>4. QED
    BY <2>1, <2>2, <2>3 DEF Refreshed, SparesTheCopy, At
<1>5. ASSUME NEW a \in Actors, PostgresReset(a)
      PROVE  Refreshed'
  <2>1. /\ Go(a, "done") /\ UNCHANGED <<backend, oneProcess, nodes, edges, reader, missed>>
        /\ cache' = [cache EXCEPT !.valid = @ /\ a = "worker" /\ ~oneProcess]
        /\ op[a].pc = "reset" /\ backend = "postgres"
    BY <1>5 DEF PostgresReset, Idle, store, history, At
  <2>2. \A b \in Actors \ {a} : op'[b].pc = op[b].pc
    BY <2>1, Gone DEF Moves, Elsewhere, Pcs
  <2>3. /\ cache'.nodes = cache.nodes /\ cache'.edges = cache.edges
        /\ cache'.valid => cache.valid /\ SparesTheCopy(a)
    BY <2>1 DEF Typed, RowsTyped, SparesTheCopy
  <2>4. QED
    BY <2>1, <2>2, <2>3 DEF Refreshed, SparesTheCopy, At
<1>6. ASSUME NEW a \in Actors, Return(a)
      PROVE  Refreshed'
  <2>1. /\ Go(a, "idle") /\ op[a].pc = "done"
        /\ UNCHANGED <<backend, oneProcess, nodes, edges, cache, reader, missed>>
    BY <1>6 DEF Return, Ends, Idle, NoRead, store, At
  <2>2. QED
    BY <2>1, Gone, CopyUntouched DEF Moves, Elsewhere, Pcs
<1>7. CASE RefreshNodes
  <2>1. /\ backend = "postgres" /\ ~cache.valid /\ reader' = "edges" /\ ~missed'
        /\ cache' = [cache EXCEPT !.nodes = nodes] /\ UNCHANGED <<backend, nodes>>
    BY <1>7 DEF RefreshNodes, Idle, store
  <2>2. cache'.nodes = nodes /\ ~cache'.valid
    BY <2>1 DEF Typed, RowsTyped
  <2>3. QED
    BY <2>1, <2>2 DEF Refreshed
<1>8. CASE RefreshEdges
  <2>1. /\ reader = "edges" /\ reader' = "store" /\ UNCHANGED <<backend, nodes, edges, missed>>
        /\ cache' = [cache EXCEPT !.edges = edges]
    BY <1>8 DEF RefreshEdges, Idle, store, history
  <2>2. cache'.nodes = cache.nodes /\ cache'.edges = edges /\ cache'.valid = cache.valid
    BY <2>1 DEF Typed, RowsTyped
  <2>3. QED
    BY <2>1, <2>2 DEF Refreshed
<1>9. CASE RefreshStore
  <2>1. /\ reader = "store" /\ reader' = "idle" /\ UNCHANGED <<backend, nodes, edges, missed>>
        /\ cache' = [cache EXCEPT !.valid = TRUE]
    BY <1>9 DEF RefreshStore, Idle, store, history
  <2>2. cache'.nodes = cache.nodes /\ cache'.edges = cache.edges
    BY <2>1 DEF Typed, RowsTyped
  <2>3. QED
    BY <2>1, <2>2 DEF Refreshed
<1>10. CASE CacheExpires
  <2>1. reader = "idle" /\ ~cache'.valid /\ UNCHANGED <<backend, reader>>
    BY <1>10 DEF CacheExpires, Idle, NoCache
  <2>2. QED
    BY <2>1 DEF Refreshed
<1>11. CASE UNCHANGED vars
  BY <1>11, CopyUntouched DEF vars, store, history
<1>12. QED
  BY <1>1, <1>2, <1>3, <1>4, <1>5, <1>6, <1>7, <1>8, <1>9, <1>10, <1>11 DEF Next, Work

(* The copy from which the API answers is what the tables hold, unless another
   process has committed since, or a thread of its own did while the copy was
   being made: PostgresGraphRepository discards its copy after each of its own
   transactions, and never declares one good that it knows to be old. *)
THEOREM CopyTellsTheTables == Spec => []CopyIsCurrent
<1>1. Init => Typed /\ Refreshed
  <2>1. Init => ~cache.valid /\ reader = "idle"
    BY DEF Init, NoCache
  <2>2. QED
    BY <2>1, TypedAtFirst DEF Refreshed
<1>2. Typed /\ Refreshed /\ [Next]_vars => (Typed /\ Refreshed)'
  BY TypedIsKept, RefreshedIsKept
<1>3. Refreshed => CopyIsCurrent
  BY DEF Refreshed, CopyIsCurrent, At
<1>4. QED
  BY <1>1, <1>2, <1>3, PTL DEF Spec

-----------------------------------------------------------------------------
(* A removal: what the steps have in common. *)

(* Nothing is written of other documents than the one in hand. *)
WritesOwn(a) ==
    /\ \A n \in nodes' : n \in nodes \/ n.doc = op[a].doc
    /\ \A e \in edges' : e \in edges \/ e.doc = op[a].doc
    /\ shared \subseteq shared'

LEMMA OthersStayClear ==
    ASSUME NEW a, WritesOwn(a), NEW d, d # op[a].doc
    PROVE  (NoNodeOf(d) => NoNodeOf(d)') /\ (NoEdgeOf(d) => NoEdgeOf(d)')
  BY DEF WritesOwn, NoNodeOf, NoEdgeOf

LEMMA ClearedByStep ==
    ASSUME Typed, Cleared, NEW a \in Actors, NEW place \in Pcs, Moves(a, place), SameJob(a),
           op[a].pc # "idle", place # "idle", published' = published,
           ~lost' => ~lost /\ WritesOwn(a),
           ~lost' /\ op[a].new = NoParse =>
               /\ place \in {"save edges", "reset", "done"} => NoNodeOf(op[a].doc)'
               /\ place \in {"reset", "done"} => NoEdgeOf(op[a].doc)'
    PROVE  Cleared'
<1> SUFFICES ASSUME ~lost' PROVE Cleared'
  BY DEF Cleared
<1>1. ~lost /\ WritesOwn(a)
  OBVIOUS
<1>2. /\ op'[a].pc = place /\ op'[a].doc = op[a].doc /\ op'[a].new = op[a].new
      /\ \A b \in Actors \ {a} : op'[b].pc = op[b].pc /\ op'[b].doc = op[b].doc /\ op'[b].new = op[b].new
  BY DEF Moves, SameJob, Elsewhere
<1>3. ASSUME NEW d \in Docs, Settled(d)', published'[d] = NoParse
      PROVE  NoNodeOf(d)' /\ NoEdgeOf(d)'
  <2>1. Settled(d) /\ d # op[a].doc
    BY <1>2, <1>3 DEF Settled
  <2>2. NoNodeOf(d) /\ NoEdgeOf(d)
    BY <2>1, <1>1, <1>3 DEF Cleared
  <2>3. QED
    BY <2>1, <2>2, <1>1, OthersStayClear
<1>4. ASSUME NEW b \in Actors \ {a}, op'[b].new = NoParse
      PROVE  /\ op'[b].pc \in {"save edges", "reset", "done"} => NoNodeOf(op[b].doc)'
             /\ op'[b].pc \in {"reset", "done"} => NoEdgeOf(op[b].doc)'
  <2>1. op[b].pc # "idle" => op[b].doc # op[a].doc
    BY DEF Typed, Apart
  <2>2. /\ op[b].pc \in {"save edges", "reset", "done"} => NoNodeOf(op[b].doc)
        /\ op[b].pc \in {"reset", "done"} => NoEdgeOf(op[b].doc)
    BY <1>1, <1>2, <1>4 DEF Cleared
  <2>3. QED
    BY <2>1, <2>2, <1>1, <1>2, OthersStayClear
<1>5. ASSUME NEW b \in Actors, op'[b].new = NoParse
      PROVE  /\ op'[b].pc \in {"save edges", "reset", "done"} => NoNodeOf(op[b].doc)'
             /\ op'[b].pc \in {"reset", "done"} => NoEdgeOf(op[b].doc)'
  BY <1>2, <1>4, <1>5
<1>6. QED
  BY <1>3, <1>5 DEF Cleared

LEMMA OthersHalfway ==
    ASSUME Typed, NEW a \in Actors, Elsewhere(a), NEW b \in Actors \ {a}, Halfway(b),
           op[b].pc = "merge" => \A id : HasOwn(id, op[b].doc) => HasOwn(id, op[b].doc)',
           op[b].pc = "drop" => \A m \in mentions' : m \in mentions \/ m[1] # op[b].doc,
           ~op'[b].stale /\ op[b].pc \in {"edges", "save", "save edges"} =>
               ~op[b].stale /\ UNCHANGED <<nodes, edges>>
    PROVE  Halfway(b)'
<1>1. /\ op'[b].pc = op[b].pc /\ op'[b].doc = op[b].doc /\ op'[b].new = op[b].new
      /\ op'[b].nodes = op[b].nodes /\ op'[b].edges = op[b].edges
  BY DEF Elsewhere, SameJob, SameCopies
<1>2. QED
  BY <1>1 DEF Halfway

(* A step that leaves the rows as they are leaves the other operations where
   they are. *)
RowsStay == UNCHANGED <<backend, nodes, edges, mentions, shared>>
LEMMA OthersWait ==
    ASSUME Typed, NEW a \in Actors, Elsewhere(a), RowsStay, \A b \in Actors : Halfway(b),
           \A b \in Actors \ {a} : op'[b].stale = op[b].stale
    PROVE  \A b \in Actors \ {a} : Halfway(b)'
<1> SUFFICES ASSUME NEW b \in Actors \ {a} PROVE Halfway(b)'
  OBVIOUS
<1>1. op'[b].doc = op[b].doc
  BY DEF Elsewhere, SameJob
<1>2. \A id : HasOwn(id, op[b].doc) => HasOwn(id, op[b].doc)'
  BY <1>1 DEF HasOwn, RowsStay
<1>3. QED
  BY <1>2, OthersHalfway DEF RowsStay

LEMMA MentionsStay == ASSUME Mentioned, RowsStay PROVE Mentioned'
<1>1. \A id, d : HasOwn(id, d) => HasOwn(id, d)'
  BY DEF HasOwn, RowsStay
<1>2. QED
  BY <1>1 DEF Mentioned, RowsStay

LEMMA HalfwayNowhere ==
    ASSUME NEW a \in Actors, op'[a].pc \in {"idle", "begin", "reset", "done"}
    PROVE  Halfway(a)'
  BY DEF Halfway

LEMMA RowsStayOwn == ASSUME NEW a, RowsStay PROVE WritesOwn(a)
  BY DEF RowsStay, WritesOwn

LEMMA NothingMoves ==
    ASSUME Removal, RowsStay, UNCHANGED <<op, published, lost>>
    PROVE  Removal'
<1>1. Mentioned'
  BY MentionsStay DEF Removal
<1>2. \A id, d : HasOwn(id, d) => HasOwn(id, d)'
  BY DEF HasOwn, RowsStay
<1>3. \A a \in Actors : Halfway(a)'
  BY <1>2 DEF Removal, Halfway, RowsStay
<1>4. Cleared'
  BY DEF Removal, Cleared, NoNodeOf, NoEdgeOf, Settled, RowsStay
<1>5. QED
  BY <1>1, <1>3, <1>4 DEF Removal

-----------------------------------------------------------------------------
(* A removal: the beginning and the end of an operation. *)

LEMMA RemovalAtBegin ==
    ASSUME Typed, Removal, NEW a \in Actors, NEW d \in Docs, NEW new \in Parses \cup {NoParse},
           Begin(a, d, new)
    PROVE  Removal'
<1>1. /\ op[a].pc = "idle" /\ RowsStay /\ UNCHANGED <<published, lost>>
  BY DEF Begin, At, RowsStay, store, history
<1>2. /\ Moves(a, "begin") /\ op'[a].doc = d
      /\ \A b \in Actors \ {a} : op'[b].stale = op[b].stale
  BY BeginMoves
<1>3. Mentioned'
  BY <1>1, MentionsStay DEF Removal
<1>4. \A b \in Actors : Halfway(b)'
  BY <1>1, <1>2, OthersWait, HalfwayNowhere DEF Removal, Moves
<1>5. /\ op'[a].pc = "begin"
      /\ \A b \in Actors \ {a} : op'[b].pc = op[b].pc /\ op'[b].doc = op[b].doc /\ op'[b].new = op[b].new
  BY <1>2 DEF Moves, Elsewhere, SameJob
<1>6. \A c \in Docs : Settled(c)' => Settled(c)
  BY <1>1, <1>5 DEF Settled
<1>7. \A c : (NoNodeOf(c) => NoNodeOf(c)') /\ (NoEdgeOf(c) => NoEdgeOf(c)')
  BY <1>1 DEF NoNodeOf, NoEdgeOf, RowsStay
<1>8. Cleared'
  BY <1>1, <1>5, <1>6, <1>7 DEF Removal, Cleared
<1>9. QED
  BY <1>3, <1>4, <1>8 DEF Removal

LEMMA RemovalAtReturn ==
    ASSUME Typed, Removal, NEW a \in Actors, Return(a)
    PROVE  Removal'
<1>1. /\ op[a].pc = "done" /\ RowsStay /\ lost' = lost /\ Go(a, "idle")
      /\ published' = [published EXCEPT ![op[a].doc] = op[a].new]
  BY DEF Return, Ends, At, RowsStay, store, Idle
<1>2. Moves(a, "idle") /\ SameStale
  BY <1>1, Gone DEF Pcs
<1>3. Mentioned'
  BY <1>1, MentionsStay DEF Removal
<1>4. \A b \in Actors : Halfway(b)'
  BY <1>1, <1>2, OthersWait, HalfwayNowhere DEF Removal, Moves, SameStale
<1>5. /\ op'[a].pc = "idle"
      /\ \A b \in Actors \ {a} : op'[b].pc = op[b].pc /\ op'[b].doc = op[b].doc /\ op'[b].new = op[b].new
  BY <1>2 DEF Moves, Elsewhere, SameJob
<1>6. \A c : (NoNodeOf(c) => NoNodeOf(c)') /\ (NoEdgeOf(c) => NoEdgeOf(c)')
  BY <1>1 DEF NoNodeOf, NoEdgeOf, RowsStay
<1>7. ASSUME NEW c \in Docs, Settled(c)', published'[c] = NoParse, ~lost
      PROVE  NoNodeOf(c) /\ NoEdgeOf(c)
  <2>1. op[a].doc \in Docs
    BY <1>1 DEF Typed, Placed
  <2>2. CASE c = op[a].doc
    <3>1. op[a].new = NoParse
      BY <1>1, <1>7, <2>1, <2>2 DEF Typed, RowsTyped
    <3>2. QED
      BY <1>1, <1>7, <2>2, <3>1 DEF Removal, Cleared
  <2>3. CASE c # op[a].doc
    <3>1. published[c] = NoParse
      BY <1>1, <1>7, <2>1, <2>3 DEF Typed, RowsTyped
    <3>2. Settled(c)
      BY <1>5, <1>7, <2>3 DEF Settled
    <3>3. QED
      BY <1>7, <3>1, <3>2 DEF Removal, Cleared
  <2>4. QED
    BY <2>2, <2>3
<1>8. Cleared'
  BY <1>1, <1>5, <1>6, <1>7 DEF Removal, Cleared
<1>9. QED
  BY <1>3, <1>4, <1>8 DEF Removal

-----------------------------------------------------------------------------
(* A removal: the files. *)

LEMMA RemovalAtFileLoads ==
    ASSUME Typed, Removal, NEW a \in Actors, FileLoadNodes(a) \/ FileLoadEdges(a)
    PROVE  Removal'
<1>1. RowsStay /\ op[a].pc # "idle" /\ UNCHANGED <<published, lost>>
  BY DEF FileLoadNodes, FileLoadEdges, At, Idle, RowsStay, store, history
<1>2. Mentioned'
  BY <1>1, MentionsStay DEF Removal
<1>3. CASE FileLoadNodes(a)
  <2>1. /\ Moves(a, "edges") /\ SameJob(a) /\ op'[a].nodes = nodes
        /\ \A b \in Actors \ {a} : op'[b].stale = op[b].stale
    BY <1>3, FileLoadNodesMoves
  <2>2. Halfway(a)'
    BY <1>1, <2>1 DEF Halfway, Moves, RowsStay
  <2>3. \A b \in Actors : Halfway(b)'
    BY <1>1, <2>1, <2>2, OthersWait DEF Removal, Moves
  <2>4. Cleared'
    BY <1>1, <2>1, ClearedByStep, RowsStayOwn DEF Removal, Pcs
  <2>5. QED
    BY <1>2, <2>3, <2>4 DEF Removal
<1>4. CASE FileLoadEdges(a)
  <2>1. /\ Moves(a, "save") /\ SameJob(a) /\ op'[a].nodes = op[a].nodes /\ op'[a].edges = edges
        /\ SameStale /\ op[a].pc = "edges"
    BY <1>4, FileLoadEdgesMoves DEF FileLoadEdges, At
  <2>2. Halfway(a)'
    BY <1>1, <2>1 DEF Removal, Halfway, Moves, RowsStay, SameStale
  <2>3. \A b \in Actors : Halfway(b)'
    BY <1>1, <2>1, <2>2, OthersWait DEF Removal, Moves, SameStale
  <2>4. Cleared'
    BY <1>1, <2>1, ClearedByStep, RowsStayOwn DEF Removal, Pcs
  <2>5. QED
    BY <1>2, <2>3, <2>4 DEF Removal
<1>5. QED
  BY <1>3, <1>4

LEMMA RemovalAtFileSaves ==
    ASSUME Typed, Removal, NEW a \in Actors, FileSaveNodes(a) \/ FileSaveEdges(a)
    PROVE  Removal'
<1>1. /\ backend = "filesystem" /\ op[a].pc # "idle" /\ UNCHANGED <<backend, published, mentions, shared>>
      /\ lost' = (lost \/ op[a].stale)
  BY DEF FileSaveNodes, FileSaveEdges, At, Idle
<1>2. Mentioned'
  BY <1>1 DEF Mentioned
<1>3. \A b \in Actors \ {a} : op[b].pc \notin {"merge", "drop"}
  BY <1>1 DEF Typed, Placed
<1>4. ~lost' => ~lost /\ ~op[a].stale
  BY <1>1 DEF Typed, Operations
<1>5. CASE FileSaveNodes(a)
  <2>1. /\ Saved(a, "save edges") /\ op[a].pc = "save" /\ edges' = edges
        /\ nodes' = MergedNodes(op[a].nodes, op[a].doc, op[a].new)
    BY <1>5 DEF FileSaveNodes, At
  <2>2. /\ Moves(a, "save edges") /\ SameJob(a) /\ SameCopies(a) /\ op'[a].stale = op[a].stale
        /\ \A b \in Actors \ {a} : op'[b].stale = (op[b].pc \in {"edges", "save", "save edges"})
    BY <2>1, SavedMoves DEF Pcs
  <2>3. Halfway(a)'
    BY <2>1, <2>2 DEF Removal, Halfway, Moves, SameCopies
  <2>4. \A b \in Actors : Halfway(b)'
    BY <1>3, <2>2, <2>3, OthersHalfway DEF Removal, Moves
  <2>5. ~lost' => op[a].nodes = nodes
    BY <1>4, <2>1 DEF Removal, Halfway
  <2>6. ~lost' => WritesOwn(a)
    BY <1>1, <2>1, <2>5, NodesAreOwn DEF WritesOwn, MergedNodes, Others
  <2>7. op[a].new = NoParse => NoNodeOf(op[a].doc)'
    BY <2>1, <2>2 DEF NoNodeOf, MergedNodes, Others, NodesOf, SameJob
  <2>8. Cleared'
    BY <1>1, <1>4, <2>2, <2>6, <2>7, ClearedByStep DEF Removal, Pcs
  <2>9. QED
    BY <1>2, <2>4, <2>8 DEF Removal
<1>6. CASE FileSaveEdges(a)
  <2>1. /\ Saved(a, "done") /\ op[a].pc = "save edges" /\ nodes' = nodes
        /\ edges' = MergedEdges(op[a].edges, op[a].doc, op[a].new)
    BY <1>6 DEF FileSaveEdges, At
  <2>2. /\ Moves(a, "done") /\ SameJob(a)
        /\ \A b \in Actors \ {a} : op'[b].stale = (op[b].pc \in {"edges", "save", "save edges"})
    BY <2>1, SavedMoves DEF Pcs
  <2>3. Halfway(a)'
    BY <2>2, HalfwayNowhere DEF Moves
  <2>4. \A b \in Actors : Halfway(b)'
    BY <1>3, <2>2, <2>3, OthersHalfway DEF Removal, Moves
  <2>5. ~lost' => op[a].edges = edges
    BY <1>4, <2>1 DEF Removal, Halfway
  <2>6. ~lost' => WritesOwn(a)
    BY <1>1, <2>1, <2>5, EdgesAreOwn DEF WritesOwn, MergedEdges, Others
  <2>7. ~lost' /\ op[a].new = NoParse => NoNodeOf(op[a].doc)'
    BY <1>1, <1>4, <2>1, <2>2 DEF Removal, Cleared, NoNodeOf, SameJob
  <2>8. op[a].new = NoParse => NoEdgeOf(op[a].doc)'
    BY <2>1, <2>2 DEF NoEdgeOf, MergedEdges, Others, EdgesOf, SameJob
  <2>9. Cleared'
    BY <1>1, <1>4, <2>2, <2>6, <2>7, <2>8, ClearedByStep DEF Removal, Pcs
  <2>10. QED
    BY <1>2, <2>4, <2>9 DEF Removal
<1>7. QED
  BY <1>5, <1>6

-----------------------------------------------------------------------------
(* A removal: the transactions. *)

LEMMA RemovalAtPostgres ==
    ASSUME Typed, Removal, NEW a \in Actors, PostgresCommit(a) \/ PostgresReset(a)
    PROVE  Removal'
<1>1. /\ backend = "postgres" /\ op[a].pc # "idle" /\ UNCHANGED <<backend, mentions, published, shared, lost>>
  BY DEF PostgresCommit, PostgresReset, At, Idle, store, history
<1>2. Mentioned'
  BY <1>1 DEF Mentioned
<1>3. \A b \in Actors \ {a} : op[b].pc \notin {"merge", "drop", "edges", "save", "save edges"}
  BY <1>1 DEF Typed, Placed
<1>4. CASE PostgresCommit(a)
  <2>1. /\ Go(a, "reset")
        /\ nodes' = Others(nodes, op[a].doc) \cup NodesOf(op[a].new, op[a].doc)
        /\ edges' = Others(edges, op[a].doc) \cup EdgesOf(op[a].new, op[a].doc)
    BY <1>4 DEF PostgresCommit
  <2>2. Moves(a, "reset") /\ SameJob(a)
    BY <2>1, Gone DEF Pcs
  <2>3. \A b \in Actors : Halfway(b)'
    BY <1>3, <2>2, OthersHalfway, HalfwayNowhere DEF Removal, Moves
  <2>4. WritesOwn(a)
    BY <1>1, <2>1, NodesAreOwn, EdgesAreOwn DEF WritesOwn, Others
  <2>5. op[a].new = NoParse => NoNodeOf(op[a].doc)' /\ NoEdgeOf(op[a].doc)'
    BY <2>1, <2>2 DEF NoNodeOf, NoEdgeOf, Others, NodesOf, EdgesOf, SameJob
  <2>6. Cleared'
    BY <1>1, <2>2, <2>4, <2>5, ClearedByStep DEF Removal, Pcs
  <2>7. QED
    BY <1>2, <2>3, <2>6 DEF Removal
<1>5. CASE PostgresReset(a)
  <2>1. Go(a, "done") /\ RowsStay /\ op[a].pc = "reset"
    BY <1>5 DEF PostgresReset, RowsStay, store, history, Idle, At
  <2>2. Moves(a, "done") /\ SameJob(a)
    BY <2>1, Gone DEF Pcs
  <2>3. \A b \in Actors : Halfway(b)'
    BY <1>3, <2>2, OthersHalfway, HalfwayNowhere DEF Removal, Moves
  <2>4. op[a].new = NoParse /\ ~lost => NoNodeOf(op[a].doc)' /\ NoEdgeOf(op[a].doc)'
    BY <2>1, <2>2 DEF Removal, Cleared, NoNodeOf, NoEdgeOf, RowsStay, SameJob
  <2>5. Cleared'
    BY <1>1, <2>1, <2>2, <2>4, ClearedByStep, RowsStayOwn DEF Removal, Pcs
  <2>6. QED
    BY <1>2, <2>3, <2>5 DEF Removal
<1>6. QED
  BY <1>4, <1>5

-----------------------------------------------------------------------------
(* A removal: Neo4j. *)

LEMMA RemovalAtMergeDocument ==
    ASSUME Typed, Removal, NEW a \in Actors, Neo4jMergeDocument(a)
    PROVE  Removal'
<1>1. RowsStay /\ op[a].pc # "idle" /\ op[a].new # NoParse /\ UNCHANGED <<published, lost>>
  BY DEF Neo4jMergeDocument, At, Idle, RowsStay, store, history
<1>2. /\ Moves(a, "merge") /\ SameJob(a) /\ SameStale
      /\ op'[a].nodes = NodesOf(op[a].new, op[a].doc)
      /\ op'[a].edges = EdgesOf(op[a].new, op[a].doc)
  BY Neo4jMergeDocumentMoves
<1>3. Mentioned'
  BY <1>1, MentionsStay DEF Removal
<1>4. Halfway(a)'
  BY <1>1, <1>2 DEF Halfway, Moves, SameJob
<1>5. \A b \in Actors : Halfway(b)'
  BY <1>1, <1>2, <1>4, OthersWait DEF Removal, Moves, SameStale
<1>6. Cleared'
  BY <1>1, <1>2, ClearedByStep, RowsStayOwn DEF Removal, Pcs
<1>7. QED
  BY <1>3, <1>5, <1>6 DEF Removal

(* A node that is merged takes the place of the one with its identity, and is
   of the document in hand; the document of that one keeps a share in it. *)
LEMMA RemovalAtMergeNode ==
    ASSUME Typed, Removal, NEW a \in Actors, Neo4jMergeNode(a)
    PROVE  Removal'
<1> DEFINE held(n) == {m \in nodes : m.id = n.id /\ (m.doc # n.doc \/ \E d \in Docs \ {n.doc} : <<d, n.id>> \in mentions)}
<1>1. PICK n \in op[a].nodes :
          /\ At(a, "merge") /\ op' = [op EXCEPT ![a].nodes = @ \ {n}]
          /\ nodes' = {m \in nodes : m.id # n.id} \cup {n}
          /\ mentions' = mentions \cup {<<n.doc, n.id>>}
          /\ shared' = shared \cup Ids(held(n))
          /\ UNCHANGED <<backend, edges, published, lost>>
  BY DEF Neo4jMergeNode, Idle
<1>2. op[a].pc = "merge" /\ backend = "neo4j"
  BY <1>1 DEF At, Typed, Placed
<1>3. /\ op[a].new # NoParse /\ n \in NodesOf(op[a].new, op[a].doc)
      /\ n.doc = op[a].doc /\ n.doc \in Docs
  <2>1. op[a].new # NoParse /\ n \in NodesOf(op[a].new, op[a].doc)
    BY <1>1, <1>2 DEF Removal, Halfway
  <2>2. n.doc = op[a].doc /\ op[a].doc \in Docs
    BY <2>1, <1>2, NodesAreOwn DEF Typed, Placed
  <2>3. QED
    BY <2>1, <2>2
<1>4. /\ Moves(a, "merge") /\ SameJob(a) /\ SameStale
      /\ op'[a].nodes = op[a].nodes \ {n} /\ op'[a].edges = op[a].edges
  BY <1>1, Neo4jMergeNodeMoves
<1>5. /\ shared \subseteq shared'
      /\ \A y \in nodes : y.id = n.id /\ y.doc # n.doc => n.id \in shared'
      /\ \A y \in nodes, d \in Docs \ {n.doc} :
             y.id = n.id /\ <<d, n.id>> \in mentions => n.id \in shared'
  BY <1>1 DEF Ids
<1>6. ASSUME NEW id, NEW d, HasOwn(id, d)
      PROVE  HasOwn(id, d)'
  <2>1. CASE id \in shared
    BY <2>1, <1>5 DEF HasOwn
  <2>2. ASSUME NEW y \in nodes, y.id = id, y.doc = d
        PROVE  HasOwn(id, d)'
    <3>1. CASE id # n.id
      BY <1>1, <2>2, <3>1 DEF HasOwn
    <3>2. CASE id = n.id /\ n.doc = d
      BY <1>1, <3>2 DEF HasOwn
    <3>3. CASE id = n.id /\ n.doc # d
      BY <1>5, <2>2, <3>3 DEF HasOwn
    <3>4. QED
      BY <3>1, <3>2, <3>3
  <2>3. QED
    BY <1>6, <2>1, <2>2 DEF HasOwn
<1>7. Mentioned'
  <2>0. /\ \A m \in mentions : m[1] \in Docs /\ m = <<m[1], m[2]>> /\ \E y \in nodes : y.id = m[2]
        /\ \A m \in mentions, y \in nodes : y.id = m[2] => y.doc = m[1] \/ y.id \in shared
        /\ \A e \in edges : \A id \in e.ends : HasOwn(id, e.doc)
    BY <1>2 DEF Removal, Mentioned
  <2>1. ASSUME NEW m \in mentions'
        PROVE  m[1] \in Docs /\ m = <<m[1], m[2]>> /\ \E y \in nodes' : y.id = m[2]
    <3>1. CASE m = <<n.doc, n.id>>
      BY <1>1, <1>3, <3>1
    <3>2. CASE m \in mentions
      <4>1. PICK y \in nodes : y.id = m[2]
        BY <2>0, <3>2
      <4>2. \E x \in nodes' : x.id = m[2]
        BY <1>1, <4>1
      <4>3. QED
        BY <2>0, <3>2, <4>2
    <3>3. QED
      BY <1>1, <3>1, <3>2
  <2>2. ASSUME NEW m \in mentions', NEW x \in nodes', x.id = m[2]
        PROVE  x.doc = m[1] \/ x.id \in shared'
    <3>1. CASE x = n
      <4>1. CASE m[1] = n.doc
        BY <3>1, <4>1
      <4>2. CASE m[1] # n.doc
        <5>1. m \in mentions
          BY <1>1, <4>2
        <5>2. PICK y \in nodes : y.id = m[2]
          BY <2>0, <5>1
        <5>3. m[1] \in Docs \ {n.doc} /\ <<m[1], n.id>> \in mentions /\ y.id = n.id
          BY <2>0, <2>2, <3>1, <4>2, <5>1, <5>2
        <5>4. QED
          BY <1>5, <3>1, <5>3
      <4>3. QED
        BY <4>1, <4>2
    <3>2. CASE x # n
      <4>1. x \in nodes /\ x.id # n.id
        BY <1>1, <3>2
      <4>2. m \in mentions
        BY <1>1, <2>2, <4>1
      <4>3. QED
        BY <2>0, <2>2, <4>1, <4>2, <1>5
    <3>3. QED
      BY <3>1, <3>2
  <2>3. \A e \in edges' : \A id \in e.ends : HasOwn(id, e.doc)'
    BY <1>1, <1>6, <2>0
  <2>4. QED
    BY <2>1, <2>2, <2>3 DEF Mentioned, HasOwn
<1>8. Halfway(a)'
  <2>1. op'[a].pc = "merge" /\ op'[a].new = op[a].new /\ op'[a].doc = op[a].doc
    BY <1>4 DEF Moves, SameJob
  <2>2. ASSUME NEW x \in NodesOf(op[a].new, op[a].doc) \ op'[a].nodes
        PROVE  HasOwn(x.id, op[a].doc)'
    <3>1. CASE x = n
      BY <1>1, <1>3, <2>1, <3>1 DEF HasOwn
    <3>2. CASE x # n
      <4>1. HasOwn(x.id, op[a].doc)
        BY <1>2, <1>4, <2>2, <3>2 DEF Removal, Halfway
      <4>2. QED
        BY <1>6, <2>1, <4>1
    <3>3. QED
      BY <3>1, <3>2
  <2>3. op'[a].nodes \subseteq NodesOf(op[a].new, op[a].doc)
        /\ op'[a].edges \subseteq EdgesOf(op[a].new, op[a].doc)
    BY <1>2, <1>4 DEF Removal, Halfway
  <2>4. QED
    BY <1>3, <2>1, <2>2, <2>3 DEF Halfway
<1>9. ASSUME NEW b \in Actors \ {a}
      PROVE  Halfway(b)'
  <2>1. op'[b].doc = op[b].doc /\ op'[b].stale = op[b].stale
    BY <1>4 DEF Moves, Elsewhere, SameJob, SameStale
  <2>2. \A id : HasOwn(id, op[b].doc) => HasOwn(id, op[b].doc)'
    BY <1>6, <2>1
  <2>3. op[b].pc = "drop" => \A m \in mentions' : m \in mentions \/ m[1] # op[b].doc
    BY <1>1, <1>2, <1>3 DEF Typed, Apart
  <2>4. op[b].pc \notin {"edges", "save", "save edges"}
    BY <1>2 DEF Typed, Placed
  <2>5. QED
    BY <1>4, <2>2, <2>3, <2>4, OthersHalfway DEF Removal, Moves
<1>10. WritesOwn(a)
  BY <1>1, <1>3, <1>5 DEF WritesOwn
<1>11. Cleared'
  BY <1>1, <1>2, <1>4, <1>10, ClearedByStep DEF Removal, Pcs
<1>12. QED
  BY <1>7, <1>8, <1>9, <1>11 DEF Removal

(* An edge is only merged between entities that are there, and when its document
   has merged all of its nodes: by then it has, or shares, both ends. *)
LEMMA RemovalAtMergeEdge ==
    ASSUME Typed, Removal, NEW a \in Actors, Neo4jMergeEdge(a)
    PROVE  Removal'
<1>1. PICK e \in op[a].edges :
          /\ At(a, "merge") /\ op[a].nodes = {} /\ op' = [op EXCEPT ![a].edges = @ \ {e}]
          /\ edges' = IF e.ends \subseteq Ids(nodes)
                      THEN {f \in edges : f.ends # e.ends} \cup {e} ELSE edges
          /\ UNCHANGED <<backend, nodes, mentions, shared, published, lost>>
  BY DEF Neo4jMergeEdge, Idle, history
<1>2. op[a].pc = "merge" /\ backend = "neo4j"
  BY <1>1 DEF At, Typed, Placed
<1>3. e \in EdgesOf(op[a].new, op[a].doc) /\ op[a].new # NoParse /\ op[a].new \in Parses
      /\ op[a].doc \in Docs /\ e.doc = op[a].doc
  <2>1. e \in EdgesOf(op[a].new, op[a].doc) /\ op[a].new # NoParse
    BY <1>1, <1>2 DEF Removal, Halfway
  <2>2. op[a].new \in Parses \cup {NoParse} /\ op[a].doc \in Docs
    BY <1>2 DEF Typed, Placed, Operations
  <2>3. QED
    BY <2>1, <2>2, EdgesAreOwn
<1>4. /\ Moves(a, "merge") /\ SameJob(a) /\ SameStale
      /\ op'[a].edges = op[a].edges \ {e} /\ op'[a].nodes = op[a].nodes
  BY <1>1, Neo4jMergeEdgeMoves
<1>5. \A id, d : HasOwn(id, d) => HasOwn(id, d)'
  BY <1>1 DEF HasOwn
<1>6. \A id \in e.ends : HasOwn(id, e.doc)
  <2>1. \A n \in NodesOf(op[a].new, op[a].doc) : HasOwn(n.id, op[a].doc)
    BY <1>1, <1>2 DEF Removal, Halfway
  <2>2. e.ends \subseteq Ids(NodesOf(op[a].new, op[a].doc))
    BY <1>3, EdgesJoinNodes
  <2>3. QED
    BY <1>3, <2>1, <2>2 DEF Ids
<1>7. Mentioned'
  <2>0. /\ \A m \in mentions : m[1] \in Docs /\ m = <<m[1], m[2]>> /\ \E y \in nodes : y.id = m[2]
        /\ \A m \in mentions, y \in nodes : y.id = m[2] => y.doc = m[1] \/ y.id \in shared
        /\ \A f \in edges : \A id \in f.ends : HasOwn(id, f.doc)
    BY <1>2 DEF Removal, Mentioned
  <2>1. \A f \in edges' : f \in edges \/ f = e
    BY <1>1
  <2>2. \A f \in edges' : \A id \in f.ends : HasOwn(id, f.doc)'
    BY <1>5, <1>6, <2>0, <2>1
  <2>3. QED
    BY <1>1, <2>0, <2>2 DEF Mentioned
<1>8. Halfway(a)'
  <2>1. op'[a].pc = "merge" /\ op'[a].new = op[a].new /\ op'[a].doc = op[a].doc
        /\ op'[a].edges \subseteq op[a].edges
    BY <1>4 DEF Moves, SameJob
  <2>2. QED
    BY <1>2, <1>3, <1>4, <1>5, <2>1 DEF Removal, Halfway
<1>9. ASSUME NEW b \in Actors \ {a}
      PROVE  Halfway(b)'
  <2>1. op'[b].doc = op[b].doc /\ op'[b].stale = op[b].stale
    BY <1>4 DEF Moves, Elsewhere, SameJob, SameStale
  <2>2. \A id : HasOwn(id, op[b].doc) => HasOwn(id, op[b].doc)'
    BY <1>5, <2>1
  <2>3. op[b].pc \notin {"edges", "save", "save edges"}
    BY <1>2 DEF Typed, Placed
  <2>4. QED
    BY <1>1, <1>4, <2>2, <2>3, OthersHalfway DEF Removal, Moves
<1>10. WritesOwn(a)
  BY <1>1, <1>3 DEF WritesOwn
<1>11. Cleared'
  BY <1>1, <1>2, <1>4, <1>10, ClearedByStep DEF Removal, Pcs
<1>12. QED
  BY <1>7, <1>8, <1>9, <1>11 DEF Removal

LEMMA RemovalAtMerged ==
    ASSUME Typed, Removal, NEW a \in Actors, Neo4jMerged(a)
    PROVE  Removal'
<1>1. RowsStay /\ op[a].pc = "merge" /\ Go(a, "done") /\ UNCHANGED <<published, lost>>
  BY DEF Neo4jMerged, At, Idle, RowsStay, store, history
<1>2. op[a].new # NoParse
  BY <1>1 DEF Removal, Halfway
<1>3. Moves(a, "done") /\ SameJob(a) /\ SameStale
  BY <1>1, Gone DEF Pcs
<1>4. Mentioned'
  BY <1>1, MentionsStay DEF Removal
<1>5. \A b \in Actors : Halfway(b)'
  BY <1>1, <1>3, OthersWait, HalfwayNowhere DEF Removal, Moves, SameStale
<1>6. Cleared'
  BY <1>1, <1>2, <1>3, ClearedByStep, RowsStayOwn DEF Removal, Pcs
<1>7. QED
  BY <1>4, <1>5, <1>6 DEF Removal

LEMMA RemovalAtRemoveDocument ==
    ASSUME Typed, Removal, NEW a \in Actors, Neo4jRemoveDocument(a)
    PROVE  Removal'
<1>1. /\ backend = "neo4j" /\ op[a].pc # "idle" /\ op[a].new = NoParse /\ Go(a, "drop")
      /\ mentions' = {m \in mentions : m[1] # op[a].doc}
      /\ UNCHANGED <<backend, nodes, edges, shared, published, lost>>
  BY DEF Neo4jRemoveDocument, At, Idle, history
<1>2. Moves(a, "drop") /\ SameJob(a) /\ SameStale
  BY <1>1, Gone DEF Pcs
<1>3. \A id, d : HasOwn(id, d) => HasOwn(id, d)'
  BY <1>1 DEF HasOwn
<1>4. Mentioned'
  BY <1>1, <1>3 DEF Removal, Mentioned
<1>5. Halfway(a)'
  BY <1>1, <1>2 DEF Halfway, Moves, SameJob
<1>6. ASSUME NEW b \in Actors \ {a}
      PROVE  Halfway(b)'
  <2>1. op'[b].doc = op[b].doc /\ op'[b].stale = op[b].stale
    BY <1>2 DEF Moves, Elsewhere, SameJob, SameStale
  <2>2. \A id : HasOwn(id, op[b].doc) => HasOwn(id, op[b].doc)'
    BY <1>3, <2>1
  <2>3. op[b].pc \notin {"edges", "save", "save edges"}
    BY <1>1 DEF Typed, Placed
  <2>4. QED
    BY <1>1, <1>2, <2>2, <2>3, OthersHalfway DEF Removal, Moves
<1>7. WritesOwn(a)
  BY <1>1 DEF WritesOwn
<1>8. Cleared'
  BY <1>1, <1>2, <1>7, ClearedByStep DEF Removal, Pcs
<1>9. QED
  BY <1>4, <1>5, <1>6, <1>8 DEF Removal

(* What a removal leaves of its document is shared: an entity it wrote last and
   did not share is mentioned by nobody, and goes with its edges. *)
LEMMA RemovalAtRemoveEntities ==
    ASSUME Typed, Removal, NEW a \in Actors, Neo4jRemoveEntities(a)
    PROVE  Removal'
<1> DEFINE gone == Unmentioned(op[a].doc)
<1>1. /\ op[a].pc = "drop" /\ Go(a, "done")
      /\ nodes' = nodes \ gone /\ edges' = {e \in edges : e.ends \cap Ids(gone) = {}}
      /\ UNCHANGED <<backend, mentions, shared, published, lost>>
  BY DEF Neo4jRemoveEntities, At, Idle, history
<1>2. /\ backend = "neo4j" /\ op[a].new = NoParse /\ \A m \in mentions : m[1] # op[a].doc
      /\ \A m \in mentions : m[1] \in Docs /\ m = <<m[1], m[2]>> /\ \E n \in nodes : n.id = m[2]
      /\ \A m \in mentions, n \in nodes : n.id = m[2] => n.doc = m[1] \/ n.id \in shared
      /\ \A e \in edges : \A id \in e.ends : HasOwn(id, e.doc)
  BY <1>1 DEF Typed, Placed, Removal, Mentioned, Halfway
<1>3. Moves(a, "done") /\ SameJob(a) /\ SameStale
  BY <1>1, Gone DEF Pcs
<1>4. \A n \in gone : n.doc = op[a].doc /\ \A m \in mentions : m[2] # n.id
  BY DEF Unmentioned
<1>5. \A n \in nodes : n.doc = op[a].doc /\ n.id \notin shared => n \in gone
  BY <1>2 DEF Unmentioned
<1> HIDE DEF gone
<1>6. ASSUME NEW id, NEW d, HasOwn(id, d), d # op[a].doc
      PROVE  HasOwn(id, d)'
  BY <1>1, <1>4, <1>6 DEF HasOwn
<1>7. \A e \in edges' : \A id \in e.ends : HasOwn(id, e.doc)'
  <2> SUFFICES ASSUME NEW e \in edges', NEW id \in e.ends, id \notin shared
               PROVE  \E n \in nodes' : n.id = id /\ n.doc = e.doc
    BY <1>1 DEF HasOwn
  <2>1. PICK n \in nodes : n.id = id /\ n.doc = e.doc
    BY <1>1, <1>2 DEF HasOwn
  <2>2. n \notin gone
    BY <1>1, <2>1 DEF Ids
  <2>3. QED
    BY <1>1, <2>1, <2>2
<1>8. \A m \in mentions' : m[1] \in Docs /\ m = <<m[1], m[2]>> /\ \E n \in nodes' : n.id = m[2]
  BY <1>1, <1>2, <1>4
<1>9. Mentioned'
  BY <1>1, <1>2, <1>7, <1>8 DEF Mentioned
<1>10. ASSUME NEW b \in Actors \ {a}
       PROVE  Halfway(b)'
  <2>1. op'[b].doc = op[b].doc /\ op'[b].stale = op[b].stale
    BY <1>3 DEF Moves, Elsewhere, SameJob, SameStale
  <2>2. op[b].pc # "idle" => op[b].doc # op[a].doc
    BY <1>1 DEF Typed, Apart
  <2>3. op[b].pc # "idle" => \A id : HasOwn(id, op[b].doc) => HasOwn(id, op[b].doc)'
    BY <1>6, <2>1, <2>2
  <2>4. op[b].pc \notin {"edges", "save", "save edges"}
    BY <1>2 DEF Typed, Placed
  <2>5. QED
    BY <1>1, <1>3, <2>3, <2>4, OthersHalfway DEF Removal, Moves
<1>11. Halfway(a)'
  BY <1>3, HalfwayNowhere DEF Moves
<1>12. WritesOwn(a)
  BY <1>1 DEF WritesOwn
<1>13. NoNodeOf(op[a].doc)'
  BY <1>1, <1>3, <1>5 DEF NoNodeOf, SameJob
<1>14. NoEdgeOf(op[a].doc)'
  <2> SUFFICES ASSUME NEW e \in edges', e.doc = op[a].doc, NEW id \in e.ends, id \notin shared
               PROVE  FALSE
    BY <1>1, <1>3 DEF NoEdgeOf, SameJob
  <2>1. PICK n \in nodes : n.id = id /\ n.doc = e.doc
    BY <1>1, <1>2 DEF HasOwn
  <2>2. n \in gone
    BY <1>5, <2>1
  <2>3. QED
    BY <1>1, <2>1, <2>2 DEF Ids
<1>15. Cleared'
  BY <1>1, <1>3, <1>12, <1>13, <1>14, ClearedByStep DEF Removal, Pcs
<1>16. QED
  BY <1>9, <1>10, <1>11, <1>15 DEF Removal

LEMMA RemovalIsKept == Typed /\ Removal /\ [Next]_vars => Removal'
<1> SUFFICES ASSUME Typed, Removal, [Next]_vars PROVE Removal'
  OBVIOUS
<1>1. ASSUME NEW a \in Actors, Work(a)
      PROVE  Removal'
  BY <1>1, RemovalAtFileLoads, RemovalAtFileSaves, RemovalAtPostgres, RemovalAtMergeDocument,
     RemovalAtMergeNode, RemovalAtMergeEdge, RemovalAtMerged, RemovalAtRemoveDocument,
     RemovalAtRemoveEntities, RemovalAtReturn DEF Work
<1>2. ASSUME NEW a \in Actors, NEW d \in Docs, NEW new \in Parses \cup {NoParse}, Begin(a, d, new)
      PROVE  Removal'
  BY <1>2, RemovalAtBegin
<1>3. ASSUME RefreshNodes \/ RefreshEdges \/ RefreshStore \/ CacheExpires \/ UNCHANGED vars
      PROVE  Removal'
  <2>1. RowsStay /\ UNCHANGED <<op, published, lost>>
    BY <1>3 DEF RefreshNodes, RefreshEdges, RefreshStore, CacheExpires, vars, RowsStay, store,
                history, Idle
  <2>2. QED
    BY <2>1, NothingMoves
<1>4. QED
  BY <1>1, <1>2, <1>3 DEF Next

(* When a document has been removed and nothing is under way for it, no node and
   no edge of it is left, whichever the backend: remove_doc_from_kg takes them
   out of both files unless another save overlapped it, the transaction of
   PostgreSQL takes out both, and remove_document of Neo4j leaves only what the
   document shared with another. *)
THEOREM RemovalLeavesNothing == Spec => []RemovedIsGone
<1>1. Init => Typed /\ Removal
  <2>1. Init => \A a \in Actors : op[a].pc = "idle"
    <3>1. NoOp.pc = "idle"
      BY DEF NoOp
    <3>2. QED
      BY <3>1 DEF Init
  <2>2. Init => nodes = {} /\ edges = {} /\ mentions = {}
    BY DEF Init
  <2>3. QED
    BY <2>1, <2>2, TypedAtFirst DEF Removal, Mentioned, Halfway, Cleared, NoNodeOf, NoEdgeOf
<1>2. Typed /\ Removal /\ [Next]_vars => (Typed /\ Removal)'
  BY TypedIsKept, RemovalIsKept
<1>3. Removal => RemovedIsGone
  BY DEF Removal, Cleared, RemovedIsGone, NoNodeOf, NoEdgeOf
<1>4. QED
  BY <1>1, <1>2, <1>3, PTL DEF Spec

-----------------------------------------------------------------------------
(* What build_kg makes: its edges have ends and a page, its nodes an identity. *)

LEMMA EdgesHaveEnds ==
    ASSUME NEW parse, NEW d, NEW e \in EdgesOf(parse, d)
    PROVE  (\E id : id \in e.ends) /\ e.page \in DOMAIN parse
<1>1. e \in BuildEdges(parse, d)
  BY DEF EdgesOf
<1> DEFINE pages == SelectSeq(parse, LAMBDA page : page # <<>>)
           onPage(p) == {[ends |-> {NodeId(parse, name) : name \in pair}, doc |-> d, page |-> p] :
                             pair \in PairsOf(pages, FirstMentions(parse[p]))}
<1>2. BuildEdges(parse, d) = UNION {onPage(p) : p \in DOMAIN parse}
  BY DEF BuildEdges
<1>3. PICK p \in DOMAIN parse : e \in onPage(p)
  BY <1>1, <1>2
<1> DEFINE ordered == FirstMentions(parse[p])
           edge(pair) == [ends |-> {NodeId(parse, name) : name \in pair}, doc |-> d, page |-> p]
<1>4. PICK pair \in PairsOf(pages, ordered) : e = edge(pair)
  BY <1>3
<1>5. e.page = p /\ e.ends = {NodeId(parse, name) : name \in pair}
  BY <1>4
<1> HIDE DEF pages, ordered
<1>6. \E name : name \in pair
  BY <1>4 DEF PairsOf
<1>7. QED
  BY <1>5, <1>6

LEMMA NodesDiffer ==
    ASSUME NEW parse, NEW d, NEW n \in NodesOf(parse, d), NEW m \in NodesOf(parse, d), n.id = m.id
    PROVE  n = m
<1> DEFINE at(name) == CHOOSE i \in DOMAIN parse[FirstPage(parse, name)] :
                           /\ parse[FirstPage(parse, name)][i] = name
                           /\ \A j \in 1..(i - 1) : parse[FirstPage(parse, name)][j] # name
           node(name) == [id |-> NodeId(parse, name), name |-> name, doc |-> d, at |-> at(name)]
<1>1. BuildNodes(parse, d) = {node(name) : name \in ToSet(Entities(parse))}
  BY DEF BuildNodes
<1> HIDE DEF at
<1>2. PICK x : n = node(x)
  BY <1>1 DEF NodesOf
<1>3. PICK y : m = node(y)
  BY <1>1 DEF NodesOf
<1>4. NodeId(parse, x) = NodeId(parse, y)
  BY <1>2, <1>3
<1>5. x = y
  BY <1>4 DEF NodeId
<1>6. QED
  BY <1>2, <1>3, <1>5

LEMMA PairsAreCovered ==
    ASSUME NEW given, \A e \in given : e.page \in Nat, NEW e \in given
    PROVE  \E f \in FirstOfPair(given) : f.ends = e.ends
<1> DEFINE pages == {f.page : f \in {g \in given : g.ends = e.ends}}
<1>1. pages \subseteq Nat /\ pages # {}
  OBVIOUS
<1> DEFINE R == {ss \in Nat \X Nat : ss[1] < ss[2]}
<1>2. IsWellFoundedOn(R, Nat)
  BY NatLessThanWellFounded DEF OpToRel
<1>3. PICK k \in pages : \A j \in pages : <<j, k>> \notin R
  <2> HIDE DEF R, pages
  <2> QED
    BY <1>1, <1>2, WFMin
<1>m. ASSUME NEW j \in pages PROVE k <= j
  <2>1. j \in Nat /\ k \in Nat /\ <<j, k>> \in Nat \X Nat /\ <<j, k>> \notin R
    BY <1>1, <1>3
  <2>2. QED
    BY <2>1
<1>4. PICK f \in given : f.ends = e.ends /\ f.page = k
  BY <1>3
<1>5. f \in FirstOfPair(given)
  BY <1>m, <1>4 DEF FirstOfPair
<1>6. QED
  BY <1>4, <1>5

-----------------------------------------------------------------------------
(* What is kept: what the steps have in common. *)

(* Documents other than the one in hand keep what they have. *)
Keeps(a) ==
    \A d, parse : d # op[a].doc =>
        /\ HasNodes(d, parse) => HasNodes(d, parse)'
        /\ HasEdges(d, parse) => HasEdges(d, parse)'
KeepsLinks(a) ==
    \A d, given : d # op[a].doc =>
        /\ IsMentioned(d, given) => IsMentioned(d, given)'
        /\ IsLinked(d, given) => IsLinked(d, given)'

LEMMA LinksAreAll ==
    ASSUME NEW a, backend = "neo4j", backend' = backend, KeepsLinks(a)
    PROVE  Keeps(a)
  BY DEF Keeps, KeepsLinks, HasNodes, HasEdges

LEMMA NothingLost ==
    ASSUME RowsStay, hidden' = hidden
    PROVE  /\ \A d, parse : (HasNodes(d, parse) <=> HasNodes(d, parse)') /\ (HasEdges(d, parse) <=> HasEdges(d, parse)')
           /\ \A d, given : (IsMentioned(d, given) <=> IsMentioned(d, given)') /\ (IsLinked(d, given) <=> IsLinked(d, given)')
           /\ \A a : Keeps(a) /\ KeepsLinks(a)
<1>1. \A d, given : IsMentioned(d, given) <=> IsMentioned(d, given)'
  BY DEF IsMentioned, RowsStay
<1>2. \A d, given : IsLinked(d, given) <=> IsLinked(d, given)'
  BY DEF IsLinked, RowsStay
<1>3. \A d, parse : HasNodes(d, parse) <=> HasNodes(d, parse)'
  BY <1>1 DEF HasNodes, RowsStay, RowsOf
<1>4. \A d, parse : HasEdges(d, parse) <=> HasEdges(d, parse)'
  BY <1>2 DEF HasEdges, RowsStay, RowsOf
<1>5. QED
  BY <1>1, <1>2, <1>3, <1>4 DEF Keeps, KeepsLinks

LEMMA OtherRowsAreKept ==
    ASSUME NEW a, backend # "neo4j", backend' = backend,
           \A d : d # op[a].doc => /\ RowsOf(nodes, d)' = RowsOf(nodes, d)
                                   /\ RowsOf(edges, d)' = RowsOf(edges, d)
                                   /\ RowsOf(hidden, d)' = RowsOf(hidden, d)
    PROVE  Keeps(a)
<1> SUFFICES ASSUME NEW d, NEW parse, d # op[a].doc
             PROVE  /\ HasNodes(d, parse) => HasNodes(d, parse)'
                    /\ HasEdges(d, parse) => HasEdges(d, parse)'
  BY DEF Keeps
<1>1. RowsOf(nodes, d)' = RowsOf(nodes, d) /\ RowsOf(edges, d)' = RowsOf(edges, d)
      /\ RowsOf(hidden, d)' = RowsOf(hidden, d)
  OBVIOUS
<1>2. \A n \in NodesOf(parse, d) : n.doc = d
  BY NodesAreOwn
<1>3. NodesOf(parse, d) \ hidden = NodesOf(parse, d) \ RowsOf(hidden, d)
  BY <1>2 DEF RowsOf
<1>4. NodesOf(parse, d) \ hidden' = NodesOf(parse, d) \ RowsOf(hidden, d)'
  BY <1>2 DEF RowsOf
<1>5. QED
  BY <1>1, <1>3, <1>4 DEF HasNodes, HasEdges

LEMMA KeptByStep ==
    ASSUME Typed, Kept, NEW a \in Actors, NEW place \in Pcs, Moves(a, place), SameJob(a),
           op[a].pc # "idle", place # "idle", published' = published,
           ~lost' => ~lost /\ Keeps(a),
           ~lost' =>
               /\ place \in {"save edges", "reset", "done"} => HasNodes(op[a].doc, op[a].new)'
               /\ place \in {"reset", "done"} => HasEdges(op[a].doc, op[a].new)'
    PROVE  Kept'
<1> SUFFICES ASSUME ~lost' PROVE Kept'
  BY DEF Kept
<1>1. ~lost /\ Keeps(a)
  OBVIOUS
<1>2. /\ op'[a].pc = place /\ op'[a].doc = op[a].doc /\ op'[a].new = op[a].new
      /\ \A b \in Actors \ {a} : op'[b].pc = op[b].pc /\ op'[b].doc = op[b].doc /\ op'[b].new = op[b].new
  BY DEF Moves, SameJob, Elsewhere
<1>3. ASSUME NEW d \in Docs, Settled(d)'
      PROVE  HasNodes(d, published[d])' /\ HasEdges(d, published[d])'
  <2>1. Settled(d) /\ d # op[a].doc
    BY <1>2, <1>3 DEF Settled
  <2>2. HasNodes(d, published[d]) /\ HasEdges(d, published[d])
    BY <2>1, <1>1 DEF Kept
  <2>3. QED
    BY <2>1, <2>2, <1>1 DEF Keeps
<1>4. ASSUME NEW b \in Actors \ {a}
      PROVE  /\ op'[b].pc \in {"save edges", "reset", "done"} => HasNodes(op[b].doc, op[b].new)'
             /\ op'[b].pc \in {"reset", "done"} => HasEdges(op[b].doc, op[b].new)'
  <2>1. op[b].pc # "idle" => op[b].doc # op[a].doc
    BY DEF Typed, Apart
  <2>2. /\ op[b].pc \in {"save edges", "reset", "done"} => HasNodes(op[b].doc, op[b].new)
        /\ op[b].pc \in {"reset", "done"} => HasEdges(op[b].doc, op[b].new)
    BY <1>1 DEF Kept
  <2>3. QED
    BY <2>1, <2>2, <1>1, <1>2 DEF Keeps
<1>5. QED
  BY <1>2, <1>3, <1>4 DEF Kept

LEMMA OthersMerging ==
    ASSUME Typed, NEW a \in Actors, op[a].pc # "idle", Elsewhere(a), KeepsLinks(a),
           \A b \in Actors : Merging(b)
    PROVE  \A b \in Actors \ {a} : Merging(b)'
<1> SUFFICES ASSUME NEW b \in Actors \ {a}, op'[b].pc = "merge"
             PROVE  /\ IsMentioned(op[b].doc, NodesOf(op[b].new, op[b].doc) \ op[b].nodes)'
                    /\ IsLinked(op[b].doc, EdgesOf(op[b].new, op[b].doc) \ op[b].edges)'
  BY DEF Merging
<1>1. op'[b].pc = op[b].pc /\ op'[b].doc = op[b].doc /\ op'[b].new = op[b].new
      /\ op'[b].nodes = op[b].nodes /\ op'[b].edges = op[b].edges
  BY DEF Elsewhere, SameJob, SameCopies
<1>2. /\ IsMentioned(op[b].doc, NodesOf(op[b].new, op[b].doc) \ op[b].nodes)
      /\ IsLinked(op[b].doc, EdgesOf(op[b].new, op[b].doc) \ op[b].edges)
  BY <1>1 DEF Merging
<1>3. op[b].doc # op[a].doc
  BY <1>1 DEF Typed, Apart
<1>4. QED
  BY <1>1, <1>2, <1>3 DEF KeepsLinks

LEMMA MergingNowhere ==
    ASSUME Typed, NEW a \in Actors, backend # "neo4j", backend' = backend, Typed'
    PROVE  \A b \in Actors : Merging(b)'
  BY DEF Typed, Placed, Merging

LEMMA DistinctStays ==
    ASSUME Distinct, UNCHANGED <<backend, nodes, lost>>
    PROVE  Distinct'
  BY DEF Distinct

LEMMA DistinctElsewhere ==
    ASSUME Distinct, backend # "neo4j", backend' = backend, backend # "filesystem" => lost' = lost
    PROVE  Distinct'
  BY DEF Distinct

LEMMA SharesStay ==
    ASSUME Shares, RowsStay, UNCHANGED <<op, published, lost, hidden>>
    PROVE  Shares'
<1>1. Distinct'
  BY DistinctStays DEF Shares, RowsStay
<1>2. \A a \in Actors : Merging(a)'
  BY NothingLost DEF Shares, Merging
<1>3. Kept'
  BY NothingLost DEF Shares, Kept, Settled
<1>4. QED
  BY <1>1, <1>2, <1>3 DEF Shares

-----------------------------------------------------------------------------
(* What is kept: the beginning and the end of an operation. *)

LEMMA SharesAtBegin ==
    ASSUME Typed, Shares, NEW a \in Actors, NEW d \in Docs, NEW new \in Parses \cup {NoParse},
           Begin(a, d, new)
    PROVE  Shares'
<1>1. /\ op[a].pc = "idle" /\ RowsStay /\ UNCHANGED <<published, lost, hidden>>
  BY DEF Begin, At, RowsStay, store, history
<1>2. Moves(a, "begin") /\ op'[a].doc = d
  BY BeginMoves
<1>3. /\ op'[a].pc = "begin"
      /\ \A b \in Actors \ {a} : op'[b].pc = op[b].pc /\ op'[b].doc = op[b].doc /\ op'[b].new = op[b].new
      /\ \A b \in Actors \ {a} : op'[b].nodes = op[b].nodes /\ op'[b].edges = op[b].edges
  BY <1>2 DEF Moves, Elsewhere, SameJob, SameCopies
<1>4. Distinct'
  BY <1>1, DistinctStays DEF Shares, RowsStay
<1>5. \A b \in Actors : Merging(b)'
  BY <1>1, <1>3, NothingLost DEF Shares, Merging
<1>6. \A c \in Docs : Settled(c)' => Settled(c)
  BY <1>1, <1>3 DEF Settled
<1>7. Kept'
  BY <1>1, <1>3, <1>6, NothingLost DEF Shares, Kept
<1>8. QED
  BY <1>4, <1>5, <1>7 DEF Shares

LEMMA SharesAtReturn ==
    ASSUME Typed, Shares, NEW a \in Actors, Return(a)
    PROVE  Shares'
<1>1. /\ op[a].pc = "done" /\ RowsStay /\ UNCHANGED <<lost, hidden>> /\ Go(a, "idle")
      /\ published' = [published EXCEPT ![op[a].doc] = op[a].new]
  BY DEF Return, Ends, At, RowsStay, store, Idle
<1>2. Moves(a, "idle")
  BY <1>1, Gone DEF Pcs
<1>3. /\ op'[a].pc = "idle"
      /\ \A b \in Actors \ {a} : op'[b].pc = op[b].pc /\ op'[b].doc = op[b].doc /\ op'[b].new = op[b].new
      /\ \A b \in Actors \ {a} : op'[b].nodes = op[b].nodes /\ op'[b].edges = op[b].edges
  BY <1>2 DEF Moves, Elsewhere, SameJob, SameCopies
<1>4. Distinct'
  BY <1>1, DistinctStays DEF Shares, RowsStay
<1>5. \A b \in Actors : Merging(b)'
  BY <1>1, <1>3, NothingLost DEF Shares, Merging
<1>6. ASSUME NEW c \in Docs, Settled(c)', ~lost
      PROVE  HasNodes(c, published[c])' /\ HasEdges(c, published[c])'
  <2>1. op[a].doc \in Docs
    BY <1>1 DEF Typed, Placed
  <2>2. CASE c = op[a].doc
    <3>1. published'[c] = op[a].new
      BY <1>1, <2>1, <2>2 DEF Typed, RowsTyped
    <3>2. HasNodes(c, op[a].new) /\ HasEdges(c, op[a].new)
      BY <1>1, <1>6, <2>2 DEF Shares, Kept
    <3>3. QED
      BY <1>1, <3>1, <3>2, NothingLost
  <2>3. CASE c # op[a].doc
    <3>1. published'[c] = published[c]
      BY <1>1, <2>1, <2>3 DEF Typed, RowsTyped
    <3>2. Settled(c)
      BY <1>3, <1>6, <2>3 DEF Settled
    <3>3. HasNodes(c, published[c]) /\ HasEdges(c, published[c])
      BY <1>6, <3>2 DEF Shares, Kept
    <3>4. QED
      BY <1>1, <3>1, <3>3, NothingLost
  <2>4. QED
    BY <2>2, <2>3
<1>7. Kept'
  BY <1>1, <1>3, <1>6, NothingLost DEF Shares, Kept
<1>8. QED
  BY <1>4, <1>5, <1>7 DEF Shares

-----------------------------------------------------------------------------
(* What is kept: the files. *)

LEMMA SharesAtFileLoads ==
    ASSUME Typed, Shares, NEW a \in Actors, FileLoadNodes(a) \/ FileLoadEdges(a), Typed'
    PROVE  Shares'
<1>1. backend = "filesystem" /\ RowsStay /\ op[a].pc # "idle" /\ UNCHANGED <<backend, published, lost, hidden>>
  BY DEF FileLoadNodes, FileLoadEdges, At, Idle, RowsStay, store, history
<1>2. Distinct'
  BY <1>1, DistinctStays DEF Shares, RowsStay
<1>3. \A b \in Actors : Merging(b)'
  BY <1>1, MergingNowhere
<1>4. PICK place \in {"edges", "save"} : Moves(a, place) /\ SameJob(a)
  BY FileLoadNodesMoves, FileLoadEdgesMoves
<1>5. Kept'
  BY <1>1, <1>4, KeptByStep, NothingLost DEF Shares, Pcs
<1>6. QED
  BY <1>2, <1>3, <1>5 DEF Shares

LEMMA SharesAtFileSaves ==
    ASSUME Typed, Removal, Shares, NEW a \in Actors, FileSaveNodes(a) \/ FileSaveEdges(a), Typed'
    PROVE  Shares'
<1>1. /\ backend = "filesystem" /\ op[a].pc # "idle" /\ UNCHANGED <<backend, published, mentions, shared>>
      /\ lost' = (lost \/ op[a].stale)
  BY DEF FileSaveNodes, FileSaveEdges, At, Idle
<1>2. Distinct'
  BY <1>1, DistinctElsewhere DEF Shares
<1>3. \A b \in Actors : Merging(b)'
  BY <1>1, MergingNowhere
<1>4. ~lost' => ~lost /\ ~op[a].stale
  BY <1>1 DEF Typed, Operations
<1>5. \A n \in NodesOf(op[a].new, op[a].doc) : n.doc = op[a].doc
  BY NodesAreOwn
<1>6. \A e \in EdgesOf(op[a].new, op[a].doc) : e.doc = op[a].doc
  BY EdgesAreOwn
<1>7. CASE FileSaveNodes(a)
  <2>1. /\ Saved(a, "save edges") /\ op[a].pc = "save" /\ edges' = edges
        /\ nodes' = MergedNodes(op[a].nodes, op[a].doc, op[a].new)
        /\ hidden' = {h \in hidden : h.doc # op[a].doc} \cup (NodesOf(op[a].new, op[a].doc) \ nodes')
    BY <1>7 DEF FileSaveNodes, At
  <2>2. Moves(a, "save edges") /\ SameJob(a)
    BY <2>1, SavedMoves DEF Pcs
  <2>3. ~lost' => op[a].nodes = nodes
    BY <1>4, <2>1 DEF Removal, Halfway
  <2>4. ASSUME ~lost', NEW c, c # op[a].doc
        PROVE  /\ RowsOf(nodes, c)' = RowsOf(nodes, c)
               /\ RowsOf(edges, c)' = RowsOf(edges, c)
               /\ RowsOf(hidden, c)' = RowsOf(hidden, c)
    <3>1. RowsOf(nodes', c) = RowsOf(nodes, c)
      BY <1>5, <2>1, <2>3, <2>4 DEF RowsOf, MergedNodes, Others
    <3>2. RowsOf(hidden', c) = RowsOf(hidden, c)
      BY <1>5, <2>1, <2>4 DEF RowsOf
    <3>3. QED
      BY <2>1, <3>1, <3>2 DEF RowsOf
  <2>5. ~lost' => Keeps(a)
    BY <1>1, <2>4, OtherRowsAreKept
  <2>6. RowsOf(nodes', op[a].doc) = NodesOf(op[a].new, op[a].doc) \ hidden'
    <3>1. RowsOf(nodes', op[a].doc) = NodesOf(op[a].new, op[a].doc) \cap nodes'
      BY <1>5, <2>1 DEF RowsOf, MergedNodes, Others
    <3>2. \A n \in NodesOf(op[a].new, op[a].doc) : n \in hidden' <=> n \notin nodes'
      BY <1>5, <2>1
    <3>3. QED
      BY <3>1, <3>2
  <2>7. HasNodes(op[a].doc, op[a].new)'
    BY <1>1, <2>2, <2>6 DEF HasNodes, SameJob
  <2>8. Kept'
    BY <1>1, <1>4, <2>2, <2>5, <2>7, KeptByStep DEF Shares, Pcs
  <2>9. QED
    BY <1>2, <1>3, <2>8 DEF Shares
<1>8. CASE FileSaveEdges(a)
  <2>1. /\ Saved(a, "done") /\ op[a].pc = "save edges" /\ UNCHANGED <<nodes, hidden>>
        /\ edges' = MergedEdges(op[a].edges, op[a].doc, op[a].new)
    BY <1>8 DEF FileSaveEdges, At
  <2>2. Moves(a, "done") /\ SameJob(a)
    BY <2>1, SavedMoves DEF Pcs
  <2>3. ~lost' => op[a].edges = edges
    BY <1>4, <2>1 DEF Removal, Halfway
  <2>4. ASSUME ~lost', NEW c, c # op[a].doc
        PROVE  /\ RowsOf(nodes, c)' = RowsOf(nodes, c)
               /\ RowsOf(edges, c)' = RowsOf(edges, c)
               /\ RowsOf(hidden, c)' = RowsOf(hidden, c)
    <3>1. RowsOf(edges', c) = RowsOf(edges, c)
      BY <1>6, <2>1, <2>3, <2>4 DEF RowsOf, MergedEdges, Others
    <3>2. QED
      BY <2>1, <3>1 DEF RowsOf
  <2>5. ~lost' => Keeps(a)
    BY <1>1, <2>4, OtherRowsAreKept
  <2>6. RowsOf(edges', op[a].doc) = FirstOfPair(EdgesOf(op[a].new, op[a].doc))
    BY <1>6, <2>1 DEF RowsOf, MergedEdges, Others, FirstOfPair
  <2>7. HasEdges(op[a].doc, op[a].new)'
    BY <1>1, <2>2, <2>6 DEF HasEdges, SameJob
  <2>8. ~lost' => HasNodes(op[a].doc, op[a].new)
    BY <1>4, <2>1 DEF Shares, Kept
  <2>9. ~lost' => HasNodes(op[a].doc, op[a].new)'
    BY <1>1, <2>1, <2>2, <2>8 DEF HasNodes, SameJob, RowsOf
  <2>10. Kept'
    BY <1>1, <1>4, <2>2, <2>5, <2>7, <2>9, KeptByStep DEF Shares, Pcs
  <2>11. QED
    BY <1>2, <1>3, <2>10 DEF Shares
<1>9. QED
  BY <1>7, <1>8

-----------------------------------------------------------------------------
(* What is kept: the transactions. *)

LEMMA SharesAtPostgres ==
    ASSUME Typed, Shares, NEW a \in Actors, PostgresCommit(a) \/ PostgresReset(a), Typed'
    PROVE  Shares'
<1>1. /\ backend = "postgres" /\ op[a].pc # "idle" /\ UNCHANGED <<backend, published, lost, hidden>>
  BY DEF PostgresCommit, PostgresReset, At, Idle, store, history
<1>2. Distinct'
  BY <1>1, DistinctElsewhere DEF Shares
<1>3. \A b \in Actors : Merging(b)'
  BY <1>1, MergingNowhere
<1>4. CASE PostgresCommit(a)
  <2>1. /\ Go(a, "reset")
        /\ nodes' = Others(nodes, op[a].doc) \cup NodesOf(op[a].new, op[a].doc)
        /\ edges' = Others(edges, op[a].doc) \cup EdgesOf(op[a].new, op[a].doc)
    BY <1>4 DEF PostgresCommit
  <2>2. Moves(a, "reset") /\ SameJob(a)
    BY <2>1, Gone DEF Pcs
  <2>3. \A n \in NodesOf(op[a].new, op[a].doc) : n.doc = op[a].doc
    BY NodesAreOwn
  <2>4. \A e \in EdgesOf(op[a].new, op[a].doc) : e.doc = op[a].doc
    BY EdgesAreOwn
  <2>5. ASSUME NEW c, c # op[a].doc
        PROVE  /\ RowsOf(nodes, c)' = RowsOf(nodes, c)
               /\ RowsOf(edges, c)' = RowsOf(edges, c)
               /\ RowsOf(hidden, c)' = RowsOf(hidden, c)
    BY <1>1, <2>1, <2>3, <2>4, <2>5 DEF RowsOf, Others
  <2>6. Keeps(a)
    BY <1>1, <2>5, OtherRowsAreKept
  <2>7. /\ RowsOf(nodes', op[a].doc) = NodesOf(op[a].new, op[a].doc)
        /\ RowsOf(edges', op[a].doc) = EdgesOf(op[a].new, op[a].doc)
    BY <2>1, <2>3, <2>4 DEF RowsOf, Others
  <2>8. HasNodes(op[a].doc, op[a].new)' /\ HasEdges(op[a].doc, op[a].new)'
    BY <1>1, <2>2, <2>7 DEF HasNodes, HasEdges, SameJob
  <2>9. Kept'
    BY <1>1, <2>2, <2>6, <2>8, KeptByStep DEF Shares, Pcs
  <2>10. QED
    BY <1>2, <1>3, <2>9 DEF Shares
<1>5. CASE PostgresReset(a)
  <2>1. Go(a, "done") /\ RowsStay /\ op[a].pc = "reset"
    BY <1>5 DEF PostgresReset, RowsStay, store, history, Idle, At
  <2>2. Moves(a, "done") /\ SameJob(a)
    BY <2>1, Gone DEF Pcs
  <2>3. ~lost => HasNodes(op[a].doc, op[a].new) /\ HasEdges(op[a].doc, op[a].new)
    BY <2>1 DEF Shares, Kept
  <2>4. ~lost => HasNodes(op[a].doc, op[a].new)' /\ HasEdges(op[a].doc, op[a].new)'
    BY <1>1, <2>1, <2>2, <2>3, NothingLost DEF SameJob
  <2>5. Kept'
    BY <1>1, <2>1, <2>2, <2>4, KeptByStep, NothingLost DEF Shares, Pcs
  <2>6. QED
    BY <1>2, <1>3, <2>5 DEF Shares
<1>6. QED
  BY <1>4, <1>5

-----------------------------------------------------------------------------
(* What is kept: Neo4j. *)

LEMMA SharesAtMergeDocument ==
    ASSUME Typed, Shares, NEW a \in Actors, Neo4jMergeDocument(a)
    PROVE  Shares'
<1>1. RowsStay /\ op[a].pc # "idle" /\ UNCHANGED <<published, lost, hidden>>
  BY DEF Neo4jMergeDocument, At, Idle, RowsStay, store, history
<1>2. /\ Moves(a, "merge") /\ SameJob(a)
      /\ op'[a].nodes = NodesOf(op[a].new, op[a].doc)
      /\ op'[a].edges = EdgesOf(op[a].new, op[a].doc)
  BY Neo4jMergeDocumentMoves
<1>3. Distinct'
  BY <1>1, DistinctStays DEF Shares, RowsStay
<1>4. Merging(a)'
  BY <1>2 DEF Merging, IsMentioned, IsLinked, SameJob
<1>5. \A b \in Actors : Merging(b)'
  BY <1>1, <1>2, <1>4, OthersMerging, NothingLost DEF Shares, Moves
<1>6. Kept'
  BY <1>1, <1>2, KeptByStep, NothingLost DEF Shares, Pcs
<1>7. QED
  BY <1>3, <1>5, <1>6 DEF Shares

LEMMA SharesAtMergeNode ==
    ASSUME Typed, Removal, Shares, NEW a \in Actors, Neo4jMergeNode(a)
    PROVE  Shares'
<1>1. PICK n \in op[a].nodes :
          /\ At(a, "merge") /\ op' = [op EXCEPT ![a].nodes = @ \ {n}]
          /\ nodes' = {m \in nodes : m.id # n.id} \cup {n}
          /\ mentions' = mentions \cup {<<n.doc, n.id>>}
          /\ shared \subseteq shared'
          /\ UNCHANGED <<backend, edges, published, lost>>
  BY DEF Neo4jMergeNode, Idle
<1>2. op[a].pc = "merge" /\ backend = "neo4j"
  BY <1>1 DEF At, Typed, Placed
<1>3. n.doc = op[a].doc
  BY <1>1, <1>2, NodesAreOwn DEF Removal, Halfway
<1>4. /\ Moves(a, "merge") /\ SameJob(a)
      /\ op'[a].nodes = op[a].nodes \ {n} /\ op'[a].edges = op[a].edges
  BY <1>1, Neo4jMergeNodeMoves
<1>5. Distinct'
  BY <1>1, <1>2 DEF Shares, Distinct
<1>6. \A d, given : /\ IsMentioned(d, given) => IsMentioned(d, given)'
                    /\ IsLinked(d, given) => IsLinked(d, given)'
  BY <1>1 DEF IsMentioned, IsLinked
<1>7. KeepsLinks(a)
  BY <1>6 DEF KeepsLinks
<1>8. Merging(a)'
  <2>1. op'[a].new = op[a].new /\ op'[a].doc = op[a].doc
    BY <1>4 DEF SameJob
  <2>2. IsMentioned(op[a].doc, NodesOf(op[a].new, op[a].doc) \ op[a].nodes)
        /\ IsLinked(op[a].doc, EdgesOf(op[a].new, op[a].doc) \ op[a].edges)
    BY <1>2 DEF Shares, Merging
  <2>3. IsLinked(op[a].doc, EdgesOf(op[a].new, op[a].doc) \ op[a].edges)'
    BY <1>4, <1>6, <2>1, <2>2
  <2>4. IsMentioned(op[a].doc, NodesOf(op[a].new, op[a].doc) \ op[a].nodes)'
    BY <1>1, <1>3, <1>4, <2>1, <2>2 DEF IsMentioned
  <2>5. QED
    BY <2>3, <2>4 DEF Merging
<1>9. \A b \in Actors : Merging(b)'
  BY <1>2, <1>4, <1>7, <1>8, OthersMerging DEF Shares, Moves
<1>10. Kept'
  BY <1>1, <1>2, <1>4, <1>7, LinksAreAll, KeptByStep DEF Shares, Pcs
<1>11. QED
  BY <1>5, <1>9, <1>10 DEF Shares

(* The edge that takes the place of another document's has the same ends, and
   both documents have or share them: as an entity is there once, it is shared. *)
LEMMA SharesAtMergeEdge ==
    ASSUME Typed, Removal, Shares, NEW a \in Actors, Neo4jMergeEdge(a)
    PROVE  Shares'
<1>1. PICK e \in op[a].edges :
          /\ At(a, "merge") /\ op[a].nodes = {} /\ op' = [op EXCEPT ![a].edges = @ \ {e}]
          /\ edges' = IF e.ends \subseteq Ids(nodes)
                      THEN {f \in edges : f.ends # e.ends} \cup {e} ELSE edges
          /\ UNCHANGED <<backend, nodes, mentions, shared, published, lost>>
  BY DEF Neo4jMergeEdge, Idle, history
<1>2. op[a].pc = "merge" /\ backend = "neo4j"
  BY <1>1 DEF At, Typed, Placed
<1>3. e \in EdgesOf(op[a].new, op[a].doc) /\ op[a].new \in Parses
      /\ op[a].doc \in Docs /\ e.doc = op[a].doc
  <2>1. e \in EdgesOf(op[a].new, op[a].doc) /\ op[a].new # NoParse
    BY <1>1, <1>2 DEF Removal, Halfway
  <2>2. op[a].new \in Parses \cup {NoParse} /\ op[a].doc \in Docs
    BY <1>2 DEF Typed, Placed, Operations
  <2>3. QED
    BY <2>1, <2>2, EdgesAreOwn
<1>4. /\ Moves(a, "merge") /\ SameJob(a)
      /\ op'[a].edges = op[a].edges \ {e} /\ op'[a].nodes = op[a].nodes
  BY <1>1, Neo4jMergeEdgeMoves
<1>5. /\ \A m \in mentions : m = <<m[1], m[2]>> /\ \E n \in nodes : n.id = m[2]
      /\ \A m \in mentions, n \in nodes : n.id = m[2] => n.doc = m[1] \/ n.id \in shared
      /\ \A f \in edges : \A id \in f.ends : HasOwn(id, f.doc)
      /\ \A n, m \in nodes : n.id = m.id => n = m
  BY <1>2 DEF Removal, Mentioned, Shares, Distinct
<1>6. \A id \in e.ends : <<op[a].doc, id>> \in mentions
  <2>1. IsMentioned(op[a].doc, NodesOf(op[a].new, op[a].doc))
    BY <1>1, <1>2 DEF Shares, Merging
  <2>2. e.ends \subseteq Ids(NodesOf(op[a].new, op[a].doc))
    BY <1>3, EdgesJoinNodes
  <2>3. QED
    BY <2>1, <2>2 DEF Ids, IsMentioned
<1>7. \A id \in e.ends : HasOwn(id, op[a].doc) /\ \E n \in nodes : n.id = id
  <2> SUFFICES ASSUME NEW id \in e.ends
               PROVE  HasOwn(id, op[a].doc) /\ \E n \in nodes : n.id = id
    OBVIOUS
  <2> DEFINE m == <<op[a].doc, id>>
  <2>1. m \in mentions /\ m[1] = op[a].doc /\ m[2] = id
    BY <1>6
  <2>2. PICK n \in nodes : n.id = id
    BY <1>5, <2>1
  <2>3. n.doc = op[a].doc \/ n.id \in shared
    BY <1>5, <2>1, <2>2
  <2>4. QED
    BY <2>2, <2>3 DEF HasOwn
<1>8. edges' = {f \in edges : f.ends # e.ends} \cup {e}
  BY <1>1, <1>7 DEF Ids
<1>9. ASSUME NEW f \in edges, f.ends = e.ends, f.doc # op[a].doc
      PROVE  \E id \in e.ends : id \in shared
  <2>1. PICK id : id \in e.ends
    BY <1>3, EdgesHaveEnds
  <2>2. HasOwn(id, f.doc) /\ HasOwn(id, op[a].doc)
    BY <1>5, <1>7, <1>9, <2>1
  <2>3. QED
    BY <1>5, <1>9, <2>1, <2>2 DEF HasOwn
<1>10. ASSUME NEW d, NEW given, d # op[a].doc, IsLinked(d, given)
       PROVE  IsLinked(d, given)'
  <2> SUFFICES ASSUME NEW x \in given
               PROVE  /\ \A id \in x.ends : <<d, id>> \in mentions'
                      /\ \E f \in edges' : f.ends = x.ends /\ (f.doc = d \/ \E id \in x.ends : id \in shared')
    BY DEF IsLinked
  <2>1. PICK f \in edges : f.ends = x.ends /\ (f.doc = d \/ \E id \in x.ends : id \in shared)
    BY <1>10 DEF IsLinked
  <2>2. \A id \in x.ends : <<d, id>> \in mentions'
    BY <1>1, <1>10 DEF IsLinked
  <2>3. CASE f.ends # e.ends
    BY <1>1, <1>8, <2>1, <2>2, <2>3
  <2>4. CASE f.ends = e.ends
    <3>1. \E id \in x.ends : id \in shared'
      BY <1>1, <1>9, <1>10, <2>1, <2>4
    <3>2. e \in edges' /\ e.ends = x.ends
      BY <1>8, <2>1, <2>4
    <3>3. QED
      BY <2>2, <3>1, <3>2
  <2>5. QED
    BY <2>3, <2>4
<1>11. KeepsLinks(a)
  BY <1>1, <1>10 DEF KeepsLinks, IsMentioned
<1>12. Distinct'
  BY <1>1, DistinctStays DEF Shares
<1>13. Merging(a)'
  <2>1. op'[a].new = op[a].new /\ op'[a].doc = op[a].doc
    BY <1>4 DEF SameJob
  <2>2. IsMentioned(op[a].doc, NodesOf(op[a].new, op[a].doc) \ op[a].nodes)
        /\ IsLinked(op[a].doc, EdgesOf(op[a].new, op[a].doc) \ op[a].edges)
    BY <1>2 DEF Shares, Merging
  <2>3. IsMentioned(op[a].doc, NodesOf(op[a].new, op[a].doc) \ op[a].nodes)'
    BY <1>1, <1>4, <2>1, <2>2 DEF IsMentioned
  <2>4. ASSUME NEW x \in EdgesOf(op[a].new, op[a].doc) \ op'[a].edges
        PROVE  /\ \A id \in x.ends : <<op[a].doc, id>> \in mentions
               /\ \E f \in edges' : f.ends = x.ends /\ (f.doc = op[a].doc \/ \E id \in x.ends : id \in shared)
    <3>1. CASE x = e
      BY <1>3, <1>6, <1>8, <3>1
    <3>2. CASE x # e
      <4>1. PICK f \in edges : f.ends = x.ends /\ (f.doc = op[a].doc \/ \E id \in x.ends : id \in shared)
        BY <1>4, <2>2, <2>4, <3>2 DEF IsLinked
      <4>2. \A id \in x.ends : <<op[a].doc, id>> \in mentions
        BY <1>4, <2>2, <2>4, <3>2 DEF IsLinked
      <4>3. \E g \in edges' : g.ends = x.ends /\ (g.doc = op[a].doc \/ \E id \in x.ends : id \in shared)
        BY <1>3, <1>8, <4>1
      <4>4. QED
        BY <4>2, <4>3
    <3>3. QED
      BY <3>1, <3>2
  <2>5. IsLinked(op[a].doc, EdgesOf(op[a].new, op[a].doc) \ op[a].edges)'
    BY <1>1, <2>1, <2>4 DEF IsLinked
  <2>6. QED
    BY <2>3, <2>5 DEF Merging
<1>14. \A b \in Actors : Merging(b)'
  BY <1>2, <1>4, <1>11, <1>13, OthersMerging DEF Shares, Moves
<1>15. Kept'
  BY <1>1, <1>2, <1>4, <1>11, LinksAreAll, KeptByStep DEF Shares, Pcs
<1>16. QED
  BY <1>12, <1>14, <1>15 DEF Shares

LEMMA SharesAtMerged ==
    ASSUME Typed, Shares, NEW a \in Actors, Neo4jMerged(a)
    PROVE  Shares'
<1>1. /\ RowsStay /\ op[a].pc = "merge" /\ op[a].nodes = {} /\ op[a].edges = {} /\ Go(a, "done")
      /\ UNCHANGED <<published, lost, hidden>>
  BY DEF Neo4jMerged, At, Idle, RowsStay, store, history
<1>2. backend = "neo4j"
  BY <1>1 DEF Typed, Placed
<1>3. Moves(a, "done") /\ SameJob(a)
  BY <1>1, Gone DEF Pcs
<1>4. Distinct'
  BY <1>1, DistinctStays DEF Shares, RowsStay
<1>5. Merging(a)'
  BY <1>3 DEF Merging, Moves
<1>6. \A b \in Actors : Merging(b)'
  BY <1>1, <1>3, <1>5, OthersMerging, NothingLost DEF Shares, Moves
<1>7. HasNodes(op[a].doc, op[a].new) /\ HasEdges(op[a].doc, op[a].new)
  BY <1>1, <1>2 DEF Shares, Merging, HasNodes, HasEdges, IsMentioned, IsLinked
<1>8. HasNodes(op[a].doc, op[a].new)' /\ HasEdges(op[a].doc, op[a].new)'
  BY <1>1, <1>3, <1>7, NothingLost DEF SameJob
<1>9. Kept'
  BY <1>1, <1>3, <1>8, KeptByStep, NothingLost DEF Shares, Pcs
<1>10. QED
  BY <1>4, <1>6, <1>9 DEF Shares

LEMMA SharesAtRemoveDocument ==
    ASSUME Typed, Shares, NEW a \in Actors, Neo4jRemoveDocument(a)
    PROVE  Shares'
<1>1. /\ backend = "neo4j" /\ op[a].pc # "idle" /\ Go(a, "drop")
      /\ mentions' = {m \in mentions : m[1] # op[a].doc}
      /\ UNCHANGED <<backend, nodes, edges, shared, published, lost>>
  BY DEF Neo4jRemoveDocument, At, Idle, history
<1>2. Moves(a, "drop") /\ SameJob(a)
  BY <1>1, Gone DEF Pcs
<1>3. \A d, id : d # op[a].doc /\ <<d, id>> \in mentions => <<d, id>> \in mentions'
  BY <1>1
<1>4. KeepsLinks(a)
  BY <1>1, <1>3 DEF KeepsLinks, IsMentioned, IsLinked
<1>5. Distinct'
  BY <1>1, DistinctStays DEF Shares
<1>6. Merging(a)'
  BY <1>2 DEF Merging, Moves
<1>7. \A b \in Actors : Merging(b)'
  BY <1>1, <1>2, <1>4, <1>6, OthersMerging DEF Shares, Moves
<1>8. Kept'
  BY <1>1, <1>2, <1>4, LinksAreAll, KeptByStep DEF Shares, Pcs
<1>9. QED
  BY <1>5, <1>7, <1>8 DEF Shares

(* An entity that goes is mentioned by nobody, so that it is no end of an edge
   that another document has. *)
LEMMA SharesAtRemoveEntities ==
    ASSUME Typed, Removal, Shares, NEW a \in Actors, Neo4jRemoveEntities(a)
    PROVE  Shares'
<1> DEFINE gone == Unmentioned(op[a].doc)
<1>1. /\ op[a].pc = "drop" /\ Go(a, "done")
      /\ nodes' = nodes \ gone /\ edges' = {e \in edges : e.ends \cap Ids(gone) = {}}
      /\ UNCHANGED <<backend, mentions, shared, published, lost>>
  BY DEF Neo4jRemoveEntities, At, Idle, history
<1>2. backend = "neo4j" /\ op[a].new = NoParse
  BY <1>1 DEF Typed, Placed, Removal, Halfway
<1>3. Moves(a, "done") /\ SameJob(a)
  BY <1>1, Gone DEF Pcs
<1>4. \A m \in mentions, n \in gone : m[2] # n.id
  BY DEF Unmentioned
<1> HIDE DEF gone
<1>5. ASSUME NEW d, NEW given, IsLinked(d, given)
      PROVE  IsLinked(d, given)'
  <2> SUFFICES ASSUME NEW x \in given
               PROVE  /\ \A id \in x.ends : <<d, id>> \in mentions'
                      /\ \E f \in edges' : f.ends = x.ends /\ (f.doc = d \/ \E id \in x.ends : id \in shared')
    BY DEF IsLinked
  <2>1. PICK f \in edges : f.ends = x.ends /\ (f.doc = d \/ \E id \in x.ends : id \in shared)
    BY <1>5 DEF IsLinked
  <2>2. \A id \in x.ends : <<d, id>> \in mentions
    BY <1>5 DEF IsLinked
  <2>3. \A id \in x.ends, n \in gone : n.id # id
    <3> SUFFICES ASSUME NEW id \in x.ends, NEW n \in gone PROVE n.id # id
      OBVIOUS
    <3> DEFINE m == <<d, id>>
    <3>1. m \in mentions /\ m[2] = id
      BY <2>2
    <3>2. QED
      BY <1>4, <3>1
  <2>4. f.ends \cap Ids(gone) = {}
    BY <2>1, <2>3 DEF Ids
  <2>5. QED
    BY <1>1, <2>1, <2>2, <2>4
<1>6. KeepsLinks(a)
  BY <1>1, <1>5 DEF KeepsLinks, IsMentioned
<1>7. Distinct'
  BY <1>1 DEF Shares, Distinct
<1>8. Merging(a)'
  BY <1>3 DEF Merging, Moves
<1>9. \A b \in Actors : Merging(b)'
  BY <1>1, <1>3, <1>6, <1>8, OthersMerging DEF Shares, Moves
<1>10. HasNodes(op[a].doc, op[a].new)' /\ HasEdges(op[a].doc, op[a].new)'
  BY <1>1, <1>2, <1>3 DEF HasNodes, HasEdges, NodesOf, EdgesOf, IsMentioned, IsLinked, SameJob
<1>11. Kept'
  BY <1>1, <1>2, <1>3, <1>6, <1>10, LinksAreAll, KeptByStep DEF Shares, Pcs
<1>12. QED
  BY <1>7, <1>9, <1>11 DEF Shares

LEMMA SharesAreKept == Typed /\ Removal /\ Shares /\ [Next]_vars => Shares'
<1> SUFFICES ASSUME Typed, Removal, Shares, [Next]_vars PROVE Shares'
  OBVIOUS
<1>1. Typed'
  BY TypedIsKept
<1>2. ASSUME NEW a \in Actors, Work(a)
      PROVE  Shares'
  BY <1>1, <1>2, SharesAtFileLoads, SharesAtFileSaves, SharesAtPostgres, SharesAtMergeDocument,
     SharesAtMergeNode, SharesAtMergeEdge, SharesAtMerged, SharesAtRemoveDocument,
     SharesAtRemoveEntities, SharesAtReturn DEF Work
<1>3. ASSUME NEW a \in Actors, NEW d \in Docs, NEW new \in Parses \cup {NoParse}, Begin(a, d, new)
      PROVE  Shares'
  BY <1>3, SharesAtBegin
<1>4. ASSUME RefreshNodes \/ RefreshEdges \/ RefreshStore \/ CacheExpires \/ UNCHANGED vars
      PROVE  Shares'
  <2>1. RowsStay /\ UNCHANGED <<op, published, lost, hidden>>
    BY <1>4 DEF RefreshNodes, RefreshEdges, RefreshStore, CacheExpires, vars, RowsStay, store,
                history, Idle
  <2>2. QED
    BY <2>1, SharesStay
<1>5. QED
  BY <1>2, <1>3, <1>4 DEF Next

-----------------------------------------------------------------------------
(* What a request for a published document is shown. *)

LEMMA SharesAreShown ==
    ASSUME Typed, Removal, Shares, NEW d \in Docs, Settled(d), published[d] # NoParse
    PROVE  LET export == AllowedExport(nodes, edges, {d})
               ends == {e.ends : e \in OwnEdges(d)}
           IN  \/ backend = "postgres" /\ export = [nodes |-> Ids(OwnNodes(d)), edges |-> ends]
               \/ /\ backend = "filesystem"
                  /\ \/ lost
                     \/ /\ export.nodes = Ids(OwnNodes(d) \ hidden)
                        /\ export.edges = {pair \in ends : pair \cap Ids(OwnNodes(d) \cap hidden) = {}}
               \/ /\ backend = "neo4j"
                  /\ Ids(OwnNodes(d)) \subseteq Ids(nodes) /\ ends \subseteq {e.ends : e \in edges}
                  /\ Ids(OwnNodes(d)) \ shared \subseteq export.nodes
                  /\ {pair \in ends : pair \cap shared = {}} \subseteq export.edges
<1> DEFINE mine == RowsOf(nodes, d)
           own == RowsOf(edges, d)
           export == AllowedExport(nodes, edges, {d})
           ends == {e.ends : e \in OwnEdges(d)}
<1>1. export.nodes = Ids(mine) /\ export.edges = {e.ends : e \in {f \in own : f.ends \subseteq Ids(mine)}}
      /\ export = [nodes |-> export.nodes, edges |-> export.edges]
  BY DEF AllowedExport, RowsOf, Known
<1>2. published[d] \in Parses
  BY DEF Typed, RowsTyped
<1>3. \A e \in OwnEdges(d) : e.ends \subseteq Ids(OwnNodes(d))
  BY <1>2, EdgesJoinNodes DEF OwnEdges, OwnNodes
<1>4. CASE backend = "postgres"
  <2>1. mine = OwnNodes(d) /\ own = OwnEdges(d)
    BY <1>4 DEF Shares, Distinct, Kept, HasNodes, HasEdges, OwnNodes, OwnEdges
  <2>2. {f \in own : f.ends \subseteq Ids(mine)} = OwnEdges(d)
    BY <1>3, <2>1
  <2>3. export = [nodes |-> Ids(OwnNodes(d)), edges |-> ends]
    BY <1>1, <2>1, <2>2
  <2>4. QED
    BY <1>4, <2>3
<1>5. CASE backend = "filesystem" /\ ~lost
  <2>1. mine = OwnNodes(d) \ hidden /\ own = FirstOfPair(OwnEdges(d))
    BY <1>5 DEF Shares, Kept, HasNodes, HasEdges, OwnNodes, OwnEdges
  <2>2. \A n, m \in OwnNodes(d) : n.id = m.id => n = m
    BY NodesDiffer DEF OwnNodes
  <2>3. ASSUME NEW pair, pair \subseteq Ids(OwnNodes(d))
        PROVE  pair \subseteq Ids(mine) <=> pair \cap Ids(OwnNodes(d) \cap hidden) = {}
    BY <2>1, <2>2, <2>3 DEF Ids
  <2>4. \A e \in OwnEdges(d) : e.page \in Nat
    <3>1. DOMAIN published[d] \subseteq Nat
      BY <1>2, GraphStoreAssumption
    <3>2. QED
      BY <3>1, EdgesHaveEnds DEF OwnEdges
  <2>5. \A e \in OwnEdges(d) : \E f \in own : f.ends = e.ends
    BY <2>1, <2>4, PairsAreCovered
  <2>6. own \subseteq OwnEdges(d)
    BY <2>1 DEF FirstOfPair
  <2>7. export.edges = {pair \in ends : pair \cap Ids(OwnNodes(d) \cap hidden) = {}}
    <3>1. export.edges = {pair \in ends : pair \subseteq Ids(mine)}
      BY <1>1, <2>5, <2>6
    <3>2. \A pair \in ends : pair \subseteq Ids(OwnNodes(d))
      BY <1>3
    <3>3. QED
      BY <2>3, <3>1, <3>2
  <2>8. QED
    BY <1>1, <1>5, <2>1, <2>7
<1>6. CASE backend = "neo4j"
  <2>1. IsMentioned(d, OwnNodes(d)) /\ IsLinked(d, OwnEdges(d))
    BY <1>6 DEF Shares, Distinct, Kept, HasNodes, HasEdges, OwnNodes, OwnEdges
  <2>2. /\ \A m \in mentions : \E n \in nodes : n.id = m[2]
        /\ \A m \in mentions, n \in nodes : n.id = m[2] => n.doc = m[1] \/ n.id \in shared
        /\ \A e \in edges : \A id \in e.ends : HasOwn(id, e.doc)
    BY <1>6 DEF Removal, Mentioned
  <2>3. ASSUME NEW n \in OwnNodes(d)
        PROVE  /\ n.id \in Ids(nodes)
               /\ n.id \notin shared => n.id \in Ids(mine)
    <3> DEFINE m == <<d, n.id>>
    <3>1. m \in mentions /\ m[1] = d /\ m[2] = n.id
      BY <2>1 DEF IsMentioned
    <3>2. PICK x \in nodes : x.id = n.id
      BY <2>2, <3>1
    <3>3. x.doc = d \/ x.id \in shared
      BY <2>2, <3>1, <3>2
    <3>4. QED
      BY <3>2, <3>3 DEF Ids, RowsOf
  <2>4. Ids(OwnNodes(d)) \subseteq Ids(nodes) /\ Ids(OwnNodes(d)) \ shared \subseteq export.nodes
    BY <1>1, <2>3 DEF Ids
  <2>5. ends \subseteq {e.ends : e \in edges}
    BY <2>1 DEF IsLinked
  <2>6. ASSUME NEW pair \in ends, pair \cap shared = {}
        PROVE  pair \in export.edges
    <3>1. PICK f \in edges : f.ends = pair /\ f.doc = d
      BY <2>1, <2>6 DEF IsLinked
    <3>2. pair \subseteq Ids(mine)
      BY <2>2, <2>6, <3>1 DEF HasOwn, Ids, RowsOf
    <3>3. QED
      BY <1>1, <3>1, <3>2 DEF RowsOf
  <2>7. QED
    BY <1>6, <2>4, <2>5, <2>6
<1>7. QED
  BY <1>4, <1>5, <1>6 DEF Shares, Distinct

(* What is done to one document leaves the others what they have, and a request
   for a published document is shown it: exactly its rows of PostgreSQL; of the
   files, unless a save overwrote another, all but the nodes a namesake stands
   for; of Neo4j, all but what another document wrote over. *)
THEOREM EachKeepsItsShare == Spec => []SharesKept
<1>1. Init => Typed /\ Removal /\ Shares
  <2>1. Init => \A a \in Actors : op[a].pc = "idle"
    <3>1. NoOp.pc = "idle"
      BY DEF NoOp
    <3>2. QED
      BY <3>1 DEF Init
  <2>2. Init => nodes = {} /\ edges = {} /\ mentions = {} /\ hidden = {} /\ ~lost
                /\ backend \in {"filesystem", "postgres", "neo4j"}
                /\ \A d \in Docs : published[d] = NoParse
    BY DEF Init
  <2>3. Init => Removal
    BY <2>1, <2>2 DEF Removal, Mentioned, Halfway, Cleared, NoNodeOf, NoEdgeOf
  <2>4. ASSUME Init, NEW d \in Docs PROVE HasNodes(d, NoParse) /\ HasEdges(d, NoParse)
    BY <2>2, <2>4
       DEF HasNodes, HasEdges, RowsOf, NodesOf, EdgesOf, FirstOfPair, IsMentioned, IsLinked
  <2>5. Init => Shares
    BY <2>1, <2>2, <2>4 DEF Shares, Distinct, Merging, Kept
  <2>6. QED
    BY <2>3, <2>5, TypedAtFirst
<1>2. Typed /\ Removal /\ Shares /\ [Next]_vars => (Typed /\ Removal /\ Shares)'
  BY TypedIsKept, RemovalIsKept, SharesAreKept
<1>3. Typed /\ Removal /\ Shares => SharesKept
  BY SharesAreShown DEF SharesKept
<1>4. QED
  BY <1>1, <1>2, <1>3, PTL DEF Spec
-----------------------------------------------------------------------------
(* A request to the LightRAG engine, for any spaces, limits and number of
   faults.  What the argument needs of the values; the evidence, the graphs and
   the items are opaque to it. *)
Events == [event : {"delta", "done", "unavailable", "failed"}, part : Nat]
RequestTyped ==
    /\ ask.kind \in {"query", "view", "search"} /\ (ask.stream => ask.kind = "query")
    /\ ask.stream \in BOOLEAN /\ ask.remote \in BOOLEAN /\ ask.long \in BOOLEAN
    /\ gate \in {"start", "read", "store", "over"}
    /\ tasks \in [{Own, Public} -> {"none", "wait", "held", "done", "failed"}]
    /\ engine \in {"idle", "spaces", "primary", "generate", "text", "release", "over"}
    /\ parts \in Nat /\ complete \in Int /\ shown \in Nat /\ faults \in Nat
    /\ wire \in Seq(Events) /\ link \in {"open", "closed", "lost", "broken", "left"}
    /\ here \in BOOLEAN /\ rows \subseteq {"session", "exchange", "history", "usage"}
    /\ told \in {"nothing", "done", "unavailable", "failed"}

(* Before the gateway has started nothing has happened, a space outside the
   request is never at work, and who was told something or has left a stream has
   nothing more to come. *)
Resting ==
    /\ gate = "start" =>
           /\ engine = "idle" /\ wire = <<>> /\ link = "open" /\ rows = {}
           /\ parts = 0 /\ shown = 0 /\ complete = 0 - 1
    /\ engine = "idle" => \A s \in {Own, Public} : tasks[s] = "none"
    /\ \A s \in {Own, Public} : s \notin ToSet(Spaces) => tasks[s] = "none"
    /\ told # "nothing" => gate = "over"
    /\ link = "left" => gate = "over"

(* The events on the way are in turn: each delta counts one part more than the
   one before it, from those shown on, and the final event is behind the last
   part, after which none is generated. *)
Generated == engine \in {"idle", "release", "over"}
Sent(i, event) == wire[i].event = event
FinalIsLast ==
    \A i \in DOMAIN wire : Sent(i, "done") /\ Asks("query") => Generated /\ wire[i].part = parts
InTurn ==
    ask.stream /\ gate = "read" =>
        /\ \A i \in DOMAIN wire :
               /\ Sent(i, "delta") => wire[i].part = shown + i /\ shown + i <= parts
               /\ Sent(i, "done") => parts = shown + i - 1
        /\ link = "open" /\ engine \notin {"release", "over"} => parts = shown + Len(wire)

(* A final event that was read tells the truth, nothing is stored before it,
   and what is stored is what it told. *)
CompleteIsWhole ==
    Asks("query") /\ complete >= 0 =>
        Generated /\ complete = parts /\ (ask.stream => shown = parts)
StoredIsComplete ==
    /\ gate = "store" \/ rows # {} => Asks("query") /\ complete >= 0
    /\ {"exchange", "history"} \cap rows # {} => recorded = complete
    /\ told = "done" /\ Asks("query") => "history" \in rows

(* As long as nothing has failed: the connection ends where the engine ended it,
   and then no space is at work and the final event was sent. *)
Faultless ==
    faults = 0 =>
        /\ link \in {"open", "closed", "left"}
        /\ \A i \in DOMAIN wire : wire[i].event \in {"delta", "done"}
        /\ link = "closed" \/ gate = "store" \/ told # "nothing" => ~Working
        /\ gate = "read" /\ complete < 0 /\ (link = "closed" \/ engine \in {"release", "over"}) =>
               \E i \in DOMAIN wire : Sent(i, "done")

RequestInv ==
    /\ RequestTyped /\ Resting /\ FinalIsLast /\ InTurn /\ CompleteIsWhole /\ StoredIsComplete
    /\ Faultless /\ FailsForAReason

LEMMA InvTellsTrue == RequestInv => ToldIsTrue
BY DEF RequestInv, RequestTyped, CompleteIsWhole, StoredIsComplete, Faultless, ToldIsTrue,
       AnswerIsWhole, QuietWhenTold

LEMMA RequestStarts == RequestInit => RequestInv
<1> SUFFICES ASSUME RequestInit PROVE RequestInv
  OBVIOUS
<1>1. /\ ask.kind \in {"query", "view", "search"} /\ (ask.stream => ask.kind = "query")
      /\ ask.stream \in BOOLEAN /\ ask.remote \in BOOLEAN /\ ask.long \in BOOLEAN
  BY DEF RequestInit
<1>2. RequestTyped
  BY <1>1 DEF RequestInit, RequestTyped
<1>3. Resting /\ FinalIsLast /\ InTurn /\ CompleteIsWhole /\ StoredIsComplete
  BY DEF RequestInit, Resting, FinalIsLast, InTurn, CompleteIsWhole, StoredIsComplete
<1>4. Faultless /\ FailsForAReason
  BY DEF RequestInit, Faultless, FailsForAReason, Working
<1> QED  BY <1>2, <1>3, <1>4 DEF RequestInv

(* What the request asks for does not change. *)
LEMMA AskStays ==
    ASSUME ask' = ask
    PROVE  /\ Spaces' = Spaces /\ Together' = Together /\ Streamed' = Streamed
           /\ TooLong' = TooLong /\ \A kind : Asks(kind)' = Asks(kind)
BY DEF Spaces, Together, Streamed, TooLong, Asks, Remote

(* The space of the caller is one of the spaces of any request that has some. *)
LEMMA OwnIsAsked == ASSUME Together PROVE Own \in ToSet(Spaces)
<1>1. Spaces \in {<<Own>>, <<>>, <<Own, Public>>}  BY DEF Spaces, SpacesOf
<1> QED  BY <1>1 DEF Together, ToSet

(* The connection is a queue, as far as it is open. *)
LEMMA SendAppends ==
    ASSUME wire \in Seq(Events), NEW event \in {"delta", "done", "unavailable", "failed"},
           NEW part \in Nat, Send(event, part)
    PROVE  /\ wire' \in Seq(Events)
           /\ link # "open" => wire' = wire
           /\ link = "open" =>
                  /\ Len(wire') = Len(wire) + 1 /\ DOMAIN wire' = 1..(Len(wire) + 1)
                  /\ \A i \in DOMAIN wire : wire'[i] = wire[i]
                  /\ wire'[Len(wire) + 1] = [event |-> event, part |-> part]
<1>1. CASE link = "open"
  <2> DEFINE e == [event |-> event, part |-> part]
  <2>1. e \in Events /\ wire' = Append(wire, e)  BY <1>1 DEF Send, Events
  <2> HIDE DEF e
  <2>2. /\ wire' \in Seq(Events) /\ Len(wire') = Len(wire) + 1 /\ DOMAIN wire' = 1..(Len(wire) + 1)
        /\ \A i \in DOMAIN wire : wire'[i] = wire[i]
        /\ wire'[Len(wire) + 1] = e
    BY <2>1
  <2> QED  BY <1>1, <2>2 DEF e
<1>2. CASE link # "open"
  BY <1>2 DEF Send
<1> QED  BY <1>1, <1>2

LEMMA TailOfWire ==
    ASSUME wire \in Seq(Events), wire # <<>>, wire' = Tail(wire)
    PROVE  /\ wire' \in Seq(Events) /\ Len(wire') = Len(wire) - 1
           /\ 1 \in DOMAIN wire /\ Head(wire) = wire[1] /\ Head(wire) \in Events
           /\ \A i \in DOMAIN wire' : i + 1 \in DOMAIN wire /\ wire'[i] = wire[i + 1]
           /\ \A i \in DOMAIN wire \ {1} : i - 1 \in DOMAIN wire' /\ wire'[i - 1] = wire[i]
OBVIOUS

LEMMA PrefixOfWire ==
    ASSUME wire \in Seq(Events), NEW n \in 0..Len(wire), wire' = Prefix(wire, n)
    PROVE  /\ wire' \in Seq(Events) /\ DOMAIN wire' \subseteq DOMAIN wire
           /\ \A i \in DOMAIN wire' : wire'[i] = wire[i]
BY DEF Prefix

LEMMA RequestStart == ASSUME RequestInv, Start PROVE RequestInv'
<1> USE DEF Start, End, engineVars, gateVars, gateway
<1>1. ask' = ask /\ Spaces' = Spaces /\ Together' = Together /\ Streamed' = Streamed
      /\ TooLong' = TooLong /\ \A kind : Asks(kind)' = Asks(kind)
  BY AskStays
<1>2. RequestTyped'  BY DEF RequestInv, RequestTyped
<1>3. Resting'  BY <1>1 DEF RequestInv, Resting, RequestTyped
<1>4. FinalIsLast'  BY DEF RequestInv, FinalIsLast, Resting
<1>5. InTurn'  BY DEF RequestInv, InTurn, Resting
<1>6. CompleteIsWhole'  BY DEF RequestInv, CompleteIsWhole, Resting, Generated
<1>7. StoredIsComplete'  BY DEF RequestInv, StoredIsComplete, Resting, Asks
<1>8. Faultless'  BY DEF RequestInv, Faultless, RequestTyped, Resting, Working
<1>9. FailsForAReason'  BY <1>1 DEF RequestInv, FailsForAReason
<1> QED  BY <1>2, <1>3, <1>4, <1>5, <1>6, <1>7, <1>8, <1>9 DEF RequestInv

LEMMA RequestReceive == ASSUME RequestInv, Receive PROVE RequestInv'
<1> USE DEF Receive, End, engineVars, gateVars, gateway, Generated, Sent, Working
<1>1. ask' = ask /\ Spaces' = Spaces /\ Together' = Together /\ Streamed' = Streamed
      /\ TooLong' = TooLong /\ \A kind : Asks(kind)' = Asks(kind)
  BY AskStays
<1>2. /\ wire' \in Seq(Events) /\ Len(wire') = Len(wire) - 1
      /\ 1 \in DOMAIN wire /\ Head(wire) = wire[1] /\ Head(wire) \in Events
      /\ \A i \in DOMAIN wire' : i + 1 \in DOMAIN wire /\ wire'[i] = wire[i + 1]
      /\ \A i \in DOMAIN wire \ {1} : i - 1 \in DOMAIN wire' /\ wire'[i - 1] = wire[i]
  BY TailOfWire DEF RequestInv, RequestTyped
<1>3. RequestTyped'  BY <1>2 DEF RequestInv, RequestTyped, Events
<1>4. Resting'  BY <1>1 DEF RequestInv, Resting
<1>5. FinalIsLast'  BY <1>1, <1>2 DEF RequestInv, FinalIsLast, Asks
<1>6. InTurn'
  <2> SUFFICES ASSUME ask.stream, gate' = "read"
               PROVE  /\ \A i \in DOMAIN wire' :
                             /\ wire'[i].event = "delta" =>
                                    wire'[i].part = shown' + i /\ shown' + i <= parts
                             /\ wire'[i].event = "done" => parts = shown' + i - 1
                      /\ link = "open" /\ engine \notin {"release", "over"} =>
                             parts = shown' + Len(wire')
    BY <1>1 DEF InTurn
  <2>1. /\ \A i \in DOMAIN wire :
               /\ Sent(i, "delta") => wire[i].part = shown + i /\ shown + i <= parts
               /\ Sent(i, "done") => parts = shown + i - 1
        /\ link = "open" /\ engine \notin {"release", "over"} => parts = shown + Len(wire)
        /\ parts \in Nat /\ shown \in Nat /\ wire \in Seq(Events)
    BY DEF RequestInv, InTurn, RequestTyped
  <2>2. /\ wire' \in Seq(Events) /\ Len(wire') = Len(wire) - 1
        /\ \A i \in DOMAIN wire' :
               i \in Nat \ {0} /\ i + 1 \in DOMAIN wire /\ wire'[i] = wire[i + 1]
    BY <1>2
  <2>3. CASE Sent(1, "delta")
    <3>1. shown' = shown + 1  BY <1>2, <2>3
    <3> QED  BY <2>1, <2>2, <3>1
  <2>4. CASE ~Sent(1, "delta")
    <3>1. Sent(1, "done") /\ shown' = shown  BY <1>2, <2>4
    <3>2. parts = shown  BY <1>2, <2>1, <3>1
    <3> QED  BY <2>1, <2>2, <3>1, <3>2
  <2> QED  BY <2>3, <2>4
<1>7. CompleteIsWhole'  BY DEF RequestInv, CompleteIsWhole, RequestTyped, FinalIsLast, InTurn, Asks
<1>8. StoredIsComplete'
  <2>1. gate' # "store" /\ (told' = "done" => told = "done")
    BY <1>2 DEF Events
  <2>2. complete' = complete \/ complete' \in Nat
    BY <1>2 DEF Events
  <2>3. rows # {} => Asks("query") /\ complete' >= 0
    BY <2>2 DEF RequestInv, StoredIsComplete
  <2>4. {"exchange", "history"} \cap rows # {} => recorded = complete'
    BY <1>2 DEF RequestInv, StoredIsComplete, CompleteIsWhole, FinalIsLast
  <2> QED  BY <1>1, <2>1, <2>3, <2>4 DEF RequestInv, StoredIsComplete
<1>9. Faultless'
  <2> SUFFICES ASSUME faults = 0
               PROVE  /\ link \in {"open", "closed", "left"}
                      /\ \A i \in DOMAIN wire' : wire'[i].event \in {"delta", "done"}
                      /\ link = "closed" \/ gate' = "store" \/ told' # "nothing" => ~Working
                      /\ gate' = "read" /\ complete' < 0
                             /\ (link = "closed" \/ engine \in {"release", "over"}) =>
                             \E i \in DOMAIN wire' : wire'[i].event = "done"
    BY DEF Faultless
  <2>1. \A i \in DOMAIN wire : wire[i].event \in {"delta", "done"}
    BY DEF RequestInv, Faultless
  <2>2. gate' = gate /\ told' = told
    BY <1>2, <2>1
  <2>3. \A i \in DOMAIN wire' : wire'[i].event \in {"delta", "done"}
    BY <1>2, <2>1
  <2>4. ASSUME complete' < 0, link = "closed" \/ engine \in {"release", "over"}
        PROVE  \E i \in DOMAIN wire' : wire'[i].event = "done"
    <3>1. ~Sent(1, "done") /\ complete' = complete
      <4>1. ~Sent(1, "done")  BY <1>2, <2>4 DEF Events
      <4> QED  BY <1>2, <2>1, <4>1
    <3>2. PICK i \in DOMAIN wire : Sent(i, "done")
      BY <2>4, <3>1 DEF RequestInv, Faultless
    <3> QED  BY <1>2, <3>1, <3>2
  <2>5. /\ link \in {"open", "closed", "left"}
        /\ link = "closed" \/ gate = "store" \/ told # "nothing" => ~Working
    BY DEF RequestInv, Faultless
  <2> QED  BY <2>2, <2>3, <2>4, <2>5
<1>10. FailsForAReason'  BY DEF RequestInv, FailsForAReason, RequestTyped, Resting, Faultless
<1> QED  BY <1>3, <1>4, <1>5, <1>6, <1>7, <1>8, <1>9, <1>10 DEF RequestInv

LEMMA RequestEndOfStream == ASSUME RequestInv, EndOfStream PROVE RequestInv'
<1> USE DEF EndOfStream, Ended, End, engineVars, gateVars, gateway
<1>1. ask' = ask /\ Spaces' = Spaces /\ Together' = Together /\ Streamed' = Streamed
      /\ TooLong' = TooLong /\ \A kind : Asks(kind)' = Asks(kind)
  BY AskStays
<1>2. RequestTyped'  BY DEF RequestInv, RequestTyped
<1>3. Resting'  BY <1>1 DEF RequestInv, Resting
<1>4. FinalIsLast'  BY DEF RequestInv, FinalIsLast
<1>5. InTurn'  BY DEF RequestInv, InTurn
<1>6. CompleteIsWhole'  BY DEF RequestInv, CompleteIsWhole, Asks, Generated
<1>7. StoredIsComplete'  BY DEF RequestInv, StoredIsComplete, Asks
<1>8. Faultless'  BY DEF RequestInv, Faultless, Working
<1>9. FailsForAReason'  BY DEF RequestInv, FailsForAReason, RequestTyped, Resting, Faultless
<1> QED  BY <1>2, <1>3, <1>4, <1>5, <1>6, <1>7, <1>8, <1>9 DEF RequestInv

LEMMA RequestStore == ASSUME RequestInv, Store PROVE RequestInv'
<1> USE DEF Store, End, NextRow, engineVars, gateVars, gateway
<1>1. ask' = ask /\ Spaces' = Spaces /\ Together' = Together /\ Streamed' = Streamed
      /\ TooLong' = TooLong /\ \A kind : Asks(kind)' = Asks(kind)
  BY AskStays
<1>2. RequestTyped'  BY DEF RequestInv, RequestTyped
<1>3. Resting'  BY <1>1 DEF RequestInv, Resting
<1>4. FinalIsLast'  BY DEF RequestInv, FinalIsLast, Asks, Generated, Sent
<1>5. InTurn'  BY DEF RequestInv, InTurn
<1>6. CompleteIsWhole'  BY DEF RequestInv, CompleteIsWhole, Asks, Generated
<1>7. StoredIsComplete'  BY DEF RequestInv, StoredIsComplete, Asks
<1>8. Faultless'  BY DEF RequestInv, Faultless, Working
<1>9. FailsForAReason'  BY DEF RequestInv, FailsForAReason, Resting
<1> QED  BY <1>2, <1>3, <1>4, <1>5, <1>6, <1>7, <1>8, <1>9 DEF RequestInv

LEMMA RequestStoreFails == ASSUME RequestInv, StoreFails PROVE RequestInv'
<1> USE DEF StoreFails, End, NextRow, engineVars, gateVars, gateway
<1>1. ask' = ask /\ Spaces' = Spaces /\ Together' = Together /\ Streamed' = Streamed
      /\ TooLong' = TooLong /\ \A kind : Asks(kind)' = Asks(kind)
  BY AskStays
<1>2. RequestTyped'  BY DEF RequestInv, RequestTyped
<1>3. Resting'  BY <1>1 DEF RequestInv, Resting
<1>4. FinalIsLast'  BY DEF RequestInv, FinalIsLast, Asks, Generated, Sent
<1>5. InTurn'  BY DEF RequestInv, InTurn
<1>6. CompleteIsWhole'  BY DEF RequestInv, CompleteIsWhole, Asks, Generated
<1>7. StoredIsComplete'  BY DEF RequestInv, StoredIsComplete, Asks
<1>8. Faultless'  BY DEF RequestInv, Faultless, RequestTyped
<1>9. FailsForAReason'  BY DEF RequestInv, FailsForAReason, RequestTyped
<1> QED  BY <1>2, <1>3, <1>4, <1>5, <1>6, <1>7, <1>8, <1>9 DEF RequestInv

LEMMA RequestLeave == ASSUME RequestInv, Leave PROVE RequestInv'
<1> USE DEF Leave, engineVars, gateVars, gateway
<1>1. ask' = ask /\ Spaces' = Spaces /\ Together' = Together /\ Streamed' = Streamed
      /\ TooLong' = TooLong /\ \A kind : Asks(kind)' = Asks(kind)
  BY AskStays
<1>2. RequestTyped'
  <2>1. gate' \in {gate, "over"} /\ link' \in {link, "left"} /\ here' \in BOOLEAN
    OBVIOUS
  <2>2. UNCHANGED <<ask, tasks, engine, parts, complete, shown, faults, wire, rows, told>>
    OBVIOUS
  <2> HIDE DEF Leave
  <2> QED  BY <2>1, <2>2 DEF RequestInv, RequestTyped
<1>3. Resting'  BY <1>1 DEF RequestInv, Resting
<1>4. FinalIsLast'  BY DEF RequestInv, FinalIsLast, Asks, Generated, Sent
<1>5. InTurn'  BY DEF RequestInv, InTurn
<1>6. CompleteIsWhole'  BY DEF RequestInv, CompleteIsWhole, Asks, Generated
<1>7. StoredIsComplete'  BY DEF RequestInv, StoredIsComplete, Asks
<1>8. Faultless'  BY DEF RequestInv, Faultless, Sent, Working
<1>9. FailsForAReason'  BY DEF RequestInv, FailsForAReason, Resting
<1> QED  BY <1>2, <1>3, <1>4, <1>5, <1>6, <1>7, <1>8, <1>9 DEF RequestInv

LEMMA RequestTakeLease == ASSUME RequestInv, NEW s \in {Own, Public}, TakeLease(s) PROVE RequestInv'
<1> USE DEF TakeLease, engineVars, gateVars, gateway
<1>1. ask' = ask /\ Spaces' = Spaces /\ Together' = Together /\ Streamed' = Streamed
      /\ TooLong' = TooLong /\ \A kind : Asks(kind)' = Asks(kind)
  BY AskStays
<1>2. RequestTyped'  BY DEF RequestInv, RequestTyped
<1>3. Resting'  BY <1>1 DEF RequestInv, Resting
<1>4. FinalIsLast'  BY DEF RequestInv, FinalIsLast, Asks, Generated, Sent
<1>5. InTurn'  BY DEF RequestInv, InTurn, Sent
<1>6. CompleteIsWhole'  BY DEF RequestInv, CompleteIsWhole, Asks, Generated
<1>7. StoredIsComplete'  BY DEF RequestInv, StoredIsComplete, Asks
<1>8. Faultless'  BY DEF RequestInv, Faultless, Sent, Working
<1>9. FailsForAReason'  BY DEF RequestInv, FailsForAReason, RequestTyped, Faultless, Working
<1> QED  BY <1>2, <1>3, <1>4, <1>5, <1>6, <1>7, <1>8, <1>9 DEF RequestInv

LEMMA RequestSpaceDone == ASSUME RequestInv, NEW s \in {Own, Public}, SpaceDone(s) PROVE RequestInv'
<1> USE DEF SpaceDone, engineVars, gateVars, gateway
<1>1. ask' = ask /\ Spaces' = Spaces /\ Together' = Together /\ Streamed' = Streamed
      /\ TooLong' = TooLong /\ \A kind : Asks(kind)' = Asks(kind)
  BY AskStays
<1>2. RequestTyped'  BY DEF RequestInv, RequestTyped
<1>3. Resting'  BY <1>1 DEF RequestInv, Resting
<1>4. FinalIsLast'  BY DEF RequestInv, FinalIsLast, Asks, Generated, Sent
<1>5. InTurn'  BY DEF RequestInv, InTurn, Sent
<1>6. CompleteIsWhole'  BY DEF RequestInv, CompleteIsWhole, Asks, Generated
<1>7. StoredIsComplete'  BY DEF RequestInv, StoredIsComplete, Asks
<1>8. Faultless'  BY DEF RequestInv, Faultless, Sent, Working
<1>9. FailsForAReason'  BY DEF RequestInv, FailsForAReason, RequestTyped, Faultless, Working
<1> QED  BY <1>2, <1>3, <1>4, <1>5, <1>6, <1>7, <1>8, <1>9 DEF RequestInv

LEMMA RequestJoin == ASSUME RequestInv, Join PROVE RequestInv'
<1> USE DEF Join, AllDone, Close, engineVars, gateVars, gateway
<1>1. ask' = ask /\ Spaces' = Spaces /\ Together' = Together /\ Streamed' = Streamed
      /\ TooLong' = TooLong /\ \A kind : Asks(kind)' = Asks(kind)
  BY AskStays
<1>2. /\ wire' \in Seq(Events)
      /\ link # "open" => wire' = wire
      /\ link = "open" =>
             /\ Len(wire') = Len(wire) + 1 /\ DOMAIN wire' = 1..(Len(wire) + 1)
             /\ \A i \in DOMAIN wire : wire'[i] = wire[i]
             /\ wire'[Len(wire) + 1] = [event |-> "done", part |-> 0]
  BY SendAppends DEF RequestInv, RequestTyped
<1>3. RequestTyped'  BY <1>2 DEF RequestInv, RequestTyped
<1>4. Resting'  BY <1>1 DEF RequestInv, Resting
<1>5. FinalIsLast'  BY DEF RequestInv, FinalIsLast, Asks
<1>6. InTurn'  BY DEF RequestInv, InTurn, RequestTyped, Asks
<1>7. CompleteIsWhole'  BY DEF RequestInv, CompleteIsWhole, Asks
<1>8. StoredIsComplete'  BY DEF RequestInv, StoredIsComplete, Asks
<1>9. Faultless'  BY <1>2 DEF RequestInv, Faultless, RequestTyped, Resting, Sent, Working
<1>10. FailsForAReason'  BY DEF RequestInv, FailsForAReason, RequestTyped, Faultless, Working
<1> QED  BY <1>3, <1>4, <1>5, <1>6, <1>7, <1>8, <1>9, <1>10 DEF RequestInv

LEMMA RequestEvidenceOfOne == ASSUME RequestInv, EvidenceOfOne PROVE RequestInv'
<1> USE DEF EvidenceOfOne, engineVars, gateVars, gateway
<1>1. ask' = ask /\ Spaces' = Spaces /\ Together' = Together /\ Streamed' = Streamed
      /\ TooLong' = TooLong /\ \A kind : Asks(kind)' = Asks(kind)
  BY AskStays
<1>2. RequestTyped'  BY DEF RequestInv, RequestTyped
<1>3. Resting'  BY <1>1 DEF RequestInv, Resting
<1>4. FinalIsLast'  BY DEF RequestInv, FinalIsLast, Generated, Sent
<1>5. InTurn'  BY DEF RequestInv, InTurn, Sent
<1>6. CompleteIsWhole'  BY DEF RequestInv, CompleteIsWhole, Generated
<1>7. StoredIsComplete'  BY DEF RequestInv, StoredIsComplete, Asks
<1>8. Faultless'  BY DEF RequestInv, Faultless, Working
<1>9. FailsForAReason'  BY DEF RequestInv, FailsForAReason, RequestTyped, Faultless, Working
<1> QED  BY <1>2, <1>3, <1>4, <1>5, <1>6, <1>7, <1>8, <1>9 DEF RequestInv

LEMMA RequestEvidenceOfAll == ASSUME RequestInv, EvidenceOfAll PROVE RequestInv'
<1> USE DEF EvidenceOfAll, AllDone, engineVars, gateVars, gateway
<1>1. ask' = ask /\ Spaces' = Spaces /\ Together' = Together /\ Streamed' = Streamed
      /\ TooLong' = TooLong /\ \A kind : Asks(kind)' = Asks(kind)
  BY AskStays
<1>2. RequestTyped'  BY DEF RequestInv, RequestTyped
<1>3. Resting'  BY <1>1, OwnIsAsked DEF RequestInv, Resting, RequestTyped
<1>4. FinalIsLast'  BY DEF RequestInv, FinalIsLast, Generated, Sent
<1>5. InTurn'  BY DEF RequestInv, InTurn, Sent
<1>6. CompleteIsWhole'  BY DEF RequestInv, CompleteIsWhole, Generated
<1>7. StoredIsComplete'  BY DEF RequestInv, StoredIsComplete, Asks
<1>8. Faultless'  BY DEF RequestInv, Faultless, Working
<1>9. FailsForAReason'  BY DEF RequestInv, FailsForAReason, RequestTyped, Faultless, Working
<1> QED  BY <1>2, <1>3, <1>4, <1>5, <1>6, <1>7, <1>8, <1>9 DEF RequestInv

LEMMA RequestPrimary == ASSUME RequestInv, Primary PROVE RequestInv'
<1> USE DEF Primary, engineVars, gateVars, gateway
<1>1. ask' = ask /\ Spaces' = Spaces /\ Together' = Together /\ Streamed' = Streamed
      /\ TooLong' = TooLong /\ \A kind : Asks(kind)' = Asks(kind)
  BY AskStays
<1>2. RequestTyped'  BY DEF RequestInv, RequestTyped
<1>3. Resting'  BY <1>1 DEF RequestInv, Resting
<1>4. FinalIsLast'  BY DEF RequestInv, FinalIsLast, Asks, Generated, Sent
<1>5. InTurn'  BY DEF RequestInv, InTurn, Sent
<1>6. CompleteIsWhole'  BY DEF RequestInv, CompleteIsWhole, Asks, Generated
<1>7. StoredIsComplete'  BY DEF RequestInv, StoredIsComplete, Asks
<1>8. Faultless'  BY DEF RequestInv, Faultless, Working
<1>9. FailsForAReason'  BY DEF RequestInv, FailsForAReason, RequestTyped, Faultless, Working
<1> QED  BY <1>2, <1>3, <1>4, <1>5, <1>6, <1>7, <1>8, <1>9 DEF RequestInv

LEMMA RequestGenerate == ASSUME RequestInv, Generate PROVE RequestInv'
<1> USE DEF Generate, engineVars, gateVars, gateway, Generated, Sent, Working
<1>1. ask' = ask /\ Spaces' = Spaces /\ Together' = Together /\ Streamed' = Streamed
      /\ TooLong' = TooLong /\ \A kind : Asks(kind)' = Asks(kind)
  BY AskStays
<1>2. /\ wire' \in Seq(Events)
      /\ link # "open" => wire' = wire
      /\ Streamed /\ link = "open" =>
             /\ Len(wire') = Len(wire) + 1 /\ DOMAIN wire' = 1..(Len(wire) + 1)
             /\ \A i \in DOMAIN wire : wire'[i] = wire[i]
             /\ wire'[Len(wire) + 1] = [event |-> "delta", part |-> parts + 1]
  BY SendAppends DEF RequestInv, RequestTyped
<1>3. RequestTyped'  BY <1>2 DEF RequestInv, RequestTyped
<1>4. Resting'  BY <1>1 DEF RequestInv, Resting
<1>5. FinalIsLast'  BY <1>2 DEF RequestInv, FinalIsLast, RequestTyped, Asks
<1>6. InTurn'
  <2> SUFFICES ASSUME ask.stream, gate = "read"
               PROVE  /\ \A i \in DOMAIN wire' :
                             /\ wire'[i].event = "delta" =>
                                    wire'[i].part = shown + i /\ shown + i <= parts'
                             /\ wire'[i].event = "done" => parts' = shown + i - 1
                      /\ link = "open" => parts' = shown + Len(wire')
    BY <1>1 DEF InTurn
  <2>1. /\ \A i \in DOMAIN wire : Sent(i, "delta") => wire[i].part = shown + i /\ shown + i <= parts
        /\ link = "open" => parts = shown + Len(wire)
        /\ parts \in Nat /\ shown \in Nat /\ wire \in Seq(Events) /\ parts' = parts + 1
    BY DEF RequestInv, InTurn, RequestTyped
  <2>2. \A i \in DOMAIN wire : ~Sent(i, "done")
    BY DEF RequestInv, RequestTyped, FinalIsLast, Asks
  <2>3. CASE link = "open"
    <3>1. Streamed  BY DEF Streamed
    <3> QED  BY <1>2, <2>1, <2>2, <2>3, <3>1
  <2>4. CASE link # "open"
    BY <1>2, <2>1, <2>2, <2>4
  <2> QED  BY <2>3, <2>4
<1>7. CompleteIsWhole'  BY DEF RequestInv, CompleteIsWhole, Asks
<1>8. StoredIsComplete'  BY DEF RequestInv, StoredIsComplete, Asks
<1>9. Faultless'
  <2>1. \A i \in DOMAIN wire' : faults = 0 => wire'[i].event \in {"delta", "done"}
    BY <1>2 DEF RequestInv, Faultless
  <2> QED  BY <1>1, <2>1 DEF RequestInv, RequestTyped, Faultless
<1>10. FailsForAReason'  BY DEF RequestInv, FailsForAReason, RequestTyped, Faultless
<1> QED  BY <1>3, <1>4, <1>5, <1>6, <1>7, <1>8, <1>9, <1>10 DEF RequestInv

LEMMA RequestStopText == ASSUME RequestInv, StopText PROVE RequestInv'
<1> USE DEF StopText, engineVars, gateVars, gateway
<1>1. ask' = ask /\ Spaces' = Spaces /\ Together' = Together /\ Streamed' = Streamed
      /\ TooLong' = TooLong /\ \A kind : Asks(kind)' = Asks(kind)
  BY AskStays
<1>2. RequestTyped'  BY DEF RequestInv, RequestTyped
<1>3. Resting'  BY <1>1 DEF RequestInv, Resting
<1>4. FinalIsLast'  BY DEF RequestInv, FinalIsLast, Asks, Generated, Sent
<1>5. InTurn'  BY DEF RequestInv, InTurn, Sent
<1>6. CompleteIsWhole'  BY DEF RequestInv, CompleteIsWhole, Asks, Generated
<1>7. StoredIsComplete'  BY DEF RequestInv, StoredIsComplete, Asks
<1>8. Faultless'  BY DEF RequestInv, Faultless, Working
<1>9. FailsForAReason'  BY DEF RequestInv, FailsForAReason, RequestTyped, Faultless, Working
<1> QED  BY <1>2, <1>3, <1>4, <1>5, <1>6, <1>7, <1>8, <1>9 DEF RequestInv

LEMMA RequestSendDone == ASSUME RequestInv, SendDone PROVE RequestInv'
<1> USE DEF SendDone, engineVars, gateVars, gateway
<1>1. ask' = ask /\ Spaces' = Spaces /\ Together' = Together /\ Streamed' = Streamed
      /\ TooLong' = TooLong /\ \A kind : Asks(kind)' = Asks(kind)
  BY AskStays
<1>2. /\ wire' \in Seq(Events)
      /\ link # "open" => wire' = wire
      /\ link = "open" =>
             /\ Len(wire') = Len(wire) + 1 /\ DOMAIN wire' = 1..(Len(wire) + 1)
             /\ \A i \in DOMAIN wire : wire'[i] = wire[i]
             /\ wire'[Len(wire) + 1] = [event |-> "done", part |-> parts]
  BY SendAppends DEF RequestInv, RequestTyped
<1>3. RequestTyped'  BY <1>2 DEF RequestInv, RequestTyped
<1>4. Resting'  BY <1>1 DEF RequestInv, Resting
<1>5. FinalIsLast'  BY <1>2 DEF RequestInv, FinalIsLast, RequestTyped, Asks, Generated, Sent
<1>6. InTurn'  BY <1>2 DEF RequestInv, InTurn, Sent
<1>7. CompleteIsWhole'  BY DEF RequestInv, CompleteIsWhole, Asks, Generated
<1>8. StoredIsComplete'  BY DEF RequestInv, StoredIsComplete, Asks
<1>9. Faultless'  BY <1>2 DEF RequestInv, Faultless, RequestTyped, Resting, Sent, Working
<1>10. FailsForAReason'  BY DEF RequestInv, FailsForAReason, RequestTyped, Faultless, Working
<1> QED  BY <1>3, <1>4, <1>5, <1>6, <1>7, <1>8, <1>9, <1>10 DEF RequestInv

LEMMA RequestRelease == ASSUME RequestInv, Release PROVE RequestInv'
<1> USE DEF Release, Returned, Close, engineVars, gateVars, gateway
<1>1. ask' = ask /\ Spaces' = Spaces /\ Together' = Together /\ Streamed' = Streamed
      /\ TooLong' = TooLong /\ \A kind : Asks(kind)' = Asks(kind)
  BY AskStays
<1>2. /\ wire' \in Seq(Events)
      /\ link # "open" => wire' = wire
      /\ ~Streamed /\ link = "open" =>
             /\ Len(wire') = Len(wire) + 1 /\ DOMAIN wire' = 1..(Len(wire) + 1)
             /\ \A i \in DOMAIN wire : wire'[i] = wire[i]
             /\ wire'[Len(wire) + 1] = [event |-> "done", part |-> parts]
  BY SendAppends DEF RequestInv, RequestTyped
<1>3. RequestTyped'  BY <1>2 DEF RequestInv, RequestTyped
<1>4. Resting'  BY <1>1 DEF RequestInv, Resting, RequestTyped
<1>5. FinalIsLast'  BY <1>2 DEF RequestInv, FinalIsLast, RequestTyped, Asks, Generated, Sent
<1>6. InTurn'  BY <1>1, <1>2 DEF RequestInv, InTurn, Sent
<1>7. CompleteIsWhole'  BY DEF RequestInv, CompleteIsWhole, Asks, Generated
<1>8. StoredIsComplete'  BY DEF RequestInv, StoredIsComplete, Asks
<1>9. Faultless'  BY <1>2 DEF RequestInv, Faultless, RequestTyped, Resting, Sent, Working
<1>10. FailsForAReason'  BY DEF RequestInv, FailsForAReason, RequestTyped, Faultless, Working
<1> QED  BY <1>3, <1>4, <1>5, <1>6, <1>7, <1>8, <1>9, <1>10 DEF RequestInv

LEMMA RequestCancelled == ASSUME RequestInv, Cancelled PROVE RequestInv'
<1> USE DEF Cancelled, Returned, engineVars, gateVars, gateway
<1>1. ask' = ask /\ Spaces' = Spaces /\ Together' = Together /\ Streamed' = Streamed
      /\ TooLong' = TooLong /\ \A kind : Asks(kind)' = Asks(kind)
  BY AskStays
<1>2. RequestTyped'  BY DEF RequestInv, RequestTyped
<1>3. Resting'  BY <1>1 DEF RequestInv, Resting, RequestTyped
<1>4. FinalIsLast'  BY DEF RequestInv, FinalIsLast, Asks, Generated, Sent
<1>5. InTurn'  BY DEF RequestInv, InTurn, Sent
<1>6. CompleteIsWhole'  BY DEF RequestInv, CompleteIsWhole, Asks, Generated
<1>7. StoredIsComplete'  BY DEF RequestInv, StoredIsComplete, Asks
<1>8. Faultless'  BY DEF RequestInv, Faultless, Resting, Working
<1>9. FailsForAReason'  BY DEF RequestInv, FailsForAReason, RequestTyped, Faultless, Working
<1> QED  BY <1>2, <1>3, <1>4, <1>5, <1>6, <1>7, <1>8, <1>9 DEF RequestInv

LEMMA RequestFails == ASSUME RequestInv, NEW s \in {Own, Public}, Fails(s) PROVE RequestInv'
<1> USE DEF Fails, Close, engineVars, gateVars, gateway, Generated, Sent, Working
<1>1. ask' = ask /\ Spaces' = Spaces /\ Together' = Together /\ Streamed' = Streamed
      /\ TooLong' = TooLong /\ \A kind : Asks(kind)' = Asks(kind)
  BY AskStays
<1>2. /\ wire' \in Seq(Events)
      /\ link # "open" => wire' = wire
      /\ engine # "over" /\ link = "open" =>
             /\ Len(wire') = Len(wire) + 1 /\ DOMAIN wire' = 1..(Len(wire) + 1)
             /\ \A i \in DOMAIN wire : wire'[i] = wire[i]
             /\ wire'[Len(wire) + 1].event \in {"unavailable", "failed"}
  <2>1. CASE engine = "over"
    BY <2>1 DEF RequestInv, RequestTyped
  <2>2. CASE engine # "over"
    <3>1. PICK kind \in {"unavailable", "failed"} : Send(kind, 0)
      BY <2>2
    <3>2. wire \in Seq(Events)  BY DEF RequestInv, RequestTyped
    <3>3. kind \in {"delta", "done", "unavailable", "failed"} /\ 0 \in Nat  BY <3>1
    <3>4. /\ wire' \in Seq(Events)
          /\ link # "open" => wire' = wire
          /\ link = "open" =>
                 /\ Len(wire') = Len(wire) + 1 /\ DOMAIN wire' = 1..(Len(wire) + 1)
                 /\ \A i \in DOMAIN wire : wire'[i] = wire[i]
                 /\ wire'[Len(wire) + 1] = [event |-> kind, part |-> 0]
      BY <3>1, <3>2, <3>3, SendAppends
    <3> HIDE DEF Fails, Close
    <3> QED  BY <2>2, <3>4
  <2> QED  BY <2>1, <2>2
<1>3. RequestTyped'  BY <1>2 DEF RequestInv, RequestTyped
<1>4. Resting'
  <2>1. engine # "idle" /\ engine' = "over" /\ gate # "start"
    BY DEF RequestInv, Resting
  <2>2. ASSUME NEW t \in {Own, Public}, tasks[t] = "none"
        PROVE  tasks'[t] = "none"
    BY <2>2 DEF RequestInv, RequestTyped
  <2>3. UNCHANGED <<gate, told>> /\ (link' = "left" => link = "left")
    OBVIOUS
  <2> QED  BY <1>1, <2>1, <2>2, <2>3 DEF RequestInv, Resting
<1>5. FinalIsLast'  BY <1>2 DEF RequestInv, FinalIsLast, RequestTyped, Asks
<1>6. InTurn'  BY <1>1, <1>2 DEF RequestInv, InTurn, RequestTyped
<1>7. CompleteIsWhole'  BY DEF RequestInv, CompleteIsWhole, Asks
<1>8. StoredIsComplete'  BY DEF RequestInv, StoredIsComplete, Asks
<1>9. Faultless'  BY DEF RequestInv, Faultless, RequestTyped
<1>10. FailsForAReason'  BY DEF RequestInv, FailsForAReason, RequestTyped
<1> QED  BY <1>3, <1>4, <1>5, <1>6, <1>7, <1>8, <1>9, <1>10 DEF RequestInv

LEMMA RequestBreak == ASSUME RequestInv, Break PROVE RequestInv'
<1> USE DEF Break, engineVars, gateVars, gateway
<1>1. ask' = ask /\ Spaces' = Spaces /\ Together' = Together /\ Streamed' = Streamed
      /\ TooLong' = TooLong /\ \A kind : Asks(kind)' = Asks(kind)
  BY AskStays
<1>2. /\ wire' \in Seq(Events) /\ DOMAIN wire' \subseteq DOMAIN wire
      /\ \A i \in DOMAIN wire' : wire'[i] = wire[i]
  BY PrefixOfWire DEF RequestInv, RequestTyped
<1>3. RequestTyped'  BY <1>2 DEF RequestInv, RequestTyped
<1>4. Resting'  BY <1>1 DEF RequestInv, Resting
<1>5. FinalIsLast'  BY <1>2 DEF RequestInv, FinalIsLast, Generated, Sent
<1>6. InTurn'  BY <1>2 DEF RequestInv, InTurn, Sent
<1>7. CompleteIsWhole'  BY DEF RequestInv, CompleteIsWhole, Generated
<1>8. StoredIsComplete'  BY DEF RequestInv, StoredIsComplete, Asks
<1>9. Faultless'  BY DEF RequestInv, Faultless, RequestTyped
<1>10. FailsForAReason'  BY DEF RequestInv, FailsForAReason, Resting
<1> QED  BY <1>3, <1>4, <1>5, <1>6, <1>7, <1>8, <1>9, <1>10 DEF RequestInv

LEMMA RequestSteps == RequestInv /\ [RequestNext]_requestVars => RequestInv'
<1> SUFFICES ASSUME RequestInv, [RequestNext]_requestVars PROVE RequestInv'
  OBVIOUS
<1>1. CASE Gateway
  BY <1>1, RequestStart, RequestReceive, RequestEndOfStream, RequestStore DEF Gateway
<1>2. CASE StoreFails \/ Leave \/ Break
  BY <1>2, RequestStoreFails, RequestLeave, RequestBreak
<1>3. CASE \E s \in {Own, Public} : TakeLease(s) \/ SpaceDone(s) \/ Fails(s)
  BY <1>3, RequestTakeLease, RequestSpaceDone, RequestFails
<1>4. CASE Join \/ EvidenceOfOne \/ EvidenceOfAll \/ Primary
  BY <1>4, RequestJoin, RequestEvidenceOfOne, RequestEvidenceOfAll, RequestPrimary
<1>5. CASE Generate \/ StopText \/ SendDone \/ Release \/ Cancelled
  BY <1>5, RequestGenerate, RequestStopText, RequestSendDone, RequestRelease, RequestCancelled
<1>6. CASE UNCHANGED requestVars
  <2>1. TooLong' = TooLong /\ Spaces' = Spaces
    BY <1>6, AskStays DEF requestVars
  <2> QED
    BY <1>6, <2>1
       DEF requestVars, engineVars, gateVars, RequestInv, RequestTyped, Resting, FinalIsLast,
           InTurn, CompleteIsWhole, StoredIsComplete, Faultless, FailsForAReason, Generated, Sent,
           Asks, Working
<1> QED  BY <1>1, <1>2, <1>3, <1>4, <1>5, <1>6 DEF RequestNext, Engine

(* What a reader is told is true: an answer that is told of as complete was
   shown and is stored as a whole, no space is at work for who has its answer,
   and only a fault or a long conversation makes a request fail (stream_query,
   _consume_scoped_query, _persist_completed_query), whatever the spaces hold,
   in how many parts the answer comes and how often something fails. *)
THEOREM ReadersAreToldTheTruth == RequestSpec => []ToldIsTrue
<1>1. RequestInit => RequestInv  BY RequestStarts
<1>2. RequestInv /\ [RequestNext]_requestVars => RequestInv'  BY RequestSteps
<1>3. RequestInv => ToldIsTrue  BY InvTellsTrue
<1> QED  BY <1>1, <1>2, <1>3, PTL DEF RequestSpec
================================================================================
