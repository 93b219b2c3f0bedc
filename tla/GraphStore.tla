------------------------------ MODULE GraphStore ------------------------------
(***************************************************************************)
(* The classic graph of all documents and its three backends               *)
(* (backend/storage/graph_repository.py, storage/file_store.py).  A thread *)
(* of an index run publishes the graph of a document or takes it back; the *)
(* API's event loop removes a document, and reads.                         *)
(*                                                                         *)
(* filesystem: two files, loaded, changed and saved one after the other.   *)
(* postgres:   one transaction, and a copy of both tables in each process, *)
(*             good for 30 seconds, that a write of the process discards.  *)
(* neo4j:      one statement at a time; documents share entities.          *)
(*                                                                         *)
(* Two operations on one document at a time are the matter of              *)
(* IndexPipeline.  Chunks, embeddings and properties other than those that *)
(* identify a row are left out.                                            *)
(***************************************************************************)
EXTENDS GraphBuild, GraphReads, FiniteSets

CONSTANTS Docs, MaxOps, Parses

ASSUME GraphStoreAssumption == MaxOps \in Nat /\ \A parse \in Parses : DOMAIN parse \subseteq Nat

NoParse == <<>>
Actors == {"worker", "api"}
NoOp == [pc |-> "idle", doc |-> "", new |-> NoParse, nodes |-> {}, edges |-> {}, stale |-> FALSE]
NoCache == [valid |-> FALSE, nodes |-> {}, edges |-> {}]

VARIABLES backend, oneProcess, \* get_graph_repository; API and index runs in one process
          nodes, edges,        \* what is stored; an edge is undirected
          mentions,            \* neo4j: (d)-[:MENTIONS_ENTITY]->(e), and documents
          op,                  \* the operation of each actor, and its loaded copies
          cache, reader,       \* postgres, API process: the copy; a refresh under way
          left,                \* operations still to begin
          published,           \* history: what is published of each document
          lost,     \* history: a save overwrote the save of another
          hidden,   \* history: nodes that were left out for one of another document
          shared,   \* history: entities one document wrote over another's
          missed    \* history: a commit since the last refresh began that the API's
                    \* process need not have noticed

store == <<nodes, edges, mentions>>
history == <<published, lost, hidden, shared, missed>>
vars == <<backend, oneProcess, store, op, cache, reader, left, history>>

TypeOK ==
    /\ backend \in {"filesystem", "postgres", "neo4j"} /\ oneProcess \in BOOLEAN
    /\ \A n \in nodes : n.doc \in Docs
    /\ \A e \in edges : e.doc \in Docs /\ Cardinality(e.ends) = 2
    /\ \A m \in mentions : m[1] \in Docs
    /\ \A a \in Actors : op[a].pc \in {"idle", "begin", "edges", "save", "save edges",
                                       "reset", "merge", "drop", "done"}
    /\ cache.valid \in BOOLEAN /\ reader \in {"idle", "nodes", "edges", "store"}
    /\ left \in 0..MaxOps
    /\ published \in [Docs -> Parses \cup {NoParse}]

Init ==
    /\ backend \in {"filesystem", "postgres", "neo4j"}
    /\ oneProcess \in IF backend = "postgres" THEN BOOLEAN ELSE {TRUE}
    /\ nodes = {} /\ edges = {} /\ mentions = {}
    /\ op = [a \in Actors |-> NoOp]
    /\ cache = NoCache /\ reader = "idle"
    /\ left = MaxOps
    /\ published = [d \in Docs |-> NoParse]
    /\ lost = FALSE /\ hidden = {} /\ shared = {} /\ missed = FALSE

-----------------------------------------------------------------------------
At(a, place) == op[a].pc = place
Go(a, place) == op' = [op EXCEPT ![a].pc = place]
Idle == <<backend, oneProcess, left>>
NoRead == UNCHANGED <<cache, reader>>

(* upsert_document_graph of a parse, or remove_document.  The API's event loop
   runs one call to its end before it takes the next: its removals and its
   reads exclude each other. *)
Begin(a, d, new) ==
    /\ At(a, "idle") /\ left > 0
    /\ \A b \in Actors : op[b].pc # "idle" => op[b].doc # d
    /\ a = "api" => new = NoParse /\ reader = "idle"
    /\ op' = [op EXCEPT ![a] = [NoOp EXCEPT !.pc = "begin", !.doc = d, !.new = new]]
    /\ left' = left - 1
    /\ UNCHANGED <<backend, oneProcess, store, cache, reader, history>>

Ends(a) ==
    /\ Go(a, "idle")
    /\ published' = [published EXCEPT ![op[a].doc] = op[a].new]

Others(rows, d) == {r \in rows : r.doc # d}

(* What an operation writes of its document: a removal builds no graph. *)
NodesOf(parse, d) == IF parse = NoParse THEN {} ELSE BuildNodes(parse, d)
EdgesOf(parse, d) == IF parse = NoParse THEN {} ELSE BuildEdges(parse, d)

(* An edge joins entities of its own document, as phase 2 of build_kg has made a
   node of every entity of every page. *)
ASSUME EdgesJoinNodes ==
    \A parse \in Parses, d \in Docs :
        \A e \in EdgesOf(parse, d) : e.ends \subseteq Ids(NodesOf(parse, d))

-----------------------------------------------------------------------------
(* merge_kg and remove_doc_from_kg of the file store. *)
FileLoadNodes(a) ==
    /\ backend = "filesystem" /\ At(a, "begin")
    /\ op' = [op EXCEPT ![a].pc = "edges", ![a].nodes = nodes, ![a].stale = FALSE]
    /\ NoRead /\ UNCHANGED <<Idle, store, history>>

FileLoadEdges(a) ==
    /\ backend = "filesystem" /\ At(a, "edges")
    /\ op' = [op EXCEPT ![a].pc = "save", ![a].edges = edges]
    /\ NoRead /\ UNCHANGED <<Idle, store, history>>

(* New nodes that another document's node stands for are left out; of the new
   edges between two nodes the first one is kept, whatever its page. *)
MergedNodes(rows, d, parse) ==
    Others(rows, d) \cup {n \in NodesOf(parse, d) :
                              \A r \in Others(rows, d) : r.name # n.name}
AppendedEdges(rows, d, parse) == \* Variant: the old edges of the document are kept.
    rows \cup EdgesOf(parse, d)
MergedEdges(rows, d, parse) ==
    Others(rows, d) \cup {e \in EdgesOf(parse, d) :
                              \A f \in EdgesOf(parse, d) : f.ends = e.ends => e.page <= f.page}

(* What others have loaded gets old with a save. *)
Saved(a, place) ==
    op' = [b \in Actors |-> IF b = a THEN [op[a] EXCEPT !.pc = place]
                            ELSE [op[b] EXCEPT !.stale = op[b].pc \in {"edges", "save", "save edges"}]]

FileSaveNodes(a) ==
    LET d == op[a].doc IN
    /\ backend = "filesystem" /\ At(a, "save")
    /\ nodes' = MergedNodes(op[a].nodes, d, op[a].new)
    /\ Saved(a, "save edges")
    /\ lost' = (lost \/ op[a].stale)
    /\ hidden' = {h \in hidden : h.doc # d} \cup (NodesOf(op[a].new, d) \ nodes')
    /\ NoRead /\ UNCHANGED <<Idle, edges, mentions, published, shared, missed>>

FileSaveEdges(a) ==
    /\ backend = "filesystem" /\ At(a, "save edges")
    /\ edges' = MergedEdges(op[a].edges, op[a].doc, op[a].new)
    /\ Saved(a, "done")
    /\ lost' = (lost \/ op[a].stale)
    /\ NoRead /\ UNCHANGED <<Idle, nodes, mentions, published, hidden, shared, missed>>

-----------------------------------------------------------------------------
(* The transactions of PostgresGraphRepository; the copy is discarded after. *)
PostgresCommit(a) ==
    LET d == op[a].doc IN
    /\ backend = "postgres" /\ At(a, "begin") /\ Go(a, "reset")
    /\ nodes' = Others(nodes, d) \cup NodesOf(op[a].new, d)
    /\ edges' = Others(edges, d) \cup EdgesOf(op[a].new, d)
    /\ missed' = (missed \/ (a = "worker" /\ ~oneProcess) \/ reader # "idle")
    /\ NoRead /\ UNCHANGED <<Idle, mentions, published, lost, hidden, shared>>

PostgresKeep(a) == \* Variant: the copy is not discarded.
    /\ backend = "postgres" /\ At(a, "reset") /\ Go(a, "done")
    /\ NoRead /\ UNCHANGED <<Idle, store, history>>
PostgresReset(a) ==
    /\ backend = "postgres" /\ At(a, "reset") /\ Go(a, "done")
    /\ cache' = [cache EXCEPT !.valid = @ /\ a = "worker" /\ ~oneProcess]
    /\ UNCHANGED <<Idle, store, reader, history>>

(* _refresh_cache: two queries, each of which sees what is committed, and three
   assignments; it does nothing while the copy is good. *)
RefreshNodes ==
    /\ backend = "postgres" /\ reader = "idle" /\ ~cache.valid /\ At("api", "idle")
    /\ reader' = "edges"
    /\ cache' = [cache EXCEPT !.nodes = nodes]
    /\ missed' = FALSE
    /\ UNCHANGED <<Idle, store, op, published, lost, hidden, shared>>

RefreshEdges ==
    /\ reader = "edges" /\ reader' = "store"
    /\ cache' = [cache EXCEPT !.edges = edges]
    /\ UNCHANGED <<Idle, store, op, history>>

RefreshStore ==
    /\ reader = "store" /\ reader' = "idle"
    /\ cache' = [cache EXCEPT !.valid = TRUE]
    /\ UNCHANGED <<Idle, store, op, history>>

CacheExpires ==
    /\ cache.valid /\ reader = "idle"
    /\ cache' = NoCache
    /\ UNCHANGED <<Idle, store, op, reader, history>>

-----------------------------------------------------------------------------
(* Neo4jGraphRepository: the nodes one by one, then the edges.  An entity is
   known by its identity alone, and gets the document that wrote it last. *)
Neo4jMergeDocument(a) ==
    /\ backend = "neo4j" /\ At(a, "begin") /\ op[a].new # NoParse
    /\ op' = [op EXCEPT ![a].pc = "merge", ![a].nodes = NodesOf(op[a].new, op[a].doc),
                        ![a].edges = EdgesOf(op[a].new, op[a].doc)]
    /\ NoRead /\ UNCHANGED <<Idle, store, history>>

Neo4jMergeNode(a) == \E n \in op[a].nodes :
    /\ At(a, "merge") /\ \A m \in op[a].nodes : n.id[2] <= m.id[2]
    /\ op' = [op EXCEPT ![a].nodes = @ \ {n}]
    /\ nodes' = {m \in nodes : m.id # n.id} \cup {n}
    /\ mentions' = mentions \cup {<<n.doc, n.id>>}
    /\ shared' = shared \cup Ids({m \in nodes : m.id = n.id /\ (m.doc # n.doc \/ \E d \in Docs \ {n.doc} : <<d, n.id>> \in mentions)})
    /\ NoRead /\ UNCHANGED <<Idle, edges, published, lost, hidden, missed>>

(* MERGE finds the relationship between two entities whatever document or page
   it is of, and rewrites it. *)
Neo4jMergeEdge(a) == \E e \in op[a].edges :
    /\ At(a, "merge") /\ op[a].nodes = {} /\ \A f \in op[a].edges : e.page <= f.page
    /\ op' = [op EXCEPT ![a].edges = @ \ {e}]
    /\ edges' = IF e.ends \subseteq Ids(nodes)
                THEN {f \in edges : f.ends # e.ends} \cup {e} ELSE edges
    /\ NoRead /\ UNCHANGED <<Idle, nodes, mentions, history>>

Neo4jMerged(a) ==
    /\ At(a, "merge") /\ op[a].nodes = {} /\ op[a].edges = {} /\ Go(a, "done")
    /\ NoRead /\ UNCHANGED <<Idle, store, history>>

(* remove_document: the document with its mentions, then the entities it wrote
   last and nobody mentions. *)
Neo4jRemoveDocument(a) ==
    /\ backend = "neo4j" /\ At(a, "begin") /\ op[a].new = NoParse /\ Go(a, "drop")
    /\ mentions' = {m \in mentions : m[1] # op[a].doc}
    /\ NoRead /\ UNCHANGED <<Idle, nodes, edges, history>>

Written(d) == {n \in nodes : n.doc = d} \* Variant: mentions are not looked at.
Unmentioned(d) == {n \in nodes : n.doc = d /\ \A m \in mentions : m[2] # n.id}

Neo4jRemoveEntities(a) ==
    LET gone == Unmentioned(op[a].doc) IN
    /\ At(a, "drop") /\ Go(a, "done")
    /\ nodes' = nodes \ gone
    /\ edges' = {e \in edges : e.ends \cap Ids(gone) = {}}
    /\ NoRead /\ UNCHANGED <<Idle, mentions, history>>

Return(a) ==
    /\ At(a, "done") /\ Ends(a)
    /\ NoRead /\ UNCHANGED <<Idle, store, lost, hidden, shared, missed>>

-----------------------------------------------------------------------------
Work(a) ==
    \/ FileLoadNodes(a) \/ FileLoadEdges(a) \/ FileSaveNodes(a) \/ FileSaveEdges(a)
    \/ PostgresCommit(a) \/ PostgresReset(a)
    \/ Neo4jMergeDocument(a) \/ Neo4jMergeNode(a) \/ Neo4jMergeEdge(a) \/ Neo4jMerged(a)
    \/ Neo4jRemoveDocument(a) \/ Neo4jRemoveEntities(a)
    \/ Return(a)
Next ==
    \/ \E a \in Actors : Work(a) \/ \E d \in Docs, new \in Parses \cup {NoParse} : Begin(a, d, new)
    \/ RefreshNodes \/ RefreshEdges \/ RefreshStore \/ CacheExpires

Spec == Init /\ [][Next]_vars

-----------------------------------------------------------------------------
Settled(d) == \A a \in Actors : op[a].pc # "idle" => op[a].doc # d
OwnNodes(d) == NodesOf(published[d], d)
OwnEdges(d) == EdgesOf(published[d], d)

(* What is done to one document leaves the others their entities and edges, and
   a request for a published document is shown all of them: exactly its rows of
   the database; of the files except the nodes left out for a namesake of
   another document, with their edges, and except after an overlap; of Neo4j
   except what other documents wrote over. *)
SharesKept ==
    \A d \in Docs : Settled(d) /\ published[d] # NoParse =>
        LET shown == AllowedExport(nodes, edges, {d})
            ends == {e.ends : e \in OwnEdges(d)}
        IN  \/ backend = "postgres" /\ shown = [nodes |-> Ids(OwnNodes(d)), edges |-> ends]
            \/ /\ backend = "filesystem"
               /\ \/ lost
                  \/ /\ shown.nodes = Ids(OwnNodes(d) \ hidden)
                     /\ shown.edges = {pair \in ends : pair \cap Ids(OwnNodes(d) \cap hidden) = {}}
            \/ /\ backend = "neo4j"
               /\ Ids(OwnNodes(d)) \subseteq Ids(nodes) /\ ends \subseteq {e.ends : e \in edges}
               /\ Ids(OwnNodes(d)) \ shared \subseteq shown.nodes
               /\ {pair \in ends : pair \cap shared = {}} \subseteq shown.edges

(* A removed document leaves no node and no edge of its own, except, in Neo4j,
   among the entities it shared with another, and in the files after an overlap. *)
RemovedIsGone ==
    \A d \in Docs : Settled(d) /\ published[d] = NoParse /\ ~lost =>
        /\ \A n \in nodes : n.doc = d => n.id \in shared
        /\ \A e \in edges : e.doc = d => e.ends \subseteq shared

(* Variant of the above without the exception of Neo4j, whose removals count
   their nodes, report no edge, and delete no edge between entities that stay. *)
NothingOfItLeft ==
    \A d \in Docs : Settled(d) /\ published[d] = NoParse /\ ~lost =>
        (\A n \in nodes : n.doc # d) /\ (\A e \in edges : e.doc # d)

(* The copy the API reads is what the tables hold, unless another process
   committed, or one of its threads did while the copy was being made (the
   discarding may then come before the copy is declared good). *)
CopyIsCurrent ==
    cache.valid /\ ~missed /\ (\A a \in Actors : op[a].pc # "reset") =>
        cache.nodes = nodes /\ cache.edges = edges

(* Whenever an operation has ended and no other is under way, the reads
   agree with their definition and so with each other: a neighbour at
   a distance is the end of a shortest simple path of that length, whichever
   backend or engine is asked (Neo4j may add the center, at distance three of a
   triangle), the two searches for paths find the same ones, and a request that
   sees some documents finds in the whole graph every path it has in their own. *)
AtDistance(paths, k) ==
    {Last(p) : p \in {q \in paths : Len(q) = k + 1}} \ {Last(q) : q \in {p \in paths : Len(p) <= k}}
ReadsAgree ==
    (\E a \in Actors : At(a, "done")) /\ (\E a \in Actors : At(a, "idle")) /\ cache = NoCache =>
    LET known == Known(nodes, edges)
    IN  \A from \in Ids(nodes) :
        LET all == SimplePaths(edges, from, 4)
            linked == SimplePaths(known, from, 4)
        IN  /\ \A hops \in {0, 2, 4} :
                LET file == FileNeighbors(nodes, edges, from, hops)
                    engine == EngineNeighbors(nodes, edges, from, hops)
                    neo4j == Neo4jNeighbors(nodes, known, from, hops)
                IN  /\ \A k \in DOMAIN file : file[k] = AtDistance(all, k)
                    /\ \A k \in DOMAIN engine : engine[k] = AtDistance(linked, k)
                    /\ \A k \in DOMAIN neo4j :
                           neo4j[k] \ (IF k = 3 THEN {from} ELSE {}) = AtDistance(linked, k)
            /\ \A to \in Ids(nodes) \ {from}, hops \in {1, 3} :
                LET engine == EnginePaths(nodes, edges, from, to, hops)
                IN  /\ engine = FilePaths(nodes, known, from, to, hops)
                    /\ Neo4jPaths(nodes, known, from, to, hops) = {} <=> engine = {}
            /\ Neo4jSearch(nodes, known, {from}, TRUE) \subseteq FileSearch(nodes, known, {from}, TRUE)
            /\ \A d \in Docs, to \in Ids(nodes) \ {from} :
                EnginePaths(Others(nodes, d), Others(edges, d), from, to, 3)
                    \subseteq ScopedPaths(nodes, edges, Docs \ {d}, from, to, 3)

(* The sparse view of a document's own graph leaves nothing of it out, and is
   its own sparse view, except where all but one of several pages have no edge:
   the view then takes the document for one of a single page. *)
LayoutKeepsBuilt ==
    \A a \in Actors : op[a].pc = "begin" =>
        LET rows == BuildNodes(op[a].new, op[a].doc)
            built == BuildEdges(op[a].new, op[a].doc)
            view == Layout(rows, built)
        IN  /\ view \subseteq built /\ Layout(rows, view) = view
            /\ view # built => Len(op[a].new) > 1 /\ Cardinality({e.page : e \in built}) = 1

(* What is shown of a graph is true of it, whoever shows it. *)
ViewsAreTrue == TypeOK /\ ReadsAgree /\ LayoutKeepsBuilt
=============================================================================
