------------------------------ MODULE EngineReads ------------------------------
(***************************************************************************)
(* What the LightRAG adapter and the services above it make of the answers *)
(* of the library: the evidence of a question, from one knowledge space or *)
(* several, and the part of the entity graph a request may see.            *)
(* (backend/lightrag_integration/adapters.py, normalization.py,            *)
(* services/lightrag_service.py)                                           *)
(*                                                                         *)
(* A chunk is a record of its document, an identity (page, chunk and       *)
(* digest of its text) and the number of its characters.  What is allowed  *)
(* is a set of documents, or Everything where the request names none.      *)
(***************************************************************************)
EXTENDS Integers, Sequences, SequencesExt, FiniteSets, FiniteSetsExt

CONSTANTS Everything,          \* a scope without a list of documents (None)
          MaxChunks, MaxChars, \* LIGHTRAG_MERGED_CONTEXT_MAX_CHUNKS, _CHARS
          Depth                \* hops of one walk over the graph, 3

ASSUME EngineReadsAssumption == {MaxChunks, MaxChars, Depth} \subseteq Nat \ {0}

InScope(doc, allowed) == IF allowed = Everything THEN TRUE ELSE doc \in allowed
AnyInScope(docs, allowed) == IF allowed = Everything THEN TRUE ELSE docs \cap allowed # {}
Prefix(seq, n) == SubSeq(seq, 1, IF n < Len(seq) THEN n ELSE Len(seq))

-----------------------------------------------------------------------------
(* _strictly_filter_query_data: entities and relations are dropped, their
   descriptions may mix documents; a chunk must name a document of the scope. *)
FilterContext(chunks, allowed) == SelectSeq(chunks, LAMBDA c : InScope(c.doc, allowed))

(* _merge_query_contexts: in turns, one new chunk with a text from each space,
   the text of the last one cut to what is left of the characters. *)
Used(chosen) == MapThenSumSet(LAMBDA i : chosen[i].chars, DOMAIN chosen)
Full(chosen) == Len(chosen) >= MaxChunks \/ Used(chosen) >= MaxChars
IsNew(chosen, c) ==
    c.chars > 0 /\ \A i \in DOMAIN chosen : <<chosen[i].doc, chosen[i].id>> # <<c.doc, c.id>>
Cut(c, space, chosen) ==
    [doc |-> c.doc, id |-> c.id, space |-> space,
     chars |-> IF c.chars > MaxChars - Used(chosen) THEN MaxChars - Used(chosen) ELSE c.chars]

TakeOne(contexts, chosen, space) ==
    LET new == SelectSeq(contexts[space], LAMBDA c : IsNew(chosen, c))
    IN  IF Full(chosen) \/ new = <<>> THEN chosen
        ELSE Append(chosen, Cut(Head(new), space, chosen))

(* Variant: the spaces one after the other. *)
ChainContexts(contexts, spaces) ==
    LET all == FlattenSeq([i \in DOMAIN spaces |-> [j \in DOMAIN contexts[spaces[i]] |->
                               <<contexts[spaces[i]][j], spaces[i]>>]])
    IN  FoldLeft(LAMBDA chosen, c : IF Full(chosen) \/ ~IsNew(chosen, c[1]) THEN chosen
                                    ELSE Append(chosen, Cut(c[1], c[2], chosen)), <<>>, all)

MergeContexts(contexts, spaces) ==
    LET turn[k \in 0..MaxChunks] ==
            IF k = 0 THEN <<>>
            ELSE FoldLeft(LAMBDA chosen, space : TakeOne(contexts, chosen, space),
                          turn[k - 1], spaces)
    IN  turn[MaxChunks]

(* normalize_references: what an answer cites, each source once, in scope. *)
References(chunks, allowed) ==
    FoldLeft(LAMBDA refs, c : IF InScope(c.doc, allowed) /\ <<c.doc, c.id>> \notin ToSet(refs)
                              THEN Append(refs, <<c.doc, c.id>>) ELSE refs, <<>>, chunks)

-----------------------------------------------------------------------------
(* The graph store of one space: nodes is a sequence of records with the
   documents of each, in the order of their labels; links are the edges. *)
Linked(graph, ids) == UNION {e.ends : e \in {f \in ToSet(graph.edges) : f.ends \cap ids # {}}}

(* get_knowledge_graph, a call of the library: what lies within some hops of a
   label, the nearest nodes first where there are too many. *)
Walk(graph, label, depth, limit) ==
    LET ball[k \in 0..depth] == IF k = 0 THEN {label} ELSE ball[k - 1] \cup Linked(graph, ball[k - 1])
        distance(id) == CHOOSE k \in 0..depth : id \in ball[k] /\ \A j \in 0..(k - 1) : id \notin ball[j]
        kept == Prefix(SetToSortSeq(ball[depth], LAMBDA a, b :
                           distance(a) < distance(b) \/ (distance(a) = distance(b) /\ a < b)), limit)
    IN  [nodes |-> SelectSeq(graph.nodes, LAMBDA n : n.id \in ToSet(kept)),
         edges |-> SelectSeq(graph.edges, LAMBDA e : e.ends \subseteq ToSet(kept))]

(* _raw_graph: a walk from each label that no walk has met yet. *)
AddNew(seq, more) == seq \o SelectSeq(more, LAMBDA x : x \notin ToSet(seq))
RawGraph(graph, maxNodes, maxEdges) ==
    FoldLeft(LAMBDA raw, n :
        IF Len(raw.nodes) >= maxNodes \/ n \in ToSet(raw.nodes) THEN raw
        ELSE LET walked == Walk(graph, n.id, Depth, maxNodes - Len(raw.nodes))
             IN  [nodes |-> AddNew(raw.nodes, walked.nodes),
                  edges |-> Prefix(AddNew(raw.edges, walked.edges), maxEdges),
                  starts |-> raw.starts \cup {n.id}],
        [nodes |-> <<>>, edges |-> <<>>, starts |-> {}], graph.nodes)

(* normalize_graph: rows of the scope and, where one is named, of one document;
   edges between nodes that are kept.  A limit is looked at after a row is taken. *)
Shows(row, doc, allowed) == (doc = Everything \/ doc \in row.docs) /\ AnyInScope(row.docs, allowed)
NormalGraph(raw, doc, allowed, maxNodes, maxEdges) ==
    LET nodes == Prefix(SelectSeq(raw.nodes, LAMBDA n : Shows(n, doc, allowed)),
                        IF maxNodes < 1 THEN 1 ELSE maxNodes)
        ids == {n.id : n \in ToSet(nodes)}
        edges == Prefix(SelectSeq(raw.edges, LAMBDA e : e.ends \subseteq ids /\ Shows(e, doc, allowed)),
                        IF maxEdges < 1 THEN 1 ELSE maxEdges)
    IN  [nodes |-> nodes, edges |-> edges,
         truncated |-> Len(raw.nodes) > Len(nodes) \/ Len(raw.edges) > Len(edges)]

(* _merge_graphs: the spaces' exports one after the other, again limited; node
   identities contain the space, so that no two spaces share one. *)
Tagged(export, space) ==
    [nodes |-> [i \in DOMAIN export.nodes |-> [id |-> <<space, export.nodes[i].id>>, docs |-> export.nodes[i].docs]],
     edges |-> [i \in DOMAIN export.edges |-> [ends |-> {<<space, id>> : id \in export.edges[i].ends},
                                               docs |-> export.edges[i].docs]]]
OpenGraphs(exports, spaces, maxNodes, maxEdges) == \* Variant: edges may lose an end.
    LET tagged == [i \in DOMAIN spaces |-> Tagged(exports[spaces[i]], spaces[i])]
    IN  [nodes |-> Prefix(FlattenSeq([i \in DOMAIN tagged |-> tagged[i].nodes]), maxNodes),
         edges |-> Prefix(FlattenSeq([i \in DOMAIN tagged |-> tagged[i].edges]), maxEdges),
         truncated |-> FALSE]
MergeGraphs(exports, spaces, maxNodes, maxEdges) ==
    LET tagged == [i \in DOMAIN spaces |-> Tagged(exports[spaces[i]], spaces[i])]
        nodes == Prefix(FlattenSeq([i \in DOMAIN tagged |-> tagged[i].nodes]), maxNodes)
        kept == SelectSeq(FlattenSeq([i \in DOMAIN tagged |-> tagged[i].edges]),
                          LAMBDA e : e.ends \subseteq {n.id : n \in ToSet(nodes)})
    IN  [nodes |-> nodes, edges |-> Prefix(kept, maxEdges),
         truncated |-> \E i \in DOMAIN spaces : \/ exports[spaces[i]].truncated
                                                \/ Len(exports[spaces[i]].nodes) > Len(nodes)]

-----------------------------------------------------------------------------
(* _search_entities_with_instance and normalize_entity_search: the nodes next
   to each of the first labels that match, as often as they are met; of those
   in scope the ones whose own name matches. *)
SearchRows(graph, limit) ==
    LET labels == Prefix(SelectSeq(graph.nodes, LAMBDA n : n.matches), limit)
    IN  FlattenSeq([i \in DOMAIN labels |->
            Walk(graph, labels[i].id, 1, IF limit < 10 THEN 10 ELSE limit).nodes])
SearchItems(graph, allowed, limit) ==
    LET rows == NormalGraph([nodes |-> SearchRows(graph, limit), edges |-> <<>>],
                            Everything, allowed, 3 * limit, 0).nodes
    IN  Prefix(SelectSeq(rows, LAMBDA n : n.matches), limit)

(* search_entities of the service: the items of all spaces, each one once. *)
MergeItems(results, spaces, limit) ==
    LET all == FlattenSeq([i \in DOMAIN spaces |->
                   Tagged([nodes |-> results[spaces[i]], edges |-> <<>>], spaces[i]).nodes])
    IN  Prefix(FoldLeft(LAMBDA items, n : AddNew(items, <<n>>), <<>>, all), limit)
=============================================================================
