------------------------------ MODULE GraphBuild ------------------------------
(***************************************************************************)
(* From the entities found on the pages of a document to the nodes and     *)
(* edges of its graph (backend/pipeline/kg_builder.py, cooccurrence.py).   *)
(*                                                                         *)
(* A parse is a sequence of pages, a page the sequence of the entities in  *)
(* it in the order of their positions; name and type of an entity are one  *)
(* value.  Extractions that were not aligned with the text are left out by *)
(* the code before anything else and are not in a parse.  An edge is the   *)
(* set of its two ends: the code sorts them, so that it has one direction. *)
(***************************************************************************)
EXTENDS Naturals, Sequences, SequencesExt

CONSTANTS CliqueLimit,  \* MAX_PAGE_CLIQUE_NODES, 12
          MaxNeighbors  \* MAX_NEIGHBORS_PER_NODE, 4

ASSUME GraphBuildAssumption == CliqueLimit \in Nat /\ MaxNeighbors \in Nat \ {0}

(* The values of a sequence in the order of their first occurrence. *)
FirstMentions(seq) ==
    FoldLeft(LAMBDA seen, x : IF x \in ToSet(seen) THEN seen ELSE Append(seen, x),
             <<>>, seq)

(* build_kg, phase 2: one node per entity, numbered in the order of the first
   mention; the number is part of the identity, the document is not. *)
Entities(parse) == FirstMentions(FlattenSeq(parse))
NodeId(parse, name) ==
    <<name, CHOOSE i \in DOMAIN Entities(parse) : Entities(parse)[i] = name>>
FirstPage(parse, name) ==
    CHOOSE p \in DOMAIN parse :
        /\ name \in ToSet(parse[p])
        /\ \A q \in 1..(p - 1) : name \notin ToSet(parse[q])

(* The position of a node is that of its first mention on its first page. *)
BuildNodes(parse, doc) ==
    {[id |-> NodeId(parse, name), name |-> name, doc |-> doc,
      at |-> CHOOSE i \in DOMAIN parse[FirstPage(parse, name)] :
                 /\ parse[FirstPage(parse, name)][i] = name
                 /\ \A j \in 1..(i - 1) : parse[FirstPage(parse, name)][j] # name] :
        name \in ToSet(Entities(parse))}

(* neighbor_pairs: all pairs of a page that is small or one of several, else
   each node with those that follow it closely. *)
Reach(pages, ordered) ==
    IF Len(pages) > 1 \/ Len(ordered) <= CliqueLimit THEN Len(ordered) ELSE MaxNeighbors
PairsOf(pages, ordered) ==
    UNION {{{ordered[i], ordered[j]} :
                j \in {k \in DOMAIN ordered : i < k /\ k <= i + Reach(pages, ordered)}} :
           i \in DOMAIN ordered}

(* build_sparse_cooccurrence_edges.  Only pages with an entity are counted. *)
BuildEdges(parse, doc) ==
    LET pages == SelectSeq(parse, LAMBDA page : page # <<>>)
    IN  UNION {{[ends |-> {NodeId(parse, name) : name \in pair}, doc |-> doc, page |-> p] :
                    pair \in PairsOf(pages, FirstMentions(parse[p]))} : p \in DOMAIN parse}

(* select_sparse_layout_edges, of co-occurrences: the pairs are computed again,
   each document by itself, from the ends the edges name on each page and the
   positions of the nodes (of the document, or else of any with that name). *)
LayoutNode(nodes, doc, id) ==
    LET named == {n \in nodes : n.id = id}
        own == {n \in named : n.doc = doc}
    IN  CHOOSE n \in IF own # {} THEN own ELSE named : TRUE
Layout(nodes, edges) ==
    LET onPage(d, p) == {id \in UNION {e.ends : e \in {f \in edges : f.doc = d /\ f.page = p}} :
                            \E n \in nodes : n.id = id}
        before(d, a, b) ==
            LET x == LayoutNode(nodes, d, a).at
                y == LayoutNode(nodes, d, b).at
            IN  x < y \/ (x = y /\ a[1] < b[1])
        allowed(d) ==
            LET ps == SetToSortSeq({p \in {e.page : e \in edges} : onPage(d, p) # {}}, <)
                lists == [i \in DOMAIN ps |->
                             SetToSortSeq(onPage(d, ps[i]), LAMBDA a, b : before(d, a, b))]
            IN  UNION {{<<ps[i], pair>> : pair \in PairsOf(lists, lists[i])} : i \in DOMAIN ps}
    IN  {e \in edges : <<e.page, e.ends>> \in allowed(e.doc)}
=============================================================================
