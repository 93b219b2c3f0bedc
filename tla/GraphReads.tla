------------------------------ MODULE GraphReads ------------------------------
(***************************************************************************)
(* What the three graph backends and the services above them read from a   *)
(* set of nodes and a set of edges: the neighbourhood of a node, the paths *)
(* between two, the part of the graph that some documents may see.         *)
(* (backend/storage/graph_repository.py, services/kg_service.py,           *)
(* services/search_service.py)                                             *)
(***************************************************************************)
EXTENDS Naturals, Sequences, SequencesExt

Ids(nodes) == {n.id : n \in nodes}
Known(nodes, edges) == {e \in edges : e.ends \subseteq Ids(nodes)}
Adjacent(edges, id) == UNION {e.ends : e \in {f \in edges : id \in f.ends}} \ {id}
Clamp(n, low, high) == IF n < low THEN low ELSE IF n > high THEN high ELSE n

-----------------------------------------------------------------------------
(* Neighbourhoods: the nodes at each distance up to a number of hops. *)

(* Variant: only the ring before is looked at for nodes that were met already. *)
WideRings(edges, center, hops) ==
    LET ring[k \in 0..hops] ==
            IF k = 0 THEN {center}
            ELSE UNION {Adjacent(edges, id) : id \in ring[k - 1]} \ ring[k - 1]
    IN  [k \in 1..hops |-> ring[k]]

(* FileGraphRepository (and PostgreSQL): a graph library's breadth-first search;
   ends no node stands for are nodes of the library's graph. *)
Rings(edges, center, hops) ==
    LET ring[k \in 0..hops] ==
            IF k = 0 THEN {center}
            ELSE UNION {Adjacent(edges, id) : id \in ring[k - 1]}
                     \ UNION {ring[j] : j \in 0..(k - 1)}
    IN  [k \in 1..hops |-> ring[k]]
FileNeighbors(nodes, edges, center, hops) == Rings(edges, center, Clamp(hops, 1, 3))

(* get_neighbors_for_engine of the LightRAG engine: its own frontier loop over
   the exported graph, which knows no end without a node. *)
EngineNeighbors(nodes, edges, center, hops) ==
    LET known == Known(nodes, edges)
        most == Clamp(hops, 1, 5)
        state[k \in 0..most] ==
            IF k = 0 THEN [visited |-> {center}, frontier |-> {center}]
            ELSE LET next == UNION {Adjacent(known, id) : id \in state[k - 1].frontier}
                                 \ state[k - 1].visited
                 IN  [visited |-> state[k - 1].visited \cup next, frontier |-> next]
    IN  [k \in 1..most |-> state[k].frontier]

(* Neo4j matches paths whose relationships differ, nodes may repeat, and takes
   the shortest for each neighbour: a path back to the center counts. *)
Trails(edges, center, hops) ==
    LET trail[k \in 0..hops] ==
            IF k = 0 THEN {[used |-> {}, at |-> center]}
            ELSE UNION {{[used |-> t.used \cup {{t.at, id}}, at |-> id] :
                             id \in {i \in Adjacent(edges, t.at) : {t.at, i} \notin t.used}} :
                        t \in trail[k - 1]}
    IN  trail
Neo4jNeighbors(nodes, edges, center, hops) ==
    LET most == Clamp(hops, 1, 3)
        reached == [k \in 1..most |-> {t.at : t \in Trails(edges, center, most)[k]}]
    IN  [k \in 1..most |-> reached[k] \ UNION {reached[j] : j \in 1..(k - 1)}]

-----------------------------------------------------------------------------
(* Paths. *)
SimplePaths(edges, from, hops) ==
    LET paths[k \in 0..hops] ==
            IF k = 0 THEN {<<from>>}
            ELSE UNION {{Append(p, id) : id \in Adjacent(edges, Last(p)) \ ToSet(p)} :
                            p \in paths[k - 1]}
    IN  UNION {paths[k] : k \in 1..hops}

(* FileGraphRepository.search_path: both ends are nodes, all simple paths. *)
FilePaths(nodes, edges, from, to, hops) ==
    IF {from, to} \subseteq Ids(nodes)
    THEN {p \in SimplePaths(edges, from, Clamp(hops, 1, 5)) : Last(p) = to} ELSE {}

(* search_path_for_engine: a queue of partial paths, which ends a path where it
   meets the goal; the limit on their number is out of a small graph's reach. *)
EnginePaths(nodes, edges, from, to, hops) ==
    LET known == Known(nodes, edges)
        queue[k \in 0..hops] ==
            IF k = 0 THEN {<<from>>}
            ELSE UNION {{Append(p, id) : id \in {i \in Adjacent(known, Last(p)) : i \notin ToSet(p)}} :
                            p \in {q \in queue[k - 1] : Last(q) # to}}
    IN  IF {from, to} \subseteq Ids(nodes)
        THEN {p \in UNION {queue[k] : k \in 1..hops} : Last(p) = to} ELSE {}

(* Neo4jGraphRepository.search_path: one of the shortest; here, any of them. *)
Neo4jPaths(nodes, edges, from, to, hops) ==
    LET all == FilePaths(nodes, edges, from, to, hops)
    IN  {p \in all : \A q \in all : Len(p) <= Len(q)}

-----------------------------------------------------------------------------
(* What a request sees that may see some documents. *)

(* _allowed_export: the exports of the documents, one node per identity, and
   the edges both ends of which are among the nodes. *)
AllowedExport(nodes, edges, docs) ==
    LET mine == {n \in nodes : n.doc \in docs}
    IN  [nodes |-> Ids(mine), edges |-> {e.ends : e \in Known(mine, {f \in edges : f.doc \in docs})}]

(* search_graph of the two kinds of backend, for the nodes whose name matches. *)
FileSearch(nodes, edges, matched, more) ==
    LET relevant == matched \cup IF more THEN UNION {Adjacent(edges, id) : id \in matched} ELSE {}
    IN  {e.ends : e \in {f \in edges : f.ends \subseteq relevant}}
Neo4jSearch(nodes, edges, matched, more) ==
    IF more THEN {e.ends : e \in {f \in edges : f.ends \cap matched # {}}} ELSE {}

(* search_path and search_graph of search_service: cut down to allowed nodes. *)
ScopedPaths(nodes, edges, docs, from, to, hops) ==
    LET allowed == Ids({n \in nodes : n.doc \in docs})
    IN  IF {from, to} \subseteq allowed
        THEN {p \in FilePaths(nodes, edges, from, to, hops) : ToSet(p) \subseteq allowed} ELSE {}
=============================================================================
