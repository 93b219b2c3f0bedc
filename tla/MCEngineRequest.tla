---------------------------- MODULE MCEngineRequest ----------------------------
(* Two documents of the caller and one of the public demo, in four states of
   the two knowledge spaces. *)
EXTENDS EngineRequest

CONSTANTS a, b, p
MCDocs == {a, b, p}
MCPublicDocs == {p}
MCWindows == {<<2, 2>>, <<3, 0>>, <<9, 9>>}

Chunk(doc, id, chars) == [doc |-> doc, id |-> id, chars |-> chars]
Node(id, docs, matches) == [id |-> id, docs |-> docs, matches |-> matches]
Edge(x, y, docs) == [ends |-> {x, y}, docs |-> docs]
NoGraph == [nodes |-> <<>>, edges |-> <<>>]

(* A chain longer than a walk, a triangle, and a node beside them. *)
Chain == [nodes |-> <<Node(1, {a}, TRUE), Node(2, {a, b}, TRUE), Node(3, {b}, FALSE),
                      Node(4, {b}, TRUE), Node(5, {}, TRUE)>>,
          edges |-> <<Edge(1, 2, {a}), Edge(2, 3, {b}), Edge(3, 4, {b})>>]
Triangle == [nodes |-> <<Node(1, {p}, TRUE), Node(2, {p}, FALSE), Node(3, {p}, TRUE)>>,
             edges |-> <<Edge(1, 2, {p}), Edge(2, 3, {p}), Edge(1, 3, {p})>>]

State(own, ownGraph, public, publicGraph) ==
    [s \in {Own, Public} |-> IF s = Own THEN [chunks |-> own, graph |-> ownGraph]
                             ELSE [chunks |-> public, graph |-> publicGraph]]
MCCorpora ==
    {State(<<>>, NoGraph, <<Chunk(p, 1, 2), Chunk(p, 2, 0), Chunk(p, 3, 9)>>, Triangle),
     State(<<Chunk(a, 1, 1), Chunk(a, 2, 1), Chunk(a, 3, 1), Chunk(b, 4, 1)>>, Chain,
           <<Chunk(p, 1, 1)>>, NoGraph),
     State(<<Chunk(b, 1, 2), Chunk(a, 2, 2), Chunk(a, 2, 2)>>, Chain,
           <<Chunk(p, 1, 3), Chunk(p, 2, 1)>>, Triangle)}
=============================================================================
