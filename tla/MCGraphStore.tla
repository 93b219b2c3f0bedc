----------------------------- MODULE MCGraphStore -----------------------------
(* Two documents that share entities, with the same number or another. *)
EXTENDS GraphStore

CONSTANTS d1, d2
MCDocs == {d1, d2}
Swap == Permutations(MCDocs)

(* A page with all pairs beside one without a pair; a pair on two pages; one
   page on which only neighbours are linked, in another order. *)
MCParses == {<<<<1, 2, 3>>, <<2>>>>, <<<<1, 2>>, <<2, 1>>>>, <<<<2, 1, 3, 2>>>>}
=============================================================================
