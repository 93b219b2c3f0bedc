--------------------------- MODULE MCWorkspaceCache ---------------------------
(* Two requests, two workspaces, room for one instance. *)
EXTENDS WorkspaceCache, TLC

CONSTANTS t1, t2, a, b

TwoTasks == {t1, t2}
TwoWorkspaces == {a, b}
ThreeObjects == 1..3

\* Sound: no definition names a request or a workspace.
CacheSymmetry == Permutations(TwoTasks) \cup Permutations(TwoWorkspaces)
=============================================================================
