----------------------------- MODULE MCOnboard -----------------------------
(* A checkout and its linked worktree on one machine. The two workspaces play *)
(* the same part.                                                             *)
EXTENDS Harness, TLC

Symmetry == Permutations(Workspace)
=============================================================================
