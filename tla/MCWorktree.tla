---------------------------- MODULE MCWorktree ----------------------------
(* Worktree for TLC.                                                       *)
EXTENDS Worktree, TLC

(* Rooms and projects are interchangeable, runs are too.                   *)
Symmetry == Permutations(Runs) \cup Permutations(Projects)
=============================================================================
