------------------------------ MODULE MCStores ------------------------------
(* Stores for TLC.                                                         *)
EXTENDS Stores, TLC

(* Jobs are interchangeable.                                               *)
Symmetry == Permutations(Jobs)
=============================================================================
