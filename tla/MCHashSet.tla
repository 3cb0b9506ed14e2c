------------------------------ MODULE MCHashSet ------------------------------
(* Items of HashSet differ in nothing but the hash they are given.           *)
EXTENDS HashSet, TLC

Alike == Permutations(Items)
=============================================================================
