----------------------------- MODULE MCHashRing -----------------------------
(* A small instance of HashRing for TLC. *)
EXTENDS HashRing, TLC

MCSymmetry == Permutations(Node)
=============================================================================
