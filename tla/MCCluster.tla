------------------------------ MODULE MCCluster ------------------------------
(* Small instances of Cluster for TLC: nodes n1 and n2, with the primary   *)
(* of k1 on n1 and of k2 on n2.  vBig is one byte too long.                *)
EXTENDS Cluster, TLC

CONSTANTS n1, n2, k1, k2, v1, vBig

MCNode == {n1, n2}
MCConfig == <<n1, n2>>
MCOneKey == {k1}
MCTwoKeys == {k1, k2}
MCRing == [k \in Key |-> IF k = k1 THEN <<n1, n2>> ELSE <<n2, n1>>]
MCKeySize == [k \in Key |-> 2]
MCNoCrash == [n \in Node |-> 0]
MCOneCrash == [n \in Node |-> IF n = n1 THEN 1 ELSE 0]
MCSymmetry == Permutations(Thread) \cup Permutations(Client)
MCValueSize == [v \in Value |-> IF v = vBig THEN 3 ELSE 2]
==============================================================================
