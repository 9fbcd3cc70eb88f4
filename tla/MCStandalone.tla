---------------------------- MODULE MCStandalone ----------------------------
(* Small instances of Standalone for TLC.  The last of the keys and of the *)
(* values is one byte too long.                                            *)
EXTENDS Standalone, TLC

CONSTANTS k1, k2, kBig, v1, v2, vBig

MCKey == {k1, k2, kBig}
MCValue == {v1, v2, vBig}
MCKeySize == [k \in MCKey |-> IF k = kBig THEN 3 ELSE 2]
MCValueSize == [v \in MCValue |-> IF v = vBig THEN 3 ELSE 2]
MCSymmetry ==
    Permutations(Worker) \cup Permutations({k1, k2}) \cup Permutations({v1, v2})
=============================================================================
