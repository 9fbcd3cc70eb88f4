---------------------------- MODULE MCThreadPool ----------------------------
(* Small instances of ThreadPool for TLC. *)
EXTENDS ThreadPool, TLC

MCSymmetry == Permutations(Worker) \cup Permutations(Task)
=============================================================================
