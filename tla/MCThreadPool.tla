---------------------------- MODULE MCThreadPool ----------------------------
(* Instances of ThreadPool for TLC. *)
EXTENDS ThreadPoolRefinement, TLC

CONSTANTS k1, k2, k3

(* Workers are alike, and so are the tasks that capture no handle. *)
PoolSymmetry == Permutations(Worker) \cup Permutations(Task \ Capturing)

=============================================================================
