------------------------------ MODULE MCShared ------------------------------
(***************************************************************************)
(* The wait group and the atomics, the small primitives of the root        *)
(* package, for TLC.  They do not interact: subject says which of the two  *)
(* a behaviour is about.                                                   *)
(***************************************************************************)
EXTENDS WaitGroup, AtomicWord

VARIABLE subject

(* Below zero, above the maximum and far beyond it.                         *)
Deltas == -2 .. 4

SharedInit == WgInit /\ AtomicInit /\ subject \in {"wait_group", "atomic"}

SharedNext ==
    /\ UNCHANGED subject
    /\ \/ subject = "wait_group" /\ WgNext /\ UNCHANGED atomicVars
       \/ subject = "atomic" /\ AtomicNext /\ UNCHANGED wgVars

SharedSpec ==
    SharedInit /\ [][SharedNext]_<<wgVars, atomicVars, subject>> /\ WgFairness

=============================================================================
