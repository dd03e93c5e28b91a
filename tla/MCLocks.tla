------------------------------ MODULE MCLocks -------------------------------
(***************************************************************************)
(* The mutex with its condition variable and the read-write lock, for TLC. *)
(* They do not interact: subject says which of the two a behaviour is      *)
(* about.                                                                  *)
(***************************************************************************)
EXTENDS MutexCondvar, RwLock

VARIABLE subject

LocksInit == Init /\ RwInit /\ subject \in {"mutex", "rwlock"}

LocksNext ==
    /\ UNCHANGED subject
    /\ \/ subject = "mutex" /\ Next /\ UNCHANGED rwVars
       \/ subject = "rwlock" /\ RwNext /\ UNCHANGED vars

LocksSpec == LocksInit /\ [][LocksNext]_<<vars, rwVars, subject>> /\ Fairness

=============================================================================
