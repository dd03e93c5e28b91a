------------------------ MODULE ThreadPoolRefinement ------------------------
(***************************************************************************)
(* ThreadPool implements Executor: the abstract queue is the ring read in  *)
(* order, and a task is running or finished when its closure is.           *)
(***************************************************************************)
EXTENDS ThreadPool

Abstract == INSTANCE Executor WITH
    Workers  <- Cardinality(Worker),
    status   <- IF core = "none" THEN "none" ELSE IF accepting THEN "open" ELSE "closed",
    queue    <- Contents(ring),
    running  <- {k \in Task : task[k] = "running"},
    finished <- {k \in Task : task[k] = "done"},
    down     <- {c \in Client : result[c] = "Down"}

(* The pool is a FIFO executor: what its users can tell of it is Executor.  *)
ImplementsExecutor == Abstract!Spec

(* Every accepted task is eventually executed, also when it waits behind    *)
(* tasks that submit to their own pool while its queue is full, and also    *)
(* when every handle has been dropped.                                      *)
ImplementsFairExecutor == Abstract!FairSpec

=============================================================================
