------------------------------ MODULE TwoPools ------------------------------
(***************************************************************************)
(* Two thread pools whose tasks use each other's pool.  submit_task turns  *)
(* away a worker of the same pool that would have to wait; a worker of     *)
(* another pool waits like any client.  Each pool is a ThreadPool with one *)
(* worker, which is a client of the other pool while it runs a task; main  *)
(* makes both pools, shares them with the workers and uses them itself.    *)
(***************************************************************************)
EXTENDS Integers

CONSTANTS Capacity, NULL, main, left, right, LeftTask, RightTask

VARIABLES
    coreL, ringL, liveL, handlesL, acceptingL, refsL,
    taskL, jobL, pcL, afterL, argL, resultL, mutedL,
    coreR, ringR, liveR, handlesR, acceptingR, refsR,
    taskR, jobR, pcR, afterR, argR, resultR, mutedR

leftVars == <<coreL, ringL, liveL, handlesL, acceptingL, refsL,
              taskL, jobL, pcL, afterL, argL, resultL, mutedL>>
rightVars == <<coreR, ringR, liveR, handlesR, acceptingR, refsR,
               taskR, jobR, pcR, afterR, argR, resultR, mutedR>>
vars == <<leftVars, rightVars>>

Left == INSTANCE ThreadPool WITH
    Client <- {main, right}, Worker <- {left}, Task <- LeftTask,
    Capturing <- {}, Fault <- {},
    core <- coreL, ring <- ringL, live <- liveL, handles <- handlesL,
    accepting <- acceptingL, refs <- refsL, task <- taskL, job <- jobL,
    pc <- pcL, after <- afterL, arg <- argL, result <- resultL, muted <- mutedL

Right == INSTANCE ThreadPool WITH
    Client <- {main, left}, Worker <- {right}, Task <- RightTask,
    Capturing <- {}, Fault <- {},
    core <- coreR, ring <- ringR, live <- liveR, handles <- handlesR,
    accepting <- acceptingR, refs <- refsR, task <- taskR, job <- jobR,
    pc <- pcR, after <- afterR, arg <- argR, result <- resultR, muted <- mutedR

Init == Left!Init /\ Right!Init

-----------------------------------------------------------------------------
(* A thread makes one call at a time, and a worker calls from its task.     *)

MainFree == pcL[main] \in {"absent", "idle"} /\ pcR[main] \in {"absent", "idle"}

(* Each pool is shut down once, so that a task makes finitely many calls.   *)
LeftShutdown(t) == acceptingL /\ Left!Shutdown(t)

RightShutdown(t) == acceptingR /\ Right!Shutdown(t)

LeftCalls ==
    /\ \/ MainFree /\ \/ Left!New(main) \/ Left!Share(main, right)
                      \/ \E k \in LeftTask : Left!BeginSubmit(main, k, TRUE)
                      \/ LeftShutdown(main)
       \/ pcR[right] = "running" /\ \/ \E k \in LeftTask : Left!BeginSubmit(right, k, TRUE)
                                    \/ LeftShutdown(right)
    /\ UNCHANGED rightVars

RightCalls ==
    /\ \/ MainFree /\ \/ Right!New(main) \/ Right!Share(main, left)
                      \/ \E k \in RightTask : Right!BeginSubmit(main, k, TRUE)
                      \/ RightShutdown(main)
       \/ pcL[left] = "running" /\ \/ \E k \in RightTask : Right!BeginSubmit(left, k, TRUE)
                                   \/ RightShutdown(left)
    /\ UNCHANGED leftVars

(* The rest of the calls, and the workers; a task returns when the call it  *)
(* made on the other pool has.                                              *)
LeftGoesOn(t) == (Left!SubmitStep(t) \/ Left!StopStep(t)) /\ UNCHANGED rightVars

LeftWorks ==
    /\ \/ Left!NewCounts(main, left) \/ Left!NewWorker(main, left)
       \/ Left!NewReturns(main)
       \/ Left!WorkerLooks(left)
       \/ pcR[left] \in {"absent", "idle"} /\ Left!TaskReturns(left)
       \/ Left!CoreRelease(left)
    /\ UNCHANGED rightVars

RightGoesOn(t) == (Right!SubmitStep(t) \/ Right!StopStep(t)) /\ UNCHANGED leftVars

RightWorks ==
    /\ \/ Right!NewCounts(main, right) \/ Right!NewWorker(main, right)
       \/ Right!NewReturns(main)
       \/ Right!WorkerLooks(right)
       \/ pcL[right] \in {"absent", "idle"} /\ Right!TaskReturns(right)
       \/ Right!CoreRelease(right)
    /\ UNCHANGED leftVars

Next ==
    \/ LeftCalls \/ LeftWorks \/ \E t \in {main, right} : LeftGoesOn(t)
    \/ RightCalls \/ RightWorks \/ \E t \in {main, left} : RightGoesOn(t)

Spec == Init /\ [][Next]_vars

(* The fairness of ThreadPool, for both pools: threads in the pools' code   *)
(* run on unless they wait, and a task returns unless a call it makes does  *)
(* not.                                                                     *)
FairSpec ==
    /\ Spec
    /\ WF_vars(LeftWorks) /\ WF_vars(RightWorks)
    /\ \A t \in {main, right} : WF_vars(LeftGoesOn(t))
    /\ \A t \in {main, left} : WF_vars(RightGoesOn(t))

-----------------------------------------------------------------------------
(* Each pool's worker waits inside the other pool.                          *)
MutualWait ==
    /\ pcL[right] \in {"not_full", "stopped"}
    /\ pcR[left] \in {"not_full", "stopped"}

(* execute and shutdown on either pool return, from a client and from a     *)
(* task of the other pool, also when queues are full and when one is shut   *)
(* down under the other's feet.  The one way not to return is the one the   *)
(* WouldDeadlock check cannot see: both workers waiting in the other's pool.*)
CrossCallsReturn ==
    /\ \A t \in {main, right} :
         pcL[t] \in {"submitting", "stopping"} ~> (pcL[t] = "idle" \/ MutualWait)
    /\ \A t \in {main, left} :
         pcR[t] \in {"submitting", "stopping"} ~> (pcR[t] = "idle" \/ MutualWait)

=============================================================================
