------------------------------ MODULE Executor ------------------------------
(***************************************************************************)
(* What the thread pool promises, without threads, locks, handles or       *)
(* memory: accepted tasks start in the order they were accepted, at most   *)
(* Workers of them run at once, each runs exactly once, and shutdown       *)
(* returns only when nothing is left to run.                               *)
(***************************************************************************)
EXTENDS Integers, Sequences, FiniteSets

CONSTANTS Client, Task, Capacity, Workers

VARIABLES status,     \* "none", "open", "closed"
          queue,      \* accepted tasks that have not started, oldest first
          running,    \* the tasks being executed
          finished,   \* the tasks that were executed
          down        \* the clients whose last shutdown succeeded

vars == <<status, queue, running, finished, down>>

Queued == {queue[i] : i \in 1 .. Len(queue)}

Init ==
    /\ status = "none"
    /\ queue = <<>>
    /\ running = {}
    /\ finished = {}
    /\ down = {}

Create ==
    /\ status = "none"
    /\ status' = "open"
    /\ UNCHANGED <<queue, running, finished, down>>

Accept(k) ==
    /\ status = "open"
    /\ Len(queue) < Capacity
    /\ k \notin Queued \cup running \cup finished
    /\ queue' = Append(queue, k)
    /\ UNCHANGED <<status, running, finished, down>>

Start ==
    /\ queue # <<>>
    /\ Cardinality(running) < Workers
    /\ running' = running \cup {Head(queue)}
    /\ queue' = Tail(queue)
    /\ UNCHANGED <<status, finished, down>>

Finish(k) ==
    /\ k \in running
    /\ running' = running \ {k}
    /\ finished' = finished \cup {k}
    /\ UNCHANGED <<status, queue, down>>

(* By close, by the last handle that is dropped, by a shutdown that starts. *)
Close(c) ==
    /\ status \in {"open", "closed"}
    /\ status' = "closed"
    /\ down' \in {down, down \ {c}}
    /\ UNCHANGED <<queue, running, finished>>

ShutdownReturns(c) ==
    /\ status = "closed"
    /\ queue = <<>>
    /\ running = {}
    /\ down' = down \cup {c}
    /\ UNCHANGED <<status, queue, running, finished>>

ShutdownFails(c) ==
    /\ down' = down \ {c}
    /\ UNCHANGED <<status, queue, running, finished>>

Next ==
    \/ Create
    \/ \E k \in Task : Accept(k) \/ Finish(k)
    \/ Start
    \/ \E c \in Client : Close(c) \/ ShutdownReturns(c) \/ ShutdownFails(c)

Spec == Init /\ [][Next]_vars

(* Nothing that was accepted waits or runs for ever.                        *)
FairSpec == Spec /\ WF_vars(Start) /\ \A k \in Task : WF_vars(Finish(k))

=============================================================================
