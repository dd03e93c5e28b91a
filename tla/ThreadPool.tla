----------------------------- MODULE ThreadPool -----------------------------
(***************************************************************************)
(* The fixed-size thread pool of src/unsafe/thread_pool: client threads    *)
(* with a handle each, worker threads, a bounded FIFO of tasks and one     *)
(* reference-counted core.                                                 *)
(*                                                                         *)
(* As in OwnedBytesChannel an action is one critical section of the code,  *)
(* and pc says where each thread is between two of them.  A task of        *)
(* Capturing owns a shared pool handle, so that it can use the pool while  *)
(* it runs and drops the handle when its closure is released.              *)
(***************************************************************************)
EXTENDS Ring

CONSTANTS
    Client,      \* threads other than the pool's workers, one handle each
    Worker,      \* the worker threads; worker_count of them
    Task,        \* closures, each submitted at most once
    Capturing,   \* the tasks that capture a pool handle
    Fault        \* which system calls may fail or misbehave

Int32Max == 2147483647

ASSUME PoolAssumption ==
    /\ IsFiniteSet(Client) /\ IsFiniteSet(Worker) /\ IsFiniteSet(Task)
    /\ Worker # {}
    /\ Client \cap Worker = {}
    /\ Capturing \subseteq Task
    /\ NULL \notin Task
    /\ Fault \subseteq {"lock", "wait", "signal", "spurious", "create"}

VARIABLES
    core,        \* "none" before construction, "live", "freed"
    ring,        \* the task queue
    live,        \* live_workers
    handles,     \* number of pool handles
    accepting,
    refs,        \* reference count of the core
    task,        \* what has become of each task
    job,         \* the task each worker is running
    pc,          \* where each thread is
    after,       \* where a thread goes when it has released or stopped
    arg,         \* arguments of the submission a thread is in
    result,      \* what each client's last new or shutdown returned
    muted        \* ghost: a signal or broadcast has failed

coreVars == <<core, ring, live, handles, accepting, refs>>
localVars == <<job, after, arg, result, muted>>
vars == <<coreVars, task, pc, localVars>>

Thread == Client \cup Worker

Refusal == {"QueueFull", "PoolClosed", "WouldDeadlock", "Failed"}

(* "pending": submit_task owns the closure; "dropped": core_release found   *)
(* it still queued.                                                         *)
TaskState == {"new", "pending", "queued", "running", "done", "dropped"} \cup Refusal

Condition == {"not_empty", "not_full", "stopped"}

Location ==
    {"absent",         \* client without a handle
     "building",       \* inside thread_pool_new, starting workers
     "idle",           \* client with a handle, in no operation
     "submitting",     \* in submit_task, about to lock
     "resubmitting",   \* in submit_task, leaving cond_wait
     "stopping",       \* about to lock to wait for the workers
     "restopping",     \* the same, leaving cond_wait
     "finalizing",     \* about to run a handle's finalizer
     "releasing",      \* core_release is still to come
     "unborn",         \* worker not started yet
     "starting",       \* worker that is counted, before its thread is created
     "looking",        \* worker about to look at the queue
     "running",        \* worker inside core->call(task)
     "gone"}           \* worker that has released the core
    \cup Condition     \* inside cond_wait on that condition

Argument == [task : Task \cup {NULL}, block : BOOLEAN]

NoArgument == [task |-> NULL, block |-> FALSE]

TypeOK ==
    /\ core \in {"none", "live", "freed"}
    /\ ring \in RingOf(Task)
    /\ live \in Nat
    /\ handles \in Nat
    /\ accepting \in BOOLEAN
    /\ refs \in Nat
    /\ task \in [Task -> TaskState]
    /\ job \in [Worker -> Task \cup {NULL}]
    /\ pc \in [Thread -> Location]
    /\ after \in [Thread -> {"absent", "idle", "running", "looking", "gone"}]
    /\ arg \in [Thread -> Argument]
    /\ result \in [Client -> {"None", "CreationFailed", "Down", "Failed"}]
    /\ muted \in BOOLEAN

Init ==
    /\ core = "none"
    /\ ring = EmptyRing
    /\ live = 0
    /\ handles = 0
    /\ accepting = FALSE
    /\ refs = 0
    /\ task = [k \in Task |-> "new"]
    /\ job = [w \in Worker |-> NULL]
    /\ pc = [t \in Thread |-> IF t \in Client THEN "absent" ELSE "unborn"]
    /\ after = [t \in Thread |-> IF t \in Client THEN "idle" ELSE "looking"]
    /\ arg = [t \in Thread |-> NoArgument]
    /\ result = [c \in Client |-> "None"]
    /\ muted = FALSE

-----------------------------------------------------------------------------
(* Condition variables.  A woken thread goes back to the test of its loop.  *)

Waiters(condition) == {t \in Thread : pc[t] = condition}

Resume(condition) ==
    IF condition = "not_empty" THEN "looking"
    ELSE IF condition = "not_full" THEN "resubmitting"
    ELSE "restopping"

(* Whether a signal or broadcast that may report an error succeeds.         *)
Notified == IF "signal" \in Fault THEN BOOLEAN ELSE {TRUE}

(* Mutants of SignalWakes and BroadcastWakes: submit signals only when the  *)
(* queue was empty; close signals instead of broadcasting.                  *)
SignalWakesIfEmpty(condition, ok) ==
    IF ok /\ Waiters(condition) # {} /\ (condition = "not_empty" => ring.count = 0)
    THEN {{t} : t \in Waiters(condition)} ELSE {{}}

BroadcastWakesOne(condition, ok) ==
    IF ok /\ Waiters(condition) # {} THEN {CHOOSE t \in Waiters(condition) : TRUE} ELSE {}

SignalWakes(condition, ok) ==
    IF ok /\ Waiters(condition) # {} THEN {{t} : t \in Waiters(condition)} ELSE {{}}

BroadcastWakes(condition, ok) == IF ok THEN Waiters(condition) ELSE {}

Moved(t, where, woken) ==
    [u \in Thread |-> IF u = t THEN where
                      ELSE IF u \in woken THEN Resume(pc[u]) ELSE pc[u]]

SpuriousWake(t) ==
    /\ "spurious" \in Fault
    /\ pc[t] \in Condition
    /\ pc' = [pc EXCEPT ![t] = Resume(pc[t])]
    /\ UNCHANGED <<coreVars, task, localVars>>

-----------------------------------------------------------------------------
(* thread_pool_new.  A failure before the first worker is started frees     *)
(* what was allocated and leaves no state.                                  *)

New(c) ==
    /\ core = "none"
    /\ core' = "live"
    /\ refs' = 1
    /\ handles' = 1
    /\ accepting' = TRUE
    /\ pc' = [pc EXCEPT ![c] = "building"]
    /\ UNCHANGED <<ring, live, task, localVars>>

(* The loop over the workers: each is counted before its thread is created. *)
InLoop(c) == pc[c] = "building" /\ result[c] # "CreationFailed"

NewCounts(c, w) ==
    /\ InLoop(c)
    /\ \A v \in Worker : pc[v] # "starting"
    /\ pc[w] = "unborn"
    /\ refs' = refs + 1
    /\ live' = live + 1
    /\ pc' = [pc EXCEPT ![w] = "starting"]
    /\ UNCHANGED <<core, ring, handles, accepting, task, localVars>>

NewWorker(c, w) ==
    /\ InLoop(c)
    /\ pc[w] = "starting"
    /\ pc' = [pc EXCEPT ![w] = "looking"]
    /\ UNCHANGED <<coreVars, task, localVars>>

(* Mutant of NewWorkerFails: the reference is not given back.               *)
NewWorkerFailsRetaining(c, w) ==
    /\ "create" \in Fault
    /\ InLoop(c)
    /\ pc[w] = "starting"
    /\ live' = live - 1
    /\ pc' = [pc EXCEPT ![w] = "unborn"]
    /\ result' = [result EXCEPT ![c] = "CreationFailed"]
    /\ UNCHANGED <<core, ring, handles, accepting, refs, task, job, after, arg, muted>>

(* The thread cannot be created: the count and the reference that were      *)
(* taken for it are given back ...                                          *)
NewWorkerFails(c, w) ==
    /\ "create" \in Fault
    /\ InLoop(c)
    /\ pc[w] = "starting"
    /\ live' = live - 1
    /\ refs' = refs - 1
    /\ pc' = [pc EXCEPT ![w] = "unborn"]
    /\ result' = [result EXCEPT ![c] = "CreationFailed"]
    /\ UNCHANGED <<core, ring, handles, accepting, task, job, after, arg, muted>>

(* ... then the pool is closed, and new goes on to wait for the workers     *)
(* that it has started.                                                     *)
NewCloses(c) ==
    /\ pc[c] = "building"
    /\ result[c] = "CreationFailed"
    /\ accepting' = FALSE
    /\ pc' = Moved(c, "stopping", BroadcastWakes("not_empty", TRUE)
                                    \cup BroadcastWakes("not_full", TRUE))
    /\ after' = [after EXCEPT ![c] = "absent"]
    /\ UNCHANGED <<core, ring, live, handles, refs, task, job, arg, result, muted>>

NewReturns(c) ==
    /\ InLoop(c)
    /\ \A w \in Worker : pc[w] \notin {"unborn", "starting"}
    /\ pc' = [pc EXCEPT ![c] = "idle"]
    /\ UNCHANGED <<coreVars, task, localVars>>

-----------------------------------------------------------------------------
(* Who can use the pool: a client with a handle, and a worker from inside   *)
(* a task that captured one.                                                *)

Home(t) == IF t \in Client THEN "idle" ELSE "running"

HasHandle(t) ==
    /\ pc[t] = Home(t)
    /\ t \in Worker => job[t] \in Capturing

(* Mutant of OnWorker: the thread-local pool pointer is never set.          *)
OnWorkerNever(t) == FALSE

(* sync_current_thread_pool == core                                         *)
OnWorker(t) == t \in Worker

Share(t, c) ==
    /\ HasHandle(t)
    /\ pc[c] = "absent"
    /\ handles # Int32Max
    /\ handles' = handles + 1
    /\ refs' = refs + 1
    /\ pc' = [pc EXCEPT ![c] = "idle"]
    /\ UNCHANGED <<core, ring, live, accepting, task, localVars>>

DropHandle(c) ==
    /\ pc[c] = "idle"
    /\ pc' = [pc EXCEPT ![c] = "finalizing"]
    /\ after' = [after EXCEPT ![c] = "absent"]
    /\ UNCHANGED <<coreVars, task, job, arg, result, muted>>

(* Mutant of Finalize: the last handle closes the pool and tells nobody.    *)
FinalizeSilently(t) ==
    /\ pc[t] = "finalizing"
    /\ handles' = handles - 1
    /\ accepting' = (accepting /\ handles # 1)
    /\ pc' = [pc EXCEPT ![t] = "releasing"]
    /\ UNCHANGED <<core, ring, live, refs, task, localVars>>

Finalize(t) ==
    /\ pc[t] = "finalizing"
    /\ handles' = handles - 1
    /\ accepting' = (accepting /\ handles # 1)
    /\ pc' = Moved(t, "releasing",
                   IF handles = 1 THEN Waiters("not_empty") \cup Waiters("not_full")
                   ELSE {})
    /\ UNCHANGED <<core, ring, live, refs, task, localVars>>

(* core_release: the last reference releases the tasks still queued.  None  *)
(* ever is (see TasksAccounted), so the finalizers of handles captured by   *)
(* such a task are left out.                                                *)
Queued == {ring.slots[Slot(ring, k)] : k \in 0 .. ring.count - 1}

CoreRelease(t) ==
    /\ pc[t] = "releasing"
    /\ refs' = refs - 1
    /\ pc' = [pc EXCEPT ![t] = after[t]]
    /\ \/ /\ refs # 1
          /\ UNCHANGED <<core, ring, task>>
       \/ /\ refs = 1
          /\ core' = "freed"
          /\ ring' = EmptyRing
          /\ task' = [k \in Task |-> IF k \in Queued THEN "dropped" ELSE task[k]]
    /\ UNCHANGED <<live, handles, accepting, localVars>>

-----------------------------------------------------------------------------
(* try_execute (block = FALSE) and execute (block = TRUE).  The closure of  *)
(* a capturing task is made with share, a critical section of its own.      *)

BeginSubmit(t, k, b) ==
    /\ HasHandle(t)
    /\ task[k] = "new"
    /\ handles # Int32Max
    /\ handles' = IF k \in Capturing THEN handles + 1 ELSE handles
    /\ refs' = IF k \in Capturing THEN refs + 1 ELSE refs
    /\ task' = [task EXCEPT ![k] = "pending"]
    /\ arg' = [arg EXCEPT ![t] = [task |-> k, block |-> b]]
    /\ pc' = [pc EXCEPT ![t] = "submitting"]
    /\ UNCHANGED <<core, ring, live, accepting, job, after, result, muted>>

Full == ring.count = Capacity

InSubmit(t) == pc[t] \in {"submitting", "resubmitting"}

WouldDeadlock(t) ==
    pc[t] = "submitting" /\ arg[t].block /\ accepting /\ OnWorker(t) /\ Full

MustWait(t) == arg[t].block /\ accepting /\ Full

(* moonbit_decref(task) runs the finalizer of a captured handle.            *)
Decref(t, k, where) ==
    /\ pc' = [pc EXCEPT ![t] = IF k \in Capturing THEN "finalizing" ELSE where]
    /\ after' = [after EXCEPT ![t] = where]

Reject(t, why) ==
    /\ task' = [task EXCEPT ![arg[t].task] = why]
    /\ arg' = [arg EXCEPT ![t] = NoArgument]
    /\ Decref(t, arg[t].task, Home(t))
    /\ UNCHANGED <<coreVars, job, result, muted>>

SubmitLockFails(t) ==
    /\ "lock" \in Fault
    /\ pc[t] = "submitting"
    /\ Reject(t, "Failed")

SubmitWouldDeadlock(t) ==
    /\ WouldDeadlock(t)
    /\ Reject(t, "WouldDeadlock")

SubmitWait(t) ==
    /\ InSubmit(t)
    /\ ~WouldDeadlock(t)
    /\ MustWait(t)
    /\ pc' = [pc EXCEPT ![t] = "not_full"]
    /\ UNCHANGED <<coreVars, task, localVars>>

SubmitWaitFails(t) ==
    /\ "wait" \in Fault
    /\ InSubmit(t)
    /\ ~WouldDeadlock(t)
    /\ MustWait(t)
    /\ Reject(t, "Failed")

SubmitRefused(t) ==
    /\ InSubmit(t)
    /\ ~MustWait(t)
    /\ \/ ~accepting /\ Reject(t, "PoolClosed")
       \/ accepting /\ Full /\ Reject(t, "QueueFull")

(* Mutant of SubmitEnqueue: when the signal fails the closure is released   *)
(* like that of a rejected task, although it is in the queue.               *)
SubmitEnqueueReleasing(t) ==
    /\ InSubmit(t)
    /\ accepting /\ ~Full
    /\ ring' = Put(ring, arg[t].task)
    /\ arg' = [arg EXCEPT ![t] = NoArgument]
    /\ \E ok \in Notified : \E woken \in SignalWakes("not_empty", ok) :
         /\ pc' = Moved(t, Home(t), woken)
         /\ task' = [task EXCEPT ![arg[t].task] = IF ok THEN "queued" ELSE "Failed"]
         /\ muted' = (muted \/ ~ok)
    /\ UNCHANGED <<core, live, handles, accepting, refs, job, after, result>>

SubmitEnqueue(t) ==
    /\ InSubmit(t)
    /\ accepting /\ ~Full
    /\ ring' = Put(ring, arg[t].task)
    /\ task' = [task EXCEPT ![arg[t].task] = "queued"]
    /\ arg' = [arg EXCEPT ![t] = NoArgument]
    /\ \E ok \in Notified : \E woken \in SignalWakes("not_empty", ok) :
         /\ pc' = Moved(t, Home(t), woken)
         /\ muted' = (muted \/ ~ok)
    /\ UNCHANGED <<core, live, handles, accepting, refs, job, after, result>>

SubmitStep(t) ==
    \/ SubmitLockFails(t)
    \/ SubmitWouldDeadlock(t)
    \/ SubmitWait(t)
    \/ SubmitWaitFails(t)
    \/ SubmitRefused(t)
    \/ SubmitEnqueue(t)

-----------------------------------------------------------------------------
(* close and shutdown.  Neither changes anything when its first lock fails. *)

Close(t) ==
    /\ HasHandle(t)
    /\ accepting' = FALSE
    /\ \E okE, okF \in Notified :
         /\ pc' = Moved(t, Home(t), BroadcastWakes("not_empty", okE)
                                      \cup BroadcastWakes("not_full", okF))
         /\ muted' = (muted \/ ~okE \/ ~okF)
    /\ UNCHANGED <<core, ring, live, handles, refs, task, job, after, arg, result>>

(* A worker is turned away; a close that reports an error ends the call.    *)
Shutdown(t) ==
    /\ HasHandle(t)
    /\ ~OnWorker(t)
    /\ accepting' = FALSE
    /\ \E okE, okF \in Notified :
         /\ pc' = Moved(t, IF okE /\ okF THEN "stopping" ELSE Home(t),
                        BroadcastWakes("not_empty", okE)
                          \cup BroadcastWakes("not_full", okF))
         /\ result' = [result EXCEPT ![t] = IF okE /\ okF THEN "None" ELSE "Failed"]
         /\ muted' = (muted \/ ~okE \/ ~okF)
    /\ after' = [after EXCEPT ![t] = Home(t)]
    /\ UNCHANGED <<core, ring, live, handles, refs, task, job, arg>>

(* The rest of shutdown and of a failed new: wait until live_workers is 0.  *)
(* new aborts the process where shutdown reports an error.                  *)
InStop(t) == pc[t] \in {"stopping", "restopping"}

StopWait(t) ==
    /\ InStop(t)
    /\ live # 0
    /\ pc' = [pc EXCEPT ![t] = "stopped"]
    /\ UNCHANGED <<coreVars, task, localVars>>

ShutdownFails(c) ==
    /\ after[c] = "idle"
    /\ \/ "lock" \in Fault /\ pc[c] = "stopping"
       \/ "wait" \in Fault /\ InStop(c) /\ live # 0
    /\ pc' = [pc EXCEPT ![c] = "idle"]
    /\ result' = [result EXCEPT ![c] = "Failed"]
    /\ UNCHANGED <<coreVars, task, job, after, arg, muted>>

ShutdownReturns(c) ==
    /\ InStop(c)
    /\ after[c] = "idle"
    /\ live = 0
    /\ pc' = [pc EXCEPT ![c] = "idle"]
    /\ result' = [result EXCEPT ![c] = "Down"]
    /\ UNCHANGED <<coreVars, task, job, after, arg, muted>>

NewFails(c) ==
    /\ InStop(c)
    /\ after[c] = "absent"
    /\ live = 0
    /\ pc' = [pc EXCEPT ![c] = "releasing"]
    /\ UNCHANGED <<coreVars, task, localVars>>

StopStep(t) ==
    StopWait(t) \/ (t \in Client /\ (ShutdownFails(t) \/ ShutdownReturns(t) \/ NewFails(t)))

-----------------------------------------------------------------------------
(* The worker loop.  A worker aborts the process when a call fails, so its  *)
(* calls succeed.                                                           *)

WorkerWait(w) ==
    /\ pc[w] = "looking"
    /\ ring.count = 0 /\ accepting
    /\ pc' = [pc EXCEPT ![w] = "not_empty"]
    /\ UNCHANGED <<coreVars, task, localVars>>

(* Mutant of WorkerTake: it does not tell a waiting submitter.              *)
WorkerTakeSilently(w) ==
    /\ pc[w] = "looking"
    /\ ring.count # 0
    /\ ring' = Take(ring)
    /\ job' = [job EXCEPT ![w] = Front(ring)]
    /\ task' = [task EXCEPT ![Front(ring)] = "running"]
    /\ pc' = [pc EXCEPT ![w] = "running"]
    /\ UNCHANGED <<core, live, handles, accepting, refs, after, arg, result, muted>>

WorkerTake(w) ==
    /\ pc[w] = "looking"
    /\ ring.count # 0
    /\ ring' = Take(ring)
    /\ job' = [job EXCEPT ![w] = Front(ring)]
    /\ task' = [task EXCEPT ![Front(ring)] = "running"]
    /\ \E woken \in SignalWakes("not_full", TRUE) : pc' = Moved(w, "running", woken)
    /\ UNCHANGED <<core, live, handles, accepting, refs, after, arg, result, muted>>

(* Mutants of WorkerExit: a worker of a closed pool leaves without draining *)
(* the queue; or leaves without telling those who wait for it.              *)
WorkerExitUndrained(w) ==
    /\ pc[w] = "looking"
    /\ ~accepting
    /\ live' = live - 1
    /\ pc' = Moved(w, "releasing", Waiters("stopped"))
    /\ after' = [after EXCEPT ![w] = "gone"]
    /\ UNCHANGED <<core, ring, handles, accepting, refs, task, job, arg, result, muted>>

WorkerExitSilently(w) ==
    /\ pc[w] = "looking"
    /\ ring.count = 0 /\ ~accepting
    /\ live' = live - 1
    /\ pc' = [pc EXCEPT ![w] = "releasing"]
    /\ after' = [after EXCEPT ![w] = "gone"]
    /\ UNCHANGED <<core, ring, handles, accepting, refs, task, job, arg, result, muted>>

WorkerExit(w) ==
    /\ pc[w] = "looking"
    /\ ring.count = 0 /\ ~accepting
    /\ live' = live - 1
    /\ pc' = Moved(w, "releasing", Waiters("stopped"))
    /\ after' = [after EXCEPT ![w] = "gone"]
    /\ UNCHANGED <<core, ring, handles, accepting, refs, task, job, arg, result, muted>>

WorkerLooks(w) == WorkerWait(w) \/ WorkerTake(w) \/ WorkerExit(w)

TaskReturns(w) ==
    /\ pc[w] = "running"
    /\ task' = [task EXCEPT ![job[w]] = "done"]
    /\ job' = [job EXCEPT ![w] = NULL]
    /\ Decref(w, job[w], "looking")
    /\ UNCHANGED <<coreVars, arg, result, muted>>

-----------------------------------------------------------------------------
(* The program is over once the core is gone.                               *)
Finished == core = "freed" /\ UNCHANGED vars

ClientNext(c) ==
    \/ New(c)
    \/ \E w \in Worker : NewCounts(c, w) \/ NewWorker(c, w) \/ NewWorkerFails(c, w)
    \/ NewCloses(c)
    \/ NewReturns(c)
    \/ DropHandle(c)

UserNext(t) ==
    \/ \E c \in Client : Share(t, c)
    \/ \E k \in Task, b \in BOOLEAN : BeginSubmit(t, k, b)
    \/ Close(t)
    \/ Shutdown(t)

ThreadNext(t) ==
    \/ UserNext(t)
    \/ SubmitStep(t)
    \/ StopStep(t)
    \/ Finalize(t)
    \/ CoreRelease(t)
    \/ SpuriousWake(t)

Next ==
    \/ \E c \in Client : ClientNext(c)
    \/ \E t \in Thread : ThreadNext(t)
    \/ \E w \in Worker : WorkerLooks(w) \/ TaskReturns(w)
    \/ Finished

Spec == Init /\ [][Next]_vars

-----------------------------------------------------------------------------
(* Safety.                                                                  *)

(* Every accepted task is in exactly one place, the queue or one worker,    *)
(* until it is done; none is lost, duplicated, run twice, or still queued   *)
(* when the core is released ("Already queued tasks are still executed").   *)
TasksAccounted ==
    /\ Queued = {k \in Task : task[k] = "queued"}
    /\ Cardinality(Queued) = ring.count
    /\ \A k \in Task :
         task[k] = "running" <=> Cardinality({w \in Worker : job[w] = k}) = 1
    /\ \A k \in Task : task[k] # "dropped"

(* A closure that owns a handle and is not yet released.                    *)
Captured == {k \in Capturing : task[k] \in {"pending", "queued", "running"}}

(* The thread is about to drop the handle of a closure, not its own.        *)
DropsCapture(t) == after[t] \notin {"absent", "gone"}

(* refs counts the clients with a handle, the workers that have not         *)
(* released and the captured handles, wherever the thread that drops one    *)
(* is; so the core is freed by the last of them, be it a client, a worker   *)
(* or a worker releasing a closure, and never under a thread that uses it.  *)
(* Once new has returned, handles is the number of handles not yet          *)
(* finalized and live_workers the number of workers that have not left      *)
(* their loop: the finalizer's abort() on handles <= 0 is unreachable, and  *)
(* shutdown, which waits for live_workers = 0, waits for every worker.      *)
ReferencesAccounted ==
    /\ refs = Cardinality({c \in Client : pc[c] # "absent"})
              + Cardinality({w \in Worker : pc[w] \notin {"unborn", "gone"}})
              + Cardinality(Captured)
              + Cardinality({t \in Thread : /\ pc[t] \in {"finalizing", "releasing"}
                                            /\ DropsCapture(t)})
    /\ core = "live" <=> refs > 0
    /\ live = Cardinality({w \in Worker :
                 pc[w] \notin {"unborn", "gone"} /\ ~(pc[w] = "releasing" /\ after[w] = "gone")})
    /\ (\A c \in Client : result[c] # "CreationFailed") =>
         handles = Cardinality({c \in Client :
                      pc[c] # "absent" /\ ~(pc[c] = "releasing" /\ after[c] = "absent")})
                   + Cardinality(Captured)
                   + Cardinality({t \in Thread : pc[t] = "finalizing" /\ DropsCapture(t)})

(* While a worker sleeps on not_empty, at least as many workers are on      *)
(* their way to the queue as it has tasks, so submit's single cond_signal   *)
(* per task never leaves a task behind that a sleeping worker could run, as *)
(* long as no signal has failed.                                            *)
NoTaskOverlooked ==
    (~muted /\ Waiters("not_empty") # {}) =>
        Cardinality({w \in Worker : pc[w] = "looking"}) >= ring.count

(* Nobody sleeps through the end of the pool: workers and submitters sleep  *)
(* only while it accepts tasks (or a broadcast has failed), shutdown only   *)
(* while some worker lives.                                                 *)
NoSleeperMissesClose ==
    /\ ~muted =>
         (Waiters("not_empty") \cup Waiters("not_full") # {} => accepting)
    /\ Waiters("stopped") # {} => live > 0

-----------------------------------------------------------------------------
(* Liveness.  Threads inside the pool's code run on unless they are blocked *)
(* in cond_wait, and tasks terminate; nothing is assumed about when clients *)
(* call, and no spurious wake-up is relied on.                              *)

Fairness ==
    /\ \A t \in Thread : /\ WF_vars(SubmitStep(t))
                         /\ WF_vars(StopStep(t))
                         /\ WF_vars(Finalize(t) \/ CoreRelease(t))
    /\ \A w \in Worker : WF_vars(WorkerLooks(w)) /\ WF_vars(TaskReturns(w))

FairSpec == Spec /\ Fairness

(* execute and shutdown return: execute "Blocks until the task is queued or *)
(* the pool closes", shutdown "waits until queued and running tasks finish".*)
CallsReturn ==
    \A t \in Thread :
        pc[t] \in {"submitting", "stopping"} ~> pc[t] \in {"idle", "running", "absent"}

(* When no client holds a handle any more the pool winds itself up: workers *)
(* drain the queue and leave, and the last reference frees the core.        *)
AbandonedPoolIsFreed ==
    (<>[](core = "live" => \A c \in Client : pc[c] = "absent"))
        => <>[](core \in {"none", "freed"})

=============================================================================
