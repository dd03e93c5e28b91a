# TLA+ models of the native synchronization library

The library gives MoonBit programs threads and the usual synchronization
primitives on the native backend. Each primitive is a C file (`native.c`) with a
reference-counted *core* (a mutex, condition variables, some counters) and small
*handles* that MoonBit's garbage collection finalizes, plus a `.mbt` wrapper that
validates arguments and turns status codes into values or errors. Paths below are
relative to the repository root.

## The system and its modules

| Part | Source | State | Operations | Modules |
|---|---|---|---|---|
| OwnedBytes channel | `src/channel/` | circular queue of native copies, byte count, sender count, closed, references | new, share, try_send, send(_checked), close, try_recv, recv, drop | `OwnedBytesChannel`, promise `FifoChannel` |
| Thread pool | `src/unsafe/thread_pool/` | circular queue of closures, live workers, handles, accepting, references | new, share, try_execute, execute, close, shutdown, drop, worker loop | `ThreadPool`, promise `Executor` (mapping in `ThreadPoolRefinement`); two pools in `TwoPools` |
| Threads | `src/unsafe/thread/` | joinable / joining / detached, finished, the closure | spawn, join, detach, drop, thread main | `Thread` |
| Generic channel | `src/unsafe/channel/` | as the OwnedBytes channel, pointers instead of copies | the same | `GenericChannel`, promise `FifoChannel` |
| Wait group | `src/wait_group/` | int32 counter | new, share, add, done, wait, drop | `WaitGroup` |
| Once | `src/unsafe/once/` | fresh / running / done / poisoned | call_once: begin, complete, poison | `Once` |
| Mutex, condition variable | `src/unsafe/mutex/` | OS mutex, `owner`, `locked`, the boxed value | with_lock, wait, notify_one, notify_all | `MutexCondvar` |
| Read-write lock | `src/unsafe/rwlock/` | the OS lock | with_read, with_write | `RwLock` |
| Atomics | `src/atomic/` | one int32 word for three API types | load, store, swap, compare_exchange, fetch_add | `AtomicWord`, promise `AtomicRegister` |
| Native layer | `src/internal/` | mutex, condition variable, atomic reference count | lock, wait, signal, broadcast, inc, dec | `Native` for the small primitives; inside the others |
| Facades, error types | `src/facade.mbt`, `src/types/` | none | re-exports | no behaviour |
| Scripts, tests, benchmarks | `scripts/`, `*_test.mbt` | none | sanitizer runs | not part of the library |

`Ring` is the circular queue inside the three queueing cores, as operators on a
record (`slots`, `head`, `tail`, `count`); its capacity is any positive number.
`FifoChannel` is a bounded FIFO whose operations take effect in one instant,
`Executor` a FIFO executor that runs every accepted task once and whose shutdown
waits for all of them, `AtomicRegister` a register of the API type.

The instances TLC checks are in `MCOwnedBytesChannel`, `MCOwnedBytesWorkload`
(which also chooses the lengths that are sent), `MCThreadPool`, `MCGenericChannel`,
`MCShared` (wait group and atomics) and `MCLocks` (mutex and read-write lock).
The two parts of `MCShared`, and those of `MCLocks`, do not interact: the variable
`subject` chooses at the start which of them a behaviour is about, so that one run
checks both without multiplying their states. `Thread`, `Once` and `TwoPools`
are checked as they are. The proofs are in the modules named `...Proofs`.

`PROJECT.json` lists the hazards of this code with the line where each one bites
and the properties that watch it, and the lines every definition models.

## How the models correspond to the code

**Steps.** An action is one critical section: from a `mutex_lock`, or the return of
`cond_wait`, to the next unlock or `cond_wait`. Everything the code does under
one lock, signals and broadcasts included, is one step. Where a thread is between
two critical sections is `pc`; the arguments and locals that survive are `call` or
`arg` (channels) and `arg`, `after`, `job` (pool). The important cases are submit's copy
of the payload with the mutex released (`SubmitCopy` and then `SubmitEnqueue`,
which asks everything again), the finalizers, whose `core_release` comes after the
unlock (`CoreRelease`), and `shutdown`, which closes and waits under two locks.
In `MutexCondvar` the granularity is finer, since `condvar_wait` reads `locked` and
`owner` without the mutex: each read and each write of a field is a step, and the
two writes of a pair happen in either order.

**Waiting and failing.** `cond_signal` wakes one waiter of the system's choice and
a woken thread competes for the mutex with everybody else. The constant `Fault`
says what else the system may do: `"lock"`, `"wait"` and `"signal"` let those calls
report an error, `"spurious"` wakes a waiter for no reason, `"create"`, `"join"` and
`"detach"` make those thread calls fail, `"unlock"` (read-write lock) reports an
error after the lock was released. Finalizers and workers abort the process on an
error, so theirs succeed in every behaviour that goes on. An enabled fault takes
the same path as the error that the tests inject. The ghost variable `muted` records
that a signal or broadcast has failed: wake-up properties promise nothing then.

**Data.** A payload is a model value with a length; a closure is a model value, and
the closures in `Capturing` own a pool handle, made with `share` at submission and
finalized when the closure is released, possibly by a worker. A closure that
runs may use that handle for any operation. In `GenericChannel` `kept` is the set of
messages that callers hold. A refusal gives the message back; an error makes the
wrapper raise, which drops it, and that includes a `recv` whose signal failed
after the message was taken.

**Handles.** The small primitives share `Native`: an `arc` is the reference count
with the set of threads that have a handle. `share` adds a holder, the finalizer
drops one and frees the core with the last. In the pool and the channels the
count is spread over more kinds of references and is modelled field by field.

**Threads.** The state is JOINING or DETACHING while the mutex is free and the system
is called, so these are places of their own. `os` is what the system knows of the
thread, `holders` who refers to the one handle object (the MoonBit runtime counts
these references and finalizes it with the last). The child is among them when its
closure reaches the handle; such a reference goes with the closure, whoever
releases it. `sync_thread_start` is the step `SpawnCreates` up to
`pthread_create`, from which on the child runs, and `SpawnStarted`. A finalizer
that calls `abort()` sets `aborted`, and nothing happens afterwards.

**Once.** The initializer runs outside the mutex, may raise, and may call `call_once`
on the same Once again. `complete` and `poison` may fail to lock; the state then stays
running with nobody to end it, which the ghost `abandoned` records.

**Pool construction.** `thread_pool_new` counts a worker and takes its reference
(`NewCounts`) before it creates the thread (`NewWorker`), while the workers that
already run go to sleep beside the empty queue. When it fails both are given back
(`NewWorkerFails`), then the pool is closed (`NewCloses`), and `new` waits for the
running workers and releases the core like a shutdown and a drop.

**Atomics.** An operation is one step on the shared word. `answer` records the last
call: the operation, its arguments and what it returned. `AtomicRegister` has one
operation for each value of the arguments and the same `answer`, so the refinement
fixes what a store, a comparison or an addition does with the arguments it was
given. The conversions between the
API types and `int32_t`, the packed 64-bit result of compare-exchange and the
wrap-around are computed as in the code, for a word of `2 * Half` values; the
ordering validation is a table, and the ghost `native` keeps the orders that reached C.

**Two pools.** Each pool's single worker is a client of the other pool while it runs a
task, so a task may submit to, wait for or shut down the pool whose task is doing the
same to its own.

## Runs

| Run | Configuration | Shows |
|---|---|---|
| `owned_bytes_faults` | 2 senders, 2 slots, messages of 1, 2 and 3 bytes, limits 2 and 3, all faults | the ring (`RingIntegrity`), the byte count (`BytesAccounted`), the native copies (`CopiesAccounted`) and the references (`HandlesAccounted`) are exact; the channel refines `FifoChannel` |
| `owned_bytes_progress` | 2 senders, 2 slots, limits 2 and 3, fair; only 1 byte, only 2 bytes, or both, any number of sends | nobody sleeps through a close, nor the receiver beside a message; with one length a fitting send does not stay blocked; close unblocks every call; with a receiver that goes on receiving a send returns, or the other sender queues messages for ever |
| `owned_bytes_stranded` | 2 senders, 3 slots, 1 and 2 bytes, limits 2 and 3, fair | **violated**: see below |
| `thread_pool_faults` | 2 clients, 2 workers, 2 slots, 3 tasks, 1 of them capturing, all faults | tasks and references accounted for, no task is overlooked by a sleeping worker, nobody sleeps through the close; the pool refines `Executor` |
| `thread_pool_progress` | 2 clients, 1 worker, 1 slot, 3 tasks, 1 of them capturing, fair | refines the fair `Executor`; execute and shutdown return; an abandoned pool frees itself |
| `two_pools` | 2 pools of 1 worker and 1 slot, tasks that use the other pool, 2 and 3 tasks, fair | calls across the pools return unless both workers wait in each other's pool |
| `thread_lifecycle` | 2 users and the child, failing create, join and detach, fair | the system thread, the closure, the core and the outcome each have one owner; join returns |
| `generic_channel_faults` | 2 senders, 2 slots, 3 messages, all faults | every message has one owner, references are exact; the channel refines `FifoChannel` |
| `generic_channel_progress` | 2 senders, 1 slot, 3 messages, fair | free space and close unblock every call |
| `shared_primitives` | wait group: 3 threads, limit 2, deltas -2 to 4, all faults; atomics: 2 threads, 4-valued word; fair | the counter is what callers were told, no sleeper misses zero, a stable zero releases all; the word refines `AtomicRegister`, illegal orderings never reach C |
| `once` | 3 threads, all faults, fair | one initializer, true outcomes; sleepers have somebody to wake them; waiting callers return |
| `locks` | mutex and condition variable: 2 threads, all faults; read-write lock: 3 threads, failing lock and unlock; fair | the unsynchronized owner check is exact, mutual exclusion, guards accounted for, woken waiters get the mutex back; write callbacks run alone and leave nothing locked |

**Bounds.** Two slots wrap around and two senders already race for the last one;
limit 3 with lengths 1 and 2 makes the byte limit bite before and after the slot
limit. In the pool, three tasks for one slot make submissions block; one worker makes
a task that submits to its own full pool the only one that could make room; two
workers separate the one that releases the last handle from the one asleep. Three
callers of one thread handle are enough for one that is in the system call, one
that is refused and the child that ends or drops its own handle. With one slot and
three messages both senders of the generic channel are blocked at once. A wait group
with limit 2 and deltas up to 4 passes both ends of the range, and far; three threads
are one that brings it to zero, one asleep and one that adds again at once. A
4-valued word (`Half = 2`) has a sign, an overflow in both directions and a flag
above it; the proof covers every width. Payloads are sent without limit; a task
is submitted at most once. Each run has one core per
component: its end is the release of the core.

**Deadlock** is checked except in `two_pools`, `shared_primitives`, `once` and
`locks`. In `two_pools` two workers may wait for each other, which is what
`CrossCallsReturn` names. A wait group nobody brings to zero, a Once whose
initializer reenters it and a condition variable nobody notifies leave their
waiters asleep for good, and after the last finalizer of these cores nothing is
left to do.

**Symmetry** is used over senders, over messages of the generic channel, over workers
and over the tasks that capture no handle, in runs without liveness properties only.

### What the violated run shows

`receive` signals `writable` once per message (`src/channel/native.c:350`). When
blocked senders need different numbers of bytes, the one that wakes may still not
fit and waits again, while another one that does fit is not woken. It stays
blocked although the channel is open and has room for it, until another message
is received. The wrapper says of `send` (`src/channel/owned_bytes_channel.mbt:113`)
"Blocks until bytes are copied into the queue or the channel closes."
`owned_bytes_progress` shows the limits of this. With messages of one length it does
not happen at all, whether the slots or the bytes run out first
(`OneLengthSendReturns`). With two lengths and a receiver that goes on receiving, a
send that never returns is one that is overtaken for ever: another sender puts message
after message into the queue (`ReturnsOrOvertaken`). That alternative cannot be left
out, since neither the condition variable nor the mutex is fair to the sender that
needs more room. In particular every send returns once the others stop sending.

### Exceptions that passing properties name

Some properties hold only up to cases that the code has and that are written into
the property, so that a reader sees them: a wake-up may be lost after a failed signal or
broadcast (`muted`); a Once whose `complete` or `poison` could not lock stays running, and
an initializer that calls `call_once` on its own Once waits for itself
(`CallersReturn`); `WouldDeadlock` detects a worker waiting for its own pool but not two
pools waiting for each other (`MutualWait` in `TwoPools`).

## Fairness

`FairSpec` assumes weak fairness of each thread that is inside the library and not
blocked in `cond_wait`: the operating system runs every runnable thread, and
the mutex is free between critical sections. It assumes nothing about callers
(nobody has to call, close, notify or drop), about spurious wake-ups or about which
waiter a signal picks, and never that a failing step happens. Where user code runs
inside the library's call it is assumed to end: tasks of the pool, initializers,
callbacks of the mutex. Three assumptions are stronger:

- `ReturnsOrOvertaken` assumes the receiver's loop (`Draining`), as part of the
  property; it assumes no bound on the sends and no fairness among the senders;
- in `Thread` the end of the task is strongly fair, because a task may use its own
  handle any number of times before it returns, and in `MutexCondvar` the end of a
  callback, which may wait any number of times before;
- in `MutexCondvar` taking the mutex back after a wait is strongly fair: the OS
  mutex does not pass over one waiter for ever, although others lock it in between.

Faults are off in the progress runs of the channels and the pool. They are on in
`thread_lifecycle`, `shared_primitives`, `once` and `locks`, whose fairness covers no
failing step.

## Proofs

Every theorem is for all values of the constants that satisfy the named assumptions
of its module: any number of threads, senders, workers and tasks, any capacity,
lengths and limits the constructors accept, any word size, any set of faults. The
assumptions are the constructors' validation (`CapacityAssumption`,
`LimitAssumption`), finiteness and distinctness of the names, and the list of fault
names; TLC evaluates them in the runs.

| Module | About | Theorems |
|---|---|---|
| `RingProofs` | `Ring` | lemmas on modular indices, `Put`, `Take`, the slots in use and the queue they spell |
| `OwnedBytesChannelProofs` | `OwnedBytesChannel` | `TypeCorrect`, `RingCorrect`, `BytesCorrect`, `CopiesCorrect`, `HandlesCorrect`, `WakeupsCorrect`, `FifoCorrect` |
| `GenericChannelProofs` | `GenericChannel` | `MessagesCorrect`, `HandlesCorrect`, `FifoCorrect` |
| `ThreadPoolInvariant`, `ThreadPoolSteps`, `ThreadPoolProofs` | `ThreadPool` | `TasksCorrect`, `ReferencesCorrect`, `NoSleeperMissesCloseCorrect`, `NoTaskOverlookedCorrect`, `ExecutorCorrect` |
| `ThreadProofs` | `Thread` | `OwnedOnceCorrect`, `ClosureCorrect`, `ReferencesCorrect`, `JoinFindsResultCorrect` |
| `PrimitiveProofs` | `Native`, `MutexCondvar`, `RwLock`, `WaitGroup`, `AtomicWord`, `Once` | lemmas on what new, share and drop do to an `arc`; `OwnerCheckCorrect`, `ExclusionCorrect`, `GuardsCorrect`; `RwExclusionCorrect`; `CountCorrect`, `SleepersCorrect`, `CoreCorrect`; `RegisterCorrect`, `OrdersCorrect`; `OutcomesCorrect`, `OnceSleepersCorrect`, `OnceCoreCorrect` |

The three modules on the pool are one development: the invariant and the lemmas about
waking and counting, one lemma per group of actions, and the theorems. What the
counting lemmas use of finite sets is collected in `Counting!FiniteSetFacts` and
`FiniteSetOrder`. The lemmas assume it, which keeps the library out of the provers'
sight; the modules with the theorems prove it from `FiniteSetTheorems`
(`FiniteSetFactsHold`) before they use the lemmas, so no theorem rests on it.

Each state machine has an inductive invariant, `IInv` (`RwInv`, `WgInv`,
`AtomicInv`, `OnceInv`), shown to
hold initially and to be kept by every action; the properties follow from it.

**OwnedBytes channel.** No conjunct of `IInv` is inductive alone: that a submit
leaves `queued_bytes` in range needs the byte check and the ring; that a receive
subtracts the right length needs `RingIntegrity`, so that the slot at `head` is a
message; that `core_release` frees the remaining copies needs `OccupiedCount` (a
well-formed ring has `count` slots in use) and that no sender is inside a call when
the last reference goes. `CallsWellFormed` adds what the control state implies.
`BytesAccounted` states the sum with a function of prefix sums: a queue grows at one
end and shrinks at the other, so each step gives the next function explicitly and no
induction on the queue is needed. `WakeupsCorrect` adds who may sleep to it.
`FifoCorrect` shows that the channel implements `FifoChannel`: `Put` appends to
`Contents`, `Take` removes its head, `core_release` empties it, and every other step
leaves what the abstract channel sees unchanged. It needs `LifeCycle`, which says
that nobody is inside a channel that does not exist, and again the exact
reference count.

**Generic channel.** `MessagesOwnedOnce` is not inductive: that a take removes a
message from the set of queued ones needs every slot to hold a different one, and
that a send gives back or drops only what it has needs `arg` to be set exactly while
its sender is blocked (`Messages`). `HandlesAccounted` needs `Beginning`, as in the
pool. `FifoCorrect` has the same argument as that of the OwnedBytes channel.

**Thread pool.** `IInv` consists of
- `Places`: where a client and where a worker can be; a worker never waits for room;
- `Beginning`: until `new` has returned, or has failed and cleaned up, only its
  caller has a handle and there are no tasks, so that the cleanup of a failed
  construction meets no submission;
- `Jobs`, `Submissions`: a worker has a closure exactly while it is inside a task, a
  submitter exactly while it is in submit, and no two have the same one;
- `Queue`: the ring is well formed, holds exactly the queued tasks, each once, and
  is empty once a worker has left its loop (from then on nothing is accepted);
- `NoSleeperMissesClose` and `ReferencesAccounted`.

The counters are sums of sizes of sets, and a step moves at most one thread in or
out of each: `Recount` gives the change of one size and `Counts` that of all of
them. `LastReference` concludes that when the last reference goes nobody is left
inside, hence that the queue is empty and nothing is dropped with the core. This is
where the counting and the ownership of tasks need each other.

`NoTaskOverlooked` is inductive relative to `IInv`. A step that neither adds a task
nor lets a worker stop looking keeps it (`Attends`); a worker that takes a task
lowers both sides by one; a submission raises the number of tasks by one and its
signal, if anybody sleeps, the number of workers on their way; and a worker goes to
sleep only beside an empty queue.

`ExecutorCorrect` shows that the pool implements `Executor`, action by action.
Queueing a task is the moment it is accepted: it was pending, so it is neither queued
nor running nor done. Taking one is its start: `Jobs` gives each running task a worker
of its own, and the one that takes is not among them (`FewerRunning`). A shutdown
that finds `live_workers` at 0 finds, by the exact count and `Beginning`, that every
worker has left its loop, hence an empty queue and nothing running (`StoppedIsDown`).
Releasing the core is not seen, because `LastReference` says that it drops nothing.

**Threads.** `Roles` says who excludes whom (one join or detach at a time, by a holder;
one finalizer, after the last holder), `States` what `core->state` means for the
system's view of the thread, `Closure` who owns the closure, `Results` when the
outcome is there. `ThreadOwnedOnce` follows from `Roles` and `States` and neither
alone: a failed join goes back to JOINABLE, which has to imply that the system
thread still is.

**Small primitives.** For the wait group the checked properties are inductive with the
type invariant and the `arc`. Once needs `RunnerKnown` (who is inside, and what the
state means while somebody is). The mutex needs `FieldsKnown`: only the thread
itself writes its own name into `owner`, and whoever holds the mutex and has written
both fields finds them as it left them; this makes a check that reads two
fields at two moments exact. For the atomics the encodings are shown inverse to the
decodings at every width, and the packed result to be split where it was joined;
each step on the word is then the register's operation with the same arguments.

### Only model-checked

`TwoPools`, and all liveness properties with the refinement of the fair `Executor`:
liveness and `ENABLED` are outside what the proof system supports, as are induction
over data and the value of a recursive definition.

## Not modelled

- The read-only queries (`length`, `capacity`, `is_closed`, `worker_count`,
  `pending_count`, `is_finished`, `id`) and `yield`: they change no state.
- Allocation failures and failing constructors before a core exists: they free what
  they made and leave no state. The pool's constructor, which has started workers by
  then, is modelled with its cleanup.
- A failing `unlock` of a mutex: the code reports it and goes on as if the mutex were
  free, and POSIX gives no state for it. Likewise an OS unlock of a read-write lock that
  fails without releasing it: the wrapper only unlocks what the same thread has locked,
  for which `pthread_rwlock_unlock` reports no error. The Windows variants of the native layer,
  whose locks do not fail.
- The hardware memory model. The atomics are single steps; what an ordering does to
  other memory is not visible in an interleaving model. The fields read without the
  mutex are single, untorn words.
- Locking a mutex or a read-write lock again from its own callback, which the OS locks
  leave undefined.
- The value in a mutex's box and the contents of payloads: nothing in the library
  looks at them.
- The test hooks that inject errors: their effect is that of the fault they inject.
- Facades, error types, scripts, tests and benchmarks: no state of their own.
