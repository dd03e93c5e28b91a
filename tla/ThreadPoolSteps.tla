-------------------------- MODULE ThreadPoolSteps ---------------------------
(***************************************************************************)
(* The release of the core, the submissions and closing keep IInv.         *)
(***************************************************************************)
EXTENDS ThreadPoolInvariant

(* Most leaves are first-order; those that are not name their prover.       *)
USE Zenon

(* A reference goes; with the last one the core, and no task. *)
LEMMA CoreReleaseKeeps ==
    ASSUME FiniteSetFacts, IInv, NEW t \in Thread, CoreRelease(t)
    PROVE  IInv'
<1>1. /\ TypeOK /\ Places /\ Beginning /\ Jobs /\ Submissions /\ Queue
      /\ NoSleeperMissesClose /\ ReferencesAccounted
  BY DEF IInv
<1>2. /\ pc[t] = "releasing" /\ refs' = refs - 1 /\ pc' = [pc EXCEPT ![t] = after[t]]
      /\ refs # 1 => UNCHANGED <<core, ring>>
      /\ refs = 1 => core' = "freed" /\ ring' = EmptyRing /\ ring.count = 0 /\ Queued = {}
      /\ UNCHANGED <<live, handles, accepting, task, job, after, arg, result, muted>>
  <2>1. refs = 1 => ring.count = 0 /\ Queued = {}
    BY LastReference DEF CoreRelease
  <2>2. refs = 1 => task' = task
    BY <1>1, <2>1 DEF CoreRelease, TypeOK
  <2>3. QED
    BY <2>1, <2>2 DEF CoreRelease, localVars
<1>3. t \in Thread /\ Steps(t, after[t])
  BY <1>1, <1>2, Names DEF TypeOK, Location, Steps, Moves
<1>4. Places'
  BY <1>1, <1>2, <1>3, PlacesFrame, Names, SMT DEF Steps, Moves, Places, ClientPlace,
     WorkerPlace, Condition, Resume
<1>5. Beginning'
  <2>1. core # "none" /\ core' # "none" /\ UNCHANGED <<task, result, accepting>>
    BY <1>1, <1>2, Names DEF Beginning, Thread
  <2>2. CASE t \in Worker
    <3>1. after[t] = "running" => \E k \in Task : task[k] # "new"
      <4>1. after[t] = "running" => job[t] # NULL
        BY <1>1, <1>2, <2>2 DEF Jobs, InTask
      <4>2. QED
        BY <1>1, <2>2, <4>1, SMT DEF Jobs, TypeOK
    <3>2. after[t] \in {"looking", "running", "gone"} /\ t \notin Client
      BY <1>1, <2>2, Names DEF Places, WorkerPlace
    <3>3. QED
      BY <1>1, <1>3, <2>1, <3>1, <3>2, EarlyFrame
  <2>3. CASE t \in Client
    <3>1. after[t] \in {"idle", "absent"} /\ t \notin Worker /\ after'[t] = after[t]
      BY <1>1, <1>2, <2>3, Names DEF Places, ClientPlace
    <3>2. result[t] = "CreationFailed" => after[t] = "absent"
      BY <1>1, <1>2, <2>3 DEF Beginning
    <3>3. QED
      BY <1>1, <1>2, <1>3, <2>1, <3>1, <3>2, EarlyFrame, SMT
  <2>4. QED
    BY <2>2, <2>3, Names
<1>6. Jobs'
  BY <1>1, <1>2, <1>3, JobsFrame, Names, SMT DEF InTask, Steps, Moves, Places,
     ClientPlace, WorkerPlace, Condition, Resume
<1>7. Submissions'
  BY <1>1, <1>2, <1>3, SubmissionsFrame DEF Submitting, Steps, Moves, Condition,
     Resume
<1>8. Queue'
  <2>1. t \in Worker => (Leaving(t)' <=> Leaving(t))
    BY <1>1, <1>2, <1>3 DEF Leaving, Steps, Moves, Places, WorkerPlace
  <2>2. CASE refs # 1
    BY <1>1, <1>2, <1>3, <2>1, <2>2, QueueFrame DEF Queue
  <2>3. CASE refs = 1
    <3>1. WellFormed(ring)' /\ ring'.count = 0
      BY <1>2, <2>3, EmptyWellFormed, SMT DEF EmptyRing
    <3>2. Queued' = {}
      BY <3>1, SMT DEF Queued
    <3>3. \A w \in Worker : Leaving(w)' => Leaving(w)
      BY <1>3, <2>1, Names DEF Steps, Moves, Leaving, Condition, Resume
    <3>4. \A k \in Task : task'[k] # "queued" /\ task'[k] # "dropped"
      BY <1>1, <1>2, <2>3 DEF Queue
    <3>5. \A w \in Worker : Leaving(w)' => ~accepting'
      BY <1>1, <1>2, <3>3 DEF Queue
    <3>6. QED
      BY <3>1, <3>2, <3>4, <3>5, SMT DEF Queue
  <2>4. QED
    BY <2>2, <2>3
<1>9. NoSleeperMissesClose'
  <2>1. after[t] \notin Condition
    BY <1>1 DEF TypeOK, Condition
  <2>2. QED
    BY <1>1, <1>2, <1>3, <2>1, SleepFrame
<1>10. ReferencesAccounted' /\ refs' \in Nat /\ live' \in Nat /\ handles' \in Nat
  <2>0. /\ pc[t] = "releasing" /\ pc'[t] = after[t] /\ after'[t] = after[t] /\ task' = task
        /\ t \in Client => after[t] \in {"idle", "absent"}
        /\ t \in Worker => after[t] \in {"looking", "running", "gone"}
    BY <1>1, <1>2, <1>3 DEF Steps, Moves, Places, ClientPlace, WorkerPlace
  <2>1. Weight(t)' + Bit(NULL \in Captured') = Weight(t) + Bit(NULL \in Captured) + (-1)
    BY <2>0, Names, SMT DEF Weight, Bit, ClientsIn, WorkersIn, Drops, DropsCapture, Captured
  <2>2. HandleWeight(t)' + Bit(NULL \in Captured') = HandleWeight(t) + Bit(NULL \in Captured) + 0
    BY <2>0, Names, SMT DEF HandleWeight, Bit, OwnHandles, CapturedFinal, DropsCapture, Captured
  <2>3. Bit(t \in LiveWorkers') = Bit(t \in LiveWorkers) + 0
    BY <2>0, Names, SMT DEF LiveWorkers, Bit
  <2>4. \A j \in Task : j # NULL => (j \in Captured' <=> j \in Captured)
    BY <1>1, <1>2 DEF Captured, TypeOK
  <2>5. /\ refs' = refs + (-1) /\ live' = live + 0 /\ handles' = handles + 0
        /\ refs \in Int /\ live \in Int /\ handles' \in Int /\ (-1) \in Int /\ 0 \in Int /\ 0 \in Int
    BY <1>1, <1>2, SMT DEF TypeOK
  <2>6. \A c \in Client : result'[c] # "CreationFailed" => result[c] # "CreationFailed"
    BY <1>2
  <2>7. /\ refs' \in Nat /\ live' \in Nat
        /\ (\A c \in Client : result'[c] # "CreationFailed") => handles' \in Nat
        /\ (core' = "live" <=> refs' > 0) => ReferencesAccounted'
    BY <1>1, <1>3, <2>1, <2>2, <2>3, <2>4, <2>5, <2>6, Tally DEF Steps
  <2>8. core' = "live" <=> refs' > 0
    <3>1. CASE refs = 1
      BY <1>2, <2>5, <3>1, SMT
    <3>2. CASE refs # 1
      BY <1>1, <1>2, <2>5, <2>7, <3>2, SMT DEF ReferencesAccounted
    <3>3. QED
      BY <3>1, <3>2
  <2>9. handles' \in Nat
    BY <1>1, <1>2, <2>7 DEF TypeOK
  <2>10. QED
    BY <2>7, <2>8, <2>9
<1>11. TypeOK'
  <2>1. ring' \in RingOf(Task) /\ core' \in {"none", "live", "freed"}
    BY <1>1, <1>2, EmptyWellFormed DEF TypeOK
  <2>2. QED
    BY <1>1, <1>2, <1>3, <1>10, <2>1 DEF TypeOK, Steps, Moves
<1>12. QED
  BY <1>4, <1>5, <1>6, <1>7, <1>8, <1>9, <1>10, <1>11 DEF IInv

(* A submission begins; the closure of a capturing task brings a handle and a
reference. *)
LEMMA BeginSubmitKeeps ==
    ASSUME FiniteSetFacts, IInv, NEW t \in Thread, NEW k \in Task, NEW b \in BOOLEAN, BeginSubmit(t, k, b)
    PROVE  IInv'
<1>1. /\ TypeOK /\ Places /\ Beginning /\ Jobs /\ Submissions /\ Queue
      /\ NoSleeperMissesClose /\ ReferencesAccounted
  BY DEF IInv
<1>2. /\ pc[t] = Home(t) /\ task[k] = "new" /\ pc' = [pc EXCEPT ![t] = "submitting"]
      /\ handles' = IF k \in Capturing THEN handles + 1 ELSE handles
      /\ refs' = IF k \in Capturing THEN refs + 1 ELSE refs
      /\ task' = [task EXCEPT ![k] = "pending"]
      /\ arg' = [arg EXCEPT ![t] = [task |-> k, block |-> b]]
      /\ pc[t] \in {"idle", "running"}
      /\ UNCHANGED <<core, ring, live, accepting, job, after, result, muted>>
  BY DEF BeginSubmit, HasHandle, Home, coreVars, localVars
<1>3. t \in Thread /\ Steps(t, "submitting")
  BY <1>1, <1>2, Names DEF TypeOK, Location, Steps, Moves, Condition, Resume
<1>4. Places'
  BY <1>1, <1>2, <1>3, PlacesFrame, Names DEF Steps, Moves, Places, ClientPlace,
     WorkerPlace, Condition, Resume
<1>5. Beginning'
  <2>1. core # "none" /\ \A c \in Client : ~Early(c)
    BY <1>1, <1>2, <1>3, NotEarly
  <2>2. \A c \in Client : ~Early(c)'
    BY <1>2, <1>3, <2>1, Names DEF Early, Steps, Moves, Condition, Resume
  <2>3. QED
    BY <1>1, <1>2, <1>3, <2>1, <2>2, InUseFrame DEF Steps, Moves
<1>6. Jobs'
  BY <1>1, <1>2, <1>3, JobsFrame, Names, SMT DEF InTask, Steps, Moves, Places,
     ClientPlace, WorkerPlace, Condition, Resume
<1>7. Submissions'
  <2>1. \A u \in Thread : arg[u].task \in Task \cup {NULL} /\ arg[u].task # k
    BY <1>1, <1>2, Names DEF TypeOK, Argument, Submissions
  <2>2. arg'[t].task = k /\ k # NULL /\ \A u \in Thread : u # t => arg'[u] = arg[u]
    BY <1>1, <1>2, Names DEF TypeOK
  <2>3. \A u \in Thread : u # t => (Submitting(u)' <=> Submitting(u))
    BY <1>3 DEF Submitting, Steps, Moves, Condition, Resume
  <2>4. Submitting(t)'
    BY <1>3 DEF Submitting, Steps, Moves
  <2>5. task'[k] = "pending" /\ \A j \in Task : j # k => task'[j] = task[j]
    BY <1>1, <1>2 DEF TypeOK
  <2>6. QED
    BY <1>1, <2>1, <2>2, <2>3, <2>4, <2>5, SMT DEF Submissions, Submitting
<1>8. Queue'
  BY <1>1, <1>2, <1>3, QueueFrame, SMT DEF Queue, Leaving, Steps, Moves, Condition,
     Resume
<1>9. NoSleeperMissesClose'
  BY <1>1, <1>2, <1>3, SleepFrame DEF Condition, Resume
<1>10. ReferencesAccounted' /\ refs' \in Nat /\ live' \in Nat /\ handles' \in Nat
  <2>1. Weight(t)' + Bit(k \in Captured') = Weight(t) + Bit(k \in Captured) + (IF k \in Capturing THEN 1 ELSE 0)
    BY <1>1, <1>2, <1>3, Names, SMT DEF Steps, Moves, Places, ClientPlace,
       WorkerPlace, Weight, Bit, ClientsIn, WorkersIn, Drops, DropsCapture,
       Captured, TypeOK
  <2>2. HandleWeight(t)' + Bit(k \in Captured') = HandleWeight(t) + Bit(k \in Captured) + (IF k \in Capturing THEN 1 ELSE 0)
    BY <1>1, <1>2, <1>3, Names, SMT DEF Steps, Moves, Places, ClientPlace,
       WorkerPlace, HandleWeight, Bit, OwnHandles, CapturedFinal, DropsCapture,
       Captured, TypeOK
  <2>3. Bit(t \in LiveWorkers') = Bit(t \in LiveWorkers) + 0
    BY <1>1, <1>2, <1>3, Names, SMT DEF Steps, Moves, Places, ClientPlace,
       WorkerPlace, LiveWorkers, Bit
  <2>4. \A j \in Task : j # k => (j \in Captured' <=> j \in Captured)
    BY <1>1, <1>2 DEF Captured, TypeOK, TypeOK
  <2>5. /\ refs' = refs + (IF k \in Capturing THEN 1 ELSE 0) /\ live' = live + 0 /\ handles' = handles + (IF k \in Capturing THEN 1 ELSE 0)
        /\ refs \in Int /\ live \in Int /\ handles' \in Int /\ (IF k \in Capturing THEN 1 ELSE 0) \in Int /\ 0 \in Int /\ (IF k \in Capturing THEN 1 ELSE 0) \in Int
    BY <1>1, <1>2, SMT DEF TypeOK
  <2>6. \A c \in Client : result'[c] # "CreationFailed" => result[c] # "CreationFailed"
    BY <1>2
  <2>7. /\ refs' \in Nat /\ live' \in Nat
        /\ (\A c \in Client : result'[c] # "CreationFailed") => handles' \in Nat
        /\ (core' = "live" <=> refs' > 0) => ReferencesAccounted'
    BY <1>1, <1>3, <2>1, <2>2, <2>3, <2>4, <2>5, <2>6, Tally DEF Steps
  <2>8. core' = "live" <=> refs' > 0
    <3>1. core = "live" /\ refs > 0
      BY <1>1, <1>2, Names, InsideIsLive
    <3>2. QED
      BY <1>1, <1>2, <3>1, SMT DEF TypeOK
  <2>9. handles' \in Nat
    BY <1>1, <1>2, <2>7, SMT DEF TypeOK
  <2>10. QED
    BY <2>7, <2>8, <2>9
<1>11. TypeOK'
  <2>1. [task |-> k, block |-> b] \in Argument
    BY DEF Argument
  <2>2. arg' \in [Thread -> Argument] /\ task' \in [Task -> TaskState]
    BY <1>1, <1>2, <2>1 DEF TypeOK, TaskState
  <2>3. QED
    BY <1>1, <1>2, <1>3, <1>10, <2>2 DEF TypeOK, Steps, Moves
<1>12. QED
  BY <1>4, <1>5, <1>6, <1>7, <1>8, <1>9, <1>10, <1>11 DEF IInv

(* A task is refused: its closure is released, and with it the handle that it
captured. *)
LEMMA RejectKeeps ==
    ASSUME FiniteSetFacts, IInv, NEW t \in Thread, NEW k \in Task, NEW why \in Refusal, 
           k = arg[t].task, InSubmit(t), Reject(t, why)
    PROVE  IInv'
<1>1. /\ TypeOK /\ Places /\ Beginning /\ Jobs /\ Submissions /\ Queue
      /\ NoSleeperMissesClose /\ ReferencesAccounted
  BY DEF IInv
<1>2. /\ pc[t] \in {"submitting", "resubmitting"} /\ task[k] = "pending"
      /\ pc' = [pc EXCEPT ![t] = IF k \in Capturing THEN "finalizing" ELSE Home(t)]
      /\ after' = [after EXCEPT ![t] = Home(t)] /\ arg' = [arg EXCEPT ![t] = NoArgument]
      /\ task' = [task EXCEPT ![k] = why] /\ why \notin {"new", "pending", "queued", "running", "done", "dropped"}
      /\ Home(t) = IF t \in Client THEN "idle" ELSE "running"
      /\ UNCHANGED <<core, ring, live, handles, accepting, refs, job, result, muted>>
  <2>1. task[k] = "pending"
    BY <1>1, Names DEF Submissions
  <2>2. QED
    BY <2>1 DEF InSubmit, Reject, Decref, Home, Refusal, coreVars
<1>3. t \in Thread /\ Steps(t, IF k \in Capturing THEN "finalizing" ELSE Home(t))
  <2>1. /\ (IF k \in Capturing THEN "finalizing" ELSE Home(t)) \in Location
        /\ Home(t) \in {"absent", "idle", "running", "looking", "gone"}
    BY <1>2 DEF Location
  <2>2. QED
    BY <1>1, <1>2, <2>1, Names DEF TypeOK, Steps, Moves
<1>4. Places'
  BY <1>1, <1>2, <1>3, PlacesFrame, Names, SMT DEF Steps, Moves, Places, ClientPlace,
     WorkerPlace, Condition, Resume
<1>5. Beginning'
  <2>1. core # "none" /\ \A c \in Client : ~Early(c)
    BY <1>1, <1>2, <1>3, NotEarly
  <2>2. \A c \in Client : ~Early(c)'
    BY <1>2, <1>3, <2>1, Names DEF Early, Steps, Moves, Condition, Resume
  <2>3. QED
    BY <1>1, <1>2, <1>3, <2>1, <2>2, InUseFrame, SMT DEF Steps, Moves
<1>6. Jobs'
  <2>1. t \in Worker => (InTask(t)' <=> InTask(t))
    BY <1>1, <1>2, <1>3, Names DEF InTask, Steps, Moves, Places, ClientPlace, WorkerPlace, TypeOK
  <2>2. \A j \in Task : task[j] = "running" <=> task'[j] = "running"
    BY <1>1, <1>2 DEF TypeOK
  <2>3. QED
    BY <1>1, <1>2, <1>3, <2>1, <2>2, JobsFrame
<1>7. Submissions'
  <2>1. arg'[t].task = NULL /\ \A u \in Thread : u # t => arg'[u] = arg[u]
    BY <1>1, <1>2 DEF TypeOK, NoArgument
  <2>2. \A u \in Thread : u # t => (Submitting(u)' <=> Submitting(u))
    BY <1>3 DEF Submitting, Steps, Moves, Condition, Resume
  <2>3. ~Submitting(t)'
    BY <1>2, <1>3 DEF Submitting, Steps, Moves
  <2>4. \A j \in Task : j # k => task'[j] = task[j]
    BY <1>1, <1>2 DEF TypeOK
  <2>5. \A u \in Thread : /\ arg[u].task \in Task \cup {NULL}
                          /\ u # t => arg[u].task # k
    BY <1>1, Names DEF TypeOK, Argument, Submissions
  <2>6. QED
    BY <1>1, <2>1, <2>2, <2>3, <2>4, <2>5, SMT DEF Submissions, Submitting
<1>8. Queue'
  <2>1. /\ \A j \in Task : task[j] = "queued" <=> task'[j] = "queued"
        /\ \A j \in Task : task'[j] # "dropped"
    BY <1>1, <1>2 DEF TypeOK, Queue
  <2>2. t \in Worker => ~Leaving(t)'
    BY <1>1, <1>2, <1>3, Names DEF Leaving, Steps, Moves, TypeOK
  <2>3. QED
    BY <1>1, <1>2, <1>3, <2>1, <2>2, QueueFrame
<1>9. NoSleeperMissesClose'
  BY <1>1, <1>2, <1>3, SleepFrame DEF Condition, Resume
<1>10. ReferencesAccounted' /\ refs' \in Nat /\ live' \in Nat /\ handles' \in Nat
  <2>0. /\ pc[t] \in {"submitting", "resubmitting"} /\ task[k] = "pending"
        /\ task'[k] \notin {"pending", "queued", "running"}
        /\ pc'[t] = IF k \in Capturing THEN "finalizing" ELSE after'[t]
        /\ after'[t] = IF t \in Client THEN "idle" ELSE "running"
    BY <1>1, <1>2, <1>3 DEF Steps, Moves, TypeOK
  <2>1. Weight(t)' + Bit(k \in Captured') = Weight(t) + Bit(k \in Captured) + 0
    BY <2>0, Names, SMT DEF Weight, Bit, ClientsIn, WorkersIn, Drops, DropsCapture, Captured
  <2>2. HandleWeight(t)' + Bit(k \in Captured') = HandleWeight(t) + Bit(k \in Captured) + 0
    BY <2>0, Names, SMT DEF HandleWeight, Bit, OwnHandles, CapturedFinal, DropsCapture, Captured
  <2>3. Bit(t \in LiveWorkers') = Bit(t \in LiveWorkers) + 0
    BY <2>0, Names, SMT DEF LiveWorkers, Bit
  <2>4. \A j \in Task : j # k => (j \in Captured' <=> j \in Captured)
    BY <1>1, <1>2 DEF Captured, TypeOK
  <2>5. /\ refs' = refs + 0 /\ live' = live + 0 /\ handles' = handles + 0
        /\ refs \in Int /\ live \in Int /\ handles' \in Int /\ 0 \in Int /\ 0 \in Int /\ 0 \in Int
    BY <1>1, <1>2, SMT DEF TypeOK
  <2>6. \A c \in Client : result'[c] # "CreationFailed" => result[c] # "CreationFailed"
    BY <1>2
  <2>7. /\ refs' \in Nat /\ live' \in Nat
        /\ (\A c \in Client : result'[c] # "CreationFailed") => handles' \in Nat
        /\ (core' = "live" <=> refs' > 0) => ReferencesAccounted'
    BY <1>1, <1>3, <2>1, <2>2, <2>3, <2>4, <2>5, <2>6, Tally, SMT DEF Steps
  <2>8. core' = "live" <=> refs' > 0
    BY <1>1, <1>2 DEF ReferencesAccounted
  <2>9. handles' \in Nat
    BY <1>1, <1>2, <2>7 DEF TypeOK
  <2>10. QED
    BY <2>7, <2>8, <2>9
<1>11. TypeOK'
  <2>1. arg' \in [Thread -> Argument] /\ task' \in [Task -> TaskState]
    BY <1>1, <1>2 DEF TypeOK, TaskState, NoArgument, Argument
  <2>2. QED
    BY <1>1, <1>2, <1>3, <1>10, <2>1 DEF TypeOK, Steps, Moves
<1>12. QED
  BY <1>4, <1>5, <1>6, <1>7, <1>8, <1>9, <1>10, <1>11 DEF IInv

(* Only a client waits for room, and only in an open pool. *)
LEMMA SubmitWaitKeeps ==
    ASSUME FiniteSetFacts, IInv, NEW t \in Thread, SubmitWait(t)
    PROVE  IInv'
<1>1. /\ TypeOK /\ Places /\ Beginning /\ Jobs /\ Submissions /\ Queue
      /\ NoSleeperMissesClose /\ ReferencesAccounted
  BY DEF IInv
<1>2. /\ pc[t] \in {"submitting", "resubmitting"} /\ t \in Client /\ accepting
      /\ pc' = [pc EXCEPT ![t] = "not_full"]
      /\ UNCHANGED <<core, ring, live, handles, accepting, refs, task, job, after, arg, result, muted>>
  BY <1>1, Names DEF SubmitWait, InSubmit, WouldDeadlock, MustWait, OnWorker,
     Places, WorkerPlace, coreVars, localVars
<1>3. t \in Thread /\ Steps(t, "not_full")
  BY <1>1, <1>2, Names DEF TypeOK, Location, Steps, Moves, Condition, Resume
<1>4. Places'
  BY <1>1, <1>2, <1>3, PlacesFrame, Names DEF Steps, Moves, Places, ClientPlace,
     WorkerPlace, Condition, Resume
<1>5. Beginning'
  <2>1. core # "none" /\ \A c \in Client : ~Early(c)
    BY <1>1, <1>2, <1>3, NotEarly
  <2>2. \A c \in Client : ~Early(c)'
    BY <1>2, <1>3, <2>1, Names DEF Early, Steps, Moves, Condition, Resume
  <2>3. QED
    BY <1>1, <1>2, <1>3, <2>1, <2>2, InUseFrame DEF Steps, Moves
<1>6. Jobs'
  BY <1>1, <1>2, <1>3, JobsFrame, Names, SMT DEF InTask, Steps, Moves, Places,
     ClientPlace, WorkerPlace, Condition, Resume
<1>7. Submissions'
  BY <1>1, <1>2, <1>3, SubmissionsFrame DEF Submitting, Steps, Moves, Condition,
     Resume
<1>8. Queue'
  BY <1>1, <1>2, <1>3, QueueFrame, SMT DEF Queue, Leaving, Steps, Moves, Condition,
     Resume
<1>9. NoSleeperMissesClose'
  <2>1. Waiters("stopped")' \subseteq Waiters("stopped")
    BY <1>1, <1>2 DEF Waiters, TypeOK
  <2>2. QED
    BY <1>1, <1>2, <2>1 DEF NoSleeperMissesClose
<1>10. ReferencesAccounted'
  <2>1. /\ Weight(t)' = Weight(t) /\ HandleWeight(t)' = HandleWeight(t)
        /\ t \in LiveWorkers' <=> t \in LiveWorkers
    BY <1>1, <1>2, <1>3, Names DEF Steps, Moves, Condition, Resume, Places,
       ClientPlace, WorkerPlace, Weight, HandleWeight, Bit, ClientsIn, WorkersIn,
       Drops, LiveWorkers, OwnHandles, CapturedFinal, DropsCapture
  <2>2. \A k \in Task : k \in Captured' <=> k \in Captured
    BY <1>2 DEF Captured
  <2>3. QED
    BY <1>1, <1>2, <1>3, <2>1, <2>2, CountsFrame DEF Steps
<1>11. TypeOK'
  BY <1>1, <1>2, <1>3, <1>10 DEF TypeOK, Steps, Moves
<1>12. QED
  BY <1>4, <1>5, <1>6, <1>7, <1>8, <1>9, <1>10, <1>11 DEF IInv

(* A task enters the queue, whether or not the signal reaches a worker. *)
LEMMA SubmitEnqueueKeeps ==
    ASSUME FiniteSetFacts, IInv, NEW t \in Thread, NEW k \in Task, NEW ok \in BOOLEAN, 
           NEW woken \in SignalWakes("not_empty", ok), InSubmit(t), accepting, ~Full,
           k = arg[t].task, ring' = Put(ring, k), task' = [task EXCEPT ![k] = "queued"],
           arg' = [arg EXCEPT ![t] = NoArgument], pc' = Moved(t, Home(t), woken),
           muted' = (muted \/ ~ok),
           UNCHANGED <<core, live, handles, accepting, refs, job, after, result>>
    PROVE  IInv'
<1>1. /\ TypeOK /\ Places /\ Beginning /\ Jobs /\ Submissions /\ Queue
      /\ NoSleeperMissesClose /\ ReferencesAccounted
  BY DEF IInv
<1>2. /\ pc[t] \in {"submitting", "resubmitting"} /\ task[k] = "pending" /\ ring.count # Capacity
      /\ Home(t) = IF t \in Client THEN "idle" ELSE "running"
      /\ task'[k] = "queued" /\ \A j \in Task : j # k => task'[j] = task[j]
      /\ t \in Worker => after[t] # "gone"
  <2>1. task[k] = "pending"
    BY <1>1, Names DEF Submissions
  <2>2. task'[k] = "queued" /\ \A j \in Task : j # k => task'[j] = task[j]
    BY <1>1 DEF TypeOK
  <2>3. t \in Worker => after[t] # "gone"
    BY <1>1 DEF Places, WorkerPlace, InSubmit
  <2>4. QED
    BY <2>1, <2>2, <2>3 DEF InSubmit, Full, Home
<1>3. t \in Thread /\ Steps(t, Home(t))
  <2>1. \A u \in woken : pc[u] \in Condition
    BY DEF SignalWakes, Waiters, Condition
  <2>2. Home(t) \in Location
    BY <1>2 DEF Location
  <2>3. Moves(t, Home(t))
    BY <1>1, <2>1, <2>2, MovedMoves
  <2>4. QED
    BY <1>1, <2>3 DEF TypeOK, Steps
<1>4. Places'
  <2>1. pc'[t] = Home(t) /\ after'[t] = after[t]
    BY <1>3 DEF Steps, Moves
  <2>2. t \in Client => ClientPlace(t)'
    BY <1>1, <1>2, <2>1 DEF Places, ClientPlace
  <2>3. t \in Worker => WorkerPlace(t)'
    BY <1>1, <1>2, <2>1, Names DEF Places, WorkerPlace
  <2>4. QED
    BY <1>1, <1>3, <2>2, <2>3, PlacesFrame
<1>5. Beginning'
  <2>1. core # "none" /\ \A c \in Client : ~Early(c)
    BY <1>1, <1>2, NotEarly
  <2>2. \A c \in Client : ~Early(c)'
    BY <1>2, <1>3, <2>1, Names, SMT DEF Early, Steps, Moves, Condition, Resume
  <2>3. QED
    BY <1>1, <1>2, <1>3, <2>1, <2>2, InUseFrame
<1>6. Jobs'
  <2>1. t \in Worker => (InTask(t)' <=> InTask(t))
    BY <1>1, <1>2, <1>3, Names DEF InTask, Steps, Moves, Places, ClientPlace, WorkerPlace
  <2>2. \A j \in Task : task[j] = "running" <=> task'[j] = "running"
    BY <1>2
  <2>3. QED
    BY <1>1, <1>3, <2>1, <2>2, JobsFrame
<1>7. Submissions'
  <2>1. arg'[t].task = NULL /\ \A u \in Thread : u # t => arg'[u] = arg[u]
    BY <1>1 DEF TypeOK, NoArgument
  <2>2. \A u \in Thread : u # t => (Submitting(u)' <=> Submitting(u))
    BY <1>3 DEF Submitting, Steps, Moves, Condition, Resume
  <2>3. ~Submitting(t)'
    BY <1>2, <1>3 DEF Submitting, Steps, Moves
  <2>4. \A u \in Thread : /\ arg[u].task \in Task \cup {NULL}
                          /\ u # t => arg[u].task # k
    BY <1>1, Names DEF TypeOK, Argument, Submissions
  <2>5. \A u \in Thread : arg'[u].task # NULL <=> Submitting(u)'
    BY <1>1, <2>1, <2>2, <2>3, SMT DEF Submissions, Submitting
  <2>6. \A u \in Thread : arg'[u].task # NULL => task'[arg'[u].task] = "pending"
    BY <1>1, <1>2, <2>1, <2>4, SMT DEF Submissions
  <2>7. \A u, v \in Thread : arg'[u].task = arg'[v].task /\ arg'[v].task # NULL => u = v
    BY <1>1, <2>1, SMT DEF Submissions
  <2>8. QED
    BY <2>5, <2>6, <2>7 DEF Submissions, Submitting
<1>8. Queue'
  <2> DEFINE At(r, i) == r.slots[Slot(r, i)]
  <2>1. ring \in RingOf(Task) /\ WellFormed(ring) /\ ring.count \in Nat
    BY <1>1, SMT DEF TypeOK, Queue, RingOf
  <2>2. /\ ring'.count = ring.count + 1 /\ At(ring', ring.count) = k
        /\ \A i \in 0 .. ring.count - 1 : At(ring', i) = At(ring, i)
    BY <1>2, <2>1, Names, PutReads, SMT
  <2>3. WellFormed(ring)'
    <3>1. WellFormed(ring')
      BY <1>2, <2>1, Names, PutWellFormed
    <3>2. QED
      BY <3>1 DEF WellFormed, Slot
  <2>4. Queued' = {At(ring', i) : i \in 0 .. ring'.count - 1} /\ Queued = {At(ring, i) : i \in 0 .. ring.count - 1}
    BY DEF Queued, Slot
  <2>5. \A i \in 0 .. ring'.count - 1 : i \in 0 .. ring.count - 1 \/ i = ring.count
    BY <2>1, <2>2, SMT
  <2>6. /\ ring.count \in 0 .. ring'.count - 1
        /\ \A i \in 0 .. ring.count - 1 : i \in 0 .. ring'.count - 1
    BY <2>1, <2>2, SMT
  <2>7. k \notin Queued
    BY <1>1, <1>2 DEF Queue
  <2> HIDE DEF At
  <2>8. Queued' = Queued \cup {k}
    BY <2>2, <2>4, <2>5, <2>6, SMT
  <2>9. \A i, j \in 0 .. ring.count - 1 : At(ring, i) = At(ring, j) => i = j
    BY <1>1 DEF Queue, At
  <2>10. \A i \in 0 .. ring.count - 1 : At(ring, i) # k
    BY <2>4, <2>7
  <2>11. \A i, j \in 0 .. ring'.count - 1 : At(ring', i) = At(ring', j) => i = j
    BY <2>2, <2>5, <2>9, <2>10, SMT
  <2>12. \A j \in Task : task'[j] = "queued" <=> j \in Queued'
    BY <1>1, <1>2, <2>8 DEF Queue
  <2>13. \A w \in Worker : ~Leaving(w)
    BY <1>1 DEF Queue
  <2>14. \A w \in Worker : ~Leaving(w)'
    BY <1>2, <1>3, <2>13, Names, SMT DEF Leaving, Steps, Moves, Condition, Resume
  <2>15. \A j \in Task : task'[j] # "dropped"
    BY <1>1, <1>2 DEF Queue
  <2>16. QED
    BY <2>3, <2>11, <2>12, <2>14, <2>15 DEF Queue, At, Slot
<1>9. NoSleeperMissesClose'
  <2>1. muted => muted'
    OBVIOUS
  <2>2. Home(t) \notin Condition
    BY <1>2 DEF Condition
  <2>3. QED
    BY <1>1, <1>3, <2>1, <2>2, SleepFrame
<1>10. ReferencesAccounted'
  <2>1. /\ pc'[t] = Home(t) /\ after'[t] = after[t]
    BY <1>3 DEF Steps, Moves
  <2>2. /\ Weight(t)' = Weight(t) /\ HandleWeight(t)' = HandleWeight(t)
        /\ t \in LiveWorkers' <=> t \in LiveWorkers
    BY <1>2, <2>1, Names DEF Weight, HandleWeight, Bit, ClientsIn, WorkersIn,
       Drops, LiveWorkers, OwnHandles, CapturedFinal, DropsCapture
  <2>3. \A j \in Task : j \in Captured' <=> j \in Captured
    BY <1>2 DEF Captured
  <2>4. QED
    BY <1>1, <1>3, <2>2, <2>3, CountsFrame DEF Steps
<1>11. TypeOK'
  <2>1. muted' \in BOOLEAN
    BY Zenon
  <2>2. ring' \in RingOf(Task)
    BY <1>1, <1>2, Names, PutWellFormed DEF TypeOK, Queue
  <2>3. arg' \in [Thread -> Argument] /\ task' \in [Task -> TaskState]
    BY <1>1 DEF TypeOK, TaskState, NoArgument, Argument
  <2>4. QED
    BY <1>1, <1>3, <2>1, <2>2, <2>3 DEF TypeOK, Steps, Moves
<1>12. QED
  BY <1>4, <1>5, <1>6, <1>7, <1>8, <1>9, <1>10, <1>11 DEF IInv

(* close, and the first half of shutdown: whom a broadcast reaches wakes up. *)
LEMMA ClosingKeeps ==
    ASSUME FiniteSetFacts, IInv, NEW t \in Thread, NEW where, NEW to, HasHandle(t),
           NEW okE \in BOOLEAN, NEW okF \in BOOLEAN, accepting' = FALSE,
           pc' = Moved(t, where, BroadcastWakes("not_empty", okE) \cup BroadcastWakes("not_full", okF)),
           muted' = (muted \/ ~okE \/ ~okF), after' = [after EXCEPT ![t] = to],
           \/ where = Home(t) /\ to = after[t] /\ result' = result
           \/ /\ t \in Client /\ where \in {"idle", "stopping"} /\ to = "idle"
              /\ \E r \in {"None", "Failed"} : result' = [result EXCEPT ![t] = r],
           UNCHANGED <<core, ring, live, handles, refs, task, job, arg>>
    PROVE  IInv'
<1>1. /\ TypeOK /\ Places /\ Beginning /\ Jobs /\ Submissions /\ Queue
      /\ NoSleeperMissesClose /\ ReferencesAccounted
  BY DEF IInv
<1>2. /\ pc[t] = Home(t) /\ pc[t] \in {"idle", "running"}
      /\ t \in Client => pc[t] = "idle" /\ where \in {"idle", "stopping"}
      /\ t \in Worker => pc[t] = "running" /\ where = "running" /\ to = after[t]
      /\ where = "stopping" => to = "idle"
      /\ to \in {after[t], "idle"} /\ (to # after[t] => t \in Client)
      /\ \A c \in Client : result'[c] = "CreationFailed" => result[c] = "CreationFailed"
      /\ result' \in [Client -> {"None", "CreationFailed", "Down", "Failed"}]
  BY <1>1, Names DEF HasHandle, Home, TypeOK
<1>3. t \in Thread /\ Steps(t, where)
  <2>1. \A u \in BroadcastWakes("not_empty", okE) \cup BroadcastWakes("not_full", okF) : pc[u] \in Condition
    BY DEF BroadcastWakes, Waiters, Condition
  <2>2. where \in Location
    BY <1>2, Names DEF Location
  <2>3. Moves(t, where)
    BY <1>1, <2>1, <2>2, MovedMoves
  <2>4. after[t] \in {"absent", "idle", "running", "looking", "gone"}
    BY <1>1 DEF TypeOK
  <2>5. to \in {"absent", "idle", "running", "looking", "gone"}
    BY <1>2, <2>4
  <2>6. QED
    BY <1>1, <2>3, <2>5 DEF TypeOK, Steps
<1>4. Places'
  <2>1. pc'[t] = where /\ after'[t] = to
    BY <1>1, <1>3 DEF TypeOK, Steps, Moves
  <2>2. t \in Client => ClientPlace(t)'
    BY <1>1, <1>2, <2>1 DEF Places, ClientPlace
  <2>3. t \in Worker => WorkerPlace(t)'
    BY <1>1, <1>2, <2>1 DEF Places, WorkerPlace
  <2>4. QED
    BY <1>1, <1>3, <2>2, <2>3, PlacesFrame
<1>5. Beginning'
  <2>1. core # "none" /\ \A c \in Client : ~Early(c)
    BY <1>1, <1>2, NotEarly
  <2>2. pc'[t] = where /\ where # "building" /\ where # "unborn"
    BY <1>2, <1>3, Names DEF Steps, Moves
  <2>3. \A c \in Client : pc'[c] # "building"
    BY <1>3, <2>1, <2>2, Names, SMTT(30) DEF Early, Steps, Moves, Condition, Resume
  <2>4. \A c \in Client : ~Early(c)'
    BY <1>2, <2>1, <2>3 DEF Early
  <2>5. where \in {"stopping", "restopping", "stopped"} => after'[t] # "absent"
    BY <1>1, <1>2, Names DEF TypeOK
  <2>6. QED
    BY <1>1, <1>3, <2>1, <2>2, <2>4, <2>5, InUseFrame
<1>6. Jobs'
  <2>1. t \in Worker => (InTask(t)' <=> InTask(t))
    BY <1>2, <1>3 DEF InTask, Steps, Moves
  <2>2. QED
    BY <1>1, <1>3, <2>1, JobsFrame
<1>7. Submissions'
  <2>1. Submitting(t)' <=> Submitting(t)
    BY <1>2, <1>3, Names DEF Submitting, Steps, Moves
  <2>2. QED
    BY <1>1, <1>3, <2>1, SubmissionsFrame
<1>8. Queue'
  <2>1. t \in Worker => ~Leaving(t)'
    BY <1>2, <1>3 DEF Leaving, Steps, Moves
  <2>2. QED
    BY <1>1, <1>3, <2>1, QueueFrame DEF Queue
<1>9. NoSleeperMissesClose'
  <2>1. Waiters("stopped")' \subseteq Waiters("stopped")
    BY <1>2, <1>3, Names DEF Waiters, Steps, Moves, Condition, Resume
  <2>2. CASE okE /\ okF
    <3>1. Waiters("not_empty")' = {} /\ Waiters("not_full")' = {}
      BY <1>2, <2>2, Names DEF BroadcastWakes, Waiters, Moved, Resume
    <3>2. QED
      BY <1>1, <2>1, <3>1 DEF NoSleeperMissesClose
  <2>3. CASE ~(okE /\ okF)
    <3>1. muted'
      BY <2>3
    <3>2. QED
      BY <1>1, <2>1, <3>1 DEF NoSleeperMissesClose
  <2>4. QED
    BY <2>2, <2>3
<1>10. ReferencesAccounted'
  <2>1. /\ pc'[t] = where /\ after'[t] = to
    BY <1>1, <1>3 DEF TypeOK, Steps, Moves
  <2>2. /\ Weight(t)' = Weight(t) /\ HandleWeight(t)' = HandleWeight(t)
        /\ t \in LiveWorkers' <=> t \in LiveWorkers
    BY <1>2, <2>1, Names DEF Weight, HandleWeight, Bit, ClientsIn, WorkersIn,
       Drops, LiveWorkers, OwnHandles, CapturedFinal, DropsCapture
  <2>3. \A k \in Task : k \in Captured' <=> k \in Captured
    BY DEF Captured
  <2>4. \A c \in Client : result[c] = "CreationFailed" => result'[c] = "CreationFailed"
    BY <1>1, <1>2, NotEarly DEF Early
  <2>5. QED
    BY <1>1, <1>3, <2>2, <2>3, <2>4, CountsFrame DEF Steps
<1>11. TypeOK'
  <2>1. accepting' \in BOOLEAN /\ muted' \in BOOLEAN
    BY Zenon
  <2>2. QED
    BY <1>1, <1>2, <1>3, <2>1 DEF TypeOK, Steps, Moves
<1>12. QED
  BY <1>4, <1>5, <1>6, <1>7, <1>8, <1>9, <1>10, <1>11 DEF IInv

=============================================================================
