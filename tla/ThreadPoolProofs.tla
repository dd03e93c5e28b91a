-------------------------- MODULE ThreadPoolProofs --------------------------
(***************************************************************************)
(* The safety properties of ThreadPool, for any number of clients, workers *)
(* and tasks, every capacity and every set of faults.  The invariant IInv  *)
(* is that of ThreadPoolInvariant, which shows with ThreadPoolSteps that   *)
(* most steps keep it; the rest of shutdown and the workers are here, and  *)
(* that the pool implements Executor.                                      *)
(***************************************************************************)
EXTENDS ThreadPoolSteps, ThreadPoolRefinement

(* Most leaves are first-order; those that are not name their prover.       *)
USE Zenon

(* Only a client waits for the workers, and only while one lives. *)
LEMMA StopWaitKeeps ==
    ASSUME FiniteSetFacts, IInv, NEW t \in Thread, StopWait(t)
    PROVE  IInv'
<1>1. /\ TypeOK /\ Places /\ Beginning /\ Jobs /\ Submissions /\ Queue
      /\ NoSleeperMissesClose /\ ReferencesAccounted
  BY DEF IInv
<1>2. /\ pc[t] \in {"stopping", "restopping"} /\ t \in Client /\ live # 0
      /\ pc' = [pc EXCEPT ![t] = "stopped"]
      /\ UNCHANGED <<core, ring, live, handles, accepting, refs, task, job, after, arg, result, muted>>
  BY <1>1, Names DEF StopWait, InStop, Places, WorkerPlace, coreVars, localVars
<1>3. t \in Thread /\ Steps(t, "stopped")
  BY <1>1, <1>2, Names DEF TypeOK, Location, Steps, Moves, Condition, Resume
<1>4. Places'
  BY <1>1, <1>2, <1>3, PlacesFrame, Names DEF Steps, Moves, Places, ClientPlace,
     WorkerPlace, Condition, Resume
<1>5. Beginning'
  BY <1>1, <1>2, <1>3, EarlyFrame, Names, SMT DEF Beginning, Early, Condition,
     Resume, Places, ClientPlace, WorkerPlace
<1>6. Jobs'
  BY <1>1, <1>2, <1>3, JobsFrame, Names, SMT DEF InTask, Steps, Moves, Places,
     ClientPlace, WorkerPlace, Condition, Resume
<1>7. Submissions'
  BY <1>1, <1>2, <1>3, SubmissionsFrame DEF Submitting, Steps, Moves, Condition,
     Resume
<1>8. Queue'
  BY <1>1, <1>2, <1>3, QueueFrame, SMT DEF Queue, Leaving, Steps, Moves, Condition,
     Resume
<1>9. NoSleeperMissesClose'
  <2>1. /\ Waiters("not_empty")' \subseteq Waiters("not_empty")
        /\ Waiters("not_full")' \subseteq Waiters("not_full")
    BY <1>1, <1>2 DEF Waiters, TypeOK
  <2>2. live' > 0
    BY <1>1, <1>2, SMT DEF TypeOK
  <2>3. QED
    BY <1>1, <1>2, <2>1, <2>2 DEF NoSleeperMissesClose
<1>10. ReferencesAccounted'
  <2>1. /\ Weight(t)' = Weight(t) /\ HandleWeight(t)' = HandleWeight(t)
        /\ t \in LiveWorkers' <=> t \in LiveWorkers
    BY <1>1, <1>2, <1>3, Names DEF Steps, Moves, Condition, Resume, Places,
       ClientPlace, WorkerPlace, Weight, HandleWeight, Bit, ClientsIn, WorkersIn,
       Drops, LiveWorkers, OwnHandles, CapturedFinal, DropsCapture
  <2>2. \A k \in Task : k \in Captured' <=> k \in Captured
    BY <1>2 DEF Captured
  <2>3. QED
    BY <1>1, <1>2, <1>3, <2>1, <2>2, CountsFrame DEF Steps
<1>11. TypeOK'
  BY <1>1, <1>2, <1>3, <1>10 DEF TypeOK, Steps, Moves
<1>12. QED
  BY <1>4, <1>5, <1>6, <1>7, <1>8, <1>9, <1>10, <1>11 DEF IInv

(* shutdown returns. *)
LEMMA ShutdownEndsKeeps ==
    ASSUME FiniteSetFacts, IInv, NEW c \in Client, ShutdownFails(c) \/ ShutdownReturns(c)
    PROVE  IInv'
<1>1. /\ TypeOK /\ Places /\ Beginning /\ Jobs /\ Submissions /\ Queue
      /\ NoSleeperMissesClose /\ ReferencesAccounted
  BY DEF IInv
<1>2. /\ pc[c] \in {"stopping", "restopping"} /\ after[c] = "idle" /\ result[c] # "CreationFailed"
      /\ pc' = [pc EXCEPT ![c] = "idle"]
      /\ \E r \in {"Failed", "Down"} : result' = [result EXCEPT ![c] = r]
      /\ UNCHANGED <<core, ring, live, handles, accepting, refs, task, job, after, arg, muted>>
  BY <1>1 DEF ShutdownFails, ShutdownReturns, InStop, Beginning, coreVars,
     localVars
<1>3. c \in Thread /\ Steps(c, "idle")
  BY <1>1, <1>2, Names DEF TypeOK, Location, Steps, Moves, Condition, Resume
<1>4. Places'
  BY <1>1, <1>2, <1>3, PlacesFrame, Names DEF Steps, Moves, Places, ClientPlace,
     WorkerPlace, Condition, Resume
<1>5. Beginning'
  <2>1. core # "none"
    BY <1>1, <1>2 DEF Beginning
  <2>2. \A d \in Client : /\ d # c => pc'[d] = pc[d] /\ result'[d] = result[d]
                          /\ result'[d] = "CreationFailed" <=> result[d] = "CreationFailed"
                          /\ Early(d)' <=> Early(d)
    BY <1>1, <1>2, Names DEF TypeOK, Early
  <2>3. pc'[c] = "idle" /\ ~Early(c) /\ \A w \in Worker : pc'[w] = pc[w]
    BY <1>1, <1>2, Names DEF TypeOK, Early
  <2>4. \A d \in Client : ~Early(d)
    BY <1>1, <1>2, <2>3, SMT DEF Beginning
  <2>5. QED
    BY <1>1, <1>2, <2>1, <2>2, <2>3, <2>4, SMT DEF Beginning, Early
<1>6. Jobs'
  BY <1>1, <1>2, <1>3, JobsFrame, Names, SMT DEF InTask, Steps, Moves, Places,
     ClientPlace, WorkerPlace, Condition, Resume
<1>7. Submissions'
  BY <1>1, <1>2, <1>3, SubmissionsFrame DEF Submitting, Steps, Moves, Condition,
     Resume
<1>8. Queue'
  BY <1>1, <1>2, <1>3, QueueFrame, SMT DEF Queue, Leaving, Steps, Moves, Condition,
     Resume
<1>9. NoSleeperMissesClose'
  BY <1>1, <1>2, <1>3, SleepFrame DEF Condition, Resume
<1>10. ReferencesAccounted'
  <2>1. /\ Weight(c)' = Weight(c) /\ HandleWeight(c)' = HandleWeight(c)
        /\ c \in LiveWorkers' <=> c \in LiveWorkers
    BY <1>1, <1>2, <1>3, Names DEF Steps, Moves, Condition, Resume, Places,
       ClientPlace, WorkerPlace, Weight, HandleWeight, Bit, ClientsIn, WorkersIn,
       Drops, LiveWorkers, OwnHandles, CapturedFinal, DropsCapture
  <2>2. \A k \in Task : k \in Captured' <=> k \in Captured
    BY <1>2 DEF Captured
  <2>3. QED
    BY <1>1, <1>2, <1>3, <2>1, <2>2, CountsFrame, SMT DEF Steps
<1>11. TypeOK'
  BY <1>1, <1>2, <1>3, <1>10, SMT DEF TypeOK, Steps, Moves
<1>12. QED
  BY <1>4, <1>5, <1>6, <1>7, <1>8, <1>9, <1>10, <1>11 DEF IInv

(* A new that failed gives up its reference, without a finalizer. *)
LEMMA NewFailsKeeps ==
    ASSUME FiniteSetFacts, IInv, NEW c \in Client, NewFails(c)
    PROVE  IInv'
<1>1. /\ TypeOK /\ Places /\ Beginning /\ Jobs /\ Submissions /\ Queue
      /\ NoSleeperMissesClose /\ ReferencesAccounted
  BY DEF IInv
<1>2. /\ pc[c] \in {"stopping", "restopping"} /\ after[c] = "absent"
      /\ pc' = [pc EXCEPT ![c] = "releasing"]
      /\ result[c] = "CreationFailed"
      /\ UNCHANGED <<core, ring, live, handles, accepting, refs, task, job, after, arg, result, muted>>
  BY <1>1 DEF NewFails, InStop, Beginning, coreVars, localVars
<1>3. c \in Thread /\ Steps(c, "releasing")
  BY <1>1, <1>2, Names DEF TypeOK, Location, Steps, Moves, Condition, Resume
<1>4. Places'
  BY <1>1, <1>2, <1>3, PlacesFrame, Names DEF Steps, Moves, Places, ClientPlace,
     WorkerPlace, Condition, Resume
<1>5. Beginning'
  BY <1>1, <1>2, <1>3, EarlyFrame, Names, SMT DEF Beginning, Early, Condition,
     Resume, Places, ClientPlace, WorkerPlace
<1>6. Jobs'
  BY <1>1, <1>2, <1>3, JobsFrame, Names, SMT DEF InTask, Steps, Moves, Places,
     ClientPlace, WorkerPlace, Condition, Resume
<1>7. Submissions'
  BY <1>1, <1>2, <1>3, SubmissionsFrame DEF Submitting, Steps, Moves, Condition,
     Resume
<1>8. Queue'
  BY <1>1, <1>2, <1>3, QueueFrame, SMT DEF Queue, Leaving, Steps, Moves, Condition,
     Resume
<1>9. NoSleeperMissesClose'
  BY <1>1, <1>2, <1>3, SleepFrame DEF Condition, Resume
<1>10. ReferencesAccounted'
  <2>1. /\ Weight(c)' = Weight(c) /\ Weight(c) \in Int
        /\ c \in LiveWorkers' <=> c \in LiveWorkers
    BY <1>1, <1>2, <1>3, Names, SMT DEF Steps, Moves, Places, ClientPlace,
       WorkerPlace, Weight, HandleWeight, Bit, ClientsIn, WorkersIn, Drops,
       LiveWorkers, OwnHandles, CapturedFinal, DropsCapture
  <2>2. Captured' = Captured
    BY <1>2 DEF Captured
  <2>3. Bit(NULL \in Captured) \in Int /\ Bit(c \in LiveWorkers) \in Int
    BY SMT DEF Bit
  <2>4. /\ refs' = refs + (Weight(c)' - Weight(c)) + (Bit(NULL \in Captured') - Bit(NULL \in Captured))
        /\ live' = live + (Bit(c \in LiveWorkers') - Bit(c \in LiveWorkers))
        /\ refs' \in Int /\ live' \in Int /\ handles' \in Int
    BY <1>1, <1>2, <2>1, <2>2, <2>3, SMT DEF TypeOK, Bit
  <2>5. core' = "live" <=> refs' > 0
    BY <1>1, <1>2 DEF ReferencesAccounted
  <2>6. QED
    BY <1>1, <1>2, <1>3, <2>2, <2>4, <2>5, Counts DEF Steps
<1>11. TypeOK'
  BY <1>1, <1>2, <1>3, <1>10 DEF TypeOK, Steps, Moves
<1>12. QED
  BY <1>4, <1>5, <1>6, <1>7, <1>8, <1>9, <1>10, <1>11 DEF IInv

(* A worker goes to sleep, only in an open pool. *)
LEMMA WorkerWaitKeeps ==
    ASSUME FiniteSetFacts, IInv, NEW w \in Worker, WorkerWait(w)
    PROVE  IInv'
<1>1. /\ TypeOK /\ Places /\ Beginning /\ Jobs /\ Submissions /\ Queue
      /\ NoSleeperMissesClose /\ ReferencesAccounted
  BY DEF IInv
<1>2. /\ pc[w] = "looking" /\ accepting
      /\ pc' = [pc EXCEPT ![w] = "not_empty"]
      /\ UNCHANGED <<core, ring, live, handles, accepting, refs, task, job, after, arg, result, muted>>
  BY DEF WorkerWait, coreVars, localVars
<1>3. w \in Thread /\ Steps(w, "not_empty")
  BY <1>1, <1>2, Names DEF TypeOK, Location, Steps, Moves, Condition, Resume
<1>4. Places'
  BY <1>1, <1>2, <1>3, PlacesFrame, Names DEF Steps, Moves, Places, ClientPlace,
     WorkerPlace, Condition, Resume
<1>5. Beginning'
  <2>1. core # "none"
    BY <1>1, <1>2 DEF Beginning
  <2>2. QED
    BY <1>1, <1>2, <1>3, <2>1, EarlyFrame, Names
<1>6. Jobs'
  BY <1>1, <1>2, <1>3, JobsFrame, Names, SMT DEF InTask, Steps, Moves, Places,
     ClientPlace, WorkerPlace, Condition, Resume
<1>7. Submissions'
  BY <1>1, <1>2, <1>3, SubmissionsFrame DEF Submitting, Steps, Moves, Condition,
     Resume
<1>8. Queue'
  BY <1>1, <1>2, <1>3, QueueFrame, SMT DEF Queue, Leaving, Steps, Moves, Condition,
     Resume
<1>9. NoSleeperMissesClose'
  <2>1. Waiters("stopped")' \subseteq Waiters("stopped")
    BY <1>1, <1>2, <1>3 DEF Waiters, TypeOK
  <2>2. QED
    BY <1>1, <1>2, <2>1 DEF NoSleeperMissesClose
<1>10. ReferencesAccounted'
  <2>1. /\ Weight(w)' = Weight(w) /\ HandleWeight(w)' = HandleWeight(w)
        /\ w \in LiveWorkers' <=> w \in LiveWorkers
    BY <1>1, <1>2, <1>3, Names DEF Steps, Moves, Condition, Resume, Places,
       ClientPlace, WorkerPlace, Weight, HandleWeight, Bit, ClientsIn, WorkersIn,
       Drops, LiveWorkers, OwnHandles, CapturedFinal, DropsCapture
  <2>2. \A k \in Task : k \in Captured' <=> k \in Captured
    BY <1>2 DEF Captured
  <2>3. QED
    BY <1>1, <1>2, <1>3, <2>1, <2>2, CountsFrame DEF Steps
<1>11. TypeOK'
  BY <1>1, <1>2, <1>3, <1>10 DEF TypeOK, Steps, Moves
<1>12. QED
  BY <1>4, <1>5, <1>6, <1>7, <1>8, <1>9, <1>10, <1>11 DEF IInv

(* A worker takes the oldest task. *)
LEMMA WorkerTakeKeeps ==
    ASSUME FiniteSetFacts, IInv, NEW w \in Worker, NEW k, NEW woken \in SignalWakes("not_full", TRUE),
           pc[w] = "looking", ring.count # 0, k = Front(ring), ring' = Take(ring),
           job' = [job EXCEPT ![w] = k], task' = [task EXCEPT ![k] = "running"],
           pc' = Moved(w, "running", woken),
           UNCHANGED <<core, live, handles, accepting, refs, after, arg, result, muted>>
    PROVE  IInv'
<1>1. /\ TypeOK /\ Places /\ Beginning /\ Jobs /\ Submissions /\ Queue
      /\ NoSleeperMissesClose /\ ReferencesAccounted
  BY DEF IInv
<1>2. /\ k \in Task /\ task[k] = "queued" /\ ring.count > 0 /\ ring \in RingOf(Task) /\ WellFormed(ring)
      /\ task'[k] = "running" /\ \A j \in Task : j # k => task'[j] = task[j]
      /\ after[w] # "gone"
  <2>1. ring \in RingOf(Task) /\ WellFormed(ring) /\ ring.count > 0 /\ ring.count \in Nat
    BY <1>1, SMT DEF TypeOK, Queue, RingOf
  <2>2. k \in Task /\ k = ring.slots[Slot(ring, 0)]
    BY <2>1, Names, TakeWellFormed, TakeReads
  <2>3. 0 \in 0 .. ring.count - 1
    BY <2>1, SMT
  <2>4. task[k] = "queued"
    BY <1>1, <2>2, <2>3 DEF Queue, Queued
  <2>5. task'[k] = "running" /\ \A j \in Task : j # k => task'[j] = task[j]
    BY <1>1, <2>2 DEF TypeOK
  <2>6. after[w] # "gone"
    BY <1>1 DEF Places, WorkerPlace
  <2>7. QED
    BY <2>1, <2>2, <2>4, <2>5, <2>6
<1>3. w \in Thread /\ Steps(w, "running")
  <2>1. \A u \in woken : pc[u] \in Condition
    BY DEF SignalWakes, Waiters, Condition
  <2>2. w \in Thread /\ Moves(w, "running")
    BY <1>1, <2>1, MovedMoves, Names DEF Location
  <2>3. QED
    BY <1>1, <2>2 DEF TypeOK, Steps
<1>4. Places'
  <2>1. pc'[w] = "running" /\ after'[w] = after[w]
    BY <1>3 DEF Steps, Moves
  <2>2. WorkerPlace(w)' /\ w \notin Client
    BY <1>1, <1>2, <2>1, Names DEF Places, WorkerPlace
  <2>3. QED
    BY <1>1, <1>3, <2>2, PlacesFrame
<1>5. Beginning'
  <2>1. core # "none" /\ \A c \in Client : ~Early(c)
    BY <1>1, <1>2, <1>3, NotEarly
  <2>2. \A c \in Client : ~Early(c)'
    BY <1>3, <2>1, Names, SMT DEF Early, Steps, Moves, Condition, Resume
  <2>3. QED
    BY <1>1, <1>2, <1>3, <2>1, <2>2, InUseFrame
<1>6. Jobs'
  <2>1. \A v \in Worker : job[v] \in Task \cup {NULL} /\ job[v] # k
    BY <1>1, <1>2, Names, SMT DEF TypeOK, Jobs
  <2>2. job'[w] = k /\ \A v \in Worker : v # w => job'[v] = job[v]
    BY <1>1 DEF TypeOK
  <2>3. \A v \in Worker : v # w => (InTask(v)' <=> InTask(v))
    BY <1>1, <1>3, Names DEF Steps, Moves, Places, WorkerPlace, Condition, Resume, InTask
  <2>4. InTask(w)'
    BY <1>3 DEF InTask, Steps, Moves
  <2>5. \A v \in Worker : job'[v] # NULL <=> InTask(v)'
    BY <1>1, <1>2, <2>2, <2>3, <2>4, Names, SMTT(30) DEF Jobs
  <2>6. \A v \in Worker : job'[v] # NULL => task'[job'[v]] = "running"
    BY <1>1, <1>2, <2>1, <2>2, SMT DEF Jobs
  <2>7. \A u, v \in Worker : job'[u] = job'[v] /\ job'[v] # NULL => u = v
    BY <1>1, <2>1, <2>2, SMT DEF Jobs
  <2>8. \A j \in Task : task'[j] = "running" => \E v \in Worker : job'[v] = j
    <3>1. ASSUME NEW j \in Task, task'[j] = "running", j # k
          PROVE  \E v \in Worker : job'[v] = j
      <4>1. PICK v \in Worker : job[v] = j
        BY <1>1, <1>2, <3>1 DEF Jobs
      <4>2. v # w
        BY <1>1, <3>1, <4>1, Names DEF Jobs, InTask
      <4>3. QED
        BY <2>2, <4>1, <4>2
    <3>2. QED
      BY <2>2, <3>1
  <2>9. QED
    BY <2>5, <2>6, <2>7, <2>8 DEF Jobs
<1>7. Submissions'
  <2>1. \A j \in Task : task[j] = "pending" <=> task'[j] = "pending"
    BY <1>2
  <2>2. Submitting(w)' <=> Submitting(w)
    BY <1>3 DEF Submitting, Steps, Moves
  <2>3. QED
    BY <1>1, <1>3, <2>1, <2>2, SubmissionsFrame
<1>8. Queue'
  <2> DEFINE At(r, i) == r.slots[Slot(r, i)]
  <2>1. ring.count \in Nat
    BY <1>1, SMT DEF TypeOK, RingOf
  <2>2. /\ ring'.count = ring.count - 1 /\ At(ring, 0) = k
        /\ \A i \in 0 .. ring.count - 2 : At(ring', i) = At(ring, i + 1)
    BY <1>2, TakeReads
  <2>3. WellFormed(ring)'
    <3>1. WellFormed(ring')
      BY <1>2, Names, TakeWellFormed
    <3>2. QED
      BY <3>1 DEF WellFormed, Slot
  <2>4. Queued' = {At(ring', i) : i \in 0 .. ring'.count - 1} /\ Queued = {At(ring, i) : i \in 0 .. ring.count - 1}
    BY DEF Queued, Slot
  <2>5. \A i \in 0 .. ring'.count - 1 : /\ i \in 0 .. ring.count - 2 /\ i \in Int
                                        /\ i + 1 \in 0 .. ring.count - 1 /\ i + 1 # 0
    BY <1>2, <2>1, <2>2, SMT
  <2>6. /\ 0 \in 0 .. ring.count - 1
        /\ \A i \in 0 .. ring.count - 1 : i = 0 \/ (i - 1 \in 0 .. ring'.count - 1 /\ (i - 1) + 1 = i)
    BY <1>2, <2>1, <2>2, SMT
  <2>7. \A i, j \in 0 .. ring.count - 1 : At(ring, i) = At(ring, j) => i = j
    BY <1>1 DEF Queue
  <2> HIDE DEF At
  <2>8. \A i \in 0 .. ring'.count - 1 : At(ring', i) = At(ring, i + 1)
    BY <2>2, <2>5
  <2>9. \A i \in 0 .. ring'.count - 1 : At(ring', i) \in Queued /\ At(ring', i) # k
    BY <2>2, <2>4, <2>5, <2>6, <2>7, <2>8, SMT
  <2>10. \A j \in Queued : j = k \/ j \in Queued'
    <3>1. ASSUME NEW i \in 0 .. ring.count - 1
          PROVE  At(ring, i) = k \/ At(ring, i) \in Queued'
      <4>1. CASE i = 0
        BY <2>2, <4>1
      <4>2. CASE i # 0
        <5>1. i - 1 \in 0 .. ring'.count - 1 /\ (i - 1) + 1 = i
          BY <2>6, <4>2
        <5>2. At(ring', i - 1) = At(ring, i)
          BY <2>8, <5>1
        <5>3. QED
          BY <2>4, <5>1, <5>2
      <4>3. QED
        BY <4>1, <4>2
    <3>2. QED
      BY <2>4, <3>1
  <2>11. \A i, j \in 0 .. ring'.count - 1 : At(ring', i) = At(ring', j) => i = j
    <3>1. ASSUME NEW i \in 0 .. ring'.count - 1, NEW j \in 0 .. ring'.count - 1,
                 At(ring', i) = At(ring', j)
          PROVE  i = j
      <4>1. At(ring, i + 1) = At(ring, j + 1)
        BY <2>8, <3>1
      <4>2. i + 1 = j + 1
        BY <2>5, <2>7, <4>1
      <4>3. QED
        BY <2>5, <4>2, SMT
    <3>2. QED
      BY <3>1
  <2>12. \A j \in Queued' : j \in Queued /\ j # k
    BY <2>4, <2>9
  <2>13. \A j \in Task : task'[j] = "queued" <=> j \in Queued'
    BY <1>1, <1>2, <2>10, <2>12 DEF Queue
  <2>14. \A v \in Worker : ~Leaving(v)
    BY <1>1, <1>2 DEF Queue
  <2>15. \A v \in Worker : ~Leaving(v)'
    BY <1>3, <2>14, Names DEF Leaving, Steps, Moves, Condition, Resume
  <2>16. \A j \in Task : task'[j] # "dropped"
    BY <1>1, <1>2 DEF Queue
  <2>17. QED
    BY <2>3, <2>11, <2>13, <2>15, <2>16 DEF Queue, At, Slot
<1>9. NoSleeperMissesClose'
  <2>1. "running" \notin Condition
    BY DEF Condition
  <2>2. QED
    BY <1>1, <1>3, <2>1, SleepFrame
<1>10. ReferencesAccounted'
  <2>1. /\ pc'[w] = "running" /\ after'[w] = after[w]
    BY <1>3 DEF Steps, Moves
  <2>2. /\ Weight(w)' = Weight(w) /\ HandleWeight(w)' = HandleWeight(w)
        /\ w \in LiveWorkers' <=> w \in LiveWorkers
    BY <2>1, Names DEF Weight, HandleWeight, Bit, ClientsIn, WorkersIn, Drops,
       LiveWorkers, OwnHandles, CapturedFinal, DropsCapture
  <2>3. \A j \in Task : j \in Captured' <=> j \in Captured
    BY <1>2 DEF Captured
  <2>4. QED
    BY <1>1, <1>3, <2>2, <2>3, CountsFrame DEF Steps
<1>11. TypeOK'
  <2>1. ring' \in RingOf(Task)
    BY <1>2, Names, TakeWellFormed
  <2>2. job' \in [Worker -> Task \cup {NULL}] /\ task' \in [Task -> TaskState]
    BY <1>1, <1>2 DEF TypeOK, TaskState
  <2>3. QED
    BY <1>1, <1>3, <2>1, <2>2 DEF TypeOK, Steps, Moves
<1>12. QED
  BY <1>4, <1>5, <1>6, <1>7, <1>8, <1>9, <1>10, <1>11 DEF IInv

(* A worker leaves a closed pool whose queue is empty. *)
LEMMA WorkerExitKeeps ==
    ASSUME FiniteSetFacts, IInv, NEW w \in Worker, WorkerExit(w)
    PROVE  IInv'
<1>1. /\ TypeOK /\ Places /\ Beginning /\ Jobs /\ Submissions /\ Queue
      /\ NoSleeperMissesClose /\ ReferencesAccounted
  BY DEF IInv
<1>2. /\ pc[w] = "looking" /\ ring.count = 0 /\ ~accepting /\ live' = live - 1
      /\ pc' = Moved(w, "releasing", Waiters("stopped"))
      /\ after' = [after EXCEPT ![w] = "gone"]
      /\ UNCHANGED <<core, ring, handles, accepting, refs, task, job, arg, result, muted>>
  BY DEF WorkerExit
<1>3. w \in Thread /\ Steps(w, "releasing")
  <2>1. \A u \in Waiters("stopped") : pc[u] \in Condition
    BY DEF Waiters, Condition
  <2>2. w \in Thread /\ Moves(w, "releasing")
    BY <1>1, <1>2, <2>1, MovedMoves, Names DEF Location
  <2>3. QED
    BY <1>1, <1>2, <2>2 DEF TypeOK, Steps
<1>4. Places'
  BY <1>1, <1>2, <1>3, PlacesFrame, Names, SMT DEF Steps, Moves, Places, ClientPlace,
     WorkerPlace, Condition, Resume
<1>5. Beginning'
  <2>1. core # "none"
    BY <1>1, <1>2 DEF Beginning
  <2>2. QED
    BY <1>1, <1>2, <1>3, <2>1, EarlyFrame, Names
<1>6. Jobs'
  BY <1>1, <1>2, <1>3, JobsFrame, Names, SMTT(30) DEF InTask, Steps, Moves, Places,
     ClientPlace, WorkerPlace, Condition, Resume
<1>7. Submissions'
  BY <1>1, <1>2, <1>3, SubmissionsFrame DEF Submitting, Steps, Moves, Condition,
     Resume
<1>8. Queue'
  BY <1>1, <1>2, <1>3, QueueFrame, SMT DEF Queue, Leaving, Steps, Moves, Condition,
     Resume
<1>9. NoSleeperMissesClose'
  <2>1. /\ Waiters("not_empty")' \subseteq Waiters("not_empty")
        /\ Waiters("not_full")' \subseteq Waiters("not_full")
        /\ Waiters("stopped")' = {}
    BY <1>2 DEF Waiters, Moved, Resume
  <2>2. QED
    BY <1>1, <1>2, <2>1 DEF NoSleeperMissesClose
<1>10. ReferencesAccounted' /\ refs' \in Nat /\ live' \in Nat /\ handles' \in Nat
  <2>1. Weight(w)' + Bit(NULL \in Captured') = Weight(w) + Bit(NULL \in Captured) + 0
    BY <1>1, <1>2, <1>3, Names, SMT DEF Steps, Moves, Places, ClientPlace,
       WorkerPlace, Weight, Bit, ClientsIn, WorkersIn, Drops, DropsCapture,
       Captured
  <2>2. HandleWeight(w)' + Bit(NULL \in Captured') = HandleWeight(w) + Bit(NULL \in Captured) + 0
    BY <1>1, <1>2, <1>3, Names, SMT DEF Steps, Moves, Places, ClientPlace,
       WorkerPlace, HandleWeight, Bit, OwnHandles, CapturedFinal, DropsCapture,
       Captured
  <2>3. Bit(w \in LiveWorkers') = Bit(w \in LiveWorkers) + (-1)
    BY <1>1, <1>2, <1>3, Names, SMT DEF Steps, Moves, Places, ClientPlace,
       WorkerPlace, LiveWorkers, Bit
  <2>4. \A j \in Task : j # NULL => (j \in Captured' <=> j \in Captured)
    BY <1>1, <1>2 DEF Captured, TypeOK
  <2>5. /\ refs' = refs + 0 /\ live' = live + (-1) /\ handles' = handles + 0
        /\ refs \in Int /\ live \in Int /\ handles' \in Int /\ 0 \in Int /\ (-1) \in Int /\ 0 \in Int
    BY <1>1, <1>2, SMT DEF TypeOK
  <2>6. \A c \in Client : result'[c] # "CreationFailed" => result[c] # "CreationFailed"
    BY <1>2
  <2>7. /\ refs' \in Nat /\ live' \in Nat
        /\ (\A c \in Client : result'[c] # "CreationFailed") => handles' \in Nat
        /\ (core' = "live" <=> refs' > 0) => ReferencesAccounted'
    BY <1>1, <1>3, <2>1, <2>2, <2>3, <2>4, <2>5, <2>6, Tally DEF Steps
  <2>8. core' = "live" <=> refs' > 0
    BY <1>1, <1>2 DEF ReferencesAccounted
  <2>9. handles' \in Nat
    BY <1>1, <1>2, <2>7 DEF TypeOK
  <2>10. QED
    BY <2>7, <2>8, <2>9
<1>11. TypeOK'
  BY <1>1, <1>2, <1>3, <1>10 DEF TypeOK, Steps, Moves
<1>12. QED
  BY <1>4, <1>5, <1>6, <1>7, <1>8, <1>9, <1>10, <1>11 DEF IInv

(* A task is done: its closure is released, and with it the handle that it
captured. *)
LEMMA TaskReturnsKeeps ==
    ASSUME FiniteSetFacts, IInv, NEW w \in Worker, NEW k \in Task, k = job[w], TaskReturns(w)
    PROVE  IInv'
<1>1. /\ TypeOK /\ Places /\ Beginning /\ Jobs /\ Submissions /\ Queue
      /\ NoSleeperMissesClose /\ ReferencesAccounted
  BY DEF IInv
<1>2. /\ pc[w] = "running" /\ task[k] = "running"
      /\ pc' = [pc EXCEPT ![w] = IF k \in Capturing THEN "finalizing" ELSE "looking"]
      /\ after' = [after EXCEPT ![w] = "looking"] /\ job' = [job EXCEPT ![w] = NULL]
      /\ task' = [task EXCEPT ![k] = "done"]
      /\ UNCHANGED <<core, ring, live, handles, accepting, refs, arg, result, muted>>
  <2>1. task[k] = "running"
    BY <1>1, Names DEF Jobs
  <2>2. QED
    BY <2>1 DEF TaskReturns, Decref, coreVars
<1>3. w \in Thread /\ Steps(w, IF k \in Capturing THEN "finalizing" ELSE "looking")
  <2>1. (IF k \in Capturing THEN "finalizing" ELSE "looking") \in Location
    BY DEF Location
  <2>2. QED
    BY <1>1, <1>2, <2>1, Names DEF TypeOK, Steps, Moves
<1>4. Places'
  BY <1>1, <1>2, <1>3, PlacesFrame, Names DEF Steps, Moves, Places, ClientPlace,
     WorkerPlace, Condition, Resume
<1>5. Beginning'
  <2>1. core # "none" /\ \A c \in Client : ~Early(c)
    BY <1>1, <1>2, <1>3, NotEarly
  <2>2. \A c \in Client : ~Early(c)'
    BY <1>2, <1>3, <2>1, Names DEF Early, Steps, Moves, Condition, Resume
  <2>3. QED
    BY <1>1, <1>2, <1>3, <2>1, <2>2, InUseFrame, SMT DEF Steps, Moves
<1>6. Jobs'
  <2>1. job'[w] = NULL /\ \A v \in Worker : v # w => job'[v] = job[v] /\ job[v] # k
    BY <1>1, <1>2, Names DEF TypeOK, Jobs
  <2>2. \A v \in Worker : v # w => (InTask(v)' <=> InTask(v))
    BY <1>1, <1>3, Names DEF Steps, Moves, Places, WorkerPlace, Condition, Resume, InTask
  <2>3. ~InTask(w)'
    BY <1>1, <1>2, <1>3, Names DEF InTask, Steps, Moves, TypeOK
  <2>4. task'[k] = "done" /\ \A j \in Task : j # k => task'[j] = task[j]
    BY <1>1, <1>2 DEF TypeOK
  <2>5. \A v \in Worker : job[v] \in Task \cup {NULL}
    BY <1>1 DEF TypeOK
  <2>6. QED
    BY <1>1, <2>1, <2>2, <2>3, <2>4, <2>5, Names, SMT DEF Jobs
<1>7. Submissions'
  <2>1. \A j \in Task : task[j] = "pending" <=> task'[j] = "pending"
    BY <1>1, <1>2 DEF TypeOK
  <2>2. Submitting(w)' <=> Submitting(w)
    BY <1>2, <1>3 DEF Submitting, Steps, Moves
  <2>3. QED
    BY <1>1, <1>2, <1>3, <2>1, <2>2, SubmissionsFrame
<1>8. Queue'
  <2>1. /\ \A j \in Task : task[j] = "queued" <=> task'[j] = "queued"
        /\ \A j \in Task : task'[j] # "dropped"
    BY <1>1, <1>2 DEF TypeOK, Queue
  <2>2. ~Leaving(w)'
    BY <1>1, <1>2, <1>3, Names DEF Leaving, Steps, Moves, TypeOK
  <2>3. QED
    BY <1>1, <1>2, <1>3, <2>1, <2>2, QueueFrame
<1>9. NoSleeperMissesClose'
  BY <1>1, <1>2, <1>3, SleepFrame DEF Condition, Resume
<1>10. ReferencesAccounted' /\ refs' \in Nat /\ live' \in Nat /\ handles' \in Nat
  <2>0. /\ pc[w] = "running" /\ task[k] = "running" /\ task'[k] = "done"
        /\ pc'[w] = (IF k \in Capturing THEN "finalizing" ELSE "looking") /\ after'[w] = "looking"
    BY <1>1, <1>2, <1>3 DEF Steps, Moves, TypeOK
  <2>1. Weight(w)' + Bit(k \in Captured') = Weight(w) + Bit(k \in Captured) + 0
    BY <2>0, Names, SMT DEF Weight, Bit, ClientsIn, WorkersIn, Drops, DropsCapture, Captured
  <2>2. HandleWeight(w)' + Bit(k \in Captured') = HandleWeight(w) + Bit(k \in Captured) + 0
    BY <2>0, Names, SMT DEF HandleWeight, Bit, OwnHandles, CapturedFinal, DropsCapture, Captured
  <2>3. Bit(w \in LiveWorkers') = Bit(w \in LiveWorkers) + 0
    BY <2>0, Names, SMT DEF LiveWorkers, Bit
  <2>4. \A j \in Task : j # k => (j \in Captured' <=> j \in Captured)
    BY <1>1, <1>2 DEF Captured, TypeOK
  <2>5. /\ refs' = refs + 0 /\ live' = live + 0 /\ handles' = handles + 0
        /\ refs \in Int /\ live \in Int /\ handles' \in Int /\ 0 \in Int /\ 0 \in Int /\ 0 \in Int
    BY <1>1, <1>2, SMT DEF TypeOK
  <2>6. \A c \in Client : result'[c] # "CreationFailed" => result[c] # "CreationFailed"
    BY <1>2
  <2>7. /\ refs' \in Nat /\ live' \in Nat
        /\ (\A c \in Client : result'[c] # "CreationFailed") => handles' \in Nat
        /\ (core' = "live" <=> refs' > 0) => ReferencesAccounted'
    BY <1>1, <1>3, <2>1, <2>2, <2>3, <2>4, <2>5, <2>6, Tally, SMT DEF Steps
  <2>8. core' = "live" <=> refs' > 0
    BY <1>1, <1>2 DEF ReferencesAccounted
  <2>9. handles' \in Nat
    BY <1>1, <1>2, <2>7 DEF TypeOK
  <2>10. QED
    BY <2>7, <2>8, <2>9
<1>11. TypeOK'
  <2>1. job' \in [Worker -> Task \cup {NULL}] /\ task' \in [Task -> TaskState]
    BY <1>1, <1>2 DEF TypeOK, TaskState
  <2>2. QED
    BY <1>1, <1>2, <1>3, <1>10, <2>1 DEF TypeOK, Steps, Moves
<1>12. QED
  BY <1>4, <1>5, <1>6, <1>7, <1>8, <1>9, <1>10, <1>11 DEF IInv

(* A waiter wakes up for no reason. *)
LEMMA SpuriousWakeKeeps ==
    ASSUME FiniteSetFacts, IInv, NEW t \in Thread, SpuriousWake(t)
    PROVE  IInv'
<1>1. /\ TypeOK /\ Places /\ Beginning /\ Jobs /\ Submissions /\ Queue
      /\ NoSleeperMissesClose /\ ReferencesAccounted
  BY DEF IInv
<1>2. /\ pc[t] \in Condition
      /\ pc' = [pc EXCEPT ![t] = Resume(pc[t])]
      /\ UNCHANGED <<core, ring, live, handles, accepting, refs, task, job, after, arg, result, muted>>
  BY DEF SpuriousWake, coreVars, localVars
<1>3. t \in Thread /\ Steps(t, Resume(pc[t]))
  BY <1>1, <1>2, Names DEF TypeOK, Location, Steps, Moves, Condition, Resume
<1>4. Places'
  BY <1>1, <1>2, <1>3, PlacesFrame, Names, SMT DEF Steps, Moves, Places, ClientPlace,
     WorkerPlace, Condition, Resume
<1>5. Beginning'
  <2>1. core # "none"
    BY <1>1, <1>2, Names DEF Beginning, Condition
  <2>2. CASE t \in Worker
    <3>1. Resume(pc[t]) = "looking" /\ t \notin Client
      BY <1>1, <1>2, <2>2, Names DEF Places, WorkerPlace, Condition, Resume
    <3>2. QED
      BY <1>1, <1>2, <1>3, <2>1, <3>1, EarlyFrame
  <2>3. CASE t \in Client
    <3>1. t \notin Worker /\ pc[t] \in {"not_full", "stopped"}
      BY <1>1, <1>2, <2>3, Names DEF Places, ClientPlace, Condition
    <3>2. CASE pc[t] = "not_full"
      BY <1>1, <1>2, <1>3, <2>1, <2>3, <3>1, <3>2, EarlyFrame DEF Beginning, Resume
    <3>3. CASE pc[t] = "stopped"
      BY <1>1, <1>2, <1>3, <2>1, <2>3, <3>1, <3>3, EarlyFrame DEF Beginning, Resume
    <3>4. QED
      BY <3>1, <3>2, <3>3
  <2>4. QED
    BY <2>2, <2>3, Names
<1>6. Jobs'
  BY <1>1, <1>2, <1>3, JobsFrame, Names, SMT DEF InTask, Steps, Moves, Places,
     ClientPlace, WorkerPlace, Condition, Resume
<1>7. Submissions'
  BY <1>1, <1>2, <1>3, SubmissionsFrame DEF Submitting, Steps, Moves, Condition,
     Resume
<1>8. Queue'
  BY <1>1, <1>2, <1>3, QueueFrame, SMT DEF Queue, Leaving, Steps, Moves, Condition,
     Resume
<1>9. NoSleeperMissesClose'
  BY <1>1, <1>2, <1>3, SleepFrame DEF Condition, Resume
<1>10. ReferencesAccounted'
  <2>1. /\ Weight(t)' = Weight(t) /\ HandleWeight(t)' = HandleWeight(t)
        /\ t \in LiveWorkers' <=> t \in LiveWorkers
    BY <1>1, <1>2, <1>3, Names, SMT DEF Steps, Moves, Condition, Resume, Places,
       ClientPlace, WorkerPlace, Weight, HandleWeight, Bit, ClientsIn, WorkersIn,
       Drops, LiveWorkers, OwnHandles, CapturedFinal, DropsCapture
  <2>2. \A k \in Task : k \in Captured' <=> k \in Captured
    BY <1>2 DEF Captured
  <2>3. QED
    BY <1>1, <1>2, <1>3, <2>1, <2>2, CountsFrame DEF Steps
<1>11. TypeOK'
  BY <1>1, <1>2, <1>3, <1>10 DEF TypeOK, Steps, Moves
<1>12. QED
  BY <1>4, <1>5, <1>6, <1>7, <1>8, <1>9, <1>10, <1>11 DEF IInv

-----------------------------------------------------------------------------
(* A step that changes nothing. *)
LEMMA StutterKeeps ==
    ASSUME IInv, UNCHANGED vars
    PROVE  IInv'
<1>1. /\ TypeOK /\ Places /\ Beginning /\ Jobs /\ Submissions /\ Queue
      /\ NoSleeperMissesClose /\ ReferencesAccounted
  BY DEF IInv
<1>2. UNCHANGED <<core, ring, live, handles, accepting, refs, task, pc, job, after, arg, result, muted>>
  BY DEF vars, coreVars, localVars
<1>3. TypeOK' /\ Submissions'
  BY <1>1, <1>2 DEF TypeOK, Submissions
<1>4. Places' /\ Jobs'
  BY <1>1, <1>2, SMTT(30) DEF Places, ClientPlace, WorkerPlace, Jobs, InTask
<1>5. Beginning'
  BY <1>1, <1>2, SMT DEF Beginning, Early
<1>6. Queue'
  BY <1>1, <1>2, SMT DEF Queue, Queued, Slot, WellFormed, Leaving
<1>7. NoSleeperMissesClose'
  BY <1>1, <1>2 DEF NoSleeperMissesClose, Waiters
<1>8. ReferencesAccounted'
  <2>1. /\ ClientsIn' = ClientsIn /\ WorkersIn' = WorkersIn /\ Drops' = Drops
        /\ LiveWorkers' = LiveWorkers /\ OwnHandles' = OwnHandles
        /\ CapturedFinal' = CapturedFinal /\ Captured' = Captured
    BY <1>2 DEF ClientsIn, WorkersIn, Drops, LiveWorkers, OwnHandles, CapturedFinal,
       Captured, DropsCapture
  <2>2. QED
    BY <1>1, <1>2, <2>1 DEF ReferencesAccounted, ClientsIn, WorkersIn, Drops, LiveWorkers,
       OwnHandles, CapturedFinal
<1>9. QED
  BY <1>3, <1>4, <1>5, <1>6, <1>7, <1>8 DEF IInv

(* Before new. *)
LEMMA InitIInv == FiniteSetFacts /\ Init => IInv
<1> SUFFICES ASSUME FiniteSetFacts, Init
             PROVE  IInv
  OBVIOUS
<1>1. TypeOK
  <2>1. accepting \in BOOLEAN /\ muted \in BOOLEAN
    BY Zenon DEF Init
  <2>2. ring \in RingOf(Task)
    BY EmptyWellFormed DEF Init
  <2>3. /\ task \in [Task -> TaskState] /\ job \in [Worker -> Task \cup {NULL}]
        /\ pc \in [Thread -> Location] /\ arg \in [Thread -> Argument]
        /\ after \in [Thread -> {"absent", "idle", "running", "looking", "gone"}]
        /\ result \in [Client -> {"None", "CreationFailed", "Down", "Failed"}]
    BY DEF Init, TaskState, Location, Argument, NoArgument
  <2>4. QED
    BY <2>1, <2>2, <2>3 DEF Init, TypeOK
<1>2. /\ \A c \in Client : pc[c] = "absent" /\ after[c] = "idle" /\ result[c] = "None"
      /\ \A w \in Worker : pc[w] = "unborn" /\ after[w] = "looking" /\ job[w] = NULL
      /\ \A t \in Thread : arg[t].task = NULL /\ pc[t] \in {"absent", "unborn"}
                           /\ after[t] \in {"idle", "looking"}
      /\ \A k \in Task : task[k] = "new"
  BY Names DEF Init, NoArgument
<1>3. Places /\ Beginning
  BY <1>2, SMT DEF Init, Places, ClientPlace, WorkerPlace, Beginning, Early
<1>4. Jobs /\ Submissions
  BY <1>2 DEF Jobs, InTask, Submissions
<1>5. Queue
  <2>1. WellFormed(ring) /\ ring.count = 0
    BY EmptyWellFormed DEF Init, EmptyRing
  <2>2. Queued = {}
    BY <2>1, SMT DEF Queued
  <2>3. QED
    BY <1>2, <2>1, <2>2, SMT DEF Queue, Leaving
<1>6. NoSleeperMissesClose
  BY <1>2 DEF NoSleeperMissesClose, Waiters
<1>7. ReferencesAccounted
  <2>1. /\ ClientsIn = {} /\ WorkersIn = {} /\ Drops = {} /\ LiveWorkers = {}
        /\ OwnHandles = {} /\ CapturedFinal = {}
    BY <1>2 DEF ClientsIn, WorkersIn, Drops, LiveWorkers, OwnHandles, CapturedFinal
  <2>2. Captured = {}
    BY <1>2, Names DEF Captured
  <2>3. Cardinality({}) = 0
    BY DEF FiniteSetFacts
  <2>4. refs = 0 /\ live = 0 /\ handles = 0 /\ core = "none"
    BY DEF Init
  <2>5. QED
    BY <2>1, <2>2, <2>3, <2>4, SMTT(30) DEF ReferencesAccounted, ClientsIn, WorkersIn, Drops,
       LiveWorkers, OwnHandles, CapturedFinal
<1>8. QED
  BY <1>1, <1>3, <1>4, <1>5, <1>6, <1>7 DEF IInv

(* Every step of a submission. *)
LEMMA SubmitStepKeeps ==
    ASSUME FiniteSetFacts, IInv, NEW t \in Thread, SubmitStep(t)
    PROVE  IInv'
<1>1. CASE SubmitWait(t)
  BY <1>1, SubmitWaitKeeps
<1>2. CASE ~SubmitWait(t)
  <2>1. InSubmit(t)
    BY <1>2 DEF SubmitStep, InSubmit, SubmitLockFails, SubmitWouldDeadlock, WouldDeadlock,
       SubmitWaitFails, SubmitRefused, SubmitEnqueue
  <2>2. PICK k \in Task : k = arg[t].task
    BY <2>1, SMT DEF IInv, TypeOK, Argument, Submissions, InSubmit
  <2>3. CASE SubmitEnqueue(t)
    <3>1. PICK ok \in Notified : \E woken \in SignalWakes("not_empty", ok) :
             pc' = Moved(t, Home(t), woken) /\ muted' = (muted \/ ~ok)
      BY <2>3 DEF SubmitEnqueue
    <3>2. ok \in BOOLEAN
      BY <3>1 DEF Notified
    <3>3. /\ accepting /\ ~Full /\ ring' = Put(ring, k)
          /\ task' = [task EXCEPT ![k] = "queued"]
          /\ arg' = [arg EXCEPT ![t] = NoArgument]
          /\ UNCHANGED <<core, live, handles, accepting, refs, job, after, result>>
      BY <2>2, <2>3 DEF SubmitEnqueue
    <3>4. QED
      BY <2>1, <2>2, <3>1, <3>2, <3>3, SubmitEnqueueKeeps
  <2>4. CASE ~SubmitEnqueue(t)
    <3>1. \E why \in Refusal : Reject(t, why)
      BY <1>2, <2>4 DEF SubmitStep, SubmitLockFails, SubmitWouldDeadlock, SubmitWaitFails,
         SubmitRefused, Refusal
    <3>2. QED
      BY <2>1, <2>2, <3>1, RejectKeeps
  <2>5. QED
    BY <2>3, <2>4
<1>3. QED
  BY <1>1, <1>2

(* close and shutdown. *)
LEMMA CloseKeeps ==
    ASSUME FiniteSetFacts, IInv, NEW t \in Thread, Close(t) \/ Shutdown(t)
    PROVE  IInv'
<1>1. HasHandle(t) /\ accepting' = FALSE
      /\ UNCHANGED <<core, ring, live, handles, refs, task, job, arg>>
  BY DEF Close, Shutdown
<1>2. Notified \subseteq BOOLEAN
  BY DEF Notified
<1>3. CASE Close(t)
  <2>1. PICK okE \in Notified, okF \in Notified :
           /\ pc' = Moved(t, Home(t), BroadcastWakes("not_empty", okE)
                                        \cup BroadcastWakes("not_full", okF))
           /\ muted' = (muted \/ ~okE \/ ~okF)
    BY <1>3 DEF Close
  <2>2. after' = [after EXCEPT ![t] = after[t]] /\ result' = result
    BY <1>3 DEF Close, IInv, TypeOK
  <2>3. okE \in BOOLEAN /\ okF \in BOOLEAN
    BY <1>2, <2>1
  <2>4. QED
    BY <1>1, <2>1, <2>2, <2>3, ClosingKeeps
<1>4. CASE Shutdown(t)
  <2>1. t \in Client /\ Home(t) = "idle"
    BY <1>4, Names DEF Shutdown, OnWorker, Home
  <2>2. PICK okE \in Notified, okF \in Notified :
           /\ pc' = Moved(t, IF okE /\ okF THEN "stopping" ELSE Home(t),
                          BroadcastWakes("not_empty", okE) \cup BroadcastWakes("not_full", okF))
           /\ result' = [result EXCEPT ![t] = IF okE /\ okF THEN "None" ELSE "Failed"]
           /\ muted' = (muted \/ ~okE \/ ~okF)
    BY <1>4 DEF Shutdown
  <2>3. after' = [after EXCEPT ![t] = "idle"]
    BY <1>4, <2>1 DEF Shutdown
  <2>4. okE \in BOOLEAN /\ okF \in BOOLEAN
    BY <1>2, <2>2
  <2>5. PICK where \in {"idle", "stopping"}, r \in {"None", "Failed"} :
           /\ where = IF okE /\ okF THEN "stopping" ELSE Home(t)
           /\ r = IF okE /\ okF THEN "None" ELSE "Failed"
    BY <2>1
  <2>6. /\ pc' = Moved(t, where, BroadcastWakes("not_empty", okE)
                                   \cup BroadcastWakes("not_full", okF))
        /\ result' = [result EXCEPT ![t] = r]
    BY <2>2, <2>5
  <2>7. QED
    BY <1>1, <2>1, <2>2, <2>3, <2>4, <2>5, <2>6, ClosingKeeps
<1>5. QED
  BY <1>3, <1>4

(* Every step of a worker outside the calls of its task. *)
LEMMA WorkerKeeps ==
    ASSUME FiniteSetFacts, IInv, NEW w \in Worker, WorkerLooks(w) \/ TaskReturns(w)
    PROVE  IInv'
<1>1. CASE WorkerTake(w)
  <2>1. PICK woken \in SignalWakes("not_full", TRUE) : pc' = Moved(w, "running", woken)
    BY <1>1 DEF WorkerTake
  <2>2. QED
    BY <1>1, <2>1, WorkerTakeKeeps DEF WorkerTake
<1>2. CASE TaskReturns(w)
  <2>1. PICK k \in Task : k = job[w]
    BY <1>2, SMT DEF TaskReturns, IInv, Jobs, InTask, TypeOK
  <2>2. QED
    BY <1>2, <2>1, TaskReturnsKeeps
<1>3. CASE WorkerWait(w) \/ WorkerExit(w)
  BY <1>3, WorkerWaitKeeps, WorkerExitKeeps
<1>4. QED
  BY <1>1, <1>2, <1>3 DEF WorkerLooks

(* Every step of the pool keeps IInv. *)
LEMMA NextIInv == FiniteSetFacts /\ IInv /\ [Next]_vars => IInv'
<1> SUFFICES ASSUME FiniteSetFacts, IInv, [Next]_vars
             PROVE  IInv'
  OBVIOUS
<1>1. ASSUME NEW c \in Client, ClientNext(c)
      PROVE  IInv'
  BY <1>1, NewKeeps, NewCountsKeeps, NewWorkerKeeps, NewWorkerFailsKeeps, NewClosesKeeps,
     NewReturnsKeeps, DropHandleKeeps
     DEF ClientNext
<1>2. ASSUME NEW t \in Thread, UserNext(t)
      PROVE  IInv'
  BY <1>2, ShareKeeps, BeginSubmitKeeps, CloseKeeps DEF UserNext
<1>3. ASSUME NEW t \in Thread, StopStep(t)
      PROVE  IInv'
  BY <1>3, StopWaitKeeps, ShutdownEndsKeeps, NewFailsKeeps DEF StopStep
<1>4. ASSUME NEW t \in Thread, ThreadNext(t)
      PROVE  IInv'
  BY <1>2, <1>3, <1>4, SubmitStepKeeps, FinalizeKeeps, CoreReleaseKeeps, SpuriousWakeKeeps
     DEF ThreadNext
<1>5. ASSUME NEW w \in Worker, WorkerLooks(w) \/ TaskReturns(w)
      PROVE  IInv'
  BY <1>5, WorkerKeeps
<1>6. CASE Finished \/ UNCHANGED vars
  BY <1>6, StutterKeeps DEF Finished
<1>7. QED
  BY <1>1, <1>4, <1>5, <1>6 DEF Next

-----------------------------------------------------------------------------
(* The refinement of Executor.                                              *)

(* What the users see, besides the queue. *)
Running == {k \in Task : task[k] = "running"}
Done == {k \in Task : task[k] = "done"}
Down == {c \in Client : result[c] = "Down"}

(* Only a client makes a pool. *)
Made == core # "none" => Client # {}

LEMMA MadeStep ==
    ASSUME IInv, Made, [Next]_vars
    PROVE  Made'
<1> SUFFICES ASSUME Client = {}
             PROVE  core' = "none"
  BY DEF Made
<1>1. core = "none" /\ \A t \in Thread : pc[t] = "unborn"
  BY DEF Made, IInv, Beginning, Thread
<1>2. ASSUME NEW t \in Thread, ThreadNext(t)
      PROVE  core' = core
  <2>1. ~CoreRelease(t)
    BY <1>1 DEF CoreRelease
  <2>2. QED
    BY <1>2, <2>1 DEF ThreadNext, UserNext, Share, BeginSubmit, Close, Shutdown, SubmitStep,
       SubmitLockFails, SubmitWouldDeadlock, SubmitWait, SubmitWaitFails, SubmitRefused,
       SubmitEnqueue, Reject, StopStep, StopWait, ShutdownFails, ShutdownReturns, NewFails,
       Finalize, SpuriousWake, coreVars
<1>3. ASSUME NEW w \in Worker, WorkerLooks(w) \/ TaskReturns(w)
      PROVE  core' = core
  BY <1>3 DEF WorkerLooks, WorkerWait, WorkerTake, WorkerExit, TaskReturns, coreVars
<1>4. CASE UNCHANGED vars
  BY <1>1, <1>4 DEF vars, coreVars
<1>5. QED
  BY <1>1, <1>2, <1>3, <1>4 DEF Next, Finished

(* A step that changes none of it is not seen. *)
LEMMA Unseen ==
    ASSUME UNCHANGED <<core, accepting, ring>>, Running' = Running, Done' = Done, Down' = Down
    PROVE  UNCHANGED Abstract!vars
<1>1. Contents(ring)' = Contents(ring)
  BY DEF Contents, Slot
<1>2. QED
  BY <1>1 DEF Abstract!vars, Running, Done, Down

(* The abstract pool is open or closed once it was made. *)
LEMMA StatusSeen ==
    ASSUME IInv
    PROVE  /\ accepting => core # "none"
           /\ \A t \in Thread : pc[t] \notin {"absent", "unborn"} => core # "none"
BY DEF IInv, Beginning, Thread

(* Closing, by whatever operation. *)
LEMMA ClosingCloses ==
    ASSUME core # "none", UNCHANGED <<core, ring, task>>, accepting' = FALSE,
           NEW c \in Client, Down' \in {Down, Down \ {c}}
    PROVE  Abstract!Next
<1>1. Contents(ring)' = Contents(ring) /\ Running' = Running /\ Done' = Done
  BY DEF Contents, Slot, Running, Done
<1>2. (IF core = "none" THEN "none" ELSE IF accepting THEN "open" ELSE "closed")
         \in {"open", "closed"}
  OBVIOUS
<1>3. (IF core' = "none" THEN "none" ELSE IF accepting' THEN "open" ELSE "closed") = "closed"
  OBVIOUS
<1>4. Abstract!Close(c)
  BY <1>1, <1>2, <1>3 DEF Abstract!Close, Running, Done, Down
<1>5. QED
  BY <1>4 DEF Abstract!Next

(* A change of one client's result. *)
LEMMA DownChanges ==
    ASSUME IInv, NEW c \in Client, NEW what, result' = [result EXCEPT ![c] = what]
    PROVE  /\ what # "Down" => Down' = Down \ {c}
           /\ what = "Down" => Down' = Down \cup {c}
BY DEF IInv, TypeOK, Down

(* A change of one task that neither starts nor finishes it. *)
LEMMA TaskUnseen ==
    ASSUME IInv, NEW k \in Task, NEW s, s \notin {"running", "done"},
           task[k] \notin {"running", "done"}, task' = [task EXCEPT ![k] = s]
    PROVE  Running' = Running /\ Done' = Done
BY DEF IInv, TypeOK, Running, Done

(* new, its workers and its failure. *)
LEMMA ClientRefines ==
    ASSUME IInv, NEW c \in Client, ClientNext(c)
    PROVE  [Abstract!Next]_Abstract!vars
<1>1. CASE New(c)
  <2>1. /\ core = "none" /\ core' = "live" /\ accepting' = TRUE
        /\ UNCHANGED <<ring, task, result>>
    BY <1>1 DEF New, localVars
  <2>2. Contents(ring)' = Contents(ring) /\ Running' = Running /\ Done' = Done /\ Down' = Down
    BY <2>1 DEF Contents, Slot, Running, Done, Down
  <2>3. (IF core' = "none" THEN "none" ELSE IF accepting' THEN "open" ELSE "closed") = "open"
    BY <2>1
  <2>4. Abstract!Create
    BY <2>1, <2>2, <2>3 DEF Abstract!Create, Running, Done, Down
  <2>5. QED
    BY <2>4 DEF Abstract!Next
<1>2. CASE NewCloses(c)
  <2>1. pc[c] = "building" /\ UNCHANGED <<core, ring, task, result>> /\ accepting' = FALSE
    BY <1>2 DEF NewCloses
  <2>2. core # "none"
    BY <2>1, StatusSeen DEF Thread
  <2>3. Down' = Down
    BY <2>1 DEF Down
  <2>4. QED
    BY <2>1, <2>2, <2>3, ClosingCloses
<1>3. CASE (\E w \in Worker : NewCounts(c, w) \/ NewWorker(c, w)) \/ NewReturns(c) \/ DropHandle(c)
  <2>1. UNCHANGED <<core, accepting, ring, task, result>>
    BY <1>3 DEF NewCounts, NewWorker, NewReturns, DropHandle, coreVars, localVars
  <2>2. QED
    BY <2>1, Unseen DEF Running, Done, Down
<1>4. CASE \E w \in Worker : NewWorkerFails(c, w)
  <2>1. UNCHANGED <<core, accepting, ring, task>> /\ result' = [result EXCEPT ![c] = "CreationFailed"]
    BY <1>4 DEF NewWorkerFails
  <2>2. Contents(ring)' = Contents(ring) /\ Running' = Running /\ Done' = Done
    BY <2>1 DEF Contents, Slot, Running, Done
  <2>3. Down' = Down \ {c}
    BY <2>1, SMT DEF IInv, TypeOK, Down
  <2>4. Abstract!ShutdownFails(c)
    BY <2>1, <2>2, <2>3 DEF Abstract!ShutdownFails, Running, Done, Down
  <2>5. QED
    BY <2>4 DEF Abstract!Next
<1>5. QED
  BY <1>1, <1>2, <1>3, <1>4 DEF ClientNext

(* The operations on a handle, up to the first critical section. *)
LEMMA UserRefines ==
    ASSUME IInv, Made, NEW t \in Thread, UserNext(t)
    PROVE  [Abstract!Next]_Abstract!vars
<1>1. CASE \E c \in Client : Share(t, c)
  <2>1. UNCHANGED <<core, accepting, ring, task, result>>
    BY <1>1 DEF Share, localVars
  <2>2. QED
    BY <2>1, Unseen DEF Running, Done, Down
<1>2. ASSUME NEW k \in Task, NEW b \in BOOLEAN, BeginSubmit(t, k, b)
      PROVE  UNCHANGED Abstract!vars
  <2>1. /\ UNCHANGED <<core, accepting, ring, result>> /\ task[k] = "new"
        /\ task' = [task EXCEPT ![k] = "pending"]
    BY <1>2 DEF BeginSubmit
  <2>2. Running' = Running /\ Done' = Done
    BY <2>1, TaskUnseen
  <2>3. QED
    BY <2>1, <2>2, Unseen DEF Down
<1>3. ASSUME HasHandle(t)
      PROVE  core # "none"
  BY <1>3, StatusSeen DEF HasHandle, Home
<1>4. CASE Close(t)
  <2>1. UNCHANGED <<core, ring, task, result>> /\ accepting' = FALSE /\ core # "none"
    BY <1>3, <1>4 DEF Close
  <2>2. PICK c \in Client : TRUE
    BY <2>1 DEF Made
  <2>3. QED
    BY <2>1, <2>2, ClosingCloses DEF Down
<1>5. CASE Shutdown(t)
  <2>1. UNCHANGED <<core, ring, task>> /\ accepting' = FALSE /\ core # "none" /\ t \in Client
    BY <1>3, <1>5 DEF Shutdown, OnWorker, Thread
  <2>2. \E what \in {"None", "Failed"} : result' = [result EXCEPT ![t] = what]
    BY <1>5 DEF Shutdown
  <2>3. Down' = Down \ {t}
    BY <2>1, <2>2, DownChanges
  <2>4. QED
    BY <2>1, <2>3, ClosingCloses
<1>6. QED
  BY <1>1, <1>2, <1>4, <1>5 DEF UserNext

(* submit: queueing is the instant at which a task is accepted. *)
LEMMA SubmitRefines ==
    ASSUME IInv, NEW t \in Thread, SubmitStep(t)
    PROVE  [Abstract!Next]_Abstract!vars
<1> DEFINE k == arg[t].task
<1>1. CASE SubmitWait(t)
  <2>1. UNCHANGED <<core, accepting, ring, task, result>>
    BY <1>1 DEF SubmitWait, coreVars, localVars
  <2>2. QED
    BY <2>1, Unseen DEF Running, Done, Down
<1>2. (k \in Task /\ task[k] = "pending") \/ SubmitWait(t)
  <2>1. pc[t] \in {"submitting", "resubmitting"}
    BY DEF SubmitStep, SubmitLockFails, SubmitWouldDeadlock, WouldDeadlock, SubmitWait,
           SubmitWaitFails, SubmitRefused, SubmitEnqueue, InSubmit
  <2>2. arg[t] \in Argument /\ arg[t].task # NULL
    BY <2>1 DEF IInv, TypeOK, Submissions
  <2>3. QED
    BY <2>2 DEF IInv, Submissions, Argument
<1> HIDE DEF k
<1>3. ASSUME NEW why \in Refusal, Reject(t, why), ~SubmitWait(t)
      PROVE  UNCHANGED Abstract!vars
  <2>1. UNCHANGED <<core, accepting, ring, result>> /\ task' = [task EXCEPT ![k] = why]
    BY <1>3 DEF Reject, coreVars, k
  <2>2. Running' = Running /\ Done' = Done
    BY <1>2, <1>3, <2>1, TaskUnseen DEF Refusal
  <2>3. QED
    BY <2>1, <2>2, Unseen DEF Down
<1>4. CASE SubmitLockFails(t) \/ SubmitWouldDeadlock(t) \/ SubmitWaitFails(t) \/ SubmitRefused(t)
  BY <1>1, <1>3, <1>4 DEF SubmitLockFails, SubmitWouldDeadlock, SubmitWaitFails, SubmitRefused, Refusal
<1>5. CASE SubmitEnqueue(t) /\ ~SubmitWait(t)
  <2>1. /\ accepting /\ ring.count # Capacity /\ ring' = Put(ring, k)
        /\ task' = [task EXCEPT ![k] = "queued"] /\ UNCHANGED <<core, accepting, result>>
    BY <1>5 DEF SubmitEnqueue, Full, k
  <2>2. /\ ring \in RingOf(Task) /\ WellFormed(ring) /\ NULL \notin Task
        /\ \A j \in Queued : task[j] = "queued"
    <3>1. ring \in RingOf(Task) /\ WellFormed(ring) /\ NULL \notin Task
      BY PoolAssumption DEF IInv, TypeOK, Queue
    <3>2. \A j \in Queued : j \in Task
      BY <3>1, QueuedItems DEF Queued
    <3>3. QED
      BY <3>1, <3>2 DEF IInv, Queue
  <2>3. k \in Task /\ task[k] = "pending"
    BY <1>2, <1>5
  <2>4. Contents(ring)' = Append(Contents(ring), k)
    <3>1. Contents(ring') = Append(Contents(ring), k)
      BY <2>1, <2>2, <2>3, PutAppends
    <3>2. QED
      BY <3>1 DEF Contents, Slot
  <2>5. Len(Contents(ring)) = ring.count /\ Len(Contents(ring)) < Capacity
    BY <2>1, <2>2, ContentsSequence, CapacityAssumption, SMT DEF RingOf
  <2>6. k \notin {Contents(ring)[i] : i \in 1 .. Len(Contents(ring))}
    <3>1. \A i \in 1 .. ring.count : Contents(ring)[i] \in Queued
      <4>1. \A i \in 1 .. ring.count :
               i - 1 \in 0 .. ring.count - 1 /\ Contents(ring)[i] = ring.slots[Slot(ring, i - 1)]
        BY <2>2, ContentsSequence, SMT DEF RingOf
      <4>2. QED
        BY <4>1 DEF Queued
    <3>2. QED
      BY <2>2, <2>3, <2>5, <3>1
  <2>7. k \notin Running /\ k \notin Done /\ Running' = Running /\ Done' = Done /\ Down' = Down
    BY <2>1, <2>3, TaskUnseen DEF Running, Done, Down
  <2>8. (IF core = "none" THEN "none" ELSE IF accepting THEN "open" ELSE "closed") = "open"
    BY <2>1, StatusSeen
  <2>9. Abstract!Accept(k)
    BY <2>1, <2>4, <2>5, <2>6, <2>7, <2>8 DEF Abstract!Accept, Abstract!Queued, Running, Done, Down
  <2>10. QED
    BY <2>3, <2>9 DEF Abstract!Next
<1>6. QED
  BY <1>1, <1>4, <1>5 DEF SubmitStep

(* When live_workers is 0 in a shutdown, nothing is left to run. *)
LEMMA StoppedIsDown ==
    ASSUME FiniteSetFacts, IInv, NEW c \in Client, InStop(c), after[c] = "idle", live = 0
    PROVE  core # "none" /\ accepting = FALSE /\ ring.count = 0 /\ Running = {}
<1>1. TypeOK /\ Places /\ Beginning /\ Jobs /\ Queue /\ ReferencesAccounted
  BY DEF IInv
<1>2. pc[c] \in {"stopping", "restopping"} /\ core # "none"
  BY StatusSeen DEF InStop, Thread
<1>3. LiveWorkers = {}
  <2>1. IsFiniteSet(LiveWorkers)
    BY PoolAssumption DEF LiveWorkers, FiniteSetFacts
  <2>2. Cardinality(LiveWorkers) = 0
    BY <1>1 DEF ReferencesAccounted, LiveWorkers
  <2>3. QED
    BY <2>1, <2>2 DEF FiniteSetFacts
<1>4. \A d \in Client : ~Early(d)
  BY <1>1, <1>2 DEF Beginning, Early
<1>5. \A w \in Worker : Leaving(w)
  BY <1>1, <1>2, <1>3, <1>4 DEF Beginning, LiveWorkers, Leaving
<1>6. PICK w \in Worker : TRUE
  BY PoolAssumption
<1>7. ring.count = 0 /\ ~accepting
  BY <1>1, <1>5, <1>6 DEF Queue
<1>8. \A v \in Worker : job[v] = NULL
  BY <1>1, <1>5 DEF Jobs, InTask, Leaving
<1>9. Running = {}
  BY <1>1, <1>8, PoolAssumption, SMT DEF Jobs, Running
<1>10. QED
  BY <1>1, <1>2, <1>7, <1>9 DEF TypeOK

(* The rest of shutdown. *)
LEMMA StopRefines ==
    ASSUME FiniteSetFacts, IInv, NEW t \in Thread, StopStep(t)
    PROVE  [Abstract!Next]_Abstract!vars
<1>1. UNCHANGED <<core, accepting, ring, task>>
  BY DEF StopStep, StopWait, ShutdownFails, ShutdownReturns, NewFails, coreVars
<1>2. Contents(ring)' = Contents(ring) /\ Running' = Running /\ Done' = Done
  BY <1>1 DEF Contents, Slot, Running, Done
<1>3. CASE StopWait(t) \/ NewFails(t)
  BY <1>1, <1>2, <1>3, Unseen DEF StopWait, NewFails, localVars, Down
<1>4. CASE t \in Client /\ ShutdownFails(t)
  <2>1. Down' = Down \ {t}
    <3>1. result' = [result EXCEPT ![t] = "Failed"]
      BY <1>4 DEF ShutdownFails
    <3>2. QED
      BY <1>4, <3>1, SMT DEF IInv, TypeOK, Down
  <2>2. Abstract!ShutdownFails(t)
    BY <1>1, <1>2, <2>1 DEF Abstract!ShutdownFails, Running, Done, Down
  <2>3. QED
    BY <1>4, <2>2 DEF Abstract!Next
<1>5. CASE t \in Client /\ ShutdownReturns(t)
  <2>1. core # "none" /\ accepting = FALSE /\ ring.count = 0 /\ Running = {}
    BY <1>5, StoppedIsDown DEF ShutdownReturns
  <2>2. Contents(ring) = <<>>
    BY <2>1, ContentsSequence DEF IInv, TypeOK, Queue
  <2>3. Down' = Down \cup {t}
    BY <1>5, DownChanges DEF ShutdownReturns
  <2>4. (IF core = "none" THEN "none" ELSE IF accepting THEN "open" ELSE "closed") = "closed"
    BY <2>1
  <2>5. Abstract!ShutdownReturns(t)
    BY <1>1, <1>2, <2>1, <2>2, <2>3, <2>4 DEF Abstract!ShutdownReturns, Running, Done, Down
  <2>6. QED
    BY <1>5, <2>5 DEF Abstract!Next
<1>6. QED
  BY <1>3, <1>4, <1>5 DEF StopStep

(* The finalizer closes with the last handle, and core_release frees an     *)
(* empty queue.                                                             *)
LEMMA HandleRefines ==
    ASSUME FiniteSetFacts, IInv, Made, NEW t \in Thread,
           Finalize(t) \/ CoreRelease(t) \/ SpuriousWake(t)
    PROVE  [Abstract!Next]_Abstract!vars
<1>1. CASE SpuriousWake(t)
  <2>1. UNCHANGED <<core, accepting, ring, task, result>>
    BY <1>1 DEF SpuriousWake, coreVars, localVars
  <2>2. QED
    BY <2>1, Unseen DEF Running, Done, Down
<1>2. CASE Finalize(t)
  <2>1. /\ pc[t] = "finalizing" /\ UNCHANGED <<core, ring, task, result>>
        /\ accepting' = (accepting /\ handles # 1) /\ accepting \in BOOLEAN
    BY <1>2 DEF Finalize, localVars, IInv, TypeOK
  <2>2. Running' = Running /\ Done' = Done /\ Down' = Down
    BY <2>1 DEF Running, Done, Down
  <2>3. core # "none"
    BY <2>1, StatusSeen
  <2>4. CASE handles = 1
    <3>1. accepting' = FALSE
      BY <2>1, <2>4, Zenon
    <3>2. PICK c \in Client : TRUE
      BY <2>3 DEF Made
    <3>3. QED
      BY <2>1, <2>2, <2>3, <3>1, <3>2, ClosingCloses
  <2>5. CASE handles # 1
    <3>1. accepting' = accepting
      BY <2>1, <2>5, Zenon
    <3>2. QED
      BY <2>1, <2>2, <3>1, Unseen
  <2>6. QED
    BY <2>4, <2>5
<1>3. CASE CoreRelease(t) /\ refs # 1
  <2>1. UNCHANGED <<core, accepting, ring, task, result>>
    BY <1>3 DEF CoreRelease, localVars
  <2>2. QED
    BY <2>1, Unseen DEF Running, Done, Down
<1>4. CASE CoreRelease(t) /\ refs = 1
  <2>1. /\ pc[t] = "releasing" /\ core' = "freed" /\ ring' = EmptyRing
        /\ UNCHANGED <<accepting, result>>
        /\ task' = [k \in Task |-> IF k \in Queued THEN "dropped" ELSE task[k]]
    BY <1>4 DEF CoreRelease, localVars
  <2>2. ring.count = 0 /\ Queued = {}
    BY <1>4, <2>1, LastReference
  <2>3. Running' = Running /\ Done' = Done /\ Down' = Down
    BY <2>1, <2>2 DEF Running, Done, Down
  <2>4. Contents(ring) = <<>>
    BY <2>2, ContentsSequence DEF IInv, TypeOK, Queue
  <2>5. Contents(ring)' = <<>>
    <3>1. Contents(ring') = <<>>
      BY <2>1, EmptyContents
    <3>2. QED
      BY <3>1 DEF Contents, Slot
  <2>6. core # "none" /\ core' # "none"
    BY <2>1, StatusSeen
  <2>7. UNCHANGED Abstract!vars
    BY <2>1, <2>3, <2>4, <2>5, <2>6 DEF Abstract!vars, Running, Done, Down
  <2>8. QED
    BY <2>7
<1>5. QED
  BY <1>1, <1>2, <1>3, <1>4

(* The worker loop: a worker that takes a task was free to run it. *)
LEMMA SameCardinality == \A S : Abstract!Cardinality(S) = Cardinality(S)
BY DEF Cardinality, Abstract!Cardinality

LEMMA TakeRefines ==
    ASSUME IInv, NEW w \in Worker, WorkerTake(w), Cardinality(Running) < Cardinality(Worker)
    PROVE  Abstract!Next
<1>1. /\ ring.count # 0 /\ ring' = Take(ring) /\ task' = [task EXCEPT ![Front(ring)] = "running"]
      /\ UNCHANGED <<core, accepting, result>>
  BY DEF WorkerTake
<1>2. /\ ring \in RingOf(Task) /\ WellFormed(ring) /\ NULL \notin Task /\ ring.count \in Nat
  BY PoolAssumption, SMT DEF IInv, TypeOK, Queue, RingOf
<1>3. /\ Contents(ring) # <<>> /\ Contents(ring') = Tail(Contents(ring))
      /\ Front(ring) = Head(Contents(ring))
  BY <1>1, <1>2, TakeRemovesHead, SMT
<1>4. Contents(ring)' = Contents(ring')
  BY DEF Contents, Slot
<1>5. Front(ring) \in Task /\ task[Front(ring)] = "queued"
  <2>1. Front(ring) \in Queued /\ Front(ring) \in Task
    <3>1. 0 \in 0 .. ring.count - 1 /\ Front(ring) = ring.slots[Slot(ring, 0)]
      BY <1>1, <1>2, TakeReads, SMT
    <3>2. QED
      BY <1>2, <3>1, QueuedItems DEF Queued
  <2>2. QED
    BY <2>1 DEF IInv, Queue
<1>6. Running' = Running \cup {Front(ring)} /\ Done' = Done /\ Down' = Down
  BY <1>1, <1>5 DEF IInv, TypeOK, Running, Done, Down
<1>7. Running' = Running \cup {Head(Contents(ring))} /\ Contents(ring)' = Tail(Contents(ring))
  BY <1>3, <1>4, <1>6
<1>8. Abstract!Start
  BY <1>1, <1>3, <1>6, <1>7, SameCardinality DEF Abstract!Start, Running, Done, Down
<1>9. QED
  BY <1>8 DEF Abstract!Next

LEMMA WorkerRefines ==
    ASSUME IInv, NEW w \in Worker, WorkerWait(w) \/ WorkerExit(w) \/ TaskReturns(w)
    PROVE  [Abstract!Next]_Abstract!vars
<1>1. CASE WorkerWait(w) \/ WorkerExit(w)
  <2>1. UNCHANGED <<core, accepting, ring, task, result>>
    BY <1>1 DEF WorkerWait, WorkerExit, coreVars, localVars
  <2>2. QED
    BY <2>1, Unseen DEF Running, Done, Down
<1>2. CASE TaskReturns(w)
  <2>1. /\ pc[w] = "running" /\ task' = [task EXCEPT ![job[w]] = "done"]
        /\ UNCHANGED <<core, accepting, ring, result>>
    BY <1>2 DEF TaskReturns, coreVars
  <2>2. PICK k \in Task : k = job[w] /\ task[k] = "running"
    BY <2>1, SMT DEF IInv, TypeOK, Jobs, InTask
  <2>3. /\ k \in Running /\ Running' = Running \ {k} /\ Done' = Done \cup {k}
        /\ Down' = Down /\ Contents(ring)' = Contents(ring)
    BY <2>1, <2>2 DEF IInv, TypeOK, Running, Done, Down, Contents, Slot
  <2>4. UNCHANGED (IF core = "none" THEN "none" ELSE IF accepting THEN "open" ELSE "closed")
    BY <2>1
  <2>5. Abstract!Finish(k)
    BY <2>3, <2>4 DEF Abstract!Finish, Running, Done, Down
  <2>6. QED
    BY <2>5 DEF Abstract!Next
<1>3. QED
  BY <1>1, <1>2

-----------------------------------------------------------------------------
(* The theorems.  From here on the theory of finite sets is at hand.        *)
INSTANCE FiniteSetTheorems

(* The facts the lemmas assume of finite sets are theorems. *)
LEMMA FiniteSetFactsHold == FiniteSetFacts
<1>1. /\ IsFiniteSet({}) /\ Cardinality({}) = 0
      /\ \A x : IsFiniteSet({x}) /\ Cardinality({x}) = 1
  BY FS_EmptySet, FS_Singleton
<1>2. ASSUME NEW S, IsFiniteSet(S)
      PROVE  Cardinality(S) \in Nat /\ (S # {} => Cardinality(S) # 0)
  BY <1>2, FS_CardinalityType, FS_EmptySet
<1>3. ASSUME NEW S, NEW R, IsFiniteSet(S), R \subseteq S
      PROVE  IsFiniteSet(R)
  BY <1>3, FS_Subset
<1>4. ASSUME NEW S, NEW R, IsFiniteSet(S), IsFiniteSet(R)
      PROVE  IsFiniteSet(S \cup R)
  BY <1>4, FS_Union
<1>5. ASSUME NEW S, NEW x, IsFiniteSet(S)
      PROVE  /\ x \notin S => Cardinality(S \cup {x}) = Cardinality(S) + 1
             /\ x \in S => Cardinality(S \ {x}) = Cardinality(S) - 1
  BY <1>5, FS_AddElement, FS_RemoveElement
<1>6. QED
  BY <1>1, <1>2, <1>3, <1>4, <1>5 DEF FiniteSetFacts

(* IInv holds in every reachable state. *)
THEOREM Invariance == Spec => []IInv
<1>1. Init => IInv
  BY InitIInv, FiniteSetFactsHold
<1>2. IInv /\ [Next]_vars => IInv'
  BY NextIInv, FiniteSetFactsHold
<1>3. QED
  BY <1>1, <1>2, PTL DEF Spec

(* A function that is one to one and onto is a bijection. *)
LEMMA OneToOne ==
    ASSUME NEW S, NEW T, NEW f \in [S -> T],
           \A x, y \in S : f[x] = f[y] => x = y,
           \A z \in T : \E x \in S : f[x] = z
    PROVE  ExistsBijection(S, T)
<1>1. f \in Injection(S, T) /\ f \in Surjection(S, T)
  BY DEF Injection, IsInjective, Surjection
<1>2. QED
  BY <1>1 DEF ExistsBijection, Bijection

(* As many tasks are queued as the ring counts. *)
LEMMA QueuedCount ==
    ASSUME TypeOK, Queue
    PROVE  /\ Queued = {k \in Task : task[k] = "queued"}
           /\ Cardinality(Queued) = ring.count
<1> DEFINE W == 0 .. ring.count - 1
           f == [i \in W |-> ring.slots[Slot(ring, i)]]
<1>1. ring.count \in Nat /\ \A i \in W : f[i] \in Task
  BY QueuedItems, SMT DEF TypeOK, Queue, RingOf
<1>2. Queued = {f[i] : i \in W}
  BY DEF Queued
<1>3. \A i, j \in W : f[i] = f[j] => i = j
  BY DEF Queue
<1>4. IsFiniteSet(W) /\ Cardinality(W) = ring.count
  <2>1. 0 \in Int /\ ring.count - 1 \in Int
    BY <1>1, SMT
  <2>2. IsFiniteSet(W) /\ Cardinality(W) = IF 0 > ring.count - 1 THEN 0 ELSE (ring.count - 1) - 0 + 1
    BY <2>1, FS_Interval
  <2>3. QED
    BY <1>1, <2>2, SMT
<1>5. ExistsBijection(W, Queued)
  <2>1. f \in [W -> Queued] /\ \A k \in Queued : \E i \in W : f[i] = k
    BY <1>2
  <2> HIDE DEF W, f
  <2>2. QED
    BY <1>3, <2>1, OneToOne, SMT
<1>6. \A k \in Queued : k \in Task
  BY <1>1, <1>2
<1>7. Cardinality(Queued) = Cardinality(W)
  BY <1>4, <1>5, FS_Bijection
<1>8. Queued = {k \in Task : task[k] = "queued"}
  BY <1>6 DEF Queue
<1>9. QED
  BY <1>4, <1>7, <1>8

(* Every accepted task is in one place until it is done, and none is lost. *)
THEOREM TasksCorrect == Spec => []TasksAccounted
<1>1. IInv => TasksAccounted
  <2> SUFFICES ASSUME IInv
               PROVE  TasksAccounted
    OBVIOUS
  <2>1. ASSUME NEW k \in Task
        PROVE  task[k] = "running" <=> Cardinality({w \in Worker : job[w] = k}) = 1
    <3> DEFINE S == {w \in Worker : job[w] = k}
    <3>1. k # NULL /\ Cardinality({}) = 0
      BY Names, FS_EmptySet
    <3>2. CASE task[k] = "running"
      <4>1. PICK w \in Worker : job[w] = k
        BY <3>2 DEF IInv, Jobs
      <4>2. S = {w}
        BY <3>1, <4>1, SMT DEF IInv, Jobs
      <4>3. Cardinality({w}) = 1
        BY FS_Singleton
      <4>4. QED
        BY <3>2, <4>2, <4>3
    <3>3. CASE task[k] # "running"
      <4>1. S = {}
        BY <3>1, <3>3, SMT DEF IInv, Jobs
      <4>2. QED
        BY <3>1, <3>3, <4>1, SMTT(30)
    <3>4. QED
      BY <3>2, <3>3
  <2>2. \A k \in Task : task[k] # "dropped"
    BY DEF IInv, Queue
  <2>3. QED
    BY <2>1, <2>2, QueuedCount DEF IInv, TasksAccounted
<1>2. QED
  BY Invariance, <1>1, PTL

(* refs, handles and live_workers count what they should, so the core lives *)
(* exactly as long as somebody can still use it.                            *)
THEOREM ReferencesCorrect == Spec => []ReferencesAccounted
<1>1. IInv => ReferencesAccounted
  BY DEF IInv
<1>2. QED
  BY Invariance, <1>1, PTL

(* Unless a broadcast fails, nobody sleeps in a closed pool, and shutdown   *)
(* sleeps only while a worker lives.                                        *)
THEOREM NoSleeperMissesCloseCorrect == Spec => []NoSleeperMissesClose
<1>1. IInv => NoSleeperMissesClose
  BY DEF IInv
<1>2. QED
  BY Invariance, <1>1, PTL

(* Part of a finite set is no larger than the set. *)
LEMMA FiniteSetOrderHolds == FiniteSetOrder
BY FS_Subset DEF FiniteSetOrder

(* Unless a signal fails, no queued task is overlooked: while some worker   *)
(* sleeps on not_empty at least as many others are awake as tasks wait.     *)
THEOREM NoTaskOverlookedCorrect == Spec => []NoTaskOverlooked
<1>1. Init => NoTaskOverlooked
  <2> SUFFICES ASSUME Init
               PROVE  Waiters("not_empty") = {}
    BY DEF NoTaskOverlooked
  <2>1. QED
    BY DEF Init, Waiters
<1>2. IInv /\ NoTaskOverlooked /\ [Next]_vars => NoTaskOverlooked'
  BY NextAttended, FiniteSetFactsHold, FiniteSetOrderHolds
<1>3. QED
  BY <1>1, <1>2, Invariance, PTL DEF Spec

(* There are fewer running tasks than workers while one looks for a task. *)
LEMMA FewerRunning ==
    ASSUME IInv, NEW w \in Worker, pc[w] = "looking"
    PROVE  Cardinality(Running) < Cardinality(Worker)
<1> DEFINE Busy == {v \in Worker : job[v] # NULL}
           f == [v \in Busy |-> job[v]]
<1>1. Jobs /\ job \in [Worker -> Task \cup {NULL}] /\ NULL \notin Task
  BY PoolAssumption DEF IInv, TypeOK
<1>2. Busy \subseteq Worker \ {w}
  BY <1>1 DEF Jobs, InTask
<1>3. f \in [Busy -> Running]
  BY <1>1 DEF Jobs, Running
<1>4. \A k \in Running : \E v \in Busy : f[v] = k
  BY <1>1 DEF Jobs, Running
<1>5. \A u, v \in Busy : f[u] = f[v] => u = v
  BY <1>1 DEF Jobs
<1>6. IsFiniteSet(Worker \ {w}) /\ Cardinality(Worker \ {w}) = Cardinality(Worker) - 1
      /\ Cardinality(Worker) \in Nat
  BY PoolAssumption, FS_RemoveElement, FS_CardinalityType
<1>7. IsFiniteSet(Busy) /\ Cardinality(Busy) <= Cardinality(Worker \ {w}) /\ Cardinality(Busy) \in Nat
  BY <1>2, <1>6, FS_Subset, FS_CardinalityType
<1> HIDE DEF Busy, f
<1>8. ExistsBijection(Busy, Running)
  BY <1>3, <1>4, <1>5, OneToOne, SMT
<1>9. Cardinality(Running) = Cardinality(Busy)
  BY <1>7, <1>8, FS_Bijection
<1>10. QED
  BY <1>6, <1>7, <1>9, SMT

(* The pool is a FIFO executor: every critical section of submit, of the    *)
(* worker loop, of close, shutdown and the finalizers is one step of        *)
(* Executor or is not seen.                                                 *)
THEOREM ExecutorCorrect == Spec => ImplementsExecutor
<1>1. Init => Made /\ Abstract!Init
  BY EmptyContents DEF Init, Made, Abstract!Init
<1>2. IInv /\ Made /\ [Next]_vars => Made'
  BY MadeStep
<1>3. IInv /\ Made /\ [Next]_vars => [Abstract!Next]_Abstract!vars
  <2> SUFFICES ASSUME IInv, Made, [Next]_vars
               PROVE  [Abstract!Next]_Abstract!vars
    OBVIOUS
  <2>1. ASSUME NEW w \in Worker, WorkerTake(w)
        PROVE  Abstract!Next
    BY <2>1, FewerRunning, TakeRefines DEF WorkerTake
  <2>2. CASE UNCHANGED vars
    BY <2>2, Unseen DEF vars, coreVars, localVars, Running, Done, Down
  <2>3. ASSUME NEW t \in Thread, ThreadNext(t)
        PROVE  [Abstract!Next]_Abstract!vars
    BY <2>3, FiniteSetFactsHold, UserRefines, SubmitRefines, StopRefines, HandleRefines DEF ThreadNext
  <2>4. QED
    BY <2>1, <2>2, <2>3, ClientRefines, WorkerRefines DEF Next, WorkerLooks, Finished
<1>4. QED
  BY <1>1, <1>2, <1>3, Invariance, PTL DEF Spec, ImplementsExecutor, Abstract!Spec

=============================================================================
