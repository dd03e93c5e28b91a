------------------------ MODULE ThreadPoolInvariant -------------------------
(***************************************************************************)
(* The inductive invariant of ThreadPool, for any number of clients,       *)
(* workers and tasks, every capacity and every set of faults; the lemmas   *)
(* on counting and on frames that its proof needs; and that construction   *)
(* and handles keep it.  ThreadPoolSteps has the core's release and the    *)
(* submissions, ThreadPoolProofs the rest and the theorems.                *)
(***************************************************************************)
EXTENDS ThreadPool, RingProofs, Counting

(* Most leaves are first-order; those that are not name their prover.       *)
USE Zenon

(* The worker has left its loop. *)
Leaving(w) == pc[w] = "gone" \/ (pc[w] = "releasing" /\ after[w] = "gone")

(* c is inside thread_pool_new, or its thread_pool_new has failed. *)
Early(c) == pc[c] = "building" \/ result[c] = "CreationFailed"

(* Where threads can be.  A worker never waits for room in the queue: it is *)
(* told WouldDeadlock instead.                                              *)
ClientPlace(c) ==
    /\ pc[c] \in {"absent", "building", "idle", "submitting", "resubmitting", "not_full",
                  "stopping", "restopping", "stopped", "finalizing", "releasing"}
    /\ after[c] \in {"idle", "absent"}

WorkerPlace(w) ==
    /\ pc[w] \in {"unborn", "starting", "looking", "not_empty", "running", "submitting",
                  "finalizing", "releasing", "gone"}
    /\ after[w] \in {"looking", "running", "gone"}
    /\ after[w] = "gone" => pc[w] \in {"releasing", "gone"}
    /\ pc[w] = "gone" => after[w] = "gone"

Places ==
    /\ \A c \in Client : ClientPlace(c)
    /\ \A w \in Worker : WorkerPlace(w)

(* Until new has returned nobody else has a handle and there are no tasks.  *)
Beginning ==
    /\ core = "none" =>
         /\ ~accepting /\ handles = 0
         /\ \A c \in Client : pc[c] = "absent" /\ result[c] # "CreationFailed"
         /\ \A w \in Worker : pc[w] = "unborn"
         /\ \A k \in Task : task[k] = "new"
    /\ \A c \in Client : Early(c) =>
         /\ \A d \in Client : d # c => pc[d] = "absent" /\ ~Early(d)
         /\ \A w \in Worker :
               pc[w] \in {"unborn", "starting", "looking", "not_empty", "releasing", "gone"}
         /\ \A k \in Task : task[k] = "new"
    /\ \A c \in Client : result[c] = "CreationFailed" /\ pc[c] # "building" =>
         /\ after[c] = "absent" /\ ~accepting
         /\ pc[c] \in {"stopping", "restopping", "stopped", "releasing", "absent"}
    /\ \A c \in Client :
         after[c] = "absent" /\ pc[c] \in {"stopping", "restopping", "stopped"} =>
            result[c] = "CreationFailed"
    /\ (\E w \in Worker : pc[w] = "unborn") => core = "none" \/ \E c \in Client : Early(c)

(* The worker is inside a task, perhaps in a call that the task makes. *)
InTask(w) ==
    \/ pc[w] \in {"running", "submitting"}
    \/ pc[w] \in {"finalizing", "releasing"} /\ after[w] = "running"

Jobs ==
    /\ \A w \in Worker : job[w] # NULL <=> InTask(w)
    /\ \A w \in Worker : job[w] # NULL => task[job[w]] = "running"
    /\ \A v, w \in Worker : job[v] = job[w] /\ job[w] # NULL => v = w
    /\ \A k \in Task : task[k] = "running" => \E w \in Worker : job[w] = k

Submissions ==
    /\ \A t \in Thread : arg[t].task # NULL <=> pc[t] \in {"submitting", "resubmitting", "not_full"}
    /\ \A t \in Thread : arg[t].task # NULL => task[arg[t].task] = "pending"
    /\ \A t, u \in Thread : arg[t].task = arg[u].task /\ arg[u].task # NULL => t = u

Queue ==
    /\ WellFormed(ring)
    /\ \A k \in Task : task[k] = "queued" <=> k \in Queued
    /\ \A i, j \in 0 .. ring.count - 1 :
         ring.slots[Slot(ring, i)] = ring.slots[Slot(ring, j)] => i = j
    /\ \A k \in Task : task[k] # "dropped"
    /\ \A w \in Worker : Leaving(w) => ring.count = 0 /\ ~accepting

IInv ==
    /\ TypeOK
    /\ Places
    /\ Beginning
    /\ Jobs
    /\ Submissions
    /\ Queue
    /\ NoSleeperMissesClose
    /\ ReferencesAccounted

-----------------------------------------------------------------------------
(* Counting.                                                                *)

Bit(b) == IF b THEN 1 ELSE 0

(* The sets whose sizes ReferencesAccounted adds up. *)
ClientsIn == {c \in Client : pc[c] # "absent"}
WorkersIn == {w \in Worker : pc[w] \notin {"unborn", "gone"}}
Drops == {t \in Thread : pc[t] \in {"finalizing", "releasing"} /\ DropsCapture(t)}
LiveWorkers ==
    {w \in Worker : pc[w] \notin {"unborn", "gone"} /\ ~(pc[w] = "releasing" /\ after[w] = "gone")}
OwnHandles ==
    {c \in Client : pc[c] # "absent" /\ ~(pc[c] = "releasing" /\ after[c] = "absent")}
CapturedFinal == {t \in Thread : pc[t] = "finalizing" /\ DropsCapture(t)}

(* The size of a set of which at most x has come or gone. *)
LEMMA Recount ==
    ASSUME FiniteSetFacts, NEW S, NEW R, NEW x, IsFiniteSet(S), R \ {x} = S \ {x}
    PROVE  /\ Cardinality(S) \in Nat /\ Cardinality(R) \in Nat
           /\ Cardinality(R) = Cardinality(S) + Bit(x \in R) - Bit(x \in S)
<1> DEFINE Rest == S \ {x}
<1>1. IsFiniteSet(Rest) /\ Cardinality(Rest) \in Nat
  <2>1. Rest \subseteq S
    OBVIOUS
  <2> HIDE DEF Rest
  <2>2. QED
    BY <2>1 DEF FiniteSetFacts
<1>2. /\ x \notin Rest
      /\ x \in S => S = Rest \cup {x}
      /\ x \notin S => S = Rest
      /\ x \in R => R = Rest \cup {x}
      /\ x \notin R => R = Rest
  OBVIOUS
<1> HIDE DEF Rest
<1>3. Cardinality(Rest \cup {x}) = Cardinality(Rest) + 1
  BY <1>1, <1>2 DEF FiniteSetFacts
<1>4. Cardinality(S) = Cardinality(Rest) + Bit(x \in S)
  <2>1. CASE x \in S
    BY <1>1, <1>2, <1>3, <2>1 DEF Bit
  <2>2. CASE x \notin S
    BY <1>1, <1>2, <2>2, SMT DEF Bit
  <2>3. QED
    BY <2>1, <2>2
<1>5. Cardinality(R) = Cardinality(Rest) + Bit(x \in R)
  <2>1. CASE x \in R
    BY <1>1, <1>2, <1>3, <2>1 DEF Bit
  <2>2. CASE x \notin R
    BY <1>1, <1>2, <2>2, SMT DEF Bit
  <2>3. QED
    BY <2>1, <2>2
<1>6. Bit(x \in S) \in Nat /\ Bit(x \in R) \in Nat
  BY DEF Bit
<1>7. QED
  BY <1>1, <1>4, <1>5, <1>6, SMT

(* How many references a thread and a task account for. *)
Weight(t) == Bit(t \in ClientsIn) + Bit(t \in WorkersIn) + Bit(t \in Drops)

HandleWeight(t) == Bit(t \in OwnHandles) + Bit(t \in CapturedFinal)

(* t moves on to where; of the others some are woken. *)
Moves(t, where) ==
    /\ pc' \in [Thread -> Location]
    /\ pc'[t] = where
    /\ \A u \in Thread : u # t =>
          pc'[u] = pc[u] \/ (pc[u] \in Condition /\ pc'[u] = Resume(pc[u]))

(* Only t moves and only k changes hands: the counts follow these two. *)
LEMMA Counts ==
    ASSUME FiniteSetFacts, TypeOK, NEW t \in Thread, NEW k, NEW where, Moves(t, where),
           \A u \in Thread : u # t => after'[u] = after[u],
           \A j \in Task : j # k => (j \in Captured' <=> j \in Captured),
           ReferencesAccounted, refs' \in Int, live' \in Int, handles' \in Int,
           refs' = refs + (Weight(t)' - Weight(t)) + (Bit(k \in Captured') - Bit(k \in Captured)),
           live' = live + (Bit(t \in LiveWorkers') - Bit(t \in LiveWorkers)),
           (\A c \in Client : result'[c] # "CreationFailed") =>
              /\ \A c \in Client : result[c] # "CreationFailed"
              /\ handles' = handles + (HandleWeight(t)' - HandleWeight(t))
                            + (Bit(k \in Captured') - Bit(k \in Captured))
    PROVE  /\ refs' \in Nat /\ live' \in Nat
           /\ (\A c \in Client : result'[c] # "CreationFailed") => handles' \in Nat
           /\ (core' = "live" <=> refs' > 0) => ReferencesAccounted'
<1>1. \A u \in Thread : u # t =>
         /\ pc[u] = "absent" <=> pc'[u] = "absent"
         /\ pc[u] = "unborn" <=> pc'[u] = "unborn"
         /\ pc[u] = "gone" <=> pc'[u] = "gone"
         /\ pc[u] = "finalizing" <=> pc'[u] = "finalizing"
         /\ pc[u] = "releasing" <=> pc'[u] = "releasing"
         /\ after'[u] = after[u]
  BY DEF Moves, Condition, Resume
<1>2. Client \subseteq Thread /\ Worker \subseteq Thread
  BY DEF Thread
<1>3. IsFiniteSet(Thread) /\ IsFiniteSet(Client) /\ IsFiniteSet(Worker) /\ IsFiniteSet(Task)
  BY PoolAssumption DEF Thread, FiniteSetFacts
<1>4. /\ ClientsIn \subseteq Client /\ WorkersIn \subseteq Worker /\ Drops \subseteq Thread
      /\ LiveWorkers \subseteq Worker /\ OwnHandles \subseteq Client
      /\ CapturedFinal \subseteq Thread /\ Captured \subseteq Task
  BY PoolAssumption DEF ClientsIn, WorkersIn, Drops, LiveWorkers, OwnHandles, CapturedFinal, Captured
<1>5. /\ IsFiniteSet(ClientsIn) /\ IsFiniteSet(WorkersIn) /\ IsFiniteSet(Drops)
      /\ IsFiniteSet(LiveWorkers) /\ IsFiniteSet(OwnHandles)
      /\ IsFiniteSet(CapturedFinal) /\ IsFiniteSet(Captured)
  BY <1>3, <1>4 DEF FiniteSetFacts
<1>6. /\ ClientsIn' \ {t} = ClientsIn \ {t}
      /\ WorkersIn' \ {t} = WorkersIn \ {t}
      /\ LiveWorkers' \ {t} = LiveWorkers \ {t}
      /\ OwnHandles' \ {t} = OwnHandles \ {t}
  BY <1>1, <1>2, SMT DEF ClientsIn, WorkersIn, LiveWorkers, OwnHandles
<1>7. /\ Drops' \ {t} = Drops \ {t}
      /\ CapturedFinal' \ {t} = CapturedFinal \ {t}
  BY <1>1, <1>2 DEF Drops, CapturedFinal, DropsCapture
<1>8. Captured' \ {k} = Captured \ {k}
  BY PoolAssumption DEF Captured
<1>9. /\ Cardinality(ClientsIn) \in Nat /\ Cardinality(ClientsIn)' \in Nat
      /\ Cardinality(ClientsIn)' = Cardinality(ClientsIn) + Bit(t \in ClientsIn') - Bit(t \in ClientsIn)
  BY <1>5, <1>6, Recount
<1>10. /\ Cardinality(WorkersIn) \in Nat /\ Cardinality(WorkersIn)' \in Nat
       /\ Cardinality(WorkersIn)' = Cardinality(WorkersIn) + Bit(t \in WorkersIn') - Bit(t \in WorkersIn)
  BY <1>5, <1>6, Recount
<1>11. /\ Cardinality(Drops) \in Nat /\ Cardinality(Drops)' \in Nat
       /\ Cardinality(Drops)' = Cardinality(Drops) + Bit(t \in Drops') - Bit(t \in Drops)
  BY <1>5, <1>7, Recount
<1>12. /\ Cardinality(LiveWorkers) \in Nat /\ Cardinality(LiveWorkers)' \in Nat
       /\ Cardinality(LiveWorkers)' = Cardinality(LiveWorkers) + Bit(t \in LiveWorkers') - Bit(t \in LiveWorkers)
  BY <1>5, <1>6, Recount
<1>13. /\ Cardinality(OwnHandles) \in Nat /\ Cardinality(OwnHandles)' \in Nat
       /\ Cardinality(OwnHandles)' = Cardinality(OwnHandles) + Bit(t \in OwnHandles') - Bit(t \in OwnHandles)
  BY <1>5, <1>6, Recount
<1>14. /\ Cardinality(CapturedFinal) \in Nat /\ Cardinality(CapturedFinal)' \in Nat
       /\ Cardinality(CapturedFinal)' = Cardinality(CapturedFinal) + Bit(t \in CapturedFinal') - Bit(t \in CapturedFinal)
  BY <1>5, <1>7, Recount
<1>15. /\ Cardinality(Captured) \in Nat /\ Cardinality(Captured)' \in Nat
       /\ Cardinality(Captured)' = Cardinality(Captured) + Bit(k \in Captured') - Bit(k \in Captured)
  BY <1>5, <1>8, Recount
<1> DEFINE sum == Cardinality(ClientsIn) + Cardinality(WorkersIn) + Cardinality(Captured) + Cardinality(Drops)
           own == Cardinality(OwnHandles) + Cardinality(Captured) + Cardinality(CapturedFinal)
<1>16. \A b \in BOOLEAN : Bit(b) \in Nat
  BY DEF Bit
<1>17. /\ Bit(t \in ClientsIn) \in Nat /\ Bit(t \in ClientsIn') \in Nat
       /\ Bit(t \in WorkersIn) \in Nat /\ Bit(t \in WorkersIn') \in Nat
       /\ Bit(t \in Drops) \in Nat /\ Bit(t \in Drops') \in Nat
       /\ Bit(t \in OwnHandles) \in Nat /\ Bit(t \in OwnHandles') \in Nat
       /\ Bit(t \in CapturedFinal) \in Nat /\ Bit(t \in CapturedFinal') \in Nat
       /\ Bit(k \in Captured) \in Nat /\ Bit(k \in Captured') \in Nat
  BY DEF Bit
<1>18. refs = sum /\ live = Cardinality(LiveWorkers)
       /\ ((\A c \in Client : result[c] # "CreationFailed") => handles = own)
  BY DEF ReferencesAccounted, ClientsIn, WorkersIn, Drops, LiveWorkers, OwnHandles, CapturedFinal
<1>19. refs' = sum'
  BY <1>9, <1>10, <1>11, <1>15, <1>17, <1>18, SMT DEF Weight
<1>20. live' = Cardinality(LiveWorkers)'
  BY <1>12, <1>18 DEF Bit
<1>21. (\A c \in Client : result'[c] # "CreationFailed") => handles' = own'
  BY <1>13, <1>14, <1>15, <1>17, <1>18, SMT DEF HandleWeight
<1>22. sum' \in Nat /\ own' \in Nat
  BY <1>9, <1>10, <1>11, <1>13, <1>14, <1>15, SMT
<1> HIDE DEF sum, own
<1>23. (core' = "live" <=> refs' > 0) => ReferencesAccounted'
  BY <1>19, <1>20, <1>21 DEF ReferencesAccounted, ClientsIn, WorkersIn, Drops, LiveWorkers, OwnHandles, CapturedFinal, sum, own
<1>24. QED
  BY <1>12, <1>19, <1>20, <1>21, <1>22, <1>23

(* The same, with the changes of the three counters named.  The counters    *)
(* stay natural numbers because they count.                                 *)
LEMMA Tally ==
    ASSUME FiniteSetFacts, TypeOK, ReferencesAccounted, NEW t \in Thread, NEW k, NEW where, Moves(t, where),
           \A u \in Thread : u # t => after'[u] = after[u],
           \A j \in Task : j # k => (j \in Captured' <=> j \in Captured),
           NEW r \in Int, NEW l \in Int, NEW h \in Int,
           refs' = refs + r, live' = live + l,
           Weight(t)' + Bit(k \in Captured') = Weight(t) + Bit(k \in Captured) + r,
           Bit(t \in LiveWorkers') = Bit(t \in LiveWorkers) + l, handles' \in Int,
           (\A c \in Client : result'[c] # "CreationFailed") =>
              /\ \A c \in Client : result[c] # "CreationFailed"
              /\ handles' = handles + h
              /\ HandleWeight(t)' + Bit(k \in Captured') = HandleWeight(t) + Bit(k \in Captured) + h
    PROVE  /\ refs' \in Nat /\ live' \in Nat
           /\ (\A c \in Client : result'[c] # "CreationFailed") => handles' \in Nat
           /\ (core' = "live" <=> refs' > 0) => ReferencesAccounted'
<1>1. refs \in Int /\ live \in Int /\ handles \in Int
  BY SMT DEF TypeOK
<1>2. /\ Weight(t) \in Int /\ HandleWeight(t) \in Int
      /\ Weight(t)' \in Int /\ HandleWeight(t)' \in Int
      /\ Bit(t \in LiveWorkers) \in Int /\ Bit(t \in LiveWorkers') \in Int
      /\ Bit(k \in Captured) \in Int /\ Bit(k \in Captured') \in Int
  BY SMT DEF Weight, HandleWeight, Bit
<1>3. refs' = refs + (Weight(t)' - Weight(t)) + (Bit(k \in Captured') - Bit(k \in Captured))
  BY <1>1, <1>2, SMT
<1>4. live' = live + (Bit(t \in LiveWorkers') - Bit(t \in LiveWorkers))
  BY <1>1, <1>2, SMT
<1>5. ASSUME \A c \in Client : result'[c] # "CreationFailed"
      PROVE  handles' = handles + (HandleWeight(t)' - HandleWeight(t))
                        + (Bit(k \in Captured') - Bit(k \in Captured))
  <2>1. /\ handles' = handles + h
        /\ HandleWeight(t)' + Bit(k \in Captured') = HandleWeight(t) + Bit(k \in Captured) + h
    BY <1>5
  <2>2. QED
    BY <1>1, <1>2, <2>1, SMT
<1>6. refs' \in Int /\ live' \in Int
  BY <1>1, SMT
<1>7. QED
  BY <1>3, <1>4, <1>5, <1>6, Counts

(* A step that counts nothing. *)
LEMMA CountsFrame ==
    ASSUME FiniteSetFacts, TypeOK, ReferencesAccounted, NEW t \in Thread, NEW where, Moves(t, where),
           \A u \in Thread : u # t => after'[u] = after[u],
           UNCHANGED <<core, live, handles, refs>>,
           \A k \in Task : k \in Captured' <=> k \in Captured,
           Weight(t)' = Weight(t), HandleWeight(t)' = HandleWeight(t),
           t \in LiveWorkers' <=> t \in LiveWorkers,
           \A c \in Client : result[c] = "CreationFailed" => result'[c] = "CreationFailed"
    PROVE  ReferencesAccounted'
<1>1. Bit(NULL \in Captured') = 0 /\ Bit(NULL \in Captured) = 0
  BY PoolAssumption DEF Bit, Captured
<1>2. refs' = refs + 0 /\ live' = live + 0 /\ handles' = handles + 0 /\ handles' \in Int
  BY SMT DEF TypeOK
<1>3. /\ Weight(t)' + Bit(NULL \in Captured') = Weight(t) + Bit(NULL \in Captured) + 0
      /\ HandleWeight(t)' + Bit(NULL \in Captured') = HandleWeight(t) + Bit(NULL \in Captured) + 0
      /\ Bit(t \in LiveWorkers') = Bit(t \in LiveWorkers) + 0
  BY <1>1, SMT DEF Weight, HandleWeight, Bit
<1>4. core' = "live" <=> refs' > 0
  BY DEF ReferencesAccounted
<1>5. 0 \in Int
  BY SMT
<1>6. QED
  BY <1>2, <1>3, <1>4, <1>5, Tally

(* A finite set that is not empty has a positive size. *)
LEMMA Positive ==
    ASSUME FiniteSetFacts, NEW S, IsFiniteSet(S)
    PROVE  Cardinality(S) \in Nat /\ (S # {} => Cardinality(S) > 0)
<1>1. Cardinality(S) \in Nat
  BY DEF FiniteSetFacts
<1>2. S # {} => Cardinality(S) # 0
  BY DEF FiniteSetFacts
<1>3. QED
  BY <1>1, <1>2, SMT

(* What refs adds up, and that every summand counts. *)
LEMMA Summands ==
    ASSUME FiniteSetFacts, ReferencesAccounted
    PROVE  /\ refs = Cardinality(ClientsIn) + Cardinality(WorkersIn)
                     + Cardinality(Captured) + Cardinality(Drops)
           /\ Cardinality(ClientsIn) \in Nat /\ Cardinality(WorkersIn) \in Nat
           /\ Cardinality(Captured) \in Nat /\ Cardinality(Drops) \in Nat
           /\ ClientsIn # {} => Cardinality(ClientsIn) > 0
           /\ WorkersIn # {} => Cardinality(WorkersIn) > 0
           /\ Drops # {} => Cardinality(Drops) > 0
<1>1. IsFiniteSet(Thread) /\ IsFiniteSet(Client) /\ IsFiniteSet(Worker) /\ IsFiniteSet(Task)
  BY PoolAssumption DEF Thread, FiniteSetFacts
<1>2. /\ ClientsIn \subseteq Client /\ WorkersIn \subseteq Worker
      /\ Drops \subseteq Thread /\ Captured \subseteq Task
  BY PoolAssumption DEF ClientsIn, WorkersIn, Drops, Captured
<1>3. /\ IsFiniteSet(ClientsIn) /\ IsFiniteSet(WorkersIn)
      /\ IsFiniteSet(Drops) /\ IsFiniteSet(Captured)
  BY <1>1, <1>2 DEF FiniteSetFacts
<1>4. refs = Cardinality(ClientsIn) + Cardinality(WorkersIn) + Cardinality(Captured) + Cardinality(Drops)
  BY DEF ReferencesAccounted, ClientsIn, WorkersIn, Drops
<1>5. QED
  BY <1>3, <1>4, Positive

(* While a client has a handle or a worker is there, the core is live. *)
LEMMA InsideIsLive ==
    ASSUME FiniteSetFacts, ReferencesAccounted, NEW t \in Thread,
           pc[t] \notin {"absent", "unborn", "gone"}
    PROVE  core = "live" /\ refs > 0
<1>1. ClientsIn # {} \/ WorkersIn # {}
  BY DEF Thread, ClientsIn, WorkersIn
<1>2. refs > 0
  BY <1>1, Summands, SMT
<1>3. QED
  BY <1>2 DEF ReferencesAccounted

-----------------------------------------------------------------------------
(* Frames: what a step of t that may wake others leaves of each conjunct.   *)

(* t steps to where, and no other thread changes its plans. *)
Steps(t, where) ==
    /\ Moves(t, where)
    /\ after' \in [Thread -> {"absent", "idle", "running", "looking", "gone"}]
    /\ \A u \in Thread : u # t => after'[u] = after[u]

(* How the kinds of threads and tasks relate. *)
LEMMA Names ==
    /\ Client \subseteq Thread /\ Worker \subseteq Thread
    /\ NULL \notin Task /\ Capturing \subseteq Task
    /\ \A t \in Thread : t \in Client <=> t \notin Worker
    /\ Thread = Client \cup Worker
BY PoolAssumption DEF Thread

(* Those who are woken keep to their side of the pool. *)
LEMMA PlacesFrame ==
    ASSUME Places, NEW t \in Thread, NEW where, Steps(t, where),
           t \in Client => ClientPlace(t)', t \in Worker => WorkerPlace(t)'
    PROVE  Places'
<1>1. ASSUME NEW c \in Client, c # t PROVE ClientPlace(c)'
  BY <1>1, Names DEF Steps, Moves, Places, ClientPlace, Condition, Resume
<1>2. ASSUME NEW w \in Worker, w # t PROVE WorkerPlace(w)'
  BY <1>2, Names DEF Steps, Moves, Places, WorkerPlace, Condition, Resume
<1>3. QED
  BY <1>1, <1>2 DEF Places

(* A step that hands no task over. *)
LEMMA JobsFrame ==
    ASSUME Places, Jobs, NEW t \in Thread, NEW where, Steps(t, where),
           t \in Worker => (InTask(t)' <=> InTask(t)), UNCHANGED job,
           \A k \in Task : task[k] = "running" <=> task'[k] = "running", TypeOK
    PROVE  Jobs'
<1>1. ASSUME NEW w \in Worker, w # t PROVE InTask(w)' <=> InTask(w)
  BY <1>1, Names DEF Steps, Moves, Places, WorkerPlace, Condition, Resume, InTask
<1>2. \A w \in Worker : job[w] \in Task \cup {NULL}
  BY DEF TypeOK
<1>3. QED
  BY <1>1, <1>2 DEF Jobs

Submitting(t) == pc[t] \in {"submitting", "resubmitting", "not_full"}

(* A step outside submit_task. *)
LEMMA SubmissionsFrame ==
    ASSUME Submissions, NEW t \in Thread, NEW where, Steps(t, where),
           Submitting(t)' <=> Submitting(t), UNCHANGED arg,
           \A k \in Task : task[k] = "pending" <=> task'[k] = "pending", TypeOK
    PROVE  Submissions'
<1>1. ASSUME NEW u \in Thread, u # t PROVE Submitting(u)' <=> Submitting(u)
  BY <1>1 DEF Steps, Moves, Condition, Resume, Submitting
<1>2. \A u \in Thread : arg[u].task \in Task \cup {NULL}
  BY DEF TypeOK, Argument
<1>3. QED
  BY <1>1, <1>2 DEF Submissions, Submitting

(* A step that leaves the queue alone. *)
LEMMA QueueFrame ==
    ASSUME Queue, NEW t \in Thread, NEW where, Steps(t, where), UNCHANGED ring,
           \A k \in Task : task[k] = "queued" <=> task'[k] = "queued",
           \A k \in Task : task'[k] # "dropped",
           accepting' => accepting \/ \A w \in Worker : ~Leaving(w),
           t \in Worker /\ Leaving(t)' => Leaving(t) \/ (ring.count = 0 /\ ~accepting')
    PROVE  Queue'
<1>1. ASSUME NEW w \in Worker, w # t PROVE Leaving(w)' => Leaving(w)
  BY <1>1, Names DEF Steps, Moves, Leaving, Condition, Resume
<1>2. Queued' = Queued
  BY DEF Queued, Slot
<1>3. WellFormed(ring)'
  BY DEF Queue, WellFormed, Occupied, Slot
<1>4. \A i, j \in 0 .. ring'.count - 1 :
         ring'.slots[Slot(ring', i)] = ring'.slots[Slot(ring', j)] => i = j
  BY DEF Queue
<1>5. \A k \in Task : task'[k] = "queued" <=> k \in Queued'
  BY <1>2 DEF Queue
<1>6. \A w \in Worker : Leaving(w)' => ring'.count = 0 /\ ~accepting'
  BY <1>1 DEF Queue
<1>7. QED
  BY <1>3, <1>4, <1>5, <1>6 DEF Queue, Slot

(* Nobody uses the pool before new has returned. *)
LEMMA NotEarly ==
    ASSUME Places, Beginning, NEW t \in Thread,
           \/ pc[t] \in {"idle", "running", "submitting", "resubmitting", "not_full", "finalizing"}
           \/ \E k \in Task : task[k] # "new"
    PROVE  core # "none" /\ \A c \in Client : ~Early(c)
BY Names, SMT DEF Places, ClientPlace, WorkerPlace, Beginning, Early

(* A step of a pool in use. *)
LEMMA InUseFrame ==
    ASSUME Beginning, core # "none", core' # "none", NEW t \in Thread, NEW where,
           Steps(t, where), where # "unborn",
           where \in {"stopping", "restopping", "stopped"} => after'[t] # "absent",
           \A c \in Client : ~Early(c), \A c \in Client : ~Early(c)'
    PROVE  Beginning'
<1>1. \A w \in Worker : pc[w] # "unborn"
  BY DEF Beginning
<1>2. \A w \in Worker : pc'[w] # "unborn"
  BY <1>1, Names DEF Steps, Moves, Condition, Resume
<1>3. \A c \in Client : result'[c] # "CreationFailed"
  BY DEF Early
<1>4. ASSUME NEW c \in Client, pc'[c] \in {"stopping", "restopping", "stopped"}
      PROVE  after'[c] # "absent"
  <2>1. CASE c = t
    BY <1>4, <2>1 DEF Steps, Moves
  <2>2. CASE c # t
    <3>1. pc[c] \in {"stopping", "restopping", "stopped"} /\ after'[c] = after[c]
      BY <1>4, <2>2, Names DEF Steps, Moves, Condition, Resume
    <3>2. QED
      BY <3>1 DEF Beginning, Early
  <2>3. QED
    BY <2>1, <2>2
<1>5. QED
  BY <1>2, <1>3, <1>4 DEF Beginning

(* A step of a worker, or of a client that waits for the workers, which may *)
(* come before new has returned.                                            *)
LEMMA EarlyFrame ==
    ASSUME Beginning, core # "none", core' # "none", NEW t \in Thread, NEW where,
           Steps(t, where), UNCHANGED <<task, result>>, accepting' => accepting,
           t \in Worker => \/ where \in {"starting", "looking", "not_empty", "releasing", "gone"}
                           \/ where # "unborn" /\ \E k \in Task : task[k] # "new",
           t \in Client =>
              /\ pc[t] \notin {"absent", "building"} /\ where \notin {"building", "unborn"}
              /\ after'[t] = "absent" /\ where \in {"stopping", "restopping", "stopped"} =>
                    result[t] = "CreationFailed"
              /\ result[t] = "CreationFailed" =>
                    /\ after'[t] = "absent"
                    /\ where \in {"stopping", "restopping", "stopped", "releasing", "absent"}
    PROVE  Beginning'
<1>1. \A u \in Thread : u # t =>
        /\ pc[u] = "absent" => pc'[u] = "absent"
        /\ pc[u] = "building" <=> pc'[u] = "building"
        /\ pc[u] = "unborn" <=> pc'[u] = "unborn"
        /\ after'[u] = after[u]
        /\ pc[u] \in {"unborn", "starting", "looking", "not_empty", "releasing", "gone"} =>
              pc'[u] \in {"unborn", "starting", "looking", "not_empty", "releasing", "gone"}
        /\ pc'[u] \in {"stopping", "restopping", "stopped"} =>
              pc[u] \in {"stopping", "restopping", "stopped"}
        /\ pc[u] \in {"stopping", "restopping", "stopped", "releasing", "absent"} =>
              pc'[u] \in {"stopping", "restopping", "stopped", "releasing", "absent"}
  BY DEF Steps, Moves, Condition, Resume
<1>2. \A c \in Client : Early(c)' <=> Early(c)
  BY <1>1, Names DEF Steps, Moves, Early
<1>3. pc'[t] = where
  BY DEF Steps, Moves
<1>4. \A c \in Client : Early(c)' =>
         /\ \A d \in Client : d # c => pc'[d] = "absent" /\ ~Early(d)'
         /\ \A w \in Worker :
               pc'[w] \in {"unborn", "starting", "looking", "not_empty", "releasing", "gone"}
         /\ \A k \in Task : task'[k] = "new"
  BY <1>1, <1>2, <1>3, Names, SMT DEF Beginning
<1>5. \A c \in Client : result'[c] = "CreationFailed" /\ pc'[c] # "building" =>
         /\ after'[c] = "absent" /\ ~accepting'
         /\ pc'[c] \in {"stopping", "restopping", "stopped", "releasing", "absent"}
  BY <1>1, <1>3, Names, SMT DEF Beginning
<1>6. (\E w \in Worker : pc'[w] = "unborn") => \E c \in Client : Early(c)'
  BY <1>1, <1>2, <1>3, Names DEF Beginning
<1>7. \A c \in Client :
         after'[c] = "absent" /\ pc'[c] \in {"stopping", "restopping", "stopped"} =>
            result'[c] = "CreationFailed"
  BY <1>1, <1>3, Names, SMT DEF Beginning
<1>8. QED
  BY <1>4, <1>5, <1>6, <1>7 DEF Beginning

(* A step by which nobody goes to sleep. *)
LEMMA SleepFrame ==
    ASSUME NoSleeperMissesClose, NEW t \in Thread, NEW where, Steps(t, where),
           where \notin Condition, accepting => accepting', muted => muted', live > 0 => live' > 0
    PROVE  NoSleeperMissesClose'
<1>1. ASSUME NEW condition \in Condition
      PROVE  Waiters(condition)' \subseteq Waiters(condition)
  BY <1>1 DEF Waiters, Steps, Moves, Condition, Resume
<1>2. QED
  BY <1>1 DEF NoSleeperMissesClose, Condition

(* A broadcast wakes the threads that wait, and so does a signal. *)
LEMMA MovedMoves ==
    ASSUME TypeOK, NEW t \in Thread, NEW where \in Location, NEW woken,
           \A u \in woken : pc[u] \in Condition, pc' = Moved(t, where, woken)
    PROVE  /\ Moves(t, where)
           /\ \A u \in woken : u \in Thread /\ u # t => pc'[u] = Resume(pc[u])
BY DEF TypeOK, Moves, Moved, Location, Condition, Resume

-----------------------------------------------------------------------------
(* Nothing is queued when the last reference goes: it is the reference of a *)
(* worker, which has drained the queue, or that of a client after all the   *)
(* workers, or of a new that has failed.                                    *)
LEMMA LastReference ==
    ASSUME FiniteSetFacts, IInv, NEW t \in Thread, pc[t] = "releasing", refs = 1
    PROVE  ring.count = 0 /\ Queued = {}
<1>1. TypeOK /\ Places /\ Beginning /\ Queue /\ ReferencesAccounted
  BY DEF IInv
<1>2. (\E w \in Worker : Leaving(w)) => ring.count = 0
  BY <1>1 DEF Queue
<1>3. ring.count = 0
  <2>1. CASE t \in Worker
    <3>1. t \in WorkersIn
      BY <2>1 DEF WorkersIn
    <3>2. t \notin Drops
      BY <1>1, <3>1, Summands, SMT
    <3>3. Leaving(t)
      BY <1>1, <2>1, <3>2 DEF Drops, DropsCapture, Leaving, Places, WorkerPlace
    <3>4. QED
      BY <1>2, <2>1, <3>3
  <2>2. CASE t \in Client
    <3>1. t \in ClientsIn
      BY <2>2 DEF ClientsIn
    <3>2. WorkersIn = {}
      BY <1>1, <3>1, Summands, SMT
    <3>3. PICK w \in Worker : TRUE
      BY PoolAssumption
    <3>4. CASE pc[w] = "gone"
      BY <1>2, <3>4 DEF Leaving
    <3>5. CASE pc[w] = "unborn"
      <4>1. \A k \in Task : task[k] = "new"
        BY <1>1, <2>2, <3>5 DEF Beginning
      <4>2. Queued = {}
        <5>1. \A k \in Queued : k \in Task
          BY <1>1, QueuedItems, SMT DEF Queued, TypeOK, Queue
        <5>2. QED
          BY <1>1, <4>1, <5>1 DEF Queue
      <4>3. ring.count \in Nat
        BY <1>1, SMT DEF TypeOK, RingOf
      <4>4. ring.slots[Slot(ring, 0)] \notin Queued
        BY <4>2
      <4>5. ~(0 \in 0 .. ring.count - 1)
        BY <4>4 DEF Queued
      <4>6. QED
        BY <4>3, <4>5, SMT
    <3>6. QED
      BY <3>2, <3>4, <3>5 DEF WorkersIn
  <2>3. QED
    BY <2>1, <2>2 DEF Thread
<1>4. QED
  BY <1>3, SMT DEF Queued

(* new begins: one handle, one reference, no worker yet. *)
LEMMA NewKeeps ==
    ASSUME FiniteSetFacts, IInv, NEW c \in Client, New(c)
    PROVE  IInv'
<1>1. /\ TypeOK /\ Places /\ Beginning /\ Jobs /\ Submissions /\ Queue
      /\ NoSleeperMissesClose /\ ReferencesAccounted
  BY DEF IInv
<1>2. /\ core = "none" /\ core' = "live" /\ refs' = 1 /\ handles' = 1 /\ accepting'
      /\ pc' = [pc EXCEPT ![c] = "building"]
      /\ pc[c] = "absent" /\ handles = 0 /\ refs = 0
      /\ \A d \in Client : pc[d] = "absent" /\ result[d] # "CreationFailed"
      /\ \A w \in Worker : pc[w] = "unborn"
      /\ \A k \in Task : task[k] = "new"
      /\ UNCHANGED <<ring, live, task, job, after, arg, result, muted>>
  BY <1>1, SMT DEF New, Beginning, ReferencesAccounted, TypeOK, coreVars, localVars
<1>3. c \in Thread /\ Steps(c, "building")
  BY <1>1, <1>2, Names DEF TypeOK, Location, Steps, Moves, Condition, Resume
<1>4. Places'
  BY <1>1, <1>2, <1>3, PlacesFrame, Names DEF Steps, Moves, Places, ClientPlace,
     WorkerPlace, Condition, Resume
<1>5. Beginning'
  <2>1. \A d \in Client : d # c => pc'[d] = "absent"
    BY <1>1, <1>2, Names DEF TypeOK
  <2>2. /\ pc'[c] = "building" /\ \A w \in Worker : pc'[w] = "unborn"
        /\ \A d \in Client : result'[d] # "CreationFailed"
    BY <1>1, <1>2, Names DEF TypeOK
  <2>3. QED
    BY <1>2, <2>1, <2>2, SMT DEF Beginning, Early
<1>6. Jobs'
  BY <1>1, <1>2, <1>3, JobsFrame, Names, SMT DEF InTask, Steps, Moves, Places,
     ClientPlace, WorkerPlace, Condition, Resume
<1>7. Submissions'
  BY <1>1, <1>2, <1>3, SubmissionsFrame DEF Submitting, Steps, Moves, Condition,
     Resume
<1>8. Queue'
  BY <1>1, <1>2, <1>3, QueueFrame DEF Queue, Leaving, Steps, Moves, Condition,
     Resume
<1>9. NoSleeperMissesClose'
  <2>1. \A condition \in Condition : Waiters(condition)' = {}
    BY <1>2, <1>3, Names, SMT DEF Waiters, Steps, Moves, Condition, Resume
  <2>2. QED
    BY <2>1 DEF NoSleeperMissesClose, Condition
<1>10. ReferencesAccounted' /\ refs' \in Nat /\ live' \in Nat /\ handles' \in Nat
  <2>1. Weight(c)' + Bit(NULL \in Captured') = Weight(c) + Bit(NULL \in Captured) + 1
    BY <1>1, <1>2, <1>3, Names, SMT DEF Steps, Moves, Places, ClientPlace,
       WorkerPlace, Weight, Bit, ClientsIn, WorkersIn, Drops, DropsCapture,
       Captured
  <2>2. HandleWeight(c)' + Bit(NULL \in Captured') = HandleWeight(c) + Bit(NULL \in Captured) + 1
    BY <1>1, <1>2, <1>3, Names, SMT DEF Steps, Moves, Places, ClientPlace,
       WorkerPlace, HandleWeight, Bit, OwnHandles, CapturedFinal, DropsCapture,
       Captured
  <2>3. Bit(c \in LiveWorkers') = Bit(c \in LiveWorkers) + 0
    BY <1>1, <1>2, <1>3, Names, SMT DEF Steps, Moves, Places, ClientPlace,
       WorkerPlace, LiveWorkers, Bit
  <2>4. \A j \in Task : j # NULL => (j \in Captured' <=> j \in Captured)
    BY <1>1, <1>2 DEF Captured, TypeOK
  <2>5. /\ refs' = refs + 1 /\ live' = live + 0 /\ handles' = handles + 1
        /\ refs \in Int /\ live \in Int /\ handles' \in Int /\ 1 \in Int /\ 0 \in Int /\ 1 \in Int
    BY <1>1, <1>2, SMT DEF TypeOK
  <2>6. \A d \in Client : result'[d] # "CreationFailed" => result[d] # "CreationFailed"
    BY <1>1, <1>2 DEF TypeOK
  <2>7. /\ refs' \in Nat /\ live' \in Nat
        /\ (\A d \in Client : result'[d] # "CreationFailed") => handles' \in Nat
        /\ (core' = "live" <=> refs' > 0) => ReferencesAccounted'
    BY <1>1, <1>3, <2>1, <2>2, <2>3, <2>4, <2>5, <2>6, Tally DEF Steps
  <2>8. core' = "live" <=> refs' > 0
    BY <1>2, SMT
  <2>9. handles' \in Nat
    BY <1>1, <1>2, <2>7 DEF TypeOK
  <2>10. QED
    BY <2>7, <2>8, <2>9
<1>11. TypeOK'
  <2>1. accepting' \in BOOLEAN
    BY Zenon DEF New
  <2>2. QED
    BY <1>1, <1>2, <1>3, <1>10, <2>1 DEF TypeOK, Steps, Moves
<1>12. QED
  BY <1>4, <1>5, <1>6, <1>7, <1>8, <1>9, <1>10, <1>11 DEF IInv

(* new counts a worker, with a reference of its own. *)
LEMMA NewCountsKeeps ==
    ASSUME FiniteSetFacts, IInv, NEW c \in Client, NEW w \in Worker, NewCounts(c, w)
    PROVE  IInv'
<1>1. /\ TypeOK /\ Places /\ Beginning /\ Jobs /\ Submissions /\ Queue
      /\ NoSleeperMissesClose /\ ReferencesAccounted
  BY DEF IInv
<1>2. /\ pc[c] = "building" /\ pc[w] = "unborn" /\ pc' = [pc EXCEPT ![w] = "starting"]
      /\ refs' = refs + 1 /\ live' = live + 1
      /\ UNCHANGED <<core, ring, handles, accepting, task, job, after, arg, result, muted>>
  BY DEF NewCounts, InLoop, coreVars, localVars
<1>3. w \in Thread /\ Steps(w, "starting")
  BY <1>1, <1>2, Names DEF TypeOK, Location, Steps, Moves, Condition, Resume
<1>4. Places'
  BY <1>1, <1>2, <1>3, PlacesFrame, Names DEF Steps, Moves, Places, ClientPlace,
     WorkerPlace, Condition, Resume
<1>5. Beginning'
  <2>1. core # "none"
    BY <1>1, <1>2 DEF Beginning
  <2>2. QED
    BY <1>1, <1>2, <1>3, <2>1, EarlyFrame, Names
<1>6. Jobs'
  BY <1>1, <1>2, <1>3, JobsFrame, Names, SMT DEF InTask, Steps, Moves, Places,
     ClientPlace, WorkerPlace, Condition, Resume
<1>7. Submissions'
  BY <1>1, <1>2, <1>3, SubmissionsFrame DEF Submitting, Steps, Moves, Condition,
     Resume
<1>8. Queue'
  BY <1>1, <1>2, <1>3, QueueFrame, SMT DEF Queue, Leaving, Steps, Moves, Condition,
     Resume
<1>9. NoSleeperMissesClose'
  <2>1. live' > 0
    BY <1>1, <1>2, SMT DEF TypeOK
  <2>2. QED
    BY <1>1, <1>2, <1>3, <2>1, SleepFrame DEF Condition, Resume
<1>10. ReferencesAccounted' /\ refs' \in Nat /\ live' \in Nat /\ handles' \in Nat
  <2>1. Weight(w)' + Bit(NULL \in Captured') = Weight(w) + Bit(NULL \in Captured) + 1
    BY <1>1, <1>2, <1>3, Names, SMT DEF Steps, Moves, Places, ClientPlace,
       WorkerPlace, Weight, Bit, ClientsIn, WorkersIn, Drops, DropsCapture,
       Captured
  <2>2. HandleWeight(w)' + Bit(NULL \in Captured') = HandleWeight(w) + Bit(NULL \in Captured) + 0
    BY <1>1, <1>2, <1>3, Names, SMT DEF Steps, Moves, Places, ClientPlace,
       WorkerPlace, HandleWeight, Bit, OwnHandles, CapturedFinal, DropsCapture,
       Captured
  <2>3. Bit(w \in LiveWorkers') = Bit(w \in LiveWorkers) + 1
    BY <1>1, <1>2, <1>3, Names, SMT DEF Steps, Moves, Places, ClientPlace,
       WorkerPlace, LiveWorkers, Bit
  <2>4. \A j \in Task : j # NULL => (j \in Captured' <=> j \in Captured)
    BY <1>1, <1>2 DEF Captured, TypeOK
  <2>5. /\ refs' = refs + 1 /\ live' = live + 1 /\ handles' = handles + 0
        /\ refs \in Int /\ live \in Int /\ handles' \in Int /\ 1 \in Int /\ 1 \in Int /\ 0 \in Int
    BY <1>1, <1>2, SMT DEF TypeOK
  <2>6. \A d \in Client : result'[d] # "CreationFailed" => result[d] # "CreationFailed"
    BY <1>1, <1>2 DEF TypeOK
  <2>7. /\ refs' \in Nat /\ live' \in Nat
        /\ (\A d \in Client : result'[d] # "CreationFailed") => handles' \in Nat
        /\ (core' = "live" <=> refs' > 0) => ReferencesAccounted'
    BY <1>1, <1>3, <2>1, <2>2, <2>3, <2>4, <2>5, <2>6, Tally, SMT DEF Steps
  <2>8. core' = "live" <=> refs' > 0
    <3>1. core = "live"
      BY <1>1, <1>2, Names, InsideIsLive
    <3>2. QED
      BY <1>1, <1>2, <3>1, SMT DEF TypeOK
  <2>9. handles' \in Nat
    BY <1>1, <1>2, <2>7 DEF TypeOK
  <2>10. QED
    BY <2>7, <2>8, <2>9
<1>11. TypeOK'
  BY <1>1, <1>2, <1>3, <1>10 DEF TypeOK, Steps, Moves
<1>12. QED
  BY <1>4, <1>5, <1>6, <1>7, <1>8, <1>9, <1>10, <1>11 DEF IInv

(* new starts a worker. *)
LEMMA NewWorkerKeeps ==
    ASSUME FiniteSetFacts, IInv, NEW c \in Client, NEW w \in Worker, NewWorker(c, w)
    PROVE  IInv'
<1>1. /\ TypeOK /\ Places /\ Beginning /\ Jobs /\ Submissions /\ Queue
      /\ NoSleeperMissesClose /\ ReferencesAccounted
  BY DEF IInv
<1>2. /\ pc[c] = "building" /\ pc[w] = "starting"
      /\ pc' = [pc EXCEPT ![w] = "looking"]
      /\ UNCHANGED <<core, ring, live, handles, accepting, refs, task, job, after, arg, result, muted>>
  BY DEF NewWorker, InLoop, coreVars, localVars
<1>3. w \in Thread /\ Steps(w, "looking")
  BY <1>1, <1>2, Names DEF TypeOK, Location, Steps, Moves, Condition, Resume
<1>4. Places'
  BY <1>1, <1>2, <1>3, PlacesFrame, Names DEF Steps, Moves, Places, ClientPlace,
     WorkerPlace, Condition, Resume
<1>5. Beginning'
  <2>1. core # "none"
    BY <1>1, <1>2 DEF Beginning
  <2>2. QED
    BY <1>1, <1>2, <1>3, <2>1, EarlyFrame, Names
<1>6. Jobs'
  BY <1>1, <1>2, <1>3, JobsFrame, Names, SMT DEF InTask, Steps, Moves, Places,
     ClientPlace, WorkerPlace, Condition, Resume
<1>7. Submissions'
  BY <1>1, <1>2, <1>3, SubmissionsFrame DEF Submitting, Steps, Moves, Condition,
     Resume
<1>8. Queue'
  BY <1>1, <1>2, <1>3, QueueFrame, SMT DEF Queue, Leaving, Steps, Moves, Condition,
     Resume
<1>9. NoSleeperMissesClose'
  BY <1>1, <1>2, <1>3, SleepFrame DEF Condition, Resume
<1>10. ReferencesAccounted'
  <2>1. /\ Weight(w)' = Weight(w) /\ HandleWeight(w)' = HandleWeight(w)
        /\ w \in LiveWorkers' <=> w \in LiveWorkers
    BY <1>1, <1>2, <1>3, Names DEF Steps, Moves, Condition, Resume, Places,
       ClientPlace, WorkerPlace, Weight, HandleWeight, Bit, ClientsIn, WorkersIn,
       Drops, LiveWorkers, OwnHandles, CapturedFinal, DropsCapture
  <2>2. \A k \in Task : k \in Captured' <=> k \in Captured
    BY <1>2 DEF Captured
  <2>3. QED
    BY <1>1, <1>2, <1>3, <2>1, <2>2, CountsFrame DEF Steps
<1>11. TypeOK'
  BY <1>1, <1>2, <1>3, <1>10 DEF TypeOK, Steps, Moves
<1>12. QED
  BY <1>4, <1>5, <1>6, <1>7, <1>8, <1>9, <1>10, <1>11 DEF IInv

(* new cannot start the worker and takes back what it has counted for it.   *)
LEMMA NewWorkerFailsKeeps ==
    ASSUME FiniteSetFacts, IInv, NEW c \in Client, NEW w \in Worker, NewWorkerFails(c, w)
    PROVE  IInv'
<1>1. /\ TypeOK /\ Places /\ Beginning /\ Jobs /\ Submissions /\ Queue
      /\ NoSleeperMissesClose /\ ReferencesAccounted
  BY DEF IInv
<1>2. /\ pc[c] = "building" /\ pc[w] = "starting" /\ pc' = [pc EXCEPT ![w] = "unborn"]
      /\ result[c] # "CreationFailed" /\ result' = [result EXCEPT ![c] = "CreationFailed"]
      /\ refs' = refs - 1 /\ live' = live - 1
      /\ UNCHANGED <<core, ring, handles, accepting, task, job, after, arg, muted>>
  BY DEF NewWorkerFails, InLoop
<1>3. w \in Thread /\ Steps(w, "unborn")
  BY <1>1, <1>2, Names DEF TypeOK, Location, Steps, Moves, Condition, Resume
<1>4. Places'
  BY <1>1, <1>2, <1>3, PlacesFrame, Names DEF Steps, Moves, Places, ClientPlace,
     WorkerPlace, Condition, Resume
<1>5. core # "none" /\ Early(c)
  BY <1>1, <1>2 DEF Beginning, Early
<1>6. /\ \A d \in Client : d # c => pc[d] = "absent" /\ ~Early(d)
      /\ \A v \in Worker :
               pc[v] \in {"unborn", "starting", "looking", "not_empty", "releasing", "gone"}
      /\ \A k \in Task : task[k] = "new"
  BY <1>1, <1>5 DEF Beginning
<1>7. Beginning'
  <2>1. /\ \A d \in Client : pc'[d] = pc[d] /\ (d # c => result'[d] = result[d])
        /\ result'[c] = "CreationFailed"
    BY <1>1, <1>2, Names DEF TypeOK
  <2>2. \A v \in Worker :
           pc'[v] \in {"unborn", "starting", "looking", "not_empty", "releasing", "gone"}
    BY <1>1, <1>2, <1>6, Names DEF TypeOK
  <2>3. Early(c)' /\ \A d \in Client : d # c => ~Early(d)' /\ pc'[d] = "absent"
    BY <1>6, <2>1 DEF Early
  <2>4. \A d \in Client : result'[d] = "CreationFailed" => pc'[d] = "building"
    BY <1>2, <1>6, <2>1 DEF Early
  <2>5. \A d \in Client : pc'[d] \notin {"stopping", "restopping", "stopped"}
    BY <1>2, <1>6, <2>1
  <2>6. core' # "none" /\ (\A k \in Task : task'[k] = "new")
    BY <1>2, <1>5, <1>6
  <2>7. \A b \in Client : Early(b)' =>
           /\ \A d \in Client : d # b => pc'[d] = "absent" /\ ~Early(d)'
           /\ \A v \in Worker :
                 pc'[v] \in {"unborn", "starting", "looking", "not_empty", "releasing", "gone"}
           /\ \A k \in Task : task'[k] = "new"
    BY <2>2, <2>3, <2>6
  <2>8. QED
    BY <2>3, <2>4, <2>5, <2>6, <2>7 DEF Beginning
<1>8. Jobs'
  BY <1>1, <1>2, <1>3, JobsFrame, Names, SMT DEF InTask, Steps, Moves, Places,
     ClientPlace, WorkerPlace, Condition, Resume
<1>9. Submissions'
  BY <1>1, <1>2, <1>3, SubmissionsFrame DEF Submitting, Steps, Moves, Condition,
     Resume
<1>10. Queue'
  BY <1>1, <1>2, <1>3, QueueFrame, SMT DEF Queue, Leaving, Steps, Moves, Condition,
     Resume
<1>11. NoSleeperMissesClose'
  <2>1. Waiters("stopped")' = {}
    <3>1. \A d \in Client : pc'[d] # "stopped"
      BY <1>1, <1>2, <1>6, Names DEF TypeOK
    <3>2. \A v \in Worker : pc'[v] # "stopped"
      BY <1>1, <1>2, <1>6, Names DEF TypeOK
    <3>3. QED
      BY <3>1, <3>2 DEF Waiters, Thread
  <2>2. Waiters("not_empty")' \subseteq Waiters("not_empty") /\ Waiters("not_full")' \subseteq Waiters("not_full")
    BY <1>1, <1>2, <1>3 DEF Waiters, TypeOK
  <2>3. QED
    BY <1>1, <1>2, <2>1, <2>2 DEF NoSleeperMissesClose
<1>12. ReferencesAccounted' /\ refs' \in Nat /\ live' \in Nat /\ handles' \in Nat
  <2>1. Weight(w)' + Bit(NULL \in Captured') = Weight(w) + Bit(NULL \in Captured) + (-1)
    BY <1>1, <1>2, <1>3, Names, SMT DEF Steps, Moves, Places, ClientPlace,
       WorkerPlace, Weight, Bit, ClientsIn, WorkersIn, Drops, DropsCapture,
       Captured
  <2>2. HandleWeight(w)' + Bit(NULL \in Captured') = HandleWeight(w) + Bit(NULL \in Captured) + 0
    BY <1>1, <1>2, <1>3, Names, SMT DEF Steps, Moves, Places, ClientPlace,
       WorkerPlace, HandleWeight, Bit, OwnHandles, CapturedFinal, DropsCapture,
       Captured
  <2>3. Bit(w \in LiveWorkers') = Bit(w \in LiveWorkers) + (-1)
    BY <1>1, <1>2, <1>3, Names, SMT DEF Steps, Moves, Places, ClientPlace,
       WorkerPlace, LiveWorkers, Bit
  <2>4. \A j \in Task : j # NULL => (j \in Captured' <=> j \in Captured)
    BY <1>1, <1>2 DEF Captured, TypeOK
  <2>5. /\ refs' = refs + (-1) /\ live' = live + (-1) /\ handles' = handles + 0
        /\ refs \in Int /\ live \in Int /\ handles' \in Int /\ (-1) \in Int /\ 0 \in Int
    BY <1>1, <1>2, SMT DEF TypeOK
  <2>6. ~(\A d \in Client : result'[d] # "CreationFailed")
    BY <1>1, <1>2 DEF TypeOK
  <2>7. /\ refs' \in Nat /\ live' \in Nat
        /\ (\A d \in Client : result'[d] # "CreationFailed") => handles' \in Nat
        /\ (core' = "live" <=> refs' > 0) => ReferencesAccounted'
    BY <1>1, <1>3, <2>1, <2>2, <2>3, <2>4, <2>5, <2>6, Tally, SMT DEF Steps
  <2>8. core' = "live" <=> refs' > 0
    <3>1. core = "live"
      BY <1>1, <1>2, <1>3, InsideIsLive
    <3>2. c \in ClientsIn /\ w \in WorkersIn
      BY <1>2 DEF ClientsIn, WorkersIn
    <3>3. Cardinality(ClientsIn) > 0 /\ Cardinality(WorkersIn) > 0
      BY <1>1, <3>2, Summands
    <3>4. refs > 1
      BY <1>1, <3>3, Summands, SMT
    <3>5. QED
      BY <1>1, <1>2, <3>1, <3>4, SMT DEF TypeOK
  <2>9. handles' \in Nat
    BY <1>1, <1>2 DEF TypeOK
  <2>10. QED
    BY <2>7, <2>8, <2>9
<1>13. TypeOK'
  BY <1>1, <1>2, <1>3, <1>12 DEF TypeOK, Steps, Moves
<1>14. QED
  BY <1>4, <1>7, <1>8, <1>9, <1>10, <1>11, <1>12, <1>13 DEF IInv

(* new has given up: it closes the pool and waits for the workers it has    *)
(* started.                                                                 *)
LEMMA NewClosesKeeps ==
    ASSUME FiniteSetFacts, IInv, NEW c \in Client, NewCloses(c)
    PROVE  IInv'
<1>1. /\ TypeOK /\ Places /\ Beginning /\ Jobs /\ Submissions /\ Queue
      /\ NoSleeperMissesClose /\ ReferencesAccounted
  BY DEF IInv
<1>2. /\ pc[c] = "building" /\ result[c] = "CreationFailed" /\ accepting' = FALSE
      /\ pc' = Moved(c, "stopping", Waiters("not_empty") \cup Waiters("not_full"))
      /\ after' = [after EXCEPT ![c] = "absent"]
      /\ UNCHANGED <<core, ring, live, handles, refs, task, job, arg, result, muted>>
  BY DEF NewCloses, BroadcastWakes, coreVars, localVars
<1>3. c \in Thread /\ Steps(c, "stopping")
  <2>1. \A u \in Waiters("not_empty") \cup Waiters("not_full") : pc[u] \in Condition
    BY DEF Waiters, Condition
  <2>2. c \in Thread /\ Moves(c, "stopping")
    BY <1>1, <1>2, <2>1, MovedMoves, Names DEF Location
  <2>3. QED
    BY <1>1, <1>2, <2>2 DEF TypeOK, Steps
<1>4. Places'
  BY <1>1, <1>2, <1>3, PlacesFrame, Names, ZenonT(30) DEF Steps, Moves, Places, ClientPlace,
     WorkerPlace, Condition, Resume
<1>5. Beginning'
  <2>1. Early(c) /\ core # "none" /\ pc'[c] = "stopping"
    BY <1>1, <1>2, <1>3 DEF Early, Beginning, Steps, Moves
  <2>2. /\ \A d \in Client : d # c => pc[d] = "absent" /\ ~Early(d)
        /\ \A w \in Worker :
               pc[w] \in {"unborn", "starting", "looking", "not_empty", "releasing", "gone"}
        /\ \A k \in Task : task[k] = "new"
    BY <1>1, <2>1 DEF Beginning
  <2>3. \A d \in Client : d # c => pc'[d] = "absent" /\ result'[d] = result[d]
    <3>1. \A d \in Client : d # c => pc'[d] = "absent"
      BY <1>3, <2>2, Names, SMT DEF Steps, Moves, Condition, Resume
    <3>2. \A d \in Client : d # c => result'[d] = result[d]
      BY <1>1, <1>2 DEF TypeOK
    <3>3. QED
      BY <3>1, <3>2
  <2>4. \A d \in Client : d # c => ~Early(d)' /\ result'[d] # "CreationFailed"
    BY <2>2, <2>3 DEF Early
  <2>5. \A w \in Worker :
               pc'[w] \in {"unborn", "starting", "looking", "not_empty", "releasing", "gone"}
    BY <1>3, <2>2, Names, SMT DEF Steps, Moves, Condition, Resume
  <2>6. result'[c] = "CreationFailed" /\ after'[c] = "absent"
    BY <1>1, <1>2, Names DEF TypeOK
  <2>7. core' # "none" /\ ~accepting' /\ \A k \in Task : task'[k] = "new"
    BY <1>2, <2>1, <2>2
  <2>8. Early(c)' /\ \A d \in Client : Early(d)' => d = c
    BY <2>4, <2>6 DEF Early
  <2>9. \A d \in Client : result'[d] = "CreationFailed" => d = c
    BY <2>4
  <2>10. \A d \in Client : pc'[d] # "absent" => d = c
    BY <2>3
  <2>11. QED
    BY <2>1, <2>3, <2>4, <2>5, <2>6, <2>7, <2>8, <2>9, <2>10 DEF Beginning
<1>6. Jobs'
  BY <1>1, <1>2, <1>3, JobsFrame, Names DEF InTask, Steps, Moves, Places,
     ClientPlace, WorkerPlace, Condition, Resume
<1>7. Submissions'
  BY <1>1, <1>2, <1>3, SubmissionsFrame DEF Submitting, Steps, Moves, Condition,
     Resume
<1>8. Queue'
  <2>1. c \notin Worker /\ ~accepting' /\ ring' = ring /\ task' = task
    BY <1>2, Names
  <2>2. QED
    BY <1>1, <1>3, <2>1, QueueFrame DEF Queue
<1>9. NoSleeperMissesClose'
  <2>1. Waiters("not_empty")' = {} /\ Waiters("not_full")' = {}
    BY <1>2 DEF Waiters, Moved, Resume
  <2>2. Waiters("stopped")' \subseteq Waiters("stopped")
    BY <1>2 DEF Waiters, Moved, Resume
  <2>3. QED
    BY <1>1, <1>2, <2>1, <2>2 DEF NoSleeperMissesClose
<1>10. ReferencesAccounted'
  <2>1. /\ Weight(c)' = Weight(c) /\ HandleWeight(c)' = HandleWeight(c)
        /\ c \in LiveWorkers' <=> c \in LiveWorkers
    BY <1>1, <1>2, <1>3, Names DEF Steps, Moves, Condition, Resume, Places,
       ClientPlace, WorkerPlace, Weight, HandleWeight, Bit, ClientsIn, WorkersIn,
       Drops, LiveWorkers, OwnHandles, CapturedFinal, DropsCapture
  <2>2. Captured' = Captured
    BY <1>2 DEF Captured
  <2>3. QED
    BY <1>1, <1>2, <1>3, <2>1, <2>2, CountsFrame DEF Steps, TypeOK
<1>11. TypeOK'
  <2>1. accepting' \in BOOLEAN
    BY Zenon DEF NewCloses
  <2>2. QED
    BY <1>1, <1>2, <1>3, <1>10, <2>1 DEF TypeOK, Steps, Moves
<1>12. QED
  BY <1>4, <1>5, <1>6, <1>7, <1>8, <1>9, <1>10, <1>11 DEF IInv

(* new returns with every worker started. *)
LEMMA NewReturnsKeeps ==
    ASSUME FiniteSetFacts, IInv, NEW c \in Client, NewReturns(c)
    PROVE  IInv'
<1>1. /\ TypeOK /\ Places /\ Beginning /\ Jobs /\ Submissions /\ Queue
      /\ NoSleeperMissesClose /\ ReferencesAccounted
  BY DEF IInv
<1>2. /\ pc[c] = "building" /\ result[c] # "CreationFailed"
      /\ \A w \in Worker : pc[w] # "unborn"
      /\ pc' = [pc EXCEPT ![c] = "idle"]
      /\ UNCHANGED <<core, ring, live, handles, accepting, refs, task, job, after, arg, result, muted>>
  BY DEF NewReturns, InLoop, coreVars, localVars
<1>3. c \in Thread /\ Steps(c, "idle")
  BY <1>1, <1>2, Names DEF TypeOK, Location, Steps, Moves, Condition, Resume
<1>4. Places'
  BY <1>1, <1>2, <1>3, PlacesFrame, Names DEF Steps, Moves, Places, ClientPlace,
     WorkerPlace, Condition, Resume
<1>5. Beginning'
  <2>1. Early(c) /\ result[c] # "CreationFailed" /\ core # "none"
    BY <1>1, <1>2 DEF Early, Beginning
  <2>2. \A d \in Client : d # c => ~Early(d) /\ pc[d] = "absent"
    BY <1>1, <2>1 DEF Beginning
  <2>3. \A d \in Client : /\ d # c => pc'[d] = "absent"
                          /\ ~Early(d)' /\ result'[d] # "CreationFailed"
    BY <1>1, <1>2, <2>1, <2>2, Names DEF Early, TypeOK
  <2>4. pc'[c] = "idle" /\ \A w \in Worker : pc'[w] # "unborn"
    BY <1>1, <1>2, Names DEF TypeOK
  <2>5. QED
    BY <1>2, <2>1, <2>3, <2>4 DEF Beginning
<1>6. Jobs'
  BY <1>1, <1>2, <1>3, JobsFrame, Names, SMT DEF InTask, Steps, Moves, Places,
     ClientPlace, WorkerPlace, Condition, Resume
<1>7. Submissions'
  BY <1>1, <1>2, <1>3, SubmissionsFrame DEF Submitting, Steps, Moves, Condition,
     Resume
<1>8. Queue'
  BY <1>1, <1>2, <1>3, QueueFrame, SMT DEF Queue, Leaving, Steps, Moves, Condition,
     Resume
<1>9. NoSleeperMissesClose'
  BY <1>1, <1>2, <1>3, SleepFrame DEF Condition, Resume
<1>10. ReferencesAccounted'
  <2>1. /\ Weight(c)' = Weight(c) /\ HandleWeight(c)' = HandleWeight(c)
        /\ c \in LiveWorkers' <=> c \in LiveWorkers
    BY <1>1, <1>2, <1>3, Names DEF Steps, Moves, Condition, Resume, Places,
       ClientPlace, WorkerPlace, Weight, HandleWeight, Bit, ClientsIn, WorkersIn,
       Drops, LiveWorkers, OwnHandles, CapturedFinal, DropsCapture
  <2>2. \A k \in Task : k \in Captured' <=> k \in Captured
    BY <1>2 DEF Captured
  <2>3. QED
    BY <1>1, <1>2, <1>3, <2>1, <2>2, CountsFrame DEF Steps
<1>11. TypeOK'
  BY <1>1, <1>2, <1>3, <1>10 DEF TypeOK, Steps, Moves
<1>12. QED
  BY <1>4, <1>5, <1>6, <1>7, <1>8, <1>9, <1>10, <1>11 DEF IInv

(* A new handle, with a reference of its own, for a client that has none. *)
LEMMA ShareKeeps ==
    ASSUME FiniteSetFacts, IInv, NEW t \in Thread, NEW c \in Client, Share(t, c)
    PROVE  IInv'
<1>1. /\ TypeOK /\ Places /\ Beginning /\ Jobs /\ Submissions /\ Queue
      /\ NoSleeperMissesClose /\ ReferencesAccounted
  BY DEF IInv
<1>2. /\ pc[t] \in {"idle", "running"} /\ pc[c] = "absent" /\ pc' = [pc EXCEPT ![c] = "idle"]
      /\ refs' = refs + 1 /\ handles' = handles + 1
      /\ UNCHANGED <<core, ring, live, accepting, task, job, after, arg, result, muted>>
  BY DEF Share, HasHandle, Home, coreVars, localVars
<1>3. c \in Thread /\ Steps(c, "idle")
  BY <1>1, <1>2, Names DEF TypeOK, Location, Steps, Moves, Condition, Resume
<1>4. Places'
  BY <1>1, <1>2, <1>3, PlacesFrame, Names DEF Steps, Moves, Places, ClientPlace,
     WorkerPlace, Condition, Resume
<1>5. Beginning'
  <2>1. core # "none" /\ \A d \in Client : ~Early(d)
    BY <1>1, <1>2, <1>3, NotEarly
  <2>2. \A d \in Client : ~Early(d)'
    BY <1>2, <1>3, <2>1, Names DEF Early, Steps, Moves, Condition, Resume
  <2>3. QED
    BY <1>1, <1>2, <1>3, <2>1, <2>2, InUseFrame DEF Steps, Moves
<1>6. Jobs'
  BY <1>1, <1>2, <1>3, JobsFrame, Names, SMT DEF InTask, Steps, Moves, Places,
     ClientPlace, WorkerPlace, Condition, Resume
<1>7. Submissions'
  BY <1>1, <1>2, <1>3, SubmissionsFrame DEF Submitting, Steps, Moves, Condition,
     Resume
<1>8. Queue'
  BY <1>1, <1>2, <1>3, QueueFrame, SMT DEF Queue, Leaving, Steps, Moves, Condition,
     Resume
<1>9. NoSleeperMissesClose'
  BY <1>1, <1>2, <1>3, SleepFrame DEF Condition, Resume
<1>10. ReferencesAccounted' /\ refs' \in Nat /\ live' \in Nat /\ handles' \in Nat
  <2>1. Weight(c)' + Bit(NULL \in Captured') = Weight(c) + Bit(NULL \in Captured) + 1
    BY <1>1, <1>2, <1>3, Names, SMT DEF Steps, Moves, Places, ClientPlace,
       WorkerPlace, Weight, Bit, ClientsIn, WorkersIn, Drops, DropsCapture,
       Captured
  <2>2. HandleWeight(c)' + Bit(NULL \in Captured') = HandleWeight(c) + Bit(NULL \in Captured) + 1
    BY <1>1, <1>2, <1>3, Names, SMT DEF Steps, Moves, Places, ClientPlace,
       WorkerPlace, HandleWeight, Bit, OwnHandles, CapturedFinal, DropsCapture,
       Captured
  <2>3. Bit(c \in LiveWorkers') = Bit(c \in LiveWorkers) + 0
    BY <1>1, <1>2, <1>3, Names, SMT DEF Steps, Moves, Places, ClientPlace,
       WorkerPlace, LiveWorkers, Bit
  <2>4. \A j \in Task : j # NULL => (j \in Captured' <=> j \in Captured)
    BY <1>1, <1>2 DEF Captured, TypeOK
  <2>5. /\ refs' = refs + 1 /\ live' = live + 0 /\ handles' = handles + 1
        /\ refs \in Int /\ live \in Int /\ handles' \in Int /\ 1 \in Int /\ 0 \in Int /\ 1 \in Int
    BY <1>1, <1>2, SMT DEF TypeOK
  <2>6. \A d \in Client : result'[d] # "CreationFailed" => result[d] # "CreationFailed"
    BY <1>1, <1>2 DEF TypeOK
  <2>7. /\ refs' \in Nat /\ live' \in Nat
        /\ (\A d \in Client : result'[d] # "CreationFailed") => handles' \in Nat
        /\ (core' = "live" <=> refs' > 0) => ReferencesAccounted'
    BY <1>1, <1>3, <2>1, <2>2, <2>3, <2>4, <2>5, <2>6, Tally, SMT DEF Steps
  <2>8. core' = "live" <=> refs' > 0
    <3>1. core = "live"
      BY <1>1, <1>2, Names, InsideIsLive
    <3>2. QED
      BY <1>1, <1>2, <3>1, SMT DEF TypeOK
  <2>9. handles' \in Nat
    BY <1>1, <1>2, <2>7, SMT DEF TypeOK
  <2>10. QED
    BY <2>7, <2>8, <2>9
<1>11. TypeOK'
  BY <1>1, <1>2, <1>3, <1>10 DEF TypeOK, Steps, Moves
<1>12. QED
  BY <1>4, <1>5, <1>6, <1>7, <1>8, <1>9, <1>10, <1>11 DEF IInv

(* A client lets its handle go. *)
LEMMA DropHandleKeeps ==
    ASSUME FiniteSetFacts, IInv, NEW c \in Client, DropHandle(c)
    PROVE  IInv'
<1>1. /\ TypeOK /\ Places /\ Beginning /\ Jobs /\ Submissions /\ Queue
      /\ NoSleeperMissesClose /\ ReferencesAccounted
  BY DEF IInv
<1>2. /\ pc[c] = "idle" /\ pc' = [pc EXCEPT ![c] = "finalizing"]
      /\ after' = [after EXCEPT ![c] = "absent"]
      /\ UNCHANGED <<core, ring, live, handles, accepting, refs, task, job, arg, result, muted>>
  BY DEF DropHandle, coreVars, localVars
<1>3. c \in Thread /\ Steps(c, "finalizing")
  BY <1>1, <1>2, Names DEF TypeOK, Location, Steps, Moves, Condition, Resume
<1>4. Places'
  BY <1>1, <1>2, <1>3, PlacesFrame, Names DEF Steps, Moves, Places, ClientPlace,
     WorkerPlace, Condition, Resume
<1>5. Beginning'
  <2>1. core # "none" /\ \A d \in Client : ~Early(d)
    BY <1>1, <1>2, <1>3, NotEarly
  <2>2. \A d \in Client : ~Early(d)'
    BY <1>2, <1>3, <2>1, Names DEF Early, Steps, Moves, Condition, Resume
  <2>3. QED
    BY <1>1, <1>2, <1>3, <2>1, <2>2, InUseFrame DEF Steps, Moves
<1>6. Jobs'
  BY <1>1, <1>2, <1>3, JobsFrame, Names, SMT DEF InTask, Steps, Moves, Places,
     ClientPlace, WorkerPlace, Condition, Resume
<1>7. Submissions'
  BY <1>1, <1>2, <1>3, SubmissionsFrame DEF Submitting, Steps, Moves, Condition,
     Resume
<1>8. Queue'
  BY <1>1, <1>2, <1>3, QueueFrame, SMT DEF Queue, Leaving, Steps, Moves, Condition,
     Resume
<1>9. NoSleeperMissesClose'
  BY <1>1, <1>2, <1>3, SleepFrame DEF Condition, Resume
<1>10. ReferencesAccounted'
  <2>1. /\ Weight(c)' = Weight(c) /\ HandleWeight(c)' = HandleWeight(c)
        /\ c \in LiveWorkers' <=> c \in LiveWorkers
    BY <1>1, <1>2, <1>3, Names DEF Steps, Moves, Condition, Resume, Places,
       ClientPlace, WorkerPlace, Weight, HandleWeight, Bit, ClientsIn, WorkersIn,
       Drops, LiveWorkers, OwnHandles, CapturedFinal, DropsCapture
  <2>2. \A k \in Task : k \in Captured' <=> k \in Captured
    BY <1>2 DEF Captured
  <2>3. QED
    BY <1>1, <1>2, <1>3, <2>1, <2>2, CountsFrame DEF Steps
<1>11. TypeOK'
  BY <1>1, <1>2, <1>3, <1>10 DEF TypeOK, Steps, Moves
<1>12. QED
  BY <1>4, <1>5, <1>6, <1>7, <1>8, <1>9, <1>10, <1>11 DEF IInv

(* A handle is finalized; the last one closes the pool and wakes everybody. *)
LEMMA FinalizeKeeps ==
    ASSUME FiniteSetFacts, IInv, NEW t \in Thread, Finalize(t)
    PROVE  IInv'
<1>1. /\ TypeOK /\ Places /\ Beginning /\ Jobs /\ Submissions /\ Queue
      /\ NoSleeperMissesClose /\ ReferencesAccounted
  BY DEF IInv
<1>2. /\ pc[t] = "finalizing" /\ handles' = handles - 1
      /\ accepting' => accepting
      /\ handles # 1 => accepting' = accepting
      /\ pc' = Moved(t, "releasing", IF handles = 1 THEN Waiters("not_empty") \cup Waiters("not_full") ELSE {})
      /\ UNCHANGED <<core, ring, live, refs, task, job, after, arg, result, muted>>
  <2>1. (accepting' => accepting) /\ (handles # 1 => accepting' = accepting)
    BY <1>1 DEF Finalize, TypeOK
  <2>2. QED
    BY <2>1 DEF Finalize, localVars
<1>3. t \in Thread /\ Steps(t, "releasing")
  <2>1. \A u \in (IF handles = 1 THEN Waiters("not_empty") \cup Waiters("not_full") ELSE {}) : pc[u] \in Condition
    BY DEF Waiters, Condition
  <2>2. t \in Thread /\ Moves(t, "releasing")
    BY <1>1, <1>2, <2>1, MovedMoves, Names, SMTT(30) DEF Location
  <2>3. QED
    BY <1>1, <1>2, <2>2 DEF TypeOK, Steps
<1>4. Places'
  BY <1>1, <1>2, <1>3, PlacesFrame, Names, ZenonT(30) DEF Steps, Moves, Places, ClientPlace,
     WorkerPlace, Condition, Resume
<1>5. Beginning'
  <2>1. core # "none" /\ \A c \in Client : ~Early(c)
    BY <1>1, <1>2, <1>3, NotEarly
  <2>2. \A c \in Client : ~Early(c)'
    BY <1>2, <1>3, <2>1, Names, ZenonT(30) DEF Early, Steps, Moves, Condition, Resume
  <2>3. QED
    BY <1>1, <1>2, <1>3, <2>1, <2>2, InUseFrame DEF Steps, Moves
<1>6. Jobs'
  BY <1>1, <1>2, <1>3, JobsFrame, Names, ZenonT(30) DEF InTask, Steps, Moves, Places,
     ClientPlace, WorkerPlace, Condition, Resume
<1>7. Submissions'
  BY <1>1, <1>2, <1>3, SubmissionsFrame DEF Submitting, Steps, Moves, Condition,
     Resume
<1>8. Queue'
  <2>1. UNCHANGED <<ring, task>> /\ (accepting' => accepting)
    BY <1>2
  <2>2. t \in Worker => ~Leaving(t)'
    BY <1>1, <1>2, <1>3 DEF Leaving, Steps, Moves, Places, ClientPlace, WorkerPlace
  <2>3. QED
    BY <1>1, <1>3, <2>1, <2>2, QueueFrame DEF Queue
<1>9. NoSleeperMissesClose'
  <2>1. CASE handles = 1
    <3>1. /\ Waiters("not_empty")' = {} /\ Waiters("not_full")' = {}
          /\ Waiters("stopped")' \subseteq Waiters("stopped")
      BY <1>2, <2>1 DEF Waiters, Moved, Resume
    <3>2. QED
      BY <1>1, <1>2, <3>1 DEF NoSleeperMissesClose
  <2>2. CASE handles # 1
    BY <1>1, <1>2, <1>3, <2>2, SleepFrame DEF Condition, Resume
  <2>3. QED
    BY <2>1, <2>2
<1>10. ReferencesAccounted' /\ refs' \in Nat /\ live' \in Nat /\ handles' \in Nat
  <2>0. /\ pc[t] = "finalizing" /\ pc'[t] = "releasing" /\ after'[t] = after[t] /\ task' = task
        /\ t \in Client => after[t] \in {"idle", "absent"}
        /\ t \in Worker => after[t] \in {"looking", "running"}
    BY <1>1, <1>2, <1>3 DEF Steps, Moves, Places, ClientPlace, WorkerPlace
  <2>1. Weight(t)' + Bit(NULL \in Captured') = Weight(t) + Bit(NULL \in Captured) + 0
    BY <2>0, Names, SMT DEF Weight, Bit, ClientsIn, WorkersIn, Drops, DropsCapture, Captured
  <2>2. HandleWeight(t)' + Bit(NULL \in Captured') = HandleWeight(t) + Bit(NULL \in Captured) + (-1)
    BY <2>0, Names, SMT DEF HandleWeight, Bit, OwnHandles, CapturedFinal, DropsCapture, Captured
  <2>3. Bit(t \in LiveWorkers') = Bit(t \in LiveWorkers) + 0
    BY <2>0, Names, SMT DEF LiveWorkers, Bit
  <2>4. \A j \in Task : j # NULL => (j \in Captured' <=> j \in Captured)
    BY <1>1, <1>2 DEF Captured, TypeOK
  <2>5. /\ refs' = refs + 0 /\ live' = live + 0 /\ handles' = handles + (-1)
        /\ refs \in Int /\ live \in Int /\ handles' \in Int /\ 0 \in Int /\ 0 \in Int /\ (-1) \in Int
    BY <1>1, <1>2, SMT DEF TypeOK
  <2>6. \A c \in Client : result'[c] # "CreationFailed" => result[c] # "CreationFailed"
    BY <1>2
  <2>7. /\ refs' \in Nat /\ live' \in Nat
        /\ (\A c \in Client : result'[c] # "CreationFailed") => handles' \in Nat
        /\ (core' = "live" <=> refs' > 0) => ReferencesAccounted'
    BY <1>1, <1>3, <2>1, <2>2, <2>3, <2>4, <2>5, <2>6, Tally DEF Steps
  <2>8. core' = "live" <=> refs' > 0
    BY <1>1, <1>2 DEF ReferencesAccounted
  <2>9. handles' \in Nat
    BY <1>1, <1>2, <2>7, NotEarly DEF Early
  <2>10. QED
    BY <2>7, <2>8, <2>9
<1>11. TypeOK'
  <2>1. accepting' \in BOOLEAN
    BY Zenon DEF Finalize
  <2>2. QED
    BY <1>1, <1>2, <1>3, <1>10, <2>1 DEF TypeOK, Steps, Moves
<1>12. QED
  BY <1>4, <1>5, <1>6, <1>7, <1>8, <1>9, <1>10, <1>11 DEF IInv

-----------------------------------------------------------------------------
(* Signals: NoTaskOverlooked is inductive next to IInv.                     *)

Looking == {w \in Worker : pc[w] = "looking"}

LEMMA LookingFinite ==
    ASSUME FiniteSetFacts
    PROVE  IsFiniteSet(Looking) /\ IsFiniteSet(Looking')
<1>1. Looking \subseteq Worker /\ Looking' \subseteq Worker
  BY DEF Looking
<1>2. QED
  BY <1>1, PoolAssumption DEF FiniteSetFacts

(* No worker stops looking, none goes to sleep and no task is added. *)
Attends ==
    /\ ring' = ring /\ (muted => muted')
    /\ \E t \in Thread, where \in Location \ {"not_empty"} : Moves(t, where) /\ pc[t] # "looking"

LEMMA AttendsMoved ==
    ASSUME TypeOK, NEW t \in Thread, NEW where \in Location \ {"not_empty"}, NEW woken,
           \A u \in woken : pc[u] \in Condition, pc' = Moved(t, where, woken),
           pc[t] # "looking", ring' = ring, muted => muted'
    PROVE  Attends
BY MovedMoves DEF Attends

LEMMA AttendsAlone ==
    ASSUME TypeOK, NEW t \in Thread, NEW where \in Location \ {"not_empty"},
           pc' = [pc EXCEPT ![t] = where],
           pc[t] # "looking", ring' = ring, muted' = muted
    PROVE  Attends
<1>1. Moves(t, where)
  BY DEF TypeOK, Moves
<1>2. QED
  BY <1>1 DEF Attends

LEMMA AttendsKeeps ==
    ASSUME FiniteSetFacts, FiniteSetOrder, NoTaskOverlooked, TypeOK, Attends
    PROVE  NoTaskOverlooked'
<1>1. PICK t \in Thread, where \in Location \ {"not_empty"} : Moves(t, where) /\ pc[t] # "looking"
  BY DEF Attends
<1>2. Waiters("not_empty")' \subseteq Waiters("not_empty")
  BY <1>1 DEF Moves, Waiters, Condition, Resume
<1>3. Looking \subseteq Looking'
  BY <1>1, Names DEF Looking, Moves, Condition, Resume
<1>4. Cardinality(Looking) =< Cardinality(Looking')
  BY <1>3, LookingFinite DEF FiniteSetOrder
<1>5. Cardinality(Looking) \in Nat /\ Cardinality(Looking') \in Nat
  BY LookingFinite DEF FiniteSetFacts
<1>6. ring'.count = ring.count /\ ring.count \in Nat /\ (muted => muted')
  BY SMT DEF Attends, TypeOK, RingOf
<1>7. ~muted /\ Waiters("not_empty") # {} => Cardinality(Looking) >= ring.count
  BY DEF NoTaskOverlooked, Looking
<1>8. ~muted' /\ Waiters("not_empty")' # {} => Cardinality(Looking') >= ring'.count
  BY <1>2, <1>4, <1>5, <1>6, <1>7, SMT
<1>9. QED
  BY <1>8 DEF NoTaskOverlooked, Looking

(* An empty queue. *)
LEMMA EmptyAttended ==
    ASSUME FiniteSetFacts, ring'.count = 0
    PROVE  NoTaskOverlooked'
<1>1. Cardinality(Looking') \in Nat
  BY LookingFinite DEF FiniteSetFacts
<1>2. Cardinality(Looking') >= ring'.count
  BY <1>1, SMT
<1>3. QED
  BY <1>2 DEF NoTaskOverlooked, Looking

(* A worker that stops looking takes one task with it. *)
LEMMA TakeAttended ==
    ASSUME FiniteSetFacts, FiniteSetOrder, IInv, NoTaskOverlooked, NEW w \in Worker, WorkerTake(w)
    PROVE  NoTaskOverlooked'
<1>1. TypeOK /\ WellFormed(ring) /\ ring \in RingOf(Task)
  BY DEF IInv, Queue, TypeOK
<1>2. ring.count \in Nat /\ ring.count > 0 /\ ring'.count = ring.count - 1
  <2>1. ring.count \in Nat /\ ring.count > 0 /\ ring' = Take(ring)
    BY <1>1, SMT DEF WorkerTake, RingOf
  <2>2. QED
    BY <1>1, <2>1, TakeReads
<1>3. Moves(w, "running") /\ pc[w] = "looking" /\ muted' = muted
  <2>1. PICK woken \in SignalWakes("not_full", TRUE) : pc' = Moved(w, "running", woken)
    BY DEF WorkerTake
  <2>2. \A u \in woken : pc[u] \in Condition
    BY DEF SignalWakes, Waiters, Condition
  <2>3. QED
    BY <1>1, <2>1, <2>2, MovedMoves, Names DEF Location, WorkerTake
<1>4. Waiters("not_empty")' \subseteq Waiters("not_empty")
  BY <1>3 DEF Moves, Waiters, Condition, Resume
<1>5. Looking \ {w} \subseteq Looking' /\ w \in Looking
  BY <1>3, Names DEF Looking, Moves, Condition, Resume
<1>6. Cardinality(Looking \ {w}) =< Cardinality(Looking')
  BY <1>5, LookingFinite DEF FiniteSetOrder
<1>7. Cardinality(Looking \ {w}) = Cardinality(Looking) - 1
  BY <1>5, LookingFinite DEF FiniteSetFacts
<1>8. Cardinality(Looking) \in Nat /\ Cardinality(Looking') \in Nat
  BY LookingFinite DEF FiniteSetFacts
<1>9. ~muted /\ Waiters("not_empty") # {} => Cardinality(Looking) >= ring.count
  BY DEF NoTaskOverlooked, Looking
<1>10. ~muted' /\ Waiters("not_empty")' # {} => Cardinality(Looking') >= ring'.count
  BY <1>2, <1>3, <1>4, <1>6, <1>7, <1>8, <1>9, SMT
<1>11. QED
  BY <1>10 DEF NoTaskOverlooked, Looking

(* A new task comes with a signal, which wakes a worker if any sleeps. *)
LEMMA EnqueueAttended ==
    ASSUME FiniteSetFacts, FiniteSetOrder, IInv, NoTaskOverlooked, NEW t \in Thread, SubmitEnqueue(t)
    PROVE  NoTaskOverlooked'
<1>1. TypeOK /\ Places /\ WellFormed(ring) /\ ring \in RingOf(Task) /\ ring.count \in Nat
  BY SMT DEF IInv, Queue, TypeOK, RingOf
<1>2. ring'.count = ring.count + 1
  <2>1. PICK k \in Task : k = arg[t].task
    BY SMT DEF SubmitEnqueue, IInv, TypeOK, Argument, Submissions, InSubmit
  <2>2. ring.count # Capacity /\ ring' = Put(ring, k)
    BY <2>1 DEF SubmitEnqueue, Full
  <2>3. QED
    BY <1>1, <2>1, <2>2, Names, PutReads, SMT
<1>3. PICK ok \in Notified : \E woken \in SignalWakes("not_empty", ok) :
         pc' = Moved(t, Home(t), woken) /\ muted' = (muted \/ ~ok)
  BY DEF SubmitEnqueue
<1>4. PICK woken \in SignalWakes("not_empty", ok) :
         pc' = Moved(t, Home(t), woken) /\ muted' = (muted \/ ~ok)
  BY <1>3
<1>5. pc[t] \in {"submitting", "resubmitting"} /\ Home(t) \in {"idle", "running"}
  BY DEF SubmitEnqueue, InSubmit, Home
<1>6. /\ Moves(t, Home(t))
      /\ \A u \in woken : u \in Thread /\ u # t => pc'[u] = Resume(pc[u])
  <2>1. \A u \in woken : pc[u] \in Condition
    BY DEF SignalWakes, Waiters, Condition
  <2>2. Home(t) \in Location
    BY <1>5 DEF Location
  <2>3. QED
    BY <1>1, <1>4, <2>1, <2>2, MovedMoves
<1>7. Waiters("not_empty")' \subseteq Waiters("not_empty")
  BY <1>5, <1>6 DEF Moves, Waiters, Condition, Resume
<1>8. Looking \subseteq Looking'
  BY <1>5, <1>6, Names DEF Looking, Moves, Condition, Resume
<1>9. CASE muted' \/ Waiters("not_empty") = {}
  BY <1>7, <1>9 DEF NoTaskOverlooked
<1>10. CASE ~muted' /\ Waiters("not_empty") # {}
  <2>1. ~muted /\ ok
    BY <1>4, <1>10
  <2>2. PICK u \in Waiters("not_empty") : woken = {u}
    BY <1>10, <2>1 DEF SignalWakes
  <2>3. pc[u] = "not_empty" /\ u \in Thread /\ u \in Worker
    BY <1>1, <2>2, Names DEF Waiters, Places, ClientPlace
  <2>4. pc'[u] = "looking"
    BY <1>5, <1>6, <2>2, <2>3 DEF Resume
  <2>5. Looking \cup {u} \subseteq Looking' /\ u \notin Looking
    BY <1>8, <2>3, <2>4 DEF Looking
  <2>6. Cardinality(Looking \cup {u}) =< Cardinality(Looking')
    BY <2>5, LookingFinite DEF FiniteSetOrder
  <2>7. Cardinality(Looking \cup {u}) = Cardinality(Looking) + 1
    BY <2>5, LookingFinite DEF FiniteSetFacts
  <2>8. Cardinality(Looking) \in Nat /\ Cardinality(Looking') \in Nat
    BY LookingFinite DEF FiniteSetFacts
  <2>9. Cardinality(Looking) >= ring.count
    BY <1>10, <2>1 DEF NoTaskOverlooked, Looking
  <2>10. Cardinality(Looking') >= ring'.count
    BY <1>1, <1>2, <2>6, <2>7, <2>8, <2>9, SMT
  <2>11. QED
    BY <2>10 DEF NoTaskOverlooked, Looking
<1>11. QED
  BY <1>9, <1>10

(* The steps of the clients. *)
LEMMA ClientAttends ==
    ASSUME IInv, NEW c \in Client, ClientNext(c)
    PROVE  Attends
<1>1. TypeOK /\ c \in Thread /\ pc[c] # "looking" /\ \A w \in Worker : w \in Thread
  BY DEF IInv, Places, ClientPlace, Thread
<1>2. CASE New(c)
  BY <1>1, <1>2, AttendsAlone DEF New, localVars, Location
<1>3. CASE \E w \in Worker : NewCounts(c, w) \/ NewWorker(c, w) \/ NewWorkerFails(c, w)
  BY <1>1, <1>3, AttendsAlone DEF NewCounts, NewWorker, NewWorkerFails, coreVars, localVars, Location
<1>4. CASE NewCloses(c)
  <2>1. \A u \in BroadcastWakes("not_empty", TRUE) \cup BroadcastWakes("not_full", TRUE) :
           pc[u] \in Condition
    BY DEF BroadcastWakes, Waiters, Condition
  <2>2. QED
    BY <1>1, <1>4, <2>1, AttendsMoved DEF NewCloses, Location
<1>5. CASE NewReturns(c)
  BY <1>1, <1>5, AttendsAlone DEF NewReturns, coreVars, localVars, Location
<1>6. CASE DropHandle(c)
  BY <1>1, <1>6, AttendsAlone DEF DropHandle, coreVars, Location
<1>7. QED
  BY <1>2, <1>3, <1>4, <1>5, <1>6 DEF ClientNext

(* The users of a handle, and those who stop the pool. *)
LEMMA UserAttends ==
    ASSUME IInv, NEW t \in Thread, UserNext(t)
    PROVE  Attends
<1>1. TypeOK /\ Places /\ Client \subseteq Thread
  BY Names DEF IInv
<1>2. Home(t) \in {"idle", "running"}
  BY DEF Home
<1>3. ASSUME NEW c \in Client, Share(t, c)
      PROVE  Attends
  BY <1>1, <1>3, AttendsAlone DEF Share, localVars, Location
<1>4. ASSUME NEW k \in Task, NEW b \in BOOLEAN, BeginSubmit(t, k, b)
      PROVE  Attends
  BY <1>1, <1>2, <1>4, AttendsAlone DEF BeginSubmit, HasHandle, Location
<1>5. CASE Close(t) \/ Shutdown(t)
  <2>1. PICK okE \in Notified, okF \in Notified, where \in {Home(t), "stopping"} :
           /\ pc' = Moved(t, where, BroadcastWakes("not_empty", okE)
                                      \cup BroadcastWakes("not_full", okF))
           /\ muted' = (muted \/ ~okE \/ ~okF)
    <3>1. CASE Close(t)
      BY <3>1 DEF Close
    <3>2. CASE Shutdown(t)
      <4>1. PICK okE \in Notified, okF \in Notified :
               /\ pc' = Moved(t, IF okE /\ okF THEN "stopping" ELSE Home(t),
                              BroadcastWakes("not_empty", okE)
                                \cup BroadcastWakes("not_full", okF))
               /\ muted' = (muted \/ ~okE \/ ~okF)
        BY <3>2 DEF Shutdown
      <4>2. (IF okE /\ okF THEN "stopping" ELSE Home(t)) \in {Home(t), "stopping"}
        OBVIOUS
      <4>3. QED
        BY <4>1, <4>2
    <3>3. QED
      BY <1>5, <3>1, <3>2
  <2>2. \A u \in BroadcastWakes("not_empty", okE) \cup BroadcastWakes("not_full", okF) :
           pc[u] \in Condition
    BY DEF BroadcastWakes, Waiters, Condition
  <2>3. where \in Location \ {"not_empty"} /\ pc[t] # "looking" /\ ring' = ring
    BY <1>2, <1>5, <2>1 DEF Close, Shutdown, HasHandle, Location
  <2>4. QED
    BY <1>1, <2>1, <2>2, <2>3, AttendsMoved
<1>6. QED
  BY <1>3, <1>4, <1>5 DEF UserNext

(* The other steps that neither add nor take a task. *)
LEMMA OtherAttends ==
    ASSUME IInv, NEW t \in Thread,
           \/ SubmitStep(t) /\ ~SubmitEnqueue(t)
           \/ StopStep(t) \/ Finalize(t) \/ SpuriousWake(t)
           \/ t \in Worker /\ TaskReturns(t)
    PROVE  Attends
<1>1. TypeOK /\ Home(t) \in {"idle", "running"}
  BY DEF IInv, Home
<1>2. ASSUME NEW k, NEW where \in {"idle", "running", "looking"}, Decref(t, k, where),
             pc[t] # "looking", ring' = ring, muted' = muted
      PROVE  Attends
  <2>1. PICK dest \in {"idle", "running", "looking", "finalizing"} :
           pc' = [pc EXCEPT ![t] = dest]
    BY <1>2 DEF Decref
  <2>2. QED
    BY <1>1, <1>2, <2>1, AttendsAlone DEF Location
<1>3. ASSUME NEW why, Reject(t, why), InSubmit(t)
      PROVE  Attends
  BY <1>1, <1>2, <1>3 DEF Reject, InSubmit, coreVars
<1>4. CASE SubmitStep(t) /\ ~SubmitEnqueue(t)
  <2>1. CASE SubmitWait(t)
    BY <1>1, <2>1, AttendsAlone DEF SubmitWait, InSubmit, coreVars, localVars, Location, Condition
  <2>2. CASE ~SubmitWait(t)
    <3>1. InSubmit(t) /\ \E why : Reject(t, why)
      BY <1>4, <2>2 DEF SubmitStep, InSubmit, SubmitLockFails, SubmitWouldDeadlock, WouldDeadlock,
         SubmitWaitFails, SubmitRefused
    <3>2. QED
      BY <1>3, <3>1
  <2>3. QED
    BY <2>1, <2>2
<1>5. CASE StopStep(t)
  BY <1>1, <1>5, AttendsAlone DEF StopStep, StopWait, ShutdownFails, ShutdownReturns, NewFails,
     InStop, coreVars, localVars, Location, Condition
<1>6. CASE Finalize(t)
  <2>1. PICK woken : /\ pc' = Moved(t, "releasing", woken)
                     /\ \A u \in woken : pc[u] \in Condition
    BY <1>6, SMT DEF Finalize, Waiters, Condition
  <2>2. QED
    BY <1>1, <1>6, <2>1, AttendsMoved DEF Finalize, localVars, Location
<1>7. CASE SpuriousWake(t)
  BY <1>1, <1>7, AttendsAlone DEF SpuriousWake, Resume, coreVars, localVars, Location, Condition
<1>8. CASE t \in Worker /\ TaskReturns(t)
  BY <1>1, <1>2, <1>8 DEF TaskReturns, coreVars
<1>9. QED
  BY <1>4, <1>5, <1>6, <1>7, <1>8

(* Every step, given the invariant of the rest. *)
LEMMA NextAttended ==
    ASSUME FiniteSetFacts, FiniteSetOrder, IInv, NoTaskOverlooked, [Next]_vars
    PROVE  NoTaskOverlooked'
<1>1. TypeOK /\ ring.count \in Nat /\ Worker \subseteq Thread
  BY Names, SMT DEF IInv, TypeOK, RingOf
<1>2. CASE Attends
  BY <1>1, <1>2, AttendsKeeps
<1>3. ASSUME NEW t \in Thread, CoreRelease(t)
      PROVE  NoTaskOverlooked'
  <2>1. CASE refs # 1
    <3>1. after[t] \in Location \ {"not_empty"}
      BY <1>1 DEF TypeOK, Location, Condition
    <3>2. Attends
      BY <1>1, <1>3, <2>1, <3>1, AttendsAlone DEF CoreRelease, localVars
    <3>3. QED
      BY <1>2, <3>2
  <2>2. CASE refs = 1
    BY <1>3, <2>2, EmptyAttended, SMT DEF CoreRelease, EmptyRing
  <2>3. QED
    BY <2>1, <2>2
<1>4. ASSUME NEW w \in Worker, WorkerLooks(w)
      PROVE  NoTaskOverlooked'
  <2>1. CASE WorkerTake(w)
    BY <2>1, TakeAttended
  <2>2. CASE WorkerWait(w) \/ WorkerExit(w)
    BY <2>2, EmptyAttended DEF WorkerWait, WorkerExit, coreVars
  <2>3. QED
    BY <1>4, <2>1, <2>2 DEF WorkerLooks
<1>5. CASE UNCHANGED vars
  BY <1>5 DEF NoTaskOverlooked, Waiters, vars, coreVars, localVars
<1>6. CASE Next
  <2>1. ASSUME NEW c \in Client, ClientNext(c)
        PROVE  NoTaskOverlooked'
    BY <1>2, <2>1, ClientAttends
  <2>2. ASSUME NEW t \in Thread, ThreadNext(t)
        PROVE  NoTaskOverlooked'
    <3>1. CASE UserNext(t)
      BY <1>2, <3>1, UserAttends
    <3>2. CASE SubmitEnqueue(t)
      BY <3>2, EnqueueAttended
    <3>3. CASE CoreRelease(t)
      BY <1>3, <3>3
    <3>4. CASE (SubmitStep(t) /\ ~SubmitEnqueue(t)) \/ StopStep(t) \/ Finalize(t) \/ SpuriousWake(t)
      BY <1>2, <3>4, OtherAttends
    <3>5. QED
      BY <2>2, <3>1, <3>2, <3>3, <3>4 DEF ThreadNext
  <2>3. ASSUME NEW w \in Worker, TaskReturns(w)
        PROVE  NoTaskOverlooked'
    BY <1>1, <1>2, <2>3, OtherAttends
  <2>4. QED
    BY <1>4, <1>5, <1>6, <2>1, <2>2, <2>3 DEF Next, Finished
<1>7. QED
  BY <1>5, <1>6

=============================================================================
