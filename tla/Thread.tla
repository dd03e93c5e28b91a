------------------------------- MODULE Thread -------------------------------
(***************************************************************************)
(* One native thread of src/unsafe/thread: spawn, join, detach, the drop   *)
(* of its handle, and the end of the thread itself (POSIX variant).        *)
(*                                                                         *)
(* There is one handle object; several threads may refer to it, the new    *)
(* thread included (through a reference inside its own closure).  Every    *)
(* action is one critical section of the core's mutex, or one call of the  *)
(* system or of the MoonBit runtime between two of them.                   *)
(***************************************************************************)
EXTENDS Integers, FiniteSets

CONSTANTS
    User,     \* threads that may refer to the handle
    Child,    \* the thread that is spawned
    Fault     \* which of pthread_create, pthread_join, pthread_detach may fail

ASSUME ThreadAssumption ==
    /\ IsFiniteSet(User)
    /\ Child \notin User
    /\ Fault \subseteq {"create", "join", "detach"}

VARIABLES
    core,       \* "none" before spawn, "live", "freed"
    refs,       \* reference count of the core
    state,      \* core->state
    finished,
    task,       \* core->task # NULL
    result,     \* core->result # NULL
    os,         \* the system's view of the thread
    holders,    \* who refers to the handle; Child: the closure does
    released,   \* how often the closure has been released
    aborted,    \* a finalizer has called abort()
    pc,         \* where each thread is
    taken,      \* the thread has taken the closure out of the core
    outcome     \* what each thread's last join or detach returned

coreVars == <<core, refs, state, finished, task, result>>
ghostVars == <<os, holders, released, aborted>>
vars == <<coreVars, ghostVars, pc, taken, outcome>>

Thread == User \cup {Child}

State == {"CREATED", "JOINABLE", "JOINING", "DETACHING", "JOINED", "DETACHED", "FAILED"}

Terminal == {"JOINED", "DETACHED", "FAILED"}

Outcome == {"None", "Joined", "NoResult", "Detached", "AlreadyJoined", "JoinSelf",
            "AlreadyDetached", "InProgress", "Failed"}

Location ==
    {"idle",         \* user outside the library
     "starting",     \* in sync_thread_start, after pthread_create
     "joining",      \* in pthread_join
     "joined",       \* pthread_join has returned
     "detaching",    \* about to call pthread_detach
     "detached",     \* pthread_detach has returned
     "returning",    \* about to release the closure it took, if any
     "finalizing",   \* in the finalizer of the handle
     "releasing",    \* the finalizer's core_release is still to come
     "unborn",       \* the child before pthread_create
     "running",      \* the child in its task
     "completed",    \* the child has stored its outcome
     "exiting",      \* the child has set finished
     "ended"}        \* the child has left sync_thread_main

TypeOK ==
    /\ core \in {"none", "live", "freed"}
    /\ refs \in 0 .. 2
    /\ state \in State
    /\ finished \in BOOLEAN /\ task \in BOOLEAN /\ result \in BOOLEAN
    /\ os \in {"none", "joinable", "joined", "detached"}
    /\ holders \subseteq Thread
    /\ released \in Nat
    /\ aborted \in BOOLEAN
    /\ pc \in [Thread -> Location]
    /\ taken \in [Thread -> BOOLEAN]
    /\ outcome \in [Thread -> Outcome]

Init ==
    /\ core = "none"
    /\ refs = 0
    /\ state = "CREATED"
    /\ finished = FALSE /\ task = FALSE /\ result = FALSE
    /\ os = "none"
    /\ holders = {}
    /\ released = 0
    /\ aborted = FALSE
    /\ pc = [t \in Thread |-> IF t = Child THEN "unborn" ELSE "idle"]
    /\ taken = [t \in Thread |-> FALSE]
    /\ outcome = [t \in Thread |-> "None"]

Home(t) == IF t = Child THEN "running" ELSE "idle"

Goto(t, where) == pc' = [pc EXCEPT ![t] = where]

Returns(t, what) == outcome' = [outcome EXCEPT ![t] = what]

-----------------------------------------------------------------------------
(* spawn: sync_thread_new and sync_thread_start.  The core is private to    *)
(* the spawning thread until pthread_create, and then shared with the child.*)

SpawnCreates(s) ==
    /\ core = "none"
    /\ pc[s] = "idle"
    /\ core' = "live"
    /\ refs' = 2
    /\ task' = TRUE
    /\ os' = "joinable"
    /\ holders' = {s}
    /\ pc' = [pc EXCEPT ![s] = "starting", ![Child] = "running"]
    /\ UNCHANGED <<state, finished, result, released, aborted, taken, outcome>>

SpawnStarted(s) ==
    /\ pc[s] = "starting"
    /\ state' = "JOINABLE"
    /\ Goto(s, "idle")
    /\ UNCHANGED <<core, refs, finished, task, result, ghostVars, taken, outcome>>

(* The closure and the child's reference are released and spawn raises,     *)
(* which drops the handle.                                                  *)
SpawnFails(s) ==
    /\ "create" \in Fault
    /\ core = "none"
    /\ pc[s] = "idle"
    /\ core' = "live"
    /\ refs' = 1
    /\ state' = "FAILED"
    /\ released' = 1
    /\ Goto(s, "finalizing")
    /\ UNCHANGED <<finished, task, result, os, holders, aborted, taken, outcome>>

-----------------------------------------------------------------------------
(* The MoonBit runtime counts the references to the handle and finalizes it *)
(* with the last one.                                                       *)

CanUse(t) == t \in holders /\ pc[t] = Home(t)

HandOver(t, u) ==
    /\ CanUse(t)
    /\ u \notin holders
    /\ pc[u] = Home(u)
    /\ holders' = holders \cup {u}
    /\ UNCHANGED <<coreVars, os, released, aborted, pc, taken, outcome>>

Drop(t) ==
    /\ CanUse(t)
    /\ holders' = holders \ {t}
    /\ Goto(t, IF holders = {t} THEN "finalizing" ELSE pc[t])
    /\ UNCHANGED <<coreVars, os, released, aborted, taken, outcome>>

Finalize(t) ==
    /\ pc[t] = "finalizing"
    /\ \/ /\ state \in Terminal
          /\ Goto(t, "releasing")
          /\ UNCHANGED aborted
       \/ /\ state \notin Terminal
          /\ aborted' = TRUE
          /\ UNCHANGED pc
    /\ UNCHANGED <<coreVars, os, holders, released, taken, outcome>>

(* core_release.  The closure left in the core would be released here; see  *)
(* ClosureReleasedOnce.                                                     *)
ReleaseCore ==
    /\ refs' = refs - 1
    /\ IF refs = 1
       THEN /\ core' = "freed"
            /\ task' = FALSE
            /\ result' = FALSE
            /\ released' = IF task THEN released + 1 ELSE released
       ELSE UNCHANGED <<core, task, result, released>>
    /\ UNCHANGED <<state, finished, os, holders, aborted>>

(* The child goes on with its task, or with the end of sync_thread_main.    *)
FinalizerReleases(t) ==
    /\ pc[t] = "releasing"
    /\ ReleaseCore
    /\ Goto(t, IF t = Child /\ finished THEN "exiting" ELSE Home(t))
    /\ UNCHANGED <<taken, outcome>>

-----------------------------------------------------------------------------
(* join                                                                     *)

(* Mutant of Refused: a join or detach in progress is not noticed.          *)
RefusedIgnoringProgress ==
    IF state \in {"FAILED", "JOINED"} THEN "AlreadyJoined"
    ELSE IF state = "DETACHED" THEN "AlreadyDetached"
    ELSE "None"

(* Why join or detach is refused.  A joinable or created thread is not:     *)
(* only the holders of the handle get here, after started was set.          *)
Refused ==
    IF state \in {"FAILED", "JOINED"} THEN "AlreadyJoined"
    ELSE IF state = "DETACHED" THEN "AlreadyDetached"
    ELSE IF state \in {"JOINING", "DETACHING"} THEN "InProgress"
    ELSE "None"

Refuse(t, why) ==
    /\ Returns(t, why)
    /\ UNCHANGED <<coreVars, ghostVars, pc, taken>>

JoinRefused(t) ==
    /\ CanUse(t)
    /\ \/ Refused # "None" /\ Refuse(t, Refused)
       \/ Refused = "None" /\ t = Child /\ Refuse(t, "JoinSelf")
       \/ Refused = "None" /\ t # Child /\ "join" \in Fault /\ Refuse(t, "Failed")

(* Mutant of Join: a thread may join itself.                                *)
JoinEvenSelf(t) ==
    /\ CanUse(t)
    /\ Refused = "None"
    /\ state' = "JOINING"
    /\ Goto(t, "joining")
    /\ UNCHANGED <<core, refs, finished, task, result, ghostVars, taken, outcome>>

Join(t) ==
    /\ CanUse(t)
    /\ Refused = "None"
    /\ t # Child
    /\ state' = "JOINING"
    /\ Goto(t, "joining")
    /\ UNCHANGED <<core, refs, finished, task, result, ghostVars, taken, outcome>>

(* pthread_join returns once the thread has ended, or fails.                *)
JoinWaits(t) ==
    /\ pc[t] = "joining"
    /\ pc[Child] = "ended"
    /\ os' = "joined"
    /\ Goto(t, "joined")
    /\ UNCHANGED <<coreVars, holders, released, aborted, taken, outcome>>

JoinFails(t) ==
    /\ "join" \in Fault
    /\ pc[t] = "joining"
    /\ state' = "JOINABLE"
    /\ Goto(t, "idle")
    /\ Returns(t, "Failed")
    /\ UNCHANGED <<core, refs, finished, task, result, ghostVars, taken>>

JoinTakes(t) ==
    /\ pc[t] = "joined"
    /\ state' = "JOINED"
    /\ result' = FALSE
    /\ task' = FALSE
    /\ taken' = [taken EXCEPT ![t] = task]
    /\ Returns(t, IF result THEN "Joined" ELSE "NoResult")
    /\ Goto(t, "returning")
    /\ UNCHANGED <<core, refs, finished, ghostVars>>

-----------------------------------------------------------------------------
(* detach                                                                   *)

DetachRefused(t) ==
    /\ CanUse(t)
    /\ Refused # "None"
    /\ Refuse(t, Refused)

Detach(t) ==
    /\ CanUse(t)
    /\ Refused = "None"
    /\ state' = "DETACHING"
    /\ Goto(t, "detaching")
    /\ UNCHANGED <<core, refs, finished, task, result, ghostVars, taken, outcome>>

DetachFails(t) ==
    /\ "detach" \in Fault
    /\ pc[t] = "detaching"
    /\ state' = "JOINABLE"
    /\ Goto(t, Home(t))
    /\ Returns(t, "Failed")
    /\ UNCHANGED <<core, refs, finished, task, result, ghostVars, taken>>

DetachCalls(t) ==
    /\ pc[t] = "detaching"
    /\ os' = "detached"
    /\ Goto(t, "detached")
    /\ UNCHANGED <<coreVars, holders, released, aborted, taken, outcome>>

(* Mutant of DetachTakes: the closure is released without a look at         *)
(* finished.                                                                *)
DetachTakesAlways(t) ==
    /\ pc[t] = "detached"
    /\ state' = "DETACHED"
    /\ task' = FALSE
    /\ taken' = [taken EXCEPT ![t] = task]
    /\ Returns(t, "Detached")
    /\ Goto(t, "returning")
    /\ UNCHANGED <<core, refs, finished, result, ghostVars>>

DetachTakes(t) ==
    /\ pc[t] = "detached"
    /\ state' = "DETACHED"
    /\ task' = (task /\ ~finished)
    /\ taken' = [taken EXCEPT ![t] = task /\ finished]
    /\ Returns(t, "Detached")
    /\ Goto(t, "returning")
    /\ UNCHANGED <<core, refs, finished, result, ghostVars>>

(* moonbit_decref(task): a reference to the handle in the closure goes too. *)
ReleaseTask(t) ==
    /\ taken[t]
    /\ pc[t] \in {"returning", "exiting"}
    /\ taken' = [taken EXCEPT ![t] = FALSE]
    /\ released' = released + 1
    /\ holders' = holders \ {Child}
    /\ Goto(t, IF holders = {Child} THEN "finalizing" ELSE pc[t])
    /\ UNCHANGED <<coreVars, os, aborted, outcome>>

ReturnToCaller(t) ==
    /\ pc[t] = "returning"
    /\ ~taken[t]
    /\ Goto(t, Home(t))
    /\ UNCHANGED <<coreVars, ghostVars, taken, outcome>>

-----------------------------------------------------------------------------
(* sync_thread_main.  The runner of spawn_raw catches what the task raises, *)
(* so the task always ends in sync_thread_complete.                         *)

(* Mutant of ThreadComplete: a task that raises leaves no outcome.          *)
ThreadCompleteUnlessRaised ==
    /\ pc[Child] = "running"
    /\ result' \in BOOLEAN
    /\ Goto(Child, "completed")
    /\ UNCHANGED <<core, refs, state, finished, task, ghostVars, taken, outcome>>

ThreadComplete ==
    /\ pc[Child] = "running"
    /\ result' = TRUE
    /\ Goto(Child, "completed")
    /\ UNCHANGED <<core, refs, state, finished, task, ghostVars, taken, outcome>>

ThreadFinish ==
    /\ pc[Child] = "completed"
    /\ finished' = TRUE
    /\ task' = (task /\ state # "DETACHED")
    /\ taken' = [taken EXCEPT ![Child] = task /\ state = "DETACHED"]
    /\ Goto(Child, "exiting")
    /\ UNCHANGED <<core, refs, state, result, ghostVars, outcome>>

(* Mutant of ThreadExit: the child keeps its reference.                     *)
ThreadExitRetaining ==
    /\ pc[Child] = "exiting"
    /\ ~taken[Child]
    /\ Goto(Child, "ended")
    /\ UNCHANGED <<coreVars, ghostVars, taken, outcome>>

ThreadExit ==
    /\ pc[Child] = "exiting"
    /\ ~taken[Child]
    /\ ReleaseCore
    /\ Goto(Child, "ended")
    /\ UNCHANGED <<taken, outcome>>

-----------------------------------------------------------------------------
Spawn(s) == SpawnCreates(s) \/ SpawnStarted(s) \/ SpawnFails(s)

Call(t) ==
    \/ \E u \in Thread : HandOver(t, u)
    \/ Drop(t)
    \/ JoinRefused(t)
    \/ Join(t)
    \/ DetachRefused(t)
    \/ Detach(t)

(* What a thread inside the library does next.                              *)
Proceed(t) ==
    \/ JoinWaits(t) \/ JoinTakes(t)
    \/ DetachCalls(t) \/ DetachTakes(t)
    \/ ReleaseTask(t) \/ ReturnToCaller(t)
    \/ Finalize(t) \/ FinalizerReleases(t)

(* What the system may do instead.                                          *)
Fail(t) == JoinFails(t) \/ DetachFails(t)

(* The library owes nobody a step.                                          *)
Quiet ==
    /\ \/ aborted
       \/ \A t \in Thread : pc[t] \in {"idle", "unborn", "ended"}
    /\ UNCHANGED vars

Next ==
    \/ /\ ~aborted
       /\ \/ \E s \in User : Spawn(s)
          \/ \E t \in Thread : Call(t) \/ Proceed(t) \/ Fail(t)
          \/ ThreadComplete \/ ThreadFinish \/ ThreadExit
    \/ Quiet

Spec == Init /\ [][Next]_vars

-----------------------------------------------------------------------------
(* Safety.                                                                  *)

(* join and detach, called by any number of threads at the same time, hand  *)
(* the system thread to pthread_join or pthread_detach only while it is     *)
(* joinable, and to one of them at a time: both are undefined on a thread   *)
(* that was joined or detached.  And "Dropping a Thread while it is still   *)
(* joinable" is what aborts: never the drop of one that was joined or       *)
(* detached, by whomever.                                                   *)
ThreadOwnedOnce ==
    /\ aborted => os = "joinable"
    /\ \A t \in Thread : pc[t] \in {"joining", "detaching"} => os = "joinable"
    /\ Cardinality({t \in Thread :
          pc[t] \in {"joining", "joined", "detaching", "detached"}}) <= 1

(* The closure has exactly one owner, the core or a thread that is about to *)
(* release it, until it is released once; never while the child still runs  *)
(* it, and never as late as core_release, which a closure that refers to    *)
(* its own handle would keep from happening.                                *)
ClosureReleasedOnce ==
    core # "none" =>
        /\ released + (IF task THEN 1 ELSE 0)
             + Cardinality({t \in Thread : taken[t]}) = 1
        /\ pc[Child] \in {"running", "completed"} => task
        /\ finished /\ state \in Terminal => ~task

(* refs counts the handle and the child: the core is freed by the last of   *)
(* them and not while a holder of the handle, a finalizer or the child can  *)
(* still touch it.                                                          *)
ReferencesAccounted ==
    /\ refs = (IF \/ holders # {}
                  \/ \E t \in Thread : pc[t] \in {"finalizing", "releasing"} THEN 1 ELSE 0)
              + (IF os # "none" /\ pc[Child] # "ended" THEN 1 ELSE 0)
    /\ core = "live" <=> refs > 0

(* A join that succeeds finds the outcome that the child stored, whatever   *)
(* joins and detaches failed or were refused before.                        *)
JoinFindsResult == \A t \in Thread : outcome[t] # "NoResult"

-----------------------------------------------------------------------------
(* Liveness.  A thread inside the library goes on, pthread_join returns     *)
(* when the child has ended, and the task ends at some time; no failure is  *)
(* ever relied on.                                                          *)
Fairness ==
    /\ \A s \in User : WF_vars(SpawnStarted(s))
    /\ \A t \in Thread : WF_vars(~aborted /\ Proceed(t))
    /\ SF_vars(~aborted /\ ThreadComplete)
    /\ WF_vars(~aborted /\ (ThreadFinish \/ ThreadExit))

FairSpec == Spec /\ Fairness

(* join "Waits for completion" and returns: neither the detach nor the drop *)
(* of another holder, nor the child's own use of its handle, blocks it; and *)
(* no system call has to fail for that.                                     *)
JoinReturns ==
    \A t \in Thread : pc[t] = "joining" ~> (pc[t] = Home(t) \/ aborted)

=============================================================================
