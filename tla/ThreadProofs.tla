---------------------------- MODULE ThreadProofs ----------------------------
(***************************************************************************)
(* The safety properties of Thread, for any number of threads that refer   *)
(* to the handle and every set of failing system calls.                    *)
(*                                                                         *)
(* IInv says which roles exclude each other (who is inside a join or a     *)
(* detach, who runs the finalizer, who is still starting the thread), what *)
(* core->state means for the system's view of the thread, and who owns the *)
(* closure and the outcome at every moment.                                *)
(***************************************************************************)
EXTENDS Thread, FiniteSetTheorems, TLAPS

Joins(t) == pc[t] \in {"joining", "joined"}

Detaches(t) == pc[t] \in {"detaching", "detached"}

Finalizes(t) == pc[t] \in {"finalizing", "releasing"}

Taken == {t \in Thread : taken[t]}

(* Before spawn there is nothing. *)
Blank ==
    core = "none" =>
        /\ refs = 0 /\ state = "CREATED" /\ released = 0 /\ holders = {}
        /\ ~finished /\ ~task /\ ~aborted /\ os = "none" /\ Taken = {}
        /\ \A t \in User : pc[t] = "idle"

(* Where a thread can be, and what that says about the child. *)
Places ==
    /\ \A t \in User : pc[t] \in {"idle", "starting", "joining", "joined", "detaching",
                                   "detached", "returning", "finalizing", "releasing"}
    /\ pc[Child] \in IF finished
                     THEN {"exiting", "finalizing", "releasing", "ended"}
                     ELSE {"unborn", "running", "completed", "detaching", "detached",
                           "returning", "finalizing", "releasing"}
    /\ pc[Child] = "unborn" <=> os = "none"
    /\ \A t \in Thread : taken[t] => finished /\ pc[t] \in {"returning", "exiting"}

(* One join or detach at a time, by a holder; one finalizer, after the last *)
(* holder; and the thread that starts the child is its only holder.         *)
Roles ==
    /\ \A t, u \in Thread : (Joins(t) \/ Detaches(t)) /\ (Joins(u) \/ Detaches(u)) => t = u
    /\ \A t, u \in Thread : Finalizes(t) /\ Finalizes(u) => t = u
    /\ \A t \in Thread : Joins(t) \/ Detaches(t) => t \in holders
    /\ \A t \in Thread : Finalizes(t) => holders = {}
    /\ \A t \in Thread : pc[t] = "starting" => holders = {t}
    /\ holders # {} => os # "none"

(* What core->state promises, to the system and to the next caller. *)
States ==
    /\ state = "CREATED" /\ core # "none" => \E t \in Thread : pc[t] = "starting"
    /\ state = "JOINING" => \E t \in Thread : Joins(t)
    /\ state = "DETACHING" => \E t \in Thread : Detaches(t)
    /\ \A t \in Thread :
         /\ pc[t] = "starting" => state = "CREATED"
         /\ Joins(t) => state = "JOINING"
         /\ Detaches(t) => state = "DETACHING"
         /\ pc[t] \in {"starting", "joining", "detaching"} => os = "joinable"
         /\ pc[t] = "joined" => pc[Child] = "ended"
         /\ pc[t] = "releasing" => state \in Terminal
    /\ state = "JOINABLE" => os = "joinable"
    /\ state = "JOINED" => finished
    /\ state = "FAILED" => os = "none"
    /\ core # "none" /\ holders = {} /\ (\A t \in Thread : ~Finalizes(t)) => state \in Terminal
    /\ aborted => os = "joinable"

(* Who owns the closure, and who the outcome. *)
Closure ==
    /\ core # "none" =>
         \/ task /\ released = 0 /\ Taken = {}
         \/ ~task /\ released = 1 /\ Taken = {}
         \/ ~task /\ released = 0 /\ \E t \in Thread : Taken = {t}
    /\ task => os # "none"
    /\ os # "none" /\ ~finished => task
    /\ finished /\ state \in Terminal => ~task

Results ==
    /\ finished \/ pc[Child] = "completed" => result \/ state = "JOINED" \/ core = "freed"
    /\ JoinFindsResult

IInv ==
    /\ TypeOK
    /\ Blank
    /\ Places
    /\ Roles
    /\ States
    /\ Closure
    /\ Results
    /\ ReferencesAccounted

-----------------------------------------------------------------------------
(* core_release keeps the types of what it assigns. *)
LEMMA CoreTypes ==
    ASSUME TypeOK, ReleaseCore, refs > 0
    PROVE  /\ core' \in {"none", "live", "freed"} /\ refs' \in 0 .. 2 /\ state' \in State
           /\ finished' \in BOOLEAN /\ task' \in BOOLEAN /\ result' \in BOOLEAN
           /\ os' \in {"none", "joinable", "joined", "detached"} /\ holders' \subseteq Thread
           /\ released' \in Nat /\ aborted' \in BOOLEAN
<1>1. CASE refs = 1
  <2>1. task' \in BOOLEAN /\ result' \in BOOLEAN
    BY <1>1, Zenon DEF ReleaseCore
  <2>2. QED
    BY <1>1, <2>1 DEF ReleaseCore, TypeOK
<1>2. CASE refs # 1
  BY <1>2 DEF ReleaseCore, TypeOK
<1>3. QED
  BY <1>1, <1>2

(* A new core: the child runs, and the thread that spawned it starts it. *)
LEMMA SpawnCreatesKeeps ==
    ASSUME IInv, ~aborted, NEW s \in User, SpawnCreates(s)
    PROVE  IInv'
<1>1. /\ TypeOK /\ Blank /\ Places /\ Roles /\ States
      /\ Closure /\ Results /\ ReferencesAccounted
  BY DEF IInv
<1>2. TypeOK'
  BY <1>1 DEF TypeOK, Thread, Location, SpawnCreates
<1>3. Blank'
  BY DEF Blank, SpawnCreates
<1>4. Places'
  BY <1>1 DEF TypeOK, Blank, Places, Thread, SpawnCreates
<1>5. Roles'
  BY <1>1 DEF TypeOK, Roles, ReferencesAccounted, Joins, Detaches, Finalizes,
     SpawnCreates
<1>6. States'
  BY <1>1 DEF TypeOK, Blank, States, Thread, Joins, Detaches, SpawnCreates
<1>7. Closure'
  BY <1>1 DEF Blank, Closure, Taken, SpawnCreates
<1>8. Results'
  BY <1>1 DEF TypeOK, Results, Thread, JoinFindsResult, SpawnCreates
<1>9. ReferencesAccounted'
  BY <1>1 DEF TypeOK, ReferencesAccounted, Thread, SpawnCreates
<1>10. QED
  BY <1>2, <1>3, <1>4, <1>5, <1>6, <1>7, <1>8, <1>9 DEF IInv

(* The end of sync_thread_start: the thread can be joined. *)
LEMMA SpawnStartedKeeps ==
    ASSUME IInv, ~aborted, NEW s \in User, SpawnStarted(s)
    PROVE  IInv'
<1>1. /\ TypeOK /\ Blank /\ Places /\ Roles /\ States
      /\ Closure /\ Results /\ ReferencesAccounted
  BY DEF IInv
<1>2. TypeOK'
  BY <1>1 DEF TypeOK, Thread, ghostVars, State, Location, SpawnStarted, Goto
<1>3. Blank'
  BY <1>1 DEF Blank, SpawnStarted
<1>4. Places'
  BY <1>1 DEF Places, ghostVars, SpawnStarted, Goto
<1>5. Roles'
  BY <1>1 DEF Roles, ghostVars, Joins, Detaches, Finalizes, SpawnStarted, Goto
<1>6. States'
  BY <1>1 DEF TypeOK, Roles, States, Thread, ghostVars, Joins, Detaches,
     Finalizes, SpawnStarted, Goto
<1>7. Closure'
  BY <1>1 DEF Closure, ghostVars, Taken, Terminal, SpawnStarted
<1>8. Results'
  BY <1>1 DEF States, Results, Thread, JoinFindsResult, SpawnStarted, Goto
<1>9. ReferencesAccounted'
  BY <1>1 DEF ReferencesAccounted, ghostVars, SpawnStarted, Goto
<1>10. QED
  BY <1>2, <1>3, <1>4, <1>5, <1>6, <1>7, <1>8, <1>9 DEF IInv

(* A failed pthread_create: the closure is released at once, and the handle is
left to its finalizer. *)
LEMMA SpawnFailsKeeps ==
    ASSUME IInv, ~aborted, NEW s \in User, SpawnFails(s)
    PROVE  IInv'
<1>1. /\ TypeOK /\ Blank /\ Places /\ Roles /\ States
      /\ Closure /\ Results /\ ReferencesAccounted
  BY DEF IInv
<1>2. TypeOK'
  BY <1>1 DEF TypeOK, Thread, State, Location, SpawnFails, Goto
<1>3. Blank'
  BY DEF Blank, SpawnFails
<1>4. Places'
  BY <1>1 DEF Places, SpawnFails, Goto
<1>5. Roles'
  BY <1>1 DEF Roles, ReferencesAccounted, Joins, Detaches, Finalizes,
     SpawnFails, Goto
<1>6. States'
  BY <1>1 DEF Blank, States, Terminal, Joins, Detaches, SpawnFails, Goto
<1>7. Closure'
  BY <1>1 DEF Blank, Closure, Taken, SpawnFails
<1>8. Results'
  BY <1>1 DEF Blank, Results, JoinFindsResult, SpawnFails, Goto
<1>9. ReferencesAccounted'
  BY <1>1 DEF TypeOK, ReferencesAccounted, Thread, SpawnFails, Goto
<1>10. QED
  BY <1>2, <1>3, <1>4, <1>5, <1>6, <1>7, <1>8, <1>9 DEF IInv

(* One more holder of the handle. *)
LEMMA HandOverKeeps ==
    ASSUME IInv, ~aborted, NEW t \in Thread, NEW u \in Thread, HandOver(t, u)
    PROVE  IInv'
<1>1. /\ TypeOK /\ Blank /\ Places /\ Roles /\ States
      /\ Closure /\ Results /\ ReferencesAccounted
  BY DEF IInv
<1>2. TypeOK'
  BY <1>1 DEF TypeOK, coreVars, HandOver
<1>3. Blank'
  BY <1>1 DEF Blank, coreVars, HandOver, CanUse
<1>4. Places'
  BY <1>1 DEF Places, coreVars, HandOver
<1>5. Roles'
  BY <1>1 DEF Roles, Joins, Detaches, Finalizes, HandOver, CanUse, Home
<1>6. States'
  BY <1>1 DEF States, coreVars, Joins, Detaches, HandOver
<1>7. Closure'
  BY <1>1 DEF Closure, coreVars, Taken, HandOver
<1>8. Results'
  BY <1>1 DEF Results, coreVars, JoinFindsResult, HandOver
<1>9. ReferencesAccounted'
  BY <1>1 DEF ReferencesAccounted, coreVars, HandOver, CanUse
<1>10. QED
  BY <1>2, <1>3, <1>4, <1>5, <1>6, <1>7, <1>8, <1>9 DEF IInv

(* One holder less; the last one runs the finalizer. *)
LEMMA DropKeeps ==
    ASSUME IInv, ~aborted, NEW t \in Thread, Drop(t)
    PROVE  IInv'
<1>1. /\ TypeOK /\ Blank /\ Places /\ Roles /\ States
      /\ Closure /\ Results /\ ReferencesAccounted
  BY DEF IInv
<1>2. TypeOK'
  BY <1>1 DEF TypeOK, coreVars, Location, Drop, Goto
<1>3. Blank'
  BY <1>1 DEF Blank, coreVars, Drop, CanUse
<1>4. Places'
  BY <1>1 DEF Places, coreVars, Drop, CanUse, Home, Goto
<1>5. Roles'
  BY <1>1 DEF Roles, Joins, Detaches, Finalizes, Drop, CanUse, Home, Goto
<1>6. States'
  BY <1>1 DEF TypeOK, States, coreVars, Joins, Detaches, Finalizes, Drop,
     CanUse, Home, Goto
<1>7. Closure'
  BY <1>1 DEF Closure, coreVars, Taken, Drop
<1>8. Results'
  BY <1>1 DEF Results, coreVars, JoinFindsResult, Drop, Goto
<1>9. ReferencesAccounted'
  BY <1>1 DEF TypeOK, ReferencesAccounted, coreVars, Drop, CanUse, Home, Goto
<1>10. QED
  BY <1>2, <1>3, <1>4, <1>5, <1>6, <1>7, <1>8, <1>9 DEF IInv

(* The finalizer's look at the state: it goes on, or aborts while the thread is
joinable. *)
LEMMA FinalizeKeeps ==
    ASSUME IInv, ~aborted, NEW t \in Thread, Finalize(t)
    PROVE  IInv'
<1>1. /\ TypeOK /\ Blank /\ Places /\ Roles /\ States
      /\ Closure /\ Results /\ ReferencesAccounted
  BY DEF IInv
<1>2. TypeOK'
  <2>1. aborted' \in BOOLEAN
    <3>1. CASE state \in Terminal
      BY <1>1, <3>1, Zenon DEF Finalize, TypeOK
    <3>2. CASE state \notin Terminal
      BY <3>2, Zenon DEF Finalize
    <3>3. QED
      BY <3>1, <3>2
  <2>2. pc' \in [Thread -> Location]
    BY <1>1 DEF TypeOK, Location, Finalize, Goto
  <2>3. QED
    BY <1>1, <2>1, <2>2 DEF TypeOK, Finalize, coreVars
<1>3. Blank'
  BY <1>1 DEF ReferencesAccounted, Blank, coreVars, Finalize
<1>4. Places'
  BY <1>1 DEF TypeOK, Places, Thread, coreVars, Finalize, Goto
<1>5. Roles'
  BY <1>1 DEF TypeOK, Roles, Joins, Detaches, Finalizes, Finalize, Goto
<1>6. States'
  BY <1>1 DEF TypeOK, Roles, States, ReferencesAccounted, coreVars, Terminal,
     Joins, Detaches, Finalizes, State, Finalize, Goto
<1>7. Closure'
  BY <1>1 DEF Closure, coreVars, Taken, Finalize
<1>8. Results'
  BY <1>1 DEF TypeOK, Results, Thread, coreVars, JoinFindsResult, Finalize,
     Goto
<1>9. ReferencesAccounted'
  BY <1>1 DEF TypeOK, ReferencesAccounted, Thread, coreVars, Finalize, Goto
<1>10. QED
  BY <1>2, <1>3, <1>4, <1>5, <1>6, <1>7, <1>8, <1>9 DEF IInv

(* The handle's reference to the core is released. *)
LEMMA FinalizerReleasesKeeps ==
    ASSUME IInv, ~aborted, NEW t \in Thread, FinalizerReleases(t)
    PROVE  IInv'
<1>1. /\ TypeOK /\ Blank /\ Places /\ Roles /\ States
      /\ Closure /\ Results /\ ReferencesAccounted
  BY DEF IInv
<1>2. TypeOK'
  <2>1. ReleaseCore /\ UNCHANGED <<taken, outcome>> /\ refs > 0
    BY <1>1 DEF FinalizerReleases, ReferencesAccounted
  <2>2. pc' \in [Thread -> Location]
    BY <1>1 DEF TypeOK, Location, FinalizerReleases, Goto, Home
  <2>3. QED
    BY <1>1, <2>1, <2>2, CoreTypes DEF TypeOK
<1>3. Blank'
  BY <1>1 DEF ReferencesAccounted, Blank, FinalizerReleases, ReleaseCore
<1>4. Places'
  BY <1>1, ThreadAssumption DEF Places, FinalizerReleases, ReleaseCore, Goto,
     Home
<1>5. Roles'
  BY <1>1 DEF Roles, Joins, Detaches, Finalizes, FinalizerReleases,
     ReleaseCore, Goto, Home
<1>6. States'
  BY <1>1 DEF States, Terminal, Joins, Detaches, FinalizerReleases,
     ReleaseCore, Goto, Home
<1>7. Closure'
  BY <1>1 DEF Places, Closure, ReferencesAccounted, Taken, FinalizerReleases,
     ReleaseCore
<1>8. Results'
  BY <1>1 DEF Results, JoinFindsResult, FinalizerReleases, ReleaseCore, Goto,
     Home
<1>9. ReferencesAccounted'
  BY <1>1 DEF TypeOK, Roles, ReferencesAccounted, Finalizes,
     FinalizerReleases, ReleaseCore, Goto, Home
<1>10. QED
  BY <1>2, <1>3, <1>4, <1>5, <1>6, <1>7, <1>8, <1>9 DEF IInv

(* A join that is refused changes nothing but its outcome. *)
LEMMA JoinRefusedKeeps ==
    ASSUME IInv, ~aborted, NEW t \in Thread, JoinRefused(t)
    PROVE  IInv'
<1>1. /\ TypeOK /\ Blank /\ Places /\ Roles /\ States
      /\ Closure /\ Results /\ ReferencesAccounted
  BY DEF IInv
<1>2. TypeOK'
  BY <1>1 DEF TypeOK, coreVars, ghostVars, Outcome, JoinRefused, Refused,
     Refuse, Returns
<1>3. Blank'
  BY <1>1 DEF Blank, coreVars, JoinRefused, CanUse, Refuse
<1>4. Places'
  BY <1>1 DEF Places, coreVars, ghostVars, JoinRefused, Refuse
<1>5. Roles'
  BY <1>1 DEF Roles, ghostVars, Joins, Detaches, Finalizes, JoinRefused,
     Refuse
<1>6. States'
  BY <1>1 DEF States, coreVars, ghostVars, Joins, Detaches, JoinRefused,
     CanUse, Refuse
<1>7. Closure'
  BY <1>1 DEF Closure, coreVars, ghostVars, Taken, JoinRefused, Refuse
<1>8. Results'
  BY <1>1 DEF TypeOK, Results, coreVars, JoinFindsResult, JoinRefused,
     Refused, Refuse, Returns
<1>9. ReferencesAccounted'
  BY <1>1 DEF ReferencesAccounted, coreVars, ghostVars, JoinRefused, Refuse
<1>10. QED
  BY <1>2, <1>3, <1>4, <1>5, <1>6, <1>7, <1>8, <1>9 DEF IInv

(* A join goes ahead only with a joinable thread. *)
LEMMA JoinKeeps ==
    ASSUME IInv, ~aborted, NEW t \in Thread, Join(t)
    PROVE  IInv'
<1>1. /\ TypeOK /\ Blank /\ Places /\ Roles /\ States
      /\ Closure /\ Results /\ ReferencesAccounted
  BY DEF IInv
<1>2. TypeOK'
  BY <1>1 DEF TypeOK, ghostVars, State, Location, Join, Goto
<1>3. Blank'
  BY <1>1 DEF Blank, Join, CanUse
<1>4. Places'
  BY <1>1 DEF Places, ghostVars, Join, CanUse, Goto, Home
<1>5. Roles'
  BY <1>1 DEF Roles, States, ghostVars, Joins, Detaches, Finalizes, Join,
     CanUse, Refused, Goto
<1>6. States'
  BY <1>1 DEF TypeOK, Roles, States, ReferencesAccounted, ghostVars, Joins,
     Detaches, Finalizes, State, Join, CanUse, Refused, Goto
<1>7. Closure'
  BY <1>1 DEF Closure, ghostVars, Taken, Terminal, Join
<1>8. Results'
  BY <1>1 DEF Results, JoinFindsResult, Join, Refused, Goto
<1>9. ReferencesAccounted'
  BY <1>1 DEF ReferencesAccounted, ghostVars, Join, CanUse, Goto
<1>10. QED
  BY <1>2, <1>3, <1>4, <1>5, <1>6, <1>7, <1>8, <1>9 DEF IInv

(* pthread_join returns when the child has ended. *)
LEMMA JoinWaitsKeeps ==
    ASSUME IInv, ~aborted, NEW t \in Thread, JoinWaits(t)
    PROVE  IInv'
<1>1. /\ TypeOK /\ Blank /\ Places /\ Roles /\ States
      /\ Closure /\ Results /\ ReferencesAccounted
  BY DEF IInv
<1>2. TypeOK'
  BY <1>1 DEF TypeOK, coreVars, Location, JoinWaits, Goto
<1>3. Blank'
  BY <1>1 DEF Blank, Thread, coreVars, JoinWaits
<1>4. Places'
  BY <1>1 DEF Places, coreVars, JoinWaits, Goto
<1>5. Roles'
  BY <1>1 DEF Roles, Joins, Detaches, Finalizes, JoinWaits, Goto
<1>6. States'
  BY <1>1 DEF TypeOK, Roles, States, coreVars, Joins, Detaches, JoinWaits,
     Goto
<1>7. Closure'
  BY <1>1 DEF States, Closure, coreVars, Taken, JoinWaits
<1>8. Results'
  BY <1>1 DEF Results, coreVars, JoinFindsResult, JoinWaits, Goto
<1>9. ReferencesAccounted'
  BY <1>1 DEF ReferencesAccounted, coreVars, JoinWaits, Goto
<1>10. QED
  BY <1>2, <1>3, <1>4, <1>5, <1>6, <1>7, <1>8, <1>9 DEF IInv

(* A failed pthread_join leaves the thread joinable. *)
LEMMA JoinFailsKeeps ==
    ASSUME IInv, ~aborted, NEW t \in Thread, JoinFails(t)
    PROVE  IInv'
<1>1. /\ TypeOK /\ Blank /\ Places /\ Roles /\ States
      /\ Closure /\ Results /\ ReferencesAccounted
  BY DEF IInv
<1>2. TypeOK'
  BY <1>1 DEF TypeOK, ghostVars, State, Outcome, Location, JoinFails, Goto,
     Returns
<1>3. Blank'
  BY <1>1 DEF Blank, States, JoinFails
<1>4. Places'
  BY <1>1 DEF Places, ghostVars, JoinFails, Goto
<1>5. Roles'
  BY <1>1 DEF Roles, ghostVars, Joins, Detaches, Finalizes, JoinFails, Goto
<1>6. States'
  BY <1>1 DEF TypeOK, Roles, States, ghostVars, Joins, Detaches, Finalizes,
     JoinFails, Goto
<1>7. Closure'
  BY <1>1 DEF Closure, ghostVars, Taken, Terminal, JoinFails
<1>8. Results'
  BY <1>1 DEF States, Results, Joins, JoinFindsResult, JoinFails, Goto,
     Returns
<1>9. ReferencesAccounted'
  BY <1>1 DEF ReferencesAccounted, ghostVars, JoinFails, Goto
<1>10. QED
  BY <1>2, <1>3, <1>4, <1>5, <1>6, <1>7, <1>8, <1>9 DEF IInv

(* The joiner takes the outcome, which is there, and the closure. *)
LEMMA JoinTakesKeeps ==
    ASSUME IInv, ~aborted, NEW t \in Thread, JoinTakes(t)
    PROVE  IInv'
<1>1. /\ TypeOK /\ Blank /\ Places /\ Roles /\ States
      /\ Closure /\ Results /\ ReferencesAccounted
  BY DEF IInv
<1>2. TypeOK'
  <2>1. task' \in BOOLEAN /\ result' \in BOOLEAN
    BY Zenon DEF JoinTakes
  <2>2. taken' \in [Thread -> BOOLEAN]
    BY <1>1 DEF JoinTakes, TypeOK
  <2>3. pc' \in [Thread -> Location] /\ outcome' \in [Thread -> Outcome] /\ state' \in State
    BY <1>1 DEF TypeOK, Location, Outcome, State, JoinTakes, Goto, Returns
  <2>4. QED
    BY <1>1, <2>1, <2>2, <2>3 DEF TypeOK, JoinTakes, ghostVars
<1>3. Blank'
  BY <1>1 DEF Blank, States, Joins, JoinTakes
<1>4. Places'
  BY <1>1 DEF TypeOK, Places, States, ghostVars, JoinTakes, Goto
<1>5. Roles'
  BY <1>1 DEF Roles, ghostVars, Joins, Detaches, Finalizes, JoinTakes, Goto
<1>6. States'
  BY <1>1 DEF TypeOK, Places, Roles, States, ghostVars, Joins, Detaches,
     Finalizes, JoinTakes, Goto
<1>7. Closure'
  BY <1>1 DEF TypeOK, Places, States, Closure, ghostVars, Taken, JoinTakes
<1>8. Results'
  BY <1>1 DEF Places, States, Results, ReferencesAccounted, Terminal, Joins,
     Finalizes, JoinFindsResult, JoinTakes, Returns
<1>9. ReferencesAccounted'
  BY <1>1 DEF ReferencesAccounted, ghostVars, JoinTakes, Goto
<1>10. QED
  BY <1>2, <1>3, <1>4, <1>5, <1>6, <1>7, <1>8, <1>9 DEF IInv

(* A detach that is refused changes nothing but its outcome. *)
LEMMA DetachRefusedKeeps ==
    ASSUME IInv, ~aborted, NEW t \in Thread, DetachRefused(t)
    PROVE  IInv'
<1>1. /\ TypeOK /\ Blank /\ Places /\ Roles /\ States
      /\ Closure /\ Results /\ ReferencesAccounted
  BY DEF IInv
<1>2. TypeOK'
  BY <1>1 DEF TypeOK, coreVars, ghostVars, Outcome, DetachRefused, Refused,
     Refuse, Returns
<1>3. Blank'
  BY <1>1 DEF Blank, coreVars, DetachRefused, Refused, Refuse
<1>4. Places'
  BY <1>1 DEF Places, coreVars, ghostVars, DetachRefused, Refuse
<1>5. Roles'
  BY <1>1 DEF Roles, ghostVars, Joins, Detaches, Finalizes, DetachRefused,
     Refuse
<1>6. States'
  BY <1>1 DEF States, coreVars, ghostVars, Joins, Detaches, DetachRefused,
     CanUse, Refuse
<1>7. Closure'
  BY <1>1 DEF Closure, coreVars, ghostVars, Taken, DetachRefused, Refuse
<1>8. Results'
  BY <1>1 DEF Results, coreVars, JoinFindsResult, DetachRefused, Refused,
     Refuse, Returns
<1>9. ReferencesAccounted'
  BY <1>1 DEF ReferencesAccounted, coreVars, ghostVars, DetachRefused, Refuse
<1>10. QED
  BY <1>2, <1>3, <1>4, <1>5, <1>6, <1>7, <1>8, <1>9 DEF IInv

(* A detach goes ahead only with a joinable thread. *)
LEMMA DetachKeeps ==
    ASSUME IInv, ~aborted, NEW t \in Thread, Detach(t)
    PROVE  IInv'
<1>1. /\ TypeOK /\ Blank /\ Places /\ Roles /\ States
      /\ Closure /\ Results /\ ReferencesAccounted
  BY DEF IInv
<1>2. TypeOK'
  BY <1>1 DEF TypeOK, ghostVars, State, Location, Detach, Goto
<1>3. Blank'
  BY <1>1 DEF Blank, Detach, CanUse
<1>4. Places'
  BY <1>1 DEF Places, ghostVars, Detach, CanUse, Goto, Home
<1>5. Roles'
  BY <1>1 DEF Roles, States, ghostVars, Joins, Detaches, Finalizes, Detach,
     CanUse, Refused, Goto
<1>6. States'
  BY <1>1 DEF TypeOK, Roles, States, ReferencesAccounted, ghostVars, Joins,
     Detaches, Finalizes, State, Detach, CanUse, Refused, Goto
<1>7. Closure'
  BY <1>1 DEF Closure, ghostVars, Taken, Terminal, Detach
<1>8. Results'
  BY <1>1 DEF Results, JoinFindsResult, Detach, Refused, Goto
<1>9. ReferencesAccounted'
  BY <1>1 DEF ReferencesAccounted, ghostVars, Detach, CanUse, Goto, Home
<1>10. QED
  BY <1>2, <1>3, <1>4, <1>5, <1>6, <1>7, <1>8, <1>9 DEF IInv

(* A failed pthread_detach leaves the thread joinable. *)
LEMMA DetachFailsKeeps ==
    ASSUME IInv, ~aborted, NEW t \in Thread, DetachFails(t)
    PROVE  IInv'
<1>1. /\ TypeOK /\ Blank /\ Places /\ Roles /\ States
      /\ Closure /\ Results /\ ReferencesAccounted
  BY DEF IInv
<1>2. TypeOK'
  BY <1>1 DEF TypeOK, ghostVars, State, Outcome, Location, DetachFails, Goto,
     Home, Returns
<1>3. Blank'
  BY <1>1 DEF Blank, States, DetachFails
<1>4. Places'
  BY <1>1, ThreadAssumption DEF Places, ghostVars, DetachFails, Goto, Home
<1>5. Roles'
  BY <1>1 DEF Roles, ghostVars, Joins, Detaches, Finalizes, DetachFails, Goto,
     Home
<1>6. States'
  BY <1>1 DEF TypeOK, Roles, States, ghostVars, Joins, Detaches, Finalizes,
     DetachFails, Goto, Home
<1>7. Closure'
  BY <1>1 DEF Closure, ghostVars, Taken, Terminal, DetachFails
<1>8. Results'
  BY <1>1 DEF States, Results, Detaches, JoinFindsResult, DetachFails, Goto,
     Home, Returns
<1>9. ReferencesAccounted'
  BY <1>1 DEF ReferencesAccounted, ghostVars, DetachFails, Goto, Home
<1>10. QED
  BY <1>2, <1>3, <1>4, <1>5, <1>6, <1>7, <1>8, <1>9 DEF IInv

(* pthread_detach returns. *)
LEMMA DetachCallsKeeps ==
    ASSUME IInv, ~aborted, NEW t \in Thread, DetachCalls(t)
    PROVE  IInv'
<1>1. /\ TypeOK /\ Blank /\ Places /\ Roles /\ States
      /\ Closure /\ Results /\ ReferencesAccounted
  BY DEF IInv
<1>2. TypeOK'
  BY <1>1 DEF TypeOK, coreVars, Location, DetachCalls, Goto
<1>3. Blank'
  BY <1>1 DEF Blank, States, coreVars, DetachCalls
<1>4. Places'
  BY <1>1 DEF Places, States, coreVars, DetachCalls, Goto
<1>5. Roles'
  BY <1>1 DEF Roles, Joins, Detaches, Finalizes, DetachCalls, Goto
<1>6. States'
  BY <1>1 DEF TypeOK, Roles, States, coreVars, Joins, Detaches, DetachCalls,
     Goto
<1>7. Closure'
  BY <1>1 DEF States, Closure, coreVars, Taken, DetachCalls
<1>8. Results'
  BY <1>1 DEF Results, coreVars, JoinFindsResult, DetachCalls, Goto
<1>9. ReferencesAccounted'
  BY <1>1 DEF States, ReferencesAccounted, coreVars, DetachCalls, Goto
<1>10. QED
  BY <1>2, <1>3, <1>4, <1>5, <1>6, <1>7, <1>8, <1>9 DEF IInv

(* The detacher takes the closure if the child has finished. *)
LEMMA DetachTakesKeeps ==
    ASSUME IInv, ~aborted, NEW t \in Thread, DetachTakes(t)
    PROVE  IInv'
<1>1. /\ TypeOK /\ Blank /\ Places /\ Roles /\ States
      /\ Closure /\ Results /\ ReferencesAccounted
  BY DEF IInv
<1>2. TypeOK'
  BY <1>1 DEF TypeOK, ghostVars, State, Outcome, Location, DetachTakes, Goto,
     Returns
<1>3. Blank'
  BY <1>1 DEF Blank, States, Detaches, DetachTakes
<1>4. Places'
  BY <1>1 DEF TypeOK, Places, ghostVars, DetachTakes, Goto
<1>5. Roles'
  BY <1>1 DEF Roles, ghostVars, Joins, Detaches, Finalizes, DetachTakes, Goto
<1>6. States'
  BY <1>1 DEF TypeOK, Roles, States, ghostVars, Joins, Detaches, Finalizes,
     DetachTakes, Goto
<1>7. Closure'
  BY <1>1 DEF TypeOK, Places, Closure, ghostVars, Taken, DetachTakes
<1>8. Results'
  BY <1>1 DEF States, Results, Detaches, JoinFindsResult, DetachTakes, Goto,
     Returns
<1>9. ReferencesAccounted'
  BY <1>1 DEF ReferencesAccounted, ghostVars, DetachTakes, Goto
<1>10. QED
  BY <1>2, <1>3, <1>4, <1>5, <1>6, <1>7, <1>8, <1>9 DEF IInv

(* The closure is released, with the child's reference to the handle if it was
in there. *)
LEMMA ReleaseTaskKeeps ==
    ASSUME IInv, ~aborted, NEW t \in Thread, ReleaseTask(t)
    PROVE  IInv'
<1>1. /\ TypeOK /\ Blank /\ Places /\ Roles /\ States
      /\ Closure /\ Results /\ ReferencesAccounted
  BY DEF IInv
<1>2. TypeOK'
  BY <1>1 DEF TypeOK, coreVars, Location, ReleaseTask, Goto
<1>3. Blank'
  BY <1>1 DEF Blank, coreVars, Taken, ReleaseTask
<1>4. Places'
  BY <1>1 DEF TypeOK, Places, coreVars, ReleaseTask, Goto
<1>5. Roles'
  BY <1>1 DEF Places, Roles, Joins, Detaches, Finalizes, ReleaseTask, Goto
<1>6. States'
  BY <1>1 DEF TypeOK, States, coreVars, Joins, Detaches, Finalizes,
     ReleaseTask, Goto
<1>7. Closure'
  BY <1>1 DEF TypeOK, Closure, coreVars, Taken, ReleaseTask
<1>8. Results'
  BY <1>1 DEF Results, coreVars, JoinFindsResult, ReleaseTask, Goto
<1>9. ReferencesAccounted'
  BY <1>1 DEF TypeOK, ReferencesAccounted, coreVars, ReleaseTask, Goto
<1>10. QED
  BY <1>2, <1>3, <1>4, <1>5, <1>6, <1>7, <1>8, <1>9 DEF IInv

(* The end of a join or a detach. *)
LEMMA ReturnToCallerKeeps ==
    ASSUME IInv, ~aborted, NEW t \in Thread, ReturnToCaller(t)
    PROVE  IInv'
<1>1. /\ TypeOK /\ Blank /\ Places /\ Roles /\ States
      /\ Closure /\ Results /\ ReferencesAccounted
  BY DEF IInv
<1>2. TypeOK'
  BY <1>1 DEF TypeOK, coreVars, ghostVars, Location, ReturnToCaller, Goto,
     Home
<1>3. Blank'
  BY <1>1 DEF Blank, coreVars, ghostVars, Taken, ReturnToCaller, Goto
<1>4. Places'
  BY <1>1, ThreadAssumption DEF Places, coreVars, ghostVars, ReturnToCaller,
     Goto, Home
<1>5. Roles'
  BY <1>1 DEF Roles, ghostVars, Joins, Detaches, Finalizes, ReturnToCaller,
     Goto, Home
<1>6. States'
  BY <1>1 DEF States, coreVars, ghostVars, Joins, Detaches, Finalizes,
     ReturnToCaller, Goto, Home
<1>7. Closure'
  BY <1>1 DEF Closure, coreVars, ghostVars, Taken, ReturnToCaller
<1>8. Results'
  BY <1>1 DEF Results, coreVars, JoinFindsResult, ReturnToCaller, Goto, Home
<1>9. ReferencesAccounted'
  BY <1>1 DEF ReferencesAccounted, coreVars, ghostVars, ReturnToCaller, Goto,
     Home
<1>10. QED
  BY <1>2, <1>3, <1>4, <1>5, <1>6, <1>7, <1>8, <1>9 DEF IInv

(* The child stores its outcome. *)
LEMMA ThreadCompleteKeeps ==
    ASSUME IInv, ~aborted, ThreadComplete
    PROVE  IInv'
<1>1. /\ TypeOK /\ Blank /\ Places /\ Roles /\ States
      /\ Closure /\ Results /\ ReferencesAccounted
  BY DEF IInv
<1>2. TypeOK'
  BY <1>1 DEF TypeOK, Thread, ghostVars, Location, ThreadComplete, Goto
<1>3. Blank'
  BY <1>1 DEF Blank, ghostVars, Taken, ThreadComplete, Goto
<1>4. Places'
  BY <1>1 DEF Places, ghostVars, ThreadComplete, Goto
<1>5. Roles'
  BY <1>1 DEF Roles, ghostVars, Joins, Detaches, Finalizes, ThreadComplete,
     Goto
<1>6. States'
  BY <1>1 DEF States, ghostVars, Joins, Detaches, Finalizes, ThreadComplete,
     Goto
<1>7. Closure'
  BY <1>1 DEF Closure, ghostVars, Taken, ThreadComplete
<1>8. Results'
  BY <1>1 DEF Results, JoinFindsResult, ThreadComplete
<1>9. ReferencesAccounted'
  BY <1>1 DEF ReferencesAccounted, ghostVars, ThreadComplete, Goto
<1>10. QED
  BY <1>2, <1>3, <1>4, <1>5, <1>6, <1>7, <1>8, <1>9 DEF IInv

(* The child takes the closure if the thread was detached. *)
LEMMA ThreadFinishKeeps ==
    ASSUME IInv, ~aborted, ThreadFinish
    PROVE  IInv'
<1>1. /\ TypeOK /\ Blank /\ Places /\ Roles /\ States
      /\ Closure /\ Results /\ ReferencesAccounted
  BY DEF IInv
<1>2. TypeOK'
  BY <1>1 DEF TypeOK, Thread, ghostVars, Location, ThreadFinish, Goto
<1>3. Blank'
  BY <1>1 DEF Blank, Places, ThreadFinish
<1>4. Places'
  BY <1>1 DEF TypeOK, Places, Thread, ghostVars, ThreadFinish, Goto
<1>5. Roles'
  BY <1>1 DEF Roles, ghostVars, Joins, Detaches, Finalizes, ThreadFinish, Goto
<1>6. States'
  BY <1>1 DEF States, ghostVars, Joins, Detaches, Finalizes, ThreadFinish,
     Goto
<1>7. Closure'
  BY <1>1 DEF TypeOK, Places, States, Closure, Thread, ghostVars, Taken,
     Terminal, ThreadFinish
<1>8. Results'
  BY <1>1 DEF Results, JoinFindsResult, ThreadFinish
<1>9. ReferencesAccounted'
  BY <1>1 DEF ReferencesAccounted, ghostVars, ThreadFinish, Goto
<1>10. QED
  BY <1>2, <1>3, <1>4, <1>5, <1>6, <1>7, <1>8, <1>9 DEF IInv

(* The child's reference to the core is released. *)
LEMMA ThreadExitKeeps ==
    ASSUME IInv, ~aborted, ThreadExit
    PROVE  IInv'
<1>1. /\ TypeOK /\ Blank /\ Places /\ Roles /\ States
      /\ Closure /\ Results /\ ReferencesAccounted
  BY DEF IInv
<1>2. TypeOK'
  <2>1. ReleaseCore /\ UNCHANGED <<taken, outcome>> /\ refs > 0
    BY <1>1, ThreadAssumption DEF ThreadExit, ReferencesAccounted, Places, TypeOK
  <2>2. pc' \in [Thread -> Location]
    BY <1>1 DEF TypeOK, Location, ThreadExit, Goto
  <2>3. QED
    BY <1>1, <2>1, <2>2, CoreTypes DEF TypeOK
<1>3. Blank'
  BY <1>1 DEF Blank, Places, ThreadExit, ReleaseCore
<1>4. Places'
  BY <1>1 DEF Places, ThreadExit, ReleaseCore, Goto
<1>5. Roles'
  BY <1>1 DEF Roles, Joins, Detaches, Finalizes, ThreadExit, ReleaseCore, Goto
<1>6. States'
  BY <1>1 DEF States, ReferencesAccounted, Joins, Detaches, Finalizes,
     ThreadExit, ReleaseCore, Goto
<1>7. Closure'
  BY <1>1 DEF Places, Closure, ReferencesAccounted, Taken, ThreadExit,
     ReleaseCore
<1>8. Results'
  BY <1>1 DEF Results, JoinFindsResult, ThreadExit, ReleaseCore, Goto
<1>9. ReferencesAccounted'
  BY <1>1 DEF TypeOK, Places, ReferencesAccounted, Thread, ThreadExit,
     ReleaseCore, Goto
<1>10. QED
  BY <1>2, <1>3, <1>4, <1>5, <1>6, <1>7, <1>8, <1>9 DEF IInv

-----------------------------------------------------------------------------
(* A step that changes nothing. *)
LEMMA StutterKeeps ==
    ASSUME IInv, UNCHANGED vars
    PROVE  IInv'
<1>1. /\ TypeOK /\ Blank /\ Places /\ Roles /\ States
      /\ Closure /\ Results /\ ReferencesAccounted
  BY DEF IInv
<1>2. TypeOK' /\ Blank' /\ Places'
  BY <1>1 DEF TypeOK, Blank, Places, Taken, vars, coreVars, ghostVars
<1>3. Roles' /\ States'
  BY <1>1 DEF Roles, States, Joins, Detaches, Finalizes, vars, coreVars, ghostVars
<1>4. Closure' /\ Results' /\ ReferencesAccounted'
  BY <1>1 DEF Closure, Taken, Results, JoinFindsResult, ReferencesAccounted,
     vars, coreVars, ghostVars
<1>5. QED
  BY <1>2, <1>3, <1>4 DEF IInv

(* Before spawn. *)
LEMMA InitIInv == Init => IInv
<1> SUFFICES ASSUME Init
             PROVE  IInv
  OBVIOUS
<1>1. TypeOK
  <2>1. finished \in BOOLEAN /\ task \in BOOLEAN /\ result \in BOOLEAN /\ aborted \in BOOLEAN
    BY Zenon DEF Init
  <2>2. pc \in [Thread -> Location] /\ taken \in [Thread -> BOOLEAN] /\ outcome \in [Thread -> Outcome]
    BY DEF Init, Location, Outcome
  <2>3. QED
    BY <2>1, <2>2 DEF Init, TypeOK, State
<1>2. Taken = {}
  BY DEF Init, Taken
<1>3. Blank /\ Places
  BY <1>2, ThreadAssumption DEF Init, Blank, Places, Thread
<1>4. Roles /\ States
  BY DEF Init, Roles, States, Joins, Detaches, Finalizes
<1>5. Closure /\ Results
  BY ThreadAssumption DEF Init, Closure, Results, JoinFindsResult, Thread
<1>6. ReferencesAccounted
  BY DEF Init, ReferencesAccounted
<1>7. QED
  BY <1>1, <1>3, <1>4, <1>5, <1>6 DEF IInv

(* Every step of a caller, of the system and of the child keeps IInv. *)
LEMMA NextIInv == IInv /\ [Next]_vars => IInv'
<1> SUFFICES ASSUME IInv, [Next]_vars
             PROVE  IInv'
  OBVIOUS
<1>1. ASSUME ~aborted, NEW s \in User, Spawn(s)
      PROVE  IInv'
  BY <1>1, SpawnCreatesKeeps, SpawnStartedKeeps, SpawnFailsKeeps DEF Spawn
<1>2. ASSUME ~aborted, NEW t \in Thread, Call(t)
      PROVE  IInv'
  BY <1>2, HandOverKeeps, DropKeeps, JoinRefusedKeeps, JoinKeeps, DetachRefusedKeeps,
     DetachKeeps DEF Call
<1>3. ASSUME ~aborted, NEW t \in Thread, Proceed(t)
      PROVE  IInv'
  BY <1>3, JoinWaitsKeeps, JoinTakesKeeps, DetachCallsKeeps, DetachTakesKeeps,
     ReleaseTaskKeeps, ReturnToCallerKeeps, FinalizeKeeps, FinalizerReleasesKeeps
     DEF Proceed
<1>4. ASSUME ~aborted, NEW t \in Thread, Fail(t)
      PROVE  IInv'
  BY <1>4, JoinFailsKeeps, DetachFailsKeeps DEF Fail
<1>5. CASE ~aborted /\ (ThreadComplete \/ ThreadFinish \/ ThreadExit)
  BY <1>5, ThreadCompleteKeeps, ThreadFinishKeeps, ThreadExitKeeps
<1>6. CASE Quiet \/ UNCHANGED vars
  BY <1>6, StutterKeeps DEF Quiet
<1>7. QED
  BY <1>1, <1>2, <1>3, <1>4, <1>5, <1>6 DEF Next

(* IInv holds in every reachable state. *)
THEOREM Invariance == Spec => []IInv
  BY InitIInv, NextIInv, PTL DEF Spec

-----------------------------------------------------------------------------
(* A set of threads that are all the same one has at most one member. *)
LEMMA AtMostOne ==
    ASSUME NEW S, \A t, u \in S : t = u
    PROVE  Cardinality(S) <= 1
<1>1. CASE S = {}
  BY <1>1, FS_EmptySet
<1>2. CASE S # {}
  <2>1. PICK t \in S : TRUE
    BY <1>2
  <2>2. S = {t}
    BY <2>1
  <2>3. Cardinality({t}) = 1
    BY FS_Singleton
  <2>4. QED
    BY <2>2, <2>3
<1>3. QED
  BY <1>1, <1>2

(* pthread_join and pthread_detach only ever get a joinable thread, one of  *)
(* them at a time, and only the drop of a joinable thread aborts.           *)
THEOREM OwnedOnceCorrect == Spec => []ThreadOwnedOnce
<1>1. IInv => ThreadOwnedOnce
  <2> SUFFICES ASSUME IInv
               PROVE  ThreadOwnedOnce
    OBVIOUS
  <2> DEFINE S == {t \in Thread : pc[t] \in {"joining", "joined", "detaching", "detached"}}
  <2>1. \A t, u \in S : t = u
    BY DEF IInv, Roles, Joins, Detaches
  <2>2. Cardinality(S) <= 1
    BY <2>1, AtMostOne
  <2>3. /\ aborted => os = "joinable"
        /\ \A t \in Thread : pc[t] \in {"joining", "detaching"} => os = "joinable"
    BY DEF IInv, States
  <2>4. QED
    BY <2>2, <2>3 DEF ThreadOwnedOnce
<1>2. QED
  BY Invariance, <1>1, PTL

(* The closure is released exactly once, by its one owner, after the child  *)
(* has run it and before the core goes.                                     *)
THEOREM ClosureCorrect == Spec => []ClosureReleasedOnce
<1>1. IInv => ClosureReleasedOnce
  <2> SUFFICES ASSUME IInv, core # "none"
               PROVE  /\ released + (IF task THEN 1 ELSE 0) + Cardinality(Taken) = 1
                      /\ pc[Child] \in {"running", "completed"} => task
                      /\ finished /\ state \in Terminal => ~task
    BY DEF ClosureReleasedOnce, Taken
  <2>1. Cardinality({}) = 0 /\ \A t \in Thread : Cardinality({t}) = 1
    BY FS_EmptySet, FS_Singleton
  <2>2. released + (IF task THEN 1 ELSE 0) + Cardinality(Taken) = 1
    BY <2>1 DEF IInv, Closure
  <2>3. pc[Child] \in {"running", "completed"} => task
    BY DEF IInv, Closure, Places
  <2>4. QED
    BY <2>2, <2>3 DEF IInv, Closure
<1>2. QED
  BY Invariance, <1>1, PTL

(* The core is live exactly while the handle or the child refers to it. *)
THEOREM ReferencesCorrect == Spec => []ReferencesAccounted
<1>1. IInv => ReferencesAccounted
  BY DEF IInv
<1>2. QED
  BY Invariance, <1>1, PTL

(* A join that succeeds always finds an outcome. *)
THEOREM JoinFindsResultCorrect == Spec => []JoinFindsResult
<1>1. IInv => JoinFindsResult
  BY DEF IInv, Results
<1>2. QED
  BY Invariance, <1>1, PTL

=============================================================================
