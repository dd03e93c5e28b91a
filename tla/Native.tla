------------------------------- MODULE Native -------------------------------
(***************************************************************************)
(* What the small primitives (wait group, once, mutex, condition variable, *)
(* read-write lock, atomics) share.  Each keeps its state in a core with   *)
(* an atomic reference count, which MoonBit reaches through handles: share *)
(* makes another handle for another thread, and the finalizer of the last  *)
(* handle frees the core.  An arc is that count together with the threads  *)
(* that have a handle, one each.  A thread asleep in sync_os_cond_wait is  *)
(* "waiting" in pc, and "woken" until it has the mutex again.              *)
(***************************************************************************)
EXTENDS Integers, FiniteSets

NoArc == [refs |-> 0, holders |-> {}, freed |-> FALSE]

(* core->refs = 1 *)
NewArc(t) == [refs |-> 1, holders |-> {t}, freed |-> FALSE]

(* sync_arc_inc *)
Shared(arc, u) ==
    [refs |-> arc.refs + 1, holders |-> arc.holders \cup {u}, freed |-> arc.freed]

(* Mutant of Dropped: the finalizer frees the core one handle too early.    *)
DroppedEarly(arc, t) ==
    [refs |-> arc.refs - 1, holders |-> arc.holders \ {t},
     freed |-> arc.freed \/ arc.refs <= 2]

(* sync_arc_dec(...) == 0 *)
Dropped(arc, t) ==
    [refs |-> arc.refs - 1, holders |-> arc.holders \ {t},
     freed |-> arc.freed \/ arc.refs = 1]

Existing(arc) == arc.refs > 0 \/ arc.freed

ArcOf(threads) == [refs : Nat, holders : SUBSET threads, freed : BOOLEAN]

(* The count is the number of handles, and the core is freed with the last  *)
(* of them: never under a thread that has one, and it does not leak.        *)
Accounted(arc) ==
    /\ arc.refs = Cardinality(arc.holders)
    /\ arc.freed => arc.refs = 0

-----------------------------------------------------------------------------
(* Mutant of Woken: a signal in place of the broadcast.                     *)
WokenOne(pc, threads) ==
    LET waiting == {t \in threads : pc[t] = "waiting"}
    IN  [t \in DOMAIN pc |->
            IF waiting # {} /\ t = CHOOSE u \in waiting : TRUE THEN "woken" ELSE pc[t]]

(* sync_os_cond_broadcast; for one thread sync_os_cond_signal, or a         *)
(* spurious wake-up.                                                        *)
Woken(pc, threads) ==
    [t \in DOMAIN pc |->
        IF t \in threads /\ pc[t] = "waiting" THEN "woken" ELSE pc[t]]

(* Whether a call that wakes succeeds.                                      *)
Notified(fault) == IF "signal" \in fault THEN BOOLEAN ELSE {TRUE}

=============================================================================
