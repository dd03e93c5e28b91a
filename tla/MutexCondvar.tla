---------------------------- MODULE MutexCondvar ----------------------------
(***************************************************************************)
(* The mutex and the condition variable of src/unsafe/mutex: with_lock     *)
(* around a user's callback, wait, and the two notifies.  The core keeps   *)
(* two fields beside the OS mutex, owner and locked, that condvar_wait     *)
(* reads without holding it: a write or a read of one of them is a step of *)
(* its own, the two writes of a pair in either order.  The callback may    *)
(* return, raise and wait; and a thread may call wait outside any callback *)
(* (condvar_wait_unchecked, or a guard another thread passed on).          *)
(***************************************************************************)
EXTENDS Native

CONSTANTS
    Thread,
    NoThread,   \* the OS mutex is free; owner = 0
    Fault       \* which system calls may fail or misbehave

ASSUME MutexAssumption ==
    /\ IsFiniteSet(Thread)
    /\ NoThread \notin Thread
    /\ Fault \subseteq {"lock", "wait", "signal", "spurious"}

VARIABLES
    arc,        \* the mutex core's reference count and handles
    box,        \* references to the boxed value
    condArc,    \* the condition variable core's
    mutex,      \* the thread that holds the OS mutex
    owner,
    locked,
    pc,         \* where each thread is
    inside,     \* the threads in a with_lock callback
    pending,    \* the fields a thread has still to write
    outcome,    \* what their last wait raised
    misused     \* ghost: cond_wait was called by a thread without the mutex

fields == <<owner, locked>>
handles == <<arc, box, condArc>>
vars == <<handles, mutex, fields, pc, inside, pending, outcome, misused>>

Field == {"owner", "locked"}

TypeOK ==
    /\ arc \in ArcOf(Thread)
    /\ box \in Nat
    /\ condArc \in ArcOf(Thread)
    /\ mutex \in Thread \cup {NoThread}
    /\ owner \in Thread \cup {NoThread}
    /\ locked \in BOOLEAN
    /\ pc \in [Thread -> {"idle", "entering", "callback", "checking",
                          "waiting", "woken", "leaving"}]
    /\ inside \in SUBSET Thread
    /\ pending \in [Thread -> SUBSET Field]
    /\ outcome \in [Thread -> {"None", "Ok", "NotOwner", "Failed"}]
    /\ misused \in BOOLEAN

Init ==
    /\ arc = NoArc
    /\ box = 0
    /\ condArc = NoArc
    /\ mutex = NoThread
    /\ owner = NoThread
    /\ locked = FALSE
    /\ pc = [t \in Thread |-> "idle"]
    /\ inside = {}
    /\ pending = [t \in Thread |-> {}]
    /\ outcome = [t \in Thread |-> "None"]
    /\ misused = FALSE

(* Where a thread continues when wait returns.                              *)
Home(t) == IF t \in inside THEN "callback" ELSE "idle"

Goto(t, where) == pc' = [pc EXCEPT ![t] = where]

Return(t, what) == outcome' = [outcome EXCEPT ![t] = what]

Ready(t) == t \in arc.holders /\ pc[t] = Home(t)

-----------------------------------------------------------------------------
(* Handles.  A new that fails frees what it made and leaves no state.       *)

New(t) ==
    /\ ~Existing(arc)
    /\ arc' = NewArc(t)
    /\ box' = 1
    /\ UNCHANGED <<condArc, mutex, fields, pc, inside, pending, outcome, misused>>

CondNew(t) ==
    /\ pc[t] = Home(t)
    /\ ~Existing(condArc)
    /\ condArc' = NewArc(t)
    /\ UNCHANGED <<arc, box, mutex, fields, pc, inside, pending, outcome, misused>>

Share(t, u) ==
    /\ Ready(t)
    /\ u \notin arc.holders
    /\ arc' = Shared(arc, u)
    /\ UNCHANGED <<box, condArc, mutex, fields, pc, inside, pending, outcome, misused>>

CondShare(t, u) ==
    /\ t \in condArc.holders
    /\ pc[t] = Home(t)
    /\ u \notin condArc.holders
    /\ condArc' = Shared(condArc, u)
    /\ UNCHANGED <<arc, box, mutex, fields, pc, inside, pending, outcome, misused>>

(* The last handle of the mutex also drops the core's reference to the box. *)
Finalize(t) ==
    /\ Ready(t)
    /\ t \notin inside
    /\ arc' = Dropped(arc, t)
    /\ box' = IF arc'.freed THEN box - 1 ELSE box
    /\ UNCHANGED <<condArc, mutex, fields, pc, inside, pending, outcome, misused>>

CondFinalize(t) ==
    /\ t \in condArc.holders
    /\ pc[t] = Home(t)
    /\ condArc' = Dropped(condArc, t)
    /\ UNCHANGED <<arc, box, mutex, fields, pc, inside, pending, outcome, misused>>

-----------------------------------------------------------------------------
(* with_lock: take the OS mutex, write the fields, run the callback, clear  *)
(* the fields, release.  The mutex is not recursive: a callback that calls  *)
(* with_lock on the same mutex is outside what the code supports.           *)

Lock(t) ==
    /\ Ready(t)
    /\ t \notin inside
    /\ mutex = NoThread
    /\ mutex' = t
    /\ Goto(t, "entering")
    /\ pending' = [pending EXCEPT ![t] = Field]
    /\ UNCHANGED <<handles, fields, inside, outcome, misused>>

(* The callback does not run.                                               *)
LockFails(t) ==
    /\ "lock" \in Fault
    /\ Ready(t)
    /\ t \notin inside
    /\ Return(t, "Failed")
    /\ UNCHANGED <<handles, mutex, fields, pc, inside, pending, misused>>

(* One of the two stores of lock_get, or of condvar_wait when it returns.   *)
WriteField(t, f) ==
    /\ pc[t] = "entering"
    /\ f \in pending[t]
    /\ owner' = IF f = "owner" THEN t ELSE owner
    /\ locked' = (f = "locked" \/ locked)
    /\ pending' = [pending EXCEPT ![t] = @ \ {f}]
    /\ UNCHANGED <<handles, mutex, pc, inside, outcome, misused>>

(* The callback starts, with a guard: a reference to the box and a handle   *)
(* of its own.                                                              *)
Enter(t) ==
    /\ pc[t] = "entering"
    /\ pending[t] = {}
    /\ t \notin inside
    /\ box' = box + 1
    /\ arc' = [arc EXCEPT !.refs = @ + 1]
    /\ inside' = inside \cup {t}
    /\ Return(t, "None")
    /\ Goto(t, "callback")
    /\ UNCHANGED <<condArc, mutex, fields, pending, misused>>

WaitReturns(t) ==
    /\ pc[t] = "entering"
    /\ pending[t] = {}
    /\ t \in inside
    /\ Return(t, "Ok")
    /\ Goto(t, "callback")
    /\ UNCHANGED <<handles, mutex, fields, inside, pending, misused>>

(* Mutant of CallbackEnds: a raised error skips the release.                *)
RaiseSkipsRelease(t) ==
    /\ pc[t] = "callback"
    /\ \/ /\ Goto(t, "leaving")
          /\ pending' = [pending EXCEPT ![t] = Field]
          /\ box' = box - 1
          /\ UNCHANGED inside
       \/ /\ Goto(t, "idle")
          /\ inside' = inside \ {t}
          /\ UNCHANGED <<pending, box>>
    /\ arc' = [arc EXCEPT !.refs = @ - 1]
    /\ UNCHANGED <<condArc, mutex, fields, outcome, misused>>

(* The callback returns or raises, and its guard goes: both paths call      *)
(* release_unlock, which drops the reference to the box first.              *)
CallbackEnds(t) ==
    /\ pc[t] = "callback"
    /\ Goto(t, "leaving")
    /\ pending' = [pending EXCEPT ![t] = Field]
    /\ box' = box - 1
    /\ arc' = [arc EXCEPT !.refs = @ - 1]
    /\ UNCHANGED <<condArc, mutex, fields, inside, outcome, misused>>

ClearField(t, f) ==
    /\ pc[t] = "leaving"
    /\ f \in pending[t]
    /\ owner' = IF f = "owner" THEN NoThread ELSE owner
    /\ locked' = (f # "locked" /\ locked)
    /\ pending' = [pending EXCEPT ![t] = @ \ {f}]
    /\ UNCHANGED <<handles, mutex, pc, inside, outcome, misused>>

(* Mutant of Unlock: the mutex is released before the fields are cleared.   *)
UnlockFirst(t) ==
    /\ pc[t] = "leaving"
    /\ mutex = t
    /\ mutex' = NoThread
    /\ inside' = IF pending[t] = {} THEN inside \ {t} ELSE inside
    /\ pc' = IF pending[t] = {} THEN [pc EXCEPT ![t] = "idle"] ELSE pc
    /\ UNCHANGED <<handles, fields, pending, outcome, misused>>

Unlock(t) ==
    /\ pc[t] = "leaving"
    /\ pending[t] = {}
    /\ mutex' = NoThread
    /\ inside' = inside \ {t}
    /\ Goto(t, "idle")
    /\ UNCHANGED <<handles, fields, pending, outcome, misused>>

-----------------------------------------------------------------------------
(* condvar_wait, from inside a callback or from outside any.                *)

CanWait(t) == Ready(t) /\ t \in condArc.holders

ReadLocked(t) ==
    /\ CanWait(t)
    /\ IF locked THEN Goto(t, "checking") /\ UNCHANGED outcome
                 ELSE Return(t, "NotOwner") /\ UNCHANGED pc
    /\ UNCHANGED <<handles, mutex, fields, inside, pending, misused>>

ReadOwnerRefuses(t) ==
    /\ pc[t] = "checking"
    /\ owner # t
    /\ Goto(t, Home(t))
    /\ Return(t, "NotOwner")
    /\ UNCHANGED <<handles, mutex, fields, inside, pending, misused>>

WaitStarts(t) ==
    /\ pc[t] = "checking"
    /\ owner = t
    /\ misused' = (misused \/ mutex # t)
    /\ mutex' = IF mutex = t THEN NoThread ELSE mutex
    /\ Goto(t, "waiting")
    /\ UNCHANGED <<handles, fields, inside, pending, outcome>>

(* cond_wait refuses at once; the OS mutex stays with the caller.           *)
WaitFails(t) ==
    /\ "wait" \in Fault
    /\ pc[t] = "checking"
    /\ owner = t
    /\ misused' = (misused \/ mutex # t)
    /\ Goto(t, Home(t))
    /\ Return(t, "Failed")
    /\ UNCHANGED <<handles, mutex, fields, inside, pending>>

WaitReacquires(t) ==
    /\ pc[t] = "woken"
    /\ mutex = NoThread
    /\ mutex' = t
    /\ Goto(t, "entering")
    /\ pending' = [pending EXCEPT ![t] = Field]
    /\ UNCHANGED <<handles, fields, inside, outcome, misused>>

(* notify_one wakes a waiter if there is one, notify_all every one; an      *)
(* error wakes none.  Neither needs the mutex.                              *)
Notify(t, threads) ==
    /\ t \in condArc.holders
    /\ pc[t] = Home(t)
    /\ \E ok \in Notified(Fault) : pc' = Woken(pc, IF ok THEN threads ELSE {})
    /\ UNCHANGED <<handles, mutex, fields, inside, pending, outcome, misused>>

SpuriousWake(t) ==
    /\ "spurious" \in Fault
    /\ pc[t] = "waiting"
    /\ pc' = Woken(pc, {t})
    /\ UNCHANGED <<handles, mutex, fields, inside, pending, outcome, misused>>

-----------------------------------------------------------------------------
Fields(t) == \E f \in Field : WriteField(t, f) \/ ClearField(t, f)

Checks(t) == ReadOwnerRefuses(t) \/ WaitStarts(t)

ThreadNext(t) ==
    \/ New(t) \/ Finalize(t) \/ CondNew(t) \/ CondFinalize(t)
    \/ \E u \in Thread : Share(t, u) \/ CondShare(t, u)
    \/ Lock(t)
    \/ LockFails(t)
    \/ Fields(t)
    \/ Enter(t)
    \/ WaitReturns(t)
    \/ CallbackEnds(t)
    \/ Unlock(t)
    \/ ReadLocked(t)
    \/ Checks(t)
    \/ WaitFails(t)
    \/ WaitReacquires(t)
    \/ \E u \in Thread : Notify(t, {u})
    \/ Notify(t, Thread)
    \/ SpuriousWake(t)

Next == \E t \in Thread : ThreadNext(t)

Spec == Init /\ [][Next]_vars

-----------------------------------------------------------------------------
(* Safety.                                                                  *)

(* The unsynchronized check of condvar_wait is exact whatever the other     *)
(* threads write meanwhile: cond_wait is never reached without the mutex,   *)
(* and a callback that waits is never told that it does not own it, after   *)
(* any number of waits.                                                     *)
OwnerCheckExact ==
    /\ ~misused
    /\ \A t \in inside : outcome[t] # "NotOwner"

(* The threads that are between a lock and its unlock and not asleep.       *)
Critical(t) ==
    \/ pc[t] \in {"entering", "leaving"}
    \/ t \in inside /\ pc[t] \in {"callback", "checking"}

(* Callbacks exclude each other, also when some of them wait in between,    *)
(* and nothing keeps the mutex behind: a callback that raised or whose wait *)
(* failed has released it once with_lock is over.                           *)
HeldWhileCritical == \A t \in Thread : Critical(t) <=> mutex = t

InCallback == {t \in inside : pc[t] # "leaving"}

(* Every guard has one reference to the value and one handle, returned when *)
(* its callback ends: the value is freed with the core, once, and neither   *)
(* core under a thread that uses it.                                        *)
GuardsAccounted ==
    /\ arc.refs = Cardinality(arc.holders) + Cardinality(InCallback)
    /\ box = Cardinality(InCallback) + IF arc.refs > 0 THEN 1 ELSE 0
    /\ arc.freed => arc.refs = 0
    /\ Accounted(condArc)
    /\ \A t \in Thread :
         /\ pc[t] # "idle" => t \in arc.holders
         /\ pc[t] \in {"checking", "waiting", "woken"} => t \in condArc.holders

(* What OwnerCheckExact rests on: only the thread itself writes its name    *)
(* into owner, and a thread that owns the mutex and has written both fields *)
(* finds them as it left them.                                              *)
FieldsKnown ==
    /\ \A t \in Thread :
         /\ pending[t] # {} => pc[t] \in {"entering", "leaving"}
         /\ pc[t] \in {"callback", "waiting", "woken", "leaving"} => t \in inside
         /\ t \in inside => pc[t] # "idle"
         /\ owner = t => t \in inside \/ pc[t] = "entering"
         /\ mutex = t /\ pc[t] \in {"callback", "checking"} => locked /\ owner = t
         /\ pc[t] = "entering" =>
               /\ "owner" \notin pending[t] => owner = t
               /\ "locked" \notin pending[t] => locked
         /\ pc[t] = "leaving" /\ "owner" \notin pending[t] => owner # t

IInv == TypeOK /\ OwnerCheckExact /\ HeldWhileCritical /\ GuardsAccounted /\ FieldsKnown

-----------------------------------------------------------------------------
(* Liveness.  A thread goes on with what it is in the middle of, callbacks  *)
(* end (they may wait before), and the OS mutex does not pass over a woken  *)
(* waiter for ever.  Nobody is assumed to lock, wait or notify.             *)

Fairness ==
    \A t \in Thread :
       /\ WF_vars(Fields(t) \/ Enter(t) \/ WaitReturns(t) \/ Unlock(t))
       /\ WF_vars(Checks(t))
       /\ SF_vars(CallbackEnds(t))
       /\ SF_vars(WaitReacquires(t))

FairSpec == Spec /\ Fairness

(* A wait that was woken returns to its callback, with the mutex.           *)
WokenReacquires ==
    \A t \in Thread : pc[t] = "woken" ~> (pc[t] = "callback" /\ mutex = t)

=============================================================================
