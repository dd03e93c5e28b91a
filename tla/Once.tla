-------------------------------- MODULE Once --------------------------------
(***************************************************************************)
(* The once of src/unsafe/once: call_once over the native begin, complete  *)
(* and poison.  An action is one critical section.  The initializer is the *)
(* user's: it may return, raise, and call call_once on the same Once again *)
(* (a thread in it is in inside, whatever call it is making).  Names that  *)
(* other modules have too are prefixed, so that this one can be used       *)
(* beside them.                                                            *)
(***************************************************************************)
EXTENDS Native

CONSTANTS
    OnceThread,
    OnceFault       \* which system calls may fail or misbehave

ASSUME OnceAssumption ==
    /\ IsFiniteSet(OnceThread)
    /\ OnceFault \subseteq {"lock", "wait", "signal", "spurious"}

VARIABLES
    onceArc,        \* the core's reference count and handles
    state,          \* 0 .. 3 in the code, in this order
    oncePc,         \* where each thread is
    onceInside,         \* the threads whose initializer is on their stack
    onceOutcome,    \* what their last call_once returned or raised
    runs,           \* ghost: how often an initializer was started
    ended,          \* ghost: how it ended
    onceMuted,      \* ghost: a broadcast has failed
    abandoned       \* ghost: complete or poison could not take the mutex

ghosts == <<runs, ended, onceMuted, abandoned>>
onceVars == <<onceArc, state, oncePc, onceInside, onceOutcome, ghosts>>

OnceTypeOK ==
    /\ onceArc \in ArcOf(OnceThread)
    /\ state \in {"fresh", "running", "done", "poisoned"}
    /\ oncePc \in [OnceThread -> {"idle", "waiting", "woken", "calling",
                                  "completing", "poisoning"}]
    /\ onceInside \in SUBSET OnceThread
    /\ onceOutcome \in [OnceThread -> {"None", "Ok", "Raised", "Poisoned", "Failed"}]
    /\ runs \in Nat
    /\ ended \in {"no", "returned", "raised"}
    /\ onceMuted \in BOOLEAN
    /\ abandoned \in BOOLEAN

OnceInit ==
    /\ onceArc = NoArc
    /\ state = "fresh"
    /\ oncePc = [t \in OnceThread |-> "idle"]
    /\ onceInside = {}
    /\ onceOutcome = [t \in OnceThread |-> "None"]
    /\ runs = 0
    /\ ended = "no"
    /\ onceMuted = FALSE
    /\ abandoned = FALSE

(* Where a thread continues when call_once returns.                         *)
OnceHome(t) == IF t \in onceInside THEN "calling" ELSE "idle"

OnceGoto(t, where) == oncePc' = [oncePc EXCEPT ![t] = where]

OnceReturn(t, what) == onceOutcome' = [onceOutcome EXCEPT ![t] = what]

-----------------------------------------------------------------------------
(* Handles.  A new that fails frees what it made and leaves no state.       *)

OnceNew(t) ==
    /\ ~Existing(onceArc)
    /\ onceArc' = NewArc(t)
    /\ UNCHANGED <<state, oncePc, onceInside, onceOutcome, ghosts>>

OnceShare(t, u) ==
    /\ t \in onceArc.holders
    /\ oncePc[t] = OnceHome(t)
    /\ u \notin onceArc.holders
    /\ onceArc' = Shared(onceArc, u)
    /\ UNCHANGED <<state, oncePc, onceInside, onceOutcome, ghosts>>

(* call_once borrows its handle.                                            *)
OnceFinalize(t) ==
    /\ t \in onceArc.holders
    /\ oncePc[t] = "idle"
    /\ onceArc' = Dropped(onceArc, t)
    /\ UNCHANGED <<state, oncePc, onceInside, onceOutcome, ghosts>>

-----------------------------------------------------------------------------
(* begin *)

OnceCanCall(t) == t \in onceArc.holders /\ oncePc[t] = OnceHome(t)

InBegin(t) == OnceCanCall(t) \/ oncePc[t] = "woken"

(* An injected error, a lock that fails, or a wait that does.               *)
BeginFails(t) ==
    /\ \/ "lock" \in OnceFault /\ OnceCanCall(t)
       \/ "wait" \in OnceFault /\ InBegin(t) /\ state = "running"
    /\ OnceGoto(t, OnceHome(t))
    /\ OnceReturn(t, "Failed")
    /\ UNCHANGED <<onceArc, state, onceInside, ghosts>>

BeginWaits(t) ==
    /\ InBegin(t)
    /\ state = "running"
    /\ OnceGoto(t, "waiting")
    /\ UNCHANGED <<onceArc, state, onceInside, onceOutcome, ghosts>>

(* The winner runs the initializer outside the mutex.                       *)
BeginRuns(t) ==
    /\ InBegin(t)
    /\ state = "fresh"
    /\ state' = "running"
    /\ onceInside' = onceInside \cup {t}
    /\ runs' = runs + 1
    /\ OnceGoto(t, "calling")
    /\ UNCHANGED <<onceArc, onceOutcome, ended, onceMuted, abandoned>>

BeginReturns(t) ==
    /\ InBegin(t)
    /\ state \in {"done", "poisoned"}
    /\ OnceGoto(t, OnceHome(t))
    /\ OnceReturn(t, IF state = "done" THEN "Ok" ELSE "Poisoned")
    /\ UNCHANGED <<onceArc, state, onceInside, ghosts>>

OnceSpuriousWake(t) ==
    /\ "spurious" \in OnceFault
    /\ oncePc[t] = "waiting"
    /\ oncePc' = Woken(oncePc, {t})
    /\ UNCHANGED <<onceArc, state, onceInside, onceOutcome, ghosts>>

-----------------------------------------------------------------------------
(* The initializer, and complete or poison after it.                        *)

CallbackReturns(t) ==
    /\ oncePc[t] = "calling"
    /\ ended' = "returned"
    /\ OnceGoto(t, "completing")
    /\ UNCHANGED <<onceArc, state, onceInside, onceOutcome, runs, onceMuted, abandoned>>

(* Mutant of CallbackRaises: the error leaves call_once without poison.     *)
RaiseEscapes(t) ==
    /\ oncePc[t] = "calling"
    /\ ended' = "raised"
    /\ onceInside' = onceInside \ {t}
    /\ OnceGoto(t, "idle")
    /\ OnceReturn(t, "Raised")
    /\ UNCHANGED <<onceArc, state, runs, onceMuted, abandoned>>

CallbackRaises(t) ==
    /\ oncePc[t] = "calling"
    /\ ended' = "raised"
    /\ OnceGoto(t, "poisoning")
    /\ UNCHANGED <<onceArc, state, onceInside, onceOutcome, runs, onceMuted, abandoned>>

(* The new state is set before the broadcast, and stays when that fails.    *)
Settle(t, newState, what) ==
    /\ state' = newState
    /\ onceInside' = onceInside \ {t}
    /\ \E ok \in Notified(OnceFault) :
         /\ oncePc' = [Woken(oncePc, IF ok THEN OnceThread ELSE {}) EXCEPT ![t] = "idle"]
         /\ OnceReturn(t, IF ok THEN what ELSE "Failed")
         /\ onceMuted' = (onceMuted \/ ~ok)
    /\ UNCHANGED <<onceArc, runs, ended, abandoned>>

Complete(t) == oncePc[t] = "completing" /\ Settle(t, "done", "Ok")

(* Mutant of Poison: the state returns to fresh, for the next caller to try.*)
PoisonResets(t) == oncePc[t] = "poisoning" /\ Settle(t, "fresh", "Raised")

Poison(t) == oncePc[t] = "poisoning" /\ Settle(t, "poisoned", "Raised")

(* The mutex cannot be taken: the error is raised and the state stays as it *)
(* was, running with nobody left to end it.                                 *)
SettleFails(t) ==
    /\ "lock" \in OnceFault
    /\ oncePc[t] \in {"completing", "poisoning"}
    /\ onceInside' = onceInside \ {t}
    /\ abandoned' = TRUE
    /\ OnceGoto(t, "idle")
    /\ OnceReturn(t, "Failed")
    /\ UNCHANGED <<onceArc, state, runs, ended, onceMuted>>

-----------------------------------------------------------------------------
Begins(t) == BeginWaits(t) \/ BeginRuns(t) \/ BeginReturns(t)

Settles(t) == Complete(t) \/ Poison(t)

OnceThreadNext(t) ==
    \/ OnceNew(t)
    \/ \E u \in OnceThread : OnceShare(t, u)
    \/ OnceFinalize(t)
    \/ Begins(t)
    \/ BeginFails(t)
    \/ OnceSpuriousWake(t)
    \/ CallbackReturns(t)
    \/ CallbackRaises(t)
    \/ Settles(t)
    \/ SettleFails(t)

OnceNext == \E t \in OnceThread : OnceThreadNext(t)

OnceSpec == OnceInit /\ [][OnceNext]_onceVars

-----------------------------------------------------------------------------
(* Safety.                                                                  *)

(* One initializer is started at most, whoever races, fails or poisons, and *)
(* every caller is told the truth about it: Ok only after it has returned,  *)
(* OncePoisoned only after it has raised, and the state never claims either *)
(* early.                                                                   *)
OutcomesTrue ==
    /\ runs <= 1
    /\ state = "done" => ended = "returned"
    /\ state = "poisoned" => ended = "raised"
    /\ \A t \in OnceThread :
         /\ onceOutcome[t] = "Ok" => state = "done"
         /\ onceOutcome[t] = "Poisoned" => state = "poisoned"

(* A caller sleeps only while the initializer runs, and it runs only while  *)
(* its thread is there to end it: the exceptions are a broadcast that       *)
(* failed, and a complete or poison that could not take the mutex.          *)
SleepersHaveRunner ==
    /\ ~onceMuted => \A t \in OnceThread : oncePc[t] = "waiting" => state = "running"
    /\ ~abandoned /\ state = "running" => onceInside # {}

(* The core is freed with the last handle, not under a caller or the        *)
(* initializer.                                                             *)
CoreOutlivesCallers ==
    /\ Accounted(onceArc)
    /\ \A t \in OnceThread : oncePc[t] # "idle" => t \in onceArc.holders

(* What the three above rest on: who is inside, and what state that means.  *)
RunnerKnown ==
    /\ \A t \in OnceThread :
         /\ oncePc[t] \in {"calling", "completing", "poisoning"} => t \in onceInside
         /\ t \in onceInside => oncePc[t] # "idle"
         /\ oncePc[t] = "completing" => ended = "returned"
         /\ oncePc[t] = "poisoning" => ended = "raised"
    /\ onceInside # {} => state = "running"
    /\ state = "fresh" <=> runs = 0
    /\ \A t, u \in onceInside : t = u

OnceInv ==
    /\ OnceTypeOK
    /\ OutcomesTrue
    /\ SleepersHaveRunner
    /\ CoreOutlivesCallers
    /\ RunnerKnown

-----------------------------------------------------------------------------
(* Liveness.  A thread that is woken, or ready to complete or poison, goes  *)
(* on; the initializer ends.  Nothing is assumed about who calls, and no    *)
(* failure or spurious wake-up is relied on.                                *)

OnceFairness ==
    \A t \in OnceThread :
       /\ WF_onceVars(oncePc[t] = "woken" /\ Begins(t))
       /\ WF_onceVars(Settles(t))
       /\ WF_onceVars(CallbackReturns(t) \/ CallbackRaises(t))

OnceFairSpec == OnceSpec /\ OnceFairness

(* The initializer has called call_once on its own Once: begin waits for    *)
(* itself.                                                                  *)
Reentered == \E t \in onceInside : oncePc[t] \in {"waiting", "woken"}

(* Every caller that waits for another thread's initializer is released,    *)
(* whether it returns or raises.  The ways to sleep for ever are the ones   *)
(* named here: reentry, a failed broadcast, an abandoned Once.              *)
CallersReturn ==
    \A t \in OnceThread :
        oncePc[t] = "waiting" ~> (oncePc[t] = OnceHome(t) \/ Reentered \/ onceMuted \/ abandoned)

=============================================================================
