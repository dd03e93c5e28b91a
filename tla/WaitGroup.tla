----------------------------- MODULE WaitGroup ------------------------------
(***************************************************************************)
(* The wait group of src/wait_group: a counter, a mutex and one condition  *)
(* variable.  An action is one critical section; a call starts with its    *)
(* first one, and only wait has more than one.                             *)
(***************************************************************************)
EXTENDS Native

CONSTANTS
    WgThread,
    MaxCount,   \* INT32_MAX
    Delta,      \* what add is called with; done is add(-1)
    WgFault       \* which system calls may fail or misbehave

ASSUME WaitGroupAssumption ==
    /\ IsFiniteSet(WgThread)
    /\ MaxCount \in Nat
    /\ Delta \subseteq Int
    /\ WgFault \subseteq {"lock", "wait", "signal", "spurious"}

VARIABLES
    wgArc,       \* the core's reference count and handles
    count,
    wgPc,        \* where each thread is
    wgOutcome,   \* what its last add or wait returned
    balance,   \* ghost: sum of the deltas of the adds that returned Ok, since
               \* the last one that failed after it had reached zero
    muted      \* ghost: a broadcast has failed

wgVars == <<wgArc, count, wgPc, wgOutcome, balance, muted>>

WgTypeOK ==
    /\ wgArc \in ArcOf(WgThread)
    /\ count \in 0 .. MaxCount
    /\ wgPc \in [WgThread -> {"idle", "waiting", "woken"}]
    /\ wgOutcome \in [WgThread -> {"None", "Ok", "InvalidCount", "Failed"}]
    /\ balance \in Int
    /\ muted \in BOOLEAN

WgInit ==
    /\ wgArc = NoArc
    /\ count = 0
    /\ wgPc = [t \in WgThread |-> "idle"]
    /\ wgOutcome = [t \in WgThread |-> "None"]
    /\ balance = 0
    /\ muted = FALSE

CanCall(t) == t \in wgArc.holders /\ wgPc[t] = "idle"

WgReturn(t, what) == wgOutcome' = [wgOutcome EXCEPT ![t] = what]

-----------------------------------------------------------------------------
(* Handles.  A new that fails frees what it made and leaves no state.       *)

WgNew(t) ==
    /\ ~Existing(wgArc)
    /\ wgArc' = NewArc(t)
    /\ UNCHANGED <<count, wgPc, wgOutcome, balance, muted>>

WgShare(t, u) ==
    /\ CanCall(t)
    /\ u \notin wgArc.holders
    /\ wgArc' = Shared(wgArc, u)
    /\ UNCHANGED <<count, wgPc, wgOutcome, balance, muted>>

WgFinalize(t) ==
    /\ CanCall(t)
    /\ wgArc' = Dropped(wgArc, t)
    /\ UNCHANGED <<count, wgPc, wgOutcome, balance, muted>>

-----------------------------------------------------------------------------
(* add and done.  The sum is taken in 64 bits.                              *)

(* Mutant of NextCount: it is taken in 32 bits and wraps around.            *)
NextCountWrapped(d) ==
    ((count + d + MaxCount + 1) % (2 * (MaxCount + 1))) - MaxCount - 1

NextCount(d) == count + d

Refused(d) == NextCount(d) < 0 \/ NextCount(d) > MaxCount

(* An injected error, or the lock fails.                                    *)
AddFails(t) ==
    /\ "lock" \in WgFault
    /\ CanCall(t)
    /\ WgReturn(t, "Failed")
    /\ UNCHANGED <<wgArc, count, wgPc, balance, muted>>

AddRefused(t, d) ==
    /\ CanCall(t)
    /\ Refused(d)
    /\ WgReturn(t, "InvalidCount")
    /\ UNCHANGED <<wgArc, count, wgPc, balance, muted>>

(* Reaching zero wakes every waiter.  When the broadcast fails, add reports *)
(* the error although the counter has changed.                              *)
Add(t, d) ==
    /\ CanCall(t)
    /\ ~Refused(d)
    /\ count' = NextCount(d)
    /\ \E ok \in IF count' = 0 THEN Notified(WgFault) ELSE {TRUE} :
         /\ wgPc' = Woken(wgPc, IF count' = 0 /\ ok THEN WgThread ELSE {})
         /\ WgReturn(t, IF ok THEN "Ok" ELSE "Failed")
         /\ balance' = IF ok THEN balance + d ELSE 0
         /\ muted' = (muted \/ ~ok)
    /\ UNCHANGED wgArc

-----------------------------------------------------------------------------
(* wait *)

InWait(t) == CanCall(t) \/ wgPc[t] = "woken"

WaitSleeps(t) ==
    /\ InWait(t)
    /\ count # 0
    /\ wgPc' = [wgPc EXCEPT ![t] = "waiting"]
    /\ UNCHANGED <<wgArc, count, wgOutcome, balance, muted>>

WgWaitReturns(t) ==
    /\ InWait(t)
    /\ count = 0
    /\ wgPc' = [wgPc EXCEPT ![t] = "idle"]
    /\ WgReturn(t, "Ok")
    /\ UNCHANGED <<wgArc, count, balance, muted>>

WgWaitFails(t) ==
    /\ \/ "lock" \in WgFault /\ CanCall(t)
       \/ "wait" \in WgFault /\ InWait(t) /\ count # 0
    /\ wgPc' = [wgPc EXCEPT ![t] = "idle"]
    /\ WgReturn(t, "Failed")
    /\ UNCHANGED <<wgArc, count, balance, muted>>

WgSpuriousWake(t) ==
    /\ "spurious" \in WgFault
    /\ wgPc[t] = "waiting"
    /\ wgPc' = Woken(wgPc, {t})
    /\ UNCHANGED <<wgArc, count, wgOutcome, balance, muted>>

-----------------------------------------------------------------------------
Waits(t) == WaitSleeps(t) \/ WgWaitReturns(t)

WgThreadNext(t) ==
    \/ WgNew(t)
    \/ \E u \in WgThread : WgShare(t, u)
    \/ WgFinalize(t)
    \/ AddFails(t)
    \/ \E d \in Delta : AddRefused(t, d) \/ Add(t, d)
    \/ Waits(t)
    \/ WgWaitFails(t)
    \/ WgSpuriousWake(t)

WgNext == \E t \in WgThread : WgThreadNext(t)

WgSpec == WgInit /\ [][WgNext]_wgVars

-----------------------------------------------------------------------------
(* Safety.                                                                  *)

(* The counter is what the callers were told: the sum of the deltas of the  *)
(* add and done calls that succeeded, between 0 and INT32_MAX.  A call that *)
(* would leave the range is refused whole, however far outside it would go. *)
CountIsBalance == count = balance /\ balance \in 0 .. MaxCount

(* Nobody sleeps through a zero: while all wake-ups have worked a sleeping  *)
(* waiter waits for a counter that is not zero, whoever added to it again   *)
(* before the waiters of an earlier round had run.                          *)
NoSleeperMissesZero == ~muted => \A t \in WgThread : wgPc[t] = "waiting" => count # 0

(* The core is freed with the last handle and not under a waiter.           *)
CoreOutlivesWaiters ==
    /\ Accounted(wgArc)
    /\ \A t \in WgThread : wgPc[t] # "idle" => t \in wgArc.holders

WgInv == WgTypeOK /\ CountIsBalance /\ NoSleeperMissesZero /\ CoreOutlivesWaiters

-----------------------------------------------------------------------------
(* Liveness.  A woken waiter gets the mutex back and looks at the counter;  *)
(* nothing is assumed about when anybody calls, and neither a failure nor a *)
(* spurious wake-up is relied on.                                           *)

WgFairness == \A t \in WgThread : WF_wgVars(wgPc[t] = "woken" /\ Waits(t))

WgFairSpec == WgSpec /\ WgFairness

(* Once the counter stays at zero every wait returns, also that of a thread *)
(* that slept through several rounds of a group that is used again at once. *)
ZeroReleases ==
    \A t \in WgThread : <>[](count = 0 /\ ~muted) => []<>(wgPc[t] = "idle")

=============================================================================
