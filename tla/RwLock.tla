------------------------------- MODULE RwLock -------------------------------
(***************************************************************************)
(* The read-write lock of src/unsafe/rwlock: with_read and with_write      *)
(* around a user's callback, over the OS lock.  The lock is not recursive: *)
(* a callback that locks the same lock again is outside what it supports.  *)
(* Names are prefixed so that this module can be checked beside another.   *)
(***************************************************************************)
EXTENDS Native

CONSTANTS
    RwThread,
    RwFault     \* which calls may report an error

ASSUME RwLockAssumption ==
    /\ IsFiniteSet(RwThread)
    /\ RwFault \subseteq {"lock", "unlock"}

VARIABLES
    rwArc,      \* the core's reference count and handles
    readers,    \* the OS lock: who holds it shared
    writers,    \* and who exclusively
    rwPc,       \* which callback each thread runs
    rwOutcome   \* what its last with_read or with_write did

rwVars == <<rwArc, readers, writers, rwPc, rwOutcome>>

RwTypeOK ==
    /\ rwArc \in ArcOf(RwThread)
    /\ readers \in SUBSET RwThread
    /\ writers \in SUBSET RwThread
    /\ rwPc \in [RwThread -> {"idle", "reading", "writing"}]
    /\ rwOutcome \in [RwThread -> {"None", "Ok", "Raised", "Failed"}]

RwInit ==
    /\ rwArc = NoArc
    /\ readers = {}
    /\ writers = {}
    /\ rwPc = [t \in RwThread |-> "idle"]
    /\ rwOutcome = [t \in RwThread |-> "None"]

RwReady(t) == t \in rwArc.holders /\ rwPc[t] = "idle"

-----------------------------------------------------------------------------
(* Handles.  A new that fails frees what it made and leaves no state.       *)

RwNew(t) ==
    /\ ~Existing(rwArc)
    /\ rwArc' = NewArc(t)
    /\ UNCHANGED <<readers, writers, rwPc, rwOutcome>>

RwShare(t, u) ==
    /\ t \in rwArc.holders
    /\ u \notin rwArc.holders
    /\ rwArc' = Shared(rwArc, u)
    /\ UNCHANGED <<readers, writers, rwPc, rwOutcome>>

RwFinalize(t) ==
    /\ RwReady(t)
    /\ rwArc' = Dropped(rwArc, t)
    /\ UNCHANGED <<readers, writers, rwPc, rwOutcome>>

-----------------------------------------------------------------------------
(* with_read and with_write *)

ReadLock(t) ==
    /\ RwReady(t)
    /\ writers = {}
    /\ readers' = readers \cup {t}
    /\ rwPc' = [rwPc EXCEPT ![t] = "reading"]
    /\ UNCHANGED <<rwArc, writers, rwOutcome>>

WriteLock(t) ==
    /\ RwReady(t)
    /\ readers = {} /\ writers = {}
    /\ writers' = {t}
    /\ rwPc' = [rwPc EXCEPT ![t] = "writing"]
    /\ UNCHANGED <<rwArc, readers, rwOutcome>>

(* Neither lock call succeeds: the callback does not run.                   *)
RwLockFails(t) ==
    /\ "lock" \in RwFault
    /\ RwReady(t)
    /\ rwOutcome' = [rwOutcome EXCEPT ![t] = "Failed"]
    /\ UNCHANGED <<rwArc, readers, writers, rwPc>>

(* The unlock in the defer block runs when the callback returns and when it *)
(* raises; an injected error is reported after the lock was released.  The  *)
(* OS unlock of a lock that the caller holds does not fail.                 *)
EndsWith(t) ==
    /\ rwPc' = [rwPc EXCEPT ![t] = "idle"]
    /\ \E what \in {"Ok", "Raised", "Failed"} :
         /\ what = "Failed" => "unlock" \in RwFault
         /\ rwOutcome' = [rwOutcome EXCEPT ![t] = what]

ReadEnds(t) ==
    /\ rwPc[t] = "reading"
    /\ readers' = readers \ {t}
    /\ EndsWith(t)
    /\ UNCHANGED <<rwArc, writers>>

(* Mutant of WriteEnds: the error is reported instead of the unlock.        *)
WriteEndsLocked(t) ==
    /\ rwPc[t] = "writing"
    /\ EndsWith(t)
    /\ writers' = IF rwOutcome'[t] = "Failed" THEN writers ELSE {}
    /\ UNCHANGED <<rwArc, readers>>

WriteEnds(t) ==
    /\ rwPc[t] = "writing"
    /\ writers' = writers \ {t}
    /\ EndsWith(t)
    /\ UNCHANGED <<rwArc, readers>>

-----------------------------------------------------------------------------
RwThreadNext(t) ==
    \/ RwNew(t)
    \/ \E u \in RwThread : RwShare(t, u)
    \/ RwFinalize(t)
    \/ ReadLock(t)
    \/ WriteLock(t)
    \/ RwLockFails(t)
    \/ ReadEnds(t)
    \/ WriteEnds(t)

RwNext == \E t \in RwThread : RwThreadNext(t)

RwSpec == RwInit /\ [][RwNext]_rwVars

-----------------------------------------------------------------------------
(* A write callback runs alone, and the OS lock is held exactly by the      *)
(* threads whose callback runs: neither a callback that raised nor a failed *)
(* lock nor an error reported after the unlock leaves it held, which would  *)
(* shut out every later caller.  The core is not freed under a callback.    *)
CallbacksExclude ==
    /\ readers = {t \in RwThread : rwPc[t] = "reading"}
    /\ writers = {t \in RwThread : rwPc[t] = "writing"}
    /\ writers # {} => readers = {} /\ \A t, u \in writers : t = u
    /\ Accounted(rwArc)
    /\ readers \cup writers \subseteq rwArc.holders

RwInv == RwTypeOK /\ CallbacksExclude

=============================================================================
