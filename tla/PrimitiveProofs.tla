-------------------------- MODULE PrimitiveProofs ---------------------------
(***************************************************************************)
(* The safety of the small primitives, for any number of threads and every *)
(* system call failing.                                                    *)
(*                                                                         *)
(* The mutex with its condition variable and the read-write lock, with     *)
(* callbacks that raise and wait, and waits from outside any callback.     *)
(* The invariants are MutexCondvar!IInv and RwLock!RwInv: that the         *)
(* unsynchronized reads of condvar_wait are exact rests on FieldsKnown and *)
(* on HeldWhileCritical.                                                   *)
(*                                                                         *)
(* The wait group, with any deltas (the invariant is WgInv).               *)
(*                                                                         *)
(* The atomics: they implement registers of their API types, for every     *)
(* width of the word: conversions, the packed result of compare_exchange   *)
(* and the wrap-around of fetch_add included.                              *)
(*                                                                         *)
(* The once, with initializers that raise or call call_once again.  In the *)
(* invariant OnceInv, what callers were told depends on who is inside the  *)
(* initializer, which RunnerKnown adds.                                    *)
(***************************************************************************)
EXTENDS MutexCondvar, RwLock, WaitGroup, AtomicWord, Once, Counting, TLAPS

(* Most leaves are first-order; those that are not name their prover.       *)
USE Zenon

-----------------------------------------------------------------------------
(* Reference counts.                                                        *)

(* One handle comes.                                                        *)
LEMMA OneMore ==
    ASSUME FiniteSetFacts, NEW S, IsFiniteSet(S), NEW x, x \notin S
    PROVE  Cardinality(S \cup {x}) = Cardinality(S) + 1
  BY DEF FiniteSetFacts

(* One handle goes.                                                         *)
LEMMA OneLess ==
    ASSUME FiniteSetFacts, NEW S, IsFiniteSet(S), NEW x \in S
    PROVE  /\ Cardinality(S \ {x}) = Cardinality(S) - 1
           /\ Cardinality(S) \in Nat /\ Cardinality(S) # 0 /\ Cardinality(S) > 0
  <1>1. Cardinality(S) \in Nat /\ Cardinality(S) # 0
    BY DEF FiniteSetFacts
  <1>2. Cardinality(S \ {x}) = Cardinality(S) - 1
    BY DEF FiniteSetFacts
  <1> QED BY <1>1, <1>2, SMT

(* Before the constructor there is no handle and no reference.              *)
LEMMA ArcNone ==
    ASSUME FiniteSetFacts, NEW S
    PROVE  NoArc \in ArcOf(S) /\ Accounted(NoArc)
  BY DEF FiniteSetFacts, NoArc, ArcOf, Accounted

(* new: one handle, one reference.                                          *)
LEMMA ArcNew ==
    ASSUME FiniteSetFacts, NEW S, IsFiniteSet(S), NEW a \in ArcOf(S), Accounted(a),
           ~Existing(a), NEW t \in S
    PROVE  /\ NewArc(t) \in ArcOf(S)
           /\ Accounted(NewArc(t))
           /\ NewArc(t).holders = {t}
           /\ a.holders = {}
  <1>1. IsFiniteSet(a.holders) /\ a.refs = 0
    BY SMT DEF FiniteSetFacts, Existing, ArcOf
  <1>2. a.holders = {}
    BY <1>1 DEF FiniteSetFacts, Accounted
  <1> QED BY <1>2 DEF FiniteSetFacts, NewArc, ArcOf, Accounted

(* share: the count follows the handles, and a core with a handle was not   *)
(* freed.                                                                   *)
LEMMA ArcShared ==
    ASSUME FiniteSetFacts, NEW S, IsFiniteSet(S), NEW a \in ArcOf(S), Accounted(a),
           a.holders # {}, NEW u \in S, u \notin a.holders
    PROVE  /\ Shared(a, u) \in ArcOf(S)
           /\ Accounted(Shared(a, u))
           /\ Shared(a, u).holders = a.holders \cup {u}
  <1>1. IsFiniteSet(a.holders) BY DEF FiniteSetFacts, ArcOf
  <1>2. Cardinality(a.holders \cup {u}) = a.refs + 1
    BY <1>1, OneMore DEF Accounted
  <1>3. a.refs # 0 BY <1>1 DEF FiniteSetFacts, Accounted
  <1> QED BY <1>2, <1>3, SMT DEF Shared, ArcOf, Accounted

(* The finalizer: the count follows the handles, and the core is freed with *)
(* the last of them.                                                        *)
LEMMA ArcDropped ==
    ASSUME FiniteSetFacts, NEW S, IsFiniteSet(S), NEW a \in ArcOf(S), Accounted(a),
           NEW t \in a.holders
    PROVE  /\ Dropped(a, t) \in ArcOf(S)
           /\ Accounted(Dropped(a, t))
           /\ Dropped(a, t).holders = a.holders \ {t}
  <1>1. IsFiniteSet(a.holders) BY DEF FiniteSetFacts, ArcOf
  <1>2. Cardinality(a.holders \ {t}) = a.refs - 1 /\ a.refs # 0
    BY <1>1, OneLess DEF Accounted
  <1> QED BY <1>2, SMT DEF Dropped, ArcOf, Accounted

-----------------------------------------------------------------------------
(* The mutex and its condition variable.                                    *)

(* Before the mutex is made. *)
LEMMA InitIInv == FiniteSetFacts /\ Init => IInv
  <1> SUFFICES ASSUME FiniteSetFacts, Init PROVE IInv
    OBVIOUS
  <1>1. NoArc \in ArcOf(Thread) /\ Accounted(NoArc) BY ArcNone
  <1>2. locked \in BOOLEAN /\ misused \in BOOLEAN BY Zenon DEF Init
  <1>3. TypeOK BY <1>1, <1>2 DEF Init, TypeOK
  <1>4. OwnerCheckExact /\ HeldWhileCritical /\ FieldsKnown
    BY MutexAssumption
    DEF Init, OwnerCheckExact, HeldWhileCritical, Critical, FieldsKnown
  <1>5. GuardsAccounted
    <2>1. InCallback = {} BY DEF Init, InCallback
    <2>2. Cardinality(InCallback) = 0 BY <2>1 DEF FiniteSetFacts
    <2>3. NoArc.refs = 0 /\ NoArc.freed = FALSE /\ Cardinality(NoArc.holders) = 0
      BY DEF FiniteSetFacts, NoArc
    <2> QED BY <1>1, <2>2, <2>3, SMT DEF Init, GuardsAccounted
  <1> QED BY <1>3, <1>4, <1>5 DEF IInv

(* The counted sets are finite, and a count is zero only for an empty one.  *)
LEMMA CountedSets ==
    ASSUME FiniteSetFacts, TypeOK
    PROVE  /\ IsFiniteSet(arc.holders)
           /\ IsFiniteSet(InCallback)
           /\ Cardinality(arc.holders) \in Nat
           /\ Cardinality(InCallback) \in Nat
           /\ arc.holders # {} => Cardinality(arc.holders) > 0
  <1>1. arc.holders \subseteq Thread /\ InCallback \subseteq Thread
    BY DEF TypeOK, ArcOf, InCallback
  <1>2. IsFiniteSet(arc.holders) /\ IsFiniteSet(InCallback)
    BY <1>1, MutexAssumption DEF FiniteSetFacts
  <1>3. Cardinality(arc.holders) \in Nat /\ Cardinality(InCallback) \in Nat
    BY <1>2 DEF FiniteSetFacts
  <1> QED BY <1>2, <1>3, SMT DEF FiniteSetFacts

(* Handles of the mutex.                                                    *)
LEMMA HandleStep ==
    ASSUME FiniteSetFacts, IInv, NEW t \in Thread, NEW u \in Thread,
           New(t) \/ Share(t, u) \/ Finalize(t)
    PROVE  IInv'
  <1> USE DEF IInv
  <1>1. /\ UNCHANGED <<condArc, mutex, owner, locked, pc, inside, pending, outcome, misused>>
        /\ InCallback' = InCallback
    BY DEF New, Share, Finalize, fields, InCallback
  <1>2. OwnerCheckExact' /\ HeldWhileCritical' /\ FieldsKnown'
    BY <1>1 DEF OwnerCheckExact, HeldWhileCritical, Critical, FieldsKnown
  <1> DEFINE held == Cardinality(InCallback)
  <1>3. held \in Nat /\ Cardinality(InCallback') = held
    BY <1>1, CountedSets
  <1> HIDE DEF held
  <1>4. /\ arc' \in ArcOf(Thread)
        /\ box' \in Nat
        /\ arc'.refs = Cardinality(arc'.holders) + held
        /\ box' = held + IF arc'.refs > 0 THEN 1 ELSE 0
        /\ arc'.freed => arc'.refs = 0
        /\ \A v \in Thread : pc[v] # "idle" => v \in arc'.holders
    <2>1. /\ arc.refs = Cardinality(arc.holders) + held
          /\ box = held + IF arc.refs > 0 THEN 1 ELSE 0
          /\ arc.freed => arc.refs = 0
          /\ \A v \in Thread : pc[v] # "idle" => v \in arc.holders
          /\ arc \in ArcOf(Thread)
          /\ box \in Nat
      BY DEF GuardsAccounted, TypeOK, held
    <2>2. CASE New(t)
      <3>1. arc.refs = 0 /\ Cardinality(arc.holders) = 0 /\ held = 0
        BY <1>3, <2>1, <2>2, CountedSets, SMT DEF New, Existing, ArcOf
      <3>2. arc.holders = {} BY <3>1, CountedSets, SMT
      <3>3. Cardinality({t}) = 1 BY DEF FiniteSetFacts
      <3> QED BY <2>1, <2>2, <3>1, <3>2, <3>3, SMT DEF New, NewArc, ArcOf
    <2>3. CASE Share(t, u)
      <3>1. Cardinality(arc.holders \cup {u}) = Cardinality(arc.holders) + 1
        BY <2>3, CountedSets, OneMore DEF Share
      <3>2. arc.refs > 0
        BY <1>3, <2>1, <2>3, CountedSets, SMT DEF Share, Ready
      <3> QED BY <1>3, <2>1, <2>3, <3>1, <3>2, CountedSets, SMT DEF Share, Shared, ArcOf
    <2>4. CASE Finalize(t)
      <3>1. t \in arc.holders /\ pc[t] = "idle"
        BY <2>4 DEF Finalize, Ready, Home
      <3>2. Cardinality(arc.holders \ {t}) = Cardinality(arc.holders) - 1
        BY <3>1, CountedSets, OneLess
      <3>3. arc.refs > 0 /\ ~arc.freed
        BY <1>3, <2>1, <3>1, CountedSets, SMT
      <3>4. /\ arc'.refs = arc.refs - 1
            /\ arc'.holders = arc.holders \ {t}
            /\ arc'.freed <=> arc.refs = 1
            /\ box' = IF arc.refs = 1 THEN box - 1 ELSE box
        BY <2>4, <3>3 DEF Finalize, Dropped
      <3>5. arc' \in ArcOf(Thread)
        <4>1. (arc.freed \/ arc.refs = 1) \in BOOLEAN BY Zenon
        <4> QED BY <2>1, <2>4, <3>3, <4>1, SMT DEF Finalize, Dropped, ArcOf
      <3>6. arc.refs \in Nat BY <2>1 DEF ArcOf
      <3> QED BY <1>3, <2>1, <3>1, <3>2, <3>3, <3>4, <3>5, <3>6, CountedSets, SMT
    <2> QED BY <2>2, <2>3, <2>4
  <1>5. TypeOK' BY <1>1, <1>4 DEF TypeOK
  <1>6. GuardsAccounted' BY <1>1, <1>3, <1>4 DEF GuardsAccounted
  <1> QED BY <1>2, <1>5, <1>6

(* Handles of the condition variable.                                       *)
LEMMA CondHandleStep ==
    ASSUME FiniteSetFacts, IInv, NEW t \in Thread, NEW u \in Thread,
           CondNew(t) \/ CondShare(t, u) \/ CondFinalize(t)
    PROVE  IInv'
  <1> USE DEF IInv
  <1>1. /\ UNCHANGED <<arc, box, mutex, owner, locked, pc, inside, pending, outcome, misused>>
        /\ InCallback' = InCallback
    BY DEF CondNew, CondShare, CondFinalize, fields, InCallback
  <1>2. OwnerCheckExact' /\ HeldWhileCritical' /\ FieldsKnown'
    BY <1>1 DEF OwnerCheckExact, HeldWhileCritical, Critical, FieldsKnown
  <1>3. /\ condArc' \in ArcOf(Thread)
        /\ Accounted(condArc')
        /\ \A v \in Thread :
             pc[v] \in {"checking", "waiting", "woken"} => v \in condArc'.holders
    <2>1. CASE CondNew(t)
      BY <2>1, ArcNew, MutexAssumption, SMT DEF CondNew, TypeOK, GuardsAccounted
    <2>2. CASE CondShare(t, u)
      BY <2>2, ArcShared, MutexAssumption, SMT DEF CondShare, TypeOK, GuardsAccounted
    <2>3. CASE CondFinalize(t)
      BY <2>3, ArcDropped, MutexAssumption, SMT
      DEF CondFinalize, Home, TypeOK, GuardsAccounted
    <2> QED BY <2>1, <2>2, <2>3
  <1>4. TypeOK' BY <1>1, <1>3 DEF TypeOK
  <1>5. GuardsAccounted' BY <1>1, <1>3 DEF GuardsAccounted
  <1> QED BY <1>2, <1>4, <1>5

(* Taking the mutex, for with_lock and after cond_wait: nobody was          *)
(* critical, and the fields are still to be written.                        *)
LEMMA AcquireStep ==
    ASSUME IInv, NEW t \in Thread, Lock(t) \/ WaitReacquires(t)
    PROVE  IInv'
  <1> USE DEF IInv
  <1>1. /\ mutex = NoThread /\ mutex' = t
        /\ pc' = [pc EXCEPT ![t] = "entering"]
        /\ pending' = [pending EXCEPT ![t] = Field]
        /\ UNCHANGED <<arc, box, condArc, owner, locked, inside, outcome, misused>>
        /\ t \in arc.holders
        /\ pc[t] # "leaving"
    BY DEF Lock, WaitReacquires, Ready, Home, Goto, handles, fields, GuardsAccounted
  <1>2. TypeOK' BY <1>1 DEF TypeOK
  <1>3. OwnerCheckExact' BY <1>1 DEF OwnerCheckExact
  <1>4. HeldWhileCritical'
    BY <1>1, MutexAssumption DEF HeldWhileCritical, Critical, TypeOK
  <1>5. GuardsAccounted'
    <2>1. InCallback' = InCallback BY <1>1 DEF InCallback, TypeOK
    <2> QED BY <1>1, <2>1 DEF GuardsAccounted, TypeOK
  <1>6. FieldsKnown'
    BY <1>1, MutexAssumption, SMT DEF FieldsKnown, TypeOK, HeldWhileCritical, Critical, Field
  <1> QED BY <1>2, <1>3, <1>4, <1>5, <1>6

(* The stores to the fields: the writer has the mutex, so that nobody who   *)
(* relies on them is critical.                                              *)
LEMMA FieldStep ==
    ASSUME IInv, NEW t \in Thread, Fields(t)
    PROVE  IInv'
  <1> USE DEF IInv
  <1>1. PICK f \in Field : WriteField(t, f) \/ ClearField(t, f)
    BY DEF Fields
  <1>2. /\ UNCHANGED <<arc, box, condArc, mutex, pc, inside, outcome, misused>>
        /\ pending' = [pending EXCEPT ![t] = pending[t] \ {f}]
        /\ pc[t] \in {"entering", "leaving"}
        /\ mutex = t
    BY <1>1 DEF WriteField, ClearField, handles, HeldWhileCritical, Critical
  <1>3. /\ owner' = IF f = "owner" THEN IF pc[t] = "entering" THEN t ELSE NoThread
                                   ELSE owner
        /\ f # "locked" => locked' = locked
        /\ f = "locked" => (locked' <=> pc[t] = "entering")
        /\ locked' \in BOOLEAN
    <2>1. locked \in BOOLEAN BY DEF TypeOK
    <2>2. CASE WriteField(t, f)
      BY <2>1, <2>2 DEF WriteField
    <2>3. CASE ClearField(t, f)
      BY <2>1, <2>3 DEF ClearField
    <2> QED BY <1>1, <2>2, <2>3
  <1>4. TypeOK' BY <1>2, <1>3 DEF TypeOK
  <1>5. OwnerCheckExact' BY <1>2 DEF OwnerCheckExact
  <1>6. HeldWhileCritical' BY <1>2 DEF HeldWhileCritical, Critical
  <1>7. GuardsAccounted'
    <2>1. InCallback' = InCallback BY <1>2 DEF InCallback
    <2> QED BY <1>2, <2>1 DEF GuardsAccounted
  <1>8. FieldsKnown'
    BY <1>2, <1>3, MutexAssumption, SMT
    DEF FieldsKnown, TypeOK, HeldWhileCritical, Critical, Field
  <1> QED BY <1>4, <1>5, <1>6, <1>7, <1>8

(* A callback starts or ends: its guard has a reference to the box and a    *)
(* handle, and the fields are as written.                                   *)
LEMMA GuardStep ==
    ASSUME FiniteSetFacts, IInv, NEW t \in Thread, Enter(t) \/ CallbackEnds(t)
    PROVE  IInv'
  <1> USE DEF IInv
  <1> DEFINE held == Cardinality(InCallback)
  <1>1. /\ held \in Nat
        /\ arc.refs = Cardinality(arc.holders) + held
        /\ box = held + IF arc.refs > 0 THEN 1 ELSE 0
        /\ arc.freed => arc.refs = 0
        /\ arc \in ArcOf(Thread)
        /\ Cardinality(arc.holders) \in Nat
    BY CountedSets DEF GuardsAccounted, TypeOK
  <1>2. t \in arc.holders /\ Cardinality(arc.holders) > 0
    <2>1. t \in arc.holders BY DEF Enter, CallbackEnds, GuardsAccounted
    <2> QED BY <2>1, CountedSets
  <1>3. CASE Enter(t)
    <2>1. InCallback' = InCallback \cup {t} /\ t \notin InCallback
      BY <1>3 DEF Enter, InCallback, Goto, TypeOK
    <2>2. Cardinality(InCallback') = held + 1
      BY <2>1, CountedSets, OneMore
    <2> HIDE DEF held
    <2>3. arc'.refs = arc.refs + 1 /\ arc'.holders = arc.holders
          /\ arc'.freed = arc.freed /\ arc' \in ArcOf(Thread)
      BY <1>1, <1>3, SMT DEF Enter, ArcOf
    <2>4. TypeOK'
      BY <1>1, <1>3, <2>3, SMT DEF TypeOK, Enter, Goto, Return, fields
    <2>5. OwnerCheckExact'
      BY <1>3 DEF OwnerCheckExact, Enter, Return, TypeOK
    <2>6. HeldWhileCritical'
      BY <1>3 DEF HeldWhileCritical, Critical, Enter, Goto, TypeOK
    <2>7. GuardsAccounted'
      <3>1. arc.refs > 0 /\ ~arc.freed /\ arc.refs \in Nat BY <1>1, <1>2, SMT DEF ArcOf
      <3>2. \A v \in Thread :
              /\ pc'[v] # "idle" => v \in arc.holders
              /\ pc'[v] \in {"checking", "waiting", "woken"} => v \in condArc.holders
        BY <1>2, <1>3 DEF Enter, Goto, GuardsAccounted, TypeOK
      <3>3. box' = box + 1 /\ condArc' = condArc BY <1>3 DEF Enter
      <3> QED BY <1>1, <2>2, <2>3, <3>1, <3>2, <3>3, SMT DEF GuardsAccounted
    <2>8. FieldsKnown'
      BY <1>3, MutexAssumption
      DEF FieldsKnown, Enter, Goto, fields, TypeOK, HeldWhileCritical, Critical
    <2> QED BY <2>4, <2>5, <2>6, <2>7, <2>8
  <1>4. CASE CallbackEnds(t)
    <2>1. t \in inside BY <1>4 DEF CallbackEnds, FieldsKnown
    <2>2. InCallback' = InCallback \ {t} /\ t \in InCallback
      BY <1>4, <2>1 DEF CallbackEnds, InCallback, Goto, TypeOK
    <2>3. Cardinality(InCallback') = held - 1 /\ held > 0
      BY <2>2, CountedSets, OneLess
    <2> HIDE DEF held
    <2>4. arc'.refs = arc.refs - 1 /\ arc'.holders = arc.holders
          /\ arc'.freed = arc.freed /\ arc' \in ArcOf(Thread)
      BY <1>1, <1>2, <1>4, <2>3, SMT DEF CallbackEnds, ArcOf
    <2>5. box' = box - 1 /\ box' \in Nat /\ condArc' = condArc
      BY <1>1, <1>2, <1>4, <2>3, SMT DEF CallbackEnds
    <2>6. TypeOK'
      BY <1>4, <2>4, <2>5 DEF TypeOK, CallbackEnds, Goto, fields, Field
    <2>7. OwnerCheckExact'
      BY <1>4 DEF OwnerCheckExact, CallbackEnds
    <2>8. HeldWhileCritical'
      BY <1>4, <2>1 DEF HeldWhileCritical, Critical, CallbackEnds, Goto, TypeOK
    <2>9. GuardsAccounted'
      <3>1. arc.refs > 1 /\ ~arc.freed /\ arc.refs \in Nat BY <1>1, <1>2, <2>3, SMT DEF ArcOf
      <3>2. \A v \in Thread :
              /\ pc'[v] # "idle" => v \in arc.holders
              /\ pc'[v] \in {"checking", "waiting", "woken"} => v \in condArc.holders
        BY <1>2, <1>4 DEF CallbackEnds, Goto, GuardsAccounted, TypeOK
      <3> QED BY <1>1, <2>3, <2>4, <2>5, <3>1, <3>2, SMT DEF GuardsAccounted
    <2>10. FieldsKnown'
      BY <1>4, <2>1, MutexAssumption, SMT
      DEF FieldsKnown, CallbackEnds, Goto, fields, Field, TypeOK, HeldWhileCritical, Critical
    <2> QED BY <2>6, <2>7, <2>8, <2>9, <2>10
  <1> QED BY <1>3, <1>4

(* Leaving: the fields are cleared, so that the mutex can go.               *)
LEMMA UnlockStep ==
    ASSUME IInv, NEW t \in Thread, Unlock(t)
    PROVE  IInv'
  <1> USE DEF IInv, Unlock, handles, fields, Goto
  <1>1. TypeOK' BY DEF TypeOK
  <1>2. OwnerCheckExact' BY DEF OwnerCheckExact
  <1>3. HeldWhileCritical'
    BY MutexAssumption DEF HeldWhileCritical, Critical, TypeOK
  <1>4. GuardsAccounted'
    <2>1. InCallback' = InCallback BY DEF InCallback, TypeOK
    <2> QED BY <2>1 DEF GuardsAccounted, TypeOK
  <1>5. FieldsKnown'
    BY MutexAssumption, SMT DEF FieldsKnown, TypeOK, HeldWhileCritical, Critical
  <1> QED BY <1>1, <1>2, <1>3, <1>4, <1>5

(* Steps that move a thread within its callback, or outside any, and leave  *)
(* the fields and the mutex alone.                                          *)
LEMMA MoveStep ==
    ASSUME IInv, NEW t \in Thread,
           LockFails(t) \/ WaitReturns(t) \/ ReadLocked(t) \/ ReadOwnerRefuses(t)
    PROVE  IInv'
  <1> USE DEF IInv
  <1>1. UNCHANGED <<arc, box, condArc, mutex, owner, locked, inside, pending, misused>>
    BY DEF LockFails, WaitReturns, ReadLocked, ReadOwnerRefuses, handles, fields
  <1>2. PICK where \in {"idle", "callback", "checking"} :
          /\ pc' = [pc EXCEPT ![t] = where]
          /\ t \in inside <=> where = "callback" \/ (where = "checking" /\ pc[t] = "callback")
          /\ where = "checking" => t \in condArc.holders /\ pc[t] \in {"idle", "callback"}
          /\ pc[t] \in {"idle", "callback", "checking", "entering"}
          /\ pc[t] = "entering" => t \in inside /\ pending[t] = {}
    <2>1. CASE LockFails(t)
      BY <2>1 DEF LockFails, Ready, Home, TypeOK
    <2>2. CASE WaitReturns(t)
      BY <2>2 DEF WaitReturns, Goto
    <2>3. CASE ReadLocked(t)
      BY <2>3 DEF ReadLocked, CanWait, Ready, Home, Goto, TypeOK
    <2>4. CASE ReadOwnerRefuses(t)
      BY <2>4 DEF ReadOwnerRefuses, Home, Goto, TypeOK
    <2> QED BY <2>1, <2>2, <2>3, <2>4
  <1>3. PICK what \in {"None", "Ok", "NotOwner", "Failed"} :
          /\ outcome' = [outcome EXCEPT ![t] = what] \/ outcome' = outcome
          /\ what = "NotOwner" => t \notin inside
    <2>1. CASE LockFails(t)
      BY <2>1 DEF LockFails, Return
    <2>2. CASE WaitReturns(t)
      BY <2>2 DEF WaitReturns, Return
    <2>3. CASE ReadLocked(t)
      <3>1. t \in inside => locked
        BY <2>3 DEF ReadLocked, CanWait, Ready, Home, FieldsKnown, HeldWhileCritical, Critical
      <3> QED BY <2>3, <3>1 DEF ReadLocked, Return
    <2>4. CASE ReadOwnerRefuses(t)
      <3>1. t \notin inside
        BY <2>4 DEF ReadOwnerRefuses, FieldsKnown, HeldWhileCritical, Critical
      <3> QED BY <2>4, <3>1 DEF ReadOwnerRefuses, Return
    <2> QED BY <2>1, <2>2, <2>3, <2>4
  <1>4. TypeOK' BY <1>1, <1>2, <1>3 DEF TypeOK
  <1>5. OwnerCheckExact' BY <1>1, <1>3 DEF OwnerCheckExact, TypeOK
  <1>6. HeldWhileCritical'
    BY <1>1, <1>2, SMT DEF HeldWhileCritical, Critical, TypeOK, FieldsKnown
  <1>7. GuardsAccounted'
    <2>1. InCallback' = InCallback BY <1>1, <1>2 DEF InCallback, TypeOK
    <2>2. t \in inside \/ where = "checking" => t \in arc.holders
      BY <1>2 DEF GuardsAccounted, FieldsKnown, ReadLocked, CanWait, Ready,
                  LockFails, WaitReturns, ReadOwnerRefuses
    <2> QED BY <1>1, <1>2, <2>1, <2>2 DEF GuardsAccounted, TypeOK
  <1>8. FieldsKnown'
    BY <1>1, <1>2, SMT DEF FieldsKnown, TypeOK, HeldWhileCritical, Critical
  <1> QED BY <1>4, <1>5, <1>6, <1>7, <1>8

(* cond_wait: the caller that passed the check is inside and has the mutex. *)
LEMMA WaitStep ==
    ASSUME IInv, NEW t \in Thread, WaitStarts(t) \/ WaitFails(t)
    PROVE  IInv'
  <1> USE DEF IInv, handles, fields, Goto, Return
  <1>1. t \in inside /\ mutex = t /\ pc[t] = "checking"
    BY DEF WaitStarts, WaitFails, FieldsKnown, HeldWhileCritical, Critical
  <1>2. misused' = FALSE
    BY <1>1 DEF WaitStarts, WaitFails, OwnerCheckExact
  <1>3. TypeOK'
    BY <1>1, <1>2, MutexAssumption DEF TypeOK, WaitStarts, WaitFails, Home
  <1>4. OwnerCheckExact'
    BY <1>2 DEF OwnerCheckExact, WaitStarts, WaitFails, TypeOK
  <1>5. HeldWhileCritical'
    BY <1>1, MutexAssumption, SMT
    DEF HeldWhileCritical, Critical, TypeOK, WaitStarts, WaitFails, Home
  <1>6. GuardsAccounted'
    <2>1. InCallback' = InCallback
      BY <1>1 DEF InCallback, TypeOK, WaitStarts, WaitFails, Home
    <2> QED BY <1>1, <2>1 DEF GuardsAccounted, TypeOK, WaitStarts, WaitFails, Home
  <1>7. FieldsKnown'
    BY <1>1, MutexAssumption, SMT
    DEF FieldsKnown, TypeOK, WaitStarts, WaitFails, Home, HeldWhileCritical, Critical
  <1> QED BY <1>3, <1>4, <1>5, <1>6, <1>7

(* A notify or a spurious wake-up moves sleepers, which hold nothing.       *)
LEMMA WakeStep ==
    ASSUME IInv, NEW t \in Thread, NEW threads \in SUBSET Thread,
           Notify(t, threads) \/ SpuriousWake(t)
    PROVE  IInv'
  <1> USE DEF IInv
  <1>1. UNCHANGED <<arc, box, condArc, mutex, owner, locked, inside, pending, outcome, misused>>
    BY DEF Notify, SpuriousWake, handles, fields
  <1>2. /\ pc' \in [Thread -> {"idle", "entering", "callback", "checking",
                              "waiting", "woken", "leaving"}]
        /\ \A v \in Thread : pc'[v] = pc[v] \/ (pc[v] = "waiting" /\ pc'[v] = "woken")
    <2>1. PICK woken : pc' = Woken(pc, woken)
      BY DEF Notify, SpuriousWake
    <2> QED BY <2>1 DEF Woken, TypeOK
  <1>3. TypeOK' BY <1>1, <1>2 DEF TypeOK
  <1>4. OwnerCheckExact' BY <1>1 DEF OwnerCheckExact
  <1>5. HeldWhileCritical' BY <1>1, <1>2 DEF HeldWhileCritical, Critical
  <1>6. GuardsAccounted'
    <2>1. InCallback' = InCallback BY <1>1, <1>2 DEF InCallback, TypeOK
    <2> QED BY <1>1, <1>2, <2>1 DEF GuardsAccounted
  <1>7. FieldsKnown' BY <1>1, <1>2 DEF FieldsKnown
  <1> QED BY <1>3, <1>4, <1>5, <1>6, <1>7

(* Every step of the mutex and its condition variable keeps IInv. *)
LEMMA NextIInv == FiniteSetFacts /\ IInv /\ [Next]_vars => IInv'
  <1> SUFFICES ASSUME FiniteSetFacts, IInv, [Next]_vars PROVE IInv'
    OBVIOUS
  <1>1. CASE UNCHANGED vars
    BY <1>1 DEF vars, handles, fields, IInv, TypeOK, OwnerCheckExact, HeldWhileCritical,
                Critical, GuardsAccounted, InCallback, FieldsKnown
  <1>2. CASE Next
    <2>1. PICK t \in Thread : ThreadNext(t)
      BY <1>2 DEF Next
    <2>2. CASE \/ New(t) \/ Finalize(t) \/ CondNew(t) \/ CondFinalize(t)
               \/ \E u \in Thread : Share(t, u) \/ CondShare(t, u)
      BY <2>2, HandleStep, CondHandleStep
    <2>3. CASE (\E u \in Thread : Notify(t, {u})) \/ Notify(t, Thread) \/ SpuriousWake(t)
      BY <2>3, WakeStep
    <2> QED BY <2>1, <2>2, <2>3, AcquireStep, FieldStep, GuardStep, UnlockStep,
               MoveStep, WaitStep DEF ThreadNext, Checks
  <1> QED BY <1>1, <1>2

-----------------------------------------------------------------------------
(* The read-write lock.                                                     *)

(* Before the lock is made. *)
LEMMA RwInitInv == FiniteSetFacts /\ RwInit => RwInv
  <1> SUFFICES ASSUME FiniteSetFacts, RwInit PROVE RwInv
    OBVIOUS
  <1>1. NoArc \in ArcOf(RwThread) /\ Accounted(NoArc) BY ArcNone
  <1>2. RwTypeOK BY <1>1 DEF RwInit, RwTypeOK
  <1>3. CallbacksExclude
    BY <1>1, RwLockAssumption DEF RwInit, CallbacksExclude, NoArc
  <1> QED BY <1>2, <1>3 DEF RwInv

(* Handles: nobody in a callback loses theirs.                              *)
LEMMA RwHandleStep ==
    ASSUME FiniteSetFacts, RwInv, NEW t \in RwThread, NEW u \in RwThread,
           RwNew(t) \/ RwShare(t, u) \/ RwFinalize(t)
    PROVE  RwInv'
  <1> USE DEF RwInv, RwTypeOK, CallbacksExclude
  <1>1. /\ rwArc' \in ArcOf(RwThread)
        /\ Accounted(rwArc')
        /\ readers \cup writers \subseteq rwArc'.holders
    <2>1. CASE RwNew(t)
      BY <2>1, ArcNew, RwLockAssumption, SMT DEF RwNew
    <2>2. CASE RwShare(t, u)
      BY <2>2, ArcShared, RwLockAssumption, SMT DEF RwShare
    <2>3. CASE RwFinalize(t)
      BY <2>3, ArcDropped, RwLockAssumption, SMT DEF RwFinalize, RwReady
    <2> QED BY <2>1, <2>2, <2>3
  <1>2. UNCHANGED <<readers, writers, rwPc, rwOutcome>>
    BY DEF RwNew, RwShare, RwFinalize
  <1> QED BY <1>1, <1>2

(* Locking: a reader excludes the writers, a writer everybody.              *)
LEMMA RwLockStep ==
    ASSUME RwInv, NEW t \in RwThread,
           ReadLock(t) \/ WriteLock(t) \/ RwLockFails(t)
    PROVE  RwInv'
  <1> USE DEF RwInv, RwTypeOK, CallbacksExclude, RwReady
  <1>1. CASE ReadLock(t)
    BY <1>1, SMT DEF ReadLock
  <1>2. CASE WriteLock(t)
    BY <1>2, SMT DEF WriteLock
  <1>3. CASE RwLockFails(t)
    BY <1>3 DEF RwLockFails
  <1> QED BY <1>1, <1>2, <1>3

(* Unlocking: the lock goes with the callback, whatever is reported.        *)
LEMMA RwUnlockStep ==
    ASSUME RwInv, NEW t \in RwThread, ReadEnds(t) \/ WriteEnds(t)
    PROVE  RwInv'
  <1> USE DEF RwInv, RwTypeOK, CallbacksExclude
  <1>1. /\ rwPc' = [rwPc EXCEPT ![t] = "idle"]
        /\ rwOutcome' \in [RwThread -> {"None", "Ok", "Raised", "Failed"}]
    BY SMT DEF ReadEnds, WriteEnds, EndsWith
  <1>2. CASE ReadEnds(t)
    BY <1>1, <1>2 DEF ReadEnds
  <1>3. CASE WriteEnds(t)
    BY <1>1, <1>3 DEF WriteEnds
  <1> QED BY <1>2, <1>3

(* Every step of the read-write lock keeps RwInv. *)
LEMMA RwNextInv == FiniteSetFacts /\ RwInv /\ [RwNext]_rwVars => RwInv'
  <1> SUFFICES ASSUME FiniteSetFacts, RwInv, [RwNext]_rwVars PROVE RwInv'
    OBVIOUS
  <1>1. CASE UNCHANGED rwVars
    BY <1>1 DEF rwVars, RwInv, RwTypeOK, CallbacksExclude
  <1>2. CASE RwNext
    <2>1. PICK t \in RwThread : RwThreadNext(t)
      BY <1>2 DEF RwNext
    <2> QED BY <2>1, RwHandleStep, RwLockStep, RwUnlockStep DEF RwThreadNext
  <1> QED BY <1>1, <1>2

-----------------------------------------------------------------------------
(* The wait group.                                                          *)

(* Before the wait group is made. *)
LEMMA WgInitInv == FiniteSetFacts /\ WgInit => WgInv
  <1> SUFFICES ASSUME FiniteSetFacts, WgInit PROVE WgInv
    OBVIOUS
  <1>1. WgTypeOK
    <2>1. NoArc \in ArcOf(WgThread) BY ArcNone
    <2>2. muted \in BOOLEAN BY Zenon DEF WgInit
    <2> QED BY <2>1, <2>2, WaitGroupAssumption, SMT DEF WgInit, WgTypeOK
  <1>2. CountIsBalance
    BY WaitGroupAssumption, SMT DEF WgInit, CountIsBalance
  <1>3. NoSleeperMissesZero
    BY DEF WgInit, NoSleeperMissesZero
  <1>4. CoreOutlivesWaiters
    BY ArcNone DEF WgInit, CoreOutlivesWaiters
  <1> QED BY <1>1, <1>2, <1>3, <1>4 DEF WgInv

(* A handle operation changes the arc and nothing else: it keeps the count  *)
(* of handles, and no handle of a waiter is dropped.                        *)
LEMMA WgHandleStep ==
    ASSUME FiniteSetFacts, WgInv, NEW t \in WgThread, NEW u \in WgThread,
           WgNew(t) \/ WgShare(t, u) \/ WgFinalize(t)
    PROVE  WgInv'
  <1> USE DEF WgInv, WgTypeOK, CoreOutlivesWaiters, CanCall
  <1>1. /\ wgArc' \in ArcOf(WgThread)
        /\ Accounted(wgArc')
        /\ \A v \in WgThread : wgPc[v] # "idle" => v \in wgArc'.holders
    <2>1. CASE WgNew(t)
      BY <2>1, ArcNew, WaitGroupAssumption, SMT DEF WgNew
    <2>2. CASE WgShare(t, u)
      BY <2>2, ArcShared, WaitGroupAssumption, SMT DEF WgShare
    <2>3. CASE WgFinalize(t)
      BY <2>3, ArcDropped, WaitGroupAssumption, SMT DEF WgFinalize
    <2> QED BY <2>1, <2>2, <2>3
  <1>2. UNCHANGED <<count, wgPc, wgOutcome, balance, muted>>
    BY DEF WgNew, WgShare, WgFinalize
  <1> QED BY <1>1, <1>2 DEF CountIsBalance, NoSleeperMissesZero

(* add and done: the counter follows the balance, and the zero wakes        *)
(* everybody unless the broadcast fails.                                    *)
LEMMA AddStep ==
    ASSUME WgInv, NEW t \in WgThread, NEW d \in Delta,
           AddFails(t) \/ AddRefused(t, d) \/ Add(t, d)
    PROVE  WgInv'
  <1> USE DEF WgInv, WgTypeOK, CoreOutlivesWaiters
  <1>1. CASE AddFails(t)
    BY <1>1 DEF AddFails, WgReturn, CountIsBalance, NoSleeperMissesZero
  <1>2. CASE AddRefused(t, d)
    BY <1>2 DEF AddRefused, WgReturn, CountIsBalance, NoSleeperMissesZero
  <1>3. CASE Add(t, d)
    <2>1. PICK ok \in BOOLEAN :
            /\ ok \/ count' = 0
            /\ wgPc' = Woken(wgPc, IF count' = 0 /\ ok THEN WgThread ELSE {})
            /\ WgReturn(t, IF ok THEN "Ok" ELSE "Failed")
            /\ balance' = IF ok THEN balance + d ELSE 0
            /\ muted' = (muted \/ ~ok)
      <3>1. \A x \in Notified(WgFault) : x \in BOOLEAN
        BY DEF Notified
      <3>2. CASE count' = 0
        BY <1>3, <3>1, <3>2 DEF Add
      <3>3. CASE count' # 0
        BY <1>3, <3>3 DEF Add
      <3> QED BY <3>2, <3>3
    <2>2. /\ wgPc' \in [WgThread -> {"idle", "waiting", "woken"}]
          /\ \A v \in WgThread :
               /\ count' = 0 /\ ok => wgPc'[v] # "waiting"
               /\ wgPc'[v] = wgPc[v] \/ (wgPc[v] = "waiting" /\ wgPc'[v] = "woken")
      BY <2>1 DEF Woken
    <2>3. count' = count + d /\ count' \in 0 .. MaxCount /\ d \in Int
      <3>1. count' = NextCount(d) /\ ~Refused(d) BY <1>3 DEF Add
      <3>2. d \in Int /\ MaxCount \in Nat /\ count \in Int BY WaitGroupAssumption, SMT
      <3> QED BY <3>1, <3>2, SMT DEF Refused, NextCount
    <2>4. wgOutcome' \in [WgThread -> {"None", "Ok", "InvalidCount", "Failed"}]
      BY <2>1 DEF WgReturn
    <2>5. CountIsBalance' /\ balance' \in Int
      BY <2>1, <2>3, WaitGroupAssumption, SMT DEF CountIsBalance
    <2>6. muted' \in BOOLEAN
      BY <2>1
    <2>7. NoSleeperMissesZero'
      <3> SUFFICES ASSUME ~muted', NEW v \in WgThread, wgPc'[v] = "waiting"
                   PROVE  count' # 0
        BY DEF NoSleeperMissesZero
      <3>1. ok = TRUE BY <2>1
      <3> QED BY <2>2, <3>1
    <2>8. CoreOutlivesWaiters'
      BY <1>3, <2>2 DEF Add
    <2> QED BY <1>3, <2>2, <2>3, <2>4, <2>5, <2>6, <2>7, <2>8 DEF Add
  <1> QED BY <1>1, <1>2, <1>3

(* wait and the wake-ups: a thread goes to sleep only when the counter it   *)
(* has just read under the mutex is not zero.                               *)
LEMMA WgWaitStep ==
    ASSUME WgInv, NEW t \in WgThread,
           Waits(t) \/ WgWaitFails(t) \/ WgSpuriousWake(t)
    PROVE  WgInv'
  <1> USE DEF WgInv, WgTypeOK, CoreOutlivesWaiters, CountIsBalance, NoSleeperMissesZero
  <1>1. CASE WaitSleeps(t)
    BY <1>1 DEF WaitSleeps, InWait, CanCall
  <1>2. CASE WgWaitReturns(t)
    BY <1>2 DEF WgWaitReturns, InWait, CanCall, WgReturn
  <1>3. CASE WgWaitFails(t)
    BY <1>3 DEF WgWaitFails, WgReturn
  <1>4. CASE WgSpuriousWake(t)
    <2>1. /\ wgPc' \in [WgThread -> {"idle", "waiting", "woken"}]
          /\ \A v \in WgThread :
               wgPc'[v] = wgPc[v] \/ (wgPc[v] = "waiting" /\ wgPc'[v] = "woken")
      BY <1>4 DEF WgSpuriousWake, Woken
    <2> QED BY <1>4, <2>1 DEF WgSpuriousWake
  <1> QED BY <1>1, <1>2, <1>3, <1>4 DEF Waits

(* Every step of the wait group keeps WgInv. *)
LEMMA WgNextInv == FiniteSetFacts /\ WgInv /\ [WgNext]_wgVars => WgInv'
  <1> SUFFICES ASSUME FiniteSetFacts, WgInv, [WgNext]_wgVars PROVE WgInv'
    OBVIOUS
  <1>1. CASE UNCHANGED wgVars
    BY <1>1 DEF wgVars, WgInv, WgTypeOK, CountIsBalance, NoSleeperMissesZero, CoreOutlivesWaiters
  <1>2. CASE WgNext
    <2>1. PICK t \in WgThread : WgThreadNext(t)
      BY <1>2 DEF WgNext
    <2>2. CASE WgNew(t) \/ WgFinalize(t) \/ \E u \in WgThread : WgShare(t, u)
      BY <2>2, WgHandleStep
    <2>3. CASE \E d \in Delta : AddRefused(t, d) \/ Add(t, d)
      BY <2>3, AddStep
    <2>4. CASE AddFails(t)
      BY <2>4 DEF AddFails, WgReturn, WgInv, WgTypeOK, CountIsBalance,
                  NoSleeperMissesZero, CoreOutlivesWaiters
    <2>5. CASE Waits(t) \/ WgWaitFails(t) \/ WgSpuriousWake(t)
      BY <2>5, WgWaitStep
    <2> QED BY <2>1, <2>2, <2>3, <2>4, <2>5 DEF WgThreadNext
  <1> QED BY <1>1, <1>2

-----------------------------------------------------------------------------
(* The atomics.                                                             *)

Word == -Half .. Half - 1
Kinds == {"bool", "int", "uint"}

(* A word holds a value of the type: an AtomicBool's is 0 or 1.             *)
Holds(k, w) == w \in Word /\ (k = "bool" => w \in {0, 1})

-----------------------------------------------------------------------------
(* Conversions *)

(* The remainder of a division by n, as the C conversions use it. *)
LEMMA Residue ==
    ASSUME NEW n \in Nat \ {0}, NEW i \in Int
    PROVE  /\ i \in 0 .. n - 1 => i % n = i
           /\ i \in n .. 2 * n - 1 => i % n = i - n
           /\ i \in -n .. -1 => i % n = i + n
           /\ i % n \in 0 .. n - 1
  BY SMT

(* The casts between int32_t and uint32_t are inverse to each other.        *)
LEMMA Casts ==
    /\ \A w \in Word : /\ Unsigned(w) = IF w < 0 THEN w + 2 * Half ELSE w
                       /\ Unsigned(w) \in 0 .. 2 * Half - 1
                       /\ Signed(Unsigned(w)) = w
    /\ \A u \in 0 .. 2 * Half - 1 : Signed(u) \in Word /\ Unsigned(Signed(u)) = u
  <1> USE AtomicAssumption DEF Word
  <1>1. \A w \in Word : Unsigned(w) = IF w < 0 THEN w + 2 * Half ELSE w
    <2> SUFFICES ASSUME NEW w \in Word
                 PROVE  w % (2 * Half) = IF w < 0 THEN w + 2 * Half ELSE w
      BY DEF Unsigned
    <2> DEFINE N == 2 * Half
    <2>1. N \in Nat \ {0} /\ w \in Int /\ w \in -N .. N - 1 BY SMT
    <2> HIDE DEF N
    <2>2. CASE w < 0
      <3>1. w \in -N .. -1 BY <2>1, <2>2, SMT
      <3>2. w % N = w + N BY <2>1, <3>1, Residue
      <3> QED BY <2>2, <3>2 DEF N
    <2>3. CASE ~(w < 0)
      <3>1. w \in 0 .. N - 1 BY <2>1, <2>3, SMT
      <3>2. w % N = w BY <2>1, <3>1, Residue
      <3> QED BY <2>3, <3>2 DEF N
    <2> QED BY <2>2, <2>3
  <1> QED BY <1>1, SMT DEF Signed

(* Both halves of the packed result come back as they were put in.          *)
LEMMA Packing ==
    ASSUME NEW w \in Word, NEW exchanged \in BOOLEAN
    PROVE  /\ packed_exchanged(Pack(exchanged, w)) <=> exchanged
           /\ packed_observed_uint(Pack(exchanged, w)) = Unsigned(w)
           /\ w \in {0, 1} => (Pack(exchanged, w) % 2 # 0 <=> w # 0)
  <1> DEFINE N == 2 * Half
             u == Unsigned(w)
  <1>1. N \in Nat \ {0} /\ u \in 0 .. N - 1
    BY Casts, AtomicAssumption, SMT
  <1>2. CASE exchanged = TRUE
    <2>1. Pack(exchanged, w) = N + u BY <1>2 DEF Pack
    <2>2. (N + u) \div N = 1 /\ (N + u) % N = u
      <3> HIDE DEF N, u
      <3> QED BY <1>1, SMT
    <2>3. w \in {0, 1} => u = w BY Casts, SMT
    <2>4. w \in {0, 1} => ((N + u) % 2 # 0 <=> w # 0)
      BY <2>3, AtomicAssumption, SMT
    <2> QED BY <1>2, <2>1, <2>2, <2>4, SMT DEF packed_exchanged, packed_observed_uint
  <1>3. CASE exchanged = FALSE
    <2>1. Pack(exchanged, w) = u BY <1>1, <1>3, SMT DEF Pack
    <2>2. u \div N = 0 /\ u % N = u
      <3> HIDE DEF N, u
      <3> QED BY <1>1, SMT
    <2>3. w \in {0, 1} => u = w BY Casts, SMT
    <2> QED BY <1>3, <2>1, <2>2, <2>3, SMT DEF packed_exchanged, packed_observed_uint
  <1> QED BY <1>2, <1>3

(* Encode and Decode are inverse to each other on the values of a type.     *)
LEMMA Codec ==
    ASSUME NEW k \in Kinds
    PROVE  /\ \A v \in Register!Values(k) :
                 Holds(k, Encode(k, v)) /\ Decode(k, Encode(k, v)) = v
           /\ \A w : Holds(k, w) =>
                 Decode(k, w) \in Register!Values(k) /\ Encode(k, Decode(k, w)) = w
  <1> USE AtomicAssumption
  <1>1. CASE k = "bool"
    <2>1. 0 \in Word /\ 1 \in Word BY SMT DEF Word
    <2>2. Register!Values(k) = BOOLEAN BY <1>1 DEF Register!Values
    <2>3. Encode(k, TRUE) = 1 /\ Encode(k, FALSE) = 0 BY <1>1 DEF Encode
    <2>4. Decode(k, 1) = TRUE /\ Decode(k, 0) = FALSE
      <3>1. Decode(k, 1) = (1 # 0) /\ Decode(k, 0) = (0 # 0)
        BY <1>1 DEF Decode
      <3>2. (1 # 0) = TRUE /\ (0 # 0) = FALSE BY SMT
      <3> QED BY <3>1, <3>2
    <2> QED BY <1>1, <2>1, <2>2, <2>3, <2>4 DEF Holds
  <1>2. CASE k = "int"
    BY <1>2 DEF Register!Values, Encode, Decode, Holds, Word
  <1>3. CASE k = "uint"
    BY <1>3, Casts DEF Register!Values, Encode, Decode, Holds
  <1> QED BY <1>1, <1>2, <1>3 DEF Kinds

(* Small multiples of n leave no remainder. *)
LEMMA Multiples ==
    ASSUME NEW n \in Nat \ {0},
           NEW x \in {-3 * n, -2 * n, -n, 0, n, 2 * n, 3 * n}
    PROVE  x % n = 0
  <1>1. CASE x = -3 * n BY <1>1, SMT
  <1>2. CASE x = -2 * n BY <1>2, SMT
  <1>3. CASE x = -n BY <1>3, SMT
  <1>4. CASE x \in {0, n} BY <1>4, SMT
  <1>5. CASE x = 2 * n BY <1>5, SMT
  <1>6. CASE x = 3 * n BY <1>6, SMT
  <1> QED BY <1>1, <1>2, <1>3, <1>4, <1>5, <1>6

(* fetch_add in 32 bits adds modulo 2^32 in the type, signed or not.        *)
LEMMA AddWraps ==
    ASSUME NEW k \in {"int", "uint"}, NEW w \in Word,
           NEW delta \in Register!Values(k), NEW sum,
           sum = Signed((w + Encode(k, delta)) % (2 * Half))
    PROVE  /\ Holds(k, sum)
           /\ (Decode(k, sum) - Decode(k, w) - delta) % (2 * Half) = 0
  <1> USE AtomicAssumption
  <1> DEFINE N == 2 * Half
             e == Encode(k, delta)
  <1>1. N \in Nat \ {0} BY SMT
  <1>2. e \in Word /\ Decode(k, e) = delta
    BY Codec DEF Kinds, Holds
  <1>3. \E r \in {w + e, w + e + N} : r \in 0 .. N - 1 /\ sum = Signed(r)
    <2>1. w + e \in Int /\ w + e \in -N .. N - 1 BY <1>2, SMT DEF Word
    <2>2. sum = Signed((w + e) % N) OBVIOUS
    <2> HIDE DEF N, e
    <2>3. CASE w + e \in 0 .. N - 1
      <3>1. (w + e) % N = w + e BY <1>1, <2>1, <2>3, Residue
      <3> QED BY <2>2, <2>3, <3>1
    <2>4. CASE w + e \in -N .. -1
      <3>1. (w + e) % N = w + e + N BY <1>1, <2>1, <2>4, Residue
      <3>2. w + e + N \in 0 .. N - 1 BY <1>1, <2>1, <2>4, SMT
      <3> QED BY <2>2, <3>1, <3>2
    <2> QED BY <1>1, <2>1, <2>3, <2>4, SMT
  <1>4. sum \in Word /\ sum \in {w + e - N, w + e, w + e + N}
    <2> HIDE DEF e
    <2> QED BY <1>2, <1>3, Casts, SMT DEF Signed, Word
  <1>5. Holds(k, sum) BY <1>4 DEF Holds
  <1>6. \A x \in Word : Decode(k, x) \in {x, x + N} /\ Decode(k, x) \in Int
    BY Casts, SMT DEF Decode, Word
  <1>7. Decode(k, sum) - Decode(k, w) - delta \in
          {-3 * N, -2 * N, -N, 0, N, 2 * N, 3 * N}
    <2>1. /\ Decode(k, sum) \in {sum, sum + N}
          /\ Decode(k, w) \in {w, w + N}
          /\ delta \in {e, e + N}
      BY <1>2, <1>4, <1>6
    <2>2. w \in Int /\ e \in Int BY <1>2, SMT DEF Word
    <2> HIDE DEF N, e
    <2> QED BY <1>1, <1>4, <2>1, <2>2, SMT
  <1>8. (Decode(k, sum) - Decode(k, w) - delta) % N = 0
    <2> HIDE DEF N
    <2> QED BY <1>1, <1>7, Multiples
  <1> QED BY <1>5, <1>8

-----------------------------------------------------------------------------
(* The invariant: the word holds a value of the type, and the type is set   *)
(* by the one constructor call.                                             *)
AtomicInv ==
    /\ AtomicTypeOK
    /\ Accounted(atomicArc)
    /\ kind = "none" <=> ~Existing(atomicArc)

(* Before an atomic is made. *)
LEMMA AtomicInitInv == FiniteSetFacts /\ AtomicInit => AtomicInv
  <1> SUFFICES ASSUME FiniteSetFacts, AtomicInit PROVE AtomicInv
    OBVIOUS
  <1>1. NoArc \in ArcOf(AtomicThread) /\ Accounted(NoArc) BY ArcNone
  <1>2. ~Existing(NoArc) BY SMT DEF NoArc, Existing
  <1> QED BY <1>1, <1>2, AtomicAssumption, SMT DEF AtomicInit, AtomicInv, AtomicTypeOK

(* What every operation that reaches the native code keeps and needs.       *)
LEMMA Operations ==
    ASSUME AtomicInv, kind # "none"
    PROVE  kind \in Kinds /\ Holds(kind, word) /\ word \in Word
  BY DEF AtomicInv, AtomicTypeOK, Kinds, Holds, Word

(* Every step of the atomics keeps AtomicInv. *)
LEMMA AtomicNextInv == FiniteSetFacts /\ AtomicInv /\ [AtomicNext]_atomicVars => AtomicInv'
  <1> SUFFICES ASSUME FiniteSetFacts, AtomicInv, [AtomicNext]_atomicVars PROVE AtomicInv'
    OBVIOUS
  <1> USE DEF AtomicInv
  <1>1. CASE UNCHANGED atomicVars
    BY <1>1 DEF atomicVars, AtomicTypeOK
  <1>2. ASSUME NEW t \in AtomicThread, AtomicNew(t) PROVE AtomicInv'
    <2>1. atomicArc' \in ArcOf(AtomicThread) /\ Accounted(atomicArc')
      BY <1>2, ArcNew, AtomicAssumption DEF AtomicNew, AtomicTypeOK
    <2>2. Existing(atomicArc') BY <1>2, SMT DEF AtomicNew, NewArc, Existing
    <2>3. kind' \in Kinds /\ Holds(kind', word')
      BY <1>2, Codec DEF AtomicNew, Kinds
    <2> QED BY <2>1, <2>2, <2>3 DEF AtomicTypeOK, Kinds, Holds, Word
  <1>3. ASSUME NEW t \in AtomicThread, AtomicShare(t) PROVE AtomicInv'
    <2>1. atomicArc' \in ArcOf(AtomicThread) /\ Accounted(atomicArc')
      BY <1>3, ArcShared, AtomicAssumption DEF AtomicShare, AtomicTypeOK
    <2>2. Existing(atomicArc) /\ Existing(atomicArc')
      <3>1. IsFiniteSet(atomicArc.holders) /\ atomicArc.refs \in Nat
        BY AtomicAssumption DEF FiniteSetFacts, AtomicTypeOK, ArcOf
      <3>2. atomicArc.refs > 0
        BY <1>3, <3>1, SMT DEF FiniteSetFacts, AtomicShare, Accounted
      <3> QED BY <1>3, <3>1, <3>2, SMT DEF AtomicShare, Shared, Existing
    <2> QED BY <1>3, <2>1, <2>2 DEF AtomicShare, AtomicTypeOK
  <1>4. ASSUME NEW t \in AtomicThread, AtomicFinalize(t) PROVE AtomicInv'
    <2>1. atomicArc' \in ArcOf(AtomicThread) /\ Accounted(atomicArc')
      BY <1>4, ArcDropped, AtomicAssumption DEF AtomicFinalize, AtomicTypeOK
    <2>2. Existing(atomicArc) /\ Existing(atomicArc')
      <3>1. IsFiniteSet(atomicArc.holders) /\ atomicArc.refs \in Nat
        BY AtomicAssumption DEF FiniteSetFacts, AtomicTypeOK, ArcOf
      <3>2. atomicArc.refs > 0
        BY <1>4, <3>1, SMT DEF FiniteSetFacts, AtomicFinalize, Accounted
      <3>3. CASE atomicArc.refs = 1
        <4>1. atomicArc'.freed = TRUE
          BY <1>4, <3>3 DEF AtomicFinalize, Dropped
        <4> QED BY <3>2, <4>1 DEF Existing
      <3>4. CASE atomicArc.refs # 1
        BY <1>4, <3>1, <3>2, <3>4, SMT DEF AtomicFinalize, Dropped, Existing
      <3> QED BY <3>3, <3>4
    <2> QED BY <1>4, <2>1, <2>2 DEF AtomicFinalize, AtomicTypeOK
  <1>5. ASSUME kind # "none", AtomicOperate PROVE AtomicInv'
    <2>1. UNCHANGED <<atomicArc, kind>> /\ Holds(kind, word')
      <3> USE <1>5, Operations, Codec
      <3>1. ASSUME NEW order, NEW failure, NEW op, AtomicRefuses(op, order, failure)
            PROVE  UNCHANGED <<atomicArc, kind, word>>
        BY <3>1 DEF AtomicRefuses
      <3>2. ASSUME NEW order, AtomicLoad(order)
            PROVE  UNCHANGED <<atomicArc, kind, word>>
        BY <3>2 DEF AtomicLoad, Reaches
      <3>3. ASSUME NEW order, NEW v \in Register!Values(kind),
                   AtomicStore(v, order) \/ AtomicSwap(v, order)
            PROVE  UNCHANGED <<atomicArc, kind>> /\ Holds(kind, word')
        BY <3>3 DEF AtomicStore, AtomicSwap, Reaches
      <3>4. ASSUME NEW order, NEW v \in Register!Values(kind), AtomicFetchAdd(v, order)
            PROVE  UNCHANGED <<atomicArc, kind>> /\ Holds(kind, word')
        BY <3>4, AddWraps, SMT DEF AtomicFetchAdd, Reaches, Kinds
      <3>5. ASSUME NEW order, NEW failure, NEW v \in Register!Values(kind),
                   NEW next \in Register!Values(kind),
                   AtomicCompareExchange(v, next, order, failure)
            PROVE  UNCHANGED <<atomicArc, kind>> /\ Holds(kind, word')
        BY <3>5 DEF AtomicCompareExchange, Reaches
      <3> QED BY <3>1, <3>2, <3>3, <3>4, <3>5 DEF AtomicOperate
    <2> QED BY <2>1 DEF AtomicTypeOK, Holds, Word
  <1> QED BY <1>1, <1>2, <1>3, <1>4, <1>5 DEF AtomicNext

-----------------------------------------------------------------------------
(* Every step is the step of the register, or one it does not see.          *)

(* Before an atomic is made there is no register. *)
LEMMA InitRefines == AtomicInit => Register!Init
  BY DEF AtomicInit, Register!Init, Decode

(* atomic_new makes a register. *)
LEMMA NewRefines ==
    ASSUME AtomicInv, NEW t, AtomicNew(t)
    PROVE  Register!Create
  <1>1. kind = "none" BY DEF AtomicInv, AtomicNew
  <1>2. PICK k \in Kinds : \E v \in Register!Values(k) :
           /\ kind' = k
           /\ word' = Encode(k, v)
           /\ answer' = [op |-> "new", kind |-> k, arg |-> v]
    BY DEF AtomicNew, Kinds
  <1>3. PICK v \in Register!Values(k) :
           /\ kind' = k
           /\ word' = Encode(k, v)
           /\ answer' = [op |-> "new", kind |-> k, arg |-> v]
    BY <1>2
  <1>4. Decode(kind', word') = v BY <1>3, Codec
  <1> QED BY <1>1, <1>3, <1>4 DEF Register!Create, Kinds

(* Every native operation is the register's, with the same arguments. *)
LEMMA OperateRefines ==
    ASSUME AtomicInv, kind # "none", AtomicOperate
    PROVE  Register!Operate
  <1> USE Operations, Codec
  <1>1. ASSUME NEW order, NEW failure, NEW op, AtomicRefuses(op, order, failure)
        PROVE  Register!Refuse /\ UNCHANGED kind
    BY <1>1 DEF AtomicRefuses, Register!Refuse
  <1>2. ASSUME NEW order, AtomicLoad(order)
        PROVE  Register!Load /\ UNCHANGED kind
    BY <1>2 DEF AtomicLoad, Reaches, Register!Load
  <1>3. ASSUME NEW order, NEW v \in Register!Values(kind), AtomicStore(v, order)
        PROVE  Register!Store(v) /\ UNCHANGED kind
    BY <1>3 DEF AtomicStore, Reaches, Register!Store
  <1>4. ASSUME NEW order, NEW v \in Register!Values(kind), AtomicSwap(v, order)
        PROVE  Register!Swap(v) /\ UNCHANGED kind
    BY <1>4 DEF AtomicSwap, Reaches, Register!Swap
  <1>5. ASSUME NEW order, NEW v \in Register!Values(kind), AtomicFetchAdd(v, order)
        PROVE  Register!FetchAdd(v) /\ UNCHANGED kind
    <2>1. kind # "bool" /\ UNCHANGED kind BY <1>5 DEF AtomicFetchAdd, Reaches
    <2>2. kind \in {"int", "uint"} BY <2>1 DEF Kinds
    <2>3. /\ Holds(kind, word')
          /\ (Decode(kind, word') - Decode(kind, word) - v) % (2 * Half) = 0
      BY <1>5, <2>2, AddWraps DEF AtomicFetchAdd
    <2> QED BY <1>5, <2>1, <2>3 DEF AtomicFetchAdd, Register!FetchAdd
  <1>6. ASSUME NEW order, NEW failure, NEW v \in Register!Values(kind),
               NEW next \in Register!Values(kind),
               AtomicCompareExchange(v, next, order, failure)
        PROVE  Register!CompareExchange(v, next) /\ UNCHANGED kind
    <2> DEFINE exchanged == word = Encode(kind, v)
               packed == Pack(exchanged, word)
    <2>1. exchanged <=> Decode(kind, word) = v OBVIOUS
    <2>2. exchanged \in BOOLEAN BY Zenon
    <2>3. packed_exchanged(packed) <=> exchanged BY <2>2, Packing
    <2>4. Observed(kind, packed) = Decode(kind, word)
      <3> HIDE DEF exchanged
      <3>1. CASE kind = "bool"
        <4>1. packed % 2 # 0 <=> word # 0 BY <2>2, <3>1, Packing DEF Holds
        <4> HIDE DEF packed
        <4>2. (packed % 2 # 0) = (word # 0) BY <4>1
        <4> QED BY <3>1, <4>2 DEF Observed, Decode
      <3>2. CASE kind = "int"
        BY <2>2, <3>2, Packing, Casts DEF Observed, Decode
      <3>3. CASE kind = "uint"
        BY <2>2, <3>3, Packing DEF Observed, Decode
      <3> QED BY <3>1, <3>2, <3>3 DEF Kinds
    <2>5. /\ UNCHANGED kind
          /\ word' = IF exchanged THEN Encode(kind, next) ELSE word
          /\ answer' = [op |-> "compare_exchange", current |-> v, next |-> next,
                        old |-> Observed(kind, packed),
                        exchanged |-> packed_exchanged(packed)]
      BY <1>6 DEF AtomicCompareExchange, Reaches
    <2>6. Decode(kind, word)' = IF Decode(kind, word) = v THEN next ELSE Decode(kind, word)
      BY <2>1, <2>5
    <2>7. packed_exchanged(packed) = (Decode(kind, word) = v)
      BY <2>1, <2>3 DEF packed_exchanged
    <2>8. answer' = [op |-> "compare_exchange", current |-> v, next |-> next,
                     old |-> Decode(kind, word), exchanged |-> Decode(kind, word) = v]
      <3> HIDE DEF packed
      <3> QED BY <2>4, <2>5, <2>7
    <2> QED BY <2>5, <2>6, <2>8 DEF Register!CompareExchange
  <1> QED BY <1>1, <1>2, <1>3, <1>4, <1>5, <1>6
      DEF AtomicOperate, Register!Operate

-----------------------------------------------------------------------------
(* Orderings *)

(* The validators accept what C allows, and the codes denote the orders.    *)
LEMMA Orders ==
    ASSUME NEW op \in {"load", "store", "swap", "fetch_add", "compare_exchange"},
           NEW order \in Ordering, NEW failure \in Ordering
    PROVE  /\ Validated(op, order, failure) <=> Legal(op, order, failure)
           /\ sync_memory_order(code(order)) = order
  <1>1. sync_memory_order(code(order)) = order
    BY SMT DEF Ordering, code, sync_memory_order
  <1>2. failure_rank(failure) \in 0 .. success_failure_rank(order)
          <=> Legal("compare_exchange", order, failure)
    BY SMT DEF Ordering, failure_rank, success_failure_rank, Legal, Releases, Acquires
  <1>3. op # "compare_exchange" => (Validated(op, order, failure) <=> Legal(op, order, failure))
    BY DEF Ordering, Validated, Legal, Releases, Acquires
  <1>4. Validated("compare_exchange", order, failure)
          <=> failure_rank(failure) \in 0 .. success_failure_rank(order)
    BY DEF Validated
  <1> QED BY <1>1, <1>2, <1>3, <1>4

-----------------------------------------------------------------------------
(* The once.                                                                *)

(* Before the once is made. *)
LEMMA OnceInitInv == FiniteSetFacts /\ OnceInit => OnceInv
  <1> SUFFICES ASSUME FiniteSetFacts, OnceInit PROVE OnceInv
    OBVIOUS
  <1>1. NoArc \in ArcOf(OnceThread) /\ Accounted(NoArc) BY ArcNone
  <1>2. onceMuted \in BOOLEAN /\ abandoned \in BOOLEAN BY Zenon DEF OnceInit
  <1>3. OnceTypeOK BY <1>1, <1>2 DEF OnceInit, OnceTypeOK
  <1>4. OutcomesTrue /\ SleepersHaveRunner
    BY SMT DEF OnceInit, OutcomesTrue, SleepersHaveRunner
  <1>5. CoreOutlivesCallers /\ RunnerKnown
    BY <1>1 DEF OnceInit, CoreOutlivesCallers, RunnerKnown
  <1> QED BY <1>3, <1>4, <1>5 DEF OnceInv

(* Handles: neither a caller nor the initializer's thread loses its own.    *)
LEMMA OnceHandleStep ==
    ASSUME FiniteSetFacts, OnceInv, NEW t \in OnceThread, NEW u \in OnceThread,
           OnceNew(t) \/ OnceShare(t, u) \/ OnceFinalize(t)
    PROVE  OnceInv'
  <1> USE DEF OnceInv, OnceTypeOK, CoreOutlivesCallers
  <1>1. /\ onceArc' \in ArcOf(OnceThread)
        /\ Accounted(onceArc')
        /\ \A v \in OnceThread : oncePc[v] # "idle" => v \in onceArc'.holders
    <2>1. CASE OnceNew(t)
      BY <2>1, ArcNew, OnceAssumption, SMTT(30) DEF OnceNew
    <2>2. CASE OnceShare(t, u)
      BY <2>2, ArcShared, OnceAssumption, SMT DEF OnceShare
    <2>3. CASE OnceFinalize(t)
      BY <2>3, ArcDropped, OnceAssumption, SMT DEF OnceFinalize
    <2> QED BY <2>1, <2>2, <2>3
  <1>2. UNCHANGED <<state, oncePc, onceInside, onceOutcome, runs, ended, onceMuted, abandoned>>
    BY DEF OnceNew, OnceShare, OnceFinalize, ghosts
  <1> QED BY <1>1, <1>2 DEF OutcomesTrue, SleepersHaveRunner, RunnerKnown

(* begin: only a fresh Once starts an initializer, and nobody is inside one *)
(* then; a caller goes to sleep only while one runs.                        *)
LEMMA BeginStep ==
    ASSUME OnceInv, NEW t \in OnceThread, Begins(t) \/ BeginFails(t) \/ OnceSpuriousWake(t)
    PROVE  OnceInv'
  <1> USE DEF OnceInv, OnceTypeOK, OutcomesTrue, SleepersHaveRunner, CoreOutlivesCallers,
              RunnerKnown, OnceGoto, OnceReturn, ghosts
  <1>1. CASE BeginWaits(t)
    BY <1>1 DEF BeginWaits, InBegin, OnceCanCall, OnceHome
  <1>2. CASE BeginRuns(t)
    BY <1>2, SMT DEF BeginRuns, InBegin, OnceCanCall, OnceHome
  <1>3. CASE BeginReturns(t)
    BY <1>3 DEF BeginReturns, InBegin, OnceCanCall, OnceHome
  <1>4. CASE BeginFails(t)
    BY <1>4 DEF BeginFails, InBegin, OnceCanCall, OnceHome
  <1>5. CASE OnceSpuriousWake(t)
    BY <1>5 DEF OnceSpuriousWake, Woken
  <1> QED BY <1>1, <1>2, <1>3, <1>4, <1>5 DEF Begins

(* The end of the initializer: it was the only one.                         *)
LEMMA CallbackStep ==
    ASSUME OnceInv, NEW t \in OnceThread, CallbackReturns(t) \/ CallbackRaises(t)
    PROVE  OnceInv'
  <1> USE DEF OnceInv, OnceTypeOK, OutcomesTrue, SleepersHaveRunner, CoreOutlivesCallers,
              RunnerKnown, OnceGoto
  <1>1. CASE CallbackReturns(t)
    BY <1>1 DEF CallbackReturns
  <1>2. CASE CallbackRaises(t)
    BY <1>2, SMT DEF CallbackRaises
  <1> QED BY <1>1, <1>2

(* complete and poison: nobody was told anything before, and everybody is   *)
(* woken unless the broadcast fails.                                        *)
LEMMA SettleStep ==
    ASSUME OnceInv, NEW t \in OnceThread, Settles(t) \/ SettleFails(t)
    PROVE  OnceInv'
  <1> USE DEF OnceInv, OnceTypeOK, OutcomesTrue, SleepersHaveRunner, CoreOutlivesCallers,
              RunnerKnown, OnceGoto, OnceReturn
  <1>1. CASE SettleFails(t)
    BY <1>1 DEF SettleFails
  <1>2. CASE Settles(t)
    <2>1. /\ t \in onceInside /\ onceInside' = {} /\ state = "running" /\ runs # 0
          /\ state' \in {"done", "poisoned"}
          /\ state' = "done" => ended = "returned"
          /\ state' = "poisoned" => ended = "raised"
          /\ UNCHANGED <<onceArc, runs, ended, abandoned>>
      <3>1. /\ \/ oncePc[t] = "completing" /\ state' = "done"
               \/ oncePc[t] = "poisoning" /\ state' = "poisoned"
            /\ onceInside' = onceInside \ {t}
            /\ UNCHANGED <<onceArc, runs, ended, abandoned>>
        BY <1>2 DEF Settles, Complete, Poison, Settle
      <3>2. t \in onceInside /\ state = "running" /\ runs # 0
        BY <3>1
      <3>3. onceInside' = {}
        BY <3>1, <3>2
      <3> QED BY <3>1, <3>2, <3>3
    <2>2. PICK ok \in BOOLEAN :
            /\ oncePc' = [Woken(oncePc, IF ok THEN OnceThread ELSE {}) EXCEPT ![t] = "idle"]
            /\ \/ OnceReturn(t, "Failed")
               \/ state' = "done" /\ OnceReturn(t, "Ok")
               \/ OnceReturn(t, "Raised")
            /\ onceMuted' = (onceMuted \/ ~ok)
      <3>1. \A x \in Notified(OnceFault) : x \in BOOLEAN
        BY DEF Notified
      <3> QED BY <1>2, <3>1 DEF Settles, Complete, Poison, Settle
    <2>3. /\ oncePc' \in [OnceThread -> {"idle", "waiting", "woken", "calling",
                                         "completing", "poisoning"}]
          /\ oncePc'[t] = "idle"
          /\ \A v \in OnceThread \ {t} :
               /\ ok => oncePc'[v] # "waiting"
               /\ oncePc'[v] = oncePc[v] \/ (oncePc[v] = "waiting" /\ oncePc'[v] = "woken")
      BY <2>2 DEF Woken
    <2>4. onceMuted' \in BOOLEAN /\ (~onceMuted' => ok = TRUE)
      BY <2>2
    <2>5. OnceTypeOK'
      BY <2>1, <2>2, <2>3, <2>4, SMT
    <2>6. OutcomesTrue'
      BY <2>1, <2>2
    <2>7. SleepersHaveRunner'
      BY <2>1, <2>3, <2>4
    <2>8. CoreOutlivesCallers'
      BY <2>1, <2>3
    <2>9. RunnerKnown'
      BY <2>1, <2>3
    <2> QED BY <2>5, <2>6, <2>7, <2>8, <2>9
  <1> QED BY <1>1, <1>2

(* Every step of the once keeps OnceInv. *)
LEMMA OnceNextInv == FiniteSetFacts /\ OnceInv /\ [OnceNext]_onceVars => OnceInv'
  <1> SUFFICES ASSUME FiniteSetFacts, OnceInv, [OnceNext]_onceVars PROVE OnceInv'
    OBVIOUS
  <1>1. CASE UNCHANGED onceVars
    BY <1>1 DEF onceVars, ghosts, OnceInv, OnceTypeOK, OutcomesTrue, SleepersHaveRunner,
                CoreOutlivesCallers, RunnerKnown
  <1>2. CASE OnceNext
    <2>1. PICK t \in OnceThread : OnceThreadNext(t)
      BY <1>2 DEF OnceNext
    <2> QED BY <2>1, OnceHandleStep, BeginStep, CallbackStep, SettleStep DEF OnceThreadNext
  <1> QED BY <1>1, <1>2

-----------------------------------------------------------------------------
(* The theorems.  From here on the theory of finite sets is at hand.        *)
INSTANCE FiniteSetTheorems

(* The facts the lemmas assume of finite sets are theorems. *)
LEMMA FiniteSetFactsHold == FiniteSetFacts
<1>1. /\ IsFiniteSet({}) /\ Cardinality({}) = 0
      /\ \A x : IsFiniteSet({x}) /\ Cardinality({x}) = 1
  BY FS_EmptySet, FS_Singleton
<1>2. ASSUME NEW S, IsFiniteSet(S)
      PROVE  Cardinality(S) \in Nat /\ (S # {} => Cardinality(S) # 0)
  BY <1>2, FS_CardinalityType, FS_EmptySet
<1>3. ASSUME NEW S, NEW R, IsFiniteSet(S), R \subseteq S
      PROVE  IsFiniteSet(R)
  BY <1>3, FS_Subset
<1>4. ASSUME NEW S, NEW R, IsFiniteSet(S), IsFiniteSet(R)
      PROVE  IsFiniteSet(S \cup R)
  BY <1>4, FS_Union
<1>5. ASSUME NEW S, NEW x, IsFiniteSet(S)
      PROVE  /\ x \notin S => Cardinality(S \cup {x}) = Cardinality(S) + 1
             /\ x \in S => Cardinality(S \ {x}) = Cardinality(S) - 1
  BY <1>5, FS_AddElement, FS_RemoveElement
<1>6. QED
  BY <1>1, <1>2, <1>3, <1>4, <1>5 DEF FiniteSetFacts

(* The invariant of the mutex and its condition variable. *)
THEOREM Invariance == Spec => []IInv
  BY InitIInv, NextIInv, FiniteSetFactsHold, PTL DEF Spec

(* condvar_wait: the owner check, read without the mutex, lets nobody into  *)
(* cond_wait who does not hold it and refuses no callback that does, for    *)
(* any number of threads.                                                   *)
THEOREM OwnerCheckCorrect == Spec => []OwnerCheckExact
  <1>1. IInv => OwnerCheckExact BY DEF IInv
  <1> QED BY <1>1, Invariance, PTL

(* with_lock: exactly the thread between lock and unlock has the mutex, so  *)
(* callbacks exclude each other and none leaves it locked.                  *)
THEOREM ExclusionCorrect == Spec => []HeldWhileCritical
  <1>1. IInv => HeldWhileCritical BY DEF IInv
  <1> QED BY <1>1, Invariance, PTL

(* The guards' references: the value and both cores are freed with their    *)
(* last user.                                                               *)
THEOREM GuardsCorrect == Spec => []GuardsAccounted
  <1>1. IInv => GuardsAccounted BY DEF IInv
  <1> QED BY <1>1, Invariance, PTL

(* with_read and with_write: a write callback runs alone, and exactly the   *)
(* running callbacks hold the OS lock, for any number of threads.           *)
THEOREM RwExclusionCorrect == RwSpec => []CallbacksExclude
  <1>1. RwInv => CallbacksExclude BY DEF RwInv
  <1> QED BY <1>1, RwInitInv, RwNextInv, FiniteSetFactsHold, PTL DEF RwSpec

(* The invariant of the wait group. *)
THEOREM WgInvariance == WgSpec => []WgInv
  BY WgInitInv, WgNextInv, FiniteSetFactsHold, PTL DEF WgSpec

(* wait_group_add: the counter is the sum of the deltas that were reported  *)
(* as added, and stays in 0 .. INT32_MAX, for all deltas and any number of  *)
(* threads.                                                                 *)
THEOREM CountCorrect == WgSpec => []CountIsBalance
  <1>1. WgInv => CountIsBalance BY DEF WgInv
  <1> QED BY <1>1, WgInvariance, PTL

(* wait_group_wait: while no broadcast has failed nobody sleeps although    *)
(* the counter is zero, however often the group is used again.              *)
THEOREM SleepersCorrect == WgSpec => []NoSleeperMissesZero
  <1>1. WgInv => NoSleeperMissesZero BY DEF WgInv
  <1> QED BY <1>1, WgInvariance, PTL

(* wait_group_finalize: the core is freed with the last handle and not      *)
(* under a thread in wait.                                                  *)
THEOREM CoreCorrect == WgSpec => []CoreOutlivesWaiters
  <1>1. WgInv => CoreOutlivesWaiters BY DEF WgInv
  <1> QED BY <1>1, WgInvariance, PTL

(* AtomicBool, AtomicInt and AtomicUInt: every operation of any number of   *)
(* threads on the shared int32_t is the operation on a register of the API  *)
(* type, with the same arguments: the value it leaves and what it returns   *)
(* are the register's, for every word size.                                 *)
THEOREM RegisterCorrect == AtomicSpec => RefinesRegister
  <1>1. AtomicInv /\ [AtomicNext]_atomicVars
          => [Register!Next]_<<kind, Decode(kind, word), answer>>
    <2> SUFFICES ASSUME AtomicInv, [AtomicNext]_atomicVars
                 PROVE  [Register!Next]_<<kind, Decode(kind, word), answer>>
      OBVIOUS
    <2>1. CASE UNCHANGED <<kind, word, answer>>
      BY <2>1
    <2>2. ASSUME NEW t, AtomicNew(t) PROVE Register!Next
      BY <2>2, NewRefines DEF Register!Next
    <2>3. ASSUME NEW t, AtomicShare(t) \/ AtomicFinalize(t)
          PROVE  UNCHANGED <<kind, word, answer>>
      BY <2>3 DEF AtomicShare, AtomicFinalize
    <2>4. CASE kind # "none" /\ AtomicOperate
      BY <2>4, OperateRefines DEF Register!Next
    <2>5. CASE UNCHANGED atomicVars
      BY <2>5 DEF atomicVars
    <2> QED BY <2>1, <2>2, <2>3, <2>4, <2>5 DEF AtomicNext
  <1> QED BY <1>1, InitRefines, AtomicInitInv, AtomicNextInv, FiniteSetFactsHold, PTL
      DEF AtomicSpec, RefinesRegister, Register!Spec

(* atomic.mbt's validators and sync_memory_order: the C atomics get exactly *)
(* the requests C allows, with the orders that were requested.              *)
THEOREM OrdersCorrect == AtomicSpec => []OrdersExact
  <1>1. AtomicInit => OrdersExact
    BY SMT DEF AtomicInit, OrdersExact
  <1>2. OrdersExact /\ [AtomicNext]_atomicVars => OrdersExact'
    <2> SUFFICES ASSUME OrdersExact, [AtomicNext]_atomicVars PROVE OrdersExact'
      OBVIOUS
    <2>1. CASE UNCHANGED native
      BY <2>1 DEF OrdersExact
    <2>2. ASSUME NEW op \in {"load", "store", "swap", "fetch_add", "compare_exchange"},
                 NEW order \in Ordering, NEW failure \in Ordering,
                 Reaches(op, order, failure)
          PROVE  OrdersExact'
      BY <2>2, Orders DEF Reaches, OrdersExact
    <2>3. ASSUME NEW op \in {"load", "store", "compare_exchange"},
                 NEW order \in Ordering, NEW failure \in Ordering,
                 AtomicRefuses(op, order, failure)
          PROVE  OrdersExact'
      BY <2>3, Orders, SMT DEF AtomicRefuses, OrdersExact
    <2>4. ASSUME AtomicOperate PROVE OrdersExact'
      <3>1. PICK order \in Ordering :
               \/ AtomicLoad(order)
               \/ \E op \in {"load", "store"} : AtomicRefuses(op, order, order)
               \/ \E failure \in Ordering : AtomicRefuses("compare_exchange", order, failure)
               \/ \E v : \/ AtomicStore(v, order)
                         \/ AtomicSwap(v, order)
                         \/ AtomicFetchAdd(v, order)
                         \/ \E next : \E failure \in Ordering :
                               AtomicCompareExchange(v, next, order, failure)
        BY <2>4 DEF AtomicOperate
      <3> QED BY <2>2, <2>3, <3>1
          DEF AtomicLoad, AtomicStore, AtomicSwap, AtomicFetchAdd, AtomicCompareExchange
    <2>5. ASSUME NEW t, AtomicNew(t) \/ AtomicShare(t) \/ AtomicFinalize(t)
          PROVE  UNCHANGED native
      BY <2>5 DEF AtomicNew, AtomicShare, AtomicFinalize
    <2> QED BY <2>1, <2>4, <2>5 DEF AtomicNext, atomicVars
  <1> QED BY <1>1, <1>2, PTL DEF AtomicSpec

(* The invariant of the once. *)
THEOREM OnceInvariance == OnceSpec => []OnceInv
  BY OnceInitInv, OnceNextInv, FiniteSetFactsHold, PTL DEF OnceSpec

(* call_once: the initializer is started at most once, and what a caller is *)
(* told is how it ended, for any number of racing callers and all faults.   *)
THEOREM OutcomesCorrect == OnceSpec => []OutcomesTrue
  <1>1. OnceInv => OutcomesTrue BY DEF OnceInv
  <1> QED BY <1>1, OnceInvariance, PTL

(* begin, complete and poison: a caller sleeps only while an initializer is *)
(* running that somebody is there to end, but for the two failures named in *)
(* SleepersHaveRunner.                                                      *)
THEOREM OnceSleepersCorrect == OnceSpec => []SleepersHaveRunner
  <1>1. OnceInv => SleepersHaveRunner BY DEF OnceInv
  <1> QED BY <1>1, OnceInvariance, PTL

(* once_finalize: the core is freed with the last handle, not under a       *)
(* caller or the initializer.                                               *)
THEOREM OnceCoreCorrect == OnceSpec => []CoreOutlivesCallers
  <1>1. OnceInv => CoreOutlivesCallers BY DEF OnceInv
  <1> QED BY <1>1, OnceInvariance, PTL

=============================================================================
