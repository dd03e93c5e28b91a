----------------------------- MODULE AtomicWord -----------------------------
(***************************************************************************)
(* The atomics of src/atomic.  AtomicBool, AtomicInt and AtomicUInt share  *)
(* one native core with an int32_t in it: the MoonBit side validates the   *)
(* memory orderings and decodes the packed result of compare_exchange, the *)
(* native wrappers convert between the API type and the int32_t.  An       *)
(* operation is one step, as it is one instruction; what an ordering does  *)
(* to the memory around the word is not modelled.  Names are prefixed so   *)
(* that this module can be checked beside another.                         *)
(***************************************************************************)
EXTENDS Native

CONSTANTS
    AtomicThread,
    Half        \* 2^31: an int32_t is in -Half .. Half - 1

ASSUME AtomicAssumption ==
    /\ IsFiniteSet(AtomicThread)
    /\ Half \in Nat \ {0, 1}

VARIABLES
    atomicArc,  \* the core's reference count and handles
    kind,       \* the API type of the handles
    word,       \* core->value
    answer,     \* the last operation: what it was called with and returned
    native      \* ghost: the last request, and the orders the C code got

atomicVars == <<atomicArc, kind, word, answer, native>>

Ordering == {"Relaxed", "Acquire", "Release", "AcqRel", "SeqCst"}

-----------------------------------------------------------------------------
(* Conversions *)

(* (int32_t)u, and reinterpret_as_int *)
Signed(u) == IF u < Half THEN u ELSE u - 2 * Half

(* (uint32_t)i *)
Unsigned(i) == i % (2 * Half)

(* The int32_t the wrappers store for a value of the type.                  *)
Encode(k, v) ==
    CASE k = "bool" -> IF v THEN 1 ELSE 0
      [] k = "int"  -> v
      [] k = "uint" -> Signed(v)

(* The value they return for an int32_t.                                    *)
Decode(k, w) ==
    CASE k = "bool" -> w # 0
      [] k = "uint" -> Unsigned(w)
      [] k \in {"int", "none"} -> w

(* The uint64_t of compare_exchange: the observed word in the low half, the *)
(* flag above it.                                                           *)
Pack(exchanged, observed) ==
    (IF exchanged THEN 2 * Half ELSE 0) + Unsigned(observed)

packed_exchanged(packed) == packed \div (2 * Half) # 0

packed_observed_uint(packed) == packed % (2 * Half)

Observed(k, packed) ==
    CASE k = "bool" -> packed % 2 # 0
      [] k = "int"  -> Signed(packed_observed_uint(packed))
      [] k = "uint" -> packed_observed_uint(packed)

-----------------------------------------------------------------------------
(* Orderings *)

code(order) ==
    CASE order = "Relaxed" -> 0
      [] order = "Acquire" -> 1
      [] order = "Release" -> 2
      [] order = "AcqRel"  -> 3
      [] order = "SeqCst"  -> 4

sync_memory_order(n) ==
    CASE n = 0 -> "Relaxed"
      [] n = 1 -> "Acquire"
      [] n = 2 -> "Release"
      [] n = 3 -> "AcqRel"
      [] n \notin 0 .. 3 -> "SeqCst"

failure_rank(order) ==
    CASE order = "Relaxed" -> 0
      [] order = "Acquire" -> 1
      [] order = "SeqCst"  -> 2
      [] order \in {"Release", "AcqRel"} -> -1

(* Mutant of success_failure_rank: Release ranks with Acquire.              *)
RankReleaseAcquires(order) ==
    CASE order = "Relaxed" -> 0
      [] order = "SeqCst"  -> 2
      [] OTHER -> 1

success_failure_rank(order) ==
    CASE order \in {"Relaxed", "Release"} -> 0
      [] order \in {"Acquire", "AcqRel"}  -> 1
      [] order = "SeqCst" -> 2

(* The validation before the native call; swap and fetch_add have none.     *)
Validated(op, order, failure) ==
    CASE op = "load"  -> order \notin {"Release", "AcqRel"}
      [] op = "store" -> order \notin {"Acquire", "AcqRel"}
      [] op = "compare_exchange" ->
            failure_rank(failure) \in 0 .. success_failure_rank(order)
      [] op \in {"swap", "fetch_add"} -> TRUE

-----------------------------------------------------------------------------
AtomicInit ==
    /\ atomicArc = NoArc
    /\ kind = "none"
    /\ word = 0
    /\ answer = [op |-> "none"]
    /\ native = [op |-> "none"]

Register == INSTANCE AtomicRegister WITH value <- Decode(kind, word)

AtomicNew(t) ==
    /\ ~Existing(atomicArc)
    /\ atomicArc' = NewArc(t)
    /\ \E k \in {"bool", "int", "uint"} : \E v \in Register!Values(k) :
          /\ kind' = k
          /\ word' = Encode(k, v)
          /\ answer' = [op |-> "new", kind |-> k, arg |-> v]
    /\ UNCHANGED native

AtomicShare(u) ==
    /\ atomicArc.holders # {}
    /\ u \notin atomicArc.holders
    /\ atomicArc' = Shared(atomicArc, u)
    /\ UNCHANGED <<kind, word, answer, native>>

AtomicFinalize(t) ==
    /\ t \in atomicArc.holders
    /\ atomicArc' = Dropped(atomicArc, t)
    /\ UNCHANGED <<kind, word, answer, native>>

(* A thread with a handle calls op, and the orders pass the validation.     *)
Reaches(op, order, failure) ==
    /\ atomicArc.holders # {}
    /\ Validated(op, order, failure)
    /\ native' = [op |-> op, order |-> order, failure |-> failure, refused |-> FALSE,
                  given |-> {sync_memory_order(code(order)),
                             sync_memory_order(code(failure))}]
    /\ UNCHANGED <<atomicArc, kind>>

AtomicRefuses(op, order, failure) ==
    /\ atomicArc.holders # {}
    /\ ~Validated(op, order, failure)
    /\ native' = [op |-> op, order |-> order, failure |-> failure, refused |-> TRUE,
                  given |-> {}]
    /\ answer' = [op |-> "refused"]
    /\ UNCHANGED <<atomicArc, kind, word>>

AtomicLoad(order) ==
    /\ Reaches("load", order, order)
    /\ answer' = [op |-> "load", old |-> Decode(kind, word)]
    /\ UNCHANGED word

AtomicStore(v, order) ==
    /\ Reaches("store", order, order)
    /\ word' = Encode(kind, v)
    /\ answer' = [op |-> "store", arg |-> v]

AtomicSwap(v, order) ==
    /\ Reaches("swap", order, order)
    /\ word' = Encode(kind, v)
    /\ answer' = [op |-> "swap", arg |-> v, old |-> Decode(kind, word)]

AtomicCompareExchange(current, next, order, failure) ==
    LET exchanged == word = Encode(kind, current)
        packed == Pack(exchanged, word)
    IN  /\ Reaches("compare_exchange", order, failure)
        /\ word' = IF exchanged THEN Encode(kind, next) ELSE word
        /\ answer' = [op |-> "compare_exchange", current |-> current, next |-> next,
                      old |-> Observed(kind, packed),
                      exchanged |-> packed_exchanged(packed)]

(* Mutant of AtomicFetchAdd: a sum outside of the 32 bits stays at the end. *)
FetchAddSaturating(delta, order) ==
    LET sum == word + Encode(kind, delta)
    IN  /\ kind # "bool"
        /\ Reaches("fetch_add", order, order)
        /\ word' = IF sum >= Half THEN Half - 1 ELSE IF sum < -Half THEN -Half ELSE sum
        /\ answer' = [op |-> "fetch_add", arg |-> delta, old |-> Decode(kind, word)]

(* The addition wraps around in 32 bits.                                    *)
AtomicFetchAdd(delta, order) ==
    /\ kind # "bool"
    /\ Reaches("fetch_add", order, order)
    /\ word' = Signed((word + Encode(kind, delta)) % (2 * Half))
    /\ answer' = [op |-> "fetch_add", arg |-> delta, old |-> Decode(kind, word)]

-----------------------------------------------------------------------------
AtomicOperate ==
    \E order \in Ordering :
       \/ AtomicLoad(order)
       \/ \E op \in {"load", "store"} : AtomicRefuses(op, order, order)
       \/ \E failure \in Ordering : AtomicRefuses("compare_exchange", order, failure)
       \/ \E v \in Register!Values(kind) :
             \/ AtomicStore(v, order)
             \/ AtomicSwap(v, order)
             \/ AtomicFetchAdd(v, order)
             \/ \E next \in Register!Values(kind), failure \in Ordering :
                   AtomicCompareExchange(v, next, order, failure)

AtomicNext ==
    \/ \E t \in AtomicThread :
          AtomicNew(t) \/ AtomicShare(t) \/ AtomicFinalize(t)
    \/ kind # "none" /\ AtomicOperate

AtomicSpec == AtomicInit /\ [][AtomicNext]_atomicVars

-----------------------------------------------------------------------------
(* Every operation on the shared int32_t is the operation on a register of  *)
(* the API type with the same arguments, in what it leaves and in what it   *)
(* returns: conversions, packing and wrap-around included, at every value   *)
(* of the type.  A refused operation changes nothing.                       *)
RefinesRegister == Register!Spec

AtomicTypeOK ==
    /\ atomicArc \in ArcOf(AtomicThread)
    /\ kind \in {"none", "bool", "int", "uint"}
    /\ word \in -Half .. Half - 1
    /\ kind = "bool" => word \in {0, 1}

Acquires(order) == order \in {"Acquire", "AcqRel", "SeqCst"}
Releases(order) == order \in {"Release", "AcqRel", "SeqCst"}

(* What C allows: a load does not release, a store does not acquire, unless *)
(* they are sequentially consistent; the load of a failed compare-exchange  *)
(* is a load, and not stronger than the one of a successful one.            *)
Legal(op, order, failure) ==
    /\ op = "load"  => (Releases(order) => order = "SeqCst")
    /\ op = "store" => (Acquires(order) => order = "SeqCst")
    /\ op = "compare_exchange" =>
         /\ Releases(failure) => failure = "SeqCst"
         /\ Acquires(failure) => Acquires(order)
         /\ failure = "SeqCst" => order = "SeqCst"

(* The C atomics are reached exactly by the requests C allows, with the     *)
(* orders that were requested; a refused one reaches none.                  *)
OrdersExact ==
    native.op # "none" =>
      /\ native.refused <=> ~Legal(native.op, native.order, native.failure)
      /\ native.given = IF native.refused THEN {} ELSE {native.order, native.failure}

=============================================================================
