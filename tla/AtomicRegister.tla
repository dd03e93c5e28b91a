--------------------------- MODULE AtomicRegister ---------------------------
(***************************************************************************)
(* What the atomics promise: a register over the values of its API type,   *)
(* read and changed by one step per operation.  The answer names the       *)
(* operation and its arguments, so it fixes the value the step leaves.     *)
(***************************************************************************)
EXTENDS Integers

CONSTANT Half       \* 2^31: an Int32 is in -Half .. Half - 1

VARIABLES
    kind,           \* the type: "bool", "int" or "uint"
    value,
    answer          \* the last operation, its arguments and what it returned

Values(k) ==
    CASE k = "bool" -> BOOLEAN
      [] k = "int"  -> -Half .. Half - 1
      [] k = "uint" -> 0 .. 2 * Half - 1

Init == kind = "none" /\ value = 0 /\ answer = [op |-> "none"]

Create ==
    /\ kind = "none"
    /\ \E k \in {"bool", "int", "uint"} : \E v \in Values(k) :
          kind' = k /\ value' = v /\ answer' = [op |-> "new", kind |-> k, arg |-> v]

(* An operation with orderings it does not accept does nothing.             *)
Refuse == answer' = [op |-> "refused"] /\ UNCHANGED value

Load == answer' = [op |-> "load", old |-> value] /\ UNCHANGED value

Store(v) == value' = v /\ answer' = [op |-> "store", arg |-> v]

Swap(v) == value' = v /\ answer' = [op |-> "swap", arg |-> v, old |-> value]

(* The exchange happens exactly if the current value is the expected one,   *)
(* and either way the caller learns the current one.                        *)
CompareExchange(current, next) ==
    /\ value' = IF value = current THEN next ELSE value
    /\ answer' = [op |-> "compare_exchange", current |-> current, next |-> next,
                  old |-> value, exchanged |-> value = current]

(* The sum is the one value of the type that is congruent to the true sum.  *)
FetchAdd(delta) ==
    /\ kind # "bool"
    /\ value' \in {v \in Values(kind) : (v - value - delta) % (2 * Half) = 0}
    /\ answer' = [op |-> "fetch_add", arg |-> delta, old |-> value]

Operate ==
    /\ kind # "none"
    /\ \/ Refuse
       \/ Load
       \/ \E v \in Values(kind) : Store(v) \/ Swap(v) \/ FetchAdd(v)
       \/ \E current, next \in Values(kind) : CompareExchange(current, next)
    /\ UNCHANGED kind

Next == Create \/ Operate

Spec == Init /\ [][Next]_<<kind, value, answer>>

=============================================================================
