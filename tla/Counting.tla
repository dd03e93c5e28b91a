------------------------------ MODULE Counting ------------------------------
(***************************************************************************)
(* What the proofs about counters use of the theory of finite sets.  Their *)
(* lemmas assume it, so that the provers need not search the library, and  *)
(* the module with a component's theorems proves it from the library.      *)
(***************************************************************************)
EXTENDS Integers, FiniteSets

FiniteSetFacts ==
    /\ IsFiniteSet({}) /\ Cardinality({}) = 0
    /\ \A x : IsFiniteSet({x}) /\ Cardinality({x}) = 1
    /\ \A S : IsFiniteSet(S) => Cardinality(S) \in Nat /\ (S # {} => Cardinality(S) # 0)
    /\ \A S, R : IsFiniteSet(S) /\ R \subseteq S => IsFiniteSet(R)
    /\ \A S, R : IsFiniteSet(S) /\ IsFiniteSet(R) => IsFiniteSet(S \cup R)
    /\ \A S, x : IsFiniteSet(S) /\ x \notin S => Cardinality(S \cup {x}) = Cardinality(S) + 1
    /\ \A S, x : IsFiniteSet(S) /\ x \in S => Cardinality(S \ {x}) = Cardinality(S) - 1

FiniteSetOrder ==
    \A S, R : IsFiniteSet(S) /\ R \subseteq S => Cardinality(R) =< Cardinality(S)

=============================================================================
