------------------------------- MODULE InOrder -------------------------------
(***************************************************************************)
(* The elements of a finite set of numbers, in ascending order.            *)
(***************************************************************************)
EXTENDS Naturals, FiniteSets, Functions

Ascending(at) == \A i, j \in DOMAIN at : i < j => at[i] < at[j]
InOrder(set) == CHOOSE at \in [1..Cardinality(set) -> set] : Range(at) = set /\ Ascending(at)

=============================================================================
