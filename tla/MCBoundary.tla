------------------------------ MODULE MCBoundary ------------------------------
(***************************************************************************)
(* The boundary with interchangeable goroutines and handle objects.        *)
(***************************************************************************)
EXTENDS Boundary, TLC

Symmetry == Permutations(Goroutines) \cup Permutations(Cells)

=============================================================================
