------------------------------ MODULE MCShelf ------------------------------
(***************************************************************************)
(* Constants and symmetry for the model-checking run of Shelf.             *)
(***************************************************************************)
EXTENDS Shelf, TLC

Movements == {-1, 1}
\* No handler reads both an expense and an order: a history with either.
Apart == NothingPlaced \/ \A e \in ExpenseIds : expenses[e].status = "none"

Symmetric == Permutations(Requests) \cup Permutations(Dishes)
=============================================================================
