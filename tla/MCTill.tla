------------------------------- MODULE MCTill -------------------------------
(***************************************************************************)
(* Constants and symmetry for the model-checking runs of Till.             *)
(***************************************************************************)
EXTENDS Till, FiniteSetsExt, TLC

Lending == {"place", "credit", "repay"}
Symmetric == Permutations(Managers) \cup Permutations(Requests \ Managers)

\* The sum counted unit by unit is the fold of the community modules.
ASSUME SumAssumption ==
  \A f \in [1 .. 4 -> 0 .. 3] : \A S \in SUBSET (1 .. 4) :
    SumOver(f, S) = MapThenSumSet(LAMBDA x : f[x], S)
=============================================================================
