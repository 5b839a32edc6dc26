------------------------------ MODULE MCBooks -------------------------------
(***************************************************************************)
(* Constants for the model-checking run of Books.                          *)
(***************************************************************************)
EXTENDS Books, TLC

CONSTANTS r1, r2, cash, mpesa

\* The till's requests are alike, and so are ways to pay.
Symmetry == Permutations(Requests) \cup Permutations(Methods)

\* What is followed further: a report that was crossed only if something is
\* still said of it, and with one request under way beside it (two are
\* followed between reports).
Followed ==
  report.kind # "none" =>
    /\ quiet \/ report.kind = "sales"
    /\ \A p, q \in Requests : tasks[p] # Idle /\ tasks[q] # Idle => p = q

=============================================================================
