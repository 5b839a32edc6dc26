---------------------------- MODULE OrderAccount ----------------------------
(***************************************************************************)
(* What the till promises about the money of an order, with no sessions,   *)
(* rows or statuses: what has been collected and what is still owed on     *)
(* credit never come to more than the order's total, and settling credit   *)
(* moves money from one to the other.                                      *)
(***************************************************************************)
EXTENDS Integers

CONSTANTS Orders, Totals, Amounts

VARIABLES
  total,      \* what each order costs
  collected,  \* money received
  credit      \* still owed on credit

acctVars == <<total, collected, credit>>

AcctInit ==
  /\ total = [o \in Orders |-> 0]
  /\ collected = [o \in Orders |-> 0]
  /\ credit = [o \in Orders |-> 0]

OpenOrder(o, t) ==
  /\ total[o] = 0
  /\ total' = [total EXCEPT ![o] = t]
  /\ UNCHANGED <<collected, credit>>

Left(o) == total[o] - collected[o] - credit[o]

Collect(o, a) ==
  /\ a <= Left(o)
  /\ collected' = [collected EXCEPT ![o] = @ + a]
  /\ UNCHANGED <<total, credit>>

Lend(o, a) ==
  /\ a <= Left(o)
  /\ credit' = [credit EXCEPT ![o] = @ + a]
  /\ UNCHANGED <<total, collected>>

Repaid(o, a) ==
  /\ a <= credit[o]
  /\ collected' = [collected EXCEPT ![o] = @ + a]
  /\ credit' = [credit EXCEPT ![o] = @ - a]
  /\ UNCHANGED total

AcctNext ==
  \E o \in Orders :
    \/ \E t \in Totals : OpenOrder(o, t)
    \/ \E a \in Amounts : Collect(o, a) \/ Lend(o, a) \/ Repaid(o, a)

AccountSpec == AcctInit /\ [][AcctNext]_acctVars

AcctTypeOK ==
  /\ total \in [Orders -> Nat]
  /\ collected \in [Orders -> Nat]
  /\ credit \in [Orders -> Nat]

\* No order collects and lends more than it costs.
NeverOverdrawn == \A o \in Orders : Left(o) >= 0
=============================================================================
