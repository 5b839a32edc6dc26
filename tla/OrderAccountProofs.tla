------------------------- MODULE OrderAccountProofs -------------------------
(***************************************************************************)
(* The promise of OrderAccount, for every set of orders, totals and        *)
(* amounts.                                                                *)
(***************************************************************************)
EXTENDS OrderAccount, TLAPS

\* An order that is not open has no money on it, so opening it is harmless.
AcctInv == AcctTypeOK /\ NeverOverdrawn

\* orders.py:191-196: an order never collects and lends more than its total.
THEOREM Overdraft ==
  ASSUME Totals \subseteq Nat, Amounts \subseteq Nat
  PROVE  AccountSpec => []NeverOverdrawn
<1>1. AcctInit => AcctInv
  BY DEF AcctInit, AcctInv, AcctTypeOK, NeverOverdrawn, Left
<1>2. AcctInv /\ [AcctNext]_acctVars => AcctInv'
  <2>. SUFFICES ASSUME AcctInv, [AcctNext]_acctVars PROVE AcctInv'
    OBVIOUS
  <2>. USE DEF AcctInv, AcctTypeOK, NeverOverdrawn, Left
  <2>1. CASE UNCHANGED acctVars
    BY <2>1 DEF acctVars
  <2>2. ASSUME NEW o \in Orders, NEW t \in Totals, OpenOrder(o, t) PROVE AcctInv'
    BY <2>2 DEF OpenOrder
  <2>3. ASSUME NEW o \in Orders, NEW a \in Amounts, Collect(o, a) PROVE AcctInv'
    BY <2>3 DEF Collect
  <2>4. ASSUME NEW o \in Orders, NEW a \in Amounts, Lend(o, a) PROVE AcctInv'
    BY <2>4 DEF Lend
  <2>5. ASSUME NEW o \in Orders, NEW a \in Amounts, Repaid(o, a) PROVE AcctInv'
    BY <2>5 DEF Repaid
  <2>. QED
    BY <2>1, <2>2, <2>3, <2>4, <2>5 DEF AcctNext
<1>. QED
  BY <1>1, <1>2, PTL DEF AccountSpec, AcctInv
=============================================================================
