-------------------------- MODULE ChargeLifecycle --------------------------
(***************************************************************************)
(* What the billing code promises of a subscription's charges, with none   *)
(* of the machinery (SECURITY.md "Billing integrity"): one prompt at a     *)
(* time is put to the customer, each is recorded once, with the outcome    *)
(* the gateway decided, and a recorded outcome is final.                   *)
(***************************************************************************)
CONSTANT Charges

VARIABLES
  record,   \* what the application has on record for each charge
  verdict   \* what the gateway decided, once it has

lifecycleVars == <<record, verdict>>

LifecycleInit ==
  /\ record = [c \in Charges |-> "none"]
  /\ verdict = [c \in Charges |-> "undecided"]

\* A charge is put to the customer while no other is waiting.
Prompt(c) ==
  /\ record[c] = "none"
  /\ \A d \in Charges : record[d] # "open"
  /\ record' = [record EXCEPT ![c] = "open"]
  /\ UNCHANGED verdict

Decide(c) ==
  /\ record[c] # "none" /\ verdict[c] = "undecided"
  /\ \E v \in {"paid", "declined"} : verdict' = [verdict EXCEPT ![c] = v]
  /\ UNCHANGED record

Record(c) ==
  /\ record[c] = "open" /\ verdict[c] # "undecided"
  /\ record' = [record EXCEPT ![c] =
                  IF verdict[c] = "paid" THEN "success" ELSE "failed"]
  /\ UNCHANGED verdict

\* The request to the gateway failed, or the transaction was rolled back.
Drop(c) ==
  /\ record[c] = "open"
  /\ record' = [record EXCEPT ![c] = "dropped"]
  /\ UNCHANGED verdict

LifecycleNext ==
  \E c \in Charges : Prompt(c) \/ Decide(c) \/ Record(c) \/ Drop(c)

LifecycleSpec == LifecycleInit /\ [][LifecycleNext]_lifecycleVars

=============================================================================
