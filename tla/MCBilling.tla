----------------------------- MODULE MCBilling -----------------------------
(***************************************************************************)
(* Constants and symmetry for the model-checking runs of Billing.          *)
(***************************************************************************)
EXTENDS Billing, TLC

Retry2 == <<0, 1>>
NoAdmin == AllKinds \ {"admin"}
PayAndHook == {"pay", "hook"}
PayHookAdmin == {"pay", "hook", "admin"}
PayPollHook == {"pay", "poll", "hook"}
AnyPoint == Points \ {"idle"}
NotSent == Points \ {"idle", "sent"}
RequestSymmetry == Permutations(Requests)
=============================================================================
