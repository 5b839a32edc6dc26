------------------------------- MODULE MCMenu -------------------------------
(***************************************************************************)
(* Constants for the model-checking run of Menu.                           *)
(***************************************************************************)
EXTENDS Menu

=============================================================================
