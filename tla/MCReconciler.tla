---------------------------- MODULE MCReconciler ----------------------------
(* Finite instances of Reconciler for TLC. *)
EXTENDS Reconciler

MCRows == {<<"Error", "Active">>, <<"Active", "Suspend">>}
MCNoEvidence == {}
MCInventory == {"Active", "Error"}
=============================================================================
