--------------------------- MODULE MCOperationLog ---------------------------
(* Finite instances of OperationLog for TLC. *)
EXTENDS OperationLog

MCActiveRow == {<<"Active", "Active">>}
MCTwoRows == {<<"Active", "Active">>, <<"Suspend", "Active">>}
MCEvidence == {"Active", "Suspend", "Destroyed"}
MCNoEvidence == {}
=============================================================================
