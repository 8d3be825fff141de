--------------------------- MODULE MCStripeOutbox ---------------------------
(* Finite instances of StripeOutbox for TLC. *)
EXTENDS StripeOutbox
=============================================================================
