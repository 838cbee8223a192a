------------------------------ MODULE MCDelivery ------------------------------
(* Delivery for TLC. *)
EXTENDS Delivery
=============================================================================
