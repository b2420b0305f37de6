------------------------------ MODULE MCDelivery ------------------------------
(* Small instances of Delivery, for viewers and for a PoP's leg.  Its runs check *)
(* liveness: no symmetry is used.                                                *)
EXTENDS Delivery

================================================================================
