-------------------------- MODULE MCCallbackReceiver --------------------------
(* Requests are interchangeable.                                           *)
EXTENDS CallbackReceiver, TLC

CONSTANTS c1, c2, d1, d2, d3

AnyDelivery == Permutations(Deliveries)
=============================================================================
