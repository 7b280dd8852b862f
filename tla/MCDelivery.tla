------------------------------ MODULE MCDelivery ------------------------------
(* A small instance of Delivery: a session init and a message in that        *)
(* session.                                                                  *)
EXTENDS Delivery

CONSTANT bob

OneSender == [m \in 1..Last |-> bob]
AllFaults == {"garble", "empty", "fetch", "x3dh", "core", "open"}
=============================================================================
