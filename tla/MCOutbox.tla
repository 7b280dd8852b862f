------------------------------ MODULE MCOutbox ------------------------------
(* A small instance of Outbox.                                               *)
EXTENDS Outbox

CONSTANTS m1, m2, m3

Unhindered == {"spawn", "transport", "encrypt"}
=============================================================================
