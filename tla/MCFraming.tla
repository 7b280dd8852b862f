------------------------------ MODULE MCFraming ------------------------------
(* A small instance of Framing: empty and short messages, frames as long as  *)
(* the real ones.                                                            *)
EXTENDS Framing

AllButStall == {"packed", "cut", "reset", "refuse", "headers"}
=============================================================================
