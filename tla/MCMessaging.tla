----------------------------- MODULE MCMessaging -----------------------------
(* Small instances of Messaging: two contacts, one session init and one      *)
(* ordinary message from the first of them.                                  *)
EXTENDS Messaging

CONSTANTS bob, carol, hello, text, text2

\* hello opens bob's session, text and text2 are sent in it.
MCSender == [m \in Msgs |-> bob]
NoFaults == {}
CodecFaults == {"export", "import"}
=============================================================================
