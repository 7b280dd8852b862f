------------------------------- MODULE MCP2P --------------------------------
(* A small instance of P2PManager: a peer in the local network, which also   *)
(* has a public address.                                                     *)
EXTENDS P2PManager, TLC

CONSTANTS bob, lan, public, call1, call2, call3

\* ICECandidate::lan and ICECandidate::public_ip.
MCPriority == (lan :> 100) @@ (public :> 50)
BothOrNone == {{}, {lan, public}}
=============================================================================
