---------------------------- MODULE MCEventLoop -----------------------------
(* Small instances of EventLoop.  Every connection identity is the same, so  *)
(* runs without liveness properties use them up to symmetry.                 *)
EXTENDS EventLoop, TLC

CONSTANTS c1, c2, c3, c4

Symmetry == Permutations(Conns)

CloseCause == {"close"}
AllCauses == {"call", "early", "server", "close"}
CallCause == {"call"}
=============================================================================
