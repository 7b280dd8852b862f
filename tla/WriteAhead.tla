----------------------------- MODULE WriteAhead -----------------------------
(* What the engine promises of the double ratchet, with the handlers, the    *)
(* Keychain traffic and the crashes abstracted away: there is one durable    *)
(* state, it only moves forward, and a key is published only once it is      *)
(* covered by the durable state, and never twice.                            *)
EXTENDS CryptoCore

VARIABLES
  durable,     \* the state a restarted process continues from, or None
  sent,        \* the key positions whose frames left the device
  preKeys,     \* one-time pre-keys the server was given
  rotations    \* signed pre-key rotations the server was given

vars == <<durable, sent, preKeys, rotations>>

Init == durable = None /\ sent = {} /\ preKeys = 0 /\ rotations = 0

\* The durable state is written for the first time, or moves forward.
Persist ==
  /\ durable' \in State
  /\ durable # None => AtLeast(durable', durable)
  /\ UNCHANGED <<sent, preKeys, rotations>>

\* A frame leaves: with a key the durable state cannot hand out again.
Publish ==
  /\ durable # None
  /\ \E f \in sent' : /\ f \in Frames \ sent
                      /\ Covers(durable, f)
                      /\ sent' = sent \cup {f}
  /\ UNCHANGED <<durable, preKeys, rotations>>

\* The server is given pre-keys whose private halves are durable.
Offer ==
  /\ durable # None
  /\ preKeys' \in Nat /\ preKeys' >= preKeys /\ preKeys' <= durable.otpk
  /\ rotations' \in Nat /\ rotations' >= rotations /\ rotations' <= durable.spk
  /\ UNCHANGED <<durable, sent>>

Next == Persist \/ Publish \/ Offer

Spec == Init /\ [][Next]_vars
=============================================================================
