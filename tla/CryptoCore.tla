----------------------------- MODULE CryptoCore -----------------------------
(* The part of construct-core's Orchestrator that the engine relies on.      *)
(* The engine holds it behind `core: Mutex<Option<CoreHandle>>`              *)
(* (src/src/engine.rs) and builds it with core_bridge::build_core.  The      *)
(* crate itself is not in the repository: the operators below say what the   *)
(* engine's calls do to the state that export_orchestrator_state_cfe writes  *)
(* and import_orchestrator_state_cfe reads back.                             *)
EXTENDS Naturals, FiniteSets

CONSTANTS
  Contacts,   \* users the device may have a session with
  Msgs,       \* incoming end-to-end encrypted messages
  Sender,     \* Sender[m]: the contact who sent m
  InitMsgs,   \* the messages whose message_number is 0 (session inits)
  None        \* Rust's None

ASSUME SenderAssumption == Sender \in [Msgs -> Contacts]
ASSUME InitMsgsAssumption == InitMsgs \subseteq Msgs

(* What an exported state determines:                                        *)
(*   epoch[c]  which session with c is live (0: none); a new session takes   *)
(*             a number no session had before, as a new ephemeral key does   *)
(*   sent[c]   how many messages that session has encrypted: the position of *)
(*             its sending chain, i.e. the next message key                  *)
(*   recd      the incoming messages whose keys are used up                  *)
(*   otpk      how many one-time pre-keys have been generated                *)
(*   spk       how often the signed pre-key was rotated                      *)
State == [epoch : [Contacts -> Nat], sent : [Contacts -> Nat],
          recd : SUBSET Msgs, otpk : Nat, spk : Nat]

ASSUME NoneAssumption == None \notin State /\ None \notin Msgs

\* Orchestrator::new from the private keys: no sessions, no one-time keys.
Blank == [epoch |-> [c \in Contacts |-> 0], sent |-> [c \in Contacts |-> 0],
          recd |-> {}, otpk |-> 0, spk |-> 0]

HasSession(s, c) == s.epoch[c] > 0

\* encrypt_bytes_for(c, _): one message key of c's sending chain is used up.
Encrypted(s, c) == [s EXCEPT !.sent[c] = @ + 1]

\* Changed form: the position of the last key used, not of the next one.
FrameForLast(s, c) == [contact |-> c, epoch |-> s.epoch[c], n |-> s.sent[c] - 1]

\* The key position the next encrypt_bytes_for(c, _) on s will use.
FrameFor(s, c) == [contact |-> c, epoch |-> s.epoch[c], n |-> s.sent[c]]

Frames == [contact : Contacts, epoch : Nat, n : Nat]

\* init_session_with_bundle / init_receiving_session_with_msg: session e
\* replaces whatever session there was with c.
NewSession(s, c, e) == [s EXCEPT !.epoch = [s.epoch EXCEPT ![c] = e],
                                 !.sent = [s.sent EXCEPT ![c] = 0]]

\* decrypt_bytes_for(Sender[m], m), or the first message of a session.
Processed(s, m) == [s EXCEPT !.recd = @ \cup {m}]

\* generate_otpks: one-time pre-keys are added (one batch of them is one).
Generated(s) == [s EXCEPT !.otpk = @ + 1]

\* rotate_spk
Rotated(s) == [s EXCEPT !.spk = @ + 1]

\* s has moved past the key position of frame f: s cannot encrypt with it.
Covers(s, f) == \/ s.epoch[f.contact] > f.epoch
                \/ s.epoch[f.contact] = f.epoch /\ s.sent[f.contact] > f.n

\* t is s or a later state: nothing s has used up is available in t again.
AtLeast(t, s) ==
  /\ \A c \in Contacts : \/ t.epoch[c] > s.epoch[c]
                         \/ t.epoch[c] = s.epoch[c] /\ t.sent[c] >= s.sent[c]
  /\ s.recd \subseteq t.recd
  /\ t.otpk >= s.otpk
  /\ t.spk >= s.spk
=============================================================================
