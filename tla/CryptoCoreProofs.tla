-------------------------- MODULE CryptoCoreProofs --------------------------
(* What the operators of CryptoCore preserve.  None of it depends on how     *)
(* many contacts or messages there are.                                      *)
EXTENDS CryptoCore, TLAPS

\* A core without sessions is a state construct-core can export.
LEMMA BlankType == Blank \in State
  BY DEF Blank, State

\* Encrypting for a contact yields a state, one that has moved on.
LEMMA EncryptedMovesOn ==
  ASSUME NEW s \in State, NEW c \in Contacts
  PROVE  /\ Encrypted(s, c) \in State
         /\ AtLeast(Encrypted(s, c), s)
         /\ Covers(Encrypted(s, c), FrameFor(s, c))
         /\ \A d \in Contacts : Encrypted(s, c).epoch[d] = s.epoch[d]
  BY DEF Encrypted, State, AtLeast, Covers, FrameFor

\* A session with an unused number yields a state that has moved on.
LEMMA NewSessionMovesOn ==
  ASSUME NEW s \in State, NEW c \in Contacts, NEW e \in Nat,
         \A d \in Contacts : s.epoch[d] < e
  PROVE  /\ NewSession(s, c, e) \in State
         /\ AtLeast(NewSession(s, c, e), s)
         /\ HasSession(NewSession(s, c, e), c)
         /\ \A d \in Contacts : NewSession(s, c, e).epoch[d] <= e
<1> DEFINE t == NewSession(s, c, e)
<1>1. /\ t.epoch = [s.epoch EXCEPT ![c] = e]
      /\ t.sent = [s.sent EXCEPT ![c] = 0]
      /\ t.recd = s.recd /\ t.otpk = s.otpk /\ t.spk = s.spk
  BY DEF NewSession, State
<1>2. t \in State
  BY DEF NewSession, State
<1>3. t.epoch[c] = e /\ s.epoch[c] < e /\ e > 0
  BY <1>1 DEF State
<1>4. \A d \in Contacts \ {c} : t.epoch[d] = s.epoch[d] /\ t.sent[d] = s.sent[d]
  BY <1>1 DEF State
<1>5. \A d \in Contacts : s.epoch[d] \in Nat /\ s.sent[d] \in Nat
  BY DEF State
<1>6. AtLeast(t, s)
  BY <1>1, <1>3, <1>4, <1>5 DEF AtLeast, State
<1>7. \A d \in Contacts : t.epoch[d] <= e
  BY <1>3, <1>4, <1>5
<1> QED
  BY <1>2, <1>3, <1>6, <1>7 DEF HasSession

\* Using up a message key yields a state that has moved on.
LEMMA ProcessedMovesOn ==
  ASSUME NEW s \in State, NEW m \in Msgs
  PROVE  /\ Processed(s, m) \in State
         /\ AtLeast(Processed(s, m), s)
         /\ m \in Processed(s, m).recd
         /\ Processed(s, m).epoch = s.epoch
  BY DEF Processed, State, AtLeast

\* New pre-keys yield a state that has moved on.
LEMMA KeysMoveOn ==
  ASSUME NEW s \in State, NEW t \in {Generated(s), Rotated(s)}
  PROVE  t \in State /\ AtLeast(t, s) /\ t.epoch = s.epoch
<1>1. CASE t = Generated(s)
  BY <1>1 DEF Generated, State, AtLeast
<1>2. CASE t = Rotated(s)
  BY <1>2 DEF Rotated, State, AtLeast
<1> QED
  BY <1>1, <1>2

\* Progress of the ratchet is a preorder.
LEMMA AtLeastReflexive ==
  ASSUME NEW s \in State
  PROVE  AtLeast(s, s)
  BY DEF AtLeast, State

LEMMA AtLeastTransitive ==
  ASSUME NEW s \in State, NEW t \in State, NEW u \in State,
         AtLeast(u, t), AtLeast(t, s)
  PROVE  AtLeast(u, s)
<1>1. \A c \in Contacts : \/ u.epoch[c] > s.epoch[c]
                          \/ u.epoch[c] = s.epoch[c] /\ u.sent[c] >= s.sent[c]
  BY DEF AtLeast, State
<1>2. s.recd \subseteq u.recd
  BY DEF AtLeast
<1>3. u.otpk >= s.otpk /\ u.spk >= s.spk
  BY DEF AtLeast, State
<1> QED
  BY <1>1, <1>2, <1>3 DEF AtLeast

\* A key position that is used up stays used up.
LEMMA CoversMonotone ==
  ASSUME NEW s \in State, NEW t \in State, NEW f \in Frames,
         AtLeast(t, s), Covers(s, f)
  PROVE  Covers(t, f)
  BY DEF AtLeast, Covers, State, Frames

\* A contact who has a session keeps one.
LEMMA HasSessionMonotone ==
  ASSUME NEW s \in State, NEW t \in State, NEW c \in Contacts,
         AtLeast(t, s), HasSession(s, c)
  PROVE  HasSession(t, c)
  BY DEF AtLeast, HasSession, State

\* The position a state would encrypt with next is a frame it has not used.
LEMMA NextFrameIsFresh ==
  ASSUME NEW s \in State, NEW c \in Contacts
  PROVE  FrameFor(s, c) \in Frames /\ ~Covers(s, FrameFor(s, c))
  BY DEF FrameFor, Frames, Covers, State
=============================================================================
