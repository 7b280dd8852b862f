--------------------------- MODULE MessagingProofs ---------------------------
(* What Messaging guarantees, for any number of contacts and messages, any   *)
(* bounds and any number of crashes.  Types, and the bound on what crashes   *)
(* lose, hold whatever fails; keys are used once if exports succeed, and a   *)
(* message is displayed once if the keys arrive first.  Crash safety and the *)
(* write-ahead refinement need all three (Faults = {}).                      *)
EXTENDS Messaging, CryptoCoreProofs, FiniteSetTheorems

Kinds == {"none", "data", "ping", "accept", "receive", "otpk", "spk", "batch"}

-----------------------------------------------------------------------------
(* Types, whatever fails                                                     *)

\* What a handler hands from step to step has the type its kind calls for.
TypeInv ==
  /\ TypeOK
  /\ pc \in {"idle", "batch"} <=> kind = "none"
  /\ kind \in {"data", "ping"} => out \in Frames
  /\ kind \in {"accept", "receive"} => msg \in Msgs
  /\ kind \notin {"none", "batch"} => core # None

LEMMA InitTyped == Init => TypeInv
<1> SUFFICES ASSUME Init PROVE TypeInv
  OBVIOUS
<1>1. TypeOK
  BY BlankType DEF Init, TypeOK
<1> QED
  BY <1>1 DEF Init, TypeInv

\* The first part of a handler; only the end of a batch may find no core.
LEMMA MutateTyped ==
  ASSUME TypeInv, NEW k \in Kinds \ {"none"}, NEW s \in State \cup {None},
         NEW f \in Frames \cup {None}, NEW m \in Msgs \cup {None},
         Mutate(k, s, f, m),
         k # "batch" => s # None,
         k \in {"data", "ping"} => f \in Frames,
         k \in {"accept", "receive"} => m \in Msgs,
         epochs' \in Nat, initiated' \subseteq Nat, batch' \in BOOLEAN,
         UNCHANGED <<bootVars, keychain, publicVars, appVars, crashes>>
  PROVE  TypeInv'
<1> USE DEF bootVars, publicVars, appVars, displayVars
<1>1. /\ core' = s /\ kind' = k /\ out' = f /\ msg' = m
      /\ blob' \in {s, None} /\ pc' = "save"
  BY DEF Mutate, Exports
<1> QED
  BY <1>1 DEF TypeInv, TypeOK, Kinds

\* A step that only changes the core, and displays messages.
LEMMA AdvanceTyped ==
  ASSUME TypeInv, core' \in State, epochs' \in Nat, initiated' \subseteq Nat,
         shown' \in [Msgs -> Nat], seen' \subseteq Msgs,
         UNCHANGED <<jobVars, bootVars, keychain, publicVars, established,
                     crashes>>
  PROVE  TypeInv'
  BY NoneAssumption DEF TypeInv, TypeOK, jobVars, bootVars, publicVars

LEMMA BootTyped == ASSUME TypeInv, Boot PROVE TypeInv'
<1> USE BlankType, NoneAssumption
    DEF jobVars, bootVars, publicVars, displayVars, appVars, sessionVars, TypeInv,
        TypeOK
<1>1. CASE KeychainKeys
  BY <1>1 DEF KeychainKeys
<1>2. CASE PlatformReady \/ ReadKeychain
  BY <1>2 DEF PlatformReady, ReadKeychain
<1>3. CASE KeychainState
  BY <1>3 DEF KeychainState
<1> QED
  BY <1>1, <1>2, <1>3 DEF Boot

LEMMA HandleTyped == ASSUME TypeInv, Handle PROVE TypeInv'
<1> USE DEF sessionVars
<1>0. /\ epochs \in Nat /\ epochs + 1 \in Nat /\ initiated \subseteq Nat
      /\ batch \in BOOLEAN /\ shown \in [Msgs -> Nat] /\ seen \subseteq Msgs
      /\ core # None => core \in State
  BY DEF TypeInv, TypeOK
<1>1. ASSUME NEW c \in Contacts, SendMessage(c) PROVE TypeInv'
  <2>1. core \in State /\ Encrypted(core, c) \in State
    BY <1>0, <1>1, EncryptedMovesOn DEF SendMessage
  <2>2. FrameFor(core, c) \in Frames /\ Encrypted(core, c) # None
    BY <2>1, NextFrameIsFresh, NoneAssumption
  <2> QED
    BY <1>0, <1>1, <2>1, <2>2, MutateTyped DEF SendMessage, Kinds
<1>2. ASSUME NEW c \in Contacts, InitSession(c) PROVE TypeInv'
  <2> DEFINE fresh == NewSession(core, c, epochs')
  <2>1. /\ core \in State /\ epochs' \in Nat /\ initiated' \subseteq Nat
        /\ batch' \in BOOLEAN
        /\ UNCHANGED <<batch, bootVars, keychain, publicVars, appVars, crashes>>
    BY <1>0, <1>2 DEF InitSession
  <2>2. fresh \in State
    BY <2>1 DEF NewSession, State
  <2> HIDE DEF fresh
  <2>3. FrameFor(fresh, c) \in Frames /\ Encrypted(fresh, c) \in State
    BY <2>2, EncryptedMovesOn, NextFrameIsFresh
  <2>4. CASE Mutate("ping", Encrypted(fresh, c), FrameFor(fresh, c), None)
    BY <2>1, <2>3, <2>4, MutateTyped, NoneAssumption DEF Kinds
  <2>5. CASE core' = fresh /\ UNCHANGED <<pc, kind, out, msg, blob>>
    BY <1>0, <2>1, <2>2, <2>5, AdvanceTyped DEF jobVars, appVars, displayVars
  <2> QED
    BY <1>2, <2>4, <2>5 DEF InitSession, fresh
<1>3. ASSUME NEW m \in Msgs, AcceptSession(m) PROVE TypeInv'
  <2> DEFINE s == Processed(NewSession(core, Sender[m], epochs'), m)
  <2>1. core \in State /\ epochs' \in Nat /\ Sender[m] \in Contacts
    BY <1>0, <1>3, SenderAssumption DEF AcceptSession
  <2>2. s \in State
    BY <2>1 DEF NewSession, Processed, State
  <2>3. /\ Mutate("accept", s, None, m) /\ initiated' = initiated
        /\ batch' = batch
        /\ UNCHANGED <<bootVars, keychain, publicVars, appVars, crashes>>
    BY <1>3 DEF AcceptSession
  <2> HIDE DEF s
  <2> QED
    BY <1>0, <2>1, <2>2, <2>3, MutateTyped, NoneAssumption DEF Kinds
<1>4. ASSUME NEW m \in Msgs, ReceiveMessage(m) PROVE TypeInv'
  <2>1. Processed(core, m) \in State
    BY <1>0, <1>4, ProcessedMovesOn DEF ReceiveMessage, CanDecrypt
  <2> QED
    BY <1>0, <1>4, <2>1, MutateTyped, NoneAssumption DEF ReceiveMessage, Kinds
<1>5. ASSUME NEW m \in Msgs, BatchMessage(m) PROVE TypeInv'
  <2>1. core' \in State /\ shown' \in [Msgs -> Nat] /\ seen' \subseteq Msgs
    BY <1>0, <1>5, ProcessedMovesOn DEF BatchMessage, CanDecrypt, Display
  <2> QED
    BY <1>0, <1>5, <2>1, AdvanceTyped DEF BatchMessage
<1>6. CASE BackgroundPush
  BY <1>6 DEF BackgroundPush, TypeInv, TypeOK, bootVars, publicVars, appVars,
              displayVars
<1>7. CASE BatchEnd
  BY <1>0, <1>7, MutateTyped DEF BatchEnd, Kinds, TypeInv, TypeOK
<1>8. CASE UploadOtpks \/ RotateSpk
  <2>1. PICK k \in {"otpk", "spk"}, s \in {Generated(core), Rotated(core)} :
          \/ Mutate(k, s, None, None)
          \/ core' = s /\ UNCHANGED <<pc, kind, out, msg, blob>>
    BY <1>8 DEF UploadOtpks, RotateSpk
  <2>2. /\ core \in State
        /\ UNCHANGED <<batch, bootVars, keychain, publicVars, appVars,
                       sessionVars, crashes>>
    BY <1>0, <1>8 DEF UploadOtpks, RotateSpk
  <2>3. s \in State /\ s # None
    BY <2>2, KeysMoveOn, NoneAssumption
  <2> QED
    BY <1>0, <2>1, <2>2, <2>3, MutateTyped, AdvanceTyped
       DEF Kinds, jobVars, appVars, displayVars
<1>9. ASSUME NEW m \in Msgs, AckMessage(m) PROVE TypeInv'
  BY <1>9 DEF AckMessage, TypeInv, TypeOK, jobVars, bootVars, appVars, displayVars
<1> QED
  BY <1>1, <1>2, <1>3, <1>4, <1>5, <1>6, <1>7, <1>8, <1>9 DEF Handle

LEMMA FinishTyped == ASSUME TypeInv, Finish PROVE TypeInv'
<1> USE DEF bootVars, publicVars, appVars, displayVars, sessionVars
<1>1. CASE SaveKeychain
  BY <1>1 DEF SaveKeychain, TypeInv, TypeOK
<1>2. CASE TransmitFrame
  BY <1>2 DEF TransmitFrame, TypeInv, TypeOK
<1>3. CASE SendAckFrame
  BY <1>3 DEF SendAckFrame, TypeInv, TypeOK
<1>4. CASE CallKeyService
  <2>1. core.otpk \in Nat /\ core.spk \in Nat
    BY <1>4 DEF CallKeyService, TypeInv, TypeOK, State
  <2> QED
    BY <1>4, <2>1 DEF CallKeyService, TypeInv, TypeOK
<1>5. CASE Notify
  <2>1. NewlyEstablished \subseteq Contacts
    BY <1>5, SenderAssumption DEF NewlyEstablished, TypeInv, Frames
  <2>2. shown' \in [Msgs -> Nat] /\ seen' \subseteq Msgs
    BY <1>5 DEF Notify, Display, TypeInv, TypeOK
  <2> QED
    BY <1>5, <2>1, <2>2 DEF Notify, Return, TypeInv, TypeOK
<1> QED
  BY <1>1, <1>2, <1>3, <1>4, <1>5 DEF Finish

LEMMA TypeInductive == TypeInv /\ [Next]_vars => TypeInv'
<1> SUFFICES ASSUME TypeInv, [Next]_vars PROVE TypeInv'
  OBVIOUS
<1> USE DEF publicVars, appVars, displayVars, sessionVars
<1>1. CASE Crash
  <2>1. /\ core' \in State \cup {None} /\ crashes' \in Nat
        /\ shown' \in [Msgs -> Nat]
    BY <1>1, BlankType DEF Crash, TypeInv, TypeOK
  <2> QED
    BY <1>1, <2>1 DEF Crash, TypeInv, TypeOK
<1>2. CASE UNCHANGED vars
  BY <1>2 DEF vars, jobVars, bootVars, TypeInv, TypeOK
<1> QED
  BY <1>1, <1>2, BootTyped, HandleTyped, FinishTyped DEF Next

\* Every variable keeps its type, whichever codec calls fail and whenever the
\* keys arrive.
THEOREM TypeCorrect == Spec => []TypeOK
<1>1. TypeInv => TypeOK
  BY DEF TypeInv
<1> QED
  BY <1>1, InitTyped, TypeInductive, PTL DEF Spec

-----------------------------------------------------------------------------
(* What was published is durable, if the codec does not fail                *)

\* The initial states satisfy the invariant.
LEMMA InitSafe == Init => SafeInv
<1> SUFFICES ASSUME Init PROVE SafeInv
  OBVIOUS
<1> USE BlankType, NoneAssumption
<1>1. TypeOK
  BY DEF Init, TypeOK
<1>2. BootInv /\ AheadInv /\ JobInv
  BY DEF Init, BootInv, AheadInv, JobInv
<1>3. EpochInv
  BY DEF Init, EpochInv, Blank
<1>4. CrashSafe /\ NoKeyReuse /\ EstablishedIsPersisted
  BY DEF Init, CrashSafe, NoKeyReuse, EstablishedIsPersisted
<1> QED
  BY <1>1, <1>2, <1>3, <1>4 DEF SafeInv

\* While a process is restored its core is a state.
LEMMA RestoredCore ==
  ASSUME SafeInv
  PROVE  /\ restored => core \in State
         /\ pc # "idle" => restored
  BY DEF SafeInv, TypeOK, AheadInv, BootInv

\* A key position that leaves the core behind has not been sent: what was sent
\* is covered by the Keychain, and the core is never behind the Keychain.
LEMMA UncoveredIsFresh ==
  ASSUME SafeInv, restored, NEW f \in Frames, ~Covers(core, f)
  PROVE  f \notin wire
<1> SUFFICES ASSUME f \in wire PROVE FALSE
  OBVIOUS
<1>1. keychain # None /\ Covers(keychain, f)
  BY DEF SafeInv, CrashSafe
<1>2. keychain \in State /\ core \in State /\ AtLeast(core, keychain)
  BY <1>1, RestoredCore DEF SafeInv, TypeOK, AheadInv
<1> QED
  BY <1>1, <1>2, CoversMonotone

\* The first part of every handler preserves the invariant: it moves the core
\* forward, carries the facts its later steps rely on, and publishes nothing.
LEMMA MutateSafe ==
  ASSUME Faults = {}, SafeInv, restored, pc \in {"idle", "batch"},
         NEW k \in Kinds, k # "none", NEW s \in State,
         NEW f \in Frames \cup {None}, NEW m \in Msgs \cup {None},
         Mutate(k, s, f, m),
         AtLeast(s, core),
         k \in {"data", "ping"} =>
             f \in Frames /\ Covers(s, f) /\ ~Covers(core, f),
         k = "ping" => HasSession(s, f.contact),
         k \in {"accept", "receive"} => m \in s.recd,
         k = "accept" => HasSession(s, Sender[m]),
         \A c \in Contacts : s.epoch[c] <= epochs',
         epochs' \in Nat, epochs' >= epochs, initiated' \subseteq Nat,
         batch' \in BOOLEAN,
         UNCHANGED <<bootVars, keychain, publicVars, appVars, crashes>>
  PROVE  SafeInv'
<1> USE DEF bootVars, publicVars, appVars, displayVars
<1>0. /\ core \in State
      /\ core' = s /\ kind' = k /\ out' = f /\ msg' = m /\ blob' = s
      /\ pc' = "save"
  BY RestoredCore DEF Mutate, Exports
<1>1. TypeOK'
  BY <1>0 DEF SafeInv, TypeOK, Kinds
<1>2. BootInv'
  BY <1>0, NoneAssumption DEF SafeInv, BootInv
<1>3. AheadInv'
  <2>1. keychain # None => keychain \in State /\ AtLeast(core, keychain)
    BY DEF SafeInv, TypeOK, AheadInv
  <2>2. keychain # None => AtLeast(s, keychain)
    BY <1>0, <2>1, AtLeastTransitive
  <2> QED
    BY <1>0, <2>2, NoneAssumption DEF AheadInv
<1>4. JobInv'
  BY <1>0 DEF JobInv
<1>5. EpochInv'
  BY <1>0 DEF SafeInv, EpochInv, TypeOK, State
<1>6. CrashSafe' /\ EstablishedIsPersisted'
  BY DEF SafeInv, CrashSafe, EstablishedIsPersisted
<1>7. NoKeyReuse'
  BY <1>0, UncoveredIsFresh DEF NoKeyReuse
<1> QED
  BY <1>1, <1>2, <1>3, <1>4, <1>5, <1>6, <1>7 DEF SafeInv

\* So does a step that only moves the core forward and displays messages.
LEMMA AdvanceSafe ==
  ASSUME SafeInv, restored, pc \in {"idle", "batch"},
         core' \in State, AtLeast(core', core),
         \A c \in Contacts : core'.epoch[c] <= epochs',
         epochs' \in Nat, epochs' >= epochs, initiated' \subseteq Nat,
         shown' \in [Msgs -> Nat], seen' \subseteq Msgs, seen \subseteq seen',
         UNCHANGED <<jobVars, bootVars, keychain, publicVars, established,
                     crashes>>
  PROVE  SafeInv'
<1> USE DEF jobVars, bootVars, publicVars
<1>0. core \in State /\ kind = "none"
  BY RestoredCore DEF SafeInv, JobInv
<1>1. TypeOK'
  BY DEF SafeInv, TypeOK
<1>2. BootInv'
  BY NoneAssumption DEF SafeInv, BootInv
<1>3. AheadInv'
  <2>1. keychain # None => keychain \in State /\ AtLeast(core, keychain)
    BY DEF SafeInv, TypeOK, AheadInv
  <2>2. keychain # None => AtLeast(core', keychain)
    BY <1>0, <2>1, AtLeastTransitive
  <2> QED
    BY <2>2, NoneAssumption DEF AheadInv
<1>4. JobInv'
  BY <1>0 DEF SafeInv, JobInv
<1>5. EpochInv'
  BY DEF SafeInv, EpochInv, TypeOK, State
<1>6. CrashSafe'
  <2>1. acked \subseteq Msgs
    BY DEF SafeInv, TypeOK
  <2> QED
    BY <2>1 DEF SafeInv, CrashSafe
<1>7. NoKeyReuse' /\ EstablishedIsPersisted'
  BY <1>0 DEF SafeInv, NoKeyReuse, EstablishedIsPersisted
<1> QED
  BY <1>1, <1>2, <1>3, <1>4, <1>5, <1>6, <1>7 DEF SafeInv

-----------------------------------------------------------------------------
\* The start-up steps preserve the invariant.
LEMMA BootSafe ==
  ASSUME Faults = {}, SafeInv, Boot
  PROVE  SafeInv'
<1> USE BlankType, NoneAssumption
    DEF jobVars, bootVars, publicVars, displayVars, appVars, sessionVars
<1>1. CASE KeychainKeys
  <2>1. TypeOK' /\ BootInv' /\ AheadInv'
    BY <1>1 DEF KeychainKeys, SafeInv, TypeOK, BootInv, AheadInv
  <2>2. pc = "idle" /\ kind = "none"
    BY <1>1 DEF KeychainKeys, SafeInv, JobInv
  <2>3. JobInv' /\ NoKeyReuse'
    BY <1>1, <2>2 DEF KeychainKeys, SafeInv, JobInv, NoKeyReuse
  <2>4. \A c \in Contacts : Blank.epoch[c] = 0
    BY DEF Blank
  <2>5. EpochInv'
    BY <1>1, <2>4 DEF KeychainKeys, SafeInv, EpochInv, TypeOK
  <2>6. CrashSafe' /\ EstablishedIsPersisted'
    BY <1>1 DEF KeychainKeys, SafeInv, CrashSafe, EstablishedIsPersisted
  <2> QED
    BY <2>1, <2>3, <2>5, <2>6 DEF SafeInv
<1>2. CASE PlatformReady
  <2>1. TypeOK' /\ BootInv' /\ AheadInv' /\ JobInv'
    BY <1>2 DEF PlatformReady, SafeInv, TypeOK, BootInv, AheadInv, JobInv
  <2>2. EpochInv' /\ CrashSafe' /\ NoKeyReuse' /\ EstablishedIsPersisted'
    BY <1>2 DEF PlatformReady, SafeInv, EpochInv, CrashSafe, NoKeyReuse,
                EstablishedIsPersisted
  <2> QED
    BY <2>1, <2>2 DEF SafeInv
<1>3. CASE ReadKeychain
  <2>1. TypeOK' /\ BootInv' /\ AheadInv' /\ JobInv'
    BY <1>3 DEF ReadKeychain, SafeInv, TypeOK, BootInv, AheadInv, JobInv
  <2>2. EpochInv' /\ CrashSafe' /\ NoKeyReuse' /\ EstablishedIsPersisted'
    BY <1>3 DEF ReadKeychain, SafeInv, EpochInv, CrashSafe, NoKeyReuse,
                EstablishedIsPersisted
  <2> QED
    BY <2>1, <2>2 DEF SafeInv
<1>4. CASE KeychainState
  <2>1. /\ reply = keychain /\ core # None /\ ~restored
        /\ pc = "idle" /\ kind = "none"
    BY <1>4 DEF KeychainState, SafeInv, BootInv
  <2>2. \/ keychain # None /\ core' = keychain
        \/ keychain = None /\ core' = core
    BY <1>4, <2>1 DEF KeychainState
  <2>3. TypeOK' /\ BootInv'
    BY <1>4, <2>1, <2>2 DEF KeychainState, SafeInv, TypeOK, BootInv
  <2>4. AheadInv'
    BY <1>4, <2>1, <2>2, AtLeastReflexive
       DEF KeychainState, SafeInv, TypeOK, AheadInv
  <2>5. JobInv' /\ NoKeyReuse'
    BY <1>4, <2>1 DEF KeychainState, SafeInv, JobInv, NoKeyReuse
  <2>6. EpochInv'
    BY <1>4, <2>2 DEF KeychainState, SafeInv, EpochInv
  <2>7. CrashSafe' /\ EstablishedIsPersisted'
    BY <1>4, <2>1 DEF KeychainState, SafeInv, CrashSafe,
                      EstablishedIsPersisted
  <2> QED
    BY <2>3, <2>4, <2>5, <2>6, <2>7 DEF SafeInv
<1> QED
  BY <1>1, <1>2, <1>3, <1>4 DEF Boot

\* The bound on session numbers that EpochInv gives, in the form the lemmas of
\* CryptoCoreProofs want it.
LEMMA NextEpoch ==
  ASSUME SafeInv, restored
  PROVE  /\ epochs \in Nat /\ epochs + 1 \in Nat /\ epochs + 1 >= epochs
         /\ \A c \in Contacts : core.epoch[c] <= epochs
         /\ \A c \in Contacts : core.epoch[c] < epochs + 1
         /\ initiated \subseteq Nat
<1>1. core \in State /\ epochs \in Nat /\ core # None /\ initiated \subseteq Nat
  BY RestoredCore DEF SafeInv, TypeOK, AheadInv
<1>2. \A c \in Contacts : core.epoch[c] \in Nat /\ core.epoch[c] <= epochs
  BY <1>1 DEF SafeInv, EpochInv, State
<1> QED
  BY <1>1, <1>2

\* Handlers that encrypt: sending, and initiating a session.
LEMMA SendMessageSafe ==
  ASSUME Faults = {}, SafeInv, NEW c \in Contacts, SendMessage(c)
  PROVE  SafeInv'
<1> DEFINE s == Encrypted(core, c)
<1>1. restored /\ core \in State /\ pc = "idle"
  BY RestoredCore DEF SendMessage
<1>2. s \in State /\ AtLeast(s, core) /\ Covers(s, FrameFor(core, c))
      /\ \A d \in Contacts : s.epoch[d] = core.epoch[d]
  BY <1>1, EncryptedMovesOn
<1>3. FrameFor(core, c) \in Frames /\ ~Covers(core, FrameFor(core, c))
  BY <1>1, NextFrameIsFresh
<1>4. /\ Mutate("data", s, FrameFor(core, c), None)
      /\ batch' \in BOOLEAN /\ epochs' = epochs /\ initiated' = initiated
      /\ UNCHANGED <<bootVars, keychain, publicVars, appVars, crashes>>
  BY DEF SendMessage, SafeInv, TypeOK, sessionVars
<1>5. /\ \A d \in Contacts : s.epoch[d] <= epochs'
      /\ epochs' \in Nat /\ epochs' >= epochs /\ initiated' \subseteq Nat
  BY <1>1, <1>2, <1>4, NextEpoch
<1> HIDE DEF s
<1> QED
  BY <1>1, <1>2, <1>3, <1>4, <1>5, MutateSafe DEF Kinds

LEMMA InitSessionSafe ==
  ASSUME Faults = {}, SafeInv, NEW c \in Contacts, InitSession(c)
  PROVE  SafeInv'
<1> DEFINE fresh == NewSession(core, c, epochs')
           s == Encrypted(fresh, c)
<1>1. restored /\ core \in State /\ pc = "idle" /\ epochs' = epochs + 1
      /\ initiated' = initiated \cup {epochs'}
  BY RestoredCore DEF InitSession
<1>2. epochs' \in Nat /\ epochs' >= epochs /\ initiated' \subseteq Nat
      /\ \A d \in Contacts : core.epoch[d] < epochs'
  BY <1>1, NextEpoch
<1>3. fresh \in State /\ AtLeast(fresh, core) /\ HasSession(fresh, c)
      /\ \A d \in Contacts : fresh.epoch[d] <= epochs'
  BY <1>1, <1>2, NewSessionMovesOn
<1>4. \/ Mutate("ping", s, FrameFor(fresh, c), None)
      \/ core' = fresh /\ UNCHANGED <<pc, kind, out, msg, blob>>
  BY DEF InitSession
<1>5. /\ UNCHANGED <<bootVars, keychain, publicVars, appVars, crashes>>
      /\ UNCHANGED batch /\ batch' \in BOOLEAN
  BY DEF InitSession, SafeInv, TypeOK
<1> HIDE DEF fresh
<1>6. CASE Mutate("ping", s, FrameFor(fresh, c), None)
  <2>1. s \in State /\ AtLeast(s, fresh) /\ Covers(s, FrameFor(fresh, c))
        /\ \A d \in Contacts : s.epoch[d] = fresh.epoch[d]
    BY <1>3, EncryptedMovesOn
  <2>2. FrameFor(fresh, c) \in Frames /\ ~Covers(fresh, FrameFor(fresh, c))
    BY <1>3, NextFrameIsFresh
  <2>3. ~Covers(core, FrameFor(fresh, c))
    BY <1>1, <1>3, <2>2, CoversMonotone
  <2>4. AtLeast(s, core)
    BY <1>1, <1>3, <2>1, AtLeastTransitive
  <2>5. HasSession(s, FrameFor(fresh, c).contact)
    BY <1>3, <2>1 DEF HasSession, FrameFor
  <2>6. \A d \in Contacts : s.epoch[d] <= epochs'
    BY <1>3, <2>1
  <2> HIDE DEF s
  <2> QED
    BY <1>1, <1>2, <1>5, <1>6, <2>1, <2>2, <2>3, <2>4, <2>5, <2>6, MutateSafe
       DEF Kinds
<1>7. CASE core' = fresh /\ UNCHANGED <<pc, kind, out, msg, blob>>
  <2>1. shown' \in [Msgs -> Nat] /\ seen' \subseteq Msgs /\ seen \subseteq seen'
    BY <1>5 DEF SafeInv, TypeOK, appVars, displayVars
  <2> QED
    BY <1>1, <1>2, <1>3, <1>5, <1>7, <2>1, AdvanceSafe
       DEF jobVars, appVars, displayVars
<1> QED
  BY <1>4, <1>6, <1>7

\* Handlers that use up the key of an incoming message.
LEMMA AcceptSessionSafe ==
  ASSUME Faults = {}, SafeInv, NEW m \in Msgs, AcceptSession(m)
  PROVE  SafeInv'
<1> DEFINE fresh == NewSession(core, Sender[m], epochs')
           s == Processed(fresh, m)
<1>1. /\ restored /\ core \in State /\ pc \in {"idle", "batch"}
      /\ epochs' = epochs + 1 /\ initiated' = initiated
      /\ Sender[m] \in Contacts
  BY RestoredCore, SenderAssumption DEF AcceptSession
<1>2. epochs' \in Nat /\ epochs' >= epochs /\ initiated' \subseteq Nat
      /\ \A d \in Contacts : core.epoch[d] < epochs'
  BY <1>1, NextEpoch
<1>3. fresh \in State /\ AtLeast(fresh, core) /\ HasSession(fresh, Sender[m])
      /\ \A d \in Contacts : fresh.epoch[d] <= epochs'
  BY <1>1, <1>2, NewSessionMovesOn
<1>4. /\ Mutate("accept", s, None, m)
      /\ UNCHANGED <<bootVars, keychain, publicVars, appVars, crashes>>
      /\ batch' \in BOOLEAN
  BY DEF AcceptSession, SafeInv, TypeOK
<1> HIDE DEF fresh
<1>5. s \in State /\ AtLeast(s, fresh) /\ m \in s.recd /\ s.epoch = fresh.epoch
  BY <1>3, ProcessedMovesOn
<1>6. AtLeast(s, core)
  BY <1>1, <1>3, <1>5, AtLeastTransitive
<1>7. HasSession(s, Sender[m]) /\ \A d \in Contacts : s.epoch[d] <= epochs'
  BY <1>3, <1>5 DEF HasSession
<1> HIDE DEF s
<1> QED
  BY <1>1, <1>2, <1>4, <1>5, <1>6, <1>7, MutateSafe DEF Kinds

LEMMA ReceiveMessageSafe ==
  ASSUME Faults = {}, SafeInv, NEW m \in Msgs, ReceiveMessage(m)
  PROVE  SafeInv'
<1> DEFINE s == Processed(core, m)
<1>1. restored /\ core \in State /\ pc = "idle"
  BY RestoredCore DEF ReceiveMessage
<1>2. s \in State /\ AtLeast(s, core) /\ m \in s.recd /\ s.epoch = core.epoch
  BY <1>1, ProcessedMovesOn
<1>3. /\ Mutate("receive", s, None, m)
      /\ UNCHANGED <<bootVars, keychain, publicVars, appVars, crashes>>
      /\ batch' \in BOOLEAN /\ epochs' = epochs /\ initiated' = initiated
  BY DEF ReceiveMessage, SafeInv, TypeOK, sessionVars
<1>4. /\ \A d \in Contacts : s.epoch[d] <= epochs'
      /\ epochs' \in Nat /\ epochs' >= epochs /\ initiated' \subseteq Nat
  BY <1>1, <1>2, <1>3, NextEpoch
<1> HIDE DEF s
<1> QED
  BY <1>1, <1>2, <1>3, <1>4, MutateSafe DEF Kinds

LEMMA BatchMessageSafe ==
  ASSUME SafeInv, NEW m \in Msgs, BatchMessage(m)
  PROVE  SafeInv'
<1>1. restored /\ core \in State /\ pc = "batch" /\ core' = Processed(core, m)
  BY RestoredCore DEF BatchMessage
<1>2. core' \in State /\ AtLeast(core', core) /\ core'.epoch = core.epoch
  BY <1>1, ProcessedMovesOn
<1>3. shown' \in [Msgs -> Nat] /\ seen' \subseteq Msgs /\ seen \subseteq seen'
  BY DEF BatchMessage, Display, SafeInv, TypeOK
<1>4. epochs' = epochs /\ initiated' = initiated
  BY DEF BatchMessage, sessionVars
<1>5. /\ \A d \in Contacts : core'.epoch[d] <= epochs'
      /\ epochs' \in Nat /\ epochs' >= epochs /\ initiated' \subseteq Nat
  BY <1>1, <1>2, <1>4, NextEpoch
<1> QED
  BY <1>1, <1>2, <1>3, <1>5, AdvanceSafe DEF BatchMessage

\* Beginning and ending a batch, and the key uploads.
LEMMA BackgroundPushSafe ==
  ASSUME SafeInv, BackgroundPush
  PROVE  SafeInv'
<1> USE DEF bootVars, publicVars, appVars, displayVars, sessionVars, BackgroundPush
<1>1. TypeOK' /\ BootInv' /\ AheadInv' /\ JobInv'
  BY DEF SafeInv, TypeOK, BootInv, AheadInv, JobInv
<1>2. EpochInv' /\ CrashSafe' /\ NoKeyReuse' /\ EstablishedIsPersisted'
  BY DEF SafeInv, EpochInv, CrashSafe, NoKeyReuse, EstablishedIsPersisted
<1> QED
  BY <1>1, <1>2 DEF SafeInv

LEMMA BatchEndSafe ==
  ASSUME Faults = {}, SafeInv, BatchEnd
  PROVE  SafeInv'
<1>1. restored /\ core \in State /\ pc = "batch"
  BY RestoredCore DEF BatchEnd
<1>2. AtLeast(core, core)
  BY <1>1, AtLeastReflexive
<1>3. /\ Mutate("batch", core, None, None)
      /\ UNCHANGED <<bootVars, keychain, publicVars, appVars, crashes>>
      /\ batch' \in BOOLEAN /\ epochs' = epochs /\ initiated' = initiated
  BY DEF BatchEnd, sessionVars
<1>4. /\ \A d \in Contacts : core.epoch[d] <= epochs'
      /\ epochs' \in Nat /\ epochs' >= epochs /\ initiated' \subseteq Nat
  BY <1>1, <1>3, NextEpoch
<1> QED
  BY <1>1, <1>2, <1>3, <1>4, MutateSafe DEF Kinds

LEMMA UploadSafe ==
  ASSUME Faults = {}, SafeInv, UploadOtpks \/ RotateSpk
  PROVE  SafeInv'
<1>1. restored /\ core \in State /\ pc = "idle"
  BY RestoredCore DEF UploadOtpks, RotateSpk
<1>2. PICK k \in {"otpk", "spk"}, s \in {Generated(core), Rotated(core)} :
        Mutate(k, s, None, None)
  BY DEF UploadOtpks, RotateSpk
<1>3. s \in State /\ AtLeast(s, core) /\ s.epoch = core.epoch
  BY <1>1, KeysMoveOn
<1>4. /\ UNCHANGED <<bootVars, keychain, publicVars, appVars, crashes>>
      /\ batch' \in BOOLEAN /\ epochs' = epochs /\ initiated' = initiated
  BY DEF UploadOtpks, RotateSpk, sessionVars, SafeInv, TypeOK
<1>5. /\ \A d \in Contacts : s.epoch[d] <= epochs'
      /\ epochs' \in Nat /\ epochs' >= epochs /\ initiated' \subseteq Nat
  BY <1>1, <1>3, <1>4, NextEpoch
<1> QED
  BY <1>1, <1>2, <1>3, <1>4, <1>5, MutateSafe DEF Kinds

\* The app's own acknowledgement.
LEMMA AckMessageSafe ==
  ASSUME SafeInv, NEW m \in Msgs, AckMessage(m)
  PROVE  SafeInv'
<1> USE DEF AckMessage, jobVars, bootVars, appVars, displayVars, sessionVars
<1>1. TypeOK' /\ BootInv' /\ AheadInv' /\ JobInv'
  BY DEF SafeInv, TypeOK, BootInv, AheadInv, JobInv
<1>2. EpochInv' /\ CrashSafe' /\ NoKeyReuse' /\ EstablishedIsPersisted'
  BY DEF SafeInv, EpochInv, CrashSafe, NoKeyReuse, EstablishedIsPersisted
<1> QED
  BY <1>1, <1>2 DEF SafeInv

\* Every handler's first part, then, preserves the invariant.
LEMMA HandleSafe ==
  ASSUME Faults = {}, SafeInv, Handle
  PROVE  SafeInv'
  BY SendMessageSafe, InitSessionSafe, AcceptSessionSafe, ReceiveMessageSafe,
     BatchMessageSafe, BackgroundPushSafe, BatchEndSafe, UploadSafe,
     AckMessageSafe DEF Handle

-----------------------------------------------------------------------------
\* Saving makes durable what the handler is about to publish.
LEMMA SaveKeychainSafe ==
  ASSUME Faults = {}, SafeInv, SaveKeychain
  PROVE  SafeInv'
<1> USE DEF bootVars, publicVars, appVars, displayVars, sessionVars
<1>1. /\ restored /\ core \in State /\ blob = core /\ blob # None
      /\ keychain # None => keychain \in State /\ AtLeast(core, keychain)
  BY RestoredCore, NoneAssumption DEF SaveKeychain, SafeInv, JobInv, AheadInv, TypeOK
<1>2. keychain' = core /\ core' = core /\ restored' /\ load = "none"
  BY <1>1 DEF SaveKeychain, SafeInv, BootInv, TypeOK
<1>3. TypeOK' /\ BootInv'
  BY <1>1, <1>2 DEF SaveKeychain, SafeInv, TypeOK, BootInv
<1>4. AheadInv'
  BY <1>1, <1>2, AtLeastReflexive, NoneAssumption DEF AheadInv
<1>5. JobInv'
  BY <1>2 DEF SaveKeychain, SafeInv, JobInv
<1>6. EpochInv'
  BY <1>1, <1>2, NoneAssumption DEF SaveKeychain, SafeInv, EpochInv
<1>7. CrashSafe'
  <2>1. \A f \in wire : Covers(core, f)
    BY <1>1, CoversMonotone DEF SafeInv, CrashSafe, TypeOK
  <2>2. \A m \in acked : m \in seen \/ m \in core.recd
    BY <1>1 DEF SafeInv, CrashSafe, AtLeast
  <2>3. (otpks > 0 => otpks <= core.otpk) /\ (spk > 0 => spk <= core.spk)
    BY <1>1 DEF SafeInv, CrashSafe, AtLeast, TypeOK, State
  <2> QED
    BY <1>1, <1>2, <2>1, <2>2, <2>3, NoneAssumption
       DEF SaveKeychain, CrashSafe
<1>8. NoKeyReuse'
  BY DEF SaveKeychain, SafeInv, NoKeyReuse
<1>9. EstablishedIsPersisted'
  BY <1>1, <1>2, HasSessionMonotone, NoneAssumption
     DEF SaveKeychain, SafeInv, EstablishedIsPersisted, TypeOK
<1> QED
  BY <1>3, <1>4, <1>5, <1>6, <1>7, <1>8, <1>9 DEF SafeInv

\* What is published then is covered by the Keychain.
LEMMA TransmitFrameSafe ==
  ASSUME SafeInv, TransmitFrame
  PROVE  SafeInv'
<1> USE DEF TransmitFrame, bootVars, appVars, displayVars, sessionVars
<1>1. keychain = core /\ core \in State /\ out \in Frames /\ Covers(core, out)
  BY RestoredCore DEF SafeInv, JobInv
<1>2. TypeOK' /\ BootInv' /\ AheadInv' /\ JobInv'
  BY <1>1 DEF SafeInv, TypeOK, BootInv, AheadInv, JobInv
<1>3. EpochInv' /\ NoKeyReuse' /\ EstablishedIsPersisted'
  BY DEF SafeInv, EpochInv, NoKeyReuse, EstablishedIsPersisted
<1>4. CrashSafe'
  BY <1>1, NoneAssumption DEF SafeInv, CrashSafe
<1> QED
  BY <1>2, <1>3, <1>4 DEF SafeInv

LEMMA SendAckFrameSafe ==
  ASSUME SafeInv, SendAckFrame
  PROVE  SafeInv'
<1> USE DEF SendAckFrame, bootVars, appVars, displayVars, sessionVars
<1>1. keychain = core /\ core \in State /\ msg \in core.recd
  BY RestoredCore DEF SafeInv, JobInv
<1>2. msg \in Msgs
  BY <1>1 DEF State
<1>3. TypeOK' /\ BootInv' /\ AheadInv' /\ JobInv'
  BY <1>2 DEF SafeInv, TypeOK, BootInv, AheadInv, JobInv
<1>4. EpochInv' /\ NoKeyReuse' /\ EstablishedIsPersisted'
  BY DEF SafeInv, EpochInv, NoKeyReuse, EstablishedIsPersisted
<1>5. CrashSafe'
  BY <1>1, NoneAssumption DEF SafeInv, CrashSafe
<1> QED
  BY <1>3, <1>4, <1>5 DEF SafeInv

LEMMA CallKeyServiceSafe ==
  ASSUME SafeInv, CallKeyService
  PROVE  SafeInv'
<1> USE DEF CallKeyService, bootVars, appVars, displayVars, sessionVars
<1>1. /\ keychain = core /\ core \in State
      /\ core.otpk \in Nat /\ core.spk \in Nat
  BY RestoredCore DEF SafeInv, JobInv, State
<1>2. otpks' \in {otpks, core.otpk} /\ spk' \in {spk, core.spk}
  OBVIOUS
<1>3. TypeOK' /\ BootInv' /\ AheadInv' /\ JobInv'
  BY <1>1, <1>2 DEF SafeInv, TypeOK, BootInv, AheadInv, JobInv
<1>4. EpochInv' /\ NoKeyReuse' /\ EstablishedIsPersisted'
  BY DEF SafeInv, EpochInv, NoKeyReuse, EstablishedIsPersisted
<1>5. CrashSafe'
  BY <1>1, <1>2, NoneAssumption DEF SafeInv, CrashSafe
<1> QED
  BY <1>3, <1>4, <1>5 DEF SafeInv

\* The app is told only of sessions the Keychain has.
LEMMA NotifySafe ==
  ASSUME SafeInv, Notify
  PROVE  SafeInv'
<1> USE DEF bootVars, publicVars, sessionVars
<1>1. /\ keychain = core /\ core \in State
      /\ restored
      /\ kind \in {"accept", "receive"} => msg \in Msgs
  BY RestoredCore DEF Notify, SafeInv, JobInv, State
<1>2. NewlyEstablished \subseteq {c \in Contacts : HasSession(keychain, c)}
  <2>1. kind = "ping" =>
          out.contact \in Contacts /\ HasSession(keychain, out.contact)
    BY <1>1 DEF SafeInv, JobInv, Frames
  <2>2. kind = "accept" =>
          Sender[msg] \in Contacts /\ HasSession(keychain, Sender[msg])
    BY <1>1, SenderAssumption DEF SafeInv, JobInv
  <2> QED
    BY <2>1, <2>2 DEF NewlyEstablished
<1>3. established' = established \cup NewlyEstablished
  BY DEF Notify
<1>4. shown' \in [Msgs -> Nat] /\ seen' \subseteq Msgs /\ seen \subseteq seen'
  BY <1>1 DEF Notify, Display, displayVars, SafeInv, TypeOK
<1>5. /\ pc' \in {"idle", "batch"} /\ kind' = "none" /\ out' = None
      /\ msg' = None /\ UNCHANGED <<blob, batch>>
      /\ UNCHANGED <<core, bootVars, keychain, publicVars, sessionVars, crashes>>
  BY DEF Notify, Return
<1>6. TypeOK'
  BY <1>2, <1>3, <1>4, <1>5 DEF SafeInv, TypeOK
<1>7. BootInv' /\ AheadInv' /\ JobInv' /\ NoKeyReuse'
  BY <1>1, <1>5 DEF SafeInv, BootInv, AheadInv, JobInv, NoKeyReuse
<1>8. EpochInv'
  BY <1>5 DEF SafeInv, EpochInv
<1>9. CrashSafe'
  BY <1>4, <1>5 DEF SafeInv, CrashSafe
<1>10. EstablishedIsPersisted'
  BY <1>1, <1>2, <1>3, <1>5, NoneAssumption
     DEF SafeInv, EstablishedIsPersisted
<1> QED
  BY <1>6, <1>7, <1>8, <1>9, <1>10 DEF SafeInv

\* A crash loses memory, and nothing was promised on the strength of memory.
LEMMA CrashKeepsSafe ==
  ASSUME SafeInv, Crash
  PROVE  SafeInv'
<1> USE BlankType, NoneAssumption
    DEF Crash, publicVars, appVars, displayVars, sessionVars
<1>1. TypeOK'
  <2>1. core' \in State \cup {None} /\ batch' \in BOOLEAN /\ restored' \in BOOLEAN
    OBVIOUS
  <2>2. crashes' \in Nat /\ shown' \in [Msgs -> Nat]
    BY DEF SafeInv, TypeOK
  <2> QED
    BY <2>1, <2>2 DEF SafeInv, TypeOK
<1>2. BootInv' /\ AheadInv' /\ JobInv' /\ NoKeyReuse'
  BY DEF SafeInv, BootInv, AheadInv, JobInv, NoKeyReuse
<1>3. EpochInv'
  BY DEF SafeInv, EpochInv, Blank, TypeOK
<1>4. CrashSafe' /\ EstablishedIsPersisted'
  BY DEF SafeInv, CrashSafe, EstablishedIsPersisted
<1> QED
  BY <1>1, <1>2, <1>3, <1>4 DEF SafeInv

LEMMA StutterSafe ==
  ASSUME SafeInv, UNCHANGED vars
  PROVE  SafeInv'
<1> USE DEF vars, jobVars, bootVars, publicVars, appVars, displayVars, sessionVars
<1>1. TypeOK' /\ BootInv' /\ AheadInv' /\ JobInv'
  BY DEF SafeInv, TypeOK, BootInv, AheadInv, JobInv
<1>2. EpochInv' /\ CrashSafe' /\ NoKeyReuse' /\ EstablishedIsPersisted'
  BY DEF SafeInv, EpochInv, CrashSafe, NoKeyReuse, EstablishedIsPersisted
<1> QED
  BY <1>1, <1>2 DEF SafeInv

-----------------------------------------------------------------------------
\* The invariant holds in every reachable state.
THEOREM Safety == ASSUME Faults = {} PROVE Spec => []SafeInv
<1>1. Init => SafeInv
  BY InitSafe
<1>2. SafeInv /\ [Next]_vars => SafeInv'
  BY BootSafe, HandleSafe, SaveKeychainSafe, TransmitFrameSafe,
     SendAckFrameSafe, CallKeyServiceSafe, NotifySafe, CrashKeepsSafe,
     StutterSafe DEF Next, Finish
<1> QED
  BY <1>1, <1>2, PTL DEF Spec

\* Whatever the device has published, a process killed at any point restarts
\* from a saved state that is past it.
THEOREM CrashSafety == ASSUME Faults = {} PROVE Spec => []CrashSafe
<1>1. SafeInv => CrashSafe
  BY DEF SafeInv
<1> QED
  BY <1>1, Safety, PTL

\* A session reported to the app is in the Keychain.
THEOREM SessionsPersisted ==
  ASSUME Faults = {} PROVE Spec => []EstablishedIsPersisted
<1>1. SafeInv => EstablishedIsPersisted
  BY DEF SafeInv
<1> QED
  BY <1>1, Safety, PTL

-----------------------------------------------------------------------------
\* Every step of the handlers is a step of the write-ahead discipline or leaves
\* everything it speaks of unchanged.
LEMMA StepWritesAhead ==
  ASSUME Faults = {}, SafeInv, [Next]_vars
  PROVE  [Durability!Next]_<<keychain, wire, otpks, spk>>
<1> USE DEF publicVars
<1>1. CASE SaveKeychain
  <2>1. /\ core \in State /\ keychain' = core
        /\ keychain # None => AtLeast(core, keychain)
    BY <1>1, RestoredCore, NoneAssumption
       DEF SaveKeychain, SafeInv, JobInv, AheadInv, TypeOK
  <2>2. Durability!Persist
    BY <1>1, <2>1 DEF SaveKeychain, Durability!Persist, Durability!State, State,
                      Durability!AtLeast, AtLeast
  <2> QED
    BY <2>2 DEF Durability!Next
<1>2. CASE TransmitFrame
  <2>1. /\ keychain = core /\ core # None /\ out \in Frames \ wire
        /\ Covers(keychain, out)
    BY <1>2, RestoredCore, NoneAssumption
       DEF TransmitFrame, SafeInv, JobInv, NoKeyReuse
  <2>2. CASE wire' = wire \cup {out}
    <3>1. Durability!Publish
      BY <1>2, <2>1, <2>2
         DEF TransmitFrame, Durability!Publish, Durability!Frames, Frames,
             Durability!Covers, Covers
    <3> QED
      BY <3>1 DEF Durability!Next
  <2> QED
    BY <1>2, <2>2 DEF TransmitFrame
<1>3. CASE CallKeyService
  <2>1. /\ keychain = core /\ core # None /\ core \in State
        /\ core.otpk \in Nat /\ core.spk \in Nat
        /\ otpks \in Nat /\ spk \in Nat
    BY <1>3, RestoredCore, NoneAssumption
       DEF CallKeyService, SafeInv, JobInv, State, TypeOK
  <2>2. otpks <= core.otpk /\ spk <= core.spk
    BY <2>1 DEF SafeInv, CrashSafe
  <2>3. /\ otpks' \in {otpks, core.otpk} /\ spk' \in {spk, core.spk}
        /\ UNCHANGED <<keychain, wire>>
    BY <1>3 DEF CallKeyService
  <2>4. Durability!Offer
    BY <2>1, <2>2, <2>3 DEF Durability!Offer
  <2> QED
    BY <2>4 DEF Durability!Next
<1>4. CASE Boot \/ Crash \/ UNCHANGED vars
  BY <1>4 DEF Boot, KeychainKeys, PlatformReady, ReadKeychain, KeychainState,
              Crash, vars
<1>5. CASE Handle
  BY <1>5 DEF Handle, SendMessage, InitSession, AcceptSession, ReceiveMessage,
              BatchMessage, AckMessage, BackgroundPush, BatchEnd, UploadOtpks,
              RotateSpk
<1>6. CASE SendAckFrame \/ Notify
  BY <1>6 DEF SendAckFrame, Notify
<1> QED
  BY <1>1, <1>2, <1>3, <1>4, <1>5, <1>6 DEF Next, Finish

\* The handlers implement the write-ahead specification of the ratchet.
THEOREM ImplementsWriteAhead == ASSUME Faults = {} PROVE Spec => WritesAhead
<1>1. Init => Durability!Init
  BY DEF Init, Durability!Init
<1>2. SafeInv /\ [Next]_vars => [Durability!Next]_Durability!vars
  BY StepWritesAhead DEF Durability!vars
<1> QED
  BY <1>1, <1>2, Safety, PTL DEF Spec, WritesAhead, Durability!Spec

-----------------------------------------------------------------------------
(* No key encrypts twice, also if imports fail and keys arrive late          *)

\* The copies of the state there are: in memory, on its way, in the Keychain.
Copies == {core, reply, keychain, blob} \ {None}

\* s will not encrypt with the key of f: it is past it in the same session, or
\* has another session, and no session number is given out twice.
Spent(s, f) == s.epoch[f.contact] = f.epoch => s.sent[f.contact] > f.n

\* Whatever copy becomes the core has spent the keys of what left the device.
SpentInv ==
  /\ \A f \in wire : f.epoch \in 1..epochs
  /\ \A s \in Copies : /\ \A c \in Contacts : s.epoch[c] <= epochs
                       /\ \A f \in wire : Spent(s, f)

\* The core has spent the key of the frame in hand, and is what is saved.
HandInv ==
  /\ pc # "idle" => restored
  /\ restored => load = "none"
  /\ load # "ready" => reply = None
  /\ blob = IF pc = "save" THEN core ELSE None
  /\ pc = "publish" => keychain = core
  /\ (pc \in {"save", "publish"} /\ kind \in {"data", "ping"}) =>
       /\ out \in Frames \ wire /\ out.epoch \in 1..epochs
       /\ Spent(core, out)

\* Encrypting spends the key it uses and no other; that key is not on the wire.
LEMMA EncryptedSpends ==
  ASSUME NEW s \in State, NEW c \in Contacts, NEW F \in SUBSET Frames,
         HasSession(s, c), \A f \in F : Spent(s, f)
  PROVE  /\ \A f \in F : Spent(Encrypted(s, c), f)
         /\ FrameFor(s, c) \in Frames \ F
         /\ FrameFor(s, c).epoch = s.epoch[c] /\ s.epoch[c] \in Nat \ {0}
         /\ Spent(Encrypted(s, c), FrameFor(s, c))
<1>1. /\ Encrypted(s, c).epoch = s.epoch
      /\ Encrypted(s, c).sent = [s.sent EXCEPT ![c] = @ + 1]
      /\ s.epoch \in [Contacts -> Nat] /\ s.sent \in [Contacts -> Nat]
  BY DEF Encrypted, State
<1>2. \A f \in F : f.contact \in Contacts /\ f.n \in Nat
  BY DEF Frames
<1>3. \A f \in F : Spent(Encrypted(s, c), f)
  BY <1>1, <1>2 DEF Spent
<1>4. FrameFor(s, c) \in Frames /\ Spent(Encrypted(s, c), FrameFor(s, c))
  BY <1>1, NextFrameIsFresh DEF FrameFor, Spent
<1>5. ~Spent(s, FrameFor(s, c))
  BY <1>1 DEF FrameFor, Spent
<1> QED
  BY <1>1, <1>3, <1>4, <1>5 DEF FrameFor, HasSession

\* A session with a new number can spend no key of an older one.
LEMMA NewSessionSpends ==
  ASSUME NEW s \in State, NEW c \in Contacts, NEW e \in Nat,
         NEW F \in SUBSET Frames, \A f \in F : f.epoch < e /\ Spent(s, f)
  PROVE  \A f \in F : Spent(NewSession(s, c, e), f)
<1>1. /\ NewSession(s, c, e).epoch = [s.epoch EXCEPT ![c] = e]
      /\ NewSession(s, c, e).sent = [s.sent EXCEPT ![c] = 0]
      /\ s.epoch \in [Contacts -> Nat] /\ s.sent \in [Contacts -> Nat]
  BY DEF NewSession, State
<1>2. \A f \in F : f.contact \in Contacts /\ f.epoch \in Nat
  BY DEF Frames
<1> QED
  BY <1>1, <1>2 DEF Spent

\* The first part of a handler that moves to s, whose frame f is new.
LEMMA MutateSpends ==
  ASSUME "export" \notin Faults, TypeInv, SpentInv, HandInv,
         restored, pc \in {"idle", "batch"},
         NEW k, NEW s \in State \cup {None}, NEW f, NEW m, Mutate(k, s, f, m),
         s # None => /\ \A c \in Contacts : s.epoch[c] <= epochs'
                     /\ \A g \in wire : Spent(s, g),
         k \in {"data", "ping"} => /\ f \in Frames \ wire
                                   /\ f.epoch \in 1..epochs'
                                   /\ Spent(s, f),
         epochs' \in Nat, epochs' >= epochs,
         UNCHANGED <<bootVars, keychain, wire>>
  PROVE  SpentInv' /\ HandInv'
<1> USE DEF bootVars
<1>1. /\ core' = s /\ kind' = k /\ out' = f /\ blob' = s /\ pc' = "save"
  BY DEF Mutate, Exports
<1>2. HandInv'
  BY <1>1 DEF HandInv
<1>3. Copies' \subseteq Copies \cup ({s} \ {None})
  BY <1>1 DEF Copies
<1>4. epochs \in Nat /\ \A g \in wire : g.epoch \in 1..epochs'
  BY DEF SpentInv, TypeInv, TypeOK
<1>5. \A x \in Copies, c \in Contacts : x.epoch[c] \in Nat /\ x.epoch[c] <= epochs
  BY DEF SpentInv, Copies, TypeInv, TypeOK, State
<1>6. \A x \in Copies, c \in Contacts : x.epoch[c] <= epochs'
  BY <1>4, <1>5
<1> QED
  BY <1>1, <1>2, <1>3, <1>4, <1>6 DEF SpentInv

\* A step between handlers after which the copies are old ones, or blank, or a
\* new core that has spent what they have.
LEMMA CopiesSpend ==
  ASSUME TypeInv, SpentInv, epochs' \in Nat, epochs' >= epochs,
         UNCHANGED wire,
         \A s \in Copies' : \/ s \in Copies \cup {Blank}
                            \/ /\ \A c \in Contacts : s.epoch[c] <= epochs'
                               /\ \A f \in wire : Spent(s, f)
  PROVE  SpentInv'
<1>1. epochs \in Nat /\ \A f \in wire : f.epoch \in 1..epochs'
  BY DEF SpentInv, TypeInv, TypeOK
<1>2. /\ \A c \in Contacts : Blank.epoch[c] <= epochs'
      /\ \A f \in wire : Spent(Blank, f)
  BY <1>1 DEF Blank, Spent, TypeInv, TypeOK, Frames
<1>3. \A s \in Copies, c \in Contacts : s.epoch[c] \in Nat /\ s.epoch[c] <= epochs
  BY DEF SpentInv, Copies, TypeInv, TypeOK, State
<1>4. \A s \in Copies, c \in Contacts : s.epoch[c] <= epochs'
  BY <1>1, <1>3
<1> QED
  BY <1>1, <1>2, <1>4 DEF SpentInv

LEMMA HandleSpends ==
  ASSUME "export" \notin Faults, TypeInv, SpentInv, HandInv, Handle
  PROVE  SpentInv' /\ HandInv'
<1> USE DEF publicVars, appVars, displayVars, sessionVars
<1>0. /\ epochs \in Nat /\ epochs + 1 \in Nat /\ wire \subseteq Frames
      /\ epochs <= epochs
      /\ \A f \in wire : f.epoch < epochs + 1
      /\ core # None => /\ core \in State
                        /\ \A c \in Contacts : core.epoch[c] <= epochs
                        /\ \A c \in Contacts : core.epoch[c] < epochs + 1
                        /\ \A f \in wire : Spent(core, f)
  <2>1. epochs \in Nat /\ wire \subseteq Frames
    BY DEF TypeInv, TypeOK
  <2>2. core # None => /\ core \in State
                       /\ \A c \in Contacts : core.epoch[c] <= epochs
                       /\ \A f \in wire : Spent(core, f)
    BY DEF SpentInv, Copies, TypeInv, TypeOK
  <2>3. core # None => \A c \in Contacts : core.epoch[c] \in Nat
    BY <2>2 DEF State
  <2> QED
    BY <2>1, <2>2, <2>3 DEF SpentInv
<1>1. ASSUME NEW c \in Contacts, SendMessage(c) PROVE SpentInv' /\ HandInv'
  <2>1. core # None /\ core \in State /\ HasSession(core, c)
    BY <1>0, <1>1 DEF SendMessage
  <2>2. /\ Encrypted(core, c) \in State
        /\ \A d \in Contacts : Encrypted(core, c).epoch[d] = core.epoch[d]
    BY <2>1, EncryptedMovesOn
  <2>3. /\ \A f \in wire : Spent(Encrypted(core, c), f)
        /\ FrameFor(core, c) \in Frames \ wire
        /\ FrameFor(core, c).epoch \in 1..epochs
        /\ Spent(Encrypted(core, c), FrameFor(core, c))
    BY <1>0, <2>1, EncryptedSpends
  <2> QED
    BY <1>0, <1>1, <2>1, <2>2, <2>3, MutateSpends DEF SendMessage
<1>2. ASSUME NEW c \in Contacts, InitSession(c) PROVE SpentInv' /\ HandInv'
  <2> DEFINE fresh == NewSession(core, c, epochs + 1)
  <2>1. core # None /\ core \in State /\ epochs' = epochs + 1
    BY <1>0, <1>2 DEF InitSession
  <2>2. /\ fresh \in State /\ HasSession(fresh, c)
        /\ \A d \in Contacts : fresh.epoch[d] <= epochs + 1
    BY <1>0, <2>1, NewSessionMovesOn
  <2>3. \A f \in wire : Spent(fresh, f)
    BY <1>0, <2>1, NewSessionSpends
  <2>4. /\ UNCHANGED <<bootVars, keychain, wire>> /\ restored /\ pc = "idle"
        /\ \/ Mutate("ping", Encrypted(fresh, c), FrameFor(fresh, c), None)
           \/ core' = fresh /\ UNCHANGED <<pc, kind, out, msg, blob>>
    BY <1>2, <2>1 DEF InitSession
  <2> HIDE DEF fresh
  <2>5. /\ Encrypted(fresh, c) \in State
        /\ \A d \in Contacts : Encrypted(fresh, c).epoch[d] = fresh.epoch[d]
    BY <2>2, EncryptedMovesOn
  <2>6. /\ \A f \in wire : Spent(Encrypted(fresh, c), f)
        /\ FrameFor(fresh, c) \in Frames \ wire
        /\ FrameFor(fresh, c).epoch \in 1..(epochs + 1)
        /\ Spent(Encrypted(fresh, c), FrameFor(fresh, c))
    BY <1>0, <2>2, <2>3, EncryptedSpends
  <2>7. CASE Mutate("ping", Encrypted(fresh, c), FrameFor(fresh, c), None)
    BY <1>0, <2>1, <2>2, <2>4, <2>5, <2>6, <2>7, MutateSpends
  <2>8. CASE core' = fresh /\ UNCHANGED <<pc, kind, out, msg, blob>>
    <3>1. Copies' \subseteq Copies \cup {fresh}
      BY <2>4, <2>8 DEF Copies, bootVars
    <3>2. SpentInv'
      BY <1>0, <2>1, <2>2, <2>3, <2>4, <3>1, CopiesSpend
    <3> QED
      BY <2>4, <2>8, <3>2 DEF HandInv, bootVars
  <2> QED
    BY <2>4, <2>7, <2>8
<1>3. ASSUME NEW m \in Msgs, AcceptSession(m) PROVE SpentInv' /\ HandInv'
  <2> DEFINE fresh == NewSession(core, Sender[m], epochs + 1)
             s == Processed(fresh, m)
  <2>1. /\ core # None /\ core \in State /\ epochs' = epochs + 1
        /\ Sender[m] \in Contacts
    BY <1>0, <1>3, SenderAssumption DEF AcceptSession
  <2>2. /\ fresh \in State
        /\ \A d \in Contacts : fresh.epoch[d] <= epochs + 1
    BY <1>0, <2>1, NewSessionMovesOn
  <2>3. \A f \in wire : Spent(fresh, f)
    BY <1>0, <2>1, NewSessionSpends
  <2>4. /\ UNCHANGED <<bootVars, keychain, wire>> /\ restored
        /\ pc \in {"idle", "batch"} /\ Mutate("accept", s, None, m)
    BY <1>3, <2>1 DEF AcceptSession
  <2> HIDE DEF fresh
  <2>5. s \in State /\ s.epoch = fresh.epoch /\ s.sent = fresh.sent
    BY <2>2 DEF Processed, State
  <2>6. \A f \in wire : Spent(s, f)
    BY <2>3, <2>5 DEF Spent
  <2> HIDE DEF s
  <2> QED
    BY <1>0, <2>1, <2>2, <2>4, <2>5, <2>6, MutateSpends
<1>4. ASSUME NEW m \in Msgs, ReceiveMessage(m) PROVE SpentInv' /\ HandInv'
  <2> DEFINE s == Processed(core, m)
  <2>1. core # None /\ core \in State
    BY <1>0, <1>4 DEF ReceiveMessage, CanDecrypt
  <2>2. s \in State /\ s.epoch = core.epoch /\ s.sent = core.sent
    BY <2>1 DEF Processed, State
  <2>3. \A f \in wire : Spent(s, f)
    BY <1>0, <2>1, <2>2 DEF Spent
  <2>4. /\ UNCHANGED <<bootVars, keychain, wire, epochs>> /\ restored
        /\ pc = "idle" /\ Mutate("receive", s, None, m)
    BY <1>4 DEF ReceiveMessage
  <2> HIDE DEF s
  <2> QED
    BY <1>0, <2>1, <2>2, <2>3, <2>4, MutateSpends
<1>5. ASSUME NEW m \in Msgs, BatchMessage(m) PROVE SpentInv' /\ HandInv'
  <2>1. core # None /\ core \in State /\ pc = "batch"
    BY <1>0, <1>5 DEF BatchMessage, CanDecrypt
  <2>2. core'.epoch = core.epoch /\ core'.sent = core.sent
    BY <1>5, <2>1 DEF BatchMessage, Processed, State
  <2>3. \A f \in wire : Spent(core', f)
    BY <1>0, <2>1, <2>2 DEF Spent
  <2>4. Copies' \subseteq Copies \cup {core'}
    BY <1>5 DEF BatchMessage, Copies, jobVars, bootVars
  <2>5. SpentInv'
    BY <1>0, <1>5, <2>1, <2>2, <2>3, <2>4, CopiesSpend DEF BatchMessage
  <2> QED
    BY <1>5, <2>1, <2>5 DEF BatchMessage, HandInv, jobVars, bootVars
<1>6. CASE BackgroundPush
  <2>1. Copies' = Copies
    BY <1>6 DEF BackgroundPush, Copies, bootVars
  <2> QED
    BY <1>0, <1>6, <2>1, CopiesSpend DEF BackgroundPush, HandInv, bootVars
<1>7. CASE BatchEnd
  <2>1. core \in State \cup {None}
    BY DEF TypeInv, TypeOK
  <2> QED
    BY <1>0, <1>7, <2>1, MutateSpends DEF BatchEnd, HandInv
<1>8. CASE UploadOtpks \/ RotateSpk
  <2>1. PICK k \in {"otpk", "spk"}, s \in {Generated(core), Rotated(core)} :
          Mutate(k, s, None, None)
    BY <1>8 DEF UploadOtpks, RotateSpk
  <2>2. /\ core # None /\ core \in State /\ restored /\ pc = "idle"
        /\ UNCHANGED <<bootVars, keychain, wire, epochs>>
    BY <1>0, <1>8 DEF UploadOtpks, RotateSpk
  <2>3. s \in State /\ s.epoch = core.epoch /\ s.sent = core.sent
    BY <2>2, KeysMoveOn DEF Generated, Rotated, State
  <2>4. \A f \in wire : Spent(s, f)
    BY <1>0, <2>2, <2>3 DEF Spent
  <2> QED
    BY <1>0, <2>1, <2>2, <2>3, <2>4, MutateSpends
<1>9. ASSUME NEW m \in Msgs, AckMessage(m) PROVE SpentInv' /\ HandInv'
  <2>1. Copies' = Copies
    BY <1>9 DEF AckMessage, Copies, jobVars, bootVars
  <2> QED
    BY <1>0, <1>9, <2>1, CopiesSpend DEF AckMessage, HandInv, jobVars, bootVars
<1> QED
  BY <1>1, <1>2, <1>3, <1>4, <1>5, <1>6, <1>7, <1>8, <1>9 DEF Handle

LEMMA FinishSpends ==
  ASSUME TypeInv, SpentInv, HandInv, Finish
  PROVE  SpentInv' /\ HandInv'
<1> USE DEF bootVars, publicVars, appVars, displayVars, sessionVars
<1>0. epochs \in Nat /\ epochs >= epochs
  BY DEF TypeInv, TypeOK
<1>1. CASE SaveKeychain
  <2>1. blob = core /\ (kind # "batch" => core # None)
    BY <1>1 DEF SaveKeychain, HandInv, TypeInv
  <2>2. Copies' \subseteq Copies
    BY <1>1, <2>1 DEF SaveKeychain, Copies
  <2>3. SpentInv'
    BY <1>0, <1>1, <2>2, CopiesSpend DEF SaveKeychain
  <2> QED
    BY <1>1, <2>1, <2>3 DEF SaveKeychain, HandInv
<1>2. CASE TransmitFrame
  <2>1. /\ out \in Frames /\ out.epoch \in 1..epochs /\ Spent(core, out)
        /\ keychain = core /\ blob = None /\ reply = None
    BY <1>2 DEF TransmitFrame, HandInv
  <2>2. Copies' \subseteq {core} \ {None} /\ Copies' \subseteq Copies
    BY <1>2, <2>1 DEF TransmitFrame, Copies
  <2>3. wire' \subseteq wire \cup {out} /\ epochs' = epochs
    BY <1>2 DEF TransmitFrame
  <2>4. SpentInv'
    BY <2>1, <2>2, <2>3 DEF SpentInv
  <2> QED
    BY <1>2, <2>4 DEF TransmitFrame, HandInv
<1>3. CASE SendAckFrame \/ CallKeyService
  <2>1. Copies' = Copies
    BY <1>3 DEF SendAckFrame, CallKeyService, Copies
  <2>2. SpentInv'
    BY <1>0, <1>3, <2>1, CopiesSpend DEF SendAckFrame, CallKeyService
  <2> QED
    BY <1>3, <2>2 DEF SendAckFrame, CallKeyService, HandInv
<1>4. CASE Notify
  <2>1. Copies' = Copies
    BY <1>4 DEF Notify, Return, Copies
  <2>2. SpentInv'
    BY <1>0, <1>4, <2>1, CopiesSpend DEF Notify
  <2> QED
    BY <1>4, <2>2 DEF Notify, Return, HandInv
<1> QED
  BY <1>1, <1>2, <1>3, <1>4 DEF Finish

LEMMA SpentInductive ==
  ASSUME "export" \notin Faults
  PROVE  TypeInv /\ SpentInv /\ HandInv /\ [Next]_vars => SpentInv' /\ HandInv'
<1> SUFFICES ASSUME TypeInv, SpentInv, HandInv, [Next]_vars
             PROVE  SpentInv' /\ HandInv'
  OBVIOUS
<1> USE DEF jobVars, bootVars, publicVars, displayVars, appVars, sessionVars
<1>0. epochs \in Nat /\ epochs >= epochs
  BY DEF TypeInv, TypeOK
<1>1. CASE Boot \/ Crash
  <2>1. /\ Copies' \subseteq Copies \cup {Blank}
        /\ UNCHANGED <<wire, epochs>>
    BY <1>1 DEF Boot, KeychainKeys, PlatformReady, ReadKeychain, KeychainState,
                Crash, Copies, HandInv
  <2>2. SpentInv'
    BY <1>0, <2>1, CopiesSpend
  <2>3. HandInv'
    BY <1>1 DEF Boot, KeychainKeys, PlatformReady, ReadKeychain, KeychainState,
                Crash, HandInv
  <2> QED
    BY <2>2, <2>3
<1>2. CASE UNCHANGED vars
  BY <1>2 DEF vars, SpentInv, HandInv, Copies
<1> QED
  BY <1>1, <1>2, HandleSpends, FinishSpends DEF Next

\* No message key encrypts two frames, over any number of crashes, failed
\* imports and late private keys: only a failed export can bring one back.
THEOREM KeysUsedOnce ==
  ASSUME "export" \notin Faults PROVE Spec => []NoKeyReuse
<1>1. Init => SpentInv /\ HandInv
  <2> SUFFICES ASSUME Init PROVE SpentInv /\ HandInv
    OBVIOUS
  <2>1. HandInv
    BY DEF Init, HandInv
  <2>2. Copies \subseteq {Blank} /\ wire = {} /\ epochs = 0
    BY DEF Init, Copies
  <2>3. SpentInv
    BY <2>2 DEF SpentInv, Blank
  <2> QED
    BY <2>1, <2>3
<1>2. HandInv => NoKeyReuse
  BY DEF HandInv, NoKeyReuse
<1> QED
  BY <1>1, <1>2, InitTyped, TypeInductive, SpentInductive, PTL DEF Spec

-----------------------------------------------------------------------------
(* A message is displayed once per process, and a crash loses one at most,   *)
(* also if exports and imports fail                                          *)

\* The types this needs, which hold whatever fails.
DataInv ==
  /\ {core, reply, keychain, blob} \subseteq State \cup {None}
  /\ msg \in Msgs \cup {None}
  /\ shown \in [Msgs -> Nat] /\ epochs \in Nat /\ crashes \in Nat

\* The key of m is used up in memory.
Used(m) == core # None /\ m \in core.recd

\* Messages that were never displayed although some copy of the state, in
\* memory, on its way or in the Keychain, has used up their keys.
Missing == {m \in Msgs \ InitMsgs :
              /\ m # msg /\ m \notin seen
              /\ \E s \in {core, reply, keychain, blob} : s # None /\ m \in s.recd}

\* A handler has a message in hand until it has displayed it; only the first
\* message of a session may have nothing to display.
TakenInv ==
  /\ pc \in {"idle", "batch"} => msg = None
  /\ msg # None => kind = "receive" \/ (kind = "accept" /\ msg \in InitMsgs)

\* What this process has displayed, its core has used up, and the core is not
\* replaced once it is restored; the message in hand is still to be displayed.
ShownInv ==
  /\ load # "none" => ~restored
  /\ ~restored => pc = "idle"
  /\ \A m \in Msgs : ~restored \/ ~Used(m) => shown[m] = 0
  /\ \A m \in Msgs : shown[m] <= 1
  /\ msg # None => Used(msg) /\ shown[msg] = 0

\* What a step keeps; ShownInv depends on the keys, the rest does not.
Kept ==
  /\ DataInv' /\ TakenInv'
  /\ Missing' \subseteq Missing
  /\ ShownInv => ShownInv'

LEMMA InitShown == Init => DataInv /\ TakenInv /\ ShownInv
<1> SUFFICES ASSUME Init PROVE DataInv /\ TakenInv /\ ShownInv
  OBVIOUS
<1>1. DataInv
  BY BlankType DEF Init, DataInv
<1>2. TakenInv /\ ShownInv
  BY <1>1 DEF Init, TakenInv, ShownInv, DataInv
<1> QED
  BY <1>1, <1>2

\* The first part of a handler whose message m, if any, is new.
LEMMA MutateShown ==
  ASSUME DataInv, TakenInv, restored, pc \in {"idle", "batch"}, core # None,
         NEW k, NEW s \in State, NEW f, NEW m \in Msgs \cup {None},
         Mutate(k, s, f, m),
         s.recd = core.recd \cup ({m} \ {None}),
         m # None => /\ m \notin core.recd
                     /\ k = "receive" \/ (k = "accept" /\ m \in InitMsgs),
         epochs' \in Nat,
         UNCHANGED <<bootVars, keychain, displayVars, crashes>>
  PROVE  Kept
<1> USE NoneAssumption DEF Mutate, Exports, bootVars, displayVars
<1>1. DataInv'
  BY DEF DataInv
<1>2. TakenInv'
  BY DEF TakenInv
<1>3. ASSUME ShownInv PROVE ShownInv'
  <2>1. core' = s /\ s # None /\ msg' = m /\ pc' = "save" /\ restored'
    OBVIOUS
  <2>2. \A n \in Msgs : Used(n)' <=> Used(n) \/ n = m
    BY <2>1 DEF Used
  <2>3. m # None => Used(m)' /\ shown[m] = 0
    BY <1>3, <2>1, <2>2 DEF ShownInv, Used
  <2> QED
    BY <1>3, <2>1, <2>2, <2>3 DEF ShownInv
<1>4. Missing' \subseteq Missing
  <2>1. /\ msg = None /\ msg' = m /\ core' = s /\ blob' \in {s, None}
        /\ UNCHANGED <<reply, keychain, seen>>
    BY DEF TakenInv
  <2> QED
    BY <2>1 DEF Missing
<1> QED
  BY <1>1, <1>2, <1>3, <1>4 DEF Kept

\* Copying states and dropping them loses no message.
LEMMA CopiesLoseNothing ==
  ASSUME UNCHANGED <<msg, seen>>,
         \A s \in {core', reply', keychain', blob'} :
            \/ s = None \/ s.recd = {}
            \/ \E t \in {core, reply, keychain, blob} :
                  t # None /\ s.recd = t.recd
  PROVE  Missing' \subseteq Missing
  BY DEF Missing

LEMMA HandleShown ==
  ASSUME DataInv, TakenInv, Handle
  PROVE  Kept
<1> USE NoneAssumption
    DEF bootVars, publicVars, appVars, displayVars, sessionVars
<1>1. ASSUME NEW c \in Contacts, SendMessage(c)
      PROVE  Kept
  <2>1. Encrypted(core, c) \in State /\ Encrypted(core, c).recd = core.recd
    BY <1>1, EncryptedMovesOn DEF SendMessage, DataInv, Encrypted, State
  <2> QED
    BY <1>1, <2>1, MutateShown DEF SendMessage, DataInv
<1>2. ASSUME NEW c \in Contacts, InitSession(c)
      PROVE  Kept
  <2> DEFINE fresh == NewSession(core, c, epochs')
  <2>1. /\ core \in State /\ restored /\ pc = "idle" /\ epochs' \in Nat
        /\ UNCHANGED <<bootVars, keychain, displayVars, crashes, batch>>
    BY <1>2 DEF InitSession, DataInv
  <2>2. fresh \in State /\ fresh.recd = core.recd
    BY <2>1 DEF NewSession, State
  <2>3. Encrypted(fresh, c) \in State /\ Encrypted(fresh, c).recd = core.recd
    BY <2>2 DEF Encrypted, State
  <2>4. CASE Mutate("ping", Encrypted(fresh, c), FrameFor(fresh, c), None)
    BY <2>1, <2>3, <2>4, MutateShown
  <2>5. CASE core' = fresh /\ UNCHANGED <<pc, kind, out, msg, blob>>
    <3>1. Missing' \subseteq Missing
      BY <2>1, <2>2, <2>5, CopiesLoseNothing
    <3> QED
      BY <2>1, <2>2, <2>5, <3>1 DEF Kept, DataInv, TakenInv, ShownInv, Used
  <2> QED
    BY <1>2, <2>4, <2>5 DEF InitSession
<1>3. ASSUME NEW m \in Msgs, AcceptSession(m)
      PROVE  Kept
  <2> DEFINE fresh == NewSession(core, Sender[m], epochs')
  <2>1. /\ core \in State /\ m \notin core.recd /\ epochs' \in Nat
        /\ Sender[m] \in Contacts
    BY <1>3, SenderAssumption DEF AcceptSession, DataInv
  <2>2. /\ Processed(fresh, m) \in State
        /\ Processed(fresh, m).recd = core.recd \cup {m}
    BY <2>1 DEF NewSession, Processed, State
  <2> QED
    BY <1>3, <2>1, <2>2, MutateShown DEF AcceptSession
<1>4. ASSUME NEW m \in Msgs, ReceiveMessage(m)
      PROVE  Kept
  <2>1. core \in State /\ m \notin core.recd
    BY <1>4 DEF ReceiveMessage, CanDecrypt, DataInv
  <2>2. /\ Processed(core, m) \in State
        /\ Processed(core, m).recd = core.recd \cup {m}
    BY <2>1 DEF Processed, State
  <2> QED
    BY <1>4, <2>1, <2>2, MutateShown DEF ReceiveMessage, DataInv
<1>5. ASSUME NEW m \in Msgs, BatchMessage(m)
      PROVE  Kept
  <2>1. core \in State /\ m \notin core.recd /\ pc = "batch"
    BY <1>5 DEF BatchMessage, CanDecrypt, DataInv
  <2>2. core' \in State /\ core'.recd = core.recd \cup {m}
    BY <1>5, <2>1 DEF BatchMessage, Processed, State
  <2>3. /\ shown' \in [Msgs -> Nat] /\ shown'[m] = shown[m] + 1
        /\ \A n \in Msgs \ {m} : shown'[n] = shown[n]
        /\ seen' = seen \cup {m}
    BY <1>5 DEF BatchMessage, Display, DataInv
  <2>4. shown[m] \in Nat
    BY DEF DataInv
  <2>5. UNCHANGED <<jobVars, bootVars, keychain, sessionVars, crashes>>
    BY <1>5 DEF BatchMessage
  <2>6. DataInv' /\ TakenInv'
    BY <2>2, <2>3, <2>5 DEF DataInv, TakenInv, jobVars
  <2>7. Missing' \subseteq Missing
    <3> SUFFICES ASSUME NEW n \in Missing' PROVE n \in Missing
      OBVIOUS
    <3>1. /\ n \in Msgs \ InitMsgs /\ n # msg' /\ n \notin seen'
          /\ \E s \in {core', reply', keychain', blob'} : s # None /\ n \in s.recd
      BY DEF Missing
    <3>2. /\ n # msg /\ n \notin seen /\ n # m
          /\ UNCHANGED <<reply, keychain, blob>>
      BY <2>3, <2>5, <3>1 DEF jobVars, bootVars
    <3>3. n \in core'.recd => n \in core.recd
      BY <2>2, <3>2
    <3>4. \E t \in {core, reply, keychain, blob} : t # None /\ n \in t.recd
      BY <2>1, <3>1, <3>2, <3>3
    <3> QED
      BY <3>1, <3>2, <3>4 DEF Missing
  <2>8. ASSUME ShownInv PROVE ShownInv'
    <3>1. restored /\ shown[m] = 0
      BY <2>1, <2>8 DEF ShownInv, Used, DataInv
    <3>2. \A n \in Msgs : shown'[n] <= 1
      BY <2>3, <2>4, <2>8, <3>1 DEF ShownInv
    <3>3. \A n \in Msgs : ~Used(n)' => shown'[n] = 0
      BY <2>1, <2>2, <2>3, <2>8 DEF ShownInv, Used
    <3>4. msg' = None
      BY <2>1, <2>5 DEF TakenInv, jobVars
    <3> QED
      BY <2>1, <2>5, <2>8, <3>1, <3>2, <3>3, <3>4 DEF ShownInv, jobVars
  <2> QED
    BY <2>6, <2>7, <2>8 DEF Kept
<1>6. CASE BackgroundPush
  <2>1. Missing' \subseteq Missing
    BY <1>6, CopiesLoseNothing DEF BackgroundPush, TakenInv
  <2> QED
    BY <1>6, <2>1 DEF Kept, BackgroundPush, DataInv, TakenInv, ShownInv, Used
<1>7. CASE BatchEnd
  <2>1. pc = "batch" /\ core \in State \cup {None}
    BY <1>7 DEF BatchEnd, DataInv
  <2>2. /\ core' = core /\ msg' = None /\ pc' = "save"
        /\ blob' \in {core, None}
    BY <1>7 DEF BatchEnd, Mutate, Exports
  <2>3. Missing' \subseteq Missing
    BY <1>7, <2>1, <2>2, CopiesLoseNothing DEF BatchEnd, TakenInv
  <2> QED
    BY <1>7, <2>1, <2>2, <2>3 DEF Kept, BatchEnd, DataInv, TakenInv, ShownInv, Used
<1>8. CASE UploadOtpks \/ RotateSpk
  <2>1. PICK s \in {Generated(core), Rotated(core)}, k \in {"otpk", "spk"} :
          \/ Mutate(k, s, None, None)
          \/ core' = s /\ UNCHANGED <<pc, kind, out, msg, blob>>
    BY <1>8 DEF UploadOtpks, RotateSpk
  <2>2. /\ core \in State /\ restored /\ pc = "idle"
        /\ UNCHANGED <<bootVars, keychain, appVars, sessionVars, crashes>>
    BY <1>8 DEF UploadOtpks, RotateSpk, DataInv
  <2>3. s \in State /\ s.recd = core.recd
    BY <2>2 DEF Generated, Rotated, State
  <2>4. CASE Mutate(k, s, None, None)
    BY <2>2, <2>3, <2>4, MutateShown DEF DataInv
  <2>5. CASE core' = s /\ UNCHANGED <<pc, kind, out, msg, blob>>
    <3>1. Missing' \subseteq Missing
      BY <2>2, <2>3, <2>5, CopiesLoseNothing
    <3> QED
      BY <2>2, <2>3, <2>5, <3>1 DEF Kept, DataInv, TakenInv, ShownInv, Used
  <2> QED
    BY <2>1, <2>4, <2>5
<1>9. ASSUME NEW m \in Msgs, AckMessage(m)
      PROVE  Kept
  <2>1. Missing' \subseteq Missing
    BY <1>9, CopiesLoseNothing DEF AckMessage, jobVars
  <2> QED
    BY <1>9, <2>1 DEF Kept, AckMessage, DataInv, TakenInv, ShownInv, Used, jobVars
<1> QED
  BY <1>1, <1>2, <1>3, <1>4, <1>5, <1>6, <1>7, <1>8, <1>9 DEF Handle

LEMMA FinishShown ==
  ASSUME DataInv, TakenInv, Finish
  PROVE  Kept
<1> USE NoneAssumption
    DEF bootVars, publicVars, appVars, displayVars, sessionVars
<1>1. CASE SaveKeychain
  <2>1. Missing' \subseteq Missing
    BY <1>1, CopiesLoseNothing DEF SaveKeychain
  <2> QED
    BY <1>1, <2>1 DEF Kept, SaveKeychain, DataInv, TakenInv, ShownInv, Used
<1>2. CASE TransmitFrame \/ SendAckFrame \/ CallKeyService
  <2>1. Missing' \subseteq Missing
    BY <1>2, CopiesLoseNothing DEF TransmitFrame, SendAckFrame, CallKeyService
  <2> QED
    BY <1>2, <2>1 DEF Kept, TransmitFrame, SendAckFrame, CallKeyService,
                      DataInv, TakenInv, ShownInv, Used
<1>3. CASE Notify
  <2>1. /\ pc = "notify" /\ msg' = None /\ pc' \in {"idle", "batch"}
        /\ blob' = blob
        /\ UNCHANGED <<core, bootVars, keychain, sessionVars, crashes>>
    BY <1>3 DEF Notify, Return
  <2>2. CASE kind # "receive" /\ UNCHANGED displayVars
    <3>1. msg # None => msg \in InitMsgs
      BY <2>2 DEF TakenInv
    <3>2. Missing' \subseteq Missing
      BY <2>1, <2>2, <3>1 DEF Missing
    <3> QED
      BY <2>1, <2>2, <3>2 DEF Kept, DataInv, TakenInv, ShownInv, Used
  <2>3. CASE Display(msg) /\ msg \in Msgs
    <3>1. /\ shown' \in [Msgs -> Nat] /\ shown'[msg] = shown[msg] + 1
          /\ \A n \in Msgs \ {msg} : shown'[n] = shown[n]
          /\ seen' = seen \cup {msg}
      BY <2>3 DEF Display, DataInv
    <3>2. shown[msg] \in Nat
      BY <2>3 DEF DataInv
    <3>3. DataInv' /\ TakenInv'
      BY <2>1, <3>1 DEF DataInv, TakenInv
    <3>4. Missing' \subseteq Missing
      <4> SUFFICES ASSUME NEW n \in Missing' PROVE n \in Missing
        OBVIOUS
      <4>1. /\ n \in Msgs \ InitMsgs /\ n \notin seen'
            /\ \E s \in {core', reply', keychain', blob'} :
                  s # None /\ n \in s.recd
        BY DEF Missing
      <4>2. /\ n \notin seen /\ n # msg
            /\ UNCHANGED <<core, reply, keychain, blob>>
        BY <2>1, <3>1, <4>1 DEF bootVars
      <4> QED
        BY <4>1, <4>2 DEF Missing
    <3>5. ASSUME ShownInv PROVE ShownInv'
      <4>1. restored /\ shown[msg] = 0 /\ Used(msg)
        BY <2>1, <2>3, <3>5 DEF ShownInv
      <4>2. \A n \in Msgs : shown'[n] <= 1
        BY <3>1, <3>2, <3>5, <4>1 DEF ShownInv
      <4>3. \A n \in Msgs : ~Used(n) => shown'[n] = 0
        BY <3>1, <3>5, <4>1 DEF ShownInv
      <4> QED
        BY <2>1, <3>5, <4>1, <4>2, <4>3 DEF ShownInv, Used
    <3> QED
      BY <3>3, <3>4, <3>5 DEF Kept
  <2>4. CASE Display(msg) /\ msg \notin Msgs
    <3>1. shown' = shown /\ seen \subseteq seen' /\ msg = None
      BY <2>4 DEF Display, DataInv
    <3>2. Missing' \subseteq Missing
      BY <2>1, <3>1 DEF Missing
    <3> QED
      BY <2>1, <3>1, <3>2 DEF Kept, DataInv, TakenInv, ShownInv, Used
  <2> QED
    BY <1>3, <2>2, <2>3, <2>4 DEF Notify
<1> QED
  BY <1>1, <1>2, <1>3 DEF Finish

\* Late private keys replace the core: then a message may be displayed again.
LEMMA BootShown ==
  ASSUME DataInv, TakenInv, Boot
  PROVE  /\ DataInv' /\ TakenInv' /\ Missing' \subseteq Missing
         /\ "keys" \notin Faults /\ ShownInv => ShownInv'
<1> USE NoneAssumption
    DEF jobVars, bootVars, publicVars, displayVars, appVars, sessionVars
<1>1. CASE KeychainKeys
  <2>1. Missing' \subseteq Missing
    BY <1>1, CopiesLoseNothing DEF KeychainKeys, Blank
  <2> QED
    BY <1>1, <2>1, BlankType DEF KeychainKeys, DataInv, TakenInv, ShownInv,
                                 Used
<1>2. CASE PlatformReady \/ ReadKeychain
  <2>1. Missing' \subseteq Missing
    BY <1>2, CopiesLoseNothing DEF PlatformReady, ReadKeychain
  <2> QED
    BY <1>2, <2>1 DEF PlatformReady, ReadKeychain, DataInv, TakenInv, ShownInv,
                      Used
<1>3. CASE KeychainState
  <2>1. Missing' \subseteq Missing
    BY <1>3, CopiesLoseNothing DEF KeychainState
  <2>2. DataInv' /\ TakenInv'
    BY <1>3 DEF KeychainState, DataInv, TakenInv
  <2>3. ASSUME ShownInv PROVE ShownInv'
    <3>1. ~restored /\ \A m \in Msgs : shown[m] = 0
      BY <1>3, <2>3 DEF KeychainState, ShownInv
    <3> QED
      BY <1>3, <2>3, <3>1 DEF KeychainState, DataInv, TakenInv, ShownInv, Used
  <2> QED
    BY <2>1, <2>2, <2>3
<1> QED
  BY <1>1, <1>2, <1>3 DEF Boot

LEMMA CrashShown ==
  ASSUME DataInv, TakenInv, Crash
  PROVE  DataInv' /\ TakenInv' /\ (ShownInv => ShownInv')
<1> USE NoneAssumption DEF Crash, publicVars, appVars, displayVars, sessionVars
<1>1. DataInv' /\ TakenInv'
  BY BlankType DEF DataInv, TakenInv
<1>2. ASSUME ShownInv
      PROVE  \A m \in Msgs : shown'[m] = 0
  OBVIOUS
<1> QED
  BY <1>1, <1>2 DEF ShownInv

LEMMA TakenInductive ==
  DataInv /\ TakenInv /\ [Next]_vars => DataInv' /\ TakenInv'
<1> SUFFICES ASSUME DataInv, TakenInv, [Next]_vars PROVE DataInv' /\ TakenInv'
  OBVIOUS
<1>1. CASE UNCHANGED vars
  BY <1>1 DEF vars, jobVars, bootVars, publicVars, appVars, displayVars,
              sessionVars, DataInv, TakenInv
<1> QED
  BY <1>1, HandleShown, FinishShown, BootShown, CrashShown DEF Next, Kept

LEMMA ShownInductive ==
  ASSUME "keys" \notin Faults
  PROVE  DataInv /\ TakenInv /\ ShownInv /\ [Next]_vars => ShownInv'
<1> SUFFICES ASSUME DataInv, TakenInv, ShownInv, [Next]_vars PROVE ShownInv'
  OBVIOUS
<1>1. CASE UNCHANGED vars
  BY <1>1 DEF vars, jobVars, bootVars, publicVars, appVars, displayVars,
              sessionVars, ShownInv, Used
<1> QED
  BY <1>1, HandleShown, FinishShown, BootShown, CrashShown DEF Next, Kept

\* Whatever else fails, and whatever earlier processes have displayed, one
\* process never displays a message twice: stream and background batch share the
\* core, which has used up what was displayed.
THEOREM DisplayedOnce ==
  ASSUME "keys" \notin Faults PROVE Spec => []ShownOncePerProcess
<1>1. ShownInv => ShownOncePerProcess
  BY DEF ShownInv, ShownOncePerProcess
<1> QED
  BY <1>1, InitShown, TakenInductive, ShownInductive, PTL DEF Spec

\* A crash makes the message in hand a missing one, if it was not displayed.
LEMMA CrashLosesOne ==
  ASSUME Crash
  PROVE  Missing' \subseteq Missing \cup {msg}
  BY DEF Crash, Missing, Blank, publicVars, appVars, displayVars, sessionVars

LostInv == IsFiniteSet(Missing) /\ Cardinality(Missing) <= crashes

LEMMA LostInductive ==
  DataInv /\ TakenInv /\ LostInv /\ [Next]_vars => LostInv'
<1> SUFFICES ASSUME DataInv, TakenInv, LostInv, [Next]_vars PROVE LostInv'
  OBVIOUS
<1>1. crashes \in Nat /\ Cardinality(Missing) \in Nat
  BY FS_CardinalityType DEF DataInv, LostInv
<1>2. ASSUME Missing' \subseteq Missing, crashes' = crashes PROVE LostInv'
  <2>1. /\ IsFiniteSet(Missing')
        /\ Cardinality(Missing') <= Cardinality(Missing)
    BY <1>2, FS_Subset DEF LostInv
  <2>2. Cardinality(Missing') \in Nat
    BY <2>1, FS_CardinalityType
  <2> QED
    BY <1>1, <1>2, <2>1, <2>2 DEF LostInv
<1>3. CASE Crash
  <2>1. /\ IsFiniteSet(Missing \cup {msg})
        /\ Cardinality(Missing \cup {msg}) <= crashes + 1
    BY <1>1, FS_AddElement DEF LostInv
  <2>2. /\ IsFiniteSet(Missing')
        /\ Cardinality(Missing') <= Cardinality(Missing \cup {msg})
    BY <1>3, <2>1, CrashLosesOne, FS_Subset
  <2>3. /\ crashes' = crashes + 1 /\ Cardinality(Missing') \in Nat
        /\ Cardinality(Missing \cup {msg}) \in Nat
    BY <1>3, <2>1, <2>2, FS_CardinalityType DEF Crash
  <2> QED
    BY <1>1, <2>1, <2>2, <2>3 DEF LostInv
<1>4. CASE UNCHANGED vars
  <2>1. Missing' = Missing /\ crashes' = crashes
    BY <1>4 DEF vars, jobVars, bootVars, appVars, displayVars, Missing
  <2> QED
    BY <1>2, <2>1
<1>5. CASE Boot \/ Handle \/ Finish
  <2>1. Missing' \subseteq Missing
    BY <1>5, BootShown, HandleShown, FinishShown DEF Kept
  <2>2. CASE Boot
    BY <1>2, <2>1, <2>2 DEF Boot, KeychainKeys, PlatformReady, ReadKeychain,
                            KeychainState
  <2>3. CASE Handle
    BY <1>2, <2>1, <2>3 DEF Handle, SendMessage, InitSession, AcceptSession,
         ReceiveMessage, BatchMessage, AckMessage, BackgroundPush, BatchEnd,
         UploadOtpks, RotateSpk
  <2>4. CASE Finish
    BY <1>2, <2>1, <2>4 DEF Finish, SaveKeychain, TransmitFrame, SendAckFrame,
                            CallKeyService, Notify
  <2> QED
    BY <1>5, <2>2, <2>3, <2>4
<1> QED
  BY <1>3, <1>4, <1>5 DEF Next

\* Saving and acknowledging before displaying costs at most one message per
\* crash, whether or not exports and imports succeed, and whenever the private
\* keys arrive.
THEOREM CrashesLoseOneEach == Spec => []OneLostPerCrash
<1>1. Init => LostInv
  <2> SUFFICES ASSUME Init PROVE LostInv
    OBVIOUS
  <2>1. Missing = {} /\ crashes = 0
    BY DEF Init, Missing, Blank
  <2> QED
    BY <2>1, FS_EmptySet DEF LostInv
<1>2. DataInv /\ LostInv => OneLostPerCrash
  <2> SUFFICES ASSUME DataInv, LostInv PROVE Cardinality(Lost) <= crashes
    BY DEF OneLostPerCrash
  <2>1. Lost \subseteq Missing
    BY DEF Lost, Missing, DataInv, State
  <2>2. Cardinality(Missing) \in Nat /\ Cardinality(Lost) \in Nat
        /\ Cardinality(Lost) <= Cardinality(Missing)
    BY <2>1, FS_Subset, FS_CardinalityType DEF LostInv
  <2> QED
    BY <2>2 DEF LostInv, DataInv
<1> QED
  BY <1>1, <1>2, InitShown, TakenInductive, LostInductive, PTL DEF Spec
=============================================================================
