------------------------------ MODULE Messaging ------------------------------
(* What the engine's handlers do to the double-ratchet state, the copy of it *)
(* in the platform's Keychain, and the outside world (src/src/engine.rs).    *)
(*                                                                           *)
(* One event loop runs one handler at a time.  A handler that uses key       *)
(* material is a short program: change the orchestrator and export it, fire  *)
(* SaveKeychain, publish something (a frame, an ACK, an upload), notify the  *)
(* app.  The app may be killed between any two of these steps, so each is an *)
(* action; `pc` is where the running handler stands, "idle" between events.  *)
(*                                                                           *)
(* The stream is reduced to whether a frame leaves the device (EventLoop     *)
(* models it), the healing of failed session inits to its outcome: nothing   *)
(* here changes.  Calls that only report to the app are left out.            *)
EXTENDS CryptoCore

CONSTANTS
  Faults,     \* which faults the run allows, see below
  MaxEpoch, MaxSent, MaxOtpk, MaxSpk, MaxCrashes    \* bounds

(* "export"  export_orchestrator_state_cfe may fail                          *)
(* "import"  import_orchestrator_state_cfe may fail                          *)
(* "keys"    the answer private_keys may come at any time; without it a      *)
(*           process has its core before it asks for orchestrator_state      *)
(* In every run the app dispatches its other events once it has answered     *)
(* LoadKeychain ("Called on app launch after Keychain load", events.rs:35).  *)
ASSUME FaultsAssumption == Faults \subseteq {"export", "import", "keys"}
ASSUME BoundsAssumption ==
  /\ MaxEpoch \in Nat /\ MaxSent \in Nat /\ MaxOtpk \in Nat
  /\ MaxSpk \in Nat /\ MaxCrashes \in Nat

VARIABLES
  \* the process
  core,         \* the Orchestrator's state, or None before there are keys
  pc,           \* step of the running handler
  kind,         \* which handler it is, once it has changed the core
  out,          \* key position of the frame it will send, or None
  msg,          \* the incoming message it will acknowledge, or None
  blob,         \* the exported state it will save, or None if empty
  batch,        \* TRUE while BackgroundPush is working through its messages
  load,         \* the LoadKeychain request of PlatformReady
  reply,        \* the state read for it, on its way back to the engine
  restored,     \* history: this process has handled orchestrator_state
  \* what survives it
  keychain,     \* the Keychain item orchestrator_state, or None
  wire,         \* frames handed to the stream
  acked,        \* messages acknowledged to the server
  otpks, spk,   \* pre-keys and rotation the server was given
  established,  \* contacts the app was told have a session
  shown,        \* how often this process told the app to display each message
  seen,         \* history: the messages the app was told to display, ever
  epochs,       \* the last session number used
  initiated,    \* history: the sessions this device initiated
  crashes

jobVars == <<pc, kind, out, msg, blob, batch>>
bootVars == <<load, reply, restored>>
publicVars == <<wire, acked, otpks, spk>>
displayVars == <<shown, seen>>
appVars == <<established, displayVars>>
sessionVars == <<epochs, initiated>>
vars == <<core, jobVars, bootVars, keychain, publicVars, appVars, sessionVars,
          crashes>>

TypeOK ==
  /\ core \in State \cup {None}
  /\ pc \in {"idle", "batch", "save", "publish", "notify"}
  /\ kind \in {"none", "data", "ping", "accept", "receive", "otpk", "spk",
               "batch"}
  /\ out \in Frames \cup {None}
  /\ msg \in Msgs \cup {None}
  /\ blob \in State \cup {None}
  /\ batch \in BOOLEAN
  /\ load \in {"none", "asked", "ready"}
  /\ reply \in State \cup {None}
  /\ restored \in BOOLEAN
  /\ keychain \in State \cup {None}
  /\ wire \subseteq Frames
  /\ acked \subseteq Msgs
  /\ otpks \in Nat /\ spk \in Nat
  /\ established \subseteq Contacts
  /\ shown \in [Msgs -> Nat] /\ seen \subseteq Msgs
  /\ epochs \in Nat
  /\ initiated \subseteq Nat
  /\ crashes \in Nat

-----------------------------------------------------------------------------
(* Helpers                                                                   *)

\* export_orchestrator_state_cfe().unwrap_or_default(): empty when it fails,
\* and "empty" is then how SaveKeychain is skipped.
Exports(s) == {s} \cup (IF "export" \in Faults THEN {None} ELSE {})

\* Changed form: the state is exported before the operation that changes it.
MutateExportFirst(k, s, f, m) ==
  /\ core' = s
  /\ kind' = k /\ out' = f /\ msg' = m
  /\ blob' \in Exports(core)
  /\ pc' = "save"

\* End of the first part of a handler: the core moved to s, the frame and the
\* message it concerns are known, the export is taken.
Mutate(k, s, f, m) ==
  /\ core' = s
  /\ kind' = k /\ out' = f /\ msg' = m
  /\ blob' \in Exports(s)
  /\ pc' = "save"

\* End of a handler: back to the event loop, or to the batch that called it.
Return ==
  /\ pc' = IF batch THEN "batch" ELSE "idle"
  /\ kind' = "none" /\ out' = None /\ msg' = None
  /\ UNCHANGED <<blob, batch>>

Display(m) == shown' = [shown EXCEPT ![m] = @ + 1] /\ seen' = seen \cup {m}

Init ==
  /\ core \in {None, Blank}
  /\ pc = "idle" /\ kind = "none" /\ out = None /\ msg = None
  /\ blob = None /\ batch = FALSE
  /\ load = "none" /\ reply = None /\ restored = FALSE
  /\ keychain = None
  /\ wire = {} /\ acked = {} /\ otpks = 0 /\ spk = 0
  /\ established = {} /\ shown = [m \in Msgs |-> 0] /\ seen = {}
  /\ epochs = 0 /\ initiated = {}
  /\ crashes = 0

-----------------------------------------------------------------------------
(* Start-up: the core from the private keys, the sessions from the Keychain  *)

\* KeychainResult { key: "private_keys", data: Some }: a core from the keys
\* replaces whatever there is; an empty blob leaves none (build_core).
KeychainKeys ==
  /\ pc = "idle"
  /\ "keys" \in Faults \/ (~restored /\ load = "none")
  /\ core' \in {Blank, None}
  /\ UNCHANGED <<jobVars, bootVars, keychain, publicVars, appVars,
                 sessionVars, crashes>>

PlatformReady ==
  /\ pc = "idle" /\ load = "none" /\ ~restored
  /\ "keys" \in Faults \/ core # None
  /\ load' = "asked"
  /\ UNCHANGED <<core, jobVars, reply, restored, keychain, publicVars,
                 appVars, sessionVars, crashes>>

\* The app reads the item; its answer waits in the engine's event queue.
ReadKeychain ==
  /\ load = "asked"
  /\ load' = "ready" /\ reply' = keychain
  /\ UNCHANGED <<core, jobVars, restored, keychain, publicVars, appVars,
                 sessionVars, crashes>>

\* Changed form: the state is not imported into a core that already exists.
KeychainStateIgnored ==
  /\ pc = "idle" /\ load = "ready"
  /\ load' = "none" /\ reply' = None /\ restored' = TRUE
  /\ UNCHANGED <<core, jobVars, keychain, publicVars, appVars, sessionVars,
                 crashes>>

\* KeychainResult { key: "orchestrator_state" }: imported if there is a core
\* to import it into, dropped otherwise.
KeychainState ==
  /\ pc = "idle" /\ load = "ready"
  /\ load' = "none" /\ reply' = None /\ restored' = TRUE
  /\ \/ /\ reply # None /\ core # None
        /\ core' = reply
        /\ established' = established
                            \cup {c \in Contacts : HasSession(reply, c)}
     \/ /\ reply = None \/ core = None \/ "import" \in Faults
        /\ UNCHANGED <<core, established>>
  /\ UNCHANGED <<jobVars, keychain, publicVars, displayVars, sessionVars,
                 crashes>>

-----------------------------------------------------------------------------
(* Handlers, first part: up to the export of the new state                   *)

\* handle_send_message; without a session it fails and changes nothing.
SendMessage(c) ==
  /\ pc = "idle" /\ restored
  /\ core # None /\ HasSession(core, c) /\ core.sent[c] < MaxSent
  /\ Mutate("data", Encrypted(core, c), FrameFor(core, c), None)
  /\ UNCHANGED <<batch, bootVars, keychain, publicVars, appVars, sessionVars,
                 crashes>>

\* handle_init_session_initiator once the bundle is fetched: X3DH, then the
\* empty ping as message 0.  If only the ping fails to encrypt the new
\* session stays in memory, unsaved.
InitSession(c) ==
  /\ pc = "idle" /\ restored
  /\ core # None /\ epochs < MaxEpoch
  /\ epochs' = epochs + 1 /\ initiated' = initiated \cup {epochs'}
  /\ LET fresh == NewSession(core, c, epochs')
     IN  \/ Mutate("ping", Encrypted(fresh, c), FrameFor(fresh, c), None)
         \/ core' = fresh /\ UNCHANGED <<pc, kind, out, msg, blob>>
  /\ UNCHANGED <<batch, bootVars, keychain, publicVars, appVars, crashes>>

\* handle_session_init_responder for message 0 of a sender, from the stream
\* or from a batch.  A key already used up is refused by the core.
AcceptSession(m) ==
  /\ pc \in {"idle", "batch"} /\ restored
  /\ core # None /\ m \in InitMsgs \ core.recd /\ epochs < MaxEpoch
  /\ epochs' = epochs + 1
  /\ Mutate("accept", Processed(NewSession(core, Sender[m], epochs'), m),
            None, m)
  /\ UNCHANGED <<batch, bootVars, keychain, publicVars, appVars, initiated,
                 crashes>>

\* decrypt_bytes_for(Sender[m], m) can succeed.
CanDecrypt(m) ==
  /\ core # None /\ m \notin InitMsgs \cup core.recd
  /\ HasSession(core, Sender[m])

\* handle_decrypt_message for a message of the stream.
ReceiveMessage(m) ==
  /\ pc = "idle" /\ restored
  /\ CanDecrypt(m)
  /\ Mutate("receive", Processed(core, m), None, m)
  /\ UNCHANGED <<batch, bootVars, keychain, publicVars, appVars, sessionVars,
                 crashes>>

\* handle_background_push starts; its messages are read one by one.
BackgroundPush ==
  /\ pc = "idle" /\ restored
  /\ pc' = "batch" /\ batch' = TRUE
  /\ UNCHANGED <<core, kind, out, msg, blob, bootVars, keychain, publicVars,
                 appVars, sessionVars, crashes>>

\* Changed form: the batch decrypts with a copy of the core.
BatchMessageOnCopy(m) ==
  /\ pc = "batch"
  /\ CanDecrypt(m)
  /\ Display(m)
  /\ UNCHANGED <<core, jobVars, bootVars, keychain, publicVars, established,
                 sessionVars, crashes>>

\* A message of the batch is decrypted and displayed; nothing is saved yet.
BatchMessage(m) ==
  /\ pc = "batch"
  /\ CanDecrypt(m)
  /\ core' = Processed(core, m)
  /\ Display(m)
  /\ UNCHANGED <<jobVars, bootVars, keychain, publicVars, established,
                 sessionVars, crashes>>

\* "Export state once after the entire batch."
BatchEnd ==
  /\ pc = "batch"
  /\ batch' = FALSE
  /\ Mutate("batch", core, None, None)
  /\ UNCHANGED <<bootVars, keychain, publicVars, appVars, sessionVars,
                 crashes>>

\* handle_upload_otpks, also called by the pre-key count check after a login:
\* a failed export ends it with the new keys in memory only.
UploadOtpks ==
  /\ pc = "idle" /\ restored
  /\ core # None /\ core.otpk < MaxOtpk
  /\ \/ Mutate("otpk", Generated(core), None, None) /\ blob' = core'
     \/ /\ "export" \in Faults
        /\ core' = Generated(core) /\ UNCHANGED <<pc, kind, out, msg, blob>>
  /\ UNCHANGED <<batch, bootVars, keychain, publicVars, appVars, sessionVars,
                 crashes>>

\* handle_rotate_spk
RotateSpk ==
  /\ pc = "idle" /\ restored
  /\ core # None /\ core.spk < MaxSpk
  /\ \/ Mutate("spk", Rotated(core), None, None) /\ blob' = core'
     \/ /\ "export" \in Faults
        /\ core' = Rotated(core) /\ UNCHANGED <<pc, kind, out, msg, blob>>
  /\ UNCHANGED <<batch, bootVars, keychain, publicVars, appVars, sessionVars,
                 crashes>>

-----------------------------------------------------------------------------
(* Handlers, second part: save, publish, notify                              *)

\* Changed form: a state whose session is not yet confirmed is not saved.
SaveKeychainNoPing ==
  /\ pc = "save"
  /\ keychain' = IF blob = None \/ kind = "ping" THEN keychain ELSE blob
  /\ blob' = None
  /\ pc' = IF kind = "batch" THEN "notify" ELSE "publish"
  /\ UNCHANGED <<core, kind, out, msg, batch, bootVars, publicVars, appVars,
                 sessionVars, crashes>>

\* "Persist state BEFORE sending (crash-safety)", unless the export is empty.
\* The callback returns when the platform has written the item.
SaveKeychain ==
  /\ pc = "save"
  /\ keychain' = IF blob = None THEN keychain ELSE blob
  /\ blob' = None
  /\ pc' = IF kind = "batch" THEN "notify" ELSE "publish"
  /\ UNCHANGED <<core, kind, out, msg, batch, bootVars, publicVars, appVars,
                 sessionVars, crashes>>

\* send_frame: enqueued, or dropped because there is no stream or it closed.
TransmitFrame ==
  /\ pc = "publish" /\ kind \in {"data", "ping"}
  /\ wire' \in {wire, wire \cup {out}}
  /\ pc' = "notify"
  /\ UNCHANGED <<core, kind, out, msg, blob, batch, bootVars, keychain, acked,
                 otpks, spk, appVars, sessionVars, crashes>>

\* send_ack_frame, likewise.
SendAckFrame ==
  /\ pc = "publish" /\ kind \in {"accept", "receive"}
  /\ acked' \in {acked, acked \cup {msg}}
  /\ pc' = "notify"
  /\ UNCHANGED <<core, kind, out, msg, blob, batch, bootVars, keychain, wire,
                 otpks, spk, appVars, sessionVars, crashes>>

\* UploadPreKeys or RotateSignedPreKey: the call may fail with or without
\* having reached the server.
CallKeyService ==
  /\ pc = "publish" /\ kind \in {"otpk", "spk"}
  /\ otpks' \in IF kind = "otpk" THEN {otpks, core.otpk} ELSE {otpks}
  /\ spk' \in IF kind = "spk" THEN {spk, core.spk} ELSE {spk}
  /\ pc' = "notify"
  /\ UNCHANGED <<core, kind, out, msg, blob, batch, bootVars, keychain, wire,
                 acked, appVars, sessionVars, crashes>>

\* The contacts a handler reports with SessionEstablished.
NewlyEstablished ==
  CASE kind = "ping" -> {out.contact}
    [] kind = "accept" -> {Sender[msg]}
    [] OTHER -> {}

\* Changed form: a decrypted message is only acknowledged, not displayed.
NotifyWithoutDisplay ==
  /\ pc = "notify"
  /\ established' = established \cup NewlyEstablished
  /\ Return
  /\ UNCHANGED <<core, bootVars, keychain, publicVars, displayVars, sessionVars,
                 crashes>>

\* The callbacks at the end.  The first message of a session is displayed
\* only if it has content.
Notify ==
  /\ pc = "notify"
  /\ established' = established \cup NewlyEstablished
  /\ \/ kind \in {"accept", "receive"} /\ Display(msg)
     \/ kind # "receive" /\ UNCHANGED displayVars
  /\ Return
  /\ UNCHANGED <<core, bootVars, keychain, publicVars, sessionVars, crashes>>

\* handle_ack_message: the app acknowledges a message it was given, by this
\* process or an earlier one.
AckMessage(m) ==
  /\ pc = "idle" /\ m \in seen
  /\ acked' \in {acked, acked \cup {m}}
  /\ UNCHANGED <<core, jobVars, bootVars, keychain, wire, otpks, spk, appVars,
                 sessionVars, crashes>>

\* The app is killed and started again: ConstructEngine::new with the keys, or
\* without them if they come as a KeychainResult.
Crash ==
  /\ crashes < MaxCrashes
  /\ crashes' = crashes + 1
  /\ core' \in {None, Blank}
  /\ pc' = "idle" /\ kind' = "none" /\ out' = None /\ msg' = None
  /\ blob' = None /\ batch' = FALSE
  /\ load' = "none" /\ reply' = None /\ restored' = FALSE
  /\ shown' = [m \in Msgs |-> 0]
  /\ UNCHANGED <<keychain, publicVars, established, seen, sessionVars>>

Boot == KeychainKeys \/ PlatformReady \/ ReadKeychain \/ KeychainState

Handle ==
  \/ \E c \in Contacts : SendMessage(c) \/ InitSession(c)
  \/ \E m \in Msgs : AcceptSession(m) \/ ReceiveMessage(m) \/ BatchMessage(m)
                       \/ AckMessage(m)
  \/ BackgroundPush \/ BatchEnd \/ UploadOtpks \/ RotateSpk

Finish == SaveKeychain \/ TransmitFrame \/ SendAckFrame \/ CallKeyService
          \/ Notify

Next == Boot \/ Handle \/ Finish \/ Crash

Spec == Init /\ [][Next]_vars

-----------------------------------------------------------------------------
(* Properties                                                                *)

\* What the device has shown the world it can no longer be made to forget: a
\* process killed at any step restarts from a state past every frame it
\* handed out, knows every pre-key the server has, and has used up the key of
\* every message it acknowledged unless the user has been shown it.
CrashSafe ==
  /\ \A f \in wire : keychain # None /\ Covers(keychain, f)
  /\ \A m \in acked : \/ m \in seen
                      \/ keychain # None /\ m \in keychain.recd
  /\ otpks > 0 => keychain # None /\ otpks <= keychain.otpk
  /\ spk > 0 => keychain # None /\ spk <= keychain.spk

\* No two frames are ever encrypted with the key at one chain position, over
\* crashes, restores and repeated session inits.
NoKeyReuse ==
  (pc \in {"save", "publish"} /\ kind \in {"data", "ping"}) => out \notin wire

\* A session the app was told is established survives any crash.
EstablishedIsPersisted ==
  \A c \in established : keychain # None /\ HasSession(keychain, c)

\* One process displays a message at most once, whether it comes over the
\* stream, in a background batch, or over both, and whatever earlier processes
\* have displayed.
ShownOncePerProcess == \A m \in Msgs : shown[m] <= 1

\* Messages whose key the saved state has used up but which were never
\* displayed, apart from the one being handled.
Lost == IF keychain = None THEN {}
        ELSE {m \in keychain.recd \ InitMsgs : m \notin seen /\ m # msg}

\* A message is saved and acknowledged before it is displayed, so a crash in
\* between loses it: one message per crash, never more.
OneLostPerCrash == Cardinality(Lost) <= crashes

\* All of it at once: seen through the Keychain and what left the device, the
\* handlers, their crashes and the start-up are a write-ahead discipline.
Durability == INSTANCE WriteAhead WITH durable <- keychain, sent <- wire,
                                       preKeys <- otpks, rotations <- spk
WritesAhead == Durability!Spec

-----------------------------------------------------------------------------
(* Why CrashSafe holds: the parts of its inductive invariant                 *)

\* Before the restore nothing but an empty core exists and no handler runs.
BootInv ==
  /\ ~restored => pc = "idle" /\ core \in {None, Blank} /\ kind = "none"
  /\ load # "none" => ~restored /\ core # None
  /\ load = "ready" => reply = keychain

\* After it memory is never behind the Keychain.
AheadInv ==
  restored => /\ core # None
              /\ keychain # None => AtLeast(core, keychain)

\* What a handler carries from one of its steps to the next.
JobInv ==
  /\ pc \in {"idle", "batch"} => kind = "none" /\ msg = None
  /\ pc = "save" => blob = core
  /\ pc \in {"publish", "notify"} => keychain = core
  /\ kind \in {"data", "ping"} => out \in Frames /\ Covers(core, out)
  /\ kind = "ping" => HasSession(core, out.contact)
  /\ kind \in {"accept", "receive"} => msg \in core.recd
  /\ kind = "accept" => HasSession(core, Sender[msg])

\* Session numbers in use are below the next one.
EpochInv ==
  /\ core # None => \A c \in Contacts : core.epoch[c] <= epochs
  /\ keychain # None => \A c \in Contacts : keychain.epoch[c] <= epochs

SafeInv == TypeOK /\ BootInv /\ AheadInv /\ JobInv /\ EpochInv /\ CrashSafe
           /\ NoKeyReuse /\ EstablishedIsPersisted

\* The initiator's ping tells the peer about the session: no other frame of
\* the session leaves before it ("session init will be sent when stream
\* opens", src/src/engine.rs:1413).
InitSentBeforeData ==
  \A f \in wire : (f.epoch \in initiated /\ f.n > 0)
                   => [f EXCEPT !.n = 0] \in wire
=============================================================================
