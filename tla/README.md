# Verification of construct-engine

TLA+ models of the engine in `src/`, the TLC runs that check them on small
instances, and TLAPS proofs of the properties that matter most for every value
of the constants. The engine is a Rust library that a chat app embeds: one task,
the event loop, owns the network, calls the end-to-end encryption of the
external crate `construct-core`, and talks to the app by events (`dispatch`)
and callbacks (`PlatformCallbacks`).

All line numbers refer to `src/src/`; `PROJECT.json` maps every definition that
stands for code to its lines.

## 1. Inventory

| Part | State it keeps | Operations | What makes it correct |
|---|---|---|---|
| Event loop (`engine.rs:207`) | the armed refresh timer, its place in `select!` | refresh timer, `connected.changed()`, app event, incoming frame, new tokens (biased in this order) | it never sleeps on a lost connection; it always comes back to the app's events |
| Key material (`engine.rs`, `core_bridge.rs`) | `core: Mutex<Option<CoreHandle>>`; its copy in the app's Keychain | `PlatformReady`, `KeychainResult`, send, session init (both roles), decrypt, background batch, pre-key upload, rotation | state is saved before it is acted on; no message key is used twice; no published key is forgotten |
| Transport (`transport/mod.rs`) | `h3: Mutex<Option<H3State>>`, `token`, the watch channel `connected`, one driver task per connection | `ensure_connected`, `ensure_h3`, `connect_h3`, `unary_call`, `open_message_stream` | each loss is announced, exactly the lost connection is replaced |
| Message stream (`transport/stream.rs`) | the handle in `ConstructEngine.stream`, its pump task, two queues, `stream_params` | open, close, send frame, reopen after a reconnect | a stream exists if and only if the app wants one |
| Tokens (`engine.rs:66-178`, `240-320`, `600-830`) | `Transport.token`, watch channel `token_state`, timer, the app's copy | register, authenticate, refresh, logout | copies agree; refreshed in time; signed out means signed out |
| Delivery (`engine.rs:1020-1075`, `1670-1790`, `stream.rs:169-233`) | the cursor in `stream_params`, the frame queue, receipts in the handle's queue | open, resume, receive, acknowledge | resuming skips nothing that is still open; the server deletes only what was read |
| Healing (`engine.rs:1800-1990`) | the record of `construct-core` per contact, retry tasks | failed session init, retry, give up | a record is never left without a retry or a report; retries end |
| Life cycle and sending (`engine.rs:75-206`, `1079-1215`, `stream.rs:40-110`) | the runtime's mutex, the bounded event queue, the bounded frame queue of the handle | `new`, `start`, `dispatch`, `shutdown`, `handle_send_message`, `send_frame` | an accepted message is answered; none is received twice or missing in the middle |
| Framing (`transport/grpc.rs`, `stream.rs:200-222`, `mod.rs:230-296`) | `recv_buf` of the pump, the body of a unary call | prefix, reassembly, trailers, status | frames are the server's messages for every chunking; a success is one |
| P2P manager and connection (`p2p/manager.rs`, `p2p/quic_p2p.rs`) | peers, connections and statistics, each behind a lock; a task per attempt | handoff in both roles, attempt, removal, statistics | status and statistics follow the attempts, whatever runs beside them |
| ICE, STUN (`p2p/ice.rs`, `p2p/stun.rs`) | none | candidate priority, request, response parsing | order and parse agree with the RFCs |
| QUIC and TLS set-up (`transport/connection.rs`) | none | one connection attempt | none of its own |
| Types, configuration, FFI, build | none | none | none |

How they interact. The app dispatches events into a bounded queue; the loop
takes them one at a time, and a handler runs to its end before the next. What
is concurrent with a handler: the connection drivers, each of which publishes
`false` on `connected` when it ends; the pump of the stream, which fills a
queue of frames; the app, which answers callbacks with events; the network,
the server and the clock. A watch channel keeps only its latest value. The app
process can be killed at any point.

The hard behaviours are therefore these (PROJECT.json, `hazards`, gives each at
its line): a kill between two steps of a handler that changes key material; the
two answers of the Keychain in any order; the exit of an old driver taken for
the loss of a new connection; a loss overwritten in the watch channel before
anybody looks; a stream that ends without the connection ending; the refresh
timer against the handlers that delay it; three copies of the tokens; frames of
an old stream behind those of a new one; a cursor that is stored before its
message is handled; a retry that comes back after its reason is gone; queues
that are full, or whose reader has gone; a task that outlives the peer it works
for; a frame split anywhere; a failure between two assignments that belong
together.

The P2P manager is the one part with no connection to the rest: `handle_event`
only logs the P2P events, and nothing outside the manager's tests creates one.

## 2. Modules

### CryptoCore: what the engine needs of `construct-core` (external)

The crate is not in the repository. `CryptoCore` says what the engine's calls
do to the state that `export_orchestrator_state_cfe` writes: which session each
contact has, how far its sending chain is, which incoming keys are used up, how
many pre-keys there are. Two assumptions are taken from the protocol: a new
session never repeats the number of an earlier one (a fresh ephemeral key), and
a key that is used up is refused. `AtLeast` orders states: nothing used up in
the smaller is available in the larger.

### Messaging: key material, Keychain, crashes

| Variable | Code |
|---|---|
| `core` | `ConstructEngine.core` |
| `pc`, `kind`, `out`, `msg`, `blob`, `batch` | where the running handler is, and its local variables |
| `load`, `reply`, `restored` | the `LoadKeychain` request of `handle_platform_ready` and its answer |
| `keychain` | what the app wrote at the last `SaveKeychain` |
| `wire`, `acked`, `otpks`, `spk` | what has left the device: frames, ACKs, pre-keys, rotations |
| `established`, `shown`, `seen` | what the app was told by `SessionEstablished`; how often this process displayed a message; what any process displayed |
| `epochs`, `initiated`, `crashes` | session numbers and history |

A handler has up to four steps, and a crash may come between any two:
`Mutate` (change the core, take the export), `SaveKeychain`, one of
`TransmitFrame`, `SendAckFrame`, `CallKeyService`, then `Notify`. Which of them
a handler has and in which order follows its code: `handle_send_message`,
`handle_init_session_initiator`, `handle_session_init_responder`,
`handle_decrypt_message`, `handle_background_push`, `handle_upload_otpks`,
`handle_rotate_spk`. The batch reads its messages in memory and saves once at
the end, but the session inits in it save in its middle.

`Faults` names what a run allows besides crashes: an export that fails
(`unwrap_or_default` turns it into nothing to save), an import that fails, and
private keys that are answered late.

Assumed of the app: `SaveKeychain` returns when the item is written, and after
the launch it answers `LoadKeychain` before it dispatches anything that needs
the sessions ("Called on app launch after Keychain load", `events.rs:35`).
Without the second, a handler that saves between the read and the import would
be rolled back; that is listed as a hazard.

### WriteAhead: the abstract specification of Messaging

One durable state that only moves forward; a frame leaves only if the durable
state can no longer hand out its key, and never twice; the server is given only
pre-keys whose private halves are durable. `Messaging` implements it under the
mapping `durable <- keychain, sent <- wire, preKeys <- otpks, rotations <- spk`
(`WritesAhead`).

### EventLoop: connections, watch channel, stream

| Variable | Code |
|---|---|
| `pc`, `then`, `calls` | the loop: idle in `select!`, reconnecting, about to send `true`, in a unary call, opening the stream; what follows |
| `h3` | `Transport.h3` |
| `drivers`, `up` | driver tasks that run; connections that carry data |
| `watch`, `unseen` | the value of `connected`, and whether `changed()` would return at once |
| `stream`, `pump` | the handle and its task |
| `params`, `wanted` | `stream_params`; what the app asked for |

`connect_h3` is split where another task can run: `Install` (spawn the driver,
replace the old state) and `Announce` (send `true`). Between them the new
connection may already be lost. Replacing an `H3State` drops its `JoinHandle`,
which in tokio detaches the task; the driver ends when the last `SendRequest`
is gone (assumed of the h3 crate) and then publishes `false`, whichever
connection is current. Connection identities are reused once nothing refers to
them.

`Causes` names what a run allows besides the loss of connections: unary calls
that fail and reconnect on their own, losses before the announcement, streams
the server ends or refuses, streams the app closes.

Fairness: weak fairness of the loop's steps, of each driver's exit and of the
pump's exit, because tokio runs every task that can run. Nothing is assumed of
the app or of the server; faults of the network are bounded by `MaxFaults`, so
liveness says: once the network behaves.

### Tokens: sign-in, refresh, logout, restarts

| Variable | Code |
|---|---|
| `pc`, `job`, `busy` | top of the loop, `select!`, or in a handler; which, and for how long |
| `token`, `state`, `unseen` | `Transport.token`; the watch channel `token_state` and `has_changed()` |
| `armed`, `deadline` | `refresh_armed`, `refresh_sleep` |
| `app`, `asked`, `boot` | the app's stored tokens; its queued `RefreshToken`; `config.auth_token` |
| `valid`, `issued` | the sessions the server honours |

Tokens are numbered pairs; 0 is the empty string. A handler waits in `call`
while the clock ticks, for as long as it likes: a unary call has no time limit
and `ensure_connected` tries until it succeeds (`engine.rs:312-336`). One that
takes longer than `Slack` is recorded as slow. `SecsUntilRefresh` is the computation
of `engine.rs:296-310` with the constants as parameters. Assumed: a refresh
replaces the pair at the server (the reason the engine stores the answer), and
a timer that is due while the loop is idle fires at once. The restart hands the
new engine the stored access token only: the configuration has no place for a
refresh token, so `state` starts empty.

Faults: a refresh lost in transport (served or not), a refused sign-in, a
session revoked elsewhere, a refresh the app asks for, an answer without a
refresh token. All of them are in one run. `failures` is a history variable: it
remembers, until new tokens come, that the timer's refresh was lost in
transport, that a sign-in was refused and that a handler was slow. The
properties name these exceptions, so a run with every fault shows what holds in
spite of the others. `FreshWhileServed` excepts the first and the last: in an
outage longer than half the lead time the reconnect branch keeps the timer
waiting, and the token expires without a refresh having failed.

### Delivery: streams, the cursor, receipts, healing

| Variable | Code |
|---|---|
| `params` | `stream_params`, and in it `last_cursor` |
| `stream`, `opened`, `running`, `pos` | the handle; pump tasks that have not ended, and where each is in the server's log |
| `frames` | `frame_tx`/`frame_rx`, one unbounded queue for all streams |
| `acks` | receipts in the outgoing queue of a handle |
| `timers` | retry tasks that sleep (`engine.rs:1953`) |
| `heal`, `told` | attempts in the healing record; contacts of the last `SessionError` |
| `done`, `session` | the core in memory: messages whose keys are used up, the session init in use |
| `saved` | the same in the Keychain, as the last `SaveKeychain` wrote it |
| `batch` | a background batch is under way |
| `stored` | what the server still holds |
| `given`, `failed` | history: messages the app was given, in this process or an earlier one; messages a handler was through with and the app was never given |
| `byApp` | history: messages the app acknowledged while the Keychain had not read them |

A message is its place in the server's log, and its cursor is the same number.
`HandleFrame` is `handle_incoming_frame` with all it calls: the cursor first,
then the envelope, then decryption or `handle_session_init_responder` with its
five ways out. It is one step, because everything it appends to another task's
queue it appends once; the crash points inside it are those of `Messaging`.
Reading a message (`Read`: its key is used up, the app gets it), saving the core
(`Save`) and the receipt (`SendAckFrame`) are three effects, as in the code: an
export that fails (`unwrap_or_default`) saves nothing, and the receipt goes all
the same. A background batch reads message by message (`BackgroundPush`) and
saves at its end (`BatchEnds`); killed in between, it leaves messages with the
app that the restarted core can read again and the app may already acknowledge,
because `handle_ack_message` looks nothing up (`AckMessage`). An
old pump runs on after its handle is dropped, up to its next wait, so its frames
can follow those of the new stream. A restart keeps only what is in the Keychain.

Faults: a frame that does not decode, an empty envelope, a bundle fetch that
fails, a session init that fails without being a replay, a missing core, a
stream that cannot be opened, an export that fails, a handler that hangs.
External, from the use in `engine.rs`: the server
sends, on a new stream, what follows `since_cursor` and is not acknowledged; a
session init whose keys are used up is refused; the healing record counts
attempts and `MaxAttempts` is its limit, and it is not part of the exported
state, so it dies with the process.

### ResumableFeed: the abstract specification of Delivery

A client of a numbered feed takes messages in hand, reads them or gives them up,
and acknowledges what it read; its position never passes a message whose fate is
open and that is not in hand. The mapping is `position <- Cursor`, `held <-` the
messages in the queue and the timers, `read <- given`, `givenUp <- failed`,
`acked <- Msgs \ stored` (`ImplementsFeed`).

### Outbox: life cycle and sending

| Variable | Code |
|---|---|
| `life`, `asked` | the runtime's mutex and the loop's thread; `shutdown` was called |
| `busy` | the loop is in a handler other than `handle_send_message`, or connects |
| `queue` | `dispatch_tx`/`dispatch_rx`, at most `Buffer` |
| `item` | the message whose `send_frame` is waiting for room |
| `out`, `writing`, `wire`, `received` | the queue of a handle, at most `Depth`; the frame in `send_data`; QUIC; the server |
| `status` | what `UpdateMessageStatus` told the app |
| `handed` | history: what the loop gave to each stream |

The app may dispatch from any thread at any time, and repeats a message only
after FAILED. `FrameEnqueued` waits while the queue is full, and the loop with
it; `FrameRefused` is the error when the receiver is gone, also during the wait.
`HandleOther` (an event), `OwnWork` (the timer's refresh, a frame) and
`Reconnect` begin everything else the loop does; until `HandlerReturns` it takes
nothing from the queue, and then the handle may be another or none. Faults: the
thread cannot be spawned, `Transport::new` fails, a message cannot be encrypted,
a live server stops reading, a handler never returns.

### Courier: the abstract specification of Outbox

What the app may rely on when it dispatches a message: `dispatch` accepts it or
drops it; once the loop runs, accepted requests are answered in order; a message
is answered SENT exactly when a stream takes it; a stream delivers in order and,
when it breaks, loses only its end. The mapping (`Service` in Outbox):
`phase <- Phase` (of `life`), `accepted <- item \o queue`, `owed[i] <-` what
stream i has on the wire, in the pump's hand and in its queue, `got <- received`,
`broken <-` the streams opened whose pump has ended (`ImplementsCourier`).

### P2PManager: handoffs

A call of a method is an activity `c`, the task it spawns goes on under the same
name, and each step touches one lock. Where `attempt_connection` lets go of the
lock of `peers` and takes it again, another call may run. `SetStatus` is
`peers.get_mut`: a peer that was removed is left alone. The connection belongs
to its task only, so its own locks separate nothing. Candidates are tried in
ascending priority, each with a time limit, and the first that answers ends the
attempt. "Answers" is what the code takes for it: any datagram that arrives, from
whomever, because the sender is not compared (`quic_p2p.rs:169-181`).

### Framing: chunks, frames, trailers

Bytes are counted. A message is where its frame begins and how long it is; the
pump sees a number of bytes, and reads a length at the place it believes a
frame begins: the right length at the start of a frame, any length elsewhere
(`LengthsAt`). So an error in the offset shows as a frame that is no message.
A unary call collects the body, looks at the HTTP status and the trailers and
decodes one frame. The pump alternates between its two phases (`Sent`,
`PollTimesOut`) and stops when the body ends, when it cannot send a frame
(`SendFails`) and when its handle is dropped, which aborts it where it waits
(`HandleDropped`). Faults: compressed messages, a proxy that ends the body
before a message or within it, a lost connection, an HTTP status other than
200, a status that is in the headers only, a server that stops reading.

### MC modules and proof modules

`MCMessaging`, `MCEventLoop`, `MCTokens`, `MCDelivery`, `MCOutbox`, `MCP2P` and
`MCFraming` give the constants values for TLC. The theorems are in
`CryptoCoreProofs`, `MessagingProofs`, `EventLoopProofs`, `TokensProofs`,
`DeliveryProofs`, `OutboxProofs`, `P2PManagerProofs` and `FramingProofs`.
Operators commented "Changed form" are not part of the models: each is a
definition with a plausible mistake, kept to show that the property it is paired
with in `PROJECT.json` notices it.

## 3. Runs

### Runs that pass

| Run | Properties | What it shows | Bounds, and why they are enough |
|---|---|---|---|
| `send` | `TypeOK`, `CrashSafe`, `NoKeyReuse`, `EstablishedIsPersisted`, `WritesAhead` | with exports that succeed and the documented start-up, no key is reused or forgotten, whichever step the kill hits | 2 contacts, 2 messages, 2 sessions, 2 frames per session, 1 upload, 1 rotation, 1 crash: two sessions allow replacing one, two frames allow a second position, one crash then a full life of the process. 2.2 M states |
| `receive` | `ShownOncePerProcess`, `OneLostPerCrash` | no process displays a message twice, whatever an earlier one displayed; at most one message is lost per crash; also if exports and imports fail | 1 contact, 3 messages (a session init and two texts, so that two compete for one save), 2 crashes. 3.2 M states |
| `all_causes` | `TypeOK`, `NeverRestsDisconnected` | whatever fails, the loop never goes to sleep on a channel that says disconnected | 4 connections (current, replaced, stream's, next), 2 calls per handler, 4 faults; identities up to symmetry |
| `loss` | `LossWillBeReported`, `NeverRestsWithoutStream`, `StreamRecovers`, `AppEventsServed` | if only the loop reconnects, each loss is reported, the loop never rests while a stream the app wants is down unless a driver is still to wake it, the stream returns unless the app has closed it, the app is served | 3 connections, 3 faults: a loss during the reconnect after a loss |
| `tokens` | `TypeOK`, `SameTokens`, `RefreshScheduled`, `FreshWhileServed`, `SignedOutStaysOut` | engine and app never hold different tokens; until the timer's refresh is lost in transport one is always scheduled, and until then or until a handler has been slow the token in use does not expire; the timer signs nobody in again, unless a refused sign-in signed the app out | every fault; lifetimes 4 and 7 around a lead of 5, so that the floor of 10 s is reached, 3 pairs, 1 restart, 8 ticks, in all of which a handler may wait. 4.4 M states |
| `delivery` | `TypeOK`, `NoGap`, `AckedOnlyRead`, `HealingAttended`, `ImplementsFeed`, `InFlightEnds` | the cursor passes no message that the app was not given and no handler gave up; while exports succeed the server deletes a message only if the Keychain holds the state that read it or the app acknowledged it; a failed session init is retried or reported; retries end once the loop has nothing else to do; with every fault but "export" and "hang" and any number of restarts, also in the middle of a batch | a session init and a message in that session, 2 healing attempts (one retry), 2 streams per process so that an old one overlaps a new one, 2 copies of a message, 1 frame in the queue besides retries. 0.57 M states. With two session inits the run is too long; one with a single stream and `Faults = {"x3dh"}` passes, and the theorems hold for any number of them |
| `outbox` | `TypeOK`, `AtMostOnce`, `NoHole`, `AcceptedAnswered`, `ImplementsCourier` | with every queue at its limit and streams that end at any point, no message is received twice or missing among others; unless the loop reconnects for ever, a handler hangs or the server stops reading, each accepted one is answered, in the order Courier promises | 3 messages over queues of 2 (events) and 1 (frames), so that both are full with a message waiting and one being written; 2 streams. 0.17 M states |
| `handoffs` | `TypeOK`, `StatsAddUp`, `ConnectingIsAttended`, `ConnectedIsEarned`, `ReportsAreTrue`, `AttemptsConclude` | however the handoffs of a peer and its removal interleave, each attempt is counted once, no status is shown without the attempt behind it, every attempt comes to an outcome, and a failure, nothing else, is reported. With `ConnectingIsAttended` a peer with candidates does not stay connecting | 1 peer (peers share nothing but the statistics), 3 calls: an old task, a new one and a third that changes the candidates between them; 2 candidates, offers of none or both. 0.18 M states |
| `framing` | `TypeOK`, `FramesAreMessages`, `NothingWithheld`, `AnswerIsServed`, `MessagesArrive` | for every way to split, cut or lose the bytes of a response the pump, unless it is stopped, hands on the server's messages when they are complete, and a unary call succeeds only with a message the server served, or with an empty body that no trailer calls an error; every fault but "stall" | frames with the real header of 5 bytes and bodies of 0 and 2, so that headers and bodies are split; 3 messages: one taken, one complete, one partial. 0.11 M states |

The bounds are constants and stand in the guards: `MaxEpoch`, `MaxSent`,
`MaxOtpk`, `MaxSpk`, `MaxCrashes`; `MaxCalls`, `MaxFaults`; `MaxTime`,
`MaxTokens`, `MaxRestarts`; `MaxStreams`, `MaxCopies`, `MaxFrames`;
`MaxRecorded`; `MaxMsgs`. `Buffer`, `Depth` and `MaxAttempts` are no bounds but
limits of the code (`event_buffer`, 256 frames, construct-core's), made small so
that they are reached. In `Tokens` time stops before a refresh that would need a
pair beyond `MaxTokens`, so the bound never looks like a late refresh.

Fairness, besides that of EventLoop above: tokio runs every task that can run.
The loop's `select!` is biased, so nothing below its first branch is certain of
its turn, and the code bounds neither a unary call nor a reconnect. Therefore:
- `Outbox` does not assume that an event is taken (`Events`): either the loop
  reconnects for ever, as `reconnect_storm` shows it may, or a waiting event has
  its turn. Above events stand only reconnects and the timer, which is set to ten
  seconds at least (`engine.rs:304`) and cannot fire twice in a row; frames stand
  below. `AcceptedAnswered` states the exception.
- `Delivery` assumes of frames, which come after everything else, weak fairness
  only: `HandleFrame` is certain when nothing else is there to do. `InFlightEnds`
  has that as its premise (`OtherWorkEnds`): an app that is never silent, or
  endless reconnects, may leave a frame in the queue for ever.
- A handler returns (`HandlerReturns`, `BatchEnds`, `HandleFrame`) unless
  `Faults` lets it hang; the pump's writing is fair unless `Faults` lets the
  server stall.
- Weak fairness stands for a task that waits for nothing but itself: retry
  timers, the pump's steps, the answer of `send_frame`, the steps of an attempt
  (its locks are held for a moment, its probes and pings end by time-out).
- In `Framing`, the pump polls and sends in turn. That bytes which are not lost
  are taken at some poll is strong fairness (`ReceiveChunk`, `PumpEnds`): QUIC
  keeps them, and `recv_data` is asked before the time-out is looked at. A pump
  that is aborted, or whose `send_data` fails, takes no more;
  `MessagesArrive` says so.
Nothing is assumed of the app.

### Runs that end in a violation

Each shows that the code departs from what a comment, a doc or its own
assertion says; `PROJECT.json`, `findings`, quotes the lines.

| Run | Property | What the trace shows |
|---|---|---|
| `dropped_init` | `InitSentBeforeData` | a session init without a stream is dropped, not sent "when stream opens" (`engine.rs:1411`) |
| `reconnect_storm` | `AppEventsServed` | after one failed call the exits of replaced drivers make the loop reconnect for ever (`transport/mod.rs:103`) |
| `logout_revokes` | `LogoutRevokes` | logout names the token of the process start, the session in use stays valid (`engine.rs:805`) |

### What the passing runs leave out

A passing run leaves out the causes its properties cannot survive, and a
property may name an exception. Adding the cause, or checking the property
named, on the instance of the run shows what happens then. For `CrashSafe`,
`NoKeyReuse`, `ShownOncePerProcess`, `LossWillBeReported`,
`NeverRestsWithoutStream` and `AckedOnlyRead` the rows also show that the
theorem of section 4 needs the assumption it makes:

| Run, and what is changed | Property that then fails | Why |
|---|---|---|
| `send`, `Faults = {"export"}` | `CrashSafe`, `NoKeyReuse` | an export that fails is taken for "nothing to save": the frame leaves all the same (`engine.rs:1089`) |
| `send`, `Faults = {"keys"}` | `CrashSafe` | a `private_keys` answer after the restore replaces the restored core; the next save overwrites the Keychain (`engine.rs:462`) |
| `send`, `Faults = {"import"}` | `CrashSafe`, `EstablishedIsPersisted` | an import that fails leaves the core without sessions, and the next save overwrites the Keychain with it (`engine.rs:478`) |
| `receive`, `Faults = {"keys"}` | `ShownOncePerProcess` | the core built from late keys has forgotten what was displayed, and decrypts it again |
| `loss`, `Causes = {"call"}` | `StreamRecovers`, `NeverRestsWithoutStream` | a loss overwritten in the watch channel by a handler's own reconnect is never seen (`engine.rs:258`) |
| `loss`, `Causes = {"early"}` | `LossWillBeReported`, `NeverRestsWithoutStream` | a connection lost before it is announced is announced as connected (`transport/mod.rs:108`) |
| `loss`, `Causes = {"server"}` | `StreamRecovers`, `NeverRestsWithoutStream` | a stream ended or refused on a live connection is not opened again (`stream.rs:223`; `events.rs:294` lets the app expect it) |
| `tokens`, `RefreshScheduled` without its exception | itself | after one transport error the tokens are not refreshed again (`engine.rs:246`, against the doc at `engine.rs:66`) |
| `tokens`, `FreshWhileServed` without its exception for slow handlers | itself | the refresh waits for a handler, or a reconnect, that takes longer than half the lead time (`engine.rs:312-336`) |
| `tokens`, `SignedOutStaysOut` without its exception | itself | a refused login clears the app's tokens only; the timer signs it in again (`engine.rs:759`) |
| `delivery`, `ResumesWithoutGaps` | itself | the cursor is stored before the message is handled; a message whose bundle fetch failed is behind it (`engine.rs:1689`, comment at 1685) |
| `delivery`, `Faults = {"export"}` | `AckedOnlyRead` | an export that fails is taken for "nothing to save", and the message is acknowledged all the same (`engine.rs:2060`, `2074`, `2081`; session inits `1899`, `2007`, `2015`) |
| `delivery`, `Faults = {"hang"}` | `InFlightEnds` | a fetch that never returns leaves the loop in its handler |
| `outbox`, `SendAnswered` | itself | `dispatch` drops the event when the queue is full, and the message is never answered (`engine.rs:180`, against `events.rs:85`) |
| `outbox`, `ShutdownEndsLoop` | itself | `shutdown` logs; the loop holds the engine and with it the sender (`engine.rs:187-191`) |
| `outbox`, `Faults = {"stall"}` | `AcceptedAnswered` | `send_frame` waits while the queue is full, although its doc says "Non-blocking" (`stream.rs:60`) |
| `outbox`, `Faults = {"hang"}` | `AcceptedAnswered` | a call that never returns holds the loop; unary calls have no time limit |
| `outbox`, `AcceptedAnswered` without `EndlessReconnects` | itself | reconnects come before events in the biased `select!` (`engine.rs:257`) |
| `framing`, `AnswerIsServed` without its exception | itself, with `Faults = {"headers"}` and with `{"cut"}` | an error that is not in the trailers, or a body cut before its first byte, is an empty body, which is decoded as an empty answer (`mod.rs:290`) |
| `framing`, `Faults = {"stall"}` | `MessagesArrive` | the pump waits in `send_data` and does not read (`stream.rs:185`) |

Other remarks from reading, for a reviewer of the code:
- A stream the app has closed is opened again after the next reconnect, because
  `handle_close_stream` keeps the parameters (`engine.rs:1061`).
- A `RefreshToken` event that waits while the timer's refresh is served carries
  the old token. If the server has replaced it, the refresh is refused and the
  engine signs the app out although its current session is valid
  (`engine.rs:367`, `engine.rs:766-799`).
- `events.rs:227-229` documents the message statuses 0 to 3; the engine reports
  FAILED as 4.
- A peer without candidates stays at `Connecting` (`manager.rs:350-353`). The
  task of an older attempt may overwrite the status of a newer one
  (`manager.rs:413`). A replaced connection is not closed (`manager.rs:362-366`)
  and `remove_peer` keeps it in the map (`manager.rs:464`). `Failed` is documented
  as "will retry" (`manager.rs:47`), but `schedule_retry` is a stub.
  `RelayFallback` is never set.
- `handoffs_successful` can exceed `handoff_attempts`: only the initiating side
  counts attempts, both count successes.
- `handle_handoff_initiate` acknowledges with `success: true` before anything is
  tried.
- `measure_rtt` listens on a socket it has just bound, so the PONG, which goes to
  the socket that sent the PING, does not reach it.
- Candidates are tried in ascending priority, a public address (50) before one
  in the local network (100), whereas `ice.rs:90-91` calls the local one the
  highest priority.
- STUN compares bytes 4 to 16 of the answer with its transaction id, which
  stands at 8 to 20.

## 4. Proofs

All theorems hold for any sets of contacts, messages, connections and
lifetimes, and any bounds.

**MessagingProofs**. Each theorem assumes the faults away that TLC shows it
cannot survive, and no others:

| Theorem | Assumption | Invariant |
|---|---|---|
| `TypeCorrect` | none | `TypeInv` |
| `CrashesLoseOneEach` | none | `DataInv`, `TakenInv`, `LostInv` |
| `KeysUsedOnce` | exports succeed | `TypeInv`, `SpentInv`, `HandInv` |
| `DisplayedOnce` (per process) | keys before state | `DataInv`, `TakenInv`, `ShownInv` |
| `CrashSafety`, `SessionsPersisted`, `ImplementsWriteAhead` | all three (`Faults = {}`) | `SafeInv` |

`CrashSafe` is not inductive: nothing in it says that what is about to be
published was saved. `SafeInv` adds
- `BootInv`: before the restore only an empty core exists and no handler runs,
  and an answer on its way equals the Keychain;
- `AheadInv`: after it, memory is never behind the Keychain, so a save moves
  the Keychain forward;
- `JobInv`: at the save the export is the core, after it the Keychain is the
  core; the frame and the message a handler carries are covered by the core;
- `EpochInv`: session numbers in use are below the next one, so a new session
  is later than any other.

There is a lemma per action; `MutateSafe` carries the common part of the
handlers. `CryptoCoreProofs` has the lemmas about states: every operation moves
on, `AtLeast` is a preorder, `Covers` and `HasSession` are monotone in it.
`ImplementsWriteAhead` maps each step to `Persist`, `Publish`, `Offer` or a
stutter; `SaveKeychain` is `Persist` because of `AheadInv`, `TransmitFrame` is
`Publish` because of `JobInv` and `NoKeyReuse`.

With failed imports and late keys memory can be behind the Keychain, so
`KeysUsedOnce` has an argument of its own. `SpentInv`: a copy of the state (in
memory, exported, on its way or in the Keychain) that still has a session of a
number some frame carries is past that frame (`Spent`). A copy with another
session number may be older or newer: the number of a frame on the wire is never
given out again, so it cannot come to that key.
`HandInv`: the frame a handler carries is of a position no frame on the wire has.

For `DisplayedOnce`, `ShownInv`: what this process has displayed, its core has
used up, and a core once restored is not replaced. For `CrashesLoseOneEach`,
`Missing` collects what any copy of the state has used up without its having
been displayed; every step but a crash leaves it as it is or smaller, whatever
happens to the core, and a crash adds the one message in hand (`TakenInv`).

**EventLoopProofs**: `TypeCorrect` (with `CallsInv`: a handler in a call has
one left to make) and `RestIsConnected` without assumption (`WatchInv`: a
`false` that has been seen is followed by a reconnect, which overwrites it).
`LossIsReported` assumes only that connections outlive their announcement
(`"early" \notin Causes`): handlers may call and reconnect, streams may end. By
`ReportInv` the connection installed has a driver, or none is installed and an
older one still has its driver, or a `false` is unread. `RestsWithStream` is the
safety part of `StreamRecovers` and needs `Causes \subseteq {"close"}`; by
`WantedInv` whoever installs a connection goes on to open the stream, so that a
loop at rest on a live connection has the stream the app wants.

**TokensProofs**: `TypeCorrect`, `TokensAgree`, `RefreshIsScheduled` and
`SignedOutForGood` without assumption; `TokensStayFresh` under `Timely`, which
says how slow "slow" may be chosen: `Lead >= 2 * Slack`, every lifetime at least
`Floor + 3 * Slack`. No handler is assumed to be faster; the property speaks of
the time until one is slower. `FreshInv` is a budget of time: the rest of the
handler that brought the tokens, one handler in the way of the timer, the
refresh itself. With the engine's 300 s and 10 s that is: a token that lives
460 s or longer does not expire in use until a handler has taken more than
150 s, or the refresh has failed. `ArmedInv`: the timer is off only while the refresh it started is
under way, or after one that was lost. `SignedOutInv`: an app that was signed
out by anything but a refusal has an engine without token state, so the timer's
refresh is one for an app that is signed in.

**DeliveryProofs**: `TypeCorrect`, `ResumeIsGapless`, `HealingIsAttended`,
`FeedImplemented` without assumption on faults; `AcksFollowReads` if exports
succeed (`"export" \notin Faults`). `NoGap`
alone is not inductive, since a frame that arrives late could carry the cursor
past a gap. `SafeInv` adds
- `ReachInv`: everything up to any cursor that could still be stored (in a
  queued frame, or the position of a pump) is given to the app, given up or in
  flight;
- `AckInv`: a receipt on its way is for a message that was read, and so is what
  the server has deleted.

For `AcksFollowReads`, `SavedInv` says more: a receipt on its way, and a
message deleted, is in the Keychain's copy of the core or was acknowledged by
the app. A save never loses what an earlier one had, since memory holds all that
the Keychain does (a restart makes them equal), and a handler that sends a
receipt has saved before.

`ImplementsFeed` follows step by step: a handled frame is `Settle` or `Move`, a
delivered one `Fetch`, a batch `SettleElsewhere`, a stream the app opens
`Rewind` that keeps the queue, a restart one that does not.

**OutboxProofs**: `TypeCorrect`, `StreamsLoseOnlyEnds` (`NoHole`),
`ServerReceivesOnce` (`AtMostOnce`). The invariant says where a message can be:
in at most one place of queue, `item` and the pipelines, and in a pipeline only
if it was reported SENT, so that one that is FAILED, and may be repeated, has
never been handed to a stream; only a running loop that is in no other handler
has an `item`.

`EngineIsCourier` (`ImplementsCourier`) takes each step to one of Courier or to
a stutter: `Dispatch` is `Submit`; the start and the entry into the loop are
`Serve`; a handler is `HandleOther`, `Refuse` or `Give`, and `Give` may wait for
room first, which is a stutter, as is a reconnect and a handler's return; what the pump takes and writes is one too; what
the server receives is `Deliver`; the end of a pump or of the wire is `Break`.

**P2PManagerProofs**: `TypeCorrect`, `StatisticsAddUp`, `ConnectingAttended`,
`ConnectedEarned`, `ReportsTrue`, `RemovedPeersStayRemoved`, for any finite set
of calls. `ReportsAreTrue` is the safety part of `AttemptsConclude`: who is sent
to the relay has failed, and who was told of a direct connection was answered.
`RemovedStaysRemoved`, that only a new handoff brings a peer back, is in no run:
the theorem says all there is.
`LinkInv` ties how far a task is to the state of its connection, `StatusInv`
gives each status its witness; the statistics need the cardinality of the
attempts that are still to be counted, which each step changes by at most one.

**FramingProofs**: `TypeCorrect`, `FramesCarryMessages`, `NothingIsWithheld`
for every header length, every set of lengths and every chunking;
`AnswersAreServed` for every fault. `WireInv`: the messages lie
end to end in the body. `ReadInv`: the pump has taken exactly the first
`Len(frames)` of them, so the place where it looks for a length is the start of
a frame. `ServedInv` and `ModeInv` relate the end of the body to what was served.

Only model-checked: `StreamRecovers`, `AppEventsServed`, `InFlightEnds`,
`AcceptedAnswered`, `AttemptsConclude`, `MessagesArrive`, all of
them liveness; no safety property of a passing run is without its theorem.
Liveness under fairness and `ENABLED` are out of the prover's reach, as are
induction over data and recursive operators; no module here uses the latter two.

## 5. Not modelled

- Message content, contact names, formats, logging, metrics.
- The cryptography: `construct-core` appears through its effects.
- Calls of the API that only ask and report (user search, push token) appear in
  EventLoop as calls that may fail, and nowhere else.
- `init_core_from_keys` (`engine.rs`): replaces the core from outside the loop;
  no handler calls it.
- Delays (back-off of reconnects and retries, the time limits of probes): a
  timer fires at any time. Unary calls have no time limit in the code either.
- A batch whose pages never end: a server that sets `has_more` with an empty
  `next_cursor` is asked for the first page again (`engine.rs:1627`).
- The trailers of the stream, which the pump does not read.
- P2P: `P2PConnection::close`, `reconnect` and the keepalive, which the manager
  never calls; latency averages, byte counters, the cache of own candidates;
  sockets and STUN, which are byte layout around one request.
- Generated bindings, `build.rs`, `bin/poc.rs`, TLS and DNS set-up.

## 6. Plan

Done: Messaging with WriteAhead, EventLoop, Tokens, Delivery with ResumableFeed
(healing included), Outbox with Courier, P2PManager, Framing, and a proof of
every safety property and of the three refinements. Next:

1. A composition of EventLoop with Outbox, so that the streams that end in one
   are those the other loses, and reconnects wait for a full queue.
2. An abstract specification of the connection that EventLoop implements.
3. A step property for `InFlightEnds`, `AcceptedAnswered` and `AttemptsConclude`
   that says what their progress is: a measure no step increases.

## 7. Running

From this directory, `tlc -config MCMessagingSend.cfg MCMessaging` (and so on
for each pair of `PROJECT.json`, `runs`), and `tlapm MessagingProofs.tla` for
each of the proof modules. Two runs switch the deadlock check off, because the
system there may stop: the calls of `handoffs` are made once each, and the
response of `framing` ends.
