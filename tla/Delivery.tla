------------------------------- MODULE Delivery -------------------------------
(* Incoming messages from the server to the app: the MessageStream's pumps,  *)
(* the engine's frame queue, the resume cursor, acknowledgements and the     *)
(* healing of failed session inits (src/src/engine.rs, transport/stream.rs). *)
(*                                                                           *)
(* The event loop handles one frame at a time and appends to the queues      *)
(* others read at most once per frame, so a handler is one step; which of    *)
(* its own steps a crash separates is the subject of Messaging.  Pumps,      *)
(* retry timers and the server run concurrently with it.                     *)
EXTENDS Naturals, Sequences

CONSTANTS
  Last,         \* the server's log for this device is 1..Last; the cursor
                \* that comes with message m is m
  Firsts,       \* the messages whose message_number is 0 (session inits)
  Contacts, Sender,
  None,         \* Rust's None
  MaxAttempts,  \* construct-core's limit on healing attempts
  MaxStreams,   \* bound: streams opened per life of the process
  MaxCopies,    \* bound: copies of a message in the queue and in timers
  MaxFrames,    \* bound: frames in the queue, retries apart
  Faults        \* which faults the run allows, see below

(* "garble"  a frame does not decode                                         *)
(* "empty"   an envelope without sender or payload, or one that won't unpack *)
(* "fetch"   GetPreKeyBundle fails, or its answer is of no use               *)
(* "x3dh"    a session init that is not a replay may fail                    *)
(* "core"    there may be no core                                            *)
(* "open"    MessageStream cannot be opened                                  *)
(* "export"  the core's state cannot be exported, and is not saved           *)
(* "hang"    a handler may wait for ever (no call has a time limit)          *)
Msgs == 1..Last

ASSUME LogAssumption ==
  /\ Last \in Nat
  /\ Firsts \subseteq Msgs
  /\ Sender \in [Msgs -> Contacts]
  /\ None \notin 0..Last
ASSUME BoundsAssumption ==
  /\ MaxAttempts \in Nat \ {0} /\ MaxStreams \in Nat /\ MaxCopies \in Nat
  /\ MaxFrames \in Nat

VARIABLES
  \* the process
  params,     \* stream_params: None or the last_cursor in it (0: None)
  stream,     \* ConstructEngine.stream: number of the handle's stream, or 0
  opened,     \* how many streams this process has opened
  running,    \* streams whose pump task has not ended
  pos,        \* pos[i]: the last message stream i has delivered or skipped
  acks,       \* acks[i]: receipts in the outgoing queue of stream i
  frames,     \* frame_tx/frame_rx, unbounded, one for all streams
  timers,     \* timers[m]: sleeping retries of session init m
  heal,       \* heal[c]: attempts in the healing record of c, 0 if there is none
  told,       \* contacts of the last SessionError, unless healing went on since
  done,       \* messages the core has decrypted: their keys are used up
  session,    \* session[c]: the init that opened the session with c; 0: one
              \* that is older than the log
  batch,      \* a background push is being handled
  \* what survives it
  saved,      \* the core's done and session in the Keychain
  given,      \* messages the app was given (or told of: a session init)
  \* the server
  stored,     \* messages not acknowledged yet
  \* history
  failed,     \* messages the engine gave up and the app was never given
  byApp       \* messages acknowledged by the app while not saved

streamVars == <<stream, opened, running, pos>>
healVars == <<timers, heal, told>>
readVars == <<done, session, saved, given, failed>>
appVars == <<batch, byApp>>
vars == <<params, streamVars, acks, frames, healVars, readVars, appVars, stored>>

Streams == 1..MaxStreams

\* A MessageStreamResponse: its message (0: a receipt, an ack, a heartbeat) and
\* its stream_cursor (0: none).
Frame == [msg : 0..Last, cursor : 0..Last]

\* What the server sends for message m, and what a retry puts in the queue.
Sent(m) == [msg |-> m, cursor |-> m]
Retried(m) == [msg |-> m, cursor |-> 0]

TypeOK ==
  /\ params \in 0..Last \cup {None}
  /\ opened \in 0..MaxStreams /\ stream \in 0..opened
  /\ running \subseteq 1..opened
  /\ pos \in [Streams -> 0..Last] /\ acks \in [Streams -> SUBSET Msgs]
  /\ frames \in Seq(Frame)
  /\ timers \in [Msgs -> Nat]
  /\ heal \in [Contacts -> 0..(MaxAttempts - 1)]
  /\ told \subseteq Contacts
  /\ done \subseteq Msgs /\ session \in [Contacts -> 0..Last]
  /\ saved \in [done : SUBSET Msgs, session : [Contacts -> 0..Last]]
  /\ given \subseteq Msgs /\ failed \subseteq Msgs /\ byApp \subseteq Msgs
  /\ stored \subseteq Msgs /\ batch \in BOOLEAN

InMemory == [done |-> done, session |-> session]

Init ==
  /\ params = None /\ stream = 0 /\ opened = 0 /\ running = {}
  /\ pos = [i \in Streams |-> 0] /\ acks = [i \in Streams |-> {}]
  /\ frames = <<>>
  /\ timers = [m \in Msgs |-> 0] /\ heal = [c \in Contacts |-> 0] /\ told = {}
  /\ done = {} /\ session = [c \in Contacts |-> 0] /\ saved = InMemory
  /\ given = {} /\ failed = {} /\ byApp = {} /\ batch = FALSE
  /\ stored = Msgs

-----------------------------------------------------------------------------
(* Streams.                                                                  *)

\* The cursor the next SubscribeRequest.since_cursor would carry.
Cursor == IF params = None THEN 0 ELSE params

\* open_message_stream(_, c, _) succeeds: the server will send what follows c
\* and is not acknowledged (external), and the handle replaces the old one,
\* whose drop aborts its pump.
Subscribe(c) ==
  /\ opened < MaxStreams
  /\ opened' = opened + 1
  /\ stream' = opened + 1
  /\ running' = running \cup {opened + 1}
  /\ pos' = [pos EXCEPT ![opened + 1] = c]

\* handle_open_stream on the app's OpenMessageStream.  The app never learns a
\* cursor (StreamReady carries None), so it has none to pass.
OpenMessageStream ==
  /\ ~batch
  /\ params' = 0
  /\ \/ Subscribe(0)
     \/ "open" \in Faults /\ UNCHANGED streamVars
  /\ UNCHANGED <<acks, frames, healVars, readVars, appVars, stored>>

\* reopen_stream_if_needed, after a sign-in or a refresh.
ReopenStream ==
  /\ ~batch
  /\ params # None
  /\ \/ Subscribe(Cursor)
     \/ "open" \in Faults /\ UNCHANGED streamVars
  /\ UNCHANGED <<params, acks, frames, healVars, readVars, appVars, stored>>

\* The loop has seen `false` on connected: it drops the handle, connects, and
\* opens the stream again if there are parameters.
Reconnect ==
  /\ ~batch
  /\ \/ params # None /\ Subscribe(Cursor)
     \/ /\ params = None \/ "open" \in Faults
        /\ stream' = 0
        /\ UNCHANGED <<opened, running, pos>>
  /\ UNCHANGED <<params, acks, frames, healVars, readVars, appVars, stored>>

\* handle_close_stream drops the handle; the parameters stay.
CloseMessageStream ==
  /\ ~batch
  /\ stream' = 0
  /\ UNCHANGED <<params, opened, running, pos, acks, frames, healVars,
                 readVars, appVars, stored>>

Copies(m) == Len(SelectSeq(frames, LAMBDA f : f.msg = m))
               + (IF m = 0 THEN 0 ELSE timers[m])

\* Room for another copy of m, by the bounds of the model.
Room(m) == Copies(m) < MaxCopies /\ Len(frames) < MaxFrames

\* m is what the server sends next on stream i.
NextOn(i, m) ==
  /\ m \in stored /\ m > pos[i]
  /\ \A n \in stored : n > pos[i] => m <= n

\* pump_task, phase 2: a complete frame goes to the engine's queue, one with a
\* message or one that only reports where the stream is.  A pump that was
\* aborted goes on until it next waits.
PumpDelivers(i) ==
  /\ i \in running
  /\ \E m \in Msgs :
       /\ NextOn(i, m)
       /\ Room(m)
       /\ pos' = [pos EXCEPT ![i] = m]
       /\ frames' = Append(frames, Sent(m))
  /\ UNCHANGED <<params, stream, opened, running, acks, healVars, readVars,
                 appVars, stored>>

PumpDeliversOther(i) ==
  /\ i \in running
  /\ Room(0)
  /\ frames' = Append(frames, [msg |-> 0, cursor |-> pos[i]])
  /\ UNCHANGED <<params, streamVars, acks, healVars, readVars, appVars, stored>>

\* pump_task, phase 1: a receipt reaches the server, which drops the message.
PumpSends(i) ==
  /\ i \in running
  /\ \E m \in acks[i] :
       /\ acks' = [acks EXCEPT ![i] = @ \ {m}]
       /\ stored' = stored \ {m}
  /\ UNCHANGED <<params, streamVars, frames, healVars, readVars, appVars>>

\* The pump ends: aborted, connection lost, stream ended by the server.  Its
\* receiver goes with it, and with that the receipts still queued.
PumpEnds(i) ==
  /\ i \in running
  /\ running' = running \ {i}
  /\ acks' = [acks EXCEPT ![i] = {}]
  /\ pos' = [pos EXCEPT ![i] = 0]
  /\ UNCHANGED <<params, stream, opened, frames, healVars, readVars,
                 appVars, stored>>

-----------------------------------------------------------------------------
(* Handling a message.                                                       *)

\* send_ack_frame: without a stream, or with one whose pump has ended, the
\* receipt is dropped.
SendAckFrame(m) ==
  acks' = IF stream \in running
          THEN [acks EXCEPT ![stream] = @ \cup {m}] ELSE acks

\* The engine is through with m without having read it.
GiveUp(m) ==
  /\ failed' = failed \cup (({m} \cap Msgs) \ given)
  /\ UNCHANGED <<acks, done, session, saved, given>>

\* The core's key for m is used up, and the app gets the message.
Read(m) ==
  /\ done' = done \cup {m}
  /\ given' = given \cup {m}
  /\ failed' = failed \ {m}

\* SaveKeychain of the core's whole state as it is now; a failed export saves
\* nothing, and is not noticed.
Save == \/ saved' = InMemory'
        \/ "export" \in Faults /\ UNCHANGED saved

\* The session init in front of m from the same sender, 0 if before the log.
InitOf(m) ==
  LET before == {n \in Firsts : n < m /\ Sender[n] = Sender[m]}
  IN IF before = {} THEN 0
     ELSE CHOOSE n \in before : \A k \in before : k <= n

\* decrypt_bytes_for succeeds (external): the session m belongs to is live
\* and the key of m has not been used.
Readable(m) == m \notin done /\ session[Sender[m]] = InitOf(m)

\* handle_decrypt_message: a failure is logged, and that is all.
DecryptMessage(m) ==
  /\ \/ /\ Readable(m)
        /\ Read(m)
        /\ UNCHANGED session
        /\ Save
        /\ SendAckFrame(m)
     \/ /\ ~Readable(m) \/ "core" \in Faults
        /\ GiveUp(m)
  /\ UNCHANGED healVars

\* Changed form: a message of a batch is acknowledged as it is read.
DecryptInBatchAcked(m) ==
  /\ \/ /\ Readable(m)
        /\ Read(m)
        /\ SendAckFrame(m)
        /\ UNCHANGED <<session, saved>>
     \/ /\ ~Readable(m) \/ "core" \in Faults
        /\ GiveUp(m)
  /\ UNCHANGED healVars

\* A message of a background batch is shown, but neither saved nor
\* acknowledged.
DecryptInBatch(m) ==
  /\ \/ /\ Readable(m)
        /\ Read(m)
        /\ UNCHANGED <<acks, session, saved>>
     \/ /\ ~Readable(m) \/ "core" \in Faults
        /\ GiveUp(m)
  /\ UNCHANGED healVars

\* Changed form: the app is not told.
BundleFailsSilently(m) ==
  /\ "fetch" \in Faults
  /\ GiveUp(m)
  /\ UNCHANGED healVars

\* Early returns of handle_session_init_responder before any key is used.
BundleFails(m) ==
  /\ "fetch" \in Faults
  /\ told' = told \cup {Sender[m]}
  /\ GiveUp(m)
  /\ UNCHANGED <<timers, heal>>

\* init_receiving_session_with_msg succeeds; a replay is refused, its keys are
\* used up (external).
SessionEstablished(m) ==
  /\ m \notin done
  /\ Read(m)
  /\ session' = [session EXCEPT ![Sender[m]] = m]
  /\ Save
  /\ heal' = [heal EXCEPT ![Sender[m]] = 0]
  /\ SendAckFrame(m)
  /\ UNCHANGED <<timers, told>>

InitFails(m) == m \in done \/ "x3dh" \in Faults

\* Changed form: one attempt too many.
RetryOnceMore(m) ==
  /\ InitFails(m)
  /\ heal[Sender[m]] + 1 <= MaxAttempts
  /\ heal' = [heal EXCEPT ![Sender[m]] = @ + 1]
  /\ timers' = [timers EXCEPT ![m] = @ + 1]
  /\ told' = told \ {Sender[m]}
  /\ UNCHANGED <<acks, readVars>>

\* Changed form: the payload is put back without recording the attempt.
RetryUncounted(m) ==
  /\ InitFails(m)
  /\ timers' = [timers EXCEPT ![m] = @ + 1]
  /\ UNCHANGED <<acks, readVars, heal, told>>

\* enqueue_heal and record_heal_attempt answer RetryAllowed: the same payload
\* will come through the frame queue again.
RetryAllowed(m) ==
  /\ InitFails(m)
  /\ heal[Sender[m]] + 1 < MaxAttempts
  /\ heal' = [heal EXCEPT ![Sender[m]] = @ + 1]
  /\ timers' = [timers EXCEPT ![m] = @ + 1]
  /\ told' = told \ {Sender[m]}
  /\ UNCHANGED <<acks, readVars>>

\* MaxAttemptsReached, or NotFound for want of a core: the record is cleared
\* and the app is asked to start over.
MaxAttemptsReached(m) ==
  /\ \/ InitFails(m) /\ heal[Sender[m]] + 1 >= MaxAttempts
     \/ "core" \in Faults
  /\ heal' = [heal EXCEPT ![Sender[m]] = 0]
  /\ told' = told \cup {Sender[m]}
  /\ GiveUp(m)
  /\ UNCHANGED timers

\* handle_session_init_responder
SessionInitResponder(m) ==
  \/ BundleFails(m)
  \/ SessionEstablished(m)
  \/ RetryAllowed(m)
  \/ MaxAttemptsReached(m)

\* handle_incoming_envelope drops what it cannot route; a retried envelope was
\* routed before.
DropEnvelope(f) ==
  /\ "empty" \in Faults /\ f.cursor # 0
  /\ GiveUp(f.msg)
  /\ UNCHANGED healVars

\* handle_incoming_envelope
IncomingEnvelope(m) ==
  IF m \in Firsts THEN SessionInitResponder(m) ELSE DecryptMessage(m)

\* A frame's cursor is stored before its message is handled; a retried frame
\* carries none, and without parameters there is nowhere to store it.
AdvanceCursor(f) == IF params = None \/ f.cursor = 0 THEN params ELSE f.cursor

\* handle_incoming_frame: a frame that does not decode is dropped before its
\* cursor is looked at.
BadFrame(f) ==
  /\ "garble" \in Faults /\ f.cursor # 0
  /\ GiveUp(f.msg)
  /\ UNCHANGED <<params, healVars>>

HandleFrame ==
  /\ ~batch
  /\ frames # <<>>
  /\ frames' = Tail(frames)
  /\ LET f == Head(frames) IN
       \/ BadFrame(f)
       \/ /\ params' = AdvanceCursor(f)
          /\ \/ f.msg = 0 /\ UNCHANGED <<acks, healVars, readVars>>
             \/ f.msg # 0 /\ (IncomingEnvelope(f.msg) \/ DropEnvelope(f))
  /\ UNCHANGED <<streamVars, appVars, stored>>

\* Changed form: the task ends without putting the frame back.
RetryForgotten(m) ==
  /\ timers[m] > 0
  /\ timers' = [timers EXCEPT ![m] = @ - 1]
  /\ UNCHANGED <<params, streamVars, acks, frames, heal, told, readVars,
                 appVars, stored>>

\* The task spawned for a retry wakes up and puts the frame into the queue.
RetryTimer(m) ==
  /\ timers[m] > 0
  /\ timers' = [timers EXCEPT ![m] = @ - 1]
  /\ frames' = Append(frames, Retried(m))
  /\ UNCHANGED <<params, streamVars, acks, heal, told, readVars,
                 appVars, stored>>

\* One message of handle_background_push, fetched by a unary call.
BackgroundPush(m) ==
  /\ m \in stored
  /\ Room(m)
  /\ batch' = TRUE
  /\ IF m \in Firsts THEN SessionInitResponder(m) ELSE DecryptInBatch(m)
  /\ UNCHANGED <<params, streamVars, frames, byApp, stored>>

\* The batch, if any, is at its end, or GetPendingMessages failed.
BatchEnds ==
  /\ batch' = FALSE
  /\ UNCHANGED <<done, session, given, failed>>
  /\ Save
  /\ UNCHANGED <<params, streamVars, acks, frames, healVars, byApp, stored>>

\* handle_ack_message, for a message the app was given: nothing is looked up.
\* A second receipt changes nothing and is left out.
AckMessage(m) ==
  /\ ~batch
  /\ m \in given \cap stored
  /\ \A i \in running : m \notin acks[i]
  /\ SendAckFrame(m)
  /\ byApp' = byApp \cup ({m} \ saved.done)
  /\ UNCHANGED <<params, streamVars, frames, healVars, readVars, batch, stored>>

-----------------------------------------------------------------------------
\* Changed form: the cursor outlives the process, the frame queue does not.
RestartWithCursor ==
  /\ stream' = 0 /\ opened' = 0 /\ running' = {}
  /\ pos' = [i \in Streams |-> 0] /\ acks' = [i \in Streams |-> {}]
  /\ frames' = <<>>
  /\ timers' = [m \in Msgs |-> 0] /\ heal' = [c \in Contacts |-> 0]
  /\ told' = {} /\ batch' = FALSE
  /\ done' = saved.done /\ session' = saved.session
  /\ UNCHANGED <<params, saved, given, failed, byApp, stored>>

\* The process is killed and started again: only the Keychain is left.
Restart ==
  /\ params' = None /\ stream' = 0 /\ opened' = 0 /\ running' = {}
  /\ pos' = [i \in Streams |-> 0] /\ acks' = [i \in Streams |-> {}]
  /\ frames' = <<>>
  /\ timers' = [m \in Msgs |-> 0] /\ heal' = [c \in Contacts |-> 0]
  /\ told' = {} /\ batch' = FALSE
  /\ done' = saved.done /\ session' = saved.session
  /\ UNCHANGED <<saved, given, failed, byApp, stored>>

\* What else keeps the loop busy: it takes frames last (select! is biased).
OtherWork == OpenMessageStream \/ ReopenStream \/ Reconnect
             \/ CloseMessageStream
             \/ \E m \in Msgs : BackgroundPush(m) \/ AckMessage(m)

Loop == OtherWork \/ BatchEnds \/ HandleFrame

Next ==
  \/ Loop
  \/ \E i \in Streams : PumpDelivers(i) \/ PumpDeliversOther(i)
                         \/ PumpSends(i) \/ PumpEnds(i)
  \/ \E m \in Msgs : RetryTimer(m)
  \/ Restart

\* tokio runs what can run: the timers fire, a handler comes to its end unless
\* one of its calls never returns, and a loop with nothing else to do takes the
\* next frame.
Fairness ==
  /\ \A m \in Msgs : WF_vars(RetryTimer(m))
  /\ "hang" \notin Faults => WF_vars(BatchEnds) /\ WF_vars(HandleFrame)

Spec == Init /\ [][Next]_vars /\ Fairness

-----------------------------------------------------------------------------
(* Properties.                                                               *)

Queued(m) == \E k \in DOMAIN frames : frames[k].msg = m
Retrying(m) == timers[m] > 0
InFlight(m) == Queued(m) \/ Retrying(m)

\* A retry of m sleeps or waits in the queue.
RetryUnderWay(m) ==
  Retrying(m) \/ \E k \in DOMAIN frames : frames[k] = Retried(m)

\* Resuming at the cursor skips no message that the app was not given and that
\* its handler did not give up, unless it is in the engine's own queue or
\* timers: however streams overlap, frames of old ones arrive late and retries
\* fail (handle_incoming_frame, engine.rs:1685).
NoGap == \A m \in 1..Cursor : m \in given \cup failed \/ InFlight(m)

\* The comment at engine.rs:1685 taken at its word: what the cursor has passed
\* was read, or still will be.
ResumesWithoutGaps == \A m \in 1..Cursor : m \in given \/ InFlight(m)

\* The server deletes a message only if the Keychain holds the state that read
\* it, over every crash and over whichever stream the receipt went; the app
\* alone may acknowledge one that a background push gave it and a crash took
\* back from the core ("crash-safety before ACK", engine.rs:2006).
AckedOnlyRead ==
  \A m \in Msgs : m \notin stored => m \in saved.done \cup byApp

\* While a healing record is open, a retry is on its way or the app has been
\* told of the failure: healing is never silently abandoned (engine.rs:1917).
HealingAttended ==
  \A c \in Contacts : heal[c] > 0 =>
    c \in told \/ \E m \in Firsts : Sender[m] = c /\ RetryUnderWay(m)

\* Retries end: once the loop has nothing else to do for good, no message stays
\* in the queue and the timers for ever, whatever fails.
OtherWorkEnds == <>[][~OtherWork]_vars
InFlightEnds == OtherWorkEnds => \A m \in Msgs : InFlight(m) ~> ~InFlight(m)

\* Delivery implements the resumable feed.
Feed == INSTANCE ResumableFeed WITH
          position <- Cursor, held <- {m \in Msgs : InFlight(m)},
          read <- given, givenUp <- failed, acked <- Msgs \ stored
ImplementsFeed == Feed!Spec
=============================================================================
