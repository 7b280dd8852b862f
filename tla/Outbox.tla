-------------------------------- MODULE Outbox --------------------------------
(* Outgoing messages, from the app to the server: the life of the engine and *)
(* of its event loop, the bounded queue of app events, the bounded queue of  *)
(* frames of a stream, its pump and the server (src/src/engine.rs,           *)
(* transport/stream.rs).                                                     *)
(*                                                                           *)
(* The app, the loop, the pumps and the server run concurrently.  Frames     *)
(* that carry no message only take room and are left out.                    *)
EXTENDS Naturals, Sequences

CONSTANTS
  Msgs,         \* the app's outgoing messages, by local_id
  Other,        \* any event that is not a SendMessage
  Buffer,       \* EngineConfig.event_buffer
  Depth,        \* OUTGOING_CHANNEL_DEPTH
  MaxStreams,   \* bound: streams opened
  Faults        \* which faults the run allows, see below

(* "spawn"      the thread of the loop cannot be spawned                     *)
(* "transport"  Transport::new fails                                         *)
(* "encrypt"    a message cannot be encrypted                                *)
(* "stall"      a live server may stop reading a stream                      *)
(* "hang"       a handler or a reconnect may wait for ever (no call has a    *)
(*              time limit, ensure_connected tries for ever)                 *)
ASSUME OutboxAssumption ==
  /\ Other \notin Msgs
  /\ Buffer \in Nat \ {0} /\ Depth \in Nat \ {0} /\ MaxStreams \in Nat

VARIABLES
  life,      \* of the engine: see Lives
  asked,     \* shutdown has been called
  busy,      \* the loop is in a handler other than handle_send_message, or
             \* connects
  queue,     \* dispatch_tx/rx
  item,      \* messages waiting in send_frame: one, or none
  stream,    \* ConstructEngine.stream: number of the handle's stream, or 0
  opened,    \* how many streams have been opened
  running,   \* streams whose pump has not ended; others have no receiver
  out,       \* out[i]: frame_tx/frame_rx of the handle of stream i
  writing,   \* writing[i]: the frame its pump is in send_data with, or none
  wire,      \* wire[i]: written, not received yet
  received,  \* received[i]: what the server has received on stream i
  status,    \* status[m]: what the app knows of m
  handed     \* history: handed[i]: what the loop put into out[i]

lifeVars == <<life, asked, busy>>
streamVars == <<stream, opened>>
pumpVars == <<running, out, writing, wire, received>>
vars == <<lifeVars, queue, item, streamVars, pumpVars, status, handed>>

Streams == 1..MaxStreams

\* "new": not started; "starting": the thread runs, Transport::new has not
\* returned; "running": in the loop; "ended", "unspawned": without a loop for
\* good, since the runtime was taken out of its mutex.
Lives == {"new", "starting", "running", "ended", "unspawned"}

\* "fresh": not dispatched; "pending": dispatched; the others are what
\* UpdateMessageStatus said.
Statuses == {"fresh", "pending", "SENT", "FAILED"}

TypeOK ==
  /\ life \in Lives /\ asked \in BOOLEAN /\ busy \in BOOLEAN
  /\ queue \in Seq(Msgs \cup {Other}) /\ Len(queue) <= Buffer
  /\ item \in Seq(Msgs) /\ Len(item) <= 1
  /\ opened \in 0..MaxStreams /\ stream \in 0..opened
  /\ running \subseteq 1..opened
  /\ out \in [Streams -> Seq(Msgs)]
  /\ \A i \in Streams : Len(out[i]) <= Depth
  /\ writing \in [Streams -> Seq(Msgs)]
  /\ \A i \in Streams : Len(writing[i]) <= 1
  /\ wire \in [Streams -> Seq(Msgs)] /\ received \in [Streams -> Seq(Msgs)]
  /\ handed \in [Streams -> Seq(Msgs)]
  /\ status \in [Msgs -> Statuses]

Init ==
  /\ life = "new" /\ asked = FALSE /\ busy = FALSE
  /\ queue = <<>> /\ item = <<>>
  /\ stream = 0 /\ opened = 0 /\ running = {}
  /\ out = [i \in Streams |-> <<>>] /\ writing = [i \in Streams |-> <<>>]
  /\ wire = [i \in Streams |-> <<>>] /\ received = [i \in Streams |-> <<>>]
  /\ handed = [i \in Streams |-> <<>>]
  /\ status = [m \in Msgs |-> "fresh"]

-----------------------------------------------------------------------------
(* Calls of the app, from any of its threads and from callbacks.             *)

\* start: the runtime leaves its mutex, whether or not the thread can be
\* spawned; every later call answers AlreadyRunning and does nothing.  A
\* closure that is not run drops the receiver.
Start ==
  /\ life = "new"
  /\ \/ life' = "starting" /\ UNCHANGED queue
     \/ /\ "spawn" \in Faults
        /\ life' = "unspawned"
        /\ queue' = <<>>
  /\ UNCHANGED <<asked, busy, item, streamVars, pumpVars, status, handed>>

\* try_send: the event is dropped, with a warning in the log, when the queue
\* is full or has no receiver any more.
TrySend(e) ==
  queue' = IF Len(queue) < Buffer /\ life \notin {"ended", "unspawned"}
           THEN Append(queue, e) ELSE queue

\* dispatch(SendMessage): a new message, or one the engine reported as failed.
DispatchMessage(m) ==
  /\ status[m] \in {"fresh", "FAILED"}
  /\ TrySend(m)
  /\ status' = [status EXCEPT ![m] = "pending"]
  /\ UNCHANGED <<lifeVars, item, streamVars, pumpVars, handed>>

\* dispatch of any other event
DispatchOther ==
  /\ TrySend(Other)
  /\ UNCHANGED <<lifeVars, item, streamVars, pumpVars, status, handed>>

\* shutdown writes to the log.
Shutdown ==
  /\ asked' = TRUE
  /\ UNCHANGED <<life, busy, queue, item, streamVars, pumpVars, status, handed>>

-----------------------------------------------------------------------------
(* The loop.                                                                 *)

\* Transport::new, and if it succeeds the first ensure_connected.
EnterLoop ==
  /\ life = "starting"
  /\ \/ life' = "running" /\ busy' = TRUE /\ UNCHANGED queue
     \/ /\ "transport" \in Faults
        /\ life' = "ended"
        /\ queue' = <<>>
        /\ UNCHANGED busy
  /\ UNCHANGED <<asked, item, streamVars, pumpVars, status, handed>>

\* The loop is at its select!.
Idle == life = "running" /\ ~busy /\ item = <<>>

\* An event of the app that is not a SendMessage: its handler runs.
HandleOther ==
  /\ Idle /\ queue # <<>> /\ Head(queue) = Other
  /\ queue' = Tail(queue)
  /\ busy' = TRUE
  /\ UNCHANGED <<life, asked, item, streamVars, pumpVars, status, handed>>

\* The timer's refresh, or a frame from the server.
OwnWork ==
  /\ Idle
  /\ busy' = TRUE
  /\ UNCHANGED <<life, asked, queue, item, streamVars, pumpVars, status, handed>>

\* The loop has seen `false` on connected: it drops the handle and connects.
Reconnect ==
  /\ Idle
  /\ busy' = TRUE
  /\ stream' = 0
  /\ UNCHANGED <<life, asked, queue, item, opened, pumpVars, status, handed>>

\* The handle is replaced or dropped, or stays.
ChangeStream ==
  \/ UNCHANGED <<streamVars, running>>
  \/ stream' = 0 /\ UNCHANGED <<opened, running>>
  \/ /\ opened < MaxStreams
     /\ opened' = opened + 1
     /\ stream' = opened + 1
     /\ running' = running \cup {opened + 1}

\* The handler is at its end, or the connection is there: it has opened the
\* stream, closed it, or left it alone.
HandlerReturns ==
  /\ busy
  /\ busy' = FALSE
  /\ ChangeStream
  /\ UNCHANGED <<life, asked, queue, item, out, writing, wire, received, status,
                 handed>>

\* Changed form: SENT is reported before the frame is enqueued.
SendMessageReportedEarly ==
  /\ Idle /\ queue # <<>> /\ Head(queue) # Other
  /\ queue' = Tail(queue)
  /\ item' = IF stream # 0 THEN <<Head(queue)>> ELSE <<>>
  /\ status' = [status EXCEPT ![Head(queue)] =
                  IF stream # 0 THEN "SENT" ELSE "FAILED"]
  /\ UNCHANGED <<lifeVars, streamVars, pumpVars, handed>>

\* handle_send_message up to the enqueueing
SendMessage ==
  /\ Idle /\ queue # <<>> /\ Head(queue) # Other
  /\ queue' = Tail(queue)
  /\ LET m == Head(queue) IN
       \/ /\ stream # 0
          /\ item' = <<m>>
          /\ UNCHANGED status
       \/ /\ stream = 0 \/ "encrypt" \in Faults
          /\ status' = [status EXCEPT ![m] = "FAILED"]
          /\ UNCHANGED item
  /\ UNCHANGED <<lifeVars, streamVars, pumpVars, handed>>

\* Changed form: the wait for room is cut short, but the frame is kept.
FrameEnqueuedImpatiently ==
  /\ item # <<>> /\ stream \in running
  /\ out' = [out EXCEPT ![stream] = @ \o item]
  /\ handed' = [handed EXCEPT ![stream] = @ \o item]
  /\ status' = [status EXCEPT ![Head(item)] =
                  IF Len(out[stream]) < Depth THEN "SENT" ELSE "FAILED"]
  /\ item' = <<>>
  /\ UNCHANGED <<lifeVars, queue, streamVars, running, writing, wire, received>>

\* Changed form: no waiting for room.
FrameEnqueuedUnbounded ==
  /\ item # <<>> /\ stream \in running
  /\ out' = [out EXCEPT ![stream] = @ \o item]
  /\ handed' = [handed EXCEPT ![stream] = @ \o item]
  /\ status' = [status EXCEPT ![Head(item)] = "SENT"]
  /\ item' = <<>>
  /\ UNCHANGED <<lifeVars, queue, streamVars, running, writing, wire, received>>

\* send_frame returns when the queue has room.
FrameEnqueued ==
  /\ item # <<>> /\ stream \in running /\ Len(out[stream]) < Depth
  /\ out' = [out EXCEPT ![stream] = @ \o item]
  /\ handed' = [handed EXCEPT ![stream] = @ \o item]
  /\ status' = [status EXCEPT ![Head(item)] = "SENT"]
  /\ item' = <<>>
  /\ UNCHANGED <<lifeVars, queue, streamVars, running, writing, wire, received>>

\* Changed form: the error is only logged.
FrameRefusedSilently ==
  /\ item # <<>> /\ stream \notin running
  /\ item' = <<>>
  /\ UNCHANGED <<lifeVars, queue, streamVars, pumpVars, status, handed>>

\* send_frame returns an error when the pump has ended, also while it waits.
FrameRefused ==
  /\ item # <<>> /\ stream \notin running
  /\ status' = [status EXCEPT ![Head(item)] = "FAILED"]
  /\ item' = <<>>
  /\ UNCHANGED <<lifeVars, queue, streamVars, pumpVars, handed>>

-----------------------------------------------------------------------------
(* The pump, the connection and the server.                                  *)

\* pump_task, phase 1: try_recv, then send_data, which may wait.
PumpTakes(i) ==
  /\ i \in running /\ writing[i] = <<>> /\ out[i] # <<>>
  /\ writing' = [writing EXCEPT ![i] = <<Head(out[i])>>]
  /\ out' = [out EXCEPT ![i] = Tail(@)]
  /\ UNCHANGED <<lifeVars, queue, item, streamVars, running, wire, received,
                 status, handed>>

PumpWrites(i) ==
  /\ i \in running /\ writing[i] # <<>>
  /\ wire' = [wire EXCEPT ![i] = @ \o writing[i]]
  /\ writing' = [writing EXCEPT ![i] = <<>>]
  /\ UNCHANGED <<lifeVars, queue, item, streamVars, running, out, received,
                 status, handed>>

\* Changed form: after an error of send_data the pump goes on.
PumpSkips(i) ==
  /\ i \in running
  /\ writing' = [writing EXCEPT ![i] = <<>>]
  /\ UNCHANGED <<lifeVars, queue, item, streamVars, running, out, wire,
                 received, status, handed>>

\* The pump ends: send_data or recv_data fails, the server ends the stream, or
\* the handle was dropped.  Its receiver goes with what is queued; the frame it
\* was writing may be complete.
PumpEnds(i) ==
  /\ i \in running
  /\ running' = running \ {i}
  /\ wire' \in {wire, [wire EXCEPT ![i] = @ \o writing[i]]}
  /\ writing' = [writing EXCEPT ![i] = <<>>]
  /\ out' = [out EXCEPT ![i] = <<>>]
  /\ UNCHANGED <<lifeVars, queue, item, streamVars, received, status, handed>>

\* The server reads a stream in order (external).
ServerReceives(i) ==
  /\ wire[i] # <<>>
  /\ received' = [received EXCEPT ![i] = Append(@, Head(wire[i]))]
  /\ wire' = [wire EXCEPT ![i] = Tail(@)]
  /\ UNCHANGED <<lifeVars, queue, item, streamVars, running, out, writing,
                 status, handed>>

\* What was written on a stream that has ended may be lost (external).
WireLost(i) ==
  /\ i \notin running /\ wire[i] # <<>>
  /\ wire' = [wire EXCEPT ![i] = <<>>]
  /\ UNCHANGED <<lifeVars, queue, item, streamVars, running, out, writing,
                 received, status, handed>>

App == Start \/ DispatchOther \/ Shutdown \/ \E m \in Msgs : DispatchMessage(m)
Loop == EnterLoop \/ HandleOther \/ OwnWork \/ Reconnect \/ HandlerReturns
        \/ SendMessage \/ FrameEnqueued \/ FrameRefused
Stream(i) == PumpTakes(i) \/ PumpWrites(i) \/ PumpEnds(i) \/ ServerReceives(i)
             \/ WireLost(i)

Next == App \/ Loop \/ \E i \in Streams : Stream(i)

\* The loop's select! is biased: a reconnect comes before an event of the app,
\* and reconnects may follow each other for ever.
EndlessReconnects == []<><<Reconnect>>_vars

\* Of the other branches, the timer does not fire twice in a row (it is set to
\* ten seconds at least), and frames come after events: without endless
\* reconnects an event that waits is taken.
Events == EndlessReconnects \/ (SF_vars(HandleOther) /\ SF_vars(SendMessage))

\* tokio runs what can run.  A handler comes to its end unless one of its calls
\* never does; a server that reads lets send_data return.
Fairness ==
  /\ Events
  /\ "hang" \notin Faults => WF_vars(HandlerReturns)
  /\ WF_vars(FrameEnqueued) /\ WF_vars(FrameRefused)
  /\ \A i \in Streams :
       /\ WF_vars(PumpTakes(i))
       /\ "stall" \notin Faults => WF_vars(PumpWrites(i))

Spec == Init /\ [][Next]_vars /\ Fairness

-----------------------------------------------------------------------------
(* Properties.                                                               *)

\* The app may repeat what was reported FAILED, and only that: the server then
\* receives no message twice, over whichever streams, although send_frame waits
\* while pumps end and handles are replaced (handle_send_message).
AtMostOnce ==
  \A i, j \in Streams :
    \A k \in DOMAIN received[i], l \in DOMAIN received[j] :
      received[i][k] = received[j][l] => i = j /\ k = l

\* Where the frames of stream i are, the oldest first.
Pipeline(i) == received[i] \o wire[i] \o writing[i] \o out[i]

\* s is what t begins with.
Begins(s, t) == Len(s) <= Len(t) /\ \A k \in DOMAIN s : s[k] = t[k]

\* A message that was reported SENT is lost only with its stream, and then all
\* that follows on the stream is: no message, not a session init either, is
\* missing among others that arrived (send_frame, pump_task).
NoHole ==
  \A i \in Streams :
    /\ i \in running => Pipeline(i) = handed[i]
    /\ Begins(received[i], handed[i])

\* The engine as the courier of the app's messages: what is in send_frame or in
\* the queue has been accepted; what a stream owes is in its queue, with its pump
\* or on the wire.
Phase == CASE life \in {"new", "starting"} -> "starting"
           [] life = "running" -> "serving"
           [] OTHER -> "over"
Requests == item \o queue
Owed == [i \in Streams |-> wire[i] \o writing[i] \o out[i]]
Broken == {i \in Streams : i <= opened /\ i \notin running}

Service == INSTANCE Courier WITH
  phase <- Phase, accepted <- Requests, owed <- Owed, got <- received,
  broken <- Broken

\* Whatever fails once the loop runs: messages are answered in the order of their
\* dispatch, none that was accepted is forgotten, SENT is reported of a message
\* exactly when a stream takes it, and streams deliver in order and lose only
\* ends (event_loop, handle_send_message, send_frame, pump_task).
ImplementsCourier == Service!Spec

\* Unless the loop reconnects for ever, every message it has accepted is
\* answered, with SENT or FAILED, however full the queues are and whichever
\* streams end (event_loop, handle_send_message).
Accepted(m) == \E k \in DOMAIN queue : queue[k] = m
AcceptedAnswered ==
  EndlessReconnects \/
    \A m \in Msgs :
      Accepted(m) /\ life = "running" ~> status[m] \in {"SENT", "FAILED"}

\* "Fires UpdateMessageStatus on send/failure" (events.rs:85).
SendAnswered ==
  \A m \in Msgs :
    status[m] = "pending" /\ life = "running" ~> status[m] \in {"SENT", "FAILED"}

\* "which causes event_loop to exit" (engine.rs:187)
ShutdownEndsLoop == asked /\ life = "running" ~> life = "ended"
=============================================================================
