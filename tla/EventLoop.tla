------------------------------ MODULE EventLoop ------------------------------
(* How the event loop keeps the H3 connection and the MessageStream alive    *)
(* (src/src/engine.rs, src/src/transport/mod.rs, src/src/transport/          *)
(* stream.rs).                                                               *)
(*                                                                           *)
(* Three kinds of task run concurrently: the event loop, which runs one      *)
(* handler at a time; one driver per connection, which on exit publishes     *)
(* `false` on the watch channel `connected`; and the pump of the stream,     *)
(* which reports its exit to nobody.  A watch channel keeps only its latest  *)
(* value: what the loop has not looked at is overwritten.                    *)
EXTENDS Naturals, FiniteSets

CONSTANTS
  Conns,       \* identities of connections, used again once forgotten
  None,        \* Rust's None
  Causes,      \* what may go wrong besides the loss of a connection
  MaxCalls,    \* bound: unary calls of one handler
  MaxFaults    \* bound: faults of the network or the server

(* "call"    handlers make unary calls, which may fail and reconnect on      *)
(*           their own                                                       *)
(* "early"   a connection may be lost before connect_h3 has announced it     *)
(* "server"  the server may end or refuse a stream on a live connection      *)
(* "close"   the app may close the stream                                    *)
ASSUME CausesAssumption == Causes \subseteq {"call", "early", "server", "close"}
ASSUME NoneAssumption == None \notin Conns
ASSUME BoundsAssumption == MaxCalls \in Nat \ {0} /\ MaxFaults \in Nat

VARIABLES
  pc,          \* what the event loop is doing; "idle" is its select!
  then,        \* what it does after a connection is announced
  calls,       \* unary calls the running handler has still to make
  h3,          \* Transport.h3: the connection calls go through, or None
  drivers,     \* the connections whose driver task runs
  up,          \* the connections that can carry data
  watch,       \* the value of the watch channel `connected`
  unseen,      \* connected_rx.changed() would return at once
  stream,      \* ConstructEngine.stream: the handle's connection, or None
  pump,        \* the pump task behind that handle runs
  params,      \* stream_params is Some
  wanted,      \* history: the app has opened the stream and not closed it
  faults

handler == <<pc, then, calls>>
channel == <<watch, unseen>>
tasks == <<drivers, up>>
handle == <<stream, pump>>
subscription == <<params, wanted>>
vars == <<handler, h3, tasks, channel, handle, subscription, faults>>

CountersOK == calls \in 0..MaxCalls /\ faults \in 0..MaxFaults

StateOK ==
  /\ pc \in {"idle", "connect", "signal", "call", "open"}
  /\ then \in {"idle", "call", "open"}
  /\ h3 \in Conns \cup {None}
  /\ drivers \subseteq Conns /\ up \subseteq drivers
  /\ watch \in BOOLEAN /\ unseen \in BOOLEAN
  /\ stream \in Conns \cup {None} /\ pump \in BOOLEAN
  /\ params \in BOOLEAN /\ wanted \in BOOLEAN

TypeOK == CountersOK /\ StateOK

Init ==
  /\ pc = "connect" /\ then = "idle" /\ calls = 0
  /\ h3 = None /\ drivers = {} /\ up = {}
  /\ watch = FALSE /\ unseen = FALSE
  /\ stream = None /\ pump = FALSE
  /\ params = FALSE /\ wanted = FALSE
  /\ faults = 0

\* The network or the server does something a client must expect.
Fault == faults < MaxFaults /\ faults' = faults + 1

\* tokio::sync::watch::Sender::send(v)
Send(v) == watch' = v /\ unseen' = TRUE

\* A part of a handler is done and n unary calls of it are left.
Proceed(n) == calls' = n /\ pc' = IF n > 0 THEN "call" ELSE "idle"

-----------------------------------------------------------------------------
(* connect_h3                                                                *)

\* Up to the spawn of the driver and the replacement of the old H3State, whose
\* driver is thereby detached, not stopped.
Install(next) ==
  \E i \in Conns \ (drivers \cup {h3, stream}) :
     /\ h3' = i
     /\ drivers' = drivers \cup {i} /\ up' = up \cup {i}
     /\ pc' = "signal" /\ then' = next
     /\ UNCHANGED <<calls, channel, handle, subscription, faults>>

\* Changed form: success is not announced, the channel still says false.
AnnounceNothing ==
  /\ pc = "signal"
  /\ pc' = then
  /\ UNCHANGED <<then, calls, h3, tasks, channel, handle, subscription, faults>>

\* connected_tx.send(true), the end of connect_h3.
Announce ==
  /\ pc = "signal"
  /\ Send(TRUE)
  /\ pc' = then
  /\ UNCHANGED <<then, calls, h3, tasks, handle, subscription, faults>>

\* One attempt of ensure_connected, which tries until it succeeds.
Reconnect == pc = "connect" /\ Install(then)

ReconnectFails ==
  /\ pc = "connect"
  /\ Fault
  /\ UNCHANGED <<handler, h3, tasks, channel, handle, subscription>>

\* ensure_h3 at the start of a unary call or of opening a stream.
EnsureH3 == pc \in {"call", "open"} /\ h3 = None /\ Install(pc)

\* It tries once; then the call, or the opening, has failed.
EnsureH3Fails ==
  /\ pc \in {"call", "open"} /\ h3 = None
  /\ Fault
  /\ \E n \in IF pc = "call" THEN {0, calls - 1} ELSE {calls} : Proceed(n)
  /\ UNCHANGED <<then, h3, tasks, channel, handle, subscription>>

-----------------------------------------------------------------------------
(* The select! of the event loop, biased: a change of `connected` goes       *)
(* before the app's events                                                   *)

\* Changed form: after a reconnect the stream is left to the app.
ConnectedChangedNoReopen ==
  /\ pc = "idle" /\ unseen
  /\ unseen' = FALSE
  /\ IF watch THEN UNCHANGED <<pc, then, handle>>
     ELSE /\ stream' = None /\ pump' = FALSE
          /\ pc' = "connect" /\ then' = "idle"
  /\ UNCHANGED <<calls, h3, tasks, watch, subscription, faults>>

\* Changed form: the value is read without being marked as seen.
ConnectedChangedUnmarked ==
  /\ pc = "idle" /\ unseen
  /\ IF watch THEN UNCHANGED <<pc, then, handle>>
     ELSE /\ stream' = None /\ pump' = FALSE
          /\ pc' = "connect" /\ then' = IF params THEN "open" ELSE "idle"
  /\ UNCHANGED <<calls, h3, tasks, channel, subscription, faults>>

\* connected_rx.changed(): if the value is false, drop the stream, reconnect,
\* then open the stream again if its parameters are stored.
ConnectedChanged ==
  /\ pc = "idle" /\ unseen
  /\ unseen' = FALSE
  /\ IF watch THEN UNCHANGED <<pc, then, handle>>
     ELSE /\ stream' = None /\ pump' = FALSE
          /\ pc' = "connect" /\ then' = IF params THEN "open" ELSE "idle"
  /\ UNCHANGED <<calls, h3, tasks, watch, subscription, faults>>

\* An event of the app can be taken.
Accepting == pc = "idle" /\ ~unseen

\* handle_open_stream stores the parameters before it tries.
OpenMessageStream ==
  /\ Accepting
  /\ pc' = "open" /\ params' = TRUE /\ wanted' = TRUE
  /\ UNCHANGED <<then, calls, h3, tasks, channel, handle, faults>>

\* Opening succeeds: the new handle replaces the old one, whose pump aborts.
OpenSucceeds ==
  /\ pc = "open" /\ h3 \in up
  /\ stream' = h3 /\ pump' = TRUE
  /\ Proceed(calls)
  /\ UNCHANGED <<then, h3, tasks, channel, subscription, faults>>

\* It fails: StreamError; neither the old handle nor the connection changes.
OpenFails ==
  /\ pc = "open" /\ h3 # None
  /\ \/ h3 \notin up /\ UNCHANGED faults
     \/ "server" \in Causes /\ Fault
  /\ Proceed(calls)
  /\ UNCHANGED <<then, h3, tasks, channel, handle, subscription>>

\* handle_close_stream drops the handle and keeps stream_params.
CloseMessageStream ==
  /\ "close" \in Causes /\ Accepting
  /\ stream' = None /\ pump' = FALSE /\ wanted' = FALSE
  /\ UNCHANGED <<handler, h3, tasks, channel, params, faults>>

\* Any handler that makes unary calls: registration, login, refresh, logout,
\* keys, session set-up (also for an incoming frame), background fetch,
\* search, push token.
StartCalls ==
  /\ "call" \in Causes /\ Accepting
  /\ \E n \in 1..MaxCalls : Proceed(n)
  /\ UNCHANGED <<then, h3, tasks, channel, handle, subscription, faults>>

\* A call returns; after the call that brings tokens the stream is opened
\* again if its parameters are stored (reopen_stream_if_needed).
CallReturns ==
  /\ pc = "call" /\ h3 \in up
  /\ \/ Proceed(calls - 1)
     \/ params /\ pc' = "open" /\ calls' = calls - 1
  /\ UNCHANGED <<then, h3, tasks, channel, handle, subscription, faults>>

\* A call fails with a transport error: the H3State is dropped.  Most handlers
\* end, a background batch goes on to its next call.
CallFails ==
  /\ pc = "call" /\ h3 # None
  /\ IF h3 \in up THEN Fault ELSE UNCHANGED faults
  /\ h3' = None
  /\ \E n \in {0, calls - 1} : Proceed(n)
  /\ UNCHANGED <<then, tasks, channel, handle, subscription>>

-----------------------------------------------------------------------------
(* The other tasks, the network and the server                               *)

\* A connection is lost: idle timeout, change of network, server restart.
ConnectionLost(i) ==
  /\ i \in up
  /\ Fault
  /\ "early" \in Causes \/ ~(pc = "signal" /\ i = h3)
  /\ up' = up \ {i}
  /\ UNCHANGED <<handler, h3, drivers, channel, handle, subscription>>

\* Changed form: the driver only logs.
DriverExitsSilently(i) ==
  /\ i \in drivers /\ (i \notin up \/ i # h3)
  /\ drivers' = drivers \ {i} /\ up' = up \ {i}
  /\ UNCHANGED <<handler, h3, channel, handle, subscription, faults>>

\* Changed form: the driver of a dropped H3State ends, its connection stays.
DriverExitsKeepingLink(i) ==
  /\ i \in drivers /\ (i \notin up \/ i # h3)
  /\ drivers' = drivers \ {i}
  /\ Send(FALSE)
  /\ UNCHANGED <<handler, h3, up, handle, subscription, faults>>

\* poll_close returns when the connection is lost, or when the last request
\* handle is gone because its H3State was dropped or replaced.
DriverExits(i) ==
  /\ i \in drivers /\ (i \notin up \/ i # h3)
  /\ drivers' = drivers \ {i} /\ up' = up \ {i}
  /\ Send(FALSE)
  /\ UNCHANGED <<handler, h3, handle, subscription, faults>>

\* The pump sees its connection gone and returns.
PumpExits ==
  /\ pump /\ stream \notin up
  /\ pump' = FALSE
  /\ UNCHANGED <<handler, h3, tasks, channel, stream, subscription, faults>>

\* The server ends the stream; the pump returns.
ServerEndsStream ==
  /\ "server" \in Causes
  /\ pump /\ stream \in up
  /\ Fault
  /\ pump' = FALSE
  /\ UNCHANGED <<handler, h3, tasks, channel, stream, subscription>>

LoopStep ==
  \/ Announce \/ Reconnect \/ ReconnectFails \/ EnsureH3 \/ EnsureH3Fails
  \/ ConnectedChanged \/ OpenSucceeds \/ OpenFails
  \/ CallReturns \/ CallFails

AppEvent == OpenMessageStream \/ CloseMessageStream \/ StartCalls

Next ==
  \/ LoopStep \/ AppEvent
  \/ \E i \in Conns : ConnectionLost(i) \/ DriverExits(i)
  \/ PumpExits \/ ServerEndsStream

\* tokio runs every task that can run; the app and the network owe nothing.
Fairness ==
  /\ WF_vars(LoopStep)
  /\ \A i \in Conns : WF_vars(DriverExits(i))
  /\ WF_vars(PumpExits)

Spec == Init /\ [][Next]_vars /\ Fairness

-----------------------------------------------------------------------------
(* Properties                                                                *)

\* The stream is usable: its pump runs on a connection that carries data.
StreamUp == pump /\ stream \in up

\* The loop never settles for a lost connection: when it has nothing left to
\* look at, the last word on the channel was "connected".
NeverRestsDisconnected == Accepting => watch

\* A stream the app wants is there, or there again after any failure ("The
\* MessageStream closed unexpectedly. Engine will reconnect automatically.",
\* src/src/events.rs:294).
StreamRecovers == wanted ~> (StreamUp \/ ~wanted)

\* The app's events are always looked at again: reconnecting comes to an end
\* once the network and the server behave.
AppEventsServed == []<>Accepting

\* When the loop has nothing left to look at, a driver will still wake it: that
\* of the connection in use or, after a call has dropped it, the one left behind
\* ("Engine event loop subscribes to detect drops and trigger reconnect",
\* src/src/transport/mod.rs:60).
LossWillBeReported ==
  Accepting => h3 \in drivers \/ (h3 = None /\ drivers # {})

\* The loop never rests while a stream the app wants is down, unless the
\* connection in use has just gone and its driver has yet to say so: no order of
\* losses, reconnects and reopenings leaves the stream to nobody
\* (src/src/engine.rs:254-283, handle_open_stream).
NeverRestsWithoutStream ==
  Accepting /\ wanted => StreamUp \/ h3 \in drivers \ up
=============================================================================
