--------------------------- MODULE EventLoopProofs ---------------------------
(* What the watch channel guarantees for any number of connections, calls    *)
(* and faults.                                                               *)
EXTENDS EventLoop, TLAPS

\* While the loop is not reconnecting, a "false" it has acted on has been
\* overwritten by the "true" of the new connection.
WatchInv == ~watch /\ ~unseen => pc \in {"connect", "signal"}

RestInv == StateOK /\ WatchInv

\* A handler that is making calls has one left to make.
CallsInv ==
  /\ CountersOK
  /\ pc = "call" => calls > 0
  /\ pc = "signal" /\ then = "call" => calls > 0
  /\ pc = "connect" => then # "call"

LEMMA CallsInvInductive == CallsInv /\ [Next]_vars => CallsInv'
<1> SUFFICES ASSUME CallsInv, [Next]_vars PROVE CallsInv'
  OBVIOUS
<1> USE BoundsAssumption DEF CallsInv, CountersOK, handler, Fault, Proceed
<1>1. CASE UNCHANGED vars
  BY <1>1 DEF vars
<1>2. CASE LoopStep
  <2>1. CASE Announce \/ Reconnect \/ EnsureH3 \/ ConnectedChanged
    BY <2>1 DEF Announce, Reconnect, EnsureH3, Install, ConnectedChanged
  <2>2. CASE ReconnectFails \/ OpenSucceeds \/ OpenFails
    BY <2>2 DEF ReconnectFails, OpenSucceeds, OpenFails
  <2>3. CASE EnsureH3Fails
    BY <2>3 DEF EnsureH3Fails
  <2>4. CASE CallReturns
    BY <2>4 DEF CallReturns
  <2>5. CASE CallFails
    BY <2>5 DEF CallFails
  <2> QED
    BY <1>2, <2>1, <2>2, <2>3, <2>4, <2>5 DEF LoopStep
<1>3. CASE AppEvent
  BY <1>3 DEF AppEvent, OpenMessageStream, CloseMessageStream, StartCalls
<1>4. ASSUME NEW i \in Conns, ConnectionLost(i) \/ DriverExits(i)
      PROVE  CallsInv'
  <2>1. CASE ConnectionLost(i)
    BY <2>1 DEF ConnectionLost
  <2>2. CASE DriverExits(i)
    BY <2>2 DEF DriverExits
  <2> QED
    BY <1>4, <2>1, <2>2
<1>5. CASE PumpExits
  BY <1>5 DEF PumpExits
<1>6. CASE ServerEndsStream
  BY <1>6 DEF ServerEndsStream
<1> QED
  BY <1>1, <1>2, <1>3, <1>4, <1>5, <1>6 DEF Next

LEMMA RestInvInductive == RestInv /\ [Next]_vars => RestInv'
<1> SUFFICES ASSUME RestInv, [Next]_vars PROVE RestInv'
  OBVIOUS
<1> USE NoneAssumption
    DEF RestInv, StateOK, WatchInv, handler, channel, tasks, handle, subscription
<1>1. CASE UNCHANGED vars
  BY <1>1 DEF vars
<1>2. CASE LoopStep
  <2>1. CASE Announce
    BY <2>1 DEF Announce, Send
  <2>2. CASE Reconnect
    BY <2>2 DEF Reconnect, Install
  <2>3. CASE ReconnectFails
    BY <2>3 DEF ReconnectFails
  <2>4. CASE EnsureH3
    BY <2>4 DEF EnsureH3, Install
  <2>5. CASE EnsureH3Fails
    BY <2>5 DEF EnsureH3Fails, Proceed
  <2>6. CASE ConnectedChanged
    BY <2>6 DEF ConnectedChanged
  <2>7. CASE OpenSucceeds
    BY <2>7 DEF OpenSucceeds, Proceed
  <2>8. CASE OpenFails
    BY <2>8 DEF OpenFails, Proceed
  <2>9. CASE CallReturns
    BY <2>9 DEF CallReturns, Proceed
  <2>10. CASE CallFails
    BY <2>10 DEF CallFails, Proceed
  <2> QED
    BY <1>2, <2>1, <2>2, <2>3, <2>4, <2>5, <2>6, <2>7, <2>8, <2>9, <2>10
       DEF LoopStep
<1>3. CASE AppEvent
  <2>1. CASE OpenMessageStream
    BY <2>1 DEF OpenMessageStream, Accepting
  <2>2. CASE CloseMessageStream
    BY <2>2 DEF CloseMessageStream, Accepting
  <2>3. CASE StartCalls
    BY <2>3 DEF StartCalls, Accepting, Proceed
  <2> QED
    BY <1>3, <2>1, <2>2, <2>3 DEF AppEvent
<1>4. ASSUME NEW i \in Conns, ConnectionLost(i) \/ DriverExits(i)
      PROVE  RestInv'
  <2>1. CASE ConnectionLost(i)
    BY <2>1 DEF ConnectionLost
  <2>2. CASE DriverExits(i)
    BY <2>2 DEF DriverExits, Send
  <2> QED
    BY <1>4, <2>1, <2>2
<1>5. CASE PumpExits
  BY <1>5 DEF PumpExits
<1>6. CASE ServerEndsStream
  BY <1>6 DEF ServerEndsStream
<1> QED
  BY <1>1, <1>2, <1>3, <1>4, <1>5, <1>6 DEF Next

LEMMA InitRest == Init => CallsInv /\ RestInv
<1> SUFFICES ASSUME Init PROVE CallsInv /\ RestInv
  OBVIOUS
<1>1. CallsInv
  BY BoundsAssumption DEF Init, CallsInv, CountersOK
<1>2. RestInv
  BY DEF Init, RestInv, StateOK, WatchInv
<1> QED
  BY <1>1, <1>2

\* Every variable keeps its type: one connection is installed at most, only
\* connections with a driver carry data.
THEOREM TypeCorrect == Spec => []TypeOK
<1>1. CallsInv /\ RestInv => TypeOK
  BY DEF CallsInv, RestInv, TypeOK
<1> QED
  BY <1>1, InitRest, CallsInvInductive, RestInvInductive, PTL DEF Spec

\* The loop never settles for a lost connection, whatever fails and however
\* many connections replace each other.
THEOREM RestIsConnected == Spec => []NeverRestsDisconnected
<1>1. RestInv => NeverRestsDisconnected
  BY DEF RestInv, WatchInv, NeverRestsDisconnected, Accepting
<1> QED
  BY <1>1, InitRest, RestInvInductive, PTL DEF Spec

-----------------------------------------------------------------------------
\* The connection being announced is up, and the loss of the installed one is
\* still to be read from the channel, unless a driver has yet to write it there.
ReportInv ==
  /\ pc = "signal" => h3 \in up
  /\ pc # "connect" => \/ h3 \in drivers
                       \/ h3 = None /\ drivers # {}
                       \/ unseen /\ ~watch

LEMMA ReportInvInductive ==
  ASSUME "early" \notin Causes
  PROVE  RestInv /\ ReportInv /\ [Next]_vars => ReportInv'
<1> SUFFICES ASSUME RestInv, ReportInv, [Next]_vars PROVE ReportInv'
  OBVIOUS
<1> USE NoneAssumption DEF RestInv, StateOK, ReportInv
<1>1. CASE UNCHANGED vars
  BY <1>1 DEF vars, handler, channel, tasks, handle, subscription
<1>2. CASE LoopStep
  <2> USE DEF handler, channel, tasks, handle, subscription
  <2>1. CASE Announce
    BY <2>1 DEF Announce, Send
  <2>2. CASE Reconnect \/ EnsureH3
    BY <2>2 DEF Reconnect, EnsureH3, Install
  <2>3. CASE ReconnectFails \/ EnsureH3Fails
    BY <2>3 DEF ReconnectFails, EnsureH3Fails, Proceed
  <2>4. CASE ConnectedChanged
    BY <2>4 DEF ConnectedChanged
  <2>5. CASE OpenSucceeds \/ OpenFails \/ CallReturns
    BY <2>5 DEF OpenSucceeds, OpenFails, CallReturns, Proceed
  <2>6. CASE CallFails
    BY <2>6 DEF CallFails, Proceed
  <2> QED
    BY <1>2, <2>1, <2>2, <2>3, <2>4, <2>5, <2>6 DEF LoopStep
<1>3. CASE AppEvent
  BY <1>3 DEF AppEvent, OpenMessageStream, CloseMessageStream, StartCalls,
              Accepting, Proceed, handler, channel, tasks, handle, subscription
<1>4. ASSUME NEW i \in Conns, ConnectionLost(i) \/ DriverExits(i)
      PROVE  ReportInv'
  <2>1. CASE ConnectionLost(i)
    BY <2>1 DEF ConnectionLost, handler, channel, handle, subscription
  <2>2. CASE DriverExits(i)
    BY <2>2 DEF DriverExits, Send, handler, handle, subscription
  <2> QED
    BY <1>4, <2>1, <2>2
<1>5. CASE PumpExits \/ ServerEndsStream
  BY <1>5 DEF PumpExits, ServerEndsStream, handler, channel, tasks,
              subscription
<1> QED
  BY <1>1, <1>2, <1>3, <1>4, <1>5 DEF Next

LEMMA InitReport == Init => ReportInv
  BY NoneAssumption DEF Init, ReportInv

\* If no connection is lost before it is announced, the loss of the one in use
\* is always reported, whatever calls fail and reconnect in between.
THEOREM LossIsReported ==
  ASSUME "early" \notin Causes PROVE Spec => []LossWillBeReported
<1>1. RestInv /\ ReportInv => LossWillBeReported
  BY DEF RestInv, WatchInv, ReportInv, LossWillBeReported, Accepting
<1> QED
  BY <1>1, InitReport, InitRest, RestInvInductive, ReportInvInductive, PTL
     DEF Spec

-----------------------------------------------------------------------------
\* Between reconnects a stream the app wants is on the installed connection:
\* whoever installs one goes on to open it.
WantedInv ==
  /\ calls = 0 /\ pc # "call" /\ then # "call"
  /\ pc # "connect" => h3 # None
  /\ wanted => params
  /\ pc \in {"connect", "signal"} /\ params => then = "open"
  /\ pc = "idle" /\ wanted /\ h3 \in up => stream = h3 /\ pump

LEMMA WantedInvInductive ==
  ASSUME Causes \subseteq {"close"}
  PROVE  RestInv /\ WantedInv /\ [Next]_vars => WantedInv'
<1> SUFFICES ASSUME RestInv, WantedInv, [Next]_vars PROVE WantedInv'
  OBVIOUS
<1> USE NoneAssumption DEF RestInv, StateOK, WantedInv
<1>1. CASE UNCHANGED vars
  BY <1>1 DEF vars, handler, channel, tasks, handle, subscription
<1>2. CASE LoopStep
  <2> USE DEF handler, channel, tasks, handle, subscription
  <2>1. CASE Announce
    BY <2>1 DEF Announce, Send
  <2>2. CASE Reconnect \/ EnsureH3
    BY <2>2 DEF Reconnect, EnsureH3, Install
  <2>3. CASE ReconnectFails \/ EnsureH3Fails
    BY <2>3 DEF ReconnectFails, EnsureH3Fails
  <2>4. CASE ConnectedChanged
    BY <2>4 DEF ConnectedChanged
  <2>5. CASE OpenSucceeds
    BY <2>5 DEF OpenSucceeds, Proceed
  <2>6. CASE OpenFails
    BY <2>6 DEF OpenFails, Proceed
  <2>7. CASE CallReturns \/ CallFails
    BY <2>7 DEF CallReturns, CallFails
  <2> QED
    BY <1>2, <2>1, <2>2, <2>3, <2>4, <2>5, <2>6, <2>7 DEF LoopStep
<1>3. CASE AppEvent
  BY <1>3 DEF AppEvent, OpenMessageStream, CloseMessageStream, StartCalls,
              Accepting, handler, channel, tasks, handle, subscription
<1>4. ASSUME NEW i \in Conns, ConnectionLost(i) \/ DriverExits(i)
      PROVE  WantedInv'
  <2>1. up' \subseteq up /\ UNCHANGED <<handler, h3, handle, subscription>>
    BY <1>4 DEF ConnectionLost, DriverExits
  <2> QED
    BY <2>1 DEF handler, handle, subscription
<1>5. CASE PumpExits \/ ServerEndsStream
  BY <1>5 DEF PumpExits, ServerEndsStream, handler, tasks, subscription
<1> QED
  BY <1>1, <1>2, <1>3, <1>4, <1>5 DEF Next

\* If handlers leave reconnecting to the loop and the server keeps the streams
\* it was asked for, the loop never rests without the stream the app wants.
THEOREM RestsWithStream ==
  ASSUME Causes \subseteq {"close"} PROVE Spec => []NeverRestsWithoutStream
<1>1. RestInv /\ ReportInv /\ WantedInv => NeverRestsWithoutStream
  BY DEF RestInv, WatchInv, ReportInv, WantedInv, NeverRestsWithoutStream,
         Accepting, StreamUp
<1>2. Init => WantedInv
  BY DEF Init, WantedInv
<1>3. "early" \notin Causes
  OBVIOUS
<1> QED
  BY <1>1, <1>2, <1>3, InitReport, InitRest, RestInvInductive,
     ReportInvInductive, WantedInvInductive, PTL DEF Spec
=============================================================================
