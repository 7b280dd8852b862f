------------------------------- MODULE Framing -------------------------------
(* The body of a response, from the server's messages to what the client     *)
(* takes them for: a length-prefixed message is a frame                      *)
(* (src/src/transport/grpc.rs), QUIC hands the bytes on in chunks of any     *)
(* size, and the client finds the frames again, those of the MessageStream   *)
(* as they come (stream.rs), the one of a unary call at the end (mod.rs).    *)
(*                                                                           *)
(* Bytes are counted, not represented: a message is where its frame begins   *)
(* in the body and how long its own bytes are.                               *)
EXTENDS Integers, Sequences

CONSTANTS
  Header,        \* bytes before a message: a flag and the length (5)
  Bodies,        \* lengths of messages
  Faults,        \* which faults the run allows, see below
  MaxMsgs        \* bound on the messages of one response

(* "packed"    a message may be compressed                                   *)
(* "cut"       a proxy may end the body before a message or within it        *)
(* "reset"     the connection may be lost                                    *)
(* "refuse"    the HTTP status may be another than 200                       *)
(* "headers"   the server may send the status of an error in the headers,    *)
(*             as gRPC allows for a response without messages                *)
(* "stall"     the server may stop reading, so that send_data waits for ever *)
ASSUME FaultsAssumption ==
  Faults \subseteq {"packed", "cut", "reset", "refuse", "headers", "stall"}
ASSUME HeaderAssumption == Header \in Nat \ {0}
ASSUME BodiesAssumption == Bodies \subseteq Nat
ASSUME BoundAssumption == MaxMsgs \in Nat

VARIABLES
  mode,          \* "stream" or "unary": which call the response answers
  \* the server and the network
  written,       \* the messages the server has written
  total,         \* how many bytes of them reach the client
  end,           \* "open", "fin", "reset", "refused"
  served,        \* what the server has made of the call
  trailer,       \* the grpc-status of the trailers
  \* the client
  pc,            \* "send" what waits, "poll" for a chunk, "drain" the buffer,
                 \* "ended" with the body, "dropped" before its end
  arrived,       \* bytes received
  taken,         \* bytes taken out of recv_buf
  frames,        \* what on_frame was called with
  result         \* of unary_call

serverVars == <<written, total, end, served, trailer>>
clientVars == <<pc, arrived, taken, frames, result>>
vars == <<mode, serverVars, clientVars>>

Status == {"ok", "unauthenticated", "error"}
Message == [start : Nat, body : Bodies, packed : BOOLEAN]
Frame == [start : Nat, len : Nat]

TypeOK ==
  /\ mode \in {"stream", "unary"}
  /\ written \in Seq(Message) /\ total \in Nat
  /\ end \in {"open", "fin", "reset", "refused"}
  /\ served \in Status \cup {"pending"}
  /\ trailer \in Status \cup {"none", "unreadable"}
  /\ pc \in {"send", "poll", "drain", "ended", "dropped"}
  /\ arrived \in 0..total /\ taken \in 0..arrived
  /\ frames \in Seq(Frame)
  /\ result \in {"none", "ok", "transport", "unauthenticated", "grpc"}

Init ==
  /\ mode \in {"stream", "unary"}
  /\ written = <<>> /\ total = 0 /\ end = "open"
  /\ served = "pending" /\ trailer = "none"
  /\ pc = IF mode = "stream" THEN "send" ELSE "poll"
  /\ arrived = 0 /\ taken = 0 /\ frames = <<>>
  /\ result = "none"

-----------------------------------------------------------------------------
(* The server and the network                                                *)

\* encode_grpc_frame and its counterpart in the server.
ServerWrites ==
  /\ end = "open"
  /\ Len(written) < IF mode = "unary" THEN 1 ELSE MaxMsgs
  /\ \E n \in Bodies, packed \in IF "packed" \in Faults THEN BOOLEAN ELSE {FALSE} :
       /\ written' = Append(written,
                            [start |-> total, body |-> n, packed |-> packed])
       /\ total' = total + Header + n
  /\ UNCHANGED <<mode, end, served, trailer, clientVars>>

\* A unary call is answered with a message if and only if it succeeds.
ServerFinishes ==
  /\ end = "open" /\ end' = "fin"
  /\ \E s \in Status :
       /\ (mode = "unary") => (s = "ok" <=> written # <<>>)
       /\ served' = s
       /\ \/ trailer' = s
          \/ s = "error" /\ trailer' = "unreadable"
          \/ "headers" \in Faults /\ written = <<>> /\ s # "ok" /\ trailer' = "none"
  /\ UNCHANGED <<mode, written, total, clientVars>>

\* The end comes before the last message or within it.
ProxyCuts ==
  /\ "cut" \in Faults /\ end = "open" /\ written # <<>>
  /\ end' = "fin" /\ served' = "ok"
  /\ \E t \in written[Len(written)].start..(total - 1) :
       t >= arrived /\ total' = t
  /\ trailer' \in {"ok", "none"}
  /\ UNCHANGED <<mode, written, clientVars>>

ConnectionLost ==
  /\ "reset" \in Faults /\ end = "open" /\ end' = "reset"
  /\ UNCHANGED <<mode, written, total, served, trailer, clientVars>>

\* A response that is not 200; a stream is not opened then.
Refuses ==
  /\ "refuse" \in Faults /\ mode = "unary"
  /\ end = "open" /\ written = <<>> /\ end' = "refused"
  /\ UNCHANGED <<mode, written, total, served, trailer, clientVars>>

-----------------------------------------------------------------------------
(* The client                                                                *)

\* Phase 1 is over: the frames that waited in the channel have been sent.
Sent ==
  /\ pc = "send" /\ pc' = "poll"
  /\ UNCHANGED <<mode, serverVars, arrived, taken, frames, result>>

\* The server has stopped the stream, or the connection is lost: send_data
\* reports it, and the pump returns without reading on.
SendFails ==
  /\ pc = "send" /\ pc' = "dropped"
  /\ UNCHANGED <<mode, serverVars, arrived, taken, frames, result>>

\* The engine drops the handle, for a reconnect or to close the stream: the
\* task is aborted where it waits.
HandleDropped ==
  /\ mode = "stream" /\ pc \in {"send", "poll"}
  /\ pc' = "dropped"
  /\ UNCHANGED <<mode, serverVars, arrived, taken, frames, result>>

\* RECV_POLL_INTERVAL passes without a chunk.
PollTimesOut ==
  /\ mode = "stream" /\ pc = "poll" /\ pc' = "send"
  /\ UNCHANGED <<mode, serverVars, arrived, taken, frames, result>>

\* recv_data yields some of the bytes on their way; the pump looks for frames,
\* a unary call goes on collecting.
ReceiveChunk ==
  /\ pc = "poll" /\ end # "refused"
  /\ \E n \in (arrived + 1)..total : arrived' = n
  /\ pc' = IF mode = "stream" THEN "drain" ELSE "poll"
  /\ UNCHANGED <<mode, serverVars, taken, frames, result>>

\* What the four bytes after the flag say at a position of the body: a length
\* where a frame begins, anything elsewhere.
LengthsAt(pos) ==
  LET here == {i \in 1..Len(written) : written[i].start = pos}
  IN IF here = {} THEN Bodies ELSE {written[i].body : i \in here}

Buffered == arrived - taken

\* Changed form: the header is not counted.
TakeFrameShort ==
  /\ pc = "drain" /\ Buffered >= Header
  /\ \E len \in LengthsAt(taken) :
       IF Buffered < len THEN pc' = "send" /\ UNCHANGED <<taken, frames>>
       ELSE /\ taken' = taken + len
            /\ frames' = Append(frames, [start |-> taken, len |-> len])
            /\ UNCHANGED pc
  /\ UNCHANGED <<mode, serverVars, arrived, result>>

\* Changed form: only what has come beyond a frame shows that it is complete.
TakeFrameLate ==
  /\ pc = "drain" /\ Buffered >= Header
  /\ \E len \in LengthsAt(taken) :
       IF Buffered <= Header + len THEN pc' = "send" /\ UNCHANGED <<taken, frames>>
       ELSE /\ taken' = taken + Header + len
            /\ frames' = Append(frames, [start |-> taken, len |-> Header + len])
            /\ UNCHANGED pc
  /\ UNCHANGED <<mode, serverVars, arrived, result>>

\* Changed form: one frame for each chunk.
TakeFrameOnce ==
  /\ pc = "drain" /\ Buffered >= Header
  /\ \E len \in LengthsAt(taken) :
       IF Buffered < Header + len THEN UNCHANGED <<taken, frames>>
       ELSE /\ taken' = taken + Header + len
            /\ frames' = Append(frames, [start |-> taken, len |-> Header + len])
  /\ pc' = "send"
  /\ UNCHANGED <<mode, serverVars, arrived, result>>

\* Changed form: a frame is taken once its header is there.
TakeFrameEager ==
  /\ pc = "drain" /\ Buffered >= Header
  /\ \E len \in LengthsAt(taken) :
       /\ taken' = taken + Header + len
       /\ frames' = Append(frames, [start |-> taken, len |-> Header + len])
  /\ UNCHANGED <<mode, serverVars, pc, arrived, result>>

\* One round of the pump's inner loop: a frame leaves the buffer, whole.
TakeFrame ==
  /\ pc = "drain" /\ Buffered >= Header
  /\ \E len \in LengthsAt(taken) :
       IF Buffered < Header + len THEN pc' = "send" /\ UNCHANGED <<taken, frames>>
       ELSE /\ taken' = taken + Header + len
            /\ frames' = Append(frames, [start |-> taken, len |-> Header + len])
            /\ UNCHANGED pc
  /\ UNCHANGED <<mode, serverVars, arrived, result>>

\* Less than a header is left.
NoFrame ==
  /\ pc = "drain" /\ Buffered < Header /\ pc' = "send"
  /\ UNCHANGED <<mode, serverVars, arrived, taken, frames, result>>

\* The body has come to its end, or the connection has been lost.
BodyEnds ==
  \/ end = "fin" /\ arrived = total
  \/ end = "reset"

\* The pump returns; what is in its buffer is dropped, the trailers unread.
PumpEnds ==
  /\ mode = "stream" /\ pc = "poll" /\ BodyEnds
  /\ pc' = "ended"
  /\ UNCHANGED <<mode, serverVars, arrived, taken, frames, result>>

\* decode_grpc_frame of the whole body; an empty one is an empty message.
Decode ==
  IF arrived = 0 THEN "ok"
  ELSE IF arrived < Header \/ written[1].packed
          \/ arrived < Header + written[1].body THEN "transport"
  ELSE "ok"

\* Changed form: the trailers are not looked at.
UnaryResultUnchecked ==
  IF end = "fin" THEN Decode ELSE "transport"

\* do_unary_call after the request: the HTTP status, the body, the trailers if
\* there are any, then the message.
UnaryResult ==
  CASE end # "fin" -> "transport"
    [] end = "fin" /\ trailer \in {"none", "ok"} -> Decode
    [] end = "fin" /\ trailer = "unauthenticated" -> "unauthenticated"
    [] end = "fin" /\ trailer \in {"error", "unreadable"} -> "grpc"

UnaryReturns ==
  /\ mode = "unary" /\ pc = "poll"
  /\ BodyEnds \/ end = "refused"
  /\ pc' = "ended" /\ result' = UnaryResult
  /\ UNCHANGED <<mode, serverVars, arrived, taken, frames>>

-----------------------------------------------------------------------------
Pump ==
  \/ Sent \/ SendFails \/ HandleDropped \/ PollTimesOut
  \/ TakeFrame \/ NoFrame \/ PumpEnds
Client == Pump \/ ReceiveChunk \/ UnaryReturns
Server == ServerWrites \/ ServerFinishes \/ ProxyCuts \/ ConnectionLost \/ Refuses

Next == Client \/ Server

\* The pump task runs. Phase 1 ends unless the server stops reading: a server
\* that reads takes frames faster than the app has the engine write them.
\* Strong fairness is QUIC's: bytes that are not lost are there at some poll,
\* and recv_data returns them, or the end, before the time-out is looked at.
Fairness ==
  /\ WF_vars(TakeFrame \/ NoFrame)
  /\ SF_vars(ReceiveChunk \/ PumpEnds)
  /\ "stall" \notin Faults => WF_vars(Sent)

Spec == Init /\ [][Next]_vars /\ Fairness

-----------------------------------------------------------------------------
(* Properties                                                                *)

End(i) == written[i].start + Header + written[i].body

\* However the bytes are split into chunks, on_frame gets the messages of the
\* server, each whole and none twice, in order (stream.rs:204-221).
FramesAreMessages ==
  /\ Len(frames) <= Len(written)
  /\ \A i \in 1..Len(frames) :
       frames[i] = [start |-> written[i].start, len |-> Header + written[i].body]

\* While the pump waits for a chunk, or for the server to read, its buffer
\* holds no complete message (stream.rs:208-220).
NothingWithheld ==
  (pc \in {"send", "poll"} /\ mode = "stream" /\ Len(frames) < Len(written)) =>
     arrived < End(Len(frames) + 1)

\* A unary call succeeds with the message of a server that has served it, and
\* all of it. The exception is a body without a byte, which the code takes for
\* an empty message (mod.rs:290): even then nothing is a success that the
\* trailers say has failed. The call asks for a sign-in only if the server does
\* (mod.rs:245-294).
AnswerIsServed ==
  /\ result = "ok" =>
       \/ /\ served = "ok" /\ written # <<>>
          /\ arrived >= End(1) /\ ~written[1].packed
       \/ arrived = 0 /\ (served = "ok" \/ trailer = "none")
  /\ result = "unauthenticated" => served = "unauthenticated"

\* A message is given to on_frame unless its end does not come, the connection
\* is lost, or the pump is stopped: by its handle or by a frame it cannot send
\* (stream.rs:75-79, 185-197, 201-223).
MessagesArrive ==
  \A i \in 1..MaxMsgs :
    (mode = "stream" /\ Len(written) >= i)
      ~> \/ Len(frames) >= i \/ end = "reset" \/ pc = "dropped"
         \/ Len(written) >= i /\ total < End(i)
=============================================================================
