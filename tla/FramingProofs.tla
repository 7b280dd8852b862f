---------------------------- MODULE FramingProofs ----------------------------
(* Theorems about Framing, for any header and message lengths, any split     *)
(* into chunks and any number of messages.                                   *)
EXTENDS Framing, TLAPS

-----------------------------------------------------------------------------
(* The inductive invariant.                                                  *)

\* The messages lie one after the other from the start of the body; what
\* reaches the client ends with the last one, within it or before it.
WireInv ==
  /\ \A i \in 1..Len(written) :
       written[i].start = IF i = 1 THEN 0 ELSE End(i - 1)
  /\ \A i, j \in 1..Len(written) : i < j => End(i) <= written[j].start
  /\ written = <<>> => total = 0
  /\ written # <<>> => /\ written[Len(written)].start <= total
                       /\ total <= End(Len(written))
                       /\ end = "open" => total = End(Len(written))

\* The client has taken out whole messages and stands at the start of the next.
ReadInv ==
  /\ FramesAreMessages
  /\ taken = IF frames = <<>> THEN 0 ELSE End(Len(frames))

\* Only the pump takes frames, and only a unary call has a result.
ModeInv ==
  /\ mode = "unary" => /\ pc \in {"poll", "ended"} /\ frames = <<>>
                       /\ Len(written) <= 1
  /\ result # "none" => mode = "unary" /\ pc = "ended" /\ end # "open"

Inv == TypeOK /\ WireInv /\ ReadInv /\ NothingWithheld /\ ModeInv

LEMMA InitInv == Init => Inv /\ AnswerIsServed
BY DEF Init, Inv, TypeOK, WireInv, ReadInv, NothingWithheld, ModeInv,
       FramesAreMessages, AnswerIsServed

\* Where messages lie are numbers.
LEMMA Numbers ==
  ASSUME TypeOK
  PROVE  /\ Len(written) \in Nat /\ Len(frames) \in Nat
         /\ \A i \in 1..Len(written) :
              /\ written[i] \in Message
              /\ written[i].start \in Nat /\ written[i].body \in Nat
              /\ End(i) \in Nat /\ End(i) >= written[i].start + Header
<1>1. written \in Seq(Message) /\ frames \in Seq(Frame)
  BY DEF TypeOK
<1>2. \A i \in 1..Len(written) : written[i] \in Message
  BY <1>1
<1>3. \A m \in Message : m.start \in Nat /\ m.body \in Nat
  BY BodiesAssumption DEF Message
<1> QED BY <1>1, <1>2, <1>3, HeaderAssumption DEF End

LEMMA ServerWritesStep == Inv /\ ServerWrites => (TypeOK /\ WireInv)'
<1> SUFFICES ASSUME Inv, ServerWrites PROVE (TypeOK /\ WireInv)'
  OBVIOUS
<1> PICK n \in Bodies, packed \in BOOLEAN :
      /\ written' = Append(written,
                           [start |-> total, body |-> n, packed |-> packed])
      /\ total' = total + Header + n
  BY DEF ServerWrites
<1> DEFINE m == [start |-> total, body |-> n, packed |-> packed]
<1>1. /\ end = "open" /\ end' = end
      /\ UNCHANGED <<mode, served, trailer, pc, arrived, taken, frames, result>>
  BY DEF ServerWrites, clientVars
<1>2. /\ TypeOK /\ WireInv /\ written \in Seq(Message) /\ total \in Nat /\ n \in Nat
      /\ arrived \in 0..total
  BY BodiesAssumption DEF Inv, TypeOK
<1>3. m \in Message /\ m.start = total /\ m.body = n
  BY <1>2 DEF Message
<1> HIDE DEF m
<1>4. written' = Append(written, m)
  BY DEF m
<1>5. /\ written' \in Seq(Message) /\ Len(written') = Len(written) + 1
      /\ \A i \in 1..Len(written) : written'[i] = written[i]
      /\ written'[Len(written) + 1] = m
      /\ Len(written) \in Nat /\ written' # <<>>
      /\ written = <<>> <=> Len(written) = 0
  BY <1>2, <1>3, <1>4
<1>6. \A i \in 1..Len(written) :
        /\ written[i].start \in Nat /\ written[i].body \in Nat
        /\ End(i) \in Nat /\ End(i)' = End(i)
  BY <1>2, <1>5, Numbers DEF End
<1>7. LET last == written'[Len(written')]
      IN  last = m /\ last.start + Header + last.body = total'
  BY <1>2, <1>3, <1>5, HeaderAssumption
<1>8. total = IF written = <<>> THEN 0 ELSE End(Len(written))
  BY <1>1, <1>2 DEF WireInv
<1>9. \A i \in 1..Len(written) : End(i) <= total
  <2> SUFFICES ASSUME NEW i \in 1..Len(written) PROVE End(i) <= total
    OBVIOUS
  <2>1. CASE i = Len(written)
    BY <1>2, <1>5, <1>6, <1>8, <2>1
  <2>2. CASE i < Len(written)
    <3>1. End(i) <= written[Len(written)].start
      BY <1>2, <1>5, <2>2 DEF WireInv
    <3>2. written[Len(written)].start <= total
      BY <1>2, <1>5, <2>2 DEF WireInv
    <3>3. Len(written) \in 1..Len(written)
      BY <1>5, <2>2
    <3> QED BY <1>2, <1>6, <3>1, <3>2, <3>3
  <2> QED BY <1>5, <2>1, <2>2
<1>10. TypeOK'
  BY <1>1, <1>2, <1>5, HeaderAssumption DEF TypeOK
<1>11. \A i \in 1..Len(written') :
         written'[i].start = IF i = 1 THEN 0 ELSE End(i - 1)'
  <2> SUFFICES ASSUME NEW i \in 1..(Len(written) + 1)
               PROVE  written'[i].start = IF i = 1 THEN 0 ELSE End(i - 1)'
    BY <1>5
  <2>1. CASE i = Len(written) + 1
    BY <1>3, <1>5, <1>6, <1>8, <2>1
  <2>2. CASE i # Len(written) + 1
    <3>1. written[i].start = IF i = 1 THEN 0 ELSE End(i - 1)
      BY <1>2, <1>5, <2>2 DEF WireInv
    <3>2. i \in 1..Len(written) /\ (i # 1 => i - 1 \in 1..Len(written))
      BY <1>5, <2>2
    <3> QED BY <1>5, <1>6, <3>1, <3>2
  <2> QED BY <2>1, <2>2
<1>12. \A i, j \in 1..Len(written') : i < j => End(i)' <= written'[j].start
  <2> SUFFICES ASSUME NEW i \in 1..(Len(written) + 1),
                      NEW j \in 1..(Len(written) + 1), i < j
               PROVE  End(i)' <= written'[j].start
    BY <1>5
  <2>1. i \in 1..Len(written)
    BY <1>5
  <2>2. CASE j = Len(written) + 1
    BY <1>3, <1>5, <1>6, <1>9, <2>1, <2>2
  <2>3. CASE j # Len(written) + 1
    <3>1. End(i) <= written[j].start
      BY <1>2, <1>5, <2>1, <2>3 DEF WireInv
    <3>2. j \in 1..Len(written)
      BY <1>5, <2>3
    <3> QED BY <1>5, <1>6, <2>1, <3>1, <3>2
  <2> QED BY <2>2, <2>3
<1>13. written'[Len(written')].start <= total'
  BY <1>2, <1>3, <1>7, HeaderAssumption
<1>14. total' = End(Len(written))' /\ total' <= End(Len(written))'
  BY <1>2, <1>7, HeaderAssumption DEF End
<1> QED BY <1>5, <1>10, <1>11, <1>12, <1>13, <1>14 DEF WireInv

LEMMA EndsStep ==
  Inv /\ (ServerFinishes \/ ProxyCuts \/ ConnectionLost \/ Refuses)
    => (TypeOK /\ WireInv)'
<1> SUFFICES ASSUME Inv, ServerFinishes \/ ProxyCuts \/ ConnectionLost \/ Refuses
             PROVE (TypeOK /\ WireInv)'
  OBVIOUS
<1>1. /\ UNCHANGED <<mode, written, pc, arrived, taken, frames, result>>
      /\ end' \in {"fin", "reset", "refused"}
      /\ served' \in Status \cup {"pending"}
      /\ trailer' \in Status \cup {"none", "unreadable"}
  BY DEF Inv, TypeOK, Status, ServerFinishes, ProxyCuts, ConnectionLost, Refuses,
         clientVars
<1>2. TypeOK /\ WireInv /\ total \in Nat /\ arrived \in 0..total
  BY DEF Inv, TypeOK
<1>3. /\ total' \in Nat /\ total' <= total /\ arrived <= total'
      /\ written = <<>> => total' = total
      /\ written # <<>> => written[Len(written)].start <= total'
  <2>1. CASE total' = total
    BY <1>2, <2>1 DEF WireInv
  <2>2. CASE ProxyCuts
    <3>1. written # <<>> => Len(written) \in 1..Len(written)
      BY <1>2 DEF TypeOK
    <3>2. written # <<>>
      BY <2>2 DEF ProxyCuts
    <3> DEFINE s == written[Len(written)].start
    <3>3. s \in Nat
      BY <1>2, <3>1, <3>2, Numbers
    <3> HIDE DEF s
    <3>4. PICK t \in s..(total - 1) : t >= arrived /\ total' = t
      BY <2>2 DEF ProxyCuts, s
    <3>5. s <= total' /\ total' \in Nat /\ total' <= total /\ arrived <= total'
      BY <1>2, <3>3, <3>4
    <3> QED BY <3>2, <3>5 DEF s
  <2> QED BY <2>1, <2>2 DEF ServerFinishes, ConnectionLost, Refuses
<1>4. TypeOK'
  BY <1>1, <1>2, <1>3 DEF TypeOK
<1>5. \A i : End(i)' = End(i)
  BY <1>1 DEF End
<1>6. written # <<>> => total' <= End(Len(written))
  <2>1. written # <<>> => Len(written) \in 1..Len(written)
    BY <1>2 DEF TypeOK
  <2> QED BY <1>2, <1>3, <2>1, Numbers DEF WireInv
<1> QED BY <1>1, <1>2, <1>3, <1>4, <1>5, <1>6 DEF WireInv

-----------------------------------------------------------------------------
(* Reading.                                                                  *)

\* The server's steps leave what has been read a part of what is written.
LEMMA ServerReadStep ==
  Inv /\ Server => (ReadInv /\ NothingWithheld /\ ModeInv)'
<1> SUFFICES ASSUME Inv, Server PROVE (ReadInv /\ NothingWithheld /\ ModeInv)'
  OBVIOUS
<1>1. /\ UNCHANGED <<mode, pc, arrived, taken, frames, result>>
      /\ end = "open"
  BY DEF Server, ServerWrites, ServerFinishes, ProxyCuts, ConnectionLost, Refuses,
         clientVars
<1>2. /\ TypeOK /\ ReadInv /\ NothingWithheld /\ ModeInv /\ WireInv
      /\ total \in Nat /\ arrived \in 0..total /\ Len(frames) \in Nat
      /\ Len(written) \in Nat
  BY Numbers DEF Inv, TypeOK
<1>3. CASE written' = written
  <2>1. \A i : End(i)' = End(i)
    BY <1>3 DEF End
  <2> QED BY <1>1, <1>2, <1>3, <2>1
          DEF ReadInv, NothingWithheld, ModeInv, FramesAreMessages
<1>4. CASE ServerWrites
  <2> PICK n \in Bodies, packed \in BOOLEAN :
        /\ written' = Append(written,
                             [start |-> total, body |-> n, packed |-> packed])
        /\ total' = total + Header + n
    BY <1>4 DEF ServerWrites
  <2>1. /\ written \in Seq(Message) /\ n \in Nat
        /\ [start |-> total, body |-> n, packed |-> packed] \in Message
    BY <1>2, BodiesAssumption DEF TypeOK, Message
  <2>2. /\ Len(written') = Len(written) + 1
        /\ \A i \in 1..Len(written) : written'[i] = written[i]
        /\ written'[Len(written) + 1].start = total
        /\ written'[Len(written) + 1].body = n
    BY <2>1
  <2>3. \A i \in 1..Len(written) : End(i)' = End(i)
    BY <2>2 DEF End
  <2>4. FramesAreMessages'
    BY <1>1, <1>2, <2>2 DEF ReadInv, FramesAreMessages
  <2>5. ReadInv'
    <3>1. frames # <<>> => Len(frames) \in 1..Len(written)
      BY <1>2 DEF ReadInv, FramesAreMessages, TypeOK
    <3> QED BY <1>1, <1>2, <2>3, <2>4, <3>1 DEF ReadInv
  <2>6. NothingWithheld'
    <3> SUFFICES ASSUME mode = "stream", pc \in {"send", "poll"}
                 PROVE  arrived < End(Len(frames) + 1)'
      BY <1>1 DEF NothingWithheld
    <3>1. CASE Len(frames) < Len(written)
      <4>1. Len(frames) + 1 \in 1..Len(written)
        BY <1>2, <3>1
      <4> QED BY <1>1, <1>2, <2>3, <3>1, <4>1 DEF NothingWithheld
    <3>2. CASE Len(frames) = Len(written)
      <4>1. End(Len(frames) + 1)' = total + Header + n
        BY <1>1, <2>2, <3>2 DEF End
      <4> QED BY <1>2, <2>1, <4>1, HeaderAssumption
    <3> QED BY <1>2, <3>1, <3>2 DEF ReadInv, FramesAreMessages
  <2>7. ModeInv'
    BY <1>1, <1>2, <1>4, <2>2 DEF ModeInv, ServerWrites
  <2> QED BY <2>5, <2>6, <2>7
<1> QED
  BY <1>3, <1>4
     DEF Server, ServerFinishes, ProxyCuts, ConnectionLost, Refuses

\* The client stands where the next message starts, and reads its length.
LEMMA NextMessage ==
  ASSUME TypeOK, WireInv, ReadInv, Len(frames) < Len(written)
  PROVE  LET n == Len(frames) + 1 IN
         /\ n \in 1..Len(written)
         /\ written[n].start = taken
         /\ LengthsAt(taken) = {written[n].body}
<1> DEFINE n == Len(frames) + 1
<1>1. n \in 1..Len(written) /\ Len(frames) \in Nat /\ Len(written) \in Nat
  BY Numbers
<1>2. frames = <<>> <=> Len(frames) = 0
  BY DEF TypeOK
<1>3. written[n].start = taken
  BY <1>1, <1>2 DEF WireInv, ReadInv
<1>4. ASSUME NEW i \in 1..Len(written), written[i].start = taken PROVE i = n
  <2>1. CASE i < n
    <3>1. End(i) <= written[n].start
      BY <1>1, <2>1 DEF WireInv
    <3> QED BY <1>1, <1>3, <1>4, <3>1, Numbers, HeaderAssumption
  <2>2. CASE n < i
    <3>1. End(n) <= written[i].start
      BY <1>1, <2>2 DEF WireInv
    <3> QED BY <1>1, <1>3, <1>4, <3>1, Numbers, HeaderAssumption
  <2> QED BY <1>1, <2>1, <2>2
<1>5. {i \in 1..Len(written) : written[i].start = taken} = {n}
  BY <1>1, <1>3, <1>4
<1> HIDE DEF n
<1>6. LengthsAt(taken) = {written[n].body}
  BY <1>5 DEF LengthsAt
<1> QED BY <1>1, <1>3, <1>6 DEF n

\* Where bytes are left, there is a message they belong to.
LEMMA MoreToRead ==
  ASSUME TypeOK, WireInv, ReadInv, taken < total
  PROVE  Len(frames) < Len(written)
<1>1. /\ frames = <<>> <=> Len(frames) = 0
      /\ written = <<>> <=> Len(written) = 0
      /\ total \in Nat
  BY DEF TypeOK
<1>2. Len(frames) <= Len(written)
  BY DEF ReadInv, FramesAreMessages
<1>3. CASE Len(frames) = Len(written)
  <2>1. CASE written = <<>>
    BY <1>1, <1>3, <2>1 DEF WireInv, ReadInv
  <2>2. CASE written # <<>>
    <3>1. taken = End(Len(written)) /\ total <= End(Len(written))
      BY <1>1, <1>3, <2>2 DEF WireInv, ReadInv
    <3>2. End(Len(written)) \in Nat
      BY <1>1, <2>2, Numbers
    <3> QED BY <1>1, <3>1, <3>2
  <2> QED BY <2>1, <2>2
<1> QED BY <1>2, <1>3, Numbers

LEMMA TakeFrameStep == Inv /\ TakeFrame => Inv'
<1> SUFFICES ASSUME Inv, TakeFrame PROVE Inv'
  OBVIOUS
<1> DEFINE n == Len(frames) + 1
<1>1. /\ TypeOK /\ WireInv /\ ReadInv /\ ModeInv
      /\ arrived \in Nat /\ taken \in Nat /\ total \in Nat /\ Header \in Nat
      /\ Header > 0 /\ arrived <= total /\ taken <= arrived
      /\ frames \in Seq(Frame)
  BY HeaderAssumption DEF Inv, TypeOK
<1>2. /\ pc = "drain" /\ arrived - taken >= Header
      /\ UNCHANGED <<mode, written, total, end, served, trailer, arrived, result>>
  BY DEF TakeFrame, Buffered, serverVars
<1>3. Len(frames) < Len(written)
  BY <1>1, <1>2, MoreToRead
<1>4. /\ n \in 1..Len(written) /\ written[n].start = taken
      /\ LengthsAt(taken) = {written[n].body}
  BY <1>1, <1>3, NextMessage
<1>5. written[n].body \in Nat /\ End(n) = taken + Header + written[n].body
  BY <1>1, <1>4, Numbers DEF End
<1>6. /\ \A i : End(i)' = End(i)
      /\ WireInv'
  BY <1>1, <1>2 DEF End, WireInv
<1>7. mode = "stream" /\ mode' = mode
  BY <1>1, <1>2 DEF ModeInv, TypeOK
<1>8. CASE Buffered < Header + written[n].body
  <2>1. pc' = "send" /\ taken' = taken /\ frames' = frames
    BY <1>4, <1>8 DEF TakeFrame
  <2>2. NothingWithheld'
    BY <1>1, <1>2, <1>5, <1>6, <1>8, <2>1 DEF NothingWithheld, Buffered
  <2>3. ReadInv'
    BY <1>1, <1>2, <1>6, <2>1 DEF ReadInv, FramesAreMessages
  <2>4. TypeOK' /\ ModeInv'
    BY <1>1, <1>2, <1>7, <2>1 DEF TypeOK, ModeInv
  <2> QED BY <1>6, <2>2, <2>3, <2>4 DEF Inv
<1>9. CASE ~(Buffered < Header + written[n].body)
  <2> DEFINE f == [start |-> taken, len |-> Header + written[n].body]
  <2>1. /\ pc' = pc /\ taken' = End(n) /\ frames' = Append(frames, f)
    BY <1>4, <1>5, <1>9 DEF TakeFrame
  <2>2. f \in Frame
    BY <1>1, <1>5 DEF Frame
  <2> HIDE DEF f
  <2>3. /\ frames' \in Seq(Frame) /\ Len(frames') = Len(frames) + 1
        /\ \A i \in 1..Len(frames) : frames'[i] = frames[i]
        /\ frames'[Len(frames) + 1] = f /\ frames' # <<>>
        /\ Len(frames) \in Nat
    BY <1>1, <2>1, <2>2
  <2>4. taken' \in 0..arrived
    BY <1>1, <1>5, <1>9, <2>1 DEF Buffered
  <2>5. FramesAreMessages'
    <3>1. \A i \in 1..(Len(frames) + 1) :
            frames'[i] = [start |-> written[i].start,
                          len |-> Header + written[i].body]
      <4> SUFFICES ASSUME NEW i \in 1..(Len(frames) + 1)
                   PROVE  frames'[i] = [start |-> written[i].start,
                                        len |-> Header + written[i].body]
        OBVIOUS
      <4>1. CASE i = n
        BY <1>4, <2>3, <4>1 DEF f
      <4>2. CASE i # n
        <5>1. i \in 1..Len(frames)
          BY <2>3, <4>2
        <5> QED BY <1>1, <2>3, <5>1 DEF ReadInv, FramesAreMessages
      <4> QED BY <4>1, <4>2
    <3> QED BY <1>2, <1>4, <2>3, <3>1 DEF FramesAreMessages
  <2>6. ReadInv'
    <3>1. taken' = written'[Len(frames')].start + Header
                     + written'[Len(frames')].body
      BY <1>2, <2>1, <2>3 DEF End
    <3> QED BY <2>3, <2>5, <3>1 DEF ReadInv, End
  <2>7. TypeOK' /\ ModeInv'
    BY <1>1, <1>2, <1>7, <2>1, <2>3, <2>4 DEF TypeOK, ModeInv
  <2>8. NothingWithheld'
    BY <1>2, <2>1 DEF NothingWithheld
  <2> QED BY <1>6, <2>6, <2>7, <2>8 DEF Inv
<1> QED BY <1>8, <1>9

\* The pump's steps that only move it on.
Turns == Sent \/ SendFails \/ HandleDropped \/ PollTimesOut \/ PumpEnds

LEMMA TurnsStep ==
  ASSUME Inv, Turns
  PROVE  /\ mode = "stream" /\ pc \in {"send", "poll"}
         /\ pc' \in {"send", "poll", "ended", "dropped"}
         /\ UNCHANGED <<mode, serverVars, arrived, taken, frames, result>>
         /\ UNCHANGED <<written, total, end, served, trailer>>
BY DEF Turns, Sent, SendFails, HandleDropped, PollTimesOut, PumpEnds, Inv, TypeOK,
       ModeInv, serverVars

LEMMA ClientStep == Inv /\ Client => Inv'
<1> SUFFICES ASSUME Inv, Client PROVE Inv'
  OBVIOUS
<1>1. CASE TakeFrame
  BY <1>1, TakeFrameStep
<1>2. ASSUME ReceiveChunk \/ NoFrame \/ Turns \/ UnaryReturns PROVE Inv'
  <2>1. UNCHANGED <<mode, written, total, end, served, trailer, taken, frames>>
    BY <1>2, TurnsStep DEF ReceiveChunk, NoFrame, UnaryReturns, serverVars
  <2>2. /\ TypeOK /\ WireInv /\ ReadInv /\ NothingWithheld /\ ModeInv
        /\ arrived \in Nat /\ taken \in Nat /\ total \in Nat
        /\ arrived <= total /\ taken <= arrived
    BY DEF Inv, TypeOK
  <2>3. \A i : End(i)' = End(i)
    BY <2>1 DEF End
  <2>4. WireInv' /\ ReadInv'
    BY <2>1, <2>2, <2>3 DEF WireInv, ReadInv, FramesAreMessages
  <2>5. TypeOK' /\ ModeInv'
    <3>1. CASE ReceiveChunk
      <4>1. arrived' \in 0..total /\ taken \in 0..arrived'
        BY <2>2, <3>1 DEF ReceiveChunk
      <4> QED BY <2>1, <2>2, <3>1, <4>1 DEF ReceiveChunk, TypeOK, ModeInv
    <3>2. CASE NoFrame
      BY <2>1, <2>2, <3>2 DEF NoFrame, TypeOK, ModeInv
    <3>3. CASE Turns
      <4>1. pc \in {"send", "poll"} /\ UNCHANGED <<arrived, result>>
        BY <3>3, TurnsStep
      <4> QED BY <2>1, <2>2, <3>3, <4>1, TurnsStep DEF TypeOK, ModeInv
    <3>4. CASE UnaryReturns
      <4>1. UnaryResult \in {"ok", "transport", "unauthenticated", "grpc"}
        BY <2>2 DEF UnaryResult, Decode, TypeOK, Status
      <4> QED BY <2>1, <2>2, <3>4, <4>1
              DEF UnaryReturns, TypeOK, ModeInv, BodyEnds
    <3> QED BY <1>2, <3>1, <3>2, <3>3, <3>4
  <2>6. NothingWithheld'
    <3>1. CASE NoFrame
      <4> SUFFICES ASSUME Len(frames) < Len(written)
                   PROVE  arrived < End(Len(frames) + 1)
        BY <2>1, <2>3, <3>1 DEF NothingWithheld, NoFrame
      <4>1. /\ Len(frames) + 1 \in 1..Len(written)
            /\ written[Len(frames) + 1].start = taken
        BY <2>2, NextMessage
      <4>2. End(Len(frames) + 1) >= taken + Header
            /\ End(Len(frames) + 1) \in Nat
        BY <2>2, <4>1, Numbers
      <4> QED BY <2>2, <3>1, <4>2, HeaderAssumption DEF NoFrame, Buffered
    <3>2. CASE ReceiveChunk \/ UnaryReturns
      BY <2>1, <2>2, <3>2 DEF NothingWithheld, ModeInv, ReceiveChunk, UnaryReturns
    <3>3. CASE Turns
      <4>1. pc \in {"send", "poll"} /\ UNCHANGED arrived
        BY <3>3, TurnsStep
      <4> QED BY <2>1, <2>2, <2>3, <4>1 DEF NothingWithheld
    <3> QED BY <1>2, <3>1, <3>2, <3>3
  <2> QED BY <2>4, <2>5, <2>6 DEF Inv
<1> QED BY <1>1, <1>2 DEF Client, Pump, Turns

LEMMA InvStep == Inv /\ [Next]_vars => Inv'
<1> SUFFICES ASSUME Inv, [Next]_vars PROVE Inv'
  OBVIOUS
<1>1. CASE Client
  BY <1>1, ClientStep
<1>2. CASE Server
  <2>1. (TypeOK /\ WireInv)'
    BY <1>2, ServerWritesStep, EndsStep DEF Server
  <2> QED BY <1>2, <2>1, ServerReadStep DEF Inv
<1>3. CASE UNCHANGED vars
  <2>1. \A i : End(i)' = End(i)
    BY <1>3 DEF vars, serverVars, End
  <2> QED BY <1>3, <2>1
          DEF vars, serverVars, clientVars, Inv, TypeOK, WireInv, ReadInv,
              FramesAreMessages, NothingWithheld, ModeInv
<1> QED BY <1>1, <1>2, <1>3 DEF Next

LEMMA Safe == Spec => []Inv
<1>1. Init => Inv
  BY InitInv
<1> QED BY <1>1, InvStep, PTL DEF Spec

-----------------------------------------------------------------------------
(* Answers.                                                                  *)

\* What the trailers show is what the server has made of a unary call.
ServedInv ==
  (mode = "unary" /\ end = "fin") =>
    /\ trailer = "ok" => served = "ok" /\ written # <<>>
    /\ trailer = "none" => \/ served = "ok" /\ written # <<>>
                           \/ written = <<>>
    /\ trailer = "unauthenticated" => served = "unauthenticated"

LEMMA UnaryAnswer ==
  ASSUME Inv, ServedInv, UnaryReturns
  PROVE  AnswerIsServed'
<1>1. /\ UNCHANGED <<written, served, trailer, arrived>>
      /\ mode = "unary" /\ result' = UnaryResult
      /\ end = "fin" => arrived = total
  BY DEF UnaryReturns, BodyEnds, serverVars
<1>2. /\ TypeOK /\ WireInv /\ ModeInv
      /\ trailer \in {"ok", "unauthenticated", "error", "none", "unreadable"}
      /\ arrived \in Nat /\ total \in Nat
  BY DEF Inv, TypeOK, Status
<1>3. /\ result' = "ok" => /\ end = "fin" /\ trailer \in {"none", "ok"}
                           /\ Decode = "ok"
      /\ result' = "unauthenticated" => end = "fin" /\ trailer = "unauthenticated"
  BY <1>1, <1>2 DEF UnaryResult, Decode
<1>4. ASSUME result' = "ok"
      PROVE  \/ /\ served = "ok" /\ written # <<>>
                /\ arrived >= End(1) /\ ~written[1].packed
             \/ arrived = 0 /\ (served = "ok" \/ trailer = "none")
  <2>1. CASE arrived = 0
    BY <1>1, <1>3, <1>4, <2>1 DEF ServedInv
  <2>2. CASE arrived # 0
    <3>1. written # <<>>
      BY <1>2, <2>2 DEF Inv, TypeOK, WireInv
    <3>2. served = "ok"
      BY <1>1, <1>3, <1>4, <3>1 DEF ServedInv
    <3>3. Len(written) = 1 /\ 1 \in 1..Len(written)
      <4>1. written \in Seq(Message)
        BY <1>2 DEF TypeOK
      <4>2. Len(written) <= 1
        BY <1>1, <1>2 DEF ModeInv
      <4>3. Len(written) \in Nat /\ Len(written) # 0
        BY ONLY <3>1, <4>1
      <4> QED BY <4>2, <4>3
    <3>4. written[1].start = 0
      BY <1>2, <3>3 DEF WireInv
    <3>5. ~written[1].packed /\ ~(arrived < Header + written[1].body)
      BY <1>3, <1>4, <2>2 DEF Decode
    <3>6. End(1) \in Nat /\ End(1) = Header + written[1].body
      BY <1>2, <3>3, <3>4, Numbers, HeaderAssumption DEF End
    <3> QED BY <1>2, <3>1, <3>2, <3>5, <3>6
  <2> QED BY <2>1, <2>2
<1>5. result' = "unauthenticated" => served = "unauthenticated"
  BY <1>1, <1>3 DEF ServedInv
<1>6. End(1)' = End(1)
  BY <1>1 DEF End
<1> QED BY <1>1, <1>4, <1>5, <1>6 DEF AnswerIsServed

LEMMA AnswerStep ==
  Inv /\ ServedInv /\ AnswerIsServed /\ [Next]_vars
    => (ServedInv /\ AnswerIsServed)'
<1> SUFFICES ASSUME Inv, ServedInv, AnswerIsServed, [Next]_vars
             PROVE  (ServedInv /\ AnswerIsServed)'
  OBVIOUS
<1>1. ModeInv
  BY DEF Inv
<1>2. CASE Server
  <2>1. mode' = mode /\ result' = result /\ end = "open"
    BY <1>2 DEF Server, ServerWrites, ServerFinishes, ProxyCuts, ConnectionLost,
                Refuses, clientVars
  <2>2. result' = "none"
    BY <1>1, <2>1 DEF ModeInv
  <2>3. ServedInv'
    <3>1. CASE ServerFinishes
      BY <3>1, <2>1 DEF ServedInv, ServerFinishes, Status
    <3>2. CASE ProxyCuts
      BY <3>2, <2>1 DEF ServedInv, ProxyCuts
    <3>3. CASE ServerWrites \/ ConnectionLost \/ Refuses
      BY <3>3, <2>1 DEF ServedInv, ServerWrites, ConnectionLost, Refuses
    <3> QED BY <1>2, <3>1, <3>2, <3>3 DEF Server
  <2> QED BY <2>2, <2>3 DEF AnswerIsServed
<1>3. CASE UnaryReturns
  <2>1. ServedInv'
    BY <1>3 DEF ServedInv, UnaryReturns, serverVars
  <2> QED BY <1>3, <2>1, UnaryAnswer
<1>4. CASE Pump \/ ReceiveChunk \/ UNCHANGED vars
  <2>1. UNCHANGED <<mode, serverVars, result>>
    BY <1>4 DEF Pump, ReceiveChunk, TakeFrame, NoFrame, Sent, SendFails,
                HandleDropped, PollTimesOut, PumpEnds, vars, clientVars
  <2>2. ServedInv'
    BY <2>1 DEF ServedInv, serverVars
  <2>3. result = "none" \/ arrived' = arrived
    BY <1>1, <1>4 DEF ModeInv, Pump, ReceiveChunk, TakeFrame, NoFrame, Sent,
                      SendFails, HandleDropped, PollTimesOut, PumpEnds, vars,
                      clientVars
  <2>4. End(1)' = End(1)
    BY <2>1 DEF End, serverVars
  <2> QED BY <2>1, <2>2, <2>3, <2>4 DEF AnswerIsServed, serverVars
<1> QED BY <1>2, <1>3, <1>4 DEF Next, Client

-----------------------------------------------------------------------------
(* The theorems.                                                             *)

\* The types hold: no more is taken out of the buffer than is in it, so
\* split_to never panics (stream.rs:219).
THEOREM TypeCorrect == Spec => []TypeOK
<1>1. Inv => TypeOK
  BY DEF Inv
<1> QED BY <1>1, Safe, PTL

\* on_frame gets the server's messages, whole and in order, however the bytes
\* are split (stream.rs:204-221).
THEOREM FramesCarryMessages == Spec => []FramesAreMessages
<1>1. Inv => FramesAreMessages
  BY DEF Inv, ReadInv
<1> QED BY <1>1, Safe, PTL

\* The buffer holds no complete message while the pump waits
\* (stream.rs:208-220).
THEOREM NothingIsWithheld == Spec => []NothingWithheld
<1>1. Inv => NothingWithheld
  BY DEF Inv
<1> QED BY <1>1, Safe, PTL

\* Whatever the server sends and wherever the response is cut, a unary call
\* succeeds only with the server's whole message, or with a body without a byte
\* that no trailer calls an error (mod.rs:245-294).
THEOREM AnswersAreServed == Spec => []AnswerIsServed
<1>1. Init => ServedInv /\ AnswerIsServed
  BY InitInv DEF ServedInv, Init
<1>2. Inv /\ (ServedInv /\ AnswerIsServed) /\ [Next]_vars
        => (ServedInv /\ AnswerIsServed)'
  BY AnswerStep
<1> QED BY <1>1, <1>2, Safe, PTL DEF Spec
=============================================================================
