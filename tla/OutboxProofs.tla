----------------------------- MODULE OutboxProofs -----------------------------
(* Theorems about Outbox, for any messages, queue sizes, faults and bounds.  *)
EXTENDS Outbox, SequenceTheorems, TLAPS

-----------------------------------------------------------------------------
(* Sequences.                                                                *)

LEMMA MoveHead ==
  ASSUME NEW S, NEW r \in Seq(S), NEW w \in Seq(S), w # <<>>
  PROVE  Append(r, Head(w)) \o Tail(w) = r \o w
<1>1. Append(r, Head(w)) \in Seq(S) /\ Tail(w) \in Seq(S)
  OBVIOUS
<1>2. Append(r, Head(w)) \o Tail(w) \in Seq(S) /\ r \o w \in Seq(S)
  BY <1>1
<1>3. Len(Append(r, Head(w)) \o Tail(w)) = Len(r \o w)
  BY <1>1
<1>4. \A k \in 1..Len(r \o w) :
        (Append(r, Head(w)) \o Tail(w))[k] = (r \o w)[k]
  BY <1>1
<1> HIDE <1>1
<1> QED BY <1>2, <1>3, <1>4, SeqEqual

LEMMA HeadRest ==
  ASSUME NEW S, NEW s \in Seq(S), s # <<>>
  PROVE  <<Head(s)>> \o Tail(s) = s
<1>1. <<Head(s)>> \in Seq(S) /\ Tail(s) \in Seq(S)
  OBVIOUS
<1>2. <<Head(s)>> \o Tail(s) \in Seq(S)
  BY <1>1
<1>3. Len(<<Head(s)>> \o Tail(s)) = Len(s)
  BY <1>1
<1>4. \A k \in 1..Len(s) : (<<Head(s)>> \o Tail(s))[k] = s[k]
  BY <1>1
<1> QED BY <1>2, <1>3, <1>4, SeqEqual

LEMMA OneLong ==
  ASSUME NEW S, NEW s \in Seq(S), Len(s) <= 1, s # <<>>
  PROVE  s = <<Head(s)>> /\ Head(s) \in S /\ Len(s) = 1 /\ Tail(s) = <<>>
<1>1. Len(s) = 1
  <2>1. Len(s) \in Nat \ {0}
    BY EmptySeq
  <2>2. \A n \in Nat \ {0} : n <= 1 => n = 1
    OBVIOUS
  <2> QED BY <2>1, <2>2, Zenon
<1>2. Head(s) \in S /\ Head(s) = s[1] /\ Tail(s) \in Seq(S) /\ Len(Tail(s)) = 0
  BY <1>1
<1>3. <<Head(s)>> \in Seq(S) /\ Len(<<Head(s)>>) = 1 /\ <<Head(s)>>[1] = Head(s)
  BY <1>2
<1>4. \A k \in 1..Len(s) : s[k] = <<Head(s)>>[k]
  BY <1>1, <1>2, <1>3
<1>5. s = <<Head(s)>>
  BY <1>1, <1>3, <1>4, SeqEqual
<1> QED BY <1>1, <1>2, <1>5, EmptySeq

LEMMA BeginsConcat ==
  ASSUME NEW S, NEW s \in Seq(S), NEW t \in Seq(S)
  PROVE  Begins(s, s \o t)
BY DEF Begins

LEMMA BeginsLeft ==
  ASSUME NEW S, NEW s \in Seq(S), NEW t \in Seq(S), NEW u \in Seq(S),
         Begins(s \o t, u)
  PROVE  Begins(s, u)
BY DEF Begins

LEMMA Associative ==
  \A a, b, c \in Seq(Msgs) : a \o (b \o c) = (a \o b) \o c
<1> SUFFICES ASSUME NEW a \in Seq(Msgs), NEW b \in Seq(Msgs), NEW c \in Seq(Msgs)
             PROVE  a \o (b \o c) = (a \o b) \o c
  OBVIOUS
<1>1. (a \o b) \o c = a \o (b \o c)
  BY ConcatAssociative
<1> QED BY <1>1

LEMMA Closed == \A a, b \in Seq(Msgs) : a \o b \in Seq(Msgs)
OBVIOUS

-----------------------------------------------------------------------------
(* The inductive invariant.                                                  *)

\* Where the messages of the app are: one that waits is waiting once, and has
\* been handed to no stream.
WaitInv ==
  /\ \A k \in DOMAIN queue : queue[k] # Other =>
       /\ status[queue[k]] = "pending"
       /\ \A l \in DOMAIN queue : queue[l] = queue[k] => l = k
  /\ \A k \in DOMAIN item :
       /\ status[item[k]] = "pending"
       /\ \A l \in DOMAIN queue : queue[l] # item[k]

\* One that was handed to a stream is reported SENT, and was handed over once.
HandedInv ==
  \A i \in Streams : \A k \in DOMAIN handed[i] :
    /\ status[handed[i][k]] = "SENT"
    /\ \A j \in Streams : \A l \in DOMAIN handed[j] :
         handed[i][k] = handed[j][l] => i = j /\ k = l

\* A live stream holds what it was handed; of a dead one remains a beginning.
\* A stream that does not exist yet was handed nothing.
StreamInv(i) ==
  /\ i \in running => Pipeline(i) = handed[i]
  /\ i \notin running => /\ out[i] = <<>> /\ writing[i] = <<>>
                         /\ Begins(received[i] \o wire[i], handed[i])
  /\ i > opened => handed[i] = <<>> /\ received[i] = <<>> /\ wire[i] = <<>>

\* A message waits in send_frame only on a stream, and in the loop only, which
\* is in no other handler.
ItemInv == item # <<>> => stream \in Streams /\ life = "running" /\ ~busy

SafeInv == TypeOK /\ WaitInv /\ HandedInv /\ ItemInv /\ \A i \in Streams : StreamInv(i)

LEMMA InitSafe == Init => SafeInv
<1> SUFFICES ASSUME Init PROVE SafeInv
  OBVIOUS
<1> USE DEF Init
<1>0. <<>> \in Seq(Msgs) /\ <<>> \in Seq(Msgs \cup {Other}) /\ Len(<<>>) = 0
  OBVIOUS
<1>1. TypeOK
  <2>1. /\ Len(queue) <= Buffer /\ Len(item) <= 1
        /\ \A i \in Streams : Len(out[i]) <= Depth /\ Len(writing[i]) <= 1
    BY OutboxAssumption
  <2>2. /\ queue \in Seq(Msgs \cup {Other}) /\ item \in Seq(Msgs)
        /\ out \in [Streams -> Seq(Msgs)] /\ writing \in [Streams -> Seq(Msgs)]
        /\ wire \in [Streams -> Seq(Msgs)] /\ received \in [Streams -> Seq(Msgs)]
        /\ handed \in [Streams -> Seq(Msgs)]
    BY <1>0
  <2>3. /\ life \in Lives /\ asked \in BOOLEAN /\ busy \in BOOLEAN
        /\ status \in [Msgs -> Statuses]
    BY DEF Lives, Statuses
  <2>4. opened \in 0..MaxStreams /\ stream \in 0..opened /\ running \subseteq 1..opened
    BY OutboxAssumption
  <2> QED BY <2>1, <2>2, <2>3, <2>4 DEF TypeOK
<1>2. WaitInv /\ HandedInv /\ ItemInv
  BY DEF WaitInv, HandedInv, ItemInv
<1>3. \A i \in Streams : StreamInv(i)
  BY DEF StreamInv, Begins
<1> QED BY <1>1, <1>2, <1>3 DEF SafeInv

\* What the steps of a pump and of the server leave alone.
LEMMA StreamKeeps ==
  ASSUME SafeInv, NEW i \in Streams,
         UNCHANGED <<lifeVars, queue, item, streamVars, status, handed>>,
         running' \in {running, running \ {i}},
         out' \in [Streams -> Seq(Msgs)], Len(out'[i]) <= Depth,
         writing' \in [Streams -> Seq(Msgs)], Len(writing'[i]) <= 1,
         wire' \in [Streams -> Seq(Msgs)], received' \in [Streams -> Seq(Msgs)],
         \A j \in Streams : j # i =>
           /\ out'[j] = out[j] /\ writing'[j] = writing[j]
           /\ wire'[j] = wire[j] /\ received'[j] = received[j],
         StreamInv(i)'
  PROVE  SafeInv'
<1>1. TypeOK'
  BY DEF SafeInv, TypeOK, lifeVars, streamVars
<1>2. WaitInv' /\ HandedInv' /\ ItemInv'
  BY DEF SafeInv, WaitInv, HandedInv, ItemInv, lifeVars, streamVars
<1>3. ASSUME NEW j \in Streams, j # i PROVE StreamInv(j)'
  BY <1>3 DEF SafeInv, StreamInv, Pipeline, streamVars
<1> QED BY <1>1, <1>2, <1>3 DEF SafeInv

\* The types of what stream i holds.
LEMMA StreamTypes ==
  ASSUME TypeOK, NEW i \in Streams
  PROVE  /\ received[i] \in Seq(Msgs) /\ wire[i] \in Seq(Msgs)
         /\ writing[i] \in Seq(Msgs) /\ out[i] \in Seq(Msgs)
         /\ handed[i] \in Seq(Msgs)
BY DEF TypeOK

LEMMA PumpTakesSafe ==
  ASSUME SafeInv, NEW i \in Streams, PumpTakes(i) PROVE SafeInv'
<1>0. /\ received[i] \in Seq(Msgs) /\ wire[i] \in Seq(Msgs)
      /\ out[i] \in Seq(Msgs) /\ out[i] # <<>> /\ writing[i] = <<>>
  BY StreamTypes DEF SafeInv, PumpTakes
<1>1. /\ writing'[i] = <<Head(out[i])>> /\ out'[i] = Tail(out[i])
      /\ UNCHANGED <<lifeVars, queue, item, streamVars, running, wire,
                     received, status, handed>>
      /\ \A j \in Streams : j # i => out'[j] = out[j] /\ writing'[j] = writing[j]
  BY DEF PumpTakes, SafeInv, TypeOK
<1>2. <<Head(out[i])>> \in Seq(Msgs) /\ Tail(out[i]) \in Seq(Msgs)
      /\ Len(Tail(out[i])) <= Depth
  BY <1>0, OutboxAssumption DEF SafeInv, TypeOK
<1>3. /\ out' \in [Streams -> Seq(Msgs)] /\ Len(out'[i]) <= Depth
      /\ writing' \in [Streams -> Seq(Msgs)] /\ Len(writing'[i]) <= 1
  BY <1>1, <1>2 DEF PumpTakes, SafeInv, TypeOK
<1>4. Pipeline(i)' = Pipeline(i)
  <2>1. received[i] \o wire[i] \in Seq(Msgs)
    BY <1>0, Closed
  <2>2. received[i] \o wire[i] \o writing[i] = received[i] \o wire[i]
    BY <1>0, <2>1, ConcatEmptySeq
  <2>3. <<Head(out[i])>> \o Tail(out[i]) = out[i]
    BY <1>0, HeadRest
  <2>4. received[i] \o wire[i] \o <<Head(out[i])>> \o Tail(out[i])
          = (received[i] \o wire[i]) \o out[i]
    <3> DEFINE p == received[i] \o wire[i]
               h == <<Head(out[i])>>
               t == Tail(out[i])
    <3>1. p \in Seq(Msgs) /\ h \in Seq(Msgs) /\ t \in Seq(Msgs)
          /\ h \o t = out[i]
      BY <1>2, <2>1, <2>3
    <3> HIDE DEF p, h, t
    <3>2. p \o (h \o t) = (p \o h) \o t
      BY <3>1, Associative
    <3>3. (p \o h) \o t = p \o out[i]
      BY <3>1, <3>2
    <3> QED BY <3>3 DEF p, h, t
  <2> QED BY <1>1, <2>2, <2>4 DEF Pipeline
<1>5. StreamInv(i)'
  BY <1>1, <1>4 DEF SafeInv, StreamInv, PumpTakes, streamVars
<1> QED BY <1>1, <1>3, <1>5, StreamKeeps DEF SafeInv, TypeOK

LEMMA PumpWritesSafe ==
  ASSUME SafeInv, NEW i \in Streams, PumpWrites(i) PROVE SafeInv'
<1>0. /\ received[i] \in Seq(Msgs) /\ wire[i] \in Seq(Msgs)
      /\ writing[i] \in Seq(Msgs) /\ out[i] \in Seq(Msgs) /\ <<>> \in Seq(Msgs)
  BY StreamTypes DEF SafeInv
<1>1. /\ wire'[i] = wire[i] \o writing[i] /\ writing'[i] = <<>>
      /\ UNCHANGED <<lifeVars, queue, item, streamVars, running, out, received,
                     status, handed>>
      /\ \A j \in Streams : j # i => wire'[j] = wire[j] /\ writing'[j] = writing[j]
  BY DEF PumpWrites, SafeInv, TypeOK
<1>2. wire[i] \o writing[i] \in Seq(Msgs)
  BY <1>0, Closed
<1>3. /\ wire' \in [Streams -> Seq(Msgs)]
      /\ writing' \in [Streams -> Seq(Msgs)] /\ Len(writing'[i]) <= 1
  BY <1>0, <1>1, <1>2 DEF PumpWrites, SafeInv, TypeOK
<1>4. Pipeline(i)' = Pipeline(i)
  <2>1. received[i] \o (wire[i] \o writing[i])
          = received[i] \o wire[i] \o writing[i]
    BY <1>0, Associative
  <2>2. received[i] \o wire[i] \o writing[i] \in Seq(Msgs)
    BY <1>0, <1>2, <2>1, Closed
  <2>3. (received[i] \o wire[i] \o writing[i]) \o <<>>
          = received[i] \o wire[i] \o writing[i]
    BY <2>2, ConcatEmptySeq
  <2> QED BY <1>1, <2>1, <2>3 DEF Pipeline
<1>5. i \in running /\ ~(i > opened)
  BY DEF PumpWrites, SafeInv, TypeOK, Streams
<1>6. StreamInv(i)'
  BY <1>1, <1>4, <1>5 DEF SafeInv, StreamInv, streamVars
<1> QED BY <1>1, <1>3, <1>6, StreamKeeps DEF SafeInv, TypeOK

LEMMA ServerReceivesSafe ==
  ASSUME SafeInv, NEW i \in Streams, ServerReceives(i) PROVE SafeInv'
<1>0. received[i] \in Seq(Msgs) /\ wire[i] \in Seq(Msgs) /\ wire[i] # <<>>
  BY StreamTypes DEF SafeInv, ServerReceives
<1>1. /\ received'[i] = Append(received[i], Head(wire[i]))
      /\ wire'[i] = Tail(wire[i])
      /\ UNCHANGED <<lifeVars, queue, item, streamVars, running, out, writing,
                     status, handed>>
      /\ \A j \in Streams : j # i => wire'[j] = wire[j] /\ received'[j] = received[j]
  BY DEF ServerReceives, SafeInv, TypeOK
<1>2. /\ Append(received[i], Head(wire[i])) \in Seq(Msgs)
      /\ Tail(wire[i]) \in Seq(Msgs)
  BY <1>0
<1>3. wire' \in [Streams -> Seq(Msgs)] /\ received' \in [Streams -> Seq(Msgs)]
  BY <1>1, <1>2 DEF ServerReceives, SafeInv, TypeOK
<1>4. received'[i] \o wire'[i] = received[i] \o wire[i]
  BY <1>0, <1>1, MoveHead
<1>5. i <= opened
  BY <1>0 DEF SafeInv, StreamInv, TypeOK, Streams
<1>6. i \in Nat /\ opened \in Nat
  BY DEF SafeInv, TypeOK, Streams
<1>7. Pipeline(i)' = Pipeline(i)
  BY <1>1, <1>4 DEF Pipeline
<1>8. StreamInv(i)'
  <2>1. StreamInv(i) /\ opened' = opened /\ ~(i > opened)
    BY <1>1, <1>5, <1>6 DEF SafeInv, streamVars
  <2>2. UNCHANGED <<running, out, writing, handed>>
    BY <1>1
  <2> QED BY <1>4, <1>7, <2>1, <2>2 DEF StreamInv
<1> QED BY <1>1, <1>3, <1>8, StreamKeeps DEF SafeInv, TypeOK

LEMMA WireLostSafe ==
  ASSUME SafeInv, NEW i \in Streams, WireLost(i) PROVE SafeInv'
<1>0. /\ received[i] \in Seq(Msgs) /\ wire[i] \in Seq(Msgs)
      /\ handed[i] \in Seq(Msgs) /\ <<>> \in Seq(Msgs)
  BY StreamTypes DEF SafeInv
<1>1. /\ i \notin running /\ wire'[i] = <<>>
      /\ UNCHANGED <<lifeVars, queue, item, streamVars, running, out, writing,
                     received, status, handed>>
      /\ \A j \in Streams : j # i => wire'[j] = wire[j]
  BY DEF WireLost, SafeInv, TypeOK
<1>2. wire' \in [Streams -> Seq(Msgs)]
  BY <1>0, <1>1 DEF WireLost, SafeInv, TypeOK
<1>3. Begins(received[i] \o <<>>, handed[i])
  <2>1. Begins(received[i], handed[i])
    BY <1>0, <1>1, BeginsLeft DEF SafeInv, StreamInv
  <2> QED BY <1>0, <2>1, ConcatEmptySeq
<1>4. StreamInv(i)'
  BY <1>1, <1>3 DEF SafeInv, StreamInv, streamVars
<1> QED BY <1>1, <1>2, <1>4, StreamKeeps DEF SafeInv, TypeOK

LEMMA PumpEndsSafe ==
  ASSUME SafeInv, NEW i \in Streams, PumpEnds(i) PROVE SafeInv'
<1>0. /\ received[i] \in Seq(Msgs) /\ wire[i] \in Seq(Msgs)
      /\ writing[i] \in Seq(Msgs) /\ out[i] \in Seq(Msgs) /\ <<>> \in Seq(Msgs)
  BY StreamTypes DEF SafeInv
<1>1. /\ i \in running /\ running' = running \ {i} /\ i <= opened
      /\ wire'[i] \in {wire[i], wire[i] \o writing[i]}
      /\ writing'[i] = <<>> /\ out'[i] = <<>>
      /\ UNCHANGED <<lifeVars, queue, item, streamVars, received, status, handed>>
      /\ \A j \in Streams : j # i => /\ wire'[j] = wire[j] /\ out'[j] = out[j]
                                    /\ writing'[j] = writing[j]
  BY DEF PumpEnds, SafeInv, TypeOK
<1>2. wire[i] \o writing[i] \in Seq(Msgs)
  BY <1>0, Closed
<1>3. /\ wire' \in [Streams -> Seq(Msgs)] /\ out' \in [Streams -> Seq(Msgs)]
      /\ writing' \in [Streams -> Seq(Msgs)]
      /\ Len(out'[i]) <= Depth /\ Len(writing'[i]) <= 1
  <2>1. wire' \in [Streams -> Seq(Msgs)]
    BY <1>2 DEF PumpEnds, SafeInv, TypeOK
  <2>2. out' \in [Streams -> Seq(Msgs)] /\ writing' \in [Streams -> Seq(Msgs)]
    BY <1>0 DEF PumpEnds, SafeInv, TypeOK
  <2>3. Len(<<>>) <= Depth /\ Len(<<>>) <= 1
    BY OutboxAssumption
  <2> QED BY <1>1, <2>1, <2>2, <2>3
<1>4. Begins(received[i] \o wire'[i], handed[i])
  <2>0. /\ received[i] \o wire[i] \in Seq(Msgs)
        /\ received[i] \o wire[i] \o writing[i] \in Seq(Msgs)
        /\ writing[i] \o out[i] \in Seq(Msgs)
    BY <1>0, Closed
  <2>1. handed[i] = received[i] \o wire[i] \o writing[i] \o out[i]
    BY <1>1 DEF SafeInv, StreamInv, Pipeline
  <2>2. Begins(received[i] \o wire[i] \o writing[i], handed[i])
    BY <1>0, <2>0, <2>1, BeginsConcat
  <2>3. Begins(received[i] \o wire[i], handed[i])
    <3>1. handed[i] = (received[i] \o wire[i]) \o (writing[i] \o out[i])
      <4> DEFINE p == received[i] \o wire[i]
      <4>1. p \in Seq(Msgs)
        BY <2>0
      <4>2. handed[i] = (p \o writing[i]) \o out[i]
        BY <2>1
      <4> HIDE DEF p
      <4>3. p \o (writing[i] \o out[i]) = (p \o writing[i]) \o out[i]
        BY <1>0, <4>1, Associative
      <4> QED BY <4>2, <4>3 DEF p
    <3> QED BY <2>0, <3>1, BeginsConcat
  <2>4. received[i] \o (wire[i] \o writing[i])
          = received[i] \o wire[i] \o writing[i]
    BY <1>0, Associative
  <2> QED BY <1>1, <2>2, <2>3, <2>4
<1>5. StreamInv(i)'
  BY <1>1, <1>4 DEF SafeInv, StreamInv, streamVars, TypeOK, Streams
<1> QED BY <1>1, <1>3, <1>5, StreamKeeps DEF SafeInv, TypeOK

-----------------------------------------------------------------------------
(* The app and the loop.                                                     *)

\* A shorter queue, one that is emptied or has lost its head, keeps WaitInv.
LEMMA TailOfQueue ==
  ASSUME NEW S, NEW s \in Seq(S), s # <<>>
  PROVE  /\ Tail(s) \in Seq(S) /\ Len(Tail(s)) <= Len(s)
         /\ 1 \in DOMAIN s /\ Head(s) = s[1]
         /\ \A k \in DOMAIN Tail(s) : k + 1 \in DOMAIN s /\ Tail(s)[k] = s[k + 1]
                                     /\ k + 1 # 1
OBVIOUS

LEMMA StreamsUntouched ==
  ASSUME SafeInv, UNCHANGED <<streamVars, pumpVars, handed>>
  PROVE  \A i \in Streams : StreamInv(i)'
BY DEF SafeInv, StreamInv, Pipeline, streamVars, pumpVars

\* The queue as try_send leaves it.
LEMMA QueueGrows ==
  ASSUME NEW S, NEW q \in Seq(S), NEW e \in S, Len(q) < Buffer
  PROVE  /\ Append(q, e) \in Seq(S) /\ Len(Append(q, e)) <= Buffer
         /\ \A k \in DOMAIN Append(q, e) :
              \/ k \in DOMAIN q /\ Append(q, e)[k] = q[k]
              \/ k = Len(q) + 1 /\ Append(q, e)[k] = e
BY OutboxAssumption

\* start, shutdown, other events, and the way into the loop
LEMMA LifeSafe ==
  ASSUME SafeInv, Start \/ Shutdown \/ DispatchOther \/ EnterLoop
  PROVE  SafeInv'
<1>1. UNCHANGED <<item, streamVars, pumpVars, status, handed>>
  BY DEF Start, Shutdown, DispatchOther, EnterLoop
<1>2. queue' \in {queue, <<>>} \/ (queue' = Append(queue, Other) /\ Len(queue) < Buffer)
  BY DEF Start, Shutdown, DispatchOther, EnterLoop, TrySend
<1>3. /\ queue' \in Seq(Msgs \cup {Other}) /\ Len(queue') <= Buffer
      /\ \A k \in DOMAIN queue' : queue'[k] # Other =>
           k \in DOMAIN queue /\ queue'[k] = queue[k]
  <2>1. queue \in Seq(Msgs \cup {Other}) /\ Len(queue) <= Buffer
    BY DEF SafeInv, TypeOK
  <2>2. CASE queue' = <<>>
    BY <2>2, OutboxAssumption
  <2>3. CASE queue' = Append(queue, Other) /\ Len(queue) < Buffer
    <3>1. Other \in Msgs \cup {Other}
      OBVIOUS
    <3>2. /\ queue' \in Seq(Msgs \cup {Other}) /\ Len(queue') <= Buffer
          /\ \A k \in DOMAIN queue' : \/ k \in DOMAIN queue /\ queue'[k] = queue[k]
                                      \/ k = Len(queue) + 1 /\ queue'[k] = Other
      BY <2>1, <2>3, <3>1, QueueGrows
    <3> QED BY <3>2
  <2> QED BY <1>2, <2>1, <2>2, <2>3
<1>4. life' \in Lives /\ asked' \in BOOLEAN /\ busy' \in BOOLEAN
  BY DEF Start, Shutdown, DispatchOther, EnterLoop, SafeInv, TypeOK, Lives, lifeVars
<1>5. TypeOK'
  BY <1>1, <1>3, <1>4 DEF SafeInv, TypeOK, streamVars, pumpVars
<1>6. WaitInv'
  <2>1. \A k \in DOMAIN item : item[k] # Other
    BY OutboxAssumption DEF SafeInv, TypeOK
  <2> QED BY <1>1, <1>3, <2>1 DEF SafeInv, WaitInv
<1>7. HandedInv'
  BY <1>1 DEF SafeInv, HandedInv
<1>8. ItemInv'
  <2>1. life = "running" => life' = "running" /\ busy' = busy
    BY DEF Start, Shutdown, DispatchOther, EnterLoop, lifeVars
  <2> QED BY <1>1, <2>1 DEF SafeInv, ItemInv, streamVars
<1> QED BY <1>1, <1>5, <1>6, <1>7, <1>8, StreamsUntouched DEF SafeInv

LEMMA DispatchMessageSafe ==
  ASSUME SafeInv, NEW m \in Msgs, DispatchMessage(m) PROVE SafeInv'
<1>1. /\ UNCHANGED <<lifeVars, item, streamVars, pumpVars, handed>>
      /\ status[m] \in {"fresh", "FAILED"}
      /\ status' = [status EXCEPT ![m] = "pending"]
  BY DEF DispatchMessage
<1>2. queue' = queue \/ (queue' = Append(queue, m) /\ Len(queue) < Buffer)
  BY DEF DispatchMessage, TrySend
<1>3. /\ queue' \in Seq(Msgs \cup {Other}) /\ Len(queue') <= Buffer
      /\ \A k \in DOMAIN queue' : \/ k \in DOMAIN queue /\ queue'[k] = queue[k]
                                  \/ k = Len(queue) + 1 /\ queue'[k] = m
  <2>1. queue \in Seq(Msgs \cup {Other}) /\ Len(queue) <= Buffer
    BY DEF SafeInv, TypeOK
  <2>2. CASE queue' = Append(queue, m) /\ Len(queue) < Buffer
    BY <2>1, <2>2, QueueGrows
  <2> QED BY <1>2, <2>1, <2>2
<1>4. status' \in [Msgs -> Statuses] /\ status'[m] = "pending"
      /\ \A n \in Msgs : n # m => status'[n] = status[n]
  BY <1>1 DEF SafeInv, TypeOK, Statuses
<1>5. TypeOK'
  BY <1>1, <1>3, <1>4 DEF SafeInv, TypeOK, lifeVars, streamVars, pumpVars
<1>6. /\ \A k \in DOMAIN queue : queue[k] # m /\ queue[k] \in Msgs \cup {Other}
      /\ \A k \in DOMAIN item : item[k] # m /\ item[k] \in Msgs
  BY <1>1, OutboxAssumption DEF SafeInv, WaitInv, TypeOK
<1>7. WaitInv'
  <2>1. \A k \in DOMAIN queue' : queue'[k] # Other =>
          /\ status'[queue'[k]] = "pending"
          /\ \A l \in DOMAIN queue' : queue'[l] = queue'[k] => l = k
    BY <1>3, <1>4, <1>6 DEF SafeInv, WaitInv
  <2>2. \A k \in DOMAIN item : /\ status'[item[k]] = "pending"
                               /\ \A l \in DOMAIN queue' : queue'[l] # item[k]
    BY <1>3, <1>4, <1>6 DEF SafeInv, WaitInv
  <2> QED BY <1>1, <2>1, <2>2 DEF WaitInv
<1>8. HandedInv'
  <2>1. \A i \in Streams : \A k \in DOMAIN handed[i] :
          handed[i][k] \in Msgs /\ handed[i][k] # m
    BY <1>1 DEF SafeInv, HandedInv, TypeOK
  <2> QED BY <1>1, <1>4, <2>1 DEF SafeInv, HandedInv
<1>9. ItemInv'
  BY <1>1 DEF SafeInv, ItemInv, lifeVars, streamVars
<1> QED BY <1>1, <1>5, <1>7, <1>8, <1>9, StreamsUntouched DEF SafeInv

\* Replacing or dropping the handle; the new stream has an empty pipeline.
LEMMA ChangeStreamSafe ==
  ASSUME SafeInv, ChangeStream, item = <<>>,
         UNCHANGED <<life, asked, item, out, writing, wire, received, status, handed>>,
         busy' \in BOOLEAN, queue' \in Seq(Msgs \cup {Other}), Len(queue') <= Buffer, WaitInv'
  PROVE  SafeInv'
<1>1. /\ opened' \in {opened, opened + 1} /\ opened' <= MaxStreams
      /\ running' \in {running, running \cup {opened + 1}}
      /\ running' = running \/ opened' = opened + 1
      /\ stream' \in {stream, 0, opened'} /\ opened \in Nat /\ MaxStreams \in Nat
  BY OutboxAssumption DEF ChangeStream, streamVars, SafeInv, TypeOK
<1>2. opened' \in 0..MaxStreams /\ stream' \in 0..opened' /\ running' \subseteq 1..opened'
  BY <1>1 DEF SafeInv, TypeOK
<1>3. TypeOK'
  BY <1>2 DEF SafeInv, TypeOK
<1>4. HandedInv' /\ ItemInv'
  BY DEF SafeInv, HandedInv, ItemInv
<1>5. ASSUME NEW i \in Streams PROVE StreamInv(i)'
  <2>0. StreamInv(i) /\ i \in Nat
    BY DEF SafeInv, Streams
  <2>1. CASE i \in running \/ i \notin running'
    <3>1. i \in running' <=> i \in running
      BY <1>1, <2>1
    <3>2. i > opened' => i > opened
      BY <1>1, <2>0
    <3> QED BY <2>0, <3>1, <3>2 DEF StreamInv, Pipeline
  <2>2. CASE i \in running' /\ i \notin running
    <3>1. i = opened + 1 /\ opened' = opened + 1
      BY <1>1, <2>2
    <3>2. /\ handed[i] = <<>> /\ received[i] = <<>> /\ wire[i] = <<>>
          /\ out[i] = <<>> /\ writing[i] = <<>>
      BY <1>1, <2>0, <2>2, <3>1 DEF StreamInv
    <3>3. Pipeline(i)' = handed'[i]
      BY <3>2 DEF Pipeline
    <3> QED BY <1>1, <2>0, <2>2, <3>1, <3>3 DEF StreamInv
  <2> QED BY <2>1, <2>2
<1> QED BY <1>3, <1>4, <1>5 DEF SafeInv

\* The steps of every handler but handle_send_message: on the way in it takes
\* an event, or drops the handle, or neither; on the way out it changes the handle.
HandlerSteps == HandleOther \/ OwnWork \/ Reconnect \/ HandlerReturns

LEMMA HandlerStep ==
  ASSUME SafeInv, HandlerSteps
  PROVE  /\ ChangeStream /\ item = <<>>
         /\ busy' \in BOOLEAN
         /\ UNCHANGED <<life, asked, item, out, writing, wire, received, status, handed>>
         /\ queue' = queue \/ (queue # <<>> /\ queue' = Tail(queue))
<1>1. CASE HandlerReturns
  <2>1. item = <<>>
    BY <1>1 DEF HandlerReturns, SafeInv, ItemInv
  <2> QED BY <1>1, <2>1 DEF HandlerReturns
<1>2. CASE HandleOther \/ OwnWork \/ Reconnect
  BY <1>2 DEF HandleOther, OwnWork, Reconnect, Idle, ChangeStream, streamVars, pumpVars
<1> QED BY <1>1, <1>2 DEF HandlerSteps

LEMMA HandlerSafe == ASSUME SafeInv, HandlerSteps PROVE SafeInv'
<1>1. /\ ChangeStream /\ item = <<>> /\ busy' \in BOOLEAN
      /\ UNCHANGED <<life, asked, item, out, writing, wire, received, status, handed>>
      /\ queue' = queue \/ (queue # <<>> /\ queue' = Tail(queue))
  BY HandlerStep
<1>2. CASE queue' = queue
  <2>1. WaitInv'
    BY <1>1, <1>2 DEF SafeInv, WaitInv
  <2> QED BY <1>1, <1>2, <2>1, ChangeStreamSafe DEF SafeInv, TypeOK
<1>3. CASE queue # <<>> /\ queue' = Tail(queue)
  <2>1. /\ queue' \in Seq(Msgs \cup {Other}) /\ Len(queue') <= Len(queue)
        /\ \A k \in DOMAIN queue' : k + 1 \in DOMAIN queue /\ queue'[k] = queue[k + 1]
    BY <1>3, TailOfQueue DEF SafeInv, TypeOK
  <2>2. \A k, l \in DOMAIN queue' : k + 1 = l + 1 => k = l
    BY <2>1
  <2>3. WaitInv'
    BY <1>1, <2>1, <2>2 DEF SafeInv, WaitInv
  <2>4. Len(queue') <= Buffer
    BY <2>1, OutboxAssumption DEF SafeInv, TypeOK
  <2> QED BY <1>1, <2>1, <2>3, <2>4, ChangeStreamSafe
<1> QED BY <1>1, <1>2, <1>3

LEMMA SendMessageSafe ==
  ASSUME SafeInv, SendMessage PROVE SafeInv'
<1> DEFINE m == Head(queue)
<1>1. /\ UNCHANGED <<lifeVars, streamVars, pumpVars, handed>>
      /\ item = <<>> /\ queue # <<>> /\ m # Other /\ queue' = Tail(queue)
      /\ life = "running" /\ ~busy
      /\ \/ stream # 0 /\ item' = <<m>> /\ status' = status
         \/ item' = item /\ status' = [status EXCEPT ![m] = "FAILED"]
  BY DEF SendMessage, Idle
<1>2. /\ queue' \in Seq(Msgs \cup {Other}) /\ Len(queue') <= Len(queue)
      /\ 1 \in DOMAIN queue /\ m = queue[1]
      /\ \A k \in DOMAIN queue' : /\ k + 1 \in DOMAIN queue /\ k + 1 # 1
                                 /\ queue'[k] = queue[k + 1]
  BY <1>1, TailOfQueue DEF SafeInv, TypeOK
<1>3. m \in Msgs /\ status[m] = "pending" /\ \A k \in DOMAIN queue' : queue'[k] # m
  BY <1>1, <1>2 DEF SafeInv, TypeOK, WaitInv
<1> HIDE DEF m
<1>4. Len(queue') <= Buffer
  BY <1>2, OutboxAssumption DEF SafeInv, TypeOK
<1>5. /\ item' \in Seq(Msgs) /\ Len(item') <= 1
      /\ \A k \in DOMAIN item' : item'[k] = m /\ stream # 0 /\ status' = status
      /\ item' # <<>> => stream # 0
  <2>1. CASE item' = <<m>> /\ stream # 0 /\ status' = status
    BY <1>3, <2>1
  <2>2. CASE item' = <<>>
    BY <2>2
  <2> QED BY <1>1, <2>1, <2>2
<1>6. status' \in [Msgs -> Statuses]
      /\ \A n \in Msgs : n # m => status'[n] = status[n]
  BY <1>1, <1>3 DEF SafeInv, TypeOK, Statuses
<1>7. TypeOK'
  BY <1>1, <1>2, <1>4, <1>5, <1>6 DEF SafeInv, TypeOK, lifeVars, streamVars, pumpVars
<1>8. WaitInv'
  <2>1. \A k, l \in DOMAIN queue' : k + 1 = l + 1 => k = l
    BY <1>2
  <2>2. \A k \in DOMAIN queue' : queue'[k] \in Msgs \cup {Other}
    BY <1>2 DEF SafeInv, TypeOK
  <2> QED BY <1>2, <1>3, <1>5, <1>6, <2>1, <2>2 DEF SafeInv, WaitInv
<1>9. HandedInv'
  <2>1. \A i \in Streams : \A k \in DOMAIN handed[i] :
          handed[i][k] \in Msgs /\ handed[i][k] # m
    BY <1>3 DEF SafeInv, HandedInv, TypeOK
  <2> QED BY <1>1, <1>6, <2>1 DEF SafeInv, HandedInv
<1>10. ItemInv'
  <2>1. stream # 0 => stream \in Streams
    BY OutboxAssumption DEF SafeInv, TypeOK, Streams
  <2> QED BY <1>1, <1>5, <2>1 DEF ItemInv, lifeVars, streamVars
<1> QED BY <1>1, <1>7, <1>8, <1>9, <1>10, StreamsUntouched DEF SafeInv

LEMMA FrameRefusedSafe ==
  ASSUME SafeInv, FrameRefused PROVE SafeInv'
<1> DEFINE m == Head(item)
<1>1. /\ UNCHANGED <<lifeVars, queue, streamVars, pumpVars, handed>>
      /\ item # <<>> /\ item' = <<>> /\ status' = [status EXCEPT ![m] = "FAILED"]
  BY DEF FrameRefused
<1>2. m \in Msgs /\ 1 \in DOMAIN item /\ m = item[1]
  BY <1>1 DEF SafeInv, TypeOK
<1>3. status[m] = "pending" /\ \A k \in DOMAIN queue : queue[k] # m
  BY <1>2 DEF SafeInv, WaitInv
<1> HIDE DEF m
<1>4. status' \in [Msgs -> Statuses]
      /\ \A n \in Msgs : n # m => status'[n] = status[n]
  BY <1>1, <1>2 DEF SafeInv, TypeOK, Statuses
<1>5. TypeOK'
  BY <1>1, <1>4 DEF SafeInv, TypeOK, lifeVars, streamVars, pumpVars
<1>6. WaitInv'
  <2>1. \A k \in DOMAIN queue : queue[k] \in Msgs \cup {Other}
    BY DEF SafeInv, TypeOK
  <2> QED BY <1>1, <1>3, <1>4, <2>1 DEF SafeInv, WaitInv
<1>7. HandedInv'
  <2>1. \A i \in Streams : \A k \in DOMAIN handed[i] :
          handed[i][k] \in Msgs /\ handed[i][k] # m
    BY <1>3 DEF SafeInv, HandedInv, TypeOK
  <2> QED BY <1>1, <1>4, <2>1 DEF SafeInv, HandedInv
<1>8. ItemInv'
  BY <1>1 DEF ItemInv
<1> QED BY <1>1, <1>5, <1>6, <1>7, <1>8, StreamsUntouched DEF SafeInv

LEMMA FrameEnqueuedSafe ==
  ASSUME SafeInv, FrameEnqueued PROVE SafeInv'
<1> DEFINE m == Head(item)
           i == stream
<1>1. /\ UNCHANGED <<lifeVars, queue, streamVars, running, writing, wire, received>>
      /\ item # <<>> /\ item' = <<>> /\ stream \in running
      /\ Len(out[stream]) < Depth
      /\ status' = [status EXCEPT ![m] = "SENT"]
      /\ out' = [out EXCEPT ![stream] = @ \o item]
      /\ handed' = [handed EXCEPT ![stream] = @ \o item]
  BY DEF FrameEnqueued
<1>2. m \in Msgs /\ item = <<m>> /\ 1 \in DOMAIN item /\ m = item[1]
  BY <1>1, OneLong DEF SafeInv, TypeOK
<1>3. status[m] = "pending" /\ \A k \in DOMAIN queue : queue[k] # m
  BY <1>2 DEF SafeInv, WaitInv
<1>4. i \in Streams
  BY <1>1 DEF SafeInv, ItemInv
<1> HIDE DEF m, i
<1>5. status' \in [Msgs -> Statuses] /\ status'[m] = "SENT"
      /\ \A n \in Msgs : n # m => status'[n] = status[n]
  BY <1>1, <1>2 DEF SafeInv, TypeOK, Statuses
<1>6. /\ out' \in [Streams -> Seq(Msgs)] /\ handed' \in [Streams -> Seq(Msgs)]
      /\ out'[i] = out[i] \o <<m>> /\ handed'[i] = handed[i] \o <<m>>
      /\ Len(out'[i]) <= Depth
      /\ \A j \in Streams : j # i => out'[j] = out[j] /\ handed'[j] = handed[j]
  <2>1. out[i] \in Seq(Msgs) /\ handed[i] \in Seq(Msgs) /\ Len(out[i]) < Depth
    BY <1>1, <1>4 DEF SafeInv, TypeOK, i
  <2>2. /\ out[i] \o <<m>> \in Seq(Msgs) /\ handed[i] \o <<m>> \in Seq(Msgs)
        /\ Len(out[i] \o <<m>>) <= Depth
    BY <1>2, <2>1, OutboxAssumption
  <2>3. /\ out' = [out EXCEPT ![i] = out[i] \o <<m>>]
        /\ handed' = [handed EXCEPT ![i] = handed[i] \o <<m>>]
    BY <1>1, <1>2 DEF i
  <2> QED BY <1>4, <2>2, <2>3 DEF SafeInv, TypeOK
<1>7. TypeOK'
  BY <1>1, <1>5, <1>6 DEF SafeInv, TypeOK, lifeVars, streamVars
<1>8. WaitInv'
  <2>1. \A k \in DOMAIN queue : queue[k] \in Msgs \cup {Other}
    BY DEF SafeInv, TypeOK
  <2> QED BY <1>1, <1>3, <1>5, <2>1 DEF SafeInv, WaitInv
<1>9. HandedInv'
  <2>1. \A j \in Streams : \A k \in DOMAIN handed[j] :
          handed[j][k] \in Msgs /\ handed[j][k] # m
    BY <1>3 DEF SafeInv, HandedInv, TypeOK
  <2>2. \A j \in Streams : \A k \in DOMAIN handed'[j] :
          \/ k \in DOMAIN handed[j] /\ handed'[j][k] = handed[j][k]
          \/ j = i /\ k = Len(handed[i]) + 1 /\ handed'[j][k] = m
    <3>1. handed[i] \in Seq(Msgs)
      BY <1>4 DEF SafeInv, TypeOK
    <3>2. \A k \in DOMAIN (handed[i] \o <<m>>) :
            \/ k \in DOMAIN handed[i] /\ (handed[i] \o <<m>>)[k] = handed[i][k]
            \/ k = Len(handed[i]) + 1 /\ (handed[i] \o <<m>>)[k] = m
      BY <1>2, <3>1
    <3> QED BY <1>6, <3>2
  <2> QED BY <1>5, <2>1, <2>2 DEF SafeInv, HandedInv
<1>10. ItemInv'
  BY <1>1 DEF ItemInv
<1>11. ASSUME NEW j \in Streams PROVE StreamInv(j)'
  <2>1. CASE j # i
    BY <1>1, <1>6, <2>1 DEF SafeInv, StreamInv, Pipeline, streamVars
  <2>2. CASE j = i
    <3>1. i \in running /\ i <= opened /\ i \in Nat /\ opened \in Nat
      BY <1>1, <1>4 DEF i, SafeInv, TypeOK, Streams
    <3>2. Pipeline(i) = handed[i]
      BY <1>4, <3>1 DEF SafeInv, StreamInv
    <3>3. Pipeline(i)' = Pipeline(i) \o <<m>>
      <4> DEFINE p == received[i] \o wire[i] \o writing[i]
                 w == <<m>>
      <4>1. p \in Seq(Msgs) /\ out[i] \in Seq(Msgs) /\ <<m>> \in Seq(Msgs)
        <5>1. received[i] \o wire[i] \in Seq(Msgs)
          BY <1>4, StreamTypes, Closed DEF SafeInv
        <5> QED BY <1>2, <1>4, <5>1, StreamTypes, Closed DEF SafeInv
      <4>2. Pipeline(i) = p \o out[i]
        BY DEF Pipeline
      <4>3. Pipeline(i)' = p \o (out[i] \o <<m>>)
        BY <1>1, <1>6 DEF Pipeline, i, streamVars
      <4>4. w \in Seq(Msgs) /\ Pipeline(i)' = p \o (out[i] \o w)
        BY <4>1, <4>3
      <4> HIDE DEF p, w
      <4>5. p \o (out[i] \o w) = (p \o out[i]) \o w
        BY <4>1, <4>4, Associative
      <4> QED BY <4>2, <4>4, <4>5 DEF w
    <3>4. i' = i
      BY <1>1 DEF i, streamVars
    <3>5. Pipeline(j)' = handed'[j]
      BY <1>6, <2>2, <3>2, <3>3, <3>4
    <3>6. j \in running' /\ ~(j > opened')
      BY <1>1, <2>2, <3>1 DEF streamVars
    <3> QED BY <3>5, <3>6 DEF StreamInv
  <2> QED BY <2>1, <2>2
<1> QED BY <1>7, <1>8, <1>9, <1>10, <1>11 DEF SafeInv

-----------------------------------------------------------------------------
LEMMA SafeInvInductive == SafeInv /\ [Next]_vars => SafeInv'
<1> SUFFICES ASSUME SafeInv, [Next]_vars PROVE SafeInv'
  OBVIOUS
<1>1. CASE App
  BY <1>1, LifeSafe, DispatchMessageSafe DEF App
<1>2. CASE Loop
  BY <1>2, LifeSafe, HandlerSafe, SendMessageSafe, FrameEnqueuedSafe,
     FrameRefusedSafe DEF Loop, HandlerSteps
<1>3. CASE \E i \in Streams : Stream(i)
  BY <1>3, PumpTakesSafe, PumpWritesSafe, PumpEndsSafe, ServerReceivesSafe,
     WireLostSafe DEF Stream
<1>4. CASE UNCHANGED vars
  <2>1. TypeOK'
    BY <1>4 DEF vars, lifeVars, streamVars, pumpVars, SafeInv, TypeOK
  <2>2. WaitInv' /\ HandedInv' /\ ItemInv'
    BY <1>4 DEF vars, lifeVars, streamVars, SafeInv, WaitInv, HandedInv, ItemInv
  <2> QED BY <1>4, <2>1, <2>2, StreamsUntouched DEF vars, SafeInv
<1> QED BY <1>1, <1>2, <1>3, <1>4 DEF Next

LEMMA SafeInvAlways == Spec => []SafeInv
BY InitSafe, SafeInvInductive, PTL DEF Spec

\* Every variable keeps its type; no queue exceeds its bound.
THEOREM TypeCorrect == Spec => []TypeOK
BY SafeInvAlways, PTL DEF SafeInv

\* A live stream holds or has delivered, in order, all it was handed, and of a
\* dead one a beginning arrives: what is lost is lost from its end.
THEOREM StreamsLoseOnlyEnds == Spec => []NoHole
<1>1. SafeInv => NoHole
  <2> SUFFICES ASSUME SafeInv, NEW i \in Streams
               PROVE  /\ i \in running => Pipeline(i) = handed[i]
                      /\ Begins(received[i], handed[i])
    BY DEF NoHole
  <2>0. /\ received[i] \in Seq(Msgs) /\ wire[i] \in Seq(Msgs)
        /\ writing[i] \in Seq(Msgs) /\ out[i] \in Seq(Msgs)
        /\ handed[i] \in Seq(Msgs)
    BY StreamTypes DEF SafeInv
  <2>1. StreamInv(i)
    BY DEF SafeInv
  <2>2. CASE i \in running
    <3>1. received[i] \o wire[i] \in Seq(Msgs)
          /\ received[i] \o wire[i] \o writing[i] \in Seq(Msgs)
      BY <2>0, Closed
    <3>2. Begins(received[i] \o wire[i] \o writing[i], handed[i])
      <4>1. handed[i] = (received[i] \o wire[i] \o writing[i]) \o out[i]
        BY <2>1, <2>2 DEF StreamInv, Pipeline
      <4> QED BY <2>0, <3>1, <4>1, BeginsConcat
    <3>3. Begins(received[i] \o wire[i], handed[i])
      BY <2>0, <3>1, <3>2, BeginsLeft
    <3>4. Begins(received[i], handed[i])
      BY <2>0, <3>3, BeginsLeft
    <3> QED BY <2>1, <2>2, <3>4 DEF StreamInv
  <2>3. CASE i \notin running
    BY <2>0, <2>1, <2>3, BeginsLeft DEF StreamInv
  <2> QED BY <2>2, <2>3
<1> QED BY <1>1, SafeInvAlways, PTL

\* If the app repeats only what was reported FAILED, no message reaches the
\* server twice.
THEOREM ServerReceivesOnce == Spec => []AtMostOnce
<1>1. SafeInv /\ NoHole => AtMostOnce
  <2> SUFFICES ASSUME SafeInv, NoHole, NEW i \in Streams, NEW j \in Streams,
                      NEW k \in DOMAIN received[i], NEW l \in DOMAIN received[j],
                      received[i][k] = received[j][l]
               PROVE  i = j /\ k = l
    BY DEF AtMostOnce
  <2>1. k \in DOMAIN handed[i] /\ handed[i][k] = received[i][k]
    BY DEF NoHole, Begins, SafeInv, TypeOK
  <2>2. l \in DOMAIN handed[j] /\ handed[j][l] = received[j][l]
    BY DEF NoHole, Begins, SafeInv, TypeOK
  <2> QED BY <2>1, <2>2 DEF SafeInv, HandedInv
<1> QED BY <1>1, SafeInvAlways, StreamsLoseOnlyEnds, PTL

-----------------------------------------------------------------------------
(* The engine implements the courier.                                        *)

LEMMA HeadOfConcat ==
  ASSUME NEW S, NEW s \in Seq(S), NEW t \in Seq(S), s # <<>>
  PROVE  s \o t # <<>> /\ Head(s \o t) = Head(s) /\ Tail(s \o t) = Tail(s) \o t
<1>1. s \o t \in Seq(S) /\ Len(s) > 0 /\ Tail(s) \in Seq(S)
  OBVIOUS
<1>2. s \o t # <<>> /\ Head(s \o t) = Head(s)
  BY <1>1
<1>3. /\ Tail(s \o t) \in Seq(S) /\ Tail(s) \o t \in Seq(S)
      /\ Len(Tail(s \o t)) = Len(Tail(s) \o t)
  BY <1>1, <1>2
<1>4. \A k \in 1..Len(Tail(s \o t)) : Tail(s \o t)[k] = (Tail(s) \o t)[k]
  BY <1>1, <1>2, <1>3
<1> QED BY <1>2, <1>3, <1>4, SeqEqual

LEMMA AppendConcat ==
  ASSUME NEW S, NEW s \in Seq(S), NEW t \in Seq(S), NEW e \in S
  PROVE  s \o Append(t, e) = Append(s \o t, e)
<1>1. /\ s \o Append(t, e) \in Seq(S) /\ Append(s \o t, e) \in Seq(S)
      /\ Len(s \o Append(t, e)) = Len(Append(s \o t, e))
  OBVIOUS
<1>2. \A k \in 1..Len(s \o Append(t, e)) :
        (s \o Append(t, e))[k] = Append(s \o t, e)[k]
  OBVIOUS
<1> QED BY <1>1, <1>2, SeqEqual

LEMMA BeginningOfConcat ==
  ASSUME NEW S, NEW s \in Seq(S), NEW t \in Seq(S)
  PROVE  Len(s) \in 0..Len(s \o t) /\ s = SubSeq(s \o t, 1, Len(s))
<1>1. /\ s \o t \in Seq(S) /\ Len(s \o t) = Len(s) + Len(t)
      /\ Len(s) \in Nat /\ Len(t) \in Nat
  OBVIOUS
<1>2. SubSeq(s \o t, 1, Len(s)) \in Seq(S) /\ Len(SubSeq(s \o t, 1, Len(s))) = Len(s)
  BY <1>1
<1>3. \A k \in 1..Len(s) : SubSeq(s \o t, 1, Len(s))[k] = s[k]
  BY <1>1
<1> QED BY <1>1, <1>2, <1>3, SeqEqual

\* What the mapping makes of a state, and when it stays the same.
LEMMA Mapped ==
  ASSUME SafeInv
  PROVE  /\ Requests \in Seq(Msgs \cup {Other})
         /\ \A i \in Streams : /\ Owed[i] = wire[i] \o writing[i] \o out[i]
                               /\ Owed[i] \in Seq(Msgs)
         /\ item = <<>> => Requests = queue
         /\ item # <<>> => /\ item = <<Head(item)>> /\ Head(item) \in Msgs
                           /\ Requests # <<>> /\ Head(Requests) = Head(item)
                           /\ Tail(Requests) = queue
<1>1. /\ item \in Seq(Msgs) /\ Len(item) <= 1 /\ queue \in Seq(Msgs \cup {Other})
      /\ item \in Seq(Msgs \cup {Other})
  BY DEF SafeInv, TypeOK
<1>2. Requests \in Seq(Msgs \cup {Other})
  BY <1>1 DEF Requests
<1>3. ASSUME NEW i \in Streams
      PROVE  /\ Owed[i] = wire[i] \o writing[i] \o out[i]
             /\ Owed[i] \in Seq(Msgs)
  <2>1. wire[i] \o writing[i] \in Seq(Msgs) /\ out[i] \in Seq(Msgs)
    BY StreamTypes, Closed DEF SafeInv
  <2> QED BY <2>1, Closed DEF Owed
<1>4. item = <<>> => Requests = queue
  BY <1>1, ConcatEmptySeq DEF Requests
<1>5. ASSUME item # <<>>
      PROVE  /\ item = <<Head(item)>> /\ Head(item) \in Msgs
             /\ Requests # <<>> /\ Head(Requests) = Head(item)
             /\ Tail(Requests) = queue
  <2>1. item = <<Head(item)>> /\ Head(item) \in Msgs /\ Tail(item) = <<>>
    BY <1>1, <1>5, OneLong
  <2>4. /\ Requests # <<>> /\ Head(Requests) = Head(item)
        /\ Tail(Requests) = Tail(item) \o queue
    BY <1>1, <1>5, HeadOfConcat DEF Requests
  <2>5. Tail(item) \o queue = queue
    BY <1>1, <2>1, ConcatEmptySeq
  <2> QED BY <2>1, <2>4, <2>5
<1> QED BY <1>2, <1>3, <1>4, <1>5

LEMMA SameOwed ==
  /\ UNCHANGED <<wire, writing, out>> => Owed' = Owed
  /\ UNCHANGED <<opened, running>> => Broken' = Broken
  /\ UNCHANGED life => Phase' = Phase
BY DEF Owed, Broken, Phase

LEMMA OneOwes ==
  ASSUME NEW i \in Streams,
         \A j \in Streams : j # i => /\ wire'[j] = wire[j] /\ out'[j] = out[j]
                                     /\ writing'[j] = writing[j]
  PROVE  Owed' = [Owed EXCEPT ![i] = Owed'[i]]
BY DEF Owed

\* Starting the loop, or failing to.
LEMMA LifeServes ==
  ASSUME SafeInv, Start \/ EnterLoop
  PROVE  Service!Serve \/ UNCHANGED Service!vars
<1> USE DEF Service!Serve, Service!vars, Service!appVars, Service!streamVars
<1>1. /\ UNCHANGED <<item, streamVars, pumpVars, status>>
      /\ life \in {"new", "starting"} /\ item = <<>>
      /\ \/ life' \in {"starting", "running"} /\ queue' = queue
         \/ life' \in {"unspawned", "ended"} /\ queue' = <<>>
  BY DEF Start, EnterLoop, SafeInv, ItemInv
<1>2. UNCHANGED <<status, Owed, received, Broken>> /\ Phase = "starting"
  BY <1>1, SameOwed DEF streamVars, pumpVars, Phase
<1>3. CASE life' \in {"starting", "running"} /\ queue' = queue
  <2>1. Requests' = Requests
    BY <1>1, <1>3 DEF Requests
  <2>2. Phase' \in {"starting", "serving"}
    BY <1>3 DEF Phase
  <2> QED BY <1>2, <2>1, <2>2
<1>4. CASE life' \in {"unspawned", "ended"} /\ queue' = <<>>
  <2>1. Requests' = <<>>
    BY <1>1, <1>4, ConcatEmptySeq DEF Requests
  <2>2. Phase' = "over"
    BY <1>4 DEF Phase
  <2> QED BY <1>2, <2>1, <2>2
<1> QED BY <1>1, <1>3, <1>4

\* try_send accepts the event or drops it.
LEMMA TrySendAccepts ==
  ASSUME SafeInv, NEW e \in Msgs \cup {Other}, TrySend(e), UNCHANGED <<life, item>>
  PROVE  Service!AcceptOrDrop(e)
<1> USE DEF Service!AcceptOrDrop
<1>1. CASE queue' = queue
  BY <1>1 DEF Requests
<1>2. CASE queue' = Append(queue, e) /\ life \notin {"ended", "unspawned"}
  <2>1. item \in Seq(Msgs \cup {Other}) /\ queue \in Seq(Msgs \cup {Other})
    BY DEF SafeInv, TypeOK
  <2>2. item \o Append(queue, e) = Append(item \o queue, e)
    BY <2>1, AppendConcat
  <2>3. Phase # "over"
    BY <1>2 DEF Phase, SafeInv, TypeOK, Lives
  <2> QED BY <1>2, <2>2, <2>3 DEF Requests
<1> QED BY <1>1, <1>2 DEF TrySend

LEMMA DispatchSubmits ==
  /\ \A m \in Msgs : SafeInv /\ DispatchMessage(m) => Service!Submit(m)
  /\ SafeInv /\ DispatchOther => Service!SubmitOther
<1> USE DEF Service!Submit, Service!SubmitOther, Service!streamVars, lifeVars,
            streamVars, pumpVars
<1>1. ASSUME NEW m \in Msgs, SafeInv, DispatchMessage(m) PROVE Service!Submit(m)
  BY <1>1, SameOwed, TrySendAccepts DEF DispatchMessage
<1>2. ASSUME SafeInv, DispatchOther PROVE Service!SubmitOther
  BY <1>2, SameOwed, TrySendAccepts DEF DispatchOther
<1> QED BY <1>1, <1>2

\* Replacing the handle breaks no stream and repairs none.
LEMMA ChangeStreamUnseen ==
  ASSUME SafeInv, ChangeStream PROVE Broken' = Broken
<1>1. opened \in Nat /\ running \subseteq 1..opened
  BY DEF SafeInv, TypeOK
<1>2. CASE UNCHANGED <<opened, running>>
  BY <1>2, SameOwed
<1>3. CASE opened' = opened + 1 /\ running' = running \cup {opened + 1}
  BY <1>1, <1>3 DEF Broken, Streams
<1> QED BY <1>2, <1>3 DEF ChangeStream, streamVars

\* A handler's way in is seen when it takes an event; its way out is not.
LEMMA HandlerHandles ==
  ASSUME SafeInv, HandlerSteps
  PROVE  Service!HandleOther \/ UNCHANGED Service!vars
<1>1. /\ ChangeStream /\ item = <<>>
      /\ UNCHANGED <<life, item, out, writing, wire, received, status>>
  BY HandlerStep
<1>2. UNCHANGED <<Phase, Owed, Broken>>
  BY <1>1, SameOwed, ChangeStreamUnseen
<1>3. CASE HandleOther
  <2>1. /\ queue # <<>> /\ Head(queue) = Other /\ queue' = Tail(queue)
        /\ life = "running"
    BY <1>3 DEF HandleOther, Idle
  <2>2. Requests = queue /\ Phase = "serving"
    BY <1>1, <2>1, Mapped DEF Phase
  <2>3. Requests' = queue'
    <3>1. queue' \in Seq(Msgs \cup {Other})
      BY <2>1, TailOfQueue DEF SafeInv, TypeOK
    <3> QED BY <1>1, <3>1, ConcatEmptySeq DEF Requests
  <2> QED BY <1>1, <1>2, <2>1, <2>2, <2>3
          DEF Service!HandleOther, Service!Done, Service!streamVars
<1>4. CASE OwnWork \/ Reconnect \/ HandlerReturns
  <2>1. Requests' = Requests
    BY <1>1, <1>4 DEF Requests, OwnWork, Reconnect, HandlerReturns
  <2> QED BY <1>1, <1>2, <2>1 DEF Service!vars, Service!appVars, Service!streamVars
<1> QED BY <1>3, <1>4 DEF HandlerSteps

\* A message moves to send_frame, or is answered FAILED at once.
LEMMA SendMessageRefuses ==
  ASSUME SafeInv, SendMessage
  PROVE  Service!Refuse \/ UNCHANGED Service!vars
<1> USE DEF Service!Refuse, Service!Done, Service!vars, Service!appVars,
            Service!streamVars
<1>1. /\ item = <<>> /\ queue # <<>> /\ Head(queue) # Other
      /\ queue' = Tail(queue) /\ life = "running"
      /\ UNCHANGED <<lifeVars, streamVars, pumpVars>>
      /\ \/ item' = <<Head(queue)>> /\ status' = status
         \/ item' = item /\ status' = [status EXCEPT ![Head(queue)] = "FAILED"]
  BY DEF SendMessage, Idle
<1>2. UNCHANGED <<Phase, Owed, Broken, received>> /\ Phase = "serving"
  BY <1>1, SameOwed DEF Phase, lifeVars, streamVars, pumpVars
<1>3. queue \in Seq(Msgs \cup {Other}) /\ Requests = queue /\ Head(queue) \in Msgs
  <2>1. queue \in Seq(Msgs \cup {Other})
    BY DEF SafeInv, TypeOK
  <2>2. Head(queue) \in Msgs
    BY <1>1, <2>1
  <2> QED BY <1>1, <2>1, <2>2, Mapped
<1>4. CASE item' = <<Head(queue)>> /\ status' = status
  <2>1. Requests' = <<Head(queue)>> \o Tail(queue)
    BY <1>1, <1>4 DEF Requests
  <2>2. Requests' = Requests
    BY <1>1, <1>3, <2>1, HeadRest
  <2> QED BY <1>2, <1>4, <2>2
<1>5. CASE item' = item /\ status' = [status EXCEPT ![Head(queue)] = "FAILED"]
  <2>1. Requests' = Tail(Requests)
    <3>1. Tail(queue) \in Seq(Msgs \cup {Other})
      BY <1>1, <1>3
    <3> QED BY <1>1, <1>3, <1>5, <3>1, ConcatEmptySeq DEF Requests
  <2> QED BY <1>1, <1>2, <1>3, <1>5, <2>1
<1> QED BY <1>1, <1>4, <1>5

LEMMA FrameRefusedRefuses ==
  ASSUME SafeInv, FrameRefused PROVE Service!Refuse
<1>1. /\ item # <<>> /\ item' = <<>> /\ queue' = queue
      /\ UNCHANGED <<lifeVars, streamVars, pumpVars>>
      /\ status' = [status EXCEPT ![Head(item)] = "FAILED"]
  BY DEF FrameRefused
<1>2. UNCHANGED <<Phase, Owed, Broken, received>> /\ Phase = "serving"
  BY <1>1, SameOwed DEF Phase, lifeVars, streamVars, pumpVars, SafeInv, ItemInv
<1>3. Requests' = queue
  BY <1>1, ConcatEmptySeq DEF Requests, SafeInv, TypeOK
<1> QED BY <1>1, <1>2, <1>3, Mapped DEF Service!Refuse, Service!Done, Service!streamVars

LEMMA FrameEnqueuedGives ==
  ASSUME SafeInv, FrameEnqueued PROVE Service!Give(stream) /\ stream \in Streams
<1> DEFINE i == stream
           m == Head(item)
<1>1. /\ item # <<>> /\ item' = <<>> /\ queue' = queue /\ stream \in running
      /\ UNCHANGED <<lifeVars, streamVars, running, writing, wire, received>>
      /\ status' = [status EXCEPT ![m] = "SENT"]
      /\ out' = [out EXCEPT ![i] = @ \o item]
  BY DEF FrameEnqueued
<1>2. UNCHANGED <<Phase, Broken>> /\ Phase = "serving" /\ i \in Streams
      /\ i \notin Broken
  BY <1>1, SameOwed DEF Phase, Broken, lifeVars, streamVars, SafeInv, ItemInv
<1>3. Requests' = queue
  BY <1>1, ConcatEmptySeq DEF Requests, SafeInv, TypeOK
<1>4. /\ item = <<m>> /\ m \in Msgs /\ Requests # <<>> /\ Head(Requests) = m
      /\ Tail(Requests) = queue
  BY <1>1, Mapped
<1> HIDE DEF m, i
<1>5. /\ out \in [Streams -> Seq(Msgs)] /\ out[i] \in Seq(Msgs)
      /\ wire[i] \o writing[i] \in Seq(Msgs)
  BY <1>2, StreamTypes, Closed DEF SafeInv, TypeOK
<1>6. out'[i] = Append(out[i], m) /\ \A j \in Streams : j # i => out'[j] = out[j]
  <2>1. out[i] \o <<m>> = Append(out[i], m)
    BY <1>4, <1>5
  <2> QED BY <1>1, <1>2, <1>4, <1>5, <2>1
<1>7. Owed'[i] = Append(Owed[i], m)
  <2> DEFINE p == wire[i] \o writing[i]
  <2>1. Owed[i] = p \o out[i] /\ Owed'[i] = p \o Append(out[i], m)
    BY <1>1, <1>2, <1>6 DEF Owed
  <2>2. p \in Seq(Msgs)
    BY <1>5
  <2> HIDE DEF p
  <2> QED BY <1>4, <1>5, <2>1, <2>2, AppendConcat
<1>8. Owed' = [Owed EXCEPT ![i] = Append(Owed[i], m)]
  BY <1>1, <1>2, <1>6, <1>7, OneOwes
<1> QED BY <1>1, <1>2, <1>3, <1>4, <1>8 DEF Service!Give, Service!Done, i, m

\* Within the stream nothing changes as long as the pump runs.
LEMMA PumpUnseen ==
  ASSUME SafeInv, NEW i \in Streams, PumpTakes(i) \/ PumpWrites(i)
  PROVE  UNCHANGED Service!vars
<1>1. /\ UNCHANGED <<life, item, queue, opened, running, received, status>>
      /\ \A j \in Streams : j # i => /\ wire'[j] = wire[j] /\ out'[j] = out[j]
                                    /\ writing'[j] = writing[j]
  BY DEF PumpTakes, PumpWrites, lifeVars, streamVars, SafeInv, TypeOK
<1>2. UNCHANGED <<Phase, Broken, Requests>>
  BY <1>1, SameOwed DEF Requests
<1>3. Owed'[i] = Owed[i]
  <2>0. /\ wire[i] \in Seq(Msgs) /\ writing[i] \in Seq(Msgs) /\ out[i] \in Seq(Msgs)
        /\ wire[i] \o writing[i] \in Seq(Msgs)
    BY StreamTypes, Closed DEF SafeInv
  <2>1. CASE PumpTakes(i)
    <3> DEFINE w == wire[i]
               h == <<Head(out[i])>>
               t == Tail(out[i])
    <3>1. /\ wire' = wire /\ writing[i] = <<>> /\ writing'[i] = h
          /\ out'[i] = t /\ out[i] # <<>>
      BY <2>1 DEF PumpTakes, SafeInv, TypeOK
    <3>2. w \in Seq(Msgs) /\ h \in Seq(Msgs) /\ t \in Seq(Msgs) /\ h \o t = out[i]
      BY <2>0, <3>1, HeadRest
    <3>3. Owed[i] = (w \o <<>>) \o out[i] /\ Owed'[i] = (w \o h) \o t
      BY <3>1 DEF Owed
    <3> HIDE DEF w, h, t
    <3>4. w \o (h \o t) = (w \o h) \o t
      BY <3>2, Associative
    <3> QED BY <3>2, <3>3, <3>4, ConcatEmptySeq
  <2>2. CASE PumpWrites(i)
    <3> DEFINE p == wire[i] \o writing[i]
    <3>1. wire'[i] = p /\ writing'[i] = <<>> /\ out' = out
      BY <2>2 DEF PumpWrites, SafeInv, TypeOK
    <3>2. p \in Seq(Msgs) /\ Owed[i] = p \o out[i]
      BY <2>0 DEF Owed
    <3> HIDE DEF p
    <3>3. Owed'[i] = (p \o <<>>) \o out[i]
      BY <3>1 DEF Owed
    <3> QED BY <3>2, <3>3, ConcatEmptySeq
  <2> QED BY <2>1, <2>2
<1>4. Owed' = Owed
  <2>1. Owed' = [Owed EXCEPT ![i] = Owed[i]]
    BY <1>1, <1>3, OneOwes
  <2> QED BY <2>1 DEF Owed
<1> QED BY <1>1, <1>2, <1>4 DEF Service!vars, Service!appVars, Service!streamVars

LEMMA ReceiveDelivers ==
  ASSUME SafeInv, NEW i \in Streams, ServerReceives(i) PROVE Service!Deliver(i)
<1>1. /\ wire[i] # <<>> /\ wire'[i] = Tail(wire[i])
      /\ UNCHANGED <<life, item, queue, opened, running, out, writing, status>>
      /\ received' = [received EXCEPT ![i] = Append(@, Head(wire[i]))]
      /\ \A j \in Streams : j # i => wire'[j] = wire[j]
  BY DEF ServerReceives, lifeVars, streamVars, SafeInv, TypeOK
<1>2. UNCHANGED <<Phase, Broken, Requests>>
  BY <1>1, SameOwed DEF Requests
<1> DEFINE w == wire[i]
           r == writing[i]
           o == out[i]
<1>3. w \in Seq(Msgs) /\ r \in Seq(Msgs) /\ o \in Seq(Msgs) /\ w # <<>>
  BY <1>1, StreamTypes DEF SafeInv
<1>4. Owed[i] = (w \o r) \o o /\ Owed'[i] = (Tail(w) \o r) \o o
  BY <1>1 DEF Owed
<1>5. Head(w) = Head(wire[i])
  OBVIOUS
<1> HIDE DEF w, r, o
<1>6. w \o r \in Seq(Msgs) /\ w \o r # <<>> /\ Head(w \o r) = Head(w)
      /\ Tail(w \o r) = Tail(w) \o r
  BY <1>3, HeadOfConcat, Closed
<1>7. Owed[i] # <<>> /\ Head(Owed[i]) = Head(w) /\ Owed'[i] = Tail(Owed[i])
  <2> DEFINE p == w \o r
  <2>1. p \in Seq(Msgs) /\ p # <<>> /\ Owed[i] = p \o o /\ Owed'[i] = Tail(p) \o o
    BY <1>4, <1>6
  <2>2. Head(p) = Head(w)
    BY <1>6
  <2> HIDE DEF p
  <2> QED BY <1>3, <2>1, <2>2, HeadOfConcat
<1>8. Owed' = [Owed EXCEPT ![i] = Tail(Owed[i])]
  BY <1>1, <1>7, OneOwes
<1> QED BY <1>1, <1>2, <1>5, <1>7, <1>8 DEF Service!Deliver, Service!appVars

LEMMA EndBreaks ==
  ASSUME SafeInv, NEW i \in Streams, PumpEnds(i) \/ WireLost(i)
  PROVE  Service!Break(i)
<1> DEFINE w == wire[i]
           r == writing[i]
           o == out[i]
<1>0. /\ w \in Seq(Msgs) /\ r \in Seq(Msgs) /\ o \in Seq(Msgs)
      /\ w \o r \in Seq(Msgs) /\ (w \o r) \o o \in Seq(Msgs)
      /\ Owed[i] = (w \o r) \o o
  BY StreamTypes, Closed DEF SafeInv, Owed
<1>1. /\ UNCHANGED <<life, item, queue, opened, received, status>>
      /\ \A j \in Streams : j # i => /\ wire'[j] = wire[j] /\ out'[j] = out[j]
                                    /\ writing'[j] = writing[j]
      /\ i <= opened /\ running' = running \ {i}
      /\ writing'[i] = <<>> /\ out'[i] = <<>>
      /\ wire'[i] \in {<<>>, w, w \o r}
  <2>1. CASE PumpEnds(i)
    BY <2>1 DEF PumpEnds, lifeVars, streamVars, SafeInv, TypeOK
  <2>2. CASE WireLost(i)
    <3>1. i \in Nat /\ opened \in Nat /\ StreamInv(i)
      BY DEF SafeInv, TypeOK, Streams
    <3> QED BY <2>2, <3>1
            DEF WireLost, StreamInv, lifeVars, streamVars, SafeInv, TypeOK
  <2> QED BY <2>1, <2>2
<1>2. UNCHANGED <<Phase, Requests>> /\ Broken' = Broken \cup {i}
  BY <1>1, SameOwed DEF Requests, Broken
<1>3. Owed'[i] = wire'[i]
  <2>1. Owed'[i] = (wire'[i] \o <<>>) \o <<>>
    BY <1>1 DEF Owed
  <2>2. wire'[i] \in Seq(Msgs)
    <3>1. <<>> \in Seq(Msgs)
      OBVIOUS
    <3> QED BY <1>0, <1>1, <3>1
  <2> QED BY <2>1, <2>2, ConcatEmptySeq
<1>4. \E n \in 0..Len(Owed[i]) : Owed'[i] = SubSeq(Owed[i], 1, n)
  <2> HIDE DEF w, r, o
  <2>1. CASE wire'[i] = <<>>
    <3>1. Len(<<>>) \in 0..Len(<<>> \o Owed[i])
          /\ <<>> = SubSeq(<<>> \o Owed[i], 1, Len(<<>>))
      BY <1>0, BeginningOfConcat
    <3>2. <<>> \o Owed[i] = Owed[i]
      BY <1>0, ConcatEmptySeq
    <3> QED BY <1>3, <2>1, <3>1, <3>2
  <2>2. CASE wire'[i] = w
    <3>1. (w \o r) \o o = w \o (r \o o) /\ r \o o \in Seq(Msgs)
      BY <1>0, Associative, Closed
    <3>2. Len(w) \in 0..Len(Owed[i]) /\ w = SubSeq(Owed[i], 1, Len(w))
      BY <1>0, <3>1, BeginningOfConcat
    <3> QED BY <1>3, <2>2, <3>2
  <2>3. CASE wire'[i] = w \o r
    <3>1. Len(w \o r) \in 0..Len(Owed[i]) /\ w \o r = SubSeq(Owed[i], 1, Len(w \o r))
      BY <1>0, BeginningOfConcat
    <3> QED BY <1>3, <2>3, <3>1
  <2> QED BY <1>1, <2>1, <2>2, <2>3
<1>5. PICK n \in 0..Len(Owed[i]) : Owed' = [Owed EXCEPT ![i] = SubSeq(Owed[i], 1, n)]
  BY <1>1, <1>4, OneOwes
<1> QED BY <1>1, <1>2, <1>5 DEF Service!Break, Service!appVars

LEMMA StepIsCourier ==
  ASSUME SafeInv, [Next]_vars PROVE [Service!Next]_(Service!vars)
<1>1. CASE App
  <2>1. CASE Shutdown \/ Start
    BY <2>1, LifeServes, SameOwed
       DEF Shutdown, Service!Next, Service!vars, Service!appVars,
           Service!streamVars, streamVars, pumpVars, Requests
  <2> QED BY <1>1, <2>1, DispatchSubmits DEF App, Service!Next
<1>2. CASE Loop
  BY <1>2, LifeServes, HandlerHandles, SendMessageRefuses,
     FrameRefusedRefuses, FrameEnqueuedGives DEF Loop, HandlerSteps, Service!Next
<1>3. CASE \E i \in Streams : Stream(i)
  BY <1>3, PumpUnseen, ReceiveDelivers, EndBreaks DEF Stream, Service!Next
<1>4. CASE UNCHANGED vars
  BY <1>4, SameOwed
     DEF vars, lifeVars, streamVars, pumpVars, Requests, Service!vars,
         Service!appVars, Service!streamVars
<1> QED BY <1>1, <1>2, <1>3, <1>4 DEF Next

LEMMA InitIsCourier == Init => Service!Init
<1> SUFFICES ASSUME Init PROVE Service!Init
  OBVIOUS
<1>1. <<>> \o <<>> = <<>>
  BY ConcatEmptySeq
<1>2. Requests = <<>> /\ Phase = "starting"
  BY <1>1 DEF Init, Requests, Phase
<1>3. Owed = [i \in Streams |-> <<>>]
  BY <1>1 DEF Init, Owed
<1>4. Broken = {}
  BY DEF Init, Broken, Streams
<1> QED BY <1>2, <1>3, <1>4 DEF Init, Service!Init

\* The queues, pumps and handles of the engine implement the courier: once the
\* loop runs, every message it accepted is answered in order, SENT is reported
\* exactly of those a stream took, and a stream delivers a beginning of them.
THEOREM EngineIsCourier == Spec => ImplementsCourier
BY InitIsCourier, StepIsCourier, SafeInvAlways, PTL
   DEF Spec, ImplementsCourier, Service!Spec
=============================================================================
