---------------------------- MODULE DeliveryProofs ----------------------------
(* Theorems about Delivery, for every log, every set of contacts, any faults *)
(* and any bounds.                                                           *)
EXTENDS Delivery, TLAPS

-----------------------------------------------------------------------------
(* What handling a message does to the engine's data, by whichever path.     *)

Accounted(n) == n \in given \cup failed \/ InFlight(n)

\* Types of everything a handler changes.
HandledType ==
  /\ acks' \in [Streams -> SUBSET Msgs]
  /\ timers' \in [Msgs -> Nat]
  /\ heal' \in [Contacts -> 0..(MaxAttempts - 1)]
  /\ told' \subseteq Contacts
  /\ done' \subseteq Msgs /\ session' \in [Contacts -> 0..Last]
  /\ saved' \in [done : SUBSET Msgs, session : [Contacts -> 0..Last]]
  /\ given' \subseteq Msgs /\ failed' \subseteq Msgs

\* m's fate is known or a timer keeps it; no other message is touched, and a
\* receipt is only for what the app was given.
HandledFate(m) ==
  /\ \/ given' = given \cup {m} /\ failed' = failed \ {m}
     \/ given' = given /\ failed' \in {failed, failed \cup {m}}
  /\ \A n \in Msgs : timers'[n] >= timers[n] /\ (n # m => timers'[n] = timers[n])
  /\ m \in given' \cup failed' \/ timers'[m] > 0
  /\ \A i \in Streams : acks'[i] \subseteq acks[i] \cup (given' \cap {m})

\* The core only grows, what is saved is all of it or what was saved before, and
\* with exports that succeed a receipt is only for what is saved.
HandledSave ==
  /\ done \subseteq done'
  /\ saved' = saved \/ saved'.done = done'
  /\ "export" \notin Faults =>
       \A i \in Streams : acks'[i] \subseteq acks[i] \cup saved'.done

\* The healing record of m's sender is closed, or the app was told, or m will
\* be tried again; other records stay as they are.
HandledHealing(m) ==
  /\ \A c \in Contacts : c # Sender[m] =>
       heal'[c] = heal[c] /\ (c \in told => c \in told')
  /\ heal'[Sender[m]] = 0 \/ Sender[m] \in told' \/ timers'[m] > 0

LEMMA GiveUpFate ==
  ASSUME TypeOK, NEW m \in Msgs, GiveUp(m), timers' = timers
  PROVE  /\ HandledFate(m)
         /\ HandledSave
         /\ acks' \in [Streams -> SUBSET Msgs]
         /\ done' \subseteq Msgs /\ session' \in [Contacts -> 0..Last]
         /\ saved' \in [done : SUBSET Msgs, session : [Contacts -> 0..Last]]
         /\ given' \subseteq Msgs /\ failed' \subseteq Msgs
BY DEF TypeOK, GiveUp, HandledFate, HandledSave

\* send_ack_frame queues a receipt for m on one stream at most.
LEMMA AckFrameQueued ==
  ASSUME TypeOK, NEW m \in Msgs, SendAckFrame(m) \/ UNCHANGED acks
  PROVE  /\ acks' \in [Streams -> SUBSET Msgs]
         /\ \A i \in Streams : acks'[i] \subseteq acks[i] \cup {m}
<1>1. CASE acks' = [acks EXCEPT ![stream] = @ \cup {m}]
  BY <1>1 DEF TypeOK
<1>2. CASE acks' = acks
  BY <1>2 DEF TypeOK
<1> QED BY <1>1, <1>2 DEF SendAckFrame

\* Save leaves a snapshot of the core in the Keychain, or what was there.
LEMMA SaveKeeps ==
  ASSUME TypeOK, done' \subseteq Msgs, session' \in [Contacts -> 0..Last],
         Save \/ UNCHANGED saved
  PROVE  /\ saved' \in [done : SUBSET Msgs, session : [Contacts -> 0..Last]]
         /\ saved' = saved \/ saved'.done = done'
         /\ Save /\ "export" \notin Faults => saved'.done = done'
BY DEF TypeOK, Save, InMemory

\* handle_decrypt_message and its form in a batch
LEMMA DecryptHandles ==
  ASSUME TypeOK, NEW m \in Msgs,
         DecryptMessage(m) \/ DecryptInBatch(m)
  PROVE  HandledType /\ HandledFate(m) /\ HandledSave /\ UNCHANGED healVars
<1>1. CASE GiveUp(m) /\ UNCHANGED healVars
  BY <1>1, GiveUpFate DEF TypeOK, HandledType, healVars
<1>2. CASE /\ Read(m)
           /\ UNCHANGED <<session, healVars>>
           /\ \/ SendAckFrame(m) /\ Save
              \/ UNCHANGED <<acks, saved>>
  <2>1. /\ acks' \in [Streams -> SUBSET Msgs]
        /\ \A i \in Streams : acks'[i] \subseteq acks[i] \cup {m}
    BY <1>2, AckFrameQueued
  <2>2. done' \subseteq Msgs /\ session' \in [Contacts -> 0..Last]
    BY <1>2 DEF TypeOK, Read
  <2>3. /\ saved' \in [done : SUBSET Msgs, session : [Contacts -> 0..Last]]
        /\ saved' = saved \/ saved'.done = done'
        /\ "export" \notin Faults /\ SendAckFrame(m) /\ Save => saved'.done = done'
    BY <1>2, <2>2, SaveKeeps
  <2>4. HandledType
    BY <1>2, <2>1, <2>2, <2>3 DEF TypeOK, HandledType, Read, healVars
  <2>5. HandledFate(m)
    BY <1>2, <2>1 DEF TypeOK, HandledFate, Read, healVars
  <2>6. HandledSave
    <3>1. CASE SendAckFrame(m) /\ Save
      BY <1>2, <2>1, <2>3, <3>1 DEF HandledSave, Read
    <3>2. CASE UNCHANGED <<acks, saved>>
      BY <1>2, <3>2 DEF HandledSave, Read
    <3> QED BY <1>2, <3>1, <3>2
  <2> QED BY <1>2, <2>4, <2>5, <2>6
<1> QED BY <1>1, <1>2 DEF DecryptMessage, DecryptInBatch

\* handle_session_init_responder
LEMMA InitHandles ==
  ASSUME TypeOK, NEW m \in Msgs,
         SessionInitResponder(m)
  PROVE  HandledType /\ HandledFate(m) /\ HandledSave /\ HandledHealing(m)
<1> DEFINE s == Sender[m]
<1>0. s \in Contacts /\ m \in 0..Last /\ 0 \in 0..(MaxAttempts - 1)
  BY LogAssumption, BoundsAssumption DEF Msgs
<1>1. CASE BundleFails(m)
  <2>1. GiveUp(m) /\ timers' = timers
    BY <1>1 DEF BundleFails
  <2> QED BY <1>0, <1>1, <2>1, GiveUpFate
          DEF TypeOK, BundleFails, HandledType, HandledHealing
<1>2. CASE SessionEstablished(m)
  <2>1. /\ acks' \in [Streams -> SUBSET Msgs]
        /\ \A i \in Streams : acks'[i] \subseteq acks[i] \cup {m}
    BY <1>2, AckFrameQueued DEF SessionEstablished
  <2>2. done' \subseteq Msgs /\ session' \in [Contacts -> 0..Last]
    BY <1>0, <1>2 DEF TypeOK, SessionEstablished, Read
  <2>3. /\ saved' \in [done : SUBSET Msgs, session : [Contacts -> 0..Last]]
        /\ saved' = saved \/ saved'.done = done'
        /\ "export" \notin Faults => saved'.done = done'
    BY <1>2, <2>2, SaveKeeps DEF SessionEstablished
  <2>4. /\ heal' \in [Contacts -> 0..(MaxAttempts - 1)]
        /\ heal'[s] = 0 /\ \A c \in Contacts : c # s => heal'[c] = heal[c]
    BY <1>0, <1>2 DEF TypeOK, SessionEstablished
  <2>5. Read(m) /\ UNCHANGED <<timers, told>>
    BY <1>2 DEF SessionEstablished
  <2>6. HandledType
    BY <2>1, <2>2, <2>3, <2>4, <2>5 DEF TypeOK, HandledType, Read
  <2>7. HandledFate(m)
    BY <2>1, <2>5 DEF TypeOK, HandledFate, Read
  <2>8. HandledSave
    BY <2>1, <2>3, <2>5 DEF HandledSave, Read
  <2>9. HandledHealing(m)
    BY <2>4, <2>5 DEF HandledHealing
  <2> QED BY <2>6, <2>7, <2>8, <2>9
<1>3. CASE RetryAllowed(m)
  <2>1. HandledType
    <3>1. heal' \in [Contacts -> 0..(MaxAttempts - 1)]
      BY <1>0, <1>3, BoundsAssumption DEF TypeOK, RetryAllowed
    <3>2. timers' \in [Msgs -> Nat]
      BY <1>3 DEF TypeOK, RetryAllowed
    <3> QED BY <1>3, <3>1, <3>2 DEF TypeOK, RetryAllowed, HandledType, readVars
  <2> QED BY <1>0, <1>3, <2>1
          DEF TypeOK, RetryAllowed, HandledFate, HandledSave, HandledHealing,
              readVars
<1>4. CASE MaxAttemptsReached(m)
  <2>1. GiveUp(m) /\ timers' = timers
    BY <1>4 DEF MaxAttemptsReached
  <2> QED BY <1>0, <1>4, <2>1, GiveUpFate
          DEF TypeOK, MaxAttemptsReached, HandledType, HandledHealing
<1> QED BY <1>1, <1>2, <1>3, <1>4 DEF SessionInitResponder

-----------------------------------------------------------------------------
(* The inductive invariant.                                                  *)

\* Receipts are on their way only for messages the app was given.
AckInv ==
  /\ Msgs \ stored \subseteq given
  /\ \A i \in Streams : acks[i] \subseteq given

\* n lies behind a place the engine or one of its streams has reached.
Passed(n) ==
  \/ n <= Cursor
  \/ \E i \in Streams : n <= pos[i]
  \/ \E k \in DOMAIN frames : n <= frames[k].cursor

\* NoGap speaks of the cursor only; what the cursor will move to is in the
\* frames, and what these will carry is the position of a stream.
ReachInv == \A n \in Msgs : Passed(n) => Accounted(n)

SafeInv == TypeOK /\ AckInv /\ ReachInv /\ HealingAttended

LEMMA InitSafe == Init => SafeInv
<1> SUFFICES ASSUME Init PROVE SafeInv
  OBVIOUS
<1> USE DEF Init
<1>1. TypeOK
  <2>1. /\ done \subseteq Msgs /\ session \in [Contacts -> 0..Last]
        /\ saved \in [done : SUBSET Msgs, session : [Contacts -> 0..Last]]
    BY LogAssumption DEF InMemory
  <2>2. /\ params \in 0..Last \cup {None}
        /\ opened \in 0..MaxStreams /\ stream \in 0..opened
        /\ running \subseteq 1..opened
        /\ pos \in [Streams -> 0..Last] /\ acks \in [Streams -> SUBSET Msgs]
        /\ frames \in Seq(Frame)
        /\ timers \in [Msgs -> Nat]
        /\ heal \in [Contacts -> 0..(MaxAttempts - 1)]
    BY LogAssumption, BoundsAssumption DEF Streams, Frame
  <2> QED BY <2>1, <2>2 DEF TypeOK
<1>2. AckInv
  BY DEF AckInv
<1>3. ReachInv
  BY DEF ReachInv, Passed, Cursor, Msgs
<1>4. HealingAttended
  BY DEF HealingAttended
<1> QED BY <1>1, <1>2, <1>3, <1>4 DEF SafeInv

\* A step that handles nothing and keeps the queue and the timers keeps every
\* message accounted for.
LEMMA SameQueues ==
  ASSUME UNCHANGED <<frames, healVars, given, failed>>
  PROVE  /\ \A n \in Msgs : Accounted(n) => Accounted(n)'
         /\ HealingAttended => HealingAttended'
BY DEF Accounted, InFlight, Queued, Retrying, HealingAttended, RetryUnderWay,
       healVars, readVars, appVars

\* A frame more in the queue loses nothing either.
LEMMA LongerQueue ==
  ASSUME TypeOK, NEW f \in Frame, frames' = Append(frames, f),
         UNCHANGED <<healVars, readVars, appVars>>
  PROVE  /\ \A n \in Msgs : Accounted(n) => Accounted(n)'
         /\ HealingAttended => HealingAttended'
         /\ frames' \in Seq(Frame)
         /\ \A k \in DOMAIN frames' : (k \in DOMAIN frames /\ frames'[k] = frames[k])
                                      \/ frames'[k] = f
         /\ \E k \in DOMAIN frames' : frames'[k] = f
<1>1. /\ frames' \in Seq(Frame)
      /\ \A k \in DOMAIN frames : k \in DOMAIN frames' /\ frames'[k] = frames[k]
      /\ \A k \in DOMAIN frames' : (k \in DOMAIN frames /\ frames'[k] = frames[k])
                                   \/ frames'[k] = f
      /\ Len(frames) + 1 \in DOMAIN frames' /\ frames'[Len(frames) + 1] = f
  BY DEF TypeOK
<1>2. \A n \in Msgs : Accounted(n) => Accounted(n)'
  BY <1>1 DEF Accounted, InFlight, Queued, Retrying, healVars, readVars, appVars
<1>3. HealingAttended => HealingAttended'
  BY <1>1 DEF HealingAttended, RetryUnderWay, Retrying, healVars
<1> QED BY <1>1, <1>2, <1>3

\* Opening a stream, or dropping the handle.
LEMMA OpenSafe ==
  ASSUME SafeInv, OpenMessageStream \/ ReopenStream \/ Reconnect
                  \/ CloseMessageStream
  PROVE  SafeInv'
<1>1. UNCHANGED <<frames, healVars, readVars, appVars, acks, stored>>
  BY DEF OpenMessageStream, ReopenStream, Reconnect, CloseMessageStream
<1>2. /\ params' \in 0..Last \cup {None}
      /\ Cursor \in 0..Last /\ Cursor' \in {0, Cursor}
  BY LogAssumption DEF SafeInv, TypeOK, Cursor, OpenMessageStream,
                        ReopenStream, Reconnect, CloseMessageStream
<1>3. /\ opened' \in 0..MaxStreams /\ stream' \in 0..opened'
      /\ running' \subseteq 1..opened'
      /\ pos' \in [Streams -> 0..Last]
      /\ \A i \in Streams : pos'[i] \in {pos[i], Cursor, 0}
  <2>1. ASSUME NEW c \in {0, Cursor}, Subscribe(c)
        PROVE  /\ opened' \in 0..MaxStreams /\ stream' \in 0..opened'
               /\ running' \subseteq 1..opened'
               /\ pos' \in [Streams -> 0..Last]
               /\ \A i \in Streams : pos'[i] \in {pos[i], Cursor, 0}
    <3>1. c \in 0..Last /\ 0 \in 0..Last
      BY <1>2, LogAssumption
    <3>2. /\ opened' \in 0..MaxStreams /\ stream' \in 0..opened'
          /\ running' \subseteq 1..opened'
      BY <2>1, BoundsAssumption DEF SafeInv, TypeOK, Subscribe
    <3> QED BY <2>1, <3>1, <3>2 DEF SafeInv, TypeOK, Subscribe
  <2>2. CASE stream' \in {stream, 0} /\ UNCHANGED <<opened, running, pos>>
    BY <2>2, BoundsAssumption DEF SafeInv, TypeOK
  <2> QED BY <2>1, <2>2 DEF streamVars, OpenMessageStream, ReopenStream,
                             Reconnect, CloseMessageStream
<1>4. TypeOK'
  BY <1>1, <1>2, <1>3 DEF SafeInv, TypeOK, healVars, readVars, appVars
<1>5. ReachInv'
  <2> SUFFICES ASSUME NEW n \in Msgs, Passed(n)' PROVE Accounted(n)'
    BY DEF ReachInv
  <2>0. n \in Nat /\ n > 0
    BY DEF Msgs
  <2>1. ASSUME n <= Cursor' PROVE Passed(n)
    <3>1. n <= Cursor
      BY <1>2, <2>0, <2>1
    <3> QED BY <3>1 DEF Passed
  <2>2. ASSUME NEW i \in Streams, n <= pos'[i] PROVE Passed(n)
    <3>1. n <= pos[i] \/ n <= Cursor
      BY <1>3, <2>0, <2>2
    <3> QED BY <3>1 DEF Passed
  <2>3. Passed(n)
    BY <1>1, <2>1, <2>2 DEF Passed
  <2> QED BY <1>1, <2>3, SameQueues DEF SafeInv, ReachInv, readVars
<1> QED BY <1>1, <1>4, <1>5, SameQueues DEF SafeInv, AckInv, readVars, appVars

\* The server sends what follows in its log: what a stream skips was acknowledged.
LEMMA PumpDeliversSafe ==
  ASSUME SafeInv, NEW i \in Streams, PumpDelivers(i) PROVE SafeInv'
<1>1. PICK m \in Msgs :
        /\ NextOn(i, m)
        /\ pos' = [pos EXCEPT ![i] = m]
        /\ frames' = Append(frames, Sent(m))
  BY DEF PumpDelivers
<1>2. Sent(m) \in Frame /\ Sent(m).cursor = m /\ Sent(m).msg = m
  BY DEF Sent, Frame, Msgs
<1>3. UNCHANGED <<params, stream, opened, running, acks, stored, healVars,
                  readVars, appVars>>
  BY DEF PumpDelivers
<1>4. /\ \A n \in Msgs : Accounted(n) => Accounted(n)'
      /\ HealingAttended'
      /\ frames' \in Seq(Frame)
      /\ \A k \in DOMAIN frames' : (k \in DOMAIN frames /\ frames'[k] = frames[k])
                                   \/ frames'[k] = Sent(m)
      /\ \E k \in DOMAIN frames' : frames'[k] = Sent(m)
  BY <1>1, <1>2, <1>3, LongerQueue DEF SafeInv
<1>5. TypeOK'
  BY <1>1, <1>3, <1>4 DEF SafeInv, TypeOK, healVars, readVars, appVars, Msgs
<1>6. ReachInv'
  <2> SUFFICES ASSUME NEW n \in Msgs, Passed(n)' PROVE Accounted(n)'
    BY DEF ReachInv
  <2>1. CASE n = m
    BY <1>2, <1>4, <2>1 DEF Accounted, InFlight, Queued
  <2>2. CASE n # m /\ n <= m /\ n > pos[i]
    <3>1. n \notin stored
      BY <1>1, <2>2 DEF NextOn, Msgs
    <3> QED BY <1>4, <3>1 DEF SafeInv, AckInv, Accounted
  <2>3. CASE n > m \/ n <= pos[i]
    <3>1. Passed(n)
      BY <1>1, <1>2, <1>3, <1>4, <2>3
         DEF Passed, Cursor, SafeInv, TypeOK, Msgs
    <3> QED BY <1>4, <3>1 DEF SafeInv, ReachInv
  <2> QED BY <2>1, <2>2, <2>3 DEF SafeInv, TypeOK, Msgs
<1> QED BY <1>3, <1>4, <1>5, <1>6 DEF SafeInv, AckInv, readVars, appVars

LEMMA PumpDeliversOtherSafe ==
  ASSUME SafeInv, NEW i \in Streams, PumpDeliversOther(i) PROVE SafeInv'
<1> DEFINE f == [msg |-> 0, cursor |-> pos[i]]
<1>1. f \in Frame /\ frames' = Append(frames, f) /\ f.cursor = pos[i]
  BY LogAssumption DEF SafeInv, TypeOK, Frame, PumpDeliversOther
<1>2. UNCHANGED <<params, streamVars, acks, stored, healVars, readVars, appVars>>
  BY DEF PumpDeliversOther
<1> HIDE DEF f
<1>3. /\ \A n \in Msgs : Accounted(n) => Accounted(n)'
      /\ HealingAttended'
      /\ frames' \in Seq(Frame)
      /\ \A k \in DOMAIN frames' : (k \in DOMAIN frames /\ frames'[k] = frames[k])
                                   \/ frames'[k] = f
  BY <1>1, <1>2, LongerQueue DEF SafeInv
<1>4. TypeOK'
  BY <1>2, <1>3 DEF SafeInv, TypeOK, streamVars, healVars, readVars, appVars
<1>5. ReachInv'
  <2> SUFFICES ASSUME NEW n \in Msgs, Passed(n)' PROVE Accounted(n)'
    BY DEF ReachInv
  <2>1. Passed(n)
    BY <1>1, <1>2, <1>3 DEF Passed, Cursor, streamVars
  <2> QED BY <1>3, <2>1 DEF SafeInv, ReachInv
<1> QED BY <1>2, <1>3, <1>4, <1>5 DEF SafeInv, AckInv, readVars, appVars

LEMMA PumpSendsSafe ==
  ASSUME SafeInv, NEW i \in Streams, PumpSends(i) PROVE SafeInv'
<1> USE DEF PumpSends
<1>1. UNCHANGED <<params, streamVars, frames, healVars, readVars, appVars>>
  OBVIOUS
<1>2. TypeOK'
  BY <1>1 DEF SafeInv, TypeOK, streamVars, healVars, readVars, appVars
<1>3. AckInv'
  BY <1>1 DEF SafeInv, AckInv, TypeOK, readVars, appVars
<1>4. ReachInv'
  BY <1>1, SameQueues DEF SafeInv, ReachInv, Passed, Cursor, streamVars, readVars
<1> QED BY <1>1, <1>2, <1>3, <1>4, SameQueues DEF SafeInv, readVars

LEMMA PumpEndsSafe ==
  ASSUME SafeInv, NEW i \in Streams, PumpEnds(i) PROVE SafeInv'
<1> USE DEF PumpEnds
<1>1. UNCHANGED <<params, stream, opened, frames, healVars, readVars, appVars, stored>>
  OBVIOUS
<1>2. TypeOK'
  BY <1>1, LogAssumption DEF SafeInv, TypeOK, healVars, readVars, appVars
<1>3. AckInv'
  BY <1>1 DEF SafeInv, AckInv, TypeOK, readVars, appVars
<1>4. ReachInv'
  <2> SUFFICES ASSUME NEW n \in Msgs, Passed(n)' PROVE Accounted(n)'
    BY DEF ReachInv
  <2>1. Passed(n)
    BY <1>1 DEF Passed, Cursor, Msgs, SafeInv, TypeOK
  <2> QED BY <1>1, <2>1, SameQueues DEF SafeInv, ReachInv, readVars
<1> QED BY <1>1, <1>2, <1>3, <1>4, SameQueues DEF SafeInv, readVars

-----------------------------------------------------------------------------
(* Handling what is in the queue, in the timers or fetched in a batch.       *)

\* A retry of n waits in the queue.
RetryQueued(n) == \E k \in DOMAIN frames : frames[k] = Retried(n)

LEMMA HandlingKeeps ==
  ASSUME TypeOK, NEW m \in Msgs, HandledFate(m),
         \A n \in Msgs : n # m /\ Queued(n) => Queued(n)'
  PROVE  \A n \in Msgs : Accounted(n) => Accounted(n)'
<1> SUFFICES ASSUME NEW n \in Msgs, Accounted(n) PROVE Accounted(n)'
  OBVIOUS
<1>1. CASE n = m
  BY <1>1 DEF HandledFate, Accounted, InFlight, Retrying
<1>2. CASE n # m
  BY <1>2 DEF HandledFate, Accounted, InFlight, Retrying
<1> QED BY <1>1, <1>2

LEMMA HealingKeeps ==
  ASSUME TypeOK, HealingAttended, NEW m \in Firsts,
         HandledFate(m), HandledHealing(m),
         \A n \in Firsts : n # m /\ RetryQueued(n) => RetryQueued(n)'
  PROVE  HealingAttended'
<1> SUFFICES ASSUME NEW c \in Contacts, heal'[c] > 0
             PROVE  c \in told' \/ \E n \in Firsts :
                                     Sender[n] = c /\ RetryUnderWay(n)'
  BY DEF HealingAttended
<1>0. m \in Msgs /\ Firsts \subseteq Msgs
  BY LogAssumption
<1>1. CASE c = Sender[m]
  BY <1>1, <1>0 DEF HandledHealing, RetryUnderWay, Retrying
<1>2. CASE c # Sender[m]
  <2>1. c \in told => c \in told'
    BY <1>2 DEF HandledHealing
  <2>2. heal[c] > 0
    BY <1>2 DEF HandledHealing
  <2>3. c \in told \/ \E n \in Firsts : Sender[n] = c /\ RetryUnderWay(n)
    BY <2>2 DEF HealingAttended
  <2>4. ASSUME NEW n \in Firsts, Sender[n] = c, RetryUnderWay(n)
        PROVE  RetryUnderWay(n)'
    <3>1. n \in Msgs /\ n # m
      BY <1>0, <1>2, <2>4
    <3>2. timers'[n] = timers[n]
      BY <3>1 DEF HandledFate
    <3>3. CASE RetryQueued(n)
      BY <3>1, <3>3 DEF RetryQueued, RetryUnderWay
    <3>4. CASE Retrying(n)
      BY <3>2, <3>4 DEF Retrying, RetryUnderWay
    <3> QED BY <2>4, <3>3, <3>4 DEF RetryUnderWay, RetryQueued
  <2> QED BY <2>1, <2>3, <2>4
<1> QED BY <1>1, <1>2

\* Nothing is done about healing, and no retry leaves the queue.
LEMMA QuietHealing ==
  ASSUME HealingAttended, UNCHANGED healVars,
         \A n \in Firsts : RetryQueued(n) => RetryQueued(n)'
  PROVE  HealingAttended'
BY DEF HealingAttended, RetryUnderWay, RetryQueued, Retrying, healVars

LEMMA ShorterQueue ==
  ASSUME TypeOK, frames # <<>>, frames' = Tail(frames)
  PROVE  /\ frames' \in Seq(Frame)
         /\ 1 \in DOMAIN frames /\ Head(frames) = frames[1]
         /\ Head(frames) \in Frame
         /\ \A k \in DOMAIN frames' :
              k + 1 \in DOMAIN frames /\ frames'[k] = frames[k + 1]
         /\ \A k \in DOMAIN frames :
              k = 1 \/ (k - 1 \in DOMAIN frames' /\ frames'[k - 1] = frames[k])
BY DEF TypeOK

LEMMA AckInvKept ==
  ASSUME TypeOK, AckInv, NEW m \in Msgs, HandledFate(m), stored' = stored
  PROVE  AckInv'
<1>1. given \subseteq given'
  BY DEF HandledFate
<1> QED BY <1>1 DEF AckInv, HandledFate

LEMMA BackgroundPushSafe ==
  ASSUME SafeInv, NEW m \in Msgs, BackgroundPush(m) PROVE SafeInv'
<1>1. /\ UNCHANGED <<params, streamVars, frames, stored>>
      /\ batch' = TRUE /\ byApp' = byApp
  BY DEF BackgroundPush
<1>2. HandledType /\ HandledFate(m)
  BY DecryptHandles, InitHandles DEF SafeInv, BackgroundPush
<1>3. TypeOK'
  BY <1>1, <1>2 DEF SafeInv, TypeOK, HandledType, streamVars
<1>4. ReachInv'
  <2>1. \A n \in Msgs : Accounted(n) => Accounted(n)'
    <3>1. \A n \in Msgs : Queued(n) => Queued(n)'
      BY <1>1 DEF Queued
    <3> QED BY <1>2, <3>1, HandlingKeeps DEF SafeInv
  <2> QED BY <1>1, <2>1 DEF SafeInv, ReachInv, Passed, Cursor, streamVars
<1>5. HealingAttended'
  <2>1. \A n \in Firsts : RetryQueued(n) => RetryQueued(n)'
    BY <1>1 DEF RetryQueued, Retried
  <2>2. CASE m \in Firsts /\ SessionInitResponder(m)
    BY <1>2, <2>1, <2>2, InitHandles, HealingKeeps DEF SafeInv
  <2>3. CASE DecryptInBatch(m)
    BY <2>1, <2>3, DecryptHandles, QuietHealing DEF SafeInv
  <2> QED BY <2>2, <2>3 DEF BackgroundPush
<1> QED BY <1>1, <1>2, <1>3, <1>4, <1>5, AckInvKept DEF SafeInv

LEMMA RetryTimerSafe ==
  ASSUME SafeInv, NEW m \in Msgs, RetryTimer(m) PROVE SafeInv'
<1> DEFINE r == Retried(m)
<1>1. /\ timers[m] > 0 /\ timers' = [timers EXCEPT ![m] = @ - 1]
      /\ frames' = Append(frames, r)
      /\ UNCHANGED <<params, streamVars, acks, heal, told, readVars, appVars, stored>>
  BY DEF RetryTimer
<1>2. r \in Frame /\ r.cursor = 0 /\ r.msg = m
  BY LogAssumption DEF Retried, Frame, Msgs
<1>3. /\ frames' \in Seq(Frame)
      /\ \A k \in DOMAIN frames : k \in DOMAIN frames' /\ frames'[k] = frames[k]
      /\ \A k \in DOMAIN frames' : (k \in DOMAIN frames /\ frames'[k] = frames[k])
                                   \/ frames'[k] = r
      /\ Len(frames) + 1 \in DOMAIN frames' /\ frames'[Len(frames) + 1] = r
  <2> HIDE DEF r
  <2> QED BY <1>1, <1>2 DEF SafeInv, TypeOK
<1>4. TypeOK'
  <2>1. timers' \in [Msgs -> Nat]
    BY <1>1 DEF SafeInv, TypeOK
  <2> QED BY <1>1, <1>3, <2>1 DEF SafeInv, TypeOK, streamVars, readVars, appVars
<1>5. ReachInv'
  <2> SUFFICES ASSUME NEW n \in Msgs, Passed(n)' PROVE Accounted(n)'
    BY DEF ReachInv
  <2>1. Accounted(n)
    <3>1. n > 0
      BY DEF Msgs
    <3>2. Passed(n)
      BY <1>1, <1>2, <1>3, <3>1 DEF Passed, Cursor, streamVars, Msgs
    <3> QED BY <3>2 DEF SafeInv, ReachInv
  <2>2. CASE n = m
    BY <1>2, <1>3, <2>2 DEF Accounted, InFlight, Queued
  <2>3. CASE n # m
    <3>1. Queued(n) => Queued(n)'
      BY <1>3 DEF Queued
    <3>2. timers'[n] = timers[n]
      BY <1>1, <2>3 DEF SafeInv, TypeOK
    <3> QED BY <1>1, <2>1, <3>1, <3>2 DEF Accounted, InFlight, Retrying, readVars, appVars
  <2> QED BY <2>2, <2>3
<1>6. HealingAttended'
  <2>1. ASSUME NEW n \in Firsts, RetryUnderWay(n) PROVE RetryUnderWay(n)'
    <3>1. CASE n = m
      BY <1>3, <3>1 DEF RetryUnderWay, Retried
    <3>2. CASE n # m
      <4>1. timers'[n] = timers[n]
        BY <1>1, <3>2, LogAssumption DEF SafeInv, TypeOK
      <4> QED BY <1>3, <2>1, <4>1 DEF RetryUnderWay, Retrying, Retried
    <3> QED BY <3>1, <3>2
  <2> QED BY <1>1, <2>1 DEF SafeInv, HealingAttended
<1> QED BY <1>1, <1>4, <1>5, <1>6 DEF SafeInv, AckInv, readVars, appVars

LEMMA AckMessageSafe ==
  ASSUME SafeInv, NEW m \in Msgs, AckMessage(m) PROVE SafeInv'
<1>1. /\ UNCHANGED <<params, streamVars, frames, healVars, readVars, stored>>
      /\ batch' = batch /\ byApp' \subseteq byApp \cup {m}
  BY DEF AckMessage
<1>2. m \in given /\ SendAckFrame(m)
  BY DEF AckMessage
<1>3. acks' \in [Streams -> SUBSET Msgs]
      /\ \A i \in Streams : acks'[i] \subseteq acks[i] \cup {m}
  BY <1>2 DEF SafeInv, TypeOK, SendAckFrame
<1>4. TypeOK'
  BY <1>1, <1>3 DEF SafeInv, TypeOK, streamVars, healVars, readVars
<1>5. AckInv'
  BY <1>1, <1>2, <1>3 DEF SafeInv, AckInv, readVars, appVars
<1>6. ReachInv'
  BY <1>1, SameQueues DEF SafeInv, ReachInv, Passed, Cursor, streamVars, readVars
<1> QED BY <1>1, <1>4, <1>5, <1>6, SameQueues DEF SafeInv, readVars

LEMMA BatchEndsSafe == ASSUME SafeInv, BatchEnds PROVE SafeInv'
<1>1. /\ UNCHANGED <<params, streamVars, acks, frames, healVars, stored>>
      /\ UNCHANGED <<done, session, given, failed, byApp>>
      /\ batch' = FALSE /\ Save
  BY DEF BatchEnds
<1>2. saved' \in [done : SUBSET Msgs, session : [Contacts -> 0..Last]]
  BY <1>1, SaveKeeps DEF SafeInv, TypeOK
<1>3. TypeOK'
  BY <1>1, <1>2 DEF SafeInv, TypeOK, streamVars, healVars
<1>4. ReachInv'
  BY <1>1, SameQueues DEF SafeInv, ReachInv, Passed, Cursor, streamVars
<1> QED BY <1>1, <1>3, <1>4, SameQueues DEF SafeInv, AckInv

LEMMA RestartSafe == ASSUME SafeInv, Restart PROVE SafeInv'
<1> USE DEF Restart
<1>1. TypeOK'
  <2>1. done' \subseteq Msgs /\ session' \in [Contacts -> 0..Last]
    BY DEF SafeInv, TypeOK
  <2>2. /\ params' \in 0..Last \cup {None}
        /\ opened' \in 0..MaxStreams /\ stream' \in 0..opened'
        /\ running' \subseteq 1..opened'
        /\ pos' \in [Streams -> 0..Last] /\ acks' \in [Streams -> SUBSET Msgs]
        /\ frames' \in Seq(Frame)
        /\ timers' \in [Msgs -> Nat]
        /\ heal' \in [Contacts -> 0..(MaxAttempts - 1)]
    BY LogAssumption, BoundsAssumption DEF Streams, Frame
  <2> QED BY <2>1, <2>2 DEF SafeInv, TypeOK
<1>2. AckInv'
  BY DEF SafeInv, AckInv, readVars, appVars
<1>3. ReachInv'
  BY DEF ReachInv, Passed, Cursor, Msgs
<1>4. HealingAttended'
  BY DEF HealingAttended
<1> QED BY <1>1, <1>2, <1>3, <1>4 DEF SafeInv

\* What a frame's handler does, whichever of its cases applies.
LEMMA FrameHandled ==
  ASSUME TypeOK, frames # <<>>, NEW f \in Frame, f = Head(frames), HandleFrame
  PROVE  /\ UNCHANGED <<streamVars, appVars, stored>>
         /\ frames' = Tail(frames)
         /\ params' \in {params, f.cursor} /\ (params = None => params' = None)
         /\ HandledType
         /\ \/ f.msg = 0 /\ UNCHANGED <<acks, readVars>>
            \/ f.msg \in Msgs /\ HandledFate(f.msg) /\ HandledSave
         /\ \/ UNCHANGED healVars /\ \A n \in Firsts : f # Retried(n)
            \/ f.msg \in Firsts /\ HandledHealing(f.msg)
<1>0. f.msg \in 0..Last /\ (f.msg # 0 => f.msg \in Msgs)
  BY LogAssumption DEF Frame, Msgs
<1>1. UNCHANGED <<streamVars, appVars, stored>> /\ frames' = Tail(frames)
  BY DEF HandleFrame
<1>2. params' \in {params, f.cursor} /\ (params = None => params' = None)
  BY DEF HandleFrame, BadFrame, AdvanceCursor
<1>3. CASE f.cursor # 0 /\ GiveUp(f.msg) /\ UNCHANGED healVars
  <2>1. \A n \in Firsts : f # Retried(n)
    BY <1>3 DEF Retried
  <2>2. CASE f.msg = 0
    <3>1. UNCHANGED <<acks, readVars>>
      BY <1>3, <2>2 DEF GiveUp, Msgs, readVars, appVars, TypeOK
    <3> QED BY <1>1, <1>2, <1>3, <2>1, <2>2, <3>1
            DEF TypeOK, HandledType, healVars, readVars, appVars
  <2>3. CASE f.msg \in Msgs
    <3>1. HandledType /\ HandledFate(f.msg) /\ HandledSave
      BY <1>3, <2>3, GiveUpFate DEF TypeOK, HandledType, healVars
    <3> QED BY <1>1, <1>2, <1>3, <2>1, <2>3, <3>1
  <2> QED BY <1>0, <2>2, <2>3
<1>4. CASE f.msg = 0 /\ UNCHANGED <<acks, healVars, readVars>>
  <2>1. \A n \in Firsts : f # Retried(n)
    BY <1>4, LogAssumption DEF Retried, Msgs
  <2> QED BY <1>1, <1>2, <1>4, <2>1
          DEF TypeOK, HandledType, healVars, readVars, appVars
<1>5. CASE f.msg \in Msgs /\ f.msg \in Firsts /\ SessionInitResponder(f.msg)
  BY <1>1, <1>2, <1>5, InitHandles
<1>6. CASE f.msg \in Msgs /\ f.msg \notin Firsts /\ DecryptMessage(f.msg)
  <2>1. \A n \in Firsts : f # Retried(n)
    BY <1>6 DEF Retried
  <2> QED BY <1>1, <1>2, <1>6, <2>1, DecryptHandles
<1> QED BY <1>0, <1>3, <1>4, <1>5, <1>6
        DEF HandleFrame, BadFrame, IncomingEnvelope, DropEnvelope

LEMMA HandleFrameSafe == ASSUME SafeInv, HandleFrame PROVE SafeInv'
<1> DEFINE f == Head(frames)
<1>1. frames # <<>> /\ frames' = Tail(frames)
  BY DEF HandleFrame
<1>2. /\ frames' \in Seq(Frame)
      /\ 1 \in DOMAIN frames /\ f = frames[1] /\ f \in Frame
      /\ \A k \in DOMAIN frames' :
           k + 1 \in DOMAIN frames /\ frames'[k] = frames[k + 1]
      /\ \A k \in DOMAIN frames :
           k = 1 \/ (k - 1 \in DOMAIN frames' /\ frames'[k - 1] = frames[k])
  BY <1>1, ShorterQueue DEF SafeInv
<1>3. /\ UNCHANGED <<streamVars, appVars, stored>>
      /\ params' \in {params, f.cursor} /\ (params = None => params' = None)
      /\ HandledType
      /\ \/ f.msg = 0 /\ UNCHANGED <<acks, readVars>>
         \/ f.msg \in Msgs /\ HandledFate(f.msg)
      /\ \/ UNCHANGED healVars /\ \A n \in Firsts : f # Retried(n)
         \/ f.msg \in Firsts /\ HandledHealing(f.msg)
  BY <1>1, <1>2, FrameHandled DEF SafeInv
<1> HIDE DEF f
<1>4. TypeOK'
  BY <1>2, <1>3 DEF SafeInv, TypeOK, HandledType, streamVars, appVars, Frame
<1>5. AckInv'
  <2>1. CASE f.msg = 0 /\ UNCHANGED <<acks, readVars>>
    BY <1>3, <2>1 DEF SafeInv, AckInv, readVars, appVars
  <2>2. CASE f.msg \in Msgs /\ HandledFate(f.msg)
    BY <1>3, <2>2, AckInvKept DEF SafeInv
  <2> QED BY <1>3, <2>1, <2>2
<1>6. \A n \in Msgs : Accounted(n) => Accounted(n)'
  <2>1. \A n \in Msgs : n # f.msg /\ Queued(n) => Queued(n)'
    BY <1>2 DEF Queued
  <2>2. CASE f.msg = 0 /\ UNCHANGED <<acks, readVars>>
    <3>1. \A n \in Msgs : Queued(n) => Queued(n)'
      BY <2>1, <2>2 DEF Msgs
    <3>2. \A n \in Msgs : Retrying(n) => Retrying(n)'
      BY <1>3, <2>2, LogAssumption DEF healVars, Retrying, Msgs
    <3> QED BY <2>2, <3>1, <3>2 DEF Accounted, InFlight, readVars, appVars
  <2>3. CASE f.msg \in Msgs /\ HandledFate(f.msg)
    BY <2>1, <2>3, HandlingKeeps DEF SafeInv
  <2> QED BY <1>3, <2>2, <2>3
<1>7. ReachInv'
  <2> SUFFICES ASSUME NEW n \in Msgs, Passed(n)' PROVE Accounted(n)'
    BY DEF ReachInv
  <2>1. Passed(n)
    <3>1. CASE n <= Cursor'
      <4>1. Cursor' \in {Cursor, f.cursor}
        <5>1. f.cursor # None
          BY <1>2, LogAssumption DEF Frame
        <5> QED BY <1>3, <5>1 DEF Cursor
      <4> QED BY <1>2, <3>1, <4>1 DEF Passed
    <3>2. CASE \E k \in DOMAIN frames' : n <= frames'[k].cursor
      BY <1>2, <3>2 DEF Passed
    <3>3. CASE \E i \in Streams : n <= pos'[i]
      BY <1>3, <3>3 DEF Passed, streamVars
    <3> QED BY <3>1, <3>2, <3>3 DEF Passed
  <2> QED BY <1>6, <2>1 DEF SafeInv, ReachInv
<1>8. HealingAttended'
  <2>1. CASE UNCHANGED healVars /\ \A n \in Firsts : f # Retried(n)
    <3>1. \A n \in Firsts : RetryQueued(n) => RetryQueued(n)'
      BY <1>2, <2>1 DEF RetryQueued, Retried
    <3> QED BY <2>1, <3>1, QuietHealing DEF SafeInv
  <2>2. CASE f.msg \in Firsts /\ HandledHealing(f.msg)
    <3>1. f.msg \in Msgs /\ HandledFate(f.msg)
      BY <1>3, <2>2, LogAssumption DEF Msgs
    <3>2. \A n \in Firsts : n # f.msg /\ RetryQueued(n) => RetryQueued(n)'
      BY <1>2 DEF RetryQueued, Retried
    <3> QED BY <2>2, <3>1, <3>2, HealingKeeps DEF SafeInv
  <2> QED BY <1>3, <2>1, <2>2
<1> QED BY <1>4, <1>5, <1>7, <1>8 DEF SafeInv

-----------------------------------------------------------------------------
LEMMA SafeInvInductive == SafeInv /\ [Next]_vars => SafeInv'
<1> SUFFICES ASSUME SafeInv, [Next]_vars PROVE SafeInv'
  OBVIOUS
<1>1. CASE OpenMessageStream \/ ReopenStream \/ Reconnect \/ CloseMessageStream
  BY <1>1, OpenSafe
<1>2. CASE HandleFrame
  BY <1>2, HandleFrameSafe
<1>3. CASE \E m \in Msgs : BackgroundPush(m) \/ AckMessage(m)
  BY <1>3, BackgroundPushSafe, AckMessageSafe
<1>4. CASE \E i \in Streams : PumpDelivers(i) \/ PumpDeliversOther(i)
                             \/ PumpSends(i) \/ PumpEnds(i)
  BY <1>4, PumpDeliversSafe, PumpDeliversOtherSafe, PumpSendsSafe, PumpEndsSafe
<1>5. CASE \E m \in Msgs : RetryTimer(m)
  BY <1>5, RetryTimerSafe
<1>6. CASE Restart
  BY <1>6, RestartSafe
<1>7. CASE UNCHANGED vars
  BY <1>7, SameQueues
     DEF SafeInv, TypeOK, AckInv, ReachInv, Passed, Cursor, vars, streamVars,
         healVars, readVars, appVars
<1>8. CASE BatchEnds
  BY <1>8, BatchEndsSafe
<1> QED BY <1>1, <1>2, <1>3, <1>4, <1>5, <1>6, <1>7, <1>8
        DEF Next, Loop, OtherWork

LEMMA SafeInvAlways == Spec => []SafeInv
BY InitSafe, SafeInvInductive, PTL DEF Spec

\* Every variable keeps its type: healing records stay below the limit of
\* attempts, and only streams that were opened run.
THEOREM TypeCorrect == Spec => []TypeOK
BY SafeInvAlways, PTL DEF SafeInv

\* Resuming at the cursor skips only messages whose handler ended or that the
\* engine holds, however many streams and retries overlap.
THEOREM ResumeIsGapless == Spec => []NoGap
<1>1. SafeInv => NoGap
  BY LogAssumption
     DEF SafeInv, TypeOK, ReachInv, NoGap, Passed, Accounted, Msgs, Cursor
<1> QED BY <1>1, SafeInvAlways, PTL

-----------------------------------------------------------------------------
(* What the Keychain holds when a receipt leaves.                            *)

Kept == saved.done \cup byApp

\* What is saved was read, and receipts are for what is saved, or come from the
\* app.
SavedInv ==
  /\ saved.done \subseteq done
  /\ Msgs \ stored \subseteq Kept
  /\ \A i \in Streams : acks[i] \subseteq Kept

LEMMA HandlingSaves ==
  ASSUME TypeOK, "export" \notin Faults, SavedInv, HandledSave,
         UNCHANGED <<byApp, stored>>
  PROVE  SavedInv'
<1>1. saved'.done \subseteq done' /\ saved.done \subseteq saved'.done
  BY DEF SavedInv, HandledSave
<1> QED BY <1>1 DEF SavedInv, Kept, HandledSave

LEMMA SavedStep ==
  ASSUME "export" \notin Faults, SafeInv, SavedInv, [Next]_vars
  PROVE  SavedInv'
<1>0. TypeOK
  BY DEF SafeInv
<1>1. CASE UNCHANGED <<acks, done, saved, byApp, stored>>
  BY <1>1 DEF SavedInv, Kept
<1>2. ASSUME NEW i \in Streams, PumpSends(i) PROVE SavedInv'
  <2>1. PICK m \in acks[i] : /\ acks' = [acks EXCEPT ![i] = @ \ {m}]
                             /\ stored' = stored \ {m}
    BY <1>2 DEF PumpSends
  <2>2. UNCHANGED <<done, saved, byApp>>
    BY <1>2 DEF PumpSends, readVars, appVars
  <2> QED BY <1>0, <2>1, <2>2 DEF SavedInv, Kept, TypeOK
<1>3. ASSUME NEW i \in Streams, PumpEnds(i) PROVE SavedInv'
  BY <1>0, <1>3 DEF PumpEnds, SavedInv, Kept, TypeOK, readVars, appVars
<1>4. ASSUME NEW m \in Msgs, AckMessage(m) PROVE SavedInv'
  <2>1. /\ m \in Kept' /\ Kept \subseteq Kept'
        /\ UNCHANGED <<done, saved, stored>>
    BY <1>4 DEF AckMessage, Kept, readVars
  <2>2. \A i \in Streams : acks'[i] \subseteq acks[i] \cup {m}
    BY <1>0, <1>4, AckFrameQueued DEF AckMessage
  <2> QED BY <2>1, <2>2 DEF SavedInv
<1>5. ASSUME NEW m \in Msgs, BackgroundPush(m) PROVE SavedInv'
  <2>1. HandledSave /\ UNCHANGED <<byApp, stored>>
    BY <1>0, <1>5, DecryptHandles, InitHandles DEF BackgroundPush
  <2> QED BY <1>0, <2>1, HandlingSaves
<1>6. CASE HandleFrame
  <2>1. frames # <<>> /\ Head(frames) \in Frame
    BY <1>0, <1>6 DEF HandleFrame, TypeOK
  <2>2. /\ HandledSave \/ UNCHANGED <<acks, readVars>>
        /\ UNCHANGED <<byApp, stored>>
    BY <1>0, <1>6, <2>1, FrameHandled DEF appVars
  <2>3. CASE HandledSave
    BY <1>0, <2>2, <2>3, HandlingSaves
  <2>4. CASE UNCHANGED <<acks, readVars>>
    BY <1>1, <2>2, <2>4 DEF readVars
  <2> QED BY <2>2, <2>3, <2>4
<1>7. CASE BatchEnds
  <2>1. UNCHANGED <<acks, done, byApp, stored>>
    BY <1>7 DEF BatchEnds
  <2>2. saved'.done = done'
    BY <1>0, <1>7, SaveKeeps DEF BatchEnds, TypeOK
  <2> QED BY <2>1, <2>2 DEF SavedInv, Kept
<1>8. CASE Restart
  BY <1>0, <1>8 DEF Restart, SavedInv, Kept
<1>9. CASE \/ OpenMessageStream \/ ReopenStream \/ Reconnect
           \/ CloseMessageStream \/ UNCHANGED vars
           \/ \E i \in Streams : PumpDelivers(i) \/ PumpDeliversOther(i)
           \/ \E m \in Msgs : RetryTimer(m)
  BY <1>1, <1>9 DEF OpenMessageStream, ReopenStream, Reconnect,
     CloseMessageStream, PumpDelivers, PumpDeliversOther, RetryTimer, vars,
     readVars, appVars
<1> QED BY <1>2, <1>3, <1>4, <1>5, <1>6, <1>7, <1>8, <1>9
        DEF Next, Loop, OtherWork

\* If exports succeed, the server never deletes a message before the Keychain
\* holds the state that read it, unless the app acknowledged it on its own.
THEOREM AcksFollowReads == "export" \notin Faults => (Spec => []AckedOnlyRead)
<1> SUFFICES ASSUME "export" \notin Faults PROVE Spec => []AckedOnlyRead
  OBVIOUS
<1>1. Init => SavedInv
  BY DEF Init, SavedInv, Kept, InMemory
<1>2. SafeInv /\ SavedInv /\ [Next]_vars => SavedInv'
  BY SavedStep
<1>3. SavedInv => AckedOnlyRead
  BY DEF SavedInv, Kept, AckedOnlyRead
<1> QED BY <1>1, <1>2, <1>3, SafeInvAlways, PTL DEF Spec

\* An open healing record always has a retry coming, or an app that was told.
THEOREM HealingIsAttended == Spec => []HealingAttended
BY SafeInvAlways, PTL DEF SafeInv

-----------------------------------------------------------------------------
(* The refinement: every step of Delivery is one of the feed, or none.       *)

Held == {m \in Msgs : InFlight(m)}

LEMMA SameFeed ==
  ASSUME UNCHANGED <<params, frames, timers, given, failed, stored>>
  PROVE  UNCHANGED Feed!feedVars
BY DEF Feed!feedVars, Cursor, InFlight, Queued, Retrying

LEMMA StreamsFeed ==
  ASSUME SafeInv, OpenMessageStream \/ ReopenStream \/ Reconnect
                  \/ CloseMessageStream
  PROVE  [Feed!Next]_(Feed!feedVars)
<1>1. CASE ReopenStream \/ Reconnect \/ CloseMessageStream
  BY <1>1, SameFeed
     DEF ReopenStream, Reconnect, CloseMessageStream, healVars, readVars
<1>2. CASE OpenMessageStream
  <2>1. /\ Cursor' = 0 /\ Held' = Held
        /\ UNCHANGED <<given, failed, stored>>
    BY <1>2, LogAssumption DEF OpenMessageStream, Cursor, Held, InFlight,
                               Queued, Retrying, healVars, readVars, appVars
  <2>2. Feed!Rewind
    BY <2>1 DEF Feed!Rewind, Held
  <2> QED BY <2>2 DEF Feed!Next
<1> QED BY <1>1, <1>2

LEMMA PumpsFeed ==
  ASSUME SafeInv, NEW i \in Streams,
         PumpDelivers(i) \/ PumpDeliversOther(i) \/ PumpSends(i) \/ PumpEnds(i)
  PROVE  [Feed!Next]_(Feed!feedVars)
<1>1. CASE PumpDelivers(i)
  <2>1. PICK m \in Msgs : NextOn(i, m) /\ frames' = Append(frames, Sent(m))
    BY <1>1 DEF PumpDelivers
  <2>2. Sent(m) \in Frame /\ Sent(m).msg = m
    BY DEF Sent, Frame, Msgs
  <2>3. UNCHANGED <<params, timers, given, failed, stored>>
    BY <1>1 DEF PumpDelivers, healVars, readVars, appVars
  <2>4. Held' = Held \cup {m}
    <3>1. \A n \in Msgs : Queued(n)' <=> Queued(n) \/ n = m
      <4> HIDE DEF Sent
      <4>1. /\ \A k \in DOMAIN frames : k \in DOMAIN frames' /\ frames'[k] = frames[k]
            /\ \A k \in DOMAIN frames' :
                 (k \in DOMAIN frames /\ frames'[k] = frames[k])
                 \/ frames'[k] = Sent(m)
            /\ Len(frames) + 1 \in DOMAIN frames'
            /\ frames'[Len(frames) + 1] = Sent(m)
        BY <2>1, <2>2 DEF SafeInv, TypeOK
      <4> QED BY <2>2, <4>1 DEF Queued
    <3> QED BY <2>3, <3>1 DEF Held, InFlight, Retrying
  <2>5. \A n \in 1..(m - 1) : n \in Held \cup given \cup failed
    <3> SUFFICES ASSUME NEW n \in 1..(m - 1)
                 PROVE  n \in Held \cup given \cup failed
      OBVIOUS
    <3>1. n \in Msgs /\ n \in Nat /\ m \in Nat /\ n < m
      BY LogAssumption DEF Msgs
    <3>2. pos[i] \in 0..Last
      BY DEF SafeInv, TypeOK
    <3>3. n <= pos[i] \/ n \notin stored
      BY <2>1, <3>1, <3>2 DEF NextOn
    <3> QED BY <3>1, <3>3 DEF SafeInv, AckInv, ReachInv, Passed, Accounted, Held
  <2>6. Feed!Fetch(m)
    BY <2>3, <2>4, <2>5 DEF Feed!Fetch, Feed!Accounted, Held, Cursor
  <2> QED BY <2>6 DEF Feed!Next, Msgs
<1>2. CASE PumpDeliversOther(i)
  <2> DEFINE f == [msg |-> 0, cursor |-> pos[i]]
  <2>1. /\ f \in Frame /\ f.msg = 0 /\ frames' = Append(frames, f)
        /\ UNCHANGED <<params, timers, given, failed, stored>>
    BY <1>2, LogAssumption
       DEF PumpDeliversOther, SafeInv, TypeOK, Frame, healVars, readVars, appVars
  <2> HIDE DEF f
  <2>2. /\ \A k \in DOMAIN frames : k \in DOMAIN frames' /\ frames'[k] = frames[k]
        /\ \A k \in DOMAIN frames' :
             (k \in DOMAIN frames /\ frames'[k] = frames[k]) \/ frames'[k] = f
    BY <2>1 DEF SafeInv, TypeOK
  <2>3. \A n \in Msgs : Queued(n)' <=> Queued(n)
    BY <2>1, <2>2 DEF Queued, Msgs
  <2>4. Held' = Held
    BY <2>1, <2>3 DEF Held, InFlight, Retrying
  <2> QED BY <2>1, <2>4 DEF Feed!feedVars, Held, Cursor
<1>3. CASE PumpSends(i)
  <2>1. PICK m \in acks[i] : stored' = stored \ {m}
    BY <1>3 DEF PumpSends
  <2>2. m \in Msgs /\ m \in given
    BY <2>1 DEF SafeInv, TypeOK, AckInv
  <2>3. Held' = Held /\ Cursor' = Cursor /\ UNCHANGED <<given, failed>>
    BY <1>3 DEF PumpSends, Held, InFlight, Queued, Retrying, Cursor, healVars,
                readVars, appVars
  <2>4. Feed!Acknowledge(m)
    BY <2>1, <2>2, <2>3 DEF Feed!Acknowledge, Held
  <2> QED BY <2>2, <2>4 DEF Feed!Next, Msgs
<1>4. CASE PumpEnds(i)
  BY <1>4, SameFeed DEF PumpEnds, healVars, readVars
<1> QED BY <1>1, <1>2, <1>3, <1>4

LEMMA BackgroundFeed ==
  ASSUME SafeInv, NEW m \in Msgs, BackgroundPush(m)
  PROVE  [Feed!Next]_(Feed!feedVars)
<1>1. UNCHANGED <<params, frames, stored>>
  BY DEF BackgroundPush
<1>2. HandledType /\ HandledFate(m)
  BY DecryptHandles, InitHandles DEF SafeInv, BackgroundPush
<1>3. Held' \in {Held, Held \cup {m}}
  <2>1. \A n \in Msgs : n # m => (InFlight(n)' <=> InFlight(n))
    BY <1>1, <1>2 DEF InFlight, Queued, Retrying, HandledFate
  <2>2. InFlight(m) => InFlight(m)'
    <3>1. timers[m] > 0 => timers'[m] > 0
      BY <1>2 DEF HandledFate, HandledType, SafeInv, TypeOK
    <3> QED BY <1>1, <3>1 DEF InFlight, Queued, Retrying
  <2>3. CASE InFlight(m)' /\ ~InFlight(m)
    BY <2>1, <2>3 DEF Held
  <2>4. CASE InFlight(m)' <=> InFlight(m)
    BY <2>1, <2>4 DEF Held
  <2> QED BY <2>2, <2>3, <2>4
<1>4. Feed!Fate(m)
  BY <1>2 DEF HandledFate, Feed!Fate
<1>5. Cursor' = Cursor
  BY <1>1 DEF Cursor
<1>6. Feed!SettleElsewhere(m)
  BY <1>1, <1>3, <1>4, <1>5 DEF Feed!SettleElsewhere, Held
<1> QED BY <1>6 DEF Feed!Next, Msgs

LEMMA TimerFeed ==
  ASSUME SafeInv, NEW m \in Msgs, RetryTimer(m)
  PROVE  UNCHANGED Feed!feedVars
<1>1. /\ timers[m] > 0 /\ timers' = [timers EXCEPT ![m] = @ - 1]
      /\ frames' = Append(frames, Retried(m))
      /\ UNCHANGED <<params, given, failed, stored>>
  BY DEF RetryTimer, readVars, appVars
<1>2. Retried(m) \in Frame /\ Retried(m).msg = m
  BY LogAssumption DEF Retried, Frame, Msgs
<1>3. /\ \A k \in DOMAIN frames : k \in DOMAIN frames' /\ frames'[k] = frames[k]
      /\ \A k \in DOMAIN frames' :
           (k \in DOMAIN frames /\ frames'[k] = frames[k])
           \/ frames'[k] = Retried(m)
      /\ Len(frames) + 1 \in DOMAIN frames'
      /\ frames'[Len(frames) + 1] = Retried(m)
  BY <1>1, <1>2 DEF SafeInv, TypeOK
<1>4. \A n \in Msgs : InFlight(n)' <=> InFlight(n)
  <2> SUFFICES ASSUME NEW n \in Msgs PROVE InFlight(n)' <=> InFlight(n)
    OBVIOUS
  <2>1. CASE n = m
    BY <1>1, <1>2, <1>3, <2>1 DEF InFlight, Queued, Retrying
  <2>2. CASE n # m
    <3>1. timers'[n] = timers[n]
      BY <1>1, <2>2 DEF SafeInv, TypeOK
    <3> QED BY <1>2, <1>3, <2>2, <3>1 DEF InFlight, Queued, Retrying
  <2> QED BY <2>1, <2>2
<1>5. Held' = Held
  BY <1>4 DEF Held
<1> QED BY <1>1, <1>5 DEF Feed!feedVars, Held, Cursor

LEMMA FrameFeed ==
  ASSUME SafeInv, SafeInv', HandleFrame
  PROVE  [Feed!Next]_(Feed!feedVars)
<1> DEFINE f == Head(frames)
<1>1. frames # <<>> /\ frames' = Tail(frames)
  BY DEF HandleFrame
<1>2. /\ 1 \in DOMAIN frames /\ f = frames[1] /\ f \in Frame
      /\ \A k \in DOMAIN frames' :
           k + 1 \in DOMAIN frames /\ frames'[k] = frames[k + 1]
      /\ \A k \in DOMAIN frames :
           k = 1 \/ (k - 1 \in DOMAIN frames' /\ frames'[k - 1] = frames[k])
  BY <1>1, ShorterQueue DEF SafeInv
<1>3. /\ stored' = stored
      /\ \/ f.msg = 0 /\ UNCHANGED <<timers, given, failed>>
         \/ f.msg \in Msgs /\ HandledFate(f.msg)
  <2>1. CASE f.msg = 0 /\ UNCHANGED <<acks, readVars>>
    BY <1>1, <1>2, <2>1, FrameHandled, LogAssumption
       DEF SafeInv, readVars, appVars, healVars, Msgs
  <2>2. CASE f.msg \in Msgs /\ HandledFate(f.msg)
    BY <1>1, <1>2, <2>2, FrameHandled DEF SafeInv
  <2> QED BY <1>1, <1>2, <2>1, <2>2, FrameHandled DEF SafeInv
<1>4. Cursor' \in 0..Last /\ \A n \in 1..(Cursor') : Accounted(n)'
  <2>1. Cursor' \in 0..Last
    BY LogAssumption DEF SafeInv, TypeOK, Cursor
  <2>2. ASSUME NEW n \in 1..(Cursor') PROVE n \in Msgs /\ Passed(n)'
    BY <2>1, LogAssumption DEF Passed, Msgs
  <2> QED BY <2>1, <2>2 DEF SafeInv, ReachInv
<1>5. \A n \in 1..Last : Feed!Accounted(n)' <=> Accounted(n)'
  BY DEF Feed!Accounted, Accounted, Msgs
<1>6. Feed!Reachable(Cursor)'
  <2>1. \A n \in 1..(Cursor') : n \in 1..Last
    BY <1>4, LogAssumption
  <2> QED BY <1>4, <1>5, <2>1 DEF Feed!Reachable
<1> HIDE DEF f
<1>7. CASE f.msg = 0 /\ UNCHANGED <<timers, given, failed>>
  <2>1. \A n \in Msgs : Queued(n)' <=> Queued(n)
    BY <1>2, <1>7 DEF Queued, Msgs
  <2>2. Held' = Held
    BY <1>7, <2>1 DEF Held, InFlight, Retrying
  <2>3. Feed!Move
    BY <1>3, <1>6, <1>7, <2>2 DEF Feed!Move, Feed!Reachable, Feed!Accounted, Held
  <2> QED BY <2>3 DEF Feed!Next
<1>8. CASE f.msg \in Msgs /\ HandledFate(f.msg)
  <2>0. PICK m \in Msgs : m = f.msg /\ HandledFate(m)
    BY <1>8
  <2>1. m \in Held
    BY <1>2, <2>0 DEF Held, InFlight, Queued
  <2>4. Feed!Accounted(m)'
    <3>1. m \in given' \cup failed' \/ timers'[m] > 0
      BY <2>0 DEF HandledFate
    <3> QED BY <3>1 DEF Feed!Accounted, InFlight, Retrying
  <2>2. Held' \in {Held, Held \ {m}}
    <3>1. \A n \in Msgs : n # m => (InFlight(n)' <=> InFlight(n))
      BY <1>2, <2>0 DEF InFlight, Queued, Retrying, HandledFate
    <3>2. CASE InFlight(m)'
      BY <2>1, <3>1, <3>2 DEF Held
    <3>3. CASE ~InFlight(m)'
      BY <2>1, <3>1, <3>3 DEF Held
    <3> QED BY <3>2, <3>3
  <2>3. Feed!Fate(m)
    BY <2>0 DEF HandledFate, Feed!Fate
  <2>5. Feed!Settle(m)
    <3>1. m \in {n \in Msgs : InFlight(n)}
      BY <2>1 DEF Held
    <3>2. {n \in Msgs : InFlight(n)}' \in {{n \in Msgs : InFlight(n)},
                                         {n \in Msgs : InFlight(n)} \ {m}}
      BY <2>2 DEF Held
    <3> QED BY <1>3, <1>6, <2>3, <2>4, <3>1, <3>2 DEF Feed!Settle
  <2> QED BY <2>5 DEF Feed!Next, Msgs
<1> QED BY <1>3, <1>7, <1>8

LEMMA FeedStep ==
  ASSUME SafeInv, SafeInv', [Next]_vars
  PROVE  [Feed!Next]_(Feed!feedVars)
<1>1. CASE \E m \in Msgs : AckMessage(m)
  BY <1>1, SameFeed DEF AckMessage, healVars, readVars
<1>2. CASE Restart
  <2>1. /\ Cursor' = 0 /\ Held' = {}
        /\ UNCHANGED <<given, failed, stored>>
    BY <1>2 DEF Restart, Cursor, Held, InFlight, Queued, Retrying, readVars, appVars
  <2>2. Feed!Rewind
    BY <2>1 DEF Feed!Rewind, Held
  <2> QED BY <2>2 DEF Feed!Next
<1>3. CASE UNCHANGED vars
  BY <1>3, SameFeed DEF vars, healVars, readVars
<1>4. CASE \E m \in Msgs : RetryTimer(m)
  BY <1>4, TimerFeed
<1>5. CASE \E m \in Msgs : BackgroundPush(m)
  BY <1>5, BackgroundFeed
<1>6. CASE \E i \in Streams : PumpDelivers(i) \/ PumpDeliversOther(i)
                             \/ PumpSends(i) \/ PumpEnds(i)
  BY <1>6, PumpsFeed
<1>7. CASE BatchEnds
  BY <1>7, SameFeed DEF BatchEnds, healVars
<1> QED BY <1>1, <1>2, <1>3, <1>4, <1>5, <1>6, <1>7, StreamsFeed, FrameFeed
        DEF Next, Loop, OtherWork

\* The engine is a client that resumes its feed by the cursor without losing
\* what it has not dealt with, and acknowledges only what it has read.
THEOREM FeedImplemented == Spec => ImplementsFeed
<1>1. Init => Feed!Init
  BY DEF Init, Feed!Init, Cursor, InFlight, Queued, Retrying
<1>2. SafeInv /\ SafeInv' /\ [Next]_vars => [Feed!Next]_(Feed!feedVars)
  BY FeedStep
<1> QED BY <1>1, <1>2, SafeInvAlways, PTL DEF Spec, ImplementsFeed, Feed!Spec
=============================================================================
