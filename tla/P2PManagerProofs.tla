--------------------------- MODULE P2PManagerProofs ---------------------------
(* Theorems about P2PManager, for any peers, calls, candidates and bounds.   *)
EXTENDS P2PManager, FiniteSetTheorems, TLAPS

-----------------------------------------------------------------------------
(* The inductive invariant: TypeOK, the four properties, and                 *)

\* How far a task has come says what state its connection is in.
LinkInv ==
  \A c \in Calls :
    /\ pc[c] \in {"new", "count", "attempt", "read", "store"}
         => link[c] = "Disconnected"
    /\ pc[c] = "try" => link[c] = "Connecting"
    /\ pc[c] \in {"won", "counted", "shown"}
         => link[c] = "Connected" /\ remote[c] \in Candidates
    /\ pc[c] \in {"lost", "marked"} => link[c] = "Failed"

Typed == TypeOK /\ LinkInv

\* The actions of Next, each with its call.
LEMMA NextCases ==
  ASSUME Next
  PROVE  \/ \E c \in Calls, p \in Peers : InitiateHandoff(c, p)
         \/ \E c \in Calls, p \in Peers, offer \in Offers :
              HandleHandoffInitiate(c, p, offer)
         \/ \E c \in Calls, p \in Peers, offer \in Offers :
              HandleHandoffAck(c, p, offer)
         \/ \E p \in Peers : RemovePeer(p)
         \/ RecordConnectionSuccess
         \/ \E c \in Calls : CountHandoff(c)
         \/ \E c \in Calls : MarkConnecting(c)
         \/ \E c \in Calls : ReadCandidates(c)
         \/ \E c \in Calls : StoreConnection(c)
         \/ \E c \in Calls : CandidateAnswers(c)
         \/ \E c \in Calls : CandidateFails(c)
         \/ \E c \in Calls : AllFailed(c)
         \/ \E c \in Calls : CountSuccess(c)
         \/ \E c \in Calls : ShowConnected(c)
         \/ \E c \in Calls : MeasureRtt(c)
         \/ \E c \in Calls : ShowFailed(c)
         \/ \E c \in Calls : CountFallback(c)
BY DEF Next, Proceed

LEMMA OneMoreSuccess ==
  ASSUME NEW s \in P2PStats, NEW t,
         t = [s EXCEPT !.connections_established = @ + 1,
                       !.handoffs_successful = @ + 1]
  PROVE  /\ t \in P2PStats
         /\ t.connections_established = s.connections_established + 1
         /\ t.handoffs_successful = s.handoffs_successful + 1
         /\ t.fallbacks_to_relay = s.fallbacks_to_relay
<1>1. t = [connections_established |-> s.connections_established + 1,
           handoff_attempts |-> s.handoff_attempts,
           handoffs_successful |-> s.handoffs_successful + 1,
           fallbacks_to_relay |-> s.fallbacks_to_relay]
  BY Zenon DEF P2PStats
<1> QED BY <1>1 DEF P2PStats

LEMMA TypedInit == Init => Typed
BY RecordedAssumption
   DEF Init, Typed, TypeOK, LinkInv, P2PStats, Points

LEMMA TypedStep == Typed /\ [Next]_vars => Typed'
<1> SUFFICES ASSUME Typed, [Next]_vars PROVE Typed'
  OBVIOUS
<1> USE DEF Typed, TypeOK, LinkInv, Points, At, connectionVars
<1>1. CASE UNCHANGED vars
  BY <1>1 DEF vars
<1>2. CASE \E c \in Calls, p \in Peers : InitiateHandoff(c, p)
  BY <1>2 DEF InitiateHandoff, Known, PeerInfo, PeerStatus
<1>3. CASE \E c \in Calls, p \in Peers, offer \in Offers :
             HandleHandoffInitiate(c, p, offer)
  BY <1>3, OffersAssumption DEF HandleHandoffInitiate, PeerInfo, PeerStatus
<1>4. CASE \E c \in Calls, p \in Peers, offer \in Offers :
             HandleHandoffAck(c, p, offer)
  BY <1>4, OffersAssumption DEF HandleHandoffAck, Known, PeerInfo, PeerStatus
<1>5. CASE \E p \in Peers : RemovePeer(p)
  BY <1>5 DEF RemovePeer
<1>6. CASE RecordConnectionSuccess
  <2>1. stats' \in P2PStats
    <3>1. stats \in P2PStats
      OBVIOUS
    <3> QED BY ONLY <1>6, <3>1, OneMoreSuccess, Zenon DEF RecordConnectionSuccess
  <2>2. recorded < MaxRecorded /\ recorded' = recorded + 1
    BY <1>6 DEF RecordConnectionSuccess
  <2>3. UNCHANGED <<peers, connections, pc, peer, connectionVars, told>>
    BY <1>6 DEF RecordConnectionSuccess
  <2> QED BY <2>1, <2>2, <2>3, RecordedAssumption
<1>7. CASE \E c \in Calls : CountHandoff(c)
  BY <1>7 DEF CountHandoff, P2PStats
<1>8. CASE \E c \in Calls : MarkConnecting(c)
  BY <1>8 DEF MarkConnecting, SetStatus, Known, PeerInfo, PeerStatus
<1>9. CASE \E c \in Calls : ReadCandidates(c)
  BY <1>9 DEF ReadCandidates, Offered, Known, PeerInfo
<1>10. CASE \E c \in Calls : StoreConnection(c)
  BY <1>10 DEF StoreConnection
<1>11. CASE \E c \in Calls : CandidateAnswers(c)
  BY <1>11 DEF CandidateAnswers, Preferred
<1>12. CASE \E c \in Calls : CandidateFails(c)
  BY <1>12 DEF CandidateFails, Preferred
<1>13. CASE \E c \in Calls : AllFailed(c)
  BY <1>13 DEF AllFailed
<1>14. CASE \E c \in Calls : CountSuccess(c)
  <2> SUFFICES ASSUME NEW c \in Calls, CountSuccess(c) PROVE Typed'
    BY <1>14
  <2>1. stats' \in P2PStats
    <3>1. stats \in P2PStats
      OBVIOUS
    <3> QED BY ONLY <3>1, CountSuccess(c), OneMoreSuccess, Zenon DEF CountSuccess
  <2>2. At(c, "won", "counted")
    BY DEF CountSuccess
  <2>3. UNCHANGED <<peers, connections, peer, connectionVars, told, recorded>>
    BY DEF CountSuccess
  <2> QED BY <2>1, <2>2, <2>3
<1>15. CASE \E c \in Calls : ShowConnected(c)
  BY <1>15 DEF ShowConnected, SetStatus, Known, PeerInfo, PeerStatus
<1>16. CASE \E c \in Calls : MeasureRtt(c)
  BY <1>16 DEF MeasureRtt, Tell
<1>17. CASE \E c \in Calls : ShowFailed(c)
  BY <1>17 DEF ShowFailed, SetStatus, Known, PeerInfo, PeerStatus
<1>18. CASE \E c \in Calls : CountFallback(c)
  BY <1>18 DEF CountFallback, Tell, P2PStats
<1> QED
  BY <1>1, <1>2, <1>3, <1>4, <1>5, <1>6, <1>7, <1>8, <1>9, <1>10, <1>11,
     <1>12, <1>13, <1>14, <1>15, <1>16, <1>17, <1>18, NextCases

-----------------------------------------------------------------------------
(* The statistics.                                                           *)

\* Sets of calls are finite, and so is what one call adds or takes.
LEMMA OneCall ==
  ASSUME NEW S, S \subseteq Calls, NEW c \in Calls
  PROVE  /\ Cardinality(S) \in Nat
         /\ c \notin S => Cardinality(S \cup {c}) = Cardinality(S) + 1
         /\ c \in S => Cardinality(S \ {c}) = Cardinality(S) - 1
<1>1. IsFiniteSet(S)
  BY CallsAssumption, FS_Subset
<1> QED BY <1>1, FS_CardinalityType, FS_AddElement, FS_RemoveElement

LEMMA StatsInit == Init => StatsAddUp
<1> SUFFICES ASSUME Init PROVE StatsAddUp
  OBVIOUS
<1>1. Attempts = {} /\ Uncounted = {}
  BY DEF Init, Attempts, Uncounted
<1> QED BY <1>1, FS_EmptySet DEF Init, StatsAddUp

LEMMA StatsStep == Typed /\ StatsAddUp /\ [Next]_vars => StatsAddUp'
<1> SUFFICES ASSUME Typed, StatsAddUp, [Next]_vars PROVE StatsAddUp'
  OBVIOUS
<1> USE DEF Typed, TypeOK, LinkInv, At, connectionVars
<1>0. /\ Attempts \subseteq Calls /\ Uncounted \subseteq Calls
      /\ stats \in P2PStats /\ recorded \in Nat
  BY RecordedAssumption DEF Attempts, Uncounted
\* An action that leaves these alone keeps the sum.
<1>1. ASSUME Attempts' = Attempts, Uncounted' = Uncounted, recorded' = recorded,
             stats'.connections_established = stats.connections_established,
             stats'.handoffs_successful = stats.handoffs_successful,
             stats'.fallbacks_to_relay = stats.fallbacks_to_relay
      PROVE  StatsAddUp'
  BY <1>1 DEF StatsAddUp
<1>2. CASE UNCHANGED vars
  BY <1>1, <1>2 DEF vars, Attempts, Uncounted
<1>3. CASE \E c \in Calls, p \in Peers : InitiateHandoff(c, p)
  BY <1>1, <1>3 DEF InitiateHandoff, Attempts, Uncounted, Pending, Points
<1>4. CASE \E c \in Calls, p \in Peers, offer \in Offers :
             HandleHandoffInitiate(c, p, offer)
  BY <1>1, <1>4 DEF HandleHandoffInitiate, Attempts, Uncounted, Pending, Points
<1>5. CASE \E c \in Calls, p \in Peers, offer \in Offers :
             HandleHandoffAck(c, p, offer)
  BY <1>1, <1>5 DEF HandleHandoffAck, Attempts, Uncounted, Pending, Points
<1>6. CASE \E p \in Peers : RemovePeer(p)
  BY <1>1, <1>6 DEF RemovePeer, Attempts, Uncounted
<1>7. CASE RecordConnectionSuccess
  <2>1. Attempts' = Attempts /\ Uncounted' = Uncounted /\ recorded' = recorded + 1
    BY <1>7 DEF RecordConnectionSuccess, Attempts, Uncounted
  <2>2. /\ stats' \in P2PStats
        /\ stats'.connections_established = stats.connections_established + 1
        /\ stats'.handoffs_successful = stats.handoffs_successful + 1
        /\ stats'.fallbacks_to_relay = stats.fallbacks_to_relay
    BY ONLY <1>0, <1>7, OneMoreSuccess, Zenon DEF RecordConnectionSuccess
  <2>3. Cardinality(Attempts) \in Nat /\ Cardinality(Uncounted) \in Nat
    BY <1>0, CallsAssumption, FS_Subset, FS_CardinalityType
  <2> HIDE DEF Typed, TypeOK, LinkInv
  <2> QED BY <1>0, <2>1, <2>2, <2>3 DEF StatsAddUp, P2PStats
<1>8. CASE \E c \in Calls : CountHandoff(c)
  <2> SUFFICES ASSUME NEW c \in Calls, CountHandoff(c) PROVE StatsAddUp'
    BY <1>8
  <2>1. Attempts' = Attempts /\ Uncounted' = Uncounted /\ recorded' = recorded
    BY DEF CountHandoff, Attempts, Uncounted, Pending, Points
  <2>2. stats' = [stats EXCEPT !.handoff_attempts = @ + 1]
    BY DEF CountHandoff
  <2> QED BY <1>1, <2>1, <2>2 DEF P2PStats
<1>9. CASE \E c \in Calls : MarkConnecting(c)
  BY <1>1, <1>9 DEF MarkConnecting, Attempts, Uncounted, Pending, Points
<1>10. CASE \E c \in Calls : ReadCandidates(c)
  BY <1>1, <1>10 DEF ReadCandidates, Attempts, Uncounted, Pending, Points
<1>11. CASE \E c \in Calls : StoreConnection(c)
  <2> SUFFICES ASSUME NEW c \in Calls, StoreConnection(c) PROVE StatsAddUp'
    BY <1>11
  <2>1. Attempts' = Attempts \cup {c} /\ c \notin Attempts
    BY DEF StoreConnection, Attempts
  <2>2. Uncounted' = Uncounted \cup {c} /\ c \notin Uncounted
    BY DEF StoreConnection, Attempts, Uncounted, Pending, Points
  <2>3. stats' = stats /\ recorded' = recorded
    BY DEF StoreConnection
  <2> HIDE DEF Typed, TypeOK, LinkInv
  <2>4. /\ Cardinality(Attempts) \in Nat
        /\ Cardinality(Attempts') = Cardinality(Attempts) + 1
    BY <1>0, <2>1, OneCall
  <2>5. /\ Cardinality(Uncounted) \in Nat
        /\ Cardinality(Uncounted') = Cardinality(Uncounted) + 1
    BY <1>0, <2>2, OneCall
  <2> QED BY <1>0, <2>3, <2>4, <2>5 DEF StatsAddUp, P2PStats
<1>12. CASE \E c \in Calls : CandidateAnswers(c)
  BY <1>1, <1>12 DEF CandidateAnswers, Attempts, Uncounted, Pending, Points
<1>13. CASE \E c \in Calls : CandidateFails(c)
  BY <1>1, <1>13 DEF CandidateFails, Attempts, Uncounted
<1>14. CASE \E c \in Calls : AllFailed(c)
  BY <1>1, <1>14 DEF AllFailed, Attempts, Uncounted, Pending, Points
<1>15. CASE \E c \in Calls : CountSuccess(c)
  <2> SUFFICES ASSUME NEW c \in Calls, CountSuccess(c) PROVE StatsAddUp'
    BY <1>15
  <2>1. Attempts' = Attempts /\ recorded' = recorded
    BY DEF CountSuccess, Attempts
  <2>2. Uncounted' = Uncounted \ {c} /\ c \in Uncounted
    BY DEF CountSuccess, Attempts, Uncounted, Pending, Points
  <2>3. /\ stats' \in P2PStats
        /\ stats'.connections_established = stats.connections_established + 1
        /\ stats'.handoffs_successful = stats.handoffs_successful + 1
        /\ stats'.fallbacks_to_relay = stats.fallbacks_to_relay
    BY ONLY <1>0, CountSuccess(c), OneMoreSuccess, Zenon DEF CountSuccess
  <2> HIDE DEF Typed, TypeOK, LinkInv
  <2> QED BY <1>0, <2>1, <2>2, <2>3, OneCall DEF StatsAddUp, P2PStats
<1>16. CASE \E c \in Calls : ShowConnected(c)
  BY <1>1, <1>16 DEF ShowConnected, Attempts, Uncounted, Pending, Points
<1>17. CASE \E c \in Calls : MeasureRtt(c)
  BY <1>1, <1>17 DEF MeasureRtt, Attempts, Uncounted, Pending, Points
<1>18. CASE \E c \in Calls : ShowFailed(c)
  BY <1>1, <1>18 DEF ShowFailed, Attempts, Uncounted, Pending, Points
<1>19. CASE \E c \in Calls : CountFallback(c)
  <2> SUFFICES ASSUME NEW c \in Calls, CountFallback(c) PROVE StatsAddUp'
    BY <1>19
  <2>1. Attempts' = Attempts /\ recorded' = recorded
    BY DEF CountFallback, Attempts
  <2>2. Uncounted' = Uncounted \ {c} /\ c \in Uncounted
    BY DEF CountFallback, Attempts, Uncounted, Pending, Points
  <2>3. stats' = [stats EXCEPT !.fallbacks_to_relay = @ + 1]
    BY DEF CountFallback
  <2> HIDE DEF Typed, TypeOK, LinkInv
  <2>4. /\ stats'.connections_established = stats.connections_established
        /\ stats'.handoffs_successful = stats.handoffs_successful
        /\ stats'.fallbacks_to_relay = stats.fallbacks_to_relay + 1
    BY <1>0, <2>3 DEF P2PStats
  <2> QED BY <1>0, <2>1, <2>2, <2>4, OneCall DEF StatsAddUp, P2PStats
<1> QED
  BY <1>2, <1>3, <1>4, <1>5, <1>6, <1>7, <1>8, <1>9, <1>10, <1>11,
     <1>12, <1>13, <1>14, <1>15, <1>16, <1>17, <1>18, <1>19, NextCases

-----------------------------------------------------------------------------
(* The status of a peer.                                                     *)

\* Whoever attends to a peer keeps doing so, or sets its status; whoever
\* connected it stays on record.
Attending == {"attempt", "read", "store", "try", "won", "counted", "lost"}
AttendedBy(c, p) == peer[c] = p /\ pc[c] \in Attending
EarnedBy(c, p) ==
  /\ peer[c] = p /\ link[c] = "Connected" /\ remote[c] \in Candidates
  /\ pc[c] \in {"shown", "ended"}

StatusInv ==
  \A p \in Peers :
    /\ (Known(p) /\ peers[p].status = "Connecting" /\ peers[p].candidates # {})
         => \E c \in Calls : AttendedBy(c, p)
    /\ (Known(p) /\ peers[p].status = "Connected")
         => \E c \in Calls : EarnedBy(c, p)

LEMMA StatusProperties == StatusInv <=> ConnectingIsAttended /\ ConnectedIsEarned
BY DEF StatusInv, AttendedBy, Attending, EarnedBy, ConnectingIsAttended,
       ConnectedIsEarned

\* What a step may do to one call and to the peer it serves.
KeepsStatus(c, p) ==
  /\ AttendedBy(c, p) => AttendedBy(c, p)'
  /\ EarnedBy(c, p) => EarnedBy(c, p)'

LEMMA Kept ==
  ASSUME StatusInv, NEW p \in Peers, peers'[p] = peers[p],
         \A c \in Calls : KeepsStatus(c, p)
  PROVE  /\ (Known(p) /\ peers[p].status = "Connecting"
               /\ peers[p].candidates # {})'
              => \E c \in Calls : AttendedBy(c, p)'
         /\ (Known(p) /\ peers[p].status = "Connected")'
              => \E c \in Calls : EarnedBy(c, p)'
BY DEF StatusInv, KeepsStatus, Known

LEMMA StatusStep == Typed /\ StatusInv /\ [Next]_vars => StatusInv'
<1> SUFFICES ASSUME Typed, StatusInv, [Next]_vars PROVE StatusInv'
  OBVIOUS
<1> USE DEF Typed, TypeOK, LinkInv, At, connectionVars
<1> DEFINE Fine(p) ==
      /\ (Known(p) /\ peers[p].status = "Connecting"
            /\ peers[p].candidates # {})'
           => \E c \in Calls : AttendedBy(c, p)'
      /\ (Known(p) /\ peers[p].status = "Connected")'
           => \E c \in Calls : EarnedBy(c, p)'
<1> SUFFICES ASSUME NEW p \in Peers PROVE Fine(p)
  BY DEF StatusInv
<1> HIDE DEF Fine
<1>1. ASSUME peers'[p] = peers[p], \A c \in Calls : KeepsStatus(c, p)
      PROVE  Fine(p)
  BY <1>1, Kept DEF Fine
<1> USE DEF KeepsStatus, AttendedBy, Attending, EarnedBy, Points
<1>2. CASE UNCHANGED vars
  BY <1>1, <1>2 DEF vars
<1>3. CASE \E c \in Calls, q \in Peers : InitiateHandoff(c, q)
  <2> SUFFICES ASSUME NEW c \in Calls, NEW q \in Peers, InitiateHandoff(c, q)
               PROVE  Fine(p)
    BY <1>3
  <2>1. \A d \in Calls : KeepsStatus(d, p)
    BY DEF InitiateHandoff
  <2>2. CASE p # q
    BY <1>1, <2>1, <2>2 DEF InitiateHandoff
  <2>3. CASE p = q
    BY <2>3 DEF InitiateHandoff, Fine
  <2> QED BY <2>2, <2>3
<1>4. CASE \E c \in Calls, q \in Peers, offer \in Offers :
             HandleHandoffInitiate(c, q, offer)
  <2> SUFFICES ASSUME NEW c \in Calls, NEW q \in Peers, NEW offer \in Offers,
                      HandleHandoffInitiate(c, q, offer)
               PROVE  Fine(p)
    BY <1>4
  <2>1. \A d \in Calls : KeepsStatus(d, p)
    BY DEF HandleHandoffInitiate
  <2>2. CASE p # q
    BY <1>1, <2>1, <2>2 DEF HandleHandoffInitiate
  <2>3. CASE p = q
    BY <2>3 DEF HandleHandoffInitiate, Fine
  <2> QED BY <2>2, <2>3
<1>5. CASE \E c \in Calls, q \in Peers, offer \in Offers :
             HandleHandoffAck(c, q, offer)
  <2> SUFFICES ASSUME NEW c \in Calls, NEW q \in Peers, NEW offer \in Offers,
                      HandleHandoffAck(c, q, offer)
               PROVE  Fine(p)
    BY <1>5
  <2>1. \A d \in Calls : KeepsStatus(d, p)
    BY DEF HandleHandoffAck
  <2>2. CASE p # q \/ ~Known(q)
    BY <1>1, <2>1, <2>2 DEF HandleHandoffAck
  <2>3. CASE p = q /\ Known(q)
    <3>1. AttendedBy(c, p)'
      BY <2>3 DEF HandleHandoffAck
    <3>2. peers'[p].status = peers[p].status
      BY <2>3 DEF HandleHandoffAck, Known, PeerInfo
    <3>3. (Known(p) /\ peers[p].status = "Connected")'
            => \E d \in Calls : EarnedBy(d, p)'
      <4> SUFFICES ASSUME peers'[p].status = "Connected"
                   PROVE  \E d \in Calls : EarnedBy(d, p)'
        OBVIOUS
      <4> HIDE DEF EarnedBy, AttendedBy
      <4>1. PICK d \in Calls : EarnedBy(d, p)
        BY <2>3, <3>2 DEF StatusInv
      <4> QED BY <2>1, <4>1
    <3> QED BY <3>1, <3>3 DEF Fine
  <2> QED BY <2>2, <2>3
<1>6. CASE \E q \in Peers : RemovePeer(q)
  <2> SUFFICES ASSUME NEW q \in Peers, RemovePeer(q) PROVE Fine(p)
    BY <1>6
  <2>1. \A d \in Calls : KeepsStatus(d, p)
    BY DEF RemovePeer
  <2>2. CASE p # q
    BY <1>1, <2>1, <2>2 DEF RemovePeer
  <2>3. CASE p = q
    BY <2>3 DEF RemovePeer, Known, Fine
  <2> QED BY <2>2, <2>3
<1>7. CASE RecordConnectionSuccess
  BY <1>1, <1>7 DEF RecordConnectionSuccess
<1>8. CASE \E c \in Calls : CountHandoff(c)
  BY <1>1, <1>8 DEF CountHandoff
<1>9. CASE \E c \in Calls : MarkConnecting(c)
  <2> SUFFICES ASSUME NEW c \in Calls, MarkConnecting(c) PROVE Fine(p)
    BY <1>9
  <2>1. \A d \in Calls : KeepsStatus(d, p)
    BY DEF MarkConnecting
  <2>2. CASE peers' = peers \/ peer[c] # p
    BY <1>1, <2>1, <2>2 DEF MarkConnecting, SetStatus
  <2>3. CASE peer[c] = p /\ peers' # peers
    <3>1. AttendedBy(c, p)'
      BY <2>3 DEF MarkConnecting
    <3>2. peers'[p].status = "Connecting"
      BY <2>3 DEF MarkConnecting, SetStatus, Known, PeerInfo
    <3> QED BY <3>1, <3>2 DEF Fine
  <2> QED BY <2>2, <2>3
<1>10. CASE \E c \in Calls : ReadCandidates(c)
  <2> SUFFICES ASSUME NEW c \in Calls, ReadCandidates(c) PROVE Fine(p)
    BY <1>10
  <2>1. \A d \in Calls : EarnedBy(d, p) => EarnedBy(d, p)'
    BY DEF ReadCandidates
  <2>2. \A d \in Calls : d # c => (AttendedBy(d, p) => AttendedBy(d, p)')
    BY DEF ReadCandidates
  <2>3. CASE peer[c] = p /\ Offered(p) = {}
    <3>1. peers' = peers
      BY DEF ReadCandidates
    <3> QED BY <2>1, <2>3, <3>1 DEF Offered, Known, Fine, StatusInv
  <2>4. CASE ~(peer[c] = p /\ Offered(p) = {})
    <3>1. peers' = peers
      BY DEF ReadCandidates
    <3>2. AttendedBy(c, p) => AttendedBy(c, p)'
      BY <2>4 DEF ReadCandidates
    <3> QED BY <1>1, <2>1, <2>2, <3>1, <3>2
  <2> QED BY <2>3, <2>4
<1>11. CASE \E c \in Calls : StoreConnection(c)
  BY <1>1, <1>11 DEF StoreConnection
<1>12. CASE \E c \in Calls : CandidateAnswers(c)
  BY <1>1, <1>12 DEF CandidateAnswers
<1>13. CASE \E c \in Calls : CandidateFails(c)
  BY <1>1, <1>13 DEF CandidateFails
<1>14. CASE \E c \in Calls : AllFailed(c)
  BY <1>1, <1>14 DEF AllFailed
<1>15. CASE \E c \in Calls : CountSuccess(c)
  BY <1>1, <1>15 DEF CountSuccess
<1>16. CASE \E c \in Calls : ShowConnected(c)
  <2> SUFFICES ASSUME NEW c \in Calls, ShowConnected(c) PROVE Fine(p)
    BY <1>16
  <2>1. \A d \in Calls : EarnedBy(d, p) => EarnedBy(d, p)'
    BY DEF ShowConnected
  <2>2. \A d \in Calls : d # c => (AttendedBy(d, p) => AttendedBy(d, p)')
    BY DEF ShowConnected
  <2>3. CASE peer[c] # p
    BY <1>1, <2>1, <2>2, <2>3 DEF ShowConnected, SetStatus
  <2>4. CASE peer[c] = p
    <3>1. EarnedBy(c, p)'
      BY <2>4 DEF ShowConnected
    <3>2. Known(p)' => peers'[p].status = "Connected"
      BY <2>4 DEF ShowConnected, SetStatus, Known, PeerInfo
    <3> QED BY <3>1, <3>2 DEF Fine
  <2> QED BY <2>3, <2>4
<1>17. CASE \E c \in Calls : MeasureRtt(c)
  BY <1>1, <1>17 DEF MeasureRtt
<1>18. CASE \E c \in Calls : ShowFailed(c)
  <2> SUFFICES ASSUME NEW c \in Calls, ShowFailed(c) PROVE Fine(p)
    BY <1>18
  <2>1. \A d \in Calls : EarnedBy(d, p) => EarnedBy(d, p)'
    BY DEF ShowFailed
  <2>2. \A d \in Calls : d # c => (AttendedBy(d, p) => AttendedBy(d, p)')
    BY DEF ShowFailed
  <2>3. CASE peer[c] # p
    BY <1>1, <2>1, <2>2, <2>3 DEF ShowFailed, SetStatus
  <2>4. CASE peer[c] = p
    <3>1. Known(p)' => peers'[p].status = "Failed"
      BY <2>4 DEF ShowFailed, SetStatus, Known, PeerInfo
    <3> QED BY <3>1 DEF Fine
  <2> QED BY <2>3, <2>4
<1>19. CASE \E c \in Calls : CountFallback(c)
  BY <1>1, <1>19 DEF CountFallback
<1> QED
  BY <1>2, <1>3, <1>4, <1>5, <1>6, <1>7, <1>8, <1>9, <1>10, <1>11,
     <1>12, <1>13, <1>14, <1>15, <1>16, <1>17, <1>18, <1>19, NextCases

\* Only a new handoff adds a peer.
LEMMA RemovedStep ==
  ASSUME Typed, [Next]_vars, NEW p \in Peers, ~Known(p), Known(p)'
  PROVE  \E c \in Calls :
           \/ InitiateHandoff(c, p)
           \/ \E offer \in Offers : HandleHandoffInitiate(c, p, offer)
<1> USE DEF Typed, TypeOK, Known
<1>1. CASE \E c \in Calls, q \in Peers : InitiateHandoff(c, q)
  BY <1>1 DEF InitiateHandoff
<1>2. CASE \E c \in Calls, q \in Peers, offer \in Offers :
             HandleHandoffInitiate(c, q, offer)
  BY <1>2 DEF HandleHandoffInitiate
<1>3. CASE \E c \in Calls, q \in Peers, offer \in Offers :
             HandleHandoffAck(c, q, offer)
  BY <1>3 DEF HandleHandoffAck
<1>4. CASE \E q \in Peers : RemovePeer(q)
  BY <1>4 DEF RemovePeer
<1>5. CASE peers' = peers
  BY <1>5
<1>6. CASE \E c \in Calls, s \in PeerStatus : SetStatus(peer[c], s)
  BY <1>6 DEF SetStatus
<1> QED
  BY <1>1, <1>2, <1>3, <1>4, <1>5, <1>6, NextCases
     DEF PeerStatus, RecordConnectionSuccess, CountHandoff, MarkConnecting,
         ReadCandidates, StoreConnection, CandidateAnswers, CandidateFails,
         AllFailed, CountSuccess, ShowConnected, MeasureRtt, ShowFailed,
         CountFallback, vars

-----------------------------------------------------------------------------
(* The reports.                                                              *)

LEMMA ReportsStep == Typed /\ ReportsAreTrue /\ [Next]_vars => ReportsAreTrue'
<1> SUFFICES ASSUME Typed, ReportsAreTrue, [Next]_vars PROVE ReportsAreTrue'
  OBVIOUS
<1> USE DEF Typed, TypeOK, LinkInv, At, connectionVars, Points, ReportsAreTrue
<1>1. CASE UNCHANGED vars
  BY <1>1 DEF vars
<1>2. CASE \E c \in Calls, p \in Peers : InitiateHandoff(c, p)
  BY <1>2 DEF InitiateHandoff
<1>3. CASE \E c \in Calls, p \in Peers, offer \in Offers :
             HandleHandoffInitiate(c, p, offer)
  BY <1>3 DEF HandleHandoffInitiate
<1>4. CASE \E c \in Calls, p \in Peers, offer \in Offers :
             HandleHandoffAck(c, p, offer)
  BY <1>4 DEF HandleHandoffAck
<1>5. CASE \E p \in Peers : RemovePeer(p)
  BY <1>5 DEF RemovePeer
<1>6. CASE RecordConnectionSuccess
  BY <1>6 DEF RecordConnectionSuccess
<1>7. CASE \E c \in Calls : CountHandoff(c)
  BY <1>7 DEF CountHandoff
<1>8. CASE \E c \in Calls : MarkConnecting(c)
  BY <1>8 DEF MarkConnecting
<1>9. CASE \E c \in Calls : ReadCandidates(c)
  BY <1>9 DEF ReadCandidates
<1>10. CASE \E c \in Calls : StoreConnection(c)
  BY <1>10 DEF StoreConnection
<1>11. CASE \E c \in Calls : CandidateAnswers(c)
  BY <1>11 DEF CandidateAnswers
<1>12. CASE \E c \in Calls : CandidateFails(c)
  BY <1>12 DEF CandidateFails
<1>13. CASE \E c \in Calls : AllFailed(c)
  BY <1>13 DEF AllFailed
<1>14. CASE \E c \in Calls : CountSuccess(c)
  BY <1>14 DEF CountSuccess
<1>15. CASE \E c \in Calls : ShowConnected(c)
  BY <1>15 DEF ShowConnected
<1>16. CASE \E c \in Calls : MeasureRtt(c)
  BY <1>16 DEF MeasureRtt, Tell
<1>17. CASE \E c \in Calls : ShowFailed(c)
  BY <1>17 DEF ShowFailed
<1>18. CASE \E c \in Calls : CountFallback(c)
  BY <1>18 DEF CountFallback, Tell
<1> QED
  BY <1>1, <1>2, <1>3, <1>4, <1>5, <1>6, <1>7, <1>8, <1>9, <1>10, <1>11,
     <1>12, <1>13, <1>14, <1>15, <1>16, <1>17, <1>18, NextCases

-----------------------------------------------------------------------------
(* The theorems.                                                             *)

SafeInv == Typed /\ StatsAddUp /\ StatusInv /\ ReportsAreTrue

LEMMA Safe == Spec => []SafeInv
<1>1. Init => SafeInv
  BY TypedInit, StatsInit DEF SafeInv, StatusInv, ReportsAreTrue, Init, Known
<1>2. SafeInv /\ [Next]_vars => SafeInv'
  BY TypedStep, StatsStep, StatusStep, ReportsStep DEF SafeInv
<1> QED BY <1>1, <1>2, PTL DEF Spec

\* The types hold; no count falls below zero, and only a call that was made has a
\* task (manager.rs:36-78).
THEOREM TypeCorrect == Spec => []TypeOK
<1>1. SafeInv => TypeOK
  BY DEF SafeInv, Typed
<1> QED BY <1>1, Safe, PTL

\* The statistics count every attempt once (manager.rs:384-433).
THEOREM StatisticsAddUp == Spec => []StatsAddUp
<1>1. SafeInv => StatsAddUp
  BY DEF SafeInv
<1> QED BY <1>1, Safe, PTL

\* A connecting peer with candidates has someone who will set its status
\* (manager.rs:328-435).
THEOREM ConnectingAttended == Spec => []ConnectingIsAttended
<1>1. SafeInv => ConnectingIsAttended
  BY StatusProperties DEF SafeInv
<1> QED BY <1>1, Safe, PTL

\* A connected peer was connected by an attempt that is counted
\* (manager.rs:382-396).
THEOREM ConnectedEarned == Spec => []ConnectedIsEarned
<1>1. SafeInv => ConnectedIsEarned
  BY StatusProperties DEF SafeInv
<1> QED BY <1>1, Safe, PTL

\* Every attempt that is over and failed, and no other, has sent the platform to
\* the relay, whatever became of the peer meanwhile (manager.rs:398-431).
THEOREM ReportsTrue == Spec => []ReportsAreTrue
<1>1. SafeInv => ReportsAreTrue
  BY DEF SafeInv
<1> QED BY <1>1, Safe, PTL

\* Tasks that outlive remove_peer do not bring the peer back
\* (manager.rs:464-468).
THEOREM RemovedPeersStayRemoved == Spec => RemovedStaysRemoved
<1>1. SafeInv /\ [Next]_vars =>
        [\A p \in Peers : (~Known(p) /\ Known(p)') =>
           \E c \in Calls :
             \/ InitiateHandoff(c, p)
             \/ \E offer \in Offers : HandleHandoffInitiate(c, p, offer)]_vars
  BY RemovedStep DEF SafeInv
<1> QED BY <1>1, Safe, PTL DEF Spec, RemovedStaysRemoved
=============================================================================
