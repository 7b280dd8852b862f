----------------------------- MODULE P2PManager -----------------------------
(* Handoffs to direct connections (src/src/p2p/manager.rs), and the attempt  *)
(* to connect that each of them starts (src/src/p2p/quic_p2p.rs).            *)
(*                                                                           *)
(* The manager is shared: its methods run concurrently and give way wherever *)
(* they take one of its locks.  A call of a method is an activity of its     *)
(* own; the task it may spawn goes on under the same name.  Peers, their     *)
(* status, the statistics and the map of connections are each behind a lock  *)
(* of their own, so every step touches one of them.                          *)
EXTENDS Integers, FiniteSets

CONSTANTS
  Peers,         \* "user:device" keys
  Calls,         \* calls of the handoff methods, each made once (a bound)
  Candidates,    \* addresses of peers
  Offers,        \* what candidates a peer may send
  Priority,      \* ICECandidate.priority: the lowest is tried first
  None,          \* Rust's None
  MaxRecorded    \* bound on record_connection_success

ASSUME CallsAssumption == IsFiniteSet(Calls)
ASSUME OffersAssumption == Offers \subseteq SUBSET Candidates
ASSUME PriorityAssumption == Priority \in [Candidates -> Nat]
ASSUME RecordedAssumption == MaxRecorded \in Nat
ASSUME NoneAssumption == None \notin Peers \cup Calls \cup Candidates

VARIABLES
  peers,         \* P2PManager.peers
  connections,   \* P2PManager.connections: whose connection is in the map
  stats,         \* P2PManager.stats
  pc,            \* how far a call, and the task it has spawned, has come
  peer,          \* the peer of a call
  left,          \* the candidates its task has still to try
  link,          \* the state of its P2PConnection
  remote,        \* the address that answered
  told,          \* the P2PStatusReports of a call
  recorded       \* calls of record_connection_success

connectionVars == <<link, remote, left>>
vars == <<peers, connections, stats, pc, peer, connectionVars, told, recorded>>

PeerStatus == {"Disconnected", "Handshaking", "Connecting", "Connected",
               "Failed", "RelayFallback"}
PeerInfo == [status : PeerStatus, candidates : SUBSET Candidates]
P2PStats == [connections_established : Nat, handoff_attempts : Nat,
             handoffs_successful : Nat, fallbacks_to_relay : Nat]

(* "new" before the call.  initiate_handoff: "count".  attempt_connection:   *)
(* "attempt", "read", "store".  Its task: "try" the candidates, then "won",  *)
(* "counted", "shown" or "lost", "marked".                                   *)
Points == {"new", "count", "attempt", "read", "store", "try", "won", "counted",
           "shown", "lost", "marked", "ended"}

TypeOK ==
  /\ peers \in [Peers -> PeerInfo \cup {None}]
  /\ connections \in [Peers -> Calls \cup {None}]
  /\ stats \in P2PStats
  /\ pc \in [Calls -> Points]
  /\ peer \in [Calls -> Peers \cup {None}]
  /\ left \in [Calls -> SUBSET Candidates]
  /\ link \in [Calls -> {"Disconnected", "Connecting", "Connected", "Failed"}]
  /\ remote \in [Calls -> Candidates \cup {None}]
  /\ told \in [Calls -> SUBSET {"direct", "relay"}]
  /\ recorded \in 0..MaxRecorded
  /\ \A c \in Calls : (pc[c] # "new") => peer[c] \in Peers

Init ==
  /\ peers = [p \in Peers |-> None]
  /\ connections = [p \in Peers |-> None]
  /\ stats = [connections_established |-> 0, handoff_attempts |-> 0,
              handoffs_successful |-> 0, fallbacks_to_relay |-> 0]
  /\ pc = [c \in Calls |-> "new"]
  /\ peer = [c \in Calls |-> None]
  /\ left = [c \in Calls |-> {}]
  /\ link = [c \in Calls |-> "Disconnected"]
  /\ remote = [c \in Calls |-> None]
  /\ told = [c \in Calls |-> {}]
  /\ recorded = 0

-----------------------------------------------------------------------------
Known(p) == peers[p] # None

\* One step of call c from one point to another.
At(c, here, there) == pc[c] = here /\ pc' = [pc EXCEPT ![c] = there]

Tell(c, event) == told' = [told EXCEPT ![c] = @ \cup {event}]

\* peers.get_mut: a peer that is not tracked, or no more, is left alone.
SetStatus(p, status) ==
  peers' = IF Known(p) THEN [peers EXCEPT ![p].status = status] ELSE peers

-----------------------------------------------------------------------------
(* The methods                                                               *)

\* initiate_handoff: the server suggests a peer.
InitiateHandoff(c, p) ==
  /\ At(c, "new", "count")
  /\ peer' = [peer EXCEPT ![c] = p]
  /\ peers' = [peers EXCEPT ![p] =
                 [status |-> "Handshaking",
                  candidates |-> IF Known(p) THEN peers[p].candidates ELSE {}]]
  /\ UNCHANGED <<connections, stats, connectionVars, told, recorded>>

\* The own candidates, which gathering always yields, go to the platform.
CountHandoff(c) ==
  /\ At(c, "count", "ended")
  /\ stats' = [stats EXCEPT !.handoff_attempts = @ + 1]
  /\ UNCHANGED <<peers, connections, peer, connectionVars, told, recorded>>

\* handle_handoff_initiate: the peer's candidates arrive.  The acknowledgement
\* says success before anything has been tried.
HandleHandoffInitiate(c, p, offer) ==
  /\ At(c, "new", "attempt")
  /\ peer' = [peer EXCEPT ![c] = p]
  /\ peers' = [peers EXCEPT ![p] =
                 [status |-> "Handshaking", candidates |-> offer]]
  /\ UNCHANGED <<connections, stats, connectionVars, told, recorded>>

\* handle_handoff_ack: the peer's candidates, if the peer is tracked.
HandleHandoffAck(c, p, offer) ==
  /\ At(c, "new", "attempt")
  /\ peer' = [peer EXCEPT ![c] = p]
  /\ peers' = IF Known(p) THEN [peers EXCEPT ![p].candidates = offer] ELSE peers
  /\ UNCHANGED <<connections, stats, connectionVars, told, recorded>>

RemovePeer(p) ==
  /\ Known(p)
  /\ peers' = [peers EXCEPT ![p] = None]
  /\ UNCHANGED <<connections, stats, pc, peer, connectionVars, told, recorded>>

RecordConnectionSuccess ==
  /\ recorded < MaxRecorded
  /\ recorded' = recorded + 1
  /\ stats' = [stats EXCEPT !.connections_established = @ + 1,
                            !.handoffs_successful = @ + 1]
  /\ UNCHANGED <<peers, connections, pc, peer, connectionVars, told>>

-----------------------------------------------------------------------------
(* attempt_connection                                                        *)

MarkConnecting(c) ==
  /\ At(c, "attempt", "read")
  /\ SetStatus(peer[c], "Connecting")
  /\ UNCHANGED <<connections, stats, peer, connectionVars, told, recorded>>

\* The candidates now, not those this call has stored.
Offered(p) == IF Known(p) THEN peers[p].candidates ELSE {}

\* Changed form: nothing more to do where a connection is in the map.
ReadCandidatesOnce(c) ==
  /\ pc[c] = "read"
  /\ LET offered == Offered(peer[c]) IN
     IF offered = {} \/ connections[peer[c]] # None
       THEN At(c, "read", "ended") /\ UNCHANGED left
       ELSE At(c, "read", "store") /\ left' = [left EXCEPT ![c] = offered]
  /\ UNCHANGED <<peers, connections, stats, peer, link, remote, told, recorded>>

\* Without candidates the call returns; the peer's status stays.
ReadCandidates(c) ==
  /\ pc[c] = "read"
  /\ LET offered == Offered(peer[c]) IN
     IF offered = {}
       THEN At(c, "read", "ended") /\ UNCHANGED left
       ELSE At(c, "read", "store") /\ left' = [left EXCEPT ![c] = offered]
  /\ UNCHANGED <<peers, connections, stats, peer, link, remote, told, recorded>>

\* The new connection takes the place of an earlier one, and its task starts.
StoreConnection(c) ==
  /\ At(c, "store", "try")
  /\ connections' = [connections EXCEPT ![peer[c]] = c]
  /\ link' = [link EXCEPT ![c] = "Connecting"]
  /\ UNCHANGED <<peers, stats, peer, left, remote, told, recorded>>

-----------------------------------------------------------------------------
(* The task of an attempt.  Only the task uses its connection, so what the   *)
(* connection's own locks separate is one step here.                         *)

Preferred(c) == {a \in left[c] : \A b \in left[c] : Priority[a] <= Priority[b]}

\* Changed form: the peer is shown as connected before it is counted.
CandidateAnswersShown(c) ==
  /\ At(c, "try", "won")
  /\ \E a \in Preferred(c) : remote' = [remote EXCEPT ![c] = a]
  /\ link' = [link EXCEPT ![c] = "Connected"]
  /\ left' = [left EXCEPT ![c] = {}]
  /\ SetStatus(peer[c], "Connected")
  /\ UNCHANGED <<connections, stats, peer, told, recorded>>

\* A datagram arrives in time, from whomever: the probe of the candidate is taken
\* as answered, and the others are not tried.
CandidateAnswers(c) ==
  /\ At(c, "try", "won")
  /\ \E a \in Preferred(c) : remote' = [remote EXCEPT ![c] = a]
  /\ link' = [link EXCEPT ![c] = "Connected"]
  /\ left' = [left EXCEPT ![c] = {}]
  /\ UNCHANGED <<peers, connections, stats, peer, told, recorded>>

\* It does not: on to the next one.
CandidateFails(c) ==
  /\ pc[c] = "try"
  /\ \E a \in Preferred(c) : left' = [left EXCEPT ![c] = @ \ {a}]
  /\ UNCHANGED <<peers, connections, stats, pc, peer, link, remote, told, recorded>>

\* Changed form: the task looks at a success only.
AllFailedSilently(c) ==
  /\ At(c, "try", "ended") /\ left[c] = {}
  /\ link' = [link EXCEPT ![c] = "Failed"]
  /\ UNCHANGED <<peers, connections, stats, peer, left, remote, told, recorded>>

AllFailed(c) ==
  /\ At(c, "try", "lost") /\ left[c] = {}
  /\ link' = [link EXCEPT ![c] = "Failed"]
  /\ UNCHANGED <<peers, connections, stats, peer, left, remote, told, recorded>>

\* Changed form: the task also calls record_connection_success.
CountSuccessTwice(c) ==
  /\ At(c, "won", "counted")
  /\ stats' = [stats EXCEPT !.connections_established = @ + 2,
                            !.handoffs_successful = @ + 2]
  /\ UNCHANGED <<peers, connections, peer, connectionVars, told, recorded>>

CountSuccess(c) ==
  /\ At(c, "won", "counted")
  /\ stats' = [stats EXCEPT !.connections_established = @ + 1,
                            !.handoffs_successful = @ + 1]
  /\ UNCHANGED <<peers, connections, peer, connectionVars, told, recorded>>

ShowConnected(c) ==
  /\ At(c, "counted", "shown")
  /\ SetStatus(peer[c], "Connected")
  /\ UNCHANGED <<connections, stats, peer, connectionVars, told, recorded>>

\* The round trip is reported if the ping is answered.
MeasureRtt(c) ==
  /\ At(c, "shown", "ended")
  /\ Tell(c, "direct") \/ UNCHANGED told
  /\ UNCHANGED <<peers, connections, stats, peer, connectionVars, recorded>>

\* Changed form: the task ends with a peer that was removed.
ShowFailedQuietly(c) ==
  /\ pc[c] = "lost"
  /\ IF Known(peer[c]) THEN At(c, "lost", "marked") ELSE At(c, "lost", "ended")
  /\ SetStatus(peer[c], "Failed")
  /\ UNCHANGED <<connections, stats, peer, connectionVars, told, recorded>>

ShowFailed(c) ==
  /\ At(c, "lost", "marked")
  /\ SetStatus(peer[c], "Failed")
  /\ UNCHANGED <<connections, stats, peer, connectionVars, told, recorded>>

\* Changed form: the failure is also taken off the connections established.
CountFallbackUncounting(c) ==
  /\ At(c, "marked", "ended")
  /\ stats' = [stats EXCEPT !.fallbacks_to_relay = @ + 1,
                            !.connections_established = @ - 1]
  /\ Tell(c, "relay")
  /\ UNCHANGED <<peers, connections, peer, connectionVars, recorded>>

CountFallback(c) ==
  /\ At(c, "marked", "ended")
  /\ stats' = [stats EXCEPT !.fallbacks_to_relay = @ + 1]
  /\ Tell(c, "relay")
  /\ UNCHANGED <<peers, connections, peer, connectionVars, recorded>>

-----------------------------------------------------------------------------
\* A call that has been made, and its task, goes on.
Proceed(c) ==
  \/ CountHandoff(c) \/ MarkConnecting(c) \/ ReadCandidates(c)
  \/ StoreConnection(c) \/ CandidateAnswers(c) \/ CandidateFails(c)
  \/ AllFailed(c) \/ CountSuccess(c) \/ ShowConnected(c) \/ MeasureRtt(c)
  \/ ShowFailed(c) \/ CountFallback(c)

Next ==
  \/ \E c \in Calls, p \in Peers : InitiateHandoff(c, p)
  \/ \E c \in Calls, p \in Peers, offer \in Offers :
       HandleHandoffInitiate(c, p, offer) \/ HandleHandoffAck(c, p, offer)
  \/ \E p \in Peers : RemovePeer(p)
  \/ RecordConnectionSuccess
  \/ \E c \in Calls : Proceed(c)

\* Every wait of a call ends: locks are held for one update, a probe and a
\* ping have timeouts.
Fairness == \A c \in Calls : WF_vars(Proceed(c))

Spec == Init /\ [][Next]_vars /\ Fairness

-----------------------------------------------------------------------------
(* Properties                                                                *)

Pending == {"try", "won", "lost", "marked"}
Attempts == {c \in Calls : link[c] # "Disconnected"}
Uncounted == {c \in Attempts : pc[c] \in Pending}

\* Every attempt enters the statistics once, as established or as a fallback,
\* whatever else runs and whether or not the peer is still tracked
\* (attempt_connection, manager.rs:384-433).
StatsAddUp ==
  /\ stats.connections_established + stats.fallbacks_to_relay
       + Cardinality(Uncounted) = Cardinality(Attempts) + recorded
  /\ stats.handoffs_successful = stats.connections_established

\* A peer shown as connecting that has candidates is being attended to: a call
\* or a task will still set its status (attempt_connection, manager.rs:332-353).
ConnectingIsAttended ==
  \A p \in Peers :
    (Known(p) /\ peers[p].status = "Connecting" /\ peers[p].candidates # {}) =>
       \E c \in Calls :
         /\ peer[c] = p
         /\ pc[c] \in {"attempt", "read", "store", "try", "won", "counted", "lost"}

\* A peer shown as connected has been connected to, by an attempt that sent a probe
\* and then got a datagram, and that the statistics already count
\* (manager.rs:382-396).
ConnectedIsEarned ==
  \A p \in Peers :
    (Known(p) /\ peers[p].status = "Connected") =>
       \E c \in Calls :
         /\ peer[c] = p /\ link[c] = "Connected" /\ remote[c] \in Candidates
         /\ pc[c] \in {"shown", "ended"}

\* A removed peer comes back by a new handoff only: the tasks that outlive the
\* removal do not add it again (remove_peer, manager.rs:464-468).
RemovedStaysRemoved ==
  [][\A p \in Peers : (~Known(p) /\ Known(p)') =>
       \E c \in Calls :
         \/ InitiateHandoff(c, p)
         \/ \E offer \in Offers : HandleHandoffInitiate(c, p, offer)
    ]_vars

\* Every attempt that has candidates comes to an outcome, whatever else is done
\* about the peer and whether or not it is still tracked: one answers, or the
\* platform is told to use the relay (manager.rs:328-435).
AttemptsConclude ==
  \A c \in Calls :
    pc[c] = "store" ~> \/ link[c] = "Connected" /\ pc[c] = "ended"
                       \/ "relay" \in told[c]

\* An attempt that is over has told the platform what came of it: to use the
\* relay exactly when every candidate failed, whether or not the peer is still
\* tracked; a direct connection only when one answered (manager.rs:398-431).
ReportsAreTrue ==
  \A c \in Calls :
    /\ "relay" \in told[c] <=> link[c] = "Failed" /\ pc[c] = "ended"
    /\ "direct" \in told[c] => link[c] = "Connected" /\ pc[c] = "ended"
=============================================================================
