------------------------------ MODULE Courier ------------------------------
(* What sending promises the app, with the queue of events, the frame queues,*)
(* the pumps and the stream handles abstracted away.  A message is accepted  *)
(* or dropped when it is submitted.  Once the service runs, everything that  *)
(* was accepted is answered in order: a message is refused, or it is given   *)
(* to one stream and reported SENT in the same step.  A stream delivers in   *)
(* order, and loses at most the end of what it was given, when it breaks.    *)
EXTENDS Naturals, Sequences

CONSTANTS
  Msgs,      \* the messages
  Other,     \* any other request
  Streams

VARIABLES
  phase,     \* "starting", "serving" or "over"
  status,    \* what the app was told of each message
  accepted,  \* what was accepted and not answered, the oldest first
  owed,      \* owed[i]: given to stream i, on its way
  got,       \* got[i]: what arrived over stream i
  broken     \* the streams that take no more

appVars == <<phase, status, accepted>>
streamVars == <<owed, got, broken>>
vars == <<appVars, streamVars>>

Init ==
  /\ phase = "starting" /\ accepted = <<>>
  /\ status = [m \in Msgs |-> "fresh"]
  /\ owed = [i \in Streams |-> <<>>] /\ got = [i \in Streams |-> <<>>]
  /\ broken = {}

AcceptOrDrop(e) ==
  \/ UNCHANGED accepted
  \/ phase # "over" /\ accepted' = Append(accepted, e)

Submit(m) ==
  /\ status[m] \in {"fresh", "FAILED"}
  /\ status' = [status EXCEPT ![m] = "pending"]
  /\ AcceptOrDrop(m)
  /\ UNCHANGED <<phase, streamVars>>

SubmitOther ==
  /\ AcceptOrDrop(Other)
  /\ UNCHANGED <<phase, status, streamVars>>

\* The service starts, or never will: only then is what it accepted forgotten.
Serve ==
  /\ phase = "starting"
  /\ \/ phase' = "serving" /\ UNCHANGED accepted
     \/ phase' = "over" /\ accepted' = <<>>
  /\ UNCHANGED <<status, streamVars>>

\* The oldest request is done with.
Done ==
  /\ phase = "serving" /\ accepted # <<>>
  /\ accepted' = Tail(accepted)
  /\ UNCHANGED phase

HandleOther ==
  /\ Done /\ Head(accepted) = Other
  /\ UNCHANGED <<status, streamVars>>

Refuse ==
  /\ Done /\ Head(accepted) \in Msgs
  /\ status' = [status EXCEPT ![Head(accepted)] = "FAILED"]
  /\ UNCHANGED streamVars

Give(i) ==
  /\ Done /\ Head(accepted) \in Msgs /\ i \notin broken
  /\ status' = [status EXCEPT ![Head(accepted)] = "SENT"]
  /\ owed' = [owed EXCEPT ![i] = Append(@, Head(accepted))]
  /\ UNCHANGED <<got, broken>>

Deliver(i) ==
  /\ owed[i] # <<>>
  /\ got' = [got EXCEPT ![i] = Append(@, Head(owed[i]))]
  /\ owed' = [owed EXCEPT ![i] = Tail(@)]
  /\ UNCHANGED <<appVars, broken>>

\* A stream breaks, or has broken: the beginning of what is on its way may
\* still arrive.
Break(i) ==
  /\ broken' = broken \cup {i}
  /\ \E n \in 0..Len(owed[i]) : owed' = [owed EXCEPT ![i] = SubSeq(@, 1, n)]
  /\ UNCHANGED <<appVars, got>>

Next ==
  \/ \E m \in Msgs : Submit(m)
  \/ SubmitOther \/ Serve \/ HandleOther \/ Refuse
  \/ \E i \in Streams : Give(i) \/ Deliver(i) \/ Break(i)

Spec == Init /\ [][Next]_vars
=============================================================================
