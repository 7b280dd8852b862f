---------------------------- MODULE ResumableFeed ----------------------------
(* What a client that resumes a feed by a cursor owes its user: the position *)
(* from which it would subscribe again never passes a message whose fate is  *)
(* open and that is not in its hands, and it acknowledges only what it read. *)
(* Delivery implements this specification.                                   *)
EXTENDS Naturals

CONSTANT Last     \* the feed is the messages 1..Last, in this order

VARIABLES
  position,   \* a new subscription starts after this message
  held,       \* messages in the client's memory, to be handled
  read,       \* messages the user was given
  givenUp,    \* messages the client has given up, and not read since
  acked       \* messages acknowledged to the server

feedVars == <<position, held, read, givenUp, acked>>

Init ==
  /\ position = 0
  /\ held = {} /\ read = {} /\ givenUp = {} /\ acked = {}

\* Message n is not lost: its fate is known or it is in the client's hands.
Accounted(n) == n \in held \cup read \cup givenUp

\* Messages arrive in order, from anywhere the client has subscribed.
Fetch(m) ==
  /\ \A n \in 1..(m - 1) : Accounted(n)
  /\ held' = held \cup {m}
  /\ UNCHANGED <<position, read, givenUp, acked>>

\* Everything up to p is accounted for.
Reachable(p) == p \in 0..Last /\ \A n \in 1..p : Accounted(n)

\* What happens to message m: it is read, or given up, or neither yet.
Fate(m) ==
  \/ read' = read \cup {m} /\ givenUp' = givenUp \ {m}
  \/ givenUp' = givenUp \cup {m} /\ UNCHANGED read
  \/ UNCHANGED <<read, givenUp>>

\* A message in hand is dealt with, and is not lost by that: one that is
\* neither read nor given up stays in hand.  The position may move.
Settle(m) ==
  /\ m \in held
  /\ Fate(m)
  /\ held' \in {held, held \ {m}}
  /\ Accounted(m)'
  /\ position' = position \/ Reachable(position)'
  /\ UNCHANGED acked

\* The server says where the feed is.
Move ==
  /\ Reachable(position')
  /\ UNCHANGED <<held, read, givenUp, acked>>

\* A message may be read, given up or taken in hand outside the feed too.
SettleElsewhere(m) ==
  /\ Fate(m)
  /\ held' \in {held, held \cup {m}}
  /\ UNCHANGED <<position, acked>>

Acknowledge(m) ==
  /\ m \in read
  /\ acked' = acked \cup {m}
  /\ UNCHANGED <<position, held, read, givenUp>>

\* Start again from the beginning, keeping what is in hand or losing it too.
Rewind ==
  /\ position' = 0
  /\ held' \in {held, {}}
  /\ UNCHANGED <<read, givenUp, acked>>

Next ==
  \/ \E m \in 1..Last :
       Fetch(m) \/ Settle(m) \/ SettleElsewhere(m) \/ Acknowledge(m)
  \/ Move
  \/ Rewind

Spec == Init /\ [][Next]_feedVars
=============================================================================
