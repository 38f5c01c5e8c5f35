------------------------------- MODULE Presence -------------------------------
(***************************************************************************)
(* What the signaling server promises about presence, seen by the clients  *)
(* of its rooms and said without connections, locks or channels.  A peer   *)
(* enters one room, once, if the room has a free place, and is told at     *)
(* that instant who is there.  From then on it learns of peers of its own  *)
(* room only, never of itself, and forgets only peers that departed.  A    *)
(* peer whose connection ended knows nobody; it may still hold its place.  *)
(***************************************************************************)
EXTENDS Naturals, FiniteSets

CONSTANTS Peers, RoomIds, Nowhere, Capacity

VARIABLES
  home,      \* the room a peer entered, or Nowhere
  members,   \* who holds a place in each room
  known      \* the peers a peer's client currently shows

vars == <<home, members, known>>

Departed(q) == home[q] # Nowhere /\ q \notin members[home[q]]

Init ==
  /\ home = [p \in Peers |-> Nowhere]
  /\ members = [r \in RoomIds |-> {}]
  /\ known = [p \in Peers |-> {}]

Enter(p, r) ==
  /\ home[p] = Nowhere
  /\ Cardinality(members[r]) < Capacity
  /\ home' = [home EXCEPT ![p] = r]
  /\ members' = [members EXCEPT ![r] = @ \cup {p}]
  /\ known' = [known EXCEPT ![p] = members[r] \cup {p}]

Learn(p, q) ==
  /\ known[p] # {}
  /\ q \notin known[p] \cup {p}
  /\ home[q] = home[p]
  /\ known' = [known EXCEPT ![p] = @ \cup {q}]
  /\ UNCHANGED <<home, members>>

Forget(p, q) ==
  /\ q \in known[p] \ {p}
  /\ Departed(q)
  /\ known' = [known EXCEPT ![p] = @ \ {q}]
  /\ UNCHANGED <<home, members>>

Disconnect(p) ==
  /\ known[p] # {}
  /\ known' = [known EXCEPT ![p] = {}]
  /\ UNCHANGED <<home, members>>

Depart(p) ==
  /\ home[p] # Nowhere
  /\ known[p] = {}
  /\ p \in members[home[p]]
  /\ members' = [members EXCEPT ![home[p]] = @ \ {p}]
  /\ UNCHANGED <<home, known>>

Next ==
  \E p \in Peers :
    \/ \E r \in RoomIds : Enter(p, r)
    \/ \E q \in Peers : Learn(p, q) \/ Forget(p, q)
    \/ Disconnect(p)
    \/ Depart(p)

Spec == Init /\ [][Next]_vars
=============================================================================
