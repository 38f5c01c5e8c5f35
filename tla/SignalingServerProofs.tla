------------------------ MODULE SignalingServerProofs ------------------------
(***************************************************************************)
(* What SignalingServer promises for every number of connections and       *)
(* rooms, every room size and every channel capacity: the registry is      *)
(* sound, the server implements Presence, and what a client was shown and  *)
(* has still to read add up to the room.                                   *)
(***************************************************************************)
EXTENDS SignalingServer, FiniteSetTheorems, TLAPS

(* Pushing keeps a queue within the capacity of the channel. *)
LEMMA PushType ==
  ASSUME NEW q \in Seq(Events), Len(q) <= ChannelCapacity, NEW e \in Events
  PROVE  Push(q, e) \in Seq(Events) /\ Len(Push(q, e)) <= ChannelCapacity
<1>1. ChannelCapacity \in Nat \ {0}
  BY ServerAssumption
<1>2. CASE Len(q) < ChannelCapacity
  BY <1>1, <1>2 DEF Push
<1>3. CASE ~(Len(q) < ChannelCapacity)
  <2>1. q # <<>>
    BY <1>1, <1>3
  <2>2. Tail(q) \in Seq(Events) /\ Len(Tail(q)) = Len(q) - 1
    BY <2>1
  <2> QED
    BY <1>1, <1>3, <2>2 DEF Push
<1> QED
  BY <1>2, <1>3

(* A broadcast keeps the queues and the lag marks well typed. *)
LEMMA BroadcastType ==
  ASSUME TypeOK, NEW receivers, NEW e \in Events, Broadcast(receivers, e)
  PROVE  /\ events' \in [Conns -> Seq(Events)]
         /\ \A c \in Conns : Len(events'[c]) <= ChannelCapacity
         /\ lag' \in [Conns -> {"none", "pending", "reported"}]
<1>1. ASSUME NEW c \in Conns
      PROVE  Push(events[c], e) \in Seq(Events) /\ Len(Push(events[c], e)) <= ChannelCapacity
  <2>1. events[c] \in Seq(Events) /\ Len(events[c]) <= ChannelCapacity
    BY DEF TypeOK
  <2> QED
    BY <2>1, PushType
<1>2. events' \in [Conns -> Seq(Events)]
  BY <1>1 DEF TypeOK, Broadcast
<1>3. \A c \in Conns : Len(events'[c]) <= ChannelCapacity
  BY <1>1 DEF TypeOK, Broadcast
<1>4. lag' \in [Conns -> {"none", "pending", "reported"}]
  BY DEF TypeOK, Broadcast
<1> QED
  BY <1>2, <1>3, <1>4

(* Detach leaves everything it touches well typed. *)
LEMMA DetachType ==
  ASSUME TypeOK, NEW c \in Conns, Detach(c)
  PROVE  /\ events' \in [Conns -> Seq(Events)]
         /\ \A d \in Conns : Len(events'[d]) <= ChannelCapacity
         /\ lag' \in [Conns -> {"none", "pending", "reported"}]
         /\ view' \in [Conns -> [Conns -> MediaStates \cup {NoPeer}]]
         /\ pending' \in [Conns -> MediaStates]
<1>1. ChannelCapacity \in Nat \ {0} /\ DefaultMedia \in MediaStates
  BY ServerAssumption
<1>2. <<>> \in Seq(Events) /\ Len(<<>>) = 0
  OBVIOUS
<1>3. Unknown \in [Conns -> MediaStates \cup {NoPeer}]
  BY DEF Unknown
<1>4. events' \in [Conns -> Seq(Events)]
  BY <1>2 DEF TypeOK, Detach
<1>5. \A d \in Conns : Len(events'[d]) <= ChannelCapacity
  <2> SUFFICES ASSUME NEW d \in Conns PROVE Len(events'[d]) <= ChannelCapacity
    OBVIOUS
  <2>1. events'[d] = <<>> \/ events'[d] = events[d]
    BY DEF TypeOK, Detach
  <2> QED
    BY <1>1, <1>2, <2>1 DEF TypeOK
<1>6. lag' \in [Conns -> {"none", "pending", "reported"}] /\ pending' \in [Conns -> MediaStates]
  BY <1>1 DEF TypeOK, Detach
<1>7. view' \in [Conns -> [Conns -> MediaStates \cup {NoPeer}]]
  BY <1>3 DEF TypeOK, Detach
<1> QED
  BY <1>4, <1>5, <1>6, <1>7

(* What is told of an event is a view. *)
LEMMA ToldType ==
  ASSUME NEW v \in [Conns -> MediaStates \cup {NoPeer}], NEW e \in Events
  PROVE  Told(v, e) \in [Conns -> MediaStates \cup {NoPeer}]
  BY DEF Told, Events

(* A connection that upgraded has a room: without it join is not well typed. *)
Placed == \A c \in Conns : pc[c] # "new" => room[c] \in RoomIds

TypeInv == TypeOK /\ Placed

LEMMA InitType == Init => TypeInv
<1> SUFFICES ASSUME Init PROVE TypeInv
  OBVIOUS
<1>1. ChannelCapacity \in Nat \ {0} /\ DefaultMedia \in MediaStates /\ MaxMessages \in Nat
  BY ServerAssumption
<1>2. events \in [Conns -> Seq(Events)] /\ \A c \in Conns : Len(events[c]) <= ChannelCapacity
  BY <1>1 DEF Init
<1>3. view \in [Conns -> [Conns -> MediaStates \cup {NoPeer}]]
  BY DEF Init, Unknown
<1>4. TypeOK
  BY <1>1, <1>2, <1>3 DEF Init, TypeOK, Stages
<1> QED
  BY <1>4 DEF Init, TypeInv, Placed

(* Every step keeps the types and the placement. *)
LEMMA NextType == TypeInv /\ [Next]_vars => TypeInv'
<1> SUFFICES ASSUME TypeInv, [Next]_vars PROVE TypeInv'
  OBVIOUS
<1> USE DEF registry, Goto, TypeInv, Placed
<1>a. DefaultMedia \in MediaStates /\ MaxMessages \in Nat /\ ChannelCapacity \in Nat
  BY ServerAssumption
<1>1. ASSUME NEW c \in Conns, NEW r \in RoomIds, Upgrade(c, r) PROVE TypeInv'
  BY <1>1 DEF Upgrade, TypeOK, Stages
<1>2. ASSUME NEW c \in Conns, HandshakeFails(c) PROVE TypeInv'
  BY <1>2 DEF HandshakeFails, TypeOK, Stages
<1>3. ASSUME NEW c \in Conns, Join(c) PROVE TypeInv'
  <2>1. Event("PeerJoined", c, c, DefaultMedia) \in Events
    BY <1>a DEF Event, Events, EventTypes
  <2>2. /\ events' \in [Conns -> Seq(Events)]
        /\ \A d \in Conns : Len(events'[d]) <= ChannelCapacity
        /\ lag' \in [Conns -> {"none", "pending", "reported"}]
    BY <1>3, <2>1, BroadcastType DEF Join
  <2>3. [Snapshot(room[c]) EXCEPT ![c] = DefaultMedia] \in [Conns -> MediaStates \cup {NoPeer}]
    BY <1>a DEF Snapshot, TypeOK
  <2>4. view' \in [Conns -> [Conns -> MediaStates \cup {NoPeer}]]
    BY <1>3, <2>3 DEF Join, TypeOK
  <2>5. live' \subseteq RoomIds /\ peers' \in [RoomIds -> SUBSET Conns]
    BY <1>3 DEF Join, TypeOK
  <2> QED
    BY <1>3, <1>a, <2>2, <2>4, <2>5 DEF Join, TypeOK, Stages
<1>4. ASSUME NEW c \in Conns, JoinFull(c) PROVE TypeInv'
  BY <1>4 DEF JoinFull, TypeOK, Stages
<1>5. ASSUME NEW c \in Conns, SendRoomState(c) PROVE TypeInv'
  BY <1>5 DEF SendRoomState, TypeOK, Stages
<1>6. ASSUME NEW c \in Conns, SendRoomStateFails(c) PROVE TypeInv'
  BY <1>6, DetachType DEF SendRoomStateFails, TypeOK, Stages
<1>7. ASSUME NEW c \in Conns, NEW state \in MediaStates, NEW own \in Claims,
             RecvMediaState(c, state, own)
      PROVE TypeInv'
  <2>1. sent' \in [Conns -> 0..MaxMessages]
    BY <1>7, <1>a DEF RecvMediaState, TypeOK
  <2> QED
    BY <1>7, <2>1 DEF RecvMediaState, TypeOK, Stages
<1>8. ASSUME NEW c \in Conns, PublishMediaState(c) PROVE TypeInv'
  <2>1. Event("MediaState", c, c, pending[c]) \in Events
    BY DEF Event, Events, EventTypes, TypeOK
  <2> QED
    BY <1>8, <1>a, <2>1, BroadcastType DEF PublishMediaState, TypeOK, Stages
<1>9. ASSUME NEW c \in Conns, NEW type \in {"Chat", "Signal"}, NEW target \in Conns,
             RecvPublished(c, type, target)
      PROVE TypeInv'
  <2>1. Event(type, c, target, DefaultMedia) \in Events
    BY <1>a DEF Event, Events, EventTypes
  <2>2. sent' \in [Conns -> 0..MaxMessages]
    BY <1>9, <1>a DEF RecvPublished, TypeOK
  <2> QED
    BY <1>9, <2>1, <2>2, BroadcastType DEF RecvPublished, TypeOK, Stages
<1>10. ASSUME NEW c \in Conns, ObserveLag(c) PROVE TypeInv'
  BY <1>10 DEF ObserveLag, TypeOK
<1>11. ASSUME NEW c \in Conns, Deliver(c) PROVE TypeInv'
  <2>1. events[c] \in Seq(Events) /\ events[c] # <<>> /\ Len(events[c]) <= ChannelCapacity
    BY <1>11 DEF Deliver, TypeOK
  <2>2. /\ Head(events[c]) \in Events /\ Tail(events[c]) \in Seq(Events)
        /\ Len(Tail(events[c])) = Len(events[c]) - 1
    BY <2>1
  <2>3. events' \in [Conns -> Seq(Events)]
    BY <1>11, <2>2 DEF Deliver, TypeOK
  <2>4. ASSUME NEW d \in Conns PROVE Len(events'[d]) <= ChannelCapacity
    <3>1. CASE d = c
      BY <1>11, <1>a, <2>1, <2>2, <3>1 DEF Deliver, TypeOK
    <3>2. CASE d # c
      BY <1>11, <3>2 DEF Deliver, TypeOK
    <3> QED
      BY <3>1, <3>2
  <2>5. Told(view[c], Head(events[c])) \in [Conns -> MediaStates \cup {NoPeer}]
    BY <2>2, ToldType DEF TypeOK
  <2>6. view' \in [Conns -> [Conns -> MediaStates \cup {NoPeer}]]
    BY <1>11, <2>5 DEF Deliver, TypeOK
  <2> QED
    BY <1>11, <2>3, <2>4, <2>6 DEF Deliver, TypeOK
<1>12. ASSUME NEW c \in Conns, Break(c) PROVE TypeInv'
  BY <1>12, DetachType DEF Break, TypeOK, Stages
<1>13. ASSUME NEW c \in Conns, Leave(c) PROVE TypeInv'
  <2>1. Event("PeerLeft", c, c, DefaultMedia) \in Events
    BY <1>a DEF Event, Events, EventTypes
  <2>2. /\ events' \in [Conns -> Seq(Events)]
        /\ \A d \in Conns : Len(events'[d]) <= ChannelCapacity
        /\ lag' \in [Conns -> {"none", "pending", "reported"}]
    BY <1>13, <2>1, BroadcastType DEF Leave, TypeOK
  <2>3. live' \subseteq RoomIds
    BY <1>13 DEF Leave, LiveAfterLeave, TypeOK
  <2>4. peers' \in [RoomIds -> SUBSET Conns]
    BY <1>13 DEF Leave, Remaining, TypeOK
  <2> QED
    BY <1>13, <2>2, <2>3, <2>4 DEF Leave, TypeOK, Stages
<1>14. CASE UNCHANGED vars
  BY <1>14 DEF vars, TypeOK
<1> QED
  BY <1>1, <1>2, <1>3, <1>4, <1>5, <1>6, <1>7, <1>8, <1>9, <1>10, <1>11, <1>12, <1>13, <1>14
  DEF Next, RecvChat, RecvSignal

(* Every value has its type, and no receiver of a room has more unread     *)
(* events than its channel keeps (room.rs, CHANNEL_CAPACITY).              *)
THEOREM TypeCorrect == Spec => []TypeOK
<1>1. TypeInv => TypeOK
  BY DEF TypeInv
<1> QED
  BY InitType, NextType, <1>1, PTL DEF Spec

-----------------------------------------------------------------------------
(* A member is a connection that entered that very room. *)
InOwnRoom == \A r \in RoomIds : \A c \in peers[r] : room[c] = r /\ pc[c] \in Entered

(* The registry and the tasks agree: what the membership theorems rest on. *)
RegistryInv ==
  /\ TypeInv
  /\ InOwnRoom
  /\ SubscriberIsMember
  /\ NoEmptyRooms
  /\ RoomWithinCapacity

LEMMA InitRegistry == Init => RegistryInv
<1> SUFFICES ASSUME Init PROVE RegistryInv
  OBVIOUS
<1>1. Cardinality({}) = 0 /\ MaxRoomSize \in Nat
  BY FS_EmptySet, ServerAssumption
<1>2. TypeInv
  BY InitType
<1> QED
  BY <1>1, <1>2 DEF Init, RegistryInv, InOwnRoom, SubscriberIsMember, NoEmptyRooms,
                    RoomWithinCapacity, Listening

(* A step that leaves the registry and the rooms alone and moves no task   *)
(* into, or out of, the room it serves keeps the registry invariant.       *)
LEMMA QuietStep ==
  ASSUME RegistryInv, TypeInv', UNCHANGED <<live, peers, room>>,
         \A c \in Conns : pc[c] \in Entered => pc'[c] \in Entered,
         \A c \in Conns : pc'[c] \in Listening \cup {"closing"}
                             => pc[c] \in Listening \cup {"closing"}
  PROVE  RegistryInv'
<1>1. InOwnRoom'
  BY DEF RegistryInv, InOwnRoom, TypeInv, TypeOK
<1>2. SubscriberIsMember'
  BY DEF RegistryInv, SubscriberIsMember
<1>3. NoEmptyRooms' /\ RoomWithinCapacity'
  BY DEF RegistryInv, NoEmptyRooms, RoomWithinCapacity
<1> QED
  BY <1>1, <1>2, <1>3 DEF RegistryInv

(* Joining and leaving change the size of a room by at most one. *)
LEMMA RoomSize ==
  ASSUME TypeOK, NEW r \in RoomIds, NEW c \in Conns
  PROVE  /\ Cardinality(peers[r]) \in Nat
         /\ Cardinality(peers[r] \cup {c}) <= Cardinality(peers[r]) + 1
         /\ Cardinality(peers[r] \ {c}) <= Cardinality(peers[r])
<1>1. peers[r] \subseteq Conns /\ IsFiniteSet(Conns)
  BY ServerAssumption DEF TypeOK
<1>2. IsFiniteSet(peers[r])
  BY <1>1, FS_Subset
<1>3. Cardinality(peers[r]) \in Nat
  BY <1>2, FS_CardinalityType
<1>4. Cardinality(peers[r] \cup {c}) <= Cardinality(peers[r]) + 1
  <2>1. \/ Cardinality(peers[r] \cup {c}) = Cardinality(peers[r])
        \/ Cardinality(peers[r] \cup {c}) = Cardinality(peers[r]) + 1
    BY <1>2, FS_AddElement, Zenon
  <2> QED
    BY <2>1, <1>3
<1>5. Cardinality(peers[r] \ {c}) <= Cardinality(peers[r])
  <2>1. \/ Cardinality(peers[r] \ {c}) = Cardinality(peers[r])
        \/ Cardinality(peers[r] \ {c}) = Cardinality(peers[r]) - 1
    BY <1>2, FS_RemoveElement, Zenon
  <2> QED
    BY <2>1, <1>3
<1> QED
  BY <1>3, <1>4, <1>5

LEMMA NextRegistry == RegistryInv /\ [Next]_vars => RegistryInv'
<1> SUFFICES ASSUME RegistryInv, [Next]_vars PROVE RegistryInv'
  OBVIOUS
<1> USE DEF registry, Goto
<1>a. TypeInv /\ TypeInv' /\ TypeOK /\ TypeOK'
  BY NextType DEF RegistryInv, TypeInv
<1>1. ASSUME NEW c \in Conns, NEW r \in RoomIds, Upgrade(c, r) PROVE RegistryInv'
  <2>1. pc[c] = "new" /\ pc' = [pc EXCEPT ![c] = "handshake"] /\ room' = [room EXCEPT ![c] = r]
        /\ UNCHANGED <<live, peers>>
    BY <1>1 DEF Upgrade
  <2>2. InOwnRoom'
    BY <2>1, <1>a DEF RegistryInv, InOwnRoom, TypeOK, Entered
  <2>3. SubscriberIsMember'
    BY <2>1, <1>a DEF RegistryInv, SubscriberIsMember, TypeOK, Listening
  <2>4. NoEmptyRooms' /\ RoomWithinCapacity'
    BY <2>1 DEF RegistryInv, NoEmptyRooms, RoomWithinCapacity
  <2> QED
    BY <2>2, <2>3, <2>4, <1>a DEF RegistryInv
<1>2. ASSUME NEW c \in Conns, HandshakeFails(c) PROVE RegistryInv'
  BY <1>2, <1>a, QuietStep DEF HandshakeFails, TypeOK, Entered, Listening
<1>3. ASSUME NEW c \in Conns, Join(c) PROVE RegistryInv'
  <2> DEFINE r == room[c]
  <2>1. /\ pc[c] = "handshake" /\ pc' = [pc EXCEPT ![c] = "joined"] /\ room' = room
        /\ Cardinality(peers[r]) < MaxRoomSize
        /\ live' = live \cup {r} /\ peers' = [peers EXCEPT ![r] = @ \cup {c}]
    BY <1>3 DEF Join, HasRoom
  <2>2. r \in RoomIds
    BY <2>1, <1>a DEF TypeInv, Placed
  <2> HIDE DEF r
  <2>3. InOwnRoom'
    BY <2>1, <2>2, <1>a DEF RegistryInv, InOwnRoom, TypeOK, Entered, r
  <2>4. SubscriberIsMember'
    BY <2>1, <2>2, <1>a DEF RegistryInv, SubscriberIsMember, TypeOK, Listening, r
  <2>5. NoEmptyRooms'
    BY <2>1, <2>2, <1>a DEF RegistryInv, NoEmptyRooms, TypeOK
  <2>6. Cardinality(peers[r] \cup {c}) <= MaxRoomSize
    <3>1. /\ Cardinality(peers[r]) \in Nat
          /\ Cardinality(peers[r] \cup {c}) <= Cardinality(peers[r]) + 1
      BY <2>2, <1>a, RoomSize
    <3>2. IsFiniteSet(peers[r] \cup {c})
      BY <2>2, <1>a, FS_Subset, ServerAssumption DEF TypeOK
    <3>3. Cardinality(peers[r] \cup {c}) \in Nat
      BY <3>2, FS_CardinalityType
    <3> QED
      BY <2>1, <3>1, <3>3, ServerAssumption
  <2>7. RoomWithinCapacity'
    BY <2>1, <2>2, <2>6, <1>a DEF RegistryInv, RoomWithinCapacity, TypeOK
  <2> QED
    BY <2>3, <2>4, <2>5, <2>7, <1>a DEF RegistryInv
<1>4. ASSUME NEW c \in Conns, JoinFull(c) PROVE RegistryInv'
  <2>1. /\ pc[c] = "handshake" /\ pc' = [pc EXCEPT ![c] = "refused"]
        /\ ~HasRoom(room[c]) /\ live' = live \cup {room[c]} /\ UNCHANGED <<peers, room>>
    BY <1>4 DEF JoinFull
  <2>2. room[c] \in RoomIds
    BY <2>1, <1>a DEF TypeInv, Placed
  <2>3. peers[room[c]] # {}
    BY <2>1, FS_EmptySet, ServerAssumption DEF HasRoom
  <2>4. room[c] \in live
    BY <2>2, <2>3 DEF RegistryInv, NoEmptyRooms
  <2> QED
    BY <2>1, <2>4, <1>a, QuietStep DEF TypeOK, Entered, Listening
<1>5. ASSUME NEW c \in Conns, SendRoomState(c) PROVE RegistryInv'
  BY <1>5, <1>a, QuietStep DEF SendRoomState, TypeOK, Entered, Listening
<1>6. ASSUME NEW c \in Conns, SendRoomStateFails(c) PROVE RegistryInv'
  BY <1>6, <1>a, QuietStep DEF SendRoomStateFails, TypeOK, Entered, Listening
<1>7. ASSUME NEW c \in Conns, NEW state \in MediaStates, NEW own \in Claims,
             RecvMediaState(c, state, own)
      PROVE RegistryInv'
  BY <1>7, <1>a, QuietStep DEF RecvMediaState, TypeOK, Entered, Listening
<1>8. ASSUME NEW c \in Conns, PublishMediaState(c) PROVE RegistryInv'
  BY <1>8, <1>a, QuietStep DEF PublishMediaState, TypeOK, Entered, Listening
<1>9. ASSUME NEW c \in Conns, NEW type, NEW target, RecvPublished(c, type, target)
      PROVE RegistryInv'
  BY <1>9, <1>a, QuietStep DEF RecvPublished
<1>10. ASSUME NEW c \in Conns, ObserveLag(c) PROVE RegistryInv'
  BY <1>10, <1>a, QuietStep DEF ObserveLag
<1>11. ASSUME NEW c \in Conns, Deliver(c) PROVE RegistryInv'
  BY <1>11, <1>a, QuietStep DEF Deliver
<1>12. ASSUME NEW c \in Conns, Break(c) PROVE RegistryInv'
  BY <1>12, <1>a, QuietStep DEF Break, TypeOK, Entered, Listening
<1>13. ASSUME NEW c \in Conns, Leave(c) PROVE RegistryInv'
  <2> DEFINE r == room[c]
             left == peers[r] \ {c}
  <2>1. /\ pc[c] = "closing" /\ pc' = [pc EXCEPT ![c] = "gone"] /\ room' = room
        /\ live' = (IF left = {} THEN live \ {r} ELSE live)
        /\ peers' = [peers EXCEPT ![r] = IF r \in live' THEN left ELSE {}]
    BY <1>13 DEF Leave, Remaining, LiveAfterLeave
  <2>2. r \in RoomIds
    BY <2>1, <1>a DEF TypeInv, Placed
  <2>3. r \in live
    BY <2>1, <2>2 DEF RegistryInv, SubscriberIsMember, NoEmptyRooms
  <2>4. peers' = [peers EXCEPT ![r] = left]
    BY <2>1, <2>3
  <2> HIDE DEF r
  <2>5. InOwnRoom'
    BY <2>1, <2>2, <2>4, <1>a DEF RegistryInv, InOwnRoom, TypeOK, Entered
  <2>6. SubscriberIsMember'
    BY <2>1, <2>2, <2>4, <1>a DEF RegistryInv, SubscriberIsMember, TypeOK, Listening
  <2>7. NoEmptyRooms'
    BY <2>1, <2>2, <2>3, <2>4, <1>a DEF RegistryInv, NoEmptyRooms, TypeOK
  <2>8. Cardinality(left) <= MaxRoomSize
    <3>1. Cardinality(peers[r]) <= MaxRoomSize
      BY <2>2 DEF RegistryInv, RoomWithinCapacity
    <3>2. Cardinality(peers[r]) \in Nat /\ Cardinality(left) <= Cardinality(peers[r])
      BY <2>2, <1>a, RoomSize
    <3>3. IsFiniteSet(left)
      BY <2>2, <1>a, FS_Subset, ServerAssumption DEF TypeOK
    <3> QED
      BY <3>1, <3>2, <3>3, FS_CardinalityType, ServerAssumption
  <2>9. RoomWithinCapacity'
    BY <2>2, <2>4, <2>8, <1>a DEF RegistryInv, RoomWithinCapacity, TypeOK
  <2> QED
    BY <2>5, <2>6, <2>7, <2>9, <1>a DEF RegistryInv
<1>14. CASE UNCHANGED vars
  BY <1>14, <1>a, QuietStep DEF vars
<1> QED
  BY <1>1, <1>2, <1>3, <1>4, <1>5, <1>6, <1>7, <1>8, <1>9, <1>10, <1>11, <1>12, <1>13, <1>14
  DEF Next, RecvChat, RecvSignal

LEMMA RegistryAlways == Spec => []RegistryInv
  BY InitRegistry, NextRegistry, PTL DEF Spec

(* No interleaving of joins, leaves and failures overfills a room (room.rs). *)
THEOREM CapacityHolds == Spec => []RoomWithinCapacity
<1>1. RegistryInv => RoomWithinCapacity
  BY DEF RegistryInv
<1> QED
  BY <1>1, RegistryAlways, PTL

(* The registry holds exactly the rooms somebody is in (room.rs). *)
THEOREM RoomsNeverLeak == Spec => []NoEmptyRooms
<1>1. RegistryInv => NoEmptyRooms
  BY DEF RegistryInv
<1> QED
  BY <1>1, RegistryAlways, PTL

(* Nobody deletes a room, and with it the channel, under a subscriber. *)
THEOREM SubscribersAreMembers == Spec => []SubscriberIsMember
<1>1. RegistryInv => SubscriberIsMember
  BY DEF RegistryInv
<1> QED
  BY <1>1, RegistryAlways, PTL
(* Whatever joins, leaves and fails in whatever order, the registry stays  *)
(* sound (room.rs), for any connections, rooms and room size.              *)
THEOREM RegistryStaysConsistent == Spec => []RegistryIsConsistent
<1>1. RegistryInv => RegistryIsConsistent
  BY DEF RegistryInv, RegistryIsConsistent
<1> QED
  BY <1>1, RegistryAlways, PTL

-----------------------------------------------------------------------------
(***************************************************************************)
(* The server implements Presence, for every number of connections and     *)
(* rooms: every step of a connection's task is a step of Presence or does  *)
(* not show.  Overrun receivers included: a lost event only makes a client *)
(* learn later, or never, what Presence allows it to learn.                *)
(***************************************************************************)

(* The events c's receiver has still to read. *)
Unread(c) == {events[c][i] : i \in DOMAIN events[c]}

(* What is queued for c, or shown to it, is about peers that entered its   *)
(* room, and a queued PeerLeft is about one that departed.                 *)
IsTrue(c, e) ==
  /\ pc[e.sender] \in Entered /\ room[e.sender] = room[c]
  /\ e.type = "PeerLeft" => e.sender \notin peers[room[c]]

Hearsay ==
  /\ \A c \in Conns : \A e \in Unread(c) : IsTrue(c, e)
  /\ \A c, q \in Conns : q \in Known(c) => pc[q] \in Entered /\ room[q] = room[c]

(* A client that is served knows itself; one that is not knows nobody. *)
SelfAware ==
  \A c \in Conns : IF pc[c] \in Listening THEN c \in Known(c)
                   ELSE Known(c) = {} /\ events[c] = <<>>

PresenceInv == RegistryInv /\ Hearsay /\ SelfAware

LEMMA InitPresence == Init => PresenceInv
<1> SUFFICES ASSUME Init PROVE PresenceInv
  OBVIOUS
<1>1. RegistryInv
  BY InitRegistry
<1>2. \A c \in Conns : Known(c) = {} /\ Unread(c) = {} /\ events[c] = <<>> /\ pc[c] \notin Listening
  BY DEF Init, Known, Unknown, Unread, Listening
<1> QED
  BY <1>1, <1>2 DEF PresenceInv, Hearsay, SelfAware

(* A queue that is pushed to holds nothing but its own events and the new one. *)
LEMMA PushedEvents ==
  ASSUME NEW q \in Seq(Events), NEW e \in Events, NEW i \in DOMAIN Push(q, e)
  PROVE  Push(q, e)[i] = e \/ \E j \in DOMAIN q : Push(q, e)[i] = q[j]
<1>1. CASE Len(q) < ChannelCapacity
  BY <1>1 DEF Push
<1>2. CASE ~(Len(q) < ChannelCapacity)
  <2>1. q # <<>>
    BY <1>2, ServerAssumption
  <2>2. /\ Tail(q) \in Seq(Events) /\ Len(Tail(q)) = Len(q) - 1
        /\ \A j \in 1..Len(Tail(q)) : Tail(q)[j] = q[j + 1]
    BY <2>1
  <2>3. Push(q, e) = Append(Tail(q), e)
    BY <1>2 DEF Push
  <2>4. CASE i = Len(Tail(q)) + 1
    BY <2>2, <2>3, <2>4
  <2>5. CASE i \in 1..Len(Tail(q))
    <3>1. Push(q, e)[i] = q[i + 1] /\ i + 1 \in DOMAIN q
      BY <2>2, <2>3, <2>5
    <3> QED
      BY <3>1
  <2> QED
    BY <2>2, <2>3, <2>4, <2>5
<1> QED
  BY <1>1, <1>2

(* What a broadcast adds to the unread events. *)
LEMMA BroadcastUnread ==
  ASSUME TypeOK, NEW receivers, NEW e \in Events, Broadcast(receivers, e),
         NEW c \in Conns, NEW d \in Unread(c)'
  PROVE  d \in Unread(c) \/ (d = e /\ c \in receivers)
<1>1. PICK i \in DOMAIN events'[c] : d = events'[c][i]
  BY DEF Unread
<1>2. CASE c \notin receivers
  <2>1. events'[c] = events[c]
    BY <1>2 DEF Broadcast
  <2> QED
    BY <1>1, <2>1 DEF Unread
<1>3. CASE c \in receivers
  <2>1. events'[c] = Push(events[c], e) /\ events[c] \in Seq(Events)
    BY <1>3 DEF Broadcast, TypeOK
  <2>2. d = e \/ \E j \in DOMAIN events[c] : d = events[c][j]
    BY <1>1, <2>1, PushedEvents
  <2> QED
    BY <1>3, <2>2 DEF Unread
<1> QED
  BY <1>2, <1>3

(* Who sent an unread event is a connection. *)
LEMMA UnreadType ==
  ASSUME TypeOK, NEW c \in Conns, NEW e \in Unread(c)
  PROVE  e \in Events /\ e.sender \in Conns
<1>1. e \in Events
  BY DEF Unread, TypeOK
<1> QED
  BY <1>1 DEF Events

(* Hearsay survives a step that un-enters nobody, brings nobody back, and  *)
(* adds only events and acquaintances that are true.                       *)
LEMMA HearsayKept ==
  ASSUME PresenceInv, TypeInv',
         \A c \in Conns : pc[c] \in Entered => pc'[c] \in Entered /\ room'[c] = room[c],
         \A c \in Conns : pc[c] \in Entered => \A r \in RoomIds : c \in peers'[r] => c \in peers[r],
         \A c \in Conns : room'[c] = room[c] \/ (events[c] = <<>> /\ Known(c) = {}),
         \A c \in Conns : \A e \in Unread(c)' : e \in Unread(c) \/ IsTrue(c, e)',
         \A c, q \in Conns : q \in Known(c)' =>
            q \in Known(c) \/ (pc'[q] \in Entered /\ room'[q] = room'[c])
  PROVE  Hearsay'
<1>a. TypeOK /\ Placed /\ Hearsay
  BY DEF PresenceInv, RegistryInv, TypeInv
<1>1. ASSUME NEW c \in Conns, NEW e \in Unread(c)' PROVE IsTrue(c, e)'
  <2>1. CASE e \in Unread(c)
    <3>1. IsTrue(c, e) /\ e.sender \in Conns
      BY <2>1, <1>a, UnreadType DEF Hearsay
    <3>2. events[c] # <<>>
      BY <2>1 DEF Unread
    <3>3. room'[c] = room[c]
      BY <3>2
    <3>4. room[e.sender] \in RoomIds
      BY <3>1, <1>a DEF IsTrue, Placed, Entered
    <3> QED
      BY <3>1, <3>3, <3>4 DEF IsTrue
  <2> QED
    BY <2>1
<1>2. ASSUME NEW c \in Conns, NEW q \in Conns, q \in Known(c)'
      PROVE  pc'[q] \in Entered /\ room'[q] = room'[c]
  BY <1>2, <1>a DEF Hearsay
<1> QED
  BY <1>1, <1>2 DEF Hearsay

(* A receiver that is neither dropped nor served anew stays as it was. *)
LEMMA QuietPresence ==
  ASSUME PresenceInv, RegistryInv', UNCHANGED <<peers, events, view>>,
         \A d \in Conns : pc[d] \in Entered => pc'[d] \in Entered /\ room'[d] = room[d],
         \A d \in Conns : pc'[d] \in Listening <=> pc[d] \in Listening,
         \A d \in Conns : room'[d] = room[d] \/ pc[d] \notin Listening
  PROVE  PresenceInv'
<1>1. \A d \in Conns : Known(d)' = Known(d) /\ Unread(d)' = Unread(d)
  BY DEF Known, Unread
<1>2. SelfAware'
  BY <1>1 DEF PresenceInv, SelfAware
<1>3. \A d \in Conns : room'[d] = room[d] \/ (events[d] = <<>> /\ Known(d) = {})
  BY DEF PresenceInv, SelfAware
<1>4. Hearsay'
  BY <1>1, <1>3, HearsayKept DEF RegistryInv
<1> QED
  BY <1>2, <1>4 DEF PresenceInv

(* A broadcast by an entered connection to receivers of its room. *)
LEMMA BroadcastPresence ==
  ASSUME PresenceInv, RegistryInv', NEW e \in Events, NEW c \in Conns, e.sender = c,
         pc[c] \in Entered, e.type = "PeerLeft" => c \notin peers'[room[c]],
         Broadcast(Subscribers(room[c]), e), UNCHANGED <<room, view>>,
         \A r \in RoomIds : peers'[r] \subseteq peers[r],
         \A d \in Conns : pc[d] \in Entered => pc'[d] \in Entered,
         \A d \in Conns : pc'[d] \in Listening <=> pc[d] \in Listening
  PROVE  PresenceInv'
<1>a. TypeOK /\ TypeInv'
  BY DEF PresenceInv, RegistryInv, TypeInv
<1>1. \A d \in Conns : Known(d)' = Known(d)
  BY DEF Known
<1>2. ASSUME NEW d \in Conns, NEW f \in Unread(d)' PROVE f \in Unread(d) \/ IsTrue(d, f)'
  <2>1. f \in Unread(d) \/ (f = e /\ d \in Subscribers(room[c]))
    BY <1>2, <1>a, BroadcastUnread
  <2>2. CASE f = e /\ d \in Subscribers(room[c])
    BY <2>2 DEF Subscribers, IsTrue
  <2> QED
    BY <2>1, <2>2
<1>3. Hearsay'
  BY <1>a, <1>1, <1>2, HearsayKept
<1>4. ASSUME NEW d \in Conns, pc'[d] \notin Listening PROVE events'[d] = <<>>
  <2>1. d \notin Subscribers(room[c])
    BY <1>4 DEF Subscribers
  <2> QED
    BY <1>4, <2>1 DEF Broadcast, PresenceInv, SelfAware
<1>5. SelfAware'
  BY <1>1, <1>4 DEF PresenceInv, SelfAware
<1> QED
  BY <1>3, <1>5 DEF PresenceInv

(* A connection that detaches and leaves the loop knows and hears nothing. *)
LEMMA DetachPresence ==
  ASSUME PresenceInv, RegistryInv', NEW c \in Conns, Detach(c), UNCHANGED <<room, peers>>,
         NEW stage \in {"closing", "gone"}, pc[c] \in Listening, pc' = [pc EXCEPT ![c] = stage]
  PROVE  PresenceInv' /\ Shown' = [Shown EXCEPT ![c] = {}]
<1>a. TypeOK /\ TypeInv'
  BY DEF PresenceInv, RegistryInv, TypeInv
<1>1. \A d \in Conns : Known(d)' = (IF d = c THEN {} ELSE Known(d))
  BY <1>a DEF Detach, Known, Unknown, TypeOK
<1>2. \A d \in Conns : events'[d] = (IF d = c THEN <<>> ELSE events[d])
  BY <1>a DEF Detach, TypeOK
<1>3. \A d \in Conns : Unread(d)' \subseteq Unread(d)
  BY <1>2 DEF Unread
<1>4. \A d \in Conns : pc[d] \in Entered => pc'[d] \in Entered
  BY <1>a DEF TypeOK, Entered, Listening
<1>5. Hearsay'
  BY <1>a, <1>1, <1>3, <1>4, HearsayKept
<1>6. SelfAware'
  BY <1>a, <1>1, <1>2 DEF PresenceInv, SelfAware, TypeOK, Listening
<1>7. Shown' = [Shown EXCEPT ![c] = {}]
  BY <1>1 DEF Shown
<1> QED
  BY <1>5, <1>6, <1>7 DEF PresenceInv

-----------------------------------------------------------------------------
(* Nothing Presence shows depends on the stages of a task past its entry. *)
LEMMA Invisible ==
  ASSUME UNCHANGED <<peers, view>>,
         \A d \in Conns : /\ pc'[d] \in Entered <=> pc[d] \in Entered
                          /\ pc[d] \in Entered => room'[d] = room[d]
  PROVE  UNCHANGED Promise!vars
<1>1. Home' = Home
  BY DEF Home
<1>2. Shown' = Shown
  BY DEF Shown, Known
<1> QED
  BY <1>1, <1>2 DEF Promise!vars

LEMMA StepOfUpgrade ==
  ASSUME PresenceInv, RegistryInv', NEW c \in Conns, NEW r \in RoomIds, Upgrade(c, r)
  PROVE  PresenceInv' /\ UNCHANGED Promise!vars
<1>1. /\ pc[c] = "new" /\ pc' = [pc EXCEPT ![c] = "handshake"]
      /\ room' = [room EXCEPT ![c] = r] /\ UNCHANGED <<peers, events, view>>
  BY DEF Upgrade, Goto, registry
<1>2. TypeOK
  BY DEF PresenceInv, RegistryInv, TypeInv
<1>3. \A d \in Conns : /\ pc'[d] \in Entered <=> pc[d] \in Entered
                       /\ pc'[d] \in Listening <=> pc[d] \in Listening
                       /\ pc[d] \in Entered => room'[d] = room[d]
                       /\ pc[d] \in Listening => room'[d] = room[d]
  BY <1>1, <1>2 DEF TypeOK, Entered, Listening
<1>4. PresenceInv'
  BY <1>1, <1>3, QuietPresence
<1>5. UNCHANGED Promise!vars
  BY <1>1, <1>3, Invisible
<1> QED
  BY <1>4, <1>5

(* The handlers that touch neither presence nor what is queued about it. *)
LEMMA StepOfQuiet ==
  ASSUME PresenceInv, RegistryInv', NEW c \in Conns,
         \/ HandshakeFails(c) \/ JoinFull(c) \/ SendRoomState(c) \/ ObserveLag(c)
         \/ \E state \in MediaStates, own \in Claims : RecvMediaState(c, state, own)
  PROVE  PresenceInv' /\ UNCHANGED Promise!vars
<1>1. UNCHANGED <<peers, events, view, room>>
  BY DEF HandshakeFails, JoinFull, SendRoomState, ObserveLag, RecvMediaState, registry
<1>2. TypeOK
  BY DEF PresenceInv, RegistryInv, TypeInv
<1>3. \A d \in Conns : /\ pc'[d] \in Entered <=> pc[d] \in Entered
                       /\ pc'[d] \in Listening <=> pc[d] \in Listening
  <2>1. \/ pc[c] = "handshake" /\ pc' = [pc EXCEPT ![c] = "refused"]
        \/ pc[c] = "joined" /\ pc' = [pc EXCEPT ![c] = "relay"]
        \/ pc[c] = "relay" /\ pc' = [pc EXCEPT ![c] = "publishing"]
        \/ pc' = pc
    BY DEF HandshakeFails, JoinFull, SendRoomState, ObserveLag, RecvMediaState, Goto
  <2> QED
    BY <2>1, <1>2 DEF TypeOK, Entered, Listening
<1>4. PresenceInv'
  BY <1>1, <1>3, QuietPresence
<1>5. UNCHANGED Promise!vars
  BY <1>1, <1>3, Invisible
<1> QED
  BY <1>4, <1>5

(* Publishing what is no news of presence. *)
LEMMA StepOfPublish ==
  ASSUME PresenceInv, RegistryInv', NEW c \in Conns,
         \/ PublishMediaState(c)
         \/ \E type \in {"Chat", "Signal"}, target \in Conns : RecvPublished(c, type, target)
  PROVE  PresenceInv' /\ UNCHANGED Promise!vars
<1>1. TypeOK
  BY DEF PresenceInv, RegistryInv, TypeInv
<1>2. PICK e \in Events : e.sender = c /\ e.type # "PeerLeft" /\ Broadcast(Subscribers(room[c]), e)
  <2>1. CASE PublishMediaState(c)
    <3>1. Event("MediaState", c, c, pending[c]) \in Events
      BY <1>1 DEF Event, Events, EventTypes, TypeOK
    <3> QED
      BY <2>1, <3>1 DEF PublishMediaState, Event
  <2>2. CASE \E type \in {"Chat", "Signal"}, target \in Conns : RecvPublished(c, type, target)
    <3>1. PICK type \in {"Chat", "Signal"}, target \in Conns : RecvPublished(c, type, target)
      BY <2>2
    <3>2. Event(type, c, target, DefaultMedia) \in Events
      BY ServerAssumption DEF Event, Events, EventTypes
    <3> QED
      BY <3>1, <3>2 DEF RecvPublished, Event
  <2> QED
    BY <2>1, <2>2
<1>3. /\ UNCHANGED <<room, peers, view>>
      /\ pc[c] \in Listening
      /\ \A d \in Conns : pc'[d] \in Listening <=> pc[d] \in Listening
      /\ \A d \in Conns : pc'[d] \in Entered <=> pc[d] \in Entered
  <2>1. \/ pc[c] = "publishing" /\ pc' = [pc EXCEPT ![c] = "relay"]
        \/ pc[c] = "relay" /\ pc' = pc
    BY DEF PublishMediaState, RecvPublished, Goto
  <2>2. UNCHANGED <<room, peers, view>>
    BY DEF PublishMediaState, RecvPublished, registry
  <2> QED
    BY <1>1, <2>1, <2>2 DEF TypeOK, Listening, Entered
<1>4. PresenceInv'
  <2>1. pc[c] \in Entered
    BY <1>3 DEF Listening, Entered
  <2>2. UNCHANGED <<room, view>> /\ \A r \in RoomIds : peers'[r] \subseteq peers[r]
    BY <1>3
  <2> QED
    BY <1>2, <1>3, <2>1, <2>2, BroadcastPresence
<1>5. UNCHANGED Promise!vars
  BY <1>3, Invisible
<1> QED
  BY <1>4, <1>5

(* A connection that goes while it is served disconnects. *)
LEMMA StepOfDetach ==
  ASSUME PresenceInv, RegistryInv', NEW c \in Conns, SendRoomStateFails(c) \/ Break(c)
  PROVE  PresenceInv' /\ Promise!Disconnect(c)
<1>1. TypeOK
  BY DEF PresenceInv, RegistryInv, TypeInv
<1>2. PICK stage \in {"closing", "gone"} :
        /\ pc' = [pc EXCEPT ![c] = stage] /\ pc[c] \in Listening
        /\ Detach(c) /\ UNCHANGED <<room, peers>>
  BY DEF SendRoomStateFails, Break, Goto, registry, Listening
<1>3. PresenceInv' /\ Shown' = [Shown EXCEPT ![c] = {}]
  BY <1>2, DetachPresence
<1>4. Home' = Home
  BY <1>1, <1>2 DEF Home, TypeOK, Listening, Entered
<1>5. Shown[c] # {}
  BY <1>2 DEF PresenceInv, SelfAware, Shown
<1> QED
  BY <1>2, <1>3, <1>4, <1>5 DEF Promise!Disconnect

(* A join enters the room and is shown who is there. *)
LEMMA StepOfJoin ==
  ASSUME PresenceInv, RegistryInv', NEW c \in Conns, Join(c)
  PROVE  PresenceInv' /\ Promise!Enter(c, room[c])
<1> DEFINE e == Event("PeerJoined", c, c, DefaultMedia)
<1>1. /\ pc[c] = "handshake" /\ pc' = [pc EXCEPT ![c] = "joined"]
      /\ Cardinality(peers[room[c]]) < MaxRoomSize
      /\ peers' = [peers EXCEPT ![room[c]] = @ \cup {c}]
      /\ view' = [view EXCEPT ![c] = [Snapshot(room[c]) EXCEPT ![c] = DefaultMedia]]
      /\ room' = room /\ Broadcast(JoinReceivers(c), e)
  BY DEF Join, Goto, HasRoom
<1>2. TypeOK /\ TypeInv' /\ room[c] \in RoomIds
  BY <1>1 DEF PresenceInv, RegistryInv, TypeInv, Placed
<1>3. DefaultMedia \in MediaStates /\ NoPeer \notin MediaStates
  BY ServerAssumption
<1>4. Known(c)' = peers[room[c]] \cup {c}
  <2>1. view'[c] = [Snapshot(room[c]) EXCEPT ![c] = DefaultMedia]
    BY <1>1, <1>2 DEF TypeOK
  <2>2. \A p \in Conns : view'[c][p] # NoPeer <=> p \in peers[room[c]] \cup {c}
    BY <2>1, <1>2, <1>3 DEF Snapshot, TypeOK
  <2> QED
    BY <2>2, <1>2 DEF Known, TypeOK
<1>5. \A d \in Conns \ {c} : Known(d)' = Known(d)
  BY <1>1, <1>2 DEF Known, TypeOK
<1>6. e \in Events
  BY <1>3 DEF Event, Events, EventTypes
<1>7. pc'[c] \in Entered /\ pc'[c] \in Listening
  BY <1>1, <1>2 DEF TypeOK, Entered, Listening
<1>8. ASSUME NEW d \in Conns, NEW f \in Unread(d)' PROVE f \in Unread(d) \/ IsTrue(d, f)'
  <2>1. f \in Unread(d) \/ (f = e /\ d \in JoinReceivers(c))
    BY <1>1, <1>2, <1>6, <1>8, BroadcastUnread
  <2>2. CASE f = e /\ d \in JoinReceivers(c)
    BY <2>2, <1>1, <1>7 DEF Subscribers, JoinReceivers, IsTrue, Event
  <2> QED
    BY <2>1, <2>2
<1>9. \A d, q \in Conns : q \in Known(d)' =>
         q \in Known(d) \/ (pc'[q] \in Entered /\ room'[q] = room'[d])
  <2> SUFFICES ASSUME NEW d \in Conns, NEW q \in Conns, q \in Known(d)', q \notin Known(d)
               PROVE  pc'[q] \in Entered /\ room'[q] = room'[d]
    OBVIOUS
  <2>1. d = c /\ q \in peers[room[c]] \cup {c}
    BY <1>4, <1>5
  <2>2. q \in peers'[room[c]]
    BY <2>1, <1>1, <1>2 DEF TypeOK
  <2> QED
    BY <2>1, <2>2, <1>1, <1>2 DEF RegistryInv, InOwnRoom
<1>10. \A d \in Conns : pc[d] \in Entered => pc'[d] \in Entered /\ room'[d] = room[d]
  BY <1>1, <1>2 DEF TypeOK, Entered
<1>11. \A d \in Conns : pc[d] \in Entered => \A r \in RoomIds : d \in peers'[r] => d \in peers[r]
  BY <1>1, <1>2 DEF TypeOK, Entered
<1>12. Hearsay'
  BY <1>1, <1>2, <1>8, <1>9, <1>10, <1>11, HearsayKept
<1>13. SelfAware'
  <2> SUFFICES ASSUME NEW d \in Conns
               PROVE  IF pc'[d] \in Listening THEN d \in Known(d)'
                      ELSE Known(d)' = {} /\ events'[d] = <<>>
    BY DEF SelfAware
  <2>1. CASE d = c
    BY <2>1, <1>4, <1>7
  <2>2. CASE d # c
    <3>1. pc'[d] = pc[d] /\ Known(d)' = Known(d)
      BY <2>2, <1>1, <1>5
    <3>2. CASE pc[d] \in Listening
      BY <3>1, <3>2 DEF PresenceInv, SelfAware
    <3>3. CASE pc[d] \notin Listening
      <4>1. d \notin JoinReceivers(c)
        BY <2>2, <3>3 DEF JoinReceivers, Subscribers
      <4> QED
        BY <3>1, <3>3, <4>1, <1>1 DEF PresenceInv, SelfAware, Broadcast
    <3> QED
      BY <3>2, <3>3
  <2> QED
    BY <2>1, <2>2
<1>14. Home[c] = NoRoom /\ Home' = [Home EXCEPT ![c] = room[c]]
  BY <1>1, <1>2, <1>7 DEF Home, TypeOK, Entered
<1>15. Shown' = [Shown EXCEPT ![c] = peers[room[c]] \cup {c}]
  BY <1>4, <1>5 DEF Shown
<1>16. Promise!Enter(c, room[c])
  <2>1. /\ Cardinality(peers[room[c]]) < MaxRoomSize
        /\ peers' = [peers EXCEPT ![room[c]] = @ \cup {c}]
    BY <1>1
  <2> QED
    BY <2>1, <1>14, <1>15 DEF Promise!Enter, Promise!Cardinality, Cardinality
<1> QED
  BY <1>12, <1>13, <1>16 DEF PresenceInv

(* A leave gives the place back. *)
LEMMA StepOfLeave ==
  ASSUME PresenceInv, RegistryInv', NEW c \in Conns, Leave(c)
  PROVE  PresenceInv' /\ Promise!Depart(c)
<1> DEFINE e == Event("PeerLeft", c, c, DefaultMedia)
<1>1. TypeOK /\ TypeInv'
  BY DEF PresenceInv, RegistryInv, TypeInv
<1>2. /\ pc[c] = "closing" /\ pc' = [pc EXCEPT ![c] = "gone"] /\ UNCHANGED <<room, view>>
      /\ live' = (IF peers[room[c]] \ {c} = {} THEN live \ {room[c]} ELSE live)
      /\ peers' = [peers EXCEPT ![room[c]] = IF room[c] \in live' THEN peers[room[c]] \ {c} ELSE {}]
  BY DEF Leave, Goto, Remaining, LiveAfterLeave
<1>3. c \in peers[room[c]] /\ room[c] \in RoomIds /\ room[c] \in live
  BY <1>2 DEF PresenceInv, RegistryInv, SubscriberIsMember, NoEmptyRooms, TypeInv, Placed
<1>4. peers' = [peers EXCEPT ![room[c]] = @ \ {c}]
  BY <1>2, <1>3
<1>5. Broadcast(Subscribers(room[c]), e)
  BY <1>3 DEF Leave
<1>6. e \in Events
  BY ServerAssumption DEF Event, Events, EventTypes
<1>7. \A d \in Conns : /\ pc'[d] \in Entered <=> pc[d] \in Entered
                       /\ pc'[d] \in Listening <=> pc[d] \in Listening
  BY <1>1, <1>2 DEF TypeOK, Entered, Listening
<1>8. PresenceInv'
  <2>1. pc[c] \in Entered /\ e.sender = c
    BY <1>2 DEF Entered, Event
  <2>2. c \notin peers'[room[c]] /\ \A r \in RoomIds : peers'[r] \subseteq peers[r]
    BY <1>1, <1>3, <1>4 DEF TypeOK
  <2> HIDE DEF e
  <2> QED
    BY <1>2, <1>5, <1>6, <1>7, <2>1, <2>2, BroadcastPresence
<1>9. Home' = Home /\ Home[c] = room[c]
  BY <1>2, <1>7 DEF Home, Entered
<1>10. Shown' = Shown /\ Shown[c] = {}
  BY <1>2 DEF Shown, Known, PresenceInv, SelfAware, Listening
<1>11. Promise!Depart(c)
  BY <1>3, <1>4, <1>9, <1>10, ServerAssumption DEF Promise!Depart
<1> QED
  BY <1>8, <1>11

(* Reading an event teaches the client about one peer of its room, makes   *)
(* it forget one that departed, or does not show.                          *)
LEMMA StepOfDeliver ==
  ASSUME PresenceInv, RegistryInv', NEW c \in Conns, Deliver(c)
  PROVE  PresenceInv' /\ [\E q \in Conns : Promise!Learn(c, q) \/ Promise!Forget(c, q)]_Promise!vars
<1> DEFINE e == Head(events[c])
           q == e.sender
<1>1. TypeOK /\ TypeInv'
  BY DEF PresenceInv, RegistryInv, TypeInv
<1>2. /\ pc[c] = "relay" /\ events[c] # <<>> /\ events' = [events EXCEPT ![c] = Tail(@)]
      /\ view' = (IF ShouldDeliver(c, e) THEN [view EXCEPT ![c] = Told(@, e)] ELSE view)
      /\ UNCHANGED <<peers, room, pc>>
  BY DEF Deliver, registry
<1>3. events[c] \in Seq(Events)
  BY <1>1 DEF TypeOK
<1>4. /\ e = events[c][1] /\ 1 \in DOMAIN events[c]
      /\ \A i \in DOMAIN Tail(events[c]) : Tail(events[c])[i] = events[c][i + 1] /\ i + 1 \in DOMAIN events[c]
  BY <1>2, <1>3
<1>5. e \in Unread(c)
  BY <1>4 DEF Unread
<1>6. e \in Events /\ q \in Conns /\ IsTrue(c, e)
  BY <1>1, <1>5, UnreadType DEF PresenceInv, Hearsay
<1>7. \A d \in Conns : Unread(d)' \subseteq Unread(d)
  <2>1. ASSUME NEW d \in Conns, d # c PROVE Unread(d)' \subseteq Unread(d)
    BY <1>2, <2>1 DEF Unread
  <2>2. Unread(c)' \subseteq Unread(c)
    <3>1. events'[c] = Tail(events[c])
      BY <1>1, <1>2 DEF TypeOK
    <3> QED
      BY <3>1, <1>4 DEF Unread
  <2> QED
    BY <2>1, <2>2
<1> HIDE DEF e, q
<1>8. \A d \in Conns \ {c} : Known(d)' = Known(d)
  BY <1>2 DEF Known
<1>9. \/ Known(c)' = Known(c)
      \/ q # c /\ e.type = "PeerJoined" /\ Known(c)' = Known(c) \cup {q}
      \/ q # c /\ e.type = "PeerLeft" /\ Known(c)' = Known(c) \ {q}
  <2>1. CASE ~ShouldDeliver(c, e)
    BY <1>2, <2>1 DEF Known
  <2>2. CASE ShouldDeliver(c, e)
    <3>1. view'[c] = Told(view[c], e) /\ q # c
      BY <1>1, <1>2, <2>2 DEF TypeOK, ShouldDeliver, q
    <3>2. e.state # NoPeer /\ view[c] \in [Conns -> MediaStates \cup {NoPeer}]
      BY <1>1, <1>6, ServerAssumption DEF TypeOK, Events
    <3>3. CASE e.type = "PeerJoined"
      <4>1. view'[c] = [view[c] EXCEPT ![q] = e.state]
        BY <3>1, <3>3 DEF Told, q
      <4> QED
        BY <1>6, <3>1, <3>2, <3>3, <4>1 DEF Known
    <3>4. CASE e.type = "PeerLeft"
      <4>1. view'[c] = [view[c] EXCEPT ![q] = NoPeer]
        BY <3>1, <3>4 DEF Told, q
      <4> QED
        BY <1>6, <3>1, <3>2, <3>4, <4>1 DEF Known
    <3>5. CASE e.type \notin {"PeerJoined", "PeerLeft"}
      <4>1. \/ view'[c] = view[c]
            \/ view[c][q] # NoPeer /\ view'[c] = [view[c] EXCEPT ![q] = e.state]
        BY <3>1, <3>5 DEF Told, q
      <4> QED
        BY <1>6, <3>2, <4>1 DEF Known
    <3> QED
      BY <3>3, <3>4, <3>5
  <2> QED
    BY <2>1, <2>2
<1>10. pc[q] \in Entered /\ room[q] = room[c] /\ (e.type = "PeerLeft" => q \notin peers[room[c]])
  BY <1>6 DEF IsTrue, q
<1>11. Hearsay'
  <2>1. \A d, p \in Conns : p \in Known(d)' =>
           p \in Known(d) \/ (pc'[p] \in Entered /\ room'[p] = room'[d])
    BY <1>2, <1>8, <1>9, <1>10
  <2> QED
    BY <1>1, <1>2, <1>7, <2>1, HearsayKept
<1>12. SelfAware'
  <2>1. c \in Known(c)'
    BY <1>2, <1>9 DEF PresenceInv, SelfAware, Listening
  <2>2. \A d \in Conns \ {c} : events'[d] = events[d]
    BY <1>2
  <2> QED
    BY <1>2, <1>8, <2>1, <2>2 DEF PresenceInv, SelfAware, Listening
<1>13. Home' = Home /\ Home[q] = room[c] /\ Home[c] = room[c] /\ room[c] # NoRoom
  <2>1. pc[c] \in Entered /\ room[c] \in RoomIds
    BY <1>2 DEF Entered, PresenceInv, RegistryInv, TypeInv, Placed
  <2> QED
    BY <1>2, <1>6, <1>10, <2>1, ServerAssumption DEF Home
<1>14. c \in Shown[c]
  BY <1>2 DEF PresenceInv, SelfAware, Listening, Shown
<1>15. CASE Known(c)' = Known(c)
  <2>1. Shown' = Shown
    BY <1>8, <1>15 DEF Shown
  <2> QED
    BY <1>2, <1>11, <1>12, <1>13, <2>1 DEF PresenceInv, Promise!vars
<1>16. CASE q # c /\ e.type = "PeerJoined" /\ Known(c)' = Known(c) \cup {q} /\ q \notin Known(c)
  <2>1. Shown' = [Shown EXCEPT ![c] = @ \cup {q}] /\ q \notin Shown[c]
    BY <1>8, <1>16 DEF Shown
  <2>2. Promise!Learn(c, q)
    BY <1>2, <1>13, <1>14, <1>16, <2>1 DEF Promise!Learn
  <2> QED
    BY <1>6, <1>11, <1>12, <2>2 DEF PresenceInv
<1>17. CASE q # c /\ e.type = "PeerLeft" /\ Known(c)' = Known(c) \ {q} /\ q \in Known(c)
  <2>1. Shown' = [Shown EXCEPT ![c] = @ \ {q}] /\ q \in Shown[c]
    BY <1>8, <1>17 DEF Shown
  <2>2. Promise!Forget(c, q)
    BY <1>2, <1>10, <1>13, <1>17, <2>1 DEF Promise!Forget, Promise!Departed
  <2> QED
    BY <1>6, <1>11, <1>12, <2>2 DEF PresenceInv
<1> QED
  BY <1>9, <1>15, <1>16, <1>17

LEMMA NextPresence == PresenceInv /\ [Next]_vars => PresenceInv' /\ [Promise!Next]_Promise!vars
<1> SUFFICES ASSUME PresenceInv, [Next]_vars PROVE PresenceInv' /\ [Promise!Next]_Promise!vars
  OBVIOUS
<1>a. RegistryInv'
  BY NextRegistry DEF PresenceInv
<1>1. ASSUME NEW c \in Conns, NEW r \in RoomIds, Upgrade(c, r)
      PROVE  PresenceInv' /\ UNCHANGED Promise!vars
  BY <1>1, <1>a, StepOfUpgrade
<1>2. ASSUME NEW c \in Conns,
             \/ HandshakeFails(c) \/ JoinFull(c) \/ SendRoomState(c) \/ ObserveLag(c)
             \/ \E state \in MediaStates, own \in Claims : RecvMediaState(c, state, own)
      PROVE  PresenceInv' /\ UNCHANGED Promise!vars
  BY <1>2, <1>a, StepOfQuiet
<1>3. ASSUME NEW c \in Conns,
             PublishMediaState(c) \/ RecvChat(c) \/ \E target \in Conns : RecvSignal(c, target)
      PROVE  PresenceInv' /\ UNCHANGED Promise!vars
  BY <1>3, <1>a, StepOfPublish DEF RecvChat, RecvSignal
<1>4. ASSUME NEW c \in Conns, Join(c) PROVE PresenceInv' /\ Promise!Next
  <2>1. room[c] \in RoomIds
    BY <1>4 DEF Join, Goto, PresenceInv, RegistryInv, TypeInv, Placed
  <2> QED
    BY <1>4, <1>a, <2>1, StepOfJoin DEF Promise!Next
<1>5. ASSUME NEW c \in Conns, SendRoomStateFails(c) \/ Break(c) PROVE PresenceInv' /\ Promise!Next
  BY <1>5, <1>a, StepOfDetach DEF Promise!Next
<1>6. ASSUME NEW c \in Conns, Deliver(c) PROVE PresenceInv' /\ [Promise!Next]_Promise!vars
  BY <1>6, <1>a, StepOfDeliver DEF Promise!Next
<1>7. ASSUME NEW c \in Conns, Leave(c) PROVE PresenceInv' /\ Promise!Next
  BY <1>7, <1>a, StepOfLeave DEF Promise!Next
<1>8. CASE UNCHANGED vars
  <2>1. UNCHANGED <<peers, events, view, pc, room>>
    BY <1>8 DEF vars
  <2>2. PresenceInv'
    BY <1>a, <2>1, QuietPresence
  <2> QED
    BY <2>1, <2>2, Invisible
<1> QED
  BY <1>1, <1>2, <1>3, <1>4, <1>5, <1>6, <1>7, <1>8 DEF Next

(* The server keeps the promise of Presence: who a client shows is always  *)
(* what that specification allows, however its handlers interleave.        *)
THEOREM ServerKeepsPromise == Spec => KeepsPromise
<1>1. Init => Promise!Init
  <2> SUFFICES ASSUME Init PROVE Promise!Init
    OBVIOUS
  <2>1. Home = [c \in Conns |-> NoRoom]
    BY DEF Init, Home, Entered
  <2>2. Shown = [c \in Conns |-> {}]
    BY DEF Init, Shown, Known, Unknown
  <2> QED
    BY <2>1, <2>2 DEF Init, Promise!Init
<1>2. Spec => []PresenceInv /\ [][Promise!Next]_Promise!vars
  BY InitPresence, NextPresence, PTL DEF Spec
<1> QED
  BY <1>1, <1>2, PTL DEF Spec, KeepsPromise, Promise!Spec

-----------------------------------------------------------------------------
(***************************************************************************)
(* What a client shows once it has read its queue.  The invariant relates, *)
(* for a receiver that was not overrun and each other peer, the events of  *)
(* the queue that this peer sent to what the client knows of it and to the *)
(* registry.                                                               *)
(***************************************************************************)
By(q, p) == {i \in DOMAIN q : q[i].sender = p}

(* The events of p in a queue, for a client that knows the peers in K of a *)
(* room whose members are M: at most one PeerJoined, first, and only when  *)
(* the client does not know p; nothing after a PeerLeft; and read to the   *)
(* end they leave p known exactly when it is a member.                     *)
Coherent(q, p, K, M) ==
  /\ \A i, j \in By(q, p) : j < i => q[j].type # "PeerLeft"
  /\ \A i \in By(q, p) : q[i].type = "PeerJoined" =>
        p \notin K /\ \A j \in By(q, p) : j < i => q[j].type # "PeerJoined"
  /\ \A i \in By(q, p) : q[i].type # "PeerJoined" =>
        p \in K \/ \E j \in By(q, p) : j < i /\ q[j].type = "PeerJoined"
  /\ p \in M <=> /\ p \in K \/ \E i \in By(q, p) : q[i].type = "PeerJoined"
                 /\ \A i \in By(q, p) : q[i].type # "PeerLeft"

News == {"PeerJoined", "MediaState"}

(* The last state of p a queue tells is m, or none is told and v is m. *)
UpToDate(q, p, v, m) ==
  \/ v = m /\ \A i \in By(q, p) : q[i].type \notin News
  \/ \E i \in By(q, p) : /\ q[i].type \in News /\ q[i].state = m
                         /\ \A j \in By(q, p) : q[j].type \in News => j <= i

Served(c) == pc[c] \in Listening /\ lag[c] = "none"

FollowsRoom(c, p) == Coherent(events[c], p, Known(c), peers[room[c]])

FollowsState(c, p) ==
  p \in peers[room[c]] /\ pc[p] # "publishing" => UpToDate(events[c], p, view[c][p], media[p])

ViewsInv == \A c \in Conns : Served(c) => \A p \in Conns \ {c} : FollowsRoom(c, p)
StatesInv == \A c \in Conns : Served(c) => \A p \in Conns \ {c} : FollowsState(c, p)

(* Between its two halves a MediaState handler has stored what it will publish. *)
StoredFirst == \A p \in Conns : pc[p] = "publishing" => media[p] = pending[p]

(* What an appended event e does to the events of p. *)
Grown(n, q, e, p) ==
  /\ e.sender # p => By(n, p) = By(q, p)
  /\ e.sender = p => \E z \in Nat : /\ By(n, p) = By(q, p) \cup {z} /\ n[z] = e
                                   /\ \A i \in By(q, p) : i < z
  /\ \A i \in By(q, p) : i \in Nat /\ n[i] = q[i]

(* Where a peer's events are after an append, and after the head is read. *)
LEMMA Behind ==
  ASSUME NEW q \in Seq(Events), NEW e \in Events, NEW p, NEW n, n = Append(q, e)
  PROVE  Grown(n, q, e, p)
<1>1. /\ DOMAIN n = 1..(Len(q) + 1) /\ DOMAIN q = 1..Len(q) /\ Len(q) \in Nat
      /\ n[Len(q) + 1] = e /\ \A i \in 1..Len(q) : n[i] = q[i]
  OBVIOUS
<1>2. \A i : i \in By(n, p) <=> i \in By(q, p) \/ (i = Len(q) + 1 /\ e.sender = p)
  BY <1>1 DEF By
<1>3. /\ e.sender = p => By(n, p) = By(q, p) \cup {Len(q) + 1}
      /\ e.sender # p => By(n, p) = By(q, p)
  BY <1>2
<1>4. \A i \in By(q, p) : i \in Nat /\ i < Len(q) + 1 /\ n[i] = q[i]
  BY <1>1 DEF By
<1>5. Len(q) + 1 \in Nat /\ n[Len(q) + 1] = e
  BY <1>1
<1> QED
  BY ONLY <1>3, <1>4, <1>5 DEF Grown

LEMMA Ahead ==
  ASSUME NEW q \in Seq(Events), q # <<>>, NEW p
  PROVE  /\ 1 \in By(q, p) <=> Head(q).sender = p
         /\ q[1] = Head(q)
         /\ \A i \in By(q, p) : i \in Nat /\ i >= 1
         /\ \A i \in By(q, p) \ {1} : i - 1 \in By(Tail(q), p) /\ Tail(q)[i - 1] = q[i]
         /\ \A i \in By(Tail(q), p) : i \in Nat /\ i >= 1 /\ i + 1 \in By(q, p) /\ Tail(q)[i] = q[i + 1]
<1> DEFINE t == Tail(q)
<1>1. /\ Len(q) \in Nat /\ Len(q) >= 1 /\ DOMAIN q = 1..Len(q) /\ DOMAIN t = 1..(Len(q) - 1)
      /\ q[1] = Head(q) /\ \A i \in 1..(Len(q) - 1) : t[i] = q[i + 1]
  OBVIOUS
<1> HIDE DEF t
<1>2. /\ 1 \in By(q, p) <=> Head(q).sender = p
      /\ \A i \in By(q, p) : i \in Nat /\ i >= 1
  BY <1>1 DEF By
<1>3. ASSUME NEW i \in By(t, p) PROVE i \in Nat /\ i >= 1 /\ i + 1 \in By(q, p) /\ t[i] = q[i + 1]
  BY <1>1 DEF By
<1>4. ASSUME NEW i \in By(q, p) \ {1} PROVE i - 1 \in By(t, p) /\ t[i - 1] = q[i]
  <2>1. i \in 1..Len(q) /\ q[i].sender = p /\ i - 1 \in 1..(Len(q) - 1) /\ i = (i - 1) + 1
    BY <1>1 DEF By
  <2>2. t[i - 1] = q[i]
    BY <1>1, <2>1
  <2> QED
    BY <1>1, <2>1, <2>2 DEF By
<1> QED
  BY <1>1, <1>2, <1>3, <1>4 DEF t

(* What a queue tells of p is not changed by another's event. *)
LEMMA OthersEvent ==
  ASSUME NEW q, NEW e, NEW n, NEW p, Grown(n, q, e, p), e.sender # p, NEW K, NEW M, NEW v, NEW m
  PROVE  /\ Coherent(q, p, K, M) => Coherent(n, p, K, M)
         /\ UpToDate(q, p, v, m) => UpToDate(n, p, v, m)
<1>1. By(n, p) = By(q, p) /\ \A i \in By(q, p) : n[i] = q[i]
  BY DEF Grown
<1>2. Coherent(q, p, K, M) => Coherent(n, p, K, M)
  BY <1>1 DEF Coherent
<1>3. UpToDate(q, p, v, m) => UpToDate(n, p, v, m)
  BY <1>1 DEF UpToDate
<1> QED
  BY <1>2, <1>3

(* A member speaks: it is known by then, and its last word is the new one. *)
LEMMA MemberSpeaks ==
  ASSUME NEW q, NEW e, NEW n, NEW p, Grown(n, q, e, p), e.sender = p, NEW K, NEW M, p \in M,
         Coherent(q, p, K, M), e.type \notin {"PeerJoined", "PeerLeft"}
  PROVE  /\ Coherent(n, p, K, M)
         /\ e.type \in News => \A v : UpToDate(n, p, v, e.state)
         /\ e.type \notin News => \A v, m : UpToDate(q, p, v, m) => UpToDate(n, p, v, m)
<1>1. PICK z \in Nat :
      /\ By(n, p) = By(q, p) \cup {z} /\ n[z] = e
      /\ \A i \in By(q, p) : i \in Nat /\ i < z /\ n[i] = q[i]
  BY DEF Grown
<1>3. \A i \in By(q, p) : q[i].type # "PeerLeft"
  BY DEF Coherent
<1>4. p \in K \/ \E i \in By(q, p) : q[i].type = "PeerJoined"
  BY DEF Coherent
<1>5. \A i, j \in By(n, p) : j < i => n[j].type # "PeerLeft"
  BY <1>1, <1>3
<1>6. \A i \in By(n, p) : n[i].type = "PeerJoined" =>
         p \notin K /\ \A j \in By(n, p) : j < i => n[j].type # "PeerJoined"
  BY <1>1 DEF Coherent
<1>7. \A i \in By(n, p) : n[i].type # "PeerJoined" =>
         p \in K \/ \E j \in By(n, p) : j < i /\ n[j].type = "PeerJoined"
  BY <1>1, <1>4 DEF Coherent
<1>8. p \in M <=> /\ p \in K \/ \E i \in By(n, p) : n[i].type = "PeerJoined"
                  /\ \A i \in By(n, p) : n[i].type # "PeerLeft"
  BY <1>1, <1>3, <1>4
<1>9. Coherent(n, p, K, M)
  BY <1>5, <1>6, <1>7, <1>8 DEF Coherent
<1>10. e.type \in News => \A v : UpToDate(n, p, v, e.state)
  BY <1>1 DEF UpToDate
<1>11. e.type \notin News => \A v, m : UpToDate(q, p, v, m) => UpToDate(n, p, v, m)
  BY <1>1 DEF UpToDate
<1> QED
  BY <1>9, <1>10, <1>11

(* A peer nothing is known of joins; a member leaves. *)
LEMMA PeerComes ==
  ASSUME NEW q, NEW e, NEW n, NEW p, Grown(n, q, e, p), e.sender = p, NEW K, NEW M,
         By(q, p) = {}, p \notin K, p \in M, e.type = "PeerJoined"
  PROVE  Coherent(n, p, K, M) /\ \A v : UpToDate(n, p, v, e.state)
<1>1. \E z \in Nat : By(n, p) = {z} /\ n[z] = e
  BY DEF Grown
<1>3. Coherent(n, p, K, M)
  BY <1>1 DEF Coherent
<1>4. \A v : UpToDate(n, p, v, e.state)
  BY <1>1 DEF UpToDate, News
<1> QED
  BY <1>3, <1>4

LEMMA PeerGoes ==
  ASSUME NEW q, NEW e, NEW n, NEW p, Grown(n, q, e, p), e.sender = p, NEW K, NEW M, NEW N,
         Coherent(q, p, K, M), p \in M, p \notin N, e.type = "PeerLeft"
  PROVE  Coherent(n, p, K, N)
<1>1. PICK z \in Nat :
      /\ By(n, p) = By(q, p) \cup {z} /\ n[z] = e
      /\ \A i \in By(q, p) : i \in Nat /\ i < z /\ n[i] = q[i]
  BY DEF Grown
<1>3. \A i \in By(q, p) : q[i].type # "PeerLeft"
  BY DEF Coherent
<1>4. p \in K \/ \E i \in By(q, p) : q[i].type = "PeerJoined"
  BY DEF Coherent
<1>5. \A i, j \in By(n, p) : j < i => n[j].type # "PeerLeft"
  BY <1>1, <1>3
<1>6. \A i \in By(n, p) : n[i].type = "PeerJoined" =>
         p \notin K /\ \A j \in By(n, p) : j < i => n[j].type # "PeerJoined"
  BY <1>1 DEF Coherent
<1>7. \A i \in By(n, p) : n[i].type # "PeerJoined" =>
         p \in K \/ \E j \in By(n, p) : j < i /\ n[j].type = "PeerJoined"
  BY <1>1, <1>4 DEF Coherent
<1>8. Coherent(n, p, K, N)
  BY <1>1, <1>5, <1>6, <1>7 DEF Coherent
<1> QED
  BY <1>8

(* Reading the head moves what it tells from the queue to the view. *)
LEMMA HeadIsRead ==
  ASSUME NEW q \in Seq(Events), q # <<>>, NEW p, NEW K, NEW L, NEW M, Coherent(q, p, K, M),
         Head(q).sender # p => (p \in L <=> p \in K),
         Head(q).sender = p => (p \in L <=> \/ Head(q).type = "PeerJoined"
                                            \/ Head(q).type # "PeerLeft" /\ p \in K)
  PROVE  Coherent(Tail(q), p, L, M)
<1> DEFINE t == Tail(q)
           e == Head(q)
<1>1. /\ 1 \in By(q, p) <=> e.sender = p
      /\ q[1] = e
      /\ \A i \in By(q, p) : i \in Nat /\ i >= 1
      /\ \A i \in By(q, p) \ {1} : i - 1 \in By(t, p) /\ t[i - 1] = q[i]
      /\ \A i \in By(t, p) : i \in Nat /\ i >= 1 /\ i + 1 \in By(q, p) /\ t[i] = q[i + 1]
  BY Ahead
<1> HIDE DEF t, e
<1>2. \A i, j \in By(t, p) : j < i => t[j].type # "PeerLeft"
  <2> SUFFICES ASSUME NEW i \in By(t, p), NEW j \in By(t, p), j < i PROVE t[j].type # "PeerLeft"
    OBVIOUS
  <2>1. i + 1 \in By(q, p) /\ j + 1 \in By(q, p) /\ j + 1 < i + 1 /\ t[j] = q[j + 1]
    BY <1>1
  <2> QED
    BY <2>1 DEF Coherent
<1>3. ASSUME NEW i \in By(t, p), t[i].type = "PeerJoined"
      PROVE  p \notin L /\ \A j \in By(t, p) : j < i => t[j].type # "PeerJoined"
  <2>1. i \in Nat /\ i >= 1 /\ i + 1 \in By(q, p) /\ q[i + 1].type = "PeerJoined"
    BY <1>1, <1>3
  <2>2. p \notin K /\ \A j \in By(q, p) : j < i + 1 => q[j].type # "PeerJoined"
    BY <2>1 DEF Coherent
  <2>3. 1 \in By(q, p) => e.type # "PeerJoined"
    BY <1>1, <2>1, <2>2
  <2>4. p \notin L
    BY <1>1, <2>2, <2>3 DEF e
  <2>5. ASSUME NEW j \in By(t, p), j < i PROVE t[j].type # "PeerJoined"
    <3>1. j + 1 \in By(q, p) /\ j + 1 < i + 1 /\ t[j] = q[j + 1]
      BY <1>1, <2>1, <2>5
    <3> QED
      BY <2>2, <3>1
  <2> QED
    BY <2>4, <2>5
<1>4. ASSUME NEW i \in By(t, p), t[i].type # "PeerJoined"
      PROVE  p \in L \/ \E j \in By(t, p) : j < i /\ t[j].type = "PeerJoined"
  <2>1. i \in Nat /\ i >= 1 /\ i + 1 \in By(q, p) /\ q[i + 1].type # "PeerJoined"
    BY <1>1, <1>4
  <2>2. 1 \in By(q, p) => e.type # "PeerLeft"
    BY <1>1, <2>1 DEF Coherent
  <2>3. CASE p \in K
    BY <1>1, <2>2, <2>3 DEF e
  <2>4. CASE p \notin K
    <3>1. PICK j \in By(q, p) : j < i + 1 /\ q[j].type = "PeerJoined"
      BY <2>1, <2>4 DEF Coherent
    <3>2. CASE j = 1
      BY <1>1, <3>1, <3>2 DEF e
    <3>3. CASE j # 1
      <4>1. j - 1 \in By(t, p) /\ t[j - 1] = q[j] /\ j \in Nat
        BY <1>1, <3>3
      <4>2. j - 1 < i
        BY <4>1, <3>1, <2>1
      <4> QED
        BY <3>1, <4>1, <4>2
    <3> QED
      BY <3>2, <3>3
  <2> QED
    BY <2>3, <2>4
<1>5. ASSUME 1 \in By(q, p), e.type = "PeerLeft" PROVE By(t, p) = {}
  <2> SUFFICES ASSUME NEW i \in By(t, p) PROVE FALSE
    OBVIOUS
  <2>1. i + 1 \in By(q, p) /\ 1 < i + 1
    BY <1>1
  <2> QED
    BY <1>1, <1>5, <2>1 DEF Coherent
<1>6. p \in M <=> /\ p \in L \/ \E i \in By(t, p) : t[i].type = "PeerJoined"
                  /\ \A i \in By(t, p) : t[i].type # "PeerLeft"
  <2>1. CASE 1 \in By(q, p) /\ e.type = "PeerLeft"
    <3>1. p \notin M
      BY <1>1, <2>1 DEF Coherent
    <3>2. p \notin L /\ By(t, p) = {}
      BY <1>1, <1>5, <2>1 DEF e
    <3> QED
      BY <3>1, <3>2
  <2>2. CASE ~(1 \in By(q, p) /\ e.type = "PeerLeft")
    <3>1. (\A i \in By(q, p) : q[i].type # "PeerLeft") <=> \A i \in By(t, p) : t[i].type # "PeerLeft"
      <4>1. ASSUME \A i \in By(t, p) : t[i].type # "PeerLeft", NEW i \in By(q, p)
            PROVE  q[i].type # "PeerLeft"
        BY <1>1, <2>2, <4>1
      <4> QED
        BY <1>1, <4>1
    <3>2. (p \in K \/ \E i \in By(q, p) : q[i].type = "PeerJoined")
             <=> p \in L \/ \E i \in By(t, p) : t[i].type = "PeerJoined"
      <4>1. ASSUME NEW i \in By(q, p), q[i].type = "PeerJoined"
            PROVE  p \in L \/ \E k \in By(t, p) : t[k].type = "PeerJoined"
        BY <1>1, <4>1 DEF e
      <4>2. p \in K => p \in L
        BY <1>1, <2>2 DEF e
      <4>3. ASSUME NEW k \in By(t, p), t[k].type = "PeerJoined"
            PROVE  \E i \in By(q, p) : q[i].type = "PeerJoined"
        BY <1>1, <4>3
      <4>4. p \in L => p \in K \/ (1 \in By(q, p) /\ q[1].type = "PeerJoined")
        BY <1>1 DEF e
      <4> QED
        BY <4>1, <4>2, <4>3, <4>4
    <3> QED
      BY <3>1, <3>2 DEF Coherent
  <2> QED
    BY <2>1, <2>2
<1>7. Coherent(t, p, L, M)
  BY <1>2, <1>3, <1>4, <1>6 DEF Coherent
<1> QED
  BY <1>7 DEF t

(* The view a client keeps of a member stays the last state it was told. *)
LEMMA StateIsRead ==
  ASSUME NEW q \in Seq(Events), q # <<>>, NEW p, NEW v, NEW w, NEW m, UpToDate(q, p, v, m),
         w = IF Head(q).sender = p /\ Head(q).type \in News THEN Head(q).state ELSE v
  PROVE  UpToDate(Tail(q), p, w, m)
<1> DEFINE t == Tail(q)
           e == Head(q)
<1>1. /\ 1 \in By(q, p) <=> e.sender = p
      /\ q[1] = e
      /\ \A i \in By(q, p) : i \in Nat /\ i >= 1
      /\ \A i \in By(q, p) \ {1} : i - 1 \in By(t, p) /\ t[i - 1] = q[i]
      /\ \A i \in By(t, p) : i \in Nat /\ i >= 1 /\ i + 1 \in By(q, p) /\ t[i] = q[i + 1]
  BY Ahead
<1>2. w = IF 1 \in By(q, p) /\ e.type \in News THEN e.state ELSE v
  BY <1>1
<1> HIDE DEF t, e
<1>3. CASE v = m /\ \A i \in By(q, p) : q[i].type \notin News
  <2>1. w = m /\ \A i \in By(t, p) : t[i].type \notin News
    BY <1>1, <1>2, <1>3
  <2> QED
    BY <2>1 DEF UpToDate, t
<1>4. ASSUME NEW i \in By(q, p), q[i].type \in News, q[i].state = m,
             \A j \in By(q, p) : q[j].type \in News => j <= i
      PROVE  UpToDate(t, p, w, m)
  <2>1. CASE i = 1
    <3>1. ASSUME NEW k \in By(t, p) PROVE t[k].type \notin News
      <4>1. k + 1 \in By(q, p) /\ t[k] = q[k + 1] /\ ~(k + 1 <= 1)
        BY <1>1
      <4> QED
        BY <1>4, <2>1, <4>1
    <3>2. w = m
      BY <1>1, <1>2, <1>4, <2>1
    <3> QED
      BY <3>1, <3>2 DEF UpToDate
  <2>2. CASE i # 1
    <3>1. i - 1 \in By(t, p) /\ t[i - 1] = q[i] /\ i \in Nat
      BY <1>1, <2>2
    <3>2. ASSUME NEW k \in By(t, p), t[k].type \in News PROVE k <= i - 1
      <4>1. k \in Nat /\ k + 1 \in By(q, p) /\ t[k] = q[k + 1]
        BY <1>1
      <4>2. k + 1 <= i
        BY <1>4, <3>2, <4>1
      <4> QED
        BY <3>1, <4>1, <4>2
    <3> QED
      BY <1>4, <3>1, <3>2 DEF UpToDate
  <2> QED
    BY <2>1, <2>2
<1> QED
  BY <1>3, <1>4 DEF UpToDate, t

(* Coherence is about one peer: only whether p is known and a member counts. *)
LEMMA SameOf ==
  ASSUME NEW q, NEW p, NEW K, NEW L, NEW M, NEW N, Coherent(q, p, K, M),
         p \in L <=> p \in K, p \in N <=> p \in M
  PROVE  Coherent(q, p, L, N)
  BY DEF Coherent

(* What a receiver that is not overrun by a broadcast has to read then. *)
LEMMA Heard ==
  ASSUME TypeOK, NEW receivers, NEW e \in Events, Broadcast(receivers, e),
         NEW c \in Conns, lag'[c] = "none"
  PROVE  /\ lag[c] = "none"
         /\ c \notin receivers => events'[c] = events[c]
         /\ c \in receivers => \A p : Grown(events'[c], events[c], e, p)
<1>1. lag[c] = "none" /\ (c \in receivers => ~(Len(events[c]) >= ChannelCapacity))
  BY DEF Broadcast
<1>2. c \notin receivers => events'[c] = events[c]
  BY DEF Broadcast
<1>3. ASSUME c \in receivers PROVE events'[c] = Append(events[c], e) /\ events[c] \in Seq(Events)
  <2>1. events'[c] = Push(events[c], e) /\ events[c] \in Seq(Events)
    BY <1>3 DEF Broadcast, TypeOK
  <2>2. Len(events[c]) < ChannelCapacity
    BY <1>1, <1>3, <2>1, ServerAssumption
  <2> QED
    BY <2>1, <2>2 DEF Push
<1>4. c \in receivers => \A p : Grown(events'[c], events[c], e, p)
  BY <1>3, Behind, Zenon
<1> QED
  BY <1>1, <1>2, <1>4

(* Steps that touch neither the queues, the views nor who is in a room. *)
LEMMA QuietViews ==
  ASSUME ViewsInv, UNCHANGED <<peers, events, view>>,
         \A c \in Conns : Served(c)' => Served(c) /\ room'[c] = room[c],
         \A p \in Conns : pc'[p] # "publishing" => pc[p] # "publishing" /\ media'[p] = media[p]
  PROVE  ViewsInv' /\ (StatesInv => StatesInv')
<1>1. ASSUME NEW c \in Conns, Served(c)', NEW p \in Conns \ {c}
      PROVE  FollowsRoom(c, p)' /\ (StatesInv => FollowsState(c, p)')
  <2>1. Served(c) /\ room'[c] = room[c] /\ Known(c)' = Known(c)
    BY <1>1 DEF Known
  <2>2. FollowsRoom(c, p)'
    BY <2>1 DEF ViewsInv, FollowsRoom
  <2>3. StatesInv => FollowsState(c, p)'
    BY <2>1 DEF StatesInv, FollowsState
  <2> QED
    BY <2>2, <2>3
<1> QED
  BY <1>1 DEF ViewsInv, StatesInv

(* A published state is the stored one; what is not a state is not news. *)
Honest(p, e) ==
  IF e.type = "MediaState" THEN e.state = media[p] ELSE pc[p] # "publishing" /\ e.type \notin News

(* A member's word, broadcast in its room. *)
LEMMA SpokenViews ==
  ASSUME PresenceInv, ViewsInv, NEW p \in Conns, NEW e \in Events, e.sender = p,
         e.type \notin {"PeerJoined", "PeerLeft"}, p \in peers[room[p]],
         Broadcast(Subscribers(room[p]), e), UNCHANGED <<room, peers, media, view>>,
         \A c \in Conns : pc'[c] \in Listening <=> pc[c] \in Listening,
         \A c \in Conns \ {p} : pc'[c] = pc[c]
  PROVE  ViewsInv' /\ (Honest(p, e) /\ StatesInv => StatesInv')
<1>a. e.sender = p /\ e.type \notin {"PeerJoined", "PeerLeft"}
  OBVIOUS
<1>1. TypeOK
  BY DEF PresenceInv, RegistryInv, TypeInv
<1>2. ASSUME NEW c \in Conns, Served(c)', NEW s \in Conns \ {c}
      PROVE  FollowsRoom(c, s)' /\ (Honest(p, e) /\ StatesInv => FollowsState(c, s)')
  <2>1. Served(c) /\ Known(c)' = Known(c)
    BY <1>1, <1>2, Heard DEF Served, Known
  <2>2. FollowsRoom(c, s) /\ (StatesInv => FollowsState(c, s))
    BY <2>1 DEF ViewsInv, StatesInv
  <2>3. CASE c \notin Subscribers(room[p])
    <3>1. events'[c] = events[c] /\ room[c] # room[p]
      BY <2>1, <2>3, <1>1, <1>2, Heard DEF Served, Subscribers
    <3>2. FollowsRoom(c, s)'
      BY <2>1, <2>2, <3>1 DEF FollowsRoom
    <3>3. s \in peers[room[c]] => s # p
      <4>1. room[c] \in RoomIds
        BY <2>1 DEF PresenceInv, RegistryInv, TypeInv, Placed, Served, Listening
      <4> QED
        BY <3>1, <4>1 DEF PresenceInv, RegistryInv, InOwnRoom
    <3>4. Honest(p, e) /\ StatesInv => FollowsState(c, s)'
      BY <2>1, <2>2, <3>1, <3>3 DEF FollowsState
    <3> QED
      BY <3>2, <3>4
  <2>4. CASE c \in Subscribers(room[p])
    <3>1. room[c] = room[p] /\ Grown(events'[c], events[c], e, s)
      BY <2>4, <1>1, <1>2, Heard DEF Served, Subscribers
    <3>2. CASE s # p
      <4>1. FollowsRoom(c, s)'
        BY <2>1, <2>2, <3>1, <3>2, OthersEvent DEF FollowsRoom
      <4>2. Honest(p, e) /\ StatesInv => FollowsState(c, s)'
        BY <2>1, <2>2, <3>1, <3>2, OthersEvent DEF FollowsState
      <4> QED
        BY <4>1, <4>2
    <3>3. CASE s = p
      <4>1. Coherent(events[c], s, Known(c), peers[room[c]]) /\ s \in peers[room[c]]
        BY <2>2, <3>1, <3>3 DEF FollowsRoom
      <4>2. /\ Coherent(events'[c], s, Known(c), peers[room[c]])
            /\ e.type \in News => \A v : UpToDate(events'[c], s, v, e.state)
            /\ e.type \notin News => \A v, m : UpToDate(events[c], s, v, m) => UpToDate(events'[c], s, v, m)
        <5>1. e.sender = s /\ e.type \notin {"PeerJoined", "PeerLeft"}
          BY <1>a, <3>3
        <5>2. Coherent(events'[c], s, Known(c), peers[room[c]])
          BY ONLY <3>1, <4>1, <5>1, MemberSpeaks
        <5>3. e.type \in News => \A v : UpToDate(events'[c], s, v, e.state)
          BY ONLY <3>1, <4>1, <5>1, MemberSpeaks
        <5>4. e.type \notin News => \A v, m : UpToDate(events[c], s, v, m) => UpToDate(events'[c], s, v, m)
          BY ONLY <3>1, <4>1, <5>1, MemberSpeaks
        <5> QED
          BY <5>2, <5>3, <5>4
      <4>3. FollowsRoom(c, s)'
        BY <2>1, <4>2 DEF FollowsRoom
      <4>4. Honest(p, e) /\ StatesInv => FollowsState(c, s)'
        <5>1. CASE e.type = "MediaState"
          BY <4>2, <3>3, <5>1 DEF FollowsState, News, Honest
        <5>2. CASE e.type # "MediaState"
          BY <2>2, <3>3, <4>1, <4>2, <5>2 DEF FollowsState, Honest
        <5> QED
          BY <5>1, <5>2
      <4> QED
        BY <4>3, <4>4
    <3> QED
      BY <3>2, <3>3
  <2> QED
    BY <2>3, <2>4
<1> QED
  BY <1>2 DEF ViewsInv, StatesInv

(* Who is not in a room its client knows, and nothing queued is about it. *)
LEMMA Unheard ==
  ASSUME PresenceInv, NEW c \in Conns, NEW p \in Conns, pc[p] \notin Entered
  PROVE  By(events[c], p) = {} /\ p \notin Known(c)
<1>1. \A e \in Unread(c) : e.sender # p
  BY DEF PresenceInv, Hearsay, IsTrue
<1>2. By(events[c], p) = {}
  BY <1>1 DEF By, Unread
<1>3. p \notin Known(c)
  BY DEF PresenceInv, Hearsay
<1> QED
  BY <1>2, <1>3

LEMMA JoinViews ==
  ASSUME PresenceInv, ViewsInv, NEW p \in Conns, Join(p)
  PROVE  ViewsInv' /\ (StatesInv => StatesInv')
<1> DEFINE e == Event("PeerJoined", p, p, DefaultMedia)
<1>1. /\ pc[p] = "handshake" /\ pc' = [pc EXCEPT ![p] = "joined"]
      /\ peers' = [peers EXCEPT ![room[p]] = @ \cup {p}]
      /\ media' = [media EXCEPT ![p] = DefaultMedia]
      /\ view' = [view EXCEPT ![p] = [Snapshot(room[p]) EXCEPT ![p] = DefaultMedia]]
      /\ room' = room /\ Broadcast(JoinReceivers(p), e)
  BY DEF Join, Goto
<1>2. TypeOK /\ room[p] \in RoomIds
  BY <1>1 DEF PresenceInv, RegistryInv, TypeInv, Placed
<1>3. DefaultMedia \in MediaStates /\ NoPeer \notin MediaStates
  BY ServerAssumption
<1>4. /\ e \in Events /\ e.sender = p /\ e.type = "PeerJoined" /\ e.state = DefaultMedia
  BY <1>3 DEF Event, Events, EventTypes
<1> HIDE DEF e
<1>5. \A c \in Conns : room[c] \in RoomIds =>
         \A s \in Conns : s \in peers'[room[c]] <=> s \in peers[room[c]] \/ (s = p /\ room[c] = room[p])
  BY <1>1, <1>2 DEF TypeOK
<1>6. \A c \in Conns : pc'[c] \in Listening => room[c] \in RoomIds
  BY <1>1, <1>2 DEF PresenceInv, RegistryInv, TypeInv, Placed, Listening, TypeOK
<1>7. ASSUME NEW c \in Conns, Served(c)', NEW s \in Conns \ {c}, c # p
      PROVE  FollowsRoom(c, s)' /\ (StatesInv => FollowsState(c, s)')
  <2>1. Served(c) /\ view'[c] = view[c] /\ Known(c)' = Known(c) /\ lag'[c] = "none" /\ room[c] \in RoomIds
    BY <1>1, <1>2, <1>4, <1>6, <1>7, Heard DEF Served, Known
  <2>2. FollowsRoom(c, s) /\ (StatesInv => FollowsState(c, s))
    BY <2>1 DEF ViewsInv, StatesInv
  <2>3. s # p => media'[s] = media[s] /\ (pc'[s] # "publishing" => pc[s] # "publishing")
    BY <1>1
  <2>4. CASE c \notin JoinReceivers(p)
    <3>1. events'[c] = events[c]
      BY <2>1, <2>4, <1>1, <1>2, <1>4, Heard
    <3>2. room[c] # room[p]
      BY <2>1, <2>4 DEF Served, JoinReceivers, Subscribers
    <3>3. s \in peers'[room[c]] <=> s \in peers[room[c]]
      BY <1>5, <2>1, <3>2
    <3>4. FollowsRoom(c, s)'
      BY <1>1, <2>1, <2>2, <3>1, <3>3, SameOf DEF FollowsRoom
    <3>5. s \in peers[room[c]] => s # p
      BY <3>2, <2>1 DEF PresenceInv, RegistryInv, InOwnRoom
    <3>6. StatesInv => FollowsState(c, s)'
      BY <1>1, <2>1, <2>2, <2>3, <3>1, <3>3, <3>5 DEF FollowsState
    <3> QED
      BY <3>4, <3>6
  <2>5. CASE c \in JoinReceivers(p)
    <3>1. Grown(events'[c], events[c], e, s) /\ room[c] = room[p]
      BY <2>1, <2>5, <1>1, <1>2, <1>4, <1>7, Heard DEF JoinReceivers, Subscribers
    <3>2. CASE s # p
      <4>1. s \in peers'[room[c]] <=> s \in peers[room[c]]
        BY <1>5, <2>1, <3>2
      <4>2. FollowsRoom(c, s)'
        <5>1. Coherent(events'[c], s, Known(c), peers[room[c]])
          BY <1>4, <2>2, <3>1, <3>2, OthersEvent DEF FollowsRoom
        <5> QED
          BY <1>1, <2>1, <4>1, <5>1, SameOf DEF FollowsRoom
      <4>3. StatesInv => FollowsState(c, s)'
        BY <1>1, <1>4, <2>1, <2>2, <2>3, <3>1, <3>2, <4>1, OthersEvent DEF FollowsState
      <4> QED
        BY <4>2, <4>3
    <3>3. CASE s = p
      <4>1. By(events[c], s) = {} /\ s \notin Known(c)
        BY <1>1, <3>3, Unheard DEF Entered
      <4>2. s \in peers'[room[c]]
        BY <1>5, <2>1, <3>1, <3>3
      <4>3. Coherent(events'[c], s, Known(c), peers'[room[c]]) /\ \A v : UpToDate(events'[c], s, v, e.state)
        BY ONLY <1>4, <3>1, <3>3, <4>1, <4>2, PeerComes
      <4>4. media'[s] = e.state
        BY <1>1, <1>2, <1>4, <3>3 DEF TypeOK
      <4>5. FollowsRoom(c, s)'
        BY <1>1, <2>1, <4>3 DEF FollowsRoom
      <4>6. FollowsState(c, s)'
        BY <4>3, <4>4 DEF FollowsState
      <4> QED
        BY <4>5, <4>6
    <3> QED
      BY <3>2, <3>3
  <2> QED
    BY <2>4, <2>5
<1>8. ASSUME Served(p)', NEW s \in Conns \ {p}
      PROVE  FollowsRoom(p, s)' /\ FollowsState(p, s)'
  <2>1. events[p] = <<>> /\ pc[p] \notin Listening
    BY <1>1 DEF PresenceInv, SelfAware, Listening
  <2>2. Grown(events'[p], events[p], e, s)
    BY <1>1, <1>2, <1>4, <1>8, Heard DEF Served, JoinReceivers
  <2>3. By(events[p], s) = {}
    BY <2>1 DEF By
  <2>4. By(events'[p], s) = {}
    BY <2>2, <2>3, <1>4 DEF Grown
  <2>5. view'[p] = [Snapshot(room[p]) EXCEPT ![p] = DefaultMedia]
    BY <1>1, <1>2 DEF TypeOK
  <2>6. view'[p][s] = IF s \in peers[room[p]] THEN media[s] ELSE NoPeer
    BY <2>5 DEF Snapshot
  <2>7. s \in peers'[room[p]] <=> s \in peers[room[p]]
    BY <1>2, <1>5
  <2>8. s \in Known(p)' <=> s \in peers'[room[p]]
    BY <1>2, <1>3, <2>6, <2>7 DEF Known, TypeOK
  <2>9. FollowsRoom(p, s)'
    BY <1>1, <2>4, <2>8 DEF FollowsRoom, Coherent
  <2>10. FollowsState(p, s)'
    BY <1>1, <2>4, <2>6, <2>7 DEF FollowsState, UpToDate
  <2> QED
    BY <2>9, <2>10
<1> QED
  BY <1>7, <1>8 DEF ViewsInv, StatesInv

LEMMA LeaveViews ==
  ASSUME PresenceInv, ViewsInv, NEW p \in Conns, Leave(p)
  PROVE  ViewsInv' /\ (StatesInv => StatesInv')
<1> DEFINE e == Event("PeerLeft", p, p, DefaultMedia)
<1>1. /\ pc[p] = "closing" /\ pc' = [pc EXCEPT ![p] = "gone"] /\ UNCHANGED <<room, view, media>>
      /\ live' = (IF peers[room[p]] \ {p} = {} THEN live \ {room[p]} ELSE live)
      /\ peers' = [peers EXCEPT ![room[p]] = IF room[p] \in live' THEN peers[room[p]] \ {p} ELSE {}]
  BY DEF Leave, Goto, Remaining, LiveAfterLeave
<1>2. TypeOK /\ p \in peers[room[p]] /\ room[p] \in RoomIds /\ room[p] \in live
  BY <1>1 DEF PresenceInv, RegistryInv, SubscriberIsMember, NoEmptyRooms, TypeInv, Placed
<1>3. peers' = [peers EXCEPT ![room[p]] = @ \ {p}]
  BY <1>1, <1>2
<1>4. Broadcast(Subscribers(room[p]), e)
  BY <1>2 DEF Leave
<1>5. e \in Events /\ e.sender = p /\ e.type = "PeerLeft"
  BY ServerAssumption DEF Event, Events, EventTypes
<1> HIDE DEF e
<1>6. ASSUME NEW c \in Conns, Served(c)', NEW s \in Conns \ {c}
      PROVE  FollowsRoom(c, s)' /\ (StatesInv => FollowsState(c, s)')
  <2>1. Served(c) /\ Known(c)' = Known(c) /\ room[c] \in RoomIds
    BY <1>1, <1>2, <1>4, <1>5, <1>6, Heard
    DEF Served, Known, PresenceInv, RegistryInv, TypeInv, Placed, Listening, TypeOK
  <2>2. FollowsRoom(c, s) /\ (StatesInv => FollowsState(c, s))
    BY <2>1 DEF ViewsInv, StatesInv
  <2>3. s \in peers'[room[c]] <=> s \in peers[room[c]] /\ ~(s = p /\ room[c] = room[p])
    BY <1>2, <1>3, <2>1 DEF TypeOK
  <2>4. s # p => (pc'[s] # "publishing" => pc[s] # "publishing")
    BY <1>1
  <2>5. CASE c \notin Subscribers(room[p])
    <3>1. events'[c] = events[c] /\ room[c] # room[p]
      BY <2>1, <2>5, <1>2, <1>4, <1>5, <1>6, Heard DEF Served, Subscribers
    <3>2. s \in peers[room[c]] => s # p
      BY <3>1, <2>1 DEF PresenceInv, RegistryInv, InOwnRoom
    <3>3. FollowsRoom(c, s)'
      BY <1>1, <2>1, <2>2, <2>3, <3>1, SameOf DEF FollowsRoom
    <3>4. StatesInv => FollowsState(c, s)'
      BY <1>1, <2>1, <2>2, <2>3, <2>4, <3>1, <3>2 DEF FollowsState
    <3> QED
      BY <3>3, <3>4
  <2>6. CASE c \in Subscribers(room[p])
    <3>1. room[c] = room[p] /\ Grown(events'[c], events[c], e, s)
      BY <2>6, <1>2, <1>4, <1>5, <1>6, Heard DEF Served, Subscribers
    <3>2. CASE s # p
      <4>1. FollowsRoom(c, s)'
        <5>1. Coherent(events'[c], s, Known(c), peers[room[c]])
          BY <1>5, <2>2, <3>1, <3>2, OthersEvent DEF FollowsRoom
        <5> QED
          BY <1>1, <2>1, <2>3, <3>2, <5>1, SameOf DEF FollowsRoom
      <4>2. StatesInv => FollowsState(c, s)'
        BY <1>1, <1>5, <2>1, <2>2, <2>3, <2>4, <3>1, <3>2, OthersEvent DEF FollowsState
      <4> QED
        BY <4>1, <4>2
    <3>3. CASE s = p
      <4>1. Coherent(events[c], s, Known(c), peers[room[c]]) /\ s \in peers[room[c]] /\ s \notin peers'[room[c]]
        BY <1>2, <2>2, <2>3, <3>1, <3>3 DEF FollowsRoom
      <4>2. Coherent(events'[c], s, Known(c), peers'[room[c]])
        BY ONLY <1>5, <3>1, <3>3, <4>1, PeerGoes
      <4>3. FollowsRoom(c, s)'
        BY <1>1, <2>1, <4>2 DEF FollowsRoom
      <4>4. FollowsState(c, s)'
        BY <1>1, <4>1 DEF FollowsState
      <4> QED
        BY <4>3, <4>4
    <3> QED
      BY <3>2, <3>3
  <2> QED
    BY <2>5, <2>6
<1> QED
  BY <1>6 DEF ViewsInv, StatesInv

LEMMA DeliverViews ==
  ASSUME PresenceInv, ViewsInv, NEW d \in Conns, Deliver(d)
  PROVE  ViewsInv' /\ (StatesInv => StatesInv')
<1> DEFINE e == Head(events[d])
<1>1. /\ pc[d] = "relay" /\ events[d] # <<>> /\ events' = [events EXCEPT ![d] = Tail(@)]
      /\ view' = (IF ShouldDeliver(d, e) THEN [view EXCEPT ![d] = Told(@, e)] ELSE view)
      /\ UNCHANGED <<peers, media, room, pc, lag>>
  BY DEF Deliver, registry
<1>2. TypeOK /\ events[d] \in Seq(Events)
  BY DEF PresenceInv, RegistryInv, TypeInv, TypeOK
<1>3. e \in Events /\ e.sender \in Conns /\ e.state \in MediaStates
  <2>1. e \in Events
    BY <1>1, <1>2
  <2> QED
    BY <2>1 DEF Events
<1>4. NoPeer \notin MediaStates
  BY ServerAssumption
<1>5. ASSUME NEW c \in Conns \ {d}, Served(c)', NEW s \in Conns \ {c}
      PROVE  FollowsRoom(c, s)' /\ (StatesInv => FollowsState(c, s)')
  <2>1. Served(c) /\ Known(c)' = Known(c) /\ view'[c] = view[c] /\ events'[c] = events[c]
    BY <1>1, <1>2, <1>5 DEF Served, Known
  <2>2. FollowsRoom(c, s)'
    BY <1>1, <2>1 DEF ViewsInv, FollowsRoom
  <2>3. StatesInv => FollowsState(c, s)'
    BY <1>1, <2>1 DEF StatesInv, FollowsState
  <2> QED
    BY <2>2, <2>3
<1>6. ASSUME Served(d)', NEW s \in Conns \ {d}
      PROVE  FollowsRoom(d, s)' /\ (StatesInv => FollowsState(d, s)')
  <2>1. Served(d) /\ events'[d] = Tail(events[d])
    BY <1>1, <1>2, <1>6 DEF Served, TypeOK
  <2>2. Coherent(events[d], s, Known(d), peers[room[d]])
    BY <2>1 DEF ViewsInv, FollowsRoom
  <2>3. /\ 1 \in By(events[d], s) <=> e.sender = s
        /\ events[d][1] = e
        /\ \A i \in By(events[d], s) : i \in Nat /\ i >= 1
    BY <1>1, <1>2, Ahead
  <2>4. view[d] \in [Conns -> MediaStates \cup {NoPeer}]
    BY <1>2 DEF TypeOK
  <2> HIDE DEF e
  <2>5. /\ e.sender # s => view'[d][s] = view[d][s]
        /\ e.sender = s /\ e.type = "PeerJoined" => view'[d][s] = e.state
        /\ e.sender = s /\ e.type = "PeerLeft" => view'[d][s] = NoPeer
        /\ e.sender = s /\ e.type \notin {"PeerJoined", "PeerLeft", "MediaState"} => view'[d][s] = view[d][s]
        /\ e.sender = s /\ e.type = "MediaState" =>
              view'[d][s] = (IF view[d][s] # NoPeer THEN e.state ELSE NoPeer)
    <3>1. CASE ~ShouldDeliver(d, e)
      <4>1. e.sender = d \/ e.type = "Signal"
        BY <3>1 DEF ShouldDeliver
      <4> QED
        BY <4>1, <3>1, <1>1
    <3>2. CASE ShouldDeliver(d, e)
      <4>1. view'[d] = Told(view[d], e)
        BY <1>1, <1>2, <3>2 DEF TypeOK
      <4>2. e.sender # s => view'[d][s] = view[d][s]
        BY <4>1, <2>4, <1>3 DEF Told
      <4>3. /\ e.sender = s /\ e.type = "PeerJoined" => view'[d][s] = e.state
            /\ e.sender = s /\ e.type = "PeerLeft" => view'[d][s] = NoPeer
        BY <4>1, <2>4, <1>3 DEF Told
      <4>4. /\ e.sender = s /\ e.type \notin {"PeerJoined", "PeerLeft", "MediaState"} => view'[d][s] = view[d][s]
            /\ e.sender = s /\ e.type = "MediaState" =>
                  view'[d][s] = (IF view[d][s] # NoPeer THEN e.state ELSE NoPeer)
        BY <4>1, <2>4, <1>3 DEF Told
      <4> QED
        BY <4>2, <4>3, <4>4
    <3> QED
      BY <3>1, <3>2
  <2>6. s \in Known(d)' <=> view'[d][s] # NoPeer
    BY DEF Known
  <2>7. s \in Known(d) <=> view[d][s] # NoPeer
    BY DEF Known
  <2>8. e.sender # s => (s \in Known(d)' <=> s \in Known(d))
    BY <2>5, <2>6, <2>7
  <2>9. e.sender = s => (s \in Known(d)' <=> \/ e.type = "PeerJoined"
                                             \/ e.type # "PeerLeft" /\ s \in Known(d))
    BY <1>3, <1>4, <2>5, <2>6, <2>7
  <2>10. Coherent(Tail(events[d]), s, Known(d)', peers[room[d]])
    BY <1>1, <1>2, <2>2, <2>8, <2>9, HeadIsRead DEF e
  <2>11. FollowsRoom(d, s)'
    BY <1>1, <2>1, <2>10 DEF FollowsRoom
  <2>12. ASSUME StatesInv PROVE FollowsState(d, s)'
    <3> SUFFICES ASSUME s \in peers[room[d]], pc[s] # "publishing"
                 PROVE  UpToDate(Tail(events[d]), s, view'[d][s], media[s])
      BY <1>1, <2>1 DEF FollowsState
    <3>1. UpToDate(events[d], s, view[d][s], media[s])
      BY <2>1, <2>12 DEF StatesInv, FollowsState
    <3>2. e.sender = s => e.type # "PeerLeft" /\ (e.type # "PeerJoined" => s \in Known(d))
      <4>1. ASSUME e.sender = s, e.type # "PeerJoined" PROVE s \in Known(d)
        <5>1. s \in Known(d) \/ \E j \in By(events[d], s) : j < 1
          BY <2>2, <2>3, <4>1 DEF Coherent
        <5> QED
          BY <2>3, <5>1
      <4> QED
        BY <2>2, <2>3, <4>1 DEF Coherent
    <3>3. view'[d][s] = IF e.sender = s /\ e.type \in News THEN e.state ELSE view[d][s]
      BY <2>5, <2>7, <3>2 DEF News
    <3> QED
      BY <1>1, <1>2, <3>1, <3>3, StateIsRead DEF e
  <2> QED
    BY <2>11, <2>12
<1> QED
  BY <1>5, <1>6 DEF ViewsInv, StatesInv

LEMMA EachStep ==
  ASSUME PresenceInv, ViewsInv, [Next]_vars
  PROVE  ViewsInv' /\ (StoredFirst /\ StatesInv => StatesInv')
<1> USE DEF Goto, registry
<1>a. TypeOK
  BY DEF PresenceInv, RegistryInv, TypeInv
<1>1. ASSUME NEW c \in Conns,
             \/ HandshakeFails(c) \/ JoinFull(c) \/ SendRoomState(c) \/ ObserveLag(c)
             \/ (\E r \in RoomIds : Upgrade(c, r))
             \/ (\E state \in MediaStates, own \in Claims : RecvMediaState(c, state, own))
      PROVE  ViewsInv' /\ (StatesInv => StatesInv')
  <2>1. UNCHANGED <<peers, events, view>>
    BY <1>1 DEF HandshakeFails, JoinFull, SendRoomState, ObserveLag, Upgrade, RecvMediaState
  <2>2. \A d \in Conns : Served(d)' => Served(d) /\ room'[d] = room[d]
    BY <1>1, <1>a DEF HandshakeFails, JoinFull, SendRoomState, ObserveLag, Upgrade, RecvMediaState,
       Served, Listening, TypeOK
  <2>3. \A p \in Conns : pc'[p] # "publishing" => pc[p] # "publishing" /\ media'[p] = media[p]
    BY <1>1, <1>a DEF HandshakeFails, JoinFull, SendRoomState, ObserveLag, Upgrade, RecvMediaState, TypeOK
  <2> QED
    BY <2>1, <2>2, <2>3, QuietViews
<1>2. ASSUME NEW c \in Conns, PublishMediaState(c)
      PROVE  ViewsInv' /\ (StoredFirst /\ StatesInv => StatesInv')
  <2>1. /\ pc[c] = "publishing" /\ pc' = [pc EXCEPT ![c] = "relay"]
        /\ Broadcast(Subscribers(room[c]), Event("MediaState", c, c, pending[c]))
        /\ UNCHANGED <<room, peers, media, view>>
    BY <1>2 DEF PublishMediaState
  <2>2. PICK e \in Events : /\ e.sender = c /\ e.type = "MediaState" /\ e.state = pending[c]
                            /\ Broadcast(Subscribers(room[c]), e)
    <3>1. Event("MediaState", c, c, pending[c]) \in Events
      BY <1>a DEF Event, Events, EventTypes, TypeOK
    <3> QED
      BY <2>1, <3>1 DEF Event
  <2>3. c \in peers[room[c]] /\ \A d \in Conns : pc'[d] \in Listening <=> pc[d] \in Listening
    BY <2>1, <1>a DEF PresenceInv, RegistryInv, SubscriberIsMember, Listening, TypeOK
  <2>4. StoredFirst => Honest(c, e)
    BY <2>1, <2>2 DEF StoredFirst, Honest
  <2>5. \A d \in Conns \ {c} : pc'[d] = pc[d]
    BY <2>1
  <2> QED
    BY <2>1, <2>2, <2>3, <2>4, <2>5, SpokenViews
<1>3. ASSUME NEW c \in Conns, RecvChat(c) \/ \E target \in Conns \ {c} : RecvSignal(c, target)
      PROVE  ViewsInv' /\ (StatesInv => StatesInv')
  <2>1. PICK type \in {"Chat", "Signal"}, target \in Conns : RecvPublished(c, type, target)
    BY <1>3 DEF RecvChat, RecvSignal
  <2>2. /\ pc[c] = "relay" /\ UNCHANGED <<room, peers, media, view, pc>>
        /\ Broadcast(Subscribers(room[c]), Event(type, c, target, DefaultMedia))
    BY <2>1 DEF RecvPublished
  <2>3. PICK e \in Events : /\ e.sender = c /\ e.type = type
                            /\ Broadcast(Subscribers(room[c]), e)
    <3>1. Event(type, c, target, DefaultMedia) \in Events
      BY ServerAssumption DEF Event, Events, EventTypes
    <3> QED
      BY <2>2, <3>1 DEF Event
  <2>4. c \in peers[room[c]]
    BY <2>2 DEF PresenceInv, RegistryInv, SubscriberIsMember, Listening
  <2>5. Honest(c, e)
    BY <2>2, <2>3 DEF Honest, News
  <2> QED
    BY <2>2, <2>3, <2>4, <2>5, SpokenViews
<1>4. ASSUME NEW c \in Conns, SendRoomStateFails(c) \/ Break(c)
      PROVE  ViewsInv' /\ (StatesInv => StatesInv')
  <2>1. PICK stage \in {"closing", "gone"} : /\ pc' = [pc EXCEPT ![c] = stage] /\ pc[c] # "publishing"
                                             /\ Detach(c) /\ UNCHANGED <<room, peers, media>>
    BY <1>4 DEF SendRoomStateFails, Break
  <2>2. ASSUME NEW d \in Conns, Served(d)', NEW s \in Conns \ {d}
        PROVE  FollowsRoom(d, s)' /\ (StatesInv => FollowsState(d, s)')
    <3>1. d # c
      BY <2>1, <2>2, <1>a DEF Served, Listening, TypeOK
    <3>2. /\ Served(d) /\ Known(d)' = Known(d) /\ events'[d] = events[d]
          /\ view'[d] = view[d]
      BY <2>1, <2>2, <3>1 DEF Served, Known, Detach
    <3>3. pc'[s] # "publishing" => pc[s] # "publishing"
      BY <2>1
    <3>4. FollowsRoom(d, s)'
      BY <2>1, <3>2 DEF ViewsInv, FollowsRoom
    <3>5. StatesInv => FollowsState(d, s)'
      BY <2>1, <3>2, <3>3 DEF StatesInv, FollowsState
    <3> QED
      BY <3>4, <3>5
  <2> QED
    BY <2>2 DEF ViewsInv, StatesInv
<1>5. ASSUME NEW c \in Conns, Join(c) PROVE ViewsInv' /\ (StatesInv => StatesInv')
  BY <1>5, JoinViews
<1>6. ASSUME NEW c \in Conns, Leave(c) PROVE ViewsInv' /\ (StatesInv => StatesInv')
  BY <1>6, LeaveViews
<1>7. ASSUME NEW c \in Conns, Deliver(c) PROVE ViewsInv' /\ (StatesInv => StatesInv')
  BY <1>7, DeliverViews
<1>8. CASE UNCHANGED vars
  BY <1>8, QuietViews DEF vars, Served
<1> QED
  BY <1>1, <1>2, <1>3, <1>4, <1>5, <1>6, <1>7, <1>8 DEF Next

(* A client that names itself in its MediaState publishes what was stored. *)
LEMMA StoredStep ==
  ASSUME TypeOK, FALSE \notin Claims, SubscriberIsMember, StoredFirst, [Next]_vars
  PROVE  StoredFirst'
<1> USE DEF Goto, registry, StoredFirst
<1>1. ASSUME NEW c \in Conns, NEW state \in MediaStates, NEW own \in Claims, RecvMediaState(c, state, own)
      PROVE  StoredFirst'
  <2>1. own = TRUE /\ c \in peers[room[c]]
    BY <1>1, ServerAssumption DEF RecvMediaState, SubscriberIsMember, Listening
  <2> QED
    BY <1>1, <2>1 DEF RecvMediaState, TypeOK
<1>2. ASSUME NEW c \in Conns,
             \/ HandshakeFails(c) \/ JoinFull(c) \/ SendRoomState(c) \/ ObserveLag(c) \/ Join(c)
             \/ PublishMediaState(c) \/ RecvChat(c) \/ SendRoomStateFails(c) \/ Break(c) \/ Leave(c)
             \/ Deliver(c) \/ (\E r \in RoomIds : Upgrade(c, r))
             \/ (\E target \in Conns \ {c} : RecvSignal(c, target))
      PROVE  StoredFirst'
  <2>1. /\ \A p \in Conns \ {c} : /\ pc'[p] = pc[p] /\ media'[p] = media[p] /\ pending'[p] = pending[p]
        /\ pc'[c] # "publishing"
    BY <1>2 DEF HandshakeFails, JoinFull, SendRoomState, ObserveLag, Join, PublishMediaState, RecvChat,
       RecvSignal, RecvPublished, SendRoomStateFails, Break, Leave, Deliver, Upgrade, Detach, TypeOK
  <2> QED
    BY <2>1
<1>3. CASE UNCHANGED vars
  BY <1>3 DEF vars
<1> QED
  BY <1>1, <1>2, <1>3 DEF Next

LEMMA InitViews == Init => ViewsInv /\ StatesInv /\ StoredFirst
<1> SUFFICES ASSUME Init PROVE ViewsInv /\ StatesInv /\ StoredFirst
  OBVIOUS
<1>1. \A c \in Conns : ~Served(c) /\ pc[c] # "publishing"
  BY DEF Init, Served, Listening
<1> QED
  BY <1>1 DEF ViewsInv, StatesInv, StoredFirst

(* What the invariant says of the queues is what the properties say. *)
LEMMA ViewsMean == PresenceInv /\ ViewsInv => NoStrangers /\ ViewsConverge
<1> SUFFICES ASSUME PresenceInv, ViewsInv PROVE NoStrangers /\ ViewsConverge
  OBVIOUS
<1>a. TypeOK
  BY DEF PresenceInv, RegistryInv, TypeInv
<1>1. ASSUME NEW c \in Conns, Served(c), NEW p \in Conns \ {c}
      PROVE  Coherent(events[c], p, Known(c), peers[room[c]])
  BY <1>1 DEF ViewsInv, FollowsRoom
<1>2. NoStrangers
  <2> SUFFICES ASSUME NEW c \in Conns, Served(c), NEW i \in DOMAIN events[c], events[c][i].sender # c
               PROVE  LET e == events[c][i]
                          before == {j \in 1..(i - 1) : events[c][j].sender = e.sender}
                          told == \E j \in before : events[c][j].type = "PeerJoined" IN
                      /\ \A j \in before : events[c][j].type # "PeerLeft"
                      /\ (e.type = "PeerJoined") # (e.sender \in Known(c) \/ told)
    BY DEF NoStrangers, Served
  <2> DEFINE p == events[c][i].sender
             before == {j \in 1..(i - 1) : events[c][j].sender = p}
  <2>1. events[c] \in Seq(Events) /\ i \in 1..Len(events[c]) /\ Len(events[c]) \in Nat
    BY <1>a DEF TypeOK
  <2>2. p \in Conns \ {c}
    <3>1. events[c][i] \in Events
      BY <2>1
    <3> QED
      BY <3>1 DEF Events
  <2>3. i \in By(events[c], p) /\ \A j : j \in before <=> j \in By(events[c], p) /\ j < i
    BY <2>1 DEF By
  <2>4. Coherent(events[c], p, Known(c), peers[room[c]])
    BY <1>1, <2>2
  <2> HIDE DEF p, before
  <2>5. \A j \in before : events[c][j].type # "PeerLeft"
    BY <2>3, <2>4 DEF Coherent
  <2>6. events[c][i].type = "PeerJoined" =>
           ~(p \in Known(c) \/ \E j \in before : events[c][j].type = "PeerJoined")
    BY <2>3, <2>4 DEF Coherent
  <2>7. events[c][i].type # "PeerJoined" =>
           p \in Known(c) \/ \E j \in before : events[c][j].type = "PeerJoined"
    BY <2>3, <2>4 DEF Coherent
  <2> QED
    BY <2>5, <2>6, <2>7 DEF p, before
<1>3. ViewsConverge
  <2> SUFFICES ASSUME NEW c \in Conns, Served(c)
               PROVE  KnownAfter(c) \ {c} = peers[room[c]] \ {c}
    BY DEF ViewsConverge, Served
  <2>1. ASSUME NEW p \in Conns \ {c} PROVE p \in KnownAfter(c) <=> p \in peers[room[c]]
    <3>1. Coherent(events[c], p, Known(c), peers[room[c]])
      BY <1>1
    <3>2. \A type : Queued(c, p, type) = {i \in By(events[c], p) : events[c][i].type = type}
      BY DEF Queued, By
    <3>3. Queued(c, p, "PeerJoined") # {} <=> \E i \in By(events[c], p) : events[c][i].type = "PeerJoined"
      BY <3>2
    <3>4. Queued(c, p, "PeerLeft") = {} <=> \A i \in By(events[c], p) : events[c][i].type # "PeerLeft"
      BY <3>2
    <3> QED
      BY <3>1, <3>3, <3>4 DEF KnownAfter, Coherent
  <2>2. KnownAfter(c) \subseteq Conns
    BY DEF KnownAfter
  <2>3. peers[room[c]] \subseteq Conns
    BY DEF PresenceInv, RegistryInv, TypeInv, TypeOK, Placed, Served, Listening
  <2> QED
    BY <2>1, <2>2, <2>3
<1> QED
  BY <1>2, <1>3

LEMMA StatesMean == TypeOK /\ StatesInv => MediaConverges
<1> SUFFICES ASSUME TypeOK, StatesInv,
                    NEW c \in Conns, NEW p \in Conns \ {c}, Served(c), p \in peers[room[c]], pc[p] # "publishing"
             PROVE  MediaAfter(c, p) = media[p]
  BY DEF MediaConverges, Served
<1> DEFINE said == Queued(c, p, "MediaState") \cup Queued(c, p, "PeerJoined")
<1>1. UpToDate(events[c], p, view[c][p], media[p])
  BY DEF StatesInv, FollowsState
<1>2. \A i : i \in said <=> i \in By(events[c], p) /\ events[c][i].type \in News
  BY DEF Queued, By, News
<1>3. MediaAfter(c, p) = IF said = {} THEN view[c][p]
                         ELSE events[c][CHOOSE i \in said : \A j \in said : j <= i].state
  BY DEF MediaAfter
<1>4. said \subseteq Nat
  <2>1. DOMAIN events[c] \subseteq Nat
    BY DEF TypeOK
  <2> QED
    BY <1>2, <2>1 DEF By
<1> HIDE DEF said
<1>5. CASE said = {}
  <2>1. view[c][p] = media[p]
    BY <1>1, <1>2, <1>5 DEF UpToDate
  <2> QED
    BY <1>3, <1>5, <2>1
<1>6. CASE said # {}
  <2>1. PICK i \in said : events[c][i].state = media[p] /\ \A j \in said : j <= i
    BY <1>1, <1>2, <1>6 DEF UpToDate
  <2>2. PICK k : k = CHOOSE n \in said : \A j \in said : j <= n
    OBVIOUS
  <2>3. k \in said /\ \A j \in said : j <= k
    BY <2>1, <2>2
  <2>4. k = i
    BY <1>4, <2>1, <2>3
  <2> QED
    BY <1>3, <1>6, <2>1, <2>2, <2>4
<1> QED
  BY <1>5, <1>6

(* Whoever joins and leaves, and however late a client reads, the snapshot *)
(* and the events that follow it add up to the room: it hears of nobody    *)
(* before it joined or after it left, misses nobody and keeps nobody (join *)
(* and leave of room.rs, the relay loop of handler.rs).                    *)
THEOREM ViewsAddUp == Spec => [](NoStrangers /\ ViewsConverge)
<1>1. PresenceInv /\ ViewsInv /\ [Next]_vars => ViewsInv'
  BY EachStep
<1>2. PresenceInv /\ [Next]_vars => PresenceInv'
  BY NextPresence
<1> QED
  BY InitPresence, InitViews, <1>1, <1>2, ViewsMean, PTL DEF Spec

(* And while clients name themselves in what they publish, the media state *)
(* shown of every peer adds up too (update_media_state of room.rs before   *)
(* the publish of handler.rs).  A MediaState that claims another id is     *)
(* published and not stored: the assumption is what the code needs.        *)
THEOREM ClientsAlwaysSeeTheRoom ==
  ASSUME FALSE \notin Claims
  PROVE  Spec => []ClientsSeeTheRoom
<1> DEFINE I == PresenceInv /\ ViewsInv /\ StatesInv /\ StoredFirst
<1>1. Init => I
  BY InitPresence, InitViews
<1>2. I /\ [Next]_vars => I'
  <2> SUFFICES ASSUME I, [Next]_vars PROVE I'
    OBVIOUS
  <2>1. TypeOK /\ SubscriberIsMember
    BY DEF PresenceInv, RegistryInv, TypeInv
  <2>2. PresenceInv'
    BY NextPresence
  <2>3. ViewsInv' /\ StatesInv'
    BY EachStep
  <2>4. StoredFirst'
    BY <2>1, StoredStep
  <2> QED
    BY <2>2, <2>3, <2>4
<1>3. I => ClientsSeeTheRoom
  BY ViewsMean, StatesMean DEF ClientsSeeTheRoom, PresenceInv, RegistryInv, TypeInv
<1> QED
  BY <1>1, <1>2, <1>3, PTL DEF Spec
=============================================================================
