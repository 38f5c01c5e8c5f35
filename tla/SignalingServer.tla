--------------------------- MODULE SignalingServer ---------------------------
(***************************************************************************)
(* The native signaling server, zancord-signaling-server: the room         *)
(* registry (room.rs, RoomManager) and the task that serves one websocket  *)
(* connection (handler.rs, handle_socket).                                 *)
(*                                                                         *)
(* Every method of RoomManager runs under the RwLock, so each is one       *)
(* action; the connection task awaits between them, so other tasks         *)
(* interleave there.  A connection that joins gets a fresh uuid, so the    *)
(* connection itself stands for its peer id.  The broadcast channel of a   *)
(* room is modelled by what each receiver has still to read of it: a queue *)
(* of at most ChannelCapacity events whose oldest is overwritten (tokio    *)
(* broadcast).  The rate limiter's refusals change nothing here.           *)
(***************************************************************************)
EXTENDS Naturals, Sequences, FiniteSets

CONSTANTS
  Conns,            \* websocket connections, each standing for its peer id
  RoomIds,          \* valid room ids
  NoRoom,           \* the room of a connection that has not upgraded yet
  MaxRoomSize,      \* MAX_ROOM_SIZE (protocol lib.rs)
  ChannelCapacity,  \* CHANNEL_CAPACITY (room.rs)
  MediaStates,      \* values of MediaStatePayload
  DefaultMedia,     \* MediaStatePayload::default()
  NoPeer,           \* what a client knows of a peer it was not told about
  Claims,           \* whether a MediaState may claim the sender's own id (TRUE), another (FALSE)
  MaxMessages       \* bound: messages the server accepts from one connection

ASSUME ServerAssumption ==
  /\ IsFiniteSet(Conns)
  /\ NoRoom \notin RoomIds
  /\ MaxRoomSize \in Nat \ {0}
  /\ ChannelCapacity \in Nat \ {0}
  /\ DefaultMedia \in MediaStates
  /\ NoPeer \notin MediaStates
  /\ Claims \subseteq BOOLEAN
  /\ MaxMessages \in Nat

VARIABLES
  live,     \* the keys of `rooms: HashMap<String, Room>`
  peers,    \* Room.peers of every room id ({} when the room does not exist)
  media,    \* media_state of a peer's entry in Room.peers
  room,     \* the room id in the path of the connection's url
  pc,       \* where the connection's task is
  pending,  \* the state a MediaState handler has stored and must still publish
  events,   \* what a connection's broadcast::Receiver has still to read
  lag,      \* whether that receiver was overrun, and whether recv reported it
  view,     \* what the connection's client was told of each other peer
  sent      \* messages accepted from the connection (bounded by MaxMessages)

vars == <<live, peers, media, room, pc, pending, events, lag, view, sent>>
registry == <<live, peers, media>>

(***************************************************************************)
(* The task of a connection: no socket yet; receive_join; returned without *)
(* having joined; joined but RoomState not sent yet; the relay loop;       *)
(* inside handle_client_message between the two lock acquisitions of       *)
(* MediaState; out of the loop but not yet in manager.leave; returned.     *)
(***************************************************************************)
Stages ==
  {"new", "handshake", "refused", "joined", "relay", "publishing", "closing", "gone"}

(* The stages in which a connection's receiver exists and will be read again. *)
MutSubscribeLate == {"relay", "publishing"}
Listening == {"joined", "relay", "publishing"}

EventTypes == {"PeerJoined", "PeerLeft", "MediaState", "Chat", "Signal"}

Event(type, sender, target, state) ==
  [type |-> type, sender |-> sender, target |-> target, state |-> state]

Events == [type : EventTypes, sender : Conns, target : Conns, state : MediaStates]

Unknown == [p \in Conns |-> NoPeer]
Known(c) == {p \in Conns : view[c][p] # NoPeer}
MutEveryRoom(r) == {c \in Conns : pc[c] \in Listening}
Subscribers(r) == {c \in Conns : room[c] = r /\ pc[c] \in Listening}

(***************************************************************************)
(* Directed messages (Offer, Answer, IceCandidate, Renegotiate) go only to *)
(* their target and nobody hears an event of its own.  The target of an    *)
(* undirected event is its sender.                                         *)
(***************************************************************************)
ShouldDeliver(c, e) ==
  /\ e.sender # c
  /\ e.type = "Signal" => e.target = c

(* Sending to a full broadcast channel overwrites what the slowest receiver has not read. *)
MutUnbounded(q, e) == Append(q, e)
Push(q, e) == Append(IF Len(q) < ChannelCapacity THEN q ELSE Tail(q), e)

(* The channel after an event is sent to `receivers`. *)
Broadcast(receivers, e) ==
  /\ events' = [c \in Conns |-> IF c \in receivers THEN Push(events[c], e) ELSE events[c]]
  /\ lag' = [c \in Conns |-> IF c \in receivers /\ Len(events[c]) >= ChannelCapacity
                             THEN "pending" ELSE lag[c]]

(* What the client knows after message e: peers come and go, a MediaState  *)
(* only touches a peer it knows.                                           *)
Told(v, e) ==
  CASE e.type = "PeerJoined" -> [v EXCEPT ![e.sender] = e.state]
    [] e.type = "PeerLeft"   -> [v EXCEPT ![e.sender] = NoPeer]
    [] e.type = "MediaState" /\ v[e.sender] # NoPeer -> [v EXCEPT ![e.sender] = e.state]
    [] OTHER -> v

(* The `peers` join clones under the lock; the RoomState snapshot is they and the joiner. *)
MutSnapshotDefaults(r) ==
  [p \in Conns |-> IF p \in peers[r] THEN DefaultMedia ELSE NoPeer]
Snapshot(r) == [p \in Conns |-> IF p \in peers[r] THEN media[p] ELSE NoPeer]

HasRoom(r) == Cardinality(peers[r]) < MaxRoomSize

(* leave: who remains, and the keys of the registry then. *)
Remaining(r, c) == peers[r] \ {c}

MutNeverRemove(r, left) == live
LiveAfterLeave(r, left) == IF left = {} THEN live \ {r} ELSE live

(* Who is subscribed when PeerJoined is sent: the joiner already is. *)
JoinReceivers(c) == Subscribers(room[c]) \cup {c}

-----------------------------------------------------------------------------
Init ==
  /\ live = {}
  /\ peers = [r \in RoomIds |-> {}]
  /\ media = [c \in Conns |-> DefaultMedia]
  /\ room = [c \in Conns |-> NoRoom]
  /\ pc = [c \in Conns |-> "new"]
  /\ pending = [c \in Conns |-> DefaultMedia]
  /\ events = [c \in Conns |-> <<>>]
  /\ lag = [c \in Conns |-> "none"]
  /\ view = [c \in Conns |-> Unknown]
  /\ sent = [c \in Conns |-> 0]

Goto(c, from, to) == pc[c] = from /\ pc' = [pc EXCEPT ![c] = to]

(* The receiver is dropped (or never read again) and the client is on its own. *)
Detach(c) ==
  /\ events' = [events EXCEPT ![c] = <<>>]
  /\ lag' = [lag EXCEPT ![c] = "none"]
  /\ view' = [view EXCEPT ![c] = Unknown]
  /\ pending' = [pending EXCEPT ![c] = DefaultMedia]

(* GET /ws/:room_id with a valid id: upgraded. *)
Upgrade(c, r) ==
  /\ Goto(c, "new", "handshake")
  /\ room' = [room EXCEPT ![c] = r]
  /\ UNCHANGED <<registry, pending, events, lag, view, sent>>

(* receive_join returned None: timeout, socket end, any first message that *)
(* is not a JoinRoom for this room.                                        *)
HandshakeFails(c) ==
  /\ Goto(c, "handshake", "refused")
  /\ UNCHANGED <<registry, room, pending, events, lag, view, sent>>

(* RoomManager::join: one critical section of the write lock. *)
Join(c) ==
  LET r == room[c] IN
  /\ Goto(c, "handshake", "joined")
  /\ HasRoom(r)
  /\ live' = live \cup {r}
  /\ peers' = [peers EXCEPT ![r] = @ \cup {c}]
  /\ media' = [media EXCEPT ![c] = DefaultMedia]
  /\ view' = [view EXCEPT ![c] = [Snapshot(r) EXCEPT ![c] = DefaultMedia]]
  /\ Broadcast(JoinReceivers(c), Event("PeerJoined", c, c, DefaultMedia))
  /\ UNCHANGED <<room, pending, sent>>

(* join found the room full: RoomFull is sent and the task returns. *)
JoinFull(c) ==
  /\ Goto(c, "handshake", "refused")
  /\ ~HasRoom(room[c])
  /\ live' = live \cup {room[c]}
  /\ UNCHANGED <<peers, media, room, pending, events, lag, view, sent>>

(* The snapshot reaches the client; the relay loop starts. *)
SendRoomState(c) ==
  /\ Goto(c, "joined", "relay")
  /\ UNCHANGED <<registry, room, pending, events, lag, view, sent>>

(* The snapshot cannot be sent: handle_socket returns at once. *)
SendRoomStateFails(c) ==
  /\ Goto(c, "joined", "gone")
  /\ Detach(c)
  /\ UNCHANGED <<registry, room, sent>>

(* handle_client_message, MediaState: the first half stores the state,     *)
(* when the message claims the sender's own id.                            *)
RecvMediaState(c, state, own) ==
  /\ Goto(c, "relay", "publishing")
  /\ sent[c] < MaxMessages
  /\ sent' = [sent EXCEPT ![c] = @ + 1]
  /\ media' = IF own /\ c \in peers[room[c]] THEN [media EXCEPT ![c] = state] ELSE media
  /\ pending' = [pending EXCEPT ![c] = state]
  /\ UNCHANGED <<live, peers, room, events, lag, view>>

(* The second half publishes it under the sender's authenticated id. *)
PublishMediaState(c) ==
  /\ Goto(c, "publishing", "relay")
  /\ Broadcast(Subscribers(room[c]), Event("MediaState", c, c, pending[c]))
  /\ pending' = [pending EXCEPT ![c] = DefaultMedia]
  /\ UNCHANGED <<registry, room, view, sent>>

(* Relays whose handling is a single publish. *)
RecvPublished(c, type, target) ==
  /\ pc[c] = "relay"
  /\ sent[c] < MaxMessages
  /\ sent' = [sent EXCEPT ![c] = @ + 1]
  /\ Broadcast(Subscribers(room[c]), Event(type, c, target, DefaultMedia))
  /\ UNCHANGED <<registry, room, pc, pending, view>>

RecvChat(c) == RecvPublished(c, "Chat", c)
RecvSignal(c, target) == RecvPublished(c, "Signal", target)

(* recv reports an overrun once, then continues with the oldest event kept. *)
ObserveLag(c) ==
  /\ pc[c] = "relay"
  /\ lag[c] = "pending"
  /\ lag' = [lag EXCEPT ![c] = "reported"]
  /\ UNCHANGED <<registry, room, pc, pending, events, view, sent>>

(* One event of the room goes to the client, or is filtered out. *)
Deliver(c) ==
  /\ pc[c] = "relay"
  /\ lag[c] # "pending"
  /\ events[c] # <<>>
  /\ events' = [events EXCEPT ![c] = Tail(@)]
  /\ view' = IF ShouldDeliver(c, Head(events[c]))
             THEN [view EXCEPT ![c] = Told(@, Head(events[c]))] ELSE view
  /\ UNCHANGED <<registry, room, pc, pending, lag, sent>>

(* The relay loop breaks: socket end, a send error, Close, LeaveRoom.  (So *)
(* would it on a closed channel, which SubscriberIsMember rules out.)      *)
Break(c) ==
  /\ Goto(c, "relay", "closing")
  /\ Detach(c)
  /\ UNCHANGED <<registry, room, sent>>

(* RoomManager::leave: one critical section of the write lock. *)
Leave(c) ==
  LET r == room[c]
      left == Remaining(r, c) IN
  /\ Goto(c, "closing", "gone")
  /\ live' = LiveAfterLeave(r, left)
  /\ peers' = [peers EXCEPT ![r] = IF r \in live' THEN left ELSE {}]
  /\ IF c \in peers[r]
     THEN Broadcast(Subscribers(r), Event("PeerLeft", c, c, DefaultMedia))
     ELSE UNCHANGED <<events, lag>>
  /\ UNCHANGED <<media, room, pending, view, sent>>

Next ==
  \E c \in Conns :
    \/ \E r \in RoomIds : Upgrade(c, r)
    \/ HandshakeFails(c)
    \/ Join(c)
    \/ JoinFull(c)
    \/ SendRoomState(c)
    \/ SendRoomStateFails(c)
    \/ \E state \in MediaStates, own \in Claims : RecvMediaState(c, state, own)
    \/ PublishMediaState(c)
    \/ RecvChat(c)
    \/ \E target \in Conns \ {c} : RecvSignal(c, target)
    \/ ObserveLag(c)
    \/ Deliver(c)
    \/ Break(c)
    \/ Leave(c)

Spec == Init /\ [][Next]_vars

(* tokio runs every ready task, the RwLock is fair and select! picks among  *)
(* ready branches at random.  What clients send, and when they go, is not   *)
(* assumed.                                                                 *)
Fairness ==
  \A c \in Conns :
    /\ WF_vars(SendRoomState(c) \/ SendRoomStateFails(c))
    /\ WF_vars(PublishMediaState(c))
    /\ WF_vars(ObserveLag(c))
    /\ WF_vars(Deliver(c))
    /\ WF_vars(Leave(c))

FairSpec == Spec /\ Fairness

-----------------------------------------------------------------------------
(* The types, and that no queue outgrows the ring of the channel. *)
TypeOK ==
  /\ live \subseteq RoomIds
  /\ peers \in [RoomIds -> SUBSET Conns]
  /\ media \in [Conns -> MediaStates]
  /\ room \in [Conns -> RoomIds \cup {NoRoom}]
  /\ pc \in [Conns -> Stages]
  /\ pending \in [Conns -> MediaStates]
  /\ events \in [Conns -> Seq(Events)]
  /\ \A c \in Conns : Len(events[c]) <= ChannelCapacity
  /\ lag \in [Conns -> {"none", "pending", "reported"}]
  /\ view \in [Conns -> [Conns -> MediaStates \cup {NoPeer}]]
  /\ sent \in [Conns -> 0..MaxMessages]

(* No interleaving of joins, leaves and failures fills a room beyond       *)
(* MAX_ROOM_SIZE (the check and the insertion of join, room.rs).           *)
RoomWithinCapacity == \A r \in RoomIds : Cardinality(peers[r]) <= MaxRoomSize

(* The registry holds exactly the rooms somebody is in: an emptied room is *)
(* deleted, and nobody is in a room that is not registered (room.rs).      *)
NoEmptyRooms == live = {r \in RoomIds : peers[r] # {}}

(* A connection that is served belongs to its room: nobody deletes a room, *)
(* and with it the channel, under a subscriber.  So RecvError::Closed in   *)
(* the relay loop cannot happen before the connection's own leave, nor can *)
(* publish and update_media_state miss the room or the entry.              *)
SubscriberIsMember ==
  \A c \in Conns : pc[c] \in Listening \cup {"closing"} => c \in peers[room[c]]

(* The registry is sound whatever joins, leaves and fails in whatever order: *)
(* no room overfilled, none left without members or deleted under them.    *)
RegistryIsConsistent == RoomWithinCapacity /\ NoEmptyRooms /\ SubscriberIsMember

(* What is queued for c about p from position i on. *)
Queued(c, p, type) == {i \in DOMAIN events[c] : events[c][i].sender = p /\ events[c][i].type = type}

(* A client that was not overrun hears of a peer before it hears from it,  *)
(* once, and hears nothing from it after it left: the subscription of join *)
(* and the order of the channel leave no gap between snapshot and events.  *)
NoStrangers ==
  \A c \in Conns : pc[c] \in Listening /\ lag[c] = "none" =>
    \A i \in DOMAIN events[c] :
      LET e == events[c][i]
          before == {j \in 1..(i - 1) : events[c][j].sender = e.sender}
          told == \E j \in before : events[c][j].type = "PeerJoined" IN
      e.sender # c =>
        /\ \A j \in before : events[c][j].type # "PeerLeft"
        /\ (e.type = "PeerJoined") # (e.sender \in Known(c) \/ told)

(* Whom c's client will know once it has read its queue. *)
KnownAfter(c) ==
  {p \in Conns : /\ p \in Known(c) \/ Queued(c, p, "PeerJoined") # {}
                 /\ Queued(c, p, "PeerLeft") = {}}

(* Snapshot plus queued events is always the true membership of the room,  *)
(* whatever joined or left between the snapshot and its delivery: no peer  *)
(* is missed, none lingers (join under one write lock, room.rs).           *)
ViewsConverge ==
  \A c \in Conns : pc[c] \in Listening /\ lag[c] = "none" =>
    KnownAfter(c) \ {c} = peers[room[c]] \ {c}

(* The media state c's client will show for p once it has read its queue. *)
MediaAfter(c, p) ==
  LET said == Queued(c, p, "MediaState") \cup Queued(c, p, "PeerJoined") IN
  IF said = {} THEN view[c][p]
  ELSE events[c][CHOOSE i \in said : \A j \in said : j <= i].state

(* Early members, told by broadcasts, and late joiners, told by the        *)
(* snapshot, end up with the same media state of p: update_media_state     *)
(* `keeps RoomState snapshots fresh for late joiners` (room.rs).           *)
MediaConverges ==
  \A c, p \in Conns :
    /\ pc[c] \in Listening /\ lag[c] = "none"
    /\ p # c /\ p \in peers[room[c]] /\ pc[p] # "publishing"
    => MediaAfter(c, p) = media[p]

(* What a client that was not overrun shows when it has read its queue is  *)
(* the room: who is in it, with what media, hearing of nobody before it    *)
(* joined or after it left (join, publish and leave of room.rs).           *)
ClientsSeeTheRoom == NoStrangers /\ ViewsConverge /\ MediaConverges

(***************************************************************************)
(* The server implements Presence: a connection that joined is a peer that *)
(* entered, at the critical section of join, and its client shows what the *)
(* snapshot and the events read since tell it.                             *)
(***************************************************************************)
Entered == {"joined", "relay", "publishing", "closing", "gone"}

Home == [c \in Conns |-> IF pc[c] \in Entered THEN room[c] ELSE NoRoom]
Shown == [c \in Conns |-> Known(c)]

Promise == INSTANCE Presence WITH
  Peers <- Conns, Nowhere <- NoRoom, Capacity <- MaxRoomSize,
  home <- Home, members <- peers, known <- Shown

KeepsPromise == Promise!Spec

(* A connection whose task is over has left its room: `then the relay      *)
(* loop, then cleanup` (handler.rs, handle_socket).                        *)
NoGhosts == \A c \in Conns : pc[c] = "gone" => \A r \in RoomIds : c \notin peers[r]

(* A client in the relay loop is told of every member, and forgets every   *)
(* peer that left, unless it was overrun or goes away itself.              *)
ViewsCatchUp ==
  \A c \in Conns : \A p \in Conns \ {c} : \A r \in RoomIds :
    /\ (pc[c] = "relay" /\ room[c] = r /\ p \in peers[r])
         ~> (p \in Known(c) \/ p \notin peers[r] \/ pc[c] \in {"closing", "gone"} \/ lag[c] # "none")
    /\ (p \in Known(c) /\ p \notin peers[r] /\ room[c] = r)
         ~> (p \notin Known(c) \/ lag[c] # "none")
=============================================================================
