------------------------------- MODULE Session -------------------------------
(***************************************************************************)
(* The native application, App::run of zancord-app (app.rs), with the part *)
(* of MeshManager (mesh.rs) that it calls: who it is, which peers it is    *)
(* connected to, which tiles it shows, and what it captures, across joins, *)
(* leaves, reconnects and captures that do not start or end by themselves. *)
(*                                                                         *)
(* The application is one task: a select loop whose handlers run to their  *)
(* end before the next event is taken.  The only handler that lasts while  *)
(* others observe it is one that opens a capture device or the picker of a *)
(* screen (spawn_blocking), so a handler is one action up to that point    *)
(* and another from there.                                                 *)
(*                                                                         *)
(* The server and the signaling client are external here, and modelled by  *)
(* what SignalingServer and SignalingClient promise: events arrive in      *)
(* order, a lost connection loses a suffix of what was to arrive and a     *)
(* prefix of what was sent, and every connection has a fresh id.  Our id   *)
(* on the k-th connection is k.  The signals of WebRTC are in Negotiation. *)
(***************************************************************************)
EXTENDS Naturals, Sequences, FiniteSets

CONSTANTS
  Peers,           \* ids of the others; an id is used once
  SameName,        \* those of them who chose our user name
  RoomSize,        \* MAX_ROOM_SIZE
  MeshCapacity,    \* MESH_CAPACITY
  GhostsLinger,    \* may we be back before the server noticed the loss?
  MaxConnections,  \* bound: our connections
  MaxToggles       \* bound: what the user does and captures that end

ASSUME SessionAssumption ==
  /\ IsFiniteSet(Peers) /\ Peers \cap Nat = {}
  /\ SameName \subseteq Peers
  /\ RoomSize \in Nat \ {0}
  /\ MeshCapacity \in Nat /\ RoomSize <= MeshCapacity + 1
  /\ GhostsLinger \in BOOLEAN
  /\ MaxConnections \in Nat \ {0} /\ MaxToggles \in Nat

VARIABLES
  (* the server and the way to it *)
  room,        \* the ids in the room
  past,        \* peers that have left
  stored,      \* what the server has as our media state
  conn,        \* connections so far
  up,          \* the last of them works
  inbox,       \* what is on its way to the application
  outbox,      \* the media states on their way to the server
  (* the application *)
  running,     \* App::run has not returned
  self,        \* self_id, the mesh's local_id
  local,       \* local_state: what is on
  sessions,    \* camera_session, screen_share: what is held
  ended,       \* those of them whose thread has ended by itself
  starting,    \* the captures this handler is to start, the first of them now
  rebuilding,  \* the handler is rebuild_for_reconnect
  (* its mesh *)
  mesh,        \* peers
  armed,       \* camera_enabled, screen_enabled
  unclaimed,   \* peers whose incoming channels nobody took
  news,        \* the mesh's events the application has not read
  overrun,     \* some of them were overwritten
  tiles,       \* how many tiles are shown for an id
  toggles

server == <<room, past, stored, conn, up>>
media == <<local, sessions, ended, starting, rebuilding, armed>>
view == <<mesh, unclaimed, news, overrun, tiles>>
vars == <<server, inbox, outbox, running, self, media, view, toggles>>

Kinds == {"camera", "screen"}
OwnIds == 1..MaxConnections
Ids == Peers \cup OwnIds

RoomState(id, ids) == [type |-> "RoomState", id |-> id, ids |-> ids]
PeerJoined(id) == [type |-> "PeerJoined", id |-> id, ids |-> {}]
PeerLeft(id) == [type |-> "PeerLeft", id |-> id, ids |-> {}]
RoomFull == [type |-> "RoomFull", id |-> 0, ids |-> {}]
MediaState(id, on) == [id |-> id, on |-> on]

(* MeshEvent, but for MediaState and IceStateChanged, which change only     *)
(* what a tile shows.                                                       *)
Connected(id) == [type |-> "PeerConnected", id |-> id]
Disconnected(id) == [type |-> "PeerDisconnected", id |-> id]

NoTiles == [id \in Ids |-> 0]

Orders(S) == {q \in [1..Cardinality(S) -> S] : \A i, j \in DOMAIN q : q[i] = q[j] => i = j}
Joins(order) == [i \in DOMAIN order |-> Connected(order[i])]

(* The mesh's broadcast channel. *)
Tell(es) == news' = news \o es /\ UNCHANGED overrun

(* Everything has been delivered and handled, except events of the mesh. *)
Quiet == running /\ up /\ starting = <<>> /\ inbox = <<>> /\ outbox = <<>>

(* RoomState lists the others first, in any order, and the newcomer last;   *)
(* the first with our name is taken for us.                                 *)
Selves(m) ==
  LET others == (m.ids \ {m.id}) \cap (SameName \cup OwnIds) IN
  IF others = {} THEN {m.id} ELSE others

(* What run does before its loop: the room has been entered,                *)
(* wait_for_room_state found us in the list, the mesh was subscribed to and *)
(* has taken the others.                                                    *)
Init ==
  /\ room \in {{1} \cup others : others \in SUBSET Peers} /\ Cardinality(room) <= RoomSize
  /\ past = {} /\ stored = {} /\ conn = 1 /\ up = TRUE
  /\ inbox = <<>> /\ outbox = <<>>
  /\ running = TRUE /\ self \in Selves(RoomState(1, room))
  /\ local = {} /\ sessions = {} /\ ended = {} /\ starting = <<>> /\ rebuilding = FALSE /\ armed = {}
  /\ mesh = room \ {self} /\ unclaimed = mesh
  /\ \E order \in Orders(mesh) : news = Joins(order)
  /\ overrun = FALSE
  /\ tiles = NoTiles
  /\ toggles = 0

-----------------------------------------------------------------------------
(* The others, the server and the network, as long as the application runs. *)

Send(m) == inbox' = IF up THEN Append(inbox, m) ELSE inbox

PeerJoins(p) ==
  /\ running /\ p \in Peers \ (room \cup past)
  /\ Cardinality(room) < RoomSize
  /\ room' = room \cup {p}
  /\ Send(PeerJoined(p))
  /\ UNCHANGED <<past, stored, conn, up, outbox, running, self, media, view, toggles>>

PeerLeaves(p) ==
  /\ running /\ p \in room \cap Peers
  /\ room' = room \ {p}
  /\ past' = past \cup {p}
  /\ Send(PeerLeft(p))
  /\ UNCHANGED <<stored, conn, up, outbox, running, self, media, view, toggles>>

ConnectionBreaks ==
  /\ running /\ up
  /\ up' = FALSE
  /\ \E k \in 0..Len(inbox) : inbox' = SubSeq(inbox, 1, k)
  /\ \E k \in 1..(Len(outbox) + 1) : outbox' = SubSeq(outbox, k, Len(outbox))
  /\ UNCHANGED <<room, past, stored, conn, running, self, media, view, toggles>>

(* The connection task of an id of ours that is no longer in use ends. *)
ServerNoticesLoss(id) ==
  /\ running /\ id \in room \cap OwnIds
  /\ id # conn \/ ~up
  /\ room' = room \ {id}
  /\ Send(PeerLeft(id))
  /\ UNCHANGED <<past, stored, conn, up, outbox, running, self, media, view, toggles>>

Reconnect ==
  /\ running /\ ~up /\ conn < MaxConnections
  /\ GhostsLinger \/ room \cap OwnIds = {}
  /\ IF Cardinality(room) < RoomSize
     THEN /\ conn' = conn + 1
          /\ up' = TRUE
          /\ room' = room \cup {conn'}
          /\ stored' = {}
          /\ inbox' = Append(inbox, RoomState(conn', room'))
     ELSE /\ ~\E i \in DOMAIN inbox : inbox[i] = RoomFull
          /\ inbox' = Append(inbox, RoomFull)
          /\ UNCHANGED <<conn, up, room, stored>>
  /\ UNCHANGED <<past, outbox, running, self, media, view, toggles>>

(* Only the owner's entry is updated (handler.rs, MediaState). *)
ServerStores ==
  /\ running /\ up /\ outbox # <<>>
  /\ stored' = IF Head(outbox).id = conn THEN Head(outbox).on ELSE stored
  /\ outbox' = Tail(outbox)
  /\ UNCHANGED <<room, past, conn, up, inbox, running, self, media, view, toggles>>

(* The channel holds 32 events.  Those that are not in news (state changes  *)
(* of ICE come from callbacks at any time) can overwrite the oldest that is *)
(* not read yet.                                                            *)
Overwrite ==
  /\ running /\ news # <<>>
  /\ news' = Tail(news)
  /\ overrun' = TRUE
  /\ UNCHANGED <<server, inbox, outbox, running, self, media, mesh, unclaimed, tiles, toggles>>

-----------------------------------------------------------------------------
(* run: one branch of the select. *)

Ready == running /\ starting = <<>>
Take(type) == Ready /\ inbox # <<>> /\ Head(inbox).type = type /\ inbox' = Tail(inbox)

(* handle_peer_joined for those not connected yet, as far as there is room. *)
Add(ids) ==
  LET new == ids \ mesh IN
  \E joining \in SUBSET new :
    /\ Cardinality(mesh \cup joining) <= MeshCapacity
    /\ joining # new => Cardinality(mesh \cup joining) = MeshCapacity
    /\ mesh' = mesh \cup joining
    /\ unclaimed' = unclaimed \cup joining
    /\ \E order \in Orders(joining) : Tell(Joins(order))

HandlePeerJoined ==
  /\ Take("PeerJoined")
  /\ LET p == Head(inbox).id IN
     IF p = self THEN UNCHANGED <<mesh, unclaimed, news, overrun>> ELSE Add({p})
  /\ UNCHANGED <<server, outbox, running, self, media, tiles, toggles>>

(* The tile goes at once, and again when the mesh says so. *)
WithoutTile(p) == [tiles EXCEPT ![p] = 0]
MutKeepChannels(p) == unclaimed
WithoutChannels(p) == unclaimed \ {p}
HandlePeerLeft ==
  /\ Take("PeerLeft")
  /\ LET p == Head(inbox).id IN
     /\ mesh' = mesh \ {p}
     /\ unclaimed' = WithoutChannels(p)
     /\ Tell(IF p \in mesh THEN <<Disconnected(p)>> ELSE <<>>)
     /\ tiles' = WithoutTile(p)
  /\ UNCHANGED <<server, outbox, running, self, media, toggles>>

(* rebuild_for_reconnect, up to the first capture it starts again. *)
SubscribeFirst(es) == news' = es /\ overrun' = FALSE
LiveMedia ==
  (IF "camera" \in local THEN <<"camera">> ELSE <<>>)
    \o (IF "screen" \in local THEN <<"screen">> ELSE <<>>)
FreshState(id) == Append(outbox, MediaState(id, local))
MutWithSelf(ids, id) == ids
Others(ids, id) == ids \ {id}
Rebuild(id, ids) ==
  LET others == Others(ids, id) IN
  \E joining \in SUBSET others :
    /\ Cardinality(joining) <= MeshCapacity
    /\ joining # others => Cardinality(joining) = MeshCapacity
    /\ mesh' = joining
    /\ unclaimed' = joining
    /\ \E order \in Orders(joining) : SubscribeFirst(Joins(order))
    /\ self' = id
    /\ tiles' = NoTiles
    /\ sessions' = {} /\ ended' = {}
    /\ starting' = LiveMedia
    /\ armed' = IF starting' = <<>> THEN {} ELSE {Head(starting')}
    /\ rebuilding' = (starting' # <<>>)
    /\ outbox' = IF starting' = <<>> THEN FreshState(id) ELSE outbox
    /\ UNCHANGED <<local, running>>

(* The same id: a peer the mesh has no place for ends the application. *)
JoinListed(ids) ==
  /\ running' = (Cardinality(mesh \cup Others(ids, self)) <= MeshCapacity)
  /\ Add(Others(ids, self))
  /\ UNCHANGED <<self, tiles, media, outbox>>

HandleRoomState ==
  /\ Take("RoomState")
  /\ \E id \in Selves(Head(inbox)) :
       IF id = self THEN JoinListed(Head(inbox).ids) ELSE Rebuild(id, Head(inbox).ids)
  /\ UNCHANGED <<server, toggles>>

HandleRoomFull ==
  /\ Take("RoomFull")
  /\ running' = FALSE
  /\ UNCHANGED <<server, outbox, self, media, view, toggles>>

(* PeerConnected: the incoming channels of a peer that is still there are   *)
(* claimed, and it gets a tile, there or not.                               *)
HandleMeshEvent ==
  /\ Ready /\ news # <<>>
  /\ news' = Tail(news)
  /\ LET e == Head(news) IN
     \/ /\ e.type = "PeerConnected"
        /\ unclaimed' = unclaimed \ {e.id}
        /\ tiles' = [tiles EXCEPT ![e.id] = @ + 1]
     \/ /\ e.type = "PeerDisconnected"
        /\ tiles' = WithoutTile(e.id)
        /\ UNCHANGED unclaimed
  /\ UNCHANGED <<server, inbox, outbox, running, self, media, mesh, overrun, toggles>>

-----------------------------------------------------------------------------
(* Commands of the user. *)

Command == Ready /\ toggles < MaxToggles /\ toggles' = toggles + 1

SwitchOff(kind) ==
  /\ Command /\ kind \in local
  /\ local' = local \ {kind}
  /\ armed' = armed \ {kind}
  /\ sessions' = sessions \ {kind} /\ ended' = ended \ {kind}
  /\ outbox' = Append(outbox, MediaState(self, local'))
  /\ UNCHANGED <<server, inbox, running, self, starting, rebuilding, view>>

SwitchOn(kind) ==
  /\ Command /\ kind \in Kinds \ local
  /\ local' = local \cup {kind}
  /\ armed' = armed \cup {kind}
  /\ outbox' = Append(outbox, MediaState(self, local'))
  /\ starting' = <<kind>>
  /\ UNCHANGED <<server, inbox, running, self, sessions, ended, rebuilding, view>>

(* SelectCamera, SelectScreenSource: the session is replaced. *)
SelectSource(kind) ==
  /\ Command /\ kind \in local
  /\ sessions' = sessions \ {kind} /\ ended' = ended \ {kind}
  /\ armed' = armed \cup {kind}  \* off and on again
  /\ starting' = <<kind>>
  /\ UNCHANGED <<server, inbox, outbox, running, self, local, rebuilding, view>>

Leave ==
  /\ Command
  /\ running' = FALSE
  /\ UNCHANGED <<server, inbox, outbox, self, media, view>>

(* The device or the picker answers: start_camera_session and               *)
(* start_screen_session, and what follows in a rebuild.                     *)
Disarmed(kind) == armed \ {kind}
MutSilentFailure == <<>>
Reverted == <<MediaState(self, local')>>
NextStart(on) ==
  /\ starting' = Tail(starting)
  /\ armed' = on \cup (IF starting' = <<>> THEN {} ELSE {Head(starting')})
  /\ rebuilding' = (rebuilding /\ starting' # <<>>)
FinalState == IF rebuilding /\ ~rebuilding' THEN <<MediaState(self, local')>> ELSE <<>>

CaptureStarts ==
  /\ running /\ starting # <<>>
  /\ sessions' = sessions \cup {Head(starting)}
  /\ NextStart(armed)
  /\ UNCHANGED <<local, ended>>
  /\ outbox' = outbox \o FinalState
  /\ UNCHANGED <<server, inbox, running, self, view, toggles>>

CaptureFails ==
  /\ running /\ starting # <<>>
  /\ local' = local \ {Head(starting)}
  /\ NextStart(Disarmed(Head(starting)))
  /\ outbox' = outbox \o Reverted \o FinalState
  /\ UNCHANGED <<server, inbox, running, self, sessions, ended, view, toggles>>

(* The thread of a capture ends by itself: the device is lost, the shared   *)
(* window closed, the encoder fails.  It warns, and the application keeps   *)
(* the session and all that says it is on.                                  *)
CaptureEnds(kind) ==
  /\ running /\ kind \in sessions \ ended /\ toggles < MaxToggles
  /\ toggles' = toggles + 1
  /\ ended' = ended \cup {kind}
  /\ UNCHANGED <<server, inbox, outbox, running, self, view>>
  /\ UNCHANGED <<local, sessions, starting, rebuilding, armed>>

-----------------------------------------------------------------------------
Handlers ==
  \/ HandlePeerJoined \/ HandlePeerLeft \/ HandleRoomState \/ HandleRoomFull
  \/ CaptureStarts \/ CaptureFails

User == Leave \/ \E kind \in Kinds : SwitchOff(kind) \/ SwitchOn(kind) \/ SelectSource(kind)

Environment ==
  \/ \E p \in Peers : PeerJoins(p) \/ PeerLeaves(p)
  \/ \E id \in OwnIds : ServerNoticesLoss(id)
  \/ \E kind \in Kinds : CaptureEnds(kind)
  \/ ConnectionBreaks \/ Reconnect \/ ServerStores \/ Overwrite

Next == Handlers \/ HandleMeshEvent \/ User \/ Environment

Spec == Init /\ [][Next]_vars

-----------------------------------------------------------------------------
Messages ==
  [type : {"RoomState", "PeerJoined", "PeerLeft"}, id : Ids, ids : SUBSET Ids] \cup {RoomFull}
Events == [type : {"PeerConnected", "PeerDisconnected"}, id : Ids]

(* The types, and that the mesh keeps to its capacity.                      *)
TypeOK ==
  /\ room \subseteq Ids /\ past \subseteq Peers /\ stored \subseteq Kinds
  /\ conn \in OwnIds /\ up \in BOOLEAN
  /\ inbox \in Seq(Messages)
  /\ outbox \in Seq([id : Ids, on : SUBSET Kinds])
  /\ running \in BOOLEAN /\ self \in Ids
  /\ local \subseteq Kinds /\ sessions \subseteq Kinds /\ armed \subseteq Kinds
  /\ ended \subseteq sessions
  /\ starting \in Seq(Kinds) /\ rebuilding \in BOOLEAN
  /\ mesh \subseteq Ids /\ Cardinality(mesh) <= MeshCapacity
  /\ unclaimed \subseteq mesh
  /\ news \in Seq(Events)
  /\ overrun \in BOOLEAN
  /\ tiles \in [Ids -> Nat]

(* Between two events, what the application says it sends is what the mesh  *)
(* sends and what it holds a session for, however captures fail and         *)
(* connections break (`the mesh track + media state are reverted`,          *)
(* start_camera_session).  The thread of such a session may have ended.     *)
MediaAgrees == Ready => local = armed /\ local = sessions

(* Not true: what is said to be on is captured (`camera closed (stop or     *)
(* device lost)`, camera.rs): a capture that ends by itself tells nobody.   *)
CapturesWhatItSays == Ready => local = sessions \ ended

(* When all has been delivered, the server has the state that is shown to   *)
(* late joiners (`Fresh state for the server`, rebuild_for_reconnect); from *)
(* an application that took somebody else for itself it has nothing.        *)
ServerKnowsMedia == Quiet => stored = IF self = conn THEN local ELSE {}

(* What the application says, sends and has opened agree, and so does what  *)
(* the others are told (start_camera_session, start_screen_session,         *)
(* rebuild_for_reconnect).                                                  *)
MediaIsKnown == MediaAgrees /\ ServerKnowsMedia

(* When all has been delivered to an application that knows who it is, the  *)
(* mesh holds the others in the room: no peer of an earlier connection,     *)
(* none that left, none missing.                                            *)
MeshIsRoom == Quiet /\ self = conn => mesh = room \ {conn}

(* When all has been delivered, we are who the server says (handle_signal:  *)
(* `our old id is gone after a reconnect`).                                 *)
SelfIsCurrent == Quiet => self = conn

(* Once the mesh's events are handled, every peer has one tile and its      *)
(* channels are claimed (`a lost PeerConnected means that peer's incoming   *)
(* channels are never claimed`), and no tile is left of anybody else,       *)
(* unless events were overwritten.                                          *)
TilesMatch ==
  news = <<>> /\ ~overrun =>
    /\ unclaimed = {}
    /\ \A id \in Ids : tiles[id] = (IF id \in mesh THEN 1 ELSE 0)

(* What the application shows is what it is connected to, and that is the   *)
(* room (handle_signal, rebuild_for_reconnect, handle_mesh_event).          *)
ViewIsRoom == MeshIsRoom /\ TilesMatch
=============================================================================
