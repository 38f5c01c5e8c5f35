---------------------------- MODULE SessionProofs ----------------------------
(* Proofs about the native application, for any peers, capacities, bounds   *)
(* and namesakes, and whether or not the server keeps ghosts.               *)
EXTENDS Session, FiniteSetTheorems, SequenceTheorems, TLAPS

(***************************************************************************)
(* While a handler waits for a capture to start, what the application says *)
(* is what it holds a session for and all it is still to start, and the    *)
(* mesh sends in addition only what is being started now.                  *)
(***************************************************************************)
ToStart == {starting[i] : i \in DOMAIN starting}

MediaInv ==
  /\ local \subseteq Kinds
  /\ starting \in {<<>>, <<"camera">>, <<"screen">>, <<"camera", "screen">>}
  /\ ToStart \subseteq local
  /\ sessions = local \ ToStart
  /\ armed = sessions \cup (IF starting = <<>> THEN {} ELSE {starting[1]})

(* The queue of captures, by cases. *)
LEMMA StartingCases ==
  /\ starting = <<>> => ToStart = {}
  /\ starting = <<"camera">> => ToStart = {"camera"} /\ starting[1] = "camera"
       /\ Head(starting) = "camera" /\ Tail(starting) = <<>> /\ starting # <<>>
  /\ starting = <<"screen">> => ToStart = {"screen"} /\ starting[1] = "screen"
       /\ Head(starting) = "screen" /\ Tail(starting) = <<>> /\ starting # <<>>
  /\ starting = <<"camera", "screen">> =>
       ToStart = {"camera", "screen"} /\ starting[1] = "camera" /\ Head(starting) = "camera"
       /\ Tail(starting) = <<"screen">> /\ starting # <<>>
<1>1. CASE starting = <<>> BY <1>1 DEF ToStart
<1>2. CASE starting = <<"camera">> BY <1>2 DEF ToStart
<1>3. CASE starting = <<"screen">> BY <1>3 DEF ToStart
<1>4. CASE starting = <<"camera", "screen">> BY <1>4 DEF ToStart
<1> QED BY <1>1, <1>2, <1>3, <1>4

LEMMA StartingCasesNext ==
  /\ starting' = <<>> => ToStart' = {}
  /\ starting' = <<"camera">> => ToStart' = {"camera"} /\ starting'[1] = "camera"
       /\ Head(starting') = "camera" /\ starting' # <<>>
  /\ starting' = <<"screen">> => ToStart' = {"screen"} /\ starting'[1] = "screen"
       /\ Head(starting') = "screen" /\ starting' # <<>>
  /\ starting' = <<"camera", "screen">> =>
       ToStart' = {"camera", "screen"} /\ starting'[1] = "camera" /\ Head(starting') = "camera"
       /\ starting' # <<>>
<1>1. CASE starting' = <<>> BY <1>1 DEF ToStart
<1>2. CASE starting' = <<"camera">> BY <1>2 DEF ToStart
<1>3. CASE starting' = <<"screen">> BY <1>3 DEF ToStart
<1>4. CASE starting' = <<"camera", "screen">> BY <1>4 DEF ToStart
<1> QED BY <1>1, <1>2, <1>3, <1>4

LEMMA Pair ==
  ASSUME NEW S, NEW a \in S, NEW b \in S
  PROVE  <<a>> \o <<b>> = <<a, b>>
<1>1. <<a>> \in Seq(S) /\ <<b>> \in Seq(S) /\ <<a, b>> \in Seq(S) OBVIOUS
<1>2. <<a>> \o <<b>> \in Seq(S) /\ Len(<<a>> \o <<b>>) = 2 BY <1>1
<1>3. (<<a>> \o <<b>>)[1] = a /\ (<<a>> \o <<b>>)[2] = b BY <1>1
<1>4. Len(<<a, b>>) = 2 /\ <<a, b>>[1] = a /\ <<a, b>>[2] = b OBVIOUS
<1>5. \A i \in 1..2 : (<<a>> \o <<b>>)[i] = <<a, b>>[i]
  <2>1. \A i \in 1..2 : i = 1 \/ i = 2 OBVIOUS
  <2> QED BY <2>1, <1>3, <1>4
<1> QED BY <1>1, <1>2, <1>4, <1>5, SeqEqual

LEMMA MediaStep == MediaInv /\ [Next]_vars => MediaInv'
<1> SUFFICES ASSUME MediaInv, [Next]_vars PROVE MediaInv' OBVIOUS
<1> USE StartingCases, StartingCasesNext DEF MediaInv, Kinds
<1>1. CASE UNCHANGED <<local, sessions, starting, armed>>
  BY <1>1 DEF ToStart
<1>2. ASSUME NEW kind \in Kinds, SwitchOff(kind) PROVE MediaInv'
  BY <1>2 DEF SwitchOff, Command, Ready
<1>3. ASSUME NEW kind \in Kinds, SwitchOn(kind) PROVE MediaInv'
  BY <1>3 DEF SwitchOn, Command, Ready
<1>4. ASSUME NEW kind \in Kinds, SelectSource(kind) PROVE MediaInv'
  BY <1>4 DEF SelectSource, Command, Ready
<1>5. CASE CaptureStarts
  <2>1. CASE starting = <<"camera", "screen">> BY <1>5, <2>1 DEF CaptureStarts, NextStart
  <2>2. CASE starting # <<"camera", "screen">> BY <1>5, <2>2 DEF CaptureStarts, NextStart
  <2> QED BY <2>1, <2>2
<1>6. CASE CaptureFails
  <2>1. CASE starting = <<"camera", "screen">>
    BY <1>6, <2>1 DEF CaptureFails, NextStart, Disarmed
  <2>2. CASE starting # <<"camera", "screen">>
    BY <1>6, <2>2 DEF CaptureFails, NextStart, Disarmed
  <2> QED BY <2>1, <2>2
<1>7. CASE HandleRoomState
  <2>1. PICK id \in Selves(Head(inbox)) :
          IF id = self THEN JoinListed(Head(inbox).ids) ELSE Rebuild(id, Head(inbox).ids)
    BY <1>7 DEF HandleRoomState
  <2>2. CASE id = self
    BY <1>1, <2>1, <2>2 DEF JoinListed, media
  <2>3. CASE id # self
    <3>1. /\ sessions' = {} /\ starting' = LiveMedia /\ local' = local
          /\ armed' = IF starting' = <<>> THEN {} ELSE {Head(starting')}
      BY <2>1, <2>3 DEF Rebuild
    <3>2. /\ LiveMedia \in {<<>>, <<"camera">>, <<"screen">>, <<"camera", "screen">>}
          /\ LiveMedia = <<>> => local = {}
          /\ LiveMedia = <<"camera">> => local = {"camera"}
          /\ LiveMedia = <<"screen">> => local = {"screen"}
          /\ LiveMedia = <<"camera", "screen">> => local = {"camera", "screen"}
      <4>1. CASE "camera" \in local /\ "screen" \in local
        <5>1. LiveMedia = <<"camera", "screen">>
          <6>1. LiveMedia = <<"camera">> \o <<"screen">> BY <4>1 DEF LiveMedia
          <6>2. <<"camera">> \o <<"screen">> = <<"camera", "screen">> BY Pair
          <6> QED BY <6>1, <6>2
        <5> QED BY <4>1, <5>1
      <4>2. CASE "camera" \in local /\ "screen" \notin local
        <5>1. LiveMedia = <<"camera">> BY <4>2 DEF LiveMedia
        <5> QED BY <4>2, <5>1
      <4>3. CASE "camera" \notin local /\ "screen" \in local
        <5>1. LiveMedia = <<"screen">> BY <4>3 DEF LiveMedia
        <5> QED BY <4>3, <5>1
      <4>4. CASE "camera" \notin local /\ "screen" \notin local
        <5>1. LiveMedia = <<>> BY <4>4 DEF LiveMedia
        <5> QED BY <4>4, <5>1
      <4> QED BY <4>1, <4>2, <4>3, <4>4
    <3> QED BY <3>1, <3>2
  <2> QED BY <2>2, <2>3
<1>8. CASE Next
  <2>1. CASE HandlePeerJoined \/ HandlePeerLeft \/ HandleRoomFull \/ HandleMeshEvent \/ Leave
    BY <1>1, <2>1 DEF HandlePeerJoined, HandlePeerLeft, HandleRoomFull, HandleMeshEvent,
       Leave, media
  <2>2. CASE Environment
    BY <1>1, <2>2 DEF Environment, PeerJoins, PeerLeaves, ServerNoticesLoss,
       ConnectionBreaks, Reconnect, ServerStores, Overwrite, CaptureEnds, media
  <2> QED BY <1>2, <1>3, <1>4, <1>5, <1>6, <1>7, <1>8, <2>1, <2>2 DEF Next, Handlers, User
<1> QED BY <1>1, <1>8 DEF vars, media

(* Between two events the application says, sends and holds sessions for    *)
(* the same, whichever captures failed, were replaced or were restarted by  *)
(* how many reconnects (`the mesh track + media state are reverted`,        *)
(* app.rs).  The thread of a session that is held may have ended by itself. *)
THEOREM MediaAlwaysAgrees == Spec => []MediaAgrees
<1>1. Init => MediaInv
  BY StartingCases DEF Init, MediaInv, Kinds
<1>2. MediaInv => MediaAgrees
  BY StartingCases DEF MediaInv, MediaAgrees, Ready
<1> QED BY <1>1, <1>2, MediaStep, PTL DEF Spec
-----------------------------------------------------------------------------
(***************************************************************************)
(* The type invariant.  It is inductive; the parts about what is sent are  *)
(* separated from the parts about the mesh, which need cardinalities.      *)
(***************************************************************************)
States == [id : Ids, on : SUBSET Kinds]

WorldTypes ==
  /\ room \subseteq Ids /\ past \subseteq Peers /\ stored \subseteq Kinds
  /\ conn \in OwnIds /\ up \in BOOLEAN
  /\ inbox \in Seq(Messages)
  /\ outbox \in Seq(States)

AppTypes ==
  /\ running \in BOOLEAN /\ self \in Ids
  /\ local \subseteq Kinds /\ sessions \subseteq Kinds /\ armed \subseteq Kinds
  /\ ended \subseteq sessions
  /\ starting \in Seq(Kinds) /\ rebuilding \in BOOLEAN

MeshTypes ==
  /\ mesh \subseteq Ids /\ Cardinality(mesh) <= MeshCapacity
  /\ unclaimed \subseteq mesh
  /\ news \in Seq(Events)
  /\ overrun \in BOOLEAN
  /\ tiles \in [Ids -> Nat]

LEMMA TypeParts == TypeOK <=> WorldTypes /\ AppTypes /\ MeshTypes
BY DEF TypeOK, WorldTypes, AppTypes, MeshTypes, States

(* What is built by the operators for messages and events. *)
LEMMA MessageTypes ==
  /\ \A id \in Ids, ids \in SUBSET Ids : RoomState(id, ids) \in Messages
  /\ \A id \in Ids : PeerJoined(id) \in Messages /\ PeerLeft(id) \in Messages
  /\ RoomFull \in Messages
  /\ \A id \in Ids, on \in SUBSET Kinds : MediaState(id, on) \in States
  /\ \A id \in Ids : Connected(id) \in Events /\ Disconnected(id) \in Events
BY DEF RoomState, PeerJoined, PeerLeft, RoomFull, MediaState, Connected, Disconnected,
   Messages, States, Events

LEMMA IdTypes ==
  /\ Peers \subseteq Ids /\ OwnIds \subseteq Ids /\ IsFiniteSet(Ids) /\ 1 \in OwnIds
  /\ \A S \in SUBSET Ids : IsFiniteSet(S) /\ Cardinality(S) \in Nat
<1>1. OwnIds = 1..MaxConnections /\ 1 \in OwnIds BY SessionAssumption DEF OwnIds
<1>2. IsFiniteSet(OwnIds) BY <1>1, FS_Interval, SessionAssumption
<1>3. IsFiniteSet(Ids) BY <1>2, FS_Union, SessionAssumption DEF Ids
<1>4. \A S \in SUBSET Ids : IsFiniteSet(S) BY <1>3, FS_Subset
<1>5. \A S \in SUBSET Ids : Cardinality(S) \in Nat BY <1>4, FS_CardinalityType
<1> QED BY <1>1, <1>3, <1>4, <1>5 DEF Ids

(* An order of a finite set of peers announces them. *)
LEMMA JoinsTypes ==
  ASSUME NEW S \in SUBSET Ids, NEW order \in Orders(S)
  PROVE  Joins(order) \in Seq(Events)
<1>1. Cardinality(S) \in Nat BY IdTypes
<1>2. order \in [1..Cardinality(S) -> S] BY DEF Orders
<1>3. Joins(order) = [i \in 1..Cardinality(S) |-> Connected(order[i])] BY <1>2 DEF Joins
<1>4. \A i \in 1..Cardinality(S) : Connected(order[i]) \in Events BY <1>2, MessageTypes
<1> QED BY <1>1, <1>3, <1>4

(* The first and the last items of a sequence are a sequence. *)
LEMMA PartTypes ==
  ASSUME NEW S, NEW s \in Seq(S)
  PROVE  /\ \A k \in 0..Len(s) : SubSeq(s, 1, k) \in Seq(S)
         /\ \A k \in 1..(Len(s) + 1) : SubSeq(s, k, Len(s)) \in Seq(S)
<1>1. ASSUME NEW k \in 0..Len(s) PROVE SubSeq(s, 1, k) \in Seq(S)
  <2>1. k \in Int /\ 1 \in Int /\ \A i \in 1..k : s[i] \in S OBVIOUS
  <2> QED BY <2>1, SubSeqProperties
<1>2. ASSUME NEW k \in 1..(Len(s) + 1) PROVE SubSeq(s, k, Len(s)) \in Seq(S)
  <2>1. k \in Int /\ Len(s) \in Int /\ \A i \in k..Len(s) : s[i] \in S OBVIOUS
  <2> QED BY <2>1, SubSeqProperties
<1> QED BY <1>1, <1>2

LEMMA TypeInit == Init => TypeOK
<1> SUFFICES ASSUME Init PROVE TypeOK OBVIOUS
<1>0. self \in room
  <2>1. RoomState(1, room).id = 1 /\ RoomState(1, room).ids = room BY DEF RoomState
  <2>2. 1 \in room /\ self \in Selves(RoomState(1, room)) BY DEF Init
  <2> QED BY <2>1, <2>2 DEF Selves
<1>1. WorldTypes
  <2>1. room \subseteq Ids /\ conn \in OwnIds
    <3>1. PICK others \in SUBSET Peers : room = {1} \cup others BY DEF Init
    <3> QED BY <3>1, IdTypes DEF Init
  <2> QED BY <2>1 DEF Init, WorldTypes
<1>2. AppTypes
  <2>1. self \in room /\ room \subseteq Ids /\ <<>> \in Seq(Kinds)
    BY <1>0, <1>1 DEF WorldTypes
  <2> QED BY <2>1 DEF Init, AppTypes
<1>3. MeshTypes
  <2>1. /\ room \in SUBSET Ids /\ self \in room /\ mesh = room \ {self}
        /\ Cardinality(room) <= RoomSize
    BY <1>0, <1>1 DEF Init, WorldTypes
  <2>2. IsFiniteSet(room) /\ Cardinality(room) \in Nat BY <2>1, IdTypes
  <2>3. Cardinality(mesh) = Cardinality(room) - 1 BY <2>1, <2>2, FS_RemoveElement
  <2>4. Cardinality(mesh) <= MeshCapacity BY <2>1, <2>2, <2>3, SessionAssumption
  <2>5. news \in Seq(Events) BY <2>1, JoinsTypes DEF Init
  <2> QED BY <2>1, <2>4, <2>5 DEF Init, MeshTypes, NoTiles
<1> QED BY <1>1, <1>2, <1>3, TypeParts

(* What the network and the server do. *)
LEMMA WorldStep ==
  ASSUME WorldTypes, AppTypes, MeshTypes,
         \/ \E p \in Peers : PeerJoins(p) \/ PeerLeaves(p)
         \/ \E id \in OwnIds : ServerNoticesLoss(id)
         \/ ConnectionBreaks \/ Reconnect \/ ServerStores
  PROVE  WorldTypes'
<1> USE MessageTypes, IdTypes DEF WorldTypes, server
<1>1. ASSUME NEW p \in Peers, PeerJoins(p) PROVE WorldTypes'
  BY <1>1 DEF PeerJoins, Send
<1>2. ASSUME NEW p \in Peers, PeerLeaves(p) PROVE WorldTypes'
  BY <1>2 DEF PeerLeaves, Send
<1>3. ASSUME NEW id \in OwnIds, ServerNoticesLoss(id) PROVE WorldTypes'
  BY <1>3 DEF ServerNoticesLoss, Send
<1>4. CASE ConnectionBreaks
  <2>1. PICK k \in 0..Len(inbox) : inbox' = SubSeq(inbox, 1, k)
    BY <1>4 DEF ConnectionBreaks
  <2>2. PICK j \in 1..(Len(outbox) + 1) : outbox' = SubSeq(outbox, j, Len(outbox))
    BY <1>4 DEF ConnectionBreaks
  <2>3. inbox' \in Seq(Messages)
    <3>1. inbox \in Seq(Messages) OBVIOUS
    <3> QED BY <2>1, <3>1, PartTypes
  <2>4. outbox' \in Seq(States)
    <3>1. outbox \in Seq(States) OBVIOUS
    <3> QED BY <2>2, <3>1, PartTypes
  <2>5. up' \in BOOLEAN /\ UNCHANGED <<room, past, stored, conn>> BY <1>4 DEF ConnectionBreaks
  <2> QED BY <2>3, <2>4, <2>5
<1>5. CASE Reconnect
  <2>1. CASE Cardinality(room) < RoomSize
    <3>1. conn' \in OwnIds BY <1>5, <2>1, SessionAssumption DEF Reconnect, OwnIds
    <3>2. room' \subseteq Ids BY <1>5, <2>1, <3>1 DEF Reconnect
    <3>3. RoomState(conn', room') \in Messages BY <3>1, <3>2
    <3>4. inbox' \in Seq(Messages) BY <1>5, <2>1, <3>3 DEF Reconnect
    <3> QED BY <1>5, <2>1, <3>1, <3>2, <3>4 DEF Reconnect
  <2>2. CASE ~(Cardinality(room) < RoomSize)
    <3>1. inbox' = Append(inbox, RoomFull) /\ UNCHANGED <<conn, up, room, stored, past, outbox>>
      BY <1>5, <2>2 DEF Reconnect
    <3> QED BY <3>1
  <2> QED BY <2>1, <2>2
<1>6. CASE ServerStores
  <2>1. Head(outbox) \in States /\ Tail(outbox) \in Seq(States) BY <1>6 DEF ServerStores
  <2>2. Head(outbox).on \subseteq Kinds BY <2>1 DEF States
  <2> QED BY <1>6, <2>1, <2>2 DEF ServerStores
<1> QED BY <1>1, <1>2, <1>3, <1>4, <1>5, <1>6

(* What joining some of the peers does to the mesh. *)
LEMMA AddTypes ==
  ASSUME MeshTypes, UNCHANGED tiles, NEW ids \in SUBSET Ids, Add(ids)
  PROVE  MeshTypes'
<1>1. PICK joining \in SUBSET (ids \ mesh) :
        /\ Cardinality(mesh \cup joining) <= MeshCapacity
        /\ mesh' = mesh \cup joining /\ unclaimed' = unclaimed \cup joining
        /\ \E order \in Orders(joining) : Tell(Joins(order))
  BY Zenon DEF Add
<1>2. joining \in SUBSET Ids BY <1>1
<1>3. news' \in Seq(Events) /\ UNCHANGED overrun
  BY <1>1, <1>2, JoinsTypes DEF Tell, MeshTypes
<1> QED BY <1>1, <1>2, <1>3 DEF MeshTypes

(* The message at the head of the queue. *)
LEMMA HeadTypes ==
  ASSUME WorldTypes, NEW type, Take(type)
  PROVE  /\ Head(inbox) \in Messages /\ Head(inbox).ids \in SUBSET Ids
         /\ type # "RoomFull" => Head(inbox).id \in Ids
         /\ inbox' \in Seq(Messages)
<1>1. Head(inbox) \in Messages /\ Tail(inbox) \in Seq(Messages) BY DEF WorldTypes, Take
<1>2. \A m \in Messages : m.ids \in SUBSET Ids /\ (m.type # "RoomFull" => m.id \in Ids)
  BY DEF Messages, RoomFull
<1> QED BY <1>1, <1>2 DEF Take

(* The first of the captures to start, and the rest of them. *)
LEMMA StartTypes ==
  ASSUME AppTypes, starting # <<>>
  PROVE  Head(starting) \in Kinds /\ Tail(starting) \in Seq(Kinds)
BY DEF AppTypes

LEMMA SelvesTypes ==
  ASSUME NEW m \in Messages, m.type = "RoomState", m.id \in Ids
  PROVE  Selves(m) \subseteq Ids
<1>1. m.ids \in SUBSET Ids BY DEF Messages, RoomFull
<1> QED BY <1>1 DEF Selves

LEMMA LiveTypes == LiveMedia \in Seq(Kinds)
<1>1. <<>> \in Seq(Kinds) /\ <<"camera">> \in Seq(Kinds) /\ <<"screen">> \in Seq(Kinds)
  BY DEF Kinds
<1>2. \A s, t \in Seq(Kinds) : s \o t \in Seq(Kinds) OBVIOUS
<1> QED BY <1>1, <1>2 DEF LiveMedia

(* The handlers of the select loop, each up to its end or to a capture. *)
LEMMA HandlerStep ==
  ASSUME WorldTypes, AppTypes, MeshTypes,
         HandlePeerJoined \/ HandlePeerLeft \/ HandleRoomState \/ HandleRoomFull
           \/ HandleMeshEvent
  PROVE  WorldTypes' /\ AppTypes' /\ MeshTypes'
<1>1. CASE HandlePeerJoined
  <2>1. Head(inbox).id \in Ids /\ inbox' \in Seq(Messages)
    BY <1>1, HeadTypes DEF HandlePeerJoined
  <2>2. MeshTypes'
    <3>1. CASE Head(inbox).id = self
      BY <1>1, <3>1 DEF HandlePeerJoined, MeshTypes
    <3>2. CASE Head(inbox).id # self
      <4>1. Add({Head(inbox).id}) /\ UNCHANGED tiles BY <1>1, <3>2 DEF HandlePeerJoined
      <4>2. {Head(inbox).id} \in SUBSET Ids BY <2>1
      <4> QED BY <4>1, <4>2, AddTypes
    <3> QED BY <3>1, <3>2
  <2> QED BY <1>1, <2>1, <2>2 DEF HandlePeerJoined, WorldTypes, AppTypes, server, media
<1>2. CASE HandlePeerLeft
  <2> DEFINE p == Head(inbox).id
  <2>1. p \in Ids /\ inbox' \in Seq(Messages)
    BY <1>2, HeadTypes DEF HandlePeerLeft
  <2>2. /\ mesh' = mesh \ {p} /\ unclaimed' = unclaimed \ {p}
        /\ Tell(IF p \in mesh THEN <<Disconnected(p)>> ELSE <<>>)
        /\ tiles' = [tiles EXCEPT ![p] = 0]
    BY <1>2 DEF HandlePeerLeft, WithoutChannels, WithoutTile
  <2>3. Disconnected(p) \in Events BY <2>1, MessageTypes
  <2> HIDE DEF p
  <2>4. news' \in Seq(Events) /\ UNCHANGED overrun BY <2>2, <2>3 DEF Tell, MeshTypes
  <2>5. Cardinality(mesh') <= MeshCapacity
    <3>1. mesh \in SUBSET Ids /\ mesh' \in SUBSET mesh BY <2>2 DEF MeshTypes
    <3>2. IsFiniteSet(mesh) /\ Cardinality(mesh) \in Nat /\ Cardinality(mesh') \in Nat
      BY <3>1, IdTypes
    <3>3. Cardinality(mesh') <= Cardinality(mesh) BY <3>1, <3>2, FS_Subset
    <3> QED BY <3>2, <3>3, SessionAssumption DEF MeshTypes
  <2>6. MeshTypes' BY <2>2, <2>4, <2>5 DEF MeshTypes
  <2> QED BY <1>2, <2>1, <2>6 DEF HandlePeerLeft, WorldTypes, AppTypes, server, media
<1>3. CASE HandleRoomState
  <2>1. /\ Head(inbox) \in Messages /\ Head(inbox).id \in Ids /\ Head(inbox).ids \in SUBSET Ids
        /\ inbox' \in Seq(Messages) /\ Head(inbox).type = "RoomState"
    BY <1>3, HeadTypes DEF HandleRoomState, Take
  <2>2. PICK id \in Selves(Head(inbox)) :
          IF id = self THEN JoinListed(Head(inbox).ids) ELSE Rebuild(id, Head(inbox).ids)
    BY <1>3 DEF HandleRoomState
  <2>3. id \in Ids BY <2>1, <2>2, SelvesTypes
  <2>4. UNCHANGED server BY <1>3 DEF HandleRoomState
  <2>5. CASE id = self
    <3>1. JoinListed(Head(inbox).ids) BY <2>2, <2>5
    <3>2. Add(Others(Head(inbox).ids, self)) /\ UNCHANGED <<self, tiles, media, outbox>>
            /\ running' \in BOOLEAN
      BY <3>1 DEF JoinListed
    <3>3. Others(Head(inbox).ids, self) \in SUBSET Ids BY <2>1 DEF Others
    <3>4. MeshTypes' BY <3>2, <3>3, AddTypes
    <3> QED BY <2>1, <2>4, <3>2, <3>4 DEF WorldTypes, AppTypes, server, media
  <2>6. CASE id # self
    <3> DEFINE others == Others(Head(inbox).ids, id)
    <3>1. Rebuild(id, Head(inbox).ids) BY <2>2, <2>6
    <3>2. PICK joining \in SUBSET others :
            /\ Cardinality(joining) <= MeshCapacity
            /\ mesh' = joining /\ unclaimed' = joining
            /\ \E order \in Orders(joining) : SubscribeFirst(Joins(order))
            /\ self' = id /\ tiles' = NoTiles /\ sessions' = {} /\ ended' = {} /\ starting' = LiveMedia
            /\ armed' = IF starting' = <<>> THEN {} ELSE {Head(starting')}
            /\ rebuilding' = (starting' # <<>>)
            /\ outbox' = IF starting' = <<>> THEN FreshState(id) ELSE outbox
            /\ UNCHANGED <<local, running>>
      BY <3>1, Zenon DEF Rebuild
    <3>3. joining \in SUBSET Ids BY <2>1, <3>2 DEF Others
    <3>4. news' \in Seq(Events) /\ overrun' = FALSE
      BY <3>2, <3>3, JoinsTypes DEF SubscribeFirst
    <3>5. MeshTypes' BY <3>2, <3>3, <3>4 DEF MeshTypes, NoTiles
    <3>6. AppTypes'
      <4>1. starting' \in Seq(Kinds) BY <3>2, LiveTypes
      <4>2. armed' \subseteq Kinds BY <3>2, <4>1
      <4> QED BY <2>3, <3>2, <4>1, <4>2 DEF AppTypes
    <3>7. WorldTypes'
      <4>1. MediaState(id, local) \in States BY <2>3, MessageTypes DEF AppTypes
      <4>2. outbox' \in Seq(States) BY <3>2, <4>1 DEF WorldTypes, FreshState
      <4> QED BY <2>1, <2>4, <4>2 DEF WorldTypes, server
    <3> QED BY <3>5, <3>6, <3>7
  <2> QED BY <2>5, <2>6
<1>4. CASE HandleRoomFull
  <2>1. inbox' \in Seq(Messages) BY <1>4, HeadTypes DEF HandleRoomFull
  <2> QED BY <1>4, <2>1 DEF HandleRoomFull, WorldTypes, AppTypes, MeshTypes, server, media, view
<1>5. CASE HandleMeshEvent
  <2>1. Head(news) \in Events /\ news' \in Seq(Events)
    BY <1>5 DEF HandleMeshEvent, MeshTypes
  <2>2. tiles' \in [Ids -> Nat] /\ unclaimed' \subseteq unclaimed
    BY <1>5, <2>1 DEF HandleMeshEvent, MeshTypes, WithoutTile
  <2> QED BY <1>5, <2>1, <2>2 DEF HandleMeshEvent, WorldTypes, AppTypes, MeshTypes, server, media
<1> QED BY <1>1, <1>2, <1>3, <1>4, <1>5

(* What follows an answer of the device or the picker. *)
LEMMA NextStartTypes ==
  ASSUME AppTypes, starting # <<>>, NEW on \in SUBSET Kinds, NextStart(on)
  PROVE  starting' \in Seq(Kinds) /\ armed' \subseteq Kinds /\ rebuilding' \in BOOLEAN
<1>1. starting' \in Seq(Kinds) BY StartTypes DEF NextStart
<1>2. starting' # <<>> => Head(starting') \in Kinds BY <1>1
<1> QED BY <1>1, <1>2 DEF NextStart, AppTypes

LEMMA FinalTypes ==
  ASSUME self \in Ids, local' \subseteq Kinds
  PROVE  <<MediaState(self, local')>> \in Seq(States) /\ FinalState \in Seq(States)
<1>1. MediaState(self, local') \in States BY MessageTypes
<1> QED BY <1>1 DEF FinalState

LEMMA CaptureStep ==
  ASSUME WorldTypes, AppTypes, MeshTypes, CaptureStarts \/ CaptureFails
  PROVE  WorldTypes' /\ AppTypes' /\ MeshTypes'
<1>1. starting # <<>> /\ UNCHANGED <<server, inbox, running, self, view>>
  BY DEF CaptureStarts, CaptureFails
<1>2. MeshTypes' BY <1>1 DEF MeshTypes, view
<1>3. self \in Ids /\ outbox \in Seq(States) BY DEF AppTypes, WorldTypes
<1>4. \A s, t \in Seq(States) : s \o t \in Seq(States) OBVIOUS
<1>5. CASE CaptureStarts
  <2>1. AppTypes'
    <3>1. NextStart(armed) /\ UNCHANGED local BY <1>5 DEF CaptureStarts
    <3>2. starting' \in Seq(Kinds) /\ armed' \subseteq Kinds /\ rebuilding' \in BOOLEAN
      BY <1>1, <3>1, NextStartTypes DEF AppTypes
    <3>3. sessions' \subseteq Kinds /\ ended' \subseteq sessions'
      BY <1>1, <1>5, StartTypes DEF CaptureStarts, AppTypes
    <3> QED BY <1>1, <3>1, <3>2, <3>3 DEF AppTypes
  <2>2. outbox' \in Seq(States)
    BY <1>3, <1>4, <1>5, <2>1, FinalTypes DEF CaptureStarts, AppTypes
  <2> QED BY <1>1, <1>2, <2>1, <2>2 DEF WorldTypes, server
<1>6. CASE CaptureFails
  <2>1. AppTypes'
    <3>1. NextStart(Disarmed(Head(starting))) /\ local' \subseteq Kinds /\ UNCHANGED <<sessions, ended>>
      BY <1>6 DEF CaptureFails, AppTypes
    <3>2. Disarmed(Head(starting)) \in SUBSET Kinds BY DEF Disarmed, AppTypes
    <3>3. starting' \in Seq(Kinds) /\ armed' \subseteq Kinds /\ rebuilding' \in BOOLEAN
      BY <1>1, <3>1, <3>2, NextStartTypes
    <3> QED BY <1>1, <3>1, <3>3 DEF AppTypes
  <2>2. Reverted \in Seq(States) /\ FinalState \in Seq(States)
    BY <1>3, <2>1, FinalTypes DEF Reverted, AppTypes
  <2>3. outbox' = (outbox \o Reverted) \o FinalState BY <1>6 DEF CaptureFails
  <2>4. outbox' \in Seq(States) BY <1>3, <1>4, <2>2, <2>3
  <2> QED BY <1>1, <1>2, <2>1, <2>4 DEF WorldTypes, server
<1> QED BY <1>5, <1>6

LEMMA UserStep ==
  ASSUME WorldTypes, AppTypes, MeshTypes, User
  PROVE  WorldTypes' /\ AppTypes' /\ MeshTypes'
<1>1. CASE Leave
  BY <1>1 DEF Leave, WorldTypes, AppTypes, MeshTypes, server, media, view
<1>2. ASSUME NEW kind \in Kinds, SwitchOff(kind) \/ SwitchOn(kind) \/ SelectSource(kind)
      PROVE  WorldTypes' /\ AppTypes' /\ MeshTypes'
  <2>1. UNCHANGED <<server, inbox, running, self, rebuilding, view>>
    BY <1>2 DEF SwitchOff, SwitchOn, SelectSource
  <2>2. /\ local' \subseteq Kinds /\ armed' \subseteq Kinds
        /\ sessions' \subseteq Kinds /\ ended' \subseteq sessions'
    BY <1>2 DEF SwitchOff, SwitchOn, SelectSource, AppTypes
  <2>3. starting' = starting \/ starting' = <<kind>>
    BY <1>2 DEF SwitchOff, SwitchOn, SelectSource
  <2>4. starting' \in Seq(Kinds)
    <3>1. <<kind>> \in Seq(Kinds) OBVIOUS
    <3>2. starting \in Seq(Kinds) BY DEF AppTypes
    <3> QED BY <2>3, <3>1, <3>2
  <2>5. MediaState(self, local') \in States BY <2>2, MessageTypes DEF AppTypes
  <2>6. outbox' \in Seq(States)
    <3>1. outbox' = outbox \/ outbox' = Append(outbox, MediaState(self, local'))
      BY <1>2 DEF SwitchOff, SwitchOn, SelectSource
    <3>2. outbox \in Seq(States) BY DEF WorldTypes
    <3> QED BY <2>5, <3>1, <3>2
  <2> QED BY <2>1, <2>2, <2>4, <2>6 DEF WorldTypes, AppTypes, MeshTypes, server, view
<1> QED BY <1>1, <1>2 DEF User

LEMMA TypeStep == TypeOK /\ [Next]_vars => TypeOK'
<1> SUFFICES ASSUME TypeOK, [Next]_vars PROVE WorldTypes' /\ AppTypes' /\ MeshTypes'
  BY DEF TypeOK, WorldTypes, AppTypes, MeshTypes, States
<1>1. WorldTypes /\ AppTypes /\ MeshTypes BY TypeParts
<1>2. CASE UNCHANGED vars
  BY <1>1, <1>2 DEF vars, WorldTypes, AppTypes, MeshTypes, server, media, view
<1>3. CASE HandlePeerJoined \/ HandlePeerLeft \/ HandleRoomState \/ HandleRoomFull
             \/ HandleMeshEvent
  BY <1>1, <1>3, HandlerStep
<1>4. CASE CaptureStarts \/ CaptureFails BY <1>1, <1>4, CaptureStep
<1>5. CASE User BY <1>1, <1>5, UserStep
<1>6. CASE Overwrite
  BY <1>1, <1>6 DEF Overwrite, WorldTypes, AppTypes, MeshTypes, server, media
<1>7. CASE \/ \E p \in Peers : PeerJoins(p) \/ PeerLeaves(p)
           \/ \E id \in OwnIds : ServerNoticesLoss(id)
           \/ ConnectionBreaks \/ Reconnect \/ ServerStores
  <2>1. WorldTypes' BY <1>1, <1>7, WorldStep
  <2>2. UNCHANGED <<running, self, media, view>>
    BY <1>7 DEF PeerJoins, PeerLeaves, ServerNoticesLoss, ConnectionBreaks, Reconnect,
       ServerStores
  <2> QED BY <1>1, <2>1, <2>2 DEF AppTypes, MeshTypes, media, view
<1>8. ASSUME NEW kind \in Kinds, CaptureEnds(kind)
      PROVE  WorldTypes' /\ AppTypes' /\ MeshTypes'
  BY <1>1, <1>8 DEF CaptureEnds, WorldTypes, AppTypes, MeshTypes, server, view
<1> QED BY <1>2, <1>3, <1>4, <1>5, <1>6, <1>7, <1>8 DEF Next, Handlers, Environment

(* The application's state is well typed and its mesh never holds more than *)
(* MESH_CAPACITY peers, whatever joins, leaves, breaks and reconnects       *)
(* (`capacity`, MeshManager::handle_peer_joined).                           *)
THEOREM SessionTypeCorrect == Spec => []TypeOK
BY TypeInit, TypeStep, PTL DEF Spec
-----------------------------------------------------------------------------
(***************************************************************************)
(* The server's copy.  On the connection the application knows, the state  *)
(* it shows is the last one under way to the server, or the stored one if  *)
(* none is; a rebuild owes it until its last capture has answered.  That   *)
(* a new connection is not yet known needs that ids are not known before   *)
(* the server gave them.                                                   *)
(***************************************************************************)
Given(id) == id \in OwnIds => id <= conn

Latest ==
  IF outbox = <<>> THEN stored = local ELSE outbox[Len(outbox)] = MediaState(conn, local)

Known == {m \in Messages : Given(m.id) /\ \A id \in m.ids : Given(id)}

IdInv ==
  /\ Given(self)
  /\ \A id \in room : Given(id)
  /\ inbox \in Seq(Known)

CopyInv ==
  /\ rebuilding => starting # <<>>
  /\ up /\ self = conn /\ ~rebuilding => Latest

LEMMA LastOfAppend ==
  ASSUME NEW S, NEW s \in Seq(S), NEW e \in S
  PROVE  /\ Append(s, e) # <<>> /\ Append(s, e)[Len(Append(s, e))] = e
         /\ s \o <<e>> = Append(s, e)
<1>1. Len(Append(s, e)) = Len(s) + 1 /\ Append(s, e)[Len(s) + 1] = e OBVIOUS
<1>2. s \o <<e>> = Append(s, e) BY AppendIsConcat
<1>3. Append(s, e) # <<>> BY <1>1
<1> QED BY <1>1, <1>2, <1>3

LEMMA LastOfTail ==
  ASSUME NEW S, NEW s \in Seq(S), s # <<>>
  PROVE  s[Len(s)] = IF Tail(s) = <<>> THEN Head(s) ELSE Tail(s)[Len(Tail(s))]
<1>1. Len(s) \in Nat /\ Len(s) # 0 /\ Tail(s) \in Seq(S) /\ Len(Tail(s)) = Len(s) - 1 OBVIOUS
<1>2. CASE Tail(s) = <<>>
  <2>0. Len(<<>>) = 0 OBVIOUS
  <2>1. Len(Tail(s)) = 0 BY <1>2, <2>0, Zenon
  <2>2. 0 = Len(s) - 1 BY <1>1, <2>1, Zenon
  <2>3. Len(s) = 1
    <3>1. Len(s) \in Nat BY <1>1
    <3> QED BY <2>2, <3>1
  <2> QED BY <1>2, <2>3
<1>3. CASE Tail(s) # <<>>
  <2>1. Len(Tail(s)) # 0 BY <1>1, <1>3
  <2>2. \A i \in 1..Len(Tail(s)) : Tail(s)[i] = s[i + 1] OBVIOUS
  <2> QED BY <1>1, <1>3, <2>1, <2>2
<1> QED BY <1>2, <1>3

(* A new connection knows more. *)
LEMMA KnownGrows ==
  ASSUME conn \in Nat, conn' \in Nat, conn <= conn'
  PROVE  /\ \A id : Given(id) => Given(id)'
         /\ Known \subseteq Known'
<1>1. ASSUME NEW id, Given(id) PROVE Given(id)'
  <2>1. CASE id \in OwnIds
    <3>1. id \in Nat /\ id <= conn BY <1>1, <2>1, SessionAssumption DEF Given, OwnIds
    <3> QED BY <3>1 DEF Given
  <2>2. CASE id \notin OwnIds BY <2>2 DEF Given
  <2> QED BY <2>1, <2>2
<1>2. Known \subseteq Known'
  <2> SUFFICES ASSUME NEW m \in Known PROVE m \in Known' OBVIOUS
  <2>1. m \in Messages /\ Given(m.id) /\ \A id \in m.ids : Given(id) BY DEF Known
  <2>2. Given(m.id)' /\ \A id \in m.ids : Given(id)' BY <1>1, <2>1
  <2> QED BY <2>1, <2>2 DEF Known
<1> QED BY <1>1, <1>2

(* Everybody who is in the room, and what is said of them. *)
LEMMA KnownMessages ==
  ASSUME NEW id \in Ids, Given(id), NEW ids \in SUBSET Ids, \A i \in ids : Given(i)
  PROVE  /\ RoomState(id, ids) \in Known
         /\ PeerJoined(id) \in Known /\ PeerLeft(id) \in Known /\ RoomFull \in Known
<1>1. RoomState(id, ids) \in Known
  <2>1. RoomState(id, ids).id = id /\ RoomState(id, ids).ids = ids BY DEF RoomState
  <2> QED BY <2>1, MessageTypes DEF Known
<1>2. PeerJoined(id) \in Known /\ PeerLeft(id) \in Known
  <2>1. /\ PeerJoined(id).id = id /\ PeerJoined(id).ids = {}
        /\ PeerLeft(id).id = id /\ PeerLeft(id).ids = {}
    BY DEF PeerJoined, PeerLeft
  <2> QED BY <2>1, MessageTypes DEF Known
<1>3. RoomFull \in Known
  <2>1. RoomFull.id = 0 /\ RoomFull.ids = {} BY DEF RoomFull
  <2>2. Given(0) BY SessionAssumption DEF Given, OwnIds
  <2> QED BY <2>1, <2>2, MessageTypes DEF Known
<1> QED BY <1>1, <1>2, <1>3

LEMMA IdStep == TypeOK /\ IdInv /\ [Next]_vars => IdInv'
<1> SUFFICES ASSUME TypeOK, IdInv, [Next]_vars PROVE IdInv' OBVIOUS
<1>0. /\ conn \in Nat /\ conn \in OwnIds /\ room \in SUBSET Ids /\ self \in Ids
      /\ Given(self) /\ (\A id \in room : Given(id)) /\ inbox \in Seq(Known)
      /\ \A p \in Peers : Given(p)
  BY SessionAssumption DEF TypeOK, OwnIds, Given, IdInv
<1>1. ASSUME UNCHANGED conn
      PROVE  /\ \A id : Given(id)' <=> Given(id)
             /\ Known' = Known
  BY <1>1 DEF Given, Known
<1>2. CASE UNCHANGED <<self, room, inbox, conn>>
  BY <1>0, <1>1, <1>2 DEF IdInv
<1>3. ASSUME UNCHANGED <<self, conn>>, room' \subseteq room \cup Peers,
             NEW id \in room \cup Peers,
             NEW m \in {PeerJoined(id), PeerLeft(id)}, Send(m)
      PROVE  IdInv'
  <2>1. id \in Ids /\ Given(id) /\ {} \in SUBSET Ids BY <1>0, IdTypes
  <2>2. m \in Known BY <2>1, KnownMessages
  <2>3. inbox' \in Seq(Known) BY <1>0, <1>3, <2>2 DEF Send
  <2>4. \A i \in room' : Given(i) BY <1>0, <1>3
  <2> QED BY <1>0, <1>1, <1>3, <2>3, <2>4 DEF IdInv
<1>4. CASE Reconnect
  <2>1. CASE Cardinality(room) < RoomSize
    <3>0. PICK c : c = conn + 1 OBVIOUS
    <3>1. /\ conn' = c /\ room' = room \cup {c} /\ UNCHANGED self
          /\ inbox' = Append(inbox, RoomState(c, room')) /\ conn < MaxConnections
      BY <1>4, <2>1, <3>0 DEF Reconnect
    <3>2. c \in OwnIds /\ conn' \in Nat /\ conn <= conn'
      BY <1>0, <3>0, <3>1, SessionAssumption DEF OwnIds
    <3>3. Given(c)'
      <4>1. c <= conn' BY <3>1, <3>2
      <4> QED BY <4>1 DEF Given
    <3>4. /\ \A id \in room' : Given(id)'
          /\ room' \in SUBSET Ids /\ c \in Ids
      <4>1. \A id \in room : Given(id)' BY <1>0, <3>2, KnownGrows
      <4> QED BY <1>0, <3>1, <3>2, <3>3, <4>1, IdTypes
    <3>5. RoomState(c, room') \in Known'
      <4>1. RoomState(c, room').id = c /\ RoomState(c, room').ids = room'
        BY DEF RoomState
      <4>2. RoomState(c, room') \in Messages BY <3>4, MessageTypes
      <4> QED BY <3>3, <3>4, <4>1, <4>2 DEF Known
    <3>6. inbox \in Seq(Known') BY <1>0, <3>2, KnownGrows, SeqMonotonic
    <3>7. inbox' \in Seq(Known') BY <3>1, <3>5, <3>6
    <3>8. Given(self)' BY <1>0, <3>1, <3>2, KnownGrows
    <3> QED BY <3>4, <3>7, <3>8 DEF IdInv
  <2>2. CASE ~(Cardinality(room) < RoomSize)
    <3>1. inbox' = Append(inbox, RoomFull) /\ UNCHANGED <<self, conn, room>>
      BY <1>4, <2>2 DEF Reconnect
    <3>2. RoomFull \in Known BY <1>0, KnownMessages
    <3>3. inbox' \in Seq(Known) BY <1>0, <3>1, <3>2
    <3> QED BY <1>0, <1>1, <3>1, <3>3 DEF IdInv
  <2> QED BY <2>1, <2>2
<1>5. CASE ConnectionBreaks
  <2>1. PICK k \in 0..Len(inbox) : inbox' = SubSeq(inbox, 1, k)
    BY <1>5 DEF ConnectionBreaks
  <2>2. inbox' \in Seq(Known) BY <1>0, <2>1, PartTypes
  <2> QED BY <1>0, <1>1, <1>5, <2>2 DEF ConnectionBreaks, IdInv
<1>6. ASSUME NEW type, Take(type)
      PROVE  inbox' \in Seq(Known) /\ Head(inbox) \in Known
  BY <1>0, <1>6 DEF Take
<1>7. CASE HandlePeerJoined \/ HandlePeerLeft \/ HandleRoomFull
  <2>1. UNCHANGED <<self, conn, room>>
    BY <1>7 DEF HandlePeerJoined, HandlePeerLeft, HandleRoomFull, server
  <2>2. inbox' \in Seq(Known)
    BY <1>6, <1>7 DEF HandlePeerJoined, HandlePeerLeft, HandleRoomFull
  <2> QED BY <1>0, <1>1, <2>1, <2>2 DEF IdInv
<1>8. CASE HandleRoomState
  <2>1. inbox' \in Seq(Known) /\ Head(inbox) \in Known /\ UNCHANGED <<conn, room>>
    BY <1>6, <1>8 DEF HandleRoomState, server
  <2>2. PICK id \in Selves(Head(inbox)) :
          IF id = self THEN JoinListed(Head(inbox).ids) ELSE Rebuild(id, Head(inbox).ids)
    BY <1>8 DEF HandleRoomState
  <2>3. Given(id) BY <2>1, <2>2 DEF Selves, Known
  <2>4. self' = id BY <2>2 DEF JoinListed, Rebuild
  <2> QED BY <1>0, <1>1, <2>1, <2>3, <2>4 DEF IdInv
<1>9. CASE UNCHANGED vars BY <1>2, <1>9 DEF vars, server
<1>10. CASE \/ CaptureStarts \/ CaptureFails \/ HandleMeshEvent \/ User \/ ServerStores
            \/ Overwrite \/ \E kind \in Kinds : CaptureEnds(kind)
  BY <1>2, <1>10 DEF CaptureStarts, CaptureFails, HandleMeshEvent, User, Leave, SwitchOff,
     SwitchOn, SelectSource, ServerStores, Overwrite, CaptureEnds, server
<1>11. ASSUME NEW p \in Peers, PeerJoins(p) \/ PeerLeaves(p) PROVE IdInv'
  BY <1>3, <1>11 DEF PeerJoins, PeerLeaves
<1>12. ASSUME NEW id \in OwnIds, ServerNoticesLoss(id) PROVE IdInv'
  BY <1>3, <1>12 DEF ServerNoticesLoss
<1> QED BY <1>4, <1>5, <1>7, <1>8, <1>9, <1>10, <1>11, <1>12 DEF Next, Handlers, Environment

(* What has just been sent on this connection is the latest. *)
LEMMA LatestSent ==
  ASSUME NEW s \in Seq(States), self \in Ids, local' \subseteq Kinds,
         self = conn, UNCHANGED conn,
         outbox' = Append(s, MediaState(self, local'))
  PROVE  Latest'
<1>1. MediaState(self, local') \in States BY MessageTypes
<1>2. outbox' # <<>> /\ outbox'[Len(outbox')] = MediaState(self, local') BY <1>1, LastOfAppend
<1> QED BY <1>2 DEF Latest

LEMMA CopyStep == TypeOK /\ IdInv /\ CopyInv /\ [Next]_vars => CopyInv'
<1> SUFFICES ASSUME TypeOK, IdInv, CopyInv, [Next]_vars PROVE CopyInv' OBVIOUS
<1>0. /\ conn \in Nat /\ self \in Ids /\ outbox \in Seq(States) /\ local \subseteq Kinds
      /\ starting \in Seq(Kinds) /\ TypeOK'
      /\ (self \in Nat => self \in OwnIds /\ self <= conn)
  <2>1. WorldTypes /\ AppTypes BY TypeParts
  <2>2. TypeOK' BY TypeStep
  <2>3. conn \in Nat /\ (self \in Nat => self \in OwnIds)
    BY <2>1, SessionAssumption DEF WorldTypes, AppTypes, OwnIds, Ids
  <2>4. self \in OwnIds => self <= conn BY DEF IdInv, Given
  <2> QED BY <2>1, <2>2, <2>3, <2>4 DEF WorldTypes, AppTypes
<1>1. CASE UNCHANGED <<self, local, stored, conn, up, outbox, starting, rebuilding>>
  BY <1>1 DEF CopyInv, Latest
<1>2. CASE Reconnect
  <2>1. CASE Cardinality(room) < RoomSize
    BY <1>0, <1>2, <2>1 DEF Reconnect, CopyInv, media
  <2>2. CASE ~(Cardinality(room) < RoomSize)
    BY <1>1, <1>2, <2>2 DEF Reconnect, media
  <2> QED BY <2>1, <2>2
<1>3. CASE ConnectionBreaks
  BY <1>3 DEF ConnectionBreaks, CopyInv, media
<1>4. CASE ServerStores
  <2>1. /\ up /\ outbox # <<>> /\ outbox' = Tail(outbox)
        /\ stored' = IF Head(outbox).id = conn THEN Head(outbox).on ELSE stored
        /\ UNCHANGED <<self, local, conn, up, starting, rebuilding>>
    BY <1>4 DEF ServerStores, media
  <2>2. ASSUME self = conn, ~rebuilding PROVE Latest'
    <3>1. outbox[Len(outbox)] = MediaState(conn, local) BY <2>1, <2>2 DEF CopyInv, Latest
    <3>2. CASE Tail(outbox) = <<>>
      <4>1. Head(outbox) = outbox[Len(outbox)] BY <1>0, <2>1, <3>2, LastOfTail
      <4>2. Head(outbox).id = conn /\ Head(outbox).on = local
        BY <3>1, <4>1 DEF MediaState
      <4> QED BY <2>1, <3>2, <4>2 DEF Latest
    <3>3. CASE Tail(outbox) # <<>>
      BY <1>0, <2>1, <3>1, <3>3, LastOfTail DEF Latest
    <3> QED BY <3>2, <3>3
  <2> QED BY <2>1, <2>2 DEF CopyInv
<1>5. ASSUME NEW kind \in Kinds, SwitchOff(kind) \/ SwitchOn(kind) PROVE CopyInv'
  <2>1. /\ starting = <<>> /\ outbox' = Append(outbox, MediaState(self, local'))
        /\ local' \subseteq Kinds /\ UNCHANGED <<self, conn, up, rebuilding>>
    BY <1>0, <1>5 DEF SwitchOff, SwitchOn, Command, Ready, server
  <2>2. ~rebuilding BY <2>1 DEF CopyInv
  <2> QED BY <1>0, <2>1, <2>2, LatestSent DEF CopyInv
<1>6. ASSUME NEW kind \in Kinds, SelectSource(kind) PROVE CopyInv'
  BY <1>6 DEF SelectSource, Command, Ready, CopyInv, Latest, server
<1>7. CASE HandleRoomState
  <2>1. PICK id \in Selves(Head(inbox)) :
          IF id = self THEN JoinListed(Head(inbox).ids) ELSE Rebuild(id, Head(inbox).ids)
    BY <1>7 DEF HandleRoomState
  <2>2. UNCHANGED <<conn, up, stored>> BY <1>7 DEF HandleRoomState, server
  <2>3. CASE id = self BY <1>1, <2>1, <2>2, <2>3 DEF JoinListed, media
  <2>4. CASE id # self
    <3>1. /\ self' = id /\ rebuilding' = (starting' # <<>>) /\ local' = local
          /\ outbox' = IF starting' = <<>> THEN FreshState(id) ELSE outbox
      BY <2>1, <2>4 DEF Rebuild
    <3>2. ASSUME self' = conn', ~rebuilding' PROVE Latest'
      <4>1. outbox' = Append(outbox, MediaState(conn, local'))
        BY <2>2, <3>1, <3>2 DEF FreshState
      <4>2. conn \in Ids BY IdTypes DEF TypeOK
      <4>3. MediaState(conn, local') \in States BY <1>0, <3>1, <4>2, MessageTypes
      <4>4. outbox' # <<>> /\ outbox'[Len(outbox')] = MediaState(conn, local')
        BY <1>0, <4>1, <4>3, LastOfAppend
      <4> QED BY <2>2, <4>4 DEF Latest
    <3> QED BY <3>1, <3>2 DEF CopyInv
  <2> QED BY <2>3, <2>4
<1>8. CASE CaptureStarts
  <2>1. /\ UNCHANGED <<self, local, conn, up, stored>>
        /\ rebuilding' = (rebuilding /\ starting' # <<>>)
        /\ outbox' = outbox \o FinalState
    BY <1>8 DEF CaptureStarts, NextStart, server
  <2>2. CASE rebuilding /\ ~rebuilding'
    <3>1. MediaState(self, local') \in States BY <1>0, <2>1, MessageTypes
    <3>2. outbox' = Append(outbox, MediaState(self, local'))
      BY <1>0, <2>1, <2>2, <3>1, LastOfAppend DEF FinalState
    <3> QED BY <1>0, <2>1, <2>2, <3>2, LatestSent DEF CopyInv
  <2>3. CASE ~(rebuilding /\ ~rebuilding')
    <3>1. outbox' = outbox BY <1>0, <2>1, <2>3 DEF FinalState
    <3> QED BY <2>1, <2>3, <3>1 DEF CopyInv, Latest
  <2> QED BY <2>2, <2>3
<1>9. CASE CaptureFails
  <2>1. /\ UNCHANGED <<self, conn, up, stored>> /\ local' \subseteq Kinds
        /\ rebuilding' = (rebuilding /\ starting' # <<>>)
        /\ outbox' = (outbox \o <<MediaState(self, local')>>) \o FinalState
    BY <1>0, <1>9 DEF CaptureFails, NextStart, Reverted, server
  <2>2. MediaState(self, local') \in States BY <1>0, <2>1, MessageTypes
  <2>3. outbox \o <<MediaState(self, local')>> = Append(outbox, MediaState(self, local'))
    BY <1>0, <2>2, LastOfAppend
  <2>4. Append(outbox, MediaState(self, local')) \in Seq(States) BY <1>0, <2>2
  <2>5. \E s \in Seq(States) : outbox' = Append(s, MediaState(self, local'))
    <3>1. CASE FinalState = <<>>
      BY <1>0, <2>1, <2>3, <2>4, <3>1
    <3>2. CASE FinalState = <<MediaState(self, local')>>
      <4>1. outbox' = Append(Append(outbox, MediaState(self, local')), MediaState(self, local'))
        BY <2>1, <2>2, <2>3, <2>4, <3>2, LastOfAppend
      <4> QED BY <2>4, <4>1
    <3> QED BY <3>1, <3>2 DEF FinalState
  <2>6. self = conn => Latest' BY <1>0, <2>1, <2>5, LatestSent
  <2> QED BY <2>1, <2>6 DEF CopyInv
<1>10. CASE \/ HandlePeerJoined \/ HandlePeerLeft \/ HandleRoomFull \/ HandleMeshEvent \/ Leave
            \/ Overwrite \/ (\E kind \in Kinds : CaptureEnds(kind)) \/ UNCHANGED vars
  BY <1>1, <1>10 DEF HandlePeerJoined, HandlePeerLeft, HandleRoomFull, HandleMeshEvent, Leave,
     Overwrite, CaptureEnds, vars, server, media
<1>11. ASSUME NEW p \in Peers, PeerJoins(p) \/ PeerLeaves(p) PROVE CopyInv'
  BY <1>1, <1>11 DEF PeerJoins, PeerLeaves, media
<1>12. ASSUME NEW id \in OwnIds, ServerNoticesLoss(id) PROVE CopyInv'
  BY <1>1, <1>12 DEF ServerNoticesLoss, media
<1> QED BY <1>2, <1>3, <1>4, <1>5, <1>6, <1>7, <1>8, <1>9, <1>10, <1>11, <1>12
        DEF Next, Handlers, User, Environment

LEMMA IdInit == Init => IdInv
<1> SUFFICES ASSUME Init PROVE IdInv OBVIOUS
<1>1. TypeOK BY TypeInit
<1>2. \A id \in room : Given(id)
  <2>1. PICK others \in SUBSET Peers : room = {1} \cup others BY DEF Init
  <2>2. \A p \in Peers : Given(p) BY SessionAssumption DEF Given, OwnIds
  <2>3. Given(1) BY DEF Given, Init
  <2> QED BY <2>1, <2>2, <2>3
<1>3. self \in room
  <2>1. RoomState(1, room).id = 1 /\ RoomState(1, room).ids = room BY DEF RoomState
  <2>2. 1 \in room /\ self \in Selves(RoomState(1, room)) BY DEF Init
  <2> QED BY <2>1, <2>2 DEF Selves
<1>4. inbox \in Seq(Known) BY DEF Init
<1> QED BY <1>2, <1>3, <1>4 DEF IdInv

-----------------------------------------------------------------------------
(***************************************************************************)
(* The tiles.  What the mesh says of one id alternates between connected   *)
(* and disconnected and ends with whether the mesh holds the id; a peer    *)
(* that the mesh is about to announce has no tile, and channels nobody     *)
(* claimed are announced.                                                  *)
(***************************************************************************)
About(q, id) == {i \in 1..Len(q) : q[i].id = id}
Arrivals(q, id) == {i \in About(q, id) : q[i].type = "PeerConnected"}

(* Of the positions E of events those in C are arrivals; the id is in the   *)
(* mesh or not, has that many tiles and channels that wait or not.          *)
Agree(E, C, in, shown, waiting) ==
  /\ \A i \in E : (\A j \in E : j <= i) => (i \in C <=> in)
  /\ \A i, j \in E : i < j /\ (\A k \in E : k <= i \/ k >= j) => (i \in C <=> j \notin C)
  /\ \A i \in E : (\A j \in E : i <= j) /\ i \in C => shown = 0
  /\ E = {} => shown = (IF in THEN 1 ELSE 0) /\ ~waiting
  /\ waiting => \E i \in E : i \in C

AgreeOn(id) ==
  Agree(About(news, id), Arrivals(news, id), id \in mesh, tiles[id], id \in unclaimed)
TilesInv == ~overrun => \A id \in Ids : AgreeOn(id)

(* An announcement at the end. *)
LEMMA AgreeArrival ==
  ASSUME NEW E \in SUBSET Nat, NEW C \in SUBSET E, NEW shown, NEW waiting,
         Agree(E, C, FALSE, shown, waiting),
         NEW n \in Nat, \A i \in E : i < n
  PROVE  Agree(E \cup {n}, C \cup {n}, TRUE, shown, TRUE)
<1> DEFINE F == E \cup {n}
           D == C \cup {n}
<1>1. \A i \in F : i \in Nat /\ i <= n
  OBVIOUS
<1>2. \A i \in F : (\A j \in F : j <= i) => i \in D
  <2> SUFFICES ASSUME NEW i \in F, \A j \in F : j <= i PROVE i \in D
    OBVIOUS
  <2>1. n <= i /\ i <= n /\ i \in Nat
    BY <1>1
  <2> QED BY <2>1
<1>3. ASSUME NEW i \in F, NEW j \in F, i < j, \A k \in F : k <= i \/ k >= j
      PROVE  i \in D <=> j \notin D
  <2>1. i # n /\ i \in E
    <3>1. i < j /\ j <= n /\ i \in Nat /\ j \in Nat
      BY <1>1, <1>3
    <3> QED BY <3>1
  <2>2. CASE j = n
    <3>1. \A k \in E : k <= i
      <4> SUFFICES ASSUME NEW k \in E PROVE k <= i
        OBVIOUS
      <4>1. k < n /\ k \in Nat /\ (k <= i \/ k >= n)
        BY <1>3, <2>2
      <4> QED BY <4>1
    <3>2. i \notin C
      BY <2>1, <3>1 DEF Agree
    <3> QED BY <2>1, <2>2, <3>2
  <2>3. CASE j # n
    <3>1. j \in E /\ \A k \in E : k <= i \/ k >= j
      BY <1>3, <2>3
    <3>2. i \in C <=> j \notin C
      BY <1>3, <2>1, <3>1 DEF Agree
    <3> QED BY <2>1, <2>3, <3>2
  <2> QED BY <2>2, <2>3
<1>4. ASSUME NEW i \in F, \A j \in F : i <= j, i \in D
      PROVE  shown = 0
  <2>1. CASE E = {}
    BY <2>1 DEF Agree
  <2>2. CASE E # {}
    <3>1. PICK e \in E : TRUE
      BY <2>2
    <3>2. i <= e /\ e < n /\ e \in Nat /\ i \in Nat
      BY <1>1, <1>4, <3>1
    <3>3. i # n
      BY <3>2
    <3> QED BY <1>4, <3>3 DEF Agree
  <2> QED BY <2>1, <2>2
<1> QED
  BY <1>2, <1>3, <1>4, Zenon DEF Agree

(* A departure at the end: the tile went with it.  One that the mesh did    *)
(* not hold is not announced.                                               *)
LEMMA AgreeDeparture ==
  ASSUME NEW E \in SUBSET Nat, NEW C \in SUBSET E, NEW shown, NEW waiting,
         Agree(E, C, TRUE, shown, waiting),
         NEW n \in Nat, \A i \in E : i < n
  PROVE  Agree(E \cup {n}, C, FALSE, 0, FALSE)
<1> DEFINE F == E \cup {n}
<1>1. n \notin C /\ \A i \in F : i \in Nat /\ i <= n
  OBVIOUS
<1>2. \A i \in F : (\A j \in F : j <= i) => i \notin C
  <2> SUFFICES ASSUME NEW i \in F, \A j \in F : j <= i PROVE i \notin C
    OBVIOUS
  <2>1. n <= i /\ i <= n /\ i \in Nat
    BY <1>1
  <2> QED BY <1>1, <2>1
<1>3. ASSUME NEW i \in F, NEW j \in F, i < j, \A k \in F : k <= i \/ k >= j
      PROVE  i \in C <=> j \notin C
  <2>1. i # n /\ i \in E
    <3>1. i < j /\ j <= n /\ i \in Nat /\ j \in Nat
      BY <1>1, <1>3
    <3> QED BY <3>1
  <2>2. CASE j = n
    <3>1. \A k \in E : k <= i
      <4> SUFFICES ASSUME NEW k \in E PROVE k <= i
        OBVIOUS
      <4>1. k < n /\ k \in Nat /\ (k <= i \/ k >= n)
        BY <1>3, <2>2
      <4> QED BY <4>1
    <3>2. i \in C
      BY <2>1, <3>1 DEF Agree
    <3> QED BY <1>1, <2>2, <3>2
  <2>3. CASE j # n
    <3>1. j \in E /\ \A k \in E : k <= i \/ k >= j
      BY <1>3, <2>3
    <3> QED BY <1>3, <2>1, <3>1 DEF Agree
  <2> QED BY <2>2, <2>3
<1> QED
  BY <1>2, <1>3, Zenon DEF Agree

LEMMA AgreeAbsent ==
  ASSUME NEW E, NEW C, NEW shown, NEW waiting, Agree(E, C, FALSE, shown, waiting)
  PROVE  Agree(E, C, FALSE, 0, FALSE)
BY DEF Agree

(* The application handles an arrival: the first event about the id. *)
LEMMA AgreeHandled ==
  ASSUME NEW E \in SUBSET Nat, NEW C \in SUBSET E, NEW in \in BOOLEAN, NEW shown, NEW waiting,
         Agree(E, C, in, shown, waiting),
         NEW n \in E, \A i \in E : n <= i
  PROVE  /\ n \in C => Agree(E \ {n}, C \ {n}, in, shown + 1, FALSE)
         /\ n \notin C /\ (waiting => in) => Agree(E \ {n}, C, in, 0, waiting)
<1> DEFINE F == E \ {n}
<1>0. \A i \in F : i \in E /\ i \in Nat /\ n < i
  <2> SUFFICES ASSUME NEW i \in F PROVE i \in E /\ i \in Nat /\ n < i
    OBVIOUS
  <2>1. i \in E /\ i \in Nat /\ n \in Nat /\ n <= i /\ i # n
    OBVIOUS
  <2> QED BY <2>1
<1>1. \A i \in F : (\A j \in F : j <= i) => (i \in C <=> in)
  <2> SUFFICES ASSUME NEW i \in F, \A j \in F : j <= i PROVE i \in C <=> in
    OBVIOUS
  <2>1. \A j \in E : j <= i
    <3>1. n <= i
      OBVIOUS
    <3> QED BY <3>1
  <2> QED BY <2>1 DEF Agree
<1>2. ASSUME NEW i \in F, NEW j \in F, i < j, \A k \in F : k <= i \/ k >= j
      PROVE  i \in C <=> j \notin C
  <2>1. \A k \in E : k <= i \/ k >= j
    <3>1. n <= i
      OBVIOUS
    <3> QED BY <1>2, <3>1
  <2> QED BY <1>2, <2>1 DEF Agree
(* The next event about the id says the contrary. *)
<1>3. ASSUME NEW i \in F, \A j \in F : i <= j
      PROVE  n \in C <=> i \notin C
  <2>1. n < i /\ i \in E
    BY <1>0
  <2>2. \A k \in E : k <= n \/ k >= i
    <3> SUFFICES ASSUME NEW k \in E, k # n PROVE k >= i
      OBVIOUS
    <3>1. i <= k /\ i \in Nat /\ k \in Nat
      BY <1>3, <1>0
    <3> QED BY <3>1
  <2> QED BY <2>1, <2>2 DEF Agree
<1>4. F = {} => (n \in C <=> in)
  <2> SUFFICES ASSUME F = {} PROVE n \in C <=> in
    OBVIOUS
  <2>1. \A j \in E : j = n /\ n \in Nat
    OBVIOUS
  <2>2. \A j \in E : j <= n
    BY <2>1
  <2> QED BY <2>2 DEF Agree
<1>5. ASSUME n \in C PROVE Agree(F, C \ {n}, in, shown + 1, FALSE)
  <2>1. shown = 0
    BY <1>5 DEF Agree
  <2>2. \A i \in F : i \in C \ {n} <=> i \in C
    OBVIOUS
  <2>3. \A i \in F : (\A j \in F : j <= i) => (i \in C \ {n} <=> in)
    BY <1>1, <2>2
  <2>4. \A i, j \in F : i < j /\ (\A k \in F : k <= i \/ k >= j)
          => (i \in C \ {n} <=> j \notin C \ {n})
    BY <1>2, <2>2
  <2>5. \A i \in F : (\A j \in F : i <= j) => i \notin C \ {n}
    BY <1>3, <1>5, <2>2
  <2>6. F = {} => shown + 1 = (IF in THEN 1 ELSE 0)
    BY <1>4, <1>5, <2>1
  <2> HIDE DEF F
  <2> QED BY <2>3, <2>4, <2>5, <2>6, Zenon DEF Agree
<1>6. ASSUME n \notin C, waiting => in PROVE Agree(F, C, in, 0, waiting)
  <2>1. F = {} => 0 = (IF in THEN 1 ELSE 0) /\ ~waiting
    BY <1>4, <1>6
  <2>2. waiting => \E i \in F : i \in C
    BY <1>6 DEF Agree
  <2> HIDE DEF F
  <2> QED BY <1>1, <1>2, <2>1, <2>2, Zenon DEF Agree
<1> QED BY <1>5, <1>6

(* One position fewer before all of them. *)
LEMMA AgreeShift ==
  ASSUME NEW E \in SUBSET Nat, NEW C \in SUBSET E, NEW in \in BOOLEAN, NEW shown, NEW waiting,
         NEW F \in SUBSET Nat, NEW D \in SUBSET F,
         \A i \in Nat : (i \in F <=> i + 1 \in E) /\ (i \in D <=> i + 1 \in C),
         0 \notin E,
         Agree(E, C, in, shown, waiting)
  PROVE  Agree(F, D, in, shown, waiting)
<1>1. \A i \in F : i \in Nat /\ i + 1 \in E /\ (i \in D <=> i + 1 \in C)
  OBVIOUS
<1>2. \A e \in E : e - 1 \in F /\ e \in Nat /\ (e \in C <=> e - 1 \in D)
  <2> SUFFICES ASSUME NEW e \in E PROVE e - 1 \in F /\ e \in Nat /\ (e \in C <=> e - 1 \in D)
    OBVIOUS
  <2>1. e \in Nat /\ e # 0
    OBVIOUS
  <2>2. e - 1 \in Nat /\ (e - 1) + 1 = e
    BY <2>1
  <2> QED BY <2>1, <2>2
<1>3. ASSUME NEW i \in F, \A j \in F : j <= i PROVE i \in D <=> in
  <2>1. \A e \in E : e <= i + 1
    <3> SUFFICES ASSUME NEW e \in E PROVE e <= i + 1
      OBVIOUS
    <3>1. e - 1 <= i /\ e \in Nat /\ i \in Nat
      BY <1>1, <1>2, <1>3
    <3> QED BY <3>1
  <2>2. i + 1 \in C <=> in
    BY <1>1, <2>1 DEF Agree
  <2> QED BY <1>1, <2>2
<1>4. ASSUME NEW i \in F, NEW j \in F, i < j, \A k \in F : k <= i \/ k >= j
      PROVE  i \in D <=> j \notin D
  <2>1. \A e \in E : e <= i + 1 \/ e >= j + 1
    <3> SUFFICES ASSUME NEW e \in E PROVE e <= i + 1 \/ e >= j + 1
      OBVIOUS
    <3>1. e - 1 <= i \/ e - 1 >= j
      BY <1>2, <1>4
    <3>2. e \in Nat /\ i \in Nat /\ j \in Nat
      BY <1>1, <1>2
    <3> QED BY <3>1, <3>2
  <2>2. i + 1 \in E /\ j + 1 \in E /\ i + 1 < j + 1
    BY <1>1, <1>4
  <2>3. i + 1 \in C <=> j + 1 \notin C
    BY <2>1, <2>2 DEF Agree
  <2> QED BY <1>1, <2>3
<1>5. ASSUME NEW i \in F, \A j \in F : i <= j, i \in D PROVE shown = 0
  <2>1. \A e \in E : i + 1 <= e
    <3> SUFFICES ASSUME NEW e \in E PROVE i + 1 <= e
      OBVIOUS
    <3>1. i <= e - 1 /\ e \in Nat /\ i \in Nat
      BY <1>1, <1>2, <1>5
    <3> QED BY <3>1
  <2> QED BY <1>1, <1>5, <2>1 DEF Agree
<1>6. F = {} => E = {}
  BY <1>2
<1>7. waiting => \E i \in F : i \in D
  <2> SUFFICES ASSUME waiting PROVE \E i \in F : i \in D
    OBVIOUS
  <2>1. PICK e \in E : e \in C
    BY DEF Agree
  <2> QED BY <1>2, <2>1
<1>8. F = {} => shown = (IF in THEN 1 ELSE 0) /\ ~waiting
  BY <1>6 DEF Agree
<1> QED BY <1>3, <1>4, <1>5, <1>7, <1>8, Zenon DEF Agree

LEMMA Positions ==
  ASSUME NEW q, NEW id
  PROVE  /\ About(q, id) \in SUBSET Nat /\ Arrivals(q, id) \in SUBSET About(q, id)
         /\ 0 \notin About(q, id)
         /\ q = <<>> => About(q, id) = {} /\ Arrivals(q, id) = {}
BY DEF About, Arrivals

(* Announcing an order of a set tells each of its members once.            *)
LEMMA Announced ==
  ASSUME NEW q \in Seq(Events), NEW S \in SUBSET Ids, NEW order \in Orders(S), NEW id \in Ids
  PROVE  LET r == q \o Joins(order) IN
         /\ id \notin S => About(r, id) = About(q, id) /\ Arrivals(r, id) = Arrivals(q, id)
         /\ id \in S => \E n \in Nat : /\ \A i \in About(q, id) : i < n
                                       /\ About(r, id) = About(q, id) \cup {n}
                                       /\ Arrivals(r, id) = Arrivals(q, id) \cup {n}
<1> DEFINE r == q \o Joins(order)
           c == Cardinality(S)
           d == Len(q)
<1>1. c \in Nat /\ d \in Nat /\ IsFiniteSet(S)
  BY IdTypes
<1>2. /\ order \in [1..c -> S]
      /\ \A i, j \in 1..c : order[i] = order[j] => i = j
  BY DEF Orders
<1>3. \A x \in S : \E k \in 1..c : order[k] = x
  <2>0. c = Cardinality(S)
    OBVIOUS
  <2> HIDE DEF c, d
  <2>1. order \in Injection(1..c, S)
    BY <1>2 DEF Injection, IsInjective
  <2>2. Cardinality(1..c) = c
    <3>1. Cardinality(1..c) = IF 1 > c THEN 0 ELSE c - 1 + 1
      BY <1>1, FS_Interval
    <3> QED BY <1>1, <3>1
  <2>3. order \in Surjection(1..c, S)
    BY <1>1, <2>0, <2>1, <2>2, FS_Injection
  <2> QED BY <2>3 DEF Surjection
<1>4. /\ Joins(order) \in Seq(Events) /\ Len(Joins(order)) = c
      /\ \A k \in 1..c : Joins(order)[k].type = "PeerConnected" /\ Joins(order)[k].id = order[k]
  <2>1. Joins(order) = [i \in 1..c |-> Connected(order[i])]
    BY <1>2 DEF Joins
  <2>2. Joins(order) \in Seq(Events)
    BY JoinsTypes
  <2> HIDE DEF c
  <2> QED BY <1>1, <2>1, <2>2 DEF Connected
<1>5. /\ Len(r) = d + c
      /\ \A i \in 1..d : r[i] = q[i]
      /\ \A k \in 1..c : r[d + k] = Joins(order)[k]
  <2>1. /\ Len(r) = Len(q) + Len(Joins(order))
        /\ \A i \in 1..(Len(q) + Len(Joins(order))) :
             r[i] = IF i <= Len(q) THEN q[i] ELSE Joins(order)[i - Len(q)]
    BY <1>4, ConcatProperties
  <2>2. \A i \in 1..d : i \in 1..(d + c) /\ i <= d
    BY <1>1
  <2>3. \A k \in 1..c : d + k \in 1..(d + c) /\ ~(d + k <= d) /\ (d + k) - d = k
    <3> HIDE DEF c, d
    <3> QED BY <1>1
  <2> QED BY <1>4, <2>1, <2>2, <2>3
<1> HIDE DEF c, d, r
<1>e. /\ \A k \in 1..c : r[d + k].type = "PeerConnected" /\ r[d + k].id = order[k]
      /\ \A k \in 1..c : order[k] \in S
  BY <1>2, <1>4, <1>5
<1>6. \A i \in 1..(d + c) : i \in 1..d \/ \E k \in 1..c : i = d + k
  <2> SUFFICES ASSUME NEW i \in 1..(d + c), i \notin 1..d PROVE \E k \in 1..c : i = d + k
    OBVIOUS
  <2>1. i - d \in 1..c /\ i = d + (i - d)
    BY <1>1
  <2> QED BY <2>1
<1>7. \A k \in 1..c : d + k \in 1..(d + c) /\ d + k \notin 1..d
  BY <1>1
<1>8. \A i \in 1..d : i \in 1..(d + c)
  BY <1>1
<1>9. \A i : i \in About(q, id) <=> i \in 1..d /\ q[i].id = id
  BY DEF About, d
<1>10. \A i : i \in About(r, id) <=> i \in 1..(d + c) /\ r[i].id = id
  BY <1>5 DEF About
<1>11. CASE id \notin S
  <2>1. \A k \in 1..c : r[d + k].id # id
    BY ONLY <1>e, <1>11
  <2>2. \A i : i \in About(r, id) <=> i \in About(q, id)
    BY ONLY <1>5, <1>6, <1>8, <1>9, <1>10, <2>1
  <2>3. \A i \in About(q, id) : r[i] = q[i]
    BY <1>5, <1>9
  <2>4. About(r, id) = About(q, id)
    BY <2>2
  <2>5. Arrivals(r, id) = Arrivals(q, id)
    BY <2>3, <2>4 DEF Arrivals
  <2> QED BY <1>11, <2>4, <2>5 DEF r
<1>12. CASE id \in S
  <2>1. PICK k \in 1..c : order[k] = id
    BY <1>3, <1>12
  <2> DEFINE n == d + k
  <2>2. n \in Nat /\ \A i \in 1..d : i < n
    BY <1>1
  <2>3. r[n].id = id /\ r[n].type = "PeerConnected" /\ n \in 1..(d + c)
    BY <1>e, <1>7, <2>1
  <2>4. \A j \in 1..c : r[d + j].id = id => d + j = n
    BY ONLY <1>2, <1>e, <2>1
  <2> HIDE DEF n
  <2>5. \A i : i \in About(r, id) <=> i \in About(q, id) \/ i = n
    <3>1. r[n].id = id /\ n \in 1..(d + c)
      BY <2>3
    <3> QED BY ONLY <1>5, <1>6, <1>8, <1>9, <1>10, <2>4, <3>1
  <2>6. \A i \in About(q, id) : r[i] = q[i] /\ i < n
    BY <1>5, <1>9, <2>2
  <2>7. About(r, id) = About(q, id) \cup {n}
    BY <2>5
  <2>8. Arrivals(r, id) = Arrivals(q, id) \cup {n}
    BY <2>3, <2>6, <2>7 DEF Arrivals
  <2> QED BY <1>12, <2>2, <2>6, <2>7, <2>8 DEF r
<1> QED BY <1>11, <1>12 DEF r

(* The events without the first of them, and with one more.                *)
LEMMA Unread ==
  ASSUME NEW q \in Seq(Events), q # <<>>, NEW id
  PROVE  /\ \A i \in Nat : /\ i \in About(Tail(q), id) <=> i + 1 \in About(q, id) \ {1}
                           /\ i \in Arrivals(Tail(q), id) <=> i + 1 \in Arrivals(q, id) \ {1}
         /\ 1 \in About(q, id) <=> Head(q).id = id
         /\ 1 \in Arrivals(q, id) <=> Head(q).id = id /\ Head(q).type = "PeerConnected"
         /\ \A i \in About(q, id) : 1 <= i
<1>1. /\ Len(q) \in Nat /\ Len(q) # 0 /\ Head(q) = q[1]
      /\ Len(Tail(q)) = Len(q) - 1 /\ \A i \in 1..Len(Tail(q)) : Tail(q)[i] = q[i + 1]
  OBVIOUS
<1>2. \A i \in Nat : i \in 1..Len(Tail(q)) <=> i + 1 \in (1..Len(q)) \ {1}
  BY <1>1
<1>3. \A i \in Nat : i \in About(Tail(q), id) <=> i + 1 \in About(q, id) \ {1}
  BY <1>1, <1>2 DEF About
<1>4. \A i \in About(Tail(q), id) : Tail(q)[i] = q[i + 1]
  BY <1>1 DEF About
<1>5. 1 \in 1..Len(q)
  BY <1>1
<1> QED BY <1>1, <1>3, <1>4, <1>5 DEF About, Arrivals

LEMMA OneTold ==
  ASSUME NEW q \in Seq(Events), NEW e \in Events, NEW id
  PROVE  LET r == Append(q, e) IN
         /\ e.id # id => About(r, id) = About(q, id) /\ Arrivals(r, id) = Arrivals(q, id)
         /\ e.id = id /\ e.type = "PeerDisconnected" =>
              /\ About(r, id) = About(q, id) \cup {Len(q) + 1}
              /\ Arrivals(r, id) = Arrivals(q, id)
         /\ Len(q) \in Nat /\ \A i \in About(q, id) : i < Len(q) + 1
<1> DEFINE r == Append(q, e)
           n == Len(q) + 1
<1>1. /\ Len(q) \in Nat /\ Len(r) = n /\ r[n] = e /\ \A i \in 1..Len(q) : r[i] = q[i]
  OBVIOUS
<1>2. \A i : i \in 1..n <=> i \in 1..Len(q) \/ i = n
  BY <1>1
<1>3. n \notin 1..Len(q) /\ \A i \in 1..Len(q) : i < n
  BY <1>1
<1> HIDE DEF r, n
<1>4. \A i : i \in About(r, id) <=> i \in About(q, id) \/ (i = n /\ e.id = id)
  BY <1>1, <1>2, <1>3 DEF About
<1>5. \A i \in About(q, id) : r[i] = q[i] /\ i # n /\ i < n
  BY <1>1, <1>3 DEF About
<1>6. e.id # id => About(r, id) = About(q, id) /\ Arrivals(r, id) = Arrivals(q, id)
  BY <1>4, <1>5 DEF Arrivals
<1>7. e.id = id /\ e.type = "PeerDisconnected" =>
         About(r, id) = About(q, id) \cup {n} /\ Arrivals(r, id) = Arrivals(q, id)
  BY <1>1, <1>4, <1>5 DEF Arrivals
<1> QED BY <1>1, <1>5, <1>6, <1>7 DEF r, n

(* What Agree is said of may be written in another way.                    *)
LEMMA AgreeSame ==
  ASSUME NEW E, NEW C, NEW in, NEW shown, NEW waiting, NEW in2, NEW shown2, NEW waiting2,
         Agree(E, C, in, shown, waiting),
         in <=> in2, waiting <=> waiting2, shown = shown2
  PROVE  Agree(E, C, in2, shown2, waiting2)
BY DEF Agree

LEMMA AgreeAnnounced ==
  ASSUME NEW q \in Seq(Events), NEW S \in SUBSET Ids, NEW order \in Orders(S), NEW id \in Ids,
         NEW in, NEW shown, NEW waiting,
         Agree(About(q, id), Arrivals(q, id), in, shown, waiting),
         id \in S => ~in,
         NEW in2, NEW waiting2,
         in2 <=> in \/ id \in S, waiting2 <=> waiting \/ id \in S
  PROVE  Agree(About(q \o Joins(order), id), Arrivals(q \o Joins(order), id),
               in2, shown, waiting2)
<1> DEFINE r == q \o Joins(order)
           E == About(q, id)
           C == Arrivals(q, id)
<1>0. E \in SUBSET Nat /\ C \in SUBSET E
  BY Positions
<1>a. /\ id \notin S => About(r, id) = E /\ Arrivals(r, id) = C
      /\ id \in S => \E n \in Nat : /\ \A i \in E : i < n
                                    /\ About(r, id) = E \cup {n}
                                    /\ Arrivals(r, id) = C \cup {n}
  BY Announced
<1> HIDE DEF r
<1>1. CASE id \notin S
  <2>1. About(r, id) = E /\ Arrivals(r, id) = C
    BY <1>1, <1>a
  <2>2. Agree(E, C, in, shown, waiting) /\ (in <=> in2) /\ (waiting <=> waiting2)
    BY <1>1
  <2> HIDE DEF E, C
  <2>3. Agree(E, C, in2, shown, waiting2)
    BY <2>2, AgreeSame
  <2> QED BY <2>1, <2>3 DEF r
<1>2. CASE id \in S
  <2>1. PICK n \in Nat : /\ \A i \in E : i < n
                         /\ About(r, id) = E \cup {n}
                         /\ Arrivals(r, id) = C \cup {n}
    BY <1>2, <1>a
  <2>2. Agree(E, C, in, shown, waiting) /\ (in <=> FALSE)
    BY <1>2
  <2> HIDE DEF E, C
  <2>3. Agree(E, C, FALSE, shown, waiting)
    BY ONLY <2>2, Zenon DEF Agree
  <2>4. Agree(E \cup {n}, C \cup {n}, TRUE, shown, TRUE)
    BY <1>0, <2>1, <2>3, AgreeArrival
  <2>5. Agree(E \cup {n}, C \cup {n}, in2, shown, waiting2)
    BY <1>2, <2>4, AgreeSame
  <2> QED BY <2>1, <2>5 DEF r
<1> QED BY <1>1, <1>2

(* Peers that join are announced after what is not read yet.               *)
LEMMA TilesAnnounced ==
  ASSUME TypeOK, TilesInv, NEW S \in SUBSET Ids, S \cap mesh = {},
         mesh' = mesh \cup S, unclaimed' = unclaimed \cup S, UNCHANGED <<tiles, overrun>>,
         NEW order \in Orders(S), news' = news \o Joins(order)
  PROVE  TilesInv'
<1> SUFFICES ASSUME ~overrun, NEW id \in Ids PROVE AgreeOn(id)'
  BY DEF TilesInv
<1>1. AgreeOn(id) /\ news \in Seq(Events)
  BY DEF TilesInv, TypeOK
<1>2. /\ id \in S => ~(id \in mesh)
      /\ id \in mesh' <=> id \in mesh \/ id \in S
      /\ id \in unclaimed' <=> id \in unclaimed \/ id \in S
  OBVIOUS
<1>3. Agree(About(news', id), Arrivals(news', id), id \in mesh', tiles[id], id \in unclaimed')
  <2>1. Agree(About(news, id), Arrivals(news, id), id \in mesh, tiles[id], id \in unclaimed)
    BY <1>1 DEF AgreeOn
  <2>2. /\ news \in Seq(Events) /\ S \in SUBSET Ids /\ order \in Orders(S) /\ id \in Ids
    BY <1>1
  <2> DEFINE in == id \in mesh
             waiting == id \in unclaimed
             in2 == id \in mesh'
             waiting2 == id \in unclaimed'
             shown == tiles[id]
  <2>a. /\ Agree(About(news, id), Arrivals(news, id), in, shown, waiting)
        /\ id \in S => ~in
        /\ in2 <=> in \/ id \in S
        /\ waiting2 <=> waiting \/ id \in S
    BY <1>2, <2>1
  <2> HIDE DEF in, waiting, in2, waiting2, shown
  <2>b. Agree(About(news \o Joins(order), id), Arrivals(news \o Joins(order), id),
              in2, shown, waiting2)
    BY ONLY <2>a, <2>2, AgreeAnnounced
  <2>3. Agree(About(news \o Joins(order), id), Arrivals(news \o Joins(order), id),
              id \in mesh', tiles[id], id \in unclaimed')
    BY <2>b DEF in2, waiting2, shown
  <2>4. news' = news \o Joins(order)
    OBVIOUS
  <2> QED BY ONLY <2>3, <2>4, Zenon
<1> QED BY <1>3 DEF AgreeOn

LEMMA TilesAdd ==
  ASSUME TypeOK, TilesInv, NEW ids \in SUBSET Ids, Add(ids), UNCHANGED tiles
  PROVE  TilesInv'
<1>1. PICK joining \in SUBSET (ids \ mesh) :
        /\ mesh' = mesh \cup joining /\ unclaimed' = unclaimed \cup joining
        /\ \E order \in Orders(joining) : Tell(Joins(order))
  BY Zenon DEF Add
<1>2. PICK order \in Orders(joining) : Tell(Joins(order))
  BY <1>1
<1>3. news' = news \o Joins(order) /\ UNCHANGED overrun
  BY <1>2 DEF Tell
<1>4. joining \in SUBSET Ids /\ joining \cap mesh = {}
  BY <1>1
<1> QED BY <1>1, <1>3, <1>4, TilesAnnounced

(* A mesh that starts anew, with no tiles and a channel of its own.        *)
LEMMA TilesFresh ==
  ASSUME NEW S \in SUBSET Ids, NEW order \in Orders(S),
         mesh' = S, unclaimed' = S, tiles' = NoTiles, news' = Joins(order)
  PROVE  TilesInv'
<1> SUFFICES ASSUME NEW id \in Ids PROVE AgreeOn(id)'
  BY DEF TilesInv
<1>1. Agree(About(<<>>, id), Arrivals(<<>>, id), FALSE, 0, FALSE)
  BY Positions DEF Agree
<1>2. news' = <<>> \o Joins(order)
  BY JoinsTypes, ConcatEmptySeq
<1>3. <<>> \in Seq(Events) /\ tiles'[id] = 0
  BY DEF NoTiles
<1>4. /\ id \in S => ~FALSE
      /\ id \in mesh' <=> FALSE \/ id \in S
      /\ id \in unclaimed' <=> FALSE \/ id \in S
  OBVIOUS
<1>5. Agree(About(news', id), Arrivals(news', id), id \in mesh', 0, id \in unclaimed')
  BY <1>1, <1>2, <1>3, <1>4, AgreeAnnounced
<1> QED BY <1>3, <1>5 DEF AgreeOn

LEMMA TilesLeft == TypeOK /\ TilesInv /\ HandlePeerLeft => TilesInv'
<1> SUFFICES ASSUME TypeOK, TilesInv, HandlePeerLeft PROVE TilesInv'
  OBVIOUS
<1> DEFINE p == Head(inbox).id
           told == IF p \in mesh THEN <<Disconnected(p)>> ELSE <<>>
<1>1. /\ mesh' = mesh \ {p} /\ unclaimed' = unclaimed \ {p}
      /\ news' = news \o told /\ overrun' = overrun
      /\ tiles' = [tiles EXCEPT ![p] = 0]
  BY DEF HandlePeerLeft, WithoutChannels, WithoutTile, Tell
<1>2. p \in Ids
  <2>1. WorldTypes /\ Take("PeerLeft")
    BY TypeParts DEF HandlePeerLeft
  <2> QED BY <2>1, HeadTypes
<1>t. news \in Seq(Events) /\ unclaimed \subseteq mesh /\ tiles \in [Ids -> Nat]
  BY DEF TypeOK
<1> SUFFICES ASSUME ~overrun, NEW id \in Ids PROVE AgreeOn(id)'
  BY <1>1 DEF TilesInv
<1> HIDE DEF p
<1> DEFINE E == About(news, id)
           C == Arrivals(news, id)
<1>3. /\ Agree(E, C, id \in mesh, tiles[id], id \in unclaimed)
      /\ E \in SUBSET Nat /\ C \in SUBSET E
  BY Positions DEF TilesInv, AgreeOn
<1>4. Disconnected(p) \in Events /\ Disconnected(p).id = p
      /\ Disconnected(p).type = "PeerDisconnected"
  BY <1>2, MessageTypes DEF Disconnected
<1>5. /\ p \in mesh => news' = Append(news, Disconnected(p))
      /\ p \notin mesh => news' = news
  <2>1. news \o <<>> = news
    BY <1>t, ConcatEmptySeq
  <2>2. news \o <<Disconnected(p)>> = Append(news, Disconnected(p))
    BY <1>t, <1>4, LastOfAppend
  <2> QED BY <1>1, <2>1, <2>2
<1>6. /\ tiles'[id] = IF id = p THEN 0 ELSE tiles[id]
      /\ id \in mesh' <=> id \in mesh /\ id # p
      /\ id \in unclaimed' <=> id \in unclaimed /\ id # p
  BY <1>1, <1>t
<1> HIDE DEF told
<1>7. CASE id # p
  <2>1. About(news', id) = E /\ Arrivals(news', id) = C
    <3>1. CASE p \in mesh
      <4>1. PICK e \in Events : e = Disconnected(p) BY <1>4
      <4>2. news' = Append(news, e) /\ e.id # id BY <1>4, <1>5, <1>7, <3>1, <4>1
      <4>3. /\ About(Append(news, e), id) = About(news, id)
            /\ Arrivals(Append(news, e), id) = Arrivals(news, id)
        BY <1>t, <4>2, OneTold
      <4> QED BY <4>2, <4>3
    <3>2. CASE p \notin mesh BY <1>5, <3>2
    <3> QED BY <3>1, <3>2
  <2> HIDE DEF E, C
  <2>2. Agree(E, C, id \in mesh', tiles'[id], id \in unclaimed')
    BY <1>3, <1>6, <1>7, AgreeSame
  <2> QED BY <2>1, <2>2 DEF AgreeOn
<1>8. CASE id = p /\ p \in mesh
  <2>1. /\ About(news', id) = E \cup {Len(news) + 1} /\ Arrivals(news', id) = C
        /\ Len(news) + 1 \in Nat /\ \A i \in E : i < Len(news) + 1
    <3>1. news' = Append(news, Disconnected(p)) /\ Disconnected(p).id = id
      BY <1>4, <1>5, <1>8
    <3>2. /\ About(news', id) = E \cup {Len(news) + 1} /\ Arrivals(news', id) = C
          /\ Len(news) \in Nat /\ \A i \in E : i < Len(news) + 1
      BY <1>4, <1>t, <3>1, OneTold
    <3> QED BY <3>2
  <2> DEFINE n == Len(news) + 1
  <2> HIDE DEF E, C, n
  <2>2. Agree(E, C, TRUE, tiles[id], id \in unclaimed)
    BY <1>3, <1>8, AgreeSame
  <2>3. Agree(E \cup {n}, C, FALSE, 0, FALSE)
    <3>1. n \in Nat /\ \A i \in E : i < n
      BY <2>1 DEF n
    <3> QED BY <1>3, <2>2, <3>1, AgreeDeparture
  <2>4. Agree(E \cup {n}, C, id \in mesh', tiles'[id], id \in unclaimed')
    BY <1>6, <1>8, <2>3, AgreeSame
  <2> QED BY <2>1, <2>4 DEF AgreeOn, n
<1>9. CASE id = p /\ p \notin mesh
  <2>1. news' = news
    BY <1>5, <1>9
  <2> HIDE DEF E, C
  <2>2. Agree(E, C, FALSE, tiles[id], id \in unclaimed)
    BY <1>3, <1>9, Zenon DEF Agree
  <2>3. Agree(E, C, FALSE, 0, FALSE)
    BY <2>2, AgreeAbsent
  <2>4. Agree(E, C, id \in mesh', tiles'[id], id \in unclaimed')
    BY <1>6, <1>9, <2>3, AgreeSame
  <2> QED BY <2>1, <2>4 DEF AgreeOn, E, C
<1> QED BY <1>7, <1>8, <1>9

LEMMA TilesEvent == TypeOK /\ TilesInv /\ HandleMeshEvent => TilesInv'
<1> SUFFICES ASSUME TypeOK, TilesInv, HandleMeshEvent PROVE TilesInv'
  OBVIOUS
<1> DEFINE e == Head(news)
<1>1. /\ news # <<>> /\ news' = Tail(news) /\ UNCHANGED <<mesh, overrun>>
      /\ \/ /\ e.type = "PeerConnected"
            /\ unclaimed' = unclaimed \ {e.id}
            /\ tiles' = [tiles EXCEPT ![e.id] = @ + 1]
         \/ /\ e.type = "PeerDisconnected"
            /\ tiles' = [tiles EXCEPT ![e.id] = 0]
            /\ UNCHANGED unclaimed
  BY DEF HandleMeshEvent, WithoutTile
<1>t. news \in Seq(Events) /\ unclaimed \subseteq mesh /\ tiles \in [Ids -> Nat]
  BY DEF TypeOK
<1>2. e \in Events /\ e.id \in Ids
  <2>1. e \in Events
    BY <1>1, <1>t
  <2> QED BY <2>1 DEF Events
<1> SUFFICES ASSUME ~overrun, NEW id \in Ids PROVE AgreeOn(id)'
  BY <1>1 DEF TilesInv
<1> DEFINE E == About(news, id)
           C == Arrivals(news, id)
           F == About(Tail(news), id)
           D == Arrivals(Tail(news), id)
<1>3. /\ Agree(E, C, id \in mesh, tiles[id], id \in unclaimed)
      /\ E \in SUBSET Nat /\ C \in SUBSET E /\ 0 \notin E
      /\ F \in SUBSET Nat /\ D \in SUBSET F
  BY Positions DEF TilesInv, AgreeOn
<1>4. /\ \A i \in Nat : /\ i \in F <=> i + 1 \in E \ {1}
                        /\ i \in D <=> i + 1 \in C \ {1}
      /\ 1 \in E <=> e.id = id
      /\ 1 \in C <=> e.id = id /\ e.type = "PeerConnected"
      /\ \A i \in E : 1 <= i
  BY <1>1, <1>t, Unread
<1>5. AgreeOn(id)' <=> Agree(F, D, id \in mesh', tiles'[id], id \in unclaimed')
  BY <1>1 DEF AgreeOn
<1>6. (id \in mesh) \in BOOLEAN /\ (id \in mesh' <=> id \in mesh)
  BY <1>1
<1> HIDE DEF E, C, F, D, e
<1>shift. ASSUME NEW G \in SUBSET E, G = C \ {1}, NEW shown, NEW waiting,
                 Agree(E \ {1}, G, id \in mesh, shown, waiting)
          PROVE  Agree(F, D, id \in mesh, shown, waiting)
  <2>1. /\ E \ {1} \in SUBSET Nat /\ G \in SUBSET (E \ {1}) /\ 0 \notin E \ {1}
        /\ \A i \in Nat : (i \in F <=> i + 1 \in E \ {1}) /\ (i \in D <=> i + 1 \in G)
    BY <1>3, <1>4, <1>shift
  <2>2. F \in SUBSET Nat /\ D \in SUBSET F
    BY <1>3
  <2> QED BY <1>6, <1>shift, <2>1, <2>2, AgreeShift
<1>7. CASE e.id # id
  <2>1. 1 \notin E /\ 1 \notin C
    BY <1>4, <1>7
  <2>2. E \ {1} = E /\ C \ {1} = C
    BY <2>1
  <2>3. C \in SUBSET E
    BY <1>3
  <2>4. Agree(F, D, id \in mesh, tiles[id], id \in unclaimed)
    BY <1>3, <1>shift, <2>2, <2>3
  <2>5. tiles'[id] = tiles[id] /\ (id \in unclaimed' <=> id \in unclaimed)
    BY <1>1, <1>2, <1>7, <1>t
  <2> QED BY <1>5, <1>6, <2>4, <2>5, AgreeSame
<1>8. CASE e.id = id /\ e.type = "PeerConnected"
  <2>1. 1 \in C /\ 1 \in E
    BY <1>4, <1>8
  <2>2. Agree(E \ {1}, C \ {1}, id \in mesh, tiles[id] + 1, FALSE)
    BY <1>3, <1>4, <1>6, <2>1, AgreeHandled
  <2>3. C \ {1} \in SUBSET E
    BY <1>3
  <2>4. Agree(F, D, id \in mesh, tiles[id] + 1, FALSE)
    BY <1>shift, <2>2, <2>3
  <2>5. tiles'[id] = tiles[id] + 1 /\ (id \in unclaimed' <=> FALSE)
    BY <1>1, <1>2, <1>8, <1>t
  <2>6. Agree(F, D, id \in mesh', tiles'[id], id \in unclaimed')
    BY ONLY <1>6, <2>4, <2>5, Zenon DEF Agree
  <2> QED BY <1>5, <2>6
<1>9. CASE e.id = id /\ e.type = "PeerDisconnected"
  <2>1. 1 \notin C /\ 1 \in E /\ C \ {1} = C
    <3>1. 1 \notin C /\ 1 \in E
      BY <1>4, <1>9
    <3> QED BY <3>1
  <2>2. Agree(E \ {1}, C, id \in mesh, 0, id \in unclaimed)
    BY <1>3, <1>4, <1>6, <1>t, <2>1, AgreeHandled
  <2>3. Agree(F, D, id \in mesh, 0, id \in unclaimed)
    BY <1>3, <1>shift, <2>1, <2>2
  <2>4. tiles'[id] = 0 /\ (id \in unclaimed' <=> id \in unclaimed)
    BY <1>1, <1>2, <1>9, <1>t
  <2> QED BY <1>5, <1>6, <2>3, <2>4, AgreeSame
<1> QED BY <1>1, <1>7, <1>8, <1>9 DEF e

LEMMA TilesStep == TypeOK /\ TilesInv /\ [Next]_vars => TilesInv'
<1> SUFFICES ASSUME TypeOK, TilesInv, [Next]_vars PROVE TilesInv'
  OBVIOUS
<1>1. CASE UNCHANGED view
  BY <1>1 DEF view, TilesInv, AgreeOn
<1>2. CASE Overwrite
  BY <1>2 DEF Overwrite, TilesInv
<1>3. CASE HandlePeerJoined
  <2>1. CASE Head(inbox).id = self
    <3>1. UNCHANGED view
      BY <1>3, <2>1 DEF HandlePeerJoined, view
    <3> QED BY <1>1, <3>1
  <2>2. CASE Head(inbox).id # self
    <3>1. Add({Head(inbox).id}) /\ UNCHANGED tiles /\ Take("PeerJoined")
      BY <1>3, <2>2 DEF HandlePeerJoined
    <3>2. {Head(inbox).id} \in SUBSET Ids
      BY <3>1, HeadTypes, TypeParts
    <3> QED BY <3>1, <3>2, TilesAdd
  <2> QED BY <2>1, <2>2
<1>4. CASE HandlePeerLeft
  BY <1>4, TilesLeft
<1>5. CASE HandleMeshEvent
  BY <1>5, TilesEvent
<1>6. CASE HandleRoomState
  <2>1. PICK id \in Selves(Head(inbox)) :
          IF id = self THEN JoinListed(Head(inbox).ids) ELSE Rebuild(id, Head(inbox).ids)
    BY <1>6 DEF HandleRoomState
  <2>2. Head(inbox).ids \in SUBSET Ids
    <3>1. Take("RoomState") /\ WorldTypes
      BY <1>6, TypeParts DEF HandleRoomState
    <3> QED BY <3>1, HeadTypes
  <2>3. CASE id = self
    <3>1. Add(Others(Head(inbox).ids, self)) /\ UNCHANGED tiles
      BY <2>1, <2>3 DEF JoinListed
    <3>2. Others(Head(inbox).ids, self) \in SUBSET Ids
      BY <2>2 DEF Others
    <3> QED BY <3>1, <3>2, TilesAdd
  <2>4. CASE id # self
    <3>1. Rebuild(id, Head(inbox).ids)
      BY <2>1, <2>4
    <3>2. PICK joining \in SUBSET Others(Head(inbox).ids, id) :
            /\ mesh' = joining /\ unclaimed' = joining /\ tiles' = NoTiles
            /\ \E order \in Orders(joining) : SubscribeFirst(Joins(order))
      BY <3>1, Zenon DEF Rebuild
    <3>3. PICK order \in Orders(joining) : SubscribeFirst(Joins(order))
      BY <3>2
    <3>4. joining \in SUBSET Ids /\ news' = Joins(order)
      BY <2>2, <3>2, <3>3 DEF Others, SubscribeFirst
    <3> QED BY <3>2, <3>4, TilesFresh
  <2> QED BY <2>3, <2>4
<1>7. CASE HandleRoomFull \/ CaptureStarts \/ CaptureFails \/ User \/ UNCHANGED vars
  <2>1. UNCHANGED view
    BY <1>7 DEF HandleRoomFull, CaptureStarts, CaptureFails, User, Leave, SwitchOff, SwitchOn,
       SelectSource, vars
  <2> QED BY <1>1, <2>1
<1>8. CASE Environment
  <2>1. UNCHANGED view \/ Overwrite
    BY <1>8 DEF Environment, PeerJoins, PeerLeaves, ServerNoticesLoss, ConnectionBreaks,
       Reconnect, ServerStores, CaptureEnds
  <2> QED BY <1>1, <1>2, <2>1
<1> QED BY <1>3, <1>4, <1>5, <1>6, <1>7, <1>8 DEF Next, Handlers

LEMMA TilesInit == Init => TilesInv
<1> SUFFICES ASSUME Init, NEW id \in Ids PROVE AgreeOn(id)
  BY DEF TilesInv
<1>1. PICK order \in Orders(mesh) : news = Joins(order)
  BY DEF Init
<1>2. mesh \in SUBSET Ids /\ unclaimed = mesh /\ tiles[id] = 0
  BY TypeInit DEF Init, TypeOK, NoTiles
<1>3. Agree(About(<<>>, id), Arrivals(<<>>, id), FALSE, 0, FALSE)
  BY Positions DEF Agree
<1>4. news = <<>> \o Joins(order) /\ <<>> \in Seq(Events)
  BY <1>1, <1>2, JoinsTypes, ConcatEmptySeq
<1>5. /\ id \in mesh => ~FALSE
      /\ id \in mesh <=> FALSE \/ id \in mesh
      /\ id \in unclaimed <=> FALSE \/ id \in mesh
  BY <1>2
<1>6. Agree(About(news, id), Arrivals(news, id), id \in mesh, 0, id \in unclaimed)
  BY <1>1, <1>2, <1>3, <1>4, <1>5, AgreeAnnounced
<1> QED BY <1>2, <1>6 DEF AgreeOn

LEMMA TilesMean == TypeOK /\ TilesInv => TilesMatch
<1> SUFFICES ASSUME TypeOK, TilesInv, news = <<>>, ~overrun
             PROVE  unclaimed = {} /\ \A id \in Ids : tiles[id] = (IF id \in mesh THEN 1 ELSE 0)
  BY DEF TilesMatch
<1>1. ASSUME NEW id \in Ids
      PROVE  tiles[id] = (IF id \in mesh THEN 1 ELSE 0) /\ id \notin unclaimed
  <2>1. About(news, id) = {}
    BY Positions
  <2> QED BY <2>1 DEF TilesInv, AgreeOn, Agree
<1>2. unclaimed \subseteq Ids
  BY DEF TypeOK
<1> QED BY <1>1, <1>2

-----------------------------------------------------------------------------
(***************************************************************************)
(* The mesh.  Once the application is who the server says, what is on its  *)
(* way to it turns its mesh into the room, one peer at a time and within   *)
(* its capacity; before that, the RoomState that tells it so is on its way *)
(* and what follows it does, or was read and a namesake taken for us.      *)
(***************************************************************************)
Welcome(me, m) == m.type = "RoomState" /\ m.id = me

Moves(me, m, from, to) ==
  \/ m.type = "PeerJoined" /\ m.id # me /\ to = from \cup {m.id}
  \/ m.type = "PeerLeft" /\ to = from \ {m.id}

(* h[j] is the mesh after j messages of q, for i and what follows.          *)
Path(me, q, i, h) ==
  /\ h \in [0..Len(q) -> SUBSET Ids]
  /\ \A j \in (i + 1)..Len(q) : Moves(me, q[j], h[j - 1], h[j])
  /\ \A j \in i..Len(q) : Cardinality(h[j]) <= MeshCapacity

Heading(me, who, from, q, to) ==
  \/ who # me /\ \A j \in 1..Len(q) : ~Welcome(me, q[j])
  \/ \E i \in 0..Len(q) : \E h \in [0..Len(q) -> SUBSET Ids] :
       /\ Path(me, q, i, h) /\ h[Len(q)] = to
       /\ IF i = 0 THEN who = me /\ h[0] = from
          ELSE who # me /\ Welcome(me, q[i]) /\ h[i] = q[i].ids \ {me}
       /\ \A j \in 1..(i - 1) : ~Welcome(me, q[j])

MeshInv == up => Heading(conn, self, mesh, inbox, room \ {conn})

LEMMA AppendFacts ==
  ASSUME NEW S, NEW q \in Seq(S), NEW e \in S
  PROVE  /\ Len(q) \in Nat /\ Len(Append(q, e)) = Len(q) + 1 /\ Append(q, e)[Len(q) + 1] = e
         /\ \A j \in 1..Len(q) : Append(q, e)[j] = q[j]
OBVIOUS

LEMMA TailFacts ==
  ASSUME NEW S, NEW q \in Seq(S), q # <<>>
  PROVE  /\ Len(q) \in Nat \ {0} /\ Tail(q) \in Seq(S) /\ Len(Tail(q)) = Len(q) - 1
         /\ Head(q) = q[1]
         /\ \A j \in 1..(Len(q) - 1) : Tail(q)[j] = q[j + 1]
OBVIOUS

(* Somebody moves while the message of it is sent.                         *)
LEMMA HeadingGrows ==
  ASSUME NEW me, NEW who, NEW from, NEW q \in Seq(Messages), NEW to,
         Heading(me, who, from, q, to),
         NEW e \in Messages, NEW next \in SUBSET Ids, Moves(me, e, to, next),
         Cardinality(next) <= MeshCapacity
  PROVE  Heading(me, who, from, Append(q, e), next)
<1> DEFINE n == Len(q)
           r == Append(q, e)
<1>1. n \in Nat /\ Len(r) = n + 1 /\ r[n + 1] = e /\ \A j \in 1..n : r[j] = q[j]
  BY AppendFacts
<1>2. ~Welcome(me, e)
  BY DEF Welcome, Moves
<1> HIDE DEF n, r
<1>3. \A j \in 1..(n + 1) : j \in 1..n \/ j = n + 1
  BY <1>1
<1>4. CASE who # me /\ \A j \in 1..n : ~Welcome(me, q[j])
  <2>1. \A j \in 1..Len(r) : ~Welcome(me, r[j])
    BY <1>1, <1>2, <1>3, <1>4
  <2>2. Heading(me, who, from, r, next)
    BY <1>4, <2>1 DEF Heading
  <2> QED BY <2>2 DEF r
<1>5. CASE ~(who # me /\ \A j \in 1..n : ~Welcome(me, q[j]))
  <2>1. PICK i \in 0..n, h \in [0..n -> SUBSET Ids] :
          /\ Path(me, q, i, h) /\ h[n] = to
          /\ IF i = 0 THEN who = me /\ h[0] = from
             ELSE who # me /\ Welcome(me, q[i]) /\ h[i] = q[i].ids \ {me}
          /\ \A j \in 1..(i - 1) : ~Welcome(me, q[j])
    BY <1>5 DEF Heading, n
  <2> DEFINE g == [j \in 0..(n + 1) |-> IF j = n + 1 THEN next ELSE h[j]]
  <2>2. /\ g \in [0..(n + 1) -> SUBSET Ids] /\ g[n + 1] = next
        /\ \A j \in 0..n : g[j] = h[j]
    <3>1. \A j \in 0..(n + 1) : j \in 0..n \/ j = n + 1
      BY <1>1
    <3>2. \A j \in 0..n : j \in 0..(n + 1) /\ j # n + 1
      BY <1>1
    <3>3. n + 1 \in 0..(n + 1)
      BY <1>1
    <3> QED BY <3>1, <3>2, <3>3
  <2> HIDE DEF g
  <2>3. i \in Nat /\ i <= n
    BY <1>1
  <2>4. Path(me, r, i, g)
    <3>1. \A j \in (i + 1)..(n + 1) : Moves(me, r[j], g[j - 1], g[j])
      <4> SUFFICES ASSUME NEW j \in (i + 1)..(n + 1) PROVE Moves(me, r[j], g[j - 1], g[j])
        OBVIOUS
      <4>1. CASE j = n + 1
        <5>1. j - 1 = n /\ n \in 0..n
          BY <1>1, <4>1
        <5> QED BY <1>1, <2>1, <2>2, <4>1, <5>1
      <4>2. CASE j # n + 1
        <5>1. j \in (i + 1)..n /\ j \in 1..n /\ j \in 0..n /\ j - 1 \in 0..n
          BY <1>1, <2>3, <4>2
        <5>2. n = Len(q)
          BY DEF n
        <5>3. Moves(me, q[j], h[j - 1], h[j])
          BY <2>1, <5>1, <5>2 DEF Path
        <5> QED BY <1>1, <2>2, <5>1, <5>3
      <4> QED BY <4>1, <4>2
    <3>2. \A j \in i..(n + 1) : Cardinality(g[j]) <= MeshCapacity
      <4> SUFFICES ASSUME NEW j \in i..(n + 1) PROVE Cardinality(g[j]) <= MeshCapacity
        OBVIOUS
      <4>1. CASE j = n + 1
        BY <2>2, <4>1
      <4>2. CASE j # n + 1
        <5>1. j \in i..n /\ j \in 0..n /\ n = Len(q)
          BY <1>1, <2>3, <4>2 DEF n
        <5> QED BY <2>1, <2>2, <5>1 DEF Path
      <4> QED BY <4>1, <4>2
    <3> QED BY <1>1, <2>2, <3>1, <3>2 DEF Path
  <2>5. IF i = 0 THEN who = me /\ g[0] = from
        ELSE who # me /\ Welcome(me, r[i]) /\ g[i] = r[i].ids \ {me}
    <3>1. i # 0 => i \in 1..n
      BY <1>1
    <3>2. g[i] = h[i]
      BY <2>2
    <3> QED BY <1>1, <2>1, <3>1, <3>2
  <2>6. \A j \in 1..(i - 1) : ~Welcome(me, r[j])
    <3>1. \A j \in 1..(i - 1) : j \in 1..n
      BY <1>1, <2>3
    <3> QED BY <1>1, <2>1, <3>1
  <2>7. i \in 0..(n + 1)
    BY <1>1
  <2>8. Heading(me, who, from, r, next)
    BY <1>1, <2>2, <2>4, <2>5, <2>6, <2>7 DEF Heading
  <2> QED BY <2>8 DEF r
<1> QED BY <1>4, <1>5

(* A path goes on from its second point. *)
LEMMA PathTail ==
  ASSUME NEW me, NEW q \in Seq(Messages), q # <<>>, NEW i \in 0..Len(q),
         NEW h \in [0..Len(q) -> SUBSET Ids], Path(me, q, i, h),
         NEW k \in 0..(Len(q) - 1), k + 1 >= i
  PROVE  \E g \in [0..Len(Tail(q)) -> SUBSET Ids] :
           /\ Path(me, Tail(q), k, g)
           /\ \A j \in 0..(Len(q) - 1) : g[j] = h[j + 1]
<1> DEFINE n == Len(q)
           r == Tail(q)
           g == [j \in 0..(n - 1) |-> h[j + 1]]
<1>1. n \in Nat \ {0} /\ Len(r) = n - 1 /\ \A j \in 1..(n - 1) : r[j] = q[j + 1]
  BY TailFacts
<1>2. /\ \A j \in (i + 1)..n : Moves(me, q[j], h[j - 1], h[j])
      /\ \A j \in i..n : Cardinality(h[j]) <= MeshCapacity
      /\ h \in [0..n -> SUBSET Ids] /\ i \in 0..n /\ k \in 0..(n - 1) /\ k + 1 >= i
  BY DEF Path
<1>g. \A j \in 0..(n - 1) : g[j] = h[j + 1]
  OBVIOUS
<1>3. g \in [0..(n - 1) -> SUBSET Ids]
  <2>1. \A j \in 0..(n - 1) : j + 1 \in 0..n
    BY <1>1
  <2> QED BY <1>2, <2>1
<1> HIDE DEF n, r, g
<1>4. \A j \in (k + 1)..(n - 1) : Moves(me, r[j], g[j - 1], g[j])
  <2> SUFFICES ASSUME NEW j \in (k + 1)..(n - 1) PROVE Moves(me, r[j], g[j - 1], g[j])
    OBVIOUS
  <2>1. /\ j + 1 \in (i + 1)..n /\ (j + 1) - 1 = j /\ (j - 1) + 1 = j
        /\ j \in 0..(n - 1) /\ j - 1 \in 0..(n - 1) /\ j \in 1..(n - 1)
    BY <1>1, <1>2
  <2>2. Moves(me, q[j + 1], h[j], h[j + 1])
    BY <1>2, <2>1
  <2>3. r[j] = q[j + 1] /\ g[j - 1] = h[j] /\ g[j] = h[j + 1]
    BY <1>1, <1>g, <2>1
  <2> QED BY <2>2, <2>3
<1>5. \A j \in k..(n - 1) : Cardinality(g[j]) <= MeshCapacity
  <2> SUFFICES ASSUME NEW j \in k..(n - 1) PROVE Cardinality(g[j]) <= MeshCapacity
    OBVIOUS
  <2>1. j + 1 \in i..n /\ j \in 0..(n - 1)
    BY <1>1, <1>2
  <2> QED BY <1>2, <1>g, <2>1
<1>6. Path(me, r, k, g)
  BY <1>1, <1>3, <1>4, <1>5 DEF Path
<1> QED BY <1>1, <1>3, <1>6, <1>g DEF n, r

(* A message is read that says nothing of who we are.                      *)
LEMMA HeadingRead ==
  ASSUME NEW me, NEW who, NEW from, NEW q \in Seq(Messages), NEW to,
         Heading(me, who, from, q, to), q # <<>>, ~Welcome(me, Head(q)),
         NEW now,
         who = me /\ Head(q).type = "PeerLeft" => now = from \ {Head(q).id},
         who = me /\ Head(q).type = "PeerJoined" /\ Head(q).id # me
           /\ Cardinality(from \cup {Head(q).id}) <= MeshCapacity
           => now = from \cup {Head(q).id}
  PROVE  Heading(me, who, now, Tail(q), to)
<1> DEFINE n == Len(q)
           r == Tail(q)
<1>1. /\ n \in Nat \ {0} /\ Len(r) = n - 1 /\ Head(q) = q[1]
      /\ \A j \in 1..(n - 1) : r[j] = q[j + 1]
  BY TailFacts
<1> HIDE DEF n, r
<1>2. \A j \in 1..(n - 1) : j + 1 \in 1..n
  BY <1>1
<1>3. CASE who # me /\ \A j \in 1..n : ~Welcome(me, q[j])
  <2>1. \A j \in 1..Len(r) : ~Welcome(me, r[j])
    BY <1>1, <1>2, <1>3
  <2>2. Heading(me, who, now, r, to)
    BY <1>3, <2>1 DEF Heading
  <2> QED BY <2>2 DEF r
<1>4. CASE ~(who # me /\ \A j \in 1..n : ~Welcome(me, q[j]))
  <2>1. PICK i \in 0..n, h \in [0..n -> SUBSET Ids] :
          /\ Path(me, q, i, h) /\ h[n] = to
          /\ IF i = 0 THEN who = me /\ h[0] = from
             ELSE who # me /\ Welcome(me, q[i]) /\ h[i] = q[i].ids \ {me}
          /\ \A j \in 1..(i - 1) : ~Welcome(me, q[j])
    BY <1>4 DEF Heading, n
  <2>2. CASE i = 0
    <3>1. Moves(me, q[1], h[0], h[1]) /\ Cardinality(h[1]) <= MeshCapacity
      <4>1. 1 \in (i + 1)..n /\ 1 \in i..n /\ n = Len(q) /\ 1 - 1 = 0
        BY <1>1, <2>2 DEF n
      <4> QED BY <2>1, <4>1 DEF Path
    <3>2. h[1] = now
      BY <1>1, <2>1, <2>2, <3>1 DEF Moves
    <3>3. PICK g \in [0..Len(r) -> SUBSET Ids] :
            Path(me, r, 0, g) /\ \A j \in 0..(n - 1) : g[j] = h[j + 1]
      <4>1. 0 \in 0..(n - 1) /\ 0 + 1 >= i
        BY <1>1, <2>2
      <4>2. 0 \in 0..(Len(q) - 1) /\ i \in 0..Len(q) /\ h \in [0..Len(q) -> SUBSET Ids]
        BY <4>1 DEF n
      <4>3. /\ Path(me, q, i, h) /\ 0 + 1 >= i /\ q \in Seq(Messages) /\ q # <<>>
            /\ r = Tail(q) /\ n = Len(q)
        BY <2>1, <4>1 DEF r, n
      <4>4. \E g \in [0..Len(Tail(q)) -> SUBSET Ids] :
              Path(me, Tail(q), 0, g) /\ \A j \in 0..(Len(q) - 1) : g[j] = h[j + 1]
        BY ONLY <4>2, <4>3, PathTail
      <4> QED BY <4>3, <4>4, Zenon
    <3>4. g[0] = now /\ g[n - 1] = to
      <4>1. 0 \in 0..(n - 1) /\ n - 1 \in 0..(n - 1) /\ (n - 1) + 1 = n /\ 0 + 1 = 1
        BY <1>1
      <4> QED BY <2>1, <3>2, <3>3, <4>1
    <3>5. \A j \in 1..(0 - 1) : ~Welcome(me, r[j])
      OBVIOUS
    <3>6. 0 \in 0..Len(r)
      BY <1>1
    <3>7. Heading(me, who, now, r, to)
      BY <1>1, <2>1, <2>2, <3>3, <3>4, <3>5, <3>6 DEF Heading
    <3> QED BY <3>7 DEF r
  <2>3. CASE i # 0
    <3>1. i # 1
      BY <1>1, <2>1, <2>3
    <3>2. i - 1 \in 0..(n - 1) /\ i - 1 # 0 /\ (i - 1) + 1 = i /\ i - 1 \in 1..(n - 1)
      BY <1>1, <2>3, <3>1
    <3>3. PICK g \in [0..Len(r) -> SUBSET Ids] :
            Path(me, r, i - 1, g) /\ \A j \in 0..(n - 1) : g[j] = h[j + 1]
      <4>1. (i - 1) + 1 >= i
        BY <3>2
      <4>2. i - 1 \in 0..(Len(q) - 1) /\ i \in 0..Len(q) /\ h \in [0..Len(q) -> SUBSET Ids]
        BY <3>2 DEF n
      <4> QED BY <2>1, <4>1, <4>2, PathTail DEF n, r
    <3>4. g[n - 1] = to /\ g[i - 1] = h[i] /\ r[i - 1] = q[i]
      <4>1. n - 1 \in 0..(n - 1) /\ (n - 1) + 1 = n
        BY <1>1
      <4> QED BY <1>1, <2>1, <3>2, <3>3, <4>1
    <3>5. \A j \in 1..((i - 1) - 1) : ~Welcome(me, r[j])
      <4>1. \A j \in 1..((i - 1) - 1) : j \in 1..(n - 1) /\ j + 1 \in 1..(i - 1)
        <5>1. i \in Nat /\ i <= n /\ n \in Nat
          BY <1>1, <2>1
        <5> QED BY ONLY <5>1
      <4>2. \A j \in 1..(i - 1) : ~Welcome(me, q[j])
        BY <2>1
      <4>3. \A j \in 1..(n - 1) : r[j] = q[j + 1]
        BY <1>1
      <4> QED BY ONLY <4>1, <4>2, <4>3
    <3>6. who # me /\ Welcome(me, r[i - 1]) /\ g[i - 1] = r[i - 1].ids \ {me}
      BY <2>1, <2>3, <3>4
    <3>7. i - 1 \in 0..Len(r)
      BY <1>1, <3>2
    <3>8. Heading(me, who, now, r, to)
      BY <1>1, <3>2, <3>3, <3>4, <3>5, <3>6, <3>7 DEF Heading
    <3> QED BY <3>8 DEF r
  <2> QED BY <2>2, <2>3
<1> QED BY <1>3, <1>4

(* The RoomState of this connection is read: the application is who it says*)
(* and has the mesh it lists, or takes another for itself.                 *)
LEMMA HeadingWelcome ==
  ASSUME NEW me, NEW who, NEW from, NEW q \in Seq(Messages), NEW to,
         Heading(me, who, from, q, to), q # <<>>, Welcome(me, Head(q)),
         NEW now, NEW mine,
         mine = me /\ Cardinality(Head(q).ids \ {me}) <= MeshCapacity => now = Head(q).ids \ {me}
  PROVE  who # me /\ Heading(me, mine, now, Tail(q), to)
<1> DEFINE n == Len(q)
           r == Tail(q)
<1>1. /\ n \in Nat \ {0} /\ Len(r) = n - 1 /\ Head(q) = q[1]
      /\ \A j \in 1..(n - 1) : r[j] = q[j + 1]
  BY TailFacts
<1> HIDE DEF n, r
<1>2. PICK i \in 0..n, h \in [0..n -> SUBSET Ids] :
        /\ Path(me, q, i, h) /\ h[n] = to
        /\ IF i = 0 THEN who = me /\ h[0] = from
           ELSE who # me /\ Welcome(me, q[i]) /\ h[i] = q[i].ids \ {me}
        /\ \A j \in 1..(i - 1) : ~Welcome(me, q[j])
  <2>1. 1 \in 1..n
    BY <1>1
  <2>2. ~(who # me /\ \A j \in 1..n : ~Welcome(me, q[j]))
    BY <1>1, <2>1
  <2> QED BY <2>2 DEF Heading, n
<1>3. /\ \A j \in (i + 1)..n : Moves(me, q[j], h[j - 1], h[j])
      /\ \A j \in i..n : Cardinality(h[j]) <= MeshCapacity
  BY <1>2 DEF Path, n
<1>4. i = 1
  <2>1. i # 0
    <3>1. i = 0 => 1 \in (i + 1)..n
      BY <1>1
    <3>2. i = 0 => Moves(me, q[1], h[1 - 1], h[1])
      BY <1>3, <3>1
    <3> QED BY <1>1, <3>2 DEF Moves, Welcome
  <2>2. ~(i > 1)
    <3>1. i > 1 => 1 \in 1..(i - 1)
      OBVIOUS
    <3> QED BY <1>1, <1>2, <3>1
  <2> QED BY <1>1, <2>1, <2>2
<1>5. who # me /\ h[1] = Head(q).ids \ {me} /\ Cardinality(h[1]) <= MeshCapacity
  <2>1. i \in i..n
    BY <1>1
  <2> QED BY <1>1, <1>2, <1>3, <1>4, <2>1
<1>6. CASE mine = me
  <2>1. now = h[1]
    BY <1>5, <1>6
  <2>2. PICK g \in [0..Len(r) -> SUBSET Ids] :
          Path(me, r, 0, g) /\ \A j \in 0..(n - 1) : g[j] = h[j + 1]
    <3>1. 0 \in 0..(n - 1) /\ 0 + 1 >= i
      BY <1>1, <1>4
    <3>2. 0 \in 0..(Len(q) - 1) /\ i \in 0..Len(q) /\ h \in [0..Len(q) -> SUBSET Ids]
      BY <3>1 DEF n
    <3> QED BY <1>2, <3>1, <3>2, PathTail DEF n, r
  <2>3. g[0] = now /\ g[n - 1] = to
    <3>1. 0 \in 0..(n - 1) /\ n - 1 \in 0..(n - 1) /\ (n - 1) + 1 = n /\ 0 + 1 = 1
      BY <1>1
    <3> QED BY <1>2, <2>1, <2>2, <3>1
  <2>4. (\A j \in 1..(0 - 1) : ~Welcome(me, r[j])) /\ 0 \in 0..Len(r)
    BY <1>1
  <2>5. Heading(me, mine, now, r, to)
    BY <1>1, <1>6, <2>2, <2>3, <2>4 DEF Heading
  <2> QED BY <1>5, <2>5 DEF r
<1>7. CASE mine # me
  <2>1. \A j \in 1..Len(r) : ~Welcome(me, r[j])
    <3> SUFFICES ASSUME NEW j \in 1..(n - 1) PROVE ~Welcome(me, r[j])
      BY <1>1
    <3>1. j + 1 \in (i + 1)..n
      BY <1>1, <1>4
    <3>2. Moves(me, q[j + 1], h[(j + 1) - 1], h[j + 1])
      BY <1>3, <3>1
    <3> QED BY <1>1, <3>2 DEF Moves, Welcome
  <2>2. Heading(me, mine, now, r, to)
    BY <1>7, <2>1 DEF Heading
  <2> QED BY <1>5, <2>2 DEF r
<1> QED BY <1>6, <1>7

(* A RoomState that is read, whichever, was awaited.                       *)
LEMMA HeadingAwaits ==
  ASSUME NEW me, NEW who, NEW from, NEW q \in Seq(Messages), NEW to,
         Heading(me, who, from, q, to), q # <<>>, Head(q).type \notin {"PeerJoined", "PeerLeft"}
  PROVE  who # me
<1> SUFFICES ASSUME who = me PROVE FALSE
  OBVIOUS
<1>1. Len(q) \in Nat \ {0} /\ Head(q) = q[1]
  BY TailFacts
<1>2. PICK h \in [0..Len(q) -> SUBSET Ids] : Path(me, q, 0, h)
  BY DEF Heading
<1>3. 1 \in (0 + 1)..Len(q)
  BY <1>1
<1>4. Moves(me, q[1], h[1 - 1], h[1])
  BY <1>2, <1>3 DEF Path
<1> QED BY <1>1, <1>4 DEF Moves

LEMMA HeadingOther ==
  ASSUME NEW me, NEW who, NEW from, NEW q, NEW to, Heading(me, who, from, q, to), who # me,
         NEW other, other # me, NEW now
  PROVE  Heading(me, other, now, q, to)
<1>1. CASE \A j \in 1..Len(q) : ~Welcome(me, q[j])
  BY <1>1 DEF Heading
<1>2. CASE ~(\A j \in 1..Len(q) : ~Welcome(me, q[j]))
  <2>1. PICK i \in 0..Len(q), h \in [0..Len(q) -> SUBSET Ids] :
          /\ Path(me, q, i, h) /\ h[Len(q)] = to
          /\ IF i = 0 THEN who = me /\ h[0] = from
             ELSE who # me /\ Welcome(me, q[i]) /\ h[i] = q[i].ids \ {me}
          /\ \A j \in 1..(i - 1) : ~Welcome(me, q[j])
    BY <1>2, Zenon DEF Heading
  <2>2. i # 0
    BY <2>1
  <2> QED BY <2>1, <2>2, Zenon DEF Heading
<1> QED BY <1>1, <1>2

(* We are in the room, and it is not overfull, while the connection works;  *)
(* a RoomState lists an id of ours only if it is our id now, or an older.   *)
RoomInv == Cardinality(room) <= RoomSize /\ (up => conn \in room)

Dated == {m \in Messages : m.type = "RoomState" /\ conn \in m.ids => m.id = conn}
DatedInv == inbox \in Seq(Dated)

(* The others in a room find a place in the mesh. *)
LEMMA OthersFit ==
  ASSUME NEW R \in SUBSET Ids, Cardinality(R) <= RoomSize, NEW c \in R
  PROVE  R \ {c} \in SUBSET Ids /\ Cardinality(R \ {c}) <= MeshCapacity
<1>1. IsFiniteSet(R) /\ Cardinality(R) \in Nat
  BY IdTypes
<1>2. Cardinality(R \ {c}) = Cardinality(R) - 1
  BY <1>1, FS_RemoveElement
<1> QED BY <1>1, <1>2, SessionAssumption

(* A choice that leaves somebody out leaves out nobody that has a place.   *)
LEMMA NobodyLeftOut ==
  ASSUME NEW new \in SUBSET Ids, NEW kept \in SUBSET Ids, NEW joining \in SUBSET new,
         kept \cap new = {},
         joining # new => Cardinality(kept \cup joining) = MeshCapacity,
         Cardinality(kept \cup new) <= MeshCapacity
  PROVE  joining = new
<1> SUFFICES ASSUME joining # new PROVE FALSE
  OBVIOUS
<1>1. PICK x \in new : x \notin joining
  OBVIOUS
<1> DEFINE A == kept \cup joining
<1>2. A \in SUBSET Ids /\ x \notin A /\ A \cup {x} \in SUBSET (kept \cup new)
      /\ kept \cup new \in SUBSET Ids
  BY <1>1
<1>3. IsFiniteSet(A) /\ Cardinality(A) = MeshCapacity
  BY <1>2, IdTypes
<1> HIDE DEF A
<1>4. Cardinality(A \cup {x}) = Cardinality(A) + 1
  BY <1>2, <1>3, FS_AddElement
<1>5. IsFiniteSet(kept \cup new) /\ Cardinality(kept \cup new) \in Nat
      /\ Cardinality(A \cup {x}) <= Cardinality(kept \cup new)
  <2>1. IsFiniteSet(kept \cup new) /\ Cardinality(kept \cup new) \in Nat
    BY <1>2, IdTypes
  <2> QED BY <1>2, <2>1, FS_Subset
<1> QED BY <1>3, <1>4, <1>5, SessionAssumption

LEMMA RoomStep == TypeOK /\ RoomInv /\ [Next]_vars => RoomInv'
<1> SUFFICES ASSUME TypeOK, RoomInv, [Next]_vars PROVE RoomInv'
  OBVIOUS
<1>0. room \in SUBSET Ids /\ IsFiniteSet(room) /\ Cardinality(room) \in Nat
  BY IdTypes DEF TypeOK
<1>1. CASE UNCHANGED <<room, conn>> /\ (up' => up)
  BY <1>1 DEF RoomInv
<1>add. ASSUME NEW x, Cardinality(room) < RoomSize
        PROVE  Cardinality(room \cup {x}) <= RoomSize
  <2>1. CASE x \in room
    <3>1. room \cup {x} = room
      BY <2>1
    <3> QED BY <3>1 DEF RoomInv
  <2>2. CASE x \notin room
    <3>1. Cardinality(room \cup {x}) = Cardinality(room) + 1
      BY <1>0, <2>2, FS_AddElement
    <3> QED BY <1>0, <1>add, <3>1, SessionAssumption
  <2> QED BY <2>1, <2>2
<1>less. ASSUME NEW x PROVE Cardinality(room \ {x}) <= RoomSize
  <2>1. room \ {x} \in SUBSET room /\ room \ {x} \in SUBSET Ids
    BY <1>0
  <2>2. Cardinality(room \ {x}) \in Nat /\ Cardinality(room \ {x}) <= Cardinality(room)
    BY <1>0, <2>1, FS_Subset, IdTypes
  <2> QED BY <1>0, <2>2, SessionAssumption DEF RoomInv
<1>2. ASSUME NEW p \in Peers, PeerJoins(p) PROVE RoomInv'
  <2>1. Cardinality(room) < RoomSize /\ room' = room \cup {p} /\ UNCHANGED <<conn, up>>
    BY <1>2 DEF PeerJoins
  <2>2. Cardinality(room') <= RoomSize
    BY <1>add, <2>1
  <2> QED BY <2>1, <2>2 DEF RoomInv
<1>3. ASSUME NEW p \in Peers, PeerLeaves(p) PROVE RoomInv'
  <2>1. room' = room \ {p} /\ UNCHANGED <<conn, up>>
    BY <1>3 DEF PeerLeaves
  <2>2. up => p # conn
    <3>1. conn \in Nat
      BY <1>0, SessionAssumption DEF TypeOK, OwnIds
    <3> QED BY <1>3, <3>1, SessionAssumption
  <2>3. Cardinality(room') <= RoomSize
    BY <1>less, <2>1
  <2> QED BY <2>1, <2>2, <2>3 DEF RoomInv
<1>4. ASSUME NEW id \in OwnIds, ServerNoticesLoss(id) PROVE RoomInv'
  <2>1. room' = room \ {id} /\ UNCHANGED <<conn, up>> /\ (id # conn \/ ~up)
    BY <1>4 DEF ServerNoticesLoss
  <2>2. Cardinality(room') <= RoomSize
    BY <1>less, <2>1
  <2> QED BY <2>1, <2>2 DEF RoomInv
<1>5. CASE Reconnect
  <2>1. CASE Cardinality(room) < RoomSize
    <3>1. room' = room \cup {conn'}
      BY <1>5, <2>1 DEF Reconnect
    <3>2. Cardinality(room') <= RoomSize
      BY <1>add, <2>1, <3>1
    <3> QED BY <3>1, <3>2 DEF RoomInv
  <2>2. CASE ~(Cardinality(room) < RoomSize)
    BY <1>1, <1>5, <2>2 DEF Reconnect
  <2> QED BY <2>1, <2>2
<1>6. CASE \/ ConnectionBreaks \/ ServerStores \/ Overwrite \/ Handlers \/ HandleMeshEvent \/ User
           \/ (\E kind \in Kinds : CaptureEnds(kind)) \/ UNCHANGED vars
  BY <1>1, <1>6 DEF CaptureEnds, ConnectionBreaks, ServerStores, Overwrite, Handlers, HandlePeerJoined,
     HandlePeerLeft, HandleRoomState, HandleRoomFull, CaptureStarts, CaptureFails,
     HandleMeshEvent, User, Leave, SwitchOff, SwitchOn, SelectSource, vars, server
<1> QED BY <1>2, <1>3, <1>4, <1>5, <1>6 DEF Next, Environment

LEMMA DatedStep == TypeOK /\ IdInv /\ DatedInv /\ [Next]_vars => DatedInv'
<1> SUFFICES ASSUME TypeOK, IdInv, DatedInv, [Next]_vars PROVE DatedInv'
  OBVIOUS
<1>0. /\ inbox \in Seq(Dated) /\ inbox \in Seq(Known) /\ conn \in Nat /\ conn \in OwnIds
      /\ room \in SUBSET Ids
  BY SessionAssumption DEF TypeOK, IdInv, DatedInv, OwnIds
<1>same. ASSUME UNCHANGED conn PROVE Dated' = Dated
  BY <1>same DEF Dated
<1>1. CASE UNCHANGED <<inbox, conn>>
  BY <1>0, <1>1, <1>same DEF DatedInv
<1>2. ASSUME UNCHANGED conn, NEW m \in Messages, m.type # "RoomState",
             inbox' = Append(inbox, m) \/ inbox' = inbox
      PROVE  DatedInv'
  <2>1. m \in Dated
    BY <1>2 DEF Dated
  <2> QED BY <1>0, <1>2, <1>same, <2>1 DEF DatedInv
<1>3. ASSUME NEW p \in Peers, PeerJoins(p) PROVE DatedInv'
  <2>1. PeerJoined(p) \in Messages /\ PeerJoined(p).type # "RoomState"
    BY MessageTypes, IdTypes DEF PeerJoined
  <2>2. UNCHANGED conn /\ (inbox' = Append(inbox, PeerJoined(p)) \/ inbox' = inbox)
    BY <1>3 DEF PeerJoins, Send
  <2> QED BY <1>2, <2>1, <2>2
<1>4. ASSUME NEW id \in Ids, PeerLeaves(id) \/ ServerNoticesLoss(id) PROVE DatedInv'
  <2>1. PeerLeft(id) \in Messages /\ PeerLeft(id).type # "RoomState"
    BY MessageTypes, IdTypes DEF PeerLeft
  <2>2. UNCHANGED conn /\ (inbox' = Append(inbox, PeerLeft(id)) \/ inbox' = inbox)
    BY <1>4 DEF PeerLeaves, ServerNoticesLoss, Send
  <2> QED BY <1>2, <2>1, <2>2
<1>5. CASE Reconnect
  <2>1. CASE Cardinality(room) < RoomSize
    <3>1. /\ conn' = conn + 1 /\ conn < MaxConnections /\ room' = room \cup {conn'}
          /\ inbox' = Append(inbox, RoomState(conn', room'))
      BY <1>5, <2>1 DEF Reconnect
    <3>2. conn' \in OwnIds /\ conn' > conn
      BY <1>0, <3>1, SessionAssumption DEF OwnIds
    <3>3. \A m \in Known : conn' \notin m.ids
      <4>1. ~Given(conn')
        BY <1>0, <3>2, SessionAssumption DEF Given, OwnIds
      <4> QED BY <4>1 DEF Known
    <3>4. Known \subseteq Dated'
      BY <3>3 DEF Known, Dated
    <3>5. RoomState(conn', room') \in Dated'
      <4>1. room' \in SUBSET Ids /\ conn' \in Ids
        BY <1>0, <3>1, <3>2, IdTypes
      <4>2. RoomState(conn', room') \in Messages
        BY <4>1, MessageTypes
      <4>3. RoomState(conn', room').id = conn'
        BY DEF RoomState
      <4> QED BY <4>2, <4>3 DEF Dated
    <3>6. inbox \in Seq(Dated')
      BY <1>0, <3>4, SeqMonotonic
    <3>7. inbox' \in Seq(Dated')
      BY <3>1, <3>5, <3>6
    <3> QED BY <3>7 DEF DatedInv
  <2>2. CASE ~(Cardinality(room) < RoomSize)
    <3>1. UNCHANGED conn /\ inbox' = Append(inbox, RoomFull)
      BY <1>5, <2>2 DEF Reconnect
    <3>2. RoomFull \in Messages /\ RoomFull.type # "RoomState"
      BY MessageTypes DEF RoomFull
    <3> QED BY <1>2, <3>1, <3>2
  <2> QED BY <2>1, <2>2
<1>6. CASE ConnectionBreaks
  <2>1. PICK k \in 0..Len(inbox) : inbox' = SubSeq(inbox, 1, k)
    BY <1>6 DEF ConnectionBreaks
  <2>2. inbox' \in Seq(Dated)
    BY <1>0, <2>1, PartTypes
  <2> QED BY <1>6, <1>same, <2>2 DEF ConnectionBreaks, DatedInv
<1>7. CASE HandlePeerJoined \/ HandlePeerLeft \/ HandleRoomState \/ HandleRoomFull
  <2>1. inbox # <<>> /\ inbox' = Tail(inbox) /\ UNCHANGED conn
    BY <1>7 DEF HandlePeerJoined, HandlePeerLeft, HandleRoomState, HandleRoomFull, Take, server
  <2>2. inbox' \in Seq(Dated)
    BY <1>0, <2>1
  <2> QED BY <1>same, <2>1, <2>2 DEF DatedInv
<1>8. CASE \/ ServerStores \/ Overwrite \/ CaptureStarts \/ CaptureFails \/ HandleMeshEvent
           \/ User \/ (\E kind \in Kinds : CaptureEnds(kind)) \/ UNCHANGED vars
  BY <1>1, <1>8 DEF CaptureEnds, ServerStores, Overwrite, CaptureStarts, CaptureFails,
     HandleMeshEvent, User, Leave, SwitchOff, SwitchOn, SelectSource, vars, server
<1>9. Peers \subseteq Ids /\ OwnIds \subseteq Ids
  BY IdTypes
<1> QED
  BY <1>3, <1>4, <1>5, <1>6, <1>7, <1>8, <1>9 DEF Next, Handlers, Environment

(* What the others do is on its way to us while the connection works.      *)
LEMMA MeshSent ==
  ASSUME TypeOK, TypeOK', RoomInv', MeshInv, UNCHANGED <<conn, self, mesh, up>>,
         NEW e \in Messages, Send(e),
         up => Moves(conn, e, room \ {conn}, room' \ {conn})
  PROVE  MeshInv'
<1> SUFFICES ASSUME up PROVE Heading(conn, self, mesh, inbox', room' \ {conn})
  BY DEF MeshInv
<1>1. inbox' = Append(inbox, e) /\ inbox \in Seq(Messages)
  BY DEF Send, TypeOK
<1>2. room' \ {conn} \in SUBSET Ids /\ Cardinality(room' \ {conn}) <= MeshCapacity
  <2>1. room' \in SUBSET Ids /\ Cardinality(room') <= RoomSize /\ conn \in room'
    BY DEF TypeOK, RoomInv
  <2> QED BY <2>1, OthersFit
<1>3. Heading(conn, self, mesh, inbox, room \ {conn})
  BY DEF MeshInv
<1>4. Moves(conn, e, room \ {conn}, room' \ {conn})
  OBVIOUS
<1>5. Heading(conn, self, mesh, Append(inbox, e), room' \ {conn})
  BY <1>1, <1>2, <1>3, <1>4, HeadingGrows
<1> QED BY <1>1, <1>5

(* A new connection: everything before its RoomState is of another.        *)
LEMMA MeshReconnect ==
  ASSUME TypeOK, TypeOK', IdInv, RoomInv', MeshInv, Reconnect
  PROVE  MeshInv'
<1>1. CASE ~(Cardinality(room) < RoomSize)
  BY <1>1 DEF Reconnect, MeshInv
<1>2. CASE Cardinality(room) < RoomSize
  <2> DEFINE n == Len(inbox)
             c == conn'
             r == inbox'
             to == room' \ {c}
             h == [j \in 0..(n + 1) |-> to]
  <2>1. /\ conn' = conn + 1 /\ r = Append(inbox, RoomState(c, room')) /\ UNCHANGED <<self, mesh>>
    BY <1>2 DEF Reconnect, media, view
  <2>2. inbox \in Seq(Known) /\ n \in Nat /\ conn \in Nat /\ c \in OwnIds /\ Given(self)
    BY SessionAssumption DEF TypeOK, IdInv, OwnIds
  <2>3. to \in SUBSET Ids /\ Cardinality(to) <= MeshCapacity
    <3>1. up'
      BY <1>2 DEF Reconnect
    <3>2. room' \in SUBSET Ids /\ Cardinality(room') <= RoomSize /\ c \in room'
      BY <3>1 DEF TypeOK, RoomInv
    <3> QED BY <3>2, OthersFit
  <2>4. ~Given(c)
    BY <2>1, <2>2, SessionAssumption DEF Given, OwnIds
  <2>5. self # c
    BY <2>2, <2>4
  <2>6. /\ Len(r) = n + 1 /\ r[n + 1] = RoomState(c, room')
        /\ \A j \in 1..n : r[j] = inbox[j] /\ inbox[j] \in Known
    <3>1. RoomState(c, room') \in Messages /\ inbox \in Seq(Messages)
      BY <2>2, MessageTypes, IdTypes DEF TypeOK
    <3>2. \A j \in 1..n : inbox[j] \in Known
      BY <2>2
    <3> QED BY <2>1, <3>1, <3>2, AppendFacts
  <2>7. \A j \in 1..n : ~Welcome(c, r[j])
    <3>1. \A j \in 1..n : Given(r[j].id)
      BY <2>6 DEF Known
    <3> QED BY <2>4, <3>1 DEF Welcome
  <2>8. Welcome(c, r[n + 1]) /\ r[n + 1].ids \ {c} = to
    BY <2>6 DEF RoomState, Welcome
  <2> HIDE DEF n, c, r, to
  <2>9. /\ h \in [0..(n + 1) -> SUBSET Ids] /\ h[n + 1] = to
        /\ \A j \in 0..(n + 1) : h[j] = to
    <3>1. n + 1 \in 0..(n + 1)
      BY <2>2
    <3> QED BY <2>3, <3>1
  <2> HIDE DEF h
  <2>10. Path(c, r, n + 1, h)
    <3>1. \A j \in ((n + 1) + 1)..(n + 1) : FALSE
      BY <2>2
    <3>2. \A j \in (n + 1)..(n + 1) : j \in 0..(n + 1)
      BY <2>2
    <3> QED BY <2>3, <2>6, <2>9, <3>1, <3>2 DEF Path
  <2>11. \A j \in 1..((n + 1) - 1) : ~Welcome(c, r[j])
    <3>1. (n + 1) - 1 = n
      BY <2>2
    <3> QED BY <2>7, <3>1
  <2>12. n + 1 \in 0..(n + 1) /\ n + 1 # 0
    BY <2>2
  <2>13. Heading(c, self, mesh, r, to)
    BY <2>5, <2>6, <2>8, <2>9, <2>10, <2>11, <2>12 DEF Heading
  <2> QED BY <2>1, <2>13 DEF MeshInv, c, r, to
<1> QED BY <1>1, <1>2

(* Reading a message that says who joined or left, or that we did not.     *)
LEMMA MeshRead ==
  ASSUME TypeOK, MeshInv, HandlePeerJoined \/ HandlePeerLeft \/ HandleRoomFull
  PROVE  MeshInv'
<1> DEFINE m == Head(inbox)
<1>1. /\ inbox # <<>> /\ inbox' = Tail(inbox) /\ UNCHANGED <<conn, up, room, self>>
      /\ m.type \in {"PeerJoined", "PeerLeft", "RoomFull"}
  BY DEF HandlePeerJoined, HandlePeerLeft, HandleRoomFull, Take, server
<1> SUFFICES ASSUME up PROVE Heading(conn, self, mesh', Tail(inbox), room \ {conn})
  BY <1>1 DEF MeshInv
<1>2. inbox \in Seq(Messages) /\ Heading(conn, self, mesh, inbox, room \ {conn})
  BY DEF TypeOK, MeshInv
<1>3. ~Welcome(conn, m)
  BY <1>1 DEF Welcome
<1>4. m.type = "PeerLeft" => mesh' = mesh \ {m.id}
  BY DEF HandlePeerJoined, HandlePeerLeft, HandleRoomFull, Take
<1>5. ASSUME self = conn, m.type = "PeerJoined", m.id # conn,
             Cardinality(mesh \cup {m.id}) <= MeshCapacity
      PROVE  mesh' = mesh \cup {m.id}
  <2>1. Add({m.id}) /\ m.id \in Ids
    <3>1. HandlePeerJoined
      BY <1>5 DEF HandlePeerLeft, HandleRoomFull, Take
    <3>2. Take("PeerJoined") /\ WorldTypes
      BY <3>1, TypeParts DEF HandlePeerJoined
    <3>3. m.id \in Ids
      BY <3>2, HeadTypes
    <3> QED BY <1>5, <3>1, <3>3 DEF HandlePeerJoined
  <2> DEFINE new == {m.id} \ mesh
  <2>2. PICK joining \in SUBSET new :
          /\ joining # new => Cardinality(mesh \cup joining) = MeshCapacity
          /\ mesh' = mesh \cup joining
    BY <2>1, Zenon DEF Add
  <2>3. /\ new \in SUBSET Ids /\ mesh \in SUBSET Ids /\ mesh \cap new = {}
        /\ mesh \cup new = mesh \cup {m.id}
    BY <2>1 DEF TypeOK
  <2>4. joining = new
    <3>1. Cardinality(mesh \cup new) <= MeshCapacity
      BY <1>5, <2>3
    <3> HIDE DEF new
    <3> QED BY <2>2, <2>3, <3>1, NobodyLeftOut
  <2> QED BY <2>2, <2>3, <2>4
<1> HIDE DEF m
<1> QED BY <1>1, <1>2, <1>3, <1>4, <1>5, HeadingRead DEF m

(* Reading who we are. *)
LEMMA MeshRoomState ==
  ASSUME TypeOK, DatedInv, MeshInv, HandleRoomState
  PROVE  MeshInv'
<1> DEFINE m == Head(inbox)
<1>1. /\ inbox # <<>> /\ inbox' = Tail(inbox) /\ UNCHANGED <<conn, up, room>>
      /\ m.type = "RoomState"
  BY DEF HandleRoomState, Take, server
<1> SUFFICES ASSUME up PROVE Heading(conn, self', mesh', Tail(inbox), room \ {conn})
  BY <1>1 DEF MeshInv
<1>2. inbox \in Seq(Messages) /\ Heading(conn, self, mesh, inbox, room \ {conn})
  BY DEF TypeOK, MeshInv
<1>3. m \in Dated /\ m.ids \in SUBSET Ids
  <2>1. m \in Dated
    BY <1>1 DEF DatedInv
  <2>2. Take("RoomState") /\ WorldTypes
    BY TypeParts DEF HandleRoomState
  <2> QED BY <2>1, <2>2, HeadTypes
<1>4. self # conn
  <2>1. m.type \notin {"PeerJoined", "PeerLeft"}
    BY <1>1
  <2> QED BY <1>1, <1>2, <2>1, HeadingAwaits
<1>5. PICK id \in Selves(m) : IF id = self THEN JoinListed(m.ids) ELSE Rebuild(id, m.ids)
  BY DEF HandleRoomState
<1>6. self' = id
  BY <1>5 DEF JoinListed, Rebuild
<1> HIDE DEF m
<1>7. CASE Welcome(conn, m)
  <2>1. ASSUME self' = conn, Cardinality(m.ids \ {conn}) <= MeshCapacity
        PROVE  mesh' = m.ids \ {conn}
    <3> DEFINE others == m.ids \ {conn}
    <3>1. Rebuild(conn, m.ids)
      BY <1>4, <1>5, <1>6, <2>1
    <3>2. PICK joining \in SUBSET others :
            /\ joining # others => Cardinality(joining) = MeshCapacity
            /\ mesh' = joining
      BY <3>1, Zenon DEF Rebuild, Others
    <3>3. /\ others \in SUBSET Ids /\ {} \in SUBSET Ids /\ {} \cap others = {}
          /\ {} \cup others = others /\ {} \cup joining = joining
      BY <1>3
    <3>4. joining = others
      <4>1. joining \in SUBSET others /\ Cardinality({} \cup others) <= MeshCapacity
            /\ (joining # others => Cardinality({} \cup joining) = MeshCapacity)
        BY <2>1, <3>2, <3>3
      <4> HIDE DEF others
      <4> QED BY <3>3, <4>1, NobodyLeftOut
    <3> QED BY <3>2, <3>4
  <2> QED BY <1>1, <1>2, <1>7, <2>1, HeadingWelcome DEF m
<1>8. CASE ~Welcome(conn, m)
  <2>1. id # conn
    <3>1. m.id # conn /\ conn \notin m.ids
      BY <1>1, <1>3, <1>8 DEF Welcome, Dated, m
    <3> QED BY <1>5, <3>1 DEF Selves
  <2>2. Heading(conn, self, mesh, Tail(inbox), room \ {conn})
    <3>1. ~Welcome(conn, Head(inbox))
      BY <1>8 DEF m
    <3> QED BY <1>1, <1>2, <1>4, <3>1, HeadingRead
  <2> QED BY <1>4, <1>6, <2>1, <2>2, HeadingOther
<1> QED BY <1>7, <1>8

LEMMA MeshStep == TypeOK /\ IdInv /\ RoomInv /\ DatedInv /\ MeshInv /\ [Next]_vars => MeshInv'
<1> SUFFICES ASSUME TypeOK, IdInv, RoomInv, DatedInv, MeshInv, [Next]_vars PROVE MeshInv'
  OBVIOUS
<1>0. TypeOK' /\ RoomInv'
  BY TypeStep, RoomStep
<1>1. CASE UNCHANGED <<self, mesh, inbox, conn, up, room>>
  BY <1>1 DEF MeshInv
<1>2. ASSUME NEW p \in Peers, PeerJoins(p) PROVE MeshInv'
  <2>1. room' = room \cup {p} /\ Send(PeerJoined(p)) /\ UNCHANGED <<conn, self, mesh, up>>
    BY <1>2 DEF PeerJoins, view
  <2>2. p # conn /\ PeerJoined(p) \in Messages
    BY MessageTypes, IdTypes, SessionAssumption DEF TypeOK, OwnIds
  <2>3. Moves(conn, PeerJoined(p), room \ {conn}, room' \ {conn})
    BY <2>1, <2>2 DEF Moves, PeerJoined
  <2> QED BY <1>0, <2>1, <2>2, <2>3, MeshSent
<1>3. ASSUME NEW id \in Ids, PeerLeaves(id) \/ ServerNoticesLoss(id) PROVE MeshInv'
  <2>1. room' = room \ {id} /\ Send(PeerLeft(id)) /\ UNCHANGED <<conn, self, mesh, up>>
    BY <1>3 DEF PeerLeaves, ServerNoticesLoss, view
  <2>2. PeerLeft(id) \in Messages
    BY MessageTypes
  <2>3. Moves(conn, PeerLeft(id), room \ {conn}, room' \ {conn})
    BY <2>1 DEF Moves, PeerLeft
  <2> QED BY <1>0, <2>1, <2>2, <2>3, MeshSent
<1>4. CASE Reconnect
  BY <1>0, <1>4, MeshReconnect
<1>5. CASE ConnectionBreaks
  BY <1>5 DEF ConnectionBreaks, MeshInv
<1>6. CASE HandlePeerJoined \/ HandlePeerLeft \/ HandleRoomFull
  BY <1>6, MeshRead
<1>7. CASE HandleRoomState
  BY <1>7, MeshRoomState
<1>8. CASE \/ ServerStores \/ Overwrite \/ CaptureStarts \/ CaptureFails \/ HandleMeshEvent
           \/ User \/ (\E kind \in Kinds : CaptureEnds(kind)) \/ UNCHANGED vars
  BY <1>1, <1>8 DEF CaptureEnds, ServerStores, Overwrite, CaptureStarts, CaptureFails,
     HandleMeshEvent, User, Leave, SwitchOff, SwitchOn, SelectSource, vars, server, view
<1>9. Peers \subseteq Ids /\ OwnIds \subseteq Ids
  BY IdTypes
<1> QED
  BY <1>2, <1>3, <1>4, <1>5, <1>6, <1>7, <1>8, <1>9 DEF Next, Handlers, Environment

LEMMA MeshInit == Init => RoomInv /\ DatedInv /\ MeshInv
<1> SUFFICES ASSUME Init PROVE RoomInv /\ DatedInv /\ MeshInv
  OBVIOUS
<1>1. /\ room \in SUBSET Ids /\ Cardinality(room) <= RoomSize /\ conn = 1 /\ 1 \in room
      /\ inbox = <<>> /\ mesh = room \ {self}
  BY TypeInit DEF Init, TypeOK
<1>2. RoomInv /\ DatedInv
  BY <1>1 DEF RoomInv, DatedInv
<1>3. Heading(1, self, mesh, <<>>, room \ {1})
  <2>1. CASE self # 1
    BY <2>1 DEF Heading
  <2>2. CASE self = 1
    <3> DEFINE to == room \ {1}
               h == [j \in 0..0 |-> to]
    <3>1. to \in SUBSET Ids /\ Cardinality(to) <= MeshCapacity
      BY <1>1, OthersFit
    <3> HIDE DEF to
    <3>2. h \in [0..0 -> SUBSET Ids] /\ h[0] = to /\ \A j \in 0..0 : h[j] = to
      BY <3>1
    <3> HIDE DEF h
    <3>3. Len(<<>>) = 0 /\ 0 \in 0..0 /\ (\A j \in (0 + 1)..0 : FALSE)
          /\ \A j \in 1..(0 - 1) : ~Welcome(1, <<>>[j])
      OBVIOUS
    <3>4. Path(1, <<>>, 0, h)
      BY <3>1, <3>2, <3>3 DEF Path
    <3>5. mesh = to
      BY <1>1, <2>2 DEF to
    <3>6. Heading(1, self, mesh, <<>>, to)
      BY <2>2, <3>2, <3>3, <3>4, <3>5 DEF Heading
    <3> QED BY <3>6 DEF to
  <2> QED BY <2>1, <2>2
<1> QED BY <1>1, <1>2, <1>3 DEF MeshInv

LEMMA MeshMeans == MeshInv => MeshIsRoom
<1> SUFFICES ASSUME MeshInv, Quiet, self = conn PROVE mesh = room \ {conn}
  BY DEF MeshIsRoom
<1>1. Heading(conn, self, mesh, <<>>, room \ {conn})
  BY DEF MeshInv, Quiet
<1>2. Len(<<>>) = 0 /\ \A i \in 0..0 : i = 0
  OBVIOUS
<1>3. PICK i \in 0..0, h \in [0..0 -> SUBSET Ids] :
        /\ h[0] = room \ {conn}
        /\ IF i = 0 THEN self = conn /\ h[0] = mesh
           ELSE self # conn
  BY <1>1, <1>2 DEF Heading
<1> QED BY <1>2, <1>3

(* If the application took itself for who it is, then once all has been    *)
(* delivered its mesh holds the others in the room and nobody else; if no  *)
(* event of the mesh was overwritten, each peer it holds has one tile and  *)
(* its channels are claimed once the events are read.  A namesake, a ghost *)
(* of ours or an overrun is excluded; joins, leaves, breaks, reconnects    *)
(* and late reads are not (handle_signal, rebuild_for_reconnect,           *)
(* handle_mesh_event).                                                     *)
THEOREM ViewStaysRoom == Spec => []ViewIsRoom
<1> DEFINE I == TypeOK /\ IdInv /\ RoomInv /\ DatedInv /\ MeshInv /\ TilesInv
<1>1. Init => I
  BY TypeInit, IdInit, MeshInit, TilesInit
<1>2. I /\ [Next]_vars => I'
  BY TypeStep, IdStep, RoomStep, DatedStep, MeshStep, TilesStep
<1>3. I => ViewIsRoom
  BY MeshMeans, TilesMean DEF ViewIsRoom
<1> QED BY <1>1, <1>2, <1>3, PTL DEF Spec

-----------------------------------------------------------------------------
(***************************************************************************)
(* An application that took somebody else for itself.  It never stops      *)
(* being itself while its connection works, so what it has sent under the  *)
(* id the server knows it by was sent by one that still knows who it is.   *)
(***************************************************************************)
Senders == {outbox[i].id : i \in 1..Len(outbox)}

StrangerInv ==
  /\ \A id \in Senders : Given(id)
  /\ up => (conn \in Senders => self = conn) /\ (self # conn => stored = {})

(* Who has sent what is on its way, by what became of the queue. *)
LEMMA SendersOfPart ==
  ASSUME outbox \in Seq(States), NEW k \in 1..(Len(outbox) + 1),
         outbox' = SubSeq(outbox, k, Len(outbox))
  PROVE  Senders' \subseteq Senders
<1>1. /\ Len(outbox) \in Nat /\ Len(outbox') = Len(outbox) - k + 1
      /\ \A i \in 1..(Len(outbox) - k + 1) : outbox'[i] = outbox[k + i - 1]
  OBVIOUS
<1>2. \A i \in 1..(Len(outbox) - k + 1) : k + i - 1 \in 1..Len(outbox)
  BY <1>1
<1> QED BY <1>1, <1>2 DEF Senders

LEMMA SendersOfTail ==
  ASSUME outbox \in Seq(States), outbox # <<>>, outbox' = Tail(outbox)
  PROVE  Senders' \subseteq Senders /\ Head(outbox).id \in Senders
<1>1. /\ Len(outbox) \in Nat \ {0} /\ Len(outbox') = Len(outbox) - 1 /\ Head(outbox) = outbox[1]
      /\ \A i \in 1..(Len(outbox) - 1) : outbox'[i] = outbox[i + 1]
  BY TailFacts
<1>2. 1 \in 1..Len(outbox) /\ \A i \in 1..(Len(outbox) - 1) : i + 1 \in 1..Len(outbox)
  BY <1>1
<1> QED BY <1>1, <1>2 DEF Senders

LEMMA SendersOfJoined ==
  ASSUME outbox \in Seq(States), NEW s \in Seq(States), outbox' = outbox \o s
  PROVE  Senders' \subseteq Senders \cup {s[i].id : i \in 1..Len(s)}
<1>1. /\ Len(outbox) \in Nat /\ Len(s) \in Nat /\ Len(outbox') = Len(outbox) + Len(s)
      /\ \A i \in 1..Len(outbox) : outbox'[i] = outbox[i]
      /\ \A i \in 1..Len(s) : outbox'[Len(outbox) + i] = s[i]
  OBVIOUS
<1>2. ASSUME NEW i \in 1..(Len(outbox) + Len(s)), i \notin 1..Len(outbox)
      PROVE  i - Len(outbox) \in 1..Len(s) /\ outbox'[i] = s[i - Len(outbox)]
  <2>1. i - Len(outbox) \in 1..Len(s) /\ Len(outbox) + (i - Len(outbox)) = i BY <1>1, <1>2
  <2> QED BY <1>1, <2>1
<1> QED BY <1>1, <1>2 DEF Senders

LEMMA SendersOfOne ==
  ASSUME outbox \in Seq(States), NEW e \in States,
         outbox' = Append(outbox, e) \/ outbox' = outbox \o <<e>>
  PROVE  Senders' \subseteq Senders \cup {e.id}
<1>1. <<e>> \in Seq(States) /\ Len(<<e>>) = 1 /\ <<e>>[1] = e OBVIOUS
<1>2. outbox' = outbox \o <<e>> BY LastOfAppend
<1>3. Senders' \subseteq Senders \cup {<<e>>[i].id : i \in 1..Len(<<e>>)}
  BY <1>1, <1>2, SendersOfJoined
<1>4. {<<e>>[i].id : i \in 1..Len(<<e>>)} = {e.id} BY <1>1
<1> QED BY <1>3, <1>4

(* A step that sends at most under our own name. *)
LEMMA StrangerKept ==
  ASSUME StrangerInv, IdInv', UNCHANGED conn, up' => up, up /\ self = conn => self' = conn,
         Senders' \subseteq Senders \cup {self'},
         stored' = stored \/ conn \in Senders
  PROVE  StrangerInv'
<1>1. \A id : Given(id)' <=> Given(id) BY DEF Given
<1>2. Given(self') BY <1>1 DEF IdInv
<1> QED BY <1>1, <1>2 DEF StrangerInv

LEMMA StrangerStep ==
  TypeOK /\ IdInv /\ MeshInv /\ StrangerInv /\ [Next]_vars => StrangerInv'
<1> SUFFICES ASSUME TypeOK, IdInv, MeshInv, StrangerInv, [Next]_vars PROVE StrangerInv' OBVIOUS
<1>0. /\ IdInv' /\ TypeOK' /\ outbox \in Seq(States) /\ self \in Ids /\ local \subseteq Kinds
      /\ conn \in Nat /\ conn \in OwnIds /\ self' \in Ids /\ local' \subseteq Kinds
  <2>1. IdInv' /\ TypeOK' BY IdStep, TypeStep
  <2>2. outbox \in Seq(States) /\ self \in Ids /\ local \subseteq Kinds /\ conn \in OwnIds
    BY TypeParts DEF WorldTypes, AppTypes
  <2>3. conn \in Nat BY <2>2, SessionAssumption DEF OwnIds
  <2>4. self' \in Ids /\ local' \subseteq Kinds BY <2>1 DEF TypeOK
  <2> QED BY <2>1, <2>2, <2>3, <2>4
<1>1. CASE UNCHANGED <<self, conn, up, outbox, stored>>
  BY <1>1 DEF StrangerInv, Given, Senders
<1>2. CASE ConnectionBreaks
  <2>1. PICK k \in 1..(Len(outbox) + 1) : outbox' = SubSeq(outbox, k, Len(outbox))
    BY <1>2 DEF ConnectionBreaks
  <2>2. Senders' \subseteq Senders BY <1>0, <2>1, SendersOfPart
  <2>3. UNCHANGED <<conn, self, stored>> /\ (up' => up) BY <1>2 DEF ConnectionBreaks
  <2> QED BY <1>0, <2>2, <2>3, StrangerKept
<1>3. CASE ServerStores
  <2>1. Senders' \subseteq Senders /\ Head(outbox).id \in Senders
    BY <1>0, <1>3, SendersOfTail DEF ServerStores
  <2>2. UNCHANGED <<conn, self, up>> /\ (stored' = stored \/ conn \in Senders)
    BY <1>3, <2>1 DEF ServerStores
  <2> QED BY <1>0, <2>1, <2>2, StrangerKept
<1>4. CASE Reconnect
  <2>1. CASE Cardinality(room) < RoomSize
    <3>1. /\ conn' = conn + 1 /\ stored' = {} /\ UNCHANGED <<outbox, self>>
          /\ conn < MaxConnections
      BY <1>4, <2>1 DEF Reconnect
    <3>2. conn' \in OwnIds /\ conn' \in Nat /\ conn <= conn'
      BY <1>0, <3>1, SessionAssumption DEF OwnIds
    <3>3. ~Given(conn') BY <1>0, <3>1, <3>2 DEF Given
    <3>4. Senders' = Senders /\ \A id \in Senders : Given(id) /\ Given(id)'
      BY <1>0, <3>1, <3>2, KnownGrows DEF StrangerInv, Senders
    <3> QED BY <3>1, <3>3, <3>4 DEF StrangerInv
  <2>2. CASE ~(Cardinality(room) < RoomSize)
    BY <1>1, <1>4, <2>2 DEF Reconnect
  <2> QED BY <2>1, <2>2
<1>5. ASSUME NEW kind \in Kinds, SwitchOff(kind) \/ SwitchOn(kind) PROVE StrangerInv'
  <2>1. outbox' = Append(outbox, MediaState(self, local')) /\ UNCHANGED <<self, conn, up, stored>>
    BY <1>5 DEF SwitchOff, SwitchOn, server
  <2>2. MediaState(self, local') \in States /\ MediaState(self, local').id = self
    BY <1>0, MessageTypes DEF MediaState
  <2> QED BY <1>0, <2>1, <2>2, SendersOfOne, StrangerKept
<1>6. CASE CaptureStarts \/ CaptureFails
  <2>1. UNCHANGED <<self, conn, up, stored>> BY <1>6 DEF CaptureStarts, CaptureFails, server
  <2>2. MediaState(self, local') \in States /\ MediaState(self, local').id = self
    BY <1>0, MessageTypes DEF MediaState
  <2> DEFINE one == <<MediaState(self, local')>>
  <2>3. one \in Seq(States) /\ <<>> \in Seq(States) /\ one \o one \in Seq(States)
        /\ one \o <<>> = one
    BY <2>2
  <2>4. PICK s \in {<<>>, one, one \o one} : outbox' = outbox \o s
    <3>1. FinalState \in {<<>>, one} BY DEF FinalState
    <3>2. CASE CaptureStarts BY <1>6, <3>1, <3>2 DEF CaptureStarts
    <3>3. CASE CaptureFails
      <4>1. outbox' = (outbox \o one) \o FinalState BY <3>3 DEF CaptureFails, Reverted
      <4>2. outbox' = outbox \o (one \o FinalState) BY <1>0, <2>3, <3>1, <4>1
      <4> QED BY <2>3, <3>1, <4>2
    <3> QED BY <1>6, <3>2, <3>3
  <2>5. \A i \in 1..Len(s) : s[i].id = self
    <3>1. CASE s = <<>> BY <3>1
    <3>2. CASE s = one BY <2>2, <3>2
    <3>3. CASE s = one \o one
      <4>1. s = <<MediaState(self, local'), MediaState(self, local')>> BY <2>2, <3>3, Pair
      <4>2. \A i \in 1..2 : i = 1 \/ i = 2 OBVIOUS
      <4> QED BY <2>2, <4>1, <4>2
    <3> QED BY <2>4, <3>1, <3>2, <3>3
  <2>6. s \in Seq(States) BY <2>3, <2>4
  <2> HIDE DEF one
  <2>7. Senders' \subseteq Senders \cup {s[i].id : i \in 1..Len(s)}
    BY <1>0, <2>4, <2>6, SendersOfJoined
  <2>8. Senders' \subseteq Senders \cup {self'} BY <2>1, <2>5, <2>7
  <2> QED BY <1>0, <2>1, <2>8, StrangerKept
<1>7. CASE HandleRoomState
  <2>1. PICK id \in Selves(Head(inbox)) :
          IF id = self THEN JoinListed(Head(inbox).ids) ELSE Rebuild(id, Head(inbox).ids)
    BY <1>7 DEF HandleRoomState
  <2>2. UNCHANGED <<conn, up, stored>> BY <1>7 DEF HandleRoomState, server
  <2>3. CASE id = self BY <1>1, <2>1, <2>2, <2>3 DEF JoinListed
  <2>4. CASE id # self
    <3>1. self' = id /\ outbox' = IF starting' = <<>> THEN FreshState(id) ELSE outbox
      BY <2>1, <2>4 DEF Rebuild
    <3>2. MediaState(id, local) \in States /\ MediaState(id, local).id = id
      BY <1>0, <3>1, MessageTypes DEF MediaState
    <3>3. Senders' \subseteq Senders \cup {self'}
      <4>1. CASE starting' = <<>>
        BY <1>0, <3>1, <3>2, <4>1, SendersOfOne DEF FreshState
      <4>2. CASE starting' # <<>> BY <3>1, <4>2 DEF Senders
      <4> QED BY <4>1, <4>2
    <3>4. up => self # conn
      <4>1. inbox \in Seq(Messages) /\ inbox # <<>> /\ Head(inbox).type = "RoomState"
        BY <1>7 DEF HandleRoomState, Take, TypeOK
      <4>2. Head(inbox).type \notin {"PeerJoined", "PeerLeft"} BY <4>1
      <4> QED BY <4>1, <4>2, HeadingAwaits DEF MeshInv
    <3> QED BY <1>0, <2>2, <3>3, <3>4, StrangerKept
  <2> QED BY <2>3, <2>4
<1>8. CASE \/ HandlePeerJoined \/ HandlePeerLeft \/ HandleRoomFull \/ HandleMeshEvent
           \/ Leave \/ Overwrite \/ (\E kind \in Kinds : SelectSource(kind) \/ CaptureEnds(kind))
           \/ UNCHANGED vars
  BY <1>1, <1>8 DEF HandlePeerJoined, HandlePeerLeft, HandleRoomFull, HandleMeshEvent, Leave,
     Overwrite, SelectSource, CaptureEnds, vars, server
<1>9. CASE \/ \E q \in Peers : PeerJoins(q) \/ PeerLeaves(q)
           \/ \E id \in OwnIds : ServerNoticesLoss(id)
  BY <1>1, <1>9 DEF PeerJoins, PeerLeaves, ServerNoticesLoss
<1> QED BY <1>2, <1>3, <1>4, <1>5, <1>6, <1>7, <1>8, <1>9 DEF Next, Handlers, User, Environment

(* Whatever fails, breaks and reconnects, once all has been delivered the   *)
(* server shows to late joiners what the application shows (`Fresh state    *)
(* for the server`, rebuild_for_reconnect), and of one that took somebody   *)
(* else for itself nothing.                                                 *)
THEOREM ServerAlwaysKnows == Spec => []ServerKnowsMedia
<1> DEFINE I == TypeOK /\ IdInv /\ RoomInv /\ DatedInv /\ MeshInv /\ CopyInv /\ StrangerInv
<1>1. Init => I
  <2>1. Init => CopyInv BY DEF Init, CopyInv, Latest
  <2>2. Init => StrangerInv
    <3> SUFFICES ASSUME Init PROVE StrangerInv OBVIOUS
    <3>1. Senders = {} /\ stored = {} BY DEF Init, Senders
    <3> QED BY <3>1 DEF StrangerInv
  <2> QED BY <2>1, <2>2, TypeInit, IdInit, MeshInit
<1>2. I /\ [Next]_vars => I'
  BY TypeStep, IdStep, RoomStep, DatedStep, MeshStep, CopyStep, StrangerStep
<1>3. I => ServerKnowsMedia
  BY DEF CopyInv, Latest, StrangerInv, ServerKnowsMedia, Quiet
<1> QED BY <1>1, <1>2, <1>3, PTL DEF Spec

(* Both together: what is said, sent, opened and stored agree, on any       *)
(* schedule of failures, reconnects and captures that end by themselves     *)
(* (start_camera_session, start_screen_session, rebuild_for_reconnect).     *)
THEOREM MediaStaysKnown == Spec => []MediaIsKnown
<1>1. MediaAgrees /\ ServerKnowsMedia => MediaIsKnown
  BY DEF MediaIsKnown
<1> QED BY <1>1, MediaAlwaysAgrees, ServerAlwaysKnows, PTL

=============================================================================
