# Zancord in TLA+

Zancord is a peer-to-peer voice, video and screen-sharing room for up to six
people, in two generations: a native one (Rust, `zancord-native/`) and a web one
(`server.js` and the PWA under `src/`). Media flows directly between peers over
WebRTC. What can go wrong between the parts is in who is in a room and who was
told so, in how a pair of peers agrees on what it sends, and in the threads,
queues and awaits between a user's command and the media it is about. This
directory models those, checks the models with TLC and proves the main facts
with TLAPS.

## Inventory

| part | state it keeps | operations | what is hard | what makes it correct |
|---|---|---|---|---|
| room registry, `room.rs` | rooms, peers and their media state, one broadcast channel per room | `join`, `leave`, `publish`, `update_media_state`, each under one lock | joins and leaves interleaving; a bounded channel that overwrites | capacity; no empty room; snapshot and events leave no gap |
| connection task, `handler.rs` | the room, the peer id, the channel's receiver | handshake, relay loop, clean-up | failures between steps; two lock acquisitions for one message | whoever joined leaves; members and late joiners agree |
| rate limiter, `rate_limit.rs` | four token buckets per connection | `take_at` | fractional refill | never more than the rate allows |
| signaling client, `client.rs` | connection state, two bounded queues, shutdown watch | `connect`, `send`, `events`, `disconnect`; task: connect, join, relay, back off | two threads on shared watches; reconnects; back-pressure both ways | rejoin first; order; nothing lost but by a broken connection; the task stops |
| negotiation, `negotiation.rs` | making_offer, renegotiate_pending, a mutex | offer, answer, request | tracks change during a cycle | no glare; nothing forgotten; agreement |
| mesh and peer connections, `mesh.rs`, `peer.rs` | peers, buffered signals, enabled tracks | join, leave, route, toggle | signals before the peer; reconnect with new ids | one connection per peer; buffers emptied |
| media bridges, `bridge.rs`, `rtcp.rs`, `h264_rtp.rs` | sequence numbers, keyframe limiter, fragment buffer | receive loops | 16-bit wrap-around, loss, reordering | no frame replayed; no frame of two pieces; feedback is heard |
| application, `app.rs` | mesh, sessions, local media state | commands, signals, mesh events, reconnect | one task that both reads and fills its queues; undoing half-done toggles | state shown, sent and real agree |
| audio pipeline, `pipeline.rs` | last sequence per stream, mixer, devices | `tick`, control commands | control and frames from different threads | no frame twice; settings survive |
| devices and signal processing, `capture.rs`, `playback.rs`, `resampler.rs`, `processor.rs`, `codec.rs` | two rings, accumulated samples, the gate's gain, the meter's interval | callbacks, drain, downmix, resample, gate, encode | callbacks share rings with a thread that drains them in pieces; devices are switched meanwhile | no sample twice, out of order or held back; channels stay together |
| capture sessions, `screen_share.rs`, `camera.rs`, `bitrate.rs` | stop flag, congestion hints | start, stop, hints | threads that outlive the session | stop ends the thread |
| web server, `server.js` | rooms, current room per socket, rate-limit windows | join, leave, signal, chat, state | a socket that joins twice; leave that does not unsubscribe | a socket is in one room; none after it left |
| web client, `RoomManager.ts`, `PeerManager.ts`, `MediaManager.ts`, `main.ts` | socket, peers, roles, streams | join, reconnect, perfect negotiation, share | awaits inside handlers; glare | one connection per live peer; agreement |
| web chat, `ChatManager.ts`, `main.ts`, `server.js` | messages, unread count, one per page | write, delete, clear, relay | one event for what the user did and what came from the room | a page sends what its user did |
| rest of the user interfaces, video codecs, platform capture, configuration | | | | not modelled: rendering, platform APIs, floating point |

How the native parts meet: the server's task of a connection puts events on the
socket; the client's task puts them in a bounded queue; the application's one
task reads that queue and calls the mesh, which drives a `Negotiator` per peer;
what the mesh wants to say goes through another bounded queue back to the same
application task and through the client to the server. `PROJECT.json` lists
every hazard of the code with the properties that would catch it.

## Modules

Each module of the first table is one part of the system; nothing in it is
shared but through the interfaces named in the text below it.

| module | models | checked by | proofs |
|---|---|---|---|
| `SignalingServer` | `room.rs`, `handler.rs` | `server_safety`, `server_liveness` | `SignalingServerProofs` |
| `Presence` | what the server promises about presence, abstractly | `server_safety` (`KeepsPromise`) | `SignalingServerProofs` |
| `SignalingClient` | `client.rs`, the application as its user | `client` | `SignalingClientProofs` |
| `Negotiation` | `negotiation.rs` on both sides, the tracks of `peer.rs` and `mesh.rs` | `negotiation` | `NegotiationProofs` |
| `Session` | `app.rs` with the peers and events of `mesh.rs` | `session` | `SessionProofs` |
| `Audio` | `pipeline.rs`, `playback.rs`, the receive loop of `bridge.rs`, the audio commands of `app.rs` | `audio` | `AudioProofs` |
| `AudioDevices` | `capture.rs`, `playback.rs`, `resampler.rs`, `processor.rs`, `codec.rs`, the capture side of `pipeline.rs` | `audio_devices` | `CaptureProofs` |
| `Video` | `camera.rs`, `screen_share.rs`, `bitrate.rs`, `rtcp.rs`, `h264_rtp.rs`, the video loops of `bridge.rs` | `video` | `CaptureProofs` |
| `WebRooms` | the rooms of `server.js`, `RoomManager.ts`, the peers of `PeerManager.ts`, the cards of `UIRenderer.ts` | `web_rooms` | `WebRoomsProofs` |
| `WebNegotiation` | the perfect negotiation of `PeerManager.ts` | `web_negotiation` | `WebPageProofs` |
| `WebMedia` | `MediaManager.ts`, `toggleScreenShare` of `main.ts`, `AudioProcessor.ts`, the quality dialog, what `UIRenderer.ts` plays | `web_media` | `WebPageProofs` |
| `WebChat` | `ChatManager.ts`, its forwarding in `main.ts`, the relay of `server.js` | `web_chat` | |

`MCSignalingServer`, `MCWebRooms` and `MCAudio` only add symmetry and constants
for TLC. Definitions called `Mut...` are plausible mistakes in the definition
that follows them; `PROJECT.json` says which property each of them breaks. They
are part of no specification.

How the native modules compose: `Session` takes from `SignalingServer` and
`SignalingClient` what their properties say (ordered events, a fresh id, what a
lost connection loses); `Negotiation` is one pair of the mesh of `Session`, and
assumes the order that the server gives; `Video` and `Audio` start where a pair
is connected. `AudioDevices` is the other half of the audio thread's tick: the
samples between the two devices and the frames that `Audio` and the transport
exchange; of `Audio` it keeps only that a tick may fail and that a mixed frame
may come. `Video` has the handlers that `Session` treats as one capture
that starts or fails, with the thread they start. The web modules compose in
the same way: `WebRooms` makes the pairs of `WebNegotiation`, `WebMedia` decides
on the tracks it negotiates, and `WebChat` has the messages of the members.

### SignalingServer

One websocket connection is one element of `Conns` and stands for its peer id,
because `join` draws a fresh uuid. `pc` says where its task is; the stages are
the points between which `handle_socket` awaits. The methods of `RoomManager`
run under the `RwLock`, so `Join`, `JoinFull`, `Leave` and `Broadcast` are one
step each. `MediaState` takes the lock twice (store, publish) and is therefore
two actions. The broadcast channel of a room is modelled per receiver: `events`
is what the receiver has still to read, at most `ChannelCapacity` events, the
oldest overwritten; `lag` says that it was overrun and whether `recv` reported
it. `view` is what the client at the other end knows after the messages it got.
A connection that has reached `Break` or failed before it has its receiver
dropped. What the limiter refuses is a message the server ignores before it does
anything with it, and this server's clients are told nothing of it: the model
allows that by never obliging a client to speak.

### SignalingClient

`task` is the background task (`run` and `session`), `app` the task of the
application. They share `outgoing`, `events`, `state` and `shutdown`; each
access by one of them that the other can observe is a step, so `disconnect` is
two steps and `run`'s report of a new connection is not one with the end of
`connect_async`. `wire` records what was written to which connection. The server
speaks only after it has seen the `JoinRoom`, and a broken connection may still
hold part of what had arrived; what was written to it, and any number of writes
into it once it is dead (`sink.send` returns `Ok` until the socket notices), may
have reached nobody (`Reach`, `MayBeLost`).

### Negotiation

A pair of peers, `offerer` (smaller id) and `answerer`. `stage` is where the
task holding the `Negotiator`'s mutex is between two awaits; `Toggle` (camera,
screen) does not take the mutex and may fall anywhere. Descriptions are sets of
tracks. The webrtc crate is external: signaling state, one report of
"negotiation needed" until the next return to stable, and the rule that an
answer has the media lines of its offer. `Tracks` are tracks of one kind, all
video; the microphone has its own line. The errors that `create_offer` and the
descriptions may return (`?` in `negotiation.rs:151-159` and `187-199`) and the
sound that goes with a shared screen (`mesh.rs:263`) are left out.

### Session

The application is one task, so a handler of its select loop is one action. The
exception is a handler that opens a capture device or the screen picker
(`spawn_blocking`, seconds): `starting` is what it has still to start, and
`CaptureStarts` and `CaptureFails` go on from there while the world moves.
`rebuild_for_reconnect` may start two, one after the other. `self` is both
`self_id` and the mesh's `local_id`, `armed` is what the mesh was told to send,
`sessions` the camera and screen sessions it holds, `local` what is shown.
`ended` are the sessions whose thread has ended by itself (`CaptureEnds`: the
device is lost, the shared window closed, the encoder fails), which nothing in
the application notices. `news` is the mesh's
broadcast channel and `unclaimed` the peers whose incoming channels nobody has
taken; the channel's capacity of 32 is not counted, because events that are not
modelled fill it too: `Overwrite` may lose the oldest event at any time, and
`overrun` remembers that it did.

The server and the client are external here and do what `SignalingServer` and
`SignalingClient` show: events in order, a lost connection loses a suffix of
what comes and a prefix of what goes, a fresh id per connection, a state stored
only by its owner. The server's own overrun is left out, so the events of a
connection have no gaps. A ghost is our old id while the server has not noticed
the loss; `GhostsLinger` says whether we may be back before that. The microphone
flag (a flag and a message, no capture), chat and the signals of WebRTC are left
out; deafening and the audio settings are in `Audio`. The server's cleaning of user names is as well:
a name that it changes (one of more than 24 characters) is never found in a
`RoomState`, so the application does not get past joining with one.

### Audio

`phase` and `work` are where the audio thread is in its tick: it is cut at
every `try_recv` and at every frame it conceals or decodes, and the application
and the tasks that forward frames fill its queues in between. Frames carry their
true number `n`, of which the code sees `Wire(n)`, the RTP number; `heard` keeps
the true number of the last frame decoded, `last` what `last_seq` has. `has` are
the settings as the pipeline has them, `wants` as the application shows them.
One decoder serves all members, so any frame may decode to any level, or not at
all; a failed decoding ends the tick. `lost`, `missed`, `revived` and `deaf`
remember the known losses (full queue, no playback, a new mixer, a frame behind
a removal), so that the properties can say that there are no others. The capture
direction is in `AudioDevices`.

### AudioDevices

The samples of the microphone and of the speaker, one by one. `Deliver` and
`Play` are the callbacks for one sample, and may run between any two of the
audio thread's steps, which is cut at every pop of the ring and every push into
it (`phase` says in which part of the tick it is). A sample is the number under
which the device delivered it, so order, repetition and loss can be told, and so
can its channel: its number modulo `Channels`. What it sounds like is left out,
and with it the filter, the interpolation and Opus; the resampler's ratio is
open, between `MinYield` and `MaxYield` samples for each chunk. The gain of the
gate is counted in steps of its release, of which an attack step makes
`AttackStep`. There may be no microphone (`capture`); an output device is
assumed to be there. `overflowed` is the code's counter; `torn`, `blended`,
`resampled`, `hush` and `played` are history.

### Video

One outgoing video, a camera or a screen, and its way to one member. `handler`
is the application's task (`set_camera_enabled` and the like, with the blocking
open and the join), `thread` the capture thread, `rtcp` the loop that reads the
sender's RTCP, `feedback` the broadcast channel between them, `queue` the frames
to the send loop and `unit` the member's depacketizer. Congestion is taken by
the `frame_skip` it results in. Time is open: an interval may have elapsed at
any step. What the network loses is any subset of a frame's packets: `MayArrive` is the
states of the depacketizer after a packet that may be lost, `OfUnit` after the
fragments of a unit, `Received` after all packets of a frame.

### WebRooms

A page gets a new socket id at every connection, so `<<browser, session>>`
identifies a socket. `wire` goes to the server, `inbox` to the page; Socket.IO
keeps what is emitted while disconnected and sends it first afterwards, and the
server may notice a broken connection after the page is back. One room is
enough: a page joins one. `owed` are the peers to
whom a first offer is still due. The server may refuse any signal and any state
of a member: its limits (`server.js:180`, `server.js:229`) count the messages of
the last second, and time is open here. `stale`, `outsiders` and `unheard` are
history: a page that lost a connection, peers that called from outside the room,
and sockets whose last state was refused.

### WebNegotiation

Every handler is an async function; what it awaits are operations of an
`RTCPeerConnection`, which the browser carries out one after the other. So
`chain` is each page's queue of operations, a handler checks the state when the
message arrives, and acts on it when its turn comes. `polite` is decided by the
ids. The RTCPeerConnection is external, modelled from how `PeerManager.ts` uses
it. `received` and `agreed` relate what the pages know of each other's tracks.
Left out: the candidates of the page that answers (`PeerManager.ts:96`; those of
the page that offers are there), the lines that an answer cannot have when its
offer lacks them, and signals that the server's limit refuses.

### WebMedia

One page. `calls` is where each call of `toggleScreenShare` waits (the picker,
the quality dialog, the constraints), since the browser, the user and the peers
act meanwhile and nothing stops a second call. `epoch` counts microphone
switches; `sends` is the epoch of the stream that each member gets. `overlapped`
and `lateEnd` are history: the two cases in which the code is known not to do
what it says, and outside of which it is checked to.

### WebChat

Two pages exchange messages, deletions and clears through the relay. `main.ts`
listens to the same events for the user's own deletions and for those that came
from the room; see the findings.

## Runs

| run | instance | what it shows |
|---|---|---|
| `server_safety` | 3 connections, 2 rooms, 2 places, channel of 3, 1 message each, 2 media states | registry, what clients see, refinement of `Presence` |
| `server_liveness` | 3 connections, 1 room, 2 places, channel of 2 | `ViewsCatchUp`: who was not overrun is told in the end |
| `client` | queues of 1, 3 sends, 2 connections, 2 events each | order, and nothing lost but the end of a connection that broke; the task neither stalls nor outlives its handle |
| `negotiation` | 2 tracks, 2 toggles per side | one cycle at a time, no request swallowed, agreement, tracks arrive |
| `session` | 2 peers, one with our name, 3 places, 2 connections, 2 commands or ends of a capture, ghosts | media, sessions and the server's copy agree; mesh and tiles are the room |
| `audio` | 1 member, 4 frames over 3 wire numbers, 2 devices, queues of 1, 2 commands | rings, settings, removals, the end; no frame is replayed |
| `audio_devices` | 2 channels, rings of 2, scratch of 3, frames of 2, chunks that become 1 to 3 samples, 6 samples, 2 mixed frames, 1 command | sound is whole and in order, channels stay together, the gate fades |
| `video` | queues of 1, skips up to 3, 2 RTCP packets, 2 commands | depacketizer, feedback, one of every N frames; a session stops, key frames keep coming |
| `web_rooms` | 2 pages with 2 connections each, 1 break, 1 click, 3 places | members known, ghosts explained, cards as the server has them and as told unless refused |
| `web_negotiation` | 2 versions of each page's tracks, 1 restart, 3 offers per page | glare resolves; stable means agreed |
| `web_media` | 2 shares, 2 microphone switches, 1 member | what is shared is what the page says, and heard is who the user wants |
| `web_chat` | 2 pages, 1 kept message, 2 clicks | finding: deletions and clears echo (the trace is a clear) |

Bounds. Three connections are the fewest with a member, a joiner and a peer that
leaves meanwhile; with two places one of them can find the room full. A channel
of 3 (2 in the liveness run) is overrun by the joins, leaves and messages of the
others, so both the overrun and the normal case occur. The constants of the code
(6 places, 128 events, 64 and 256 queue entries) only move the boundary; queues
of 1 put every operation next to it. Two connections are one reconnect: nothing
remembers more than the last. Two toggles per side put a toggle in every gap of
a cycle and another in the cycle it causes; the second track is what makes lines
and tracks differ. Two peers in `session` can join and leave in every order
around a reconnect, one of them can be a namesake, and with our ghost they fill
the room; two commands are the fewest that have both captures live at a
reconnect. `MaxToggles` counts the captures that end by themselves as well, so a
command and an end, but not what the user does with both captures after an end,
which the proof covers.

In `audio`, four frames over three wire numbers are the fewest that begin again
with one to spare, and one member that talks meets every boundary of the queues
of 1; members share no state in the pipeline but those queues and the decoder,
which is open anyway. In `audio_devices` the scratch is no multiple of the
channels (4096 is none of every device's either), so a drain can end in the
middle of a device frame; six samples fill and overrun a ring of two and make a
frame with some to spare, and one command switches a device or the gate in every
state. In `video`, two commands are on and off, or on and another
device; two RTCP packets are a change of the skip and a second one, or a request
that overruns the channel of 1; a `MaxSkip` of 3 is the first at which a change
of skip can move the next multiple. In `web_rooms` a page can be back under a new id while its old one is
still in the room, and with that ghost two pages fill the three places. One click
per page is one state, heard or refused; that a later one is heard after a
refused one is left to the proof, because two clicks take too long. In
`web_negotiation` three offers per page are one collision, the offer made again
and one more; a second version of the tracks is a change during an exchange. In
`web_media` two shares can overlap at every await, and a second switch can begin
while the first waits. `MaxMessages`, `MaxSends`, `MaxSamples`, `MaxMixed`, `MaxConnections`, `MaxInbound`,
`MaxToggles`, `MaxFrames`, `MaxCommands`, `MaxFeedback`, `MaxSessions`,
`MaxBreaks`, `MaxClicks`, `MaxQueue`, `MaxTracks`, `MaxRestarts`, `MaxOffers`,
`MaxShares` and `MaxSwitches` bound counters in the guards and nothing else.

Several properties of a run are conjunctions of named parts that one question
asks: `ClientsSeeTheRoom`, `WireIsFaithful`, `CycleIsSound`, `MediaIsKnown`,
`ViewIsRoom`, `PeersMatchTheRoom`, `NegotiationSettles`, `CommandsArrive`,
`SoundIsWhole`.

Deadlock is not checked in any run because the systems may rightly end: all
connections gone, the client disconnected, both peers agreed, the application
left, the audio thread stopped, the bounds used up.

Symmetry is used in `server_safety` and `web_rooms` only, where no property is a
liveness property and none names a connection, a room or a page.

## Fairness

The native tasks run on tokio, which polls every task that is ready; the
`RwLock` is fair; `select!` picks among ready branches at random. So weak
fairness is given to each step a task can take by itself, and strong fairness
only to the client's `StopRequested`, a branch that is ready at every visit to
the select but not in between. Sends to a socket are assumed to end, well or
not: `SendRoomState \/ SendRoomStateFails` is fair, neither alone. A half-open
TCP connection violates that until the kernel gives up; the code has no timeout
of its own (see the hazard at `handler.rs:100`). No fairness is given to what
users, clients of the server or the network do, to the server in
`SignalingClient`, or to toggles. In `Negotiation` both sides hear of each other
(`Connect`), which is `ViewsCatchUp` of the server, and messages are neither
lost nor reordered, which is what the server gives a receiver that is not
overrun.

In `Video` the capture thread, the send loop and the handlers are an operating
system thread and tasks that run when they can, so each is weakly fair, and
`IntervalElapses` is time that passes. `NextFrame` and `Encode` are strongly
fair: a running device goes on delivering frames that a thread which keeps
asking will get, and an encoder that is given frames for ever does not refuse
all of them. Without these `KeyframesKeepComing` would only say that a broken
device sends nothing. `Audio`, `Session` and the web modules have no liveness
properties and no fairness: their promises are about what is true when all has
been delivered, which needs none.

## What is proved

For every set of connections and rooms, every capacity and every channel size,
from `ServerAssumption` alone (finite `Conns`, positive capacities, distinct
null values), in `SignalingServerProofs`:

- `TypeCorrect`, `CapacityHolds`, `RoomsNeverLeak`, `SubscribersAreMembers`,
  and the three of them together as `RegistryStaysConsistent`. The inductive invariant is `RegistryInv`: the type
  invariant, every connection past the handshake has a room, members of a room
  are connections of that room that have joined, every served connection is a
  member, registered rooms are exactly the non-empty ones, and no room exceeds
  the capacity. The clause on membership is needed because `leave` deletes the
  room by looking only at who remains; without "a served connection is a member"
  the deletion could strand a subscriber.
- `ServerKeepsPromise`: `Spec => Promise!Spec`, the
  refinement of `Presence`. Its invariant `PresenceInv` adds `Hearsay` (what is
  queued for a connection or known to it concerns peers that entered its own
  room, and a queued `PeerLeft` or a forgotten peer really left) and `SelfAware`
  (a served client knows itself). Every step of the server is then one abstract
  step or a stutter.
- `ViewsAddUp`: of a client whose channel was not overrun, what it knows with
  what is queued for it is the room. The property looks at the result of folding
  a queue; `ViewsInv` says instead which peers have their last event in the
  queue or none there, which a step can preserve.
- `ClientsAlwaysSeeTheRoom`: that, and the same for media states, for clients
  that speak only for themselves (`FALSE \notin Claims`; with `AnyClaim` it is
  false, see the findings). `StoredFirst` says that a state stored and not yet
  published is its owner's last, `StatesInv` that a state in the room's map is
  the one last queued for, or known to, every other client of the room.

For every capacity, backoff table and bound, from `ClientAssumption`:

- `ClientTypeCorrect`: the invariant `TypeInv` adds that a message being sent
  has a number, that what the task holds to write is not a `JoinRoom`, and that
  what can be read of a connection was sent on it.
- `RejoinsFirst`: `WireInv` says which connection the last item written belongs
  to at each stage; only that makes "once per connection" survive a step.
- `SendsAreOrdered`: `OrderInv` splits the property into written, held and
  queued, and bounds each by the last send accepted, which is what a new send
  needs in order to be the newest.
- `OnlyBreaksEverLose`: `LossInv` follows the queue by its numbers. What waits is
  the last sends accepted, without a gap (`QueueIsWhole`); the last message the
  server got of a working connection is the one before those (`LastIsKnown`); and
  within a connection numbers follow each other (`NoGaps`). How many messages go
  down with a connection is open, so the proof bounds where, not how much.
- `EventsAreOrdered`: the application reads what a connection was sent in order,
  once and without gaps. What was read, what is queued, what the task holds and
  what is still in the socket follow each other; the invariant says so for each
  neighbouring pair, because the property only looks at the ends.

`WireStaysFaithful` is `RejoinsFirst`, `SendsAreOrdered` and `OnlyBreaksEverLose`
together. All are in `SignalingClientProofs`.

For any peers, names, capacities and bounds, from `SessionAssumption` (finite
`Peers` that are no numbers, a room that fits the mesh), in `SessionProofs`:

- `MediaAlwaysAgrees`: between two events `local = armed = sessions`. It is about
  the sessions the application holds; whether their threads still run is
  `CapturesWhatItSays`, which does not hold. It is
  not inductive, because it is false while a capture starts: `MediaInv` adds
  that `starting` is one of four queues, that there are sessions for what is shown without
  what is still to start, and that the mesh sends in addition the first of the
  queue. A rebuild, which stops everything and starts it again, and a failure in
  the middle of it keep that.
- `ServerAlwaysKnows`: `CopyInv` says that the last media state under way to the
  server, or the stored one if none is, is the one shown, and that a rebuild in
  progress still owes it. That is of a connection the application knows by its id;
  where it takes another for itself the server stores nothing, because what is
  under way names an id that is not the connection's (`StrangerInv`). That
  a new connection cannot be one it already knows is `IdInv`, which bounds every
  id of ours that is in use or in a queue by the connections so far.
- `MediaStaysKnown` is the two together.
- `ViewStaysRoom`: once all has been delivered the mesh is the room, if the
  application knows its own id, and the tiles are the mesh, if no event of the
  mesh was overwritten. The property speaks only of the quiet states, so the
  invariant has to say what every state on the way to one owes. `MeshInv`: the
  signals in the inbox, from the `RoomState` of this connection on, lead the mesh
  to the room, along a path of meshes none of which exceeds the capacity; before
  that `RoomState` is read nothing is asked of the mesh, which it replaces.
  `RoomInv` bounds the room, and with it the last mesh of the path; `DatedInv`
  and `IdInv` say that no message is about a connection still to come, which is
  why a `RoomState` of an earlier connection is not taken for this one's. `TilesInv`: the
  events about one id in the mesh's channel alternate, and end with whether the
  mesh holds it; a peer whose next event is its connection has no tile, and one
  without events has a tile exactly if the mesh holds it.
- `SessionTypeCorrect`: inductive as it stands; the work is in the cardinality
  of the mesh when peers join, leave and are replaced.

For any tracks, messages and number of toggles, in `NegotiationProofs`:

- `CycleStaysSound` and `NegotiationTypeCorrect`, from `CycleInv`. It looks at
  the messages under way by their kinds: the offerer has at most one offer under
  way, the answerer one of the six sequences of requests and an answer. `OneCycle`
  says that the description of a cycle is in exactly one of three places (the
  offer, the answerer's task, the answer) while the offerer waits for an answer,
  and in none otherwise. `Marks` says which of the six sequences go with a
  pending request: a request before the answer is marked when it arrives and
  acted on with the answer, one behind the answer is not yet. The property alone
  is not inductive, because counting the parts of a cycle forgets their order.
- `NoToggleIsForgotten`: when nothing is under way each side's description, and
  the other's copy of it, has the tracks of now. `AgreeInv` adds to `CycleInv`
  what the descriptions under way contain (`Descriptions`), and that a side at
  rest whose tracks are not those it has described has a callback still to run,
  or one that ran and left a mark (`Watched`).

For any members, devices, queue sizes and bounds, from `AudioAssumption` (names
of members are not those of the two other knobs), in `AudioProofs`:

- `CommandsAreCarriedOut`: the invariant looks into the queue of commands. Of
  each setting the last one queued is what the application shows, and the
  pipeline has it if none is (`SettingsInv`); only those are removed who have
  left, and the settings of a member that left come before his removal
  (`RemovalInv`); who has left is forgotten, or his removal is still queued or
  still to be sent (`ForgetInv`). The second part is what makes the others
  inductive: a setting behind a removal would bring the member back.
- `RingStaysTrue`: `RingInv` says of every member that his last event in the
  queue, or his ring if there is none, is what the pipeline holds of him.
- `FramesStayInOrder`: an action property. The frame being ingested was not
  stale and nothing moves its source meanwhile (`FreshInv`), `last` is the wire
  number of `heard` (the type invariant), and numbers grow while they do not
  begin again (`WireGrows`).
- `AudioTypeCorrect`.

For any queue sizes and any `MAX_FRAME_SKIP`, in `CaptureProofs`, about `Video`:

- `SkipStaysSteady`: a new skip reads the count of the old one, which may be past
  it. `SkipInv` bounds the frames skipped since the skip changed by what the count
  leaves modulo the skip, which grows by one with each frame skipped and may be
  anything at a change; that it never reaches the skip is division (`Remainder`).
- `FeedbackStaysHeard`: `FeedbackInv` follows the RTCP loop through the stages
  of the handler that attaches, subscribes, opens and stops. It assumes that the
  member sends no RTCP before the session subscribed, which the application's one
  task rules out: it subscribes before it negotiates the track.
- `HeadsStayApart`: what is in the buffer was begun by the unit that is open, or
  a whole packet came between (`UnitInv`); each packet, lost or not, keeps that.
  It counts heads: a fragment missing in the middle of a unit is not seen, in the
  model as in the code.
- `TypeCorrect`.

For any sizes of rings, scratch, frames and meter, any number of channels and
any yield of the resamplers, from `AudioDevicesAssumption` (an attack opens the
gate within a frame), in `CaptureProofs`, about `AudioDevices`:

- `SoundStaysWhole`: the two stores between the callback and the downmix are one
  sequence, `Gathered`, to which every step does one of five things (`Gathers`):
  nothing, a drop at a full ring, a sample more, a piece off the front to the
  resampler, or a new microphone. It rises and stays below the number that comes
  next (`OrderInv`); the playback ring rises between what was played and what is
  still to be pushed (`SpeakerInv`, which needs `left` to be part of `produced`);
  the counts add up because `Pushing` shows that a push accumulates, resamples
  and tears exactly the samples it is given; `PhaseInv` has what each phase of
  the tick leaves behind.
- `ChannelsAreKept`: the property says nothing of where a piece begins, so it is
  not inductive. `WholeInv` does: as long as nothing was lost, the gathered
  samples are consecutive and begin at the number the downmix has used so far,
  which is a multiple of `Channels`; then every chunk of the downmix is a device
  frame (`DownmixWhole`), wherever the callback was interrupted.
- `GateKeepsFading`: `GateFades` is inductive with the types.
- `DevicesTypeCorrect`: what a full ring dropped stays in its range only because
  the samples add up.

For any browsers, places, breaks, clicks and queue bound, from `WebAssumption`
(finite `Browsers`, at least one place), in `WebRoomsProofs`:

- `PeersStayTheRoom`: when all is quiet a page knows every other member of the
  room, and whoever else it knows has one of the two known causes. The property
  only speaks of empty queues, so the invariant says what the messages waiting
  for a page will make of it (`Will`): a page in the room that is not about to
  leave will know every member once it has read them (`KnowInv`), and a page that
  never lost a connection will know nobody else but outsiders (`GhostInv`). Each
  step of the server (`Served`) either appends the message that restores this or
  changes nothing for that page; each step of a page takes off the first message
  and does what it says. `JoinsInv` is needed for a second join on one
  connection: the joins go out one after the other, so a refused or repeated one
  meets the entry that the one before it left.
- `CardsStayTrue`: the card of a member will show what the room's map holds
  (`CardInv`, with the last word among the waiting messages, `Latest`), and the
  map will hold what the member last said, unless the server refused just that
  (`ToldInv`, over the messages still on their way to the server, `Awaits`, from
  what the map would hold had it heard all, `Kept`).
- `WebRoomsTypeCorrect`: beyond the types, an id whose page listens and that the
  server has named to somebody is still in the channel (`Met`); that is what
  makes a signal reach only who is there.

For any number of members, shares and switches, in `WebPageProofs`, about
`WebMedia`:

- `SharesStayAsSaid`: until shares overlap there is one call under way
  (`OneCall`), and every live capture is either sent or its own; a quality dialog
  stays tied to the stream it is open for, so it cannot outlive it (`ShareInv`).
- `HearsOnlyTheWanted` is inductive with the types.
- `WebMediaTypeCorrect`.

For any number of offers, tracks, restarts and candidates, from
`WebNegotiationAssumption` (two pages, at least one version of the tracks), in
`WebPageProofs`, about `WebNegotiation` (whose `Init`, `Next` and types have names
of their own, since the module is extended together with `WebMedia`):

- `NegotiationIsSettled`: the property speaks of pages at rest, so the invariant
  says what the messages and the operations under way will make of them. A page
  has at most one offer out, and that offer is in one of four places: on the wire,
  in the other page's chain, as an answer on the wire back, as an answer in its
  own chain. Each place fixes the state of the page that waits, and excludes the
  other three (`ImpoliteInv`, `PoliteInv`). The polite page may have given up an
  offer that is still on the wire: then the impolite page will ignore it, for it
  waits for an answer, and no answer is ahead of it (`Guarded`); otherwise it is
  the offer the polite page waits for, and only candidates follow it (`Live`). A
  page that waits, waits for something that is still in one of the places, unless an
  offer was forsaken: ignored with the answer already being applied, dropped with
  a failed roll-back or behind a refused candidate (`LostImpolite`, `LostPolite`,
  `RemoteInv`). Between exchanges both pages have completed the same one and know
  the tracks each other sends; while an answer is under way, its sender has
  completed the exchange the other page waits for (`AgreeInv`). `MakeAt` and
  `TakeAt` tie `makingOffer`, `fired` and the roll-back to the chain. Every step
  is then a change of place: the chain loses its head and gains at most one
  operation (`NextSets`), a wire loses its head or gains a message and a candidate
  (`OfferOn`).
- None of this survives `attemptIceRestart`, which makes an offer without setting
  `makingOffer`, so that two offers of one page can be out. The property is stated
  until the first restart, and so is the invariant (`SettleInv`).
- `PagesTypeCorrect`: the type invariant says which descriptions an operation can
  be about (`Descriptions`); an answer is only created for an offer, and an offer
  describes the tracks its page had.

Only model-checked: all liveness. Liveness under fairness is out of the prover's
reach.

## Findings

1. `main.ts:186` (`web_chat`): the page sends on every deletion and every clear
   that its chat announces, and the chat announces those that came from the room
   too. Every receiver echoes it.

Other statements are known not to hold of the code. They are kept as definitions
beside the properties, with the run whose instance shows them violated when they
are added to it:

| statement | where | run | what happens |
|---|---|---|---|
| `NoGhosts` | `handler.rs:47` | `server_safety` | a connection whose `RoomState` cannot be sent returns without `leave`; a ghost keeps its place |
| `MediaConverges` | `handler.rs:248` | `server_safety` with `Claims <- AnyClaim` | a `MediaState` that names another id is not stored but is published |
| `DisconnectIsFinal` | `client.rs:148` | `client` | `disconnect` racing an attempt leaves the state at `Connected` or `Reconnecting` |
| `NoStandoff` | `client.rs:234` | `client` | full event queue and full outbound queue block each other |
| `AnswererTracksArrive` | `negotiation.rs:191` | `negotiation` | a track only the answerer has is never negotiated if the offer has no line of its kind |
| `OnlyStaleIsDropped` | `pipeline.rs:463` | `audio` | the sequence number taken to grow for ever is a 16-bit RTP number; when it begins again, frames never heard are dropped as stale until it passes the last one heard |
| `ConnectedMeansJoined` | `client.rs:148` | `client` | `Connected` is documented as "WebSocket open and room joined" (`client.rs:41`) and reported before the `JoinRoom` is written |
| `CapturesWhatItSays` | `camera.rs:170`, `screen_share.rs:216` | `session` | a capture that ends by itself is logged; the application, the mesh and the server go on saying it is on |
| `NeverSkipsMore` | `camera.rs:183`, `screen_share.rs:199` | `video` | "never skip more than this many frames" (`bitrate.rs:15`): the count goes on over a change of the skip, so 5, 2 and 5 again skip nine |
| `CardsShowTheMicrophone` | `server.js:229`, `server.js:155` | `web_rooms` | a state refused by the limit is not sent again (a held hotkey repeats, `main.ts:677`), and a join resets the server's copy: the card is wrong until the next change |
| `MutedIsSilent` | `MediaManager.ts:220` | `web_media` | a microphone chosen while muted is enabled |
| `SwitchReachesMembers` | `PeerManager.ts:82` | `web_media` | who joins after a switch is sent the first processed stream, whose context is closed |
| `PreviewsAreSilent` | `UIRenderer.ts:670` | `web_media` | undeafening turns on the preview of the own screen, which `UIRenderer.ts:613` keeps silent |
| `SelfIsCurrent` | `app.rs:946` | `session`, even with `SameName = {}` | the application takes its old entry, or a namesake's, for itself |

Comments that say something else than the code, met while modelling:
`underflow_count` of `playback.rs` is described as counting zero-filled output
frames, and counts the callbacks that found the ring empty; the meter emits
every 60 ms, a multiple of the frame, where 50 are asked for, because what is
over the interval is not carried on; `SetInputDevice(None)` ends the capture
where the command's comment says that the default device is used; and a single
sample that a full ring drops, or a drain that ends inside a device frame, leaves
the channels of what follows rotated (the case `ChannelsStayTogether` excludes).

Where a property excludes a known case (`overlapped`, `lateEnd`, `lost`, `torn`, `overflowed`,
`missed`, `revived`, `deaf`, `forsaken`, `interrupted`, `stale`, `outsiders`,
`unheard`), the
history variable names exactly that case and the comment at the property names
the line of the code that causes it.

## Not modelled, and why

- Codecs, filters, interpolation and pixel conversion: floating-point code on
  samples and pixels. What the audio part of it keeps between calls is in
  `AudioDevices`.
- Platform capture (`macos.rs`, `linux.rs`, `windows.rs`), device enumeration
  and the native window: calls into other systems.
- The rate limiters themselves, which are time arithmetic. What they refuse is
  modelled where it matters. The native server ignores a refused message and its
  clients are never obliged to speak, so a refusal is a silent client. On the web
  the page has already acted when the server drops its message: `WebRooms` may
  drop any signal (`server.js:180`) and any state (`server.js:229`), `WebChat` any
  chat message; a page does not reach the limit of joins. The wire of
  `WebNegotiation` drops nothing, so what a refused offer or answer leaves behind
  is not checked.
- The HTTP and TLS front end, the command-line client `main.rs` and the
  configuration files: set-up and I/O of one task.
- In `mesh.rs` and `peer.rs` the buffers of signals of unknown peers and of early
  ICE candidates; in `screen_share.rs` the system audio; in `bridge.rs` the VP8
  path; of the web client the statistics,
  the ICE retry timers and the stored chat history. What smaller parts each module
  leaves out is said in its section above.
- Messages that a channel overrun loses are not resent by the code; `Negotiation`
  assumes a receiver that is not overrun, and the hazard at `negotiation.rs:153`
  has no property.
- Serialisation, validation of names and ids, logging and layout do not change
  what the properties are about.
