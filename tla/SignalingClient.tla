--------------------------- MODULE SignalingClient ---------------------------
(***************************************************************************)
(* The native signaling client, zancord-signaling-client (client.rs): the  *)
(* background task that connects, joins, relays and reconnects (run,       *)
(* session), and the handle through which the application sends, reads     *)
(* events and disconnects (SignalingClient).  The handle and the task run  *)
(* on different threads and share the two mpsc queues, the state and the   *)
(* shutdown watch; whatever one of them does between two awaits or two     *)
(* accesses to what is shared is one action.                               *)
(*                                                                         *)
(* The application is one task (zancord-app, App::run): it reads events    *)
(* and sends, never both at once.  The server and the network are          *)
(* external: a connection opens or not, carries numbered messages, and     *)
(* breaks at any time: what was written last may then not have arrived,    *)
(* and writes may go on to succeed into a connection that is dead.  Frames *)
(* the client ignores, unparseable messages and the heartbeat are left     *)
(* out; a Pong that cannot be sent ends the session as any other loss does.*)
(***************************************************************************)
EXTENDS Naturals, Sequences

CONSTANTS
  OutgoingCapacity,  \* OUTGOING_CAPACITY
  EventsCapacity,    \* EVENTS_CAPACITY
  BackoffSteps,      \* BACKOFF.len()
  MaxSends,          \* bound: messages the application sends
  MaxConnections,    \* bound: connections that open
  MaxInbound         \* bound: messages of the server on one connection

ASSUME ClientAssumption ==
  /\ OutgoingCapacity \in Nat \ {0}
  /\ EventsCapacity \in Nat \ {0}
  /\ BackoffSteps \in Nat \ {0}
  /\ MaxSends \in Nat
  /\ MaxConnections \in Nat
  /\ MaxInbound \in Nat

VARIABLES
  app,          \* what the application's task does
  asked,        \* messages it has sent or is sending
  outgoing,     \* the outbound queue
  events,       \* the inbound queue
  seen,         \* the event it read last
  state,        \* the watched ConnectionState
  shutdown,     \* the shutdown watch
  task,         \* where the background task is
  backoff,      \* backoff_index
  hand,         \* what the task has taken and not passed on yet
  connections,  \* connections opened so far
  up,           \* the current connection has not broken
  inbox,        \* what the task can still read from it
  inbound,      \* messages the server has sent on it
  wire          \* what reaches the server of all connections, in order

vars == <<app, asked, outgoing, events, seen, state, shutdown, task, backoff, hand,
          connections, up, inbox, inbound, wire>>
handle == <<app, asked, outgoing, events, seen, shutdown>>
network == <<connections, up, inbox, inbound>>

(* Reads and sends; blocked in send; inside disconnect between its two      *)
(* writes; after it; dropped the handle and the event stream.               *)
AppStages == {"listening", "sending", "disconnecting", "disconnected", "gone"}

(* In the first select of run; connected or failed but not yet said so; in  *)
(* session: sending JoinRoom, in the select, sending a message, handing an  *)
(* event to the application; session over; sleeping; returned.              *)
InSession == {"joining", "relaying", "sending", "delivering"}
TaskStages == {"connecting", "opened", "failed", "ended", "waiting", "stopped"} \cup InSession

ConnectionStates == {"Connecting", "Connected", "Reconnecting", "Disconnected"}

Join == 0
Nothing == [conn |-> 0, n |-> 0]
Item(n) == [conn |-> connections, n |-> n]

MutNoBackpressure(q, capacity) == TRUE
HasRoom(q, capacity) == Len(q) < capacity

Init ==
  /\ app = "listening"
  /\ asked = 0
  /\ outgoing = <<>>
  /\ events = <<>>
  /\ seen = Nothing
  /\ state = "Connecting"
  /\ shutdown = FALSE
  /\ task = "connecting"
  /\ backoff = 0
  /\ hand = Nothing
  /\ connections = 0
  /\ up = FALSE
  /\ inbox = <<>>
  /\ inbound = 0
  /\ wire = <<>>

Goto(from, to) == task \in from /\ task' = to
AppGoto(from, to) == app \in from /\ app' = to

-----------------------------------------------------------------------------
(* The application. *)

(* send: the message waits for a place in the queue.  (send fails once the  *)
(* task is gone, but the application does not send after disconnect.)       *)
StartSend ==
  /\ AppGoto({"listening"}, "sending")
  /\ asked < MaxSends
  /\ asked' = asked + 1
  /\ UNCHANGED <<outgoing, events, seen, state, shutdown, task, backoff, hand, network, wire>>

FinishSend ==
  /\ AppGoto({"sending"}, "listening")
  /\ task # "stopped"
  /\ HasRoom(outgoing, OutgoingCapacity)
  /\ outgoing' = Append(outgoing, asked)
  /\ UNCHANGED <<asked, events, seen, state, shutdown, task, backoff, hand, network, wire>>

TakeEvent ==
  /\ app = "listening"
  /\ events # <<>>
  /\ seen' = Head(events)
  /\ events' = Tail(events)
  /\ UNCHANGED <<app, asked, outgoing, state, shutdown, task, backoff, hand, network, wire>>

(* disconnect: first the shutdown watch, then the state. *)
RequestShutdown ==
  /\ AppGoto({"listening"}, "disconnecting")
  /\ shutdown' = TRUE
  /\ UNCHANGED <<asked, outgoing, events, seen, state, task, backoff, hand, network, wire>>

ReportDisconnected ==
  /\ AppGoto({"disconnecting"}, "disconnected")
  /\ state' = "Disconnected"
  /\ UNCHANGED <<asked, outgoing, events, seen, shutdown, task, backoff, hand, network, wire>>

(* The client and the event stream are dropped: at the end of App::run,     *)
(* after disconnect, or with the task that runs it.                         *)
DropClient ==
  /\ AppGoto({"listening", "disconnected"}, "gone")
  /\ events' = <<>>
  /\ UNCHANGED <<asked, outgoing, seen, state, shutdown, task, backoff, hand, network, wire>>

-----------------------------------------------------------------------------
(* The network and the server. *)

ServerSends ==
  /\ up
  /\ inbound < MaxInbound
  /\ \E i \in DOMAIN wire : wire[i] = Item(Join)
  /\ inbound' = inbound + 1
  /\ inbox' = Append(inbox, Item(inbound'))
  /\ UNCHANGED <<handle, state, task, backoff, hand, connections, up, wire>>

(* What had arrived before the loss may still be read, or part of it.  Of   *)
(* what was written to the connection the end may not arrive any more, but  *)
(* for the JoinRoom of a client the server has answered.                    *)
MayBeLost(i) == wire[i].conn = connections /\ (wire[i].n = Join => inbound = 0)
ConnectionBreaks ==
  /\ up
  /\ up' = FALSE
  /\ \E k \in 0..Len(inbox) : inbox' = SubSeq(inbox, 1, k)
  /\ \E k \in 0..Len(wire) : /\ \A i \in (k + 1)..Len(wire) : MayBeLost(i)
                            /\ wire' = SubSeq(wire, 1, k)
  /\ UNCHANGED <<handle, state, task, backoff, hand, connections, inbound>>

-----------------------------------------------------------------------------
(* run *)

ConnectSucceeds ==
  /\ Goto({"connecting"}, "opened")
  /\ connections < MaxConnections
  /\ connections' = connections + 1
  /\ up' = TRUE
  /\ inbox' = <<>>
  /\ inbound' = 0
  /\ UNCHANGED <<handle, state, backoff, hand, wire>>

ConnectFails ==
  /\ Goto({"connecting"}, "failed")
  /\ UNCHANGED <<handle, state, backoff, hand, network, wire>>

ReportConnected ==
  /\ Goto({"opened"}, "joining")
  /\ state' = "Connected"
  /\ UNCHANGED <<handle, backoff, hand, network, wire>>

(* The connection is lost or was not made: the delay is BACKOFF[backoff],   *)
(* from the start again after a session.                                    *)
NextBackoff(b) == IF b + 1 < BackoffSteps THEN b + 1 ELSE BackoffSteps - 1
ReportReconnecting ==
  /\ Goto({"failed", "ended"}, "waiting")
  /\ state' = "Reconnecting"
  /\ backoff' = NextBackoff(IF task = "ended" THEN 0 ELSE backoff)
  /\ UNCHANGED <<handle, hand, network, wire>>

DelayElapses ==
  /\ Goto({"waiting"}, "connecting")
  /\ UNCHANGED <<handle, state, backoff, hand, network, wire>>

(* shutdown.changed() in one of the three selects: requested, or the handle *)
(* is gone.                                                                 *)
StopAsked == shutdown \/ app = "gone"
StopRequested ==
  /\ Goto({"connecting", "waiting", "relaying"}, "stopped")
  /\ StopAsked
  /\ outgoing' = <<>>
  /\ UNCHANGED <<app, asked, events, seen, shutdown, state, backoff, hand, network, wire>>

-----------------------------------------------------------------------------
(* session *)

(* A write to a socket that is dead may succeed and reaches nobody.         *)
Reach(item) == IF up THEN Append(wire, item) ELSE wire

MutNoRejoin == IF connections = 1 THEN Reach(Item(Join)) ELSE wire
WithJoin == Reach(Item(Join))
SendJoin ==
  /\ Goto({"joining"}, "relaying")
  /\ wire' = WithJoin
  /\ UNCHANGED <<handle, state, backoff, hand, network>>

TakeOutgoing ==
  /\ Goto({"relaying"}, "sending")
  /\ outgoing # <<>>
  /\ hand' = Item(Head(outgoing))
  /\ outgoing' = Tail(outgoing)
  /\ UNCHANGED <<app, asked, events, seen, shutdown, state, backoff, network, wire>>

SendOutgoing ==
  /\ Goto({"sending"}, "relaying")
  /\ wire' = Reach(hand)
  /\ hand' = Nothing
  /\ UNCHANGED <<handle, state, backoff, network>>

TakeInbound ==
  /\ Goto({"relaying"}, "delivering")
  /\ inbox # <<>>
  /\ hand' = Head(inbox)
  /\ inbox' = Tail(inbox)
  /\ UNCHANGED <<handle, state, backoff, connections, up, inbound, wire>>

(* events.send(msg).await: nothing else is served until there is a place. *)
MutDropWhenFull ==
  IF HasRoom(events, EventsCapacity) THEN events' = Append(events, hand) ELSE UNCHANGED events
WaitForRoom == HasRoom(events, EventsCapacity) /\ events' = Append(events, hand)
DeliverEvent ==
  /\ Goto({"delivering"}, "relaying")
  /\ app # "gone"
  /\ WaitForRoom
  /\ hand' = Nothing
  /\ UNCHANGED <<app, asked, outgoing, seen, shutdown, state, backoff, network, wire>>

ConsumerGone ==
  /\ Goto({"delivering"}, "stopped")
  /\ app = "gone"
  /\ hand' = Nothing
  /\ outgoing' = <<>>
  /\ UNCHANGED <<app, asked, events, seen, shutdown, state, backoff, network, wire>>

(* A write fails, or the stream ends once it has been read.  What is queued *)
(* stays queued for the next session.                                       *)
QueueAfterLoss == outgoing
MutWritesOnly == ~up /\ task # "relaying"
LossNoticed == ~up /\ (task = "relaying" => inbox = <<>>)
SessionEnds ==
  /\ Goto({"joining", "sending", "relaying"}, "ended")
  /\ LossNoticed
  /\ outgoing' = QueueAfterLoss
  /\ hand' = Nothing
  /\ inbox' = <<>>
  /\ UNCHANGED <<app, asked, events, seen, shutdown, state, backoff, connections, up, inbound, wire>>

-----------------------------------------------------------------------------
Task ==
  \/ ConnectSucceeds \/ ConnectFails \/ ReportConnected \/ ReportReconnecting \/ DelayElapses
  \/ StopRequested \/ SendJoin \/ TakeOutgoing \/ SendOutgoing \/ TakeInbound
  \/ DeliverEvent \/ ConsumerGone \/ SessionEnds

Next ==
  \/ StartSend \/ FinishSend \/ TakeEvent
  \/ RequestShutdown \/ ReportDisconnected \/ DropClient
  \/ ServerSends \/ ConnectionBreaks
  \/ Task

Spec == Init /\ [][Next]_vars

(* The task is polled whenever it is ready, connecting ends one way or the  *)
(* other, delays elapse, and select! picks a branch that stays ready in the *)
(* end (it picks at random).  The application finishes what it has begun,   *)
(* reads events while it is in its loop, and drops the client it has        *)
(* disconnected.  The server owes nothing.                                  *)
Fairness ==
  /\ WF_vars(Task)
  /\ SF_vars(StopRequested)
  /\ WF_vars(FinishSend) /\ WF_vars(TakeEvent)
  /\ WF_vars(ReportDisconnected)
  /\ WF_vars(app = "disconnected" /\ DropClient)

FairSpec == Spec /\ Fairness

-----------------------------------------------------------------------------
Items == [conn : 0..MaxConnections, n : Nat]

(* The types, and that neither queue outgrows its capacity and the backoff  *)
(* index stays within BACKOFF.                                              *)
TypeOK ==
  /\ app \in AppStages
  /\ asked \in 0..MaxSends
  /\ outgoing \in Seq(1..MaxSends) /\ Len(outgoing) <= OutgoingCapacity
  /\ events \in Seq(Items) /\ Len(events) <= EventsCapacity
  /\ seen \in Items
  /\ state \in ConnectionStates
  /\ shutdown \in BOOLEAN
  /\ task \in TaskStages
  /\ backoff \in 0..(BackoffSteps - 1)
  /\ hand \in Items
  /\ connections \in 0..MaxConnections
  /\ up \in BOOLEAN
  /\ inbox \in Seq(Items) /\ Len(inbox) <= MaxInbound
  /\ inbound \in 0..MaxInbound
  /\ wire \in Seq(Items)

(* The messages of the application that reach the server. *)
Written == {i \in DOMAIN wire : wire[i].n # Join}

(* The sends that are over, and the messages of theirs still to be written. *)
Accepted == IF app = "sending" THEN asked - 1 ELSE asked
Waiting == (IF task = "sending" THEN <<hand.n>> ELSE <<>>) \o outgoing

(* The server sees JoinRoom, once, before anything else on every            *)
(* connection: what was queued while disconnected is `flushed after the     *)
(* rejoin` (client.rs, module comment).                                     *)
JoinsFirst ==
  \A i \in DOMAIN wire :
    (wire[i].n = Join) <=> (i = 1 \/ wire[i - 1].conn # wire[i].conn)

(* What the application sent arrives in the order of its sends and never    *)
(* twice, across any number of reconnects.                                  *)
SendsStayInOrder ==
  /\ \A i, j \in Written : i < j => wire[i].n < wire[j].n
  /\ \A i \in DOMAIN Waiting :
       /\ \A j \in Written : wire[j].n < Waiting[i]
       /\ \A j \in 1..(i - 1) : Waiting[j] < Waiting[i]

(* Only what was written to a connection that then broke is lost, and that  *)
(* is the end of what was written to it: nothing in the middle of a         *)
(* connection, nothing before the last one that arrived on a connection     *)
(* that still works, and nothing that waits: `outbound messages sent while  *)
(* disconnected are queued` (client.rs).  How many are lost at the end of a *)
(* connection is open: writes into a dead socket succeed until one fails.   *)
OnlyBreaksLose ==
  /\ \A i \in Written : i + 1 \in Written => wire[i + 1].n = wire[i].n + 1
  /\ task # "stopped" =>
       /\ \A i \in DOMAIN Waiting : Waiting[i] = Accepted - Len(Waiting) + i
       /\ up /\ Len(wire) \in Written /\ wire[Len(wire)].conn = connections
            => wire[Len(wire)].n = Accepted - Len(Waiting)

(* What reaches the server: a JoinRoom first on every connection, then the  *)
(* application's messages, in its order, none lost but by a break.          *)
WireIsFaithful == JoinsFirst /\ SendsStayInOrder /\ OnlyBreaksLose

(* Events reach the application in the order of the connections and, on     *)
(* one connection, without a gap: the RoomState of a new connection comes   *)
(* after everything of the old one, and nothing of a connection is skipped. *)
Arriving == <<seen>> \o events \o (IF task = "delivering" THEN <<hand>> ELSE <<>>) \o inbox
EventsStayInOrder ==
  app # "gone" /\ task # "stopped" =>
    \A i \in 1..(Len(Arriving) - 1) :
      LET a == Arriving[i]
          b == Arriving[i + 1] IN
      \/ a.conn = b.conn /\ b.n = a.n + 1
      \/ a.conn < b.conn /\ b.n = 1

(* Not true: Connected means `WebSocket open and room joined` (client.rs,   *)
(* ConnectionState): it is reported before the JoinRoom is sent, and stays  *)
(* when it cannot be.                                                       *)
ConnectedMeansJoined ==
  state = "Connected" => \E i \in DOMAIN wire : wire[i] = Item(Join)

(* Not true: after disconnect the state says so, `stops the connection task *)
(* and transitions to Disconnected` (client.rs): the task may still write   *)
(* its own state over it.                                                   *)
DisconnectIsFinal == app = "disconnected" => state = "Disconnected"

(* The task waits for the application to read, the application for the      *)
(* task to take what it sends.                                              *)
Standoff ==
  /\ task = "delivering" /\ ~HasRoom(events, EventsCapacity)
  /\ app = "sending" /\ ~HasRoom(outgoing, OutgoingCapacity)

(* send `applies backpressure` (client.rs): it waits for the connection,    *)
(* never for the application that called it.                                *)
NoStandoff == ~Standoff

(* Nothing but a standoff keeps the client from relaying on a connection    *)
(* that works or trying to get one, whatever the server and the network do. *)
KeepsGoing ==
  \/ []<>(task \in {"connecting", "stopped"} \/ (task = "relaying" /\ up))
  \/ <>[]Standoff

(* disconnect, or dropping the client, terminates the task (client.rs).     *)
TaskStops == app \in {"disconnected", "gone"} ~> task = "stopped"

(* The background task neither stalls nor outlives its handle, whatever the *)
(* server, the network and the application do.                              *)
TaskIsLive == KeepsGoing /\ TaskStops
=============================================================================
