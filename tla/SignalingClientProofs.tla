------------------------- MODULE SignalingClientProofs -------------------------
(* Proofs about the native signaling client, for all capacities and bounds. *)
EXTENDS SignalingClient, SequenceTheorems, TLAPS

(***************************************************************************)
(* The type invariant is not inductive alone: a message enters the queue   *)
(* when a send ends, so its number must be known to be one, and what can   *)
(* be read of a connection is bounded by what was sent on it.              *)
(***************************************************************************)
TypeInv ==
  /\ TypeOK
  /\ app = "sending" => asked # 0
  /\ task = "sending" => hand.n # Join
  /\ Len(inbox) <= inbound

(* What an item of a connection is made of. *)
LEMMA ItemTypes ==
  /\ Nothing \in Items
  /\ \A it \in Items : it.conn \in Nat /\ it.n \in Nat
  /\ connections \in 0..MaxConnections => \A n \in Nat : Item(n) \in Items
BY ClientAssumption DEF Items, Item, Nothing

(* The first k items of a sequence. *)
LEMMA PrefixProperties ==
  ASSUME NEW S, NEW s \in Seq(S), NEW k \in 0..Len(s)
  PROVE  SubSeq(s, 1, k) \in Seq(S) /\ Len(SubSeq(s, 1, k)) = k
<1>1. k \in Int /\ 1 \in Int /\ \A i \in 1..k : s[i] \in S OBVIOUS
<1>2. SubSeq(s, 1, k) \in Seq(S) BY <1>1, SubSeqProperties
<1>3. CASE k = 0 BY <1>2, <1>3, SubSeqEmpty
<1>4. CASE k # 0
  <2>1. Len(SubSeq(s, 1, k)) = IF 1 <= k THEN k - 1 + 1 ELSE 0 BY <1>1, SubSeqProperties
  <2> QED BY <1>2, <1>4, <2>1
<1> QED BY <1>3, <1>4

(* One more item at the end. *)
LEMMA OneMore ==
  ASSUME NEW S, NEW s \in Seq(S), NEW e \in S, NEW t, t = Append(s, e)
  PROVE  /\ t \in Seq(S) /\ Len(s) \in Nat /\ Len(t) = Len(s) + 1 /\ t # <<>>
         /\ DOMAIN s = 1..Len(s) /\ DOMAIN t = 1..(Len(s) + 1)
         /\ t[Len(s) + 1] = e /\ \A i \in DOMAIN s : t[i] = s[i]
OBVIOUS

(* A connection that breaks takes the end of what was written to it. *)
LEMMA WireBreaks ==
  ASSUME TypeInv, ConnectionBreaks
  PROVE  \E k \in 0..Len(wire) :
           /\ wire' \in Seq(Items) /\ Len(wire) \in Nat /\ Len(wire') = k
           /\ DOMAIN wire = 1..Len(wire) /\ DOMAIN wire' = 1..k
           /\ \A i \in 1..k : wire'[i] = wire[i]
<1>1. wire \in Seq(Items) BY DEF TypeInv, TypeOK
<1>2. PICK k \in 0..Len(wire) : wire' = SubSeq(wire, 1, k) BY DEF ConnectionBreaks
<1>3. wire' \in Seq(Items) /\ Len(wire') = k BY <1>1, <1>2, PrefixProperties
<1>4. \A i \in 1..k : wire'[i] = wire[i] BY <1>1, <1>2
<1> QED BY <1>1, <1>3, <1>4

LEMMA TypeInit == Init => TypeInv
<1> SUFFICES ASSUME Init PROVE TypeInv OBVIOUS
<1>1. seen \in Items /\ hand \in Items BY ItemTypes DEF Init
<1>2. /\ outgoing \in Seq(1..MaxSends) /\ events \in Seq(Items)
      /\ inbox \in Seq(Items) /\ wire \in Seq(Items)
      /\ Len(outgoing) = 0 /\ Len(events) = 0 /\ Len(inbox) = 0
  BY DEF Init
<1>3. /\ 0 \in 0..MaxSends /\ 0 \in 0..MaxConnections /\ 0 \in 0..MaxInbound
      /\ 0 \in 0..(BackoffSteps - 1)
      /\ 0 <= OutgoingCapacity /\ 0 <= EventsCapacity /\ 0 <= MaxInbound
  BY ClientAssumption
<1>4. Len(outgoing) <= OutgoingCapacity /\ Len(events) <= EventsCapacity
      /\ Len(inbox) <= MaxInbound /\ Len(inbox) <= inbound
  BY <1>2, <1>3 DEF Init
<1>5. app = "listening" /\ state = "Connecting" /\ task = "connecting" /\ shutdown = FALSE
      /\ up = FALSE /\ asked = 0 /\ backoff = 0 /\ connections = 0 /\ inbound = 0
  BY DEF Init
<1> QED BY <1>1, <1>2, <1>3, <1>4, <1>5 DEF TypeInv, TypeOK, AppStages, TaskStages,
        InSession, ConnectionStates

(* Types are kept by the steps of the application. *)
LEMMA TypeApp ==
  ASSUME TypeInv, StartSend \/ FinishSend \/ TakeEvent \/ RequestShutdown
                    \/ ReportDisconnected \/ DropClient
  PROVE  TypeInv'
<1> USE ClientAssumption DEF TypeInv, TypeOK, AppStages, TaskStages, InSession,
        ConnectionStates, AppGoto, network, HasRoom, Join
<1>1. CASE StartSend BY <1>1 DEF StartSend
<1>2. CASE FinishSend
  <2>1. asked \in 1..MaxSends BY <1>2 DEF FinishSend
  <2> QED BY <1>2, <2>1 DEF FinishSend
<1>4. CASE TakeEvent
  <2>1. Head(events) \in Items /\ Tail(events) \in Seq(Items)
          /\ Len(Tail(events)) = Len(events) - 1
    BY <1>4 DEF TakeEvent
  <2> QED BY <1>4, <2>1 DEF TakeEvent
<1>5. CASE RequestShutdown BY <1>5 DEF RequestShutdown
<1>6. CASE ReportDisconnected BY <1>6 DEF ReportDisconnected
<1>7. CASE DropClient BY <1>7 DEF DropClient
<1> QED BY <1>1, <1>2, <1>4, <1>5, <1>6, <1>7

(* Types are kept by the network and by run. *)
LEMMA TypeRun ==
  ASSUME TypeInv, ServerSends \/ ConnectionBreaks \/ ConnectSucceeds \/ ConnectFails
                    \/ ReportConnected \/ ReportReconnecting \/ DelayElapses \/ StopRequested
  PROVE  TypeInv'
<1> USE ClientAssumption DEF TypeInv, TypeOK, AppStages, TaskStages, InSession,
        ConnectionStates, Goto, network, handle, Join
<1>1. CASE ServerSends
  <2>1. inbound' = inbound + 1 /\ inbox' = Append(inbox, Item(inbound')) /\ inbound < MaxInbound
    BY <1>1 DEF ServerSends
  <2>2. Item(inbound') \in Items BY <2>1, ItemTypes
  <2>3. inbox' \in Seq(Items) /\ Len(inbox') = Len(inbox) + 1 BY <2>1, <2>2
  <2> QED BY <1>1, <2>1, <2>3 DEF ServerSends
<1>2. CASE ConnectionBreaks
  <2>1. PICK k \in 0..Len(inbox) : inbox' = SubSeq(inbox, 1, k) BY <1>2 DEF ConnectionBreaks
  <2>2. inbox' \in Seq(Items) /\ Len(inbox') = k
    <3>1. inbox \in Seq(Items) /\ k \in 0..Len(inbox) OBVIOUS
    <3> HIDE DEF TypeInv, TypeOK
    <3> QED BY <2>1, <3>1, PrefixProperties
  <2>3. Len(inbox') <= MaxInbound /\ Len(inbox') <= inbound
    <3>1. Len(inbox) \in Nat /\ inbound \in Nat BY ClientAssumption
    <3> QED BY <2>2, <3>1
  <2>4. up' \in BOOLEAN /\ UNCHANGED <<app, asked, outgoing, events, seen, shutdown, state,
                                        task, backoff, hand, connections, inbound>>
    BY <1>2 DEF ConnectionBreaks
  <2>5. wire' \in Seq(Items)
    <3> HIDE DEF TypeInv, TypeOK
    <3> QED BY <1>2, WireBreaks
  <2> QED BY <2>2, <2>3, <2>4, <2>5
<1>3. CASE ConnectSucceeds BY <1>3 DEF ConnectSucceeds
<1>4. CASE ConnectFails BY <1>4 DEF ConnectFails
<1>5. CASE ReportConnected BY <1>5 DEF ReportConnected
<1>6. CASE ReportReconnecting
  <2>1. \A b \in 0..(BackoffSteps - 1) : NextBackoff(b) \in 0..(BackoffSteps - 1)
    BY DEF NextBackoff
  <2>2. backoff' \in 0..(BackoffSteps - 1)
    <3>1. CASE task = "ended" BY <1>6, <2>1, <3>1 DEF ReportReconnecting
    <3>2. CASE task # "ended" BY <1>6, <2>1, <3>2 DEF ReportReconnecting
    <3> QED BY <3>1, <3>2
  <2> QED BY <1>6, <2>2 DEF ReportReconnecting
<1>7. CASE DelayElapses BY <1>7 DEF DelayElapses
<1>8. CASE StopRequested BY <1>8 DEF StopRequested
<1> QED BY <1>1, <1>2, <1>3, <1>4, <1>5, <1>6, <1>7, <1>8

(* Types are kept by session. *)
LEMMA TypeSession ==
  ASSUME TypeInv, SendJoin \/ TakeOutgoing \/ SendOutgoing \/ TakeInbound
                    \/ DeliverEvent \/ ConsumerGone \/ SessionEnds
  PROVE  TypeInv'
<1> USE ClientAssumption DEF TypeInv, TypeOK, AppStages, TaskStages, InSession,
        ConnectionStates, Goto, network, handle, Join
<1>0. \A n \in Nat : Item(n) \in Items /\ Item(n).n = n BY ItemTypes DEF Item
<1>1. CASE SendJoin BY <1>0, <1>1 DEF SendJoin, WithJoin, Reach
<1>2. CASE TakeOutgoing
  <2>1. Head(outgoing) \in 1..MaxSends /\ Tail(outgoing) \in Seq(1..MaxSends)
          /\ Len(Tail(outgoing)) = Len(outgoing) - 1
    BY <1>2 DEF TakeOutgoing
  <2>2. Item(Head(outgoing)) \in Items /\ Item(Head(outgoing)).n # 0 BY <1>0, <2>1
  <2> QED BY <1>2, <2>1, <2>2 DEF TakeOutgoing
<1>3. CASE SendOutgoing BY <1>3, ItemTypes DEF SendOutgoing, Reach
<1>4. CASE TakeInbound
  <2>1. Head(inbox) \in Items /\ Tail(inbox) \in Seq(Items) /\ Len(Tail(inbox)) = Len(inbox) - 1
    BY <1>4 DEF TakeInbound
  <2> QED BY <1>4, <2>1 DEF TakeInbound
<1>5. CASE DeliverEvent BY <1>5, ItemTypes DEF DeliverEvent, WaitForRoom, HasRoom
<1>6. CASE ConsumerGone BY <1>6, ItemTypes DEF ConsumerGone
<1>7. CASE SessionEnds BY <1>7, ItemTypes DEF SessionEnds, QueueAfterLoss
<1> QED BY <1>1, <1>2, <1>3, <1>4, <1>5, <1>6, <1>7

LEMMA TypeStep == TypeInv /\ [Next]_vars => TypeInv'
<1> SUFFICES ASSUME TypeInv, [Next]_vars PROVE TypeInv' OBVIOUS
<1>1. CASE UNCHANGED vars
  BY <1>1 DEF vars, TypeInv, TypeOK
<1>2. CASE Next BY <1>2, TypeApp, TypeRun, TypeSession DEF Next, Task
<1> QED BY <1>1, <1>2

THEOREM TypeAlways == Spec => []TypeInv
BY TypeInit, TypeStep, PTL DEF Spec

(* Every reachable state of the client is well typed; in particular neither *)
(* queue exceeds its capacity and the backoff index stays inside BACKOFF.   *)
THEOREM ClientTypeCorrect == Spec => []TypeOK
<1>1. TypeInv => TypeOK BY DEF TypeInv
<1> QED BY <1>1, TypeAlways, PTL

-----------------------------------------------------------------------------
(***************************************************************************)
(* Which connection the last of what arrived belongs to, at every stage of *)
(* the task.                                                               *)
(***************************************************************************)
WireInv ==
  /\ \A i \in DOMAIN wire : wire[i].conn <= connections
  /\ task \in {"opened", "joining"} => \A i \in DOMAIN wire : wire[i].conn < connections
  /\ up /\ task \in {"relaying", "sending", "delivering"} =>
       wire # <<>> /\ wire[Len(wire)].conn = connections
  /\ task = "sending" => hand.conn = connections

RejoinInv == WireInv /\ JoinsFirst

(* The wire grows by what is written and loses its end with its connection. *)
LEMMA RejoinStep == TypeInv /\ RejoinInv /\ [Next]_vars => RejoinInv'
<1> SUFFICES ASSUME TypeInv, RejoinInv, [Next]_vars PROVE RejoinInv' OBVIOUS
<1> USE DEF RejoinInv, WireInv, JoinsFirst
<1>0. /\ wire \in Seq(Items) /\ connections \in Nat
      /\ \A i \in DOMAIN wire : wire[i].conn \in Nat
  <2>1. wire \in Seq(Items) /\ connections \in Nat
    BY ClientAssumption DEF TypeInv, TypeOK
  <2>2. \A i \in DOMAIN wire : wire[i] \in Items BY <2>1
  <2> QED BY <2>1, <2>2, ItemTypes
<1>1. CASE UNCHANGED <<wire, connections, task, hand, up>> BY <1>1
<1>2. CASE /\ UNCHANGED <<wire, connections>>
           /\ task' \in {"connecting", "failed", "ended", "waiting", "stopped"}
  BY <1>2
<1>3. CASE ConnectSucceeds
  <2>1. UNCHANGED wire /\ connections' = connections + 1 /\ task' = "opened"
    BY <1>3 DEF ConnectSucceeds, Goto
  <2> QED BY <1>0, <2>1
<1>4. CASE ReportConnected
  BY <1>4 DEF ReportConnected, Goto, network
<1>a. CASE /\ UNCHANGED <<wire, connections, up>> /\ ~up
           /\ task' \in {"relaying"}
  BY <1>a
<1>b. CASE ConnectionBreaks
  <2>1. PICK k \in 0..Len(wire) :
           /\ Len(wire) \in Nat /\ Len(wire') = k
           /\ DOMAIN wire = 1..Len(wire) /\ DOMAIN wire' = 1..k
           /\ \A i \in 1..k : wire'[i] = wire[i]
    BY <1>b, WireBreaks
  <2>2. ~up' /\ UNCHANGED <<connections, task, hand>>
    BY <1>b DEF ConnectionBreaks
  <2>3. WireInv' BY <2>1, <2>2
  <2>4. JoinsFirst' BY <2>1
  <2> QED BY <2>3, <2>4
<1>5. CASE SendJoin /\ up
  <2>1. /\ wire' = Append(wire, [conn |-> connections, n |-> Join])
        /\ task = "joining" /\ task' = "relaying" /\ UNCHANGED connections
    BY <1>5 DEF SendJoin, Goto, network, WithJoin, Reach, Item
  <2>2. /\ DOMAIN wire' = 1..(Len(wire) + 1) /\ DOMAIN wire = 1..Len(wire) /\ Len(wire) \in Nat
        /\ \A i \in DOMAIN wire : wire'[i] = wire[i]
        /\ wire'[Len(wire) + 1] = [conn |-> connections, n |-> Join]
        /\ Len(wire') = Len(wire) + 1 /\ wire' # <<>>
    BY <1>0, <2>1
  <2>3. WireInv' BY <1>0, <2>1, <2>2
  <2>4. \A i \in DOMAIN wire' :
          (wire'[i].n = Join) <=> (i = 1 \/ wire'[i - 1].conn # wire'[i].conn)
    <3> TAKE i \in DOMAIN wire'
    <3>1. CASE i = Len(wire) + 1
      <4>1. i # 1 => wire'[i - 1].conn < connections
        <5>1. i # 1 => i - 1 \in DOMAIN wire BY <2>2, <3>1
        <5> QED BY <2>1, <2>2, <5>1
      <4>2. i # 1 => wire'[i - 1].conn # connections
        <5> SUFFICES ASSUME i # 1 PROVE wire'[i - 1].conn # connections OBVIOUS
        <5>1. wire'[i - 1] = wire[i - 1] /\ i - 1 \in 1..Len(wire) BY <2>2, <3>1
        <5>2. wire[i - 1].conn \in Nat BY <1>0, <5>1, <2>2
        <5> QED BY <1>0, <4>1, <5>1, <5>2
      <4> QED BY <2>2, <3>1, <4>2
    <3>2. CASE i \in DOMAIN wire
      <4>1. i # 1 => i - 1 \in DOMAIN wire BY <2>2, <3>2
      <4> QED BY <2>2, <3>2, <4>1
    <3> QED BY <2>2, <3>1, <3>2
  <2> QED BY <2>3, <2>4
<1>6. CASE TakeOutgoing
  BY <1>6 DEF TakeOutgoing, Goto, network, Item
<1>7. CASE SendOutgoing /\ up
  <2>1. /\ wire' = Append(wire, hand) /\ hand.conn = connections /\ hand.n # Join
        /\ task = "sending" /\ task' = "relaying" /\ UNCHANGED connections
        /\ wire # <<>> /\ wire[Len(wire)].conn = connections
    BY <1>7 DEF SendOutgoing, Goto, network, Reach, TypeInv
  <2>2. /\ DOMAIN wire' = 1..(Len(wire) + 1) /\ DOMAIN wire = 1..Len(wire) /\ Len(wire) \in Nat
        /\ \A i \in DOMAIN wire : wire'[i] = wire[i]
        /\ wire'[Len(wire) + 1] = hand
        /\ Len(wire') = Len(wire) + 1 /\ wire' # <<>> /\ Len(wire) # 0
    BY <1>0, <2>1
  <2>3. WireInv' BY <1>0, <2>1, <2>2
  <2>4. \A i \in DOMAIN wire' :
          (wire'[i].n = Join) <=> (i = 1 \/ wire'[i - 1].conn # wire'[i].conn)
    <3> TAKE i \in DOMAIN wire'
    <3>1. CASE i = Len(wire) + 1
      <4>1. i # 1 /\ i - 1 = Len(wire) /\ Len(wire) \in DOMAIN wire BY <2>2, <3>1
      <4> QED BY <2>1, <2>2, <3>1, <4>1
    <3>2. CASE i \in DOMAIN wire
      <4>1. i # 1 => i - 1 \in DOMAIN wire BY <2>2, <3>2
      <4> QED BY <2>2, <3>2, <4>1
    <3> QED BY <2>2, <3>1, <3>2
  <2> QED BY <2>3, <2>4
<1>8. CASE TakeInbound \/ DeliverEvent
  BY <1>8 DEF TakeInbound, DeliverEvent, Goto, network
<1>9. CASE Next
  <2> USE DEF Goto, AppGoto, handle, network
  <2>1. CASE StartSend \/ FinishSend \/ TakeEvent \/ RequestShutdown
               \/ ReportDisconnected \/ DropClient \/ ServerSends
    BY <1>1, <2>1 DEF StartSend, FinishSend, TakeEvent, RequestShutdown,
       ReportDisconnected, DropClient, ServerSends
  <2>2. CASE ConnectFails \/ ReportReconnecting \/ DelayElapses \/ StopRequested
               \/ ConsumerGone \/ SessionEnds
    BY <1>2, <2>2 DEF ConnectFails, ReportReconnecting, DelayElapses, StopRequested,
       ConsumerGone, SessionEnds
  <2>3. CASE (SendJoin \/ SendOutgoing) /\ ~up
    BY <1>a, <2>3 DEF SendJoin, SendOutgoing, WithJoin, Reach
  <2> QED
    BY <1>b, <1>3, <1>4, <1>5, <1>6, <1>7, <1>8, <1>9, <2>1, <2>2, <2>3 DEF Next, Task
<1> QED BY <1>1, <1>9 DEF vars

(* On every connection the server sees JoinRoom first and once, however     *)
(* many messages were queued while the client was disconnected.             *)
THEOREM RejoinsFirst == Spec => []JoinsFirst
<1>1. Init => RejoinInv
  BY DEF Init, RejoinInv, WireInv, JoinsFirst
<1>2. RejoinInv => JoinsFirst BY DEF RejoinInv
<1> QED BY <1>1, <1>2, RejoinStep, TypeAlways, PTL DEF Spec

-----------------------------------------------------------------------------
(***************************************************************************)
(* The messages of the application, from its calls of send to the wire.    *)
(***************************************************************************)
(* Everything written, in the task's hand or queued is in the order of its *)
(* send, and no newer than the last send that was accepted.                *)
OrderInv ==
  /\ \A i \in Written : wire[i].n <= Accepted
  /\ \A i, j \in Written : i < j => wire[i].n < wire[j].n
  /\ \A i \in DOMAIN outgoing :
       /\ outgoing[i] <= Accepted
       /\ \A j \in Written : wire[j].n < outgoing[i]
       /\ \A j \in DOMAIN outgoing : i < j => outgoing[i] < outgoing[j]
  /\ task = "sending" =>
       /\ hand.n <= Accepted
       /\ \A j \in Written : wire[j].n < hand.n
       /\ \A i \in DOMAIN outgoing : hand.n < outgoing[i]

(* What the types give about numbers. *)
LEMMA OrderTypes ==
  ASSUME TypeInv
  PROVE  /\ wire \in Seq(Items) /\ outgoing \in Seq(1..MaxSends) /\ MaxSends \in Nat
         /\ asked \in Nat /\ Accepted \in Nat /\ hand.n \in Nat
         /\ \A i \in DOMAIN outgoing : outgoing[i] \in Nat
         /\ \A i \in DOMAIN wire : wire[i].n \in Nat
<1>1. /\ wire \in Seq(Items) /\ outgoing \in Seq(1..MaxSends) /\ MaxSends \in Nat
      /\ asked \in Nat /\ hand \in Items /\ (app = "sending" => asked # 0)
  BY ClientAssumption DEF TypeInv, TypeOK
<1>2. \A i \in DOMAIN wire : wire[i] \in Items BY <1>1
<1>3. \A i \in DOMAIN outgoing : outgoing[i] \in Nat BY <1>1
<1>4. Accepted \in Nat BY <1>1 DEF Accepted
<1> QED BY <1>1, <1>2, <1>3, <1>4, ItemTypes

LEMMA OrderStep == TypeInv /\ OrderInv /\ [Next]_vars => OrderInv'
<1> SUFFICES ASSUME TypeInv, OrderInv, [Next]_vars PROVE OrderInv' OBVIOUS
<1> USE OrderTypes DEF OrderInv, Written
<1>1. CASE UNCHANGED <<wire, outgoing, hand, task, Accepted>>
  BY <1>1
<1>2. CASE /\ UNCHANGED <<wire, Accepted>> /\ task' # "sending"
           /\ UNCHANGED outgoing \/ outgoing' = <<>>
  BY <1>2
<1>3. CASE StartSend
  <2>1. UNCHANGED <<wire, outgoing, hand, task>> /\ Accepted' = Accepted
    BY <1>3 DEF StartSend, AppGoto, Accepted
  <2> QED BY <1>1, <2>1
<1>4. CASE FinishSend
  <2>1. /\ outgoing' = Append(outgoing, asked) /\ Accepted = asked - 1 /\ Accepted' = asked
        /\ UNCHANGED <<wire, hand, task>>
    BY <1>4 DEF FinishSend, AppGoto, Accepted
  <2>2. /\ DOMAIN outgoing = 1..Len(outgoing) /\ DOMAIN outgoing' = 1..(Len(outgoing) + 1)
        /\ Len(outgoing) \in Nat /\ outgoing'[Len(outgoing) + 1] = asked
        /\ \A i \in DOMAIN outgoing : outgoing'[i] = outgoing[i]
    BY <2>1
  <2> QED BY <2>1, <2>2
<1>5. CASE TakeOutgoing
  <2>1. /\ outgoing # <<>> /\ outgoing' = Tail(outgoing) /\ hand'.n = Head(outgoing)
        /\ UNCHANGED <<wire, Accepted>>
    BY <1>5 DEF TakeOutgoing, Item, network, Accepted
  <2>2. /\ DOMAIN outgoing = 1..Len(outgoing) /\ DOMAIN outgoing' = 1..(Len(outgoing) - 1)
        /\ Len(outgoing) \in Nat \ {0} /\ hand'.n = outgoing[1]
        /\ \A i \in DOMAIN outgoing' : outgoing'[i] = outgoing[i + 1]
    BY <2>1
  <2>3. /\ 1 \in DOMAIN outgoing
        /\ \A i \in DOMAIN outgoing' : i + 1 \in DOMAIN outgoing /\ 1 < i + 1
        /\ \A i, j \in DOMAIN outgoing' : i < j => i + 1 < j + 1
    BY <2>2
  <2>4. \A i \in DOMAIN outgoing' :
          /\ outgoing'[i] <= Accepted /\ outgoing[1] < outgoing'[i]
          /\ \A j \in Written : wire[j].n < outgoing'[i]
          /\ \A j \in DOMAIN outgoing' : i < j => outgoing'[i] < outgoing'[j]
    BY <2>2, <2>3
  <2> QED BY <2>1, <2>2, <2>3, <2>4
<1>a. CASE ConnectionBreaks
  <2>1. PICK k \in 0..Len(wire) :
           /\ Len(wire) \in Nat /\ DOMAIN wire = 1..Len(wire) /\ DOMAIN wire' = 1..k
           /\ \A i \in 1..k : wire'[i] = wire[i]
    BY <1>a, WireBreaks
  <2>2. UNCHANGED <<outgoing, hand, task, Accepted>>
    BY <1>a DEF ConnectionBreaks, handle, Accepted
  <2>3. Written' \subseteq Written /\ \A i \in Written' : wire'[i] = wire[i]
    BY <2>1
  <2> QED BY <2>2, <2>3
<1>6. CASE SendOutgoing /\ up
  <2>1. /\ wire' = Append(wire, hand) /\ task = "sending" /\ task' = "relaying"
        /\ UNCHANGED <<outgoing, Accepted>>
    BY <1>6 DEF SendOutgoing, Goto, handle, Reach, Accepted
  <2>2. /\ DOMAIN wire = 1..Len(wire) /\ DOMAIN wire' = 1..(Len(wire) + 1)
        /\ Len(wire) \in Nat /\ wire'[Len(wire) + 1] = hand
        /\ \A i \in DOMAIN wire : wire'[i] = wire[i]
    BY <2>1
  <2> QED BY <2>1, <2>2
<1>7. CASE SendJoin /\ up
  <2>1. /\ wire' = Append(wire, Item(Join)) /\ Item(Join).n = Join /\ task' = "relaying"
        /\ UNCHANGED <<outgoing, Accepted>>
    BY <1>7 DEF SendJoin, Goto, handle, WithJoin, Reach, Item, Accepted
  <2>2. /\ DOMAIN wire = 1..Len(wire) /\ DOMAIN wire' = 1..(Len(wire) + 1)
        /\ Len(wire) \in Nat /\ wire'[Len(wire) + 1].n = Join
        /\ \A i \in DOMAIN wire : wire'[i] = wire[i]
    BY <2>1
  <2>3. Written' = Written BY <2>2
  <2>4. \A i \in Written : wire'[i] = wire[i] BY <2>2
  <2> QED BY <2>1, <2>3, <2>4
<1>8. CASE Next
  <2> USE DEF Goto, AppGoto, handle, network, Accepted
  <2>1. CASE TakeEvent \/ RequestShutdown \/ ReportDisconnected \/ DropClient
               \/ ServerSends
    BY <1>1, <2>1 DEF TakeEvent, RequestShutdown, ReportDisconnected, DropClient,
       ServerSends
  <2>2. CASE ConnectSucceeds \/ ConnectFails \/ ReportConnected \/ ReportReconnecting
               \/ DelayElapses \/ StopRequested
    BY <1>2, <2>2 DEF ConnectSucceeds, ConnectFails, ReportConnected, ReportReconnecting,
       DelayElapses, StopRequested
  <2>3. CASE TakeInbound \/ DeliverEvent \/ ConsumerGone \/ SessionEnds
    BY <1>2, <2>3 DEF TakeInbound, DeliverEvent, ConsumerGone, SessionEnds, QueueAfterLoss
  <2>4. CASE (SendJoin \/ SendOutgoing) /\ ~up
    BY <1>2, <2>4 DEF SendJoin, SendOutgoing, WithJoin, Reach
  <2> QED
    BY <1>a, <1>3, <1>4, <1>5, <1>6, <1>7, <1>8, <2>1, <2>2, <2>3, <2>4 DEF Next, Task
<1>9. CASE UNCHANGED vars BY <1>1, <1>9 DEF vars, Accepted
<1> QED BY <1>8, <1>9

THEOREM OrderAlways == Spec => []OrderInv
<1>1. Init => OrderInv BY DEF Init, OrderInv, Written
<1> QED BY <1>1, OrderStep, TypeAlways, PTL DEF Spec

(* What the application sends arrives in the order of its sends             *)
(* and never twice, however often the connection is lost: the queue is kept *)
(* and what was being written is not queued again (client.rs, session).     *)
THEOREM SendsAreOrdered == Spec => []SendsStayInOrder
<1>1. ASSUME TypeInv, OrderInv PROVE SendsStayInOrder
  <2> DEFINE waiting == Waiting
  <2>0. outgoing \in Seq(Nat) BY <1>1, OrderTypes
  <2>1. CASE task # "sending"
    <3>1. waiting = outgoing /\ DOMAIN outgoing = 1..Len(outgoing) /\ Len(outgoing) \in Nat
      BY <2>0, <2>1 DEF Waiting
    <3>2. \A i \in DOMAIN outgoing : \A j \in 1..(i - 1) : outgoing[j] < outgoing[i]
      BY <1>1, <3>1 DEF OrderInv
    <3> HIDE DEF waiting
    <3>3. \A i \in DOMAIN waiting :
            /\ \A j \in Written : wire[j].n < waiting[i]
            /\ \A j \in 1..(i - 1) : waiting[j] < waiting[i]
      BY <1>1, <3>1, <3>2 DEF OrderInv
    <3> QED BY <1>1, <3>3 DEF OrderInv, SendsStayInOrder, waiting
  <2>2. CASE task = "sending"
    <3>1. /\ DOMAIN waiting = 1..(Len(outgoing) + 1) /\ DOMAIN outgoing = 1..Len(outgoing)
          /\ Len(outgoing) \in Nat /\ waiting[1] = hand.n
          /\ \A i \in 2..(Len(outgoing) + 1) : waiting[i] = outgoing[i - 1]
      BY <1>1, <2>0, <2>2, OrderTypes DEF Waiting
    <3> HIDE DEF waiting
    <3>2. \A i \in DOMAIN waiting :
            /\ \A j \in Written : wire[j].n < waiting[i]
            /\ \A j \in 1..(i - 1) : waiting[j] < waiting[i]
      <4> TAKE i \in DOMAIN waiting
      <4>1. CASE i = 1 BY <1>1, <2>2, <3>1, <4>1 DEF OrderInv
      <4>2. CASE i # 1
        <5>1. i - 1 \in DOMAIN outgoing /\ waiting[i] = outgoing[i - 1] BY <3>1, <4>2
        <5>2. \A j \in 1..(i - 1) : waiting[j] < waiting[i]
          <6> TAKE j \in 1..(i - 1)
          <6>1. CASE j = 1 BY <1>1, <2>2, <3>1, <5>1, <6>1 DEF OrderInv
          <6>2. CASE j # 1
            <7>1. j - 1 \in DOMAIN outgoing /\ waiting[j] = outgoing[j - 1] /\ j - 1 < i - 1
              BY <3>1, <6>2
            <7> QED BY <1>1, <5>1, <7>1 DEF OrderInv
          <6> QED BY <6>1, <6>2
        <5> QED BY <1>1, <5>1, <5>2 DEF OrderInv
      <4> QED BY <4>1, <4>2
    <3> QED BY <1>1, <3>2 DEF OrderInv, SendsStayInOrder, waiting
  <2> QED BY <2>1, <2>2
<1> QED BY <1>1, OrderAlways, TypeAlways, PTL

-----------------------------------------------------------------------------
(***************************************************************************)
(* What is not lost.  The numbers that wait are the last ones accepted, so *)
(* nothing is lost before it is written; and as long as a connection works *)
(* its last message is the one before those, so nothing is lost after.     *)
(***************************************************************************)
Held == Len(outgoing) + (IF task = "sending" THEN 1 ELSE 0)

NoGaps == \A i \in Written : i + 1 \in Written => wire[i + 1].n = wire[i].n + 1
QueueIsWhole ==
  /\ \A i \in DOMAIN outgoing : outgoing[i] = Accepted - Len(outgoing) + i
  /\ task = "sending" => hand.n = Accepted - Len(outgoing)
LastIsKnown ==
  up /\ Len(wire) \in Written /\ wire[Len(wire)].conn = connections
    => wire[Len(wire)].n = Accepted - Held

LossInv == NoGaps /\ (task # "stopped" => QueueIsWhole /\ LastIsKnown)

LEMMA LossTypes ==
  ASSUME TypeInv
  PROVE  /\ wire \in Seq(Items) /\ Len(wire) \in Nat /\ DOMAIN wire = 1..Len(wire)
         /\ outgoing \in Seq(Nat) /\ Len(outgoing) \in Nat /\ DOMAIN outgoing = 1..Len(outgoing)
         /\ Accepted \in Nat /\ hand \in Items /\ connections \in Nat
         /\ \A i \in DOMAIN wire : wire[i].n \in Nat
<1>1. hand \in Items /\ connections \in Nat BY ClientAssumption DEF TypeInv, TypeOK
<1>2. outgoing \in Seq(Nat) BY OrderTypes
<1> QED BY <1>1, <1>2, OrderTypes

(* The numbers of a queue that loses its first. *)
LEMMA QueueMoves ==
  ASSUME NEW q \in Seq(Nat), q # <<>>, NEW a \in Nat,
         \A i \in DOMAIN q : q[i] = a - Len(q) + i
  PROVE  /\ Len(Tail(q)) = Len(q) - 1 /\ Head(q) = a - Len(Tail(q))
         /\ \A i \in DOMAIN Tail(q) : Tail(q)[i] = a - Len(Tail(q)) + i
<1>1. Len(q) \in Nat \ {0} /\ DOMAIN q = 1..Len(q) /\ Head(q) = q[1] OBVIOUS
<1>2. /\ Len(Tail(q)) = Len(q) - 1 /\ DOMAIN Tail(q) = 1..(Len(q) - 1)
      /\ \A i \in 1..(Len(q) - 1) : Tail(q)[i] = q[i + 1]
  OBVIOUS
<1>3. Head(q) = a - Len(Tail(q)) BY <1>1, <1>2
<1>4. ASSUME NEW i \in 1..(Len(q) - 1) PROVE Tail(q)[i] = a - Len(Tail(q)) + i
  <2>1. i + 1 \in DOMAIN q BY <1>1
  <2> QED BY <1>1, <1>2, <2>1
<1> QED BY <1>2, <1>3, <1>4

LEMMA LossStep == TypeInv /\ WireInv /\ LossInv /\ [Next]_vars => LossInv'
<1> SUFFICES ASSUME TypeInv, WireInv, LossInv, [Next]_vars PROVE LossInv' OBVIOUS
<1> USE LossTypes
<1>1. CASE UNCHANGED <<wire, outgoing, hand, task, Accepted, connections, up>>
  BY <1>1 DEF LossInv, NoGaps, QueueIsWhole, LastIsKnown, Held, Written
<1>2. ASSUME UNCHANGED <<wire, outgoing, Accepted, connections>>, ~up',
             task # "stopped", task' # "sending"
      PROVE  LossInv'
  BY <1>2 DEF LossInv, NoGaps, QueueIsWhole, LastIsKnown, Held, Written
<1>3. ASSUME UNCHANGED <<wire, outgoing, Accepted, connections, up>>,
             task # "stopped", task # "sending", task' # "sending"
      PROVE  LossInv'
  BY <1>3 DEF LossInv, NoGaps, QueueIsWhole, LastIsKnown, Held, Written
<1>4. CASE task' = "stopped" /\ UNCHANGED wire
  BY <1>4 DEF LossInv, NoGaps, Written
<1>5. CASE StartSend
  <2>1. UNCHANGED <<wire, outgoing, hand, task, connections, up>> /\ Accepted' = Accepted
    BY <1>5 DEF StartSend, AppGoto, Accepted, network
  <2> QED BY <1>1, <2>1
<1>6. CASE FinishSend
  <2>1. /\ outgoing' = Append(outgoing, asked) /\ Accepted' = Accepted + 1 /\ Accepted' = asked
        /\ UNCHANGED <<wire, hand, task, connections, up>> /\ task # "stopped"
    <3>1. asked \in Nat BY OrderTypes
    <3> QED BY <1>6, <3>1 DEF FinishSend, AppGoto, Accepted, network
  <2>2. /\ Len(outgoing') = Len(outgoing) + 1 /\ DOMAIN outgoing' = 1..(Len(outgoing) + 1)
        /\ outgoing'[Len(outgoing) + 1] = asked
        /\ \A i \in DOMAIN outgoing : outgoing'[i] = outgoing[i]
    <3>1. asked \in Nat BY OrderTypes
    <3> QED BY <2>1, <3>1, OneMore
  <2>3. QueueIsWhole'
    <3>1. \A i \in DOMAIN outgoing' : outgoing'[i] = Accepted' - Len(outgoing') + i
      BY <2>1, <2>2 DEF LossInv, QueueIsWhole
    <3>2. task' = "sending" => hand'.n = Accepted' - Len(outgoing')
      BY <2>1, <2>2 DEF LossInv, QueueIsWhole
    <3> QED BY <3>1, <3>2 DEF QueueIsWhole
  <2>4. LastIsKnown'
    BY <2>1, <2>2 DEF LossInv, LastIsKnown, Held, Written
  <2> QED BY <2>1, <2>3, <2>4 DEF LossInv, NoGaps, Written
<1>7. CASE TakeOutgoing
  <2>1. /\ outgoing # <<>> /\ outgoing' = Tail(outgoing) /\ hand'.n = Head(outgoing)
        /\ task = "relaying" /\ task' = "sending"
        /\ UNCHANGED <<wire, Accepted, connections, up>>
    BY <1>7 DEF TakeOutgoing, Goto, Item, network, Accepted
  <2>2. QueueIsWhole BY <2>1 DEF LossInv
  <2>3. /\ Len(outgoing') = Len(outgoing) - 1 /\ Head(outgoing) = Accepted - Len(outgoing')
        /\ \A i \in DOMAIN outgoing' : outgoing'[i] = Accepted - Len(outgoing') + i
    BY <2>1, <2>2, QueueMoves DEF QueueIsWhole
  <2>4. QueueIsWhole' BY <2>1, <2>3 DEF QueueIsWhole
  <2>5. LastIsKnown'
    BY <2>1, <2>3 DEF LossInv, LastIsKnown, Held, Written
  <2> QED BY <2>1, <2>4, <2>5 DEF LossInv, NoGaps, Written
<1>8. CASE SendOutgoing /\ up
  <2>1. /\ wire' = Append(wire, hand) /\ hand.conn = connections /\ hand.n # Join
        /\ task = "sending" /\ task' = "relaying"
        /\ UNCHANGED <<outgoing, Accepted, connections>>
        /\ wire # <<>> /\ wire[Len(wire)].conn = connections
    BY <1>8 DEF SendOutgoing, Goto, network, handle, Reach, Accepted, WireInv, TypeInv
  <2>2. /\ Len(wire') = Len(wire) + 1 /\ DOMAIN wire' = 1..(Len(wire) + 1)
        /\ wire'[Len(wire) + 1] = hand
        /\ \A i \in DOMAIN wire : wire'[i] = wire[i]
    BY <2>1, OneMore
  <2>3. QueueIsWhole /\ LastIsKnown BY <2>1 DEF LossInv
  <2>4. hand.n = Accepted - Len(outgoing) BY <2>1, <2>3 DEF QueueIsWhole
  <2>5. Len(wire) \in Written => hand.n = wire[Len(wire)].n + 1
    BY <1>8, <2>1, <2>3, <2>4 DEF LastIsKnown, Held, Written
  <2>6. Written' = Written \cup {Len(wire) + 1} BY <2>1, <2>2 DEF Written
  <2>7. NoGaps'
    <3>1. ASSUME NEW i \in Written', i + 1 \in Written' PROVE wire'[i + 1].n = wire'[i].n + 1
      <4>1. i \in 1..Len(wire) /\ i \in Written BY <2>2, <2>6, <3>1 DEF Written
      <4>2. CASE i = Len(wire) BY <2>2, <2>5, <4>1, <4>2
      <4>3. CASE i # Len(wire)
        <5>1. i + 1 # Len(wire) + 1
          <6>1. i \in Int /\ Len(wire) \in Int BY <4>1
          <6> QED BY ONLY <4>3, <6>1
        <5>2. i + 1 \in Written BY <2>6, <3>1, <5>1
        <5>3. i + 1 \in DOMAIN wire BY <5>2 DEF Written
        <5> QED BY <2>2, <4>1, <5>2, <5>3 DEF LossInv, NoGaps, Written
      <4> QED BY <4>2, <4>3
    <3> QED BY <3>1 DEF NoGaps
  <2>8. QueueIsWhole' BY <2>1, <2>3 DEF QueueIsWhole
  <2>9. LastIsKnown' BY <2>1, <2>2, <2>4 DEF LastIsKnown, Held
  <2> QED BY <2>7, <2>8, <2>9 DEF LossInv
<1>9. CASE SendJoin /\ up
  <2>1. /\ wire' = Append(wire, Item(Join)) /\ Item(Join).n = Join /\ Item(Join) \in Items
        /\ task = "joining" /\ task' = "relaying"
        /\ UNCHANGED <<outgoing, Accepted, connections>>
    <3>1. connections \in 0..MaxConnections BY DEF TypeInv, TypeOK
    <3>2. Item(Join) \in Items BY <3>1, ItemTypes DEF Join
    <3> QED BY <1>9, <3>2 DEF SendJoin, Goto, handle, network, WithJoin, Reach, Item, Accepted
  <2>2. /\ Len(wire') = Len(wire) + 1 /\ DOMAIN wire' = 1..(Len(wire) + 1)
        /\ wire'[Len(wire) + 1] = Item(Join)
        /\ \A i \in DOMAIN wire : wire'[i] = wire[i]
    BY <2>1, OneMore
  <2>3. Written' = Written /\ \A i \in Written : wire'[i] = wire[i]
    BY <2>1, <2>2 DEF Written
  <2>4. Len(wire') \notin Written' BY <2>2, <2>3 DEF Written
  <2> QED BY <2>1, <2>3, <2>4 DEF LossInv, NoGaps, QueueIsWhole, LastIsKnown
<1>10. CASE ConnectionBreaks
  <2>1. PICK k \in 0..Len(wire) : DOMAIN wire' = 1..k /\ \A i \in 1..k : wire'[i] = wire[i]
    BY <1>10, WireBreaks
  <2>2. ~up' /\ UNCHANGED <<outgoing, hand, task, Accepted>>
    BY <1>10 DEF ConnectionBreaks, handle, Accepted
  <2>3. Written' \subseteq Written /\ \A i \in Written' : wire'[i] = wire[i]
    BY <2>1 DEF Written
  <2> QED BY <2>2, <2>3 DEF LossInv, NoGaps, QueueIsWhole, LastIsKnown
<1>11. CASE ConnectSucceeds
  <2>1. /\ UNCHANGED <<wire, outgoing, Accepted>> /\ connections' = connections + 1
        /\ task = "connecting" /\ task' = "opened"
    BY <1>11 DEF ConnectSucceeds, Goto, handle, Accepted
  <2>2. ~(Len(wire') \in Written' /\ wire'[Len(wire')].conn = connections')
    BY <2>1 DEF WireInv, Written
  <2> QED BY <2>1, <2>2 DEF LossInv, NoGaps, QueueIsWhole, LastIsKnown, Written
<1>12. CASE Next
  <2> USE DEF Goto, AppGoto, handle, network, Accepted
  <2>1. CASE TakeEvent \/ RequestShutdown \/ ReportDisconnected \/ DropClient \/ ServerSends
    BY <1>1, <2>1 DEF TakeEvent, RequestShutdown, ReportDisconnected, DropClient, ServerSends
  <2>2. CASE ConnectFails \/ ReportConnected \/ ReportReconnecting \/ DelayElapses
    BY <1>3, <2>2 DEF ConnectFails, ReportConnected, ReportReconnecting, DelayElapses
  <2>3. CASE TakeInbound \/ DeliverEvent
    BY <1>3, <2>3 DEF TakeInbound, DeliverEvent
  <2>4. CASE StopRequested \/ ConsumerGone
    BY <1>4, <2>4 DEF StopRequested, ConsumerGone
  <2>5. CASE SessionEnds
    BY <1>2, <2>5 DEF SessionEnds, QueueAfterLoss, LossNoticed
  <2>6. CASE (SendJoin \/ SendOutgoing) /\ ~up
    BY <1>2, <2>6 DEF SendJoin, SendOutgoing, WithJoin, Reach
  <2> QED
    BY <1>5, <1>6, <1>7, <1>8, <1>9, <1>10, <1>11, <1>12, <2>1, <2>2, <2>3, <2>4, <2>5, <2>6
    DEF Next, Task
<1>13. CASE UNCHANGED vars BY <1>1, <1>13 DEF vars, Accepted
<1> QED BY <1>12, <1>13

(* What the invariant says of the numbers, in the terms of the property. *)
LEMMA LossInvMeans == TypeInv /\ LossInv => OnlyBreaksLose
<1> SUFFICES ASSUME TypeInv, LossInv PROVE OnlyBreaksLose OBVIOUS
<1> USE LossTypes
<1>1. \A i \in Written : i + 1 \in Written => wire[i + 1].n = wire[i].n + 1
  BY DEF LossInv, NoGaps
<1>2. ASSUME task # "stopped"
      PROVE  /\ Len(Waiting) = Held
             /\ \A i \in DOMAIN Waiting : Waiting[i] = Accepted - Len(Waiting) + i
  <2>0. QueueIsWhole BY <1>2 DEF LossInv
  <2>1. CASE task # "sending"
    <3>1. Waiting = outgoing BY <2>1 DEF Waiting
    <3> QED BY <2>0, <2>1, <3>1 DEF QueueIsWhole, Held
  <2>2. CASE task = "sending"
    <3>0. hand.n \in Nat BY OrderTypes
    <3>1. /\ Len(Waiting) = Len(outgoing) + 1 /\ DOMAIN Waiting = 1..(Len(outgoing) + 1)
          /\ Waiting[1] = hand.n
          /\ \A i \in 2..(Len(outgoing) + 1) : Waiting[i] = outgoing[i - 1]
      BY <2>2, <3>0 DEF Waiting
    <3>2. ASSUME NEW i \in DOMAIN Waiting PROVE Waiting[i] = Accepted - Len(Waiting) + i
      <4>1. CASE i = 1 BY <2>0, <2>2, <3>1, <4>1 DEF QueueIsWhole
      <4>2. CASE i # 1
        <5>0. Len(outgoing) \in Nat /\ DOMAIN outgoing = 1..Len(outgoing) BY LossTypes
        <5>1. i \in 2..(Len(outgoing) + 1) BY <3>1, <3>2, <4>2, <5>0
        <5>2. i - 1 \in DOMAIN outgoing BY <5>0, <5>1
        <5>3. outgoing[i - 1] = Accepted - Len(outgoing) + (i - 1) BY <2>0, <5>2 DEF QueueIsWhole
        <5>4. Accepted \in Int BY LossTypes
        <5>5. Waiting[i] = outgoing[i - 1] BY <3>1, <5>1
        <5> QED BY <3>1, <5>0, <5>1, <5>3, <5>4, <5>5
      <4> QED BY <4>1, <4>2
    <3> QED BY <2>2, <3>1, <3>2 DEF Held
  <2> QED BY <2>1, <2>2
<1>3. ASSUME task # "stopped", up, Len(wire) \in Written, wire[Len(wire)].conn = connections
      PROVE  wire[Len(wire)].n = Accepted - Len(Waiting)
  BY <1>2, <1>3 DEF LossInv, LastIsKnown
<1> QED BY <1>1, <1>2, <1>3 DEF OnlyBreaksLose

(* What the application sends is lost only by being written to a connection *)
(* that breaks, and then as the end of what was written to it: the queue is *)
(* kept (client.rs, module comment), nothing is skipped within a connection *)
(* and nothing after the last that arrived while the connection works.      *)
THEOREM OnlyBreaksEverLose == Spec => []OnlyBreaksLose
<1>1. Init => LossInv
  <2> SUFFICES ASSUME Init PROVE LossInv OBVIOUS
  <2>1. Written = {} /\ DOMAIN outgoing = {} /\ ~up /\ task = "connecting"
    BY DEF Init, Written
  <2> QED BY <2>1 DEF LossInv, NoGaps, QueueIsWhole, LastIsKnown
<1>2. Spec => []RejoinInv
  <2>1. Init => RejoinInv BY DEF Init, RejoinInv, WireInv, JoinsFirst
  <2> QED BY <2>1, RejoinStep, TypeAlways, PTL DEF Spec
<1>3. RejoinInv => WireInv BY DEF RejoinInv
<1> QED BY <1>1, <1>2, <1>3, LossStep, LossInvMeans, TypeAlways, PTL DEF Spec

(* What the server reads is a JoinRoom first on every connection, then the  *)
(* application's messages in its order, and of them only the end of a       *)
(* connection that broke is missing (client.rs, run and session).           *)
THEOREM WireStaysFaithful == Spec => []WireIsFaithful
<1>1. JoinsFirst /\ SendsStayInOrder /\ OnlyBreaksLose => WireIsFaithful
  BY DEF WireIsFaithful
<1> QED BY <1>1, RejoinsFirst, SendsAreOrdered, OnlyBreaksEverLose, PTL

-----------------------------------------------------------------------------
(***************************************************************************)
(* The events, from the server to the application.                         *)
(***************************************************************************)
Follows(a, b) == \/ a.conn = b.conn /\ b.n = a.n + 1
                 \/ a.conn < b.conn /\ b.n = 1

InLine(s) == \A i \in 1..(Len(s) - 1) : Follows(s[i], s[i + 1])

(* The event in the task's hand. *)
InHand == IF task = "delivering" THEN <<hand>> ELSE <<>>

(* What arrives is in line, comes from connections that were made, and     *)
(* while the connection is up ends with the last message sent on it.       *)
ArrivalInv ==
  app # "gone" /\ task # "stopped" =>
    /\ InLine(Arriving)
    /\ \A i \in 1..Len(Arriving) : Arriving[i].conn <= connections
    /\ up => IF inbound = 0 THEN Arriving[Len(Arriving)].conn < connections
             ELSE Arriving[Len(Arriving)] = Item(inbound)

LEMMA ArrivingParts ==
  ASSUME TypeInv, TypeInv'
  PROVE  /\ seen \in Items /\ events \in Seq(Items) /\ InHand \in Seq(Items) /\ inbox \in Seq(Items)
         /\ Arriving = <<seen>> \o events \o InHand \o inbox
         /\ seen' \in Items /\ events' \in Seq(Items) /\ InHand' \in Seq(Items) /\ inbox' \in Seq(Items)
         /\ Arriving' = <<seen'>> \o events' \o InHand' \o inbox'
<1>1. /\ seen \in Items /\ events \in Seq(Items) /\ hand \in Items /\ inbox \in Seq(Items)
      /\ seen' \in Items /\ events' \in Seq(Items) /\ hand' \in Items /\ inbox' \in Seq(Items)
  BY DEF TypeInv, TypeOK
<1>2. InHand \in Seq(Items) /\ InHand' \in Seq(Items)
  BY <1>1 DEF InHand
<1>3. /\ Arriving = <<seen>> \o events \o InHand \o inbox
      /\ Arriving' = <<seen'>> \o events' \o InHand' \o inbox'
  BY DEF Arriving, InHand
<1> QED
  BY <1>1, <1>2, <1>3

(* What follows what was seen last, and its places in the line. *)
Rest == events \o InHand \o inbox

LEMMA Regrouped ==
  ASSUME NEW S, NEW a \in Seq(S), NEW s \in Seq(S), NEW t \in Seq(S), NEW u \in Seq(S)
  PROVE  ((a \o s) \o t) \o u = a \o ((s \o t) \o u) /\ (s \o t) \o u \in Seq(S)
<1>1. a \o s \in Seq(S) /\ s \o t \in Seq(S) /\ (s \o t) \o u \in Seq(S)
  BY ConcatProperties
<1>2. (a \o s) \o t = a \o (s \o t)
  BY ConcatAssociative
<1>3. (a \o (s \o t)) \o u = a \o ((s \o t) \o u)
  BY <1>1, ConcatAssociative
<1> QED
  BY <1>1, <1>2, <1>3

LEMMA Consed ==
  ASSUME NEW S, NEW a \in S, NEW s \in Seq(S), NEW w, w = <<a>> \o s
  PROVE  /\ w \in Seq(S) /\ Len(s) \in Nat /\ Len(w) = Len(s) + 1
         /\ \A i \in 1..Len(s) : w[i + 1] = s[i]
<1>0. <<a>> \in Seq(S) /\ Len(<<a>>) = 1 /\ Len(s) \in Nat
  OBVIOUS
<1>1. /\ w \in Seq(S) /\ Len(w) = 1 + Len(s)
      /\ \A i \in 1..(1 + Len(s)) : w[i] = IF i <= 1 THEN <<a>>[i] ELSE s[i - 1]
  BY <1>0, ConcatProperties
<1>2. ASSUME NEW i \in 1..Len(s) PROVE w[i + 1] = s[i]
  <2>1. i + 1 \in 1..(1 + Len(s)) /\ ~(i + 1 <= 1) /\ (i + 1) - 1 = i
    BY <1>0
  <2> QED
    BY <1>1, <2>1
<1> QED
  BY <1>0, <1>1, <1>2

LEMMA RestTypes ==
  ASSUME TypeInv, TypeInv'
  PROVE  /\ seen \in Items /\ Rest \in Seq(Items) /\ Arriving = <<seen>> \o Rest
         /\ seen' \in Items /\ Rest' \in Seq(Items) /\ Arriving' = <<seen'>> \o Rest'
<1>1. <<seen>> \in Seq(Items) /\ <<seen'>> \in Seq(Items)
  BY ArrivingParts
<1>a. \A a, s, t, u \in Seq(Items) :
         ((a \o s) \o t) \o u = a \o ((s \o t) \o u) /\ (s \o t) \o u \in Seq(Items)
  BY Regrouped
<1>2. Rest \in Seq(Items) /\ Arriving = <<seen>> \o Rest
  <2>1. PICK a : a = <<seen>>
    OBVIOUS
  <2>2. Arriving = ((a \o events) \o InHand) \o inbox /\ a \in Seq(Items)
    BY <1>1, <2>1, ArrivingParts
  <2>3. events \in Seq(Items) /\ InHand \in Seq(Items) /\ inbox \in Seq(Items)
    BY ArrivingParts
  <2>4. /\ ((a \o events) \o InHand) \o inbox = a \o ((events \o InHand) \o inbox)
        /\ (events \o InHand) \o inbox \in Seq(Items)
    BY ONLY <1>a, <2>2, <2>3, Zenon
  <2> QED
    BY <2>1, <2>2, <2>4 DEF Rest
<1>3. Rest' \in Seq(Items) /\ Arriving' = <<seen'>> \o Rest'
  <2>1. PICK a : a = <<seen'>>
    OBVIOUS
  <2>2. Arriving' = ((a \o events') \o InHand') \o inbox' /\ a \in Seq(Items)
    BY <1>1, <2>1, ArrivingParts
  <2>3. events' \in Seq(Items) /\ InHand' \in Seq(Items) /\ inbox' \in Seq(Items)
    BY ArrivingParts
  <2>4. /\ ((a \o events') \o InHand') \o inbox' = a \o ((events' \o InHand') \o inbox')
        /\ (events' \o InHand') \o inbox' \in Seq(Items)
    BY ONLY <1>a, <2>2, <2>3, Zenon
  <2> QED
    BY <2>1, <2>2, <2>4 DEF Rest
<1> QED
  BY <1>2, <1>3, ArrivingParts

(* What arrives is never less than what was seen last. *)
LEMMA ArrivingType ==
  ASSUME TypeInv, TypeInv'
  PROVE  /\ Arriving \in Seq(Items) /\ Len(Arriving) \in Nat /\ Len(Arriving) >= 1
         /\ Arriving' \in Seq(Items) /\ Len(Arriving') \in Nat /\ Len(Arriving') >= 1
         /\ \A i \in 1..Len(Arriving) : Arriving[i].conn \in Nat
<1>a. \A w : \A a \in Items, s \in Seq(Items) : w = <<a>> \o s =>
         w \in Seq(Items) /\ Len(s) \in Nat /\ Len(w) = Len(s) + 1
  BY Consed
<1>1. Arriving \in Seq(Items) /\ Len(Rest) \in Nat /\ Len(Arriving) = Len(Rest) + 1
  BY <1>a, RestTypes, Zenon
<1>2. Arriving' \in Seq(Items) /\ Len(Rest') \in Nat /\ Len(Arriving') = Len(Rest') + 1
  BY <1>a, RestTypes, Zenon
<1>3. \A i \in 1..Len(Arriving) : Arriving[i].conn \in Nat
  BY <1>1, ItemTypes
<1> QED
  BY <1>1, <1>2, <1>3

(* The application takes what is first in line after what it saw. *)
LEMMA LineMoves ==
  ASSUME TypeInv, TypeInv', events # <<>>, seen' = Head(events), events' = Tail(events),
         UNCHANGED <<task, hand, inbox>>
  PROVE  /\ Len(Arriving) = Len(Arriving') + 1
         /\ \A i \in 1..Len(Arriving') : Arriving'[i] = Arriving[i + 1]
<1>1. InHand' = InHand /\ inbox' = inbox
  BY DEF InHand
<1>2. <<seen'>> \o events' = events /\ <<seen'>> \in Seq(Items)
  BY ArrivingParts
<1>3. Arriving' = (events \o InHand) \o inbox
  BY <1>1, <1>2, ArrivingParts
<1>4. Arriving' = Rest
  BY <1>3 DEF Rest
<1> QED
  BY <1>4, RestTypes, Consed

(* An event goes from the socket to the task's hand, and on to the stream. *)
LEMMA LineStays ==
  ASSUME TypeInv, TypeInv', UNCHANGED seen, TakeInbound \/ DeliverEvent
  PROVE  Arriving' = Arriving
<1>1. CASE TakeInbound
  <2>1. /\ InHand = <<>> /\ InHand' = <<Head(inbox)>> /\ inbox' = Tail(inbox) /\ inbox # <<>>
        /\ UNCHANGED <<seen, events>>
    BY <1>1 DEF TakeInbound, Goto, InHand, handle
  <2> DEFINE x == <<seen>> \o events
  <2>2. x \in Seq(Items) /\ inbox \in Seq(Items)
    BY ArrivingParts, ConcatProperties
  <2>3. /\ Arriving = (x \o <<>>) \o inbox
        /\ Arriving' = (x \o <<Head(inbox)>>) \o Tail(inbox)
    BY <2>1, ArrivingParts
  <2> HIDE DEF x
  <2>4. Head(inbox) \in Items /\ Tail(inbox) \in Seq(Items) /\ <<Head(inbox)>> \o Tail(inbox) = inbox
    BY <2>1, <2>2
  <2>5. <<Head(inbox)>> \in Seq(Items)
    BY <2>4
  <2>6. Arriving' = x \o (<<Head(inbox)>> \o Tail(inbox))
    BY <2>2, <2>3, <2>4, <2>5, ConcatAssociative
  <2>7. Arriving = x \o inbox
    BY <2>2, <2>3, ConcatEmptySeq
  <2> QED
    BY <2>4, <2>6, <2>7
<1>2. CASE DeliverEvent
  <2>1. /\ InHand = <<hand>> /\ InHand' = <<>> /\ events' = Append(events, hand)
        /\ UNCHANGED <<seen, inbox>>
    BY <1>2 DEF DeliverEvent, Goto, InHand, network, WaitForRoom
  <2>2. /\ <<seen>> \in Seq(Items) /\ events \in Seq(Items) /\ inbox \in Seq(Items)
        /\ hand \in Items /\ <<hand>> \in Seq(Items)
    BY ArrivingParts DEF TypeInv, TypeOK
  <2>3. events' = events \o <<hand>> /\ events' \in Seq(Items)
    BY <2>1, <2>2
  <2> DEFINE x == <<seen>> \o events
  <2>4. x \in Seq(Items) /\ <<seen>> \o events' = x \o <<hand>>
    BY <2>2, <2>3, ConcatAssociative, ConcatProperties
  <2>5. <<seen>> \o events' \in Seq(Items)
    BY <2>2, <2>3, ConcatProperties
  <2>6. Arriving' = ((<<seen>> \o events') \o <<>>) \o inbox /\ Arriving = (x \o <<hand>>) \o inbox
    BY <2>1, ArrivingParts
  <2> QED
    BY <2>4, <2>5, <2>6, ConcatEmptySeq
<1> QED
  BY <1>1, <1>2

(* The connection ends and takes the end of the line with it, or the       *)
(* server sends and the line grows.                                        *)
LEMMA LineBreaks ==
  ASSUME TypeInv, TypeInv', UNCHANGED <<seen, events>>, InHand' = InHand,
         Len(inbox') <= Len(inbox), \A i \in 1..Len(inbox') : inbox'[i] = inbox[i]
  PROVE  /\ Len(Arriving') <= Len(Arriving)
         /\ \A i \in 1..Len(Arriving') : Arriving'[i] = Arriving[i]
<1> DEFINE x == <<seen>> \o events \o InHand
<1>1. /\ x \in Seq(Items) /\ inbox \in Seq(Items) /\ inbox' \in Seq(Items)
      /\ Arriving = x \o inbox /\ Arriving' = x \o inbox'
  BY ArrivingParts, ConcatProperties
<1> HIDE DEF x
<1>2. /\ Len(Arriving) = Len(x) + Len(inbox)
      /\ \A i \in 1..(Len(x) + Len(inbox)) : Arriving[i] = IF i <= Len(x) THEN x[i] ELSE inbox[i - Len(x)]
  BY <1>1, ConcatProperties
<1>3. /\ Len(Arriving') = Len(x) + Len(inbox')
      /\ \A i \in 1..(Len(x) + Len(inbox')) : Arriving'[i] = IF i <= Len(x) THEN x[i] ELSE inbox'[i - Len(x)]
  BY <1>1, ConcatProperties
<1>4. Len(x) \in Nat /\ Len(inbox) \in Nat /\ Len(inbox') \in Nat
  BY <1>1
<1>5. ASSUME NEW i \in 1..Len(Arriving') PROVE Arriving'[i] = Arriving[i]
  <2>1. CASE i <= Len(x)
    BY <1>2, <1>3, <1>4, <2>1
  <2>2. CASE ~(i <= Len(x))
    <3>1. i - Len(x) \in 1..Len(inbox')
      BY <1>3, <1>4, <2>2
    <3> QED
      BY <1>2, <1>3, <1>4, <2>2, <3>1
  <2> QED
    BY <2>1, <2>2
<1> QED
  BY <1>2, <1>3, <1>4, <1>5

LEMMA LineGrows ==
  ASSUME TypeInv, TypeInv', UNCHANGED <<seen, events>>, InHand' = InHand,
         NEW it \in Items, inbox' = Append(inbox, it)
  PROVE  /\ Len(Arriving') = Len(Arriving) + 1 /\ Arriving'[Len(Arriving')] = it
         /\ \A i \in 1..Len(Arriving) : Arriving'[i] = Arriving[i]
<1>b. TypeInv /\ TypeInv' /\ seen' = seen /\ events' = events /\ InHand' = InHand
  OBVIOUS
<1> DEFINE x == <<seen>> \o events \o InHand
<1>0. <<it>> \in Seq(Items)
  OBVIOUS
<1>a. /\ x \in Seq(Items) /\ inbox \in Seq(Items)
      /\ Arriving = x \o inbox /\ Arriving' = x \o inbox'
  BY ONLY <1>b, ArrivingParts, ConcatProperties
<1>1. /\ x \in Seq(Items) /\ inbox \in Seq(Items) /\ <<it>> \in Seq(Items)
      /\ Arriving = x \o inbox /\ Arriving' = x \o inbox'
  BY <1>0, <1>a
<1> HIDE DEF x
<1>2. inbox' = inbox \o <<it>>
  BY <1>1
<1>3. Arriving' = Arriving \o <<it>> /\ Arriving \in Seq(Items)
  BY <1>1, <1>2, ConcatAssociative, ConcatProperties
<1>4. /\ Len(Arriving') = Len(Arriving) + 1
      /\ \A i \in 1..(Len(Arriving) + 1) :
            Arriving'[i] = IF i <= Len(Arriving) THEN Arriving[i] ELSE <<it>>[i - Len(Arriving)]
  <2>1. Len(<<it>>) = 1
    OBVIOUS
  <2> QED
    BY <1>1, <1>3, <2>1, ConcatProperties
<1>5. Len(Arriving) \in Nat /\ (Len(Arriving) + 1) - Len(Arriving) = 1
  BY <1>3
<1> QED
  BY <1>4, <1>5

(* A line stays in line when its first item goes, or its end. *)
LEMMA LineKept ==
  ASSUME NEW s, NEW t, NEW c, Len(s) \in Nat, Len(t) \in Nat, InLine(s),
         \A i \in 1..Len(s) : s[i].conn <= c,
         \/ Len(s) = Len(t) + 1 /\ \A i \in 1..Len(t) : t[i] = s[i + 1]
         \/ Len(t) <= Len(s) /\ \A i \in 1..Len(t) : t[i] = s[i]
  PROVE  InLine(t) /\ \A i \in 1..Len(t) : t[i].conn <= c
<1>1. CASE Len(s) = Len(t) + 1 /\ \A i \in 1..Len(t) : t[i] = s[i + 1]
  <2>1. ASSUME NEW i \in 1..(Len(t) - 1) PROVE Follows(t[i], t[i + 1])
    <3>1. /\ i \in 1..Len(t) /\ i + 1 \in 1..Len(t) /\ i + 1 \in 1..(Len(s) - 1)
      BY <1>1
    <3> QED
      BY <1>1, <3>1 DEF InLine
  <2>2. ASSUME NEW i \in 1..Len(t) PROVE t[i].conn <= c
    BY <1>1
  <2> QED
    BY <2>1, <2>2 DEF InLine
<1>2. CASE Len(t) <= Len(s) /\ \A i \in 1..Len(t) : t[i] = s[i]
  <2>1. ASSUME NEW i \in 1..(Len(t) - 1) PROVE Follows(t[i], t[i + 1])
    <3>1. i \in 1..Len(t) /\ i + 1 \in 1..Len(t) /\ i \in 1..(Len(s) - 1)
      BY <1>2
    <3> QED
      BY <1>2, <3>1 DEF InLine
  <2>2. ASSUME NEW i \in 1..Len(t) PROVE t[i].conn <= c
    BY <1>2
  <2> QED
    BY <2>1, <2>2 DEF InLine
<1> QED
  BY <1>1, <1>2

(* What the step of the line must give, given what the step did to it. *)
LEMMA ArrivalFrom ==
  ASSUME TypeInv, TypeInv', ArrivalInv, app # "gone", task # "stopped",
         connections' \in Nat, connections <= connections',
         \/ Len(Arriving) = Len(Arriving') + 1 /\ \A i \in 1..Len(Arriving') : Arriving'[i] = Arriving[i + 1]
         \/ Len(Arriving') <= Len(Arriving) /\ \A i \in 1..Len(Arriving') : Arriving'[i] = Arriving[i],
         up' => \/ /\ up /\ UNCHANGED <<inbound, connections>>
                   /\ Arriving'[Len(Arriving')] = Arriving[Len(Arriving)]
                \/ inbound' = 0 /\ connections' = connections + 1
  PROVE  ArrivalInv'
<1>1. /\ Arriving \in Seq(Items) /\ Len(Arriving) \in Nat /\ Len(Arriving) >= 1
      /\ Arriving' \in Seq(Items) /\ Len(Arriving') \in Nat /\ Len(Arriving') >= 1
      /\ \A i \in 1..Len(Arriving) : Arriving[i].conn \in Nat
  BY ArrivingType
<1>2. InLine(Arriving) /\ \A i \in 1..Len(Arriving) : Arriving[i].conn <= connections
  BY DEF ArrivalInv
<1>3. InLine(Arriving') /\ \A i \in 1..Len(Arriving') : Arriving'[i].conn <= connections
  BY <1>1, <1>2, LineKept
<1>4. \A i \in 1..Len(Arriving') : Arriving'[i].conn \in Nat
  BY <1>1, ItemTypes
<1>5. connections \in Nat
  BY ClientAssumption DEF TypeInv, TypeOK
<1>6. \A i \in 1..Len(Arriving') : Arriving'[i].conn <= connections'
  BY <1>3, <1>4, <1>5
<1>7. ASSUME up' PROVE IF inbound' = 0 THEN Arriving'[Len(Arriving')].conn < connections'
                       ELSE Arriving'[Len(Arriving')] = Item(inbound)'
  <2>1. CASE up /\ UNCHANGED <<inbound, connections>> /\ Arriving'[Len(Arriving')] = Arriving[Len(Arriving)]
    BY <2>1 DEF ArrivalInv, Item
  <2>2. CASE inbound' = 0 /\ connections' = connections + 1
    BY <1>1, <1>3, <1>4, <1>5, <2>2
  <2> QED
    BY <1>7, <2>1, <2>2
<1> QED
  BY <1>3, <1>6, <1>7 DEF ArrivalInv, InLine

LEMMA ArrivalStep == TypeInv /\ TypeInv' /\ ArrivalInv /\ [Next]_vars => ArrivalInv'
<1> SUFFICES ASSUME TypeInv, TypeInv', ArrivalInv, [Next]_vars, app' # "gone", task' # "stopped"
             PROVE  ArrivalInv'
  BY DEF ArrivalInv
<1> USE DEF Goto, AppGoto, handle, network
<1>a. connections \in Nat /\ connections' \in Nat /\ inbound \in Nat
  BY ClientAssumption DEF TypeInv, TypeOK
<1>b. /\ Arriving \in Seq(Items) /\ Len(Arriving) \in Nat /\ Len(Arriving) >= 1
      /\ Arriving' \in Seq(Items) /\ Len(Arriving') \in Nat /\ Len(Arriving') >= 1
  BY ArrivingType
<1>c. app # "gone" /\ task # "stopped"
  <2>1. CASE UNCHANGED vars
    BY <2>1 DEF vars
  <2>2. CASE Next
    BY <2>2 DEF Next, Task, StartSend, FinishSend, TakeEvent, RequestShutdown, ReportDisconnected,
       DropClient, ServerSends, ConnectionBreaks, ConnectSucceeds, ConnectFails, ReportConnected,
       ReportReconnecting, DelayElapses, StopRequested, SendJoin, TakeOutgoing, SendOutgoing,
       TakeInbound, DeliverEvent, ConsumerGone, SessionEnds
  <2> QED
    BY <2>1, <2>2
<1>1. CASE TakeEvent
  <2>1. /\ events # <<>> /\ seen' = Head(events) /\ events' = Tail(events)
        /\ UNCHANGED <<task, hand, inbox, up, inbound, connections>>
    BY <1>1 DEF TakeEvent
  <2>2. /\ Len(Arriving) = Len(Arriving') + 1
        /\ \A i \in 1..Len(Arriving') : Arriving'[i] = Arriving[i + 1]
    BY <2>1, LineMoves
  <2>3. Arriving'[Len(Arriving')] = Arriving[Len(Arriving)]
    BY <1>b, <2>2
  <2> QED
    BY <1>a, <1>c, <2>1, <2>2, <2>3, ArrivalFrom
<1>2. CASE TakeInbound \/ DeliverEvent
  <2>1. UNCHANGED <<seen, up, inbound, connections>>
    BY <1>2 DEF TakeInbound, DeliverEvent
  <2>2. Arriving' = Arriving
    BY <1>2, <2>1, LineStays
  <2> QED
    BY <1>a, <1>b, <1>c, <2>1, <2>2, ArrivalFrom
<1>3. CASE ServerSends
  <2>1. /\ up /\ up' = up /\ inbound' = inbound + 1 /\ connections' = connections
        /\ inbox' = Append(inbox, Item(inbound')) /\ UNCHANGED <<seen, events, task, hand>>
    BY <1>3 DEF ServerSends
  <2>2. Item(inbound') \in Items
    <3>1. inbound + 1 \in Nat /\ connections \in 0..MaxConnections
      BY <1>a DEF TypeInv, TypeOK
    <3> QED
      BY <2>1, <3>1, ItemTypes
  <2>3. InHand' = InHand
    BY <2>1 DEF InHand
  <2>4. /\ Len(Arriving') = Len(Arriving) + 1 /\ Arriving'[Len(Arriving')] = Item(inbound')
        /\ \A i \in 1..Len(Arriving) : Arriving'[i] = Arriving[i]
    BY <2>1, <2>2, <2>3, LineGrows
  <2>5. Item(inbound').conn = connections /\ Item(inbound').n = inbound + 1
    BY <2>1 DEF Item
  <2>6. /\ InLine(Arriving) /\ \A i \in 1..Len(Arriving) : Arriving[i].conn <= connections
        /\ IF inbound = 0 THEN Arriving[Len(Arriving)].conn < connections
           ELSE Arriving[Len(Arriving)] = Item(inbound)
    BY <1>c, <2>1 DEF ArrivalInv
  <2>7. Follows(Arriving[Len(Arriving)], Item(inbound'))
    BY <1>a, <2>5, <2>6 DEF Follows, Item
  <2>8. ASSUME NEW i \in 1..(Len(Arriving') - 1) PROVE Follows(Arriving'[i], Arriving'[i + 1])
    <3>1. CASE i = Len(Arriving)
      BY <1>b, <2>4, <2>7, <3>1
    <3>2. CASE i # Len(Arriving)
      <4>1. i \in 1..(Len(Arriving) - 1) /\ i \in 1..Len(Arriving) /\ i + 1 \in 1..Len(Arriving)
        BY <1>b, <2>4, <3>2
      <4> QED
        BY <2>4, <2>6, <4>1 DEF InLine
    <3> QED
      BY <3>1, <3>2
  <2>9. ASSUME NEW i \in 1..Len(Arriving') PROVE Arriving'[i].conn <= connections'
    <3>1. i = Len(Arriving') \/ i \in 1..Len(Arriving)
      BY <1>b, <2>4
    <3> QED
      BY <1>a, <2>1, <2>4, <2>5, <2>6, <3>1
  <2>10. IF inbound' = 0 THEN Arriving'[Len(Arriving')].conn < connections'
         ELSE Arriving'[Len(Arriving')] = Item(inbound)'
    BY <1>a, <2>1, <2>4 DEF Item
  <2> QED
    BY <2>8, <2>9, <2>10 DEF ArrivalInv, InLine
<1>4. CASE ConnectionBreaks
  <2>1. PICK k \in 0..Len(inbox) : inbox' = SubSeq(inbox, 1, k)
    BY <1>4 DEF ConnectionBreaks
  <2>2. inbox \in Seq(Items) /\ Len(inbox) \in Nat
    BY DEF TypeInv, TypeOK
  <2>3. Len(inbox') <= Len(inbox) /\ \A i \in 1..Len(inbox') : inbox'[i] = inbox[i]
    BY <2>1, <2>2
  <2>4. /\ UNCHANGED <<seen, events, task, hand, connections>> /\ ~up'
    BY <1>4 DEF ConnectionBreaks
  <2>5. InHand' = InHand
    BY <2>4 DEF InHand
  <2>6. /\ Len(Arriving') <= Len(Arriving) /\ \A i \in 1..Len(Arriving') : Arriving'[i] = Arriving[i]
    BY <2>3, <2>4, <2>5, LineBreaks
  <2> QED
    BY <1>a, <1>c, <2>4, <2>6, ArrivalFrom
<1>5. CASE ConnectSucceeds \/ SessionEnds
  <2>1. /\ inbox' = <<>> /\ UNCHANGED <<seen, events>>
        /\ task # "delivering" /\ task' # "delivering"
        /\ \/ ~up' /\ connections' = connections
           \/ inbound' = 0 /\ connections' = connections + 1
    BY <1>5 DEF ConnectSucceeds, SessionEnds, LossNoticed
  <2>2. InHand' = InHand
    BY <2>1 DEF InHand
  <2>3. inbox \in Seq(Items) /\ Len(inbox) \in Nat /\ Len(<<>>) = 0
    BY DEF TypeInv, TypeOK
  <2>4. Len(inbox') <= Len(inbox) /\ \A i \in 1..Len(inbox') : inbox'[i] = inbox[i]
    BY <2>1, <2>3
  <2>5. /\ Len(Arriving') <= Len(Arriving) /\ \A i \in 1..Len(Arriving') : Arriving'[i] = Arriving[i]
    BY <2>1, <2>2, <2>4, LineBreaks
  <2> QED
    BY <1>a, <1>c, <2>1, <2>5, ArrivalFrom
<1>6. CASE \/ StartSend \/ FinishSend \/ RequestShutdown \/ ReportDisconnected \/ DropClient
           \/ ConnectFails \/ ReportConnected \/ ReportReconnecting \/ DelayElapses \/ StopRequested
           \/ SendJoin \/ TakeOutgoing \/ SendOutgoing \/ ConsumerGone \/ UNCHANGED vars
  <2>1. /\ UNCHANGED <<seen, events, inbox, up, inbound, connections>>
        /\ \/ task # "delivering" /\ task' # "delivering"
           \/ UNCHANGED <<task, hand>>
    BY <1>6 DEF StartSend, FinishSend, RequestShutdown, ReportDisconnected, DropClient, ConnectFails,
       ReportConnected, ReportReconnecting, DelayElapses, StopRequested, SendJoin, TakeOutgoing,
       SendOutgoing, ConsumerGone, vars
  <2>2. Arriving' = Arriving
    BY <2>1 DEF Arriving
  <2> QED
    BY <1>a, <1>b, <1>c, <2>1, <2>2, ArrivalFrom
<1> QED
  BY <1>1, <1>2, <1>3, <1>4, <1>5, <1>6 DEF Next, Task

(* Events reach the application in the order in which the server sent them *)
(* on each connection and without a gap, whatever is queued and however    *)
(* often the connection breaks: the stream, the task's hand and the socket *)
(* form one line (client.rs, session; the events channel).                 *)
THEOREM EventsAreOrdered == Spec => []EventsStayInOrder
<1>1. TypeInv /\ ArrivalInv /\ [Next]_vars => ArrivalInv'
  BY ArrivalStep, TypeStep
<1>2. ArrivalInv => EventsStayInOrder
  BY DEF ArrivalInv, InLine, Follows, EventsStayInOrder
<1>3. Init => ArrivalInv
  <2> SUFFICES ASSUME Init PROVE ArrivalInv
    OBVIOUS
  <2>1. Arriving = <<Nothing>> /\ ~up
    BY DEF Init, Arriving
  <2> QED
    BY <2>1 DEF Init, ArrivalInv, InLine, Nothing
<1> QED
  BY <1>1, <1>2, <1>3, TypeAlways, PTL DEF Spec
=============================================================================
