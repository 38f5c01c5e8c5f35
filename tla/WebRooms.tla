------------------------------ MODULE WebRooms ------------------------------
(***************************************************************************)
(* The room of the web version: the Socket.IO server of server.js and, in  *)
(* every browser, RoomManager.ts, the event forwarding of main.ts, the     *)
(* peer map of PeerManager.ts and the cards of UIRenderer.ts.              *)
(*                                                                         *)
(* A page joins one room, so there is one room here.  A browser gets a new *)
(* socket id, <<browser, session>>, at every connection; Socket.IO keeps   *)
(* what is emitted while disconnected and sends it first when the          *)
(* connection is back.  What is in flight when a connection breaks may be  *)
(* lost, and the server notices the break later, perhaps after the browser *)
(* is back under its next id.                                              *)
(***************************************************************************)
EXTENDS Naturals, Sequences, FiniteSets

CONSTANTS
  Browsers,     (* the pages that are open                                 *)
  RoomSize,     (* the places of the room (6 in server.js)                 *)
  MaxSessions,  (* bound: connections per browser                          *)
  MaxBreaks,    (* bound: connections that break, all browsers             *)
  MaxClicks,    (* bound: what the users do, all browsers                  *)
  MaxQueue      (* bound: messages in one direction of one connection      *)

ASSUME WebAssumption ==
  /\ Browsers # {} /\ IsFiniteSet(Browsers)
  /\ RoomSize \in Nat \ {0} /\ MaxSessions \in Nat \ {0}
  /\ MaxBreaks \in Nat /\ MaxClicks \in Nat /\ MaxQueue \in Nat \ {0}

VARIABLES
  session,   (* session[b]: how often b has connected; 0 before the first  *)
  online,    (* online[b]: the socket of b is connected                    *)
  inCall,    (* inCall[b]: RoomManager.currentRoomId is set                *)
  deferred,  (* deferred[b]: joinRoom waits for SOCKET_CONNECTED           *)
  buffer,    (* buffer[b]: what Socket.IO holds back while disconnected    *)
  peers,     (* peers[b]: the keys of PeerManager.peers                    *)
  cards,     (* cards[b]: the peer cards of the page: id -> shown muted    *)
  owed,      (* owed[b]: peers a first offer is still due to               *)
  muted,     (* muted[b]: App.isMuted                                      *)
  wire,      (* wire[s]: from the browser to the server, on socket s       *)
  inbox,     (* inbox[s]: from the server to the browser, on socket s      *)
  broken,    (* sockets the browser has lost and the server has not        *)
  room,      (* the room's map: member -> its isMuted; gone when empty     *)
  channel,   (* the sockets in the Socket.IO room                          *)
  breaks,    (* connections that have broken                               *)
  clicks,    (* what the users have done                                   *)
  (* What the properties remember; nothing in the code reads it.           *)
  told,      (* told[b]: isMuted as last sent on this connection           *)
  stale,     (* stale[b]: the page of b has lost a connection              *)
  outsiders, (* sockets that signalled while they were not in the room     *)
  unheard    (* sockets whose last state the rate limit refused            *)

pageVars == <<session, online, inCall, deferred, buffer, peers, cards, owed,
              muted>>
serverVars == <<room, channel>>
counters == <<breaks, clicks>>
auxVars == <<told, stale, outsiders, unheard>>
vars == <<pageVars, serverVars, wire, inbox, broken, counters, auxVars>>

Sockets == Browsers \X (1 .. MaxSessions)

Id(b) == <<b, session[b]>>
Connected == {s \in Sockets : s[2] <= session[s[1]]}

(* The client's messages; RoomManager.ts emits them.                       *)
ToServer ==
  [type : {"join-room", "leave-room"}]
    \union [type : {"peer-state-changed"}, muted : BOOLEAN]
    \union [type : {"signal"}, target : Sockets]

(* The server's messages; "signal" carries an offer.                       *)
ToBrowser ==
  [type : {"room-full"}]
    \union [type : {"user-left", "signal"}, id : Sockets]
    \union [type : {"user-joined", "peer-state-changed"},
            id : Sockets, muted : BOOLEAN]
    \union [type : {"room-users"},
            members : UNION {[S -> BOOLEAN] : S \in SUBSET Sockets}]

TypeOK ==
  /\ session \in [Browsers -> 0 .. MaxSessions]
  /\ online \in [Browsers -> BOOLEAN] /\ inCall \in [Browsers -> BOOLEAN]
  /\ deferred \in [Browsers -> BOOLEAN] /\ muted \in [Browsers -> BOOLEAN]
  /\ told \in [Browsers -> BOOLEAN] /\ stale \in [Browsers -> BOOLEAN]
  /\ \A b \in Browsers :
       /\ online[b] => Id(b) \in Connected \ broken /\ buffer[b] = <<>>
       /\ DOMAIN cards[b] \subseteq Connected /\ peers[b] \subseteq Connected
       /\ owed[b] \subseteq peers[b]
       /\ \A i \in DOMAIN buffer[b] : buffer[b][i] \in ToServer
  /\ \A s \in Sockets :
       /\ \A i \in DOMAIN wire[s] : wire[s][i] \in ToServer
       /\ inbox[s] # <<>> => s = Id(s[1]) /\ online[s[1]]
  /\ DOMAIN room \subseteq channel /\ channel \subseteq Connected
  /\ Cardinality(DOMAIN room) <= RoomSize
  /\ breaks \in 0 .. MaxBreaks /\ clicks \in 0 .. MaxClicks
  /\ broken \subseteq Connected /\ outsiders \subseteq Connected
  /\ unheard \subseteq Connected

-----------------------------------------------------------------------------
(* Helpers.                                                                *)

Without(f, x) == [y \in DOMAIN f \ {x} |-> f[y]]
Over(g, f) == [y \in DOMAIN g \union DOMAIN f |-> IF y \in DOMAIN g THEN g[y] ELSE f[y]]
Only(x, flag) == [y \in {x} |-> flag]

(* socket.emit: held back while the socket is not connected.               *)
Emit(b, messages) ==
  IF online[b]
  THEN /\ Len(wire[Id(b)]) + Len(messages) <= MaxQueue
       /\ wire' = [wire EXCEPT ![Id(b)] = @ \o messages]
       /\ UNCHANGED buffer
  ELSE /\ Len(buffer[b]) + Len(messages) <= MaxQueue
       /\ buffer' = [buffer EXCEPT ![b] = @ \o messages]
       /\ UNCHANGED wire

(* The methods of RoomManager that look at currentRoomId first.            *)
EmitInCall(b, message) == Emit(b, IF inCall[b] THEN <<message>> ELSE <<>>)

Listening(s) == s = Id(s[1]) /\ online[s[1]]

(* A broadcast reaches the sockets whose browser is still there.           *)
Push(to, message) ==
  /\ \A s \in to : Len(inbox[s]) < MaxQueue
  /\ inbox' = [s \in Sockets |-> IF s \in to /\ Listening(s)
                                 THEN Append(inbox[s], message) ELSE inbox[s]]

-----------------------------------------------------------------------------
(* The browser.                                                            *)

(* init of main.ts: connect() and joinRoom(), which finds the socket not   *)
(* yet connected and defers the join.                                      *)
Init ==
  /\ session = [b \in Browsers |-> 0] /\ online = [b \in Browsers |-> FALSE]
  /\ inCall = [b \in Browsers |-> TRUE] /\ deferred = [b \in Browsers |-> TRUE]
  /\ buffer = [b \in Browsers |-> <<>>] /\ peers = [b \in Browsers |-> {}]
  /\ cards = [b \in Browsers |-> <<>>] /\ owed = [b \in Browsers |-> {}]
  /\ muted = [b \in Browsers |-> FALSE]
  /\ wire = [s \in Sockets |-> <<>>] /\ inbox = [s \in Sockets |-> <<>>]
  /\ broken = {} /\ room = <<>> /\ channel = {}
  /\ breaks = 0 /\ clicks = 0
  /\ told = [b \in Browsers |-> FALSE] /\ stale = [b \in Browsers |-> FALSE]
  /\ outsiders = {} /\ unheard = {}

(* The socket connects: what was held back goes out first, with the join   *)
(* the "reconnect" handler added to it; then SOCKET_CONNECTED runs the     *)
(* deferred join.  A first connection that needed a retry runs both.       *)
Connect(b) ==
  /\ ~online[b] /\ session[b] < MaxSessions
  /\ \E retried \in BOOLEAN :
       LET join == <<[type |-> "join-room"]>>
           rejoin == IF (retried \/ ~deferred[b]) /\ inCall[b] THEN join ELSE <<>>
           first == IF deferred[b] THEN join ELSE <<>>
       IN /\ wire' = [wire EXCEPT ![<<b, session[b] + 1>>] =
                         buffer[b] \o rejoin \o first]
  /\ session' = [session EXCEPT ![b] = @ + 1]
  /\ online' = [online EXCEPT ![b] = TRUE]
  /\ deferred' = [deferred EXCEPT ![b] = FALSE]
  /\ buffer' = [buffer EXCEPT ![b] = <<>>]
  /\ told' = [told EXCEPT ![b] = FALSE]
  /\ UNCHANGED <<inCall, peers, cards, owed, muted, serverVars, inbox,
                 broken, counters, stale, outsiders, unheard>>

(* The transport breaks: a part of what was sent arrives, what was to be   *)
(* received is lost, and nothing is cleaned up in the page.                *)
Disconnect(b) ==
  /\ online[b] /\ breaks < MaxBreaks
  /\ breaks' = breaks + 1
  /\ online' = [online EXCEPT ![b] = FALSE]
  /\ \E n \in 0 .. Len(wire[Id(b)]) :
       wire' = [wire EXCEPT ![Id(b)] = SubSeq(@, 1, n)]
  /\ inbox' = [inbox EXCEPT ![Id(b)] = <<>>]
  /\ broken' = broken \union {Id(b)}
  /\ stale' = [stale EXCEPT ![b] = TRUE]
  /\ UNCHANGED <<session, inCall, deferred, buffer, peers, cards, owed, muted,
                 serverVars, clicks, told, outsiders, unheard>>

(* toggleMic.                                                              *)
ToggleMic(b) ==
  /\ clicks < MaxClicks
  /\ clicks' = clicks + 1
  /\ muted' = [muted EXCEPT ![b] = ~@]
  /\ EmitInCall(b, [type |-> "peer-state-changed", muted |-> ~muted[b]])
  /\ told' = [told EXCEPT ![b] = IF online[b] /\ inCall[b] THEN ~muted[b] ELSE @]
  /\ UNCHANGED <<session, online, inCall, deferred, peers, cards, owed,
                 serverVars, inbox, broken, breaks, stale, outsiders, unheard>>

(* leaveCall: every connection is closed, the cards stay on the page.      *)
LeaveCall(b) ==
  /\ inCall[b] /\ clicks < MaxClicks
  /\ clicks' = clicks + 1
  /\ peers' = [peers EXCEPT ![b] = {}] /\ owed' = [owed EXCEPT ![b] = {}]
  /\ Emit(b, <<[type |-> "leave-room"]>>)
  /\ inCall' = [inCall EXCEPT ![b] = FALSE]
  /\ UNCHANGED <<session, online, deferred, cards, muted, serverVars,
                 inbox, broken, breaks, auxVars>>

(* A second after leaveCall the page loads again.                          *)
Reload(b) ==
  /\ ~inCall[b] /\ session[b] < MaxSessions
  /\ online' = [online EXCEPT ![b] = FALSE]
  /\ inCall' = [inCall EXCEPT ![b] = TRUE]
  /\ deferred' = [deferred EXCEPT ![b] = TRUE]
  /\ buffer' = [buffer EXCEPT ![b] = <<>>]
  /\ peers' = [peers EXCEPT ![b] = {}] /\ owed' = [owed EXCEPT ![b] = {}]
  /\ cards' = [cards EXCEPT ![b] = <<>>] /\ muted' = [muted EXCEPT ![b] = FALSE]
  /\ stale' = [stale EXCEPT ![b] = FALSE]
  /\ broken' = IF online[b] THEN broken \union {Id(b)} ELSE broken
  /\ inbox' = [s \in Sockets |-> IF s[1] = b THEN <<>> ELSE inbox[s]]
  /\ UNCHANGED <<session, serverVars, wire, counters, told, outsiders, unheard>>

(* onnegotiationneeded of a new connection has made its offer.             *)
SendOffer(b) ==
  \E s \in owed[b] :
    /\ owed' = [owed EXCEPT ![b] = @ \ {s}]
    /\ Emit(b, <<[type |-> "signal", target |-> s]>>)
    /\ UNCHANGED <<session, online, inCall, deferred, peers, cards, muted, serverVars, inbox, broken, counters, auxVars>>

(* PEER_JOINED: createPeerConnection, which keeps an existing connection,  *)
(* and createPeerCard, which brings an existing card up to date.           *)
MeetPeers(b, found) ==
  LET others == Without(found, Id(b))
      new == DOMAIN others \ peers[b]
  IN /\ peers' = [peers EXCEPT ![b] = @ \union new]
     /\ owed' = [owed EXCEPT ![b] = @ \union new]
     /\ cards' = [cards EXCEPT ![b] = Over(others, @)]
     /\ UNCHANGED <<wire, buffer>>

(* PEER_LEFT: closePeerConnection and removePeerCard.                      *)
LosePeer(b, s) ==
  /\ peers' = [peers EXCEPT ![b] = @ \ {s}]
  /\ owed' = [owed EXCEPT ![b] = @ \ {s}]
  /\ cards' = [cards EXCEPT ![b] = Without(@, s)]
  /\ UNCHANGED <<wire, buffer>>

(* handleSignal of PeerManager: an offer of an unknown peer makes one.     *)
TakeOffer(b, s) ==
  /\ peers' = [peers EXCEPT ![b] = @ \union {s}]
  /\ UNCHANGED <<owed, cards, wire, buffer>>

ShowState(b, s, flag) ==
  /\ cards' = IF s \in DOMAIN cards[b] THEN [cards EXCEPT ![b][s] = flag] ELSE cards
  /\ UNCHANGED <<peers, owed, wire, buffer>>

(* The listeners RoomManager.connect installs on the socket.               *)
Receive(b) ==
  /\ online[b] /\ inbox[Id(b)] # <<>>
  /\ LET m == Head(inbox[Id(b)]) IN
       \/ m.type = "room-users" /\ MeetPeers(b, m.members)
       \/ m.type = "user-joined" /\ MeetPeers(b, Only(m.id, m.muted))
       \/ m.type = "user-left" /\ LosePeer(b, m.id)
       \/ m.type = "signal" /\ TakeOffer(b, m.id)
       \/ m.type = "peer-state-changed" /\ ShowState(b, m.id, m.muted)
       \/ /\ m.type = "room-full"  (* a toast *)
          /\ UNCHANGED <<peers, owed, cards, wire, buffer>>
  /\ inbox' = [inbox EXCEPT ![Id(b)] = Tail(@)]
  /\ UNCHANGED <<session, online, inCall, deferred, muted, serverVars, broken,
                 counters, told, stale, outsiders, unheard>>

-----------------------------------------------------------------------------
(* The server.                                                             *)

Members == DOMAIN room

(* Mutant: the capacity check is one too late.                             *)
MutJoinRoom(s) ==
  IF Cardinality(Members) > RoomSize
  THEN Push({s}, [type |-> "room-full"]) /\ UNCHANGED serverVars
  ELSE /\ Push({s}, [type |-> "room-users", members |-> room])
       /\ room' = Over(Only(s, FALSE), room)
       /\ channel' = channel \union {s}

(* Mutant: the state is published but not stored.                          *)
MutPeerStateChanged(s, flag) ==
  /\ Push(channel \ {s}, [type |-> "peer-state-changed", id |-> s, muted |-> flag])
  /\ UNCHANGED serverVars

(* join-room: room-users to the newcomer, user-joined to the channel.  A   *)
(* member that joins again meets itself in room-users.                     *)
JoinRoom(s) ==
  IF Cardinality(Members) >= RoomSize
  THEN Push({s}, [type |-> "room-full"]) /\ UNCHANGED serverVars
  ELSE /\ \A t \in channel \union {s} : Len(inbox[t]) < MaxQueue
       /\ inbox' = [t \in Sockets |->
            IF ~Listening(t) THEN inbox[t]
            ELSE IF t = s THEN Append(inbox[t], [type |-> "room-users",
                                                 members |-> room])
            ELSE IF t \in channel
                 THEN Append(inbox[t], [type |-> "user-joined", id |-> s,
                                        muted |-> FALSE])
            ELSE inbox[t]]
       /\ room' = Over(Only(s, FALSE), room)
       /\ channel' = channel \union {s}

PeerStateChanged(s, flag) ==
  IF s \in Members
  THEN /\ room' = [room EXCEPT ![s] = flag]
       /\ Push(channel \ {s}, [type |-> "peer-state-changed", id |-> s,
                               muted |-> flag])
       /\ UNCHANGED channel
  ELSE UNCHANGED <<serverVars, inbox>>

(* Mutant: the others are not told.                                        *)
MutHandleLeave(s) ==
  /\ room' = Without(room, s)
  /\ UNCHANGED inbox

(* handleLeave.  The socket stays in the Socket.IO room.                   *)
HandleLeave(s) ==
  /\ room' = Without(room, s)
  /\ IF s \in Members
     THEN Push(channel \ {s}, [type |-> "user-left", id |-> s])
     ELSE UNCHANGED inbox

(* One event of one socket.  checkRateLimit lets 30 signals and 10 states  *)
(* a second of one socket pass and drops the next without a word; any one  *)
(* may be that one here.  Its limit of 3 joins in 10 seconds is never met: *)
(* a socket joins twice at most, when it connects.                         *)
Serve(s) ==
  /\ wire[s] # <<>>
  /\ LET m == Head(wire[s]) IN
       \/ /\ \/ m.type = "join-room" /\ JoinRoom(s)
             \/ m.type = "leave-room" /\ HandleLeave(s) /\ UNCHANGED channel
             \/ /\ m.type = "signal"
                /\ \/ Push({m.target}, [type |-> "signal", id |-> s])
                   \/ UNCHANGED inbox  (* one too many *)
                /\ UNCHANGED serverVars
          /\ UNCHANGED unheard
       \/ /\ m.type = "peer-state-changed"
          /\ \/ PeerStateChanged(s, m.muted) /\ unheard' = unheard \ {s}
             \/ /\ s \in Members  (* one too many *)
                /\ unheard' = unheard \union {s}
                /\ UNCHANGED <<serverVars, inbox>>
  /\ wire' = [wire EXCEPT ![s] = Tail(@)]
  /\ outsiders' = IF Head(wire[s]).type = "signal" /\ s \notin Members
                  THEN outsiders \union {s} ELSE outsiders
  /\ UNCHANGED <<pageVars, broken, counters, told, stale>>

(* The disconnect event: the transport is gone and its messages are read.  *)
ServeDisconnect(s) ==
  /\ s \in broken /\ wire[s] = <<>>
  /\ HandleLeave(s)
  /\ channel' = channel \ {s}
  /\ broken' = broken \ {s}
  /\ UNCHANGED <<pageVars, wire, counters, auxVars>>

Next ==
  \/ \E b \in Browsers :
       \/ Connect(b) \/ Disconnect(b) \/ Receive(b) \/ SendOffer(b)
       \/ ToggleMic(b) \/ LeaveCall(b) \/ Reload(b)
  \/ \E s \in Sockets : Serve(s) \/ ServeDisconnect(s)

Spec == Init /\ [][Next]_vars

-----------------------------------------------------------------------------
(* Properties.                                                             *)

(* Nothing is on its way and the server has noticed every break.           *)
Quiet ==
  /\ broken = {}
  /\ \A s \in Sockets : wire[s] = <<>> /\ inbox[s] = <<>>
  /\ \A b \in Browsers : online[b] /\ owed[b] = {}

Present == {b \in Browsers : online[b] /\ Id(b) \in Members}

(* When all is quiet every member of the room has a connection to every    *)
(* other, whoever joined, broke off and came back in whatever order        *)
(* (room-users and user-joined of server.js, PEER_JOINED of RoomManager).  *)
MembersAreKnown ==
  Quiet => \A b \in Present : Members \ {Id(b)} \subseteq peers[b]

(* When all is quiet a connection to a peer that is not in the room has    *)
(* one of two causes: the page lost its connection, and with it a          *)
(* user-left; or the peer called it from outside the room, which the       *)
(* "signal" handler does not check.  A page that has left still hears of   *)
(* newcomers, as handleLeave never calls socket.leave, and calls them.     *)
GhostsAreExplained ==
  Quiet => \A b \in Present :
             peers[b] \ Members \subseteq (IF stale[b] THEN Sockets ELSE outsiders)

(* When all is quiet a page is connected to the members of the room, and   *)
(* beyond them only for a known cause (room-users, PEER_JOINED, user-left).*)
PeersMatchTheRoom == MembersAreKnown /\ GhostsAreExplained

(* When all is quiet every page shows of every other member what the      *)
(* server holds of it, and that is what its page last said on this         *)
(* connection, unless the server's limit refused just that: every change   *)
(* reaches the pages that are in the room and those that join later alike  *)
(* (room-users, user-joined and peer-state-changed of server.js).          *)
CardsShowWhatWasTold ==
  Quiet => \A b \in Present : \A c \in Present \ {b} :
             /\ Id(c) \in DOMAIN cards[b]
             /\ cards[b][Id(c)] = room[Id(c)]
             /\ Id(c) \in unheard \/ room[Id(c)] = told[c]

(* Not so: that a card shows the microphone.  A change the limit refuses   *)
(* is not sent again, and the mute hotkey toggles at every key repeat; and *)
(* a page says nothing of a microphone that was muted before it joined or  *)
(* joined again, while join-room starts from isMuted = false.              *)
CardsShowTheMicrophone ==
  Quiet => \A b \in Present : \A c \in Present \ {b} :
             Id(c) \in DOMAIN cards[b] => cards[b][Id(c)] = muted[c]

=============================================================================
