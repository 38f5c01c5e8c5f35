------------------------------- MODULE WebChat -------------------------------
(***************************************************************************)
(* The chat of the web version among the members of one room: ChatManager  *)
(* of every page, the forwarding of its events by main.ts and RoomManager, *)
(* and the chat handlers of server.js.  Nobody joins or leaves here (see   *)
(* WebRooms).                                                              *)
(***************************************************************************)
EXTENDS Naturals, Sequences

CONSTANTS
  Browsers,    (* the members of the room                                  *)
  MaxMessages, (* MAX_MESSAGES: what a page keeps (500)                    *)
  MaxClicks,   (* bound: messages, deletions and clears by users           *)
  MaxQueue     (* bound: messages in one direction of one connection       *)

VARIABLES
  history,  (* history[b]: ids of ChatManager.messages, oldest first       *)
  open,     (* open[b]: the chat drawer is open                            *)
  unread,   (* unread[b]: ChatManager.unreadCount                          *)
  wire,     (* wire[b]: from the page to the server                        *)
  inbox,    (* inbox[b]: from the server to the page                       *)
  clicks    (* what the users have done                                    *)

vars == <<history, open, unread, wire, inbox, clicks>>

(* Every message has the number of the click that wrote it as its id.      *)
Texts == 1 .. MaxClicks

(* "by" names the user whose click a deletion or a clear goes back to; the *)
(* code has no such field.                                                 *)
Messages ==
  [type : {"chat-message"}, text : Texts, by : Browsers]
    \union [type : {"delete"}, text : Texts, by : Browsers]
    \union [type : {"clear"}, by : Browsers]

TypeOK ==
  /\ clicks \in 0 .. MaxClicks
  /\ open \in [Browsers -> BOOLEAN] /\ unread \in [Browsers -> 0 .. MaxClicks]
  /\ \A b \in Browsers :
       /\ history[b] \in UNION {[1 .. n -> Texts] : n \in 0 .. MaxMessages}
       /\ \A i \in DOMAIN wire[b] : wire[b][i] \in Messages
       /\ \A i \in DOMAIN inbox[b] : inbox[b][i] \in Messages

Init ==
  /\ history = [b \in Browsers |-> <<>>] /\ open = [b \in Browsers |-> FALSE]
  /\ unread = [b \in Browsers |-> 0] /\ clicks = 0
  /\ wire = [b \in Browsers |-> <<>>] /\ inbox = [b \in Browsers |-> <<>>]

Click == clicks < MaxClicks /\ clicks' = clicks + 1

(* RoomManager: sendChatMessage, sendDeleteChatMessage,                    *)
(* sendClearChat.                                                          *)
Send(b, message) ==
  /\ Len(wire[b]) < MaxQueue
  /\ wire' = [wire EXCEPT ![b] = Append(@, message)]

(* The form's submit handler; the page shows its own message when it comes *)
(* back from the server.                                                   *)
WriteText(b) ==
  /\ Click
  /\ Send(b, [type |-> "chat-message", text |-> clicks + 1, by |-> b])
  /\ UNCHANGED <<history, open, unread, inbox>>

(* removeMessageLocally.                                                   *)
RemoveLocally(b, text) ==
  /\ history' = [history EXCEPT ![b] = SelectSeq(@, LAMBDA t : t # text)]
  /\ UNCHANGED unread

(* clearMessagesLocally.                                                   *)
ClearLocally(b) ==
  /\ history' = [history EXCEPT ![b] = <<>>]
  /\ unread' = [unread EXCEPT ![b] = 0]

(* deleteMessage: CHAT_MESSAGE_DELETED makes main.ts send it.              *)
DeleteText(b) ==
  /\ Click
  /\ \E i \in DOMAIN history[b] :
       /\ RemoveLocally(b, history[b][i])
       /\ Send(b, [type |-> "delete", text |-> history[b][i], by |-> b])
  /\ UNCHANGED <<open, inbox>>

(* clearMessages: CHAT_CLEARED makes main.ts send it.                      *)
ClearChat(b) ==
  /\ Click
  /\ ClearLocally(b)
  /\ Send(b, [type |-> "clear", by |-> b])
  /\ UNCHANGED <<open, inbox>>

(* setDrawerOpen.                                                          *)
ToggleDrawer(b) ==
  /\ open' = [open EXCEPT ![b] = ~@]
  /\ unread' = IF open[b] THEN unread ELSE [unread EXCEPT ![b] = 0]
  /\ UNCHANGED <<history, wire, inbox, clicks>>

(* addMessage: the oldest message goes when there are too many.            *)
AddMessage(b, m) ==
  LET all == Append(history[b], m.text)
      kept == IF Len(all) > MaxMessages THEN Tail(all) ELSE all
  IN /\ history' = [history EXCEPT ![b] = kept]
     /\ unread' = IF open[b] \/ m.by = b THEN unread
                  ELSE [unread EXCEPT ![b] = @ + 1]
     /\ UNCHANGED wire

(* What arrives is emitted on the page's event bus: ChatManager changes    *)
(* the history, and main.ts, which listens to the same CHAT_CLEARED and    *)
(* CHAT_MESSAGE_DELETED, sends the deletion or the clear once more.        *)
Receive(b) ==
  /\ inbox[b] # <<>>
  /\ LET m == Head(inbox[b]) IN
       \/ m.type = "chat-message" /\ AddMessage(b, m)
       \/ m.type = "delete" /\ RemoveLocally(b, m.text) /\ Send(b, m)
       \/ m.type = "clear" /\ ClearLocally(b) /\ Send(b, m)
  /\ inbox' = [inbox EXCEPT ![b] = Tail(@)]
  /\ UNCHANGED <<open, clicks>>

(* The chat handlers of server.js: a message goes to the whole room, a     *)
(* deletion and a clear to the others; the first two may be over the rate  *)
(* limit, whose clock is not modelled.                                     *)
Relay(b) ==
  /\ wire[b] # <<>>
  /\ LET m == Head(wire[b])
         to == IF m.type = "chat-message" THEN Browsers ELSE Browsers \ {b}
     IN \/ /\ \A c \in to : Len(inbox[c]) < MaxQueue
           /\ inbox' = [c \in Browsers |-> IF c \in to THEN Append(inbox[c], m)
                                                       ELSE inbox[c]]
        \/ m.type # "clear" /\ UNCHANGED inbox
  /\ wire' = [wire EXCEPT ![b] = Tail(@)]
  /\ UNCHANGED <<history, open, unread, clicks>>

Next == \E b \in Browsers :
  \/ WriteText(b) \/ DeleteText(b) \/ ClearChat(b) \/ ToggleDrawer(b)
  \/ Receive(b) \/ Relay(b)

Spec == Init /\ [][Next]_vars

-----------------------------------------------------------------------------
(* A deletion or a clear another user made changes only the storage and    *)
(* the page (ChatManager.ts:139 and 175, "without emitting"), so none is   *)
(* ever told to the user who made it.                                      *)
NoEcho ==
  \A b \in Browsers : \A i \in DOMAIN inbox[b] :
    inbox[b][i].type \in {"delete", "clear"} => inbox[b][i].by # b
=============================================================================
