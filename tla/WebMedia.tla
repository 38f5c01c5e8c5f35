------------------------------ MODULE WebMedia ------------------------------
(***************************************************************************)
(* What one page of the web client does with its own media: screen shares  *)
(* (App.toggleScreenShare, MediaManager, ShareQualityModal), the           *)
(* microphone and its switches (MediaManager, AudioProcessor), which of    *)
(* them every peer connection sends (PeerManager), and what the page plays *)
(* (UIRenderer: deafen, "muted for you", the preview of the own screen).   *)
(*                                                                         *)
(* Everything runs on the page's one thread; toggleScreenShare and         *)
(* switchMicrophone are cut at their awaits, where the user, the browser   *)
(* and the peers may act.  Nothing stops a second call while one waits.    *)
(***************************************************************************)
EXTENDS Naturals, FiniteSets

CONSTANTS
  Peers,       (* the other members that come and go                       *)
  MaxShares,   (* bound: calls of toggleScreenShare that start a share     *)
  MaxSwitches  (* bound: microphone switches                               *)

Own == "local-screen"

(* The ids of peers are the server's socket ids, never the card's name.    *)
ASSUME WebMediaAssumption ==
  MaxShares \in Nat \ {0} /\ MaxSwitches \in Nat /\ Own \notin Peers

Shares == 1 .. MaxShares
NoShare == 0
Epochs == 0 .. MaxSwitches
Tracks == Shares \X {"video", "audio"}

VARIABLES
  calls,        (* calls[n]: where the n-th toggleScreenShare waits        *)
  capturing,    (* the display streams whose tracks are live               *)
  loud,         (* the display streams that have an audio track            *)
  screenStream, (* MediaManager.screenStream                               *)
  modal,        (* the stream ShareQualityModal is open for                *)
  hooked,       (* streams whose end cancels the modal                     *)
  sharing,      (* App.isScreenSharing                                     *)
  sentStream,   (* PeerManager.screenStream                                *)
  screenTracks, (* PeerManager.screenTracks                                *)
  attached,     (* streams PeerManager listens to for late tracks          *)
  told,         (* the last isScreenSharing told to the room               *)
  card,         (* the stream of the "local-screen" card                   *)
  screens,      (* screens[q]: display tracks sent to q                    *)
  members,      (* the peers there is a connection to                      *)
  sends,        (* sends[q]: which processed microphone stream q is sent   *)
  epoch,        (* the processed microphone streams made, the last lives   *)
  pending,      (* microphone switches that wait for getUserMedia          *)
  muted,        (* App.isMuted                                             *)
  enabled,      (* the live microphone track is enabled                    *)
  deafened,     (* App.isDeafened and UIRenderer.deafened                  *)
  silenced,     (* peers "muted for you"                                   *)
  quiet,        (* cards whose video element is muted                      *)
  playing       (* peers whose card has a stream                           *)

VARIABLES (* history *)
  overlapped,   (* a share was started while another was under way         *)
  lateEnd       (* a capture ended while its constraints were applied      *)

share == <<calls, capturing, loud, screenStream, modal, hooked, sharing,
           sentStream, screenTracks, attached, told, card, overlapped, lateEnd>>
voice == <<epoch, pending, muted, enabled>>
play == <<deafened, silenced, quiet, playing>>
links == <<screens, members, sends>>
vars == <<share, voice, play, links>>

TypeOK ==
  /\ calls \in [Shares -> {"idle", "picking", "choosing", "capping", "done"}]
  /\ capturing \subseteq Shares /\ loud \subseteq Shares
  /\ hooked \subseteq Shares /\ attached \subseteq Shares
  /\ {screenStream, modal, sentStream, card} \subseteq Shares \union {NoShare}
  /\ screenTracks \subseteq Tracks /\ screens \in [Peers -> SUBSET Tracks]
  /\ {sharing, told, muted, enabled, deafened, overlapped, lateEnd} \subseteq BOOLEAN
  /\ members \subseteq Peers /\ silenced \subseteq members
  /\ playing \subseteq members /\ quiet \subseteq members \union {Own}
  /\ sends \in [Peers -> Epochs]
  /\ epoch \in Epochs /\ pending \in Nat /\ pending + epoch \in Epochs
  /\ screenStream # NoShare => screenStream \in capturing
  /\ modal # NoShare => calls[modal] = "choosing"

Init ==
  /\ calls = [n \in Shares |-> "idle"]
  /\ capturing = {} /\ loud = {} /\ hooked = {} /\ attached = {}
  /\ screenStream = NoShare /\ modal = NoShare /\ sentStream = NoShare
  /\ card = NoShare /\ screenTracks = {} /\ sharing = FALSE /\ told = FALSE
  /\ overlapped = FALSE /\ lateEnd = FALSE
  /\ screens = [q \in Peers |-> {}] /\ members = {}
  /\ sends = [q \in Peers |-> 0]
  /\ epoch = 0 /\ pending = 0 /\ muted = FALSE /\ enabled = TRUE
  /\ deafened = FALSE /\ silenced = {} /\ quiet = {} /\ playing = {}

TracksOf(n) ==
  {t \in Tracks : t[1] = n /\ (t[2] = "audio" => n \in loud)}

-----------------------------------------------------------------------------
(* Screen sharing.                                                         *)

(* removeScreenTrack; nothing to do when no stream is sent.                *)
RemoveScreenTrack ==
  IF sentStream = NoShare THEN UNCHANGED <<screens, screenTracks, sentStream>>
  ELSE /\ screens' = [q \in Peers |-> screens[q] \ screenTracks]
       /\ screenTracks' = {} /\ sentStream' = NoShare

(* The handler of SCREEN_SHARE_STOPPED.                                    *)
ShareStopped ==
  /\ card' = NoShare /\ quiet' = quiet \ {Own}
  /\ RemoveScreenTrack
  /\ sharing' = FALSE /\ told' = FALSE

ShareUntouched ==
  UNCHANGED <<screens, screenTracks, sentStream, card, quiet, sharing, told>>

(* stopScreenShare, given the streams that still capture: it stops the     *)
(* stream of the LAST share and announces that.                            *)
StopScreenShare(live) ==
  /\ capturing' = live \ {screenStream}
  /\ screenStream' = NoShare
  /\ IF screenStream # NoShare THEN ShareStopped ELSE ShareUntouched

(* toggleScreenShare while sharing: the end is announced twice.            *)
ToggleStop ==
  /\ sharing
  /\ capturing' = capturing \ {screenStream} /\ screenStream' = NoShare
  /\ ShareStopped
  /\ UNCHANGED <<calls, loud, modal, hooked, attached, overlapped, lateEnd,
                 voice, deafened, silenced, playing, members, sends>>

(* toggleScreenShare otherwise, up to getDisplayMedia.                     *)
Underway(n) == calls[n] \in {"picking", "choosing", "capping"}

ToggleStart(n) ==
  /\ ~sharing /\ calls[n] = "idle" /\ \A k \in 1 .. n - 1 : calls[k] # "idle"
  /\ calls' = [calls EXCEPT ![n] = "picking"]
  /\ overlapped' = (overlapped \/ \E k \in Shares : Underway(k))
  /\ UNCHANGED <<capturing, loud, screenStream, modal, hooked, sharing,
                 sentStream, screenTracks, attached, told, card, lateEnd,
                 voice, play, links>>

(* ShareQualityModal.open: a modal that was open forgets its caller, but   *)
(* not the end of its stream.                                              *)
Opened(n) == modal' = n /\ hooked' = hooked \union {n}

(* The picker closed: refused, or a stream, for which the modal opens.     *)
Picked(n) ==
  /\ calls[n] = "picking"
  /\ \/ /\ calls' = [calls EXCEPT ![n] = "done"]
        /\ UNCHANGED <<capturing, loud, screenStream, modal, hooked>>
     \/ /\ calls' = [calls EXCEPT ![n] = "choosing"]
        /\ capturing' = capturing \union {n} /\ screenStream' = n
        /\ loud' \in {loud, loud \union {n}}
        /\ Opened(n)
  /\ UNCHANGED <<sharing, sentStream, screenTracks, attached, told, card,
                 overlapped, lateEnd, voice, play, links>>

(* ShareQualityModal.close and what its caller does with the answer.       *)
Confirm ==
  /\ modal # NoShare
  /\ calls' = [calls EXCEPT ![modal] = "capping"]
  /\ hooked' = hooked \ {modal} /\ modal' = NoShare
  /\ UNCHANGED <<capturing, loud, screenStream, sharing, sentStream,
                 screenTracks, attached, told, card, overlapped, lateEnd,
                 voice, play, links>>

(* Mutant: the caller does not tear the capture down.                      *)
MutCancel ==
  /\ modal # NoShare
  /\ calls' = [calls EXCEPT ![modal] = "done"]
  /\ hooked' = hooked \ {modal} /\ modal' = NoShare
  /\ UNCHANGED <<capturing, screenStream, loud, attached, overlapped, lateEnd,
                 sharing, sentStream, screenTracks, told, card, voice, play, links>>

Cancel ==
  /\ modal # NoShare
  /\ calls' = [calls EXCEPT ![modal] = "done"]
  /\ hooked' = hooked \ {modal} /\ modal' = NoShare
  /\ StopScreenShare(capturing)
  /\ UNCHANGED <<loud, attached, overlapped, lateEnd, voice, deafened, silenced,
                 playing, members, sends>>

(* The user ends the capture of n in the browser: MediaManager stops the   *)
(* share, and the modal is cancelled if n's end is still hooked to it.     *)
Ended(n) ==
  /\ n \in capturing
  /\ StopScreenShare(capturing \ {n})
  /\ lateEnd' = (lateEnd \/ calls[n] = "capping")
  /\ IF n \in hooked /\ modal # NoShare
     THEN /\ calls' = [calls EXCEPT ![modal] = "done"]
          /\ hooked' = hooked \ {modal} /\ modal' = NoShare
     ELSE UNCHANGED <<calls, hooked, modal>>
  /\ UNCHANGED <<loud, attached, overlapped, voice, deafened, silenced, playing,
                 members, sends>>

(* The constraints are applied (or refused): the share goes out.           *)
AddScreenTrack(n) ==
  /\ sentStream' = n /\ screenTracks' = TracksOf(n)
  /\ attached' = attached \union {n}
  /\ screens' = [q \in Peers |-> IF q \in members THEN screens[q] \union TracksOf(n)
                                 ELSE screens[q]]

Capped(n) ==
  /\ calls[n] = "capping"
  /\ calls' = [calls EXCEPT ![n] = "done"]
  /\ card' = n /\ quiet' = quiet \union {Own}
  /\ AddScreenTrack(n)
  /\ sharing' = TRUE /\ told' = TRUE
  /\ UNCHANGED <<capturing, loud, screenStream, modal, hooked, overlapped,
                 lateEnd, voice, deafened, silenced, playing, members, sends>>

(* The audio of a display may come after the picker closed.                *)
LateTrack(n) ==
  /\ n \in capturing \ loud
  /\ loud' = loud \union {n}
  /\ IF n \in attached
     THEN /\ screenTracks' = screenTracks \union {<<n, "audio">>}
          /\ screens' = [q \in Peers |-> IF q \in members
                                         THEN screens[q] \union {<<n, "audio">>}
                                         ELSE screens[q]]
     ELSE UNCHANGED <<screenTracks, screens>>
  /\ UNCHANGED <<calls, capturing, screenStream, modal, hooked, sharing,
                 sentStream, attached, told, card, overlapped, lateEnd,
                 voice, play, members, sends>>

-----------------------------------------------------------------------------
(* The microphone.                                                         *)

ToggleMic ==
  /\ muted' = ~muted /\ enabled' = muted
  /\ UNCHANGED <<share, play, links, epoch, pending>>

(* switchMicrophone up to getUserMedia.                                    *)
SwitchMicrophone ==
  /\ epoch + pending < MaxSwitches
  /\ pending' = pending + 1
  /\ UNCHANGED <<share, play, links, epoch, muted, enabled>>

(* Every connection's first audio sender gets the new track.               *)
ReplaceTrack(e) ==
  sends' = [q \in Peers |-> IF q \in members THEN e ELSE sends[q]]

(* getUserMedia answered, or failed; either way the raw stream is          *)
(* processed anew, which closes the context of the stream before.          *)
MicrophoneSwitched ==
  /\ pending > 0
  /\ pending' = pending - 1
  /\ enabled' \in {TRUE, enabled}
  /\ epoch' = epoch + 1
  /\ ReplaceTrack(epoch + 1)
  /\ UNCHANGED <<share, play, muted, screens, members>>

-----------------------------------------------------------------------------
(* The other members, and what is played of them.                          *)

(* createPeerConnection adds the local stream it was given at start, which *)
(* is the first processed one, and the screen that is being sent.          *)
PeerJoins(q) ==
  /\ q \notin members
  /\ members' = members \union {q}
  /\ sends' = [sends EXCEPT ![q] = 0]
  /\ screens' = [screens EXCEPT ![q] = IF sentStream # NoShare THEN screenTracks
                                       ELSE {}]
  /\ UNCHANGED <<share, voice, play>>

(* Mutant: the preferences of a card that is gone are kept.                *)
MutPeerLeaves(q) ==
  /\ q \in members
  /\ members' = members \ {q} /\ screens' = [screens EXCEPT ![q] = {}]
  /\ sends' = [sends EXCEPT ![q] = 0]
  /\ quiet' = quiet \ {q} /\ playing' = playing \ {q}
  /\ UNCHANGED <<share, voice, deafened, silenced>>

(* closePeerConnection and removePeerCard, which forgets the preferences.  *)
PeerLeaves(q) ==
  /\ q \in members
  /\ members' = members \ {q} /\ screens' = [screens EXCEPT ![q] = {}]
  /\ sends' = [sends EXCEPT ![q] = 0]
  /\ silenced' = silenced \ {q} /\ quiet' = quiet \ {q} /\ playing' = playing \ {q}
  /\ UNCHANGED <<share, voice, deafened>>

Quieten(q, on) == IF on THEN quiet \union {q} ELSE quiet \ {q}

(* setPeerStream, when the stream is a new one to the card.                *)
SetPeerStream(q) ==
  /\ q \in members \ playing
  /\ playing' = playing \union {q}
  /\ quiet' = Quieten(q, deafened \/ q \in silenced)
  /\ UNCHANGED <<share, voice, links, deafened, silenced>>

(* Mutant: "unmute for me" does not look at deafen.                        *)
MutSetPeerMuted(q, on) ==
  /\ q \in members
  /\ silenced' = IF on THEN silenced \union {q} ELSE silenced \ {q}
  /\ quiet' = Quieten(q, on)
  /\ UNCHANGED <<share, voice, links, deafened, playing>>

SetPeerMuted(q, on) ==
  /\ q \in members
  /\ silenced' = IF on THEN silenced \union {q} ELSE silenced \ {q}
  /\ quiet' = Quieten(q, deafened \/ on)
  /\ UNCHANGED <<share, voice, links, deafened, playing>>

(* toggleDeafen and setDeafened, which goes through every card but "local" *)
(* and so through the preview of the own screen too.                       *)
ToggleDeafen ==
  /\ deafened' = ~deafened
  /\ quiet' = {c \in members \union {Own} :
                 /\ ~deafened \/ c \in silenced
                 /\ c = Own => card # NoShare}
  /\ UNCHANGED <<share, voice, links, silenced, playing>>

Next ==
  \/ ToggleStop \/ Confirm \/ Cancel
  \/ \E n \in Shares :
       ToggleStart(n) \/ Picked(n) \/ Ended(n) \/ Capped(n) \/ LateTrack(n)
  \/ ToggleMic \/ SwitchMicrophone \/ MicrophoneSwitched \/ ToggleDeafen
  \/ \E q \in Peers :
       \/ PeerJoins(q) \/ PeerLeaves(q) \/ SetPeerStream(q)
       \/ \E on \in BOOLEAN : SetPeerMuted(q, on)

Spec == Init /\ [][Next]_vars

-----------------------------------------------------------------------------
(* Properties.                                                             *)

(* As long as shares do not overlap: a page that says it shares sends      *)
(* every member the tracks of one live capture, one that says it does not  *)
(* sends none and captures only for the share being set up, and the room   *)
(* was told which.  A capture that ends while its constraints are being    *)
(* applied is shared dead (main.ts:426).                                   *)
SharesOnlyWhatItSays ==
  ~overlapped =>
    /\ told = sharing /\ card = sentStream
    /\ sharing => /\ sentStream \in capturing \/ lateEnd
                  /\ \A q \in members : screens[q] = TracksOf(sentStream)
    /\ ~sharing => /\ \A q \in Peers : screens[q] = {}
                   /\ capturing \subseteq {n \in Shares : Underway(n)}

(* "Deafen state is enforced by the renderer for current AND future cards" *)
(* (main.ts:445), and undeafening restores who was muted for the user,     *)
(* whatever joined, left, got its stream late or was muted in between.  It *)
(* is about the members; of the own preview see PreviewsAreSilent.         *)
HearsWhoItWants ==
  \A q \in playing : q \in quiet <=> deafened \/ q \in silenced

(* Three statements that do not hold.  A microphone that is muted sends    *)
(* nothing: the track of a device chosen meanwhile is enabled              *)
(* (MediaManager.ts:220).                                                  *)
MutedIsSilent == muted => ~enabled

(* Every member is sent the microphone in use: who joins after a switch is *)
(* sent the first stream, whose audio context is closed (PeerManager.ts:82)*)
SwitchReachesMembers == \A q \in members : sends[q] = epoch

(* The preview of the own screen plays no sound (UIRenderer.ts:613-614):   *)
(* undeafening turns on every card but "local" (UIRenderer.ts:667-675).    *)
PreviewsAreSilent == card # NoShare => Own \in quiet
=============================================================================
