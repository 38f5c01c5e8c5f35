---------------------------- MODULE WebPageProofs ----------------------------
(***************************************************************************)
(* What a page of the web client does for its peers: what it shares, sends *)
(* and plays, for any number of peers, shares and microphone switches; and *)
(* how it and another page agree on that, for any number of offers, tracks *)
(* and candidates.                                                         *)
(*                                                                         *)
(* WebMedia: sharing and the playing of others hardly touch each other's   *)
(* state, so each has an inductive invariant of its own, on top of the     *)
(* type invariant.                                                         *)
(*                                                                         *)
(* WebNegotiation: the invariant follows each page's offer through the     *)
(* places it can be in, and says what the pages know of it meanwhile.      *)
(***************************************************************************)
EXTENDS WebMedia, WebNegotiation, SequenceTheorems, TLAPS

(* Until a share overlaps another there is at most one call under way, and *)
(* the one live capture is its own or the one that is sent; a dialog stays *)
(* hooked to the stream it is open for, so it cannot outlive it.           *)
OneCall ==
  \A m, n \in Shares : Underway(m) /\ Underway(n) => m = n
SentIsSaid ==
  /\ told = sharing /\ card = sentStream
  /\ IF sharing THEN sentStream \in Shares ELSE sentStream = NoShare
SharingIsAlone ==
  sharing => /\ \A n \in Shares : ~Underway(n)
             /\ capturing \subseteq {sentStream}
             /\ sentStream \in attached
             /\ sentStream \in capturing \/ lateEnd
             /\ screenTracks = TracksOf(sentStream)
OthersGet ==
  \A q \in Peers : screens[q] = IF q \in members /\ sharing THEN screenTracks ELSE {}
CapturesAreUnderway ==
  /\ ~sharing => \A n \in capturing : calls[n] \in {"choosing", "capping"}
  /\ capturing \subseteq {screenStream}
  /\ \A n \in Shares : calls[n] = "choosing" => n \in capturing /\ n \in hooked /\ modal = n
  /\ \A n \in Shares : calls[n] = "capping" => n \in capturing \/ lateEnd
  /\ \A n \in attached : calls[n] = "done"
ShareInv ==
  ~overlapped => /\ OneCall /\ SentIsSaid /\ SharingIsAlone /\ OthersGet
                 /\ CapturesAreUnderway

-----------------------------------------------------------------------------
(* The state of a share and of what is sent of it is of the types TypeOK   *)
(* names; split off to keep the leaves small.                              *)
ShareTyped ==
  /\ calls \in [Shares -> {"idle", "picking", "choosing", "capping", "done"}]
  /\ capturing \subseteq Shares /\ loud \subseteq Shares
  /\ hooked \subseteq Shares /\ attached \subseteq Shares
  /\ {screenStream, modal, sentStream, card} \subseteq Shares \union {NoShare}
  /\ {sharing, told, overlapped, lateEnd} \subseteq BOOLEAN
  /\ screenStream # NoShare => screenStream \in capturing
  /\ modal # NoShare => calls[modal] = "choosing"
ScreensTyped ==
  screenTracks \subseteq Tracks /\ screens \in [Peers -> SUBSET Tracks]
LinksTyped ==
  /\ members \subseteq Peers
  /\ sends \in [Peers -> Epochs]
VoiceTyped ==
  /\ {muted, enabled} \subseteq BOOLEAN
  /\ epoch \in Epochs /\ pending \in Nat /\ pending + epoch \in Epochs
PlayTyped ==
  /\ deafened \in BOOLEAN /\ silenced \subseteq members
  /\ playing \subseteq members /\ quiet \subseteq members \union {Own}

LEMMA TypeParts ==
  TypeOK <=> ShareTyped /\ ScreensTyped /\ LinksTyped /\ VoiceTyped /\ PlayTyped
BY DEF TypeOK, ShareTyped, ScreensTyped, LinksTyped, VoiceTyped, PlayTyped

LEMMA TracksTypes == \A n \in Shares : TracksOf(n) \subseteq Tracks
BY DEF TracksOf

LEMMA TypeInit == Init => TypeOK
<1> SUFFICES ASSUME Init PROVE TypeOK
  OBVIOUS
<1> USE WebMediaAssumption DEF Init, Shares, Epochs, NoShare
<1>1. ShareTyped BY DEF ShareTyped
<1>2. ScreensTyped BY DEF ScreensTyped
<1>3. LinksTyped BY DEF LinksTyped
<1>4. VoiceTyped
  <2>1. {muted, enabled} \subseteq BOOLEAN BY Zenon
  <2>2. epoch = 0 /\ pending = 0 BY Zenon
  <2> QED BY ONLY <2>1, <2>2, WebMediaAssumption DEF VoiceTyped, Epochs
<1>5. PlayTyped BY DEF PlayTyped
<1> QED BY <1>1, <1>2, <1>3, <1>4, <1>5, TypeParts

LEMMA ShareTypeStep == TypeOK /\ [Next]_vars => ShareTyped'
<1> SUFFICES ASSUME ShareTyped, [Next]_vars PROVE ShareTyped'
  BY TypeParts
<1> USE DEF ShareTyped, Shares, NoShare
<1>1. CASE ToggleStop BY <1>1 DEF ToggleStop, ShareStopped, RemoveScreenTrack
<1>2. CASE Confirm BY <1>2 DEF Confirm
<1>3. CASE Cancel BY <1>3 DEF Cancel, StopScreenShare, ShareStopped, ShareUntouched, RemoveScreenTrack
<1>4. ASSUME NEW n \in Shares, ToggleStart(n) PROVE ShareTyped'
  BY <1>4 DEF ToggleStart
<1>5. ASSUME NEW n \in Shares, Picked(n) PROVE ShareTyped'
  BY <1>5 DEF Picked, Opened
<1>6. ASSUME NEW n \in Shares, Ended(n) PROVE ShareTyped'
  BY <1>6 DEF Ended, StopScreenShare, ShareStopped, ShareUntouched, RemoveScreenTrack
<1>7. ASSUME NEW n \in Shares, Capped(n) PROVE ShareTyped'
  BY <1>7 DEF Capped, AddScreenTrack
<1>8. ASSUME NEW n \in Shares, LateTrack(n) PROVE ShareTyped'
  BY <1>8 DEF LateTrack
<1>9. CASE ToggleMic BY <1>9 DEF ToggleMic, share
<1>10. CASE SwitchMicrophone BY <1>10 DEF SwitchMicrophone, share
<1>11. CASE MicrophoneSwitched BY <1>11 DEF MicrophoneSwitched, share
<1>12. CASE ToggleDeafen BY <1>12 DEF ToggleDeafen, share
<1>13. ASSUME NEW q \in Peers, PeerJoins(q) PROVE ShareTyped'
  BY <1>13 DEF PeerJoins, share
<1>14. ASSUME NEW q \in Peers, PeerLeaves(q) PROVE ShareTyped'
  BY <1>14 DEF PeerLeaves, share
<1>15. ASSUME NEW q \in Peers, SetPeerStream(q) PROVE ShareTyped'
  BY <1>15 DEF SetPeerStream, share
<1>16. ASSUME NEW q \in Peers, NEW on \in BOOLEAN, SetPeerMuted(q, on) PROVE ShareTyped'
  BY <1>16 DEF SetPeerMuted, share
<1>17. CASE UNCHANGED vars BY <1>17 DEF vars, share
<1> QED BY <1>1, <1>2, <1>3, <1>4, <1>5, <1>6, <1>7, <1>8, <1>9, <1>10, <1>11,
  <1>12, <1>13, <1>14, <1>15, <1>16, <1>17 DEF Next

LEMMA ScreensTypeStep == TypeOK /\ [Next]_vars => ScreensTyped'
<1> SUFFICES ASSUME ShareTyped, ScreensTyped, [Next]_vars PROVE ScreensTyped'
  BY TypeParts
<1> USE TracksTypes DEF ScreensTyped
<1>1. CASE ToggleStop BY <1>1 DEF ToggleStop, ShareStopped, RemoveScreenTrack
<1>2. CASE Confirm BY <1>2 DEF Confirm, share, links
<1>3. CASE Cancel BY <1>3 DEF Cancel, StopScreenShare, ShareStopped, ShareUntouched, RemoveScreenTrack
<1>4. ASSUME NEW n \in Shares, ToggleStart(n) PROVE ScreensTyped'
  BY <1>4 DEF ToggleStart, share, links
<1>5. ASSUME NEW n \in Shares, Picked(n) PROVE ScreensTyped'
  BY <1>5 DEF Picked, share, links
<1>6. ASSUME NEW n \in Shares, Ended(n) PROVE ScreensTyped'
  BY <1>6 DEF Ended, StopScreenShare, ShareStopped, ShareUntouched, RemoveScreenTrack
<1>7. ASSUME NEW n \in Shares, Capped(n) PROVE ScreensTyped'
  BY <1>7 DEF Capped, AddScreenTrack
<1>8. ASSUME NEW n \in Shares, LateTrack(n) PROVE ScreensTyped'
  BY <1>8 DEF LateTrack, Tracks
<1>9. CASE ToggleMic BY <1>9 DEF ToggleMic, share, links
<1>10. CASE SwitchMicrophone BY <1>10 DEF SwitchMicrophone, share, links
<1>11. CASE MicrophoneSwitched BY <1>11 DEF MicrophoneSwitched, share
<1>12. CASE ToggleDeafen BY <1>12 DEF ToggleDeafen, share, links
<1>13. ASSUME NEW q \in Peers, PeerJoins(q) PROVE ScreensTyped'
  BY <1>13 DEF PeerJoins, share
<1>14. ASSUME NEW q \in Peers, PeerLeaves(q) PROVE ScreensTyped'
  BY <1>14 DEF PeerLeaves, share
<1>15. ASSUME NEW q \in Peers, SetPeerStream(q) PROVE ScreensTyped'
  BY <1>15 DEF SetPeerStream, share, links
<1>16. ASSUME NEW q \in Peers, NEW on \in BOOLEAN, SetPeerMuted(q, on) PROVE ScreensTyped'
  BY <1>16 DEF SetPeerMuted, share, links
<1>17. CASE UNCHANGED vars BY <1>17 DEF vars, share, links
<1> QED BY <1>1, <1>2, <1>3, <1>4, <1>5, <1>6, <1>7, <1>8, <1>9, <1>10, <1>11,
  <1>12, <1>13, <1>14, <1>15, <1>16, <1>17 DEF Next

LEMMA LinksTypeStep == TypeOK /\ [Next]_vars => LinksTyped'
<1> SUFFICES ASSUME VoiceTyped, LinksTyped, [Next]_vars PROVE LinksTyped'
  BY TypeParts
<1> USE WebMediaAssumption DEF LinksTyped, VoiceTyped, Epochs
<1>1. CASE ToggleStop BY <1>1 DEF ToggleStop, links
<1>2. CASE Confirm BY <1>2 DEF Confirm, links
<1>3. CASE Cancel BY <1>3 DEF Cancel, links
<1>4. ASSUME NEW n \in Shares, ToggleStart(n) PROVE LinksTyped'
  BY <1>4 DEF ToggleStart, links
<1>5. ASSUME NEW n \in Shares, Picked(n) PROVE LinksTyped'
  BY <1>5 DEF Picked, links
<1>6. ASSUME NEW n \in Shares, Ended(n) PROVE LinksTyped'
  BY <1>6 DEF Ended, links
<1>7. ASSUME NEW n \in Shares, Capped(n) PROVE LinksTyped'
  BY <1>7 DEF Capped, links
<1>8. ASSUME NEW n \in Shares, LateTrack(n) PROVE LinksTyped'
  BY <1>8 DEF LateTrack, links
<1>9. CASE ToggleMic BY <1>9 DEF ToggleMic, links
<1>10. CASE SwitchMicrophone BY <1>10 DEF SwitchMicrophone, links
<1>11. CASE MicrophoneSwitched BY <1>11 DEF MicrophoneSwitched, ReplaceTrack
<1>12. CASE ToggleDeafen BY <1>12 DEF ToggleDeafen, links
<1>13. ASSUME NEW q \in Peers, PeerJoins(q) PROVE LinksTyped'
  BY <1>13 DEF PeerJoins
<1>14. ASSUME NEW q \in Peers, PeerLeaves(q) PROVE LinksTyped'
  BY <1>14 DEF PeerLeaves
<1>15. ASSUME NEW q \in Peers, SetPeerStream(q) PROVE LinksTyped'
  BY <1>15 DEF SetPeerStream, links
<1>16. ASSUME NEW q \in Peers, NEW on \in BOOLEAN, SetPeerMuted(q, on) PROVE LinksTyped'
  BY <1>16 DEF SetPeerMuted, links
<1>17. CASE UNCHANGED vars BY <1>17 DEF vars, links
<1> QED BY <1>1, <1>2, <1>3, <1>4, <1>5, <1>6, <1>7, <1>8, <1>9, <1>10, <1>11,
  <1>12, <1>13, <1>14, <1>15, <1>16, <1>17 DEF Next

LEMMA VoiceTypeStep == TypeOK /\ [Next]_vars => VoiceTyped'
<1> SUFFICES ASSUME VoiceTyped, [Next]_vars PROVE VoiceTyped'
  BY TypeParts
<1> USE WebMediaAssumption DEF VoiceTyped, Epochs
<1>1. CASE ToggleStop BY <1>1 DEF ToggleStop, voice
<1>2. CASE Confirm BY <1>2 DEF Confirm, voice
<1>3. CASE Cancel BY <1>3 DEF Cancel, voice
<1>4. ASSUME NEW n \in Shares, ToggleStart(n) PROVE VoiceTyped'
  BY <1>4 DEF ToggleStart, voice
<1>5. ASSUME NEW n \in Shares, Picked(n) PROVE VoiceTyped'
  BY <1>5 DEF Picked, voice
<1>6. ASSUME NEW n \in Shares, Ended(n) PROVE VoiceTyped'
  BY <1>6 DEF Ended, voice
<1>7. ASSUME NEW n \in Shares, Capped(n) PROVE VoiceTyped'
  BY <1>7 DEF Capped, voice
<1>8. ASSUME NEW n \in Shares, LateTrack(n) PROVE VoiceTyped'
  BY <1>8 DEF LateTrack, voice
<1>9. CASE ToggleMic BY <1>9 DEF ToggleMic
<1>10. CASE SwitchMicrophone BY <1>10 DEF SwitchMicrophone
<1>11. CASE MicrophoneSwitched
  <2>1. {muted, enabled}' \subseteq BOOLEAN BY <1>11, Zenon DEF MicrophoneSwitched
  <2>2. pending > 0 /\ pending' = pending - 1 /\ epoch' = epoch + 1
    BY <1>11 DEF MicrophoneSwitched
  <2>3. epoch' \in Epochs /\ pending' \in Nat
        /\ pending' + epoch' \in Epochs
    BY <2>2
  <2> QED BY <2>1, <2>3
<1>12. CASE ToggleDeafen BY <1>12 DEF ToggleDeafen, voice
<1>13. ASSUME NEW q \in Peers, PeerJoins(q) PROVE VoiceTyped'
  BY <1>13 DEF PeerJoins, voice
<1>14. ASSUME NEW q \in Peers, PeerLeaves(q) PROVE VoiceTyped'
  BY <1>14 DEF PeerLeaves, voice
<1>15. ASSUME NEW q \in Peers, SetPeerStream(q) PROVE VoiceTyped'
  BY <1>15 DEF SetPeerStream, voice
<1>16. ASSUME NEW q \in Peers, NEW on \in BOOLEAN, SetPeerMuted(q, on) PROVE VoiceTyped'
  BY <1>16 DEF SetPeerMuted, voice
<1>17. CASE UNCHANGED vars BY <1>17 DEF vars, voice
<1> QED BY <1>1, <1>2, <1>3, <1>4, <1>5, <1>6, <1>7, <1>8, <1>9, <1>10, <1>11,
  <1>12, <1>13, <1>14, <1>15, <1>16, <1>17 DEF Next

LEMMA PlayTypeStep == TypeOK /\ [Next]_vars => PlayTyped'
<1> SUFFICES ASSUME LinksTyped, PlayTyped, [Next]_vars PROVE PlayTyped'
  BY TypeParts
<1> USE DEF LinksTyped, PlayTyped
<1>1. CASE ToggleStop BY <1>1 DEF ToggleStop, ShareStopped
<1>2. CASE Confirm BY <1>2 DEF Confirm, play, links
<1>3. CASE Cancel BY <1>3 DEF Cancel, StopScreenShare, ShareStopped, ShareUntouched
<1>4. ASSUME NEW n \in Shares, ToggleStart(n) PROVE PlayTyped'
  BY <1>4 DEF ToggleStart, play, links
<1>5. ASSUME NEW n \in Shares, Picked(n) PROVE PlayTyped'
  BY <1>5 DEF Picked, play, links
<1>6. ASSUME NEW n \in Shares, Ended(n) PROVE PlayTyped'
  BY <1>6 DEF Ended, StopScreenShare, ShareStopped, ShareUntouched
<1>7. ASSUME NEW n \in Shares, Capped(n) PROVE PlayTyped'
  BY <1>7 DEF Capped
<1>8. ASSUME NEW n \in Shares, LateTrack(n) PROVE PlayTyped'
  BY <1>8 DEF LateTrack, play
<1>9. CASE ToggleMic BY <1>9 DEF ToggleMic, play, links
<1>10. CASE SwitchMicrophone BY <1>10 DEF SwitchMicrophone, play, links
<1>11. CASE MicrophoneSwitched BY <1>11 DEF MicrophoneSwitched, play
<1>12. CASE ToggleDeafen BY <1>12 DEF ToggleDeafen, links
<1>13. ASSUME NEW q \in Peers, PeerJoins(q) PROVE PlayTyped'
  BY <1>13 DEF PeerJoins, play
<1>14. ASSUME NEW q \in Peers, PeerLeaves(q) PROVE PlayTyped'
  BY <1>14 DEF PeerLeaves
<1>15. ASSUME NEW q \in Peers, SetPeerStream(q) PROVE PlayTyped'
  BY <1>15 DEF SetPeerStream, Quieten, links
<1>16. ASSUME NEW q \in Peers, NEW on \in BOOLEAN, SetPeerMuted(q, on) PROVE PlayTyped'
  BY <1>16 DEF SetPeerMuted, Quieten, links
<1>17. CASE UNCHANGED vars BY <1>17 DEF vars, play, links
<1> QED BY <1>1, <1>2, <1>3, <1>4, <1>5, <1>6, <1>7, <1>8, <1>9, <1>10, <1>11,
  <1>12, <1>13, <1>14, <1>15, <1>16, <1>17 DEF Next

(* The page's state is always well typed: no dialog without a call that    *)
(* waits for it, no screen stream without a live capture, no preference of *)
(* a member that is gone (TypeOK).                                         *)
THEOREM WebMediaTypeCorrect == Spec => []TypeOK
<1>1. Init => TypeOK
  BY TypeInit
<1>2. TypeOK /\ [Next]_vars => TypeOK'
  <2> SUFFICES ASSUME TypeOK, [Next]_vars PROVE TypeOK'
    OBVIOUS
  <2>1. ShareTyped' /\ ScreensTyped' /\ LinksTyped' /\ VoiceTyped' /\ PlayTyped'
    BY ShareTypeStep, ScreensTypeStep, LinksTypeStep, VoiceTypeStep, PlayTypeStep
  <2>2. (TypeOK <=> ShareTyped /\ ScreensTyped /\ LinksTyped /\ VoiceTyped /\ PlayTyped)'
    BY TypeParts, PTL
  <2> QED BY <2>1, <2>2
<1> QED BY <1>1, <1>2, PTL DEF Spec

-----------------------------------------------------------------------------
(* What is played.                                                         *)
LEMMA PlayStep == TypeOK /\ HearsWhoItWants /\ [Next]_vars => HearsWhoItWants'
<1> SUFFICES ASSUME LinksTyped, PlayTyped, HearsWhoItWants, [Next]_vars
             PROVE HearsWhoItWants'
  BY TypeParts
<1> USE WebMediaAssumption DEF LinksTyped, PlayTyped, HearsWhoItWants
<1>1. CASE ToggleStop BY <1>1 DEF ToggleStop, ShareStopped
<1>2. CASE Confirm BY <1>2 DEF Confirm, play
<1>3. CASE Cancel BY <1>3 DEF Cancel, StopScreenShare, ShareStopped, ShareUntouched
<1>4. ASSUME NEW n \in Shares, ToggleStart(n) PROVE HearsWhoItWants'
  BY <1>4 DEF ToggleStart, play
<1>5. ASSUME NEW n \in Shares, Picked(n) PROVE HearsWhoItWants'
  BY <1>5 DEF Picked, play
<1>6. ASSUME NEW n \in Shares, Ended(n) PROVE HearsWhoItWants'
  BY <1>6 DEF Ended, StopScreenShare, ShareStopped, ShareUntouched
<1>7. ASSUME NEW n \in Shares, Capped(n) PROVE HearsWhoItWants'
  BY <1>7 DEF Capped
<1>8. ASSUME NEW n \in Shares, LateTrack(n) PROVE HearsWhoItWants'
  BY <1>8 DEF LateTrack, play
<1>9. CASE ToggleMic BY <1>9 DEF ToggleMic, play
<1>10. CASE SwitchMicrophone BY <1>10 DEF SwitchMicrophone, play
<1>11. CASE MicrophoneSwitched BY <1>11 DEF MicrophoneSwitched, play
<1>12. CASE ToggleDeafen BY <1>12 DEF ToggleDeafen
<1>13. ASSUME NEW q \in Peers, PeerJoins(q) PROVE HearsWhoItWants'
  BY <1>13 DEF PeerJoins, play
<1>14. ASSUME NEW q \in Peers, PeerLeaves(q) PROVE HearsWhoItWants'
  BY <1>14 DEF PeerLeaves
<1>15. ASSUME NEW q \in Peers, SetPeerStream(q) PROVE HearsWhoItWants'
  BY <1>15 DEF SetPeerStream, Quieten
<1>16. ASSUME NEW q \in Peers, NEW on \in BOOLEAN, SetPeerMuted(q, on) PROVE HearsWhoItWants'
  BY <1>16 DEF SetPeerMuted, Quieten
<1>17. CASE UNCHANGED vars BY <1>17 DEF vars, play
<1> QED BY <1>1, <1>2, <1>3, <1>4, <1>5, <1>6, <1>7, <1>8, <1>9, <1>10, <1>11,
  <1>12, <1>13, <1>14, <1>15, <1>16, <1>17 DEF Next

(* A member is heard exactly when neither deafening nor the user's own     *)
(* choice forbids it, whenever its stream came (setDeafened, setPeerMuted, *)
(* setPeerStream).                                                         *)
THEOREM HearsOnlyTheWanted == Spec => []HearsWhoItWants
<1>1. Init => HearsWhoItWants
  BY DEF Init, HearsWhoItWants
<1> QED BY <1>1, PlayStep, WebMediaTypeCorrect, PTL DEF Spec

-----------------------------------------------------------------------------
(* What is shared.                                                         *)
Alone == OneCall /\ SentIsSaid /\ SharingIsAlone /\ OthersGet /\ CapturesAreUnderway

LEMMA ShareStep == TypeOK /\ ShareInv /\ [Next]_vars => ShareInv'
<1> SUFFICES ASSUME ShareTyped, ScreensTyped, LinksTyped, ShareInv, [Next]_vars, ~overlapped'
             PROVE Alone'
  BY TypeParts DEF ShareInv, Alone
<1>0. ~overlapped /\ Alone
  <2>1. CASE \E n \in Shares : ToggleStart(n)
    BY <2>1 DEF ToggleStart, ShareInv, Alone
  <2>2. CASE overlapped' = overlapped
    BY <2>2 DEF ShareInv, Alone
  <2>3. [Next]_vars => (\E n \in Shares : ToggleStart(n)) \/ overlapped' = overlapped
    BY DEF Next, vars, share, ToggleStop, Confirm, Cancel, Picked, Ended, Capped,
           LateTrack, ToggleMic, SwitchMicrophone, MicrophoneSwitched, ToggleDeafen,
           PeerJoins, PeerLeaves, SetPeerStream, SetPeerMuted
  <2> QED BY <2>1, <2>2, <2>3
<1>1. ASSUME ToggleStop PROVE Alone'
  <2> USE <1>0, <1>1 DEF ToggleStop, ShareStopped, RemoveScreenTrack,
        ShareTyped, ScreensTyped, Shares, NoShare, Underway, Alone
  <2>1. OneCall'
    BY DEF OneCall, SentIsSaid, SharingIsAlone, OthersGet, CapturesAreUnderway, TracksOf
  <2>2. SentIsSaid'
    BY DEF OneCall, SentIsSaid, SharingIsAlone, OthersGet, CapturesAreUnderway, TracksOf
  <2>3. SharingIsAlone'
    BY DEF OneCall, SentIsSaid, SharingIsAlone, OthersGet, CapturesAreUnderway, TracksOf
  <2>4. OthersGet'
    BY DEF OneCall, SentIsSaid, SharingIsAlone, OthersGet, CapturesAreUnderway, TracksOf
  <2>5. CapturesAreUnderway'
    BY DEF OneCall, SentIsSaid, SharingIsAlone, OthersGet, CapturesAreUnderway, TracksOf
  <2> QED BY <2>1, <2>2, <2>3, <2>4, <2>5
<1>2. ASSUME Confirm PROVE Alone'
  <2> USE <1>0, <1>2 DEF Confirm, links, ShareTyped, ScreensTyped, Shares,
        NoShare, Underway, Alone
  <2>1. OneCall'
    BY DEF OneCall, SentIsSaid, SharingIsAlone, OthersGet, CapturesAreUnderway, TracksOf
  <2>2. SentIsSaid'
    BY DEF OneCall, SentIsSaid, SharingIsAlone, OthersGet, CapturesAreUnderway, TracksOf
  <2>3. SharingIsAlone'
    BY DEF OneCall, SentIsSaid, SharingIsAlone, OthersGet, CapturesAreUnderway, TracksOf
  <2>4. OthersGet'
    BY DEF OneCall, SentIsSaid, SharingIsAlone, OthersGet, CapturesAreUnderway, TracksOf
  <2>5. CapturesAreUnderway'
    BY DEF OneCall, SentIsSaid, SharingIsAlone, OthersGet, CapturesAreUnderway, TracksOf
  <2> QED BY <2>1, <2>2, <2>3, <2>4, <2>5
<1>3. ASSUME Cancel PROVE Alone'
  <2> USE <1>0, <1>3 DEF Cancel, StopScreenShare, ShareStopped,
        ShareUntouched, RemoveScreenTrack, ShareTyped, ScreensTyped, Shares,
        NoShare, Underway, Alone
  <2>1. OneCall'
    BY DEF OneCall, SentIsSaid, SharingIsAlone, OthersGet, CapturesAreUnderway, TracksOf
  <2>2. SentIsSaid'
    BY DEF OneCall, SentIsSaid, SharingIsAlone, OthersGet, CapturesAreUnderway, TracksOf
  <2>3. SharingIsAlone'
    BY DEF OneCall, SentIsSaid, SharingIsAlone, OthersGet, CapturesAreUnderway, TracksOf
  <2>4. OthersGet'
    BY DEF OneCall, SentIsSaid, SharingIsAlone, OthersGet, CapturesAreUnderway, TracksOf
  <2>5. CapturesAreUnderway'
    BY DEF OneCall, SentIsSaid, SharingIsAlone, OthersGet, CapturesAreUnderway, TracksOf
  <2> QED BY <2>1, <2>2, <2>3, <2>4, <2>5
<1>4. ASSUME NEW n \in Shares, ToggleStart(n) PROVE Alone'
  <2> USE <1>0, <1>4 DEF ToggleStart, links, ShareTyped, ScreensTyped, Shares,
        NoShare, Underway, Alone
  <2>1. OneCall'
    BY DEF OneCall, SentIsSaid, SharingIsAlone, OthersGet, CapturesAreUnderway, TracksOf
  <2>2. SentIsSaid'
    BY DEF OneCall, SentIsSaid, SharingIsAlone, OthersGet, CapturesAreUnderway, TracksOf
  <2>3. SharingIsAlone'
    BY DEF OneCall, SentIsSaid, SharingIsAlone, OthersGet, CapturesAreUnderway, TracksOf
  <2>4. OthersGet'
    BY DEF OneCall, SentIsSaid, SharingIsAlone, OthersGet, CapturesAreUnderway, TracksOf
  <2>5. CapturesAreUnderway'
    BY DEF OneCall, SentIsSaid, SharingIsAlone, OthersGet, CapturesAreUnderway, TracksOf
  <2> QED BY <2>1, <2>2, <2>3, <2>4, <2>5
<1>5. ASSUME NEW n \in Shares, Picked(n) PROVE Alone'
  <2> USE <1>0, <1>5 DEF ShareTyped, ScreensTyped, Shares, NoShare, Underway, Alone
  <2>0. ~sharing /\ capturing = {} /\ calls[n] = "picking"
    BY DEF OneCall, SharingIsAlone, CapturesAreUnderway, Picked
  <2> USE <2>0 DEF Picked, Opened, links
  <2>1. OneCall'
    BY DEF OneCall
  <2>2. SentIsSaid' /\ SharingIsAlone' /\ OthersGet'
    BY DEF SentIsSaid, SharingIsAlone, OthersGet
  <2>3. CASE calls' = [calls EXCEPT ![n] = "done"] /\ UNCHANGED <<capturing, screenStream, modal, hooked>>
    <3>1. CapturesAreUnderway'
      BY <2>3 DEF CapturesAreUnderway
    <3> QED BY <2>1, <2>2, <3>1
  <2>4. CASE /\ calls' = [calls EXCEPT ![n] = "choosing"]
             /\ capturing' = {n} /\ screenStream' = n
             /\ modal' = n /\ hooked' = hooked \union {n}
    <3>1. \A k \in Shares : k # n => ~Underway(k)
      BY DEF OneCall
    <3>2. CapturesAreUnderway'
      BY <2>4, <3>1 DEF CapturesAreUnderway
    <3> QED BY <2>1, <2>2, <3>2
  <2> QED BY <2>3, <2>4
<1>6. ASSUME NEW n \in Shares, Ended(n) PROVE Alone'
  <2> USE <1>0, <1>6 DEF ShareTyped, ScreensTyped, Shares, NoShare, Underway, Alone
  <2>0. /\ n = screenStream /\ capturing = {n} /\ n # NoShare
        /\ capturing' = {} /\ screenStream' = NoShare
        /\ ShareStopped
    <3>1. n \in capturing /\ n \in Shares /\ capturing \subseteq {screenStream}
      BY DEF Ended, CapturesAreUnderway
    <3>2. n = screenStream /\ capturing = {n} /\ n # NoShare
      <4>1. n = screenStream
        BY ONLY <3>1
      <4>2. capturing = {n}
        BY ONLY <3>1
      <4>3. n # NoShare
        BY ONLY <3>1 DEF Shares, NoShare
      <4> QED BY <4>1, <4>2, <4>3
    <3>3. StopScreenShare(capturing \ {n})
      BY DEF Ended
    <3> QED BY ONLY <3>2, <3>3 DEF StopScreenShare
  <2>01. lateEnd' = (lateEnd \/ calls[n] = "capping")
    BY DEF Ended
  <2>1. OneCall'
    BY DEF OneCall, Ended
  <2>2. SentIsSaid'
    BY <2>0 DEF SentIsSaid, ShareStopped, RemoveScreenTrack
  <2>3. SharingIsAlone'
    BY <2>0 DEF SharingIsAlone, ShareStopped
  <2>4. OthersGet'
    <3>1. sharing' = FALSE /\ RemoveScreenTrack
      BY <2>0 DEF ShareStopped
    <3>2. CASE sentStream = NoShare
      <4>1. \A q \in Peers : screens'[q] = {}
        BY <3>1, <3>2 DEF RemoveScreenTrack, SentIsSaid, OthersGet
      <4> QED BY <3>1, <4>1 DEF OthersGet
    <3>3. CASE sentStream # NoShare
      <4>1. \A q \in Peers : screens'[q] = screens[q] \ screenTracks
        BY <3>1, <3>3 DEF RemoveScreenTrack
      <4>2. \A q \in Peers : screens[q] \subseteq screenTracks
        BY DEF OthersGet
      <4> QED BY <3>1, <4>1, <4>2 DEF OthersGet
    <3> QED BY <3>2, <3>3
  <2>5. \A k \in Shares : calls'[k] # "choosing"
    <3> SUFFICES ASSUME NEW k \in Shares, calls'[k] = "choosing" PROVE FALSE
      OBVIOUS
    <3>1. calls[k] = "choosing"
      BY DEF Ended
    <3>2. k \in capturing /\ k \in hooked /\ modal = k
      BY <3>1 DEF CapturesAreUnderway
    <3>3. n = k
      BY <2>0, <3>2
    <3>4. calls' = [calls EXCEPT ![n] = "done"]
      BY <3>2, <3>3 DEF Ended
    <3> QED BY <3>3, <3>4
  <2>6. \A k \in Shares : calls'[k] = "capping" => lateEnd'
    <3> SUFFICES ASSUME NEW k \in Shares, calls'[k] = "capping", ~lateEnd
                 PROVE k = n /\ calls[k] = "capping"
      BY <2>01
    <3> QED BY <2>0 DEF Ended, CapturesAreUnderway
  <2>7. \A k \in attached' : calls'[k] = "done"
    BY DEF Ended, CapturesAreUnderway
  <2>8. CapturesAreUnderway'
    BY <2>0, <2>5, <2>6, <2>7 DEF CapturesAreUnderway
  <2> QED BY <2>1, <2>2, <2>3, <2>4, <2>8
<1>7. ASSUME NEW n \in Shares, Capped(n) PROVE Alone'
  <2> USE <1>0, <1>7 DEF Capped, AddScreenTrack, ShareTyped, ScreensTyped,
        Shares, NoShare, Underway, Alone
  <2>1. OneCall'
    BY DEF OneCall, SentIsSaid, SharingIsAlone, OthersGet, CapturesAreUnderway, TracksOf
  <2>2. SentIsSaid'
    BY DEF OneCall, SentIsSaid, SharingIsAlone, OthersGet, CapturesAreUnderway, TracksOf
  <2>3. SharingIsAlone'
    BY DEF OneCall, SentIsSaid, SharingIsAlone, OthersGet, CapturesAreUnderway, TracksOf
  <2>4. OthersGet'
    BY DEF OneCall, SentIsSaid, SharingIsAlone, OthersGet, CapturesAreUnderway, TracksOf
  <2>5. CapturesAreUnderway'
    BY DEF OneCall, SentIsSaid, SharingIsAlone, OthersGet, CapturesAreUnderway, TracksOf
  <2> QED BY <2>1, <2>2, <2>3, <2>4, <2>5
<1>8. ASSUME NEW n \in Shares, LateTrack(n) PROVE Alone'
  <2> USE <1>0, <1>8 DEF LateTrack, Tracks, ShareTyped, ScreensTyped, Shares,
        NoShare, Underway, Alone
  <2>0. overlapped' = overlapped /\ UNCHANGED <<calls, capturing, screenStream, modal, hooked,
           sharing, sentStream, attached, told, card, lateEnd, members>>
    OBVIOUS
  <2>1. OneCall' /\ SentIsSaid' /\ CapturesAreUnderway'
    BY ONLY <2>0, <1>0 DEF OneCall, SentIsSaid, CapturesAreUnderway, Underway, Alone
  <2>2. CASE sharing
    <3>1. sentStream = n
      BY <2>2 DEF SharingIsAlone
    <3>2. n \in attached
      BY <2>2, <3>1 DEF SharingIsAlone
    <3>3. screenTracks' = TracksOf(sentStream)'
      BY <2>2, <3>1, <3>2 DEF SharingIsAlone, TracksOf
    <3>4. SharingIsAlone'
      BY ONLY <1>0, <2>0, <2>2, <3>3 DEF SharingIsAlone, Underway, Alone
    <3>5. OthersGet'
      BY <2>2, <3>2 DEF OthersGet
    <3> QED BY <2>1, <3>4, <3>5
  <2>3. CASE ~sharing
    <3>1. n \notin attached
      BY <2>3 DEF CapturesAreUnderway
    <3>2. SharingIsAlone' /\ OthersGet'
      BY <2>0, <2>3, <3>1 DEF SharingIsAlone, OthersGet
    <3> QED BY <2>1, <3>2
  <2> QED BY <2>2, <2>3
<1>9. ASSUME UNCHANGED share, UNCHANGED <<screens, members>> PROVE Alone'
  BY <1>0, <1>9 DEF Alone, OneCall, SentIsSaid, SharingIsAlone, OthersGet, CapturesAreUnderway,
     TracksOf, Underway, share
<1>10. ASSUME NEW q \in Peers, PeerJoins(q) PROVE Alone'
  <2>1. OneCall' /\ SentIsSaid' /\ SharingIsAlone' /\ CapturesAreUnderway'
    BY <1>0, <1>10 DEF Alone, OneCall, SentIsSaid, SharingIsAlone, CapturesAreUnderway,
       TracksOf, Underway, share, PeerJoins
  <2>2. sharing <=> sentStream # NoShare
    BY <1>0 DEF Alone, SentIsSaid, Shares, NoShare
  <2>3. OthersGet'
    BY <1>0, <1>10, <2>2 DEF Alone, OthersGet, share, PeerJoins, ScreensTyped
  <2> QED BY <2>1, <2>3 DEF Alone
<1>11. ASSUME NEW q \in Peers, PeerLeaves(q) PROVE Alone'
  BY <1>0, <1>11 DEF Alone, OneCall, SentIsSaid, SharingIsAlone, OthersGet, CapturesAreUnderway,
     TracksOf, Underway, share, PeerLeaves, ScreensTyped
<1>12. CASE ToggleMic \/ SwitchMicrophone \/ MicrophoneSwitched \/ ToggleDeafen
  BY <1>9, <1>12 DEF ToggleMic, SwitchMicrophone, MicrophoneSwitched, ToggleDeafen, links
<1>13. CASE \E q \in Peers : SetPeerStream(q) \/ \E on \in BOOLEAN : SetPeerMuted(q, on)
  BY <1>9, <1>13 DEF SetPeerStream, SetPeerMuted, links
<1>14. CASE UNCHANGED vars BY <1>9, <1>14 DEF vars, links
<1> QED BY <1>1, <1>2, <1>3, <1>4, <1>5, <1>6, <1>7, <1>8, <1>10, <1>11, <1>12, <1>13, <1>14 DEF Next

(* Until the user starts a share while another is under way, the page      *)
(* sends exactly the share it announces, from a live capture, and captures *)
(* nothing else (toggleScreenShare and what it awaits).                    *)
THEOREM SharesStayAsSaid == Spec => []SharesOnlyWhatItSays
<1>1. Init => ShareInv
  BY DEF Init, ShareInv, OneCall, SentIsSaid, SharingIsAlone, OthersGet,
         CapturesAreUnderway, Underway, NoShare
<1>2. TypeOK /\ ShareInv => SharesOnlyWhatItSays
  <2> SUFFICES ASSUME ShareTyped, LinksTyped, ShareInv, ~overlapped
               PROVE /\ told = sharing /\ card = sentStream
                     /\ sharing => /\ sentStream \in capturing \/ lateEnd
                                   /\ \A q \in members : screens[q] = TracksOf(sentStream)
                     /\ ~sharing => /\ \A q \in Peers : screens[q] = {}
                                    /\ capturing \subseteq {n \in Shares : Underway(n)}
    BY TypeParts DEF SharesOnlyWhatItSays
  <2> QED BY DEF ShareTyped, LinksTyped, ShareInv, OneCall, SentIsSaid, SharingIsAlone,
                 OthersGet, CapturesAreUnderway, Underway
<1> QED BY <1>1, <1>2, ShareStep, WebMediaTypeCorrect, PTL DEF Spec

-----------------------------------------------------------------------------
(* WebNegotiation: the invariant.                                          *)
(*                                                                         *)
(* Until an ICE restart a page has at most one offer out, and that offer   *)
(* is in one place at most: on the wire to the other page, in the chain of *)
(* the other page that takes it, as an answer on the wire back, or as an   *)
(* answer in the chain of the page that made it.  What is in one of these  *)
(* places fixes the state of the page that waits: it has a local offer,    *)
(* and it is this one.  The conjuncts follow an offer through its places,  *)
(* first the impolite page's, then the polite page's.  They differ because *)
(* the impolite page ignores a colliding offer: an offer of the polite     *)
(* page may be on its way long after the page gave it up.                  *)

(* Where the offers and the answers are on a wire.                         *)
Offering(w) == {i \in DOMAIN w : w[i].type = "offer"}
Answering(w) == {i \in DOMAIN w : w[i].type = "answer"}

(* What an operation is part of: making an offer, taking one, ending the   *)
(* exchange with the answer that came, adding candidates after that.       *)
Makes(o) == o.op \in {"createOffer", "setLocalOffer"}
Answers(o) ==
  \/ o.op \in {"createAnswer", "setLocalAnswer"}
  \/ o.op = "addQueued" /\ o.signal.type = "offer"
Takes(o) == o.op = "rollback" \/ (o.op = "setRemote" /\ o.signal.type = "offer") \/ Answers(o)
Ends(o) == o.op = "setRemote" /\ o.signal.type = "answer"
Queued(o) == o.op = "addQueued" /\ o.signal.type = "answer"

Making(c) == {i \in DOMAIN c : Makes(c[i])}
Taking(c) == {i \in DOMAIN c : Takes(c[i])}
Ending(c) == {i \in DOMAIN c : Ends(c[i])}
Queueing(c) == {i \in DOMAIN c : Queued(c[i])}
Single(S) == \A i, j \in S : i = j

(* The offer page p is making: onnegotiationneeded makes it, with          *)
(* makingOffer set, and the page waits for no answer meanwhile.            *)
MakeAt(p) ==
  /\ Single(Making(chain[p]))
  /\ \A i \in Making(chain[p]) : chain[p][i].by = "needed" /\ making[p]
  /\ making[p] => signaling[p] # "have-local-offer"
  /\ fired[p] /\ signaling[p] = "stable" => making[p]
  /\ making[p] \/ signaling[p] = "have-local-offer" => Queueing(chain[p]) = {}
MakeInv == \A p \in Pages : MakeAt(p)

(* The impolite page makes an offer only when it takes none.               *)
ImpoliteMakes ==
  making[Impolite] => signaling[Impolite] = "stable" /\ Taking(chain[Impolite]) = {}

(* A page takes one offer at a time.  Once it answers, the connection has  *)
(* the remote offer.  Only the polite page rolls back, and it takes an     *)
(* offer with an answer before it in the chain only to roll back.          *)
TakeAt(p) ==
  /\ Single(Taking(chain[p])) /\ Single(Ending(chain[p]))
  /\ \A i \in Taking(chain[p]) : Answers(chain[p][i]) => signaling[p] = "have-remote-offer"
  /\ p = Impolite =>
       \A i \in Taking(chain[p]) :
         chain[p][i].op # "rollback" /\ signaling[p] # "have-local-offer"
  /\ p = Polite =>
       \A i \in Taking(chain[p]), j \in Ending(chain[p]) :
         chain[p][i].op = "rollback" /\ j < i
TakeInv == \A p \in Pages : TakeAt(p)

(* The places of the impolite page's offer, each excluding the later ones. *)
ImpoliteInv ==
  LET p == Impolite
      q == Polite
      Out(offer) == signaling[p] = "have-local-offer" /\ offered[p] = offer IN
  /\ Single(Offering(wire[q])) /\ Single(Answering(wire[p]))
  /\ \A i \in Offering(wire[q]) : Out(wire[q][i].offer)
  /\ \A i \in Taking(chain[q]) : Out(chain[q][i].signal.offer)
  /\ \A i \in Answering(wire[p]) : Out(wire[p][i].offer)
  /\ \A i \in Ending(chain[p]) : Out(chain[p][i].signal.offer)
  /\ Offering(wire[q]) # {} =>
       Taking(chain[q]) = {} /\ Answering(wire[p]) = {} /\ Ending(chain[p]) = {}
  /\ Taking(chain[q]) # {} => Answering(wire[p]) = {} /\ Ending(chain[p]) = {}
  /\ Answering(wire[p]) # {} => Ending(chain[p]) = {}

(* The places of the polite page's offer once the impolite page takes it.  *)
(* Meanwhile no other offer of the polite page and no answer to the        *)
(* impolite page is on its way; an offer of the impolite page may already  *)
(* be on the wire, behind the answer.                                      *)
PoliteInv ==
  LET p == Polite
      q == Impolite
      Out(offer) == signaling[p] = "have-local-offer" /\ offered[p] = offer IN
  /\ Single(Answering(wire[p]))
  /\ \A i \in Taking(chain[q]) : Out(chain[q][i].signal.offer)
  /\ \A i \in Answering(wire[p]) : Out(wire[p][i].offer)
  /\ \A i \in Ending(chain[p]) : Out(chain[p][i].signal.offer)
  /\ Taking(chain[q]) # {} => Answering(wire[p]) = {} /\ Ending(chain[p]) = {}
  /\ Answering(wire[p]) # {} => Ending(chain[p]) = {} /\ Taking(chain[p]) = {}
  /\ \A i \in Answering(wire[p]), j \in Offering(wire[p]) : i < j
  /\ Taking(chain[q]) # {} \/ Answering(wire[p]) # {} \/ Ending(chain[p]) # {} =>
       Offering(wire[q]) = {} /\ Answering(wire[q]) = {} /\ Ending(chain[q]) = {}

(* An offer on the wire to the impolite page either will be ignored, for   *)
(* that page waits for an answer which comes later, or is the one the      *)
(* polite page waits for, and the last thing it sent.                      *)
Guarded(i) ==
  /\ signaling[Impolite] = "have-local-offer" /\ Ending(chain[Impolite]) = {}
  /\ \A j \in Answering(wire[Impolite]) : i < j
Live(i) ==
  /\ signaling[Polite] = "have-local-offer" /\ offered[Polite] = wire[Impolite][i].offer
  /\ \A j \in DOMAIN wire[Impolite] : i < j => wire[Impolite][j].type = "candidate"
OfferInv == \A i \in Offering(wire[Impolite]) : Guarded(i) \/ Live(i)

(* A page that waits for an answer, unless an offer was forsaken, waits    *)
(* for something that is still on its way; the polite page may also wait   *)
(* for the impolite page's own offer.                                      *)
LostImpolite ==
  signaling[Impolite] = "have-local-offer" /\ ~forsaken =>
    \/ Offering(wire[Polite]) # {} \/ Taking(chain[Polite]) # {}
    \/ Answering(wire[Impolite]) # {} \/ Ending(chain[Impolite]) # {}
LostPolite ==
  signaling[Polite] = "have-local-offer" /\ ~forsaken =>
    \/ \E i \in Offering(wire[Impolite]) : Live(i)
    \/ Taking(chain[Impolite]) # {} \/ Answering(wire[Polite]) # {}
    \/ Ending(chain[Polite]) # {}
    \/ making[Impolite] \/ Offering(wire[Polite]) # {} \/ Taking(chain[Polite]) # {}

(* A page that has a remote offer is answering it, or it gave it up.       *)
RemoteInv ==
  /\ signaling[Polite] = "have-remote-offer" =>
       \/ Taking(chain[Polite]) # {}
       \/ /\ forsaken /\ signaling[Impolite] = "have-local-offer"
          /\ Offering(wire[Polite]) = {}
          /\ Answering(wire[Impolite]) = {} /\ Ending(chain[Impolite]) = {}
  /\ signaling[Impolite] = "have-remote-offer" => Taking(chain[Impolite]) # {} \/ forsaken

(* Both pages completed the same exchange and know each other's tracks,    *)
(* except while an answer is under way: then the page that sent it has     *)
(* completed the exchange the other page waits for.                        *)
Agreeing(p, tracksOf) ==
  /\ agreed[Other(p)] = offered[p] /\ received[Other(p)] = offered[p].tracks
  /\ sent[Other(p)] = tracksOf
Synced == agreed[Polite] = agreed[Impolite] /\ \A p \in Pages : received[Other(p)] = sent[p]
AgreeInv ==
  /\ (\A p \in Pages : Answering(wire[p]) = {} /\ Ending(chain[p]) = {}) => Synced
  /\ \A p \in Pages :
       /\ \A i \in Answering(wire[p]) : Agreeing(p, wire[p][i].tracks)
       /\ \A i \in Ending(chain[p]) : Agreeing(p, chain[p][i].signal.tracks)

Settled ==
  /\ MakeInv /\ ImpoliteMakes /\ TakeInv /\ ImpoliteInv /\ PoliteInv /\ OfferInv
  /\ LostImpolite /\ LostPolite /\ RemoteInv /\ AgreeInv

(* attemptIceRestart makes an offer without makingOffer, so a second offer *)
(* may be out after one and none of this holds.                            *)
SettleInv == NoRestart => Settled

(* A queue with an element more, and a queue without its first.            *)
LEMMA Longer ==
  ASSUME NEW S, NEW q \in Seq(S), NEW e \in S
  PROVE  /\ Append(q, e) \in Seq(S) /\ Len(q) \in Nat /\ Len(Append(q, e)) = Len(q) + 1
         /\ DOMAIN q = 1 .. Len(q) /\ DOMAIN Append(q, e) = 1 .. Len(q) + 1
         /\ Append(q, e)[Len(q) + 1] = e /\ \A j \in 1..Len(q) : Append(q, e)[j] = q[j]
OBVIOUS

LEMMA Shorter ==
  ASSUME NEW S, NEW q \in Seq(S), q # <<>>
  PROVE  /\ Len(q) \in Nat \ {0} /\ Tail(q) \in Seq(S) /\ Len(Tail(q)) = Len(q) - 1
         /\ DOMAIN q = 1 .. Len(q) /\ DOMAIN Tail(q) = 1 .. Len(q) - 1
         /\ Head(q) = q[1] /\ Head(q) \in S
         /\ \A j \in 1..(Len(q) - 1) : Tail(q)[j] = q[j + 1]
OBVIOUS

(* There are two pages, each the other's other.                            *)
LEMMA PagesTyped ==
  /\ Polite \in Pages /\ Impolite \in Pages /\ Polite # Impolite
  /\ Pages = {Polite, Impolite}
  /\ Other(Polite) = Impolite /\ Other(Impolite) = Polite
  /\ \A p \in Pages : Other(p) \in Pages /\ Other(p) # p /\ Other(Other(p)) = p
BY WebNegotiationAssumption DEF Pages, Other

LEMMA Bounds == MaxTracks \in Nat \ {0} /\ MaxRestarts \in Nat /\ MaxOffers \in Nat
BY WebNegotiationAssumption

LEMMA VersionsTyped ==
  0 \in Versions /\ 1 \in Versions /\ 0 \in 0 .. MaxOffers /\ 0 \in 0 .. MaxRestarts
BY Bounds DEF Versions

LEMMA NoOfferTyped == NoOffer \in Offers
BY PagesTyped, VersionsTyped DEF NoOffer, Offers

(* The fields of operations and signals, and the other way round.          *)
LEMMA OperationParts ==
  ASSUME NEW o \in Operations
  PROVE  /\ o.op \in {"createOffer", "setLocalOffer", "rollback", "setRemote",
                     "addQueued", "createAnswer", "setLocalAnswer"}
         /\ o.op \in {"createOffer", "setLocalOffer"} =>
              o.by \in {"needed", "restart"} /\ o.n \in 1 .. MaxOffers
         /\ o.op \in {"setLocalOffer", "setLocalAnswer"} => o.tracks \in Versions
         /\ o.op \in {"setRemote", "addQueued"} => o.signal \in Descriptions({"offer", "answer"})
         /\ o.op \in {"rollback", "createAnswer", "setLocalAnswer"} =>
              o.signal \in Descriptions({"offer"})
BY DEF Operations

LEMMA DescriptionParts ==
  ASSUME NEW types, NEW d \in Descriptions(types)
  PROVE  /\ d.type \in types /\ d.offer \in Offers /\ d.tracks \in Versions
         /\ d.type = "offer" => d.tracks = d.offer.tracks
BY DEF Descriptions

LEMMA SomeOffers ==
  ASSUME NEW d \in Descriptions({"offer", "answer"}), d.type = "offer"
  PROVE  d \in Descriptions({"offer"})
BY DEF Descriptions

LEMMA MoreTypes == \A d \in Descriptions({"offer"}) : d \in Descriptions({"offer", "answer"})
BY DEF Descriptions

LEMMA SignalParts ==
  ASSUME NEW m \in Signals
  PROVE  /\ m.type \in {"offer", "answer", "candidate"} /\ m.offer \in Offers
         /\ m.type \in {"offer", "answer"} =>
              m \in Descriptions({"offer", "answer"}) /\ m.tracks \in Versions
<1>1. CASE m \in Descriptions({"offer", "answer"})
  BY <1>1 DEF Descriptions
<1>2. CASE m \in [type : {"candidate"}, offer : Offers]
  BY <1>2
<1> QED BY <1>1, <1>2 DEF Signals

LEMMA NewOperations ==
  /\ \A by \in {"needed", "restart"}, n \in 1 .. MaxOffers :
        /\ [op |-> "createOffer", by |-> by, n |-> n] \in Operations
        /\ \A t \in Versions :
             [op |-> "setLocalOffer", by |-> by, n |-> n, tracks |-> t] \in Operations
  /\ \A d \in Descriptions({"offer", "answer"}) :
        [op |-> "setRemote", signal |-> d] \in Operations
          /\ [op |-> "addQueued", signal |-> d] \in Operations
  /\ \A d \in Descriptions({"offer"}) :
        /\ [op |-> "rollback", signal |-> d] \in Operations
        /\ [op |-> "createAnswer", signal |-> d] \in Operations
        /\ \A t \in Versions : [op |-> "setLocalAnswer", signal |-> d, tracks |-> t] \in Operations
BY DEF Operations

LEMMA NewSignals ==
  ASSUME NEW f \in Offers, NEW t \in Versions
  PROVE  /\ t = f.tracks => [type |-> "offer", offer |-> f, tracks |-> t] \in Signals
         /\ [type |-> "answer", offer |-> f, tracks |-> t] \in Signals
         /\ [type |-> "candidate", offer |-> f] \in Signals
BY DEF Signals, Descriptions

(* The type invariant in parts: what the connections hold, the other       *)
(* variables of a page, the queues, and that a page with makingOffer set   *)
(* has an operation in its chain that will clear it.                       *)
ConnectionTyped ==
  /\ signaling \in [Pages -> {"stable", "have-local-offer", "have-remote-offer"}]
  /\ offered \in [Pages -> Offers] /\ offers \in [Pages -> 0 .. MaxOffers]
  /\ agreed \in [Pages -> Offers]
  /\ sent \in [Pages -> Versions] /\ received \in [Pages -> Versions]
  /\ restart \in [Pages -> BOOLEAN] /\ remote \in [Pages -> BOOLEAN]
  /\ \A p \in Pages : signaling[p] = "have-local-offer" <=> offered[p] # NoOffer

OtherTyped ==
  /\ tracks \in [Pages -> Versions] /\ restarts \in [Pages -> 0 .. MaxRestarts]
  /\ early \in [Pages -> SUBSET Offers] /\ forsaken \in BOOLEAN
  /\ making \in [Pages -> BOOLEAN] /\ fired \in [Pages -> BOOLEAN]

QueuesTyped == chain \in [Pages -> Seq(Operations)] /\ wire \in [Pages -> Seq(Signals)]

MakingTyped ==
  \A p \in Pages :
    making[p] => \E i \in DOMAIN chain[p] : /\ chain[p][i].op \in {"createOffer", "setLocalOffer"}
                                            /\ chain[p][i].by = "needed"

LEMMA TypeIsParts ==
  NegotiationTypeOK <=> ConnectionTyped /\ OtherTyped /\ QueuesTyped /\ MakingTyped
BY DEF NegotiationTypeOK, ConnectionTyped, OtherTyped, QueuesTyped, MakingTyped

(* The queues of a page, and what is left of them.                         *)
LEMMA Heads ==
  ASSUME QueuesTyped, NEW p \in Pages
  PROVE  /\ chain[p] \in Seq(Operations) /\ wire[p] \in Seq(Signals)
         /\ chain[p] # <<>> => Head(chain[p]) \in Operations /\ Tail(chain[p]) \in Seq(Operations)
         /\ wire[p] # <<>> => Head(wire[p]) \in Signals /\ Tail(wire[p]) \in Seq(Signals)
<1>1. chain[p] \in Seq(Operations) /\ wire[p] \in Seq(Signals)
  BY DEF QueuesTyped
<1> QED BY <1>1, Shorter

(* Every step keeps the connections typed.                                 *)
LEMMA ConnectionStep ==
  ASSUME ConnectionTyped, OtherTyped, QueuesTyped, [NegotiationNext]_negotiationVars
  PROVE  ConnectionTyped'
<1> USE DEF ConnectionTyped
<1>1. ASSUME NEW p \in Pages, NegotiationNeeded(p) PROVE ConnectionTyped'
  BY <1>1, Bounds DEF NegotiationNeeded
<1>2. ASSUME NEW p \in Pages, AttemptIceRestart(p) PROVE ConnectionTyped'
  BY <1>2, Bounds DEF AttemptIceRestart
<1>3. ASSUME NEW p \in Pages, ChangeTracks(p) \/ HandleSignal(p) PROVE ConnectionTyped'
  BY <1>3 DEF ChangeTracks, HandleSignal, connection
<1>4. ASSUME UNCHANGED negotiationVars PROVE ConnectionTyped'
  BY <1>4 DEF negotiationVars, connection
<1>5. ASSUME NEW p \in Pages, Operate(p) PROVE ConnectionTyped'
  <2> DEFINE o == Head(chain[p])
  <2>1. o \in Operations
    BY <1>5, Heads DEF Operate
  <2>2. ASSUME o.op = "setLocalOffer", SetLocalOffer(p, o) PROVE ConnectionTyped'
    <3> DEFINE offer == [from |-> p, n |-> o.n, tracks |-> o.tracks]
    <3>1. o.n \in 1 .. MaxOffers /\ o.tracks \in Versions
      BY <2>1, <2>2, OperationParts
    <3>2. offer \in Offers /\ offer # NoOffer
      BY <3>1, Bounds DEF Offers, NoOffer
    <3> HIDE DEF offer
    <3>3. \/ /\ signaling' = [signaling EXCEPT ![p] = "have-local-offer"]
             /\ offered' = [offered EXCEPT ![p] = offer]
          \/ UNCHANGED <<signaling, offered>>
      BY <2>2 DEF SetLocalOffer, offer
    <3>4. UNCHANGED <<offers, sent, received, agreed, restart, remote>>
      BY <2>2 DEF SetLocalOffer
    <3> QED BY <3>2, <3>3, <3>4
  <2>3. ASSUME o.op = "rollback", Rollback(p, o) PROVE ConnectionTyped'
    BY <2>3, NoOfferTyped DEF Rollback
  <2>4. ASSUME o.op = "setRemote", SetRemote(p, o) PROVE ConnectionTyped'
    <3>1. o.signal \in Descriptions({"offer", "answer"}) /\ o.signal.tracks \in Versions
      BY <2>1, <2>4, OperationParts, DescriptionParts
    <3>2. CASE /\ signaling' = [signaling EXCEPT ![p] = "have-remote-offer"]
               /\ offered' = [offered EXCEPT ![p] = NoOffer]
               /\ remote' = [remote EXCEPT ![p] = TRUE]
               /\ UNCHANGED <<agreed, sent, received, restart, offers>>
      BY <3>2, NoOfferTyped
    <3>3. CASE /\ Agree(p, offered[p], offered[p].tracks, o.signal.tracks)
               /\ remote' = [remote EXCEPT ![p] = TRUE] /\ UNCHANGED offers
      <4>1. offered[p] \in Offers /\ offered[p].tracks \in Versions
        BY DEF Offers
      <4> QED BY <3>1, <3>3, <4>1, NoOfferTyped DEF Agree
    <3>4. CASE UNCHANGED <<signaling, offered, remote, agreed, sent, received, restart, offers>>
      BY <3>4
    <3> QED BY <2>4, <3>2, <3>3, <3>4 DEF SetRemote
  <2>5. ASSUME o.op = "setLocalAnswer", SetLocalAnswer(p, o) PROVE ConnectionTyped'
    <3>1. /\ o.signal \in Descriptions({"offer"}) /\ o.tracks \in Versions
          /\ o.signal.tracks \in Versions /\ o.signal.offer \in Offers
      BY <2>1, <2>5, OperationParts, DescriptionParts
    <3>2. CASE Agree(p, o.signal.offer, o.tracks, o.signal.tracks) /\ UNCHANGED <<offers, remote>>
      BY <3>1, <3>2, NoOfferTyped DEF Agree
    <3>3. CASE UNCHANGED <<signaling, offered, agreed, sent, received, restart, offers, remote>>
      BY <3>3
    <3> QED BY <2>5, <3>2, <3>3 DEF SetLocalAnswer
  <2>6. ASSUME \/ o.op = "createOffer" /\ CreateOffer(p, o)
               \/ o.op = "addQueued" /\ AddQueued(p, o)
               \/ o.op = "createAnswer" /\ CreateAnswer(p, o)
        PROVE  ConnectionTyped'
    BY <2>6 DEF CreateOffer, AddQueued, CreateAnswer, connection
  <2> QED BY <1>5, <2>2, <2>3, <2>4, <2>5, <2>6 DEF Operate
<1> QED BY <1>1, <1>2, <1>3, <1>4, <1>5 DEF NegotiationNext

(* Every step keeps the other variables typed; the guards keep the         *)
(* counters within their bounds.                                           *)
LEMMA OtherStep ==
  ASSUME ConnectionTyped, OtherTyped, QueuesTyped, [NegotiationNext]_negotiationVars
  PROVE  OtherTyped'
<1> USE DEF OtherTyped
<1>1. ASSUME NEW p \in Pages, NegotiationNeeded(p) PROVE OtherTyped'
  BY <1>1 DEF NegotiationNeeded
<1>2. ASSUME NEW p \in Pages, AttemptIceRestart(p) PROVE OtherTyped'
  <2>1. restarts[p] < MaxRestarts /\ restarts' = [restarts EXCEPT ![p] = @ + 1]
    BY <1>2 DEF AttemptIceRestart
  <2>2. restarts' \in [Pages -> 0 .. MaxRestarts]
    BY <2>1, Bounds
  <2> QED BY <1>2, <2>2 DEF AttemptIceRestart
<1>3. ASSUME NEW p \in Pages, ChangeTracks(p) PROVE OtherTyped'
  <2>1. tracks[p] < MaxTracks /\ tracks' = [tracks EXCEPT ![p] = @ + 1]
    BY <1>3 DEF ChangeTracks
  <2>2. tracks' \in [Pages -> Versions]
    BY <2>1, Bounds DEF Versions
  <2> QED BY <1>3, <2>2 DEF ChangeTracks
<1>4. ASSUME NEW p \in Pages, HandleSignal(p) PROVE OtherTyped'
  <2> DEFINE m == Head(wire[p])
  <2>1. m \in Signals /\ m.offer \in Offers
    BY <1>4, Heads, SignalParts DEF HandleSignal
  <2>2. UNCHANGED <<making, fired, tracks, restarts>>
    BY <1>4 DEF HandleSignal
  <2>3. forsaken' \in BOOLEAN /\ early' \in [Pages -> SUBSET Offers]
    <3>1. CASE TakeOffer(p, m) \/ TakeAnswer(p, m)
      BY <3>1 DEF TakeOffer, TakeAnswer
    <3>2. CASE TakeCandidate(p, m)
      <4>1. /\ forsaken' = forsaken
            /\ early' = [early EXCEPT ![p] = IF remote[p] THEN @ ELSE @ \union {m.offer}]
        BY <3>2 DEF TakeCandidate
      <4>2. early[p] \union {m.offer} \in SUBSET Offers
        BY <2>1
      <4> QED BY <4>1, <4>2
    <3> QED BY <1>4, <3>1, <3>2 DEF HandleSignal
  <2> QED BY <2>2, <2>3
<1>5. ASSUME UNCHANGED negotiationVars PROVE OtherTyped'
  BY <1>5 DEF negotiationVars, connection
<1>6. ASSUME NEW p \in Pages, Operate(p) PROVE OtherTyped'
  <2> DEFINE o == Head(chain[p])
  <2>1. UNCHANGED <<tracks, restarts>>
    BY <1>6 DEF Operate
  <2>2. ASSUME CreateOffer(p, o) \/ SetLocalOffer(p, o) PROVE OtherTyped'
    <3>1. UNCHANGED <<fired, early, forsaken>>
      BY <2>2 DEF CreateOffer, SetLocalOffer
    <3>2. UNCHANGED making \/ making' = [making EXCEPT ![p] = o.by # "needed" /\ @]
      BY <2>2 DEF CreateOffer, SetLocalOffer, OfferEnds
    <3>3. making' \in [Pages -> BOOLEAN]
      BY <3>2
    <3> QED BY <2>1, <3>1, <3>3
  <2>3. ASSUME Rollback(p, o) PROVE OtherTyped'
    BY <2>1, <2>3 DEF Rollback
  <2>4. ASSUME SetRemote(p, o) \/ SetLocalAnswer(p, o) PROVE OtherTyped'
    <3>1. fired' = fired \/ fired' = [fired EXCEPT ![p] = FALSE]
      BY <2>4 DEF SetRemote, SetLocalAnswer, Agree
    <3>2. UNCHANGED <<making, early, forsaken>>
      BY <2>4 DEF SetRemote, SetLocalAnswer
    <3> QED BY <2>1, <3>1, <3>2
  <2>5. ASSUME AddQueued(p, o) PROVE OtherTyped'
    BY <2>1, <2>5 DEF AddQueued
  <2>6. ASSUME CreateAnswer(p, o) PROVE OtherTyped'
    BY <2>1, <2>6 DEF CreateAnswer
  <2> QED BY <1>6, <2>2, <2>3, <2>4, <2>5, <2>6 DEF Operate
<1> QED BY <1>1, <1>2, <1>3, <1>4, <1>5, <1>6 DEF NegotiationNext

(* The places of S in a queue of n elements when the first is gone.        *)
Shift(S, n) == {i \in 1 .. n - 1 : i + 1 \in S}

LEMMA ShiftFacts ==
  ASSUME NEW n \in Nat \ {0}, NEW S \in SUBSET (1 .. n)
  PROVE  /\ Shift(S, n) \subseteq 1 .. n - 1
         /\ S = {} => Shift(S, n) = {}
         /\ Single(S) => Single(Shift(S, n))
         /\ 1 \notin S => (Shift(S, n) = {} <=> S = {})
         /\ Single(S) /\ 1 \in S => Shift(S, n) = {}
<1>1. Single(S) => Single(Shift(S, n))
  <2> SUFFICES ASSUME Single(S), NEW i \in Shift(S, n), NEW j \in Shift(S, n) PROVE i = j
    BY DEF Single
  <2>1. i + 1 \in S /\ j + 1 \in S /\ i \in Nat /\ j \in Nat
    BY DEF Shift
  <2>2. i + 1 = j + 1
    BY <2>1 DEF Single
  <2> QED BY <2>1, <2>2
<1>2. ASSUME 1 \notin S, NEW i \in S PROVE i - 1 \in Shift(S, n)
  BY <1>2 DEF Shift
<1>3. ASSUME Single(S), 1 \in S, NEW i \in Shift(S, n) PROVE FALSE
  <2>1. i + 1 \in S /\ i \in Nat /\ i >= 1
    BY <1>3 DEF Shift
  <2>2. i + 1 = 1
    BY <1>3, <2>1 DEF Single
  <2> QED BY <2>1, <2>2
<1> QED BY <1>1, <1>2, <1>3 DEF Shift

(* Where the offers and the answers, and the operations of each kind, are  *)
(* when a queue gets an element more or loses its first.                   *)
LEMMA WireAppend ==
  ASSUME NEW w \in Seq(Signals), NEW m \in Signals
  PROVE  /\ Offering(Append(w, m)) =
              Offering(w) \union (IF m.type = "offer" THEN {Len(w) + 1} ELSE {})
         /\ Answering(Append(w, m)) =
              Answering(w) \union (IF m.type = "answer" THEN {Len(w) + 1} ELSE {})
<1>1. /\ Len(w) \in Nat /\ DOMAIN w = 1 .. Len(w) /\ DOMAIN Append(w, m) = 1 .. Len(w) + 1
      /\ Append(w, m)[Len(w) + 1] = m /\ \A j \in 1..Len(w) : Append(w, m)[j] = w[j]
  BY Longer
<1> QED BY <1>1 DEF Offering, Answering

LEMMA ChainAppend ==
  ASSUME NEW c \in Seq(Operations), NEW o \in Operations
  PROVE  /\ Making(Append(c, o)) = Making(c) \union (IF Makes(o) THEN {Len(c) + 1} ELSE {})
         /\ Taking(Append(c, o)) = Taking(c) \union (IF Takes(o) THEN {Len(c) + 1} ELSE {})
         /\ Ending(Append(c, o)) = Ending(c) \union (IF Ends(o) THEN {Len(c) + 1} ELSE {})
         /\ Queueing(Append(c, o)) = Queueing(c) \union (IF Queued(o) THEN {Len(c) + 1} ELSE {})
<1>1. /\ Len(c) \in Nat /\ DOMAIN c = 1 .. Len(c) /\ DOMAIN Append(c, o) = 1 .. Len(c) + 1
      /\ Append(c, o)[Len(c) + 1] = o /\ \A j \in 1..Len(c) : Append(c, o)[j] = c[j]
  BY Longer
<1> QED BY <1>1 DEF Making, Taking, Ending, Queueing

LEMMA WireTail ==
  ASSUME NEW w \in Seq(Signals), w # <<>>
  PROVE  /\ Offering(Tail(w)) = Shift(Offering(w), Len(w))
         /\ Answering(Tail(w)) = Shift(Answering(w), Len(w))
         /\ 1 \in Offering(w) <=> Head(w).type = "offer"
         /\ 1 \in Answering(w) <=> Head(w).type = "answer"
<1>1. /\ Len(w) \in Nat \ {0} /\ DOMAIN w = 1 .. Len(w) /\ DOMAIN Tail(w) = 1 .. Len(w) - 1
      /\ Head(w) = w[1] /\ \A j \in 1..(Len(w) - 1) : Tail(w)[j] = w[j + 1]
  BY Shorter
<1> QED BY <1>1 DEF Offering, Answering, Shift

LEMMA ChainTail ==
  ASSUME NEW c \in Seq(Operations), c # <<>>
  PROVE  /\ Making(Tail(c)) = Shift(Making(c), Len(c))
         /\ Taking(Tail(c)) = Shift(Taking(c), Len(c))
         /\ Ending(Tail(c)) = Shift(Ending(c), Len(c))
         /\ Queueing(Tail(c)) = Shift(Queueing(c), Len(c))
         /\ 1 \in Making(c) <=> Makes(Head(c))
         /\ 1 \in Taking(c) <=> Takes(Head(c))
         /\ 1 \in Ending(c) <=> Ends(Head(c))
         /\ 1 \in Queueing(c) <=> Queued(Head(c))
<1>1. /\ Len(c) \in Nat \ {0} /\ DOMAIN c = 1 .. Len(c) /\ DOMAIN Tail(c) = 1 .. Len(c) - 1
      /\ Head(c) = c[1] /\ \A j \in 1..(Len(c) - 1) : Tail(c)[j] = c[j + 1]
  BY Shorter
<1> QED BY <1>1 DEF Making, Taking, Ending, Queueing, Shift

LEMMA Subsets ==
  /\ \A w \in Seq(Signals) :
       /\ Len(w) \in Nat
       /\ Offering(w) \in SUBSET (1 .. Len(w)) /\ Answering(w) \in SUBSET (1 .. Len(w))
  /\ \A c \in Seq(Operations) :
       /\ Len(c) \in Nat
       /\ Making(c) \in SUBSET (1 .. Len(c)) /\ Taking(c) \in SUBSET (1 .. Len(c))
       /\ Ending(c) \in SUBSET (1 .. Len(c)) /\ Queueing(c) \in SUBSET (1 .. Len(c))
<1>1. \A w \in Seq(Signals) : DOMAIN w = 1 .. Len(w) /\ Len(w) \in Nat
  OBVIOUS
<1>2. \A w \in Seq(Operations) : DOMAIN w = 1 .. Len(w) /\ Len(w) \in Nat
  OBVIOUS
<1> QED BY <1>1, <1>2 DEF Offering, Answering, Making, Taking, Ending, Queueing

(* v is the wire w with the offer m and a candidate behind it, or with the *)
(* answer m behind it.                                                     *)
OfferOn(w, v, m) ==
  /\ v \in Seq(Signals) /\ Offering(v) = Offering(w) \union {Len(w) + 1}
  /\ Answering(v) = Answering(w)
  /\ v[Len(w) + 1] = m /\ v[Len(w) + 2].type = "candidate"
  /\ DOMAIN v = 1 .. Len(w) + 2 /\ \A j \in 1 .. Len(w) : v[j] = w[j]

AnswerOn(w, v, m) ==
  /\ v \in Seq(Signals) /\ Offering(v) = Offering(w)
  /\ Answering(v) = Answering(w) \union {Len(w) + 1}
  /\ v[Len(w) + 1] = m
  /\ DOMAIN v = 1 .. Len(w) + 1 /\ \A j \in 1 .. Len(w) : v[j] = w[j]

(* What SetLocalOffer and SetLocalAnswer put on a wire.                    *)
LEMMA OfferPosted ==
  ASSUME NEW w \in Seq(Signals), NEW m \in Signals, NEW c \in Signals, m.type = "offer",
         c.type = "candidate",
         NEW v, v = Append(Append(w, m), c)
  PROVE  OfferOn(w, v, m)
<1>1. Append(w, m) \in Seq(Signals) /\ Len(Append(w, m)) = Len(w) + 1 /\ Len(w) \in Nat
      /\ Append(w, m)[Len(w) + 1] = m /\ \A j \in 1..Len(w) : Append(w, m)[j] = w[j]
  BY Longer
<1> DEFINE u == Append(w, m)
<1> HIDE DEF u
<1>2. /\ Append(u, c) \in Seq(Signals) /\ Len(Append(u, c)) = Len(u) + 1
      /\ DOMAIN Append(u, c) = 1 .. Len(u) + 1
      /\ Append(u, c)[Len(u) + 1] = c /\ \A j \in 1..Len(u) : Append(u, c)[j] = u[j]
  BY <1>1, Longer DEF u
<1>3. Offering(Append(u, c)) = Offering(u) /\ Answering(Append(u, c)) = Answering(u)
  BY <1>1, WireAppend DEF u
<1>4. Offering(u) = Offering(w) \union {Len(w) + 1} /\ Answering(u) = Answering(w)
  BY WireAppend DEF u
<1>5. /\ v = Append(u, c) /\ Len(u) = Len(w) + 1 /\ u[Len(w) + 1] = m
      /\ \A j \in 1..Len(w) : u[j] = w[j]
  BY <1>1 DEF u
<1>6. Offering(v) = Offering(w) \union {Len(w) + 1} /\ Answering(v) = Answering(w)
  BY <1>3, <1>4, <1>5
<1>7. /\ v \in Seq(Signals) /\ Len(v) = Len(w) + 2 /\ DOMAIN v = 1 .. Len(w) + 2
      /\ v[Len(w) + 2] = c
      /\ \A j \in 1 .. Len(w) + 1 : v[j] = u[j]
  BY <1>1, <1>2, <1>5
<1>8. v[Len(w) + 1] = m /\ \A j \in 1 .. Len(w) : v[j] = w[j]
  BY <1>1, <1>5, <1>7
<1> QED BY <1>1, <1>6, <1>7, <1>8 DEF OfferOn

LEMMA AnswerPosted ==
  ASSUME NEW w \in Seq(Signals), NEW m \in Signals, m.type = "answer",
         NEW v, v = Append(w, m)
  PROVE  AnswerOn(w, v, m)
<1>1. v = Append(w, m)
  OBVIOUS
<1>2. /\ v \in Seq(Signals) /\ v[Len(w) + 1] = m /\ Len(v) = Len(w) + 1
      /\ DOMAIN v = 1 .. Len(w) + 1
      /\ \A j \in 1 .. Len(w) : v[j] = w[j]
  BY <1>1, Longer
<1>3. Offering(v) = Offering(w) /\ Answering(v) = Answering(w) \union {Len(w) + 1}
  BY <1>1, WireAppend
<1> QED BY <1>2, <1>3 DEF AnswerOn

(* An operation of onnegotiationneeded, whose finally clears makingOffer,  *)
(* and a chain that holds one.                                             *)
Keeps(o) == o.op \in {"createOffer", "setLocalOffer"} /\ o.by = "needed"
Kept(c) == \E i \in DOMAIN c : Keeps(c[i])

(* Only carrying it out takes the operation from the chain.                *)
LEMMA KeptAppend ==
  ASSUME NEW c \in Seq(Operations), NEW o \in Operations, Kept(c) \/ Keeps(o)
  PROVE  Kept(Append(c, o))
<1>1. /\ Len(c) \in Nat /\ DOMAIN c = 1 .. Len(c) /\ DOMAIN Append(c, o) = 1 .. Len(c) + 1
      /\ Append(c, o)[Len(c) + 1] = o /\ \A j \in 1..Len(c) : Append(c, o)[j] = c[j]
  BY Longer
<1>2. CASE Keeps(o)
  <2>1. Len(c) + 1 \in DOMAIN Append(c, o)
    BY <1>1
  <2> QED BY <1>1, <1>2, <2>1 DEF Kept
<1>3. CASE Kept(c)
  <2>1. PICK i \in 1 .. Len(c) : Keeps(c[i])
    BY <1>1, <1>3 DEF Kept
  <2>2. i \in DOMAIN Append(c, o) /\ Append(c, o)[i] = c[i]
    BY <1>1
  <2> QED BY <2>1, <2>2 DEF Kept
<1> QED BY <1>2, <1>3

LEMMA KeptTail ==
  ASSUME NEW c \in Seq(Operations), c # <<>>, Kept(c), ~Keeps(Head(c))
  PROVE  Kept(Tail(c))
<1>1. /\ Len(c) \in Nat \ {0} /\ DOMAIN c = 1 .. Len(c) /\ DOMAIN Tail(c) = 1 .. Len(c) - 1
      /\ Head(c) = c[1] /\ \A j \in 1..(Len(c) - 1) : Tail(c)[j] = c[j + 1]
  BY Shorter
<1>2. PICK i \in 1 .. Len(c) : Keeps(c[i])
  BY <1>1 DEF Kept
<1>3. i # 1
  BY <1>1, <1>2
<1>4. i - 1 \in DOMAIN Tail(c) /\ Tail(c)[i - 1] = c[i]
  BY <1>1, <1>3
<1> QED BY <1>2, <1>4 DEF Kept

(* The steps on a chain and on a wire, page by page.                       *)
LEMMA AskTyped ==
  ASSUME QueuesTyped, NEW p \in Pages, NEW o \in Operations, Ask(p, o)
  PROVE  /\ chain' \in [Pages -> Seq(Operations)] /\ chain'[p] = Append(chain[p], o)
         /\ \A q \in Pages : q # p => chain'[q] = chain[q]
<1>1. chain[p] \in Seq(Operations) /\ Append(chain[p], o) \in Seq(Operations)
  BY Heads, Longer
<1> QED BY <1>1 DEF Ask, QueuesTyped

LEMMA DoneTyped ==
  ASSUME QueuesTyped, NEW p \in Pages, chain[p] # <<>>, Done(p)
  PROVE  /\ chain' \in [Pages -> Seq(Operations)] /\ chain'[p] = Tail(chain[p])
         /\ \A q \in Pages : q # p => chain'[q] = chain[q]
<1>1. Tail(chain[p]) \in Seq(Operations)
  BY Heads
<1> QED BY <1>1 DEF Done, QueuesTyped

LEMMA DoneThenTyped ==
  ASSUME QueuesTyped, NEW p \in Pages, NEW o \in Operations, chain[p] # <<>>, DoneThen(p, o)
  PROVE  /\ chain' \in [Pages -> Seq(Operations)] /\ chain'[p] = Append(Tail(chain[p]), o)
         /\ \A q \in Pages : q # p => chain'[q] = chain[q]
<1>1. Tail(chain[p]) \in Seq(Operations) /\ Append(Tail(chain[p]), o) \in Seq(Operations)
  BY Heads, Longer
<1> QED BY <1>1 DEF DoneThen, QueuesTyped

LEMMA PostTyped ==
  ASSUME QueuesTyped, NEW p \in Pages, NEW s, wire[Other(p)] \o s \in Seq(Signals), Post(p, s)
  PROVE  /\ wire' \in [Pages -> Seq(Signals)] /\ wire'[Other(p)] = wire[Other(p)] \o s
         /\ \A q \in Pages : q # Other(p) => wire'[q] = wire[q]
BY PagesTyped DEF Post, QueuesTyped

LEMMA WireTaken ==
  ASSUME QueuesTyped, NEW p \in Pages, wire[p] # <<>>, wire' = [wire EXCEPT ![p] = Tail(@)]
  PROVE  /\ wire' \in [Pages -> Seq(Signals)] /\ wire'[p] = Tail(wire[p])
         /\ \A q \in Pages : q # p => wire'[q] = wire[q]
<1>1. Tail(wire[p]) \in Seq(Signals)
  BY Heads
<1> QED BY <1>1 DEF QueuesTyped

(* What a step does to the set S of the places in the queue c that hold    *)
(* one kind of element: T are the places in the queue d after it.  The     *)
(* first element went; an element came at the end; or both.                *)
Dropped(S, c, T, d, first) ==
  /\ \A i \in T : i + 1 \in S /\ i \in Nat /\ d[i] = c[i + 1]
  /\ Single(S) => Single(T)
  /\ ~first => (T = {} <=> S = {})
  /\ first /\ Single(S) => T = {}
  /\ \A i \in S : i = 1 \/ i - 1 \in T

Added(S, c, T, d, last) ==
  /\ \A i \in T : (i \in S /\ i < Len(c) + 1 /\ d[i] = c[i]) \/ (last /\ i = Len(c) + 1)
  /\ \A i \in S : i \in T
  /\ last => Len(c) + 1 \in T
  /\ ~last => T = S
  /\ Single(S) /\ (last => S = {}) => Single(T)

Replaced(S, c, T, d, first, last) ==
  /\ \A i \in T :
       (i + 1 \in S /\ i \in Nat /\ i < Len(c) /\ d[i] = c[i + 1]) \/ (last /\ i = Len(c))
  /\ last => Len(c) \in T
  /\ ~last /\ ~first => (T = {} <=> S = {})
  /\ ~last /\ first /\ Single(S) => T = {}
  /\ Single(S) /\ (last => first \/ S = {}) => Single(T)

(* The set of places after each kind of step.                              *)
LEMMA DroppedShift ==
  ASSUME NEW Q, NEW c \in Seq(Q), c # <<>>, NEW S \in SUBSET (1 .. Len(c)), NEW first \in BOOLEAN,
         1 \in S <=> first
  PROVE  Dropped(S, c, Shift(S, Len(c)), Tail(c), first)
<1>1. Len(c) \in Nat \ {0} /\ \A j \in 1..(Len(c) - 1) : Tail(c)[j] = c[j + 1]
  BY Shorter
<1>2. \A i \in Shift(S, Len(c)) : i + 1 \in S /\ i \in Nat /\ i \in 1 .. Len(c) - 1
  BY <1>1 DEF Shift
<1>3. ASSUME NEW i \in Shift(S, Len(c)) PROVE i + 1 \in S /\ i \in Nat /\ Tail(c)[i] = c[i + 1]
  BY <1>1, <1>2
<1>4. \A i \in S : i = 1 \/ i - 1 \in Shift(S, Len(c))
  BY <1>1 DEF Shift
<1> QED BY <1>1, <1>3, <1>4, ShiftFacts DEF Dropped

LEMMA AddedOne ==
  ASSUME NEW Q, NEW c \in Seq(Q), NEW o \in Q, NEW S \in SUBSET (1 .. Len(c)), NEW last \in BOOLEAN
  PROVE  Added(S, c, S \union (IF last THEN {Len(c) + 1} ELSE {}), Append(c, o), last)
<1>1. Len(c) \in Nat /\ \A j \in 1..Len(c) : Append(c, o)[j] = c[j]
  BY Longer
<1>2. \A i \in S : i < Len(c) + 1 /\ Append(c, o)[i] = c[i]
  BY <1>1
<1>3. CASE last
  BY <1>1, <1>2, <1>3 DEF Added, Single
<1>4. CASE ~last
  BY <1>1, <1>2, <1>4 DEF Added, Single
<1> QED BY <1>3, <1>4

LEMMA ReplacedBoth ==
  ASSUME NEW Q, NEW c \in Seq(Q), c # <<>>, NEW o \in Q, NEW S \in SUBSET (1 .. Len(c)),
         NEW first \in BOOLEAN, 1 \in S <=> first, NEW last \in BOOLEAN
  PROVE  Replaced(S, c, Shift(S, Len(c)) \union (IF last THEN {Len(c)} ELSE {}), Append(Tail(c), o),
                  first, last)
<1> DEFINE t == Tail(c)
           T == Shift(S, Len(c))
           U == T \union (IF last THEN {Len(c)} ELSE {})
<1>1. Len(c) \in Nat \ {0} /\ t \in Seq(Q) /\ Len(t) = Len(c) - 1 /\ Len(t) + 1 = Len(c)
  BY Shorter
<1>2. Dropped(S, c, T, t, first)
  BY DroppedShift
<1>3. T \in SUBSET (1 .. Len(t))
  BY <1>1, ShiftFacts
<1> HIDE DEF t, T
<1>4. Added(T, t, T \union (IF last THEN {Len(t) + 1} ELSE {}), Append(t, o), last)
  BY <1>1, <1>3, AddedOne
<1>5. Added(T, t, U, Append(t, o), last)
  BY <1>1, <1>4
<1> HIDE DEF U
<1>6. \A i \in U :
        (i + 1 \in S /\ i \in Nat /\ i < Len(c) /\ Append(t, o)[i] = c[i + 1])
          \/ (last /\ i = Len(c))
  BY <1>1, <1>2, <1>3, <1>5 DEF Dropped, Added
<1>7. last => Len(c) \in U
  BY <1>1, <1>5 DEF Added
<1>8. Single(S) /\ (last => first \/ S = {}) => Single(U)
  <2>1. S = {} => T = {}
    BY <1>2 DEF Dropped
  <2> QED BY <1>2, <1>5, <2>1 DEF Dropped, Added
<1>9. /\ ~last /\ ~first => (U = {} <=> S = {})
      /\ ~last /\ first /\ Single(S) => U = {}
  BY <1>2, <1>5 DEF Dropped, Added
<1>10. Replaced(S, c, U, Append(t, o), first, last)
  BY <1>6, <1>7, <1>8, <1>9 DEF Replaced
<1> QED BY <1>10 DEF U, T, t

(* The kinds of operations are Boolean, which the provers must be told.    *)
Booleans(o) ==
  /\ Makes(o) \in BOOLEAN /\ Takes(o) \in BOOLEAN
  /\ Ends(o) \in BOOLEAN /\ Queued(o) \in BOOLEAN

LEMMA BooleansHold == \A o : Booleans(o)
BY DEF Booleans, Makes, Takes, Ends, Queued, Answers

(* The same for the four kinds of operations in a chain and the two kinds  *)
(* of descriptions on a wire.                                              *)
LEMMA DoneEffect ==
  ASSUME QueuesTyped, NEW p \in Pages, chain[p] # <<>>, Done(p)
  PROVE  /\ chain' \in [Pages -> Seq(Operations)] /\ chain'[p] = Tail(chain[p])
         /\ \A q \in Pages : q # p => chain'[q] = chain[q]
         /\ Dropped(Making(chain[p]), chain[p], Making(chain'[p]), chain'[p], Makes(Head(chain[p])))
         /\ Dropped(Taking(chain[p]), chain[p], Taking(chain'[p]), chain'[p], Takes(Head(chain[p])))
         /\ Dropped(Ending(chain[p]), chain[p], Ending(chain'[p]), chain'[p], Ends(Head(chain[p])))
         /\ Dropped(Queueing(chain[p]), chain[p], Queueing(chain'[p]),
                    chain'[p], Queued(Head(chain[p])))
<1>1. /\ chain' \in [Pages -> Seq(Operations)] /\ chain'[p] = Tail(chain[p])
      /\ \A q \in Pages : q # p => chain'[q] = chain[q]
  BY DoneTyped
<1>2. PICK c \in Seq(Operations) : c = chain[p]
  BY Heads
<1>3. c # <<>> /\ chain'[p] = Tail(c)
  BY <1>1, <1>2
<1>4. /\ Making(c) \in SUBSET (1 .. Len(c)) /\ Taking(c) \in SUBSET (1 .. Len(c))
      /\ Ending(c) \in SUBSET (1 .. Len(c))
      /\ Queueing(c) \in SUBSET (1 .. Len(c))
  BY Subsets
<1>5. /\ Dropped(Making(c), c, Making(Tail(c)), Tail(c), Makes(Head(c)))
      /\ Dropped(Taking(c), c, Taking(Tail(c)), Tail(c), Takes(Head(c)))
      /\ Dropped(Ending(c), c, Ending(Tail(c)), Tail(c), Ends(Head(c)))
      /\ Dropped(Queueing(c), c, Queueing(Tail(c)), Tail(c), Queued(Head(c)))
  BY <1>3, <1>4, ChainTail, DroppedShift, BooleansHold DEF Booleans
<1> QED BY <1>1, <1>2, <1>3, <1>5

LEMMA DoneThenEffect ==
  ASSUME QueuesTyped, NEW p \in Pages, chain[p] # <<>>, NEW o \in Operations, DoneThen(p, o)
  PROVE  /\ chain' \in [Pages -> Seq(Operations)] /\ chain'[p] = Append(Tail(chain[p]), o)
         /\ \A q \in Pages : q # p => chain'[q] = chain[q]
         /\ Len(chain[p]) \in Nat /\ chain'[p][Len(chain[p])] = o
         /\ Replaced(Making(chain[p]), chain[p], Making(chain'[p]), chain'[p],
                     Makes(Head(chain[p])), Makes(o))
         /\ Replaced(Taking(chain[p]), chain[p], Taking(chain'[p]), chain'[p],
                     Takes(Head(chain[p])), Takes(o))
         /\ Replaced(Ending(chain[p]), chain[p], Ending(chain'[p]), chain'[p],
                     Ends(Head(chain[p])), Ends(o))
         /\ Replaced(Queueing(chain[p]), chain[p], Queueing(chain'[p]), chain'[p],
                     Queued(Head(chain[p])), Queued(o))
<1>1. /\ chain' \in [Pages -> Seq(Operations)] /\ chain'[p] = Append(Tail(chain[p]), o)
      /\ \A q \in Pages : q # p => chain'[q] = chain[q]
  BY DoneThenTyped
<1>2. PICK c \in Seq(Operations) : c = chain[p]
  BY Heads
<1>3. /\ c # <<>> /\ chain'[p] = Append(Tail(c), o) /\ Len(c) \in Nat \ {0}
      /\ Tail(c) \in Seq(Operations) /\ Len(Tail(c)) + 1 = Len(c)
      /\ Append(Tail(c), o)[Len(c)] = o
  <2>1. c # <<>> /\ Len(c) \in Nat \ {0} /\ Tail(c) \in Seq(Operations) /\ Len(Tail(c)) = Len(c) - 1
    BY <1>2, Shorter
  <2>2. Append(Tail(c), o)[Len(Tail(c)) + 1] = o
    BY <2>1, Longer
  <2> QED BY <1>1, <1>2, <2>1, <2>2
<1>4. /\ Making(c) \in SUBSET (1 .. Len(c)) /\ Taking(c) \in SUBSET (1 .. Len(c))
      /\ Ending(c) \in SUBSET (1 .. Len(c))
      /\ Queueing(c) \in SUBSET (1 .. Len(c))
  BY Subsets
<1> DEFINE d == Append(Tail(c), o)
<1>5. /\ Making(d) = Shift(Making(c), Len(c)) \union (IF Makes(o) THEN {Len(c)} ELSE {})
      /\ Taking(d) = Shift(Taking(c), Len(c)) \union (IF Takes(o) THEN {Len(c)} ELSE {})
      /\ Ending(d) = Shift(Ending(c), Len(c)) \union (IF Ends(o) THEN {Len(c)} ELSE {})
      /\ Queueing(d) = Shift(Queueing(c), Len(c)) \union (IF Queued(o) THEN {Len(c)} ELSE {})
  <2>1. /\ Making(d) = Making(Tail(c)) \union (IF Makes(o) THEN {Len(c)} ELSE {})
        /\ Taking(d) = Taking(Tail(c)) \union (IF Takes(o) THEN {Len(c)} ELSE {})
        /\ Ending(d) = Ending(Tail(c)) \union (IF Ends(o) THEN {Len(c)} ELSE {})
        /\ Queueing(d) = Queueing(Tail(c)) \union (IF Queued(o) THEN {Len(c)} ELSE {})
    BY <1>3, ChainAppend
  <2> HIDE DEF d
  <2> QED BY <1>3, <2>1, ChainTail
<1>6. /\ Replaced(Making(c), c, Making(d), d, Makes(Head(c)), Makes(o))
      /\ Replaced(Taking(c), c, Taking(d), d, Takes(Head(c)), Takes(o))
      /\ Replaced(Ending(c), c, Ending(d), d, Ends(Head(c)), Ends(o))
      /\ Replaced(Queueing(c), c, Queueing(d), d, Queued(Head(c)), Queued(o))
  <2>1. /\ Makes(Head(c)) \in BOOLEAN /\ Takes(Head(c)) \in BOOLEAN /\ Ends(Head(c)) \in BOOLEAN
        /\ Queued(Head(c)) \in BOOLEAN
        /\ Makes(o) \in BOOLEAN /\ Takes(o) \in BOOLEAN /\ Ends(o) \in BOOLEAN
        /\ Queued(o) \in BOOLEAN
    BY BooleansHold DEF Booleans
  <2>2. Replaced(Making(c), c, Making(d), d, Makes(Head(c)), Makes(o))
    BY <1>3, <1>4, <1>5, <2>1, ChainTail, ReplacedBoth
  <2>3. Replaced(Taking(c), c, Taking(d), d, Takes(Head(c)), Takes(o))
    BY <1>3, <1>4, <1>5, <2>1, ChainTail, ReplacedBoth
  <2>4. Replaced(Ending(c), c, Ending(d), d, Ends(Head(c)), Ends(o))
    BY <1>3, <1>4, <1>5, <2>1, ChainTail, ReplacedBoth
  <2>5. Replaced(Queueing(c), c, Queueing(d), d, Queued(Head(c)), Queued(o))
    BY <1>3, <1>4, <1>5, <2>1, ChainTail, ReplacedBoth
  <2> QED BY <2>2, <2>3, <2>4, <2>5
<1> QED BY <1>1, <1>2, <1>3, <1>6

LEMMA AskEffect ==
  ASSUME QueuesTyped, NEW p \in Pages, NEW o \in Operations, Ask(p, o)
  PROVE  /\ chain' \in [Pages -> Seq(Operations)] /\ chain'[p] = Append(chain[p], o)
         /\ \A q \in Pages : q # p => chain'[q] = chain[q]
         /\ Len(chain[p]) \in Nat /\ chain'[p][Len(chain[p]) + 1] = o
         /\ Added(Making(chain[p]), chain[p], Making(chain'[p]), chain'[p], Makes(o))
         /\ Added(Taking(chain[p]), chain[p], Taking(chain'[p]), chain'[p], Takes(o))
         /\ Added(Ending(chain[p]), chain[p], Ending(chain'[p]), chain'[p], Ends(o))
         /\ Added(Queueing(chain[p]), chain[p], Queueing(chain'[p]), chain'[p], Queued(o))
<1>1. /\ chain' \in [Pages -> Seq(Operations)] /\ chain'[p] = Append(chain[p], o)
      /\ \A q \in Pages : q # p => chain'[q] = chain[q]
  BY AskTyped
<1>2. PICK c \in Seq(Operations) : c = chain[p]
  BY Heads
<1>3. chain'[p] = Append(c, o) /\ Len(c) \in Nat /\ Append(c, o)[Len(c) + 1] = o
  BY <1>1, <1>2, Longer
<1>4. /\ Making(c) \in SUBSET (1 .. Len(c)) /\ Taking(c) \in SUBSET (1 .. Len(c))
      /\ Ending(c) \in SUBSET (1 .. Len(c))
      /\ Queueing(c) \in SUBSET (1 .. Len(c))
  BY Subsets
<1>5. /\ Added(Making(c), c, Making(Append(c, o)), Append(c, o), Makes(o))
      /\ Added(Taking(c), c, Taking(Append(c, o)), Append(c, o), Takes(o))
      /\ Added(Ending(c), c, Ending(Append(c, o)), Append(c, o), Ends(o))
      /\ Added(Queueing(c), c, Queueing(Append(c, o)), Append(c, o), Queued(o))
  <2>1. Makes(o) \in BOOLEAN /\ Takes(o) \in BOOLEAN /\ Ends(o) \in BOOLEAN /\ Queued(o) \in BOOLEAN
    BY BooleansHold DEF Booleans
  <2> QED BY <1>4, <2>1, ChainAppend, AddedOne
<1> QED BY <1>1, <1>2, <1>3, <1>5

LEMMA TakenEffect ==
  ASSUME QueuesTyped, NEW p \in Pages, wire[p] # <<>>, wire' = [wire EXCEPT ![p] = Tail(@)]
  PROVE  /\ wire' \in [Pages -> Seq(Signals)] /\ wire'[p] = Tail(wire[p])
         /\ \A q \in Pages : q # p => wire'[q] = wire[q]
         /\ Len(wire[p]) \in Nat \ {0} /\ Head(wire[p]) = wire[p][1] /\ Head(wire[p]) \in Signals
         /\ DOMAIN wire[p] = 1 .. Len(wire[p]) /\ DOMAIN wire'[p] = 1 .. Len(wire[p]) - 1
         /\ \A j \in 1 .. Len(wire[p]) - 1 : wire'[p][j] = wire[p][j + 1]
         /\ Dropped(Offering(wire[p]), wire[p], Offering(wire'[p]),
                    wire'[p], Head(wire[p]).type = "offer")
         /\ Dropped(Answering(wire[p]), wire[p], Answering(wire'[p]),
                    wire'[p], Head(wire[p]).type = "answer")
<1>1. /\ wire' \in [Pages -> Seq(Signals)] /\ wire'[p] = Tail(wire[p])
      /\ \A q \in Pages : q # p => wire'[q] = wire[q]
  BY WireTaken
<1>2. PICK w \in Seq(Signals) : w = wire[p]
  BY Heads
<1>3. w # <<>> /\ wire'[p] = Tail(w)
  BY <1>1, <1>2
<1>4. Offering(w) \in SUBSET (1 .. Len(w)) /\ Answering(w) \in SUBSET (1 .. Len(w))
  BY Subsets
<1>5. /\ Dropped(Offering(w), w, Offering(Tail(w)), Tail(w), Head(w).type = "offer")
      /\ Dropped(Answering(w), w, Answering(Tail(w)), Tail(w), Head(w).type = "answer")
  BY <1>3, <1>4, WireTail, DroppedShift
<1>6. /\ Len(w) \in Nat \ {0} /\ Head(w) = w[1] /\ Head(w) \in Signals
      /\ DOMAIN w = 1 .. Len(w) /\ DOMAIN Tail(w) = 1 .. Len(w) - 1
      /\ \A j \in 1 .. Len(w) - 1 : Tail(w)[j] = w[j + 1]
  BY <1>3, Shorter
<1> QED BY <1>1, <1>2, <1>3, <1>5, <1>6

(* The places on a wire are indices of it.                                 *)
LEMMA WireParts ==
  ASSUME NEW w \in Seq(Signals)
  PROVE  /\ Len(w) \in Nat /\ DOMAIN w = 1 .. Len(w)
         /\ Offering(w) \in SUBSET (1 .. Len(w)) /\ Answering(w) \in SUBSET (1 .. Len(w))
BY Subsets

(* Sending an offer or an answer, as a step of the wires.                  *)
LEMMA OfferSentEffect ==
  ASSUME QueuesTyped, NEW p \in Pages, NEW f \in Offers, NEW t \in Versions, t = f.tracks,
         Post(p, <<[type |-> "offer", offer |-> f, tracks |-> t],
                   [type |-> "candidate", offer |-> f]>>),
         NEW q, q = Other(p)
  PROVE  /\ wire' \in [Pages -> Seq(Signals)] /\ wire'[p] = wire[p]
         /\ wire[q] \in Seq(Signals)
         /\ OfferOn(wire[q], wire'[q], [type |-> "offer", offer |-> f, tracks |-> t])
<1>1. q \in Pages /\ q # p
  BY PagesTyped
<1>2. PICK w \in Seq(Signals) : w = wire[q]
  BY <1>1, Heads
<1>3. PICK m \in Signals : m = [type |-> "offer", offer |-> f, tracks |-> t]
  BY NewSignals
<1>4. PICK c \in Signals : c = [type |-> "candidate", offer |-> f]
  BY NewSignals
<1>5. m.type = "offer" /\ c.type = "candidate"
  BY <1>3, <1>4
<1>6. PICK v : v = Append(Append(w, m), c)
  OBVIOUS
<1>7. v = w \o <<m, c>>
  BY <1>6
<1>8. OfferOn(w, v, m)
  BY <1>5, <1>6, OfferPosted
<1>9. v \in Seq(Signals)
  BY <1>8 DEF OfferOn
<1>10. wire' \in [Pages -> Seq(Signals)] /\ wire'[q] = v /\ wire'[p] = wire[p]
  BY <1>1, <1>2, <1>3, <1>4, <1>7, <1>9, PostTyped, PagesTyped
<1> QED BY <1>2, <1>3, <1>8, <1>10

LEMMA AnswerSentEffect ==
  ASSUME QueuesTyped, NEW p \in Pages, NEW f \in Offers, NEW t \in Versions,
         Post(p, <<[type |-> "answer", offer |-> f, tracks |-> t]>>),
         NEW q, q = Other(p)
  PROVE  /\ wire' \in [Pages -> Seq(Signals)] /\ wire'[p] = wire[p]
         /\ wire[q] \in Seq(Signals)
         /\ AnswerOn(wire[q], wire'[q], [type |-> "answer", offer |-> f, tracks |-> t])
<1>1. q \in Pages /\ q # p
  BY PagesTyped
<1>2. PICK w \in Seq(Signals) : w = wire[q]
  BY <1>1, Heads
<1>3. PICK m \in Signals : m = [type |-> "answer", offer |-> f, tracks |-> t]
  BY NewSignals
<1>4. m.type = "answer"
  BY <1>3
<1>5. PICK v : v = Append(w, m)
  OBVIOUS
<1>6. v = w \o <<m>>
  BY <1>5
<1>7. AnswerOn(w, v, m)
  BY <1>4, <1>5, AnswerPosted
<1>8. v \in Seq(Signals)
  BY <1>7 DEF AnswerOn
<1>9. wire' \in [Pages -> Seq(Signals)] /\ wire'[q] = v /\ wire'[p] = wire[p]
  BY <1>1, <1>2, <1>3, <1>6, <1>8, PostTyped, PagesTyped
<1> QED BY <1>2, <1>3, <1>7, <1>9

(* The operation that clears makingOffer stays in the chain until it runs. *)
LEMMA KeptIs == MakingTyped <=> \A p \in Pages : making[p] => Kept(chain[p])
BY DEF MakingTyped, Kept, Keeps

LEMMA AskKeeps ==
  ASSUME QueuesTyped, MakingTyped, NEW p \in Pages, NEW o \in Operations, Ask(p, o), UNCHANGED wire,
         UNCHANGED making \/ (Keeps(o) /\ \A q \in Pages : q # p => making'[q] = making[q])
  PROVE  QueuesTyped' /\ MakingTyped'
<1>1. /\ chain' \in [Pages -> Seq(Operations)] /\ chain'[p] = Append(chain[p], o)
      /\ \A q \in Pages : q # p => chain'[q] = chain[q]
  BY AskTyped
<1>2. \A q \in Pages : making[q] => Kept(chain[q])
  BY KeptIs
<1>3. making'[p] => Kept(chain'[p])
  <2>1. chain[p] \in Seq(Operations)
    BY DEF QueuesTyped
  <2> QED BY <1>1, <1>2, <2>1, KeptAppend
<1>4. \A q \in Pages : making'[q] => Kept(chain'[q])
  BY <1>1, <1>2, <1>3
<1> QED BY <1>1, <1>4 DEF QueuesTyped, MakingTyped, Kept, Keeps

LEMMA DoneKeeps ==
  ASSUME QueuesTyped, MakingTyped, NEW p \in Pages, chain[p] # <<>>,
         \/ Done(p) /\ (Keeps(Head(chain[p])) => ~making'[p])
         \/ \E o \in Operations :
              DoneThen(p, o) /\ (Keeps(Head(chain[p])) => ~making'[p] \/ Keeps(o)),
         making'[p] => making[p], \A q \in Pages : q # p => making'[q] = making[q]
  PROVE  chain' \in [Pages -> Seq(Operations)] /\ MakingTyped'
<1>1. \A q \in Pages : making[q] => Kept(chain[q])
  BY KeptIs
<1>2. chain[p] \in Seq(Operations) /\ Tail(chain[p]) \in Seq(Operations)
  BY Heads
<1>3. CASE Done(p) /\ (Keeps(Head(chain[p])) => ~making'[p])
  <2>1. /\ chain' \in [Pages -> Seq(Operations)] /\ chain'[p] = Tail(chain[p])
        /\ \A q \in Pages : q # p => chain'[q] = chain[q]
    BY <1>3, DoneTyped
  <2>2. making'[p] => Kept(chain'[p])
    BY <1>1, <1>2, <1>3, <2>1, KeptTail
  <2>3. \A q \in Pages : making'[q] => Kept(chain'[q])
    BY <1>1, <2>1, <2>2
  <2> QED BY <2>1, <2>3 DEF MakingTyped, Kept, Keeps
<1>4. ASSUME NEW o \in Operations, DoneThen(p, o), Keeps(Head(chain[p])) => ~making'[p] \/ Keeps(o)
      PROVE  chain' \in [Pages -> Seq(Operations)] /\ MakingTyped'
  <2>1. /\ chain' \in [Pages -> Seq(Operations)] /\ chain'[p] = Append(Tail(chain[p]), o)
        /\ \A q \in Pages : q # p => chain'[q] = chain[q]
    BY <1>4, DoneThenTyped
  <2>2. making'[p] => Kept(chain'[p])
    <3>1. Keeps(Head(chain[p])) \/ ~making'[p] \/ Kept(Tail(chain[p]))
      BY <1>1, <1>2, KeptTail
    <3> QED BY <1>2, <1>4, <2>1, <3>1, KeptAppend
  <2>3. \A q \in Pages : making'[q] => Kept(chain'[q])
    BY <1>1, <2>1, <2>2
  <2> QED BY <2>1, <2>3 DEF MakingTyped, Kept, Keeps
<1> QED BY <1>3, <1>4

(* Every step keeps the queues typed, and makingOffer set only with an     *)
(* operation in the chain that clears it: NegotiationNeeded sets it with   *)
(* such an operation, CreateOffer replaces that one by the next, and       *)
(* SetLocalOffer ends in the finally.                                      *)
LEMMA QueueStep ==
  ASSUME ConnectionTyped, OtherTyped, QueuesTyped, MakingTyped, [NegotiationNext]_negotiationVars
  PROVE  QueuesTyped' /\ MakingTyped'
<1>1. ASSUME NEW p \in Pages, NegotiationNeeded(p) PROVE QueuesTyped' /\ MakingTyped'
  <2> DEFINE o == [op |-> "createOffer", by |-> "needed", n |-> offers[p] + 1]
  <2>1. o \in Operations /\ Keeps(o)
    <3>1. offers[p] + 1 \in 1 .. MaxOffers
      BY <1>1, Bounds DEF NegotiationNeeded, ConnectionTyped
    <3> QED BY <3>1, NewOperations DEF Keeps
  <2> HIDE DEF o
  <2>2. Ask(p, o) /\ UNCHANGED wire /\ \A q \in Pages : q # p => making'[q] = making[q]
    BY <1>1 DEF NegotiationNeeded, OtherTyped, o
  <2> QED BY <2>1, <2>2, AskKeeps
<1>2. ASSUME NEW p \in Pages, AttemptIceRestart(p) PROVE QueuesTyped' /\ MakingTyped'
  <2> DEFINE o == [op |-> "createOffer", by |-> "restart", n |-> offers[p] + 1]
  <2>1. o \in Operations
    <3>1. offers[p] + 1 \in 1 .. MaxOffers
      BY <1>2, Bounds DEF AttemptIceRestart, ConnectionTyped
    <3> QED BY <3>1, NewOperations
  <2> HIDE DEF o
  <2>2. Ask(p, o) /\ UNCHANGED wire /\ UNCHANGED making
    BY <1>2 DEF AttemptIceRestart, o
  <2> QED BY <2>1, <2>2, AskKeeps
<1>3. ASSUME NEW p \in Pages, ChangeTracks(p) PROVE QueuesTyped' /\ MakingTyped'
  BY <1>3 DEF ChangeTracks, QueuesTyped, MakingTyped
<1>4. ASSUME UNCHANGED negotiationVars PROVE QueuesTyped' /\ MakingTyped'
  BY <1>4 DEF negotiationVars, QueuesTyped, MakingTyped
<1>5. ASSUME NEW p \in Pages, HandleSignal(p) PROVE QueuesTyped' /\ MakingTyped'
  <2> DEFINE m == Head(wire[p])
  <2>1. /\ wire[p] # <<>> /\ wire' \in [Pages -> Seq(Signals)] /\ UNCHANGED making /\ m \in Signals
    BY <1>5, WireTaken, Heads DEF HandleSignal
  <2>2. \/ UNCHANGED chain
        \/ m.type \in {"offer", "answer"} /\ Ask(p, [op |-> "setRemote", signal |-> m])
        \/ m.type = "offer" /\ Ask(p, [op |-> "rollback", signal |-> m])
    BY <1>5 DEF HandleSignal, TakeOffer, TakeAnswer, TakeCandidate
  <2>3. ASSUME NEW o \in Operations, Ask(p, o) PROVE QueuesTyped' /\ MakingTyped'
    <3>1. chain' \in [Pages -> Seq(Operations)] /\ chain'[p] = Append(chain[p], o)
          /\ \A q \in Pages : q # p => chain'[q] = chain[q]
      BY <2>3, AskTyped
    <3>2. \A q \in Pages : making[q] => Kept(chain[q])
      BY KeptIs
    <3>3. making'[p] => Kept(chain'[p])
      <4>1. chain[p] \in Seq(Operations)
        BY DEF QueuesTyped
      <4> QED BY <2>1, <3>1, <3>2, <4>1, KeptAppend
    <3>4. \A q \in Pages : making'[q] => Kept(chain'[q])
      BY <2>1, <3>1, <3>2, <3>3
    <3> QED BY <2>1, <3>1, <3>4 DEF QueuesTyped, MakingTyped, Kept, Keeps
  <2>4. CASE UNCHANGED chain
    BY <2>1, <2>4 DEF QueuesTyped, MakingTyped
  <2>5. m.type \in {"offer", "answer"} => [op |-> "setRemote", signal |-> m] \in Operations
    BY <2>1, SignalParts, NewOperations
  <2>6. m.type = "offer" => [op |-> "rollback", signal |-> m] \in Operations
    <3>1. m.type = "offer" => m \in Descriptions({"offer"})
      BY <2>1, SignalParts, SomeOffers
    <3> QED BY <3>1, NewOperations
  <2> HIDE DEF m
  <2> QED BY <2>2, <2>3, <2>4, <2>5, <2>6
<1>6. ASSUME NEW p \in Pages, Operate(p) PROVE QueuesTyped' /\ MakingTyped'
  <2> DEFINE o == Head(chain[p])
  <2>1. o \in Operations /\ chain[p] # <<>>
    BY <1>6, Heads DEF Operate
  <2>2. ASSUME o.op = "createOffer", CreateOffer(p, o) PROVE QueuesTyped' /\ MakingTyped'
    <3> DEFINE x == [op |-> "setLocalOffer", by |-> o.by, n |-> o.n, tracks |-> tracks[p]]
    <3>1. x \in Operations /\ (Keeps(o) => Keeps(x))
      <4>1. o.by \in {"needed", "restart"} /\ o.n \in 1 .. MaxOffers /\ tracks[p] \in Versions
        BY <2>1, <2>2, OperationParts DEF OtherTyped
      <4> QED BY <4>1, NewOperations DEF Keeps
    <3>2. CASE DoneThen(p, x) /\ UNCHANGED making
      <4>1. UNCHANGED <<making, wire>> /\ DoneThen(p, x)
        BY <2>2, <3>2 DEF CreateOffer
      <4> HIDE DEF x
      <4>2. \E y \in Operations : DoneThen(p, y) /\ (Keeps(o) => ~making'[p] \/ Keeps(y))
        BY <3>1, <4>1
      <4> QED BY <2>1, <4>1, <4>2, DoneKeeps DEF QueuesTyped
    <3>3. CASE Done(p) /\ OfferEnds(p, o.by)
      BY <2>1, <2>2, <3>3, DoneKeeps DEF CreateOffer, OfferEnds, Keeps, OtherTyped, QueuesTyped
    <3> QED BY <2>2, <3>2, <3>3 DEF CreateOffer
  <2>3. ASSUME o.op = "setLocalOffer", SetLocalOffer(p, o) PROVE QueuesTyped' /\ MakingTyped'
    <3> DEFINE f == [from |-> p, n |-> o.n, tracks |-> o.tracks]
    <3>1. f \in Offers /\ o.tracks \in Versions /\ o.tracks = f.tracks
      <4>1. o.n \in 1 .. MaxOffers /\ o.tracks \in Versions
        BY <2>1, <2>3, OperationParts
      <4> QED BY <4>1, Bounds DEF Offers
    <3>2. wire' \in [Pages -> Seq(Signals)]
      <4>1. \/ UNCHANGED wire
            \/ Post(p, <<[type |-> "offer", offer |-> f, tracks |-> o.tracks],
                         [type |-> "candidate", offer |-> f]>>)
        BY <2>3 DEF SetLocalOffer
      <4> HIDE DEF f
      <4>2. Other(p) = Other(p)
        OBVIOUS
      <4> QED BY <3>1, <4>1, <4>2, OfferSentEffect DEF QueuesTyped
    <3>3. chain' \in [Pages -> Seq(Operations)] /\ MakingTyped'
      BY <2>1, <2>3, DoneKeeps DEF SetLocalOffer, OfferEnds, Keeps, OtherTyped
    <3> QED BY <3>2, <3>3 DEF QueuesTyped
  <2>4. ASSUME o.op = "rollback", Rollback(p, o) PROVE QueuesTyped' /\ MakingTyped'
    <3> DEFINE x == [op |-> "setRemote", signal |-> o.signal]
    <3>1. x \in Operations /\ ~Keeps(o)
      <4>1. o.signal \in Descriptions({"offer", "answer"})
        BY <2>1, <2>4, OperationParts, MoreTypes
      <4> QED BY <2>4, <4>1, NewOperations DEF Keeps
    <3>2. (Done(p) \/ DoneThen(p, x)) /\ UNCHANGED <<making, wire>>
      BY <2>4 DEF Rollback
    <3> HIDE DEF x
    <3> QED BY <2>1, <3>1, <3>2, DoneKeeps DEF QueuesTyped
  <2>5. ASSUME o.op \in {"setRemote", "addQueued"}, SetRemote(p, o) \/ AddQueued(p, o)
        PROVE  QueuesTyped' /\ MakingTyped'
    <3>1. o.signal \in Descriptions({"offer", "answer"}) /\ ~Keeps(o)
      BY <2>1, <2>5, OperationParts DEF Keeps
    <3>2. /\ \/ Done(p) \/ DoneThen(p, [op |-> "addQueued", signal |-> o.signal])
             \/ o.signal.type = "offer" /\ DoneThen(p, [op |-> "createAnswer", signal |-> o.signal])
          /\ UNCHANGED <<making, wire>>
      BY <2>5 DEF SetRemote, AddQueued, AfterRemote
    <3>3. [op |-> "addQueued", signal |-> o.signal] \in Operations
      BY <3>1, NewOperations
    <3>4. o.signal.type = "offer" => [op |-> "createAnswer", signal |-> o.signal] \in Operations
      <4>1. o.signal.type = "offer" => o.signal \in Descriptions({"offer"})
        BY <3>1, SomeOffers
      <4> QED BY <4>1, NewOperations
    <3> QED BY <2>1, <3>1, <3>2, <3>3, <3>4, DoneKeeps DEF QueuesTyped
  <2>6. ASSUME o.op = "createAnswer", CreateAnswer(p, o) PROVE QueuesTyped' /\ MakingTyped'
    <3> DEFINE x == [op |-> "setLocalAnswer", signal |-> o.signal, tracks |-> tracks[p]]
    <3>1. x \in Operations /\ ~Keeps(o)
      <4>1. o.signal \in Descriptions({"offer"}) /\ tracks[p] \in Versions
        BY <2>1, <2>6, OperationParts DEF OtherTyped
      <4> QED BY <2>6, <4>1, NewOperations DEF Keeps
    <3>2. (Done(p) \/ DoneThen(p, x)) /\ UNCHANGED <<making, wire>>
      BY <2>6 DEF CreateAnswer
    <3> HIDE DEF x
    <3> QED BY <2>1, <3>1, <3>2, DoneKeeps DEF QueuesTyped
  <2>7. ASSUME o.op = "setLocalAnswer", SetLocalAnswer(p, o) PROVE QueuesTyped' /\ MakingTyped'
    <3>1. o.signal.offer \in Offers /\ o.tracks \in Versions /\ ~Keeps(o)
      BY <2>1, <2>7, OperationParts, DescriptionParts DEF Keeps
    <3>2. wire' \in [Pages -> Seq(Signals)]
      <4>1. \/ UNCHANGED wire
            \/ Post(p, <<[type |-> "answer", offer |-> o.signal.offer, tracks |-> o.tracks]>>)
        BY <2>7 DEF SetLocalAnswer
      <4> QED BY <3>1, <4>1, AnswerSentEffect DEF QueuesTyped
    <3>3. chain' \in [Pages -> Seq(Operations)] /\ MakingTyped'
      BY <2>1, <2>7, <3>1, DoneKeeps DEF SetLocalAnswer
    <3> QED BY <3>2, <3>3 DEF QueuesTyped
  <2> QED BY <1>6, <2>2, <2>3, <2>4, <2>5, <2>6, <2>7 DEF Operate
<1> QED BY <1>1, <1>2, <1>3, <1>4, <1>5, <1>6 DEF NegotiationNext

(* The initial state is typed, and every step keeps it so.                 *)
LEMMA InitTyped == NegotiationInit => NegotiationTypeOK
<1> SUFFICES ASSUME NegotiationInit PROVE NegotiationTypeOK
  OBVIOUS
<1>1. ConnectionTyped
  BY VersionsTyped, NoOfferTyped DEF NegotiationInit, ConnectionTyped
<1>2. OtherTyped
  BY VersionsTyped DEF NegotiationInit, OtherTyped
<1>3. QueuesTyped
  BY DEF NegotiationInit, QueuesTyped
<1>4. MakingTyped
  BY DEF NegotiationInit, MakingTyped
<1> QED BY <1>1, <1>2, <1>3, <1>4, TypeIsParts

LEMMA TypeStep == NegotiationTypeOK /\ [NegotiationNext]_negotiationVars => NegotiationTypeOK'
<1> SUFFICES ASSUME NegotiationTypeOK, [NegotiationNext]_negotiationVars PROVE NegotiationTypeOK'
  OBVIOUS
<1>1. ConnectionTyped /\ OtherTyped /\ QueuesTyped /\ MakingTyped
  BY TypeIsParts
<1>2. ConnectionTyped' /\ OtherTyped' /\ QueuesTyped' /\ MakingTyped'
  BY <1>1, ConnectionStep, OtherStep, QueueStep
<1>3. (ConnectionTyped /\ OtherTyped /\ QueuesTyped /\ MakingTyped => NegotiationTypeOK)'
  BY TypeIsParts, PTL
<1> QED BY <1>2, <1>3

(* WebNegotiation's type invariant holds for every number of offers,       *)
(* tracks and restarts.  It says that makingOffer is never left set: a     *)
(* page whose flag is set has the operation in its chain whose finally     *)
(* clears it (onnegotiationneeded, PeerManager.ts), and a page waits for   *)
(* an answer exactly when it has an offer out.                             *)
THEOREM PagesTypeCorrect == NegotiationSpec => []NegotiationTypeOK
<1> QED BY InitTyped, TypeStep, PTL DEF NegotiationSpec

(* What a step leaves alone of a page, or of the whole page.               *)
SameState(p) ==
  /\ signaling'[p] = signaling[p] /\ offered'[p] = offered[p] /\ agreed'[p] = agreed[p]
  /\ sent'[p] = sent[p] /\ received'[p] = received[p]
SamePage(p) ==
  SameState(p) /\ making'[p] = making[p] /\ fired'[p] = fired[p] /\ chain'[p] = chain[p]

(* The first operation of a chain, and the set it is in.                   *)
First(p) ==
  /\ DOMAIN chain[p] = 1 .. Len(chain[p]) /\ Len(chain[p]) \in Nat \ {0}
  /\ Head(chain[p]) = chain[p][1]
  /\ 1 \in Making(chain[p]) <=> Makes(Head(chain[p]))
  /\ 1 \in Taking(chain[p]) <=> Takes(Head(chain[p]))
  /\ 1 \in Ending(chain[p]) <=> Ends(Head(chain[p]))
  /\ 1 \in Queueing(chain[p]) <=> Queued(Head(chain[p]))

(* The four kinds of operations in p's chain when its first operation is   *)
(* carried out, is followed by o, or when o is asked for; and the two      *)
(* kinds of descriptions on p's wire when its first signal is taken.       *)
DoneSets(p) ==
  /\ Dropped(Making(chain[p]), chain[p], Making(chain'[p]), chain'[p], Makes(Head(chain[p])))
  /\ Dropped(Taking(chain[p]), chain[p], Taking(chain'[p]), chain'[p], Takes(Head(chain[p])))
  /\ Dropped(Ending(chain[p]), chain[p], Ending(chain'[p]), chain'[p], Ends(Head(chain[p])))
  /\ Dropped(Queueing(chain[p]), chain[p], Queueing(chain'[p]), chain'[p], Queued(Head(chain[p])))

NextSets(p, o) ==
  /\ Len(chain[p]) \in Nat /\ chain'[p][Len(chain[p])] = o
  /\ Replaced(Making(chain[p]), chain[p], Making(chain'[p]), chain'[p],
              Makes(Head(chain[p])), Makes(o))
  /\ Replaced(Taking(chain[p]), chain[p], Taking(chain'[p]), chain'[p],
              Takes(Head(chain[p])), Takes(o))
  /\ Replaced(Ending(chain[p]), chain[p], Ending(chain'[p]), chain'[p],
              Ends(Head(chain[p])), Ends(o))
  /\ Replaced(Queueing(chain[p]), chain[p], Queueing(chain'[p]), chain'[p],
              Queued(Head(chain[p])), Queued(o))

AskSets(p, o) ==
  /\ Len(chain[p]) \in Nat /\ chain'[p][Len(chain[p]) + 1] = o
  /\ Added(Making(chain[p]), chain[p], Making(chain'[p]), chain'[p], Makes(o))
  /\ Added(Taking(chain[p]), chain[p], Taking(chain'[p]), chain'[p], Takes(o))
  /\ Added(Ending(chain[p]), chain[p], Ending(chain'[p]), chain'[p], Ends(o))
  /\ Added(Queueing(chain[p]), chain[p], Queueing(chain'[p]), chain'[p], Queued(o))

TakenSets(p) ==
  /\ Len(wire[p]) \in Nat \ {0} /\ Head(wire[p]) = wire[p][1]
  /\ 1 \in Offering(wire[p]) <=> Head(wire[p]).type = "offer"
  /\ 1 \in Answering(wire[p]) <=> Head(wire[p]).type = "answer"
  /\ DOMAIN wire[p] = 1 .. Len(wire[p]) /\ DOMAIN wire'[p] = 1 .. Len(wire[p]) - 1
  /\ \A j \in 1 .. Len(wire[p]) - 1 : wire'[p][j] = wire[p][j + 1]
  /\ Dropped(Offering(wire[p]), wire[p], Offering(wire'[p]), wire'[p], Head(wire[p]).type = "offer")
  /\ Dropped(Answering(wire[p]), wire[p], Answering(wire'[p]),
             wire'[p], Head(wire[p]).type = "answer")

(* These describe the steps of the model.                                  *)
LEMMA FirstHolds ==
  ASSUME QueuesTyped, NEW p \in Pages, chain[p] # <<>>
  PROVE  First(p) /\ Head(chain[p]) \in Operations
<1>1. PICK c \in Seq(Operations) : c = chain[p]
  BY Heads
<1>2. DOMAIN c = 1 .. Len(c) /\ Len(c) \in Nat \ {0} /\ Head(c) = c[1] /\ Head(c) \in Operations
  BY <1>1, Shorter
<1>3. /\ 1 \in Making(c) <=> Makes(Head(c))
      /\ 1 \in Taking(c) <=> Takes(Head(c))
      /\ 1 \in Ending(c) <=> Ends(Head(c))
      /\ 1 \in Queueing(c) <=> Queued(Head(c))
  BY <1>1, ChainTail
<1> QED BY <1>1, <1>2, <1>3 DEF First

LEMMA DoneSetsHold ==
  ASSUME QueuesTyped, NEW p \in Pages, chain[p] # <<>>, Done(p)
  PROVE  DoneSets(p) /\ \A q \in Pages : q # p => chain'[q] = chain[q]
BY DoneEffect DEF DoneSets

LEMMA NextSetsHold ==
  ASSUME QueuesTyped, NEW p \in Pages, chain[p] # <<>>, NEW o \in Operations, DoneThen(p, o)
  PROVE  NextSets(p, o) /\ \A q \in Pages : q # p => chain'[q] = chain[q]
BY DoneThenEffect DEF NextSets

LEMMA AskSetsHold ==
  ASSUME QueuesTyped, NEW p \in Pages, NEW o \in Operations, Ask(p, o)
  PROVE  AskSets(p, o) /\ \A q \in Pages : q # p => chain'[q] = chain[q]
BY AskEffect DEF AskSets

LEMMA TakenSetsHold ==
  ASSUME QueuesTyped, NEW p \in Pages, wire[p] # <<>>, wire' = [wire EXCEPT ![p] = Tail(@)]
  PROVE  TakenSets(p) /\ Head(wire[p]) \in Signals /\ \A q \in Pages : q # p => wire'[q] = wire[q]
<1>1. PICK w \in Seq(Signals) : w = wire[p]
  BY Heads
<1>2. /\ 1 \in Offering(w) <=> Head(w).type = "offer"
      /\ 1 \in Answering(w) <=> Head(w).type = "answer"
  BY <1>1, WireTail
<1> QED BY <1>1, <1>2, TakenEffect DEF TakenSets

(* An operation is of one kind at most.                                    *)
LEMMA Kinds ==
  ASSUME NEW o
  PROVE  /\ Makes(o) => ~Takes(o) /\ ~Ends(o) /\ ~Queued(o)
         /\ Takes(o) => ~Ends(o) /\ ~Queued(o)
         /\ Ends(o) => ~Queued(o)
BY DEF Makes, Takes, Ends, Queued, Answers

(* The operations that take an offer are about the same offer before and   *)
(* after, if there are any; and those that end an exchange about the same  *)
(* answer.                                                                 *)
TakesAlike(p) ==
  /\ Taking(chain'[p]) = {} <=> Taking(chain[p]) = {}
  /\ \A i \in Taking(chain'[p]) : \E j \in Taking(chain[p]) :
       chain'[p][i].signal = chain[p][j].signal
EndsAlike(p) ==
  /\ Ending(chain'[p]) = {} <=> Ending(chain[p]) = {}
  /\ \A i \in Ending(chain'[p]) : \E j \in Ending(chain[p]) :
       chain'[p][i].signal = chain[p][j].signal

(* A step within p's chain that leaves the offer it takes and the answer   *)
(* it applies in the chain: every page's offer stays in its place.         *)
LEMMA ChainMoves ==
  ASSUME Settled, NEW p \in Pages, NEW q \in Pages, q = Other(p), SameState(p), SamePage(q),
         wire' = wire,
         forsaken => forsaken', MakeAt(p)', TakeAt(p)', ImpoliteMakes',
         TakesAlike(p),
         EndsAlike(p),
         making[Impolite] => making'[Impolite]
  PROVE  Settled'
<1> USE PagesTyped DEF SameState
<1>1. MakeInv'
  BY DEF Settled, MakeInv, MakeAt, SamePage
<1>2. TakeInv'
  BY DEF Settled, TakeInv, TakeAt, SamePage
<1>3. CASE p = Polite
  <2>1. /\ TakesAlike(Polite)
        /\ EndsAlike(Polite)
        /\ SameState(Polite) /\ SameState(Impolite) /\ chain'[Impolite] = chain[Impolite]
        /\ making'[Impolite] = making[Impolite]
    BY <1>3 DEF SamePage
  <2> USE DEF TakesAlike, EndsAlike
  <2>2. ImpoliteInv'
    BY <2>1 DEF Settled, ImpoliteInv
  <2>3. PoliteInv'
    BY <2>1 DEF Settled, PoliteInv
  <2>4. OfferInv'
    BY <2>1 DEF Settled, OfferInv, Guarded, Live
  <2>5. LostImpolite'
    BY <2>1 DEF Settled, LostImpolite
  <2>6. LostPolite'
    BY <2>1 DEF Settled, LostPolite, Live
  <2>7. RemoteInv'
    BY <2>1 DEF Settled, RemoteInv
  <2>8. AgreeInv'
    BY <2>1 DEF Settled, AgreeInv, Agreeing, Synced
  <2> QED BY <1>1, <1>2, <2>2, <2>3, <2>4, <2>5, <2>6, <2>7, <2>8 DEF Settled
<1>4. CASE p = Impolite
  <2>1. /\ TakesAlike(Impolite)
        /\ EndsAlike(Impolite)
        /\ SameState(Polite) /\ SameState(Impolite) /\ chain'[Polite] = chain[Polite]
        /\ making'[Polite] = making[Polite]
    BY <1>4 DEF SamePage
  <2> USE DEF TakesAlike, EndsAlike
  <2>2. ImpoliteInv'
    BY <2>1 DEF Settled, ImpoliteInv
  <2>3. PoliteInv'
    BY <2>1 DEF Settled, PoliteInv
  <2>4. OfferInv'
    BY <2>1 DEF Settled, OfferInv, Guarded, Live
  <2>5. LostImpolite'
    BY <2>1 DEF Settled, LostImpolite
  <2>6. LostPolite'
    BY <2>1 DEF Settled, LostPolite, Live
  <2>7. RemoteInv'
    BY <2>1 DEF Settled, RemoteInv
  <2>8. AgreeInv'
    BY <2>1 DEF Settled, AgreeInv, Agreeing, Synced
  <2> QED BY <1>1, <1>2, <2>2, <2>3, <2>4, <2>5, <2>6, <2>7, <2>8 DEF Settled
<1> QED BY <1>3, <1>4

(* A step of p keeps what each page keeps by itself when it leaves the     *)
(* other page alone.                                                       *)
LEMMA PagesKeep ==
  ASSUME MakeInv, TakeInv, NEW p \in Pages, MakeAt(p)', TakeAt(p)', SamePage(Other(p))
  PROVE  MakeInv' /\ TakeInv'
<1>1. MakeAt(Other(p)) /\ TakeAt(Other(p))
  BY PagesTyped DEF MakeInv, TakeInv
<1>2. MakeAt(Other(p))'
  BY <1>1 DEF MakeAt, SamePage, SameState
<1>3. TakeAt(Other(p))'
  BY <1>1 DEF TakeAt, SamePage, SameState
<1>4. \A q \in Pages : q = p \/ q = Other(p)
  BY PagesTyped
<1> QED BY <1>2, <1>3, <1>4 DEF MakeInv, TakeInv

(* The lemmas that follow move one offer from a place to the next.  Each   *)
(* names what the step does to the places and to the state of the page,    *)
(* whatever operation does it.  Here the offer on the wire to the polite   *)
(* page goes to its chain: it is the impolite page's, which waits for its  *)
(* answer, so nothing else is under way.                                   *)
LEMMA PoliteTakesOffer ==
  ASSUME Settled, SamePage(Impolite), MakeAt(Polite)', TakeAt(Polite)', ImpoliteMakes',
         TakenSets(Polite), wire'[Impolite] = wire[Impolite], Head(wire[Polite]).type = "offer",
         SameState(Polite), forsaken => forsaken', making'[Polite] = making[Polite],
         NEW n, Taking(chain'[Polite]) = {n}, chain'[Polite][n].signal = Head(wire[Polite]),
         EndsAlike(Polite)
  PROVE  Settled'
<1> USE PagesTyped
<1>1. /\ SameState(Impolite) /\ chain'[Impolite] = chain[Impolite]
      /\ making'[Impolite] = making[Impolite]
  BY DEF SamePage
<1>2. /\ 1 \in Offering(wire[Polite]) /\ Head(wire[Polite]) = wire[Polite][1]
      /\ Offering(wire'[Polite]) = {}
  BY DEF Settled, ImpoliteInv, TakenSets, Dropped
<1>3. /\ signaling[Impolite] = "have-local-offer" /\ offered[Impolite] = Head(wire[Polite]).offer
      /\ Taking(chain[Polite]) = {} /\ Answering(wire[Impolite]) = {}
      /\ Ending(chain[Impolite]) = {}
  BY <1>2 DEF Settled, ImpoliteInv
<1>4. Answering(wire[Polite]) = {} /\ Answering(wire'[Polite]) = {}
  <2>1. \A i \in Answering(wire[Polite]) : i \in Nat \ {0} /\ i < 1
    BY <1>2 DEF Settled, PoliteInv, Answering, TakenSets
  <2> QED BY <2>1 DEF TakenSets, Dropped
<1>5. MakeInv' /\ TakeInv'
  BY PagesKeep DEF Settled
<1> USE DEF SameState, TakesAlike, EndsAlike
<1>6. ImpoliteInv'
  BY <1>1, <1>2, <1>3, <1>4 DEF Settled, ImpoliteInv, Single
<1>7. PoliteInv'
  BY <1>1, <1>2, <1>3, <1>4 DEF Settled, PoliteInv, Single
<1>8. OfferInv'
  BY <1>1, <1>2, <1>3, <1>4 DEF Settled, OfferInv, Guarded, Live
<1>9. LostImpolite'
  BY <1>1, <1>2, <1>3, <1>4 DEF Settled, LostImpolite
<1>10. LostPolite'
  BY <1>1, <1>2, <1>3, <1>4 DEF Settled, LostPolite, Live
<1>11. RemoteInv'
  BY <1>1, <1>2, <1>3, <1>4 DEF Settled, RemoteInv
<1>12. AgreeInv'
  BY <1>1, <1>2, <1>3, <1>4 DEF Settled, AgreeInv, Agreeing, Synced
<1> QED BY <1>5, <1>6, <1>7, <1>8, <1>9, <1>10, <1>11, <1>12 DEF Settled

(* The offer on the wire to the impolite page goes to its chain.  The page *)
(* is stable, so the offer is not guarded: it is the one the polite page   *)
(* waits for, and the last on the wire.                                    *)
LEMMA ImpoliteTakesOffer ==
  ASSUME Settled, SamePage(Polite), MakeAt(Impolite)', TakeAt(Impolite)', ImpoliteMakes',
         TakenSets(Impolite), wire'[Polite] = wire[Polite], Head(wire[Impolite]).type = "offer",
         SameState(Impolite), forsaken => forsaken', signaling[Impolite] = "stable",
         making'[Impolite] = making[Impolite], ~making[Impolite],
         NEW n, Taking(chain'[Impolite]) = {n}, chain'[Impolite][n].signal = Head(wire[Impolite]),
         EndsAlike(Impolite)
  PROVE  Settled'
<1> USE PagesTyped
<1>1. SameState(Polite) /\ chain'[Polite] = chain[Polite] /\ making'[Polite] = making[Polite]
  BY DEF SamePage
<1>2. 1 \in Offering(wire[Impolite]) /\ Head(wire[Impolite]) = wire[Impolite][1] /\ Live(1)
  BY DEF Settled, OfferInv, Guarded, TakenSets
<1>3. \A i \in DOMAIN wire[Impolite] : i = 1 \/ wire[Impolite][i].type = "candidate"
  BY <1>2 DEF Live, TakenSets
<1>4. /\ Offering(wire'[Impolite]) = {} /\ Answering(wire[Impolite]) = {}
      /\ Answering(wire'[Impolite]) = {}
  <2>1. Answering(wire[Impolite]) = {} /\ Offering(wire[Impolite]) = {1}
    BY <1>2, <1>3 DEF Answering, Offering, TakenSets
  <2> QED BY <2>1 DEF TakenSets, Dropped, Single
<1>5. /\ signaling[Polite] = "have-local-offer" /\ offered[Polite] = Head(wire[Impolite]).offer
      /\ Taking(chain[Impolite]) = {} /\ Answering(wire[Polite]) = {} /\ Ending(chain[Polite]) = {}
      /\ Ending(chain[Impolite]) = {}
  BY <1>2 DEF Settled, PoliteInv, ImpoliteInv, Live
<1>6. MakeInv' /\ TakeInv'
  BY PagesKeep DEF Settled
<1> USE DEF SameState, TakesAlike, EndsAlike
<1>7. ImpoliteInv'
  BY <1>1, <1>2, <1>3, <1>4, <1>5 DEF Settled, ImpoliteInv, Single
<1>8. PoliteInv'
  BY <1>1, <1>2, <1>3, <1>4, <1>5 DEF Settled, PoliteInv, Single
<1>9. OfferInv'
  BY <1>1, <1>2, <1>3, <1>4, <1>5 DEF Settled, OfferInv, Guarded, Live
<1>10. LostImpolite'
  BY <1>1, <1>2, <1>3, <1>4, <1>5 DEF Settled, LostImpolite
<1>11. LostPolite'
  BY <1>1, <1>2, <1>3, <1>4, <1>5 DEF Settled, LostPolite, Live
<1>12. RemoteInv'
  BY <1>1, <1>2, <1>3, <1>4, <1>5 DEF Settled, RemoteInv
<1>13. AgreeInv'
  <2>1. Synced /\ Ending(chain'[Impolite]) = {}
    BY <1>4, <1>5 DEF Settled, AgreeInv, Other, Pages
  <2>2. Synced'
    BY <1>1, <2>1 DEF Synced
  <2> QED BY <1>1, <1>4, <1>5, <2>1, <2>2 DEF AgreeInv
<1> QED BY <1>6, <1>7, <1>8, <1>9, <1>10, <1>11, <1>12, <1>13 DEF Settled

(* The answer on the wire to the polite page goes to its chain.            *)
LEMMA PoliteTakesAnswer ==
  ASSUME Settled, SamePage(Impolite), MakeAt(Polite)', TakeAt(Polite)', ImpoliteMakes',
         TakenSets(Polite), wire'[Impolite] = wire[Impolite], Head(wire[Polite]).type = "answer",
         SameState(Polite), forsaken => forsaken', making'[Polite] = making[Polite],
         NEW n, Ending(chain'[Polite]) = {n}, chain'[Polite][n].signal = Head(wire[Polite]),
         TakesAlike(Polite)
  PROVE  Settled'
<1> USE PagesTyped
<1>1. /\ SameState(Impolite) /\ chain'[Impolite] = chain[Impolite]
      /\ making'[Impolite] = making[Impolite]
  BY DEF SamePage
<1>2. /\ 1 \in Answering(wire[Polite]) /\ Head(wire[Polite]) = wire[Polite][1]
      /\ 1 \notin Offering(wire[Polite])
  BY DEF TakenSets
<1>3. /\ signaling[Polite] = "have-local-offer" /\ offered[Polite] = Head(wire[Polite]).offer
      /\ Taking(chain[Polite]) = {} /\ Ending(chain[Polite]) = {} /\ Taking(chain[Impolite]) = {}
      /\ Offering(wire[Impolite]) = {} /\ Answering(wire[Impolite]) = {}
      /\ Ending(chain[Impolite]) = {}
  BY <1>2 DEF Settled, PoliteInv
<1>4. Answering(wire'[Polite]) = {}
  BY <1>2 DEF Settled, PoliteInv, TakenSets, Dropped
<1>5. /\ Offering(wire[Polite]) = {} <=> Offering(wire'[Polite]) = {}
      /\ \A i \in Offering(wire'[Polite]) :
           i + 1 \in Offering(wire[Polite]) /\ i \in Nat /\ wire'[Polite][i] = wire[Polite][i + 1]
      /\ Single(Offering(wire'[Polite]))
  BY <1>2 DEF Settled, ImpoliteInv, TakenSets, Dropped
<1>6. MakeInv' /\ TakeInv'
  BY PagesKeep DEF Settled
<1> USE DEF SameState, TakesAlike, EndsAlike
<1>7. ImpoliteInv'
  BY <1>1, <1>2, <1>3, <1>4, <1>5 DEF Settled, ImpoliteInv, Single
<1>8. PoliteInv'
  BY <1>1, <1>2, <1>3, <1>4, <1>5 DEF Settled, PoliteInv, Single
<1>9. OfferInv'
  BY <1>1, <1>2, <1>3, <1>4, <1>5 DEF Settled, OfferInv, Guarded, Live
<1>10. LostImpolite'
  BY <1>1, <1>2, <1>3, <1>4, <1>5 DEF Settled, LostImpolite
<1>11. LostPolite'
  BY <1>1, <1>2, <1>3, <1>4, <1>5 DEF Settled, LostPolite, Live
<1>12. RemoteInv'
  BY <1>1, <1>2, <1>3, <1>4, <1>5 DEF Settled, RemoteInv
<1>13. AgreeInv'
  <2>1. Agreeing(Polite, Head(wire[Polite]).tracks)
    BY <1>2 DEF Settled, AgreeInv
  <2>2. /\ agreed'[Impolite] = offered'[Polite] /\ received'[Impolite] = offered'[Polite].tracks
        /\ sent'[Impolite] = Head(wire[Polite]).tracks
    BY <1>1, <2>1 DEF Agreeing
  <2>3. Answering(wire'[Impolite]) = {} /\ Ending(chain'[Impolite]) = {}
    BY <1>1, <1>3
  <2> QED BY <1>4, <2>2, <2>3 DEF AgreeInv, Agreeing
<1> QED BY <1>6, <1>7, <1>8, <1>9, <1>10, <1>11, <1>12, <1>13 DEF Settled

(* The answer on the wire to the impolite page goes to its chain.  Nothing *)
(* guards an offer behind it any more: it must be the polite page's last.  *)
LEMMA ImpoliteTakesAnswer ==
  ASSUME Settled, SamePage(Polite), MakeAt(Impolite)', TakeAt(Impolite)', ImpoliteMakes',
         TakenSets(Impolite), wire'[Polite] = wire[Polite], Head(wire[Impolite]).type = "answer",
         SameState(Impolite), forsaken => forsaken', making'[Impolite] = making[Impolite],
         NEW n, Ending(chain'[Impolite]) = {n}, chain'[Impolite][n].signal = Head(wire[Impolite]),
         TakesAlike(Impolite)
  PROVE  Settled'
<1> USE PagesTyped
<1>1. SameState(Polite) /\ chain'[Polite] = chain[Polite] /\ making'[Polite] = making[Polite]
  BY DEF SamePage
<1>2. /\ 1 \in Answering(wire[Impolite]) /\ Head(wire[Impolite]) = wire[Impolite][1]
      /\ 1 \notin Offering(wire[Impolite])
  BY DEF TakenSets
<1>3. /\ signaling[Impolite] = "have-local-offer" /\ offered[Impolite] = Head(wire[Impolite]).offer
      /\ Offering(wire[Polite]) = {} /\ Taking(chain[Polite]) = {} /\ Ending(chain[Impolite]) = {}
  BY <1>2 DEF Settled, ImpoliteInv
<1>4. Taking(chain[Impolite]) = {} /\ Answering(wire[Polite]) = {} /\ Ending(chain[Polite]) = {}
  BY <1>2 DEF Settled, PoliteInv
<1>5. Answering(wire'[Impolite]) = {}
  BY <1>2 DEF Settled, ImpoliteInv, TakenSets, Dropped
<1>6. \A i \in Offering(wire[Impolite]) : i \in Nat \ {0} /\ Live(i)
  BY <1>2 DEF Settled, OfferInv, Guarded, Offering, TakenSets
<1>7. \A i \in Offering(wire'[Impolite]) :
        i + 1 \in Offering(wire[Impolite]) /\ i \in Nat
          /\ wire'[Impolite][i] = wire[Impolite][i + 1]
  BY DEF TakenSets, Dropped
<1>8. \A i \in Offering(wire[Impolite]) : i - 1 \in Offering(wire'[Impolite]) /\ Live(i - 1)'
  <2> SUFFICES ASSUME NEW i \in Offering(wire[Impolite])
               PROVE  i - 1 \in Offering(wire'[Impolite]) /\ Live(i - 1)'
    OBVIOUS
  <2>1. i \in Nat \ {0} /\ i - 1 \in Offering(wire'[Impolite]) /\ i - 1 \in Nat
    BY <1>2, <1>6 DEF TakenSets, Dropped
  <2>2. wire'[Impolite][i - 1] = wire[Impolite][i]
    BY <1>7, <2>1
  <2>3. ASSUME NEW j \in DOMAIN wire'[Impolite], i - 1 < j
        PROVE  wire'[Impolite][j].type = "candidate"
    <3>1. j \in Nat /\ j + 1 \in DOMAIN wire[Impolite] /\ wire'[Impolite][j] = wire[Impolite][j + 1]
      BY DEF TakenSets
    <3> QED BY <1>6, <2>1, <2>3, <3>1 DEF Live
  <2> QED BY <1>6, <2>1, <2>2, <2>3 DEF Live, SameState, SamePage
<1>9. MakeInv' /\ TakeInv'
  BY PagesKeep DEF Settled
<1> USE DEF SameState, TakesAlike, EndsAlike
<1>10. ImpoliteInv'
  BY <1>1, <1>2, <1>3, <1>4, <1>5, <1>6, <1>7, <1>8 DEF Settled, ImpoliteInv, Single
<1>11. PoliteInv'
  BY <1>1, <1>2, <1>3, <1>4, <1>5, <1>6, <1>7, <1>8 DEF Settled, PoliteInv, Single
<1>12. OfferInv'
  <2> SUFFICES ASSUME NEW i \in Offering(wire'[Impolite]) PROVE Live(i)'
    BY DEF OfferInv
  <2> QED BY <1>7, <1>8
<1>13. LostImpolite'
  BY <1>1, <1>2, <1>3, <1>4, <1>5, <1>6, <1>7, <1>8 DEF Settled, LostImpolite
<1>14. LostPolite'
  BY <1>1, <1>2, <1>3, <1>4, <1>8 DEF Settled, LostPolite
<1>15. RemoteInv'
  BY <1>1, <1>2, <1>3, <1>4, <1>5, <1>6, <1>7, <1>8 DEF Settled, RemoteInv
<1>16. AgreeInv'
  BY <1>1, <1>2, <1>3, <1>4, <1>5, <1>6, <1>7, <1>8 DEF Settled, AgreeInv, Agreeing, Synced
<1> QED BY <1>9, <1>10, <1>11, <1>12, <1>13, <1>14, <1>15, <1>16 DEF Settled

(* The polite page sends an offer.  The impolite page is taking none, and  *)
(* whatever offer was on the wire before is guarded.                       *)
LEMMA PoliteOffers ==
  ASSUME Settled, SamePage(Impolite), MakeAt(Polite)', TakeAt(Polite)', ImpoliteMakes', NEW f,
         NEW m, m.type = "offer", m.offer = f, wire[Impolite] \in Seq(Signals),
         wire'[Polite] = wire[Polite], OfferOn(wire[Impolite], wire'[Impolite], m), making[Polite],
         signaling'[Polite] = "have-local-offer", offered'[Polite] = f,
         agreed'[Polite] = agreed[Polite], sent'[Polite] = sent[Polite],
         received'[Polite] = received[Polite], forsaken => forsaken', TakesAlike(Polite),
         EndsAlike(Polite)
  PROVE  Settled'
<1> USE PagesTyped
<1>1. /\ SameState(Impolite) /\ chain'[Impolite] = chain[Impolite]
      /\ making'[Impolite] = making[Impolite]
  BY DEF SamePage
<1>2. signaling[Polite] # "have-local-offer"
  BY DEF Settled, MakeInv, MakeAt
<1>3. Taking(chain[Impolite]) = {} /\ Answering(wire[Polite]) = {} /\ Ending(chain[Polite]) = {}
  BY <1>2 DEF Settled, PoliteInv
<1>4. PICK n \in Nat :
        /\ Offering(wire'[Impolite]) = Offering(wire[Impolite]) \union {n} /\ wire'[Impolite][n] = m
        /\ Answering(wire'[Impolite]) = Answering(wire[Impolite])
        /\ DOMAIN wire'[Impolite] = 1 .. n + 1
        /\ wire'[Impolite][n + 1].type = "candidate"
        /\ \A i \in Offering(wire[Impolite]) \union Answering(wire[Impolite]) :
             i \in Nat /\ i < n /\ wire'[Impolite][i] = wire[Impolite][i]
  <2> DEFINE n == Len(wire[Impolite]) + 1
  <2>1. /\ n \in Nat /\ n + 1 = Len(wire[Impolite]) + 2
        /\ \A i \in Offering(wire[Impolite]) \union Answering(wire[Impolite]) :
              i \in 1 .. Len(wire[Impolite]) /\ i \in Nat /\ i < n
    BY WireParts
  <2>2. /\ Offering(wire'[Impolite]) = Offering(wire[Impolite]) \union {n} /\ wire'[Impolite][n] = m
        /\ Answering(wire'[Impolite]) = Answering(wire[Impolite])
    BY DEF OfferOn
  <2>3. /\ wire'[Impolite][n + 1].type = "candidate" /\ DOMAIN wire'[Impolite] = 1 .. n + 1
    BY <2>1 DEF OfferOn
  <2>4. \A i \in 1 .. Len(wire[Impolite]) : wire'[Impolite][i] = wire[Impolite][i]
    BY DEF OfferOn
  <2> HIDE DEF n
  <2> QED BY <2>1, <2>2, <2>3, <2>4
<1>5. n \in Offering(wire'[Impolite]) /\ Live(n)'
  <2>1. \A j \in DOMAIN wire'[Impolite] : n < j => j = n + 1
    BY <1>4
  <2> QED BY <1>4, <2>1 DEF Live
<1>6. \A i \in Offering(wire[Impolite]) : Guarded(i)
  BY <1>2 DEF Settled, OfferInv, Live
<1>7. MakeInv' /\ TakeInv'
  BY PagesKeep DEF Settled
<1> USE DEF SameState, TakesAlike, EndsAlike
<1>8. ImpoliteInv'
  <2>1. \A i \in Answering(wire[Impolite]) : wire'[Impolite][i] = wire[Impolite][i]
    BY <1>4
  <2>2. Answering(wire'[Impolite]) = Answering(wire[Impolite])
    BY <1>4
  <2> QED BY <1>1, <1>3, <2>1, <2>2 DEF Settled, ImpoliteInv, Single
<1>9. PoliteInv'
  BY <1>1, <1>2, <1>3, <1>4, <1>5, <1>6 DEF Settled, PoliteInv, Single
<1>10. OfferInv'
  <2>1. \A i \in Offering(wire[Impolite]) : Guarded(i)'
    BY <1>1, <1>4, <1>6 DEF Guarded
  <2> QED BY <1>4, <1>5, <2>1 DEF OfferInv
<1>11. LostImpolite'
  BY <1>1, <1>2, <1>3, <1>4, <1>5, <1>6 DEF Settled, LostImpolite
<1>12. LostPolite'
  BY <1>5 DEF LostPolite
<1>13. RemoteInv'
  BY <1>1, <1>2, <1>3, <1>4, <1>5, <1>6 DEF Settled, RemoteInv
<1>14. AgreeInv'
  BY <1>1, <1>2, <1>3, <1>4, <1>5, <1>6 DEF Settled, AgreeInv, Agreeing, Synced
<1> QED BY <1>7, <1>8, <1>9, <1>10, <1>11, <1>12, <1>13, <1>14 DEF Settled

(* The impolite page sends an offer; it had none out and took none.        *)
LEMMA ImpoliteOffers ==
  ASSUME Settled, SamePage(Polite), MakeAt(Impolite)', TakeAt(Impolite)', ImpoliteMakes', NEW f,
         NEW m, m.offer = f, wire[Polite] \in Seq(Signals), wire'[Impolite] = wire[Impolite],
         OfferOn(wire[Polite], wire'[Polite], m), making[Impolite],
         signaling'[Impolite] = "have-local-offer", offered'[Impolite] = f,
         agreed'[Impolite] = agreed[Impolite], sent'[Impolite] = sent[Impolite],
         received'[Impolite] = received[Impolite], forsaken => forsaken', TakesAlike(Impolite),
         EndsAlike(Impolite)
  PROVE  Settled'
<1> USE PagesTyped
<1>1. SameState(Polite) /\ chain'[Polite] = chain[Polite] /\ making'[Polite] = making[Polite]
  BY DEF SamePage
<1>2. signaling[Impolite] = "stable" /\ Taking(chain[Impolite]) = {}
  BY DEF Settled, ImpoliteMakes
<1>3. /\ Offering(wire[Polite]) = {} /\ Taking(chain[Polite]) = {} /\ Answering(wire[Impolite]) = {}
      /\ Ending(chain[Impolite]) = {}
  BY <1>2 DEF Settled, ImpoliteInv
<1>4. PICK n \in Nat :
        /\ Offering(wire'[Polite]) = {n} /\ wire'[Polite][n] = m
        /\ Answering(wire'[Polite]) = Answering(wire[Polite])
        /\ \A i \in Answering(wire[Polite]) : i < n /\ wire'[Polite][i] = wire[Polite][i]
  <2> DEFINE n == Len(wire[Polite]) + 1
  <2>1. n \in Nat /\ \A i \in Answering(wire[Polite]) : i \in 1 .. Len(wire[Polite]) /\ i < n
    BY WireParts
  <2>2. /\ Offering(wire'[Polite]) = {n} /\ Answering(wire'[Polite]) = Answering(wire[Polite])
        /\ wire'[Polite][n] = m
    BY <1>3 DEF OfferOn
  <2>3. \A i \in 1 .. Len(wire[Polite]) : wire'[Polite][i] = wire[Polite][i]
    BY DEF OfferOn
  <2> HIDE DEF n
  <2> QED BY <2>1, <2>2, <2>3
<1>5. MakeInv' /\ TakeInv'
  BY PagesKeep DEF Settled
<1> USE DEF SameState, TakesAlike, EndsAlike
<1>6. ImpoliteInv'
  BY <1>1, <1>2, <1>3, <1>4 DEF Settled, ImpoliteInv, Single
<1>7. PoliteInv'
  BY <1>1, <1>2, <1>3, <1>4 DEF Settled, PoliteInv, Single
<1>8. OfferInv'
  BY <1>1, <1>2, <1>3, <1>4 DEF Settled, OfferInv, Guarded, Live
<1>9. LostImpolite'
  BY <1>1, <1>2, <1>3, <1>4 DEF Settled, LostImpolite
<1>10. LostPolite'
  BY <1>1, <1>2, <1>3, <1>4 DEF Settled, LostPolite, Live
<1>11. RemoteInv'
  BY <1>1, <1>2, <1>3, <1>4 DEF Settled, RemoteInv
<1>12. AgreeInv'
  BY <1>1, <1>2, <1>3, <1>4 DEF Settled, AgreeInv, Agreeing, Synced
<1> QED BY <1>5, <1>6, <1>7, <1>8, <1>9, <1>10, <1>11, <1>12 DEF Settled

(* The polite page takes the impolite page's offer one operation further   *)
(* and gives up its own.                                                   *)
LEMMA PoliteYields ==
  ASSUME Settled, SamePage(Impolite), MakeAt(Polite)', TakeAt(Polite)', ImpoliteMakes',
         wire' = wire, forsaken => forsaken',
         signaling'[Polite] \in {"stable", "have-remote-offer"}, agreed'[Polite] = agreed[Polite],
         sent'[Polite] = sent[Polite], received'[Polite] = received[Polite],
         making'[Polite] = making[Polite], Taking(chain[Polite]) # {}, TakesAlike(Polite),
         Ending(chain[Polite]) = {}, Ending(chain'[Polite]) = {}
  PROVE  Settled'
<1> USE PagesTyped
<1>1. /\ SameState(Impolite) /\ chain'[Impolite] = chain[Impolite]
      /\ making'[Impolite] = making[Impolite]
  BY DEF SamePage
<1>2. /\ signaling[Impolite] = "have-local-offer" /\ Offering(wire[Polite]) = {}
      /\ Answering(wire[Impolite]) = {} /\ Ending(chain[Impolite]) = {}
  BY DEF Settled, ImpoliteInv
<1>3. Taking(chain[Impolite]) = {} /\ Answering(wire[Polite]) = {}
  BY <1>2 DEF Settled, TakeInv, TakeAt, PoliteInv
<1>4. MakeInv' /\ TakeInv'
  BY PagesKeep DEF Settled
<1> USE DEF SameState, TakesAlike, EndsAlike
<1>5. ImpoliteInv'
  BY <1>1, <1>2, <1>3 DEF Settled, ImpoliteInv, Single
<1>6. PoliteInv'
  BY <1>1, <1>2, <1>3 DEF Settled, PoliteInv, Single
<1>7. OfferInv'
  BY <1>1, <1>2, <1>3 DEF Settled, OfferInv, Guarded, Live
<1>8. LostImpolite'
  BY <1>1, <1>2, <1>3 DEF Settled, LostImpolite
<1>9. LostPolite'
  BY <1>1, <1>2, <1>3 DEF Settled, LostPolite, Live
<1>10. RemoteInv'
  BY <1>1, <1>2, <1>3 DEF Settled, RemoteInv
<1>11. AgreeInv'
  BY <1>1, <1>2, <1>3 DEF Settled, AgreeInv, Agreeing, Synced
<1> QED BY <1>4, <1>5, <1>6, <1>7, <1>8, <1>9, <1>10, <1>11 DEF Settled

(* The polite page gives up the offer it was taking: the impolite page     *)
(* waits for an answer that never comes, and forsaken records it.          *)
LEMMA PoliteForsakes ==
  ASSUME Settled, SamePage(Impolite), MakeAt(Polite)', TakeAt(Polite)', ImpoliteMakes',
         wire' = wire, forsaken', SameState(Polite), signaling[Polite] # "have-local-offer",
         making'[Polite] = making[Polite], Taking(chain[Polite]) # {}, Taking(chain'[Polite]) = {},
         Ending(chain[Polite]) = {}, Ending(chain'[Polite]) = {}
  PROVE  Settled'
<1> USE PagesTyped
<1>1. /\ SameState(Impolite) /\ chain'[Impolite] = chain[Impolite]
      /\ making'[Impolite] = making[Impolite]
  BY DEF SamePage
<1>2. /\ signaling[Impolite] = "have-local-offer" /\ Offering(wire[Polite]) = {}
      /\ Answering(wire[Impolite]) = {} /\ Ending(chain[Impolite]) = {}
  BY DEF Settled, ImpoliteInv
<1>3. MakeInv' /\ TakeInv'
  BY PagesKeep DEF Settled
<1> USE DEF SameState, TakesAlike, EndsAlike
<1>4. ImpoliteInv'
  BY <1>1, <1>2 DEF Settled, ImpoliteInv, Single
<1>5. PoliteInv'
  BY <1>1, <1>2 DEF Settled, PoliteInv, Single
<1>6. OfferInv'
  BY <1>1, <1>2 DEF Settled, OfferInv, Guarded, Live
<1>7. LostImpolite'
  BY <1>1, <1>2 DEF Settled, LostImpolite
<1>8. LostPolite'
  BY <1>1, <1>2 DEF Settled, LostPolite, Live
<1>9. RemoteInv'
  BY <1>1, <1>2 DEF Settled, RemoteInv
<1>10. AgreeInv'
  BY <1>1, <1>2 DEF Settled, AgreeInv, Agreeing, Synced
<1> QED BY <1>3, <1>4, <1>5, <1>6, <1>7, <1>8, <1>9, <1>10 DEF Settled

(* The impolite page applies the offer it is taking.                       *)
LEMMA ImpoliteApplies ==
  ASSUME Settled, SamePage(Polite), MakeAt(Impolite)', TakeAt(Impolite)', ImpoliteMakes',
         wire' = wire, forsaken => forsaken', signaling'[Impolite] = "have-remote-offer",
         agreed'[Impolite] = agreed[Impolite], sent'[Impolite] = sent[Impolite],
         received'[Impolite] = received[Impolite], making'[Impolite] = making[Impolite],
         Taking(chain[Impolite]) # {}, TakesAlike(Impolite), EndsAlike(Impolite)
  PROVE  Settled'
<1> USE PagesTyped
<1>1. SameState(Polite) /\ chain'[Polite] = chain[Polite] /\ making'[Polite] = making[Polite]
  BY DEF SamePage
<1>2. signaling[Impolite] # "have-local-offer" /\ ~making[Impolite]
  BY DEF Settled, TakeInv, TakeAt, ImpoliteMakes
<1>3. /\ Offering(wire[Polite]) = {} /\ Taking(chain[Polite]) = {} /\ Answering(wire[Impolite]) = {}
      /\ Ending(chain[Impolite]) = {}
  BY <1>2 DEF Settled, ImpoliteInv
<1>4. Offering(wire[Impolite]) = {} /\ Answering(wire[Polite]) = {} /\ Ending(chain[Polite]) = {}
  BY DEF Settled, PoliteInv
<1>5. MakeInv' /\ TakeInv'
  BY PagesKeep DEF Settled
<1> USE DEF SameState, TakesAlike, EndsAlike
<1>6. ImpoliteInv'
  BY <1>1, <1>2, <1>3, <1>4 DEF Settled, ImpoliteInv, Single
<1>7. PoliteInv'
  BY <1>1, <1>2, <1>3, <1>4 DEF Settled, PoliteInv, Single
<1>8. OfferInv'
  BY <1>1, <1>2, <1>3, <1>4 DEF Settled, OfferInv, Guarded, Live
<1>9. LostImpolite'
  BY <1>1, <1>2, <1>3, <1>4 DEF Settled, LostImpolite
<1>10. LostPolite'
  BY <1>1, <1>2, <1>3, <1>4 DEF Settled, LostPolite, Live
<1>11. RemoteInv'
  BY <1>1, <1>2, <1>3, <1>4 DEF Settled, RemoteInv
<1>12. AgreeInv'
  BY <1>1, <1>2, <1>3, <1>4 DEF Settled, AgreeInv, Agreeing, Synced
<1> QED BY <1>5, <1>6, <1>7, <1>8, <1>9, <1>10, <1>11, <1>12 DEF Settled

(* The impolite page gives up the offer it was taking.                     *)
LEMMA ImpoliteForsakes ==
  ASSUME Settled, SamePage(Polite), MakeAt(Impolite)', TakeAt(Impolite)', ImpoliteMakes',
         wire' = wire, forsaken', SameState(Impolite), making'[Impolite] = making[Impolite],
         Taking(chain[Impolite]) # {}, Taking(chain'[Impolite]) = {}, EndsAlike(Impolite)
  PROVE  Settled'
<1> USE PagesTyped
<1>1. SameState(Polite) /\ chain'[Polite] = chain[Polite] /\ making'[Polite] = making[Polite]
  BY DEF SamePage
<1>2. signaling[Impolite] # "have-local-offer"
  BY DEF Settled, TakeInv, TakeAt
<1>3. /\ Offering(wire[Polite]) = {} /\ Taking(chain[Polite]) = {} /\ Answering(wire[Impolite]) = {}
      /\ Ending(chain[Impolite]) = {}
  BY <1>2 DEF Settled, ImpoliteInv
<1>4. Offering(wire[Impolite]) = {} /\ Answering(wire[Polite]) = {} /\ Ending(chain[Polite]) = {}
  BY DEF Settled, PoliteInv
<1>5. MakeInv' /\ TakeInv'
  BY PagesKeep DEF Settled
<1> USE DEF SameState, TakesAlike, EndsAlike
<1>6. ImpoliteInv'
  BY <1>1, <1>2, <1>3, <1>4 DEF Settled, ImpoliteInv, Single
<1>7. PoliteInv'
  BY <1>1, <1>2, <1>3, <1>4 DEF Settled, PoliteInv, Single
<1>8. OfferInv'
  BY <1>1, <1>2, <1>3, <1>4 DEF Settled, OfferInv, Guarded, Live
<1>9. LostImpolite'
  BY <1>1, <1>2, <1>3, <1>4 DEF Settled, LostImpolite
<1>10. LostPolite'
  BY <1>1, <1>2, <1>3, <1>4 DEF Settled, LostPolite, Live
<1>11. RemoteInv'
  BY <1>1, <1>2, <1>3, <1>4 DEF Settled, RemoteInv
<1>12. AgreeInv'
  BY <1>1, <1>2, <1>3, <1>4 DEF Settled, AgreeInv, Agreeing, Synced
<1> QED BY <1>5, <1>6, <1>7, <1>8, <1>9, <1>10, <1>11, <1>12 DEF Settled

(* The exchange of the polite page's offer ends: the impolite page has     *)
(* agreed to it already, and now both have.                                *)
LEMMA PoliteEnds ==
  ASSUME Settled, SamePage(Impolite), MakeAt(Polite)', TakeAt(Polite)', ImpoliteMakes',
         wire' = wire, forsaken => forsaken', 1 \in Ending(chain[Polite]),
         Ending(chain'[Polite]) = {}, TakesAlike(Polite), signaling'[Polite] = "stable",
         agreed'[Polite] = offered[Polite], sent'[Polite] = offered[Polite].tracks,
         received'[Polite] = chain[Polite][1].signal.tracks, making'[Polite] = making[Polite]
  PROVE  Settled'
<1> USE PagesTyped
<1>1. /\ SameState(Impolite) /\ chain'[Impolite] = chain[Impolite]
      /\ making'[Impolite] = making[Impolite]
  BY DEF SamePage
<1>2. Taking(chain[Impolite]) = {} /\ Answering(wire[Polite]) = {}
  BY DEF Settled, PoliteInv
<1>3. /\ Offering(wire[Impolite]) = {} /\ Answering(wire[Impolite]) = {}
      /\ Ending(chain[Impolite]) = {}
  BY DEF Settled, PoliteInv
<1>4. Agreeing(Polite, chain[Polite][1].signal.tracks)
  BY DEF Settled, AgreeInv
<1>5. MakeInv' /\ TakeInv'
  BY PagesKeep DEF Settled
<1> USE DEF SameState, TakesAlike, EndsAlike
<1>6. ImpoliteInv'
  BY <1>1, <1>2, <1>3, <1>4 DEF Settled, ImpoliteInv, Single
<1>7. PoliteInv'
  BY <1>1, <1>2, <1>3, <1>4 DEF Settled, PoliteInv, Single
<1>8. OfferInv'
  BY <1>1, <1>2, <1>3, <1>4 DEF Settled, OfferInv, Guarded, Live
<1>9. LostImpolite'
  BY <1>1, <1>2, <1>3, <1>4 DEF Settled, LostImpolite
<1>10. LostPolite'
  BY <1>1, <1>2, <1>3, <1>4 DEF Settled, LostPolite, Live
<1>11. RemoteInv'
  BY <1>1, <1>2, <1>3, <1>4 DEF Settled, RemoteInv
<1>12. AgreeInv'
  <2>1. Synced'
    BY <1>1, <1>4 DEF Agreeing, Synced
  <2> QED BY <1>1, <1>2, <1>3, <2>1 DEF AgreeInv
<1> QED BY <1>5, <1>6, <1>7, <1>8, <1>9, <1>10, <1>11, <1>12 DEF Settled

(* The exchange of the impolite page's offer ends.                         *)
LEMMA ImpoliteEnds ==
  ASSUME Settled, SamePage(Polite), MakeAt(Impolite)', TakeAt(Impolite)', ImpoliteMakes',
         wire' = wire, forsaken => forsaken', 1 \in Ending(chain[Impolite]),
         Ending(chain'[Impolite]) = {}, TakesAlike(Impolite), signaling'[Impolite] = "stable",
         agreed'[Impolite] = offered[Impolite], sent'[Impolite] = offered[Impolite].tracks,
         received'[Impolite] = chain[Impolite][1].signal.tracks,
         making'[Impolite] = making[Impolite]
  PROVE  Settled'
<1> USE PagesTyped
<1>1. SameState(Polite) /\ chain'[Polite] = chain[Polite] /\ making'[Polite] = making[Polite]
  BY DEF SamePage
<1>2. Offering(wire[Polite]) = {} /\ Taking(chain[Polite]) = {} /\ Answering(wire[Impolite]) = {}
  BY DEF Settled, ImpoliteInv
<1>3. Taking(chain[Impolite]) = {} /\ Answering(wire[Polite]) = {} /\ Ending(chain[Polite]) = {}
  BY DEF Settled, PoliteInv
<1>4. Agreeing(Impolite, chain[Impolite][1].signal.tracks)
  BY DEF Settled, AgreeInv
<1>5. \A i \in Offering(wire[Impolite]) : Live(i)
  BY DEF Settled, OfferInv, Guarded
<1>6. MakeInv' /\ TakeInv'
  BY PagesKeep DEF Settled
<1> USE DEF SameState, TakesAlike, EndsAlike
<1>7. ImpoliteInv'
  BY <1>1, <1>2, <1>3, <1>4, <1>5 DEF Settled, ImpoliteInv, Single
<1>8. PoliteInv'
  BY <1>1, <1>2, <1>3, <1>4, <1>5 DEF Settled, PoliteInv, Single
<1>9. OfferInv'
  BY <1>1, <1>2, <1>3, <1>4, <1>5 DEF Settled, OfferInv, Guarded, Live
<1>10. LostImpolite'
  BY <1>1, <1>2, <1>3, <1>4, <1>5 DEF Settled, LostImpolite
<1>11. LostPolite'
  BY <1>1, <1>2, <1>3, <1>4, <1>5 DEF Settled, LostPolite, Live
<1>12. RemoteInv'
  BY <1>1, <1>2, <1>3, <1>4, <1>5 DEF Settled, RemoteInv
<1>13. AgreeInv'
  <2>1. Synced'
    BY <1>1, <1>4 DEF Agreeing, Synced
  <2> QED BY <1>1, <1>2, <1>3, <2>1 DEF AgreeInv
<1> QED BY <1>6, <1>7, <1>8, <1>9, <1>10, <1>11, <1>12, <1>13 DEF Settled

(* The polite page answers: it has agreed, and the impolite page will with *)
(* the answer.  An offer of the polite page still on the wire is one it    *)
(* gave up, and is before the answer, where it will be ignored.            *)
LEMMA PoliteAnswers ==
  ASSUME Settled, SamePage(Impolite), MakeAt(Polite)', TakeAt(Polite)', ImpoliteMakes', NEW m,
         wire[Impolite] \in Seq(Signals), wire'[Polite] = wire[Polite],
         AnswerOn(wire[Impolite], wire'[Impolite], m), forsaken => forsaken',
         1 \in Taking(chain[Polite]), Taking(chain'[Polite]) = {}, EndsAlike(Polite),
         m.offer = chain[Polite][1].signal.offer, signaling[Polite] = "have-remote-offer",
         signaling'[Polite] = "stable", agreed'[Polite] = m.offer, sent'[Polite] = m.tracks,
         received'[Polite] = m.offer.tracks, making'[Polite] = making[Polite]
  PROVE  Settled'
<1> USE PagesTyped
<1>1. /\ SameState(Impolite) /\ chain'[Impolite] = chain[Impolite]
      /\ making'[Impolite] = making[Impolite]
  BY DEF SamePage
<1>2. /\ signaling[Impolite] = "have-local-offer" /\ offered[Impolite] = m.offer
      /\ Offering(wire[Polite]) = {} /\ Answering(wire[Impolite]) = {}
      /\ Ending(chain[Impolite]) = {}
  BY DEF Settled, ImpoliteInv
<1>3. Taking(chain[Impolite]) = {} /\ Answering(wire[Polite]) = {} /\ Ending(chain[Polite]) = {}
  BY DEF Settled, PoliteInv
<1>4. PICK n \in Nat :
        /\ Offering(wire'[Impolite]) = Offering(wire[Impolite]) /\ Answering(wire'[Impolite]) = {n}
        /\ wire'[Impolite][n] = m
        /\ DOMAIN wire'[Impolite] = 1 .. n
        /\ \A i \in Offering(wire[Impolite]) :
             i \in Nat /\ i < n /\ wire'[Impolite][i] = wire[Impolite][i]
  <2> DEFINE n == Len(wire[Impolite]) + 1
  <2>1. n \in Nat /\ \A i \in Offering(wire[Impolite]) : i \in 1 .. Len(wire[Impolite]) /\ i < n
    BY WireParts
  <2>2. /\ Offering(wire'[Impolite]) = Offering(wire[Impolite]) /\ Answering(wire'[Impolite]) = {n}
        /\ wire'[Impolite][n] = m /\ DOMAIN wire'[Impolite] = 1 .. n
    BY <1>2, <1>3 DEF AnswerOn
  <2>3. \A i \in 1 .. Len(wire[Impolite]) : wire'[Impolite][i] = wire[Impolite][i]
    BY DEF AnswerOn
  <2> HIDE DEF n
  <2> QED BY <2>1, <2>2, <2>3
<1>5. \A i \in Offering(wire[Impolite]) : Guarded(i)
  BY DEF Settled, OfferInv, Live
<1>6. MakeInv' /\ TakeInv'
  BY PagesKeep DEF Settled
<1> USE DEF SameState, TakesAlike, EndsAlike
<1>7. ImpoliteInv'
  BY <1>1, <1>2, <1>3, <1>4, <1>5 DEF Settled, ImpoliteInv, Single
<1>8. PoliteInv'
  BY <1>1, <1>2, <1>3, <1>4, <1>5 DEF Settled, PoliteInv, Single
<1>9. OfferInv'
  BY <1>1, <1>2, <1>3, <1>4, <1>5 DEF OfferInv, Guarded
<1>10. LostImpolite'
  BY <1>1, <1>2, <1>3, <1>4, <1>5 DEF Settled, LostImpolite
<1>11. LostPolite'
  BY <1>1, <1>2, <1>3, <1>4, <1>5 DEF Settled, LostPolite, Live
<1>12. RemoteInv'
  BY <1>1, <1>2, <1>3, <1>4, <1>5 DEF Settled, RemoteInv
<1>13. AgreeInv'
  <2>1. /\ agreed'[Polite] = offered'[Impolite] /\ received'[Polite] = offered'[Impolite].tracks
        /\ sent'[Polite] = m.tracks
    BY <1>1, <1>2
  <2>2. /\ \A i \in Answering(wire'[Impolite]) : wire'[Impolite][i] = m
        /\ Ending(chain'[Impolite]) = {} /\ Answering(wire'[Polite]) = {}
        /\ Ending(chain'[Polite]) = {}
    BY <1>1, <1>2, <1>3, <1>4
  <2>3. Answering(wire'[Impolite]) # {}
    BY <1>4
  <2> QED BY <2>1, <2>2, <2>3 DEF AgreeInv, Agreeing
<1> QED BY <1>6, <1>7, <1>8, <1>9, <1>10, <1>11, <1>12, <1>13 DEF Settled

(* The impolite page answers.                                              *)
LEMMA ImpoliteAnswers ==
  ASSUME Settled, SamePage(Polite), MakeAt(Impolite)', TakeAt(Impolite)', ImpoliteMakes', NEW m,
         wire[Polite] \in Seq(Signals), wire'[Impolite] = wire[Impolite],
         AnswerOn(wire[Polite], wire'[Polite], m), forsaken => forsaken',
         1 \in Taking(chain[Impolite]), Taking(chain'[Impolite]) = {}, EndsAlike(Impolite),
         m.offer = chain[Impolite][1].signal.offer, signaling[Impolite] = "have-remote-offer",
         signaling'[Impolite] = "stable", agreed'[Impolite] = m.offer, sent'[Impolite] = m.tracks,
         received'[Impolite] = m.offer.tracks, making'[Impolite] = making[Impolite]
  PROVE  Settled'
<1> USE PagesTyped
<1>1. SameState(Polite) /\ chain'[Polite] = chain[Polite] /\ making'[Polite] = making[Polite]
  BY DEF SamePage
<1>2. /\ signaling[Polite] = "have-local-offer" /\ offered[Polite] = m.offer
      /\ Answering(wire[Polite]) = {} /\ Ending(chain[Polite]) = {} /\ Offering(wire[Impolite]) = {}
  BY DEF Settled, PoliteInv
<1>3. /\ Offering(wire[Polite]) = {} /\ Taking(chain[Polite]) = {} /\ Answering(wire[Impolite]) = {}
      /\ Ending(chain[Impolite]) = {}
  BY DEF Settled, ImpoliteInv
<1>4. PICK n \in Nat :
        /\ Offering(wire'[Polite]) = Offering(wire[Polite]) /\ Answering(wire'[Polite]) = {n}
        /\ wire'[Polite][n] = m
        /\ DOMAIN wire'[Polite] = 1 .. n
        /\ \A i \in Offering(wire[Polite]) :
             i \in Nat /\ i < n /\ wire'[Polite][i] = wire[Polite][i]
  <2> DEFINE n == Len(wire[Polite]) + 1
  <2>1. n \in Nat /\ \A i \in Offering(wire[Polite]) : i \in 1 .. Len(wire[Polite]) /\ i < n
    BY WireParts
  <2>2. /\ Offering(wire'[Polite]) = Offering(wire[Polite]) /\ Answering(wire'[Polite]) = {n}
        /\ wire'[Polite][n] = m /\ DOMAIN wire'[Polite] = 1 .. n
    BY <1>2, <1>3 DEF AnswerOn
  <2>3. \A i \in 1 .. Len(wire[Polite]) : wire'[Polite][i] = wire[Polite][i]
    BY DEF AnswerOn
  <2> HIDE DEF n
  <2> QED BY <2>1, <2>2, <2>3
<1>5. MakeInv' /\ TakeInv'
  BY PagesKeep DEF Settled
<1> USE DEF SameState, TakesAlike, EndsAlike
<1>6. ImpoliteInv'
  BY <1>1, <1>2, <1>3, <1>4 DEF Settled, ImpoliteInv, Single
<1>7. PoliteInv'
  BY <1>1, <1>2, <1>3, <1>4 DEF Settled, PoliteInv, Single
<1>8. OfferInv'
  BY <1>1, <1>2, <1>3, <1>4 DEF Settled, OfferInv, Guarded, Live
<1>9. LostImpolite'
  BY <1>1, <1>2, <1>3, <1>4 DEF Settled, LostImpolite
<1>10. LostPolite'
  BY <1>1, <1>2, <1>3, <1>4 DEF Settled, LostPolite, Live
<1>11. RemoteInv'
  BY <1>1, <1>2, <1>3, <1>4 DEF Settled, RemoteInv
<1>12. AgreeInv'
  <2>1. /\ agreed'[Impolite] = offered'[Polite] /\ received'[Impolite] = offered'[Polite].tracks
        /\ sent'[Impolite] = m.tracks
    BY <1>1, <1>2
  <2>2. /\ \A i \in Answering(wire'[Polite]) : wire'[Polite][i] = m
        /\ Ending(chain'[Polite]) = {} /\ Answering(wire'[Impolite]) = {}
        /\ Ending(chain'[Impolite]) = {}
    BY <1>1, <1>2, <1>3, <1>4
  <2>3. Answering(wire'[Polite]) # {}
    BY <1>4
  <2> QED BY <2>1, <2>2, <2>3 DEF AgreeInv, Agreeing
<1> QED BY <1>5, <1>6, <1>7, <1>8, <1>9, <1>10, <1>11, <1>12 DEF Settled

(* A signal goes that changes nothing on the page: a candidate, or an      *)
(* offer the impolite page ignores.  If that was the offer the polite page *)
(* waits for, the impolite page must have an offer of its own under way.   *)
LEMMA PolitePasses ==
  ASSUME Settled, SamePage(Polite), SamePage(Impolite), forsaken => forsaken',
         TakenSets(Polite), wire'[Impolite] = wire[Impolite],
         Head(wire[Polite]).type = "candidate"
  PROVE  Settled'
<1> USE PagesTyped
<1>1. /\ SameState(Polite) /\ chain'[Polite] = chain[Polite] /\ making'[Polite] = making[Polite]
      /\ SameState(Impolite) /\ chain'[Impolite] = chain[Impolite]
      /\ making'[Impolite] = making[Impolite]
  BY DEF SamePage
<1>2. /\ Offering(wire[Polite]) = {} <=> Offering(wire'[Polite]) = {}
      /\ \A i \in Offering(wire'[Polite]) :
           i + 1 \in Offering(wire[Polite]) /\ i \in Nat /\ wire'[Polite][i] = wire[Polite][i + 1]
      /\ Single(Offering(wire[Polite])) => Single(Offering(wire'[Polite]))
  BY DEF TakenSets, Dropped
<1>3. /\ Answering(wire[Polite]) = {} <=> Answering(wire'[Polite]) = {}
      /\ \A i \in Answering(wire'[Polite]) :
           i + 1 \in Answering(wire[Polite]) /\ i \in Nat /\ wire'[Polite][i] = wire[Polite][i + 1]
      /\ Single(Answering(wire[Polite])) => Single(Answering(wire'[Polite]))
  BY DEF TakenSets, Dropped
<1>4. MakeInv'
  BY <1>1 DEF Settled, MakeInv, MakeAt, SameState, SamePage
<1>5. TakeInv' /\ ImpoliteMakes'
  BY <1>1 DEF Settled, TakeInv, TakeAt, ImpoliteMakes, SameState
<1> USE DEF SameState
<1>6. ImpoliteInv'
  BY <1>1, <1>2 DEF Settled, ImpoliteInv
<1>7. PoliteInv'
  BY <1>1, <1>2, <1>3 DEF Settled, PoliteInv
<1>8. OfferInv'
  BY <1>1 DEF Settled, OfferInv, Guarded, Live
<1>9. LostImpolite'
  BY <1>1, <1>2 DEF Settled, LostImpolite
<1>10. LostPolite'
  BY <1>1, <1>2, <1>3 DEF Settled, LostPolite, Live
<1>11. RemoteInv'
  BY <1>1, <1>2 DEF Settled, RemoteInv
<1>12. AgreeInv'
  BY <1>1, <1>3 DEF Settled, AgreeInv, Agreeing, Synced
<1> QED BY <1>4, <1>5, <1>6, <1>7, <1>8, <1>9, <1>10, <1>11, <1>12 DEF Settled

LEMMA ImpolitePasses ==
  ASSUME Settled, SamePage(Polite), SamePage(Impolite), forsaken => forsaken',
         TakenSets(Impolite), wire'[Polite] = wire[Polite],
         Head(wire[Impolite]).type # "answer",
         Head(wire[Impolite]).type = "offer" /\ Live(1) =>
           \/ forsaken' \/ making[Impolite]
           \/ Offering(wire[Polite]) # {} \/ Taking(chain[Polite]) # {}
  PROVE  Settled'
<1> USE PagesTyped
<1>1. /\ SameState(Polite) /\ chain'[Polite] = chain[Polite] /\ making'[Polite] = making[Polite]
      /\ SameState(Impolite) /\ chain'[Impolite] = chain[Impolite]
      /\ making'[Impolite] = making[Impolite]
  BY DEF SamePage
<1>2. /\ Offering(wire[Impolite]) = {} => Offering(wire'[Impolite]) = {}
      /\ \A i \in Offering(wire'[Impolite]) :
           i + 1 \in Offering(wire[Impolite]) /\ i \in Nat
             /\ wire'[Impolite][i] = wire[Impolite][i + 1]
      /\ \A i \in Offering(wire[Impolite]) : i = 1 \/ i - 1 \in Offering(wire'[Impolite])
  <2>1. ASSUME Offering(wire[Impolite]) = {} PROVE Offering(wire'[Impolite]) = {}
    BY <2>1 DEF TakenSets, Dropped
  <2> QED BY <2>1 DEF TakenSets, Dropped
<1>3. /\ Answering(wire[Impolite]) = {} <=> Answering(wire'[Impolite]) = {}
      /\ \A i \in Answering(wire'[Impolite]) :
           i + 1 \in Answering(wire[Impolite]) /\ i \in Nat
             /\ wire'[Impolite][i] = wire[Impolite][i + 1]
      /\ Single(Answering(wire[Impolite])) => Single(Answering(wire'[Impolite]))
  BY DEF TakenSets, Dropped
<1>4. ASSUME NEW i \in Offering(wire'[Impolite]), Live(i + 1) PROVE Live(i)'
  <2>1. ASSUME NEW j \in DOMAIN wire'[Impolite], i < j PROVE wire'[Impolite][j].type = "candidate"
    <3>1. j \in Nat /\ j + 1 \in DOMAIN wire[Impolite] /\ wire'[Impolite][j] = wire[Impolite][j + 1]
      BY DEF TakenSets
    <3>2. i + 1 < j + 1
      BY <1>2, <2>1, <3>1
    <3> QED BY <1>4, <3>1, <3>2 DEF Live
  <2>2. wire'[Impolite][i] = wire[Impolite][i + 1]
    BY <1>2
  <2> QED BY <1>1, <1>4, <2>1, <2>2 DEF Live, SameState
<1>5. MakeInv'
  BY <1>1 DEF Settled, MakeInv, MakeAt, SameState, SamePage
<1>6. TakeInv' /\ ImpoliteMakes'
  BY <1>1 DEF Settled, TakeInv, TakeAt, ImpoliteMakes, SameState
<1> USE DEF SameState
<1>7. ImpoliteInv'
  BY <1>1, <1>3 DEF Settled, ImpoliteInv
<1>8. PoliteInv'
  BY <1>1, <1>2, <1>3 DEF Settled, PoliteInv
<1>9. OfferInv'
  <2> SUFFICES ASSUME NEW i \in Offering(wire'[Impolite]), Guarded(i + 1) PROVE Guarded(i)'
    BY <1>2, <1>4 DEF Settled, OfferInv
  <2>1. ASSUME NEW j \in Answering(wire'[Impolite]) PROVE i < j
    <3>1. i + 1 < j + 1
      BY <1>3, <2>1 DEF Guarded
    <3> QED BY <1>2, <1>3, <2>1, <3>1
  <2> QED BY <1>1, <2>1 DEF Guarded
<1>10. LostImpolite'
  BY <1>1, <1>3 DEF Settled, LostImpolite
<1>11. LostPolite'
  <2>1. ASSUME NEW i \in Offering(wire[Impolite]), Live(i), i # 1
        PROVE  \E k \in Offering(wire'[Impolite]) : Live(k)'
    <3>1. i - 1 \in Offering(wire'[Impolite]) /\ i \in Nat
      BY <1>2, <2>1 DEF Offering, TakenSets
    <3>2. (i - 1) + 1 = i
      BY <3>1
    <3>3. Live(i - 1)'
      BY <1>4, <2>1, <3>1, <3>2
    <3> QED BY <3>1, <3>3
  <2>2. 1 \in Offering(wire[Impolite]) => Head(wire[Impolite]).type = "offer"
    BY DEF TakenSets
  <2> QED BY <1>1, <2>1, <2>2 DEF Settled, LostPolite
<1>12. RemoteInv'
  BY <1>1, <1>3 DEF Settled, RemoteInv
<1>13. AgreeInv'
  BY <1>1, <1>3 DEF Settled, AgreeInv, Agreeing, Synced
<1> QED BY <1>5, <1>6, <1>7, <1>8, <1>9, <1>10, <1>11, <1>12, <1>13 DEF Settled

(* What keeps MakeAt: a step on the chain that is not about making offers. *)
LEMMA AskKeepsMaking ==
  ASSUME NEW p \in Pages, NEW o, MakeAt(p), AskSets(p, o), ~Makes(o), ~Queued(o), SameState(p),
         making'[p] = making[p], fired'[p] = fired[p]
  PROVE  MakeAt(p)'
BY DEF MakeAt, AskSets, Added, SameState

LEMMA DoneKeepsMaking ==
  ASSUME NEW p \in Pages, MakeAt(p), DoneSets(p), ~Makes(Head(chain[p])), making'[p] = making[p],
         signaling'[p] = "have-local-offer" => signaling[p] = "have-local-offer",
         fired'[p] /\ signaling'[p] = "stable" => fired[p] /\ signaling[p] = "stable"
  PROVE  MakeAt(p)'
<1>1. Queueing(chain[p]) = {} => Queueing(chain'[p]) = {}
  BY DEF DoneSets, Dropped
<1>2. /\ Single(Making(chain'[p]))
      /\ \A i \in Making(chain'[p]) : chain'[p][i].by = "needed" /\ making[p]
  BY DEF MakeAt, DoneSets, Dropped
<1> QED BY <1>1, <1>2 DEF MakeAt

LEMMA NextKeepsMaking ==
  ASSUME NEW p \in Pages, NEW o, MakeAt(p), NextSets(p, o), ~Makes(Head(chain[p])), ~Makes(o),
         making'[p] = making[p],
         signaling'[p] = "have-local-offer" => signaling[p] = "have-local-offer",
         fired'[p] /\ signaling'[p] = "stable" => fired[p] /\ signaling[p] = "stable",
         Queued(o) => ~making[p] /\ signaling'[p] # "have-local-offer"
  PROVE  MakeAt(p)'
<1>1. Queueing(chain[p]) = {} /\ ~Queued(o) => Queueing(chain'[p]) = {}
  BY DEF NextSets, Replaced
<1>2. /\ Single(Making(chain'[p]))
      /\ \A i \in Making(chain'[p]) : chain'[p][i].by = "needed" /\ making[p]
  BY DEF MakeAt, NextSets, Replaced
<1> QED BY <1>1, <1>2 DEF MakeAt

(* What keeps TakeAt: the first operation has no part in taking an offer   *)
(* or ending an exchange, and neither has the one that follows it.         *)
LEMMA DoneKeepsTaking ==
  ASSUME NEW p \in Pages, TakeAt(p), DoneSets(p), ~Takes(Head(chain[p])), ~Ends(Head(chain[p])),
         signaling'[p] = signaling[p]
  PROVE  /\ TakeAt(p)'
         /\ TakesAlike(p)
         /\ EndsAlike(p)
<1>1. /\ \A i \in Taking(chain'[p]) :
           i + 1 \in Taking(chain[p]) /\ i \in Nat /\ chain'[p][i] = chain[p][i + 1]
      /\ Single(Taking(chain[p])) => Single(Taking(chain'[p]))
      /\ Taking(chain'[p]) = {} <=> Taking(chain[p]) = {}
  BY DEF DoneSets, Dropped
<1>2. /\ \A i \in Ending(chain'[p]) :
           i + 1 \in Ending(chain[p]) /\ i \in Nat /\ chain'[p][i] = chain[p][i + 1]
      /\ Single(Ending(chain[p])) => Single(Ending(chain'[p]))
      /\ Ending(chain'[p]) = {} <=> Ending(chain[p]) = {}
  BY DEF DoneSets, Dropped
<1>3. TakeAt(p)'
  BY <1>1, <1>2 DEF TakeAt
<1> QED BY <1>1, <1>2, <1>3 DEF TakesAlike, EndsAlike

LEMMA NextKeepsTaking ==
  ASSUME NEW p \in Pages, NEW o, TakeAt(p), NextSets(p, o), ~Takes(Head(chain[p])),
         ~Ends(Head(chain[p])),
         ~Takes(o), ~Ends(o), signaling'[p] = signaling[p]
  PROVE  /\ TakeAt(p)'
         /\ TakesAlike(p)
         /\ EndsAlike(p)
<1>1. /\ \A i \in Taking(chain'[p]) :
           i + 1 \in Taking(chain[p]) /\ i \in Nat /\ chain'[p][i] = chain[p][i + 1]
      /\ Single(Taking(chain[p])) => Single(Taking(chain'[p]))
      /\ Taking(chain'[p]) = {} <=> Taking(chain[p]) = {}
  BY DEF NextSets, Replaced
<1>2. /\ \A i \in Ending(chain'[p]) :
           i + 1 \in Ending(chain[p]) /\ i \in Nat /\ chain'[p][i] = chain[p][i + 1]
      /\ Single(Ending(chain[p])) => Single(Ending(chain'[p]))
      /\ Ending(chain'[p]) = {} <=> Ending(chain[p]) = {}
  BY DEF NextSets, Replaced
<1>3. TakeAt(p)'
  BY <1>1, <1>2 DEF TakeAt
<1> QED BY <1>1, <1>2, <1>3 DEF TakesAlike, EndsAlike

(* One operation that takes an offer gives way to the next one.            *)
LEMMA NextTakes ==
  ASSUME NEW p \in Pages, NEW o, TakeAt(p), First(p), NextSets(p, o), Takes(Head(chain[p])),
         Takes(o),
         o.signal = Head(chain[p]).signal, o.op # "rollback",
         Answers(o) => signaling'[p] = "have-remote-offer",
         p = Impolite => signaling'[p] # "have-local-offer"
  PROVE  /\ TakeAt(p)' /\ Taking(chain'[p]) # {}
         /\ TakesAlike(p)
         /\ EndsAlike(p)
         /\ p = Polite => Ending(chain[p]) = {} /\ Ending(chain'[p]) = {}
<1>1. 1 \in Taking(chain[p]) /\ 1 \notin Ending(chain[p]) /\ ~Ends(o) /\ ~Ends(Head(chain[p]))
  BY Kinds DEF First
<1>2. \A i \in Taking(chain'[p]) : i = Len(chain[p]) /\ chain'[p][i] = o
  <2>1. \A i \in Taking(chain'[p]) : (i + 1 \in Taking(chain[p]) /\ i \in Nat) \/ i = Len(chain[p])
    BY DEF NextSets, Replaced
  <2>2. ASSUME NEW i \in Taking(chain'[p]) PROVE i = Len(chain[p])
    <3>1. Single(Taking(chain'[p])) /\ Len(chain[p]) \in Taking(chain'[p])
      BY DEF TakeAt, NextSets, Replaced
    <3> QED BY <3>1 DEF Single
  <2> QED BY <2>2 DEF NextSets
<1>3. Len(chain[p]) \in Taking(chain'[p])
  BY DEF NextSets, Replaced
<1>4. /\ \A i \in Ending(chain'[p]) :
           i + 1 \in Ending(chain[p]) /\ i \in Nat /\ chain'[p][i] = chain[p][i + 1]
      /\ Single(Ending(chain[p])) => Single(Ending(chain'[p]))
      /\ Ending(chain'[p]) = {} <=> Ending(chain[p]) = {}
  BY <1>1 DEF NextSets, Replaced
<1>5. p = Polite => Ending(chain[p]) = {}
  <2>1. p = Polite => \A j \in Ending(chain[p]) : j < 1
    BY <1>1 DEF TakeAt
  <2>2. \A j \in Ending(chain[p]) : j \in Nat \ {0}
    BY DEF Ending, First
  <2> QED BY <2>1, <2>2
<1>6. TakeAt(p)'
  BY <1>2, <1>4, <1>5 DEF TakeAt, Single
<1>7. TakesAlike(p)
  <2>1. \A i \in Taking(chain'[p]) : chain'[p][i].signal = chain[p][1].signal
    BY <1>2 DEF First
  <2> QED BY <1>1, <1>3, <2>1 DEF TakesAlike, EndsAlike
<1>8. EndsAlike(p)
  BY <1>4 DEF TakesAlike, EndsAlike
<1> QED BY <1>3, <1>4, <1>5, <1>6, <1>7, <1>8

(* Nothing the invariant speaks of changes.                                *)
LEMMA SettledSame ==
  ASSUME Settled, UNCHANGED <<connection, chain, making, fired, wire, forsaken>>
  PROVE  Settled'
<1>1. UNCHANGED <<signaling, offered, agreed, sent, received, chain, making, fired, wire, forsaken>>
  BY DEF connection
<1>2. MakeInv' /\ ImpoliteMakes' /\ TakeInv'
  BY <1>1 DEF Settled, MakeInv, MakeAt, ImpoliteMakes, TakeInv, TakeAt
<1>3. ImpoliteInv'
  BY <1>1 DEF Settled, ImpoliteInv
<1>4. PoliteInv'
  BY <1>1 DEF Settled, PoliteInv
<1>5. OfferInv' /\ LostImpolite' /\ LostPolite'
  BY <1>1 DEF Settled, OfferInv, Guarded, Live, LostImpolite, LostPolite
<1>6. RemoteInv'
  BY <1>1 DEF Settled, RemoteInv
<1>7. AgreeInv'
  BY <1>1 DEF Settled, AgreeInv, Agreeing, Synced
<1> QED BY <1>2, <1>3, <1>4, <1>5, <1>6, <1>7 DEF Settled

(* onnegotiationneeded begins an offer, in stable and with an empty chain. *)
LEMMA NeededSettles ==
  ASSUME NegotiationTypeOK, Settled, NEW p \in Pages, NegotiationNeeded(p)
  PROVE  Settled'
<1> DEFINE o == [op |-> "createOffer", by |-> "needed", n |-> offers[p] + 1]
           q == Other(p)
<1>1. QueuesTyped /\ ConnectionTyped /\ OtherTyped
  BY TypeIsParts
<1>2. o \in Operations
  <2>1. offers[p] + 1 \in 1 .. MaxOffers
    BY <1>1, Bounds DEF NegotiationNeeded, ConnectionTyped
  <2> QED BY <2>1, NewOperations
<1>3. Makes(o) /\ ~Takes(o) /\ ~Ends(o) /\ ~Queued(o) /\ o.by = "needed"
  BY DEF Makes, Takes, Ends, Queued, Answers
<1>4. Ask(p, o)
  BY DEF NegotiationNeeded
<1>5. /\ UNCHANGED <<signaling, offered, agreed, sent, received, wire, forsaken>>
      /\ making' = [making EXCEPT ![p] = TRUE] /\ fired' = [fired EXCEPT ![p] = TRUE]
      /\ signaling[p] = "stable" /\ chain[p] = <<>>
  BY DEF NegotiationNeeded, Needed
<1> HIDE DEF o
<1>6. AskSets(p, o) /\ chain'[q] = chain[q] /\ q \in Pages /\ q # p
  BY <1>1, <1>2, <1>4, AskSetsHold, PagesTyped
<1> HIDE DEF q
<1>7. SameState(p) /\ SamePage(q) /\ making'[p] = TRUE
  BY <1>1, <1>5, <1>6 DEF SameState, SamePage, OtherTyped
<1>8. /\ Making(chain[p]) = {} /\ Taking(chain[p]) = {} /\ Ending(chain[p]) = {}
      /\ Queueing(chain[p]) = {}
  BY <1>5 DEF Making, Taking, Ending, Queueing
<1>9. Taking(chain'[p]) = {} /\ Ending(chain'[p]) = {} /\ Queueing(chain'[p]) = {}
  BY <1>3, <1>6, <1>8 DEF AskSets, Added
<1>10. \A i \in Making(chain'[p]) : i = Len(chain[p]) + 1 /\ chain'[p][i] = o
  BY <1>3, <1>6, <1>8 DEF AskSets, Added
<1>11. MakeAt(p)'
  BY <1>3, <1>5, <1>7, <1>9, <1>10 DEF MakeAt, Single, SameState
<1>12. TakeAt(p)'
  BY <1>9 DEF TakeAt, Single
<1>13. ImpoliteMakes'
  <2>1. CASE p = Impolite
    BY <1>5, <1>7, <1>9, <2>1 DEF ImpoliteMakes, SameState
  <2>2. CASE q = Impolite
    BY <1>7, <2>2 DEF Settled, ImpoliteMakes, SameState, SamePage
  <2> QED BY <1>6, <2>1, <2>2 DEF Pages
<1>14. /\ TakesAlike(p)
       /\ EndsAlike(p)
  BY <1>8, <1>9 DEF TakesAlike, EndsAlike
<1>15. making[Impolite] => making'[Impolite]
  BY <1>6, <1>7 DEF SamePage, Pages
<1>16. wire' = wire /\ (forsaken => forsaken') /\ q = Other(p)
  BY <1>5 DEF q
<1> QED BY <1>6, <1>7, <1>11, <1>12, <1>13, <1>14, <1>15, <1>16, ChainMoves

(* An operation is asked for that takes an offer, or ends an exchange.     *)
LEMMA AskTakes ==
  ASSUME NEW p \in Pages, NEW o, TakeAt(p), AskSets(p, o), Takes(o), ~Answers(o), SameState(p),
         Taking(chain[p]) = {},
         p = Polite => o.op = "rollback" \/ Ending(chain[p]) = {},
         p = Impolite => o.op # "rollback" /\ signaling[p] # "have-local-offer"
  PROVE  /\ TakeAt(p)' /\ Taking(chain'[p]) = {Len(chain[p]) + 1}
         /\ chain'[p][Len(chain[p]) + 1].signal = o.signal
         /\ EndsAlike(p)
<1>1. ~Ends(o)
  BY Kinds
<1>2. Taking(chain'[p]) = {Len(chain[p]) + 1} /\ chain'[p][Len(chain[p]) + 1] = o
  BY DEF AskSets, Added
<1>3. Ending(chain'[p]) = Ending(chain[p]) /\ \A j \in Ending(chain[p]) : chain'[p][j] = chain[p][j]
        /\ j < Len(chain[p]) + 1
  BY <1>1 DEF AskSets, Added
<1>4. TakeAt(p)'
  BY <1>2, <1>3 DEF TakeAt, Single, SameState
<1> QED BY <1>2, <1>3, <1>4 DEF TakesAlike, EndsAlike

LEMMA AskEnds ==
  ASSUME NEW p \in Pages, NEW o, TakeAt(p), AskSets(p, o), Ends(o),
         Taking(chain[p]) = {}, Ending(chain[p]) = {}
  PROVE  /\ TakeAt(p)' /\ Ending(chain'[p]) = {Len(chain[p]) + 1} /\ Taking(chain'[p]) = {}
         /\ chain'[p][Len(chain[p]) + 1].signal = o.signal
         /\ TakesAlike(p)
<1>1. ~Takes(o)
  BY Kinds
<1>2. /\ Ending(chain'[p]) = {Len(chain[p]) + 1} /\ chain'[p][Len(chain[p]) + 1] = o
      /\ Taking(chain'[p]) = {}
  BY <1>1 DEF AskSets, Added
<1>3. TakeAt(p)'
  BY <1>2 DEF TakeAt, Single
<1> QED BY <1>2, <1>3 DEF TakesAlike, EndsAlike

(* When the impolite page's answer is in its chain, it is the last there:  *)
(* this is what handleSignal cannot see when it ignores an offer, and what *)
(* forsaken records.                                                       *)
LEMMA AnsweredKnown ==
  ASSUME NegotiationTypeOK, Settled, signaling[Impolite] = "have-local-offer",
         Ending(chain[Impolite]) # {}
  PROVE  chain[Impolite] # <<>> /\ Last(chain[Impolite]).op = "setRemote"
<1>1. PICK c \in Seq(Operations) : c = chain[Impolite]
  BY TypeIsParts, PagesTyped DEF QueuesTyped
<1>2. c # <<>>
  BY <1>1 DEF Ending
<1>3. Len(c) \in DOMAIN c /\ Last(c) = c[Len(c)] /\ c[Len(c)] \in Operations
  BY <1>2 DEF Last
<1>4. ~Makes(c[Len(c)])
  <2>1. ~making[Impolite]
    BY DEF Settled, ImpoliteMakes
  <2>2. Making(chain[Impolite]) = {}
    BY <2>1, PagesTyped DEF Settled, MakeInv, MakeAt
  <2> QED BY <1>1, <1>3, <2>2 DEF Making
<1>5. ~Takes(c[Len(c)])
  BY <1>1, <1>3, PagesTyped DEF Settled, TakeInv, TakeAt, Taking
<1>6. ~Queued(c[Len(c)])
  <2>1. Queueing(chain[Impolite]) = {}
    BY PagesTyped DEF Settled, MakeInv, MakeAt
  <2> QED BY <1>1, <1>3, <2>1 DEF Queueing
<1>7. c[Len(c)].op \in {"setRemote", "addQueued"} => c[Len(c)].signal.type \in {"offer", "answer"}
  BY <1>3, OperationParts, DescriptionParts
<1> QED BY <1>1, <1>2, <1>3, <1>4, <1>5, <1>6, <1>7, OperationParts
        DEF Makes, Takes, Queued, Answers

(* An answer is taken only by a page that waits for it.                    *)
LEMMA AnswerSettles ==
  ASSUME NegotiationTypeOK, Settled, NEW p \in Pages, HandleSignal(p), Head(wire[p]).type = "answer"
  PROVE  Settled'
<1> DEFINE m == Head(wire[p])
           o == [op |-> "setRemote", signal |-> m]
           q == Other(p)
<1>1. QueuesTyped /\ ConnectionTyped /\ OtherTyped
  BY TypeIsParts
<1>2. TakenSets(p) /\ m \in Signals /\ wire'[q] = wire[q] /\ q \in Pages /\ q # p
  BY <1>1, TakenSetsHold, PagesTyped DEF HandleSignal
<1>3. 1 \in Answering(wire[p])
  BY <1>2 DEF TakenSets
<1>4. /\ signaling[p] = "have-local-offer" /\ Taking(chain[p]) = {} /\ Ending(chain[p]) = {}
  <2>1. CASE p = Polite
    BY <1>3, <2>1 DEF Settled, PoliteInv
  <2>2. CASE p = Impolite
    <3>1. signaling[p] = "have-local-offer" /\ Ending(chain[p]) = {}
      BY <1>3, <2>2 DEF Settled, ImpoliteInv
    <3>2. Taking(chain[p]) = {}
      BY <2>2, <3>1 DEF Settled, TakeInv, TakeAt
    <3> QED BY <3>1, <3>2
  <2> QED BY <2>1, <2>2 DEF Pages
<1>5. /\ Ask(p, o) /\ UNCHANGED <<connection, making, fired, forsaken>>
  BY <1>4 DEF HandleSignal, TakeOffer, TakeAnswer, TakeCandidate
<1>6. o \in Operations /\ Ends(o) /\ ~Makes(o) /\ ~Queued(o) /\ o.signal = m
  <2>1. m \in Descriptions({"offer", "answer"})
    BY <1>2, SignalParts
  <2> QED BY <2>1, NewOperations DEF Ends, Makes, Queued
<1> HIDE DEF m, o, q
<1>7. AskSets(p, o) /\ chain'[q] = chain[q]
  BY <1>1, <1>2, <1>5, <1>6, AskSetsHold
<1>8. SameState(p) /\ SamePage(q) /\ making'[p] = making[p] /\ fired'[p] = fired[p]
  BY <1>5, <1>7 DEF SameState, SamePage, connection
<1>9. MakeAt(p)'
  BY <1>6, <1>7, <1>8, AskKeepsMaking DEF Settled, MakeInv
<1>10. /\ TakeAt(p)' /\ Ending(chain'[p]) = {Len(chain[p]) + 1} /\ Taking(chain'[p]) = {}
       /\ chain'[p][Len(chain[p]) + 1].signal = m
       /\ TakesAlike(p)
  BY <1>4, <1>6, <1>7, AskEnds DEF Settled, TakeInv
<1>11. ImpoliteMakes'
  <2>1. CASE p = Impolite
    BY <1>8, <1>10, <2>1 DEF Settled, ImpoliteMakes, SameState
  <2>2. CASE q = Impolite
    BY <1>8, <2>2 DEF Settled, ImpoliteMakes, SameState, SamePage
  <2> QED BY <1>2, <2>1, <2>2 DEF Pages
<1>12. (forsaken => forsaken') /\ m = Head(wire[p]) /\ q = Other(p)
  BY <1>5 DEF m, q
<1>13. CASE p = Polite
  <2>1. q = Impolite
    BY <1>12, <1>13, PagesTyped
  <2> QED BY <1>2, <1>8, <1>9, <1>10, <1>11, <1>12, <1>13, <2>1, PoliteTakesAnswer
<1>14. CASE p = Impolite
  <2>1. q = Polite
    BY <1>12, <1>14, PagesTyped
  <2> QED BY <1>2, <1>8, <1>9, <1>10, <1>11, <1>12, <1>14, <2>1, ImpoliteTakesAnswer
<1> QED BY <1>13, <1>14 DEF Pages

(* A page asks for the operation o to take the offer m that came.          *)
LEMMA OfferAsked ==
  ASSUME NegotiationTypeOK, Settled, NEW p \in Pages, HandleSignal(p), NEW m, m = Head(wire[p]),
         m.type = "offer",
         NEW o, o.signal = m, Ask(p, o), o \in Operations,
         o = [op |-> "setRemote", signal |-> m] \/ o = [op |-> "rollback", signal |-> m],
         p = Polite => o.op = "rollback" \/ signaling[p] = "stable",
         p = Impolite => o.op = "setRemote" /\ signaling[p] = "stable" /\ ~making[p],
         forsaken => forsaken'
  PROVE  Settled'
<1> DEFINE q == Other(p)
<1>1. QueuesTyped /\ ConnectionTyped /\ OtherTyped
  BY TypeIsParts
<1>2. TakenSets(p) /\ wire'[q] = wire[q] /\ q \in Pages /\ q # p
  BY <1>1, TakenSetsHold, PagesTyped DEF HandleSignal
<1>3. 1 \in Offering(wire[p])
  BY <1>2 DEF TakenSets
<1>4. Taking(chain[p]) = {} /\ (p = Polite => o.op = "rollback" \/ Ending(chain[p]) = {})
  <2>1. CASE p = Polite
    <3>1. Taking(chain[p]) = {}
      BY <1>3, <2>1 DEF Settled, ImpoliteInv
    <3>2. signaling[p] = "stable" => Ending(chain[p]) = {}
      BY <2>1 DEF Settled, PoliteInv
    <3> QED BY <3>1, <3>2
  <2>2. CASE p = Impolite
    <3>1. Taking(chain[p]) = {}
      BY <1>3, <2>2 DEF Settled, PoliteInv
    <3> QED BY <2>2, <3>1, PagesTyped
  <2> QED BY <2>1, <2>2 DEF Pages
<1>5. UNCHANGED <<connection, making, fired>>
  BY DEF HandleSignal
<1>6. Takes(o) /\ ~Makes(o) /\ ~Queued(o) /\ ~Answers(o)
  BY DEF Takes, Makes, Queued, Answers
<1> HIDE DEF q
<1>7. AskSets(p, o) /\ chain'[q] = chain[q]
  BY <1>1, <1>2, AskSetsHold
<1>8. SameState(p) /\ SamePage(q) /\ making'[p] = making[p] /\ fired'[p] = fired[p]
  BY <1>5, <1>7 DEF SameState, SamePage, connection
<1>9. MakeAt(p)'
  BY <1>6, <1>7, <1>8, AskKeepsMaking DEF Settled, MakeInv
<1>10. /\ TakeAt(p)' /\ Taking(chain'[p]) = {Len(chain[p]) + 1}
       /\ chain'[p][Len(chain[p]) + 1].signal = m
       /\ EndsAlike(p)
  <2>1. TakeAt(p) /\ (p = Impolite => o.op # "rollback" /\ signaling[p] # "have-local-offer")
    BY DEF Settled, TakeInv
  <2> QED BY <1>4, <1>6, <1>7, <1>8, <2>1, AskTakes
<1>11. ImpoliteMakes'
  <2>1. CASE p = Impolite
    BY <1>8, <2>1 DEF ImpoliteMakes
  <2>2. CASE q = Impolite
    BY <1>8, <2>2 DEF Settled, ImpoliteMakes, SameState, SamePage
  <2> QED BY <1>2, <2>1, <2>2 DEF Pages
<1>12. q = Other(p)
  BY DEF q
<1>13. CASE p = Polite
  <2>1. q = Impolite
    BY <1>12, <1>13, PagesTyped
  <2> QED BY <1>2, <1>8, <1>9, <1>10, <1>11, <1>13, <2>1, PoliteTakesOffer
<1>14. CASE p = Impolite
  <2>1. q = Polite
    BY <1>12, <1>14, PagesTyped
  <2> QED BY <1>2, <1>8, <1>9, <1>10, <1>11, <1>14, <2>1, ImpoliteTakesOffer
<1> QED BY <1>13, <1>14 DEF Pages

(* handleSignal with an offer.  The impolite page ignores it when it makes *)
(* an offer itself or waits for an answer; then the polite page's offer is *)
(* lost for good only if the answer was being applied already, and the     *)
(* step is recorded as forsaken.                                           *)
LEMMA OfferSettles ==
  ASSUME NegotiationTypeOK, Settled, NEW p \in Pages, HandleSignal(p), Head(wire[p]).type = "offer"
  PROVE  Settled'
<1> DEFINE m == Head(wire[p])
           collision == making[p] \/ signaling[p] # "stable"
           answered == chain[p] # <<>> /\ Last(chain[p]).op = "setRemote"
<1>1. QueuesTyped /\ ConnectionTyped /\ OtherTyped
  BY TypeIsParts
<1>2. /\ m \in Descriptions({"offer"}) /\ m \in Descriptions({"offer", "answer"})
  BY <1>1, TakenSetsHold, SignalParts, SomeOffers DEF HandleSignal
<1>3. TakeOffer(p, m)
  BY DEF HandleSignal
<1>4. forsaken => forsaken'
  BY <1>3 DEF TakeOffer
<1>5. ASSUME ~(collision /\ p = Impolite), signaling[p] # "stable" PROVE Settled'
  <2>1. PICK o : o = [op |-> "rollback", signal |-> m]
    OBVIOUS
  <2>2. Ask(p, o)
    BY <1>3, <1>5, <2>1 DEF TakeOffer
  <2>3. o \in Operations /\ o.signal = m
    BY <1>2, <2>1, NewOperations
  <2> HIDE DEF m
  <2> QED BY <1>4, <1>5, <2>1, <2>2, <2>3, OfferAsked DEF m
<1>6. ASSUME ~(collision /\ p = Impolite), signaling[p] = "stable" PROVE Settled'
  <2>1. PICK o : o = [op |-> "setRemote", signal |-> m]
    OBVIOUS
  <2>2. Ask(p, o)
    BY <1>3, <1>6, <2>1 DEF TakeOffer
  <2>3. o \in Operations /\ o.signal = m
    BY <1>2, <2>1, NewOperations
  <2> HIDE DEF m
  <2> QED BY <1>4, <1>6, <2>1, <2>2, <2>3, OfferAsked DEF m
<1>7. ASSUME collision, p = Impolite PROVE Settled'
  <2>1. UNCHANGED <<connection, chain, making, fired>> /\ (answered => forsaken')
    BY <1>3, <1>7 DEF HandleSignal, TakeOffer
  <2>2. SamePage(Polite) /\ SamePage(Impolite)
    BY <2>1 DEF SamePage, SameState, connection
  <2>3. TakenSets(Impolite) /\ wire'[Polite] = wire[Polite]
    BY <1>1, <1>7, TakenSetsHold, PagesTyped DEF HandleSignal
  <2>4. ASSUME Live(1), ~forsaken', ~making[Impolite]
        PROVE  Offering(wire[Polite]) # {} \/ Taking(chain[Polite]) # {}
    <3>1. signaling[Impolite] # "stable" /\ ~forsaken
      BY <1>4, <1>7, <2>4
    <3>2. 1 \in Offering(wire[Impolite]) /\ Answering(wire[Impolite]) = {}
      <4>1. 1 \in Offering(wire[Impolite])
        BY <1>7, <2>3 DEF TakenSets
      <4>2. \A j \in DOMAIN wire[Impolite] : wire[Impolite][j].type # "answer"
        BY <1>7, <2>3, <2>4 DEF Live, TakenSets
      <4> QED BY <4>1, <4>2 DEF Answering
    <3>3. signaling[Impolite] # "have-remote-offer"
      BY <3>1, <3>2 DEF Settled, RemoteInv, PoliteInv
    <3>4. signaling[Impolite] = "have-local-offer"
      BY <1>1, <3>1, <3>3, PagesTyped DEF ConnectionTyped
    <3>5. Ending(chain[Impolite]) = {}
      BY <1>7, <2>1, <2>4, <3>4, AnsweredKnown
    <3> QED BY <3>1, <3>2, <3>4, <3>5 DEF Settled, LostImpolite
  <2> QED BY <1>4, <1>7, <2>2, <2>3, <2>4, ImpolitePasses
<1> QED BY <1>5, <1>6, <1>7

(* handleSignal with a candidate, and with any signal.                     *)
LEMMA CandidateSettles ==
  ASSUME NegotiationTypeOK, Settled, NEW p \in Pages, HandleSignal(p),
         Head(wire[p]).type = "candidate"
  PROVE  Settled'
<1>1. QueuesTyped
  BY TypeIsParts
<1>2. UNCHANGED <<connection, chain, making, fired, forsaken>>
  BY DEF HandleSignal, TakeCandidate
<1>3. SamePage(Polite) /\ SamePage(Impolite)
  BY <1>2 DEF SamePage, SameState, connection
<1>4. TakenSets(p) /\ \A q \in Pages : q # p => wire'[q] = wire[q]
  BY <1>1, TakenSetsHold DEF HandleSignal
<1>5. CASE p = Polite
  BY <1>2, <1>3, <1>4, <1>5, PolitePasses, PagesTyped
<1>6. CASE p = Impolite
  BY <1>2, <1>3, <1>4, <1>6, ImpolitePasses, PagesTyped
<1> QED BY <1>5, <1>6 DEF Pages

LEMMA HandleSettles ==
  ASSUME NegotiationTypeOK, Settled, NEW p \in Pages, HandleSignal(p)
  PROVE  Settled'
<1>1. Head(wire[p]).type \in {"offer", "answer", "candidate"}
  BY DEF HandleSignal
<1> QED BY <1>1, OfferSettles, AnswerSettles, CandidateSettles

(* A step of p that leaves ImpoliteMakes alone.                            *)
LEMMA MakesKept ==
  ASSUME Settled, NEW p \in Pages, SamePage(Other(p)),
         p = Impolite => \/ ~making'[p]
                         \/ making[p] /\ signaling'[p] = signaling[p]
                              /\ (Taking(chain[p]) = {} => Taking(chain'[p]) = {})
  PROVE  ImpoliteMakes'
<1>1. CASE p = Impolite
  BY <1>1 DEF Settled, ImpoliteMakes
<1>2. CASE p = Polite
  BY <1>2, PagesTyped DEF Settled, ImpoliteMakes, SamePage, SameState
<1> QED BY <1>1, <1>2 DEF Pages

(* What holds when an operation of p is carried out.                       *)
LEMMA OperateParts ==
  ASSUME NegotiationTypeOK, Settled, NEW p \in Pages, chain[p] # <<>>
  PROVE  /\ QueuesTyped /\ ConnectionTyped /\ OtherTyped /\ First(p)
         /\ Head(chain[p]) \in Operations
         /\ MakeAt(p) /\ TakeAt(p)
         /\ Other(p) \in Pages /\ Other(p) # p
BY TypeIsParts, FirstHolds, PagesTyped DEF Settled, MakeInv, TakeInv

(* The offer cannot be made, for a remote offer came first: the finally    *)
(* clears makingOffer, and the offer that came will be answered.           *)
LEMMA MakingFails ==
  ASSUME NegotiationTypeOK, Settled, NEW p \in Pages, chain[p] # <<>>, Makes(Head(chain[p])),
         Done(p),
         OfferEnds(p, Head(chain[p]).by), signaling[p] = "have-remote-offer",
         UNCHANGED <<connection, fired, wire, forsaken>>
  PROVE  Settled'
<1> DEFINE o == Head(chain[p])
           q == Other(p)
<1>1. /\ QueuesTyped /\ ConnectionTyped /\ OtherTyped /\ First(p) /\ o \in Operations
      /\ MakeAt(p) /\ TakeAt(p) /\ q \in Pages /\ q # p
  BY OperateParts
<1>2. DoneSets(p) /\ chain'[q] = chain[q]
  BY <1>1, DoneSetsHold
<1>3. 1 \in Making(chain[p]) /\ o.by = "needed" /\ making[p]
  BY <1>1 DEF First, MakeAt
<1>4. ~making'[p] /\ making'[q] = making[q]
  BY <1>1, <1>3 DEF OfferEnds, OtherTyped
<1>5. SameState(p) /\ SamePage(q)
  BY <1>2, <1>4 DEF SameState, SamePage, connection
<1>6. Making(chain'[p]) = {}
  BY <1>1, <1>2 DEF DoneSets, Dropped, MakeAt
<1>7. MakeAt(p)'
  BY <1>4, <1>5, <1>6 DEF MakeAt, Single, SameState
<1>8. ~Takes(o) /\ ~Ends(o)
  BY Kinds
<1>9. /\ TakeAt(p)'
      /\ TakesAlike(p)
      /\ EndsAlike(p)
  BY <1>1, <1>2, <1>5, <1>8, DoneKeepsTaking DEF SameState
<1>10. ImpoliteMakes'
  BY <1>4, <1>5, MakesKept
<1>11. making[Impolite] => making'[Impolite]
  <2>1. p # Impolite
    BY <1>3 DEF Settled, ImpoliteMakes
  <2> QED BY <1>1, <1>4, <2>1 DEF Pages
<1>12. wire' = wire /\ (forsaken => forsaken') /\ q = Other(p)
  OBVIOUS
<1> HIDE DEF o, q
<1> QED BY <1>1, <1>5, <1>7, <1>9, <1>10, <1>11, <1>12, ChainMoves

(* Each operation keeps the invariant.  createOffer gives way to           *)
(* setLocalOffer.                                                          *)
LEMMA CreateOfferSettles ==
  ASSUME NegotiationTypeOK, Settled, NEW p \in Pages, chain[p] # <<>>,
         Head(chain[p]).op = "createOffer",
         CreateOffer(p, Head(chain[p]))
  PROVE  Settled'
<1> DEFINE o == Head(chain[p])
           q == Other(p)
<1>1. /\ QueuesTyped /\ ConnectionTyped /\ OtherTyped /\ First(p) /\ o \in Operations
      /\ MakeAt(p) /\ TakeAt(p) /\ q \in Pages /\ q # p
  BY OperateParts
<1>2. Makes(o) /\ ~Takes(o) /\ ~Ends(o)
  BY Kinds DEF Makes
<1>3. CASE signaling[p] = "have-remote-offer"
  BY <1>2, <1>3, MakingFails DEF CreateOffer, connection
<1>4. CASE signaling[p] # "have-remote-offer"
  <2>1. PICK x : x = [op |-> "setLocalOffer", by |-> o.by, n |-> o.n, tracks |-> tracks[p]]
    OBVIOUS
  <2>2. DoneThen(p, x) /\ UNCHANGED <<connection, making, fired, wire, forsaken>>
    BY <1>4, <2>1 DEF CreateOffer
  <2>3. x \in Operations /\ Makes(x) /\ ~Takes(x) /\ ~Ends(x) /\ ~Queued(x) /\ x.by = o.by
    <3>1. x \in Operations
      BY <1>1, <2>1, OperationParts, NewOperations DEF OtherTyped
    <3> QED BY <2>1, <3>1, Kinds DEF Makes
  <2> HIDE DEF o, q
  <2>4. NextSets(p, x) /\ chain'[q] = chain[q]
    BY <1>1, <2>2, <2>3, NextSetsHold
  <2>5. SameState(p) /\ SamePage(q) /\ making'[p] = making[p] /\ fired'[p] = fired[p]
    BY <2>2, <2>4 DEF SameState, SamePage, connection
  <2>6. /\ 1 \in Making(chain[p]) /\ o.by = "needed" /\ making[p] /\ Queueing(chain[p]) = {}
        /\ ~Queued(o)
    BY <1>1, <1>2, Kinds DEF First, MakeAt, o
  <2>7. Single(Making(chain'[p])) /\ Queueing(chain'[p]) = {}
    BY <1>1, <1>2, <2>3, <2>4, <2>6 DEF NextSets, Replaced, MakeAt, o
  <2>8. \A i \in Making(chain'[p]) : chain'[p][i] = x
    <3>1. Len(chain[p]) \in Making(chain'[p])
      BY <2>3, <2>4 DEF NextSets, Replaced
    <3> QED BY <2>4, <2>7, <3>1 DEF NextSets, Single
  <2>9. MakeAt(p)'
    BY <1>1, <2>3, <2>5, <2>6, <2>7, <2>8 DEF MakeAt, SameState
  <2>10. /\ TakeAt(p)'
         /\ TakesAlike(p)
         /\ EndsAlike(p)
    BY <1>1, <1>2, <2>3, <2>4, <2>5, NextKeepsTaking DEF SameState, o
  <2>11. q = Other(p) /\ wire' = wire /\ (forsaken => forsaken')
    BY <2>2 DEF q
  <2>12. ImpoliteMakes'
    BY <2>5, <2>6, <2>10, <2>11, MakesKept DEF TakesAlike, EndsAlike, SameState
  <2>13. making[Impolite] => making'[Impolite]
    BY <2>2
  <2> QED BY <1>1, <2>5, <2>9, <2>10, <2>11, <2>12, <2>13, ChainMoves
<1> QED BY <1>3, <1>4

(* setLocalDescription of an offer sends it.                               *)
LEMMA SetLocalOfferSettles ==
  ASSUME NegotiationTypeOK, Settled, NEW p \in Pages, chain[p] # <<>>,
         Head(chain[p]).op = "setLocalOffer",
         SetLocalOffer(p, Head(chain[p]))
  PROVE  Settled'
<1> DEFINE o == Head(chain[p])
           q == Other(p)
           f == [from |-> p, n |-> o.n, tracks |-> o.tracks]
           m == [type |-> "offer", offer |-> f, tracks |-> f.tracks]
<1>1. /\ QueuesTyped /\ ConnectionTyped /\ OtherTyped /\ First(p) /\ o \in Operations
      /\ MakeAt(p) /\ TakeAt(p) /\ q \in Pages /\ q # p
  BY OperateParts
<1>2. Makes(o) /\ ~Takes(o) /\ ~Ends(o)
  BY Kinds DEF Makes
<1>3. CASE signaling[p] = "have-remote-offer"
  BY <1>2, <1>3, MakingFails DEF SetLocalOffer, connection
<1>4. CASE signaling[p] # "have-remote-offer"
  <2>1. /\ Done(p) /\ OfferEnds(p, o.by)
        /\ signaling' = [signaling EXCEPT ![p] = "have-local-offer"]
        /\ offered' = [offered EXCEPT ![p] = f]
        /\ Post(p, <<[type |-> "offer", offer |-> f, tracks |-> f.tracks],
                     [type |-> "candidate", offer |-> f]>>)
        /\ UNCHANGED <<agreed, sent, received, fired, forsaken>>
    BY <1>4 DEF SetLocalOffer
  <2>2. f \in Offers /\ f.tracks \in Versions
    <3>1. o.n \in 1 .. MaxOffers /\ o.tracks \in Versions
      BY <1>1, OperationParts
    <3> QED BY <3>1, Bounds DEF Offers
  <2>3. m.type = "offer" /\ m.offer = f
    OBVIOUS
  <2>4. q = Other(p)
    OBVIOUS
  <2>5. /\ signaling'[p] = "have-local-offer" /\ offered'[p] = f /\ signaling'[q] = signaling[q]
        /\ offered'[q] = offered[q]
    BY <1>1, <2>1 DEF ConnectionTyped
  <2> HIDE DEF f
  <2>6. wire'[p] = wire[p] /\ wire[q] \in Seq(Signals) /\ OfferOn(wire[q], wire'[q], m)
    BY <1>1, <2>1, <2>2, <2>4, OfferSentEffect
  <2>7. DoneSets(p) /\ chain'[q] = chain[q]
    BY <1>1, <2>1, DoneSetsHold
  <2>8. /\ 1 \in Making(chain[p]) /\ o.by = "needed" /\ making[p] /\ Queueing(chain[p]) = {}
        /\ ~Queued(o)
    BY <1>1, <1>2, Kinds DEF First, MakeAt
  <2>9. ~making'[p] /\ making'[q] = making[q]
    BY <1>1, <2>1, <2>8 DEF OfferEnds, OtherTyped
  <2> HIDE DEF m, q
  <2>10. /\ SamePage(q) /\ agreed'[p] = agreed[p] /\ sent'[p] = sent[p]
         /\ received'[p] = received[p]
    BY <2>1, <2>5, <2>7, <2>9 DEF SameState, SamePage
  <2>11. MakeAt(p)'
    <3>1. Making(chain'[p]) = {} /\ Queueing(chain'[p]) = {}
      BY <1>1, <1>2, <2>7, <2>8 DEF DoneSets, Dropped, MakeAt
    <3> QED BY <2>5, <2>9, <3>1 DEF MakeAt, Single
  <2>12. /\ \A i \in Taking(chain'[p]) :
              i + 1 \in Taking(chain[p]) /\ i \in Nat /\ chain'[p][i] = chain[p][i + 1]
         /\ Single(Taking(chain[p])) => Single(Taking(chain'[p]))
         /\ Taking(chain'[p]) = {} <=> Taking(chain[p]) = {}
    BY <1>2, <2>7 DEF DoneSets, Dropped
  <2>13. /\ \A i \in Ending(chain'[p]) :
              i + 1 \in Ending(chain[p]) /\ i \in Nat /\ chain'[p][i] = chain[p][i + 1]
         /\ Single(Ending(chain[p])) => Single(Ending(chain'[p]))
         /\ Ending(chain'[p]) = {} <=> Ending(chain[p]) = {}
    BY <1>2, <2>7 DEF DoneSets, Dropped
  <2>14. p = Impolite => Taking(chain[p]) = {}
    BY <2>8 DEF Settled, ImpoliteMakes
  <2>15. TakeAt(p)'
    BY <1>1, <1>4, <2>12, <2>13, <2>14 DEF TakeAt
  <2>16. /\ TakesAlike(p)
         /\ EndsAlike(p)
    BY <2>12, <2>13 DEF TakesAlike, EndsAlike
  <2>17. ImpoliteMakes'
    BY <2>4, <2>9, <2>10, MakesKept
  <2>18. forsaken => forsaken'
    BY <2>1
  <2>19. CASE p = Polite
    <3>1. q = Impolite
      BY <2>4, <2>19, PagesTyped
    <3> QED BY <2>3, <2>5, <2>6, <2>8, <2>10, <2>11, <2>15, <2>16, <2>17, <2>18, <2>19, <3>1,
               PoliteOffers
  <2>20. CASE p = Impolite
    <3>1. q = Polite
      BY <2>4, <2>20, PagesTyped
    <3> QED BY <2>3, <2>5, <2>6, <2>8, <2>10, <2>11, <2>15, <2>16, <2>17, <2>18, <2>20, <3>1,
               ImpoliteOffers
  <2> QED BY <2>19, <2>20 DEF Pages
<1> QED BY <1>3, <1>4

(* Only the polite page rolls back, for an offer it goes on to take, or    *)
(* has nothing to roll back.                                               *)
LEMMA RollbackSettles ==
  ASSUME NegotiationTypeOK, Settled, NEW p \in Pages, chain[p] # <<>>,
         Head(chain[p]).op = "rollback",
         Rollback(p, Head(chain[p]))
  PROVE  Settled'
<1> DEFINE o == Head(chain[p])
<1>1. /\ QueuesTyped /\ ConnectionTyped /\ OtherTyped /\ First(p) /\ o \in Operations
      /\ MakeAt(p) /\ TakeAt(p) /\ Other(p) \in Pages /\ Other(p) # p
  BY OperateParts
<1>2. Takes(o) /\ ~Makes(o) /\ ~Ends(o) /\ 1 \in Taking(chain[p])
  BY <1>1, Kinds DEF Takes, First
<1>3. p = Polite /\ Other(p) = Impolite
  <2>1. p # Impolite
    BY <1>1, <1>2 DEF TakeAt, First
  <2> QED BY <2>1, PagesTyped
<1>4. UNCHANGED <<offers, sent, received, agreed, making, wire>>
  BY DEF Rollback
<1>5. CASE signaling[p] # "stable"
  <2>1. PICK x : x = [op |-> "setRemote", signal |-> o.signal]
    OBVIOUS
  <2>2. /\ DoneThen(p, x) /\ signaling' = [signaling EXCEPT ![p] = "stable"]
        /\ offered' = [offered EXCEPT ![p] = NoOffer] /\ fired' = [fired EXCEPT ![p] = FALSE]
        /\ UNCHANGED forsaken
    BY <1>5, <2>1 DEF Rollback
  <2>3. /\ x \in Operations /\ Takes(x) /\ ~Makes(x) /\ ~Queued(x) /\ ~Answers(x)
        /\ x.signal = o.signal /\ x.op # "rollback"
    <3>1. o.signal \in Descriptions({"offer"}) /\ o.signal.type = "offer"
      BY <1>1, OperationParts, DescriptionParts
    <3>2. x \in Operations
      BY <2>1, <3>1, MoreTypes, NewOperations
    <3> QED BY <2>1, <3>1, <3>2 DEF Takes, Makes, Queued, Answers
  <2> HIDE DEF o
  <2>4. NextSets(p, x) /\ chain'[Impolite] = chain[Impolite]
    BY <1>1, <1>3, <2>2, <2>3, NextSetsHold
  <2>5. /\ signaling'[p] = "stable" /\ signaling'[Impolite] = signaling[Impolite]
        /\ offered'[Impolite] = offered[Impolite]
        /\ ~fired'[p] /\ fired'[Impolite] = fired[Impolite]
    BY <1>1, <1>3, <2>2 DEF ConnectionTyped, OtherTyped
  <2>6. /\ SamePage(Impolite) /\ agreed'[p] = agreed[p] /\ sent'[p] = sent[p]
        /\ received'[p] = received[p] /\ making'[p] = making[p]
    BY <1>4, <2>4, <2>5 DEF SamePage, SameState
  <2>7. MakeAt(p)'
    BY <1>1, <1>2, <2>3, <2>4, <2>5, <2>6, NextKeepsMaking DEF o
  <2>8. /\ TakeAt(p)'
        /\ TakesAlike(p)
        /\ p = Polite => Ending(chain[p]) = {} /\ Ending(chain'[p]) = {}
    BY <1>1, <1>2, <1>3, <2>3, <2>4, PagesTyped, NextTakes DEF o
  <2>9. ImpoliteMakes'
    BY <1>3, <2>6, MakesKept, PagesTyped
  <2>10. (forsaken => forsaken') /\ wire' = wire /\ Taking(chain[p]) # {}
    BY <1>2, <1>4, <2>2
  <2> QED BY <1>3, <2>5, <2>6, <2>7, <2>8, <2>9, <2>10, PoliteYields
<1>6. CASE signaling[p] = "stable"
  <2>1. Done(p) /\ forsaken' /\ UNCHANGED <<signaling, offered, fired>>
    BY <1>6 DEF Rollback
  <2>2. DoneSets(p) /\ chain'[Impolite] = chain[Impolite]
    BY <1>1, <1>3, <2>1, DoneSetsHold
  <2>3. SameState(p) /\ SamePage(Impolite) /\ making'[p] = making[p] /\ fired'[p] = fired[p]
    BY <1>4, <2>1, <2>2 DEF SamePage, SameState
  <2>4. MakeAt(p)'
    BY <1>1, <1>2, <2>2, <2>3, DoneKeepsMaking DEF SameState
  <2>5. Ending(chain[p]) = {}
    BY <1>3, <1>6 DEF Settled, PoliteInv
  <2>6. Ending(chain'[p]) = {} /\ Taking(chain'[p]) = {}
    BY <1>1, <1>2, <2>2, <2>5 DEF DoneSets, Dropped, TakeAt
  <2>7. TakeAt(p)'
    BY <2>6 DEF TakeAt, Single
  <2>8. ImpoliteMakes'
    BY <1>3, <2>3, MakesKept, PagesTyped
  <2> QED BY <1>2, <1>3, <1>4, <1>6, <2>1, <2>3, <2>4, <2>5, <2>6, <2>7, <2>8, PoliteForsakes
<1> QED BY <1>5, <1>6

(* What follows a remote description in the chain.                         *)
LEMMA AfterRemoteTyped ==
  ASSUME NEW p \in Pages, NEW d \in Descriptions({"offer", "answer"}), AfterRemote(p, d)
  PROVE  \/ Done(p) /\ d.type = "answer"
         \/ \E x \in Operations : /\ DoneThen(p, x) /\ x.signal = d /\ x.op # "rollback"
                                  /\ d.type = "offer" => Answers(x)
                                  /\ d.type = "answer" => Queued(x)
<1>1. d.type \in {"offer", "answer"}
  BY DescriptionParts
<1>2. ASSUME DoneThen(p, [op |-> "addQueued", signal |-> d])
      PROVE  \E x \in Operations : /\ DoneThen(p, x) /\ x.signal = d /\ x.op # "rollback"
                                   /\ d.type = "offer" => Answers(x)
                                   /\ d.type = "answer" => Queued(x)
  <2>1. PICK x : x = [op |-> "addQueued", signal |-> d]
    OBVIOUS
  <2>2. x \in Operations /\ DoneThen(p, x)
    BY <1>2, <2>1, NewOperations
  <2> QED BY <2>1, <2>2 DEF Answers, Queued
<1>3. ASSUME d.type = "offer", DoneThen(p, [op |-> "createAnswer", signal |-> d])
      PROVE  \E x \in Operations : /\ DoneThen(p, x) /\ x.signal = d /\ x.op # "rollback"
                                   /\ d.type = "offer" => Answers(x)
                                   /\ d.type = "answer" => Queued(x)
  <2>1. PICK x : x = [op |-> "createAnswer", signal |-> d]
    OBVIOUS
  <2>2. x \in Operations /\ DoneThen(p, x)
    BY <1>3, <2>1, SomeOffers, NewOperations
  <2> QED BY <1>3, <2>1, <2>2 DEF Answers, Queued
<1> QED BY <1>1, <1>2, <1>3 DEF AfterRemote

(* setRemoteDescription of an offer, with the polite page's own given up   *)
(* by it.                                                                  *)
LEMMA RemoteOfferSettles ==
  ASSUME NegotiationTypeOK, Settled, NEW p \in Pages, chain[p] # <<>>,
         Head(chain[p]).op = "setRemote",
         Head(chain[p]).signal.type = "offer", SetRemote(p, Head(chain[p]))
  PROVE  Settled'
<1> DEFINE o == Head(chain[p])
           q == Other(p)
<1>1. /\ QueuesTyped /\ ConnectionTyped /\ OtherTyped /\ First(p) /\ o \in Operations
      /\ MakeAt(p) /\ TakeAt(p) /\ q \in Pages /\ q # p
  BY OperateParts
<1>2. Takes(o) /\ ~Makes(o) /\ 1 \in Taking(chain[p])
  BY <1>1 DEF Takes, Makes, First
<1>3. /\ signaling' = [signaling EXCEPT ![p] = "have-remote-offer"]
      /\ offered' = [offered EXCEPT ![p] = NoOffer]
      /\ AfterRemote(p, o.signal)
      /\ UNCHANGED <<agreed, sent, received, fired, making, wire, forsaken>>
  BY DEF SetRemote
<1>4. o.signal \in Descriptions({"offer", "answer"})
  BY <1>1, OperationParts
<1>5. PICK x \in Operations :
        DoneThen(p, x) /\ x.signal = o.signal /\ x.op # "rollback" /\ Answers(x)
  BY <1>3, <1>4, AfterRemoteTyped
<1>6. Takes(x) /\ ~Makes(x) /\ ~Queued(x)
  BY <1>5, Kinds DEF Takes
<1>7. NextSets(p, x) /\ chain'[q] = chain[q]
  BY <1>1, <1>5, NextSetsHold
<1>8. /\ signaling'[p] = "have-remote-offer" /\ signaling'[q] = signaling[q]
      /\ offered'[q] = offered[q]
  BY <1>1, <1>3 DEF ConnectionTyped
<1> HIDE DEF q, o
<1>9. /\ SamePage(q) /\ agreed'[p] = agreed[p] /\ sent'[p] = sent[p] /\ received'[p] = received[p]
      /\ making'[p] = making[p] /\ fired'[p] = fired[p]
  BY <1>3, <1>7, <1>8 DEF SameState, SamePage
<1>10. MakeAt(p)'
  BY <1>1, <1>2, <1>6, <1>7, <1>8, <1>9, NextKeepsMaking DEF o
<1>11. /\ TakeAt(p)' /\ Taking(chain[p]) # {}
       /\ TakesAlike(p)
       /\ EndsAlike(p)
       /\ p = Polite => Ending(chain[p]) = {} /\ Ending(chain'[p]) = {}
  BY <1>1, <1>2, <1>5, <1>6, <1>7, <1>8, NextTakes DEF o
<1>12. q = Other(p) /\ (forsaken => forsaken') /\ wire' = wire
  BY <1>3 DEF q
<1>13. ImpoliteMakes'
  <2>1. p = Impolite => ~making'[p]
    BY <1>9, <1>11 DEF Settled, ImpoliteMakes
  <2> QED BY <1>9, <1>12, <2>1, MakesKept
<1>14. CASE p = Polite
  <2>1. q = Impolite
    BY <1>12, <1>14, PagesTyped
  <2> QED BY <1>8, <1>9, <1>10, <1>11, <1>12, <1>13, <1>14, <2>1, PoliteYields
<1>15. CASE p = Impolite
  <2>1. q = Polite
    BY <1>12, <1>15, PagesTyped
  <2> QED BY <1>8, <1>9, <1>10, <1>11, <1>12, <1>13, <1>15, <2>1, ImpoliteApplies
<1> QED BY <1>14, <1>15 DEF Pages

(* setRemoteDescription of an answer: it is applied only to the offer it   *)
(* answers, whose exchange ends.                                           *)
LEMMA RemoteAnswerSettles ==
  ASSUME NegotiationTypeOK, Settled, NEW p \in Pages, chain[p] # <<>>,
         Head(chain[p]).op = "setRemote",
         Head(chain[p]).signal.type = "answer", SetRemote(p, Head(chain[p]))
  PROVE  Settled'
<1> DEFINE o == Head(chain[p])
           q == Other(p)
<1>1. /\ QueuesTyped /\ ConnectionTyped /\ OtherTyped /\ First(p) /\ o \in Operations
      /\ MakeAt(p) /\ TakeAt(p) /\ q \in Pages /\ q # p
  BY OperateParts
<1>2. Ends(o) /\ ~Makes(o) /\ ~Takes(o) /\ 1 \in Ending(chain[p]) /\ o = chain[p][1]
  BY <1>1, Kinds DEF Ends, First
<1>3. signaling[p] = "have-local-offer"
  BY <1>2 DEF Settled, ImpoliteInv, PoliteInv, Pages
<1>4. /\ Agree(p, offered[p], offered[p].tracks, o.signal.tracks)
      /\ AfterRemote(p, o.signal)
      /\ UNCHANGED <<making, wire, forsaken>>
  BY <1>3 DEF SetRemote
<1>5. o.signal \in Descriptions({"offer", "answer"})
  BY <1>1, OperationParts
<1>6. /\ signaling'[p] = "stable" /\ agreed'[p] = offered[p] /\ sent'[p] = offered[p].tracks
      /\ received'[p] = o.signal.tracks /\ ~fired'[p] /\ making'[p] = making[p]
  BY <1>1, <1>4 DEF Agree, ConnectionTyped, OtherTyped
<1>7. /\ SameState(q) /\ making'[q] = making[q] /\ fired'[q] = fired[q]
  BY <1>1, <1>4 DEF Agree, ConnectionTyped, OtherTyped, SameState
<1>8. ~making[p] /\ (p = Impolite => Taking(chain[p]) = {})
      /\ \A i \in Taking(chain[p]) : chain[p][i].op = "rollback"
  BY <1>1, <1>2, <1>3 DEF MakeAt, TakeAt, Pages
<1> HIDE DEF q, o
<1>9. /\ chain'[q] = chain[q] /\ Ending(chain'[p]) = {} /\ MakeAt(p)'
      /\ \A i \in Taking(chain'[p]) :
           i + 1 \in Taking(chain[p]) /\ i \in Nat /\ chain'[p][i] = chain[p][i + 1]
      /\ Single(Taking(chain'[p]))
      /\ Taking(chain'[p]) = {} <=> Taking(chain[p]) = {}
  <2>1. CASE Done(p)
    <3>1. DoneSets(p) /\ chain'[q] = chain[q]
      BY <1>1, <2>1, DoneSetsHold
    <3>2. MakeAt(p)'
      BY <1>1, <1>2, <1>6, <3>1, DoneKeepsMaking DEF o
    <3> QED BY <1>1, <1>2, <3>1, <3>2 DEF DoneSets, Dropped, TakeAt, o
  <2>2. ASSUME NEW x \in Operations, DoneThen(p, x), Queued(x)
        PROVE  <1>9!:
    <3>1. NextSets(p, x) /\ chain'[q] = chain[q]
      BY <1>1, <2>2, NextSetsHold
    <3>2. ~Makes(x) /\ ~Takes(x) /\ ~Ends(x)
      BY <2>2, Kinds
    <3>3. MakeAt(p)'
      BY <1>1, <1>2, <1>6, <1>8, <3>1, <3>2, NextKeepsMaking DEF o
    <3> QED BY <1>1, <1>2, <3>1, <3>2, <3>3 DEF NextSets, Replaced, TakeAt, o
  <2> QED BY <1>4, <1>5, <2>1, <2>2, AfterRemoteTyped DEF o
<1>10. SamePage(q)
  BY <1>7, <1>9 DEF SamePage
<1>11. TakeAt(p)'
  BY <1>8, <1>9 DEF TakeAt, Single, Answers
<1>12. TakesAlike(p)
  BY <1>9 DEF TakesAlike, EndsAlike
<1>13. q = Other(p) /\ (forsaken => forsaken') /\ wire' = wire
  BY <1>4 DEF q
<1>14. ImpoliteMakes'
  BY <1>6, <1>8, <1>10, <1>13, MakesKept
<1>15. received'[p] = chain[p][1].signal.tracks
  BY <1>2, <1>6
<1>16. CASE p = Polite
  <2>1. q = Impolite
    BY <1>13, <1>16, PagesTyped
  <2> QED BY <1>2, <1>6, <1>9, <1>10, <1>11, <1>12, <1>13, <1>14, <1>15, <1>16, <2>1, PoliteEnds
<1>17. CASE p = Impolite
  <2>1. q = Polite
    BY <1>13, <1>17, PagesTyped
  <2> QED BY <1>2, <1>6, <1>9, <1>10, <1>11, <1>12, <1>13, <1>14, <1>15, <1>17, <2>1, ImpoliteEnds
<1> QED BY <1>16, <1>17 DEF Pages

(* An offer is taken one operation further.                                *)
LEMMA TakingAdvances ==
  ASSUME NegotiationTypeOK, Settled, NEW p \in Pages, chain[p] # <<>>, Answers(Head(chain[p])),
         NEW x \in Operations, Answers(x), x.signal = Head(chain[p]).signal, x.op # "rollback",
         DoneThen(p, x),
         UNCHANGED <<connection, making, fired, wire, forsaken>>
  PROVE  Settled'
<1> DEFINE o == Head(chain[p])
           q == Other(p)
<1>1. /\ QueuesTyped /\ ConnectionTyped /\ OtherTyped /\ First(p) /\ o \in Operations
      /\ MakeAt(p) /\ TakeAt(p) /\ q \in Pages /\ q # p
  BY OperateParts
<1>2. /\ Takes(o) /\ ~Makes(o) /\ ~Queued(o) /\ Takes(x) /\ ~Makes(x) /\ ~Queued(x)
      /\ 1 \in Taking(chain[p]) /\ o = chain[p][1]
  BY <1>1, Kinds DEF Takes, First
<1>3. signaling[p] = "have-remote-offer"
  BY <1>1, <1>2 DEF TakeAt
<1>4. NextSets(p, x) /\ chain'[q] = chain[q]
  BY <1>1, NextSetsHold
<1>5. /\ SameState(p) /\ SamePage(q) /\ making'[p] = making[p] /\ fired'[p] = fired[p]
      /\ signaling'[p] = signaling[p]
  BY <1>4 DEF SameState, SamePage, connection
<1>6. MakeAt(p)'
  BY <1>1, <1>2, <1>3, <1>4, <1>5, NextKeepsMaking
<1>7. /\ TakeAt(p)'
      /\ TakesAlike(p)
      /\ EndsAlike(p)
  BY <1>1, <1>2, <1>3, <1>4, <1>5, NextTakes
<1>8. ImpoliteMakes'
  BY <1>5, <1>7, MakesKept DEF Settled, ImpoliteMakes, TakesAlike, EndsAlike
<1>9. q = Other(p) /\ making[Impolite] => making'[Impolite]
  OBVIOUS
<1> QED BY <1>1, <1>5, <1>6, <1>7, <1>8, <1>9, ChainMoves

(* The queued candidates are added, or one is refused and the offer is     *)
(* never answered.                                                         *)
LEMMA AddQueuedSettles ==
  ASSUME NegotiationTypeOK, Settled, NEW p \in Pages, chain[p] # <<>>,
         Head(chain[p]).op = "addQueued",
         AddQueued(p, Head(chain[p]))
  PROVE  Settled'
<1> DEFINE o == Head(chain[p])
           q == Other(p)
<1>1. /\ QueuesTyped /\ ConnectionTyped /\ OtherTyped /\ First(p) /\ o \in Operations
      /\ MakeAt(p) /\ TakeAt(p) /\ q \in Pages /\ q # p
  BY OperateParts
<1>2. o.signal \in Descriptions({"offer", "answer"}) /\ o.signal.type \in {"offer", "answer"}
  BY <1>1, OperationParts, DescriptionParts
<1>3. UNCHANGED <<connection, making, fired, wire>> /\ (forsaken => forsaken')
  BY DEF AddQueued
<1>4. CASE
        /\ o.signal.type = "offer"
        /\ DoneThen(p, [op |-> "createAnswer", signal |-> o.signal])
        /\ UNCHANGED forsaken
  <2>1. PICK x : x = [op |-> "createAnswer", signal |-> o.signal]
    OBVIOUS
  <2>2. x \in Operations /\ Answers(x) /\ x.signal = o.signal /\ x.op # "rollback"
    BY <1>2, <1>4, <2>1, SomeOffers, NewOperations DEF Answers
  <2>3. Answers(o)
    BY <1>4 DEF Answers
  <2> QED BY <1>3, <1>4, <2>1, <2>2, <2>3, TakingAdvances
<1>5. CASE Done(p) /\ (o.signal.type = "answer" \/ forsaken')
  <2>1. DoneSets(p) /\ chain'[q] = chain[q]
    BY <1>1, <1>5, DoneSetsHold
  <2>2. /\ SameState(p) /\ SamePage(q) /\ making'[p] = making[p] /\ fired'[p] = fired[p]
        /\ signaling'[p] = signaling[p]
    BY <1>3, <2>1 DEF SameState, SamePage, connection
  <2>3. ~Makes(o) /\ ~Ends(o)
    BY DEF Makes, Ends
  <2>4. MakeAt(p)'
    BY <1>1, <2>1, <2>2, <2>3, DoneKeepsMaking
  <2>5. CASE o.signal.type = "answer"
    <3>1. ~Takes(o)
      BY <2>5 DEF Takes, Answers
    <3>2. /\ TakeAt(p)'
          /\ TakesAlike(p)
          /\ EndsAlike(p)
      BY <1>1, <2>1, <2>2, <2>3, <3>1, DoneKeepsTaking
    <3>3. ImpoliteMakes'
      BY <2>2, <3>2, MakesKept DEF Settled, ImpoliteMakes, TakesAlike, EndsAlike
    <3>4. q = Other(p) /\ making[Impolite] => making'[Impolite]
      BY <1>3
    <3> QED BY <1>1, <1>3, <2>2, <2>4, <3>2, <3>3, <3>4, ChainMoves
  <2>6. CASE o.signal.type = "offer"
    <3>1. Answers(o) /\ Takes(o)
      BY <2>6 DEF Takes, Answers
    <3>2. /\ 1 \in Taking(chain[p]) /\ o = chain[p][1] /\ o.op # "rollback"
          /\ signaling[p] = "have-remote-offer"
      BY <1>1, <3>1 DEF First, TakeAt
    <3>3. Taking(chain'[p]) = {}
      BY <1>1, <2>1, <3>1 DEF DoneSets, Dropped, TakeAt
    <3>4. Ending(chain[p]) = {} /\ Ending(chain'[p]) = {}
      <4>1. Ending(chain[p]) = {}
        BY <3>2 DEF Settled, ImpoliteInv, PoliteInv, Pages
      <4> QED BY <2>1, <2>3, <4>1 DEF DoneSets, Dropped
    <3>5. TakeAt(p)'
      BY <3>3, <3>4 DEF TakeAt, Single
    <3>6. ImpoliteMakes'
      BY <2>2, <3>3, MakesKept DEF Settled, ImpoliteMakes
    <3>7. EndsAlike(p) /\ q = Other(p)
      BY <3>4 DEF TakesAlike, EndsAlike
    <3> HIDE DEF q, o
    <3>8. forsaken' /\ Taking(chain[p]) # {} /\ signaling[p] # "have-local-offer"
      BY <1>5, <2>6, <3>2
    <3>9. CASE p = Polite
      <4>1. q = Impolite
        BY <3>7, <3>9, PagesTyped
      <4> QED BY <1>3, <2>2, <2>4, <3>3, <3>4, <3>5, <3>6, <3>8, <3>9, <4>1, PoliteForsakes
    <3>10. CASE p = Impolite
      <4>1. q = Polite
        BY <3>7, <3>10, PagesTyped
      <4> QED BY <1>3, <2>2, <2>4, <3>3, <3>5, <3>6, <3>7, <3>8, <3>10, <4>1, ImpoliteForsakes
    <3> QED BY <3>9, <3>10 DEF Pages
  <2> QED BY <1>2, <2>5, <2>6
<1> QED BY <1>2, <1>4, <1>5 DEF AddQueued

(* createAnswer gives way to setLocalAnswer, which sends the answer.       *)
LEMMA CreateAnswerSettles ==
  ASSUME NegotiationTypeOK, Settled, NEW p \in Pages, chain[p] # <<>>,
         Head(chain[p]).op = "createAnswer",
         CreateAnswer(p, Head(chain[p]))
  PROVE  Settled'
<1> DEFINE o == Head(chain[p])
<1>1. /\ OtherTyped /\ First(p) /\ o \in Operations /\ TakeAt(p)
  BY OperateParts
<1>2. Answers(o) /\ 1 \in Taking(chain[p]) /\ o = chain[p][1]
  BY <1>1 DEF Answers, Takes, First
<1>3. signaling[p] = "have-remote-offer"
  BY <1>1, <1>2 DEF TakeAt
<1>4. PICK x : x = [op |-> "setLocalAnswer", signal |-> o.signal, tracks |-> tracks[p]]
  OBVIOUS
<1>5. DoneThen(p, x) /\ UNCHANGED <<connection, making, fired, wire, forsaken>>
  BY <1>3, <1>4 DEF CreateAnswer
<1>6. x \in Operations /\ Answers(x) /\ x.signal = o.signal /\ x.op # "rollback"
  <2>1. o.signal \in Descriptions({"offer"}) /\ tracks[p] \in Versions
    BY <1>1, OperationParts DEF OtherTyped
  <2> QED BY <1>4, <2>1, NewOperations DEF Answers
<1> QED BY <1>2, <1>5, <1>6, TakingAdvances

LEMMA SetLocalAnswerSettles ==
  ASSUME NegotiationTypeOK, Settled, NEW p \in Pages, chain[p] # <<>>,
         Head(chain[p]).op = "setLocalAnswer",
         SetLocalAnswer(p, Head(chain[p]))
  PROVE  Settled'
<1> DEFINE o == Head(chain[p])
           q == Other(p)
           m == [type |-> "answer", offer |-> o.signal.offer, tracks |-> o.tracks]
<1>1. /\ QueuesTyped /\ ConnectionTyped /\ OtherTyped /\ First(p) /\ o \in Operations
      /\ MakeAt(p) /\ TakeAt(p) /\ q \in Pages /\ q # p
  BY OperateParts
<1>2. Takes(o) /\ ~Makes(o) /\ ~Ends(o) /\ Answers(o) /\ 1 \in Taking(chain[p]) /\ o = chain[p][1]
  BY <1>1, Kinds DEF Takes, Answers, First
<1>3. signaling[p] = "have-remote-offer"
  BY <1>1, <1>2 DEF TakeAt
<1>4. /\ o.signal.offer \in Offers /\ o.tracks \in Versions
      /\ o.signal.tracks = o.signal.offer.tracks
  BY <1>1, OperationParts, DescriptionParts
<1>5. /\ Done(p) /\ Agree(p, o.signal.offer, o.tracks, o.signal.tracks)
      /\ Post(p, <<[type |-> "answer", offer |-> o.signal.offer, tracks |-> o.tracks]>>)
      /\ UNCHANGED <<making, forsaken>>
  BY <1>3 DEF SetLocalAnswer
<1>6. wire'[p] = wire[p] /\ wire[q] \in Seq(Signals) /\ AnswerOn(wire[q], wire'[q], m)
  BY <1>1, <1>4, <1>5, AnswerSentEffect
<1>7. DoneSets(p) /\ chain'[q] = chain[q]
  BY <1>1, <1>5, DoneSetsHold
<1>8. /\ signaling'[p] = "stable" /\ agreed'[p] = m.offer /\ sent'[p] = m.tracks
      /\ received'[p] = m.offer.tracks /\ ~fired'[p] /\ making'[p] = making[p]
  BY <1>1, <1>4, <1>5 DEF Agree, ConnectionTyped, OtherTyped
<1>9. SamePage(q)
  BY <1>1, <1>5, <1>7 DEF Agree, ConnectionTyped, OtherTyped, SameState, SamePage
<1>10. m.offer = chain[p][1].signal.offer
  BY <1>2
<1>11. q = Other(p)
  OBVIOUS
<1> HIDE DEF q, m
<1>12. MakeAt(p)'
  BY <1>1, <1>2, <1>7, <1>8, DoneKeepsMaking
<1>13. Taking(chain'[p]) = {}
  BY <1>1, <1>2, <1>7 DEF DoneSets, Dropped, TakeAt
<1>14. Ending(chain[p]) = {} /\ Ending(chain'[p]) = {}
  <2>1. Ending(chain[p]) = {}
    BY <1>3 DEF Settled, ImpoliteInv, PoliteInv, Pages
  <2> QED BY <1>2, <1>7, <2>1 DEF DoneSets, Dropped
<1>15. TakeAt(p)'
  BY <1>13, <1>14 DEF TakeAt, Single
<1>16. ImpoliteMakes'
  <2>1. p = Impolite => ~making'[p]
    BY <1>2, <1>8 DEF Settled, ImpoliteMakes
  <2> QED BY <1>9, <1>11, <2>1, MakesKept
<1>17. EndsAlike(p)
  BY <1>14 DEF TakesAlike, EndsAlike
<1>18. forsaken => forsaken'
  BY <1>5
<1> HIDE DEF o
<1>19. CASE p = Polite
  <2>1. q = Impolite
    BY <1>11, <1>19, PagesTyped
  <2> QED BY <1>2, <1>3, <1>6, <1>8, <1>9, <1>10, <1>12, <1>13, <1>15, <1>16, <1>17, <1>18, <1>19,
             <2>1, PoliteAnswers
<1>20. CASE p = Impolite
  <2>1. q = Polite
    BY <1>11, <1>20, PagesTyped
  <2> QED BY <1>2, <1>3, <1>6, <1>8, <1>9, <1>10, <1>12, <1>13, <1>15, <1>16, <1>17, <1>18, <1>20,
             <2>1, ImpoliteAnswers
<1> QED BY <1>19, <1>20 DEF Pages

(* Whatever operation is carried out.                                      *)
LEMMA OperateSettles ==
  ASSUME NegotiationTypeOK, Settled, NEW p \in Pages, Operate(p)
  PROVE  Settled'
<1> DEFINE o == Head(chain[p])
<1>1. chain[p] # <<>>
  BY DEF Operate
<1>2. o.op = "setRemote" => o.signal.type \in {"offer", "answer"}
  BY <1>1, OperateParts, OperationParts, DescriptionParts
<1>3. CASE o.op = "createOffer" /\ CreateOffer(p, o)
  BY <1>1, <1>3, CreateOfferSettles
<1>4. CASE o.op = "setLocalOffer" /\ SetLocalOffer(p, o)
  BY <1>1, <1>4, SetLocalOfferSettles
<1>5. CASE o.op = "rollback" /\ Rollback(p, o)
  BY <1>1, <1>5, RollbackSettles
<1>6. CASE o.op = "setRemote" /\ SetRemote(p, o)
  BY <1>1, <1>2, <1>6, RemoteOfferSettles, RemoteAnswerSettles
<1>7. CASE o.op = "addQueued" /\ AddQueued(p, o)
  BY <1>1, <1>7, AddQueuedSettles
<1>8. CASE o.op = "createAnswer" /\ CreateAnswer(p, o)
  BY <1>1, <1>8, CreateAnswerSettles
<1>9. CASE o.op = "setLocalAnswer" /\ SetLocalAnswer(p, o)
  BY <1>1, <1>9, SetLocalAnswerSettles
<1> QED BY <1>3, <1>4, <1>5, <1>6, <1>7, <1>8, <1>9 DEF Operate

(* The invariant holds at first, every step keeps it until an ICE restart, *)
(* and when all is quiet it leaves nothing to wait for.                    *)
LEMMA InitSettles == NegotiationInit => SettleInv
<1> SUFFICES ASSUME NegotiationInit PROVE Settled
  BY DEF SettleInv
<1>1. \A p \in Pages : /\ Making(chain[p]) = {} /\ Taking(chain[p]) = {} /\ Ending(chain[p]) = {}
                       /\ Queueing(chain[p]) = {} /\ Offering(wire[p]) = {}
                       /\ Answering(wire[p]) = {}
  BY DEF NegotiationInit, Making, Taking, Ending, Queueing, Offering, Answering
<1>2. \A p \in Pages : /\ signaling[p] = "stable" /\ ~making[p] /\ ~fired[p]
                       /\ agreed[p] = NoOffer /\ sent[p] = 0 /\ received[p] = 0
  BY DEF NegotiationInit
<1> USE PagesTyped
<1>3. MakeInv /\ ImpoliteMakes /\ TakeInv
  BY <1>1, <1>2 DEF MakeInv, MakeAt, ImpoliteMakes, TakeInv, TakeAt, Single
<1>4. ImpoliteInv /\ PoliteInv
  BY <1>1 DEF ImpoliteInv, PoliteInv, Single
<1>5. OfferInv /\ LostImpolite /\ LostPolite /\ RemoteInv
  BY <1>1, <1>2 DEF OfferInv, LostImpolite, LostPolite, RemoteInv
<1>6. AgreeInv
  BY <1>1, <1>2 DEF AgreeInv, Synced
<1> QED BY <1>3, <1>4, <1>5, <1>6 DEF Settled

LEMMA SettleStep ==
  NegotiationTypeOK /\ SettleInv /\ [NegotiationNext]_negotiationVars => SettleInv'
<1> SUFFICES ASSUME NegotiationTypeOK, SettleInv, [NegotiationNext]_negotiationVars, NoRestart'
             PROVE  Settled'
  BY DEF SettleInv
<1>1. OtherTyped
  BY TypeIsParts
<1>2. ASSUME NEW p \in Pages, AttemptIceRestart(p) PROVE FALSE
  <2>1. restarts'[p] = restarts[p] + 1 /\ restarts[p] \in Nat
    BY <1>1, <1>2, Bounds DEF AttemptIceRestart, OtherTyped
  <2> QED BY <2>1 DEF NoRestart
<1>3. NoRestart
  BY <1>2
  DEF NoRestart, NegotiationNext, negotiationVars, ChangeTracks, NegotiationNeeded, HandleSignal,
      Operate
<1>4. Settled
  BY <1>3 DEF SettleInv
<1>5. ASSUME NEW p \in Pages, ChangeTracks(p) PROVE Settled'
  BY <1>4, <1>5, SettledSame DEF ChangeTracks
<1>6. CASE UNCHANGED negotiationVars
  BY <1>4, <1>6, SettledSame DEF negotiationVars
<1> QED BY <1>2, <1>4, <1>5, <1>6, NeededSettles, HandleSettles, OperateSettles DEF NegotiationNext

LEMMA SettledIsEnough == NegotiationTypeOK /\ SettleInv => NegotiationSettles
<1> SUFFICES ASSUME NegotiationTypeOK, Settled, Quiet PROVE NegotiationSettles
  BY DEF SettleInv, NegotiationSettles, GlareResolves, StableMeansAgreed
<1>1. ConnectionTyped /\ OtherTyped /\ MakingTyped
  BY TypeIsParts
<1>2. \A p \in Pages : chain[p] = <<>> /\ wire[p] = <<>> /\ ~Needed(p)
  BY DEF Quiet
<1>3. \A p \in Pages : /\ Making(chain[p]) = {} /\ Taking(chain[p]) = {} /\ Ending(chain[p]) = {}
                       /\ Offering(wire[p]) = {} /\ Answering(wire[p]) = {}
  BY <1>2 DEF Making, Taking, Ending, Offering, Answering
<1>4. \A p \in Pages : ~making[p]
  BY <1>1, <1>2 DEF MakingTyped
<1> USE PagesTyped
<1>5. ~forsaken =>
        \A p \in Pages : signaling[p] # "have-local-offer" /\ signaling[p] # "have-remote-offer"
  <2>1. ~forsaken => signaling[Impolite] # "have-local-offer"
    BY <1>3 DEF Settled, LostImpolite
  <2>2. ~forsaken => signaling[Polite] # "have-local-offer"
    BY <1>3, <1>4 DEF Settled, LostPolite
  <2>3. ~forsaken =>
          signaling[Impolite] # "have-remote-offer" /\ signaling[Polite] # "have-remote-offer"
    BY <1>3 DEF Settled, RemoteInv
  <2> QED BY <2>1, <2>2, <2>3
<1>6. GlareResolves
  BY <1>1, <1>5 DEF GlareResolves, ConnectionTyped
<1>7. ASSUME \A p \in Pages : signaling[p] = "stable"
      PROVE  /\ agreed[Polite] = agreed[Impolite]
             /\ \A p \in Pages : received[Other(p)] = tracks[p]
  <2>1. Synced
    BY <1>3 DEF Settled, AgreeInv
  <2>2. \A p \in Pages : tracks[p] = sent[p]
    <3>1. \A p \in Pages : ~fired[p]
      BY <1>4, <1>7 DEF Settled, MakeInv, MakeAt
    <3> QED BY <1>2, <1>7, <3>1 DEF Needed
  <2> QED BY <2>1, <2>2 DEF Synced
<1> QED BY <1>6, <1>7 DEF NegotiationSettles, StableMeansAgreed

(* An exchange ends, and it ends in agreement, for every number of offers  *)
(* and tracks: "ANY peer may offer; glare is resolved by the               *)
(* polite/impolite role" (PeerManager.ts:171).  When all is quiet and no   *)
(* ICE restart was begun, both pages are stable unless an offer was        *)
(* forsaken, and two stable pages completed the same exchange and know     *)
(* each other's tracks.                                                    *)
THEOREM NegotiationIsSettled == NegotiationSpec => []NegotiationSettles
<1>1. NegotiationSpec => []NegotiationTypeOK
  BY PagesTypeCorrect
<1>2. NegotiationSpec => [](NegotiationTypeOK /\ SettleInv)
  BY <1>1, InitTyped, TypeStep, InitSettles, SettleStep, PTL DEF NegotiationSpec
<1> QED BY <1>2, SettledIsEnough, PTL
=============================================================================
