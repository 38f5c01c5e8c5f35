----------------------------- MODULE Negotiation -----------------------------
(***************************************************************************)
(* Offer/answer negotiation of one pair of native peers: the Negotiator of *)
(* zancord-transport (negotiation.rs) on both sides, and the part of       *)
(* PeerConnection and MeshManager that drives it (peer.rs, mesh.rs).       *)
(*                                                                         *)
(* The peer with the smaller id is the offerer, the only one that creates  *)
(* offers; the other answers, and asks for an offer with Renegotiate.      *)
(* Every Negotiator operation holds a mutex over several awaits, but the   *)
(* application attaches and detaches tracks between them.  Signaling is    *)
(* FIFO and lossless here, as SignalingServer delivers it to a receiver    *)
(* that is not overrun.                                                    *)
(*                                                                         *)
(* The RTCPeerConnection is the webrtc crate's: its signaling state, when  *)
(* it reports that negotiation is needed, and the JSEP rule that an answer *)
(* has exactly the media lines of its offer, are external.  The microphone *)
(* is always attached and has a line of its own; Tracks are the others, of *)
(* one kind.  A description is the set of tracks it says its side sends.   *)
(***************************************************************************)
EXTENDS Naturals, Sequences, FiniteSets

CONSTANTS
  Tracks,      \* camera and screen, the tracks the application toggles
  Mic,         \* the track that is always attached
  MaxToggles   \* bound: how often each application toggles a track

ASSUME NegotiationAssumption ==
  /\ IsFiniteSet(Tracks)
  /\ Mic \notin Tracks
  /\ MaxToggles \in Nat

Attached == {{Mic} \cup on : on \in SUBSET Tracks}
Sides == {"offerer", "answerer"}
Other(s) == IF s = "offerer" THEN "answerer" ELSE "offerer"

VARIABLES
  up,        \* whether MeshManager.peers has the other side
  tracks,    \* PeerConnection.senders (before it exists: the enabled flags)
  sig,       \* pc.signaling_state()
  stage,     \* what the task that holds Negotiator.lock has done so far
  draft,     \* the tracks of the description that task has created
  pending,   \* renegotiate_pending of the answerer
  needed,    \* the library's negotiation-needed flag
  callback,  \* an on_negotiation_needed callback has still to run
  local,     \* the tracks of the local description
  remote,    \* the tracks of the remote description
  lines,     \* media lines of the last offer created
  wire,      \* messages of a side the other has not handled yet
  toggles    \* toggles so far (bounded by MaxToggles)

vars == <<up, tracks, sig, stage, draft, pending, needed, callback, local, remote,
          lines, wire, toggles>>

Message(type, sent, n) == [type |-> type, tracks |-> sent, lines |-> n]
Messages ==
  [type : {"Offer", "Answer", "Renegotiate"}, tracks : Attached \cup {{}},
   lines : 0..Cardinality(Tracks)]

Larger(m, n) == IF m < n THEN n ELSE m

Init ==
  /\ up = [s \in Sides |-> FALSE]
  /\ tracks \in [Sides -> Attached]
  /\ sig = [s \in Sides |-> "stable"]
  /\ stage = [s \in Sides |-> "idle"]
  /\ draft = [s \in Sides |-> {}]
  /\ pending = FALSE
  /\ needed = [s \in Sides |-> FALSE]
  /\ callback = [s \in Sides |-> FALSE]
  /\ local = [s \in Sides |-> {}]
  /\ remote = [s \in Sides |-> {}]
  /\ lines = 0
  /\ wire = [s \in Sides |-> <<>>]
  /\ toggles = [s \in Sides |-> 0]

Send(s, m) == wire' = [wire EXCEPT ![s] = Append(@, m)]
Receives(s, type) ==
  /\ up[s] /\ stage[s] = "idle"
  /\ wire[Other(s)] # <<>> /\ Head(wire[Other(s)]).type = type
  /\ wire' = [wire EXCEPT ![Other(s)] = Tail(@)]
Received(s) == Head(wire[Other(s)])

(* External: the library reports that negotiation is needed when it is     *)
(* stable and its local description does not say what is attached; it      *)
(* reports again only after the next return to stable.                     *)
Report(s) ==
  /\ needed' = [needed EXCEPT ![s] = TRUE]
  /\ callback' = [callback EXCEPT ![s] = TRUE]
ReportIfNeeded(s, described) ==
  IF described # tracks[s] THEN Report(s)
  ELSE needed' = [needed EXCEPT ![s] = FALSE] /\ UNCHANGED callback

(* The offerer starts a cycle only from stable (making_offer is always     *)
(* false here: it is set and cleared under the lock).                      *)
MutAlwaysOffer == TRUE
CanOffer == sig["offerer"] = "stable"

(* create_offer: the description has the tracks attached now, and a line   *)
(* for each track there ever was.                                          *)
CreateOffer ==
  /\ stage' = [stage EXCEPT !["offerer"] = "offering"]
  /\ draft' = [draft EXCEPT !["offerer"] = tracks["offerer"]]
  /\ lines' = Larger(lines, Cardinality(tracks["offerer"] \ {Mic}))

MutOfferOnce ==
  IF CanOffer /\ local["offerer"] = {} THEN CreateOffer ELSE UNCHANGED <<stage, draft, lines>>
CreateOfferIfStable ==
  IF CanOffer THEN CreateOffer ELSE UNCHANGED <<stage, draft, lines>>

(* PeerConnection::new attaches the tracks enabled now, which reports      *)
(* negotiation needed, to the callback it has registered.                  *)
NewConnection(s) ==
  /\ up' = [up EXCEPT ![s] = TRUE]
  /\ Report(s)

(* MeshManager::handle_peer_joined: with a new connection the offerer      *)
(* negotiates at once.                                                     *)
Connect(s) ==
  /\ ~up[s]
  /\ NewConnection(s)
  /\ IF s = "offerer" THEN CreateOffer ELSE UNCHANGED <<stage, draft, lines>>
  /\ UNCHANGED <<tracks, sig, pending, local, remote, wire, toggles>>

(* set_camera_enabled, set_screen_enabled: add_local_track or              *)
(* remove_local_track on the connection, without the negotiation lock.     *)
Toggle(s, t) ==
  /\ toggles[s] < MaxToggles
  /\ toggles' = [toggles EXCEPT ![s] = @ + 1]
  /\ tracks' = [tracks EXCEPT ![s] = IF t \in @ THEN @ \ {t} ELSE @ \cup {t}]
  /\ IF up[s] /\ sig[s] = "stable" /\ ~needed[s] /\ tracks'[s] # local[s]
     THEN Report(s) ELSE UNCHANGED <<needed, callback>>
  /\ UNCHANGED <<up, sig, stage, draft, pending, local, remote, lines, wire>>

(* on_negotiation_needed, answerer: ask for an offer, once. *)
RequestOffer ==
  /\ callback["answerer"] /\ stage["answerer"] = "idle"
  /\ callback' = [callback EXCEPT !["answerer"] = FALSE]
  /\ pending' = TRUE
  /\ IF pending THEN UNCHANGED wire ELSE Send("answerer", Message("Renegotiate", {}, 0))
  /\ UNCHANGED <<up, tracks, sig, stage, draft, needed, local, remote, lines, toggles>>

(* on_negotiation_needed, offerer. *)
OfferWhenNeeded ==
  /\ callback["offerer"] /\ stage["offerer"] = "idle"
  /\ callback' = [callback EXCEPT !["offerer"] = FALSE]
  /\ CreateOfferIfStable
  /\ UNCHANGED <<up, tracks, sig, pending, needed, local, remote, wire, toggles>>

(* handle_renegotiate. *)
HandleRenegotiate ==
  /\ Receives("offerer", "Renegotiate")
  /\ CreateOfferIfStable
  /\ UNCHANGED <<up, tracks, sig, pending, needed, callback, local, remote, toggles>>

(* make_offer_inner after create_offer. *)
SendOffer ==
  /\ stage["offerer"] = "offering"
  /\ stage' = [stage EXCEPT !["offerer"] = "idle"]
  /\ sig' = [sig EXCEPT !["offerer"] = "have-local-offer"]
  /\ local' = [local EXCEPT !["offerer"] = draft["offerer"]]
  /\ Send("offerer", Message("Offer", draft["offerer"], lines))
  /\ UNCHANGED <<up, tracks, draft, pending, needed, callback, remote, lines, toggles>>

(* handle_offer: the request is answered, the remote description set.  An  *)
(* offer that is not expected is dropped.                                  *)
MutKeepPending == pending
PendingAfterOffer == FALSE
HandleOffer ==
  /\ Receives("answerer", "Offer")
  /\ pending' = PendingAfterOffer
  /\ IF sig["answerer"] = "stable"
     THEN /\ sig' = [sig EXCEPT !["answerer"] = "have-remote-offer"]
          /\ remote' = [remote EXCEPT !["answerer"] = Received("answerer").tracks]
          /\ stage' = [stage EXCEPT !["answerer"] = "answering"]
     ELSE UNCHANGED <<sig, remote, stage>>
  /\ UNCHANGED <<up, tracks, draft, needed, callback, local, lines, toggles>>

(* create_answer: as many of the tracks attached now as the offer has      *)
(* lines for.                                                              *)
CreateAnswer ==
  /\ stage["answerer"] = "answering"
  /\ stage' = [stage EXCEPT !["answerer"] = "answered"]
  /\ \E sent \in SUBSET (tracks["answerer"] \ {Mic}) :
       /\ Cardinality(sent) <= lines
       /\ sent \cup {Mic} = tracks["answerer"] \/ Cardinality(sent) = lines
       /\ draft' = [draft EXCEPT !["answerer"] = sent \cup {Mic}]
  /\ UNCHANGED <<up, tracks, sig, pending, needed, callback, local, remote, lines, wire, toggles>>

(* handle_offer after create_answer: the answerer is stable again. *)
SendAnswer ==
  /\ stage["answerer"] = "answered"
  /\ stage' = [stage EXCEPT !["answerer"] = "idle"]
  /\ sig' = [sig EXCEPT !["answerer"] = "stable"]
  /\ local' = [local EXCEPT !["answerer"] = draft["answerer"]]
  /\ ReportIfNeeded("answerer", draft["answerer"])
  /\ Send("answerer", Message("Answer", draft["answerer"], lines))
  /\ UNCHANGED <<up, tracks, draft, pending, remote, lines, toggles>>

(* handle_answer; the library refuses an answer nobody waits for. *)
HandleAnswer ==
  /\ Receives("offerer", "Answer")
  /\ IF sig["offerer"] = "have-local-offer"
     THEN /\ sig' = [sig EXCEPT !["offerer"] = "stable"]
          /\ remote' = [remote EXCEPT !["offerer"] = Received("offerer").tracks]
          /\ ReportIfNeeded("offerer", local["offerer"])
     ELSE UNCHANGED <<sig, remote, needed, callback>>
  /\ UNCHANGED <<up, tracks, stage, draft, pending, local, lines, toggles>>

Work ==
  \/ RequestOffer \/ OfferWhenNeeded \/ SendOffer \/ CreateAnswer \/ SendAnswer
  \/ HandleRenegotiate \/ HandleOffer \/ HandleAnswer

Next ==
  \/ \E s \in Sides : Connect(s) \/ \E t \in Tracks : Toggle(s, t)
  \/ Work

Spec == Init /\ [][Next]_vars

(* Both sides hear of each other (SignalingServer, ViewsCatchUp), and the  *)
(* runtime runs every callback, handler and task that is ready.            *)
Fairness ==
  /\ \A s \in Sides : WF_vars(Connect(s))
  /\ WF_vars(RequestOffer) /\ WF_vars(OfferWhenNeeded) /\ WF_vars(SendOffer)
  /\ WF_vars(CreateAnswer) /\ WF_vars(SendAnswer)
  /\ WF_vars(HandleRenegotiate) /\ WF_vars(HandleOffer) /\ WF_vars(HandleAnswer)

FairSpec == Spec /\ Fairness

-----------------------------------------------------------------------------
(* The types; and a pair never has more than one offer, or more than an    *)
(* answer between two requests, on its way: no storm of renegotiations.    *)
TypeOK ==
  /\ up \in [Sides -> BOOLEAN]
  /\ tracks \in [Sides -> Attached]
  /\ sig \in [Sides -> {"stable", "have-local-offer", "have-remote-offer"}]
  /\ stage \in [Sides -> {"idle", "offering", "answering", "answered"}]
  /\ draft \in [Sides -> Attached \cup {{}}]
  /\ pending \in BOOLEAN
  /\ needed \in [Sides -> BOOLEAN]
  /\ callback \in [Sides -> BOOLEAN]
  /\ local \in [Sides -> Attached \cup {{}}]
  /\ remote \in [Sides -> Attached \cup {{}}]
  /\ lines \in 0..Cardinality(Tracks)
  /\ wire \in [Sides -> Seq(Messages)]
  /\ Len(wire["offerer"]) <= 1 /\ Len(wire["answerer"]) <= 3
  /\ toggles \in [Sides -> 0..MaxToggles]

InFlight(s, type) == {i \in DOMAIN wire[s] : wire[s][i].type = type}

(* Where the one description of a cycle can be. *)
CycleParts ==
  Cardinality(InFlight("offerer", "Offer")) + Cardinality(InFlight("answerer", "Answer"))
    + (IF stage["answerer"] # "idle" THEN 1 ELSE 0)

(* Glare is impossible by construction (negotiation.rs): there is one      *)
(* offer or answer under way exactly while the offerer waits for an        *)
(* answer, so no offer meets a busy answerer and no answer is unexpected.  *)
NoGlare ==
  /\ sig["offerer"] = "have-local-offer" => CycleParts = 1
  /\ sig["offerer"] = "stable" => CycleParts = 0
  /\ stage["answerer"] = "idle" => sig["answerer"] = "stable"

(* `already requested; offerer will act on it`: while a request is marked  *)
(* as pending it is on its way, or an offer is being made or on its way,   *)
(* so the mark is cleared and swallows no later request.                   *)
PendingIsCovered ==
  pending => \/ InFlight("answerer", "Renegotiate") # {}
             \/ stage["offerer"] = "offering"
             \/ InFlight("offerer", "Offer") # {}

(* One cycle at a time, and no request that it swallows (the two claims of *)
(* negotiation.rs above).                                                  *)
CycleIsSound == NoGlare /\ PendingIsCovered

Quiet ==
  \A s \in Sides : up[s] /\ stage[s] = "idle" /\ ~callback[s] /\ wire[s] = <<>>

(* When nothing is left to do, each side has what the other attached: no   *)
(* toggle, however it falls between the steps of a cycle, is forgotten.    *)
QuietMeansAgreed == Quiet => \A s \in Sides : remote[s] = tracks[Other(s)]

(* The tracks of the offerer, in the end, reach the answerer. *)
OffererTracksArrive == <>[](remote["answerer"] = tracks["offerer"])

(* So do those of the answerer, if the offers have lines for them ... *)
FittingTracksArrive ==
  <>[](Cardinality(tracks["answerer"] \ {Mic}) <= lines => remote["offerer"] = tracks["answerer"])

(* Every track an offer has a line for arrives, whoever attached it.       *)
TracksArrive == OffererTracksArrive /\ FittingTracksArrive

(* ... or without that: `the in-flight cycle covers the requested change`  *)
(* (negotiation.rs, handle_renegotiate), `adding/removing triggers         *)
(* per-peer renegotiation` (mesh.rs).                                      *)
AnswererTracksArrive == <>[](remote["offerer"] = tracks["answerer"])
=============================================================================
