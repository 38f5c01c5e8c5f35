--------------------------- MODULE WebNegotiation ---------------------------
(***************************************************************************)
(* PeerManager.ts for one pair of pages: who offers, how colliding offers  *)
(* are told apart (the "perfect negotiation" of its comments), the ICE     *)
(* restart and the queue of early candidates.                              *)
(*                                                                         *)
(* Every handler is an async function, cut at its awaits.  What it awaits  *)
(* are operations of an RTCPeerConnection, which a browser carries out one *)
(* after the other, in the order they were asked for: the operations       *)
(* chain.  So a handler checks the state when a message arrives and acts   *)
(* on it when its turn in the chain comes.  RTCPeerConnection is external; *)
(* it is modelled from the WebRTC specification as PeerManager uses it.    *)
(***************************************************************************)
EXTENDS Naturals, Sequences, FiniteSets, SequencesExt

CONSTANTS
  Polite, Impolite, (* the two pages; isPolite compares the socket ids     *)
  MaxTracks,        (* bound: versions of a page's tracks                  *)
  MaxRestarts,      (* bound: ICE restarts, per page                       *)
  MaxOffers         (* bound: offers, per page                             *)

ASSUME WebNegotiationAssumption ==
  /\ Polite # Impolite
  /\ MaxTracks \in Nat \ {0} /\ MaxRestarts \in Nat /\ MaxOffers \in Nat

VARIABLES
  signaling, (* signaling[p]: pc.signalingState                            *)
  chain,     (* chain[p]: operations asked for and not carried out         *)
  making,    (* making[p]: makingOffer                                     *)
  fired,     (* fired[p]: onnegotiationneeded ran since the last stable    *)
  offered,   (* offered[p]: the local offer that waits for an answer       *)
  offers,    (* offers[p]: the offers begun                                *)
  tracks,    (* tracks[p]: version of the tracks added to the connection   *)
  sent,      (* sent[p]: version of them in the last agreed description    *)
  received,  (* received[p]: version of the other's tracks in it           *)
  agreed,    (* agreed[p]: the offer of the last exchange p completed      *)
  restart,   (* restart[p]: restartIce was called and not yet negotiated   *)
  restarts,  (* restarts[p]: the ICE restarts begun                        *)
  remote,    (* remote[p]: pc.remoteDescription is set                     *)
  early,     (* early[p]: iceCandidateQueue, as the exchanges they are of  *)
  wire,      (* wire[p]: signals on the way to p                           *)
  forsaken   (* history: an offer was given up that nobody makes again     *)

connection == <<signaling, offered, offers, sent, received, agreed, restart,
                remote>>
negotiationVars == <<connection, chain, making, fired, tracks, restarts, early, wire,
          forsaken>>

Pages == {Polite, Impolite}
Other(p) == IF p = Polite THEN Impolite ELSE Polite

Versions == 0 .. MaxTracks
NoOffer == [from |-> Polite, n |-> 0, tracks |-> 0]
Offers == [from : Pages, n : 0 .. MaxOffers, tracks : Versions]

(* An offer describes the tracks its page had when it was made.            *)
Descriptions(types) ==
  {d \in [type : types, offer : Offers, tracks : Versions] :
     d.type = "offer" => d.tracks = d.offer.tracks}

Signals == Descriptions({"offer", "answer"}) \union [type : {"candidate"}, offer : Offers]

Operations ==
  [op : {"createOffer"}, by : {"needed", "restart"}, n : 1 .. MaxOffers]
    \union [op : {"setLocalOffer"}, by : {"needed", "restart"},
            n : 1 .. MaxOffers, tracks : Versions]
    \union [op : {"setRemote", "addQueued"}, signal : Descriptions({"offer", "answer"})]
    \union [op : {"rollback", "createAnswer"}, signal : Descriptions({"offer"})]
    \union [op : {"setLocalAnswer"}, signal : Descriptions({"offer"}), tracks : Versions]

NegotiationTypeOK ==
  /\ signaling \in [Pages -> {"stable", "have-local-offer", "have-remote-offer"}]
  /\ offered \in [Pages -> Offers] /\ offers \in [Pages -> 0 .. MaxOffers]
  /\ agreed \in [Pages -> Offers]
  /\ tracks \in [Pages -> Versions] /\ sent \in [Pages -> Versions]
  /\ received \in [Pages -> Versions]
  /\ restarts \in [Pages -> 0 .. MaxRestarts]
  /\ early \in [Pages -> SUBSET Offers] /\ forsaken \in BOOLEAN
  /\ chain \in [Pages -> Seq(Operations)] /\ wire \in [Pages -> Seq(Signals)]
  /\ \A f \in {making, fired, restart, remote} : f \in [Pages -> BOOLEAN]
  /\ \A p \in Pages :
       /\ signaling[p] = "have-local-offer" <=> offered[p] # NoOffer
       /\ making[p] => \E i \in DOMAIN chain[p] :
                         /\ chain[p][i].op \in {"createOffer", "setLocalOffer"}
                         /\ chain[p][i].by = "needed"

(* createPeerConnection has added the local tracks on both pages.          *)
NegotiationInit ==
  /\ signaling = [p \in Pages |-> "stable"] /\ chain = [p \in Pages |-> <<>>]
  /\ making = [p \in Pages |-> FALSE] /\ fired = [p \in Pages |-> FALSE]
  /\ offered = [p \in Pages |-> NoOffer] /\ offers = [p \in Pages |-> 0]
  /\ tracks = [p \in Pages |-> 1] /\ sent = [p \in Pages |-> 0]
  /\ received = [p \in Pages |-> 0] /\ agreed = [p \in Pages |-> NoOffer]
  /\ restart = [p \in Pages |-> FALSE] /\ restarts = [p \in Pages |-> 0]
  /\ remote = [p \in Pages |-> FALSE] /\ early = [p \in Pages |-> {}]
  /\ wire = [p \in Pages |-> <<>>] /\ forsaken = FALSE

Ask(p, operation) == chain' = [chain EXCEPT ![p] = Append(@, operation)]

-----------------------------------------------------------------------------
(* The events of a page.                                                   *)

(* addTrack or removeTrack on the connection (addScreenTrack,              *)
(* removeScreenTrack).                                                     *)
ChangeTracks(p) ==
  /\ tracks[p] < MaxTracks
  /\ tracks' = [tracks EXCEPT ![p] = @ + 1]
  /\ UNCHANGED <<connection, chain, making, fired, restarts, early, wire, forsaken>>

(* The browser fires negotiationneeded, once between two stable states,    *)
(* when the chain is empty and something is not negotiated yet.            *)
Needed(p) ==
  /\ signaling[p] = "stable" /\ chain[p] = <<>> /\ ~fired[p]
  /\ tracks[p] # sent[p] \/ restart[p]

(* onnegotiationneeded up to its first await.                              *)
NegotiationNeeded(p) ==
  /\ Needed(p) /\ offers[p] < MaxOffers
  /\ fired' = [fired EXCEPT ![p] = TRUE]
  /\ ~making[p]   (* making is never TRUE when the chain is empty *)
  /\ making' = [making EXCEPT ![p] = TRUE]
  /\ offers' = [offers EXCEPT ![p] = @ + 1]
  /\ Ask(p, [op |-> "createOffer", by |-> "needed", n |-> offers[p] + 1])
  /\ UNCHANGED <<signaling, offered, sent, received, agreed, restart, remote,
                 tracks, restarts, early, wire, forsaken>>

(* attemptIceRestart up to its await; oniceconnectionstatechange calls it, *)
(* at once or after five seconds.  It does not set makingOffer.            *)
AttemptIceRestart(p) ==
  /\ restarts[p] < MaxRestarts /\ offers[p] < MaxOffers /\ remote[p]
  /\ signaling[p] = "stable"
  /\ restarts' = [restarts EXCEPT ![p] = @ + 1]
  /\ restart' = [restart EXCEPT ![p] = TRUE]
  /\ offers' = [offers EXCEPT ![p] = @ + 1]
  /\ Ask(p, [op |-> "createOffer", by |-> "restart", n |-> offers[p] + 1])
  /\ UNCHANGED <<signaling, offered, sent, received, agreed, remote,
                 making, fired, tracks, early, wire, forsaken>>

(* Mutant: makingOffer and the role are not consulted.                     *)
MutPoliteTakeOffer(p, m) ==
  /\ IF signaling[p] # "stable" THEN Ask(p, [op |-> "rollback", signal |-> m])
     ELSE Ask(p, [op |-> "setRemote", signal |-> m])
  /\ UNCHANGED <<early, forsaken>>

(* handleSignal up to its first await.                                     *)
TakeOffer(p, m) ==
  LET collision == making[p] \/ signaling[p] # "stable"
      answered == chain[p] # <<>> /\ Last(chain[p]).op = "setRemote" IN
  /\ IF collision /\ p = Impolite THEN UNCHANGED chain
     ELSE IF signaling[p] # "stable" THEN Ask(p, [op |-> "rollback", signal |-> m])
     ELSE Ask(p, [op |-> "setRemote", signal |-> m])
  /\ forsaken' = (forsaken \/ (collision /\ p = Impolite /\ answered))
  /\ UNCHANGED early

TakeAnswer(p, m) ==
  /\ IF signaling[p] = "stable" THEN UNCHANGED chain
     ELSE Ask(p, [op |-> "setRemote", signal |-> m])
  /\ UNCHANGED <<early, forsaken>>

(* A candidate that comes before any remote description waits in the       *)
(* queue; later ones only reach the connection.                            *)
TakeCandidate(p, m) ==
  /\ early' = [early EXCEPT ![p] = IF remote[p] THEN @ ELSE @ \union {m.offer}]
  /\ UNCHANGED <<chain, forsaken>>

HandleSignal(p) ==
  /\ wire[p] # <<>>
  /\ wire' = [wire EXCEPT ![p] = Tail(@)]
  /\ LET m == Head(wire[p]) IN
       \/ m.type = "offer" /\ TakeOffer(p, m)
       \/ m.type = "answer" /\ TakeAnswer(p, m)
       \/ m.type = "candidate" /\ TakeCandidate(p, m)
  /\ UNCHANGED <<connection, making, fired, tracks, restarts>>

-----------------------------------------------------------------------------
(* The operations, each with the code that runs when it is done, up to the *)
(* next await.  An operation the state does not allow throws, and the      *)
(* handler that awaited it ends in its catch.                              *)

Done(p) == chain' = [chain EXCEPT ![p] = Tail(@)]
DoneThen(p, operation) == chain' = [chain EXCEPT ![p] = Append(Tail(@), operation)]
Post(p, signals) == wire' = [wire EXCEPT ![Other(p)] = @ \o signals]

(* Mutant: there is no finally.                                            *)
MutOfferEnds(p, by) == UNCHANGED making

(* The finally of onnegotiationneeded.                                     *)
OfferEnds(p, by) == making' = [making EXCEPT ![p] = by # "needed" /\ @]

CreateOffer(p, o) ==
  /\ IF signaling[p] # "have-remote-offer"
     THEN /\ DoneThen(p, [op |-> "setLocalOffer", by |-> o.by, n |-> o.n,
                          tracks |-> tracks[p]])
          /\ UNCHANGED making
     ELSE Done(p) /\ OfferEnds(p, o.by)
  /\ UNCHANGED <<connection, fired, early, wire, forsaken>>

SetLocalOffer(p, o) ==
  LET offer == [from |-> p, n |-> o.n, tracks |-> o.tracks] IN
  /\ Done(p) /\ OfferEnds(p, o.by)
  /\ IF signaling[p] # "have-remote-offer"
     THEN /\ signaling' = [signaling EXCEPT ![p] = "have-local-offer"]
          /\ offered' = [offered EXCEPT ![p] = offer]
          /\ Post(p, <<[type |-> "offer", offer |-> offer, tracks |-> o.tracks],
                       [type |-> "candidate", offer |-> offer]>>)
     ELSE UNCHANGED <<signaling, offered, wire>>
  /\ UNCHANGED <<offers, sent, received, agreed, restart, remote, fired, early,
                 forsaken>>

(* setLocalDescription({type: "rollback"}) fails in "stable", and then the *)
(* offer it was to make room for is lost.                                  *)
Rollback(p, o) ==
  /\ IF signaling[p] # "stable"
     THEN /\ signaling' = [signaling EXCEPT ![p] = "stable"]
          /\ offered' = [offered EXCEPT ![p] = NoOffer]
          /\ fired' = [fired EXCEPT ![p] = FALSE]
          /\ DoneThen(p, [op |-> "setRemote", signal |-> o.signal])
          /\ UNCHANGED forsaken
     ELSE Done(p) /\ forsaken' = TRUE /\ UNCHANGED <<signaling, offered, fired>>
  /\ UNCHANGED <<offers, sent, received, agreed, restart, remote, making, early,
                 wire>>

(* The exchange of this offer is complete on this side.                    *)
Agree(p, offer, ours, theirs) ==
  /\ signaling' = [signaling EXCEPT ![p] = "stable"]
  /\ offered' = [offered EXCEPT ![p] = NoOffer]
  /\ agreed' = [agreed EXCEPT ![p] = offer]
  /\ sent' = [sent EXCEPT ![p] = ours] /\ received' = [received EXCEPT ![p] = theirs]
  /\ restart' = [restart EXCEPT ![p] = FALSE]
  /\ fired' = [fired EXCEPT ![p] = FALSE]

(* What follows a remote description: the queue is flushed, then an offer  *)
(* is answered.                                                            *)
AfterRemote(p, signal) ==
  IF early[p] # {} THEN DoneThen(p, [op |-> "addQueued", signal |-> signal])
  ELSE IF signal.type = "offer"
       THEN DoneThen(p, [op |-> "createAnswer", signal |-> signal])
  ELSE Done(p)

(* setRemoteDescription; a remote offer rolls a local one back by itself.  *)
(* The code hands every answer to the connection that waits for one.       *)
SetRemote(p, o) ==
  /\ \/ /\ o.signal.type = "offer"
        /\ signaling' = [signaling EXCEPT ![p] = "have-remote-offer"]
        /\ offered' = [offered EXCEPT ![p] = NoOffer]
        /\ remote' = [remote EXCEPT ![p] = TRUE]
        /\ AfterRemote(p, o.signal)
        /\ UNCHANGED <<agreed, sent, received, restart, fired>>
     \/ /\ o.signal.type = "answer" /\ signaling[p] = "have-local-offer"
        /\ Agree(p, offered[p], offered[p].tracks, o.signal.tracks)
        /\ remote' = [remote EXCEPT ![p] = TRUE]
        /\ AfterRemote(p, o.signal)
     \/ /\ o.signal.type = "answer" /\ signaling[p] # "have-local-offer"
        /\ Done(p)
        /\ UNCHANGED <<signaling, offered, remote, agreed, sent, received, restart,
                       fired>>
  /\ UNCHANGED <<offers, making, early, wire, forsaken>>

(* The queued candidates.  The connection may refuse one whose exchange is *)
(* not the one just applied, and then the handler ends with the queue as   *)
(* it was and the offer not answered.                                      *)
AddQueued(p, o) ==
  /\ \/ /\ early' = [early EXCEPT ![p] = {}]
        /\ IF o.signal.type = "offer"
           THEN DoneThen(p, [op |-> "createAnswer", signal |-> o.signal])
           ELSE Done(p)
        /\ UNCHANGED forsaken
     \/ /\ early[p] # {o.signal.offer} /\ Done(p)
        /\ forsaken' = TRUE /\ UNCHANGED early
  /\ UNCHANGED <<connection, making, fired, wire>>

CreateAnswer(p, o) ==
  /\ IF signaling[p] = "have-remote-offer"
     THEN DoneThen(p, [op |-> "setLocalAnswer", signal |-> o.signal,
                       tracks |-> tracks[p]])
     ELSE Done(p)
  /\ UNCHANGED <<connection, making, fired, early, wire, forsaken>>

SetLocalAnswer(p, o) ==
  /\ Done(p)
  /\ IF signaling[p] = "have-remote-offer"
     THEN /\ Agree(p, o.signal.offer, o.tracks, o.signal.tracks)
          /\ Post(p, <<[type |-> "answer", offer |-> o.signal.offer,
                        tracks |-> o.tracks]>>)
     ELSE UNCHANGED <<signaling, offered, agreed, sent, received, restart, fired,
                      wire>>
  /\ UNCHANGED <<offers, remote, making, early, forsaken>>

Operate(p) ==
  /\ chain[p] # <<>>
  /\ LET o == Head(chain[p]) IN
       \/ o.op = "createOffer" /\ CreateOffer(p, o)
       \/ o.op = "setLocalOffer" /\ SetLocalOffer(p, o)
       \/ o.op = "rollback" /\ Rollback(p, o)
       \/ o.op = "setRemote" /\ SetRemote(p, o)
       \/ o.op = "addQueued" /\ AddQueued(p, o)
       \/ o.op = "createAnswer" /\ CreateAnswer(p, o)
       \/ o.op = "setLocalAnswer" /\ SetLocalAnswer(p, o)
  /\ UNCHANGED <<tracks, restarts>>

NegotiationNext == \E p \in Pages :
  \/ ChangeTracks(p) \/ NegotiationNeeded(p) \/ AttemptIceRestart(p)
  \/ HandleSignal(p) \/ Operate(p)

NegotiationSpec == NegotiationInit /\ [][NegotiationNext]_negotiationVars

-----------------------------------------------------------------------------
(* Properties.                                                             *)

(* An ICE restart makes its offer without makingOffer, so the impolite     *)
(* page may accept an offer that crosses it; what holds until a restart:   *)
NoRestart == \A p \in Pages : restarts[p] = 0

Quiet ==
  \A p \in Pages : chain[p] = <<>> /\ wire[p] = <<>> /\ ~Needed(p)

(* When both pages rest in "stable" they completed the same exchange, and  *)
(* each knows the tracks the other has now.                                *)
StableMeansAgreed ==
  Quiet /\ NoRestart /\ (\A p \in Pages : signaling[p] = "stable")
    => /\ agreed[Polite] = agreed[Impolite]
       /\ \A p \in Pages : received[Other(p)] = tracks[p]

(* "ANY peer may offer; glare is resolved by the polite/impolite role"     *)
(* (PeerManager.ts:171): when all is quiet nobody waits for an answer,     *)
(* unless an offer was given up that its page takes to be under way: the   *)
(* impolite page ignored it with the answer to its own already being       *)
(* applied, the polite page had an offer to roll back no more, or a queued *)
(* candidate was refused.                                                  *)
GlareResolves ==
  Quiet /\ NoRestart /\ ~forsaken => \A p \in Pages : signaling[p] = "stable"

(* An exchange ends, and it ends in agreement (PeerManager.ts:171).        *)
NegotiationSettles == GlareResolves /\ StableMeansAgreed
=============================================================================
