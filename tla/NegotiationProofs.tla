-------------------------- MODULE NegotiationProofs --------------------------
(***************************************************************************)
(* One cycle at a time between two native peers, whatever they toggle and  *)
(* however often: proved for any finite set of tracks and any bound.       *)
(*                                                                         *)
(* The invariant says which messages can be on their way together.  The    *)
(* offerer's side has at most one offer.  The answerer's side has at most  *)
(* one answer, one request before it and one behind it: a request is only  *)
(* sent without a mark, and only an offer, which the answer follows, takes *)
(* the mark away.                                                          *)
(***************************************************************************)
EXTENDS Negotiation, FiniteSetTheorems, TLAPS

Typed ==
  /\ up \in [Sides -> BOOLEAN]
  /\ tracks \in [Sides -> Attached]
  /\ sig \in [Sides -> {"stable", "have-local-offer", "have-remote-offer"}]
  /\ stage \in [Sides -> {"idle", "offering", "answering", "answered"}]
  /\ draft \in [Sides -> Attached \cup {{}}]
  /\ pending \in BOOLEAN
  /\ needed \in [Sides -> BOOLEAN]
  /\ callback \in [Sides -> BOOLEAN]
  /\ local \in [Sides -> Attached \cup {{}}]
  /\ remote \in [Sides -> Attached \cup {{}}]
  /\ lines \in 0..Cardinality(Tracks)
  /\ wire \in [Sides -> Seq(Messages)]
  /\ toggles \in [Sides -> 0..MaxToggles]

(* What is on its way, by its kinds.                                       *)
Kinds(w) == [i \in DOMAIN w |-> w[i].type]
Offers == Kinds(wire["offerer"])
Answers == Kinds(wire["answerer"])

R == "Renegotiate"
A == "Answer"
Unmarked == {<<A>>, <<R, A>>}          \* with an answer, none behind it
Marked == {<<A, R>>, <<R, A, R>>}      \* with an answer, a request behind it

(* The three places of the description of a cycle.                         *)
OfferUnderway == Offers = <<"Offer">>
Answering == stage["answerer"] # "idle"
AnswerUnderway == Answers \in Unmarked \cup Marked

(* A connection that does not exist has done nothing.                      *)
Roles ==
  /\ stage["offerer"] \in {"idle", "offering"}
  /\ stage["answerer"] \in {"idle", "answering", "answered"}
  /\ sig["offerer"] \in {"stable", "have-local-offer"}
  /\ stage["offerer"] = "offering" => sig["offerer"] = "stable"
  /\ stage["answerer"] = "idle" <=> sig["answerer"] = "stable"
  /\ ~up["offerer"] =>
       sig["offerer"] = "stable" /\ stage["offerer"] = "idle" /\ ~callback["offerer"]

OneCycle ==
  /\ Offers \in {<<>>, <<"Offer">>}
  /\ Answers \in {<<>>, <<R>>} \cup Unmarked \cup Marked
  /\ sig["offerer"] = "have-local-offer" <=> OfferUnderway \/ Answering \/ AnswerUnderway
  /\ ~(OfferUnderway /\ Answering)
  /\ ~(OfferUnderway /\ AnswerUnderway)
  /\ ~(Answering /\ AnswerUnderway)

Marks ==
  /\ Answering => ~pending
  /\ AnswerUnderway => (pending <=> Answers \in Marked)
  /\ ~Answering /\ Answers = <<R>> => pending
  /\ pending => \/ AnswerUnderway \/ Answers = <<R>> \/ OfferUnderway
                \/ stage["offerer"] = "offering"

CycleInv == Typed /\ Roles /\ OneCycle /\ Marks

-----------------------------------------------------------------------------
(* Messages by their kinds.                                                *)

LEMMA KindsOf ==
  ASSUME NEW w \in Seq(Messages)
  PROVE  /\ w = <<>> <=> Kinds(w) = <<>>
         /\ Len(Kinds(w)) = Len(w)
         /\ \A i \in 1 .. Len(w) : Kinds(w)[i] = w[i].type
<1>1. Kinds(w) \in Seq({w[i].type : i \in DOMAIN w}) /\ DOMAIN w = 1 .. Len(w)
  BY DEF Kinds
<1>2. Len(Kinds(w)) = Len(w) /\ \A i \in 1 .. Len(w) : Kinds(w)[i] = w[i].type
  BY <1>1 DEF Kinds
<1>3. (w = <<>> <=> Len(w) = 0) /\ (Kinds(w) = <<>> <=> Len(Kinds(w)) = 0)
  BY <1>1
<1> QED BY ONLY <1>2, <1>3

LEMMA KindsAppend ==
  ASSUME NEW w \in Seq(Messages), NEW m \in Messages
  PROVE  Kinds(Append(w, m)) = Append(Kinds(w), m.type)
<1>1. /\ DOMAIN w = 1 .. Len(w) /\ DOMAIN Append(w, m) = 1 .. Len(w) + 1
      /\ \A i \in 1 .. Len(w) + 1 : Append(w, m)[i] = IF i = Len(w) + 1 THEN m ELSE w[i]
  OBVIOUS
<1>2. Kinds(Append(w, m))
        = [i \in 1 .. Len(w) + 1 |-> IF i = Len(w) + 1 THEN m.type ELSE w[i].type]
  BY <1>1 DEF Kinds
<1>3. Kinds(w) = [i \in 1 .. Len(w) |-> w[i].type]
  BY <1>1 DEF Kinds
<1> DEFINE k == [i \in 1 .. Len(w) |-> w[i].type]
<1>4. k \in Seq({w[i].type : i \in 1 .. Len(w)}) /\ Len(k) = Len(w)
  BY <1>1
<1>5. Append(k, m.type)
        = [i \in 1 .. Len(w) + 1 |-> IF i = Len(w) + 1 THEN m.type ELSE w[i].type]
  BY <1>4
<1> QED BY ONLY <1>2, <1>3, <1>5

LEMMA KindsTail ==
  ASSUME NEW w \in Seq(Messages), w # <<>>
  PROVE  Kinds(Tail(w)) = Tail(Kinds(w)) /\ Head(Kinds(w)) = Head(w).type
<1>1. /\ Len(w) \in Nat \ {0} /\ DOMAIN w = 1 .. Len(w)
      /\ DOMAIN Tail(w) = 1 .. Len(w) - 1
      /\ \A i \in 1 .. Len(w) - 1 : Tail(w)[i] = w[i + 1]
  OBVIOUS
<1>2. Kinds(Tail(w)) = [i \in 1 .. Len(w) - 1 |-> w[i + 1].type]
  BY <1>1 DEF Kinds
<1>3. Kinds(w) = [i \in 1 .. Len(w) |-> w[i].type]
  BY <1>1 DEF Kinds
<1> DEFINE k == [i \in 1 .. Len(w) |-> w[i].type]
<1>4. k \in Seq({w[i].type : i \in 1 .. Len(w)}) /\ Len(k) = Len(w) /\ k # <<>>
  BY <1>1
<1>5. Tail(k) = [i \in 1 .. Len(w) - 1 |-> w[i + 1].type]
  BY <1>1, <1>4
<1>6. Head(k) = w[1].type /\ Head(w) = w[1]
  BY <1>1, <1>4
<1> QED BY ONLY <1>2, <1>3, <1>5, <1>6

LEMMA Appended ==
  ASSUME NEW S, NEW x \in S, NEW y \in S, NEW z \in S
  PROVE  /\ Append(<<>>, x) = <<x>>
         /\ Append(<<x>>, y) = <<x, y>>
         /\ Append(<<x, y>>, z) = <<x, y, z>>
<1>1. ASSUME NEW s \in Seq(S), NEW t \in Seq(S), Len(s) = Len(t),
             \A i \in 1 .. Len(s) : s[i] = t[i]
      PROVE  s = t
  BY <1>1
<1>2. /\ <<>> \in Seq(S) /\ Len(<<>>) = 0
      /\ <<x>> \in Seq(S) /\ Len(<<x>>) = 1 /\ <<x>>[1] = x
      /\ <<x, y>> \in Seq(S) /\ Len(<<x, y>>) = 2 /\ <<x, y>>[1] = x /\ <<x, y>>[2] = y
  OBVIOUS
<1>3. /\ <<x, y, z>> \in Seq(S) /\ Len(<<x, y, z>>) = 3
      /\ <<x, y, z>>[1] = x /\ <<x, y, z>>[2] = y /\ <<x, y, z>>[3] = z
  OBVIOUS
<1>4. \A s \in Seq(S), e \in S :
        /\ Append(s, e) \in Seq(S) /\ Len(Append(s, e)) = Len(s) + 1
        /\ Append(s, e)[Len(s) + 1] = e
        /\ \A i \in 1 .. Len(s) : Append(s, e)[i] = s[i]
  OBVIOUS
<1>5. Append(<<>>, x) = <<x>>
  <2>1. /\ Append(<<>>, x) \in Seq(S) /\ Len(Append(<<>>, x)) = 1
        /\ Append(<<>>, x)[1] = x
    BY ONLY <1>2, <1>4, x \in S
  <2>2. \A i \in 1 .. 1 : Append(<<>>, x)[i] = <<x>>[i]
    BY ONLY <1>2, <2>1
  <2> QED BY ONLY <1>1, <1>2, <2>1, <2>2
<1>6. Append(<<x>>, y) = <<x, y>>
  <2>1. /\ Append(<<x>>, y) \in Seq(S) /\ Len(Append(<<x>>, y)) = 2
        /\ Append(<<x>>, y)[1] = x /\ Append(<<x>>, y)[2] = y
    BY ONLY <1>2, <1>4, y \in S
  <2>2. \A i \in 1 .. 2 : Append(<<x>>, y)[i] = <<x, y>>[i]
    BY ONLY <1>2, <2>1
  <2> QED BY ONLY <1>1, <1>2, <2>1, <2>2
<1>7. Append(<<x, y>>, z) = <<x, y, z>>
  <2>1. /\ Append(<<x, y>>, z) \in Seq(S) /\ Len(Append(<<x, y>>, z)) = 3
        /\ Append(<<x, y>>, z)[1] = x /\ Append(<<x, y>>, z)[2] = y
        /\ Append(<<x, y>>, z)[3] = z
    BY ONLY <1>2, <1>4, z \in S
  <2>2. \A i \in 1 .. 3 : Append(<<x, y>>, z)[i] = <<x, y, z>>[i]
    BY ONLY <1>3, <2>1
  <2> QED BY ONLY <1>1, <1>3, <2>1, <2>2
<1> QED BY ONLY <1>5, <1>6, <1>7

(* The few sequences of kinds there are.                                   *)
LEMMA Shapes ==
  /\ Append(<<>>, "Offer") = <<"Offer">>
  /\ Append(<<>>, R) = <<R>> /\ Append(<<A>>, R) = <<A, R>>
  /\ Append(<<R, A>>, R) = <<R, A, R>>
  /\ Append(<<>>, A) = <<A>> /\ Append(<<R>>, A) = <<R, A>>
  /\ Tail(<<"Offer">>) = <<>> /\ Tail(<<R>>) = <<>> /\ Tail(<<A>>) = <<>>
  /\ Tail(<<R, A>>) = <<A>> /\ Tail(<<A, R>>) = <<R>> /\ Tail(<<R, A, R>>) = <<A, R>>
  /\ Head(<<"Offer">>) = "Offer" /\ Head(<<R>>) = R /\ Head(<<A>>) = A
  /\ Head(<<R, A>>) = R /\ Head(<<A, R>>) = A /\ Head(<<R, A, R>>) = R
<1>1. /\ Append(<<>>, "Offer") = <<"Offer">>
      /\ Append(<<>>, R) = <<R>> /\ Append(<<A>>, R) = <<A, R>>
      /\ Append(<<R, A>>, R) = <<R, A, R>>
      /\ Append(<<>>, A) = <<A>> /\ Append(<<R>>, A) = <<R, A>>
  <2> DEFINE K == {R, A, "Offer"}
  <2>1. \A x, y, z \in K : /\ Append(<<>>, x) = <<x>>
                           /\ Append(<<x>>, y) = <<x, y>>
                           /\ Append(<<x, y>>, z) = <<x, y, z>>
    <3> HIDE DEF K
    <3> QED BY Appended
  <2>2. R \in K /\ A \in K /\ "Offer" \in K
    OBVIOUS
  <2> HIDE DEF K
  <2> QED BY ONLY <2>1, <2>2
<1>4. Tail(<<"Offer">>) = <<>> /\ Tail(<<R>>) = <<>> /\ Tail(<<A>>) = <<>>
  BY DEF R, A
<1>5. Tail(<<R, A>>) = <<A>> /\ Tail(<<A, R>>) = <<R>>
  BY DEF R, A
<1>6. Tail(<<R, A, R>>) = <<A, R>>
  BY DEF R, A
<1>7. Head(<<"Offer">>) = "Offer" /\ Head(<<R>>) = R /\ Head(<<A>>) = A
  BY DEF R, A
<1>8. Head(<<R, A>>) = R /\ Head(<<A, R>>) = A /\ Head(<<R, A, R>>) = R
  BY DEF R, A
<1> QED BY ONLY <1>1, <1>4, <1>5, <1>6, <1>7, <1>8

LEMMA Distinct ==
  /\ <<"Offer">> # <<>>
  /\ <<>> \notin {<<R>>, <<A>>, <<R, A>>, <<A, R>>, <<R, A, R>>}
  /\ <<R>> \notin {<<A>>, <<R, A>>, <<A, R>>, <<R, A, R>>}
  /\ <<A>> \notin {<<R, A>>, <<A, R>>, <<R, A, R>>}
  /\ <<R, A>> \notin {<<A, R>>, <<R, A, R>>}
  /\ <<A, R>> # <<R, A, R>>
  /\ R # A
BY DEF R, A

-----------------------------------------------------------------------------
(* Types.                                                                  *)

LEMMA MessageTyped ==
  ASSUME Typed, NEW type \in {"Offer", "Answer", "Renegotiate"},
         NEW sent \in Attached \cup {{}}, NEW n \in 0..Cardinality(Tracks)
  PROVE  Message(type, sent, n) \in Messages /\ Message(type, sent, n).type = type
BY DEF Message, Messages, Attached

LEMMA AttachedIsFew ==
  ASSUME NEW on \in Attached
  PROVE  Cardinality(on \ {Mic}) \in 0..Cardinality(Tracks)
<1>1. on \ {Mic} \subseteq Tracks
  BY DEF Attached
<1>2. IsFiniteSet(Tracks)
  BY NegotiationAssumption
<1>3. IsFiniteSet(on \ {Mic}) /\ Cardinality(on \ {Mic}) <= Cardinality(Tracks)
  BY <1>1, <1>2, FS_Subset
<1>4. Cardinality(on \ {Mic}) \in Nat /\ Cardinality(Tracks) \in Nat
  BY <1>2, <1>3, FS_CardinalityType
<1> QED BY ONLY <1>3, <1>4

(* What a sent and a taken message do to what is under way.                *)
LEMMA SendStep ==
  ASSUME Typed, NEW s \in Sides, NEW m \in Messages, Send(s, m)
  PROVE  /\ wire' \in [Sides -> Seq(Messages)]
         /\ Kinds(wire'[s]) = Append(Kinds(wire[s]), m.type)
         /\ wire'[Other(s)] = wire[Other(s)]
<1>1. wire' = [wire EXCEPT ![s] = Append(wire[s], m)] /\ wire \in [Sides -> Seq(Messages)]
  BY DEF Send, Typed
<1>2. wire[s] \in Seq(Messages) /\ Append(wire[s], m) \in Seq(Messages)
  BY <1>1
<1>3. wire' \in [Sides -> Seq(Messages)] /\ wire'[s] = Append(wire[s], m)
  BY ONLY <1>1, <1>2, s \in Sides
<1>4. Other(s) \in Sides /\ Other(s) # s
  BY DEF Other, Sides
<1>5. Kinds(Append(wire[s], m)) = Append(Kinds(wire[s]), m.type)
  BY <1>2, KindsAppend
<1> QED BY ONLY <1>1, <1>3, <1>4, <1>5

LEMMA ReceiveStep ==
  ASSUME Typed, NEW s \in Sides, NEW type, Receives(s, type)
  PROVE  /\ wire' \in [Sides -> Seq(Messages)]
         /\ Kinds(wire[Other(s)]) # <<>> /\ Head(Kinds(wire[Other(s)])) = type
         /\ Kinds(wire'[Other(s)]) = Tail(Kinds(wire[Other(s)]))
         /\ wire'[s] = wire[s]
         /\ Received(s) \in Messages
<1> DEFINE o == Other(s)
<1>1. o \in Sides /\ o # s
  BY DEF Other, Sides
<1>2. /\ wire' = [wire EXCEPT ![o] = Tail(wire[o])] /\ wire \in [Sides -> Seq(Messages)]
      /\ wire[o] # <<>> /\ Head(wire[o]).type = type
  BY DEF Receives, Typed
<1> HIDE DEF o
<1>3. wire[o] \in Seq(Messages)
  BY <1>1, <1>2
<1>4. Tail(wire[o]) \in Seq(Messages) /\ Head(wire[o]) \in Messages
  BY <1>2, <1>3
<1>5. /\ wire' \in [Sides -> Seq(Messages)] /\ wire'[o] = Tail(wire[o])
      /\ wire'[s] = wire[s]
  BY ONLY <1>1, <1>2, <1>4, s \in Sides
<1>6. Kinds(wire[o]) # <<>>
  BY <1>2, <1>3, KindsOf
<1>7. Kinds(Tail(wire[o])) = Tail(Kinds(wire[o])) /\ Head(Kinds(wire[o])) = type
  BY <1>2, <1>3, KindsTail
<1>8. Received(s) = Head(wire[o])
  BY DEF Received, o
<1> QED BY <1>4, <1>5, <1>6, <1>7, <1>8 DEF o

LEMMA CreateOfferStep ==
  ASSUME Typed, CreateOfferIfStable
  PROVE  /\ stage' \in [Sides -> {"idle", "offering", "answering", "answered"}]
         /\ draft' \in [Sides -> Attached \cup {{}}]
         /\ lines' \in 0..Cardinality(Tracks)
         /\ stage'["answerer"] = stage["answerer"]
         /\ stage'["offerer"] = IF CanOffer THEN "offering" ELSE stage["offerer"]
<1>1. CASE ~CanOffer
  BY <1>1 DEF CreateOfferIfStable, Typed
<1>2. CASE CanOffer
  <2>1. CreateOffer
    BY <1>2 DEF CreateOfferIfStable
  <2>2. "offerer" \in Sides /\ "answerer" \in Sides
    BY DEF Sides
  <2>3. /\ stage' = [stage EXCEPT !["offerer"] = "offering"]
        /\ draft' = [draft EXCEPT !["offerer"] = tracks["offerer"]]
    BY <2>1 DEF CreateOffer
  <2>4. tracks["offerer"] \in Attached
    BY <2>2 DEF Typed
  <2>5. Cardinality(tracks["offerer"] \ {Mic}) \in 0..Cardinality(Tracks)
    BY <2>4, AttachedIsFew
  <2>6. lines' \in 0..Cardinality(Tracks)
    BY <2>1, <2>5 DEF CreateOffer, Larger, Typed
  <2> QED BY <1>2, <2>2, <2>3, <2>4, <2>6 DEF Typed
<1> QED BY <1>1, <1>2

LEMMA TypedStep == Typed /\ [Next]_vars => Typed'
<1> SUFFICES ASSUME Typed, [Next]_vars PROVE Typed'
  OBVIOUS
<1>s. "offerer" \in Sides /\ "answerer" \in Sides
  BY DEF Sides
<1> USE <1>s
<1>report. \A s \in Sides : Report(s) => /\ needed' \in [Sides -> BOOLEAN]
                                         /\ callback' \in [Sides -> BOOLEAN]
  BY DEF Report, Typed
<1>maybe. \A s \in Sides : \A d : ReportIfNeeded(s, d) => /\ needed' \in [Sides -> BOOLEAN]
                                                          /\ callback' \in [Sides -> BOOLEAN]
  BY <1>report DEF ReportIfNeeded, Typed
<1>1. ASSUME NEW s \in Sides, Connect(s) PROVE Typed'
  <2>1. /\ needed' \in [Sides -> BOOLEAN] /\ callback' \in [Sides -> BOOLEAN]
        /\ up' \in [Sides -> BOOLEAN]
    BY <1>1, <1>report DEF Connect, NewConnection, Typed
  <2>2. UNCHANGED <<tracks, sig, pending, local, remote, wire, toggles>>
    BY <1>1 DEF Connect, NewConnection
  <2>3. /\ stage' \in [Sides -> {"idle", "offering", "answering", "answered"}]
        /\ draft' \in [Sides -> Attached \cup {{}}]
        /\ lines' \in 0..Cardinality(Tracks)
    <3>1. CASE s # "offerer"
      BY <1>1, <3>1 DEF Connect, NewConnection, Typed
    <3>2. CASE s = "offerer"
      <4>1. CreateOffer
        BY <1>1, <3>2 DEF Connect, NewConnection
      <4>2. tracks["offerer"] \in Attached
        BY DEF Typed
      <4>3. Cardinality(tracks["offerer"] \ {Mic}) \in 0..Cardinality(Tracks)
        BY <4>2, AttachedIsFew
      <4> QED BY <4>1, <4>2, <4>3 DEF CreateOffer, Larger, Typed
    <3> QED BY <3>1, <3>2
  <2> QED BY <2>1, <2>2, <2>3 DEF Typed
<1>2. ASSUME NEW s \in Sides, NEW t \in Tracks, Toggle(s, t) PROVE Typed'
  <2>1. needed' \in [Sides -> BOOLEAN] /\ callback' \in [Sides -> BOOLEAN]
    BY <1>2, <1>report DEF Toggle, Typed
  <2>2. UNCHANGED <<up, sig, stage, draft, pending, local, remote, lines, wire>>
    BY <1>2 DEF Toggle
  <2>3. toggles' \in [Sides -> 0..MaxToggles]
    BY <1>2, NegotiationAssumption DEF Toggle, Typed
  <2>4. tracks[s] \ {t} \in Attached /\ tracks[s] \cup {t} \in Attached
    <3>0. tracks[s] \in {{Mic} \cup on : on \in SUBSET Tracks}
      BY DEF Typed, Attached
    <3>1. PICK on \in SUBSET Tracks : tracks[s] = {Mic} \cup on
      BY <3>0
    <3>2. t # Mic
      BY NegotiationAssumption
    <3>3. tracks[s] \ {t} = {Mic} \cup (on \ {t}) /\ tracks[s] \cup {t} = {Mic} \cup (on \cup {t})
      BY <3>1, <3>2
    <3>4. on \ {t} \in SUBSET Tracks /\ on \cup {t} \in SUBSET Tracks
      OBVIOUS
    <3> QED BY <3>3, <3>4 DEF Attached
  <2>5. tracks' \in [Sides -> Attached]
    BY <1>2, <2>4 DEF Toggle, Typed
  <2> QED BY <2>1, <2>2, <2>3, <2>5 DEF Typed
<1>3. CASE RequestOffer
  <2>1. /\ UNCHANGED <<up, tracks, sig, stage, draft, needed, local, remote, lines, toggles>>
        /\ pending' = TRUE /\ callback' \in [Sides -> BOOLEAN]
    BY <1>3 DEF RequestOffer, Typed
  <2>2. wire' \in [Sides -> Seq(Messages)]
    <3>1. Message("Renegotiate", {}, 0) \in Messages
      <4>1. 0 \in 0..Cardinality(Tracks)
        BY NegotiationAssumption, FS_CardinalityType
      <4> QED BY <4>1, MessageTyped
    <3> QED BY <1>3, <3>1, SendStep DEF RequestOffer, Typed
  <2> QED BY <2>1, <2>2 DEF Typed
<1>4. CASE OfferWhenNeeded
  <2>1. /\ UNCHANGED <<up, tracks, sig, pending, needed, local, remote, wire, toggles>>
        /\ callback' \in [Sides -> BOOLEAN]
    BY <1>4 DEF OfferWhenNeeded, Typed
  <2>2. CreateOfferIfStable
    BY <1>4 DEF OfferWhenNeeded
  <2> QED BY <2>1, <2>2, CreateOfferStep DEF Typed
<1>5. CASE HandleRenegotiate
  <2>1. UNCHANGED <<up, tracks, sig, pending, needed, callback, local, remote, toggles>>
    BY <1>5 DEF HandleRenegotiate
  <2>2. CreateOfferIfStable /\ Receives("offerer", "Renegotiate")
    BY <1>5 DEF HandleRenegotiate
  <2> QED BY <2>1, <2>2, CreateOfferStep, ReceiveStep DEF Typed
<1>6. CASE SendOffer
  <2>1. /\ UNCHANGED <<up, tracks, draft, pending, needed, callback, remote, lines, toggles>>
        /\ stage' \in [Sides -> {"idle", "offering", "answering", "answered"}]
        /\ sig' \in [Sides -> {"stable", "have-local-offer", "have-remote-offer"}]
        /\ local' \in [Sides -> Attached \cup {{}}]
    BY <1>6 DEF SendOffer, Typed
  <2>2. Message("Offer", draft["offerer"], lines) \in Messages
    BY MessageTyped DEF Typed
  <2>3. wire' \in [Sides -> Seq(Messages)]
    BY <1>6, <2>2, SendStep DEF SendOffer
  <2> QED BY <2>1, <2>3 DEF Typed
<1>7. CASE HandleOffer
  <2>1. Receives("answerer", "Offer")
    BY <1>7 DEF HandleOffer
  <2>2. wire' \in [Sides -> Seq(Messages)] /\ Received("answerer") \in Messages
    BY <2>1, ReceiveStep
  <2>3. Received("answerer").tracks \in Attached \cup {{}}
    BY <2>2 DEF Messages
  <2>4. /\ UNCHANGED <<up, tracks, draft, needed, callback, local, lines, toggles>>
        /\ pending' = FALSE
        /\ sig' \in [Sides -> {"stable", "have-local-offer", "have-remote-offer"}]
        /\ stage' \in [Sides -> {"idle", "offering", "answering", "answered"}]
    BY <1>7 DEF HandleOffer, PendingAfterOffer, Typed
  <2>5. remote' \in [Sides -> Attached \cup {{}}]
    BY <1>7, <2>3 DEF HandleOffer, Typed
  <2> QED BY <2>2, <2>4, <2>5 DEF Typed
<1>8. CASE CreateAnswer
  <2>1. /\ UNCHANGED <<up, tracks, sig, pending, needed, callback, local, remote, lines, wire,
                       toggles>>
        /\ stage' \in [Sides -> {"idle", "offering", "answering", "answered"}]
    BY <1>8 DEF CreateAnswer, Typed
  <2>2. PICK sent \in SUBSET (tracks["answerer"] \ {Mic}) :
          draft' = [draft EXCEPT !["answerer"] = sent \cup {Mic}]
    BY <1>8 DEF CreateAnswer
  <2>3. sent \in SUBSET Tracks
    BY DEF Typed, Attached
  <2>4. sent \cup {Mic} \in Attached
    <3>1. sent \cup {Mic} = {Mic} \cup sent
      OBVIOUS
    <3> QED BY <2>3, <3>1 DEF Attached
  <2> QED BY <2>1, <2>2, <2>4 DEF Typed
<1>9. CASE SendAnswer
  <2>1. /\ UNCHANGED <<up, tracks, draft, pending, remote, lines, toggles>>
        /\ stage' \in [Sides -> {"idle", "offering", "answering", "answered"}]
        /\ sig' \in [Sides -> {"stable", "have-local-offer", "have-remote-offer"}]
        /\ local' \in [Sides -> Attached \cup {{}}]
    BY <1>9 DEF SendAnswer, Typed
  <2>2. needed' \in [Sides -> BOOLEAN] /\ callback' \in [Sides -> BOOLEAN]
    BY <1>9, <1>maybe DEF SendAnswer
  <2>3. Message("Answer", draft["answerer"], lines) \in Messages
    BY MessageTyped DEF Typed
  <2>4. wire' \in [Sides -> Seq(Messages)]
    BY <1>9, <2>3, SendStep DEF SendAnswer
  <2> QED BY <2>1, <2>2, <2>4 DEF Typed
<1>10. CASE HandleAnswer
  <2>1. Receives("offerer", "Answer")
    BY <1>10 DEF HandleAnswer
  <2>2. wire' \in [Sides -> Seq(Messages)] /\ Received("offerer") \in Messages
    BY <2>1, ReceiveStep
  <2>3. Received("offerer").tracks \in Attached \cup {{}}
    BY <2>2 DEF Messages
  <2>4. /\ UNCHANGED <<up, tracks, stage, draft, pending, local, lines, toggles>>
        /\ sig' \in [Sides -> {"stable", "have-local-offer", "have-remote-offer"}]
    BY <1>10 DEF HandleAnswer, Typed
  <2>5. remote' \in [Sides -> Attached \cup {{}}]
    BY <1>10, <2>3 DEF HandleAnswer, Typed
  <2>6. needed' \in [Sides -> BOOLEAN] /\ callback' \in [Sides -> BOOLEAN]
    BY <1>10, <1>maybe DEF HandleAnswer, Typed
  <2> QED BY <2>2, <2>4, <2>5, <2>6 DEF Typed
<1>11. CASE UNCHANGED vars
  BY <1>11 DEF vars, Typed
<1> QED
  BY <1>1, <1>2, <1>3, <1>4, <1>5, <1>6, <1>7, <1>8, <1>9, <1>10, <1>11 DEF Next, Work

-----------------------------------------------------------------------------
(* One cycle at a time.                                                    *)

LEMMA Wires ==
  /\ "offerer" \in Sides /\ "answerer" \in Sides
  /\ Other("offerer") = "answerer" /\ Other("answerer") = "offerer"
BY DEF Sides, Other

(* The steps at one end of the wire, by kinds.                             *)
LEMMA OfferSent ==
  ASSUME Typed, NEW m \in Messages, Send("offerer", m)
  PROVE  Offers' = Append(Offers, m.type) /\ Answers' = Answers
<1>1. Kinds(wire'["offerer"]) = Append(Kinds(wire["offerer"]), m.type)
      /\ wire'["answerer"] = wire["answerer"]
  BY SendStep, Wires
<1> QED BY <1>1 DEF Offers, Answers

LEMMA AnswerSent ==
  ASSUME Typed, NEW m \in Messages, Send("answerer", m)
  PROVE  Answers' = Append(Answers, m.type) /\ Offers' = Offers
<1>1. Kinds(wire'["answerer"]) = Append(Kinds(wire["answerer"]), m.type)
      /\ wire'["offerer"] = wire["offerer"]
  BY SendStep, Wires
<1> QED BY <1>1 DEF Offers, Answers

LEMMA OfferTaken ==
  ASSUME Typed, NEW type, Receives("answerer", type)
  PROVE  Offers # <<>> /\ Head(Offers) = type /\ Offers' = Tail(Offers) /\ Answers' = Answers
<1>1. /\ Kinds(wire["offerer"]) # <<>> /\ Head(Kinds(wire["offerer"])) = type
      /\ Kinds(wire'["offerer"]) = Tail(Kinds(wire["offerer"]))
      /\ wire'["answerer"] = wire["answerer"]
  BY ReceiveStep, Wires
<1> QED BY <1>1 DEF Offers, Answers

LEMMA AnswerTaken ==
  ASSUME Typed, NEW type, Receives("offerer", type)
  PROVE  /\ Answers # <<>> /\ Head(Answers) = type
         /\ Answers' = Tail(Answers) /\ Offers' = Offers
<1>1. /\ Kinds(wire["answerer"]) # <<>> /\ Head(Kinds(wire["answerer"])) = type
      /\ Kinds(wire'["answerer"]) = Tail(Kinds(wire["answerer"]))
      /\ wire'["offerer"] = wire["offerer"]
  BY ReceiveStep, Wires
<1> QED BY <1>1 DEF Offers, Answers

LEMMA CycleStep == CycleInv /\ [Next]_vars => CycleInv'
<1> SUFFICES ASSUME CycleInv, [Next]_vars PROVE CycleInv'
  OBVIOUS
<1>t. Typed /\ Roles /\ OneCycle /\ Marks
  BY DEF CycleInv
<1> SUFFICES Roles' /\ OneCycle' /\ Marks'
  BY <1>t, TypedStep DEF CycleInv
<1>w. wire' = wire => Offers' = Offers /\ Answers' = Answers
  BY DEF Offers, Answers
<1>1. ASSUME NEW s \in Sides, Connect(s) PROVE Roles' /\ OneCycle' /\ Marks'
  <2>1. wire' = wire /\ UNCHANGED <<sig, pending>> /\ stage'["answerer"] = stage["answerer"]
    BY <1>1, <1>t, Wires DEF Connect, NewConnection, CreateOffer, Typed
  <2>2. CASE s = "offerer"
    <3>1. ~up["offerer"] /\ up'["offerer"] /\ stage'["offerer"] = "offering"
      BY <1>1, <2>2, <1>t, Wires DEF Connect, NewConnection, CreateOffer, Typed
    <3> QED BY <1>t, <1>w, <2>1, <3>1 DEF Roles, OneCycle, Marks, OfferUnderway, Answering,
            AnswerUnderway
  <2>3. CASE s # "offerer"
    <3>1. up'["offerer"] = up["offerer"] /\ stage' = stage
          /\ callback'["offerer"] = callback["offerer"]
      BY <1>1, <2>3, <1>t, Wires DEF Connect, NewConnection, Report, Typed
    <3> QED BY <1>t, <1>w, <2>1, <3>1 DEF Roles, OneCycle, Marks, OfferUnderway, Answering,
            AnswerUnderway
  <2> QED BY <2>2, <2>3
<1>2. ASSUME NEW s \in Sides, NEW t \in Tracks, Toggle(s, t)
      PROVE  Roles' /\ OneCycle' /\ Marks'
  <2>1. wire' = wire /\ UNCHANGED <<up, sig, stage, pending>>
    BY <1>2 DEF Toggle
  <2>2. ~up["offerer"] => callback'["offerer"] = callback["offerer"]
    BY <1>2, <1>t, Wires DEF Toggle, Report, Typed
  <2> QED BY <1>t, <1>w, <2>1, <2>2 DEF Roles, OneCycle, Marks, OfferUnderway, Answering,
          AnswerUnderway
<1>3. CASE RequestOffer
  <2>1. /\ UNCHANGED <<up, sig, stage>> /\ pending' = TRUE /\ ~Answering
        /\ callback'["offerer"] = callback["offerer"]
    BY <1>3, <1>t, Wires DEF RequestOffer, Answering, Typed
  <2>2. CASE pending
    <3>1. wire' = wire
      BY <1>3, <2>2 DEF RequestOffer
    <3> QED BY <1>t, <1>w, <2>1, <2>2, <3>1 DEF Roles, OneCycle, Marks, OfferUnderway,
            Answering, AnswerUnderway
  <2>3. CASE ~pending
    <3>1. 0 \in 0..Cardinality(Tracks)
      BY NegotiationAssumption, FS_CardinalityType
    <3>2. Message("Renegotiate", {}, 0) \in Messages
          /\ Message("Renegotiate", {}, 0).type = R
      BY <1>t, <3>1, MessageTyped DEF R
    <3>3. Send("answerer", Message("Renegotiate", {}, 0))
      BY <1>3, <2>3 DEF RequestOffer
    <3>4. Answers' = Append(Answers, R) /\ Offers' = Offers
      BY <1>t, <3>2, <3>3, AnswerSent
    <3>5. Answers \in {<<>>} \cup Unmarked
      BY <1>t, <2>1, <2>3 DEF OneCycle, Marks, AnswerUnderway
    <3>6. /\ Answers = <<>> => Answers' = <<R>>
          /\ Answers \in Unmarked => Answers' \in Marked
      BY <3>4, Shapes DEF Unmarked, Marked
    <3>7. Roles'
      BY <1>t, <2>1 DEF Roles
    <3>8. AnswerUnderway' <=> AnswerUnderway
      BY <3>5, <3>6, Distinct DEF AnswerUnderway, Unmarked, Marked
    <3> QED BY <1>t, <2>1, <3>4, <3>5, <3>6, <3>7, <3>8, Distinct
            DEF OneCycle, Marks, OfferUnderway, Answering, AnswerUnderway, Unmarked, Marked
  <2> QED BY <2>2, <2>3
<1>4. CASE OfferWhenNeeded
  <2>1. wire' = wire /\ UNCHANGED <<up, sig, pending>> /\ ~callback'["offerer"]
        /\ callback["offerer"]
    BY <1>4, <1>t, Wires DEF OfferWhenNeeded, Typed
  <2>2. /\ stage'["answerer"] = stage["answerer"]
        /\ stage'["offerer"] = IF CanOffer THEN "offering" ELSE stage["offerer"]
    BY <1>4, <1>t, CreateOfferStep DEF OfferWhenNeeded
  <2> QED BY <1>t, <1>w, <2>1, <2>2 DEF Roles, OneCycle, Marks, OfferUnderway, Answering,
          AnswerUnderway, CanOffer
<1>5. CASE HandleRenegotiate
  <2>1. UNCHANGED <<up, sig, pending, callback>> /\ up["offerer"]
    BY <1>5 DEF HandleRenegotiate, Receives
  <2>2. /\ stage'["answerer"] = stage["answerer"]
        /\ stage'["offerer"] = IF CanOffer THEN "offering" ELSE stage["offerer"]
    BY <1>5, <1>t, CreateOfferStep DEF HandleRenegotiate
  <2>3. /\ Answers # <<>> /\ Head(Answers) = R
        /\ Answers' = Tail(Answers) /\ Offers' = Offers
    BY <1>5, <1>t, AnswerTaken DEF HandleRenegotiate, R
  <2>4. \/ Answers = <<R>> /\ Answers' = <<>>
        \/ Answers = <<R, A>> /\ Answers' = <<A>>
        \/ Answers = <<R, A, R>> /\ Answers' = <<A, R>>
    BY <1>t, <2>3, Shapes, Distinct DEF OneCycle, Unmarked, Marked
  <2>5. /\ AnswerUnderway' <=> AnswerUnderway
        /\ Answers' \in Marked <=> Answers \in Marked
        /\ Answers' # <<R>>
        /\ Answers' \in {<<>>} \cup Unmarked \cup Marked
    BY <2>4, Distinct DEF AnswerUnderway, Unmarked, Marked
  <2>6. Roles'
    BY <1>t, <2>1, <2>2 DEF Roles, CanOffer
  <2>7. OneCycle'
    BY <1>t, <2>1, <2>2, <2>3, <2>5 DEF OneCycle, OfferUnderway, Answering
  <2>8. Marks'
    BY <1>t, <2>1, <2>2, <2>3, <2>5
       DEF Roles, OneCycle, Marks, OfferUnderway, Answering, CanOffer
  <2> QED BY <2>6, <2>7, <2>8
<1>6. CASE SendOffer
  <2>1. /\ UNCHANGED <<up, pending, callback>> /\ stage["offerer"] = "offering"
        /\ stage'["offerer"] = "idle" /\ stage'["answerer"] = stage["answerer"]
        /\ sig'["offerer"] = "have-local-offer" /\ sig'["answerer"] = sig["answerer"]
    BY <1>6, <1>t, Wires DEF SendOffer, Typed
  <2>2. Message("Offer", draft["offerer"], lines) \in Messages
        /\ Message("Offer", draft["offerer"], lines).type = "Offer"
    BY <1>t, Wires, MessageTyped DEF Typed
  <2>3. Offers' = Append(Offers, "Offer") /\ Answers' = Answers
    BY <1>6, <1>t, <2>2, OfferSent DEF SendOffer
  <2>4. sig["offerer"] = "stable" /\ Offers = <<>>
    BY <1>t, <2>1 DEF Roles, OneCycle, OfferUnderway
  <2>5. Offers' = <<"Offer">>
    BY <2>3, <2>4, Shapes
  <2>6. Roles'
    BY <1>t, <2>1, <2>4 DEF Roles
  <2>7. OneCycle'
    BY <1>t, <2>1, <2>3, <2>4, <2>5 DEF OneCycle, OfferUnderway, Answering, AnswerUnderway
  <2>8. Marks'
    BY <1>t, <2>1, <2>3, <2>5 DEF Marks, OfferUnderway, Answering, AnswerUnderway
  <2> QED BY <2>6, <2>7, <2>8
<1>7. CASE HandleOffer
  <2>1. Offers # <<>> /\ Offers' = Tail(Offers) /\ Answers' = Answers
    BY <1>7, <1>t, OfferTaken DEF HandleOffer
  <2>2. OfferUnderway /\ Offers' = <<>>
    BY <1>t, <2>1, Shapes DEF OneCycle, OfferUnderway
  <2>3. /\ sig["offerer"] = "have-local-offer" /\ ~Answering /\ ~AnswerUnderway
        /\ stage["answerer"] = "idle" /\ sig["answerer"] = "stable"
    BY <1>t, <2>2 DEF Roles, OneCycle, Answering
  <2>4. /\ UNCHANGED <<up, callback>> /\ pending' = FALSE
        /\ stage'["answerer"] = "answering" /\ stage'["offerer"] = stage["offerer"]
        /\ sig'["answerer"] = "have-remote-offer" /\ sig'["offerer"] = sig["offerer"]
    BY <1>7, <1>t, <2>3, Wires DEF HandleOffer, PendingAfterOffer, Typed
  <2>5. Roles'
    BY <1>t, <2>3, <2>4 DEF Roles
  <2>6. OneCycle'
    BY <1>t, <2>1, <2>2, <2>3, <2>4, Distinct
       DEF OneCycle, OfferUnderway, Answering, AnswerUnderway
  <2>7. Marks'
    BY <2>1, <2>3, <2>4 DEF Marks, OfferUnderway, Answering, AnswerUnderway
  <2> QED BY <2>5, <2>6, <2>7
<1>8. CASE CreateAnswer
  <2>1. /\ UNCHANGED <<up, sig, pending, callback, wire>>
        /\ stage["answerer"] = "answering" /\ stage'["answerer"] = "answered"
        /\ stage'["offerer"] = stage["offerer"]
    BY <1>8, <1>t, Wires DEF CreateAnswer, Typed
  <2> QED BY <1>t, <1>w, <2>1 DEF Roles, OneCycle, Marks, OfferUnderway, Answering,
          AnswerUnderway
<1>9. CASE SendAnswer
  <2>1. /\ UNCHANGED <<up, pending>> /\ stage["answerer"] = "answered"
        /\ stage'["answerer"] = "idle" /\ stage'["offerer"] = stage["offerer"]
        /\ sig'["answerer"] = "stable" /\ sig'["offerer"] = sig["offerer"]
    BY <1>9, <1>t, Wires DEF SendAnswer, Typed
  <2>2. callback'["offerer"] = callback["offerer"]
    BY <1>9, <1>t, Wires DEF SendAnswer, ReportIfNeeded, Report, Typed
  <2>3. Message("Answer", draft["answerer"], lines) \in Messages
        /\ Message("Answer", draft["answerer"], lines).type = A
    BY <1>t, Wires, MessageTyped DEF Typed, A
  <2>4. Answers' = Append(Answers, A) /\ Offers' = Offers
    BY <1>9, <1>t, <2>3, AnswerSent DEF SendAnswer
  <2>5. /\ Answering /\ ~pending /\ ~AnswerUnderway /\ ~OfferUnderway
        /\ sig["offerer"] = "have-local-offer"
    BY <1>t, <2>1 DEF OneCycle, Marks, Answering
  <2>6. Answers \in {<<>>, <<R>>}
    BY <1>t, <2>5 DEF OneCycle, AnswerUnderway
  <2>7. Answers' \in Unmarked
    BY <2>4, <2>6, Shapes DEF Unmarked
  <2>8. AnswerUnderway' /\ Answers' \notin Marked /\ Answers' # <<R>>
    BY <2>7, Distinct DEF AnswerUnderway, Unmarked, Marked
  <2>9. Roles'
    BY <1>t, <2>1, <2>2, <2>5 DEF Roles
  <2>10. OneCycle'
    BY <1>t, <2>1, <2>4, <2>5, <2>7, <2>8 DEF OneCycle, OfferUnderway, Answering
  <2>11. Marks'
    BY <2>1, <2>4, <2>5, <2>8 DEF Marks, OfferUnderway, Answering
  <2> QED BY <2>9, <2>10, <2>11
<1>10. CASE HandleAnswer
  <2>1. /\ Answers # <<>> /\ Head(Answers) = A
        /\ Answers' = Tail(Answers) /\ Offers' = Offers
    BY <1>10, <1>t, AnswerTaken DEF HandleAnswer, A
  <2>2. \/ Answers = <<A>> /\ Answers' = <<>>
        \/ Answers = <<A, R>> /\ Answers' = <<R>>
    BY <1>t, <2>1, Shapes, Distinct DEF OneCycle, Unmarked, Marked
  <2>3. /\ AnswerUnderway /\ ~Answering /\ ~OfferUnderway
        /\ sig["offerer"] = "have-local-offer"
    BY <1>t, <2>2 DEF OneCycle, AnswerUnderway, Unmarked, Marked
  <2>4. /\ UNCHANGED <<up, stage, pending>> /\ up["offerer"]
        /\ sig'["offerer"] = "stable" /\ sig'["answerer"] = sig["answerer"]
    BY <1>10, <1>t, <2>3, Wires DEF HandleAnswer, Receives, Typed
  <2>5. ~AnswerUnderway' /\ (Answers' = <<R>> <=> Answers \in Marked)
        /\ Answers' \in {<<>>, <<R>>}
    BY <2>2, Distinct DEF AnswerUnderway, Unmarked, Marked
  <2>6. Roles'
    BY <1>t, <2>3, <2>4 DEF Roles
  <2>7. OneCycle'
    BY <1>t, <2>1, <2>3, <2>4, <2>5 DEF OneCycle, OfferUnderway, Answering
  <2>8. Marks'
    BY <1>t, <2>1, <2>3, <2>4, <2>5 DEF Marks, OfferUnderway, Answering
  <2> QED BY <2>6, <2>7, <2>8
<1>11. CASE UNCHANGED vars
  <2>1. UNCHANGED <<wire, up, sig, stage, pending, callback>>
    BY <1>11 DEF vars
  <2> QED BY <1>t, <1>w, <2>1 DEF Roles, OneCycle, Marks, OfferUnderway, Answering,
          AnswerUnderway
<1> QED
  BY <1>1, <1>2, <1>3, <1>4, <1>5, <1>6, <1>7, <1>8, <1>9, <1>10, <1>11 DEF Next, Work

LEMMA CycleInit == Init => CycleInv
<1> SUFFICES ASSUME Init PROVE CycleInv
  OBVIOUS
<1>1. Typed
  <2>1. 0 \in 0..Cardinality(Tracks) /\ 0 \in 0..MaxToggles
    BY NegotiationAssumption, FS_CardinalityType
  <2>2. wire \in [Sides -> Seq(Messages)]
    BY DEF Init
  <2> QED BY <2>1, <2>2 DEF Init, Typed
<1>2. wire["offerer"] = <<>> /\ wire["answerer"] = <<>>
  BY Wires DEF Init
<1>3. Offers = <<>> /\ Answers = <<>>
  <2>1. <<>> \in Seq(Messages)
    OBVIOUS
  <2> QED BY <1>2, <2>1, KindsOf DEF Offers, Answers
<1>4. Roles
  BY Wires DEF Init, Roles
<1>5. ~OfferUnderway /\ ~Answering /\ ~AnswerUnderway /\ Answers # <<R>> /\ ~pending
      /\ sig["offerer"] = "stable"
  BY <1>3, Wires, Distinct
     DEF Init, OfferUnderway, Answering, AnswerUnderway, Unmarked, Marked
<1>6. OneCycle
  BY <1>3, <1>5 DEF OneCycle
<1>7. Marks
  BY <1>5 DEF Marks
<1> QED BY <1>1, <1>4, <1>6, <1>7 DEF CycleInv

-----------------------------------------------------------------------------
(* From kinds back to messages.                                            *)

LEMMA InFlightOf ==
  ASSUME Typed, NEW s \in Sides, NEW type
  PROVE  InFlight(s, type) = {i \in 1 .. Len(Kinds(wire[s])) : Kinds(wire[s])[i] = type}
<1>1. wire[s] \in Seq(Messages)
  BY DEF Typed
<1>2. DOMAIN wire[s] = 1 .. Len(wire[s])
  BY <1>1
<1>3. /\ Len(Kinds(wire[s])) = Len(wire[s])
      /\ \A i \in 1 .. Len(wire[s]) : Kinds(wire[s])[i] = wire[s][i].type
  BY <1>1, KindsOf
<1> QED BY <1>2, <1>3 DEF InFlight

LEMMA CycleCounts ==
  ASSUME CycleInv
  PROVE  /\ InFlight("offerer", "Offer") = IF OfferUnderway THEN {1} ELSE {}
         /\ \E i : InFlight("answerer", "Answer") = IF AnswerUnderway THEN {i} ELSE {}
         /\ Answers \in {<<R>>} \cup Marked => InFlight("answerer", "Renegotiate") # {}
<1>1. Typed /\ OneCycle
  BY DEF CycleInv
<1>2. InFlight("offerer", "Offer") = {i \in 1 .. Len(Offers) : Offers[i] = "Offer"}
  BY <1>1, InFlightOf, Wires DEF Offers
<1>3. /\ InFlight("answerer", "Answer") = {i \in 1 .. Len(Answers) : Answers[i] = A}
      /\ InFlight("answerer", "Renegotiate") = {i \in 1 .. Len(Answers) : Answers[i] = R}
  BY <1>1, InFlightOf, Wires DEF Answers, A, R
<1>4. Offers = <<"Offer">> => InFlight("offerer", "Offer") = {1}
  BY <1>2
<1>5. Offers = <<>> => InFlight("offerer", "Offer") = {}
  BY <1>2
<1>6. Answers = <<>> => InFlight("answerer", "Answer") = {}
  BY <1>3
<1>7. Answers = <<R>> => /\ InFlight("answerer", "Answer") = {}
                         /\ 1 \in InFlight("answerer", "Renegotiate")
  BY <1>3 DEF R, A
<1>8. Answers = <<A>> => InFlight("answerer", "Answer") = {1}
  BY <1>3 DEF R, A
<1>9. Answers = <<R, A>> => InFlight("answerer", "Answer") = {2}
  BY <1>3 DEF R, A
<1>10. Answers = <<A, R>> => /\ InFlight("answerer", "Answer") = {1}
                             /\ 2 \in InFlight("answerer", "Renegotiate")
  BY <1>3 DEF R, A
<1>11. Answers = <<R, A, R>> => /\ InFlight("answerer", "Answer") = {2}
                                /\ 3 \in InFlight("answerer", "Renegotiate")
  BY <1>3 DEF R, A
<1>12. InFlight("offerer", "Offer") = IF OfferUnderway THEN {1} ELSE {}
  BY <1>1, <1>4, <1>5 DEF OneCycle, OfferUnderway
<1>13. AnswerUnderway => \E i : InFlight("answerer", "Answer") = {i}
  BY <1>8, <1>9, <1>10, <1>11 DEF AnswerUnderway, Unmarked, Marked
<1>14. ~AnswerUnderway => InFlight("answerer", "Answer") = {}
  BY <1>1, <1>6, <1>7 DEF OneCycle, AnswerUnderway
<1>15. Answers \in {<<R>>} \cup Marked => InFlight("answerer", "Renegotiate") # {}
  BY <1>7, <1>10, <1>11 DEF Marked
<1> QED BY <1>12, <1>13, <1>14, <1>15

LEMMA CycleIsSoundOf == CycleInv => CycleIsSound
<1> SUFFICES ASSUME CycleInv PROVE CycleIsSound
  OBVIOUS
<1>1. Roles /\ OneCycle /\ Marks
  BY DEF CycleInv
<1>2. Cardinality(InFlight("offerer", "Offer")) = IF OfferUnderway THEN 1 ELSE 0
  BY CycleCounts, FS_EmptySet, FS_Singleton
<1>3. Cardinality(InFlight("answerer", "Answer")) = IF AnswerUnderway THEN 1 ELSE 0
  BY CycleCounts, FS_EmptySet, FS_Singleton
<1>4. CycleParts = (IF OfferUnderway THEN 1 ELSE 0) + (IF AnswerUnderway THEN 1 ELSE 0)
                     + (IF Answering THEN 1 ELSE 0)
  BY <1>2, <1>3 DEF CycleParts, Answering
<1>5. NoGlare
  <2>1. sig["offerer"] = "have-local-offer" => CycleParts = 1
    BY <1>1, <1>4 DEF OneCycle
  <2>2. sig["offerer"] = "stable" => CycleParts = 0
    BY <1>1, <1>4 DEF OneCycle
  <2> QED BY <1>1, <2>1, <2>2 DEF NoGlare, Roles
<1>6. PendingIsCovered
  <2> SUFFICES ASSUME pending
               PROVE  \/ InFlight("answerer", "Renegotiate") # {}
                      \/ stage["offerer"] = "offering"
                      \/ InFlight("offerer", "Offer") # {}
    BY DEF PendingIsCovered
  <2>1. CASE AnswerUnderway \/ Answers = <<R>>
    <3>1. Answers \in {<<R>>} \cup Marked
      BY <1>1, <2>1 DEF Marks
    <3> QED BY <3>1, CycleCounts
  <2>2. CASE OfferUnderway
    BY <2>2, CycleCounts
  <2> QED BY <1>1, <2>1, <2>2 DEF Marks
<1> QED BY <1>5, <1>6 DEF CycleIsSound

LEMMA CycleTypes == CycleInv => TypeOK
<1> SUFFICES ASSUME CycleInv PROVE TypeOK
  OBVIOUS
<1>1. Typed /\ OneCycle
  BY DEF CycleInv
<1>2. wire["offerer"] \in Seq(Messages) /\ wire["answerer"] \in Seq(Messages)
  BY <1>1, Wires DEF Typed
<1>3. Len(wire["offerer"]) = Len(Offers) /\ Len(wire["answerer"]) = Len(Answers)
  BY <1>2, KindsOf DEF Offers, Answers
<1>4. Len(Offers) <= 1
  <2>1. Len(<<>>) = 0 /\ Len(<<"Offer">>) = 1
    OBVIOUS
  <2>2. Offers = <<>> \/ Offers = <<"Offer">>
    BY <1>1 DEF OneCycle
  <2>3. Len(Offers) = 0 \/ Len(Offers) = 1
    BY ONLY <2>1, <2>2, Zenon
  <2>4. 0 <= 1 /\ 1 <= 1
    OBVIOUS
  <2> QED BY ONLY <2>3, <2>4, Zenon
<1>5. Len(Answers) <= 3
  <2>1. /\ Len(<<>>) = 0 /\ Len(<<R>>) = 1 /\ Len(<<A>>) = 1 /\ Len(<<R, A>>) = 2
        /\ Len(<<A, R>>) = 2 /\ Len(<<R, A, R>>) = 3
    OBVIOUS
  <2>2. \/ Answers = <<>> \/ Answers = <<R>> \/ Answers = <<A>> \/ Answers = <<R, A>>
        \/ Answers = <<A, R>> \/ Answers = <<R, A, R>>
    BY <1>1 DEF OneCycle, Unmarked, Marked
  <2>3. Len(Answers) \in {0, 1, 2, 3}
    BY ONLY <2>1, <2>2, Zenon
  <2>4. 0 <= 3 /\ 1 <= 3 /\ 2 <= 3 /\ 3 <= 3
    OBVIOUS
  <2> QED BY ONLY <2>3, <2>4, Zenon
<1> QED BY <1>1, <1>3, <1>4, <1>5 DEF Typed, TypeOK

-----------------------------------------------------------------------------
(* The state of a pair is well typed, and never more than one offer, one   *)
(* answer and two requests are on their way: no storm of renegotiations.   *)
THEOREM NegotiationTypeCorrect == Spec => []TypeOK
BY CycleInit, CycleStep, CycleTypes, PTL DEF Spec

(* Glare is impossible and no mark swallows a request, for any tracks and  *)
(* however often either side toggles them between the steps of the other:  *)
(* `the smaller id offers, the other asks` needs no roll-back.             *)
THEOREM CycleStaysSound == Spec => []CycleIsSound
BY CycleInit, CycleStep, CycleIsSoundOf, PTL DEF Spec

-----------------------------------------------------------------------------
(* What a description says, wherever it is: an offer or answer under way   *)
(* has the sender's tracks as of its local description; when none is, the  *)
(* other side's remote description is that one.                            *)
Says(w, type, d) == \A i \in DOMAIN w : w[i].type = type => w[i].tracks = d

Descriptions ==
  /\ Says(wire["offerer"], "Offer", local["offerer"])
  /\ Says(wire["answerer"], "Answer", local["answerer"])
  /\ ~OfferUnderway => remote["answerer"] = local["offerer"]
  /\ ~AnswerUnderway => remote["offerer"] = local["answerer"]

(* A side at rest whose tracks are not those it has described has been     *)
(* told, and the callback is still to run, or has left a mark.             *)
Watched ==
  /\ up["offerer"] /\ sig["offerer"] = "stable" /\ stage["offerer"] = "idle" =>
       /\ needed["offerer"] => callback["offerer"]
       /\ tracks["offerer"] # local["offerer"] => needed["offerer"]
  /\ up["answerer"] /\ stage["answerer"] = "idle" =>
       /\ needed["answerer"] => callback["answerer"] \/ pending
       /\ tracks["answerer"] # local["answerer"] => needed["answerer"]

AgreeInv == CycleInv /\ Descriptions /\ Watched

LEMMA SaysAppend ==
  ASSUME NEW w \in Seq(Messages), NEW m \in Messages, NEW type, NEW d,
         Says(w, type, d), m.type = type => m.tracks = d
  PROVE  Says(Append(w, m), type, d)
BY DEF Says

LEMMA SaysTail ==
  ASSUME NEW w \in Seq(Messages), NEW type, NEW d, w # <<>>, Says(w, type, d)
  PROVE  Says(Tail(w), type, d) /\ (Head(w).type = type => Head(w).tracks = d)
<1>1. /\ DOMAIN Tail(w) = 1 .. Len(w) - 1 /\ DOMAIN w = 1 .. Len(w)
      /\ \A i \in 1 .. Len(w) - 1 : Tail(w)[i] = w[i + 1]
      /\ Head(w) = w[1] /\ Len(w) \in Nat \ {0}
  OBVIOUS
<1>2. 1 \in DOMAIN w /\ \A i \in DOMAIN Tail(w) : i + 1 \in DOMAIN w
  BY <1>1
<1> QED BY <1>1, <1>2 DEF Says

(* Nothing of a kind that is not under way says anything.                  *)
LEMMA Silent ==
  ASSUME NEW w \in Seq(Messages), NEW type, NEW d,
         \A i \in DOMAIN Kinds(w) : Kinds(w)[i] # type
  PROVE  Says(w, type, d)
<1>1. DOMAIN Kinds(w) = DOMAIN w /\ \A i \in DOMAIN w : Kinds(w)[i] = w[i].type
  BY DEF Kinds
<1> QED BY <1>1 DEF Says

LEMMA MessageFields ==
  ASSUME NEW type, NEW sent, NEW n
  PROVE  Message(type, sent, n).type = type /\ Message(type, sent, n).tracks = sent
BY DEF Message

LEMMA DescriptionsStep ==
  ASSUME CycleInv, CycleInv', Descriptions, [Next]_vars
  PROVE  Descriptions'
<1>t. Typed /\ Roles /\ OneCycle
  BY DEF CycleInv
<1>q. wire["offerer"] \in Seq(Messages) /\ wire["answerer"] \in Seq(Messages)
  BY <1>t, Wires DEF Typed
<1>d. /\ Says(wire["offerer"], "Offer", local["offerer"])
      /\ Says(wire["answerer"], "Answer", local["answerer"])
      /\ ~OfferUnderway => remote["answerer"] = local["offerer"]
      /\ ~AnswerUnderway => remote["offerer"] = local["answerer"]
  BY DEF Descriptions
<1>same. UNCHANGED <<wire, local, remote>> => Descriptions'
  BY <1>d DEF Descriptions, OfferUnderway, AnswerUnderway, Offers, Answers
<1>1. ASSUME NEW s \in Sides, Connect(s) PROVE Descriptions'
  BY <1>1, <1>same DEF Connect, NewConnection
<1>2. ASSUME NEW s \in Sides, NEW t \in Tracks, Toggle(s, t) PROVE Descriptions'
  BY <1>2, <1>same DEF Toggle
<1>3. CASE RequestOffer
  <2>1. UNCHANGED <<local, remote>>
    BY <1>3 DEF RequestOffer
  <2>2. CASE pending
    BY <1>3, <2>1, <2>2, <1>same DEF RequestOffer
  <2>3. CASE ~pending
    <3> DEFINE m == Message("Renegotiate", {}, 0)
    <3>1. Send("answerer", m)
      BY <1>3, <2>3 DEF RequestOffer
    <3>2. m \in Messages /\ m.type = "Renegotiate"
      <4>1. 0 \in 0..Cardinality(Tracks)
        BY NegotiationAssumption, FS_CardinalityType
      <4> QED BY <1>t, <4>1, MessageTyped
    <3> HIDE DEF m
    <3>3. wire'["offerer"] = wire["offerer"]
          /\ wire'["answerer"] = Append(wire["answerer"], m)
      BY <3>1, <1>t, Wires DEF Send, Typed
    <3>4. Says(Append(wire["answerer"], m), "Answer", local["answerer"])
      BY <3>2, <1>q, <1>d, SaysAppend
    <3>5. Offers' = Offers /\ Answers' = Append(Answers, R)
      BY <1>t, <3>1, <3>2, AnswerSent DEF R
    <3>6. AnswerUnderway => AnswerUnderway'
      <4> SUFFICES ASSUME AnswerUnderway PROVE AnswerUnderway'
        OBVIOUS
      <4>1. sig'["offerer"] = "have-local-offer" /\ ~OfferUnderway' /\ ~Answering'
        <5>1. sig["offerer"] = "have-local-offer" /\ ~OfferUnderway /\ ~Answering
          BY <1>t DEF OneCycle
        <5>2. UNCHANGED <<sig, stage>>
          BY <1>3 DEF RequestOffer
        <5> QED BY <3>5, <5>1, <5>2 DEF OfferUnderway, Answering
      <4> QED BY <4>1 DEF CycleInv, OneCycle
    <3>7. ~OfferUnderway' => ~OfferUnderway
      BY <3>5 DEF OfferUnderway
    <3> QED BY <2>1, <3>3, <3>4, <3>6, <3>7, <1>d DEF Descriptions
  <2> QED BY <2>2, <2>3
<1>4. CASE OfferWhenNeeded
  BY <1>4, <1>same DEF OfferWhenNeeded
<1>5. CASE HandleRenegotiate
  <2>1. UNCHANGED <<local, remote, sig>> /\ Receives("offerer", "Renegotiate")
    BY <1>5 DEF HandleRenegotiate
  <2>2. /\ wire["answerer"] # <<>> /\ Head(wire["answerer"]).type = "Renegotiate"
        /\ wire'["answerer"] = Tail(wire["answerer"]) /\ wire'["offerer"] = wire["offerer"]
    BY <2>1, <1>t, Wires DEF Receives, Typed
  <2>3. Says(Tail(wire["answerer"]), "Answer", local["answerer"])
    BY <2>2, <1>q, <1>d, SaysTail
  <2>4. Offers' = Offers
    BY <2>2 DEF Offers
  <2>5. stage'["answerer"] = stage["answerer"]
    BY <1>5, <1>t, CreateOfferStep DEF HandleRenegotiate
  <2>6. AnswerUnderway => AnswerUnderway'
    <3> SUFFICES ASSUME AnswerUnderway PROVE AnswerUnderway'
      OBVIOUS
    <3>1. sig["offerer"] = "have-local-offer" /\ ~OfferUnderway /\ ~Answering
      BY <1>t DEF OneCycle
    <3>2. sig'["offerer"] = "have-local-offer" /\ ~OfferUnderway' /\ ~Answering'
      BY <3>1, <2>1, <2>4, <2>5 DEF OfferUnderway, Answering
    <3> QED BY <3>2 DEF CycleInv, OneCycle
  <2> QED BY <2>1, <2>2, <2>3, <2>4, <2>6, <1>d DEF Descriptions, OfferUnderway
<1>6. CASE SendOffer
  <2> DEFINE m == Message("Offer", draft["offerer"], lines)
  <2>1. Send("offerer", m) /\ UNCHANGED <<remote, draft>>
    BY <1>6 DEF SendOffer
  <2>2. m \in Messages /\ m.type = "Offer" /\ m.tracks = draft["offerer"]
    <3>1. draft["offerer"] \in Attached \cup {{}} /\ lines \in 0..Cardinality(Tracks)
      BY <1>t, Wires DEF Typed
    <3>2. m \in Messages /\ m.type = "Offer"
      BY <1>t, <3>1, MessageTyped
    <3>3. m.tracks = draft["offerer"]
      BY MessageFields
    <3> QED BY <3>2, <3>3
  <2> HIDE DEF m
  <2>3. local'["offerer"] = draft["offerer"] /\ local'["answerer"] = local["answerer"]
    BY <1>6, <1>t, Wires DEF SendOffer, Typed
  <2>4. /\ wire'["answerer"] = wire["answerer"]
        /\ wire'["offerer"] = Append(wire["offerer"], m)
    BY <2>1, <1>t, Wires DEF Send, Typed
  <2>5. wire["offerer"] = <<>> /\ sig["offerer"] = "stable"
    <3>1. sig["offerer"] = "stable"
      BY <1>6, <1>t DEF SendOffer, Roles
    <3>2. Offers = <<>>
      BY <3>1, <1>t DEF OneCycle, OfferUnderway
    <3> QED BY <3>1, <3>2, <1>q, KindsOf DEF Offers
  <2>6. Says(wire["offerer"], "Offer", draft["offerer"])
    BY <2>5 DEF Says
  <2>7. Says(Append(wire["offerer"], m), "Offer", draft["offerer"])
    BY <2>2, <2>6, <1>q, SaysAppend
  <2>8. OfferUnderway' /\ Answers' = Answers
    <3>1. Offers' = Append(Offers, "Offer") /\ Answers' = Answers
      BY <1>t, <2>1, <2>2, OfferSent
    <3>2. Offers = <<>>
      BY <2>5, <1>q, KindsOf DEF Offers
    <3> QED BY <3>1, <3>2, Shapes DEF OfferUnderway
  <2> QED BY <2>1, <2>3, <2>4, <2>7, <2>8, <1>d DEF Descriptions, AnswerUnderway
<1>7. CASE HandleOffer
  <2>1. Receives("answerer", "Offer") /\ UNCHANGED local
    BY <1>7 DEF HandleOffer
  <2>2. /\ wire["offerer"] # <<>> /\ Head(wire["offerer"]).type = "Offer"
        /\ wire'["offerer"] = Tail(wire["offerer"]) /\ wire'["answerer"] = wire["answerer"]
        /\ Received("answerer") = Head(wire["offerer"])
    BY <2>1, <1>t, Wires DEF Receives, Received, Typed
  <2>3. /\ Says(Tail(wire["offerer"]), "Offer", local["offerer"])
        /\ Received("answerer").tracks = local["offerer"]
    BY <2>2, <1>q, <1>d, SaysTail
  <2>4. OfferUnderway
    <3>1. Offers # <<>>
      BY <2>2, <1>q, KindsOf DEF Offers
    <3> QED BY <3>1, <1>t DEF OneCycle, OfferUnderway
  <2>5. sig["answerer"] = "stable"
    BY <2>4, <1>t DEF OneCycle, Roles, Answering
  <2>6. remote'["answerer"] = local["offerer"] /\ remote'["offerer"] = remote["offerer"]
    BY <1>7, <2>3, <2>5, <1>t, Wires DEF HandleOffer, Typed
  <2>7. Answers' = Answers
    BY <2>2 DEF Answers
  <2> QED BY <2>1, <2>2, <2>3, <2>6, <2>7, <1>d DEF Descriptions, AnswerUnderway
<1>8. CASE CreateAnswer
  BY <1>8, <1>same DEF CreateAnswer
<1>9. CASE SendAnswer
  <2> DEFINE m == Message("Answer", draft["answerer"], lines)
  <2>1. Send("answerer", m) /\ UNCHANGED <<remote, draft>> /\ Answering
    BY <1>9 DEF SendAnswer, Answering
  <2>2. m \in Messages /\ m.type = "Answer" /\ m.tracks = draft["answerer"]
    <3>1. draft["answerer"] \in Attached \cup {{}} /\ lines \in 0..Cardinality(Tracks)
      BY <1>t, Wires DEF Typed
    <3>2. m \in Messages /\ m.type = "Answer"
      BY <1>t, <3>1, MessageTyped
    <3>3. m.tracks = draft["answerer"]
      BY MessageFields
    <3> QED BY <3>2, <3>3
  <2> HIDE DEF m
  <2>3. local'["answerer"] = draft["answerer"] /\ local'["offerer"] = local["offerer"]
    BY <1>9, <1>t, Wires DEF SendAnswer, Typed
  <2>4. /\ wire'["offerer"] = wire["offerer"]
        /\ wire'["answerer"] = Append(wire["answerer"], m)
    BY <2>1, <1>t, Wires DEF Send, Typed
  <2>5. Answers \in {<<>>, <<R>>} /\ sig["offerer"] = "have-local-offer"
    BY <2>1, <1>t DEF OneCycle, AnswerUnderway
  <2>6. Says(wire["answerer"], "Answer", draft["answerer"])
    <3>1. \A i \in DOMAIN Answers : Answers[i] # "Answer"
      BY <2>5 DEF R
    <3> QED BY <3>1, <1>q, Silent DEF Answers
  <2>7. Says(Append(wire["answerer"], m), "Answer", draft["answerer"])
    BY <2>2, <2>6, <1>q, SaysAppend
  <2>8. AnswerUnderway' /\ Offers' = Offers
    <3>1. Answers' = Append(Answers, A) /\ Offers' = Offers
      BY <1>t, <2>1, <2>2, AnswerSent DEF A
    <3> QED BY <3>1, <2>5, Shapes DEF AnswerUnderway, Unmarked
  <2> QED BY <2>1, <2>3, <2>4, <2>7, <2>8, <1>d DEF Descriptions, OfferUnderway
<1>10. CASE HandleAnswer
  <2>1. Receives("offerer", "Answer") /\ UNCHANGED local
    BY <1>10 DEF HandleAnswer
  <2>2. /\ wire["answerer"] # <<>> /\ Head(wire["answerer"]).type = "Answer"
        /\ wire'["answerer"] = Tail(wire["answerer"]) /\ wire'["offerer"] = wire["offerer"]
        /\ Received("offerer") = Head(wire["answerer"])
    BY <2>1, <1>t, Wires DEF Receives, Received, Typed
  <2>3. /\ Says(Tail(wire["answerer"]), "Answer", local["answerer"])
        /\ Received("offerer").tracks = local["answerer"]
    BY <2>2, <1>q, <1>d, SaysTail
  <2>4. sig["offerer"] = "have-local-offer"
    <3>1. Answers # <<>> /\ Head(Answers) = A
      BY <1>t, <2>1, AnswerTaken DEF A
    <3>2. AnswerUnderway
      BY <1>t, <3>1, Shapes, Distinct DEF OneCycle, AnswerUnderway
    <3> QED BY <3>2, <1>t DEF OneCycle
  <2>5. remote'["offerer"] = local["answerer"] /\ remote'["answerer"] = remote["answerer"]
    BY <1>10, <2>3, <2>4, <1>t, Wires DEF HandleAnswer, Typed
  <2>6. Offers' = Offers
    BY <2>2 DEF Offers
  <2> QED BY <2>1, <2>2, <2>3, <2>5, <2>6, <1>d DEF Descriptions, OfferUnderway
<1>11. CASE UNCHANGED vars
  BY <1>11, <1>same DEF vars
<1> QED
  BY <1>1, <1>2, <1>3, <1>4, <1>5, <1>6, <1>7, <1>8, <1>9, <1>10, <1>11 DEF Next, Work

LEMMA Reported ==
  ASSUME Typed, NEW s \in Sides
  PROVE  /\ Report(s) => /\ needed'[s] /\ callback'[s]
                         /\ \A o \in Sides \ {s} : /\ needed'[o] = needed[o]
                                                   /\ callback'[o] = callback[o]
         /\ \A d : ReportIfNeeded(s, d) =>
              /\ needed'[s] => callback'[s]
              /\ d # tracks[s] => needed'[s]
              /\ \A o \in Sides \ {s} : /\ needed'[o] = needed[o]
                                        /\ callback'[o] = callback[o]
BY DEF Report, ReportIfNeeded, Typed

LEMMA WatchedStep ==
  ASSUME CycleInv, Watched, [Next]_vars
  PROVE  Watched'
<1>t. Typed /\ Roles /\ OneCycle /\ Marks
  BY DEF CycleInv
<1>s. "offerer" \in Sides /\ "answerer" \in Sides \ {"offerer"}
      /\ "offerer" \in Sides \ {"answerer"} /\ "answerer" \in Sides
  BY DEF Sides
<1>1. ASSUME NEW s \in Sides, Connect(s) PROVE Watched'
  <2>1. UNCHANGED <<tracks, sig, pending, local>> /\ Report(s) /\ ~up[s]
        /\ up' = [up EXCEPT ![s] = TRUE]
    BY <1>1 DEF Connect, NewConnection
  <2>2. CASE s = "offerer"
    <3>1. stage'["offerer"] = "offering" /\ stage'["answerer"] = stage["answerer"]
          /\ up'["answerer"] = up["answerer"]
      BY <1>1, <2>1, <2>2, <1>t, <1>s DEF Connect, NewConnection, CreateOffer, Typed
    <3>2. needed'["answerer"] = needed["answerer"]
          /\ callback'["answerer"] = callback["answerer"]
      BY <2>1, <2>2, <1>t, <1>s, Reported
    <3> QED BY <2>1, <3>1, <3>2 DEF Watched
  <2>3. CASE s = "answerer"
    <3>1. UNCHANGED stage /\ up'["offerer"] = up["offerer"]
      BY <1>1, <2>1, <2>3, <1>t, <1>s DEF Connect, NewConnection, Typed
    <3>2. needed'["offerer"] = needed["offerer"] /\ callback'["offerer"] = callback["offerer"]
          /\ needed'["answerer"] /\ callback'["answerer"]
      BY <2>1, <2>3, <1>t, <1>s, Reported
    <3> QED BY <2>1, <3>1, <3>2 DEF Watched
  <2> QED BY <2>2, <2>3 DEF Sides
<1>2. ASSUME NEW s \in Sides, NEW t \in Tracks, Toggle(s, t) PROVE Watched'
  <2>1. UNCHANGED <<up, sig, stage, pending, local>>
    BY <1>2 DEF Toggle
  <2>2. /\ \A o \in Sides \ {s} : tracks'[o] = tracks[o]
        /\ IF up[s] /\ sig[s] = "stable" /\ ~needed[s] /\ tracks'[s] # local[s]
           THEN Report(s) ELSE UNCHANGED <<needed, callback>>
    BY <1>2, <1>t DEF Toggle, Typed
  <2>3. \A o \in Sides \ {s} : needed'[o] = needed[o] /\ callback'[o] = callback[o]
    BY <2>2, <1>t, Reported
  <2>4. \/ needed'[s] /\ callback'[s]
        \/ /\ needed'[s] = needed[s] /\ callback'[s] = callback[s]
           /\ up[s] /\ sig[s] = "stable" => needed[s] \/ tracks'[s] = local[s]
    BY <2>2, <1>t, Reported
  <2>5. stage["answerer"] = "idle" => sig["answerer"] = "stable"
    BY <1>t DEF Roles
  <2>6. CASE s = "offerer"
    BY <2>1, <2>2, <2>3, <2>4, <2>6, <1>s DEF Watched
  <2>7. CASE s = "answerer"
    BY <2>1, <2>2, <2>3, <2>4, <2>5, <2>7, <1>s DEF Watched
  <2> QED BY <2>6, <2>7 DEF Sides
<1>3. CASE RequestOffer
  <2>1. UNCHANGED <<up, tracks, sig, stage, needed, local>> /\ pending' = TRUE
        /\ callback'["offerer"] = callback["offerer"]
    BY <1>3, <1>t, <1>s DEF RequestOffer, Typed
  <2> QED BY <2>1 DEF Watched
<1>4. CASE OfferWhenNeeded
  <2>1. UNCHANGED <<up, tracks, sig, needed, local, pending>>
        /\ callback'["answerer"] = callback["answerer"]
    BY <1>4, <1>t, <1>s DEF OfferWhenNeeded, Typed
  <2>2. stage'["answerer"] = stage["answerer"]
        /\ stage'["offerer"] = IF CanOffer THEN "offering" ELSE stage["offerer"]
    BY <1>4, <1>t, CreateOfferStep DEF OfferWhenNeeded
  <2>3. sig'["offerer"] = "stable" => stage'["offerer"] # "idle"
    BY <2>1, <2>2 DEF CanOffer
  <2> QED BY <2>1, <2>2, <2>3 DEF Watched
<1>5. CASE HandleRenegotiate
  <2>1. UNCHANGED <<up, tracks, sig, needed, callback, local, pending>>
    BY <1>5 DEF HandleRenegotiate
  <2>2. stage'["answerer"] = stage["answerer"]
        /\ stage'["offerer"] = IF CanOffer THEN "offering" ELSE stage["offerer"]
    BY <1>5, <1>t, CreateOfferStep DEF HandleRenegotiate
  <2>3. sig'["offerer"] = "stable" => stage'["offerer"] # "idle"
    BY <2>1, <2>2 DEF CanOffer
  <2> QED BY <2>1, <2>2, <2>3 DEF Watched
<1>6. CASE SendOffer
  <2>1. UNCHANGED <<up, tracks, needed, callback, pending>>
        /\ sig'["offerer"] = "have-local-offer"
        /\ local'["answerer"] = local["answerer"] /\ stage'["answerer"] = stage["answerer"]
    BY <1>6, <1>t, <1>s DEF SendOffer, Typed
  <2> QED BY <2>1 DEF Watched
<1>7. CASE HandleOffer
  <2>1. UNCHANGED <<up, tracks, needed, callback, local>>
    BY <1>7 DEF HandleOffer
  <2>2. stage["answerer"] = "idle"
    BY <1>7 DEF HandleOffer, Receives
  <2>3. sig["answerer"] = "stable"
    BY <2>2, <1>t DEF Roles
  <2>4. stage'["answerer"] = "answering" /\ stage'["offerer"] = stage["offerer"]
        /\ sig'["offerer"] = sig["offerer"]
    BY <1>7, <2>3, <1>t, <1>s DEF HandleOffer, Typed
  <2> QED BY <2>1, <2>4 DEF Watched
<1>8. CASE CreateAnswer
  <2>1. UNCHANGED <<up, tracks, sig, needed, callback, local, pending>>
        /\ stage'["answerer"] = "answered" /\ stage'["offerer"] = stage["offerer"]
    BY <1>8, <1>t, <1>s DEF CreateAnswer, Typed
  <2> QED BY <2>1 DEF Watched
<1>9. CASE SendAnswer
  <2>1. UNCHANGED <<up, tracks, pending>> /\ sig'["offerer"] = sig["offerer"]
        /\ stage'["offerer"] = stage["offerer"]
        /\ local'["answerer"] = draft["answerer"] /\ local'["offerer"] = local["offerer"]
    BY <1>9, <1>t, <1>s DEF SendAnswer, Typed
  <2>2. ReportIfNeeded("answerer", draft["answerer"])
    BY <1>9 DEF SendAnswer
  <2>3. /\ needed'["answerer"] => callback'["answerer"]
        /\ draft["answerer"] # tracks["answerer"] => needed'["answerer"]
        /\ needed'["offerer"] = needed["offerer"]
        /\ callback'["offerer"] = callback["offerer"]
    BY <2>2, <1>t, <1>s, Reported
  <2> QED BY <2>1, <2>3 DEF Watched
<1>10. CASE HandleAnswer
  <2>1. UNCHANGED <<up, tracks, stage, local, pending>>
    BY <1>10 DEF HandleAnswer
  <2>2. CASE sig["offerer"] = "have-local-offer"
    <3>1. ReportIfNeeded("offerer", local["offerer"])
      BY <1>10, <2>2 DEF HandleAnswer
    <3>2. /\ needed'["offerer"] => callback'["offerer"]
          /\ local["offerer"] # tracks["offerer"] => needed'["offerer"]
          /\ needed'["answerer"] = needed["answerer"]
          /\ callback'["answerer"] = callback["answerer"]
      BY <3>1, <1>t, <1>s, Reported
    <3> QED BY <2>1, <3>2 DEF Watched
  <2>3. CASE sig["offerer"] # "have-local-offer"
    <3>1. UNCHANGED <<sig, needed, callback>>
      BY <1>10, <2>3 DEF HandleAnswer
    <3> QED BY <2>1, <3>1 DEF Watched
  <2> QED BY <2>2, <2>3
<1>11. CASE UNCHANGED vars
  BY <1>11 DEF vars, Watched
<1> QED
  BY <1>1, <1>2, <1>3, <1>4, <1>5, <1>6, <1>7, <1>8, <1>9, <1>10, <1>11 DEF Next, Work

LEMMA AgreeInit == Init => AgreeInv
<1> SUFFICES ASSUME Init PROVE AgreeInv
  OBVIOUS
<1>1. CycleInv
  BY CycleInit
<1>2. /\ wire["offerer"] = <<>> /\ wire["answerer"] = <<>>
      /\ remote["answerer"] = local["offerer"] /\ remote["offerer"] = local["answerer"]
      /\ ~up["offerer"] /\ ~up["answerer"]
  BY Wires DEF Init
<1>3. Descriptions
  BY <1>2 DEF Descriptions, Says
<1> QED BY <1>1, <1>2, <1>3 DEF AgreeInv, Watched

LEMMA AgreeStep == AgreeInv /\ [Next]_vars => AgreeInv'
BY CycleStep, DescriptionsStep, WatchedStep DEF AgreeInv

LEMMA AgreeMeans == AgreeInv => QuietMeansAgreed
<1> SUFFICES ASSUME AgreeInv, Quiet
             PROVE  \A s \in Sides : remote[s] = tracks[Other(s)]
  BY DEF QuietMeansAgreed
<1>1. Typed /\ Roles /\ OneCycle /\ Marks /\ Descriptions /\ Watched
  BY DEF AgreeInv, CycleInv
<1>2. /\ up["offerer"] /\ stage["offerer"] = "idle" /\ ~callback["offerer"]
      /\ up["answerer"] /\ stage["answerer"] = "idle" /\ ~callback["answerer"]
      /\ wire["offerer"] = <<>> /\ wire["answerer"] = <<>>
  BY Wires DEF Quiet
<1>3. Offers = <<>> /\ Answers = <<>>
  <2>1. <<>> \in Seq(Messages)
    OBVIOUS
  <2> QED BY <1>2, <2>1, KindsOf DEF Offers, Answers
<1>4. ~OfferUnderway /\ ~Answering /\ ~AnswerUnderway /\ Answers # <<R>>
  BY <1>2, <1>3, Distinct DEF OfferUnderway, Answering, AnswerUnderway, Unmarked, Marked
<1>5. sig["offerer"] = "stable" /\ ~pending
  BY <1>1, <1>2, <1>4 DEF Roles, OneCycle, Marks
<1>6. tracks["offerer"] = local["offerer"] /\ tracks["answerer"] = local["answerer"]
  BY <1>1, <1>2, <1>5 DEF Watched
<1>7. remote["answerer"] = local["offerer"] /\ remote["offerer"] = local["answerer"]
  BY <1>1, <1>4 DEF Descriptions
<1> QED BY <1>6, <1>7 DEF Sides, Other

(* When nothing is left to do, each side has what the other attached, for  *)
(* any tracks and however the toggles fall between the steps of a cycle:   *)
(* no change of camera or screen is forgotten by the negotiation.          *)
THEOREM NoToggleIsForgotten == Spec => []QuietMeansAgreed
BY AgreeInit, AgreeStep, AgreeMeans, PTL DEF Spec
=============================================================================
