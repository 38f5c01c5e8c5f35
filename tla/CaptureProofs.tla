--------------------------- MODULE CaptureProofs ----------------------------
(***************************************************************************)
(* What is proved of the two modules about captured media.                 *)
(*                                                                         *)
(* Video: the types of the state, how many frames in a row one policy of   *)
(* congestion skips, that the feedback of a member finds a listener, and   *)
(* what the member's depacketizer puts together, for any capacities and    *)
(* any MAX_FRAME_SKIP.                                                     *)
(*                                                                         *)
(* AudioDevices: the types, where every sample of the microphone is and in *)
(* which order, that the channels stay together, and how the noise gate    *)
(* fades, for any sizes of rings, scratch and frames, any channels and any *)
(* yield of the resamplers.                                                *)
(***************************************************************************)
EXTENDS Video, AudioDevices, SequenceTheorems, TLAPS

(* The part of TypeOK the counting of skipped frames needs.                *)
CodingTyped ==
  /\ feedback \in Seq(Hints \union {KeyframeRequest})
  /\ skip \in 1 .. MaxSkip /\ since \in Nat /\ steady \in Nat

(* The frames skipped under the present policy are among those since the   *)
(* last multiple of it, whatever earlier policies left in the count.       *)
SkipInv == CodingTyped /\ steady \in 0 .. (since % skip)

(* A loop that is dead died in a session whose thread has ended, which     *)
(* uses the track no more.                                                 *)
FeedbackInv ==
  /\ handler \in {"off", "attached", "opening", "on", "stopping"}
  /\ thread # "none" => handler \in {"on", "stopping"}
  /\ handler = "off" \/ (handler = "stopping" /\ ~restart) => rtcp = "none"
  /\ rtcp = "dead" => handler \in {"on", "stopping"} /\ thread = "none"

-----------------------------------------------------------------------------
(* Arithmetic.                                                             *)

LEMMA Remainder ==
  ASSUME NEW x \in Nat, NEW s \in Nat \ {0}
  PROVE  x % s \in 0 .. s - 1 /\ \E q \in Nat : x = q * s + (x % s)
<1>1. x = (x \div s) * s + (x % s) /\ x \div s \in Nat
  OBVIOUS
<1>2. x % s \in 0 .. s - 1
  OBVIOUS
<1> QED BY <1>1, <1>2

LEMMA Between ==
  ASSUME NEW p \in Nat, NEW q \in Nat, NEW s \in Nat \ {0}, p > q
  PROVE  p * s >= q * s + s
<1>1. PICK d \in Nat : p = q + 1 + d
  <2>1. p - q - 1 \in Nat /\ p = q + 1 + (p - q - 1)
    OBVIOUS
  <2> QED BY <2>1
<1>2. (q + 1 + d) * s = q * s + s + d * s
  BY <1>1
<1>3. d * s \in Nat /\ q * s \in Nat
  BY <1>1
<1> QED BY <1>1, <1>2, <1>3

(* The remainder grows with the number until the next multiple.            *)
LEMMA NextRemainder ==
  ASSUME NEW x \in Nat, NEW s \in Nat \ {0}, (x + 1) % s # 0
  PROVE  (x + 1) % s = (x % s) + 1
<1>1. PICK q \in Nat : x = q * s + (x % s)
  BY Remainder
<1>2. PICK p \in Nat : x + 1 = p * s + ((x + 1) % s)
  <2>1. x + 1 \in Nat
    OBVIOUS
  <2> QED BY <2>1, Remainder
<1>3. x % s \in 0 .. s - 1 /\ (x + 1) % s \in 1 .. s - 1
  <2>1. x + 1 \in Nat
    OBVIOUS
  <2>2. x % s \in 0 .. s - 1
    BY Remainder
  <2>3. (x + 1) % s \in 0 .. s - 1
    BY <2>1, Remainder
  <2> QED BY <2>2, <2>3
<1>4. p * s \in Nat /\ q * s \in Nat
  BY <1>1, <1>2
<1>5. ~(p > q)
  <2> SUFFICES ASSUME p > q PROVE FALSE
    OBVIOUS
  <2>1. p * s >= q * s + s
    BY <1>1, <1>2, Between
  <2> QED BY ONLY <1>1, <1>2, <1>3, <1>4, <2>1
<1>6. ~(q > p)
  <2> SUFFICES ASSUME q > p PROVE FALSE
    OBVIOUS
  <2>1. q * s >= p * s + s
    BY <1>1, <1>2, Between
  <2> QED BY ONLY <1>1, <1>2, <1>3, <1>4, <2>1
<1>7. p = q
  BY <1>1, <1>2, <1>5, <1>6
<1> QED BY ONLY <1>1, <1>2, <1>3, <1>4, <1>7

-----------------------------------------------------------------------------
(* What the steps preserve.                                                *)

LEMMA CodingTypedStep == CodingTyped /\ [Next]_vars => CodingTyped'
<1> SUFFICES ASSUME CodingTyped, [Next]_vars PROVE CodingTyped'
  OBVIOUS
<1> USE VideoAssumption DEF CodingTyped
<1>1. CASE Opened
  <2>1. skip' = 1 /\ since' = 0 /\ steady' = 0 /\ feedback' = feedback
    BY <1>1 DEF Opened, link
  <2> QED BY <2>1
<1>2. CASE ToggleOn \/ ToggleOff \/ SelectDevice \/ Subscribe \/ OpenFailed \/ Joined
  <2>1. UNCHANGED <<skip, since, steady>>
    BY <1>2 DEF ToggleOn, ToggleOff, SelectDevice, Subscribe, OpenFailed, Joined, coding
  <2>2. feedback' = feedback \/ feedback' = <<>>
    BY <1>2 DEF ToggleOn, ToggleOff, SelectDevice, Subscribe, OpenFailed, Joined, link
  <2>3. feedback \in Seq(Hints \union {KeyframeRequest})
        /\ <<>> \in Seq(Hints \union {KeyframeRequest})
    OBVIOUS
  <2>4. feedback' \in Seq(Hints \union {KeyframeRequest})
    BY ONLY <2>2, <2>3
  <2> QED BY <2>1, <2>4
<1>3. CASE ReadRtcp
  <2>1. UNCHANGED <<skip, since, steady>>
    BY <1>3 DEF ReadRtcp, coding
  <2>2. feedback' \in Seq(Hints \union {KeyframeRequest})
    <3>1. PICK item \in Hints \union {KeyframeRequest} :
            \/ feedback' \in {feedback, Append(feedback, item)}
            \/ ~(Len(feedback) < FeedbackSize) /\ feedback' = Append(Tail(feedback), item)
      BY <1>3 DEF ReadRtcp
    <3>2. ~(Len(feedback) < FeedbackSize)
            => Tail(feedback) \in Seq(Hints \union {KeyframeRequest})
      <4>1. FeedbackSize \in Nat \ {0}
        BY VideoAssumption
      <4>2. feedback # <<>> => Tail(feedback) \in Seq(Hints \union {KeyframeRequest})
        OBVIOUS
      <4>3. feedback = <<>> => Len(feedback) = 0
        OBVIOUS
      <4> QED BY ONLY <4>1, <4>2, <4>3
    <3> DEFINE S == Hints \union {KeyframeRequest}
    <3>3. feedback \in Seq(S) /\ item \in S
      BY <3>1
    <3>4. \A s \in Seq(S) : Append(s, item) \in Seq(S)
      <4> HIDE DEF S
      <4> QED BY <3>3
    <3> QED BY ONLY <3>1, <3>2, <3>3, <3>4
  <2> QED BY <2>1, <2>2
<1>4. CASE DrainFeedback
  <2>1. since' = since
    BY <1>4 DEF DrainFeedback
  <2>2. CASE lagged \/ feedback = <<>>
    BY <1>4, <2>1, <2>2 DEF DrainFeedback
  <2>3. CASE ~(lagged \/ feedback = <<>>)
    <3>1. feedback' = Tail(feedback) /\ feedback # <<>>
      BY <1>4, <2>3 DEF DrainFeedback
    <3>2. Head(feedback) \in Hints \union {KeyframeRequest}
          /\ feedback' \in Seq(Hints \union {KeyframeRequest})
      BY <3>1
    <3>3. \/ UNCHANGED <<skip, steady>>
          \/ Head(feedback) \in Hints /\ Becomes(Head(feedback).skip)
      BY <1>4, <2>3, <3>2 DEF DrainFeedback
    <3>4. skip' \in 1 .. MaxSkip /\ steady' \in Nat
      BY <3>3 DEF Becomes, Hints
    <3> QED BY <2>1, <3>2, <3>4
  <2> QED BY <2>2, <2>3
<1>5. CASE NextFrame
  BY <1>5 DEF NextFrame, link
<1>6. CASE CheckStop \/ TooEarly \/ CameraCloses \/ Encode \/ Unencodable \/ SendFrame
  BY <1>6 DEF CheckStop, TooEarly, CameraCloses, Encode, Unencodable, SendFrame,
     coding, link
<1>7. CASE HintsExpire
  BY <1>7 DEF HintsExpire, Becomes, link
<1>8. CASE IntervalElapses \/ LimiterElapses \/ SendLoop \/ UNCHANGED vars
  BY <1>8 DEF IntervalElapses, LimiterElapses, SendLoop, coding, link, vars
<1> QED
  BY <1>1, <1>2, <1>3, <1>4, <1>5, <1>6, <1>7, <1>8 DEF Next, Handlers, CaptureThread

(* The rest of TypeOK, in parts that different actions change.             *)
SessionTyped ==
  /\ kind \in {"camera", "screen"}
  /\ handler \in {"off", "attached", "opening", "on", "stopping"}
  /\ rtcp \in {"none", "reading", "dead"}
  /\ {restart, attached, stop} \subseteq BOOLEAN
  /\ packets \in 0 .. MaxFeedback /\ toggles \in 0 .. MaxToggles
  /\ attached <=> rtcp # "none"
  /\ thread # "none" => handler \in {"on", "stopping"}

ThreadTyped ==
  /\ thread \in {"none", "top", "drain", "next", "encode", "send"}
  /\ {recent, lagged, requested, due, frame} \subseteq BOOLEAN
  /\ Len(feedback) <= FeedbackSize
  /\ queue \in Seq(BOOLEAN) /\ Len(queue) <= QueueSize

(* A unit whose start was kept is open until its end or a whole packet     *)
(* comes: what is in a closed buffer was interrupted by a whole packet.    *)
Assembling(r) ==
  /\ r \in Depacketizers
  /\ r.open => r.buffer > 0
  /\ r.buffer > 0 => r.open \/ r.interrupted
  /\ r.buffer = 2 => r.interrupted
UnitInv == Assembling(unit)

LEMMA TypeParts == TypeOK <=> /\ SessionTyped /\ ThreadTyped /\ CodingTyped
                              /\ unit \in Depacketizers /\ (unit.open => unit.buffer > 0)
BY DEF TypeOK, SessionTyped, ThreadTyped, CodingTyped

LEMMA SessionTypedStep == SessionTyped /\ [Next]_vars => SessionTyped'
<1> SUFFICES ASSUME SessionTyped, [Next]_vars PROVE SessionTyped'
  OBVIOUS
<1> USE VideoAssumption DEF SessionTyped
<1>1. CASE ToggleOn
  <2>1. /\ attached' = TRUE /\ rtcp' = "reading" /\ handler' = "attached"
        /\ UNCHANGED <<kind, restart, stop, thread, packets>>
    BY <1>1 DEF ToggleOn, Attach
  <2>2. toggles' \in 0 .. MaxToggles
    BY <1>1 DEF ToggleOn
  <2>3. handler = "off"
    BY <1>1 DEF ToggleOn
  <2> QED BY <2>1, <2>2, <2>3
<1>2. CASE ToggleOff
  <2>1. /\ attached' = FALSE /\ rtcp' = "none"
        /\ handler' = "stopping" /\ restart' = FALSE /\ stop' = TRUE
        /\ UNCHANGED <<kind, thread, packets>>
    BY <1>2 DEF ToggleOff, Detach
  <2>2. toggles' \in 0 .. MaxToggles
    BY <1>2 DEF ToggleOff
  <2> QED BY <2>1, <2>2
<1>3. CASE SelectDevice
  <2>1. /\ handler' = "stopping" /\ restart' = TRUE /\ stop' = TRUE
        /\ UNCHANGED <<kind, attached, thread, rtcp, packets>>
    BY <1>3 DEF SelectDevice, link
  <2>2. toggles' \in 0 .. MaxToggles
    BY <1>3 DEF SelectDevice
  <2> QED BY <2>1, <2>2
<1>4. CASE Subscribe
  BY <1>4 DEF Subscribe
<1>5. CASE Opened
  BY <1>5 DEF Opened, link
<1>6. CASE OpenFailed
  BY <1>6 DEF OpenFailed, Detach
<1>7. CASE Joined
  BY <1>7 DEF Joined, Attach
<1>8. CASE ReadRtcp
  <2>1. UNCHANGED <<kind, handler, restart, attached, stop, toggles, thread>>
    BY <1>8 DEF ReadRtcp, session
  <2>2. rtcp = "reading" /\ packets < MaxFeedback /\ packets' = packets + 1
    BY <1>8 DEF ReadRtcp, Packet
  <2>3. rtcp' \in {rtcp, "dead"}
    BY <1>8 DEF ReadRtcp
  <2> QED BY <2>1, <2>2, <2>3
<1>9. CASE CaptureThread
  <2>1. UNCHANGED <<kind, handler, restart, attached, stop, toggles, rtcp, packets>>
    BY <1>9 DEF CaptureThread, CheckStop, DrainFeedback, TooEarly, NextFrame,
       CameraCloses, Encode, Unencodable, SendFrame, session, link
  <2>2. thread # "none"
    BY <1>9 DEF CaptureThread, CheckStop, DrainFeedback, TooEarly, NextFrame,
       CameraCloses, Encode, Unencodable, SendFrame
  <2> QED BY <2>1, <2>2
<1>10. CASE IntervalElapses \/ LimiterElapses \/ HintsExpire \/ SendLoop \/ UNCHANGED vars
  BY <1>10 DEF IntervalElapses, LimiterElapses, HintsExpire, SendLoop, session, link, vars
<1> QED
  BY <1>1, <1>2, <1>3, <1>4, <1>5, <1>6, <1>7, <1>8, <1>9, <1>10 DEF Next, Handlers

(* One more, or one less, in a sequence.                                   *)
LEMMA Lengths ==
  ASSUME NEW S, NEW q \in Seq(S)
  PROVE  /\ Len(q) \in Nat
         /\ \A e \in S : Append(q, e) \in Seq(S) /\ Len(Append(q, e)) = Len(q) + 1
         /\ q # <<>> => Tail(q) \in Seq(S) /\ Len(Tail(q)) = Len(q) - 1
         /\ q = <<>> => Len(q) = 0
OBVIOUS

LEMMA ThreadTypedStep == CodingTyped /\ ThreadTyped /\ [Next]_vars => ThreadTyped'
<1> SUFFICES ASSUME CodingTyped, ThreadTyped, [Next]_vars PROVE ThreadTyped'
  OBVIOUS
<1> DEFINE Items == Hints \union {KeyframeRequest}
<1>t. /\ thread \in {"none", "top", "drain", "next", "encode", "send"}
      /\ {recent, lagged, requested, due, frame} \subseteq BOOLEAN
      /\ feedback \in Seq(Items) /\ Len(feedback) <= FeedbackSize
      /\ queue \in Seq(BOOLEAN) /\ Len(queue) <= QueueSize
      /\ QueueSize \in Nat \ {0} /\ FeedbackSize \in Nat \ {0}
  BY VideoAssumption DEF CodingTyped, ThreadTyped
<1>n. Len(feedback) \in Nat /\ Len(queue) \in Nat
  BY <1>t
<1>same. ASSUME UNCHANGED <<feedback, queue>>,
                thread' \in {"none", "top", "drain", "next", "encode", "send"},
                {recent', lagged', requested', due', frame'} \subseteq BOOLEAN
         PROVE  ThreadTyped'
  BY <1>same, <1>t DEF ThreadTyped
<1>1. CASE ToggleOn \/ ToggleOff \/ SelectDevice \/ Opened \/ OpenFailed \/ Joined
  <2>1. UNCHANGED <<feedback, queue, lagged>>
    BY <1>1 DEF ToggleOn, ToggleOff, SelectDevice, Opened, OpenFailed, Joined, link
  <2>2. thread' \in {thread, "top"}
    BY <1>1 DEF ToggleOn, ToggleOff, SelectDevice, Opened, OpenFailed, Joined
  <2>3. {recent', requested', due', frame'} \subseteq BOOLEAN
    <3>1. recent' \in BOOLEAN
      BY <1>1, <1>t DEF ToggleOn, ToggleOff, SelectDevice, Opened, OpenFailed, Joined,
         Attach, Detach, link
    <3>2. {requested', due', frame'} \subseteq BOOLEAN
      BY <1>1, <1>t DEF ToggleOn, ToggleOff, SelectDevice, Opened, OpenFailed, Joined, coding
    <3> QED BY <3>1, <3>2
  <2> QED BY <2>1, <2>2, <2>3, <1>same, <1>t
<1>2. CASE Subscribe
  <2>1. feedback' = <<>> /\ lagged' = FALSE
        /\ UNCHANGED <<thread, recent, requested, due, frame, queue>>
    BY <1>2 DEF Subscribe, coding
  <2>2. Len(<<>>) <= FeedbackSize
    BY <1>t
  <2> QED BY <2>1, <2>2, <1>t DEF ThreadTyped
<1>3. CASE ReadRtcp
  <2>1. UNCHANGED <<thread, requested, due, frame, queue>>
    BY <1>3 DEF ReadRtcp, coding
  <2>2. PICK item \in Items :
          /\ recent' \in {recent, recent \/ item = KeyframeRequest}
          /\ lagged' \in {lagged, TRUE}
          /\ \/ feedback' = feedback
             \/ Len(feedback) < FeedbackSize /\ feedback' = Append(feedback, item)
             \/ ~(Len(feedback) < FeedbackSize) /\ feedback' = Append(Tail(feedback), item)
    BY <1>3 DEF ReadRtcp
  <2>3. {recent', lagged'} \subseteq BOOLEAN
    BY <2>2, <1>t
  <2>4. Len(feedback') <= FeedbackSize
    <3> HIDE DEF Items
    <3>1. CASE feedback' = feedback
      BY <3>1, <1>t
    <3>2. CASE Len(feedback) < FeedbackSize /\ feedback' = Append(feedback, item)
      <4>1. Len(Append(feedback, item)) = Len(feedback) + 1
        BY <1>t, <2>2, Lengths
      <4> QED BY <3>2, <4>1, <1>t, <1>n
    <3>3. CASE ~(Len(feedback) < FeedbackSize) /\ feedback' = Append(Tail(feedback), item)
      <4>1. feedback # <<>>
        BY <3>3, <1>t, Lengths
      <4>2. Tail(feedback) \in Seq(Items) /\ Len(Tail(feedback)) = Len(feedback) - 1
        BY <4>1, <1>t, Lengths
      <4>3. Len(Append(Tail(feedback), item)) = Len(Tail(feedback)) + 1
        BY <4>2, <2>2, Lengths
      <4> QED BY <3>3, <4>2, <4>3, <1>t, <1>n
    <3> QED BY <2>2, <3>1, <3>2, <3>3
  <2> QED BY <2>1, <2>3, <2>4, <1>t DEF ThreadTyped
<1>4. CASE DrainFeedback
  <2>1. UNCHANGED <<recent, frame, queue>>
    BY <1>4 DEF DrainFeedback
  <2>2. thread' \in {thread, "next"} /\ {lagged', requested', due'} \subseteq BOOLEAN
    BY <1>4, <1>t DEF DrainFeedback
  <2>3. feedback' = feedback \/ (feedback # <<>> /\ feedback' = Tail(feedback))
    BY <1>4 DEF DrainFeedback
  <2>4. Len(feedback') <= FeedbackSize
    <3> HIDE DEF Items
    <3>1. feedback # <<>> => Len(Tail(feedback)) = Len(feedback) - 1
      BY <1>t, Lengths
    <3> QED BY <2>3, <3>1, <1>t, <1>n
  <2> QED BY <2>1, <2>2, <2>4, <1>t DEF ThreadTyped
<1>5. CASE SendFrame
  <2>1. UNCHANGED <<feedback, recent, lagged, requested, due>>
    BY <1>5 DEF SendFrame, link
  <2>2. thread' = "top" /\ frame' = FALSE /\ Len(queue) < QueueSize
        /\ queue' = Append(queue, frame)
    BY <1>5 DEF SendFrame
  <2>3. frame \in BOOLEAN
    BY <1>t
  <2>4. queue' \in Seq(BOOLEAN) /\ Len(queue') = Len(queue) + 1
    BY <2>2, <2>3, <1>t, Lengths
  <2>5. Len(queue') <= QueueSize
    BY <2>2, <2>4, <1>n, <1>t
  <2> QED BY <2>1, <2>2, <2>4, <2>5, <1>t DEF ThreadTyped
<1>6. CASE CheckStop \/ TooEarly \/ NextFrame \/ CameraCloses \/ Encode \/ Unencodable
  <2>1. UNCHANGED <<feedback, queue, recent, lagged>>
    BY <1>6 DEF CheckStop, TooEarly, NextFrame, CameraCloses, Encode, Unencodable, link
  <2>2. thread' \in {"none", "top", "drain", "next", "encode", "send"}
    BY <1>6 DEF CheckStop, TooEarly, NextFrame, CameraCloses, Encode, Unencodable
  <2>3. {requested', due', frame'} \subseteq BOOLEAN
    BY <1>6, <1>t DEF CheckStop, TooEarly, NextFrame, CameraCloses, Encode, Unencodable,
       coding
  <2> QED BY <2>1, <2>2, <2>3, <1>same, <1>t
<1>7. CASE SendLoop
  <2>1. UNCHANGED <<thread, recent, lagged, requested, due, frame, feedback>>
    BY <1>7 DEF SendLoop, link, coding
  <2>2. queue # <<>> /\ queue' = Tail(queue)
    BY <1>7 DEF SendLoop
  <2>3. queue' \in Seq(BOOLEAN) /\ Len(queue') = Len(queue) - 1
    BY <2>2, <1>t, Lengths
  <2>4. Len(queue') <= QueueSize
    BY <2>3, <1>n, <1>t
  <2> QED BY <2>1, <2>3, <2>4, <1>t DEF ThreadTyped
<1>8. CASE IntervalElapses \/ LimiterElapses \/ HintsExpire \/ UNCHANGED vars
  <2>1. UNCHANGED <<feedback, queue, thread, lagged, requested, frame>>
    BY <1>8 DEF IntervalElapses, LimiterElapses, HintsExpire, link, coding, vars
  <2>2. {recent', due'} \subseteq BOOLEAN
    BY <1>8, <1>t DEF IntervalElapses, LimiterElapses, HintsExpire, link, coding, vars
  <2> QED BY <2>1, <2>2, <1>same, <1>t
<1> QED
  BY <1>1, <1>2, <1>3, <1>4, <1>5, <1>6, <1>7, <1>8 DEF Next, Handlers, CaptureThread

(* A packet keeps a depacketizer as it should be, so does a frame, whatever*)
(* is lost of it.                                                          *)
LEMMA DepacketizeKeeps ==
  ASSUME NEW r, Assembling(r), NEW packet \in {"whole", "start", "end"}
  PROVE  Assembling(Depacketize(r, packet))
<1>1. r.buffer \in 0 .. 2 /\ r.open \in BOOLEAN /\ r.interrupted \in BOOLEAN
  BY DEF Assembling, Depacketizers
<1>2. CASE packet = "start"
  <2>1. Depacketize(r, packet)
          = [buffer |-> IF r.open \/ r.buffer = 0 THEN 1 ELSE 2, open |-> TRUE,
             interrupted |-> r.interrupted /\ ~r.open]
    BY <1>2 DEF Depacketize
  <2>2. CASE r.open \/ r.buffer = 0
    BY <1>1, <2>1, <2>2 DEF Assembling, Depacketizers
  <2>3. CASE ~(r.open \/ r.buffer = 0)
    <3>1. r.interrupted /\ ~r.open
      BY <1>1, <2>3 DEF Assembling
    <3> QED BY <2>1, <2>3, <3>1 DEF Assembling, Depacketizers
  <2> QED BY <2>2, <2>3
<1>3. CASE packet = "end"
  BY <1>3 DEF Depacketize, Assembling, Depacketizers
<1>4. CASE packet = "whole"
  <2>1. Depacketize(r, packet)
          = [buffer |-> r.buffer, open |-> FALSE, interrupted |-> r.buffer > 0]
    BY <1>4 DEF Depacketize
  <2> QED BY <1>1, <2>1 DEF Assembling, Depacketizers
<1> QED BY <1>2, <1>3, <1>4

LEMMA MayArriveKeeps ==
  ASSUME NEW units, \A r \in units : Assembling(r),
         NEW packet \in {"whole", "start", "end"}
  PROVE  \A r \in MayArrive(units, packet) : Assembling(r)
BY DepacketizeKeeps DEF MayArrive

LEMMA ReceivedKeeps ==
  ASSUME NEW r, Assembling(r), NEW key
  PROVE  \A u \in Received(r, key) : Assembling(u)
<1>1. \A u \in MayArrive({r}, "whole") : Assembling(u)
  BY MayArriveKeeps
<1>2. ASSUME NEW units, \A u \in units : Assembling(u)
      PROVE  \A u \in OfUnit(units) : Assembling(u)
  <2>1. \A u \in MayArrive(units, "start") : Assembling(u)
    BY <1>2, MayArriveKeeps
  <2> QED BY <2>1, MayArriveKeeps DEF OfUnit
<1>3. \A u \in OfUnit({r}) : Assembling(u)
  BY <1>2
<1>4. \A u \in OfUnit(MayArrive({r}, "whole")) : Assembling(u)
  BY <1>1, <1>2
<1> QED BY <1>1, <1>3, <1>4 DEF Received

LEMMA UnitStep == UnitInv /\ [Next]_vars => UnitInv'
<1> SUFFICES ASSUME UnitInv, [Next]_vars PROVE UnitInv'
  OBVIOUS
<1>1. CASE SendLoop
  <2>1. unit' \in Received(unit, Head(queue)) \union {unit}
    BY <1>1 DEF SendLoop
  <2>2. \A u \in Received(unit, Head(queue)) : Assembling(u)
    BY ReceivedKeeps DEF UnitInv
  <2> QED BY <2>1, <2>2 DEF UnitInv
<1>2. CASE ~SendLoop
  <2>1. unit' = unit
    BY <1>2 DEF Next, Handlers, CaptureThread, ToggleOn, ToggleOff, SelectDevice,
       Subscribe, Opened, OpenFailed, Joined, ReadRtcp, CheckStop, DrainFeedback,
       TooEarly, NextFrame, CameraCloses, Encode, Unencodable, SendFrame,
       IntervalElapses, LimiterElapses, HintsExpire, vars
  <2> QED BY <2>1 DEF UnitInv
<1> QED BY <1>1, <1>2

(* A policy in place of another, or the same one.                          *)
LEMMA PolicyStep ==
  ASSUME SkipInv, NEW n \in 1 .. MaxSkip, Becomes(n), since' = since
  PROVE  steady' \in 0 .. (since' % skip')
<1>1. CASE n = skip
  BY <1>1 DEF SkipInv, Becomes
<1>2. CASE n # skip
  <2>1. skip' = n /\ steady' = 0
    BY <1>2 DEF Becomes
  <2>2. since \in Nat /\ n \in Nat \ {0}
    BY VideoAssumption DEF SkipInv, CodingTyped
  <2>3. since % n \in Nat
    BY <2>2, Remainder
  <2> QED BY <2>1, <2>3
<1> QED BY <1>1, <1>2

LEMMA SkipStep == SkipInv /\ [Next]_vars => SkipInv'
<1> SUFFICES ASSUME SkipInv, [Next]_vars PROVE SkipInv'
  OBVIOUS
<1>t. CodingTyped'
  BY CodingTypedStep DEF SkipInv
<1>typed. CodingTyped
  BY DEF SkipInv
<1> SUFFICES steady' \in 0 .. (since' % skip')
  BY <1>t DEF SkipInv
<1>same. ASSUME UNCHANGED <<skip, since, steady>>
         PROVE  steady' \in 0 .. (since' % skip')
  BY <1>same DEF SkipInv
<1>zero. ASSUME since' = 0, steady' = 0
         PROVE  steady' \in 0 .. (since' % skip')
  <2>1. skip' \in Nat \ {0}
    BY <1>t, VideoAssumption DEF CodingTyped
  <2>2. 0 % skip' \in Nat
    <3>1. ASSUME NEW k \in Nat \ {0} PROVE 0 % k \in Nat
      OBVIOUS
    <3> QED BY ONLY <2>1, <3>1, Zenon
  <2> QED BY <1>zero, <2>2
<1>1. CASE Opened
  BY <1>1, <1>zero DEF Opened
<1>2. CASE NextFrame
  <2>1. CASE IsDue(since + 1)
    BY <1>2, <2>1, <1>zero DEF NextFrame
  <2>2. CASE ~IsDue(since + 1)
    <3>1. since' = since + 1 /\ skip' = skip /\ steady' = steady + 1
      BY <1>2, <2>2 DEF NextFrame
    <3>2. since \in Nat /\ skip \in Nat \ {0} /\ since % skip \in Nat
      <4>1. since \in Nat /\ skip \in Nat \ {0}
        BY <1>typed, VideoAssumption DEF CodingTyped
      <4> QED BY <4>1, Remainder
    <3>3. (since + 1) % skip = (since % skip) + 1
      BY <2>2, <3>2, NextRemainder DEF IsDue
    <3>4. since' % skip' = (since % skip) + 1
      BY ONLY <3>1, <3>3, Zenon
    <3>5. steady \in 0 .. (since % skip)
      BY DEF SkipInv
    <3> QED BY ONLY <3>1, <3>2, <3>4, <3>5
  <2> QED BY <2>1, <2>2
<1>3. CASE DrainFeedback
  <2>1. since' = since
    BY <1>3 DEF DrainFeedback
  <2>2. CASE UNCHANGED <<skip, steady>>
    BY <2>1, <2>2, <1>same
  <2>3. CASE ~UNCHANGED <<skip, steady>>
    <3>1. /\ feedback # <<>> /\ Head(feedback) # KeyframeRequest
          /\ Becomes(Head(feedback).skip)
      BY <1>3, <2>3 DEF DrainFeedback
    <3>2. Head(feedback) \in Hints
      BY <1>typed, <3>1 DEF CodingTyped
    <3>3. Head(feedback).skip \in 1 .. MaxSkip
      BY <3>2 DEF Hints
    <3> QED BY <2>1, <3>1, <3>3, PolicyStep
  <2> QED BY <2>2, <2>3
<1>4. CASE HintsExpire
  <2>1. Becomes(1) /\ since' = since /\ 1 \in 1 .. MaxSkip
    BY <1>4, VideoAssumption DEF HintsExpire
  <2> QED BY <2>1, PolicyStep
<1>5. CASE UNCHANGED <<skip, since, steady>>
  BY <1>5, <1>same
<1>6. ASSUME ~Opened, ~NextFrame, ~DrainFeedback, ~HintsExpire
      PROVE  UNCHANGED <<skip, since, steady>>
  BY <1>6 DEF Next, Handlers, CaptureThread, ToggleOn, ToggleOff, SelectDevice,
     Subscribe, OpenFailed, Joined, ReadRtcp, CheckStop, TooEarly, CameraCloses,
     Encode, Unencodable, SendFrame, IntervalElapses, LimiterElapses, SendLoop,
     coding, vars
<1> QED BY <1>1, <1>2, <1>3, <1>4, <1>5, <1>6

LEMMA FeedbackStep == FeedbackInv /\ [Next]_vars => FeedbackInv'
<1> SUFFICES ASSUME FeedbackInv, [Next]_vars PROVE FeedbackInv'
  OBVIOUS
<1> USE DEF FeedbackInv
<1>1. CASE ToggleOn
  BY <1>1 DEF ToggleOn, Attach
<1>2. CASE ToggleOff
  BY <1>2 DEF ToggleOff, Detach
<1>3. CASE SelectDevice
  BY <1>3 DEF SelectDevice, link
<1>4. CASE Subscribe
  BY <1>4 DEF Subscribe
<1>5. CASE Opened
  BY <1>5 DEF Opened, link
<1>6. CASE OpenFailed
  BY <1>6 DEF OpenFailed, Detach
<1>7. CASE Joined
  BY <1>7 DEF Joined, Attach
<1>8. CASE ReadRtcp
  <2>1. UNCHANGED <<handler, restart, stop, thread>>
    BY <1>8 DEF ReadRtcp, session
  <2>2. rtcp' = rtcp \/ ~Subscribed
    BY <1>8 DEF ReadRtcp
  <2>3. rtcp = "reading" /\ handler # "attached" /\ rtcp' \in {rtcp, "dead"}
    BY <1>8 DEF ReadRtcp, Packet
  <2> QED BY <2>1, <2>2, <2>3 DEF Subscribed
<1>9. CASE CaptureThread
  <2>1. UNCHANGED <<handler, restart, stop, rtcp>>
    BY <1>9 DEF CaptureThread, CheckStop, DrainFeedback, TooEarly, NextFrame,
       CameraCloses, Encode, Unencodable, SendFrame, session, link
  <2>2. thread # "none"
    BY <1>9 DEF CaptureThread, CheckStop, DrainFeedback, TooEarly, NextFrame,
       CameraCloses, Encode, Unencodable, SendFrame
  <2> QED BY <2>1, <2>2
<1>10. CASE IntervalElapses \/ LimiterElapses \/ HintsExpire \/ SendLoop \/ UNCHANGED vars
  BY <1>10 DEF IntervalElapses, LimiterElapses, HintsExpire, SendLoop, session, link, vars
<1> QED
  BY <1>1, <1>2, <1>3, <1>4, <1>5, <1>6, <1>7, <1>8, <1>9, <1>10 DEF Next, Handlers

-----------------------------------------------------------------------------
(* Neither the queue to the send loop nor the channel of feedback holds    *)
(* more than its capacity, a loop reads the sender's RTCP exactly while the*)
(* track is attached, and no thread runs outside a session.                *)
THEOREM TypeCorrect == Spec => []TypeOK
<1> DEFINE I == SessionTyped /\ ThreadTyped /\ CodingTyped /\ UnitInv
<1>1. Init => I
  <2> SUFFICES ASSUME Init PROVE I
    OBVIOUS
  <2>1. SessionTyped
    <3>1. /\ kind \in {"camera", "screen"} /\ handler = "off" /\ rtcp = "none"
          /\ restart = FALSE /\ attached = FALSE /\ stop = FALSE
          /\ packets = 0 /\ toggles = 0 /\ thread = "none"
      BY DEF Init
    <3>2. 0 \in 0 .. MaxFeedback /\ 0 \in 0 .. MaxToggles
      BY VideoAssumption
    <3> QED BY <3>1, <3>2 DEF SessionTyped
  <2>2. ThreadTyped
    <3>1. feedback = <<>> /\ queue = <<>> /\ Len(<<>>) = 0 /\ <<>> \in Seq(BOOLEAN)
      BY DEF Init
    <3>2. FeedbackSize \in Nat /\ QueueSize \in Nat
      BY VideoAssumption
    <3>3. Len(feedback) <= FeedbackSize /\ Len(queue) <= QueueSize
      BY <3>1, <3>2
    <3> QED BY <3>1, <3>3 DEF Init, ThreadTyped
  <2>3. CodingTyped
    BY VideoAssumption DEF Init, CodingTyped
  <2>4. UnitInv
    BY DEF Init, UnitInv, Assembling, Depacketizers
  <2> QED BY <2>1, <2>2, <2>3, <2>4
<1>2. I /\ [Next]_vars => I'
  BY SessionTypedStep, ThreadTypedStep, CodingTypedStep, UnitStep
<1>3. I => TypeOK
  BY TypeParts DEF UnitInv, Assembling
<1> QED BY <1>1, <1>2, <1>3, PTL DEF Spec

(* "Discarded instead of being corrupted": heads of two units are in the   *)
(* buffer only where a whole packet closed fua_open over the first.  Only  *)
(* heads are counted: a fragment that is missing inside a unit is not seen.*)
THEOREM HeadsStayApart == Spec => []HeadsDoNotMix
<1>1. Init => UnitInv
  BY DEF Init, UnitInv, Assembling, Depacketizers
<1>2. UnitInv => HeadsDoNotMix
  BY DEF UnitInv, Assembling, HeadsDoNotMix
<1> QED BY <1>1, <1>2, UnitStep, PTL DEF Spec

(* "Send one of every N captured frames", for every N the policy may take: *)
(* the count that NextFrame tests modulo frame_skip meets a multiple of it *)
(* within N frames, also when earlier policies left it past N.             *)
THEOREM SkipStaysSteady == Spec => []SkipIsSteady
<1>1. Init => SkipInv
  <2> SUFFICES ASSUME Init PROVE SkipInv
    OBVIOUS
  <2>1. skip = 1 /\ since = 0 /\ steady = 0 /\ feedback = <<>>
    BY DEF Init
  <2>2. 0 % 1 = 0
    OBVIOUS
  <2> QED BY <2>1, <2>2, VideoAssumption DEF SkipInv, CodingTyped
<1>2. SkipInv => SkipIsSteady
  <2> SUFFICES ASSUME SkipInv PROVE SkipIsSteady
    OBVIOUS
  <2>1. since \in Nat /\ skip \in Nat \ {0} /\ steady \in 0 .. (since % skip)
    BY VideoAssumption DEF SkipInv, CodingTyped
  <2>2. since % skip \in 0 .. skip - 1
    BY <2>1, Remainder
  <2> QED BY ONLY <2>1, <2>2 DEF SkipIsSteady
<1> QED BY <1>1, <1>2, SkipStep, PTL DEF Spec

(* The loop that reads a sender's RTCP dies only for want of a receiver,   *)
(* and whoever uses the sender has one: from the attachment of the track   *)
(* to the end of its thread the loop is alive, over any number of changes  *)
(* of the device.                                                          *)
THEOREM FeedbackStaysHeard == Spec => []FeedbackIsHeard
<1>1. Init => FeedbackInv
  BY DEF Init, FeedbackInv
<1>2. FeedbackInv => FeedbackIsHeard
  BY DEF FeedbackInv, FeedbackIsHeard
<1> QED BY <1>1, <1>2, FeedbackStep, PTL DEF Spec

-----------------------------------------------------------------------------
(* Arithmetic and sequences, for the devices.                              *)

(* Division, and what the distributive law gives of a product.             *)
LEMMA Division ==
  ASSUME NEW a \in Nat, NEW b \in Nat \ {0}
  PROVE  /\ a \div b \in Nat /\ a % b \in 0 .. b - 1
         /\ a = b * (a \div b) + (a % b)
<1>1. a \div b \in Nat
  OBVIOUS
<1>2. a % b \in 0 .. b - 1
  OBVIOUS
<1>3. a = b * (a \div b) + (a % b)
  OBVIOUS
<1> QED BY <1>1, <1>2, <1>3

LEMMA Product ==
  ASSUME NEW a \in Nat, NEW b \in Nat, NEW c \in Nat
  PROVE  a * b \in Nat /\ b * a \in Nat /\ a * (b + c) = a * b + a * c /\ (b + c) * a = b * a + c * a
OBVIOUS

LEMMA Sizes ==
  /\ Channels \in Nat \ {0} /\ RingSize \in Nat \ {0} /\ ScratchSize \in Nat \ {0}
  /\ FrameSize \in Nat \ {0} /\ TransportSize \in Nat \ {0} /\ EmitEvery \in Nat \ {0}
  /\ Open \in Nat /\ AttackStep \in Nat /\ MinYield \in Nat /\ MaxYield \in Nat
  /\ MaxSamples \in Nat /\ MaxMixed \in Nat /\ MaxCommands \in Nat
BY AudioDevicesAssumption

LEMMA Yields ==
  ASSUME NEW n \in MinYield .. MaxYield
  PROVE  n \in 0 .. MaxYield /\ n \in Nat
<1>1. MinYield \in Nat /\ MaxYield \in Nat
  BY Sizes
<1> QED BY <1>1

(* A sequence after Append, and one after Tail.                            *)
LEMMA Longer ==
  ASSUME NEW S, NEW q \in Seq(S), NEW e \in S
  PROVE  /\ Append(q, e) \in Seq(S) /\ Len(q) \in Nat /\ Len(Append(q, e)) = Len(q) + 1
         /\ Append(q, e)[Len(q) + 1] = e /\ \A j \in 1..Len(q) : Append(q, e)[j] = q[j]
OBVIOUS

LEMMA Shorter ==
  ASSUME NEW S, NEW q \in Seq(S), q # <<>>
  PROVE  /\ Len(q) \in Nat \ {0} /\ Tail(q) \in Seq(S) /\ Len(Tail(q)) = Len(q) - 1
         /\ Head(q) = q[1] /\ Head(q) \in S
         /\ \A j \in 1..(Len(q) - 1) : Tail(q)[j] = q[j + 1]
OBVIOUS

-----------------------------------------------------------------------------
(* The types of AudioDevices.                                              *)

(* The part of DevicesTypeOK that PushSamples steady.                     *)
MicTyped ==
  /\ mono \in 0 .. FrameSize - 1 /\ pending \in Nat /\ resampled \in Nat /\ torn \in Nat
  /\ blended \in BOOLEAN

(* The samples of this microphone that have left the scratch: the number   *)
(* of the next one, if none was lost to a full ring.                       *)
Used == torn + Channels * (mono + resampled)

(* CaptureResampler::push uses exactly the samples it is given: what is    *)
(* accumulated, what is resampled and what the downmix leaves out make     *)
(* them up.                                                                *)
LEMMA Pushing ==
  ASSUME MicTyped, NEW s \in Seq(Samples), PushSamples(s)
  PROVE  MicTyped' /\ Used' = Used + Len(s)
<1> DEFINE n == Len(s)
           k == n \div Channels
           chunks == (mono + k) \div FrameSize
<1>1. n \in Nat /\ k \in Nat /\ n % Channels \in Nat /\ n = Channels * k + (n % Channels)
  <2>1. n \in Nat
    OBVIOUS
  <2>2. k \in Nat /\ n % Channels \in 0 .. Channels - 1 /\ n = Channels * k + (n % Channels)
    BY <2>1, Division, Sizes
  <2> QED BY <2>1, <2>2, Sizes
<1>2. Len(Downmix(s)) = k
  BY <1>1 DEF Downmix
<1>3. /\ mono' = (mono + k) % FrameSize /\ resampled' = resampled + chunks * FrameSize
      /\ pending' \in pending + chunks * MinYield .. pending + chunks * MaxYield
      /\ torn' = torn + (n % Channels) /\ blended' \in BOOLEAN
  BY <1>2 DEF PushSamples, MicTyped
<1>4. /\ chunks \in Nat /\ (mono + k) % FrameSize \in 0 .. FrameSize - 1
      /\ mono + k = FrameSize * chunks + ((mono + k) % FrameSize)
  <2>1. mono + k \in Nat
    BY <1>1, Sizes DEF MicTyped
  <2> QED BY <2>1, Division, Sizes
<1> HIDE DEF n, k, chunks
<1>5. /\ chunks * FrameSize \in Nat /\ chunks * FrameSize = FrameSize * chunks
      /\ chunks * MinYield \in Nat /\ chunks * MaxYield \in Nat
  BY <1>4, Sizes
<1>6. MicTyped'
  BY <1>1, <1>3, <1>4, <1>5, Sizes DEF MicTyped
<1>7. mono' + resampled' = (mono + resampled) + k
  BY <1>1, <1>3, <1>4, <1>5, Sizes DEF MicTyped
<1>8. Channels * (mono' + resampled') = Channels * (mono + resampled) + Channels * k
  <2>1. mono + resampled \in Nat
    BY Sizes DEF MicTyped
  <2> QED BY <1>1, <1>7, <2>1, Product, Sizes
<1>9. Channels * (mono + resampled) \in Nat /\ Channels * k \in Nat
  <2>1. mono + resampled \in Nat
    BY Sizes DEF MicTyped
  <2> QED BY <1>1, <2>1, Product, Sizes
<1>10. Used' = torn' + Channels * (mono' + resampled')
  BY DEF Used
<1>11. Used' = Used + n
  <2> DEFINE x == Channels * (mono + resampled)
             y == Channels * k
  <2>1. /\ Used' = torn + (n % Channels) + (x + y) /\ n = y + (n % Channels)
        /\ torn \in Nat /\ n % Channels \in Nat /\ x \in Nat /\ y \in Nat /\ Used = torn + x
    BY <1>1, <1>3, <1>8, <1>9, <1>10 DEF Used, MicTyped
  <2> HIDE DEF x, y
  <2> QED BY <2>1
<1> QED BY <1>6, <1>11 DEF n

LEMMA DeviceParts ==
  ASSUME DevicesTypeOK PROVE MicTyped
BY DEF DevicesTypeOK, MicTyped

LEMMA SamplesTyped ==
  ASSUME DevicesTypeOK
  PROVE  /\ Len(ring) \in Nat /\ Len(scratch) \in Nat /\ Len(speaker) \in Nat
         /\ Channels * (mono + resampled) \in Nat /\ Used \in Nat
<1>1. mono + resampled \in Nat /\ torn \in Nat
  BY Sizes DEF DevicesTypeOK
<1>2. Channels * (mono + resampled) \in Nat
  BY <1>1, Product, Sizes
<1>3. Len(ring) \in Nat /\ Len(scratch) \in Nat /\ Len(speaker) \in Nat
  <2>1. ring \in Seq(Samples) /\ scratch \in Seq(Samples) /\ speaker \in Seq(Nat)
    BY DEF DevicesTypeOK
  <2> QED BY <2>1
<1>4. Used \in Nat
  <2> DEFINE x == Channels * (mono + resampled)
  <2>1. Used = torn + x /\ x \in Nat
    BY <1>2 DEF Used
  <2> HIDE DEF x
  <2> QED BY <1>1, <2>1
<1> QED BY <1>2, <1>3, <1>4

(* SamplesAddUp without its product.                                       *)
LEMMA AddUpUsed ==
  ASSUME DevicesTypeOK
  PROVE  SamplesAddUp <=> next = overflowed + Len(ring) + Len(scratch) + Used
<1> DEFINE x == Channels * (mono + resampled)
<1>1. /\ x \in Nat /\ Len(ring) \in Nat /\ Len(scratch) \in Nat /\ overflowed \in Nat /\ torn \in Nat
      /\ Used = torn + x
      /\ SamplesAddUp <=> next = overflowed + Len(ring) + Len(scratch) + torn + x
  BY SamplesTyped DEF DevicesTypeOK, Used, SamplesAddUp
<1> HIDE DEF x
<1> QED BY <1>1

(* A drained sample keeps the types, and the scratch below its size.       *)
LEMMA DrainTyped ==
  ASSUME DevicesTypeOK, phase = "drain", ring # <<>>, ring' = Tail(ring),
         UNCHANGED <<microphone, phase, gated, processing, sent, playback, commands, failed>>,
         \/ /\ Len(Append(scratch, Head(ring))) = ScratchSize
            /\ scratch' = <<>> /\ PushSamples(Append(scratch, Head(ring)))
         \/ /\ Len(Append(scratch, Head(ring))) # ScratchSize
            /\ scratch' = Append(scratch, Head(ring)) /\ UNCHANGED resampler
  PROVE  DevicesTypeOK'
<1>1. /\ ring \in Seq(Samples) /\ Head(ring) \in Samples /\ ring' \in Seq(Samples)
      /\ Len(ring') = Len(ring) - 1 /\ Len(ring) \in Nat
  BY Shorter DEF DevicesTypeOK
<1>2. /\ Append(scratch, Head(ring)) \in Seq(Samples)
      /\ Len(Append(scratch, Head(ring))) = Len(scratch) + 1
      /\ Len(scratch) \in Nat
  BY <1>1, Longer DEF DevicesTypeOK
<1>3. MicTyped' /\ scratch' \in Seq(Samples) /\ Len(scratch') < ScratchSize
  <2>1. CASE scratch' = <<>> /\ PushSamples(Append(scratch, Head(ring)))
    <3>1. MicTyped'
      BY <1>2, <2>1, Pushing, DeviceParts
    <3>2. <<>> \in Seq(Samples) /\ Len(<<>>) = 0
      OBVIOUS
    <3> QED BY <2>1, <3>1, <3>2, Sizes
  <2>2. CASE /\ Len(Append(scratch, Head(ring))) # ScratchSize
             /\ scratch' = Append(scratch, Head(ring)) /\ UNCHANGED resampler
    <3>1. Len(scratch) < ScratchSize
      BY DEF DevicesTypeOK
    <3>2. MicTyped'
      BY <2>2, DeviceParts DEF MicTyped, resampler
    <3> QED BY <1>2, <2>2, <3>1, <3>2, Sizes
  <2> QED BY <2>1, <2>2
<1> QED BY <1>1, <1>3, Sizes DEF DevicesTypeOK, MicTyped, microphone, processing, playback

(* The count of what was lost stays in its range only since the samples    *)
(* add up, the numbers of the playback ring since left is part of          *)
(* produced.                                                               *)
LEMMA DevicesTypeStep ==
  ASSUME DevicesTypeOK, SamplesAddUp, left <= produced, [DevicesNext]_deviceVars
  PROVE  DevicesTypeOK'
<1>0. /\ Len(ring) \in Nat /\ Len(scratch) \in Nat /\ Len(speaker) \in Nat
      /\ Channels * (mono + resampled) \in Nat /\ Used \in Nat
  BY SamplesTyped
<1>1. CASE Deliver
  <2>1. overflowed <= next
    BY <1>0, AddUpUsed DEF DevicesTypeOK
  <2>2. CASE Len(ring) < RingSize
    <3>1. next \in Samples
      BY <1>1, Sizes DEF Deliver, DevicesTypeOK, Samples
    <3>2. Append(ring, next) \in Seq(Samples) /\ Len(Append(ring, next)) = Len(ring) + 1
      BY <3>1, Longer DEF DevicesTypeOK
    <3>3. ring' \in Seq(Samples) /\ Len(ring') <= RingSize /\ overflowed' = overflowed
      BY <1>0, <1>1, <2>2, <3>2, Sizes DEF Deliver
    <3> QED BY <1>1, <3>3, Sizes DEF Deliver, DevicesTypeOK, resampler, processing, playback
  <2>3. CASE ~(Len(ring) < RingSize)
    BY <1>1, <2>1, <2>3, Sizes DEF Deliver, DevicesTypeOK, resampler, processing, playback
  <2> QED BY <2>2, <2>3
<1>2. CASE Play
  <2>1. /\ Head(speaker) \in Nat /\ Tail(speaker) \in Seq(Nat)
        /\ Len(Tail(speaker)) = Len(speaker) - 1
    BY <1>2, Shorter DEF Play, DevicesTypeOK
  <2> QED BY <1>0, <1>2, <2>1, Sizes DEF Play, DevicesTypeOK, microphone, resampler, processing
<1>3. CASE SwitchInput
  <2>1. <<>> \in Seq(Samples) /\ Len(<<>>) = 0
    OBVIOUS
  <2>2. /\ ring' \in Seq(Samples) /\ Len(ring') <= RingSize /\ capture' = TRUE /\ next' = 0
        /\ overflowed' = 0 /\ mono' = 0 /\ pending' = 0 /\ torn' = 0 /\ blended' = FALSE
        /\ resampled' = 0 /\ commands' \in 0 .. MaxCommands
    BY <1>3, <2>1, Sizes DEF SwitchInput, NewMicrophone, NewResampler, DevicesTypeOK
  <2>3. UNCHANGED <<phase, scratch, gated, processing, sent, playback, failed>>
    BY <1>3 DEF SwitchInput
  <2>4. 0 \in 0 .. MaxSamples /\ 0 \in 0 .. FrameSize - 1 /\ 0 \in Nat
    BY Sizes
  <2> QED BY <2>2, <2>3, <2>4 DEF DevicesTypeOK, processing, playback
<1>4. CASE SwitchOutput
  <2>1. <<>> \in Seq(Nat) /\ Len(<<>>) = 0
    OBVIOUS
  <2> QED BY <1>4, <2>1, Sizes
      DEF SwitchOutput, NewSpeaker, DevicesTypeOK, microphone, resampler, processing
<1>5. CASE SetProcessing
  BY <1>5, Sizes DEF SetProcessing, DevicesTypeOK, microphone, resampler, processing, playback
<1>6. CASE ControlDrained \/ ReceiveFails \/ ReceivedAll
  <2>1. phase' \in {"control", "receive", "drain", "encode"} /\ failed' \in BOOLEAN
    BY <1>6 DEF ControlDrained, ReceiveFails, ReceivedAll, DevicesTypeOK
  <2>2. UNCHANGED <<microphone, ring, scratch, resampler, gated, processing, sent, playback,
                    commands>>
    BY <1>6 DEF ControlDrained, ReceiveFails, ReceivedAll
  <2> QED BY <2>1, <2>2 DEF DevicesTypeOK, microphone, resampler, processing, playback
<1>7. CASE FlushMix
  <2>1. left' \in 0 .. MaxYield /\ produced' \in Nat /\ mixed' \in 0 .. MaxMixed
    <3>1. /\ left' \in MinYield .. MaxYield /\ produced' = produced + left'
          /\ mixed < MaxMixed /\ mixed' = mixed + 1
      BY <1>7 DEF FlushMix
    <3>2. produced \in Nat /\ mixed \in 0 .. MaxMixed
      BY DEF DevicesTypeOK
    <3>3. left' \in 0 .. MaxYield /\ left' \in Nat
      BY <3>1, Yields
    <3>4. produced' \in Nat
      <4>1. PICK made \in Nat : produced' = produced + made
        BY <3>1, <3>3
      <4>2. produced \in Nat
        BY <3>2
      <4> QED BY <4>1, <4>2
    <3>5. mixed' \in 0 .. MaxMixed
      BY <3>1, <3>2, Sizes
    <3> QED BY <3>3, <3>4, <3>5
  <2> QED BY <1>7, <2>1 DEF FlushMix, DevicesTypeOK, microphone, resampler, processing
<1>8. CASE Push
  <2>1. speaker' \in Seq(Nat) /\ Len(speaker') <= RingSize /\ left' \in 0 .. MaxYield
    <3>1. ASSUME Len(speaker) < RingSize
          PROVE  /\ Append(speaker, produced - left) \in Seq(Nat)
                 /\ Len(Append(speaker, produced - left)) = Len(speaker) + 1
      <4>1. produced - left \in Nat /\ speaker \in Seq(Nat)
        BY Sizes DEF DevicesTypeOK
      <4> QED BY <4>1, Longer
    <3> QED BY <1>0, <1>8, <3>1, Sizes DEF Push, DevicesTypeOK
  <2> QED BY <1>8, <2>1 DEF Push, DevicesTypeOK, microphone, resampler, processing
<1>9. CASE Drain
  BY <1>9, DrainTyped DEF Drain
<1>10. CASE Drained
  <2>1. <<>> \in Seq(Samples) /\ Len(<<>>) = 0 /\ scratch \in Seq(Samples)
    BY DEF DevicesTypeOK
  <2>2. MicTyped'
    BY <1>10, <2>1, Pushing, DeviceParts DEF Drained
  <2> QED BY <1>10, <2>1, <2>2, Sizes
      DEF Drained, DevicesTypeOK, MicTyped, microphone, processing, playback
<1>11. CASE EncodeFrame \/ EncodeFails
  <2>1. TakeFrame /\ gain' \in 0 .. Open /\ hush' \in Nat /\ metered' \in 0 .. EmitEvery - 1
        /\ pending' \in Nat
    <3>1. TakeFrame
      BY <1>11 DEF EncodeFrame, EncodeFails
    <3>2. pending' \in Nat /\ metered' \in 0 .. EmitEvery - 1
      <4>1. /\ pending >= FrameSize /\ pending' = pending - FrameSize
            /\ metered' = IF metered + FrameSize < EmitEvery THEN metered + FrameSize ELSE 0
        BY <3>1 DEF TakeFrame, Meter
      <4>2. pending \in Nat /\ metered \in 0 .. EmitEvery - 1
        BY DEF DevicesTypeOK
      <4> QED BY <4>1, <4>2, Sizes
    <3>3. gain \in 0 .. Open /\ hush \in Nat /\ gain + AttackStep * FrameSize \in Nat
      <4>1. AttackStep * FrameSize \in Nat
        BY Sizes, Product
      <4>2. gain \in 0 .. Open /\ hush \in Nat /\ gain \in Nat
        BY Sizes DEF DevicesTypeOK
      <4> QED BY <4>1, <4>2
    <3>4. ASSUME NEW loud \in BOOLEAN, Gate(loud) PROVE gain' \in 0 .. Open /\ hush' \in Nat
      BY <3>3, <3>4, Sizes DEF Gate, Smaller, Less
    <3> QED BY <3>1, <3>2, <3>3, <3>4 DEF TakeFrame
  <2>2. /\ sent' \in 0 .. TransportSize /\ phase' \in {"control", "receive", "drain", "encode"}
        /\ failed' \in BOOLEAN
    <3>1. /\ failed \in BOOLEAN /\ sent \in 0 .. TransportSize
          /\ phase \in {"control", "receive", "drain", "encode"}
      BY DEF DevicesTypeOK
    <3>2. CASE EncodeFrame
      BY <3>1, <3>2, Sizes DEF EncodeFrame
    <3>3. CASE EncodeFails
      BY <3>1, <3>3, Sizes DEF EncodeFails
    <3> QED BY <1>11, <3>2, <3>3
  <2>3. UNCHANGED <<microphone, ring, scratch, mono, torn, blended, resampled, gated, playback,
                  commands>>
    BY <1>11 DEF EncodeFrame, EncodeFails
  <2> QED BY <2>1, <2>2, <2>3 DEF DevicesTypeOK, microphone, playback
<1>12. CASE Encoded
  BY <1>12 DEF Encoded, DevicesTypeOK, microphone, resampler, processing, playback
<1>13. CASE Transmit
  BY <1>13, Sizes DEF Transmit, DevicesTypeOK, microphone, resampler, processing, playback
<1>14. CASE UNCHANGED deviceVars
  BY <1>14 DEF deviceVars, DevicesTypeOK, microphone, resampler, processing, playback
<1> QED BY <1>1, <1>2, <1>3, <1>4, <1>5, <1>6, <1>7, <1>8, <1>9, <1>10, <1>11, <1>12,
           <1>13, <1>14 DEF DevicesNext

-----------------------------------------------------------------------------
(* What the steps of AudioDevices do to the samples.                       *)

(* The samples between the callback and the downmix, oldest first: those   *)
(* drained, then those still in the ring.                                  *)
Gathered == scratch \o ring

(* The scratch is empty outside the drain, nothing is drained, encoded or  *)
(* pending without a microphone, and only a failed tick leaves a frame     *)
(* behind.                                                                 *)
PhaseInv ==
  /\ scratch # <<>> => phase = "drain"
  /\ phase \in {"drain", "encode"} => capture
  /\ ~capture => pending = 0
  /\ phase = "control" => pending < FrameSize \/ failed

(* The playback ring rises, between what was played and what               *)
(* Playback::push has still to push.                                       *)
SpeakerInv ==
  /\ left <= produced /\ played <= produced - left /\ Rising(speaker)
  /\ \A i \in DOMAIN speaker : played <= speaker[i] /\ speaker[i] < produced - left

(* The gathered samples rise, below the one that comes next.               *)
OrderInv ==
  Rising(Gathered) /\ \A i \in DOMAIN Gathered : Gathered[i] < next

(* As long as no sample was lost, the gathered samples are consecutive and *)
(* begin where the downmix stopped, at a whole device frame.               *)
WholeInv ==
  overflowed = 0 /\ torn = 0 =>
    ~blended /\ \A i \in DOMAIN Gathered : Gathered[i] = Used + (i - 1)

(* What a step does to the gathered samples: nothing, a sample that the    *)
(* full ring drops, one it takes, a piece that the resampler takes from    *)
(* the front, a new microphone.                                            *)
Resting == UNCHANGED <<mono, torn, blended, resampled>>
Gathers ==
  \/ Gathered' = Gathered /\ UNCHANGED <<next, overflowed>> /\ Resting
  \/ Gathered' = Gathered /\ next' = next + 1 /\ overflowed' = overflowed + 1 /\ Resting
  \/ /\ Gathered' = Append(Gathered, next) /\ next' = next + 1 /\ next \in Samples
     /\ UNCHANGED overflowed /\ Resting
  \/ /\ UNCHANGED <<next, overflowed>>
     /\ \E s \in Seq(Samples) : PushSamples(s) /\ Gathered = s \o Gathered'
  \/ /\ Gathered' = <<>> /\ next' = 0 /\ overflowed' = 0
     /\ mono' = 0 /\ torn' = 0 /\ blended' = FALSE /\ resampled' = 0

LEMMA GatheredTyped ==
  ASSUME DevicesTypeOK
  PROVE  /\ Gathered \in Seq(Samples) /\ Len(Gathered) \in Nat
         /\ Len(Gathered) = Len(scratch) + Len(ring)
         /\ DOMAIN Gathered = 1 .. Len(Gathered)
BY DEF DevicesTypeOK, Gathered

(* A sample that passes from the ring to the scratch leaves them together  *)
(* as they were.                                                           *)
LEMMA Passing ==
  ASSUME NEW S, NEW p \in Seq(S), NEW q \in Seq(S), q # <<>>
  PROVE  Append(p, Head(q)) \o Tail(q) = p \o q
<1>1. Head(q) \in S /\ <<Head(q)>> \in Seq(S) /\ Tail(q) \in Seq(S)
  BY Shorter
<1>2. Append(p, Head(q)) = p \o <<Head(q)>>
  BY <1>1, AppendIsConcat
<1>3. (p \o <<Head(q)>>) \o Tail(q) = p \o (<<Head(q)>> \o Tail(q))
  BY <1>1, ConcatAssociative
<1>4. <<Head(q)>> \o Tail(q) = q
  OBVIOUS
<1> QED BY <1>2, <1>3, <1>4

LEMMA GatherStep ==
  ASSUME DevicesTypeOK, PhaseInv, [DevicesNext]_deviceVars
  PROVE  Gathers
<1>0. ring \in Seq(Samples) /\ scratch \in Seq(Samples)
  BY DEF DevicesTypeOK
<1>1. CASE Deliver
  <2>1. next \in Samples
    BY <1>1, Sizes DEF Deliver, DevicesTypeOK, Samples
  <2>2. CASE Len(ring) < RingSize
    <3>1. Append(ring, next) = ring \o <<next>> /\ <<next>> \in Seq(Samples)
      BY <1>0, <2>1, AppendIsConcat
    <3>2. scratch \o (ring \o <<next>>) = (scratch \o ring) \o <<next>>
      BY <1>0, <3>1, ConcatAssociative
    <3>3. (scratch \o ring) \in Seq(Samples)
      BY <1>0, ConcatProperties
    <3>4. (scratch \o ring) \o <<next>> = Append(scratch \o ring, next)
      BY <2>1, <3>3, AppendIsConcat
    <3>5. /\ ring' = Append(ring, next) /\ scratch' = scratch /\ next' = next + 1
          /\ overflowed' = overflowed
      BY <1>1, <2>2 DEF Deliver
    <3>6. Gathered' = Append(Gathered, next)
      BY <3>1, <3>2, <3>4, <3>5 DEF Gathered
    <3> QED BY <1>1, <2>1, <3>5, <3>6 DEF Gathers, Deliver, resampler, Resting
  <2>3. CASE ~(Len(ring) < RingSize)
    BY <1>1, <2>3 DEF Gathers, Deliver, Gathered, resampler, Resting
  <2> QED BY <2>2, <2>3
<1>2. CASE Drain
  <2>1. /\ Append(scratch, Head(ring)) \o Tail(ring) = Gathered
        /\ Append(scratch, Head(ring)) \in Seq(Samples)
        /\ Tail(ring) \in Seq(Samples)
    BY <1>0, <1>2, Passing, Shorter, Longer DEF Drain, Gathered
  <2>2. UNCHANGED <<next, overflowed>> /\ ring' = Tail(ring)
    BY <1>2 DEF Drain, microphone
  <2>3. CASE scratch' = <<>> /\ PushSamples(Append(scratch, Head(ring)))
    <3>1. Gathered' = Tail(ring)
      <4>1. <<>> \o Tail(ring) = Tail(ring)
        BY <2>1, ConcatEmptySeq
      <4> QED BY <2>2, <2>3, <4>1 DEF Gathered
    <3> QED BY <2>1, <2>2, <2>3, <3>1 DEF Gathers
  <2>4. CASE scratch' = Append(scratch, Head(ring)) /\ UNCHANGED resampler
    BY <2>1, <2>2, <2>4 DEF Gathers, resampler, Gathered, Resting
  <2> QED BY <1>2, <2>3, <2>4 DEF Drain
<1>3. CASE Drained
  <2>1. /\ UNCHANGED <<next, overflowed>> /\ ring = <<>> /\ ring' = <<>> /\ scratch' = <<>>
        /\ PushSamples(scratch)
    BY <1>3 DEF Drained, microphone
  <2>2. Gathered' = <<>>
    <3>1. <<>> \o <<>> = <<>>
      OBVIOUS
    <3> QED BY <2>1, <3>1 DEF Gathered
  <2>3. Gathered = scratch \o <<>>
    BY <2>1 DEF Gathered
  <2> QED BY <1>0, <2>1, <2>2, <2>3 DEF Gathers
<1>4. CASE SwitchInput
  <2>1. scratch = <<>>
    BY <1>4 DEF SwitchInput, PhaseInv
  <2>2. <<>> \o <<>> = <<>>
    OBVIOUS
  <2> QED BY <1>4, <2>1, <2>2 DEF SwitchInput, NewMicrophone, NewResampler, Gathers, Gathered
<1>5. CASE EncodeFrame \/ EncodeFails
  BY <1>5 DEF EncodeFrame, EncodeFails, Gathers, Gathered, microphone, Resting
<1>6. CASE \/ Play \/ SwitchOutput \/ SetProcessing \/ ControlDrained \/ FlushMix \/ Push
           \/ ReceiveFails \/ ReceivedAll \/ Encoded \/ Transmit \/ UNCHANGED deviceVars
  BY <1>6 DEF Play, SwitchOutput, SetProcessing, ControlDrained, FlushMix, Push, ReceiveFails,
              ReceivedAll, Encoded, Transmit, deviceVars, Gathers, Gathered, microphone,
              resampler, Resting
<1> QED BY <1>1, <1>2, <1>3, <1>4, <1>5, <1>6 DEF DevicesNext

(* The inductive invariant.                                                *)
DevicesInv ==
  /\ DevicesTypeOK /\ SamplesAddUp /\ PhaseInv /\ SpeakerInv /\ OrderInv /\ WholeInv
  /\ GateFades

(* What the steps below need of the types, in a form that can be primed.   *)
Counts ==
  /\ Gathered \in Seq(Samples) /\ Len(Gathered) \in Nat /\ DOMAIN Gathered = 1 .. Len(Gathered)
  /\ Used \in Nat /\ overflowed \in Nat /\ torn \in Nat /\ next \in Nat /\ blended \in BOOLEAN
  /\ SamplesAddUp <=> next = overflowed + Len(Gathered) + Used

LEMMA CountsHold == DevicesTypeOK => Counts
<1> SUFFICES ASSUME DevicesTypeOK PROVE Counts
  OBVIOUS
<1>1. /\ overflowed \in Nat /\ torn \in Nat /\ next \in Nat /\ blended \in BOOLEAN
      /\ Len(scratch) \in Nat /\ Len(ring) \in Nat
  BY DEF DevicesTypeOK
<1> QED BY <1>1, AddUpUsed, GatheredTyped, SamplesTyped DEF Counts

-----------------------------------------------------------------------------
(* No sample is lost unknown.                                              *)

LEMMA AddUpStep ==
  ASSUME DevicesTypeOK, DevicesTypeOK', SamplesAddUp, Gathers
  PROVE  SamplesAddUp'
<1>1. Counts /\ Counts'
  <2>1. (DevicesTypeOK => Counts)'
    BY CountsHold, PTL
  <2> QED BY <2>1, CountsHold
<1>2. next = overflowed + Len(Gathered) + Used
  BY <1>1 DEF Counts
<1> SUFFICES next' = overflowed' + Len(Gathered') + Used'
  BY <1>1 DEF Counts
<1>3. /\ Len(Gathered) \in Nat /\ Len(Gathered') \in Nat /\ Used \in Nat /\ Used' \in Nat
      /\ overflowed \in Nat /\ next \in Nat /\ Gathered \in Seq(Samples) /\ Gathered' \in Seq(Samples)
  BY <1>1 DEF Counts
<1>4. Resting => Used' = Used
  BY DEF Resting, Used
<1>5. CASE Gathered' = Gathered /\ UNCHANGED <<next, overflowed>> /\ Resting
  BY <1>2, <1>4, <1>5
<1>6. CASE Gathered' = Gathered /\ next' = next + 1 /\ overflowed' = overflowed + 1 /\ Resting
  BY <1>2, <1>3, <1>4, <1>6
<1>7. CASE /\ Gathered' = Append(Gathered, next) /\ next' = next + 1 /\ next \in Samples
           /\ UNCHANGED overflowed /\ Resting
  <2>1. Len(Gathered') = Len(Gathered) + 1
    BY <1>3, <1>7, Longer
  <2> QED BY <1>2, <1>3, <1>4, <1>7, <2>1
<1>8. CASE /\ UNCHANGED <<next, overflowed>>
           /\ \E s \in Seq(Samples) : PushSamples(s) /\ Gathered = s \o Gathered'
  <2>1. PICK s \in Seq(Samples) : PushSamples(s) /\ Gathered = s \o Gathered'
    BY <1>8
  <2>2. Len(Gathered) = Len(s) + Len(Gathered') /\ Len(s) \in Nat
    BY <1>3, <2>1, ConcatProperties
  <2>3. Used' = Used + Len(s)
    BY <2>1, Pushing, DeviceParts
  <2> QED BY <1>2, <1>3, <1>8, <2>2, <2>3
<1>9. CASE /\ Gathered' = <<>> /\ next' = 0 /\ overflowed' = 0
           /\ mono' = 0 /\ torn' = 0 /\ blended' = FALSE /\ resampled' = 0
  <2>1. Used' = 0
    BY <1>9, Sizes DEF Used
  <2> QED BY <1>9, <2>1
<1> QED BY <1>5, <1>6, <1>7, <1>8, <1>9 DEF Gathers

-----------------------------------------------------------------------------
(* The channels and the order of the samples.                              *)

(* Rising sequences: Append of something greater, and a part of one.       *)
LEMMA Ascending ==
  ASSUME NEW s \in Seq(Nat)
  PROVE  Rising(s) <=> \A i, j \in 1 .. Len(s) : i < j => s[i] < s[j]
<1>1. DOMAIN s = 1 .. Len(s)
  OBVIOUS
<1> QED BY <1>1 DEF Rising

LEMMA RisingAppend ==
  ASSUME NEW s \in Seq(Nat), NEW e \in Nat, Rising(s), \A i \in 1 .. Len(s) : s[i] < e
  PROVE  Rising(Append(s, e))
<1>1. /\ Append(s, e) \in Seq(Nat) /\ Len(s) \in Nat /\ Len(Append(s, e)) = Len(s) + 1
      /\ Append(s, e)[Len(s) + 1] = e /\ \A j \in 1..Len(s) : Append(s, e)[j] = s[j]
  BY Longer
<1>2. ASSUME NEW i \in 1 .. Len(s) + 1, NEW j \in 1 .. Len(s) + 1, i < j
      PROVE  Append(s, e)[i] < Append(s, e)[j]
  <2>1. i \in 1 .. Len(s)
    BY <1>1, <1>2
  <2>2. CASE j \in 1 .. Len(s)
    BY <1>1, <1>2, <2>1, <2>2, Ascending
  <2>3. CASE j = Len(s) + 1
    BY <1>1, <2>1, <2>3
  <2> QED BY <1>1, <2>2, <2>3
<1> QED BY <1>1, <1>2, Ascending

LEMMA RisingPart ==
  ASSUME NEW s \in Seq(Nat), NEW t \in Seq(Nat), Rising(s \o t)
  PROVE  Rising(t) /\ \A i \in 1 .. Len(t) : /\ Len(s) + i \in 1 .. Len(s \o t)
                                             /\ t[i] = (s \o t)[Len(s) + i]
<1> DEFINE u == s \o t
<1>1. /\ u \in Seq(Nat) /\ Len(u) = Len(s) + Len(t) /\ Len(s) \in Nat /\ Len(t) \in Nat
      /\ \A i \in 1 .. Len(s) + Len(t) : u[i] = IF i <= Len(s) THEN s[i] ELSE t[i - Len(s)]
  BY ConcatProperties
<1> HIDE DEF u
<1>2. ASSUME NEW i \in 1 .. Len(t) PROVE Len(s) + i \in 1 .. Len(u) /\ t[i] = u[Len(s) + i]
  <2>1. Len(s) + i \in 1 .. Len(s) + Len(t) /\ ~(Len(s) + i <= Len(s)) /\ Len(s) + i - Len(s) = i
    BY <1>1, <1>2
  <2> QED BY <1>1, <2>1
<1>3. ASSUME NEW i \in 1 .. Len(t), NEW j \in 1 .. Len(t), i < j PROVE t[i] < t[j]
  <2>1. Len(s) + i < Len(s) + j
    BY <1>1, <1>3
  <2>2. Rising(u)
    BY DEF u
  <2>3. u[Len(s) + i] < u[Len(s) + j]
    BY <1>1, <1>2, <2>1, <2>2, Ascending
  <2> QED BY <1>2, <2>3
<1>4. Rising(t)
  BY <1>3, Ascending
<1> QED BY <1>2, <1>4 DEF u

LEMMA Multiple ==
  ASSUME NEW a \in Nat, NEW b \in Nat \ {0}
  PROVE  (b * a) % b = 0
OBVIOUS

LEMMA NatSamples == Seq(Samples) \subseteq Seq(Nat)
<1>1. Samples \subseteq Nat
  BY Sizes DEF Samples
<1>2. ASSUME NEW s \in Seq(Samples) PROVE s \in Seq(Nat)
  BY <1>1, SeqMonotonic
<1> QED BY <1>2

(* What the downmix makes of samples in a row. *)
(* Consecutive samples that begin a device frame are downmixed by whole    *)
(* device frames.                                                          *)
LEMMA DownmixWhole ==
  ASSUME NEW s \in Seq(Nat), NEW base \in Nat, \A i \in 1 .. Len(s) : s[i] = Channels * base + (i - 1),
         NEW k \in DOMAIN Downmix(s)
  PROVE  Whole(Downmix(s)[k])
<1> DEFINE n == Len(s) \div Channels
           sample == Downmix(s)[k]
           at == (k - 1) * Channels
<1>1. n \in Nat /\ n * Channels <= Len(s) /\ Len(s) \in Nat
  <2>1. Len(s) \in Nat
    OBVIOUS
  <2>2. /\ n \in Nat /\ Len(s) % Channels \in 0 .. Channels - 1
        /\ Len(s) = Channels * n + (Len(s) % Channels)
    BY <2>1, Division, Sizes
  <2>3. Channels * n \in Nat /\ Channels * n = n * Channels
    BY <2>2, Sizes
  <2> HIDE DEF n
  <2> QED BY <2>1, <2>2, <2>3, Sizes
<1>2. k \in 1 .. n /\ sample = SubSeq(s, at + 1, k * Channels)
  BY DEF Downmix
<1> HIDE DEF n, sample
<1>3. /\ at \in Nat /\ k * Channels = at + Channels /\ at + Channels <= n * Channels
      /\ at = Channels * (k - 1)
  <2>1. k - 1 \in Nat /\ n - k \in Nat /\ k \in Nat
    BY <1>1, <1>2
  <2>2. at \in Nat /\ at = Channels * (k - 1)
    BY <2>1, Sizes
  <2>3. k * Channels = at + Channels
    BY <2>1, Sizes
  <2>4. n * Channels = k * Channels + (n - k) * Channels /\ (n - k) * Channels \in Nat
    BY <1>1, <2>1, Sizes
  <2> HIDE DEF at
  <2> QED BY <2>2, <2>3, <2>4, Sizes
<1> HIDE DEF at
<1>4. ASSUME NEW c \in 1 .. Channels
      PROVE  sample[c] = Channels * base + at + (c - 1)
  <2>1. at + c \in 1 .. Len(s)
    BY <1>1, <1>3, Sizes, Product
  <2>2. \A i \in at + 1 .. at + Channels : s[i] \in Nat
    <3>1. ASSUME NEW i \in at + 1 .. at + Channels PROVE s[i] \in Nat
      <4>1. i \in 1 .. Len(s)
        BY <1>1, <1>3, Sizes, Product
      <4> QED BY <4>1
    <3> QED BY <3>1
  <2>3. /\ at + 1 \in Int /\ at + Channels \in Int /\ c \in 1 .. (at + Channels) - (at + 1) + 1
        /\ (at + 1) + c - 1 = at + c
    BY <1>3, Sizes
  <2>4. SubSeq(s, at + 1, at + Channels)[c] = s[at + c]
    BY <2>2, <2>3, SubSeqProperties
  <2>5. sample[c] = s[at + c]
    BY <1>2, <1>3, <2>4
  <2>6. s[at + c] = Channels * base + ((at + c) - 1)
    BY <2>1
  <2>7. Channels * base \in Nat
    BY Sizes, Product
  <2> QED BY <1>3, <2>5, <2>6, <2>7
<1>5. Channels * base \in Nat /\ 1 \in 1 .. Channels
  BY Sizes, Product
<1>6. sample[1] = Channels * base + at
  BY <1>3, <1>4, <1>5
<1>7. sample[1] % Channels = 0
  <2>1. Channels * base + at = Channels * (base + (k - 1)) /\ base + (k - 1) \in Nat
    BY <1>2, <1>3, Sizes, <1>1
  <2> QED BY <1>6, <2>1, Multiple, Sizes
<1>8. \A c \in 1 .. Channels : sample[c] = sample[1] + (c - 1)
  BY <1>4, <1>6
<1> QED BY <1>7, <1>8 DEF Whole, sample

(* While nothing is lost every piece begins a device frame: the ones       *)
(* before it used a multiple of Channels.                                  *)
LEMMA WholeStep ==
  ASSUME DevicesTypeOK, DevicesTypeOK', SamplesAddUp, WholeInv, Gathers
  PROVE  WholeInv'
<1>1. Counts /\ Counts'
  <2>1. (DevicesTypeOK => Counts)'
    BY CountsHold, PTL
  <2> QED BY <2>1, CountsHold
<1>2. next = overflowed + Len(Gathered) + Used
  BY <1>1 DEF Counts
<1>3. /\ Len(Gathered) \in Nat /\ Len(Gathered') \in Nat /\ Used \in Nat /\ Used' \in Nat
      /\ overflowed \in Nat /\ next \in Nat /\ torn \in Nat
      /\ Gathered \in Seq(Samples) /\ Gathered' \in Seq(Samples)
      /\ DOMAIN Gathered = 1 .. Len(Gathered) /\ DOMAIN Gathered' = 1 .. Len(Gathered')
  BY <1>1 DEF Counts
<1>4. Resting => Used' = Used /\ blended' = blended /\ torn' = torn
  BY DEF Resting, Used
<1> SUFFICES ASSUME overflowed' = 0, torn' = 0
             PROVE  ~blended' /\ \A i \in 1 .. Len(Gathered') : Gathered'[i] = Used' + (i - 1)
  BY <1>3 DEF WholeInv
<1>5. CASE Gathered' = Gathered /\ UNCHANGED <<next, overflowed>> /\ Resting
  BY <1>3, <1>4, <1>5 DEF WholeInv
<1>6. CASE Gathered' = Gathered /\ next' = next + 1 /\ overflowed' = overflowed + 1 /\ Resting
  BY <1>3, <1>6
<1>7. CASE /\ Gathered' = Append(Gathered, next) /\ next' = next + 1 /\ next \in Samples
           /\ UNCHANGED overflowed /\ Resting
  <2>1. /\ Len(Gathered') = Len(Gathered) + 1 /\ Gathered'[Len(Gathered) + 1] = next
        /\ \A j \in 1 .. Len(Gathered) : Gathered'[j] = Gathered[j]
    BY <1>3, <1>7, Longer
  <2>2. ~blended /\ \A i \in 1 .. Len(Gathered) : Gathered[i] = Used + (i - 1)
    BY <1>3, <1>4, <1>7 DEF WholeInv
  <2>3. next = Used + Len(Gathered)
    BY <1>2, <1>3, <1>7
  <2> QED BY <1>3, <1>4, <1>7, <2>1, <2>2, <2>3
<1>8. CASE /\ UNCHANGED <<next, overflowed>>
           /\ \E s \in Seq(Samples) : PushSamples(s) /\ Gathered = s \o Gathered'
  <2>1. PICK s \in Seq(Samples) : PushSamples(s) /\ Gathered = s \o Gathered'
    BY <1>8
  <2>2. /\ Len(Gathered) = Len(s) + Len(Gathered') /\ Len(s) \in Nat
        /\ \A i \in 1 .. Len(s) + Len(Gathered') :
             Gathered[i] = IF i <= Len(s) THEN s[i] ELSE Gathered'[i - Len(s)]
    BY <1>3, <2>1, ConcatProperties
  <2>3. Used' = Used + Len(s)
    BY <2>1, Pushing, DeviceParts
  <2>4. torn = 0
    <3>1. torn' = torn + (Len(s) % Channels) /\ Len(s) % Channels \in 0 .. Channels - 1
      BY <2>1, <2>2, Division, Sizes DEF PushSamples
    <3> QED BY <1>3, <3>1, Sizes
  <2>5. ~blended /\ \A i \in 1 .. Len(Gathered) : Gathered[i] = Used + (i - 1)
    BY <1>3, <1>8, <2>4 DEF WholeInv
  <2>6. ASSUME NEW i \in 1 .. Len(Gathered') PROVE Gathered'[i] = Used' + (i - 1)
    <3>1. /\ Len(s) + i \in 1 .. Len(s) + Len(Gathered') /\ ~(Len(s) + i <= Len(s))
          /\ (Len(s) + i) - Len(s) = i
      BY <1>3, <2>2
    <3>2. Gathered'[i] = Gathered[Len(s) + i]
      BY <2>2, <3>1
    <3> QED BY <1>3, <2>2, <2>3, <2>5, <3>1, <3>2
  <2>7. PICK base \in Nat : base = mono + resampled
    BY Sizes DEF DevicesTypeOK
  <2>8. Used = Channels * base
    <3>1. Channels * base \in Nat
      BY Sizes, Product
    <3>2. Used = 0 + Channels * base
      BY <2>4, <2>7 DEF Used
    <3> QED BY <3>1, <3>2
  <2>9. \A i \in 1 .. Len(s) : s[i] = Channels * base + (i - 1)
    <3>1. \A i \in 1 .. Len(s) : s[i] = Used + (i - 1)
      BY <1>3, <2>2, <2>5
    <3> QED BY <2>8, <3>1
  <2>10. \A k \in DOMAIN Downmix(s) : Whole(Downmix(s)[k])
    <3>1. s \in Seq(Nat)
      BY NatSamples
    <3> QED BY <2>9, <3>1, DownmixWhole
  <2>11. ~blended'
    BY <2>1, <2>5, <2>10 DEF PushSamples
  <2> QED BY <2>6, <2>11
<1>9. CASE /\ Gathered' = <<>> /\ next' = 0 /\ overflowed' = 0
           /\ mono' = 0 /\ torn' = 0 /\ blended' = FALSE /\ resampled' = 0
  BY <1>9
<1> QED BY <1>5, <1>6, <1>7, <1>8, <1>9 DEF Gathers

LEMMA OrderStep ==
  ASSUME DevicesTypeOK, DevicesTypeOK', SamplesAddUp, OrderInv, Gathers
  PROVE  OrderInv'
<1>1. Counts /\ Counts'
  <2>1. (DevicesTypeOK => Counts)'
    BY CountsHold, PTL
  <2> QED BY <2>1, CountsHold
<1>2. /\ Len(Gathered) \in Nat /\ Len(Gathered') \in Nat /\ next \in Nat
      /\ Gathered \in Seq(Samples) /\ Gathered' \in Seq(Samples)
      /\ Gathered \in Seq(Nat) /\ Gathered' \in Seq(Nat)
      /\ DOMAIN Gathered = 1 .. Len(Gathered) /\ DOMAIN Gathered' = 1 .. Len(Gathered')
  BY <1>1, NatSamples DEF Counts
<1>3. Rising(Gathered) /\ \A i \in 1 .. Len(Gathered) : Gathered[i] \in Nat /\ Gathered[i] < next
  <2>1. \A i \in 1 .. Len(Gathered) : Gathered[i] \in Nat
    BY <1>2, ElementOfSeq
  <2> QED BY <1>2, <2>1 DEF OrderInv
<1> SUFFICES Rising(Gathered') /\ \A i \in 1 .. Len(Gathered') : Gathered'[i] < next'
  BY <1>2 DEF OrderInv, Rising
<1>4. CASE Gathered' = Gathered /\ next' \in {next, next + 1}
  BY <1>2, <1>3, <1>4
<1>5. CASE Gathered' = Append(Gathered, next) /\ next' = next + 1 /\ next \in Samples
  <2>1. /\ Len(Gathered') = Len(Gathered) + 1 /\ Gathered'[Len(Gathered) + 1] = next
        /\ \A j \in 1 .. Len(Gathered) : Gathered'[j] = Gathered[j]
    BY <1>2, <1>5, Longer
  <2>2. Rising(Gathered')
    BY <1>2, <1>3, <1>5, RisingAppend
  <2> QED BY <1>2, <1>3, <1>5, <2>1, <2>2
<1>6. CASE next' = next /\ \E s \in Seq(Samples) : PushSamples(s) /\ Gathered = s \o Gathered'
  <2>1. PICK s \in Seq(Nat) : Gathered = s \o Gathered'
    BY <1>6, NatSamples
  <2>2. Rising(Gathered') /\ \A i \in 1 .. Len(Gathered') : /\ Len(s) + i \in 1 .. Len(Gathered)
                                                            /\ Gathered'[i] = Gathered[Len(s) + i]
    BY <1>2, <1>3, <2>1, RisingPart
  <2> QED BY <1>3, <1>6, <2>2
<1>7. CASE Gathered' = <<>>
  BY <1>7 DEF Rising
<1> QED BY <1>4, <1>5, <1>6, <1>7 DEF Gathers

-----------------------------------------------------------------------------
(* The phases, the playback ring and the noise gate.                       *)

LEMMA PhaseStep ==
  ASSUME DevicesTypeOK, PhaseInv, [DevicesNext]_deviceVars
  PROVE  PhaseInv'
<1>0. 0 < FrameSize
  BY Sizes
<1>1. CASE SwitchInput
  BY <1>0, <1>1 DEF SwitchInput, NewMicrophone, NewResampler, PhaseInv
<1>2. CASE Drain
  <2>1. phase' = "drain" /\ phase = "drain" /\ capture' = capture
    BY <1>2 DEF Drain, microphone
  <2> QED BY <2>1 DEF PhaseInv
<1>3. CASE Drained
  <2>1. phase' = "encode" /\ phase = "drain" /\ capture' = capture /\ scratch' = <<>>
    BY <1>3 DEF Drained, microphone
  <2> QED BY <2>1 DEF PhaseInv
<1>4. CASE EncodeFrame \/ EncodeFails
  <2>1. /\ phase = "encode" /\ scratch' = scratch /\ capture' = capture
        /\ phase' = "encode" \/ (phase' = "control" /\ failed' = TRUE)
    BY <1>4 DEF EncodeFrame, EncodeFails, TakeFrame, microphone
  <2> QED BY <2>1 DEF PhaseInv
<1>5. CASE ReceiveFails \/ ReceivedAll
  <2>1. /\ phase = "receive" /\ scratch' = scratch /\ capture' = capture /\ pending' = pending
        /\ \/ phase' = "control" /\ failed' = TRUE
           \/ phase' = "control" /\ ~capture
           \/ phase' = "drain" /\ capture
    BY <1>5 DEF ReceiveFails, ReceivedAll, microphone, resampler
  <2> QED BY <1>0, <2>1 DEF PhaseInv
<1>6. CASE Encoded
  BY <1>6 DEF Encoded, microphone, resampler, PhaseInv
<1>7. CASE Deliver
  BY <1>7 DEF Deliver, resampler, PhaseInv
<1>8. CASE ControlDrained
  BY <1>8 DEF ControlDrained, microphone, resampler, PhaseInv
<1>9. CASE \/ Play \/ SwitchOutput \/ SetProcessing \/ FlushMix \/ Push \/ Transmit
           \/ UNCHANGED deviceVars
  BY <1>9 DEF Play, SwitchOutput, SetProcessing, FlushMix, Push, Transmit, deviceVars, microphone,
              resampler, PhaseInv
<1> QED BY <1>1, <1>2, <1>3, <1>4, <1>5, <1>6, <1>7, <1>8, <1>9 DEF DevicesNext

LEMMA SpeakerStep ==
  ASSUME DevicesTypeOK, SpeakerInv, [DevicesNext]_deviceVars
  PROVE  SpeakerInv'
<1>0. /\ speaker \in Seq(Nat) /\ Len(speaker) \in Nat /\ DOMAIN speaker = 1 .. Len(speaker)
      /\ left \in Nat /\ produced \in Nat /\ played \in Nat /\ produced - left \in Nat
      /\ \A i \in 1 .. Len(speaker) : speaker[i] \in Nat
  <2>1. speaker \in Seq(Nat) /\ left \in Nat /\ produced \in Nat /\ played \in Nat
    BY Sizes DEF DevicesTypeOK
  <2> QED BY <2>1, ElementOfSeq DEF SpeakerInv
<1>1. CASE Play
  <2>1. /\ Tail(speaker) \in Seq(Nat) /\ Len(Tail(speaker)) = Len(speaker) - 1
        /\ Head(speaker) = speaker[1]
        /\ \A j \in 1 .. Len(speaker) - 1 : Tail(speaker)[j] = speaker[j + 1]
    BY <1>0, <1>1, Shorter DEF Play
  <2>2. ASSUME NEW i \in 1 .. Len(speaker) - 1
        PROVE  /\ speaker[1] + 1 <= Tail(speaker)[i] /\ Tail(speaker)[i] < produced - left
    <3>1. i + 1 \in 1 .. Len(speaker) /\ 1 \in 1 .. Len(speaker) /\ 1 < i + 1
      BY <1>0, <2>2
    <3>2. speaker[1] < speaker[i + 1]
      BY <1>0, <3>1, Ascending DEF SpeakerInv
    <3> QED BY <1>0, <2>1, <3>1, <3>2 DEF SpeakerInv
  <2>3. ASSUME NEW i \in 1 .. Len(speaker) - 1, NEW j \in 1 .. Len(speaker) - 1, i < j
        PROVE  Tail(speaker)[i] < Tail(speaker)[j]
    <3>1. i + 1 \in 1 .. Len(speaker) /\ j + 1 \in 1 .. Len(speaker) /\ i + 1 < j + 1
      BY <1>0, <2>3
    <3>2. speaker[i + 1] < speaker[j + 1]
      BY <1>0, <3>1, Ascending DEF SpeakerInv
    <3> QED BY <2>1, <3>2
  <2>4. Rising(Tail(speaker))
    BY <2>1, <2>3, Ascending
  <2>5. DOMAIN Tail(speaker) = 1 .. Len(speaker) - 1
    BY <2>1
  <2>6. played' = speaker[1] + 1 /\ speaker' = Tail(speaker) /\ UNCHANGED <<left, produced>>
    BY <1>1, <2>1 DEF Play
  <2>7. played' <= produced' - left'
    <3>1. 1 \in 1 .. Len(speaker)
      BY <1>0, <1>1 DEF Play
    <3>2. speaker[1] \in Nat /\ speaker[1] < produced - left
      BY <1>0, <3>1 DEF SpeakerInv
    <3> QED BY <1>0, <2>6, <3>2
  <2> QED BY <2>2, <2>4, <2>5, <2>6, <2>7 DEF SpeakerInv, Rising
<1>2. CASE Push
  <2>1. left > 0 /\ left' = left - 1 /\ UNCHANGED <<produced, played>>
    BY <1>2 DEF Push
  <2>2. CASE speaker' = speaker
    BY <1>0, <2>1, <2>2 DEF SpeakerInv, Rising
  <2>3. CASE speaker' = Append(speaker, produced - left)
    <3>1. /\ Len(speaker') = Len(speaker) + 1 /\ speaker'[Len(speaker) + 1] = produced - left
          /\ (\A j \in 1 .. Len(speaker) : speaker'[j] = speaker[j]) /\ speaker' \in Seq(Nat)
      BY <1>0, <2>3, Longer
    <3>2. Rising(speaker')
      BY <1>0, <2>3, RisingAppend DEF SpeakerInv
    <3>3. played <= produced - left
      BY <1>0 DEF SpeakerInv
    <3> QED BY <1>0, <2>1, <3>1, <3>2, <3>3 DEF SpeakerInv
  <2> QED BY <1>2, <2>2, <2>3 DEF Push
<1>3. CASE FlushMix
  <2>1. left' \in Nat /\ produced' = produced + left' /\ left = 0 /\ UNCHANGED <<speaker, played>>
    BY <1>3, Sizes DEF FlushMix
  <2>2. produced' - left' = produced - left /\ left' <= produced'
    <3>1. ASSUME NEW p \in Nat, NEW l \in Nat PROVE (p + l) - l = p - 0 /\ l <= p + l
      OBVIOUS
    <3>2. produced \in Nat
      BY <1>0
    <3> QED BY <2>1, <3>1, <3>2
  <2>3. Rising(speaker')
    BY <2>1 DEF SpeakerInv
  <2>4. /\ played' <= produced' - left'
        /\ \A i \in DOMAIN speaker' : played' <= speaker'[i] /\ speaker'[i] < produced' - left'
    BY <2>1, <2>2 DEF SpeakerInv
  <2> QED BY <2>2, <2>3, <2>4 DEF SpeakerInv, Rising
<1>4. CASE SwitchOutput
  BY <1>4 DEF SwitchOutput, NewSpeaker, SpeakerInv, Rising
<1>5. CASE \/ Deliver \/ SwitchInput \/ SetProcessing \/ ControlDrained \/ ReceiveFails \/ ReceivedAll
           \/ Drain \/ Drained \/ EncodeFrame \/ EncodeFails \/ Encoded \/ Transmit
           \/ UNCHANGED deviceVars
  BY <1>5 DEF Deliver, SwitchInput, SetProcessing, ControlDrained, ReceiveFails, ReceivedAll,
              Drain, Drained, EncodeFrame, EncodeFails, Encoded, Transmit, deviceVars, playback, SpeakerInv, Rising
<1> QED BY <1>1, <1>2, <1>3, <1>4, <1>5 DEF DevicesNext

(* A fade by one frame more.                                               *)
LEMMA Fading ==
  ASSUME NEW h \in Nat
  PROVE  Less(Less(Open, h * FrameSize), FrameSize) = Less(Open, (h + 1) * FrameSize)
<1>1. h * FrameSize \in Nat /\ (h + 1) * FrameSize = h * FrameSize + FrameSize
  BY Sizes
<1> DEFINE x == h * FrameSize
<1> HIDE DEF x
<1>2. Less(Less(Open, x), FrameSize) = Less(Open, x + FrameSize)
  BY <1>1, Sizes DEF Less, x
<1> QED BY <1>1, <1>2 DEF x

LEMMA GateStep ==
  ASSUME DevicesTypeOK, GateFades, [DevicesNext]_deviceVars
  PROVE  GateFades'
<1>1. CASE EncodeFrame \/ EncodeFails
  <2>1. \/ UNCHANGED <<gain, hush>>
        \/ \E loud \in BOOLEAN : Gate(loud)
    BY <1>1 DEF EncodeFrame, EncodeFails, TakeFrame
  <2>2. ASSUME Gate(TRUE) PROVE GateFades'
    <3>1. /\ gain \in Nat /\ Open \in Nat /\ AttackStep * FrameSize \in Nat
          /\ Open <= AttackStep * FrameSize
      BY Sizes, Product, AudioDevicesAssumption DEF DevicesTypeOK
    <3>2. gain' = Open /\ hush' = 0
      BY <2>2, <3>1 DEF Gate, Smaller
    <3>3. 0 * FrameSize = 0 /\ Less(Open, 0) = Open
      BY Sizes DEF Less
    <3> QED BY <3>2, <3>3 DEF GateFades
  <2>3. ASSUME Gate(FALSE) PROVE GateFades'
    <3>1. gain' = Less(gain, FrameSize) /\ hush' = hush + 1 /\ hush \in Nat
      BY <2>3 DEF Gate, DevicesTypeOK
    <3>2. gain = Less(Open, hush * FrameSize)
      BY DEF GateFades
    <3>3. gain' = Less(Open, (hush + 1) * FrameSize)
      BY <3>1, <3>2, Fading
    <3> QED BY <3>1, <3>3 DEF GateFades
  <2>4. CASE UNCHANGED <<gain, hush>>
    BY <2>4 DEF GateFades
  <2> QED BY <2>1, <2>2, <2>3, <2>4
<1>2. CASE \/ Deliver \/ Play \/ SwitchInput \/ SwitchOutput \/ SetProcessing \/ ControlDrained
           \/ FlushMix \/ Push \/ ReceiveFails \/ ReceivedAll \/ Drain \/ Drained \/ Encoded
           \/ Transmit \/ UNCHANGED deviceVars
  BY <1>2 DEF Deliver, Play, SwitchInput, SwitchOutput, SetProcessing, ControlDrained, FlushMix, Push,
              ReceiveFails, ReceivedAll, Drain, Drained, Encoded, Transmit, deviceVars, processing,
              GateFades
<1> QED BY <1>1, <1>2 DEF DevicesNext

-----------------------------------------------------------------------------
(* The theorems about AudioDevices.                                        *)

LEMMA DevicesStart == DevicesInit => DevicesInv
<1> SUFFICES ASSUME DevicesInit PROVE DevicesInv
  OBVIOUS
<1>1. <<>> \in Seq(Samples) /\ <<>> \in Seq(Nat) /\ Len(<<>>) = 0 /\ <<>> \o <<>> = <<>> /\ Rising(<<>>)
  BY DEF Rising
<1>2. DevicesTypeOK
  <2>1. /\ 0 \in 0 .. MaxSamples /\ 0 \in 0 .. FrameSize - 1 /\ 0 \in 0 .. EmitEvery - 1
        /\ 0 \in 0 .. TransportSize /\ 0 \in 0 .. MaxYield /\ 0 \in 0 .. MaxMixed
        /\ 0 \in 0 .. MaxCommands /\ Open \in 0 .. Open
    BY Sizes
  <2>2. {capture, gated, blended, failed} \subseteq BOOLEAN
    BY DEF DevicesInit
  <2>3. Len(ring) <= RingSize /\ Len(scratch) < ScratchSize /\ Len(speaker) <= RingSize
    BY <1>1, Sizes DEF DevicesInit
  <2> QED BY <1>1, <2>1, <2>2, <2>3, Sizes DEF DevicesInit, DevicesTypeOK
<1>3. Gathered = <<>>
  BY <1>1 DEF Gathered, DevicesInit
<1>4. Used = 0
  BY Sizes DEF Used, DevicesInit
<1>5. SamplesAddUp
  BY <1>1, Sizes DEF SamplesAddUp, DevicesInit
<1>6. PhaseInv
  BY Sizes DEF PhaseInv, DevicesInit
<1>7. SpeakerInv
  BY <1>1 DEF SpeakerInv, DevicesInit
<1>8. OrderInv /\ WholeInv
  BY <1>1, <1>3 DEF OrderInv, WholeInv, DevicesInit
<1>9. GateFades
  BY Sizes DEF GateFades, DevicesInit, Less
<1> QED BY <1>2, <1>5, <1>6, <1>7, <1>8, <1>9 DEF DevicesInv

LEMMA DevicesKeep == DevicesInv /\ [DevicesNext]_deviceVars => DevicesInv'
<1> SUFFICES ASSUME DevicesInv, [DevicesNext]_deviceVars PROVE DevicesInv'
  OBVIOUS
<1>1. DevicesTypeOK /\ SamplesAddUp /\ PhaseInv /\ SpeakerInv /\ OrderInv /\ WholeInv /\ GateFades
  BY DEF DevicesInv
<1>2. DevicesTypeOK'
  BY <1>1, DevicesTypeStep DEF SpeakerInv
<1>3. Gathers
  BY <1>1, GatherStep
<1> QED BY <1>1, <1>2, <1>3, AddUpStep, PhaseStep, SpeakerStep, OrderStep, WholeStep, GateStep
        DEF DevicesInv

LEMMA DevicesAlways == DevicesSpec => []DevicesInv
<1> QED BY DevicesStart, DevicesKeep, PTL DEF DevicesSpec

(* Every variable of the devices and the audio thread keeps its type: no   *)
(* ring, scratch, queue or meter passes its size, whatever the sizes are   *)
(* (capture.rs, pipeline.rs, playback.rs).                                 *)
THEOREM DevicesTypeCorrect == DevicesSpec => []DevicesTypeOK
<1>1. DevicesInv => DevicesTypeOK
  BY DEF DevicesInv
<1> QED BY <1>1, DevicesAlways, PTL

(* downmix_to_mono_into (resampler.rs) never blends channels of two device *)
(* frames, for any number of channels, any sizes of the ring and the       *)
(* scratch and any timing of the callback, unless samples of this          *)
(* microphone were lost.                                                   *)
THEOREM ChannelsAreKept == DevicesSpec => []ChannelsStayTogether
<1>1. DevicesInv => ChannelsStayTogether
  <2> SUFFICES ASSUME DevicesInv PROVE ChannelsStayTogether
    OBVIOUS
  <2>1. overflowed \in Nat /\ torn \in Nat /\ (overflowed = 0 /\ torn = 0 => ~blended)
    BY DEF DevicesInv, DevicesTypeOK, WholeInv
  <2> QED BY <2>1 DEF ChannelsStayTogether
<1> QED BY <1>1, DevicesAlways, PTL

(* What the microphone delivers and what the speaker plays is late or      *)
(* lost, never repeated or out of order; every sample of the microphone is *)
(* accounted for; and a tick that does not fail leaves less than a frame   *)
(* pending (capture.rs, playback.rs, drain and capture_frames of           *)
(* pipeline.rs).                                                           *)
THEOREM SoundStaysWhole == DevicesSpec => []SoundIsWhole
<1>1. DevicesInv => SoundIsWhole
  <2> SUFFICES ASSUME DevicesInv PROVE SoundIsWhole
    OBVIOUS
  <2>1. NothingIsHeldBack
    BY DEF DevicesInv, PhaseInv, NothingIsHeldBack
  <2>2. SoundKeepsOrder
    <3>1. \A i \in DOMAIN speaker : speaker[i] < produced
      <4>1. /\ DOMAIN speaker = 1 .. Len(speaker) /\ left \in Nat /\ produced \in Nat
            /\ speaker \in Seq(Nat)
        BY Sizes DEF DevicesInv, DevicesTypeOK
      <4>2. \A i \in 1 .. Len(speaker) : speaker[i] \in Nat
        BY <4>1, ElementOfSeq
      <4> QED BY <4>1, <4>2 DEF DevicesInv, SpeakerInv
    <3> QED BY <3>1 DEF DevicesInv, SpeakerInv, OrderInv, Gathered, SoundKeepsOrder
  <2> QED BY <2>1, <2>2 DEF DevicesInv, SoundIsWhole
<1> QED BY <1>1, DevicesAlways, PTL

(* NoiseGate::process_frame (processor.rs) fades by its release only,      *)
(* however often SetProcessing switches it, as long as an attack opens it  *)
(* within a frame.                                                         *)
THEOREM GateKeepsFading == DevicesSpec => []GateFades
<1>1. DevicesInv => GateFades
  BY DEF DevicesInv
<1> QED BY <1>1, DevicesAlways, PTL
=============================================================================
