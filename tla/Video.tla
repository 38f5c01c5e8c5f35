-------------------------------- MODULE Video --------------------------------
(***************************************************************************)
(* One outgoing video of the native application and its way to one member: *)
(* the handlers that switch it on and off (app.rs), the capture thread     *)
(* (camera.rs, screen_share.rs) with its frame skipping (bitrate.rs) and   *)
(* its encoder, the loop that reads the member's RTCP (rtcp.rs) and the    *)
(* broadcast channel that takes it to the thread (mesh.rs), the send loop  *)
(* (bridge.rs) and the member's depacketizer (h264_rtp.rs).                *)
(*                                                                         *)
(* Frames are told apart by what matters to the receiver: a key frame is a *)
(* packet of parameter sets and a fragmented unit, another frame is one    *)
(* packet or a fragmented unit.  A unit has two fragments.  Time is open:  *)
(* an interval may elapse at any step.                                     *)
(***************************************************************************)
EXTENDS Naturals, Sequences

CONSTANTS
  QueueSize,     (* frames between capture thread and send loop, 64        *)
  FeedbackSize,  (* the broadcast channel of RTCP feedback, 32             *)
  MaxSkip,       (* MAX_FRAME_SKIP, 5                                      *)
  MaxFeedback,   (* bound: RTCP packets of the member                      *)
  MaxToggles     (* bound: commands of the user                            *)

ASSUME VideoAssumption ==
  /\ {QueueSize, FeedbackSize, MaxSkip} \subseteq Nat \ {0}
  /\ {MaxFeedback, MaxToggles} \subseteq Nat

VARIABLES
  kind,      (* which video it is: of the camera or of the screen          *)
  handler,   (* where the application stands, see TypeOK                   *)
  restart,   (* it stops the session to start another (another device)     *)
  attached,  (* the track is attached to the member's connection           *)
  stop,      (* the session's stop flag                                    *)
  thread,    (* where the capture thread stands                            *)
  rtcp,      (* the loop that reads the sender's RTCP                      *)
  recent,    (* KeyframeRateLimiter: the last request is < 500 ms ago      *)
  feedback,  (* the feedback the thread has not read                       *)
  lagged,    (* some of it was overwritten                                 *)
  skip,      (* the policy's frame_skip, from the fresh hints              *)
  since,     (* frames_since_encoded: frames skipped for congestion        *)
  requested, (* the encoder's keyframe_requested                           *)
  due,       (* KEYFRAME_INTERVAL has passed since last_keyframe           *)
  frame,     (* the encoded frame the thread is to send: is it a key frame *)
  queue,     (* frames on their way to the send loop                       *)
  unit,      (* the depacketizer: the heads of units in its buffer (2 for  *)
             (* more), its fua_open, and whether a whole packet came while *)
             (* a unit was open                                            *)
  packets,   (* RTCP packets so far                                        *)
  toggles    (* commands so far                                            *)

VARIABLE (* history *)
  steady       (* frames skipped in a row under the present frame_skip     *)

session == <<handler, restart, attached, stop, toggles>>
link == <<rtcp, recent, feedback, lagged, packets>>
coding == <<skip, since, requested, due, frame, steady>>
vars == <<kind, session, thread, link, coding, queue, unit>>

Camera == kind = "camera"
Hints == [skip : 1 .. MaxSkip]
KeyframeRequest == [skip |-> 0]
Depacketizers == [buffer : 0 .. 2, open : BOOLEAN, interrupted : BOOLEAN]

TypeOK ==
  /\ kind \in {"camera", "screen"}
  /\ handler \in {"off", "attached", "opening", "on", "stopping"}
  /\ thread \in {"none", "top", "drain", "next", "encode", "send"}
  /\ {restart, attached, stop, recent, lagged, requested, due, frame} \subseteq BOOLEAN
  /\ rtcp \in {"none", "reading", "dead"}
  /\ feedback \in Seq(Hints \union {KeyframeRequest}) /\ Len(feedback) <= FeedbackSize
  /\ skip \in 1 .. MaxSkip /\ since \in Nat /\ steady \in Nat
  /\ queue \in Seq(BOOLEAN) /\ Len(queue) <= QueueSize
  /\ unit \in Depacketizers
  /\ packets \in 0 .. MaxFeedback /\ toggles \in 0 .. MaxToggles
  /\ attached <=> rtcp # "none"
  /\ thread # "none" => handler \in {"on", "stopping"}
  /\ unit.open => unit.buffer > 0

Init ==
  /\ kind \in {"camera", "screen"}
  /\ handler = "off" /\ restart = FALSE /\ attached = FALSE /\ stop = FALSE
  /\ toggles = 0
  /\ thread = "none"
  /\ rtcp = "none" /\ recent = FALSE /\ feedback = <<>> /\ lagged = FALSE
  /\ packets = 0
  /\ skip = 1 /\ since = 0 /\ requested = FALSE /\ due = TRUE /\ frame = FALSE
  /\ steady = 0
  /\ queue = <<>>
  /\ unit = [buffer |-> 0, open |-> FALSE, interrupted |-> FALSE]

(* Mutant: the session subscribes when its thread runs.                    *)
MutSubscribed == thread # "none"

(* A receiver of the broadcast channel exists from the subscription on and *)
(* goes with the thread.                                                   *)
Subscribed == handler = "opening" \/ thread # "none"

-----------------------------------------------------------------------------
(* The application: ToggleCamera, ToggleScreenShare, and the choice of     *)
(* another device while one is in use.                                     *)

(* add_local_track, remove_local_track: the track of a connection has a    *)
(* sender while it is attached, and a loop that reads the sender's RTCP.   *)
Attach == attached' = TRUE /\ rtcp' = "reading" /\ recent' = FALSE
Detach == attached' = FALSE /\ rtcp' = "none"

(* set_camera_enabled(true); the new media state is then sent.             *)
ToggleOn ==
  /\ handler = "off" /\ toggles < MaxToggles /\ toggles' = toggles + 1
  /\ handler' = "attached" /\ Attach
  /\ UNCHANGED <<kind, restart, stop, thread, feedback, lagged, packets,
                 coding, queue, unit>>

(* start_camera_session, start_screen_session subscribe, then open.        *)
Subscribe ==
  /\ handler = "attached" /\ handler' = "opening"
  /\ feedback' = <<>> /\ lagged' = FALSE
  /\ UNCHANGED <<kind, restart, attached, stop, toggles, thread, rtcp, recent,
                 packets, coding, queue, unit>>

(* The device opened: the session's thread starts with a new encoder.      *)
Opened ==
  /\ handler = "opening" /\ handler' = "on"
  /\ stop' = FALSE /\ thread' = "top"
  /\ skip' = 1 /\ since' = 0 /\ requested' = FALSE /\ due' = TRUE
  /\ frame' = FALSE /\ steady' = 0
  /\ UNCHANGED <<kind, restart, attached, toggles, link, queue, unit>>

(* It did not: the track and the state are reverted.                       *)
OpenFailed ==
  /\ handler = "opening" /\ handler' = "off"
  /\ Detach
  /\ UNCHANGED <<kind, restart, stop, toggles, thread, recent, feedback, lagged,
                 packets, coding, queue, unit>>

(* Off: the track is detached, then the session is told to stop.           *)
ToggleOff ==
  /\ handler = "on" /\ toggles < MaxToggles /\ toggles' = toggles + 1
  /\ handler' = "stopping" /\ restart' = FALSE /\ stop' = TRUE
  /\ Detach
  /\ UNCHANGED <<kind, thread, recent, feedback, lagged, packets, coding, queue, unit>>

(* SelectCamera, SelectScreenSource: the session is told to stop first.    *)
SelectDevice ==
  /\ handler = "on" /\ toggles < MaxToggles /\ toggles' = toggles + 1
  /\ handler' = "stopping" /\ restart' = TRUE /\ stop' = TRUE
  /\ UNCHANGED <<kind, attached, thread, link, coding, queue, unit>>

(* The join returns; the track of another device is a new sender.          *)
Joined ==
  /\ handler = "stopping" /\ thread = "none"
  /\ IF restart
       THEN handler' = "attached" /\ Attach
       ELSE handler' = "off" /\ UNCHANGED <<attached, rtcp, recent>>
  /\ restart' = FALSE
  /\ UNCHANGED <<kind, stop, toggles, thread, feedback, lagged, packets, coding,
                 queue, unit>>

-----------------------------------------------------------------------------
(* RTCP of the member: a request for a key frame, which the limiter may    *)
(* swallow, or a bandwidth that makes some frame_skip.  None comes between *)
(* the attachment of the track and the subscription: the member answers to *)
(* packets, and the task that opens the session is also the one that has   *)
(* yet to negotiate the track.  The loop ends when its feedback finds no   *)
(* receiver; a full channel loses its oldest.                              *)
Packet ==
  /\ rtcp = "reading" /\ handler # "attached"
  /\ packets < MaxFeedback /\ packets' = packets + 1

(* Mutant: a full channel takes one more.                                  *)
MutReadRtcp ==
  /\ Packet
  /\ \E item \in Hints \union {KeyframeRequest} :
       IF ~Subscribed
         THEN rtcp' = "dead" /\ UNCHANGED feedback
       ELSE feedback' = Append(feedback, item) /\ UNCHANGED rtcp
  /\ UNCHANGED <<kind, session, thread, recent, lagged, coding, queue, unit>>

ReadRtcp ==
  /\ Packet
  /\ \E item \in Hints \union {KeyframeRequest} :
       IF item = KeyframeRequest /\ recent
         THEN UNCHANGED <<recent, rtcp, feedback, lagged>>
       ELSE /\ recent' = (recent \/ item = KeyframeRequest)
            /\ IF ~Subscribed
                 THEN rtcp' = "dead" /\ UNCHANGED <<feedback, lagged>>
               ELSE /\ UNCHANGED rtcp
                    /\ IF Len(feedback) < FeedbackSize
                         THEN feedback' = Append(feedback, item) /\ lagged' = lagged
                       ELSE feedback' = Append(Tail(feedback), item) /\ lagged' = TRUE
  /\ UNCHANGED <<kind, session, thread, coding, queue, unit>>

-----------------------------------------------------------------------------
(* The capture thread.                                                     *)

(* Mutant: the loop of the screen does not look at its flag.               *)
MutCheckStop ==
  /\ thread = "top"
  /\ thread' = IF stop /\ Camera THEN "none" ELSE "drain"
  /\ UNCHANGED <<kind, session, link, coding, queue, unit>>

(* The top of its loop.                                                    *)
CheckStop ==
  /\ thread = "top"
  /\ thread' = IF stop THEN "none" ELSE "drain"
  /\ UNCHANGED <<kind, session, link, coding, queue, unit>>

Becomes(n) ==
  skip' = n /\ steady' = IF n = skip THEN steady ELSE 0

(* One try_recv: an overrun ends the draining as an empty channel does.    *)
DrainFeedback ==
  /\ thread = "drain"
  /\ IF lagged \/ feedback = <<>>
       THEN /\ thread' = "next" /\ lagged' = FALSE
            /\ UNCHANGED <<feedback, skip, steady, requested, due>>
     ELSE /\ feedback' = Tail(feedback)
          /\ IF Head(feedback) = KeyframeRequest
               THEN requested' = TRUE /\ due' = FALSE /\ UNCHANGED <<skip, steady>>
             ELSE Becomes(Head(feedback).skip) /\ UNCHANGED <<requested, due>>
          /\ UNCHANGED <<thread, lagged>>
  /\ UNCHANGED <<kind, session, rtcp, recent, packets, since, frame,
                 queue, unit>>

(* A captured frame that comes too early for the pace of the video.        *)
TooEarly ==
  /\ thread = "next" /\ thread' = "top"
  /\ UNCHANGED <<kind, session, link, coding, queue, unit>>

(* Mutant: the count is compared with frame_skip itself.                   *)
MutIsDue(n) == n = skip
(* One of every frame_skip captured frames is encoded.                     *)
IsDue(n) == n % skip = 0

(* A frame at its time: skipped for the slowest receiver, or to be encoded.*)
(* The camera then waits for its next frame, the screen takes what it has. *)
NextFrame ==
  /\ thread = "next"
  /\ IF IsDue(since + 1)
       THEN thread' = "encode" /\ since' = 0 /\ steady' = 0
     ELSE /\ thread' = (IF Camera THEN "top" ELSE "next")
          /\ since' = since + 1 /\ steady' = steady + 1
  /\ UNCHANGED <<kind, session, link, skip, requested, due, frame, queue, unit>>

(* A camera that closes ends the loop; nobody tells the application.       *)
CameraCloses ==
  /\ thread = "next" /\ Camera /\ thread' = "none"
  /\ UNCHANGED <<kind, session, link, coding, queue, unit>>

(* Mutant: the interval forces nothing.                                    *)
MutEncode ==
  /\ thread = "encode" /\ thread' = "send"
  /\ frame' = requested
  /\ requested' = FALSE /\ due' = FALSE
  /\ UNCHANGED <<kind, session, link, skip, since, steady, queue, unit>>

(* The conversion and the encoder: either may fail.                        *)
Encode ==
  /\ thread = "encode" /\ thread' = "send"
  /\ frame' = (requested \/ due)
  /\ requested' = FALSE /\ due' = FALSE
  /\ UNCHANGED <<kind, session, link, skip, since, steady, queue, unit>>

Unencodable ==
  /\ thread = "encode" /\ thread' \in {IF Camera THEN "top" ELSE "next", "none"}
  /\ UNCHANGED <<kind, session, link, coding, queue, unit>>

(* blocking_send waits for the send loop.                                  *)
SendFrame ==
  /\ thread = "send" /\ Len(queue) < QueueSize
  /\ queue' = Append(queue, frame) /\ thread' = "top"
  /\ frame' = FALSE
  /\ UNCHANGED <<kind, session, link, skip, since, steady, requested, due, unit>>

CaptureThread ==
  CheckStop \/ DrainFeedback \/ TooEarly \/ NextFrame \/ CameraCloses \/ Encode \/ Unencodable
  \/ SendFrame

(* Time: the interval, the limiter, the age of the hints (HINT_TTL).       *)
IntervalElapses ==
  /\ ~due /\ due' = TRUE
  /\ UNCHANGED <<kind, session, thread, link, skip, since, requested, frame,
                 steady, queue, unit>>

LimiterElapses ==
  /\ recent /\ recent' = FALSE
  /\ UNCHANGED <<kind, session, thread, rtcp, feedback, lagged, packets, coding,
                 queue, unit>>

HintsExpire ==
  /\ skip # 1 /\ Becomes(1)
  /\ UNCHANGED <<kind, session, thread, link, since, requested, due, frame,
                 queue, unit>>

-----------------------------------------------------------------------------
(* The send loop and the member's side.                                    *)

(* Mutant: a start keeps what is in the buffer.                            *)
MutDepacketize(r, packet) ==
  CASE packet = "start" ->
         [buffer |-> IF r.buffer = 0 THEN 1 ELSE 2, open |-> TRUE,
          interrupted |-> r.interrupted]
    [] packet = "end" -> [buffer |-> 0, open |-> FALSE, interrupted |-> FALSE]
    [] packet = "whole" ->
         [buffer |-> r.buffer, open |-> FALSE, interrupted |-> r.buffer > 0]

(* H264Depacketizer.depacketize: a start that finds an open unit drops it; *)
(* a whole packet closes fua_open and leaves the buffer as it is.          *)
Depacketize(r, packet) ==
  CASE packet = "start" ->
         [buffer |-> IF r.open \/ r.buffer = 0 THEN 1 ELSE 2, open |-> TRUE,
          interrupted |-> r.interrupted /\ ~r.open]
    [] packet = "end" -> [buffer |-> 0, open |-> FALSE, interrupted |-> FALSE]
    [] packet = "whole" ->
         [buffer |-> r.buffer, open |-> FALSE, interrupted |-> r.buffer > 0]

(* What the depacketizer may make of a frame's packets, any of which the   *)
(* network may lose.                                                       *)
MayArrive(units, packet) == units \union {Depacketize(r, packet) : r \in units}
OfUnit(units) == MayArrive(MayArrive(units, "start"), "end")
Received(r, key) ==
  LET whole == MayArrive({r}, "whole")
  IN  IF key THEN OfUnit(whole) ELSE whole \union OfUnit({r})

(* video_send_loop and video_receive_loop: a sample without a sender goes  *)
(* nowhere.                                                                *)
SendLoop ==
  /\ queue # <<>> /\ queue' = Tail(queue)
  /\ unit' \in (IF attached THEN Received(unit, Head(queue)) ELSE {unit})
  /\ UNCHANGED <<kind, session, thread, link, coding>>

-----------------------------------------------------------------------------
Handlers ==
  Subscribe \/ Opened \/ OpenFailed \/ Joined

Next ==
  \/ ToggleOn \/ ToggleOff \/ SelectDevice \/ Handlers
  \/ ReadRtcp \/ CaptureThread
  \/ IntervalElapses \/ LimiterElapses \/ HintsExpire
  \/ SendLoop

Spec == Init /\ [][Next]_vars

(* The device delivers and the encoder works (again and again); the thread,*)
(* the send loop, time and the handlers go on.                             *)
FairSpec ==
  /\ Spec
  /\ WF_vars(CaptureThread) /\ WF_vars(SendLoop)
  /\ WF_vars(Handlers) /\ WF_vars(IntervalElapses)
  /\ SF_vars(NextFrame) /\ SF_vars(Encode)

-----------------------------------------------------------------------------
(* No unit is put together from the heads of two: a start that follows a   *)
(* lost tail drops what was kept ("discarded instead of being corrupted"), *)
(* unless a whole packet - the parameter sets of a key frame - came in     *)
(* between and closed fua_open over a full buffer.                         *)
HeadsDoNotMix == unit.buffer = 2 => unit.interrupted

(* The loop that reads a sender's RTCP ends when nobody listens, and is    *)
(* never started again: so from the attachment of a track until its thread *)
(* ends somebody listens, also while a device opens or is changed.         *)
FeedbackIsHeard ==
  handler \in {"attached", "opening"} \/ thread # "none" => rtcp # "dead"

(* "Send one of every N captured frames": while the policy stays at N,     *)
(* fewer than N are skipped in a row, however many were skipped under the  *)
(* policies before it: the count may be past N when N becomes smaller.     *)
SkipIsSteady == steady < skip

(* Not true: "never skip more than this many frames" (bitrate.rs), because *)
(* the count goes on over a change of the policy: 5, 2 and 5 again skip 9. *)
NeverSkipsMore == since < MaxSkip

(* A session told to stop is joined, whatever queue its thread waits on.   *)
StopReturns == (handler = "stopping") ~> (handler # "stopping")

(* While a session runs key frames keep coming, so a member that joins or  *)
(* lost one recovers ("force an IDR this often").                          *)
KeyframesKeepComing == []<>(thread = "none" \/ (thread = "send" /\ frame))
=============================================================================
