-------------------------------- MODULE Audio --------------------------------
(***************************************************************************)
(* The audio of the native application: the RTP frames of the other        *)
(* members and the tasks that forward them into one queue (bridge.rs,      *)
(* app.rs), the audio thread with its 20 ms tick (pipeline.rs, playback.rs)*)
(* the commands the application sends it, and the speaking rings it        *)
(* answers with.                                                           *)
(*                                                                         *)
(* The audio thread is cut at every try_recv of its tick: the application  *)
(* and the forwarding tasks fill its queues between any two steps.  What a *)
(* frame decodes to is open: one decoder serves every member.              *)
(***************************************************************************)
EXTENDS Integers, Sequences, FiniteSets, SequencesExt

CONSTANTS
  Peers,        (* the other members of the room                           *)
  Sources,      (* what they send: pairs <<peer, "mic" or "screen">>       *)
  Devices,      (* output devices                                          *)
  DefaultDevice,(* the host's default output                               *)
  NoDevice,     (* no playback: the host has no output                     *)
  Wrap,         (* the RTP sequence numbers, 2^16 in the code              *)
  MaxPlc,       (* PipelineConfig.max_plc_frames                           *)
  QueueSize,    (* capacity of the frame queue, 256 in the code            *)
  ControlSize,  (* capacity of the command queue, 64 in the code           *)
  EventSize,    (* capacity of the event queue, 64 in the code             *)
  MaxFrames,    (* bound: frames a source sends                            *)
  MaxCommands   (* bound: commands of the user                             *)

ASSUME AudioAssumption ==
  /\ Sources \subseteq Peers \X {"mic", "screen"}
  /\ {"deafened", "gate"} \intersect Peers = {}
  /\ DefaultDevice \in Devices /\ NoDevice \notin Devices
  /\ {Wrap, QueueSize, ControlSize, EventSize} \subseteq Nat \ {0}
  /\ {MaxPlc, MaxFrames, MaxCommands} \subseteq Nat

(* What the user sets: deafened, the noise gate, and each member's volume  *)
(* (turned down or not).  All but the gate live in the Mixer.              *)
Knobs == {"deafened", "gate"} \union Peers
MixerKnobs == Knobs \ {"gate"}
Numbers == 0 .. MaxFrames - 1
Frames == Sources \X Numbers
Unset == -1

VARIABLES
  flight,   (* flight[s]: the frames of s that may still be forwarded      *)
  queue,    (* the queue of tagged frames the audio thread reads           *)
  control,  (* the queue of commands                                       *)
  events,   (* the queue of speaking events to the application             *)
  phase,    (* where the audio thread is in its tick                       *)
  work,     (* the frame it ingests: [src, n, left], left to conceal       *)
  stopped,  (* AudioPipeline.stopped                                       *)
  last,     (* last_seq: the last sequence number taken of each source     *)
  speaking, (* the members the pipeline takes to be speaking               *)
  device,   (* the playback device                                         *)
  has,      (* the knobs as the pipeline has them                          *)
  wants,    (* the knobs as the application shows them                     *)
  members,  (* the peers with a tile                                       *)
  leaving,  (* peers whose PeerDisconnected event is still to come         *)
  ring,     (* the tiles whose speaking ring is lit                        *)
  quitting, (* the application has left its loop                           *)
  commands  (* commands the user has given                                 *)

VARIABLES (* history *)
  heard,    (* heard[s]: the last frame of s decoded, by its true number   *)
  missed,   (* peers of which a speaking event was lost                    *)
  lost,     (* knobs whose last setting was lost                           *)
  revived,  (* peers of which a frame was taken after their removal        *)
  deaf      (* Shutdown was lost to a full queue                           *)

thread == <<phase, work, stopped, last, speaking, device, has>>
app == <<wants, members, leaving, ring, quitting, commands>>
history == <<heard, missed, lost, revived, deaf>>
vars == <<flight, queue, control, events, thread, app, history>>

Idle == [src |-> <<>>, n |-> Unset, left |-> 0]
Commands ==
  {<<"remove", p>> : p \in Peers} \union {<<"output", d>> : d \in Devices}
  \union {<<"set", k, on>> : k \in Knobs, on \in BOOLEAN} \union {<<"shutdown">>}

Wire(n) == n % Wrap

TypeOK ==
  /\ flight \in [Sources -> SUBSET Numbers]
  /\ queue \in Seq(Frames) /\ Len(queue) <= QueueSize
  /\ control \in Seq(Commands) /\ Len(control) <= ControlSize
  /\ events \in Seq(Peers \X BOOLEAN) /\ Len(events) <= EventSize
  /\ phase \in {"opening", "control", "receive", "end", "stopped"}
  /\ \/ work = Idle
     \/ /\ phase = "receive"
        /\ work \in [src : Sources, n : Numbers, left : 0 .. MaxPlc]
  /\ stopped \in BOOLEAN /\ quitting \in BOOLEAN /\ deaf \in BOOLEAN
  /\ last \in [Sources -> {Unset} \union 0 .. Wrap - 1]
  /\ speaking \subseteq Peers /\ device \in Devices \union {NoDevice}
  /\ has \in [Knobs -> BOOLEAN] /\ wants \in [Knobs -> BOOLEAN]
  /\ members \subseteq Peers /\ leaving \subseteq Peers \ members
  /\ ring \subseteq members
  /\ commands \in 0 .. MaxCommands
  /\ heard \in [Sources -> {Unset} \union Numbers]
  /\ \A s \in Sources : last[s] # Unset => heard[s] # Unset /\ last[s] = Wire(heard[s])
  /\ missed \subseteq Peers /\ revived \subseteq Peers /\ lost \subseteq Knobs

(* The settings window starts from the saved configuration, the pipeline   *)
(* from PipelineConfig's defaults: nothing tells it of the saved gate.     *)
Init ==
  /\ flight = [s \in Sources |-> Numbers]
  /\ queue = <<>> /\ control = <<>> /\ events = <<>>
  /\ phase = "opening" /\ work = Idle /\ stopped = FALSE
  /\ last = [s \in Sources |-> Unset] /\ speaking = {}
  /\ device \in {DefaultDevice, NoDevice}
  /\ has = [k \in Knobs |-> FALSE]
  /\ wants \in {has, [has EXCEPT !["gate"] = TRUE]}
  /\ members = Peers /\ leaving = {} /\ ring = {}
  /\ quitting = FALSE /\ commands = 0
  /\ heard = [s \in Sources |-> Unset] /\ missed = {}
  /\ lost = {k \in Knobs : has[k] # wants[k]} /\ revived = {} /\ deaf = FALSE

Running == phase # "stopped"
Pending(k) == \E on \in BOOLEAN : Contains(control, <<"set", k, on>>)

-----------------------------------------------------------------------------
(* The network and the forwarding tasks.                                   *)

(* audio_receive_loop and the application's forwarding task: the packets   *)
(* of a track come in any order, and one that never comes is lost; the task*)
(* waits for room in the queue, and goes on until the channel of its peer  *)
(* is drained, whether the peer left or not.                               *)
Forward(s) ==
  /\ Running /\ Len(queue) < QueueSize
  /\ \E n \in flight[s] :
       /\ flight' = [flight EXCEPT ![s] = @ \ {n}]
       /\ queue' = Append(queue, <<s, n>>)
  /\ UNCHANGED <<control, events, thread, app, history>>

-----------------------------------------------------------------------------
(* The audio thread.                                                       *)

(* open_and_run: the thread ends when a device cannot be opened.           *)
Open ==
  /\ phase = "opening" /\ phase' \in {"control", "stopped"}
  /\ UNCHANGED <<flight, queue, control, events, work, stopped, last, speaking,
                 device, has, app, history>>

(* Mutant: without playback every setting is dropped.                      *)
MutSet(k, on) ==
  /\ IF device = NoDevice
       THEN has' = has /\ lost' = lost \union ({k} \ {"gate"})
       ELSE has' = [has EXCEPT ![k] = on] /\ lost' = lost \ ({k} \ {"gate"})
  /\ UNCHANGED <<stopped, last, speaking, device>>

(* Two commands of drain_control.  A setting of the mixer is dropped when  *)
(* there is no playback to hold it.                                        *)
Set(k, on) ==
  /\ IF k \in MixerKnobs /\ device = NoDevice
       THEN has' = has /\ lost' = lost \union {k}
       ELSE has' = [has EXCEPT ![k] = on] /\ lost' = lost \ ({k} \ {"gate"})
  /\ UNCHANGED <<stopped, last, speaking, device>>

RemovePeer(p) ==
  /\ last' = [s \in Sources |-> IF s[1] = p THEN Unset ELSE last[s]]
  /\ speaking' = speaking \ {p}
  /\ has' = [has EXCEPT ![p] = FALSE]
  /\ UNCHANGED <<stopped, device, lost>>

(* switch_output_device: nothing for the device in use; a device that does *)
(* not open leaves the old one; a new Playback has a new Mixer.            *)
SwitchOutput(d) ==
  /\ \/ UNCHANGED <<device, has, lost>>
     \/ /\ d # device /\ device' = d
        /\ has' = [k \in Knobs |-> k = "gate" /\ has[k]]
        /\ lost' = lost \union {k \in MixerKnobs : has[k]}
  /\ UNCHANGED <<stopped, last, speaking>>

Shutdown ==
  /\ stopped' = TRUE
  /\ UNCHANGED <<last, speaking, device, has, lost>>

(* One round of drain_control.                                             *)
DrainControl ==
  /\ phase = "control" /\ control # <<>>
  /\ control' = Tail(control)
  /\ LET c == Head(control) IN
       CASE c[1] = "set" -> Set(c[2], c[3])
         [] c[1] = "remove" -> RemovePeer(c[2])
         [] c[1] = "output" -> SwitchOutput(c[2])
         [] c[1] = "shutdown" -> Shutdown
  /\ UNCHANGED <<flight, queue, events, phase, work, app, heard, missed,
                 revived, deaf>>

ControlDrained ==
  /\ phase = "control" /\ control = <<>> /\ phase' = "receive"
  /\ UNCHANGED <<flight, queue, control, events, work, stopped, last, speaking,
                 device, has, app, history>>

(* Mutant: only a repeated number is stale.                                *)
MutStale(s, n) == last[s] # Unset /\ Wire(n) = last[s]

(* The start of ingest: a sequence number not above the last is stale.     *)
Stale(s, n) == last[s] # Unset /\ Wire(n) <= last[s]

(* Mutant: the whole gap is concealed.                                     *)
MutGap(s, n) == IF last[s] = Unset THEN 0 ELSE Wire(n) - last[s]

Gap(s, n) ==
  IF last[s] = Unset THEN 0
  ELSE LET missing == Wire(n) - last[s] - 1
       IN IF missing < MaxPlc THEN missing ELSE MaxPlc

Ingest ==
  /\ phase = "receive" /\ work = Idle /\ queue # <<>>
  /\ queue' = Tail(queue)
  /\ LET s == Head(queue)[1]
         n == Head(queue)[2]
     IN IF Stale(s, n)
          THEN UNCHANGED <<work, revived>>
          ELSE /\ work' = [src |-> s, n |-> n, left |-> Gap(s, n)]
               /\ revived' = IF s[1] \in members THEN revived
                             ELSE revived \union {s[1]}
  /\ UNCHANGED <<flight, control, events, phase, stopped, last, speaking, device,
                 has, app, heard, missed, lost, deaf>>

(* Mutant: a change to silence is told and not recorded.                   *)
MutUpdateVad(p, level) ==
  LET was == p \in speaking
      now == level = "above" \/ (was /\ level = "between")
  IN IF now = was THEN UNCHANGED <<speaking, events, missed>>
     ELSE /\ speaking' = speaking \union {p}
          /\ IF Len(events) < EventSize
               THEN events' = Append(events, <<p, now>>) /\ missed' = missed \ {p}
               ELSE events' = events /\ missed' = missed \union {p}

(* update_vad, for a level of the decoded samples: above VAD_ON_DB,        *)
(* between, or below VAD_OFF_DB.  A change is recorded, and told if the    *)
(* event queue has room.                                                   *)
UpdateVad(p, level) ==
  LET was == p \in speaking
      now == level = "above" \/ (was /\ level = "between")
  IN IF now = was THEN UNCHANGED <<speaking, events, missed>>
     ELSE /\ speaking' = IF now THEN speaking \union {p} ELSE speaking \ {p}
          /\ IF Len(events) < EventSize
               THEN events' = Append(events, <<p, now>>) /\ missed' = missed \ {p}
               ELSE events' = events /\ missed' = missed \union {p}

(* decode_and_mix of a frame that decodes: the screen's sound is no speech.*)
DecodeAndMix(s) ==
  IF s[2] = "mic"
    THEN \E level \in {"above", "between", "below"} : UpdateVad(s[1], level)
    ELSE UNCHANGED <<speaking, events, missed>>

(* One concealed frame of the gap.                                         *)
Conceal ==
  /\ phase = "receive" /\ work.left > 0
  /\ DecodeAndMix(work.src)
  /\ work' = [work EXCEPT !.left = @ - 1]
  /\ UNCHANGED <<flight, queue, control, phase, stopped, last, device, has, app,
                 heard, lost, revived, deaf>>

(* The frame itself.                                                       *)
Decode ==
  /\ phase = "receive" /\ work # Idle /\ work.left = 0
  /\ last' = [last EXCEPT ![work.src] = Wire(work.n)]
  /\ heard' = [heard EXCEPT ![work.src] = work.n]
  /\ DecodeAndMix(work.src)
  /\ work' = Idle
  /\ UNCHANGED <<flight, queue, control, phase, stopped, device, has, app,
                 lost, revived, deaf>>

(* A decoding that fails ends the tick: what is left waits for the next.   *)
(* The number of a frame that was reached counts as taken.                 *)
DecodeFails ==
  /\ phase = "receive" /\ work # Idle
  /\ IF work.left > 0 THEN UNCHANGED <<last, heard>>
     ELSE /\ last' = [last EXCEPT ![work.src] = Wire(work.n)]
          /\ heard' = [heard EXCEPT ![work.src] = work.n]
  /\ work' = Idle /\ phase' = "end"
  /\ UNCHANGED <<flight, queue, control, events, stopped, speaking, device, has,
                 app, missed, lost, revived, deaf>>

(* Nothing is left: capture_frames only sends (try_send) into the mesh.    *)
Received ==
  /\ phase = "receive" /\ work = Idle /\ queue = <<>> /\ phase' = "end"
  /\ UNCHANGED <<flight, queue, control, events, work, stopped, last, speaking,
                 device, has, app, history>>

(* The rest of run_loop's round.  The frame queue never closes before that: *)
(* the application keeps a sender until it has joined the thread.          *)
EndTick ==
  /\ phase = "end" /\ phase' = IF stopped THEN "stopped" ELSE "control"
  /\ UNCHANGED <<flight, queue, control, events, work, stopped, last, speaking,
                 device, has, app, history>>

-----------------------------------------------------------------------------
(* The application's loop.                                                 *)

(* `tx.send(command).await`: waits for room, and fails without a sound     *)
(* once the thread has ended.                                              *)
Send(command) ==
  IF Running
    THEN Len(control) < ControlSize /\ control' = Append(control, command)
    ELSE control' = control

UserActs ==
  /\ ~quitting /\ commands < MaxCommands
  /\ commands' = commands + 1

(* ToggleDeafen, SetPeerVolume.                                            *)
TurnMixerKnob(k) ==
  /\ UserActs /\ k \in {"deafened"} \union members
  /\ wants' = [wants EXCEPT ![k] = ~@]
  /\ Send(<<"set", k, wants'[k]>>)
  /\ UNCHANGED <<flight, queue, events, thread, members, leaving, ring, quitting,
                 history>>

(* apply_processing: try_send, and the settings window shows the new value.*)
TurnGate ==
  /\ UserActs
  /\ wants' = [wants EXCEPT !["gate"] = ~@]
  /\ IF Running /\ Len(control) < ControlSize
       THEN /\ control' = Append(control, <<"set", "gate", wants'["gate"]>>)
            /\ lost' = lost \ {"gate"}
       ELSE control' = control /\ lost' = lost \union {"gate"}
  /\ UNCHANGED <<flight, queue, events, thread, members, leaving, ring, quitting,
                 heard, missed, revived, deaf>>

(* SelectOutputDevice.                                                     *)
SelectOutput(d) ==
  /\ UserActs /\ Send(<<"output", d>>)
  /\ UNCHANGED <<flight, queue, events, thread, wants, members, leaving, ring,
                 quitting, history>>

RemoveTile(p) ==
  /\ members' = members \ {p} /\ ring' = ring \ {p}
  /\ wants' = [wants EXCEPT ![p] = FALSE]

(* PeerLeft: the mesh closes the connection and announces that; the packets*)
(* the receive loop already had are still forwarded.                       *)
PeerLeft(p) ==
  /\ ~quitting /\ p \in members
  /\ Send(<<"remove", p>>)
  /\ RemoveTile(p) /\ leaving' = leaving \union {p}
  /\ UNCHANGED <<flight, queue, events, thread, quitting, commands, history>>

(* PeerDisconnected removes the peer once more.                            *)
PeerDisconnected(p) ==
  /\ ~quitting /\ p \in leaving
  /\ Send(<<"remove", p>>) /\ leaving' = leaving \ {p}
  /\ UNCHANGED <<flight, queue, events, thread, wants, members, ring, quitting,
                 commands, history>>

(* handle_audio_event: a ring of a tile that is gone is nobody's.          *)
HandleAudioEvent ==
  /\ ~quitting /\ events # <<>>
  /\ events' = Tail(events)
  /\ LET p == Head(events)[1] IN
       ring' = IF Head(events)[2] /\ p \in members THEN ring \union {p} ELSE ring \ {p}
  /\ UNCHANGED <<flight, queue, control, thread, wants, members, leaving, quitting,
                 commands, history>>

(* The end of run: Shutdown with try_send, then the thread is joined.      *)
Quit ==
  /\ ~quitting /\ quitting' = TRUE
  /\ IF Running /\ Len(control) < ControlSize
       THEN control' = Append(control, <<"shutdown">>) /\ deaf' = deaf
       ELSE control' = control /\ deaf' = Running
  /\ UNCHANGED <<flight, queue, events, thread, wants, members, leaving, ring,
                 commands, heard, missed, lost, revived>>

-----------------------------------------------------------------------------
AudioThread ==
  \/ Open \/ DrainControl \/ ControlDrained \/ Ingest \/ Conceal \/ Decode
  \/ DecodeFails \/ Received \/ EndTick

Next ==
  \/ \E s \in Sources : Forward(s)
  \/ AudioThread
  \/ \E k \in MixerKnobs : TurnMixerKnob(k)
  \/ TurnGate
  \/ \E d \in Devices : SelectOutput(d)
  \/ \E p \in Peers : PeerLeft(p) \/ PeerDisconnected(p)
  \/ HandleAudioEvent
  \/ Quit

Spec == Init /\ [][Next]_vars

-----------------------------------------------------------------------------
(* Once every event is handled, a tile's ring says what the pipeline holds *)
(* of the member - however it left its tick, whatever it concealed - unless*)
(* an event was lost to a full queue: update_vad records what it could not *)
(* tell, and tells it again only with the next change.                     *)
RingFollowsVoice ==
  events = <<>> => \A p \in members \ missed : p \in ring <=> p \in speaking

(* Once its commands are drained, the pipeline has every knob as the       *)
(* application shows it, unless the setting is known to be lost: to a full *)
(* queue (apply_processing), to a missing playback, to the new mixer of a  *)
(* switched device, or never sent (the gate of the saved configuration).   *)
SettingsArrive ==
  Running => \A k \in Knobs \ lost :
               (k \in members \union {"deafened", "gate"} /\ ~Pending(k))
                 => has[k] = wants[k]

(* Nothing of a member that left outlasts its removal (ingest, RemovePeer):*)
(* no sequence number, no voice, no volume; except for what a frame that   *)
(* was still queued behind the removal brings back.                        *)
LeftIsForgotten ==
  \A p \in Peers \ (members \union leaving \union revived) :
    (~Contains(control, <<"remove", p>>) /\ ~(work # Idle /\ work.src[1] = p)
     /\ Running)
      => /\ \A s \in Sources : s[1] = p => last[s] = Unset
         /\ p \notin speaking /\ ~has[p]

(* Frames of a member are decoded in the order they were spoken, whatever  *)
(* the network did ("stale or duplicate: drop, never re-decode"), as long  *)
(* as the 16-bit number does not begin again and the member is not removed.*)
NeverReplays ==
  [][\A s \in Sources :
       (heard'[s] < heard[s]) => \/ last[s] = Unset
                                 \/ heard[s] \div Wrap # heard'[s] \div Wrap]_vars

(* Only a stale frame is dropped as one: pipeline.rs drops a number not    *)
(* above the last as "stale or duplicate".  It does not hold once the      *)
(* 16-bit number has begun again.                                          *)
OnlyStaleIsDropped ==
  [][(phase = "receive" /\ queue # <<>> /\ queue' = Tail(queue) /\ work' = Idle)
       => Head(queue)[2] <= heard[Head(queue)[1]]]_vars

(* When the application joins the audio thread, the thread is on its way to*)
(* an end (the queue of frames stays open, so nothing else would end it),  *)
(* unless Shutdown met a full queue.                                       *)
QuitIsHeard ==
  (quitting /\ ~deaf) => stopped \/ ~Running \/ Contains(control, <<"shutdown">>)

(* What the application commands is carried out: settings, the removal of a*)
(* member and the end (AudioControl, drain_control).                       *)
CommandsArrive == SettingsArrive /\ LeftIsForgotten /\ QuitIsHeard
=============================================================================
