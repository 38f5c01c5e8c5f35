----------------------------- MODULE AudioDevices -----------------------------
(***************************************************************************)
(* The samples of the native application between the two devices and the   *)
(* audio thread: the microphone's callback and its ring (capture.rs), the  *)
(* downmix and the two resamplers (resampler.rs), the noise gate and the   *)
(* level meter (processor.rs), the encoder (codec.rs) and the frames for   *)
(* the transport (capture_frames of pipeline.rs), the playback ring and    *)
(* its callback (playback.rs).                                             *)
(*                                                                         *)
(* The callbacks run on threads of the host and share nothing with the     *)
(* audio thread but the rings, sample by sample.  A sample is the number   *)
(* the device delivered it under, its channel that number modulo Channels; *)
(* what a sample sounds like is open, so is how many samples a chunk       *)
(* becomes at another rate.  The high-pass filter changes only the sound.  *)
(* Module Audio has the frames that come from the peers and the commands   *)
(* this one leaves out; here a mixed frame comes when it comes.            *)
(***************************************************************************)
EXTENDS Naturals, Sequences

CONSTANTS
  Channels,     (* of the microphone; its samples are interleaved          *)
  RingSize,     (* of both rings, 48000                                    *)
  ScratchSize,  (* samples drained in one go, 4096                         *)
  FrameSize,    (* samples of a frame and of a resampler's chunk, 960      *)
  MinYield,     (* a chunk becomes between so many samples ...             *)
  MaxYield,     (* ... and so many                                         *)
  TransportSize,(* frames for the transport, 256                           *)
  Open,         (* the gain of an open gate, in steps of its release, 2400 *)
  AttackStep,   (* an attack step in such steps, 50                        *)
  EmitEvery,    (* samples between two readings of the meter, 2400         *)
  MaxSamples,   (* bound: samples of one microphone                        *)
  MaxMixed,     (* bound: frames mixed for playback                        *)
  MaxCommands   (* bound: commands of the user                             *)

ASSUME AudioDevicesAssumption ==
  /\ {Channels, RingSize, ScratchSize, FrameSize, TransportSize, EmitEvery} \subseteq Nat \ {0}
  /\ {Open, AttackStep, MinYield, MaxYield} \subseteq Nat
  /\ MinYield <= MaxYield
  /\ Open <= AttackStep * FrameSize
  /\ {MaxSamples, MaxMixed, MaxCommands} \subseteq Nat

VARIABLES
  capture,   (* there is a microphone                                      *)
  next,      (* the number of its next sample                              *)
  ring,      (* the microphone's ring                                      *)
  overflowed,(* MicCapture.overflowed                                      *)
  phase,     (* where the audio thread is in its tick                      *)
  scratch,   (* ring_scratch, the samples drained                          *)
  mono,      (* samples in CaptureResampler.mono_in                        *)
  pending,   (* CaptureResampler.pending: samples at 48 kHz                *)
  gated,     (* the noise gate is enabled                                  *)
  gain,      (* NoiseGate.gain                                             *)
  metered,   (* LevelMeter.samples_since_emit                              *)
  sent,      (* frames the transport has not taken                         *)
  speaker,   (* the playback ring, by the numbers of its samples           *)
  produced,  (* samples made for playback                                  *)
  left,      (* of those, samples that Playback.push has still to push     *)
  mixed,     (* frames mixed for playback                                  *)
  commands   (* commands of the user                                       *)

VARIABLES (* history *)
  torn,      (* samples the downmix left out                               *)
  blended,   (* a mono sample was made of two device frames                *)
  resampled, (* mono samples the resampler has consumed                    *)
  hush,      (* frames the gate has let fade since the last it found loud  *)
  failed,    (* the last tick failed                                       *)
  played     (* the number of the last sample played, plus one             *)

microphone == <<capture, next, overflowed>>
resampler == <<mono, pending, torn, blended, resampled>>
processing == <<gain, metered, hush>>
playback == <<speaker, produced, left, mixed, played>>
deviceVars == <<microphone, ring, phase, scratch, resampler, gated, processing, sent, playback,
          commands, failed>>

DevicesInit ==
  /\ capture \in BOOLEAN /\ next = 0 /\ overflowed = 0
  /\ ring = <<>> /\ phase = "control" /\ scratch = <<>>
  /\ mono = 0 /\ pending = 0 /\ torn = 0 /\ blended = FALSE /\ resampled = 0
  /\ gated = TRUE /\ gain = Open /\ metered = 0 /\ hush = 0
  /\ sent = 0 /\ failed = FALSE
  /\ speaker = <<>> /\ produced = 0 /\ left = 0 /\ mixed = 0 /\ played = 0
  /\ commands = 0

-----------------------------------------------------------------------------
(* The devices' callbacks.                                                 *)

(* Mutant: a full ring drops its oldest sample for the new one.            *)
MutDeliver ==
  /\ capture /\ next < MaxSamples /\ next' = next + 1
  /\ ring' = Append(IF Len(ring) < RingSize THEN ring ELSE Tail(ring), next)
  /\ UNCHANGED <<capture, overflowed, phase, scratch, resampler, gated, processing, sent,
                 playback, commands, failed>>

(* push_typed for one sample: a full ring drops and counts it.             *)
Deliver ==
  /\ capture /\ next < MaxSamples /\ next' = next + 1
  /\ IF Len(ring) < RingSize
       THEN ring' = Append(ring, next) /\ overflowed' = overflowed
       ELSE ring' = ring /\ overflowed' = overflowed + 1
  /\ UNCHANGED <<capture, phase, scratch, resampler, gated, processing, sent, playback,
                 commands, failed>>

(* fill_typed for one device frame that finds a sample: every channel gets *)
(* it; an empty ring is silence, and leaves it empty.                      *)
Play ==
  /\ speaker # <<>>
  /\ played' = Head(speaker) + 1 /\ speaker' = Tail(speaker)
  /\ UNCHANGED <<microphone, ring, phase, scratch, resampler, gated, processing, sent,
                 produced, left, mixed, commands, failed>>

-----------------------------------------------------------------------------
(* drain_control, where it meets the devices.                              *)

(* Mutant: the new microphone is given the ring of the old one.            *)
MutNewMicrophone == capture' = TRUE /\ next' = 0 /\ overflowed' = 0 /\ UNCHANGED ring

(* MicCapture::open, CaptureResampler::new, Playback::open: what a device  *)
(* comes with; a new microphone begins with a whole device frame.          *)
NewMicrophone == capture' = TRUE /\ next' = 0 /\ overflowed' = 0 /\ ring' = <<>>
NewResampler == mono' = 0 /\ pending' = 0 /\ torn' = 0 /\ blended' = FALSE /\ resampled' = 0
NewSpeaker == speaker' = <<>>

(* switch_input_device: one that does not open leaves the old one.         *)
SwitchInput ==
  /\ phase = "control" /\ commands < MaxCommands /\ commands' = commands + 1
  /\ NewMicrophone /\ NewResampler
  /\ UNCHANGED <<phase, scratch, gated, processing, sent, playback, failed>>

(* switch_output_device: as for the microphone.                            *)
SwitchOutput ==
  /\ phase = "control" /\ commands < MaxCommands /\ commands' = commands + 1
  /\ NewSpeaker
  /\ UNCHANGED <<microphone, ring, phase, scratch, resampler, gated, processing, sent,
                 produced, left, mixed, played, failed>>

(* SetProcessing: the gate keeps the gain it had.                          *)
SetProcessing ==
  /\ phase = "control" /\ commands < MaxCommands /\ commands' = commands + 1
  /\ gated' = ~gated
  /\ UNCHANGED <<microphone, ring, phase, scratch, resampler, processing, sent, playback,
                 failed>>

-----------------------------------------------------------------------------
(* receive_frames.                                                         *)

ControlDrained ==
  /\ phase = "control" /\ phase' = "receive"
  /\ UNCHANGED <<microphone, ring, scratch, resampler, gated, processing, sent, playback,
                 commands, failed>>

(* flush_mix: the mixed frame, a chunk, becomes samples for the device.    *)
FlushMix ==
  /\ phase = "receive" /\ left = 0 /\ mixed < MaxMixed /\ mixed' = mixed + 1
  /\ left' \in MinYield .. MaxYield /\ produced' = produced + left'
  /\ UNCHANGED <<microphone, ring, phase, scratch, resampler, gated, processing, sent,
                 speaker, played, commands, failed>>

(* Playback.push for one sample: a full ring drops it.                     *)
Push ==
  /\ left > 0 /\ left' = left - 1
  /\ speaker' = IF Len(speaker) < RingSize THEN Append(speaker, produced - left) ELSE speaker
  /\ UNCHANGED <<microphone, ring, phase, scratch, resampler, gated, processing, sent,
                 produced, mixed, played, commands, failed>>

(* A frame that does not decode ends the tick before the microphone's part.*)
ReceiveFails ==
  /\ phase = "receive" /\ left = 0 /\ phase' = "control" /\ failed' = TRUE
  /\ UNCHANGED <<microphone, ring, scratch, resampler, gated, processing, sent, playback,
                 commands>>

ReceivedAll ==
  /\ phase = "receive" /\ left = 0
  /\ phase' = IF capture THEN "drain" ELSE "control"
  /\ failed' = FALSE
  /\ UNCHANGED <<microphone, ring, scratch, resampler, gated, processing, sent, playback,
                 commands>>

-----------------------------------------------------------------------------
(* capture_frames.                                                         *)

(* downmix_to_mono_into: chunks_exact leaves out what fills no chunk.      *)
Downmix(s) ==
  [i \in 1 .. Len(s) \div Channels |-> SubSeq(s, (i - 1) * Channels + 1, i * Channels)]

(* The channels of one device frame, and nothing else.                     *)
Whole(sample) ==
  /\ sample[1] % Channels = 0
  /\ \A c \in 1 .. Channels : sample[c] = sample[1] + (c - 1)

(* CaptureResampler.push: the samples come in pieces and accumulate; every *)
(* complete chunk is resampled.                                            *)
PushSamples(s) ==
  LET new == Downmix(s)
      chunks == (mono + Len(new)) \div FrameSize
  IN /\ mono' = (mono + Len(new)) % FrameSize
     /\ resampled' = resampled + chunks * FrameSize
     /\ pending' \in pending + chunks * MinYield .. pending + chunks * MaxYield
     /\ torn' = torn + (Len(s) % Channels)
     /\ blended' = (blended \/ \E i \in DOMAIN new : ~Whole(new[i]))

(* Mutant: the scratch is flushed when it has overrun.                     *)
MutDrain ==
  /\ phase = "drain" /\ ring # <<>> /\ ring' = Tail(ring)
  /\ LET drained == Append(scratch, Head(ring)) IN
       IF Len(drained) > ScratchSize
         THEN scratch' = <<>> /\ PushSamples(drained)
         ELSE scratch' = drained /\ UNCHANGED resampler
  /\ UNCHANGED <<microphone, phase, gated, processing, sent, playback, commands, failed>>

(* One pop; a full scratch goes to the resampler.                          *)
Drain ==
  /\ phase = "drain" /\ ring # <<>> /\ ring' = Tail(ring)
  /\ LET drained == Append(scratch, Head(ring)) IN
       IF Len(drained) = ScratchSize
         THEN scratch' = <<>> /\ PushSamples(drained)
         ELSE scratch' = drained /\ UNCHANGED resampler
  /\ UNCHANGED <<microphone, phase, gated, processing, sent, playback, commands, failed>>

(* The pop that finds the ring empty, though a device frame may have come  *)
(* in half.                                                                *)
Drained ==
  /\ phase = "drain" /\ ring = <<>> /\ phase' = "encode"
  /\ scratch' = <<>> /\ PushSamples(scratch)
  /\ UNCHANGED <<microphone, ring, gated, processing, sent, playback, commands, failed>>

Smaller(m, n) == IF m < n THEN m ELSE n
Less(m, n) == IF m < n THEN 0 ELSE m - n

(* Mutant: the release closes at once.                                     *)
MutGate(loud) ==
  /\ gain' = IF loud THEN Smaller(gain + AttackStep * FrameSize, Open) ELSE 0
  /\ hush' = IF loud THEN 0 ELSE hush + 1

(* NoiseGate.process_frame: up to Open in steps of the attack, or down to  *)
(* nothing in steps of the release, one for each sample.                   *)
Gate(loud) ==
  /\ gain' = IF loud THEN Smaller(gain + AttackStep * FrameSize, Open)
             ELSE Less(gain, FrameSize)
  /\ hush' = IF loud THEN 0 ELSE hush + 1

(* LevelMeter.process_frame: what is over the interval is not carried on.  *)
Meter == metered' = IF metered + FrameSize < EmitEvery THEN metered + FrameSize ELSE 0

(* take_frame, and what is done to it before the encoder.                  *)
TakeFrame ==
  /\ phase = "encode" /\ pending >= FrameSize /\ pending' = pending - FrameSize
  /\ IF gated THEN \E loud \in BOOLEAN : Gate(loud) ELSE UNCHANGED <<gain, hush>>
  /\ Meter

(* A frame that encodes: a full transport drops it.                        *)
EncodeFrame ==
  /\ TakeFrame
  /\ sent' = IF sent < TransportSize THEN sent + 1 ELSE sent
  /\ UNCHANGED <<microphone, ring, phase, scratch, mono, torn, blended, resampled, gated, playback,
                 commands, failed>>

(* One that does not ends the tick: what is left waits for the next.       *)
EncodeFails ==
  /\ TakeFrame /\ phase' = "control" /\ failed' = TRUE
  /\ UNCHANGED <<microphone, ring, scratch, mono, torn, blended, resampled, gated, sent, playback,
                 commands>>

Encoded ==
  /\ phase = "encode" /\ pending < FrameSize /\ phase' = "control"
  /\ UNCHANGED <<microphone, ring, scratch, resampler, gated, processing, sent, playback,
                 commands, failed>>

(* audio_send_loop takes the frames.                                       *)
Transmit ==
  /\ sent > 0 /\ sent' = sent - 1
  /\ UNCHANGED <<microphone, ring, phase, scratch, resampler, gated, processing, playback,
                 commands, failed>>

-----------------------------------------------------------------------------
DevicesNext ==
  \/ Deliver \/ Play
  \/ SwitchInput \/ SwitchOutput \/ SetProcessing \/ ControlDrained
  \/ FlushMix \/ Push \/ ReceiveFails \/ ReceivedAll
  \/ Drain \/ Drained \/ EncodeFrame \/ EncodeFails \/ Encoded
  \/ Transmit

DevicesSpec == DevicesInit /\ [][DevicesNext]_deviceVars

-----------------------------------------------------------------------------
Samples == 0 .. MaxSamples - 1

DevicesTypeOK ==
  /\ {capture, gated, blended, failed} \subseteq BOOLEAN
  /\ next \in 0 .. MaxSamples /\ overflowed \in 0 .. MaxSamples /\ torn \in Nat
  /\ phase \in {"control", "receive", "drain", "encode"}
  /\ ring \in Seq(Samples) /\ Len(ring) <= RingSize
  /\ scratch \in Seq(Samples) /\ Len(scratch) < ScratchSize
  /\ mono \in 0 .. FrameSize - 1 /\ pending \in Nat /\ resampled \in Nat
  /\ gain \in 0 .. Open /\ metered \in 0 .. EmitEvery - 1 /\ hush \in Nat
  /\ sent \in 0 .. TransportSize
  /\ speaker \in Seq(Nat) /\ Len(speaker) <= RingSize
  /\ produced \in Nat /\ left \in 0 .. MaxYield /\ played \in Nat
  /\ mixed \in 0 .. MaxMixed /\ commands \in 0 .. MaxCommands

(* "Downmix interleaved device samples to mono": a mono sample is made of  *)
(* the channels of one device frame, unless samples of this microphone were*)
(* lost: to a full ring, or to a downmix that met half a device frame.     *)
ChannelsStayTogether == blended => overflowed > 0 \/ torn > 0

Rising(s) == \A i, j \in DOMAIN s : i < j => s[i] < s[j]

(* Sound is late or lost, never repeated or out of order: neither what the *)
(* microphone delivered nor what the speaker plays ("zero-fill on          *)
(* underflow: never stale samples").                                       *)
SoundKeepsOrder ==
  /\ Rising(scratch \o ring)
  /\ Rising(speaker)
  /\ \A i \in DOMAIN speaker : played <= speaker[i] /\ speaker[i] < produced

(* Every sample of the microphone is where it should be: in the ring, on   *)
(* its way, resampled, or lost in one of the two ways the code has.        *)
SamplesAddUp ==
  next = overflowed + Len(ring) + Len(scratch) + torn + Channels * (mono + resampled)

(* Between two ticks no sample waits that would fill a frame, so the       *)
(* microphone's delay does not grow, unless the tick failed.               *)
NothingIsHeldBack ==
  phase = "control" => scratch = <<>> /\ (pending < FrameSize \/ failed)

(* Sound is late or lost, never repeated, reordered or held back, and what *)
(* the microphone loses is known ("dropping is the only legal option in a  *)
(* callback").                                                             *)
SoundIsWhole == SoundKeepsOrder /\ SamplesAddUp /\ NothingIsHeldBack

(* The gate fades by its release only: it closes no sooner than the release*)
(* after the last loud frame, and a loud frame finds it open by its end,   *)
(* however often it was switched off and on.                               *)
GateFades == gain = Less(Open, hush * FrameSize)
=============================================================================
