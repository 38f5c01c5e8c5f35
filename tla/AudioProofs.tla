----------------------------- MODULE AudioProofs -----------------------------
(***************************************************************************)
(* Commands, speaking rings and frames between the application and its     *)
(* audio thread, for any members, devices, queue sizes and any number of   *)
(* frames and commands.                                                    *)
(***************************************************************************)
EXTENDS Audio, TLAPS

(* The command at i is a setting of k, and the last of them.               *)
Sets(k, i) == control[i][1] = "set" /\ control[i][2] = k
LastSet(k, i) == Sets(k, i) /\ \A j \in i + 1 .. Len(control) : ~Sets(k, j)
Removes(p, i) == control[i] = <<"remove", p>>

(* The queue says what the pipeline is still to have.  A setting of the    *)
(* mixer may be lost when it is carried out, but not before.               *)
SettingInv(k) ==
  /\ k \notin lost \intersect {"gate"} =>
       \A i \in DOMAIN control : LastSet(k, i) => control[i][3] = wants[k]
  /\ k \notin lost /\ (\A i \in DOMAIN control : ~Sets(k, i)) => has[k] = wants[k]
SettingsInv ==
  Running => \A k \in members \union {"deafened", "gate"} : SettingInv(k)

(* Only who has left is removed, and his settings come before that.        *)
RemovalInv ==
  /\ \A i \in DOMAIN control : control[i][1] = "remove" => control[i][2] \notin members
  /\ Running => \A p \in Peers \ members : \A i \in DOMAIN control :
       Sets(p, i) => p \in leaving \/ \E j \in DOMAIN control : i < j /\ Removes(p, j)

Forgotten(p) ==
  /\ \A s \in Sources : s[1] = p => last[s] = Unset
  /\ p \notin speaking /\ has[p] = FALSE
  /\ ~(work # Idle /\ work.src[1] = p)
  /\ \A i \in DOMAIN control : ~Sets(p, i)
ForgetInv ==
  Running => \A p \in Peers \ (members \union revived) :
    p \in leaving \/ (\E i \in DOMAIN control : Removes(p, i)) \/ Forgotten(p)

QuitInv ==
  (quitting /\ ~deaf) =>
    stopped \/ ~Running \/ \E i \in DOMAIN control : control[i] = <<"shutdown">>

(* What the last event of a member says, or its ring if none is queued.    *)
Tells(p, i) == events[i][1] = p
LastTells(p, i) == Tells(p, i) /\ \A j \in i + 1 .. Len(events) : ~Tells(p, j)
RingInv ==
  \A p \in members \ missed :
    /\ \A i \in DOMAIN events : LastTells(p, i) => (events[i][2] <=> p \in speaking)
    /\ (\A i \in DOMAIN events : ~Tells(p, i)) => (p \in ring <=> p \in speaking)

(* The frame that is ingested was not stale, and nothing moves its source  *)
(* meanwhile.                                                              *)
FreshInv == work # Idle => ~Stale(work.src, work.n)

-----------------------------------------------------------------------------
(* Sequences and numbers.                                                  *)

LEMMA Longer ==
  ASSUME NEW S, NEW q \in Seq(S), NEW e \in S
  PROVE  /\ Append(q, e) \in Seq(S) /\ Len(Append(q, e)) = Len(q) + 1
         /\ DOMAIN Append(q, e) = DOMAIN q \union {Len(q) + 1}
         /\ DOMAIN q = 1 .. Len(q) /\ Len(q) \in Nat
         /\ Append(q, e)[Len(q) + 1] = e
         /\ \A i \in DOMAIN q : Append(q, e)[i] = q[i]
OBVIOUS

LEMMA Shorter ==
  ASSUME NEW S, NEW q \in Seq(S), q # <<>>
  PROVE  /\ Tail(q) \in Seq(S) /\ Len(Tail(q)) = Len(q) - 1
         /\ DOMAIN q = 1 .. Len(q) /\ Len(q) \in Nat \ {0}
         /\ DOMAIN Tail(q) = 1 .. Len(q) - 1
         /\ Head(q) = q[1] /\ Head(q) \in S
         /\ \A i \in 1 .. Len(q) - 1 : Tail(q)[i] = q[i + 1]
OBVIOUS

LEMMA WireTyped ==
  ASSUME NEW n \in Nat
  PROVE  Wire(n) \in 0 .. Wrap - 1
BY AudioAssumption DEF Wire

(* The number of a later frame is larger while it does not begin again.    *)
LEMMA WireGrows ==
  ASSUME NEW m \in Nat, NEW n \in Nat, m < n, m \div Wrap = n \div Wrap
  PROVE  Wire(m) < Wire(n)
<1>1. Wrap \in Nat \ {0}
  BY AudioAssumption
<1>2. /\ m = (m \div Wrap) * Wrap + (m % Wrap)
      /\ n = (n \div Wrap) * Wrap + (n % Wrap)
      /\ m \div Wrap \in Nat /\ m % Wrap \in Nat /\ n % Wrap \in Nat
  BY <1>1
<1> DEFINE q == m \div Wrap
<1>3. m = q * Wrap + (m % Wrap) /\ n = q * Wrap + (n % Wrap) /\ q * Wrap \in Nat
  BY <1>1, <1>2
<1> HIDE DEF q
<1>4. m % Wrap < n % Wrap
  BY ONLY <1>2, <1>3, m < n
<1> QED BY <1>4 DEF Wire

-----------------------------------------------------------------------------
(* Types.                                                                  *)

LEMMA WorkTyped ==
  ASSUME TypeOK, work # Idle
  PROVE  /\ phase = "receive" /\ work.src \in Sources /\ work.n \in Numbers
         /\ work.left \in 0 .. MaxPlc /\ work.src[1] \in Peers
         /\ work.n \in Nat /\ last[work.src] \in {Unset} \union 0 .. Wrap - 1
<1>1. phase = "receive" /\ work \in [src : Sources, n : Numbers, left : 0 .. MaxPlc]
  BY DEF TypeOK
<1>2. work.src \in Sources /\ work.n \in Numbers
  BY <1>1
<1>3. work.src \in Peers \X {"mic", "screen"}
  BY <1>2, AudioAssumption
<1>4. work.n \in Nat
  BY <1>2, AudioAssumption DEF Numbers
<1> QED BY <1>1, <1>2, <1>3, <1>4 DEF TypeOK

(* An event that is told, or not.                                          *)
LEMMA VadTyped ==
  ASSUME TypeOK, NEW p \in Peers, NEW level, UpdateVad(p, level)
  PROVE  /\ speaking' \subseteq Peers /\ missed' \subseteq Peers
         /\ events' \in Seq(Peers \X BOOLEAN) /\ Len(events') <= EventSize
<1> DEFINE now == level = "above" \/ (p \in speaking /\ level = "between")
<1>1. now \in BOOLEAN /\ <<p, now>> \in Peers \X BOOLEAN
  OBVIOUS
<1>2. \/ UNCHANGED <<speaking, events, missed>>
      \/ /\ speaking' \in {speaking \union {p}, speaking \ {p}}
         /\ \/ /\ Len(events) < EventSize /\ events' = Append(events, <<p, now>>)
               /\ missed' = missed \ {p}
            \/ events' = events /\ missed' = missed \union {p}
  BY DEF UpdateVad
<1> HIDE DEF now
<1>3. events \in Seq(Peers \X BOOLEAN) /\ Len(events) <= EventSize
      /\ speaking \subseteq Peers /\ missed \subseteq Peers
  BY DEF TypeOK
<1>4. /\ Append(events, <<p, now>>) \in Seq(Peers \X BOOLEAN)
      /\ Len(Append(events, <<p, now>>)) = Len(events) + 1 /\ Len(events) \in Nat
  BY <1>1, <1>3, Longer
<1>5. EventSize \in Nat
  BY AudioAssumption
<1> QED BY ONLY <1>2, <1>3, <1>4, <1>5, p \in Peers

LEMMA MixTyped ==
  ASSUME TypeOK, NEW s \in Sources, DecodeAndMix(s)
  PROVE  /\ speaking' \subseteq Peers /\ missed' \subseteq Peers
         /\ events' \in Seq(Peers \X BOOLEAN) /\ Len(events') <= EventSize
<1>1. s[1] \in Peers
  BY AudioAssumption
<1>2. CASE s[2] = "mic"
  BY <1>1, <1>2, VadTyped DEF DecodeAndMix
<1>3. CASE s[2] # "mic"
  BY <1>3 DEF DecodeAndMix, TypeOK
<1> QED BY <1>2, <1>3

LEMMA SendTyped ==
  ASSUME TypeOK, NEW c \in Commands, Send(c)
  PROVE  control' \in Seq(Commands) /\ Len(control') <= ControlSize
<1>1. control \in Seq(Commands) /\ Len(control) <= ControlSize /\ ControlSize \in Nat
  BY AudioAssumption DEF TypeOK
<1>2. /\ Append(control, c) \in Seq(Commands) /\ Len(Append(control, c)) = Len(control) + 1
      /\ Len(control) \in Nat
  BY <1>1, Longer
<1> QED BY <1>1, <1>2 DEF Send

(* The command that is carried out.                                        *)
LEMMA DrainedCommand ==
  ASSUME TypeOK, DrainControl
  PROVE  /\ phase = "control" /\ work = Idle /\ control # <<>> /\ control' = Tail(control)
         /\ control[1] \in Commands
         /\ \/ \E k \in Knobs, on \in BOOLEAN : control[1] = <<"set", k, on>> /\ Set(k, on)
            \/ \E p \in Peers : control[1] = <<"remove", p>> /\ RemovePeer(p)
            \/ \E d \in Devices : control[1] = <<"output", d>> /\ SwitchOutput(d)
            \/ control[1] = <<"shutdown">> /\ Shutdown
<1>1. phase = "control" /\ control # <<>> /\ control' = Tail(control)
  BY DEF DrainControl
<1>2. work = Idle
  BY <1>1 DEF TypeOK
<1>3. control \in Seq(Commands)
  BY DEF TypeOK
<1>4. Head(control) = control[1] /\ Head(control) \in Commands
  BY <1>1, <1>3, Shorter
<1> DEFINE c == control[1]
<1>5. CASE \E p \in Peers : c = <<"remove", p>>
  <2>1. PICK p \in Peers : c = <<"remove", p>>
    BY <1>5
  <2>2. c[1] = "remove" /\ c[2] = p
    BY <2>1
  <2>3. RemovePeer(p)
    BY <1>4, <2>2 DEF DrainControl
  <2> QED BY <1>1, <1>2, <1>4, <2>1, <2>3
<1>6. CASE \E d \in Devices : c = <<"output", d>>
  <2>1. PICK d \in Devices : c = <<"output", d>>
    BY <1>6
  <2>2. c[1] = "output" /\ c[2] = d
    BY <2>1
  <2>3. SwitchOutput(d)
    BY <1>4, <2>2 DEF DrainControl
  <2> QED BY <1>1, <1>2, <1>4, <2>1, <2>3
<1>7. CASE \E k \in Knobs, on \in BOOLEAN : c = <<"set", k, on>>
  <2>1. PICK k \in Knobs, on \in BOOLEAN : c = <<"set", k, on>>
    BY <1>7
  <2>2. c[1] = "set" /\ c[2] = k /\ c[3] = on
    BY <2>1
  <2>3. Set(k, on)
    BY <1>4, <2>2 DEF DrainControl
  <2> QED BY <1>1, <1>2, <1>4, <2>1, <2>3
<1>8. CASE c = <<"shutdown">>
  <2>1. c[1] = "shutdown"
    BY <1>8
  <2>2. Shutdown
    BY <1>4, <2>1 DEF DrainControl
  <2> QED BY <1>1, <1>2, <1>4, <1>8, <2>2
<1> QED BY <1>4, <1>5, <1>6, <1>7, <1>8 DEF Commands

LEMMA TypeStep == TypeOK /\ [Next]_vars => TypeOK'
<1> SUFFICES ASSUME TypeOK, [Next]_vars PROVE TypeOK'
  OBVIOUS
<1> USE DEF thread, app, history
<1>1. ASSUME NEW s \in Sources, Forward(s) PROVE TypeOK'
  <2>1. UNCHANGED <<control, events, phase, work, stopped, last, speaking, device, has, wants,
                    members, leaving, ring, quitting, commands, heard, missed, lost, revived,
                    deaf>>
    BY <1>1 DEF Forward
  <2>2. PICK n \in flight[s] : /\ flight' = [flight EXCEPT ![s] = @ \ {n}]
                               /\ queue' = Append(queue, <<s, n>>)
    BY <1>1 DEF Forward
  <2>3. flight' \in [Sources -> SUBSET Numbers] /\ <<s, n>> \in Frames
    BY <2>2 DEF TypeOK, Frames
  <2>4. queue' \in Seq(Frames) /\ Len(queue') <= QueueSize
    <3>1. queue \in Seq(Frames) /\ Len(queue) < QueueSize /\ QueueSize \in Nat
      BY <1>1, AudioAssumption DEF Forward, TypeOK
    <3>2. queue' \in Seq(Frames) /\ Len(queue') = Len(queue) + 1 /\ Len(queue) \in Nat
      BY <2>2, <2>3, <3>1, Longer
    <3> QED BY <3>1, <3>2
  <2> QED BY <2>1, <2>3, <2>4 DEF TypeOK
<1>2. CASE Open \/ ControlDrained \/ Received \/ EndTick
  <2>1. UNCHANGED <<flight, queue, control, events, work, stopped, last, speaking, device, has,
                    wants, members, leaving, ring, quitting, commands, heard, missed, lost,
                    revived, deaf>>
    BY <1>2 DEF Open, ControlDrained, Received, EndTick
  <2>2. phase' \in {"opening", "control", "receive", "end", "stopped"} /\ work = Idle
    BY <1>2 DEF Open, ControlDrained, Received, EndTick, TypeOK
  <2> QED BY <2>1, <2>2 DEF TypeOK
<1>3. CASE DrainControl
  <2>1. /\ control' = Tail(control) /\ control # <<>> /\ work = Idle
        /\ UNCHANGED <<flight, queue, events, phase, work, wants, members, leaving, ring,
                       quitting, commands, heard, missed, revived, deaf>>
    BY <1>3, DrainedCommand DEF DrainControl
  <2>2. control' \in Seq(Commands) /\ Len(control') <= ControlSize
    <3>1. control \in Seq(Commands) /\ Len(control) <= ControlSize /\ ControlSize \in Nat
      BY AudioAssumption DEF TypeOK
    <3> QED BY <2>1, <3>1, Shorter
  <2>3. ASSUME NEW k \in Knobs, NEW on \in BOOLEAN, Set(k, on) PROVE TypeOK'
    <3>1. /\ has' \in [Knobs -> BOOLEAN] /\ lost' \subseteq Knobs
          /\ UNCHANGED <<stopped, last, speaking, device>>
      BY <2>3 DEF Set, TypeOK
    <3> QED BY <2>1, <2>2, <3>1 DEF TypeOK
  <2>4. ASSUME NEW p \in Peers, RemovePeer(p) PROVE TypeOK'
    <3>1. /\ last' \in [Sources -> {Unset} \union 0 .. Wrap - 1]
          /\ \A s \in Sources : last'[s] # Unset => heard[s] # Unset /\ last'[s] = Wire(heard[s])
      BY <2>4 DEF RemovePeer, TypeOK
    <3>2. /\ speaking' \subseteq Peers /\ has' \in [Knobs -> BOOLEAN]
          /\ UNCHANGED <<stopped, device, lost>>
      BY <2>4 DEF RemovePeer, TypeOK
    <3> QED BY <2>1, <2>2, <3>1, <3>2 DEF TypeOK
  <2>5. ASSUME NEW d \in Devices, SwitchOutput(d) PROVE TypeOK'
    <3>1. /\ device' \in Devices \union {NoDevice} /\ has' \in [Knobs -> BOOLEAN]
          /\ lost' \subseteq Knobs /\ UNCHANGED <<stopped, last, speaking>>
      BY <2>5 DEF SwitchOutput, MixerKnobs, TypeOK
    <3> QED BY <2>1, <2>2, <3>1 DEF TypeOK
  <2>6. ASSUME Shutdown PROVE TypeOK'
    <3>1. stopped' = TRUE /\ UNCHANGED <<last, speaking, device, has, lost>>
      BY <2>6 DEF Shutdown
    <3> QED BY <2>1, <2>2, <3>1 DEF TypeOK
  <2> QED BY <1>3, <2>3, <2>4, <2>5, <2>6, DrainedCommand
<1>4. CASE Ingest
  <2>1. /\ queue # <<>> /\ queue' = Tail(queue) /\ phase = "receive" /\ work = Idle
        /\ UNCHANGED <<flight, control, events, phase, stopped, last, speaking, device, has,
                       wants, members, leaving, ring, quitting, commands, heard, missed, lost,
                       deaf>>
    BY <1>4 DEF Ingest
  <2>2. queue \in Seq(Frames) /\ Len(queue) <= QueueSize /\ QueueSize \in Nat
    BY AudioAssumption DEF TypeOK
  <2>3. queue' \in Seq(Frames) /\ Len(queue') <= QueueSize /\ Head(queue) \in Frames
    BY <2>1, <2>2, Shorter
  <2> DEFINE s == Head(queue)[1]
             n == Head(queue)[2]
  <2>4. s \in Sources /\ n \in Numbers /\ <<s, n>> \in Frames /\ s[1] \in Peers /\ n \in Nat
    <3>1. s \in Sources /\ n \in Numbers
      BY <2>3 DEF Frames
    <3>2. s \in Peers \X {"mic", "screen"}
      BY <3>1, AudioAssumption
    <3> QED BY <3>1, <3>2, AudioAssumption DEF Frames, Numbers
  <2>5. \/ UNCHANGED <<work, revived>>
        \/ /\ ~Stale(s, n) /\ work' = [src |-> s, n |-> n, left |-> Gap(s, n)]
           /\ revived' \in {revived, revived \union {s[1]}}
    BY <1>4 DEF Ingest
  <2>6. ~Stale(s, n) => Gap(s, n) \in 0 .. MaxPlc
    <3>1. last[s] \in {Unset} \union 0 .. Wrap - 1 /\ MaxPlc \in Nat
      BY <2>4, AudioAssumption DEF TypeOK
    <3>2. Wire(n) \in 0 .. Wrap - 1 /\ Wrap \in Nat
      BY <2>4, WireTyped, AudioAssumption
    <3> QED BY <3>1, <3>2 DEF Stale, Gap, Unset
  <2> HIDE DEF s, n
  <2>7. \/ work' = Idle
        \/ /\ phase' = "receive"
           /\ work' \in [src : Sources, n : Numbers, left : 0 .. MaxPlc]
    BY <2>1, <2>4, <2>5, <2>6
  <2>8. revived' \subseteq Peers
    BY <2>4, <2>5 DEF TypeOK
  <2> QED BY <2>1, <2>3, <2>7, <2>8 DEF TypeOK
<1>5. CASE Conceal
  <2>1. /\ work.left > 0 /\ work' = [work EXCEPT !.left = @ - 1] /\ DecodeAndMix(work.src)
        /\ UNCHANGED <<flight, queue, control, phase, stopped, last, device, has, wants,
                       members, leaving, ring, quitting, commands, heard, lost, revived, deaf>>
    BY <1>5 DEF Conceal
  <2>2. work # Idle
    BY <2>1 DEF Idle
  <2>3. /\ phase = "receive" /\ work.src \in Sources
        /\ work \in [src : Sources, n : Numbers, left : 0 .. MaxPlc]
    BY <2>2 DEF TypeOK
  <2>4. /\ speaking' \subseteq Peers /\ missed' \subseteq Peers
        /\ events' \in Seq(Peers \X BOOLEAN) /\ Len(events') <= EventSize
    BY <2>1, <2>3, MixTyped
  <2>5. work' \in [src : Sources, n : Numbers, left : 0 .. MaxPlc]
    <3>1. work.left - 1 \in 0 .. MaxPlc
      BY <2>1, <2>3, AudioAssumption
    <3> QED BY <2>1, <2>3, <3>1
  <2> QED BY <2>1, <2>3, <2>4, <2>5 DEF TypeOK
<1>6. CASE Decode \/ DecodeFails
  <2>1. /\ work # Idle /\ phase' \in {"receive", "end"} /\ work' = Idle
        /\ UNCHANGED <<flight, queue, control, stopped, device, has, wants, members, leaving,
                       ring, quitting, commands, lost, revived, deaf>>
    BY <1>6 DEF Decode, DecodeFails
  <2>2. work.src \in Sources /\ work.n \in Numbers /\ work.n \in Nat
    BY <2>1, WorkTyped
  <2>3. Wire(work.n) \in 0 .. Wrap - 1 /\ work.n # Unset
    BY <2>2, WireTyped DEF Unset
  <2>4. \/ UNCHANGED <<last, heard>>
        \/ /\ last' = [last EXCEPT ![work.src] = Wire(work.n)]
           /\ heard' = [heard EXCEPT ![work.src] = work.n]
    BY <1>6 DEF Decode, DecodeFails
  <2>5. /\ last' \in [Sources -> {Unset} \union 0 .. Wrap - 1]
        /\ heard' \in [Sources -> {Unset} \union Numbers]
        /\ \A s \in Sources : last'[s] # Unset => heard'[s] # Unset /\ last'[s] = Wire(heard'[s])
    BY <2>2, <2>3, <2>4 DEF TypeOK
  <2>6. UNCHANGED <<speaking, events, missed>> \/ DecodeAndMix(work.src)
    BY <1>6 DEF Decode, DecodeFails
  <2>7. /\ speaking' \subseteq Peers /\ missed' \subseteq Peers
        /\ events' \in Seq(Peers \X BOOLEAN) /\ Len(events') <= EventSize
    <3>1. CASE DecodeAndMix(work.src)
      BY <2>2, <3>1, MixTyped
    <3>2. CASE UNCHANGED <<speaking, events, missed>>
      BY <3>2 DEF TypeOK
    <3> QED BY <2>6, <3>1, <3>2
  <2> QED BY <2>1, <2>5, <2>7 DEF TypeOK
<1>7. ASSUME NEW k \in MixerKnobs, TurnMixerKnob(k) PROVE TypeOK'
  <2>1. /\ UNCHANGED <<flight, queue, events, phase, work, stopped, last, speaking, device, has,
                       members, leaving, ring, quitting, heard, missed, lost, revived, deaf>>
        /\ wants' = [wants EXCEPT ![k] = ~@] /\ Send(<<"set", k, wants'[k]>>)
        /\ commands < MaxCommands /\ commands' = commands + 1
    BY <1>7 DEF TurnMixerKnob, UserActs
  <2>2. k \in Knobs /\ wants' \in [Knobs -> BOOLEAN] /\ wants'[k] \in BOOLEAN
    BY <2>1 DEF MixerKnobs, TypeOK
  <2>3. commands' \in 0 .. MaxCommands
    BY <2>1, AudioAssumption DEF TypeOK
  <2>4. <<"set", k, wants'[k]>> \in Commands
    BY <2>2 DEF Commands
  <2>5. control' \in Seq(Commands) /\ Len(control') <= ControlSize
    BY <2>1, <2>4, SendTyped
  <2> QED BY <2>1, <2>2, <2>3, <2>5 DEF TypeOK
<1>8. CASE TurnGate
  <2>1. /\ UNCHANGED <<flight, queue, events, phase, work, stopped, last, speaking, device, has,
                       members, leaving, ring, quitting, heard, missed, revived, deaf>>
        /\ wants' = [wants EXCEPT !["gate"] = ~@]
        /\ commands < MaxCommands /\ commands' = commands + 1
        /\ lost' \in {lost \ {"gate"}, lost \union {"gate"}}
    BY <1>8 DEF TurnGate, UserActs
  <2>2. "gate" \in Knobs /\ wants' \in [Knobs -> BOOLEAN] /\ wants'["gate"] \in BOOLEAN
    BY <2>1 DEF Knobs, TypeOK
  <2>3. commands' \in 0 .. MaxCommands /\ lost' \subseteq Knobs
    BY <2>1, <2>2, AudioAssumption DEF TypeOK
  <2>4. <<"set", "gate", wants'["gate"]>> \in Commands
    BY <2>2 DEF Commands
  <2>5. UNCHANGED control \/ (Send(<<"set", "gate", wants'["gate"]>>) /\ Running)
    BY <1>8 DEF TurnGate, Send
  <2>6. control' \in Seq(Commands) /\ Len(control') <= ControlSize
    <3>1. CASE UNCHANGED control
      BY <3>1 DEF TypeOK
    <3> QED BY <2>4, <2>5, <3>1, SendTyped
  <2> QED BY <2>1, <2>2, <2>3, <2>6 DEF TypeOK
<1>9. ASSUME NEW d \in Devices, SelectOutput(d) PROVE TypeOK'
  <2>1. /\ UNCHANGED <<flight, queue, events, phase, work, stopped, last, speaking, device, has,
                       wants, members, leaving, ring, quitting, heard, missed, lost, revived,
                       deaf>>
        /\ Send(<<"output", d>>) /\ commands < MaxCommands /\ commands' = commands + 1
    BY <1>9 DEF SelectOutput, UserActs
  <2>2. commands' \in 0 .. MaxCommands
    BY <2>1, AudioAssumption DEF TypeOK
  <2>3. <<"output", d>> \in Commands
    BY DEF Commands
  <2>4. control' \in Seq(Commands) /\ Len(control') <= ControlSize
    BY <2>1, <2>3, SendTyped
  <2> QED BY <2>1, <2>2, <2>4 DEF TypeOK
<1>10. ASSUME NEW p \in Peers, PeerLeft(p) \/ PeerDisconnected(p) PROVE TypeOK'
  <2>1. /\ UNCHANGED <<flight, queue, events, phase, work, stopped, last, speaking, device, has,
                       quitting, commands, heard, missed, lost, revived, deaf>>
        /\ Send(<<"remove", p>>)
    BY <1>10 DEF PeerLeft, PeerDisconnected
  <2>2. <<"remove", p>> \in Commands
    BY DEF Commands
  <2>3. control' \in Seq(Commands) /\ Len(control') <= ControlSize
    BY <2>1, <2>2, SendTyped
  <2>4. /\ wants' \in [Knobs -> BOOLEAN] /\ members' \subseteq Peers
        /\ leaving' \subseteq Peers \ members' /\ ring' \subseteq members'
    BY <1>10 DEF PeerLeft, PeerDisconnected, RemoveTile, TypeOK
  <2> QED BY <2>1, <2>3, <2>4 DEF TypeOK
<1>11. CASE HandleAudioEvent
  <2>1. /\ UNCHANGED <<flight, queue, control, phase, work, stopped, last, speaking, device, has,
                       wants, members, leaving, quitting, commands, heard, missed, lost, revived,
                       deaf>>
        /\ events # <<>> /\ events' = Tail(events)
    BY <1>11 DEF HandleAudioEvent
  <2>2. ring' \subseteq members
    BY <1>11 DEF HandleAudioEvent, TypeOK
  <2>3. events' \in Seq(Peers \X BOOLEAN) /\ Len(events') <= EventSize
    <3>1. events \in Seq(Peers \X BOOLEAN) /\ Len(events) <= EventSize /\ EventSize \in Nat
      BY AudioAssumption DEF TypeOK
    <3> QED BY <2>1, <3>1, Shorter
  <2> QED BY <2>1, <2>2, <2>3 DEF TypeOK
<1>12. CASE Quit
  <2>1. /\ UNCHANGED <<flight, queue, events, phase, work, stopped, last, speaking, device, has,
                       wants, members, leaving, ring, commands, heard, missed, lost, revived>>
        /\ quitting' = TRUE /\ deaf' \in BOOLEAN
    BY <1>12 DEF Quit, Running, TypeOK
  <2>2. UNCHANGED control \/ (Send(<<"shutdown">>) /\ Running)
    BY <1>12 DEF Quit, Send
  <2>3. <<"shutdown">> \in Commands
    BY DEF Commands
  <2>4. control' \in Seq(Commands) /\ Len(control') <= ControlSize
    <3>1. CASE UNCHANGED control
      BY <3>1 DEF TypeOK
    <3> QED BY <2>2, <2>3, <3>1, SendTyped
  <2> QED BY <2>1, <2>4 DEF TypeOK
<1>13. CASE UNCHANGED vars
  BY <1>13 DEF vars, TypeOK
<1> QED
  BY <1>1, <1>2, <1>3, <1>4, <1>5, <1>6, <1>7, <1>8, <1>9, <1>10, <1>11, <1>12, <1>13
     DEF Next, AudioThread

-----------------------------------------------------------------------------
(* The queue of commands, by its places.                                   *)

LEMMA PushStep ==
  ASSUME TypeOK, NEW c \in Commands, control' = Append(control, c)
  PROVE  /\ Len(control) \in Nat /\ Len(control') = Len(control) + 1
         /\ DOMAIN control = 1 .. Len(control) /\ DOMAIN control' = 1 .. Len(control) + 1
         /\ control'[Len(control) + 1] = c
         /\ \A i \in 1 .. Len(control) : control'[i] = control[i]
<1>1. control \in Seq(Commands)
  BY DEF TypeOK
<1>2. /\ Len(control') = Len(control) + 1
      /\ DOMAIN control' = DOMAIN control \union {Len(control) + 1}
      /\ DOMAIN control = 1 .. Len(control) /\ Len(control) \in Nat
      /\ control'[Len(control) + 1] = c
      /\ \A i \in DOMAIN control : control'[i] = control[i]
  BY <1>1, Longer
<1> QED BY ONLY <1>2

LEMMA PopStep ==
  ASSUME TypeOK, control # <<>>, control' = Tail(control)
  PROVE  /\ Len(control) \in Nat \ {0} /\ Len(control') = Len(control) - 1
         /\ DOMAIN control = 1 .. Len(control) /\ DOMAIN control' = 1 .. Len(control) - 1
         /\ \A i \in 1 .. Len(control) - 1 : control'[i] = control[i + 1]
<1>1. control \in Seq(Commands)
  BY DEF TypeOK
<1> QED BY <1>1, Shorter

(* What the user sets, and what another command leaves of it.              *)
LEMMA PushSetting ==
  ASSUME TypeOK, NEW k \in Knobs, <<"set", k, wants'[k]>> \in Commands,
         control' = Append(control, <<"set", k, wants'[k]>>)
  PROVE  SettingInv(k)'
<1>0. PICK n \in Nat : n = Len(control) + 1
  BY PushStep
<1>1. /\ n \in Nat \ {0} /\ Len(control') = n /\ DOMAIN control' = 1 .. n
      /\ control'[n] = <<"set", k, wants'[k]>>
  BY <1>0, PushStep
<1>2. Sets(k, n)' /\ control'[n][3] = wants'[k] /\ n \in DOMAIN control'
  BY <1>1 DEF Sets
<1>3. ASSUME NEW i \in DOMAIN control', LastSet(k, i)' PROVE i = n
  <2>1. \A j \in i + 1 .. Len(control') : ~Sets(k, j)'
    BY <1>3 DEF LastSet
  <2>2. ~(n \in i + 1 .. n)
    BY <1>1, <1>2, <2>1
  <2> QED BY <1>1, <2>2
<1> QED BY <1>2, <1>3 DEF SettingInv

LEMMA PushOther ==
  ASSUME TypeOK, NEW k \in Knobs, NEW c \in Commands, SettingInv(k),
         control' = Append(control, c), ~(c[1] = "set" /\ c[2] = k),
         wants'[k] = wants[k], has'[k] = has[k], k \in lost' <=> k \in lost
  PROVE  SettingInv(k)'
<1>0. PICK n \in Nat : n = Len(control) + 1
  BY PushStep
<1>1. /\ n \in Nat \ {0} /\ Len(control) = n - 1 /\ Len(control') = n
      /\ DOMAIN control = 1 .. n - 1 /\ DOMAIN control' = 1 .. n
      /\ control'[n] = c /\ \A i \in 1 .. n - 1 : control'[i] = control[i]
  BY <1>0, PushStep
<1>2. ~Sets(k, n)' /\ \A i \in 1 .. n - 1 : Sets(k, i)' <=> Sets(k, i)
  BY <1>1 DEF Sets
<1>3. ASSUME NEW i \in 1 .. n, LastSet(k, i)' PROVE i \in 1 .. n - 1 /\ LastSet(k, i)
  <2>1. i # n
    BY <1>2, <1>3 DEF LastSet
  <2>2. i \in 1 .. n - 1
    BY <1>1, <2>1
  <2>3. \A j \in i + 1 .. n - 1 : ~Sets(k, j)
    BY <1>1, <1>2, <1>3, <2>2 DEF LastSet
  <2> QED BY <1>1, <1>2, <1>3, <2>2, <2>3 DEF LastSet
<1>4. ASSUME k \notin lost' \intersect {"gate"}, NEW i \in DOMAIN control', LastSet(k, i)'
      PROVE  control'[i][3] = wants'[k]
  BY <1>1, <1>3, <1>4 DEF SettingInv
<1>5. ASSUME k \notin lost', \A i \in DOMAIN control' : ~Sets(k, i)'
      PROVE  has'[k] = wants'[k]
  BY <1>1, <1>2, <1>5 DEF SettingInv
<1> QED BY <1>4, <1>5 DEF SettingInv

LEMMA PopSetting ==
  ASSUME TypeOK, NEW k \in Knobs, SettingInv(k),
         control # <<>>, control' = Tail(control), wants'[k] = wants[k],
         k \notin lost' \intersect {"gate"} => k \notin lost \intersect {"gate"},
         k \notin lost' => IF Sets(k, 1) THEN has'[k] = control[1][3]
                           ELSE k \notin lost /\ has'[k] = has[k]
  PROVE  SettingInv(k)'
<1> DEFINE n == Len(control)
<1>1. /\ n \in Nat \ {0} /\ Len(control') = n - 1
      /\ DOMAIN control = 1 .. n /\ DOMAIN control' = 1 .. n - 1
      /\ \A i \in 1 .. n - 1 : control'[i] = control[i + 1]
  BY PopStep
<1>n. Len(control) = n
  OBVIOUS
<1> HIDE DEF n
<1>2. \A i \in 1 .. n - 1 : Sets(k, i)' <=> Sets(k, i + 1)
  BY <1>1 DEF Sets
<1>3. ASSUME NEW i \in 1 .. n - 1, LastSet(k, i)' PROVE i + 1 \in 1 .. n /\ LastSet(k, i + 1)
  <2>1. i + 1 \in 1 .. n /\ Sets(k, i + 1)
    BY <1>1, <1>2, <1>3 DEF LastSet
  <2>2. ASSUME NEW j \in i + 2 .. n PROVE ~Sets(k, j)
    <3>1. j - 1 \in i + 1 .. n - 1 /\ j - 1 \in 1 .. n - 1 /\ (j - 1) + 1 = j
      BY <1>1, <2>2
    <3>2. ~Sets(k, j - 1)'
      BY <1>1, <1>3, <3>1 DEF LastSet
    <3> QED BY <1>2, <3>1, <3>2
  <2>3. \A j \in (i + 1) + 1 .. n : ~Sets(k, j)
    BY <2>2
  <2> QED BY <1>n, <2>1, <2>3 DEF LastSet
<1>4. ASSUME k \notin lost' \intersect {"gate"}, NEW i \in DOMAIN control', LastSet(k, i)'
      PROVE  control'[i][3] = wants'[k]
  <2>1. i \in 1 .. n - 1 /\ i + 1 \in 1 .. n /\ LastSet(k, i + 1) /\ control'[i] = control[i + 1]
    BY <1>1, <1>3, <1>4
  <2>2. control[i + 1][3] = wants[k]
    BY <1>1, <1>4, <2>1 DEF SettingInv
  <2> QED BY <2>1, <2>2
<1>5. ASSUME k \notin lost', \A i \in DOMAIN control' : ~Sets(k, i)'
      PROVE  has'[k] = wants'[k]
  <2>1. ASSUME NEW j \in 2 .. n PROVE ~Sets(k, j)
    <3>1. j - 1 \in 1 .. n - 1 /\ (j - 1) + 1 = j
      BY <1>1, <2>1
    <3> QED BY <1>1, <1>2, <1>5, <3>1
  <2>2. CASE Sets(k, 1)
    <3>1. LastSet(k, 1) /\ 1 \in DOMAIN control
      BY <1>1, <1>n, <2>1, <2>2 DEF LastSet
    <3>2. control[1][3] = wants[k]
      BY <1>5, <3>1 DEF SettingInv
    <3> QED BY <1>5, <2>2, <3>2
  <2>3. CASE ~Sets(k, 1)
    <3>1. \A i \in DOMAIN control : ~Sets(k, i)
      <4>1. \A i \in 1 .. n : i = 1 \/ i \in 2 .. n
        BY <1>1
      <4> QED BY <1>1, <2>1, <2>3, <4>1
    <3> QED BY <1>5, <2>3, <3>1 DEF SettingInv
  <2> QED BY <2>2, <2>3
<1> QED BY <1>4, <1>5 DEF SettingInv

-----------------------------------------------------------------------------
(* The application's sends while the thread runs.                          *)

LEMMA SendPushes ==
  ASSUME NEW c, Send(c), Running
  PROVE  control' = Append(control, c)
BY DEF Send

LEMMA StoppedStays == [Next]_vars /\ Running' => Running
<1> SUFFICES ASSUME [Next]_vars, ~Running PROVE ~Running'
  OBVIOUS
<1>1. phase = "stopped"
  BY DEF Running
<1>2. phase' = phase
  BY <1>1 DEF Next, AudioThread, Forward, Open, DrainControl, ControlDrained, Ingest, Conceal,
     Decode, DecodeFails, Received, EndTick, TurnMixerKnob, TurnGate, SelectOutput, PeerLeft,
     PeerDisconnected, HandleAudioEvent, Quit, vars, thread
<1> QED BY <1>1, <1>2 DEF Running

(* The steps that touch neither the commands nor what they set.            *)
Elsewhere ==
  \/ \E s \in Sources : Forward(s)
  \/ Open \/ ControlDrained \/ Ingest \/ Conceal \/ Decode \/ DecodeFails \/ Received \/ EndTick
  \/ HandleAudioEvent
  \/ UNCHANGED vars

LEMMA StepCases ==
  ASSUME [Next]_vars
  PROVE  \/ Elsewhere \/ DrainControl
         \/ \E k \in MixerKnobs : TurnMixerKnob(k)
         \/ TurnGate
         \/ \E d \in Devices : SelectOutput(d)
         \/ \E p \in Peers : PeerLeft(p)
         \/ \E p \in Peers : PeerDisconnected(p)
         \/ Quit
BY DEF Next, AudioThread, Elsewhere

LEMMA ElsewhereKeeps ==
  ASSUME Elsewhere
  PROVE  UNCHANGED <<control, has, wants, lost, members, leaving, quitting, deaf, stopped>>
BY DEF Elsewhere, Forward, Open, ControlDrained, Ingest, Conceal, Decode, DecodeFails, Received,
   EndTick, HandleAudioEvent, vars, thread, app, history

LEMMA SettingsStep ==
  TypeOK /\ RemovalInv /\ SettingsInv /\ [Next]_vars => SettingsInv'
<1> SUFFICES ASSUME TypeOK, RemovalInv, SettingsInv, [Next]_vars, Running',
                    NEW k \in (members \union {"deafened", "gate"})'
             PROVE  SettingInv(k)'
  BY DEF SettingsInv
<1>r. Running
  BY StoppedStays
<1>m. members' \subseteq members
  BY DEF Next, AudioThread, Forward, Open, DrainControl, ControlDrained, Ingest, Conceal,
     Decode, DecodeFails, Received, EndTick, TurnMixerKnob, TurnGate, SelectOutput, PeerLeft,
     RemoveTile, PeerDisconnected, HandleAudioEvent, Quit, vars, app
<1>k. k \in members \union {"deafened", "gate"} /\ k \in Knobs
  BY <1>m DEF Knobs, TypeOK
<1>i. SettingInv(k)
  BY <1>r, <1>k DEF SettingsInv
<1>same. ASSUME control' = control, wants'[k] = wants[k], has'[k] = has[k],
                k \in lost' <=> k \in lost
         PROVE  SettingInv(k)'
  BY <1>i, <1>same DEF SettingInv, LastSet, Sets
<1>1. CASE Elsewhere
  BY <1>1, <1>same, ElsewhereKeeps
<1>2. CASE DrainControl
  <2>1. control # <<>> /\ control' = Tail(control) /\ wants' = wants
    BY <1>2, DrainedCommand DEF DrainControl, app
  <2>2. ASSUME NEW j \in Knobs, NEW on \in BOOLEAN, control[1] = <<"set", j, on>>, Set(j, on)
        PROVE  SettingInv(k)'
    <3>1. (Sets(k, 1) <=> k = j) /\ control[1][3] = on
      BY <2>2 DEF Sets
    <3>2. k \notin lost' \intersect {"gate"} => k \notin lost \intersect {"gate"}
      BY <2>2 DEF Set
    <3>3. k = j /\ k \notin lost' => has'[k] = on
      BY <1>k, <2>2 DEF Set, TypeOK
    <3>4. k # j /\ k \notin lost' => k \notin lost /\ has'[k] = has[k]
      BY <1>k, <2>2 DEF Set, TypeOK
    <3> QED BY <1>i, <1>k, <2>1, <3>1, <3>2, <3>3, <3>4, PopSetting
  <2>3. ASSUME NEW p \in Peers, control[1] = <<"remove", p>>, RemovePeer(p)
        PROVE  SettingInv(k)'
    <3>1. p \notin members
      <4>1. 1 \in DOMAIN control
        BY <2>1, PopStep
      <4>2. control[1][1] = "remove" /\ control[1][2] = p
        BY <2>3
      <4> QED BY <4>1, <4>2 DEF RemovalInv
    <3>2. k # p
      BY <1>k, <3>1, AudioAssumption
    <3>3. ~Sets(k, 1)
      BY <2>3 DEF Sets
    <3>4. lost' = lost /\ has'[k] = has[k]
      BY <1>k, <2>3, <3>2 DEF RemovePeer, TypeOK
    <3>5. k \notin lost' => IF Sets(k, 1) THEN has'[k] = control[1][3]
                            ELSE k \notin lost /\ has'[k] = has[k]
      BY <3>3, <3>4
    <3>6. k \notin lost' \intersect {"gate"} => k \notin lost \intersect {"gate"}
      BY <3>4
    <3> QED BY <1>i, <1>k, <2>1, <3>5, <3>6, PopSetting
  <2>4. ASSUME NEW d \in Devices, control[1] = <<"output", d>>, SwitchOutput(d)
        PROVE  SettingInv(k)'
    <3>1. ~Sets(k, 1)
      BY <2>4 DEF Sets
    <3>2. k \notin lost' \intersect {"gate"} => k \notin lost \intersect {"gate"}
      BY <2>4 DEF SwitchOutput, MixerKnobs
    <3>3. ASSUME k \notin lost' PROVE k \notin lost /\ has'[k] = has[k]
      <4>1. CASE UNCHANGED <<device, has, lost>>
        BY <3>3, <4>1
      <4>2. CASE ~UNCHANGED <<device, has, lost>>
        <5>1. /\ has' = [j \in Knobs |-> j = "gate" /\ has[j]]
              /\ lost' = lost \union {j \in MixerKnobs : has[j]}
          BY <2>4, <4>2 DEF SwitchOutput
        <5>2. has[k] \in BOOLEAN /\ has'[k] = (k = "gate" /\ has[k])
          BY <1>k, <5>1 DEF TypeOK
        <5>3. k # "gate" => ~has[k]
          BY <1>k, <3>3, <5>1 DEF MixerKnobs
        <5> QED BY <3>3, <5>1, <5>2, <5>3
      <4> QED BY <4>1, <4>2
    <3>4. k \notin lost' => IF Sets(k, 1) THEN has'[k] = control[1][3]
                            ELSE k \notin lost /\ has'[k] = has[k]
      BY <3>1, <3>3
    <3> QED BY <1>i, <1>k, <2>1, <3>2, <3>4, PopSetting
  <2>5. ASSUME control[1] = <<"shutdown">>, Shutdown
        PROVE  SettingInv(k)'
    <3>1. ~Sets(k, 1) /\ lost' = lost /\ has' = has
      BY <2>5 DEF Sets, Shutdown
    <3>2. k \notin lost' => IF Sets(k, 1) THEN has'[k] = control[1][3]
                            ELSE k \notin lost /\ has'[k] = has[k]
      BY <3>1
    <3>3. k \notin lost' \intersect {"gate"} => k \notin lost \intersect {"gate"}
      BY <3>1
    <3> QED BY <1>i, <1>k, <2>1, <3>2, <3>3, PopSetting
  <2> QED BY <1>2, <2>2, <2>3, <2>4, <2>5, DrainedCommand
<1>3. ASSUME NEW j \in MixerKnobs, TurnMixerKnob(j) PROVE SettingInv(k)'
  <2>1. /\ wants' = [wants EXCEPT ![j] = ~@] /\ has' = has /\ lost' = lost
        /\ control' = Append(control, <<"set", j, wants'[j]>>)
    BY <1>3, <1>r, SendPushes DEF TurnMixerKnob, thread, history
  <2>2. j \in Knobs /\ wants'[j] \in BOOLEAN
    BY <2>1 DEF MixerKnobs, TypeOK
  <2>3. PICK c \in Commands : c = <<"set", j, wants'[j]>>
    <3>1. <<"set", j, wants'[j]>> \in Commands
      BY <2>2 DEF Commands
    <3> QED BY <3>1
  <2>4. CASE k = j
    BY <2>1, <2>3, <2>4, <1>k, PushSetting
  <2>5. CASE k # j
    <3>1. ~(c[1] = "set" /\ c[2] = k) /\ wants'[k] = wants[k]
      BY <1>k, <2>1, <2>3, <2>5 DEF TypeOK
    <3> QED BY <1>i, <1>k, <2>1, <2>3, <3>1, PushOther
  <2> QED BY <2>4, <2>5
<1>4. CASE TurnGate
  <2>1. wants' = [wants EXCEPT !["gate"] = ~@] /\ has' = has
    BY <1>4 DEF TurnGate, thread
  <2>2. "gate" \in Knobs /\ wants'["gate"] \in BOOLEAN
    BY <2>1 DEF Knobs, TypeOK
  <2>3. PICK c \in Commands : c = <<"set", "gate", wants'["gate"]>>
    <3>1. <<"set", "gate", wants'["gate"]>> \in Commands
      BY <2>2 DEF Commands
    <3> QED BY <3>1
  <2>4. k # "gate" => /\ ~(c[1] = "set" /\ c[2] = k) /\ wants'[k] = wants[k]
    BY <1>k, <2>1, <2>3 DEF TypeOK
  <2>5. \/ control' = Append(control, c) /\ lost' = lost \ {"gate"}
        \/ control' = control /\ lost' = lost \union {"gate"}
    BY <1>4, <2>3 DEF TurnGate
  <2>6. CASE control' = Append(control, c) /\ lost' = lost \ {"gate"}
    <3>1. CASE k = "gate"
      BY <1>k, <2>3, <2>6, <3>1, PushSetting
    <3>2. CASE k # "gate"
      <4>1. k \in lost' <=> k \in lost
        BY <2>6, <3>2
      <4> QED BY <1>i, <1>k, <2>1, <2>4, <2>6, <3>2, <4>1, PushOther
    <3> QED BY <3>1, <3>2
  <2>7. CASE control' = control /\ lost' = lost \union {"gate"}
    <3>1. CASE k = "gate"
      BY <2>7, <3>1 DEF SettingInv
    <3>2. CASE k # "gate"
      BY <1>same, <2>1, <2>4, <2>7, <3>2
    <3> QED BY <3>1, <3>2
  <2> QED BY <2>5, <2>6, <2>7
<1>5. ASSUME NEW d \in Devices, SelectOutput(d) PROVE SettingInv(k)'
  <2>1. wants' = wants /\ has' = has /\ lost' = lost
        /\ control' = Append(control, <<"output", d>>)
    BY <1>5, <1>r, SendPushes DEF SelectOutput, thread, history
  <2>2. PICK c \in Commands : c = <<"output", d>>
    <3>1. <<"output", d>> \in Commands
      BY DEF Commands
    <3> QED BY <3>1
  <2>3. ~(c[1] = "set" /\ c[2] = k)
    BY <2>2
  <2> QED BY <1>i, <1>k, <2>1, <2>2, <2>3, PushOther
<1>6. ASSUME NEW p \in Peers, PeerLeft(p) \/ PeerDisconnected(p) PROVE SettingInv(k)'
  <2>1. has' = has /\ lost' = lost /\ control' = Append(control, <<"remove", p>>)
    BY <1>6, <1>r, SendPushes DEF PeerLeft, PeerDisconnected, thread, history
  <2>2. PICK c \in Commands : c = <<"remove", p>>
    <3>1. <<"remove", p>> \in Commands
      BY DEF Commands
    <3> QED BY <3>1
  <2>3. ~(c[1] = "set" /\ c[2] = k)
    BY <2>2
  <2>4. wants'[k] = wants[k]
    <3>1. CASE PeerLeft(p)
      <4>1. members' = members \ {p} /\ wants' = [wants EXCEPT ![p] = FALSE]
        BY <3>1 DEF PeerLeft, RemoveTile
      <4>2. k # p
        BY <4>1, AudioAssumption
      <4> QED BY <1>k, <4>1, <4>2 DEF TypeOK
    <3>2. CASE PeerDisconnected(p)
      BY <3>2 DEF PeerDisconnected
    <3> QED BY <1>6, <3>1, <3>2
  <2> QED BY <1>i, <1>k, <2>1, <2>2, <2>3, <2>4, PushOther
<1>7. CASE Quit
  <2>1. wants' = wants /\ has' = has /\ lost' = lost
        /\ (control' = control \/ control' = Append(control, <<"shutdown">>))
    BY <1>7 DEF Quit, thread
  <2>2. PICK c \in Commands : c = <<"shutdown">>
    <3>1. <<"shutdown">> \in Commands
      BY DEF Commands
    <3> QED BY <3>1
  <2>3. ~(c[1] = "set" /\ c[2] = k)
    BY <2>2
  <2>4. CASE control' = control
    BY <1>same, <2>1, <2>4
  <2>5. CASE control' = Append(control, <<"shutdown">>)
    BY <1>i, <1>k, <2>1, <2>2, <2>3, <2>5, PushOther
  <2> QED BY <2>1, <2>4, <2>5
<1> QED BY <1>1, <1>2, <1>3, <1>4, <1>5, <1>6, <1>7, StepCases

-----------------------------------------------------------------------------
(* Removals and the end.                                                   *)

LEMMA Pushed ==
  ASSUME TypeOK, NEW c \in Commands, control' = Append(control, c)
  PROVE  \E n \in Nat \ {0} :
           /\ DOMAIN control = 1 .. n - 1 /\ DOMAIN control' = 1 .. n
           /\ control'[n] = c /\ \A i \in 1 .. n - 1 : control'[i] = control[i]
<1>0. PICK n \in Nat : n = Len(control) + 1
  BY PushStep
<1>1. /\ n \in Nat \ {0} /\ DOMAIN control = 1 .. n - 1 /\ DOMAIN control' = 1 .. n
      /\ control'[n] = c /\ \A i \in 1 .. n - 1 : control'[i] = control[i]
  BY <1>0, PushStep
<1> QED BY <1>1

(* The command a step of the application sends.                            *)
LEMMA SentCommand ==
  ASSUME TypeOK, Running, [Next]_vars, ~Elsewhere, ~DrainControl
  PROVE  /\ UNCHANGED <<last, speaking, device, has, work, stopped, phase, revived>>
         /\ \/ control' = control /\ UNCHANGED <<members, leaving>>
            \/ \E c \in Commands :
                 /\ control' = Append(control, c)
                 /\ \/ /\ c[1] # "remove" /\ UNCHANGED <<members, leaving>>
                       /\ c[1] = "set" => c[2] \in {"deafened", "gate"} \union members
                    \/ \E p \in Peers :
                         /\ c = <<"remove", p>> /\ members' = members \ {p}
                         /\ leaving' \in {leaving \union {p}, leaving \ {p}}
                         /\ p \in members \union leaving
<1>1. ASSUME NEW k \in MixerKnobs, TurnMixerKnob(k)
      PROVE  /\ UNCHANGED <<last, speaking, device, has, work, stopped, phase, revived>>
             /\ \E c \in Commands :
                 /\ control' = Append(control, c)
                 /\ c[1] = "set" /\ UNCHANGED <<members, leaving>>
                 /\ c[2] \in {"deafened"} \union members
  <2>1. /\ wants' = [wants EXCEPT ![k] = ~@]
        /\ control' = Append(control, <<"set", k, wants'[k]>>)
        /\ UNCHANGED <<members, leaving>> /\ k \in {"deafened"} \union members
    BY <1>1, SendPushes DEF TurnMixerKnob
  <2>2. k \in Knobs /\ wants'[k] \in BOOLEAN
    BY <2>1 DEF MixerKnobs, TypeOK
  <2>3. <<"set", k, wants'[k]>> \in Commands
    BY <2>2 DEF Commands
  <2>4. PICK c \in Commands : c = <<"set", k, wants'[k]>>
    BY <2>3
  <2>5. c[1] = "set" /\ c[2] = k /\ control' = Append(control, c)
    BY <2>1, <2>4
  <2>6. UNCHANGED <<last, speaking, device, has, work, stopped, phase, revived>>
    BY <1>1 DEF TurnMixerKnob, thread, history
  <2> QED BY <2>1, <2>5, <2>6
<1>2. ASSUME TurnGate
      PROVE  /\ UNCHANGED <<last, speaking, device, has, work, stopped, phase, revived,
                            members, leaving>>
             /\ \/ control' = control
                \/ \E c \in Commands :
                     control' = Append(control, c) /\ c[1] = "set" /\ c[2] = "gate"
  <2>1. /\ wants' = [wants EXCEPT !["gate"] = ~@] /\ UNCHANGED <<members, leaving>>
        /\ \/ control' = control
           \/ control' = Append(control, <<"set", "gate", wants'["gate"]>>)
    BY <1>2 DEF TurnGate
  <2>2. "gate" \in Knobs /\ wants'["gate"] \in BOOLEAN
    BY <2>1 DEF Knobs, TypeOK
  <2>3. <<"set", "gate", wants'["gate"]>> \in Commands
    BY <2>2 DEF Commands
  <2>4. PICK c \in Commands : c = <<"set", "gate", wants'["gate"]>>
    BY <2>3
  <2>5. c[1] = "set" /\ c[2] = "gate" /\ (control' = control \/ control' = Append(control, c))
    BY <2>1, <2>4
  <2>6. UNCHANGED <<last, speaking, device, has, work, stopped, phase, revived>>
    BY <1>2 DEF TurnGate, thread
  <2> QED BY <2>1, <2>5, <2>6
<1>3. ASSUME NEW d \in Devices, SelectOutput(d)
      PROVE  /\ UNCHANGED <<last, speaking, device, has, work, stopped, phase, revived,
                            members, leaving>>
             /\ \E c \in Commands : control' = Append(control, c) /\ c[1] = "output"
  <2>1. control' = Append(control, <<"output", d>>) /\ UNCHANGED <<members, leaving>>
        /\ UNCHANGED <<last, speaking, device, has, work, stopped, phase, revived>>
    BY <1>3, SendPushes DEF SelectOutput, thread, history
  <2>2. <<"output", d>> \in Commands
    BY DEF Commands
  <2> QED BY <2>1, <2>2
<1>4. ASSUME NEW p \in Peers, PeerLeft(p) \/ PeerDisconnected(p)
      PROVE  /\ UNCHANGED <<last, speaking, device, has, work, stopped, phase, revived>>
             /\ control' = Append(control, <<"remove", p>>)
             /\ members' = members \ {p} /\ p \in members \union leaving
             /\ leaving' \in {leaving \union {p}, leaving \ {p}}
  <2>1. UNCHANGED <<last, speaking, device, has, work, stopped, phase, revived>>
        /\ control' = Append(control, <<"remove", p>>)
    BY <1>4, SendPushes DEF PeerLeft, PeerDisconnected, thread, history
  <2>2. CASE PeerLeft(p)
    BY <2>1, <2>2 DEF PeerLeft, RemoveTile
  <2>3. CASE PeerDisconnected(p)
    BY <2>1, <2>3 DEF PeerDisconnected, TypeOK
  <2> QED BY <1>4, <2>2, <2>3
<1>5. ASSUME NEW p \in Peers PROVE <<"remove", p>> \in Commands
  BY DEF Commands
<1>6. ASSUME Quit
      PROVE  /\ UNCHANGED <<last, speaking, device, has, work, stopped, phase, revived,
                            members, leaving>>
             /\ \/ control' = control
                \/ \E c \in Commands : control' = Append(control, c) /\ c[1] = "shutdown"
  <2>1. /\ UNCHANGED <<last, speaking, device, has, work, stopped, phase, revived,
                       members, leaving>>
        /\ (control' = control \/ control' = Append(control, <<"shutdown">>))
    BY <1>6 DEF Quit, thread
  <2>2. <<"shutdown">> \in Commands
    BY DEF Commands
  <2> QED BY <2>1, <2>2
<1>7. CASE \E k \in MixerKnobs : TurnMixerKnob(k)
  BY <1>1, <1>7
<1>8. CASE TurnGate
  BY <1>2, <1>8
<1>9. CASE \E d \in Devices : SelectOutput(d)
  BY <1>3, <1>9
<1>10. CASE \E p \in Peers : PeerLeft(p) \/ PeerDisconnected(p)
  BY <1>4, <1>5, <1>10
<1>11. CASE Quit
  BY <1>6, <1>11
<1> QED BY <1>7, <1>8, <1>9, <1>10, <1>11, StepCases

LEMMA QuitStep == TypeOK /\ QuitInv /\ [Next]_vars => QuitInv'
<1> SUFFICES ASSUME TypeOK, QuitInv, [Next]_vars, quitting', ~deaf', ~stopped', Running'
             PROVE  \E i \in DOMAIN control' : control'[i] = <<"shutdown">>
  BY DEF QuitInv
<1>r. Running
  BY StoppedStays
<1>1. CASE Elsewhere
  BY <1>1, <1>r, ElsewhereKeeps DEF QuitInv
<1>2. CASE DrainControl
  <2>1. UNCHANGED <<quitting, deaf>> /\ ~stopped
    <3>1. UNCHANGED <<quitting, deaf>>
      BY <1>2 DEF DrainControl, app
    <3>2. CASE UNCHANGED stopped
      BY <3>1, <3>2
    <3>3. CASE Shutdown
      BY <3>3 DEF Shutdown
    <3>4. ASSUME NEW k, NEW on, Set(k, on) PROVE UNCHANGED stopped
      BY <3>4 DEF Set
    <3>5. ASSUME NEW p, RemovePeer(p) PROVE UNCHANGED stopped
      BY <3>5 DEF RemovePeer
    <3>6. ASSUME NEW d, SwitchOutput(d) PROVE UNCHANGED stopped
      BY <3>6 DEF SwitchOutput
    <3> QED BY <1>2, <3>2, <3>3, <3>4, <3>5, <3>6, DrainedCommand
  <2>2. PICK i \in DOMAIN control : control[i] = <<"shutdown">>
    BY <1>r, <2>1 DEF QuitInv
  <2>3. control # <<>> /\ control' = Tail(control)
    BY <1>2, DrainedCommand
  <2>4. i # 1
    <3>1. CASE control[1] = <<"shutdown">>
      <4>1. Head(control)[1] = "shutdown"
        BY <2>3, <3>1 DEF TypeOK
      <4> QED BY <1>2, <4>1 DEF DrainControl, Shutdown, TypeOK
    <3> QED BY <2>2, <3>1
  <2>5. i - 1 \in DOMAIN control' /\ control'[i - 1] = control[i]
    BY <2>3, <2>4, PopStep
  <2> QED BY <2>2, <2>5
<1>3. CASE Quit
  <2>1. control' = Append(control, <<"shutdown">>)
    BY <1>3, <1>r DEF Quit
  <2>2. <<"shutdown">> \in Commands
    BY DEF Commands
  <2> QED BY <2>1, <2>2, PushStep
<1>4. CASE ~Elsewhere /\ ~DrainControl /\ ~Quit
  <2>1. UNCHANGED <<quitting, deaf, stopped>>
    BY <1>4, StepCases DEF TurnMixerKnob, TurnGate, SelectOutput, PeerLeft, PeerDisconnected,
       thread, history
  <2>2. PICK i \in DOMAIN control : control[i] = <<"shutdown">>
    BY <1>r, <2>1 DEF QuitInv
  <2>3. CASE control' = control
    BY <2>2, <2>3
  <2>4. ASSUME NEW c \in Commands, control' = Append(control, c)
        PROVE  i \in DOMAIN control' /\ control'[i] = control[i]
    <3>1. PICK n \in Nat \ {0} :
            /\ DOMAIN control = 1 .. n - 1 /\ DOMAIN control' = 1 .. n
            /\ control'[n] = c /\ \A j \in 1 .. n - 1 : control'[j] = control[j]
      BY <2>4, Pushed
    <3> QED BY <3>1
  <2> QED BY <1>4, <1>r, <2>2, <2>3, <2>4, SentCommand
<1> QED BY <1>1, <1>2, <1>3, <1>4

LEMMA RemovalStep == TypeOK /\ RemovalInv /\ [Next]_vars => RemovalInv'
<1> SUFFICES ASSUME TypeOK, RemovalInv, [Next]_vars PROVE RemovalInv'
  OBVIOUS
<1>k. ASSUME control' = control, members' = members, leaving' = leaving
      PROVE  RemovalInv'
  BY <1>k, StoppedStays DEF RemovalInv, Sets, Removes
<1>p. ASSUME ~Running, NEW p \in Peers, PeerLeft(p) \/ PeerDisconnected(p)
      PROVE  control' = control /\ members' \subseteq members
  BY <1>p DEF PeerLeft, PeerDisconnected, Send, RemoveTile
<1>1. CASE ~Running /\ ~Elsewhere /\ ~DrainControl
  <2>1. control' = control /\ members' \subseteq members
    <3>1. CASE \E p \in Peers : PeerLeft(p) \/ PeerDisconnected(p)
      BY <1>1, <1>p, <3>1
    <3>2. CASE ~\E p \in Peers : PeerLeft(p) \/ PeerDisconnected(p)
      BY <1>1, <3>2, StepCases DEF TurnMixerKnob, TurnGate, SelectOutput, Quit, Send
    <3> QED BY <3>1, <3>2
  <2>2. ~Running'
    BY <1>1, StoppedStays
  <2> QED BY <2>1, <2>2 DEF RemovalInv
<1>2. CASE Elsewhere
  BY <1>2, <1>k, ElsewhereKeeps
<1>3. CASE DrainControl
  <2>1. control # <<>> /\ control' = Tail(control) /\ members' = members /\ leaving' = leaving
        /\ phase = "control"
    BY <1>3, DrainedCommand DEF DrainControl, app
  <2>2. Running
    BY <2>1 DEF Running
  <2>3. PICK n \in Nat : n = Len(control)
    BY <2>1, PopStep
  <2>4. /\ n \in Nat \ {0} /\ DOMAIN control = 1 .. n /\ DOMAIN control' = 1 .. n - 1
        /\ \A i \in 1 .. n - 1 : control'[i] = control[i + 1]
    BY <2>1, <2>3, PopStep
  <2>5. ASSUME NEW i \in DOMAIN control', control'[i][1] = "remove"
        PROVE  control'[i][2] \notin members'
    <3>1. i + 1 \in DOMAIN control /\ control'[i] = control[i + 1]
      BY <2>4
    <3> QED BY <2>1, <2>5, <3>1 DEF RemovalInv
  <2>6. ASSUME NEW p \in Peers \ members', NEW i \in DOMAIN control', Sets(p, i)', p \notin leaving'
        PROVE  \E j \in DOMAIN control' : i < j /\ Removes(p, j)'
    <3>1. i + 1 \in DOMAIN control /\ Sets(p, i + 1)
      BY <2>4, <2>6 DEF Sets
    <3>2. PICK j \in DOMAIN control : i + 1 < j /\ Removes(p, j)
      BY <2>1, <2>2, <2>6, <3>1 DEF RemovalInv
    <3>3. j - 1 \in DOMAIN control' /\ i < j - 1 /\ control'[j - 1] = control[j]
      BY <2>4, <3>2
    <3> QED BY <3>2, <3>3 DEF Removes
  <2> QED BY <2>5, <2>6 DEF RemovalInv
<1>4. CASE Running /\ ~Elsewhere /\ ~DrainControl
  <2>1. CASE control' = control /\ UNCHANGED <<members, leaving>>
    BY <1>k, <2>1
  <2>2. ASSUME NEW c \in Commands, control' = Append(control, c),
               c[1] # "remove", UNCHANGED <<members, leaving>>,
               c[1] = "set" => c[2] \in {"deafened", "gate"} \union members
        PROVE  RemovalInv'
    <3>1. PICK n \in Nat \ {0} :
            /\ DOMAIN control = 1 .. n - 1 /\ DOMAIN control' = 1 .. n
            /\ control'[n] = c /\ \A j \in 1 .. n - 1 : control'[j] = control[j]
      BY <2>2, Pushed
    <3>2. \A i \in 1 .. n : i = n \/ i \in 1 .. n - 1
      BY <3>1
    <3>3. ASSUME NEW i \in DOMAIN control', control'[i][1] = "remove"
          PROVE  control'[i][2] \notin members'
      BY <2>2, <3>1, <3>2, <3>3 DEF RemovalInv
    <3>4. ASSUME NEW p \in Peers \ members', NEW i \in DOMAIN control', Sets(p, i)',
                 p \notin leaving'
          PROVE  \E j \in DOMAIN control' : i < j /\ Removes(p, j)'
      <4>1. i # n
        BY <2>2, <3>1, <3>4, AudioAssumption DEF Sets
      <4>2. i \in DOMAIN control /\ Sets(p, i)
        BY <3>1, <3>2, <3>4, <4>1 DEF Sets
      <4>3. PICK j \in DOMAIN control : i < j /\ Removes(p, j)
        BY <1>4, <2>2, <3>4, <4>2 DEF RemovalInv
      <4> QED BY <3>1, <4>3 DEF Removes
    <3> QED BY <3>3, <3>4 DEF RemovalInv
  <2>3. ASSUME NEW q \in Peers, NEW c \in Commands, control' = Append(control, c),
               c = <<"remove", q>>, members' = members \ {q},
               leaving' \in {leaving \union {q}, leaving \ {q}}
        PROVE  RemovalInv'
    <3>1. PICK n \in Nat \ {0} :
            /\ DOMAIN control = 1 .. n - 1 /\ DOMAIN control' = 1 .. n
            /\ control'[n] = c /\ \A j \in 1 .. n - 1 : control'[j] = control[j]
      BY <2>3, Pushed
    <3>2. \A i \in 1 .. n : i = n \/ (i \in 1 .. n - 1 /\ i < n)
      BY <3>1
    <3>3. ASSUME NEW i \in DOMAIN control', control'[i][1] = "remove"
          PROVE  control'[i][2] \notin members'
      <4>1. CASE i = n
        BY <2>3, <3>1, <4>1
      <4>2. CASE i # n
        BY <2>3, <3>1, <3>2, <3>3, <4>2 DEF RemovalInv
      <4> QED BY <4>1, <4>2
    <3>4. ASSUME NEW p \in Peers \ members', NEW i \in DOMAIN control', Sets(p, i)',
                 p \notin leaving'
          PROVE  \E j \in DOMAIN control' : i < j /\ Removes(p, j)'
      <4>1. i # n
        BY <2>3, <3>1, <3>4 DEF Sets
      <4>2. i \in DOMAIN control /\ Sets(p, i) /\ i < n
        BY <3>1, <3>2, <3>4, <4>1 DEF Sets
      <4>3. CASE p = q
        BY <2>3, <3>1, <4>2, <4>3 DEF Removes
      <4>4. CASE p # q
        <5>1. PICK j \in DOMAIN control : i < j /\ Removes(p, j)
          BY <1>4, <2>3, <3>4, <4>2, <4>4 DEF RemovalInv
        <5> QED BY <3>1, <5>1 DEF Removes
      <4> QED BY <4>3, <4>4
    <3> QED BY <3>3, <3>4 DEF RemovalInv
  <2> QED BY <1>4, <2>1, <2>2, <2>3, SentCommand
<1> QED BY <1>1, <1>2, <1>3, <1>4

-----------------------------------------------------------------------------
(* What the pipeline keeps of who has left.                                *)

LEMMA MixKeeps ==
  ASSUME NEW s, NEW p, DecodeAndMix(s), s[1] # p
  PROVE  /\ p \in speaking' <=> p \in speaking
         /\ p \in missed' <=> p \in missed
BY DEF DecodeAndMix, UpdateVad

LEMMA ForgetStep ==
  TypeOK /\ RemovalInv /\ ForgetInv /\ [Next]_vars => ForgetInv'
<1> SUFFICES ASSUME TypeOK, RemovalInv, ForgetInv, [Next]_vars, Running',
                    NEW p \in Peers, p \notin members', p \notin revived', p \notin leaving',
                    \A i \in DOMAIN control' : ~Removes(p, i)'
             PROVE  Forgotten(p)'
  BY DEF ForgetInv
<1>r. Running
  BY StoppedStays
<1>g. p # "gate" /\ p # "deafened" /\ p \in Knobs
  BY AudioAssumption DEF Knobs
<1>1. CASE Elsewhere
  <2>1. UNCHANGED <<control, has, members, leaving>>
    BY <1>1, ElsewhereKeeps
  <2>2. revived \subseteq revived'
    BY <1>1 DEF Elsewhere, Forward, Open, ControlDrained, Ingest, Conceal, Decode, DecodeFails,
       Received, EndTick, HandleAudioEvent, vars, history
  <2>3. Forgotten(p)
    BY <1>r, <2>1, <2>2 DEF ForgetInv, Removes
  <2>4. \A i \in DOMAIN control' : ~Sets(p, i)'
    BY <2>1, <2>3 DEF Forgotten, Sets
  <2>5. CASE UNCHANGED <<last, speaking, work>>
    BY <2>1, <2>3, <2>4, <2>5 DEF Forgotten
  <2>6. CASE Ingest
    <3>1. UNCHANGED <<last, speaking>>
      BY <2>6 DEF Ingest
    <3>2. \/ UNCHANGED work
          \/ work'.src[1] \in members \/ work'.src[1] \in revived'
      BY <2>6 DEF Ingest
    <3>3. ~(work' # Idle /\ work'.src[1] = p)
      BY <2>1, <2>3, <3>2 DEF Forgotten
    <3> QED BY <2>1, <2>3, <2>4, <3>1, <3>3 DEF Forgotten
  <2>7. CASE Conceal \/ Decode \/ DecodeFails
    <3>1. work # Idle
      BY <2>7 DEF Conceal, Decode, DecodeFails, Idle
    <3>2. work.src[1] # p /\ work.src \in Sources
      BY <2>3, <3>1, WorkTyped DEF Forgotten
    <3>3. UNCHANGED speaking \/ DecodeAndMix(work.src)
      BY <2>7 DEF Conceal, Decode, DecodeFails
    <3>4. p \notin speaking'
      BY <2>3, <3>2, <3>3, MixKeeps DEF Forgotten
    <3>5. \A s \in Sources : s[1] = p => last'[s] = last[s]
      BY <2>7, <3>2 DEF Conceal, Decode, DecodeFails, TypeOK
    <3>6. work' = Idle \/ work'.src = work.src
      <4>1. CASE Conceal
        <5>1. work \in [src : Sources, n : Numbers, left : 0 .. MaxPlc]
          BY <3>1 DEF TypeOK
        <5> QED BY <4>1, <5>1 DEF Conceal
      <4>2. CASE Decode \/ DecodeFails
        BY <4>2 DEF Decode, DecodeFails
      <4> QED BY <2>7, <4>1, <4>2
    <3> QED BY <2>1, <2>3, <2>4, <3>2, <3>4, <3>5, <3>6 DEF Forgotten
  <2> QED BY <1>1, <2>5, <2>6, <2>7 DEF Elsewhere, Forward, Open, ControlDrained, Received,
       EndTick, HandleAudioEvent, vars, thread
<1>2. CASE DrainControl
  <2>1. /\ control # <<>> /\ control' = Tail(control) /\ phase = "control" /\ work = Idle
        /\ work' = work /\ UNCHANGED <<members, leaving, revived>>
    BY <1>2, DrainedCommand DEF DrainControl, app
  <2>2. PICK n \in Nat : n = Len(control)
    BY <2>1, PopStep
  <2>3. /\ n \in Nat \ {0} /\ DOMAIN control = 1 .. n /\ DOMAIN control' = 1 .. n - 1
        /\ \A i \in 1 .. n - 1 : control'[i] = control[i + 1]
    BY <2>1, <2>2, PopStep
  <2>4. ASSUME NEW j \in DOMAIN control, Removes(p, j) PROVE j = 1
    <3>1. j = 1 \/ (j - 1 \in 1 .. n - 1 /\ (j - 1) + 1 = j)
      BY <2>3
    <3> QED BY <2>3, <2>4, <3>1 DEF Removes
  <2>5. ASSUME NEW i \in DOMAIN control' PROVE ~Sets(p, i)'
    <3>1. i + 1 \in DOMAIN control /\ control'[i] = control[i + 1] /\ i + 1 > 1
      BY <2>3
    <3>2. CASE \E j \in DOMAIN control : Removes(p, j)
      <4>1. ~\E j \in DOMAIN control : i + 1 < j /\ Removes(p, j)
        BY <2>3, <2>4, <3>1
      <4>2. ~Sets(p, i + 1)
        BY <1>r, <2>1, <3>1, <4>1 DEF RemovalInv
      <4> QED BY <3>1, <4>2 DEF Sets
    <3>3. CASE ~\E j \in DOMAIN control : Removes(p, j)
      <4>1. Forgotten(p)
        BY <1>r, <2>1, <3>3 DEF ForgetInv
      <4> QED BY <3>1, <4>1 DEF Forgotten, Sets
    <3> QED BY <3>2, <3>3
  <2>6. CASE control[1] = <<"remove", p>>
    <3>1. control[1][1] = "remove" /\ control[1][2] = p
      BY <2>6
    <3>2. RemovePeer(p)
      BY <1>2, <3>1, DrainedCommand
    <3>3. /\ \A s \in Sources : s[1] = p => last'[s] = Unset
          /\ p \notin speaking' /\ has'[p] = FALSE
      BY <1>g, <3>2 DEF RemovePeer, TypeOK
    <3> QED BY <2>1, <2>5, <3>3 DEF Forgotten
  <2>7. CASE control[1] # <<"remove", p>>
    <3>1. Forgotten(p)
      BY <1>r, <2>1, <2>3, <2>4, <2>7 DEF ForgetInv, Removes
    <3>2. ~Sets(p, 1)
      BY <2>3, <3>1 DEF Forgotten
    <3>3. ASSUME NEW k \in Knobs, NEW on \in BOOLEAN, control[1] = <<"set", k, on>>, Set(k, on)
          PROVE  UNCHANGED <<last, speaking>> /\ has'[p] = FALSE
      <4>1. k # p
        BY <3>2, <3>3 DEF Sets
      <4> QED BY <1>g, <3>1, <3>3, <4>1 DEF Set, Forgotten, TypeOK
    <3>4. ASSUME NEW q \in Peers, control[1] = <<"remove", q>>, RemovePeer(q)
          PROVE  /\ \A s \in Sources : s[1] = p => last'[s] = Unset
                 /\ p \notin speaking' /\ has'[p] = FALSE
      <4>1. q # p
        BY <2>7, <3>4
      <4> QED BY <1>g, <3>1, <3>4, <4>1 DEF RemovePeer, Forgotten, TypeOK
    <3>5. ASSUME NEW d \in Devices, SwitchOutput(d)
          PROVE  UNCHANGED <<last, speaking>> /\ has'[p] = FALSE
      BY <1>g, <3>1, <3>5 DEF SwitchOutput, Forgotten
    <3>6. ASSUME Shutdown PROVE UNCHANGED <<last, speaking>> /\ has'[p] = FALSE
      BY <3>1, <3>6 DEF Shutdown, Forgotten
    <3>7. /\ \A s \in Sources : s[1] = p => last'[s] = Unset
          /\ p \notin speaking' /\ has'[p] = FALSE
      BY <1>2, <3>1, <3>3, <3>4, <3>5, <3>6, DrainedCommand DEF Forgotten
    <3> QED BY <2>1, <2>5, <3>7 DEF Forgotten
  <2> QED BY <2>6, <2>7
<1>3. CASE ~Elsewhere /\ ~DrainControl
  <2>1. UNCHANGED <<last, speaking, has, work, revived>>
    BY <1>3, <1>r, SentCommand
  <2>2. ASSUME Forgotten(p), \A i \in DOMAIN control' : ~Sets(p, i)' PROVE Forgotten(p)'
    BY <2>1, <2>2 DEF Forgotten
  <2>3. CASE control' = control /\ UNCHANGED <<members, leaving>>
    <3>1. Forgotten(p)
      BY <1>r, <2>1, <2>3 DEF ForgetInv, Removes
    <3> QED BY <2>2, <2>3, <3>1 DEF Forgotten, Sets
  <2>4. ASSUME NEW c \in Commands, control' = Append(control, c),
               p \notin members, p \notin leaving, ~(c[1] = "set" /\ c[2] = p)
        PROVE  Forgotten(p)'
    <3>1. PICK n \in Nat \ {0} :
            /\ DOMAIN control = 1 .. n - 1 /\ DOMAIN control' = 1 .. n
            /\ control'[n] = c /\ \A j \in 1 .. n - 1 : control'[j] = control[j]
      BY <2>4, Pushed
    <3>2. \A i \in 1 .. n : i = n \/ i \in 1 .. n - 1
      BY <3>1
    <3>3. 1 .. n - 1 \subseteq 1 .. n
      BY <3>1
    <3>4. \A i \in DOMAIN control : ~Removes(p, i)
      BY <3>1, <3>3 DEF Removes
    <3>5. Forgotten(p)
      BY <1>r, <2>1, <2>4, <3>4 DEF ForgetInv
    <3>6. \A i \in DOMAIN control' : ~Sets(p, i)'
      BY <2>4, <3>1, <3>2, <3>5 DEF Forgotten, Sets
    <3> QED BY <2>2, <3>5, <3>6
  <2>5. ASSUME NEW c \in Commands, control' = Append(control, c),
               UNCHANGED <<members, leaving>>,
               c[1] = "set" => c[2] \in {"deafened", "gate"} \union members
        PROVE  Forgotten(p)'
    BY <1>g, <2>4, <2>5
  <2>6. ASSUME NEW q \in Peers, NEW c \in Commands, control' = Append(control, c),
               c = <<"remove", q>>, members' = members \ {q},
               leaving' \in {leaving \union {q}, leaving \ {q}}
        PROVE  Forgotten(p)'
    <3>1. p # q
      <4>1. PICK n \in Nat \ {0} : DOMAIN control' = 1 .. n /\ control'[n] = c
        BY <2>6, Pushed
      <4>2. n \in DOMAIN control'
        BY <4>1
      <4> QED BY <2>6, <4>1, <4>2 DEF Removes
    <3>2. p \notin members /\ p \notin leaving /\ ~(c[1] = "set" /\ c[2] = p)
      BY <2>6, <3>1
    <3> QED BY <2>4, <2>6, <3>2
  <2> QED BY <1>3, <1>r, <2>3, <2>5, <2>6, SentCommand
<1> QED BY <1>1, <1>2, <1>3

-----------------------------------------------------------------------------
(* The speaking rings.                                                     *)

RingOf(p) ==
  /\ \A i \in DOMAIN events : LastTells(p, i) => (events[i][2] <=> p \in speaking)
  /\ (\A i \in DOMAIN events : ~Tells(p, i)) => (p \in ring <=> p \in speaking)

LEMMA RingKeeps ==
  ASSUME NEW p, RingOf(p), events' = events,
         p \in speaking' <=> p \in speaking, p \in ring' <=> p \in ring
  PROVE  RingOf(p)'
BY DEF RingOf, LastTells, Tells

(* A change of voice that is told, of p or of somebody else.               *)
LEMMA RingTold ==
  ASSUME TypeOK, NEW p \in members, NEW q \in Peers, NEW level, UpdateVad(q, level),
         ring' = ring, p \notin missed',
         p \notin missed => RingOf(p)
  PROVE  RingOf(p)'
<1> DEFINE now == level = "above" \/ (q \in speaking /\ level = "between")
<1>1. CASE UNCHANGED <<speaking, events, missed>>
  BY <1>1, RingKeeps
<1>2. CASE ~UNCHANGED <<speaking, events, missed>>
  <2>1. /\ speaking' = IF now THEN speaking \union {q} ELSE speaking \ {q}
        /\ \/ events' = Append(events, <<q, now>>) /\ missed' = missed \ {q}
           \/ events' = events /\ missed' = missed \union {q}
    BY <1>2 DEF UpdateVad
  <2>2. q \in speaking' <=> now
    BY <2>1
  <2>3. <<q, now>> \in Peers \X BOOLEAN /\ now \in BOOLEAN
    OBVIOUS
  <2>4. p # q => (p \in speaking' <=> p \in speaking) /\ p \notin missed
    BY <2>1
  <2> HIDE DEF now
  <2>5. CASE events' = events /\ missed' = missed \union {q}
    <3>1. p # q
      BY <2>5
    <3> QED BY <2>4, <2>5, <3>1, RingKeeps
  <2>6. CASE events' = Append(events, <<q, now>>)
    <3>1. events \in Seq(Peers \X BOOLEAN)
      BY DEF TypeOK
    <3>2. PICK n \in Nat : n = Len(events) + 1
      BY <3>1
    <3>3. PICK e : e = <<q, now>>
      OBVIOUS
    <3>4. /\ n \in Nat \ {0} /\ Len(events') = n /\ Len(events) = n - 1
          /\ DOMAIN events = 1 .. n - 1 /\ DOMAIN events' = 1 .. n
          /\ events'[n] = e /\ \A i \in 1 .. n - 1 : events'[i] = events[i]
      BY <2>3, <2>6, <3>1, <3>2, <3>3, Longer
    <3>5. e[1] = q /\ (e[2] <=> now)
      BY <2>3, <3>3
    <3>6. \A i \in 1 .. n - 1 : Tells(p, i)' <=> Tells(p, i)
      BY <3>4 DEF Tells
    <3>7. Tells(p, n)' <=> p = q
      BY <3>4, <3>5 DEF Tells
    <3>8. \A i \in 1 .. n : i = n \/ i \in 1 .. n - 1
      BY <3>4
    <3>9. CASE p = q
      <4>1. ASSUME NEW i \in DOMAIN events', LastTells(p, i)' PROVE i = n
        <5>1. i \in 1 .. n - 1 => n \in i + 1 .. n
          BY <3>4
        <5> QED BY <3>4, <3>7, <3>8, <3>9, <4>1, <5>1 DEF LastTells
      <4>2. ASSUME NEW i \in DOMAIN events', LastTells(p, i)'
            PROVE  events'[i][2] <=> p \in speaking'
        BY <2>2, <3>4, <3>5, <3>9, <4>1, <4>2
      <4>3. n \in DOMAIN events'
        BY <3>4
      <4> QED BY <3>7, <3>9, <4>2, <4>3 DEF RingOf
    <3>10. CASE p # q
      <4>1. RingOf(p) /\ (p \in speaking' <=> p \in speaking)
        BY <2>4, <3>10
      <4>2. ASSUME NEW i \in DOMAIN events', LastTells(p, i)'
            PROVE  events'[i][2] <=> p \in speaking'
        <5>1. i \in 1 .. n - 1 /\ Tells(p, i)
          BY <3>4, <3>6, <3>7, <3>8, <3>10, <4>2 DEF LastTells
        <5>2. \A j \in i + 1 .. n - 1 : j \in 1 .. n - 1 /\ j \in i + 1 .. n
          BY <3>4, <5>1
        <5>3. LastTells(p, i)
          BY <3>4, <3>6, <4>2, <5>1, <5>2 DEF LastTells
        <5> QED BY <3>4, <4>1, <5>1, <5>3 DEF RingOf
      <4>3. ASSUME \A i \in DOMAIN events' : ~Tells(p, i)'
            PROVE  p \in ring' <=> p \in speaking'
        <5>1. \A i \in 1 .. n - 1 : i \in 1 .. n
          BY <3>4
        <5> QED BY <3>4, <3>6, <4>1, <4>3, <5>1 DEF RingOf
      <4> QED BY <4>2, <4>3 DEF RingOf
    <3> QED BY <3>9, <3>10
  <2> QED BY <2>1, <2>5, <2>6
<1> QED BY <1>1, <1>2

LEMMA RingStep ==
  TypeOK /\ RemovalInv /\ RingInv /\ [Next]_vars => RingInv'
<1> SUFFICES ASSUME TypeOK, RemovalInv, RingInv, [Next]_vars,
                    NEW p \in members', p \notin missed'
             PROVE  RingOf(p)'
  BY DEF RingInv, RingOf
<1>m. p \in members /\ p \in Peers
  BY DEF Next, AudioThread, Forward, Open, DrainControl, ControlDrained, Ingest, Conceal,
     Decode, DecodeFails, Received, EndTick, TurnMixerKnob, TurnGate, SelectOutput, PeerLeft,
     RemoveTile, PeerDisconnected, HandleAudioEvent, Quit, vars, app, TypeOK
<1>i. p \notin missed => RingOf(p)
  BY <1>m DEF RingInv, RingOf
<1>1. CASE UNCHANGED <<events, speaking, ring, missed>>
  BY <1>1, <1>i, RingKeeps
<1>2. CASE Conceal \/ Decode
  <2>1. work # Idle
    BY <1>2 DEF Conceal, Decode, Idle
  <2>2. work.src \in Sources /\ work.src[1] \in Peers
    BY <2>1, WorkTyped
  <2>3. ring' = ring /\ DecodeAndMix(work.src)
    BY <1>2 DEF Conceal, Decode, app
  <2>4. CASE UNCHANGED <<speaking, events, missed>>
    BY <1>1, <2>3, <2>4
  <2>5. ASSUME NEW level, UpdateVad(work.src[1], level) PROVE RingOf(p)'
    BY <1>i, <1>m, <2>2, <2>3, <2>5, RingTold
  <2> QED BY <2>3, <2>4, <2>5 DEF DecodeAndMix
<1>3. CASE DrainControl
  <2>1. UNCHANGED <<events, ring, missed>>
    BY <1>3 DEF DrainControl, app
  <2>2. CASE UNCHANGED speaking
    BY <1>1, <2>1, <2>2
  <2>3. ASSUME NEW q \in Peers, control[1] = <<"remove", q>>, RemovePeer(q)
        PROVE  RingOf(p)'
    <3>1. control # <<>>
      BY <1>3, DrainedCommand
    <3>2. 1 \in DOMAIN control /\ control[1][1] = "remove" /\ control[1][2] = q
      <4>1. control \in Seq(Commands)
        BY DEF TypeOK
      <4> QED BY <2>3, <3>1, <4>1, Shorter
    <3>3. q # p
      BY <1>m, <3>2 DEF RemovalInv
    <3>4. p \in speaking' <=> p \in speaking
      BY <2>3, <3>3 DEF RemovePeer
    <3> QED BY <1>i, <2>1, <3>4, RingKeeps
  <2>4. ASSUME NEW k, NEW on, Set(k, on) PROVE UNCHANGED speaking
    BY <2>4 DEF Set
  <2>5. ASSUME NEW d, SwitchOutput(d) PROVE UNCHANGED speaking
    BY <2>5 DEF SwitchOutput
  <2>6. ASSUME Shutdown PROVE UNCHANGED speaking
    BY <2>6 DEF Shutdown
  <2> QED BY <1>3, <2>2, <2>3, <2>4, <2>5, <2>6, DrainedCommand
<1>4. CASE HandleAudioEvent
  <2>1. /\ events # <<>> /\ events' = Tail(events) /\ UNCHANGED <<speaking, missed>>
        /\ ring' = IF Head(events)[2] /\ Head(events)[1] \in members
                     THEN ring \union {Head(events)[1]} ELSE ring \ {Head(events)[1]}
    BY <1>4 DEF HandleAudioEvent, thread, history
  <2>2. events \in Seq(Peers \X BOOLEAN)
    BY DEF TypeOK
  <2>3. PICK n \in Nat : n = Len(events)
    BY <2>2
  <2>4. /\ n \in Nat \ {0} /\ Len(events') = n - 1
        /\ DOMAIN events = 1 .. n /\ DOMAIN events' = 1 .. n - 1
        /\ Head(events) = events[1] /\ events[1] \in Peers \X BOOLEAN
        /\ \A i \in 1 .. n - 1 : events'[i] = events[i + 1]
    BY <2>1, <2>2, <2>3, Shorter
  <2>5. \A i \in 1 .. n - 1 : i + 1 \in 1 .. n /\ (Tells(p, i)' <=> Tells(p, i + 1))
    BY <2>4 DEF Tells
  <2>6. RingOf(p)
    BY <1>i, <2>1
  <2>7. ASSUME NEW i \in DOMAIN events', LastTells(p, i)'
        PROVE  events'[i][2] <=> p \in speaking'
    <3>1. i + 1 \in 1 .. n /\ Tells(p, i + 1)
      BY <2>4, <2>5, <2>7 DEF LastTells
    <3>2. ASSUME NEW j \in i + 2 .. n PROVE ~Tells(p, j)
      <4>1. j - 1 \in i + 1 .. n - 1 /\ j - 1 \in 1 .. n - 1 /\ (j - 1) + 1 = j
        BY <2>4, <2>7, <3>2
      <4>2. ~Tells(p, j - 1)'
        BY <2>4, <2>7, <4>1 DEF LastTells
      <4> QED BY <2>5, <4>1, <4>2
    <3>3. \A j \in (i + 1) + 1 .. n : ~Tells(p, j)
      <4>1. (i + 1) + 1 = i + 2
        BY <2>4
      <4> QED BY <3>2, <4>1
    <3>4. LastTells(p, i + 1)
      BY <2>3, <3>1, <3>3 DEF LastTells
    <3>5. events'[i] = events[i + 1]
      BY <2>4, <2>7
    <3> QED BY <2>1, <2>4, <2>6, <3>1, <3>4, <3>5 DEF RingOf
  <2>8. ASSUME \A i \in DOMAIN events' : ~Tells(p, i)'
        PROVE  p \in ring' <=> p \in speaking'
    <3>1. ASSUME NEW j \in 2 .. n PROVE ~Tells(p, j)
      <4>1. j - 1 \in 1 .. n - 1 /\ (j - 1) + 1 = j
        BY <2>4, <3>1
      <4> QED BY <2>4, <2>5, <2>8, <4>1
    <3>2. CASE Tells(p, 1)
      <4>1. LastTells(p, 1) /\ 1 \in DOMAIN events
        BY <2>3, <2>4, <3>1, <3>2 DEF LastTells
      <4>2. events[1][2] <=> p \in speaking
        BY <2>6, <4>1 DEF RingOf
      <4>3. events[1][1] = p
        BY <3>2 DEF Tells
      <4> QED BY <1>m, <2>1, <2>4, <4>2, <4>3
    <3>3. CASE ~Tells(p, 1)
      <4>1. \A j \in 1 .. n : j = 1 \/ j \in 2 .. n
        BY <2>4
      <4>2. p \in ring <=> p \in speaking
        BY <2>4, <2>6, <3>1, <3>3, <4>1 DEF RingOf
      <4>3. Head(events)[1] # p
        BY <2>4, <3>3 DEF Tells
      <4> QED BY <2>1, <4>2, <4>3
    <3> QED BY <3>2, <3>3
  <2> QED BY <2>7, <2>8 DEF RingOf
<1>5. ASSUME NEW q \in Peers, PeerLeft(q) PROVE RingOf(p)'
  <2>1. UNCHANGED <<events, speaking, missed>> /\ members' = members \ {q} /\ ring' = ring \ {q}
    BY <1>5 DEF PeerLeft, RemoveTile, thread, history
  <2>2. p # q
    BY <2>1
  <2> QED BY <1>i, <2>1, <2>2, RingKeeps
<1>6. CASE ~(Conceal \/ Decode \/ DrainControl \/ HandleAudioEvent \/ \E q \in Peers : PeerLeft(q))
  <2>1. UNCHANGED <<events, speaking, ring, missed>>
    BY <1>6 DEF Next, AudioThread, Forward, Open, ControlDrained, Ingest, DecodeFails, Received,
       EndTick, TurnMixerKnob, TurnGate, SelectOutput, PeerDisconnected, Quit, vars, thread, app,
       history
  <2> QED BY <1>1, <2>1
<1> QED BY <1>2, <1>3, <1>4, <1>5, <1>6

-----------------------------------------------------------------------------
(* The frame that is ingested.                                             *)

LEMMA FreshStep == TypeOK /\ FreshInv /\ [Next]_vars => FreshInv'
<1> SUFFICES ASSUME TypeOK, FreshInv, [Next]_vars, work' # Idle
             PROVE  ~Stale(work.src, work.n)'
  BY DEF FreshInv
<1>1. CASE Ingest
  BY <1>1 DEF Ingest, Stale, FreshInv
<1>2. CASE Conceal
  <2>1. work.left > 0 /\ work' = [work EXCEPT !.left = @ - 1] /\ last' = last
    BY <1>2 DEF Conceal
  <2>2. work # Idle
    BY <2>1 DEF Idle
  <2>3. work \in [src : Sources, n : Numbers, left : 0 .. MaxPlc]
    BY <2>2 DEF TypeOK
  <2>4. work'.src = work.src /\ work'.n = work.n
    BY <2>1, <2>3
  <2> QED BY <2>1, <2>2, <2>4 DEF FreshInv, Stale
<1>3. CASE Decode \/ DecodeFails
  BY <1>3 DEF Decode, DecodeFails
<1>4. CASE DrainControl
  BY <1>4, DrainedCommand DEF DrainControl
<1>5. CASE ~(Ingest \/ Conceal \/ Decode \/ DecodeFails \/ DrainControl)
  <2>1. UNCHANGED <<work, last>>
    BY <1>5 DEF Next, AudioThread, Forward, Open, ControlDrained, Received, EndTick,
       TurnMixerKnob, TurnGate, SelectOutput, PeerLeft, PeerDisconnected, HandleAudioEvent, Quit,
       vars, thread
  <2> QED BY <2>1 DEF FreshInv, Stale
<1> QED BY <1>1, <1>2, <1>3, <1>4, <1>5

(* A frame that was not stale is later than the last one, or its number    *)
(* began again.                                                            *)
LEMMA ReplayStep ==
  ASSUME TypeOK, FreshInv, [Next]_vars, NEW s \in Sources, heard'[s] < heard[s]
  PROVE  last[s] = Unset \/ heard[s] \div Wrap # heard'[s] \div Wrap
<1>1. heard[s] \in {Unset} \union Numbers
  BY DEF TypeOK
<1>2. (Decode \/ DecodeFails) /\ heard' = [heard EXCEPT ![work.src] = work.n]
  <2>1. heard' # heard
    BY <1>1, AudioAssumption DEF Numbers, Unset
  <2> QED BY <2>1 DEF Next, AudioThread, Forward, Open, DrainControl, ControlDrained, Ingest,
       Conceal, Decode, DecodeFails, Received, EndTick, TurnMixerKnob, TurnGate, SelectOutput,
       PeerLeft, PeerDisconnected, HandleAudioEvent, Quit, vars, history
<1>3. work # Idle
  BY <1>2 DEF Decode, DecodeFails
<1>4. work.src = s
  <2>1. work.src # s => heard'[s] = heard[s]
    BY <1>2 DEF TypeOK
  <2> QED BY <1>1, <2>1, AudioAssumption DEF Numbers, Unset
<1>5. heard'[s] = work.n /\ work.n \in Nat
  BY <1>2, <1>3, <1>4, WorkTyped DEF TypeOK
<1>6. heard[s] \in Nat
  BY <1>1, <1>5, AudioAssumption DEF Numbers, Unset
<1>7. ASSUME last[s] # Unset PROVE ~(Wire(work.n) <= Wire(heard[s]))
  BY <1>3, <1>4, <1>7 DEF FreshInv, Stale, TypeOK
<1>8. Wire(work.n) \in Int /\ Wire(heard[s]) \in Int
  BY <1>5, <1>6, WireTyped
<1>9. ASSUME last[s] # Unset, heard[s] \div Wrap = heard'[s] \div Wrap PROVE FALSE
  <2>1. Wire(work.n) < Wire(heard[s])
    BY <1>5, <1>6, <1>9, WireGrows
  <2> QED BY <1>7, <1>8, <1>9, <2>1
<1> QED BY <1>9

-----------------------------------------------------------------------------
(* From the start.                                                         *)

AudioInv == TypeOK /\ RemovalInv /\ SettingsInv /\ ForgetInv /\ QuitInv /\ RingInv /\ FreshInv

LEMMA AudioStarts == Init => AudioInv
<1> SUFFICES ASSUME Init PROVE AudioInv
  OBVIOUS
<1> USE DEF Init
<1>1. TypeOK
  <2>1. {QueueSize, ControlSize, EventSize, MaxCommands} \subseteq Nat /\ MaxFrames \in Nat
    BY AudioAssumption
  <2>2. /\ queue = <<>> /\ control = <<>> /\ events = <<>> /\ Len(<<>>) = 0
        /\ queue \in Seq(Frames) /\ control \in Seq(Commands)
        /\ events \in Seq(Peers \X BOOLEAN)
    OBVIOUS
  <2>3. flight \in [Sources -> SUBSET Numbers] /\ heard \in [Sources -> {Unset} \union Numbers]
        /\ last \in [Sources -> {Unset} \union 0 .. Wrap - 1]
        /\ \A s \in Sources : last[s] = Unset
    OBVIOUS
  <2>4. has \in [Knobs -> BOOLEAN] /\ wants \in [Knobs -> BOOLEAN] /\ lost \subseteq Knobs
    OBVIOUS
  <2>5. device \in Devices \union {NoDevice}
    BY AudioAssumption
  <2>6. Len(queue) <= QueueSize /\ Len(control) <= ControlSize /\ Len(events) <= EventSize
        /\ commands \in 0 .. MaxCommands
    BY <2>1, <2>2
  <2> QED BY <2>2, <2>3, <2>4, <2>5, <2>6 DEF TypeOK
<1>2. RemovalInv /\ QuitInv /\ FreshInv
  BY DEF RemovalInv, QuitInv, FreshInv
<1>3. SettingsInv
  <2>1. ASSUME NEW k \in members \union {"deafened", "gate"} PROVE SettingInv(k)
    <3>1. k \in Knobs
      BY <2>1 DEF Knobs
    <3>2. k \notin lost => has[k] = wants[k]
      <4>1. lost = {j \in Knobs : has[j] # wants[j]}
        OBVIOUS
      <4> QED BY ONLY <3>1, <4>1
    <3>3. control = <<>> /\ DOMAIN control = {}
      OBVIOUS
    <3> QED BY ONLY <3>2, <3>3 DEF SettingInv
  <2> QED BY <2>1 DEF SettingsInv
<1>4. ForgetInv
  BY DEF ForgetInv
<1>5. RingInv
  BY DEF RingInv
<1> QED BY <1>1, <1>2, <1>3, <1>4, <1>5 DEF AudioInv

LEMMA AudioKeeps == AudioInv /\ [Next]_vars => AudioInv'
BY TypeStep, RemovalStep, SettingsStep, ForgetStep, QuitStep, RingStep, FreshStep DEF AudioInv

LEMMA AudioAlways == Spec => []AudioInv
<1> QED BY AudioStarts, AudioKeeps, PTL DEF Spec

-----------------------------------------------------------------------------
(* Queues keep their bounds, what is ingested is a frame of a source, and  *)
(* last_seq is the number of the last frame decoded (pipeline.rs).         *)
THEOREM AudioTypeCorrect == Spec => []TypeOK
<1>1. AudioInv => TypeOK
  BY DEF AudioInv
<1> QED BY <1>1, AudioAlways, PTL

(* Every setting, removal and end that the application commands is carried *)
(* out, is still queued, or is known to be lost (drain_control).           *)
THEOREM CommandsAreCarriedOut == Spec => []CommandsArrive
<1>1. AudioInv => CommandsArrive
  <2> SUFFICES ASSUME AudioInv PROVE CommandsArrive
    OBVIOUS
  <2>1. control \in Seq(Commands) /\ DOMAIN control = 1 .. Len(control)
    BY DEF AudioInv, TypeOK
  <2>2. ASSUME NEW e PROVE Contains(control, e) <=> \E i \in DOMAIN control : control[i] = e
    BY <2>1 DEF Contains
  <2>3. SettingsArrive
    <3> SUFFICES ASSUME Running, NEW k \in Knobs \ lost,
                        k \in members \union {"deafened", "gate"}, ~Pending(k)
                 PROVE  has[k] = wants[k]
      BY DEF SettingsArrive
    <3>1. ASSUME NEW i \in DOMAIN control, Sets(k, i) PROVE FALSE
      <4>1. control[i] \in Commands /\ control[i][1] = "set" /\ control[i][2] = k
        BY <2>1, <3>1 DEF Sets
      <4>2. PICK on \in BOOLEAN : control[i] = <<"set", k, on>>
        BY <4>1 DEF Commands
      <4> QED BY <2>2, <4>2 DEF Pending
    <3> QED BY <3>1 DEF AudioInv, SettingsInv, SettingInv
  <2>4. LeftIsForgotten
    BY <2>2 DEF AudioInv, ForgetInv, Forgotten, Removes, LeftIsForgotten
  <2>5. QuitIsHeard
    BY <2>2 DEF AudioInv, QuitInv, QuitIsHeard
  <2> QED BY <2>3, <2>4, <2>5 DEF CommandsArrive
<1> QED BY <1>1, AudioAlways, PTL

(* With the events handled, a tile's ring is lit exactly while the pipeline*)
(* takes its member to speak, if no event of his was lost (update_vad,     *)
(* handle_audio_event).                                                    *)
THEOREM RingStaysTrue == Spec => []RingFollowsVoice
<1>1. AudioInv => RingFollowsVoice
  BY DEF AudioInv, RingInv, RingFollowsVoice
<1> QED BY <1>1, AudioAlways, PTL

(* A frame is never decoded after a later one of its source, unless the    *)
(* 16-bit number began again or the source was removed (ingest).           *)
THEOREM FramesStayInOrder == Spec => NeverReplays
<1>1. AudioInv /\ [Next]_vars =>
        [\A s \in Sources :
           (heard'[s] < heard[s]) => \/ last[s] = Unset
                                     \/ heard[s] \div Wrap # heard'[s] \div Wrap]_vars
  BY ReplayStep DEF AudioInv
<1> QED BY <1>1, AudioAlways, PTL DEF Spec, NeverReplays
=============================================================================
