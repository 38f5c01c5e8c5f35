--------------------------- MODULE WebRoomsProofs ---------------------------
(* Proofs about the room of the web version, for any pages, connections,   *)
(* breaks, clicks and places.                                              *)
EXTENDS WebRooms, FiniteSetTheorems, SequenceTheorems, TLAPS

(***************************************************************************)
(* What a queue of the server's messages will make of a peer: whether it   *)
(* is known once all are read, and what its card shows then.               *)
(***************************************************************************)
Finding == {"room-users", "user-joined", "signal"}
Showing == {"room-users", "user-joined"}
Saying == {"room-users", "user-joined", "peer-state-changed"}

About(m, t) == IF m.type = "room-users" THEN t \in DOMAIN m.members ELSE m.id = t
Tells(m, types, t) == m.type \in types /\ About(m, t)
Gone(m, t) == m.type = "user-left" /\ m.id = t

(* The last of the messages of these types about t comes after the last    *)
(* that it left; or t is known now and none says that it left.             *)
Will(q, types, t, known) ==
  \/ t \in known /\ \A j \in 1..Len(q) : ~Gone(q[j], t)
  \/ \E i \in 1..Len(q) : /\ Tells(q[i], types, t)
                          /\ \A j \in 1..Len(q) : j > i => ~Gone(q[j], t)

Muted(m, t) == IF m.type = "room-users" THEN m.members[t] ELSE m.muted

(* The last word on t is flag; without one, now is.                        *)
Latest(q, t, now, flag) ==
  /\ \A i \in 1..Len(q) :
       Tells(q[i], Saying, t) /\ (\A j \in 1..Len(q) : j > i => ~Tells(q[j], Saying, t))
         => Muted(q[i], t) = flag
  /\ (\A i \in 1..Len(q) : ~Tells(q[i], Saying, t)) => now = flag

(* What a queue to the server will make of the sender's place in the map.  *)
Sets(m) == m.type \in {"join-room", "peer-state-changed"}
SetTo(m) == IF m.type = "join-room" THEN FALSE ELSE m.muted
Awaits(w, now, flag) ==
  /\ \A i \in 1..Len(w) :
       Sets(w[i]) /\ (\A j \in 1..Len(w) : j > i => ~Sets(w[j])) => SetTo(w[i]) = flag
  /\ (\A i \in 1..Len(w) : ~Sets(w[i])) => now = flag

Joins(w) == {i \in 1..Len(w) : w[i].type = "join-room"}
Leaves(w) == {i \in 1..Len(w) : w[i].type = "leave-room"}

-----------------------------------------------------------------------------
(* Sequences. *)

LEMMA AppendFacts ==
  ASSUME NEW S, NEW q \in Seq(S), NEW e \in S
  PROVE  /\ Len(q) \in Nat /\ Append(q, e) \in Seq(S)
         /\ Len(Append(q, e)) = Len(q) + 1 /\ Append(q, e)[Len(q) + 1] = e
         /\ \A j \in 1..Len(q) : Append(q, e)[j] = q[j]
OBVIOUS

LEMMA TailFacts ==
  ASSUME NEW S, NEW q \in Seq(S), q # <<>>
  PROVE  /\ Len(q) \in Nat \ {0} /\ Tail(q) \in Seq(S) /\ Len(Tail(q)) = Len(q) - 1
         /\ Head(q) = q[1] /\ q[1] \in S
         /\ \A j \in 1..(Len(q) - 1) : Tail(q)[j] = q[j + 1]
OBVIOUS

LEMMA PartFacts ==
  ASSUME NEW S, NEW q \in Seq(S), NEW n \in 0..Len(q)
  PROVE  /\ SubSeq(q, 1, n) \in Seq(S) /\ Len(SubSeq(q, 1, n)) = n
         /\ \A j \in 1..n : SubSeq(q, 1, n)[j] = q[j]
<1>1. n \in Int /\ 1 \in Int /\ \A i \in 1..n : q[i] \in S
  OBVIOUS
<1>2. SubSeq(q, 1, n) \in Seq(S)
  BY <1>1, SubSeqProperties
<1>3. Len(SubSeq(q, 1, n)) = n /\ \A j \in 1..n : SubSeq(q, 1, n)[j] = q[j]
  BY <1>1, SubSeqProperties
<1> QED BY <1>2, <1>3

LEMMA WillAppend ==
  ASSUME NEW S, NEW q \in Seq(S), NEW e \in S, NEW types, "user-left" \notin types,
         NEW t, NEW known
  PROVE  /\ ~Gone(e, t) /\ Will(q, types, t, known) => Will(Append(q, e), types, t, known)
         /\ Tells(e, types, t) => Will(Append(q, e), types, t, known)
         /\ Gone(e, t) => ~Will(Append(q, e), types, t, known)
         /\ ~Tells(e, types, t) /\ Will(Append(q, e), types, t, known) => Will(q, types, t, known)
<1> DEFINE n == Len(q)
           r == Append(q, e)
<1>1. n \in Nat /\ Len(r) = n + 1 /\ r[n + 1] = e /\ \A j \in 1..n : r[j] = q[j]
  BY AppendFacts
<1> HIDE DEF n, r
<1>2. \A j \in 1..(n + 1) : j \in 1..n \/ j = n + 1
  BY <1>1
<1>3. \A j \in 1..n : j \in 1..(n + 1) /\ n + 1 > j
  BY <1>1
<1>4. n + 1 \in 1..(n + 1)
  BY <1>1
<1>5. ASSUME ~Gone(e, t), Will(q, types, t, known) PROVE Will(r, types, t, known)
  <2>1. CASE t \in known /\ \A j \in 1..n : ~Gone(q[j], t)
    BY <1>1, <1>2, <1>5, <2>1 DEF Will
  <2>2. CASE \E i \in 1..n : Tells(q[i], types, t) /\ \A j \in 1..n : j > i => ~Gone(q[j], t)
    BY <1>1, <1>2, <1>3, <1>5, <2>2 DEF Will
  <2> QED BY <1>5, <2>1, <2>2 DEF Will, n
<1>6. ASSUME Tells(e, types, t) PROVE Will(r, types, t, known)
  <2>1. \A j \in 1..(n + 1) : ~(j > n + 1)
    BY <1>1
  <2> QED BY <1>1, <1>4, <1>6, <2>1 DEF Will
<1>7. ASSUME Gone(e, t), Will(r, types, t, known) PROVE FALSE
  <2>1. ~(\A j \in 1..(n + 1) : ~Gone(r[j], t))
    BY <1>1, <1>4, <1>7
  <2>2. PICK i \in 1..(n + 1) : Tells(r[i], types, t) /\ \A j \in 1..(n + 1) : j > i => ~Gone(r[j], t)
    BY <1>1, <1>7, <2>1 DEF Will
  <2>3. i = n + 1
    BY <1>1, <1>2, <1>3, <1>4, <1>7, <2>2
  <2> QED BY <1>1, <1>7, <2>2, <2>3 DEF Tells, Gone
<1>8. ASSUME ~Tells(e, types, t), Will(r, types, t, known) PROVE Will(q, types, t, known)
  <2>1. CASE t \in known /\ \A j \in 1..(n + 1) : ~Gone(r[j], t)
    BY <1>1, <1>3, <2>1 DEF Will, n
  <2>2. CASE \E i \in 1..(n + 1) : Tells(r[i], types, t) /\ \A j \in 1..(n + 1) : j > i => ~Gone(r[j], t)
    <3>1. PICK i \in 1..(n + 1) : Tells(r[i], types, t) /\ \A j \in 1..(n + 1) : j > i => ~Gone(r[j], t)
      BY <2>2
    <3>2. i \in 1..n
      BY <1>1, <1>2, <1>8, <3>1
    <3> QED BY <1>1, <1>3, <3>1, <3>2 DEF Will, n
  <2> QED BY <1>1, <1>8, <2>1, <2>2 DEF Will
<1> QED BY <1>5, <1>6, <1>7, <1>8 DEF r

LEMMA WillTail ==
  ASSUME NEW S, NEW q \in Seq(S), q # <<>>, NEW types, NEW t, NEW known, NEW next
  PROVE  /\ /\ Will(q, types, t, known)
            /\ t \in known /\ ~Gone(Head(q), t) => t \in next
            /\ Tells(Head(q), types, t) => t \in next
            => Will(Tail(q), types, t, next)
         /\ /\ Will(Tail(q), types, t, next)
            /\ t \in next => (t \in known /\ ~Gone(Head(q), t)) \/ Tells(Head(q), types, t)
            => Will(q, types, t, known)
<1> DEFINE n == Len(q) - 1
           r == Tail(q)
           h == Head(q)
<1>1. n \in Nat /\ Len(q) = n + 1 /\ Len(r) = n /\ h = q[1] /\ \A j \in 1..n : r[j] = q[j + 1]
  BY TailFacts
<1> HIDE DEF n, r, h
<1>2. \A j \in 1..(n + 1) : j = 1 \/ (j - 1 \in 1..n /\ j = (j - 1) + 1 /\ r[j - 1] = q[j])
  BY <1>1
<1>3. \A j \in 1..n : j + 1 \in 1..(n + 1) /\ j + 1 > 1
  BY <1>1
<1>4. 1 \in 1..(n + 1)
  BY <1>1
<1>5. \A i, j \in 1..n : j > i <=> j + 1 > i + 1
  BY <1>1
<1>6. ASSUME Will(q, types, t, known), t \in known /\ ~Gone(h, t) => t \in next,
             Tells(h, types, t) => t \in next
      PROVE  Will(r, types, t, next)
  <2>1. CASE t \in known /\ \A j \in 1..(n + 1) : ~Gone(q[j], t)
    <3>1. t \in next /\ \A j \in 1..n : ~Gone(r[j], t)
      BY <1>1, <1>3, <1>4, <1>6, <2>1
    <3> QED BY <1>1, <3>1 DEF Will
  <2>2. CASE \E i \in 1..(n + 1) : Tells(q[i], types, t) /\ \A j \in 1..(n + 1) : j > i => ~Gone(q[j], t)
    <3>1. PICK i \in 1..(n + 1) : Tells(q[i], types, t) /\ \A j \in 1..(n + 1) : j > i => ~Gone(q[j], t)
      BY <2>2
    <3>2. CASE i = 1
      <4>1. t \in next /\ \A j \in 1..n : ~Gone(r[j], t)
        BY <1>1, <1>3, <1>6, <3>1, <3>2
      <4> QED BY <1>1, <4>1 DEF Will
    <3>3. CASE i # 1
      <4> DEFINE k == i - 1
      <4>1. k \in 1..n /\ r[k] = q[i] /\ i = k + 1
        BY <1>2, <3>3
      <4> HIDE DEF k
      <4>2. \A j \in 1..n : j > k => ~Gone(r[j], t)
        BY <1>1, <1>3, <1>5, <3>1, <4>1
      <4> QED BY <1>1, <3>1, <4>1, <4>2 DEF Will
    <3> QED BY <3>2, <3>3
  <2> QED BY <1>1, <1>6, <2>1, <2>2 DEF Will
<1>7. ASSUME Will(r, types, t, next),
             t \in next => (t \in known /\ ~Gone(h, t)) \/ Tells(h, types, t)
      PROVE  Will(q, types, t, known)
  <2>1. CASE t \in next /\ \A j \in 1..n : ~Gone(r[j], t)
    <3>1. \A j \in 1..(n + 1) : j > 1 => ~Gone(q[j], t)
      BY <1>1, <1>2, <2>1
    <3>2. CASE t \in known /\ ~Gone(h, t)
      <4>1. \A j \in 1..(n + 1) : ~Gone(q[j], t)
        BY <1>1, <1>2, <2>1, <3>2
      <4> QED BY <1>1, <3>2, <4>1 DEF Will
    <3>3. CASE Tells(h, types, t)
      BY <1>1, <1>4, <3>1, <3>3 DEF Will
    <3> QED BY <1>7, <2>1, <3>2, <3>3
  <2>2. CASE \E i \in 1..n : Tells(r[i], types, t) /\ \A j \in 1..n : j > i => ~Gone(r[j], t)
    <3>1. PICK i \in 1..n : Tells(r[i], types, t) /\ \A j \in 1..n : j > i => ~Gone(r[j], t)
      BY <2>2
    <3>2. i + 1 \in 1..(n + 1) /\ Tells(q[i + 1], types, t)
      BY <1>1, <1>3, <3>1
    <3>3. \A j \in 1..(n + 1) : j > i + 1 => ~Gone(q[j], t)
      <4> SUFFICES ASSUME NEW j \in 1..(n + 1), j > i + 1 PROVE ~Gone(q[j], t)
        OBVIOUS
      <4>1. j - 1 \in 1..n /\ r[j - 1] = q[j] /\ j - 1 > i
        BY <1>1, <1>2
      <4> QED BY <3>1, <4>1
    <3> QED BY <1>1, <3>2, <3>3 DEF Will
  <2> QED BY <1>1, <1>7, <2>1, <2>2 DEF Will
<1> QED BY <1>6, <1>7 DEF r, h

LEMMA WillNow ==
  ASSUME NEW q, NEW types, types \subseteq Saying, NEW t, NEW known, Will(q, types, t, known),
         \A i \in 1..Len(q) : ~Tells(q[i], Saying, t)
  PROVE  t \in known
BY DEF Will, Tells

LEMMA LatestAppend ==
  ASSUME NEW S, NEW q \in Seq(S), NEW e \in S, NEW t, NEW now, NEW flag
  PROVE  /\ ~Tells(e, Saying, t) /\ Latest(q, t, now, flag) => Latest(Append(q, e), t, now, flag)
         /\ Tells(e, Saying, t) /\ Muted(e, t) = flag => Latest(Append(q, e), t, now, flag)
<1> DEFINE n == Len(q)
           r == Append(q, e)
<1>1. n \in Nat /\ Len(r) = n + 1 /\ r[n + 1] = e /\ \A j \in 1..n : r[j] = q[j]
  BY AppendFacts
<1> HIDE DEF n, r
<1>2. \A j \in 1..(n + 1) : j \in 1..n \/ j = n + 1
  BY <1>1
<1>3. \A j \in 1..n : j \in 1..(n + 1) /\ n + 1 > j
  BY <1>1
<1>4. n + 1 \in 1..(n + 1)
  BY <1>1
<1>5. ASSUME ~Tells(e, Saying, t), Latest(q, t, now, flag) PROVE Latest(r, t, now, flag)
  <2>1. ASSUME NEW i \in 1..(n + 1), Tells(r[i], Saying, t),
               \A j \in 1..(n + 1) : j > i => ~Tells(r[j], Saying, t)
        PROVE  Muted(r[i], t) = flag
    <3>1. i \in 1..n /\ r[i] = q[i]
      BY <1>1, <1>2, <1>5, <2>1
    <3>2. \A j \in 1..n : j > i => ~Tells(q[j], Saying, t)
      BY <1>1, <1>3, <2>1
    <3> QED BY <1>5, <2>1, <3>1, <3>2 DEF Latest, n
  <2>2. ASSUME \A i \in 1..(n + 1) : ~Tells(r[i], Saying, t) PROVE now = flag
    <3>1. \A i \in 1..n : ~Tells(q[i], Saying, t)
      BY <1>1, <1>3, <2>2
    <3> QED BY <1>5, <3>1 DEF Latest, n
  <2> QED BY <1>1, <2>1, <2>2 DEF Latest
<1>6. ASSUME Tells(e, Saying, t), Muted(e, t) = flag PROVE Latest(r, t, now, flag)
  <2>1. ASSUME NEW i \in 1..(n + 1), Tells(r[i], Saying, t),
               \A j \in 1..(n + 1) : j > i => ~Tells(r[j], Saying, t)
        PROVE  Muted(r[i], t) = flag
    <3>1. i = n + 1
      BY <1>1, <1>2, <1>3, <1>4, <1>6, <2>1
    <3> QED BY <1>1, <1>6, <3>1
  <2>2. ~(\A i \in 1..(n + 1) : ~Tells(r[i], Saying, t))
    BY <1>1, <1>4, <1>6
  <2> QED BY <1>1, <2>1, <2>2 DEF Latest
<1> QED BY <1>5, <1>6 DEF r

LEMMA LatestTail ==
  ASSUME NEW S, NEW q \in Seq(S), q # <<>>, NEW t, NEW now, NEW next, NEW flag,
         Latest(q, t, now, flag),
         \/ \E i \in 1..Len(Tail(q)) : Tells(Tail(q)[i], Saying, t)
         \/ next = IF Tells(Head(q), Saying, t) THEN Muted(Head(q), t) ELSE now
  PROVE  Latest(Tail(q), t, next, flag)
<1> DEFINE n == Len(q) - 1
           r == Tail(q)
           h == Head(q)
<1>1. n \in Nat /\ Len(q) = n + 1 /\ Len(r) = n /\ h = q[1] /\ \A j \in 1..n : r[j] = q[j + 1]
  BY TailFacts
<1>0. \/ \E i \in 1..n : Tells(r[i], Saying, t)
      \/ next = IF Tells(h, Saying, t) THEN Muted(h, t) ELSE now
  BY <1>1
<1> HIDE DEF n, r, h
<1>2. \A j \in 1..(n + 1) : j = 1 \/ (j - 1 \in 1..n /\ j = (j - 1) + 1 /\ r[j - 1] = q[j])
  BY <1>1
<1>3. \A j \in 1..n : j + 1 \in 1..(n + 1) /\ j + 1 > 1
  BY <1>1
<1>4. ASSUME NEW i \in 1..n, Tells(r[i], Saying, t),
             \A j \in 1..n : j > i => ~Tells(r[j], Saying, t)
      PROVE  Muted(r[i], t) = flag
  <2>1. i + 1 \in 1..(n + 1) /\ q[i + 1] = r[i]
    BY <1>1, <1>3
  <2>2. \A j \in 1..(n + 1) : j > i + 1 => ~Tells(q[j], Saying, t)
    <3> SUFFICES ASSUME NEW j \in 1..(n + 1), j > i + 1 PROVE ~Tells(q[j], Saying, t)
      OBVIOUS
    <3>1. j - 1 \in 1..n /\ r[j - 1] = q[j] /\ j - 1 > i
      BY <1>1, <1>2
    <3> QED BY <1>4, <3>1
  <2> QED BY <1>1, <1>4, <2>1, <2>2 DEF Latest
<1>5. ASSUME \A i \in 1..n : ~Tells(r[i], Saying, t) PROVE next = flag
  <2>1. next = IF Tells(h, Saying, t) THEN Muted(h, t) ELSE now
    BY <1>0, <1>5
  <2>2. \A j \in 1..(n + 1) : j > 1 => ~Tells(q[j], Saying, t)
    BY <1>1, <1>2, <1>5
  <2>3. CASE Tells(h, Saying, t)
    <3>1. 1 \in 1..(n + 1) /\ Tells(q[1], Saying, t)
      BY <1>1, <2>3
    <3>2. Muted(q[1], t) = flag
      BY <1>1, <2>2, <3>1 DEF Latest
    <3> QED BY <1>1, <2>1, <2>3, <3>2
  <2>4. CASE ~Tells(h, Saying, t)
    <3>1. \A j \in 1..(n + 1) : ~Tells(q[j], Saying, t)
      BY <1>1, <1>2, <2>2, <2>4
    <3>2. now = flag
      BY <1>1, <3>1 DEF Latest
    <3> QED BY <2>1, <2>4, <3>2
  <2> QED BY <2>3, <2>4
<1>6. Latest(r, t, next, flag)
  BY <1>1, <1>4, <1>5 DEF Latest
<1> QED BY <1>6 DEF r

LEMMA AwaitsAppend ==
  ASSUME NEW S, NEW w \in Seq(S), NEW e \in S, NEW now, NEW flag
  PROVE  /\ ~Sets(e) /\ Awaits(w, now, flag) => Awaits(Append(w, e), now, flag)
         /\ Sets(e) /\ SetTo(e) = flag => Awaits(Append(w, e), now, flag)
<1> DEFINE n == Len(w)
           r == Append(w, e)
<1>1. n \in Nat /\ Len(r) = n + 1 /\ r[n + 1] = e /\ \A j \in 1..n : r[j] = w[j]
  BY AppendFacts
<1> HIDE DEF n, r
<1>2. \A j \in 1..(n + 1) : j \in 1..n \/ j = n + 1
  BY <1>1
<1>3. \A j \in 1..n : j \in 1..(n + 1) /\ n + 1 > j
  BY <1>1
<1>4. n + 1 \in 1..(n + 1)
  BY <1>1
<1>5. ASSUME ~Sets(e), Awaits(w, now, flag) PROVE Awaits(r, now, flag)
  <2>1. ASSUME NEW i \in 1..(n + 1), Sets(r[i]),
               \A j \in 1..(n + 1) : j > i => ~Sets(r[j])
        PROVE  SetTo(r[i]) = flag
    <3>1. i \in 1..n /\ r[i] = w[i]
      BY <1>1, <1>2, <1>5, <2>1
    <3>2. \A j \in 1..n : j > i => ~Sets(w[j])
      BY <1>1, <1>3, <2>1
    <3> QED BY <1>5, <2>1, <3>1, <3>2 DEF Awaits, n
  <2>2. ASSUME \A i \in 1..(n + 1) : ~Sets(r[i]) PROVE now = flag
    <3>1. \A i \in 1..n : ~Sets(w[i])
      BY <1>1, <1>3, <2>2
    <3> QED BY <1>5, <3>1 DEF Awaits, n
  <2> QED BY <1>1, <2>1, <2>2 DEF Awaits
<1>6. ASSUME Sets(e), SetTo(e) = flag PROVE Awaits(r, now, flag)
  <2>1. ASSUME NEW i \in 1..(n + 1), Sets(r[i]),
               \A j \in 1..(n + 1) : j > i => ~Sets(r[j])
        PROVE  SetTo(r[i]) = flag
    <3>1. i = n + 1
      BY <1>1, <1>2, <1>3, <1>4, <1>6, <2>1
    <3> QED BY <1>1, <1>6, <3>1
  <2>2. ~(\A i \in 1..(n + 1) : ~Sets(r[i]))
    BY <1>1, <1>4, <1>6
  <2> QED BY <1>1, <2>1, <2>2 DEF Awaits
<1> QED BY <1>5, <1>6 DEF r

LEMMA AwaitsTail ==
  ASSUME NEW S, NEW w \in Seq(S), w # <<>>, NEW now, NEW next, NEW flag,
         Awaits(w, now, flag),
         \/ \E i \in 1..Len(Tail(w)) : Sets(Tail(w)[i])
         \/ next = IF Sets(Head(w)) THEN SetTo(Head(w)) ELSE now
  PROVE  Awaits(Tail(w), next, flag)
<1> DEFINE n == Len(w) - 1
           r == Tail(w)
           h == Head(w)
<1>1. n \in Nat /\ Len(w) = n + 1 /\ Len(r) = n /\ h = w[1] /\ \A j \in 1..n : r[j] = w[j + 1]
  BY TailFacts
<1>0. \/ \E i \in 1..n : Sets(r[i])
      \/ next = IF Sets(h) THEN SetTo(h) ELSE now
  BY <1>1
<1> HIDE DEF n, r, h
<1>2. \A j \in 1..(n + 1) : j = 1 \/ (j - 1 \in 1..n /\ j = (j - 1) + 1 /\ r[j - 1] = w[j])
  BY <1>1
<1>3. \A j \in 1..n : j + 1 \in 1..(n + 1) /\ j + 1 > 1
  BY <1>1
<1>4. ASSUME NEW i \in 1..n, Sets(r[i]),
             \A j \in 1..n : j > i => ~Sets(r[j])
      PROVE  SetTo(r[i]) = flag
  <2>1. i + 1 \in 1..(n + 1) /\ w[i + 1] = r[i]
    BY <1>1, <1>3
  <2>2. \A j \in 1..(n + 1) : j > i + 1 => ~Sets(w[j])
    <3> SUFFICES ASSUME NEW j \in 1..(n + 1), j > i + 1 PROVE ~Sets(w[j])
      OBVIOUS
    <3>1. j - 1 \in 1..n /\ r[j - 1] = w[j] /\ j - 1 > i
      BY <1>1, <1>2
    <3> QED BY <1>4, <3>1
  <2> QED BY <1>1, <1>4, <2>1, <2>2 DEF Awaits
<1>5. ASSUME \A i \in 1..n : ~Sets(r[i]) PROVE next = flag
  <2>1. next = IF Sets(h) THEN SetTo(h) ELSE now
    BY <1>0, <1>5
  <2>2. \A j \in 1..(n + 1) : j > 1 => ~Sets(w[j])
    BY <1>1, <1>2, <1>5
  <2>3. CASE Sets(h)
    <3>1. 1 \in 1..(n + 1) /\ Sets(w[1])
      BY <1>1, <2>3
    <3>2. SetTo(w[1]) = flag
      BY <1>1, <2>2, <3>1 DEF Awaits
    <3> QED BY <1>1, <2>1, <2>3, <3>2
  <2>4. CASE ~Sets(h)
    <3>1. \A j \in 1..(n + 1) : ~Sets(w[j])
      BY <1>1, <1>2, <2>2, <2>4
    <3>2. now = flag
      BY <1>1, <3>1 DEF Awaits
    <3> QED BY <2>1, <2>4, <3>2
  <2> QED BY <2>3, <2>4
<1>6. Awaits(r, next, flag)
  BY <1>1, <1>4, <1>5 DEF Awaits
<1> QED BY <1>6 DEF r

-----------------------------------------------------------------------------
(***************************************************************************)
(* The types.  Ids are of connections that were made; an id whose page     *)
(* listens and that others were told of by the server is in the channel.   *)
(***************************************************************************)
Shows == UNION {[S -> BOOLEAN] : S \in SUBSET Sockets}

Met(x) == x \in Connected /\ (Listening(x) => x \in channel)

Names(m) ==
  CASE m.type = "room-users" -> DOMAIN m.members
    [] m.type = "room-full" -> {}
    [] OTHER -> {m.id}

Sendable == {m \in ToServer : m.type = "signal" => Met(m.target)}
Holdable == {m \in Sendable : m.type # "join-room"}
Sayable ==
  {m \in ToBrowser :
     /\ Names(m) \subseteq Connected
     /\ m.type \in Showing => \A x \in Names(m) : Met(x)}

PageTyped ==
  /\ session \in [Browsers -> 0 .. MaxSessions]
  /\ online \in [Browsers -> BOOLEAN] /\ inCall \in [Browsers -> BOOLEAN]
  /\ deferred \in [Browsers -> BOOLEAN] /\ muted \in [Browsers -> BOOLEAN]
  /\ told \in [Browsers -> BOOLEAN] /\ stale \in [Browsers -> BOOLEAN]
  /\ broken \subseteq Connected /\ outsiders \subseteq Connected /\ unheard \subseteq Connected
  /\ \A b \in Browsers : online[b] => Id(b) \in Connected \ broken

PeersTyped ==
  /\ peers \in [Browsers -> SUBSET Connected] /\ owed \in [Browsers -> SUBSET Sockets]
  /\ \A b \in Browsers : owed[b] \subseteq peers[b] /\ \A x \in owed[b] : Met(x)
  /\ cards \in [Browsers -> Shows] /\ \A b \in Browsers : DOMAIN cards[b] \subseteq Connected

WireTyped ==
  /\ wire \in [Sockets -> Seq(Sendable)] /\ buffer \in [Browsers -> Seq(Holdable)]
  /\ \A s \in Sockets : wire[s] # <<>> => s \in Connected
  /\ \A b \in Browsers : online[b] => buffer[b] = <<>>

InboxTyped ==
  /\ inbox \in [Sockets -> Seq(Sayable)]
  /\ \A s \in Sockets : inbox[s] # <<>> => Listening(s)

RoomTyped ==
  /\ room \in Shows /\ Members \subseteq channel /\ channel \subseteq Connected
  /\ Cardinality(Members) <= RoomSize
  /\ breaks \in 0 .. MaxBreaks /\ clicks \in 0 .. MaxClicks

TypeInv == PageTyped /\ PeersTyped /\ WireTyped /\ InboxTyped /\ RoomTyped

-----------------------------------------------------------------------------
LEMMA WiderSeq ==
  ASSUME NEW S, NEW T, S \subseteq T
  PROVE  Seq(S) \subseteq Seq(T)
<1> SUFFICES ASSUME NEW s \in Seq(S) PROVE s \in Seq(T)
  OBVIOUS
<1>1. Len(s) \in Nat /\ s \in [1..Len(s) -> S]
  BY LenProperties
<1>2. s \in [1..Len(s) -> T]
  BY <1>1
<1> QED BY <1>1, <1>2, SeqDef

LEMMA SocketFacts ==
  /\ \A s \in Sockets : s[1] \in Browsers /\ s[2] \in 1 .. MaxSessions /\ s = <<s[1], s[2]>>
  /\ \A b \in Browsers, n \in 1 .. MaxSessions :
       <<b, n>> \in Sockets /\ <<b, n>>[1] = b /\ <<b, n>>[2] = n
  /\ Connected \subseteq Sockets
  /\ \A s \in Connected : s[2] <= session[s[1]]
BY DEF Sockets, Connected

LEMMA SocketsFinite == IsFiniteSet(Sockets)
<1>1. IsFiniteSet(1 .. MaxSessions)
  BY FS_Interval, WebAssumption
<1> QED BY <1>1, FS_Product, WebAssumption DEF Sockets

LEMMA ShowsFacts ==
  ASSUME NEW f
  PROVE  f \in Shows <=> DOMAIN f \subseteq Sockets /\ f \in [DOMAIN f -> BOOLEAN]
<1>1. ASSUME f \in Shows PROVE DOMAIN f \subseteq Sockets /\ f \in [DOMAIN f -> BOOLEAN]
  <2>1. PICK S \in SUBSET Sockets : f \in [S -> BOOLEAN]
    BY <1>1 DEF Shows
  <2>2. DOMAIN f = S
    BY <2>1
  <2> QED BY <2>1, <2>2
<1>2. ASSUME DOMAIN f \subseteq Sockets, f \in [DOMAIN f -> BOOLEAN] PROVE f \in Shows
  <2>1. DOMAIN f \in SUBSET Sockets
    BY <1>2
  <2> QED BY <1>2, <2>1 DEF Shows
<1> QED BY <1>1, <1>2

LEMMA OverFacts ==
  ASSUME NEW g \in Shows, NEW f \in Shows
  PROVE  /\ Over(g, f) \in Shows /\ DOMAIN Over(g, f) = DOMAIN g \union DOMAIN f
         /\ \A x \in DOMAIN g : Over(g, f)[x] = g[x]
         /\ \A x \in DOMAIN f : x \notin DOMAIN g => Over(g, f)[x] = f[x]
<1>1. /\ DOMAIN g \subseteq Sockets /\ g \in [DOMAIN g -> BOOLEAN]
      /\ DOMAIN f \subseteq Sockets /\ f \in [DOMAIN f -> BOOLEAN]
  BY ShowsFacts
<1> DEFINE h == Over(g, f)
<1>2. /\ DOMAIN h = DOMAIN g \union DOMAIN f
      /\ \A x \in DOMAIN g : h[x] = g[x]
      /\ \A x \in DOMAIN f : x \notin DOMAIN g => h[x] = f[x]
      /\ h = [x \in DOMAIN h |-> h[x]]
  BY DEF Over
<1> HIDE DEF h
<1>3. h \in [DOMAIN h -> BOOLEAN]
  BY <1>1, <1>2
<1>4. DOMAIN h \subseteq Sockets
  BY <1>1, <1>2
<1>5. h \in Shows
  BY <1>3, <1>4, ShowsFacts
<1> QED BY <1>2, <1>5 DEF h

LEMMA WithoutFacts ==
  ASSUME NEW f \in Shows, NEW x
  PROVE  /\ Without(f, x) \in Shows /\ DOMAIN Without(f, x) = DOMAIN f \ {x}
         /\ \A y \in DOMAIN f \ {x} : Without(f, x)[y] = f[y]
<1>1. DOMAIN f \subseteq Sockets /\ f \in [DOMAIN f -> BOOLEAN]
  BY ShowsFacts
<1>2. /\ DOMAIN Without(f, x) = DOMAIN f \ {x}
      /\ \A y \in DOMAIN f \ {x} : Without(f, x)[y] = f[y]
      /\ Without(f, x) \in [DOMAIN f \ {x} -> BOOLEAN]
  BY <1>1 DEF Without
<1>3. DOMAIN Without(f, x) \subseteq Sockets
  BY <1>1, <1>2
<1> QED BY <1>2, <1>3, ShowsFacts

LEMMA OnlyFacts ==
  ASSUME NEW x \in Sockets, NEW flag \in BOOLEAN
  PROVE  Only(x, flag) \in Shows /\ DOMAIN Only(x, flag) = {x} /\ Only(x, flag)[x] = flag
<1>1. DOMAIN Only(x, flag) = {x} /\ Only(x, flag) \in [{x} -> BOOLEAN] /\ Only(x, flag)[x] = flag
  BY DEF Only
<1> QED BY <1>1, ShowsFacts

(* Messages. *)
LEMMA ToServerFacts ==
  /\ \A m \in ToServer : m.type \in {"join-room", "leave-room", "peer-state-changed", "signal"}
  /\ \A m \in ToServer : m.type = "signal" => m.target \in Sockets
  /\ \A m \in ToServer : m.type = "peer-state-changed" => m.muted \in BOOLEAN
  /\ [type |-> "join-room"] \in ToServer /\ [type |-> "leave-room"] \in ToServer
  /\ \A f \in BOOLEAN : [type |-> "peer-state-changed", muted |-> f] \in ToServer
  /\ \A s \in Sockets : [type |-> "signal", target |-> s] \in ToServer
BY DEF ToServer

LEMMA ToBrowserTypes ==
  ASSUME NEW m \in ToBrowser
  PROVE  /\ m.type \in {"room-users", "user-joined", "user-left", "signal",
                        "peer-state-changed", "room-full"}
         /\ m.type = "room-users" => m.members \in Shows
         /\ m.type \in {"user-joined", "user-left", "signal", "peer-state-changed"} => m.id \in Sockets
         /\ m.type \in {"user-joined", "peer-state-changed"} => m.muted \in BOOLEAN
<1> DEFINE A == [type : {"room-users"}, members : Shows]
           B == [type : {"room-full"}] \union [type : {"user-left", "signal"}, id : Sockets]
                  \union [type : {"user-joined", "peer-state-changed"}, id : Sockets, muted : BOOLEAN]
<1>1. m \in A \/ m \in B
  BY DEF ToBrowser, Shows
<1>2. CASE m \in A
  BY <1>2
<1>3. CASE m \in B
  BY <1>3
<1> QED BY <1>1, <1>2, <1>3

LEMMA ToBrowserMessages ==
  /\ [type |-> "room-full"] \in ToBrowser
  /\ \A f \in Shows : [type |-> "room-users", members |-> f] \in ToBrowser
  /\ \A s \in Sockets : /\ [type |-> "user-left", id |-> s] \in ToBrowser
                        /\ [type |-> "signal", id |-> s] \in ToBrowser
  /\ \A s \in Sockets, f \in BOOLEAN :
       /\ [type |-> "user-joined", id |-> s, muted |-> f] \in ToBrowser
       /\ [type |-> "peer-state-changed", id |-> s, muted |-> f] \in ToBrowser
BY DEF ToBrowser, Shows

LEMMA NamesFacts ==
  ASSUME NEW m \in ToBrowser
  PROVE  /\ m.type = "room-users" => Names(m) = DOMAIN m.members
         /\ m.type = "room-full" => Names(m) = {}
         /\ m.type \in {"user-joined", "user-left", "signal", "peer-state-changed"} => Names(m) = {m.id}
BY DEF Names

(* Connections are only made, a page that listens stays in the channel.    *)
LEMMA Grown ==
  ASSUME PageTyped, session' \in [Browsers -> 0 .. MaxSessions],
         \A b \in Browsers : session'[b] >= session[b],
         \A b \in Browsers : online'[b] /\ session'[b] = session[b] => online[b],
         \A x \in channel : x \in channel' \/ x \in broken
  PROVE  /\ Connected \subseteq Connected'
         /\ \A x : Met(x) => Met(x)'
         /\ Sendable \subseteq Sendable' /\ Holdable \subseteq Holdable' /\ Sayable \subseteq Sayable'
<1>1. \A s \in Sockets : s[1] \in Browsers /\ s[2] \in Nat
  BY SocketFacts, WebAssumption
<1>2. \A b \in Browsers : session[b] \in Nat /\ session'[b] \in Nat
  BY DEF PageTyped
<1>3. Connected \subseteq Connected'
  BY <1>1, <1>2 DEF Connected
<1>4. ASSUME NEW x, Met(x) PROVE Met(x)'
  <2>1. x \in Connected /\ x \in Sockets /\ x[1] \in Browsers /\ x[2] \in Nat /\ x[2] <= session[x[1]]
    BY <1>1, <1>4, SocketFacts DEF Met
  <2>2. ASSUME Listening(x)' PROVE x \in channel'
    <3>1. x = <<x[1], session'[x[1]]>> /\ online'[x[1]]
      BY <2>2 DEF Listening, Id
    <3>2. x[2] = session'[x[1]]
      BY <3>1
    <3>3. session'[x[1]] = session[x[1]] /\ online[x[1]]
      BY <1>2, <2>1, <3>1, <3>2
    <3>4. Listening(x) /\ x = Id(x[1])
      BY <3>1, <3>3 DEF Listening, Id
    <3>5. x \in channel /\ x \notin broken
      BY <1>4, <2>1, <3>3, <3>4 DEF Met, PageTyped
    <3> QED BY <3>5
  <2> QED BY <1>3, <2>1, <2>2 DEF Met
<1>5. Sendable \subseteq Sendable'
  BY <1>4 DEF Sendable
<1>6. Sayable \subseteq Sayable'
  BY <1>3, <1>4 DEF Sayable
<1> QED BY <1>3, <1>4, <1>5, <1>6 DEF Holdable

LEMMA WorldGrows ==
  ASSUME TypeInv, [Next]_vars
  PROVE  /\ Connected \subseteq Connected'
         /\ \A x : Met(x) => Met(x)'
         /\ Sendable \subseteq Sendable' /\ Holdable \subseteq Holdable' /\ Sayable \subseteq Sayable'
<1>0. PageTyped /\ \A b \in Browsers : session[b] \in 0 .. MaxSessions
  BY DEF TypeInv, PageTyped
<1>1. ASSUME UNCHANGED session, \A b \in Browsers : online'[b] => online[b],
             \A x \in channel : x \in channel' \/ x \in broken
      PROVE  /\ Connected \subseteq Connected'
             /\ \A x : Met(x) => Met(x)'
             /\ Sendable \subseteq Sendable' /\ Holdable \subseteq Holdable' /\ Sayable \subseteq Sayable'
  <2>1. session' \in [Browsers -> 0 .. MaxSessions] /\ \A b \in Browsers : session'[b] >= session[b]
    BY <1>0, <1>1 DEF PageTyped
  <2> QED BY <1>0, <1>1, <2>1, Grown
<1>2. ASSUME NEW b \in Browsers, Connect(b)
      PROVE  /\ session' \in [Browsers -> 0 .. MaxSessions]
             /\ \A c \in Browsers : session'[c] >= session[c]
             /\ \A c \in Browsers : online'[c] /\ session'[c] = session[c] => online[c]
             /\ \A x \in channel : x \in channel' \/ x \in broken
  <2>1. /\ session[b] < MaxSessions /\ session' = [session EXCEPT ![b] = @ + 1]
        /\ online' = [online EXCEPT ![b] = TRUE] /\ channel' = channel
    BY <1>2 DEF Connect, serverVars
  <2>2. session \in [Browsers -> 0 .. MaxSessions] /\ online \in [Browsers -> BOOLEAN]
    BY <1>0 DEF PageTyped
  <2> QED BY <2>1, <2>2, WebAssumption
<1>3. ASSUME NEW b \in Browsers, Disconnect(b) \/ Reload(b)
      PROVE UNCHANGED <<session, channel>> /\ \A c \in Browsers : online'[c] => online[c]
  <2>1. online' = [online EXCEPT ![b] = FALSE] /\ UNCHANGED <<session, channel>>
    BY <1>3 DEF Disconnect, Reload, serverVars
  <2>2. online \in [Browsers -> BOOLEAN]
    BY <1>0 DEF PageTyped
  <2> QED BY <2>1, <2>2
<1>4. ASSUME NEW b \in Browsers, Receive(b) \/ SendOffer(b) \/ ToggleMic(b) \/ LeaveCall(b)
      PROVE UNCHANGED <<session, online, channel>>
  BY <1>4 DEF Receive, SendOffer, ToggleMic, LeaveCall, serverVars
<1>5. ASSUME NEW s \in Sockets, Serve(s)
      PROVE UNCHANGED <<session, online>> /\ channel \subseteq channel'
  BY <1>5 DEF Serve, JoinRoom, PeerStateChanged, pageVars, serverVars
<1>6. ASSUME NEW s \in Sockets, ServeDisconnect(s)
      PROVE UNCHANGED <<session, online>> /\ channel' = channel \ {s} /\ s \in broken
  BY <1>6 DEF ServeDisconnect, pageVars
<1>7. CASE UNCHANGED vars
  BY <1>1, <1>7 DEF vars, pageVars, serverVars
<1>8. CASE \E b \in Browsers : Connect(b)
  BY <1>0, <1>2, <1>8, Grown
<1>9. CASE \E b \in Browsers : Disconnect(b) \/ Reload(b)
  BY <1>1, <1>3, <1>9
<1>10. CASE \E b \in Browsers : Receive(b) \/ SendOffer(b) \/ ToggleMic(b) \/ LeaveCall(b)
  BY <1>1, <1>4, <1>10
<1>11. CASE \E s \in Sockets : Serve(s) \/ ServeDisconnect(s)
  BY <1>1, <1>5, <1>6, <1>11
<1> QED BY <1>7, <1>8, <1>9, <1>10, <1>11 DEF Next

(* What a page does not have yet has not been connected. *)
LEMMA NewSocket ==
  ASSUME PageTyped, NEW b \in Browsers, session[b] < MaxSessions
  PROVE  /\ <<b, session[b] + 1>> \in Sockets /\ <<b, session[b] + 1>> \notin Connected
         /\ \A c \in Browsers : Id(c) # <<b, session[b] + 1>>
<1>1. session[b] \in Nat /\ session[b] + 1 \in 1 .. MaxSessions
  BY WebAssumption DEF PageTyped
<1>2. <<b, session[b] + 1>> \in Sockets
  BY <1>1, SocketFacts
<1>3. ~(<<b, session[b] + 1>>[2] <= session[<<b, session[b] + 1>>[1]])
  BY <1>1
<1>4. \A c \in Browsers : Id(c) = <<b, session[b] + 1>> => c = b /\ session[c] = session[b] + 1
  BY DEF Id
<1> QED BY <1>1, <1>2, <1>3, <1>4 DEF Connected

LEMMA PageStep == TypeInv /\ [Next]_vars => PageTyped'
<1> SUFFICES ASSUME TypeInv, [Next]_vars PROVE PageTyped'
  OBVIOUS
<1>0. PageTyped /\ Connected \subseteq Connected'
  BY WorldGrows DEF TypeInv
<1>1. ASSUME UNCHANGED <<session, online>>, broken' \subseteq broken, outsiders' \subseteq Connected,
             unheard' \subseteq Connected,
             inCall' \in [Browsers -> BOOLEAN], deferred' \in [Browsers -> BOOLEAN],
             muted' \in [Browsers -> BOOLEAN], told' \in [Browsers -> BOOLEAN],
             stale' \in [Browsers -> BOOLEAN]
      PROVE  PageTyped'
  BY <1>0, <1>1 DEF PageTyped, Id
<1>2. ASSUME NEW b \in Browsers, Connect(b) PROVE PageTyped'
  <2>1. /\ session[b] < MaxSessions /\ session' = [session EXCEPT ![b] = @ + 1]
        /\ online' = [online EXCEPT ![b] = TRUE] /\ deferred' = [deferred EXCEPT ![b] = FALSE]
        /\ told' = [told EXCEPT ![b] = FALSE] /\ UNCHANGED <<inCall, muted, broken, stale, outsiders, unheard>>
    BY <1>2 DEF Connect, auxVars
  <2>2. /\ session' \in [Browsers -> 0 .. MaxSessions]
        /\ online' \in [Browsers -> BOOLEAN] /\ deferred' \in [Browsers -> BOOLEAN]
        /\ told' \in [Browsers -> BOOLEAN]
    BY <1>0, <2>1, WebAssumption DEF PageTyped
  <2>3. ASSUME NEW c \in Browsers, online'[c] PROVE Id(c)' \in Connected' \ broken'
    <3>1. CASE c = b
      <4>1. Id(c)' = <<b, session[b] + 1>> /\ Id(c)' \notin Connected /\ Id(c)' \in Sockets
        BY <1>0, <2>1, <3>1, NewSocket DEF Id, PageTyped
      <4>2. Id(c)'[2] = session'[Id(c)'[1]] /\ session'[b] \in Nat
        BY <2>2, <3>1, <4>1 DEF Id
      <4>3. Id(c)' \in Connected'
        BY <4>1, <4>2, <2>2, <3>1 DEF Connected, Id
      <4> QED BY <1>0, <2>1, <4>1, <4>3 DEF PageTyped
    <3>2. CASE c # b
      <4>1. Id(c)' = Id(c) /\ online[c]
        BY <1>0, <2>1, <2>3, <3>2 DEF Id, PageTyped
      <4> QED BY <1>0, <2>1, <4>1 DEF PageTyped
    <3> QED BY <3>1, <3>2
  <2> QED BY <1>0, <2>1, <2>2, <2>3 DEF PageTyped
<1>3. ASSUME NEW b \in Browsers, Disconnect(b) \/ Reload(b) PROVE PageTyped'
  <2>1. /\ online' = [online EXCEPT ![b] = FALSE] /\ UNCHANGED <<session, outsiders, told, unheard>>
        /\ broken' \subseteq broken \union {Id(b)} /\ (broken' # broken => online[b])
        /\ stale' \in {[stale EXCEPT ![b] = f] : f \in BOOLEAN}
        /\ inCall' \in {inCall, [inCall EXCEPT ![b] = TRUE]}
        /\ deferred' \in {deferred, [deferred EXCEPT ![b] = TRUE]}
        /\ muted' \in {muted, [muted EXCEPT ![b] = FALSE]}
    BY <1>3 DEF Disconnect, Reload
  <2>2. /\ online' \in [Browsers -> BOOLEAN] /\ stale' \in [Browsers -> BOOLEAN]
        /\ inCall' \in [Browsers -> BOOLEAN] /\ deferred' \in [Browsers -> BOOLEAN]
        /\ muted' \in [Browsers -> BOOLEAN]
    BY <1>0, <2>1 DEF PageTyped
  <2>3. broken' \subseteq Connected
    BY <1>0, <2>1 DEF PageTyped
  <2>4. ASSUME NEW c \in Browsers, online'[c] PROVE Id(c)' \in Connected' \ broken'
    <3>1. c # b /\ online[c] /\ Id(c)' = Id(c)
      BY <1>0, <2>1, <2>4 DEF PageTyped, Id
    <3>2. Id(c) # Id(b)
      BY <3>1 DEF Id
    <3> QED BY <1>0, <2>1, <3>1, <3>2 DEF PageTyped
  <2> QED BY <1>0, <2>1, <2>2, <2>3, <2>4 DEF PageTyped
<1>4. ASSUME NEW b \in Browsers, Receive(b) \/ SendOffer(b) \/ ToggleMic(b) \/ LeaveCall(b)
      PROVE  PageTyped'
  <2>1. /\ UNCHANGED <<session, online, deferred, broken, stale, outsiders, unheard>>
        /\ inCall' \in {inCall, [inCall EXCEPT ![b] = FALSE]}
        /\ muted' \in {muted, [muted EXCEPT ![b] = ~@]}
        /\ told' \in {told, [told EXCEPT ![b] = IF online[b] /\ inCall[b] THEN ~muted[b] ELSE @]}
    BY <1>4 DEF Receive, SendOffer, ToggleMic, LeaveCall, auxVars
  <2>2. /\ inCall' \in [Browsers -> BOOLEAN] /\ muted' \in [Browsers -> BOOLEAN]
        /\ told' \in [Browsers -> BOOLEAN]
    BY <1>0, <2>1 DEF PageTyped
  <2> QED BY <1>0, <1>1, <2>1, <2>2 DEF PageTyped
<1>5. ASSUME NEW s \in Sockets, Serve(s) \/ ServeDisconnect(s) PROVE PageTyped'
  <2>1. /\ UNCHANGED <<session, online, inCall, deferred, muted, told, stale>>
        /\ broken' \subseteq broken
        /\ outsiders' \subseteq outsiders \union {s} /\ (outsiders' # outsiders => wire[s] # <<>>)
        /\ unheard' \subseteq unheard \union {s} /\ (wire[s] = <<>> => unheard' = unheard)
    BY <1>5 DEF Serve, ServeDisconnect, pageVars, auxVars
  <2>2. outsiders' \subseteq Connected /\ unheard' \subseteq Connected
    BY <1>0, <2>1 DEF PageTyped, TypeInv, WireTyped
  <2> QED BY <1>0, <1>1, <2>1, <2>2 DEF PageTyped
<1>6. CASE UNCHANGED vars
  BY <1>0, <1>1, <1>6 DEF vars, pageVars, auxVars, PageTyped
<1> QED BY <1>2, <1>3, <1>4, <1>5, <1>6 DEF Next

-----------------------------------------------------------------------------
(* What a page does with a message, by what it is about.                   *)
Known(b, m) ==
  CASE m.type \in Showing -> peers[b] \union (Names(m) \ {Id(b)})
    [] m.type = "user-left" -> peers[b] \ {m.id}
    [] m.type = "signal" -> peers[b] \union {m.id}
    [] OTHER -> peers[b]
Shown(b, m) ==
  CASE m.type \in Showing -> DOMAIN cards[b] \union (Names(m) \ {Id(b)})
    [] m.type = "user-left" -> DOMAIN cards[b] \ {m.id}
    [] OTHER -> DOMAIN cards[b]

LEMMA MeetFacts ==
  ASSUME PeersTyped, NEW b \in Browsers, NEW found \in Shows, MeetPeers(b, found)
  PROVE  /\ peers' = [peers EXCEPT ![b] = peers[b] \union (DOMAIN found \ {Id(b)})]
         /\ owed' = [owed EXCEPT ![b] = owed[b] \union ((DOMAIN found \ {Id(b)}) \ peers[b])]
         /\ cards' \in [Browsers -> Shows]
         /\ \A c \in Browsers \ {b} : cards'[c] = cards[c]
         /\ DOMAIN cards'[b] = DOMAIN cards[b] \union (DOMAIN found \ {Id(b)})
         /\ \A t \in DOMAIN found \ {Id(b)} : cards'[b][t] = found[t]
         /\ \A t \in DOMAIN cards[b] : t \notin DOMAIN found \ {Id(b)} => cards'[b][t] = cards[b][t]
         /\ UNCHANGED <<wire, buffer>>
<1> DEFINE others == Without(found, Id(b))
           new == DOMAIN others \ peers[b]
<1>1. /\ others \in Shows /\ DOMAIN others = DOMAIN found \ {Id(b)}
      /\ \A t \in DOMAIN others : others[t] = found[t]
  BY WithoutFacts
<1>2. /\ peers' = [peers EXCEPT ![b] = @ \union new]
      /\ owed' = [owed EXCEPT ![b] = @ \union new]
      /\ cards' = [cards EXCEPT ![b] = Over(others, cards[b])]
      /\ UNCHANGED <<wire, buffer>>
  BY DEF MeetPeers
<1>3. cards \in [Browsers -> Shows] /\ peers \in [Browsers -> SUBSET Connected] /\ owed \in [Browsers -> SUBSET Sockets]
  BY DEF PeersTyped
<1> HIDE DEF others
<1>4. /\ Over(others, cards[b]) \in Shows
      /\ DOMAIN Over(others, cards[b]) = DOMAIN others \union DOMAIN cards[b]
      /\ \A t \in DOMAIN others : Over(others, cards[b])[t] = others[t]
      /\ \A t \in DOMAIN cards[b] : t \notin DOMAIN others => Over(others, cards[b])[t] = cards[b][t]
  <2>1. cards[b] \in Shows
    BY <1>3
  <2> QED BY <1>1, <2>1, OverFacts
<1>5. cards'[b] = Over(others, cards[b]) /\ \A c \in Browsers \ {b} : cards'[c] = cards[c]
  BY <1>2, <1>3
<1>6. cards' \in [Browsers -> Shows]
  BY <1>2, <1>3, <1>4
<1>7. peers[b] \union new = peers[b] \union (DOMAIN found \ {Id(b)})
      /\ new = (DOMAIN found \ {Id(b)}) \ peers[b]
  BY <1>1
<1> HIDE DEF new
<1> QED BY <1>1, <1>2, <1>4, <1>5, <1>6, <1>7

LEMMA ReceiveFacts ==
  ASSUME TypeInv, NEW b \in Browsers, Receive(b)
  PROVE  LET m == Head(inbox[Id(b)])
         IN  /\ online[b] /\ Id(b) \in Sockets /\ inbox[Id(b)] # <<>>
             /\ m \in Sayable /\ inbox[Id(b)] \in Seq(Sayable)
             /\ inbox' = [inbox EXCEPT ![Id(b)] = Tail(@)]
             /\ UNCHANGED <<session, online, inCall, deferred, muted, room, channel, broken,
                            breaks, clicks, told, stale, outsiders, unheard, wire, buffer>>
             /\ peers' = [peers EXCEPT ![b] = Known(b, m)]
             /\ owed' \in [Browsers -> SUBSET Sockets] /\ \A c \in Browsers \ {b} : owed'[c] = owed[c]
             /\ owed'[b] \subseteq peers'[b]
             /\ \A x \in owed'[b] : x \in owed[b] \/ (m.type \in Showing /\ x \in Names(m))
             /\ cards' \in [Browsers -> Shows] /\ \A c \in Browsers \ {b} : cards'[c] = cards[c]
             /\ DOMAIN cards'[b] = Shown(b, m)
             /\ \A t \in DOMAIN cards'[b] \ {Id(b)} :
                  cards'[b][t] = IF Tells(m, Saying, t) THEN Muted(m, t) ELSE cards[b][t]
<1> DEFINE m == Head(inbox[Id(b)])
<1>1. /\ online[b] /\ inbox[Id(b)] # <<>>
      /\ \/ m.type = "room-users" /\ MeetPeers(b, m.members)
         \/ m.type = "user-joined" /\ MeetPeers(b, Only(m.id, m.muted))
         \/ m.type = "user-left" /\ LosePeer(b, m.id)
         \/ m.type = "signal" /\ TakeOffer(b, m.id)
         \/ m.type = "peer-state-changed" /\ ShowState(b, m.id, m.muted)
         \/ m.type = "room-full" /\ UNCHANGED <<peers, owed, cards, wire, buffer>>
      /\ inbox' = [inbox EXCEPT ![Id(b)] = Tail(@)]
      /\ UNCHANGED <<session, online, inCall, deferred, muted, room, channel, broken,
                     breaks, clicks, told, stale, outsiders, unheard>>
  BY DEF Receive, serverVars, counters
<1>2. Id(b) \in Sockets
  BY <1>1, SocketFacts DEF TypeInv, PageTyped
<1>3. inbox[Id(b)] \in Seq(Sayable)
  BY <1>2 DEF TypeInv, InboxTyped
<1>4. m \in Sayable /\ m \in ToBrowser
  BY <1>1, <1>3 DEF Sayable
<1>5. PeersTyped /\ peers \in [Browsers -> SUBSET Connected] /\ owed \in [Browsers -> SUBSET Sockets]
      /\ cards \in [Browsers -> Shows] /\ owed[b] \subseteq peers[b]
  BY DEF TypeInv, PeersTyped
<1> HIDE DEF m
<1>6. ASSUME NEW found \in Shows, m.type \in Showing, MeetPeers(b, found), DOMAIN found = Names(m),
             \A t \in DOMAIN found : found[t] = Muted(m, t) /\ About(m, t),
             \A t : About(m, t) => t \in DOMAIN found
      PROVE  /\ peers' = [peers EXCEPT ![b] = Known(b, m)]
             /\ owed' \in [Browsers -> SUBSET Sockets] /\ \A c \in Browsers \ {b} : owed'[c] = owed[c]
             /\ owed'[b] \subseteq peers'[b]
             /\ \A x \in owed'[b] : x \in owed[b] \/ (m.type \in Showing /\ x \in Names(m))
             /\ cards' \in [Browsers -> Shows] /\ \A c \in Browsers \ {b} : cards'[c] = cards[c]
             /\ DOMAIN cards'[b] = Shown(b, m)
             /\ \A t \in DOMAIN cards'[b] \ {Id(b)} :
                  cards'[b][t] = IF Tells(m, Saying, t) THEN Muted(m, t) ELSE cards[b][t]
             /\ UNCHANGED <<wire, buffer>>
  <2>1. /\ peers' = [peers EXCEPT ![b] = peers[b] \union (DOMAIN found \ {Id(b)})]
        /\ owed' = [owed EXCEPT ![b] = owed[b] \union ((DOMAIN found \ {Id(b)}) \ peers[b])]
        /\ cards' \in [Browsers -> Shows]
        /\ \A c \in Browsers \ {b} : cards'[c] = cards[c]
        /\ DOMAIN cards'[b] = DOMAIN cards[b] \union (DOMAIN found \ {Id(b)})
        /\ \A t \in DOMAIN found \ {Id(b)} : cards'[b][t] = found[t]
        /\ \A t \in DOMAIN cards[b] : t \notin DOMAIN found \ {Id(b)} => cards'[b][t] = cards[b][t]
        /\ UNCHANGED <<wire, buffer>>
    BY <1>5, <1>6, MeetFacts
  <2>2. m.type \in Saying /\ m.type \notin {"user-left", "signal"}
    BY <1>6 DEF Showing, Saying
  <2>3. Known(b, m) = peers[b] \union (DOMAIN found \ {Id(b)})
        /\ Shown(b, m) = DOMAIN cards[b] \union (DOMAIN found \ {Id(b)})
    BY <1>6, <2>2 DEF Known, Shown
  <2>4. \A t : Tells(m, Saying, t) <=> t \in DOMAIN found
    BY <1>6, <2>2 DEF Tells
  <2>5. DOMAIN found \subseteq Sockets
    BY <1>6, ShowsFacts
  <2>6. owed' \in [Browsers -> SUBSET Sockets] /\ (\A c \in Browsers \ {b} : owed'[c] = owed[c])
        /\ owed'[b] = owed[b] \union ((DOMAIN found \ {Id(b)}) \ peers[b])
    BY <1>5, <2>1, <2>5
  <2>7. peers'[b] = peers[b] \union (DOMAIN found \ {Id(b)})
    BY <1>5, <2>1
  <2>8. ASSUME NEW t \in DOMAIN cards'[b] \ {Id(b)}
        PROVE  cards'[b][t] = IF Tells(m, Saying, t) THEN Muted(m, t) ELSE cards[b][t]
    <3>1. CASE t \in DOMAIN found
      BY <1>6, <2>1, <2>4, <2>8, <3>1
    <3>2. CASE t \notin DOMAIN found
      BY <2>1, <2>4, <2>8, <3>2
    <3> QED BY <3>1, <3>2
  <2> QED BY <1>5, <1>6, <2>1, <2>3, <2>6, <2>7, <2>8
<1>7. CASE m.type = "room-users"
  <2>1. m.members \in Shows /\ MeetPeers(b, m.members) /\ m.type \in Showing /\ DOMAIN m.members = Names(m)
    BY <1>1, <1>4, <1>7, ToBrowserTypes, NamesFacts DEF Showing
  <2>2. \A t \in DOMAIN m.members : m.members[t] = Muted(m, t) /\ About(m, t)
    BY <1>7 DEF Muted, About
  <2>3. \A t : About(m, t) => t \in DOMAIN m.members
    BY <1>7 DEF About
  <2>4. UNCHANGED <<wire, buffer>>
    BY <1>6, <2>1, <2>2, <2>3
  <2> QED BY <1>1, <1>2, <1>3, <1>4, <1>6, <2>1, <2>2, <2>3, <2>4 DEF m
<1>8. CASE m.type = "user-joined"
  <2> DEFINE found == Only(m.id, m.muted)
  <2>1. m.id \in Sockets /\ m.muted \in BOOLEAN
    BY <1>4, <1>8, ToBrowserTypes
  <2>2. found \in Shows /\ DOMAIN found = {m.id} /\ found[m.id] = m.muted
    BY <2>1, OnlyFacts
  <2>3. MeetPeers(b, found) /\ m.type \in Showing /\ DOMAIN found = Names(m)
    BY <1>1, <1>4, <1>8, <2>2, NamesFacts DEF Showing
  <2> HIDE DEF found
  <2>4. \A t \in DOMAIN found : found[t] = Muted(m, t) /\ About(m, t)
    BY <1>8, <2>2 DEF Muted, About
  <2>5. \A t : About(m, t) => t \in DOMAIN found
    BY <1>8, <2>2 DEF About
  <2>6. UNCHANGED <<wire, buffer>>
    BY <1>6, <2>2, <2>3, <2>4, <2>5
  <2> QED BY <1>1, <1>2, <1>3, <1>4, <1>6, <2>2, <2>3, <2>4, <2>5, <2>6 DEF m
<1>9. CASE m.type = "user-left"
  <2>1. LosePeer(b, m.id)
    BY <1>1, <1>9
  <2>2. /\ peers' = [peers EXCEPT ![b] = peers[b] \ {m.id}] /\ owed' = [owed EXCEPT ![b] = owed[b] \ {m.id}]
        /\ cards' = [cards EXCEPT ![b] = Without(cards[b], m.id)] /\ UNCHANGED <<wire, buffer>>
    BY <2>1 DEF LosePeer
  <2>3. /\ Without(cards[b], m.id) \in Shows /\ DOMAIN Without(cards[b], m.id) = DOMAIN cards[b] \ {m.id}
        /\ \A y \in DOMAIN cards[b] \ {m.id} : Without(cards[b], m.id)[y] = cards[b][y]
    BY <1>5, WithoutFacts
  <2>4. cards'[b] = Without(cards[b], m.id) /\ cards' \in [Browsers -> Shows]
        /\ \A c \in Browsers \ {b} : cards'[c] = cards[c]
    BY <1>5, <2>2, <2>3
  <2>5. Known(b, m) = peers[b] \ {m.id} /\ Shown(b, m) = DOMAIN cards[b] \ {m.id}
    BY <1>9 DEF Known, Shown, Showing
  <2>6. \A t : ~Tells(m, Saying, t)
    BY <1>9 DEF Tells, Saying
  <2>7. /\ owed' \in [Browsers -> SUBSET Sockets] /\ (\A c \in Browsers \ {b} : owed'[c] = owed[c])
        /\ owed'[b] \subseteq peers'[b] /\ owed'[b] \subseteq owed[b]
    BY <1>5, <2>2
  <2>8. \A t \in DOMAIN cards'[b] \ {Id(b)} : cards'[b][t] = cards[b][t]
    BY <2>3, <2>4
  <2> QED BY <1>1, <1>2, <1>3, <1>4, <2>2, <2>3, <2>4, <2>5, <2>6, <2>7, <2>8 DEF m
<1>10. CASE m.type = "signal"
  <2>1. TakeOffer(b, m.id)
    BY <1>1, <1>10
  <2>2. peers' = [peers EXCEPT ![b] = peers[b] \union {m.id}] /\ UNCHANGED <<owed, cards, wire, buffer>>
    BY <2>1 DEF TakeOffer
  <2>3. Known(b, m) = peers[b] \union {m.id} /\ Shown(b, m) = DOMAIN cards[b]
        /\ peers[b] \subseteq peers'[b]
    BY <1>5, <1>10, <2>2 DEF Known, Shown, Showing
  <2>4. \A t : ~Tells(m, Saying, t)
    BY <1>10 DEF Tells, Saying
  <2> QED BY <1>1, <1>2, <1>3, <1>4, <1>5, <2>2, <2>3, <2>4 DEF m
<1>11. CASE m.type = "peer-state-changed"
  <2>1. ShowState(b, m.id, m.muted) /\ m.id \in Sockets /\ m.muted \in BOOLEAN
    BY <1>1, <1>4, <1>11, ToBrowserTypes
  <2>2. cards' = (IF m.id \in DOMAIN cards[b] THEN [cards EXCEPT ![b][m.id] = m.muted] ELSE cards)
        /\ UNCHANGED <<peers, owed, wire, buffer>>
    BY <2>1 DEF ShowState
  <2>3. Known(b, m) = peers[b] /\ Shown(b, m) = DOMAIN cards[b]
    BY <1>11 DEF Known, Shown, Showing
  <2>4. \A t : (Tells(m, Saying, t) <=> t = m.id) /\ Muted(m, t) = m.muted
    BY <1>11 DEF Tells, Saying, About, Muted
  <2>5. DOMAIN cards[b] \subseteq Sockets /\ cards[b] \in [DOMAIN cards[b] -> BOOLEAN]
    BY <1>5, ShowsFacts
  <2>6. /\ cards' \in [Browsers -> Shows] /\ (\A c \in Browsers \ {b} : cards'[c] = cards[c])
        /\ DOMAIN cards'[b] = DOMAIN cards[b]
        /\ \A t \in DOMAIN cards'[b] : cards'[b][t] = IF t = m.id THEN m.muted ELSE cards[b][t]
    <3>1. CASE m.id \notin DOMAIN cards[b]
      BY <1>5, <2>2, <3>1
    <3>2. CASE m.id \in DOMAIN cards[b]
      <4> DEFINE new == [cards[b] EXCEPT ![m.id] = m.muted]
      <4>1. new \in [DOMAIN cards[b] -> BOOLEAN] /\ DOMAIN new = DOMAIN cards[b]
            /\ \A t \in DOMAIN cards[b] : new[t] = IF t = m.id THEN m.muted ELSE cards[b][t]
        BY <2>1, <2>5
      <4>2. cards' = [cards EXCEPT ![b] = new]
        BY <2>2, <3>2
      <4> HIDE DEF new
      <4>3. new \in Shows
        BY <2>5, <4>1, ShowsFacts
      <4> QED BY <1>5, <4>1, <4>2, <4>3
    <3> QED BY <3>1, <3>2
  <2>7. \A t \in DOMAIN cards'[b] \ {Id(b)} :
          cards'[b][t] = IF Tells(m, Saying, t) THEN Muted(m, t) ELSE cards[b][t]
    BY <2>4, <2>6
  <2>8. peers' = [peers EXCEPT ![b] = Known(b, m)]
    BY <1>5, <2>2, <2>3
  <2> QED BY <1>1, <1>2, <1>3, <1>4, <1>5, <2>2, <2>3, <2>6, <2>7, <2>8 DEF m
<1>12. CASE m.type = "room-full"
  <2>1. Known(b, m) = peers[b] /\ Shown(b, m) = DOMAIN cards[b] /\ \A t : ~Tells(m, Saying, t)
    BY <1>12 DEF Known, Shown, Showing, Tells, Saying
  <2>2. UNCHANGED <<peers, owed, cards, wire, buffer>>
    BY <1>1, <1>12
  <2>3. peers' = [peers EXCEPT ![b] = Known(b, m)]
    BY <1>5, <2>1, <2>2
  <2> QED BY <1>1, <1>2, <1>3, <1>4, <1>5, <2>1, <2>2, <2>3 DEF m
<1> QED BY <1>1, <1>7, <1>8, <1>9, <1>10, <1>11, <1>12

LEMMA MapFacts ==
  ASSUME NEW S, NEW T, NEW f, f = [r \in S |-> f[r]], \A r \in S : f[r] \in T
  PROVE  f \in [S -> T]
OBVIOUS

-----------------------------------------------------------------------------
(* What the server does with one message, or with a connection that broke. *)
Untouched == UNCHANGED <<room, channel, inbox>>

LEMMA ServeFacts ==
  ASSUME TypeInv, NEW s \in Sockets, Serve(s)
  PROVE  LET m == Head(wire[s])
         IN  /\ wire[s] \in Seq(Sendable) /\ wire[s] # <<>> /\ m \in Sendable /\ s \in Connected
             /\ \/ m.type = "join-room" /\ JoinRoom(s) /\ unheard' = unheard
                \/ m.type = "leave-room" /\ HandleLeave(s) /\ UNCHANGED channel /\ unheard' = unheard
                \/ /\ m.type = "signal" /\ m.target \in Sockets
                   /\ Push({m.target}, [type |-> "signal", id |-> s])
                   /\ UNCHANGED <<room, channel>> /\ unheard' = unheard
                \/ /\ m.type = "peer-state-changed" /\ m.muted \in BOOLEAN /\ PeerStateChanged(s, m.muted)
                   /\ unheard' = unheard \ {s}
                \/ m.type = "signal" /\ Untouched /\ unheard' = unheard
                \/ m.type = "peer-state-changed" /\ Untouched /\ unheard' = unheard \union {s}
             /\ wire' = [wire EXCEPT ![s] = Tail(@)]
             /\ outsiders' = IF m.type = "signal" /\ s \notin Members
                             THEN outsiders \union {s} ELSE outsiders
             /\ UNCHANGED <<pageVars, broken, counters, told, stale>>
<1> DEFINE m == Head(wire[s])
<1>1. wire[s] \in Seq(Sendable) /\ wire[s] # <<>> /\ s \in Connected
  BY DEF TypeInv, WireTyped, Serve
<1>2. m \in Sendable /\ m \in ToServer
  BY <1>1 DEF Sendable
<1>3. /\ m.type = "signal" => m.target \in Sockets
      /\ m.type = "peer-state-changed" => m.muted \in BOOLEAN
  BY <1>2, ToServerFacts
<1>4. /\ \/ m.type = "join-room" /\ JoinRoom(s) /\ unheard' = unheard
         \/ m.type = "leave-room" /\ HandleLeave(s) /\ UNCHANGED channel /\ unheard' = unheard
         \/ /\ m.type = "signal"
            /\ Push({m.target}, [type |-> "signal", id |-> s]) \/ UNCHANGED inbox
            /\ UNCHANGED <<room, channel>> /\ unheard' = unheard
         \/ m.type = "peer-state-changed" /\ PeerStateChanged(s, m.muted) /\ unheard' = unheard \ {s}
         \/ m.type = "peer-state-changed" /\ UNCHANGED <<room, channel, inbox>> /\ unheard' = unheard \union {s}
      /\ wire' = [wire EXCEPT ![s] = Tail(@)]
      /\ outsiders' = IF m.type = "signal" /\ s \notin Members
                      THEN outsiders \union {s} ELSE outsiders
      /\ UNCHANGED <<pageVars, broken, counters, told, stale>>
  BY DEF Serve, serverVars
<1> HIDE DEF m
<1>5. \/ m.type = "join-room" /\ JoinRoom(s) /\ unheard' = unheard
      \/ m.type = "leave-room" /\ HandleLeave(s) /\ UNCHANGED channel /\ unheard' = unheard
      \/ /\ m.type = "signal" /\ m.target \in Sockets
         /\ Push({m.target}, [type |-> "signal", id |-> s])
         /\ UNCHANGED <<room, channel>> /\ unheard' = unheard
      \/ /\ m.type = "peer-state-changed" /\ m.muted \in BOOLEAN /\ PeerStateChanged(s, m.muted)
         /\ unheard' = unheard \ {s}
      \/ m.type = "signal" /\ Untouched /\ unheard' = unheard
      \/ m.type = "peer-state-changed" /\ Untouched /\ unheard' = unheard \union {s}
  BY <1>3, <1>4 DEF Untouched
<1> QED BY <1>1, <1>2, <1>4, <1>5 DEF m

LEMMA Pushed ==
  ASSUME InboxTyped, NEW T, Sayable \subseteq T, NEW to, NEW m \in T, Push(to, m)
  PROVE  /\ inbox' \in [Sockets -> Seq(T)]
         /\ \A r \in Sockets :
              inbox'[r] = IF r \in to /\ Listening(r) THEN Append(inbox[r], m) ELSE inbox[r]
<1>1. inbox' = [r \in Sockets |-> IF r \in to /\ Listening(r) THEN Append(inbox[r], m) ELSE inbox[r]]
  BY DEF Push
<1>2. \A r \in Sockets : inbox[r] \in Seq(T)
  BY WiderSeq DEF InboxTyped
<1>3. \A r \in Sockets : Append(inbox[r], m) \in Seq(T)
  BY <1>2
<1> QED BY <1>1, <1>2, <1>3

(* A join that is refused. *)
LEMMA RefusedFacts ==
  ASSUME TypeInv, NEW s \in Sockets, JoinRoom(s), Cardinality(Members) >= RoomSize
  PROVE  /\ UNCHANGED <<room, channel>>
         /\ inbox' \in [Sockets -> Seq(Sayable)]
         /\ \A r \in Sockets :
              inbox'[r] = IF r = s /\ Listening(r) THEN Append(inbox[r], [type |-> "room-full"])
                          ELSE inbox[r]
<1>1. UNCHANGED <<room, channel>> /\ Push({s}, [type |-> "room-full"])
  BY DEF JoinRoom, serverVars
<1>2. [type |-> "room-full"] \in Sayable
  BY ToBrowserMessages, NamesFacts DEF Sayable, Showing
<1>3. InboxTyped
  BY DEF TypeInv
<1> QED BY <1>1, <1>2, <1>3, Pushed

(* One that is not. *)
Users == [type |-> "room-users", members |-> room]
Joined(s) == [type |-> "user-joined", id |-> s, muted |-> FALSE]
LEMMA EntersFacts ==
  ASSUME TypeInv, NEW s \in Sockets, s \in Connected, JoinRoom(s), ~(Cardinality(Members) >= RoomSize),
         Connected \subseteq Connected', \A x : Met(x) => Met(x)', Sayable \subseteq Sayable',
         UNCHANGED <<session, online>>
  PROVE  /\ room' \in Shows /\ Members' = Members \union {s} /\ channel' = channel \union {s}
         /\ Cardinality(Members') <= RoomSize
         /\ room'[s] = FALSE /\ \A t \in Members \ {s} : room'[t] = room[t]
         /\ inbox' \in [Sockets -> Seq(Sayable')] /\ Users \in Sayable' /\ Joined(s) \in Sayable'
         /\ \A r \in Sockets :
              inbox'[r] = IF ~Listening(r) THEN inbox[r]
                          ELSE IF r = s THEN Append(inbox[r], Users)
                          ELSE IF r \in channel THEN Append(inbox[r], Joined(s))
                          ELSE inbox[r]
<1>1. room \in Shows /\ Members \subseteq channel /\ channel \subseteq Connected
      /\ Cardinality(Members) <= RoomSize
  BY DEF TypeInv, RoomTyped
<1>2. /\ room' = Over(Only(s, FALSE), room) /\ channel' = channel \union {s}
      /\ inbox' = [t \in Sockets |->
            IF ~Listening(t) THEN inbox[t]
            ELSE IF t = s THEN Append(inbox[t], Users)
            ELSE IF t \in channel THEN Append(inbox[t], Joined(s))
            ELSE inbox[t]]
  BY DEF JoinRoom, Users, Joined
<1>3. Only(s, FALSE) \in Shows /\ DOMAIN Only(s, FALSE) = {s} /\ Only(s, FALSE)[s] = FALSE
  BY OnlyFacts
<1>4. /\ room' \in Shows /\ DOMAIN room' = {s} \union DOMAIN room
      /\ \A x \in {s} : room'[x] = Only(s, FALSE)[x]
      /\ \A x \in DOMAIN room : x \notin {s} => room'[x] = room[x]
  BY <1>1, <1>2, <1>3, OverFacts
<1>5. Members' = Members \union {s}
  BY <1>4 DEF Members
<1>6. Cardinality(Members') <= RoomSize
  <2>1. Members \subseteq Sockets /\ IsFiniteSet(Members)
    BY <1>1, SocketFacts, SocketsFinite, FS_Subset
  <2>2. Cardinality(Members) \in Nat /\ Cardinality(Members) < RoomSize
    BY <2>1, FS_CardinalityType, WebAssumption
  <2>3. Cardinality(Members \union {s}) = IF s \in Members THEN Cardinality(Members)
                                          ELSE Cardinality(Members) + 1
    BY <2>1, FS_AddElement
  <2> QED BY <1>5, <2>2, <2>3, WebAssumption
<1>7. \A x \in Members \union {s} : Met(x)'
  <2>1. \A x \in Members \union {s} : x \in Connected /\ x \in channel'
    BY <1>1, <1>2
  <2> QED BY <2>1 DEF Met
<1>8. Users \in Sayable'
  <2>1. Users \in ToBrowser /\ Names(Users) = DOMAIN room
    BY <1>1, ToBrowserMessages, NamesFacts DEF Users
  <2> QED BY <1>1, <1>7, <2>1 DEF Sayable, Members
<1>9. Joined(s) \in Sayable'
  <2>1. Joined(s) \in ToBrowser /\ Names(Joined(s)) = {s}
    BY ToBrowserMessages, NamesFacts DEF Joined
  <2> QED BY <1>7, <2>1 DEF Sayable
<1>10. inbox' \in [Sockets -> Seq(Sayable')]
  <2> DEFINE T == Seq(Sayable')
  <2>1. \A r \in Sockets : inbox[r] \in T
    BY WiderSeq DEF TypeInv, InboxTyped
  <2>2. \A r \in Sockets : Append(inbox[r], Users) \in T /\ Append(inbox[r], Joined(s)) \in T
    BY <1>8, <1>9, <2>1
  <2> HIDE DEF T
  <2>3. ASSUME NEW r \in Sockets PROVE inbox'[r] \in T
    BY <1>2, <2>1, <2>2
  <2>4. inbox' = [r \in Sockets |-> inbox'[r]]
    BY <1>2
  <2>5. inbox' \in [Sockets -> T]
    BY <2>3, <2>4, MapFacts
  <2> QED BY <2>5 DEF T
<1>11. room'[s] = FALSE /\ \A t \in Members \ {s} : room'[t] = room[t]
  BY <1>3, <1>4 DEF Members
<1>12. \A r \in Sockets :
         inbox'[r] = IF ~Listening(r) THEN inbox[r]
                     ELSE IF r = s THEN Append(inbox[r], Users)
                     ELSE IF r \in channel THEN Append(inbox[r], Joined(s))
                     ELSE inbox[r]
  BY <1>2
<1> QED BY <1>2, <1>4, <1>5, <1>6, <1>8, <1>9, <1>10, <1>11, <1>12

(* Somebody leaves, or was no member. *)
Left(s) == [type |-> "user-left", id |-> s]
LEMMA LeavesFacts ==
  ASSUME TypeInv, NEW s \in Sockets, s \in Connected, HandleLeave(s)
  PROVE  /\ room' \in Shows /\ Members' = Members \ {s}
         /\ Cardinality(Members') <= RoomSize
         /\ \A t \in Members \ {s} : room'[t] = room[t]
         /\ inbox' \in [Sockets -> Seq(Sayable)] /\ Left(s) \in Sayable
         /\ \A r \in Sockets :
              inbox'[r] = IF s \in Members /\ r \in channel \ {s} /\ Listening(r)
                          THEN Append(inbox[r], Left(s)) ELSE inbox[r]
<1>1. room \in Shows /\ Members \subseteq channel /\ channel \subseteq Connected
      /\ Cardinality(Members) <= RoomSize /\ InboxTyped
  BY DEF TypeInv, RoomTyped
<1>2. room' = Without(room, s)
  BY DEF HandleLeave
<1>3. /\ room' \in Shows /\ DOMAIN room' = DOMAIN room \ {s}
      /\ \A y \in DOMAIN room \ {s} : room'[y] = room[y]
  BY <1>1, <1>2, WithoutFacts
<1>4. Members' = Members \ {s} /\ \A t \in Members \ {s} : room'[t] = room[t]
  BY <1>3 DEF Members
<1>5. Cardinality(Members') <= RoomSize
  <2>1. Members \subseteq Sockets /\ IsFiniteSet(Members)
    BY <1>1, SocketFacts, SocketsFinite, FS_Subset
  <2>2. Cardinality(Members \ {s}) <= Cardinality(Members) /\ Cardinality(Members) \in Nat
        /\ Cardinality(Members \ {s}) \in Nat
    BY <2>1, FS_Subset, FS_CardinalityType
  <2> QED BY <1>1, <1>4, <2>2, WebAssumption
<1>6. Left(s) \in Sayable
  <2>1. Left(s) \in ToBrowser /\ Names(Left(s)) = {s}
    BY ToBrowserMessages, NamesFacts DEF Left
  <2> QED BY <2>1 DEF Sayable, Left, Showing
<1>7. CASE s \in Members
  <2>1. Push(channel \ {s}, Left(s))
    BY <1>7 DEF HandleLeave, Left
  <2>2. /\ inbox' \in [Sockets -> Seq(Sayable)]
        /\ \A r \in Sockets :
             inbox'[r] = IF r \in channel \ {s} /\ Listening(r) THEN Append(inbox[r], Left(s)) ELSE inbox[r]
    BY <1>1, <1>6, <2>1, Pushed
  <2> QED BY <1>3, <1>4, <1>5, <1>6, <1>7, <2>2
<1>8. CASE s \notin Members
  <2>1. inbox' = inbox
    BY <1>8 DEF HandleLeave
  <2> QED BY <1>1, <1>3, <1>4, <1>5, <1>6, <1>8, <2>1 DEF InboxTyped
<1> QED BY <1>7, <1>8

(* Somebody says whether he is muted. *)
Says(s, flag) == [type |-> "peer-state-changed", id |-> s, muted |-> flag]
LEMMA SaysFacts ==
  ASSUME TypeInv, NEW s \in Sockets, s \in Connected, NEW flag \in BOOLEAN, PeerStateChanged(s, flag)
  PROVE  /\ room' \in Shows /\ Members' = Members /\ channel' = channel
         /\ s \in Members => room'[s] = flag
         /\ \A t \in Members \ {s} : room'[t] = room[t]
         /\ inbox' \in [Sockets -> Seq(Sayable)] /\ Says(s, flag) \in Sayable
         /\ \A r \in Sockets :
              inbox'[r] = IF s \in Members /\ r \in channel \ {s} /\ Listening(r)
                          THEN Append(inbox[r], Says(s, flag)) ELSE inbox[r]
<1>1. room \in Shows /\ InboxTyped /\ DOMAIN room \subseteq Sockets /\ room \in [DOMAIN room -> BOOLEAN]
  BY ShowsFacts DEF TypeInv, RoomTyped
<1>2. Says(s, flag) \in Sayable
  <2>1. Says(s, flag) \in ToBrowser /\ Names(Says(s, flag)) = {s}
    BY ToBrowserMessages, NamesFacts DEF Says
  <2> QED BY <2>1 DEF Sayable, Says, Showing
<1>3. CASE s \in Members
  <2>1. Push(channel \ {s}, Says(s, flag)) /\ room' = [room EXCEPT ![s] = flag] /\ channel' = channel
    BY <1>3 DEF PeerStateChanged, Says
  <2>2. /\ inbox' \in [Sockets -> Seq(Sayable)]
        /\ \A r \in Sockets :
             inbox'[r] = IF r \in channel \ {s} /\ Listening(r) THEN Append(inbox[r], Says(s, flag))
                         ELSE inbox[r]
    BY <1>1, <1>2, <2>1, Pushed
  <2>3. /\ room' \in [DOMAIN room -> BOOLEAN] /\ DOMAIN room' = DOMAIN room
        /\ room'[s] = flag /\ \A t \in DOMAIN room \ {s} : room'[t] = room[t]
    BY <1>1, <1>3, <2>1 DEF Members
  <2>4. room' \in Shows
    BY <1>1, <2>3, ShowsFacts
  <2> QED BY <1>2, <1>3, <2>1, <2>2, <2>3, <2>4 DEF Members
<1>4. CASE s \notin Members
  <2>1. UNCHANGED <<room, channel, inbox>>
    BY <1>4 DEF PeerStateChanged, serverVars
  <2> QED BY <1>1, <1>2, <1>4, <2>1 DEF InboxTyped, Members
<1> QED BY <1>3, <1>4

(* Somebody calls. *)
Calls(s) == [type |-> "signal", id |-> s]
LEMMA CallsFacts ==
  ASSUME TypeInv, NEW s \in Sockets, s \in Connected, NEW target, Push({target}, Calls(s))
  PROVE  /\ inbox' \in [Sockets -> Seq(Sayable)] /\ Calls(s) \in Sayable
         /\ \A r \in Sockets :
              inbox'[r] = IF r = target /\ Listening(r) THEN Append(inbox[r], Calls(s)) ELSE inbox[r]
<1>1. Calls(s) \in Sayable
  <2>1. Calls(s) \in ToBrowser /\ Names(Calls(s)) = {s}
    BY ToBrowserMessages, NamesFacts DEF Calls
  <2> QED BY <2>1 DEF Sayable, Calls, Showing
<1>2. InboxTyped
  BY DEF TypeInv
<1>3. /\ inbox' \in [Sockets -> Seq(Sayable)]
      /\ \A r \in Sockets :
           inbox'[r] = IF r \in {target} /\ Listening(r) THEN Append(inbox[r], Calls(s)) ELSE inbox[r]
  BY <1>1, <1>2, Pushed
<1> QED BY <1>1, <1>3

-----------------------------------------------------------------------------
(* What a page sends. *)
LEMMA ConcatFacts ==
  ASSUME NEW S, NEW q \in Seq(S), NEW e \in S
  PROVE  q \o <<>> = q /\ q \o <<e>> = Append(q, e) /\ <<>> \in Seq(S) /\ <<e>> \in Seq(S)
OBVIOUS

LEMMA EmitOne ==
  ASSUME TypeInv, NEW b \in Browsers, NEW m \in Holdable, Emit(b, <<m>>)
  PROVE  /\ online[b] => wire' = [wire EXCEPT ![Id(b)] = Append(@, m)] /\ UNCHANGED buffer
         /\ ~online[b] => buffer' = [buffer EXCEPT ![b] = Append(@, m)] /\ UNCHANGED wire
<1>1. m \in Sendable
  BY DEF Holdable
<1>2. CASE online[b]
  <2>1. wire' = [wire EXCEPT ![Id(b)] = wire[Id(b)] \o <<m>>] /\ UNCHANGED buffer
    BY <1>2 DEF Emit
  <2>2. wire[Id(b)] \in Seq(Sendable)
    BY <1>2, SocketFacts DEF TypeInv, PageTyped, WireTyped
  <2>3. wire[Id(b)] \o <<m>> = Append(wire[Id(b)], m)
    BY <1>1, <2>2, ConcatFacts
  <2> QED BY <1>2, <2>1, <2>3
<1>3. CASE ~online[b]
  <2>1. buffer' = [buffer EXCEPT ![b] = buffer[b] \o <<m>>] /\ UNCHANGED wire
    BY <1>3 DEF Emit
  <2>2. buffer[b] \in Seq(Holdable)
    BY DEF TypeInv, WireTyped
  <2>3. buffer[b] \o <<m>> = Append(buffer[b], m)
    BY <2>2, ConcatFacts
  <2> QED BY <1>3, <2>1, <2>3
<1> QED BY <1>2, <1>3

LEMMA EmitNone ==
  ASSUME TypeInv, NEW b \in Browsers, Emit(b, <<>>)
  PROVE  UNCHANGED <<wire, buffer>>
<1>1. CASE online[b]
  <2>1. wire' = [wire EXCEPT ![Id(b)] = wire[Id(b)] \o <<>>] /\ UNCHANGED buffer
    BY <1>1 DEF Emit
  <2>2. wire[Id(b)] \in Seq(Sendable) /\ wire \in [Sockets -> Seq(Sendable)]
    BY <1>1, SocketFacts DEF TypeInv, PageTyped, WireTyped
  <2>3. wire[Id(b)] \o <<>> = wire[Id(b)]
    BY <2>2
  <2> QED BY <2>1, <2>2, <2>3
<1>2. CASE ~online[b]
  <2>1. buffer' = [buffer EXCEPT ![b] = buffer[b] \o <<>>] /\ UNCHANGED wire
    BY <1>2 DEF Emit
  <2>2. buffer[b] \in Seq(Holdable) /\ buffer \in [Browsers -> Seq(Holdable)]
    BY DEF TypeInv, WireTyped
  <2>3. buffer[b] \o <<>> = buffer[b]
    BY <2>2
  <2> QED BY <2>1, <2>2, <2>3
<1> QED BY <1>1, <1>2

(* The three actions that send, in one form: nothing is sent, or m is.     *)
LEMMA SendFacts ==
  ASSUME TypeInv, NEW b \in Browsers, SendOffer(b) \/ ToggleMic(b) \/ LeaveCall(b)
  PROVE  \/ UNCHANGED <<wire, buffer>> /\ (UNCHANGED told \/ ~online[b])
         \/ \E m \in Holdable :
              /\ online[b] => wire' = [wire EXCEPT ![Id(b)] = Append(@, m)] /\ UNCHANGED buffer
              /\ ~online[b] => buffer' = [buffer EXCEPT ![b] = Append(@, m)] /\ UNCHANGED wire
              /\ m.type \in {"signal", "leave-room"} => UNCHANGED told
              /\ m.type = "peer-state-changed" /\ online[b] => told' = [told EXCEPT ![b] = m.muted]
              /\ m.type = "leave-room" \/ peers' = peers
              /\ m.type \in {"signal", "leave-room", "peer-state-changed"}
<1>1. ASSUME SendOffer(b)
      PROVE  \E m \in Holdable :
               /\ m.type = "signal" /\ UNCHANGED <<told, peers>>
               /\ online[b] => wire' = [wire EXCEPT ![Id(b)] = Append(@, m)] /\ UNCHANGED buffer
               /\ ~online[b] => buffer' = [buffer EXCEPT ![b] = Append(@, m)] /\ UNCHANGED wire
  <2>1. PICK s \in owed[b] : Emit(b, <<[type |-> "signal", target |-> s]>>) /\ UNCHANGED <<told, peers>>
    BY <1>1 DEF SendOffer, auxVars
  <2> DEFINE m == [type |-> "signal", target |-> s]
  <2>2. Met(s) /\ s \in Sockets
    BY SocketFacts DEF TypeInv, PeersTyped
  <2>3. m \in Holdable
    BY <2>2, ToServerFacts DEF Holdable, Sendable
  <2>4. m.type = "signal" /\ Emit(b, <<m>>)
    BY <2>1
  <2> HIDE DEF m
  <2> QED BY <2>1, <2>3, <2>4, EmitOne
<1>2. ASSUME LeaveCall(b)
      PROVE  \E m \in Holdable :
               /\ m.type = "leave-room" /\ UNCHANGED told
               /\ online[b] => wire' = [wire EXCEPT ![Id(b)] = Append(@, m)] /\ UNCHANGED buffer
               /\ ~online[b] => buffer' = [buffer EXCEPT ![b] = Append(@, m)] /\ UNCHANGED wire
  <2> DEFINE m == [type |-> "leave-room"]
  <2>1. m \in Holdable
    BY ToServerFacts DEF Holdable, Sendable
  <2>2. m.type = "leave-room" /\ Emit(b, <<m>>) /\ UNCHANGED told
    BY <1>2 DEF LeaveCall, auxVars
  <2> HIDE DEF m
  <2> QED BY <2>1, <2>2, EmitOne
<1>3. ASSUME ToggleMic(b), inCall[b]
      PROVE  \E m \in Holdable :
               /\ m.type = "peer-state-changed" /\ UNCHANGED peers
               /\ online[b] => told' = [told EXCEPT ![b] = m.muted]
               /\ online[b] => wire' = [wire EXCEPT ![Id(b)] = Append(@, m)] /\ UNCHANGED buffer
               /\ ~online[b] => buffer' = [buffer EXCEPT ![b] = Append(@, m)] /\ UNCHANGED wire
  <2> DEFINE m == [type |-> "peer-state-changed", muted |-> ~muted[b]]
  <2>0. (~muted[b]) \in BOOLEAN
    OBVIOUS
  <2>1. m \in Holdable
    BY <2>0, ToServerFacts DEF Holdable, Sendable
  <2>2. m.type = "peer-state-changed" /\ m.muted = ~muted[b] /\ Emit(b, <<m>>) /\ UNCHANGED peers
        /\ (online[b] => told' = [told EXCEPT ![b] = ~muted[b]])
    BY <1>3 DEF ToggleMic, EmitInCall
  <2> HIDE DEF m
  <2> QED BY <2>1, <2>2, EmitOne
<1>4. ASSUME ToggleMic(b), ~inCall[b] PROVE UNCHANGED <<wire, buffer, told>>
  <2>1. Emit(b, <<>>) /\ told' = [told EXCEPT ![b] = told[b]] /\ told \in [Browsers -> BOOLEAN]
    BY <1>4 DEF ToggleMic, EmitInCall, TypeInv, PageTyped
  <2> QED BY <2>1, EmitNone
<1> QED BY <1>1, <1>2, <1>3, <1>4

(* What a new connection starts with. *)
JoinMessage == [type |-> "join-room"]
LEMMA QueueFacts ==
  ASSUME NEW S, NEW q \in Seq(S), NEW j \in S, NEW w,
         w = q \/ w = Append(q, j) \/ w = Append(Append(q, j), j)
  PROVE  /\ w \in Seq(S) /\ Len(w) >= Len(q) /\ Len(w) \in Nat /\ Len(q) \in Nat
         /\ \A i \in 1..Len(q) : w[i] = q[i]
         /\ \A i \in (Len(q) + 1)..Len(w) : w[i] = j
<1>1. Append(q, j) \in Seq(S)
  BY AppendFacts
<1>3. CASE w = q
  BY <1>3
<1>4. CASE w = Append(q, j)
  <2>1. /\ w \in Seq(S) /\ Len(q) \in Nat /\ Len(w) = Len(q) + 1 /\ w[Len(q) + 1] = j
        /\ \A i \in 1..Len(q) : w[i] = q[i]
    BY <1>4, AppendFacts
  <2> QED BY <2>1
<1>5. CASE w = Append(Append(q, j), j)
  <2>1. PICK x \in Seq(S) : x = Append(q, j)
    BY <1>1
  <2>2. /\ Len(q) \in Nat /\ Len(x) = Len(q) + 1 /\ x[Len(q) + 1] = j
        /\ \A i \in 1..Len(q) : x[i] = q[i]
    BY <2>1, AppendFacts
  <2>3. /\ w \in Seq(S) /\ Len(w) = Len(x) + 1 /\ w[Len(x) + 1] = j
        /\ \A i \in 1..Len(x) : w[i] = x[i]
    BY <1>5, <2>1, AppendFacts
  <2> QED BY <2>2, <2>3
<1> QED BY <1>3, <1>4, <1>5

LEMMA ConnectFacts ==
  ASSUME TypeInv, NEW b \in Browsers, Connect(b)
  PROVE  LET s == <<b, session[b] + 1>>
         IN  /\ s \in Sockets /\ s \notin Connected /\ s \in Connected' /\ Id(b)' = s
             /\ \A c \in Browsers \ {b} : Id(c)' = Id(c) /\ Id(c) # s
             /\ \A c \in Browsers \ {b} : online'[c] = online[c] /\ told'[c] = told[c]
             /\ ~online[b] /\ online'[b] /\ told'[b] = FALSE
             /\ \E w \in Seq(Sendable) :
                  /\ wire' = [wire EXCEPT ![s] = w]
                  /\ Len(w) >= Len(buffer[b]) /\ Len(w) \in Nat /\ Len(buffer[b]) \in Nat
                  /\ \A i \in 1..Len(buffer[b]) : w[i] = buffer[b][i] /\ w[i] \in Holdable
                  /\ \A i \in (Len(buffer[b]) + 1)..Len(w) : w[i] = JoinMessage
             /\ buffer' = [buffer EXCEPT ![b] = <<>>]
             /\ UNCHANGED <<room, channel, inbox, peers, owed, cards, stale, outsiders, unheard, broken, breaks, clicks>>
<1> DEFINE s == <<b, session[b] + 1>>
<1>1. /\ ~online[b] /\ session[b] < MaxSessions /\ session' = [session EXCEPT ![b] = session[b] + 1]
      /\ online' = [online EXCEPT ![b] = TRUE] /\ told' = [told EXCEPT ![b] = FALSE]
      /\ buffer' = [buffer EXCEPT ![b] = <<>>]
      /\ UNCHANGED <<room, channel, inbox, peers, owed, cards, stale, outsiders, unheard, broken, breaks, clicks>>
  BY DEF Connect, serverVars, counters
<1>2. /\ session \in [Browsers -> 0 .. MaxSessions] /\ online \in [Browsers -> BOOLEAN]
      /\ told \in [Browsers -> BOOLEAN] /\ session[b] \in Nat
  BY WebAssumption DEF TypeInv, PageTyped
<1>3. s \in Sockets /\ s \notin Connected /\ \A c \in Browsers : Id(c) # s
  BY <1>1, NewSocket DEF TypeInv
<1>4. Id(b)' = s /\ \A c \in Browsers \ {b} : Id(c)' = Id(c)
  BY <1>1, <1>2 DEF Id
<1>5. s \in Connected'
  <2>1. s[1] = b /\ s[2] = session'[b]
    BY <1>1, <1>2
  <2>2. session'[b] <= session'[b]
    BY <1>1, <1>2
  <2> QED BY <1>3, <2>1, <2>2 DEF Connected
<1>6. PICK u \in {<<>>, <<JoinMessage>>}, v \in {<<>>, <<JoinMessage>>} :
        wire' = [wire EXCEPT ![s] = buffer[b] \o u \o v]
  BY DEF Connect, JoinMessage
<1>7. buffer[b] \in Seq(Holdable) /\ buffer[b] \in Seq(Sendable)
  <2>1. buffer[b] \in Seq(Holdable) /\ Holdable \subseteq Sendable
    BY DEF TypeInv, WireTyped, Holdable
  <2> QED BY <2>1, WiderSeq
<1>8. JoinMessage \in Sendable
  BY ToServerFacts DEF JoinMessage, Sendable
<1>9. PICK w \in Seq(Sendable) :
        /\ w = buffer[b] \o u \o v /\ Len(w) >= Len(buffer[b]) /\ Len(w) \in Nat /\ Len(buffer[b]) \in Nat
        /\ \A i \in 1..Len(buffer[b]) : w[i] = buffer[b][i]
        /\ \A i \in (Len(buffer[b]) + 1)..Len(w) : w[i] = JoinMessage
  <2>1. PICK S, q, j, x : S = Sendable /\ q = buffer[b] /\ j = JoinMessage /\ x = q \o u \o v
    OBVIOUS
  <2>2. q \in Seq(S) /\ j \in S
    BY <1>7, <1>8, <2>1
  <2>3. q \o <<>> = q /\ q \o <<j>> = Append(q, j) /\ Append(q, j) \in Seq(S)
    BY <2>2, ConcatFacts, AppendFacts
  <2>4. Append(q, j) \o <<>> = Append(q, j) /\ Append(q, j) \o <<j>> = Append(Append(q, j), j)
    BY <2>2, <2>3, ConcatFacts
  <2>5. x = q \/ x = Append(q, j) \/ x = Append(Append(q, j), j)
    BY <1>6, <2>1, <2>3, <2>4
  <2>6. /\ x \in Seq(S) /\ Len(x) >= Len(q) /\ Len(x) \in Nat /\ Len(q) \in Nat
        /\ \A i \in 1..Len(q) : x[i] = q[i]
        /\ \A i \in (Len(q) + 1)..Len(x) : x[i] = j
    BY <2>2, <2>5, QueueFacts
  <2> QED BY <2>1, <2>6
<1>10. \A i \in 1..Len(buffer[b]) : w[i] \in Holdable
  BY <1>7, <1>9
<1>11. /\ \A c \in Browsers \ {b} : online'[c] = online[c] /\ told'[c] = told[c]
       /\ online'[b] /\ told'[b] = FALSE
  BY <1>1, <1>2
<1> HIDE DEF s
<1>12. wire' = [wire EXCEPT ![s] = w]
  BY <1>6, <1>9
<1>13. \E x \in Seq(Sendable) :
         /\ wire' = [wire EXCEPT ![s] = x]
         /\ Len(x) >= Len(buffer[b]) /\ Len(x) \in Nat /\ Len(buffer[b]) \in Nat
         /\ \A i \in 1..Len(buffer[b]) : x[i] = buffer[b][i] /\ x[i] \in Holdable
         /\ \A i \in (Len(buffer[b]) + 1)..Len(x) : x[i] = JoinMessage
  BY <1>9, <1>10, <1>12
<1> QED BY <1>1, <1>3, <1>4, <1>5, <1>11, <1>13 DEF s

-----------------------------------------------------------------------------
(* The types are kept. *)
LEMMA ServerFacts ==
  ASSUME TypeInv, [Next]_vars, NEW s \in Sockets, Serve(s) \/ ServeDisconnect(s)
  PROVE  /\ inbox' \in [Sockets -> Seq(Sayable')]
         /\ \A r \in Sockets : inbox'[r] = inbox[r] \/ Listening(r)
         /\ room' \in Shows /\ Members' \subseteq channel' /\ channel' \subseteq Connected
         /\ Cardinality(Members') <= RoomSize
         /\ UNCHANGED <<pageVars, counters, told, stale>>
<1>0. /\ Connected \subseteq Connected' /\ \A x : Met(x) => Met(x)'
      /\ Sayable \subseteq Sayable'
  BY WorldGrows
<1>1. /\ room \in Shows /\ Members \subseteq channel /\ channel \subseteq Connected
      /\ Cardinality(Members) <= RoomSize /\ inbox \in [Sockets -> Seq(Sayable)]
  BY DEF TypeInv, RoomTyped, InboxTyped
<1>2. ASSUME inbox' \in [Sockets -> Seq(Sayable)] PROVE inbox' \in [Sockets -> Seq(Sayable')]
  <2>1. Seq(Sayable) \subseteq Seq(Sayable')
    BY <1>0, WiderSeq
  <2> QED BY <1>2, <2>1
<1>3. UNCHANGED <<pageVars, counters, told, stale>>
  BY DEF Serve, ServeDisconnect, auxVars
<1>4. CASE Serve(s)
  <2> DEFINE m == Head(wire[s])
  <2>1. /\ s \in Connected
        /\ \/ m.type = "join-room" /\ JoinRoom(s)
           \/ m.type = "leave-room" /\ HandleLeave(s) /\ UNCHANGED channel
           \/ /\ m.type = "signal" /\ m.target \in Sockets
              /\ Push({m.target}, [type |-> "signal", id |-> s])
              /\ UNCHANGED <<room, channel>>
           \/ m.type = "peer-state-changed" /\ m.muted \in BOOLEAN /\ PeerStateChanged(s, m.muted)
           \/ Untouched
        /\ UNCHANGED <<session, online>>
    BY <1>4, ServeFacts DEF pageVars
  <2> HIDE DEF m
  <2>2. CASE JoinRoom(s) /\ Cardinality(Members) >= RoomSize
    <3>1. /\ UNCHANGED <<room, channel>> /\ inbox' \in [Sockets -> Seq(Sayable)]
          /\ \A r \in Sockets :
               inbox'[r] = IF r = s /\ Listening(r) THEN Append(inbox[r], [type |-> "room-full"])
                           ELSE inbox[r]
      BY <2>2, RefusedFacts
    <3>2. Members' = Members
      BY <3>1 DEF Members
    <3> QED BY <1>1, <1>2, <1>3, <3>1, <3>2
  <2>3. CASE JoinRoom(s) /\ ~(Cardinality(Members) >= RoomSize)
    <3>1. /\ room' \in Shows /\ Members' = Members \union {s} /\ channel' = channel \union {s}
          /\ Cardinality(Members') <= RoomSize
          /\ inbox' \in [Sockets -> Seq(Sayable')]
          /\ \A r \in Sockets :
               inbox'[r] = IF ~Listening(r) THEN inbox[r]
                           ELSE IF r = s THEN Append(inbox[r], Users)
                           ELSE IF r \in channel THEN Append(inbox[r], Joined(s))
                           ELSE inbox[r]
      BY <1>0, <2>1, <2>3, EntersFacts
    <3> QED BY <1>1, <1>3, <2>1, <3>1
  <2>4. CASE HandleLeave(s) /\ UNCHANGED channel
    <3>1. /\ room' \in Shows /\ Members' = Members \ {s}
          /\ Cardinality(Members') <= RoomSize
          /\ inbox' \in [Sockets -> Seq(Sayable)]
          /\ \A r \in Sockets :
               inbox'[r] = IF s \in Members /\ r \in channel \ {s} /\ Listening(r)
                           THEN Append(inbox[r], Left(s)) ELSE inbox[r]
      BY <2>1, <2>4, LeavesFacts
    <3> QED BY <1>1, <1>2, <1>3, <2>4, <3>1
  <2>5. CASE /\ m.target \in Sockets /\ Push({m.target}, [type |-> "signal", id |-> s])
             /\ UNCHANGED <<room, channel>>
    <3>1. Push({m.target}, Calls(s)) /\ Members' = Members
      BY <2>5 DEF Calls, Members
    <3>2. /\ inbox' \in [Sockets -> Seq(Sayable)]
          /\ \A r \in Sockets :
               inbox'[r] = IF r = m.target /\ Listening(r) THEN Append(inbox[r], Calls(s)) ELSE inbox[r]
      BY <2>1, <3>1, CallsFacts
    <3> QED BY <1>1, <1>2, <1>3, <2>5, <3>1, <3>2
  <2>6. CASE m.muted \in BOOLEAN /\ PeerStateChanged(s, m.muted)
    <3>1. /\ room' \in Shows /\ Members' = Members /\ channel' = channel
          /\ inbox' \in [Sockets -> Seq(Sayable)]
          /\ \A r \in Sockets :
               inbox'[r] = IF s \in Members /\ r \in channel \ {s} /\ Listening(r)
                           THEN Append(inbox[r], Says(s, m.muted)) ELSE inbox[r]
      BY <2>1, <2>6, SaysFacts
    <3> QED BY <1>1, <1>2, <1>3, <3>1
  <2>7. CASE Untouched
    <3>1. UNCHANGED <<room, channel, inbox>> /\ Members' = Members
      BY <2>7 DEF Untouched, Members
    <3> QED BY <1>1, <1>2, <1>3, <3>1
  <2> QED BY <2>1, <2>2, <2>3, <2>4, <2>5, <2>6, <2>7
<1>5. CASE ServeDisconnect(s)
  <2>1. s \in Connected /\ HandleLeave(s) /\ channel' = channel \ {s}
    BY <1>5 DEF ServeDisconnect, TypeInv, PageTyped
  <2>2. /\ room' \in Shows /\ Members' = Members \ {s}
        /\ Cardinality(Members') <= RoomSize
        /\ inbox' \in [Sockets -> Seq(Sayable)]
        /\ \A r \in Sockets :
             inbox'[r] = IF s \in Members /\ r \in channel \ {s} /\ Listening(r)
                         THEN Append(inbox[r], Left(s)) ELSE inbox[r]
    BY <2>1, LeavesFacts
  <2> QED BY <1>1, <1>2, <1>3, <2>1, <2>2
<1> QED BY <1>4, <1>5

LEMMA RoomStep == TypeInv /\ [Next]_vars => RoomTyped'
<1> SUFFICES ASSUME TypeInv, [Next]_vars PROVE RoomTyped'
  OBVIOUS
<1>0. RoomTyped /\ Connected \subseteq Connected'
  BY WorldGrows DEF TypeInv
<1>1. ASSUME NEW b \in Browsers,
             Connect(b) \/ Disconnect(b) \/ Receive(b) \/ SendOffer(b)
               \/ ToggleMic(b) \/ LeaveCall(b) \/ Reload(b)
      PROVE  /\ UNCHANGED <<room, channel>>
             /\ \/ breaks' = breaks \/ (breaks < MaxBreaks /\ breaks' = breaks + 1)
             /\ \/ clicks' = clicks \/ (clicks < MaxClicks /\ clicks' = clicks + 1)
  BY <1>1 DEF Connect, Disconnect, Receive, SendOffer, ToggleMic, LeaveCall, Reload, serverVars, counters
<1>2. CASE \E b \in Browsers :
             Connect(b) \/ Disconnect(b) \/ Receive(b) \/ SendOffer(b)
               \/ ToggleMic(b) \/ LeaveCall(b) \/ Reload(b)
  <2>1. UNCHANGED <<room, channel>> /\ Members' = Members
    BY <1>1, <1>2 DEF Members
  <2>2. breaks' \in 0 .. MaxBreaks /\ clicks' \in 0 .. MaxClicks
    BY <1>0, <1>1, <1>2, WebAssumption DEF RoomTyped
  <2> QED BY <1>0, <2>1, <2>2 DEF RoomTyped
<1>3. CASE \E s \in Sockets : Serve(s) \/ ServeDisconnect(s)
  BY <1>0, <1>3, ServerFacts DEF RoomTyped, counters
<1>4. CASE UNCHANGED vars
  <2>1. UNCHANGED <<room, channel, breaks, clicks>> /\ Members' = Members
    BY <1>4 DEF vars, serverVars, counters, Members
  <2> QED BY <1>0, <2>1 DEF RoomTyped
<1> QED BY <1>2, <1>3, <1>4 DEF Next

(* Who listens goes on listening, or has nothing waiting. *)
LEMMA InboxStep == TypeInv /\ [Next]_vars => InboxTyped'
<1> SUFFICES ASSUME TypeInv, [Next]_vars PROVE InboxTyped'
  OBVIOUS
<1> DEFINE T == Seq(Sayable')
<1>0. /\ inbox \in [Sockets -> T] /\ \A s \in Sockets : inbox[s] # <<>> => Listening(s)
      /\ <<>> \in T
  <2>1. Seq(Sayable) \subseteq T
    BY WorldGrows, WiderSeq
  <2> QED BY <2>1 DEF TypeInv, InboxTyped
<1>a. PageTyped /\ \A s \in Sockets : s[1] \in Browsers
  BY SocketFacts DEF TypeInv
<1>b. \A q \in T : q # <<>> => Tail(q) \in T
  OBVIOUS
<1> HIDE DEF T
<1>1. ASSUME NEW b \in Browsers, Connect(b) PROVE InboxTyped'
  <2>1. inbox' = inbox /\ ~online[b] /\ session' = [session EXCEPT ![b] = @ + 1]
        /\ online' = [online EXCEPT ![b] = TRUE]
    BY <1>1 DEF Connect
  <2>2. ASSUME NEW s \in Sockets, Listening(s) PROVE Listening(s)'
    <3>1. s[1] # b /\ s[1] \in Browsers
      BY <1>a, <2>1, <2>2 DEF Listening
    <3> QED BY <1>a, <2>1, <2>2, <3>1 DEF Listening, Id, PageTyped
  <2> QED BY <1>0, <2>1, <2>2 DEF InboxTyped, T
<1>2. ASSUME NEW b \in Browsers, Disconnect(b) PROVE InboxTyped'
  <2>1. /\ inbox' = [inbox EXCEPT ![Id(b)] = <<>>] /\ session' = session
        /\ online' = [online EXCEPT ![b] = FALSE]
    BY <1>2 DEF Disconnect
  <2>2. ASSUME NEW s \in Sockets, s # Id(b), Listening(s) PROVE Listening(s)'
    <3>1. s[1] # b /\ s[1] \in Browsers
      BY <1>a, <2>2 DEF Listening
    <3> QED BY <1>a, <2>1, <2>2, <3>1 DEF Listening, Id, PageTyped
  <2>3. inbox' \in [Sockets -> T] /\ \A s \in Sockets : inbox'[s] # <<>> => s # Id(b) /\ inbox[s] # <<>>
    BY <1>0, <2>1
  <2> QED BY <1>0, <2>2, <2>3 DEF InboxTyped, T
<1>3. ASSUME NEW b \in Browsers, Reload(b) PROVE InboxTyped'
  <2>1. /\ inbox' = [s \in Sockets |-> IF s[1] = b THEN <<>> ELSE inbox[s]] /\ session' = session
        /\ online' = [online EXCEPT ![b] = FALSE]
    BY <1>3 DEF Reload
  <2>2. ASSUME NEW s \in Sockets, s[1] # b, Listening(s) PROVE Listening(s)'
    BY <1>a, <2>1, <2>2 DEF Listening, Id, PageTyped
  <2>3. inbox' \in [Sockets -> T] /\ \A s \in Sockets : inbox'[s] # <<>> => s[1] # b /\ inbox[s] # <<>>
    BY <1>0, <2>1
  <2> QED BY <1>0, <2>2, <2>3 DEF InboxTyped, T
<1>4. ASSUME NEW b \in Browsers, Receive(b) PROVE InboxTyped'
  <2>1. /\ online[b] /\ inbox[Id(b)] # <<>> /\ Id(b) \in Sockets
        /\ inbox' = [inbox EXCEPT ![Id(b)] = Tail(@)] /\ UNCHANGED <<session, online>>
    BY <1>4, ReceiveFacts
  <2>2. inbox' \in [Sockets -> T] /\ \A s \in Sockets : inbox'[s] # <<>> => inbox[s] # <<>>
    BY <1>0, <1>b, <2>1
  <2>3. \A s \in Sockets : Listening(s)' <=> Listening(s)
    BY <2>1 DEF Listening, Id
  <2> QED BY <1>0, <2>2, <2>3 DEF InboxTyped, T
<1>5. ASSUME UNCHANGED <<inbox, session, online>> PROVE InboxTyped'
  <2>1. \A s \in Sockets : Listening(s)' <=> Listening(s)
    BY <1>5 DEF Listening, Id
  <2> QED BY <1>0, <1>5, <2>1 DEF InboxTyped, T
<1>6. ASSUME NEW b \in Browsers, SendOffer(b) \/ ToggleMic(b) \/ LeaveCall(b) PROVE InboxTyped'
  <2>1. UNCHANGED <<inbox, session, online>>
    BY <1>6 DEF SendOffer, ToggleMic, LeaveCall
  <2> QED BY <1>5, <2>1
<1>7. ASSUME NEW s \in Sockets, Serve(s) \/ ServeDisconnect(s) PROVE InboxTyped'
  <2>1. /\ inbox' \in [Sockets -> T] /\ \A r \in Sockets : inbox'[r] = inbox[r] \/ Listening(r)
        /\ UNCHANGED <<session, online>>
    BY <1>7, ServerFacts DEF T, pageVars
  <2>2. \A r \in Sockets : Listening(r)' <=> Listening(r)
    BY <2>1 DEF Listening, Id
  <2> QED BY <1>0, <2>1, <2>2 DEF InboxTyped, T
<1>8. CASE UNCHANGED vars
  BY <1>5, <1>8 DEF vars, pageVars
<1> QED BY <1>1, <1>2, <1>3, <1>4, <1>6, <1>7, <1>8 DEF Next

LEMMA WireStep == TypeInv /\ [Next]_vars => WireTyped'
<1> SUFFICES ASSUME TypeInv, [Next]_vars PROVE WireTyped'
  OBVIOUS
<1> DEFINE T == Seq(Sendable')
           H == Seq(Holdable')
<1>0. /\ wire \in [Sockets -> T] /\ buffer \in [Browsers -> H]
      /\ \A s \in Sockets : wire[s] # <<>> => s \in Connected
      /\ \A b \in Browsers : online[b] => buffer[b] = <<>>
      /\ Connected \subseteq Connected' /\ Sendable \subseteq Sendable' /\ Holdable \subseteq Holdable'
      /\ <<>> \in T /\ <<>> \in H
  <2>1. /\ Connected \subseteq Connected' /\ Sendable \subseteq Sendable' /\ Holdable \subseteq Holdable'
    BY WorldGrows
  <2>2. Seq(Sendable) \subseteq T /\ Seq(Holdable) \subseteq H
    BY <2>1, WiderSeq
  <2> QED BY <2>1, <2>2 DEF TypeInv, WireTyped
<1>a. PageTyped /\ Holdable \subseteq Sendable
  BY DEF TypeInv, Holdable
<1>b. /\ \A q \in T : q # <<>> => Tail(q) \in T
      /\ \A q \in T : \A m \in Sendable' : Append(q, m) \in T
      /\ \A q \in H : \A m \in Holdable' : Append(q, m) \in H
  OBVIOUS
<1> HIDE DEF T, H
<1>1. ASSUME UNCHANGED <<wire, buffer>>, \A b \in Browsers : online'[b] => online[b] PROVE WireTyped'
  BY <1>0, <1>1 DEF WireTyped, T, H
<1>2. ASSUME NEW b \in Browsers, Connect(b) PROVE WireTyped'
  <2> DEFINE s == <<b, session[b] + 1>>
  <2>1. /\ s \in Sockets /\ s \in Connected'
        /\ \A c \in Browsers \ {b} : online'[c] = online[c]
        /\ \E w \in Seq(Sendable) : wire' = [wire EXCEPT ![s] = w]
        /\ buffer' = [buffer EXCEPT ![b] = <<>>]
    BY <1>2, ConnectFacts
  <2> HIDE DEF s
  <2>2. PICK w \in T : wire' = [wire EXCEPT ![s] = w]
    <3>1. Seq(Sendable) \subseteq T
      BY <1>0, WiderSeq DEF T
    <3> QED BY <2>1, <3>1
  <2>3. wire' \in [Sockets -> T] /\ buffer' \in [Browsers -> H]
    BY <1>0, <2>1, <2>2
  <2>4. \A x \in Sockets : wire'[x] # <<>> => x \in Connected'
    BY <1>0, <2>1, <2>2
  <2>5. \A c \in Browsers : online'[c] => buffer'[c] = <<>>
    BY <1>0, <2>1
  <2> QED BY <2>3, <2>4, <2>5 DEF WireTyped, T, H
<1>3. ASSUME NEW b \in Browsers, Disconnect(b) PROVE WireTyped'
  <2>1. /\ online[b] /\ online' = [online EXCEPT ![b] = FALSE] /\ buffer' = buffer
        /\ \E n \in 0 .. Len(wire[Id(b)]) : wire' = [wire EXCEPT ![Id(b)] = SubSeq(wire[Id(b)], 1, n)]
    BY <1>3 DEF Disconnect
  <2>2. Id(b) \in Connected /\ Id(b) \in Sockets
    BY <1>a, <2>1, SocketFacts DEF PageTyped
  <2>3. PICK w \in T : wire' = [wire EXCEPT ![Id(b)] = w]
    <3>1. PICK n \in 0 .. Len(wire[Id(b)]) : wire' = [wire EXCEPT ![Id(b)] = SubSeq(wire[Id(b)], 1, n)]
      BY <2>1
    <3>2. wire[Id(b)] \in Seq(Sendable')
      BY <1>0, <2>2 DEF T
    <3>3. SubSeq(wire[Id(b)], 1, n) \in Seq(Sendable')
      BY <3>2, PartFacts
    <3> QED BY <3>1, <3>3 DEF T
  <2>4. wire' \in [Sockets -> T] /\ \A x \in Sockets : wire'[x] # <<>> => x \in Connected'
    BY <1>0, <2>2, <2>3
  <2>5. \A c \in Browsers : online'[c] => online[c]
    BY <1>a, <2>1 DEF PageTyped
  <2> QED BY <1>0, <2>1, <2>4, <2>5 DEF WireTyped, T, H
<1>4. ASSUME NEW b \in Browsers, Reload(b) PROVE WireTyped'
  <2>1. online' = [online EXCEPT ![b] = FALSE] /\ wire' = wire /\ buffer' = [buffer EXCEPT ![b] = <<>>]
    BY <1>4 DEF Reload
  <2>2. buffer' \in [Browsers -> H] /\ \A c \in Browsers : buffer'[c] = <<>> \/ buffer'[c] = buffer[c]
    BY <1>0, <2>1
  <2>3. \A c \in Browsers : online'[c] => online[c]
    BY <1>a, <2>1 DEF PageTyped
  <2> QED BY <1>0, <2>1, <2>2, <2>3 DEF WireTyped, T, H
<1>5. ASSUME NEW b \in Browsers, Receive(b) PROVE WireTyped'
  BY <1>1, <1>5, ReceiveFacts
<1>6. ASSUME NEW b \in Browsers, SendOffer(b) \/ ToggleMic(b) \/ LeaveCall(b) PROVE WireTyped'
  <2>1. UNCHANGED <<session, online>>
    BY <1>6 DEF SendOffer, ToggleMic, LeaveCall
  <2>2. CASE UNCHANGED <<wire, buffer>>
    BY <1>1, <2>1, <2>2
  <2>3. CASE \E m \in Holdable :
               /\ online[b] => wire' = [wire EXCEPT ![Id(b)] = Append(@, m)] /\ UNCHANGED buffer
               /\ ~online[b] => buffer' = [buffer EXCEPT ![b] = Append(@, m)] /\ UNCHANGED wire
    <3>1. PICK m \in Holdable :
               /\ online[b] => wire' = [wire EXCEPT ![Id(b)] = Append(@, m)] /\ UNCHANGED buffer
               /\ ~online[b] => buffer' = [buffer EXCEPT ![b] = Append(@, m)] /\ UNCHANGED wire
      BY <2>3
    <3>2. m \in Sendable' /\ m \in Holdable'
      BY <1>0, <1>a
    <3>3. CASE online[b]
      <4>1. Id(b) \in Connected /\ Id(b) \in Sockets
        BY <1>a, <3>3, SocketFacts DEF PageTyped
      <4>2. PICK w \in T : wire' = [wire EXCEPT ![Id(b)] = w]
        <5>1. wire[Id(b)] \in T
          BY <1>0, <4>1
        <5>2. Append(wire[Id(b)], m) \in T
          BY <1>b, <3>2, <5>1
        <5> QED BY <3>1, <3>3, <5>2
      <4>3. wire' \in [Sockets -> T] /\ \A x \in Sockets : wire'[x] # <<>> => x \in Connected'
        BY <1>0, <4>1, <4>2
      <4> QED BY <1>0, <2>1, <3>1, <3>3, <4>3 DEF WireTyped, T, H
    <3>4. CASE ~online[b]
      <4>1. PICK q \in H : buffer' = [buffer EXCEPT ![b] = q]
        <5>1. buffer[b] \in H
          BY <1>0
        <5>2. Append(buffer[b], m) \in H
          BY <1>b, <3>2, <5>1
        <5> QED BY <3>1, <3>4, <5>2
      <4>2. buffer' \in [Browsers -> H] /\ \A c \in Browsers : online[c] => buffer'[c] = buffer[c]
        BY <1>0, <3>4, <4>1
      <4> QED BY <1>0, <2>1, <3>1, <3>4, <4>2 DEF WireTyped, T, H
    <3> QED BY <3>3, <3>4
  <2> QED BY <1>6, <2>2, <2>3, SendFacts
<1>7. ASSUME NEW s \in Sockets, Serve(s) PROVE WireTyped'
  <2>1. wire[s] # <<>> /\ wire' = [wire EXCEPT ![s] = Tail(@)] /\ UNCHANGED <<online, buffer>>
    BY <1>7, ServeFacts DEF pageVars
  <2>2. wire' \in [Sockets -> T] /\ \A x \in Sockets : wire'[x] # <<>> => wire[x] # <<>>
    BY <1>0, <1>b, <2>1
  <2> QED BY <1>0, <2>1, <2>2 DEF WireTyped, T, H
<1>8. ASSUME NEW s \in Sockets, ServeDisconnect(s) PROVE WireTyped'
  <2>1. UNCHANGED <<wire, buffer, online>>
    BY <1>8 DEF ServeDisconnect, pageVars
  <2> QED BY <1>1, <2>1
<1>9. CASE UNCHANGED vars
  BY <1>1, <1>9 DEF vars, pageVars
<1> QED BY <1>2, <1>3, <1>4, <1>5, <1>6, <1>7, <1>8, <1>9 DEF Next

LEMMA PeersStep == TypeInv /\ [Next]_vars => PeersTyped'
<1> SUFFICES ASSUME TypeInv, [Next]_vars PROVE PeersTyped'
  OBVIOUS
<1>0. PeersTyped /\ Connected \subseteq Connected' /\ (\A x : Met(x) => Met(x)')
      /\ Connected \subseteq Sockets
  BY WorldGrows, SocketFacts DEF TypeInv
<1>1. ASSUME UNCHANGED cards, NEW b \in Browsers,
             \/ UNCHANGED <<peers, owed>>
             \/ peers' = [peers EXCEPT ![b] = {}] /\ owed' = [owed EXCEPT ![b] = {}]
             \/ peers' = peers /\ \E s \in owed[b] : owed' = [owed EXCEPT ![b] = owed[b] \ {s}]
      PROVE  PeersTyped'
  <2>1. /\ peers' \in [Browsers -> SUBSET Connected'] /\ owed' \in [Browsers -> SUBSET Sockets]
        /\ \A c \in Browsers : owed'[c] \subseteq peers'[c] /\ owed'[c] \subseteq owed[c]
    BY <1>0, <1>1 DEF PeersTyped
  <2> QED BY <1>0, <1>1, <2>1 DEF PeersTyped
<1>2. ASSUME NEW b \in Browsers, Reload(b) PROVE PeersTyped'
  <2>1. /\ peers' = [peers EXCEPT ![b] = {}] /\ owed' = [owed EXCEPT ![b] = {}]
        /\ cards' = [cards EXCEPT ![b] = <<>>]
    BY <1>2 DEF Reload
  <2>2. <<>> \in Shows /\ DOMAIN <<>> = {}
    <3>1. DOMAIN <<>> = {} /\ <<>> \in [{} -> BOOLEAN]
      OBVIOUS
    <3> QED BY <3>1, ShowsFacts
  <2>3. cards' \in [Browsers -> Shows] /\ \A c \in Browsers : DOMAIN cards'[c] \subseteq Connected'
    BY <1>0, <2>1, <2>2 DEF PeersTyped
  <2>4. /\ peers' \in [Browsers -> SUBSET Connected'] /\ owed' \in [Browsers -> SUBSET Sockets]
        /\ \A c \in Browsers : owed'[c] \subseteq peers'[c] /\ owed'[c] \subseteq owed[c]
    BY <1>0, <2>1 DEF PeersTyped
  <2> QED BY <1>0, <2>3, <2>4 DEF PeersTyped
<1>3. ASSUME NEW b \in Browsers, Receive(b) PROVE PeersTyped'
  <2> DEFINE m == Head(inbox[Id(b)])
  <2>1. /\ m \in Sayable
        /\ peers' = [peers EXCEPT ![b] = Known(b, m)]
        /\ owed' \in [Browsers -> SUBSET Sockets] /\ \A c \in Browsers \ {b} : owed'[c] = owed[c]
        /\ owed'[b] \subseteq peers'[b]
        /\ \A x \in owed'[b] : x \in owed[b] \/ (m.type \in Showing /\ x \in Names(m))
        /\ cards' \in [Browsers -> Shows] /\ \A c \in Browsers \ {b} : cards'[c] = cards[c]
        /\ DOMAIN cards'[b] = Shown(b, m)
    BY <1>3, ReceiveFacts
  <2> HIDE DEF m
  <2>2. Names(m) \subseteq Connected /\ (m.type \in Showing => \A x \in Names(m) : Met(x)) /\ m \in ToBrowser
    BY <2>1 DEF Sayable
  <2>3. m.type = "signal" => m.id \in Connected
    BY <2>2, NamesFacts
  <2>4. Known(b, m) \subseteq Connected /\ Shown(b, m) \subseteq Connected
    BY <1>0, <2>2, <2>3 DEF Known, Shown, PeersTyped
  <2>5. peers' \in [Browsers -> SUBSET Connected'] /\ \A c \in Browsers \ {b} : peers'[c] = peers[c]
    BY <1>0, <2>1, <2>4 DEF PeersTyped
  <2>6. \A c \in Browsers : owed'[c] \subseteq peers'[c] /\ \A x \in owed'[c] : Met(x)'
    BY <1>0, <2>1, <2>2, <2>5 DEF PeersTyped
  <2>7. \A c \in Browsers : DOMAIN cards'[c] \subseteq Connected'
    BY <1>0, <2>1, <2>4 DEF PeersTyped
  <2> QED BY <2>1, <2>5, <2>6, <2>7 DEF PeersTyped
<1>4. ASSUME NEW b \in Browsers, SendOffer(b) PROVE PeersTyped'
  BY <1>1, <1>4 DEF SendOffer
<1>5. ASSUME NEW b \in Browsers, LeaveCall(b) PROVE PeersTyped'
  BY <1>1, <1>5 DEF LeaveCall
<1>6. ASSUME NEW b \in Browsers, Connect(b) \/ Disconnect(b) \/ ToggleMic(b) PROVE PeersTyped'
  BY <1>1, <1>6 DEF Connect, Disconnect, ToggleMic
<1>7. PICK b \in Browsers : TRUE
  BY WebAssumption
<1>8. ASSUME NEW s \in Sockets, Serve(s) \/ ServeDisconnect(s) PROVE PeersTyped'
  <2>1. UNCHANGED <<peers, owed, cards>>
    BY <1>8 DEF Serve, ServeDisconnect, pageVars
  <2> QED BY <1>1, <1>7, <2>1
<1>9. CASE UNCHANGED vars
  BY <1>1, <1>7, <1>9 DEF vars, pageVars
<1> QED BY <1>2, <1>3, <1>4, <1>5, <1>6, <1>8, <1>9 DEF Next

LEMMA TypeInit == Init => TypeInv
<1> SUFFICES ASSUME Init PROVE TypeInv
  OBVIOUS
<1>1. <<>> \in Shows /\ DOMAIN <<>> = {}
  <2>1. DOMAIN <<>> = {} /\ <<>> \in [{} -> BOOLEAN]
    OBVIOUS
  <2> QED BY <2>1, ShowsFacts
<1>2. PageTyped
  BY WebAssumption DEF Init, PageTyped, Connected
<1>3. PeersTyped
  BY <1>1 DEF Init, PeersTyped
<1>4. WireTyped
  BY DEF Init, WireTyped
<1>5. InboxTyped
  BY DEF Init, InboxTyped
<1>6. RoomTyped
  <2>1. Members = {} /\ Cardinality(Members) = 0
    BY <1>1, FS_EmptySet DEF Init, Members
  <2> QED BY <1>1, <2>1, WebAssumption DEF Init, RoomTyped
<1> QED BY <1>2, <1>3, <1>4, <1>5, <1>6 DEF TypeInv

LEMMA TypeStep == TypeInv /\ [Next]_vars => TypeInv'
BY PageStep, PeersStep, WireStep, InboxStep, RoomStep DEF TypeInv

(* The page's own fields, what it knows and shows, the wires, the queues    *)
(* and the room map of server.js always have their types: what the other    *)
(* proofs rest on.                                                          *)
THEOREM TypesHold == Spec => []TypeInv
<1> QED BY TypeInit, TypeStep, PTL DEF Spec

LEMMA TypeSuffices == TypeInv => TypeOK
<1> SUFFICES ASSUME TypeInv PROVE TypeOK
  OBVIOUS
<1>1. /\ session \in [Browsers -> 0 .. MaxSessions]
      /\ online \in [Browsers -> BOOLEAN] /\ inCall \in [Browsers -> BOOLEAN]
      /\ deferred \in [Browsers -> BOOLEAN] /\ muted \in [Browsers -> BOOLEAN]
      /\ told \in [Browsers -> BOOLEAN] /\ stale \in [Browsers -> BOOLEAN]
      /\ broken \subseteq Connected /\ outsiders \subseteq Connected /\ unheard \subseteq Connected
      /\ \A b \in Browsers : online[b] => Id(b) \in Connected \ broken
  BY DEF TypeInv, PageTyped
<1>2. \A b \in Browsers : /\ DOMAIN cards[b] \subseteq Connected /\ peers[b] \subseteq Connected
                          /\ owed[b] \subseteq peers[b]
  BY DEF TypeInv, PeersTyped
<1>3. /\ \A b \in Browsers : /\ online[b] => buffer[b] = <<>>
                             /\ \A i \in DOMAIN buffer[b] : buffer[b][i] \in ToServer
      /\ \A s \in Sockets : \A i \in DOMAIN wire[s] : wire[s][i] \in ToServer
  <2>1. /\ \A b \in Browsers : buffer[b] \in Seq(Holdable) /\ (online[b] => buffer[b] = <<>>)
        /\ \A s \in Sockets : wire[s] \in Seq(Sendable)
        /\ Holdable \subseteq ToServer /\ Sendable \subseteq ToServer
    BY DEF TypeInv, WireTyped, Holdable, Sendable
  <2>2. \A S : \A q \in Seq(S) : \A i \in DOMAIN q : q[i] \in S
    OBVIOUS
  <2>3. \A b \in Browsers : \A i \in DOMAIN buffer[b] : buffer[b][i] \in Holdable
    BY <2>1, <2>2
  <2>4. \A s \in Sockets : \A i \in DOMAIN wire[s] : wire[s][i] \in Sendable
    BY <2>1, <2>2
  <2> QED BY <2>1, <2>3, <2>4
<1>4. \A s \in Sockets : inbox[s] # <<>> => s = Id(s[1]) /\ online[s[1]]
  BY DEF TypeInv, InboxTyped, Listening
<1>5. /\ DOMAIN room \subseteq channel /\ channel \subseteq Connected
      /\ Cardinality(DOMAIN room) <= RoomSize
      /\ breaks \in 0 .. MaxBreaks /\ clicks \in 0 .. MaxClicks
  BY DEF TypeInv, RoomTyped, Members
<1> QED BY <1>1, <1>2, <1>3, <1>4, <1>5 DEF TypeOK

(* Everything has its type; the room is never over its places, its members *)
(* are in the channel, and whoever has messages waiting listens            *)
(* (server.js, RoomManager.ts, PeerManager.ts).                            *)
THEOREM WebRoomsTypeCorrect == Spec => []TypeOK
<1> QED BY TypesHold, TypeSuffices, PTL

-----------------------------------------------------------------------------
(***************************************************************************)
(* What a page said last on its connection is what the map will hold, or    *)
(* would hold had the limit let the last state pass.                       *)
(* The joins of a connection go out one after the other, so a join that    *)
(* is refused or repeated finds the entry as the join before it left it.   *)
(***************************************************************************)
Together(w) ==
  \A i, j, k \in 1..Len(w) : i < k /\ k < j /\ i \in Joins(w) /\ j \in Joins(w) => k \in Joins(w)
Fresh(s) == s \in Members /\ Joins(wire[s]) # {} => 1 \in Joins(wire[s]) /\ room[s] = FALSE
JoinsInv == \A s \in Sockets : Together(wire[s]) /\ Fresh(s)
Kept(b) == IF Id(b) \in unheard THEN told[b] ELSE room[Id(b)]
Heard(b) ==
  online[b] /\ (Id(b) \in Members \/ Joins(wire[Id(b)]) # {})
    => Awaits(wire[Id(b)], Kept(b), told[b])
ToldInv == \A b \in Browsers : Heard(b)

LEMMA JoinsAppend ==
  ASSUME NEW S, NEW w \in Seq(S), NEW e \in S, e.type # "join-room"
  PROVE  Joins(Append(w, e)) = Joins(w) /\ (Together(w) => Together(Append(w, e)))
<1> DEFINE n == Len(w)
           r == Append(w, e)
<1>1. n \in Nat /\ Len(r) = n + 1 /\ r[n + 1] = e /\ \A j \in 1..n : r[j] = w[j]
  BY AppendFacts
<1> HIDE DEF n, r
<1>2. \A j \in 1..(n + 1) : j \in 1..n \/ j = n + 1
  BY <1>1
<1>3. \A j \in 1..n : j \in 1..(n + 1)
  BY <1>1
<1>4. Joins(r) = Joins(w)
  BY <1>1, <1>2, <1>3 DEF Joins, n
<1>5. ASSUME Together(w) PROVE Together(r)
  <2> SUFFICES ASSUME NEW i \in 1..(n + 1), NEW j \in 1..(n + 1), NEW k \in 1..(n + 1),
                      i < k, k < j, i \in Joins(w), j \in Joins(w)
               PROVE  k \in Joins(w)
    BY <1>1, <1>4 DEF Together
  <2>1. i \in 1..n /\ j \in 1..n /\ k \in 1..n
    BY <1>1 DEF Joins, n
  <2> QED BY <1>5, <2>1 DEF Together, n
<1> QED BY <1>4, <1>5 DEF r

LEMMA JoinsTail ==
  ASSUME NEW S, NEW w \in Seq(S), w # <<>>
  PROVE  /\ Together(w) => Together(Tail(w))
         /\ Joins(Tail(w)) # {} => Joins(w) # {}
         /\ Together(w) /\ 1 \in Joins(w) /\ Joins(Tail(w)) # {} => 1 \in Joins(Tail(w))
         /\ 1 \in Joins(w) <=> Head(w).type = "join-room"
<1> DEFINE n == Len(w) - 1
           r == Tail(w)
<1>1. n \in Nat /\ Len(w) = n + 1 /\ Len(r) = n /\ Head(w) = w[1] /\ \A j \in 1..n : r[j] = w[j + 1]
  BY TailFacts
<1> HIDE DEF n, r
<1>2. \A j \in 1..n : j + 1 \in 1..(n + 1) /\ (j + 1 \in Joins(w) <=> j \in Joins(r))
  BY <1>1 DEF Joins
<1>3. Joins(r) \subseteq 1..n
  BY <1>1 DEF Joins
<1>4. ASSUME Together(w) PROVE Together(r)
  <2> SUFFICES ASSUME NEW i \in 1..n, NEW j \in 1..n, NEW k \in 1..n,
                      i < k, k < j, i \in Joins(r), j \in Joins(r)
               PROVE  k \in Joins(r)
    BY <1>1 DEF Together
  <2>1. i + 1 < k + 1 /\ k + 1 < j + 1
    BY <1>1
  <2>2. k + 1 \in Joins(w)
    BY <1>1, <1>2, <1>4, <2>1 DEF Together
  <2> QED BY <1>2, <2>2
<1>5. Joins(r) # {} => Joins(w) # {}
  BY <1>2, <1>3
<1>6. ASSUME Together(w), 1 \in Joins(w), NEW j \in Joins(r) PROVE 1 \in Joins(r)
  <2>1. j \in 1..n /\ j + 1 \in Joins(w) /\ j + 1 \in 1..(n + 1)
    BY <1>2, <1>3
  <2>2. CASE j = 1
    BY <2>2
  <2>3. CASE j # 1
    <3>1. 1 \in 1..n /\ 1 + 1 \in 1..(n + 1) /\ 1 < 1 + 1 /\ 1 + 1 < j + 1 /\ 1 \in 1..(n + 1)
      BY <1>1, <2>1, <2>3
    <3>2. 1 + 1 \in Joins(w)
      BY <1>1, <1>6, <2>1, <3>1 DEF Together
    <3> QED BY <1>2, <3>1, <3>2
  <2> QED BY <2>2, <2>3
<1>7. 1 \in Joins(w) <=> Head(w).type = "join-room"
  <2>1. 1 \in 1..(n + 1)
    BY <1>1
  <2> QED BY <1>1, <2>1 DEF Joins
<1> QED BY <1>4, <1>5, <1>6, <1>7 DEF r

LEMMA JoinsPart ==
  ASSUME NEW S, NEW w \in Seq(S), NEW n \in 0..Len(w)
  PROVE  /\ Together(w) => Together(SubSeq(w, 1, n))
         /\ Joins(SubSeq(w, 1, n)) # {} => Joins(w) # {}
         /\ 1 \in Joins(w) /\ Joins(SubSeq(w, 1, n)) # {} => 1 \in Joins(SubSeq(w, 1, n))
<1> DEFINE r == SubSeq(w, 1, n)
<1>1. Len(r) = n /\ n \in Nat /\ Len(w) \in Nat /\ n <= Len(w) /\ \A j \in 1..n : r[j] = w[j]
  BY PartFacts
<1> HIDE DEF r
<1>2. \A j \in 1..n : j \in 1..Len(w) /\ (j \in Joins(w) <=> j \in Joins(r))
  BY <1>1 DEF Joins
<1>3. Joins(r) \subseteq 1..n
  BY <1>1 DEF Joins
<1>4. Together(w) => Together(r)
  BY <1>1, <1>2 DEF Together
<1>5. Joins(r) # {} => Joins(w) # {}
  BY <1>2, <1>3
<1>6. ASSUME 1 \in Joins(w), Joins(r) # {} PROVE 1 \in Joins(r)
  <2>1. 1 \in 1..n
    BY <1>1, <1>3, <1>6
  <2> QED BY <1>2, <1>6, <2>1
<1> QED BY <1>4, <1>5, <1>6 DEF r

(* The queue of a new connection. *)
LEMMA JoinsFirst ==
  ASSUME NEW w, NEW n \in Nat, Len(w) \in Nat, Len(w) >= n,
         \A i \in 1..n : w[i].type # "join-room",
         \A i \in (n + 1)..Len(w) : w[i] = JoinMessage
  PROVE  Together(w) /\ (Joins(w) # {} => \A now : Awaits(w, now, FALSE))
<1>1. JoinMessage.type = "join-room"
  BY DEF JoinMessage
<1>2. \A i \in 1..Len(w) : i \in Joins(w) <=> i > n
  <2> SUFFICES ASSUME NEW i \in 1..Len(w) PROVE i \in Joins(w) <=> i > n
    OBVIOUS
  <2>1. CASE i > n
    <3>1. i \in (n + 1)..Len(w)
      BY <2>1
    <3> QED BY <1>1, <2>1, <3>1 DEF Joins
  <2>2. CASE ~(i > n)
    <3>1. i \in 1..n
      BY <2>2
    <3> QED BY <2>2, <3>1 DEF Joins
  <2> QED BY <2>1, <2>2
<1>3. Together(w)
  BY <1>2 DEF Together
<1>4. ASSUME Joins(w) # {}, NEW now PROVE Awaits(w, now, FALSE)
  <2>1. PICK x \in 1..Len(w) : x > n
    BY <1>2, <1>4 DEF Joins
  <2>2. Len(w) \in 1..Len(w) /\ Len(w) > n
    BY <2>1
  <2>3. Sets(w[Len(w)]) /\ SetTo(w[Len(w)]) = FALSE
    BY <1>2, <2>2 DEF Joins, Sets, SetTo
  <2>4. \A i \in 1..Len(w) : i = Len(w) \/ Len(w) > i
    OBVIOUS
  <2> QED BY <2>2, <2>3, <2>4 DEF Awaits
<1> QED BY <1>3, <1>4

(* What one message does to the map. *)
LEMMA ServeRoom ==
  ASSUME TypeInv, [Next]_vars, NEW s \in Sockets, Serve(s)
  PROVE  LET m == Head(wire[s])
         IN  /\ m.type \in {"join-room", "leave-room", "peer-state-changed", "signal"}
             /\ Members \ {s} \subseteq Members' /\ Members' \subseteq Members \union {s}
             /\ \A r \in Members \ {s} : room'[r] = room[r]
             /\ m.type = "join-room" => \/ s \in Members' /\ room'[s] = FALSE
                                        \/ Members' = Members /\ room' = room
             /\ m.type = "leave-room" => s \notin Members'
             /\ m.type = "signal" => Members' = Members /\ room' = room
             /\ m.type = "peer-state-changed" =>
                  /\ Members' = Members
                  /\ \/ (s \in Members => room'[s] = m.muted) /\ unheard' = unheard \ {s}
                     \/ room' = room /\ unheard' = unheard \union {s}
             /\ m.type # "peer-state-changed" => unheard' = unheard
<1>0. Connected \subseteq Connected' /\ (\A x : Met(x) => Met(x)') /\ Sayable \subseteq Sayable'
  BY WorldGrows
<1> DEFINE m == Head(wire[s])
<1>1. /\ s \in Connected
      /\ \/ m.type = "join-room" /\ JoinRoom(s) /\ unheard' = unheard
         \/ m.type = "leave-room" /\ HandleLeave(s) /\ UNCHANGED channel /\ unheard' = unheard
         \/ m.type = "signal" /\ UNCHANGED <<room, channel>> /\ unheard' = unheard
         \/ /\ m.type = "peer-state-changed" /\ m.muted \in BOOLEAN /\ PeerStateChanged(s, m.muted)
            /\ unheard' = unheard \ {s}
         \/ m.type = "peer-state-changed" /\ UNCHANGED <<room, channel>> /\ unheard' = unheard \union {s}
      /\ UNCHANGED <<session, online>>
  BY ServeFacts DEF pageVars, Untouched
<1> HIDE DEF m
<1>2. CASE m.type = "join-room" /\ JoinRoom(s) /\ Cardinality(Members) >= RoomSize /\ unheard' = unheard
  <2>1. UNCHANGED <<room, channel>>
    BY <1>2, RefusedFacts
  <2>2. Members' = Members
    BY <2>1 DEF Members
  <2> QED BY <1>2, <2>1, <2>2 DEF m
<1>3. CASE m.type = "join-room" /\ JoinRoom(s) /\ ~(Cardinality(Members) >= RoomSize) /\ unheard' = unheard
  <2>1. /\ Members' = Members \union {s} /\ room'[s] = FALSE /\ \A t \in Members \ {s} : room'[t] = room[t]
    BY <1>0, <1>1, <1>3, EntersFacts
  <2> QED BY <1>3, <2>1 DEF m
<1>4. CASE m.type = "leave-room" /\ HandleLeave(s) /\ unheard' = unheard
  <2>1. Members' = Members \ {s} /\ \A t \in Members \ {s} : room'[t] = room[t]
    BY <1>1, <1>4, LeavesFacts
  <2> QED BY <1>4, <2>1 DEF m
<1>5. CASE m.type = "signal" /\ UNCHANGED <<room, channel>> /\ unheard' = unheard
  <2>1. Members' = Members
    BY <1>5 DEF Members
  <2> QED BY <1>5, <2>1 DEF m
<1>6. CASE /\ m.type = "peer-state-changed" /\ m.muted \in BOOLEAN /\ PeerStateChanged(s, m.muted)
           /\ unheard' = unheard \ {s}
  <2>1. Members' = Members /\ (s \in Members => room'[s] = m.muted) /\ \A t \in Members \ {s} : room'[t] = room[t]
    BY <1>1, <1>6, SaysFacts
  <2> QED BY <1>6, <2>1 DEF m
<1>7. CASE m.type = "peer-state-changed" /\ UNCHANGED <<room, channel>> /\ unheard' = unheard \union {s}
  <2>1. Members' = Members
    BY <1>7 DEF Members
  <2> QED BY <1>7, <2>1 DEF m
<1> QED BY <1>1, <1>2, <1>3, <1>4, <1>5, <1>6, <1>7

LEMMA JoinsStep == TypeInv /\ JoinsInv /\ [Next]_vars => JoinsInv'
<1> SUFFICES ASSUME TypeInv, JoinsInv, [Next]_vars PROVE JoinsInv'
  OBVIOUS
<1>0. wire \in [Sockets -> Seq(Sendable)] /\ Members \subseteq Connected /\ PageTyped
  BY DEF TypeInv, WireTyped, RoomTyped
<1>1. ASSUME NEW s \in Sockets, wire'[s] = wire[s], s \in Members' => s \in Members /\ room'[s] = room[s]
      PROVE  Together(wire'[s]) /\ Fresh(s)'
  BY <1>1 DEF JoinsInv, Fresh
<1>2. ASSUME UNCHANGED <<wire, room>> PROVE JoinsInv'
  <2>1. Members' = Members
    BY <1>2 DEF Members
  <2>2. \A s \in Sockets : Together(wire'[s]) /\ Fresh(s)'
    BY <1>1, <1>2, <2>1
  <2> QED BY <2>2 DEF JoinsInv
<1>3. ASSUME NEW b \in Browsers, Connect(b) PROVE JoinsInv'
  <2>0. PICK s \in Sockets : s = <<b, session[b] + 1>>
    BY <1>3, ConnectFacts
  <2>1. /\ s \in Sockets /\ s \notin Connected /\ UNCHANGED room
        /\ \E w \in Seq(Sendable) :
             /\ wire' = [wire EXCEPT ![s] = w]
             /\ Len(w) >= Len(buffer[b]) /\ Len(w) \in Nat /\ Len(buffer[b]) \in Nat
             /\ \A i \in 1..Len(buffer[b]) : w[i] = buffer[b][i] /\ w[i] \in Holdable
             /\ \A i \in (Len(buffer[b]) + 1)..Len(w) : w[i] = JoinMessage
    BY <1>3, <2>0, ConnectFacts
  <2>2. PICK w \in Seq(Sendable) :
             /\ wire' = [wire EXCEPT ![s] = w]
             /\ Len(w) >= Len(buffer[b]) /\ Len(w) \in Nat /\ Len(buffer[b]) \in Nat
             /\ \A i \in 1..Len(buffer[b]) : w[i] = buffer[b][i] /\ w[i] \in Holdable
             /\ \A i \in (Len(buffer[b]) + 1)..Len(w) : w[i] = JoinMessage
    BY <2>1
  <2>3. \A i \in 1..Len(buffer[b]) : w[i].type # "join-room"
    BY <2>2 DEF Holdable
  <2>4. Together(w)
    BY <2>2, <2>3, JoinsFirst
  <2>5. Members' = Members /\ s \notin Members
    BY <1>0, <2>1 DEF Members
  <2>6. wire'[s] = w /\ \A r \in Sockets : r # s => wire'[r] = wire[r]
    BY <1>0, <2>1, <2>2
  <2>7. Together(wire'[s]) /\ Fresh(s)'
    BY <2>4, <2>5, <2>6 DEF Fresh
  <2>8. \A r \in Sockets : r # s => Together(wire'[r]) /\ Fresh(r)'
    BY <1>1, <2>1, <2>5, <2>6
  <2> QED BY <2>7, <2>8 DEF JoinsInv
<1>4. ASSUME NEW b \in Browsers, Disconnect(b) PROVE JoinsInv'
  <2>1. /\ online[b] /\ UNCHANGED room
        /\ \E n \in 0 .. Len(wire[Id(b)]) : wire' = [wire EXCEPT ![Id(b)] = SubSeq(wire[Id(b)], 1, n)]
    BY <1>4 DEF Disconnect, serverVars
  <2>2. Id(b) \in Sockets /\ Members' = Members
    BY <1>0, <2>1, SocketFacts DEF PageTyped, Members
  <2>3. PICK n \in 0 .. Len(wire[Id(b)]) : wire' = [wire EXCEPT ![Id(b)] = SubSeq(wire[Id(b)], 1, n)]
    BY <2>1
  <2>4. /\ wire'[Id(b)] = SubSeq(wire[Id(b)], 1, n)
        /\ \A r \in Sockets : r # Id(b) => wire'[r] = wire[r]
    BY <1>0, <2>2, <2>3
  <2>5. wire[Id(b)] \in Seq(Sendable) /\ Together(wire[Id(b)]) /\ Fresh(Id(b))
    BY <1>0, <2>2 DEF JoinsInv
  <2>6. /\ Together(SubSeq(wire[Id(b)], 1, n))
        /\ Joins(SubSeq(wire[Id(b)], 1, n)) # {} => Joins(wire[Id(b)]) # {}
        /\ 1 \in Joins(wire[Id(b)]) /\ Joins(SubSeq(wire[Id(b)], 1, n)) # {}
             => 1 \in Joins(SubSeq(wire[Id(b)], 1, n))
    BY <2>5, JoinsPart
  <2>7. ASSUME NEW r \in Sockets PROVE Together(wire'[r]) /\ Fresh(r)'
    <3>1. CASE r # Id(b)
      BY <1>1, <2>1, <2>2, <2>4, <3>1
    <3>2. CASE r = Id(b)
      BY <2>1, <2>2, <2>4, <2>5, <2>6, <3>2 DEF Fresh
    <3> QED BY <3>1, <3>2
  <2> QED BY <2>7 DEF JoinsInv
<1>5. ASSUME NEW b \in Browsers, SendOffer(b) \/ ToggleMic(b) \/ LeaveCall(b) PROVE JoinsInv'
  <2>1. UNCHANGED room /\ Members' = Members
    BY <1>5 DEF SendOffer, ToggleMic, LeaveCall, serverVars, Members
  <2>2. CASE UNCHANGED wire
    BY <1>2, <2>1, <2>2
  <2>3. CASE online[b] /\ \E m \in Holdable : wire' = [wire EXCEPT ![Id(b)] = Append(@, m)]
    <3>1. PICK m \in Holdable : wire' = [wire EXCEPT ![Id(b)] = Append(@, m)]
      BY <2>3
    <3>2. Id(b) \in Sockets /\ m \in Sendable /\ m.type # "join-room"
      BY <1>0, <2>3, SocketFacts DEF PageTyped, Holdable
    <3>3. /\ wire'[Id(b)] = Append(wire[Id(b)], m)
          /\ \A r \in Sockets : r # Id(b) => wire'[r] = wire[r]
      BY <1>0, <3>1, <3>2
    <3>4. wire[Id(b)] \in Seq(Sendable) /\ Together(wire[Id(b)]) /\ Fresh(Id(b))
      BY <1>0, <3>2 DEF JoinsInv
    <3>5. Joins(wire'[Id(b)]) = Joins(wire[Id(b)]) /\ Together(wire'[Id(b)])
      BY <3>2, <3>3, <3>4, JoinsAppend
    <3>6. ASSUME NEW r \in Sockets PROVE Together(wire'[r]) /\ Fresh(r)'
      <4>1. CASE r # Id(b)
        BY <1>1, <2>1, <3>3, <4>1
      <4>2. CASE r = Id(b)
        BY <2>1, <3>4, <3>5, <4>2 DEF Fresh
      <4> QED BY <4>1, <4>2
    <3> QED BY <3>6 DEF JoinsInv
  <2> QED BY <1>5, <2>2, <2>3, SendFacts
<1>6. ASSUME NEW b \in Browsers, Receive(b) PROVE JoinsInv'
  BY <1>2, <1>6, ReceiveFacts
<1>7. ASSUME NEW b \in Browsers, Reload(b) PROVE JoinsInv'
  BY <1>2, <1>7 DEF Reload, serverVars
<1>8. ASSUME NEW s \in Sockets, Serve(s) PROVE JoinsInv'
  <2> DEFINE m == Head(wire[s])
  <2>1. /\ Members \ {s} \subseteq Members' /\ Members' \subseteq Members \union {s}
        /\ \A r \in Members \ {s} : room'[r] = room[r]
        /\ m.type = "join-room" => \/ s \in Members' /\ room'[s] = FALSE
                                   \/ Members' = Members /\ room' = room
        /\ m.type = "leave-room" => s \notin Members'
        /\ m.type = "signal" => Members' = Members /\ room' = room
        /\ m.type = "peer-state-changed" =>
             /\ Members' = Members
             /\ \/ (s \in Members => room'[s] = m.muted) /\ unheard' = unheard \ {s}
                \/ room' = room /\ unheard' = unheard \union {s}
        /\ m.type # "peer-state-changed" => unheard' = unheard
        /\ m.type \in {"join-room", "leave-room", "peer-state-changed", "signal"}
    BY <1>8, ServeRoom
  <2>2. wire[s] # <<>> /\ wire[s] \in Seq(Sendable) /\ wire' = [wire EXCEPT ![s] = Tail(@)]
    BY <1>8, ServeFacts
  <2>3. wire'[s] = Tail(wire[s]) /\ \A r \in Sockets : r # s => wire'[r] = wire[r]
    BY <1>0, <2>2
  <2>4. Together(wire[s]) /\ Fresh(s)
    BY DEF JoinsInv
  <2>5. /\ Together(Tail(wire[s]))
        /\ Joins(Tail(wire[s])) # {} => Joins(wire[s]) # {}
        /\ 1 \in Joins(wire[s]) /\ Joins(Tail(wire[s])) # {} => 1 \in Joins(Tail(wire[s]))
        /\ 1 \in Joins(wire[s]) <=> m.type = "join-room"
    BY <2>2, <2>4, JoinsTail
  <2> HIDE DEF m
  <2>6. ASSUME s \in Members', Joins(Tail(wire[s])) # {}
        PROVE  1 \in Joins(Tail(wire[s])) /\ room'[s] = FALSE
    <3>1. CASE m.type = "join-room"
      BY <2>1, <2>4, <2>5, <2>6, <3>1 DEF Fresh
    <3>2. CASE m.type # "join-room"
      BY <2>1, <2>4, <2>5, <2>6, <3>2 DEF Fresh
    <3> QED BY <3>1, <3>2
  <2>7. ASSUME NEW r \in Sockets PROVE Together(wire'[r]) /\ Fresh(r)'
    <3>1. CASE r # s
      BY <1>1, <2>1, <2>3, <3>1
    <3>2. CASE r = s
      BY <2>3, <2>5, <2>6, <3>2 DEF Fresh
    <3> QED BY <3>1, <3>2
  <2> QED BY <2>7 DEF JoinsInv
<1>9. ASSUME NEW s \in Sockets, ServeDisconnect(s) PROVE JoinsInv'
  <2>1. UNCHANGED wire /\ HandleLeave(s) /\ s \in Connected
    BY <1>0, <1>9 DEF ServeDisconnect, PageTyped
  <2>2. Members' = Members \ {s} /\ \A t \in Members \ {s} : room'[t] = room[t]
    BY <2>1, LeavesFacts
  <2>3. \A r \in Sockets : Together(wire'[r]) /\ Fresh(r)'
    BY <1>1, <2>1, <2>2
  <2> QED BY <2>3 DEF JoinsInv
<1>10. CASE UNCHANGED vars
  BY <1>2, <1>10 DEF vars, serverVars
<1> QED BY <1>3, <1>4, <1>5, <1>6, <1>7, <1>8, <1>9, <1>10 DEF Next

LEMMA AwaitsAny ==
  ASSUME NEW w, Joins(w) # {}, NEW now, NEW next, NEW flag, Awaits(w, now, flag)
  PROVE  Awaits(w, next, flag)
BY DEF Joins, Awaits, Sets

(* The last message that says it. *)
LEMMA AwaitsLast ==
  ASSUME NEW S, NEW w \in Seq(S), w # <<>>, NEW now, NEW flag, Awaits(w, now, flag),
         ~ \E i \in 1..Len(Tail(w)) : Sets(Tail(w)[i])
  PROVE  (IF Sets(Head(w)) THEN SetTo(Head(w)) ELSE now) = flag
<1>1. PICK n \in Nat : n = Len(w) - 1
  BY TailFacts
<1>2. /\ Len(w) = n + 1 /\ Len(Tail(w)) = n /\ Head(w) = w[1]
      /\ \A j \in 1..n : Tail(w)[j] = w[j + 1]
  BY <1>1, TailFacts
<1>3. ASSUME NEW j \in 1..(n + 1), j > 1 PROVE ~Sets(w[j])
  <2>1. j - 1 \in 1..n /\ Tail(w)[j - 1] = w[j]
    BY <1>2, <1>3
  <2> QED BY <1>2, <2>1
<1>4. 1 \in 1..(n + 1) /\ \A j \in 1..(n + 1) : j = 1 \/ j > 1
  BY <1>1
<1>5. CASE Sets(w[1])
  BY <1>2, <1>3, <1>4, <1>5 DEF Awaits
<1>6. CASE ~Sets(w[1])
  <2>1. \A i \in 1..Len(w) : ~Sets(w[i])
    BY <1>2, <1>3, <1>4, <1>6
  <2> QED BY <1>2, <1>6, <2>1 DEF Awaits
<1> QED BY <1>5, <1>6

LEMMA ToldStep == TypeInv /\ JoinsInv /\ ToldInv /\ [Next]_vars => ToldInv'
<1> SUFFICES ASSUME TypeInv, JoinsInv, ToldInv, [Next]_vars PROVE ToldInv'
  OBVIOUS
<1>0. wire \in [Sockets -> Seq(Sendable)] /\ Members \subseteq Connected /\ PageTyped
  BY DEF TypeInv, WireTyped, RoomTyped
<1>a. \A b \in Browsers : online[b] => Id(b) \in Sockets /\ Id(b) \notin broken
  BY <1>0, SocketFacts DEF PageTyped
<1>b. \A b, c \in Browsers : b # c => Id(b) # Id(c)
  BY DEF Id
<1>1. ASSUME NEW b \in Browsers, online'[b] => online[b], session'[b] = session[b],
             online[b] => wire'[Id(b)] = wire[Id(b)], told'[b] = told[b],
             Id(b) \in Members' <=> Id(b) \in Members,
             Id(b) \in Members => room'[Id(b)] = room[Id(b)],
             Id(b) \in unheard' <=> Id(b) \in unheard
      PROVE  Heard(b)'
  <2>1. Id(b)' = Id(b)
    BY <1>1 DEF Id
  <2>2. Heard(b)
    BY DEF ToldInv
  <2>3. CASE online'[b]
    <3>1. wire'[Id(b)] = wire[Id(b)] /\ online[b] /\ told'[b] = told[b]
      BY <1>1, <2>3
    <3>2. Id(b) \in Members => Id(b) \in Members' /\ room'[Id(b)] = room[Id(b)]
      BY <1>1
    <3>3. Id(b) \in Members' => Id(b) \in Members
      BY <1>1
    <3>4. ASSUME Id(b) \in Members' \/ Joins(wire'[Id(b)]) # {}
          PROVE  Awaits(wire'[Id(b)], Kept(b)', told'[b])
      <4>1. Awaits(wire[Id(b)], Kept(b), told[b])
        BY <2>2, <3>1, <3>3, <3>4 DEF Heard
      <4>2. CASE Id(b) \in Members'
        <5>1. Kept(b)' = Kept(b)
          BY <1>1, <2>1, <3>1, <3>2, <3>3, <4>2 DEF Kept
        <5> QED BY <3>1, <4>1, <5>1
      <4>3. CASE Joins(wire'[Id(b)]) # {}
        BY <3>1, <4>1, <4>3, AwaitsAny
      <4> QED BY <3>4, <4>2, <4>3
    <3> QED BY <2>1, <3>4 DEF Heard
  <2>4. CASE ~online'[b]
    BY <2>4 DEF Heard
  <2> QED BY <2>3, <2>4
<1>2. ASSUME UNCHANGED <<session, wire, told, room, unheard>>, \A b \in Browsers : online'[b] => online[b]
      PROVE  ToldInv'
  <2>1. Members' = Members
    BY <1>2 DEF Members
  <2>2. \A b \in Browsers : Heard(b)'
    BY <1>1, <1>2, <2>1
  <2> QED BY <2>2 DEF ToldInv
<1>3. ASSUME NEW b \in Browsers, Connect(b) PROVE ToldInv'
  <2>0. PICK s \in Sockets : s = <<b, session[b] + 1>>
    BY <1>3, ConnectFacts
  <2>1. /\ s \notin Connected /\ UNCHANGED <<room, unheard>> /\ Id(b)' = s /\ ~online[b] /\ told'[b] = FALSE
        /\ \A c \in Browsers \ {b} : Id(c)' = Id(c) /\ Id(c) # s
        /\ \A c \in Browsers \ {b} : online'[c] = online[c] /\ told'[c] = told[c]
        /\ \E w \in Seq(Sendable) :
             /\ wire' = [wire EXCEPT ![s] = w]
             /\ Len(w) >= Len(buffer[b]) /\ Len(w) \in Nat /\ Len(buffer[b]) \in Nat
             /\ \A i \in 1..Len(buffer[b]) : w[i] = buffer[b][i] /\ w[i] \in Holdable
             /\ \A i \in (Len(buffer[b]) + 1)..Len(w) : w[i] = JoinMessage
    BY <1>3, <2>0, ConnectFacts
  <2>2. PICK w \in Seq(Sendable) :
             /\ wire' = [wire EXCEPT ![s] = w]
             /\ Len(w) >= Len(buffer[b]) /\ Len(w) \in Nat /\ Len(buffer[b]) \in Nat
             /\ \A i \in 1..Len(buffer[b]) : w[i] = buffer[b][i] /\ w[i] \in Holdable
             /\ \A i \in (Len(buffer[b]) + 1)..Len(w) : w[i] = JoinMessage
    BY <2>1
  <2>3. \A i \in 1..Len(buffer[b]) : w[i].type # "join-room"
    BY <2>2 DEF Holdable
  <2>4. Joins(w) # {} => \A now : Awaits(w, now, FALSE)
    BY <2>2, <2>3, JoinsFirst
  <2>5. Members' = Members /\ s \notin Members
    BY <1>0, <2>1 DEF Members
  <2>6. wire'[s] = w /\ \A r \in Sockets : r # s => wire'[r] = wire[r]
    BY <1>0, <2>2
  <2>7. Heard(b)'
    BY <2>1, <2>4, <2>5, <2>6 DEF Heard
  <2>8. ASSUME NEW c \in Browsers \ {b} PROVE Heard(c)'
    <3>1. Heard(c) /\ Id(c)' = Id(c) /\ (online[c] => wire'[Id(c)] = wire[Id(c)])
      BY <1>a, <2>1, <2>6 DEF ToldInv
    <3> QED BY <2>1, <2>5, <3>1 DEF Heard, Kept
  <2> QED BY <2>7, <2>8 DEF ToldInv
<1>4. ASSUME NEW b \in Browsers, Disconnect(b) PROVE ToldInv'
  <2>1. /\ online' = [online EXCEPT ![b] = FALSE] /\ UNCHANGED <<room, session, told, unheard>>
        /\ \E n \in 0 .. Len(wire[Id(b)]) : wire' = [wire EXCEPT ![Id(b)] = SubSeq(wire[Id(b)], 1, n)]
    BY <1>4 DEF Disconnect, serverVars
  <2>2. Members' = Members /\ online \in [Browsers -> BOOLEAN]
    BY <1>0, <2>1 DEF Members, PageTyped
  <2>3. ~online'[b] /\ \A c \in Browsers \ {b} : online'[c] = online[c]
    BY <2>1, <2>2
  <2>4. \A r \in Sockets : r # Id(b) => wire'[r] = wire[r]
    BY <1>0, <2>1
  <2>5. Heard(b)'
    BY <2>3 DEF Heard
  <2>6. ASSUME NEW c \in Browsers \ {b} PROVE Heard(c)'
    BY <1>1, <1>a, <1>b, <2>1, <2>2, <2>3, <2>4
  <2> QED BY <2>5, <2>6 DEF ToldInv
<1>5. ASSUME NEW b \in Browsers, SendOffer(b) \/ ToggleMic(b) \/ LeaveCall(b) PROVE ToldInv'
  <2>1. UNCHANGED <<room, session, online, unheard>> /\ Members' = Members
        /\ told \in [Browsers -> BOOLEAN]
        /\ \A c \in Browsers \ {b} : told'[c] = told[c]
    BY <1>0, <1>5 DEF SendOffer, ToggleMic, LeaveCall, serverVars, auxVars, Members, PageTyped
  <2>2. CASE ~online[b] /\ UNCHANGED wire
    <3>1. ASSUME NEW c \in Browsers PROVE Heard(c)'
      <4>1. CASE c = b
        BY <2>1, <2>2, <4>1 DEF Heard
      <4>2. CASE c # b
        BY <1>1, <2>1, <2>2, <4>2
      <4> QED BY <4>1, <4>2
    <3> QED BY <3>1 DEF ToldInv
  <2>3. CASE UNCHANGED <<wire, told>>
    BY <1>2, <2>1, <2>3
  <2>4. CASE online[b] /\ \E m \in Holdable :
                 /\ wire' = [wire EXCEPT ![Id(b)] = Append(@, m)]
                 /\ m.type \in {"signal", "leave-room"} => UNCHANGED told
                 /\ m.type = "peer-state-changed" => told' = [told EXCEPT ![b] = m.muted]
                 /\ m.type \in {"signal", "leave-room", "peer-state-changed"}
    <3>1. PICK m \in Holdable :
                 /\ wire' = [wire EXCEPT ![Id(b)] = Append(@, m)]
                 /\ m.type \in {"signal", "leave-room"} => UNCHANGED told
                 /\ m.type = "peer-state-changed" => told' = [told EXCEPT ![b] = m.muted]
                 /\ m.type \in {"signal", "leave-room", "peer-state-changed"}
      BY <2>4
    <3>2. Id(b) \in Sockets /\ m \in Sendable /\ m.type # "join-room"
      BY <1>a, <2>4 DEF Holdable
    <3>3. /\ wire'[Id(b)] = Append(wire[Id(b)], m)
          /\ \A r \in Sockets : r # Id(b) => wire'[r] = wire[r]
      BY <1>0, <3>1, <3>2
    <3>4. wire[Id(b)] \in Seq(Sendable) /\ Heard(b) /\ Id(b)' = Id(b)
      BY <1>0, <2>1, <3>2 DEF ToldInv, Id
    <3>5. Joins(wire'[Id(b)]) = Joins(wire[Id(b)])
      BY <3>2, <3>3, <3>4, JoinsAppend
    <3>6. Awaits(wire[Id(b)], Kept(b), told[b]) => Awaits(wire'[Id(b)], Kept(b)', told'[b])
      <4>1. CASE m.type = "peer-state-changed"
        <5>1. Sets(m) /\ SetTo(m) = m.muted /\ told'[b] = m.muted
          BY <2>1, <3>1, <4>1 DEF Sets, SetTo
        <5> QED BY <3>2, <3>3, <3>4, <5>1, AwaitsAppend
      <4>2. CASE m.type # "peer-state-changed"
        <5>1. ~Sets(m) /\ told' = told
          BY <3>1, <3>2, <4>2 DEF Sets
        <5>2. Kept(b)' = Kept(b)
          BY <2>1, <3>4, <5>1 DEF Kept
        <5> QED BY <3>2, <3>3, <3>4, <5>1, <5>2, AwaitsAppend
      <4> QED BY <4>1, <4>2
    <3>7. Heard(b)'
      BY <2>1, <3>4, <3>5, <3>6 DEF Heard
    <3>8. ASSUME NEW c \in Browsers \ {b} PROVE Heard(c)'
      BY <1>1, <1>a, <1>b, <2>1, <3>3
    <3> QED BY <3>7, <3>8 DEF ToldInv
  <2> QED BY <1>5, <2>2, <2>3, <2>4, SendFacts
<1>6. ASSUME NEW b \in Browsers, Receive(b) PROVE ToldInv'
  BY <1>2, <1>6, ReceiveFacts
<1>7. ASSUME NEW b \in Browsers, Reload(b) PROVE ToldInv'
  <2>1. online' = [online EXCEPT ![b] = FALSE] /\ UNCHANGED <<session, wire, told, room, unheard>>
    BY <1>7 DEF Reload, serverVars
  <2>2. \A c \in Browsers : online'[c] => online[c]
    BY <1>0, <2>1 DEF PageTyped
  <2> QED BY <1>2, <2>1, <2>2
<1>8. ASSUME NEW s \in Sockets, Serve(s) PROVE ToldInv'
  <2> DEFINE m == Head(wire[s])
  <2>1. /\ Members \ {s} \subseteq Members' /\ Members' \subseteq Members \union {s}
        /\ \A r \in Members \ {s} : room'[r] = room[r]
        /\ m.type = "join-room" => \/ s \in Members' /\ room'[s] = FALSE
                                   \/ Members' = Members /\ room' = room
        /\ m.type = "leave-room" => s \notin Members'
        /\ m.type = "signal" => Members' = Members /\ room' = room
        /\ m.type = "peer-state-changed" =>
             /\ Members' = Members
             /\ \/ (s \in Members => room'[s] = m.muted) /\ unheard' = unheard \ {s}
                \/ room' = room /\ unheard' = unheard \union {s}
        /\ m.type # "peer-state-changed" => unheard' = unheard
        /\ m.type \in {"join-room", "leave-room", "peer-state-changed", "signal"}
    BY <1>8, ServeRoom
  <2>2. wire[s] # <<>> /\ wire[s] \in Seq(Sendable) /\ wire' = [wire EXCEPT ![s] = Tail(@)]
        /\ UNCHANGED <<session, online, told>>
    BY <1>8, ServeFacts DEF pageVars
  <2>3. wire'[s] = Tail(wire[s]) /\ \A r \in Sockets : r # s => wire'[r] = wire[r]
    BY <1>0, <2>2
  <2>4. Together(wire[s]) /\ Fresh(s)
    BY DEF JoinsInv
  <2>5. /\ Joins(Tail(wire[s])) # {} => Joins(wire[s]) # {}
        /\ 1 \in Joins(wire[s]) <=> m.type = "join-room"
    BY <2>2, <2>4, JoinsTail
  <2> HIDE DEF m
  <2>6. ASSUME NEW b \in Browsers, online[b], Id(b) = s, s \in Members' \/ Joins(Tail(wire[s])) # {}
        PROVE  Awaits(Tail(wire[s]), Kept(b)', told[b])
    <3>0. Id(b)' = s
      BY <2>2, <2>6 DEF Id
    <3>1. s \in Members \/ Joins(wire[s]) # {} => Awaits(wire[s], Kept(b), told[b])
      BY <2>6 DEF ToldInv, Heard
    <3>2. CASE Joins(Tail(wire[s])) # {}
      <4>1. \E i \in 1..Len(Tail(wire[s])) : Sets(Tail(wire[s])[i])
        BY <3>2 DEF Joins, Sets
      <4> QED BY <2>2, <2>5, <3>1, <3>2, <4>1, AwaitsTail
    <3>3. CASE \E i \in 1..Len(Tail(wire[s])) : Sets(Tail(wire[s])[i])
      <4>1. Awaits(wire[s], Kept(b), told[b])
        BY <2>1, <2>5, <2>6, <3>1
      <4> QED BY <2>2, <3>3, <4>1, AwaitsTail
    <3>4. CASE /\ Joins(Tail(wire[s])) = {} /\ s \in Members'
               /\ ~ \E i \in 1..Len(Tail(wire[s])) : Sets(Tail(wire[s])[i])
      <4>1. Awaits(wire[s], Kept(b), told[b])
        BY <2>1, <2>5, <3>1, <3>4
      <4>2. (IF Sets(m) THEN SetTo(m) ELSE Kept(b)) = told[b]
        BY <2>2, <3>4, <4>1, AwaitsLast DEF m
      <4>3. Kept(b)' = told[b]
        <5>1. CASE s \in unheard'
          BY <2>2, <3>0, <5>1 DEF Kept
        <5>2. CASE s \notin unheard'
          <6>1. Kept(b)' = room'[s]
            BY <3>0, <5>2 DEF Kept
          <6>2. CASE m.type = "join-room"
            <7>1. room'[s] = FALSE
              BY <2>1, <2>4, <2>5, <3>4, <6>2 DEF Fresh
            <7> QED BY <4>2, <6>1, <6>2, <7>1 DEF Sets, SetTo
          <6>3. CASE m.type = "peer-state-changed"
            <7>1. room'[s] = m.muted
              BY <2>1, <3>4, <5>2, <6>3
            <7> QED BY <4>2, <6>1, <6>3, <7>1 DEF Sets, SetTo
          <6>4. CASE m.type \in {"leave-room", "signal"}
            <7>1. room'[s] = room[s] /\ s \notin unheard
              BY <2>1, <3>4, <5>2, <6>4
            <7>2. Kept(b) = room[s] /\ ~Sets(m)
              BY <2>6, <6>4, <7>1 DEF Kept, Sets
            <7> QED BY <4>2, <6>1, <7>1, <7>2
          <6> QED BY <2>1, <6>2, <6>3, <6>4
        <5> QED BY <5>1, <5>2
      <4> QED BY <2>2, <4>1, <4>2, <4>3, AwaitsTail DEF m
    <3> QED BY <2>6, <3>2, <3>3, <3>4
  <2>7. ASSUME NEW b \in Browsers PROVE Heard(b)'
    <3>0. Id(b)' = Id(b)
      BY <2>2 DEF Id
    <3>1. CASE Id(b) = s
      BY <2>2, <2>3, <2>6, <3>0, <3>1 DEF Heard
    <3>2. CASE Id(b) # s
      <4>1. Id(b) \in unheard' <=> Id(b) \in unheard
        BY <2>1, <3>2
      <4> QED BY <1>1, <1>a, <2>1, <2>2, <2>3, <3>2, <4>1
    <3> QED BY <3>1, <3>2
  <2> QED BY <2>7 DEF ToldInv
<1>9. ASSUME NEW s \in Sockets, ServeDisconnect(s) PROVE ToldInv'
  <2>1. UNCHANGED <<wire, session, online, told, unheard>> /\ HandleLeave(s) /\ s \in Connected /\ s \in broken
    BY <1>0, <1>9 DEF ServeDisconnect, PageTyped, pageVars, auxVars
  <2>2. Members' = Members \ {s} /\ \A t \in Members \ {s} : room'[t] = room[t]
    BY <2>1, LeavesFacts
  <2>3. ASSUME NEW b \in Browsers PROVE Heard(b)'
    <3>1. CASE online[b]
      BY <1>1, <1>a, <2>1, <2>2, <3>1
    <3>2. CASE ~online[b]
      BY <2>1, <3>2 DEF Heard
    <3> QED BY <3>1, <3>2
  <2> QED BY <2>3 DEF ToldInv
<1>10. CASE UNCHANGED vars
  BY <1>2, <1>10 DEF vars, pageVars, auxVars, serverVars
<1> QED BY <1>3, <1>4, <1>5, <1>6, <1>7, <1>8, <1>9, <1>10 DEF Next

-----------------------------------------------------------------------------
(* What the server's messages say. *)
Full == [type |-> "room-full"]

LEMMA UsersTell ==
  ASSUME NEW t
  PROVE  /\ Tells(Users, Finding, t) <=> t \in Members
         /\ Tells(Users, Showing, t) <=> t \in Members
         /\ Tells(Users, Saying, t) <=> t \in Members
         /\ ~Gone(Users, t) /\ Muted(Users, t) = room[t]
<1>1. Users.type = "room-users" /\ Users.members = room
  BY DEF Users
<1> QED BY <1>1 DEF Tells, About, Gone, Muted, Members, Finding, Showing, Saying

LEMMA FullTells ==
  ASSUME NEW t
  PROVE  /\ ~Tells(Full, Finding, t) /\ ~Tells(Full, Showing, t) /\ ~Tells(Full, Saying, t)
         /\ ~Gone(Full, t)
<1>1. Full.type = "room-full"
  BY DEF Full
<1> QED BY <1>1 DEF Tells, About, Gone, Finding, Showing, Saying

LEMMA JoinedTells ==
  ASSUME NEW s, NEW t
  PROVE  /\ Tells(Joined(s), Finding, t) <=> t = s
         /\ Tells(Joined(s), Showing, t) <=> t = s
         /\ Tells(Joined(s), Saying, t) <=> t = s
         /\ ~Gone(Joined(s), t) /\ Muted(Joined(s), t) = FALSE
<1>1. Joined(s).type = "user-joined" /\ Joined(s).id = s /\ Joined(s).muted = FALSE
  BY DEF Joined
<1> QED BY <1>1 DEF Tells, About, Gone, Muted, Finding, Showing, Saying

LEMMA LeftTells ==
  ASSUME NEW s, NEW t
  PROVE  /\ ~Tells(Left(s), Finding, t) /\ ~Tells(Left(s), Showing, t) /\ ~Tells(Left(s), Saying, t)
         /\ Gone(Left(s), t) <=> t = s
<1>1. Left(s).type = "user-left" /\ Left(s).id = s
  BY DEF Left
<1> QED BY <1>1 DEF Tells, About, Gone, Finding, Showing, Saying

LEMMA CallsTell ==
  ASSUME NEW s, NEW t
  PROVE  /\ Tells(Calls(s), Finding, t) <=> t = s
         /\ ~Tells(Calls(s), Showing, t) /\ ~Tells(Calls(s), Saying, t) /\ ~Gone(Calls(s), t)
<1>1. Calls(s).type = "signal" /\ Calls(s).id = s
  BY DEF Calls
<1> QED BY <1>1 DEF Tells, About, Gone, Finding, Showing, Saying

LEMMA SaysTell ==
  ASSUME NEW s, NEW t, NEW flag
  PROVE  /\ ~Tells(Says(s, flag), Finding, t) /\ ~Tells(Says(s, flag), Showing, t)
         /\ Tells(Says(s, flag), Saying, t) <=> t = s
         /\ ~Gone(Says(s, flag), t) /\ Muted(Says(s, flag), t) = flag
<1>1. /\ Says(s, flag).type = "peer-state-changed"
      /\ Says(s, flag).id = s /\ Says(s, flag).muted = flag
  BY DEF Says
<1> QED BY <1>1 DEF Tells, About, Gone, Muted, Finding, Showing, Saying

(* What the step of the server for s does to the room and to what waits    *)
(* for r.                                                                  *)
Served(s, r) ==
  \/ /\ Members' = Members /\ room' = room /\ channel' = channel
     /\ inbox'[r] = inbox[r] \/ (Full \in Sayable' /\ inbox'[r] = Append(inbox[r], Full))
  \/ /\ Members' = Members \union {s} /\ channel' = channel \union {s}
     /\ room'[s] = FALSE /\ \A t \in Members \ {s} : room'[t] = room[t]
     /\ Users \in Sayable' /\ Joined(s) \in Sayable'
     /\ inbox'[r] = IF r = s THEN Append(inbox[r], Users)
                    ELSE IF r \in channel THEN Append(inbox[r], Joined(s))
                    ELSE inbox[r]
  \/ /\ Members' = Members \ {s} /\ (r \in channel => r \in channel')
     /\ \A t \in Members \ {s} : room'[t] = room[t]
     /\ Left(s) \in Sayable'
     /\ inbox'[r] = IF s \in Members /\ r \in channel \ {s}
                    THEN Append(inbox[r], Left(s)) ELSE inbox[r]
  \/ /\ s \in Members /\ Members' = Members /\ channel' = channel
     /\ \A t \in Members \ {s} : room'[t] = room[t]
     /\ Says(s, room'[s]) \in Sayable'
     /\ inbox'[r] = IF r \in channel \ {s}
                    THEN Append(inbox[r], Says(s, room'[s])) ELSE inbox[r]
  \/ /\ Members' = Members /\ room' = room /\ channel' = channel
     /\ Calls(s) \in Sayable' /\ (s \notin Members => s \in outsiders')
     /\ inbox'[r] = inbox[r] \/ (r \in channel /\ inbox'[r] = Append(inbox[r], Calls(s)))

(* What a step of the server is for a page that listens, by what it does   *)
(* to the room.                                                            *)
LEMMA ServerCases ==
  ASSUME TypeInv, [Next]_vars, NEW s \in Sockets, Serve(s) \/ ServeDisconnect(s),
         NEW b \in Browsers, online[b]
  PROVE  LET r == Id(b)
         IN  /\ r \in Sockets /\ inbox[r] \in Seq(Sayable') /\ Id(b)' = r
             /\ outsiders \subseteq outsiders' /\ UNCHANGED <<online, peers, cards, stale>>
             /\ Served(s, r)
<1> DEFINE r == Id(b)
<1>0. /\ Connected \subseteq Connected' /\ (\A x : Met(x) => Met(x)') /\ Sayable \subseteq Sayable'
      /\ Seq(Sayable) \subseteq Seq(Sayable')
  BY WorldGrows, WiderSeq
<1>1. r \in Sockets /\ inbox[r] \in Seq(Sayable') /\ Listening(r) /\ r \notin broken
  <2>1. r \in Connected /\ r \in Sockets /\ r \notin broken /\ r[1] = b
    BY SocketFacts DEF TypeInv, PageTyped, Id
  <2>2. inbox[r] \in Seq(Sayable)
    BY <2>1 DEF TypeInv, InboxTyped
  <2> QED BY <1>0, <2>1, <2>2 DEF Listening
<1>2. UNCHANGED <<session, online, peers, cards, stale>> /\ outsiders \subseteq outsiders' /\ Id(b)' = r
  BY DEF Serve, ServeDisconnect, pageVars, auxVars, Id
<1> HIDE DEF r
<1>3. CASE ServeDisconnect(s)
  <2>1. s \in Connected /\ s \in broken /\ HandleLeave(s) /\ channel' = channel \ {s}
    BY <1>3 DEF ServeDisconnect, TypeInv, PageTyped
  <2>2. r # s
    BY <1>1, <2>1
  <2>3. /\ Members' = Members \ {s} /\ (\A t \in Members \ {s} : room'[t] = room[t])
        /\ Left(s) \in Sayable'
        /\ inbox'[r] = IF s \in Members /\ r \in channel \ {s} /\ Listening(r)
                       THEN Append(inbox[r], Left(s)) ELSE inbox[r]
    BY <1>0, <1>1, <2>1, LeavesFacts
  <2> QED BY <1>1, <1>2, <2>1, <2>2, <2>3 DEF r, Served
<1>4. CASE Serve(s)
  <2> DEFINE m == Head(wire[s])
  <2>1. /\ s \in Connected /\ m \in Sendable
        /\ \/ m.type = "join-room" /\ JoinRoom(s)
           \/ m.type = "leave-room" /\ HandleLeave(s) /\ UNCHANGED channel
           \/ /\ m.type = "signal" /\ m.target \in Sockets
              /\ Push({m.target}, [type |-> "signal", id |-> s])
              /\ UNCHANGED <<room, channel>>
           \/ m.type = "peer-state-changed" /\ m.muted \in BOOLEAN /\ PeerStateChanged(s, m.muted)
           \/ Untouched
        /\ outsiders' = IF m.type = "signal" /\ s \notin Members
                        THEN outsiders \union {s} ELSE outsiders
        /\ UNCHANGED <<session, online>>
    BY <1>4, ServeFacts DEF pageVars
  <2> HIDE DEF m
  <2>2. CASE JoinRoom(s) /\ Cardinality(Members) >= RoomSize
    <3>1. /\ UNCHANGED <<room, channel>>
          /\ inbox'[r] = IF r = s /\ Listening(r) THEN Append(inbox[r], Full) ELSE inbox[r]
      BY <1>1, <2>2, RefusedFacts DEF Full
    <3>2. Full \in Sayable'
      <4>1. Full \in Sayable
        BY ToBrowserMessages, NamesFacts DEF Sayable, Showing, Full
      <4> QED BY <1>0, <4>1
    <3>3. Members' = Members
      BY <3>1 DEF Members
    <3> QED BY <1>1, <1>2, <3>1, <3>2, <3>3 DEF r, Served
  <2>3. CASE JoinRoom(s) /\ ~(Cardinality(Members) >= RoomSize)
    <3>1. /\ Members' = Members \union {s} /\ channel' = channel \union {s}
          /\ room'[s] = FALSE /\ \A t \in Members \ {s} : room'[t] = room[t]
          /\ Users \in Sayable' /\ Joined(s) \in Sayable'
          /\ inbox'[r] = IF ~Listening(r) THEN inbox[r]
                         ELSE IF r = s THEN Append(inbox[r], Users)
                         ELSE IF r \in channel THEN Append(inbox[r], Joined(s))
                         ELSE inbox[r]
      BY <1>0, <1>1, <2>1, <2>3, EntersFacts
    <3> QED BY <1>1, <1>2, <3>1 DEF r, Served
  <2>4. CASE HandleLeave(s) /\ UNCHANGED channel
    <3>1. /\ Members' = Members \ {s} /\ (\A t \in Members \ {s} : room'[t] = room[t])
          /\ Left(s) \in Sayable'
          /\ inbox'[r] = IF s \in Members /\ r \in channel \ {s} /\ Listening(r)
                         THEN Append(inbox[r], Left(s)) ELSE inbox[r]
      BY <1>0, <1>1, <2>1, <2>4, LeavesFacts
    <3> QED BY <1>1, <1>2, <2>4, <3>1 DEF r, Served
  <2>5. CASE /\ m.type = "signal" /\ m.target \in Sockets
             /\ Push({m.target}, [type |-> "signal", id |-> s])
             /\ UNCHANGED <<room, channel>>
    <3>1. Push({m.target}, Calls(s)) /\ Members' = Members /\ Met(m.target)
      BY <2>1, <2>5 DEF Calls, Members, Sendable
    <3>2. /\ Calls(s) \in Sayable'
          /\ inbox'[r] = IF r = m.target /\ Listening(r) THEN Append(inbox[r], Calls(s)) ELSE inbox[r]
      BY <1>0, <1>1, <2>1, <3>1, CallsFacts
    <3>3. r = m.target => r \in channel
      BY <1>1, <3>1 DEF Met
    <3>4. s \notin Members => s \in outsiders'
      BY <2>1, <2>5
    <3> QED BY <1>1, <1>2, <2>5, <3>1, <3>2, <3>3, <3>4 DEF r, Served
  <2>6. CASE m.muted \in BOOLEAN /\ PeerStateChanged(s, m.muted)
    <3>1. /\ Members' = Members /\ channel' = channel
          /\ s \in Members => room'[s] = m.muted
          /\ \A t \in Members \ {s} : room'[t] = room[t]
          /\ Says(s, m.muted) \in Sayable'
          /\ inbox'[r] = IF s \in Members /\ r \in channel \ {s} /\ Listening(r)
                         THEN Append(inbox[r], Says(s, m.muted)) ELSE inbox[r]
      BY <1>0, <1>1, <2>1, <2>6, SaysFacts
    <3>2. CASE s \in Members
      <4>1. Says(s, room'[s]) = Says(s, m.muted)
        BY <3>1, <3>2
      <4> QED BY <1>1, <1>2, <3>1, <3>2, <4>1 DEF r, Served
    <3>3. CASE s \notin Members
      <4>1. room' = room
        BY <2>6, <3>3 DEF PeerStateChanged, serverVars
      <4> QED BY <1>1, <1>2, <3>1, <3>3, <4>1 DEF r, Served
    <3> QED BY <3>2, <3>3
  <2>7. CASE Untouched
    <3>1. UNCHANGED <<room, channel, inbox>> /\ Members' = Members
      BY <2>7 DEF Untouched, Members
    <3> QED BY <1>1, <1>2, <3>1 DEF r, Served
  <2> QED BY <2>1, <2>2, <2>3, <2>4, <2>5, <2>6, <2>7
<1> QED BY <1>3, <1>4

-----------------------------------------------------------------------------
(***************************************************************************)
(* The pages and the room.  For a page that is in the room and not about   *)
(* to leave it: once it has read what is waiting, it knows every member;   *)
(* its cards show every member, each as the map has it.  For a page that   *)
(* has not lost a connection: whoever it will know is a member, or called  *)
(* from outside.                                                           *)
(***************************************************************************)
Finds(b) ==
  online[b] /\ Id(b) \in Members /\ Leaves(wire[Id(b)]) = {}
    => \A t \in Members \ {Id(b)} : Will(inbox[Id(b)], Finding, t, peers[b])
KnowInv == \A b \in Browsers : Finds(b)

Explained(b) ==
  ~stale[b] =>
    /\ ~online[b] => peers[b] = {}
    /\ online[b] => \A t \in Sockets \ {Id(b)} :
         t \notin outsiders /\ Will(inbox[Id(b)], Finding, t, peers[b])
           => t \in Members /\ Id(b) \in channel
GhostInv == \A b \in Browsers : Explained(b)

Pictured(b) ==
  online[b] /\ Id(b) \in Members =>
    \A t \in Members \ {Id(b)} :
      /\ Will(inbox[Id(b)], Showing, t, DOMAIN cards[b])
      /\ Latest(inbox[Id(b)], t, cards[b][t], room[t])
CardInv == \A b \in Browsers : Pictured(b)

LEMMA LeavesAppend ==
  ASSUME NEW S, NEW w \in Seq(S), NEW e \in S
  PROVE  /\ Leaves(Append(w, e)) = {} => Leaves(w) = {}
         /\ e.type = "leave-room" => Leaves(Append(w, e)) # {}
<1> DEFINE n == Len(w)
           r == Append(w, e)
<1>1. n \in Nat /\ Len(r) = n + 1 /\ r[n + 1] = e /\ \A j \in 1..n : r[j] = w[j]
  BY AppendFacts
<1> HIDE DEF n, r
<1>2. \A j \in 1..n : j \in 1..(n + 1)
  BY <1>1
<1>3. n + 1 \in 1..(n + 1)
  BY <1>1
<1>4. Leaves(w) \subseteq Leaves(r)
  BY <1>1, <1>2 DEF Leaves, n
<1>5. e.type = "leave-room" => n + 1 \in Leaves(r)
  BY <1>1, <1>3 DEF Leaves
<1> QED BY <1>4, <1>5 DEF r

LEMMA LeavesTail ==
  ASSUME NEW S, NEW w \in Seq(S), w # <<>>, Leaves(Tail(w)) = {}, Head(w).type # "leave-room"
  PROVE  Leaves(w) = {}
<1> DEFINE n == Len(w) - 1
           r == Tail(w)
<1>1. n \in Nat /\ Len(w) = n + 1 /\ Len(r) = n /\ Head(w) = w[1] /\ \A j \in 1..n : r[j] = w[j + 1]
  BY TailFacts
<1> HIDE DEF n, r
<1>2. SUFFICES ASSUME NEW i \in 1..(n + 1), w[i].type = "leave-room" PROVE FALSE
  BY <1>1 DEF Leaves
<1>3. CASE i = 1
  BY <1>1, <1>2, <1>3
<1>4. CASE i # 1
  <2>1. i - 1 \in 1..n /\ r[i - 1] = w[i]
    BY <1>1, <1>4
  <2>2. i - 1 \in Leaves(r)
    BY <1>1, <1>2, <2>1 DEF Leaves
  <2> QED BY <2>2 DEF r
<1> QED BY <1>3, <1>4

(* What leaves a page, its place and its messages alone. *)
LEMMA Same ==
  ASSUME NEW c \in Browsers, UNCHANGED <<room, channel, outsiders>>,
         session'[c] = session[c], online'[c] = online[c], stale'[c] = stale[c],
         peers'[c] = peers[c], cards'[c] = cards[c],
         online[c] => /\ inbox'[Id(c)] = inbox[Id(c)]
                      /\ Leaves(wire'[Id(c)]) = {} => Leaves(wire[Id(c)]) = {}
  PROVE  /\ Finds(c) => Finds(c)'
         /\ Explained(c) => Explained(c)'
         /\ Pictured(c) => Pictured(c)'
<1>1. Id(c)' = Id(c) /\ Members' = Members
  BY DEF Id, Members
<1>2. CASE online[c]
  <2>1. inbox'[Id(c)] = inbox[Id(c)]
    BY <1>2
  <2>2. Finds(c) => Finds(c)'
    BY <1>1, <1>2, <2>1 DEF Finds
  <2>3. Explained(c) => Explained(c)'
    BY <1>1, <1>2, <2>1 DEF Explained
  <2>4. Pictured(c) => Pictured(c)'
    BY <1>1, <1>2, <2>1 DEF Pictured
  <2> QED BY <2>2, <2>3, <2>4
<1>3. CASE ~online[c]
  BY <1>1, <1>3 DEF Finds, Explained, Pictured
<1> QED BY <1>2, <1>3

LEMMA TypesFacts == "user-left" \notin Finding /\ "user-left" \notin Showing
                    /\ Finding # Showing /\ Showing \subseteq Saying
BY DEF Finding, Showing, Saying

(* A step of the server. *)
LEMMA ServerKnow ==
  ASSUME TypeInv, [Next]_vars, NEW s \in Sockets, Serve(s) \/ ServeDisconnect(s), KnowInv
  PROVE  KnowInv'
<1> SUFFICES ASSUME NEW b \in Browsers, online'[b], Id(b)' \in Members', Leaves(wire'[Id(b)']) = {},
                    NEW t \in Members' \ {Id(b)'}
             PROVE  Will(inbox'[Id(b)'], Finding, t, peers'[b])
  BY DEF KnowInv, Finds
<1>0. UNCHANGED <<online, session, peers>> /\ Id(b)' = Id(b)
  BY DEF Serve, ServeDisconnect, pageVars, Id
<1>1. PICK r \in Sockets : r = Id(b)
  BY <1>0, SocketFacts DEF TypeInv, PageTyped
<1>2. r \in Members' /\ t \in Members' /\ t # r /\ online[b] /\ Leaves(wire'[r]) = {}
  BY <1>0, <1>1
<1>3. Leaves(wire[r]) = {}
  <2>1. CASE Serve(s)
    <3>1. wire[s] # <<>> /\ wire[s] \in Seq(Sendable) /\ wire' = [wire EXCEPT ![s] = Tail(@)]
      BY <2>1, ServeFacts
    <3>2. CASE s = r
      <4>1. wire'[r] = Tail(wire[r])
        BY <3>1, <3>2 DEF TypeInv, WireTyped
      <4>2. Head(wire[r]).type # "leave-room"
        BY <1>2, <2>1, <3>2, ServeRoom
      <4> QED BY <1>2, <3>1, <3>2, <4>1, <4>2, LeavesTail
    <3>3. CASE s # r
      <4>1. wire'[r] = wire[r]
        BY <3>1, <3>3 DEF TypeInv, WireTyped
      <4> QED BY <1>2, <4>1
    <3> QED BY <3>2, <3>3
  <2>2. CASE ServeDisconnect(s)
    BY <1>2, <2>2 DEF ServeDisconnect
  <2> QED BY <2>1, <2>2
<1>4. r \in Members /\ t \in Members => Will(inbox[r], Finding, t, peers[b])
  BY <1>1, <1>2, <1>3 DEF KnowInv, Finds
<1>5. Members \subseteq channel
  BY DEF TypeInv, RoomTyped
<1>6. inbox[r] \in Seq(Sayable')
  BY <1>1, <1>2, ServerCases
<1>8. Served(s, r)
  BY <1>1, <1>2, ServerCases
<1>7. Will(inbox'[r], Finding, t, peers[b])
  <2>1. CASE /\ Members' = Members
             /\ inbox'[r] = inbox[r] \/ (Full \in Sayable' /\ inbox'[r] = Append(inbox[r], Full))
    <3>1. ~Gone(Full, t) /\ Will(inbox[r], Finding, t, peers[b])
      BY <1>2, <1>4, <2>1, FullTells
    <3> QED BY <1>6, <2>1, <3>1, WillAppend, TypesFacts
  <2>2. CASE /\ Members' = Members \union {s} /\ Users \in Sayable' /\ Joined(s) \in Sayable'
             /\ inbox'[r] = IF r = s THEN Append(inbox[r], Users)
                            ELSE IF r \in channel THEN Append(inbox[r], Joined(s))
                            ELSE inbox[r]
    <3>1. CASE r = s
      <4>1. Tells(Users, Finding, t)
        BY <1>2, <2>2, <3>1, UsersTell
      <4> QED BY <1>6, <2>2, <3>1, <4>1, WillAppend, TypesFacts
    <3>2. CASE r # s
      <4>1. r \in Members /\ inbox'[r] = Append(inbox[r], Joined(s))
        BY <1>2, <1>5, <2>2, <3>2
      <4>2. CASE t = s
        <5>1. Tells(Joined(s), Finding, t)
          BY <4>2, JoinedTells
        <5> QED BY <1>6, <2>2, <4>1, <5>1, WillAppend, TypesFacts
      <4>3. CASE t # s
        <5>1. ~Gone(Joined(s), t) /\ Will(inbox[r], Finding, t, peers[b])
          BY <1>2, <1>4, <2>2, <4>1, <4>3, JoinedTells
        <5> QED BY <1>6, <2>2, <4>1, <5>1, WillAppend, TypesFacts
      <4> QED BY <4>2, <4>3
    <3> QED BY <3>1, <3>2
  <2>3. CASE /\ Members' = Members \ {s} /\ Left(s) \in Sayable'
             /\ inbox'[r] = IF s \in Members /\ r \in channel \ {s}
                            THEN Append(inbox[r], Left(s)) ELSE inbox[r]
    <3>1. ~Gone(Left(s), t) /\ Will(inbox[r], Finding, t, peers[b])
      BY <1>2, <1>4, <2>3, LeftTells
    <3> QED BY <1>6, <2>3, <3>1, WillAppend, TypesFacts
  <2>4. CASE /\ Members' = Members /\ Says(s, room'[s]) \in Sayable'
             /\ inbox'[r] = IF r \in channel \ {s}
                            THEN Append(inbox[r], Says(s, room'[s])) ELSE inbox[r]
    <3>1. ~Gone(Says(s, room'[s]), t) /\ Will(inbox[r], Finding, t, peers[b])
      BY <1>2, <1>4, <2>4, SaysTell
    <3> QED BY <1>6, <2>4, <3>1, WillAppend, TypesFacts
  <2>5. CASE /\ Members' = Members /\ Calls(s) \in Sayable'
             /\ inbox'[r] = inbox[r] \/ (r \in channel /\ inbox'[r] = Append(inbox[r], Calls(s)))
    <3>1. ~Gone(Calls(s), t) /\ Will(inbox[r], Finding, t, peers[b])
      BY <1>2, <1>4, <2>5, CallsTell
    <3> QED BY <1>6, <2>5, <3>1, WillAppend, TypesFacts
  <2> QED BY <1>8, <2>1, <2>2, <2>3, <2>4, <2>5 DEF Served
<1> QED BY <1>0, <1>1, <1>7

LEMMA ServerGhosts ==
  ASSUME TypeInv, [Next]_vars, NEW s \in Sockets, Serve(s) \/ ServeDisconnect(s), GhostInv
  PROVE  GhostInv'
<1>0. /\ UNCHANGED <<online, session, peers, stale>> /\ outsiders \subseteq outsiders'
      /\ \A b \in Browsers : Id(b)' = Id(b)
  BY DEF Serve, ServeDisconnect, pageVars, auxVars, Id
<1> SUFFICES ASSUME NEW b \in Browsers, ~stale[b], online[b],
                    NEW t \in Sockets \ {Id(b)}, t \notin outsiders',
                    Will(inbox'[Id(b)], Finding, t, peers[b])
             PROVE  t \in Members' /\ Id(b) \in channel'
  BY <1>0 DEF GhostInv, Explained
<1>1. PICK r \in Sockets : r = Id(b)
  BY SocketFacts DEF TypeInv, PageTyped
<1>2. t # r /\ t \notin outsiders /\ Will(inbox'[r], Finding, t, peers[b])
  BY <1>0, <1>1
<1>3. Will(inbox[r], Finding, t, peers[b]) => t \in Members /\ r \in channel
  BY <1>1, <1>2 DEF GhostInv, Explained
<1>4. inbox[r] \in Seq(Sayable')
  BY <1>1, ServerCases
<1>8. Served(s, r)
  BY <1>1, ServerCases
<1>5. t \in Members' /\ r \in channel'
  <2>1. CASE /\ Members' = Members /\ channel' = channel
             /\ inbox'[r] = inbox[r] \/ (Full \in Sayable' /\ inbox'[r] = Append(inbox[r], Full))
    <3>1. Will(inbox[r], Finding, t, peers[b])
      BY <1>2, <1>4, <2>1, WillAppend, FullTells, TypesFacts
    <3> QED BY <1>3, <2>1, <3>1
  <2>2. CASE /\ Members' = Members \union {s} /\ channel' = channel \union {s}
             /\ Users \in Sayable' /\ Joined(s) \in Sayable'
             /\ inbox'[r] = IF r = s THEN Append(inbox[r], Users)
                            ELSE IF r \in channel THEN Append(inbox[r], Joined(s))
                            ELSE inbox[r]
    <3>1. CASE r = s
      <4>1. CASE t \in Members
        BY <2>2, <3>1, <4>1
      <4>2. CASE t \notin Members
        <5>1. ~Tells(Users, Finding, t)
          BY <4>2, UsersTell
        <5>2. Will(inbox[r], Finding, t, peers[b])
          BY <1>2, <1>4, <2>2, <3>1, <5>1, WillAppend, TypesFacts
        <5> QED BY <1>3, <2>2, <5>2
      <4> QED BY <4>1, <4>2
    <3>2. CASE r # s /\ r \in channel
      <4>1. CASE t = s
        BY <2>2, <3>2, <4>1
      <4>2. CASE t # s
        <5>1. ~Tells(Joined(s), Finding, t)
          BY <4>2, JoinedTells
        <5>2. Will(inbox[r], Finding, t, peers[b])
          BY <1>2, <1>4, <2>2, <3>2, <5>1, WillAppend, TypesFacts
        <5> QED BY <1>3, <2>2, <5>2
      <4> QED BY <4>1, <4>2
    <3>3. CASE r # s /\ r \notin channel
      BY <1>2, <1>3, <2>2, <3>3
    <3> QED BY <3>1, <3>2, <3>3
  <2>3. CASE /\ Members' = Members \ {s} /\ (r \in channel => r \in channel')
             /\ Left(s) \in Sayable'
             /\ inbox'[r] = IF s \in Members /\ r \in channel \ {s}
                            THEN Append(inbox[r], Left(s)) ELSE inbox[r]
    <3>1. CASE t = s
      <4>1. r # s
        BY <1>2, <3>1
      <4>2. CASE s \in Members /\ r \in channel
        <5>1. Gone(Left(s), t) /\ inbox'[r] = Append(inbox[r], Left(s))
          BY <2>3, <3>1, <4>1, <4>2, LeftTells
        <5> QED BY <1>2, <1>4, <2>3, <5>1, WillAppend, TypesFacts
      <4>3. CASE ~(s \in Members /\ r \in channel)
        <5>1. inbox'[r] = inbox[r]
          BY <2>3, <4>3
        <5> QED BY <1>2, <1>3, <3>1, <4>3, <5>1
      <4> QED BY <4>2, <4>3
    <3>2. CASE t # s
      <4>1. ~Tells(Left(s), Finding, t)
        BY LeftTells
      <4>2. Will(inbox[r], Finding, t, peers[b])
        BY <1>2, <1>4, <2>3, <4>1, WillAppend, TypesFacts
      <4> QED BY <1>3, <2>3, <3>2, <4>2
    <3> QED BY <3>1, <3>2
  <2>4. CASE /\ Members' = Members /\ channel' = channel /\ Says(s, room'[s]) \in Sayable'
             /\ inbox'[r] = IF r \in channel \ {s}
                            THEN Append(inbox[r], Says(s, room'[s])) ELSE inbox[r]
    <3>1. ~Tells(Says(s, room'[s]), Finding, t)
      BY SaysTell
    <3>2. Will(inbox[r], Finding, t, peers[b])
      BY <1>2, <1>4, <2>4, <3>1, WillAppend, TypesFacts
    <3> QED BY <1>3, <2>4, <3>2
  <2>5. CASE /\ Members' = Members /\ channel' = channel
             /\ Calls(s) \in Sayable' /\ (s \notin Members => s \in outsiders')
             /\ inbox'[r] = inbox[r] \/ (r \in channel /\ inbox'[r] = Append(inbox[r], Calls(s)))
    <3>1. CASE t = s /\ inbox'[r] # inbox[r]
      BY <2>5, <3>1
    <3>2. CASE t # s
      <4>1. ~Tells(Calls(s), Finding, t)
        BY <3>2, CallsTell
      <4>2. Will(inbox[r], Finding, t, peers[b])
        BY <1>2, <1>4, <2>5, <4>1, WillAppend, TypesFacts
      <4> QED BY <1>3, <2>5, <4>2
    <3>3. CASE inbox'[r] = inbox[r]
      BY <1>2, <1>3, <2>5, <3>3
    <3> QED BY <3>1, <3>2, <3>3
  <2> QED BY <1>8, <2>1, <2>2, <2>3, <2>4, <2>5 DEF Served
<1> QED BY <1>1, <1>5

LEMMA ServerCards ==
  ASSUME TypeInv, [Next]_vars, NEW s \in Sockets, Serve(s) \/ ServeDisconnect(s), CardInv
  PROVE  CardInv'
<1>0. UNCHANGED <<online, session, cards>> /\ \A b \in Browsers : Id(b)' = Id(b)
  BY DEF Serve, ServeDisconnect, pageVars, Id
<1> SUFFICES ASSUME NEW b \in Browsers, online[b], Id(b) \in Members', NEW t \in Members' \ {Id(b)}
             PROVE  /\ Will(inbox'[Id(b)], Showing, t, DOMAIN cards[b])
                    /\ Latest(inbox'[Id(b)], t, cards[b][t], room'[t])
  BY <1>0 DEF CardInv, Pictured
<1>1. PICK r \in Sockets : r = Id(b)
  BY SocketFacts DEF TypeInv, PageTyped
<1>2. r \in Members' /\ t \in Members' /\ t # r
  BY <1>1
<1>3. PICK known, now : known = DOMAIN cards[b] /\ now = cards[b][t]
  OBVIOUS
<1>4. r \in Members /\ t \in Members =>
        Will(inbox[r], Showing, t, known) /\ Latest(inbox[r], t, now, room[t])
  BY <1>1, <1>2, <1>3 DEF CardInv, Pictured
<1>5. Members \subseteq channel
  BY DEF TypeInv, RoomTyped
<1>6. inbox[r] \in Seq(Sayable')
  BY <1>1, ServerCases
<1>a. ASSUME NEW e \in Sayable', ~Gone(e, t), ~Tells(e, Saying, t), room'[t] = room[t],
             r \in Members, t \in Members
      PROVE  Will(Append(inbox[r], e), Showing, t, known) /\ Latest(Append(inbox[r], e), t, now, room'[t])
  <2>1. Will(Append(inbox[r], e), Showing, t, known)
    BY <1>4, <1>6, <1>a, WillAppend, TypesFacts
  <2>2. Latest(Append(inbox[r], e), t, now, room'[t])
    BY <1>4, <1>6, <1>a, LatestAppend
  <2> QED BY <2>1, <2>2
<1>b. ASSUME NEW e \in Sayable', Tells(e, Showing, t), Tells(e, Saying, t), Muted(e, t) = room'[t]
      PROVE  Will(Append(inbox[r], e), Showing, t, known) /\ Latest(Append(inbox[r], e), t, now, room'[t])
  <2>1. Will(Append(inbox[r], e), Showing, t, known)
    BY <1>6, <1>b, WillAppend, TypesFacts
  <2>2. Latest(Append(inbox[r], e), t, now, room'[t])
    BY <1>6, <1>b, LatestAppend
  <2> QED BY <2>1, <2>2
<1>8. Served(s, r)
  BY <1>1, ServerCases
<1>7. Will(inbox'[r], Showing, t, known) /\ Latest(inbox'[r], t, now, room'[t])
  <2>1. CASE /\ Members' = Members /\ room' = room
             /\ inbox'[r] = inbox[r] \/ (Full \in Sayable' /\ inbox'[r] = Append(inbox[r], Full))
    BY <1>2, <1>4, <1>a, <2>1, FullTells
  <2>2. CASE /\ Members' = Members \union {s} /\ room'[s] = FALSE
             /\ \A x \in Members \ {s} : room'[x] = room[x]
             /\ Users \in Sayable' /\ Joined(s) \in Sayable'
             /\ inbox'[r] = IF r = s THEN Append(inbox[r], Users)
                            ELSE IF r \in channel THEN Append(inbox[r], Joined(s))
                            ELSE inbox[r]
    <3>1. CASE r = s
      <4>1. t \in Members /\ room'[t] = room[t]
        BY <1>2, <2>2, <3>1
      <4>2. Tells(Users, Showing, t) /\ Tells(Users, Saying, t) /\ Muted(Users, t) = room'[t]
        BY <4>1, UsersTell
      <4> QED BY <1>b, <2>2, <3>1, <4>2
    <3>2. CASE r # s
      <4>1. r \in Members /\ inbox'[r] = Append(inbox[r], Joined(s))
        BY <1>2, <1>5, <2>2, <3>2
      <4>2. CASE t = s
        <5>1. Tells(Joined(s), Showing, t) /\ Tells(Joined(s), Saying, t) /\ Muted(Joined(s), t) = room'[t]
          BY <2>2, <4>2, JoinedTells
        <5> QED BY <1>b, <2>2, <4>1, <5>1
      <4>3. CASE t # s
        <5>1. ~Gone(Joined(s), t) /\ ~Tells(Joined(s), Saying, t) /\ t \in Members /\ room'[t] = room[t]
          BY <1>2, <2>2, <4>3, JoinedTells
        <5> QED BY <1>a, <2>2, <4>1, <5>1
      <4> QED BY <4>2, <4>3
    <3> QED BY <3>1, <3>2
  <2>3. CASE /\ Members' = Members \ {s} /\ Left(s) \in Sayable'
             /\ \A x \in Members \ {s} : room'[x] = room[x]
             /\ inbox'[r] = IF s \in Members /\ r \in channel \ {s}
                            THEN Append(inbox[r], Left(s)) ELSE inbox[r]
    <3>1. /\ ~Gone(Left(s), t) /\ ~Tells(Left(s), Saying, t)
          /\ t \in Members /\ r \in Members /\ room'[t] = room[t]
      BY <1>2, <2>3, LeftTells
    <3> QED BY <1>4, <1>a, <2>3, <3>1
  <2>4. CASE /\ Members' = Members /\ Says(s, room'[s]) \in Sayable'
             /\ \A x \in Members \ {s} : room'[x] = room[x]
             /\ inbox'[r] = IF r \in channel \ {s}
                            THEN Append(inbox[r], Says(s, room'[s])) ELSE inbox[r]
    <3>1. CASE t = s
      <4>1. inbox'[r] = Append(inbox[r], Says(s, room'[s])) /\ r \in Members /\ t \in Members
        BY <1>2, <1>5, <2>4, <3>1
      <4>2. /\ ~Gone(Says(s, room'[s]), t) /\ Tells(Says(s, room'[s]), Saying, t)
            /\ Muted(Says(s, room'[s]), t) = room'[t]
        BY <3>1, SaysTell
      <4>3. Will(inbox'[r], Showing, t, known)
        BY <1>4, <1>6, <2>4, <4>1, <4>2, WillAppend, TypesFacts
      <4>4. Latest(inbox'[r], t, now, room'[t])
        BY <1>6, <2>4, <4>1, <4>2, LatestAppend
      <4> QED BY <4>3, <4>4
    <3>2. CASE t # s
      <4>1. /\ ~Gone(Says(s, room'[s]), t) /\ ~Tells(Says(s, room'[s]), Saying, t)
            /\ t \in Members /\ r \in Members /\ room'[t] = room[t]
        BY <1>2, <2>4, <3>2, SaysTell
      <4> QED BY <1>4, <1>a, <2>4, <4>1
    <3> QED BY <3>1, <3>2
  <2>5. CASE /\ Members' = Members /\ room' = room /\ Calls(s) \in Sayable'
             /\ inbox'[r] = inbox[r] \/ (r \in channel /\ inbox'[r] = Append(inbox[r], Calls(s)))
    <3>1. ~Gone(Calls(s), t) /\ ~Tells(Calls(s), Saying, t)
      BY CallsTell
    <3> QED BY <1>2, <1>4, <1>a, <2>5, <3>1
  <2> QED BY <1>8, <2>1, <2>2, <2>3, <2>4, <2>5 DEF Served
<1> QED BY <1>1, <1>3, <1>7

-----------------------------------------------------------------------------
(* A step of a page is nothing to the others. *)
LEMMA Others ==
  ASSUME TypeInv, NEW b \in Browsers,
         Connect(b) \/ Disconnect(b) \/ Receive(b) \/ SendOffer(b)
           \/ ToggleMic(b) \/ LeaveCall(b) \/ Reload(b),
         NEW c \in Browsers \ {b}
  PROVE  /\ Finds(c) => Finds(c)'
         /\ Explained(c) => Explained(c)'
         /\ Pictured(c) => Pictured(c)'
<1>1. /\ session \in [Browsers -> 0 .. MaxSessions] /\ online \in [Browsers -> BOOLEAN]
      /\ stale \in [Browsers -> BOOLEAN] /\ peers \in [Browsers -> SUBSET Connected]
      /\ cards \in [Browsers -> Shows] /\ inbox \in [Sockets -> Seq(Sayable)]
      /\ wire \in [Sockets -> Seq(Sendable)]
  BY DEF TypeInv, PageTyped, PeersTyped, InboxTyped, WireTyped
<1>2. online[c] => Id(c) \in Sockets /\ Id(c) # Id(b) /\ Id(c)[1] = c
  BY SocketFacts DEF TypeInv, PageTyped, Id
<1>3. CASE Connect(b)
  <2>1. PICK s \in Sockets : s = <<b, session[b] + 1>>
    BY <1>3, ConnectFacts
  <2>2. /\ Id(c) # s /\ online'[c] = online[c]
        /\ \E w \in Seq(Sendable) : wire' = [wire EXCEPT ![s] = w]
        /\ UNCHANGED <<room, channel, inbox, peers, cards, stale, outsiders>>
    BY <1>3, <2>1, ConnectFacts
  <2>3. online[c] => wire'[Id(c)] = wire[Id(c)]
    BY <1>1, <1>2, <2>2
  <2>4. session'[c] = session[c]
    BY <1>1, <1>3 DEF Connect
  <2> QED BY <2>2, <2>3, <2>4, Same
<1>4. CASE Disconnect(b)
  <2>1. /\ online' = [online EXCEPT ![b] = FALSE] /\ stale' = [stale EXCEPT ![b] = TRUE]
        /\ \E n \in 0 .. Len(wire[Id(b)]) : wire' = [wire EXCEPT ![Id(b)] = SubSeq(wire[Id(b)], 1, n)]
        /\ inbox' = [inbox EXCEPT ![Id(b)] = <<>>]
        /\ UNCHANGED <<session, room, channel, peers, cards, outsiders>>
    BY <1>4 DEF Disconnect, serverVars
  <2>2. online[c] => wire'[Id(c)] = wire[Id(c)] /\ inbox'[Id(c)] = inbox[Id(c)]
    BY <1>1, <1>2, <2>1
  <2>3. online'[c] = online[c] /\ stale'[c] = stale[c]
    BY <1>1, <2>1
  <2> QED BY <2>1, <2>2, <2>3, Same
<1>5. CASE Receive(b)
  <2>1. /\ inbox' = [inbox EXCEPT ![Id(b)] = Tail(@)]
        /\ UNCHANGED <<session, online, room, channel, stale, outsiders, wire>>
        /\ peers' = [peers EXCEPT ![b] = Known(b, Head(inbox[Id(b)]))]
        /\ cards'[c] = cards[c]
    BY <1>5, ReceiveFacts
  <2>2. online[c] => inbox'[Id(c)] = inbox[Id(c)]
    BY <1>1, <1>2, <2>1
  <2>3. peers'[c] = peers[c]
    BY <1>1, <2>1
  <2> QED BY <2>1, <2>2, <2>3, Same
<1>6. CASE SendOffer(b) \/ ToggleMic(b) \/ LeaveCall(b)
  <2>1. UNCHANGED <<session, online, room, channel, stale, outsiders, inbox, cards>>
    BY <1>6 DEF SendOffer, ToggleMic, LeaveCall, serverVars, auxVars
  <2>2. peers'[c] = peers[c]
    BY <1>1, <1>6 DEF SendOffer, ToggleMic, LeaveCall
  <2>3. online[c] => wire'[Id(c)] = wire[Id(c)]
    <3>1. CASE wire' = wire
      BY <3>1
    <3>2. CASE \E m \in Holdable : wire' = [wire EXCEPT ![Id(b)] = Append(@, m)]
      BY <1>1, <1>2, <3>2
    <3> QED BY <1>6, <3>1, <3>2, SendFacts
  <2> QED BY <2>1, <2>2, <2>3, Same
<1>7. CASE Reload(b)
  <2>1. /\ online' = [online EXCEPT ![b] = FALSE] /\ stale' = [stale EXCEPT ![b] = FALSE]
        /\ peers' = [peers EXCEPT ![b] = {}] /\ cards' = [cards EXCEPT ![b] = <<>>]
        /\ inbox' = [s \in Sockets |-> IF s[1] = b THEN <<>> ELSE inbox[s]]
        /\ UNCHANGED <<session, room, channel, wire, outsiders>>
    BY <1>7 DEF Reload, serverVars
  <2>2. online[c] => inbox'[Id(c)] = inbox[Id(c)]
    BY <1>2, <2>1
  <2>3. online'[c] = online[c] /\ stale'[c] = stale[c] /\ peers'[c] = peers[c] /\ cards'[c] = cards[c]
    BY <1>1, <2>1
  <2> QED BY <2>1, <2>2, <2>3, Same
<1> QED BY <1>3, <1>4, <1>5, <1>6, <1>7

(* The page itself. *)
LEMMA OwnConnect ==
  ASSUME TypeInv, NEW b \in Browsers, Connect(b), Explained(b)
  PROVE  Finds(b)' /\ Explained(b)' /\ Pictured(b)'
<1>1. PICK s \in Sockets : s = <<b, session[b] + 1>>
  BY ConnectFacts
<1>2. /\ Id(b)' = s /\ s \notin Connected /\ ~online[b] /\ online'[b]
      /\ UNCHANGED <<room, channel, inbox, peers, cards, stale, outsiders>>
  BY <1>1, ConnectFacts
<1>3. s \notin Members'
  BY <1>2 DEF TypeInv, RoomTyped, Members
<1>4. inbox'[s] = <<>>
  <2>1. ASSUME Listening(s) PROVE s \in Connected
    BY <2>1, SocketFacts DEF Listening, TypeInv, PageTyped
  <2> QED BY <1>2, <2>1 DEF TypeInv, InboxTyped
<1>5. ASSUME ~stale[b], NEW t, Will(inbox'[s], Finding, t, peers'[b]) PROVE FALSE
  <2>1. peers'[b] = {}
    BY <1>2, <1>5 DEF Explained
  <2>2. \A i : ~(i \in 1..Len(<<>>))
    OBVIOUS
  <2> QED BY <1>4, <1>5, <2>1, <2>2 DEF Will
<1>6. Finds(b)' /\ Pictured(b)'
  BY <1>2, <1>3 DEF Finds, Pictured
<1>7. Explained(b)'
  BY <1>2, <1>5 DEF Explained
<1> QED BY <1>6, <1>7

LEMMA OwnEnd ==
  ASSUME TypeInv, NEW b \in Browsers, Disconnect(b) \/ Reload(b)
  PROVE  Finds(b)' /\ Explained(b)' /\ Pictured(b)'
<1>1. /\ online \in [Browsers -> BOOLEAN] /\ stale \in [Browsers -> BOOLEAN]
      /\ peers \in [Browsers -> SUBSET Connected]
  BY DEF TypeInv, PageTyped, PeersTyped
<1>2. ~online'[b]
  BY <1>1 DEF Disconnect, Reload
<1>3. stale'[b] \/ peers'[b] = {}
  BY <1>1 DEF Disconnect, Reload
<1> QED BY <1>2, <1>3 DEF Finds, Explained, Pictured

LEMMA OwnLeave ==
  ASSUME TypeInv, NEW b \in Browsers, LeaveCall(b), Explained(b), Pictured(b)
  PROVE  Finds(b)' /\ Explained(b)' /\ Pictured(b)'
<1>1. /\ UNCHANGED <<session, online, cards, room, channel, inbox, stale, outsiders>>
      /\ peers' = [peers EXCEPT ![b] = {}] /\ Emit(b, <<[type |-> "leave-room"]>>)
  BY DEF LeaveCall, serverVars, auxVars
<1>2. peers'[b] = {} /\ Id(b)' = Id(b) /\ Members' = Members
  BY <1>1 DEF TypeInv, PeersTyped, Id, Members
<1>3. PICK m \in Holdable : m.type = "leave-room" /\ Emit(b, <<m>>)
  <2> DEFINE m == [type |-> "leave-room"]
  <2>1. m \in Holdable /\ m.type = "leave-room" /\ Emit(b, <<m>>)
    BY <1>1, ToServerFacts DEF Holdable, Sendable
  <2> HIDE DEF m
  <2> QED BY <2>1
<1>4. ASSUME online[b] PROVE Leaves(wire'[Id(b)]) # {}
  <2>1. wire' = [wire EXCEPT ![Id(b)] = Append(@, m)]
    BY <1>3, <1>4, EmitOne
  <2>2. Id(b) \in Sockets /\ wire[Id(b)] \in Seq(Sendable) /\ m \in Sendable
        /\ wire \in [Sockets -> Seq(Sendable)]
    BY <1>4, SocketFacts DEF TypeInv, PageTyped, WireTyped, Holdable
  <2>3. wire'[Id(b)] = Append(wire[Id(b)], m)
    BY <2>1, <2>2
  <2> QED BY <1>3, <2>2, <2>3, LeavesAppend
<1>5. Finds(b)'
  BY <1>1, <1>2, <1>4 DEF Finds
<1>6. Pictured(b)'
  BY <1>1, <1>2 DEF Pictured
<1>7. \A t : Will(inbox[Id(b)], Finding, t, {}) => Will(inbox[Id(b)], Finding, t, peers[b])
  BY DEF Will
<1>8. Explained(b)'
  BY <1>1, <1>2, <1>7 DEF Explained
<1> QED BY <1>5, <1>6, <1>8

LEMMA OwnSend ==
  ASSUME TypeInv, NEW b \in Browsers, SendOffer(b) \/ ToggleMic(b), Finds(b), Explained(b), Pictured(b)
  PROVE  Finds(b)' /\ Explained(b)' /\ Pictured(b)'
<1>1. UNCHANGED <<session, online, cards, peers, room, channel, inbox, stale, outsiders>>
  BY DEF SendOffer, ToggleMic, serverVars, auxVars
<1>2. ASSUME online[b], Leaves(wire'[Id(b)]) = {} PROVE Leaves(wire[Id(b)]) = {}
  <2>1. Id(b) \in Sockets /\ wire[Id(b)] \in Seq(Sendable) /\ wire \in [Sockets -> Seq(Sendable)]
        /\ Holdable \subseteq Sendable
    BY <1>2, SocketFacts DEF TypeInv, PageTyped, WireTyped, Holdable
  <2>2. CASE wire' = wire
    BY <1>2, <2>2
  <2>3. CASE \E m \in Holdable : wire' = [wire EXCEPT ![Id(b)] = Append(@, m)]
    <3>1. PICK m \in Holdable : wire' = [wire EXCEPT ![Id(b)] = Append(@, m)]
      BY <2>3
    <3>2. wire'[Id(b)] = Append(wire[Id(b)], m) /\ m \in Sendable
      BY <2>1, <3>1
    <3> QED BY <1>2, <2>1, <3>2, LeavesAppend
  <2> QED BY <1>2, <2>2, <2>3, SendFacts
<1> QED BY <1>1, <1>2, Same

LEMMA OwnReceive ==
  ASSUME TypeInv, NEW b \in Browsers, Receive(b), Finds(b), Explained(b), Pictured(b)
  PROVE  Finds(b)' /\ Explained(b)' /\ Pictured(b)'
<1> DEFINE r == Id(b)
           q == inbox[r]
           m == Head(q)
<1>1. /\ online[b] /\ r \in Sockets /\ q # <<>>
      /\ m \in Sayable /\ q \in Seq(Sayable)
      /\ inbox' = [inbox EXCEPT ![r] = Tail(@)]
      /\ UNCHANGED <<session, online, room, channel, stale, outsiders, wire>>
      /\ peers' = [peers EXCEPT ![b] = Known(b, m)]
      /\ cards' \in [Browsers -> Shows]
      /\ DOMAIN cards'[b] = Shown(b, m)
      /\ \A t \in DOMAIN cards'[b] \ {r} :
           cards'[b][t] = IF Tells(m, Saying, t) THEN Muted(m, t) ELSE cards[b][t]
  BY ReceiveFacts
<1>2. inbox'[r] = Tail(q) /\ peers'[b] = Known(b, m) /\ Id(b)' = r /\ Members' = Members
  BY <1>1 DEF TypeInv, InboxTyped, PeersTyped, Id, Members
<1>3. m \in ToBrowser
  BY <1>1 DEF Sayable
<1> HIDE DEF r, q, m
<1>4. ASSUME NEW t, t # r
      PROVE  /\ t \in Known(b, m) <=> (t \in peers[b] /\ ~Gone(m, t)) \/ Tells(m, Finding, t)
             /\ t \in Shown(b, m) <=> (t \in DOMAIN cards[b] /\ ~Gone(m, t)) \/ Tells(m, Showing, t)
  <2>1. CASE m.type \in Showing
    <3>1. t \in Names(m) <=> About(m, t)
      BY <1>3, <2>1, NamesFacts DEF Showing, About
    <3>2. /\ Known(b, m) = peers[b] \union (Names(m) \ {r})
          /\ Shown(b, m) = DOMAIN cards[b] \union (Names(m) \ {r})
      <4>1. m.type # "user-left" /\ m.type # "signal"
        BY <2>1 DEF Showing
      <4> QED BY <2>1, <4>1 DEF Known, Shown, r
    <3>3. ~Gone(m, t) /\ m.type \in Finding
      BY <2>1 DEF Gone, Showing, Finding
    <3> QED BY <1>4, <2>1, <3>1, <3>2, <3>3 DEF Tells
  <2>2. CASE m.type = "user-left"
    <3>1. Known(b, m) = peers[b] \ {m.id} /\ Shown(b, m) = DOMAIN cards[b] \ {m.id}
      BY <2>2 DEF Known, Shown, Showing
    <3> QED BY <2>2, <3>1 DEF Gone, Tells, Finding, Showing
  <2>3. CASE m.type = "signal"
    <3>1. Known(b, m) = peers[b] \union {m.id} /\ Shown(b, m) = DOMAIN cards[b]
      BY <2>3 DEF Known, Shown, Showing
    <3> QED BY <2>3, <3>1 DEF Gone, Tells, About, Finding, Showing
  <2>4. CASE m.type \in {"peer-state-changed", "room-full"}
    <3>1. Known(b, m) = peers[b] /\ Shown(b, m) = DOMAIN cards[b]
      BY <2>4 DEF Known, Shown, Showing
    <3> QED BY <2>4, <3>1 DEF Gone, Tells, Finding, Showing
  <2>5. m.type \in Showing \/ m.type \in {"user-left", "signal", "peer-state-changed", "room-full"}
    BY <1>3, ToBrowserTypes DEF Showing
  <2> QED BY <2>1, <2>2, <2>3, <2>4, <2>5
<1>5. m = Head(q)
  BY DEF m
<1>6. ASSUME NEW t, t # r
      PROVE  /\ Will(q, Finding, t, peers[b]) <=> Will(Tail(q), Finding, t, Known(b, m))
             /\ Will(q, Showing, t, DOMAIN cards[b]) <=> Will(Tail(q), Showing, t, Shown(b, m))
  <2>1. Will(q, Finding, t, peers[b]) <=> Will(Tail(q), Finding, t, Known(b, m))
    BY <1>1, <1>4, <1>5, <1>6, WillTail
  <2>2. Will(q, Showing, t, DOMAIN cards[b]) <=> Will(Tail(q), Showing, t, Shown(b, m))
    BY <1>1, <1>4, <1>5, <1>6, WillTail
  <2> QED BY <2>1, <2>2
<1>7. Finds(b)'
  <2> SUFFICES ASSUME r \in Members, Leaves(wire[r]) = {}, NEW t \in Members \ {r}
               PROVE  Will(Tail(q), Finding, t, Known(b, m))
    BY <1>1, <1>2 DEF Finds
  <2>1. Will(q, Finding, t, peers[b])
    BY <1>1 DEF Finds, r, q
  <2> QED BY <1>6, <2>1
<1>8. Explained(b)'
  <2> SUFFICES ASSUME ~stale[b], NEW t \in Sockets \ {r}, t \notin outsiders,
                      Will(Tail(q), Finding, t, Known(b, m))
               PROVE  t \in Members /\ r \in channel
    BY <1>1, <1>2 DEF Explained
  <2>1. Will(q, Finding, t, peers[b])
    BY <1>6
  <2> QED BY <1>1, <2>1 DEF Explained, r, q
<1>9. Pictured(b)'
  <2> SUFFICES ASSUME r \in Members, NEW t \in Members \ {r}
               PROVE  /\ Will(Tail(q), Showing, t, Shown(b, m))
                      /\ Latest(Tail(q), t, cards'[b][t], room[t])
    BY <1>1, <1>2 DEF Pictured
  <2>1. Will(q, Showing, t, DOMAIN cards[b]) /\ Latest(q, t, cards[b][t], room[t])
    BY <1>1 DEF Pictured, r, q
  <2>2. Will(Tail(q), Showing, t, Shown(b, m))
    BY <1>6, <2>1
  <2>3. CASE \E i \in 1..Len(Tail(q)) : Tells(Tail(q)[i], Saying, t)
    BY <1>1, <2>1, <2>2, <2>3, LatestTail
  <2>4. CASE \A i \in 1..Len(Tail(q)) : ~Tells(Tail(q)[i], Saying, t)
    <3>1. t \in Shown(b, m)
      BY <2>2, <2>4, WillNow, TypesFacts
    <3>2. cards'[b][t] = IF Tells(m, Saying, t) THEN Muted(m, t) ELSE cards[b][t]
      BY <1>1, <3>1
    <3> QED BY <1>1, <1>5, <2>1, <2>2, <3>2, LatestTail
  <2> QED BY <2>3, <2>4
<1> QED BY <1>7, <1>8, <1>9

-----------------------------------------------------------------------------
RoomInv == KnowInv /\ GhostInv /\ CardInv

LEMMA RoomInit == Init => RoomInv /\ JoinsInv /\ ToldInv
<1> SUFFICES ASSUME Init PROVE RoomInv /\ JoinsInv /\ ToldInv
  OBVIOUS
<1>1. /\ \A b \in Browsers : ~online[b] /\ peers[b] = {}
      /\ Members = {} /\ \A s \in Sockets : wire[s] = <<>>
  BY DEF Init, Members
<1>2. KnowInv /\ GhostInv /\ CardInv /\ ToldInv
  BY <1>1 DEF KnowInv, Finds, GhostInv, Explained, CardInv, Pictured, ToldInv, Heard
<1>3. Joins(<<>>) = {} /\ Together(<<>>)
  BY DEF Joins, Together
<1>4. JoinsInv
  BY <1>1, <1>3 DEF JoinsInv, Fresh
<1> QED BY <1>2, <1>4 DEF RoomInv

LEMMA RoomInvStep == TypeInv /\ RoomInv /\ [Next]_vars => RoomInv'
<1> SUFFICES ASSUME TypeInv, RoomInv, [Next]_vars PROVE RoomInv'
  OBVIOUS
<1>1. KnowInv /\ GhostInv /\ CardInv
  BY DEF RoomInv
<1>2. \A c \in Browsers : Finds(c) /\ Explained(c) /\ Pictured(c)
  BY <1>1 DEF KnowInv, GhostInv, CardInv
<1>3. CASE \E s \in Sockets : Serve(s) \/ ServeDisconnect(s)
  BY <1>1, <1>3, ServerKnow, ServerGhosts, ServerCards DEF RoomInv
<1>4. ASSUME NEW b \in Browsers,
             Connect(b) \/ Disconnect(b) \/ Receive(b) \/ SendOffer(b)
               \/ ToggleMic(b) \/ LeaveCall(b) \/ Reload(b)
      PROVE  RoomInv'
  <2>1. \A c \in Browsers \ {b} : Finds(c)' /\ Explained(c)' /\ Pictured(c)'
    BY <1>2, <1>4, Others
  <2>2. Finds(b)' /\ Explained(b)' /\ Pictured(b)'
    BY <1>2, <1>4, OwnConnect, OwnEnd, OwnLeave, OwnSend, OwnReceive
  <2>3. \A c \in Browsers : Finds(c)' /\ Explained(c)' /\ Pictured(c)'
    BY <2>1, <2>2
  <2> QED BY <2>3 DEF RoomInv, KnowInv, GhostInv, CardInv
<1>5. CASE UNCHANGED vars
  <2>1. UNCHANGED <<session, online, stale, room, channel, outsiders, inbox, peers, cards, wire>>
    BY <1>5 DEF vars, pageVars, serverVars, auxVars
  <2>2. \A c \in Browsers : Finds(c)' /\ Explained(c)' /\ Pictured(c)'
    BY <1>2, <2>1, Same
  <2> QED BY <2>2 DEF RoomInv, KnowInv, GhostInv, CardInv
<1> QED BY <1>3, <1>4, <1>5 DEF Next

(* The inductive invariant: what the messages waiting for a page (room-     *)
(* users, PEER_JOINED, signal, user-left, peer-state-changed) will make of  *)
(* its peers and cards is what the room holds, whatever is still queued.    *)
THEOREM RoomInvHolds == Spec => [](TypeInv /\ RoomInv /\ JoinsInv /\ ToldInv)
<1> DEFINE All == TypeInv /\ RoomInv /\ JoinsInv /\ ToldInv
<1>1. Init => All
  BY TypeInit, RoomInit
<1>2. All /\ [Next]_vars => All'
  BY TypeStep, RoomInvStep, JoinsStep, ToldStep
<1> QED BY <1>1, <1>2, PTL DEF Spec

(* Nothing is waiting. *)
LEMMA NothingWaits ==
  /\ \A types, t, known : Will(<<>>, types, t, known) <=> t \in known
  /\ \A t, now, flag : Latest(<<>>, t, now, flag) => now = flag
  /\ \A now, flag : Awaits(<<>>, now, flag) => now = flag
  /\ Leaves(<<>>) = {}
<1>1. \A i : ~(i \in 1..Len(<<>>))
  OBVIOUS
<1> QED BY <1>1 DEF Will, Latest, Awaits, Leaves

LEMMA QuietPeers == TypeInv /\ RoomInv => PeersMatchTheRoom
<1> SUFFICES ASSUME TypeInv, RoomInv, Quiet, NEW b \in Browsers, online[b], Id(b) \in Members
             PROVE  /\ Members \ {Id(b)} \subseteq peers[b]
                    /\ peers[b] \ Members \subseteq (IF stale[b] THEN Sockets ELSE outsiders)
  BY DEF PeersMatchTheRoom, MembersAreKnown, GhostsAreExplained, Present
<1>1. Id(b) \in Sockets /\ wire[Id(b)] = <<>> /\ inbox[Id(b)] = <<>>
  BY SocketFacts DEF TypeInv, PageTyped, Quiet
<1>2. Finds(b) /\ Explained(b)
  BY DEF RoomInv, KnowInv, GhostInv
<1>3. ASSUME NEW t \in Members \ {Id(b)} PROVE t \in peers[b]
  BY <1>1, <1>2, NothingWaits DEF Finds
<1>4. ASSUME NEW t \in peers[b], t \notin Members
      PROVE  t \in (IF stale[b] THEN Sockets ELSE outsiders)
  <2>1. t \in Sockets /\ t # Id(b)
    BY <1>4, SocketFacts DEF TypeInv, PeersTyped
  <2>2. CASE ~stale[b]
    BY <1>1, <1>2, <1>4, <2>1, <2>2, NothingWaits DEF Explained
  <2> QED BY <2>1, <2>2
<1> QED BY <1>3, <1>4

LEMMA QuietCards == TypeInv /\ RoomInv /\ ToldInv => CardsShowWhatWasTold
<1> SUFFICES ASSUME TypeInv, RoomInv, ToldInv, Quiet,
                    NEW b \in Browsers, online[b], Id(b) \in Members,
                    NEW c \in Browsers \ {b}, online[c], Id(c) \in Members
             PROVE  /\ Id(c) \in DOMAIN cards[b]
                    /\ cards[b][Id(c)] = room[Id(c)]
                    /\ Id(c) \in unheard \/ room[Id(c)] = told[c]
  BY DEF CardsShowWhatWasTold, Present
<1>1. /\ Id(b) \in Sockets /\ inbox[Id(b)] = <<>>
      /\ Id(c) \in Sockets /\ wire[Id(c)] = <<>> /\ Id(c) # Id(b)
  BY SocketFacts DEF TypeInv, PageTyped, Quiet, Id
<1>2. Pictured(b) /\ Heard(c)
  BY DEF RoomInv, CardInv, ToldInv
<1>3. Will(<<>>, Showing, Id(c), DOMAIN cards[b]) /\ Latest(<<>>, Id(c), cards[b][Id(c)], room[Id(c)])
  BY <1>1, <1>2 DEF Pictured
<1>4. Awaits(<<>>, Kept(c), told[c])
  BY <1>1, <1>2 DEF Heard
<1>5. Id(c) \in DOMAIN cards[b] /\ cards[b][Id(c)] = room[Id(c)]
  BY <1>3, NothingWaits
<1>6. Kept(c) = told[c]
  BY <1>4, NothingWaits
<1>7. Id(c) \in unheard \/ room[Id(c)] = told[c]
  BY <1>6 DEF Kept
<1> QED BY <1>5, <1>7

(* When all is quiet every member knows every other, and whoever else it   *)
(* knows has a known cause (room-users, PEER_JOINED, user-left).           *)
THEOREM PeersStayTheRoom == Spec => []PeersMatchTheRoom
<1> QED BY RoomInvHolds, QuietPeers, PTL

(* When all is quiet every card shows what the server holds of its        *)
(* member, and that is what its page last said on this connection unless   *)
(* the server's limit refused just that (peer-state-changed of server.js,  *)
(* PEER_JOINED).                                                           *)
THEOREM CardsStayTrue == Spec => []CardsShowWhatWasTold
<1> QED BY RoomInvHolds, QuietCards, PTL
=============================================================================
