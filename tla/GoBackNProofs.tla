--------------------------- MODULE GoBackNProofs ---------------------------
(***************************************************************************)
(* Proofs about GoBackN for every window size, every bound and every       *)
(* capacity of the streams: IInv is inductive, it implies the safety       *)
(* properties, and the link implements the FIFO channel of FifoChannel.    *)
(***************************************************************************)
EXTENDS GoBackN, TLAPS

(***************************************************************************)
(* Facts about the window arithmetic of GBNWindow. The queue only keeps    *)
(* residues modulo s; these lemmas say when a residue still determines the *)
(* position it came from.                                                  *)
(***************************************************************************)

\* s is a positive number: the modulus of addPacket, processACK and recvSeq.
LEMMA SFact == s \in Nat \ {0} /\ s = N + 1 /\ N \in Nat /\ N >= 1
BY NAssumption DEF s

\* Division with remainder: what % does in succ.
LEMMA DivMod ==
    ASSUME NEW m \in Nat \ {0}, NEW x \in Nat
    PROVE  /\ \E q \in Nat : x = m * q + (x % m)
           /\ (x % m) \in 0..(m - 1)
<1>1. x \div m \in Nat /\ (x % m) \in 0..(m - 1) /\ x = m * (x \div m) + (x % m)
  OBVIOUS
<1> QED BY <1>1, Zenon

\* A nonzero multiple of m is at least m.
LEMMA MultipleAtLeast ==
    ASSUME NEW m \in Nat \ {0}, NEW a \in Int, a >= 1
    PROVE  m * a >= m
OBVIOUS

\* Quotient and remainder are unique.
LEMMA DivUnique ==
    ASSUME NEW m \in Nat \ {0}, NEW q1 \in Int, NEW q2 \in Int,
           NEW r1 \in 0..(m - 1), NEW r2 \in 0..(m - 1),
           m * q1 + r1 = m * q2 + r2
    PROVE  r1 = r2
<1>1. m * (q1 - q2) = r2 - r1 /\ m * (q2 - q1) = r1 - r2
  OBVIOUS
<1>2. CASE q1 - q2 >= 1
  BY <1>1, <1>2, MultipleAtLeast
<1>3. CASE q2 - q1 >= 1
  BY <1>1, <1>3, MultipleAtLeast
<1> QED BY <1>1, <1>2, <1>3

\* Moving d < s positions ahead adds d to the residue, modulo one wrap.
LEMMA ModShift ==
    ASSUME NEW a \in Nat, NEW d \in Nat, d < s
    PROVE  /\ (a % s) \in 0..(s - 1)
           /\ (a + d) % s = IF (a % s) + d < s THEN (a % s) + d
                                               ELSE (a % s) + d - s
<1> DEFINE r == a % s
<1> DEFINE w == (a + d) % s
<1> DEFINE u == IF r + d < s THEN r + d ELSE r + d - s
<1>1. s \in Nat \ {0} BY SFact
<1>2. r \in 0..(s - 1) BY <1>1, DivMod
<1>3. PICK q1 \in Nat : a = s * q1 + r BY <1>1, DivMod, Zenon
<1>4. a + d \in Nat OBVIOUS
<1>5. w \in 0..(s - 1) BY <1>1, <1>4, DivMod, Zenon
<1>6. PICK q2 \in Nat : a + d = s * q2 + w BY <1>1, <1>4, DivMod, Zenon
<1> HIDE DEF r, w
<1>7. u \in 0..(s - 1) BY <1>1, <1>2
<1>8. \E q3 \in Int : a + d = s * q3 + u
  <2>1. CASE r + d < s
    BY <1>1, <1>2, <1>3, <2>1
  <2>2. CASE ~(r + d < s)
    <3>1. s * (q1 + 1) = s * q1 + s BY <1>1
    <3>2. a + d = s * (q1 + 1) + u BY <1>1, <1>2, <1>3, <2>2, <3>1
    <3> QED BY <3>2
  <2> QED BY <2>1, <2>2
<1>9. w = u
  <2> HIDE DEF u
  <2>1. PICK q3 \in Int : a + d = s * q3 + u BY <1>8
  <2>2. s * q2 + w = s * q3 + u BY <1>6, <2>1
  <2> QED BY <1>1, <1>5, <1>7, <2>2, DivUnique
<1> QED BY <1>2, <1>9 DEF r, w, u

\* A residue is a sequence number.
LEMMA ResidueInSeqs ==
    ASSUME NEW a \in Nat
    PROVE  (a % s) \in Seqs
BY SFact, DivMod DEF Seqs

\* succ follows positions: what (x + 1) % s computes from a residue.
LEMMA SuccResidue ==
    ASSUME NEW a \in Nat
    PROVE  succ(a % s) = (a + 1) % s
<1> DEFINE r == a % s
<1>1. r \in Nat /\ r < s BY ResidueInSeqs, SFact DEF Seqs
<1>2. 1 < s /\ s \in Nat BY SFact
<1>3. (a + 1) % s = IF r + 1 < s THEN r + 1 ELSE r + 1 - s
  BY <1>2, ModShift, Zenon
<1> HIDE DEF r
<1>4. r % s = r
  <2>1. 0 \in Nat /\ r = 0 + r BY <1>1
  <2>2. (0 + r) % s = IF (0 % s) + r < s THEN (0 % s) + r ELSE (0 % s) + r - s
    BY <1>1, <2>1, ModShift
  <2>3. 0 % s = 0 BY <1>2
  <2> QED BY <1>1, <1>2, <2>1, <2>2, <2>3
<1>5. (r + 1) % s = IF r + 1 < s THEN r + 1 ELSE r + 1 - s
  BY <1>1, <1>2, <1>4, ModShift, Zenon
<1> QED BY <1>3, <1>5 DEF succ, r

\* Positions less than s apart are told apart by their residues. This is why
\* the receiver never mistakes a resent packet for a new one.
LEMMA ResidueUnique ==
    ASSUME NEW a \in Nat, NEW b \in Nat, a - b < s, b - a < s, a % s = b % s
    PROVE  a = b
<1>1. s \in Nat /\ s >= 2 BY SFact
<1>2. CASE a <= b
  <2>1. b - a \in Nat /\ b - a < s /\ b = a + (b - a) BY <1>1, <1>2
  <2> DEFINE d == b - a
  <2> HIDE DEF d
  <2>2. d \in Nat /\ d < s /\ b = a + d BY <2>1 DEF d
  <2>3. /\ (a % s) \in 0..(s - 1)
        /\ (a + d) % s = IF (a % s) + d < s THEN (a % s) + d ELSE (a % s) + d - s
    BY <2>2, ModShift
  <2> DEFINE r == a % s
  <2>4. r \in 0..(s - 1) /\ r = IF r + d < s THEN r + d ELSE r + d - s
    BY <2>2, <2>3
  <2> HIDE DEF r
  <2> QED BY <1>1, <2>2, <2>4
<1>3. CASE b <= a
  <2>1. a - b \in Nat /\ a - b < s /\ a = b + (a - b) BY <1>1, <1>3
  <2> DEFINE d == a - b
  <2> HIDE DEF d
  <2>2. d \in Nat /\ d < s /\ a = b + d BY <2>1 DEF d
  <2>3. /\ (b % s) \in 0..(s - 1)
        /\ (b + d) % s = IF (b % s) + d < s THEN (b % s) + d ELSE (b % s) + d - s
    BY <2>2, ModShift
  <2> DEFINE r == b % s
  <2>4. r \in 0..(s - 1) /\ r = IF r + d < s THEN r + d ELSE r + d - s
    BY <2>2, <2>3
  <2> HIDE DEF r
  <2> QED BY <1>1, <2>2, <2>4
<1> QED BY <1>2, <1>3

\* size() counts the positions of a window of at most n packets.
LEMMA SizeIsDistance ==
    ASSUME NEW a \in Nat, NEW d \in Nat, d <= N
    PROVE  size(a % s, (a + d) % s) = d
<1>1. s \in Nat /\ s = N + 1 /\ N \in Nat BY SFact
<1>a. d < s BY <1>1
<1>2. /\ (a % s) \in 0..(s - 1)
      /\ (a + d) % s = IF (a % s) + d < s THEN (a % s) + d ELSE (a % s) + d - s
  BY <1>a, ModShift
<1> DEFINE r == a % s
<1> DEFINE t == (a + d) % s
<1> HIDE DEF r, t
<1>3. r \in 0..(s - 1) /\ t = IF r + d < s THEN r + d ELSE r + d - s
  BY <1>2 DEF r, t
<1>4. size(r, t) = d BY <1>1, <1>3 DEF size
<1> QED BY <1>4 DEF r, t

\* size() of any two sequence numbers is at most n.
LEMMA SizeRange ==
    ASSUME NEW b \in Seqs, NEW t \in Seqs
    PROVE  /\ size(b, t) \in 0..N
           /\ b # t => size(b, t) > 0
           /\ b = t => size(b, t) = 0
BY SFact DEF size, Seqs

\* A sequence number b is the residue of the position size(b, top) before top.
LEMMA SizeInverse ==
    ASSUME NEW b \in Seqs, NEW t \in Nat, size(b, t % s) <= t
    PROVE  b = (t - size(b, t % s)) % s
<1> DEFINE d == size(b, t % s)
<1> DEFINE c == t - d
<1>1. s \in Nat /\ s = N + 1 /\ N \in Nat BY SFact
<1>2. (t % s) \in Seqs BY ResidueInSeqs
<1>3. d \in 0..N BY <1>2, SizeRange
<1> HIDE DEF d
<1>4. c \in Nat /\ t = c + d /\ d \in Nat /\ d < s BY <1>1, <1>3 DEF d
<1> HIDE DEF c
<1>5. /\ (c % s) \in 0..(s - 1)
      /\ (c + d) % s = IF (c % s) + d < s THEN (c % s) + d ELSE (c % s) + d - s
  BY <1>4, ModShift
<1> DEFINE r == c % s
<1> DEFINE u == t % s
<1>6. /\ r \in 0..(s - 1) /\ u = IF r + d < s THEN r + d ELSE r + d - s
      /\ d = size(b, u) /\ u \in Seqs
  BY <1>2, <1>4, <1>5 DEF d
<1> HIDE DEF r, u
<1>7. b = r BY <1>1, <1>6 DEF size, Seqs
<1> QED BY <1>7 DEF r, c, d

\* processACK on an ACK that reports e accepted positions past the base of a
\* window of d packets: the base moves to just those positions. With e = 0 the
\* ACK is a late one for the packet before the base, and nothing moves.
LEMMA AckMovesBase ==
    ASSUME NEW a \in Nat, NEW d \in 0..N, NEW e \in 0..d, a + e >= 1
    PROVE  ackedBase(a % s, (a + d) % s, (a + e - 1) % s) = (a + e) % s
<1>1. s \in Nat /\ s = N + 1 /\ N \in Nat /\ N >= 1 BY SFact
<1>2. d \in Nat /\ d < s /\ e \in Nat /\ e < s /\ a + e - 1 \in Nat BY <1>1
<1> DEFINE r == a % s
<1> DEFINE t == (a + d) % s
<1> DEFINE q == (a + e - 1) % s
<1> DEFINE v == (a + e) % s
<1>3. r \in 0..(s - 1) /\ t = IF r + d < s THEN r + d ELSE r + d - s
  BY <1>2, ModShift, SMTT(30)
<1>4. v = IF r + e < s THEN r + e ELSE r + e - s
  BY <1>2, ModShift
<1>5. succ(q) = v
  <2>1. a + e - 1 + 1 = a + e BY <1>2
  <2> QED BY <1>2, <2>1, SuccResidue
<1>6. q \in 0..(s - 1) /\ v = IF q + 1 < s THEN q + 1 ELSE 0
  <2> DEFINE p == a + e - 1
  <2>1. p \in Nat /\ p + 1 = a + e BY <1>2
  <2> HIDE DEF p
  <2>2. 1 \in Nat /\ 1 < s BY <1>1
  <2>3. /\ (p % s) \in 0..(s - 1)
        /\ (p + 1) % s = IF (p % s) + 1 < s THEN (p % s) + 1 ELSE (p % s) + 1 - s
    BY <2>1, <2>2, ModShift, SMTT(30)
  <2>4. q = p % s /\ v = (p + 1) % s BY <2>1 DEF p
  <2> HIDE DEF q, v
  <2> QED BY <1>1, <2>3, <2>4
<1> HIDE DEF r, t, q, v
<1>7. ackValid(r, t, q) <=> e > 0
  BY <1>1, <1>2, <1>3, <1>4, <1>6 DEF ackValid, containsSequence, size
<1>8. e = 0 => v = r BY <1>1, <1>3, <1>4
<1>9. ackedBase(r, t, q) = v BY <1>2, <1>5, <1>7, <1>8 DEF ackedBase
<1> QED BY <1>9 DEF r, t, q, v

\* processNACK on a NACK for the position e past the base of a window of d
\* packets: the base moves to that position, for e = d the queue is emptied.
LEMMA NackMovesBase ==
    ASSUME NEW a \in Nat, NEW d \in 0..N, NEW e \in 0..d
    PROVE  nackedBase(a % s, (a + d) % s, (a + e) % s) = (a + e) % s
<1>1. s \in Nat /\ s = N + 1 /\ N \in Nat /\ N >= 1 BY SFact
<1>2. d \in Nat /\ d < s /\ e \in Nat /\ e < s BY <1>1
<1> DEFINE r == a % s
<1> DEFINE t == (a + d) % s
<1> DEFINE v == (a + e) % s
<1>3. r \in 0..(s - 1) /\ t = IF r + d < s THEN r + d ELSE r + d - s
  BY <1>2, ModShift, SMTT(30)
<1>4. v = IF r + e < s THEN r + e ELSE r + e - s
  BY <1>2, ModShift
<1> HIDE DEF r, t, v
<1>5. v = t \/ nackResend(r, t, v)
  BY <1>1, <1>2, <1>3, <1>4 DEF nackResend, containsSequence
<1>6. nackedBase(r, t, v) = v BY <1>5 DEF nackedBase
<1> QED BY <1>6 DEF r, t, v

-----------------------------------------------------------------------------
(***************************************************************************)
(* The inductive invariant.                                                *)
(***************************************************************************)

\* Appending to a sequence, as the sends on streams and channels do.
LEMMA AppendFacts ==
    ASSUME NEW S, NEW q \in Seq(S), NEW e \in S
    PROVE  /\ Append(q, e) \in Seq(S)
           /\ Len(Append(q, e)) = Len(q) + 1
           /\ \A i \in 1..Len(q) : Append(q, e)[i] = q[i]
           /\ Append(q, e)[Len(q) + 1] = e
           /\ Len(q) \in Nat
OBVIOUS

\* Taking the head off a sequence, as a receive or a loss does.
LEMMA TailFacts ==
    ASSUME NEW S, NEW q \in Seq(S), q # <<>>
    PROVE  /\ Tail(q) \in Seq(S)
           /\ Len(Tail(q)) = Len(q) - 1
           /\ \A i \in 1..(Len(q) - 1) : Tail(q)[i] = q[i + 1]
           /\ Head(q) = q[1] /\ q[1] \in S
           /\ Len(q) \in Nat /\ Len(q) >= 1
OBVIOUS

\* Moving a packet into and out of recvDataChan changes nothing of the whole.
LEMMA HandFacts ==
    ASSUME NEW r \in Seq(PacketData), NEW c \in Seq(PacketData)
    PROVE  /\ r \o c \in Seq(PacketData) /\ (r \o c) \o <<>> = r \o c
           /\ \A x \in PacketData : (r \o c) \o <<x>> = Append(r \o c, x)
           /\ \A x \in PacketData : r \o Append(c, x) = Append(r \o c, x)
           /\ c # <<>> => Append(r, Head(c)) \o Tail(c) = r \o c
<1>1. r \o c \in Seq(PacketData) /\ (r \o c) \o <<>> = r \o c
  OBVIOUS
<1>2. ASSUME NEW x \in PacketData PROVE (r \o c) \o <<x>> = Append(r \o c, x)
  OBVIOUS
<1>3. ASSUME NEW x \in PacketData PROVE r \o Append(c, x) = Append(r \o c, x)
  OBVIOUS
<1>4. ASSUME c # <<>> PROVE Append(r, Head(c)) \o Tail(c) = r \o c
  BY <1>4
<1> QED BY <1>1, <1>2, <1>3, <1>4, Zenon

-----------------------------------------------------------------------------
\* The inductive invariant holds initially: newQueue and newGoBackNConn.
LEMMA InitIInv == Init => IInv
<1> SUFFICES ASSUME Init PROVE IInv
  OBVIOUS
<1> USE SFact
<1>1. TypeOK
  <2>1. 0 \in Seqs BY DEF Seqs
  <2>2. NoPacket \in PacketData BY <2>1, BoundsAssumption DEF NoPacket, PacketData
  <2>3. content \in [Seqs -> PacketData] BY <2>2 DEF Init
  <2>4. <<>> \in Seq(PacketData) /\ <<>> \in Seq(CtlMsg) OBVIOUS
  <2> QED BY <2>1, <2>3, <2>4 DEF Init, TypeOK
<1>2. ResiduesInv
  <2>1. 0 % s = 0 OBVIOUS
  <2> QED BY <2>1 DEF Init, ResiduesInv
<1>3. OrderInv BY DEF Init, OrderInv
<1>4. CursorInv BY DEF Init, CursorInv
<1>5. DataInv BY DEF Init, DataInv
<1>6. CtlInv BY DEF Init, CtlInv
<1> QED BY <1>1, <1>2, <1>3, <1>4, <1>5, <1>6 DEF IInv

\* A step that changes nothing keeps the invariant.
LEMMA Stutters == ASSUME IInv, UNCHANGED vars PROVE IInv'
BY DEF vars, queueVars, resendVars, signalVars, recvVars, appVars, streamVars,
   IInv, TypeOK, ResiduesInv, OrderInv, CursorInv, DataInv, CtlInv, size

-----------------------------------------------------------------------------
(***************************************************************************)
(* Steps of the send goroutine.                                            *)
(***************************************************************************)
\* The queue, the streams and the histories that IInv speaks of.
coreVars == <<sequenceBase, sequenceTop, content, sent, acked, recvSeq, accepted,
              dataStream, ctlStream>>

\* A step that leaves the queue and the streams alone and respects the control
\* state keeps the invariant.
LEMMA QuietStep ==
    ASSUME IInv, TypeOK', UNCHANGED coreVars,
           sendPc' = "select" => Len(sent) - acked < N,
           sendPc' = "send" => sendPc = "send" /\ resendPc' = resendPc,
           resendPc' \in {"init", "loop", "sync"} => sendPc' \in {"select", "full"},
           recvPc' = "deliver" => recvPc = "deliver",
           CursorInv'
    PROVE  IInv'
BY Zenon DEF IInv, ResiduesInv, OrderInv, DataInv, CtlInv, coreVars, Seqs

\* The distance between base and top that size() computes.
LEMMA SizeFact ==
    ASSUME IInv
    PROVE  /\ size(sequenceBase, sequenceTop) = Len(sent) - acked
           /\ Len(sent) \in Nat /\ Len(accepted) \in Nat /\ acked \in Nat
           /\ Len(sent) - acked \in 0..N
<1>1. Len(sent) \in Nat /\ Len(accepted) \in Nat /\ acked \in Nat
  BY DEF IInv, TypeOK
<1>2. Len(sent) - acked \in 0..N
  BY <1>1, SFact DEF IInv, OrderInv
<1> DEFINE d == Len(sent) - acked
<1>3. d \in Nat /\ d <= N /\ acked + d = Len(sent) BY <1>1, <1>2, SFact
<1> HIDE DEF d
<1>4. size(acked % s, (acked + d) % s) = d BY <1>1, <1>3, SizeIsDistance
<1>5. size(sequenceBase, sequenceTop) = d BY <1>3, <1>4 DEF IInv, ResiduesInv
<1> QED BY <1>1, <1>2, <1>5 DEF d

\* addPacket preserves the invariant: the slot it overwrites held a packet
\* that is s positions back, outside every window still in use.
LEMMA AddPacketStep ==
    ASSUME IInv, NEW ping \in BOOLEAN, addPacket(ping)
    PROVE  IInv'
<1> DEFINE pkt == [seq |-> sequenceTop, id |-> Len(sent) + 1, ping |-> ping]
<1> DEFINE t == Len(sent)
<1>0. /\ sent \in Seq(PacketData) /\ t \in Nat /\ acked \in Nat
      /\ sequenceTop \in Seqs /\ sequenceTop = t % s
      /\ content \in [Seqs -> PacketData]
  BY SizeFact DEF IInv, TypeOK, ResiduesInv
<1>1. pkt \in PacketData BY <1>0, BoundsAssumption DEF addPacket, PacketData
<1>2. /\ sent' = Append(sent, pkt) /\ content' = [content EXCEPT ![sequenceTop] = pkt]
      /\ sequenceTop' = succ(sequenceTop) /\ sendPc' = "send" /\ resendPc = "none"
      /\ sendPc = "select"
      /\ UNCHANGED <<sequenceBase, acked, resendVars, signalVars, recvVars, appVars,
                     streamVars>>
  BY DEF addPacket, Running
<1>3. /\ sent' \in Seq(PacketData) /\ Len(sent') = t + 1
      /\ \A i \in 1..t : sent'[i] = sent[i]
      /\ sent'[t + 1] = pkt
  BY <1>0, <1>1, <1>2, AppendFacts
<1> HIDE DEF pkt
<1>4. sequenceTop' = (t + 1) % s /\ sequenceTop' \in Seqs
  BY <1>0, <1>2, SuccResidue, ResidueInSeqs
<1>5. content' \in [Seqs -> PacketData] BY <1>0, <1>1, <1>2
<1>6. TypeOK'
  BY <1>2, <1>3, <1>4, <1>5 DEF IInv, TypeOK, resendVars, signalVars, recvVars,
     appVars, streamVars
<1>7. ResiduesInv'
  <2>1. sequenceTop' = Len(sent') % s BY <1>3, <1>4
  <2>2. sequenceBase' = acked' % s /\ recvSeq' = Len(accepted') % s
    BY <1>2 DEF IInv, ResiduesInv, recvVars
  <2>3. \A i \in 1..Len(sent') : sent'[i].id = i /\ sent'[i].seq = (i - 1) % s
    <3> SUFFICES ASSUME NEW i \in 1..(t + 1)
                 PROVE  sent'[i].id = i /\ sent'[i].seq = (i - 1) % s
      BY <1>3
    <3>1. CASE i \in 1..t BY <1>0, <1>3, <3>1, SMTT(30) DEF IInv, ResiduesInv
    <3>2. CASE i = t + 1
      <4>1. i - 1 = t BY <1>0, <3>2
      <4> QED BY <1>0, <1>3, <3>2, <4>1 DEF pkt
    <3> QED BY <1>0, <3>1, <3>2
  <2>4. \A i \in 1..Len(sent') : i > Len(sent') - s => content'[(i - 1) % s] = sent'[i]
    <3> SUFFICES ASSUME NEW i \in 1..Len(sent'), i > Len(sent') - s
                 PROVE  content'[(i - 1) % s] = sent'[i]
      OBVIOUS
    <3>0. i \in 1..(t + 1) /\ i > t + 1 - s
      <4>1. Len(sent') = t + 1 /\ t \in Nat /\ s \in Nat BY <1>0, <1>3, SFact
      <4> HIDE DEF t
      <4> QED BY <4>1
    <3>1. CASE i = t + 1
      <4>1. i - 1 = t BY <1>0, <3>0, <3>1
      <4> QED BY <1>0, <1>2, <1>3, <3>1, <4>1
    <3>2. CASE i \in 1..t
      <4>1. i - 1 \in Nat /\ (i - 1) - t < s /\ t - (i - 1) < s /\ i - 1 # t
        BY <1>0, <3>0, <3>2, SFact
      <4>2. (i - 1) % s # t % s BY <1>0, <4>1, ResidueUnique, Zenon
      <4>3. (i - 1) % s \in Seqs BY <4>1, ResidueInSeqs
      <4>4. content'[(i - 1) % s] = content[(i - 1) % s]
        BY <1>0, <1>2, <4>2, <4>3
      <4>5. i > t - s BY <1>0, <3>0, <3>2, SFact
      <4>6. content[(i - 1) % s] = sent[i] BY <3>2, <4>5 DEF IInv, ResiduesInv
      <4> QED BY <1>3, <3>2, <4>4, <4>6
    <3> QED BY <1>0, <3>0, <3>1, <3>2
  <2> QED BY <2>1, <2>2, <2>3, <2>4, SMTT(30) DEF ResiduesInv
<1>8. OrderInv'
  <2>1. t - acked < N /\ Len(accepted) \in Nat /\ N \in Nat
    BY <1>2, SizeFact, SFact DEF IInv, OrderInv
  <2>2. sent' # <<>> BY <1>0, <1>3
  <2>3. \A i \in 1..Len(accepted) : accepted[i] = sent'[i]
    BY <1>0, <1>3, <2>1 DEF IInv, OrderInv
  <2> QED
    BY <1>0, <1>2, <1>3, <2>1, <2>2, <2>3
    DEF IInv, OrderInv, resendVars, recvVars
<1>9. CursorInv' BY <1>2 DEF CursorInv, resendVars
<1>10. DataInv'
  BY <1>0, <1>2, <1>3, SMTT(30) DEF IInv, DataInv, streamVars, recvVars
<1>11. CtlInv' BY <1>2, SMTT(30) DEF IInv, CtlInv, streamVars, recvVars
<1> QED BY <1>6, <1>7, <1>8, <1>9, <1>10, <1>11 DEF IInv

\* The packet just added goes to the stream, behind packets at most N ahead.
LEMMA DataAppended ==
    ASSUME IInv, NEW k \in 1..Len(sent), k > Len(sent) - N,
           dataStream' = Append(dataStream, sent[k]),
           sent' = sent, accepted' = accepted
    PROVE  DataInv' /\ dataStream' \in Seq(PacketData)
<1> DEFINE p == sent[k]
<1>0. /\ dataStream \in Seq(PacketData) /\ sent \in Seq(PacketData)
      /\ Len(sent) \in Nat /\ Len(accepted) \in Nat /\ Len(accepted) <= Len(sent)
      /\ N \in Nat /\ N >= 1 /\ k \in Nat
  BY SizeFact, SFact DEF IInv, TypeOK, OrderInv
<1>1. p \in PacketData /\ p.id = k
  BY <1>0 DEF IInv, ResiduesInv
<1> HIDE DEF p
<1> DEFINE l == Len(dataStream)
<1>2. /\ dataStream' \in Seq(PacketData) /\ Len(dataStream') = l + 1
      /\ \A i \in 1..l : dataStream'[i] = dataStream[i]
      /\ dataStream'[l + 1] = p /\ l \in Nat
  BY <1>0, <1>1, AppendFacts DEF p
<1>3. \A i \in 1..l : /\ dataStream[i].id \in 1..Len(sent)
                      /\ dataStream[i] = sent[dataStream[i].id]
                      /\ dataStream[i].id > Len(accepted) - N
  BY DEF IInv, DataInv
<1>4. \A i, j \in 1..l : i < j => dataStream[j].id > dataStream[i].id - N
  BY DEF IInv, DataInv
<1> HIDE DEF l
<1>5. \A i \in 1..Len(dataStream') :
          /\ dataStream'[i].id \in 1..Len(sent)
          /\ dataStream'[i] = sent[dataStream'[i].id]
          /\ dataStream'[i].id > Len(accepted) - N
  <2> SUFFICES ASSUME NEW i \in 1..(l + 1)
               PROVE  /\ dataStream'[i].id \in 1..Len(sent)
                      /\ dataStream'[i] = sent[dataStream'[i].id]
                      /\ dataStream'[i].id > Len(accepted) - N
    BY <1>2
  <2>1. CASE i \in 1..l BY <2>1, <1>2, <1>3
  <2>2. CASE i = l + 1
    <3>1. dataStream'[i] = p BY <2>2, <1>2
    <3>2. k > Len(accepted) - N BY <1>0
    <3> QED BY <3>1, <3>2, <1>0, <1>1 DEF p
  <2> QED BY <2>1, <2>2, <1>2
<1>6. \A i, j \in 1..Len(dataStream') :
          i < j => dataStream'[j].id > dataStream'[i].id - N
  <2> SUFFICES ASSUME NEW i \in 1..(l + 1), NEW j \in 1..(l + 1), i < j
               PROVE  dataStream'[j].id > dataStream'[i].id - N
    BY <1>2
  <2>1. i \in 1..l BY <1>2
  <2>2. CASE j \in 1..l BY <2>1, <2>2, <1>2, <1>4
  <2>3. CASE j = l + 1
    <3>1. dataStream'[i].id \in 1..Len(sent) BY <2>1, <1>2, <1>3
    <3>2. dataStream'[j].id = k BY <2>3, <1>1, <1>2
    <3> DEFINE a == dataStream'[i].id
    <3>3. a \in 1..Len(sent) BY <3>1, Zenon
    <3> HIDE DEF a
    <3>4. k > a - N
      <4> DEFINE n == Len(sent)
      <4>1. n \in Nat /\ k > n - N /\ a \in 1..n BY <1>0, <3>3
      <4> HIDE DEF n
      <4> QED BY <4>1, <1>0
    <3> QED BY <3>2, <3>4, Zenon DEF a
  <2> QED BY <2>2, <2>3, <1>2
<1> QED BY <1>2, <1>5, <1>6, Zenon DEF DataInv

\* sendNewPacket: the last packet of the queue follows.
LEMMA SendNewPacketStep ==
    ASSUME IInv, sendNewPacket
    PROVE  IInv'
<1>1. /\ sendPc = "send" /\ resendPc = "none" /\ sendPc' = "check"
      /\ dataStream' = Append(dataStream, sent[Len(sent)])
      /\ UNCHANGED <<queueVars, resendVars, signalVars, recvVars, appVars,
                     ctlStream, dups>>
  BY DEF sendNewPacket, Running
<1>2. Len(sent) \in 1..Len(sent) /\ Len(sent) > Len(sent) - N
  <2>1. sent # <<>> /\ sent \in Seq(PacketData)
    BY <1>1 DEF IInv, OrderInv, TypeOK
  <2>2. Len(sent) \in Nat /\ Len(sent) # 0 BY <2>1
  <2> QED BY <2>2, SFact
<1>3. DataInv' /\ dataStream' \in Seq(PacketData)
  BY <1>1, <1>2, DataAppended DEF queueVars, recvVars
<1>4. TypeOK'
  BY <1>1, <1>3 DEF IInv, TypeOK, queueVars, resendVars, signalVars, recvVars, appVars
<1>5. ResiduesInv' /\ OrderInv' /\ CursorInv' /\ CtlInv'
  BY <1>1
  DEF IInv, ResiduesInv, OrderInv, CursorInv, CtlInv, queueVars, resendVars,
      signalVars, recvVars
<1> QED BY <1>3, <1>4, <1>5 DEF IInv

\* Steps of the send goroutine that touch neither the queue nor a stream.
LEMMA SendControlStep ==
    ASSUME IInv, checkWindow \/ park \/ resendSkipped \/ waitForSync
    PROVE  IInv'
<1>1. UNCHANGED coreVars /\ UNCHANGED <<resendBase, resendTop>>
  BY DEF checkWindow, park, resendSkipped, waitForSync, coreVars, queueVars,
     recvVars, streamVars, resendVars
<1>2. TypeOK'
  BY Zenon DEF IInv, TypeOK, checkWindow, park, resendSkipped, waitForSync, resendReturns,
     queueVars, recvVars, streamVars, resendVars, signalVars, appVars
<1>3. sendPc' = "select" => Len(sent) - acked < N
  BY SizeFact DEF IInv, OrderInv, checkWindow, park, resendSkipped, waitForSync,
     resendReturns, Running
<1>4. /\ sendPc' = "send" => sendPc = "send" /\ resendPc' = resendPc
      /\ resendPc' \in {"init", "loop", "sync"} => sendPc' \in {"select", "full"}
      /\ recvPc' = recvPc
      /\ resendPc' = "none"
  BY DEF IInv, OrderInv, checkWindow, park, resendSkipped, waitForSync,
     resendReturns, Running, resendVars, recvVars
<1>5. CursorInv' BY <1>4 DEF CursorInv
<1> QED BY <1>1, <1>2, <1>3, <1>4, <1>5, QuietStep

\* A resend starts.
LEMMA ResendStep ==
    ASSUME IInv, resend
    PROVE  IInv'
<1>1. UNCHANGED coreVars
  BY DEF resend, coreVars, queueVars, recvVars, streamVars
<1>2. TypeOK'
  BY Zenon DEF IInv, TypeOK, resend, queueVars, recvVars, streamVars, appVars
<1>3. /\ sendPc' = sendPc /\ sendPc \in {"select", "full"} /\ recvPc' = recvPc
      /\ resendPc' = "init"
  BY DEF resend, Running, recvVars
<1>4. CursorInv' BY <1>3 DEF CursorInv
<1>5. sendPc' = "select" => Len(sent) - acked < N BY <1>3 DEF IInv, OrderInv
<1> QED BY <1>1, <1>2, <1>3, <1>4, <1>5, QuietStep

\* resend takes its snapshot of base and top.
LEMMA InitResendStep ==
    ASSUME IInv, initResend
    PROVE  IInv'
<1>1. UNCHANGED coreVars
  BY DEF initResend, coreVars, queueVars, recvVars, streamVars
<1>2. TypeOK'
  BY Zenon DEF IInv, TypeOK, initResend, resendReturns, queueVars, recvVars, streamVars,
     appVars
<1>3. /\ resendPc = "init" /\ sendPc \in {"select", "full"} /\ recvPc' = recvPc
      /\ sendPc' = "select" => sendPc = "select"
      /\ sendPc' # "send"
      /\ resendPc' # "none" => sendPc' = sendPc
  BY DEF IInv, OrderInv, initResend, resendReturns, recvVars
<1>4. CursorInv'
  <2>1. size(sequenceBase, sequenceTop) <= Len(sent) BY SizeFact
  <2> QED BY <1>1, <2>1 DEF initResend, resendReturns, CursorInv, coreVars, size
<1>5. sendPc' = "select" => Len(sent) - acked < N BY <1>3 DEF IInv, OrderInv
<1> QED BY <1>1, <1>2, <1>3, <1>4, <1>5, QuietStep

\* One packet of the resend loop: the slot at the cursor holds a packet of the
\* last n, and the cursor moves one position on.
LEMMA ResendPacketStep ==
    ASSUME IInv, resendPacket
    PROVE  IInv'
<1> DEFINE d == size(resendBase, sequenceTop)
<1> DEFINE t == Len(sent)
<1> DEFINE c == t - d
<1>1. /\ resendPc = "loop" /\ resendBase' = succ(resendBase)
      /\ dataStream' = Append(dataStream, content[resendBase])
      /\ resendPc' = IF succ(resendBase) = resendTop THEN "sync" ELSE "loop"
      /\ UNCHANGED <<queueVars, sendPc, resendTop, resentRecently, signalVars,
                     recvVars, appVars, ctlStream, dups>>
  BY DEF resendPacket
<1>2. /\ resendBase \in Seqs /\ sequenceTop \in Seqs /\ t \in Nat
      /\ sequenceTop = t % s /\ resendTop = sequenceTop /\ resendBase # sequenceTop
      /\ d <= t
  BY <1>1, SizeFact DEF IInv, TypeOK, CursorInv, ResiduesInv
<1>3. d \in 1..N BY <1>2, SizeRange, SFact
<1>4. resendBase = c % s BY <1>2, SizeInverse
<1> HIDE DEF d, t
<1>5. c \in Nat /\ c + 1 \in 1..t /\ c + 1 > t - N /\ c + 1 > t - s /\ (c + 1) - 1 = c
  BY <1>2, <1>3, SFact
<1>6. content[resendBase] = sent[c + 1]
  <2> HIDE DEF c
  <2>1. content[((c + 1) - 1) % s] = sent[c + 1] BY <1>5 DEF IInv, ResiduesInv, t
  <2> QED BY <1>4, <1>5, <2>1
<1>7. DataInv' /\ dataStream' \in Seq(PacketData)
  <2> HIDE DEF c
  <2>1. dataStream' = Append(dataStream, sent[c + 1]) BY <1>1, <1>6
  <2>2. c + 1 \in 1..Len(sent) /\ c + 1 > Len(sent) - N BY <1>5 DEF t
  <2> QED BY <1>1, <2>1, <2>2, DataAppended DEF queueVars, recvVars
<1>8. resendBase' = (c + 1) % s /\ resendBase' \in Seqs
  <2> HIDE DEF c
  <2>1. c \in Nat /\ c + 1 \in Nat BY <1>5
  <2> QED BY <1>1, <1>4, <2>1, SuccResidue, ResidueInSeqs
<1>9. CursorInv'
  <2>1. size(resendBase', sequenceTop) <= t
    <3>1. d - 1 \in Nat /\ d - 1 <= N /\ (c + 1) + (d - 1) = t /\ c + 1 \in Nat
      BY <1>2, <1>3, <1>5, SFact
    <3> HIDE DEF c
    <3>2. size((c + 1) % s, ((c + 1) + (d - 1)) % s) = d - 1 BY <3>1, SizeIsDistance
    <3>3. size(resendBase', sequenceTop) = d - 1 BY <1>2, <1>8, <3>1, <3>2
    <3> QED BY <1>2, <1>3, <3>3
  <2>2. sequenceTop' = sequenceTop /\ Len(sent') = t /\ resendTop' = resendTop
    BY <1>1 DEF queueVars, t
  <2> QED BY <1>1, <1>2, <2>1, <2>2 DEF CursorInv, size
<1>10. TypeOK'
  BY <1>1, <1>7, <1>8 DEF IInv, TypeOK, queueVars, signalVars, recvVars, appVars
<1>11. ResiduesInv' /\ CtlInv'
  BY <1>1 DEF IInv, ResiduesInv, CtlInv, queueVars, recvVars
<1>12. OrderInv' BY <1>1 DEF IInv, OrderInv, queueVars, recvVars
<1> QED BY <1>7, <1>9, <1>10, <1>11, <1>12 DEF IInv

-----------------------------------------------------------------------------
(***************************************************************************)
(* ACKs and NACKs.                                                         *)
(***************************************************************************)
\* The base and the count of released packets move together to a position
\* between the old base and the receiver's.
LEMMA MoveBaseFact ==
    ASSUME IInv, NEW pos \in acked..Len(accepted), moveBase(pos % s)
    PROVE  acked' = pos /\ sequenceBase' = pos % s /\ sequenceBase' \in Seqs
<1> DEFINE d == pos - acked
<1>1. /\ Len(sent) \in Nat /\ Len(accepted) \in Nat /\ acked \in Nat
      /\ Len(sent) - acked <= N /\ Len(accepted) <= Len(sent)
      /\ sequenceBase = acked % s /\ N \in Nat
  BY SizeFact, SFact, Zenon DEF IInv, OrderInv, ResiduesInv
<1>2. pos \in Nat /\ d \in Nat /\ d <= N /\ acked + d = pos BY <1>1
<1> HIDE DEF d
<1>3. size(acked % s, (acked + d) % s) = d BY <1>1, <1>2, SizeIsDistance
<1>4. size(sequenceBase, pos % s) = d BY <1>1, <1>2, <1>3
<1>5. pos % s \in Seqs BY <1>2, ResidueInSeqs
<1> QED BY <1>2, <1>4, <1>5 DEF moveBase

\* Taking the first control message off the stream and moving the base to the
\* position it reports keeps the invariant.
LEMMA CtlStep ==
    ASSUME IInv, ctlStream # <<>>, ctlStream' = Tail(ctlStream),
           acked' = ctlStream[1].pos, sequenceBase' = ctlStream[1].pos % s,
           UNCHANGED <<sequenceTop, content, sent, resendVars, recvVars, appVars,
                       dataStream, dups>>,
           sendPc' = sendPc \/ (Running("full") /\ sendPc' = "check"),
           resendSignal' \in BOOLEAN, resendTick' \in BOOLEAN
    PROVE  IInv'
<1> DEFINE pos == ctlStream[1].pos
<1>1. /\ ctlStream \in Seq(CtlMsg) /\ Len(sent) \in Nat /\ Len(accepted) \in Nat
      /\ acked \in Nat
  BY SizeFact DEF IInv, TypeOK
<1>2. /\ ctlStream' \in Seq(CtlMsg) /\ Len(ctlStream') = Len(ctlStream) - 1
      /\ \A i \in 1..(Len(ctlStream) - 1) : ctlStream'[i] = ctlStream[i + 1]
      /\ Len(ctlStream) \in Nat /\ Len(ctlStream) >= 1
  BY <1>1, TailFacts
<1>3. pos \in acked..Len(accepted) /\ pos \in Nat
  BY <1>1, <1>2 DEF IInv, CtlInv
<1>4. pos % s \in Seqs BY <1>3, ResidueInSeqs
<1>5. TypeOK'
  BY <1>2, <1>3, <1>4 DEF IInv, TypeOK, resendVars, recvVars, appVars, Running
<1>6. ResiduesInv' /\ DataInv'
  BY DEF IInv, ResiduesInv, DataInv, recvVars
<1>7. CursorInv' BY DEF IInv, CursorInv, resendVars, size
<1>8. OrderInv'
  <2>1. acked' >= acked /\ acked' <= Len(accepted) /\ acked' \in Nat /\ N \in Nat
    BY <1>1, <1>3, SFact
  <2>2. Len(sent) - acked' <= N /\ (sendPc = "select" => Len(sent) - acked' < N)
    BY <1>1, <2>1, SFact, SMTT(30) DEF IInv, OrderInv
  <2> QED BY <2>1, <2>2 DEF IInv, OrderInv, resendVars, recvVars, Running
<1>9. CtlInv'
  <2> DEFINE l == Len(ctlStream)
  <2>1. \A i \in 1..(l - 1) : i + 1 \in 1..l /\ 1 \in 1..l /\ 1 < i + 1 BY <1>2
  <2>2. \A i, j \in 1..(l - 1) : i < j => i + 1 < j + 1 BY <1>2
  <2>3. \A i \in 1..(l - 1) : ctlStream[i + 1].pos \in pos..Len(accepted)
    <3> SUFFICES ASSUME NEW i \in 1..(l - 1)
                 PROVE  ctlStream[i + 1].pos \in pos..Len(accepted)
      OBVIOUS
    <3>1. ctlStream[i + 1].pos \in acked..Len(accepted) /\ pos <= ctlStream[i + 1].pos
      BY <2>1 DEF IInv, CtlInv
    <3> QED BY <1>1, <1>3, <3>1
  <2>4. \A i \in 1..(l - 1) :
          /\ ctlStream[i + 1].type = "NACK" =>
                 ctlStream[i + 1].seq = ctlStream[i + 1].pos % s
          /\ ctlStream[i + 1].type = "ACK" =>
                 /\ ctlStream[i + 1].pos > 0
                 /\ ctlStream[i + 1].seq = (ctlStream[i + 1].pos - 1) % s
    BY <2>1 DEF IInv, CtlInv
  <2>5. \A i, j \in 1..(l - 1) : i < j => ctlStream[i + 1].pos <= ctlStream[j + 1].pos
    BY <2>1, <2>2 DEF IInv, CtlInv
  <2>6. accepted' = accepted BY DEF recvVars
  <2> HIDE DEF pos
  <2> QED BY <1>2, <2>3, <2>4, <2>5, <2>6, SMTT(30) DEF CtlInv, pos
<1> QED BY <1>5, <1>6, <1>7, <1>8, <1>9 DEF IInv

\* What IInv says of the first control message.
LEMMA HeadCtl ==
    ASSUME IInv, ctlStream # <<>>
    PROVE  /\ Head(ctlStream) = ctlStream[1]
           /\ ctlStream[1].pos \in acked..Len(accepted)
           /\ ctlStream[1].type = "NACK" => ctlStream[1].seq = ctlStream[1].pos % s
           /\ ctlStream[1].type = "ACK" =>
                 /\ ctlStream[1].pos > 0
                 /\ ctlStream[1].seq = (ctlStream[1].pos - 1) % s
           /\ ctlStream[1].pos - acked \in 0..(Len(sent) - acked)
           /\ ctlStream[1].pos \in Nat
<1>1. ctlStream \in Seq(CtlMsg) BY DEF IInv, TypeOK
<1>2. Head(ctlStream) = ctlStream[1] /\ 1 \in 1..Len(ctlStream)
  BY <1>1, TailFacts
<1>3. ctlStream[1].pos \in acked..Len(accepted) BY <1>2 DEF IInv, CtlInv
<1>4. /\ Len(accepted) <= Len(sent) /\ Len(sent) \in Nat /\ Len(accepted) \in Nat
      /\ acked \in Nat
  BY SizeFact DEF IInv, OrderInv
<1>5. /\ ctlStream[1].pos - acked \in 0..(Len(sent) - acked)
      /\ ctlStream[1].pos \in Nat
  BY <1>3, <1>4
<1> QED BY <1>2, <1>3, <1>5 DEF IInv, CtlInv

\* An ACK moves the base to the position after the packet it acknowledges.
LEMMA RecvACKStep ==
    ASSUME IInv, recvACK
    PROVE  IInv'
<1> DEFINE pos == ctlStream[1].pos
<1> DEFINE e == pos - acked
<1> DEFINE d == Len(sent) - acked
<1>1. ctlStream # <<>> /\ ctlStream[1].type = "ACK"
  BY HeadCtl DEF recvACK
<1>2. /\ pos \in acked..Len(accepted) /\ pos > 0 /\ pos \in Nat
      /\ ctlStream[1].seq = (pos - 1) % s /\ e \in 0..d
      /\ Head(ctlStream) = ctlStream[1]
  BY <1>1, HeadCtl
<1>3. /\ acked \in Nat /\ d \in 0..N /\ sequenceBase = acked % s
      /\ acked + e = pos /\ acked + e >= 1 /\ acked + e - 1 = pos - 1
      /\ acked + d = Len(sent) /\ sequenceTop = Len(sent) % s
  <2>1. /\ acked \in Nat /\ Len(sent) \in Nat /\ d \in 0..N
        /\ sequenceBase = acked % s /\ sequenceTop = Len(sent) % s
    BY SizeFact DEF IInv, ResiduesInv
  <2>2. pos \in Nat /\ pos > 0 BY <1>2
  <2> HIDE DEF pos
  <2>3. acked + e = pos /\ acked + e >= 1 /\ acked + e - 1 = pos - 1 BY <2>1, <2>2
  <2>4. acked + d = Len(sent) BY <2>1
  <2> QED BY <2>1, <2>3, <2>4
<1> HIDE DEF e, d, pos
<1>4. ackedBase(acked % s, (acked + d) % s, (acked + e - 1) % s) = (acked + e) % s
  BY <1>2, <1>3, AckMovesBase, Zenon
<1>5. ackedBase(sequenceBase, sequenceTop, ctlStream[1].seq) = pos % s
  BY <1>2, <1>3, <1>4
<1>6. moveBase(pos % s)
  BY <1>2, <1>5 DEF recvACK
<1>7. acked' = pos /\ sequenceBase' = pos % s BY <1>2, <1>6, MoveBaseFact
<1>8. sendPc' = sendPc \/ (Running("full") /\ sendPc' = "check")
  BY DEF recvACK, signalACK
<1> QED
  BY <1>1, <1>7, <1>8, CtlStep, Zenon DEF recvACK, pos, IInv, TypeOK

\* A NACK moves the base to the position of the packet it asks for.
LEMMA RecvNACKStep ==
    ASSUME IInv, recvNACK
    PROVE  IInv'
<1> DEFINE pos == ctlStream[1].pos
<1> DEFINE e == pos - acked
<1> DEFINE d == Len(sent) - acked
<1>1. ctlStream # <<>> /\ ctlStream[1].type = "NACK"
  BY HeadCtl DEF recvNACK
<1>2. /\ pos \in acked..Len(accepted) /\ pos \in Nat
      /\ ctlStream[1].seq = pos % s /\ e \in 0..d
      /\ Head(ctlStream) = ctlStream[1]
  BY <1>1, HeadCtl
<1>3. /\ acked \in Nat /\ d \in 0..N /\ sequenceBase = acked % s
      /\ acked + e = pos /\ acked + d = Len(sent) /\ sequenceTop = Len(sent) % s
  BY <1>2, SizeFact, SMTT(30) DEF IInv, ResiduesInv
<1> HIDE DEF e, d, pos
<1>4. nackedBase(acked % s, (acked + d) % s, (acked + e) % s) = (acked + e) % s
  BY <1>2, <1>3, NackMovesBase, Zenon
<1>5. nackedBase(sequenceBase, sequenceTop, ctlStream[1].seq) = pos % s
  BY <1>2, <1>3, <1>4
<1>6. moveBase(pos % s) BY <1>2, <1>5 DEF recvNACK
<1>7. acked' = pos /\ sequenceBase' = pos % s BY <1>2, <1>6, MoveBaseFact, Zenon
<1>8. sendPc' = sendPc \/ (Running("full") /\ sendPc' = "check")
  BY DEF recvNACK, signalACK
<1>9. resendSignal' \in BOOLEAN BY Zenon DEF recvNACK, nackResend
<1> QED BY <1>1, <1>7, <1>8, <1>9, CtlStep, Zenon DEF recvNACK, pos

-----------------------------------------------------------------------------
(***************************************************************************)
(* The receiving endpoint and the transport.                               *)
(***************************************************************************)
\* Dropping the first data packet keeps what is said of the others.
LEMMA DataDropped ==
    ASSUME IInv, dataStream # <<>>, dataStream' = Tail(dataStream), sent' = sent,
           \/ accepted' = accepted
           \/ Len(accepted') = dataStream[1].id
    PROVE  DataInv' /\ dataStream' \in Seq(PacketData)
<1> DEFINE l == Len(dataStream)
<1>1. dataStream \in Seq(PacketData) BY DEF IInv, TypeOK
<1>2. /\ dataStream' \in Seq(PacketData) /\ Len(dataStream') = l - 1
      /\ \A i \in 1..(l - 1) : dataStream'[i] = dataStream[i + 1]
      /\ l \in Nat /\ l >= 1
  BY <1>1, TailFacts
<1>3. \A i \in 1..(l - 1) : i + 1 \in 1..l /\ 1 \in 1..l /\ 1 < i + 1 BY <1>2
<1>4. \A i, j \in 1..(l - 1) : i < j => i + 1 < j + 1 BY <1>2
<1>5. \A i \in 1..(l - 1) :
          /\ dataStream[i + 1].id \in 1..Len(sent)
          /\ dataStream[i + 1] = sent[dataStream[i + 1].id]
          /\ dataStream[i + 1].id > Len(accepted) - N
          /\ dataStream[i + 1].id > dataStream[1].id - N
  BY <1>3 DEF IInv, DataInv
<1>6. \A i \in 1..(l - 1) : dataStream[i + 1].id > Len(accepted') - N
  BY <1>5
<1>7. \A i, j \in 1..(l - 1) :
          i < j => dataStream[j + 1].id > dataStream[i + 1].id - N
  BY <1>3, <1>4 DEF IInv, DataInv
<1> HIDE DEF l
<1> QED BY <1>2, <1>5, <1>6, <1>7 DEF DataInv

\* Appending an ACK or NACK for the receiver's position.
LEMMA CtlAppended ==
    ASSUME IInv, NEW m \in CtlMsg, m.pos = Len(accepted'),
           Len(accepted') \in Nat, Len(accepted') >= Len(accepted),
           m.type = "NACK" => m.seq = m.pos % s,
           m.type = "ACK" => m.pos > 0 /\ m.seq = (m.pos - 1) % s,
           ctlStream' = Append(ctlStream, m), acked' = acked
    PROVE  CtlInv' /\ ctlStream' \in Seq(CtlMsg)
<1> DEFINE l == Len(ctlStream)
<1>1. /\ ctlStream \in Seq(CtlMsg) /\ acked \in Nat /\ Len(accepted) \in Nat
      /\ acked <= Len(accepted)
  BY SizeFact DEF IInv, TypeOK, OrderInv
<1>2. /\ ctlStream' \in Seq(CtlMsg) /\ Len(ctlStream') = l + 1
      /\ \A i \in 1..l : ctlStream'[i] = ctlStream[i]
      /\ ctlStream'[l + 1] = m /\ l \in Nat
  BY <1>1, AppendFacts
<1>3. \A i \in 1..l : /\ ctlStream[i].pos \in acked..Len(accepted)
                      /\ ctlStream[i].type = "NACK" =>
                            ctlStream[i].seq = ctlStream[i].pos % s
                      /\ ctlStream[i].type = "ACK" =>
                            /\ ctlStream[i].pos > 0
                            /\ ctlStream[i].seq = (ctlStream[i].pos - 1) % s
  BY DEF IInv, CtlInv
<1>4. \A i, j \in 1..l : i < j => ctlStream[i].pos <= ctlStream[j].pos
  BY Zenon DEF IInv, CtlInv
<1> HIDE DEF l
<1>5. \A i \in 1..l : ctlStream[i].pos \in acked..Len(accepted') BY <1>1, <1>3
<1>6. m.pos \in acked..Len(accepted') BY <1>1
<1>7. \A i \in 1..l : ctlStream[i].pos <= m.pos BY <1>1, <1>3
<1>8. \A i \in 1..(l + 1) : i \in 1..l \/ i = l + 1 BY <1>2
<1>9. \A i, j \in 1..(l + 1) : i < j => i \in 1..l BY <1>2
<1>10. \A i, j \in 1..(l + 1) : i < j => ctlStream'[i].pos <= ctlStream'[j].pos
  <2> SUFFICES ASSUME NEW i \in 1..(l + 1), NEW j \in 1..(l + 1), i < j
               PROVE  ctlStream'[i].pos <= ctlStream'[j].pos
    BY Zenon
  <2>1. i \in 1..l BY <1>9
  <2>2. CASE j \in 1..l BY <2>1, <2>2, <1>2, <1>4
  <2>3. CASE j = l + 1 BY <2>1, <2>3, <1>2, <1>7
  <2> QED BY <2>2, <2>3, <1>8, Zenon
<1>11. \A i \in 1..(l + 1) :
          /\ ctlStream'[i].pos \in acked..Len(accepted')
          /\ ctlStream'[i].type = "NACK" => ctlStream'[i].seq = ctlStream'[i].pos % s
          /\ ctlStream'[i].type = "ACK" =>
                /\ ctlStream'[i].pos > 0
                /\ ctlStream'[i].seq = (ctlStream'[i].pos - 1) % s
  <2> SUFFICES ASSUME NEW i \in 1..(l + 1)
               PROVE  /\ ctlStream'[i].pos \in acked..Len(accepted')
                      /\ ctlStream'[i].type = "NACK" =>
                            ctlStream'[i].seq = ctlStream'[i].pos % s
                      /\ ctlStream'[i].type = "ACK" =>
                            /\ ctlStream'[i].pos > 0
                            /\ ctlStream'[i].seq = (ctlStream'[i].pos - 1) % s
    BY Zenon
  <2>1. CASE i \in 1..l BY <2>1, <1>2, <1>3, <1>5
  <2>2. CASE i = l + 1 BY <2>2, <1>2, <1>6
  <2> QED BY <2>1, <2>2, <1>8, Zenon
<1> QED BY <1>2, <1>10, <1>11 DEF CtlInv

\* The packet that carries the expected sequence number is the next one: no
\* other position of the window of in-flight packets has its residue.
LEMMA ExpectedIsNext ==
    ASSUME IInv, dataStream # <<>>, Head(dataStream).seq = recvSeq
    PROVE  /\ Head(dataStream) = dataStream[1]
           /\ dataStream[1].id = Len(accepted) + 1
           /\ Len(accepted) + 1 <= Len(sent)
           /\ dataStream[1] = sent[Len(accepted) + 1]
           /\ dataStream[1] \in PacketData
<1> DEFINE k == dataStream[1].id
<1> DEFINE a == Len(accepted)
<1>1. dataStream \in Seq(PacketData) BY DEF IInv, TypeOK
<1>2. /\ Head(dataStream) = dataStream[1] /\ 1 \in 1..Len(dataStream)
      /\ dataStream[1] \in PacketData
  BY <1>1, TailFacts
<1>3. /\ k \in 1..Len(sent) /\ dataStream[1] = sent[k] /\ k > a - N
      /\ sent[k].seq = (k - 1) % s /\ recvSeq = a % s
  BY <1>2 DEF IInv, DataInv, ResiduesInv
<1>4. /\ Len(sent) \in Nat /\ a \in Nat /\ acked \in Nat /\ N \in Nat /\ s = N + 1
      /\ acked <= a /\ Len(sent) - acked <= N
  BY SizeFact, SFact DEF IInv, OrderInv
<1>5. (k - 1) % s = a % s BY <1>2, <1>3
<1> HIDE DEF k, a
<1>6. k - 1 \in Nat /\ (k - 1) - a < s /\ a - (k - 1) < s BY <1>3, <1>4
<1>7. k - 1 = a BY <1>4, <1>5, <1>6, ResidueUnique
<1>8. k = a + 1 /\ a + 1 <= Len(sent) BY <1>3, <1>4, <1>7, SMTT(30)
<1> QED BY <1>2, <1>3, <1>8 DEF k, a

\* What DeliveredInOrder says of the packets q handed on, of those in acc.
Handed(q, acc) ==
    /\ \A k \in 1..Len(q) :
          q[k].id \in 1..Len(acc) /\ q[k] = acc[q[k].id] /\ ~q[k].ping
    /\ \A k, l \in 1..Len(q) : k < l => q[k].id < q[l].id
    /\ \A i \in 1..Len(acc) : ~acc[i].ping => \E k \in 1..Len(q) : q[k].id = i

\* One more packet m is accepted, and handed on unless it is a ping.
LEMMA HandedMore ==
    ASSUME NEW q \in Seq(PacketData), NEW acc \in Seq(PacketData), Handed(q, acc),
           NEW m \in PacketData, m.id = Len(acc) + 1
    PROVE  /\ m.ping => Handed(q, Append(acc, m))
           /\ ~m.ping => Handed(Append(q, m), Append(acc, m))
<1> DEFINE a == Append(acc, m)
           n == Len(acc)
<1>1. /\ a \in Seq(PacketData) /\ Len(a) = n + 1 /\ n \in Nat /\ a[n + 1] = m
      /\ \A i \in 1..n : a[i] = acc[i]
  BY AppendFacts
<1> HIDE DEF a, n
<1>2. \A k \in 1..Len(q) :
          /\ q[k].id \in 1..n /\ q[k].id \in 1..Len(a)
          /\ q[k] = a[q[k].id] /\ ~q[k].ping
  <2>1. \A k \in 1..Len(q) : q[k].id \in 1..n /\ q[k] = acc[q[k].id] /\ ~q[k].ping
    BY DEF Handed, n
  <2> QED BY <1>1, <2>1
<1>3. \A k, l \in 1..Len(q) : k < l => q[k].id < q[l].id
  BY DEF Handed
<1>4. \A i \in 1..n : ~a[i].ping => \E k \in 1..Len(q) : q[k].id = i
  BY <1>1 DEF Handed, n
<1>5. \A i \in 1..Len(a) : i \in 1..n \/ i = n + 1
  BY <1>1
<1>6. ASSUME m.ping PROVE Handed(q, a)
  BY <1>1, <1>2, <1>3, <1>4, <1>5, <1>6, Zenon DEF Handed
<1>7. ASSUME ~m.ping PROVE Handed(Append(q, m), a)
  <2> DEFINE b == Append(q, m)
             j == Len(q)
  <2>1. /\ Len(b) = j + 1 /\ j \in Nat /\ b[j + 1] = m
        /\ \A k \in 1..j : b[k] = q[k]
    BY AppendFacts
  <2> HIDE DEF b, j
  <2>2. /\ \A k \in 1..Len(b) : k \in 1..j \/ k = j + 1
        /\ j + 1 \in 1..Len(b) /\ n + 1 \in 1..Len(a)
        /\ \A k \in 1..j : k \in 1..Len(b)
    BY <1>1, <2>1
  <2>3. \A k \in 1..Len(b) : b[k].id \in 1..Len(a) /\ b[k] = a[b[k].id] /\ ~b[k].ping
    <3>1. ASSUME NEW k \in 1..j
          PROVE  b[k].id \in 1..Len(a) /\ b[k] = a[b[k].id] /\ ~b[k].ping
      BY <1>2, <2>1, Zenon DEF j
    <3>2. m.id \in 1..Len(a) /\ m = a[m.id] BY <1>1, <2>2 DEF n
    <3> QED BY <1>7, <2>1, <2>2, <3>1, <3>2, Zenon
  <2>4. \A k, l \in 1..Len(b) : k < l => b[k].id < b[l].id
    <3> SUFFICES ASSUME NEW k \in 1..Len(b), NEW l \in 1..Len(b), k < l
                 PROVE  b[k].id < b[l].id
      OBVIOUS
    <3>1. k \in 1..j BY <2>1
    <3>2. CASE l \in 1..j BY <1>3, <2>1, <3>1, <3>2, Zenon DEF j
    <3>3. CASE l = j + 1
      <4>1. b[k].id \in 1..n BY <1>2, <2>1, <3>1, Zenon DEF j
      <4>2. b[l].id = n + 1 BY <2>1, <3>3 DEF n
      <4> QED BY <1>1, <4>1, <4>2
    <3> QED BY <2>2, <3>2, <3>3
  <2>5. \A i \in 1..Len(a) : ~a[i].ping => \E k \in 1..Len(b) : b[k].id = i
    <3> SUFFICES ASSUME NEW i \in 1..Len(a), ~a[i].ping
                 PROVE  \E k \in 1..Len(b) : b[k].id = i
      OBVIOUS
    <3>1. CASE i \in 1..n
      <4>1. PICK k \in 1..j : q[k].id = i BY <1>4, <3>1 DEF j
      <4> QED BY <2>1, <2>2, <4>1, Zenon
    <3>2. CASE i = n + 1
      <4>1. b[j + 1].id = i BY <2>1, <3>2 DEF n
      <4> QED BY <2>2, <4>1, Zenon
    <3> QED BY <1>5, <3>1, <3>2
  <2>6. Handed(b, a) BY <2>3, <2>4, <2>5, Zenon DEF Handed
  <2> QED BY <2>6 DEF b
<1> QED BY <1>6, <1>7, Zenon DEF a

\* What is handed on, with the packet that the receive goroutine holds apart.
LEMMA HandedParts ==
    ASSUME IInv
    PROVE  /\ received \in Seq(PacketData) /\ recvDataChan \in Seq(PacketData)
           /\ accepted \in Seq(PacketData) /\ handedOn \in Seq(PacketData)
           /\ recvPc = "deliver" =>
                 /\ accepted[Len(accepted)] \in PacketData
                 /\ handedOn = Append(received \o recvDataChan, accepted[Len(accepted)])
           /\ recvPc # "deliver" => handedOn = received \o recvDataChan
<1>1. /\ received \in Seq(PacketData) /\ recvDataChan \in Seq(PacketData)
      /\ accepted \in Seq(PacketData) /\ (recvPc = "deliver" => accepted # <<>>)
  BY DEF IInv, TypeOK, OrderInv
<1>2. ASSUME recvPc = "deliver"
      PROVE  /\ accepted[Len(accepted)] \in PacketData
             /\ handedOn = Append(received \o recvDataChan, accepted[Len(accepted)])
  <2>1. accepted[Len(accepted)] \in PacketData BY <1>1, <1>2
  <2>2. (received \o recvDataChan) \o <<accepted[Len(accepted)]>>
          = Append(received \o recvDataChan, accepted[Len(accepted)])
    BY <1>1, <2>1, HandFacts, Zenon
  <2> QED BY <1>2, <2>1, <2>2, Zenon DEF handedOn
<1>3. ASSUME recvPc # "deliver" PROVE handedOn = received \o recvDataChan
  <2>1. (received \o recvDataChan) \o <<>> = received \o recvDataChan
    BY <1>1, HandFacts, Zenon
  <2> QED BY <1>3, <2>1, Zenon DEF handedOn
<1>4. received \o recvDataChan \in Seq(PacketData) BY <1>1, HandFacts, Zenon
<1>5. handedOn \in Seq(PacketData)
  <2>1. CASE recvPc = "deliver" BY <1>2, <1>4, <2>1, AppendFacts, Zenon
  <2> QED BY <1>3, <1>4, <2>1, Zenon
<1> QED BY <1>1, <1>2, <1>3, <1>5, Zenon

\* recvExpected, deliver and Recv: a packet is accepted, put into recvDataChan
\* and taken out of it.
LEMMA HandedStep ==
    ASSUME IInv, IInv', DeliveredInOrder, recvExpected \/ deliver \/ Recv
    PROVE  DeliveredInOrder'
<1>1. Handed(handedOn, accepted) BY Zenon DEF Handed, DeliveredInOrder
<1>2. ASSUME Handed(handedOn', accepted') PROVE DeliveredInOrder'
  BY <1>2, Zenon DEF Handed, DeliveredInOrder
<1>3. CASE recvExpected
  <2> DEFINE m == dataStream[1]
  <2>1. /\ recvPc = "recv" /\ Head(dataStream) = m /\ m.id = Len(accepted) + 1
        /\ m \in PacketData
    BY <1>3, ExpectedIsNext DEF recvExpected
  <2>2. /\ accepted' = Append(accepted, m)
        /\ recvPc' = IF m.ping THEN "recv" ELSE "deliver"
        /\ received' = received /\ recvDataChan' = recvDataChan
    BY <1>3, <2>1, Zenon DEF recvExpected, appVars
  <2> HIDE DEF m
  <2>3. handedOn = received \o recvDataChan BY <2>1, HandedParts
  <2>4. /\ accepted \in Seq(PacketData) /\ handedOn \in Seq(PacketData)
        /\ received \in Seq(PacketData) /\ recvDataChan \in Seq(PacketData)
    BY HandedParts, Zenon
  <2>5. /\ m.ping => Handed(handedOn, accepted')
        /\ ~m.ping => Handed(Append(handedOn, m), accepted')
    BY <1>1, <2>1, <2>2, <2>4, HandedMore, Zenon
  <2>6. accepted'[Len(accepted')] = m BY <2>1, <2>2, <2>4, AppendFacts
  <2>7. /\ m.ping => handedOn' = (received \o recvDataChan) \o <<>>
        /\ ~m.ping => handedOn' = (received \o recvDataChan) \o <<m>>
    BY <2>2, <2>6 DEF handedOn
  <2>8. /\ m.ping => handedOn' = handedOn
        /\ ~m.ping => handedOn' = Append(handedOn, m)
    <3>1. /\ (received \o recvDataChan) \o <<>> = received \o recvDataChan
          /\ (received \o recvDataChan) \o <<m>> = Append(received \o recvDataChan, m)
      BY <2>1, <2>4, HandFacts, Zenon
    <3> QED BY <2>3, <2>7, <3>1, Zenon
  <2> QED BY <1>2, <2>5, <2>8, Zenon
<1>4. CASE deliver
  <2> DEFINE x == accepted[Len(accepted)]
  <2>1. /\ recvPc = "deliver" /\ recvDataChan' = Append(recvDataChan, x)
        /\ recvPc' = "recv" /\ accepted' = accepted /\ received' = received
    BY <1>4, Zenon DEF deliver
  <2>2. /\ x \in PacketData /\ handedOn = Append(received \o recvDataChan, x)
        /\ received \in Seq(PacketData) /\ recvDataChan \in Seq(PacketData)
    BY <2>1, HandedParts
  <2> HIDE DEF x
  <2>3. received \o Append(recvDataChan, x) = Append(received \o recvDataChan, x)
    BY <2>2, HandFacts, Zenon
  <2>4. Append(recvDataChan, x) \in Seq(PacketData) BY <2>2, AppendFacts, Zenon
  <2>5. handedOn' = (received \o Append(recvDataChan, x)) \o <<>>
    BY <2>1 DEF handedOn
  <2>6. handedOn' = received \o Append(recvDataChan, x)
    BY <2>2, <2>4, <2>5, HandFacts, Zenon
  <2> QED BY <1>1, <1>2, <2>1, <2>2, <2>3, <2>6, Zenon
<1>5. CASE Recv
  <2> DEFINE x == IF recvPc = "deliver" THEN <<accepted[Len(accepted)]>> ELSE <<>>
  <2>1. /\ recvDataChan # <<>> /\ received' = Append(received, Head(recvDataChan))
        /\ recvDataChan' = Tail(recvDataChan) /\ accepted' = accepted /\ recvPc' = recvPc
    BY <1>5, Zenon DEF Recv, recvVars
  <2>2. handedOn' = (Append(received, Head(recvDataChan)) \o Tail(recvDataChan)) \o x
    BY <2>1, Zenon DEF handedOn
  <2>3. Append(received, Head(recvDataChan)) \o Tail(recvDataChan) = received \o recvDataChan
    BY <2>1, HandFacts, HandedParts, Zenon
  <2>4. handedOn' = handedOn BY <2>2, <2>3, Zenon DEF handedOn
  <2> QED BY <1>1, <1>2, <2>1, <2>4, Zenon
<1> QED BY <1>3, <1>4, <1>5

\* Accepting the expected packet.
LEMMA RecvExpectedStep ==
    ASSUME IInv, recvExpected
    PROVE  /\ IInv'
           /\ accepted' = Append(accepted, sent[Len(accepted) + 1])
           /\ Len(accepted) + 1 <= Len(sent)
<1> DEFINE m == dataStream[1]
<1> DEFINE a == Len(accepted)
<1> DEFINE ack == [type |-> "ACK", seq |-> m.seq, pos |-> a + 1]
<1>1. dataStream # <<>> /\ Head(dataStream).seq = recvSeq BY DEF recvExpected
<1>2. /\ Head(dataStream) = m /\ m.id = a + 1 /\ a + 1 <= Len(sent)
      /\ m = sent[a + 1] /\ m \in PacketData
  BY <1>1, ExpectedIsNext
<1>3. /\ accepted' = Append(accepted, m) /\ ctlStream' = Append(ctlStream, ack)
      /\ dataStream' = Tail(dataStream) /\ recvSeq' = succ(recvSeq)
      /\ recvPc' = IF m.ping THEN "recv" ELSE "deliver"
      /\ UNCHANGED <<queueVars, sendPc, resendVars, signalVars, lastNackSeq,
                     nackRecent, appVars, dups>>
  BY <1>2 DEF recvExpected
<1>4. /\ accepted \in Seq(PacketData) /\ a \in Nat /\ Len(sent) \in Nat
      /\ acked \in Nat /\ recvSeq = a % s /\ recvSeq \in Seqs
  BY SizeFact, Zenon DEF IInv, TypeOK, ResiduesInv
<1>5. /\ accepted' \in Seq(PacketData) /\ Len(accepted') = a + 1
      /\ \A i \in 1..a : accepted'[i] = accepted[i]
      /\ accepted'[a + 1] = m
  <2> HIDE DEF m
  <2> QED BY <1>2, <1>3, <1>4, AppendFacts
<1>6. DataInv' /\ dataStream' \in Seq(PacketData)
  BY <1>1, <1>2, <1>3, <1>5, DataDropped DEF queueVars
<1>7. m.seq \in Seqs /\ m.seq = a % s /\ a + 1 \in Nat /\ a + 1 > 0 /\ (a + 1) - 1 = a
  BY <1>1, <1>2, <1>4
<1> HIDE DEF a, m
<1>8. CtlInv' /\ ctlStream' \in Seq(CtlMsg)
  <2>1. /\ ack \in CtlMsg /\ ack.pos = Len(accepted') /\ ack.type = "ACK"
        /\ ack.seq = (ack.pos - 1) % s /\ ack.pos > 0
    BY <1>5, <1>7 DEF CtlMsg
  <2>2. Len(accepted') \in Nat /\ Len(accepted') >= Len(accepted)
    BY <1>4, <1>5 DEF a
  <2>3. acked' = acked BY <1>3 DEF queueVars
  <2> HIDE DEF ack
  <2> QED BY <1>3, <2>1, <2>2, <2>3, CtlAppended
<1>9. recvSeq' = Len(accepted') % s /\ recvSeq' \in Seqs
  BY <1>3, <1>4, <1>5, <1>7, SuccResidue, ResidueInSeqs
<1>10. TypeOK'
  BY <1>3, <1>5, <1>6, <1>8, <1>9 DEF IInv, TypeOK, queueVars, resendVars,
     signalVars, appVars
<1>11. ResiduesInv' BY <1>3, <1>9, Zenon DEF IInv, ResiduesInv, queueVars
<1>12. OrderInv'
  <2>1. \A i \in 1..(a + 1) : accepted'[i] = sent[i]
    <3> SUFFICES ASSUME NEW i \in 1..(a + 1) PROVE accepted'[i] = sent[i]
      OBVIOUS
    <3>1. CASE i \in 1..a BY <3>1, <1>5 DEF IInv, OrderInv, a
    <3>2. CASE i = a + 1 BY <3>2, <1>2, <1>5
    <3> QED BY <1>4, <3>1, <3>2
  <2>2. acked <= a + 1 BY <1>4 DEF IInv, OrderInv, a
  <2>3. accepted' # <<>> BY <1>4, <1>5
  <2> QED
    BY <1>2, <1>3, <1>5, <2>1, <2>2, <2>3 DEF IInv, OrderInv, queueVars, resendVars
<1>13. CursorInv' BY <1>3 DEF IInv, CursorInv, queueVars, resendVars, size
<1>14. IInv' BY <1>6, <1>8, <1>10, <1>11, <1>12, <1>13 DEF IInv
<1> QED BY <1>2, <1>3, <1>14 DEF a

\* A packet that is not the expected one, with or without a NACK.
LEMMA RecvUnexpectedStep ==
    ASSUME IInv, recvUnexpected \/ recvUnexpectedQuietly
    PROVE  IInv'
<1>1. /\ dataStream # <<>> /\ dataStream' = Tail(dataStream)
      /\ UNCHANGED <<queueVars, sendPc, resendVars, signalVars, recvSeq, recvPc,
                     accepted, appVars, dups>>
  BY DEF recvUnexpected, recvUnexpectedQuietly, recvVars
<1>2. DataInv' /\ dataStream' \in Seq(PacketData)
  BY <1>1, DataDropped DEF queueVars
<1>3. /\ Len(accepted) \in Nat /\ recvSeq = Len(accepted) % s /\ recvSeq \in Seqs
  BY SizeFact DEF IInv, ResiduesInv, TypeOK
<1>4. CtlInv' /\ ctlStream' \in Seq(CtlMsg)
  <2>1. CASE recvUnexpected
    <3> DEFINE m == [type |-> "NACK", seq |-> recvSeq, pos |-> Len(accepted)]
    <3>1. m \in CtlMsg /\ m.pos = Len(accepted) /\ m.seq = m.pos % s /\ m.type = "NACK"
      BY <1>3, Zenon DEF CtlMsg
    <3>2. ctlStream' = Append(ctlStream, m) BY <2>1 DEF recvUnexpected
    <3>3. accepted' = accepted /\ acked' = acked BY <1>1 DEF queueVars
    <3>4. Len(accepted') \in Nat /\ Len(accepted') >= Len(accepted) BY <1>3, <3>3
    <3> HIDE DEF m
    <3> QED BY <3>1, <3>2, <3>3, <3>4, CtlAppended
  <2>2. CASE recvUnexpectedQuietly
    BY <1>1, <2>2, Zenon DEF recvUnexpectedQuietly, IInv, CtlInv, TypeOK, queueVars
  <2> QED BY <2>1, <2>2
<1>5. lastNackSeq' \in Seqs /\ nackRecent' \in BOOLEAN
  BY <1>3, Zenon DEF IInv, TypeOK, recvUnexpected, recvUnexpectedQuietly, recvVars
<1>6. TypeOK'
  BY <1>1, <1>2, <1>4, <1>5 DEF IInv, TypeOK, queueVars, resendVars, signalVars,
     appVars
<1>7. ResiduesInv' /\ OrderInv' /\ CursorInv'
  BY <1>1 DEF IInv, ResiduesInv, OrderInv, CursorInv, queueVars, resendVars, size
<1> QED BY <1>2, <1>4, <1>6, <1>7 DEF IInv

\* deliver, Recv and the passage of time leave the link alone.
LEMMA RecvControlStep ==
    ASSUME IInv,
           deliver \/ Recv \/ recvPeerPacket \/ tickResend \/ resendGateOpens \/ nackGateOpens
    PROVE  IInv'
<1>1. /\ UNCHANGED coreVars
      /\ UNCHANGED <<sendPc, resendPc, resendBase, resendTop>>
      /\ recvPc' = "deliver" => recvPc = "deliver"
  BY DEF deliver, Recv, recvPeerPacket, tickResend, resendGateOpens, nackGateOpens,
     coreVars,
     queueVars, recvVars, streamVars, resendVars
<1>2. TypeOK'
  <2>1. recvDataChan' \in Seq(PacketData) /\ received' \in Seq(PacketData)
    <3>0. /\ recvDataChan \in Seq(PacketData) /\ received \in Seq(PacketData)
          /\ accepted \in Seq(PacketData)
      BY DEF IInv, TypeOK
    <3>1. CASE deliver
      <4>1. accepted # <<>> BY <3>1 DEF deliver, IInv, OrderInv
      <4>2. Len(accepted) \in 1..Len(accepted) BY <3>0, <4>1, TailFacts
      <4>3. accepted[Len(accepted)] \in PacketData BY <3>0, <4>2
      <4> QED BY <3>0, <3>1, <4>3, AppendFacts DEF deliver
    <3>2. CASE Recv BY <3>0, <3>2, TailFacts, AppendFacts DEF Recv
    <3>3. CASE recvPeerPacket \/ tickResend \/ resendGateOpens \/ nackGateOpens
      BY <3>0, <3>3
         DEF recvPeerPacket, tickResend, resendGateOpens, nackGateOpens, appVars
    <3> QED BY <3>1, <3>2, <3>3
  <2>2. /\ resendSignal' \in BOOLEAN /\ resendTick' \in BOOLEAN
        /\ resentRecently' \in BOOLEAN /\ nackRecent' \in BOOLEAN
        /\ lastNackSeq' \in Seqs /\ recvPc' \in {"recv", "deliver"} /\ dups' \in Nat
    BY Zenon DEF IInv, TypeOK, deliver, Recv, recvPeerPacket, tickResend,
       resendGateOpens, nackGateOpens,
       recvVars, streamVars, resendVars, signalVars
  <2> QED BY <1>1, <2>1, <2>2 DEF IInv, TypeOK, coreVars
<1>3. CursorInv' BY <1>1 DEF IInv, CursorInv, coreVars, size
<1>4. /\ sendPc' = "select" => Len(sent) - acked < N
      /\ sendPc' = "send" => sendPc = "send" /\ resendPc' = resendPc
      /\ resendPc' \in {"init", "loop", "sync"} => sendPc' \in {"select", "full"}
  BY <1>1 DEF IInv, OrderInv
<1> QED BY <1>1, <1>2, <1>3, <1>4, QuietStep

\* The transport drops or repeats a data packet.
LEMMA DataTransportStep ==
    ASSUME IInv, loseData \/ duplicateData
    PROVE  IInv'
<1>1. /\ dataStream # <<>>
      /\ UNCHANGED <<queueVars, sendPc, resendVars, signalVars, recvVars, appVars,
                     ctlStream>>
  BY DEF loseData, duplicateData
<1>2. DataInv' /\ dataStream' \in Seq(PacketData)
  <2>1. CASE loseData
    BY <1>1, <2>1, DataDropped DEF loseData, queueVars, recvVars
  <2>2. CASE duplicateData
    <3> DEFINE l == Len(dataStream)
    <3> DEFINE p == dataStream[l]
    <3>1. /\ dataStream \in Seq(PacketData) /\ N \in Nat /\ N >= 1
          /\ Len(sent) \in Nat
      BY SFact, SizeFact DEF IInv, TypeOK
    <3>2. l \in 1..l /\ l \in Nat BY <1>1, <3>1, TailFacts
    <3>3. p \in PacketData BY <3>1, <3>2
    <3>4. dataStream' = Append(dataStream, p) /\ sent' = sent /\ accepted' = accepted
      BY <1>1, <2>2 DEF duplicateData, queueVars, recvVars
    <3>5. /\ p.id \in 1..Len(sent) /\ p = sent[p.id] /\ p.id > Len(accepted) - N
          /\ \A i \in 1..l : dataStream[i].id \in 1..Len(sent)
          /\ \A i \in 1..l : i < l => p.id > dataStream[i].id - N
      BY <3>2 DEF IInv, DataInv
    <3>6. \A i \in 1..l : p.id > dataStream[i].id - N
      <4> SUFFICES ASSUME NEW i \in 1..l PROVE p.id > dataStream[i].id - N
        OBVIOUS
      <4>1. CASE i < l BY <4>1, <3>5
      <4>2. CASE i = l BY <4>2, <3>1, <3>5
      <4> QED BY <4>1, <4>2, <3>2
    <3> HIDE DEF p
    <3>7. /\ dataStream' \in Seq(PacketData) /\ Len(dataStream') = l + 1
          /\ \A i \in 1..l : dataStream'[i] = dataStream[i]
          /\ dataStream'[l + 1] = p
      BY <3>1, <3>3, <3>4, AppendFacts
    <3>8. /\ \A i \in 1..l : /\ dataStream[i].id \in 1..Len(sent)
                             /\ dataStream[i] = sent[dataStream[i].id]
                             /\ dataStream[i].id > Len(accepted) - N
          /\ \A i, j \in 1..l : i < j => dataStream[j].id > dataStream[i].id - N
      BY DEF IInv, DataInv
    <3> HIDE DEF l
    <3>9. \A i \in 1..(l + 1) : i \in 1..l \/ i = l + 1 BY <3>2
    <3>10. \A i, j \in 1..(l + 1) : i < j => i \in 1..l BY <3>2
    <3>11. \A i \in 1..(l + 1) : /\ dataStream'[i].id \in 1..Len(sent)
                                 /\ dataStream'[i] = sent[dataStream'[i].id]
                                 /\ dataStream'[i].id > Len(accepted) - N
      <4> SUFFICES ASSUME NEW i \in 1..(l + 1)
                   PROVE  /\ dataStream'[i].id \in 1..Len(sent)
                          /\ dataStream'[i] = sent[dataStream'[i].id]
                          /\ dataStream'[i].id > Len(accepted) - N
        OBVIOUS
      <4>1. CASE i \in 1..l BY <4>1, <3>7, <3>8
      <4>2. CASE i = l + 1 BY <4>2, <3>5, <3>7
      <4> QED BY <4>1, <4>2, <3>9
    <3>12. \A i, j \in 1..(l + 1) : i < j => dataStream'[j].id > dataStream'[i].id - N
      <4> SUFFICES ASSUME NEW i \in 1..(l + 1), NEW j \in 1..(l + 1), i < j
                   PROVE  dataStream'[j].id > dataStream'[i].id - N
        OBVIOUS
      <4>1. i \in 1..l BY <3>10
      <4>2. CASE j \in 1..l BY <4>1, <4>2, <3>7, <3>8
      <4>3. CASE j = l + 1 BY <4>1, <4>3, <3>6, <3>7
      <4> QED BY <4>2, <4>3, <3>9
    <3> QED BY <3>4, <3>7, <3>11, <3>12, Zenon DEF DataInv
  <2> QED BY <2>1, <2>2
<1>3. dups' \in Nat BY DEF IInv, TypeOK, loseData, duplicateData
<1>4. TypeOK'
  BY <1>1, <1>2, <1>3, Zenon DEF IInv, TypeOK, queueVars, resendVars, signalVars, recvVars,
     appVars
<1>5. ResiduesInv' /\ OrderInv' /\ CursorInv' /\ CtlInv'
  BY <1>1 DEF IInv, ResiduesInv, OrderInv, CursorInv, CtlInv, queueVars, resendVars,
     recvVars, size
<1> QED BY <1>2, <1>4, <1>5 DEF IInv

\* The transport drops an ACK or NACK.
LEMMA LoseCtlStep ==
    ASSUME IInv, loseCtl
    PROVE  IInv'
<1> DEFINE l == Len(ctlStream)
<1>1. /\ ctlStream # <<>> /\ ctlStream' = Tail(ctlStream)
      /\ UNCHANGED <<queueVars, sendPc, resendVars, signalVars, recvVars, appVars,
                     dataStream, dups>>
  BY DEF loseCtl
<1>2. ctlStream \in Seq(CtlMsg) BY DEF IInv, TypeOK
<1>3. /\ ctlStream' \in Seq(CtlMsg) /\ Len(ctlStream') = l - 1
      /\ \A i \in 1..(l - 1) : ctlStream'[i] = ctlStream[i + 1]
      /\ l \in Nat /\ l >= 1
  BY <1>1, <1>2, TailFacts
<1>4. CtlInv'
  <2>1. \A i \in 1..(l - 1) : i + 1 \in 1..l BY <1>3
  <2>2. \A i, j \in 1..(l - 1) : i < j => i + 1 < j + 1 BY <1>3
  <2>3. \A i \in 1..(l - 1) :
          /\ ctlStream[i + 1].pos \in acked..Len(accepted)
          /\ ctlStream[i + 1].type = "NACK" =>
                 ctlStream[i + 1].seq = ctlStream[i + 1].pos % s
          /\ ctlStream[i + 1].type = "ACK" =>
                 /\ ctlStream[i + 1].pos > 0
                 /\ ctlStream[i + 1].seq = (ctlStream[i + 1].pos - 1) % s
    BY <2>1, Zenon DEF IInv, CtlInv
  <2>4. \A i, j \in 1..(l - 1) : i < j => ctlStream[i + 1].pos <= ctlStream[j + 1].pos
    BY <2>1, <2>2 DEF IInv, CtlInv
  <2>5. accepted' = accepted /\ acked' = acked BY <1>1 DEF queueVars, recvVars
  <2> HIDE DEF l
  <2> QED BY <1>3, <2>3, <2>4, <2>5, ZenonT(40) DEF CtlInv
<1>5. TypeOK'
  BY <1>1, <1>3, Zenon DEF IInv, TypeOK, queueVars, resendVars, signalVars, recvVars, appVars
<1>6. ResiduesInv' /\ OrderInv' /\ CursorInv' /\ DataInv'
  BY <1>1, SMTT(30) DEF IInv, ResiduesInv, OrderInv, CursorInv, DataInv, queueVars, resendVars,
     recvVars, size
<1> QED BY <1>4, <1>5, <1>6 DEF IInv

\* The transport repeats an ACK or NACK.
LEMMA DuplicateCtlStep ==
    ASSUME IInv, duplicateCtl
    PROVE  IInv'
<1> DEFINE l == Len(ctlStream)
<1> DEFINE m == ctlStream[l]
<1>1. /\ ctlStream # <<>> /\ ctlStream' = Append(ctlStream, m)
      /\ dups' = dups + 1
      /\ UNCHANGED <<queueVars, sendPc, resendVars, signalVars, recvVars, appVars,
                     dataStream>>
  BY DEF duplicateCtl
<1>2. ctlStream \in Seq(CtlMsg) BY DEF IInv, TypeOK
<1>3. l \in 1..l /\ l \in Nat BY <1>1, <1>2, TailFacts
<1>4. m \in CtlMsg BY <1>2, <1>3
<1>5. /\ \A i \in 1..l : /\ ctlStream[i].pos \in acked..Len(accepted)
                         /\ ctlStream[i].type = "NACK" =>
                               ctlStream[i].seq = ctlStream[i].pos % s
                         /\ ctlStream[i].type = "ACK" =>
                               /\ ctlStream[i].pos > 0
                               /\ ctlStream[i].seq = (ctlStream[i].pos - 1) % s
      /\ \A i, j \in 1..l : i < j => ctlStream[i].pos <= ctlStream[j].pos
  BY DEF IInv, CtlInv
<1>6. \A i \in 1..l : ctlStream[i].pos <= m.pos
  <2> SUFFICES ASSUME NEW i \in 1..l PROVE ctlStream[i].pos <= m.pos
    OBVIOUS
  <2>1. CASE i < l BY <2>1, <1>3, <1>5
  <2>2. CASE i = l
    <3>1. m.pos \in Nat BY <1>4 DEF CtlMsg
    <3> QED BY <2>2, <3>1
  <2> QED BY <2>1, <2>2, <1>3
<1>7. /\ m.pos \in acked..Len(accepted)
      /\ m.type = "NACK" => m.seq = m.pos % s
      /\ m.type = "ACK" => m.pos > 0 /\ m.seq = (m.pos - 1) % s
  BY <1>3, <1>5
<1> HIDE DEF m
<1>8. /\ ctlStream' \in Seq(CtlMsg) /\ Len(ctlStream') = l + 1
      /\ \A i \in 1..l : ctlStream'[i] = ctlStream[i]
      /\ ctlStream'[l + 1] = m
  BY <1>1, <1>2, <1>4, AppendFacts
<1> HIDE DEF l
<1>9. \A i \in 1..(l + 1) : i \in 1..l \/ i = l + 1 BY <1>3
<1>10. \A i, j \in 1..(l + 1) : i < j => i \in 1..l BY <1>3
<1>11. \A i, j \in 1..(l + 1) : i < j => ctlStream'[i].pos <= ctlStream'[j].pos
  <2> SUFFICES ASSUME NEW i \in 1..(l + 1), NEW j \in 1..(l + 1), i < j
               PROVE  ctlStream'[i].pos <= ctlStream'[j].pos
    OBVIOUS
  <2>1. i \in 1..l BY <1>10
  <2>2. CASE j \in 1..l BY <2>1, <2>2, <1>5, <1>8
  <2>3. CASE j = l + 1 BY <2>1, <2>3, <1>6, <1>8
  <2> QED BY <2>2, <2>3, <1>9
<1>12. \A i \in 1..(l + 1) :
          /\ ctlStream'[i].pos \in acked..Len(accepted)
          /\ ctlStream'[i].type = "NACK" => ctlStream'[i].seq = ctlStream'[i].pos % s
          /\ ctlStream'[i].type = "ACK" =>
                /\ ctlStream'[i].pos > 0
                /\ ctlStream'[i].seq = (ctlStream'[i].pos - 1) % s
  BY <1>5, <1>7, <1>8, <1>9
<1>13. CtlInv'
  <2>1. accepted' = accepted /\ acked' = acked BY <1>1 DEF queueVars, recvVars
  <2> QED BY <1>8, <1>11, <1>12, <2>1 DEF CtlInv
<1>14. TypeOK'
  BY <1>1, <1>8 DEF IInv, TypeOK, queueVars, resendVars, signalVars, recvVars, appVars
<1>15. ResiduesInv' /\ OrderInv' /\ CursorInv' /\ DataInv'
  BY <1>1 DEF IInv, ResiduesInv, OrderInv, CursorInv, DataInv, queueVars, resendVars,
     recvVars, size
<1> QED BY <1>13, <1>14, <1>15 DEF IInv

-----------------------------------------------------------------------------
(***************************************************************************)
(* The theorems.                                                           *)
(***************************************************************************)
\* Every step of the goroutines, of time and of the transport preserves IInv.
LEMMA NextIInv == IInv /\ [Next]_vars => IInv'
<1> SUFFICES ASSUME IInv, [Next]_vars PROVE IInv'
  OBVIOUS
<1>1. CASE SendGoroutine
  BY <1>1, AddPacketStep, SendNewPacketStep, SendControlStep, ResendStep,
     InitResendStep, ResendPacketStep DEF SendGoroutine, SendWork
<1>2. CASE recvACK BY <1>2, RecvACKStep
<1>3. CASE recvNACK BY <1>3, RecvNACKStep
<1>4. CASE recvExpected BY <1>4, RecvExpectedStep
<1>5. CASE recvUnexpected \/ recvUnexpectedQuietly BY <1>5, RecvUnexpectedStep
<1>6. CASE deliver \/ Recv \/ recvPeerPacket \/ tickResend \/ resendGateOpens \/ nackGateOpens
  BY <1>6, RecvControlStep
<1>7. CASE loseData \/ duplicateData BY <1>7, DataTransportStep
<1>8. CASE loseCtl BY <1>8, LoseCtlStep
<1>9. CASE duplicateCtl BY <1>9, DuplicateCtlStep
<1>10. CASE UNCHANGED vars BY <1>10, Stutters
<1> QED
  BY <1>1, <1>2, <1>3, <1>4, <1>5, <1>6, <1>7, <1>8, <1>9, <1>10 DEF Next, RecvData

\* IInv is an invariant of the connection, whatever the window size and the
\* transport do: it is what keeps the residues of queue.go unambiguous.
THEOREM Invariance == Spec => []IInv
BY InitIInv, NextIInv, PTL DEF Spec

\* Type correctness of the connection's state.
THEOREM TypeCorrect == Spec => []TypeOK
<1>1. IInv => TypeOK BY DEF IInv
<1> QED BY <1>1, Invariance, PTL

\* receivePacketsForever accepts exactly the packets handed to addPacket, in
\* order and each once, for every window size n from 1 to 254.
THEOREM InOrder == Spec => []AcceptedInOrder
<1>1. IInv => AcceptedInOrder BY DEF IInv, OrderInv, AcceptedInOrder
<1> QED BY <1>1, Invariance, PTL

\* processACK and processNACK never release a packet the peer has not accepted.
THEOREM Released == Spec => []ReleasedOnlyAccepted
<1>1. IInv => ReleasedOnlyAccepted BY DEF IInv, OrderInv, ReleasedOnlyAccepted
<1> QED BY <1>1, Invariance, PTL

\* The window never holds more than n packets and size() counts them.
THEOREM Window == Spec => []WindowBounded
<1>1. IInv => WindowBounded BY SizeFact DEF IInv, OrderInv, WindowBounded
<1> QED BY <1>1, Invariance, PTL

\* Recv returns the accepted packets other than pings, in order, each once, for
\* every window size: none is lost or repeated on the way through recvDataChan.
THEOREM Delivered == Spec => []DeliveredInOrder
<1>1. Init => DeliveredInOrder BY DEF Init, DeliveredInOrder, handedOn
<1>2. IInv /\ IInv' /\ DeliveredInOrder /\ [Next]_vars => DeliveredInOrder'
  <2> SUFFICES ASSUME IInv, IInv', DeliveredInOrder, [Next]_vars PROVE DeliveredInOrder'
    OBVIOUS
  <2>1. CASE recvExpected \/ deliver \/ Recv BY <2>1, HandedStep
  <2>2. ASSUME UNCHANGED <<received, recvDataChan, recvPc, accepted>>
        PROVE  DeliveredInOrder'
    BY <2>2, ZenonT(40) DEF DeliveredInOrder, handedOn
  <2>3. ASSUME \/ SendGoroutine
               \/ recvACK \/ recvNACK \/ recvUnexpected \/ recvUnexpectedQuietly
               \/ recvPeerPacket \/ tickResend \/ resendGateOpens \/ nackGateOpens
               \/ loseData \/ loseCtl \/ duplicateData \/ duplicateCtl
               \/ UNCHANGED vars
        PROVE  UNCHANGED <<received, recvDataChan, recvPc, accepted>>
    BY <2>3, Zenon
    DEF SendGoroutine, SendWork, addPacket, sendNewPacket, checkWindow, park, resend,
        resendSkipped, initResend, resendPacket, waitForSync, recvACK, recvNACK,
        recvUnexpected, recvUnexpectedQuietly, recvPeerPacket, tickResend,
        resendGateOpens, nackGateOpens, loseData, loseCtl, duplicateData, duplicateCtl,
        vars, recvVars, appVars
  <2> QED BY <2>1, <2>2, <2>3, Zenon DEF Next, RecvData
<1> QED BY <1>1, <1>2, Invariance, PTL DEF Spec

\* The connection implements the abstract FIFO channel of capacity n: a packet
\* enters it in addPacket and leaves it when the peer accepts it; every other
\* step of queue, syncer, tickers and transport is invisible.
THEOREM Refinement == Spec => ImplementsFifo
<1>1. Init => Fifo!Init BY DEF Init, Fifo!Init
<1>2. IInv /\ [Next]_vars => [Fifo!Next]_(Fifo!vars)
  <2> SUFFICES ASSUME IInv, [Next]_vars PROVE [Fifo!Next]_(Fifo!vars)
    OBVIOUS
  <2>1. ASSUME NEW ping \in BOOLEAN, addPacket(ping) PROVE Fifo!Next
    <3> DEFINE pkt == [seq |-> sequenceTop, id |-> Len(sent) + 1, ping |-> ping]
    <3>1. /\ sent' = Append(sent, pkt) /\ accepted' = accepted
          /\ sendPc = "select"
      BY <2>1 DEF addPacket, Running, recvVars
    <3>2. pkt \in PacketData
      BY <2>1, SizeFact, BoundsAssumption DEF addPacket, PacketData, IInv, TypeOK
    <3>3. Len(sent) - Len(accepted) < N
      BY <3>1, SizeFact, SFact DEF IInv, OrderInv
    <3> HIDE DEF pkt
    <3> QED BY <3>1, <3>2, <3>3 DEF Fifo!Next, Fifo!Put
  <2>2. CASE recvExpected
    <3>1. sent' = sent BY <2>2 DEF recvExpected, queueVars
    <3>2. Len(accepted) < Len(sent) BY <2>2, RecvExpectedStep, SizeFact
    <3> QED BY <2>2, <3>1, <3>2, RecvExpectedStep DEF Fifo!Next, Fifo!Get
  <2>3. ASSUME \/ SendGoroutine /\ ~(\E ping \in BOOLEAN : addPacket(ping))
               \/ recvACK \/ recvNACK \/ recvUnexpected \/ recvUnexpectedQuietly
               \/ deliver \/ Recv \/ recvPeerPacket \/ tickResend \/ resendGateOpens \/ nackGateOpens
               \/ loseData \/ loseCtl \/ duplicateData \/ duplicateCtl
               \/ UNCHANGED vars
        PROVE  UNCHANGED Fifo!vars
    BY <2>3, Zenon
    DEF SendGoroutine, SendWork, sendNewPacket, checkWindow, park, resend, resendSkipped,
        initResend, resendPacket, waitForSync, recvACK, recvNACK, recvUnexpected,
        recvUnexpectedQuietly, deliver, Recv, recvPeerPacket, tickResend, resendGateOpens,
        nackGateOpens, loseData, loseCtl, duplicateData, duplicateCtl, vars,
        queueVars, recvVars, Fifo!vars
  <2> QED BY <2>1, <2>2, <2>3 DEF Next, SendGoroutine, RecvData
<1> QED BY <1>1, <1>2, Invariance, PTL DEF Spec, ImplementsFifo, Fifo!Spec
=====================
