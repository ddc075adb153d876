-------------------------- MODULE ConnectionsProofs --------------------------
(***************************************************************************)
(* Proofs about the way of the bytes through a mailbox connection, for any *)
(* number and lengths of messages and any size of packets, and about the   *)
(* listener, for any number of connections and tokens.                     *)
(***************************************************************************)
EXTENDS MCConnections, Sequences, FiniteSetTheorems, TLAPS

-----------------------------------------------------------------------------
(***************************************************************************)
(* The way of the bytes. The packets in the link are the messages, cut     *)
(* into pieces, one after the other: after i packets comes byte nextAt(i)  *)
(* of message nextMsg(i). What Send has left is what comes after all of    *)
(* them, what Recv has is the beginning of the message that it is at, and  *)
(* what was read, with what waits to be read, is what was written before   *)
(* that message.                                                           *)
(***************************************************************************)

Byte == [msg : Nat, at : Nat, len : Nat]
Pkt == [Payload : Seq(Byte), FinalChunk : BOOLEAN]

byte(k, at) == [msg |-> k, at |-> at, len |-> msgs[k]]
size(k) == baseLength + msgs[k]

Payload(i) == written[i].Payload
nextMsg(i) ==
    IF i = 0 THEN 1
    ELSE Payload(i)[1].msg + (IF written[i].FinalChunk THEN 1 ELSE 0)
nextAt(i) ==
    IF i = 0 \/ written[i].FinalChunk THEN 1
    ELSE Payload(i)[1].at + Len(Payload(i))

\* Packet i carries what comes after the packets before it.
Carries(i) ==
    LET k == nextMsg(i - 1)
        at == nextAt(i - 1)
        end == at + Len(Payload(i)) - 1
    IN  /\ k \in 1 .. Len(msgs) /\ at \in 1 .. size(k) /\ end <= size(k)
        /\ \A l \in 1 .. Len(Payload(i)) : Payload(i)[l] = byte(k, at + l - 1)
        /\ written[i].FinalChunk <=> end = size(k)

Sending ==
    /\ left # <<>> =>
          /\ ~ended /\ Len(msgs) > 0 /\ Len(left) <= size(Len(msgs))
          /\ nextMsg(Len(written)) = Len(msgs)
          /\ nextAt(Len(written)) = size(Len(msgs)) - Len(left) + 1
          /\ \A l \in 1 .. Len(left) :
                 left[l] = byte(Len(msgs), size(Len(msgs)) - Len(left) + l)
          /\ Len(left) = size(Len(msgs)) =>
                 \A i \in 1 .. Len(written) : nextMsg(i - 1) < Len(msgs)
    /\ left = <<>> /\ ~ended =>
          nextMsg(Len(written)) = Len(msgs) + 1 /\ nextAt(Len(written)) = 1

Receiving ==
    ~ended => /\ Len(b) = nextAt(Len(read)) - 1
              /\ \A l \in 1 .. Len(b) : b[l] = byte(nextMsg(Len(read)), l)

\* Where the bytes of each message are among those that were sent.
Offsets(off) ==
    /\ off \in [1 .. Len(msgs) + 1 -> Nat]
    /\ off[1] = 0 /\ off[Len(msgs) + 1] = Len(sent)
    /\ \A k, l \in 1 .. Len(msgs) + 1 : k <= l => off[k] <= off[l]
    /\ \A k \in 1 .. Len(msgs) :
          /\ off[k + 1] = off[k] + msgs[k]
          /\ \A l \in 1 .. msgs[k] : sent[off[k] + l] = byte(k, baseLength + l)

Delivered(off) ==
    /\ nextMsg(Len(read)) \in 1 .. Len(msgs) + 1
    /\ Len(stream) + Len(recvBuffer) = off[nextMsg(Len(read))]
    /\ \A l \in 1 .. Len(stream) : stream[l] = sent[l]
    /\ \A l \in 1 .. Len(recvBuffer) : recvBuffer[l] = sent[Len(stream) + l]

\* What holds even if a timeout fell into a message.
LinkTypes ==
    /\ msgs \in Seq(Lengths) /\ Len(msgs) <= MaxMsgs
    /\ left \in Seq(Byte) /\ written \in Seq(Pkt) /\ read \in Seq(Pkt)
    /\ Len(read) <= Len(written) /\ Len(written) - Len(read) <= n
    /\ \A i \in 1 .. Len(written) :
          /\ Len(Payload(i)) > 0
          /\ maxChunkSize # 0 => Len(Payload(i)) <= maxChunkSize
    /\ {receiving, recvTimeout, ticker, torn, ended} \subseteq BOOLEAN
    /\ left # <<>> => Len(msgs) > 0
    /\ receiving => recvBuffer = <<>>
    /\ ended => ~receiving /\ left = <<>>

Untorn ==
    /\ sent \in Seq(Byte) /\ b \in Seq(Byte) /\ recvBuffer \in Seq(Byte)
    /\ stream \in Seq(Byte)
    /\ \A i \in 1 .. Len(written) : Carries(i)
    /\ Sending /\ Receiving
    /\ \E off : Offsets(off) /\ Delivered(off)

BytesIInv == LinkTypes /\ (torn \/ Untorn)

\* Nothing is written at first.
LEMMA BytesStart == ASSUME C!Init PROVE BytesIInv
<1>1. /\ msgs = <<>> /\ sent = <<>> /\ left = <<>> /\ written = <<>> /\ read = <<>>
      /\ b = <<>> /\ recvBuffer = <<>> /\ stream = <<>> /\ receiving = FALSE
      /\ recvTimeout = FALSE /\ ticker = FALSE /\ torn = FALSE /\ ended = FALSE
    BY DEF C!Init, C!Channel!Init
<1>2. LinkTypes
  <2>1. /\ msgs \in Seq(Lengths) /\ left \in Seq(Byte) /\ written \in Seq(Pkt)
        /\ read \in Seq(Pkt) /\ Len(msgs) = 0 /\ Len(written) = 0 /\ Len(read) = 0
      BY <1>1
  <2>2. n \in Nat /\ MaxMsgs \in Nat
      BY ConnectionsAssumption
  <2>3. {receiving, recvTimeout, ticker, torn, ended} \subseteq BOOLEAN
      BY <1>1, Zenon
  <2> QED
      BY <1>1, <2>1, <2>2, <2>3 DEF LinkTypes
<1>3. Sending /\ Receiving
    BY <1>1 DEF Sending, Receiving, nextMsg, nextAt
<1> DEFINE off == [k \in 1 .. 1 |-> 0]
<1>4. Offsets(off) /\ Delivered(off)
  <2>1. off \in [1 .. 1 -> Nat] /\ off[1] = 0 /\ Len(msgs) = 0 /\ Len(sent) = 0
      BY <1>1
  <2> HIDE DEF off
  <2>2. Offsets(off)
      BY <2>1 DEF Offsets
  <2>3. Delivered(off)
      BY <1>1, <2>1 DEF Delivered, nextMsg
  <2> QED
      BY <2>2, <2>3
<1> HIDE DEF off
<1>5. Untorn
    BY <1>1, <1>3, <1>4 DEF Untorn
<1> QED
    BY <1>2, <1>5 DEF BytesIInv

\* What the connection promises follows.
LEMMA BytesPromise == ASSUME BytesIInv PROVE StreamIntact
<1>1. C!TypeOK
  <2>1. Len(written) - Len(read) \in 0 .. n
      BY ConnectionsAssumption DEF BytesIInv, LinkTypes
  <2> QED
      BY <2>1 DEF BytesIInv, LinkTypes, C!TypeOK, Payload
<1>2. C!StreamIntact
  <2> SUFFICES ASSUME Untorn
               PROVE  Len(stream) <= Len(sent) /\ stream = SubSeq(sent, 1, Len(stream))
      BY DEF BytesIInv, C!StreamIntact
  <2>1. PICK off : Offsets(off) /\ Delivered(off)
      BY DEF Untorn
  <2>2. /\ stream \in Seq(Byte) /\ sent \in Seq(Byte) /\ recvBuffer \in Seq(Byte)
        /\ Len(msgs) \in Nat
      BY DEF Untorn, BytesIInv, LinkTypes
  <2>3. off[nextMsg(Len(read))] <= off[Len(msgs) + 1]
      BY <2>1, <2>2 DEF Offsets, Delivered
  <2>4. Len(stream) + Len(recvBuffer) <= Len(sent)
      BY <2>1, <2>3 DEF Offsets, Delivered
  <2>5. Len(stream) \in Nat /\ Len(recvBuffer) \in Nat /\ Len(sent) \in Nat
      BY <2>2
  <2>6. Len(stream) <= Len(sent)
      BY <2>4, <2>5
  <2>7. \A l \in 1 .. Len(stream) : stream[l] = sent[l]
      BY <2>1 DEF Delivered
  <2> QED
      BY <2>2, <2>5, <2>6, <2>7
<1> QED
    BY <1>1, <1>2 DEF StreamIntact

\* The packets are the same.
LEMMA SamePackets ==
    ASSUME msgs' = msgs, written' = written
    PROVE  /\ \A i : nextMsg(i)' = nextMsg(i) /\ nextAt(i)' = nextAt(i)
           /\ (\A i \in 1 .. Len(written) : Carries(i))
                  => \A i \in 1 .. Len(written) : Carries(i)'
<1>1. /\ \A i : nextMsg(i)' = nextMsg(i) /\ nextAt(i)' = nextAt(i)
      /\ \A i : Payload(i)' = Payload(i) /\ size(i)' = size(i)
      /\ \A k, at : byte(k, at)' = byte(k, at)
    BY DEF nextMsg, nextAt, Payload, size, byte
<1>2. ASSUME NEW i \in 1 .. Len(written), Carries(i) PROVE Carries(i)'
    BY <1>1, <1>2 DEF Carries
<1> QED
    BY <1>1, <1>2

\* A step that leaves the packets and what was delivered alone.
LEMMA BytesRest ==
    ASSUME BytesIInv, LinkTypes',
           UNCHANGED <<msgs, sent, written, read, recvBuffer, stream>>,
           torn => torn',
           ~torn' /\ Untorn => b' \in Seq(Byte) /\ Sending' /\ Receiving'
    PROVE  BytesIInv'
<1> SUFFICES ASSUME ~torn' PROVE Untorn'
    BY DEF BytesIInv
<1>1. Untorn /\ b' \in Seq(Byte) /\ Sending' /\ Receiving'
    BY DEF BytesIInv
<1>2. \A i \in 1 .. Len(written) : Carries(i)'
    BY <1>1, SamePackets DEF Untorn
<1>3. PICK off : Offsets(off) /\ Delivered(off)
    BY <1>1 DEF Untorn
<1>4. Offsets(off)' /\ Delivered(off)'
    BY <1>3 DEF Offsets, Delivered, nextMsg, Payload, byte
<1> QED
    BY <1>1, <1>2, <1>4 DEF Untorn

\* The deadline is set, or Read calls Recv.
LEMMA RecvKeeps ==
    ASSUME BytesIInv, C!Recv \/ \E set \in BOOLEAN : C!SetReadDeadline(set)
    PROVE  BytesIInv'
<1>1. /\ UNCHANGED <<msgs, sent, left, written, read, b, recvBuffer, stream, torn, ended>>
      /\ receiving' \in BOOLEAN /\ recvTimeout' \in BOOLEAN /\ ticker' \in BOOLEAN
      /\ receiving' => receiving \/ (~ended /\ recvBuffer = <<>>)
  <2>1. {receiving, recvTimeout, ticker} \subseteq BOOLEAN
      BY DEF BytesIInv, LinkTypes
  <2>2. CASE C!Recv
      BY <2>1, <2>2 DEF C!Recv, C!sender, C!link
  <2>3. CASE \E set \in BOOLEAN : C!SetReadDeadline(set)
      BY <2>1, <2>3 DEF C!SetReadDeadline, C!sender, C!link
  <2> QED
      BY <2>2, <2>3
<1>2. LinkTypes'
    BY <1>1 DEF BytesIInv, LinkTypes, Payload
<1>3. Untorn => b' \in Seq(Byte) /\ Sending' /\ Receiving'
    BY <1>1 DEF Untorn, Sending, Receiving, nextMsg, nextAt, Payload, size, byte
<1> QED
    BY <1>1, <1>2, <1>3, BytesRest

\* Recv gives up; between two messages that does no harm.
LEMMA RecvTimeoutKeeps == ASSUME BytesIInv, C!errRecvTimeout PROVE BytesIInv'
<1>1. /\ UNCHANGED <<msgs, sent, left, written, read, recvBuffer, stream, recvTimeout,
                     ticker, ended>>
      /\ receiving' = FALSE /\ b' = <<>> /\ torn' \in BOOLEAN
      /\ torn' <=> (torn \/ b # <<>>)
    BY Zenon DEF C!errRecvTimeout, C!sender, C!link
<1>2. LinkTypes'
    BY <1>1, Zenon DEF BytesIInv, LinkTypes, Payload
<1>3. ~torn' /\ Untorn => b' \in Seq(Byte) /\ Sending' /\ Receiving'
    BY <1>1, Zenon DEF Untorn, Sending, Receiving, nextMsg, nextAt, Payload, size, byte
<1> QED
    BY <1>1, <1>2, <1>3, BytesRest

\* The connection ends.
LEMMA ExitedKeeps == ASSUME BytesIInv, C!exited PROVE BytesIInv'
<1>1. /\ UNCHANGED <<msgs, sent, written, read, recvBuffer, stream, recvTimeout,
                     ticker, torn>>
      /\ ended' = TRUE /\ left' = <<>> /\ receiving' = FALSE /\ b' = <<>>
    BY DEF C!exited, C!link
<1>2. LinkTypes'
  <2>1. left' \in Seq(Byte)
      BY <1>1
  <2>2. {recvTimeout, ticker, torn} \subseteq BOOLEAN
      BY DEF BytesIInv, LinkTypes
  <2>3. {receiving', recvTimeout', ticker', torn', ended'} \subseteq BOOLEAN
      BY <1>1, <2>2, Zenon
  <2> QED
      BY <1>1, <2>1, <2>3 DEF BytesIInv, LinkTypes, Payload
<1>3. b' \in Seq(Byte) /\ Sending' /\ Receiving'
    BY <1>1 DEF Sending, Receiving
<1> QED
    BY <1>1, <1>2, <1>3, BytesRest

\* Read takes bytes from the buffer.
LEMMA ReadKeeps == ASSUME BytesIInv, C!Read PROVE BytesIInv'
<1> DEFINE k == C!smaller(ReadSize, Len(recvBuffer))
<1>1. /\ UNCHANGED <<msgs, sent, left, written, read, b, receiving, recvTimeout,
                     ticker, torn, ended>>
      /\ ~receiving
      /\ stream' = stream \o SubSeq(recvBuffer, 1, k)
      /\ recvBuffer' = SubSeq(recvBuffer, k + 1, Len(recvBuffer))
    BY DEF C!Read, C!sender, C!link
<1>2. LinkTypes'
    BY <1>1 DEF BytesIInv, LinkTypes, Payload
<1> SUFFICES ASSUME ~torn PROVE Untorn'
    BY <1>1, <1>2 DEF BytesIInv
<1>3. Untorn /\ stream \in Seq(Byte) /\ recvBuffer \in Seq(Byte) /\ ReadSize \in Nat
    BY ConnectionsAssumption DEF BytesIInv, Untorn
<1>4. k \in 0 .. Len(recvBuffer)
    BY <1>3 DEF C!smaller
<1> HIDE DEF k
<1>5. /\ stream' \in Seq(Byte) /\ recvBuffer' \in Seq(Byte)
      /\ Len(stream') = Len(stream) + k /\ Len(recvBuffer') = Len(recvBuffer) - k
      /\ \A l \in 1 .. Len(stream) : stream'[l] = stream[l]
      /\ \A l \in 1 .. k : stream'[Len(stream) + l] = recvBuffer[l]
      /\ \A l \in 1 .. Len(recvBuffer) - k : recvBuffer'[l] = recvBuffer[k + l]
  <2> DEFINE front == SubSeq(recvBuffer, 1, k)
  <2>1. /\ front \in Seq(Byte) /\ Len(front) = k
        /\ \A l \in 1 .. k : front[l] = recvBuffer[l]
      BY <1>3, <1>4
  <2>2. /\ recvBuffer' \in Seq(Byte) /\ Len(recvBuffer') = Len(recvBuffer) - k
        /\ \A l \in 1 .. Len(recvBuffer) - k : recvBuffer'[l] = recvBuffer[k + l]
      BY <1>1, <1>3, <1>4
  <2>3. stream' = stream \o front
      BY <1>1, Zenon
  <2> HIDE DEF front
  <2>4. /\ stream' \in Seq(Byte) /\ Len(stream') = Len(stream) + Len(front)
        /\ \A l \in 1 .. Len(stream) : stream'[l] = stream[l]
        /\ \A l \in 1 .. Len(front) : stream'[Len(stream) + l] = front[l]
    <3>1. stream \in Seq(Byte) /\ front \in Seq(Byte)
        BY <1>3, <2>1
    <3> QED
        BY <2>3, <3>1
  <2> QED
      BY <2>1, <2>2, <2>4
<1>6. (\A i \in 1 .. Len(written) : Carries(i)') /\ Sending' /\ Receiving'
  <2>1. \A i \in 1 .. Len(written) : Carries(i)'
      BY <1>1, <1>3, SamePackets DEF Untorn
  <2>2. Sending' /\ Receiving'
      BY <1>1, <1>3 DEF Untorn, Sending, Receiving, nextMsg, nextAt, Payload, size, byte
  <2> QED
      BY <2>1, <2>2
<1>7. PICK off : Offsets(off) /\ Delivered(off)
    BY <1>3 DEF Untorn
<1>8. Offsets(off)'
    BY <1>1, <1>7, SMTT(30) DEF Offsets, byte
<1>9. Delivered(off)'
  <2>1. /\ nextMsg(Len(read)) \in 1 .. Len(msgs) + 1
        /\ Len(stream) + Len(recvBuffer) = off[nextMsg(Len(read))]
        /\ \A l \in 1 .. Len(stream) : stream[l] = sent[l]
        /\ \A l \in 1 .. Len(recvBuffer) : recvBuffer[l] = sent[Len(stream) + l]
      BY <1>7 DEF Delivered
  <2>2. Len(stream) \in Nat /\ Len(recvBuffer) \in Nat /\ k \in Nat
      BY <1>3, <1>4
  <2>3. Len(stream') + Len(recvBuffer') = Len(stream) + Len(recvBuffer)
      BY <1>5, <2>2
  <2>4. \A l \in 1 .. Len(stream') : stream'[l] = sent[l]
    <3> SUFFICES ASSUME NEW l \in 1 .. Len(stream') PROVE stream'[l] = sent[l]
        OBVIOUS
    <3>1. CASE l <= Len(stream)
        BY <1>5, <2>1, <2>2, <3>1
    <3>2. CASE l > Len(stream)
      <4>1. /\ l - Len(stream) \in 1 .. k /\ l - Len(stream) \in 1 .. Len(recvBuffer)
            /\ Len(stream) + (l - Len(stream)) = l
          BY <1>4, <1>5, <2>2, <3>2
      <4> QED
          BY <1>5, <2>1, <4>1, SMTT(30)
    <3> QED
        BY <2>2, <3>1, <3>2
  <2>5. \A l \in 1 .. Len(recvBuffer') : recvBuffer'[l] = sent[Len(stream') + l]
    <3> SUFFICES ASSUME NEW l \in 1 .. Len(recvBuffer')
                 PROVE  recvBuffer'[l] = sent[Len(stream') + l]
        OBVIOUS
    <3>1. /\ k + l \in 1 .. Len(recvBuffer) /\ l \in 1 .. Len(recvBuffer) - k
          /\ Len(stream') + l = Len(stream) + (k + l)
        BY <1>4, <1>5, <2>2
    <3> QED
        BY <1>5, <2>1, <3>1, SMTT(30)
  <2>6. nextMsg(Len(read))' = nextMsg(Len(read))
      BY <1>1 DEF nextMsg, Payload
  <2> QED
      BY <1>1, <2>1, <2>3, <2>4, <2>5, <2>6, Zenon DEF Delivered
<1> QED
    BY <1>1, <1>3, <1>5, <1>6, <1>8, <1>9, SMTT(30) DEF Untorn

\* Send cuts off the next packet.
LEMMA Chunk ==
    ASSUME NEW bytes \in Seq(Byte), bytes # <<>>
    PROVE  LET p == C!chunk(bytes)
           IN  /\ p \in Pkt /\ Len(p.Payload) \in 1 .. Len(bytes)
               /\ maxChunkSize # 0 => Len(p.Payload) <= maxChunkSize
               /\ p.FinalChunk <=> Len(p.Payload) = Len(bytes)
               /\ \A l \in 1 .. Len(p.Payload) : p.Payload[l] = bytes[l]
<1>0. maxChunkSize \in Nat /\ Len(bytes) \in Nat /\ Len(bytes) > 0
    BY ConnectionsAssumption
<1>1. CASE maxChunkSize = 0 \/ Len(bytes) <= maxChunkSize
  <2>1. C!chunk(bytes) = [Payload |-> bytes, FinalChunk |-> TRUE]
      BY <1>1 DEF C!chunk
  <2>2. C!chunk(bytes) \in Pkt
      BY <2>1 DEF Pkt
  <2> QED
      BY <1>0, <1>1, <2>1, <2>2
<1>2. CASE maxChunkSize # 0 /\ ~(Len(bytes) <= maxChunkSize)
  <2> DEFINE front == SubSeq(bytes, 1, maxChunkSize)
  <2>1. C!chunk(bytes) = [Payload |-> front, FinalChunk |-> FALSE]
      BY <1>2 DEF C!chunk
  <2>2. /\ front \in Seq(Byte) /\ Len(front) = maxChunkSize
        /\ \A l \in 1 .. maxChunkSize : front[l] = bytes[l]
      BY <1>0, <1>2
  <2> HIDE DEF front
  <2>3. C!chunk(bytes) \in Pkt
      BY <2>1, <2>2 DEF Pkt
  <2> QED
      BY <1>0, <1>2, <2>1, <2>2, <2>3
<1> QED
    BY <1>1, <1>2

\* What is left of a sequence.
LEMMA Rest ==
    ASSUME NEW S, NEW s \in Seq(S), NEW m \in Nat, m < Len(s)
    PROVE  /\ SubSeq(s, m + 1, Len(s)) \in Seq(S)
           /\ Len(SubSeq(s, m + 1, Len(s))) = Len(s) - m
           /\ \A l \in 1 .. Len(s) - m : SubSeq(s, m + 1, Len(s))[l] = s[m + l]
    OBVIOUS

\* Another packet is put into the link.
LEMMA SendPacketKeeps == ASSUME BytesIInv, C!sendPacket PROVE BytesIInv'
<1>0. LinkTypes
    BY DEF BytesIInv
<1>1. /\ left # <<>> /\ written' = Append(written, C!chunk(left)) /\ read' = read
      /\ Len(written) - Len(read) < n
      /\ left' = IF C!chunk(left).FinalChunk THEN <<>>
                 ELSE SubSeq(left, Len(C!chunk(left).Payload) + 1, Len(left))
      /\ UNCHANGED <<msgs, sent, receiving, b, recvBuffer, stream, recvTimeout, ticker,
                     torn, ended>>
    BY DEF C!sendPacket, C!Channel!Put, C!receiver
<1>2. PICK p : /\ p = C!chunk(left) /\ p \in Pkt /\ Len(p.Payload) \in 1 .. Len(left)
               /\ maxChunkSize # 0 => Len(p.Payload) <= maxChunkSize
               /\ p.FinalChunk <=> Len(p.Payload) = Len(left)
               /\ \A l \in 1 .. Len(p.Payload) : p.Payload[l] = left[l]
    BY <1>0, <1>1, Chunk DEF LinkTypes
<1>3. /\ left \in Seq(Byte) /\ written \in Seq(Pkt) /\ msgs \in Seq(Lengths)
      /\ Len(msgs) > 0 /\ Len(read) \in Nat /\ Len(read) <= Len(written)
    BY <1>0, <1>1 DEF LinkTypes
<1>4. PICK w \in Nat, m \in Nat, h \in Nat, L \in Nat :
          w = Len(written) /\ m = Len(p.Payload) /\ h = Len(left) /\ L = Len(msgs)
    BY <1>2, <1>3
<1>5. /\ w \in Nat /\ m \in Nat /\ h \in Nat /\ L \in Nat
      /\ m \in 1 .. h /\ (p.FinalChunk <=> m = h) /\ L > 0 /\ Len(read) \in 0 .. w
    BY <1>2, <1>3, <1>4
<1>6. /\ written' \in Seq(Pkt) /\ Len(written') = w + 1 /\ written'[w + 1] = p
      /\ \A i \in 1 .. w : written'[i] = written[i]
    BY <1>1, <1>2, <1>3, <1>4
<1>7. /\ left' \in Seq(Byte) /\ Len(left') = h - m
      /\ \A l \in 1 .. h - m : left'[l] = left[m + l]
      /\ left' = <<>> <=> p.FinalChunk
  <2>1. CASE p.FinalChunk
    <3>1. left' = <<>> /\ h - m = 0
        BY <1>1, <1>2, <1>5, <2>1
    <3> QED
        BY <2>1, <3>1
  <2>2. CASE ~p.FinalChunk
    <3>1. left' = SubSeq(left, m + 1, Len(left)) /\ m < Len(left) /\ h - m > 0
        BY <1>1, <1>2, <1>4, <1>5, <2>2
    <3>2. /\ left' \in Seq(Byte) /\ Len(left') = Len(left) - m
          /\ \A l \in 1 .. Len(left) - m : left'[l] = left[m + l]
        BY <1>3, <1>5, <3>1, Rest
    <3>3. left' # <<>>
      <4>1. Len(left') > 0
          BY <1>4, <3>1, <3>2, Zenon
      <4> QED
          BY <4>1
    <3> QED
        BY <1>4, <2>2, <3>2, <3>3
  <2> QED
      BY <2>1, <2>2
<1>8. LinkTypes'
  <2>1. \A i \in 1 .. Len(written') :
            /\ Len(written'[i].Payload) > 0
            /\ maxChunkSize # 0 => Len(written'[i].Payload) <= maxChunkSize
    <3> SUFFICES ASSUME NEW i \in 1 .. w + 1
                 PROVE  /\ Len(written'[i].Payload) > 0
                        /\ maxChunkSize # 0 => Len(written'[i].Payload) <= maxChunkSize
        BY <1>6
    <3>1. CASE i = w + 1
        BY <1>2, <1>4, <1>5, <1>6, <3>1
    <3>2. CASE i \in 1 .. w
        BY <1>0, <1>4, <1>6, <3>2 DEF LinkTypes, Payload
    <3> QED
        BY <3>1, <3>2
  <2>2. Len(read') <= Len(written') /\ Len(written') - Len(read') <= n
      BY <1>1, <1>4, <1>5, <1>6, ConnectionsAssumption
  <2>3. ~ended
      BY <1>0, <1>1 DEF LinkTypes
  <2> QED
      BY <1>0, <1>1, <1>3, <1>6, <1>7, <2>1, <2>2, <2>3, Zenon DEF LinkTypes, Payload
<1> SUFFICES ASSUME ~torn PROVE Untorn'
    BY <1>1, <1>8 DEF BytesIInv
<1>9. Untorn
    BY DEF BytesIInv
<1>10. PICK z \in Nat : z = size(L)
  <2>1. msgs[L] \in Lengths
      BY <1>3, <1>4, <1>5
  <2>2. msgs[L] \in Nat /\ baseLength \in Nat
      BY <2>1, ConnectionsAssumption, Zenon
  <2> QED
      BY <2>2 DEF size
<1>11. PICK a \in Nat : a = z - h
  <2>1. h <= z
      BY <1>1, <1>4, <1>9, <1>10 DEF Untorn, Sending
  <2> QED
      BY <2>1
<1>12. /\ ~ended /\ nextMsg(w) = L /\ nextAt(w) = a + 1
       /\ \A l \in 1 .. h : left[l] = byte(L, a + l)
    BY <1>1, <1>4, <1>9, <1>10, <1>11 DEF Untorn, Sending
<1>13. /\ \A i \in 0 .. w : nextMsg(i)' = nextMsg(i) /\ nextAt(i)' = nextAt(i)
       /\ \A k, at : byte(k, at)' = byte(k, at) /\ size(k)' = size(k)
    BY <1>1, <1>6 DEF nextMsg, nextAt, Payload, byte, size
<1>14. p.Payload[1].msg = L /\ p.Payload[1].at = a + 1
  <2>1. p.Payload[1] = byte(L, a + 1)
      BY <1>2, <1>4, <1>5, <1>12
  <2> QED
      BY <2>1 DEF byte
<1>15. /\ nextMsg(w + 1)' = L + (IF p.FinalChunk THEN 1 ELSE 0)
       /\ nextAt(w + 1)' = IF p.FinalChunk THEN 1 ELSE a + 1 + m
  <2>1. w + 1 # 0 /\ w + 1 - 1 = w
      BY <1>5
  <2>2. /\ nextMsg(w + 1)' = written'[w + 1].Payload[1].msg
                             + (IF written'[w + 1].FinalChunk THEN 1 ELSE 0)
        /\ nextAt(w + 1)' = IF written'[w + 1].FinalChunk THEN 1
                            ELSE written'[w + 1].Payload[1].at + Len(written'[w + 1].Payload)
      BY <2>1 DEF nextMsg, nextAt, Payload
  <2> QED
      BY <1>4, <1>6, <1>14, <2>2, Zenon
<1>16. \A i \in 1 .. Len(written') : Carries(i)'
  <2> SUFFICES ASSUME NEW i \in 1 .. w + 1 PROVE Carries(i)'
      BY <1>6
  <2>1. CASE i \in 1 .. w
    <3>1. Carries(i) /\ Payload(i)' = Payload(i) /\ written'[i] = written[i]
        BY <1>4, <1>6, <1>9, <2>1 DEF Untorn, Payload
    <3>2. nextMsg(i - 1)' = nextMsg(i - 1) /\ nextAt(i - 1)' = nextAt(i - 1)
        BY <1>13, <2>1
    <3> QED
        BY <1>1, <1>13, <3>1, <3>2, SMTT(30) DEF Carries
  <2>2. CASE i = w + 1
    <3>1. /\ nextMsg(i - 1)' = L /\ nextAt(i - 1)' = a + 1 /\ Payload(i)' = p.Payload
          /\ written'[i] = p
        BY <1>6, <1>12, <1>13, <2>2 DEF Payload
    <3>2. /\ L \in 1 .. Len(msgs) /\ a + 1 \in 1 .. z /\ a + 1 + m - 1 <= z
          /\ p.FinalChunk <=> a + 1 + m - 1 = z
      <4>1. a \in Nat /\ z \in Nat /\ a = z - h
          BY <1>10, <1>11
      <4>2. L \in 1 .. Len(msgs)
          BY <1>4, <1>5
      <4>3. a + 1 \in 1 .. z /\ a + 1 + m - 1 <= z /\ (a + 1 + m - 1 = z <=> m = h)
          BY <1>5, <4>1
      <4> QED
          BY <1>5, <4>2, <4>3
    <3>3. \A l \in 1 .. m : p.Payload[l] = byte(L, a + 1 + l - 1)
      <4> SUFFICES ASSUME NEW l \in 1 .. m PROVE p.Payload[l] = byte(L, a + 1 + l - 1)
          OBVIOUS
      <4>1. l \in 1 .. h /\ a + 1 + l - 1 = a + l
          BY <1>5
      <4> QED
          BY <1>2, <1>4, <1>12, <4>1
    <3>4. size(L)' = z
        BY <1>10, <1>13
    <3> QED
        BY <1>1, <1>4, <1>13, <3>1, <3>2, <3>3, <3>4, Zenon DEF Carries
  <2> QED
      BY <2>1, <2>2
<1>17. Sending'
  <2>1. CASE p.FinalChunk
    <3>1. left' = <<>>
        BY <1>7, <2>1
    <3> QED
        BY <1>1, <1>4, <1>6, <1>15, <2>1, <3>1, Zenon DEF Sending
  <2>2. CASE ~p.FinalChunk
    <3>1. left' # <<>> /\ Len(left') = h - m /\ ~ended'
        BY <1>1, <1>7, <1>12, <2>2, Zenon
    <3>2. h - m <= z /\ h - m # z /\ a + 1 + m = z - (h - m) + 1
        BY <1>5, <1>11
    <3>3. \A l \in 1 .. h - m : left'[l] = byte(L, z - (h - m) + l)
      <4> SUFFICES ASSUME NEW l \in 1 .. h - m PROVE left'[l] = byte(L, z - (h - m) + l)
          OBVIOUS
      <4>1. m + l \in 1 .. h /\ a + (m + l) = z - (h - m) + l
          BY <1>5, <1>11
      <4> QED
          BY <1>7, <1>12, <4>1, Zenon
    <3>4. nextMsg(w + 1)' = L /\ nextAt(w + 1)' = a + 1 + m
        BY <1>15, <2>2
    <3>5. size(L)' = z /\ Len(msgs') = L /\ L > 0 /\ Len(written') = w + 1
        BY <1>1, <1>4, <1>5, <1>6, <1>10, <1>13
    <3> QED
        BY <1>13, <3>1, <3>2, <3>3, <3>4, <3>5 DEF Sending
  <2> QED
      BY <2>1, <2>2
<1>18. nextMsg(Len(read))' = nextMsg(Len(read)) /\ nextAt(Len(read))' = nextAt(Len(read))
    BY <1>1, <1>5, <1>6 DEF nextMsg, nextAt, Payload
<1>19. Receiving'
    BY <1>1, <1>9, <1>13, <1>18 DEF Untorn, Receiving
<1>20. PICK off : Offsets(off) /\ Delivered(off)
    BY <1>9 DEF Untorn
<1>21. Offsets(off)'
    BY <1>1, <1>13, <1>20 DEF Offsets
<1>22. Delivered(off)'
    BY <1>1, <1>18, <1>20 DEF Delivered
<1> QED
    BY <1>1, <1>9, <1>16, <1>17, <1>19, <1>21, <1>22 DEF Untorn

\* What was read, and what waits to be read, is not more than what was sent.
LEMMA NotMore ==
    ASSUME LinkTypes, Untorn, NEW off, Offsets(off), Delivered(off)
    PROVE  /\ Len(stream) \in Nat /\ Len(recvBuffer) \in Nat /\ Len(sent) \in Nat
           /\ Len(stream) + Len(recvBuffer) <= Len(sent)
<1>1. Len(stream) \in Nat /\ Len(recvBuffer) \in Nat /\ Len(sent) \in Nat
      /\ Len(msgs) \in Nat
    BY DEF Untorn, LinkTypes
<1>2. off[nextMsg(Len(read))] <= off[Len(msgs) + 1]
    BY <1>1 DEF Offsets, Delivered
<1> QED
    BY <1>1, <1>2 DEF Offsets, Delivered

\* The next packet to be taken is of a message that was written; if there is
\* none, Recv is between two messages or at what Send has left.
LEMMA NextPacket ==
    ASSUME LinkTypes, Untorn, ~ended
    PROVE  \/ Len(read) < Len(written) /\ Carries(Len(read) + 1)
              /\ nextMsg(Len(read)) \in 1 .. Len(msgs)
           \/ Len(read) = Len(written)
<1>1. Len(read) \in Nat /\ Len(written) \in Nat /\ Len(read) <= Len(written)
    BY DEF LinkTypes
<1>2. CASE Len(read) < Len(written)
  <2>1. Len(read) + 1 \in 1 .. Len(written) /\ Len(read) + 1 - 1 = Len(read)
      BY <1>1, <1>2
  <2>2. Carries(Len(read) + 1)
      BY <2>1 DEF Untorn
  <2> QED
      BY <1>2, <2>1, <2>2 DEF Carries
<1> QED
    BY <1>1, <1>2

\* A piece of a sequence.
LEMMA Piece ==
    ASSUME NEW S, NEW s \in Seq(S), NEW m \in Nat, NEW len \in Nat, m + len <= Len(s)
    PROVE  /\ SubSeq(s, m + 1, m + len) \in Seq(S)
           /\ Len(SubSeq(s, m + 1, m + len)) = len
           /\ \A l \in 1 .. len : SubSeq(s, m + 1, m + len)[l] = s[m + l]
    OBVIOUS

\* A message is written.
LEMMA WriteKeeps == ASSUME BytesIInv, NEW len \in Lengths, C!Write(len) PROVE BytesIInv'
<1>0. LinkTypes
    BY DEF BytesIInv
<1>1. /\ ~ended /\ left = <<>> /\ Len(msgs) < MaxMsgs
      /\ msgs' = Append(msgs, len)
      /\ left' = C!Serialize(Len(msgs) + 1, len)
      /\ sent' = sent \o SubSeq(left', baseLength + 1, baseLength + len)
      /\ UNCHANGED <<written, read, receiving, b, recvBuffer, stream, recvTimeout,
                     ticker, torn, ended>>
    BY DEF C!Write, C!link, C!receiver
<1>2. /\ msgs \in Seq(Lengths) /\ len \in Nat /\ baseLength \in Nat /\ baseLength > 0
      /\ MaxMsgs \in Nat
    BY <1>0, ConnectionsAssumption DEF LinkTypes
<1>3. PICK L \in Nat, h \in Nat : L = Len(msgs) /\ h = baseLength + len
    BY <1>2
<1>4. /\ msgs' \in Seq(Lengths) /\ Len(msgs') = L + 1 /\ msgs'[L + 1] = len
      /\ \A k \in 1 .. L : msgs'[k] = msgs[k]
    BY <1>1, <1>2, <1>3
<1>5. /\ left' \in Seq(Byte) /\ Len(left') = h /\ h > 0
      /\ \A l \in 1 .. h : left'[l] = [msg |-> L + 1, at |-> l, len |-> len]
  <2>1. left' = [l \in 1 .. h |-> [msg |-> L + 1, at |-> l, len |-> len]]
      BY <1>1, <1>3 DEF C!Serialize
  <2>2. \A l \in 1 .. h : [msg |-> L + 1, at |-> l, len |-> len] \in Byte
    <3> SUFFICES ASSUME NEW l \in 1 .. h
                 PROVE  [msg |-> L + 1, at |-> l, len |-> len] \in Byte
        OBVIOUS
    <3>1. L + 1 \in Nat /\ l \in Nat /\ len \in Nat
        BY <1>2, <1>3
    <3> QED
        BY <3>1 DEF Byte
  <2>3. left' \in Seq(Byte) /\ Len(left') = h
      BY <1>3, <2>1, <2>2
  <2>4. h > 0
      BY <1>2, <1>3
  <2> QED
      BY <2>1, <2>3, <2>4
<1>6. left' # <<>>
    BY <1>5
<1>7. LinkTypes'
  <2>1. Len(msgs') <= MaxMsgs /\ Len(msgs') > 0
      BY <1>1, <1>2, <1>3, <1>4
  <2> QED
      BY <1>0, <1>1, <1>4, <1>5, <2>1 DEF LinkTypes, Payload
<1> SUFFICES ASSUME ~torn PROVE Untorn'
    BY <1>1, <1>7 DEF BytesIInv
<1>8. Untorn /\ sent \in Seq(Byte)
    BY DEF BytesIInv, Untorn
<1>9. nextMsg(Len(written)) = L + 1 /\ nextAt(Len(written)) = 1
    BY <1>1, <1>3, <1>8 DEF Untorn, Sending
<1>10. /\ \A i : nextMsg(i)' = nextMsg(i) /\ nextAt(i)' = nextAt(i) /\ Payload(i)' = Payload(i)
       /\ \A k \in 1 .. L : size(k)' = size(k) /\ \A at : byte(k, at)' = byte(k, at)
       /\ \A k : k = L + 1 =>
             size(k)' = h /\ \A at : byte(k, at)' = [msg |-> k, at |-> at, len |-> len]
    BY <1>1, <1>3, <1>4 DEF nextMsg, nextAt, Payload, size, byte
<1>11. PICK front : /\ front = SubSeq(left', baseLength + 1, baseLength + len)
                    /\ front \in Seq(Byte) /\ Len(front) = len
                    /\ \A l \in 1 .. len : front[l] = left'[baseLength + l]
  <2>1. baseLength + len <= Len(left')
      BY <1>2, <1>3, <1>5
  <2>2. LET front == SubSeq(left', baseLength + 1, baseLength + len)
        IN  /\ front \in Seq(Byte) /\ Len(front) = len
            /\ \A l \in 1 .. len : front[l] = left'[baseLength + l]
      BY <1>2, <1>5, <2>1, Piece
  <2> QED
      BY <2>2, Zenon
<1>12. /\ sent' \in Seq(Byte) /\ Len(sent') = Len(sent) + len /\ Len(sent) \in Nat
       /\ \A l \in 1 .. Len(sent) : sent'[l] = sent[l]
       /\ \A l \in 1 .. len : sent'[Len(sent) + l] = front[l]
  <2>1. sent' = sent \o front
      BY <1>1, <1>11, Zenon
  <2>2. /\ sent' \in Seq(Byte) /\ Len(sent') = Len(sent) + Len(front)
        /\ \A l \in 1 .. Len(sent) : sent'[l] = sent[l]
        /\ \A l \in 1 .. Len(front) : sent'[Len(sent) + l] = front[l]
      BY <1>8, <1>11, <2>1
  <2> QED
      BY <1>8, <1>11, <2>2, SMTT(30)
<1>13. \A i \in 1 .. Len(written) : Carries(i)' /\ nextMsg(i - 1) \in 1 .. L
  <2> SUFFICES ASSUME NEW i \in 1 .. Len(written)
               PROVE  Carries(i)' /\ nextMsg(i - 1) \in 1 .. L
      OBVIOUS
  <2>1. Carries(i)
      BY <1>8 DEF Untorn
  <2>2. nextMsg(i - 1) \in 1 .. L
      BY <1>3, <2>1 DEF Carries
  <2>3. nextMsg(i - 1) \in 1 .. L + 1
      BY <1>3, <2>2
  <2> QED
      BY <1>1, <1>4, <1>10, <2>1, <2>2, <2>3, SMTT(30) DEF Carries
<1>14. Sending'
  <2>1. /\ nextMsg(Len(written))' = L + 1 /\ nextAt(Len(written))' = 1
        /\ size(L + 1)' = h /\ L + 1 > 0 /\ h <= h
    <3>1. nextMsg(Len(written))' = L + 1 /\ nextAt(Len(written))' = 1
        BY <1>1, <1>9, Zenon DEF nextMsg, nextAt, Payload
    <3>2. size(L + 1)' = h
        BY <1>10, Zenon
    <3>3. L + 1 > 0 /\ h <= h
        BY <1>3
    <3> QED
        BY <3>1, <3>2, <3>3, Zenon
  <2>2. h - h + 1 = 1 /\ \A l \in 1 .. h : h - h + l = l
      BY <1>3
  <2>3. \A l \in 1 .. h : left'[l] = byte(L + 1, h - h + l)'
      BY <1>5, <1>10, <2>2
  <2>4. \A i \in 1 .. Len(written) : nextMsg(i - 1)' < L + 1
      BY <1>3, <1>10, <1>13
  <2> QED
      BY <1>1, <1>3, <1>4, <1>5, <1>6, <2>1, <2>2, <2>3, <2>4 DEF Sending
<1>15. PICK off : Offsets(off) /\ Delivered(off)
    BY <1>8 DEF Untorn
<1>16. nextMsg(Len(read)) \in 1 .. L \/ (nextMsg(Len(read)) = L + 1 /\ nextAt(Len(read)) = 1)
    BY <1>0, <1>1, <1>3, <1>8, <1>9, NextPacket
<1>17. Receiving'
  <2>1. Len(b) = nextAt(Len(read)) - 1 /\ \A l \in 1 .. Len(b) : b[l] = byte(nextMsg(Len(read)), l)
      BY <1>1, <1>8 DEF Untorn, Receiving
  <2>2. nextMsg(Len(read))' = nextMsg(Len(read)) /\ nextAt(Len(read))' = nextAt(Len(read))
      BY <1>1 DEF nextMsg, nextAt, Payload
  <2>3. CASE nextMsg(Len(read)) \in 1 .. L
      BY <1>1, <1>10, <2>1, <2>2, <2>3 DEF Receiving
  <2>4. CASE nextMsg(Len(read)) = L + 1 /\ nextAt(Len(read)) = 1
    <3>1. Len(b) = 0
        BY <2>1, <2>4
    <3> QED
        BY <1>1, <2>1, <2>2, <2>4, <3>1 DEF Receiving
  <2> QED
      BY <1>16, <2>3, <2>4
<1>18. /\ off \in [1 .. L + 1 -> Nat] /\ off[1] = 0 /\ off[L + 1] = Len(sent)
       /\ \A k, l \in 1 .. L + 1 : k <= l => off[k] <= off[l]
       /\ \A k \in 1 .. L :
             /\ off[k + 1] = off[k] + msgs[k]
             /\ \A l \in 1 .. msgs[k] : sent[off[k] + l] = byte(k, baseLength + l)
    BY <1>3, <1>15 DEF Offsets
<1>19. PICK new : new = [k \in 1 .. L + 2 |-> IF k = L + 2 THEN Len(sent) + len ELSE off[k]]
    BY Zenon
<1>20. /\ new \in [1 .. L + 2 -> Nat] /\ new[L + 2] = Len(sent) + len
       /\ \A k \in 1 .. L + 1 : new[k] = off[k]
  <2>1. \A k \in 1 .. L + 2 : k = L + 2 \/ k \in 1 .. L + 1
      BY <1>3
  <2>2. Len(sent) + len \in Nat
      BY <1>2, <1>12
  <2>3. \A k \in 1 .. L + 1 : k \in 1 .. L + 2 /\ k # L + 2 /\ off[k] \in Nat
      BY <1>3, <1>18
  <2>4. L + 2 \in 1 .. L + 2
      BY <1>3
  <2> QED
      BY <1>19, <2>1, <2>2, <2>3, <2>4
<1>21. Offsets(new)'
  <2>1. new[1] = 0 /\ new[L + 1] = Len(sent)
      BY <1>3, <1>18, <1>20
  <2>2. \A k, l \in 1 .. L + 2 : k <= l => new[k] <= new[l]
    <3> SUFFICES ASSUME NEW k \in 1 .. L + 2, NEW l \in 1 .. L + 2, k <= l
                 PROVE  new[k] <= new[l]
        OBVIOUS
    <3>1. CASE l \in 1 .. L + 1
      <4>1. k \in 1 .. L + 1
          BY <1>3, <3>1
      <4> QED
          BY <1>18, <1>20, <3>1, <4>1
    <3>2. CASE l = L + 2 /\ k \in 1 .. L + 1
      <4>1. off[k] <= off[L + 1] /\ off[k] \in Nat
          BY <1>3, <1>18, <3>2
      <4>2. off[k] <= Len(sent) + len
          BY <1>2, <1>12, <1>18, <4>1
      <4> QED
          BY <1>20, <3>2, <4>2
    <3>3. CASE l = L + 2 /\ k = L + 2
        BY <1>2, <1>12, <1>20, <3>3
    <3> QED
        BY <1>3, <3>1, <3>2, <3>3
  <2>3. \A k \in 1 .. L + 1 :
            /\ new[k + 1] = new[k] + msgs'[k]
            /\ \A l \in 1 .. msgs'[k] : sent'[new[k] + l] = byte(k, baseLength + l)'
    <3> SUFFICES ASSUME NEW k \in 1 .. L + 1
                 PROVE  /\ new[k + 1] = new[k] + msgs'[k]
                        /\ \A l \in 1 .. msgs'[k] : sent'[new[k] + l] = byte(k, baseLength + l)'
        OBVIOUS
    <3>1. CASE k \in 1 .. L
      <4>1. /\ k + 1 \in 1 .. L + 1 /\ k \in 1 .. L + 1 /\ new[k] = off[k]
            /\ new[k + 1] = off[k + 1] /\ msgs'[k] = msgs[k] /\ msgs[k] \in Lengths
          BY <1>2, <1>3, <1>4, <1>20, <3>1
      <4>2. msgs[k] \in Nat /\ off[k] \in Nat /\ off[k] + msgs[k] <= Len(sent)
        <5>1. off[k + 1] <= off[L + 1] /\ off[k] \in Nat
            BY <1>3, <1>18, <4>1
        <5> QED
            BY <1>18, <3>1, <4>1, <5>1, ConnectionsAssumption, Zenon
      <4>3. \A l \in 1 .. msgs[k] : sent'[off[k] + l] = byte(k, baseLength + l)
        <5> SUFFICES ASSUME NEW l \in 1 .. msgs[k]
                     PROVE  sent'[off[k] + l] = byte(k, baseLength + l)
            OBVIOUS
        <5>1. off[k] + l \in 1 .. Len(sent)
            BY <1>12, <4>2, SMTT(30)
        <5> QED
            BY <1>12, <1>18, <3>1, <5>1, Zenon
      <4> QED
          BY <1>10, <1>18, <3>1, <4>1, <4>3
    <3>2. CASE k = L + 1
      <4>1. new[k] = Len(sent) /\ new[k + 1] = Len(sent) + len /\ msgs'[k] = len
        <5>1. k + 1 = L + 2
            BY <1>3, <3>2
        <5> QED
            BY <1>4, <1>20, <2>1, <3>2, <5>1
      <4>2. \A l \in 1 .. len : sent'[Len(sent) + l] = byte(k, baseLength + l)'
        <5> SUFFICES ASSUME NEW l \in 1 .. len
                     PROVE  sent'[Len(sent) + l] = byte(k, baseLength + l)'
            OBVIOUS
        <5>1. baseLength + l \in 1 .. h
            BY <1>2, <1>3
        <5>2. sent'[Len(sent) + l] = left'[baseLength + l]
            BY <1>11, <1>12, Zenon
        <5> QED
            BY <1>5, <1>10, <3>2, <5>1, <5>2
      <4> QED
          BY <4>1, <4>2
    <3> QED
        BY <1>3, <3>1, <3>2
  <2>4. Len(msgs') + 1 = L + 2 /\ Len(sent') = Len(sent) + len
      BY <1>3, <1>4, <1>12
  <2> QED
      BY <1>4, <1>20, <2>1, <2>2, <2>3, <2>4 DEF Offsets
<1>22. Delivered(new)'
  <2>1. Len(stream) \in Nat /\ Len(recvBuffer) \in Nat
        /\ Len(stream) + Len(recvBuffer) <= Len(sent)
      BY <1>0, <1>8, <1>15, NotMore
  <2>2. nextMsg(Len(read))' = nextMsg(Len(read))
      BY <1>1 DEF nextMsg, Payload
  <2>3. /\ nextMsg(Len(read)) \in 1 .. L + 1
        /\ Len(stream) + Len(recvBuffer) = off[nextMsg(Len(read))]
        /\ \A l \in 1 .. Len(stream) : stream[l] = sent[l]
        /\ \A l \in 1 .. Len(recvBuffer) : recvBuffer[l] = sent[Len(stream) + l]
      BY <1>3, <1>15, SMTT(30) DEF Delivered
  <2>4. nextMsg(Len(read)) \in 1 .. Len(msgs') + 1
      BY <1>3, <1>4, <2>3
  <2>5. \A l \in 1 .. Len(stream) : l \in 1 .. Len(sent)
      BY <1>12, <2>1
  <2>6. \A l \in 1 .. Len(recvBuffer) : Len(stream) + l \in 1 .. Len(sent)
      BY <1>12, <2>1
  <2> QED
      BY <1>1, <1>12, <1>20, <2>2, <2>3, <2>4, <2>5, <2>6, Zenon DEF Delivered
<1> QED
    BY <1>1, <1>8, <1>12, <1>13, <1>14, <1>17, <1>21, <1>22 DEF Untorn

\* Send gives up. Nothing of a message is lost if none of it was sent.
LEMMA SendTimeoutKeeps == ASSUME BytesIInv, C!errSendTimeout PROVE BytesIInv'
<1>0. LinkTypes
    BY DEF BytesIInv
<1>1. /\ left # <<>> /\ left' = <<>> /\ left' \in Seq(Byte)
      /\ UNCHANGED <<written, read, receiving, b, recvBuffer, stream, recvTimeout,
                     ticker, ended>>
      /\ IF Len(left) = size(Len(msgs))
         THEN /\ msgs' = SubSeq(msgs, 1, Len(msgs) - 1)
              /\ sent' = SubSeq(sent, 1, Len(sent) - msgs[Len(msgs)])
              /\ torn' = torn
         ELSE torn' = TRUE /\ msgs' = msgs
    BY DEF C!errSendTimeout, C!total, C!link, C!receiver, size
<1>2. PICK L \in Nat : L = Len(msgs) /\ L > 0
    BY <1>0, <1>1 DEF LinkTypes
<1>3. msgs \in Seq(Lengths) /\ {torn} \subseteq BOOLEAN /\ MaxMsgs \in Nat /\ L <= MaxMsgs
      /\ ~ended
    BY <1>0, <1>1, <1>2, ConnectionsAssumption DEF LinkTypes
<1>4. CASE Len(left) # size(Len(msgs))
  <2>1. torn' = TRUE /\ msgs' = msgs
      BY <1>1, <1>4
  <2>2. LinkTypes'
      BY <1>0, <1>1, <2>1 DEF LinkTypes, Payload
  <2> QED
      BY <2>1, <2>2 DEF BytesIInv
<1>5. CASE Len(left) = size(Len(msgs))
  <2>1. /\ msgs' = SubSeq(msgs, 1, L - 1) /\ sent' = SubSeq(sent, 1, Len(sent) - msgs[L])
        /\ torn' = torn
      BY <1>1, <1>2, <1>5
  <2>2. /\ msgs' \in Seq(Lengths) /\ Len(msgs') = L - 1
        /\ \A k \in 1 .. L - 1 : msgs'[k] = msgs[k]
      BY <1>2, <1>3, <2>1
  <2>3. LinkTypes'
    <3>1. Len(msgs') <= MaxMsgs
        BY <1>2, <1>3, <2>2
    <3> QED
        BY <1>0, <1>1, <2>1, <2>2, <3>1 DEF LinkTypes, Payload
  <2> SUFFICES ASSUME ~torn PROVE Untorn'
      BY <2>1, <2>3 DEF BytesIInv
  <2>4. Untorn /\ sent \in Seq(Byte)
      BY DEF BytesIInv, Untorn
  <2>5. /\ nextMsg(Len(written)) = L /\ nextAt(Len(written)) = 1
        /\ \A i \in 1 .. Len(written) : nextMsg(i - 1) < L
    <3>1. /\ nextMsg(Len(written)) = L /\ nextAt(Len(written)) = size(L) - Len(left) + 1
          /\ \A i \in 1 .. Len(written) : nextMsg(i - 1) < L
        BY <1>1, <1>2, <1>5, <2>4 DEF Untorn, Sending
    <3>2. Len(left) \in Nat
        BY <1>0 DEF LinkTypes
    <3> QED
        BY <1>2, <1>5, <3>1, <3>2
  <2>6. /\ \A i : nextMsg(i)' = nextMsg(i) /\ nextAt(i)' = nextAt(i) /\ Payload(i)' = Payload(i)
        /\ \A k \in 1 .. L - 1 : size(k)' = size(k) /\ \A at : byte(k, at)' = byte(k, at)
      BY <1>1, <2>2 DEF nextMsg, nextAt, Payload, size, byte
  <2>7. \A i \in 1 .. Len(written) : Carries(i)' /\ nextMsg(i - 1) \in 1 .. L - 1
    <3> SUFFICES ASSUME NEW i \in 1 .. Len(written)
                 PROVE  Carries(i)' /\ nextMsg(i - 1) \in 1 .. L - 1
        OBVIOUS
    <3>1. Carries(i)
        BY <2>4 DEF Untorn
    <3>2. nextMsg(i - 1) \in 1 .. L - 1
        BY <1>2, <2>5, <3>1 DEF Carries
    <3> QED
        BY <1>1, <2>2, <2>6, <3>1, <3>2, Zenon DEF Carries
  <2>8. Sending'
    <3>1. nextMsg(Len(written))' = L /\ nextAt(Len(written))' = 1 /\ Len(msgs') + 1 = L
        BY <1>1, <1>2, <2>2, <2>5 DEF nextMsg, nextAt, Payload
    <3> QED
        BY <1>1, <3>1 DEF Sending
  <2>9. nextMsg(Len(read)) \in 1 .. L - 1 \/ (nextMsg(Len(read)) = L /\ nextAt(Len(read)) = 1)
    <3>1. Len(read) \in Nat /\ Len(written) \in Nat /\ Len(read) <= Len(written)
        BY <1>0 DEF LinkTypes
    <3>2. CASE Len(read) < Len(written)
      <4>1. Len(read) + 1 \in 1 .. Len(written) /\ Len(read) + 1 - 1 = Len(read)
          BY <3>1, <3>2
      <4> QED
          BY <2>7, <4>1
    <3>3. CASE Len(read) = Len(written)
        BY <2>5, <3>3
    <3> QED
        BY <3>1, <3>2, <3>3
  <2>10. Receiving'
    <3>1. /\ Len(b) = nextAt(Len(read)) - 1
          /\ \A l \in 1 .. Len(b) : b[l] = byte(nextMsg(Len(read)), l)
        BY <1>3, <2>4 DEF Untorn, Receiving
    <3>2. nextMsg(Len(read))' = nextMsg(Len(read)) /\ nextAt(Len(read))' = nextAt(Len(read))
        BY <1>1 DEF nextMsg, nextAt, Payload
    <3>3. CASE nextMsg(Len(read)) \in 1 .. L - 1
        BY <1>1, <2>6, <3>1, <3>2, <3>3 DEF Receiving
    <3>4. CASE nextMsg(Len(read)) = L /\ nextAt(Len(read)) = 1
      <4>1. Len(b) = 0
          BY <3>1, <3>4
      <4> QED
          BY <1>1, <3>1, <3>2, <3>4, <4>1 DEF Receiving
    <3> QED
        BY <2>9, <3>3, <3>4
  <2>11. PICK off : Offsets(off) /\ Delivered(off)
      BY <2>4 DEF Untorn
  <2>12. /\ off \in [1 .. L + 1 -> Nat] /\ off[1] = 0 /\ off[L + 1] = Len(sent)
         /\ \A k, l \in 1 .. L + 1 : k <= l => off[k] <= off[l]
         /\ \A k \in 1 .. L :
               /\ off[k + 1] = off[k] + msgs[k]
               /\ \A l \in 1 .. msgs[k] : sent[off[k] + l] = byte(k, baseLength + l)
      BY <1>2, <2>11 DEF Offsets
  <2>13. /\ sent' \in Seq(Byte) /\ Len(sent') = off[L]
         /\ \A l \in 1 .. off[L] : sent'[l] = sent[l]
    <3>1. msgs[L] \in Lengths /\ off[L] \in Nat /\ off[L + 1] = off[L] + msgs[L]
        BY <1>2, <1>3, <2>12
    <3>2. msgs[L] \in Nat
        BY <3>1, ConnectionsAssumption, Zenon
    <3>3. off[L] \in 0 .. Len(sent) /\ Len(sent) - msgs[L] = off[L]
        BY <2>12, <3>1, <3>2
    <3>4. sent' = SubSeq(sent, 1, off[L])
        BY <2>1, <3>3
    <3> QED
        BY <2>4, <3>3, <3>4
  <2>14. PICK new : new = [k \in 1 .. L |-> off[k]]
      BY Zenon
  <2>15. new \in [1 .. L -> Nat] /\ \A k \in 1 .. L : new[k] = off[k]
    <3>1. \A k \in 1 .. L : k \in 1 .. L + 1
        BY <1>2
    <3> QED
        BY <2>12, <2>14, <3>1
  <2>16. Offsets(new)'
    <3>1. new[1] = 0 /\ new[L] = off[L]
        BY <1>2, <2>12, <2>15
    <3>2. \A k, l \in 1 .. L : k <= l => new[k] <= new[l]
        BY <1>2, <2>12, <2>15
    <3>3. \A k \in 1 .. L - 1 :
              /\ new[k + 1] = new[k] + msgs'[k]
              /\ \A l \in 1 .. msgs'[k] : sent'[new[k] + l] = byte(k, baseLength + l)'
      <4> SUFFICES ASSUME NEW k \in 1 .. L - 1
                   PROVE  /\ new[k + 1] = new[k] + msgs'[k]
                          /\ \A l \in 1 .. msgs'[k] : sent'[new[k] + l] = byte(k, baseLength + l)'
          OBVIOUS
      <4>1. /\ k \in 1 .. L /\ k + 1 \in 1 .. L /\ k + 1 \in 1 .. L + 1 /\ L \in 1 .. L + 1
            /\ k \in 1 .. L + 1 /\ k + 1 <= L
          BY <1>2
      <4>2. /\ new[k] = off[k] /\ new[k + 1] = off[k + 1] /\ msgs'[k] = msgs[k]
            /\ msgs[k] \in Lengths
          BY <1>2, <1>3, <2>2, <2>15, <4>1
      <4>3. off[k + 1] <= off[L] /\ off[k] \in Nat /\ off[k + 1] = off[k] + msgs[k]
          BY <2>12, <4>1
      <4>4. msgs[k] \in Nat /\ off[L] \in Nat
          BY <2>12, <4>1, <4>2, ConnectionsAssumption, Zenon
      <4>5. \A l \in 1 .. msgs[k] : sent'[off[k] + l] = byte(k, baseLength + l)
        <5> SUFFICES ASSUME NEW l \in 1 .. msgs[k]
                     PROVE  sent'[off[k] + l] = byte(k, baseLength + l)
            OBVIOUS
        <5>1. off[k] + l \in 1 .. off[L]
            BY <4>3, <4>4
        <5> QED
            BY <2>12, <2>13, <4>1, <5>1, Zenon
      <4> QED
          BY <2>6, <4>2, <4>3, <4>5
    <3>4. Len(msgs') + 1 = L
        BY <1>2, <2>2
    <3> QED
        BY <2>2, <2>13, <2>15, <3>1, <3>2, <3>3, <3>4 DEF Offsets
  <2>17. Delivered(new)'
    <3>1. nextMsg(Len(read))' = nextMsg(Len(read)) /\ nextMsg(Len(read)) \in 1 .. L
        BY <1>1, <1>2, <2>9 DEF nextMsg, Payload
    <3>2. /\ Len(stream) + Len(recvBuffer) = off[nextMsg(Len(read))]
          /\ \A l \in 1 .. Len(stream) : stream[l] = sent[l]
          /\ \A l \in 1 .. Len(recvBuffer) : recvBuffer[l] = sent[Len(stream) + l]
        BY <2>11 DEF Delivered
    <3>3. PICK k \in 1 .. L : k = nextMsg(Len(read))
        BY <3>1
    <3>4. k \in 1 .. L + 1 /\ L \in 1 .. L + 1 /\ k <= L
        BY <1>2, <3>3
    <3>5. off[k] <= off[L] /\ off[L] \in Nat /\ off[k] \in Nat
        BY <2>12, <3>4
    <3>6. Len(stream) \in Nat /\ Len(recvBuffer) \in Nat
        BY <2>4 DEF Untorn
    <3>7. \A l \in 1 .. Len(stream) : l \in 1 .. off[L]
        BY <3>2, <3>3, <3>5, <3>6
    <3>8. \A l \in 1 .. Len(recvBuffer) : Len(stream) + l \in 1 .. off[L]
        BY <3>2, <3>3, <3>5, <3>6
    <3>9. Len(msgs') + 1 = L
        BY <1>2, <2>2
    <3> QED
        BY <1>1, <2>13, <2>15, <3>1, <3>2, <3>7, <3>8, <3>9 DEF Delivered
  <2> QED
      BY <1>1, <2>4, <2>7, <2>8, <2>10, <2>13, <2>16, <2>17 DEF Untorn
<1> QED
    BY <1>4, <1>5

\* Recv takes a packet. With the last one of a message the payload waits to be
\* read.
LEMMA RecvPacketKeeps == ASSUME BytesIInv, C!recvPacket PROVE BytesIInv'
<1>0. LinkTypes
    BY DEF BytesIInv
<1>1. /\ receiving /\ Len(read) < Len(written)
      /\ read' = Append(read, written[Len(read) + 1])
      /\ UNCHANGED <<msgs, sent, left, written, stream, recvTimeout, ticker, torn, ended>>
      /\ IF written[Len(read) + 1].FinalChunk
         THEN /\ receiving' = FALSE /\ b' = <<>>
              /\ \E len \in C!payloadLens(b \o Payload(Len(read) + 1)) :
                     recvBuffer' = C!payload(b \o Payload(Len(read) + 1), len)
         ELSE b' = b \o Payload(Len(read) + 1) /\ UNCHANGED <<receiving, recvBuffer>>
    BY Zenon DEF C!recvPacket, C!Channel!Get, C!sender, Payload
<1>2. /\ written \in Seq(Pkt) /\ read \in Seq(Pkt) /\ Len(read) \in Nat /\ Len(written) \in Nat
      /\ ~ended /\ recvBuffer = <<>> /\ n \in Nat /\ Len(written) - Len(read) <= n
    BY <1>0, <1>1, ConnectionsAssumption, SMTT(30) DEF LinkTypes
<1>3. PICK r \in Nat : r = Len(read) /\ r < Len(written)
    BY <1>1, <1>2
<1>4. PICK p : p = written[r + 1] /\ p \in Pkt
  <2>1. r + 1 \in 1 .. Len(written)
      BY <1>2, <1>3
  <2> QED
      BY <1>2, <2>1
<1>5. read' \in Seq(Pkt) /\ Len(read') = r + 1
    BY <1>1, <1>2, <1>3, <1>4
<1>6. LinkTypes'
  <2>1. Len(read') <= Len(written') /\ Len(written') - Len(read') <= n
      BY <1>1, <1>2, <1>3, <1>5
  <2>2. receiving' \in BOOLEAN /\ (receiving' => recvBuffer' = <<>>)
    <3>1. CASE p.FinalChunk
        BY <1>1, <1>3, <1>4, <3>1, Zenon
    <3>2. CASE ~p.FinalChunk
      <4>1. receiving' = receiving /\ recvBuffer' = recvBuffer
          BY <1>1, <1>3, <1>4, <3>2
      <4>2. {receiving} \subseteq BOOLEAN
          BY <1>0 DEF LinkTypes
      <4> QED
          BY <1>2, <4>1, <4>2
    <3> QED
        BY <3>1, <3>2
  <2> QED
      BY <1>0, <1>1, <1>2, <1>5, <2>1, <2>2 DEF LinkTypes, Payload
<1> SUFFICES ASSUME ~torn PROVE Untorn'
    BY <1>1, <1>6 DEF BytesIInv
<1>7. Untorn /\ b \in Seq(Byte) /\ stream \in Seq(Byte) /\ sent \in Seq(Byte)
    BY DEF BytesIInv, Untorn
<1>8. PICK k, at : k = nextMsg(r) /\ at = nextAt(r)
    OBVIOUS
<1>9. /\ k \in 1 .. Len(msgs) /\ at \in 1 .. size(k) /\ at + Len(p.Payload) - 1 <= size(k)
      /\ \A l \in 1 .. Len(p.Payload) : p.Payload[l] = byte(k, at + l - 1)
      /\ p.FinalChunk <=> at + Len(p.Payload) - 1 = size(k)
  <2>1. r + 1 \in 1 .. Len(written) /\ r + 1 - 1 = r
      BY <1>2, <1>3
  <2>2. Carries(r + 1)
      BY <1>7, <2>1 DEF Untorn
  <2> QED
      BY <1>4, <1>8, <2>1, <2>2 DEF Carries, Payload
<1>10. /\ p.Payload \in Seq(Byte) /\ Len(p.Payload) \in Nat /\ Len(p.Payload) > 0
       /\ msgs[k] \in Nat /\ baseLength \in Nat /\ baseLength > 0 /\ size(k) \in Nat
       /\ at \in Nat /\ at > 0 /\ k \in Nat /\ Len(msgs) \in Nat
  <2>1. p.Payload \in Seq(Byte)
      BY <1>4 DEF Pkt
  <2>2. Len(p.Payload) > 0
    <3>1. r + 1 \in 1 .. Len(written)
        BY <1>2, <1>3
    <3> QED
        BY <1>0, <1>4, <3>1 DEF LinkTypes, Payload
  <2>3. msgs[k] \in Lengths /\ Len(msgs) \in Nat
      BY <1>0, <1>9 DEF LinkTypes
  <2>4. msgs[k] \in Nat /\ baseLength \in Nat /\ baseLength > 0
    <3>1. baseLength \in Nat \ {0} /\ Lengths \subseteq Nat
        BY ConnectionsAssumption
    <3>2. msgs[k] \in Nat
        BY <2>3, <3>1, Zenon
    <3>3. baseLength \in Nat /\ baseLength > 0
        BY <3>1
    <3> QED
        BY <3>2, <3>3
  <2>5. size(k) \in Nat
      BY <2>4 DEF size
  <2> QED
      BY <1>9, <2>1, <2>2, <2>3, <2>4, <2>5
<1>11. PICK m \in Nat, len \in Nat : m = Len(p.Payload) /\ m > 0 /\ len = msgs[k]
    BY <1>10
<1>12. Len(b) = at - 1 /\ \A l \in 1 .. at - 1 : b[l] = byte(k, l)
    BY <1>2, <1>3, <1>7, <1>8 DEF Untorn, Receiving
<1>13. PICK bytes : bytes = b \o p.Payload
    BY Zenon
<1>14. /\ bytes \in Seq(Byte) /\ Len(bytes) = at - 1 + m
       /\ \A l \in 1 .. at - 1 : bytes[l] = b[l]
       /\ \A l \in 1 .. m : bytes[at - 1 + l] = p.Payload[l]
  <2>1. /\ bytes \in Seq(Byte) /\ Len(bytes) = Len(b) + Len(p.Payload)
        /\ \A l \in 1 .. Len(b) : bytes[l] = b[l]
        /\ \A l \in 1 .. Len(p.Payload) : bytes[Len(b) + l] = p.Payload[l]
    <3>1. b \in Seq(Byte) /\ p.Payload \in Seq(Byte)
        BY <1>7, <1>10
    <3> QED
        BY <1>13, <3>1
  <2> QED
      BY <1>11, <1>12, <2>1
<1>15. \A l \in 1 .. at - 1 + m : bytes[l] = byte(k, l)
  <2> SUFFICES ASSUME NEW l \in 1 .. at - 1 + m PROVE bytes[l] = byte(k, l)
      OBVIOUS
  <2>1. CASE l <= at - 1
    <3>1. l \in 1 .. at - 1
        BY <1>10, <1>11, <2>1
    <3> QED
        BY <1>12, <1>14, <3>1
  <2>2. CASE l > at - 1
    <3>1. PICK j \in 1 .. m : j = l - (at - 1)
        BY <1>10, <1>11, <2>2
    <3>2. at - 1 + j = l /\ at + j - 1 = l /\ j \in 1 .. m
        BY <1>10, <1>11, <3>1
    <3>3. bytes[l] = p.Payload[j] /\ p.Payload[j] = byte(k, at + j - 1)
        BY <1>9, <1>11, <1>14, <3>2, Zenon
    <3> QED
        BY <3>2, <3>3
  <2> QED
      BY <1>10, <1>11, <2>1, <2>2
<1>16. p.Payload[1].msg = k /\ p.Payload[1].at = at
  <2>1. 1 \in 1 .. m /\ at + 1 - 1 = at
      BY <1>10, <1>11
  <2>2. p.Payload[1] = byte(k, at)
      BY <1>9, <1>11, <2>1
  <2> QED
      BY <2>2 DEF byte
<1>17. /\ nextMsg(r + 1) = k + (IF p.FinalChunk THEN 1 ELSE 0)
       /\ nextAt(r + 1) = IF p.FinalChunk THEN 1 ELSE at + m
  <2>1. r + 1 # 0
      BY <1>3
  <2> QED
      BY <1>4, <1>11, <1>16, <2>1 DEF nextMsg, nextAt, Payload
<1>18. /\ \A i : nextMsg(i)' = nextMsg(i) /\ nextAt(i)' = nextAt(i)
       /\ \A i \in 1 .. Len(written) : Carries(i)'
    BY <1>1, <1>7, SamePackets DEF Untorn
<1>19. \A i, j : byte(i, j)' = byte(i, j) /\ size(i)' = size(i)
    BY <1>1 DEF byte, size
<1>20. Sending'
    BY <1>1, <1>7, Zenon DEF Untorn, Sending, nextMsg, nextAt, Payload, size, byte
<1>21. PICK off : Offsets(off) /\ Delivered(off)
    BY <1>7 DEF Untorn
<1>22. Offsets(off)'
    BY <1>1, <1>21, Zenon DEF Offsets, byte
<1>23. /\ Len(stream) = off[k] /\ Len(stream) \in Nat
       /\ \A l \in 1 .. Len(stream) : stream[l] = sent[l]
  <2>1. Len(recvBuffer) = 0 /\ Len(stream) \in Nat
      BY <1>2, <1>7
  <2> QED
      BY <1>3, <1>8, <1>21, <2>1 DEF Delivered
<1>24. nextMsg(Len(read))' = nextMsg(r + 1) /\ nextAt(Len(read))' = nextAt(r + 1)
    BY <1>1, <1>5 DEF nextMsg, nextAt, Payload
<1>25. CASE ~p.FinalChunk
  <2>1. b' = bytes /\ recvBuffer' = <<>> /\ Len(recvBuffer') = 0
      BY <1>1, <1>2, <1>3, <1>4, <1>13, <1>25 DEF Payload
  <2>2. nextMsg(Len(read))' = k /\ nextAt(Len(read))' = at + m
      BY <1>10, <1>17, <1>24, <1>25
  <2>3. Receiving'
    <3>1. Len(b') = at + m - 1 /\ \A l \in 1 .. Len(b') : b'[l] = byte(k, l)
        BY <1>10, <1>11, <1>14, <1>15, <2>1
    <3>2. Len(b') = nextAt(Len(read))' - 1
      <4>1. at \in Nat /\ m \in Nat
          BY <1>10, <1>11
      <4> QED
          BY <2>2, <3>1, <4>1
    <3>3. \A l \in 1 .. Len(b') : b'[l] = byte(nextMsg(Len(read)), l)'
        BY <1>1, <2>2, <3>1 DEF byte
    <3> QED
        BY <1>19, <3>1, <3>2, <3>3 DEF Receiving
  <2>4. Delivered(off)'
    <3>1. k \in 1 .. Len(msgs') + 1 /\ Len(stream') + Len(recvBuffer') = off[k]
        BY <1>1, <1>9, <1>10, <1>23, <2>1
    <3> QED
        BY <1>1, <1>23, <2>1, <2>2, <3>1 DEF Delivered
  <2> QED
      BY <1>1, <1>7, <1>14, <1>18, <1>20, <1>22, <2>1, <2>3, <2>4, Zenon DEF Untorn
<1>26. CASE p.FinalChunk
  <2>1. /\ b' = <<>> /\ b' \in Seq(Byte)
        /\ \E lg \in C!payloadLens(bytes) : recvBuffer' = C!payload(bytes, lg)
      BY <1>1, <1>3, <1>4, <1>13, <1>26 DEF Payload
  <2>2. Len(bytes) = baseLength + len
    <3>1. at + m - 1 = baseLength + len
        BY <1>9, <1>11, <1>26 DEF size
    <3> QED
        BY <1>10, <1>11, <1>14, <3>1
  <2>3. bytes[1].at = 1 /\ bytes[1].len = len
    <3>1. 1 \in 1 .. at - 1 + m
        BY <1>10, <1>11
    <3>2. bytes[1] = byte(k, 1)
        BY <1>15, <3>1
    <3> QED
        BY <1>11, <3>2 DEF byte
  <2>4. recvBuffer' = SubSeq(bytes, baseLength + 1, baseLength + len)
    <3>1. recvBuffer' = C!payload(bytes, len)
        BY <2>1, <2>3 DEF C!payloadLens
    <3>2. ~(Len(bytes) < baseLength + len)
        BY <1>10, <2>2
    <3> QED
        BY <3>1, <3>2, Zenon DEF C!payload
  <2>5. /\ recvBuffer' \in Seq(Byte) /\ Len(recvBuffer') = len
        /\ \A l \in 1 .. len : recvBuffer'[l] = bytes[baseLength + l]
    <3>1. baseLength + len <= Len(bytes)
        BY <1>10, <2>2
    <3> QED
        BY <1>10, <1>14, <2>4, <3>1, Piece
  <2>6. nextMsg(Len(read))' = k + 1 /\ nextAt(Len(read))' = 1
      BY <1>17, <1>24, <1>26
  <2>7. Receiving'
    <3>1. Len(b') = 0
        BY <2>1
    <3> QED
        BY <2>6, <3>1 DEF Receiving
  <2>8. Delivered(off)'
    <3>1. /\ off[k + 1] = off[k] + len
          /\ \A l \in 1 .. len : sent[off[k] + l] = byte(k, baseLength + l)
        BY <1>9, <1>11, <1>21, Zenon DEF Offsets
    <3>2. \A l \in 1 .. len : recvBuffer'[l] = sent[Len(stream) + l]
      <4> SUFFICES ASSUME NEW l \in 1 .. len
                   PROVE  recvBuffer'[l] = sent[Len(stream) + l]
          OBVIOUS
      <4>1. baseLength + l \in 1 .. at - 1 + m
        <5>1. at - 1 + m = baseLength + len /\ baseLength \in Nat /\ len \in Nat
            BY <1>10, <1>11, <1>14, <2>2, Zenon
        <5> QED
            BY <5>1
      <4> QED
          BY <1>15, <1>23, <2>5, <3>1, <4>1
    <3>3. k + 1 \in 1 .. Len(msgs') + 1
        BY <1>1, <1>9, <1>10
    <3>4. Len(stream') + Len(recvBuffer') = off[k + 1]
        BY <1>1, <1>23, <2>5, <3>1
    <3> QED
        BY <1>1, <1>23, <2>5, <2>6, <3>2, <3>3, <3>4 DEF Delivered
  <2> QED
      BY <1>1, <1>7, <1>18, <1>20, <1>22, <2>1, <2>5, <2>7, <2>8 DEF Untorn
<1> QED
    BY <1>25, <1>26

\* Every step keeps the invariant.
LEMMA BytesKeep == ASSUME BytesIInv, C!Next PROVE BytesIInv'
<1>1. ASSUME NEW len \in Lengths, C!Write(len) PROVE BytesIInv'
    BY <1>1, WriteKeeps
<1>2. CASE C!sendPacket
    BY <1>2, SendPacketKeeps
<1>3. CASE C!errSendTimeout
    BY <1>3, SendTimeoutKeeps
<1>4. CASE C!Recv \/ \E set \in BOOLEAN : C!SetReadDeadline(set)
    BY <1>4, RecvKeeps
<1>5. CASE C!recvPacket
    BY <1>5, RecvPacketKeeps
<1>6. CASE C!errRecvTimeout
    BY <1>6, RecvTimeoutKeeps
<1>7. CASE C!Read
    BY <1>7, ReadKeeps
<1>8. CASE C!exited
    BY <1>8, ExitedKeeps
<1> QED
    BY <1>1, <1>2, <1>3, <1>4, <1>5, <1>6, <1>7, <1>8 DEF C!Next

\* A step of the listener leaves the bytes alone.
LEMMA BytesStutter == ASSUME BytesIInv, UNCHANGED byteVars PROVE BytesIInv'
<1>1. /\ UNCHANGED <<msgs, sent, left, written, read, receiving, b, recvBuffer, stream,
                     recvTimeout, ticker, torn, ended>>
    BY DEF byteVars
<1>2. LinkTypes'
    BY <1>1 DEF BytesIInv, LinkTypes, Payload
<1>3. Untorn => b' \in Seq(Byte) /\ Sending' /\ Receiving'
    BY <1>1, Zenon DEF Untorn, Sending, Receiving, nextMsg, nextAt, Payload, size, byte
<1> QED
    BY <1>1, <1>2, <1>3, BytesRest

\* Send, Recv and Read (gbn/gbn_conn.go, mailbox/interface.go): for every size of
\* packets, of the window, of the messages and of the slices given to Read, the
\* bytes read are the bytes written, in order and without a gap, unless a timeout
\* fell into the middle of a message.
THEOREM BytesIntact == MCSpec => []StreamIntact
<1>1. MCInit => BytesIInv
    BY BytesStart DEF MCInit
<1>2. BytesIInv /\ [MCNext]_mcVars => BytesIInv'
  <2> SUFFICES ASSUME BytesIInv, [MCNext]_mcVars PROVE BytesIInv'
      OBVIOUS
  <2>1. CASE Bytes(C!Next)
      BY <2>1, BytesKeep DEF Bytes
  <2>2. CASE Listens(Next)
      BY <2>2, BytesStutter DEF Listens
  <2>3. CASE UNCHANGED mcVars
      BY <2>3, BytesStutter DEF mcVars
  <2> QED
      BY <2>1, <2>2, <2>3 DEF MCNext
<1>3. BytesIInv => StreamIntact
    BY BytesPromise
<1> QED
    BY <1>1, <1>2, <1>3, PTL DEF MCSpec

-----------------------------------------------------------------------------
(***************************************************************************)
(* The listener.                                                           *)
(***************************************************************************)

States == Running \cup {"none", "end"}

running(hs) == {q \in Peers : hs[q] \in Running}

(***************************************************************************)
(* A connection has no goroutine before it is accepted, and one that is    *)
(* open without a goroutine to close or deliver it is a known leak.        *)
(***************************************************************************)
Owned ==
    \A p \in Peers :
        /\ conn[p] \in {"none", "backlog"} => handshake[p] = "none"
        /\ conn[p] = "open" /\ handshake[p] \notin {"start", "act", "deliver"}
               => p \in broken \/ quit

IInv == TypeOK /\ TokensConserved /\ Owned

\* The number of running goroutines, when doHandshake(p) starts, goes on or ends.
LEMMA RunningStarts ==
    ASSUME NEW hs \in [Peers -> States], NEW p \in Peers, NEW v \in States,
           hs[p] \notin Running, v \in Running
    PROVE  /\ Cardinality(running([hs EXCEPT ![p] = v]))
                  = Cardinality(running(hs)) + 1
           /\ Cardinality(running(hs)) \in Nat
<1>1. running([hs EXCEPT ![p] = v]) = running(hs) \cup {p}
  BY DEF running
<1>2. IsFiniteSet(running(hs))
  BY PeersAssumption, FS_Subset DEF running
<1>3. p \notin running(hs)
  BY DEF running
<1> QED  BY <1>1, <1>2, <1>3, FS_AddElement, FS_CardinalityType, Zenon

\* A goroutine that goes on is still counted.
LEMMA RunningGoesOn ==
    ASSUME NEW hs \in [Peers -> States], NEW p \in Peers, NEW v \in States,
           hs[p] \in Running, v \in Running
    PROVE  running([hs EXCEPT ![p] = v]) = running(hs)
BY DEF running

\* A goroutine that ends is counted no more.
LEMMA RunningEnds ==
    ASSUME NEW hs \in [Peers -> States], NEW p \in Peers, NEW v \in States,
           hs[p] \in Running, v \notin Running
    PROVE  /\ Cardinality(running([hs EXCEPT ![p] = v]))
                  = Cardinality(running(hs)) - 1
           /\ Cardinality(running(hs)) \in Nat
<1>1. running([hs EXCEPT ![p] = v]) = running(hs) \ {p}
  BY DEF running
<1>2. IsFiniteSet(running(hs))
  BY PeersAssumption, FS_Subset DEF running
<1>3. p \in running(hs)
  BY DEF running
<1> QED  BY <1>1, <1>2, <1>3, FS_RemoveElement, FS_CardinalityType, Zenon

\* The running goroutines can be counted.
LEMMA ActiveCounted == Cardinality(active) \in Nat
<1>1. IsFiniteSet(active)
  BY PeersAssumption, FS_Subset DEF active
<1> QED  BY <1>1, FS_CardinalityType

\* The invariant of the listener holds when it starts.
LEMMA InitIInv == Init => IInv
<1> SUFFICES ASSUME Init PROVE IInv
  OBVIOUS
<1>1. TypeOK
  <2>1. handshakeSema \in 0 .. defaultHandshakes /\ listener \in Listening
    BY HandshakesAssumption DEF Init, Listening
  <2>2. accepting \in BOOLEAN /\ quit \in BOOLEAN /\ tcpClosed \in BOOLEAN
    BY Zenon DEF Init
  <2>3. /\ conn \in [Peers -> {"none", "backlog", "open", "delivered", "closed"}]
        /\ handshake \in [Peers -> Running \cup {"none", "end"}]
        /\ broken \subseteq Peers
    BY DEF Init
  <2> QED  BY <2>1, <2>2, <2>3 DEF TypeOK
<1>2. active = {}
  BY DEF Init, active, Running
<1>3. TokensConserved
  BY <1>2, FS_EmptySet, HandshakesAssumption DEF Init, TokensConserved, Holding
<1>4. Owned
  BY DEF Init, Owned
<1> QED  BY <1>1, <1>3, <1>4 DEF IInv

(***************************************************************************)
(* Each step keeps the invariant.                                          *)
(***************************************************************************)
LEMMA NextIInv == IInv /\ [Next]_vars => IInv'
<1> SUFFICES ASSUME IInv, [Next]_vars PROVE IInv'
  OBVIOUS
<1> DEFINE count == Cardinality(active)
<1>n. count \in Nat
  BY ActiveCounted
<1>t. /\ TypeOK /\ Owned /\ defaultHandshakes \in Nat
      /\ handshakeSema + count + (IF listener \in Holding THEN 1 ELSE 0) = defaultHandshakes
  BY HandshakesAssumption DEF IInv, TokensConserved
<1>a. active = running(handshake) /\ active' = running(handshake')
  BY DEF active, running
<1>h. handshake \in [Peers -> States]
  BY <1>t DEF TypeOK, States
<1>1. ASSUME UNCHANGED handshake, UNCHANGED handshakeSema,
             listener' \in Listening, listener' \in Holding <=> listener \in Holding,
             TypeOK', Owned'
      PROVE  IInv'
  <2>1. active' = active
    BY <1>1, <1>a
  <2> QED  BY <1>1, <2>1, <1>t DEF IInv, TokensConserved
<1>2. CASE Accept \/ acceptEnds \/ Close \/ closeTCP \/ UNCHANGED vars
  <2>1. UNCHANGED <<handshake, handshakeSema, listener>>
    BY <1>2 DEF Accept, acceptEnds, Close, closeTCP, vars
  <2>2. TypeOK'
    BY <1>2, <1>t, Zenon DEF Accept, acceptEnds, Close, closeTCP, vars, closing, TypeOK
  <2>3. Owned'
    BY <1>2, <1>t DEF Accept, acceptEnds, Close, closeTCP, vars, closing, TypeOK, Owned
  <2> QED  BY <2>1, <2>2, <2>3, <1>1, <1>t DEF TypeOK
<1>3. CASE listenQuits \/ listenFails \/ listenRejects
  <2>1. /\ UNCHANGED <<handshake, handshakeSema, conn, broken, quit, tcpClosed>>
        /\ listener' \in Listening /\ (listener' \in Holding <=> listener \in Holding)
    BY <1>3 DEF listenQuits, listenFails, listenRejects, Listening, Holding, closing
  <2>2. accepting' \in BOOLEAN
    BY <1>3, <1>t, Zenon DEF listenQuits, listenFails, listenRejects, delivered, TypeOK
  <2>3. TypeOK' /\ Owned'
    BY <2>1, <2>2, <1>t DEF TypeOK, Owned
  <2> QED  BY <2>1, <2>3, <1>1
<1>4. CASE listenTakes \/ listenReleases
  <2>1. active' = active
    BY <1>4, <1>a DEF listenTakes, listenReleases
  <2>2. TypeOK' /\ Owned'
    BY <1>4, <1>t DEF listenTakes, listenReleases, closing, TypeOK, Owned, Listening
  <2>3. TokensConserved'
    BY <1>4, <1>t, <1>n, <2>1 DEF listenTakes, listenReleases, TokensConserved, Holding,
                                  TypeOK
  <2> QED  BY <2>2, <2>3 DEF IInv
<1>5. ASSUME NEW p \in Peers, listenAccepts(p)
      PROVE  IInv'
  <2>1. handshake[p] \notin Running
    BY <1>5, <1>t DEF listenAccepts, Owned, Running
  <2>2. /\ handshake' = [handshake EXCEPT ![p] = "start"]
        /\ "start" \in Running /\ "start" \in States
    BY <1>5 DEF listenAccepts, Running, States
  <2>3. Cardinality(active') = count + 1
    BY <2>1, <2>2, <1>a, <1>h, RunningStarts, Zenon
  <2>4. TypeOK' /\ Owned'
    BY <1>5, <1>t DEF listenAccepts, closing, TypeOK, Owned, Listening, Running
  <2>5. TokensConserved'
    BY <1>5, <1>t, <1>n, <2>3 DEF listenAccepts, TokensConserved, Holding, TypeOK
  <2> QED  BY <2>4, <2>5 DEF IInv
<1>6. ASSUME NEW p \in Peers, connects(p)
      PROVE  IInv'
  <2>1. UNCHANGED <<handshake, handshakeSema, listener>> /\ TypeOK'
    BY <1>6, <1>t DEF connects, closing, TypeOK
  <2>2. Owned'
    BY <1>6, <1>t DEF connects, closing, TypeOK, Owned
  <2> QED  BY <2>1, <2>2, <1>1, <1>t DEF TypeOK
<1>7. ASSUME NEW p \in Peers,
             \/ machineFails(p) \/ handshakeBegins(p) \/ handshakeFails(p)
             \/ handshakeSucceeds(p) \/ acceptConn(p) \/ rejectConn(p)
      PROVE  IInv'
  <2>1. PICK v \in Running : handshake' = [handshake EXCEPT ![p] = v]
    BY <1>7 DEF machineFails, handshakeBegins, handshakeFails, handshakeSucceeds,
                acceptConn, rejectConn, goto, Running
  <2>2. handshake[p] \in Running /\ v \in States
    BY <1>7 DEF machineFails, handshakeBegins, handshakeFails, handshakeSucceeds,
                acceptConn, rejectConn, Running, States
  <2>3. active' = active
    BY <2>1, <2>2, <1>a, <1>h, RunningGoesOn, Zenon
  <2>4. /\ UNCHANGED <<handshakeSema, listener, quit, tcpClosed>>
        /\ accepting' \in BOOLEAN
    BY <1>7, <1>t, Zenon DEF machineFails, handshakeBegins, handshakeFails,
                handshakeSucceeds, acceptConn, rejectConn, delivered, closing, TypeOK
  <2>5. conn' \in [Peers -> {"none", "backlog", "open", "delivered", "closed"}]
        /\ broken' \subseteq Peers
    BY <1>7, <1>t DEF machineFails, handshakeBegins, handshakeFails,
                handshakeSucceeds, acceptConn, rejectConn, closing, TypeOK
  <2>6. TypeOK'
    BY <2>1, <2>4, <2>5, <1>t, Zenon DEF TypeOK
  <2>7. Owned'
    BY <1>7, <1>t DEF machineFails, handshakeBegins, handshakeFails, Running,
                handshakeSucceeds, acceptConn, rejectConn, delivered, goto, closing,
                TypeOK, Owned
  <2>8. TokensConserved'
    BY <2>3, <2>4, <1>t DEF TokensConserved
  <2> QED  BY <2>6, <2>7, <2>8 DEF IInv
<1>8. ASSUME NEW p \in Peers, handshakeReleases(p)
      PROVE  IInv'
  <2>1. /\ handshake[p] \in Running
        /\ handshake' = [handshake EXCEPT ![p] = "end"]
        /\ "end" \in States /\ "end" \notin Running
    BY <1>8 DEF handshakeReleases, goto, Running, States
  <2>2. Cardinality(active') = count - 1
    BY <2>1, <1>a, <1>h, RunningEnds, Zenon
  <2>3. TypeOK' /\ Owned'
    BY <1>8, <1>t DEF handshakeReleases, goto, closing, TypeOK, Owned, Running
  <2>4. TokensConserved'
    BY <1>8, <1>t, <1>n, <2>2 DEF handshakeReleases, TokensConserved, TypeOK
  <2> QED  BY <2>3, <2>4 DEF IInv
<1> QED
  BY <1>2, <1>3, <1>4, <1>5, <1>6, <1>7, <1>8 DEF Next, listen, doHandshake

\* The invariant of the listener holds in every state.
LEMMA Invariance == Spec => []IInv
BY InitIInv, NextIInv, PTL DEF Spec

\* The channel handshakeSema never holds more than it has room for, and every
\* goroutine of the listener is in one of its states.
THEOREM TypeCorrect == Spec => []TypeOK
<1>1. IInv => TypeOK
  BY DEF IInv
<1> QED  BY <1>1, Invariance, PTL

\* No token of handshakeSema is ever lost or made up by listen or doHandshake.
THEOREM TokensAreConserved == Spec => []TokensConserved
<1>1. IInv => TokensConserved
  BY DEF IInv
<1> QED  BY <1>1, Invariance, PTL

\* listen never runs more than defaultHandshakes handshakes at a time.
THEOREM HandshakesAreBounded == Spec => []HandshakesBounded
<1>1. IInv => HandshakesBounded
  BY ActiveCounted, HandshakesAssumption
     DEF IInv, TokensConserved, HandshakesBounded, TypeOK
<1> QED  BY <1>1, Invariance, PTL

\* doHandshake leaves no accepted connection without an owner before Close.
THEOREM NothingLeaks == Spec => []NoLeak
<1>1. IInv => NoLeak
  BY DEF IInv, Owned, NoLeak, active, Running
<1> QED  BY <1>1, Invariance, PTL

\* The listener keeps all of this for any number of connections and tokens.
THEOREM ListenerCorrect == Spec => []ListenerInv
<1>1. TypeOK /\ TokensConserved /\ HandshakesBounded /\ NoLeak => ListenerInv
  BY DEF ListenerInv
<1> QED
  BY <1>1, TypeCorrect, TokensAreConserved, HandshakesAreBounded, NothingLeaks, PTL

=============================================================================
