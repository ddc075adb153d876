----------------------------- MODULE NoiseProofs -----------------------------
(***************************************************************************)
(* Proofs about NoiseTransport for every size of the MAC and the header,   *)
(* every rotation interval and any number of messages.                     *)
(***************************************************************************)
EXTENDS NoiseTransport, Integers, TLAPS


\* The number of ciphertexts a cipher state has gone through.
Position(c) == c.key * keyRotationInterval + c.nonce

\* The two ciphertexts of message i are those at 2i - 2 and 2i - 1.
SentPositions ==
    /\ seals = 2 * Len(sent)
    /\ \A i \in DOMAIN sent : Position(sent[i]) = 2 * i - 1

\* The body is not begun before the header is out.
HeaderFirst == nextHeaderSend > 0 => nextBodySend = buffered.len + macSize

\* The inductive invariant.
IInv == TypeOK /\ SealsCounted /\ SentPositions /\ FlushAccounts /\ HeaderFirst

\* advance (Encrypt, Decrypt): the nonce stays below the interval and the
\* position grows by one, also when the key is rotated.
LEMMA AdvanceCounts ==
    ASSUME NEW c \in CipherState, c.nonce < keyRotationInterval
    PROVE  /\ advance(c) \in CipherState
           /\ advance(c).nonce < keyRotationInterval
           /\ Position(advance(c)) = Position(c) + 1
<1>0. keyRotationInterval \in Nat /\ keyRotationInterval > 0
    BY TransportAssumption
<1>1. c.key \in Nat /\ c.nonce \in Nat
    BY DEF CipherState
<1> DEFINE p == c.key * keyRotationInterval
<1>p. p \in Nat
    BY <1>0, <1>1
<1>2. CASE c.nonce + 1 = keyRotationInterval
    <2>1. advance(c) = [key |-> c.key + 1, nonce |-> 0]
        BY <1>2 DEF advance, rotateKey
    <2>2. (c.key + 1) * keyRotationInterval = p + keyRotationInterval
        BY <1>0, <1>1
    <2>3. Position(advance(c)) = p + keyRotationInterval + 0
        BY <2>1, <2>2 DEF Position
    <2>4. Position(c) = p + c.nonce
        BY DEF Position
    <2>5. advance(c) \in CipherState /\ advance(c).nonce < keyRotationInterval
        BY <1>0, <1>1, <2>1 DEF CipherState
    <2> HIDE DEF p
    <2> QED
        BY <1>0, <1>1, <1>p, <1>2, <2>3, <2>4, <2>5
<1>3. CASE c.nonce + 1 # keyRotationInterval
    <2>1. advance(c) = [key |-> c.key, nonce |-> c.nonce + 1]
        BY <1>3 DEF advance, CipherState
    <2>2. Position(advance(c)) = p + (c.nonce + 1)
        BY <2>1 DEF Position
    <2>3. Position(c) = p + c.nonce
        BY DEF Position
    <2>4. advance(c) \in CipherState /\ advance(c).nonce < keyRotationInterval
        BY <1>0, <1>1, <1>3, <2>1 DEF CipherState
    <2> HIDE DEF p
    <2> QED
        BY <1>1, <1>p, <2>2, <2>3, <2>4
<1> QED
    BY <1>2, <1>3

\* Bytes yields well-typed bytes.
LEMMA BytesType ==
    ASSUME NEW c \in CipherState, NEW which \in {"header", "body"},
           NEW len \in 0 .. MaxUint16, NEW size \in Nat,
           NEW first \in Nat \ {0}, NEW n \in Nat
    PROVE  Bytes(c, which, len, size, first, n) \in Seq(Byte)
    BY DEF Bytes, Byte

\* Two adjacent differences add up.
LEMMA DifferencesAdd ==
    ASSUME NEW l \in Nat, NEW r1 \in Nat, NEW r2 \in Nat, r2 <= r1, r1 <= l
    PROVE  (l - r1) + (r1 - r2) = l - r2 /\ l - r2 \in Nat
    OBVIOUS

\* What flush does to the counters, given those it starts from.
LEMMA FlushStep ==
    ASSUME NEW b \in [len : 0 .. MaxUint16, header : CipherState, body : CipherState],
           NEW header \in 0 .. encHeaderSize, NEW body \in 0 .. b.len + macSize,
           NEW old \in Nat, NEW k \in 0 .. header + body,
           header > 0 => body = b.len + macSize,
           wire \in Seq(Byte),
           old = IF header > 0 THEN 0
                 ELSE b.len - (IF body > macSize THEN body - macSize ELSE 0),
           flush(k, header, body, b, old)
    PROVE  /\ nextHeaderSend' \in 0 .. encHeaderSize
           /\ nextBodySend' \in 0 .. b.len + macSize
           /\ nextHeaderSend' > 0 => nextBodySend' = b.len + macSize
           /\ reported' \in Nat
           /\ reported' = IF nextHeaderSend' > 0 THEN 0
                          ELSE b.len - (IF nextBodySend' > macSize
                                        THEN nextBodySend' - macSize ELSE 0)
           /\ wire' \in Seq(Byte)
<1> DEFINE h == IF k < header THEN k ELSE header
           n == k - h
<1>0. /\ macSize \in Nat /\ macSize > 0 /\ lengthHeaderSize \in Nat
      /\ lengthHeaderSize > 0 /\ MaxUint16 \in Nat /\ b.len \in 0 .. MaxUint16
      /\ b.header \in CipherState /\ b.body \in CipherState
      /\ encHeaderSize \in Nat
    BY TransportAssumption, SMTT(30) DEF encHeaderSize
<1>1. h \in 0 .. header /\ n \in 0 .. body /\ (h < header => n = 0)
    BY <1>0
<1>2. /\ nextHeaderSend' = header - h /\ nextBodySend' = body - n
      /\ reported' = IF header = h /\ body > 0
                     THEN old + plainWritten(n, body - n) ELSE old
      /\ wire' = wire \o Bytes(b.header, "header", b.len, encHeaderSize,
                               encHeaderSize - header + 1, h)
                      \o Bytes(b.body, "body", b.len, b.len + macSize,
                               b.len + macSize - body + 1, n)
    BY DEF flush
<1> HIDE DEF h, n
<1>3. wire' \in Seq(Byte)
    <2>1. /\ h \in Nat /\ n \in Nat /\ b.len + macSize \in Nat
          /\ encHeaderSize - header + 1 \in Nat \ {0}
          /\ b.len + macSize - body + 1 \in Nat \ {0}
        BY <1>0, <1>1, SMTT(30)
    <2>2. Bytes(b.header, "header", b.len, encHeaderSize,
                encHeaderSize - header + 1, h) \in Seq(Byte)
        BY <1>0, <2>1, BytesType, SMTT(30)
    <2>3. Bytes(b.body, "body", b.len, b.len + macSize,
                b.len + macSize - body + 1, n) \in Seq(Byte)
        BY <1>0, <2>1, BytesType, Zenon
    <2> QED BY <1>2, <2>2, <2>3
<1>4. plainWritten(n, body - n)
        = (IF body > macSize THEN body - macSize ELSE 0)
          - (IF body - n > macSize THEN body - n - macSize ELSE 0)
    <2>1. macSize \in Nat /\ body \in Nat /\ n \in 0 .. body
        BY <1>0, <1>1
    <2>2. n + (body - n) = body /\ body - n \in 0 .. body
        BY <2>1
    <2>3. CASE body > macSize /\ body - n <= macSize
        <3>1. plainWritten(n, body - n) = n - (macSize - (body - n))
            BY <2>1, <2>2, <2>3 DEF plainWritten
        <3> QED BY <2>1, <2>2, <2>3, <3>1
    <2>4. CASE body > macSize /\ body - n > macSize
        <3>1. plainWritten(n, body - n) = n
            BY <2>1, <2>2, <2>4 DEF plainWritten
        <3> QED BY <2>1, <2>2, <2>4, <3>1
    <2>5. CASE ~(body > macSize)
        <3>1. plainWritten(n, body - n) = 0
            BY <2>1, <2>2, <2>5 DEF plainWritten
        <3> QED BY <2>1, <2>2, <2>5, <3>1
    <2> QED BY <2>1, <2>2, <2>3, <2>4, <2>5
<1>5. nextHeaderSend' \in 0 .. encHeaderSize /\ nextBodySend' \in 0 .. b.len + macSize
    BY <1>0, <1>1, <1>2, SMTT(30)
<1>t. /\ macSize \in Nat /\ b.len \in Nat /\ header \in Nat /\ body \in Nat
      /\ h \in Nat /\ n \in Nat /\ h <= header /\ n <= body
    BY <1>0, <1>1
<1>6. nextHeaderSend' > 0 => nextBodySend' = b.len + macSize
    <2>1. nextHeaderSend' > 0 => h < header /\ header > 0
        BY <1>t, <1>2
    <2>2. h < header => nextBodySend' = body
        BY <1>t, <1>1, <1>2
    <2> QED BY <2>1, <2>2
<1>7. /\ reported' \in Nat
      /\ reported' = IF nextHeaderSend' > 0 THEN 0
                     ELSE b.len - (IF nextBodySend' > macSize
                                   THEN nextBodySend' - macSize ELSE 0)
    <2> DEFINE left == body - n
               rest(x) == IF x > macSize THEN x - macSize ELSE 0
               pw == plainWritten(n, left)
    <2>t. /\ left \in Nat /\ left <= body /\ body <= b.len + macSize
          /\ rest(left) \in Nat /\ rest(body) \in Nat /\ rest(left) <= rest(body)
          /\ rest(body) <= b.len /\ pw = rest(body) - rest(left)
        BY <1>t, <1>4
    <2>e. old = IF header > 0 THEN 0 ELSE b.len - rest(body)
        OBVIOUS
    <2>r. reported' = IF header = h /\ body > 0 THEN old + pw ELSE old
        BY <1>2
    <2>1. CASE h < header
        <3>1. nextHeaderSend' > 0 /\ reported' = old /\ old = 0
            BY <1>0, <1>1, <1>2, <2>1
        <3> QED BY <3>1
    <2>2. CASE h = header
        <3>1. nextHeaderSend' = 0 /\ nextBodySend' = left
            BY <1>t, <1>2, <2>2
        <3>2. CASE header > 0
            <4>1. old = 0 /\ body = b.len + macSize
                BY <3>2
            <4>2. body > 0 /\ rest(body) = b.len
                BY <1>0, <1>t, <4>1, SMTT(30)
            <4> HIDE DEF left, rest, pw
            <4>3. reported' = b.len - rest(left)
                BY <1>t, <2>t, <2>r, <2>2, <4>1, <4>2, SMTT(30)
            <4>4. reported' \in Nat
                BY <1>t, <2>t, <4>2, <4>3
            <4> QED BY <3>1, <4>3, <4>4 DEF rest
        <3>3. CASE header = 0 /\ body > 0
            <4>1. old = b.len - rest(body)
                BY <1>t, <2>e, <3>3
            <4> HIDE DEF left, rest, pw
            <4>2. reported' = old + pw
                BY <2>r, <2>2, <3>3
            <4> DEFINE r1 == rest(body)
                       r2 == rest(left)
            <4>t. /\ r1 \in Nat /\ r2 \in Nat /\ r2 <= r1 /\ r1 <= b.len
                  /\ b.len \in Nat /\ old = b.len - r1 /\ pw = r1 - r2
                BY <1>t, <2>t, <4>1, SMTT(30)
            <4> HIDE DEF r1, r2
            <4>s. reported' = (b.len - r1) + (r1 - r2)
                BY <4>2, <4>t, Zenon
            <4>3. reported' = b.len - r2 /\ reported' \in Nat
                BY <4>s, <4>t, DifferencesAdd, SMTT(30)
            <4> QED BY <3>1, <4>3 DEF r2, rest
        <3>4. CASE header = 0 /\ body = 0
            BY <1>0, <1>1, <1>2, <2>2, <3>1, <3>4
        <3> QED BY <1>t, <3>2, <3>3, <3>4
    <2> QED BY <1>1, <2>1, <2>2
<1> QED
    BY <1>3, <1>5, <1>6, <1>7

\* The invariant holds initially.
LEMMA InitIInv == Init => IInv
<1> SUFFICES ASSUME Init PROVE IInv
    OBVIOUS
<1>1. TypeOK
    BY TransportAssumption
    DEF Init, TypeOK, CipherState, Byte, Fresh, Header, encHeaderSize
<1>2. SealsCounted
    BY TransportAssumption DEF Init, SealsCounted, Fresh
<1>3. SentPositions /\ HeaderFirst
    BY DEF Init, SentPositions, HeaderFirst
<1>4. FlushAccounts
    BY TransportAssumption DEF Init, FlushAccounts
<1> QED
    BY <1>1, <1>2, <1>3, <1>4 DEF IInv

\* writeAndFlush keeps the invariant: the two ciphertexts take the next two
\* positions.
LEMMA WriteAndFlushIInv ==
    ASSUME IInv, NEW len \in Nat, NEW k \in 0 .. Total(len),
           writeAndFlush(len, k), todo' \in Nat, UNCHANGED recvVars
    PROVE  IInv'
<1> DEFINE b == [len |-> len, header |-> sendCipher, body |-> advance(sendCipher)]
           c1 == advance(sendCipher)
           c2 == advance(advance(sendCipher))
<1>0. /\ macSize \in Nat /\ macSize > 0 /\ lengthHeaderSize \in Nat
      /\ lengthHeaderSize > 0 /\ MaxUint16 \in Nat
      /\ encHeaderSize \in Nat /\ encHeaderSize > 0
      /\ len \in 0 .. MaxUint16 /\ k \in 0 .. encHeaderSize + (len + macSize)
    BY TransportAssumption, SMTT(30) DEF encHeaderSize, writeAndFlush, mayWrite, Total
<1>1. sendCipher \in CipherState /\ sendCipher.nonce < keyRotationInterval
    BY DEF IInv, TypeOK
<1>2. /\ c1 \in CipherState /\ c1.nonce < keyRotationInterval
      /\ Position(c1) = Position(sendCipher) + 1
    BY <1>1, AdvanceCounts
<1>3. /\ c2 \in CipherState /\ c2.nonce < keyRotationInterval
      /\ Position(c2) = Position(c1) + 1
    BY <1>2, AdvanceCounts
<1>4. /\ sendCipher' = c2 /\ seals' = seals + 2 /\ buffered' = b
      /\ sent' = Append(sent, c1)
      /\ flush(k, encHeaderSize, len + macSize, b, 0)
    BY DEF writeAndFlush
<1>5. b \in [len : 0 .. MaxUint16, header : CipherState, body : CipherState]
      /\ b.len = len
    BY <1>0, <1>1, <1>2
<1> HIDE DEF b, c1, c2
<1>6. /\ nextHeaderSend' \in 0 .. encHeaderSize
      /\ nextBodySend' \in 0 .. b.len + macSize
      /\ nextHeaderSend' > 0 => nextBodySend' = b.len + macSize
      /\ reported' \in Nat
      /\ reported' = IF nextHeaderSend' > 0 THEN 0
                     ELSE b.len - (IF nextBodySend' > macSize
                                   THEN nextBodySend' - macSize ELSE 0)
      /\ wire' \in Seq(Byte)
    <2>1. /\ encHeaderSize \in 0 .. encHeaderSize
          /\ len + macSize \in 0 .. b.len + macSize
          /\ 0 = IF encHeaderSize > 0 THEN 0
                 ELSE b.len - (IF len + macSize > macSize
                               THEN len + macSize - macSize ELSE 0)
          /\ encHeaderSize > 0 => len + macSize = b.len + macSize
        BY <1>0, <1>5
    <2>2. wire \in Seq(Byte)
        BY DEF IInv, TypeOK
    <2> QED
        BY <1>0, <1>4, <1>5, <2>1, <2>2, FlushStep, Zenon
<1>7. Position(sendCipher) = seals /\ seals \in Nat
    BY DEF IInv, TypeOK, SealsCounted, Position
<1>8. TypeOK'
    <2>1. /\ sendCipher' \in CipherState /\ sendCipher'.nonce < keyRotationInterval
          /\ buffered' \in [len : 0 .. MaxUint16, header : CipherState, body : CipherState]
          /\ seals' \in Nat /\ sent' \in Seq(CipherState)
        BY <1>2, <1>3, <1>4, <1>5, <1>7 DEF IInv, TypeOK
    <2>2. /\ recvCipher' \in CipherState /\ recvCipher'.nonce < keyRotationInterval
          /\ readBuf' \in Nat
          /\ reader' \in [at : {"header", "body"}, len : 0 .. MaxUint16]
        BY DEF IInv, TypeOK, recvVars
    <2> QED
        BY <1>4, <1>6, <2>1, <2>2 DEF TypeOK
<1>9. SealsCounted'
    <2>1. Position(sendCipher)' = seals + 2
        BY <1>2, <1>3, <1>4, <1>7 DEF Position
    <2> QED
        BY <1>4, <2>1 DEF SealsCounted, Position
<1>10. SentPositions'
    <2>1. sent \in Seq(CipherState) /\ seals = 2 * Len(sent)
        BY DEF IInv, TypeOK, SentPositions
    <2>2. Len(sent') = Len(sent) + 1 /\ DOMAIN sent' = 1 .. Len(sent) + 1
        BY <1>4, <2>1
    <2>3. seals' = 2 * Len(sent')
        BY <1>4, <2>1, <2>2
    <2>4. ASSUME NEW i \in DOMAIN sent'
          PROVE  Position(sent'[i]) = 2 * i - 1
        <3>1. CASE i = Len(sent) + 1
            <4>1. sent'[i] = c1
                BY <1>4, <2>1, <3>1
            <4> QED
                BY <1>2, <1>7, <2>1, <3>1, <4>1
        <3>2. CASE i # Len(sent) + 1
            <4>1. i \in DOMAIN sent /\ sent'[i] = sent[i]
                BY <1>4, <2>1, <2>2, <3>2
            <4> QED
                BY <4>1 DEF IInv, SentPositions
        <3> QED
            BY <3>1, <3>2
    <2> QED
        BY <2>3, <2>4 DEF SentPositions, Position
<1>11. FlushAccounts' /\ HeaderFirst'
    BY <1>4, <1>6 DEF FlushAccounts, HeaderFirst
<1> QED
    BY <1>8, <1>9, <1>10, <1>11 DEF IInv

\* Every step keeps the invariant.
LEMMA NextIInv == IInv /\ [Next]_vars => IInv'
<1> SUFFICES ASSUME IInv, [Next]_vars PROVE IInv'
    OBVIOUS
<1> USE DEF IInv
<1>0. /\ macSize \in Nat /\ macSize > 0 /\ lengthHeaderSize \in Nat
      /\ lengthHeaderSize > 0 /\ MaxUint16 \in Nat /\ MaxUint16 > 0
      /\ encHeaderSize \in Nat /\ encHeaderSize > 0 /\ MaxWrite \in Nat
    BY TransportAssumption DEF encHeaderSize
<1>1. ASSUME NEW n \in 0 .. MaxWrite, NEW k \in 0 .. Total(chunkSize(n)), Write(n, k)
      PROVE  IInv'
    <2>1. n \in Nat /\ chunkSize(n) \in Nat /\ chunkSize(n) <= n
        BY <1>0 DEF chunkSize
    <2>2. todo' \in Nat
        BY <1>1, <2>1 DEF Write
    <2> QED BY <1>1, <2>1, <2>2, WriteAndFlushIInv DEF Write
<1>2. ASSUME NEW k \in 0 .. Total(chunkSize(todo)), WriteNext(k)
      PROVE  IInv'
    <2>1. todo \in Nat /\ chunkSize(todo) \in Nat /\ chunkSize(todo) <= todo
        BY <1>0 DEF chunkSize, TypeOK
    <2>2. todo' \in Nat
        BY <1>2, <2>1 DEF WriteNext
    <2> QED BY <1>2, <2>1, <2>2, WriteAndFlushIInv DEF WriteNext
<1>3. ASSUME NEW k \in 0 .. nextHeaderSend + nextBodySend, Flush(k)
      PROVE  IInv'
    <2>1. /\ flush(k, nextHeaderSend, nextBodySend, buffered, reported)
          /\ UNCHANGED <<sendCipher, buffered, todo, seals, sent, recvVars>>
        BY <1>3 DEF Flush
    <2>2. /\ buffered \in [len : 0 .. MaxUint16, header : CipherState, body : CipherState]
          /\ nextHeaderSend \in 0 .. encHeaderSize
          /\ nextBodySend \in 0 .. buffered.len + macSize
          /\ reported \in Nat /\ wire \in Seq(Byte)
          /\ nextHeaderSend > 0 => nextBodySend = buffered.len + macSize
          /\ reported = IF nextHeaderSend > 0 THEN 0
                        ELSE buffered.len - (IF nextBodySend > macSize
                                             THEN nextBodySend - macSize ELSE 0)
        BY DEF TypeOK, HeaderFirst, FlushAccounts
    <2>3. /\ nextHeaderSend' \in 0 .. encHeaderSize
          /\ nextBodySend' \in 0 .. buffered.len + macSize
          /\ nextHeaderSend' > 0 => nextBodySend' = buffered.len + macSize
          /\ reported' \in Nat
          /\ reported' = IF nextHeaderSend' > 0 THEN 0
                         ELSE buffered.len - (IF nextBodySend' > macSize
                                              THEN nextBodySend' - macSize ELSE 0)
          /\ wire' \in Seq(Byte)
        BY <2>1, <2>2, FlushStep
    <2>4. TypeOK'
        BY <2>1, <2>3 DEF TypeOK, recvVars
    <2>5. SealsCounted' /\ SentPositions'
        BY <2>1 DEF SealsCounted, SentPositions, Position
    <2>6. FlushAccounts' /\ HeaderFirst'
        BY <2>1, <2>3 DEF FlushAccounts, HeaderFirst
    <2> QED BY <2>4, <2>5, <2>6
<1>r. recvCipher \in CipherState /\ recvCipher.nonce < keyRotationInterval
    BY DEF TypeOK
<1>a. advance(recvCipher) \in CipherState /\ advance(recvCipher).nonce < keyRotationInterval
    BY <1>r, AdvanceCounts
<1>s. ASSUME UNCHANGED sendVars, TypeOK'
      PROVE  IInv'
    BY <1>s
       DEF sendVars, SealsCounted, SentPositions, FlushAccounts, HeaderFirst, Position
<1>d. ASSUME NEW n \in Nat, n <= Len(wire)
      PROVE  Drop(n) \in Seq(Byte)
    BY <1>d DEF Drop, TypeOK
<1>4. CASE ReadHeader
    <2>1. wire' \in Seq(Byte)
        BY <1>0, <1>d, <1>4 DEF ReadHeader, TypeOK
    <2>2. wire[1] \in Byte
        BY <1>0, <1>4 DEF ReadHeader, TypeOK
    <2>3. Lengths(wire[1]) \subseteq 0 .. MaxUint16
        BY <2>2 DEF Lengths, Byte
    <2>4. reader' \in [at : {"header", "body"}, len : 0 .. MaxUint16]
        BY <1>4, <2>3 DEF ReadHeader, TypeOK
    <2>5. TypeOK'
        BY <1>4, <1>a, <2>1, <2>4 DEF ReadHeader, TypeOK, sendVars
    <2> QED BY <1>4, <1>s, <2>5 DEF ReadHeader
<1>5. CASE ReadBody
    <2>1. reader.len \in Nat /\ reader.len + macSize \in Nat
        BY <1>0 DEF TypeOK
    <2>2. wire' \in Seq(Byte)
        BY <1>d, <1>5, <2>1 DEF ReadBody
    <2>3. readBuf' \in Nat
        BY <1>5, <2>1 DEF ReadBody, TypeOK
    <2>4. reader' \in [at : {"header", "body"}, len : 0 .. MaxUint16]
        BY <1>0, <1>5 DEF ReadBody, Header
    <2>5. TypeOK'
        BY <1>5, <1>a, <2>2, <2>3, <2>4 DEF ReadBody, TypeOK, sendVars
    <2> QED BY <1>5, <1>s, <2>5 DEF ReadBody
<1>6. ASSUME NEW n \in 1 .. MaxUint16, Read(n)
      PROVE  IInv'
    <2>1. readBuf' \in Nat
        BY <1>0, <1>6 DEF Read, TypeOK
    <2>2. TypeOK'
        BY <1>6, <2>1 DEF Read, TypeOK, sendVars
    <2> QED BY <1>6, <1>s, <2>2 DEF Read
<1>7. CASE ReadTimeout
    <2>1. TypeOK'
        BY <1>0, <1>7 DEF ReadTimeout, TypeOK, sendVars, Header
    <2> QED BY <1>7, <1>s, <2>1 DEF ReadTimeout
<1>8. CASE UNCHANGED vars
    <2>1. TypeOK'
        BY <1>8 DEF TypeOK, vars, sendVars, recvVars
    <2> QED BY <1>8, <1>s, <2>1 DEF vars
<1> QED
    BY <1>1, <1>2, <1>3, <1>4, <1>5, <1>6, <1>7, <1>8 DEF Next, WriteStep, ReadStep

\* cipherState: types hold, and neither side ever uses a nonce as large as the
\* rotation interval.
THEOREM TypeCorrect == Spec => []TypeOK
<1>1. IInv => TypeOK
    BY DEF IInv
<1> QED BY <1>1, InitIInv, NextIInv, PTL DEF Spec

\* rotateKey: key and nonce count the ciphertexts, for every interval.
THEOREM SealsAreCounted == Spec => []SealsCounted
<1>1. IInv => SealsCounted
    BY DEF IInv
<1> QED BY <1>1, InitIInv, NextIInv, PTL DEF Spec

\* Encrypt: no two messages share key and nonce, however many are sent.
THEOREM SealsAreUnique == Spec => []SealsUnique
<1>1. IInv => SealsUnique
    <2> SUFFICES ASSUME IInv, NEW i \in DOMAIN sent, NEW j \in DOMAIN sent,
                        sent[i] = sent[j]
                 PROVE  i = j
        BY DEF SealsUnique
    <2>1. i \in Nat /\ j \in Nat
        BY DEF IInv, TypeOK
    <2>2. 2 * i - 1 = 2 * j - 1
        BY DEF IInv, SentPositions
    <2> QED BY <2>1, <2>2
<1> QED BY <1>1, InitIInv, NextIInv, PTL DEF Spec

\* Flush: the numbers it returns for a message add up to the plaintext bytes
\* that are out, wherever the writes are cut.
THEOREM FlushIsExact == Spec => []FlushAccounts
<1>1. IInv => FlushAccounts
    BY DEF IInv
<1> QED BY <1>1, InitIInv, NextIInv, PTL DEF Spec

\* WriteMessage and Flush count right, for every size and rotation interval.
THEOREM TransportCorrect == Spec => []TransportInv
<1>1. TypeOK /\ SealsCounted /\ SealsUnique /\ FlushAccounts => TransportInv
    BY DEF TransportInv
<1> QED
    BY <1>1, TypeCorrect, SealsAreCounted, SealsAreUnique, FlushIsExact, PTL

-----------------------------------------------------------------------------
(***************************************************************************)
(* ReadMessage. Without read deadlines the stream is always cut where the  *)
(* reader expects: a byte has the rest of its ciphertext around it, as far *)
(* as that has been written, and the ciphertext after it follows.          *)
(***************************************************************************)

Text == [cipher : CipherState, part : {"header", "body"}, len : 0 .. MaxUint16,
         size : Nat]

\* The ciphertext a byte belongs to, and the byte's place in it.
text(w, i) == [cipher |-> w[i].cipher, part |-> w[i].part, len |-> w[i].len,
               size |-> w[i].size]
size(w, i) == w[i].size
index(w, i) == w[i].index

\* The position in w of the first byte of the ciphertext of byte i.
start(w, i) == i - index(w, i) + 1

\* Ciphertext y comes after x.
succ(x, y) ==
    /\ y.cipher = advance(x.cipher) /\ y.part # x.part
    /\ y.part = "body" => y.len = x.len
    /\ y.size = IF y.part = "header" THEN encHeaderSize ELSE y.len + macSize

\* Every ciphertext is there from its first byte on, as far as w goes.
Complete(w) ==
    /\ \A i \in 1 .. Len(w) : index(w, i) \in 1 .. size(w, i) /\ start(w, i) >= 1
    /\ \A i, j \in 1 .. Len(w) :
           start(w, i) <= j /\ j < start(w, i) + size(w, i) =>
               text(w, j) = text(w, i) /\ index(w, j) = j - start(w, i) + 1
    /\ \A i, j \in 1 .. Len(w) :
           j = start(w, i) + size(w, i) =>
               succ(text(w, i), text(w, j)) /\ index(w, j) = 1

\* Byte i of ciphertext x may be written after w; x is the first one if expected.
Joins(w, x, i, expected) ==
    IF i = 1 THEN IF w = <<>> THEN expected
                  ELSE /\ index(w, Len(w)) = size(w, Len(w))
                       /\ succ(text(w, Len(w)), x)
    ELSE w # <<>> /\ index(w, Len(w)) = i - 1 /\ text(w, Len(w)) = x

\* Of the header and body bytes left, of e and m, h and n are written.
Cut(e, m, header, body, h, n) ==
    /\ header = 0 => h = 0 /\ header - h = 0 /\ body \in 1 .. m /\ n \in 0 .. body
    /\ ~(header = 0) => /\ header > 0 /\ header \in 1 .. e /\ h \in 0 .. header
                        /\ h < header \/ h = header
    /\ h < header => n = 0 /\ header - h > 0 /\ ~(header - h = 0)
    /\ ~(header = 0) /\ h = header => /\ header - h = 0 /\ m - body + 1 = 1
                                      /\ body \in 1 .. m /\ n \in 0 .. body

\* A write of k bytes writes the header first.
LEMMA CutParts ==
    ASSUME NEW e \in Nat, NEW m \in Nat \ {0}, NEW header \in 0 .. e, NEW body \in 0 .. m,
           NEW k \in 0 .. header + body, header > 0 => body = m, header > 0 \/ body > 0,
           NEW h, NEW n, h = IF k < header THEN k ELSE header, n = k - h
    PROVE  Cut(e, m, header, body, h, n)
BY DEF Cut

\* No bytes, and what appending them does.
LEMMA NoBytes ==
    /\ \A c, part, len, n, f : Bytes(c, part, len, n, f, 0) = <<>>
    /\ \A w \in Seq(Byte) : w \o <<>> = w
<1>1. ASSUME NEW c, NEW part, NEW len, NEW n, NEW f
      PROVE  Bytes(c, part, len, n, f, 0) = <<>>
    BY DEF Bytes
<1>2. ASSUME NEW w \in Seq(Byte) PROVE w \o <<>> = w
    OBVIOUS
<1> QED
    BY <1>1, <1>2, Zenon

\* A byte and its ciphertext.
LEMMA ByteParts ==
    ASSUME NEW w \in Seq(Byte), NEW i \in 1 .. Len(w)
    PROVE  /\ text(w, i) \in Text /\ text(w, i).size = size(w, i)
           /\ size(w, i) \in Nat /\ index(w, i) \in Nat /\ start(w, i) \in Int
           /\ Len(w) \in Nat
<1>1. w[i] \in Byte /\ Len(w) \in Nat
    OBVIOUS
<1>2. /\ w[i].cipher \in CipherState /\ w[i].part \in {"header", "body"}
      /\ w[i].len \in 0 .. MaxUint16 /\ w[i].size \in Nat /\ w[i].index \in Nat
    BY <1>1 DEF Byte
<1> QED
    BY <1>1, <1>2 DEF text, size, index, start, Text

\* The bytes of a sequence to which a part of ciphertext x is appended.
LEMMA AppendedBytes ==
    ASSUME NEW w \in Seq(Byte), NEW x \in Text, NEW f \in Nat \ {0}, NEW n \in Nat
    PROVE  LET v == w \o Bytes(x.cipher, x.part, x.len, x.size, f, n)
           IN  /\ v \in Seq(Byte) /\ Len(v) = Len(w) + n
               /\ \A i \in 1 .. Len(w) :
                      /\ text(v, i) = text(w, i) /\ size(v, i) = size(w, i)
                      /\ index(v, i) = index(w, i)
               /\ \A i \in Len(w) + 1 .. Len(w) + n :
                      /\ text(v, i) = x /\ size(v, i) = x.size
                      /\ index(v, i) = f + i - Len(w) - 1
<1> DEFINE t == Bytes(x.cipher, x.part, x.len, x.size, f, n)
           v == w \o t
<1>1. /\ x.cipher \in CipherState /\ x.part \in {"header", "body"}
      /\ x.len \in 0 .. MaxUint16 /\ x.size \in Nat
      /\ x = [cipher |-> x.cipher, part |-> x.part, len |-> x.len, size |-> x.size]
    BY DEF Text
<1>2. t \in Seq(Byte)
    BY <1>1, BytesType, Zenon
<1>3. /\ Len(t) = n
      /\ \A j \in 1 .. n :
             t[j] = [cipher |-> x.cipher, part |-> x.part, len |-> x.len,
                     size |-> x.size, index |-> f + j - 1]
    BY DEF Bytes
<1> HIDE DEF t
<1>l. Len(t) = n /\ Len(w) \in Nat
    BY <1>3
<1>4. /\ v \in Seq(Byte) /\ Len(v) = Len(w) + n /\ Len(w) \in Nat
      /\ \A i \in 1 .. Len(w) : v[i] = w[i]
      /\ \A i \in Len(w) + 1 .. Len(w) + n : v[i] = t[i - Len(w)]
    BY <1>2, <1>l
<1> HIDE DEF v
<1>5. \A i \in 1 .. Len(w) : /\ text(v, i) = text(w, i) /\ size(v, i) = size(w, i)
                             /\ index(v, i) = index(w, i)
    BY <1>4 DEF text, size, index
<1>6. ASSUME NEW i \in Len(w) + 1 .. Len(w) + n
      PROVE  /\ text(v, i) = x /\ size(v, i) = x.size
             /\ index(v, i) = f + i - Len(w) - 1
  <2>1. i - Len(w) \in 1 .. n /\ f + (i - Len(w)) - 1 = f + i - Len(w) - 1
      BY <1>4
  <2>2. v[i] = [cipher |-> x.cipher, part |-> x.part, len |-> x.len,
                size |-> x.size, index |-> f + i - Len(w) - 1]
      BY <1>3, <1>4, <2>1
  <2> QED
      BY <1>1, <2>2 DEF text, size, index
<1> QED
    BY <1>4, <1>5, <1>6, SMTT(30) DEF v, t

\* v is a complete stream that goes on after w, up to byte i of ciphertext x.
Appended(w, v, x, i, expected) ==
    /\ v \in Seq(Byte) /\ Complete(v)
    /\ i <= x.size => Joins(v, x, i, expected)
    /\ i = x.size + 1 => \A y, e : succ(x, y) => Joins(v, y, 1, e)
    /\ w # <<>> => v # <<>> /\ text(v, 1) = text(w, 1)
    /\ w = <<>> => v = <<>> \/ (expected /\ text(v, 1) = x)

\* flush: bytes f to f + n - 1 of ciphertext x, written where they belong, leave
\* the stream complete; the next byte of x, or the ciphertext after x, belongs
\* behind them.
LEMMA AppendKeeps ==
    ASSUME NEW w \in Seq(Byte), NEW x \in Text, NEW f \in Nat \ {0}, NEW n \in Nat,
           f <= x.size, f + n <= x.size + 1, NEW expected \in BOOLEAN,
           Complete(w), Joins(w, x, f, expected)
    PROVE  Appended(w, w \o Bytes(x.cipher, x.part, x.len, x.size, f, n), x, f + n,
                    expected)
<1> DEFINE v == w \o Bytes(x.cipher, x.part, x.len, x.size, f, n)
           L == Len(w)
<1>0. L \in Nat /\ x.size \in Nat
    BY DEF Text
<1>1. /\ v \in Seq(Byte) /\ Len(v) = L + n
      /\ \A i \in 1 .. L : /\ text(v, i) = text(w, i) /\ size(v, i) = size(w, i)
                           /\ index(v, i) = index(w, i)
      /\ \A i \in L + 1 .. L + n : /\ text(v, i) = x /\ size(v, i) = x.size
                                   /\ index(v, i) = f + i - L - 1
    BY AppendedBytes, ZenonT(40)
<1>w. w = <<>> <=> L = 0
    OBVIOUS
<1>v. v = <<>> <=> L + n = 0
    BY <1>1
<1> HIDE DEF v, L
<1>2. \A i \in 1 .. L : /\ size(w, i) \in Nat /\ index(w, i) \in Nat
                        /\ text(w, i).size = size(w, i)
    BY ByteParts DEF L
<1>3. \A i \in 1 .. L : start(v, i) = start(w, i)
    BY <1>1 DEF start
<1>4. \A i \in L + 1 .. L + n : start(v, i) = L + 2 - f
  <2>1. \A i \in L + 1 .. L + n : i - (f + i - L - 1) + 1 = L + 2 - f
      BY <1>0
  <2> QED
      BY <1>1, <2>1 DEF start
<1>5. /\ \A i \in 1 .. L : /\ index(w, i) >= 1 /\ index(w, i) <= size(w, i)
                           /\ start(w, i) >= 1 /\ start(w, i) <= i
                           /\ start(w, i) \in Nat /\ i < start(w, i) + size(w, i)
  <2> SUFFICES ASSUME NEW i \in 1 .. L
               PROVE  /\ index(w, i) >= 1 /\ index(w, i) <= size(w, i)
                      /\ start(w, i) >= 1 /\ start(w, i) <= i
                      /\ start(w, i) \in Nat /\ i < start(w, i) + size(w, i)
      OBVIOUS
  <2>1. index(w, i) \in 1 .. size(w, i) /\ start(w, i) >= 1
      BY DEF Complete, L
  <2> QED
      BY <1>0, <1>2, <2>1 DEF start
<1>b. \A i, j \in 1 .. L :
          start(w, i) <= j /\ j < start(w, i) + size(w, i) =>
              text(w, j) = text(w, i) /\ index(w, j) = j - start(w, i) + 1
    BY DEF Complete, L
<1>c. \A i, j \in 1 .. L :
          j = start(w, i) + size(w, i) =>
              succ(text(w, i), text(w, j)) /\ index(w, j) = 1
    BY DEF Complete, L
<1>j1. f = 1 /\ L > 0 => index(w, L) = size(w, L) /\ succ(text(w, L), x)
    BY <1>w DEF Joins, L
<1>j2. f # 1 => L > 0 /\ index(w, L) = f - 1 /\ text(w, L) = x
    BY <1>0, <1>w DEF Joins, L
<1>s. \A i \in L + 1 .. L + n : start(v, i) >= 1
  <2>1. CASE f = 1
      BY <1>0, <1>4, <2>1
  <2>2. CASE f # 1
    <3>1. L \in 1 .. L /\ start(w, L) >= 1
        BY <1>0, <1>5, <1>j2, <2>2
    <3>2. start(w, L) = L - (f - 1) + 1
        BY <1>j2, <2>2 DEF start
    <3> QED
        BY <1>0, <1>4, <3>1, <3>2
  <2> QED
      BY <2>1, <2>2
\* A ciphertext of w that goes on behind w is x.
<1>6. ASSUME NEW i \in 1 .. L, start(w, i) + size(w, i) > L + 1, n > 0
      PROVE  f # 1 /\ start(w, i) = L + 2 - f /\ text(w, i) = x /\ size(w, i) = x.size
  <2>1. L \in 1 .. L /\ L > 0
      BY <1>0
  <2>0. /\ start(w, i) \in Nat /\ start(w, i) <= i /\ i <= L /\ i \in Nat
        /\ size(w, i) \in Nat
      BY <1>0, <1>2, <1>5
  <2>9. start(w, i) <= L /\ L < start(w, i) + size(w, i)
      BY <1>0, <1>6, <2>0
  <2>2. text(w, L) = text(w, i) /\ index(w, L) = L - start(w, i) + 1
      BY <1>b, <2>1, <2>9
  <2>3. size(w, L) = size(w, i)
      BY <1>2, <2>1, <2>2
  <2>4. index(w, L) < size(w, L)
      BY <1>0, <1>2, <1>5, <1>6, <2>2, <2>3
  <2>5. f # 1
      BY <1>2, <1>j1, <2>1, <2>4
  <2>6. index(w, L) = f - 1 /\ text(w, L) = x
      BY <1>j2, <2>5
  <2>7. text(w, L).size = x.size
      BY <2>6
  <2>8. start(w, i) = L + 2 - f
    <3>1. L - start(w, i) + 1 = f - 1
        BY <2>2, <2>6
    <3> QED
        BY <1>0, <2>0, <3>1
  <2> QED
      BY <1>2, <2>1, <2>2, <2>3, <2>5, <2>6, <2>7, <2>8, SMTT(30)
<1>7. Complete(v)
  <2>1. \A i \in 1 .. L + n : index(v, i) \in 1 .. size(v, i) /\ start(v, i) >= 1
    <3>1. \A i \in 1 .. L : index(v, i) \in 1 .. size(v, i) /\ start(v, i) >= 1
        BY <1>0, <1>1, <1>2, <1>3, <1>5
    <3>2. \A i \in L + 1 .. L + n : index(v, i) \in 1 .. size(v, i)
        BY <1>0, <1>1
    <3> QED
        BY <1>0, <1>s, <3>1, <3>2
  <2>2. ASSUME NEW i \in 1 .. L + n, NEW j \in 1 .. L + n,
               start(v, i) <= j, j < start(v, i) + size(v, i)
        PROVE  text(v, j) = text(v, i) /\ index(v, j) = j - start(v, i) + 1
    <3>1. CASE i \in 1 .. L /\ j \in 1 .. L
        BY <1>1, <1>3, <1>b, <2>2, <3>1
    <3>2. CASE i \in 1 .. L /\ j \in L + 1 .. L + n
      <4>1. start(w, i) + size(w, i) > L + 1 /\ n > 0
          BY <1>0, <1>1, <1>2, <1>3, <1>5, <2>2, <3>2, SMTT(30)
      <4>2. start(w, i) = L + 2 - f /\ text(w, i) = x
          BY <1>6, <3>2, <4>1
      <4>3. text(v, j) = x /\ index(v, j) = f + j - L - 1
          BY <1>1, <3>2
      <4>4. text(v, i) = text(w, i) /\ start(v, i) = start(w, i)
          BY <1>1, <1>3, <3>2
      <4>5. f + j - L - 1 = j - (L + 2 - f) + 1
          BY <1>0
      <4> QED
          BY <4>2, <4>3, <4>4, <4>5
    <3>3. CASE i \in L + 1 .. L + n /\ j \in 1 .. L
      <4>1. start(v, i) = L + 2 - f /\ size(v, i) = x.size /\ text(v, i) = x
          BY <1>1, <1>4, <3>3
      <4>2. L + 2 - f <= j /\ j <= L
          BY <1>0, <2>2, <3>3, <4>1
      <4>3. f # 1
          BY <1>0, <4>2
      <4>4. L \in 1 .. L /\ text(w, L) = x /\ start(w, L) = L + 2 - f
        <5>1. L > 0 /\ index(w, L) = f - 1 /\ text(w, L) = x
            BY <1>j2, <4>3
        <5>2. L - (f - 1) + 1 = L + 2 - f
            BY <1>0
        <5> QED
            BY <1>0, <5>1, <5>2 DEF start
      <4>5. j < start(w, L) + size(w, L) /\ start(w, L) <= j
          BY <1>0, <1>2, <1>5, <4>2, <4>4, <3>3, SMTT(30)
      <4>6. text(w, j) = text(w, L) /\ index(w, j) = j - start(w, L) + 1
          BY <1>b, <3>3, <4>4, <4>5
      <4> QED
          BY <1>1, <3>3, <4>1, <4>4, <4>6
    <3>4. CASE i \in L + 1 .. L + n /\ j \in L + 1 .. L + n
      <4>1. /\ start(v, i) = L + 2 - f /\ text(v, i) = x
            /\ text(v, j) = x /\ index(v, j) = f + j - L - 1
          BY <1>1, <1>4, <3>4
      <4>2. f + j - L - 1 = j - (L + 2 - f) + 1
          BY <1>0
      <4> QED
          BY <4>1, <4>2
    <3> QED
        BY <1>0, <3>1, <3>2, <3>3, <3>4
  <2>3. ASSUME NEW i \in 1 .. L + n, NEW j \in 1 .. L + n,
               j = start(v, i) + size(v, i)
        PROVE  succ(text(v, i), text(v, j)) /\ index(v, j) = 1
    <3>1. CASE i \in 1 .. L /\ j \in 1 .. L
        BY <1>1, <1>3, <1>c, <2>3, <3>1
    <3>2. CASE i \in 1 .. L /\ j \in L + 1 .. L + n
      <4>0. /\ start(v, i) = start(w, i) /\ size(v, i) = size(w, i)
            /\ text(v, i) = text(w, i) /\ n > 0
            /\ text(v, j) = x /\ index(v, j) = f + j - L - 1
          BY <1>0, <1>1, <1>3, <3>2
      <4>1. CASE j > L + 1
        <5>1. start(w, i) = L + 2 - f /\ size(w, i) = x.size
            BY <1>6, <2>3, <3>2, <4>0, <4>1
        <5>2. j = L + 2 - f + x.size
            BY <2>3, <4>0, <5>1
        <5> QED
            BY <1>0, <3>2, <5>2
      <4>2. CASE j = L + 1
        <5>1. L \in 1 .. L /\ L > 0
            BY <1>0, <3>2
        <5>8. L + 1 = start(w, i) + size(w, i)
            BY <2>3, <4>0, <4>2
        <5>9. /\ start(w, i) \in Nat /\ start(w, i) <= i /\ i <= L /\ i \in Nat
              /\ size(w, i) \in Nat
            BY <1>0, <1>2, <1>5, <3>2
        <5>0. /\ start(w, i) \in Nat /\ start(w, i) <= i /\ i <= L /\ i \in Nat
              /\ size(w, i) \in Nat /\ L + 1 = start(w, i) + size(w, i)
            BY <5>8, <5>9
        <5>2. L < start(w, i) + size(w, i) /\ start(w, i) <= L
            BY <1>0, <5>0
        <5>3. text(w, L) = text(w, i) /\ index(w, L) = L - start(w, i) + 1
            BY <1>b, <3>2, <5>1, <5>2
        <5>7. index(w, L) = size(w, i)
          <6>1. index(w, L) = L - start(w, i) + 1
              BY <5>3
          <6>2. L - start(w, i) + 1 = size(w, i)
              BY <1>0, <5>0, SMTT(30)
          <6> QED
              BY <6>1, <6>2
        <5>4. index(w, L) = size(w, i) /\ text(w, L).size = size(w, i)
            BY <1>2, <3>2, <5>3, <5>7
        <5>5. f = 1
          <6> SUFFICES ASSUME f # 1 PROVE FALSE
              OBVIOUS
          <6>1. index(w, L) = f - 1 /\ text(w, L).size = x.size
              BY <1>j2
          <6> QED
              BY <1>0, <5>4, <6>1
        <5>6. succ(text(w, L), x)
            BY <1>j1, <5>1, <5>5
        <5> QED
            BY <1>0, <4>0, <4>2, <5>3, <5>5, <5>6
      <4> QED
          BY <1>0, <3>2, <4>1, <4>2
    <3>3. CASE i \in L + 1 .. L + n
      <4>1. start(v, i) = L + 2 - f /\ size(v, i) = x.size
          BY <1>1, <1>4, <3>3
      <4>2. j = L + 2 - f + x.size
          BY <2>3, <4>1
      <4>3. j > L + n
          BY <1>0, <4>2
      <4> QED
          BY <1>0, <4>3
    <3> QED
        BY <1>0, <3>1, <3>2, <3>3
  <2> QED
      BY <1>1, <2>1, <2>2, <2>3 DEF Complete
<1>8. CASE n = 0
  <2>1. v = w
    <3>1. Bytes(x.cipher, x.part, x.len, x.size, f, n) = <<>>
        BY <1>8 DEF Bytes
    <3> QED
        BY <3>1 DEF v
  <2>2. f + n = f /\ ~(f + n = x.size + 1)
      BY <1>0, <1>8
  <2> QED
      BY <1>1, <1>7, <2>1, <2>2 DEF v, Appended
<1>9. CASE n > 0
  <2>1. L + n \in L + 1 .. L + n /\ Len(v) = L + n /\ v # <<>> /\ L + n \in 1 .. L + n
      BY <1>0, <1>1, <1>9, <1>v
  <2>2. /\ text(v, L + n) = x /\ size(v, L + n) = x.size
        /\ index(v, L + n) = f + (L + n) - L - 1
      BY <1>1, <2>1
  <2>3. f + (L + n) - L - 1 = f + n - 1 /\ f + n # 1
      BY <1>0, <1>9
  <2>4. Joins(v, x, f + n, expected)
      BY <2>1, <2>2, <2>3 DEF Joins
  <2>5. ASSUME f + n = x.size + 1, NEW y, NEW e, succ(x, y) PROVE Joins(v, y, 1, e)
    <3>1. f + n - 1 = x.size
        BY <1>0, <2>5
    <3> QED
        BY <2>1, <2>2, <2>3, <2>5, <3>1 DEF Joins
  <2>6. w # <<>> => text(v, 1) = text(w, 1)
      BY <1>0, <1>1, <1>w
  <2>7. w = <<>> => expected /\ text(v, 1) = x
    <3> SUFFICES ASSUME w = <<>> PROVE expected /\ text(v, 1) = x
        OBVIOUS
    <3>1. L = 0 /\ 1 \in L + 1 .. L + n
        BY <1>0, <1>9, <1>w
    <3>2. expected
        BY <1>0, <1>j2, <3>1 DEF Joins
    <3> QED
        BY <1>1, <3>1, <3>2
  <2> QED
      BY <1>1, <1>7, <2>1, <2>4, <2>5, <2>6, <2>7 DEF v, Appended
<1> QED
    BY <1>0, <1>8, <1>9

\* ReadHeader, ReadBody: the first ciphertext is taken off a complete stream; what
\* belonged behind the stream still does.
LEMMA DropKeeps ==
    ASSUME NEW w \in Seq(Byte), Complete(w), NEW n \in Nat \ {0}, w # <<>>,
           n = size(w, 1), n <= Len(w)
    PROVE  LET v == SubSeq(w, n + 1, Len(w))
           IN  /\ v \in Seq(Byte) /\ Complete(v)
               /\ \A i \in 1 .. n : text(w, i) = text(w, 1) /\ index(w, i) = i
               /\ v # <<>> => succ(text(w, 1), text(v, 1))
               /\ \A y \in Text : \A f \in 1 .. y.size : \A e :
                      Joins(w, y, f, e) => Joins(v, y, f, succ(text(w, 1), y))
<1> DEFINE v == SubSeq(w, n + 1, Len(w))
           L == Len(w)
<1>0. L \in Nat /\ L > 0 /\ 1 \in 1 .. L /\ n \in 1 .. L /\ L - n \in Nat
    OBVIOUS
<1>1. /\ v \in Seq(Byte) /\ Len(v) = L - n
      /\ \A i \in 1 .. L - n : v[i] = w[n + i]
    OBVIOUS
<1>2. \A i \in 1 .. L - n : /\ text(v, i) = text(w, n + i)
                            /\ size(v, i) = size(w, n + i)
                            /\ index(v, i) = index(w, n + i)
    BY <1>1, Zenon DEF text, size, index
<1>n. n \in Nat /\ n > 0
    OBVIOUS
<1> HIDE DEF v, L
<1>v. v = <<>> <=> L = n
  <2>1. v \in Seq(Byte) /\ Len(v) = L - n
      BY <1>1
  <2>2. v = <<>> <=> Len(v) = 0
      BY <2>1
  <2> QED
      BY <1>0, <1>n, <2>1, <2>2
<1>3. \A i \in 1 .. L : /\ size(w, i) \in Nat /\ index(w, i) \in Nat
                        /\ text(w, i).size = size(w, i)
    BY ByteParts DEF L
<1>a. \A i \in 1 .. L : index(w, i) \in 1 .. size(w, i) /\ start(w, i) >= 1
    BY DEF Complete, L
<1>b. \A i, j \in 1 .. L :
          start(w, i) <= j /\ j < start(w, i) + size(w, i) =>
              text(w, j) = text(w, i) /\ index(w, j) = j - start(w, i) + 1
    BY DEF Complete, L
<1>c. \A i, j \in 1 .. L :
          j = start(w, i) + size(w, i) =>
              succ(text(w, i), text(w, j)) /\ index(w, j) = 1
    BY DEF Complete, L
<1>4. index(w, 1) = 1 /\ start(w, 1) = 1
    BY <1>0, <1>3, <1>a, SMTT(30) DEF start
<1>5. \A i \in 1 .. n : text(w, i) = text(w, 1) /\ index(w, i) = i
  <2> SUFFICES ASSUME NEW i \in 1 .. n
               PROVE  text(w, i) = text(w, 1) /\ index(w, i) = i
      OBVIOUS
  <2>1. i \in 1 .. L /\ start(w, 1) <= i /\ i < start(w, 1) + size(w, 1)
        /\ i - start(w, 1) + 1 = i
      BY <1>0, <1>n, <1>4
  <2> QED
      BY <1>0, <1>b, <2>1
<1>6. ASSUME NEW i \in 1 .. L - n
      PROVE  /\ n + i \in 1 .. L /\ start(v, i) = start(w, n + i) - n
             /\ start(v, i) >= 1 /\ start(w, n + i) \in Nat
  <2>1. n + i \in 1 .. L /\ i \in Nat
      BY <1>0, <1>n
  <2>2. /\ index(w, n + i) \in Nat /\ index(w, n + i) >= 1
        /\ index(w, n + i) <= size(w, n + i) /\ size(w, n + i) \in Nat
      BY <1>3, <1>a, <2>1
  <2>3. start(w, n + i) = (n + i) - index(w, n + i) + 1
      BY <2>1, <2>2 DEF start
  <2>4. start(v, i) = i - index(w, n + i) + 1
      BY <1>2 DEF start
  <2>5. start(w, n + i) >= 1
      BY <1>a, <2>1
  <2>6. start(w, n + i) > n
    <3> SUFFICES ASSUME start(w, n + i) <= n PROVE FALSE
        BY <1>n, <2>1, <2>2, <2>3
    <3>1. n < start(w, n + i) + size(w, n + i)
        BY <1>n, <2>1, <2>2, <2>3, SMTT(30)
    <3>2. text(w, n) = text(w, n + i) /\ index(w, n) = n - start(w, n + i) + 1
        BY <1>0, <1>b, <2>1, <3>1
    <3>3. text(w, n) = text(w, 1) /\ index(w, n) = n
        BY <1>5, <1>n
    <3>4. size(w, n + i) = n
        BY <1>0, <1>3, <2>1, <3>2, <3>3, Zenon
    <3>5. n - start(w, n + i) + 1 = n
        BY <3>2, <3>3
    <3>7. start(w, n + i) \in Int
        BY <1>n, <2>1, <2>2, <2>3
    <3>6. start(w, n + i) = 1
        BY <1>n, <3>5, <3>7
    <3> QED
        BY <1>n, <2>1, <2>2, <2>3, <3>4, <3>6
  <2> QED
      BY <1>n, <2>1, <2>2, <2>3, <2>4, <2>5, <2>6, SMTT(30)
<1>7. Complete(v)
  <2>1. \A i \in 1 .. L - n : index(v, i) \in 1 .. size(v, i) /\ start(v, i) >= 1
      BY <1>2, <1>6, <1>a
  <2>2. ASSUME NEW i \in 1 .. L - n, NEW j \in 1 .. L - n,
               start(v, i) <= j, j < start(v, i) + size(v, i)
        PROVE  text(v, j) = text(v, i) /\ index(v, j) = j - start(v, i) + 1
    <3>1. /\ n + i \in 1 .. L /\ n + j \in 1 .. L /\ i \in Nat /\ j \in Nat
          /\ start(v, i) = start(w, n + i) - n
          /\ start(w, n + i) \in Nat /\ size(w, n + i) \in Nat
          /\ size(v, i) = size(w, n + i)
        BY <1>2, <1>3, <1>6, SMTT(30)
    <3>2. start(w, n + i) <= n + j /\ n + j < start(w, n + i) + size(w, n + i)
        BY <1>n, <2>2, <3>1, SMTT(30)
    <3>3. text(w, n + j) = text(w, n + i)
          /\ index(w, n + j) = (n + j) - start(w, n + i) + 1
        BY <1>b, <3>1, <3>2, SMTT(30)
    <3>4. (n + j) - start(w, n + i) + 1 = j - start(v, i) + 1
        BY <1>n, <3>1
    <3> QED
        BY <1>2, <3>3, <3>4
  <2>3. ASSUME NEW i \in 1 .. L - n, NEW j \in 1 .. L - n,
               j = start(v, i) + size(v, i)
        PROVE  succ(text(v, i), text(v, j)) /\ index(v, j) = 1
    <3>1. /\ n + i \in 1 .. L /\ n + j \in 1 .. L /\ i \in Nat /\ j \in Nat
          /\ start(v, i) = start(w, n + i) - n
          /\ start(w, n + i) \in Nat /\ size(w, n + i) \in Nat
          /\ size(v, i) = size(w, n + i)
        BY <1>2, <1>3, <1>6
    <3>2. n + j = start(w, n + i) + size(w, n + i)
        BY <1>n, <2>3, <3>1, SMTT(30)
    <3>3. succ(text(w, n + i), text(w, n + j)) /\ index(w, n + j) = 1
        BY <1>c, <3>1, <3>2, SMTT(30)
    <3> QED
        BY <1>2, <3>3
  <2> QED
      BY <1>1, <2>1, <2>2, <2>3 DEF Complete
<1>8. v # <<>> => succ(text(w, 1), text(v, 1))
  <2> SUFFICES ASSUME v # <<>> PROVE succ(text(w, 1), text(v, 1))
      OBVIOUS
  <2>1. n + 1 \in 1 .. L /\ 1 \in 1 .. L - n
      BY <1>0, <1>n, <1>v
  <2>2. n + 1 = start(w, 1) + size(w, 1)
      BY <1>4, <1>n
  <2>3. succ(text(w, 1), text(w, n + 1))
      BY <1>0, <1>c, <2>1, <2>2
  <2> QED
      BY <1>2, <2>1, <2>3
<1>9. ASSUME NEW y \in Text, NEW f \in 1 .. y.size, NEW e, Joins(w, y, f, e)
      PROVE  Joins(v, y, f, succ(text(w, 1), y))
  <2>0. y.size \in Nat /\ f \in Nat /\ f <= y.size
      BY DEF Text
  <2>1. CASE v = <<>>
    <3>1. L = n /\ text(w, L) = text(w, 1) /\ index(w, L) = n /\ size(w, L) = n
      <4>1. L = n /\ n \in 1 .. n
          BY <1>n, <1>v, <2>1
      <4> QED
          BY <1>0, <1>3, <1>5, <4>1
    <3>2. f = 1
      <4> SUFFICES ASSUME f # 1 PROVE FALSE
          OBVIOUS
      <4>1. index(w, L) = f - 1 /\ text(w, L) = y
          BY <1>9 DEF Joins, L
      <4>2. y.size = n
          BY <1>0, <1>3, <3>1, <4>1
      <4> QED
          BY <1>n, <2>0, <3>1, <4>1, <4>2
    <3>3. succ(text(w, L), y)
        BY <1>9, <3>2 DEF Joins, L
    <3> QED
        BY <2>1, <3>1, <3>2, <3>3 DEF Joins
  <2>2. CASE v # <<>>
    <3>1. /\ Len(v) = L - n /\ L - n \in 1 .. L - n /\ n + (L - n) = L
        BY <1>0, <1>1, <1>n, <1>v, <2>2
    <3>2. /\ text(v, Len(v)) = text(w, L) /\ size(v, Len(v)) = size(w, L)
          /\ index(v, Len(v)) = index(w, L)
        BY <1>2, <3>1
    <3> QED
        BY <1>9, <2>2, <3>2 DEF Joins, L
  <2> QED
      BY <2>1, <2>2
<1> QED
    BY <1>1, <1>5, <1>7, <1>8, <1>9 DEF v, L

\* The two ciphertexts of the buffered message.
headerText(b) == [cipher |-> b.header, part |-> "header", len |-> b.len,
                  size |-> encHeaderSize]
bodyText(b) == [cipher |-> b.body, part |-> "body", len |-> b.len,
                size |-> b.len + macSize]

\* x is the ciphertext that a reader at r with cipher state c opens next.
expects(x, c, r) ==
    /\ x.cipher = c /\ x.part = r.at
    /\ r.at = "header" => x.size = encHeaderSize
    /\ r.at = "body" => x.len = r.len /\ x.size = r.len + macSize

\* w starts with what the reader opens next.
Heads(w, c, r) == w # <<>> => expects(text(w, 1), c, r)

\* The header a sender with cipher state s writes next.
headerUnder(y, s) == y.cipher = s /\ y.part = "header" /\ y.size = encHeaderSize

\* What is written next, with header and body bytes of b left, belongs behind w.
Goes(w, header, body, b, s, c, r) ==
    /\ header > 0 => Joins(w, headerText(b), encHeaderSize - header + 1,
                           expects(headerText(b), c, r))
    /\ header = 0 /\ body > 0 =>
           Joins(w, bodyText(b), b.len + macSize - body + 1, expects(bodyText(b), c, r))
    /\ header = 0 /\ body = 0 =>
           \A y \in Text : headerUnder(y, s) => Joins(w, y, 1, expects(y, c, r))

\* The inductive invariant of reading.
InStep ==
    /\ Complete(wire) /\ Heads(wire, recvCipher, reader)
    /\ Goes(wire, nextHeaderSend, nextBodySend, buffered, sendCipher, recvCipher, reader)
    /\ ~Flushed => /\ buffered.body = advance(buffered.header)
                   /\ sendCipher = advance(buffered.body)
    /\ ~failed

Message == [len : 0 .. MaxUint16, header : CipherState, body : CipherState]

\* The two ciphertexts of a message.
LEMMA MessageTexts ==
    ASSUME NEW b \in Message
    PROVE  /\ headerText(b) \in Text /\ bodyText(b) \in Text
           /\ headerText(b).size = encHeaderSize /\ bodyText(b).size = b.len + macSize
           /\ b.body = advance(b.header) => succ(headerText(b), bodyText(b))
           /\ \A y \in Text : headerUnder(y, advance(b.body)) => succ(bodyText(b), y)
           /\ b.len \in Nat /\ macSize \in Nat /\ macSize > 0
           /\ encHeaderSize \in Nat /\ encHeaderSize > 0
<1>1. /\ macSize \in Nat /\ macSize > 0 /\ lengthHeaderSize \in Nat /\ MaxUint16 \in Nat
      /\ encHeaderSize \in Nat /\ encHeaderSize > 0
    BY TransportAssumption DEF encHeaderSize
<1>2. b.len \in 0 .. MaxUint16 /\ b.header \in CipherState /\ b.body \in CipherState
    BY DEF Message
<1> QED
    BY <1>1, <1>2 DEF headerText, bodyText, Text, succ, headerUnder

\* What AppendKeeps says of the head of the stream.
LEMMA HeadsKept ==
    ASSUME NEW w, NEW v, NEW x, NEW c, NEW r, Heads(w, c, r),
           w # <<>> => v # <<>> /\ text(v, 1) = text(w, 1),
           w = <<>> => v = <<>> \/ (expects(x, c, r) /\ text(v, 1) = x)
    PROVE  Heads(v, c, r)
BY DEF Heads

\* flush: n of the body bytes left are written.
LEMMA BodyWritten ==
    ASSUME NEW w \in Seq(Byte), NEW b \in Message, NEW body \in 1 .. b.len + macSize,
           NEW n \in 0 .. body, NEW c, NEW r, Complete(w), Heads(w, c, r),
           Joins(w, bodyText(b), b.len + macSize - body + 1, expects(bodyText(b), c, r))
    PROVE  LET v == w \o Bytes(b.body, "body", b.len, b.len + macSize,
                               b.len + macSize - body + 1, n)
           IN  /\ Complete(v) /\ Heads(v, c, r)
               /\ Goes(v, 0, body - n, b, advance(b.body), c, r)
<1> DEFINE x == bodyText(b)
           f == b.len + macSize - body + 1
           v == w \o Bytes(x.cipher, x.part, x.len, x.size, f, n)
           e == expects(x, c, r)
<1>1. /\ x \in Text /\ x.size = b.len + macSize
      /\ b.len \in Nat /\ macSize \in Nat /\ macSize > 0
      /\ \A y \in Text : headerUnder(y, advance(b.body)) => succ(x, y)
    BY MessageTexts
<1>2. x.cipher = b.body /\ x.part = "body" /\ x.len = b.len
    BY DEF bodyText
<1>3. e \in BOOLEAN
    BY DEF expects
<1>4. /\ f \in Nat \ {0} /\ n \in Nat /\ f <= x.size /\ f + n <= x.size + 1
      /\ body \in Nat /\ body <= b.len + macSize /\ n <= body
    BY <1>1
<1>5. Joins(w, x, f, e)
    OBVIOUS
<1> HIDE DEF x, f, e
<1>6. /\ v \in Seq(Byte) /\ Complete(v)
      /\ f + n <= x.size => Joins(v, x, f + n, e)
      /\ f + n = x.size + 1 => \A y, e1 : succ(x, y) => Joins(v, y, 1, e1)
      /\ w # <<>> => v # <<>> /\ text(v, 1) = text(w, 1)
      /\ w = <<>> => v = <<>> \/ (e /\ text(v, 1) = x)
  <2>1. Appended(w, v, x, f + n, e)
      BY <1>1, <1>3, <1>4, <1>5, AppendKeeps, SMTT(30)
  <2> QED
      BY <2>1 DEF Appended
<1>7. v = w \o Bytes(b.body, "body", b.len, b.len + macSize,
                     b.len + macSize - body + 1, n)
    BY <1>1, <1>2 DEF f
<1> HIDE DEF v
<1>8. Heads(v, c, r)
    BY <1>6, HeadsKept DEF e
<1>9. Goes(v, 0, body - n, b, advance(b.body), c, r)
  <2>1. CASE n < body
    <3>1. body - n > 0 /\ f + n <= x.size
          /\ f + n = b.len + macSize - (body - n) + 1
        BY <1>1, <1>4, <2>1, SMTT(30) DEF f
    <3>2. Joins(v, x, b.len + macSize - (body - n) + 1, e)
        BY <1>6, <3>1
    <3> QED
        BY <1>4, <3>1, <3>2 DEF Goes, x, e
  <2>2. CASE n = body
    <3>1. body - n = 0 /\ f + n = x.size + 1
        BY <1>1, <1>4, <2>2 DEF f
    <3>2. \A y \in Text : headerUnder(y, advance(b.body)) => Joins(v, y, 1, expects(y, c, r))
        BY <1>1, <1>6, <3>1
    <3> QED
        BY <3>1, <3>2 DEF Goes
  <2> QED
      BY <1>4, <2>1, <2>2
<1> QED
    BY <1>6, <1>7, <1>8, <1>9

\* flush: h of the header bytes left are written.
LEMMA HeaderWritten ==
    ASSUME NEW w \in Seq(Byte), NEW b \in Message, NEW header \in 1 .. encHeaderSize,
           NEW h \in 0 .. header, NEW c, NEW r, Complete(w), Heads(w, c, r),
           b.body = advance(b.header),
           Joins(w, headerText(b), encHeaderSize - header + 1,
                 expects(headerText(b), c, r))
    PROVE  LET v == w \o Bytes(b.header, "header", b.len, encHeaderSize,
                               encHeaderSize - header + 1, h)
           IN  /\ v \in Seq(Byte) /\ Complete(v) /\ Heads(v, c, r)
               /\ h < header => Joins(v, headerText(b), encHeaderSize - (header - h) + 1,
                                      expects(headerText(b), c, r))
               /\ h = header => Joins(v, bodyText(b), 1, expects(bodyText(b), c, r))
<1> DEFINE x == headerText(b)
           f == encHeaderSize - header + 1
           v == w \o Bytes(x.cipher, x.part, x.len, x.size, f, h)
           e == expects(x, c, r)
<1>1. /\ x \in Text /\ x.size = encHeaderSize
      /\ encHeaderSize \in Nat /\ encHeaderSize > 0
      /\ succ(x, bodyText(b))
    BY MessageTexts
<1>2. x.cipher = b.header /\ x.part = "header" /\ x.len = b.len
    BY DEF headerText
<1>3. e \in BOOLEAN
    BY DEF expects
<1>4. /\ f \in Nat \ {0} /\ h \in Nat /\ f <= x.size /\ f + h <= x.size + 1
      /\ header \in Nat /\ header <= encHeaderSize /\ h <= header
    BY <1>1
<1>5. Joins(w, x, f, e)
    OBVIOUS
<1> HIDE DEF x, f, e
<1>6. /\ v \in Seq(Byte) /\ Complete(v)
      /\ f + h <= x.size => Joins(v, x, f + h, e)
      /\ f + h = x.size + 1 => \A y, e1 : succ(x, y) => Joins(v, y, 1, e1)
      /\ w # <<>> => v # <<>> /\ text(v, 1) = text(w, 1)
      /\ w = <<>> => v = <<>> \/ (e /\ text(v, 1) = x)
  <2>1. Appended(w, v, x, f + h, e)
      BY <1>1, <1>3, <1>4, <1>5, AppendKeeps
  <2> QED
      BY <2>1 DEF Appended
<1>7. v = w \o Bytes(b.header, "header", b.len, encHeaderSize,
                     encHeaderSize - header + 1, h)
    BY <1>1, <1>2 DEF f
<1> HIDE DEF v
<1>8. Heads(v, c, r)
    BY <1>6, HeadsKept DEF e
<1>9. h < header => Joins(v, x, encHeaderSize - (header - h) + 1, e)
  <2> SUFFICES ASSUME h < header PROVE Joins(v, x, encHeaderSize - (header - h) + 1, e)
      OBVIOUS
  <2>1. f + h <= x.size /\ f + h = encHeaderSize - (header - h) + 1
      BY <1>1, <1>4 DEF f
  <2> QED
      BY <1>6, <2>1
<1>10. h = header => Joins(v, bodyText(b), 1, expects(bodyText(b), c, r))
  <2> SUFFICES ASSUME h = header PROVE Joins(v, bodyText(b), 1, expects(bodyText(b), c, r))
      OBVIOUS
  <2>1. f + h = x.size + 1
      BY <1>1, <1>4 DEF f
  <2> QED
      BY <1>1, <1>6, <2>1
<1> QED
    BY <1>6, <1>7, <1>8, <1>9, <1>10, Zenon DEF x, e

\* flush: wherever the write is cut, the stream stays complete and what is left
\* belongs behind it.
LEMMA FlushInStep ==
    ASSUME NEW b \in Message, NEW header \in 0 .. encHeaderSize,
           NEW body \in 0 .. b.len + macSize, NEW old, NEW k \in 0 .. header + body,
           header > 0 => body = b.len + macSize, header > 0 \/ body > 0,
           b.body = advance(b.header), wire \in Seq(Byte),
           Complete(wire), NEW c, NEW r, Heads(wire, c, r),
           Goes(wire, header, body, b, advance(b.body), c, r),
           flush(k, header, body, b, old)
    PROVE  /\ Complete(wire') /\ Heads(wire', c, r)
           /\ Goes(wire', nextHeaderSend', nextBodySend', b, advance(b.body), c, r)
<1> DEFINE h == IF k < header THEN k ELSE header
           n == k - h
           w1 == wire \o Bytes(b.header, "header", b.len, encHeaderSize,
                               encHeaderSize - header + 1, h)
           v == w1 \o Bytes(b.body, "body", b.len, b.len + macSize,
                            b.len + macSize - body + 1, n)
<1>1. /\ encHeaderSize \in Nat /\ b.len \in Nat /\ macSize \in Nat
      /\ b.len + macSize \in Nat \ {0}
    BY MessageTexts
<1>2. /\ wire' = v /\ nextHeaderSend' = header - h /\ nextBodySend' = body - n
      /\ h = (IF k < header THEN k ELSE header) /\ n = k - h
    BY Zenon DEF flush
<1> HIDE DEF h, n, v, w1
<1>3. Cut(encHeaderSize, b.len + macSize, header, body, h, n)
    BY <1>1, <1>2, CutParts, Zenon
<1> USE DEF Cut
<1>4. CASE ~(header = 0)
  <2>1. Joins(wire, headerText(b), encHeaderSize - header + 1,
              expects(headerText(b), c, r))
      BY <1>3, <1>4, Zenon DEF Goes
  <2>2. /\ w1 \in Seq(Byte) /\ Complete(w1) /\ Heads(w1, c, r)
        /\ h < header => Joins(w1, headerText(b), encHeaderSize - (header - h) + 1,
                               expects(headerText(b), c, r))
        /\ h = header => Joins(w1, bodyText(b), 1, expects(bodyText(b), c, r))
      BY <1>3, <1>4, <2>1, HeaderWritten, Zenon DEF w1
  <2>3. CASE h < header
    <3>1. v = w1
        BY <1>3, <2>2, <2>3, NoBytes, Zenon DEF v
    <3>2. Goes(w1, header - h, body - n, b, advance(b.body), c, r)
        BY <1>3, <2>2, <2>3, Zenon DEF Goes
    <3> QED
        BY <1>2, <2>2, <3>1, <3>2, Zenon
  <2>4. CASE h = header
    <3> DEFINE f == b.len + macSize - body + 1
    <3>1. header - h = 0 /\ body \in 1 .. b.len + macSize /\ n \in 0 .. body /\ f = 1
        BY <1>1, <1>3, <1>4, <2>4
    <3> HIDE DEF f
    <3>2. Joins(w1, bodyText(b), f, expects(bodyText(b), c, r))
        BY <2>2, <2>4, <3>1
    <3>3. /\ Complete(v) /\ Heads(v, c, r)
          /\ Goes(v, 0, body - n, b, advance(b.body), c, r)
        BY <2>2, <3>1, <3>2, BodyWritten, Zenon DEF f, v
    <3> QED
        BY <1>2, <3>1, <3>3, Zenon
  <2> QED
      BY <1>3, <1>4, <2>3, <2>4, Zenon
<1>5. CASE header = 0
  <2>1. Joins(wire, bodyText(b), b.len + macSize - body + 1, expects(bodyText(b), c, r))
    <3>1. body > 0
        BY <1>3, <1>5
    <3> QED
        BY <1>5, <3>1, Zenon DEF Goes
  <2>2. w1 = wire
      BY <1>3, <1>5, NoBytes, Zenon DEF w1
  <2>3. /\ Complete(v) /\ Heads(v, c, r)
        /\ Goes(v, 0, body - n, b, advance(b.body), c, r)
      BY <1>3, <1>5, <2>1, <2>2, BodyWritten, Zenon DEF v
  <2> QED
      BY <1>2, <1>3, <1>5, <2>3, Zenon
<1> QED
    BY <1>4, <1>5, ZenonT(40)

\* Nothing is written yet, and both sides have the same key.
LEMMA StartsInStep == Init => InStep
<1> SUFFICES ASSUME Init PROVE InStep
    OBVIOUS
<1>1. /\ wire = <<>> /\ nextHeaderSend = 0 /\ nextBodySend = 0 /\ ~failed
      /\ recvCipher = sendCipher /\ reader.at = "header"
    BY DEF Init, Header
<1>2. Complete(wire) /\ Heads(wire, recvCipher, reader)
    BY <1>1 DEF Complete, Heads
<1>3. \A y \in Text : headerUnder(y, sendCipher) =>
                          Joins(wire, y, 1, expects(y, recvCipher, reader))
    BY <1>1 DEF headerUnder, Joins, expects
<1>4. Goes(wire, nextHeaderSend, nextBodySend, buffered, sendCipher, recvCipher, reader)
    BY <1>1, <1>3 DEF Goes
<1> QED
    BY <1>1, <1>2, <1>4 DEF InStep, Flushed

\* WriteMessage, and the first Flush.
LEMMA WriteInStep ==
    ASSUME IInv, InStep, NEW len \in Nat, NEW k \in 0 .. Total(len),
           writeAndFlush(len, k), UNCHANGED recvVars
    PROVE  InStep'
<1> DEFINE b == [len |-> len, header |-> sendCipher, body |-> advance(sendCipher)]
<1>1. /\ Flushed /\ sendCipher' = advance(advance(sendCipher)) /\ buffered' = b
      /\ flush(k, encHeaderSize, len + macSize, b, 0) /\ len \in 0 .. MaxUint16
      /\ k \in 0 .. encHeaderSize + (len + macSize)
    BY TransportAssumption DEF writeAndFlush, mayWrite, Total, encHeaderSize
<1>2. /\ sendCipher \in CipherState /\ advance(sendCipher) \in CipherState
      /\ wire \in Seq(Byte)
    BY AdvanceCounts DEF IInv, TypeOK
<1>3. /\ b \in Message /\ b.header = sendCipher /\ b.body = advance(b.header)
      /\ b.len = len /\ sendCipher' = advance(b.body)
    BY <1>1, <1>2 DEF Message
<1> HIDE DEF b
<1>4. /\ headerText(b) \in Text /\ b.len \in Nat /\ macSize \in Nat /\ macSize > 0
      /\ encHeaderSize \in Nat /\ encHeaderSize > 0
    BY <1>3, MessageTexts
<1>5. headerUnder(headerText(b), sendCipher)
    BY <1>3, Zenon DEF headerUnder, headerText
<1>6. Joins(wire, headerText(b), 1, expects(headerText(b), recvCipher, reader))
    BY <1>1, <1>4, <1>5 DEF InStep, Goes, Flushed
<1>7. encHeaderSize - encHeaderSize + 1 = 1 /\ ~(encHeaderSize = 0)
    BY <1>4
<1>8. Goes(wire, encHeaderSize, len + macSize, b, advance(b.body), recvCipher, reader)
    BY <1>6, <1>7 DEF Goes
<1>9. /\ encHeaderSize \in 0 .. encHeaderSize /\ len + macSize \in 0 .. b.len + macSize
      /\ len + macSize = b.len + macSize /\ encHeaderSize > 0
    BY <1>3, <1>4
<1>10. /\ Complete(wire') /\ Heads(wire', recvCipher, reader)
       /\ Goes(wire', nextHeaderSend', nextBodySend', b, advance(b.body), recvCipher,
               reader)
    BY <1>1, <1>2, <1>3, <1>8, <1>9, FlushInStep DEF InStep
<1>11. recvCipher' = recvCipher /\ reader' = reader /\ ~failed'
    BY DEF recvVars, InStep
<1> QED
    BY <1>1, <1>3, <1>10, <1>11 DEF InStep

\* Flush, after a write was cut short.
LEMMA FlushAgainInStep ==
    ASSUME IInv, InStep, NEW k \in 0 .. nextHeaderSend + nextBodySend, Flush(k)
    PROVE  InStep'
<1>1. /\ ~Flushed /\ flush(k, nextHeaderSend, nextBodySend, buffered, reported)
      /\ sendCipher' = sendCipher /\ buffered' = buffered
      /\ recvCipher' = recvCipher /\ reader' = reader /\ failed' = failed
    BY DEF Flush, recvVars
<1>2. /\ buffered \in Message /\ nextHeaderSend \in 0 .. encHeaderSize
      /\ nextBodySend \in 0 .. buffered.len + macSize /\ wire \in Seq(Byte)
      /\ nextHeaderSend > 0 => nextBodySend = buffered.len + macSize
    BY DEF IInv, TypeOK, HeaderFirst, Message
<1>3. nextHeaderSend > 0 \/ nextBodySend > 0
  <2>1. nextHeaderSend \in Nat /\ nextBodySend \in Nat
      BY <1>2, MessageTexts
  <2> QED
      BY <1>1, <2>1 DEF Flushed
<1>4. /\ buffered.body = advance(buffered.header)
      /\ sendCipher = advance(buffered.body)
      /\ Complete(wire) /\ Heads(wire, recvCipher, reader)
      /\ Goes(wire, nextHeaderSend, nextBodySend, buffered, advance(buffered.body),
              recvCipher, reader)
    BY <1>1, Zenon DEF InStep
<1>5. /\ Complete(wire') /\ Heads(wire', recvCipher, reader)
      /\ Goes(wire', nextHeaderSend', nextBodySend', buffered, advance(buffered.body),
              recvCipher, reader)
    BY <1>1, <1>2, <1>3, <1>4, FlushInStep, Zenon
<1> QED
    BY <1>1, <1>4, <1>5, Zenon DEF InStep

\* What belongs behind a stream still does if more is expected.
LEMMA JoinsMore ==
    ASSUME NEW w, NEW y, NEW f, NEW d, NEW e, d => e, Joins(w, y, f, d)
    PROVE  Joins(w, y, f, e)
BY DEF Joins

\* The first ciphertext opens.
LEMMA FirstOpens ==
    ASSUME IInv, InStep, wire # <<>>, NEW n \in Nat \ {0}, n = size(wire, 1),
           n <= Len(wire)
    PROVE  Opens(Front(n), recvCipher)
<1>1. wire \in Seq(Byte) /\ Complete(wire) /\ expects(text(wire, 1), recvCipher, reader)
    BY DEF IInv, TypeOK, InStep, Heads
<1>2. \A i \in 1 .. n : text(wire, i) = text(wire, 1) /\ index(wire, i) = i
    BY <1>1, DropKeeps
<1>3. /\ Len(Front(n)) = n /\ DOMAIN Front(n) = 1 .. n
      /\ \A i \in 1 .. n : Front(n)[i] = wire[i]
    BY <1>1 DEF Front
<1>4. ASSUME NEW i \in 1 .. n
      PROVE  wire[i].cipher = recvCipher /\ wire[i].index = i /\ wire[i].size = n
  <2>1. /\ text(wire, i).cipher = text(wire, 1).cipher
        /\ text(wire, i).size = text(wire, 1).size
      BY <1>2
  <2>2. text(wire, 1).cipher = recvCipher /\ text(wire, 1).size = n
      BY <1>1 DEF expects, text, size
  <2>3. text(wire, i).cipher = wire[i].cipher /\ text(wire, i).size = wire[i].size
      BY DEF text
  <2> QED
      BY <1>2, <2>1, <2>2, <2>3 DEF index
<1> QED
    BY <1>3, <1>4 DEF Opens

\* The first ciphertext is taken off the wire, and the reader expects the next.
LEMMA TakeInStep ==
    ASSUME IInv, InStep, wire # <<>>, NEW n \in Nat \ {0}, n = size(wire, 1),
           n <= Len(wire), wire' = Drop(n), UNCHANGED sendVars, ~failed',
           \A y \in Text : succ(text(wire, 1), y) => expects(y, recvCipher', reader')
    PROVE  InStep'
<1>1. wire \in Seq(Byte) /\ Complete(wire)
    BY DEF IInv, TypeOK, InStep
<1>2. /\ wire' \in Seq(Byte) /\ Complete(wire')
      /\ wire' # <<>> => succ(text(wire, 1), text(wire', 1))
      /\ \A y \in Text : \A f \in 1 .. y.size : \A e :
             Joins(wire, y, f, e) => Joins(wire', y, f, succ(text(wire, 1), y))
    BY <1>1, DropKeeps DEF Drop
<1>3. /\ sendCipher' = sendCipher /\ nextHeaderSend' = nextHeaderSend
      /\ nextBodySend' = nextBodySend /\ buffered' = buffered
    BY DEF sendVars
<1>4. Heads(wire', recvCipher', reader')
  <2> SUFFICES ASSUME wire' # <<>> PROVE expects(text(wire', 1), recvCipher', reader')
      BY DEF Heads
  <2>1. 1 \in 1 .. Len(wire')
      BY <1>2
  <2>2. text(wire', 1) \in Text
      BY <1>2, <2>1, ByteParts
  <2> QED
      BY <1>2, <2>2
<1>5. \A y \in Text : \A f \in 1 .. y.size : \A e :
          Joins(wire, y, f, e) => Joins(wire', y, f, expects(y, recvCipher', reader'))
    BY <1>2, JoinsMore
<1>6. /\ buffered \in Message /\ nextHeaderSend \in 0 .. encHeaderSize
      /\ nextBodySend \in 0 .. buffered.len + macSize
    BY DEF IInv, TypeOK, Message
<1>7. /\ headerText(buffered) \in Text /\ bodyText(buffered) \in Text
      /\ headerText(buffered).size = encHeaderSize
      /\ bodyText(buffered).size = buffered.len + macSize
      /\ buffered.len \in Nat /\ macSize \in Nat /\ macSize > 0
      /\ encHeaderSize \in Nat /\ encHeaderSize > 0
    BY <1>6, MessageTexts
<1>8. Goes(wire', nextHeaderSend, nextBodySend, buffered, sendCipher, recvCipher', reader')
  <2>1. Goes(wire, nextHeaderSend, nextBodySend, buffered, sendCipher, recvCipher, reader)
      BY Zenon DEF InStep
  <2>2. ASSUME nextHeaderSend > 0
        PROVE  Joins(wire', headerText(buffered), encHeaderSize - nextHeaderSend + 1,
                     expects(headerText(buffered), recvCipher', reader'))
    <3>1. encHeaderSize - nextHeaderSend + 1 \in 1 .. headerText(buffered).size
        BY <1>6, <1>7, <2>2
    <3> QED
        BY <1>5, <1>7, <2>1, <2>2, <3>1 DEF Goes
  <2>3. ASSUME nextHeaderSend = 0, nextBodySend > 0
        PROVE  Joins(wire', bodyText(buffered), buffered.len + macSize - nextBodySend + 1,
                     expects(bodyText(buffered), recvCipher', reader'))
    <3>1. buffered.len + macSize - nextBodySend + 1 \in 1 .. bodyText(buffered).size
        BY <1>6, <1>7, <2>3
    <3> QED
        BY <1>5, <1>7, <2>1, <2>3, <3>1 DEF Goes
  <2>4. ASSUME nextHeaderSend = 0, nextBodySend = 0, NEW y \in Text,
               headerUnder(y, sendCipher)
        PROVE  Joins(wire', y, 1, expects(y, recvCipher', reader'))
    <3>1. 1 \in 1 .. y.size
        BY <1>7, <2>4 DEF headerUnder
    <3>2. Joins(wire, y, 1, expects(y, recvCipher, reader))
        BY <2>1, <2>4 DEF Goes
    <3> QED
        BY <1>5, <3>1, <3>2
  <2> QED
      BY <2>2, <2>3, <2>4 DEF Goes
<1>9. ~Flushed' => /\ buffered'.body = advance(buffered'.header)
                   /\ sendCipher' = advance(buffered'.body)
    BY <1>3, Zenon DEF InStep, Flushed
<1> QED
    BY <1>2, <1>3, <1>4, <1>8, <1>9, Zenon DEF InStep

\* ReadHeader opens a header, and the body with its length comes next.
LEMMA ReadHeaderInStep ==
    ASSUME IInv, InStep, ReadHeader PROVE InStep'
<1> DEFINE x == text(wire, 1)
<1>1. /\ reader.at = "header" /\ Len(wire) >= encHeaderSize
      /\ wire' = Drop(encHeaderSize) /\ recvCipher' = advance(recvCipher)
      /\ UNCHANGED sendVars
    BY DEF ReadHeader
<1>2. encHeaderSize \in Nat \ {0} /\ macSize \in Nat
    BY TransportAssumption DEF encHeaderSize
<1>3. wire \in Seq(Byte) /\ wire # <<>> /\ 1 \in 1 .. Len(wire)
    BY <1>1, <1>2 DEF IInv, TypeOK
<1>4. expects(x, recvCipher, reader)
    BY <1>3 DEF InStep, Heads
<1>5. /\ x.size = encHeaderSize /\ x.cipher = recvCipher /\ x.part = "header"
      /\ size(wire, 1) = encHeaderSize
    BY <1>1, <1>3, <1>4, ByteParts DEF expects
<1>6. Opens(Front(encHeaderSize), recvCipher)
    BY <1>1, <1>2, <1>3, <1>5, FirstOpens
<1>7. x.part = wire[1].part /\ x.len = wire[1].len
    BY DEF text
<1>8. reader' = [at |-> "body", len |-> x.len] /\ ~failed'
    BY <1>5, <1>6, <1>7, Zenon DEF ReadHeader, Lengths, InStep
<1>9. ASSUME NEW y \in Text, succ(x, y) PROVE expects(y, recvCipher', reader')
  <2>1. y.part = "body"
      BY <1>5, <1>9 DEF succ, Text
  <2> QED
      BY <1>1, <1>5, <1>8, <1>9, <2>1 DEF succ, expects
<1> QED
    BY <1>1, <1>2, <1>3, <1>5, <1>8, <1>9, TakeInStep

\* ReadBody opens the body that belongs to the header, and a header comes next.
LEMMA ReadBodyInStep ==
    ASSUME IInv, InStep, ReadBody PROVE InStep'
<1> DEFINE x == text(wire, 1)
           n == reader.len + macSize
<1>1. /\ reader.at = "body" /\ Len(wire) >= n
      /\ wire' = Drop(n) /\ recvCipher' = advance(recvCipher)
      /\ reader' = Header /\ UNCHANGED sendVars
    BY DEF ReadBody
<1>2. n \in Nat \ {0} /\ macSize \in Nat
    BY TransportAssumption, SMTT(30) DEF IInv, TypeOK
<1>3. wire \in Seq(Byte) /\ wire # <<>> /\ 1 \in 1 .. Len(wire)
    BY <1>1, <1>2 DEF IInv, TypeOK
<1>4. expects(x, recvCipher, reader)
    BY <1>3 DEF InStep, Heads
<1>5. /\ x.size = n /\ x.cipher = recvCipher /\ x.part = "body"
      /\ size(wire, 1) = n
    BY <1>1, <1>3, <1>4, ByteParts DEF expects
<1>6. Opens(Front(n), recvCipher)
    BY <1>1, <1>2, <1>3, <1>5, FirstOpens
<1>7. ~failed'
    BY <1>6 DEF ReadBody, InStep
<1>8. reader'.at = "header"
    BY <1>1 DEF Header
<1>9. ASSUME NEW y \in Text, succ(x, y) PROVE expects(y, recvCipher', reader')
  <2>1. y.part = "header"
      BY <1>5, <1>9 DEF succ, Text
  <2> QED
      BY <1>1, <1>5, <1>8, <1>9, <2>1 DEF succ, expects
<1> QED
    BY <1>1, <1>2, <1>3, <1>5, <1>7, <1>9, TakeInStep

\* Every step keeps sender and receiver in step, if no read times out.
LEMMA StepsInStep ==
    ASSUME ~ReadTimeouts, IInv, InStep, [Next]_vars PROVE InStep'
<1>1. ASSUME NEW m \in 0 .. MaxWrite, NEW k \in 0 .. Total(chunkSize(m)), Write(m, k)
      PROVE  InStep'
  <2>1. chunkSize(m) \in Nat
      BY TransportAssumption DEF chunkSize
  <2> QED
      BY <1>1, <2>1, WriteInStep DEF Write
<1>2. ASSUME NEW k \in 0 .. Total(chunkSize(todo)), WriteNext(k) PROVE InStep'
  <2>1. chunkSize(todo) \in Nat
      BY TransportAssumption DEF chunkSize, IInv, TypeOK
  <2> QED
      BY <1>2, <2>1, WriteInStep DEF WriteNext
<1>3. ASSUME UNCHANGED <<sendVars, wire, recvCipher, reader, failed>> PROVE InStep'
  <2>1. /\ sendCipher' = sendCipher /\ nextHeaderSend' = nextHeaderSend
        /\ nextBodySend' = nextBodySend /\ buffered' = buffered /\ wire' = wire
        /\ recvCipher' = recvCipher /\ reader' = reader /\ failed' = failed
      BY <1>3 DEF sendVars
  <2> QED
      BY <2>1 DEF InStep, Flushed
<1>4. CASE UNCHANGED vars
    BY <1>3, <1>4 DEF vars, recvVars
<1>5. ASSUME NEW m \in 1 .. MaxUint16, Read(m) PROVE InStep'
    BY <1>3, <1>5 DEF Read
<1>6. ~ReadTimeout
    BY DEF ReadTimeout
<1> QED
    BY <1>1, <1>2, <1>4, <1>5, <1>6, FlushAgainInStep, ReadHeaderInStep, ReadBodyInStep
    DEF Next, WriteStep, ReadStep

\* ReadMessage: without read deadlines every ciphertext opens, for every size of
\* message, header and MAC, every rotation interval, and wherever writes are cut.
THEOREM TransportOpens == ASSUME ~ReadTimeouts PROVE Spec => []NothingFails
<1>1. InStep => NothingFails
    BY DEF InStep, NothingFails
<1>2. IInv /\ InStep /\ [Next]_vars => InStep'
    BY StepsInStep
<1> QED
    BY <1>1, <1>2, InitIInv, NextIInv, StartsInStep, PTL DEF Spec

\* Cipher state c comes before d.
before(c, d) == c.key < d.key \/ (c.key = d.key /\ c.nonce < d.nonce)

\* The inductive invariant of the order.
InOrder ==
    /\ recvCipher \in CipherState /\ delivered \in Seq(CipherState)
    /\ \A i \in DOMAIN delivered : before(delivered[i], recvCipher)
    /\ DeliveredOrdered

\* What reading does to the receiver's cipher state and to what it has delivered.
Receives ==
    \/ recvCipher' = recvCipher /\ delivered' = delivered
    \/ /\ recvCipher' = advance(recvCipher)
       /\ delivered' = delivered \/ delivered' = Append(delivered, recvCipher)

\* The cipher state of the receiver only moves forward.
LEMMA ReceivesInOrder == ASSUME InOrder, Receives PROVE InOrder'
<1>1. /\ recvCipher \in CipherState /\ delivered \in Seq(CipherState)
      /\ \A i \in DOMAIN delivered : before(delivered[i], recvCipher)
      /\ \A i, j \in DOMAIN delivered : i < j => before(delivered[i], delivered[j])
    BY DEF InOrder, DeliveredOrdered, before
<1>2. advance(recvCipher) \in CipherState /\ before(recvCipher, advance(recvCipher))
  <2>1. recvCipher.key \in Nat /\ recvCipher.nonce \in Nat
      BY <1>1 DEF CipherState
  <2>2. CASE recvCipher.nonce + 1 = keyRotationInterval
    <3>1. advance(recvCipher) = [key |-> recvCipher.key + 1, nonce |-> 0]
        BY <2>2 DEF advance, rotateKey
    <3> QED
        BY <2>1, <3>1 DEF CipherState, before
  <2>3. CASE recvCipher.nonce + 1 # keyRotationInterval
    <3>1. advance(recvCipher) = [key |-> recvCipher.key, nonce |-> recvCipher.nonce + 1]
        BY <1>1, <2>3 DEF advance, CipherState
    <3> QED
        BY <2>1, <3>1 DEF CipherState, before
  <2> QED
      BY <2>2, <2>3
<1>3. ASSUME NEW c \in CipherState, before(c, recvCipher)
      PROVE  before(c, advance(recvCipher))
    BY <1>1, <1>2, <1>3 DEF before, CipherState
<1>4. CASE delivered' = delivered
  <2>1. \A i \in DOMAIN delivered : delivered[i] \in CipherState
      BY <1>1
  <2> QED
      BY <1>1, <1>2, <1>3, <1>4, <2>1 DEF Receives, InOrder, DeliveredOrdered, before
<1>5. CASE delivered' = Append(delivered, recvCipher) /\ recvCipher' = advance(recvCipher)
  <2>1. /\ Len(delivered) \in Nat /\ DOMAIN delivered = 1 .. Len(delivered)
        /\ delivered' \in Seq(CipherState) /\ DOMAIN delivered' = 1 .. Len(delivered) + 1
        /\ delivered'[Len(delivered) + 1] = recvCipher
        /\ \A i \in DOMAIN delivered : /\ delivered'[i] = delivered[i]
                                       /\ delivered[i] \in CipherState
      BY <1>1, <1>5
  <2>2. \A i \in DOMAIN delivered' : before(delivered'[i], recvCipher')
      BY <1>1, <1>2, <1>3, <1>5, <2>1
  <2>3. \A i, j \in DOMAIN delivered' : i < j => before(delivered'[i], delivered'[j])
    <3> SUFFICES ASSUME NEW i \in DOMAIN delivered', NEW j \in DOMAIN delivered', i < j
                 PROVE  before(delivered'[i], delivered'[j])
        OBVIOUS
    <3>1. i \in DOMAIN delivered
        BY <2>1
    <3>2. j \in DOMAIN delivered \/ j = Len(delivered) + 1
        BY <2>1
    <3> QED
        BY <1>1, <2>1, <3>1, <3>2
  <2> QED
      BY <1>2, <1>5, <2>1, <2>2, <2>3 DEF InOrder, DeliveredOrdered, before
<1> QED
    BY <1>4, <1>5 DEF Receives

=============================================================================
