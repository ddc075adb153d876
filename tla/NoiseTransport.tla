---------------------------- MODULE NoiseTransport ----------------------------
(***************************************************************************)
(* One direction of a noise connection after the handshake: cipherState,   *)
(* WriteMessage, Flush, ReadHeader and ReadBody of mailbox/noise.go and    *)
(* Read and Write of NoiseConn in mailbox/tcp_noise_conn.go.               *)
(*                                                                         *)
(* A message is two ciphertexts, the length and the body. The underlying   *)
(* connection is a stream of bytes; a write may be cut short by a timeout  *)
(* and then continued by Flush, a read may time out in the middle of a     *)
(* ciphertext. A byte knows the key and nonce it was sealed with, its      *)
(* index and the length it stands for; keys are numbered by rotations, as  *)
(* both sides ratchet them from the same salt and key.                     *)
(***************************************************************************)
EXTENDS Naturals, Sequences

CONSTANTS
    macSize,
    lengthHeaderSize,
    keyRotationInterval,
    MaxUint16,      \* largest message
    ReadTimeouts,   \* the application sets read deadlines
    MaxSeals,       \* bound on the ciphertexts written
    MaxWrite        \* bound on the bytes of one call of Write

ASSUME TransportAssumption ==
    /\ {macSize, lengthHeaderSize, MaxUint16} \subseteq Nat \ {0}
    /\ keyRotationInterval \in Nat \ {0}
    /\ ReadTimeouts \in BOOLEAN /\ {MaxSeals, MaxWrite} \subseteq Nat

encHeaderSize == lengthHeaderSize + macSize

VARIABLES
    sendCipher, recvCipher, \* cipherState: [key, nonce]
    nextHeaderSend, nextBodySend,   \* bytes of the buffered message left to write
    buffered,       \* the buffered message: [len, header, body], the two the
                    \* cipherStates its ciphertexts were sealed with
    todo,           \* bytes the current call of Write has still to chunk
    reported,       \* plaintext bytes Flush has returned for the buffered message
    wire,
    reader,         \* where ReadMessage is: [at, len]
    readBuf,        \* bytes in the read buffer of NoiseConn
    seals,          \* history: number of ciphertexts
    sent, delivered,\* history: bodies sealed, bodies opened
    failed          \* history: a ciphertext did not open

sendVars == <<sendCipher, nextHeaderSend, nextBodySend, buffered, todo,
              reported, seals, sent>>
recvVars == <<recvCipher, reader, readBuf, delivered, failed>>
vars == <<sendVars, wire, recvVars>>

Fresh == [key |-> 0, nonce |-> 0]
Header == [at |-> "header", len |-> 0]

\* split has given both sides the same key and salt.
Init ==
    /\ sendCipher = Fresh /\ recvCipher = Fresh
    /\ nextHeaderSend = 0 /\ nextBodySend = 0
    /\ buffered = [len |-> 0, header |-> Fresh, body |-> Fresh]
    /\ todo = 0 /\ reported = 0 /\ wire = <<>>
    /\ reader = Header /\ readBuf = 0
    /\ seals = 0 /\ sent = <<>> /\ delivered = <<>> /\ failed = FALSE

-----------------------------------------------------------------------------
(***************************************************************************)
(* cipherState.                                                            *)
(***************************************************************************)

\* The next key is derived from the salt and the key before; the nonce starts
\* again.
rotateKey(c) == [key |-> c.key + 1, nonce |-> 0]

\* Slip: the key stays the same when the nonce starts again.
advanceNoRatchet(c) ==
    IF c.nonce + 1 = keyRotationInterval THEN [c EXCEPT !.nonce = 0]
    ELSE [c EXCEPT !.nonce = @ + 1]

\* The deferred function of Encrypt and Decrypt: it increments the nonce, also
\* if the ciphertext did not open, and rotates the key.
advance(c) ==
    IF c.nonce + 1 = keyRotationInterval THEN rotateKey(c)
    ELSE [c EXCEPT !.nonce = @ + 1]

\* Bytes first .. first + n - 1 of a ciphertext of size bytes.
Bytes(c, part, len, size, first, n) ==
    [j \in 1 .. n |-> [cipher |-> c, part |-> part, len |-> len, size |-> size,
                       index |-> first + j - 1]]

\* Open succeeds on exactly the bytes that were sealed under this state. There
\* is no associated data, so it does not tell a header from a body.
Opens(bytes, c) ==
    \A j \in DOMAIN bytes :
        bytes[j].cipher = c /\ bytes[j].index = j /\ bytes[j].size = Len(bytes)

-----------------------------------------------------------------------------
(***************************************************************************)
(* Writing.                                                                *)
(***************************************************************************)

Flushed == nextHeaderSend = 0 /\ nextBodySend = 0

\* Slip: only the header is looked at.
mayWriteHeaderOnly(len) == len <= MaxUint16 /\ nextHeaderSend = 0

\* WriteMessage returns an error for a message that is too long or while the
\* one before is not flushed.
mayWrite(len) == len <= MaxUint16 /\ Flushed

\* Slip: the bytes of the MAC count.
plainWrittenWithMAC(n, left) == n

\* The three cases of Flush: n bytes of the body were written, left are left.
plainWritten(n, left) ==
    CASE n + left > macSize /\ left <= macSize -> n - (macSize - left)
      [] n + left > macSize /\ left > macSize -> n
      [] OTHER -> 0

\* Flush writes the rest of the header and then of the body; k bytes get
\* through, and fewer than all of them come with an error. header and body are
\* the bytes left before, b is the message, old what was returned before.
flush(k, header, body, b, old) ==
    LET h == IF k < header THEN k ELSE header
        n == k - h
    IN  /\ nextHeaderSend' = header - h
        /\ nextBodySend' = body - n
        /\ wire' = wire \o Bytes(b.header, "header", b.len, encHeaderSize,
                                 encHeaderSize - header + 1, h)
                        \o Bytes(b.body, "body", b.len, b.len + macSize,
                                 b.len + macSize - body + 1, n)
        /\ reported' = IF header = h /\ body > 0
                       THEN old + plainWritten(n, body - n) ELSE old

\* WriteMessage and Flush, as each step of Write does: the two ciphertexts are
\* sealed, k bytes of them are written.
writeAndFlush(len, k) ==
    LET b == [len |-> len, header |-> sendCipher, body |-> advance(sendCipher)]
    IN  /\ mayWrite(len)
        /\ seals + 2 <= MaxSeals /\ seals' = seals + 2
        /\ sendCipher' = advance(advance(sendCipher))
        /\ buffered' = b /\ sent' = Append(sent, b.body)
        /\ flush(k, encHeaderSize, len + macSize, b, 0)

Total(len) == encHeaderSize + len + macSize

\* The length of the next chunk of a Write with n bytes left.
chunkSize(n) == IF n <= MaxUint16 THEN n ELSE MaxUint16

\* The first chunk of NoiseConn.Write; if not all of it gets through Write
\* returns with the error.
Write(n, k) ==
    /\ todo = 0
    /\ writeAndFlush(chunkSize(n), k)
    /\ todo' = IF k = Total(chunkSize(n)) THEN n - chunkSize(n) ELSE 0
    /\ UNCHANGED recvVars

\* The loop of Write.
WriteNext(k) ==
    /\ todo > 0
    /\ writeAndFlush(chunkSize(todo), k)
    /\ todo' = IF k = Total(chunkSize(todo)) THEN todo - chunkSize(todo) ELSE 0
    /\ UNCHANGED recvVars

\* Flush is called again after a timeout.
Flush(k) ==
    /\ ~Flushed
    /\ flush(k, nextHeaderSend, nextBodySend, buffered, reported)
    /\ UNCHANGED <<sendCipher, buffered, todo, seals, sent, recvVars>>

-----------------------------------------------------------------------------
(***************************************************************************)
(* Reading.                                                                *)
(***************************************************************************)

Front(n) == SubSeq(wire, 1, n)
Drop(n) == SubSeq(wire, n + 1, Len(wire))

\* The length in an opened header; any if it is really a body.
Lengths(byte) == IF byte.part = "header" THEN {byte.len} ELSE 0 .. MaxUint16

\* ReadHeader; NoiseConn.Read calls it when its buffer is empty.
ReadHeader ==
    /\ reader.at = "header" /\ readBuf = 0 /\ Len(wire) >= encHeaderSize
    /\ wire' = Drop(encHeaderSize)
    /\ recvCipher' = advance(recvCipher)
    /\ IF Opens(Front(encHeaderSize), recvCipher)
       THEN /\ \E len \in Lengths(wire[1]) : reader' = [at |-> "body", len |-> len]
            /\ UNCHANGED failed
       ELSE failed' = TRUE /\ UNCHANGED reader
    /\ UNCHANGED <<sendVars, readBuf, delivered>>

\* ReadBody, with the length from the header.
ReadBody ==
    LET n == reader.len + macSize
    IN  /\ reader.at = "body" /\ Len(wire) >= n
        /\ wire' = Drop(n)
        /\ reader' = Header
        /\ recvCipher' = advance(recvCipher)
        /\ IF Opens(Front(n), recvCipher)
           THEN /\ delivered' = Append(delivered, recvCipher)
                /\ readBuf' = reader.len
                /\ UNCHANGED failed
           ELSE failed' = TRUE /\ UNCHANGED <<delivered, readBuf>>
        /\ UNCHANGED sendVars

\* ReadFull times out: what it has read of the header or body is gone, and the
\* next Read starts with a header.
ReadTimeout ==
    LET need == IF reader.at = "header" THEN encHeaderSize ELSE reader.len + macSize
    IN  /\ ReadTimeouts /\ readBuf = 0 /\ Len(wire) < need
        /\ wire' = <<>> /\ reader' = Header
        /\ UNCHANGED <<sendVars, recvCipher, readBuf, delivered, failed>>

\* Read takes up to n bytes from the buffer.
Read(n) ==
    /\ readBuf > 0
    /\ readBuf' = IF n < readBuf THEN readBuf - n ELSE 0
    /\ UNCHANGED <<sendVars, wire, recvCipher, reader, delivered, failed>>

WriteStep ==
    \/ \E n \in 0 .. MaxWrite : \E k \in 0 .. Total(chunkSize(n)) : Write(n, k)
    \/ \E k \in 0 .. Total(chunkSize(todo)) : WriteNext(k)
    \/ \E k \in 0 .. nextHeaderSend + nextBodySend : Flush(k)

ReadStep == ReadHeader \/ ReadBody \/ \E n \in 1 .. MaxUint16 : Read(n)

Next == WriteStep \/ ReadStep \/ ReadTimeout

Spec == Init /\ [][Next]_vars

\* The application reads on, and calls Flush until the message is out, each
\* call of which writes all in the end.
FairSpec ==
    /\ Spec
    /\ WF_vars(ReadStep)
    /\ SF_vars(Flush(nextHeaderSend + nextBodySend))

-----------------------------------------------------------------------------
(***************************************************************************)
(* Properties.                                                             *)
(***************************************************************************)

CipherState == [key : Nat, nonce : Nat]
Byte == [cipher : CipherState, part : {"header", "body"}, len : 0 .. MaxUint16,
         size : Nat, index : Nat]

\* Types, and the nonce below the interval after which the key is rotated.
TypeOK ==
    /\ sendCipher \in CipherState /\ recvCipher \in CipherState
    /\ sendCipher.nonce < keyRotationInterval
    /\ recvCipher.nonce < keyRotationInterval
    /\ nextHeaderSend \in 0 .. encHeaderSize
    /\ buffered \in [len : 0 .. MaxUint16, header : CipherState, body : CipherState]
    /\ nextBodySend \in 0 .. buffered.len + macSize
    /\ todo \in Nat /\ reported \in Nat /\ readBuf \in Nat /\ seals \in Nat
    /\ wire \in Seq(Byte)
    /\ reader \in [at : {"header", "body"}, len : 0 .. MaxUint16]
    /\ sent \in Seq(CipherState)

\* rotateKey: key and nonce together count the ciphertexts, so no ciphertext
\* reuses a key and nonce of an earlier one.
SealsCounted == seals = sendCipher.key * keyRotationInterval + sendCipher.nonce

\* The bodies of different messages have different keys or nonces.
SealsUnique == \A i, j \in DOMAIN sent : i # j => sent[i] # sent[j]

\* Flush: over all its calls for one message it has returned the number of
\* plaintext bytes of it that are on the wire.
FlushAccounts ==
    reported = IF nextHeaderSend > 0 THEN 0
               ELSE buffered.len - (IF nextBodySend > macSize
                                    THEN nextBodySend - macSize ELSE 0)

\* Read: what is delivered was opened in the order it was sealed, and never
\* twice, whatever reads have timed out.
DeliveredOrdered ==
    \A i, j \in DOMAIN delivered : i < j =>
        \/ delivered[i].key < delivered[j].key
        \/ delivered[i].key = delivered[j].key /\ delivered[i].nonce < delivered[j].nonce

\* If nothing is lost, no ciphertext fails to open: both sides advance nonce
\* and key in step, across rotations and cut writes.
NothingFails == ~failed

\* WriteMessage and Flush: key and nonce count the ciphertexts across rotations,
\* no two messages are sealed with the same ones, and the counts that Flush
\* returns add up.
TransportInv == TypeOK /\ SealsCounted /\ SealsUnique /\ FlushAccounts

=============================================================================
