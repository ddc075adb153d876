------------------------------- MODULE Chunking -------------------------------
(***************************************************************************)
(* The way of a Write on a mailbox connection to the Read of the other     *)
(* side: connKit puts the bytes into a MsgData (mailbox/interface.go),     *)
(* GoBackNConn.Send splits it into packets and Recv puts it together again *)
(* (gbn/gbn_conn.go). Between Send and Recv is the channel that GoBackN    *)
(* is shown to implement. Send and Recv have timeouts, which may fire in   *)
(* the middle of a message; Read has a deadline.                           *)
(***************************************************************************)
EXTENDS Naturals, Sequences

CONSTANTS
    maxChunkSize,   \* payload of a packet, 0: packets are not split
    baseLength,     \* header of a MsgData
    Lengths,        \* of the slices that are written
    ReadSize,       \* of the slice given to Read
    n,              \* the window of the link
    MaxMsgs

VARIABLES
    msgs,           \* the lengths of the messages sent, at least in part
    sent,           \* the bytes that were written with them (a history variable)
    left,           \* what Send has not sent yet
    written, read,  \* packets put into the link and taken out of it
    receiving,      \* a call of Recv is waiting
    b,              \* what it has so far
    recvBuffer,
    stream,         \* the bytes that Read has returned
    recvTimeout,    \* whether a read deadline is set
    ticker,         \* whether the Recv that is waiting has a timer
    torn,           \* whether a timeout fell into the middle of a message
    quit

vars == <<msgs, sent, left, written, read, receiving, b, recvBuffer,
          stream, recvTimeout, ticker, torn, quit>>
link == <<written, read>>
sender == <<msgs, sent, left>>
receiver == <<receiving, b, recvBuffer, stream, recvTimeout, ticker>>

\* A byte is known by its message, its place in it and the message's length.
Serialize(k, len) ==
    [j \in 1 .. baseLength + len |-> [msg |-> k, at |-> j, len |-> len]]

Packet == [Payload : Seq([msg : 1 .. MaxMsgs, at : Nat, len : Nat]),
           FinalChunk : BOOLEAN]

Channel == INSTANCE FifoChannel WITH Value <- Packet, Cap <- n

Init ==
    /\ msgs = <<>> /\ sent = <<>> /\ left = <<>> /\ Channel!Init
    /\ receiving = FALSE /\ b = <<>> /\ recvBuffer = <<>> /\ stream = <<>>
    /\ recvTimeout = FALSE /\ ticker = FALSE /\ torn = FALSE
    /\ quit = FALSE

-----------------------------------------------------------------------------
(***************************************************************************)
(* Sending.                                                                *)
(***************************************************************************)

total == baseLength + msgs[Len(msgs)]

Write(len) ==
    /\ ~quit /\ left = <<>> /\ Len(msgs) < MaxMsgs
    /\ msgs' = Append(msgs, len)
    /\ left' = Serialize(Len(msgs) + 1, len)
    /\ sent' = sent \o SubSeq(left', baseLength + 1, baseLength + len)
    /\ UNCHANGED <<link, receiver, torn, quit>>

\* Slip: the last packet is marked only if it is shorter than the others.
chunkShort(bytes) ==
    IF maxChunkSize = 0 \/ Len(bytes) < maxChunkSize
    THEN [Payload |-> bytes, FinalChunk |-> TRUE]
    ELSE [Payload |-> SubSeq(bytes, 1, maxChunkSize), FinalChunk |-> FALSE]

chunk(bytes) ==
    IF maxChunkSize = 0 \/ Len(bytes) <= maxChunkSize
    THEN [Payload |-> bytes, FinalChunk |-> TRUE]
    ELSE [Payload |-> SubSeq(bytes, 1, maxChunkSize), FinalChunk |-> FALSE]

sendPacket ==
    /\ left # <<>>
    /\ LET packet == chunk(left)
       IN  /\ Channel!Put(packet)
           /\ left' = IF packet.FinalChunk THEN <<>>
                      ELSE SubSeq(left, Len(packet.Payload) + 1, Len(left))
    /\ UNCHANGED <<msgs, sent, receiver, torn, quit>>

\* Nothing of a message that fails at its first packet is sent.
errSendTimeout ==
    /\ left # <<>> /\ left' = <<>>
    /\ IF Len(left) = total
       THEN /\ msgs' = SubSeq(msgs, 1, Len(msgs) - 1)
            /\ sent' = SubSeq(sent, 1, Len(sent) - msgs[Len(msgs)])
            /\ UNCHANGED torn
       ELSE torn' = TRUE /\ UNCHANGED <<msgs, sent>>
    /\ UNCHANGED <<link, receiver, quit>>

-----------------------------------------------------------------------------
(***************************************************************************)
(* Receiving.                                                              *)
(***************************************************************************)

SetReadDeadline(set) ==
    /\ recvTimeout' = set
    /\ UNCHANGED <<sender, link, receiving, b, recvBuffer, stream, ticker, torn,
                   quit>>

\* Read asks for the next message.
Recv ==
    /\ ~quit /\ ~receiving /\ recvBuffer = <<>>
    /\ receiving' = TRUE /\ ticker' = recvTimeout
    /\ UNCHANGED <<sender, link, b, recvBuffer, stream, recvTimeout, torn, quit>>

\* The length in the first bytes. Bytes that are not a header say anything.
payloadLens(bytes) == IF bytes[1].at = 1 THEN {bytes[1].len} ELSE Lengths

\* Slip: the payload starts one byte early.
payloadEarly(bytes, len) ==
    IF Len(bytes) < baseLength + len THEN <<>>
    ELSE SubSeq(bytes, baseLength, baseLength + len - 1)

\* The payload, or nothing when Deserialize returns io.EOF.
payload(bytes, len) ==
    IF Len(bytes) < baseLength + len THEN <<>>
    ELSE SubSeq(bytes, baseLength + 1, baseLength + len)

recvPacket ==
    /\ receiving
    /\ Channel!Get
    /\ LET msg == written[Len(read) + 1]
           bytes == b \o msg.Payload
       IN  IF msg.FinalChunk
           THEN /\ receiving' = FALSE /\ b' = <<>>
                /\ \E len \in payloadLens(bytes) :
                       recvBuffer' = payload(bytes, len)
           ELSE b' = bytes /\ UNCHANGED <<receiving, recvBuffer>>
    /\ UNCHANGED <<sender, stream, recvTimeout, ticker, torn, quit>>

\* The packets that Recv has taken are gone.
errRecvTimeout ==
    /\ receiving /\ ticker
    /\ receiving' = FALSE /\ b' = <<>>
    /\ torn' = (torn \/ b # <<>>)
    /\ UNCHANGED <<sender, link, recvBuffer, stream, recvTimeout, ticker, quit>>

smaller(x, y) == IF x < y THEN x ELSE y

Read ==
    /\ ~receiving /\ recvBuffer # <<>>
    /\ LET k == smaller(ReadSize, Len(recvBuffer))
       IN  /\ stream' = stream \o SubSeq(recvBuffer, 1, k)
           /\ recvBuffer' = SubSeq(recvBuffer, k + 1, Len(recvBuffer))
    /\ UNCHANGED <<sender, link, receiving, b, recvTimeout, ticker, torn, quit>>

\* The connection ends: Send and Recv return.
exited ==
    /\ ~quit /\ quit' = TRUE
    /\ left' = <<>> /\ receiving' = FALSE /\ b' = <<>>
    /\ UNCHANGED <<msgs, sent, link, recvBuffer, stream, recvTimeout, ticker, torn>>

Next ==
    \/ \E len \in Lengths : Write(len)
    \/ sendPacket \/ errSendTimeout
    \/ \E set \in BOOLEAN : SetReadDeadline(set)
    \/ Recv \/ recvPacket \/ errRecvTimeout \/ Read \/ exited

Spec == Init /\ [][Next]_vars

\* The reader calls Read again and again; timers fire; Recv does not pass over
\* a packet for ever.
FairSpec ==
    /\ Spec /\ WF_vars(sendPacket) /\ WF_vars(Recv) /\ WF_vars(Read)
    /\ SF_vars(recvPacket) /\ WF_vars(errRecvTimeout)

-----------------------------------------------------------------------------
(***************************************************************************)
(* Properties.                                                             *)
(***************************************************************************)

\* Types.
TypeOK ==
    /\ msgs \in Seq(Lengths) /\ Len(msgs) <= MaxMsgs
    /\ Len(written) - Len(read) \in 0 .. n
    /\ \A i \in 1 .. Len(written) :
           /\ Len(written[i].Payload) > 0
           /\ maxChunkSize # 0 => Len(written[i].Payload) <= maxChunkSize
    /\ receiving \in BOOLEAN /\ recvTimeout \in BOOLEAN /\ ticker \in BOOLEAN
    /\ torn \in BOOLEAN /\ quit \in BOOLEAN
    /\ recvBuffer # <<>> => ~receiving

\* Send, Recv and Read: the bytes read are the bytes written, in order and
\* without a gap, unless a timeout fell into the middle of a message. Timeouts
\* between messages do no harm.
StreamIntact ==
    \/ torn
    \/ Len(stream) <= Len(sent) /\ stream = SubSeq(sent, 1, Len(stream))

\* Everything that was sent is read in the end.
AllRead == msgs # <<>> ~> (torn \/ quit \/ stream = sent)

=============================================================================
