------------------------------ MODULE GoBackN ------------------------------
(***************************************************************************)
(* One direction of an established GoBackNConn: the sending endpoint's     *)
(* sendPacketsForever goroutine and send queue, the part of its            *)
(* receivePacketsForever goroutine that handles ACKs and NACKs, and the    *)
(* part of the peer's receivePacketsForever goroutine that handles data.   *)
(* The other direction is a second, independent copy; it meets this one    *)
(* only in the order in which one goroutine takes its packets.             *)
(*                                                                         *)
(* The transport is the pair of FIFO streams that sendToStream and         *)
(* recvFromStream give: it may drop a message, deliver it twice in a row   *)
(* and hold it for any time, and a send blocks while a stream is full.     *)
(*                                                                         *)
(* A packet is identified by its position in the sequence of packets       *)
(* handed to addPacket. Positions (id, pos) are history: no guard reads    *)
(* them. Durations are flags that the passage of time flips.               *)
(***************************************************************************)
EXTENDS GBNWindow, Sequences

CONSTANTS
    MaxPackets,     \* bound on the packets handed to addPacket
    PingPositions,  \* positions at which such a packet may be a ping
    DataCap,        \* capacity of the stream that carries data
    CtlCap,         \* capacity of the stream that carries ACKs and NACKs
    MaxDups,        \* bound on the messages the transport duplicates
    PeerTraffic     \* the peer also sends data of its own

ASSUME BoundsAssumption ==
    /\ MaxPackets \in Nat /\ PingPositions \subseteq Nat /\ MaxDups \in Nat
    /\ DataCap \in Nat \ {0} /\ CtlCap \in Nat \ {0}
    /\ PeerTraffic \in BOOLEAN

VARIABLES
    sequenceBase, sequenceTop, content,     \* queue
    sendPc,             \* where the send goroutine is in sendPacketsForever
    resendPc,           \* where it is in queue.resend
    resendBase, resendTop,                  \* local base and top of resend
    resendSignal,       \* the one-place channel resendSignal holds a value
    resendTick,         \* a tick of resendTicker is waiting in its channel
    resentRecently,     \* lastResend is less than a handshakeTimeout ago
    recvSeq,
    lastNackSeq,
    nackRecent,         \* lastNackTime is less than 2 * resendTimeout ago
    recvPc,             \* where the peer's receive goroutine is
    recvDataChan,       \* packets waiting for Recv
    dataStream, ctlStream,                  \* the transport
    dups,               \* history: messages duplicated
    sent,               \* history: packets handed to addPacket
    acked,              \* history: number of packets the queue released
    accepted,           \* history: packets the receive goroutine accepted
    received            \* history: packets taken by Recv

queueVars == <<sequenceBase, sequenceTop, content, sent, acked>>
resendVars == <<resendPc, resendBase, resendTop, resentRecently>>
signalVars == <<resendSignal, resendTick>>
recvVars == <<recvSeq, lastNackSeq, nackRecent, recvPc, accepted>>
appVars == <<recvDataChan, received>>
streamVars == <<dataStream, ctlStream, dups>>
vars == <<queueVars, sendPc, resendVars, signalVars, recvVars, appVars,
          streamVars>>

PacketData == [seq : Seqs, id : 0..MaxPackets, ping : BOOLEAN]
NoPacket == [seq |-> 0, id |-> 0, ping |-> FALSE]
CtlMsg == [type : {"ACK", "NACK"}, seq : Seqs, pos : Nat]

Init ==
    /\ sequenceBase = 0 /\ sequenceTop = 0
    /\ content = [i \in Seqs |-> NoPacket]
    /\ sendPc = "select"
    /\ resendPc = "none" /\ resendBase = 0 /\ resendTop = 0
    /\ resendSignal = FALSE /\ resendTick = FALSE /\ resentRecently = FALSE
    /\ recvSeq = 0 /\ lastNackSeq = 0 /\ nackRecent = FALSE
    /\ recvPc = "recv" /\ recvDataChan = <<>>
    /\ dataStream = <<>> /\ ctlStream = <<>> /\ dups = 0
    /\ sent = <<>> /\ acked = 0 /\ accepted = <<>> /\ received = <<>>

-----------------------------------------------------------------------------
(***************************************************************************)
(* The send goroutine.                                                     *)
(***************************************************************************)
Running(pc) == sendPc = pc /\ resendPc = "none"

\* A packet from Send (through sendDataChan) or from the ping ticker enters
\* the queue: queue.addPacket.
addPacket(ping) ==
    /\ Running("select")
    /\ Len(sent) < MaxPackets
    /\ ping => Len(sent) + 1 \in PingPositions
    /\ LET pkt == [seq |-> sequenceTop, id |-> Len(sent) + 1, ping |-> ping]
       IN  /\ sent' = Append(sent, pkt)
           /\ content' = [content EXCEPT ![sequenceTop] = pkt]
    /\ sequenceTop' = succ(sequenceTop)
    /\ sendPc' = "send"
    /\ UNCHANGED <<sequenceBase, acked, resendVars, signalVars, recvVars,
                   appVars, streamVars>>

\* The new packet is written to the stream.
sendNewPacket ==
    /\ Running("send")
    /\ Len(dataStream) < DataCap
    /\ dataStream' = Append(dataStream, sent[Len(sent)])
    /\ sendPc' = "check"
    /\ UNCHANGED <<queueVars, resendVars, signalVars, recvVars, appVars,
                   ctlStream, dups>>

\* The head of the inner loop: more data only while the window has room.
checkWindow ==
    /\ Running("check")
    /\ sendPc' = IF size(sequenceBase, sequenceTop) < N THEN "select" ELSE "park"
    /\ UNCHANGED <<queueVars, resendVars, signalVars, recvVars, appVars,
                   streamVars>>

\* From here on the goroutine is blocked in the inner select, and a send on
\* the unbuffered receivedACKSignal finds it; before, such a send is lost.
park ==
    /\ Running("park")
    /\ sendPc' = "full"
    /\ UNCHANGED <<queueVars, resendVars, signalVars, recvVars, appVars,
                   streamVars>>

\* resendQueue after queue.resend has returned: the ticker is reset and its
\* channel drained; the outer loop continues, the inner one checks again.
resendReturns ==
    /\ resendPc' = "none"
    /\ resendTick' = FALSE
    /\ sendPc' = IF sendPc = "full" THEN "check" ELSE sendPc

\* Either select takes the resend signal or a tick and calls queue.resend,
\* which finds the queue not empty.
resend ==
    /\ Running("select") \/ Running("full")
    /\ \/ resendSignal /\ resendSignal' = FALSE /\ UNCHANGED resendTick
       \/ resendTick /\ resendTick' = FALSE /\ UNCHANGED resendSignal
    /\ ~resentRecently /\ size(sequenceBase, sequenceTop) # 0
    /\ resentRecently' = TRUE
    /\ resendPc' = "init"
    /\ UNCHANGED <<queueVars, sendPc, resendBase, resendTop, recvVars, appVars,
                   streamVars>>

\* queue.resend returns at once: it ran recently, or the queue is empty.
resendSkipped ==
    /\ Running("select") \/ Running("full")
    /\ \/ resendSignal /\ resendSignal' = FALSE
       \/ resendTick /\ UNCHANGED resendSignal
    /\ resentRecently \/ size(sequenceBase, sequenceTop) = 0
    /\ resendReturns
    /\ UNCHANGED <<queueVars, resendBase, resendTop, resentRecently, recvVars,
                   appVars, streamVars>>

\* The snapshot of base and top; ACKs may have emptied the queue since. (The
\* two are read under different locks, but only this goroutine moves the top.)
initResend ==
    /\ resendPc = "init"
    /\ resendBase' = sequenceBase /\ resendTop' = sequenceTop
    /\ IF sequenceBase = sequenceTop
       THEN resendReturns
       ELSE resendPc' = "loop" /\ UNCHANGED <<sendPc, resendTick>>
    /\ UNCHANGED <<queueVars, resentRecently, resendSignal, recvVars, appVars,
                   streamVars>>

\* Slip: the loop sends the slot after the one its cursor is at.
resendPacketAhead ==
    /\ resendPc = "loop"
    /\ Len(dataStream) < DataCap
    /\ dataStream' = Append(dataStream, content[succ(resendBase)])
    /\ resendBase' = succ(resendBase)
    /\ resendPc' = IF succ(resendBase) = resendTop THEN "sync" ELSE "loop"
    /\ UNCHANGED <<queueVars, sendPc, resendTop, resentRecently, signalVars,
                   recvVars, appVars, ctlStream, dups>>

\* One iteration of the resend loop. Its cursor is the snapshot, so packets
\* that have been acknowledged meanwhile are sent again all the same.
resendPacket ==
    /\ resendPc = "loop"
    /\ Len(dataStream) < DataCap
    /\ dataStream' = Append(dataStream, content[resendBase])
    /\ resendBase' = succ(resendBase)
    /\ resendPc' = IF succ(resendBase) = resendTop THEN "sync" ELSE "loop"
    /\ UNCHANGED <<queueVars, sendPc, resendTop, resentRecently, signalVars,
                   recvVars, appVars, ctlStream, dups>>

\* syncer.waitForSync returns. When it does is the subject of module Syncer;
\* it always may, and because of its timeout it always does.
waitForSync ==
    /\ resendPc = "sync"
    /\ resendReturns
    /\ UNCHANGED <<queueVars, resendBase, resendTop, resentRecently,
                   resendSignal, recvVars, appVars, streamVars>>

\* The steps the goroutine takes without waiting for new data.
SendWork ==
    \/ sendNewPacket \/ checkWindow \/ park
    \/ resend \/ resendSkipped \/ initResend \/ resendPacket \/ waitForSync

SendGoroutine == SendWork \/ \E ping \in BOOLEAN : addPacket(ping)

-----------------------------------------------------------------------------
(***************************************************************************)
(* The receive goroutine of the sending endpoint. Every packet resets the  *)
(* resend ticker, which also discards a waiting tick.                      *)
(***************************************************************************)
\* The non-blocking send on receivedACKSignal: it wakes the send goroutine if
\* that is blocked in the inner select (and not already taking another case).
signalACK ==
    \/ Running("full") /\ sendPc' = "check"
    \/ ~(Running("full") /\ ~resendTick /\ ~resendSignal) /\ UNCHANGED sendPc

moveBase(base) ==
    /\ sequenceBase' = base
    /\ acked' = acked + size(sequenceBase, base)

recvACK ==
    /\ ctlStream # <<>> /\ Head(ctlStream).type = "ACK"
    /\ LET seq == Head(ctlStream).seq
       IN  /\ moveBase(ackedBase(sequenceBase, sequenceTop, seq))
           /\ IF ackValid(sequenceBase, sequenceTop, seq)
              THEN signalACK
              ELSE UNCHANGED sendPc
    /\ ctlStream' = Tail(ctlStream)
    /\ resendTick' = FALSE
    /\ UNCHANGED <<sequenceTop, content, sent, resendVars, resendSignal, recvVars,
                   appVars, dataStream, dups>>

recvNACK ==
    /\ ctlStream # <<>> /\ Head(ctlStream).type = "NACK"
    /\ LET seq == Head(ctlStream).seq
           shouldResend == nackResend(sequenceBase, sequenceTop, seq)
           bumped == nackBumped(sequenceBase, sequenceTop, seq)
       IN  /\ moveBase(nackedBase(sequenceBase, sequenceTop, seq))
           /\ resendSignal' = (resendSignal \/ shouldResend)
           /\ IF shouldResend /\ bumped THEN signalACK ELSE UNCHANGED sendPc
    /\ ctlStream' = Tail(ctlStream)
    /\ resendTick' = FALSE
    /\ UNCHANGED <<sequenceTop, content, sent, resendVars, recvVars, appVars,
                   dataStream, dups>>

\* A packet of the other direction: here, all it does is reset the ticker.
recvPeerPacket ==
    /\ PeerTraffic /\ resendTick
    /\ resendTick' = FALSE
    /\ UNCHANGED <<queueVars, sendPc, resendVars, resendSignal, recvVars, appVars,
                   streamVars>>

-----------------------------------------------------------------------------
(***************************************************************************)
(* The receive goroutine of the other endpoint, and its Recv.              *)
(***************************************************************************)
\* Slip: a ping is handed to the application like any other packet.
recvExpectedPings ==
    /\ recvPc = "recv" /\ dataStream # <<>>
    /\ LET m == Head(dataStream)
       IN  /\ m.seq = recvSeq
           /\ accepted' = Append(accepted, m)
           /\ ctlStream' = Append(ctlStream, [type |-> "ACK", seq |-> m.seq,
                                              pos |-> Len(accepted) + 1])
    /\ Len(ctlStream) < CtlCap
    /\ recvPc' = "deliver"
    /\ recvSeq' = succ(recvSeq)
    /\ dataStream' = Tail(dataStream)
    /\ UNCHANGED <<queueVars, sendPc, resendVars, signalVars, lastNackSeq,
                   nackRecent, appVars, dups>>

\* The expected packet: acknowledge it, then move recvSeq. A ping goes no
\* further; other packets are still to be handed to recvDataChan.
recvExpected ==
    /\ recvPc = "recv" /\ dataStream # <<>>
    /\ LET m == Head(dataStream)
       IN  /\ m.seq = recvSeq
           /\ accepted' = Append(accepted, m)
           /\ ctlStream' = Append(ctlStream, [type |-> "ACK", seq |-> m.seq,
                                              pos |-> Len(accepted) + 1])
           /\ recvPc' = IF m.ping THEN "recv" ELSE "deliver"
    /\ Len(ctlStream) < CtlCap
    /\ recvSeq' = succ(recvSeq)
    /\ dataStream' = Tail(dataStream)
    /\ UNCHANGED <<queueVars, sendPc, resendVars, signalVars, lastNackSeq,
                   nackRecent, appVars, dups>>

\* Any other packet: a NACK for the expected one.
recvUnexpected ==
    /\ recvPc = "recv" /\ dataStream # <<>>
    /\ Head(dataStream).seq # recvSeq
    /\ ~(lastNackSeq = recvSeq /\ nackRecent)
    /\ Len(ctlStream) < CtlCap
    /\ ctlStream' = Append(ctlStream, [type |-> "NACK", seq |-> recvSeq,
                                       pos |-> Len(accepted)])
    /\ lastNackSeq' = recvSeq
    /\ nackRecent' = TRUE
    /\ dataStream' = Tail(dataStream)
    /\ UNCHANGED <<queueVars, sendPc, resendVars, signalVars, recvSeq, recvPc,
                   accepted, appVars, dups>>

\* The same NACK was sent recently: nothing is sent.
recvUnexpectedQuietly ==
    /\ recvPc = "recv" /\ dataStream # <<>>
    /\ Head(dataStream).seq # recvSeq
    /\ lastNackSeq = recvSeq /\ nackRecent
    /\ dataStream' = Tail(dataStream)
    /\ UNCHANGED <<queueVars, sendPc, resendVars, signalVars, recvVars, appVars,
                   ctlStream, dups>>

RecvData == recvExpected \/ recvUnexpected \/ recvUnexpectedQuietly

\* The packet goes to recvDataChan, which holds n packets.
deliver ==
    /\ recvPc = "deliver"
    /\ Len(recvDataChan) < N
    /\ recvDataChan' = Append(recvDataChan, accepted[Len(accepted)])
    /\ recvPc' = "recv"
    /\ UNCHANGED <<queueVars, sendPc, resendVars, signalVars, recvSeq, lastNackSeq,
                   nackRecent, accepted, received, streamVars>>

\* One receive from recvDataChan in Recv.
Recv ==
    /\ recvDataChan # <<>>
    /\ received' = Append(received, Head(recvDataChan))
    /\ recvDataChan' = Tail(recvDataChan)
    /\ UNCHANGED <<queueVars, sendPc, resendVars, signalVars, recvVars, streamVars>>

-----------------------------------------------------------------------------
(***************************************************************************)
(* Time and the transport.                                                 *)
(***************************************************************************)
tickResend ==
    /\ ~resendTick
    /\ resendTick' = TRUE
    /\ UNCHANGED <<queueVars, sendPc, resendVars, resendSignal, recvVars, appVars,
                   streamVars>>

\* A handshakeTimeout has passed since the last resend.
resendGateOpens ==
    /\ resentRecently
    /\ resentRecently' = FALSE
    /\ UNCHANGED <<queueVars, sendPc, resendPc, resendBase, resendTop, signalVars,
                   recvVars, appVars, streamVars>>

\* Twice the resendTimeout has passed since the last NACK.
nackGateOpens ==
    /\ nackRecent
    /\ nackRecent' = FALSE
    /\ UNCHANGED <<queueVars, sendPc, resendVars, signalVars, recvSeq, lastNackSeq,
                   recvPc, accepted, appVars, streamVars>>

loseData ==
    /\ dataStream # <<>>
    /\ dataStream' = Tail(dataStream)
    /\ UNCHANGED <<queueVars, sendPc, resendVars, signalVars, recvVars, appVars,
                   ctlStream, dups>>

loseCtl ==
    /\ ctlStream # <<>>
    /\ ctlStream' = Tail(ctlStream)
    /\ UNCHANGED <<queueVars, sendPc, resendVars, signalVars, recvVars, appVars,
                   dataStream, dups>>

duplicateData ==
    /\ dups < MaxDups
    /\ dataStream # <<>> /\ Len(dataStream) < DataCap
    /\ dataStream' = Append(dataStream, dataStream[Len(dataStream)])
    /\ dups' = dups + 1
    /\ UNCHANGED <<queueVars, sendPc, resendVars, signalVars, recvVars, appVars,
                   ctlStream>>

duplicateCtl ==
    /\ dups < MaxDups
    /\ ctlStream # <<>> /\ Len(ctlStream) < CtlCap
    /\ ctlStream' = Append(ctlStream, ctlStream[Len(ctlStream)])
    /\ dups' = dups + 1
    /\ UNCHANGED <<queueVars, sendPc, resendVars, signalVars, recvVars, appVars,
                   dataStream>>

Next ==
    \/ SendGoroutine
    \/ recvACK \/ recvNACK \/ recvPeerPacket
    \/ RecvData \/ deliver \/ Recv
    \/ tickResend \/ resendGateOpens \/ nackGateOpens
    \/ loseData \/ loseCtl \/ duplicateData \/ duplicateCtl

Spec == Init /\ [][Next]_vars

\* The goroutines keep running, timers fire, the application keeps calling
\* Recv, and the transport does not lose the same message for ever: a packet
\* (or report of a position) that is at the front again and again is received.
\* A tick is only weakly fair: a packet that arrives first discards it.
FairSpec ==
    /\ Spec
    /\ WF_vars(SendWork)
    /\ WF_vars(RecvData)
    /\ WF_vars(deliver) /\ WF_vars(Recv)
    /\ WF_vars(tickResend) /\ WF_vars(resendGateOpens) /\ WF_vars(nackGateOpens)
    /\ \A i \in 1..MaxPackets :
          []<>(dataStream # <<>> /\ Head(dataStream).id = i)
             => []<><<RecvData /\ Head(dataStream).id = i>>_vars
    /\ \A i \in 0..MaxPackets :
          SF_vars((recvACK \/ recvNACK) /\ Head(ctlStream).pos = i)

-----------------------------------------------------------------------------
(***************************************************************************)
(* Safety.                                                                 *)
(***************************************************************************)
\* Types of the queue, the cursors, the flags, the streams and the histories.
TypeOK ==
    /\ sequenceBase \in Seqs /\ sequenceTop \in Seqs
    /\ content \in [Seqs -> PacketData]
    /\ sendPc \in {"select", "send", "check", "park", "full"}
    /\ resendPc \in {"none", "init", "loop", "sync"}
    /\ resendBase \in Seqs /\ resendTop \in Seqs
    /\ resendSignal \in BOOLEAN /\ resendTick \in BOOLEAN
    /\ resentRecently \in BOOLEAN
    /\ recvSeq \in Seqs /\ lastNackSeq \in Seqs /\ nackRecent \in BOOLEAN
    /\ recvPc \in {"recv", "deliver"}
    /\ recvDataChan \in Seq(PacketData) /\ received \in Seq(PacketData)
    /\ dataStream \in Seq(PacketData) /\ ctlStream \in Seq(CtlMsg)
    /\ sent \in Seq(PacketData) /\ accepted \in Seq(PacketData)
    /\ acked \in Nat /\ dups \in Nat

\* The receive goroutine accepts exactly the packets handed to addPacket, in
\* that order and each once: no resend, loss, duplicate or wrap-around of the
\* sequence numbers makes it take an old packet for a new one
\* (receivePacketsForever, m.Seq == g.recvSeq).
AcceptedInOrder ==
    /\ Len(accepted) <= Len(sent)
    /\ \A i \in 1..Len(accepted) : accepted[i] = sent[i]

\* processACK and processNACK release a packet from the send queue only after
\* the peer has accepted it, however late the ACK or NACK arrives.
ReleasedOnlyAccepted == acked <= Len(accepted)

\* At most n packets are unreleased, and size() counts them although base and
\* top are only known modulo s.
WindowBounded ==
    /\ Len(sent) - acked <= N
    /\ size(sequenceBase, sequenceTop) = Len(sent) - acked

\* What Recv has returned, what waits in recvDataChan and what the receive
\* goroutine is about to put there.
handedOn ==
    received \o recvDataChan
        \o (IF recvPc = "deliver" THEN <<accepted[Len(accepted)]>> ELSE <<>>)

\* Recv returns the accepted packets other than pings, in order, each once: what
\* is handed on are accepted packets, none a ping, in the order in which they
\* were accepted, and none is left out.
DeliveredInOrder ==
    /\ \A k \in 1..Len(handedOn) :
          /\ handedOn[k].id \in 1..Len(accepted)
          /\ handedOn[k] = accepted[handedOn[k].id] /\ ~handedOn[k].ping
    /\ \A k, l \in 1..Len(handedOn) : k < l => handedOn[k].id < handedOn[l].id
    /\ \A i \in 1..Len(accepted) :
          ~accepted[i].ping => \E k \in 1..Len(handedOn) : handedOn[k].id = i

\* Once the application stops sending, the queue drains for good: every packet
\* handed to addPacket is accepted by the peer and released, whichever of its
\* transmissions, ACKs and NACKs are lost. "sendPacketsForever manages the
\* resending logic. It [...] manages the resending of packets if acks are not
\* received for them".
QueueDrains == <>[](acked = Len(sent))

\* The link as an abstract FIFO channel of capacity n: addPacket writes to it
\* and the accepting step of receivePacketsForever reads from it.
Fifo == INSTANCE FifoChannel
            WITH Value <- PacketData, Cap <- N, written <- sent, read <- accepted

\* Every step of the connection is a step of that channel or leaves it alone.
ImplementsFifo == Fifo!Spec

-----------------------------------------------------------------------------
(***************************************************************************)
(* The inductive invariant behind the safety properties. Positions are     *)
(* counted from 0; c stands for the position of the resend cursor.         *)
(***************************************************************************)
\* Each modular variable is the residue of the position it stands for, and the
\* ring holds the last s packets.
ResiduesInv ==
    /\ sequenceTop = Len(sent) % s
    /\ sequenceBase = acked % s
    /\ recvSeq = Len(accepted) % s
    /\ \A i \in 1..Len(sent) : sent[i].id = i /\ sent[i].seq = (i - 1) % s
    /\ \A i \in 1..Len(sent) : i > Len(sent) - s => content[(i - 1) % s] = sent[i]

OrderInv ==
    /\ acked <= Len(accepted)
    /\ Len(accepted) <= Len(sent)
    /\ Len(sent) - acked <= N
    /\ sendPc = "select" => Len(sent) - acked < N
    /\ \A i \in 1..Len(accepted) : accepted[i] = sent[i]
    /\ sendPc = "send" => sent # <<>> /\ resendPc = "none"
    /\ resendPc \in {"init", "loop", "sync"} => sendPc \in {"select", "full"}
    /\ recvPc = "deliver" => accepted # <<>>

\* While a resend runs, its cursor is at a position c of the last n packets.
CursorInv ==
    resendPc = "loop" =>
        /\ size(resendBase, sequenceTop) <= Len(sent)
        /\ resendTop = sequenceTop /\ resendBase # resendTop

\* A data packet in flight is a sent one, and when it arrives the receiver is
\* at most n positions past it.
DataInv ==
    /\ \A i \in 1..Len(dataStream) :
          /\ dataStream[i].id \in 1..Len(sent)
          /\ dataStream[i] = sent[dataStream[i].id]
          /\ dataStream[i].id > Len(accepted) - N
    /\ \A i, j \in 1..Len(dataStream) :
          i < j => dataStream[j].id > dataStream[i].id - N

\* ACKs and NACKs in flight report positions between the sender's base and the
\* receiver's, in the order in which the receiver passed them.
CtlInv ==
    /\ \A i \in 1..Len(ctlStream) :
          /\ ctlStream[i].pos \in acked..Len(accepted)
          /\ ctlStream[i].type = "NACK" => ctlStream[i].seq = ctlStream[i].pos % s
          /\ ctlStream[i].type = "ACK" =>
                /\ ctlStream[i].pos > 0
                /\ ctlStream[i].seq = (ctlStream[i].pos - 1) % s
    /\ \A i, j \in 1..Len(ctlStream) :
          i < j => ctlStream[i].pos <= ctlStream[j].pos

\* The inductive strengthening of AcceptedInOrder, ReleasedOnlyAccepted and
\* WindowBounded.
IInv == TypeOK /\ ResiduesInv /\ OrderInv /\ CursorInv /\ DataInv /\ CtlInv
=============================================================================
