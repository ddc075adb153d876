--------------------------- MODULE TimeoutManager ---------------------------
(***************************************************************************)
(* The timeouts of gbn/timeout_manager.go and the two goroutines that feed *)
(* them. The send goroutine writes a packet to the stream and only then    *)
(* tells the manager (sendPacket); the receive goroutine hands over every  *)
(* message it reads (receivePacketsForever). An ACK may therefore be       *)
(* processed before the manager knows that its packet was sent.            *)
(*                                                                         *)
(* Packets are numbered 0, 1, ... and carry their number modulo s. The     *)
(* peer is the receiving half of the protocol, the two directions of the   *)
(* stream lose messages and keep their order.                              *)
(***************************************************************************)
EXTENDS Integers, Sequences

CONSTANTS
    N,                      \* window size
    resendMultiplier, timeoutUpdateFrequency, boostPercent,
    defaultResendTimeout, minimumResendTimeout,
    pingTime, pongTime, pongMultiplier, maxPongTime,
    MaxTime,                \* bound on the clock
    MaxPackets,             \* bound on the packets
    MaxWrites               \* bound on the transmissions of one message

s == N + 1
Packets == 0 .. MaxPackets - 1

\* The sequence number of a packet.
seqOf(p) == p % s

Times == 1 .. MaxTime

VARIABLES
    now,
    \* TimeoutManager
    sentTimes, latestSentSYNTime, hasSetDynamicTimeout, responseCounter,
    smoothedRTT, rttInitialized,
    resendBooster,          \* originalTimeout, boostCount, lastBoost
    handshakeBoosts,        \* boostCount of handshakeBooster
    \* the connection
    stage,                  \* "syn" until the handshake is over
    synAnswers,             \* SYNs of the peer in flight
    base, top,              \* window, in packet numbers
    todo, wrote,            \* packets being sent, the first one is written
    data, ctl, expected,    \* streams and recvSeq of the peer
    \* history
    writes,                 \* transmissions of each packet, and of the SYN
    extremes,               \* smallest and largest response time so far
    renewed                 \* time of the last Reset of the booster, 0 if none

managerVars == <<sentTimes, latestSentSYNTime, hasSetDynamicTimeout,
                 responseCounter, smoothedRTT, rttInitialized, resendBooster,
                 handshakeBoosts>>
linkVars == <<stage, synAnswers, base, top, todo, wrote, data, ctl, expected>>
historyVars == <<writes, extremes, renewed>>
vars == <<now, managerVars, linkVars, historyVars>>

SYN == -1       \* stands for the SYN in writes

\* NewTimeOutManager with NewTimeoutBooster.
Init ==
    /\ now = 1
    /\ sentTimes = [i \in {} |-> 0]
    /\ latestSentSYNTime = 0
    /\ hasSetDynamicTimeout = FALSE /\ responseCounter = 0
    /\ smoothedRTT = 0 /\ rttInitialized = FALSE
    /\ resendBooster = [originalTimeout |-> defaultResendTimeout,
                        boostCount |-> 0, lastBoost |-> 0]
    /\ handshakeBoosts = 0
    /\ stage = "syn" /\ synAnswers = 0
    /\ base = 0 /\ top = 0 /\ todo = <<>> /\ wrote = FALSE
    /\ data = <<>> /\ ctl = <<>> /\ expected = 0
    /\ writes = [p \in Packets \cup {SYN} |-> 0]
    /\ extremes = <<MaxTime, 0>>
    /\ renewed = 0

-----------------------------------------------------------------------------
(***************************************************************************)
(* The timeouts as functions of the state.                                 *)
(***************************************************************************)
\* TimeoutBooster.GetCurrentTimeout.
GetCurrentTimeout(b) ==
    b.originalTimeout + ((b.originalTimeout * boostPercent * b.boostCount) \div 100)

GetResendTimeout == GetCurrentTimeout(resendBooster)

\* The multiple of the RTT between the base and the two caps.
dynamicPong(rtt) ==
    LET floored == IF pongMultiplier * rtt < pongTime THEN pongTime
                   ELSE pongMultiplier * rtt
        capped == IF floored > maxPongTime THEN maxPongTime ELSE floored
    IN  IF capped > pingTime THEN pingTime ELSE capped

\* GetPongTime with the dynamic timeout enabled.
GetPongTime == IF rttInitialized THEN dynamicPong(smoothedRTT) ELSE pongTime

\* updateSmoothedRTT after the first sample, alpha = 0.25.
smooth(rtt, smoothed) == (rtt + 3 * smoothed) \div 4

\* Slip: no frequency limit.
BoostUnlimited(b) == [b EXCEPT !.lastBoost = now, !.boostCount = @ + 1]

\* TimeoutBooster.Boost with the frequency limit; the zero time is long ago.
Boost(b) ==
    IF b.lastBoost # 0 /\ now - b.lastBoost < b.originalTimeout
    THEN b
    ELSE [b EXCEPT !.lastBoost = now, !.boostCount = @ + 1]

\* updateResendTimeoutUnsafe: never below the minimum.
multipliedTimeout(rtt) ==
    IF resendMultiplier * rtt < minimumResendTimeout THEN minimumResendTimeout
    ELSE resendMultiplier * rtt

\* A response time is taken: updateSmoothedRTT, and the resend
\* timeout with its booster if update.
takeSample(rtt, update) ==
    /\ rttInitialized' = TRUE
    /\ smoothedRTT' = IF rttInitialized THEN smooth(rtt, smoothedRTT) ELSE rtt
    /\ IF update
       THEN /\ hasSetDynamicTimeout' = TRUE
            /\ resendBooster' = [originalTimeout |-> multipliedTimeout(rtt),
                                 boostCount |-> 0, lastBoost |-> now]
            /\ renewed' = now
       ELSE UNCHANGED <<hasSetDynamicTimeout, resendBooster, renewed>>
    /\ extremes' = <<IF rtt < extremes[1] THEN rtt ELSE extremes[1],
                     IF rtt > extremes[2] THEN rtt ELSE extremes[2]>>

noSample == UNCHANGED <<rttInitialized, smoothedRTT, hasSetDynamicTimeout,
                        resendBooster, renewed, extremes>>

\* History: message p is written to the stream.
written(p) == writes' = [writes EXCEPT ![p] = @ + 1]

-----------------------------------------------------------------------------
(***************************************************************************)
(* The handshake: one goroutine sends the SYN and reads the answer.        *)
(***************************************************************************)
\* Sent for a SYN: only the first one is timed, a resent one boosts the
\* handshake timeout.
SentSYN(resent) ==
    /\ latestSentSYNTime' = IF resent THEN 0 ELSE now
    /\ handshakeBoosts' = IF resent THEN handshakeBoosts + 1 ELSE handshakeBoosts

\* The SYN goes out, for the first time or after the handshake timeout; it
\* reaches the peer, which answers, or is lost.
sendSYN ==
    /\ stage = "syn" /\ writes[SYN] < MaxWrites
    /\ SentSYN(writes[SYN] > 0)
    /\ written(SYN)
    /\ synAnswers' \in {synAnswers, synAnswers + 1}
    /\ UNCHANGED <<now, sentTimes, hasSetDynamicTimeout, responseCounter,
                   smoothedRTT, rttInitialized, resendBooster, stage, base, top,
                   todo, wrote, data, ctl, expected, extremes, renewed>>

\* The answer ends the handshake: Received for a SYN or a SYNACK.
recvSYN ==
    /\ stage = "syn" /\ synAnswers > 0
    /\ stage' = "data"
    /\ latestSentSYNTime' = 0
    /\ IF latestSentSYNTime = 0 THEN noSample
       ELSE takeSample(now - latestSentSYNTime, TRUE)
    /\ UNCHANGED <<now, sentTimes, responseCounter, handshakeBoosts, synAnswers,
                   base, top, todo, wrote, data, ctl, expected, writes>>

-----------------------------------------------------------------------------
(***************************************************************************)
(* The send goroutine.                                                     *)
(***************************************************************************)
\* A new packet is added to the queue.
addPacket ==
    /\ stage = "data" /\ todo = <<>>
    /\ top - base < N /\ top < MaxPackets
    /\ todo' = <<[packet |-> top, resent |-> FALSE]>>
    /\ top' = top + 1
    /\ UNCHANGED <<now, managerVars, stage, synAnswers, base, wrote, data, ctl,
                   expected, historyVars>>

\* The queue is resent: every packet from the base to the top.
resend ==
    /\ stage = "data" /\ todo = <<>> /\ base < top
    /\ \A p \in base .. top - 1 : writes[p] < MaxWrites
    /\ todo' = [i \in 1 .. top - base |-> [packet |-> base + i - 1, resent |-> TRUE]]
    /\ UNCHANGED <<now, managerVars, stage, synAnswers, base, top, wrote, data,
                   ctl, expected, historyVars>>

\* sendPacket: sendToStream returns.
sendToStream ==
    /\ todo # <<>> /\ ~wrote
    /\ wrote' = TRUE
    /\ data' = Append(data, Head(todo).packet)
    /\ written(Head(todo).packet)
    /\ UNCHANGED <<now, managerVars, stage, synAnswers, base, top, todo, ctl,
                   expected, extremes, renewed>>

\* Slip: the time of a packet that is resent is kept.
SentDataKept(seq, resent) ==
    IF resent
    THEN /\ resendBooster' = Boost(resendBooster)
         /\ UNCHANGED sentTimes
    ELSE /\ sentTimes' = [i \in DOMAIN sentTimes \cup {seq} |->
                              IF i = seq THEN now ELSE sentTimes[i]]
         /\ UNCHANGED resendBooster

\* Sent for a data packet.
SentData(seq, resent) ==
    IF resent
    THEN /\ sentTimes' = [i \in DOMAIN sentTimes \ {seq} |-> sentTimes[i]]
         /\ resendBooster' = Boost(resendBooster)
    ELSE /\ sentTimes' = [i \in DOMAIN sentTimes \cup {seq} |->
                              IF i = seq THEN now ELSE sentTimes[i]]
         /\ UNCHANGED resendBooster

\* sendPacket: the timeout manager is told.
sent ==
    /\ wrote
    /\ wrote' = FALSE
    /\ SentData(seqOf(Head(todo).packet), Head(todo).resent)
    /\ todo' = Tail(todo)
    /\ UNCHANGED <<now, latestSentSYNTime, hasSetDynamicTimeout, responseCounter,
                   smoothedRTT, rttInitialized, handshakeBoosts, stage,
                   synAnswers, base, top, data, ctl, expected, historyVars>>

-----------------------------------------------------------------------------
(***************************************************************************)
(* The receive goroutine.                                                  *)
(***************************************************************************)
\* Received for an ACK, then processACK.
recvACK ==
    /\ ctl # <<>> /\ Head(ctl).type = "ACK"
    /\ LET p == Head(ctl).packet
           seq == seqOf(p)
           counter == responseCounter + 1
           update == ~hasSetDynamicTimeout \/ counter % timeoutUpdateFrequency = 0
       IN  /\ IF seq \in DOMAIN sentTimes
              THEN /\ sentTimes' = [i \in DOMAIN sentTimes \ {seq} |-> sentTimes[i]]
                   /\ responseCounter' = IF update THEN 0 ELSE counter
                   /\ takeSample(now - sentTimes[seq], update)
              ELSE noSample /\ UNCHANGED <<sentTimes, responseCounter>>
           /\ base' = IF p \in base .. top - 1 THEN p + 1 ELSE base
    /\ ctl' = Tail(ctl)
    /\ UNCHANGED <<now, latestSentSYNTime, handshakeBoosts, stage, synAnswers,
                   top, todo, wrote, data, expected, writes>>

\* A NACK is nothing to the manager; the window moves.
recvNACK ==
    /\ ctl # <<>> /\ Head(ctl).type = "NACK"
    /\ base' = IF Head(ctl).packet \in base .. top THEN Head(ctl).packet ELSE base
    /\ ctl' = Tail(ctl)
    /\ UNCHANGED <<now, managerVars, stage, synAnswers, top, todo, wrote, data,
                   expected, historyVars>>

\* The peer takes a packet and answers with an ACK or a NACK.
peer ==
    /\ data # <<>>
    /\ data' = Tail(data)
    /\ IF Head(data) = expected
       THEN /\ expected' = expected + 1
            /\ ctl' = Append(ctl, [type |-> "ACK", packet |-> expected])
       ELSE /\ ctl' = Append(ctl, [type |-> "NACK", packet |-> expected])
            /\ UNCHANGED expected
    /\ UNCHANGED <<now, managerVars, stage, synAnswers, base, top, todo, wrote,
                   historyVars>>

lose ==
    /\ \/ data # <<>> /\ data' = Tail(data) /\ UNCHANGED ctl
       \/ ctl # <<>> /\ ctl' = Tail(ctl) /\ UNCHANGED data
    /\ UNCHANGED <<now, managerVars, stage, synAnswers, base, top, todo, wrote,
                   expected, historyVars>>

tick ==
    /\ now < MaxTime
    /\ now' = now + 1
    /\ UNCHANGED <<managerVars, linkVars, historyVars>>

Next ==
    \/ sendSYN \/ recvSYN
    \/ addPacket \/ resend \/ sendToStream \/ sent
    \/ recvACK \/ recvNACK
    \/ peer \/ lose \/ tick

Spec == Init /\ [][Next]_vars

-----------------------------------------------------------------------------
\* Type correctness of the variables of the manager and of the link.
TypeOK ==
    /\ now \in Times
    /\ DOMAIN sentTimes \subseteq 0 .. s - 1
    /\ \A i \in DOMAIN sentTimes : sentTimes[i] \in Times
    /\ latestSentSYNTime \in 0 .. MaxTime
    /\ hasSetDynamicTimeout \in BOOLEAN /\ rttInitialized \in BOOLEAN
    /\ responseCounter \in 0 .. timeoutUpdateFrequency - 1
    /\ smoothedRTT \in Nat
    /\ resendBooster \in [originalTimeout : Nat \ {0}, boostCount : Nat,
                          lastBoost : 0 .. MaxTime]
    /\ handshakeBoosts \in 0 .. MaxWrites
    /\ stage \in {"syn", "data"} /\ wrote \in BOOLEAN
    /\ 0 <= base /\ base <= top /\ top <= MaxPackets

\* The SYN that is timed was sent once: an answer to a SYN that was resent is
\* never measured, whichever of the two it answers (Sent and Received for SYN).
SYNSampledOnce == latestSentSYNTime # 0 => writes[SYN] = 1

\* When no packet is between the stream and Sent, no packet of the window that
\* was transmitted twice has a sent time, so its ACK will not be measured.
ResentUnmeasured ==
    ~wrote => \A p \in base .. top - 1 :
                  writes[p] > 1 /\ (\A e \in 1 .. Len(todo) : todo[e].packet # p)
                  => seqOf(p) \notin DOMAIN sentTimes

\* Once set dynamically the resend timeout, boosted or not, is at least the
\* minimum, however fast the peer answers.
ResendTimeoutFloor == hasSetDynamicTimeout => GetResendTimeout >= minimumResendTimeout

\* Resending a range of packets boosts once: the boosts since the booster was
\* renewed fit, one per original timeout, in the time that has passed since
\* (a booster that was never renewed has one to spare).
BoostsSpaced ==
    LET b == resendBooster
    IN  IF renewed = 0
        THEN b.boostCount > 0 => (b.boostCount - 1) * b.originalTimeout <= now - 1
        ELSE b.boostCount * b.originalTimeout <= now - renewed

\* The smoothed RTT never leaves the range of the response times it was made
\* from, rounding included.
SmoothedWithinSamples ==
    rttInitialized => extremes[1] <= smoothedRTT /\ smoothedRTT <= extremes[2]

\* The pong timeout never exceeds the ping interval: the next ping would reset
\* the pong ticker before it fires.
PongWithinPing == GetPongTime <= pingTime

\* The timeout manager: the SYN that is timed was sent once, boosts are spaced,
\* and what it computes stays between its bounds and those of its samples.
TimeoutInv ==
    /\ TypeOK /\ SYNSampledOnce /\ BoostsSpaced
    /\ ResendTimeoutFloor /\ SmoothedWithinSamples /\ PongWithinPing

=============================================================================
