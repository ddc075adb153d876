------------------------------ MODULE Keepalive ------------------------------
(***************************************************************************)
(* The keepalive of a GoBackNConn: the ping and the pong ticker of         *)
(* gbn/ticker.go, each with its own goroutine, and the parts of            *)
(* sendPacketsForever and receivePacketsForever that use them.             *)
(*                                                                         *)
(* A ticker goroutine takes a tick from its clock, reads isActive and then *)
(* offers the tick on the unbuffered channel Force; Pause drops an offered *)
(* tick with a non-blocking send on skip. The two connection goroutines    *)
(* reset, resume and pause the tickers step by step.                       *)
(*                                                                         *)
(* Time is abstract: the pong interval is at most the ping interval and    *)
(* the pong clock is never started after the ping clock, so the ping clock *)
(* does not tick before the pong clock has; and no interval passes between *)
(* the adjacent calls that start the pong ticker, resume it and reset the  *)
(* ping ticker.                                                            *)
(***************************************************************************)
EXTENDS Naturals

CONSTANTS
    N,          \* window size
    Prompt,     \* the send goroutine and the pong ticker need less time than
                \* the pong interval, and than its distance from the ping's
    MaxData,    \* bound on the data packets of the application
    MaxPeer     \* bound on the packets of the peer that are not ACKs

Tickers == {"ping", "pong"}

VARIABLES
    due,        \* the clock of a ticker has ticked, the tick is in ticker.C
    gor,        \* the goroutine of a ticker: waits, has read isActive, offers
    isActive,
    ticked,     \* the pong clock has ticked since it was last started
    sender,     \* the send goroutine
    receiver,   \* the receive goroutine
    gotACK,     \* the packet it works on is an ACK
    queued,     \* packets in the queue
    acks, other,\* ACKs and other packets of the peer in flight
    alive,      \* the peer is there
    data, fromPeer,     \* packets of the application and of the peer so far
    pinged      \* history: a ping was sent

tickerVars == <<due, gor, isActive, ticked>>
receiverVars == <<receiver, gotACK>>
loadVars == <<queued, acks, other, alive, data, fromPeer>>
vars == <<tickerVars, sender, receiverVars, loadVars, pinged>>

\* start: both clocks run, the pong ticker is not resumed.
Init ==
    /\ due = [t \in Tickers |-> FALSE]
    /\ gor = [t \in Tickers |-> "wait"]
    /\ isActive = [t \in Tickers |-> t = "ping"]
    /\ ticked = FALSE
    /\ sender = "select" /\ receiver = "recv" /\ gotACK = FALSE
    /\ queued = 0 /\ acks = 0 /\ other = 0 /\ alive = TRUE
    /\ data = 0 /\ fromPeer = 0
    /\ pinged = FALSE

-----------------------------------------------------------------------------
(***************************************************************************)
(* The ticker.                                                             *)
(***************************************************************************)
clock(t) ==
    /\ ~due[t] /\ sender # "closed"
    /\ sender \notin {"resume", "resetPing"}
    /\ Prompt => sender \in {"select", "full"}
    /\ t = "ping" => /\ ticked
                     /\ Prompt => ~due["pong"] /\ gor["pong"] # "read"
    /\ due' = [due EXCEPT ![t] = TRUE]
    /\ ticked' = (ticked \/ t = "pong")
    /\ UNCHANGED <<gor, isActive, sender, receiverVars, loadVars, pinged>>

\* start: the goroutine takes a tick and offers it only if active.
goroutine(t) ==
    /\ \/ /\ gor[t] = "wait" /\ due[t]
          /\ due' = [due EXCEPT ![t] = FALSE]
          /\ gor' = [gor EXCEPT ![t] = IF isActive[t] THEN "read" ELSE "wait"]
       \/ /\ gor[t] = "read"
          /\ gor' = [gor EXCEPT ![t] = "offer"]
          /\ UNCHANGED due
    /\ UNCHANGED <<isActive, ticked, sender, receiverVars, loadVars, pinged>>

\* Slip: the goroutine that offers a tick survives.
resetWithIntervalSurvives(t) ==
    /\ due' = [due EXCEPT ![t] = FALSE]
    /\ UNCHANGED gor
    /\ ticked' = (t # "pong" /\ ticked)

\* resetWithIntervalLocked: the goroutine ends, whatever it was about to
\* offer, and a new one starts with a new clock.
resetWithInterval(t) ==
    /\ due' = [due EXCEPT ![t] = FALSE]
    /\ gor' = [gor EXCEPT ![t] = "wait"]
    /\ ticked' = (t # "pong" /\ ticked)

\* Pause: a tick that is on offer is dropped.
Pause(t) ==
    /\ isActive' = [isActive EXCEPT ![t] = FALSE]
    /\ gor' = [gor EXCEPT ![t] = IF @ = "offer" THEN "wait" ELSE @]

-----------------------------------------------------------------------------
(***************************************************************************)
(* The send goroutine.                                                     *)
(***************************************************************************)
\* The tick of t is received on Force.
take(t) == gor[t] = "offer" /\ gor' = [gor EXCEPT ![t] = "wait"]

takePing ==
    /\ sender = "select"
    /\ take("ping")
    /\ sender' = "pinged"
    /\ UNCHANGED <<due, isActive, ticked, receiverVars, loadVars, pinged>>

\* Slip: a pong tick that is on offer is not looked for.
keepaliveWinsNever ==
    /\ sender = "pinged"
    /\ sender' = "arm"
    /\ UNCHANGED <<tickerVars, receiverVars, loadVars, pinged>>

\* The non-blocking look at the pong ticker: the timeout wins over a new ping.
keepaliveWins ==
    /\ sender = "pinged"
    /\ \/ /\ take("pong")
          /\ sender' = "closed"
       \/ /\ gor["pong"] # "offer"
          /\ sender' = "arm"
          /\ UNCHANGED gor
    /\ UNCHANGED <<due, isActive, ticked, receiverVars, loadVars, pinged>>

\* pongTicker.ResetWithInterval with the current pong time.
armPong ==
    /\ sender = "arm"
    /\ sender' = "resume"
    /\ resetWithInterval("pong")
    /\ UNCHANGED <<isActive, receiverVars, loadVars, pinged>>

resumePong ==
    /\ sender = "resume"
    /\ sender' = "resetPing"
    /\ isActive' = [isActive EXCEPT !["pong"] = TRUE]
    /\ UNCHANGED <<due, gor, ticked, receiverVars, loadVars, pinged>>

resetPing ==
    /\ sender = "resetPing"
    /\ sender' = "sendPing"
    /\ resetWithInterval("ping")
    /\ UNCHANGED <<isActive, receiverVars, loadVars, pinged>>

\* A packet is added to the queue and sent; a full queue has to shrink first.
addPacket ==
    /\ queued' = queued + 1
    /\ sender' = IF queued' < N THEN "select" ELSE "full"

sendPing ==
    /\ sender = "sendPing"
    /\ addPacket
    /\ pinged' = TRUE
    /\ UNCHANGED <<tickerVars, receiverVars, acks, other, alive, data,
                   fromPeer>>

sendData ==
    /\ sender = "select" /\ data < MaxData
    /\ addPacket
    /\ data' = data + 1
    /\ UNCHANGED <<tickerVars, receiverVars, acks, other, alive, fromPeer,
                   pinged>>

\* The inner loop: neither ticker is looked at.
leaveFull ==
    /\ sender = "full" /\ queued < N
    /\ sender' = "select"
    /\ UNCHANGED <<tickerVars, receiverVars, loadVars, pinged>>

keepaliveTimeout ==
    /\ sender = "select"
    /\ take("pong")
    /\ sender' = "closed"
    /\ UNCHANGED <<due, isActive, ticked, receiverVars, loadVars, pinged>>

sendGoroutine ==
    \/ takePing \/ keepaliveWins \/ armPong \/ resumePong \/ resetPing
    \/ sendPing \/ sendData \/ leaveFull \/ keepaliveTimeout

-----------------------------------------------------------------------------
(***************************************************************************)
(* The receive goroutine: what it does with every packet.                  *)
(***************************************************************************)
recvPacket ==
    /\ receiver = "recv" /\ sender # "closed"
    /\ \/ acks > 0 /\ acks' = acks - 1 /\ gotACK' = TRUE /\ UNCHANGED other
       \/ other > 0 /\ other' = other - 1 /\ gotACK' = FALSE /\ UNCHANGED acks
    /\ receiver' = "reset"
    /\ UNCHANGED <<tickerVars, sender, queued, alive, data, fromPeer, pinged>>

recvResetPing ==
    /\ receiver = "reset"
    /\ receiver' = "check"
    /\ resetWithInterval("ping")
    /\ UNCHANGED <<isActive, sender, gotACK, loadVars, pinged>>

\* if pongTicker.IsActive()
recvCheckPong ==
    /\ receiver = "check"
    /\ receiver' = IF isActive["pong"] THEN "pause" ELSE "process"
    /\ UNCHANGED <<tickerVars, sender, gotACK, loadVars, pinged>>

recvPausePong ==
    /\ receiver = "pause"
    /\ receiver' = "process"
    /\ Pause("pong")
    /\ UNCHANGED <<due, ticked, sender, gotACK, loadVars, pinged>>

\* processACK; the other messages change nothing here.
recvProcess ==
    /\ receiver = "process"
    /\ receiver' = "recv"
    /\ gotACK' = FALSE
    /\ queued' = IF gotACK THEN queued - 1 ELSE queued
    /\ UNCHANGED <<tickerVars, sender, acks, other, alive, data, fromPeer,
                   pinged>>

receiveGoroutine ==
    recvPacket \/ recvResetPing \/ recvCheckPong \/ recvPausePong \/ recvProcess

-----------------------------------------------------------------------------
(***************************************************************************)
(* The peer acknowledges what it gets, sends packets of its own, and may   *)
(* be gone at any time.                                                    *)
(***************************************************************************)
peerACK ==
    /\ alive /\ sender # "closed"
    /\ acks + (IF gotACK THEN 1 ELSE 0) < queued
    /\ acks' = acks + 1
    /\ UNCHANGED <<tickerVars, sender, receiverVars, queued, other, alive, data,
                   fromPeer, pinged>>

peerSend ==
    /\ alive /\ fromPeer < MaxPeer /\ sender # "closed"
    /\ other' = other + 1
    /\ fromPeer' = fromPeer + 1
    /\ UNCHANGED <<tickerVars, sender, receiverVars, queued, acks, alive, data,
                   pinged>>

peerDies ==
    /\ alive /\ sender # "closed"
    /\ alive' = FALSE
    /\ UNCHANGED <<tickerVars, sender, receiverVars, queued, acks, other, data,
                   fromPeer, pinged>>

Next ==
    \/ \E t \in Tickers : clock(t) \/ goroutine(t)
    \/ sendGoroutine \/ receiveGoroutine
    \/ peerACK \/ peerSend \/ peerDies

Spec == Init /\ [][Next]_vars

\* Clocks run, and a goroutine that can run does.
FairSpec ==
    /\ Spec
    /\ WF_vars(clock("pong")) /\ SF_vars(clock("ping"))
    /\ \A t \in Tickers : WF_vars(goroutine(t))
    /\ WF_vars(sendGoroutine) /\ WF_vars(receiveGoroutine)

-----------------------------------------------------------------------------
\* Type correctness; the queue never holds more than N packets.
TypeOK ==
    /\ due \in [Tickers -> BOOLEAN] /\ isActive \in [Tickers -> BOOLEAN]
    /\ gor \in [Tickers -> {"wait", "read", "offer"}]
    /\ sender \in {"select", "pinged", "arm", "resume", "resetPing", "sendPing",
                   "full", "closed"}
    /\ queued \in 0 .. N /\ acks \in 0 .. N /\ other \in 0 .. MaxPeer

\* A pong tick that is on its way to the send goroutine was made by the clock
\* that the latest ping started, never by the clock of an earlier ping: reset
\* ends the goroutine that holds the old tick.
TickOfLatestPing == gor["pong"] # "wait" => ticked

\* The pong ticker runs only while a ping is on its way or unanswered: a live
\* connection is not closed by a pong ticker that nobody has started.
TimeoutNeedsPing ==
    sender = "closed" \/ isActive["pong"] =>
        pinged \/ sender \in {"resetPing", "sendPing"}

\* A peer that is gone is noticed: the send goroutine ends with the keepalive
\* timeout.
DeadPeerDetected == ~alive ~> sender = "closed"

\* The tickers: a pong tick is about the latest ping, and only a ping that was
\* sent can be found unanswered.
KeepaliveInv == TypeOK /\ TickOfLatestPing /\ TimeoutNeedsPing

=============================================================================
