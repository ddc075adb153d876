------------------------------- MODULE MCTimers -------------------------------
(***************************************************************************)
(* What a GoBackNConn does by time, for TLC: the syncer, the timeout       *)
(* manager, and the keepalive with goroutines of any speed and with prompt *)
(* ones and a window that is not full. A behaviour is one of "syncer",     *)
(* "timeouts", "keepalive" and "prompt"; the variables of the others stay  *)
(* as they are.                                                            *)
(***************************************************************************)
EXTENDS MCSyncer

CONSTANTS
    resendMultiplier, timeoutUpdateFrequency, boostPercent,
    defaultResendTimeout, minimumResendTimeout,
    pingTime, pongTime, pongMultiplier, maxPongTime,
    MaxTime, MaxPackets, MaxWrites,
    TimedN, SmallN, LargeN, MaxData, MaxPeer

\* The options of a connection: WithKeepalivePing gets a pong time that is no
\* longer than the ping time.
ASSUME TimeoutAssumption ==
    /\ {resendMultiplier, timeoutUpdateFrequency, boostPercent,
        defaultResendTimeout, minimumResendTimeout, pongMultiplier,
        maxPongTime} \subseteq Nat \ {0}
    /\ pingTime \in Nat /\ pongTime \in 1 .. pingTime
    /\ {TimedN, MaxTime, MaxPackets, MaxWrites} \subseteq Nat \ {0}

\* Windows of at least one packet, and a bound.
ASSUME KeepaliveAssumption == {SmallN, LargeN} \subseteq Nat \ {0} /\ MaxPeer \in Nat

VARIABLES
    part,
    now, sentTimes, latestSentSYNTime, hasSetDynamicTimeout, responseCounter,
    smoothedRTT, rttInitialized, resendBooster, handshakeBoosts, stage,
    synAnswers, base, top, todo, wrote, data, ctl, expected, writes, extremes,
    renewed,
    due, gor, isActive, ticked, sender, receiver, gotACK, queued, acks, other,
    alive, appData, fromPeer, pinged

T == INSTANCE TimeoutManager WITH N <- TimedN
K(n, prompt) == INSTANCE Keepalive WITH N <- n, Prompt <- prompt, data <- appData

timeoutVars == <<now, sentTimes, latestSentSYNTime, hasSetDynamicTimeout,
                 responseCounter, smoothedRTT, rttInitialized, resendBooster,
                 handshakeBoosts, stage, synAnswers, base, top, todo, wrote,
                 data, ctl, expected, writes, extremes, renewed>>
keepaliveVars == <<due, gor, isActive, ticked, sender, receiver, gotACK, queued,
                   acks, other, alive, appData, fromPeer, pinged>>
mcVars == <<part, vars, timeoutVars, keepaliveVars>>

MCInit ==
    /\ part \in {"syncer", "timeouts", "keepalive", "prompt"}
    /\ Init /\ T!Init /\ K(SmallN, FALSE)!Init

\* Only the syncer must not come to a halt: the others have a bounded clock and
\* a connection that closes.
MCNext ==
    \/ part = "syncer" /\ Next /\ UNCHANGED <<part, timeoutVars, keepaliveVars>>
    \/ part = "timeouts" /\ T!Next /\ UNCHANGED <<part, vars, keepaliveVars>>
    \/ /\ \/ part = "keepalive" /\ K(SmallN, FALSE)!Next
          \/ part = "prompt" /\ K(LargeN, TRUE)!Next
       /\ UNCHANGED <<part, vars, timeoutVars>>
    \/ part # "syncer" /\ UNCHANGED mcVars

Syncing(action) == part = "syncer" /\ action
Prompt(action) == part = "prompt" /\ action

MCSafety == MCInit /\ [][MCNext]_mcVars

\* Goroutines run, clocks tick and timers fire; nothing is assumed of the peer.
MCSpec ==
    /\ MCSafety
    /\ WF_vars(Syncing(waitForSync \/ syncTimeout \/ syncReset \/ waiterStops))
    /\ \A p \in Procs : WF_vars(Syncing(proceedAfterTime(p)))
    /\ WF_keepaliveVars(Prompt(K(LargeN, TRUE)!clock("pong")))
    /\ SF_keepaliveVars(Prompt(K(LargeN, TRUE)!clock("ping")))
    /\ \A t \in {"ping", "pong"} :
           WF_keepaliveVars(Prompt(K(LargeN, TRUE)!goroutine(t)))
    /\ WF_keepaliveVars(Prompt(K(LargeN, TRUE)!sendGoroutine))
    /\ WF_keepaliveVars(Prompt(K(LargeN, TRUE)!receiveGoroutine))

\* Sent: no packet of the window that was transmitted twice has a sent time.
ResentUnmeasured == T!ResentUnmeasured

\* WithKeepalivePing: a peer that is gone is noticed, if the queue has room.
DeadPeerDetected == (part = "prompt" /\ ~alive) ~> sender = "closed"

\* The timeout manager: boosts are spaced, and all values keep their bounds.
TimeoutInv == T!TimeoutInv

\* The tickers: a pong tick is about the latest ping. The bound on the queue
\* is that of the instance that runs.
KeepaliveInv ==
    /\ part = "keepalive" => K(SmallN, FALSE)!KeepaliveInv
    /\ part = "prompt" => K(LargeN, TRUE)!KeepaliveInv

=============================================================================
