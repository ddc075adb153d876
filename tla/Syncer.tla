------------------------------- MODULE Syncer -------------------------------
(***************************************************************************)
(* The syncer of gbn/syncer.go: after a resend the send goroutine waits    *)
(* until both parties are in sync. Three kinds of goroutine meet in it:    *)
(* the send goroutine (queue.resend calls initResendUpTo, sends, then      *)
(* calls waitForSync), the receive goroutine (processACK and processNACK)  *)
(* and one proceedAfterTime goroutine for every expected ACK.              *)
(*                                                                         *)
(* cancel is an unbuffered channel that is only sent to without blocking,  *)
(* so a send reaches one goroutine that is blocked on the channel or is    *)
(* lost, and the drain in initResendUpTo never finds anything. The window  *)
(* of queue.go is kept: it decides which ACKs and NACKs can arrive.        *)
(***************************************************************************)
EXTENDS GBNWindow

CONSTANTS
    MaxRounds,  \* bound on the resends
    Procs,      \* names for the proceedAfterTime goroutines, bounding them
    Tops        \* sequence numbers the queue may have reached, all released

ASSUME SyncerAssumption == MaxRounds \in Nat /\ Tops \subseteq Seqs

VARIABLES
    sequenceBase, sequenceTop,  \* queue
    state, expectedACK, expectedNACK,
    waiter,     \* where the send goroutine is in a resend
    proc,       \* the proceedAfterTime goroutines
    quit,       \* the quit channel is closed
    round,      \* history: number of the current resend, and of a goroutine's
    early,      \* history: the sync was complete before waitForSync waited
    timedOut,   \* history: waitForSync ended by its timeout
    met         \* history: expected NACK, or expected ACK and resend timeout

historyVars == <<round, early, timedOut, met>>
vars == <<sequenceBase, sequenceTop, state, expectedACK, expectedNACK, waiter,
          proc, quit, historyVars>>

WaiterPc == {"idle", "sending", "waiting", "woken", "stopped"}
ProcPc == {"none", "started", "waiting", "cancelled", "expired", "done"}

Init ==
    /\ sequenceBase \in Tops /\ sequenceTop = sequenceBase
    /\ state = "idle" /\ expectedACK = 0 /\ expectedNACK = 0
    /\ waiter = "idle"
    /\ proc = [p \in Procs |-> [pc |-> "none", round |-> 0]]
    /\ quit = FALSE
    /\ round = 0 /\ early = FALSE /\ timedOut = FALSE
    /\ met = FALSE

\* syncer.resetUnsafe, for a caller that has moved the send goroutine to w and
\* the proceedAfterTime goroutines to q: one blocked goroutine gets the signal.
resetUnsafe(w, q) ==
    /\ state' = "idle"
    /\ \/ w = "waiting" /\ waiter' = "woken" /\ proc' = q
       \/ \E p \in Procs : /\ q[p].pc = "waiting"
                           /\ proc' = [q EXCEPT ![p].pc = "cancelled"]
                           /\ waiter' = w
       \/ /\ w # "waiting" /\ \A p \in Procs : q[p].pc # "waiting"
          /\ waiter' = w /\ proc' = q

-----------------------------------------------------------------------------
(***************************************************************************)
(* The send goroutine.                                                     *)
(***************************************************************************)
addPacket ==
    /\ waiter = "idle" /\ ~quit
    /\ size(sequenceBase, sequenceTop) < N
    /\ sequenceTop' = succ(sequenceTop)
    /\ UNCHANGED <<sequenceBase, state, expectedACK, expectedNACK, waiter, proc,
                   quit, historyVars>>

\* Slip: the sequence number of the packet after the last one.
lastResentTop(top) == top

\* (c.s + top - 1) % c.s in uint8 arithmetic.
lastResent(top) == ((s + top - 1) % 256) % s

\* A resend starts (its queue is not empty): initResendUpTo.
initResendUpTo ==
    /\ waiter = "idle" /\ ~quit /\ round < MaxRounds
    /\ size(sequenceBase, sequenceTop) # 0
    /\ waiter' = "sending"
    /\ state' = "resending"
    /\ expectedACK' = lastResent(sequenceTop)
    /\ expectedNACK' = sequenceTop
    /\ round' = round + 1
    /\ early' = FALSE /\ timedOut' = FALSE /\ met' = FALSE
    /\ UNCHANGED <<sequenceBase, sequenceTop, proc, quit>>

\* All packets are out: waitForSync blocks in its select.
waitForSync ==
    /\ waiter = "sending"
    /\ waiter' = "waiting"
    /\ early' = (state = "idle")
    /\ UNCHANGED <<sequenceBase, sequenceTop, state, expectedACK, expectedNACK,
                   proc, quit, round, timedOut, met>>

\* Slip: the timeout is forgotten once the sync is complete.
syncTimeoutResending ==
    /\ waiter = "waiting" /\ state = "resending"
    /\ waiter' = "woken"
    /\ timedOut' = TRUE
    /\ UNCHANGED <<sequenceBase, sequenceTop, state, expectedACK, expectedNACK,
                   proc, quit, round, early, met>>

\* awaitingTimeoutMultiplier * resendTimeout has passed.
syncTimeout ==
    /\ waiter = "waiting"
    /\ waiter' = "woken"
    /\ timedOut' = TRUE
    /\ UNCHANGED <<sequenceBase, sequenceTop, state, expectedACK, expectedNACK,
                   proc, quit, round, early, met>>

\* After a signal or the timeout: reset, and back to sendPacketsForever.
syncReset ==
    /\ waiter = "woken"
    /\ resetUnsafe("idle", proc)
    /\ UNCHANGED <<sequenceBase, sequenceTop, expectedACK, expectedNACK, quit,
                   historyVars>>

\* queue.stop, after the context of the connection has been cancelled.
stop ==
    /\ ~quit
    /\ quit' = TRUE
    /\ UNCHANGED <<sequenceBase, sequenceTop, state, expectedACK, expectedNACK,
                   waiter, proc, historyVars>>

\* The send goroutine sees the closed channel (or its send fails).
waiterStops ==
    /\ quit /\ waiter \in {"idle", "sending", "waiting"}
    /\ waiter' = "stopped"
    /\ UNCHANGED <<sequenceBase, sequenceTop, state, expectedACK, expectedNACK,
                   proc, quit, historyVars>>

-----------------------------------------------------------------------------
(***************************************************************************)
(* The receive goroutine. A report is about a position d past the base.    *)
(***************************************************************************)
\* Slip: ACKs are processed although the queue is empty.
processACKEmpty(d) ==
    LET seq == (s + sequenceBase + d - 1) % s
    IN  /\ IF state = "resending" /\ seq = expectedACK
           THEN \E p \in Procs :
                    /\ proc[p].pc = "none"
                    /\ proc' = [proc EXCEPT ![p] = [pc |-> "started",
                                                    round |-> round]]
           ELSE UNCHANGED proc
        /\ sequenceBase' = ackedBase(sequenceBase, sequenceTop, seq)
        /\ UNCHANGED <<sequenceTop, state, expectedACK, expectedNACK, waiter, quit,
                       historyVars>>

\* processACK of queue and syncer.
processACK(d) ==
    LET seq == (s + sequenceBase + d - 1) % s
    IN  /\ size(sequenceBase, sequenceTop) # 0
        /\ IF state = "resending" /\ seq = expectedACK
           THEN \E p \in Procs :
                    /\ proc[p].pc = "none"
                    /\ proc' = [proc EXCEPT ![p] = [pc |-> "started",
                                                    round |-> round]]
           ELSE UNCHANGED proc
        /\ sequenceBase' = ackedBase(sequenceBase, sequenceTop, seq)
        /\ UNCHANGED <<sequenceTop, state, expectedACK, expectedNACK, waiter, quit,
                       historyVars>>

\* processNACK of queue and syncer.
processNACK(d) ==
    LET seq == (sequenceBase + d) % s
    IN  /\ IF state = "resending" /\ seq = expectedNACK
           THEN resetUnsafe(waiter, proc) /\ met' = TRUE
           ELSE UNCHANGED <<state, waiter, proc, met>>
        /\ sequenceBase' = nackedBase(sequenceBase, sequenceTop, seq)
        /\ UNCHANGED <<sequenceTop, expectedACK, expectedNACK, quit, round, early,
                       timedOut>>

-----------------------------------------------------------------------------
(***************************************************************************)
(* proceedAfterTime.                                                       *)
(***************************************************************************)
Moved(p, pc) == [proc EXCEPT ![p].pc = pc]

\* The goroutine blocks in its select.
procWaits(p) ==
    /\ proc[p].pc = "started"
    /\ proc' = Moved(p, "waiting")
    /\ UNCHANGED <<sequenceBase, sequenceTop, state, expectedACK, expectedNACK,
                   waiter, quit, historyVars>>

\* The resendTimeout passes; the goroutine still has to take the mutex.
procExpires(p) ==
    /\ proc[p].pc = "waiting"
    /\ proc' = Moved(p, "expired")
    /\ UNCHANGED <<sequenceBase, sequenceTop, state, expectedACK, expectedNACK,
                   waiter, quit, historyVars>>

\* It completes the sync, unless that has been done.
procCompletes(p) ==
    /\ proc[p].pc = "expired"
    /\ IF state = "resending"
       THEN /\ resetUnsafe(waiter, Moved(p, "done"))
            /\ met' = (met \/ proc[p].round = round)
       ELSE proc' = Moved(p, "done") /\ UNCHANGED <<state, waiter, met>>
    /\ UNCHANGED <<sequenceBase, sequenceTop, expectedACK, expectedNACK, quit,
                   round, early, timedOut>>

\* Slip: it returns without passing the signal on.
procCancelledQuietly(p) ==
    /\ proc[p].pc = "cancelled"
    /\ proc' = Moved(p, "done") /\ state' = "idle"
    /\ UNCHANGED <<sequenceBase, sequenceTop, expectedACK, expectedNACK, waiter,
                   quit, historyVars>>

\* It got the signal, which may have been meant for waitForSync: reset again.
procCancelled(p) ==
    /\ proc[p].pc = "cancelled"
    /\ resetUnsafe(waiter, Moved(p, "done"))
    /\ UNCHANGED <<sequenceBase, sequenceTop, expectedACK, expectedNACK, quit,
                   historyVars>>

procStops(p) ==
    /\ quit /\ proc[p].pc = "waiting"
    /\ proc' = Moved(p, "done")
    /\ UNCHANGED <<sequenceBase, sequenceTop, state, expectedACK, expectedNACK,
                   waiter, quit, historyVars>>

proceedAfterTime(p) ==
    procWaits(p) \/ procExpires(p) \/ procCompletes(p) \/ procCancelled(p)
        \/ procStops(p)

-----------------------------------------------------------------------------
Next ==
    \/ addPacket \/ initResendUpTo \/ waitForSync \/ syncTimeout \/ syncReset
    \/ stop \/ waiterStops
    \/ \E d \in 0..size(sequenceBase, sequenceTop) : processACK(d) \/ processNACK(d)
    \/ \E p \in Procs : proceedAfterTime(p)

Spec == Init /\ [][Next]_vars

\* Goroutines run and timers fire; nothing is assumed of the peer.
FairSpec ==
    /\ Spec
    /\ WF_vars(waitForSync \/ syncTimeout \/ syncReset \/ waiterStops)
    /\ \A p \in Procs : WF_vars(proceedAfterTime(p))

-----------------------------------------------------------------------------
\* Types of the syncer's state and of its goroutines.
TypeOK ==
    /\ sequenceBase \in Seqs /\ sequenceTop \in Seqs
    /\ state \in {"idle", "resending"}
    /\ expectedACK \in Seqs /\ expectedNACK \in Seqs
    /\ waiter \in WaiterPc
    /\ proc \in [Procs -> [pc : ProcPc, round : 0..MaxRounds]]
    /\ quit \in BOOLEAN /\ round \in 0..MaxRounds
    /\ early \in BOOLEAN /\ timedOut \in BOOLEAN
    /\ met \in BOOLEAN

\* A completed sync is not forgotten: if waitForSync is still blocked although
\* the state is idle again, some proceedAfterTime goroutine has taken the
\* signal and will pass it on. (Unless the sync was complete before waitForSync
\* blocked: then the signal had no receiver and waitForSync runs into its
\* timeout.) The race that the second reset in proceedAfterTime is there for.
SignalNotForgotten ==
    waiter = "waiting" /\ state = "idle" /\ ~early
        => \E p \in Procs : proc[p].pc = "cancelled"

\* One resend starts at most one proceedAfterTime goroutine, although
\* processACK does not look whether one is running: the expected ACK empties
\* the queue, and ACKs are not processed while it is empty.
OneProceederPerRound ==
    \A p, q \in Procs :
        p # q /\ proc[p].pc # "none" /\ proc[q].pc # "none"
            => proc[p].round # proc[q].round

\* The state is only "resending" during a resend, so that ACKs and NACKs that
\* come later are swallowed.
ResendingOnlyInRound ==
    state = "resending" => waiter \in {"sending", "waiting", "woken", "stopped"}

\* "expectedACK defines the sequence number for the last packet in the resend
\* queue", and expectedNACK the one that follows it (syncer.go).
ExpectedIsLast ==
    state = "resending" =>
        /\ succ(expectedACK) = expectedNACK
        /\ expectedNACK = sequenceTop

\* Every resend comes to an end, whatever the peer does.
RoundEnds == waiter \in {"sending", "waiting", "woken"} ~> waiter \in {"idle", "stopped"}

\* No proceedAfterTime goroutine stays behind.
ProceedersEnd ==
    \A p \in Procs : proc[p].pc # "none" ~> proc[p].pc = "done"

\* "The sync is completed when we receive either the expectedNACK, the
\* expectedACK + resend timeout has passed, or when timing out" (waitForSync).
CompletedByCondition == waiter = "woken" => timedOut \/ met

\* The syncer: a round has at most one goroutine that completes it, and ACKs
\* and NACKs are only swallowed during a round.
SyncerInv == TypeOK /\ OneProceederPerRound /\ ResendingOnlyInRound

\* The syncer: every round ends, and every goroutine that was started for one.
ResendsEnd == RoundEnds /\ ProceedersEnd

=============================================================================
