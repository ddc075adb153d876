----------------------------- MODULE GBNWindow -----------------------------
(***************************************************************************)
(* The modular arithmetic of the Go-Back-N send window (gbn/queue.go).     *)
(* Sequence numbers are uint8 values taken modulo s = n + 1. A window is   *)
(* the half-open interval [base, top) of that ring.                        *)
(*                                                                         *)
(* N is at most 254 because NewClientConn refuses n = 255, so s and every  *)
(* seq + 1 fit in a uint8 and no operator below wraps at 256. N = 0 is not *)
(* refused by the code, but with a single sequence number no packet is     *)
(* ever released; the model requires a window of at least one packet.      *)
(***************************************************************************)
EXTENDS Integers

CONSTANT N                      \* config.n, the window size

ASSUME NAssumption == N \in 1..254

\* Slip: a sequence space that is no larger than the window.
sSameAsN == N

s == N + 1

Seqs == 0 .. s - 1

\* (x + 1) % s, as written in addPacket, resend, processACK and for recvSeq.
succ(x) == (x + 1) % s

\* queue.size
size(base, top) == IF top >= base THEN top - base ELSE top + (s - base)

containsSequence(base, top, seq) ==
    /\ base # top
    /\ IF base < top THEN base <= seq /\ seq < top
                     ELSE seq < top \/ base <= seq

-----------------------------------------------------------------------------
\* queue.processACK: does the ACK release packets, and the base after it.
ackValid(base, top, seq) ==
    /\ size(base, top) # 0
    /\ seq = base \/ containsSequence(base, top, seq)

ackedBase(base, top, seq) ==
    IF ackValid(base, top, seq) THEN succ(seq) ELSE base

\* queue.processNACK: its two results, and the base after it.
nackResend(base, top, seq) ==
    seq # top /\ containsSequence(base, top, seq)

nackBumped(base, top, seq) ==
    seq = top \/ (nackResend(base, top, seq) /\ base # seq)

\* Slip: a NACK for top is taken for a packet outside the window.
nackedBaseNoTop(base, top, seq) ==
    IF nackResend(base, top, seq) THEN seq ELSE base

nackedBase(base, top, seq) ==
    IF seq = top \/ nackResend(base, top, seq) THEN seq ELSE base
=============================================================================
