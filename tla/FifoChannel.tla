---------------------------- MODULE FifoChannel ----------------------------
(***************************************************************************)
(* What one direction of a GoBackNConn promises: a reliable FIFO channel   *)
(* that takes at most Cap values ahead of its reader. "s must be strictly  *)
(* larger than the window size, n" (gbn/config.go) is there for this.      *)
(***************************************************************************)
EXTENDS Naturals, Sequences

CONSTANTS Value, Cap

VARIABLES written, read

vars == <<written, read>>

Init == written = <<>> /\ read = <<>>

Put(v) ==
    /\ Len(written) - Len(read) < Cap
    /\ written' = Append(written, v)
    /\ UNCHANGED read

Get ==
    /\ Len(read) < Len(written)
    /\ read' = Append(read, written[Len(read) + 1])
    /\ UNCHANGED written

Next == Get \/ \E v \in Value : Put(v)

Spec == Init /\ [][Next]_vars
=============================================================================
