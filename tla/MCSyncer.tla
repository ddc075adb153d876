------------------------------ MODULE MCSyncer ------------------------------
(***************************************************************************)
(* Model-checking instances of Syncer.                                     *)
(***************************************************************************)
EXTENDS Syncer

CONSTANTS p1, p2, p3

TwoProcs == {p1, p2}
ThreeProcs == {p1, p2, p3}

\* A fresh connection.
FreshTop == {0}
=============================================================================
