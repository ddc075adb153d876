----------------------------- MODULE MCGoBackN -----------------------------
(***************************************************************************)
(* Model-checking instances of GoBackN.                                    *)
(***************************************************************************)
EXTENDS GoBackN

\* Only the second packet may be a keepalive ping.
SecondIsPing == {2}

NoPings == {}
=============================================================================
