--------------------------- MODULE MCGBNHandshake ---------------------------
(***************************************************************************)
(* Model-checking instances of GBNHandshake.                               *)
(***************************************************************************)
EXTENDS GBNHandshake

\* The earlier connection used the same n as the client, or another one.
SameOrOther == {1, 2}
=============================================================================
