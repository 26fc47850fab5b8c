----------------------------- MODULE MCRegistry -----------------------------
(***************************************************************************)
(* The instance of Registry for TLC.                                       *)
(***************************************************************************)
EXTENDS Registry

CONSTANTS u1, u2, g1, c1, c2

TwoUsers == {u1, u2}
OneStream == {g1}
TwoClients == {c1, c2}
=============================================================================
