--------------------------- MODULE MCMT5Connection ---------------------------
(* MT5Connection on small instances.                                       *)
EXTENDS MT5Connection

CONSTANTS w1, w2
=============================================================================
