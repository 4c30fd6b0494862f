---------------------------- MODULE MCServerTime ----------------------------
(* ServerTime on small instances: an hour of four units.                   *)
EXTENDS ServerTime

CONSTANTS f1, g1

\* On time, early by the jitter of the clocks, between two hours, and late by
\* one and by two hours.
MCLags == {-1, 0, 2, 4, 8}
=============================================================================
