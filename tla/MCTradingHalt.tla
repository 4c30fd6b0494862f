---------------------------- MODULE MCTradingHalt ----------------------------
(* TradingHalt on small instances: its sets are of model values.           *)
EXTENDS TradingHalt

CONSTANTS r1, t1, t2, o1, o2
=============================================================================
