---------------------------- MODULE MCProtection ----------------------------
(* Protection on a small instance: two workers and one ticket that rests   *)
(* as a BUY_LIMIT or a SELL_STOP.                                          *)
EXTENDS Protection, TLC

CONSTANTS w1, w2, t1

Symmetry == Permutations({w1, w2})

MCInfo == [freeze |-> 2]

MCPlaced ==
    {[type |-> t, levels |-> [price |-> 8, sl |-> s[1], tp |-> s[2], expiry |-> 1]] :
        t \in {"BUY_LIMIT"}, s \in {<<0, 0>>, <<6, 12>>}}
    \cup {[type |-> "SELL_STOP", levels |-> [price |-> 6, sl |-> 12, tp |-> 0, expiry |-> 0]]}

MCChanges ==
    LET Change(p, s, t, e) == [price |-> p, sl |-> s, tp |-> t, expiry |-> e]
    IN  {Change(p, Keep, Keep, Keep) : p \in {0, 6, 10}}
        \cup {Change(Keep, s, Keep, Keep) : s \in {0, 7}}
        \cup {Change(Keep, Keep, t, Keep) : t \in {0, 4, 14}}
        \cup {Change(5, 9, 0, 2), Change(Keep, Keep, Keep, 2)}

MCBids == {7, 12}
=============================================================================
