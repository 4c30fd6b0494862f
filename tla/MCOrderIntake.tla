---------------------------- MODULE MCOrderIntake ----------------------------
(* OrderIntake on a small instance: two threads, one of which serves the   *)
(* order routes, one symbol, a market of two quotes.                       *)
EXTENDS OrderIntake

CONSTANTS poster, reader, s1

MCInfo == [volume_min |-> 2, volume_max |-> 6, volume_step |-> 2,
           trade_tick_size |-> 2, quantum |-> 1, freeze |-> 1]

\* Prices and levels on and off the tick grid, on both sides of the market.
MCBodies ==
    LET Order(type, volume, at, levels) ==
            [type |-> type, volume |-> volume, price |-> at,
             sl |-> levels[1], tp |-> levels[2]]
        Bare == <<NoLevel, NoLevel>>
        Pairs == {Bare, <<5, 13>>, <<14, 4>>}
    IN  {Order(t, v, 8, l) : t \in MarketTypes, v \in {2, 5}, l \in Pairs}
        \cup {Order(t, 2, p, l) : t \in {"BUY_LIMIT", "SELL_LIMIT", "BUY_STOP", "SELL_STOP",
                                        "BUY_STOP_LIMIT"}, p \in {6, 16}, l \in Pairs}
        \cup {Order("BUY_LIMIT", 2, 9, Bare)}
        \cup {Order("BUY", v, 8, Bare) : v \in {1, 7}}

MCBids == {8, 12}
=============================================================================
