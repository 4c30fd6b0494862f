---------------------------- MODULE ReconnectGate ----------------------------
(***************************************************************************)
(* What the reconnect path of the gateway promises to the terminal it      *)
(* talks to, whatever the threads do: attempts to re-attach are made one   *)
(* at a time, a failed attempt closes the gate for a while, and a          *)
(* successful one reopens it at once.  MT5Connection implements it.        *)
(***************************************************************************)
EXTENDS Naturals

CONSTANTS
    Workers,        \* request threads that may try to reconnect
    Nobody,         \* the gate is free
    CooldownMax     \* the longest time a failure keeps the gate closed

VARIABLES
    holder,         \* the worker whose attempt is running, or Nobody
    verdict,        \* how its attempt went
    cool            \* time left until another attempt may begin

gateVars == <<holder, verdict, cool>>

Init ==
    /\ holder = Nobody
    /\ verdict = "none"
    /\ cool = 0

\* An attempt begins only while nobody holds the gate and it is open.
Begin(w) ==
    /\ holder = Nobody
    /\ cool = 0
    /\ holder' = w
    /\ verdict' = "trying"
    /\ UNCHANGED cool

Decide ==
    /\ verdict = "trying"
    /\ verdict' \in {"failed", "worked"}
    /\ UNCHANGED <<holder, cool>>

\* A failed attempt always closes the gate, for a bounded time.
Fail ==
    /\ verdict = "failed"
    /\ verdict' = "none"
    /\ holder' = Nobody
    /\ cool' \in 1..CooldownMax

Succeed ==
    /\ verdict = "worked"
    /\ verdict' = "none"
    /\ holder' = Nobody
    /\ cool' = 0

Elapse ==
    /\ cool > 0
    /\ cool' = cool - 1
    /\ UNCHANGED <<holder, verdict>>

Next ==
    \/ \E w \in Workers : Begin(w)
    \/ Decide
    \/ Fail
    \/ Succeed
    \/ Elapse

Spec == Init /\ [][Next]_gateVars
=============================================================================
