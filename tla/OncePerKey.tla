----------------------------- MODULE OncePerKey -----------------------------
(***************************************************************************)
(* What a client may rely on when it repeats an order with the same key:   *)
(* while the key is remembered at most one order is placed, the first      *)
(* answer stays the answer, and no order is placed after it was given.     *)
(***************************************************************************)
EXTENDS Naturals

CONSTANTS
    Keys,
    NoAnswer

VARIABLES
    placed,     \* orders placed under the key since it was last forgotten
    answer      \* the answer repeated requests get, or NoAnswer

onceVars == <<placed, answer>>

Init ==
    /\ placed = [k \in Keys |-> 0]
    /\ answer = [k \in Keys |-> NoAnswer]

Place(k) ==
    /\ placed[k] = 0
    /\ answer[k] = NoAnswer
    /\ placed' = [placed EXCEPT ![k] = 1]
    /\ UNCHANGED answer

\* "ok" is only answered for an order that was placed.
Answer(k) ==
    /\ answer[k] = NoAnswer
    /\ \/ /\ placed[k] = 1
          /\ answer' = [answer EXCEPT ![k] = "ok"]
       \/ answer' = [answer EXCEPT ![k] = "unknown_outcome"]
    /\ UNCHANGED placed

\* The keys whose time is up are forgotten together.
Forget(S) ==
    /\ placed' = [k \in Keys |-> IF k \in S THEN 0 ELSE placed[k]]
    /\ answer' = [k \in Keys |-> IF k \in S THEN NoAnswer ELSE answer[k]]

Next ==
    \/ \E k \in Keys : Place(k) \/ Answer(k)
    \/ \E S \in SUBSET Keys : Forget(S)

Spec == Init /\ [][Next]_onceVars
=============================================================================
