----------------------------- MODULE SymbolCache -----------------------------
(***************************************************************************)
(* The cache of symbol_select() outcomes (app/lib.py), the request threads *)
(* that fill and invalidate it, and the terminal whose Market Watch it     *)
(* remembers.  The terminal may restart and lose its Market Watch; a       *)
(* symbol outside it has no quote.                                         *)
(***************************************************************************)
EXTENDS Integers, SequencesExt

CONSTANTS
    Threads,        \* request threads
    Symbols,        \* symbols the broker offers
    MaxCached,      \* _SYMBOL_SELECT_CACHE_MAX_SIZE
    MaxRestarts     \* bound: restarts of the terminal

ASSUME SymbolCacheAssumption ==
    /\ MaxCached \in Nat \ {0}
    /\ MaxRestarts \in Nat

VARIABLES
    cached,     \* _symbol_select_cache, oldest first
    watched,    \* the terminal's Market Watch
    restarts,   \* restarts of the terminal so far
    pc,         \* where each thread is
    symbol      \* the symbol of its request

market_watch == <<watched, restarts>>
cacheVars == <<cached, market_watch, pc, symbol>>

CacheTypeOK ==
    /\ cached \in Seq(Symbols) /\ Len(cached) <= MaxCached /\ IsInjective(cached)
    /\ watched \subseteq Symbols
    /\ restarts \in 0..MaxRestarts
    /\ symbol \in [Threads -> Symbols]

CacheInit ==
    /\ cached = <<>>
    /\ watched \in SUBSET Symbols
    /\ restarts = 0
    /\ pc = [t \in Threads |-> "idle"]
    /\ symbol \in [Threads -> Symbols]

Goto(t, label) == pc' = [pc EXCEPT ![t] = label]

-----------------------------------------------------------------------------
(* validate_symbol: a lookup, an IPC call and an insertion, the first and  *)
(* the last under the lock.                                                *)

Lookup(t) ==
    /\ pc[t] = "lookup"
    /\ Goto(t, IF Contains(cached, symbol[t]) THEN "valid" ELSE "select")
    /\ UNCHANGED <<cached, market_watch, symbol>>

Select(t) ==
    /\ pc[t] = "select"
    /\ watched' = watched \cup {symbol[t]}
    /\ Goto(t, "insert")
    /\ UNCHANGED <<cached, restarts, symbol>>

\* symbol_select() fails or raises: the request is answered and ends.
SelectFails(t) ==
    /\ pc[t] = "select"
    /\ Goto(t, "idle")
    /\ UNCHANGED <<cached, market_watch, symbol>>

\* A full cache loses its oldest symbol even when the new one is in it.
Insert(t) ==
    /\ pc[t] = "insert"
    /\ LET kept == IF Len(cached) >= MaxCached THEN Tail(cached) ELSE cached
       IN  cached' = IF Contains(kept, symbol[t]) THEN kept ELSE Append(kept, symbol[t])
    /\ Goto(t, "valid")
    /\ UNCHANGED <<market_watch, symbol>>

\* invalidate_symbol, by a symbol route whose data call gave None.
InvalidateNothing(t) ==
    /\ pc[t] = "invalidate"
    /\ Goto(t, "idle")
    /\ UNCHANGED <<cached, market_watch, symbol>>
Invalidate(t) ==
    /\ pc[t] = "invalidate"
    /\ \/ ~Contains(cached, symbol[t]) /\ UNCHANGED cached
       \/ \E i \in DOMAIN cached : cached[i] = symbol[t] /\ cached' = RemoveAt(cached, i)
    /\ Goto(t, "idle")
    /\ UNCHANGED <<market_watch, symbol>>

\* The terminal crashes or is restarted with an empty Market Watch.
TerminalRestart ==
    /\ restarts < MaxRestarts
    /\ restarts' = restarts + 1
    /\ watched' = {}
    /\ UNCHANGED <<cached, pc, symbol>>

\* The cache vouches for a symbol the terminal has no quotes of.
Stale(s) == Contains(cached, s) /\ s \notin watched
=============================================================================
