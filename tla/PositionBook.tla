---------------------------- MODULE PositionBook ----------------------------
(***************************************************************************)
(* What the trading loop promises about its own trades, whatever the       *)
(* exchange answers, whatever statements fail and whenever tasks           *)
(* interleave or processes end: a trade is opened within the limits on the *)
(* portfolio, closed for good, and its result is reported to the risk      *)
(* manager and the brakes at most once, when the close is stored.  What    *)
(* was not stored is undone by a restart, and by nothing else.             *)
(*                                                                         *)
(* TradingCore implements this specification.                              *)
(***************************************************************************)
EXTENDS Integers, FiniteSets

CONSTANTS
    Trades,    \* the trade uuids
    Symbols,   \* what they trade
    Nothing,   \* no symbol
    Limit      \* how many trades may be open at a time

VARIABLES
    stage,     \* of each trade: "unseen", "open" or "closed"
    stored,    \* the stage the next process will read
    on,        \* the symbol of each trade
    reports    \* how often its result was reported

bookVars == <<stage, stored, on, reports>>

OpenTrades == {t \in Trades : stage[t] = "open"}

BookInit ==
    /\ stage = [t \in Trades |-> "unseen"]
    /\ stored = stage
    /\ on = [t \in Trades |-> Nothing]
    /\ reports = [t \in Trades |-> 0]

\* The new stage of a trade is stored, or its write fails.
MayStore(t) == stored' \in {stored, [stored EXCEPT ![t] = stage'[t]]}

OpenTrade(t, s) ==
    /\ stage[t] = "unseen"
    /\ Cardinality(OpenTrades) < Limit
    /\ \A x \in OpenTrades : on[x] # s
    /\ stage' = [stage EXCEPT ![t] = "open"]
    /\ MayStore(t)
    /\ on' = [on EXCEPT ![t] = s]
    /\ UNCHANGED reports

CloseTrade(t) ==
    /\ stage[t] = "open"
    /\ stage' = [stage EXCEPT ![t] = "closed"]
    /\ MayStore(t)
    /\ UNCHANGED <<on, reports>>

\* A later write of the same trade stores what an earlier one did not.
StoreTrade(t) ==
    /\ stored' = [stored EXCEPT ![t] = stage[t]]
    /\ UNCHANGED <<stage, on, reports>>

ReportTrade(t) ==
    /\ stored[t] = "closed" /\ reports[t] = 0
    /\ reports' = [reports EXCEPT ![t] = 1]
    /\ UNCHANGED <<stage, stored, on>>

Restart ==
    /\ stage' = stored
    /\ on' = [t \in Trades |-> IF stored[t] = "unseen" THEN Nothing ELSE on[t]]
    /\ UNCHANGED <<stored, reports>>

BookNext ==
    \/ \E t \in Trades : \/ \E s \in Symbols : OpenTrade(t, s)
                         \/ CloseTrade(t) \/ StoreTrade(t) \/ ReportTrade(t)
    \/ Restart

BookSpec == BookInit /\ [][BookNext]_bookVars

=============================================================================
