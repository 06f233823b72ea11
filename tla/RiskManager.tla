----------------------------- MODULE RiskManager -----------------------------
(***************************************************************************)
(* RiskManager (risk/risk_manager.py): the equity peak and drawdown, the   *)
(* streak of losses and the active risk per trade, with the risk_state row *)
(* main.py keeps of it.                                                    *)
(*                                                                         *)
(* `risk' is RiskManager.state and `riskRow' the saved row.  The field     *)
(* current_drawdown_pct is always the drawdown of the peak and the equity  *)
(* beside it (the three are assigned together), so it is an operator here. *)
(* Equity is in whole units, percentages are integers.                     *)
(***************************************************************************)
EXTENDS Integers

CONSTANTS
    Equities,        \* balances the exchange may report
    DefaultRisk,     \* default_risk_pct
    ReducedRisk,     \* reduced_risk_pct
    ReducePct,       \* drawdown_reduce_threshold
    RestorePct,      \* drawdown_restore_threshold
    StreakLength,    \* consecutive_loss_threshold
    ReducedTrades,   \* consecutive_loss_reduced_trades
    StreakCap        \* bound on the counted streak

ASSUME RiskAssumption ==
    /\ Equities \subseteq Nat \ {0}
    /\ DefaultRisk \in Nat /\ ReducedRisk \in Nat /\ ReducedRisk < DefaultRisk
    /\ RestorePct \in Nat /\ ReducePct \in Nat /\ RestorePct <= ReducePct
    /\ StreakLength \in Nat \ {0} /\ ReducedTrades \in Nat /\ ReducedTrades > 1
    /\ StreakCap \in Nat

VARIABLES
    risk,      \* RiskManager.state
    riskRow,     \* the risk_state row
    unsavedRisk,  \* a closed trade was recorded and the row is not yet saved
    since,    \* observation: trades recorded after the last streak of losses
    sinceDisk  \* observation: `since' at the time of the last save

riskVars == <<risk, riskRow, unsavedRisk, since, sinceDisk>>

Risks == {DefaultRisk, ReducedRisk}

RiskState ==
    [peak : Nat, equity : Nat, active : Risks, losses : Nat,
     remaining : 0..ReducedTrades]

FreshRisk ==
    [peak |-> 0, equity |-> 0, active |-> DefaultRisk, losses |-> 0,
     remaining |-> 0]

\* The drawdown is above, or below, a percentage of the peak.
Above(s, pct) == s.peak > 0 /\ 100 * (s.peak - s.equity) > pct * s.peak

Below(s, pct) == s.peak = 0 \/ 100 * (s.peak - s.equity) < pct * s.peak

-----------------------------------------------------------------------------
(* RiskManager *)

AtEquity(s, e) ==
    [s EXCEPT !.equity = e, !.peak = IF e > @ THEN e ELSE @]

\* Mutant of AfterEquity: an equity recovery ends the penalty.
AfterEquityForgives(s, e) ==
    LET n == AtEquity(s, e) IN
    IF Above(n, ReducePct) THEN [n EXCEPT !.active = ReducedRisk]
    ELSE IF Below(n, RestorePct) THEN [n EXCEPT !.active = DefaultRisk]
    ELSE n

AfterEquity(s, e) ==
    LET n == AtEquity(s, e) IN
    IF Above(n, ReducePct) THEN [n EXCEPT !.active = ReducedRisk]
    ELSE IF Below(n, RestorePct) /\ n.remaining = 0
         THEN [n EXCEPT !.active = DefaultRisk]
    ELSE n

Streak(s, won) == IF won THEN 0 ELSE s.losses + 1

\* A loss that makes or prolongs a streak starts the penalty afresh.
Punished(s, won) == ~won /\ Streak(s, won) >= StreakLength

\* Mutant of AfterTrade: the end of the penalty does not look at the drawdown.
AfterTradeBlind(s, won) ==
    LET left == IF Punished(s, won) THEN ReducedTrades ELSE s.remaining
        n    == [s EXCEPT !.losses = Streak(s, won)]
    IN  IF left = 0 THEN n
        ELSE [n EXCEPT !.remaining = left - 1,
                       !.active = IF left = 1 THEN DefaultRisk ELSE ReducedRisk]

\* The trade that triggers the penalty is counted against it at once.
AfterTrade(s, won) ==
    LET left == IF Punished(s, won) THEN ReducedTrades ELSE s.remaining
        n    == [s EXCEPT !.losses = Streak(s, won)]
    IN  IF left = 0 THEN n
        ELSE [n EXCEPT !.remaining = left - 1,
                       !.active = IF left = 1 /\ Below(s, ReducePct)
                                  THEN DefaultRisk ELSE ReducedRisk]

-----------------------------------------------------------------------------
(* The callers *)

RiskInit ==
    /\ risk = FreshRisk /\ riskRow = FreshRisk
    /\ unsavedRisk = FALSE
    /\ since = ReducedTrades /\ sinceDisk = ReducedTrades

\* equity_update_task: update_equity, then save_risk_state at once.
UpdateEquity(e) ==
    /\ risk' = AfterEquity(risk, e)
    /\ riskRow' = risk' /\ sinceDisk' = since
    /\ unsavedRisk' = FALSE
    /\ UNCHANGED since

\* _on_candle_closed: record_trade_result; the alerts come before the save.
RecordTrade(won) ==
    /\ risk.losses < StreakCap
    /\ risk' = AfterTrade(risk, won)
    /\ since' = IF Punished(risk, won) THEN 0
                ELSE IF since < ReducedTrades THEN since + 1 ELSE since
    /\ unsavedRisk' = TRUE
    /\ UNCHANGED <<riskRow, sinceDisk>>

SaveRisk ==
    /\ unsavedRisk
    /\ riskRow' = risk /\ sinceDisk' = since
    /\ unsavedRisk' = FALSE
    /\ UNCHANGED <<risk, since>>

\* The process dies; setup() reads the row back.
RiskCrash ==
    /\ risk' = riskRow /\ since' = sinceDisk
    /\ unsavedRisk' = FALSE
    /\ UNCHANGED <<riskRow, sinceDisk>>

RiskNext ==
    \/ \E e \in Equities : UpdateEquity(e)
    \/ \E won \in BOOLEAN : RecordTrade(won)
    \/ SaveRisk
    \/ RiskCrash

RiskSpec == RiskInit /\ [][RiskNext]_riskVars

-----------------------------------------------------------------------------
(* Properties *)

\* Every variable keeps its type.
RiskTypeOK ==
    /\ risk \in RiskState /\ riskRow \in RiskState
    /\ unsavedRisk \in BOOLEAN
    /\ since \in 0..ReducedTrades /\ sinceDisk \in 0..ReducedTrades

\* While the drawdown is above drawdown_reduce_threshold the reduced risk is
\* active, whatever trades are recorded and whichever penalty runs out in the
\* meantime (risk_manager.py:41, risk_manager.py:64).
DrawdownReducesRisk == Above(risk, ReducePct) => risk.active = ReducedRisk

\* A streak of losses keeps the reduced risk active until ReducedTrades - 1
\* further trades are recorded: neither an equity recovery nor a won trade in
\* between ends the penalty early (risk_manager.py:45, risk_manager.py:64).
PenaltyServed ==
    since < ReducedTrades - 1 =>
        /\ risk.remaining = ReducedTrades - 1 - since
        /\ risk.active = ReducedRisk

\* The default risk comes back only when no penalty is left and the drawdown
\* is below drawdown_reduce_threshold, or with a row saved earlier.
RestoreNeedsCause ==
    [][ risk.active = ReducedRisk /\ risk'.active = DefaultRisk =>
          \/ risk'.remaining = 0 /\ Below(risk', ReducePct)
          \/ risk' = riskRow ]_riskVars

=============================================================================
