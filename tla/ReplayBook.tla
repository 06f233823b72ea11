----------------------------- MODULE ReplayBook -----------------------------
(***************************************************************************)
(* What the replay tools of tools/ have in common: simulated fills, the    *)
(* positions they open, one candle of management, and the result of a      *)
(* trade.  Every tool carries its own copy of this code; Replay names the  *)
(* copies one by one, so the operators below that would call a copy take   *)
(* it as a parameter.                                                      *)
(*                                                                         *)
(* Prices, money and quantities are integers.  A fee is paid per unit (the *)
(* code takes a share of the notional), slippage is a fixed step of price  *)
(* and the trailing distance (2.5 ATR) is fixed.  A book is the executor   *)
(* with the open positions and the recorded trades.                        *)
(***************************************************************************)
EXTENDS Totals, FiniteSets

CONSTANTS Fee,    \* fee per unit filled
          Slip,   \* slippage of a fill
          Trail   \* the distance of the trailing stop

Dir(side) == IF side = "long" THEN 1 ELSE -1
Larger(a, b) == IF a >= b THEN a ELSE b

NewBook(initial) ==
    [equity |-> initial, peak |-> initial, opens |-> <<>>, trades |-> <<>>]

(* fill_entry. *)
EntryPrice(price, side) == price + Slip * Dir(side)

(* fill_exit of a part of a position. *)
Gain(p, price, qty) == ((price - Slip * Dir(p.side)) - p.entry) * Dir(p.side) * qty

Exit(b, p, price, qty) ==
    LET equity == b.equity + Gain(p, price, qty) - Fee * qty
    IN [b EXCEPT !.equity = equity, !.peak = Larger(@, equity)]

Opened(side, price, stop, qty, t) ==
    [side |-> side, entry |-> EntryPrice(price, side), qty |-> qty, orig |-> qty,
     stop |-> stop, initial |-> stop, tp1 |-> FALSE, trail |-> 0, held |-> 0,
     result |-> 0, fees |-> Fee * qty, since |-> t]

Enter(b, side, price, stop, qty, t) ==
    [b EXCEPT !.equity = @ - Fee * qty,
              !.opens = Append(@, Opened(side, price, stop, qty, t))]

Distance(p) == Larger(p.entry - p.initial, p.initial - p.entry)

(* The position is closed and its trade recorded: the result in R is that  *)
(* of the price alone (in units of money here), and 0 when the stop was at *)
(* the entry; the result in money has the fees taken off.                  *)
Close(b, p, price, t) ==
    LET gross == p.result + Gain(p, price, p.qty)
    IN [Exit(b, p, price, p.qty) EXCEPT !.trades = Append(@,
            [r |-> IF Distance(p) > 0 THEN gross ELSE 0, net |-> gross - (p.fees + Fee * p.qty),
             since |-> p.since, until |-> t])]

(* The R multiple at a price is at least num/den. *)
Reaches(p, price, num, den) ==
    /\ Distance(p) > 0
    /\ den * (price - p.entry) * Dir(p.side) >= num * Distance(p)

(* The time stop is asked before the stop: a candle that fell through the  *)
(* stop closes a late position at its close.                               *)
Late(p, c, limit) == p.held >= limit /\ ~p.tp1 /\ ~Reaches(p, c.close, 1, 2)

StopHit(p, c) == IF p.side = "long" THEN c.low <= p.stop ELSE c.high >= p.stop

(* Half of it is closed at 1.5 R, once. *)
TakesProfit(p, c) == ~p.tp1 /\ Reaches(p, c.close, 3, 2)

(* Mutant of Halved: the fee of the partial exit is not the position's.    *)
HalvedFree(p, c) ==
    LET half == p.qty \div 2
    IN [p EXCEPT !.tp1 = TRUE, !.qty = @ - half, !.result = @ + Gain(p, c.close, half)]

Halved(p, c) ==
    LET half == p.qty \div 2
    IN [p EXCEPT !.tp1 = TRUE, !.qty = @ - half,
                 !.result = @ + Gain(p, c.close, half), !.fees = @ + Fee * half]

(* From then on the stop follows; 0 stands for no trailing stop yet. *)
Trailed(p, c) ==
    LET new == c.close - Trail * Dir(p.side)
        trail == IF p.side = "long" THEN Larger(new, p.trail)
                 ELSE IF p.trail = 0 \/ new < p.trail THEN new ELSE p.trail
        closer == IF p.side = "long" THEN trail > p.stop
                  ELSE trail < p.stop \/ p.stop = 0
    IN IF p.tp1 THEN [p EXCEPT !.trail = trail, !.stop = IF closer THEN trail ELSE @]
       ELSE p

Kept(b, p) == [b EXCEPT !.opens = Append(@, p)]

ManagedOne(b, old, c, limit, t, close(_, _, _, _)) ==
    LET p == [old EXCEPT !.held = @ + 1]
    IN IF Late(p, c, limit) THEN close(b, p, c.close, t)
       ELSE IF StopHit(p, c) THEN close(b, p, p.stop, t)
       ELSE IF TakesProfit(p, c)
       THEN Kept(Exit(b, p, c.close, p.qty \div 2), Trailed(Halved(p, c), c))
       ELSE Kept(b, Trailed(p, c))

(* Every open position in the order of opening. *)
Managed(b, c, limit, t, close(_, _, _, _)) ==
    LET book[k \in 0..Len(b.opens)] ==
            IF k = 0 THEN [b EXCEPT !.opens = <<>>]
            ELSE ManagedOne(book[k - 1], b.opens[k], c, limit, t, close)
    IN book[Len(b.opens)]

(* The end of the data closes what is left at its last price. *)
Finished(b, price, t, close(_, _, _, _)) ==
    LET book[k \in 0..Len(b.opens)] ==
            IF k = 0 THEN [b EXCEPT !.opens = <<>>]
            ELSE close(book[k - 1], b.opens[k], price, t)
    IN book[Len(b.opens)]
-----------------------------------------------------------------------------
(* compute_metrics, as far as the reports rank by it: the ratios it derives *)
(* (win rate, profit factor, CAGR, Calmar, R squared, Sharpe) are left out. *)
(* A sample is the set of the trades, by their places in the log, that     *)
(* count; the curve steps by whole trades, in the order in which they      *)
(* ended, and the drawdown is the deepest fall from an earlier point of it. *)
Results(trades, sample) ==
    [k \in DOMAIN trades |-> IF k \in sample THEN trades[k].net ELSE 0]

Metrics(trades, sample) ==
    LET curve == Sums(Results(trades, sample))
        falls == {curve[span[1]] - curve[span[2]] :
                    span \in {s \in (0..Len(trades)) \X (0..Len(trades)) : s[1] <= s[2]}}
    IN [total |-> Cardinality(sample),
        wins |-> Cardinality({k \in sample : trades[k].r > 0}),
        net |-> Total(Results(trades, sample)),
        drawdown |-> CHOOSE fall \in falls : \A other \in falls : other <= fall]

(* The trades entered before the end of the sample, and the others. *)
InSample(trades, end) == {k \in DOMAIN trades : trades[k].since < end}
OutOfSample(trades, end) == {k \in DOMAIN trades : trades[k].since >= end}

Report(trades, end, metrics(_, _)) ==
    [full |-> metrics(trades, DOMAIN trades),
     in |-> metrics(trades, InSample(trades, end)),
     out |-> metrics(trades, OutOfSample(trades, end))]
=============================================================================
