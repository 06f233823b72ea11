------------------------------ MODULE Backtest ------------------------------
(***************************************************************************)
(* The backtest engine of the research (research/engine/backtest.py with   *)
(* costs.py): bar by bar, first the levels of the open position, then the  *)
(* action the signal function gives, one position at a time.               *)
(*                                                                         *)
(* Prices and sizes are small integers; money is counted in costs, of      *)
(* which a unit of notional has one for each leg (fee and slippage), and   *)
(* Scale of them make one unit of price.  What the signal function         *)
(* computes is left open: any action may come with any bar.                *)
(***************************************************************************)
EXTENDS Totals, SequencesExt

CONSTANTS Bars,       \* [low, high, close]
          Sizes,
          Distances,  \* of a stop, a target or a trailing stop from the entry
          None,
          Length,     \* bars of the data frame
          Scale, Initial

VARIABLES i,         \* bars taken, _bar_count
          bar,       \* the bar in hand
          phase,     \* bar: take the next one; signal: its levels were not hit; done
          position, capital,
          trades     \* the trade log

btVars == <<i, bar, phase, position, capital, trades>>

Init ==
    /\ i = 0 /\ bar \in Bars
    /\ phase = "bar"
    /\ position = None /\ capital = Initial
    /\ trades = <<>>

Dir(side) == IF side = "LONG" THEN 1 ELSE -1
Cost(price, size) == price * size

(* The price at which a bar is best and worst for a side, and whether a    *)
(* price is at least as good as another.                                   *)
BestOf(b, side) == IF side = "LONG" THEN b.high ELSE b.low
WorstOf(b, side) == IF side = "LONG" THEN b.low ELSE b.high
NoWorse(side, p, q) == Dir(side) * (p - q) >= 0
-----------------------------------------------------------------------------
(* The trailing stop follows the best price of the bar, and never back.    *)
Trailed(pos, b) ==
    IF pos.distance = None THEN pos
    ELSE LET level == BestOf(b, pos.side) - Dir(pos.side) * pos.distance
         IN [pos EXCEPT !.trail = IF NoWorse(pos.side, @, level) THEN @ ELSE level,
                        !.best = IF NoWorse(pos.side, @, BestOf(b, pos.side))
                                 THEN @ ELSE BestOf(b, pos.side)]

(* The levels a bar reaches, and the one that counts: the stop, then the   *)
(* trailing stop, then the target.                                         *)
HitsStop(pos, b) == pos.stop # None /\ NoWorse(pos.side, pos.stop, WorstOf(b, pos.side))
HitsTrail(pos, b) == pos.trail # None /\ NoWorse(pos.side, pos.trail, WorstOf(b, pos.side))
HitsTarget(pos, b) == pos.target # None /\ NoWorse(pos.side, BestOf(b, pos.side), pos.target)

Hit(pos, b) ==
    IF HitsStop(pos, b) THEN [reason |-> "stop_loss", price |-> pos.stop]
    ELSE IF HitsTrail(pos, b) THEN [reason |-> "trailing_stop", price |-> pos.trail]
    ELSE IF HitsTarget(pos, b) THEN [reason |-> "take_profit", price |-> pos.target]
    ELSE None

(* _close_position: the cost of both legs is taken from the trade, and the *)
(* notional is given back with it although no entry took it.               *)
Closed(pos, price, reason) ==
    LET gross == Scale * (price - pos.entry) * pos.size * Dir(pos.side)
        cost == Cost(pos.entry, pos.size) + Cost(price, pos.size)
    IN /\ trades' = Append(trades, [side |-> pos.side, entry |-> pos.entry, exit |-> price,
                                    size |-> pos.size, since |-> pos.since, until |-> i',
                                    net |-> gross - cost, reason |-> reason])
       /\ capital' = capital + gross - cost + Scale * pos.entry * pos.size
       /\ position' = None

(* A bar that hits a level closes the position and is done. *)
TakeBar ==
    /\ phase = "bar" /\ i < Length
    /\ i' = i + 1
    /\ bar' \in Bars
    /\ IF position = None
       THEN phase' = "signal" /\ UNCHANGED <<position, capital, trades>>
       ELSE LET pos == Trailed(position, bar')
                hit == Hit(pos, bar')
            IN IF hit = None
               THEN phase' = "signal" /\ position' = pos /\ UNCHANGED <<capital, trades>>
               ELSE phase' = "bar" /\ Closed(pos, hit.price, hit.reason)

NoAction ==
    /\ phase = "signal"
    /\ phase' = "bar"
    /\ UNCHANGED <<i, bar, position, capital, trades>>

CloseAction ==
    /\ phase = "signal" /\ position # None
    /\ phase' = "bar"
    /\ UNCHANGED <<i, bar>>
    /\ Closed(position, bar.close, "signal_close")

Level(entry, sign, d) == IF d = None THEN None ELSE entry + sign * d

(* buy or sell: entered at the close, with its cost. *)
EntryAction(side, size, stop, target, distance) ==
    /\ phase = "signal" /\ position = None
    /\ phase' = "bar"
    /\ position' = [side |-> side, entry |-> bar.close, size |-> size, since |-> i,
                    stop |-> Level(bar.close, -Dir(side), stop),
                    target |-> Level(bar.close, Dir(side), target),
                    distance |-> distance,
                    trail |-> Level(bar.close, -Dir(side), distance),
                    best |-> bar.close]
    /\ capital' = capital - Cost(bar.close, size)
    /\ UNCHANGED <<i, bar, trades>>

EndOfData ==
    /\ phase = "bar" /\ i = Length
    /\ phase' = "done"
    /\ UNCHANGED <<i, bar>>
    /\ IF position = None THEN UNCHANGED <<position, capital, trades>>
       ELSE Closed(position, bar.close, "end_of_data")

Done == phase = "done" /\ UNCHANGED btVars

Next ==
    \/ TakeBar \/ NoAction \/ CloseAction \/ EndOfData \/ Done
    \/ \E side \in {"LONG", "SHORT"}, size \in Sizes,
          stop, target, distance \in Distances \cup {None} :
            EntryAction(side, size, stop, target, distance)

Spec == Init /\ [][Next]_btVars
-----------------------------------------------------------------------------
Position ==
    [side : {"LONG", "SHORT"}, entry : Int, size : Sizes, since : Nat,
     stop : Int \cup {None}, target : Int \cup {None},
     distance : Distances \cup {None}, trail : Int \cup {None}, best : Int]

TypeOK ==
    /\ i \in 0..Length /\ bar \in Bars
    /\ phase \in {"bar", "signal", "done"}
    /\ capital \in Int
    /\ position # None => position \in Position /\ position.since \in 1..i
    /\ \A t \in Range(trades) : t.net \in Int /\ t.until \in 1..Length

(* The capital is what the trades made and the open position has cost: the *)
(* cost of an entry is taken twice, and the notional of a closed trade     *)
(* comes on top (backtest.py:215, 254, 275).                               *)
Charged(p) == Cost(p.entry, p.size)
Earned(t) == t.net - Charged(t) + Scale * t.entry * t.size
Accounted ==
    capital = Initial - (IF position = None THEN 0 ELSE Charged(position))
              + Total([k \in DOMAIN trades |-> Earned(trades[k])])

(* A position outlives only bars that reach none of its levels, and its    *)
(* trailing stop is its distance behind the best price it has seen, so it  *)
(* never goes back; trades do not overlap, and none is closed by the bar   *)
(* it was entered on, unless that is the last (backtest.py:124-199).       *)
Protected ==
    /\ phase = "signal" /\ position # None => Hit(position, bar) = None
    /\ position # None /\ position.distance # None =>
         position.trail = position.best - Dir(position.side) * position.distance
    /\ \A k \in DOMAIN trades :
          /\ trades[k].since < trades[k].until \/ trades[k].reason = "end_of_data"
          /\ k > 1 => trades[k - 1].until <= trades[k].since

BacktestHolds == Accounted /\ Protected
=============================================================================
