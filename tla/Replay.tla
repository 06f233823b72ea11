------------------------------- MODULE Replay -------------------------------
(***************************************************************************)
(* The replay tools of tools/: each walks once through the candles of one  *)
(* symbol, manages what it holds, counts what it lost and may enter.  They *)
(* grew from one another and differ in their gates, so each loop is an     *)
(* operator of its own.                                                    *)
(*                                                                         *)
(* What the market does (the candle, whether the regime filter passes,     *)
(* whether a regime is strong, and what the signal engine says) is chosen  *)
(* by the environment; a signal enters at the close.  Losses and drawdowns *)
(* are money here where the code takes shares of the equity, a quantity is *)
(* whole or halved as the risk is, and the cap by the leverage is left out. *)
(***************************************************************************)
EXTENDS ReplayBook, FiniteSetsExt

CONSTANTS Tools,     \* the tools that are run
          Candles,   \* [low, high, close] a candle may have
          Markets,   \* [sig, regime, strong]; sig is None or [side, gap]
          None,
          Length,    \* bound: candles
          PerDay,    \* candles of a day
          PerTrend,  \* candles of a 4H candle
          WarmUp,    \* 4H candles before the averages count (50)
          Session,   \* candles within the session of a variant
          TimeStop,  \* time_stop_candles
          LongStop,  \* the same on 15 minute candles
          Whole,     \* quantity at full risk
          DayLimit,  \* daily_loss_limit_pct
          Reduce,    \* drawdown_reduce_threshold
          Restore,   \* drawdown_restore_threshold
          LossRun,   \* consecutive_loss_threshold
          Pause,     \* candles for which three losses count (24 h)
          Split,     \* the first candle out of sample
          Initial    \* INITIAL_EQUITY

VARIABLES tool,    \* the script that runs
          variant, \* its parameters: [session, regime, risk, wide]
          trends,  \* trend of the 4H candles: a side, or None for NEUTRAL
          now,     \* candles walked through
          b,       \* the book
          tally,   \* [counted, losses, lost, reduced, when]
          price,   \* the last close
          phase    \* run, broke (equity gone), over

vars == <<tool, variant, trends, now, b, tally, price, phase>>

NoTally == [counted |-> 0, losses |-> 0, lost |-> 0, reduced |-> FALSE, when |-> <<>>]

VariantParams == [session : BOOLEAN, regime : BOOLEAN,
                  risk : {"fixed", "half_weak", "pause_3l"}, wide : {0, 1}]

(* The scripts differ in the parameters they vary. *)
Variants(t) ==
    {v \in VariantParams :
       /\ v.wide # 0 => t \in {"sweep", "btc", "fast"}
       /\ v.session => t \in {"extended", "continuation"}
       /\ v.regime \/ v.risk # "fixed" => t = "swing"}

Bars == 1..(Length \div PerTrend)

Init ==
    /\ tool \in Tools
    /\ variant \in Variants(tool)
    /\ trends \in {f \in [Bars -> {"long", "short", None}] : \A k \in Bars : k <= WarmUp => f[k] = None}
    /\ now = 0
    /\ b = NewBook(Initial)
    /\ tally = NoTally
    /\ price = 0
    /\ phase = "run"
-----------------------------------------------------------------------------
(* The trend at a candle is that of the last 4H candle closed by then.  The *)
(* first tools look for it from the start, the fast one by bisection.       *)
PlainTrend(t) ==
    LET past == {k \in Bars : k * PerTrend <= t}
    IN IF past = {} THEN None ELSE trends[Max(past)]

BisectRight(t) == Cardinality({k \in Bars : k * PerTrend <= t})

FastTrend(t) == IF BisectRight(t) = 0 THEN None ELSE trends[BisectRight(t)]

ExtendedTrend(t) == PlainTrend(t)

ContinuationTrend(t) == PlainTrend(t)

(* The index is at least 0: before the first 4H candle has closed that is *)
(* one of the warm-up, which has no trend.                                 *)
SwingTrend(t) == FastTrend(t)
-----------------------------------------------------------------------------
(* The losses of trades recorded since the last candle.  A result of the   *)
(* price alone decides; a day's loss also counts the fees.  A win ends the *)
(* run of losses.                                                          *)
New(y, trades) == (y.counted + 1)..Len(trades)
Wins(y, trades) == {k \in New(y, trades) : trades[k].r >= 0}

Run(y, trades) ==
    IF Wins(y, trades) = {} THEN y.losses + Cardinality(New(y, trades))
    ELSE Len(trades) - Max(Wins(y, trades))

Counted(y, trades) ==
    LET lost == [k \in DOMAIN trades |->
                   IF k \in New(y, trades) \ Wins(y, trades) /\ trades[k].net < 0
                   THEN -trades[k].net ELSE 0]
    IN [y EXCEPT !.counted = Len(trades), !.losses = Run(y, trades), !.lost = @ + Total(lost)]

(* The risk is reduced in a drawdown and restored below another one unless *)
(* too many trades in a row were lost.                                     *)
Adjusted(y, book) ==
    LET drawdown == book.peak - book.equity
    IN IF drawdown > Reduce THEN [y EXCEPT !.reduced = TRUE]
       ELSE IF drawdown < Restore /\ y.losses < LossRun THEN [y EXCEPT !.reduced = FALSE]
       ELSE y

(* A new date forgets the loss of the day. *)
Dated(y, t) == IF (t - 1) % PerDay = 0 THEN [y EXCEPT !.lost = 0] ELSE y

DayTally(book, t) == Adjusted(Counted(Dated(tally, t), book.trades), book)

(* The swing tool keeps the ends of the losses since the last win. *)
LossTimes(y, trades) ==
    LET wins == Wins(y, trades)
        from == IF wins = {} THEN y.counted ELSE Max(wins)
    IN [y EXCEPT !.when = (IF wins = {} THEN @ ELSE <<>>)
                          \o [k \in 1..(Len(trades) - from) |-> trades[from + k].until],
                 !.counted = Len(trades)]

Quantity(reduced) == IF reduced THEN Whole \div 2 ELSE Whole

Sized(book, sig, gap, c, t, reduced) ==
    Enter(book, sig.side, c.close, c.close - gap * Dir(sig.side), Quantity(reduced), t)

InSession(t) == variant.session => t \in Session
-----------------------------------------------------------------------------
(* A candle of a tool gives its book, its tally and whether it goes on.    *)
Goes(book, y) == [book |-> book, tally |-> y, goes |-> TRUE]
Breaks(book, y) == [book |-> book, tally |-> y, goes |-> FALSE]
-----------------------------------------------------------------------------
(* replay_v2_sweep.py: one position, the day's loss, the regime, a signal  *)
(* with the trend, a wider stop.                                           *)
SweepEnter(book, sig, gap, c, t, reduced) == Sized(book, sig, gap, c, t, reduced)

SweepClose(book, p, at, t) == Close(book, p, at, t)

SweepMetrics(trades, sample) == Metrics(trades, sample)

SweepManaged(c, t) == Managed(b, c, TimeStop, t, SweepClose)

SweepTally(book, t) == DayTally(book, t)

SweepAllows(book, y, m, t) ==
    /\ y.lost < DayLimit
    /\ Len(book.opens) < 1
    /\ m.regime
    /\ m.sig # None
    /\ m.sig.side = PlainTrend(t)

SweepCandle(c, m, t) ==
    LET book == SweepManaged(c, t)
        y == SweepTally(book, t)
    IN IF ~SweepAllows(book, y, m, t) THEN Goes(book, y)
       ELSE IF book.equity <= 0 THEN Breaks(book, y)
       ELSE Goes(SweepEnter(book, m.sig, m.sig.gap + variant.wide, c, t, y.reduced), y)

SweepFinished(p) == Finished(b, p, Length, SweepClose)

SweepReport(trades) == Report(trades, Split, SweepMetrics)
-----------------------------------------------------------------------------
(* replay_v2_sweep_btc.py is the same script for another symbol.           *)
BtcEnter(book, sig, gap, c, t, reduced) == Sized(book, sig, gap, c, t, reduced)

BtcClose(book, p, at, t) == Close(book, p, at, t)

BtcMetrics(trades, sample) == Metrics(trades, sample)

BtcManaged(c, t) == Managed(b, c, TimeStop, t, BtcClose)

BtcTally(book, t) == DayTally(book, t)

BtcTrend(t) == PlainTrend(t)

BtcAllows(book, y, m, t) ==
    /\ y.lost < DayLimit
    /\ Len(book.opens) < 1
    /\ m.regime
    /\ m.sig # None
    /\ m.sig.side = BtcTrend(t)

BtcCandle(c, m, t) ==
    LET book == BtcManaged(c, t)
        y == BtcTally(book, t)
    IN IF ~BtcAllows(book, y, m, t) THEN Goes(book, y)
       ELSE IF book.equity <= 0 THEN Breaks(book, y)
       ELSE Goes(BtcEnter(book, m.sig, m.sig.gap + variant.wide, c, t, y.reduced), y)

BtcFinished(p) == Finished(b, p, Length, BtcClose)

BtcReport(trades) == Report(trades, Split, BtcMetrics)
-----------------------------------------------------------------------------
(* replay_v2_sweep_fast.py: the same with its own lookup of the trend.     *)
FastEnter(book, sig, gap, c, t, reduced) == Sized(book, sig, gap, c, t, reduced)

FastClose(book, p, at, t) == Close(book, p, at, t)

FastMetrics(trades, sample) == Metrics(trades, sample)

FastManaged(c, t) == Managed(b, c, TimeStop, t, FastClose)

FastTally(book, t) == DayTally(book, t)

FastAllows(book, y, m, t) ==
    /\ y.lost < DayLimit
    /\ Len(book.opens) < 1
    /\ m.regime
    /\ m.sig # None
    /\ m.sig.side = FastTrend(t)

FastCandle(c, m, t) ==
    LET book == FastManaged(c, t)
        y == FastTally(book, t)
    IN IF ~FastAllows(book, y, m, t) THEN Goes(book, y)
       ELSE IF book.equity <= 0 THEN Breaks(book, y)
       ELSE Goes(FastEnter(book, m.sig, m.sig.gap + variant.wide, c, t, y.reduced), y)

FastFinished(p) == Finished(b, p, Length, FastClose)

FastReport(trades) == Report(trades, Split, FastMetrics)
-----------------------------------------------------------------------------
(* replay_full.py: no trend.  Its metrics are those of reports/metrics.py, *)
(* and it splits its trades by thirds of the period, not by sample.        *)
FullMetrics(trades, sample) ==
    [Metrics(trades, sample) EXCEPT !.wins = Cardinality({k \in sample : trades[k].net > 0})]

FullEnter(book, sig, gap, c, t, reduced) == Sized(book, sig, gap, c, t, reduced)

FullClose(book, p, at, t) == Close(book, p, at, t)

FullManaged(c, t) == Managed(b, c, TimeStop, t, FullClose)

FullTally(book, t) == DayTally(book, t)

FullAllows(book, y, m) ==
    y.lost < DayLimit /\ Len(book.opens) < 1 /\ m.regime /\ m.sig # None

FullCandle(c, m, t) ==
    LET book == FullManaged(c, t)
        y == FullTally(book, t)
    IN IF ~FullAllows(book, y, m) THEN Goes(book, y)
       ELSE IF book.equity <= 0 THEN Breaks(book, y)
       ELSE Goes(FullEnter(book, m.sig, m.sig.gap, c, t, y.reduced), y)

FullFinished(p) == Finished(b, p, Length, FullClose)

Third == Length \div 3

(* The three periods of thirty days. *)
FullPeriod(trades, k) ==
    LET end == IF k = 3 THEN Length ELSE k * Third
    IN {j \in DOMAIN trades : (k - 1) * Third < trades[j].since /\ trades[j].since <= end}

FullReport(trades) ==
    [full |-> FullMetrics(trades, DOMAIN trades),
     in |-> FullMetrics(trades, FullPeriod(trades, 1) \cup FullPeriod(trades, 2)),
     out |-> FullMetrics(trades, FullPeriod(trades, 3))]
-----------------------------------------------------------------------------
(* replay_v2_extended.py: the session is asked before the regime. *)
ExtendedEnter(book, sig, gap, c, t, reduced) == Sized(book, sig, gap, c, t, reduced)

ExtendedClose(book, p, at, t) == Close(book, p, at, t)

ExtendedMetrics(trades, sample) == Metrics(trades, sample)

ExtendedManaged(c, t) == Managed(b, c, TimeStop, t, ExtendedClose)

ExtendedTally(book, t) == DayTally(book, t)

ExtendedAllows(book, y, m, t) ==
    /\ y.lost < DayLimit
    /\ Len(book.opens) < 1
    /\ InSession(t)
    /\ m.regime
    /\ m.sig # None
    /\ m.sig.side = ExtendedTrend(t)

ExtendedCandle(c, m, t) ==
    LET book == ExtendedManaged(c, t)
        y == ExtendedTally(book, t)
    IN IF ~ExtendedAllows(book, y, m, t) THEN Goes(book, y)
       ELSE IF book.equity <= 0 THEN Breaks(book, y)
       ELSE Goes(ExtendedEnter(book, m.sig, m.sig.gap, c, t, y.reduced), y)

ExtendedFinished(p) == Finished(b, p, Length, ExtendedClose)

ExtendedReport(trades) == Report(trades, Split, ExtendedMetrics)
-----------------------------------------------------------------------------
(* replay_trend_continuation.py: up to two positions, no limit of a day;   *)
(* the equity is asked before the gates, and the signal is made for the    *)
(* side of the trend.                                                      *)
ContinuationEnter(book, sig, gap, c, t) == Sized(book, sig, gap, c, t, FALSE)

ContinuationClose(book, p, at, t) == Close(book, p, at, t)

ContinuationMetrics(trades, sample) == Metrics(trades, sample)

ContinuationManaged(c, t) == Managed(b, c, LongStop, t, ContinuationClose)

ContinuationAllows(m, t) ==
    InSession(t) /\ m.sig # None /\ m.sig.side = ContinuationTrend(t)

ContinuationCandle(c, m, t) ==
    LET book == ContinuationManaged(c, t)
        room == Len(book.opens) < 2
    IN IF room /\ book.equity <= 0 THEN Breaks(book, tally)
       ELSE IF room /\ ContinuationAllows(m, t)
       THEN Goes(ContinuationEnter(book, m.sig, m.sig.gap, c, t), tally)
       ELSE Goes(book, tally)

ContinuationFinished(p) == Finished(b, p, Length, ContinuationClose)

ContinuationReport(trades) == Report(trades, Split, ContinuationMetrics)
-----------------------------------------------------------------------------
(* replay_sb_v2.py: like that, with a regime to choose and half the risk   *)
(* in a weak one, or a pause while three losses in a row lie within a day. *)
SwingEnter(book, sig, gap, c, t, halved) == Sized(book, sig, gap, c, t, halved)

SwingClose(book, p, at, t) == Close(book, p, at, t)

SwingMetrics(trades, sample) == Metrics(trades, sample)

SwingManaged(c, t) == Managed(b, c, LongStop, t, SwingClose)

Paused(y, t) ==
    /\ variant.risk = "pause_3l"
    /\ Cardinality({i \in DOMAIN y.when : y.when[i] > t - Pause}) >= 3

SwingAllows(y, m, t) ==
    /\ InSession(t)
    /\ SwingTrend(t) # None
    /\ variant.regime => m.strong
    /\ ~Paused(y, t)
    /\ m.sig # None
    /\ m.sig.side = SwingTrend(t)

SwingCandle(c, m, t) ==
    LET book == SwingManaged(c, t)
        y == LossTimes(tally, book.trades)
        room == Len(book.opens) < 2
        halved == variant.risk = "half_weak" /\ ~m.strong
    IN IF room /\ book.equity <= 0 THEN Breaks(book, y)
       ELSE IF room /\ SwingAllows(y, m, t)
       THEN Goes(SwingEnter(book, m.sig, m.sig.gap, c, t, halved), y)
       ELSE Goes(book, y)

SwingFinished(p) == Finished(b, p, Length, SwingClose)

SwingReport(trades) == Report(trades, Split, SwingMetrics)
-----------------------------------------------------------------------------
CandleOf(c, m, t) ==
    CASE tool = "sweep" -> SweepCandle(c, m, t)
      [] tool = "btc" -> BtcCandle(c, m, t)
      [] tool = "fast" -> FastCandle(c, m, t)
      [] tool = "full" -> FullCandle(c, m, t)
      [] tool = "extended" -> ExtendedCandle(c, m, t)
      [] tool = "continuation" -> ContinuationCandle(c, m, t)
      [] tool = "swing" -> SwingCandle(c, m, t)

FinishedBy(p) ==
    CASE tool = "sweep" -> SweepFinished(p)
      [] tool = "btc" -> BtcFinished(p)
      [] tool = "fast" -> FastFinished(p)
      [] tool = "full" -> FullFinished(p)
      [] tool = "extended" -> ExtendedFinished(p)
      [] tool = "continuation" -> ContinuationFinished(p)
      [] tool = "swing" -> SwingFinished(p)

ReportBy(trades) ==
    CASE tool = "sweep" -> SweepReport(trades)
      [] tool = "btc" -> BtcReport(trades)
      [] tool = "fast" -> FastReport(trades)
      [] tool = "full" -> FullReport(trades)
      [] tool = "extended" -> ExtendedReport(trades)
      [] tool = "continuation" -> ContinuationReport(trades)
      [] tool = "swing" -> SwingReport(trades)
-----------------------------------------------------------------------------
Candle(c, m) ==
    /\ phase = "run"
    /\ now < Length
    /\ now' = now + 1
    /\ LET r == CandleOf(c, m, now')
       IN /\ b' = r.book
          /\ tally' = r.tally
          /\ phase' = IF r.goes THEN "run" ELSE "broke"
    /\ price' = c.close
    /\ UNCHANGED <<tool, variant, trends>>

(* The last close of the data ends what is open, also when the loop was    *)
(* left long before.                                                       *)
Finish(p) ==
    /\ \/ phase = "run" /\ now = Length /\ p = price
       \/ phase = "broke" /\ (now = Length => p = price)
    /\ b' = FinishedBy(p)
    /\ phase' = "over"
    /\ UNCHANGED <<tool, variant, trends, now, tally, price>>

Next ==
    \/ \E c \in Candles, m \in Markets : Candle(c, m)
    \/ \E c \in Candles : Finish(c.close)
    \/ phase = "over" /\ UNCHANGED vars

Spec == Init /\ [][Next]_vars
-----------------------------------------------------------------------------
(* Every variable has its type. *)
TypeOK ==
    /\ tool \in Tools
    /\ variant \in Variants(tool)
    /\ now \in 0..Length
    /\ phase \in {"run", "broke", "over"}
    /\ tally.counted \in 0..Len(b.trades)

(* The executor's equity is always the initial one, what the recorded      *)
(* trades say they earned and what the open positions have realised.       *)
EquityAddsUp ==
    b.equity = Initial + Total([k \in DOMAIN b.trades |-> b.trades[k].net])
                       + Total([k \in DOMAIN b.opens |-> b.opens[k].result - b.opens[k].fees])

(* Over the whole period the trades earn the change of the equity, and     *)
(* every one of them counts in exactly one sample.                         *)
ReportAgrees ==
    phase = "over" =>
        LET r == ReportBy(b.trades)
        IN /\ r.full.net = b.equity - Initial
           /\ r.in.total + r.out.total = r.full.total
           /\ r.in.net + r.out.net = r.full.net

(* The money of a tool is accounted for three times, in the executor, in   *)
(* the trades and in the report, through partial exits, trailing stops and *)
(* the end of the data, and the three agree (replay_v2_sweep.py:228, 304,  *)
(* 723, replay_full.py:514).                                               *)
Ledger == EquityAddsUp /\ ReportAgrees
=============================================================================
