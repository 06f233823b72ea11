------------------------------ MODULE MCLedgers ------------------------------
(***************************************************************************)
(* What accounts for money or for requests, as components of the suite of  *)
(* MCComponents: the rate limiter (RateLimiter), the REST client, the      *)
(* replay tools, the paper executor and the research backtest.             *)
(***************************************************************************)
EXTENDS RateLimiter

CONSTANTS NoPosition,
          Attempts,                                              \* of RestClient
          Tools, Shapes, Markets,  Length, PerDay, PerTrend,     \* of Replay
          WarmUp, SweepSession, TimeStop, LongStop, Whole, DayLimit, Reduce, Restore,
          LossRun, Pause, Split, Fee, Slip, Trail,
          Coins, Prices, Quantities, Slips,                      \* of PaperExecutor
          MaxOrders, MaxReboots,                                 \* its bounds
          BackBars, Sizes, Distances, Frame,                         \* of Backtest
          Scale, Initial                                         \* of those with money

(* A request is attempted at least once.  Prices and quantities are        *)
(* positive, and no slippage takes a whole price.  The bars of the backtest *)
(* are numbers, and what stands for no position is not a number.           *)
ASSUME LedgerAssumption ==
    /\ Attempts \in Nat \ {0}
    /\ Prices \subseteq Nat \ {0} /\ Quantities \subseteq Nat \ {0}
    /\ Slips \subseteq Nat /\ \A p \in Prices, slip \in Slips : slip <= p
    /\ Scale \in Nat /\ Initial \in Nat
    /\ \A c \in BackBars : c.low \in Int /\ c.high \in Int /\ c.close \in Int
    /\ Sizes \subseteq Int /\ Distances \subseteq Int /\ Frame \in Nat
    /\ NoPosition \notin Int

(* The replay tools that exist; candles, distances and fees are numbers. *)
ASSUME ReplayAssumption ==
    /\ Tools \subseteq {"sweep", "btc", "fast", "full", "extended", "continuation", "swing"}
    /\ \A c \in Shapes : c.low \in Int /\ c.high \in Int /\ c.close \in Int
    /\ \A m \in Markets : m.sig # NoPosition =>
                            m.sig.side \in {"long", "short"} /\ m.sig.gap \in Int
    /\ Length \in Nat /\ {Fee, Slip, Trail, Whole, Split} \subseteq Int

\* One request of the REST client after another.
VARIABLES kind, at, attempt, stale, executed, doubts, result

Rest == INSTANCE RestClient

\* The replay tools.
VARIABLES tool, variant, trends, bar, b, tally, price, stage

Replays == INSTANCE Replay WITH
    Candles <- Shapes, None <- NoPosition, Session <- SweepSession,
    now <- bar, phase <- stage

\* The paper executor.
VARIABLES quote, holdings, balance, equitySaved, known, told, twice, orders, reboots

Paper == INSTANCE PaperExecutor WITH
    Symbols <- Coins, None <- NoPosition, MaxRestarts <- MaxReboots,
    price <- quote, positions <- holdings, equity <- equitySaved, book <- known,
    again <- twice, restarts <- reboots

\* The backtest.
VARIABLES count, current, doing, position, capital, trades

Back == INSTANCE Backtest WITH
    Bars <- BackBars, None <- NoPosition, Length <- Frame, i <- count, bar <- current, phase <- doing

(* What stands for no position is none. *)
ASSUME NoPositionAssumption == NoPosition \notin Back!Position

restVars == <<kind, at, attempt, stale, executed, doubts, result>>
replayVars == <<tool, variant, trends, bar, b, tally, price, stage>>
paperVars == <<quote, holdings, balance, equitySaved, known, told, twice, orders, reboots>>
backVars == <<count, current, doing, position, capital, trades>>
=============================================================================
