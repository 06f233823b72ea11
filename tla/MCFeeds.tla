------------------------------- MODULE MCFeeds -------------------------------
(***************************************************************************)
(* What gathers or serves histories, as components of the suite of         *)
(* MCComponents: the scripts around the replay tools, the liquidations of  *)
(* the v5 runner, the research collectors and walk-forward split, and what *)
(* the swing-break engine is fed.                                          *)
(***************************************************************************)
EXTENDS Integers, Sequences, FiniteSets

CONSTANTS NoRow,
          Scripts, Ends, Beyond, ScriptPage, Grid, Scores, Workers,  \* of ReplayScripts
          MaxCuts, MaxBroken,                                        \* its bounds
          Streams, MaxDays, Enough, KeepDays, Lookback, MinLookback,     \* of LiquidationCache
          Recent, RegimeDays, Backward, Closes, Volumes,
          LastDay, MaxMessages, MaxEnds, MaxFaults,                  \* its bounds
          DatasetOrder, Kind, Torn, ResearchPage, RecentRows,               \* of Collection
          LastHour, MaxTimeouts, MaxKills,                           \* its bounds
          HistoryDays, TrainDays, TestDays, StepDays, MinTrain,      \* of WalkForward
          MaxTrades,                                                 \* its bound
          FeedIntervals, Period, Warm, TradingHours,                     \* of SwingBreak
          LastCandle, MaxMisses, MaxStarts                           \* its bounds

(* Days are numbers, and the windows of the split move on by at least the   *)
(* days they test, as configured (walkforward.py:19-22: both are 30).      *)
ASSUME SplitAssumption ==
    /\ HistoryDays \subseteq Nat
    /\ TrainDays \in Nat /\ TestDays \in Nat /\ StepDays \in Nat
    /\ TestDays <= StepDays

(* Every dataset has a kind, a page at least one row, and the source a      *)
(* first day.                                                              *)
ASSUME CollectAssumption ==
    /\ DatasetOrder \in Seq(DOMAIN Kind) /\ DatasetOrder # <<>>
    /\ ResearchPage \in Nat \ {0} /\ RecentRows \in Nat /\ LastHour \in Nat \ {0}

(* There are eight scripts and five intervals, a page has a candle, a       *)
(* variant is in the grid once, and a score is made of numbers.            *)
ASSUME ScriptAssumption ==
    /\ Scripts \subseteq {"sweep", "btc", "fast", "full", "extended", "continuation", "swing",
                        "runner"}
    /\ Ends \in [{"1m", "5m", "15m", "4h", "1d"} -> Nat] /\ Beyond \in Nat
    /\ ScriptPage \in Nat \ {0} /\ MaxCuts \in Nat
    /\ Grid \in Seq({Grid[k] : k \in DOMAIN Grid}) /\ Grid # <<>>
    /\ \A j, k \in DOMAIN Grid : Grid[j] = Grid[k] => j = k
    /\ Scores \subseteq [qualified : BOOLEAN, full : Int, in : Int, out : Int, calmar : Int]

\* The scripts around the replay tools.
VARIABLES script, fetched, step, from, cuts, waiting, pool, results, failed, part

Scripted == INSTANCE ReplayScripts WITH
    Page <- ScriptPage, MaxFails <- MaxBroken, at <- step, running <- pool, phase <- part

(* A symbol is not seeded without a row missing, and no cascade is seen    *)
(* without a row (30 each, v5_forward_test.py and                          *)
(* liq_cluster_engine_v5.py).  A day without a row is not a row.           *)
ASSUME CacheAssumption ==
    /\ NoRow \notin Streams /\ NoRow \notin [volume : Nat, close : Int]
    /\ Volumes \subseteq Nat /\ Closes \subseteq Int
    /\ Enough \in Nat \ {0} /\ MinLookback \in Nat \ {0} /\ KeepDays \in Nat \ {0}
    /\ MaxDays \in Nat /\ LastDay \in Nat

\* The liquidations of the v5 runner.
VARIABLES today, rows, committed, tracker, active, refresh, lastDate, stream, dirty, key,
          messages, ends, faults

Cache == INSTANCE LiquidationCache WITH
    Symbols <- Streams, Keep <- KeepDays, None <- NoRow, Back <- Backward, Prices <- Closes,
    MaxStops <- MaxEnds, MaxErrors <- MaxFaults,
    saved <- committed, stops <- ends, errors <- faults

\* The research collectors.
VARIABLES hour, file, dataset, leg, cursor, until, got, timeouts, kills

Collectors == INSTANCE Collection WITH
    Order <- DatasetOrder, None <- NoRow, Page <- ResearchPage, Window <- RecentRows, Horizon <- LastHour,
    MaxFails <- MaxTimeouts, MaxCrashes <- MaxKills,
    clock <- hour, at <- dataset, step <- leg, fails <- timeouts, crashes <- kills

\* The walk-forward split.
VARIABLES history, window, splits, fold, params, tested

Walk == INSTANCE WalkForward WITH
    Days <- HistoryDays, None <- NoRow, cursor <- window, trades <- tested

(* Two intervals are asked for, the second even if the first has nothing    *)
(* new, and no candle is known until a number of them is (50 and 90,        *)
(* swing_break_engine.py:309-324).  The bound on time holds a candle.       *)
ASSUME SwingAssumption ==
    /\ FeedIntervals = <<"4h", "1d">>
    /\ Period \in [{"4h", "1d"} -> Nat \ {0}] /\ Warm \in [{"4h", "1d"} -> Nat \ {0}]
    /\ LastCandle \in Nat /\ Period["4h"] <= LastCandle

\* What the swing-break engine is fed.
VARIABLES now15, polled, asking, feed, lastKey, view, late, worst, misses, starts

Swing == INSTANCE SwingBreak WITH
    Intervals <- FeedIntervals, None <- NoRow, Session <- TradingHours, MaxCandles <- LastCandle,
    MaxFails <- MaxMisses, MaxStops <- MaxStarts,
    now <- now15, key <- lastKey, fails <- misses, stops <- starts

scriptVars == <<script, fetched, step, from, cuts, waiting, pool, results, failed, part>>
cacheVars == <<today, rows, committed, tracker, active, refresh, lastDate, stream, dirty, key,
               messages, ends, faults>>
collectVars == <<hour, file, dataset, leg, cursor, until, got, timeouts, kills>>
walkVars == <<history, window, splits, fold, params, tested>>
swingVars == <<now15, polled, asking, feed, lastKey, view, late, worst, misses, starts>>
=============================================================================
