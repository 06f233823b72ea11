----------------------------- MODULE MCComponents -----------------------------
(***************************************************************************)
(* The components whose safety is checked one at a time: the v5 runner     *)
(* (V5ForwardTest, with the constants of the cfg), the brakes, the risk    *)
(* manager, the rate limiter, the REST client, the first forward test, the *)
(* replay tools with the scripts around them, the liquidations and the     *)
(* research telemetry of the v5 runner, the research collectors, backtest  *)
(* and walk-forward split, the paper executor, and what the swing-break    *)
(* engine is fed.  They share no state in this module: `focus' says which  *)
(* one a behaviour is about, and the others rest in their first state.     *)
(***************************************************************************)
EXTENDS V5ForwardTest, Brakes, RiskManager, MCLedgers, MCFeeds, MCForward, TLC

VARIABLE focus

\* Two instants a day, two days a week, so that the cooldown of the brakes
\* (three instants) can straddle a midnight and a Monday.
MCHorizon == 6
MCDay == [t \in 0..MCHorizon |-> t \div 2]
MCWeek == [t \in 0..MCHorizon |-> t \div 4]

\* From a peak of 100 the drawdowns are 0, 5, 12 and 20 percent.
MCEquities == {80, 88, 95, 100}

\* The replay tools: five candles in two days and two trends; of the prices
\* some reach a target, a stop or a trailing stop.
Bar(low, high, close) == [low |-> low, high |-> high, close |-> close]
Shown(sig, regime, strong) == [sig |-> sig, regime |-> regime, strong |-> strong]

MCShapes == {Bar(20, 32, 31), Bar(9, 20, 10), Bar(14, 26, 20)}
MCMarkets == {Shown(NoPosition, TRUE, TRUE),
              Shown([side |-> "long", gap |-> 4], TRUE, TRUE),
              Shown([side |-> "short", gap |-> 4], TRUE, FALSE),
              Shown([side |-> "long", gap |-> 4], FALSE, TRUE)}

\* The backtest: four bars, of which some reach a level of an earlier entry.
MCBars == {Bar(4, 6, 5), Bar(5, 9, 8), Bar(2, 5, 3)}

\* The scripts: periods of four candles at most.
MCEnds == [i \in {"1m", "5m", "15m", "4h", "1d"} |->
             CASE i = "1m" -> 4 [] i = "5m" -> 3 [] OTHER -> 2]
MCGrid == <<"a", "b", "c">>

Score(qualified, full, in, out, calmar) ==
    [qualified |-> qualified, full |-> full, in |-> in, out |-> out, calmar |-> calmar]
MCScores == {Score(TRUE, 1, 1, 1, 2), Score(TRUE, 1, 1, 1, 3), Score(TRUE, 1, 1, 0, 4),
             Score(TRUE, 0, 0, 0, 0), Score(FALSE, 2, 1, 1, 5)}

\* The collectors: a dataset of each kind.
MCOrder == <<"ohlcv", "funding", "oi", "liquidations">>
MCKind == [d \in {"ohlcv", "funding", "oi", "liquidations"} |->
             CASE d = "ohlcv" -> "candles" [] d = "funding" -> "funding"
               [] d = "oi" -> "recent" [] OTHER -> "daily"]

\* What the swing-break engine is fed: two candles to a four-hour one and four
\* to a day.
MCIntervals == <<"4h", "1d">>
MCPeriod == [i \in {"4h", "1d"} |-> IF i = "4h" THEN 2 ELSE 4]
MCWarm == [i \in {"4h", "1d"} |-> 1]

allVars == <<focus, vars, brakeVars, riskVars, limiterVars, restVars, replayVars, scriptVars,
             forwardVars, cacheVars, teleVars, collectVars, paperVars, backVars, walkVars, swingVars>>

\* A component that is out of focus rests in one of its first states.
MCInit ==
    /\ focus \in {"v5", "brakes", "risk", "limiter", "rest", "replay", "scripts", "forward",
                  "cache", "telemetry", "collectors", "paper", "backtest", "walkforward", "swing"}
    /\ Init /\ BrakesInit /\ RiskInit /\ LimiterInit /\ Rest!Init
    /\ Forward!Init /\ Tele!Init /\ Collectors!Init /\ Paper!Init
    /\ Replays!Init
    /\ focus # "replay" => tool = "full" /\ \A k \in DOMAIN trends : trends[k] = NoPosition
    /\ Scripted!Init
    /\ focus # "scripts" => script = "full"
    /\ Cache!Init
    /\ focus # "cache" => key
    /\ Back!Init
    /\ focus # "backtest" => current = CHOOSE c \in BackBars : TRUE
    /\ Walk!Init
    /\ focus # "walkforward" => history = HistoryDays
    /\ Swing!Init
    /\ focus # "swing" => now15 = 0

\* A step of one component leaves all the others alone.
Only(f) ==
    /\ focus = f
    /\ UNCHANGED focus
    /\ f # "v5" => UNCHANGED vars
    /\ f # "brakes" => UNCHANGED brakeVars
    /\ f # "risk" => UNCHANGED riskVars
    /\ f # "limiter" => UNCHANGED limiterVars
    /\ f # "rest" => UNCHANGED restVars
    /\ f # "replay" => UNCHANGED replayVars
    /\ f # "scripts" => UNCHANGED scriptVars
    /\ f # "forward" => UNCHANGED forwardVars
    /\ f # "cache" => UNCHANGED cacheVars
    /\ f # "telemetry" => UNCHANGED teleVars
    /\ f # "collectors" => UNCHANGED collectVars
    /\ f # "paper" => UNCHANGED paperVars
    /\ f # "backtest" => UNCHANGED backVars
    /\ f # "walkforward" => UNCHANGED walkVars
    /\ f # "swing" => UNCHANGED swingVars

MCNext ==
    \/ Only("v5") /\ Next
    \/ Only("brakes") /\ BrakesNext
    \/ Only("risk") /\ RiskNext
    \/ Only("limiter") /\ LimiterNext
    \/ Only("rest") /\ Rest!Next
    \/ Only("replay") /\ Replays!Next
    \/ Only("scripts") /\ Scripted!Next
    \/ Only("forward") /\ Forward!Next
    \/ Only("cache") /\ Cache!Next
    \/ Only("telemetry") /\ Tele!Next
    \/ Only("collectors") /\ Collectors!Next
    \/ Only("paper") /\ Paper!Next
    \/ Only("backtest") /\ Back!Next
    \/ Only("walkforward") /\ Walk!Next
    \/ Only("swing") /\ Swing!Next

MCSpec == MCInit /\ [][MCNext]_allVars

Interchangeable == Permutations(Uuids) \cup Permutations(Symbols)
-----------------------------------------------------------------------------
\* Every variable of the component in focus has its type; the others have not
\* moved.
TypesHold ==
    /\ focus = "v5" => TypeOK
    /\ focus = "brakes" => BrakesTypeOK
    /\ focus = "risk" => RiskTypeOK
    /\ focus = "limiter" => LimiterTypeOK
    /\ focus = "rest" => Rest!TypeOK
    /\ focus = "replay" => Replays!TypeOK
    /\ focus = "scripts" => Scripted!TypeOK
    /\ focus = "forward" => Forward!TypeOK
    /\ focus = "cache" => Cache!TypeOK
    /\ focus = "telemetry" => Tele!TypeOK
    /\ focus = "collectors" => Collectors!TypeOK
    /\ focus = "paper" => Paper!TypeOK
    /\ focus = "backtest" => Back!TypeOK
    /\ focus = "walkforward" => Walk!TypeOK
    /\ focus = "swing" => Swing!TypeOK

\* An answer of the REST client can be relied on as far as it goes, through
\* retries and lost answers (binance_rest.py:67-122).
AnswerIsTrue == focus = "rest" => Rest!AnswerIsTrue

\* The equity of a replay is what its trades and open positions account for,
\* and its report adds up to it (replay_v2_sweep.py:228, 304, 723).  The
\* paper executor holds what the bot believes it holds, and its balance is
\* what the bot was told (paper_executor.py:85-109).  The capital of a
\* backtest is what its trades explain, and no position outlives a bar that
\* reaches one of its levels (backtest.py:124-199, 275).
Ledger ==
    /\ focus = "replay" => Replays!Ledger
    /\ focus = "paper" => Paper!PaperLedger
    /\ focus = "backtest" => Back!BacktestHolds

\* What a script replays is the history without a gap or a repetition, from
\* its first candle on (replay_v2_sweep.py:97-147), and so is what the
\* research collectors store, whatever cuts them short
\* (parquet_store.py:85-124); the walk-forward split tests on days after the
\* ones it trained on, and on each once (walkforward.py:52-76).
HistoryIsWhole ==
    /\ focus = "scripts" => Scripted!HistoryIsWhole
    /\ focus = "collectors" => Collectors!StoreIsWhole
    /\ focus = "walkforward" => Walk!OutOfSample

\* The recommendation of the parallel sweep does not depend on the order in
\* which its workers end (replay_v2_sweep_fast.py:994, 883).
AdviceIsStable == focus = "scripts" => Scripted!AdviceIsStable

\* A position of the first forward test is in the table or recorded as a
\* trade, whatever crash comes, but for one entry per failed statement
\* (forward_test.py:608-671, 489); nothing the v5 runner logs vanishes before
\* the process ends but what its queue or tables and then the spool file
\* refused, and the shadow exits of a trade agree with its end
\* (v6_telemetry.py:159-192, 261-271, 318-331).
NothingLost ==
    /\ focus = "forward" => Forward!NothingLost
    /\ focus = "telemetry" => Tele!TelemetryKept

\* The engine trades on the liquidations the table holds
\* (v5_forward_test.py:623, 746, 783); the swing-break engine decides on
\* candles that have closed, without a gap and no older than the answers it
\* missed (swing_break_engine.py:156-183, 301-317).
FedIsCurrent ==
    /\ focus = "cache" => Cache!FedIsCurrent
    /\ focus = "swing" => Swing!EngineIsFed

\* A candle is entered at most once on a side, also when it is handled again
\* (forward_test.py:697-702).
OneEntryPerKey == focus = "forward" => Forward!OneEntryPerKey
=============================================================================
