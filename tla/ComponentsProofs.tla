------------------------- MODULE ComponentsProofs -------------------------
(***************************************************************************)
(* Theorems about the suite of MCComponents: a behaviour of the suite is a *)
(* behaviour of each component, whichever of them is in focus, so what is  *)
(* proved of the components holds of it.                                   *)
(***************************************************************************)
EXTENDS MCComponents, V5ForwardTestProofs, RiskProofs, LedgerProofs, ForwardProofs, FeedProofs

(* The suite runs each component as its own module says. *)
LEMMA SuiteRunsRest == MCSpec => Rest!Spec
<1>1. MCInit => Rest!Init
  BY DEF MCInit
<1>2. [MCNext]_allVars => [Rest!Next]_Rest!vars
  BY DEF MCNext, Only, allVars, restVars, Rest!vars
<1> QED BY <1>1, <1>2, PTL DEF MCSpec, Rest!Spec

LEMMA SuiteRunsReplays == MCSpec => Replays!Spec
<1>1. MCInit => Replays!Init
  BY DEF MCInit
<1>2. [MCNext]_allVars => [Replays!Next]_Replays!vars
  BY DEF MCNext, Only, allVars, replayVars, Replays!vars
<1> QED BY <1>1, <1>2, PTL DEF MCSpec, Replays!Spec

LEMMA SuiteRunsForward == MCSpec => Forward!Spec
<1>1. MCInit => Forward!Init
  BY DEF MCInit
<1>2. [MCNext]_allVars => [Forward!Next]_Forward!vars
  BY DEF MCNext, Only, allVars, forwardVars, Forward!vars, Forward!memory
<1> QED BY <1>1, <1>2, PTL DEF MCSpec, Forward!Spec

LEMMA SuiteRunsTele == MCSpec => Tele!Spec
<1>1. MCInit => Tele!Init
  BY DEF MCInit
<1>2. [MCNext]_allVars => [Tele!Next]_Tele!vars
  BY DEF MCNext, Only, allVars, teleVars, Tele!vars, Tele!worker, Tele!store
<1> QED BY <1>1, <1>2, PTL DEF MCSpec, Tele!Spec

LEMMA SuiteRunsPaper == MCSpec => Paper!Spec
<1>1. MCInit => Paper!Init
  BY DEF MCInit
<1>2. [MCNext]_allVars => [Paper!Next]_Paper!paperVars
  BY DEF MCNext, Only, allVars, paperVars, Paper!paperVars
<1> QED BY <1>1, <1>2, PTL DEF MCSpec, Paper!Spec

LEMMA SuiteRunsBack == MCSpec => Back!Spec
<1>1. MCInit => Back!Init
  BY DEF MCInit
<1>2. [MCNext]_allVars => [Back!Next]_Back!btVars
  BY DEF MCNext, Only, allVars, backVars, Back!btVars
<1> QED BY <1>1, <1>2, PTL DEF MCSpec, Back!Spec

LEMMA SuiteRunsScripted == MCSpec => Scripted!Spec
<1>1. MCInit => Scripted!Init
  BY DEF MCInit
<1>2. [MCNext]_allVars => [Scripted!Next]_Scripted!vars
  BY DEF MCNext, Only, allVars, scriptVars, Scripted!vars
<1> QED BY <1>1, <1>2, PTL DEF MCSpec, Scripted!Spec

LEMMA SuiteRunsCollectors == MCSpec => Collectors!Spec
<1>1. MCInit => Collectors!Init
  BY DEF MCInit
<1>2. [MCNext]_allVars => [Collectors!Next]_Collectors!vars
  BY DEF MCNext, Only, allVars, collectVars, Collectors!vars, Collectors!job
<1> QED BY <1>1, <1>2, PTL DEF MCSpec, Collectors!Spec

LEMMA SuiteRunsWalk == MCSpec => Walk!Spec
<1>1. MCInit => Walk!Init
  BY DEF MCInit
<1>2. [MCNext]_allVars => [Walk!Next]_Walk!wfVars
  BY DEF MCNext, Only, allVars, walkVars, Walk!wfVars
<1> QED BY <1>1, <1>2, PTL DEF MCSpec, Walk!Spec

LEMMA SuiteRunsCache == MCSpec => Cache!Spec
<1>1. MCInit => Cache!Init
  BY DEF MCInit
<1>2. [MCNext]_allVars => [Cache!Next]_Cache!vars
  <2>1. UNCHANGED cacheVars => UNCHANGED Cache!vars
    BY DEF cacheVars, Cache!vars, Cache!memory
  <2>2. [MCNext]_allVars => Cache!Next \/ UNCHANGED cacheVars
    BY DEF MCNext, Only, allVars
  <2> QED BY <2>1, <2>2
<1> QED BY <1>1, <1>2, PTL DEF MCSpec, Cache!Spec

LEMMA SuiteRunsSwing == MCSpec => Swing!Spec
<1>1. MCInit => Swing!Init
  BY DEF MCInit
<1>2. [MCNext]_allVars => [Swing!Next]_Swing!sbVars
  BY DEF MCNext, Only, allVars, swingVars, Swing!sbVars
<1> QED BY <1>1, <1>2, PTL DEF MCSpec, Swing!Spec
-----------------------------------------------------------------------------
(* No answer of the REST client claims more than what happened: what it    *)
(* reports as done was done, once (binance_rest.py:67-122).                *)
THEOREM AnswerIsTrueHolds == MCSpec => []AnswerIsTrue
<1>1. Rest!AnswerIsTrue => AnswerIsTrue
  BY DEF AnswerIsTrue
<1> QED BY <1>1, SuiteRunsRest, AnswerHolds, PTL

(* The books add up in each of the three programs that keep one: every     *)
(* cent of a replay, of the paper executor and of a backtest is explained  *)
(* (replay_v2_sweep.py:228, paper_executor.py:85, backtest.py:275).        *)
THEOREM LedgerHolds == MCSpec => []Ledger
<1>1. Replays!Ledger /\ Paper!PaperLedger /\ Back!BacktestHolds => Ledger
  BY DEF Ledger
<1> QED BY <1>1, SuiteRunsReplays, SuiteRunsPaper, SuiteRunsBack,
           ReplayLedgerHolds, PaperLedgerHolds, BacktestLedgerHolds, PTL

(* Neither a crash of the first forward test nor a full queue of the       *)
(* telemetry loses what was promised (forward_test.py:608-671,             *)
(* v6_telemetry.py:159-192).                                               *)
THEOREM SuiteLosesNothing == MCSpec => []NothingLost
<1>1. Forward!NothingLost /\ Tele!TelemetryKept => NothingLost
  BY DEF NothingLost
<1> QED BY <1>1, SuiteRunsForward, SuiteRunsTele, NothingLostHolds, TelemetryKeptHolds, PTL

(* A candle is entered at most once on a side, also when a restart has it  *)
(* handled again (forward_test.py:697-702).                                *)
THEOREM SuiteEntersOnce == MCSpec => []OneEntryPerKey
<1>1. Forward!OneEntryPerKey => OneEntryPerKey
  BY DEF OneEntryPerKey
<1> QED BY <1>1, SuiteRunsForward, OneEntryPerKeyHolds, PTL

(* What a script replays and what the collectors store has no gap and no   *)
(* repetition, whatever cuts them short, and the walk-forward split tests  *)
(* each day once, after those it trained on (replay_v2_sweep.py:97-147,    *)
(* parquet_store.py:85-124, walkforward.py:52-76).                         *)
THEOREM HistoryIsWholeHolds == MCSpec => []HistoryIsWhole
<1>1. Scripted!HistoryIsWhole /\ Collectors!StoreIsWhole /\ Walk!OutOfSample => HistoryIsWhole
  BY DEF HistoryIsWhole
<1> QED BY <1>1, SuiteRunsScripted, SuiteRunsCollectors, SuiteRunsWalk,
           ScriptHistoryHolds, StoreIsWholeHolds, OutOfSampleHolds, PTL

(* What the engines decide on is current: the liquidations are those of    *)
(* the table, and the higher candles have closed, follow each other and    *)
(* are no older than missed answers explain (v5_forward_test.py:623, 746,  *)
(* 783, swing_break_engine.py:156-183, 301-317).                           *)
THEOREM SuiteIsFed == MCSpec => []FedIsCurrent
<1>1. Cache!FedIsCurrent /\ Swing!EngineIsFed => FedIsCurrent
  BY DEF FedIsCurrent
<1> QED BY <1>1, SuiteRunsCache, SuiteRunsSwing, CacheIsCurrent, EngineIsFedHolds, PTL

(* The recommendation of a sweep does not depend on the order in which its *)
(* workers end, and no variant is missing from it whose worker did not     *)
(* fail (replay_v2_sweep_fast.py:994, 883).                                *)
THEOREM AdviceIsStableHolds == MCSpec => []AdviceIsStable
<1>1. Scripted!AdviceIsStable => AdviceIsStable
  BY DEF AdviceIsStable
<1> QED BY <1>1, SuiteRunsScripted, AdviceHolds, PTL
-----------------------------------------------------------------------------
LEMMA SuiteRunsV5 == MCSpec => Spec
<1>1. MCInit => Init
  BY DEF MCInit
<1>2. [MCNext]_allVars => [Next]_vars
  <2>1. [MCNext]_allVars => Next \/ UNCHANGED vars
    BY DEF MCNext, Only, allVars
  <2> QED BY <2>1
<1> QED BY <1>1, <1>2, PTL DEF MCSpec, Spec

LEMMA SuiteRunsBrakes == MCSpec => BrakesSpec
<1>1. MCInit => BrakesInit
  BY DEF MCInit
<1>2. [MCNext]_allVars => [BrakesNext]_brakeVars
  BY DEF MCNext, Only, allVars
<1> QED BY <1>1, <1>2, PTL DEF MCSpec, BrakesSpec

LEMMA SuiteRunsRisk == MCSpec => RiskSpec
<1>1. MCInit => RiskInit
  BY DEF MCInit
<1>2. [MCNext]_allVars => [RiskNext]_riskVars
  BY DEF MCNext, Only, allVars
<1> QED BY <1>1, <1>2, PTL DEF MCSpec, RiskSpec

LEMMA SuiteRunsLimiter == MCSpec => LimiterSpec
<1>1. MCInit => LimiterInit
  BY DEF MCInit
<1>2. [MCNext]_allVars => [LimiterNext]_limiterVars
  BY DEF MCNext, Only, allVars
<1> QED BY <1>1, <1>2, PTL DEF MCSpec, LimiterSpec

(* Every variable of every component keeps its type. *)
THEOREM SuiteTypes == MCSpec => []TypesHold
<1>1. LimiterInv => LimiterTypeOK
  BY DEF LimiterInv
<1>2. /\ TypeOK /\ BrakesTypeOK /\ RiskTypeOK /\ LimiterTypeOK /\ Rest!TypeOK
      /\ Replays!TypeOK /\ Scripted!TypeOK /\ Forward!TypeOK /\ Cache!TypeOK
      /\ Tele!TypeOK /\ Collectors!TypeOK /\ Paper!TypeOK /\ Back!TypeOK
      /\ Walk!TypeOK /\ Swing!TypeOK
      => TypesHold
  BY DEF TypesHold
<1>3. MCSpec => [](Rest!TypeOK /\ Replays!TypeOK /\ Scripted!TypeOK /\ Forward!TypeOK
                   /\ Tele!TypeOK /\ Paper!TypeOK /\ Back!TypeOK)
  BY SuiteRunsRest, SuiteRunsReplays, SuiteRunsScripted, SuiteRunsForward, SuiteRunsTele,
     SuiteRunsPaper, SuiteRunsBack, RequestTypeOK, ReplayTypeOK, ScriptTypeOK, ForwardTypeOK,
     TelemetryTypeOK, PaperTypeOK, BacktestTypeOK, PTL
<1>4. MCSpec => [](Cache!TypeOK /\ Collectors!TypeOK /\ Walk!TypeOK /\ Swing!TypeOK)
  BY SuiteRunsCache, SuiteRunsCollectors, SuiteRunsWalk, SuiteRunsSwing, CacheTypeOK,
     CollectTypeOK, WalkTypeOK, SwingTypeOK, PTL
<1>5. MCSpec => [](TypeOK /\ BrakesTypeOK /\ RiskTypeOK /\ LimiterTypeOK)
  BY <1>1, SuiteRunsV5, SuiteRunsBrakes, SuiteRunsRisk, SuiteRunsLimiter, TypeInvariant,
     BrakesTypes, RiskTypes, BucketPays, PTL
<1> QED BY <1>2, <1>3, <1>4, <1>5, PTL
=============================================================================
