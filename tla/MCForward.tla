------------------------------ MODULE MCForward ------------------------------
(***************************************************************************)
(* The first forward test and the research telemetry of the v5 runner, as  *)
(* two components of the suite of MCComponents, which gives the constants  *)
(* their values.                                                           *)
(***************************************************************************)
EXTENDS Naturals, FiniteSets

CONSTANTS NoTrade,
          Signals, Sides,                 \* of ForwardTest
          MaxShut, MaxPolls, MaxLapses, MaxCrashes,  \* its bounds
          Deals, Rules, Capacity, EarlyBar, PostBars, MaxBars,  \* of Telemetry
          MaxRefusals, MaxHalts           \* its bounds

\* The absence of a trade is not one, nor a number; there are finitely many
\* trades and rules.
ASSUME ForwardAssumption ==
    /\ NoTrade \notin Deals /\ NoTrade \notin Nat
    /\ IsFiniteSet(Deals) /\ IsFiniteSet(Rules)
    /\ MaxShut \in Nat /\ MaxPolls \in Nat /\ MaxLapses \in Nat /\ MaxCrashes \in Nat
    /\ Capacity \in Nat /\ EarlyBar \in Nat
    /\ PostBars \in Nat \ {0} /\ MaxBars \in Nat \ {0}
    /\ MaxRefusals \in Nat /\ MaxHalts \in Nat

\* The first forward test.
VARIABLES shut, up, batch, seen, kept, gone, todo, stand, hand, cooldown, db, entered, polls, lapses, crashes

Forward == INSTANCE ForwardTest WITH
    Uuids <- Signals, MaxCandles <- MaxShut, MaxFails <- MaxLapses, MaxStops <- MaxCrashes,
    closed <- shut, last <- seen, mem <- kept, step <- stand, fails <- lapses, stops <- crashes

\* The telemetry of the v5 runner.
VARIABLES deal, turn, awake, lane, item, post, overflow, shadows, owed, settled, refusals, halts

Tele == INSTANCE Telemetry WITH
    Trades <- Deals, None <- NoTrade, MaxFails <- MaxRefusals, MaxStops <- MaxHalts,
    trade <- deal, up <- awake, queue <- lane, hand <- item, at <- post,
    fails <- refusals, stops <- halts

\* Nor is it an item of the telemetry.
ASSUME NoItemAssumption == NoTrade \notin Tele!Items

forwardVars == <<shut, up, batch, seen, kept, gone, todo, stand, hand, cooldown, db, entered, polls, lapses, crashes>>
teleVars == <<deal, turn, awake, lane, item, post, overflow, shadows, owed, settled, refusals, halts>>
=============================================================================
