------------------------------ MODULE RiskProofs ------------------------------
(***************************************************************************)
(* Proofs about Brakes, for every calendar, limit, cooldown and loss, and  *)
(* about RiskManager, for every balance, threshold, streak and length of   *)
(* the penalty.                                                            *)
(*                                                                         *)
(* The brakes: a counter of the state, read with its reset date, is the    *)
(* sum of the losses reported in that period, in memory as in the row      *)
(* (Counted).  The counters themselves lag behind, since they are cleared  *)
(* only when a check or a loss comes by, so the limits alone are not       *)
(* inductive.                                                              *)
(*                                                                         *)
(* The risk manager: the countdown of the penalty and the number of trades *)
(* recorded after the streak determine each other, in memory as in the     *)
(* row, and a countdown above zero keeps the reduced risk (Penalised).     *)
(***************************************************************************)
EXTENDS Brakes, RiskManager, TLAPS

(* The brakes *)

\* The counters b holds, read with their dates, are what was told.
Counted(b, told) ==
    /\ b.dailyDate <= Day[clock] /\ b.weeklyDate <= Week[clock]
    /\ told.day = IF b.dailyDate = Day[clock] THEN b.daily ELSE 0
    /\ told.week = IF b.weeklyDate = Week[clock] THEN b.weekly ELSE 0
    /\ told.until = b.cooldown

BrakesInv ==
    /\ BrakesTypeOK
    /\ Counted(brakes, truth)
    /\ Counted(brakeRow, saved)
    /\ brakeRow.shutdown => brakes.shutdown
    /\ brakes.review => brakes.paused
    /\ brakeRow.review => brakeRow.paused

-----------------------------------------------------------------------------
(* The operations keep the type of the state *)

\* The dates of an instant are dates, and those of the next are not earlier.
LEMMA Calendar ==
    ASSUME NEW t \in Time
    PROVE  /\ t \in Nat /\ Day[t] \in Nat /\ Week[t] \in Nat
           /\ t + 1 \in Time => /\ Day[t + 1] \in Nat /\ Week[t + 1] \in Nat
                                /\ Day[t] <= Day[t + 1]
                                /\ Week[t] <= Week[t + 1]
<1>1. Day[t] \in Nat /\ Week[t] \in Nat /\ t \in Nat
      BY CalendarAssumption DEF Time
<1>2. t + 1 \in Time => Day[t + 1] \in Nat /\ Week[t + 1] \in Nat
      BY CalendarAssumption
<1>3. QED
      BY <1>1, <1>2, CalendarAssumption

\* Rolling a counter leaves a state of the right type.
LEMMA RollType ==
    ASSUME NEW b \in BrakeState, NEW t \in Time
    PROVE  /\ RollDay(b, t) \in BrakeState
           /\ RollWeek(b, t) \in BrakeState
BY Calendar DEF RollDay, RollWeek, BrakeState

\* check_entry_allowed and record_loss return states of the right type.
LEMMA CheckType ==
    ASSUME NEW b \in BrakeState, NEW t \in Time
    PROVE  AfterCheck(b, t) \in BrakeState
BY RollType DEF AfterCheck

LEMMA LossType ==
    ASSUME NEW b \in BrakeState, NEW t \in Time, NEW loss \in LossSizes
    PROVE  AfterLoss(b, loss, t) \in BrakeState
<1> DEFINE r == RollWeek(RollDay(b, t), t)
<1>1. r \in BrakeState
      BY RollType
<1>2. loss \in Nat /\ Cooldown \in Nat /\ t \in Nat
      BY LimitAssumption, Calendar
<1>3. AfterLoss(b, loss, t) =
        [r EXCEPT !.daily = @ + loss, !.weekly = @ + loss,
                  !.cooldown = IF r.weekly + loss >= WeeklyLimit
                               THEN t + Cooldown ELSE @]
      BY DEF AfterLoss
<1>4. r.daily + loss \in Nat /\ r.weekly + loss \in Nat
      BY <1>1, <1>2 DEF BrakeState
<1>5. (IF r.weekly + loss >= WeeklyLimit THEN t + Cooldown ELSE r.cooldown) \in Nat
      BY <1>1, <1>2 DEF BrakeState
<1> HIDE DEF r
<1>6. QED
      BY <1>1, <1>3, <1>4, <1>5 DEF BrakeState

-----------------------------------------------------------------------------
(* The operations keep the counters equal to what was told *)

\* A check clears what is out of date and changes no count of this period.
LEMMA CheckCounts ==
    ASSUME BrakesTypeOK, Counted(brakes, truth)
    PROVE  Counted(AfterCheck(brakes, clock), truth)
<1>1. clock \in Time /\ brakes \in BrakeState
      BY DEF BrakesTypeOK
<1>2. Day[clock] \in Nat /\ Week[clock] \in Nat
      BY <1>1, Calendar
<1>3. QED
      BY <1>1, <1>2 DEF AfterCheck, RollDay, RollWeek, Counted, BrakeState

\* A loss is added to both counts and, at the weekly limit, earns a cooldown.
LEMMA LossCounts ==
    ASSUME BrakesTypeOK, Counted(brakes, truth), NEW loss \in LossSizes
    PROVE  Counted(AfterLoss(brakes, loss, clock),
                   [truth EXCEPT
                     !.day = @ + loss,
                     !.week = @ + loss,
                     !.until = IF truth.week + loss >= WeeklyLimit
                               THEN clock + Cooldown ELSE @])
<1>1. clock \in Time /\ brakes \in BrakeState /\ truth \in Told
      BY DEF BrakesTypeOK
<1>2. /\ Day[clock] \in Nat /\ Week[clock] \in Nat /\ clock \in Nat
      /\ loss \in Nat /\ Cooldown \in Nat /\ WeeklyLimit \in Nat
      BY <1>1, Calendar, LimitAssumption
<1> DEFINE r == RollWeek(RollDay(brakes, clock), clock)
<1>3. /\ r \in BrakeState
      /\ r.daily = truth.day /\ r.dailyDate = Day[clock]
      /\ r.weekly = truth.week /\ r.weeklyDate = Week[clock]
      /\ r.cooldown = truth.until
      BY <1>1, <1>2 DEF RollDay, RollWeek, Counted, BrakeState, NoDate
<1> HIDE DEF r
<1>4. AfterLoss(brakes, loss, clock) =
        [r EXCEPT !.daily = @ + loss, !.weekly = @ + loss,
                  !.cooldown = IF truth.week + loss >= WeeklyLimit
                               THEN clock + Cooldown ELSE @]
      BY <1>3 DEF AfterLoss, r
<1>5. QED
      BY <1>1, <1>2, <1>3, <1>4 DEF Counted, BrakeState, Told

\* When the clock moves on, a new date forgets the count on both sides.
LEMMA TickCounts ==
    ASSUME BrakesTypeOK, clock + 1 \in Time, clock' = clock + 1,
           NEW b \in BrakeState, NEW told \in Told, Counted(b, told)
    PROVE  /\ b.dailyDate <= Day[clock + 1] /\ b.weeklyDate <= Week[clock + 1]
           /\ Carry(told, clock).day =
                IF b.dailyDate = Day[clock + 1] THEN b.daily ELSE 0
           /\ Carry(told, clock).week =
                IF b.weeklyDate = Week[clock + 1] THEN b.weekly ELSE 0
           /\ Carry(told, clock).until = b.cooldown
           /\ Carry(told, clock) \in Told
<1>1. clock \in Time
      BY DEF BrakesTypeOK
<1>2. /\ Day[clock] \in Nat /\ Week[clock] \in Nat
      /\ Day[clock + 1] \in Nat /\ Week[clock + 1] \in Nat
      /\ Day[clock] <= Day[clock + 1] /\ Week[clock] <= Week[clock + 1]
      BY <1>1, Calendar
<1>3. /\ b.dailyDate <= Day[clock] /\ b.weeklyDate <= Week[clock]
      /\ b.dailyDate \in Int /\ b.weeklyDate \in Int
      /\ told.day \in Nat /\ told.week \in Nat
      BY DEF Counted, BrakeState, Told, NoDate
<1>4. /\ Carry(told, clock) \in Told
      /\ Carry(told, clock).until = told.until
      /\ Carry(told, clock).day = IF Day[clock + 1] = Day[clock] THEN told.day ELSE 0
      /\ Carry(told, clock).week = IF Week[clock + 1] = Week[clock] THEN told.week ELSE 0
      BY <1>3 DEF Carry, Told
<1>5. QED
      BY <1>2, <1>3, <1>4 DEF Counted

-----------------------------------------------------------------------------
(* The invariant *)

LEMMA BrakesStart == BrakesInit => BrakesInv
<1> SUFFICES ASSUME BrakesInit PROVE BrakesInv
    OBVIOUS
<1>1. 0 \in Time /\ Day[0] \in Nat /\ Week[0] \in Nat
      BY CalendarAssumption DEF Time
<1>2. FreshBrakes \in BrakeState
      BY DEF FreshBrakes, BrakeState
<1>3. BrakesTypeOK
      BY <1>1, <1>2 DEF BrakesInit, BrakesTypeOK, Told
<1>4. Counted(brakes, truth) /\ Counted(brakeRow, saved) /\ ~brakeRow.shutdown
      /\ ~brakes.review /\ ~brakeRow.review
      BY <1>1 DEF BrakesInit, Counted, FreshBrakes, NoDate
<1>5. QED
      BY <1>3, <1>4 DEF BrakesInv

LEMMA BrakesStep == BrakesInv /\ [BrakesNext]_brakeVars => BrakesInv'
<1> SUFFICES ASSUME BrakesInv, [BrakesNext]_brakeVars PROVE BrakesInv'
    OBVIOUS
<1> USE DEF BrakesInv
<1>0. /\ clock \in Time /\ brakes \in BrakeState /\ brakeRow \in BrakeState
      /\ unsavedBrakes \in BOOLEAN /\ truth \in Told /\ saved \in Told
      BY DEF BrakesTypeOK
<1>1. CASE ClockTicks
      <2>1. /\ Counted(brakes, truth)' /\ Counted(brakeRow, saved)'
            /\ truth' \in Told /\ saved' \in Told
            BY <1>0, <1>1, TickCounts DEF ClockTicks, Counted
      <2>2. QED
            BY <1>0, <1>1, <2>1 DEF ClockTicks, BrakesTypeOK
<1>2. ASSUME NEW loss \in LossSizes, RecordLoss(loss) PROVE BrakesInv'
      <2>1. Counted(brakes, truth)'
            BY <1>0, <1>2, LossCounts DEF RecordLoss, Counted
      <2>2. brakes' \in BrakeState
            BY <1>0, <1>2, LossType DEF RecordLoss
      <2>3. truth' \in Told
            <3>1. truth.day + loss \in Nat /\ truth.week + loss \in Nat
                  BY <1>0, <1>2, LimitAssumption DEF Told
            <3>2. (IF truth.week + loss >= WeeklyLimit
                   THEN clock + Cooldown ELSE truth.until) \in Nat
                  BY <1>0, LimitAssumption, Calendar DEF Told
            <3>3. QED
                  BY <1>0, <1>2, <3>1, <3>2 DEF RecordLoss, Told
      <2>4. /\ brakes'.shutdown = brakes.shutdown /\ brakes'.review = brakes.review
            /\ brakes'.paused = brakes.paused
            BY <1>0, <1>2 DEF RecordLoss, AfterLoss, RollDay, RollWeek, BrakeState
      <2>5. QED
            BY <1>0, <1>2, <2>1, <2>2, <2>3, <2>4 DEF RecordLoss, BrakesTypeOK, Counted
<1>3. CASE CheckEntry
      <2>1. Counted(brakes, truth)' /\ brakes' \in BrakeState
            BY <1>0, <1>3, CheckCounts, CheckType DEF CheckEntry, Counted
      <2>2. /\ brakes'.shutdown = brakes.shutdown /\ brakes'.review = brakes.review
            /\ brakes'.paused = brakes.paused
            BY <1>0, <1>3 DEF CheckEntry, AfterCheck, RollDay, RollWeek, BrakeState
      <2>3. QED
            BY <1>0, <1>3, <2>1, <2>2 DEF CheckEntry, BrakesTypeOK, Counted
<1>4. ASSUME NEW dd \in Drawdown, EquityCheck(dd) PROVE BrakesInv'
      BY <1>0, <1>4 DEF EquityCheck, AfterEquityCheck, BrakesTypeOK, Counted, BrakeState
<1>5. CASE PauseCommand
      BY <1>0, <1>5 DEF PauseCommand, AfterPause, BrakesTypeOK, Counted, BrakeState
<1>6. CASE ResumeCommand
      BY <1>0, <1>6 DEF ResumeCommand, AfterResume, BrakesTypeOK, Counted, BrakeState
<1>7. CASE FlattenPause
      BY <1>0, <1>7 DEF FlattenPause, AfterPause, BrakesTypeOK, Counted, BrakeState
<1>8. CASE SaveBrakes
      BY <1>0, <1>8 DEF SaveBrakes, BrakesTypeOK, Counted
<1>9. CASE BrakesRestart
      BY <1>0, <1>9 DEF BrakesRestart, BrakesTypeOK, Counted
<1>10. CASE BrakesCrash
      BY <1>0, <1>10 DEF BrakesCrash, BrakesTypeOK, Counted
<1>11. CASE UNCHANGED brakeVars
      BY <1>0, <1>11 DEF brakeVars, BrakesTypeOK, Counted
<1>12. QED
      BY <1>1, <1>2, <1>3, <1>4, <1>5, <1>6, <1>7, <1>8, <1>9, <1>10, <1>11
      DEF BrakesNext

\* The counters in memory and in the row are always what was told of the
\* period they are dated with (brakes.py:55-71, brakes.py:80-96).
THEOREM CountersAreExact == BrakesSpec => []BrakesInv
BY BrakesStart, BrakesStep, PTL DEF BrakesSpec

\* Every variable keeps its type.
THEOREM BrakesTypes == BrakesSpec => []BrakesTypeOK
<1>1. BrakesInv => BrakesTypeOK
      BY DEF BrakesInv
<1>2. QED
      BY <1>1, CountersAreExact, PTL

\* No entry is allowed once the losses of the day or of the week have reached
\* their limit (brakes.py:28-73), for every calendar and every limit.
THEOREM LimitsHold == BrakesSpec => []LimitsEnforced
<1>1. BrakesInv => LimitsEnforced
      <2> SUFFICES ASSUME BrakesInv, EntryAllowed(brakes, clock)
                   PROVE  truth.day < DailyLimit /\ truth.week < WeeklyLimit
          BY DEF LimitsEnforced
      <2>1. clock \in Time /\ brakes \in BrakeState /\ truth \in Told
            BY DEF BrakesInv, BrakesTypeOK
      <2>2. Day[clock] \in Nat /\ Week[clock] \in Nat
            BY <2>1, Calendar
      <2>3. RollDay(brakes, clock).daily = truth.day
            BY <2>1, <2>2 DEF BrakesInv, Counted, RollDay, BrakeState
      <2>4. RollWeek(brakes, clock).weekly = truth.week
            BY <2>1, <2>2 DEF BrakesInv, Counted, RollWeek, BrakeState
      <2>5. QED
            BY <2>1, <2>3, <2>4, LimitAssumption
            DEF EntryAllowed, DayFull, WeekFull, Told
<1>2. QED
      BY <1>1, CountersAreExact, PTL

\* The cooldown earned by a week at its limit is served to its end
\* (brakes.py:42-53, brakes.py:98), whatever happens to the counter meanwhile.
THEOREM CooldownHolds == BrakesSpec => []BrakesCooldownServed
<1>1. BrakesInv => BrakesCooldownServed
      BY DEF BrakesInv, Counted, BrakesCooldownServed, EntryAllowed, Cooling
<1>2. QED
      BY <1>1, CountersAreExact, PTL

\* A shutdown that reached the database is final (brakes.py:32).
THEOREM ShutdownHolds == BrakesSpec => ShutdownIsFinal
<1>1. BrakesInv /\ [BrakesNext]_brakeVars /\ brakeRow.shutdown => (brakeRow.shutdown)'
      <2>1. ASSUME [BrakesNext]_brakeVars
            PROVE  brakeRow' = brakeRow \/ brakeRow' = brakes
            <3>0. ASSUME NEW loss \in LossSizes, RecordLoss(loss)
                  PROVE  brakeRow' = brakeRow
                  BY <3>0 DEF RecordLoss
            <3>1. CASE SaveBrakes \/ BrakesRestart
                  BY <3>1 DEF SaveBrakes, BrakesRestart
            <3>2. CASE ClockTicks \/ CheckEntry
                  BY <3>2 DEF ClockTicks, CheckEntry
            <3>3. CASE \E dd \in Drawdown : EquityCheck(dd)
                  BY <3>3 DEF EquityCheck
            <3>4. CASE PauseCommand \/ ResumeCommand \/ FlattenPause \/ BrakesCrash
                  BY <3>4 DEF PauseCommand, ResumeCommand, FlattenPause, BrakesCrash
            <3>5. CASE UNCHANGED brakeVars
                  BY <3>5 DEF brakeVars
            <3>6. QED
                  BY <2>1, <3>0, <3>1, <3>2, <3>3, <3>4, <3>5 DEF BrakesNext
      <2>2. BrakesInv => (brakeRow.shutdown => brakes.shutdown)
            BY DEF BrakesInv
      <2>3. QED
            BY <2>1, <2>2
<1>2. BrakesInv' /\ brakeRow'.shutdown => ~EntryAllowed(brakes', clock')
      BY DEF BrakesInv, EntryAllowed, Latched
<1>3. BrakesInv /\ BrakesInv' /\ [BrakesNext]_brakeVars =>
        [ /\ brakeRow.shutdown => brakeRow'.shutdown
          /\ brakeRow'.shutdown => ~EntryAllowed(brakes', clock') ]_brakeVars
      BY <1>1, <1>2
<1>4. QED
      BY <1>3, CountersAreExact, PTL DEF BrakesSpec, ShutdownIsFinal

\* A check reopens nothing: what it clears was already read as zero.
LEMMA CheckOpensNothing ==
    ASSUME NEW b \in BrakeState, NEW t \in Time,
           EntryAllowed(AfterCheck(b, t), t)
    PROVE  EntryAllowed(b, t)
<1>1. Day[t] \in Nat /\ Week[t] \in Nat
      BY Calendar
<1>2. QED
      BY <1>1 DEF EntryAllowed, AfterCheck, DayFull, WeekFull, Latched, Cooling,
                  RollDay, RollWeek, BrakeState

\* Neither does a loss: the counters only grow and the cooldown only moves on.
LEMMA LossOpensNothing ==
    ASSUME NEW b \in BrakeState, NEW t \in Time, NEW loss \in LossSizes,
           EntryAllowed(AfterLoss(b, loss, t), t)
    PROVE  EntryAllowed(b, t)
<1> DEFINE r == RollWeek(RollDay(b, t), t)
           m == AfterLoss(b, loss, t)
<1>1. /\ Day[t] \in Nat /\ Week[t] \in Nat /\ loss \in Nat
      /\ DailyLimit \in Nat /\ WeeklyLimit \in Nat
      BY Calendar, LimitAssumption
<1>2. /\ r \in BrakeState
      /\ r.daily = RollDay(b, t).daily /\ r.dailyDate = Day[t]
      /\ r.weekly = RollWeek(b, t).weekly /\ r.weeklyDate = Week[t]
      /\ r.cooldown = b.cooldown /\ Latched(r) = Latched(b)
      <2>1. PICK d : d = RollDay(b, t)
            OBVIOUS
      <2>2. d \in BrakeState /\ r \in BrakeState /\ r = RollWeek(d, t)
            BY <2>1, RollType
      <2>3. /\ d.dailyDate = Day[t] /\ d.cooldown = b.cooldown /\ Latched(d) = Latched(b)
            /\ d.weekly = b.weekly /\ d.weeklyDate = b.weeklyDate
            BY <1>1, <2>1 DEF RollDay, Latched, BrakeState
      <2>4. /\ r.daily = d.daily /\ r.dailyDate = d.dailyDate
            /\ r.weeklyDate = Week[t] /\ r.cooldown = d.cooldown
            /\ Latched(r) = Latched(d)
            BY <1>1, <2>2 DEF RollWeek, Latched, BrakeState
      <2>5. r.weekly = RollWeek(b, t).weekly
            BY <1>1, <2>2, <2>3 DEF RollWeek, BrakeState
      <2>6. QED
            BY <2>1, <2>2, <2>3, <2>4, <2>5
<1>3. m = [r EXCEPT !.daily = @ + loss, !.weekly = @ + loss,
                    !.cooldown = IF r.weekly + loss >= WeeklyLimit
                                 THEN t + Cooldown ELSE @]
      BY DEF AfterLoss
<1> HIDE DEF r
<1>4. /\ m.daily = r.daily + loss /\ m.dailyDate = Day[t]
      /\ m.weekly = r.weekly + loss /\ m.weeklyDate = Week[t]
      /\ m.cooldown = IF r.weekly + loss >= WeeklyLimit
                      THEN t + Cooldown ELSE r.cooldown
      /\ Latched(m) = Latched(r)
      BY <1>2, <1>3 DEF BrakeState, Latched
<1>5. r.daily \in Nat /\ r.weekly \in Nat
      BY <1>2 DEF BrakeState
<1>6. RollDay(m, t).daily = r.daily + loss /\ RollWeek(m, t).weekly = r.weekly + loss
      BY <1>4 DEF RollDay, RollWeek
<1>7. r.weekly + loss < WeeklyLimit /\ r.daily + loss < DailyLimit
      BY <1>1, <1>5, <1>6 DEF EntryAllowed, DayFull, WeekFull, m
<1>8. m.cooldown = b.cooldown
      BY <1>1, <1>2, <1>4, <1>5, <1>7
<1>9. ~Latched(b) /\ ~Cooling(b, t)
      BY <1>2, <1>4, <1>8 DEF EntryAllowed, Cooling, m
<1>10. QED
      BY <1>1, <1>2, <1>5, <1>7, <1>9 DEF EntryAllowed, DayFull, WeekFull

\* Blocked entries are reopened only by /resume, by time or by a restart
\* (brakes.py:28, brakes.py:130).
THEOREM OnlyResumeOrClock == BrakesSpec => OnlyResumeOrClockReopens
<1> DEFINE Cause == ~EntryAllowed(brakes, clock) /\ EntryAllowed(brakes', clock') =>
                      \/ brakes.paused /\ ~brakes'.paused
                      \/ clock' > clock
                      \/ brakes' = brakeRow
<1>1. BrakesInv /\ [BrakesNext]_brakeVars => [Cause]_brakeVars
      <2> SUFFICES ASSUME BrakesInv, BrakesNext,
                          ~EntryAllowed(brakes, clock), EntryAllowed(brakes', clock')
                   PROVE  \/ brakes.paused /\ ~brakes'.paused
                          \/ clock' > clock
                          \/ brakes' = brakeRow
          OBVIOUS
      <2>0. clock \in Time /\ brakes \in BrakeState /\ clock \in Nat
            BY Calendar DEF BrakesInv, BrakesTypeOK
      <2>1. CASE ClockTicks
            BY <2>0, <2>1 DEF ClockTicks
      <2>2. ASSUME NEW loss \in LossSizes, RecordLoss(loss) PROVE FALSE
            BY <2>0, <2>2, LossOpensNothing DEF RecordLoss
      <2>3. CASE CheckEntry
            BY <2>0, <2>3, CheckOpensNothing DEF CheckEntry
      <2>4. ASSUME NEW dd \in Drawdown, EquityCheck(dd) PROVE FALSE
            BY <2>0, <2>4 DEF EquityCheck, AfterEquityCheck, EntryAllowed, Latched,
                              BrakeState
      <2>5. CASE PauseCommand \/ FlattenPause
            BY <2>0, <2>5 DEF PauseCommand, FlattenPause, AfterPause,
                              EntryAllowed, Latched, BrakeState
      <2>6. CASE ResumeCommand
            <3>1. ~brakes'.paused
                  BY <2>0, <2>6 DEF ResumeCommand, AfterResume, BrakeState
            <3>2. CASE ~brakes.paused
                  <4>1. brakes' = brakes
                        BY <2>0, <2>6, <3>2
                        DEF BrakesInv, ResumeCommand, AfterResume, BrakeState
                  <4>2. QED
                        BY <2>6, <4>1 DEF ResumeCommand
            <3>3. QED
                  BY <3>1, <3>2
      <2>7. CASE SaveBrakes \/ BrakesRestart
            BY <2>7 DEF SaveBrakes, BrakesRestart
      <2>8. CASE BrakesCrash
            BY <2>8 DEF BrakesCrash
      <2>9. QED
            BY <2>1, <2>2, <2>3, <2>4, <2>5, <2>6, <2>7, <2>8 DEF BrakesNext
<1>2. QED
      BY <1>1, CountersAreExact, PTL DEF BrakesSpec, OnlyResumeOrClockReopens

-----------------------------------------------------------------------------
(* The risk manager *)

\* The countdown of s after n further trades, and what it forces.
Penalised(s, n) ==
    /\ s.remaining = IF n < ReducedTrades THEN ReducedTrades - 1 - n ELSE 0
    /\ s.remaining > 0 => s.active = ReducedRisk

Reduced(s) == Above(s, ReducePct) => s.active = ReducedRisk

RiskInv ==
    /\ RiskTypeOK
    /\ Penalised(risk, since) /\ Penalised(riskRow, sinceDisk)
    /\ Reduced(risk) /\ Reduced(riskRow)

-----------------------------------------------------------------------------
(* The operations *)

\* A drawdown below a percentage is below every larger one, and not above it.
LEMMA BelowIsMonotone ==
    ASSUME NEW s \in RiskState, NEW p \in Nat, NEW q \in Nat, p <= q
    PROVE  /\ Below(s, p) => Below(s, q)
           /\ Below(s, q) => ~Above(s, q)
<1>1. s.peak \in Nat /\ s.equity \in Nat
      BY DEF RiskState
<1>2. p * s.peak <= q * s.peak /\ p * s.peak \in Int /\ q * s.peak \in Int
      BY <1>1
<1>3. 100 * (s.peak - s.equity) \in Int
      BY <1>1
<1>4. QED
      BY <1>1, <1>2, <1>3 DEF Below, Above

\* update_equity returns a state of the right type, leaves the countdown alone
\* and changes the risk to the default only without a countdown and below the
\* reducing threshold.
LEMMA EquityFacts ==
    ASSUME NEW s \in RiskState, NEW e \in Equities
    PROVE  /\ AfterEquity(s, e) \in RiskState
           /\ AfterEquity(s, e).remaining = s.remaining
           /\ AfterEquity(s, e).active \in {s.active, ReducedRisk, DefaultRisk}
           /\ AfterEquity(s, e).active # s.active
                /\ AfterEquity(s, e).active # ReducedRisk
                => s.remaining = 0 /\ Below(AfterEquity(s, e), ReducePct)
           /\ Reduced(AfterEquity(s, e))
<1> DEFINE n == AtEquity(s, e)
           m == AfterEquity(s, e)
<1>1. e \in Nat /\ s.peak \in Nat
      BY RiskAssumption DEF RiskState
<1>2. n \in RiskState /\ n.remaining = s.remaining /\ n.active = s.active
      BY <1>1 DEF AtEquity, RiskState
<1>3. m = IF Above(n, ReducePct) THEN [n EXCEPT !.active = ReducedRisk]
          ELSE IF Below(n, RestorePct) /\ n.remaining = 0
               THEN [n EXCEPT !.active = DefaultRisk]
          ELSE n
      BY DEF AfterEquity
<1>4. Below(n, RestorePct) => Below(n, ReducePct)
      BY <1>2, RiskAssumption, BelowIsMonotone
<1> HIDE DEF n, m
<1>5. /\ m \in RiskState /\ m.remaining = n.remaining
      /\ m.peak = n.peak /\ m.equity = n.equity
      BY <1>2, <1>3 DEF RiskState, Risks
<1>6. /\ Above(m, ReducePct) = Above(n, ReducePct)
      /\ Below(m, ReducePct) = Below(n, ReducePct)
      BY <1>5 DEF Above, Below
<1>7. CASE Above(n, ReducePct)
      <2>1. m.active = ReducedRisk
            BY <1>2, <1>3, <1>7 DEF RiskState
      <2>2. QED
            BY <1>2, <1>5, <2>1 DEF Reduced, m
<1>8. CASE ~Above(n, ReducePct) /\ Below(n, RestorePct) /\ n.remaining = 0
      <2>1. m.active = DefaultRisk
            BY <1>2, <1>3, <1>8 DEF RiskState
      <2>2. QED
            BY <1>2, <1>4, <1>5, <1>6, <1>8, <2>1 DEF Reduced, m
<1>9. CASE ~Above(n, ReducePct) /\ ~(Below(n, RestorePct) /\ n.remaining = 0)
      <2>1. m = n
            BY <1>3, <1>9
      <2>2. QED
            BY <1>2, <1>9, <2>1 DEF Reduced, m
<1>10. QED
      BY <1>7, <1>8, <1>9

\* record_trade_result returns a state of the right type, keeps the peak and
\* the equity, and counts the penalty down from the trade that triggers it.
LEMMA TradeFacts ==
    ASSUME NEW s \in RiskState, NEW won \in BOOLEAN,
           NEW n \in 0..ReducedTrades, Penalised(s, n), Reduced(s)
    PROVE  LET m == AfterTrade(s, won)
               k == IF Punished(s, won) THEN 0
                    ELSE IF n < ReducedTrades THEN n + 1 ELSE n
           IN  /\ m \in RiskState
               /\ k \in 0..ReducedTrades
               /\ Penalised(m, k)
               /\ Reduced(m)
               /\ m.active # s.active /\ m.active # ReducedRisk
                    => m.remaining = 0 /\ Below(m, ReducePct)
<1> DEFINE m    == AfterTrade(s, won)
           k    == IF Punished(s, won) THEN 0
                   ELSE IF n < ReducedTrades THEN n + 1 ELSE n
           left == IF Punished(s, won) THEN ReducedTrades ELSE s.remaining
           c    == [s EXCEPT !.losses = Streak(s, won)]
<1>1. /\ ReducedTrades \in Nat /\ ReducedTrades > 1
      /\ DefaultRisk \in Risks /\ ReducedRisk \in Risks
      /\ ReducePct \in Nat
      BY RiskAssumption DEF Risks
<1>2. Streak(s, won) \in Nat
      BY DEF Streak, RiskState
<1>3. /\ c \in RiskState /\ c.remaining = s.remaining /\ c.active = s.active
      /\ c.peak = s.peak /\ c.equity = s.equity
      BY <1>2 DEF RiskState
<1>4. left \in 0..ReducedTrades /\ k \in 0..ReducedTrades
      BY <1>1 DEF RiskState
<1>5. m = IF left = 0 THEN c
          ELSE [c EXCEPT !.remaining = left - 1,
                         !.active = IF left = 1 /\ Below(s, ReducePct)
                                    THEN DefaultRisk ELSE ReducedRisk]
      BY DEF AfterTrade
<1>6. left > 0 => left - 1 = IF k < ReducedTrades THEN ReducedTrades - 1 - k ELSE 0
      BY <1>1 DEF Penalised, RiskState
<1>7. left = 0 => s.remaining = 0 /\ 0 = IF k < ReducedTrades THEN ReducedTrades - 1 - k ELSE 0
      BY <1>1 DEF Penalised, RiskState
<1>8. left > 0 => left - 1 \in 0..ReducedTrades
      BY <1>1, <1>4
<1>9. Below(s, ReducePct) => ~Above(s, ReducePct)
      BY <1>1, BelowIsMonotone
<1> HIDE DEF m, k, left, c
<1>10. CASE left = 0
      <2>1. m = c
            BY <1>5, <1>10
      <2>2. Above(m, ReducePct) = Above(s, ReducePct)
            BY <1>3, <2>1 DEF Above
      <2>3. QED
            BY <1>3, <1>4, <1>7, <1>10, <2>1, <2>2 DEF Penalised, Reduced, m, k
<1>11. CASE left > 0
      <2> DEFINE a == IF left = 1 /\ Below(s, ReducePct)
                      THEN DefaultRisk ELSE ReducedRisk
      <2>1. a \in Risks
            BY <1>1
      <2>2. m = [c EXCEPT !.remaining = left - 1, !.active = a]
            BY <1>4, <1>5, <1>11
      <2>3. a # ReducedRisk => left = 1 /\ Below(s, ReducePct)
            OBVIOUS
      <2> HIDE DEF a
      <2>4. /\ m \in RiskState
            /\ m.remaining = left - 1 /\ m.active = a
            /\ m.peak = s.peak /\ m.equity = s.equity
            BY <1>3, <1>8, <1>11, <2>1, <2>2 DEF RiskState
      <2>5. /\ Above(m, ReducePct) = Above(s, ReducePct)
            /\ Below(m, ReducePct) = Below(s, ReducePct)
            BY <2>4 DEF Above, Below
      <2>6. Penalised(m, k)
            BY <1>4, <1>6, <1>11, <2>3, <2>4 DEF Penalised
      <2>7. QED
            BY <1>4, <1>9, <2>3, <2>4, <2>5, <2>6 DEF Reduced, m, k
<1>12. QED
      BY <1>4, <1>10, <1>11

-----------------------------------------------------------------------------
(* The invariant *)

LEMMA RiskStart == RiskInit => RiskInv
<1> SUFFICES ASSUME RiskInit PROVE RiskInv
    OBVIOUS
<1>1. ReducedTrades \in Nat /\ ReducedTrades > 1
      BY RiskAssumption
<1>2. FreshRisk \in RiskState
      BY <1>1 DEF FreshRisk, RiskState, Risks
<1>3. Penalised(FreshRisk, ReducedTrades) /\ Reduced(FreshRisk)
      BY <1>1 DEF FreshRisk, Penalised, Reduced, Above
<1>4. /\ risk = FreshRisk /\ riskRow = FreshRisk
      /\ since = ReducedTrades /\ sinceDisk = ReducedTrades
      BY DEF RiskInit
<1>5. /\ risk \in RiskState /\ riskRow \in RiskState
      /\ since \in 0..ReducedTrades /\ sinceDisk \in 0..ReducedTrades
      BY <1>1, <1>2, <1>4
<1>6. QED
      BY <1>3, <1>4, <1>5 DEF RiskInit, RiskInv, RiskTypeOK

LEMMA RiskStep == RiskInv /\ [RiskNext]_riskVars => RiskInv'
<1> SUFFICES ASSUME RiskInv, [RiskNext]_riskVars PROVE RiskInv'
    OBVIOUS
<1>0. /\ risk \in RiskState /\ riskRow \in RiskState /\ unsavedRisk \in BOOLEAN
      /\ since \in 0..ReducedTrades /\ sinceDisk \in 0..ReducedTrades
      /\ Penalised(risk, since) /\ Penalised(riskRow, sinceDisk)
      /\ Reduced(risk) /\ Reduced(riskRow)
      BY DEF RiskInv, RiskTypeOK
<1>1. ASSUME NEW e \in Equities, UpdateEquity(e) PROVE RiskInv'
      <2>1. /\ risk' = AfterEquity(risk, e) /\ riskRow' = risk'
            /\ since' = since /\ sinceDisk' = since
            /\ unsavedRisk' = FALSE
            BY <1>0, <1>1 DEF UpdateEquity
      <2>2. /\ risk' \in RiskState /\ risk'.remaining = risk.remaining
            /\ Reduced(risk)'
            BY <1>0, <2>1, EquityFacts DEF Reduced, Above
      <2>3. risk.remaining > 0 => risk'.active = ReducedRisk
            <3>1. /\ risk'.active # risk.active /\ risk'.active # ReducedRisk
                       => risk.remaining = 0
                  BY <1>0, <2>1, EquityFacts
            <3>2. QED
                  BY <1>0, <3>1 DEF Penalised
      <2>4. Penalised(risk, since)' /\ Penalised(riskRow, sinceDisk)'
            BY <1>0, <2>1, <2>2, <2>3 DEF Penalised
      <2>5. Reduced(riskRow)'
            BY <2>1, <2>2 DEF Reduced, Above
      <2>6. QED
            BY <1>0, <2>1, <2>2, <2>4, <2>5 DEF RiskInv, RiskTypeOK
<1>2. ASSUME NEW won \in BOOLEAN, RecordTrade(won) PROVE RiskInv'
      <2>1. /\ risk' \in RiskState /\ since' \in 0..ReducedTrades
            /\ Penalised(risk', since') /\ Reduced(risk')
            BY <1>0, <1>2, TradeFacts DEF RecordTrade
      <2>2. Penalised(risk, since)' /\ Reduced(risk)'
            BY <2>1 DEF Penalised, Reduced, Above
      <2>3. /\ riskRow' = riskRow /\ sinceDisk' = sinceDisk
            /\ unsavedRisk' = TRUE
            BY <1>2 DEF RecordTrade
      <2>4. Penalised(riskRow, sinceDisk)' /\ Reduced(riskRow)'
            BY <1>0, <2>3 DEF Penalised, Reduced, Above
      <2>5. QED
            BY <1>0, <2>1, <2>2, <2>3, <2>4 DEF RiskInv, RiskTypeOK
<1>3. CASE SaveRisk
      BY <1>0, <1>3 DEF SaveRisk, RiskInv, RiskTypeOK, Penalised, Reduced, Above
<1>4. CASE RiskCrash
      BY <1>0, <1>4 DEF RiskCrash, RiskInv, RiskTypeOK, Penalised, Reduced, Above
<1>5. CASE UNCHANGED riskVars
      BY <1>0, <1>5 DEF riskVars, RiskInv, RiskTypeOK, Penalised, Reduced, Above
<1>6. QED
      BY <1>1, <1>2, <1>3, <1>4, <1>5 DEF RiskNext

\* The countdown always says how much of the penalty is left.
THEOREM CountdownIsExact == RiskSpec => []RiskInv
BY RiskStart, RiskStep, PTL DEF RiskSpec

\* Every variable keeps its type.
THEOREM RiskTypes == RiskSpec => []RiskTypeOK
<1>1. RiskInv => RiskTypeOK
      BY DEF RiskInv
<1>2. QED
      BY <1>1, CountdownIsExact, PTL

\* A drawdown above the threshold keeps the reduced risk active
\* (risk_manager.py:41, risk_manager.py:64), for every pair of thresholds.
THEOREM DrawdownHolds == RiskSpec => []DrawdownReducesRisk
<1>1. RiskInv => DrawdownReducesRisk
      BY DEF RiskInv, DrawdownReducesRisk, Reduced
<1>2. QED
      BY <1>1, CountdownIsExact, PTL

\* A penalty is served to its end (risk_manager.py:45, risk_manager.py:64), for
\* every length of the streak and of the penalty.
THEOREM PenaltyHolds == RiskSpec => []PenaltyServed
<1>1. RiskInv => PenaltyServed
      BY RiskAssumption DEF RiskInv, RiskTypeOK, PenaltyServed, Penalised
<1>2. QED
      BY <1>1, CountdownIsExact, PTL

\* The default risk is restored only without a penalty and below the reducing
\* threshold, or with an earlier row (risk_manager.py:45, risk_manager.py:64).
THEOREM RestoreHolds == RiskSpec => RestoreNeedsCause
<1> DEFINE Cause == risk.active = ReducedRisk /\ risk'.active = DefaultRisk =>
                      \/ risk'.remaining = 0 /\ Below(risk', ReducePct)
                      \/ risk' = riskRow
<1>1. RiskInv /\ [RiskNext]_riskVars => [Cause]_riskVars
      <2> SUFFICES ASSUME RiskInv, RiskNext, risk.active = ReducedRisk,
                          risk'.active = DefaultRisk
                   PROVE  \/ risk'.remaining = 0 /\ Below(risk', ReducePct)
                          \/ risk' = riskRow
          OBVIOUS
      <2>0. /\ risk \in RiskState /\ since \in 0..ReducedTrades
            /\ Penalised(risk, since) /\ Reduced(risk)
            /\ DefaultRisk # ReducedRisk
            BY RiskAssumption DEF RiskInv, RiskTypeOK
      <2>1. ASSUME NEW e \in Equities, UpdateEquity(e)
            PROVE  risk'.remaining = 0 /\ Below(risk', ReducePct)
            <3>1. risk' = AfterEquity(risk, e)
                  BY <2>1 DEF UpdateEquity
            <3>2. QED
                  BY <2>0, <3>1, EquityFacts
      <2>2. ASSUME NEW won \in BOOLEAN, RecordTrade(won)
            PROVE  risk'.remaining = 0 /\ Below(risk', ReducePct)
            <3>1. risk' = AfterTrade(risk, won)
                  BY <2>2 DEF RecordTrade
            <3>2. QED
                  BY <2>0, <3>1, TradeFacts
      <2>3. CASE RiskCrash
            BY <2>3 DEF RiskCrash
      <2>4. CASE SaveRisk
            BY <2>0, <2>4 DEF SaveRisk
      <2>5. QED
            BY <2>1, <2>2, <2>3, <2>4 DEF RiskNext
<1>2. QED
      BY <1>1, CountdownIsExact, PTL DEF RiskSpec, RestoreNeedsCause
=============================================================================
