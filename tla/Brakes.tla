------------------------------- MODULE Brakes -------------------------------
(***************************************************************************)
(* The hard risk brakes: BrakeManager (risk/brakes.py), the brake_state    *)
(* row of the database and the callers in main.py that change or save the  *)
(* brakes.  `brakes' is BrakeManager.state, `brakeRow' the row saved last. *)
(*                                                                         *)
(* Time is a clock over 0..Horizon.  Day and Week map an instant to its    *)
(* UTC date and to the date of its Monday, the keys the code compares.     *)
(* Losses are whole multiples of a fraction of the equity.                 *)
(***************************************************************************)
EXTENDS Integers

CONSTANTS
    Horizon,      \* last instant of the clock (a bound of the model)
    Day, Week,    \* the calendar: instant -> date, instant -> Monday
    LossSizes,    \* the losses a trade may realise
    LossCap,      \* no loss is recorded once a week has lost this much (bound)
    DailyLimit,   \* daily_loss_limit_pct
    WeeklyLimit,  \* weekly_loss_limit_pct
    Cooldown      \* weekly_cooldown_hours

Time == 0..Horizon

\* Dates never go backwards.
ASSUME CalendarAssumption ==
    /\ Horizon \in Nat
    /\ Day \in [Time -> Nat] /\ Week \in [Time -> Nat]
    /\ \A t \in Time : t + 1 \in Time =>
           Day[t] <= Day[t + 1] /\ Week[t] <= Week[t + 1]

ASSUME LimitAssumption ==
    /\ LossSizes \subseteq Nat \ {0}
    /\ LossCap \in Nat /\ Cooldown \in Nat
    /\ DailyLimit \in Nat \ {0} /\ WeeklyLimit \in Nat \ {0}

VARIABLES
    clock,       \* the clock
    brakes,       \* BrakeManager.state
    brakeRow,      \* the brake_state row
    unsavedBrakes,   \* a handler changed it and has yet to reach save_brake_state
    truth,     \* observation: what it has been told (see Told)
    saved      \* observation: truth at the time of the last save

brakeVars == <<clock, brakes, brakeRow, unsavedBrakes, truth, saved>>

NoDate == -1   \* the empty string of daily_reset_date, weekly_reset_date

BrakeState ==
    [daily : Nat, dailyDate : Nat \cup {NoDate},
     weekly : Nat, weeklyDate : Nat \cup {NoDate},
     cooldown : Nat,                \* weekly_cooldown_until, 0 for None
     paused : BOOLEAN, review : BOOLEAN, shutdown : BOOLEAN]

FreshBrakes ==
    [daily |-> 0, dailyDate |-> NoDate, weekly |-> 0, weeklyDate |-> NoDate,
     cooldown |-> 0, paused |-> FALSE, review |-> FALSE, shutdown |-> FALSE]

\* The losses reported today and this week and the end of the last cooldown
\* earned, summed from the calls alone: no reset date is involved.
Told == [day : Nat, week : Nat, until : Nat]

-----------------------------------------------------------------------------
(* BrakeManager *)

\* Mutant of RollDay: the date of the reset is not noted.
RollDayUndated(b, t) ==
    IF b.dailyDate = Day[t] THEN b ELSE [b EXCEPT !.daily = 0]

RollDay(b, t) ==
    IF b.dailyDate = Day[t] THEN b
    ELSE [b EXCEPT !.daily = 0, !.dailyDate = Day[t]]

RollWeek(b, t) ==
    IF b.weeklyDate = Week[t] THEN b
    ELSE [b EXCEPT !.weekly = 0, !.weeklyDate = Week[t]]

Latched(b) == b.shutdown \/ b.review \/ b.paused

Cooling(b, t) == t < b.cooldown

DayFull(b, t) == RollDay(b, t).daily >= DailyLimit

WeekFull(b, t) == RollWeek(b, t).weekly >= WeeklyLimit

EntryAllowed(b, t) ==
    ~Latched(b) /\ ~Cooling(b, t) /\ ~DayFull(b, t) /\ ~WeekFull(b, t)

\* Mutant of AfterCheck: a counter at its limit is cleared once it was reported.
AfterCheckClears(b, t) ==
    IF Latched(b) \/ Cooling(b, t) THEN b
    ELSE IF DayFull(b, t) THEN [RollDay(b, t) EXCEPT !.daily = 0]
    ELSE RollWeek(RollDay(b, t), t)

\* check_entry_allowed resets the counters on its way, as far as it gets.
AfterCheck(b, t) ==
    IF Latched(b) \/ Cooling(b, t) THEN b
    ELSE IF DayFull(b, t) THEN RollDay(b, t)
    ELSE RollWeek(RollDay(b, t), t)

\* Mutant of AfterLoss: the loss keeps its sign.
AfterLossSigned(b, loss, t) ==
    LET r == RollWeek(RollDay(b, t), t)
    IN  [r EXCEPT !.daily = @ - loss, !.weekly = @ - loss]

\* Mutant of AfterLoss: the cooldown needs more than the weekly limit.
AfterLossStrict(b, loss, t) ==
    LET r == RollWeek(RollDay(b, t), t)
    IN  [r EXCEPT !.daily = @ + loss,
                  !.weekly = @ + loss,
                  !.cooldown = IF r.weekly + loss > WeeklyLimit
                               THEN t + Cooldown ELSE @]

AfterLoss(b, loss, t) ==
    LET r == RollWeek(RollDay(b, t), t)
        full == r.weekly + loss >= WeeklyLimit
    IN  [r EXCEPT !.daily = @ + loss,
                  !.weekly = @ + loss,
                  !.cooldown = IF full THEN t + Cooldown ELSE @]

\* "shutdown" is a drawdown at or above equity_shutdown_drawdown, "pause" one
\* at or above equity_pause_drawdown and below the former.
Drawdown == {"pause", "shutdown"}

AfterEquityCheck(b, dd) ==
    IF dd = "shutdown" THEN [b EXCEPT !.shutdown = TRUE]
    ELSE [b EXCEPT !.review = TRUE, !.paused = TRUE]

AfterPause(b) == [b EXCEPT !.paused = TRUE]

\* Mutant of AfterResume: every latch is released.
AfterResumeAll(b) ==
    [b EXCEPT !.paused = FALSE, !.review = FALSE, !.shutdown = FALSE]

AfterResume(b) == [b EXCEPT !.paused = FALSE, !.review = FALSE]

-----------------------------------------------------------------------------
(* The callers *)

BrakesInit ==
    /\ clock = 0
    /\ brakes = FreshBrakes /\ brakeRow = FreshBrakes
    /\ unsavedBrakes = FALSE
    /\ truth = [day |-> 0, week |-> 0, until |-> 0]
    /\ saved = truth

Carry(h, t) ==
    [h EXCEPT !.day = IF Day[t + 1] = Day[t] THEN @ ELSE 0,
              !.week = IF Week[t + 1] = Week[t] THEN @ ELSE 0]

ClockTicks ==
    /\ clock + 1 \in Time
    /\ clock' = clock + 1
    /\ truth' = Carry(truth, clock) /\ saved' = Carry(saved, clock)
    /\ UNCHANGED <<brakes, brakeRow, unsavedBrakes>>

\* _on_candle_closed, for a trade closed at a loss: record_loss, then awaits
\* (the brake alert, the exit alert, save_risk_state) before the save.
RecordLoss(loss) ==
    /\ truth.week < LossCap
    /\ brakes' = AfterLoss(brakes, loss, clock)
    /\ unsavedBrakes' = TRUE
    /\ truth' = [truth EXCEPT
                   !.day = @ + loss,
                   !.week = @ + loss,
                   !.until = IF truth.week + loss >= WeeklyLimit
                             THEN clock + Cooldown ELSE @]
    /\ UNCHANGED <<clock, brakeRow, saved>>

CheckEntry ==
    /\ brakes' = AfterCheck(brakes, clock)
    /\ UNCHANGED <<clock, brakeRow, unsavedBrakes, truth, saved>>

\* equity_update_task: check_equity_brakes; _on_brake_triggered sends the
\* alert first and saves afterwards.
EquityCheck(dd) ==
    /\ brakes' = AfterEquityCheck(brakes, dd)
    /\ unsavedBrakes' = TRUE
    /\ UNCHANGED <<clock, brakeRow, truth, saved>>

\* /pause and /resume: the callbacks only change the state in memory.
PauseCommand ==
    /\ brakes' = AfterPause(brakes)
    /\ UNCHANGED <<clock, brakeRow, unsavedBrakes, truth, saved>>

ResumeCommand ==
    /\ brakes' = AfterResume(brakes)
    /\ UNCHANGED <<clock, brakeRow, unsavedBrakes, truth, saved>>

\* The end of _flatten_all: pause, followed by a save.
FlattenPause ==
    /\ brakes' = AfterPause(brakes)
    /\ unsavedBrakes' = TRUE
    /\ UNCHANGED <<clock, brakeRow, truth, saved>>

\* save_brake_state writes the whole row.
SaveBrakes ==
    /\ unsavedBrakes
    /\ brakeRow' = brakes /\ saved' = truth
    /\ unsavedBrakes' = FALSE
    /\ UNCHANGED <<clock, brakes, truth>>

\* shutdown() saves the brakes last, setup() reads them back.
BrakesRestart ==
    /\ brakeRow' = brakes /\ saved' = truth
    /\ unsavedBrakes' = FALSE
    /\ UNCHANGED <<clock, brakes, truth>>

\* The process dies; setup() of the next one reads the row.
BrakesCrash ==
    /\ brakes' = brakeRow /\ truth' = saved
    /\ unsavedBrakes' = FALSE
    /\ UNCHANGED <<clock, brakeRow, saved>>

BrakesNext ==
    \/ ClockTicks
    \/ \E loss \in LossSizes : RecordLoss(loss)
    \/ CheckEntry
    \/ \E dd \in Drawdown : EquityCheck(dd)
    \/ PauseCommand \/ ResumeCommand \/ FlattenPause
    \/ SaveBrakes
    \/ BrakesRestart \/ BrakesCrash

BrakesSpec == BrakesInit /\ [][BrakesNext]_brakeVars

-----------------------------------------------------------------------------
(* Properties *)

\* Every variable keeps its type.
BrakesTypeOK ==
    /\ clock \in Time
    /\ brakes \in BrakeState /\ brakeRow \in BrakeState
    /\ unsavedBrakes \in BOOLEAN
    /\ truth \in Told /\ saved \in Told

\* check_entry_allowed (brakes.py:28) lets an entry through only while the
\* losses reported since midnight, and those reported since Monday, are below
\* their limits, however day changes, week changes, checks, saves and restarts
\* are interleaved with the reports.  A crash forgets what was not yet saved.
LimitsEnforced ==
    EntryAllowed(brakes, clock) =>
        truth.day < DailyLimit /\ truth.week < WeeklyLimit

\* A week that reaches its limit costs the full cooldown from the last loss:
\* no entry is allowed before its end, also across the Monday on which the
\* weekly counter is cleared (brakes.py:42, brakes.py:98).
BrakesCooldownServed ==
    clock < truth.until => ~EntryAllowed(brakes, clock)

\* Once the equity shutdown is in the database it stays there, and no command, day or restart
\* allows an entry again (brakes.py:32; resume() does not clear it).
ShutdownIsFinal ==
    [][ /\ brakeRow.shutdown => brakeRow'.shutdown
        /\ brakeRow'.shutdown => ~EntryAllowed(brakes', clock') ]_brakeVars

\* Entries are blocked until an operator resumes, the clock moves on or memory
\* is replaced by the row; a check, a loss, an equity update, a pause or a save
\* never reopens them (check_entry_allowed resets counters as a side effect).
OnlyResumeOrClockReopens ==
    [][ ~EntryAllowed(brakes, clock) /\ EntryAllowed(brakes', clock') =>
          \/ brakes.paused /\ ~brakes'.paused
          \/ clock' > clock
          \/ brakes' = brakeRow ]_brakeVars

\* "All brakes are persistent across restarts via SQLite." (brakes.py:4): while
\* no handler is on its way to a save, the row allows no entry that memory
\* blocks, so that a crash would lift no brake.
RestartKeepsBrakes ==
    ~unsavedBrakes /\ EntryAllowed(brakeRow, clock) => EntryAllowed(brakes, clock)

=============================================================================
