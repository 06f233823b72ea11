----------------------------- MODULE SwingBreak -----------------------------
(***************************************************************************)
(* What the swing-break engine (engines/swing_break_engine.py) knows when  *)
(* it is asked for a signal: the four-hour and daily candles it was given  *)
(* at the start and is given one by one since (tools/forward_test.py).     *)
(*                                                                         *)
(* Time is counted in candles of fifteen minutes, and a candle is named by *)
(* its close.  The loop polls many times in a candle; it is enough to let  *)
(* it poll once before the next one closes.  The indicators are functions  *)
(* of the candles, so the candles stand for them; the window of the swing, *)
(* the volume and the stop are the environment's choice.                   *)
(***************************************************************************)
EXTENDS Integers, FiniteSets, SequencesExt

CONSTANTS Intervals,  \* "4h" and "1d", in the order they are asked for
          Period,     \* interval -> its length in candles of fifteen minutes
          Warm,       \* interval -> candles before it counts (50, 90)
          Session,    \* candles of a day on which it trades
          None,
          MaxCandles, \* bound: candles of fifteen minutes
          MaxFails,   \* bound: polls and requests that fail
          MaxStops    \* bound: restarts

VARIABLES now,     \* candles closed so far
          polled,  \* the loop has polled since the last of them
          asking,  \* index of the interval to ask for next, 0 when none is
          feed,    \* interval -> the candles the engine has
          key,     \* interval -> last_<interval>_close in the database
          view,    \* what the last evaluation saw: [at, four, day], or None
          late,    \* interval -> candles in a row that closed without an answer (observation)
          worst,   \* interval -> the most they were (observation)
          fails, stops

sbVars == <<now, polled, asking, feed, key, view, late, worst, fails, stops>>

Names == Range(Intervals)

\* The candles of an interval that have closed at a time.
ClosedBy(i, t) == [k \in 1..(t \div Period[i]) |-> k * Period[i]]

Init ==
    /\ now \in {0, Period[Intervals[1]]}
    /\ polled = FALSE /\ asking = 0
    /\ feed = [i \in Names |-> ClosedBy(i, now)]
    /\ key = [i \in Names |-> 0]
    /\ view = None
    /\ late = [i \in Names |-> 0] /\ worst = late
    /\ fails = 0 /\ stops = 0
-----------------------------------------------------------------------------
CandleCloses ==
    /\ now < MaxCandles
    /\ polled /\ asking = 0
    /\ now' = now + 1
    /\ polled' = FALSE
    /\ late' = [i \in Names |-> late[i] + 1]
    /\ worst' = [i \in Names |-> IF late'[i] > worst[i] THEN late'[i] ELSE worst[i]]
    /\ UNCHANGED <<asking, feed, key, view, fails, stops>>

(* bisect: the place of the last candle closed by t, the first if none is. *)
Place(i, t) ==
    LET upTo == Cardinality({k \in DOMAIN feed[i] : feed[i][k] <= t})
    IN IF upTo = 0 THEN 1 ELSE upTo

(* The trend asks for enough four-hour candles, the daily range is let     *)
(* pass without them.                                                      *)
Known(i, t) == IF Place(i, t) > Warm[i] /\ feed[i] # <<>> THEN feed[i][Place(i, t)] ELSE None

(* A poll handles the candles that have closed lately, of which the older  *)
(* may be handled again: each is evaluated in the session.                 *)
Poll ==
    /\ ~polled
    /\ polled' = TRUE
    /\ asking' = 1
    /\ \E t \in {now - 1, now} :
          /\ t >= 0
          /\ view' = IF t % Period["1d"] \in Session /\ Known("4h", t) # None
                     THEN [at |-> t, four |-> Known("4h", t), day |-> Known("1d", t)] ELSE None
    /\ UNCHANGED <<now, feed, key, late, worst, fails, stops>>

PollFails ==
    /\ ~polled
    /\ fails < MaxFails
    /\ fails' = fails + 1
    /\ polled' = TRUE
    /\ UNCHANGED <<now, asking, feed, key, view, late, worst, stops>>

(* append_4h and append_1d ignore what is not newer. *)
Appended(candles, c) ==
    IF candles # <<>> /\ c <= Last(candles) THEN candles ELSE Append(candles, c)

(* What the database names as the last candle is not appended again. *)
Told(i, candles, c) == IF c = key[i] THEN candles ELSE Appended(candles, c)

(* The last two candles are asked for: one has closed, or both, before the *)
(* exchange shows the next.                                                *)
Given(i, n) ==
    LET candles == ClosedBy(i, now)
        older == IF n = 1 THEN feed[i] ELSE Told(i, feed[i], candles[Len(candles) - 1])
    IN Told(i, older, Last(candles))

Ask ==
    /\ asking # 0
    /\ LET i == Intervals[asking]
       IN /\ \E n \in {1, 2} :
                /\ n <= Len(ClosedBy(i, now))
                /\ feed' = [feed EXCEPT ![i] = Given(i, n)]
                /\ key' = [key EXCEPT ![i] = Last(ClosedBy(i, now))]
          /\ late' = [late EXCEPT ![i] = 0]
    /\ asking' = IF asking = Len(Intervals) THEN 0 ELSE asking + 1
    /\ UNCHANGED <<now, polled, view, worst, fails, stops>>

NothingYet ==
    /\ asking # 0
    /\ ClosedBy(Intervals[asking], now) = <<>>
    /\ asking' = IF asking = Len(Intervals) THEN 0 ELSE asking + 1
    /\ late' = [late EXCEPT ![Intervals[asking]] = 0]
    /\ UNCHANGED <<now, polled, feed, key, view, worst, fails, stops>>

(* One request that fails ends the update of both intervals. *)
AskFails ==
    /\ asking # 0
    /\ fails < MaxFails
    /\ fails' = fails + 1
    /\ asking' = 0
    /\ UNCHANGED <<now, polled, feed, key, view, late, worst, stops>>

(* A start loads the history that has closed; the keys are kept. *)
Restart ==
    /\ stops < MaxStops
    /\ stops' = stops + 1
    /\ polled' = FALSE /\ asking' = 0
    /\ feed' = [i \in Names |-> ClosedBy(i, now)]
    /\ view' = None
    /\ late' = [i \in Names |-> 0] /\ worst' = late'
    /\ UNCHANGED <<now, key, fails>>

Done == now = MaxCandles /\ polled /\ asking = 0 /\ UNCHANGED sbVars

Next == CandleCloses \/ Poll \/ PollFails \/ Ask \/ NothingYet \/ AskFails \/ Restart \/ Done

Spec == Init /\ [][Next]_sbVars
-----------------------------------------------------------------------------
TypeOK ==
    /\ now \in 0..MaxCandles /\ polled \in BOOLEAN
    /\ asking \in 0..Len(Intervals)
    /\ \A i \in Names : Range(feed[i]) \subseteq 1..now /\ key[i] \in 0..now
    /\ view # None => view.at \in 0..now

(* The engine knows no candle before it has closed and each one once, in   *)
(* order; none is missing unless no answer came for a whole one of them    *)
(* (swing_break_engine.py:156-183).                                        *)
FeedIsWhole ==
    \A i \in Names :
        /\ \A c \in Range(feed[i]) : c <= now
        /\ \A k \in 1..(Len(feed[i]) - 1) :
              /\ feed[i][k] < feed[i][k + 1]
              /\ worst[i] <= Period[i] => feed[i][k + 1] = feed[i][k] + Period[i]

(* An evaluation looks at nothing that closed after its candle, and at     *)
(* candles no older than the answers that were missed explain: the one     *)
(* that closes with it is asked for only after it                          *)
(* (swing_break_engine.py:301-317, forward_test.py:480-486).               *)
ViewIsCurrent ==
    view # None =>
        /\ view.four <= view.at /\ (view.day # None => view.day <= view.at)
        /\ view.at < view.four + Period["4h"] + worst["4h"]

EngineIsFed == FeedIsWhole /\ ViewIsCurrent
=============================================================================
