-------------------------- MODULE LiquidationCache --------------------------
(***************************************************************************)
(* The liquidations of the v5 runner (tools/v5_forward_test.py): a table   *)
(* of daily volumes per symbol, written by the stream of forced orders and *)
(* by the seeding of a cold start, and fed to the engine's CascadeTracker  *)
(* by the stream's debounced flush and by the daily refresh.               *)
(*                                                                         *)
(* Both tasks share one SQLite connection: a row written without a commit  *)
(* is read by all, and committed by whatever commits next.  A task runs    *)
(* from await to await.  A message brings one unit of volume; the side of  *)
(* the order makes the imbalance, which the verdict does not depend on.    *)
(***************************************************************************)
EXTENDS Integers, FiniteSets, SequencesExt

CONSTANTS
    Symbols,
    None,
    MaxDays,     \* LIQ_CACHE_MAX_DAYS (120)
    Enough,      \* cached days from which there is no seeding (30)
    Keep,        \* rows a tracker holds: liq_lookback + 5
    Lookback,    \* liq_lookback (90)
    MinLookback, \* liq_min_lookback (30)
    Recent,      \* liq_window + 1 (3)
    RegimeDays,  \* regime_lookback_days (10)
    Back,        \* rows back to the close of ret_5d (5)
    Prices,      \* closes a row may get; 0 is an unknown one
    Volumes,     \* volumes of a day Coinalyze may report
    LastDay,     \* bound: days
    MaxMessages, \* bound: messages of the stream
    MaxStops,    \* bound: ends of the process
    MaxErrors    \* bound: exceptions

Dates == 0..LastDay

VARIABLES
    today,    \* the date
    rows,     \* liq_cache as the connection sees it
    saved,    \* the same as committed, with last_liq_date
    tracker,  \* engine._cascades: the rows a tracker holds, which it got in the order
              \* of their dates
    active,   \* cascade_active of the engine's states
    refresh,  \* _update_liq_context: where it is, with its locals
    lastDate, \* _last_liq_date
    stream,   \* _liq_websocket_loop: off, on, or waiting for the lock
    dirty,    \* _ws_dirty_symbols
    key,      \* whether there is a key for Coinalyze
    messages, stops, errors

memory == <<tracker, active, refresh, lastDate, stream, dirty>>
vars == <<today, rows, saved, memory, key, messages, stops, errors>>

NoRows == [s \in Symbols |-> [d \in Dates |-> None]]

Task(pc) == [pc |-> pc, since |-> 0, todo |-> {}, sym |-> None, answer |-> None]

Idle(pc) == [pc |-> pc, since |-> 0, list |-> {}]

Init ==
    /\ today = 0
    /\ rows = NoRows
    /\ saved = [rows |-> NoRows, lastDate |-> None]
    /\ tracker = [s \in Symbols |-> {}]
    /\ active = [s \in Symbols |-> FALSE]
    /\ refresh = Task("down")
    /\ lastDate = None
    /\ stream = Idle("off")
    /\ dirty = {}
    /\ key \in BOOLEAN
    /\ messages = 0 /\ stops = 0 /\ errors = 0
-----------------------------------------------------------------------------
(* CascadeTracker.update *)

LastOnes(s, n) == IF Len(s) > n THEN SubSeq(s, Len(s) - n + 1, Len(s)) ELSE s

SumOf(s) == FoldLeft(LAMBDA a, v : a + v, 0, s)

(* Ten times the 90th percentile, interpolated linearly as numpy does. *)
Percentile90(values) ==
    LET sorted == SortSeq(values, LAMBDA x, y : x < y)
        k == (9 * (Len(values) - 1)) \div 10
        rest == (9 * (Len(values) - 1)) % 10
    IN 10 * sorted[k + 1]
       + (IF rest = 0 THEN 0 ELSE rest * (sorted[k + 2] - sorted[k + 1]))

(* The market fell by five percent or more over the last rows. *)
Fell(closes) ==
    LET n == Len(closes)
    IN /\ n > Back
       /\ closes[n - Back] > 0
       /\ 100 * (closes[n] - closes[n - Back]) <= -5 * closes[n - Back]

InOrder(held) == SetToSortSeq(held, LAMBDA r, q : r.date < q.date)

(* One of the last days is above the percentile, the volume has not dried  *)
(* up lately, and the market has not fallen.                               *)
Cascade(held) ==
    LET n == Cardinality(held)
        history == InOrder(held)
        liqs == [i \in 1..n |-> history[i].volume]
        p == Percentile90(LastOnes(liqs, Lookback))
        late == SumOf(LastOnes(liqs, RegimeDays))
    IN /\ n >= MinLookback
       /\ p > 0
       /\ \E i \in DOMAIN liqs : i > n - Recent /\ 10 * liqs[i] > p
       /\ n >= RegimeDays => 100 * late * n >= 30 * SumOf(liqs) * RegimeDays
       /\ ~Fell([i \in 1..n |-> history[i].close])
-----------------------------------------------------------------------------
(* The table *)

MinDate == today - MaxDays

(* get_liq_cache: the rows from a date on. *)
Cached(s, since) ==
    {[date |-> d, volume |-> rows[s][d].volume, close |-> rows[s][d].close] :
        d \in {d \in Dates : d >= since /\ rows[s][d] # None}}

(* A tracker keeps the last of the rows it is given (deque). *)
Latest(held, n) == {r \in held : Cardinality({q \in held : q.date > r.date}) < n}

(* prune_liq_cache *)
Pruned == [s \in Symbols |-> [d \in Dates |-> IF d < MinDate THEN None ELSE rows[s][d]]]

Committed(r) == [saved EXCEPT !.rows = r]

(* Mutant of Fed: the rows are added to the tracker that is there. *)
FedAgain(s, since) == Latest(tracker[s] \cup Cached(s, since), Keep)

(* A new tracker holds the last of the cached rows. *)
Fed(s, since) == Latest(Cached(s, since), Keep)

(* update_daily_liq, for symbols that have rows. *)
FeedAll(ss, since) ==
    LET fed == {s \in ss : Cached(s, since) # {}}
    IN /\ tracker' = [s \in Symbols |-> IF s \in fed THEN Fed(s, since) ELSE tracker[s]]
       /\ active' = [s \in Symbols |-> IF s \in fed THEN Cascade(Fed(s, since)) ELSE active[s]]
-----------------------------------------------------------------------------
(* _update_liq_context *)

(* Hourly, if the date is another than that of the last refresh; and at    *)
(* the start of the process, before the stream is opened.                  *)
Refresh ==
    /\ \/ refresh.pc = "down" /\ lastDate' = saved.lastDate
       \/ refresh.pc = "idle" /\ today # lastDate /\ UNCHANGED lastDate
    /\ rows' = Pruned
    /\ saved' = Committed(Pruned)
    /\ refresh' = [Task("next") EXCEPT !.since = MinDate, !.todo = Symbols]
    /\ UNCHANGED <<today, tracker, active, stream, dirty, key, messages, stops, errors>>

Left(s) == [refresh EXCEPT !.todo = @ \ {s}]

(* On to the next symbol. *)
SymbolDone == [refresh EXCEPT !.pc = "next", !.sym = None, !.answer = None]

(* Enough is cached: the symbol is fed at once. *)
Skip(s) ==
    /\ refresh.pc = "next" /\ s \in refresh.todo
    /\ Cardinality(Cached(s, refresh.since)) >= Enough
    /\ FeedAll({s}, refresh.since)
    /\ refresh' = Left(s)
    /\ UNCHANGED <<today, rows, saved, lastDate, stream, dirty, key, messages, stops, errors>>

(* Without a key a symbol with too few rows is not even fed. *)
NoKey(s) ==
    /\ refresh.pc = "next" /\ s \in refresh.todo
    /\ Cardinality(Cached(s, refresh.since)) < Enough
    /\ ~key
    /\ refresh' = Left(s)
    /\ UNCHANGED <<today, rows, saved, tracker, active, lastDate, stream, dirty, key,
                   messages, stops, errors>>

(* Up to five requests, with a sleep after each that failed. *)
Ask(s) ==
    /\ refresh.pc = "next" /\ s \in refresh.todo
    /\ Cardinality(Cached(s, refresh.since)) < Enough
    /\ key
    /\ refresh' = [Left(s) EXCEPT !.pc = "asking", !.sym = s]
    /\ UNCHANGED <<today, rows, saved, tracker, active, lastDate, stream, dirty, key,
                   messages, stops, errors>>

(* The history is kept over the await of the daily closes.  It may end     *)
(* before today: then a crash is one among the writes of its rows.         *)
Answered(history) ==
    /\ refresh.pc = "asking"
    /\ refresh' = [refresh EXCEPT !.pc = "closes", !.answer = history]
    /\ UNCHANGED <<today, rows, saved, tracker, active, lastDate, stream, dirty, key,
                   messages, stops, errors>>

NoAnswer ==
    /\ refresh.pc = "asking"
    /\ refresh' = [refresh EXCEPT !.pc = "pause"]
    /\ UNCHANGED <<today, rows, saved, tracker, active, lastDate, stream, dirty, key,
                   messages, stops, errors>>

(* Every row of the answer replaces the one that is there. *)
Seeded(s, history, close) ==
    [rows EXCEPT ![s] = [d \in Dates |->
        IF d \in DOMAIN history
        THEN [volume |-> history[d], close |-> close] ELSE @[d]]]

Seed(close) ==
    /\ refresh.pc = "closes"
    /\ rows' = Seeded(refresh.sym, refresh.answer, close)
    /\ saved' = Committed(rows')
    /\ refresh' = [refresh EXCEPT !.pc = "pause", !.answer = None]
    /\ UNCHANGED <<today, tracker, active, lastDate, stream, dirty, key, messages, stops, errors>>

(* After three seconds the table is read again and fed. *)
Feed ==
    /\ refresh.pc = "pause"
    /\ FeedAll({refresh.sym}, refresh.since)
    /\ refresh' = SymbolDone
    /\ UNCHANGED <<today, rows, saved, lastDate, stream, dirty, key, messages, stops, errors>>

(* An exception ends the symbol, not the refresh. *)
SymbolFails ==
    /\ refresh.pc \in {"closes", "pause"}
    /\ errors < MaxErrors /\ errors' = errors + 1
    /\ refresh' = SymbolDone
    /\ UNCHANGED <<today, rows, saved, tracker, active, lastDate, stream, dirty, key,
                   messages, stops>>

(* The date is that of the end; the first refresh lets the stream begin. *)
Refreshed ==
    /\ refresh.pc = "next" /\ refresh.todo = {}
    /\ refresh' = Task("idle")
    /\ lastDate' = today
    /\ saved' = [rows |-> rows, lastDate |-> today]
    /\ stream' = IF stream.pc = "off" THEN [stream EXCEPT !.pc = "on"] ELSE stream
    /\ UNCHANGED <<today, rows, tracker, active, dirty, key, messages, stops, errors>>
-----------------------------------------------------------------------------
(* _liq_websocket_loop and _flush_ws_to_engine *)

(* A message adds to the volume of its day. *)
Volume(s, d, close) ==
    LET old == IF rows[s][d] = None THEN 0 ELSE rows[s][d].volume
    IN [rows EXCEPT ![s][d] = [volume |-> old + 1, close |-> close]]

(* A message is of today, or late and of yesterday.  The row is written; a *)
(* minute after the last flush the next begins, with a commit, and waits   *)
(* for the engine's lock.                                                  *)
Message(s, d, close) ==
    /\ stream.pc = "on"
    /\ messages < MaxMessages /\ messages' = messages + 1
    /\ d \in {today - 1, today}
    /\ rows' = Volume(s, d, close)
    /\ \/ dirty' = dirty \cup {s} /\ UNCHANGED <<saved, stream>>
       \/ /\ saved' = Committed(rows')
          /\ stream' = [pc |-> "flush", since |-> MinDate, list |-> dirty \cup {s}]
          /\ dirty' = {}
    /\ UNCHANGED <<today, tracker, active, refresh, lastDate, key, stops, errors>>

Flush ==
    /\ stream.pc = "flush"
    /\ FeedAll(stream.list, stream.since)
    /\ stream' = Idle("on")
    /\ UNCHANGED <<today, rows, saved, refresh, lastDate, dirty, key, messages, stops, errors>>

(* The exception ends the connection; the list is not taken up again. *)
FlushFails ==
    /\ stream.pc = "flush"
    /\ errors < MaxErrors /\ errors' = errors + 1
    /\ stream' = Idle("on")
    /\ UNCHANGED <<today, rows, saved, tracker, active, refresh, lastDate, dirty, key,
                   messages, stops>>
-----------------------------------------------------------------------------
(* The candle loop commits on the same connection. *)
OtherCommit ==
    /\ refresh.pc # "down"
    /\ saved.rows # rows
    /\ saved' = Committed(rows)
    /\ UNCHANGED <<today, rows, memory, key, messages, stops, errors>>

Midnight ==
    /\ today < LastDay /\ today' = today + 1
    /\ UNCHANGED <<rows, saved, memory, key, messages, stops, errors>>

(* A crash loses what was not committed; an orderly end commits before. *)
Crash ==
    /\ refresh.pc # "down"
    /\ stops < MaxStops /\ stops' = stops + 1
    /\ rows' = saved.rows
    /\ tracker' = [s \in Symbols |-> {}]
    /\ active' = [s \in Symbols |-> FALSE]
    /\ refresh' = Task("down")
    /\ lastDate' = None
    /\ stream' = Idle("off")
    /\ dirty' = {}
    /\ UNCHANGED <<today, saved, key, messages, errors>>

(* The bounds are reached: the tasks wait. *)
Waiting ==
    /\ refresh.pc = "idle"
    /\ today = LastDay /\ lastDate = LastDay
    /\ UNCHANGED vars

Next ==
    \/ Refresh \/ Refreshed
    \/ \E s \in Symbols : Skip(s) \/ NoKey(s) \/ Ask(s)
    \/ \E last \in 0..today : \E history \in [0..last -> Volumes] : Answered(history)
    \/ NoAnswer
    \/ \E close \in Prices \cup {0} : Seed(close)
    \/ Feed \/ SymbolFails
    \/ \E s \in Symbols, d \in Dates, close \in Prices : Message(s, d, close)
    \/ Flush \/ FlushFails
    \/ OtherCommit \/ Midnight \/ Crash \/ Waiting

Spec == Init /\ [][Next]_vars
-----------------------------------------------------------------------------
(* Every variable has its type. *)
TypeOK ==
    /\ today \in Dates
    /\ active \in [Symbols -> BOOLEAN]
    /\ refresh.pc \in {"down", "idle", "next", "asking", "closes", "pause"}
    /\ refresh.todo \subseteq Symbols
    /\ stream.pc \in {"off", "on", "flush"}
    /\ stream.list \subseteq Symbols
    /\ dirty \subseteq Symbols
    /\ \A s \in Symbols : Cardinality(tracker[s]) <= Keep

(* Nobody owes this symbol a feed: it has been fed since the start, the    *)
(* stream has nothing pending, and no seeding has just changed its rows.   *)
Settled(s) ==
    /\ \/ tracker[s] # {}
       \/ key /\ refresh.pc # "down" /\ s \notin refresh.todo \cup {refresh.sym}
    /\ s \notin dirty \cup stream.list
    /\ ~(refresh.pc = "pause" /\ refresh.sym = s)

(* The engine trades on the liquidations the table holds: unless an        *)
(* exception came between, the tracker of a settled symbol has exactly the *)
(* cached rows of the last days, once each and as they are now, although   *)
(* the refresh and the stream rewrite them at each other's awaits          *)
(* (v5_forward_test.py:623, 746, 783).                                     *)
FedIsCurrent ==
    errors = 0 => \A s \in Symbols : Settled(s) =>
        LET rowsNow == Latest(Cached(s, MinDate), Keep)
        IN /\ {r \in tracker[s] : r.date >= MinDate} = rowsNow
           /\ tracker[s] = rowsNow => active[s] = Cascade(rowsNow)
=============================================================================
