--------------------------- MODULE V5ForwardTest ---------------------------
(***************************************************************************)
(* The forward test of the v5 engine (tools/v5_forward_test.py): the       *)
(* candle loop that polls every symbol, manages its position and looks for *)
(* an entry, with the SQLite tables it writes on the way.                  *)
(*                                                                         *)
(* A step ends at a commit or an await: a crash between two commits finds  *)
(* on disk what the earlier ones wrote, and another task (a liquidation    *)
(* update) runs at awaits only.  A statement may fail (a locked or full    *)
(* database): the exception ends the poll cycle, the candle is not marked  *)
(* as processed, and the next cycle takes it again.                        *)
(*                                                                         *)
(* Candles are numbered by their close time, the same for all symbols.     *)
(* Equity is kept as what was added to it: the entry fees deducted and how *)
(* often the result of each trade was booked.                              *)
(***************************************************************************)
EXTENDS LiqClusterEngine, FiniteSets

CONSTANTS
    Symbols,       \* the configured symbols
    Uuids,         \* the uuids trades may get
    None,
    MaxPositions,  \* max_positions
    MaxPerSymbol,  \* max_per_symbol
    Window,        \* candles a request returns (limit=3)
    MaxCandles,    \* bound: candles that close
    MaxStops,      \* bound: crashes and shutdowns
    MaxErrors      \* bound: statements that fail, exceptions of the engine

\* The exit_reason of a trade; "trail" is vol_trail, struct_trail or decay.
Reasons ==
    {"stop_loss", "trail", "cascade_deactivated", "early_cut", "time_stop"}

ASSUME RunnerAssumption ==
    /\ MaxPositions \in Nat /\ MaxPerSymbol \in Nat
    /\ Window \in Nat \ {0}
    /\ MaxCandles \in Nat /\ MaxStops \in Nat /\ MaxErrors \in Nat
    /\ None \notin Symbols \cup Uuids \cup Nat
    /\ \A d \in Reasons, c \in 0..MaxCandles :
         None # [reason |-> d, candle |-> c]
    /\ \A s \in Symbols, c \in 0..MaxCandles :
         None # [sym |-> s, candle |-> c]
    /\ IsFiniteSet(Uuids)

VARIABLES
    now,     \* candles that have closed so far
    h,       \* where the candle loop is, with its locals
    st,      \* engine._states
    open,    \* open_positions, by uuid
    closed,  \* the positions of `open' that carry _closed
    held,    \* candles_held of the positions in `open'
    equity,  \* executor.equity
    last,    \* last_processed
    entry,   \* symbol and entry_time of each position ever opened
    disk,    \* the tables, as committed
    showed,  \* observation: trades that once reached 0.1 R
    stops,   \* crashes and shutdowns so far
    errors   \* failed statements, and exceptions of the engine, so far

memory == <<st, open, closed, held, equity, last>>
vars == <<now, memory, h, entry, disk, showed, stops, errors>>

Candles == 0..MaxCandles

NoEquity == [fees |-> {}, exits |-> [t \in Uuids |-> 0]]

EmptyTables ==
    [positions |-> [t \in Uuids |-> None],   \* candles_held of each row
     trades |-> [t \in Uuids |-> None],      \* exit_reason and exit_time
     dups |-> {},                            \* duplicate_keys
     last |-> [s \in Symbols |-> 0],         \* last_5m_*
     equity |-> NoEquity]

At(pc) ==
    [pc |-> pc, todo |-> {}, sym |-> None, candle |-> 0, upto |-> 0,
     left |-> {}, trade |-> None]

\* Between two polls, with these symbols still to ask for in the cycle.
Polling(todo) == [At("poll") EXCEPT !.todo = todo]

Rows(d) == {t \in Uuids : d.positions[t] # None}

OfSymbol(s) == {t \in open : entry[t].sym = s}

Active == open \ closed

\* One committed write and the next place of the loop, or its failure: then
\* the write may still take effect, and the cycle begins anew.
Write(d, next) ==
    \/ disk' = d /\ h' = next /\ UNCHANGED errors
    \/ /\ errors < MaxErrors
       /\ errors' = errors + 1
       /\ disk' \in {disk, d}
       /\ h' = Polling(Symbols)

Init ==
    /\ now = 0
    /\ h = At("down")
    /\ st = [s \in Symbols |-> FreshSymbol]
    /\ open = {} /\ closed = {}
    /\ held = [t \in Uuids |-> 0]
    /\ equity = NoEquity
    /\ last = [s \in Symbols |-> 0]
    /\ entry = [t \in Uuids |-> None]
    /\ disk = EmptyTables
    /\ showed = {} /\ stops = 0 /\ errors = 0

-----------------------------------------------------------------------------
(* Start and end of the process *)

\* Mutant of Recovered: the engine does not learn of the recovered trades.
RecoveredIdle(active) ==
    [s \in Symbols |-> UpdateDailyLiq(FreshSymbol, active[s])]

\* What a start makes of the engine: the cascades as the cache has them, and
\* the trades of the position rows.
Recovered(active) ==
    [s \in Symbols |->
        [UpdateDailyLiq(FreshSymbol, active[s]) EXCEPT
            !.in_trade = \E t \in Rows(disk) : entry[t].sym = s]]

Start ==
    /\ h.pc = "down"
    /\ \E active \in [Symbols -> BOOLEAN] : st' = Recovered(active)
    /\ open' = Rows(disk)
    /\ held' = [t \in Uuids |->
                   IF t \in Rows(disk) THEN disk.positions[t] ELSE 0]
    /\ equity' = disk.equity
    /\ last' = disk.last
    /\ h' = Polling(Symbols)
    /\ UNCHANGED <<now, closed, entry, disk, showed, stops, errors>>

Forget ==
    /\ stops < MaxStops /\ stops' = stops + 1
    /\ h' = At("down")
    /\ st' = [s \in Symbols |-> FreshSymbol]
    /\ open' = {} /\ closed' = {}
    /\ held' = [t \in Uuids |-> 0]
    /\ equity' = NoEquity
    /\ last' = [s \in Symbols |-> 0]
    /\ UNCHANGED <<now, entry, showed, errors>>

Crash == h.pc # "down" /\ Forget /\ UNCHANGED disk

\* The loop looks at the shutdown event between two cycles; _cleanup then
\* saves the equity.
Shutdown ==
    /\ h = Polling(Symbols)
    /\ Forget
    /\ disk' = [disk EXCEPT !.equity = equity]

-----------------------------------------------------------------------------
(* The candle loop *)

\* The clock is read by Poll only, so a candle that closes while another is
\* handled is told from one that closes right afterwards by nothing.
CandleCloses ==
    /\ h.pc \in {"down", "poll"}
    /\ now < MaxCandles /\ now' = now + 1
    /\ UNCHANGED <<memory, h, entry, disk, showed, stops, errors>>

Later(a, b) == IF a > b THEN a ELSE b

\* The first candle of the answer that is not yet processed.
NextCandle(s) == Later(last[s] + 1, now - Window + 1)

\* _on_5m_close begins; without a position, _manage_positions returns at once.
OnClose(todo, s, c, upto) ==
    [At(IF OfSymbol(s) = {} THEN "entry" ELSE "manage") EXCEPT
        !.todo = todo, !.sym = s, !.candle = c, !.upto = upto,
        !.left = OfSymbol(s)]

\* Mutant of Poll: the newest closed candle is left for later.
PollBehind(s) ==
    /\ h.pc = "poll" /\ s \in h.todo
    /\ h' = IF NextCandle(s) < now
            THEN OnClose(h.todo, s, NextCandle(s), now)
            ELSE Polling(h.todo \ {s})
    /\ UNCHANGED <<now, memory, entry, disk, showed, stops, errors>>

Poll(s) ==
    /\ h.pc = "poll" /\ s \in h.todo
    /\ h' = IF NextCandle(s) <= now
            THEN OnClose(h.todo, s, NextCandle(s), now)
            ELSE Polling(h.todo \ {s})
    /\ UNCHANGED <<now, memory, entry, disk, showed, stops, errors>>

\* The candle is processed; the next one of the answer, or the next symbol.
CandleDone ==
    /\ last' = [last EXCEPT ![h.sym] = h.candle]
    /\ h' = IF h.candle < h.upto
            THEN OnClose(h.todo, h.sym, h.candle + 1, h.upto)
            ELSE Polling(h.todo \ {h.sym})

\* The end of a poll cycle commits what was processed in it.
CycleDone ==
    /\ h = Polling({})
    /\ Write([disk EXCEPT !.last = last], Polling(Symbols))
    /\ UNCHANGED <<now, memory, entry, showed, stops>>

-----------------------------------------------------------------------------
(* Liquidations *)

\* The engine hears of a cascade, from the stream (under the lock) or from
\* the daily refresh (without): at any await of the candle loop.
Liquidations(s, active) ==
    /\ h.pc \in {"poll", "exit_alert", "entry_alert"}
    /\ st' = [st EXCEPT ![s] = UpdateDailyLiq(@, active)]
    /\ st' # st
    /\ UNCHANGED <<now, open, closed, held, equity, last, h, entry, disk,
                   showed, stops, errors>>

-----------------------------------------------------------------------------
(* _manage_positions and _close_position *)

\* The position is kept; its row is saved with the candles it was held.
\* A candle older than the entry is counted but not looked at.
Hold(t) ==
    /\ h.pc = "manage" /\ t \in h.left
    /\ held' = [held EXCEPT ![t] = @ + 1]
    /\ IF h.candle < entry[t].candle
       THEN UNCHANGED <<st, showed>>
       ELSE /\ "hold" \in Decisions(st[h.sym], held[t] + 1)
            /\ \E e \in Decided(st[h.sym], "hold") :
                 /\ st' = [st EXCEPT ![h.sym] = e]
                 /\ showed' = IF e.lively THEN showed \cup {t} ELSE showed
    /\ Write([disk EXCEPT !.positions[t] = held[t] + 1],
             [h EXCEPT !.left = @ \ {t}])
    /\ UNCHANGED <<now, open, closed, equity, last, entry, stops>>

\* manage_position raises, before or after it looked at mfe: the row is saved and
\* the loop goes on, whatever the bar should have led to.
ManageFails(t) ==
    /\ h.pc = "manage" /\ t \in h.left /\ h.candle >= entry[t].candle
    /\ errors < MaxErrors /\ errors' = errors + 1
    /\ held' = [held EXCEPT ![t] = @ + 1]
    /\ \E e \in Decided(st[h.sym], "hold") :
          /\ st' = [st EXCEPT ![h.sym] = e]
          /\ showed' = IF e.lively THEN showed \cup {t} ELSE showed
    /\ disk' = [disk EXCEPT !.positions[t] = held[t] + 1]
    /\ h' = [h EXCEPT !.left = @ \ {t}]
    /\ UNCHANGED <<now, open, closed, equity, last, entry, stops>>

\* Mutant of Close: the row is removed before the trade is saved.
CloseRemovesFirst(t, d) ==
    /\ h.pc = "manage" /\ t \in h.left
    /\ h.candle >= entry[t].candle
    /\ d \in Decisions(st[h.sym], held[t] + 1) \ {"hold"}
    /\ held' = [held EXCEPT ![t] = @ + 1]
    /\ \E e \in Decided(st[h.sym], d) : st' = [st EXCEPT ![h.sym] = e]
    /\ equity' = [equity EXCEPT !.exits[t] = @ + 1]
    /\ closed' = closed \cup {t}
    /\ Write([disk EXCEPT !.positions[t] = None],
             [h EXCEPT !.pc = "save_equity", !.trade = t])
    /\ UNCHANGED <<now, open, last, entry, showed, stops>>

\* The engine closes: the fill is booked in memory and the trade is saved.
Close(t, d) ==
    /\ h.pc = "manage" /\ t \in h.left
    /\ h.candle >= entry[t].candle
    /\ d \in Decisions(st[h.sym], held[t] + 1) \ {"hold"}
    /\ held' = [held EXCEPT ![t] = @ + 1]
    /\ \E e \in Decided(st[h.sym], d) : st' = [st EXCEPT ![h.sym] = e]
    /\ equity' = [equity EXCEPT !.exits[t] = @ + 1]
    /\ closed' = closed \cup {t}
    /\ Write([disk EXCEPT !.trades[t] = [reason |-> d, candle |-> h.candle]],
             [h EXCEPT !.pc = "remove", !.trade = t])
    /\ UNCHANGED <<now, open, last, entry, showed, stops>>

RemovePosition ==
    /\ h.pc = "remove"
    /\ Write([disk EXCEPT !.positions[h.trade] = None],
             [h EXCEPT !.pc = "save_equity"])
    /\ UNCHANGED <<now, memory, entry, showed, stops>>

SaveEquity ==
    /\ h.pc = "save_equity"
    /\ Write([disk EXCEPT !.equity = equity], [h EXCEPT !.pc = "exit_alert"])
    /\ UNCHANGED <<now, memory, entry, showed, stops>>

ExitAlerted ==
    /\ h.pc = "exit_alert"
    /\ h' = [h EXCEPT !.pc = "manage", !.left = @ \ {h.trade}, !.trade = None]
    /\ UNCHANGED <<now, memory, entry, disk, showed, stops, errors>>

\* Mutant of Kept: closed positions stay in the list.
KeptAll == open

\* What _manage_positions keeps of the open positions.
Kept == open \ closed

Managed ==
    /\ h.pc = "manage" /\ h.left = {}
    /\ open' = Kept /\ closed' = {}
    /\ h' = [h EXCEPT !.pc = "entry"]
    /\ UNCHANGED <<now, st, held, equity, last, entry, disk, showed, stops,
                   errors>>

-----------------------------------------------------------------------------
(* _check_entry *)

Duplicate == <<h.sym, h.candle>> \in disk.dups

\* Mutant of MayEvaluate: duplicate keys are not looked up.
MayEvaluateAgain ==
    /\ Cardinality(OfSymbol(h.sym) \ closed) < MaxPerSymbol
    /\ Cardinality(Active) < MaxPositions

\* Mutant of MayEvaluate: one position too many.
MayEvaluateOneMore ==
    /\ Cardinality(OfSymbol(h.sym) \ closed) < MaxPerSymbol
    /\ Cardinality(Active) <= MaxPositions
    /\ ~Duplicate

MayEvaluate ==
    /\ Cardinality(OfSymbol(h.sym) \ closed) < MaxPerSymbol
    /\ Cardinality(Active) < MaxPositions
    /\ ~Duplicate

\* A limit is reached, the key is known, no equity is left or evaluate() raises
\* (the amount is not kept, so either may be any time): the engine counts nothing.
NoEntry ==
    /\ h.pc = "entry"
    /\ \/ UNCHANGED st
       \/ MayEvaluate /\ \E e \in Quiet(st[h.sym]) : st' = [st EXCEPT ![h.sym] = e]
    /\ CandleDone
    /\ UNCHANGED <<now, open, closed, held, equity, entry, disk, showed,
                   stops, errors>>

Signal ==
    /\ h.pc = "entry" /\ MayEvaluate /\ CanSignal(st[h.sym])
    /\ st' = [st EXCEPT ![h.sym] = Signalled(@)]
    /\ Write([disk EXCEPT !.dups = @ \cup {<<h.sym, h.candle>>}],
             [h EXCEPT !.pc = "signal"])
    /\ UNCHANGED <<now, open, closed, held, equity, last, entry, showed,
                   stops>>

\* A stop price or a quantity that is not positive.
SignalDropped ==
    /\ h.pc = "signal"
    /\ CandleDone
    /\ UNCHANGED <<now, st, open, closed, held, equity, entry, disk, showed,
                   stops, errors>>

Enter(t) ==
    /\ h.pc = "signal" /\ entry[t] = None
    /\ entry' = [entry EXCEPT ![t] = [sym |-> h.sym, candle |-> h.candle]]
    /\ equity' = [equity EXCEPT !.fees = @ \cup {t}]
    /\ open' = open \cup {t}
    /\ held' = [held EXCEPT ![t] = 0]
    /\ Write([disk EXCEPT !.positions[t] = 0],
             [h EXCEPT !.pc = "entry_alert", !.trade = t])
    /\ UNCHANGED <<now, st, closed, last, showed, stops>>

\* After the alert the row is saved once more; it has not changed since.
EntryAlerted ==
    /\ h.pc = "entry_alert"
    /\ CandleDone
    /\ UNCHANGED <<now, st, open, closed, held, equity, entry, disk, showed,
                   stops, errors>>

-----------------------------------------------------------------------------

\* The steps of the candle loop.
Loop ==
    \/ CycleDone
    \/ \E s \in Symbols : Poll(s)
    \/ \E t \in Uuids : Hold(t) \/ ManageFails(t)
    \/ \E t \in Uuids, d \in Reasons : Close(t, d)
    \/ RemovePosition \/ SaveEquity \/ ExitAlerted \/ Managed
    \/ NoEntry \/ Signal \/ SignalDropped
    \/ \E t \in Uuids : Enter(t)
    \/ EntryAlerted

Next ==
    \/ Loop
    \/ Start \/ Crash \/ Shutdown \/ CandleCloses
    \/ \E s \in Symbols, active \in BOOLEAN : Liquidations(s, active)

Spec == Init /\ [][Next]_vars

-----------------------------------------------------------------------------
(* Properties *)

Places ==
    {"down", "poll", "manage", "remove", "save_equity", "exit_alert", "entry",
     "signal", "entry_alert"}

Equity == [fees : SUBSET Uuids, exits : [Uuids -> Nat]]

Trade == [reason : Reasons, candle : Candles]

Locals ==
    [pc : Places, todo : SUBSET Symbols, sym : Symbols \cup {None},
     candle : Candles, upto : Candles, left : SUBSET Uuids,
     trade : Uuids \cup {None}]

Tables ==
    [positions : [Uuids -> Nat \cup {None}],
     trades : [Uuids -> Trade \cup {None}],
     dups : SUBSET (Symbols \X Candles),
     last : [Symbols -> Candles],
     equity : Equity]

\* A candle that is handled has a symbol.
Placed(l) == l \in Locals /\ (l.pc \notin {"down", "poll"} => l.sym \in Symbols)

\* The state has its types, and a candle that is handled has a symbol.
TypeOK ==
    /\ now \in Candles /\ stops \in 0..MaxStops /\ errors \in 0..MaxErrors
    /\ Placed(h)
    /\ st \in [Symbols -> SymbolState]
    /\ open \in SUBSET Uuids /\ closed \in SUBSET Uuids
    /\ held \in [Uuids -> Nat]
    /\ equity \in Equity
    /\ last \in [Symbols -> Candles]
    /\ entry \in [Uuids -> [sym : Symbols, candle : Candles] \cup {None}]
    /\ disk \in Tables
    /\ showed \in SUBSET Uuids

\* Two trades never come from the same candle of a symbol, although a crash or
\* an exception makes the loop take candles again (duplicate_keys).
OneEntryPerCandle ==
    \A t, u \in Uuids :
        entry[t] # None /\ entry[t] = entry[u] => t = u

\* A position row disappears only when the trades table has the trade:
\* _close_position saves the trade first, so a crash cannot lose it.
RemovedIsRecorded ==
    [][\A t \in Uuids :
         disk.positions[t] # None /\ disk'.positions[t] = None
             => disk.trades[t] # None]_vars

\* Unless a statement or the engine failed, the result of a trade enters the equity, in
\* memory and on disk, at most once, wherever a crash cut _close_position.
BookedOnce ==
    errors = 0 =>
        \A t \in Uuids : equity.exits[t] <= 1 /\ disk.equity.exits[t] <= 1

\* Unless a statement or the engine failed, the limits hold for the rows on disk as well as
\* for the open positions, so a recovery never starts beyond them.
WithinLimits ==
    errors = 0 =>
        /\ Cardinality(Active) <= MaxPositions
        /\ Cardinality(Rows(disk)) <= MaxPositions
        /\ \A s \in Symbols :
             /\ Cardinality(OfSymbol(s) \ closed) <= MaxPerSymbol
             /\ Cardinality({t \in Rows(disk) : entry[t].sym = s})
                  <= MaxPerSymbol

\* Unless a statement or the engine failed, the engine manages every open position:
\* manage_position ignores a symbol that is not in_trade.
OpenIsManaged ==
    errors = 0 => \A t \in Active : st[entry[t].sym].in_trade

\* A process that was not disturbed lets cooldown_bars candles pass between an
\* exit and the next entry of the symbol (liq_cluster_engine_v5.py, evaluate).
\* The longer block after a streak of stops is not part of it, nor is what a
\* restart, which lifts both, leaves of them.
CooldownServed ==
    stops = 0 /\ errors = 0 =>
        \A t, u \in Uuids :
            /\ disk.trades[t] # None /\ entry[u] # None
            /\ entry[u].sym = entry[t].sym
            /\ entry[u].candle > entry[t].candle
            => entry[u].candle >= disk.trades[t].candle + CooldownBars

\* Unless a statement or the engine failed, no position outlives max_hold_bars by more than
\* the older candles a start takes again, which count without being looked at.
HoldBounded ==
    errors = 0 =>
        \A t \in Active : held[t] < MaxHold + (Window - 1) * stops

\* The loop catches up: however often a statement failed or the process ended
\* before, a process that stays up has in the end processed the newest closed
\* candle of every symbol.
CaughtUp == <>[](h.pc = "down" \/ \A s \in Symbols : last[s] = now)

\* "Cut dead trades at decay bar - never showed life" (the comment above the
\* early cut in manage_position).
CutShowedNoLife ==
    \A t \in Uuids :
        disk.trades[t] # None /\ disk.trades[t].reason = "early_cut"
            => t \notin showed

=============================================================================
