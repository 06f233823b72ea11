------------------------ MODULE V5ForwardTestProofs ------------------------
(***************************************************************************)
(* Proofs about V5ForwardTest, for any number of symbols, trades, candles, *)
(* crashes and failing statements, and any limits.                         *)
(***************************************************************************)
EXTENDS V5ForwardTest, FiniteSetTheorems, TLAPS

\* The places at which the loop works on the positions of a symbol.
Managing == {"manage", "remove", "save_equity", "exit_alert"}

\* The key of every entry is in the table; so is the key of a signal that may
\* become one, and no earlier entry has it.
Keys ==
    /\ \A t \in Uuids :
         entry[t] # None => <<entry[t].sym, entry[t].candle>> \in disk.dups
    /\ h.pc = "signal" =>
         /\ <<h.sym, h.candle>> \in disk.dups
         /\ \A t \in Uuids : entry[t] # [sym |-> h.sym, candle |-> h.candle]

\* A row about to be removed belongs to a recorded trade.
Recording ==
    h.pc = "remove" => h.trade \in Uuids /\ disk.trades[h.trade] # None

\* Where the results are while no statement has failed: an open position is
\* not booked, a booked one has no row (but for the moment between save_trade
\* and remove_position), and the saved equity is never ahead of memory.
Books ==
    /\ h.pc = "down" => open = {}
    /\ h.pc \in Managing => /\ h.left \subseteq open
                            /\ h.left \cap closed \subseteq {h.trade}
    /\ h.pc = "manage" => h.trade = None
    /\ h.pc \notin Managing => closed = {}
    /\ h.pc # "down" =>
         \A t \in Uuids : disk.equity.exits[t] <= equity.exits[t]
    /\ \A t \in open : t \notin closed => equity.exits[t] = 0
    /\ \A t \in Uuids :
         /\ equity.exits[t] <= 1 /\ disk.equity.exits[t] <= 1
         /\ equity.exits[t] > 0 /\ disk.positions[t] # None
              => h.pc = "remove" /\ h.trade = t
         /\ disk.equity.exits[t] > 0 => disk.positions[t] = None
         /\ entry[t] = None =>
              /\ t \notin open /\ disk.positions[t] = None
              /\ equity.exits[t] = 0 /\ disk.equity.exits[t] = 0

-----------------------------------------------------------------------------
(* Types *)

\* What the engine's operations return are states of a symbol.
LEMMA EngineTypes ==
    ASSUME NEW s \in SymbolState
    PROVE  /\ FreshSymbol \in SymbolState
           /\ \A active \in BOOLEAN : UpdateDailyLiq(s, active) \in SymbolState
           /\ Quiet(s) \subseteq SymbolState
           /\ Signalled(s) \in SymbolState
           /\ \A d : Decided(s, d) \subseteq SymbolState
<1>1. FreshSymbol \in SymbolState
      BY DEF FreshSymbol, SymbolState
<1>2. \A active \in BOOLEAN : UpdateDailyLiq(s, active) \in SymbolState
      BY DEF UpdateDailyLiq, SymbolState
<1>3. Quiet(s) \subseteq SymbolState
      BY DEF Quiet, SymbolState
<1>4. Signalled(s) \in SymbolState
      BY DEF Signalled, SymbolState
<1>5. ASSUME NEW d PROVE Decided(s, d) \subseteq SymbolState
      <2> DEFINE out == [s EXCEPT !.in_trade = FALSE, !.cooldown = CooldownBars]
      <2>1. out \in SymbolState
            BY EngineAssumption DEF SymbolState
      <2> HIDE DEF out
      <2>2. ASSUME NEW e \in SymbolState PROVE CountStop(e) \in SymbolState
            <3>1. /\ e.consecutive_stops + 1 \in Nat
                  /\ (IF e.consecutive_stops + 1 >= MaxConsecutiveStops
                      THEN StopCooldownBars ELSE e.stop_cooldown) \in Nat
                  BY EngineAssumption DEF SymbolState
            <3>2. QED
                  BY <3>1 DEF SymbolState, CountStop
      <2>3. [out EXCEPT !.stopped_in_window = TRUE] \in SymbolState
            BY <2>1 DEF SymbolState
      <2>4. [out EXCEPT !.consecutive_stops = 0] \in SymbolState
            BY <2>1 DEF SymbolState
      <2>5. [s EXCEPT !.lively = TRUE] \in SymbolState
            BY DEF SymbolState
      <2>6. Decided(s, d) =
               CASE d = "hold" -> IF s.in_trade
                                  THEN {s, [s EXCEPT !.lively = TRUE]} ELSE {s}
                 [] d = "stop_loss" ->
                        {CountStop([out EXCEPT !.stopped_in_window = TRUE])}
                 [] d = "early_cut" -> {CountStop(out)}
                 [] OTHER -> {[out EXCEPT !.consecutive_stops = 0]}
            BY DEF Decided, out
      <2>7. QED
            <3>1. CASE d = "hold"
                  BY <2>5, <2>6, <3>1
            <3>2. CASE d = "stop_loss"
                  BY <2>2, <2>3, <2>6, <3>2
            <3>3. CASE d = "early_cut"
                  BY <2>1, <2>2, <2>6, <3>3
            <3>4. CASE d \notin {"hold", "stop_loss", "early_cut"}
                  BY <2>4, <2>6, <3>4
            <3>5. QED
                  BY <3>1, <3>2, <3>3, <3>4
<1>6. QED
      BY <1>1, <1>2, <1>3, <1>4, <1>5

LEMMA LocalTypes ==
    ASSUME NEW pc \in Places, NEW todo \in SUBSET Symbols
    PROVE  /\ At(pc) \in Locals /\ Placed(At("down")) /\ Placed(Polling(todo))
           /\ Polling(todo).pc = "poll"
BY RunnerAssumption DEF At, Polling, Locals, Places, Candles, Placed

LEMMA OnCloseTypes ==
    ASSUME TypeOK, NEW todo \in SUBSET Symbols, NEW s \in Symbols,
           NEW c \in Candles, NEW u \in Candles
    PROVE  Placed(OnClose(todo, s, c, u))
<1>1. OfSymbol(s) \in SUBSET Uuids
      BY DEF OfSymbol, TypeOK
<1>2. QED
      BY <1>1, RunnerAssumption DEF OnClose, At, Locals, Places, Candles, Placed

\* A write leaves either table and either place.
LEMMA WriteTypes ==
    ASSUME TypeOK, NEW d \in Tables, NEW n, Placed(n), Write(d, n)
    PROVE  disk' \in Tables /\ Placed(h') /\ errors' \in 0..MaxErrors
<1>1. /\ disk \in Tables /\ errors \in 0..MaxErrors
      /\ Placed(Polling(Symbols))
      BY LocalTypes DEF TypeOK, Places
<1>2. QED
      BY <1>1, RunnerAssumption DEF Write

\* The state keeps its types at every step of the loop and of its environment.
LEMMA TypeStep == TypeOK /\ [Next]_vars => TypeOK'
<1> SUFFICES ASSUME TypeOK, [Next]_vars PROVE TypeOK'
    OBVIOUS
<1> USE DEF Locals, Tables
<1>0. /\ Placed(h)
      /\ disk \in Tables /\ equity \in Equity /\ st \in [Symbols -> SymbolState]
      BY DEF TypeOK
<1>1. CASE Start
      <2>1. Rows(disk) \in SUBSET Uuids
            BY DEF Rows
      <2>2. /\ [t \in Uuids |-> IF t \in Rows(disk) THEN disk.positions[t] ELSE 0]
                  \in [Uuids -> Nat]
            BY <1>0 DEF Rows
      <2>3. ASSUME NEW active \in [Symbols -> BOOLEAN]
            PROVE  Recovered(active) \in [Symbols -> SymbolState]
            <3>1. FreshSymbol \in SymbolState
                  BY DEF FreshSymbol, SymbolState
            <3>2. \A s \in Symbols :
                     UpdateDailyLiq(FreshSymbol, active[s]) \in SymbolState
                  BY <3>1, EngineTypes
            <3>3. QED
                  BY <3>2 DEF Recovered, SymbolState
      <2>4. QED
            BY <1>0, <1>1, <2>1, <2>2, <2>3, LocalTypes
            DEF Start, TypeOK, Places
<1>2. ASSUME Forget, disk' \in Tables PROVE TypeOK'
      <2>1. Placed(At("down"))
            BY LocalTypes DEF Places
      <2>2. FreshSymbol \in SymbolState /\ NoEquity \in Equity /\ 0 \in Candles
            BY RunnerAssumption DEF FreshSymbol, SymbolState, NoEquity, Equity, Candles
      <2>3. QED
            BY <1>2, <2>1, <2>2, RunnerAssumption DEF Forget, TypeOK
<1>3. CASE Crash
      BY <1>0, <1>2, <1>3 DEF Crash
<1>4. CASE Shutdown
      <2>1. disk' \in Tables
            BY <1>0, <1>4 DEF Shutdown
      <2>2. QED
            BY <1>2, <1>4, <2>1 DEF Shutdown
<1>5. CASE CandleCloses
      BY <1>5, RunnerAssumption DEF CandleCloses, memory, TypeOK, Candles
<1>6. ASSUME NEW s \in Symbols, Poll(s) PROVE TypeOK'
      <2>1. NextCandle(s) <= now => NextCandle(s) \in Candles
            BY RunnerAssumption DEF NextCandle, Later, TypeOK, Candles
      <2>2. h.todo \in SUBSET Symbols /\ now \in Candles
            BY <1>0 DEF Placed, TypeOK
      <2>3. Placed(Polling(h.todo \ {s}))
            BY <2>2, LocalTypes DEF Places
      <2>4. Placed(h')
            BY <1>6, <2>1, <2>2, <2>3, OnCloseTypes DEF Poll
      <2>5. QED
            BY <1>6, <2>4 DEF Poll, memory, TypeOK
<1>7. ASSUME CandleDone, h.sym \in Symbols
      PROVE  last' \in [Symbols -> Candles] /\ Placed(h')
      <2>1. h.candle < h.upto => h.candle + 1 \in Candles
            BY <1>0, RunnerAssumption DEF Candles, Placed
      <2>2. h.todo \in SUBSET Symbols /\ h.candle \in Candles /\ h.upto \in Candles
            BY <1>0 DEF Placed
      <2>3. Placed(Polling(h.todo \ {h.sym}))
            BY <2>2, LocalTypes DEF Places
      <2>4. Placed(h')
            BY <1>7, <2>1, <2>2, <2>3, OnCloseTypes DEF CandleDone
      <2>5. QED
            BY <1>7, <2>2, <2>4 DEF CandleDone, TypeOK
<1>8. CASE CycleDone
      <2>1. [disk EXCEPT !.last = last] \in Tables
            BY <1>0 DEF TypeOK
      <2>2. Placed(Polling(Symbols))
            BY LocalTypes DEF Places
      <2>3. disk' \in Tables /\ Placed(h') /\ errors' \in 0..MaxErrors
            BY <1>8, <2>1, <2>2, WriteTypes DEF CycleDone
      <2>4. QED
            BY <1>8, <2>3 DEF CycleDone, memory, TypeOK
<1>9. ASSUME NEW s \in Symbols, NEW active \in BOOLEAN, Liquidations(s, active)
      PROVE  TypeOK'
      BY <1>0, <1>9, EngineTypes DEF Liquidations, TypeOK
<1>10. ASSUME NEW t \in Uuids, Hold(t) PROVE TypeOK'
      <2>1. h.sym \in Symbols
            BY <1>0, <1>10 DEF Hold, Placed
      <2>2. [disk EXCEPT !.positions[t] = held[t] + 1] \in Tables
            BY <1>0 DEF TypeOK
      <2>3. Placed([h EXCEPT !.left = @ \ {t}])
            BY <1>0, <1>10 DEF Placed, Hold
      <2>4. disk' \in Tables /\ Placed(h') /\ errors' \in 0..MaxErrors
            BY <1>10, <2>2, <2>3, WriteTypes DEF Hold
      <2>5. held' \in [Uuids -> Nat]
            BY <1>10 DEF Hold, TypeOK
      <2>6. st' \in [Symbols -> SymbolState] /\ showed' \in SUBSET Uuids
            <3>1. CASE h.candle < entry[t].candle
                  BY <1>10, <3>1 DEF Hold, TypeOK
            <3>2. CASE ~(h.candle < entry[t].candle)
                  <4>1. PICK e \in Decided(st[h.sym], "hold") :
                           /\ st' = [st EXCEPT ![h.sym] = e]
                           /\ showed' = IF e.lively THEN showed \cup {t}
                                        ELSE showed
                        BY <1>10, <3>2 DEF Hold
                  <4>2. e \in SymbolState
                        BY <1>0, <2>1, <4>1, EngineTypes
                  <4>3. QED
                        BY <1>0, <2>1, <4>1, <4>2 DEF TypeOK
            <3>3. QED
                  BY <3>1, <3>2
      <2>7. QED
            BY <1>10, <2>4, <2>5, <2>6 DEF Hold, TypeOK
<1>m. ASSUME NEW t \in Uuids, ManageFails(t) PROVE TypeOK'
      <2>1. h.sym \in Symbols
            BY <1>0, <1>m DEF ManageFails, Placed
      <2>2. disk' \in Tables /\ errors' \in 0..MaxErrors
            BY <1>0, <1>m, RunnerAssumption DEF ManageFails, TypeOK
      <2>3. Placed(h')
            BY <1>0, <1>m DEF Placed, ManageFails
      <2>4. held' \in [Uuids -> Nat]
            BY <1>m DEF ManageFails, TypeOK
      <2>5. PICK e \in Decided(st[h.sym], "hold") :
               /\ st' = [st EXCEPT ![h.sym] = e]
               /\ showed' = IF e.lively THEN showed \cup {t} ELSE showed
            BY <1>m DEF ManageFails
      <2>6. e \in SymbolState
            BY <1>0, <2>1, <2>5, EngineTypes
      <2>7. st' \in [Symbols -> SymbolState] /\ showed' \in SUBSET Uuids
            BY <1>0, <2>1, <2>5, <2>6 DEF TypeOK
      <2>8. QED
            BY <1>m, <2>2, <2>3, <2>4, <2>7 DEF ManageFails, TypeOK
<1>11. ASSUME NEW t \in Uuids, NEW d \in Reasons, Close(t, d) PROVE TypeOK'
      <2>1. [reason |-> d, candle |-> h.candle] \in Trade
            BY <1>0 DEF Trade, Placed
      <2>2. [disk EXCEPT !.trades[t] = [reason |-> d, candle |-> h.candle]]
               \in Tables
            BY <1>0, <2>1
      <2>3. Placed([h EXCEPT !.pc = "remove", !.trade = t])
            BY <1>0, <1>11 DEF Placed, Close, Places
      <2>4. disk' \in Tables /\ Placed(h') /\ errors' \in 0..MaxErrors
            BY <1>11, <2>2, <2>3, WriteTypes DEF Close
      <2>5. held' \in [Uuids -> Nat] /\ closed' \in SUBSET Uuids
            BY <1>11 DEF Close, TypeOK
      <2>6. equity' \in Equity
            BY <1>0, <1>11 DEF Close, Equity
      <2>7. st' \in [Symbols -> SymbolState]
            <3>1. PICK e \in Decided(st[h.sym], d) :
                     st' = [st EXCEPT ![h.sym] = e]
                  BY <1>11 DEF Close
            <3>2. e \in SymbolState
                  BY <1>0, <1>11, <3>1, EngineTypes DEF Close, Placed
            <3>3. QED
                  BY <1>0, <3>1, <3>2
      <2>8. QED
            BY <1>11, <2>4, <2>5, <2>6, <2>7 DEF Close, TypeOK
<1>12. CASE RemovePosition
      <2>1. [disk EXCEPT !.positions[h.trade] = None] \in Tables
            BY <1>0 DEF Placed
      <2>2. Placed([h EXCEPT !.pc = "save_equity"])
            BY <1>0, <1>12 DEF Placed, RemovePosition, Places
      <2>3. disk' \in Tables /\ Placed(h') /\ errors' \in 0..MaxErrors
            BY <1>12, <2>1, <2>2, WriteTypes DEF RemovePosition
      <2>4. QED
            BY <1>12, <2>3 DEF RemovePosition, memory, TypeOK
<1>13. CASE SaveEquity
      <2>1. [disk EXCEPT !.equity = equity] \in Tables
            BY <1>0
      <2>2. Placed([h EXCEPT !.pc = "exit_alert"])
            BY <1>0, <1>13 DEF Placed, SaveEquity, Places
      <2>3. disk' \in Tables /\ Placed(h') /\ errors' \in 0..MaxErrors
            BY <1>13, <2>1, <2>2, WriteTypes DEF SaveEquity
      <2>4. QED
            BY <1>13, <2>3 DEF SaveEquity, memory, TypeOK
<1>14. CASE ExitAlerted
      <2>1. Placed(h')
            BY <1>0, <1>14 DEF ExitAlerted, Places, Placed
      <2>2. QED
            BY <1>14, <2>1 DEF ExitAlerted, memory, TypeOK
<1>15. CASE Managed
      <2>1. Placed(h') /\ open' \in SUBSET Uuids
            BY <1>0, <1>15 DEF Managed, Kept, Places, Placed, TypeOK
      <2>2. QED
            BY <1>15, <2>1 DEF Managed, TypeOK
<1>16. CASE NoEntry
      <2>1. h.sym \in Symbols
            BY <1>0, <1>16 DEF NoEntry, Placed
      <2>2. st' \in [Symbols -> SymbolState]
            <3>1. ASSUME NEW e \in Quiet(st[h.sym])
                  PROVE  [st EXCEPT ![h.sym] = e] \in [Symbols -> SymbolState]
                  BY <1>0, <2>1, EngineTypes
            <3>2. QED
                  BY <1>0, <1>16, <3>1 DEF NoEntry
      <2>3. last' \in [Symbols -> Candles] /\ Placed(h')
            BY <1>7, <1>16, <2>1 DEF NoEntry
      <2>4. QED
            BY <1>16, <2>2, <2>3 DEF NoEntry, TypeOK
<1>17. CASE Signal
      <2>1. h.sym \in Symbols /\ h.candle \in Candles
            BY <1>0, <1>17 DEF Signal, Placed
      <2>2. [disk EXCEPT !.dups = @ \cup {<<h.sym, h.candle>>}] \in Tables
            BY <1>0, <2>1
      <2>3. Placed([h EXCEPT !.pc = "signal"])
            BY <1>0, <2>1 DEF Placed, Places
      <2>4. disk' \in Tables /\ Placed(h') /\ errors' \in 0..MaxErrors
            BY <1>17, <2>2, <2>3, WriteTypes DEF Signal
      <2>5. st' \in [Symbols -> SymbolState]
            BY <1>0, <1>17, <2>1, EngineTypes DEF Signal
      <2>6. QED
            BY <1>17, <2>4, <2>5 DEF Signal, TypeOK
<1>18. CASE SignalDropped
      <2>1. last' \in [Symbols -> Candles] /\ Placed(h')
            BY <1>0, <1>7, <1>18 DEF SignalDropped, Placed
      <2>2. QED
            BY <1>18, <2>1 DEF SignalDropped, TypeOK
<1>19. ASSUME NEW t \in Uuids, Enter(t) PROVE TypeOK'
      <2>1. h.sym \in Symbols /\ h.candle \in Candles
            BY <1>0, <1>19 DEF Enter, Placed
      <2>2. [disk EXCEPT !.positions[t] = 0] \in Tables
            BY <1>0
      <2>3. Placed([h EXCEPT !.pc = "entry_alert", !.trade = t])
            BY <1>0, <2>1 DEF Placed, Places
      <2>4. disk' \in Tables /\ Placed(h') /\ errors' \in 0..MaxErrors
            BY <1>19, <2>2, <2>3, WriteTypes DEF Enter
      <2>5. /\ entry' \in [Uuids -> [sym : Symbols, candle : Candles] \cup {None}]
            /\ held' \in [Uuids -> Nat] /\ open' \in SUBSET Uuids
            BY <1>19, <2>1 DEF Enter, TypeOK
      <2>6. equity' \in Equity
            BY <1>0, <1>19 DEF Enter, Equity
      <2>7. QED
            BY <1>19, <2>4, <2>5, <2>6 DEF Enter, TypeOK
<1>20. CASE EntryAlerted
      <2>1. last' \in [Symbols -> Candles] /\ Placed(h')
            BY <1>0, <1>7, <1>20 DEF EntryAlerted, Placed
      <2>2. QED
            BY <1>20, <2>1 DEF EntryAlerted, TypeOK
<1>21. CASE UNCHANGED vars
      BY <1>21 DEF vars, memory, TypeOK
<1>22. QED
      BY <1>1, <1>3, <1>4, <1>5, <1>6, <1>8, <1>9, <1>10, <1>m, <1>11, <1>12, <1>13,
         <1>14, <1>15, <1>16, <1>17, <1>18, <1>19, <1>20, <1>21
      DEF Next, Loop


LEMMA TypeInit == Init => TypeOK
<1> SUFFICES ASSUME Init PROVE TypeOK
    OBVIOUS
<1>1. Placed(At("down"))
      BY LocalTypes DEF Places
<1>2. FreshSymbol \in SymbolState /\ NoEquity \in Equity
      BY DEF FreshSymbol, SymbolState, NoEquity, Equity
<1>3. 0 \in Candles /\ 0 \in 0..MaxStops /\ 0 \in 0..MaxErrors
      BY RunnerAssumption DEF Candles
<1>4. EmptyTables \in Tables
      BY <1>2, <1>3 DEF EmptyTables, Tables
<1>5. QED
      BY <1>1, <1>2, <1>3, <1>4 DEF Init, TypeOK

\* Every state of the candle loop, whatever crashes and statements fail, has
\* the types of TypeOK: locals, engine states and tables stay well-formed.
THEOREM TypeInvariant == Spec => []TypeOK
BY TypeInit, TypeStep, PTL DEF Spec

-----------------------------------------------------------------------------
(* Places *)

\* Where a candle's handling begins, and where it goes on when it is done.
LEMMA PlacesOf ==
    /\ \A todo : Polling(todo).pc = "poll"
    /\ \A pc : At(pc).pc = pc
    /\ \A todo, s, c, u : OnClose(todo, s, c, u).pc \in {"entry", "manage"}
    /\ CandleDone => h'.pc \in {"poll", "entry", "manage"}
<1>1. \A pc : At(pc).pc = pc
      BY DEF At
<1>2. \A todo : Polling(todo).pc = "poll"
      BY DEF Polling, At
<1>3. \A todo, s, c, u : OnClose(todo, s, c, u).pc \in {"entry", "manage"}
      BY DEF OnClose, At
<1>4. CandleDone => h'.pc \in {"poll", "entry", "manage"}
      BY <1>2, <1>3 DEF CandleDone
<1>5. QED
      BY <1>1, <1>2, <1>3, <1>4

LEMMA WriteOutcomes ==
    ASSUME NEW d, NEW n, Write(d, n)
    PROVE  disk' \in {disk, d} /\ (h' = n \/ h'.pc = "poll")
BY PlacesOf DEF Write

LEMMA WriteSucceeds ==
    ASSUME TypeOK, NEW d, NEW n, Write(d, n), errors' = 0
    PROVE  disk' = d /\ h' = n /\ errors = 0
BY RunnerAssumption DEF Write, TypeOK

LEMMA ManageSucceeds ==
    ASSUME errors = 0, errors' = 0
    PROVE  \A t \in Uuids : ~ManageFails(t)
BY DEF ManageFails


-----------------------------------------------------------------------------
(* One entry per candle *)

\* Only _check_entry touches the keys and the entries.
LEMMA KeysStep ==
    TypeOK /\ Keys /\ OneEntryPerCandle /\ [Next]_vars
        => Keys' /\ OneEntryPerCandle'
<1> SUFFICES ASSUME TypeOK, Keys, OneEntryPerCandle, [Next]_vars
             PROVE  Keys' /\ OneEntryPerCandle'
    OBVIOUS
<1>0. disk \in Tables /\ Placed(h)
      BY DEF TypeOK
<1>1. ASSUME h'.pc # "signal" \/ h' = h,
             entry' = entry, disk'.dups = disk.dups
      PROVE  Keys' /\ OneEntryPerCandle'
      BY <1>1 DEF Keys, OneEntryPerCandle
<1>2. ASSUME NEW d, NEW n, Write(d, n), n.pc # "signal",
             d.dups = disk.dups, entry' = entry
      PROVE  Keys' /\ OneEntryPerCandle'
      BY <1>1, <1>2, WriteOutcomes
<1>3. CASE Start
      BY <1>1, <1>3, PlacesOf DEF Start
<1>4. CASE Crash
      BY <1>1, <1>4, PlacesOf DEF Crash, Forget
<1>5. CASE Shutdown
      <2>1. disk'.dups = disk.dups
            BY <1>0, <1>5 DEF Shutdown, Tables
      <2>2. QED
            BY <1>1, <1>5, <2>1, PlacesOf DEF Shutdown, Forget
<1>6. CASE CandleCloses
      BY <1>1, <1>6 DEF CandleCloses
<1>7. ASSUME NEW s \in Symbols, Poll(s) PROVE Keys' /\ OneEntryPerCandle'
      <2>1. h'.pc # "signal"
            BY <1>7, PlacesOf DEF Poll
      <2>2. QED
            BY <1>1, <1>7, <2>1 DEF Poll
<1>8. CASE CycleDone
      <2>1. [disk EXCEPT !.last = last].dups = disk.dups
            BY <1>0 DEF Tables
      <2>2. QED
            BY <1>2, <1>8, <2>1, PlacesOf DEF CycleDone
<1>9. ASSUME NEW s \in Symbols, NEW active \in BOOLEAN, Liquidations(s, active)
      PROVE  Keys' /\ OneEntryPerCandle'
      BY <1>1, <1>9 DEF Liquidations
<1>10. ASSUME NEW t \in Uuids, Hold(t) PROVE Keys' /\ OneEntryPerCandle'
      <2>1. /\ [disk EXCEPT !.positions[t] = held[t] + 1].dups = disk.dups
            /\ [h EXCEPT !.left = @ \ {t}].pc # "signal"
            BY <1>0, <1>10 DEF Hold, Tables, Placed, Locals
      <2>2. QED
            BY <1>2, <1>10, <2>1 DEF Hold
<1>m. ASSUME NEW t \in Uuids, ManageFails(t) PROVE Keys' /\ OneEntryPerCandle'
      <2>1. disk'.dups = disk.dups /\ h'.pc # "signal" /\ entry' = entry
            BY <1>0, <1>m DEF ManageFails, Tables, Placed, Locals
      <2>2. QED
            BY <1>1, <2>1
<1>11. ASSUME NEW t \in Uuids, NEW d \in Reasons, Close(t, d)
       PROVE  Keys' /\ OneEntryPerCandle'
      <2> DEFINE saved == [disk EXCEPT
                             !.trades[t] = [reason |-> d, candle |-> h.candle]]
      <2>1. /\ saved.dups = disk.dups
            /\ [h EXCEPT !.pc = "remove", !.trade = t].pc # "signal"
            BY <1>0 DEF Tables, Placed, Locals
      <2>2. Write(saved, [h EXCEPT !.pc = "remove", !.trade = t])
            /\ entry' = entry
            BY <1>11 DEF Close
      <2> HIDE DEF saved
      <2>3. QED
            BY <1>2, <2>1, <2>2
<1>12. CASE RemovePosition
      <2>1. /\ [disk EXCEPT !.positions[h.trade] = None].dups = disk.dups
            /\ [h EXCEPT !.pc = "save_equity"].pc # "signal"
            BY <1>0 DEF Tables, Placed, Locals
      <2>2. QED
            BY <1>2, <1>12, <2>1 DEF RemovePosition
<1>13. CASE SaveEquity
      <2>1. /\ [disk EXCEPT !.equity = equity].dups = disk.dups
            /\ [h EXCEPT !.pc = "exit_alert"].pc # "signal"
            BY <1>0 DEF Tables, Placed, Locals
      <2>2. QED
            BY <1>2, <1>13, <2>1 DEF SaveEquity
<1>14. CASE ExitAlerted
      <2>1. h'.pc # "signal"
            BY <1>0, <1>14 DEF ExitAlerted, Placed, Locals
      <2>2. QED
            BY <1>1, <1>14, <2>1 DEF ExitAlerted
<1>15. CASE Managed
      <2>1. h'.pc # "signal"
            BY <1>0, <1>15 DEF Managed, Placed, Locals
      <2>2. QED
            BY <1>1, <1>15, <2>1 DEF Managed
<1>16. CASE NoEntry
      BY <1>1, <1>16, PlacesOf DEF NoEntry
<1>17. CASE Signal
      <2> DEFINE key == <<h.sym, h.candle>>
      <2>1. key \notin disk.dups
            BY <1>17 DEF Signal, MayEvaluate, Duplicate
      <2>2. entry' = entry /\ disk.dups \subseteq disk'.dups
            BY <1>0, <1>17, WriteOutcomes DEF Signal, Tables
      <2>3. ASSUME h'.pc = "signal"
            PROVE  h'.sym = h.sym /\ h'.candle = h.candle /\ key \in disk'.dups
            <3>1. /\ disk' = [disk EXCEPT !.dups = @ \cup {key}]
                  /\ h' = [h EXCEPT !.pc = "signal"]
                  BY <1>17, <2>3, PlacesOf DEF Signal, Write
            <3>2. QED
                  BY <1>0, <3>1 DEF Tables, Placed, Locals
      <2>4. \A t \in Uuids : entry[t] # [sym |-> h.sym, candle |-> h.candle]
            <3>1. [sym |-> h.sym, candle |-> h.candle] # None
                  BY <1>0, <1>17, RunnerAssumption
                  DEF Signal, Placed, Locals, Candles
            <3>2. QED
                  BY <2>1, <3>1 DEF Keys
      <2>5. Keys'
            BY <2>2, <2>3, <2>4 DEF Keys
      <2>6. QED
            BY <2>2, <2>5 DEF OneEntryPerCandle
<1>18. CASE SignalDropped
      BY <1>1, <1>18, PlacesOf DEF SignalDropped
<1>19. ASSUME NEW t \in Uuids, Enter(t) PROVE Keys' /\ OneEntryPerCandle'
      <2> DEFINE new == [sym |-> h.sym, candle |-> h.candle]
      <2>1. /\ h.pc = "signal" /\ entry[t] = None
            /\ entry' = [entry EXCEPT ![t] = new]
            /\ entry \in [Uuids -> [sym : Symbols, candle : Candles] \cup {None}]
            BY <1>19 DEF Enter, TypeOK
      <2>2. \A u \in Uuids : entry'[u] = IF u = t THEN new ELSE entry[u]
            BY <2>1
      <2>3. disk'.dups = disk.dups
            BY <1>0, <1>19, WriteOutcomes DEF Enter, Tables
      <2>4. h'.pc # "signal"
            <3>1. [h EXCEPT !.pc = "entry_alert", !.trade = t].pc # "signal"
                  BY <1>0 DEF Placed, Locals
            <3>2. QED
                  BY <1>19, <3>1, WriteOutcomes DEF Enter
      <2>5. Keys'
            BY <2>1, <2>2, <2>3, <2>4 DEF Keys
      <2>6. OneEntryPerCandle'
            BY <2>1, <2>2 DEF Keys, OneEntryPerCandle
      <2>7. QED
            BY <2>5, <2>6
<1>20. CASE EntryAlerted
      BY <1>1, <1>20, PlacesOf DEF EntryAlerted
<1>21. CASE UNCHANGED vars
      BY <1>1, <1>21 DEF vars
<1>22. QED
      BY <1>3, <1>4, <1>5, <1>6, <1>7, <1>8, <1>9, <1>10, <1>m, <1>11, <1>12, <1>13,
         <1>14, <1>15, <1>16, <1>17, <1>18, <1>19, <1>20, <1>21
      DEF Next, Loop

\* However often a crash or an exception makes the loop take a candle again, no
\* two trades come from the same candle of a symbol.
THEOREM OneEntryPerCandleAlways == Spec => []OneEntryPerCandle
<1>1. Init => TypeOK /\ Keys /\ OneEntryPerCandle
      <2>1. Init => Keys /\ OneEntryPerCandle
            BY PlacesOf DEF Init, Keys, OneEntryPerCandle
      <2>2. QED
            BY <2>1, TypeInit
<1>2. TypeOK /\ Keys /\ OneEntryPerCandle /\ [Next]_vars
        => (TypeOK /\ Keys /\ OneEntryPerCandle)'
      BY TypeStep, KeysStep
<1>3. QED
      BY <1>1, <1>2, PTL DEF Spec


-----------------------------------------------------------------------------
(* No position is lost *)

\* Only save_trade leads to remove_position.
LEMMA RecordingStep == TypeOK /\ Recording /\ [Next]_vars => Recording'
<1> SUFFICES ASSUME TypeOK, Recording, [Next]_vars PROVE Recording'
    OBVIOUS
<1>0. disk \in Tables /\ Placed(h)
      BY DEF TypeOK
<1>1. ASSUME h'.pc # "remove" PROVE Recording'
      BY <1>1 DEF Recording
<1>2. ASSUME NEW d, NEW n, Write(d, n), n.pc # "remove" PROVE Recording'
      BY <1>1, <1>2, WriteOutcomes
<1>3. CASE Start \/ Crash \/ Shutdown
      BY <1>1, <1>3, PlacesOf DEF Start, Crash, Shutdown, Forget
<1>4. CASE CandleCloses
      BY <1>4 DEF CandleCloses, Recording
<1>5. ASSUME NEW s \in Symbols, Poll(s) PROVE Recording'
      BY <1>1, <1>5, PlacesOf DEF Poll
<1>6. CASE CycleDone
      BY <1>2, <1>6, PlacesOf DEF CycleDone
<1>7. ASSUME NEW s \in Symbols, NEW active \in BOOLEAN, Liquidations(s, active)
      PROVE  Recording'
      BY <1>7 DEF Liquidations, Recording
<1>8. ASSUME NEW t \in Uuids, Hold(t) PROVE Recording'
      <2>1. [h EXCEPT !.left = @ \ {t}].pc # "remove"
            BY <1>0, <1>8 DEF Hold, Placed, Locals
      <2>2. QED
            BY <1>2, <1>8, <2>1 DEF Hold
<1>m. ASSUME NEW t \in Uuids, ManageFails(t) PROVE Recording'
      <2>1. h'.pc # "remove"
            BY <1>0, <1>m DEF ManageFails, Placed, Locals
      <2>2. QED
            BY <2>1 DEF Recording
<1>9. ASSUME NEW t \in Uuids, NEW d \in Reasons, Close(t, d)
      PROVE  Recording'
      <2> DEFINE trade == [reason |-> d, candle |-> h.candle]
                 saved == [disk EXCEPT !.trades[t] = trade]
                 next == [h EXCEPT !.pc = "remove", !.trade = t]
      <2>1. trade # None
            BY <1>0, RunnerAssumption DEF Placed, Locals, Candles
      <2>2. next.trade = t /\ saved.trades[t] # None
            BY <1>0, <2>1 DEF Tables, Placed, Locals
      <2>3. /\ Write(saved, next)
            BY <1>9 DEF Close
      <2> HIDE DEF saved, next
      <2>4. QED
            BY <2>2, <2>3, PlacesOf DEF Write, Recording
<1>10. CASE RemovePosition
      <2>1. [h EXCEPT !.pc = "save_equity"].pc # "remove"
            BY <1>0 DEF Placed, Locals
      <2>2. QED
            BY <1>2, <1>10, <2>1 DEF RemovePosition
<1>11. CASE SaveEquity
      <2>1. [h EXCEPT !.pc = "exit_alert"].pc # "remove"
            BY <1>0 DEF Placed, Locals
      <2>2. QED
            BY <1>2, <1>11, <2>1 DEF SaveEquity
<1>12. CASE ExitAlerted
      <2>1. h'.pc # "remove"
            BY <1>0, <1>12 DEF ExitAlerted, Placed, Locals
      <2>2. QED
            BY <1>1, <2>1
<1>13. CASE Managed
      <2>1. h'.pc # "remove"
            BY <1>0, <1>13 DEF Managed, Placed, Locals
      <2>2. QED
            BY <1>1, <2>1
<1>14. CASE NoEntry \/ SignalDropped \/ EntryAlerted
      BY <1>1, <1>14, PlacesOf DEF NoEntry, SignalDropped, EntryAlerted
<1>15. CASE Signal
      <2>1. [h EXCEPT !.pc = "signal"].pc # "remove"
            BY <1>0 DEF Placed, Locals
      <2>2. QED
            BY <1>2, <1>15, <2>1 DEF Signal
<1>16. ASSUME NEW t \in Uuids, Enter(t) PROVE Recording'
      <2>1. [h EXCEPT !.pc = "entry_alert", !.trade = t].pc # "remove"
            BY <1>0 DEF Placed, Locals
      <2>2. QED
            BY <1>2, <1>16, <2>1 DEF Enter
<1>17. CASE UNCHANGED vars
      BY <1>17 DEF vars, Recording
<1>18. QED
      BY <1>3, <1>4, <1>5, <1>6, <1>7, <1>8, <1>m, <1>9, <1>10, <1>11, <1>12, <1>13,
         <1>14, <1>15, <1>16, <1>17
      DEF Next, Loop

\* remove_position is the only write that takes a row away.
LEMMA RowsStay ==
    ASSUME TypeOK, [Next]_vars, NEW t \in Uuids,
           disk.positions[t] # None, disk'.positions[t] = None
    PROVE  h.pc = "remove" /\ h.trade = t
<1>0. disk \in Tables /\ Placed(h) /\ held \in [Uuids -> Nat]
      BY DEF TypeOK
<1>1. ASSUME disk'.positions = disk.positions PROVE FALSE
      BY <1>1
<1>2. ASSUME NEW d, NEW n, Write(d, n), d.positions = disk.positions
      PROVE  FALSE
      BY <1>1, <1>2, WriteOutcomes
<1>3. CASE \/ Start \/ Crash \/ CandleCloses
           \/ \E s \in Symbols : Poll(s)
           \/ \E s \in Symbols, active \in BOOLEAN : Liquidations(s, active)
           \/ ExitAlerted \/ Managed \/ NoEntry \/ SignalDropped
           \/ EntryAlerted \/ UNCHANGED vars
      BY <1>1, <1>3
      DEF Start, Crash, CandleCloses, Poll, Liquidations, ExitAlerted, Managed,
          NoEntry, SignalDropped, EntryAlerted, vars
<1>4. CASE Shutdown
      BY <1>0, <1>1, <1>4 DEF Shutdown, Tables
<1>5. CASE CycleDone
      BY <1>0, <1>2, <1>5 DEF CycleDone, Tables
<1>6. ASSUME NEW u \in Uuids, Hold(u) PROVE FALSE
      <2> DEFINE d == [disk EXCEPT !.positions[u] = held[u] + 1]
      <2>1. disk' \in {disk, d}
            BY <1>6, WriteOutcomes DEF Hold
      <2>2. d.positions[t] # None
            BY <1>0, RunnerAssumption DEF Tables
      <2>3. QED
            BY <2>1, <2>2
<1>m. ASSUME NEW u \in Uuids, ManageFails(u) PROVE FALSE
      <2>1. disk' = [disk EXCEPT !.positions[u] = held[u] + 1]
            BY <1>m DEF ManageFails
      <2>2. QED
            BY <1>0, <2>1, RunnerAssumption DEF Tables
<1>7. ASSUME NEW u \in Uuids, NEW r \in Reasons, Close(u, r) PROVE FALSE
      <2> DEFINE d == [disk EXCEPT
                         !.trades[u] = [reason |-> r, candle |-> h.candle]]
      <2>1. disk' \in {disk, d}
            BY <1>7, WriteOutcomes DEF Close
      <2>2. d.positions = disk.positions
            BY <1>0 DEF Tables
      <2>3. QED
            BY <1>1, <2>1, <2>2
<1>8. CASE RemovePosition
      <2>1. disk' \in {disk, [disk EXCEPT !.positions[h.trade] = None]}
            BY <1>8, WriteOutcomes DEF RemovePosition
      <2>2. QED
            BY <1>0, <1>8, <2>1 DEF RemovePosition, Tables
<1>9. CASE SaveEquity
      BY <1>0, <1>2, <1>9 DEF SaveEquity, Tables
<1>10. CASE Signal
      BY <1>0, <1>2, <1>10 DEF Signal, Tables
<1>11. ASSUME NEW u \in Uuids, Enter(u) PROVE FALSE
      <2>1. disk' \in {disk, [disk EXCEPT !.positions[u] = 0]}
            BY <1>11, WriteOutcomes DEF Enter
      <2>2. QED
            BY <1>0, <2>1, RunnerAssumption DEF Tables
<1>12. QED
      BY <1>3, <1>4, <1>5, <1>6, <1>m, <1>7, <1>8, <1>9, <1>10, <1>11
      DEF Next, Loop

\* A position row disappears only when the trades table has the trade,
\* wherever a crash cuts _close_position.
THEOREM RemovedIsRecordedAlways == Spec => RemovedIsRecorded
<1>1. Init => TypeOK /\ Recording
      BY TypeInit, PlacesOf DEF Init, Recording
<1>2. TypeOK /\ Recording /\ [Next]_vars => (TypeOK /\ Recording)'
      BY TypeStep, RecordingStep
<1>3. TypeOK /\ Recording /\ [Next]_vars
        => [\A t \in Uuids :
              disk.positions[t] # None /\ disk'.positions[t] = None
                => disk.trades[t] # None]_vars
      BY RowsStay DEF Recording
<1>4. QED
      BY <1>1, <1>2, <1>3, PTL DEF Spec, RemovedIsRecorded


-----------------------------------------------------------------------------
(* Results are booked once *)

\* Between two candles nothing is closed; what the next candle starts with
\* keeps the books.
LEMMA BooksOnClose ==
    ASSUME TypeOK, Books, h.pc \notin Managing, h.pc # "down",
           UNCHANGED <<open, closed, equity, entry>>,
           disk'.positions = disk.positions, disk'.equity = disk.equity,
           \/ h'.pc \in {"poll", "entry", "signal", "entry_alert"}
           \/ \E todo, s, c, u : h' = OnClose(todo, s, c, u)
    PROVE  Books'
<1>1. closed = {}
      BY DEF Books
<1>2. CASE h'.pc \in {"poll", "entry", "signal", "entry_alert"}
      BY <1>1, <1>2 DEF Books, Managing
<1>3. ASSUME NEW todo, NEW s, NEW c, NEW u, h' = OnClose(todo, s, c, u)
      PROVE  Books'
      <2>1. /\ h'.pc \in {"entry", "manage"} /\ h'.left \subseteq open
            /\ h'.trade = None
            BY <1>3 DEF OnClose, At, OfSymbol
      <2>2. QED
            BY <1>1, <2>1 DEF Books, Managing
<1>4. QED
      BY <1>2, <1>3

\* While no statement has failed, every step keeps the books.
LEMMA BooksStep ==
    ASSUME TypeOK, Recording, Books, [Next]_vars, errors = 0, errors' = 0
    PROVE  Books'
<1>0. /\ disk \in Tables /\ equity \in Equity /\ Placed(h)
      /\ open \subseteq Uuids /\ closed \subseteq Uuids
      /\ held \in [Uuids -> Nat]
      BY DEF TypeOK
<1>c. CandleDone => \/ h'.pc \in {"poll", "entry", "signal", "entry_alert"}
                    \/ \E todo, s, c, u : h' = OnClose(todo, s, c, u)
      BY PlacesOf DEF CandleDone
<1>1. CASE Start
      <2>1. /\ h.pc = "down" /\ h'.pc = "poll" /\ open' = Rows(disk)
            /\ closed' = closed /\ equity' = disk.equity /\ disk' = disk
            /\ entry' = entry
            BY <1>1, PlacesOf DEF Start
      <2>2. QED
            BY <1>0, <2>1 DEF Books, Managing, Rows, Tables, Equity
<1>2. ASSUME Forget, disk'.positions = disk.positions,
             \/ disk'.equity = disk.equity
             \/ disk'.equity = equity /\ h.pc = "poll"
      PROVE  Books'
      <2>1. /\ h'.pc = "down" /\ open' = {} /\ closed' = {}
            /\ entry' = entry /\ \A t \in Uuids : equity'.exits[t] = 0
            BY <1>2, PlacesOf DEF Forget, NoEquity
      <2>2. QED
            BY <1>0, <1>2, <2>1 DEF Books, Managing, Equity, Tables
<1>3. CASE Crash
      BY <1>2, <1>3 DEF Crash
<1>4. CASE Shutdown
      <2>1. /\ disk'.positions = disk.positions /\ disk'.equity = equity
            /\ h.pc = "poll"
            BY <1>0, <1>4, PlacesOf DEF Shutdown, Tables
      <2>2. QED
            BY <1>2, <1>4, <2>1 DEF Shutdown
<1>5. CASE CandleCloses
      BY <1>5 DEF CandleCloses, memory, Books
<1>6. ASSUME NEW s \in Symbols, Poll(s) PROVE Books'
      <2>1. /\ h.pc \notin Managing /\ h.pc # "down"
            /\ UNCHANGED <<open, closed, equity, entry, disk>>
            BY <1>6 DEF Poll, memory, Managing
      <2>2. \/ h'.pc = "poll"
            \/ \E todo, r, c, u : h' = OnClose(todo, r, c, u)
            BY <1>6, PlacesOf DEF Poll
      <2>3. QED
            BY <2>1, <2>2, BooksOnClose
<1>7. CASE CycleDone
      <2>1. h.pc = "poll" /\ h'.pc = "poll" /\ disk' = [disk EXCEPT !.last = last]
            BY <1>7, WriteSucceeds, PlacesOf DEF CycleDone
      <2>2. disk'.positions = disk.positions /\ disk'.equity = disk.equity
            BY <1>0, <2>1 DEF Tables
      <2>3. QED
            BY <1>7, <2>1, <2>2, BooksOnClose DEF CycleDone, memory, Managing
<1>8. ASSUME NEW s \in Symbols, NEW active \in BOOLEAN, Liquidations(s, active)
      PROVE  Books'
      BY <1>8 DEF Liquidations, Books
<1>9. ASSUME NEW t \in Uuids, Hold(t) PROVE Books'
      <2> DEFINE row == held[t] + 1
      <2>1. /\ h.pc = "manage" /\ t \in h.left
            /\ UNCHANGED <<open, closed, equity, entry>>
            /\ disk' = [disk EXCEPT !.positions[t] = row]
            /\ h' = [h EXCEPT !.left = @ \ {t}]
            BY <1>9, WriteSucceeds DEF Hold
      <2> HIDE DEF row
      <2>2. /\ h'.pc = "manage" /\ h'.trade = h.trade
            /\ h'.left = h.left \ {t}
            BY <1>0, <2>1 DEF Placed, Locals
      <2>3. /\ \A u \in Uuids : disk'.positions[u] =
                  IF u = t THEN row ELSE disk.positions[u]
            /\ disk'.equity = disk.equity
            BY <1>0, <2>1 DEF Tables
      <2>4. t \in open /\ t \notin closed /\ equity.exits[t] = 0
            BY <2>1, RunnerAssumption DEF Books, Managing
      <2>5. disk.equity.exits[t] = 0 /\ entry[t] # None
            BY <1>0, <2>1, <2>4 DEF Books, Tables, Equity
      <2>6. QED
            BY <2>1, <2>2, <2>3, <2>4, <2>5 DEF Books, Managing
<1>10. ASSUME NEW t \in Uuids, NEW d \in Reasons, Close(t, d) PROVE Books'
      <2> DEFINE trade == [reason |-> d, candle |-> h.candle]
      <2>1. /\ h.pc = "manage" /\ t \in h.left
            /\ UNCHANGED <<open, entry>> /\ closed' = closed \cup {t}
            /\ equity' = [equity EXCEPT !.exits[t] = @ + 1]
            /\ disk' = [disk EXCEPT !.trades[t] = trade]
            /\ h' = [h EXCEPT !.pc = "remove", !.trade = t]
            BY <1>10, WriteSucceeds DEF Close
      <2> HIDE DEF trade
      <2>2. h'.pc = "remove" /\ h'.trade = t /\ h'.left = h.left
            BY <1>0, <2>1 DEF Placed, Locals
      <2>3. disk'.positions = disk.positions /\ disk'.equity = disk.equity
            BY <1>0, <2>1 DEF Tables
      <2>4. t \in open /\ t \notin closed /\ equity.exits[t] = 0
            BY <2>1, RunnerAssumption DEF Books, Managing
      <2>5. disk.equity.exits[t] = 0 /\ entry[t] # None
            BY <1>0, <2>1, <2>4 DEF Books, Tables, Equity
      <2>6. \A u \in Uuids :
               equity'.exits[u] = IF u = t THEN 1 ELSE equity.exits[u]
            BY <1>0, <2>1, <2>4 DEF Equity
      <2>7. h.left \cap closed = {}
            BY <1>0, <2>1, RunnerAssumption DEF Books, Managing, Placed, Locals
      <2>8. QED
            BY <2>1, <2>2, <2>3, <2>4, <2>5, <2>6, <2>7 DEF Books, Managing
<1>11. CASE RemovePosition
      <2>1. /\ h.pc = "remove" /\ UNCHANGED <<open, closed, equity, entry>>
            /\ disk' = [disk EXCEPT !.positions[h.trade] = None]
            /\ h' = [h EXCEPT !.pc = "save_equity"]
            BY <1>11, WriteSucceeds DEF RemovePosition, memory
      <2>2. /\ h'.pc = "save_equity" /\ h'.trade = h.trade
            /\ h'.left = h.left
            BY <1>0, <2>1 DEF Placed, Locals
      <2>3. /\ \A u \in Uuids : disk'.positions[u] =
                  IF u = h.trade THEN None ELSE disk.positions[u]
            /\ disk'.equity = disk.equity
            BY <1>0, <2>1 DEF Tables
      <2>4. QED
            BY <2>1, <2>2, <2>3 DEF Books, Managing
<1>12. CASE SaveEquity
      <2>1. /\ h.pc = "save_equity" /\ UNCHANGED <<open, closed, equity, entry>>
            /\ disk' = [disk EXCEPT !.equity = equity]
            /\ h' = [h EXCEPT !.pc = "exit_alert"]
            BY <1>12, WriteSucceeds DEF SaveEquity, memory
      <2>2. /\ h'.pc = "exit_alert" /\ h'.trade = h.trade
            /\ h'.left = h.left
            BY <1>0, <2>1 DEF Placed, Locals
      <2>3. disk'.positions = disk.positions /\ disk'.equity = equity
            BY <1>0, <2>1 DEF Tables
      <2>4. QED
            BY <1>0, <2>1, <2>2, <2>3 DEF Books, Managing, Equity
<1>13. CASE ExitAlerted
      <2>1. /\ h.pc = "exit_alert"
            /\ UNCHANGED <<open, closed, equity, entry, disk>>
            /\ h' = [h EXCEPT !.pc = "manage", !.left = @ \ {h.trade},
                              !.trade = None]
            BY <1>13 DEF ExitAlerted, memory
      <2>2. /\ h'.pc = "manage" /\ h'.trade = None
            /\ h'.left = h.left \ {h.trade}
            BY <1>0, <2>1 DEF Placed, Locals
      <2>3. QED
            BY <2>1, <2>2 DEF Books, Managing
<1>14. CASE Managed
      <2>1. /\ h.pc = "manage" /\ UNCHANGED <<equity, entry, disk>>
            /\ open' = open \ closed /\ closed' = {}
            /\ h' = [h EXCEPT !.pc = "entry"]
            BY <1>14 DEF Managed, Kept
      <2>2. h'.pc = "entry"
            BY <1>0, <2>1 DEF Placed, Locals
      <2>3. QED
            BY <2>1, <2>2 DEF Books, Managing
<1>15. CASE NoEntry \/ SignalDropped \/ EntryAlerted
      BY <1>c, <1>15, BooksOnClose
      DEF NoEntry, SignalDropped, EntryAlerted, Managing
<1>16. CASE Signal
      <2>1. /\ h.pc = "entry" /\ UNCHANGED <<open, closed, equity, entry>>
            /\ disk' = [disk EXCEPT !.dups = @ \cup {<<h.sym, h.candle>>}]
            /\ h' = [h EXCEPT !.pc = "signal"]
            BY <1>16, WriteSucceeds DEF Signal
      <2>2. /\ disk'.positions = disk.positions /\ disk'.equity = disk.equity
            /\ h'.pc = "signal"
            BY <1>0, <2>1 DEF Tables, Placed, Locals
      <2>3. QED
            BY <2>1, <2>2, BooksOnClose DEF Managing
<1>17. ASSUME NEW t \in Uuids, Enter(t) PROVE Books'
      <2> DEFINE new == [sym |-> h.sym, candle |-> h.candle]
      <2>1. new # None
            BY <1>0, <1>17, RunnerAssumption DEF Enter, Placed, Locals, Candles
      <2>2. /\ h.pc = "signal" /\ entry[t] = None
            /\ entry' = [entry EXCEPT ![t] = new]
            /\ equity' = [equity EXCEPT !.fees = @ \cup {t}]
            /\ open' = open \cup {t} /\ closed' = closed
            /\ disk' = [disk EXCEPT !.positions[t] = 0]
            /\ h' = [h EXCEPT !.pc = "entry_alert", !.trade = t]
            BY <1>17, WriteSucceeds DEF Enter
      <2>3. \A u \in Uuids : entry'[u] = IF u = t THEN new ELSE entry[u]
            BY <2>2 DEF TypeOK
      <2> HIDE DEF new
      <2>4. /\ h'.pc = "entry_alert" /\ equity'.exits = equity.exits
            /\ \A u \in Uuids : disk'.positions[u] =
                  IF u = t THEN 0 ELSE disk.positions[u]
            /\ disk'.equity = disk.equity
            BY <1>0, <2>2 DEF Tables, Equity, Placed, Locals
      <2>5. equity.exits[t] = 0 /\ disk.equity.exits[t] = 0
            BY <2>2 DEF Books
      <2>6. QED
            BY <2>1, <2>2, <2>3, <2>4, <2>5 DEF Books, Managing
<1>18. CASE UNCHANGED vars
      BY <1>18 DEF vars, memory, Books
<1>19. QED
      BY <1>1, <1>3, <1>4, <1>5, <1>6, <1>7, <1>8, <1>9, <1>10, <1>11, <1>12,
         <1>13, <1>14, <1>15, <1>16, <1>17, <1>18, ManageSucceeds
      DEF Next, Loop

\* A failed statement is never forgotten.
LEMMA ErrorsGrow == TypeOK /\ [Next]_vars /\ errors' = 0 => errors = 0
<1> SUFFICES ASSUME TypeOK, [Next]_vars, errors' = 0 PROVE errors = 0
    OBVIOUS
<1>1. errors \in Nat
      BY RunnerAssumption DEF TypeOK
<1>2. ASSUME NEW d, NEW n, Write(d, n) PROVE errors = 0
      BY <1>1, <1>2 DEF Write
<1>3. CASE \/ CycleDone \/ \E t \in Uuids : Hold(t)
           \/ \E t \in Uuids, d \in Reasons : Close(t, d)
           \/ RemovePosition \/ SaveEquity \/ Signal
           \/ \E t \in Uuids : Enter(t)
      BY <1>2, <1>3
      DEF CycleDone, Hold, Close, RemovePosition, SaveEquity, Signal, Enter
<1>4. CASE \/ Start \/ Crash \/ Shutdown \/ CandleCloses
           \/ \E s \in Symbols : Poll(s)
           \/ \E s \in Symbols, active \in BOOLEAN : Liquidations(s, active)
           \/ ExitAlerted \/ Managed \/ NoEntry \/ SignalDropped
           \/ EntryAlerted \/ UNCHANGED vars
      BY <1>4
      DEF Start, Crash, Shutdown, Forget, CandleCloses, Poll, Liquidations,
          ExitAlerted, Managed, NoEntry, SignalDropped, EntryAlerted, vars
<1>5. CASE \E t \in Uuids : ManageFails(t)
      BY <1>1, <1>5 DEF ManageFails
<1>6. QED
      BY <1>3, <1>4, <1>5 DEF Next, Loop

\* Unless a statement or the engine failed, wherever a crash cuts _close_position, the result
\* of a trade enters the equity at most once, in memory and on disk.
THEOREM BookedOnceAlways == Spec => []BookedOnce
<1> DEFINE Inv == TypeOK /\ Recording /\ (errors = 0 => Books)
<1>1. Init => Inv
      <2>1. Init => Recording /\ Books
            BY PlacesOf
            DEF Init, Recording, Books, Managing, NoEquity, EmptyTables
      <2>2. QED
            BY <2>1, TypeInit
<1>2. Inv /\ [Next]_vars => Inv'
      BY TypeStep, RecordingStep, BooksStep, ErrorsGrow
<1>3. Inv => BookedOnce
      BY DEF Books, BookedOnce
<1>4. QED
      BY <1>1, <1>2, <1>3, PTL DEF Spec

-----------------------------------------------------------------------------
(* The limits hold *)

\* Positions that are within the limits.
Fits(S, e) ==
    /\ Cardinality(S) <= MaxPositions
    /\ \A s \in Symbols : Cardinality({t \in S : e[t].sym = s}) <= MaxPerSymbol

\* While no statement has failed: a row belongs to a position in memory, what
\* is closed is booked, and a signal was checked against what is still open.
Sized ==
    /\ h.pc # "down" => Rows(disk) \subseteq open
    /\ \A t \in closed : equity.exits[t] > 0
    /\ Fits(open, entry)
    /\ Fits(Rows(disk), entry)
    /\ h.pc = "signal" =>
         /\ Cardinality(open) < MaxPositions
         /\ Cardinality(OfSymbol(h.sym)) < MaxPerSymbol

LEMMA FitsShrinks ==
    ASSUME NEW S \in SUBSET Uuids, NEW T \in SUBSET S, NEW e, Fits(S, e)
    PROVE  Fits(T, e)
<1>1. IsFiniteSet(S)
      BY RunnerAssumption, FS_Subset
<1>2. Cardinality(T) <= MaxPositions
      <2>1. /\ Cardinality(T) <= Cardinality(S)
            /\ IsFiniteSet(T)
            BY <1>1, FS_Subset
      <2>2. Cardinality(T) \in Nat /\ Cardinality(S) \in Nat
            BY <1>1, <2>1, FS_CardinalityType
      <2>3. QED
            BY <2>1, <2>2, RunnerAssumption DEF Fits
<1>3. ASSUME NEW s \in Symbols
      PROVE  Cardinality({t \in T : e[t].sym = s}) <= MaxPerSymbol
      <2> DEFINE A == {t \in S : e[t].sym = s}
                 B == {t \in T : e[t].sym = s}
      <2>1. IsFiniteSet(A) /\ B \in SUBSET A
            BY <1>1, FS_Subset
      <2>2. Cardinality(A) <= MaxPerSymbol
            BY DEF Fits
      <2> HIDE DEF A, B
      <2>3. Cardinality(B) <= Cardinality(A) /\ IsFiniteSet(B)
            BY <2>1, FS_Subset
      <2>4. Cardinality(B) \in Nat /\ Cardinality(A) \in Nat
            BY <2>1, <2>3, FS_CardinalityType
      <2>5. Cardinality(B) <= MaxPerSymbol
            BY <2>2, <2>3, <2>4, RunnerAssumption
      <2>6. QED
            BY <2>5 DEF B
<1>4. QED
      BY <1>2, <1>3 DEF Fits

\* A step that opens nothing, while the process stays up.
LEMMA SizedShrinks ==
    ASSUME TypeOK, TypeOK', Sized, entry' = entry, open' \subseteq open,
           Rows(disk') \subseteq open',
           \A t \in closed' : equity'.exits[t] > 0,
           h'.pc # "signal" \/ (h' = h /\ open' = open)
    PROVE  Sized'
<1>1. open \in SUBSET Uuids /\ open' \in SUBSET open
      BY DEF TypeOK
<1>2. Fits(open', entry')
      BY <1>1, FitsShrinks DEF Sized
<1>3. Fits(Rows(disk'), entry')
      BY <1>1, <1>2, FitsShrinks DEF TypeOK
<1>4. h'.pc = "signal" => OfSymbol(h.sym)' = OfSymbol(h.sym)
      BY DEF OfSymbol
<1>5. QED
      BY <1>2, <1>3, <1>4 DEF Sized

\* While no statement has failed, every step keeps the limits.
LEMMA SizedStep ==
    ASSUME TypeOK, TypeOK', Books, Books', Sized, [Next]_vars,
           errors = 0, errors' = 0
    PROVE  Sized'
<1>0. /\ disk \in Tables /\ equity \in Equity /\ Placed(h)
      /\ open \in SUBSET Uuids /\ closed \in SUBSET Uuids
      /\ held \in [Uuids -> Nat]
      BY DEF TypeOK
<1>1. ASSUME UNCHANGED <<open, closed, equity, entry>>, disk'.positions = disk.positions,
             h.pc # "down", h'.pc # "signal" \/ h' = h
      PROVE  Sized'
      <2>1. Rows(disk') = Rows(disk)
            BY <1>1 DEF Rows
      <2>2. QED
            BY <1>1, <2>1, SizedShrinks DEF Sized
<1>2. CASE Start
      <2>1. /\ open' = Rows(disk) /\ h'.pc = "poll" /\ h.pc = "down"
            /\ UNCHANGED <<closed, entry, disk>>
            BY <1>2, PlacesOf DEF Start
      <2>2. closed' = {}
            BY <2>1 DEF Books, Managing
      <2>3. QED
            BY <2>1, <2>2 DEF Sized
<1>3. ASSUME Forget, disk'.positions = disk.positions PROVE Sized'
      <2>1. h'.pc = "down" /\ open' = {} /\ closed' = {} /\ entry' = entry
            BY <1>3, PlacesOf DEF Forget
      <2>2. Rows(disk') = Rows(disk)
            BY <1>3 DEF Rows
      <2>3. Fits({}, entry)
            BY <1>0, FitsShrinks DEF Sized
      <2>4. QED
            BY <2>1, <2>2, <2>3 DEF Sized
<1>4. CASE Crash
      BY <1>3, <1>4 DEF Crash
<1>5. CASE Shutdown
      <2>1. disk'.positions = disk.positions
            BY <1>0, <1>5 DEF Shutdown, Tables
      <2>2. QED
            BY <1>3, <1>5, <2>1 DEF Shutdown
<1>6. CASE CandleCloses
      <2>1. UNCHANGED <<open, closed, equity, entry, disk, h>>
            BY <1>6 DEF CandleCloses, memory
      <2>2. QED
            BY <2>1 DEF Sized, OfSymbol
<1>7. ASSUME NEW s \in Symbols, Poll(s) PROVE Sized'
      <2>1. UNCHANGED <<open, closed, equity, entry, disk>> /\ h.pc # "down"
            /\ h'.pc # "signal"
            BY <1>7, PlacesOf DEF Poll, memory
      <2>2. QED
            BY <1>1, <2>1
<1>8. CASE CycleDone
      <2>1. h.pc = "poll" /\ h'.pc = "poll" /\ disk' = [disk EXCEPT !.last = last]
            BY <1>8, WriteSucceeds, PlacesOf DEF CycleDone
      <2>2. disk'.positions = disk.positions
            BY <1>0, <2>1 DEF Tables
      <2>3. QED
            BY <1>1, <1>8, <2>1, <2>2 DEF CycleDone, memory
<1>9. ASSUME NEW s \in Symbols, NEW active \in BOOLEAN, Liquidations(s, active)
      PROVE  Sized'
      BY <1>1, <1>9 DEF Liquidations
<1>10. ASSUME NEW t \in Uuids, Hold(t) PROVE Sized'
      <2> DEFINE row == held[t] + 1
      <2>1. /\ h.pc = "manage" /\ t \in h.left
            /\ UNCHANGED <<open, closed, equity, entry>>
            /\ disk' = [disk EXCEPT !.positions[t] = row]
            /\ h' = [h EXCEPT !.left = @ \ {t}]
            BY <1>10, WriteSucceeds DEF Hold
      <2> HIDE DEF row
      <2>2. h'.pc = "manage"
            BY <1>0, <2>1 DEF Placed, Locals
      <2>3. t \in open
            BY <2>1 DEF Books, Managing
      <2>4. Rows(disk') \subseteq Rows(disk) \cup {t}
            BY <1>0, <2>1 DEF Rows, Tables
      <2>5. QED
            BY <2>1, <2>2, <2>3, <2>4, SizedShrinks DEF Sized
<1>11. ASSUME NEW t \in Uuids, NEW d \in Reasons, Close(t, d) PROVE Sized'
      <2> DEFINE trade == [reason |-> d, candle |-> h.candle]
      <2>1. /\ h.pc = "manage" /\ t \in h.left
            /\ UNCHANGED <<open, entry>> /\ closed' = closed \cup {t}
            /\ equity' = [equity EXCEPT !.exits[t] = @ + 1]
            /\ disk' = [disk EXCEPT !.trades[t] = trade]
            /\ h' = [h EXCEPT !.pc = "remove", !.trade = t]
            BY <1>11, WriteSucceeds DEF Close
      <2> HIDE DEF trade
      <2>2. h'.pc = "remove"
            BY <1>0, <2>1 DEF Placed, Locals
      <2>3. Rows(disk') = Rows(disk)
            BY <1>0, <2>1 DEF Rows, Tables
      <2>4. \A u \in Uuids : equity'.exits[u] =
               IF u = t THEN equity.exits[t] + 1 ELSE equity.exits[u]
            BY <1>0, <2>1 DEF Equity
      <2>5. \A u \in closed' : equity'.exits[u] > 0
            BY <1>0, <2>1, <2>4 DEF Sized, Equity
      <2>6. QED
            BY <2>1, <2>2, <2>3, <2>5, SizedShrinks DEF Sized
<1>12. CASE RemovePosition
      <2>1. /\ h.pc = "remove" /\ UNCHANGED <<open, closed, equity, entry>>
            /\ disk' = [disk EXCEPT !.positions[h.trade] = None]
            /\ h' = [h EXCEPT !.pc = "save_equity"]
            BY <1>12, WriteSucceeds DEF RemovePosition, memory
      <2>2. h'.pc = "save_equity"
            BY <1>0, <2>1 DEF Placed, Locals
      <2>3. Rows(disk') \subseteq Rows(disk)
            BY <1>0, <2>1 DEF Rows, Tables
      <2>4. QED
            BY <2>1, <2>2, <2>3, SizedShrinks DEF Sized
<1>13. CASE SaveEquity
      <2>1. /\ h.pc = "save_equity" /\ UNCHANGED <<open, closed, equity, entry>>
            /\ disk' = [disk EXCEPT !.equity = equity]
            /\ h' = [h EXCEPT !.pc = "exit_alert"]
            BY <1>13, WriteSucceeds DEF SaveEquity, memory
      <2>2. h'.pc = "exit_alert" /\ disk'.positions = disk.positions
            BY <1>0, <2>1 DEF Placed, Locals, Tables
      <2>3. QED
            BY <1>1, <2>1, <2>2
<1>14. CASE ExitAlerted
      <2>1. h.pc = "exit_alert" /\ UNCHANGED <<open, closed, equity, entry, disk>>
            BY <1>14 DEF ExitAlerted, memory
      <2>2. h'.pc = "manage"
            BY <1>0, <1>14 DEF ExitAlerted, Placed, Locals
      <2>3. QED
            BY <1>1, <2>1, <2>2
<1>15. CASE Managed
      <2>1. /\ h.pc = "manage" /\ UNCHANGED <<equity, entry, disk>>
            /\ open' = open \ closed /\ closed' = {}
            /\ h' = [h EXCEPT !.pc = "entry"]
            BY <1>15 DEF Managed, Kept
      <2>2. h'.pc = "entry"
            BY <1>0, <2>1 DEF Placed, Locals
      <2>3. Rows(disk) \cap closed = {}
            BY <1>0, <2>1 DEF Books, Sized, Rows
      <2>4. QED
            BY <2>1, <2>2, <2>3, SizedShrinks DEF Sized
<1>16. CASE NoEntry \/ SignalDropped \/ EntryAlerted
      <2>1. UNCHANGED <<open, closed, equity, entry, disk>> /\ h.pc # "down"
            BY <1>16 DEF NoEntry, SignalDropped, EntryAlerted
      <2>2. h'.pc # "signal"
            BY <1>16, PlacesOf DEF NoEntry, SignalDropped, EntryAlerted
      <2>3. QED
            BY <1>1, <2>1, <2>2
<1>17. CASE Signal
      <2>1. /\ h.pc = "entry" /\ UNCHANGED <<open, closed, equity, entry>>
            /\ disk' = [disk EXCEPT !.dups = @ \cup {<<h.sym, h.candle>>}]
            /\ h' = [h EXCEPT !.pc = "signal"]
            BY <1>17, WriteSucceeds DEF Signal
      <2>2. /\ disk'.positions = disk.positions
            /\ h'.pc = "signal" /\ h'.sym = h.sym
            BY <1>0, <2>1 DEF Tables, Placed, Locals
      <2>3. closed = {}
            BY <2>1 DEF Books, Managing
      <2>4. Rows(disk') = Rows(disk) /\ OfSymbol(h.sym)' = OfSymbol(h.sym)
            BY <2>1, <2>2 DEF Rows, OfSymbol
      <2>5. /\ Cardinality(open) < MaxPositions
            /\ Cardinality(OfSymbol(h.sym)) < MaxPerSymbol
            BY <1>17, <2>3 DEF Signal, MayEvaluate, Active
      <2>6. QED
            BY <2>1, <2>2, <2>3, <2>4, <2>5 DEF Sized
<1>18. ASSUME NEW t \in Uuids, Enter(t) PROVE Sized'
      <2> DEFINE new == [sym |-> h.sym, candle |-> h.candle]
      <2>1. /\ h.pc = "signal" /\ entry[t] = None
            /\ entry' = [entry EXCEPT ![t] = new]
            /\ equity' = [equity EXCEPT !.fees = @ \cup {t}]
            /\ open' = open \cup {t} /\ closed' = closed
            /\ disk' = [disk EXCEPT !.positions[t] = 0]
            /\ h' = [h EXCEPT !.pc = "entry_alert", !.trade = t]
            BY <1>18, WriteSucceeds DEF Enter
      <2>2. t \notin open /\ closed = {} /\ h'.pc = "entry_alert"
            BY <1>0, <2>1 DEF Books, Managing, Placed, Locals
      <2>3. \A u \in open : entry'[u] = entry[u]
            BY <1>0, <2>1, <2>2 DEF TypeOK
      <2>4. entry'[t].sym = h.sym
            BY <2>1 DEF TypeOK
      <2>5. Cardinality(open') <= MaxPositions
            <3>1. IsFiniteSet(open) /\ Cardinality(open) \in Nat
                  BY <1>0, RunnerAssumption, FS_Subset, FS_CardinalityType
            <3>2. Cardinality(open') = Cardinality(open) + 1
                  BY <2>1, <2>2, <3>1, FS_AddElement
            <3>3. QED
                  BY <2>1, <3>1, <3>2, RunnerAssumption DEF Sized
      <2>6. ASSUME NEW s \in Symbols
            PROVE  Cardinality({u \in open' : entry'[u].sym = s}) <= MaxPerSymbol
            <3> DEFINE A == {u \in open : entry[u].sym = s}
                       B == {u \in open' : entry'[u].sym = s}
            <3>1. IsFiniteSet(A) /\ Cardinality(A) \in Nat
                  BY <1>0, RunnerAssumption, FS_Subset, FS_CardinalityType
            <3>2. CASE s = h.sym
                  <4>1. B = A \cup {t} /\ t \notin A
                        BY <2>1, <2>2, <2>3, <2>4, <3>2
                  <4>2. Cardinality(A) < MaxPerSymbol
                        BY <2>1, <3>2 DEF Sized, OfSymbol
                  <4> HIDE DEF A, B
                  <4>3. Cardinality(B) = Cardinality(A) + 1
                        BY <3>1, <4>1, FS_AddElement
                  <4>4. Cardinality(B) <= MaxPerSymbol
                        BY <3>1, <4>2, <4>3, RunnerAssumption
                  <4>5. QED
                        BY <4>4 DEF B
            <3>3. CASE s # h.sym
                  <4>1. B = A
                        BY <2>1, <2>2, <2>3, <2>4, <3>3
                  <4>2. QED
                        BY <4>1 DEF Sized, Fits
            <3>4. QED
                  BY <3>2, <3>3
      <2>7. Fits(open', entry')
            BY <2>5, <2>6 DEF Fits
      <2>8. Rows(disk') \subseteq open'
            <3>1. Rows(disk') \subseteq Rows(disk) \cup {t}
                  BY <1>0, <2>1 DEF Rows, Tables
            <3>2. QED
                  BY <2>1, <3>1 DEF Sized
      <2>9. Fits(Rows(disk'), entry')
            BY <2>7, <2>8, FitsShrinks DEF TypeOK
      <2>10. QED
            BY <2>1, <2>2, <2>7, <2>8, <2>9 DEF Sized
<1>19. CASE UNCHANGED vars
      BY <1>19 DEF vars, memory, Sized, OfSymbol
<1>20. QED
      BY <1>2, <1>4, <1>5, <1>6, <1>7, <1>8, <1>9, <1>10, <1>11, <1>12, <1>13,
         <1>14, <1>15, <1>16, <1>17, <1>18, <1>19, ManageSucceeds
      DEF Next, Loop

\* Unless a statement or the engine failed, neither the open positions nor the rows a
\* recovery would read exceed max_positions or max_per_symbol
\* (v5_forward_test.py:1113-1118).
THEOREM WithinLimitsAlways == Spec => []WithinLimits
<1> DEFINE Inv == TypeOK /\ Recording /\ (errors = 0 => Books /\ Sized)
<1>1. Init => Inv
      <2> SUFFICES ASSUME Init PROVE Inv
          OBVIOUS
      <2>1. Recording /\ Books
            BY PlacesOf
            DEF Init, Recording, Books, Managing, NoEquity, EmptyTables
      <2>2. Rows(disk) = {} /\ open = {} /\ closed = {} /\ h.pc = "down"
            BY PlacesOf DEF Init, Rows, EmptyTables
      <2>3. Fits({}, entry)
            BY FS_EmptySet, RunnerAssumption DEF Fits
      <2>4. Sized
            BY <2>2, <2>3 DEF Sized
      <2>5. QED
            BY <2>1, <2>4, TypeInit
<1>2. Inv /\ [Next]_vars => Inv'
      <2> SUFFICES ASSUME Inv, [Next]_vars PROVE Inv'
          OBVIOUS
      <2>1. TypeOK' /\ Recording'
            BY TypeStep, RecordingStep
      <2>2. ASSUME errors' = 0 PROVE Books' /\ Sized'
            <3>1. errors = 0
                  BY <2>2, ErrorsGrow
            <3>2. Books'
                  BY <2>2, <3>1, BooksStep
            <3>3. QED
                  BY <2>1, <2>2, <3>1, <3>2, SizedStep
      <2>3. QED
            BY <2>1, <2>2
<1>3. Inv => WithinLimits
      <2> SUFFICES ASSUME Inv, errors = 0
                   PROVE  /\ Cardinality(Active) <= MaxPositions
                          /\ Cardinality(Rows(disk)) <= MaxPositions
                          /\ \A s \in Symbols :
                               /\ Cardinality(OfSymbol(s) \ closed) <= MaxPerSymbol
                               /\ Cardinality({t \in Rows(disk) : entry[t].sym = s})
                                    <= MaxPerSymbol
          BY DEF WithinLimits
      <2>1. open \in SUBSET Uuids /\ Active \in SUBSET open
            BY DEF TypeOK, Active
      <2>2. Fits(Active, entry) /\ Fits(Rows(disk), entry)
            BY <2>1, FitsShrinks DEF Sized
      <2>3. \A s \in Symbols : OfSymbol(s) \ closed = {t \in Active : entry[t].sym = s}
            BY DEF OfSymbol, Active
      <2>4. QED
            BY <2>2, <2>3 DEF Fits
<1>4. QED
      BY <1>1, <1>2, <1>3, PTL DEF Spec

-----------------------------------------------------------------------------
(* The engine manages what is open *)

\* While no statement has failed: what is still to be managed at a candle is
\* of its symbol, and the engine is in a trade for every position that is
\* open and for the one that a signal is about to open.
Owned ==
    /\ h.pc \in Managing => \A t \in h.left : t \in open /\ entry[t].sym = h.sym
    /\ h.pc = "signal" => st[h.sym].in_trade
    /\ \A t \in Active : st[entry[t].sym].in_trade

\* Only a decision to close ends the engine's trade.
LEMMA TradeStays ==
    ASSUME NEW s \in SymbolState
    PROVE  /\ \A active \in BOOLEAN : UpdateDailyLiq(s, active).in_trade = s.in_trade
           /\ \A e \in Quiet(s) : e.in_trade = s.in_trade
           /\ Signalled(s).in_trade
           /\ \A e \in Decided(s, "hold") : e.in_trade = s.in_trade
<1>1. \A active \in BOOLEAN : UpdateDailyLiq(s, active).in_trade = s.in_trade
      BY DEF UpdateDailyLiq, SymbolState
<1>2. \A e \in Quiet(s) : e.in_trade = s.in_trade
      BY DEF Quiet, SymbolState
<1>3. Signalled(s).in_trade
      BY DEF Signalled, SymbolState
<1>4. \A e \in Decided(s, "hold") : e.in_trade = s.in_trade
      BY DEF Decided, SymbolState
<1>5. QED
      BY <1>1, <1>2, <1>3, <1>4

\* The symbol of an open position is one of Symbols.
LEMMA OpenHasSymbol ==
    ASSUME TypeOK, Books, NEW t \in open
    PROVE  entry[t].sym \in Symbols
<1>1. t \in Uuids /\ entry[t] # None
      BY DEF Books, TypeOK
<1>2. QED
      BY <1>1 DEF TypeOK

\* What a candle leaves to be managed is open and of its symbol.
LEMMA LeftOf ==
    \A todo, s, c, u :
       /\ OnClose(todo, s, c, u).sym = s
       /\ \A t \in OnClose(todo, s, c, u).left : t \in open /\ entry[t].sym = s
<1>1. \A todo, s, c, u : /\ OnClose(todo, s, c, u).sym = s
                        /\ OnClose(todo, s, c, u).left = OfSymbol(s)
      BY DEF OnClose, At
<1>2. \A s : \A t \in OfSymbol(s) : t \in open /\ entry[t].sym = s
      BY DEF OfSymbol
<1>3. QED
      BY <1>1, <1>2

\* A step that opens nothing and ends no trade.
LEMMA OwnedStays ==
    ASSUME TypeOK, Books, Owned, entry' = entry, Active' \subseteq Active,
           \A s \in Symbols : st[s].in_trade => st'[s].in_trade,
           h'.pc \in Managing =>
              \A t \in h'.left : t \in open' /\ entry[t].sym = h'.sym,
           h'.pc # "signal" \/ st'[h'.sym].in_trade
    PROVE  Owned'
<1>1. ASSUME NEW t \in Active' PROVE st'[entry[t].sym].in_trade
      <2>1. t \in open /\ st[entry[t].sym].in_trade
            BY <1>1 DEF Owned, Active
      <2>2. QED
            BY <2>1, OpenHasSymbol
<1>2. QED
      BY <1>1 DEF Owned

\* With one position per symbol and while no statement has failed, every step
\* keeps the engine and the positions together.
LEMMA OwnedStep ==
    ASSUME MaxPerSymbol <= 1,
           TypeOK, Recording, Books, Sized, Owned, [Next]_vars,
           errors = 0, errors' = 0
    PROVE  Owned'
<1>0. /\ disk \in Tables /\ equity \in Equity /\ Placed(h)
      /\ open \in SUBSET Uuids /\ closed \in SUBSET Uuids
      /\ held \in [Uuids -> Nat] /\ st \in [Symbols -> SymbolState]
      /\ \A s \in Symbols : st[s] \in SymbolState
      BY DEF TypeOK
<1>1. ASSUME UNCHANGED <<open, closed, entry>>,
             \A s \in Symbols : st[s].in_trade => st'[s].in_trade,
             h'.pc \notin Managing \/ h' = h,
             h'.pc # "signal" \/ st'[h'.sym].in_trade
      PROVE  Owned'
      <2>1. Active' = Active
            BY <1>1 DEF Active
      <2>2. QED
            BY <1>1, <2>1, OwnedStays DEF Owned
<1>2. CASE Start
      <2>1. PICK active \in [Symbols -> BOOLEAN] : st' = Recovered(active)
            BY <1>2 DEF Start
      <2>2. /\ open' = Rows(disk) /\ h'.pc = "poll" /\ entry' = entry
            BY <1>2, PlacesOf DEF Start
      <2>3. ASSUME NEW t \in open' PROVE st'[entry'[t].sym].in_trade
            <3>1. t \in Uuids /\ entry[t] # None
                  BY <2>2 DEF Books, Rows
            <3>2. entry[t].sym \in Symbols
                  BY <3>1 DEF TypeOK
            <3>3. UpdateDailyLiq(FreshSymbol, active[entry[t].sym]) \in SymbolState
                  <4>1. FreshSymbol \in SymbolState
                        BY DEF FreshSymbol, SymbolState
                  <4>2. active[entry[t].sym] \in BOOLEAN
                        BY <3>2
                  <4>3. QED
                        BY <4>1, <4>2, EngineTypes
            <3>4. QED
                  BY <2>1, <2>2, <3>2, <3>3 DEF Recovered, SymbolState
      <2>4. QED
            BY <2>2, <2>3 DEF Owned, Active, Managing
<1>3. CASE Crash \/ Shutdown
      <2>1. h'.pc = "down" /\ open' = {}
            BY <1>3, PlacesOf DEF Crash, Shutdown, Forget
      <2>2. QED
            BY <2>1 DEF Owned, Active, Managing
<1>4. CASE CandleCloses
      BY <1>1, <1>4 DEF CandleCloses, memory, Owned
<1>5. ASSUME NEW s \in Symbols, Poll(s) PROVE Owned'
      <2>1. UNCHANGED <<open, closed, entry, st>>
            BY <1>5 DEF Poll, memory
      <2>2. \/ h'.pc = "poll"
            \/ h' = OnClose(h.todo, s, NextCandle(s), now)
            BY <1>5, PlacesOf DEF Poll
      <2>3. h'.pc # "signal"
            BY <2>2, PlacesOf
      <2>4. h'.pc \in Managing =>
               \A t \in h'.left : t \in open /\ entry[t].sym = h'.sym
            BY <2>2, LeftOf, PlacesOf DEF Managing
      <2>5. Active' = Active
            BY <2>1 DEF Active
      <2>6. QED
            BY <2>1, <2>3, <2>4, <2>5, OwnedStays
<1>6. CASE CycleDone
      <2>1. h'.pc = "poll"
            BY <1>6, WriteSucceeds, PlacesOf DEF CycleDone
      <2>2. QED
            BY <1>1, <1>6, <2>1 DEF CycleDone, memory, Managing
<1>7. ASSUME NEW s \in Symbols, NEW active \in BOOLEAN, Liquidations(s, active)
      PROVE  Owned'
      <2>1. \A r \in Symbols : st'[r].in_trade = st[r].in_trade
            BY <1>0, <1>7, TradeStays DEF Liquidations
      <2>2. UNCHANGED <<open, closed, entry, h>> /\ h.pc # "signal"
            BY <1>7 DEF Liquidations
      <2>3. QED
            BY <1>1, <2>1, <2>2
<1>8. ASSUME NEW t \in Uuids, Hold(t) PROVE Owned'
      <2>1. /\ h.pc = "manage" /\ UNCHANGED <<open, closed, entry>>
            /\ h' = [h EXCEPT !.left = @ \ {t}]
            BY <1>8, WriteSucceeds DEF Hold
      <2>2. h'.pc = "manage" /\ h'.left \subseteq h.left /\ h'.sym = h.sym
            BY <1>0, <2>1 DEF Placed, Locals
      <2>3. \A s \in Symbols : st'[s].in_trade = st[s].in_trade
            <3>1. h.sym \in Symbols
                  BY <1>0, <2>1 DEF Placed
            <3>2. st' = st \/ \E e \in Decided(st[h.sym], "hold") :
                                 st' = [st EXCEPT ![h.sym] = e]
                  BY <1>8 DEF Hold
            <3>3. QED
                  BY <1>0, <3>1, <3>2, TradeStays
      <2>4. Active' = Active
            BY <2>1 DEF Active
      <2>5. QED
            BY <2>1, <2>2, <2>3, <2>4, OwnedStays DEF Owned, Managing
<1>9. ASSUME NEW t \in Uuids, NEW d \in Reasons, Close(t, d) PROVE Owned'
      <2>1. /\ h.pc = "manage" /\ t \in h.left
            /\ UNCHANGED <<open, entry>> /\ closed' = closed \cup {t}
            /\ h' = [h EXCEPT !.pc = "remove", !.trade = t]
            BY <1>9, WriteSucceeds DEF Close
      <2>2. h'.pc = "remove" /\ h'.left = h.left /\ h'.sym = h.sym
            BY <1>0, <2>1 DEF Placed, Locals
      <2>3. h.sym \in Symbols /\ t \in OfSymbol(h.sym)
            BY <1>0, <2>1 DEF Placed, Owned, Managing, OfSymbol
      <2>4. \A s \in Symbols \ {h.sym} : st'[s] = st[s]
            BY <1>0, <1>9 DEF Close
      <2>5. ASSUME NEW u \in Active' PROVE st'[entry'[u].sym].in_trade
            <3>1. u \in Active /\ u # t /\ u \in open
                  BY <2>1, <2>5 DEF Active
            <3>2. entry[u].sym \in Symbols
                  BY <3>1, OpenHasSymbol
            <3>3. entry[u].sym # h.sym
                  <4> SUFFICES ASSUME u \in OfSymbol(h.sym) PROVE FALSE
                      BY <3>1 DEF OfSymbol
                  <4>1. IsFiniteSet(OfSymbol(h.sym))
                        BY <1>0, RunnerAssumption, FS_Subset DEF OfSymbol
                  <4>2. {t, u} \in SUBSET OfSymbol(h.sym)
                        BY <2>3
                  <4>3. Cardinality({t, u}) = 2
                        <5>1. {t, u} = {t} \cup {u} /\ u \notin {t}
                              BY <3>1
                        <5>2. IsFiniteSet({t}) /\ Cardinality({t}) = 1
                              BY FS_Singleton
                        <5>3. Cardinality({t} \cup {u}) = Cardinality({t}) + 1
                              BY <5>1, <5>2, FS_AddElement
                        <5>4. QED
                              BY <5>1, <5>2, <5>3
                  <4>4. /\ Cardinality({t, u}) <= Cardinality(OfSymbol(h.sym))
                        /\ Cardinality(OfSymbol(h.sym)) \in Nat
                        BY <4>1, <4>2, FS_Subset, FS_CardinalityType
                  <4>5. Cardinality(OfSymbol(h.sym)) <= MaxPerSymbol
                        BY <2>3 DEF Sized, Fits, OfSymbol
                  <4>6. QED
                        BY <4>3, <4>4, <4>5, RunnerAssumption
            <3>4. QED
                  BY <2>1, <2>4, <3>1, <3>2, <3>3 DEF Owned
      <2>6. QED
            BY <2>1, <2>2, <2>5 DEF Owned, Managing
<1>10. CASE RemovePosition \/ SaveEquity
      <2>1. /\ h.pc \in Managing /\ UNCHANGED <<open, closed, entry, st>>
            /\ h' \in {[h EXCEPT !.pc = "save_equity"], [h EXCEPT !.pc = "exit_alert"]}
            BY <1>10, WriteSucceeds DEF RemovePosition, SaveEquity, memory, Managing
      <2>2. h'.pc # "signal" /\ h'.left = h.left /\ h'.sym = h.sym
            BY <1>0, <2>1 DEF Placed, Locals
      <2>3. Active' = Active
            BY <2>1 DEF Active
      <2>4. QED
            BY <2>1, <2>2, <2>3, OwnedStays DEF Owned
<1>11. CASE ExitAlerted
      <2>1. /\ h.pc = "exit_alert" /\ UNCHANGED <<open, closed, entry, st>>
            /\ h' = [h EXCEPT !.pc = "manage", !.left = @ \ {h.trade}, !.trade = None]
            BY <1>11 DEF ExitAlerted, memory
      <2>2. h'.pc = "manage" /\ h'.left \subseteq h.left /\ h'.sym = h.sym
            BY <1>0, <2>1 DEF Placed, Locals
      <2>3. Active' = Active
            BY <2>1 DEF Active
      <2>4. QED
            BY <2>1, <2>2, <2>3, OwnedStays DEF Owned, Managing
<1>12. CASE Managed
      <2>1. /\ open' = open \ closed /\ closed' = {} /\ UNCHANGED <<entry, st>>
            /\ h' = [h EXCEPT !.pc = "entry"]
            BY <1>12 DEF Managed, Kept
      <2>2. h'.pc = "entry"
            BY <1>0, <2>1 DEF Placed, Locals
      <2>3. Active' \subseteq Active
            BY <2>1 DEF Active
      <2>4. QED
            BY <2>1, <2>2, <2>3, OwnedStays DEF Managing
<1>13. ASSUME CandleDone, UNCHANGED <<open, closed, entry>>,
              \A s \in Symbols : st'[s].in_trade = st[s].in_trade
       PROVE  Owned'
      <2>1. \/ h'.pc = "poll"
            \/ h' = OnClose(h.todo, h.sym, h.candle + 1, h.upto)
            BY <1>13, PlacesOf DEF CandleDone
      <2>2. h'.pc # "signal"
            BY <2>1, PlacesOf
      <2>3. h'.pc \in Managing =>
               \A t \in h'.left : t \in open /\ entry[t].sym = h'.sym
            BY <2>1, LeftOf, PlacesOf DEF Managing
      <2>4. Active' = Active
            BY <1>13 DEF Active
      <2>5. QED
            BY <1>13, <2>2, <2>3, <2>4, OwnedStays
<1>14. CASE NoEntry
      <2>1. h.sym \in Symbols
            BY <1>0, <1>14 DEF NoEntry, Placed
      <2>2. st' = st \/ \E e \in Quiet(st[h.sym]) : st' = [st EXCEPT ![h.sym] = e]
            BY <1>14 DEF NoEntry
      <2>3. \A s \in Symbols : st'[s].in_trade = st[s].in_trade
            BY <1>0, <2>1, <2>2, TradeStays
      <2>4. QED
            BY <1>13, <1>14, <2>3 DEF NoEntry
<1>15. CASE SignalDropped \/ EntryAlerted
      BY <1>13, <1>15 DEF SignalDropped, EntryAlerted
<1>16. CASE Signal
      <2>1. /\ h.pc = "entry" /\ UNCHANGED <<open, closed, entry>>
            /\ st' = [st EXCEPT ![h.sym] = Signalled(@)]
            /\ h' = [h EXCEPT !.pc = "signal"]
            BY <1>16, WriteSucceeds DEF Signal
      <2>2. h'.pc = "signal" /\ h'.sym = h.sym /\ h.sym \in Symbols
            BY <1>0, <2>1 DEF Placed, Locals
      <2>3. st'[h.sym].in_trade
            BY <1>0, <2>1, <2>2, TradeStays
      <2>4. \A s \in Symbols : st[s].in_trade => st'[s].in_trade
            BY <1>0, <2>1, <2>3
      <2>5. QED
            BY <1>1, <2>1, <2>2, <2>3, <2>4 DEF Managing
<1>17. ASSUME NEW t \in Uuids, Enter(t) PROVE Owned'
      <2>1. /\ h.pc = "signal" /\ UNCHANGED <<st, closed>> /\ open' = open \cup {t}
            /\ entry' = [entry EXCEPT ![t] = [sym |-> h.sym, candle |-> h.candle]]
            /\ h' = [h EXCEPT !.pc = "entry_alert", !.trade = t]
            BY <1>17, WriteSucceeds DEF Enter
      <2>2. h'.pc = "entry_alert"
            BY <1>0, <2>1 DEF Placed, Locals
      <2>3. /\ entry'[t].sym = h.sym
            /\ \A u \in Uuids \ {t} : entry'[u] = entry[u]
            BY <2>1 DEF TypeOK
      <2>4. ASSUME NEW u \in Active' PROVE st'[entry'[u].sym].in_trade
            <3>1. CASE u = t
                  BY <2>1, <2>3, <3>1 DEF Owned
            <3>2. CASE u # t
                  BY <1>0, <2>1, <2>3, <2>4, <3>2 DEF Owned, Active
            <3>3. QED
                  BY <3>1, <3>2
      <2>5. QED
            BY <2>2, <2>4 DEF Owned, Managing
<1>18. CASE UNCHANGED vars
      BY <1>18 DEF vars, memory, Owned, Active
<1>19. QED
      BY <1>2, <1>3, <1>4, <1>5, <1>6, <1>7, <1>8, <1>9, <1>10, <1>11, <1>12,
         <1>14, <1>15, <1>16, <1>17, <1>18, ManageSucceeds
      DEF Next, Loop

\* With max_per_symbol 1, as both configurations set it, and unless a statement
\* failed, no open position is out of the engine's sight.  (With more, the exit
\* of one position clears the in_trade that its siblings are managed under.)
THEOREM OpenIsManagedAlways ==
    ASSUME MaxPerSymbol <= 1
    PROVE  Spec => []OpenIsManaged
<1> DEFINE Inv == TypeOK /\ Recording /\ (errors = 0 => Books /\ Sized /\ Owned)
<1>1. Init => Inv
      <2> SUFFICES ASSUME Init PROVE Inv
          OBVIOUS
      <2>1. Recording /\ Books
            BY PlacesOf
            DEF Init, Recording, Books, Managing, NoEquity, EmptyTables
      <2>2. Rows(disk) = {} /\ open = {} /\ closed = {} /\ h.pc = "down"
            BY PlacesOf DEF Init, Rows, EmptyTables
      <2>3. Fits({}, entry)
            BY FS_EmptySet, RunnerAssumption DEF Fits
      <2>4. Sized /\ Owned
            BY <2>2, <2>3 DEF Sized, Owned, Active, Managing
      <2>5. QED
            BY <2>1, <2>4, TypeInit
<1>2. Inv /\ [Next]_vars => Inv'
      <2> SUFFICES ASSUME Inv, [Next]_vars PROVE Inv'
          OBVIOUS
      <2>1. TypeOK' /\ Recording'
            BY TypeStep, RecordingStep
      <2>2. ASSUME errors' = 0 PROVE Books' /\ Sized' /\ Owned'
            <3>1. errors = 0
                  BY <2>2, ErrorsGrow
            <3>2. Books'
                  BY <2>2, <3>1, BooksStep
            <3>3. QED
                  BY <2>1, <2>2, <3>1, <3>2, SizedStep, OwnedStep
      <2>3. QED
            BY <2>1, <2>2
<1>3. Inv => OpenIsManaged
      BY DEF Owned, OpenIsManaged
<1>4. QED
      BY <1>1, <1>2, <1>3, PTL DEF Spec

-----------------------------------------------------------------------------
(* The cooldown is served *)

\* The first candle at which the symbol can still be evaluated.
DueAt(l, done, s) ==
    IF l.pc \notin {"down", "poll"} /\ l.sym = s THEN l.candle ELSE done[s] + 1

\* Nothing was ever traded.
Untouched == \A t \in Uuids : entry[t] = None /\ disk.trades[t] = None

\* While no statement has failed and the process was never ended: the bars an
\* exit still blocks lie between its candle and the next one to be evaluated,
\* no entry is newer than an open one of its symbol, and a signal comes when
\* all trades of its symbol are recorded and their bars have passed.
Waited ==
    /\ \A t \in Uuids : disk.trades[t] # None =>
         /\ entry[t] # None
         /\ disk.trades[t].candle <= DueAt(h, last, entry[t].sym)
         /\ disk.trades[t].candle + CooldownBars
              <= DueAt(h, last, entry[t].sym) + st[entry[t].sym].cooldown
    /\ \A t \in Uuids : entry[t] # None =>
         entry[t].candle <= DueAt(h, last, entry[t].sym)
    /\ \A t, u \in Uuids :
         entry[t] # None /\ disk.trades[t] = None =>
           /\ t \in open
           /\ entry[u] # None /\ entry[u].sym = entry[t].sym
                => entry[u].candle <= entry[t].candle
    /\ \A t \in closed : disk.trades[t] # None
    /\ \A t \in open : disk.trades[t] # None => t \in closed
    /\ \A t, u \in Uuids :
         /\ disk.trades[t] # None /\ entry[u] # None
         /\ entry[u].sym = entry[t].sym
         /\ entry[u].candle > entry[t].candle
         => entry[u].candle >= disk.trades[t].candle + CooldownBars
    /\ h.pc = "signal" =>
         /\ st[h.sym].cooldown = 0
         /\ \A t \in Uuids :
              entry[t] # None /\ entry[t].sym = h.sym => disk.trades[t] # None

\* The engine's operations and the cooldown: an exit sets it, a quiet
\* evaluation takes at most one off, the others leave it.
LEMMA CooldownOf ==
    ASSUME NEW s \in SymbolState
    PROVE  /\ \A active \in BOOLEAN : UpdateDailyLiq(s, active).cooldown = s.cooldown
           /\ \A e \in Quiet(s) : e.cooldown + 1 >= s.cooldown
           /\ Signalled(s).cooldown = s.cooldown
           /\ \A e \in Decided(s, "hold") : e.cooldown = s.cooldown
           /\ \A d \in Reasons : \A e \in Decided(s, d) : e.cooldown = CooldownBars
<1>1. \A active \in BOOLEAN : UpdateDailyLiq(s, active).cooldown = s.cooldown
      BY DEF UpdateDailyLiq, SymbolState
<1>2. \A e \in Quiet(s) : e.cooldown + 1 >= s.cooldown
      BY DEF Quiet, SymbolState
<1>3. Signalled(s).cooldown = s.cooldown
      BY DEF Signalled, SymbolState
<1>4. \A e \in Decided(s, "hold") : e.cooldown = s.cooldown
      BY DEF Decided, SymbolState
<1>5. ASSUME NEW d \in Reasons, NEW e \in Decided(s, d)
      PROVE  e.cooldown = CooldownBars
      <2> DEFINE out == [s EXCEPT !.in_trade = FALSE, !.cooldown = CooldownBars]
      <2>1. out \in SymbolState /\ out.cooldown = CooldownBars
            BY EngineAssumption DEF SymbolState
      <2> HIDE DEF out
      <2>2. CountStop(out).cooldown = CooldownBars
            BY <2>1 DEF CountStop, SymbolState
      <2>3. CountStop([out EXCEPT !.stopped_in_window = TRUE]).cooldown = CooldownBars
            BY <2>1 DEF CountStop, SymbolState
      <2>4. [out EXCEPT !.consecutive_stops = 0].cooldown = CooldownBars
            BY <2>1 DEF SymbolState
      <2>5. e \in {CountStop(out), CountStop([out EXCEPT !.stopped_in_window = TRUE]),
                   [out EXCEPT !.consecutive_stops = 0]}
            BY <1>5 DEF Decided, Reasons, out
      <2>6. QED
            BY <2>2, <2>3, <2>4, <2>5
<1>6. QED
      BY <1>1, <1>2, <1>3, <1>4, <1>5

\* A step that neither enters nor records a trade, and after which no symbol
\* is evaluated sooner than before.
LEMMA WaitedStays ==
    ASSUME TypeOK, TypeOK', Waited,
           entry' = entry, disk'.trades = disk.trades,
           \A s \in Symbols :
             /\ DueAt(h', last', s) >= DueAt(h, last, s)
             /\ DueAt(h', last', s) + st'[s].cooldown
                  >= DueAt(h, last, s) + st[s].cooldown,
           \A t \in open : disk.trades[t] = None => t \in open',
           closed' \subseteq closed, open' \subseteq open,
           \A t \in open' : disk.trades[t] # None => t \in closed',
           h'.pc # "signal" \/ (h' = h /\ st' = st)
    PROVE  Waited'
<1>1. \A t \in Uuids : entry[t] # None =>
         /\ entry[t].sym \in Symbols /\ entry[t].candle \in Nat
      BY RunnerAssumption DEF TypeOK, Candles
<1>2. \A t \in Uuids : disk.trades[t] # None => disk.trades[t].candle \in Nat
      BY RunnerAssumption DEF TypeOK, Tables, Trade, Candles
<1>3. \A s \in Symbols :
         /\ DueAt(h, last, s) \in Nat /\ DueAt(h', last', s) \in Nat
         /\ st[s].cooldown \in Nat /\ st'[s].cooldown \in Nat
      BY RunnerAssumption
      DEF TypeOK, Placed, Locals, Candles, DueAt, SymbolState
<1>4. CooldownBars \in Nat
      BY EngineAssumption
<1>5. ASSUME NEW t \in Uuids, disk.trades[t] # None
      PROVE  /\ entry[t] # None
             /\ disk.trades[t].candle <= DueAt(h', last', entry[t].sym)
             /\ disk.trades[t].candle + CooldownBars
                  <= DueAt(h', last', entry[t].sym) + st'[entry[t].sym].cooldown
      <2>1. /\ entry[t] # None
            /\ disk.trades[t].candle <= DueAt(h, last, entry[t].sym)
            /\ disk.trades[t].candle + CooldownBars
                 <= DueAt(h, last, entry[t].sym) + st[entry[t].sym].cooldown
            BY <1>5 DEF Waited
      <2>2. QED
            BY <1>1, <1>2, <1>3, <1>4, <1>5, <2>1
<1>6. ASSUME NEW t \in Uuids, entry[t] # None
      PROVE  entry[t].candle <= DueAt(h', last', entry[t].sym)
      <2>1. entry[t].candle <= DueAt(h, last, entry[t].sym)
            BY <1>6 DEF Waited
      <2>2. QED
            BY <1>1, <1>3, <1>6, <2>1
<1>7. QED
      BY <1>5, <1>6 DEF Waited

\* With one position per symbol, in a process that was not disturbed, every
\* step keeps the symbols waiting.
LEMMA WaitedStep ==
    ASSUME MaxPerSymbol <= 1,
           TypeOK, TypeOK', Books, Owned, Waited, h.pc # "down", [Next]_vars,
           errors = 0, errors' = 0, stops' = 0
    PROVE  Waited' /\ h'.pc # "down"
<1>0. /\ disk \in Tables /\ equity \in Equity /\ Placed(h)
      /\ open \in SUBSET Uuids /\ closed \in SUBSET Uuids
      /\ held \in [Uuids -> Nat] /\ st \in [Symbols -> SymbolState]
      /\ \A s \in Symbols : st[s] \in SymbolState /\ st[s].cooldown \in Nat
      /\ last \in [Symbols -> Candles] /\ now \in Candles
      BY DEF TypeOK, SymbolState
<1>n. \A c \in Candles : c \in Nat
      BY RunnerAssumption DEF Candles
<1>d. \A s \in Symbols : DueAt(h, last, s) \in Nat
      BY <1>0, <1>n DEF DueAt, Placed, Locals
<1>1. ASSUME UNCHANGED <<open, closed, entry, last>>,
             disk'.trades = disk.trades,
             h'.pc # "down", h'.pc # "signal" \/ (h' = h /\ st' = st),
             \A s \in Symbols : DueAt(h', last, s) >= DueAt(h, last, s),
             \A s \in Symbols : st'[s].cooldown = st[s].cooldown
      PROVE  Waited' /\ h'.pc # "down"
      <2>1. \A s \in Symbols : DueAt(h', last, s) \in Nat
            BY <1>1, <1>n DEF DueAt, TypeOK, Placed, Locals
      <2>2. \A s \in Symbols : DueAt(h', last, s) + st'[s].cooldown
                                 >= DueAt(h, last, s) + st[s].cooldown
            BY <1>0, <1>1, <1>d, <2>1
      <2>3. QED
            BY <1>1, <2>2, WaitedStays DEF Waited
<1>2. CASE Start
      BY <1>2 DEF Start
<1>3. CASE Crash \/ Shutdown
      BY <1>3, RunnerAssumption DEF Crash, Shutdown, Forget, TypeOK
<1>4. CASE CandleCloses
      <2>1. UNCHANGED <<open, closed, entry, last, disk, h, st>>
            BY <1>4 DEF CandleCloses, memory
      <2>2. QED
            BY <1>1, <1>d, <2>1
<1>5. ASSUME NEW s \in Symbols, Poll(s) PROVE Waited' /\ h'.pc # "down"
      <2>1. UNCHANGED <<open, closed, entry, last, disk, st>> /\ h.pc = "poll"
            BY <1>5 DEF Poll, memory
      <2>2. NextCandle(s) \in Nat \/ NextCandle(s) <= now => NextCandle(s) >= last[s] + 1
            BY <1>0, <1>n, RunnerAssumption DEF NextCandle, Later
      <2>3. \/ h'.pc = "poll"
            \/ /\ h' = OnClose(h.todo, s, NextCandle(s), now)
               /\ h'.sym = s /\ h'.candle = NextCandle(s)
               /\ NextCandle(s) >= last[s] + 1
            BY <1>0, <1>5, <1>n, <2>2, PlacesOf, LeftOf DEF Poll, OnClose, At
      <2>4. h'.pc \notin {"down", "signal"}
            BY <2>3, PlacesOf
      <2>5. \A r \in Symbols : DueAt(h, last, r) = last[r] + 1
            BY <2>1 DEF DueAt
      <2>6. \A r \in Symbols : DueAt(h', last, r) >= last[r] + 1
            BY <1>0, <1>n, <2>3 DEF DueAt
      <2>7. QED
            BY <1>1, <2>1, <2>4, <2>5, <2>6
<1>6. CASE CycleDone
      <2>1. /\ h.pc = "poll" /\ h'.pc = "poll" /\ disk' = [disk EXCEPT !.last = last]
            /\ UNCHANGED <<open, closed, entry, last, st>>
            BY <1>6, WriteSucceeds, PlacesOf DEF CycleDone, memory
      <2>2. disk'.trades = disk.trades
            BY <1>0, <2>1 DEF Tables
      <2>3. \A s \in Symbols : DueAt(h', last, s) = DueAt(h, last, s)
            BY <2>1 DEF DueAt
      <2>4. QED
            BY <1>1, <1>d, <2>1, <2>2, <2>3
<1>7. ASSUME NEW s \in Symbols, NEW active \in BOOLEAN, Liquidations(s, active)
      PROVE  Waited' /\ h'.pc # "down"
      <2>1. /\ UNCHANGED <<open, closed, entry, last, disk, h>>
            /\ h.pc # "signal"
            BY <1>7 DEF Liquidations
      <2>2. \A r \in Symbols : st'[r].cooldown = st[r].cooldown
            BY <1>0, <1>7, CooldownOf DEF Liquidations
      <2>3. QED
            BY <1>1, <1>d, <2>1, <2>2
\* A step within the handling of one candle.
<1>8. ASSUME UNCHANGED <<open, closed, entry, last>>,
             disk'.trades = disk.trades,
             h.pc \notin {"down", "poll"}, h'.pc \notin {"down", "poll", "signal"},
             h'.sym = h.sym, h'.candle = h.candle,
             \A s \in Symbols : st'[s].cooldown = st[s].cooldown
      PROVE  Waited' /\ h'.pc # "down"
      <2>1. \A s \in Symbols : DueAt(h', last, s) = DueAt(h, last, s)
            BY <1>8 DEF DueAt
      <2>2. QED
            BY <1>1, <1>8, <1>d, <2>1
<1>9. ASSUME NEW t \in Uuids, Hold(t) PROVE Waited' /\ h'.pc # "down"
      <2>1. /\ h.pc = "manage" /\ UNCHANGED <<open, closed, entry, last>>
            /\ disk' = [disk EXCEPT !.positions[t] = held[t] + 1]
            /\ h' = [h EXCEPT !.left = @ \ {t}]
            BY <1>9, WriteSucceeds DEF Hold
      <2>2. h'.pc = "manage" /\ h'.sym = h.sym /\ h'.candle = h.candle
            BY <1>0, <2>1 DEF Placed, Locals
      <2>3. disk'.trades = disk.trades
            BY <1>0, <2>1 DEF Tables
      <2>4. \A s \in Symbols : st'[s].cooldown = st[s].cooldown
            <3>1. h.sym \in Symbols
                  BY <1>0, <2>1 DEF Placed
            <3>2. st' = st \/ \E e \in Decided(st[h.sym], "hold") :
                                 st' = [st EXCEPT ![h.sym] = e]
                  BY <1>9 DEF Hold
            <3>3. QED
                  BY <1>0, <3>1, <3>2, CooldownOf
      <2>5. QED
            BY <1>8, <2>1, <2>2, <2>3, <2>4
<1>10. CASE RemovePosition \/ SaveEquity \/ ExitAlerted
      <2>1. /\ h.pc \in {"remove", "save_equity", "exit_alert"}
            /\ UNCHANGED <<open, closed, entry, last, st>>
            /\ h' \in {[h EXCEPT !.pc = "save_equity"], [h EXCEPT !.pc = "exit_alert"],
                       [h EXCEPT !.pc = "manage", !.left = @ \ {h.trade},
                                 !.trade = None]}
            /\ disk' \in {disk, [disk EXCEPT !.positions[h.trade] = None],
                          [disk EXCEPT !.equity = equity]}
            BY <1>10, WriteSucceeds DEF RemovePosition, SaveEquity, ExitAlerted, memory
      <2>2. h'.pc \in Managing /\ h'.sym = h.sym /\ h'.candle = h.candle
            BY <1>0, <2>1 DEF Placed, Locals, Managing
      <2>3. disk'.trades = disk.trades
            BY <1>0, <2>1 DEF Tables
      <2>4. QED
            BY <1>8, <2>1, <2>2, <2>3 DEF Managing
<1>11. CASE Managed
      <2>1. /\ open' = open \ closed /\ closed' = {} /\ h.pc = "manage"
            /\ UNCHANGED <<entry, st, last, disk>>
            /\ h' = [h EXCEPT !.pc = "entry"]
            BY <1>11 DEF Managed, Kept
      <2>2. h'.pc = "entry" /\ h'.sym = h.sym /\ h'.candle = h.candle
            BY <1>0, <2>1 DEF Placed, Locals
      <2>3. \A s \in Symbols : DueAt(h', last', s) = DueAt(h, last, s)
            BY <2>1, <2>2 DEF DueAt
      <2>4. /\ \A t \in open : disk.trades[t] = None => t \in open'
            /\ \A t \in open' : disk.trades[t] # None => t \in closed'
            BY <2>1 DEF Waited
      <2>5. \A s \in Symbols :
               /\ DueAt(h', last', s) >= DueAt(h, last, s)
               /\ DueAt(h', last', s) + st'[s].cooldown
                    >= DueAt(h, last, s) + st[s].cooldown
            BY <1>0, <1>d, <2>1, <2>3
      <2>6. QED
            BY <2>1, <2>2, <2>4, <2>5, WaitedStays
\* The next candle is one later, and an evaluation takes off at most one bar.
<1>12. ASSUME CandleDone, UNCHANGED <<open, closed, entry, disk>>,
              h.pc \notin {"down", "poll"},
              \A s \in Symbols \ {h.sym} : st'[s].cooldown = st[s].cooldown,
              st'[h.sym].cooldown + 1 >= st[h.sym].cooldown
       PROVE  Waited' /\ h'.pc # "down"
      <2>1. h.sym \in Symbols /\ h.candle \in Nat
            BY <1>0, <1>12, <1>n DEF Placed, Locals
      <2>2. last'[h.sym] = h.candle /\ \A s \in Symbols \ {h.sym} : last'[s] = last[s]
            BY <1>0, <1>12, <2>1 DEF CandleDone
      <2>3. \/ h'.pc = "poll"
            \/ h'.sym = h.sym /\ h'.candle = h.candle + 1
            BY <1>12, PlacesOf DEF CandleDone, OnClose, At
      <2>4. h'.pc \notin {"down", "signal"}
            BY <1>12, PlacesOf
      <2>5. DueAt(h', last', h.sym) = h.candle + 1 /\ DueAt(h, last, h.sym) = h.candle
            BY <1>12, <2>1, <2>2, <2>3 DEF DueAt
      <2>6. \A s \in Symbols \ {h.sym} : DueAt(h', last', s) = DueAt(h, last, s)
            BY <1>12, <2>2, <2>3 DEF DueAt
      <2>7. ASSUME NEW s \in Symbols
            PROVE  /\ DueAt(h', last', s) >= DueAt(h, last, s)
                   /\ DueAt(h', last', s) + st'[s].cooldown
                        >= DueAt(h, last, s) + st[s].cooldown
            <3>1. st'[s].cooldown \in Nat
                  BY DEF TypeOK, SymbolState
            <3>2. CASE s = h.sym
                  BY <1>0, <1>12, <2>1, <2>5, <3>1, <3>2
            <3>3. CASE s # h.sym
                  BY <1>0, <1>12, <1>d, <2>6, <3>1, <3>3
            <3>4. QED
                  BY <3>2, <3>3
      <2>8. QED
            BY <1>12, <2>4, <2>7, WaitedStays DEF Waited
<1>13. CASE NoEntry
      <2>1. h.sym \in Symbols
            BY <1>0, <1>13 DEF NoEntry, Placed
      <2>2. st' = st \/ \E e \in Quiet(st[h.sym]) : st' = [st EXCEPT ![h.sym] = e]
            BY <1>13 DEF NoEntry
      <2>3. /\ \A s \in Symbols \ {h.sym} : st'[s].cooldown = st[s].cooldown
            /\ st'[h.sym].cooldown + 1 >= st[h.sym].cooldown
            BY <1>0, <2>1, <2>2, CooldownOf
      <2>4. QED
            BY <1>12, <1>13, <2>3 DEF NoEntry
<1>14. CASE SignalDropped \/ EntryAlerted
      <2>1. h.sym \in Symbols
            BY <1>0, <1>14 DEF SignalDropped, EntryAlerted, Placed
      <2>2. st' = st /\ st[h.sym].cooldown + 1 >= st[h.sym].cooldown
            BY <1>0, <1>14, <2>1 DEF SignalDropped, EntryAlerted
      <2>3. QED
            BY <1>12, <1>14, <2>2 DEF SignalDropped, EntryAlerted
\* The candle of an exit is the one at which its cooldown begins.
<1>15. ASSUME NEW t \in Uuids, NEW d \in Reasons, Close(t, d)
       PROVE  Waited' /\ h'.pc # "down"
      <2> DEFINE trade == [reason |-> d, candle |-> h.candle]
      <2>1. /\ h.pc = "manage" /\ t \in h.left
            /\ UNCHANGED <<open, entry, last>> /\ closed' = closed \cup {t}
            /\ disk' = [disk EXCEPT !.trades[t] = trade]
            /\ h' = [h EXCEPT !.pc = "remove", !.trade = t]
            BY <1>15, WriteSucceeds DEF Close
      <2>2. /\ h'.pc = "remove" /\ h'.sym = h.sym /\ h'.candle = h.candle
            /\ h.sym \in Symbols /\ h.candle \in Candles /\ h.candle \in Nat
            BY <1>0, <1>n, <2>1 DEF Placed, Locals
      <2>3. /\ t \in open /\ entry[t] # None /\ entry[t].sym = h.sym
            BY <2>1 DEF Owned, Managing, Books
      <2>4. disk.trades[t] = None
            <3>1. t \notin closed
                  BY <1>0, <2>1, RunnerAssumption DEF Books, Managing
            <3>2. QED
                  BY <2>3, <3>1 DEF Waited
      <2>5. trade # None /\ trade.candle = h.candle
            BY <2>2, RunnerAssumption DEF Candles
      <2>6. \A u \in Uuids : disk'.trades[u] = IF u = t THEN trade ELSE disk.trades[u]
            BY <1>0, <2>1 DEF Tables
      <2> HIDE DEF trade
      <2>7. /\ \A s \in Symbols : DueAt(h', last', s) = DueAt(h, last, s)
            /\ DueAt(h, last, h.sym) = h.candle
            BY <2>1, <2>2 DEF DueAt
      <2>8. /\ st'[h.sym].cooldown = CooldownBars
            /\ \A s \in Symbols \ {h.sym} : st'[s] = st[s]
            <3>1. PICK e \in Decided(st[h.sym], d) : st' = [st EXCEPT ![h.sym] = e]
                  BY <1>15 DEF Close
            <3>2. e.cooldown = CooldownBars
                  BY <1>0, <2>2, <3>1, CooldownOf
            <3>3. QED
                  BY <1>0, <2>2, <3>1, <3>2
      <2>9. ASSUME NEW u \in Uuids, disk'.trades[u] # None
            PROVE  /\ entry[u] # None
                   /\ disk'.trades[u].candle <= DueAt(h', last', entry[u].sym)
                   /\ disk'.trades[u].candle + CooldownBars
                        <= DueAt(h', last', entry[u].sym) + st'[entry[u].sym].cooldown
            <3>1. CASE u = t
                  BY <2>2, <2>3, <2>5, <2>6, <2>7, <2>8, <3>1, EngineAssumption
            <3>2. CASE u # t
                  <4>1. /\ disk'.trades[u] = disk.trades[u] /\ entry[u] # None
                        /\ disk.trades[u].candle <= DueAt(h, last, entry[u].sym)
                        /\ disk.trades[u].candle + CooldownBars
                             <= DueAt(h, last, entry[u].sym) + st[entry[u].sym].cooldown
                        BY <2>6, <2>9, <3>2 DEF Waited
                  <4>2. entry[u].sym \in Symbols
                        BY <4>1 DEF TypeOK
                  <4>3. disk.trades[u].candle \in Nat
                        BY <1>0, <1>n, <2>9, <4>1 DEF Tables, Trade
                  <4>4. CASE entry[u].sym = h.sym
                        BY <1>d, <2>2, <2>7, <2>8, <4>1, <4>3, <4>4, EngineAssumption
                  <4>5. CASE entry[u].sym # h.sym
                        BY <2>7, <2>8, <4>1, <4>2, <4>5
                  <4>6. QED
                        BY <4>4, <4>5
            <3>3. QED
                  BY <3>1, <3>2
      <2>10. \A u \in Uuids : entry[u] # None =>
                entry[u].candle <= DueAt(h', last', entry[u].sym)
            <3>1. \A u \in Uuids : entry[u] # None => entry[u].sym \in Symbols
                  BY DEF TypeOK
            <3>2. QED
                  BY <2>7, <3>1 DEF Waited
      <2>11. \A u, v \in Uuids :
                entry[u] # None /\ disk'.trades[u] = None =>
                  /\ u \in open
                  /\ entry[v] # None /\ entry[v].sym = entry[u].sym
                       => entry[v].candle <= entry[u].candle
            BY <2>5, <2>6 DEF Waited
      <2>12. /\ \A u \in closed' : disk'.trades[u] # None
             /\ \A u \in open : disk'.trades[u] # None => u \in closed'
            BY <1>0, <2>1, <2>5, <2>6 DEF Waited
      <2>13. ASSUME NEW u \in Uuids, NEW v \in Uuids,
                    disk'.trades[u] # None, entry[v] # None,
                    entry[v].sym = entry[u].sym, entry[v].candle > entry[u].candle
             PROVE  entry[v].candle >= disk'.trades[u].candle + CooldownBars
            <3>1. CASE u = t
                  <4>1. entry[v].candle <= entry[t].candle
                        BY <2>3, <2>4, <2>13, <3>1 DEF Waited
                  <4>2. entry[v].candle \in Nat /\ entry[t].candle \in Nat
                        BY <1>n, <2>3, <2>13 DEF TypeOK
                  <4>3. QED
                        BY <2>13, <3>1, <4>1, <4>2
            <3>2. CASE u # t
                  BY <2>6, <2>13, <3>2 DEF Waited
            <3>3. QED
                  BY <3>1, <3>2
      <2>14. QED
            BY <2>1, <2>2, <2>9, <2>10, <2>11, <2>12, <2>13 DEF Waited
\* A signal comes when no position of its symbol is open.
<1>16. CASE Signal
      <2>1. /\ h.pc = "entry" /\ UNCHANGED <<open, closed, entry, last>>
            /\ st' = [st EXCEPT ![h.sym] = Signalled(@)]
            /\ disk' = [disk EXCEPT !.dups = @ \cup {<<h.sym, h.candle>>}]
            /\ h' = [h EXCEPT !.pc = "signal"]
            BY <1>16, WriteSucceeds DEF Signal
      <2>2. /\ h'.pc = "signal" /\ h'.sym = h.sym /\ h'.candle = h.candle
            /\ h.sym \in Symbols /\ disk'.trades = disk.trades
            BY <1>0, <2>1 DEF Placed, Locals, Tables
      <2>3. /\ st[h.sym].cooldown = 0
            /\ \A s \in Symbols : st'[s].cooldown = st[s].cooldown
            BY <1>0, <1>16, <2>1, <2>2, CooldownOf DEF Signal, CanSignal
      <2>4. \A s \in Symbols : DueAt(h', last', s) = DueAt(h, last, s)
            BY <2>1, <2>2 DEF DueAt
      <2>5. OfSymbol(h.sym) = {}
            <3>1. closed = {}
                  BY <2>1 DEF Books, Managing
            <3>2. Cardinality(OfSymbol(h.sym)) < MaxPerSymbol
                  BY <1>16, <3>1 DEF Signal, MayEvaluate
            <3>3. IsFiniteSet(OfSymbol(h.sym))
                  BY <1>0, RunnerAssumption, FS_Subset DEF OfSymbol
            <3>4. Cardinality(OfSymbol(h.sym)) = 0
                  BY <3>2, <3>3, FS_CardinalityType, RunnerAssumption
            <3>5. QED
                  BY <3>3, <3>4, FS_EmptySet
      <2>6. \A t \in Uuids :
               entry[t] # None /\ entry[t].sym = h.sym => disk.trades[t] # None
            BY <2>5 DEF Waited, OfSymbol
      <2>7. \A u \in Uuids : entry[u] # None => entry[u].sym \in Symbols
            BY DEF TypeOK
      <2>8. QED
            BY <2>1, <2>2, <2>3, <2>4, <2>6, <2>7 DEF Waited
\* An entry is the newest of its symbol and comes after the bars of all before.
<1>17. ASSUME NEW t \in Uuids, Enter(t) PROVE Waited' /\ h'.pc # "down"
      <2> DEFINE new == [sym |-> h.sym, candle |-> h.candle]
      <2>1. /\ h.pc = "signal" /\ entry[t] = None
            /\ UNCHANGED <<st, closed, last>> /\ open' = open \cup {t}
            /\ entry' = [entry EXCEPT ![t] = new]
            /\ disk' = [disk EXCEPT !.positions[t] = 0]
            /\ h' = [h EXCEPT !.pc = "entry_alert", !.trade = t]
            BY <1>17, WriteSucceeds DEF Enter
      <2>2. /\ h'.pc = "entry_alert" /\ h'.sym = h.sym /\ h'.candle = h.candle
            /\ h.sym \in Symbols /\ h.candle \in Nat
            /\ disk'.trades = disk.trades
            BY <1>0, <1>n, <2>1 DEF Placed, Locals, Tables
      <2>3. /\ new # None /\ new.sym = h.sym /\ new.candle = h.candle
            /\ \A u \in Uuids : entry'[u] = IF u = t THEN new ELSE entry[u]
            BY <1>0, <2>1, RunnerAssumption DEF TypeOK, Placed, Locals, Candles
      <2> HIDE DEF new
      <2>4. disk.trades[t] = None
            BY <2>1 DEF Waited
      <2>5. /\ \A s \in Symbols : DueAt(h', last', s) = DueAt(h, last, s)
            /\ DueAt(h, last, h.sym) = h.candle
            BY <2>1, <2>2 DEF DueAt
      <2>6. \A u \in Uuids : entry[u] # None =>
               entry[u].sym \in Symbols /\ entry[u].candle \in Nat
            BY <1>n DEF TypeOK
      <2>7. \A u \in Uuids : disk.trades[u] # None =>
               /\ u # t /\ entry'[u] = entry[u] /\ entry[u] # None
               /\ entry[u].sym \in Symbols /\ disk.trades[u].candle \in Nat
            BY <1>0, <1>n, <2>3, <2>4, <2>6 DEF Waited, Tables, Trade
      <2>8. \A u \in Uuids : disk.trades[u] # None =>
               /\ disk.trades[u].candle <= DueAt(h', last', entry'[u].sym)
               /\ disk.trades[u].candle + CooldownBars
                    <= DueAt(h', last', entry'[u].sym) + st[entry'[u].sym].cooldown
            BY <2>5, <2>7 DEF Waited
      <2>9. \A u \in Uuids : entry'[u] # None =>
               entry'[u].candle <= DueAt(h', last', entry'[u].sym)
            BY <2>2, <2>3, <2>5, <2>6 DEF Waited
      <2>10. ASSUME NEW u \in Uuids, NEW v \in Uuids,
                    entry'[u] # None, disk.trades[u] = None
             PROVE  /\ u \in open'
                    /\ entry'[v] # None /\ entry'[v].sym = entry'[u].sym
                         => entry'[v].candle <= entry'[u].candle
            <3>1. CASE u = t
                  BY <2>1, <2>2, <2>3, <2>5, <2>9, <3>1
            <3>2. CASE u # t
                  <4>1. entry'[u] = entry[u] /\ entry[u].sym # h.sym
                        BY <2>1, <2>3, <2>10, <3>2 DEF Waited
                  <4>2. QED
                        BY <2>1, <2>3, <2>10, <4>1 DEF Waited
            <3>3. QED
                  BY <3>1, <3>2
      <2>11. ASSUME NEW u \in Uuids, NEW v \in Uuids,
                    disk.trades[u] # None, entry'[v] # None,
                    entry'[v].sym = entry'[u].sym, entry'[v].candle > entry'[u].candle
             PROVE  entry'[v].candle >= disk.trades[u].candle + CooldownBars
            <3>1. CASE v = t
                  <4>1. st[h.sym].cooldown = 0 /\ entry[u].sym = h.sym
                        BY <2>1, <2>3, <2>7, <2>11, <3>1 DEF Waited
                  <4>2. disk.trades[u].candle + CooldownBars <= h.candle + 0
                        BY <2>5, <2>11, <4>1 DEF Waited
                  <4>3. QED
                        BY <2>2, <2>3, <2>7, <2>11, <3>1, <4>2, EngineAssumption
            <3>2. CASE v # t
                  BY <2>3, <2>7, <2>11, <3>2 DEF Waited
            <3>3. QED
                  BY <3>1, <3>2
      <2>12. /\ \A u \in closed' : disk.trades[u] # None
             /\ \A u \in open' : disk.trades[u] # None => u \in closed'
            BY <2>1, <2>4 DEF Waited
      <2>13. \A u \in Uuids : disk.trades[u] # None => entry'[u] # None
            BY <2>7
      <2>14. QED
            BY <2>1, <2>2, <2>8, <2>9, <2>10, <2>11, <2>12, <2>13 DEF Waited
<1>18. CASE UNCHANGED vars
      <2>1. UNCHANGED <<open, closed, entry, last, disk, h, st>>
            BY <1>18 DEF vars, memory
      <2>2. QED
            BY <1>1, <1>d, <2>1
<1>19. QED
      BY <1>2, <1>3, <1>4, <1>5, <1>6, <1>7, <1>9, <1>10, <1>11, <1>13, <1>14,
         <1>15, <1>16, <1>17, <1>18, ManageSucceeds
      DEF Next, Loop

\* Only the end of a process is counted in `stops'.
LEMMA StopsGrow == TypeOK /\ [Next]_vars /\ stops' = 0 => stops = 0
<1> SUFFICES ASSUME TypeOK, [Next]_vars, stops' = 0 PROVE stops = 0
    OBVIOUS
<1>1. stops \in Nat
      BY RunnerAssumption DEF TypeOK
<1>2. CASE Crash \/ Shutdown
      BY <1>1, <1>2 DEF Crash, Shutdown, Forget
<1>3. CASE ~(Crash \/ Shutdown)
      BY <1>3
      DEF Next, Loop, vars, Start, CandleCloses, Liquidations, CycleDone, Poll,
          Hold, ManageFails, Close, RemovePosition, SaveEquity, ExitAlerted,
          Managed, NoEntry, Signal, SignalDropped, Enter, EntryAlerted
<1>4. QED
      BY <1>2, <1>3

\* A process that is down can only be started, and candles close meanwhile.
LEMMA OnlyStarts ==
    ASSUME TypeOK, [Next]_vars, h.pc = "down"
    PROVE  /\ UNCHANGED <<entry, disk, closed>>
           /\ h'.pc \in {"down", "poll"}
           /\ h'.pc = "poll" => open' = Rows(disk)
<1>1. CASE Start
      BY <1>1, PlacesOf DEF Start
<1>2. CASE CandleCloses \/ UNCHANGED vars
      BY <1>2 DEF CandleCloses, vars, memory
<1>3. CASE ~(Start \/ CandleCloses \/ UNCHANGED vars)
      <2>1. h # Polling({}) /\ h # Polling(Symbols)
            BY PlacesOf
      <2>2. QED
            BY <1>3, <2>1
            DEF Next, Loop, Crash, Shutdown, Liquidations, CycleDone, Poll,
                Hold, ManageFails, Close, RemovePosition, SaveEquity, ExitAlerted,
                Managed, NoEntry, Signal, SignalDropped, Enter, EntryAlerted
<1>4. QED
      BY <1>1, <1>2, <1>3

\* Before the first start nothing was traded; after it the symbols wait.
Undisturbed ==
    /\ Books /\ Sized /\ Owned
    /\ stops = 0 => IF h.pc = "down" THEN Untouched ELSE Waited

\* With max_per_symbol 1, in a process that was never ended and whose
\* statements never failed, no entry follows an exit of its symbol before
\* cooldown_bars candles have passed (liq_cluster_engine_v5.py, evaluate).
THEOREM CooldownServedAlways ==
    ASSUME MaxPerSymbol <= 1
    PROVE  Spec => []CooldownServed
<1> DEFINE Inv == TypeOK /\ Recording /\ (errors = 0 => Undisturbed)
<1>1. Init => Inv
      <2> SUFFICES ASSUME Init PROVE Inv
          OBVIOUS
      <2>1. Recording /\ Books
            BY PlacesOf
            DEF Init, Recording, Books, Managing, NoEquity, EmptyTables
      <2>2. /\ Rows(disk) = {} /\ open = {} /\ closed = {} /\ h.pc = "down"
            /\ Untouched
            BY PlacesOf DEF Init, Rows, EmptyTables, Untouched
      <2>3. Fits({}, entry)
            BY FS_EmptySet, RunnerAssumption DEF Fits
      <2>4. Sized /\ Owned
            BY <2>2, <2>3 DEF Sized, Owned, Active, Managing
      <2>5. QED
            BY <2>1, <2>2, <2>4, TypeInit DEF Undisturbed
<1>2. Inv /\ [Next]_vars => Inv'
      <2> SUFFICES ASSUME Inv, [Next]_vars PROVE Inv'
          OBVIOUS
      <2>1. TypeOK' /\ Recording'
            BY TypeStep, RecordingStep
      <2>2. ASSUME errors' = 0 PROVE Undisturbed'
            <3>1. errors = 0
                  BY <2>2, ErrorsGrow
            <3>2. Books'
                  BY <2>2, <3>1, BooksStep DEF Undisturbed
            <3>3. Sized' /\ Owned'
                  BY <2>1, <2>2, <3>1, <3>2, SizedStep, OwnedStep DEF Undisturbed
            <3>4. ASSUME stops' = 0
                  PROVE  IF h'.pc = "down" THEN Untouched' ELSE Waited'
                  <4>1. CASE h.pc # "down"
                        <5>1. stops = 0
                              BY <2>1, <3>4, StopsGrow
                        <5>2. Waited
                              BY <3>1, <4>1, <5>1 DEF Undisturbed
                        <5>3. QED
                              BY <2>1, <2>2, <3>1, <3>4, <4>1, <5>2, WaitedStep
                              DEF Undisturbed
                  <4>2. CASE h.pc = "down"
                        <5>1. stops = 0
                              BY <2>1, <3>4, StopsGrow
                        <5>2. Untouched /\ closed = {} /\ open = {}
                              BY <3>1, <4>2, <5>1 DEF Undisturbed, Books, Managing
                        <5>3. UNCHANGED <<entry, disk, closed>>
                              BY <4>2, <2>2, OnlyStarts
                        <5>4. QED
                              <6>1. /\ \A t \in Uuids : entry'[t] = None /\ disk'.trades[t] = None
                                    /\ closed' = {} /\ open' \in SUBSET Uuids
                                    BY <2>1, <5>2, <5>3 DEF Untouched, TypeOK
                              <6>2. h'.pc # "signal"
                                    BY <2>2, <4>2, OnlyStarts
                              <6>3. Untouched' /\ Waited'
                                    BY <6>1, <6>2 DEF Untouched, Waited
                              <6>4. QED
                                    BY <6>3
                  <4>3. QED
                        BY <4>1, <4>2
            <3>5. QED
                  BY <3>2, <3>3, <3>4 DEF Undisturbed
      <2>3. QED
            BY <2>1, <2>2
<1>3. Inv => CooldownServed
      BY DEF Undisturbed, Untouched, Waited, CooldownServed
<1>4. QED
      BY <1>1, <1>2, <1>3, PTL DEF Spec

-----------------------------------------------------------------------------
(* Positions are not held for ever *)

\* The first candle that a position of symbol s has not been held over yet.
DueFor(l, done, t, s) ==
    IF l.pc \notin {"down", "poll"} /\ l.sym = s
    THEN IF l.pc \in Managing /\ t \in l.left THEN l.candle ELSE l.candle + 1
    ELSE done[s] + 1

\* What max_hold_bars and the ends of the process allow.
Cap == MaxHold + (Window - 1) * stops

\* The candles older than the entry that a start takes again are counted
\* beforehand: a row has room for a whole window of them while the process is
\* down, and a position for those that it still has before it.
Bounded ==
    /\ h.pc = "down" =>
         \A t \in Rows(disk) : disk.positions[t] + (Window - 1) < Cap
    /\ \A t \in Rows(disk) : disk.positions[t] < Cap
    /\ h.pc # "down" => \A t \in Active : \A k \in 0..(Window - 1) :
         k = 0 \/ entry[t].candle >= DueFor(h, last, t, entry[t].sym) + k
           => held[t] + k < Cap
    /\ \A t \in Uuids : entry[t] # None => entry[t].candle <= now
    /\ h.pc \notin {"down", "poll"} =>
         /\ h.candle <= now /\ h.upto <= now
         /\ \A t \in open : entry[t].sym = h.sym =>
              entry[t].candle <= h.candle + (Window - 1)

LEMMA CapIsNatural ==
    ASSUME TypeOK
    PROVE  Cap \in Nat /\ Cap >= MaxHold /\ Cap \in Int
<1>1. stops \in Nat /\ Window - 1 \in Nat /\ MaxHold \in Nat
      BY RunnerAssumption, EngineAssumption DEF TypeOK
<1>2. \A a, b \in Nat : a * b \in Nat
      OBVIOUS
<1>3. (Window - 1) * stops \in Nat
      BY <1>1, <1>2
<1>4. QED
      BY <1>1, <1>3 DEF Cap

\* A step of a process that stays up and holds no position over a candle.
LEMMA BoundedStays ==
    ASSUME TypeOK, TypeOK', Bounded, h.pc # "down", h'.pc # "down",
           stops' = stops, entry' = entry, now' >= now,
           Active' \subseteq Active, \A t \in Active' : held'[t] = held[t],
           \A t \in Active' : DueFor(h', last', t, entry[t].sym)
                                >= DueFor(h, last, t, entry[t].sym),
           \A t \in Rows(disk') : t \in Rows(disk)
                                  /\ disk'.positions[t] = disk.positions[t],
           h'.pc \notin {"down", "poll"} =>
             /\ h'.candle <= now' /\ h'.upto <= now'
             /\ \A t \in open' : entry[t].sym = h'.sym =>
                  entry[t].candle <= h'.candle + (Window - 1),
           \A t \in Active : entry[t] # None
    PROVE  Bounded'
<1>1. Cap' = Cap
      BY DEF Cap
<1>2. \A t \in Active : entry[t].candle \in Nat /\ entry[t].sym \in Symbols
      BY RunnerAssumption DEF TypeOK, Candles, Active
<1>3. \A t, s : s \in Symbols =>
         DueFor(h, last, t, s) \in Nat /\ DueFor(h', last', t, s) \in Nat
      BY RunnerAssumption DEF DueFor, TypeOK, Placed, Locals, Candles
<1>4. ASSUME NEW t \in Active', NEW k \in 0..(Window - 1),
             k = 0 \/ entry[t].candle >= DueFor(h', last', t, entry[t].sym) + k
      PROVE  held'[t] + k < Cap
      <2>1. k = 0 \/ entry[t].candle >= DueFor(h, last, t, entry[t].sym) + k
            BY <1>2, <1>3, <1>4, RunnerAssumption
      <2>2. t \in Active /\ held'[t] = held[t]
            BY <1>4
      <2>3. QED
            BY <2>1, <2>2 DEF Bounded
<1>5. \A t \in Uuids : entry[t] # None => entry[t].candle <= now'
      <2>1. \A t \in Uuids : entry[t] # None =>
               entry[t].candle \in Nat /\ entry[t].candle <= now
            BY RunnerAssumption DEF Bounded, TypeOK, Candles
      <2>2. now \in Nat /\ now' \in Nat
            BY RunnerAssumption DEF TypeOK, Candles
      <2>3. QED
            BY <2>1, <2>2
<1>6. \A t \in Rows(disk') : disk'.positions[t] < Cap
      BY DEF Bounded
<1>7. QED
      BY <1>1, <1>4, <1>5, <1>6 DEF Bounded

\* With one position per symbol and while no statement has failed, every step
\* keeps the positions under the cap.
LEMMA BoundedStep ==
    ASSUME TypeOK, TypeOK', Books, Books', Sized, Owned, Bounded, [Next]_vars,
           errors = 0, errors' = 0
    PROVE  Bounded'
<1>0. /\ disk \in Tables /\ equity \in Equity /\ Placed(h)
      /\ open \in SUBSET Uuids /\ closed \in SUBSET Uuids
      /\ held \in [Uuids -> Nat] /\ st \in [Symbols -> SymbolState]
      /\ last \in [Symbols -> Candles] /\ now \in Candles
      BY DEF TypeOK
<1>n. \A c \in Candles : c \in Nat
      BY RunnerAssumption DEF Candles
<1>a. \A t \in Active : entry[t] # None
      BY <1>0 DEF Active, Books
<1>c. Cap \in Nat /\ Cap >= MaxHold /\ MaxHold \in Nat \ {0}
      BY CapIsNatural, EngineAssumption
<1>d. \A t, s : s \in Symbols => DueFor(h, last, t, s) \in Nat
      BY <1>0, <1>n DEF DueFor, Placed, Locals
<1>s. \A t \in Active : entry[t].sym \in Symbols /\ entry[t].candle \in Nat
      BY <1>0, <1>n, <1>a DEF TypeOK, Active
\* A step in which neither the positions nor the rows change.
<1>1. ASSUME UNCHANGED <<open, closed, held, entry, now, stops>>,
             disk'.positions = disk.positions,
             h.pc # "down", h'.pc # "down",
             \A t \in Active : DueFor(h', last', t, entry[t].sym)
                                 >= DueFor(h, last, t, entry[t].sym),
             h'.pc \notin {"down", "poll"} =>
               /\ h'.candle <= now /\ h'.upto <= now
               /\ \A t \in open : entry[t].sym = h'.sym =>
                    entry[t].candle <= h'.candle + (Window - 1)
      PROVE  Bounded'
      <2>1. Active' = Active /\ Rows(disk') = Rows(disk)
            BY <1>1 DEF Active, Rows
      <2>2. now' >= now
            BY <1>0, <1>1, <1>n
      <2>3. QED
            BY <1>1, <1>a, <2>1, <2>2, BoundedStays
<1>2. CASE Start
      <2>1. /\ h.pc = "down" /\ h'.pc = "poll" /\ open' = Rows(disk)
            /\ UNCHANGED <<now, closed, entry, disk, stops>>
            /\ \A t \in Rows(disk) : held'[t] = disk.positions[t]
            BY <1>2, PlacesOf DEF Start, Rows
      <2>2. closed = {} /\ Cap' = Cap
            BY <2>1 DEF Books, Managing, Cap
      <2>3. \A t \in Rows(disk) : disk.positions[t] \in Nat
            BY <1>0 DEF Rows, Tables
      <2>4. ASSUME NEW t \in Active', NEW k \in 0..(Window - 1)
            PROVE  held'[t] + k < Cap
            <3>1. /\ t \in Rows(disk) /\ held'[t] = disk.positions[t]
                  /\ disk.positions[t] + (Window - 1) < Cap
                  BY <2>1, <2>2 DEF Active, Bounded
            <3>2. QED
                  BY <1>c, <2>3, <3>1, RunnerAssumption
      <2>5. QED
            BY <2>1, <2>2, <2>4 DEF Bounded
<1>3. ASSUME Forget, disk'.positions = disk.positions PROVE Bounded'
      <2>1. /\ h'.pc = "down" /\ stops' = stops + 1
            /\ UNCHANGED <<now, entry>>
            BY <1>3, PlacesOf DEF Forget
      <2>2. Rows(disk') = Rows(disk)
            BY <1>3 DEF Rows
      <2>3. Cap' = Cap + (Window - 1)
            <3>1. stops \in Nat /\ Window - 1 \in Int
                  BY RunnerAssumption DEF TypeOK
            <3>2. (Window - 1) * (stops + 1) = (Window - 1) * stops + (Window - 1)
                  BY <3>1
            <3>3. (Window - 1) * stops \in Int
                  BY <3>1
            <3>4. QED
                  BY <1>c, <2>1, <3>1, <3>2, <3>3 DEF Cap
      <2>4. \A t \in Rows(disk) : /\ disk.positions[t] \in Nat
                                  /\ disk.positions[t] < Cap
            BY <1>0 DEF Rows, Tables, Bounded
      <2>5. \A t \in Rows(disk) : /\ disk.positions[t] + (Window - 1) < Cap'
                                  /\ disk.positions[t] < Cap'
            BY <1>c, <2>3, <2>4, RunnerAssumption
      <2>6. QED
            BY <1>3, <2>1, <2>2, <2>5 DEF Bounded
<1>4. CASE Crash
      BY <1>3, <1>4 DEF Crash
<1>5. CASE Shutdown
      <2>1. disk'.positions = disk.positions
            BY <1>0, <1>5 DEF Shutdown, Tables
      <2>2. QED
            BY <1>3, <1>5, <2>1 DEF Shutdown
<1>6. CASE CandleCloses
      <2>1. /\ UNCHANGED <<open, closed, held, entry, last, disk, h, stops>>
            /\ h.pc \in {"down", "poll"} /\ now' = now + 1
            BY <1>6 DEF CandleCloses, memory
      <2>2. Active' = Active /\ Cap' = Cap
            BY <2>1 DEF Active, Cap
      <2>3. \A t \in Uuids : entry[t] # None => entry[t].candle \in Nat
            BY <1>n DEF TypeOK
      <2>4. \A t \in Uuids : entry[t] # None => entry[t].candle <= now'
            BY <1>0, <1>n, <2>1, <2>3 DEF Bounded
      <2>5. QED
            BY <2>1, <2>2, <2>4 DEF Bounded
<1>7. ASSUME NEW s \in Symbols, Poll(s) PROVE Bounded'
      <2>1. UNCHANGED <<open, closed, held, entry, last, disk, now, stops>>
            /\ h.pc = "poll"
            BY <1>7 DEF Poll, memory
      <2>2. \/ h'.pc = "poll"
            \/ /\ h'.sym = s /\ h'.candle = NextCandle(s) /\ h'.upto = now
               /\ NextCandle(s) <= now
               /\ NextCandle(s) >= last[s] + 1 /\ NextCandle(s) >= now - Window + 1
            BY <1>0, <1>7, <1>n, PlacesOf, RunnerAssumption
            DEF Poll, OnClose, At, NextCandle, Later
      <2>3. h'.pc # "down"
            BY <1>7, PlacesOf DEF Poll
      <2>4. \A t \in Active : DueFor(h, last, t, entry[t].sym) = last[entry[t].sym] + 1
            BY <2>1 DEF DueFor
      <2>5. h'.candle \in Nat
            BY <1>n DEF TypeOK, Placed, Locals
      <2>6. \A t \in Active : DueFor(h', last', t, entry[t].sym)
                                >= last[entry[t].sym] + 1
            <3>1. \A t \in Active : last[entry[t].sym] \in Nat
                  BY <1>0, <1>n, <1>s
            <3>2. QED
                  BY <1>s, <2>1, <2>2, <2>5, <3>1 DEF DueFor
      <2>7. h'.pc \notin {"down", "poll"} =>
               /\ h'.candle <= now /\ h'.upto <= now
               /\ \A t \in open : entry[t].sym = h'.sym =>
                    entry[t].candle <= h'.candle + (Window - 1)
            <3>1. \A t \in open : entry[t].candle \in Nat /\ entry[t].candle <= now
                  BY <1>0, <1>n DEF Books, TypeOK, Bounded
            <3>2. QED
                  BY <1>0, <1>n, <2>2, <2>5, <3>1, RunnerAssumption
      <2>8. QED
            BY <1>1, <2>1, <2>3, <2>4, <2>6, <2>7
<1>8. CASE CycleDone
      <2>1. /\ h.pc = "poll" /\ h'.pc = "poll" /\ disk' = [disk EXCEPT !.last = last]
            /\ UNCHANGED <<open, closed, held, entry, last, now, stops>>
            BY <1>8, WriteSucceeds, PlacesOf DEF CycleDone, memory
      <2>2. disk'.positions = disk.positions
            BY <1>0, <2>1 DEF Tables
      <2>3. \A t \in Active : DueFor(h', last', t, entry[t].sym)
                                >= DueFor(h, last, t, entry[t].sym)
            BY <1>d, <1>s, <2>1 DEF DueFor
      <2>4. QED
            BY <1>1, <2>1, <2>2, <2>3
\* A step that leaves the place, or moves on within the candle.
<1>9. ASSUME UNCHANGED <<open, closed, held, entry, now, stops, last>>,
             disk'.positions = disk.positions, h.pc # "down",
             \/ h' = h
             \/ /\ h.pc \notin {"down", "poll"} /\ h'.pc \notin {"down", "poll"}
                /\ h'.sym = h.sym /\ h'.candle = h.candle /\ h'.upto = h.upto
                /\ \A t \in Active : h'.pc \in Managing /\ t \in h'.left
                                       => h.pc \in Managing /\ t \in h.left
      PROVE  Bounded'
      <2>1. \A t \in Active : DueFor(h', last', t, entry[t].sym)
                                >= DueFor(h, last, t, entry[t].sym)
            <3>1. h.candle \in Nat
                  BY <1>0, <1>n DEF Placed, Locals
            <3>2. CASE h' = h
                  BY <1>9, <1>d, <1>s, <3>2
            <3>3. CASE h' # h
                  <4>1. ASSUME NEW t \in Active
                        PROVE  DueFor(h', last', t, entry[t].sym)
                                 >= DueFor(h, last, t, entry[t].sym)
                        <5>1. CASE entry[t].sym = h.sym
                              BY <1>9, <3>1, <3>3, <5>1 DEF DueFor
                        <5>2. CASE entry[t].sym # h.sym
                              <6>1. DueFor(h', last', t, entry[t].sym)
                                      = DueFor(h, last, t, entry[t].sym)
                                    BY <1>9, <3>3, <5>2 DEF DueFor
                              <6>2. QED
                                    BY <1>d, <1>s, <6>1
                        <5>3. QED
                              BY <5>1, <5>2
                  <4>2. QED
                        BY <4>1
            <3>4. QED
                  BY <3>2, <3>3
      <2>2. QED
            BY <1>1, <1>9, <2>1 DEF Bounded
<1>10. ASSUME NEW s \in Symbols, NEW active \in BOOLEAN, Liquidations(s, active)
       PROVE  Bounded'
      BY <1>9, <1>10 DEF Liquidations
<1>11. CASE RemovePosition
      <2>1. /\ h.pc = "remove"
            /\ UNCHANGED <<open, closed, held, entry, now, stops, last>>
            /\ disk' = [disk EXCEPT !.positions[h.trade] = None]
            /\ h' = [h EXCEPT !.pc = "save_equity"]
            BY <1>11, WriteSucceeds DEF RemovePosition, memory
      <2>2. /\ h'.pc = "save_equity" /\ h'.sym = h.sym /\ h'.candle = h.candle
            /\ h'.upto = h.upto /\ h'.left = h.left
            BY <1>0, <2>1 DEF Placed, Locals
      <2>3. \A t \in Rows(disk') : t \in Rows(disk)
                                   /\ disk'.positions[t] = disk.positions[t]
            BY <1>0, <2>1 DEF Rows, Tables
      <2>4. \A t \in Active : DueFor(h', last', t, entry[t].sym)
                                = DueFor(h, last, t, entry[t].sym)
            BY <2>1, <2>2 DEF DueFor, Managing
      <2>5. Active' = Active /\ now' >= now
            BY <1>0, <1>n, <2>1 DEF Active
      <2>6. \A t \in Active' : DueFor(h', last', t, entry[t].sym)
                                 >= DueFor(h, last, t, entry[t].sym)
            BY <1>d, <1>s, <2>4, <2>5
      <2>7. QED
            BY <1>a, <2>1, <2>2, <2>3, <2>5, <2>6, BoundedStays DEF Bounded
<1>12. CASE SaveEquity
      <2>1. /\ h.pc = "save_equity"
            /\ UNCHANGED <<open, closed, held, entry, now, stops, last>>
            /\ disk' = [disk EXCEPT !.equity = equity]
            /\ h' = [h EXCEPT !.pc = "exit_alert"]
            BY <1>12, WriteSucceeds DEF SaveEquity, memory
      <2>2. /\ h'.pc = "exit_alert" /\ h'.sym = h.sym /\ h'.candle = h.candle
            /\ h'.upto = h.upto /\ h'.left = h.left
            /\ disk'.positions = disk.positions
            BY <1>0, <2>1 DEF Placed, Locals, Tables
      <2>3. QED
            BY <1>9, <2>1, <2>2 DEF Managing
<1>13. CASE ExitAlerted
      <2>1. /\ h.pc = "exit_alert"
            /\ UNCHANGED <<open, closed, held, entry, now, stops, last, disk>>
            /\ h' = [h EXCEPT !.pc = "manage", !.left = @ \ {h.trade}, !.trade = None]
            BY <1>13 DEF ExitAlerted, memory
      <2>2. /\ h'.pc = "manage" /\ h'.sym = h.sym /\ h'.candle = h.candle
            /\ h'.upto = h.upto /\ h'.left \subseteq h.left
            BY <1>0, <2>1 DEF Placed, Locals
      <2>3. QED
            BY <1>9, <2>1, <2>2 DEF Managing
<1>14. CASE Signal
      <2>1. /\ h.pc = "entry"
            /\ UNCHANGED <<open, closed, held, entry, now, stops, last>>
            /\ disk' = [disk EXCEPT !.dups = @ \cup {<<h.sym, h.candle>>}]
            /\ h' = [h EXCEPT !.pc = "signal"]
            BY <1>14, WriteSucceeds DEF Signal
      <2>2. /\ h'.pc = "signal" /\ h'.sym = h.sym /\ h'.candle = h.candle
            /\ h'.upto = h.upto /\ disk'.positions = disk.positions
            BY <1>0, <2>1 DEF Placed, Locals, Tables
      <2>3. QED
            BY <1>9, <2>1, <2>2 DEF Managing
<1>15. CASE Managed
      <2>1. /\ h.pc = "manage" /\ h.left = {}
            /\ open' = open \ closed /\ closed' = {}
            /\ UNCHANGED <<held, entry, now, stops, last, disk>>
            /\ h' = [h EXCEPT !.pc = "entry"]
            BY <1>15 DEF Managed, Kept
      <2>2. /\ h'.pc = "entry" /\ h'.sym = h.sym /\ h'.candle = h.candle
            /\ h'.upto = h.upto
            BY <1>0, <2>1 DEF Placed, Locals
      <2>3. Active' = Active /\ now' >= now
            BY <1>0, <1>n, <2>1 DEF Active
      <2>4. \A t \in Active : DueFor(h', last', t, entry[t].sym)
                                = DueFor(h, last, t, entry[t].sym)
            BY <2>1, <2>2 DEF DueFor, Managing
      <2>5. \A t \in Active' : DueFor(h', last', t, entry[t].sym)
                                 >= DueFor(h, last, t, entry[t].sym)
            BY <1>d, <1>s, <2>3, <2>4
      <2>6. QED
            BY <1>a, <2>1, <2>2, <2>3, <2>5, BoundedStays DEF Bounded
\* The next candle is one later.
<1>16. CASE NoEntry \/ SignalDropped \/ EntryAlerted
      <2>1. /\ h.pc \in {"entry", "signal", "entry_alert"} /\ CandleDone
            /\ UNCHANGED <<open, closed, held, entry, now, stops, disk>>
            BY <1>16 DEF NoEntry, SignalDropped, EntryAlerted
      <2>2. h.sym \in Symbols /\ h.candle \in Nat /\ h.upto \in Nat /\ now \in Nat
            BY <1>0, <1>n, <2>1 DEF Placed, Locals
      <2>3. last'[h.sym] = h.candle /\ \A s \in Symbols \ {h.sym} : last'[s] = last[s]
            BY <1>0, <2>1, <2>2 DEF CandleDone
      <2>4. \/ h'.pc = "poll"
            \/ /\ h'.sym = h.sym /\ h'.candle = h.candle + 1 /\ h'.upto = h.upto
               /\ h.candle < h.upto
            BY <2>1, PlacesOf DEF CandleDone, OnClose, At
      <2>5. h'.pc # "down"
            BY <2>1, PlacesOf
      <2>6. ASSUME NEW t \in Active
            PROVE  DueFor(h', last', t, entry[t].sym)
                     >= DueFor(h, last, t, entry[t].sym)
            <3>1. CASE entry[t].sym = h.sym
                  <4>1. DueFor(h, last, t, entry[t].sym) = h.candle + 1
                        BY <2>1, <3>1 DEF DueFor, Managing
                  <4>2. DueFor(h', last', t, entry[t].sym)
                          \in {h.candle + 1, h.candle + 1 + 1}
                        BY <2>2, <2>3, <2>4, <3>1 DEF DueFor
                  <4>3. QED
                        BY <2>2, <4>1, <4>2
            <3>2. CASE entry[t].sym # h.sym
                  <4>1. DueFor(h', last', t, entry[t].sym)
                          = DueFor(h, last, t, entry[t].sym)
                        BY <1>s, <2>1, <2>3, <2>4, <3>2 DEF DueFor
                  <4>2. QED
                        BY <1>d, <1>s, <4>1
            <3>3. QED
                  BY <3>1, <3>2
      <2>7. h'.pc \notin {"down", "poll"} =>
               /\ h'.candle <= now /\ h'.upto <= now
               /\ \A t \in open : entry[t].sym = h'.sym =>
                    entry[t].candle <= h'.candle + (Window - 1)
            <3>1. /\ h.upto <= now
                  /\ \A t \in open : entry[t].sym = h.sym =>
                       entry[t].candle <= h.candle + (Window - 1)
                  BY <2>1 DEF Bounded
            <3>2. \A t \in open : entry[t].candle \in Nat
                  BY <1>0, <1>n DEF Books, TypeOK
            <3>3. QED
                  BY <2>2, <2>4, <3>1, <3>2, RunnerAssumption
      <2>8. QED
            BY <1>1, <2>1, <2>5, <2>6, <2>7
\* A candle older than the entry was counted beforehand; after any other one
\* a position that is kept is under max_hold_bars.
<1>17. ASSUME NEW t \in Uuids, Hold(t) PROVE Bounded'
      <2> DEFINE row == held[t] + 1
      <2>1. /\ h.pc = "manage" /\ t \in h.left
            /\ UNCHANGED <<open, closed, entry, now, stops, last>>
            /\ held' = [held EXCEPT ![t] = row]
            /\ disk' = [disk EXCEPT !.positions[t] = row]
            /\ h' = [h EXCEPT !.left = @ \ {t}]
            BY <1>17, WriteSucceeds DEF Hold
      <2>2. /\ h'.pc = "manage" /\ h'.sym = h.sym /\ h'.candle = h.candle
            /\ h'.upto = h.upto /\ h'.left = h.left \ {t}
            /\ h.candle \in Nat /\ h.sym \in Symbols
            BY <1>0, <1>n, <2>1 DEF Placed, Locals
      <2>3. t \in Active /\ entry[t].sym = h.sym
            BY <1>0, <2>1, RunnerAssumption DEF Owned, Managing, Books, Active
      <2>4. Active' = Active /\ Cap' = Cap
            BY <2>1 DEF Active, Cap
      <2>5. DueFor(h, last, t, h.sym) = h.candle /\ DueFor(h', last', t, h.sym) = h.candle + 1
            BY <2>1, <2>2 DEF DueFor, Managing
      <2>6. \A u \in Active : u # t => DueFor(h', last', u, entry[u].sym)
                                         = DueFor(h, last, u, entry[u].sym)
            BY <2>1, <2>2 DEF DueFor, Managing
      <2>7. /\ entry[t].candle \in Nat /\ held[t] \in Nat
            /\ entry[t].candle <= h.candle + (Window - 1)
            BY <1>0, <1>s, <2>1, <2>3 DEF Bounded, Active
      <2>8. ASSUME NEW k \in 0..(Window - 1),
                   k = 0 \/ entry[t].candle >= (h.candle + 1) + k
            PROVE  row + k < Cap
            <3>1. CASE h.candle < entry[t].candle
                  <4>1. k + 1 \in 0..(Window - 1)
                        BY <2>2, <2>7, <2>8, <3>1, RunnerAssumption
                  <4>2. entry[t].candle >= h.candle + (k + 1)
                        BY <2>2, <2>7, <2>8, <3>1
                  <4>3. held[t] + (k + 1) < Cap
                        BY <2>1, <2>3, <2>5, <4>1, <4>2 DEF Bounded
                  <4>4. QED
                        BY <1>c, <2>7, <4>3
            <3>2. CASE ~(h.candle < entry[t].candle)
                  <4>1. "hold" \in Decisions(st[h.sym], held[t] + 1)
                        BY <1>17, <3>2 DEF Hold
                  <4>2. st[h.sym].in_trade
                        BY <2>3 DEF Owned
                  <4>3. ~(held[t] + 1 >= MaxHold)
                        BY <4>1, <4>2 DEF Decisions
                  <4>4. k = 0
                        BY <2>2, <2>7, <2>8, <3>2
                  <4>5. QED
                        BY <1>c, <2>7, <4>3, <4>4
            <3>3. QED
                  BY <3>1, <3>2
      <2>9. row < Cap
            <3>1. row + 0 < Cap
                  BY <2>8, RunnerAssumption
            <3>2. QED
                  BY <2>7, <3>1
      <2>10. \A u \in Uuids :
                /\ held'[u] = IF u = t THEN row ELSE held[u]
                /\ disk'.positions[u] = IF u = t THEN row ELSE disk.positions[u]
            BY <1>0, <2>1 DEF Tables
      <2> HIDE DEF row
      <2>11. \A u \in Rows(disk') : disk'.positions[u] < Cap
            BY <2>9, <2>10 DEF Rows, Bounded
      <2>12. ASSUME NEW u \in Active, NEW k \in 0..(Window - 1),
                    k = 0 \/ entry[u].candle >= DueFor(h', last', u, entry[u].sym) + k
             PROVE  held'[u] + k < Cap
            <3>1. CASE u = t
                  BY <2>3, <2>5, <2>8, <2>10, <2>12, <3>1
            <3>2. CASE u # t
                  <4>1. held'[u] = held[u]
                        BY <1>0, <2>10, <3>2 DEF Active
                  <4>2. QED
                        BY <2>1, <2>6, <2>12, <3>2, <4>1 DEF Bounded
            <3>3. QED
                  BY <3>1, <3>2
      <2>13. h.candle <= now /\ h.upto <= now
             /\ \A u \in open : entry[u].sym = h.sym =>
                  entry[u].candle <= h.candle + (Window - 1)
            BY <2>1 DEF Bounded
      <2>14. \A u \in Uuids : entry[u] # None => entry[u].candle <= now
            BY DEF Bounded
      <2>15. QED
            BY <2>1, <2>2, <2>4, <2>11, <2>12, <2>13, <2>14 DEF Bounded
\* What is closed is no longer held.
<1>18. ASSUME NEW t \in Uuids, NEW d \in Reasons, Close(t, d) PROVE Bounded'
      <2> DEFINE trade == [reason |-> d, candle |-> h.candle]
      <2>1. /\ h.pc = "manage" /\ t \in h.left
            /\ UNCHANGED <<open, entry, now, stops, last>>
            /\ closed' = closed \cup {t}
            /\ held' = [held EXCEPT ![t] = @ + 1]
            /\ disk' = [disk EXCEPT !.trades[t] = trade]
            /\ h' = [h EXCEPT !.pc = "remove", !.trade = t]
            BY <1>18, WriteSucceeds DEF Close
      <2> HIDE DEF trade
      <2>2. /\ h'.pc = "remove" /\ h'.sym = h.sym /\ h'.candle = h.candle
            /\ h'.upto = h.upto /\ h'.left = h.left
            BY <1>0, <2>1 DEF Placed, Locals
      <2>3. Active' \subseteq Active /\ t \notin Active' /\ now' >= now
            BY <1>0, <1>n, <2>1 DEF Active
      <2>4. \A u \in Active' : held'[u] = held[u]
            BY <1>0, <2>1, <2>3 DEF Active
      <2>5. Rows(disk') = Rows(disk) /\ disk'.positions = disk.positions
            BY <1>0, <2>1 DEF Rows, Tables
      <2>6. \A u \in Active' : DueFor(h', last', u, entry[u].sym)
                                 >= DueFor(h, last, u, entry[u].sym)
            <3>1. \A u \in Active' : DueFor(h', last', u, entry[u].sym)
                                       = DueFor(h, last, u, entry[u].sym)
                  BY <2>1, <2>2 DEF DueFor, Managing
            <3>2. QED
                  BY <1>d, <1>s, <2>3, <3>1
      <2>7. QED
            BY <1>a, <2>1, <2>2, <2>3, <2>4, <2>5, <2>6, BoundedStays DEF Bounded
\* A position is opened with no candle held and none older before it.
<1>19. ASSUME NEW t \in Uuids, Enter(t) PROVE Bounded'
      <2> DEFINE new == [sym |-> h.sym, candle |-> h.candle]
      <2>1. /\ h.pc = "signal" /\ entry[t] = None
            /\ UNCHANGED <<closed, now, stops, last>> /\ open' = open \cup {t}
            /\ entry' = [entry EXCEPT ![t] = new]
            /\ held' = [held EXCEPT ![t] = 0]
            /\ disk' = [disk EXCEPT !.positions[t] = 0]
            /\ h' = [h EXCEPT !.pc = "entry_alert", !.trade = t]
            BY <1>19, WriteSucceeds DEF Enter
      <2>2. /\ h'.pc = "entry_alert" /\ h'.sym = h.sym /\ h'.candle = h.candle
            /\ h'.upto = h.upto /\ h.candle \in Nat /\ h.sym \in Symbols
            BY <1>0, <1>n, <2>1 DEF Placed, Locals
      <2>3. /\ \A u \in Uuids : entry'[u] = IF u = t THEN new ELSE entry[u]
            /\ new.sym = h.sym /\ new.candle = h.candle
            BY <2>1 DEF TypeOK
      <2> HIDE DEF new
      <2>4. \A u \in Uuids :
               /\ held'[u] = IF u = t THEN 0 ELSE held[u]
               /\ disk'.positions[u] = IF u = t THEN 0 ELSE disk.positions[u]
            BY <1>0, <2>1 DEF Tables
      <2>5. Active' \subseteq Active \cup {t} /\ t \notin open /\ Cap' = Cap
            BY <2>1 DEF Active, Cap, Books
      <2>6. \A u \in Active : DueFor(h', last', u, entry[u].sym)
                                = DueFor(h, last, u, entry[u].sym)
            BY <2>1, <2>2 DEF DueFor, Managing
      <2>7. DueFor(h', last', t, h.sym) = h.candle + 1
            BY <2>1, <2>2 DEF DueFor, Managing
      <2>8. ASSUME NEW u \in Active', NEW k \in 0..(Window - 1),
                   k = 0 \/ entry'[u].candle >= DueFor(h', last', u, entry'[u].sym) + k
            PROVE  held'[u] + k < Cap
            <3>1. CASE u = t
                  <4>1. k = 0
                        BY <1>0, <2>2, <2>3, <2>7, <2>8, <3>1, RunnerAssumption
                  <4>2. QED
                        BY <1>c, <2>4, <3>1, <4>1
            <3>2. CASE u # t
                  <4>1. u \in Active /\ u \in Uuids
                        BY <1>0, <2>5, <3>2 DEF Active
                  <4>2. QED
                        BY <2>1, <2>3, <2>4, <2>6, <2>8, <3>2, <4>1 DEF Bounded
            <3>3. QED
                  BY <3>1, <3>2
      <2>9. \A u \in Rows(disk') : disk'.positions[u] < Cap
            BY <1>c, <2>4 DEF Rows, Bounded
      <2>10. h.candle <= now /\ h.upto <= now
             /\ \A u \in open : entry[u].sym = h.sym =>
                  entry[u].candle <= h.candle + (Window - 1)
            BY <2>1 DEF Bounded
      <2>11. \A u \in Uuids : entry'[u] # None => entry'[u].candle <= now
            BY <2>3, <2>10 DEF Bounded
      <2>12. \A u \in open' : entry'[u].sym = h.sym =>
                entry'[u].candle <= h.candle + (Window - 1)
            <3>1. h.candle <= h.candle + (Window - 1)
                  BY <2>2, RunnerAssumption
            <3>2. QED
                  BY <1>0, <2>1, <2>3, <2>10, <3>1
      <2>13. QED
            BY <2>1, <2>2, <2>5, <2>8, <2>9, <2>10, <2>11, <2>12 DEF Bounded
<1>20. CASE UNCHANGED vars
      BY <1>20 DEF vars, memory, Bounded, Active, Cap
<1>21. QED
      BY <1>2, <1>4, <1>5, <1>6, <1>7, <1>8, <1>10, <1>11, <1>12, <1>13, <1>14,
         <1>15, <1>16, <1>17, <1>18, <1>19, <1>20, ManageSucceeds
      DEF Next, Loop

\* With max_per_symbol 1 and unless a statement or the engine failed, a position is held for
\* less than max_hold_bars candles that the engine looked at, and each end of
\* the process adds at most the older candles of one request
\* (v5_forward_test.py, _manage_positions).
THEOREM HoldBoundedAlways ==
    ASSUME MaxPerSymbol <= 1
    PROVE  Spec => []HoldBounded
<1> DEFINE Inv == /\ TypeOK /\ Recording
                  /\ errors = 0 => Books /\ Sized /\ Owned /\ Bounded
<1>1. Init => Inv
      <2> SUFFICES ASSUME Init PROVE Inv
          OBVIOUS
      <2>1. Recording /\ Books
            BY PlacesOf
            DEF Init, Recording, Books, Managing, NoEquity, EmptyTables
      <2>2. /\ Rows(disk) = {} /\ open = {} /\ closed = {} /\ h.pc = "down"
            /\ \A t \in Uuids : entry[t] = None
            BY PlacesOf DEF Init, Rows, EmptyTables
      <2>3. Fits({}, entry)
            BY FS_EmptySet, RunnerAssumption DEF Fits
      <2>4. Sized /\ Owned /\ Bounded
            BY <2>2, <2>3 DEF Sized, Owned, Bounded, Active, Managing
      <2>5. QED
            BY <2>1, <2>4, TypeInit
<1>2. Inv /\ [Next]_vars => Inv'
      <2> SUFFICES ASSUME Inv, [Next]_vars PROVE Inv'
          OBVIOUS
      <2>1. TypeOK' /\ Recording'
            BY TypeStep, RecordingStep
      <2>2. ASSUME errors' = 0 PROVE Books' /\ Sized' /\ Owned' /\ Bounded'
            <3>1. errors = 0
                  BY <2>2, ErrorsGrow
            <3>2. Books'
                  BY <2>2, <3>1, BooksStep
            <3>3. Sized' /\ Owned'
                  BY <2>1, <2>2, <3>1, <3>2, SizedStep, OwnedStep
            <3>4. Bounded'
                  BY <2>1, <2>2, <3>1, <3>2, BoundedStep
            <3>5. QED
                  BY <3>2, <3>3, <3>4
      <2>3. QED
            BY <2>1, <2>2
<1>3. Inv => HoldBounded
      <2> SUFFICES ASSUME Inv, errors = 0, NEW t \in Active PROVE held[t] < Cap
          BY DEF HoldBounded, Cap
      <2>1. open = {} => FALSE
            BY DEF Active
      <2>2. h.pc # "down"
            BY <2>1 DEF Books
      <2>3. held[t] + 0 < Cap
            BY <2>2, RunnerAssumption DEF Bounded
      <2>4. held[t] \in Nat
            BY DEF TypeOK, Active
      <2>5. QED
            BY <2>3, <2>4
<1>4. QED
      BY <1>1, <1>2, <1>3, PTL DEF Spec

=============================================================================
