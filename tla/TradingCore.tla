----------------------------- MODULE TradingCore -----------------------------
(***************************************************************************)
(* The trading loop: the candle handler of main.py with the position and   *)
(* order managers it calls, the reconciliation task, /flatten, the other   *)
(* Telegram commands, and the exchange they act on.                        *)
(*                                                                         *)
(* The tasks are coroutines of one event loop: a step of the model is what *)
(* a task runs from one await to the next, so each await is a place where  *)
(* the other tasks, the exchange or a crash come in between.               *)
(*                                                                         *)
(* Quantities are numbers of step sizes.  All positions are on one side,   *)
(* and max_per_symbol is 1 as configured, so "max per symbol" and "no      *)
(* duplicate" are one condition.  Prices, indicators and signals are       *)
(* abstracted to the decisions taken from them.  Every change of a         *)
(* position in memory is followed by save_position with no await between,  *)
(* and the writer queue is FIFO, so one step changes both; but a statement *)
(* may fail, which raises in the task that waits for it: then the table    *)
(* keeps the old row and the task ends where it is.  A crash before the    *)
(* commit leaves the same behind.                                          *)
(***************************************************************************)
EXTENDS Integers, FiniteSets, Lifecycle

CONSTANTS
    Sym,          \* the active symbols
    OwnIds,       \* trade uuids of signals (a bound on the entry attempts)
    None,         \* no symbol, no position
    MaxOpen,      \* max_concurrent_positions
    MaxQty,       \* bound: the quantity of an entry, or of a user's trade
    Answers,      \* how orders may end besides being filled (see Outcomes)
    BrakeKinds,   \* the brakes that may be set: "paused", "limit"
    MaxUser,      \* bound: trades on the exchange that are not the bot's
    Stops,        \* how the process may end: "crash", "graceful"
    MaxStops,     \* bound: ends of the process
    MaxFails,     \* bound: statements that fail
    MaxLost,      \* bound: requests whose answer is lost
    MaxFlattens   \* bound: confirmed /flatten commands

Ids == OwnIds \cup Sym   \* an external position is named by its symbol

ASSUME CoreAssumption ==
    /\ OwnIds \cap Sym = {} /\ None \notin Ids
    /\ IsFiniteSet(OwnIds) /\ IsFiniteSet(Sym)
    /\ MaxOpen \in Nat /\ MaxQty \in Nat
    /\ MaxUser \in Nat /\ MaxStops \in Nat /\ MaxFlattens \in Nat
    /\ MaxFails \in Nat /\ MaxLost \in Nat
    /\ Answers \subseteq {"rejected", "partial", "new"}
    /\ BrakeKinds \subseteq {"paused", "limit"}
    /\ Stops \subseteq {"crash", "graceful"}

VARIABLES
    exch,     \* exchange: size of the position of each symbol
    order,    \* exchange: the unfilled rest of each symbol's order
    pos,      \* PositionManager._positions
    rows,     \* the positions table
    signals,  \* uuids of the signals acted upon (the signals table)
    booked,   \* observation: calls of record_trade_result for each trade
    brakes,   \* BrakeManager.state: what blocks entries
    kept,     \* the brake_state row
    h,        \* the candle handler
    r,        \* the reconciliation pass
    f,        \* _flatten_all
    spent     \* how much of the bounds is used up

vars == <<exch, order, pos, rows, signals, booked, brakes, kept, h, r, f, spent>>

world == <<exch, order>>
positions == <<pos, rows>>
ledger == <<signals, booked>>
control == <<brakes, kept>>

Order == [left : Nat, reduce : BOOLEAN, by : {"none", "handler", "flatten"}]

Position ==
    [sym : Sym \cup {None}, state : PositionState \cup {"NONE"},
     qty : Int, tp1 : BOOLEAN]

Handler ==
    [pc : {"idle", "manage", "wait", "answered", "record", "entry", "unfilled", "last"},
     why : {"none", "tp", "close", "entry"},   \* what the order is for
     sym : Sym \cup {None}, cur : OwnIds \cup {None}, ans : Nat,
     todo : SUBSET OwnIds, closed : SUBSET OwnIds]

Pass ==
    [pc : {"idle", "got", "work"}, snap : [Sym -> Nat],
     map : [Sym -> Ids \cup {None}], todo : SUBSET Sym]

Flatten ==
    [pc : {"idle", "close", "mark"}, cur : Ids \cup {None}, todo : SUBSET Ids]

Spent == [user : Nat, stop : Nat, flatten : Nat, fail : Nat, lost : Nat]

NoPosition == [sym |-> None, state |-> "NONE", qty |-> 0, tp1 |-> FALSE]

NoOrder == [left |-> 0, reduce |-> FALSE, by |-> "none"]

HandlerIdle ==
    [pc |-> "idle", why |-> "none", sym |-> None, cur |-> None, ans |-> 0,
     todo |-> {}, closed |-> {}]

PassIdle ==
    [pc |-> "idle", snap |-> [s \in Sym |-> 0], map |-> [s \in Sym |-> None],
     todo |-> {}]

FlattenIdle == [pc |-> "idle", cur |-> None, todo |-> {}]

IsOpen(i) == pos[i].state # "NONE" /\ pos[i].state \notin Terminal

OpenOn(s) == {i \in Ids : IsOpen(i) /\ pos[i].sym = s}

OwnOpen == {u \in OwnIds : IsOpen(u)}

Least(a, b) == IF a <= b THEN a ELSE b

Init ==
    /\ exch = [s \in Sym |-> 0]
    /\ order = [s \in Sym |-> NoOrder]
    /\ pos = [i \in Ids |-> NoPosition] /\ rows = pos
    /\ signals = {} /\ booked = [u \in OwnIds |-> 0]
    /\ brakes = {} /\ kept = {}
    /\ h = HandlerIdle /\ r = PassIdle /\ f = FlattenIdle
    /\ spent = [user |-> 0, stop |-> 0, flatten |-> 0, fail |-> 0, lost |-> 0]

-----------------------------------------------------------------------------
(* The database *)

Saved(i) == rows' = [rows EXCEPT ![i] = pos'[i]] /\ UNCHANGED spent

WriteFails == spent.fail < MaxFails /\ spent' = [spent EXCEPT !.fail = @ + 1]

NotSaved == WriteFails /\ UNCHANGED rows

-----------------------------------------------------------------------------
(* The exchange *)

CanLose == spent.lost < MaxLost

Loses == CanLose /\ spent' = [spent EXCEPT !.lost = @ + 1]

\* How an order for m may end: what of it is done, what the executor reports
\* as filled, and what is left on the book.  It is filled; rejected; NEW, with
\* all of it still to be filled; or filled in part.  When an answer is lost, the
\* request is sent again and may have been executed twice (a bound: the code
\* sends it three times), its answer may be an error although it was executed,
\* or the task gets an exception: of the request, or of the save_order that
\* follows it.  One unfinished order per symbol is followed (a bound).
Outcomes(m, s) ==
    {o \in [kind : {"answer", "partial", "lost"}, done : 0..(2 * m), got : 0..m,
            left : 0..m] :
        \/ o.kind = "answer" /\ o.done = m /\ o.got = m /\ o.left = 0
        \/ o.kind = "answer" /\ o.done + o.got + o.left = 0 /\ "rejected" \in Answers
        \/ /\ o.kind = "answer" /\ o.done + o.got = 0 /\ o.left = m
           /\ "new" \in Answers /\ order[s] = NoOrder
        \/ /\ o.kind = "partial" /\ o.done = o.got /\ o.got > 0 /\ o.left > 0
           /\ o.got + o.left = m /\ "partial" \in Answers /\ order[s] = NoOrder
        \/ /\ o.kind = "answer" /\ o.done \in {m, 2 * m} /\ o.got \in {0, m} /\ o.left = 0
           /\ CanLose
        \/ o.kind = "lost" /\ o.done \in {0, m, 2 * m} /\ o.got + o.left = 0 /\ CanLose
        \/ /\ o.kind = "lost" /\ o.left > 0 /\ o.done + o.left = m /\ o.got = 0
           /\ CanLose /\ order[s] = NoOrder}

\* The answer was lost if it is missing or does not tell what was done.
Lost(o) == o.kind = "lost" \/ o.done # o.got

\* Mutant of Execute: the order is not reduce-only.
ExecuteAny(task, s, o, reduce) ==
    /\ exch' = [exch EXCEPT ![s] = IF reduce THEN @ - o.done ELSE @ + o.done]
    /\ order' = IF o.left = 0 THEN order
                ELSE [order EXCEPT ![s] = [left |-> o.left, reduce |-> reduce,
                                           by |-> task]]
    /\ spent' = IF Lost(o) THEN [spent EXCEPT !.lost = @ + 1] ELSE spent

\* The exchange executes an order of a task on s with outcome o.
Execute(task, s, o, reduce) ==
    /\ exch' = [exch EXCEPT ![s] = IF reduce THEN @ - Least(o.done, @) ELSE @ + o.done]
    /\ order' = IF o.left = 0 THEN order
                ELSE [order EXCEPT ![s] = [left |-> o.left, reduce |-> reduce,
                                           by |-> task]]
    /\ spent' = IF Lost(o) THEN [spent EXCEPT !.lost = @ + 1] ELSE spent

\* A reduce-only order can close no more than there is.
Closable(s, q) == IF q <= 0 THEN 0 ELSE Least(q, exch[s])

\* Some of a resting order is filled.
ExchangeFill(s, k) ==
    /\ k <= order[s].left
    /\ exch' = [exch EXCEPT ![s] =
                  IF order[s].reduce THEN @ - Least(k, @) ELSE @ + k]
    /\ order' = [order EXCEPT ![s] =
                   IF k = @.left THEN NoOrder
                             ELSE [@ EXCEPT !.left = order[s].left - k]]
    /\ UNCHANGED <<positions, ledger, control, h, r, f, spent>>

\* The exchange drops what is left of an order.
ExchangeExpire(s) ==
    /\ order[s].left > 0
    /\ order' = [order EXCEPT ![s] = NoOrder]
    /\ UNCHANGED <<exch, positions, ledger, control, h, r, f, spent>>

\* A manual trade, or a liquidation.
UserTrade(s, q) ==
    /\ spent.user < MaxUser /\ q # exch[s]
    /\ exch' = [exch EXCEPT ![s] = q]
    /\ spent' = [spent EXCEPT !.user = @ + 1]
    /\ UNCHANGED <<order, positions, ledger, control, h, r, f>>

-----------------------------------------------------------------------------
(* The candle handler: manage_on_candle_close *)

\* CandleManager holds its lock while it emits CANDLE_CLOSED, so one handler
\* runs at a time.  It manages the symbol's positions that are not external.
CandleClosed(s) ==
    /\ h.pc = "idle"
    /\ h' = [HandlerIdle EXCEPT !.pc = "manage", !.sym = s,
                                !.todo = {u \in OwnOpen : pos[u].sym = s}]
    /\ UNCHANGED <<world, positions, ledger, control, r, f, spent>>

Managing(u) == h.pc = "manage" /\ u \in h.todo

\* Closed by another task since the loop began.
SkipClosed(u) ==
    /\ Managing(u) /\ ~IsOpen(u)
    /\ h' = [h EXCEPT !.todo = @ \ {u}]
    /\ UNCHANGED <<world, positions, ledger, control, r, f, spent>>

\* No exit is due, or the take-profit rounds to zero: trail and save.
Hold(u) ==
    /\ Managing(u) /\ IsOpen(u)
    /\ pos' = [pos EXCEPT ![u].state = IF pos[u].tp1 THEN AfterTrail(@) ELSE @]
    /\ \/ Saved(u) /\ h' = [h EXCEPT !.todo = @ \ {u}]
       \/ NotSaved /\ h' = HandlerIdle
    /\ UNCHANGED <<world, ledger, control, r, f>>

\* execute_exit: the order is executed and its result is on the way back; a
\* partial fill is waited for, an exception ends the handler.
SendExit(u, q, why) ==
    \E o \in Outcomes(Closable(h.sym, q), h.sym) :
        /\ Execute("handler", h.sym, o, TRUE)
        /\ h' = IF o.kind = "lost" THEN HandlerIdle
                ELSE [h EXCEPT !.pc = IF o.kind = "partial" THEN "wait"
                                      ELSE "answered",
                               !.why = why, !.cur = u, !.ans = o.got,
                               !.todo = @ \ {u}]
        /\ UNCHANGED <<positions, ledger, control, r, f>>

TakeProfit(u) ==
    /\ Managing(u) /\ IsOpen(u)
    /\ ~pos[u].tp1 /\ pos[u].qty \div 2 > 0
    /\ SendExit(u, pos[u].qty \div 2, "tp")

\* The time stop or the stop price.
CloseOut(u) ==
    /\ Managing(u) /\ IsOpen(u)
    /\ pos[u].qty > 0
    /\ SendExit(u, pos[u].qty, "close")

\* execute_exit returns None for a quantity that rounds to zero.
CloseNothing(u) ==
    /\ Managing(u) /\ IsOpen(u)
    /\ pos[u].qty <= 0
    /\ h' = [h EXCEPT !.todo = @ \ {u}]
    /\ UNCHANGED <<world, positions, ledger, control, r, f, spent>>

\* _handle_partial_fill: after the timeout the rest is cancelled; a cancel that
\* is refused is only logged.  The result keeps the quantity of the first answer.
CancelRemainder ==
    /\ h.pc = "wait"
    /\ \/ order' = [order EXCEPT ![h.sym] = IF @.by = "handler" THEN NoOrder ELSE @]
       \/ "rejected" \in Answers /\ UNCHANGED order
    /\ h' = [h EXCEPT !.pc = "answered"]
    /\ UNCHANGED <<exch, positions, ledger, control, r, f, spent>>

\* The cancel request raises: the handler ends, the order may stay.
CancelLost ==
    /\ h.pc = "wait" /\ Loses
    /\ h' = HandlerIdle
    /\ UNCHANGED <<world, positions, ledger, control, r, f>>

Answered(why) == h.pc = "answered" /\ h.why = why

BackToManaging ==
    [h EXCEPT !.pc = "manage", !.why = "none", !.cur = None, !.ans = 0]

TakeProfitAnswered ==
    LET u == h.cur IN
    /\ Answered("tp")
    /\ pos' = IF h.ans = 0 THEN pos
              ELSE [pos EXCEPT ![u].qty = @ - h.ans, ![u].tp1 = TRUE,
                               ![u].state = AfterTrail(AfterTakeProfit(@))]
    /\ \/ Saved(u) /\ h' = BackToManaging
       \/ NotSaved /\ h' = HandlerIdle
    /\ UNCHANGED <<world, ledger, control, r, f>>

\* Mutant of CloseAnswered: the record of the trade is not collected.
CloseAnsweredUnlisted ==
    /\ Answered("close") /\ h.ans > 0
    /\ pos' = [pos EXCEPT ![h.cur].state = AfterClose(@)]
    /\ Saved(h.cur) /\ h' = BackToManaging
    /\ UNCHANGED <<world, ledger, control, r, f>>

\* _close_position with a fill, of any part: the position is CLOSED.  It is
\* saved, then the trade record is; either may fail.
CloseAnswered ==
    /\ Answered("close") /\ h.ans > 0
    /\ pos' = [pos EXCEPT ![h.cur].state = AfterClose(@)]
    /\ \/ Saved(h.cur) /\ h' = [BackToManaging EXCEPT !.closed = @ \cup {h.cur}]
       \/ NotSaved /\ h' = HandlerIdle
       \/ /\ WriteFails /\ rows' = [rows EXCEPT ![h.cur] = pos'[h.cur]]
          /\ h' = HandlerIdle
    /\ UNCHANGED <<world, ledger, control, r, f>>

\* Mutant of CloseFailed: the state moves on before pnl_r is computed.
CloseFailedLate ==
    /\ Answered("close") /\ h.ans = 0
    /\ pos' = [pos EXCEPT ![h.cur].state = AfterClose(@)]
    /\ Saved(h.cur) /\ h' = HandlerIdle
    /\ UNCHANGED <<world, ledger, control, r, f>>

\* Nothing filled: pnl_r divides by zero and the exception ends the handler.
CloseFailed ==
    /\ Answered("close") /\ h.ans = 0
    /\ h' = HandlerIdle
    /\ UNCHANGED <<world, positions, ledger, control, r, f, spent>>

ManagedAll ==
    /\ h.pc = "manage" /\ h.todo = {}
    /\ h' = [h EXCEPT !.pc = "record"]
    /\ UNCHANGED <<world, positions, ledger, control, r, f, spent>>

-----------------------------------------------------------------------------
(* The candle handler: results and entry *)

\* Mutant of BookTrade: the record stays in the list.
BookTradeAgain(u) ==
    /\ h.pc = "record" /\ u \in h.closed
    /\ booked' = [booked EXCEPT ![u] = @ + 1]
    /\ kept' = brakes
    /\ UNCHANGED <<world, positions, signals, brakes, h, r, f, spent>>

\* record_trade_result and, for a loss, record_loss, which may reach a limit;
\* then the risk and the brake row are saved, or one of them fails.
BookTrade(u) ==
    /\ h.pc = "record" /\ u \in h.closed
    /\ booked' = [booked EXCEPT ![u] = @ + 1]
    /\ \E hit \in BOOLEAN :
          brakes' = IF hit /\ "limit" \in BrakeKinds THEN brakes \cup {"limit"} ELSE brakes
    /\ \/ kept' = brakes' /\ h' = [h EXCEPT !.closed = @ \ {u}] /\ UNCHANGED spent
       \/ WriteFails /\ kept' \in {kept, brakes'} /\ h' = HandlerIdle
    /\ UNCHANGED <<world, positions, signals, r, f>>

RecordedAll == h.pc = "record" /\ h.closed = {}

\* Mutant of CanOpen: the limit itself does not count.
CanOpenOneMore(s) ==
    /\ Cardinality({i \in Ids : IsOpen(i)}) <= MaxOpen
    /\ OpenOn(s) = {}

\* can_open
CanOpen(s) ==
    /\ Cardinality({i \in Ids : IsOpen(i)}) < MaxOpen
    /\ OpenOn(s) = {}

\* Brakes, regime filter or portfolio reject, there is no signal (left), or the
\* row of a signal cannot be written.
NoEntry ==
    /\ RecordedAll \/ h.pc = "unfilled"
    /\ h' = HandlerIdle
    /\ UNCHANGED <<world, positions, ledger, control, r, f, spent>>

\* check_entry_allowed and can_open; the spread, the balance, the signal row
\* and the leverage are awaited before the order of signal u is sent.
AllowEntry(u) ==
    /\ RecordedAll
    /\ brakes = {} /\ CanOpen(h.sym) /\ u \notin signals
    /\ signals' = signals \cup {u}
    /\ h' = [h EXCEPT !.pc = "entry", !.cur = u]
    /\ UNCHANGED <<world, positions, booked, control, r, f, spent>>

\* The other engine has a signal too (there are two): it is tried when the first
\* was not filled, without another look at the brakes and with the open
\* positions that were read before the first.
NextSignal(u) ==
    /\ h.pc = "unfilled" /\ u \notin signals
    /\ signals' = signals \cup {u}
    /\ h' = [h EXCEPT !.pc = "last", !.cur = u]
    /\ UNCHANGED <<world, positions, booked, control, r, f, spent>>

\* execute_entry: without a fill it returns None.
PlaceEntry(q) ==
    /\ h.pc \in {"entry", "last"}
    /\ \E o \in Outcomes(q, h.sym) :
          /\ Execute("handler", h.sym, o, FALSE)
          /\ \/ /\ o.kind # "lost" /\ o.got > 0
                /\ h' = [h EXCEPT !.pc = IF o.kind = "partial" THEN "wait"
                                         ELSE "answered",
                                  !.why = "entry", !.ans = o.got]
             \/ /\ o.kind # "lost" /\ o.got = 0 /\ h.pc = "entry"
                /\ h' = [h EXCEPT !.pc = "unfilled", !.cur = None]
             \/ /\ o.kind = "lost" \/ (o.got = 0 /\ h.pc = "last")
                /\ h' = HandlerIdle
    /\ UNCHANGED <<positions, ledger, control, r, f>>

\* The position is created and added.
AddPosition ==
    /\ Answered("entry")
    /\ pos' = [pos EXCEPT ![h.cur] = [sym |-> h.sym, state |-> Opened,
                                      qty |-> h.ans, tp1 |-> FALSE]]
    /\ Saved(h.cur) \/ NotSaved
    /\ h' = HandlerIdle
    /\ UNCHANGED <<world, ledger, control, r, f>>

HandlerStep ==
    \/ \E u \in OwnIds : \/ SkipClosed(u) \/ Hold(u) \/ TakeProfit(u)
                         \/ CloseOut(u) \/ CloseNothing(u) \/ BookTrade(u)
                         \/ AllowEntry(u) \/ NextSignal(u)
    \/ CancelRemainder \/ CancelLost
    \/ TakeProfitAnswered \/ CloseAnswered \/ CloseFailed \/ ManagedAll
    \/ NoEntry \/ (\E q \in 1..MaxQty : PlaceEntry(q))
    \/ AddPosition

-----------------------------------------------------------------------------
(* The reconciliation pass *)

\* The exchange answers get_positions; the answer is still to arrive.
Snapshot ==
    /\ r.pc = "idle"
    /\ r' = [PassIdle EXCEPT !.pc = "got", !.snap = exch]
    /\ UNCHANGED <<world, positions, ledger, control, h, f, spent>>

\* Three times 429: the client returns nothing, which passes for no position.  An
\* exception ends the pass before it did anything, and is no step.
EmptySnapshot ==
    /\ r.pc = "idle" /\ MaxLost > 0
    /\ r' = [PassIdle EXCEPT !.pc = "got"]
    /\ UNCHANGED <<world, positions, ledger, control, h, f, spent>>

\* local_map: per symbol one of its open positions (the last in dict order).
LocalMaps ==
    {m \in [Sym -> Ids \cup {None}] :
        \A s \in Sym : IF OpenOn(s) = {} THEN m[s] = None ELSE m[s] \in OpenOn(s)}

Listed(snap) == {s \in Sym : snap[s] > 0}

\* Unknown positions come first, then the quantities of the known ones.
Upcoming(map, todo) ==
    LET unknown == {s \in todo : map[s] = None}
    IN  IF unknown = {} THEN todo ELSE unknown

\* Mutant of Heal: an unknown position is only logged.
HealKnownOnly(s, i, qty) ==
    pos' = IF i = None THEN pos ELSE [pos EXCEPT ![i].qty = qty]

\* Mutant of Heal: a wrong quantity is only logged.
HealUnknownOnly(s, i, qty) ==
    pos' = IF i = None
           THEN [pos EXCEPT ![s] = [sym |-> s, state |-> Adopted, qty |-> qty,
                                    tp1 |-> FALSE]]
           ELSE pos

\* Mutant of Heal: a position the exchange lists is managed again.
HealReopens(s, i, qty) ==
    pos' = IF i = None
           THEN [pos EXCEPT ![s] = [sym |-> s, state |-> Adopted, qty |-> qty,
                                    tp1 |-> FALSE]]
           ELSE [pos EXCEPT ![i].qty = qty, ![i].state = "MANAGING"]

\* _handle_external_position, or the quantity of the local position.
Heal(s, i, qty) ==
    pos' = IF i = None
           THEN [pos EXCEPT ![s] = [sym |-> s, state |-> Adopted, qty |-> qty,
                                    tp1 |-> FALSE]]
           ELSE [pos EXCEPT ![i].qty = qty]

\* A position that changed is saved; a write that fails ends the pass.
SaveHealed(s, i, next) ==
    \/ /\ rows' = IF pos' = pos THEN rows
                  ELSE LET id == IF i = None THEN s ELSE i
                       IN [rows EXCEPT ![id] = pos'[id]]
       /\ r' = next /\ UNCHANGED spent
    \/ pos' # pos /\ NotSaved /\ r' = PassIdle

\* The answer arrives: the local positions are read and the first listed
\* symbol is dealt with.  Local positions the exchange does not list are only
\* logged.
Apply ==
    /\ r.pc = "got"
    /\ \E map \in LocalMaps :
         IF Listed(r.snap) = {} THEN r' = PassIdle /\ UNCHANGED <<positions, spent>>
         ELSE \E s \in Upcoming(map, Listed(r.snap)) :
                /\ Heal(s, map[s], r.snap[s])
                /\ SaveHealed(s, map[s], [r EXCEPT !.pc = "work", !.map = map,
                                                   !.todo = Listed(r.snap) \ {s}])
    /\ UNCHANGED <<world, ledger, control, h, f>>

\* The next symbol, with the map read at the beginning of the pass.
ApplyNext ==
    /\ r.pc = "work"
    /\ IF r.todo = {} THEN r' = PassIdle /\ UNCHANGED <<positions, spent>>
       ELSE \E s \in Upcoming(r.map, r.todo) :
              /\ Heal(s, r.map[s], r.snap[s])
              /\ SaveHealed(s, r.map[s], [r EXCEPT !.todo = @ \ {s}])
    /\ UNCHANGED <<world, ledger, control, h, f>>

ReconcileStep == Snapshot \/ EmptySnapshot \/ Apply \/ ApplyNext

-----------------------------------------------------------------------------
(* Telegram commands, brakes of other origin, crashes *)

\* All orders of some symbols are cancelled.
CancelAll(S) == order' = [s \in Sym |-> IF s \in S THEN NoOrder ELSE order[s]]

\* _flatten_all: all orders are cancelled, but the answers are not looked at;
\* then each open position is closed.
FlattenStart ==
    /\ f.pc = "idle" /\ spent.flatten < MaxFlattens
    /\ CancelAll(Sym) \/ ("rejected" \in Answers /\ \E S \in SUBSET Sym : CancelAll(S))
    /\ f' = [FlattenIdle EXCEPT !.pc = "close", !.todo = {i \in Ids : IsOpen(i)}]
    /\ spent' = [spent EXCEPT !.flatten = @ + 1]
    /\ UNCHANGED <<exch, positions, ledger, control, h, r>>

\* A cancel raises, which ends the flatten before it closed or paused anything.
FlattenAborts ==
    /\ f.pc = "idle"
    /\ Loses
    /\ \E S \in SUBSET Sym : CancelAll(S)
    /\ UNCHANGED <<exch, positions, ledger, control, h, r, f>>

\* close_position; its result is not looked at, an exception ends the flatten.
FlattenClose(i) ==
    /\ f.pc = "close" /\ i \in f.todo
    /\ \E o \in Outcomes(Closable(pos[i].sym, pos[i].qty), pos[i].sym) :
          /\ Execute("flatten", pos[i].sym, o, TRUE)
          /\ f' = IF o.kind = "lost" THEN FlattenIdle
                  ELSE [pc |-> "mark", cur |-> i, todo |-> f.todo \ {i}]
    /\ UNCHANGED <<positions, ledger, control, h, r>>

FlattenMark ==
    /\ f.pc = "mark"
    /\ pos' = [pos EXCEPT ![f.cur].state = AfterClose(@)]
    /\ \/ Saved(f.cur) /\ f' = [f EXCEPT !.pc = "close", !.cur = None]
       \/ NotSaved /\ f' = FlattenIdle
    /\ UNCHANGED <<world, ledger, control, h, r>>

\* The pause is in memory first; its row may fail.
Paused ==
    /\ brakes' = brakes \cup {"paused"}
    /\ \/ kept' = brakes' /\ UNCHANGED spent
       \/ WriteFails /\ UNCHANGED kept

FlattenPause ==
    /\ f.pc = "close" /\ f.todo = {}
    /\ Paused
    /\ f' = FlattenIdle
    /\ UNCHANGED <<world, positions, ledger, h, r>>

FlattenStep == (\E i \in Ids : FlattenClose(i)) \/ FlattenMark \/ FlattenPause

\* /pause and /resume change memory only.
PauseCommand ==
    /\ "paused" \in BrakeKinds
    /\ brakes' = brakes \cup {"paused"}
    /\ UNCHANGED <<world, positions, ledger, kept, h, r, f, spent>>

ResumeCommand ==
    /\ brakes' = brakes \ {"paused"}
    /\ UNCHANGED <<world, positions, ledger, kept, h, r, f, spent>>

\* equity_update_task finds a drawdown at a brake; the row is saved.
EquityBrake ==
    /\ "paused" \in BrakeKinds
    /\ Paused
    /\ UNCHANGED <<world, positions, ledger, h, r, f>>

\* The day and the week of the counters are over, in memory and in the row.
LimitExpires ==
    /\ brakes' = brakes \ {"limit"} /\ kept' = kept \ {"limit"}
    /\ UNCHANGED <<world, positions, ledger, h, r, f, spent>>

\* The tasks are gone, and setup() of the next process reads the positions.
TasksEnd ==
    /\ h' = HandlerIdle /\ r' = PassIdle /\ f' = FlattenIdle
    /\ pos' = rows
    /\ spent.stop < MaxStops
    /\ spent' = [spent EXCEPT !.stop = @ + 1]
    /\ UNCHANGED <<world, rows, ledger>>

\* The process dies; the brakes are read from their row as well.
Crash ==
    /\ "crash" \in Stops
    /\ TasksEnd
    /\ brakes' = kept /\ UNCHANGED kept

\* shutdown() cancels the tasks where they are and saves the brakes; if it
\* cannot, that is a crash.
GracefulStop ==
    /\ "graceful" \in Stops
    /\ TasksEnd
    /\ kept' = brakes /\ UNCHANGED brakes

Environment ==
    \/ \E s \in Sym : \/ CandleClosed(s)
                      \/ ExchangeExpire(s)
                      \/ \E k \in 1..order[s].left : ExchangeFill(s, k)
                      \/ \E q \in 0..MaxQty : UserTrade(s, q)
    \/ PauseCommand \/ ResumeCommand \/ FlattenStart \/ FlattenAborts
    \/ EquityBrake \/ LimitExpires
    \/ Crash \/ GracefulStop

Next == HandlerStep \/ ReconcileStep \/ FlattenStep \/ Environment

Spec == Init /\ [][Next]_vars

\* The event loop runs every task that is ready, and the reconciliation timer
\* keeps firing; get_positions is answered again and again, whatever comes in
\* between.  Otherwise candles, commands, crashes and the exchange owe nothing.
Fairness ==
    /\ WF_vars(HandlerStep) /\ WF_vars(ReconcileStep) /\ WF_vars(FlattenStep)
    /\ SF_vars(Snapshot)

FairSpec == Spec /\ Fairness

-----------------------------------------------------------------------------
(* Properties *)

\* Every variable keeps its type.
TypeOK ==
    /\ exch \in [Sym -> Nat]
    /\ order \in [Sym -> Order]
    /\ pos \in [Ids -> Position] /\ rows \in [Ids -> Position]
    /\ signals \subseteq OwnIds /\ booked \in [OwnIds -> Nat]
    /\ brakes \subseteq {"paused", "limit"} /\ kept \subseteq {"paused", "limit"}
    /\ h \in Handler /\ r \in Pass /\ f \in Flatten
    /\ spent \in Spent

\* max_concurrent_positions (portfolio_manager.py:31) and max_per_symbol
\* (portfolio_manager.py:36) hold for the bot's own positions, although they
\* are checked seconds before the position exists and against a list read
\* once: nothing but the one handler at a time adds an own position.  A restart
\* after a failed write reads closed positions as open ones, beyond any limit.
OwnLimits ==
    spent.fail = 0 \/ spent.stop = 0 =>
        /\ Cardinality(OwnOpen) <= MaxOpen
        /\ \A u, v \in OwnOpen : pos[u].sym = pos[v].sym => u = v

\* A trade is reported to risk and brakes at most once, and only after its
\* CLOSED row exists (main.py:348): whatever writes fail, no restart reports it
\* again.
BookedOnce ==
    \A u \in OwnIds :
        booked[u] <= 1 /\ (booked[u] = 1 => pos[u].state = "CLOSED" /\ rows[u].state = "CLOSED")

\* A trade that was closed stays closed: neither a reconciliation pass that
\* still holds the position, nor a flatten, nor a late answer to an exit order
\* reopens it (models.py:108, reconciliation.py:94); only a restart does, and
\* only when its CLOSED row could not be written.
ClosedIsFinal ==
    [][\A u \in OwnIds :
         /\ rows[u].state = "CLOSED" => rows'[u].state = "CLOSED"
         /\ pos[u].state = "CLOSED" /\ (rows[u].state = "CLOSED" \/ spent'.stop = spent.stop)
               => pos'[u].state = "CLOSED"]_vars

\* The trades of the bot, seen as a book of trades.
Stage(p) ==
    IF p.state = "NONE" THEN "unseen" ELSE IF p.state \in Terminal THEN "closed" ELSE "open"

Book ==
    INSTANCE PositionBook WITH
        Trades <- OwnIds, Symbols <- Sym, Nothing <- None, Limit <- MaxOpen,
        stage <- [u \in OwnIds |-> Stage(pos[u])],
        stored <- [u \in OwnIds |-> Stage(rows[u])],
        on <- [u \in OwnIds |-> pos[u].sym],
        reports <- booked

\* Every step of the loop is a step of the book of trades, or leaves it alone:
\* one trade at a time is opened, within the limits, closed, or reported once
\* its end is stored, and a restart goes back to what is stored
\* (main.py:323-483, position_manager.py:68, 214).
ImplementsBook == Book!BookSpec

\* Without crashes and flattens, a closed trade the handler never reported cost
\* a failed write: an exit that fails ends the handler before the entry check,
\* but between a close and its report only a write of the position, of the trade
\* or of a row ends it, and no failure loses more than one trade
\* (position_manager.py:255-256, main.py:348-366).
ClosedIsBooked ==
    h.pc = "idle" /\ spent.stop = 0 /\ spent.flatten = 0 =>
        Cardinality({u \in OwnIds : pos[u].state = "CLOSED" /\ booked[u] = 0}) <= spent.fail

\* What is on the exchange is eventually known: a position left behind by a
\* partial exit, a late fill, a crash between fill and add_position or a user's
\* trade is adopted by some later pass, or is gone (reconciliation.py:60).
ExposureIsTracked ==
    \A s \in Sym : exch[s] > 0 ~> exch[s] = 0 \/ OpenOn(s) # {}

\* A position that is the only open one of its symbol does not keep a wrong
\* quantity for ever: a stale snapshot may overwrite it, a later pass corrects
\* it (reconciliation.py:86).
QuantityIsHealed ==
    \A s \in Sym : \A i \in Ids :
        OpenOn(s) = {i} /\ exch[s] > 0 ~>
            OpenOn(s) # {i} \/ exch[s] = 0 \/ pos[i].qty = exch[s]

\* "max_per_symbol: 1" (config/settings.yaml) "# Max per symbol"
\* (portfolio_manager.py:34): a symbol has at most one open position.
OnePositionPerSymbol == \A s \in Sym : Cardinality(OpenOn(s)) <= 1

\* "Self-heals mismatches." (reconciliation.py:5): a position that is open
\* here and gone from the exchange does not stay open for ever.
LocalOnlyIsHealed ==
    \A s \in Sym : exch[s] = 0 /\ OpenOn(s) # {} ~> exch[s] > 0 \/ OpenOn(s) = {}

\* "Graceful shutdown." (main.py:558), "Persist final state" (main.py:578): what
\* was bought is known to the next process.
GracefulStopKeepsPositions ==
    [][GracefulStop => \A s \in Sym : exch[s] > 0 => OpenOn(s) # {}]_vars

=============================================================================
