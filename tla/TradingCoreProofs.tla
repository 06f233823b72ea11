-------------------------- MODULE TradingCoreProofs --------------------------
(***************************************************************************)
(* Proofs about TradingCore, for every set of symbols and uuids, every     *)
(* limit on the portfolio, and any number of faults, commands and ends of  *)
(* the process.                                                            *)
(*                                                                         *)
(* The argument: what makes the checks of the candle handler still true    *)
(* when their result is used seconds later is what the handler remembers   *)
(* across its awaits.  The invariant says, for each place where it can     *)
(* wait, which of its memories nobody else can have made false.            *)
(***************************************************************************)
EXTENDS TradingCore, FiniteSetTheorems, TLAPS

Seen == {u \in OwnIds : pos[u].state # "NONE"}

\* Closed, also in the table, and not reported.
Unreported == {u \in OwnIds : rows[u].state = "CLOSED" /\ booked[u] = 0}

\* The handler waits for the answer to an exit, or is on its way to an entry.
Exiting == h.pc \in {"wait", "answered"} /\ h.why \in {"tp", "close"}

Entering ==
    h.pc \in {"entry", "last"} \/ (h.pc \in {"wait", "answered"} /\ h.why = "entry")

\* It may still enter, with the check of the portfolio behind it.
Trying == Entering \/ h.pc = "unfilled"

\* A trade is in one of the states of the life of an own position and is known
\* from a signal.
TradeInv ==
    \A u \in OwnIds :
        /\ pos[u].state \in {"NONE", "MANAGING", "TRAILING", "CLOSED"}
        /\ pos[u].state # "NONE" => u \in signals
        /\ pos[u].state = "NONE" => pos[u].sym = None

SymInv ==
    \A i \in Ids : /\ pos[i].state # "NONE" => pos[i].sym \in Sym
                   /\ rows[i].state # "NONE" => rows[i].sym \in Sym

\* The table is behind the memory, and only because a write failed; a trade is
\* reported only once its CLOSED row exists.
RowInv ==
    /\ spent.fail = 0 => rows = pos
    /\ \A u \in OwnIds :
          /\ rows[u].state \in {"NONE", "MANAGING", "TRAILING", "CLOSED"}
          /\ rows[u].state # "NONE" => /\ pos[u].state # "NONE"
                                       /\ rows[u].sym = pos[u].sym
          /\ rows[u].state = "NONE" => rows[u].sym = None
          /\ rows[u].state = "CLOSED" => pos[u].state = "CLOSED"
          /\ booked[u] <= 1
          /\ booked[u] = 1 => rows[u].state = "CLOSED"

\* What the handler holds: positions that exist, closed ones not yet reported,
\* an exit that is not reported, an entry whose trade does not exist yet.
HandlerInv ==
    /\ h.pc # "idle" => h.sym \in Sym
    /\ h.pc \in {"wait", "answered"} => h.why # "none"
    /\ h.pc = "idle" => h = HandlerIdle
    /\ h.pc = "record" => h.todo = {}
    /\ h.todo \subseteq Seen /\ h.closed \subseteq Unreported
    /\ Exiting => h.cur \in Seen /\ booked[h.cur] = 0
    /\ Trying => h.todo = {} /\ h.closed = {}
    /\ Entering => /\ h.cur \in OwnIds /\ h.cur \in signals
                   /\ pos[h.cur].state = "NONE"

FlattenInv ==
    /\ f.pc = "mark" => f.cur \in Ids /\ pos[f.cur].state # "NONE"
    /\ f.todo \subseteq {i \in Ids : pos[i].state # "NONE"}

\* The limits, with room for the entry that is on its way.
LimitInv ==
    /\ OwnLimits
    /\ Trying => /\ Cardinality(OwnOpen) < MaxOpen
                 /\ \A u \in OwnOpen : pos[u].sym # h.sym

IndInv ==
    /\ TypeOK
    /\ TradeInv /\ SymInv /\ RowInv /\ HandlerInv /\ FlattenInv /\ LimitInv

-----------------------------------------------------------------------------
(* The life of a position (Lifecycle) *)

\* No move leads out of the states, or out of CLOSED, or makes a position of
\* none.
LEMMA MoveTypes ==
    ASSUME NEW x \in PositionState \cup {"NONE"}
    PROVE  /\ AfterTakeProfit(x) \in PositionState \cup {"NONE"}
           /\ AfterTrail(x) \in PositionState \cup {"NONE"}
           /\ AfterClose(x) \in PositionState \cup {"NONE"}
           /\ AfterTrail(x) = "NONE" <=> x = "NONE"
           /\ AfterTakeProfit(x) = "NONE" <=> x = "NONE"
           /\ AfterClose(x) = "NONE" <=> x = "NONE"
BY DEF AfterTakeProfit, AfterTrail, AfterClose, TransitionTo, PositionState,
       ValidTransitions

\* An own position is managed, trails once it took profit, and is closed for
\* good by the two moves of a close.
LEMMA OwnMoves ==
    ASSUME NEW x \in {"MANAGING", "TRAILING", "CLOSED"}
    PROVE  /\ AfterTrail(x) = x
           /\ AfterTrail(AfterTakeProfit(x)) =
                IF x = "CLOSED" THEN "CLOSED" ELSE "TRAILING"
           /\ AfterClose(x) = "CLOSED"
BY DEF AfterTakeProfit, AfterTrail, AfterClose, TransitionTo, ValidTransitions

LEMMA NewStates ==
    /\ Opened = "MANAGING" /\ Opened \in PositionState
    /\ Adopted \in PositionState /\ Adopted # "NONE"
BY DEF Opened, Adopted, TransitionTo, ValidTransitions, PositionState

-----------------------------------------------------------------------------
(* Types *)

\* A reduce-only order takes no more than there is.
LEMMA ClosableType ==
    ASSUME TypeOK, NEW s \in Sym, NEW q \in Int
    PROVE  Closable(s, q) \in Nat /\ Closable(s, q) <= exch[s]
BY DEF Closable, Least, TypeOK

LEMMA OutcomeType ==
    ASSUME NEW m \in Nat, NEW s \in Sym, NEW o \in Outcomes(m, s)
    PROVE  /\ o.done \in Nat /\ o.got \in Nat /\ o.left \in Nat
           /\ o.kind \in {"answer", "partial", "lost"}
BY DEF Outcomes

\* An executed order leaves sizes and orders of the right type.
LEMMA ExecuteType ==
    ASSUME TypeOK, NEW s \in Sym, NEW m \in Nat, NEW o \in Outcomes(m, s),
           NEW task \in {"handler", "flatten"}, NEW reduce \in BOOLEAN,
           Execute(task, s, o, reduce)
    PROVE  exch' \in [Sym -> Nat] /\ order' \in [Sym -> Order]
<1>1. /\ exch \in [Sym -> Nat] /\ order \in [Sym -> Order]
      /\ o.done \in Nat /\ o.left \in Nat
      BY OutcomeType DEF TypeOK
<1>2. exch[s] - Least(o.done, exch[s]) \in Nat
      BY <1>1 DEF Least
<1>3. exch[s] + o.done \in Nat
      BY <1>1
<1>4. [left |-> o.left, reduce |-> reduce, by |-> task] \in Order
      BY <1>1 DEF Order
<1>5. exch' = [exch EXCEPT ![s] = IF reduce THEN exch[s] - Least(o.done, exch[s])
                                  ELSE exch[s] + o.done]
      BY <1>1 DEF Execute
<1>6. exch' \in [Sym -> Nat]
      BY <1>1, <1>2, <1>3, <1>5
<1>7. order' \in [Sym -> Order]
      BY <1>1, <1>4 DEF Execute
<1>8. QED
      BY <1>6, <1>7

\* The candle handler at rest is a handler, and so on.
LEMMA IdleTypes ==
    /\ HandlerIdle \in Handler /\ PassIdle \in Pass /\ FlattenIdle \in Flatten
    /\ NoPosition \in Position /\ NoOrder \in Order
BY DEF HandlerIdle, Handler, PassIdle, Pass, FlattenIdle, Flatten, NoPosition,
       Position, NoOrder, Order

\* The facts about the variables that the steps below start from.
LEMMA Known ==
    ASSUME IndInv
    PROVE  /\ exch \in [Sym -> Nat] /\ order \in [Sym -> Order]
           /\ pos \in [Ids -> Position] /\ rows \in [Ids -> Position]
           /\ signals \subseteq OwnIds /\ booked \in [OwnIds -> Nat]
           /\ brakes \subseteq {"paused", "limit"}
           /\ kept \subseteq {"paused", "limit"}
           /\ h \in Handler /\ r \in Pass /\ f \in Flatten
           /\ spent \in Spent
           /\ OwnIds \subseteq Ids /\ Sym \subseteq Ids
           /\ OwnIds \cap Sym = {} /\ None \notin Ids
BY CoreAssumption DEF IndInv, TypeOK, Ids

\* A position with another quantity or another state is a position.
LEMMA PositionType ==
    ASSUME NEW p \in Position
    PROVE  /\ \A q \in Int : [p EXCEPT !.qty = q] \in Position
           /\ \A x \in PositionState \cup {"NONE"} : [p EXCEPT !.state = x] \in Position
           /\ \A q \in Int : \A x \in PositionState \cup {"NONE"} :
                [p EXCEPT !.qty = q, !.tp1 = TRUE, !.state = x] \in Position
           /\ p.qty \in Int /\ p.state \in PositionState \cup {"NONE"}
           /\ p.tp1 \in BOOLEAN /\ p.sym \in Sym \cup {None}
<1>1. /\ p.qty \in Int /\ p.state \in PositionState \cup {"NONE"}
      /\ p.tp1 \in BOOLEAN /\ p.sym \in Sym \cup {None}
      BY DEF Position
<1>2. \A q \in Int : [p EXCEPT !.qty = q] \in Position
      BY DEF Position
<1>3. \A x \in PositionState \cup {"NONE"} : [p EXCEPT !.state = x] \in Position
      BY DEF Position
<1>4. \A q \in Int : \A x \in PositionState \cup {"NONE"} :
        [p EXCEPT !.qty = q, !.tp1 = TRUE, !.state = x] \in Position
      BY DEF Position
<1>5. QED
      BY <1>1, <1>2, <1>3, <1>4, Zenon

\* What an action does to the bounds.
LEMMA SpentKinds ==
    ASSUME IndInv, [Next]_vars
    PROVE  \/ spent' = spent
           \/ spent' = [spent EXCEPT !.fail = @ + 1]
           \/ spent' = [spent EXCEPT !.lost = @ + 1]
           \/ spent' = [spent EXCEPT !.user = @ + 1]
           \/ FlattenStart /\ spent' = [spent EXCEPT !.flatten = @ + 1]
           \/ TasksEnd /\ spent' = [spent EXCEPT !.stop = @ + 1]
<1> DEFINE Kind == \/ spent' = spent
                   \/ spent' = [spent EXCEPT !.fail = @ + 1]
                   \/ spent' = [spent EXCEPT !.lost = @ + 1]
                   \/ spent' = [spent EXCEPT !.user = @ + 1]
                   \/ FlattenStart /\ spent' = [spent EXCEPT !.flatten = @ + 1]
                   \/ TasksEnd /\ spent' = [spent EXCEPT !.stop = @ + 1]
<1>1. ASSUME HandlerStep PROVE Kind
      <2>1. ASSUME NEW u \in OwnIds,
                   \/ SkipClosed(u) \/ Hold(u) \/ CloseNothing(u) \/ BookTrade(u)
                   \/ AllowEntry(u) \/ NextSignal(u)
            PROVE  Kind
            BY <2>1 DEF SkipClosed, Hold, CloseNothing, BookTrade, AllowEntry,
                        NextSignal, Saved, NotSaved, WriteFails
      <2>2. ASSUME NEW u \in OwnIds, TakeProfit(u) \/ CloseOut(u) PROVE Kind
            <3>1. ASSUME NEW q, NEW why, SendExit(u, q, why) PROVE Kind
                  BY <3>1 DEF SendExit, Execute
            <3>2. QED
                  BY <2>2, <3>1, Zenon DEF TakeProfit, CloseOut
      <2>3. CASE \/ CancelRemainder \/ CancelLost \/ TakeProfitAnswered
                 \/ CloseAnswered \/ CloseFailed \/ ManagedAll \/ NoEntry \/ AddPosition
            BY <2>3 DEF CancelRemainder, CancelLost, TakeProfitAnswered, CloseAnswered,
                        CloseFailed, ManagedAll, NoEntry, AddPosition, Saved, NotSaved,
                        WriteFails, Loses
      <2>4. ASSUME NEW q \in 1..MaxQty, PlaceEntry(q) PROVE Kind
            BY <2>4 DEF PlaceEntry, Execute
      <2> HIDE DEF Kind
      <2>5. QED
            BY <1>1, <2>1, <2>2, <2>3, <2>4 DEF HandlerStep
<1>2. ASSUME ReconcileStep PROVE Kind
      <2>1. ASSUME NEW s, NEW i, NEW next, SaveHealed(s, i, next) PROVE Kind
            BY <2>1 DEF SaveHealed, NotSaved, WriteFails
      <2>2. CASE Snapshot \/ EmptySnapshot \/ UNCHANGED spent
            BY <2>2 DEF Snapshot, EmptySnapshot
      <2> HIDE DEF Kind
      <2>3. CASE Apply \/ ApplyNext
            BY <2>1, <2>2, <2>3, Zenon DEF Apply, ApplyNext
      <2>4. QED
            BY <1>2, <2>2, <2>3 DEF ReconcileStep
<1>3. ASSUME FlattenStep PROVE Kind
      BY <1>3 DEF FlattenStep, FlattenClose, FlattenMark, FlattenPause, Paused, Execute,
                  Saved, NotSaved, WriteFails
<1>4. ASSUME Environment PROVE Kind
      <2>1. ASSUME NEW s \in Sym,
                   \/ CandleClosed(s) \/ ExchangeExpire(s)
                   \/ \E k \in 1..order[s].left : ExchangeFill(s, k)
                   \/ \E q \in 0..MaxQty : UserTrade(s, q)
            PROVE  Kind
            BY <2>1 DEF CandleClosed, ExchangeExpire, ExchangeFill, UserTrade
      <2>2. CASE \/ PauseCommand \/ ResumeCommand \/ FlattenAborts \/ EquityBrake
                 \/ LimitExpires
            BY <2>2 DEF PauseCommand, ResumeCommand, FlattenAborts, Loses, EquityBrake,
                        Paused, WriteFails, LimitExpires
      <2>3. CASE FlattenStart
            <3>1. spent' = [spent EXCEPT !.flatten = @ + 1]
                  BY <2>3 DEF FlattenStart
            <3>2. QED
                  BY <2>3, <3>1
      <2>4. CASE Crash \/ GracefulStop
            <3>1. TasksEnd
                  BY <2>4 DEF Crash, GracefulStop
            <3>2. spent' = [spent EXCEPT !.stop = @ + 1]
                  BY <3>1 DEF TasksEnd
            <3>3. QED
                  BY <3>1, <3>2
      <2> HIDE DEF Kind
      <2>5. QED
            BY <1>4, <2>1, <2>2, <2>3, <2>4 DEF Environment
<1>5. ASSUME UNCHANGED vars PROVE Kind
      BY <1>5 DEF vars
<1> HIDE DEF Kind
<1>6. Kind
      BY <1>1, <1>2, <1>3, <1>4, <1>5 DEF Next
<1>7. QED
      BY <1>6 DEF Kind

\* The bounds are counters that only grow, one by one.
LEMMA SpentGrows ==
    ASSUME IndInv, [Next]_vars
    PROVE  /\ spent' \in Spent
           /\ spent'.fail \in {spent.fail, spent.fail + 1}
           /\ spent'.flatten = spent.flatten \/ FlattenStart
           /\ spent'.stop = spent.stop \/ TasksEnd
           /\ FlattenStart => spent'.flatten # 0
           /\ TasksEnd => spent'.stop # 0 /\ spent'.fail = spent.fail
<1>1. spent \in Spent
      BY Known
<1>2. ASSUME FlattenStart PROVE spent' = [spent EXCEPT !.flatten = @ + 1]
      BY <1>2 DEF FlattenStart
<1>3. ASSUME TasksEnd PROVE spent' = [spent EXCEPT !.stop = @ + 1]
      BY <1>3 DEF TasksEnd
<1>4. /\ FlattenStart => spent'.flatten # 0
      /\ TasksEnd => spent'.stop # 0 /\ spent'.fail = spent.fail
      BY <1>1, <1>2, <1>3 DEF Spent
<1>5. QED
      BY <1>1, <1>4, SpentKinds DEF Spent

\* A position that was written, or could not be.
LEMMA SavedType ==
    ASSUME IndInv, NEW i \in Ids, pos' \in [Ids -> Position],
           \/ Saved(i) \/ NotSaved \/ rows' = [rows EXCEPT ![i] = pos'[i]]
    PROVE  rows' \in [Ids -> Position]
BY Known DEF Saved, NotSaved

LEMMA ExchangeTypes ==
    ASSUME IndInv, spent' \in Spent, NEW s \in Sym,
           \/ ExchangeExpire(s)
           \/ \E k \in 1..order[s].left : ExchangeFill(s, k)
           \/ \E q \in 0..MaxQty : UserTrade(s, q)
    PROVE  TypeOK'
<1>0. /\ exch[s] \in Nat /\ order[s] \in Order /\ order[s].left \in Nat
      /\ exch \in [Sym -> Nat] /\ order \in [Sym -> Order]
      BY Known DEF Order
<1>1. CASE ExchangeExpire(s)
      BY <1>0, <1>1, Known, IdleTypes
      DEF ExchangeExpire, positions, ledger, control, TypeOK
<1>2. ASSUME NEW k \in 1..order[s].left, ExchangeFill(s, k) PROVE TypeOK'
      <2>1. /\ exch[s] - Least(k, exch[s]) \in Nat
            /\ exch[s] + k \in Nat /\ k \in Nat
            BY <1>0 DEF Least
      <2>2. exch' \in [Sym -> Nat]
            BY <1>0, <1>2, <2>1 DEF ExchangeFill
      <2>3. [order[s] EXCEPT !.left = order[s].left - k] \in Order
            BY <1>0, <1>2, <2>1 DEF Order, ExchangeFill
      <2>4. order' \in [Sym -> Order]
            <3> DEFINE new == IF k = order[s].left THEN NoOrder
                              ELSE [order[s] EXCEPT !.left = order[s].left - k]
            <3>1. order' = [order EXCEPT ![s] = new]
                  BY <1>0, <1>2 DEF ExchangeFill
            <3>2. new \in Order
                  BY <2>3, IdleTypes
            <3> HIDE DEF new
            <3>3. QED
                  BY <1>0, <3>1, <3>2
      <2>5. QED
            BY <1>2, <2>2, <2>4, Known DEF ExchangeFill, positions, ledger, control, TypeOK
<1>3. ASSUME NEW q \in 0..MaxQty, UserTrade(s, q) PROVE TypeOK'
      <2>1. q \in Nat
            BY CoreAssumption
      <2>2. QED
            BY <1>0, <1>3, <2>1, Known
            DEF UserTrade, positions, ledger, control, TypeOK
<1>4. QED
      BY <1>1, <1>2, <1>3

\* An order to close of the handler.
LEMMA SendExitTypes ==
    ASSUME IndInv, spent' \in Spent, NEW u \in OwnIds, NEW q \in Int, NEW why \in {"tp", "close"},
           h.pc # "idle", SendExit(u, q, why)
    PROVE  TypeOK'
<1>0. h.sym \in Sym
      BY DEF IndInv, HandlerInv
<1>1. /\ Closable(h.sym, q) \in Nat /\ Closable(h.sym, q) <= exch[h.sym]
      BY <1>0, ClosableType DEF IndInv
<1>2. PICK o \in Outcomes(Closable(h.sym, q), h.sym) :
        /\ Execute("handler", h.sym, o, TRUE)
        /\ h' = IF o.kind = "lost" THEN HandlerIdle
                ELSE [h EXCEPT !.pc = IF o.kind = "partial" THEN "wait"
                                      ELSE "answered",
                               !.why = why, !.cur = u, !.ans = o.got,
                               !.todo = @ \ {u}]
        /\ UNCHANGED <<positions, ledger, control, r, f>>
      BY DEF SendExit
<1>3. exch' \in [Sym -> Nat] /\ order' \in [Sym -> Order]
      BY <1>0, <1>1, <1>2, ExecuteType DEF IndInv
<1>4. o.got \in Nat
      BY <1>0, <1>1, OutcomeType
<1>5. h' \in Handler
      BY <1>2, <1>4, Known, IdleTypes DEF Handler
<1>6. QED
      BY <1>2, <1>3, <1>5, Known DEF positions, ledger, control, TypeOK

\* The steps that manage the positions of the candle's symbol.
LEMMA ManageTypes ==
    ASSUME IndInv, spent' \in Spent, NEW u \in OwnIds,
           \/ SkipClosed(u) \/ Hold(u) \/ TakeProfit(u) \/ CloseOut(u)
           \/ CloseNothing(u)
    PROVE  TypeOK'
<1>0. pos[u] \in Position /\ pos[u].qty \in Int /\ pos[u].qty \div 2 \in Int
      BY Known DEF Position
<1>1. CASE SkipClosed(u)
      BY <1>1, Known DEF SkipClosed, world, positions, ledger, control, TypeOK, Handler
<1>2. CASE Hold(u)
      <2>1. [pos[u] EXCEPT !.state = AfterTrail(@)] \in Position
            BY <1>0, PositionType, MoveTypes
      <2>2. pos' \in [Ids -> Position]
            BY <1>0, <1>2, <2>1, Known, PositionType DEF Hold
      <2>3. h' \in Handler
            BY <1>2, Known, IdleTypes DEF Hold, Handler
      <2>4. rows' \in [Ids -> Position]
            BY <1>2, <2>2, Known, SavedType DEF Hold
      <2>5. QED
            BY <1>2, <2>2, <2>3, <2>4, Known DEF Hold, world, ledger, control, TypeOK
<1>3. CASE TakeProfit(u)
      BY <1>0, <1>3, SendExitTypes DEF TakeProfit, Managing
<1>4. CASE CloseOut(u)
      BY <1>0, <1>4, SendExitTypes DEF CloseOut, Managing
<1>5. CASE CloseNothing(u)
      BY <1>5, Known DEF CloseNothing, world, positions, ledger, control, TypeOK, Handler
<1>6. QED
      BY <1>1, <1>2, <1>3, <1>4, <1>5

\* The steps that take the answers in.
LEMMA AnswerTypes ==
    ASSUME IndInv, spent' \in Spent,
           \/ CancelRemainder \/ CancelLost \/ TakeProfitAnswered
           \/ CloseAnswered \/ CloseFailed \/ ManagedAll \/ NoEntry
    PROVE  TypeOK'
<1>0. /\ HandlerInv /\ BackToManaging \in Handler
      /\ h.ans \in Nat /\ h.closed \subseteq OwnIds
      BY Known DEF IndInv, BackToManaging, Handler
<1>1. CASE CancelRemainder
      <2>1. h.sym \in Sym /\ order[h.sym] \in Order
            BY <1>0, <1>1, Known DEF HandlerInv, CancelRemainder
      <2>2. order' \in [Sym -> Order]
            BY <1>1, <2>1, Known, IdleTypes DEF CancelRemainder
      <2>3. h' \in Handler
            BY <1>1, Known DEF CancelRemainder, Handler
      <2>4. QED
            BY <1>1, <2>2, <2>3, Known DEF CancelRemainder, positions, ledger, control, TypeOK
<1>2. CASE CancelLost \/ CloseFailed \/ NoEntry
      BY <1>2, Known, IdleTypes
      DEF CancelLost, CloseFailed, NoEntry, world, positions, ledger, control, TypeOK
<1>3. CASE TakeProfitAnswered
      <2>1. h.cur \in OwnIds /\ pos[h.cur] \in Position
            BY <1>0, <1>3, Known
            DEF TakeProfitAnswered, Answered, HandlerInv, Exiting, Seen
      <2>2. pos[h.cur].qty \in Int /\ pos[h.cur].state \in PositionState \cup {"NONE"}
            BY <2>1, PositionType
      <2>3. /\ pos[h.cur].qty - h.ans \in Int
            /\ AfterTrail(AfterTakeProfit(pos[h.cur].state))
                 \in PositionState \cup {"NONE"}
            BY <1>0, <2>2, MoveTypes
      <2>4. ASSUME h.ans # 0 PROVE pos' \in [Ids -> Position]
            <3> DEFINE q == pos[h.cur].qty - h.ans
                       x == AfterTrail(AfterTakeProfit(pos[h.cur].state))
            <3>1. pos' = [pos EXCEPT ![h.cur].qty = q, ![h.cur].tp1 = TRUE,
                                     ![h.cur].state = x]
                  BY <1>3, <2>1, <2>4, Known DEF TakeProfitAnswered, Position
            <3> HIDE DEF q, x
            <3>2. QED
                  BY <2>1, <2>3, <3>1, Known DEF q, x, Position
      <2>5. pos' \in [Ids -> Position]
            BY <1>3, <2>4, Known DEF TakeProfitAnswered
      <2>6. rows' \in [Ids -> Position] /\ h' \in Handler
            BY <1>0, <1>3, <2>1, <2>5, Known, IdleTypes, SavedType DEF TakeProfitAnswered
      <2>7. QED
            BY <1>3, <2>5, <2>6, Known
            DEF TakeProfitAnswered, world, ledger, control, TypeOK
<1>4. CASE CloseAnswered
      <2>1. h.cur \in OwnIds /\ pos[h.cur] \in Position
            BY <1>0, <1>4, Known
            DEF CloseAnswered, Answered, HandlerInv, Exiting, Seen
      <2>2. [pos[h.cur] EXCEPT !.state = AfterClose(@)] \in Position
            BY <2>1, PositionType, MoveTypes
      <2>3. pos' \in [Ids -> Position]
            BY <1>4, <2>1, <2>2, Known DEF CloseAnswered
      <2>4. h' \in Handler
            BY <1>0, <1>4, <2>1, IdleTypes DEF CloseAnswered, Handler
      <2>5. rows' \in [Ids -> Position]
            BY <1>4, <2>1, <2>3, Known, SavedType DEF CloseAnswered
      <2>6. QED
            BY <1>4, <2>3, <2>4, <2>5, Known
            DEF CloseAnswered, world, ledger, control, TypeOK
<1>5. CASE ManagedAll
      BY <1>5, Known DEF ManagedAll, world, positions, ledger, control, TypeOK, Handler
<1>6. QED
      BY <1>1, <1>2, <1>3, <1>4, <1>5

\* Results, brakes and the entry.
LEMMA EntryTypes ==
    ASSUME IndInv, spent' \in Spent,
           \/ \E u \in OwnIds : BookTrade(u) \/ AllowEntry(u) \/ NextSignal(u)
           \/ \E q \in 1..MaxQty : PlaceEntry(q)
           \/ AddPosition
    PROVE  TypeOK'
<1>0. HandlerInv
      BY DEF IndInv
<1>1. ASSUME NEW u \in OwnIds, BookTrade(u) PROVE TypeOK'
      <2>1. booked' \in [OwnIds -> Nat] /\ h' \in Handler
            BY <1>1, Known, IdleTypes DEF BookTrade, Handler
      <2>2. /\ brakes' \subseteq {"paused", "limit"}
            /\ kept' \subseteq {"paused", "limit"}
            BY <1>1, Known DEF BookTrade
      <2>3. QED
            BY <1>1, <2>1, <2>2, Known DEF BookTrade, world, positions, TypeOK
<1>2. ASSUME NEW u \in OwnIds, AllowEntry(u) \/ NextSignal(u) PROVE TypeOK'
      <2>1. h' \in Handler /\ signals' \subseteq OwnIds
            BY <1>2, Known DEF AllowEntry, NextSignal, Handler
      <2>2. QED
            BY <1>2, <2>1, Known
            DEF AllowEntry, NextSignal, world, positions, control, TypeOK
<1>3. ASSUME NEW q \in 1..MaxQty, PlaceEntry(q) PROVE TypeOK'
      <2>1. h.sym \in Sym /\ q \in Nat
            <3>1. h.sym \in Sym
                  BY <1>0, <1>3 DEF HandlerInv, PlaceEntry
            <3>2. q \in Nat
                  BY CoreAssumption
            <3>3. QED
                  BY <3>1, <3>2
      <2>2. PICK o \in Outcomes(q, h.sym) :
              /\ Execute("handler", h.sym, o, FALSE)
              /\ \/ h' = [h EXCEPT !.pc = IF o.kind = "partial" THEN "wait"
                                           ELSE "answered",
                                    !.why = "entry", !.ans = o.got]
                 \/ h' = [h EXCEPT !.pc = "unfilled", !.cur = None]
                 \/ h' = HandlerIdle
            BY <1>3 DEF PlaceEntry
      <2>3. exch' \in [Sym -> Nat] /\ order' \in [Sym -> Order]
            BY <2>1, <2>2, ExecuteType DEF IndInv
      <2>4. o.got \in Nat
            BY <2>1, OutcomeType
      <2>5. h' \in Handler
            BY <2>2, <2>4, Known, IdleTypes DEF Handler
      <2>6. QED
            BY <1>3, <2>3, <2>5, Known DEF PlaceEntry, positions, ledger, control, TypeOK
<1>4. CASE AddPosition
      <2>1. h.cur \in OwnIds /\ h.sym \in Sym /\ h.ans \in Int
            BY <1>0, <1>4, Known
            DEF AddPosition, Answered, HandlerInv, Entering, Handler
      <2>2. [sym |-> h.sym, state |-> Opened, qty |-> h.ans, tp1 |-> FALSE]
              \in Position
            BY <2>1, NewStates DEF Position
      <2>3. pos' \in [Ids -> Position]
            BY <1>4, <2>1, <2>2, Known DEF AddPosition
      <2>4. rows' \in [Ids -> Position]
            BY <1>4, <2>1, <2>3, Known, SavedType DEF AddPosition
      <2>5. QED
            BY <1>4, <2>3, <2>4, Known, IdleTypes
            DEF AddPosition, world, ledger, control, TypeOK
<1>5. QED
      BY <1>1, <1>2, <1>3, <1>4

\* Healing writes an external position or a quantity.
LEMMA HealTypes ==
    ASSUME IndInv, NEW s \in Sym, NEW i \in Ids \cup {None}, NEW qty \in Nat,
           Heal(s, i, qty)
    PROVE  pos' \in [Ids -> Position]
<1>1. CASE i = None
      <2>1. [sym |-> s, state |-> Adopted, qty |-> qty, tp1 |-> FALSE] \in Position
            BY NewStates DEF Position
      <2>2. QED
            BY <1>1, <2>1, Known DEF Heal
<1>2. CASE i # None
      <2>1. i \in Ids /\ pos[i] \in Position
            BY <1>2, Known
      <2>2. [pos[i] EXCEPT !.qty = qty] \in Position
            BY <2>1 DEF Position
      <2>3. pos' = [pos EXCEPT ![i].qty = qty]
            BY <1>2 DEF Heal
      <2>4. QED
            BY <2>1, <2>2, <2>3, Known
<1>3. QED
      BY <1>1, <1>2

LEMMA SaveHealedTypes ==
    ASSUME IndInv, NEW s \in Sym, NEW i \in Ids \cup {None}, NEW next \in Pass,
           pos' \in [Ids -> Position], SaveHealed(s, i, next)
    PROVE  rows' \in [Ids -> Position] /\ r' \in Pass
<1>1. r' \in Pass
      BY IdleTypes DEF SaveHealed
<1>2. PICK id \in Ids : id = IF i = None THEN s ELSE i
      BY Known
<1>3. rows' = rows \/ rows' = [rows EXCEPT ![id] = pos'[id]]
      BY <1>2 DEF SaveHealed, NotSaved
<1>4. QED
      BY <1>1, <1>3, Known

LEMMA ReconcileTypes ==
    ASSUME IndInv, spent' \in Spent, ReconcileStep
    PROVE  TypeOK'
<1>0. /\ r.snap \in [Sym -> Nat] /\ r.map \in [Sym -> Ids \cup {None}]
      /\ r.todo \subseteq Sym
      BY Known DEF Pass
<1>1. CASE Snapshot \/ EmptySnapshot
      <2>1. r' \in Pass
            <3>1. r' = [PassIdle EXCEPT !.pc = "got", !.snap = exch]
                    \/ r' = [PassIdle EXCEPT !.pc = "got"]
                  BY <1>1 DEF Snapshot, EmptySnapshot
            <3>2. exch \in [Sym -> Nat] /\ PassIdle \in Pass
                  BY Known, IdleTypes
            <3>3. QED
                  BY <3>1, <3>2 DEF Pass
      <2>2. QED
            BY <1>1, <2>1, Known
            DEF Snapshot, EmptySnapshot, world, positions, ledger, control, TypeOK
<1>2. ASSUME Apply \/ ApplyNext,
             NEW map \in [Sym -> Ids \cup {None}], NEW s \in Sym, NEW next \in Pass,
             Heal(s, map[s], r.snap[s]), SaveHealed(s, map[s], next)
      PROVE  TypeOK'
      <2>1. map[s] \in Ids \cup {None} /\ r.snap[s] \in Nat
            BY <1>0
      <2>2. pos' \in [Ids -> Position]
            BY <1>2, <2>1, HealTypes
      <2>3. rows' \in [Ids -> Position] /\ r' \in Pass
            BY <1>2, <2>1, <2>2, SaveHealedTypes
      <2>4. QED
            BY <1>2, <2>2, <2>3, Known
            DEF Apply, ApplyNext, world, ledger, control, TypeOK
<1>3. CASE (Apply \/ ApplyNext) /\ r' = PassIdle /\ UNCHANGED positions
      BY <1>3, Known, IdleTypes
      DEF Apply, ApplyNext, world, positions, ledger, control, TypeOK
<1>4. CASE Apply
      <2>1. CASE Listed(r.snap) = {}
            BY <1>3, <1>4, <2>1 DEF Apply
      <2>2. CASE Listed(r.snap) # {}
            <3>1. PICK map \in LocalMaps : \E s \in Upcoming(map, Listed(r.snap)) :
                    /\ Heal(s, map[s], r.snap[s])
                    /\ SaveHealed(s, map[s], [r EXCEPT !.pc = "work", !.map = map,
                                                       !.todo = Listed(r.snap) \ {s}])
                  BY <1>4, <2>2 DEF Apply
            <3>2. PICK s \in Sym :
                    /\ Heal(s, map[s], r.snap[s])
                    /\ SaveHealed(s, map[s], [r EXCEPT !.pc = "work", !.map = map,
                                                       !.todo = Listed(r.snap) \ {s}])
                  BY <3>1 DEF Upcoming, Listed
            <3>3. map \in [Sym -> Ids \cup {None}] /\ Listed(r.snap) \subseteq Sym
                  BY DEF LocalMaps, Listed
            <3>4. [r EXCEPT !.pc = "work", !.map = map, !.todo = Listed(r.snap) \ {s}]
                    \in Pass
                  BY <3>3, Known DEF Pass
            <3>5. QED
                  BY <1>2, <1>4, <3>2, <3>3, <3>4
      <2>3. QED
            BY <2>1, <2>2
<1>5. CASE ApplyNext
      <2>1. CASE r.todo = {}
            BY <1>3, <1>5, <2>1 DEF ApplyNext
      <2>2. CASE r.todo # {}
            <3>1. PICK s \in Sym :
                    /\ Heal(s, r.map[s], r.snap[s])
                    /\ SaveHealed(s, r.map[s], [r EXCEPT !.todo = @ \ {s}])
                  BY <1>0, <1>5, <2>2 DEF ApplyNext, Upcoming
            <3>2. [r EXCEPT !.todo = @ \ {s}] \in Pass
                  BY Known DEF Pass
            <3>3. QED
                  BY <1>0, <1>2, <1>5, <3>1, <3>2
      <2>3. QED
            BY <2>1, <2>2
<1>6. QED
      BY <1>1, <1>4, <1>5 DEF ReconcileStep

LEMMA FlattenTypes ==
    ASSUME IndInv, spent' \in Spent, FlattenStep \/ FlattenStart \/ FlattenAborts
    PROVE  TypeOK'
<1>0. f.todo \subseteq Ids /\ f.cur \in Ids \cup {None}
      BY Known DEF Flatten
<1>1. ASSUME NEW i \in Ids, FlattenClose(i) PROVE TypeOK'
      <2>1. pos[i].sym \in Sym /\ pos[i].qty \in Int
            BY <1>1, Known, PositionType
            DEF IndInv, FlattenInv, SymInv, FlattenClose
      <2>2. /\ Closable(pos[i].sym, pos[i].qty) \in Nat
            /\ Closable(pos[i].sym, pos[i].qty) <= exch[pos[i].sym]
            BY <2>1, ClosableType DEF IndInv
      <2>3. PICK o \in Outcomes(Closable(pos[i].sym, pos[i].qty), pos[i].sym) :
              /\ Execute("flatten", pos[i].sym, o, TRUE)
              /\ f' = IF o.kind = "lost" THEN FlattenIdle
                      ELSE [pc |-> "mark", cur |-> i, todo |-> f.todo \ {i}]
            BY <1>1 DEF FlattenClose
      <2>4. exch' \in [Sym -> Nat] /\ order' \in [Sym -> Order]
            BY <2>1, <2>2, <2>3, ExecuteType DEF IndInv
      <2>5. f' \in Flatten
            BY <1>0, <2>3, IdleTypes DEF Flatten
      <2>6. QED
            BY <1>1, <2>4, <2>5, Known DEF FlattenClose, positions, ledger, control, TypeOK
<1>2. CASE FlattenMark
      <2>1. f.cur \in Ids /\ pos[f.cur] \in Position
            BY <1>2, Known DEF IndInv, FlattenInv, FlattenMark
      <2>2. [pos[f.cur] EXCEPT !.state = AfterClose(@)] \in Position
            BY <2>1, PositionType, MoveTypes
      <2>3. pos' \in [Ids -> Position]
            BY <1>2, <2>1, <2>2, Known DEF FlattenMark
      <2>4. f' \in Flatten
            BY <1>2, Known, IdleTypes DEF FlattenMark, Flatten
      <2>5. rows' \in [Ids -> Position]
            BY <1>2, <2>1, <2>3, Known, SavedType DEF FlattenMark
      <2>6. QED
            BY <1>2, <2>3, <2>4, <2>5, Known DEF FlattenMark, world, ledger, control, TypeOK
<1>3. CASE FlattenPause
      BY <1>3, Known, IdleTypes DEF FlattenPause, Paused, world, positions, ledger, TypeOK
<1>4. CASE FlattenStart \/ FlattenAborts
      <2>1. order' \in [Sym -> Order]
            BY <1>4, Known, IdleTypes DEF FlattenStart, FlattenAborts, CancelAll
      <2>2. f' \in Flatten
            BY <1>4, Known DEF FlattenStart, FlattenAborts, FlattenIdle, Flatten
      <2>3. QED
            BY <1>4, <2>1, <2>2, Known
            DEF FlattenStart, FlattenAborts, positions, ledger, control, TypeOK
<1>5. QED
      BY <1>1, <1>2, <1>3, <1>4 DEF FlattenStep

LEMMA ControlTypes ==
    ASSUME IndInv, spent' \in Spent,
           \/ PauseCommand \/ ResumeCommand \/ EquityBrake \/ LimitExpires
           \/ Crash \/ GracefulStop
           \/ \E s \in Sym : CandleClosed(s)
    PROVE  TypeOK'
<1>1. CASE PauseCommand \/ ResumeCommand \/ EquityBrake \/ LimitExpires
      BY <1>1, Known
      DEF PauseCommand, ResumeCommand, EquityBrake, Paused, LimitExpires, world,
          positions, ledger, TypeOK
<1>2. CASE Crash \/ GracefulStop
      BY <1>2, Known, IdleTypes
      DEF Crash, GracefulStop, TasksEnd, world, ledger, TypeOK
<1>3. ASSUME NEW s \in Sym, CandleClosed(s) PROVE TypeOK'
      <2>1. h' \in Handler
            BY <1>3 DEF CandleClosed, HandlerIdle, OwnOpen, Handler
      <2>2. QED
            BY <1>3, <2>1, Known DEF CandleClosed, world, positions, ledger, control, TypeOK
<1>4. QED
      BY <1>1, <1>2, <1>3

LEMMA StepTypes == IndInv /\ [Next]_vars => TypeOK'
<1> SUFFICES ASSUME IndInv, [Next]_vars PROVE TypeOK'
    OBVIOUS
<1>0. spent' \in Spent
      BY SpentGrows
<1>1. CASE HandlerStep
      BY <1>0, <1>1, ManageTypes, AnswerTypes, EntryTypes DEF HandlerStep
<1>2. CASE ReconcileStep
      BY <1>0, <1>2, ReconcileTypes
<1>3. CASE FlattenStep
      BY <1>0, <1>3, FlattenTypes
<1>4. CASE Environment
      BY <1>0, <1>4, ExchangeTypes, FlattenTypes, ControlTypes DEF Environment
<1>5. CASE UNCHANGED vars
      BY <1>5, Known DEF vars, TypeOK
<1>6. QED
      BY <1>1, <1>2, <1>3, <1>4, <1>5 DEF Next

-----------------------------------------------------------------------------
(* What a step does to the trades *)

\* At most one row is written: the position as it now is, unless the write fails.
Stores(i) ==
    \/ rows' = [rows EXCEPT ![i] = pos'[i]]
    \/ rows' = rows /\ spent'.fail = spent.fail + 1

\* Nothing disappears and no trade is opened: own trades keep their symbols and
\* may at most be closed, one at a time; the table follows.
Calm ==
    /\ \A j \in Ids : pos[j].state # "NONE" => pos'[j].state # "NONE"
    /\ \A j \in Ids : pos'[j].state # "NONE" => pos'[j].sym \in Sym
    /\ \A u \in OwnIds :
          /\ pos'[u].sym = pos[u].sym
          /\ pos[u].state = "NONE" => pos'[u].state = "NONE"
          /\ pos[u].state = "CLOSED" => pos'[u].state = "CLOSED"
          /\ pos'[u].state \in {"NONE", "MANAGING", "TRAILING", "CLOSED"}
    /\ \E c \in Ids \cup {None} :
          /\ \A j \in Ids \ {c} : pos'[j] = pos[j] /\ rows'[j] = rows[j]
          /\ c \in Ids => rows'[c] \in {rows[c], pos'[c]}
    /\ rows = pos /\ spent'.fail = spent.fail => rows' = pos'

SameStates == \A u \in OwnIds : pos'[u].state = pos[u].state

LEMMA StillCalm == IndInv /\ UNCHANGED positions => Calm /\ SameStates
<1> SUFFICES ASSUME IndInv, UNCHANGED positions PROVE Calm /\ SameStates
    OBVIOUS
<1>1. pos' = pos /\ rows' = rows
      BY DEF positions
<1>2. None \in Ids \cup {None} /\ None \notin Ids
      BY Known
<1>3. \E c \in Ids \cup {None} :
         /\ \A j \in Ids \ {c} : pos'[j] = pos[j] /\ rows'[j] = rows[j]
         /\ c \in Ids => rows'[c] \in {rows[c], pos'[c]}
      BY <1>1, <1>2
<1>4. QED
      BY <1>1, <1>3 DEF IndInv, TradeInv, SymInv, Calm, SameStates

\* One position changes, and an own one only to live on or to be closed.
LEMMA MoveCalm ==
    ASSUME IndInv, NEW i \in Ids, pos' \in [Ids -> Position], Stores(i),
           \A j \in Ids \ {i} : pos'[j] = pos[j],
           pos[i].state # "NONE" => pos'[i].state # "NONE",
           pos'[i].state # "NONE" => pos'[i].sym \in Sym,
           i \in OwnIds =>
              /\ pos'[i].sym = pos[i].sym
              /\ pos[i].state = "NONE" => pos'[i].state = "NONE"
              /\ pos[i].state = "CLOSED" => pos'[i].state = "CLOSED"
              /\ pos'[i].state \in {"NONE", "MANAGING", "TRAILING", "CLOSED"}
    PROVE  Calm
<1>1. OwnIds \subseteq Ids /\ rows \in [Ids -> Position] /\ spent.fail \in Nat
      BY Known DEF Spent
<1>2. /\ \A j \in Ids \ {i} : rows'[j] = rows[j]
      /\ rows'[i] \in {rows[i], pos'[i]}
      BY <1>1 DEF Stores
<1>3. \E c \in Ids \cup {None} :
         /\ \A j \in Ids \ {c} : pos'[j] = pos[j] /\ rows'[j] = rows[j]
         /\ c \in Ids => rows'[c] \in {rows[c], pos'[c]}
      BY <1>2
<1>4. ASSUME rows = pos, spent'.fail = spent.fail PROVE rows' = pos'
      <2>1. rows' = [pos EXCEPT ![i] = pos'[i]]
            BY <1>1, <1>4 DEF Stores
      <2>2. QED
            BY <1>1, <1>4, <2>1
<1>5. \A j \in Ids : /\ pos[j].state # "NONE" => pos'[j].state # "NONE"
                     /\ pos'[j].state # "NONE" => pos'[j].sym \in Sym
      BY DEF IndInv, SymInv
<1>6. \A u \in OwnIds :
         /\ pos'[u].sym = pos[u].sym
         /\ pos[u].state = "NONE" => pos'[u].state = "NONE"
         /\ pos[u].state = "CLOSED" => pos'[u].state = "CLOSED"
         /\ pos'[u].state \in {"NONE", "MANAGING", "TRAILING", "CLOSED"}
      BY <1>1 DEF IndInv, TradeInv
<1>7. QED
      BY <1>3, <1>4, <1>5, <1>6, Zenon DEF Calm

\* Another symbol's external position appears, or a quantity changes.
LEMMA HealCalm ==
    ASSUME IndInv, NEW s \in Sym, NEW i \in Ids \cup {None}, NEW qty \in Nat,
           NEW next, Heal(s, i, qty), SaveHealed(s, i, next)
    PROVE  Calm /\ SameStates
<1>1. PICK id \in Ids : id = IF i = None THEN s ELSE i
      BY Known
<1>2. /\ pos' \in [Ids -> Position] /\ \A j \in Ids : pos[j] \in Position
      /\ pos \in [Ids -> Position]
      BY HealTypes, Known
<1>3. \A j \in Ids \ {id} : pos'[j] = pos[j]
      BY <1>1, <1>2 DEF Heal
<1>4. CASE i = None
      <2>1. pos'[id] = [sym |-> s, state |-> Adopted, qty |-> qty, tp1 |-> FALSE]
            BY <1>1, <1>2, <1>4 DEF Heal
      <2>2. pos'[id].state # "NONE" /\ pos'[id].sym \in Sym /\ id \notin OwnIds
            BY <1>1, <1>4, <2>1, NewStates, Known
      <2>3. SameStates
            BY <1>3, <2>2, Known DEF SameStates
      <2>4. CASE pos' = pos
            BY <2>4, StillCalm DEF SaveHealed, positions
      <2>5. CASE pos' # pos
            <3>1. Stores(id)
                  BY <1>1, <2>5, Known DEF SaveHealed, NotSaved, WriteFails, Stores, Spent
            <3>2. QED
                  BY <1>2, <1>3, <2>2, <2>3, <3>1, MoveCalm
      <2>6. QED
            BY <2>4, <2>5
<1>5. CASE i # None
      <2>1. pos'[id] = [pos[id] EXCEPT !.qty = qty]
            BY <1>1, <1>2, <1>5 DEF Heal
      <2>2. pos'[id].state = pos[id].state /\ pos'[id].sym = pos[id].sym
            BY <1>2, <2>1 DEF Position
      <2>3. /\ pos[id].state # "NONE" => pos[id].sym \in Sym
            /\ id \in OwnIds =>
                 pos[id].state \in {"NONE", "MANAGING", "TRAILING", "CLOSED"}
            BY DEF IndInv, SymInv, TradeInv
      <2>4. SameStates
            BY <1>3, <2>2, Known DEF SameStates
      <2>5. CASE pos' = pos
            BY <2>5, StillCalm DEF SaveHealed, positions
      <2>6. CASE pos' # pos
            <3>1. Stores(id)
                  BY <1>1, <2>6, Known DEF SaveHealed, NotSaved, WriteFails, Stores, Spent
            <3>2. QED
                  BY <1>2, <1>3, <2>1, <2>2, <2>3, <2>4, <3>1, MoveCalm
      <2>7. QED
            BY <2>5, <2>6
<1>6. QED
      BY <1>4, <1>5

LEMMA ReconcileCalm ==
    ASSUME IndInv, ReconcileStep
    PROVE  Calm /\ SameStates
<1>0. r.snap \in [Sym -> Nat] /\ r.map \in [Sym -> Ids \cup {None}]
      BY Known DEF Pass
<1>1. CASE Snapshot \/ EmptySnapshot \/ UNCHANGED positions
      BY <1>1, StillCalm DEF Snapshot, EmptySnapshot
<1>2. CASE Apply /\ ~ UNCHANGED positions
      <2>1. PICK map \in LocalMaps : \E s \in Upcoming(map, Listed(r.snap)) :
              /\ Heal(s, map[s], r.snap[s])
              /\ SaveHealed(s, map[s], [r EXCEPT !.pc = "work", !.map = map,
                                                 !.todo = Listed(r.snap) \ {s}])
            BY <1>2 DEF Apply
      <2>2. PICK s \in Sym : /\ Heal(s, map[s], r.snap[s])
                             /\ \E next : SaveHealed(s, map[s], next)
            BY <2>1 DEF Upcoming, Listed
      <2>3. map[s] \in Ids \cup {None} /\ r.snap[s] \in Nat
            BY <1>0 DEF LocalMaps
      <2>4. QED
            BY <2>2, <2>3, HealCalm
<1>3. CASE ApplyNext /\ ~ UNCHANGED positions
      <2>1. PICK s \in Sym : /\ Heal(s, r.map[s], r.snap[s])
                             /\ \E next : SaveHealed(s, r.map[s], next)
            BY <1>3, Known DEF ApplyNext, Upcoming, Pass
      <2>2. r.map[s] \in Ids \cup {None} /\ r.snap[s] \in Nat
            BY <1>0
      <2>3. QED
            BY <2>1, <2>2, HealCalm
<1>4. QED
      BY <1>1, <1>2, <1>3 DEF ReconcileStep

LEMMA SavedStores ==
    ASSUME NEW i, Saved(i) \/ NotSaved \/ (WriteFails /\ rows' = [rows EXCEPT ![i] = pos'[i]]),
           spent \in Spent
    PROVE  Stores(i)
BY DEF Saved, NotSaved, WriteFails, Stores, Spent

LEMMA HandlerCalm ==
    ASSUME IndInv, HandlerStep, ~AddPosition
    PROVE  Calm
<1>0. /\ HandlerInv /\ TradeInv /\ SymInv
      /\ \A i \in Ids : pos[i] \in Position
      /\ OwnIds \subseteq Ids /\ pos \in [Ids -> Position] /\ spent \in Spent
      BY Known DEF IndInv
<1>1. CASE UNCHANGED positions
      BY <1>1, StillCalm
<1>2. ASSUME NEW u \in OwnIds, Stores(u), pos' \in [Ids -> Position],
             pos[u].state \in {"MANAGING", "TRAILING", "CLOSED"},
             pos'[u].state \in {"MANAGING", "TRAILING", "CLOSED"},
             pos[u].state = "CLOSED" => pos'[u].state = "CLOSED",
             pos'[u].sym = pos[u].sym, \A j \in Ids \ {u} : pos'[j] = pos[j]
      PROVE  Calm
      <2>1. pos[u].sym \in Sym
            BY <1>0, <1>2 DEF SymInv
      <2>2. QED
            BY <1>0, <1>2, <2>1, MoveCalm
<1>3. ASSUME NEW u \in OwnIds, Hold(u) PROVE Calm
      <2>1. pos[u].state \in {"MANAGING", "TRAILING"}
            BY <1>0, <1>3 DEF Hold, IsOpen, Terminal, TradeInv
      <2>2. pos' = [pos EXCEPT ![u].state = IF pos[u].tp1 THEN AfterTrail(@) ELSE @]
            BY <1>3 DEF Hold
      <2>3. pos'[u].state = pos[u].state /\ pos'[u].sym = pos[u].sym
            BY <1>0, <2>1, <2>2, OwnMoves DEF Position
      <2>4. \A j \in Ids \ {u} : pos'[j] = pos[j]
            BY <1>0, <2>2
      <2>5. pos' \in [Ids -> Position]
            BY <1>0, <2>1, <2>2, PositionType, MoveTypes, Zenon DEF PositionState
      <2>6. Stores(u)
            BY <1>0, <1>3, SavedStores DEF Hold
      <2>7. QED
            BY <1>2, <2>1, <2>3, <2>4, <2>5, <2>6
<1>4. CASE TakeProfitAnswered
      <2>1. h.cur \in OwnIds /\ pos[h.cur].state \in {"MANAGING", "TRAILING", "CLOSED"}
            BY <1>0, <1>4
            DEF TakeProfitAnswered, Answered, HandlerInv, Exiting, Seen, TradeInv
      <2>2. Stores(h.cur)
            BY <1>0, <1>4, SavedStores DEF TakeProfitAnswered
      <2>3. CASE h.ans = 0
            BY <1>0, <1>2, <1>4, <2>1, <2>2, <2>3 DEF TakeProfitAnswered
      <2>4. CASE h.ans # 0
            <3> DEFINE p == [pos[h.cur] EXCEPT
                               !.qty = @ - h.ans, !.tp1 = TRUE,
                               !.state = AfterTrail(AfterTakeProfit(@))]
            <3>1. pos' = [pos EXCEPT ![h.cur] = p]
                  BY <1>0, <1>4, <2>1, <2>4 DEF TakeProfitAnswered, Position
            <3>2. /\ p.state = AfterTrail(AfterTakeProfit(pos[h.cur].state))
                  /\ p.sym = pos[h.cur].sym
                  BY <1>0, <2>1 DEF Position
            <3>3. h.ans \in Nat /\ pos[h.cur].qty \in Int
                  BY <1>0, <2>1, Known DEF Handler, Position
            <3>4. p \in Position
                  <4>1. pos[h.cur].qty - h.ans \in Int
                        BY <3>3
                  <4>2. AfterTrail(AfterTakeProfit(pos[h.cur].state))
                          \in PositionState \cup {"NONE"}
                        BY <1>0, <2>1, OwnMoves DEF PositionState
                  <4>3. QED
                        BY <1>0, <2>1, <4>1, <4>2, PositionType
            <3> HIDE DEF p
            <3>5. pos'[h.cur] = p /\ \A j \in Ids \ {h.cur} : pos'[j] = pos[j]
                  BY <1>0, <2>1, <3>1
            <3>6. pos' \in [Ids -> Position]
                  BY <1>0, <3>1, <3>4
            <3>7. /\ pos'[h.cur].state \in {"TRAILING", "CLOSED"}
                  /\ pos[h.cur].state = "CLOSED" => pos'[h.cur].state = "CLOSED"
                  BY <2>1, <3>2, <3>5, OwnMoves
            <3>8. QED
                  BY <1>2, <2>1, <2>2, <3>2, <3>5, <3>6, <3>7
      <2>5. QED
            BY <2>3, <2>4
<1>5. CASE CloseAnswered
      <2>1. h.cur \in OwnIds /\ pos[h.cur].state \in {"MANAGING", "TRAILING", "CLOSED"}
            BY <1>0, <1>5
            DEF CloseAnswered, Answered, HandlerInv, Exiting, Seen, TradeInv
      <2>2. pos' = [pos EXCEPT ![h.cur].state = AfterClose(@)]
            BY <1>5 DEF CloseAnswered
      <2>3. pos'[h.cur].state = "CLOSED" /\ pos'[h.cur].sym = pos[h.cur].sym
            BY <1>0, <2>1, <2>2, OwnMoves DEF Position
      <2>4. \A j \in Ids \ {h.cur} : pos'[j] = pos[j]
            BY <1>0, <2>2
      <2>5. pos' \in [Ids -> Position]
            <3>1. [pos[h.cur] EXCEPT !.state = AfterClose(@)] \in Position
                  BY <1>0, <2>1, PositionType, MoveTypes
            <3>2. QED
                  BY <1>0, <2>1, <2>2, <3>1
      <2>6. Stores(h.cur)
            BY <1>0, <1>5, SavedStores DEF CloseAnswered
      <2>7. QED
            BY <1>2, <2>1, <2>3, <2>4, <2>5, <2>6
<1>6. CASE \E u \in OwnIds : \/ SkipClosed(u) \/ TakeProfit(u) \/ CloseOut(u)
                             \/ CloseNothing(u) \/ BookTrade(u) \/ AllowEntry(u)
                             \/ NextSignal(u)
      BY <1>1, <1>6
      DEF SkipClosed, TakeProfit, CloseOut, SendExit, CloseNothing, BookTrade,
          AllowEntry, NextSignal
<1>7. CASE \/ CancelRemainder \/ CancelLost \/ CloseFailed \/ ManagedAll \/ NoEntry
           \/ \E q \in 1..MaxQty : PlaceEntry(q)
      BY <1>1, <1>7
      DEF CancelRemainder, CancelLost, CloseFailed, ManagedAll, NoEntry, PlaceEntry
<1>8. QED
      BY <1>3, <1>4, <1>5, <1>6, <1>7 DEF HandlerStep

LEMMA FlattenCalm ==
    ASSUME IndInv, FlattenStep
    PROVE  Calm
<1>1. CASE UNCHANGED positions
      BY <1>1, StillCalm
<1>2. CASE FlattenMark
      <2>0. /\ f.cur \in Ids /\ pos[f.cur].state # "NONE" /\ pos[f.cur] \in Position
            /\ pos \in [Ids -> Position] /\ spent \in Spent
            BY <1>2, Known DEF IndInv, FlattenInv, FlattenMark
      <2>1. pos' = [pos EXCEPT ![f.cur].state = AfterClose(@)]
            BY <1>2 DEF FlattenMark
      <2>2. /\ pos'[f.cur].state = AfterClose(pos[f.cur].state)
            /\ pos'[f.cur].sym = pos[f.cur].sym
            BY <2>0, <2>1 DEF Position
      <2>3. \A j \in Ids \ {f.cur} : pos'[j] = pos[j]
            BY <2>0, <2>1
      <2>4. f.cur \in OwnIds => pos'[f.cur].state = "CLOSED"
            BY <2>0, <2>2, OwnMoves DEF IndInv, TradeInv
      <2>5. pos'[f.cur].state # "NONE" /\ pos[f.cur].sym \in Sym
            BY <2>0, <2>2, MoveTypes, PositionType DEF IndInv, SymInv
      <2>6. pos' \in [Ids -> Position]
            <3>1. [pos[f.cur] EXCEPT !.state = AfterClose(@)] \in Position
                  BY <2>0, PositionType, MoveTypes
            <3>2. QED
                  BY <2>0, <2>1, <3>1
      <2>7. Stores(f.cur)
            BY <1>2, <2>0, SavedStores DEF FlattenMark
      <2>8. QED
            BY <2>0, <2>2, <2>3, <2>4, <2>5, <2>6, <2>7, MoveCalm
<1>3. QED
      BY <1>1, <1>2 DEF FlattenStep, FlattenClose, FlattenPause

\* Only the end of an entry and the end of the process do anything else.
LEMMA StepCalm == IndInv /\ [Next]_vars => Calm \/ AddPosition \/ TasksEnd
<1> SUFFICES ASSUME IndInv, [Next]_vars, ~AddPosition, ~TasksEnd PROVE Calm
    OBVIOUS
<1>1. CASE Environment
      BY <1>1, StillCalm
      DEF Environment, CandleClosed, ExchangeExpire, ExchangeFill, UserTrade,
          PauseCommand, ResumeCommand, FlattenStart, FlattenAborts, EquityBrake,
          LimitExpires, Crash, GracefulStop
<1>2. CASE UNCHANGED vars
      BY <1>2, StillCalm DEF vars, positions
<1>3. QED
      BY <1>1, <1>2, HandlerCalm, ReconcileCalm, FlattenCalm DEF Next

\* The end of the tasks: what was not written is gone.
LEMMA Ended ==
    ASSUME TasksEnd
    PROVE  /\ pos' = rows /\ rows' = rows /\ h' = HandlerIdle /\ f' = FlattenIdle
           /\ booked' = booked /\ signals' = signals
BY DEF TasksEnd, ledger

-----------------------------------------------------------------------------
(* The invariant *)

\* Who touches the handler's own memory and the results.
LEMMA Others ==
    ASSUME [Next]_vars, ~HandlerStep, ~(\E s \in Sym : CandleClosed(s))
    PROVE  /\ h' = h \/ h' = HandlerIdle
           /\ booked' = booked /\ signals' = signals
<1>1. CASE ReconcileStep \/ FlattenStep
      BY <1>1 DEF ReconcileStep, Snapshot, EmptySnapshot, Apply, ApplyNext,
                  FlattenStep, FlattenClose, FlattenMark, FlattenPause, ledger
<1>2. CASE Environment
      BY <1>2 DEF Environment, ExchangeExpire, ExchangeFill, UserTrade, PauseCommand,
                  ResumeCommand, FlattenStart, FlattenAborts, EquityBrake,
                  LimitExpires, Crash, GracefulStop, TasksEnd, ledger
<1>3. QED
      BY <1>1, <1>2 DEF Next, vars

LEMMA Results ==
    ASSUME [Next]_vars, ~(\E u \in OwnIds : BookTrade(u))
    PROVE  booked' = booked /\ signals \subseteq signals'
<1>1. CASE HandlerStep
      BY <1>1
      DEF HandlerStep, SkipClosed, Hold, TakeProfit, CloseOut, SendExit,
          CloseNothing, AllowEntry, NextSignal, CancelRemainder, CancelLost,
          TakeProfitAnswered, CloseAnswered, CloseFailed, ManagedAll, NoEntry,
          PlaceEntry, AddPosition, ledger
<1>2. ASSUME NEW s \in Sym, CandleClosed(s)
      PROVE  booked' = booked /\ signals \subseteq signals'
      BY <1>2 DEF CandleClosed, ledger
<1>3. QED
      BY <1>1, <1>2, Others

\* The end of an entry makes the trade of the handler, and nothing else.
LEMMA Added ==
    ASSUME IndInv, AddPosition
    PROVE  /\ h.cur \in OwnIds /\ h.cur \in signals /\ h.sym \in Sym
           /\ pos[h.cur].state = "NONE" /\ booked[h.cur] = 0
           /\ pos'[h.cur].state = "MANAGING" /\ pos'[h.cur].sym = h.sym
           /\ \A j \in Ids \ {h.cur} : pos'[j] = pos[j] /\ rows'[j] = rows[j]
           /\ rows[h.cur].state = "NONE" /\ rows'[h.cur] \in {rows[h.cur], pos'[h.cur]}
           /\ rows = pos /\ spent'.fail = spent.fail => rows' = pos'
           /\ Cardinality(OwnOpen) < MaxOpen
           /\ \A u \in OwnOpen : pos[u].sym # h.sym
           /\ signals' = signals /\ booked' = booked /\ h' = HandlerIdle
<1>1. Entering
      BY DEF AddPosition, Answered, Entering
<1>2. /\ h.cur \in OwnIds /\ h.cur \in signals /\ pos[h.cur].state = "NONE"
      BY <1>1 DEF IndInv, HandlerInv
<1>3. rows[h.cur].state = "NONE" /\ booked[h.cur] = 0
      BY <1>2, Known DEF IndInv, RowInv
<1>4. h.sym \in Sym
      BY DEF IndInv, HandlerInv, AddPosition, Answered
<1>5. /\ pos' = [pos EXCEPT ![h.cur] = [sym |-> h.sym, state |-> "MANAGING",
                                        qty |-> h.ans, tp1 |-> FALSE]]
      /\ signals' = signals /\ booked' = booked /\ h' = HandlerIdle
      BY NewStates DEF AddPosition, ledger
<1>6. Stores(h.cur)
      BY Known, SavedStores DEF AddPosition
<1>7. /\ pos \in [Ids -> Position] /\ rows \in [Ids -> Position] /\ h.cur \in Ids
      /\ spent.fail \in Nat
      BY <1>2, Known DEF Spent
<1>8. /\ \A j \in Ids \ {h.cur} : pos'[j] = pos[j] /\ rows'[j] = rows[j]
      /\ rows'[h.cur] \in {rows[h.cur], pos'[h.cur]}
      BY <1>5, <1>6, <1>7 DEF Stores
<1>9. ASSUME rows = pos, spent'.fail = spent.fail PROVE rows' = pos'
      BY <1>5, <1>6, <1>7, <1>9 DEF Stores
<1>10. pos'[h.cur].state = "MANAGING" /\ pos'[h.cur].sym = h.sym
      BY <1>5, <1>7
<1>11. /\ Cardinality(OwnOpen) < MaxOpen
       /\ \A u \in OwnOpen : pos[u].sym # h.sym
      BY <1>1 DEF IndInv, LimitInv, Trying
<1>12. QED
      BY <1>2, <1>3, <1>4, <1>5, <1>8, <1>9, <1>10, <1>11

LEMMA TradeStep == IndInv /\ [Next]_vars => TradeInv'
<1> SUFFICES ASSUME IndInv, [Next]_vars PROVE TradeInv'
    OBVIOUS
<1>0. TradeInv /\ RowInv /\ signals \subseteq signals'
      <2>1. CASE \E u \in OwnIds : BookTrade(u)
            BY <2>1 DEF IndInv, BookTrade
      <2>2. QED
            BY <2>1, Results DEF IndInv
<1>1. CASE AddPosition
      <2>1. \A u \in OwnIds \ {h.cur} : pos'[u] = pos[u]
            BY <1>1, Added, Known
      <2>2. QED
            BY <1>0, <1>1, <2>1, Added DEF TradeInv
<1>2. CASE TasksEnd
      BY <1>0, <1>2, Ended DEF TradeInv, RowInv
<1>3. CASE Calm
      <2>1. OwnIds \subseteq Ids
            BY Known
      <2>2. \A u \in OwnIds : pos'[u].state = "NONE" => pos[u].state = "NONE"
            BY <1>3, <2>1 DEF Calm
      <2>3. QED
            BY <1>0, <1>3, <2>2 DEF TradeInv, Calm
<1>4. QED
      BY <1>1, <1>2, <1>3, StepCalm

LEMMA RowStep == IndInv /\ [Next]_vars => RowInv'
<1> SUFFICES ASSUME IndInv, [Next]_vars PROVE RowInv'
    OBVIOUS
<1>0. /\ TradeInv /\ TradeInv' /\ RowInv /\ HandlerInv /\ OwnIds \subseteq Ids
      /\ booked \in [OwnIds -> Nat] /\ spent \in Spent
      BY TradeStep, Known DEF IndInv
<1>1. spent'.fail = 0 => spent.fail = 0 /\ spent'.fail = spent.fail /\ rows = pos
      BY <1>0, SpentGrows DEF RowInv, Spent
<1>2. CASE AddPosition
      BY <1>0, <1>1, <1>2, Added DEF TradeInv, RowInv
<1>3. CASE TasksEnd
      BY <1>0, <1>3, Ended DEF RowInv
<1>4. ASSUME NEW u \in OwnIds, BookTrade(u) PROVE RowInv'
      <2>1. rows[u].state = "CLOSED" /\ booked[u] = 0
            BY <1>0, <1>4 DEF BookTrade, HandlerInv, Unreported
      <2>2. /\ booked' = [booked EXCEPT ![u] = @ + 1]
            /\ pos' = pos /\ rows' = rows
            BY <1>4 DEF BookTrade, positions
      <2>3. QED
            BY <1>0, <1>1, <2>1, <2>2 DEF RowInv
<1>5. CASE Calm /\ booked' = booked
      <2>1. \A u \in OwnIds : /\ rows'[u] \in {rows[u], pos'[u]}
                              /\ pos'[u].sym = pos[u].sym
                              /\ pos[u].state # "NONE" => pos'[u].state # "NONE"
                              /\ pos[u].state = "CLOSED" => pos'[u].state = "CLOSED"
            BY <1>0, <1>5 DEF Calm
      <2>2. spent'.fail = 0 => rows' = pos'
            BY <1>1, <1>5 DEF Calm
      <2>3. QED
            BY <1>0, <1>5, <2>1, <2>2 DEF TradeInv, RowInv
<1>6. QED
      BY <1>2, <1>3, <1>4, <1>5, StepCalm, Results

LEMMA SymStep == IndInv /\ [Next]_vars => SymInv'
<1> SUFFICES ASSUME IndInv, [Next]_vars PROVE SymInv'
    OBVIOUS
<1>0. SymInv
      BY DEF IndInv
<1>1. CASE AddPosition
      BY <1>0, <1>1, Added DEF SymInv
<1>2. CASE TasksEnd
      BY <1>0, <1>2, Ended DEF SymInv
<1>3. CASE Calm
      BY <1>0, <1>3 DEF Calm, SymInv
<1>4. QED
      BY <1>1, <1>2, <1>3, StepCalm

\* Only a restart makes a position disappear.
LEMMA Exists == IndInv /\ [Next]_vars /\ ~TasksEnd =>
                    \A j \in Ids : pos[j].state # "NONE" => pos'[j].state # "NONE"
<1> SUFFICES ASSUME IndInv, [Next]_vars, ~TasksEnd
             PROVE  \A j \in Ids : pos[j].state # "NONE" => pos'[j].state # "NONE"
    OBVIOUS
<1>1. CASE AddPosition
      BY <1>1, Added
<1>2. CASE Calm
      BY <1>2 DEF Calm
<1>3. QED
      BY <1>1, <1>2, StepCalm

LEMMA FlattenSteps == IndInv /\ [Next]_vars => FlattenInv'
<1> SUFFICES ASSUME IndInv, [Next]_vars PROVE FlattenInv'
    OBVIOUS
<1>0. /\ FlattenInv /\ f.todo \subseteq Ids
      /\ ~TasksEnd => \A j \in Ids : pos[j].state # "NONE" => pos'[j].state # "NONE"
      BY Exists, Known DEF IndInv, Flatten
<1>2. CASE f' = FlattenIdle
      BY <1>2 DEF FlattenInv, FlattenIdle
<1> SUFFICES ASSUME f' # FlattenIdle PROVE FlattenInv'
    BY <1>2
<1>lives. ~TasksEnd
      BY DEF TasksEnd
<1>1. CASE f' = f
      BY <1>0, <1>1, <1>lives DEF FlattenInv
<1>3. ASSUME NEW i \in Ids, FlattenClose(i), f' # FlattenIdle PROVE FlattenInv'
      <2>1. f' = [pc |-> "mark", cur |-> i, todo |-> f.todo \ {i}]
            BY <1>3 DEF FlattenClose
      <2>2. i \in f.todo
            BY <1>3 DEF FlattenClose
      <2>3. QED
            BY <1>0, <1>lives, <2>1, <2>2 DEF FlattenInv
<1>4. CASE FlattenMark
      <2>1. f' = [f EXCEPT !.pc = "close", !.cur = None]
            BY <1>4 DEF FlattenMark
      <2>2. f'.pc = "close" /\ f'.todo = f.todo
            BY <2>1, Known DEF Flatten
      <2>3. QED
            BY <1>0, <1>lives, <2>2 DEF FlattenInv
<1>5. CASE FlattenStart
      <2>1. f' = [FlattenIdle EXCEPT !.pc = "close", !.todo = {i \in Ids : IsOpen(i)}]
            BY <1>5 DEF FlattenStart
      <2>2. f'.pc = "close" /\ f'.todo = {i \in Ids : IsOpen(i)}
            BY <2>1 DEF FlattenIdle
      <2>3. QED
            BY <1>0, <1>lives, <2>2 DEF FlattenInv, IsOpen
<1>6. CASE HandlerStep
      BY <1>1, <1>6
      DEF HandlerStep, SkipClosed, Hold, TakeProfit, CloseOut, SendExit,
          CloseNothing, AllowEntry, NextSignal, CancelRemainder, CancelLost, BookTrade,
          TakeProfitAnswered, CloseAnswered, CloseFailed, ManagedAll, NoEntry,
          PlaceEntry, AddPosition
<1>7. CASE ReconcileStep
      BY <1>1, <1>7 DEF ReconcileStep, Snapshot, EmptySnapshot, Apply, ApplyNext
<1>8. CASE FlattenStep
      BY <1>2, <1>3, <1>4, <1>8 DEF FlattenStep, FlattenPause
<1>9. CASE Environment
      BY <1>1, <1>2, <1>5, <1>9
      DEF Environment, CandleClosed, ExchangeExpire, ExchangeFill, UserTrade,
          PauseCommand, ResumeCommand, FlattenAborts, EquityBrake, LimitExpires, Crash,
          GracefulStop, TasksEnd
<1>10. QED
      BY <1>1, <1>6, <1>7, <1>8, <1>9 DEF Next, vars

\* The handler at rest holds nothing.
LEMMA IdleHolds ==
    ASSUME h' = HandlerIdle
    PROVE  HandlerInv' /\ ~Trying' /\ ~Exiting'
BY DEF HandlerIdle, HandlerInv, Trying, Entering, Exiting

\* What exists, or is closed and not reported, stays so in a calm step.
LEMMA CalmSets ==
    ASSUME IndInv, Calm, booked' = booked
    PROVE  /\ Seen' = Seen /\ Unreported \subseteq Unreported'
           /\ \A u \in OwnIds : pos[u].state = "NONE" => pos'[u].state = "NONE"
<1>1. OwnIds \subseteq Ids
      BY Known
<1>2. \A u \in OwnIds : rows'[u] \in {rows[u], pos'[u]}
      BY <1>1 DEF Calm
<1>3. \A u \in OwnIds : rows[u].state = "CLOSED" => rows'[u].state = "CLOSED"
      BY <1>2 DEF Calm, IndInv, RowInv
<1>4. QED
      BY <1>1, <1>3 DEF Calm, Seen, Unreported

\* What an order for an exit leaves the handler with.
LEMMA SendExitHolds ==
    ASSUME IndInv, NEW u \in OwnIds, NEW q, NEW why \in {"tp", "close"},
           Managing(u), IsOpen(u), SendExit(u, q, why), h' # HandlerIdle
    PROVE  /\ h'.pc \in {"wait", "answered"} /\ h'.why = why /\ h'.cur = u
           /\ h'.sym = h.sym /\ h'.todo = h.todo \ {u} /\ h'.closed = h.closed
           /\ pos' = pos /\ rows' = rows /\ booked' = booked
BY Known DEF SendExit, Handler, ledger, positions

LEMMA ManageHolds ==
    ASSUME IndInv, Calm, booked' = booked, NEW u \in OwnIds,
           \/ SkipClosed(u) \/ Hold(u) \/ TakeProfit(u) \/ CloseOut(u)
           \/ CloseNothing(u)
    PROVE  HandlerInv' /\ ~Trying'
<1>0. HandlerInv /\ TradeInv /\ RowInv /\ h \in Handler
      BY Known DEF IndInv
<1>1. CASE h' = HandlerIdle
      BY <1>1, IdleHolds
<1>2. CASE (SkipClosed(u) \/ Hold(u) \/ CloseNothing(u)) /\ h' # HandlerIdle
      <2>1. h' = [h EXCEPT !.todo = @ \ {u}] /\ h.pc = "manage"
            BY <1>2 DEF SkipClosed, Hold, CloseNothing, Managing
      <2>2. /\ h'.pc = "manage" /\ h'.todo = h.todo \ {u} /\ h'.closed = h.closed
            /\ h'.sym = h.sym
            BY <1>0, <2>1 DEF Handler
      <2>3. QED
            BY <1>0, <2>1, <2>2, CalmSets
            DEF HandlerInv, Exiting, Trying, Entering
<1>3. ASSUME NEW q, NEW why \in {"tp", "close"}, Managing(u), IsOpen(u),
             SendExit(u, q, why), h' # HandlerIdle
      PROVE  HandlerInv' /\ ~Trying'
      <2>1. /\ h'.pc \in {"wait", "answered"} /\ h'.why = why /\ h'.cur = u
            /\ h'.sym = h.sym /\ h'.todo = h.todo \ {u} /\ h'.closed = h.closed
            /\ pos' = pos /\ booked' = booked
            BY <1>3, SendExitHolds
      <2>2. u \in Seen /\ booked[u] = 0 /\ h.pc = "manage"
            BY <1>0, <1>3, Known
            DEF IsOpen, Terminal, Seen, RowInv, Managing
      <2>3. QED
            BY <1>0, <1>3, <2>1, <2>2, CalmSets
            DEF HandlerInv, Exiting, Trying, Entering
<1>4. QED
      BY <1>1, <1>2, <1>3 DEF TakeProfit, CloseOut

LEMMA AnswerHolds ==
    ASSUME IndInv, Calm, booked' = booked, signals' = signals,
           \/ CancelRemainder \/ CancelLost \/ TakeProfitAnswered
           \/ CloseAnswered \/ CloseFailed \/ ManagedAll \/ NoEntry
    PROVE  /\ HandlerInv'
           /\ Trying' => Trying /\ h'.sym = h.sym
<1>0. HandlerInv /\ TradeInv /\ h \in Handler
      BY Known DEF IndInv
<1>1. CASE h' = HandlerIdle
      BY <1>1, IdleHolds
<1>2. CASE CancelRemainder
      <2>1. h' = [h EXCEPT !.pc = "answered"] /\ h.pc = "wait"
            BY <1>2 DEF CancelRemainder
      <2>2. /\ h'.pc = "answered" /\ h'.why = h.why /\ h'.cur = h.cur
            /\ h'.sym = h.sym /\ h'.todo = h.todo /\ h'.closed = h.closed
            BY <1>0, <2>1 DEF Handler
      <2>3. QED
            BY <1>0, <2>1, <2>2, CalmSets DEF HandlerInv, Exiting, Trying, Entering
<1>3. CASE TakeProfitAnswered /\ h' # HandlerIdle
      <2>1. h' = BackToManaging /\ h.pc = "answered"
            BY <1>3 DEF TakeProfitAnswered, Answered
      <2>2. /\ h'.pc = "manage" /\ h'.sym = h.sym
            /\ h'.todo = h.todo /\ h'.closed = h.closed
            BY <1>0, <2>1 DEF BackToManaging, Handler
      <2>3. QED
            BY <1>0, <2>1, <2>2, CalmSets DEF HandlerInv, Exiting, Trying, Entering
<1>4. CASE CloseAnswered /\ h' # HandlerIdle
      <2>1. /\ h' = [BackToManaging EXCEPT !.closed = @ \cup {h.cur}]
            /\ h.pc = "answered" /\ Exiting /\ Saved(h.cur)
            BY <1>4 DEF CloseAnswered, Answered, Exiting
      <2>2. /\ h'.pc = "manage" /\ h'.sym = h.sym
            /\ h'.todo = h.todo /\ h'.closed = h.closed \cup {h.cur}
            BY <1>0, <2>1 DEF BackToManaging, Handler
      <2>3. h.cur \in OwnIds /\ pos[h.cur].state # "NONE" /\ booked[h.cur] = 0
            BY <1>0, <2>1 DEF HandlerInv, Seen
      <2>4. pos'[h.cur].state = "CLOSED"
            <3>1. pos[h.cur].state \in {"MANAGING", "TRAILING", "CLOSED"}
                  BY <1>0, <2>3 DEF TradeInv
            <3>2. pos' = [pos EXCEPT ![h.cur].state = AfterClose(@)]
                  BY <1>4 DEF CloseAnswered
            <3>3. pos'[h.cur].state = AfterClose(pos[h.cur].state)
                  BY <2>3, <3>2, Known DEF Position
            <3>4. QED
                  BY <3>1, <3>3, OwnMoves
      <2>5. rows'[h.cur] = pos'[h.cur]
            BY <2>1, <2>3, Known DEF Saved
      <2>6. h.cur \in Unreported'
            BY <2>3, <2>4, <2>5 DEF Unreported
      <2>7. QED
            BY <1>0, <2>1, <2>2, <2>6, CalmSets DEF HandlerInv, Exiting, Trying, Entering
<1>5. CASE ManagedAll
      <2>1. h' = [h EXCEPT !.pc = "record"] /\ h.pc = "manage" /\ h.todo = {}
            BY <1>5 DEF ManagedAll
      <2>2. /\ h'.pc = "record" /\ h'.sym = h.sym
            /\ h'.todo = h.todo /\ h'.closed = h.closed
            BY <1>0, <2>1 DEF Handler
      <2>3. QED
            BY <1>0, <2>1, <2>2, CalmSets DEF HandlerInv, Exiting, Trying, Entering
<1>6. QED
      BY <1>1, <1>2, <1>3, <1>4, <1>5 DEF CancelLost, CloseFailed, NoEntry

\* An entry is on its way from the check of the portfolio to its end.
LEMMA EntryHolds ==
    ASSUME IndInv,
           \/ \E u \in OwnIds : BookTrade(u) \/ AllowEntry(u) \/ NextSignal(u)
           \/ \E q \in 1..MaxQty : PlaceEntry(q)
           \/ AddPosition
    PROVE  /\ HandlerInv'
           /\ Trying' => /\ Trying \/ CanOpen(h.sym)
                         /\ h'.sym = h.sym
<1>0. /\ HandlerInv /\ TradeInv /\ h \in Handler /\ booked \in [OwnIds -> Nat]
      BY Known DEF IndInv
<1>1. CASE h' = HandlerIdle
      BY <1>1, IdleHolds
<1>2. ASSUME NEW u \in OwnIds, BookTrade(u), h' # HandlerIdle
      PROVE  HandlerInv' /\ ~Trying'
      <2>1. /\ h' = [h EXCEPT !.closed = @ \ {u}] /\ h.pc = "record"
            /\ booked' = [booked EXCEPT ![u] = @ + 1]
            /\ pos' = pos /\ rows' = rows /\ signals' = signals
            BY <1>2 DEF BookTrade, positions
      <2>2. /\ h'.pc = "record" /\ h'.sym = h.sym
            /\ h'.todo = h.todo /\ h'.closed = h.closed \ {u}
            BY <1>0, <2>1 DEF Handler
      <2>3. Seen' = Seen /\ Unreported \ {u} \subseteq Unreported'
            BY <1>0, <2>1 DEF Seen, Unreported
      <2>4. QED
            BY <1>0, <2>1, <2>2, <2>3 DEF HandlerInv, Exiting, Trying, Entering
<1>3. ASSUME NEW u \in OwnIds, AllowEntry(u) \/ NextSignal(u)
      PROVE  HandlerInv' /\ (Trying \/ CanOpen(h.sym)) /\ h'.sym = h.sym
      <2>1. PICK pc \in {"entry", "last"} : h' = [h EXCEPT !.pc = pc, !.cur = u]
            BY <1>3 DEF AllowEntry, NextSignal
      <2>2. /\ h.pc \in {"record", "unfilled"} /\ u \notin signals
            /\ signals' = signals \cup {u}
            /\ pos' = pos /\ rows' = rows /\ booked' = booked
            /\ Trying \/ (h.closed = {} /\ CanOpen(h.sym))
            BY <1>3 DEF AllowEntry, NextSignal, RecordedAll, positions, Trying
      <2>3. /\ h'.pc = pc /\ h'.cur = u /\ h'.sym = h.sym
            /\ h'.todo = h.todo /\ h'.closed = h.closed
            BY <1>0, <2>1 DEF Handler
      <2>4. pos[u].state = "NONE"
            BY <1>0, <2>2 DEF TradeInv
      <2>5. h.todo = {} /\ h.closed = {}
            BY <1>0, <2>2 DEF HandlerInv, Trying
      <2>6. QED
            BY <1>0, <2>2, <2>3, <2>4, <2>5
            DEF HandlerInv, Seen, Exiting, Trying, Entering
<1>4. ASSUME NEW q \in 1..MaxQty, PlaceEntry(q), h' # HandlerIdle
      PROVE  HandlerInv' /\ Trying /\ h'.sym = h.sym
      <2>1. Trying /\ Entering /\ h.pc \in {"entry", "last"}
            BY <1>4 DEF PlaceEntry, Trying, Entering
      <2>2. /\ pos' = pos /\ rows' = rows /\ booked' = booked /\ signals' = signals
            BY <1>4 DEF PlaceEntry, ledger, positions
      <2>3. CASE h' = [h EXCEPT !.pc = "unfilled", !.cur = None]
            <3>1. /\ h'.pc = "unfilled" /\ h'.sym = h.sym
                  /\ h'.todo = h.todo /\ h'.closed = h.closed
                  BY <1>0, <2>3 DEF Handler
            <3>2. QED
                  BY <1>0, <2>1, <2>2, <3>1
                  DEF HandlerInv, Seen, Exiting, Trying, Entering
      <2>4. CASE h' # [h EXCEPT !.pc = "unfilled", !.cur = None]
            <3>1. PICK o : h' = [h EXCEPT !.pc = IF o.kind = "partial" THEN "wait"
                                                 ELSE "answered",
                                          !.why = "entry", !.ans = o.got]
                  BY <1>4, <2>4 DEF PlaceEntry
            <3>2. /\ h'.pc \in {"wait", "answered"} /\ h'.why = "entry"
                  /\ h'.cur = h.cur /\ h'.sym = h.sym
                  /\ h'.todo = h.todo /\ h'.closed = h.closed
                  BY <1>0, <3>1 DEF Handler
            <3>3. QED
                  BY <1>0, <2>1, <2>2, <3>2
                  DEF HandlerInv, Seen, Exiting, Trying, Entering
      <2>5. QED
            BY <2>3, <2>4
<1>5. CASE AddPosition
      BY <1>1, <1>5 DEF AddPosition
<1>6. QED
      BY <1>1, <1>2, <1>3, <1>4, <1>5

LEMMA HandlerSteps ==
    IndInv /\ [Next]_vars =>
        /\ HandlerInv'
        /\ Trying' => /\ Trying \/ CanOpen(h.sym)
                      /\ h'.sym = h.sym
<1> SUFFICES ASSUME IndInv, [Next]_vars
             PROVE  /\ HandlerInv'
                    /\ Trying' => /\ Trying \/ CanOpen(h.sym)
                                  /\ h'.sym = h.sym
    OBVIOUS
<1>1. CASE \/ \E u \in OwnIds : BookTrade(u) \/ AllowEntry(u) \/ NextSignal(u)
           \/ \E q \in 1..MaxQty : PlaceEntry(q)
           \/ AddPosition
      BY <1>1, EntryHolds
<1>2. CASE h' = HandlerIdle
      BY <1>2, IdleHolds
<1>3. ASSUME ~AddPosition, ~ \E u \in OwnIds : BookTrade(u), h' # HandlerIdle
      PROVE  Calm /\ booked' = booked
      BY <1>3, StepCalm, Results, Ended
<1>4. ASSUME NEW u \in OwnIds, ~AddPosition, ~ \E v \in OwnIds : BookTrade(v),
             h' # HandlerIdle,
             \/ SkipClosed(u) \/ Hold(u) \/ TakeProfit(u) \/ CloseOut(u)
             \/ CloseNothing(u)
      PROVE  HandlerInv' /\ ~Trying'
      BY <1>3, <1>4, ManageHolds
<1>5. ASSUME ~AddPosition, ~ \E v \in OwnIds : BookTrade(v), h' # HandlerIdle,
             \/ CancelRemainder \/ CancelLost \/ TakeProfitAnswered
             \/ CloseAnswered \/ CloseFailed \/ ManagedAll \/ NoEntry
      PROVE  HandlerInv' /\ (Trying' => Trying /\ h'.sym = h.sym)
      <2>1. signals' = signals
            BY <1>5 DEF CancelRemainder, CancelLost, TakeProfitAnswered,
                        CloseAnswered, CloseFailed, ManagedAll, NoEntry, ledger
      <2>2. QED
            BY <1>3, <1>5, <2>1, AnswerHolds
<1>6. ASSUME NEW s \in Sym, CandleClosed(s) PROVE HandlerInv' /\ ~Trying'
      <2>1. /\ h' = [HandlerIdle EXCEPT !.pc = "manage", !.sym = s,
                                        !.todo = {u \in OwnOpen : pos[u].sym = s}]
            /\ pos' = pos
            BY <1>6 DEF CandleClosed, positions
      <2>2. /\ h'.pc = "manage" /\ h'.sym = s /\ h'.closed = {}
            /\ h'.todo = {u \in OwnOpen : pos[u].sym = s}
            BY <2>1 DEF HandlerIdle
      <2>3. QED
            BY <2>1, <2>2
            DEF HandlerInv, Seen, Exiting, Trying, Entering, OwnOpen, IsOpen
<1>7. ASSUME ~HandlerStep, ~ \E s \in Sym : CandleClosed(s), h' # HandlerIdle
      PROVE  HandlerInv' /\ (Trying' => Trying /\ h'.sym = h.sym)
      <2>1. h' = h /\ Calm /\ booked' = booked /\ signals' = signals
            BY <1>3, <1>7, Others DEF HandlerStep
      <2>2. QED
            BY <2>1, CalmSets
            DEF IndInv, Calm, HandlerInv, Exiting, Trying, Entering
<1>8. QED
      BY <1>1, <1>2, <1>4, <1>5, <1>6, <1>7 DEF HandlerStep

\* The open trades are among the open positions, and both are finite.
LEMMA FiniteOpen ==
    /\ IsFiniteSet(OwnOpen) /\ Cardinality(OwnOpen) \in Nat
    /\ Cardinality(OwnOpen) <= Cardinality({i \in Ids : IsOpen(i)})
    /\ Cardinality({i \in Ids : IsOpen(i)}) \in Nat
<1>1. IsFiniteSet(Ids)
      BY CoreAssumption, FS_Union DEF Ids
<1>2. IsFiniteSet({i \in Ids : IsOpen(i)})
      BY <1>1, FS_Subset
<1>3. OwnOpen \subseteq {i \in Ids : IsOpen(i)}
      BY DEF OwnOpen, Ids
<1>4. QED
      BY <1>2, <1>3, FS_Subset, FS_CardinalityType

\* In a calm step the open trades are among those that were.
LEMMA CalmOpen ==
    ASSUME IndInv, Calm
    PROVE  /\ OwnOpen' \subseteq OwnOpen
           /\ Cardinality(OwnOpen') \in Nat
           /\ Cardinality(OwnOpen') <= Cardinality(OwnOpen)
           /\ \A u \in OwnOpen' : pos'[u].sym = pos[u].sym
<1>1. OwnOpen' \subseteq OwnOpen
      BY DEF IndInv, TradeInv, Calm, OwnOpen, IsOpen, Terminal
<1>2. \A u \in OwnOpen' : pos'[u].sym = pos[u].sym
      BY DEF Calm, OwnOpen
<1>3. QED
      BY <1>1, <1>2, FiniteOpen, FS_Subset, FS_CardinalityType

LEMMA LimitStep == IndInv /\ [Next]_vars => LimitInv'
<1> SUFFICES ASSUME IndInv, [Next]_vars PROVE LimitInv'
    OBVIOUS
<1>0. LimitInv /\ MaxOpen \in Nat
      BY CoreAssumption DEF IndInv
<1>g. /\ spent'.fail = 0 => spent.fail = 0
      /\ spent'.stop = 0 => spent.stop = 0
      BY SpentGrows, Known DEF Spent
<1>1. CASE AddPosition
      <2>1. ~Trying'
            BY <1>1, IdleHolds DEF AddPosition
      <2>2. OwnOpen' = OwnOpen \cup {h.cur} /\ h.cur \notin OwnOpen
            BY <1>1, Added, Known DEF OwnOpen, IsOpen, Terminal
      <2>3. Cardinality(OwnOpen') = Cardinality(OwnOpen) + 1
            BY <2>2, FiniteOpen, FS_AddElement
      <2>4. Cardinality(OwnOpen') <= MaxOpen
            BY <1>0, <1>1, <2>3, Added, FiniteOpen
      <2>5. \A u \in OwnOpen : pos'[u].sym = pos[u].sym /\ pos[u].sym # h.sym
            BY <1>1, <2>2, Added, Known DEF OwnOpen
      <2>6. ASSUME spent'.fail = 0 \/ spent'.stop = 0
            PROVE  \A u, v \in OwnOpen' : pos'[u].sym = pos'[v].sym => u = v
            <3>1. \A u, v \in OwnOpen : pos[u].sym = pos[v].sym => u = v
                  BY <1>0, <1>g, <2>6 DEF LimitInv, OwnLimits
            <3>2. QED
                  BY <1>1, <2>2, <2>5, <3>1, Added
      <2>7. QED
            BY <2>1, <2>4, <2>6 DEF LimitInv, OwnLimits
<1>2. CASE TasksEnd
      <2>1. ~Trying'
            BY <1>2, Ended, IdleHolds
      <2>2. ASSUME spent'.fail = 0 \/ spent'.stop = 0 PROVE pos' = pos /\ spent.fail = 0
            <3>1. spent.fail = 0
                  BY <1>g, <1>2, <2>2, SpentGrows
            <3>2. QED
                  BY <1>2, <3>1, Ended DEF IndInv, RowInv
      <2>3. ASSUME spent'.fail = 0 \/ spent'.stop = 0
            PROVE  /\ Cardinality(OwnOpen') <= MaxOpen
                   /\ \A u, v \in OwnOpen' : pos'[u].sym = pos'[v].sym => u = v
            <3>1. OwnOpen' = OwnOpen
                  BY <2>2, <2>3 DEF OwnOpen, IsOpen
            <3>2. QED
                  BY <1>0, <2>2, <2>3, <3>1 DEF LimitInv, OwnLimits
      <2>4. QED
            BY <2>1, <2>3 DEF LimitInv, OwnLimits
<1>3. CASE Calm
      <2>1. OwnLimits'
            <3>1. ASSUME spent'.fail = 0 \/ spent'.stop = 0
                  PROVE  /\ Cardinality(OwnOpen) <= MaxOpen
                         /\ \A u, v \in OwnOpen : pos[u].sym = pos[v].sym => u = v
                  BY <1>0, <1>g, <3>1 DEF LimitInv, OwnLimits
            <3>2. QED
                  BY <1>0, <1>3, <3>1, CalmOpen, FiniteOpen DEF OwnLimits
      <2>2. ASSUME Trying' PROVE (/\ Cardinality(OwnOpen) < MaxOpen
                                  /\ \A u \in OwnOpen : pos[u].sym # h.sym)'
            <3>1. /\ h'.sym = h.sym
                  /\ \/ Trying
                     \/ CanOpen(h.sym)
                  BY <2>2, HandlerSteps
            <3>2. /\ Cardinality(OwnOpen) < MaxOpen
                  /\ \A u \in OwnOpen : pos[u].sym # h.sym
                  <4>1. CASE Trying
                        BY <1>0, <4>1 DEF LimitInv
                  <4>2. CASE CanOpen(h.sym)
                        <5>1. Cardinality(OwnOpen) < MaxOpen
                              BY <1>0, <4>2, FiniteOpen DEF CanOpen
                        <5>2. \A u \in OwnOpen : pos[u].sym # h.sym
                              BY <4>2 DEF CanOpen, OpenOn, OwnOpen, Ids
                        <5>3. QED
                              BY <5>1, <5>2
                  <4>3. QED
                        BY <3>1, <4>1, <4>2
            <3>3. QED
                  BY <1>0, <1>3, <3>1, <3>2, CalmOpen, FiniteOpen
      <2>3. QED
            BY <2>1, <2>2 DEF LimitInv
<1>4. QED
      BY <1>1, <1>2, <1>3, StepCalm

LEMMA InitInv == Init => IndInv
<1> SUFFICES ASSUME Init PROVE IndInv
    OBVIOUS
<1>1. \A i \in Ids : pos[i].state = "NONE" /\ pos[i].sym = None /\ rows = pos
      BY DEF Init, NoPosition
<1>2. TypeOK
      <2>1. spent \in Spent
            BY DEF Init, Spent
      <2>2. QED
            BY <2>1, IdleTypes DEF Init, TypeOK
<1>3. TradeInv /\ SymInv /\ RowInv
      BY <1>1 DEF Init, TradeInv, SymInv, RowInv, Ids
<1>4. HandlerInv /\ ~Trying
      BY DEF Init, HandlerInv, HandlerIdle, Trying, Entering, Exiting
<1>5. FlattenInv
      BY DEF Init, FlattenInv, FlattenIdle
<1>6. OwnOpen = {}
      BY <1>1 DEF OwnOpen, IsOpen, Ids
<1>7. LimitInv
      BY <1>4, <1>6, FS_EmptySet, CoreAssumption DEF LimitInv, OwnLimits
<1>8. QED
      BY <1>2, <1>3, <1>4, <1>5, <1>7 DEF IndInv

LEMMA NextInv == IndInv /\ [Next]_vars => IndInv'
BY StepTypes, TradeStep, RowStep, SymStep, HandlerSteps, FlattenSteps, LimitStep DEF IndInv

\* What the handler remembers across its awaits stays true.
THEOREM MemoryIsSound == Spec => []IndInv
BY InitInv, NextInv, PTL DEF Spec

\* Every variable keeps its type.
THEOREM TypeCorrect == Spec => []TypeOK
<1>1. IndInv => TypeOK
      BY DEF IndInv
<1>2. QED
      BY <1>1, MemoryIsSound, PTL

\* The bot's own positions respect max_concurrent_positions and max_per_symbol
\* (portfolio_manager.py:31-37) for every portfolio, fault and interleaving, as
\* long as no restart reads rows that a failed write left behind.
THEOREM LimitsHold == Spec => []OwnLimits
<1>1. IndInv => OwnLimits
      BY DEF IndInv, LimitInv
<1>2. QED
      BY <1>1, MemoryIsSound, PTL

\* A result is reported at most once, and after the CLOSED row is there
\* (main.py:348-364).
THEOREM BookedOnceHolds == Spec => []BookedOnce
<1>1. IndInv => BookedOnce
      BY DEF IndInv, RowInv, BookedOnce
<1>2. QED
      BY <1>1, MemoryIsSound, PTL

\* A closed trade is reopened by nothing but a restart that does not find its
\* CLOSED row (models.py:108, reconciliation.py:94).
THEOREM ClosedHolds == Spec => ClosedIsFinal
<1>1. IndInv /\ IndInv' /\ [Next]_vars =>
        [\A u \in OwnIds :
           /\ rows[u].state = "CLOSED" => rows'[u].state = "CLOSED"
           /\ pos[u].state = "CLOSED" /\ (rows[u].state = "CLOSED" \/ spent'.stop = spent.stop)
                 => pos'[u].state = "CLOSED"]_vars
      <2> SUFFICES ASSUME IndInv, IndInv', [Next]_vars, NEW u \in OwnIds
                   PROVE  /\ rows[u].state = "CLOSED" => rows'[u].state = "CLOSED"
                          /\ /\ pos[u].state = "CLOSED"
                             /\ rows[u].state = "CLOSED" \/ spent'.stop = spent.stop
                             => pos'[u].state = "CLOSED"
          OBVIOUS
      <2>0. u \in Ids /\ RowInv /\ spent \in Spent
            BY Known DEF IndInv
      <2>1. CASE AddPosition
            BY <2>0, <2>1, Added DEF RowInv
      <2>2. CASE TasksEnd
            <3>1. spent' = [spent EXCEPT !.stop = @ + 1]
                  BY <2>2 DEF TasksEnd
            <3>2. spent'.stop # spent.stop
                  BY <2>0, <3>1 DEF Spent
            <3>3. QED
                  BY <2>0, <2>2, <3>2, Ended DEF RowInv
      <2>3. CASE Calm
            <3>1. rows'[u] \in {rows[u], pos'[u]}
                  BY <2>0, <2>3 DEF Calm
            <3>2. pos[u].state = "CLOSED" => pos'[u].state = "CLOSED"
                  BY <2>3 DEF Calm
            <3>3. QED
                  BY <2>0, <3>1, <3>2 DEF RowInv
      <2>4. QED
            BY <2>1, <2>2, <2>3, StepCalm
<1>2. QED
      BY <1>1, MemoryIsSound, PTL DEF Spec, ClosedIsFinal

-----------------------------------------------------------------------------
(* The book of trades *)

\* In memory or in the table.
LEMMA StageMeans ==
    ASSUME NEW p, p.state \in {"NONE", "MANAGING", "TRAILING", "CLOSED"}
    PROVE  /\ Stage(p) = "unseen" <=> p.state = "NONE"
           /\ Stage(p) = "closed" <=> p.state = "CLOSED"
           /\ Stage(p) = "open" <=> p.state \notin {"NONE", "CLOSED"}
           /\ Stage(p) \in {"unseen", "open", "closed"}
BY DEF Stage, Terminal

LEMMA OpenInBook == IndInv => Book!OpenTrades = OwnOpen
<1> SUFFICES ASSUME IndInv PROVE Book!OpenTrades = OwnOpen
    OBVIOUS
<1>1. \A u \in OwnIds : Stage(pos[u]) = "open" <=> IsOpen(u)
      BY StageMeans DEF IndInv, TradeInv, IsOpen, Terminal
<1>2. QED
      BY <1>1 DEF Book!OpenTrades, OwnOpen

\* The initial ledger is an empty book.
LEMMA BookInit == Init => Book!BookInit
BY DEF Init, Book!BookInit, NoPosition, Stage, Ids

\* Every step is a step of the book of trades or leaves it alone.
LEMMA BookStep == IndInv /\ IndInv' /\ [Next]_vars => [Book!BookNext]_(Book!bookVars)
<1> SUFFICES ASSUME IndInv, IndInv', [Next]_vars
             PROVE  Book!BookNext \/ UNCHANGED Book!bookVars
    OBVIOUS
<1> DEFINE stage  == [u \in OwnIds |-> Stage(pos[u])]
           stored == [u \in OwnIds |-> Stage(rows[u])]
           on     == [u \in OwnIds |-> pos[u].sym]
<1>0. /\ booked \in [OwnIds -> Nat] /\ OwnIds \subseteq Ids /\ RowInv /\ TradeInv
      /\ TradeInv' /\ RowInv' /\ None \notin Ids
      BY Known DEF IndInv
<1>1. CASE AddPosition
      <2>0. PICK c \in OwnIds, s \in Sym : c = h.cur /\ s = h.sym
            BY <1>1, Added
      <2>1. stage[c] = "unseen" /\ booked' = booked
            BY <1>1, <2>0, Added, StageMeans
      <2>2. \A u \in OwnIds \ {c} : pos'[u] = pos[u] /\ rows'[u] = rows[u]
            BY <1>0, <1>1, <2>0, Added
      <2>3. stage'[c] = "open" /\ pos'[c].sym = s
            BY <1>1, <2>0, Added, StageMeans
      <2>4. stage' = [stage EXCEPT ![c] = "open"]
            BY <2>2, <2>3
      <2>5. on' = [on EXCEPT ![c] = s]
            BY <2>2, <2>3
      <2>6. stored' \in {stored, [stored EXCEPT ![c] = stage'[c]]}
            <3>1. CASE rows'[c] = rows[c]
                  <4>1. stored' = stored
                        BY <2>2, <3>1
                  <4>2. QED
                        BY <4>1
            <3>2. CASE rows'[c] = pos'[c]
                  <4>1. stored' = [stored EXCEPT ![c] = stage'[c]]
                        BY <2>2, <3>2
                  <4>2. QED
                        BY <4>1
            <3>3. QED
                  BY <1>1, <2>0, <3>1, <3>2, Added
      \* The instance has a copy of Cardinality of its own.
      <2>7. Book!Cardinality(Book!OpenTrades) < MaxOpen
            BY <1>1, Added, OpenInBook DEF Cardinality, Book!Cardinality
      <2>8. \A x \in Book!OpenTrades : on[x] # s
            BY <1>1, <2>0, Added, OpenInBook DEF OwnOpen
      <2>9. Book!OpenTrade(c, s)
            BY <2>1, <2>4, <2>5, <2>6, <2>7, <2>8 DEF Book!OpenTrade, Book!MayStore
      <2>10. QED
            BY <2>9 DEF Book!BookNext
<1>2. ASSUME NEW u \in OwnIds, BookTrade(u)
      PROVE  Book!BookNext
      <2>1. /\ rows[u].state = "CLOSED" /\ booked[u] = 0
            /\ pos' = pos /\ rows' = rows
            BY <1>2 DEF IndInv, HandlerInv, Unreported, BookTrade, positions
      <2>2. booked' = [booked EXCEPT ![u] = 1]
            BY <1>2, <2>1, <1>0 DEF BookTrade
      <2>3. stored[u] = "closed" /\ stage' = stage /\ stored' = stored /\ on' = on
            BY <2>1, StageMeans
      <2>4. QED
            BY <2>1, <2>2, <2>3 DEF Book!BookNext, Book!ReportTrade
<1>3. CASE TasksEnd
      <2>1. pos' = rows /\ rows' = rows /\ booked' = booked
            BY <1>3, Ended
      <2>2. stage' = stored /\ stored' = stored
            BY <2>1
      <2>3. on' = [u \in OwnIds |-> IF stored[u] = "unseen" THEN None ELSE on[u]]
            <3>1. \A u \in OwnIds : stored[u] = "unseen" <=> rows[u].state = "NONE"
                  BY <1>0, StageMeans DEF RowInv
            <3>2. \A u \in OwnIds :
                     rows[u].sym = IF stored[u] = "unseen" THEN None ELSE on[u]
                  BY <1>0, <3>1 DEF RowInv
            <3>3. QED
                  BY <2>1, <3>2
      <2>4. QED
            BY <2>1, <2>2, <2>3 DEF Book!BookNext, Book!Restart
<1>4. CASE Calm /\ booked' = booked
      <2>1. on' = on
            BY <1>4 DEF Calm
      <2>2. PICK c \in Ids \cup {None} :
              /\ \A j \in Ids \ {c} : pos'[j] = pos[j] /\ rows'[j] = rows[j]
              /\ c \in Ids => rows'[c] \in {rows[c], pos'[c]}
            BY <1>4 DEF Calm
      <2>3. \A u \in OwnIds \ {c} : stage'[u] = stage[u] /\ stored'[u] = stored[u]
            BY <1>0, <2>2
      <2>4. CASE c \notin OwnIds
            <3>1. stage' = stage /\ stored' = stored
                  BY <2>3, <2>4
            <3>2. QED
                  BY <1>4, <2>1, <3>1 DEF Book!bookVars
      <2>5. ASSUME c \in OwnIds, stage'[c] # stage[c] PROVE Book!BookNext
            <3>1. /\ pos[c].state = "NONE" <=> pos'[c].state = "NONE"
                  /\ pos[c].state = "CLOSED" => pos'[c].state = "CLOSED"
                  BY <1>0, <1>4, <2>5 DEF Calm
            <3>2. stage[c] = "open" /\ stage'[c] = "closed"
                  BY <1>0, <2>5, <3>1, StageMeans DEF TradeInv
            <3>3. stage' = [stage EXCEPT ![c] = "closed"]
                  BY <2>3, <2>5, <3>2
            <3>4. stored' \in {stored, [stored EXCEPT ![c] = stage'[c]]}
                  <4>1. CASE rows'[c] = rows[c]
                        <5>1. stored' = stored
                              BY <2>3, <2>5, <4>1
                        <5>2. QED
                              BY <5>1
                  <4>2. CASE rows'[c] = pos'[c]
                        <5>1. stored' = [stored EXCEPT ![c] = stage'[c]]
                              BY <2>3, <2>5, <4>2
                        <5>2. QED
                              BY <5>1
                  <4>3. QED
                        BY <1>0, <2>2, <2>5, <4>1, <4>2
            <3>5. Book!CloseTrade(c)
                  BY <1>4, <2>1, <3>2, <3>3, <3>4 DEF Book!CloseTrade, Book!MayStore
            <3>6. QED
                  BY <2>5, <3>5 DEF Book!BookNext
      <2>6. ASSUME c \in OwnIds, stage'[c] = stage[c]
            PROVE  Book!BookNext \/ UNCHANGED Book!bookVars
            <3>1. stage' = stage
                  BY <2>3, <2>6
            <3>2. CASE rows'[c] = rows[c]
                  <4>1. stored' = stored
                        BY <2>3, <2>6, <3>2
                  <4>2. QED
                        BY <1>4, <2>1, <3>1, <4>1 DEF Book!bookVars
            <3>3. CASE rows'[c] = pos'[c]
                  <4>1. stored' = [stored EXCEPT ![c] = stage[c]]
                        BY <2>3, <2>6, <3>3
                  <4>2. Book!StoreTrade(c)
                        BY <1>4, <2>1, <3>1, <4>1 DEF Book!StoreTrade
                  <4>3. QED
                        BY <2>6, <4>2 DEF Book!BookNext
            <3>4. QED
                  BY <1>0, <2>2, <2>6, <3>2, <3>3
      <2>7. QED
            BY <2>4, <2>5, <2>6
<1>5. QED
      BY <1>1, <1>2, <1>3, <1>4, StepCalm, Results

\* The trading loop implements the book of trades (main.py:323-483).
THEOREM LoopImplementsBook == Spec => ImplementsBook
BY BookInit, BookStep, MemoryIsSound, PTL DEF Spec, ImplementsBook, Book!BookSpec

-----------------------------------------------------------------------------
(***************************************************************************)
(* The candle handler loses the report of a closed trade only to a write   *)
(* that fails, and at most one for each, for every portfolio and every     *)
(* answer of the exchange.                                                 *)
(*                                                                         *)
(* The argument: an exit or a write that fails ends the handler, and       *)
(* whatever it had closed by then goes unreported.  That is at most the    *)
(* trade it is closing: the limit of one own position a symbol leaves it   *)
(* one trade to deal with in a candle.                                     *)
(***************************************************************************)

\* The trades the handler deals with in this candle.
Attending == h.todo \cup h.closed \cup (IF Exiting THEN {h.cur} ELSE {})

\* At most one trade, in one way.
OneTrade ==
    /\ \A u, v \in Attending : u = v
    /\ h.todo \cap h.closed = {}
    /\ Exiting => h.cur \notin h.todo \cup h.closed

\* The trades that are closed, not reported and about to be reported by nobody.
Silent == {u \in OwnIds : pos[u].state = "CLOSED" /\ booked[u] = 0 /\ u \notin h.closed}

\* As long as nothing else closes trades, each of them cost a failed write.
Tallied ==
    spent.stop = 0 /\ spent.flatten = 0 =>
        f = FlattenIdle /\ Cardinality(Silent) <= spent.fail

FullInv == IndInv /\ (spent.stop = 0 => OneTrade) /\ Tallied

-----------------------------------------------------------------------------

\* While the handler waits for an exit, holds an open position or is on its way
\* to an entry, it has closed nothing.
LEMMA NothingClosed ==
    ASSUME FullInv, spent.stop = 0, Exiting \/ Trying \/ h.todo # {}
    PROVE  h.closed = {}
<1>1. CASE Exiting
      BY <1>1 DEF FullInv, OneTrade, Attending
<1>2. CASE Trying
      BY <1>2 DEF FullInv, IndInv, HandlerInv
<1>3. CASE h.todo # {}
      BY <1>3 DEF FullInv, OneTrade, Attending
<1>4. QED
      BY <1>1, <1>2, <1>3

\* A handler that ends had closed nothing before, except in the booking of its
\* one trade.
LEMMA EndHolds ==
    ASSUME FullInv, spent.stop = 0, HandlerStep, h' = HandlerIdle,
           ~ \E u \in OwnIds : BookTrade(u)
    PROVE  h.closed = {}
<1>1. ASSUME NEW u \in OwnIds,
             \/ SkipClosed(u) \/ Hold(u) \/ TakeProfit(u) \/ CloseOut(u)
             \/ CloseNothing(u)
      PROVE  h.todo # {}
      BY <1>1 DEF SkipClosed, Hold, TakeProfit, CloseOut, CloseNothing, Managing
<1>2. CASE NoEntry \/ \E u \in OwnIds : AllowEntry(u) \/ NextSignal(u)
      BY <1>2, NothingClosed DEF NoEntry, AllowEntry, NextSignal, RecordedAll, Trying
<1>3. ASSUME CancelRemainder \/ CancelLost PROVE Exiting \/ Trying
      BY <1>3, Known
      DEF CancelRemainder, CancelLost, FullInv, IndInv, HandlerInv, Handler,
          Exiting, Trying, Entering
<1>4. ASSUME TakeProfitAnswered \/ CloseAnswered \/ CloseFailed PROVE Exiting
      BY <1>4 DEF TakeProfitAnswered, CloseAnswered, CloseFailed, Answered, Exiting
<1>5. CASE ManagedAll
      <2>1. h' = [h EXCEPT !.pc = "record"]
            BY <1>5 DEF ManagedAll
      <2>2. h'.pc = "record"
            BY <2>1, Known DEF FullInv, Handler
      <2>3. QED
            BY <2>2 DEF HandlerIdle
<1>6. ASSUME AddPosition \/ \E q \in 1..MaxQty : PlaceEntry(q) PROVE Trying
      BY <1>6 DEF AddPosition, PlaceEntry, Answered, Trying, Entering
<1>7. QED
      BY <1>1, <1>2, <1>3, <1>4, <1>5, <1>6, NothingClosed DEF HandlerStep

-----------------------------------------------------------------------------
(* One trade at a time *)

\* A handler that takes a trade from its list for an exit, or out of it.
LEMMA ManageOne ==
    ASSUME FullInv, spent.stop = 0, NEW u \in OwnIds, h' # HandlerIdle,
           \/ SkipClosed(u) \/ Hold(u) \/ TakeProfit(u) \/ CloseOut(u)
           \/ CloseNothing(u)
    PROVE  OneTrade' /\ h'.closed = h.closed
<1>0. h \in Handler /\ u \in h.todo /\ h.pc = "manage" /\ h.closed = {}
      BY Known, NothingClosed
      DEF FullInv, SkipClosed, Hold, TakeProfit, CloseOut, CloseNothing, Managing
<1>1. /\ h'.todo = h.todo \ {u} /\ h'.closed = h.closed
      /\ Exiting' => h'.cur = u
      <2>1. CASE SkipClosed(u) \/ Hold(u) \/ CloseNothing(u)
            <3>1. h' = [h EXCEPT !.todo = @ \ {u}]
                  BY <2>1 DEF SkipClosed, Hold, CloseNothing
            <3>2. h'.todo = h.todo \ {u} /\ h'.closed = h.closed /\ h'.pc = "manage"
                  BY <1>0, <3>1 DEF Handler
            <3>3. QED
                  BY <3>2 DEF Exiting
      <2>2. CASE TakeProfit(u) \/ CloseOut(u)
            BY <2>2, SendExitHolds DEF TakeProfit, CloseOut, FullInv
      <2>3. QED
            BY <2>1, <2>2
<1>2. QED
      BY <1>0, <1>1 DEF FullInv, OneTrade, Attending

\* A handler that takes an answer in, or goes on.
LEMMA AnswerOne ==
    ASSUME FullInv, spent.stop = 0, h' # HandlerIdle,
           \/ CancelRemainder \/ CancelLost \/ TakeProfitAnswered
           \/ CloseAnswered \/ CloseFailed \/ ManagedAll \/ NoEntry
    PROVE  /\ OneTrade'
           /\ h'.closed = IF CloseAnswered THEN h.closed \cup {h.cur} ELSE h.closed
<1>0. h \in Handler
      BY Known DEF FullInv
<1>1. CASE CancelRemainder
      <2>1. h' = [h EXCEPT !.pc = "answered"] /\ h.pc = "wait" /\ ~CloseAnswered
            BY <1>1 DEF CancelRemainder, CloseAnswered, Answered
      <2>2. /\ h'.todo = h.todo /\ h'.closed = h.closed /\ h'.cur = h.cur
            /\ h'.why = h.why /\ h'.pc = "answered"
            BY <1>0, <2>1 DEF Handler
      <2>3. Exiting' = Exiting
            BY <2>1, <2>2 DEF Exiting
      <2>4. QED
            BY <2>1, <2>2, <2>3 DEF FullInv, OneTrade, Attending
<1>2. CASE TakeProfitAnswered
      <2>1. h' = BackToManaging /\ Exiting /\ ~CloseAnswered
            BY <1>2 DEF TakeProfitAnswered, CloseAnswered, Answered, Exiting
      <2>2. h'.todo = h.todo /\ h'.closed = h.closed /\ h'.pc = "manage"
            BY <1>0, <2>1 DEF BackToManaging, Handler
      <2>3. QED
            BY <2>1, <2>2 DEF FullInv, OneTrade, Attending, Exiting
<1>3. CASE CloseAnswered
      <2>1. h' = [BackToManaging EXCEPT !.closed = @ \cup {h.cur}] /\ Exiting
            BY <1>3 DEF CloseAnswered, Answered, Exiting
      <2>2. /\ h'.todo = h.todo /\ h'.pc = "manage"
            /\ h'.closed = h.closed \cup {h.cur}
            BY <1>0, <2>1 DEF BackToManaging, Handler
      <2>3. QED
            BY <1>3, <2>1, <2>2 DEF FullInv, OneTrade, Attending, Exiting
<1>4. CASE ManagedAll
      <2>1. h' = [h EXCEPT !.pc = "record"] /\ h.pc = "manage" /\ ~CloseAnswered
            BY <1>4 DEF ManagedAll, CloseAnswered, Answered
      <2>2. h'.todo = h.todo /\ h'.closed = h.closed /\ h'.pc = "record"
            BY <1>0, <2>1 DEF Handler
      <2>3. QED
            BY <2>1, <2>2 DEF FullInv, OneTrade, Attending, Exiting
<1>5. QED
      BY <1>1, <1>2, <1>3, <1>4 DEF CancelLost, CloseFailed, NoEntry

\* A handler that reports a trade or goes for an entry.
LEMMA EntryOne ==
    ASSUME FullInv, spent.stop = 0, h' # HandlerIdle,
           \/ \E u \in OwnIds : BookTrade(u) \/ AllowEntry(u) \/ NextSignal(u)
           \/ \E q \in 1..MaxQty : PlaceEntry(q)
           \/ AddPosition
    PROVE  /\ OneTrade'
           /\ (~ \E u \in OwnIds : BookTrade(u)) => h'.closed = h.closed
<1>0. h \in Handler
      BY Known DEF FullInv
<1>1. ASSUME NEW u \in OwnIds, BookTrade(u) PROVE OneTrade'
      <2>1. h' = [h EXCEPT !.closed = @ \ {u}] /\ h.pc = "record"
            BY <1>1 DEF BookTrade
      <2>2. h'.todo = h.todo /\ h'.closed = h.closed \ {u} /\ h'.pc = "record"
            BY <1>0, <2>1 DEF Handler
      <2>3. QED
            BY <2>1, <2>2 DEF FullInv, OneTrade, Attending, Exiting
<1>2. ASSUME NEW u \in OwnIds, AllowEntry(u) \/ NextSignal(u)
      PROVE  OneTrade' /\ h'.closed = h.closed
      <2>1. PICK pc \in {"entry", "last"} : h' = [h EXCEPT !.pc = pc, !.cur = u]
            BY <1>2 DEF AllowEntry, NextSignal
      <2>2. h'.todo = h.todo /\ h'.closed = h.closed /\ h'.pc = pc
            BY <1>0, <2>1 DEF Handler
      <2>3. h.pc \in {"record", "unfilled"}
            BY <1>2 DEF AllowEntry, NextSignal, RecordedAll
      <2>4. QED
            BY <2>2, <2>3 DEF FullInv, OneTrade, Attending, Exiting
<1>3. ASSUME NEW q \in 1..MaxQty, PlaceEntry(q) PROVE OneTrade' /\ h'.closed = h.closed
      <2>1. h.pc \in {"entry", "last"}
            BY <1>3 DEF PlaceEntry
      <2>2. CASE h' = [h EXCEPT !.pc = "unfilled", !.cur = None]
            <3>1. h'.todo = h.todo /\ h'.closed = h.closed /\ h'.pc = "unfilled"
                  BY <1>0, <2>2 DEF Handler
            <3>2. QED
                  BY <2>1, <3>1 DEF FullInv, OneTrade, Attending, Exiting
      <2>3. CASE h' # [h EXCEPT !.pc = "unfilled", !.cur = None]
            <3>1. PICK o : h' = [h EXCEPT !.pc = IF o.kind = "partial" THEN "wait"
                                                 ELSE "answered",
                                          !.why = "entry", !.ans = o.got]
                  BY <1>3, <2>3 DEF PlaceEntry
            <3>2. h'.todo = h.todo /\ h'.closed = h.closed /\ h'.why = "entry"
                  BY <1>0, <3>1 DEF Handler
            <3>3. QED
                  BY <2>1, <3>2 DEF FullInv, OneTrade, Attending, Exiting
      <2>4. QED
            BY <2>2, <2>3
<1>4. QED
      BY <1>1, <1>2, <1>3 DEF AddPosition

\* A candle of a symbol finds at most one own position, by the limits.
LEMMA CandleOne ==
    ASSUME FullInv, spent.stop = 0, NEW s \in Sym, CandleClosed(s)
    PROVE  OneTrade' /\ h.closed = {}
<1>1. /\ h' = [HandlerIdle EXCEPT !.pc = "manage", !.sym = s,
                                  !.todo = {u \in OwnOpen : pos[u].sym = s}]
      /\ h = HandlerIdle
      BY DEF CandleClosed, FullInv, IndInv, HandlerInv
<1>2. /\ h'.pc = "manage" /\ h'.closed = {} /\ h.closed = {}
      /\ h'.todo = {u \in OwnOpen : pos[u].sym = s}
      BY <1>1 DEF HandlerIdle
<1>3. \A u, v \in h'.todo : u = v
      BY <1>2 DEF FullInv, IndInv, LimitInv, OwnLimits
<1>4. QED
      BY <1>2, <1>3 DEF OneTrade, Attending, Exiting

LEMMA OneStep ==
    ASSUME FullInv, spent.stop = 0, [Next]_vars
    PROVE  OneTrade'
<1>1. CASE h' = HandlerIdle
      BY <1>1 DEF HandlerIdle, OneTrade, Attending, Exiting
<1>2. CASE HandlerStep /\ h' # HandlerIdle
      BY <1>2, ManageOne, AnswerOne, EntryOne DEF HandlerStep
<1>3. CASE \E s \in Sym : CandleClosed(s)
      BY <1>3, CandleOne
<1>4. CASE h' = h
      BY <1>4 DEF FullInv, OneTrade, Attending, Exiting
<1>5. QED
      BY <1>1, <1>2, <1>3, <1>4, Others

-----------------------------------------------------------------------------
(* Nothing is lost but to a failed write *)

\* Only these two actions close a trade.
LEMMA QuietStep ==
    ASSUME IndInv, [Next]_vars, ~CloseAnswered, ~FlattenMark
    PROVE  \A u \in OwnIds : pos'[u].state = "CLOSED" => pos[u].state = "CLOSED"
<1> DEFINE Quiet == \A u \in OwnIds : pos'[u].state = "CLOSED" => pos[u].state = "CLOSED"
<1>0. /\ TradeInv /\ RowInv /\ HandlerInv
      /\ pos \in [Ids -> Position] /\ OwnIds \subseteq Ids
      BY Known DEF IndInv
<1>1. CASE UNCHANGED positions
      BY <1>1 DEF positions
<1>2. CASE TasksEnd
      BY <1>0, <1>2, Ended DEF RowInv
<1>3. CASE AddPosition
      BY <1>0, <1>3, Added
<1>4. CASE ReconcileStep
      BY <1>4, ReconcileCalm DEF SameStates
<1>5. ASSUME NEW u \in OwnIds, Hold(u) PROVE Quiet
      <2>1. pos[u].state \in {"MANAGING", "TRAILING"}
            BY <1>0, <1>5 DEF Hold, IsOpen, Terminal, TradeInv
      <2>2. pos' = [pos EXCEPT ![u].state = IF pos[u].tp1 THEN AfterTrail(@) ELSE @]
            BY <1>5 DEF Hold
      <2>3. pos'[u].state = pos[u].state
            BY <1>0, <2>1, <2>2, OwnMoves DEF Position
      <2>4. \A j \in Ids \ {u} : pos'[j] = pos[j]
            BY <1>0, <2>2
      <2>5. QED
            BY <1>0, <2>3, <2>4
<1>6. CASE TakeProfitAnswered
      <2>1. h.cur \in OwnIds /\ pos[h.cur].state \in {"MANAGING", "TRAILING", "CLOSED"}
            BY <1>0, <1>6
            DEF TakeProfitAnswered, Answered, HandlerInv, Exiting, Seen, TradeInv
      <2>2. CASE h.ans = 0
            BY <1>6, <2>2 DEF TakeProfitAnswered
      <2>3. CASE h.ans # 0
            <3>1. pos' = [pos EXCEPT
                            ![h.cur].qty = @ - h.ans, ![h.cur].tp1 = TRUE,
                            ![h.cur].state = AfterTrail(AfterTakeProfit(@))]
                  BY <1>6, <2>3 DEF TakeProfitAnswered
            <3>2. pos'[h.cur].state = AfterTrail(AfterTakeProfit(pos[h.cur].state))
                  BY <1>0, <2>1, <3>1 DEF Position
            <3>3. \A u \in OwnIds \ {h.cur} : pos'[u] = pos[u]
                  BY <1>0, <3>1
            <3>4. QED
                  BY <2>1, <3>2, <3>3, OwnMoves
      <2>4. QED
            BY <2>2, <2>3
<1>7. CASE \/ \E u \in OwnIds : \/ SkipClosed(u) \/ TakeProfit(u) \/ CloseOut(u)
                                \/ CloseNothing(u) \/ BookTrade(u) \/ AllowEntry(u)
                                \/ NextSignal(u)
           \/ CancelRemainder \/ CancelLost \/ CloseFailed \/ ManagedAll \/ NoEntry
           \/ \E q \in 1..MaxQty : PlaceEntry(q)
      BY <1>1, <1>7
      DEF SkipClosed, TakeProfit, CloseOut, SendExit, CloseNothing, BookTrade,
          AllowEntry, NextSignal, CancelRemainder, CancelLost, CloseFailed,
          ManagedAll, NoEntry, PlaceEntry
<1>8. CASE FlattenStep
      BY <1>1, <1>8 DEF FlattenStep, FlattenClose, FlattenPause
<1>9. CASE Environment
      BY <1>1, <1>2, <1>9
      DEF Environment, CandleClosed, ExchangeExpire, ExchangeFill, UserTrade,
          PauseCommand, ResumeCommand, FlattenStart, FlattenAborts, EquityBrake,
          LimitExpires, Crash, GracefulStop
<1> HIDE DEF Quiet
<1>10. CASE HandlerStep
      BY <1>3, <1>5, <1>6, <1>7, <1>10 DEF HandlerStep, Quiet
<1>11. Quiet
      BY <1>1, <1>4, <1>8, <1>9, <1>10 DEF Next, vars, positions, Quiet
<1>12. QED
      BY <1>11 DEF Quiet

\* What the handler has closed stays in its hands until it is reported.
LEMMA ClosedKept ==
    ASSUME FullInv, spent.stop = 0, [Next]_vars, ~TasksEnd, NEW v \in h.closed
    PROVE  v \in h'.closed \/ booked'[v] # 0
<1>0. /\ h \in Handler /\ booked \in [OwnIds -> Nat] /\ v \in OwnIds
      /\ h.pc # "idle"
      <2>1. h.pc # "idle"
            BY DEF FullInv, IndInv, HandlerInv, HandlerIdle
      <2>2. QED
            BY <2>1, Known DEF FullInv, Handler
<1>1. ASSUME NEW u \in OwnIds, BookTrade(u) PROVE v \in h'.closed \/ booked'[v] # 0
      <2>1. /\ booked' = [booked EXCEPT ![u] = @ + 1] /\ u \in h.closed
            /\ h' # HandlerIdle => h' = [h EXCEPT !.closed = @ \ {u}]
            BY <1>1 DEF BookTrade
      <2>2. CASE v = u
            BY <1>0, <2>1, <2>2
      <2>3. CASE v # u
            BY <2>1, <2>3 DEF FullInv, OneTrade, Attending
      <2>4. QED
            BY <2>2, <2>3
<1>2. CASE HandlerStep /\ ~ \E u \in OwnIds : BookTrade(u)
      <2>1. h' # HandlerIdle
            BY <1>2, EndHolds
      <2>2. h.closed \subseteq h'.closed
            <3>1. CASE \E u \in OwnIds : \/ SkipClosed(u) \/ Hold(u) \/ TakeProfit(u)
                                         \/ CloseOut(u) \/ CloseNothing(u)
                  BY <2>1, <3>1, ManageOne
            <3>2. CASE \/ CancelRemainder \/ CancelLost \/ TakeProfitAnswered
                       \/ CloseAnswered \/ CloseFailed \/ ManagedAll \/ NoEntry
                  BY <2>1, <3>2, AnswerOne
            <3>3. CASE \/ \E u \in OwnIds : AllowEntry(u) \/ NextSignal(u)
                       \/ \E q \in 1..MaxQty : PlaceEntry(q)
                       \/ AddPosition
                  BY <1>2, <2>1, <3>3, EntryOne
            <3>4. QED
                  BY <1>2, <3>1, <3>2, <3>3 DEF HandlerStep
      <2>3. QED
            BY <2>2
<1>3. CASE \E s \in Sym : CandleClosed(s)
      BY <1>0, <1>3 DEF CandleClosed
<1>4. CASE h' = h
      BY <1>4
<1>5. CASE ~HandlerStep /\ ~ \E s \in Sym : CandleClosed(s)
      <2>1. CASE ReconcileStep \/ FlattenStep
            BY <1>4, <2>1
            DEF ReconcileStep, Snapshot, EmptySnapshot, Apply, ApplyNext, FlattenStep,
                FlattenClose, FlattenMark, FlattenPause
      <2>2. CASE Environment
            BY <1>4, <1>5, <2>2
            DEF Environment, ExchangeExpire, ExchangeFill, UserTrade, PauseCommand,
                ResumeCommand, FlattenStart, FlattenAborts, EquityBrake, LimitExpires,
                Crash, GracefulStop
      <2>3. CASE UNCHANGED vars
            BY <1>4, <2>3 DEF vars
      <2>4. QED
            BY <1>5, <2>1, <2>2, <2>3 DEF Next
<1>6. QED
      BY <1>1, <1>2, <1>3, <1>5

\* A step loses no trade, or one and a write with it.
LEMMA SilentStep ==
    ASSUME FullInv, spent.stop = 0, [Next]_vars, ~TasksEnd, ~FlattenMark
    PROVE  \/ Silent' \subseteq Silent
           \/ \E c \in OwnIds : /\ Silent' \subseteq Silent \cup {c}
                                /\ spent'.fail = spent.fail + 1
<1>0. /\ h \in Handler /\ booked \in [OwnIds -> Nat] /\ spent \in Spent
      /\ \A v \in h.closed : v \in h'.closed \/ booked'[v] # 0
      BY Known, ClosedKept DEF FullInv
<1>1. \A u \in OwnIds : booked'[u] = 0 => booked[u] = 0
      <2>1. ASSUME NEW v \in OwnIds, BookTrade(v)
            PROVE  \A u \in OwnIds : booked'[u] = 0 => booked[u] = 0
            <3>1. booked' = [booked EXCEPT ![v] = @ + 1]
                  BY <2>1 DEF BookTrade
            <3>2. QED
                  BY <1>0, <3>1
      <2>2. QED
            BY <2>1, Results
<1>2. CASE ~CloseAnswered
      <2>1. \A u \in OwnIds : pos'[u].state = "CLOSED" => pos[u].state = "CLOSED"
            BY <1>2, QuietStep DEF FullInv
      <2>2. Silent' \subseteq Silent
            BY <1>0, <1>1, <2>1 DEF Silent
      <2>3. QED
            BY <2>2
<1>3. CASE CloseAnswered
      <2>1. Exiting /\ h.cur \in OwnIds /\ h.closed = {}
            BY <1>3, NothingClosed
            DEF CloseAnswered, Answered, Exiting, FullInv, IndInv, HandlerInv, Seen
      <2>2. \A u \in OwnIds \ {h.cur} : pos'[u] = pos[u]
            BY <1>3, Known DEF CloseAnswered, FullInv
      <2>3. CASE h' = HandlerIdle
            <3>1. Silent' \subseteq Silent \cup {h.cur}
                  BY <1>1, <2>1, <2>2 DEF Silent
            <3>2. WriteFails
                  <4>1. h' # [BackToManaging EXCEPT !.closed = @ \cup {h.cur}]
                        <5>1. [BackToManaging EXCEPT !.closed = @ \cup {h.cur}].pc = "manage"
                              BY <1>0 DEF BackToManaging, Handler
                        <5>2. QED
                              BY <2>3, <5>1 DEF HandlerIdle
                  <4>2. QED
                        BY <1>3, <4>1 DEF CloseAnswered, NotSaved
            <3>3. spent'.fail = spent.fail + 1
                  BY <1>0, <3>2 DEF WriteFails, Spent
            <3>4. QED
                  BY <2>1, <3>1, <3>3
      <2>4. CASE h' # HandlerIdle
            <3>1. h'.closed = h.closed \cup {h.cur}
                  BY <1>3, <2>4, AnswerOne
            <3>2. Silent' \subseteq Silent
                  BY <1>1, <2>1, <2>2, <3>1 DEF Silent
            <3>3. QED
                  BY <3>2
      <2>5. QED
            BY <2>3, <2>4
<1>4. QED
      BY <1>2, <1>3

LEMMA SilentFinite == IsFiniteSet(Silent) /\ Cardinality(Silent) \in Nat
<1>1. Silent \subseteq OwnIds /\ IsFiniteSet(OwnIds)
      BY CoreAssumption DEF Silent
<1>2. QED
      BY <1>1, FS_Subset, FS_CardinalityType

LEMMA TallyStep ==
    ASSUME FullInv, [Next]_vars
    PROVE  Tallied'
<1> SUFFICES ASSUME spent'.stop = 0, spent'.flatten = 0
             PROVE  f' = FlattenIdle /\ Cardinality(Silent') <= spent'.fail
    BY DEF Tallied
<1>1. /\ ~TasksEnd /\ ~FlattenStart /\ spent.stop = 0 /\ spent.flatten = 0
      /\ spent'.fail \in {spent.fail, spent.fail + 1} /\ spent.fail \in Nat
      BY SpentGrows, Known DEF FullInv, Spent
<1>2. f = FlattenIdle /\ Cardinality(Silent) <= spent.fail
      BY <1>1 DEF FullInv, Tallied
<1>3. ~FlattenStep
      BY <1>2 DEF FlattenStep, FlattenClose, FlattenMark, FlattenPause, FlattenIdle
<1>4. f' = f
      <2>1. CASE HandlerStep
            BY <2>1
            DEF HandlerStep, SkipClosed, Hold, TakeProfit, CloseOut, SendExit,
                CloseNothing, AllowEntry, NextSignal, CancelRemainder, CancelLost,
                BookTrade, TakeProfitAnswered, CloseAnswered, CloseFailed, ManagedAll,
                NoEntry, PlaceEntry, AddPosition
      <2>2. CASE ReconcileStep
            BY <2>2 DEF ReconcileStep, Snapshot, EmptySnapshot, Apply, ApplyNext
      <2>3. CASE Environment
            BY <1>1, <2>3
            DEF Environment, CandleClosed, ExchangeExpire, ExchangeFill, UserTrade,
                PauseCommand, ResumeCommand, FlattenAborts, EquityBrake, LimitExpires,
                Crash, GracefulStop
      <2>4. QED
            BY <1>3, <2>1, <2>2, <2>3 DEF Next, vars
<1>5. Cardinality(Silent') <= spent'.fail
      <2>0. ~FlattenMark /\ IsFiniteSet(Silent) /\ Cardinality(Silent) \in Nat
            BY <1>3, SilentFinite DEF FlattenStep
      <2>1. CASE Silent' \subseteq Silent
            <3>1. Cardinality(Silent') <= Cardinality(Silent) /\ Cardinality(Silent') \in Nat
                  BY <2>0, <2>1, FS_Subset, FS_CardinalityType
            <3>2. QED
                  BY <1>1, <1>2, <2>0, <3>1
      <2>2. ASSUME NEW c \in OwnIds, Silent' \subseteq Silent \cup {c},
                   spent'.fail = spent.fail + 1
            PROVE  Cardinality(Silent') <= spent'.fail
            <3>0. /\ IsFiniteSet(Silent \cup {c})
                  /\ \/ Cardinality(Silent \cup {c}) = Cardinality(Silent)
                     \/ Cardinality(Silent \cup {c}) = Cardinality(Silent) + 1
                  BY <2>0, FS_AddElement
            <3>1. /\ IsFiniteSet(Silent \cup {c})
                  /\ Cardinality(Silent \cup {c}) <= Cardinality(Silent) + 1
                  /\ Cardinality(Silent \cup {c}) \in Nat
                  BY <2>0, <3>0
            <3>2. /\ Cardinality(Silent') <= Cardinality(Silent \cup {c})
                  /\ Cardinality(Silent') \in Nat
                  BY <2>2, <3>1, FS_Subset, FS_CardinalityType
            <3>3. QED
                  BY <1>1, <1>2, <2>0, <2>2, <3>1, <3>2
      <2>3. QED
            BY <1>1, <2>0, <2>1, <2>2, SilentStep
<1>6. QED
      BY <1>2, <1>4, <1>5

LEMMA FullInit == Init => FullInv
<1> SUFFICES ASSUME Init PROVE FullInv
    OBVIOUS
<1>1. IndInv
      BY InitInv
<1>2. OneTrade
      BY DEF Init, HandlerIdle, OneTrade, Attending, Exiting
<1>3. Silent = {}
      BY DEF Init, NoPosition, Silent, Ids
<1>4. Tallied
      BY <1>3, FS_EmptySet DEF Init, Tallied
<1>5. QED
      BY <1>1, <1>2, <1>4 DEF FullInv

LEMMA FullNext == FullInv /\ [Next]_vars => FullInv'
<1> SUFFICES ASSUME FullInv, [Next]_vars PROVE FullInv'
    OBVIOUS
<1>1. IndInv' /\ Tallied'
      BY NextInv, TallyStep DEF FullInv
<1>2. ASSUME spent'.stop = 0 PROVE OneTrade'
      <2>1. spent.stop = 0
            BY <1>2, SpentGrows, Known DEF FullInv
      <2>2. QED
            BY <2>1, OneStep
<1>3. QED
      BY <1>1, <1>2 DEF FullInv

\* Without an end of the process and a flatten, a closed trade that was not
\* reported to the risk manager and the brakes when the handler is at rest
\* (main.py:348-364) cost a failed write, and no write costs two: neither an
\* exit that fails (position_manager.py:232) nor another symbol's trade in the
\* same candle does.
THEOREM TallyHolds == Spec => []ClosedIsBooked
<1>1. FullInv => ClosedIsBooked
      <2> SUFFICES ASSUME FullInv, h.pc = "idle", spent.stop = 0, spent.flatten = 0
                   PROVE  Cardinality({u \in OwnIds : /\ pos[u].state = "CLOSED"
                                                      /\ booked[u] = 0}) <= spent.fail
          BY DEF ClosedIsBooked
      <2>1. h.closed = {}
            BY DEF FullInv, IndInv, HandlerInv, HandlerIdle
      <2>2. Silent = {u \in OwnIds : pos[u].state = "CLOSED" /\ booked[u] = 0}
            BY <2>1 DEF Silent
      <2>3. QED
            BY <2>2 DEF FullInv, Tallied
<1>2. Spec => []FullInv
      BY FullInit, FullNext, PTL DEF Spec
<1>3. QED
      BY <1>1, <1>2, PTL

=============================================================================
