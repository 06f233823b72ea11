---------------------------- MODULE PaperExecutor ----------------------------
(***************************************************************************)
(* The simulated exchange of paper trading (execution/paper_executor.py),  *)
(* driven as the order manager, /flatten and the equity task drive it, and *)
(* restarted as main.py does.                                              *)
(*                                                                         *)
(* Prices, quantities and slippage are small integers; money is counted in *)
(* fees, of which a unit of notional costs one, and Scale of them make one *)
(* unit of price.  Orders are filled at once, so the list of open orders   *)
(* is always empty and left out.                                           *)
(***************************************************************************)
EXTENDS Integers

CONSTANTS Symbols, None,
          Prices, Quantities,
          Slips,       \* the slippage the random component may give
          Scale, Initial,
          MaxOrders,   \* bound: orders
          MaxRestarts  \* bound: restarts

VARIABLES price,      \* _last_prices, 0 without one
          positions,  \* _positions
          balance,    \* _balance
          equity,     \* the equity saved with the risk state
          book,       \* the bot's positions, which its database keeps
          told,       \* what the bot was told: the balance, results and commissions
          again,      \* exit fees the balance paid a second time (observation)
          orders, restarts

paperVars == <<price, positions, balance, equity, book, told, again, orders, restarts>>

Flat == [s \in Symbols |-> None]

Init ==
    /\ price = [s \in Symbols |-> 0]
    /\ positions = Flat /\ book = Flat
    /\ balance = Initial /\ told = Initial
    /\ equity = 0 /\ again = 0
    /\ orders = 0 /\ restarts = 0

Opposite(side) == IF side = "LONG" THEN "SHORT" ELSE "LONG"
Slipped(p, side, slip) == IF side = "LONG" THEN p + slip ELSE p - slip
FeeOf(quantity, fill) == quantity * fill
Pnl(pos, fill, quantity) ==
    Scale * quantity * (IF pos.side = "LONG" THEN fill - pos.entry ELSE pos.entry - fill)
Smaller(a, b) == IF a < b THEN a ELSE b

(* A position after a part of it was closed. *)
Less(pos, quantity) ==
    IF pos = None \/ pos.qty <= quantity THEN None ELSE [pos EXCEPT !.qty = @ - quantity]
-----------------------------------------------------------------------------
(* A candle of the primary timeframe closes. *)
SetPrice(s, p) ==
    /\ price' = [price EXCEPT ![s] = p]
    /\ UNCHANGED <<positions, balance, equity, book, told, again, orders, restarts>>

Order(s) ==
    /\ orders < MaxOrders
    /\ price[s] > 0
    /\ orders' = orders + 1
    /\ UNCHANGED <<price, equity, restarts>>

(* Without a price the order is rejected: nothing changes. *)
PlaceEntry(s, side, quantity, slip) ==
    LET fill == Slipped(price[s], side, slip)
        pos == [side |-> side, qty |-> quantity, entry |-> fill]
    IN /\ Order(s)
       /\ book[s] = None
       /\ positions' = [positions EXCEPT ![s] = pos]
       /\ book' = [book EXCEPT ![s] = pos]
       /\ balance' = balance - FeeOf(quantity, fill)
       /\ told' = told - FeeOf(quantity, fill)
       /\ UNCHANGED again

(* A reduce-only order.  It is answered as filled in full, whatever of it  *)
(* the executor holds; where it holds something, the fee is taken with the *)
(* result and once more at the end.                                        *)
PlaceExit(s, side, quantity, slip) ==
    LET fill == Slipped(price[s], side, slip)
        fee == FeeOf(quantity, fill)
        pos == positions[s]
        found == pos # None
    IN /\ Order(s)
       /\ positions' = [positions EXCEPT ![s] = Less(pos, quantity)]
       /\ balance' = balance - fee
                     + (IF found THEN Pnl(pos, fill, Smaller(quantity, pos.qty)) - fee ELSE 0)
       /\ book' = [book EXCEPT ![s] = Less(@, quantity)]
       /\ told' = told + Pnl(book[s], fill, quantity) - fee
       /\ again' = again + (IF found THEN fee ELSE 0)

(* execute_exit, of a part or of all, orders on the opposite side.         *)
ExecuteExit(s, quantity, slip) ==
    /\ book[s] # None /\ quantity <= book[s].qty
    /\ PlaceExit(s, Opposite(book[s].side), quantity, slip)

(* close_position, which /flatten calls with the position's side, orders   *)
(* on that side: the slippage is in favour of the position.                *)
ClosePosition(s, slip) ==
    /\ book[s] # None
    /\ PlaceExit(s, book[s].side, book[s].qty, slip)

(* Without a price that order is rejected.  /flatten does not look at the  *)
(* answer and marks the bot's position closed.                             *)
CloseUnpriced(s) ==
    /\ book[s] # None
    /\ price[s] = 0
    /\ book' = [book EXCEPT ![s] = None]
    /\ UNCHANGED <<price, positions, balance, equity, told, again, orders, restarts>>

(* The equity task reads the balance and saves it. *)
UpdateEquity ==
    /\ balance > 0
    /\ equity' = balance
    /\ UNCHANGED <<price, positions, balance, book, told, again, orders, restarts>>

(* The executor starts anew, with the saved equity as its balance; the     *)
(* bot's positions come from its database.                                 *)
Restart ==
    /\ restarts < MaxRestarts
    /\ restarts' = restarts + 1
    /\ price' = [s \in Symbols |-> 0]
    /\ positions' = Flat
    /\ balance' = IF equity > 0 THEN equity ELSE Initial
    /\ UNCHANGED <<equity, book, told, again, orders>>

Next ==
    \/ \E s \in Symbols :
          \/ \E p \in Prices : SetPrice(s, p)
          \/ \E slip \in Slips, quantity \in Quantities :
                \/ \E side \in {"LONG", "SHORT"} : PlaceEntry(s, side, quantity, slip)
                \/ ExecuteExit(s, quantity, slip)
          \/ \E slip \in Slips : ClosePosition(s, slip)
          \/ CloseUnpriced(s)
    \/ UpdateEquity
    \/ Restart

Spec == Init /\ [][Next]_paperVars
-----------------------------------------------------------------------------
Position == [side : {"LONG", "SHORT"}, qty : Nat \ {0}, entry : Nat]

TypeOK ==
    /\ \A s \in Symbols : /\ price[s] \in {0} \cup Prices
                          /\ positions[s] \in Position \cup {None}
                          /\ book[s] \in Position \cup {None}
    /\ balance \in Int /\ told \in Int
    /\ equity \in Nat /\ again \in Nat

(* The executor holds nothing the bot does not know of, and what it holds  *)
(* the bot knows with its side, entry and quantity; until a restart it     *)
(* forgets none of them, and its balance is what the bot was told, but for *)
(* the exit fees that are taken twice (paper_executor.py:85-109).          *)
PaperLedger ==
    /\ \A s \in Symbols : positions[s] \in {None, book[s]}
    /\ restarts = 0 => positions = book /\ balance = told - again
=============================================================================
