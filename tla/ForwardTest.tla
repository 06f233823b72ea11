---------------------------- MODULE ForwardTest ----------------------------
(***************************************************************************)
(* The swing-break forward test (tools/forward_test.py): every poll asks   *)
(* for the last three candles of fifteen minutes, handles those that have  *)
(* closed, manages the open positions and may enter.  Each statement of    *)
(* its database commits by itself, so a crash may come between any two,    *)
(* and each may fail.                                                      *)
(*                                                                         *)
(* A candle is its number.  What prices do to a position and whether the   *)
(* engine gives a signal is the environment's choice.                      *)
(***************************************************************************)
EXTENDS Integers, FiniteSets, SequencesExt

CONSTANTS Uuids,       \* trade_uuid of the signals
          Sides,       \* sides of a signal
          MaxCandles,  \* bound: candles that close
          MaxPolls,    \* bound: polls
          MaxFails,    \* bound: statements or alerts that fail
          MaxStops     \* bound: crashes

VARIABLES closed,      \* candles closed so far
          up,          \* the process runs
          batch,       \* closed candles of the poll not yet handled
          last,        \* last_processed_close, in memory
          mem,         \* open_positions in memory, in the order of opening
          gone,        \* those of them that are flagged _closed, by trade_uuid
          todo,        \* positions still to be managed on this candle
          step,        \* where the handling of the candle stands
          hand,        \* the position entering, or closing or closed last, else {}
          cooldown,    \* cooldown_until, in memory
          db,          \* the tables: [last, rows, trades, keys, cooldown]
          entered,     \* every entry made, for the properties: <<id, candle, side>>
          polls, fails, stops

memory == <<batch, last, mem, gone, todo, step, hand, cooldown>>
vars == <<closed, up, memory, db, entered, polls, fails, stops>>

Init ==
    /\ closed = 0
    /\ up = TRUE
    /\ batch = <<>> /\ last = 0 /\ mem = <<>> /\ gone = {} /\ todo = <<>>
    /\ step = "idle" /\ hand = {} /\ cooldown = 0
    /\ db = [last |-> 0, rows |-> {}, trades |-> {}, keys |-> {}, cooldown |-> 0]
    /\ entered = {}
    /\ polls = 0 /\ fails = 0 /\ stops = 0

candle == Head(batch)

CandleCloses ==
    /\ closed < MaxCandles
    /\ closed' = closed + 1
    /\ UNCHANGED <<up, memory, db, entered, polls, fails, stops>>

(* The last three candles: the open one is left out, so two at most.       *)
Poll ==
    /\ up /\ step = "idle" /\ batch = <<>>
    /\ polls < MaxPolls
    /\ polls' = polls + 1
    /\ LET n == IF closed < 2 THEN closed ELSE 2
       IN batch' = [k \in 1..n |-> closed - n + k]
    /\ UNCHANGED <<closed, up, last, mem, gone, todo, step, hand, cooldown, db, entered, fails, stops>>

(* The request failed: the loop sleeps and asks again.                     *)
PollFails ==
    /\ up /\ step = "idle" /\ batch = <<>>
    /\ polls < MaxPolls
    /\ polls' = polls + 1
    /\ UNCHANGED <<closed, up, memory, db, entered, fails, stops>>

(* Only the candle handled last is known as such. *)
Skip ==
    /\ up /\ step = "idle" /\ batch # <<>>
    /\ candle = last
    /\ batch' = Tail(batch)
    /\ UNCHANGED <<closed, up, last, mem, gone, todo, step, hand, cooldown, db, entered, polls, fails, stops>>

Handle ==
    /\ up /\ step = "idle" /\ batch # <<>>
    /\ candle # last
    /\ todo' = mem
    /\ step' = "manage"
    /\ UNCHANGED <<closed, up, batch, last, mem, gone, hand, cooldown, db, entered, polls, fails, stops>>
-----------------------------------------------------------------------------
Row(p) == {r \in db.rows : r.id = p.id}

InMemory(p) == [k \in DOMAIN mem |-> IF mem[k].id = p.id THEN p ELSE mem[k]]

(* A position that stays open has been held for one candle more, and is    *)
(* saved (its partial exit and its trailing stop are module Replay's).     *)
Keep ==
    /\ up /\ step = "manage" /\ todo # <<>>
    /\ LET p == [Head(todo) EXCEPT !.held = @ + 1]
       IN /\ mem' = InMemory(p)
          /\ db' = [db EXCEPT !.rows = (@ \ Row(p)) \cup {p}]
    /\ todo' = Tail(todo)
    /\ UNCHANGED <<closed, up, batch, last, gone, step, hand, cooldown, entered, polls, fails, stops>>

(* Mutant of SaveTrade: the row goes first, the trade is never saved. *)
RemoveUnsaved ==
    /\ up /\ step = "manage" /\ todo # <<>>
    /\ hand' = {Head(todo)}
    /\ gone' = gone \cup {Head(todo).id}
    /\ db' = [db EXCEPT !.rows = @ \ Row(Head(todo))]
    /\ step' = "remove"
    /\ UNCHANGED <<closed, up, batch, last, mem, todo, cooldown, entered, polls, fails, stops>>

(* Its time stop or its stop: the position is flagged, the trade is saved, *)
(* then the row removed, then the equity and the cooldown of one candle    *)
(* are saved.                                                              *)
SaveTrade ==
    /\ up /\ step = "manage" /\ todo # <<>>
    /\ LET p == [Head(todo) EXCEPT !.held = @ + 1]
       IN /\ hand' = {p}
          /\ mem' = InMemory(p)
          /\ gone' = gone \cup {p.id}
          /\ db' = [db EXCEPT !.trades = {t \in @ : t.id # p.id} \cup
                                 {[id |-> p.id, until |-> candle, held |-> p.held]}]
    /\ step' = "remove"
    /\ UNCHANGED <<closed, up, batch, last, todo, cooldown, entered, polls, fails, stops>>

RemovePosition ==
    /\ up /\ step = "remove"
    /\ \E p \in hand : db' = [db EXCEPT !.rows = @ \ Row(p)]
    /\ step' = "cool"
    /\ UNCHANGED <<closed, up, batch, last, mem, gone, todo, hand, cooldown, entered, polls, fails, stops>>

SetCooldown ==
    /\ up /\ step = "cool"
    /\ cooldown' = candle + 1
    /\ db' = [db EXCEPT !.cooldown = candle + 1]
    /\ todo' = Tail(todo)
    /\ step' = "manage"
    /\ UNCHANGED <<closed, up, batch, last, mem, gone, hand, entered, polls, fails, stops>>

(* After the last of them, and only if one was closed on this candle, the  *)
(* flagged ones leave the list: with two positions at most one is left.    *)
Sweep ==
    /\ up /\ step = "manage" /\ todo = <<>>
    /\ IF hand = {}
       THEN UNCHANGED <<mem, gone>>
       ELSE /\ mem' \in SetToSeqs({p \in Range(mem) : p.id \notin gone})
            /\ gone' = {}
    /\ hand' = {}
    /\ step' = "check"
    /\ UNCHANGED <<closed, up, batch, last, todo, cooldown, db, entered, polls, fails, stops>>
-----------------------------------------------------------------------------
(* The gates of an entry, in their order. *)
MayEnter ==
    /\ Len(mem) < 2
    /\ cooldown = 0 \/ candle > cooldown

(* No signal, or nothing to size after its key was marked. *)
NoEntry ==
    /\ up /\ step \in {"check", "enter"}
    /\ hand' = {}
    /\ step' = "mark"
    /\ UNCHANGED <<closed, up, batch, last, mem, gone, todo, cooldown, db, entered, polls, fails, stops>>

(* Mutant of MarkDuplicate: the key is not looked up. *)
MarkUnchecked(u, side) ==
    /\ up /\ step = "check"
    /\ MayEnter
    /\ db' = [db EXCEPT !.keys = @ \cup {<<candle, side>>}]
    /\ hand' = {[id |-> u, since |-> candle, side |-> side, held |-> 0]}
    /\ step' = "enter"
    /\ UNCHANGED <<closed, up, batch, last, mem, gone, todo, cooldown, entered, polls, fails, stops>>

(* The key of the entry is marked before anything else is done with it.    *)
MarkDuplicate(u, side) ==
    /\ up /\ step = "check"
    /\ MayEnter
    /\ <<candle, side>> \notin db.keys
    /\ db' = [db EXCEPT !.keys = @ \cup {<<candle, side>>}]
    /\ hand' = {[id |-> u, since |-> candle, side |-> side, held |-> 0]}
    /\ step' = "enter"
    /\ UNCHANGED <<closed, up, batch, last, mem, gone, todo, cooldown, entered, polls, fails, stops>>

Enter ==
    /\ up /\ step = "enter"
    /\ \E p \in hand :
          /\ mem' = Append(mem, p)
          /\ db' = [db EXCEPT !.rows = @ \cup {p}]
          /\ entered' = entered \cup {<<p.id, p.since, p.side>>}
    /\ hand' = {}
    /\ step' = "mark"
    /\ UNCHANGED <<closed, up, batch, last, gone, todo, cooldown, polls, fails, stops>>

(* The candle is handled, whatever became of it. *)
Handled ==
    /\ up /\ step = "mark"
    /\ last' = candle
    /\ db' = [db EXCEPT !.last = candle]
    /\ batch' = Tail(batch)
    /\ step' = "idle"
    /\ UNCHANGED <<closed, up, mem, gone, todo, hand, cooldown, entered, polls, fails, stops>>
-----------------------------------------------------------------------------
(* A statement or an alert fails.  The exception ends the handling of the  *)
(* candle and of those behind it: what was done in memory before it stays, *)
(* a flagged position on the list included, and the candle is asked for    *)
(* again unless it was only its own mark that failed.                      *)
StatementFails ==
    /\ up /\ step # "idle"
    /\ fails < MaxFails
    /\ fails' = fails + 1
    /\ \/ UNCHANGED <<last, mem, gone, cooldown, entered>>
       \/ /\ step = "manage" /\ todo # <<>>
          /\ LET p == [Head(todo) EXCEPT !.held = @ + 1]
             IN mem' = InMemory(p) /\ gone' \in {gone, gone \cup {p.id}}
          /\ UNCHANGED <<last, cooldown, entered>>
       \/ /\ step = "cool"
          /\ cooldown' = candle + 1
          /\ UNCHANGED <<last, mem, gone, entered>>
       \/ /\ step = "enter"
          /\ \E p \in hand : /\ mem' = Append(mem, p)
                             /\ entered' = entered \cup {<<p.id, p.since, p.side>>}
          /\ UNCHANGED <<last, gone, cooldown>>
       \/ /\ step = "mark"
          /\ last' = candle
          /\ UNCHANGED <<mem, gone, cooldown, entered>>
    /\ batch' = <<>> /\ todo' = <<>> /\ hand' = {} /\ step' = "idle"
    /\ UNCHANGED <<closed, up, db, polls, stops>>

Crash ==
    /\ up /\ stops < MaxStops
    /\ up' = FALSE
    /\ stops' = stops + 1
    /\ batch' = <<>> /\ last' = 0 /\ mem' = <<>> /\ gone' = {} /\ todo' = <<>>
    /\ step' = "idle" /\ hand' = {} /\ cooldown' = 0
    /\ UNCHANGED <<closed, db, entered, polls, fails>>

(* What the database has is recovered, in an order that no query names. *)
Start ==
    /\ ~up
    /\ up' = TRUE
    /\ mem' \in SetToSeqs(db.rows)
    /\ last' = db.last
    /\ cooldown' = db.cooldown
    /\ UNCHANGED <<closed, batch, gone, todo, step, hand, db, entered, polls, fails, stops>>

Finished == up /\ step = "idle" /\ batch = <<>> /\ polls = MaxPolls /\ UNCHANGED vars

Fresh == Uuids \ ({e[1] : e \in entered} \cup {p.id : p \in hand})

Next ==
    \/ CandleCloses
    \/ Poll
    \/ PollFails
    \/ Skip
    \/ Handle
    \/ Keep
    \/ SaveTrade
    \/ RemovePosition
    \/ SetCooldown
    \/ Sweep
    \/ NoEntry
    \/ \E u \in Fresh, side \in Sides : MarkDuplicate(u, side)
    \/ Enter
    \/ Handled
    \/ StatementFails
    \/ Crash
    \/ Start
    \/ Finished

Spec == Init /\ [][Next]_vars
-----------------------------------------------------------------------------
(* Every variable has its type. *)
TypeOK ==
    /\ closed \in 0..MaxCandles
    /\ Range(batch) \subseteq 1..MaxCandles
    /\ last \in 0..MaxCandles
    /\ step \in {"idle", "manage", "remove", "cool", "check", "enter", "mark"}
    /\ Cardinality(hand) <= 1 /\ gone \subseteq Uuids
    /\ cooldown \in 0..MaxCandles + 1

(* The entries that no table knows of. *)
Lost ==
    {e \in entered : /\ \A r \in db.rows : r.id # e[1]
                     /\ \A t \in db.trades : t.id # e[1]}

(* A position that was entered is open in the table or recorded as a       *)
(* trade, whatever crash comes between two statements, but for one entry   *)
(* per failed statement; and the memory of a running test holds none that  *)
(* the table does not, but those and the ones that it has flagged as       *)
(* closed (forward_test.py:645, 646, 751, 489).                            *)
NothingLost ==
    /\ Cardinality(Lost) <= fails
    /\ up => \A k \in DOMAIN mem : \/ \E r \in db.rows : r.id = mem[k].id
                                   \/ mem[k].id \in gone \cup {e[1] : e \in Lost}

(* A candle is entered at most once on a side, also when it is handled     *)
(* again after the next one or after a crash (forward_test.py:698).        *)
OneEntryPerKey ==
    \A e, f \in entered : e[2] = f[2] /\ e[3] = f[3] => e = f

(* A position has been held for as many candles as have closed since its   *)
(* entry, at most: "# already processed" (forward_test.py:467) and "Uses   *)
(* exact replay-winning rules" (line 5), whose time stop counts candles.   *)
HeldCountsCandles ==
    \A k \in DOMAIN mem : mem[k].held <= closed - mem[k].since
=============================================================================
