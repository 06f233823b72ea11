----------------------------- MODULE Telemetry -----------------------------
(***************************************************************************)
(* The research telemetry of the v5 runner: what the runner logs of its    *)
(* trades (tools/v5_forward_test.py), the shadow exits it evaluates        *)
(* (research/shadow_exits.py), and the bounded queue, the worker, the      *)
(* spool file and the tables of research/v6_telemetry.py.                  *)
(*                                                                         *)
(* The runner is reduced to what it logs: one position at a time, its      *)
(* alerts as the awaits at which the worker runs, and the end of the       *)
(* process.  A bar of a trade is the number of candles it is held.  The    *)
(* snapshots of the regime pass the queue as an entry does and are left    *)
(* out.                                                                    *)
(***************************************************************************)
EXTENDS Naturals, FiniteSets, SequencesExt

CONSTANTS Trades,    \* trade_uuid
          None,
          Rules,     \* names of shadow exits
          Capacity,  \* max_queue_size
          EarlyBar,  \* bars before a trade can be cut as dead (15)
          PostBars,  \* max_bars followed after an exit (48)
          MaxBars,   \* bars a trade is held at most
          MaxFails,  \* bound: writes that fail, to the tables or to the file
          MaxStops   \* bound: ends of the process

VARIABLES trade,    \* what the runner knows of each trade
          turn,     \* the trade whose alert is awaited, or None
          up,       \* the process runs
          queue,    \* items not yet taken by the worker
          hand,     \* the item the worker holds, or None
          at,       \* where the worker is: get, write, spool
          overflow, \* items on their way to the spool in threads of their own
          shadows,  \* the table shadow_exits
          owed,     \* items logged, not yet in a table, in the file or reported as
                    \* dropped because the file refused them (observation)
          settled,  \* trades whose shadows were finalized (observation)
          fails, stops

worker == <<queue, hand, at, overflow>>
store == <<shadows, settled>>
vars == <<trade, turn, up, worker, store, owed, fails, stops>>

NewTrade == [pc |-> "new", bars |-> 0, after |-> None, context |-> FALSE]

Init ==
    /\ trade = [t \in Trades |-> NewTrade]
    /\ turn = None /\ up = TRUE
    /\ queue = <<>> /\ hand = None /\ at = "get" /\ overflow = {}
    /\ shadows = {} /\ settled = {}
    /\ owed = {} /\ fails = 0 /\ stops = 0

Open == {t \in Trades : trade[t].pc = "open"}
Followed == {t \in Trades : trade[t].after # None}
-----------------------------------------------------------------------------
Item(action, t, bar, rule) == [action |-> action, trade |-> t, bar |-> bar, rule |-> rule]

(* enqueue_write for one item after another, without an await: what does   *)
(* not fit goes to the spool, each in a thread.                            *)
Log(items) ==
    LET room == Capacity - Len(queue)
    IN /\ queue' = queue \o SubSeq(items, 1, IF room < Len(items) THEN room ELSE Len(items))
       /\ overflow' = overflow \cup {items[k] : k \in {j \in DOMAIN items : j > room}}
       /\ owed' = owed \cup Range(items)
       /\ UNCHANGED <<hand, at>>

(* The rules that may fire on a bar: one needs the context of the entry,   *)
(* one a number of bars; the rest depends on prices.                       *)
MayFire(t, bar) ==
    {rule \in Rules :
        /\ rule = "structural_invalidation" => trade[t].context
        /\ rule = "early_dead_cut" => bar >= EarlyBar}

(* A later bar of each trade that was closed, until it was followed for    *)
(* PostBars.                                                               *)
Follow(t) == [trade[t] EXCEPT !.after = IF @ + 1 >= PostBars THEN None ELSE @ + 1]
FollowItems == SetToSeq({Item("post", t, trade[t].after + 1, None) : t \in Followed})

BarItems(t, rules) ==
    LET bar == trade[t].bars + 1
    IN <<Item("path", t, bar, None)>> \o SetToSeq({Item("shadow", t, bar, r) : r \in rules})

(* A closed candle of the symbol.  A candle older than the entry, which    *)
(* only a restart brings, counts as held and is not looked at.             *)
Candle ==
    /\ up /\ turn = None
    /\ IF Open = {}
       THEN /\ Log(FollowItems)
            /\ trade' = [t \in Trades |-> IF t \in Followed THEN Follow(t) ELSE trade[t]]
            /\ UNCHANGED turn
       ELSE \E t \in Open :
              /\ \/ /\ stops > 0 /\ trade[t].bars + 1 < MaxBars
                    /\ Log(FollowItems)
                    /\ UNCHANGED turn
                 \/ \E rules \in SUBSET MayFire(t, trade[t].bars + 1), closes \in BOOLEAN :
                       /\ trade[t].bars + 1 = MaxBars => closes
                       /\ Log(FollowItems \o BarItems(t, rules))
                       /\ turn' = IF closes THEN t ELSE None
              /\ trade' = [u \in Trades |->
                    IF u = t THEN [trade[u] EXCEPT !.bars = @ + 1,
                                                   !.pc = IF turn' = t THEN "closing" ELSE @]
                    ELSE IF u \in Followed THEN Follow(u) ELSE trade[u]]
    /\ UNCHANGED <<up, store, fails, stops>>

(* After the alert of an exit. *)
ExitLogged ==
    /\ up /\ turn # None
    /\ trade[turn].pc = "closing"
    /\ Log(<<Item("exit", turn, trade[turn].bars, None),
             Item("finalize", turn, trade[turn].bars, None)>>)
    /\ trade' = [trade EXCEPT ![turn].pc = "closed", ![turn].after = 0]
    /\ turn' = None
    /\ UNCHANGED <<up, store, fails, stops>>

(* An entry: the position is saved and the alert awaited. *)
Enter(t) ==
    /\ up /\ turn = None
    /\ Open = {} /\ trade[t].pc = "new"
    /\ trade' = [trade EXCEPT ![t].pc = "entering"]
    /\ turn' = t
    /\ UNCHANGED <<up, worker, store, owed, fails, stops>>

(* The context is put on the position in memory; the row has no column for *)
(* it, so saving it again keeps nothing of it.                             *)
EntryLogged ==
    /\ up /\ turn # None
    /\ trade[turn].pc = "entering"
    /\ Log(<<Item("entry", turn, 0, None)>>)
    /\ trade' = [trade EXCEPT ![turn].pc = "open", ![turn].context = TRUE]
    /\ turn' = None
    /\ UNCHANGED <<up, store, fails, stops>>
-----------------------------------------------------------------------------
Take ==
    /\ up /\ at = "get" /\ queue # <<>>
    /\ hand' = Head(queue)
    /\ queue' = Tail(queue)
    /\ at' = "write"
    /\ UNCHANGED <<trade, turn, up, overflow, store, owed, fails, stops>>

(* _write_db_sync on the table that is read again: a shadow is inserted    *)
(* unless its key is there, and an exit is put on those that have none.    *)
(* The other tables only receive rows.                                     *)
Written(i) ==
    CASE i.action = "shadow" ->
           IF \E s \in shadows : s.trade = i.trade /\ s.rule = i.rule /\ s.bar = i.bar
           THEN shadows
           ELSE shadows \cup {[trade |-> i.trade, rule |-> i.rule, bar |-> i.bar, exit |-> None]}
      [] i.action = "finalize" ->
           {IF s.trade = i.trade /\ s.exit = None THEN [s EXCEPT !.exit = i.bar] ELSE s
              : s \in shadows}
      [] OTHER -> shadows

Write ==
    /\ up /\ at = "write"
    /\ shadows' = Written(hand)
    /\ settled' = settled \cup (IF hand.action = "finalize" THEN {hand.trade} ELSE {})
    /\ owed' = owed \ {hand}
    /\ hand' = None /\ at' = "get"
    /\ UNCHANGED <<trade, turn, up, queue, overflow, fails, stops>>

WriteFails ==
    /\ up /\ at = "write"
    /\ fails < MaxFails
    /\ fails' = fails + 1
    /\ at' = "spool"
    /\ UNCHANGED <<trade, turn, up, queue, hand, overflow, store, owed, stops>>

(* An item is appended to the fallback file.  When that fails too it is    *)
(* dropped with a line in the log.                                         *)
Spooled(i) ==
    /\ owed' = owed \ {i}
    /\ UNCHANGED fails \/ (fails < MaxFails /\ fails' = fails + 1)

(* What the tables refused.                                                *)
SpoolHand ==
    /\ up /\ at = "spool"
    /\ Spooled(hand)
    /\ hand' = None /\ at' = "get"
    /\ UNCHANGED <<trade, turn, up, queue, overflow, store, stops>>

SpoolOverflow(i) ==
    /\ up /\ i \in overflow
    /\ overflow' = overflow \ {i}
    /\ Spooled(i)
    /\ UNCHANGED <<trade, turn, up, queue, hand, at, store, stops>>

(* The process ends, killed or stopped: nothing puts the sentinel or waits *)
(* for the queue.                                                          *)
Stop ==
    /\ up /\ stops < MaxStops
    /\ stops' = stops + 1
    /\ up' = FALSE
    /\ UNCHANGED <<trade, turn, worker, store, owed, fails>>

(* Recovery reads the position rows: an exit under way had removed its row *)
(* before the alert, an entry had saved it.                                *)
Recovered(t) ==
    [trade[t] EXCEPT !.after = None, !.context = FALSE,
                     !.pc = CASE @ = "entering" -> "open"
                              [] @ = "closing" -> "closed"
                              [] OTHER -> @]

Restart ==
    /\ ~up
    /\ up' = TRUE
    /\ trade' = [t \in Trades |-> Recovered(t)]
    /\ turn' = None
    /\ queue' = <<>> /\ hand' = None /\ at' = "get" /\ overflow' = {}
    /\ owed' = {}
    /\ UNCHANGED <<store, fails, stops>>

Next ==
    \/ Candle \/ ExitLogged \/ EntryLogged
    \/ \E t \in Trades : Enter(t)
    \/ Take \/ Write \/ WriteFails \/ SpoolHand
    \/ \E i \in overflow : SpoolOverflow(i)
    \/ Stop \/ Restart

Spec == Init /\ [][Next]_vars
-----------------------------------------------------------------------------
Items == [action : {"entry", "path", "shadow", "exit", "finalize", "post"}, trade : Trades,
          bar : 0..(MaxBars + PostBars), rule : Rules \cup {None}]

TypeOK ==
    /\ \A t \in Trades :
          /\ trade[t].pc \in {"new", "entering", "open", "closing", "closed"}
          /\ trade[t].bars \in 0..MaxBars
          /\ trade[t].after \in {None} \cup 0..PostBars
    /\ turn \in Trades \cup {None}
    /\ Len(queue) <= Capacity /\ Range(queue) \subseteq Items
    /\ hand \in Items \cup {None}
    /\ at = "get" <=> hand = None
    /\ overflow \cup owed \subseteq Items
    /\ \A s \in shadows : s.bar \in 1..MaxBars /\ s.exit \in {None} \cup 1..MaxBars

(* Nothing that was logged vanishes while the process runs: it is queued,  *)
(* in a thread, or was written, and only an item that the tables or the    *)
(* queue and then the file refused is dropped (v6_telemetry.py:159-192,    *)
(* 318-331).                                                               *)
NothingVanishes ==
    up => owed \subseteq Range(queue) \cup {hand} \cup overflow

(* Once the shadows of a trade were finalized none of them is without its  *)
(* exit, and none comes later, although triggers, exits and their writes   *)
(* pass a queue that overflows and a process that restarts                 *)
(* (v6_telemetry.py:261-271).                                              *)
ShadowsSettled ==
    \A s \in shadows :
        s.trade \in settled => s.exit = trade[s.trade].bars /\ s.bar <= s.exit

(* What is promised of the telemetry. *)
TelemetryKept == NothingVanishes /\ ShadowsSettled
=============================================================================
