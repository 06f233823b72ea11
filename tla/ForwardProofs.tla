----------------------------- MODULE ForwardProofs -----------------------------
(***************************************************************************)
(* Theorems of the first forward test, for any trades, sides, candles,     *)
(* polls, crashes and failed statements, and of the telemetry of the v5    *)
(* runner, for any trades, rules, queue, bars, failures and restarts.      *)
(*                                                                         *)
(* A candle is handled again whenever it was not the last one, so what     *)
(* keeps it from a second entry is the key alone, and what keeps a trade   *)
(* from getting lost is that its record is written before its row goes.    *)
(***************************************************************************)
EXTENDS MCForward, FiniteSetTheorems, SequenceTheorems, TLAPS

(* The tables are there. *)
FiveTables == DOMAIN db = {"last", "rows", "trades", "keys", "cooldown"}

RowOf(id) == \E r \in db.rows : r.id = id
TradeOf(id) == \E t \in db.trades : t.id = id

(* Every entry has left its key, and the one that is being made has a key  *)
(* that no other entry has.                                                *)
Keyed ==
    /\ \A e \in entered : <<e[2], e[3]>> \in db.keys
    /\ stand = "enter" =>
         \A p \in hand : /\ <<p.since, p.side>> \in db.keys
                         /\ \A e \in entered : ~(e[2] = p.since /\ e[3] = p.side)
    /\ stand = "enter" => \A p, q \in hand : p = q

(* Every entry is in a table, but for one per failed statement, and the    *)
(* row that is about to go has been recorded as a trade.                   *)
Traced ==
    /\ lapses \in Nat
    /\ IsFiniteSet(Forward!Lost) /\ Cardinality(Forward!Lost) <= lapses
    /\ stand = "remove" => \A p \in hand : TradeOf(p.id)

ForwardInv == FiveTables /\ Keyed /\ Traced /\ Forward!OneEntryPerKey
-----------------------------------------------------------------------------
LEMMA ForwardInit == Forward!Init => ForwardInv
<1> SUFFICES ASSUME Forward!Init PROVE ForwardInv
  OBVIOUS
<1>1. Forward!Lost = {} /\ lapses = 0
  BY DEF Forward!Init, Forward!Lost
<1>2. IsFiniteSet(Forward!Lost) /\ Cardinality(Forward!Lost) = 0
  BY <1>1, FS_EmptySet
<1>3. Traced
  BY <1>1, <1>2 DEF Forward!Init, Traced
<1> QED BY <1>3 DEF Forward!Init, ForwardInv, FiveTables, Keyed, Forward!OneEntryPerKey

(* What no table knows of stays the same or gets less. *)
LEMMA LostStays ==
    ASSUME entered' = entered,
           \A id : RowOf(id) \/ TradeOf(id) => RowOf(id)' \/ TradeOf(id)'
    PROVE  Forward!Lost' \subseteq Forward!Lost
<1> SUFFICES ASSUME NEW e \in Forward!Lost' PROVE e \in Forward!Lost
  OBVIOUS
<1>1. e \in entered /\ ~RowOf(e[1])' /\ ~TradeOf(e[1])'
  BY DEF Forward!Lost, RowOf, TradeOf
<1>2. ~RowOf(e[1]) /\ ~TradeOf(e[1])
  BY <1>1
<1> QED BY <1>1, <1>2 DEF Forward!Lost, RowOf, TradeOf

LEMMA TracedShrinks ==
    ASSUME Traced, lapses' \in {lapses, lapses + 1}, Forward!Lost' \subseteq Forward!Lost,
           stand' = "remove" => \A p \in hand' : TradeOf(p.id)'
    PROVE  Traced'
<1>1. /\ IsFiniteSet(Forward!Lost') /\ Cardinality(Forward!Lost') <= Cardinality(Forward!Lost)
      /\ Cardinality(Forward!Lost) \in Nat /\ Cardinality(Forward!Lost') \in Nat
  BY FS_Subset, FS_CardinalityType DEF Traced
<1>2. lapses' \in Nat /\ Cardinality(Forward!Lost') <= lapses'
  BY <1>1 DEF Traced
<1> QED BY <1>1, <1>2 DEF Traced

(* A step that writes neither rows, trades nor keys and enters nothing     *)
(* keeps the invariant where it puts nothing in hand.                      *)
LEMMA Harmless ==
    ASSUME ForwardInv, DOMAIN db' = DOMAIN db,
           db'.rows = db.rows, db'.trades = db.trades, db'.keys = db.keys,
           entered' = entered, lapses' \in {lapses, lapses + 1},
           (stand' = stand /\ hand' = hand) \/ stand' \notin {"enter", "remove"}
    PROVE  ForwardInv'
<1>1. Forward!Lost' \subseteq Forward!Lost
  BY DEF Forward!Lost
<1>2. Traced'
  BY <1>1, TracedShrinks DEF ForwardInv, Traced, TradeOf
<1> QED BY <1>2 DEF ForwardInv, FiveTables, Keyed, Forward!OneEntryPerKey

LEMMA KeepInv == ForwardInv /\ Forward!Keep => ForwardInv'
<1> SUFFICES ASSUME ForwardInv, Forward!Keep PROVE ForwardInv'
  OBVIOUS
<1> DEFINE p == [Head(todo) EXCEPT !.held = @ + 1]
<1>1. /\ stand = "manage" /\ UNCHANGED <<stand, hand, entered, lapses>>
      /\ db' = [db EXCEPT !.rows = (@ \ Forward!Row(p)) \cup {p}]
  BY DEF Forward!Keep
<1> HIDE DEF p
<1>2. /\ DOMAIN db' = DOMAIN db
      /\ db'.rows = (db.rows \ Forward!Row(p)) \cup {p}
      /\ db'.trades = db.trades /\ db'.keys = db.keys
  BY <1>1 DEF ForwardInv, FiveTables
<1>3. ASSUME NEW id, RowOf(id) PROVE RowOf(id)'
  <2>1. PICK r \in db.rows : r.id = id
    BY <1>3 DEF RowOf
  <2>2. CASE r \in Forward!Row(p)
    <3>1. p.id = id
      BY <2>1, <2>2 DEF Forward!Row
    <3> QED BY <1>2, <3>1 DEF RowOf
  <2>3. CASE r \notin Forward!Row(p)
    BY <1>2, <2>1, <2>3 DEF RowOf
  <2> QED BY <2>2, <2>3
<1>4. Traced'
  <2>1. \A id : RowOf(id) \/ TradeOf(id) => RowOf(id)' \/ TradeOf(id)'
    BY <1>2, <1>3 DEF TradeOf
  <2>2. Forward!Lost' \subseteq Forward!Lost
    BY <1>1, <2>1, LostStays
  <2> QED BY <1>1, <2>2, TracedShrinks DEF ForwardInv
<1> QED BY <1>1, <1>2, <1>4 DEF ForwardInv, FiveTables, Keyed, Forward!OneEntryPerKey

LEMMA SaveTradeInv == ForwardInv /\ Forward!SaveTrade => ForwardInv'
<1> SUFFICES ASSUME ForwardInv, Forward!SaveTrade PROVE ForwardInv'
  OBVIOUS
<1>0. PICK p, saved :
        /\ p = [Head(todo) EXCEPT !.held = @ + 1]
        /\ saved = [id |-> p.id, until |-> Forward!candle, held |-> p.held]
  OBVIOUS
<1>1. /\ stand' = "remove" /\ hand' = {p} /\ entered' = entered /\ lapses' = lapses
      /\ db' = [db EXCEPT !.trades = {t \in @ : t.id # p.id} \cup {saved}]
      /\ saved.id = p.id
  BY <1>0 DEF Forward!SaveTrade
<1>2. /\ DOMAIN db' = DOMAIN db
      /\ db'.trades = {t \in db.trades : t.id # p.id} \cup {saved}
      /\ db'.rows = db.rows /\ db'.keys = db.keys
  BY <1>1 DEF ForwardInv, FiveTables
<1>3. ASSUME NEW id, TradeOf(id) PROVE TradeOf(id)'
  <2>1. PICK t \in db.trades : t.id = id
    BY <1>3 DEF TradeOf
  <2> QED BY <1>1, <1>2, <2>1 DEF TradeOf
<1>4. TradeOf(p.id)'
  BY <1>1, <1>2 DEF TradeOf
<1>5. Traced'
  <2>1. \A id : RowOf(id) \/ TradeOf(id) => RowOf(id)' \/ TradeOf(id)'
    BY <1>2, <1>3 DEF RowOf
  <2>2. Forward!Lost' \subseteq Forward!Lost
    BY <1>1, <2>1, LostStays
  <2> QED BY <1>1, <1>4, <2>2, TracedShrinks DEF ForwardInv
<1> QED BY <1>1, <1>2, <1>5 DEF ForwardInv, FiveTables, Keyed, Forward!OneEntryPerKey

LEMMA RemoveInv == ForwardInv /\ Forward!RemovePosition => ForwardInv'
<1> SUFFICES ASSUME ForwardInv, Forward!RemovePosition PROVE ForwardInv'
  OBVIOUS
<1>1. PICK p \in hand : db' = [db EXCEPT !.rows = @ \ Forward!Row(p)]
  BY DEF Forward!RemovePosition
<1>2. stand = "remove" /\ stand' = "cool" /\ UNCHANGED <<hand, entered, lapses>>
  BY DEF Forward!RemovePosition
<1>3. /\ DOMAIN db' = DOMAIN db
      /\ db'.rows = db.rows \ Forward!Row(p)
      /\ db'.trades = db.trades /\ db'.keys = db.keys
  BY <1>1 DEF ForwardInv, FiveTables
<1>4. TradeOf(p.id)
  BY <1>2 DEF ForwardInv, Traced
<1>5. ASSUME NEW id, RowOf(id) PROVE RowOf(id)' \/ TradeOf(id)
  <2>1. PICK r \in db.rows : r.id = id
    BY <1>5 DEF RowOf
  <2> QED BY <1>3, <1>4, <2>1 DEF Forward!Row, RowOf
<1>6. Traced'
  <2>1. \A id : RowOf(id) \/ TradeOf(id) => RowOf(id)' \/ TradeOf(id)'
    BY <1>3, <1>5 DEF TradeOf
  <2>2. Forward!Lost' \subseteq Forward!Lost
    BY <1>2, <2>1, LostStays
  <2> QED BY <1>2, <2>2, TracedShrinks DEF ForwardInv
<1> QED BY <1>2, <1>3, <1>6 DEF ForwardInv, FiveTables, Keyed, Forward!OneEntryPerKey

LEMMA MarkInv ==
    ASSUME ForwardInv, NEW u, NEW side, Forward!MarkDuplicate(u, side)
    PROVE  ForwardInv'
<1> DEFINE p == [id |-> u, since |-> Forward!candle, side |-> side, held |-> 0]
<1>1. /\ <<Forward!candle, side>> \notin db.keys
      /\ db' = [db EXCEPT !.keys = @ \cup {<<Forward!candle, side>>}]
      /\ hand' = {p} /\ stand' = "enter" /\ entered' = entered /\ lapses' = lapses
  BY DEF Forward!MarkDuplicate
<1>2. p.since = Forward!candle /\ p.side = side
  OBVIOUS
<1> HIDE DEF p
<1>3. /\ DOMAIN db' = DOMAIN db
      /\ db'.keys = db.keys \cup {<<Forward!candle, side>>}
      /\ db'.rows = db.rows /\ db'.trades = db.trades
  BY <1>1 DEF ForwardInv, FiveTables
<1>4. \A e \in entered : ~(e[2] = Forward!candle /\ e[3] = side)
  BY <1>1 DEF ForwardInv, Keyed
<1>5. Keyed'
  BY <1>1, <1>2, <1>3, <1>4 DEF ForwardInv, Keyed
<1>6. Traced'
  <2>1. Forward!Lost' \subseteq Forward!Lost
    BY <1>1, <1>3 DEF Forward!Lost
  <2> QED BY <1>1, <2>1, TracedShrinks DEF ForwardInv
<1> QED BY <1>1, <1>3, <1>5, <1>6 DEF ForwardInv, FiveTables, Forward!OneEntryPerKey

(* An entry, saved or not, leaves the keys in order. *)
LEMMA EntryKeyed ==
    ASSUME ForwardInv, stand = "enter", stand' \notin {"enter", "remove"}, db'.keys = db.keys,
           NEW p \in hand, NEW new, new = <<p.id, p.since, p.side>>,
           entered' = entered \cup {new}
    PROVE  Keyed' /\ Forward!OneEntryPerKey'
<1>1. new[1] = p.id /\ new[2] = p.since /\ new[3] = p.side
  OBVIOUS
<1>2. /\ <<p.since, p.side>> \in db.keys
      /\ \A e \in entered : ~(e[2] = p.since /\ e[3] = p.side)
  BY DEF ForwardInv, Keyed
<1>3. Keyed'
  BY <1>1, <1>2 DEF ForwardInv, Keyed
<1>4. Forward!OneEntryPerKey'
  BY <1>1, <1>2 DEF ForwardInv, Forward!OneEntryPerKey
<1> QED BY <1>3, <1>4

LEMMA EnterInv == ForwardInv /\ Forward!Enter => ForwardInv'
<1> SUFFICES ASSUME ForwardInv, Forward!Enter PROVE ForwardInv'
  OBVIOUS
<1>1. PICK p \in hand :
        /\ db' = [db EXCEPT !.rows = @ \cup {p}]
        /\ entered' = entered \cup {<<p.id, p.since, p.side>>}
  BY DEF Forward!Enter
<1>2. stand = "enter" /\ stand' = "mark" /\ lapses' = lapses
  BY DEF Forward!Enter
<1>3. /\ DOMAIN db' = DOMAIN db
      /\ db'.rows = db.rows \cup {p}
      /\ db'.trades = db.trades /\ db'.keys = db.keys
  BY <1>1 DEF ForwardInv, FiveTables
<1>4. PICK new : new = <<p.id, p.since, p.side>>
  OBVIOUS
<1>5. entered' = entered \cup {new} /\ new[1] = p.id
  BY <1>1, <1>4
<1>6. Keyed' /\ Forward!OneEntryPerKey'
  BY <1>2, <1>3, <1>4, <1>5, EntryKeyed
<1>7. Forward!Lost' \subseteq Forward!Lost
  BY <1>3, <1>5 DEF Forward!Lost
<1>8. Traced'
  BY <1>2, <1>7, TracedShrinks DEF ForwardInv
<1> QED BY <1>3, <1>6, <1>8 DEF ForwardInv, FiveTables

(* A failed statement, which costs an entry its record at most. *)
LEMMA StatementInv == ForwardInv /\ Forward!StatementFails => ForwardInv'
<1> SUFFICES ASSUME ForwardInv, Forward!StatementFails PROVE ForwardInv'
  OBVIOUS
<1>1. /\ db' = db /\ lapses' = lapses + 1 /\ stand' = "idle"
      /\ \/ entered' = entered
         \/ stand = "enter" /\ \E p \in hand : entered' = entered \cup {<<p.id, p.since, p.side>>}
  BY DEF Forward!StatementFails
<1>2. CASE entered' = entered
  BY <1>1, <1>2, Harmless
<1>3. ASSUME stand = "enter", NEW p \in hand, entered' = entered \cup {<<p.id, p.since, p.side>>}
      PROVE  ForwardInv'
  <2>1. PICK new : new = <<p.id, p.since, p.side>>
    OBVIOUS
  <2>2. Keyed' /\ Forward!OneEntryPerKey'
    BY <1>1, <1>3, <2>1, EntryKeyed
  <2>3. Forward!Lost' \subseteq Forward!Lost \cup {new}
    BY <1>1, <1>3, <2>1 DEF Forward!Lost
  <2> DEFINE more == Forward!Lost \cup {new}
  <2>4. /\ IsFiniteSet(Forward!Lost) /\ Cardinality(Forward!Lost) \in Nat
        /\ lapses \in Nat /\ Cardinality(Forward!Lost) <= lapses
    BY FS_CardinalityType DEF ForwardInv, Traced
  <2>5. /\ IsFiniteSet(more)
        /\ Cardinality(more) = Cardinality(Forward!Lost)
             \/ Cardinality(more) = Cardinality(Forward!Lost) + 1
    BY <2>4, FS_AddElement
  <2>6. /\ IsFiniteSet(Forward!Lost') /\ Cardinality(Forward!Lost') \in Nat
        /\ Cardinality(Forward!Lost') <= Cardinality(more)
    BY <2>3, <2>5, FS_Subset, FS_CardinalityType
  <2> HIDE DEF more
  <2>7. lapses' \in Nat /\ Cardinality(Forward!Lost') <= lapses'
    BY <1>1, <2>4, <2>5, <2>6
  <2>8. Traced'
    BY <1>1, <2>6, <2>7 DEF Traced
  <2> QED BY <1>1, <2>2, <2>8 DEF ForwardInv, FiveTables
<1> QED BY <1>1, <1>2, <1>3
-----------------------------------------------------------------------------
LEMMA ForwardStep == ForwardInv /\ [Forward!Next]_Forward!vars => ForwardInv'
<1> SUFFICES ASSUME ForwardInv, [Forward!Next]_Forward!vars PROVE ForwardInv'
  OBVIOUS
<1>1. CASE Forward!CandleCloses \/ Forward!Poll \/ Forward!PollFails \/ Forward!Skip \/ Forward!Start \/ Forward!Finished \/ UNCHANGED Forward!vars
  <2>1. UNCHANGED <<db, stand, hand, entered, lapses>>
    BY <1>1 DEF Forward!CandleCloses, Forward!Poll, Forward!PollFails, Forward!Skip, Forward!Start, Forward!Finished, Forward!vars, Forward!memory
  <2> QED BY <2>1, Harmless
<1>2. CASE Forward!Handle \/ Forward!Sweep \/ Forward!NoEntry \/ Forward!Crash
  <2>1. stand' \notin {"enter", "remove"} /\ UNCHANGED <<db, entered, lapses>>
    BY <1>2 DEF Forward!Handle, Forward!Sweep, Forward!NoEntry, Forward!Crash
  <2> QED BY <2>1, Harmless
<1>3. CASE Forward!SetCooldown
  <2>1. /\ stand' = "manage" /\ entered' = entered /\ lapses' = lapses
        /\ db' = [db EXCEPT !.cooldown = Forward!candle + 1]
    BY <1>3 DEF Forward!SetCooldown
  <2>2. /\ DOMAIN db' = DOMAIN db /\ db'.rows = db.rows
        /\ db'.trades = db.trades /\ db'.keys = db.keys
    BY <2>1 DEF ForwardInv, FiveTables
  <2> QED BY <2>1, <2>2, Harmless
<1>4. CASE Forward!Handled
  <2>1. /\ stand' = "idle" /\ entered' = entered /\ lapses' = lapses
        /\ db' = [db EXCEPT !.last = Forward!candle]
    BY <1>4 DEF Forward!Handled
  <2>2. /\ DOMAIN db' = DOMAIN db /\ db'.rows = db.rows
        /\ db'.trades = db.trades /\ db'.keys = db.keys
    BY <2>1 DEF ForwardInv, FiveTables
  <2> QED BY <2>1, <2>2, Harmless
<1>5. ASSUME NEW u \in Forward!Fresh, NEW side \in Sides, Forward!MarkDuplicate(u, side) PROVE ForwardInv'
  BY <1>5, MarkInv
<1> QED BY <1>1, <1>2, <1>3, <1>4, <1>5, KeepInv, SaveTradeInv, RemoveInv, EnterInv, StatementInv
   DEF Forward!Next

-----------------------------------------------------------------------------
(* What is in memory and in the tables is well formed, and nothing is in   *)
(* memory while the process is down.                                       *)
Positions == [id : Signals, since : 1..MaxShut, side : Sides, held : Nat]

ForwardTyped ==
    /\ shut \in 0..MaxShut /\ up \in BOOLEAN
    /\ batch \in Seq(1..MaxShut) /\ seen \in 0..MaxShut
    /\ kept \in Seq(Positions) /\ todo \in Seq(Positions)
    /\ gone \subseteq Signals
    /\ stand \in {"idle", "manage", "remove", "cool", "check", "enter", "mark"}
    /\ stand # "idle" => batch # <<>>
    /\ stand \in {"remove", "cool"} => todo # <<>>
    /\ hand \subseteq Positions /\ \A p, q \in hand : p = q
    /\ cooldown \in 0..(MaxShut + 1)
    /\ DOMAIN db = {"last", "rows", "trades", "keys", "cooldown"}
    /\ db.rows \subseteq Positions /\ IsFiniteSet(db.rows)
    /\ db.last \in 0..MaxShut /\ db.cooldown \in 0..(MaxShut + 1)
    /\ ~up => kept = <<>> /\ stand = "idle"

(* Who is in memory, on the list of the candle or in a table was entered   *)
(* once, who is being entered was not, and who is in memory is in the      *)
(* table unless he is flagged or no table knows of him.                    *)
Known(id) == \E e \in entered : e[1] = id
Covered(id) == RowOf(id) \/ id \in gone \/ ~TradeOf(id)
AllCovered == \A k \in 1..Len(kept) : Covered(kept[k].id)

Remembered ==
    /\ \A k \in 1..Len(kept) : Known(kept[k].id)
    /\ \A k \in 1..Len(todo) : Known(todo[k].id)
    /\ \A r \in db.rows : Known(r.id)
    /\ \A t \in db.trades : Known(t.id)
    /\ \A j, k \in 1..Len(kept) : kept[j].id = kept[k].id => j = k
    /\ \A q, r \in db.rows : q.id = r.id => q = r
    /\ stand = "enter" => \A p \in hand : ~Known(p.id)
    /\ stand \in {"remove", "cool"} => \A p \in hand : p.id \in gone
    /\ AllCovered
-----------------------------------------------------------------------------
(* A function on the first numbers is a sequence. *)
LEMMA FunctionIsSeq ==
    ASSUME NEW S, NEW n \in Nat, NEW f \in [1..n -> S]
    PROVE  f \in Seq(S) /\ Len(f) = n
OBVIOUS

(* A function on a finite set has finitely many values. *)
LEMMA FiniteRange ==
    ASSUME NEW S, IsFiniteSet(S), NEW f, DOMAIN f = S
    PROVE  IsFiniteSet({f[x] : x \in S})
<1> DEFINE T == {f[x] : x \in S}
<1>1. PICK n \in Nat : ExistsSurjection(1..n, S)
  BY FS_NatSurjection
<1>2. PICK g \in [1..n -> S] : \A x \in S : \E k \in 1..n : g[k] = x
  BY <1>1 DEF ExistsSurjection, Surjection
<1> DEFINE h == [k \in 1..n |-> f[g[k]]]
<1>3. h \in [1..n -> T] /\ \A y \in T : \E k \in 1..n : h[k] = y
  BY <1>2
<1>4. ExistsSurjection(1..n, T)
  BY <1>3 DEF ExistsSurjection, Surjection
<1> QED BY <1>4, FS_NatSurjection

(* A finite set in any order is a sequence of its elements, each once. *)
LEMMA AnyOrder ==
    ASSUME NEW S, IsFiniteSet(S), NEW s \in Forward!SetToSeqs(S)
    PROVE  /\ s \in Seq(S)
           /\ \A k \in 1..Len(s) : s[k] \in S
           /\ \A j, k \in 1..Len(s) : s[j] = s[k] => j = k
<1>1. Cardinality(S) \in Nat /\ Cardinality(S) = Forward!Cardinality(S)
  <2>1. Cardinality(S) \in Nat
    BY FS_CardinalityType
  <2>2. Cardinality(S) = Forward!Cardinality(S)
    BY DEF Cardinality, Forward!Cardinality
  <2> QED BY <2>1, <2>2
<1>2. /\ s \in [1..Cardinality(S) -> S]
      /\ \A j, k \in 1..Cardinality(S) : j # k => s[j] # s[k]
  BY <1>1 DEF Forward!SetToSeqs
<1>3. s \in Seq(S) /\ Len(s) = Cardinality(S)
  BY <1>1, <1>2, FunctionIsSeq
<1> QED BY <1>2, <1>3

(* What the flagged positions leave behind in memory. *)
LEMMA SweptMemory ==
    ASSUME ForwardTyped,
           NEW s \in Forward!SetToSeqs({p \in Forward!Range(kept) : p.id \notin gone})
    PROVE  /\ s \in Seq(Positions)
           /\ \A k \in 1..Len(s) : /\ s[k].id \notin gone
                                   /\ \E j \in 1..Len(kept) : s[k] = kept[j]
           /\ \A j, k \in 1..Len(s) : s[j] = s[k] => j = k
<1> DEFINE S == {p \in Forward!Range(kept) : p.id \notin gone}
<1>1. kept \in Seq(Positions) /\ DOMAIN kept = 1..Len(kept) /\ Len(kept) \in Nat
  BY DEF ForwardTyped
<1>2. Forward!Range(kept) = {kept[k] : k \in 1..Len(kept)}
  BY <1>1 DEF Forward!Range
<1>3. IsFiniteSet(1..Len(kept))
  BY <1>1, FS_Interval
<1>4. IsFiniteSet({kept[k] : k \in 1..Len(kept)})
  BY <1>1, <1>3, FiniteRange
<1>5. S \subseteq Forward!Range(kept) /\ IsFiniteSet(S)
  BY <1>2, <1>4, FS_Subset
<1>6. \A p \in S : p \in Positions /\ p.id \notin gone /\ \E j \in 1..Len(kept) : p = kept[j]
  BY <1>1, <1>2
<1>7. s \in Forward!SetToSeqs(S)
  OBVIOUS
<1> HIDE DEF S
<1>8. /\ s \in Seq(S) /\ \A k \in 1..Len(s) : s[k] \in S
      /\ \A j, k \in 1..Len(s) : s[j] = s[k] => j = k
  BY <1>5, <1>7, AnyOrder
<1>9. s \in Seq(Positions)
  BY <1>6, <1>8
<1> QED BY <1>6, <1>8, <1>9

(* The candle in hand is one that has closed. *)
LEMMA CandleIsClosed ==
    ASSUME ForwardTyped, batch # <<>>
    PROVE  /\ Forward!candle \in 1..MaxShut
           /\ Tail(batch) \in Seq(1..MaxShut)
<1>1. batch \in Seq(1..MaxShut)
  BY DEF ForwardTyped
<1> QED BY <1>1, HeadTailProperties DEF Forward!candle

(* The next position to manage, and what is left of the list. *)
LEMMA NextToManage ==
    ASSUME ForwardTyped, todo # <<>>
    PROVE  /\ Head(todo) \in Positions /\ Head(todo) = todo[1] /\ 1 \in 1..Len(todo)
           /\ Tail(todo) \in Seq(Positions)
           /\ Len(Tail(todo)) = Len(todo) - 1
           /\ \A k \in 1..Len(Tail(todo)) : Tail(todo)[k] = todo[k + 1] /\ k + 1 \in 1..Len(todo)
<1>1. todo \in Seq(Positions)
  BY DEF ForwardTyped
<1> QED BY <1>1, HeadTailProperties

(* A position that is held one candle longer is the same position. *)
LEMMA HeldLonger ==
    ASSUME NEW p \in Positions
    PROVE  /\ [p EXCEPT !.held = @ + 1] \in Positions
           /\ [p EXCEPT !.held = @ + 1].id = p.id
BY DEF Positions

(* A position written back to the list. *)
LEMMA WrittenBack ==
    ASSUME ForwardTyped, NEW p \in Positions
    PROVE  /\ Forward!InMemory(p) \in Seq(Positions)
           /\ Len(Forward!InMemory(p)) = Len(kept)
           /\ \A k \in 1..Len(kept) : Forward!InMemory(p)[k].id = kept[k].id
<1>1. kept \in Seq(Positions) /\ \A k \in 1..Len(kept) : kept[k] \in Positions
  BY DEF ForwardTyped
<1> DEFINE f == [k \in 1..Len(kept) |-> IF kept[k].id = p.id THEN p ELSE kept[k]]
<1>2. Forward!InMemory(p) = f
  BY <1>1 DEF Forward!InMemory
<1>3. f \in [1..Len(kept) -> Positions] /\ \A k \in 1..Len(kept) : f[k].id = kept[k].id
  BY <1>1
<1>4. Len(kept) \in Nat
  BY <1>1
<1> HIDE DEF f
<1>5. f \in Seq(Positions) /\ Len(f) = Len(kept)
  BY <1>3, <1>4, FunctionIsSeq
<1> QED BY <1>2, <1>3, <1>5

LEMMA TypedInit == Forward!Init => ForwardTyped
<1> SUFFICES ASSUME Forward!Init PROVE ForwardTyped
  OBVIOUS
<1> USE ForwardAssumption DEF Forward!Init
<1>1. /\ batch \in Seq(1..MaxShut) /\ kept \in Seq(Positions) /\ todo \in Seq(Positions)
  BY EmptySeq
<1>2. IsFiniteSet(db.rows)
  BY FS_EmptySet
<1>3. up \in BOOLEAN
  BY Zenon
<1> QED BY <1>1, <1>2, <1>3 DEF ForwardTyped

(* The steps that write no table. *)
LEMMA TypedInMemory ==
    ASSUME ForwardTyped,
           \/ Forward!CandleCloses \/ Forward!Poll \/ Forward!PollFails
           \/ Forward!Skip \/ Forward!Handle \/ Forward!Sweep \/ Forward!NoEntry
    PROVE  ForwardTyped'
<1> USE ForwardAssumption
<1>1. CASE Forward!CandleCloses
  BY <1>1 DEF Forward!CandleCloses, Forward!memory, ForwardTyped
<1>2. CASE Forward!Poll
  <2> USE <1>2 DEF Forward!Poll
  <2>1. shut \in Nat /\ shut <= MaxShut
    BY DEF ForwardTyped
  <2> DEFINE n == IF shut < 2 THEN shut ELSE 2
  <2>2. n \in Nat /\ n <= shut
    BY <2>1
  <2>3. batch' = [k \in 1..n |-> shut - n + k]
    OBVIOUS
  <2> HIDE DEF n
  <2>4. batch' \in Seq(1..MaxShut)
    <3>1. \A k \in 1..n : shut - n + k \in 1..MaxShut
      BY <2>1, <2>2
    <3>2. batch' \in [1..n -> 1..MaxShut]
      BY <2>3, <3>1
    <3> QED BY <2>2, <3>2, FunctionIsSeq, Zenon
  <2> QED BY <2>4 DEF ForwardTyped
<1>3. CASE Forward!PollFails
  BY <1>3 DEF Forward!PollFails, Forward!memory, ForwardTyped
<1>4. CASE Forward!Skip
  <2>1. batch' \in Seq(1..MaxShut)
    BY <1>4, CandleIsClosed DEF Forward!Skip
  <2> QED BY <1>4, <2>1 DEF Forward!Skip, ForwardTyped
<1>5. CASE Forward!Handle
  BY <1>5 DEF Forward!Handle, ForwardTyped
<1>6. CASE Forward!NoEntry
  BY <1>6 DEF Forward!NoEntry, ForwardTyped
<1>7. CASE Forward!Sweep
  <2>1. /\ stand = "manage" /\ stand' = "check" /\ up /\ hand' = {} /\ gone' \in {gone, {}}
        /\ \/ kept' = kept
           \/ kept' \in Forward!SetToSeqs({p \in Forward!Range(kept) : p.id \notin gone})
        /\ UNCHANGED <<shut, up, batch, seen, todo, cooldown, db>>
    BY <1>7 DEF Forward!Sweep
  <2>2. kept' \in Seq(Positions)
    BY <2>1, SweptMemory DEF ForwardTyped
  <2> QED BY <2>1, <2>2 DEF ForwardTyped
<1> QED BY <1>1, <1>2, <1>3, <1>4, <1>5, <1>6, <1>7

(* The steps that manage a position. *)
LEMMA TypedManaging ==
    ASSUME ForwardTyped,
           \/ Forward!Keep \/ Forward!SaveTrade
           \/ Forward!RemovePosition \/ Forward!SetCooldown
    PROVE  ForwardTyped'
<1> USE ForwardAssumption
<1>1. CASE Forward!Keep
  <2> DEFINE p == [Head(todo) EXCEPT !.held = @ + 1]
  <2>1. /\ p \in Positions /\ Tail(todo) \in Seq(Positions)
    BY <1>1, NextToManage, HeldLonger DEF Forward!Keep
  <2> HIDE DEF p
  <2>2. /\ kept' = Forward!InMemory(p) /\ todo' = Tail(todo)
        /\ db' = [db EXCEPT !.rows = (@ \ Forward!Row(p)) \cup {p}]
        /\ stand = "manage" /\ up
        /\ UNCHANGED <<shut, up, batch, seen, gone, stand, hand, cooldown>>
    BY <1>1 DEF Forward!Keep, p
  <2>3. kept' \in Seq(Positions)
    BY <2>1, <2>2, WrittenBack
  <2>4. /\ DOMAIN db' = DOMAIN db
        /\ db'.rows = (db.rows \ Forward!Row(p)) \cup {p}
        /\ db'.last = db.last /\ db'.cooldown = db.cooldown
    BY <2>2 DEF ForwardTyped
  <2>5. db'.rows \subseteq Positions /\ IsFiniteSet(db'.rows)
    <3>1. db.rows \subseteq Positions /\ IsFiniteSet(db.rows)
      BY DEF ForwardTyped
    <3>2. IsFiniteSet(db.rows \ Forward!Row(p))
      BY <3>1, FS_Subset
    <3>3. IsFiniteSet((db.rows \ Forward!Row(p)) \cup {p})
      BY <3>2, FS_AddElement
    <3> QED BY <2>1, <2>4, <3>1, <3>3
  <2> QED BY <2>1, <2>2, <2>3, <2>4, <2>5 DEF ForwardTyped
<1>2. CASE Forward!SaveTrade
  <2> DEFINE p == [Head(todo) EXCEPT !.held = @ + 1]
  <2>1. p \in Positions /\ p.id \in Signals
    BY <1>2, NextToManage, HeldLonger DEF Forward!SaveTrade, Positions
  <2> HIDE DEF p
  <2>2. PICK T : db' = [db EXCEPT !.trades = T]
    BY <1>2 DEF Forward!SaveTrade
  <2>3. /\ hand' = {p} /\ stand = "manage" /\ stand' = "remove" /\ todo # <<>> /\ up
        /\ kept' = Forward!InMemory(p) /\ gone' = gone \cup {p.id}
        /\ UNCHANGED <<shut, up, batch, seen, todo, cooldown>>
    BY <1>2 DEF Forward!SaveTrade, p
  <2>4. /\ DOMAIN db' = DOMAIN db /\ db'.rows = db.rows
        /\ db'.last = db.last /\ db'.cooldown = db.cooldown
    BY <2>2 DEF ForwardTyped
  <2>5. kept' \in Seq(Positions)
    BY <2>1, <2>3, WrittenBack
  <2> QED BY <2>1, <2>3, <2>4, <2>5 DEF ForwardTyped
<1>3. CASE Forward!RemovePosition
  <2>1. PICK p \in hand : db' = [db EXCEPT !.rows = @ \ Forward!Row(p)]
    BY <1>3 DEF Forward!RemovePosition
  <2>2. /\ stand = "remove" /\ stand' = "cool" /\ up
        /\ UNCHANGED <<shut, up, batch, seen, kept, gone, todo, hand, cooldown>>
    BY <1>3 DEF Forward!RemovePosition
  <2>3. /\ DOMAIN db' = DOMAIN db /\ db'.rows = db.rows \ Forward!Row(p)
        /\ db'.last = db.last /\ db'.cooldown = db.cooldown
    BY <2>1 DEF ForwardTyped
  <2>4. db'.rows \subseteq Positions /\ IsFiniteSet(db'.rows)
    BY <2>3, FS_Subset DEF ForwardTyped
  <2> QED BY <2>2, <2>3, <2>4 DEF ForwardTyped
<1>4. CASE Forward!SetCooldown
  <2>2. /\ stand = "cool" /\ stand' = "manage" /\ up /\ todo' = Tail(todo)
        /\ cooldown' = Forward!candle + 1
        /\ db' = [db EXCEPT !.cooldown = Forward!candle + 1]
        /\ UNCHANGED <<shut, up, batch, seen, kept, gone, hand>>
    BY <1>4 DEF Forward!SetCooldown
  <2>3. Forward!candle + 1 \in 0..(MaxShut + 1)
    <3>1. batch # <<>>
      BY <2>2 DEF ForwardTyped
    <3>2. Forward!candle \in 1..MaxShut
      BY <3>1, CandleIsClosed
    <3> QED BY <3>2
  <2>4. todo' \in Seq(Positions)
    BY <2>2, NextToManage DEF ForwardTyped
  <2>6. /\ DOMAIN db' = DOMAIN db /\ db'.rows = db.rows
        /\ db'.last = db.last /\ db'.cooldown = Forward!candle + 1
    BY <2>2 DEF ForwardTyped
  <2> QED BY <2>2, <2>3, <2>4, <2>6 DEF ForwardTyped
<1> QED BY <1>1, <1>2, <1>3, <1>4

(* The steps of an entry, the end of a candle, a crash and a start. *)
LEMMA TypedEntering ==
    ASSUME ForwardTyped,
           \/ \E u \in Forward!Fresh, side \in Sides : Forward!MarkDuplicate(u, side)
           \/ Forward!Enter \/ Forward!Handled \/ Forward!StatementFails
           \/ Forward!Crash \/ Forward!Start
    PROVE  ForwardTyped'
<1> USE ForwardAssumption
<1>1. ASSUME NEW u \in Forward!Fresh, NEW side \in Sides, Forward!MarkDuplicate(u, side)
      PROVE  ForwardTyped'
  <2> DEFINE p == [id |-> u, since |-> Forward!candle, side |-> side, held |-> 0]
  <2>1. /\ stand = "check" /\ stand' = "enter" /\ up /\ hand' = {p}
        /\ db' = [db EXCEPT !.keys = @ \cup {<<Forward!candle, side>>}]
        /\ UNCHANGED <<shut, up, batch, seen, kept, gone, todo, cooldown>>
    BY <1>1 DEF Forward!MarkDuplicate
  <2>2. batch # <<>>
    BY <2>1 DEF ForwardTyped
  <2>3. p \in Positions
    BY <2>2, CandleIsClosed DEF Positions, Forward!Fresh
  <2> HIDE DEF p
  <2>4. /\ DOMAIN db' = DOMAIN db /\ db'.rows = db.rows
        /\ db'.last = db.last /\ db'.cooldown = db.cooldown
    BY <2>1 DEF ForwardTyped
  <2> QED BY <2>1, <2>2, <2>3, <2>4 DEF ForwardTyped
<1>2. CASE Forward!Enter
  <2>1. PICK p \in hand : kept' = Append(kept, p) /\ db' = [db EXCEPT !.rows = @ \cup {p}]
    BY <1>2 DEF Forward!Enter
  <2>2. /\ stand = "enter" /\ stand' = "mark" /\ up /\ hand' = {}
        /\ UNCHANGED <<shut, up, batch, seen, gone, todo, cooldown>>
    BY <1>2 DEF Forward!Enter
  <2>3. p \in Positions /\ kept' \in Seq(Positions)
    BY <2>1 DEF ForwardTyped
  <2>4. /\ DOMAIN db' = DOMAIN db /\ db'.rows = db.rows \cup {p}
        /\ db'.last = db.last /\ db'.cooldown = db.cooldown
    BY <2>1 DEF ForwardTyped
  <2>5. db'.rows \subseteq Positions /\ IsFiniteSet(db'.rows)
    <3>1. db.rows \subseteq Positions /\ IsFiniteSet(db.rows)
      BY DEF ForwardTyped
    <3>2. IsFiniteSet(db.rows \cup {p})
      BY <3>1, FS_AddElement
    <3> QED BY <2>3, <2>4, <3>1, <3>2
  <2> QED BY <2>2, <2>3, <2>4, <2>5 DEF ForwardTyped
<1>3. CASE Forward!Handled
  <2>1. /\ stand = "mark" /\ stand' = "idle" /\ up
        /\ seen' = Forward!candle /\ batch' = Tail(batch)
        /\ db' = [db EXCEPT !.last = Forward!candle]
        /\ UNCHANGED <<shut, up, kept, gone, todo, hand, cooldown>>
    BY <1>3 DEF Forward!Handled
  <2>2. batch # <<>>
    BY <2>1 DEF ForwardTyped
  <2>3. Forward!candle \in 1..MaxShut /\ batch' \in Seq(1..MaxShut)
    BY <2>1, <2>2, CandleIsClosed
  <2>4. /\ DOMAIN db' = DOMAIN db /\ db'.rows = db.rows
        /\ db'.last = Forward!candle /\ db'.cooldown = db.cooldown
    BY <2>1 DEF ForwardTyped
  <2>5. seen' \in 0..MaxShut /\ db'.last \in 0..MaxShut
    BY <2>1, <2>3, <2>4
  <2> QED BY <2>1, <2>3, <2>4, <2>5 DEF ForwardTyped
<1>4. CASE Forward!Crash
  <2> USE <1>4 DEF Forward!Crash
  <2>1. /\ batch' \in Seq(1..MaxShut) /\ kept' \in Seq(Positions) /\ todo' \in Seq(Positions)
    BY EmptySeq
  <2>2. up' \in BOOLEAN
    BY Zenon
  <2> QED BY <2>1, <2>2 DEF ForwardTyped
<1>5. CASE Forward!Start
  <2> USE <1>5 DEF Forward!Start
  <2>1. kept' \in Seq(Positions)
    <3>1. IsFiniteSet(db.rows) /\ kept' \in Forward!SetToSeqs(db.rows)
      BY DEF ForwardTyped
    <3>2. kept' \in Seq(db.rows)
      BY <3>1, AnyOrder
    <3> QED BY <3>2 DEF ForwardTyped
  <2>2. up' \in BOOLEAN
    BY Zenon
  <2> QED BY <2>1, <2>2 DEF ForwardTyped
<1>6. CASE Forward!StatementFails
  <2>1. /\ stand # "idle" /\ up /\ stand' = "idle" /\ batch' = <<>> /\ todo' = <<>> /\ hand' = {}
        /\ UNCHANGED <<shut, up, db>>
    BY <1>6 DEF Forward!StatementFails
  <2>2. Forward!candle \in 1..MaxShut
    BY <2>1, CandleIsClosed DEF ForwardTyped
  <2>3. seen' \in {seen, Forward!candle} /\ cooldown' \in {cooldown, Forward!candle + 1}
    BY <1>6 DEF Forward!StatementFails
  <2>4. seen' \in 0..MaxShut /\ cooldown' \in 0..(MaxShut + 1)
    BY <2>2, <2>3 DEF ForwardTyped
  <2> DEFINE q == [Head(todo) EXCEPT !.held = @ + 1]
  <2>5. \/ kept' = kept /\ gone' = gone
        \/ todo # <<>> /\ kept' = Forward!InMemory(q) /\ gone' \in {gone, gone \cup {q.id}}
        \/ gone' = gone /\ \E p \in hand : kept' = Append(kept, p)
    BY <1>6 DEF Forward!StatementFails
  <2>6. todo # <<>> => q \in Positions /\ q.id \in Signals
    BY NextToManage, HeldLonger DEF Positions
  <2> HIDE DEF q
  <2>7. kept' \in Seq(Positions) /\ gone' \subseteq Signals
    <3>1. ASSUME NEW p \in hand PROVE Append(kept, p) \in Seq(Positions)
      BY DEF ForwardTyped
    <3>2. CASE todo # <<>> /\ kept' = Forward!InMemory(q) /\ gone' \in {gone, gone \cup {q.id}}
      BY <2>6, <3>2, WrittenBack DEF ForwardTyped
    <3> QED BY <2>5, <3>1, <3>2 DEF ForwardTyped
  <2>8. batch' \in Seq(1..MaxShut) /\ todo' \in Seq(Positions)
    BY <2>1, EmptySeq
  <2> QED BY <2>1, <2>4, <2>7, <2>8 DEF ForwardTyped
<1> QED BY <1>1, <1>2, <1>3, <1>4, <1>5, <1>6

LEMMA TypedStep == ForwardTyped /\ [Forward!Next]_Forward!vars => ForwardTyped'
<1> SUFFICES ASSUME ForwardTyped, [Forward!Next]_Forward!vars PROVE ForwardTyped'
  OBVIOUS
<1>1. CASE UNCHANGED Forward!vars \/ Forward!Finished
  BY <1>1 DEF Forward!Finished, Forward!vars, Forward!memory, ForwardTyped
<1> QED BY <1>1, TypedInMemory, TypedManaging, TypedEntering DEF Forward!Next
-----------------------------------------------------------------------------
LEMMA RememberedInit == Forward!Init => Remembered
<1> SUFFICES ASSUME Forward!Init PROVE Remembered
  OBVIOUS
<1> USE DEF Forward!Init
<1>1. Len(kept) = 0 /\ Len(todo) = 0
  BY EmptySeq
<1> QED BY <1>1 DEF Remembered, AllCovered

(* The steps that leave the memory, the tables and the entries alone. *)
LEMMA RememberedQuiet ==
    ASSUME Remembered, UNCHANGED <<kept, gone, entered>>,
           db'.rows = db.rows, db'.trades = db.trades,
           todo' \in {todo, kept} \/ Len(todo') = 0,
           \/ UNCHANGED <<stand, hand>>
           \/ stand' \notin {"enter", "remove", "cool"}
    PROVE  Remembered'
BY DEF Remembered, Known, AllCovered, Covered, RowOf, TradeOf

(* So does what rewrites a position of the list and covers no less. *)
LEMMA CoveredStays ==
    ASSUME AllCovered, Len(kept') = Len(kept),
           \A k \in 1..Len(kept) : kept'[k].id = kept[k].id,
           \A id : Covered(id) => Covered(id)'
    PROVE  AllCovered'
<1> SUFFICES ASSUME NEW k \in 1..Len(kept')
             PROVE  (\E r \in db'.rows : r.id = kept'[k].id) \/ kept'[k].id \in gone'
                      \/ ~(\E t \in db'.trades : t.id = kept'[k].id)
  BY DEF AllCovered, Covered, RowOf, TradeOf
<1>1. PICK id : id = kept'[k].id
  OBVIOUS
<1>2. Covered(id)'
  BY <1>1 DEF AllCovered
<1> QED BY <1>1, <1>2 DEF Covered, RowOf, TradeOf

LEMMA RememberedKeep == ForwardTyped /\ Remembered /\ Forward!Keep => Remembered'
<1> SUFFICES ASSUME ForwardTyped, Remembered, Forward!Keep PROVE Remembered'
  OBVIOUS
<1> DEFINE p == [Head(todo) EXCEPT !.held = @ + 1]
<1>1. /\ p.id = todo[1].id /\ Known(p.id) /\ p \in Positions
      /\ \A k \in 1..Len(Tail(todo)) : Tail(todo)[k] = todo[k + 1] /\ k + 1 \in 1..Len(todo)
  BY NextToManage, HeldLonger DEF Forward!Keep, Remembered
<1> HIDE DEF p
<1>2. /\ kept' = Forward!InMemory(p) /\ todo' = Tail(todo) /\ stand = "manage"
      /\ db' = [db EXCEPT !.rows = (@ \ Forward!Row(p)) \cup {p}]
      /\ UNCHANGED <<gone, stand, hand, entered>>
  BY DEF Forward!Keep, p
<1>3. db'.rows = {r \in db.rows : r.id # p.id} \cup {p} /\ db'.trades = db.trades
  BY <1>2 DEF ForwardTyped, Forward!Row
<1>4. Len(kept') = Len(kept) /\ \A k \in 1..Len(kept) : kept'[k].id = kept[k].id
  BY <1>1, <1>2, WrittenBack
<1>5. \A id : Covered(id) => Covered(id)'
  BY <1>2, <1>3 DEF Covered, RowOf, TradeOf
<1>6. \A k \in 1..Len(todo') : Known(todo'[k].id)
  BY <1>1, <1>2 DEF Remembered
<1>7. \A id : Known(id)' <=> Known(id)
  BY <1>2 DEF Known
<1>8. /\ \A r \in db'.rows : Known(r.id)
      /\ \A q, r \in db'.rows : q.id = r.id => q = r
  BY <1>1, <1>3 DEF Remembered
<1>9. AllCovered'
  BY <1>4, <1>5, CoveredStays DEF Remembered
<1> QED BY <1>2, <1>3, <1>4, <1>6, <1>7, <1>8, <1>9 DEF Remembered, Known

(* A trade is saved, the row of its position removed, and the position     *)
(* forgotten.                                                              *)
LEMMA RememberedSave == ForwardTyped /\ Remembered /\ Forward!SaveTrade => Remembered'
<1> SUFFICES ASSUME ForwardTyped, Remembered, Forward!SaveTrade PROVE Remembered'
  OBVIOUS
<1> DEFINE p == [Head(todo) EXCEPT !.held = @ + 1]
<1>1. p.id = todo[1].id /\ Known(p.id) /\ p \in Positions
  BY NextToManage, HeldLonger DEF Forward!SaveTrade, Remembered
<1> HIDE DEF p
<1>2. PICK t : /\ t.id = p.id
               /\ db' = [db EXCEPT !.trades = {u \in @ : u.id # p.id} \cup {t}]
  <2>1. PICK t : t = [id |-> p.id, until |-> Forward!candle, held |-> p.held]
    OBVIOUS
  <2>2. t.id = p.id
    BY <2>1
  <2> QED BY <2>1, <2>2 DEF Forward!SaveTrade, p
<1>3. /\ hand' = {p} /\ stand = "manage" /\ stand' = "remove"
      /\ kept' = Forward!InMemory(p) /\ gone' = gone \cup {p.id}
      /\ UNCHANGED <<todo, entered>>
  BY DEF Forward!SaveTrade, p
<1>4. db'.rows = db.rows /\ db'.trades = {u \in db.trades : u.id # p.id} \cup {t}
  BY <1>2 DEF ForwardTyped
<1>5. Len(kept') = Len(kept) /\ \A k \in 1..Len(kept) : kept'[k].id = kept[k].id
  BY <1>1, <1>3, WrittenBack
<1>6. \A id : Covered(id) => Covered(id)'
  BY <1>2, <1>3, <1>4 DEF Covered, RowOf, TradeOf
<1>7. AllCovered'
  BY <1>5, <1>6, CoveredStays DEF Remembered
<1>8. \A u \in db'.trades : Known(u.id)
  BY <1>1, <1>2, <1>4 DEF Remembered
<1> QED BY <1>1, <1>3, <1>4, <1>5, <1>7, <1>8 DEF Remembered, Known

LEMMA RememberedRemove == ForwardTyped /\ Remembered /\ Forward!RemovePosition => Remembered'
<1> SUFFICES ASSUME ForwardTyped, Remembered, Forward!RemovePosition PROVE Remembered'
  OBVIOUS
<1>1. PICK p \in hand : db' = [db EXCEPT !.rows = @ \ Forward!Row(p)]
  BY DEF Forward!RemovePosition
<1>2. /\ stand = "remove" /\ stand' = "cool"
      /\ UNCHANGED <<kept, gone, todo, hand, entered>>
  BY DEF Forward!RemovePosition
<1>3. db'.rows = {r \in db.rows : r.id # p.id} /\ db'.trades = db.trades
  BY <1>1 DEF ForwardTyped, Forward!Row
<1>4. p.id \in gone
  BY <1>2 DEF Remembered
<1>5. \A k \in 1..Len(kept) : kept[k].id \in gone \/ kept[k].id # p.id
  BY <1>4
<1> QED BY <1>2, <1>3, <1>5 DEF Remembered, Known, AllCovered, Covered, RowOf, TradeOf

LEMMA RememberedCooldown == ForwardTyped /\ Remembered /\ Forward!SetCooldown => Remembered'
<1> SUFFICES ASSUME ForwardTyped, Remembered, Forward!SetCooldown PROVE Remembered'
  OBVIOUS
<1>1. /\ stand = "cool" /\ stand' = "manage" /\ todo' = Tail(todo)
      /\ db' = [db EXCEPT !.cooldown = Forward!candle + 1]
      /\ UNCHANGED <<kept, gone, entered>>
  BY DEF Forward!SetCooldown
<1>2. db'.rows = db.rows /\ db'.trades = db.trades /\ todo # <<>>
  BY <1>1 DEF ForwardTyped
<1>3. \A j \in 1..Len(todo') : Known(todo'[j].id)
  BY <1>1, <1>2, NextToManage DEF Remembered
<1> QED BY <1>1, <1>2, <1>3 DEF Remembered, Known, AllCovered, Covered, RowOf, TradeOf

(* The flagged positions leave the memory. *)
LEMMA RememberedSweep == ForwardTyped /\ Remembered /\ Forward!Sweep => Remembered'
<1> SUFFICES ASSUME ForwardTyped, Remembered, Forward!Sweep PROVE Remembered'
  OBVIOUS
<1>1. /\ stand' = "check" /\ UNCHANGED <<todo, db, entered>>
      /\ \/ UNCHANGED <<kept, gone>>
         \/ kept' \in Forward!SetToSeqs({p \in Forward!Range(kept) : p.id \notin gone})
  BY DEF Forward!Sweep
<1>2. CASE UNCHANGED <<kept, gone>>
  BY <1>1, <1>2, RememberedQuiet
<1>3. CASE kept' \in Forward!SetToSeqs({p \in Forward!Range(kept) : p.id \notin gone})
  <2>1. /\ \A k \in 1..Len(kept') : /\ kept'[k].id \notin gone
                                   /\ \E j \in 1..Len(kept) : kept'[k] = kept[j]
        /\ \A j, k \in 1..Len(kept') : kept'[j] = kept'[k] => j = k
    BY <1>3, SweptMemory
  <2>2. /\ \A k \in 1..Len(kept') : Known(kept'[k].id)
        /\ \A j, k \in 1..Len(kept') : kept'[j].id = kept'[k].id => j = k
    BY <2>1 DEF Remembered
  <2>3. \A k \in 1..Len(kept') : RowOf(kept'[k].id) \/ ~TradeOf(kept'[k].id)
    BY <2>1 DEF Remembered, AllCovered, Covered
  <2> QED BY <1>1, <2>2, <2>3 DEF Remembered, Known, AllCovered, Covered, RowOf, TradeOf
<1> QED BY <1>1, <1>2, <1>3

(* A key is marked for a trade that has not been entered, and then it is. *)
LEMMA RememberedMark ==
    ASSUME ForwardTyped, Remembered,
           NEW u \in Forward!Fresh, NEW side, Forward!MarkDuplicate(u, side)
    PROVE  Remembered'
<1> DEFINE p == [id |-> u, since |-> Forward!candle, side |-> side, held |-> 0]
<1>1. /\ hand' = {p} /\ stand = "check" /\ stand' = "enter"
      /\ db' = [db EXCEPT !.keys = @ \cup {<<Forward!candle, side>>}]
      /\ UNCHANGED <<kept, gone, todo, entered>>
  BY DEF Forward!MarkDuplicate
<1>2. p.id = u /\ ~Known(u)
  BY DEF Forward!Fresh, Known
<1> HIDE DEF p
<1>3. db'.rows = db.rows /\ db'.trades = db.trades
  BY <1>1 DEF ForwardTyped
<1> QED BY <1>1, <1>2, <1>3 DEF Remembered, Known, AllCovered, Covered, RowOf, TradeOf

(* An entry is remembered, whether its row was written or not. *)
LEMMA EntryRemembered ==
    ASSUME ForwardTyped, Remembered, stand = "enter", stand' \notin {"enter", "remove", "cool"},
           NEW p \in hand, kept' = Append(kept, p), gone' = gone,
           entered' = entered \cup {<<p.id, p.since, p.side>>},
           todo' = todo \/ Len(todo') = 0,
           db'.rows \in {db.rows, db.rows \cup {p}}, db'.trades = db.trades
    PROVE  Remembered'
<1>1. ~Known(p.id) /\ Known(p.id)' /\ \A id : Known(id) => Known(id)'
  <2>1. PICK new : new = <<p.id, p.since, p.side>>
    OBVIOUS
  <2>2. new[1] = p.id /\ entered' = entered \cup {new}
    BY <2>1
  <2> QED BY <2>2 DEF Remembered, Known
<1>2. /\ Len(kept') = Len(kept) + 1 /\ Len(kept) \in Nat
      /\ \A k \in 1..Len(kept) : kept'[k] = kept[k]
      /\ kept'[Len(kept) + 1] = p
  BY AppendProperties DEF ForwardTyped
<1>3. \A k \in 1..Len(kept') : k \in 1..Len(kept) \/ k = Len(kept) + 1
  BY <1>2
<1>4. Covered(p.id)' /\ \A id : Covered(id) => Covered(id)'
  BY <1>1 DEF Remembered, Covered, RowOf, TradeOf
<1>5. ASSUME NEW k \in 1..Len(kept')
      PROVE  /\ \E e \in entered' : e[1] = kept'[k].id
             /\ \/ \E r \in db'.rows : r.id = kept'[k].id
                \/ kept'[k].id \in gone'
                \/ ~(\E t \in db'.trades : t.id = kept'[k].id)
  <2>1. PICK id : id = kept'[k].id
    OBVIOUS
  <2>2. (Known(id) /\ Covered(id)) \/ id = p.id
    BY <1>2, <1>3, <2>1 DEF Remembered, AllCovered
  <2>3. Known(id)' /\ Covered(id)'
    BY <1>1, <1>4, <2>2
  <2> QED BY <2>1, <2>3 DEF Known, Covered, RowOf, TradeOf
<1>6. \A j, k \in 1..Len(kept') : kept'[j].id = kept'[k].id => j = k
  BY <1>1, <1>2, <1>3 DEF Remembered
<1>7. /\ \A r \in db'.rows : \E e \in entered' : e[1] = r.id
      /\ \A t \in db'.trades : \E e \in entered' : e[1] = t.id
      /\ \A q, r \in db'.rows : q.id = r.id => q = r
  BY <1>1 DEF Remembered, Known
<1>8. \A k \in 1..Len(todo') : \E e \in entered' : e[1] = todo'[k].id
  BY <1>1 DEF Remembered, Known
<1>9. AllCovered'
  BY <1>5 DEF AllCovered, Covered, RowOf, TradeOf
<1> QED BY <1>5, <1>6, <1>7, <1>8, <1>9 DEF Remembered, Known

LEMMA RememberedEnter == ForwardTyped /\ Remembered /\ Forward!Enter => Remembered'
<1> SUFFICES ASSUME ForwardTyped, Remembered, Forward!Enter PROVE Remembered'
  OBVIOUS
<1>1. PICK p \in hand : /\ kept' = Append(kept, p)
                        /\ db' = [db EXCEPT !.rows = @ \cup {p}]
                        /\ entered' = entered \cup {<<p.id, p.since, p.side>>}
  BY DEF Forward!Enter
<1>2. stand = "enter" /\ stand' = "mark" /\ UNCHANGED <<gone, todo>>
  BY DEF Forward!Enter
<1>3. db'.rows = db.rows \cup {p} /\ db'.trades = db.trades
  BY <1>1 DEF ForwardTyped
<1> QED BY <1>1, <1>2, <1>3, EntryRemembered

(* A failed statement leaves the tables alone and the list as it was, with *)
(* one position held longer or flagged, or with one more.                  *)
LEMMA RememberedFailure == ForwardTyped /\ Remembered /\ Forward!StatementFails => Remembered'
<1> SUFFICES ASSUME ForwardTyped, Remembered, Forward!StatementFails PROVE Remembered'
  OBVIOUS
<1>1. stand' = "idle" /\ db' = db /\ todo' = <<>>
  BY DEF Forward!StatementFails
<1>2. Len(todo') = 0
  BY <1>1, EmptySeq
<1> DEFINE q == [Head(todo) EXCEPT !.held = @ + 1]
<1>3. \/ UNCHANGED <<kept, gone, entered>>
      \/ /\ todo # <<>> /\ kept' = Forward!InMemory(q) /\ entered' = entered
         /\ gone' \in {gone, gone \cup {q.id}}
      \/ /\ stand = "enter" /\ gone' = gone
         /\ \E p \in hand : /\ kept' = Append(kept, p)
                            /\ entered' = entered \cup {<<p.id, p.since, p.side>>}
  BY DEF Forward!StatementFails
<1>4. todo # <<>> => q \in Positions
  BY NextToManage, HeldLonger
<1> HIDE DEF q
<1>5. CASE UNCHANGED <<kept, gone, entered>>
  BY <1>1, <1>2, <1>5, RememberedQuiet
<1>6. CASE /\ todo # <<>> /\ kept' = Forward!InMemory(q) /\ entered' = entered
           /\ gone' \in {gone, gone \cup {q.id}}
  <2>1. Len(kept') = Len(kept) /\ \A k \in 1..Len(kept) : kept'[k].id = kept[k].id
    BY <1>4, <1>6, WrittenBack
  <2>2. \A id : Covered(id) => Covered(id)'
    BY <1>1, <1>6 DEF Covered, RowOf, TradeOf
  <2>3. AllCovered'
    BY <2>1, <2>2, CoveredStays DEF Remembered
  <2> QED BY <1>1, <1>2, <1>6, <2>1, <2>3 DEF Remembered, Known
<1>7. ASSUME stand = "enter", gone' = gone, NEW p \in hand, kept' = Append(kept, p),
             entered' = entered \cup {<<p.id, p.since, p.side>>}
      PROVE  Remembered'
  <2>1. stand' \notin {"enter", "remove", "cool"} /\ db'.rows = db.rows /\ db'.trades = db.trades
    BY <1>1
  <2> QED BY <1>2, <1>7, <2>1, EntryRemembered
<1> QED BY <1>3, <1>5, <1>6, <1>7

(* A start takes the table into the memory, each row once. *)
LEMMA RememberedStart == ForwardTyped /\ Remembered /\ Forward!Start => Remembered'
<1> SUFFICES ASSUME ForwardTyped, Remembered, Forward!Start PROVE Remembered'
  OBVIOUS
<1>1. /\ kept' \in Forward!SetToSeqs(db.rows) /\ stand = "idle"
      /\ UNCHANGED <<gone, todo, stand, hand, db, entered>>
  BY DEF Forward!Start, ForwardTyped
<1>2. /\ \A k \in 1..Len(kept') : kept'[k] \in db.rows
      /\ \A j, k \in 1..Len(kept') : kept'[j] = kept'[k] => j = k
  BY <1>1, AnyOrder DEF ForwardTyped
<1>3. \A j, k \in 1..Len(kept') : kept'[j].id = kept'[k].id => j = k
  BY <1>2 DEF Remembered
<1> QED BY <1>1, <1>2, <1>3 DEF Remembered, Known, AllCovered, Covered, RowOf, TradeOf

LEMMA RememberedStep ==
    ForwardTyped /\ Remembered /\ [Forward!Next]_Forward!vars => Remembered'
<1> SUFFICES ASSUME ForwardTyped, Remembered, [Forward!Next]_Forward!vars PROVE Remembered'
  OBVIOUS
<1>1. CASE \/ Forward!CandleCloses \/ Forward!Poll \/ Forward!PollFails \/ Forward!Skip
           \/ Forward!Finished \/ UNCHANGED Forward!vars
  <2>1. UNCHANGED <<kept, gone, todo, stand, hand, db, entered>>
    BY <1>1 DEF Forward!CandleCloses, Forward!Poll, Forward!PollFails, Forward!Skip,
                Forward!Finished, Forward!vars, Forward!memory
  <2> QED BY <2>1, RememberedQuiet
<1>2. CASE Forward!Handle \/ Forward!NoEntry
  <2>1. /\ UNCHANGED <<kept, gone, db, entered>> /\ todo' \in {todo, kept}
        /\ stand' \notin {"enter", "remove", "cool"}
    BY <1>2 DEF Forward!Handle, Forward!NoEntry
  <2> QED BY <2>1, RememberedQuiet
<1>3. CASE Forward!Handled
  <2>1. /\ UNCHANGED <<kept, gone, todo, entered>>
        /\ stand' \notin {"enter", "remove", "cool"}
        /\ db' = [db EXCEPT !.last = Forward!candle]
    BY <1>3 DEF Forward!Handled
  <2>2. db'.rows = db.rows /\ db'.trades = db.trades
    BY <2>1 DEF ForwardTyped
  <2> QED BY <2>1, <2>2, RememberedQuiet
<1>4. CASE Forward!Crash
  <2>1. /\ kept' = <<>> /\ todo' = <<>> /\ stand' = "idle" /\ UNCHANGED <<db, entered>>
    BY <1>4 DEF Forward!Crash
  <2>2. Len(kept') = 0 /\ Len(todo') = 0
    BY <2>1, EmptySeq
  <2> QED BY <2>1, <2>2 DEF Remembered, Known, AllCovered
<1> QED BY <1>1, <1>2, <1>3, <1>4, RememberedKeep, RememberedSave, RememberedRemove,
           RememberedCooldown, RememberedSweep, RememberedMark, RememberedEnter,
           RememberedFailure, RememberedStart
        DEF Forward!Next
-----------------------------------------------------------------------------
(* The inductive invariant: entries leave keys, and rows that go leave     *)
(* trades.                                                                 *)
THEOREM KeysAndTraces == Forward!Spec => []ForwardInv
BY ForwardInit, ForwardStep, PTL DEF Forward!Spec

(* A candle is entered at most once on a side, however often it is handled *)
(* and whenever the process crashes (forward_test.py:697-702).             *)
THEOREM OneEntryPerKeyHolds == Forward!Spec => []Forward!OneEntryPerKey
<1>1. ForwardInv => Forward!OneEntryPerKey
  BY DEF ForwardInv
<1> QED BY <1>1, KeysAndTraces, PTL

LEMMA ForwardTypes == Forward!Spec => [](ForwardTyped /\ Remembered)
<1>1. Forward!Init => ForwardTyped /\ Remembered
  BY TypedInit, RememberedInit
<1>2. ForwardTyped /\ Remembered /\ [Forward!Next]_Forward!vars => (ForwardTyped /\ Remembered)'
  BY TypedStep, RememberedStep
<1> QED BY <1>1, <1>2, PTL DEF Forward!Spec

(* No trade is lost: what was entered is in a table whatever crash comes,  *)
(* but for one entry per failed statement, and the memory of a running     *)
(* test holds no position that the table does not, but those and the ones  *)
(* it has flagged as closed (forward_test.py:645, 646, 751, 489).          *)
THEOREM NothingLostHolds == Forward!Spec => []Forward!NothingLost
<1>1. ForwardInv /\ ForwardTyped /\ Remembered => Forward!NothingLost
  <2> SUFFICES ASSUME ForwardInv, ForwardTyped, Remembered PROVE Forward!NothingLost
    OBVIOUS
  <2>1. Cardinality(Forward!Lost) <= lapses
    BY DEF ForwardInv, Traced
  <2>2. Forward!Cardinality(Forward!Lost) <= lapses
    BY <2>1 DEF Cardinality, Forward!Cardinality
  <2>3. DOMAIN kept = 1..Len(kept)
    BY DEF ForwardTyped
  <2>4. ASSUME NEW k \in 1..Len(kept)
        PROVE  \/ \E r \in db.rows : r.id = kept[k].id
               \/ kept[k].id \in gone \cup {e[1] : e \in Forward!Lost}
    <3>1. Known(kept[k].id) /\ Covered(kept[k].id)
      BY DEF Remembered, AllCovered
    <3>2. PICK e \in entered : e[1] = kept[k].id
      BY <3>1 DEF Known
    <3>3. RowOf(e[1]) \/ e[1] \in gone \/ e \in Forward!Lost
      BY <3>1, <3>2 DEF Covered, RowOf, TradeOf, Forward!Lost
    <3> QED BY <3>2, <3>3 DEF RowOf
  <2> QED BY <2>2, <2>3, <2>4 DEF Forward!NothingLost
<1> QED BY <1>1, KeysAndTraces, ForwardTypes, PTL

(* Every variable of the first forward test has its type. *)
THEOREM ForwardTypeOK == Forward!Spec => []Forward!TypeOK
<1>1. ForwardTyped => Forward!TypeOK
  <2> SUFFICES ASSUME ForwardTyped PROVE Forward!TypeOK
    OBVIOUS
  <2>1. Cardinality(hand) <= 1
    <3>1. CASE hand = {}
      BY <3>1, FS_EmptySet
    <3>2. CASE hand # {}
      <4>1. PICK p \in hand : TRUE
        BY <3>2
      <4>2. \A q \in hand : q = p
        BY DEF ForwardTyped
      <4>3. hand = {p}
        BY <4>2
      <4>4. Cardinality({p}) = 1
        BY FS_Singleton, Zenon
      <4> QED BY <4>3, <4>4
    <3> QED BY <3>1, <3>2
  <2>2. Forward!Cardinality(hand) <= 1
    BY <2>1 DEF Cardinality, Forward!Cardinality
  <2>3. Forward!Range(batch) \subseteq 1..MaxShut
    <3>1. batch \in Seq(1..MaxShut)
      BY DEF ForwardTyped
    <3>2. \A k \in DOMAIN batch : batch[k] \in 1..MaxShut
      <4>1. ASSUME NEW S, NEW s \in Seq(S) PROVE \A k \in DOMAIN s : s[k] \in S
        OBVIOUS
      <4> QED BY <3>1, <4>1
    <3> QED BY <3>2 DEF Forward!Range
  <2> QED BY <2>2, <2>3 DEF ForwardTyped, Forward!TypeOK
<1> QED BY <1>1, ForwardTypes, PTL
-----------------------------------------------------------------------------
(* What the runner knows of a trade, and what the table of the shadows     *)
(* holds.                                                                  *)
Knowledge == [pc : {"new", "entering", "open", "closing", "closed"}, bars : 0..MaxBars,
              after : {NoTrade} \cup 0..(PostBars - 1), context : BOOLEAN]
Shadows == [trade : Deals, rule : Rules \cup {NoTrade}, bar : 1..MaxBars,
            exit : {NoTrade} \cup 1..MaxBars]

(* A trade that may still be cut is held for fewer bars than a trade can   *)
(* be, and one that closes has been held.                                  *)
HeldSoFar(k) ==
    /\ k.pc \in {"new", "entering", "open"} => k.bars < MaxBars
    /\ k.pc \in {"closing", "closed"} => k.bars >= 1

TeleTyped ==
    /\ deal \in [Deals -> Knowledge]
    /\ \A t \in Deals : HeldSoFar(deal[t])
    /\ turn \in Deals \cup {NoTrade}
    /\ awake \in BOOLEAN
    /\ lane \in Seq(Tele!Items) /\ Len(lane) <= Capacity
    /\ post \in {"get", "write", "spool"}
    /\ IF post = "get" THEN item = NoTrade ELSE item \in Tele!Items
    /\ overflow \subseteq Tele!Items /\ owed \subseteq Tele!Items
    /\ shadows \subseteq Shadows /\ settled \subseteq Deals

(* What a queued item may say in view of what is known of the trades (d)   *)
(* and of those that are settled (S): the exit it settles is the one, and  *)
(* its trigger is of a bar the trade was held, before it was settled.      *)
Fine(i, d, S) ==
    /\ i.action = "finalize" => d[i.trade].pc = "closed" /\ i.bar = d[i.trade].bars
    /\ i.action = "shadow" => i.bar \in 1..d[i.trade].bars /\ i.trade \notin S

(* No trigger of a trade is queued behind its settlement. *)
Before(i, j) == ~(i.action = "finalize" /\ j.action = "shadow" /\ i.trade = j.trade)

Pipeline ==
    /\ \A k \in 1..Len(lane) : Fine(lane[k], deal, settled)
    /\ \A j, k \in 1..Len(lane) : j < k => Before(lane[j], lane[k])
    /\ post # "get" => /\ Fine(item, deal, settled)
                       /\ \A k \in 1..Len(lane) : Before(item, lane[k])

(* The table agrees with what is known, and who is settled has ended. *)
Agreed ==
    /\ \A t \in settled : deal[t].pc = "closed"
    /\ \A s \in shadows :
          /\ s.bar \in 1..deal[s.trade].bars
          /\ s.exit # NoTrade => deal[s.trade].pc = "closed" /\ s.exit = deal[s.trade].bars
          /\ s.trade \in settled => s.exit # NoTrade

(* What is owed is on its way. *)
OnItsWay ==
    \A i \in owed : \/ i \in overflow
                    \/ \E k \in 1..Len(lane) : lane[k] = i
                    \/ post # "get" /\ i = item

TeleInv == TeleTyped /\ Pipeline /\ Agreed /\ OnItsWay

(* A step of the runner adds to what is known, and what has ended stays.   *)
Grown ==
    \A u \in Deals : /\ deal'[u].bars >= deal[u].bars
                     /\ deal[u].pc = "closed" => deal'[u].pc = "closed" /\ deal'[u].bars = deal[u].bars
-----------------------------------------------------------------------------
(* The first elements of one sequence behind another. *)
LEMMA AppendPart ==
    ASSUME NEW S, NEW s \in Seq(S), NEW t \in Seq(S), NEW n \in 0..Len(t),
           NEW u, u = s \o SubSeq(t, 1, n)
    PROVE  /\ u \in Seq(S) /\ Len(u) = Len(s) + n
           /\ \A k \in 1..Len(s) : u[k] = s[k]
           /\ \A k \in 1..n : u[Len(s) + k] = t[k]
           /\ \A k \in 1..Len(u) : k > Len(s) => k - Len(s) \in 1..n /\ u[k] = t[k - Len(s)]
<1>0. Len(s) \in Nat /\ Len(t) \in Nat /\ n \in Nat
  OBVIOUS
<1>1. PICK part : part = SubSeq(t, 1, n)
  OBVIOUS
<1>2. \A k \in 1..n : t[k] \in S
  OBVIOUS
<1>3. part \in Seq(S) /\ Len(part) = n /\ \A k \in 1..n : part[k] = t[k]
  <2>1. /\ part \in Seq(S) /\ Len(part) = IF 1 <= n THEN n - 1 + 1 ELSE 0
        /\ \A k \in 1..(n - 1 + 1) : part[k] = t[1 + k - 1]
    BY <1>0, <1>1, <1>2, SubSeqProperties
  <2> QED BY <1>0, <2>1
<1>4. /\ u \in Seq(S) /\ Len(u) = Len(s) + Len(part)
      /\ \A k \in 1..(Len(s) + Len(part)) :
            u[k] = IF k <= Len(s) THEN s[k] ELSE part[k - Len(s)]
  BY <1>1, <1>3, ConcatProperties
<1> QED BY <1>0, <1>3, <1>4

(* As much of a sequence as there is room for. *)
LEMMA Fitting ==
    ASSUME NEW cap \in Nat, NEW a \in Nat, a <= cap, NEW n \in Nat,
           NEW m, m = IF cap - a < n THEN cap - a ELSE n
    PROVE  /\ m \in 0..n /\ a + m <= cap
           /\ \A j \in 1..n : ~(j > cap - a) => j \in 1..m
OBVIOUS

(* What is logged is queued behind what was, or overflows. *)
LEMMA LogFacts ==
    ASSUME TeleTyped, NEW items \in Seq(Tele!Items), Tele!Log(items)
    PROVE  /\ UNCHANGED <<item, post>>
           /\ lane' \in Seq(Tele!Items) /\ Len(lane') <= Capacity
           /\ Len(lane) <= Len(lane')
           /\ \A k \in 1..Len(lane) : lane'[k] = lane[k]
           /\ \A k \in 1..Len(lane') :
                 k > Len(lane) => /\ k - Len(lane) \in 1..Len(items)
                                  /\ lane'[k] = items[k - Len(lane)]
           /\ overflow \subseteq overflow' /\ overflow' \subseteq Tele!Items
           /\ owed' \subseteq Tele!Items
           /\ \A i \in owed' : \/ i \in owed \/ i \in overflow'
                               \/ \E k \in 1..Len(lane') : lane'[k] = i
<1>1. PICK m : m = IF Capacity - Len(lane) < Len(items) THEN Capacity - Len(lane) ELSE Len(items)
  OBVIOUS
<1>2. /\ lane' = lane \o SubSeq(items, 1, m)
      /\ overflow' = overflow \cup {items[k] : k \in {j \in DOMAIN items : j > Capacity - Len(lane)}}
      /\ owed' = owed \cup Tele!Range(items)
      /\ UNCHANGED <<item, post>>
  BY <1>1 DEF Tele!Log
<1>3. lane \in Seq(Tele!Items) /\ Len(lane) <= Capacity
  BY DEF TeleTyped
<1>4. Len(lane) \in Nat /\ Len(items) \in Nat /\ DOMAIN items = 1..Len(items)
  BY <1>3, LenProperties
<1>5. /\ m \in 0..Len(items) /\ Len(lane) + m <= Capacity
      /\ \A j \in 1..Len(items) : ~(j > Capacity - Len(lane)) => j \in 1..m
  <2>1. Capacity \in Nat
    BY ForwardAssumption
  <2>2. PICK cap, a, n : cap = Capacity /\ a = Len(lane) /\ n = Len(items)
    OBVIOUS
  <2>3. /\ cap \in Nat /\ a \in Nat /\ a <= cap /\ n \in Nat
        /\ m = IF cap - a < n THEN cap - a ELSE n
    BY <1>1, <1>3, <1>4, <2>1, <2>2, Zenon
  <2>4. /\ m \in 0..n /\ a + m <= cap
        /\ \A j \in 1..n : ~(j > cap - a) => j \in 1..m
    BY <2>3, Fitting
  <2> QED BY <2>2, <2>4, Zenon
<1>6. /\ lane' \in Seq(Tele!Items) /\ Len(lane') = Len(lane) + m
      /\ \A k \in 1..Len(lane) : lane'[k] = lane[k]
      /\ \A k \in 1..m : lane'[Len(lane) + k] = items[k]
      /\ \A k \in 1..Len(lane') :
            k > Len(lane) => k - Len(lane) \in 1..m /\ lane'[k] = items[k - Len(lane)]
  BY <1>2, <1>3, <1>5, AppendPart
<1>7. PICK a, n, u : a = Len(lane) /\ n = Len(items) /\ u = Len(lane')
  OBVIOUS
<1>8. /\ Len(lane') <= Capacity /\ Len(lane) <= Len(lane') /\ 1..m \subseteq 1..Len(items)
      /\ \A j \in 1..m : Len(lane) + j \in 1..Len(lane')
  <2>1. /\ a \in Nat /\ n \in Nat /\ m \in 0..n /\ u = a + m /\ a + m <= Capacity
    BY <1>4, <1>5, <1>6, <1>7
  <2>2. u <= Capacity /\ a <= u /\ 1..m \subseteq 1..n /\ \A j \in 1..m : a + j \in 1..u
    BY <2>1
  <2> QED BY <1>7, <2>2
<1>9. \A k \in 1..Len(lane') :
        k > Len(lane) => k - Len(lane) \in 1..Len(items) /\ lane'[k] = items[k - Len(lane)]
  BY <1>6, <1>8, Zenon
<1>10. overflow \subseteq overflow' /\ overflow' \subseteq Tele!Items /\ owed' \subseteq Tele!Items
  <2>1. \A k \in DOMAIN items : items[k] \in Tele!Items
    BY <1>4, ElementOfSeq
  <2> QED BY <1>2, <2>1 DEF TeleTyped, Tele!Range
<1>11. ASSUME NEW i \in owed', i \notin owed, i \notin overflow'
       PROVE  \E k \in 1..Len(lane') : lane'[k] = i
  <2>1. PICK j \in 1..Len(items) : items[j] = i
    BY <1>2, <1>4, <1>11 DEF Tele!Range
  <2>2. ~(j > Capacity - Len(lane))
    BY <1>2, <1>4, <1>11, <2>1
  <2>3. j \in 1..m
    BY <1>5, <2>2, Zenon
  <2>4. Len(lane) + j \in 1..Len(lane') /\ lane'[Len(lane) + j] = items[j]
    BY <1>6, <1>8, <2>3, Zenon
  <2> QED BY <2>1, <2>4, Zenon
<1> QED BY <1>2, <1>6, <1>8, <1>9, <1>10, <1>11, Zenon

(* A finite set is written as a sequence of its elements. *)
LEMMA SetToSeqIsSeq ==
    ASSUME NEW S, IsFiniteSet(S) PROVE Tele!SetToSeq(S) \in Seq(S)
<1>1. Cardinality(S) \in Nat /\ ExistsBijection(1..Cardinality(S), S)
  BY FS_CardinalityType
<1>2. PICK f \in [1..Cardinality(S) -> S] : Tele!IsInjective(f)
  BY <1>1 DEF ExistsBijection, Bijection, Injection, IsInjective, Tele!IsInjective
<1>3. Cardinality(S) = Tele!Cardinality(S)
  BY DEF Cardinality, Tele!Cardinality
<1>4. Tele!SetToSeq(S) \in [1..Cardinality(S) -> S]
  BY <1>2, <1>3 DEF Tele!SetToSeq
<1> QED BY <1>1, <1>4

LEMMA FineGrows ==
    ASSUME TeleTyped, deal' \in [Deals -> Knowledge], Grown,
           NEW i \in Tele!Items, Fine(i, deal, settled)
    PROVE  Fine(i, deal', settled)
<1>1. i.trade \in Deals
  BY DEF Tele!Items
<1>2. /\ deal[i.trade].bars \in Nat /\ deal'[i.trade].bars \in Nat
      /\ deal'[i.trade].bars >= deal[i.trade].bars
      /\ deal[i.trade].pc = "closed" => deal'[i.trade].pc = "closed" /\ deal'[i.trade].bars = deal[i.trade].bars
  BY <1>1 DEF TeleTyped, Knowledge, Grown
<1> QED BY <1>2 DEF Fine

LEMMA AgreedGrows ==
    ASSUME TeleTyped, Agreed, deal' \in [Deals -> Knowledge], Grown,
           UNCHANGED <<shadows, settled>>
    PROVE  Agreed'
<1>1. \A t \in settled : deal'[t].pc = "closed"
  BY DEF TeleTyped, Agreed, Grown
<1>2. ASSUME NEW s \in shadows
      PROVE  /\ s.bar \in 1..deal'[s.trade].bars
             /\ s.exit # NoTrade => deal'[s.trade].pc = "closed" /\ s.exit = deal'[s.trade].bars
             /\ s.trade \in settled => s.exit # NoTrade
  <2>1. s.trade \in Deals
    BY DEF TeleTyped, Shadows
  <2>2. /\ deal[s.trade].bars \in Nat /\ deal'[s.trade].bars \in Nat
        /\ deal'[s.trade].bars >= deal[s.trade].bars
        /\ deal[s.trade].pc = "closed" => deal'[s.trade].pc = "closed" /\ deal'[s.trade].bars = deal[s.trade].bars
    BY <2>1 DEF TeleTyped, Knowledge, Grown
  <2> QED BY <2>2 DEF Agreed
<1> QED BY <1>1, <1>2 DEF Agreed

(* Logging keeps the order: no trigger of a trade that has ended is        *)
(* logged, and none behind its settlement.                                 *)
LEMMA PipelineGrows ==
    ASSUME TeleTyped, Pipeline, OnItsWay, deal' \in [Deals -> Knowledge], Grown,
           UNCHANGED settled, NEW items \in Seq(Tele!Items), Tele!Log(items),
           \A k \in 1..Len(items) :
              /\ Fine(items[k], deal', settled)
              /\ items[k].action = "shadow" => deal[items[k].trade].pc # "closed",
           \A j, k \in 1..Len(items) : j < k => Before(items[j], items[k])
    PROVE  Pipeline' /\ OnItsWay'
<1>1. /\ lane \in Seq(Tele!Items) /\ Len(lane) \in Nat /\ Len(items) \in Nat
      /\ \A k \in 1..Len(lane) : lane[k] \in Tele!Items
  BY LenProperties, ElementOfSeq DEF TeleTyped
<1>2. /\ UNCHANGED <<item, post>>
      /\ lane' \in Seq(Tele!Items) /\ Len(lane) <= Len(lane') /\ Len(lane') \in Nat
      /\ \A k \in 1..Len(lane) : lane'[k] = lane[k]
      /\ \A k \in 1..Len(lane') : k > Len(lane) => /\ k - Len(lane) \in 1..Len(items)
                                                   /\ lane'[k] = items[k - Len(lane)]
      /\ overflow \subseteq overflow'
      /\ \A i \in owed' : \/ i \in owed \/ i \in overflow'
                          \/ \E k \in 1..Len(lane') : lane'[k] = i
  BY LogFacts, LenProperties
<1>3. PICK a, n, u : a = Len(lane) /\ n = Len(items) /\ u = Len(lane')
  OBVIOUS
<1>4. /\ a \in Nat /\ n \in Nat /\ u \in Nat /\ a <= u
      /\ \A k \in 1..a : lane[k] \in Tele!Items /\ lane'[k] = lane[k] /\ k \in 1..u
      /\ \A k \in 1..u : k > a => k - a \in 1..n /\ lane'[k] = items[k - a]
      /\ \A k \in 1..u : k <= a => k \in 1..a
  <2>1. /\ a \in Nat /\ n \in Nat /\ u \in Nat /\ a <= u
        /\ \A k \in 1..a : lane[k] \in Tele!Items /\ lane'[k] = lane[k]
        /\ \A k \in 1..u : k > a => k - a \in 1..n /\ lane'[k] = items[k - a]
    BY <1>1, <1>2, <1>3, Zenon
  <2>2. (\A k \in 1..a : k \in 1..u) /\ (\A k \in 1..u : k <= a => k \in 1..a)
    BY <2>1
  <2> QED BY <2>1, <2>2, Zenon
<1>5. /\ \A k \in 1..a : Fine(lane[k], deal, settled)
      /\ \A j, k \in 1..a : j < k => Before(lane[j], lane[k])
      /\ post # "get" => /\ Fine(item, deal, settled)
                         /\ \A k \in 1..a : Before(item, lane[k])
      /\ \A k \in 1..n : /\ Fine(items[k], deal', settled)
                         /\ items[k].action = "shadow" => deal[items[k].trade].pc # "closed"
      /\ \A j, k \in 1..n : j < k => Before(items[j], items[k])
  BY <1>3, Zenon DEF Pipeline
<1>6. \A k \in 1..u : Fine(lane'[k], deal', settled)
  <2> SUFFICES ASSUME NEW k \in 1..u PROVE Fine(lane'[k], deal', settled)
    OBVIOUS
  <2>1. CASE k <= a
    BY <1>4, <1>5, <2>1, FineGrows
  <2>2. CASE k > a
    BY <1>4, <1>5, <2>2, Zenon
  <2> QED BY <1>4, <2>1, <2>2
<1>7. ASSUME NEW i, Fine(i, deal, settled), NEW k \in 1..n PROVE Before(i, items[k])
  BY <1>5, <1>7 DEF Fine, Before
<1>8. \A j, k \in 1..u : j < k => Before(lane'[j], lane'[k])
  <2> SUFFICES ASSUME NEW j \in 1..u, NEW k \in 1..u, j < k PROVE Before(lane'[j], lane'[k])
    OBVIOUS
  <2>1. CASE k <= a
    <3>1. j <= a
      BY <1>4, <2>1
    <3>2. j \in 1..a /\ k \in 1..a
      BY <1>4, <2>1, <3>1, Zenon
    <3> QED BY <1>4, <1>5, <3>2, Zenon
  <2>2. CASE k > a /\ j <= a
    BY <1>4, <1>5, <1>7, <2>2, Zenon
  <2>3. CASE j > a
    <3>1. k > a /\ j - a < k - a
      BY <1>4, <2>3
    <3> QED BY <1>4, <1>5, <2>3, <3>1, Zenon
  <2> QED BY <1>4, <2>1, <2>2, <2>3
<1>9. post' # "get" => /\ Fine(item', deal', settled)
                       /\ \A k \in 1..u : Before(item', lane'[k])
  <2> SUFFICES ASSUME post # "get"
               PROVE  Fine(item, deal', settled) /\ \A k \in 1..u : Before(item, lane'[k])
    BY <1>2
  <2>1. item \in Tele!Items
    BY DEF TeleTyped
  <2>2. Fine(item, deal', settled)
    BY <1>5, <2>1, FineGrows
  <2>3. ASSUME NEW k \in 1..u PROVE Before(item, lane'[k])
    <3>1. CASE k <= a
      BY <1>4, <1>5, <3>1, Zenon
    <3>2. CASE k > a
      BY <1>4, <1>5, <1>7, <3>2, Zenon
    <3> QED BY <1>4, <3>1, <3>2
  <2> QED BY <2>2, <2>3
<1>10. Pipeline'
  BY <1>3, <1>6, <1>8, <1>9, Zenon DEF Pipeline
<1>11. OnItsWay'
  <2> SUFFICES ASSUME NEW i \in owed
               PROVE  \/ i \in overflow' \/ \E k \in 1..u : lane'[k] = i
                      \/ post # "get" /\ i = item
    BY <1>2, <1>3, Zenon DEF OnItsWay
  <2>1. CASE i \in overflow
    BY <1>2, <2>1
  <2>2. ASSUME NEW k \in 1..a, lane[k] = i PROVE \E l \in 1..u : lane'[l] = i
    BY <1>4, <2>2, Zenon
  <2> QED BY <1>3, <2>1, <2>2, Zenon DEF OnItsWay
<1> QED BY <1>10, <1>11
-----------------------------------------------------------------------------
(* The items of a candle: of those that tell of a bar only the trade at    *)
(* hand has, on the bar that comes.                                        *)
CandleItems(t) ==
    {i \in Tele!Items : /\ i.action # "finalize"
                        /\ i.action = "shadow" => i.trade = t /\ i.bar = deal[t].bars + 1}

LEMMA FollowTyped ==
    ASSUME TeleTyped, NEW t PROVE Tele!FollowItems \in Seq(CandleItems(t))
<1> DEFINE T == Tele!Followed
           f == [u \in T |-> Tele!Item("post", u, deal[u].after + 1, NoTrade)]
           S == {Tele!Item("post", u, deal[u].after + 1, NoTrade) : u \in T}
<1>1. T \subseteq Deals /\ IsFiniteSet(T)
  BY ForwardAssumption, FS_Subset DEF Tele!Followed
<1>2. S = {f[u] : u \in T}
  OBVIOUS
<1>3. IsFiniteSet({f[u] : u \in T})
  <2> HIDE DEF T
  <2>1. DOMAIN f = T
    OBVIOUS
  <2> HIDE DEF f
  <2> QED BY <1>1, <2>1, FiniteRange
<1>4. ASSUME NEW u \in T PROVE Tele!Item("post", u, deal[u].after + 1, NoTrade) \in CandleItems(t)
  <2>1. deal[u].after \in 0..(PostBars - 1) /\ u \in Deals
    BY <1>1 DEF TeleTyped, Knowledge, Tele!Followed
  <2>2. deal[u].after + 1 \in 0..(MaxBars + PostBars)
    BY <2>1, ForwardAssumption
  <2> QED BY <2>1, <2>2 DEF CandleItems, Tele!Items, Tele!Item
<1>5. Tele!SetToSeq(S) \in Seq(S)
  BY <1>2, <1>3, SetToSeqIsSeq
<1>6. Tele!FollowItems = Tele!SetToSeq(S)
  BY DEF Tele!FollowItems
<1>7. S \subseteq CandleItems(t)
  BY <1>4
<1> HIDE DEF S
<1> QED BY <1>5, <1>6, <1>7

LEMMA BarTyped ==
    ASSUME TeleTyped, NEW t \in Tele!Open, NEW rules \in SUBSET Tele!MayFire(t, deal[t].bars + 1)
    PROVE  Tele!BarItems(t, rules) \in Seq(CandleItems(t))
<1> DEFINE bar == deal[t].bars + 1
           f == [r \in rules |-> Tele!Item("shadow", t, bar, r)]
           S == {Tele!Item("shadow", t, bar, r) : r \in rules}
           path == Tele!Item("path", t, bar, NoTrade)
<1>1. t \in Deals /\ deal[t].bars \in 0..MaxBars /\ deal[t].pc = "open"
  BY DEF TeleTyped, Knowledge, Tele!Open
<1>2. bar \in 0..(MaxBars + PostBars)
  <2>1. HeldSoFar(deal[t])
    BY <1>1 DEF TeleTyped
  <2> QED BY <1>1, <2>1, ForwardAssumption DEF HeldSoFar
<1>3. rules \subseteq Rules /\ IsFiniteSet(rules)
  BY ForwardAssumption, FS_Subset DEF Tele!MayFire
<1>4. path \in CandleItems(t)
  <2> HIDE DEF bar
  <2> QED BY <1>1, <1>2 DEF CandleItems, Tele!Items, Tele!Item
<1>5. S \subseteq CandleItems(t)
  <2>1. \A r \in rules : Tele!Item("shadow", t, bar, r) \in Tele!Items
    <3> HIDE DEF bar
    <3> QED BY <1>1, <1>2, <1>3 DEF Tele!Items, Tele!Item
  <2> QED BY <2>1 DEF CandleItems, Tele!Item
<1>6. IsFiniteSet({f[r] : r \in rules}) /\ S = {f[r] : r \in rules}
  <2>1. DOMAIN f = rules /\ S = {f[r] : r \in rules}
    OBVIOUS
  <2> HIDE DEF f, S
  <2> QED BY <1>3, <2>1, FiniteRange
<1>7. Tele!SetToSeq(S) \in Seq(S)
  <2> HIDE DEF S, f
  <2> QED BY <1>6, SetToSeqIsSeq
<1>8. Tele!BarItems(t, rules) = <<path>> \o Tele!SetToSeq(S)
  BY DEF Tele!BarItems
<1> HIDE DEF S, path
<1>9. <<path>> \in Seq(CandleItems(t)) /\ Tele!SetToSeq(S) \in Seq(CandleItems(t))
  BY <1>4, <1>5, <1>7
<1> QED BY <1>8, <1>9, ConcatProperties

(* Following a trade that has ended changes neither its state nor its bars. *)
LEMMA FollowKept ==
    ASSUME TeleTyped, NEW u \in Tele!Followed
    PROVE  /\ u \in Deals /\ Tele!Follow(u) \in Knowledge /\ HeldSoFar(Tele!Follow(u))
           /\ Tele!Follow(u).pc = deal[u].pc /\ Tele!Follow(u).bars = deal[u].bars
<1>1. u \in Deals /\ deal[u] \in Knowledge /\ deal[u].after # NoTrade /\ HeldSoFar(deal[u])
  BY DEF TeleTyped, Tele!Followed
<1>2. PICK after : after = IF deal[u].after + 1 >= PostBars THEN NoTrade ELSE deal[u].after + 1
  OBVIOUS
<1>3. after \in {NoTrade} \cup 0..(PostBars - 1)
  <2>1. deal[u].after \in 0..(PostBars - 1)
    BY <1>1 DEF Knowledge
  <2> QED BY <1>2, <2>1, ForwardAssumption
<1>4. Tele!Follow(u) = [deal[u] EXCEPT !.after = after]
  BY <1>2 DEF Tele!Follow
<1>5. \A k \in Knowledge : /\ [k EXCEPT !.after = after] \in Knowledge
                           /\ [k EXCEPT !.after = after].pc = k.pc
                           /\ [k EXCEPT !.after = after].bars = k.bars
  BY <1>3 DEF Knowledge
<1> QED BY <1>1, <1>4, <1>5 DEF HeldSoFar

LEMMA CandleLogged ==
    ASSUME TeleInv, NEW t, NEW items \in Seq(CandleItems(t)), Tele!Log(items),
           deal' \in [Deals -> Knowledge], \A u \in Deals : HeldSoFar(deal'[u]), Grown,
           t \in Deals => deal[t].pc # "closed" /\ deal'[t].bars = deal[t].bars + 1,
           turn' \in Deals \cup {NoTrade}, UNCHANGED <<awake, shadows, settled>>
    PROVE  TeleInv'
<1>0. TeleTyped /\ Pipeline /\ OnItsWay /\ Agreed
  BY DEF TeleInv
<1>1. /\ items \in Seq(Tele!Items)
      /\ \A k \in 1..Len(items) : items[k] \in CandleItems(t)
  BY ElementOfSeq DEF CandleItems
<1>2. ASSUME NEW i \in CandleItems(t)
      PROVE  /\ Fine(i, deal', settled)
             /\ i.action = "shadow" => deal[i.trade].pc # "closed"
  <2>1. CASE i.action # "shadow"
    BY <2>1 DEF CandleItems, Fine
  <2>2. CASE i.action = "shadow"
    <3>1. i.trade = t /\ i.bar = deal[t].bars + 1 /\ t \in Deals
      BY <2>2 DEF CandleItems, Tele!Items
    <3>2. deal[t].bars \in Nat /\ t \notin settled
      BY <1>0, <3>1 DEF TeleTyped, Knowledge, Agreed
    <3>3. i.bar \in 1..deal'[t].bars
      BY <3>1, <3>2
    <3> QED BY <2>2, <3>1, <3>2, <3>3 DEF Fine
  <2> QED BY <2>1, <2>2
<1>3. \A j, k \in 1..Len(items) : Before(items[j], items[k])
  BY <1>1 DEF CandleItems, Before
<1>4. Pipeline' /\ OnItsWay'
  <2>1. \A k \in 1..Len(items) :
          /\ Fine(items[k], deal', settled)
          /\ items[k].action = "shadow" => deal[items[k].trade].pc # "closed"
    BY <1>1, <1>2
  <2> QED BY <1>0, <1>1, <1>3, <2>1, PipelineGrows
<1>5. Agreed'
  BY <1>0, AgreedGrows
<1>6. TeleTyped'
  <2>1. /\ UNCHANGED <<item, post>>
        /\ lane' \in Seq(Tele!Items) /\ Len(lane') <= Capacity
        /\ overflow' \subseteq Tele!Items /\ owed' \subseteq Tele!Items
    BY <1>0, <1>1, LogFacts
  <2> QED BY <1>0, <2>1 DEF TeleTyped
<1> QED BY <1>4, <1>5, <1>6 DEF TeleInv

LEMMA CandleInv == TeleInv /\ Tele!Candle => TeleInv'
<1> SUFFICES ASSUME TeleInv, Tele!Candle PROVE TeleInv'
  OBVIOUS
<1>0. TeleTyped /\ deal \in [Deals -> Knowledge] /\ \A u \in Deals : HeldSoFar(deal[u])
  BY DEF TeleInv, TeleTyped
<1>1. turn = NoTrade /\ UNCHANGED <<awake, shadows, settled>>
  <2>1. turn = NoTrade
    BY Zenon DEF Tele!Candle
  <2>2. UNCHANGED <<awake, Tele!store, refusals, halts>>
    BY Zenon DEF Tele!Candle
  <2> QED BY <2>1, <2>2 DEF Tele!store
<1>2. CASE Tele!Open = {}
  <2>1. /\ Tele!Log(Tele!FollowItems) /\ turn' = turn
        /\ deal' = [u \in Deals |-> IF u \in Tele!Followed THEN Tele!Follow(u) ELSE deal[u]]
    BY <1>2 DEF Tele!Candle
  <2>2. /\ deal' \in [Deals -> Knowledge]
        /\ \A u \in Deals : /\ HeldSoFar(deal'[u])
                             /\ deal'[u].pc = deal[u].pc /\ deal'[u].bars = deal[u].bars
    BY <1>0, <2>1, FollowKept
  <2>3. Grown
    BY <1>0, <2>2 DEF Grown, Knowledge
  <2>4. Tele!FollowItems \in Seq(CandleItems(NoTrade))
    BY <1>0, FollowTyped
  <2>5. NoTrade \notin Deals
    BY ForwardAssumption
  <2> QED BY <1>1, <2>1, <2>2, <2>3, <2>4, <2>5, CandleLogged
<1>3. CASE Tele!Open # {}
  <2>1. PICK t \in Tele!Open :
          /\ \/ /\ halts > 0 /\ deal[t].bars + 1 < MaxBars
                /\ Tele!Log(Tele!FollowItems)
                /\ UNCHANGED turn
             \/ \E rules \in SUBSET Tele!MayFire(t, deal[t].bars + 1), closes \in BOOLEAN :
                   /\ deal[t].bars + 1 = MaxBars => closes
                   /\ Tele!Log(Tele!FollowItems \o Tele!BarItems(t, rules))
                   /\ turn' = IF closes THEN t ELSE NoTrade
          /\ deal' = [u \in Deals |->
                IF u = t THEN [deal[u] EXCEPT !.bars = @ + 1,
                                              !.pc = IF turn' = t THEN "closing" ELSE @]
                ELSE IF u \in Tele!Followed THEN Tele!Follow(u) ELSE deal[u]]
    BY <1>3, Zenon DEF Tele!Candle
  <2>2. t \in Deals /\ deal[t].pc = "open" /\ t # NoTrade /\ deal[t] \in Knowledge
    BY <1>0, ForwardAssumption DEF Tele!Open
  <2>3. deal[t].bars \in Nat /\ deal[t].bars + 1 <= MaxBars
    BY <1>0, <2>2, ForwardAssumption DEF Knowledge, HeldSoFar
  <2>4. /\ turn' \in Deals \cup {NoTrade}
        /\ turn' = t \/ deal[t].bars + 1 < MaxBars
        /\ \E items \in Seq(CandleItems(t)) : Tele!Log(items)
    <3>1. Tele!FollowItems \in Seq(CandleItems(t))
      BY <1>0, FollowTyped
    <3>2. CASE deal[t].bars + 1 < MaxBars /\ Tele!Log(Tele!FollowItems) /\ UNCHANGED turn
      BY <1>1, <3>1, <3>2
    <3>3. ASSUME NEW rules \in SUBSET Tele!MayFire(t, deal[t].bars + 1), NEW closes \in BOOLEAN,
                 deal[t].bars + 1 = MaxBars => closes,
                 Tele!Log(Tele!FollowItems \o Tele!BarItems(t, rules)),
                 turn' = IF closes THEN t ELSE NoTrade
          PROVE  /\ turn' \in Deals \cup {NoTrade}
                 /\ turn' = t \/ deal[t].bars + 1 < MaxBars
                 /\ \E items \in Seq(CandleItems(t)) : Tele!Log(items)
      <4>1. Tele!BarItems(t, rules) \in Seq(CandleItems(t))
        BY <1>0, BarTyped
      <4>2. Tele!FollowItems \o Tele!BarItems(t, rules) \in Seq(CandleItems(t))
        BY <3>1, <4>1, ConcatProperties
      <4>3. closes \/ deal[t].bars + 1 < MaxBars
        BY <2>3, <3>3, ForwardAssumption
      <4> QED BY <2>2, <3>3, <4>2, <4>3, Zenon
    <3> QED BY <2>1, <3>2, <3>3, Zenon
  <2>5. PICK items \in Seq(CandleItems(t)) : Tele!Log(items)
    BY <2>4
  <2>6. PICK pc : pc = IF turn' = t THEN "closing" ELSE deal[t].pc
    OBVIOUS
  <2>7. /\ deal' \in [Deals -> Knowledge] /\ \A u \in Deals : HeldSoFar(deal'[u])
        /\ \A u \in Deals \ {t} : deal'[u].pc = deal[u].pc /\ deal'[u].bars = deal[u].bars
        /\ deal'[t].bars = deal[t].bars + 1
    <3>1. pc \in {"open", "closing"} /\ (pc = "closing" \/ deal[t].bars + 1 < MaxBars)
      BY <2>2, <2>4, <2>6
    <3>3. deal[t].bars + 1 \in 0..MaxBars
      BY <2>3, ForwardAssumption
    <3>4. /\ deal'[t] \in Knowledge /\ deal'[t].bars = deal[t].bars + 1 /\ deal'[t].pc = pc
      <4>1. deal'[t] = [deal[t] EXCEPT !.bars = @ + 1, !.pc = IF turn' = t THEN "closing" ELSE @]
        BY <2>1, <2>2, Zenon
      <4>2. PICK k, n, h : k = deal[t] /\ n = deal[t].bars + 1 /\ h = deal'[t]
        OBVIOUS
      <4>3. h = [k EXCEPT !.bars = n, !.pc = pc]
        BY <2>6, <4>1, <4>2
      <4>4. k \in Knowledge /\ n \in 0..MaxBars /\ pc \in {"open", "closing"}
        BY <2>2, <3>1, <3>3, <4>2
      <4>5. h \in Knowledge /\ h.bars = n /\ h.pc = pc
        BY <4>3, <4>4 DEF Knowledge
      <4> QED BY <4>2, <4>5, Zenon
    <3>5. HeldSoFar(deal'[t])
      BY <2>3, <3>1, <3>4 DEF HeldSoFar
    <3>6. \A u \in Deals \ {t} : deal'[u] = IF u \in Tele!Followed THEN Tele!Follow(u) ELSE deal[u]
      BY <2>1, Zenon
    <3>7. ASSUME NEW u \in Deals \ {t}
          PROVE  /\ deal'[u] \in Knowledge /\ HeldSoFar(deal'[u])
                 /\ deal'[u].pc = deal[u].pc /\ deal'[u].bars = deal[u].bars
      BY <1>0, <3>6, FollowKept
    <3>8. \A u \in Deals : deal'[u] \in Knowledge
      BY <3>4, <3>7
    <3>9. deal' \in [Deals -> Knowledge]
      <4>1. PICK F : deal' = [u \in Deals |-> F[u]]
        <5>1. deal' = [u \in Deals |-> deal'[u]]
          BY <2>1, Zenon
        <5> QED BY <5>1
      <4> QED BY <3>8, <4>1
    <3> QED BY <3>4, <3>5, <3>6, <3>7, <3>9
  <2>8. Grown
    <3>1. \A u \in Deals : deal[u].bars \in Nat
      BY <1>0 DEF Knowledge
    <3> QED BY <2>2, <2>7, <3>1 DEF Grown
  <2> QED BY <1>1, <2>2, <2>4, <2>5, <2>7, <2>8, CandleLogged
<1> QED BY <1>2, <1>3

(* After the alert of an exit: the exit and its settlement are logged, and *)
(* the trade has ended.                                                    *)
LEMMA ExitInv == TeleInv /\ Tele!ExitLogged => TeleInv'
<1> SUFFICES ASSUME TeleInv, Tele!ExitLogged PROVE TeleInv'
  OBVIOUS
<1>0. TeleTyped /\ Pipeline /\ OnItsWay /\ Agreed
  BY DEF TeleInv
<1> DEFINE bar == deal[turn].bars
           exit == Tele!Item("exit", turn, bar, NoTrade)
           final == Tele!Item("finalize", turn, bar, NoTrade)
<1>1. /\ turn \in Deals /\ deal[turn].pc = "closing" /\ Tele!Log(<<exit, final>>)
      /\ deal' = [deal EXCEPT ![turn].pc = "closed", ![turn].after = 0]
      /\ turn' = NoTrade /\ UNCHANGED <<awake, shadows, settled>>
  BY <1>0 DEF Tele!ExitLogged, Tele!store, TeleTyped
<1>2. /\ deal[turn] \in Knowledge /\ HeldSoFar(deal[turn]) /\ bar \in 1..MaxBars
      /\ deal \in [Deals -> Knowledge]
  <2>1. deal \in [Deals -> Knowledge] /\ HeldSoFar(deal[turn])
    BY <1>0, <1>1 DEF TeleTyped
  <2>2. bar >= 1 /\ bar \in 0..MaxBars
    BY <1>1, <2>1 DEF Knowledge, HeldSoFar
  <2> QED BY <1>1, <2>1, <2>2
<1>3. PICK k : k = [deal[turn] EXCEPT !.pc = "closed", !.after = 0]
  OBVIOUS
<1>4. k \in Knowledge /\ k.pc = "closed" /\ k.bars = bar
  <2>1. \A d \in Knowledge : /\ [d EXCEPT !.pc = "closed", !.after = 0] \in Knowledge
                             /\ [d EXCEPT !.pc = "closed", !.after = 0].pc = "closed"
                             /\ [d EXCEPT !.pc = "closed", !.after = 0].bars = d.bars
    <3>1. 0 \in {NoTrade} \cup 0..(PostBars - 1)
      BY ForwardAssumption
    <3> QED BY <3>1 DEF Knowledge
  <2> QED BY <1>2, <1>3, <2>1, Zenon
<1>5. /\ deal' \in [Deals -> Knowledge]
      /\ deal'[turn] = k
      /\ \A u \in Deals \ {turn} : deal'[u] = deal[u]
  <2>1. deal' = [deal EXCEPT ![turn] = k]
    BY <1>1, <1>2, <1>3
  <2> QED BY <1>1, <1>2, <1>4, <2>1
<1>6. Grown /\ \A u \in Deals : HeldSoFar(deal'[u])
  <2>1. \A u \in Deals : deal[u].bars \in Nat /\ HeldSoFar(deal[u])
    BY <1>0 DEF TeleTyped, Knowledge
  <2>2. HeldSoFar(k)
    BY <1>2, <1>4 DEF HeldSoFar
  <2> QED BY <1>1, <1>4, <1>5, <2>1, <2>2 DEF Grown
<1>7. exit \in Tele!Items /\ final \in Tele!Items
  <2>1. bar \in 0..(MaxBars + PostBars)
    BY <1>2, ForwardAssumption
  <2> HIDE DEF bar
  <2> QED BY <1>1, <2>1 DEF Tele!Items, Tele!Item
<1>8. /\ exit.action = "exit" /\ final.action = "finalize"
      /\ final.trade = turn /\ final.bar = bar
  BY DEF Tele!Item
<1> HIDE DEF exit, final, bar
<1>9. <<exit, final>> \in Seq(Tele!Items) /\ Len(<<exit, final>>) = 2
  BY <1>7
<1>10. \A i \in {exit, final} : Fine(i, deal', settled) /\ i.action # "shadow"
  BY <1>4, <1>5, <1>8 DEF Fine
<1>11. PICK items : items = <<exit, final>>
  OBVIOUS
<1>12. \A k2 \in 1..Len(items) : items[k2] \in {exit, final}
  BY <1>9, <1>11
<1>13. Pipeline' /\ OnItsWay'
  <2>1. items \in Seq(Tele!Items) /\ Tele!Log(items) /\ settled' = settled
    BY <1>1, <1>9, <1>11
  <2>2. \A k2 \in 1..Len(items) :
          /\ Fine(items[k2], deal', settled)
          /\ items[k2].action = "shadow" => deal[items[k2].trade].pc # "closed"
    BY <1>10, <1>12
  <2>3. \A j, k2 \in 1..Len(items) : j < k2 => Before(items[j], items[k2])
    BY <1>10, <1>12 DEF Before
  <2> QED BY <1>0, <1>5, <1>6, <2>1, <2>2, <2>3, PipelineGrows
<1>14. Agreed'
  BY <1>0, <1>1, <1>5, <1>6, AgreedGrows
<1>15. TeleTyped'
  <2>1. /\ UNCHANGED <<item, post>>
        /\ lane' \in Seq(Tele!Items) /\ Len(lane') <= Capacity
        /\ overflow' \subseteq Tele!Items /\ owed' \subseteq Tele!Items
    BY <1>0, <1>1, <1>9, LogFacts
  <2> QED BY <1>0, <1>1, <1>5, <1>6, <2>1 DEF TeleTyped
<1> QED BY <1>13, <1>14, <1>15 DEF TeleInv

LEMMA EntryInv == TeleInv /\ Tele!EntryLogged => TeleInv'
<1> SUFFICES ASSUME TeleInv, Tele!EntryLogged PROVE TeleInv'
  OBVIOUS
<1>0. TeleTyped /\ Pipeline /\ OnItsWay /\ Agreed
  BY DEF TeleInv
<1> DEFINE entry == Tele!Item("entry", turn, 0, NoTrade)
<1>1. /\ turn \in Deals /\ deal[turn].pc = "entering" /\ Tele!Log(<<entry>>)
      /\ deal' = [deal EXCEPT ![turn].pc = "open", ![turn].context = TRUE]
      /\ turn' = NoTrade /\ UNCHANGED <<awake, shadows, settled>>
  BY <1>0 DEF Tele!EntryLogged, Tele!store, TeleTyped
<1>2. deal \in [Deals -> Knowledge] /\ deal[turn] \in Knowledge /\ HeldSoFar(deal[turn])
  BY <1>0, <1>1 DEF TeleTyped
<1>3. PICK k : k = [deal[turn] EXCEPT !.pc = "open", !.context = TRUE]
  OBVIOUS
<1>4. k \in Knowledge /\ k.pc = "open" /\ k.bars = deal[turn].bars
  <2>1. \A d \in Knowledge : [d EXCEPT !.pc = "open", !.context = TRUE] \in Knowledge
    BY Zenon DEF Knowledge
  <2>2. \A d \in Knowledge : /\ [d EXCEPT !.pc = "open", !.context = TRUE].pc = "open"
                             /\ [d EXCEPT !.pc = "open", !.context = TRUE].bars = d.bars
    BY DEF Knowledge
  <2> QED BY <1>2, <1>3, <2>1, <2>2, Zenon
<1>5. /\ deal' \in [Deals -> Knowledge]
      /\ deal'[turn] = k
      /\ \A u \in Deals \ {turn} : deal'[u] = deal[u]
  <2>1. deal' = [deal EXCEPT ![turn] = k]
    BY <1>1, <1>2, <1>3
  <2> QED BY <1>1, <1>2, <1>4, <2>1
<1>6. Grown /\ \A u \in Deals : HeldSoFar(deal'[u])
  <2>1. \A u \in Deals : deal[u].bars \in Nat /\ HeldSoFar(deal[u])
    BY <1>0 DEF TeleTyped, Knowledge
  <2>2. HeldSoFar(k)
    BY <1>1, <1>2, <1>4 DEF HeldSoFar
  <2> QED BY <1>1, <1>4, <1>5, <2>1, <2>2 DEF Grown
<1>7. entry \in CandleItems(NoTrade)
  <2>1. 0 \in 0..(MaxBars + PostBars)
    BY ForwardAssumption
  <2> QED BY <1>1, <2>1 DEF CandleItems, Tele!Items, Tele!Item
<1> HIDE DEF entry
<1>8. <<entry>> \in Seq(CandleItems(NoTrade))
  BY <1>7
<1> QED BY <1>1, <1>5, <1>6, <1>8, ForwardAssumption, CandleLogged
-----------------------------------------------------------------------------
(* The steps of the worker, the process and the entries. *)
LEMMA TradeEntersInv ==
    ASSUME TeleInv, NEW t \in Deals, Tele!Enter(t) PROVE TeleInv'
<1>0. TeleTyped /\ Pipeline /\ OnItsWay /\ Agreed
  BY DEF TeleInv
<1>1. /\ deal[t].pc = "new" /\ deal' = [deal EXCEPT ![t].pc = "entering"] /\ turn' = t
      /\ UNCHANGED <<awake, lane, item, post, overflow, shadows, settled, owed>>
  BY DEF Tele!Enter, Tele!worker, Tele!store
<1>2. deal \in [Deals -> Knowledge] /\ \A u \in Deals : HeldSoFar(deal[u]) /\ deal[u].bars \in Nat
  BY <1>0 DEF TeleTyped, Knowledge
<1>3. PICK k : k = [deal[t] EXCEPT !.pc = "entering"]
  OBVIOUS
<1>4. k \in Knowledge /\ k.pc = "entering" /\ k.bars = deal[t].bars
  BY <1>2, <1>3 DEF Knowledge
<1>5. /\ deal' \in [Deals -> Knowledge]
      /\ deal'[t] = k
      /\ \A u \in Deals \ {t} : deal'[u] = deal[u]
  <2>1. deal' = [deal EXCEPT ![t] = k]
    BY <1>1, <1>2, <1>3
  <2> QED BY <1>2, <1>4, <2>1
<1>6. Grown /\ \A u \in Deals : HeldSoFar(deal'[u])
  BY <1>1, <1>2, <1>4, <1>5 DEF Grown, HeldSoFar
<1>7. ASSUME NEW i \in Tele!Items, Fine(i, deal, settled) PROVE Fine(i, deal', settled)
  BY <1>0, <1>5, <1>6, <1>7, FineGrows
<1>8. Pipeline'
  <2>1. \A j \in 1..Len(lane) : lane[j] \in Tele!Items
    BY <1>0, ElementOfSeq DEF TeleTyped
  <2>2. post # "get" => item \in Tele!Items
    BY <1>0 DEF TeleTyped
  <2> QED BY <1>0, <1>1, <1>7, <2>1, <2>2 DEF Pipeline
<1>9. Agreed' /\ OnItsWay' /\ TeleTyped'
  <2>1. Agreed'
    BY <1>0, <1>1, <1>5, <1>6, AgreedGrows
  <2>2. OnItsWay'
    BY <1>0, <1>1 DEF OnItsWay
  <2> QED BY <1>0, <1>1, <1>5, <1>6, <2>1, <2>2 DEF TeleTyped
<1> QED BY <1>8, <1>9 DEF TeleInv

LEMMA TakeInv == TeleInv /\ Tele!Take => TeleInv'
<1> SUFFICES ASSUME TeleInv, Tele!Take PROVE TeleInv'
  OBVIOUS
<1>0. TeleTyped /\ Pipeline /\ OnItsWay /\ Agreed
  BY DEF TeleInv
<1>1. /\ post = "get" /\ lane # <<>> /\ item' = Head(lane) /\ lane' = Tail(lane) /\ post' = "write"
      /\ UNCHANGED <<deal, turn, awake, overflow, shadows, settled, owed>>
  BY DEF Tele!Take, Tele!store
<1>2. /\ lane \in Seq(Tele!Items) /\ Len(lane) \in Nat \ {0} /\ item' = lane[1]
      /\ item' \in Tele!Items /\ lane' \in Seq(Tele!Items) /\ Len(lane') = Len(lane) - 1
      /\ \A k \in 1..Len(lane') : lane'[k] = lane[k + 1]
  <2>1. lane \in Seq(Tele!Items)
    BY <1>0 DEF TeleTyped
  <2>2. Len(lane) \in Nat \ {0} /\ Head(lane) = lane[1]
    BY <1>1, <2>1, EmptySeq
  <2> QED BY <1>1, <2>1, <2>2, HeadTailProperties
<1>3. PICK n : n = Len(lane)
  OBVIOUS
<1>4. /\ n \in Nat \ {0} /\ Len(lane') = n - 1 /\ 1 \in 1..n
      /\ \A k \in 1..(n - 1) : lane'[k] = lane[k + 1] /\ k + 1 \in 1..n /\ 1 < k + 1
  BY <1>2, <1>3
<1>5. /\ \A k \in 1..n : Fine(lane[k], deal, settled)
      /\ \A j, k \in 1..n : j < k => Before(lane[j], lane[k])
  BY <1>0, <1>3 DEF Pipeline
<1>6. \A k \in 1..(n - 1) : Fine(lane'[k], deal, settled) /\ Before(item', lane'[k])
  BY <1>2, <1>4, <1>5, Zenon
<1>7. \A j, k \in 1..(n - 1) : j < k => Before(lane'[j], lane'[k])
  <2> SUFFICES ASSUME NEW j \in 1..(n - 1), NEW k \in 1..(n - 1), j < k
               PROVE  Before(lane'[j], lane'[k])
    OBVIOUS
  <2>1. j + 1 < k + 1
    BY <1>4
  <2> QED BY <1>4, <1>5, <2>1, Zenon
<1>8. Fine(item', deal, settled)
  BY <1>2, <1>4, <1>5, Zenon
<1>9. Pipeline'
  BY <1>1, <1>4, <1>6, <1>7, <1>8 DEF Pipeline
<1>10. OnItsWay'
  <2> SUFFICES ASSUME NEW i \in owed, i \notin overflow
               PROVE  i = item' \/ \E k \in 1..(n - 1) : lane'[k] = i
    BY <1>1, <1>4 DEF OnItsWay
  <2>1. PICK k \in 1..n : lane[k] = i
    BY <1>0, <1>1, <1>3 DEF OnItsWay
  <2>2. k = 1 \/ (k - 1 \in 1..(n - 1) /\ k = (k - 1) + 1)
    BY <1>4
  <2> QED BY <1>2, <1>4, <2>1, <2>2, Zenon
<1>11. Agreed'
  BY <1>0, <1>1 DEF Agreed
<1>12. TeleTyped'
  <2>1. Len(lane') <= Capacity
    BY <1>0, <1>3, <1>4, ForwardAssumption DEF TeleTyped
  <2> QED BY <1>0, <1>1, <1>2, <2>1 DEF TeleTyped
<1> QED BY <1>9, <1>10, <1>11, <1>12 DEF TeleInv

LEMMA WriteInv == TeleInv /\ Tele!Write => TeleInv'
<1> SUFFICES ASSUME TeleInv, Tele!Write PROVE TeleInv'
  OBVIOUS
<1>0. TeleTyped /\ Pipeline /\ OnItsWay /\ Agreed
  BY DEF TeleInv
<1>1. /\ post = "write" /\ item' = NoTrade /\ post' = "get" /\ owed' = owed \ {item}
      /\ shadows' = Tele!Written(item)
      /\ settled' = settled \cup (IF item.action = "finalize" THEN {item.trade} ELSE {})
      /\ UNCHANGED <<deal, turn, awake, lane, overflow>>
  BY DEF Tele!Write
<1>2. /\ item \in Tele!Items /\ item.trade \in Deals /\ Fine(item, deal, settled)
      /\ \A k \in 1..Len(lane) : Before(item, lane[k]) /\ Fine(lane[k], deal, settled)
  BY <1>0, <1>1 DEF TeleTyped, Pipeline, Tele!Items
<1>3. deal[item.trade].bars \in 0..MaxBars /\ HeldSoFar(deal[item.trade])
  BY <1>0, <1>2 DEF TeleTyped, Knowledge
<1>4. OnItsWay'
  BY <1>0, <1>1 DEF OnItsWay
<1>5. Pipeline'
  <2>1. \A k \in 1..Len(lane) : Fine(lane[k], deal, settled')
    BY <1>1, <1>2 DEF Fine, Before
  <2> QED BY <1>0, <1>1, <2>1 DEF Pipeline
<1>6. CASE item.action = "shadow"
  <2>1. PICK s : s = [trade |-> item.trade, rule |-> item.rule, bar |-> item.bar, exit |-> NoTrade]
    OBVIOUS
  <2>2. settled' = settled /\ (shadows' = shadows \/ shadows' = shadows \cup {s})
    BY <1>1, <1>6, <2>1 DEF Tele!Written
  <2>3. item.bar \in 1..deal[item.trade].bars /\ item.trade \notin settled
    BY <1>2, <1>6 DEF Fine
  <2>4. item.bar \in 1..MaxBars /\ item.rule \in Rules \cup {NoTrade}
    BY <1>2, <1>3, <2>3, ForwardAssumption DEF Tele!Items
  <2>5. /\ s \in Shadows /\ s.trade = item.trade /\ s.bar = item.bar /\ s.exit = NoTrade
    BY <1>2, <2>1, <2>4 DEF Shadows
  <2>6. Agreed'
    BY <1>0, <1>1, <2>2, <2>3, <2>5 DEF Agreed
  <2>7. TeleTyped'
    BY <1>0, <1>1, <2>2, <2>5 DEF TeleTyped
  <2> QED BY <1>4, <1>5, <2>6, <2>7 DEF TeleInv
<1>7. CASE item.action = "finalize"
  <2> DEFINE after(s) == IF s.trade = item.trade /\ s.exit = NoTrade THEN [s EXCEPT !.exit = item.bar] ELSE s
  <2>1. settled' = settled \cup {item.trade} /\ shadows' = {after(s) : s \in shadows}
    BY <1>1, <1>7 DEF Tele!Written
  <2>2. deal[item.trade].pc = "closed" /\ item.bar = deal[item.trade].bars
    BY <1>2, <1>7 DEF Fine
  <2>3. item.bar \in 1..MaxBars /\ item.bar # NoTrade
    BY <1>3, <2>2, ForwardAssumption DEF HeldSoFar
  <2>4. \A s \in shadows : /\ after(s) \in Shadows
                           /\ after(s).trade = s.trade /\ after(s).bar = s.bar
                           /\ after(s).exit = IF s.trade = item.trade /\ s.exit = NoTrade
                                             THEN item.bar ELSE s.exit
    <3>1. \A s \in Shadows : /\ [s EXCEPT !.exit = item.bar] \in Shadows
                             /\ [s EXCEPT !.exit = item.bar].trade = s.trade
                             /\ [s EXCEPT !.exit = item.bar].bar = s.bar
                             /\ [s EXCEPT !.exit = item.bar].exit = item.bar
      BY <2>3 DEF Shadows
    <3> QED BY <1>0, <3>1 DEF TeleTyped
  <2> HIDE DEF after
  <2>5. ASSUME NEW s \in shadows
        PROVE  /\ after(s).bar \in 1..deal[after(s).trade].bars
               /\ after(s).exit # NoTrade => /\ deal[after(s).trade].pc = "closed"
                                            /\ after(s).exit = deal[after(s).trade].bars
               /\ after(s).trade \in settled' => after(s).exit # NoTrade
    BY <1>0, <2>1, <2>2, <2>3, <2>4 DEF Agreed
  <2>6. Agreed'
    BY <1>0, <1>1, <2>1, <2>2, <2>5 DEF Agreed
  <2>7. TeleTyped'
    BY <1>0, <1>1, <1>2, <2>1, <2>4 DEF TeleTyped
  <2> QED BY <1>4, <1>5, <2>6, <2>7 DEF TeleInv
<1>8. CASE item.action \notin {"shadow", "finalize"}
  <2>1. settled' = settled /\ shadows' = shadows
    BY <1>1, <1>8 DEF Tele!Written
  <2>2. Agreed' /\ TeleTyped'
    BY <1>0, <1>1, <2>1 DEF Agreed, TeleTyped
  <2> QED BY <1>4, <1>5, <2>2 DEF TeleInv
<1> QED BY <1>6, <1>7, <1>8

(* A write that fails, the spool, the end of the process. *)
LEMMA WorkerInv ==
    TeleInv /\ (Tele!WriteFails \/ Tele!SpoolHand \/ (\E i \in overflow : Tele!SpoolOverflow(i))
               \/ Tele!Stop \/ UNCHANGED Tele!vars) => TeleInv'
<1> SUFFICES ASSUME TeleInv,
                    Tele!WriteFails \/ Tele!SpoolHand \/ (\E i \in overflow : Tele!SpoolOverflow(i))
                      \/ Tele!Stop \/ UNCHANGED Tele!vars
             PROVE  TeleInv'
  OBVIOUS
<1>0. TeleTyped /\ Pipeline /\ OnItsWay /\ Agreed
  BY DEF TeleInv
<1>1. /\ UNCHANGED <<deal, lane, shadows, settled>> /\ turn' = turn
      /\ \/ UNCHANGED <<item, post, overflow, owed, awake>>
         \/ post = "write" /\ post' = "spool" /\ UNCHANGED <<item, overflow, owed, awake>>
         \/ post = "spool" /\ post' = "get" /\ item' = NoTrade /\ owed' = owed \ {item}
            /\ UNCHANGED <<overflow, awake>>
         \/ /\ \E i \in overflow : overflow' = overflow \ {i} /\ owed' = owed \ {i}
            /\ UNCHANGED <<item, post, awake>>
         \/ awake' = FALSE /\ UNCHANGED <<item, post, overflow, owed>>
  BY DEF Tele!WriteFails, Tele!SpoolHand, Tele!SpoolOverflow, Tele!Spooled, Tele!Stop, Tele!vars, Tele!worker, Tele!store
<1>2. Agreed'
  BY <1>0, <1>1 DEF Agreed
<1>3. Pipeline'
  BY <1>0, <1>1 DEF Pipeline
<1>4. OnItsWay'
  BY <1>0, <1>1 DEF OnItsWay
<1>5. TeleTyped'
  <2>1. awake' \in BOOLEAN
    BY <1>0, <1>1, Zenon DEF TeleTyped
  <2>2. /\ overflow' \subseteq Tele!Items /\ owed' \subseteq Tele!Items
        /\ post' \in {"get", "write", "spool"}
        /\ IF post' = "get" THEN item' = NoTrade ELSE item' \in Tele!Items
    BY <1>0, <1>1 DEF TeleTyped
  <2> QED BY <1>0, <1>1, <2>1, <2>2 DEF TeleTyped
<1> QED BY <1>2, <1>3, <1>4, <1>5 DEF TeleInv

LEMMA RestartInv == TeleInv /\ Tele!Restart => TeleInv'
<1> SUFFICES ASSUME TeleInv, Tele!Restart PROVE TeleInv'
  OBVIOUS
<1>0. TeleTyped /\ Agreed
  BY DEF TeleInv
<1>1. /\ awake' = TRUE /\ turn' = NoTrade /\ lane' = <<>> /\ item' = NoTrade /\ post' = "get"
      /\ overflow' = {} /\ owed' = {} /\ UNCHANGED <<shadows, settled>>
      /\ deal' = [t \in Deals |-> Tele!Recovered(t)]
  BY DEF Tele!Restart, Tele!store
<1>2. deal \in [Deals -> Knowledge] /\ \A u \in Deals : HeldSoFar(deal[u]) /\ deal[u].bars \in Nat
  BY <1>0 DEF TeleTyped, Knowledge
<1>3. ASSUME NEW t \in Deals
      PROVE  /\ Tele!Recovered(t) \in Knowledge /\ Tele!Recovered(t).bars = deal[t].bars
             /\ deal[t].pc = "closed" => Tele!Recovered(t).pc = "closed"
             /\ HeldSoFar(Tele!Recovered(t))
  <2>1. PICK pc : pc = CASE deal[t].pc = "entering" -> "open"
                         [] deal[t].pc = "closing" -> "closed"
                         [] OTHER -> deal[t].pc
    OBVIOUS
  <2>2. Tele!Recovered(t) = [deal[t] EXCEPT !.after = NoTrade, !.context = FALSE, !.pc = pc]
    BY <2>1 DEF Tele!Recovered
  <2>3. PICK k : k = deal[t]
    OBVIOUS
  <2>4. k \in Knowledge /\ HeldSoFar(k) /\ pc \in {"new", "entering", "open", "closing", "closed"}
    BY <1>2, <2>1, <2>3 DEF Knowledge
  <2>5. /\ [k EXCEPT !.after = NoTrade, !.context = FALSE, !.pc = pc].bars = k.bars
        /\ [k EXCEPT !.after = NoTrade, !.context = FALSE, !.pc = pc].pc = pc
    BY <2>4 DEF Knowledge
  <2>6. [k EXCEPT !.after = NoTrade, !.context = FALSE, !.pc = pc] \in Knowledge
    BY <2>4 DEF Knowledge
  <2> QED BY <2>1, <2>2, <2>3, <2>4, <2>5, <2>6 DEF HeldSoFar
<1>4. deal' \in [Deals -> Knowledge] /\ (\A u \in Deals : HeldSoFar(deal'[u])) /\ Grown
  BY <1>1, <1>2, <1>3 DEF Grown
<1>5. Agreed'
  BY <1>0, <1>1, <1>4, AgreedGrows
<1>6. lane' \in Seq(Tele!Items) /\ Len(lane') = 0 /\ awake' \in BOOLEAN
  BY <1>1, EmptySeq
<1>7. Pipeline' /\ OnItsWay'
  BY <1>1, <1>6 DEF Pipeline, OnItsWay
<1>8. TeleTyped'
  <2>1. awake' \in BOOLEAN
    BY <1>1, Zenon
  <2> QED BY <1>0, <1>1, <1>4, <1>6, <2>1, ForwardAssumption DEF TeleTyped
<1> QED BY <1>5, <1>7, <1>8 DEF TeleInv
-----------------------------------------------------------------------------
(* The inductive invariant of the telemetry: a trigger is queued before    *)
(* the settlement of its trade, and what is owed is on its way.            *)
THEOREM TelemetryInOrder == Tele!Spec => []TeleInv
<1>1. Tele!Init => TeleInv
  <2> SUFFICES ASSUME Tele!Init PROVE TeleInv
    OBVIOUS
  <2> USE DEF Tele!Init
  <2>1. lane \in Seq(Tele!Items) /\ Len(lane) = 0
    BY EmptySeq
  <2>2. awake \in BOOLEAN
    BY Zenon
  <2>3. \A t \in Deals : deal[t] \in Knowledge /\ HeldSoFar(deal[t])
    BY ForwardAssumption DEF Tele!NewTrade, Knowledge, HeldSoFar
  <2>4. deal \in [Deals -> Knowledge]
    BY <2>3
  <2>5. TeleTyped
    BY <2>1, <2>2, <2>3, <2>4, ForwardAssumption DEF TeleTyped
  <2> QED BY <2>1, <2>5 DEF TeleInv, Pipeline, Agreed, OnItsWay
<1>2. TeleInv /\ [Tele!Next]_Tele!vars => TeleInv'
  BY CandleInv, ExitInv, EntryInv, TradeEntersInv, TakeInv, WriteInv, WorkerInv, RestartInv DEF Tele!Next
<1> QED BY <1>1, <1>2, PTL DEF Tele!Spec

(* Nothing that the v5 runner logs vanishes before the process ends, and   *)
(* the shadows of a trade that was settled agree with its exit, none of    *)
(* them after it (v6_telemetry.py:159-192, 261-271).                       *)
THEOREM TelemetryKeptHolds == Tele!Spec => []Tele!TelemetryKept
<1>1. TeleInv => Tele!NothingVanishes
  <2> SUFFICES ASSUME TeleInv, NEW i \in owed
               PROVE  i \in Tele!Range(lane) \cup {item} \cup overflow
    BY DEF Tele!NothingVanishes
  <2>1. DOMAIN lane = 1..Len(lane)
    BY DEF TeleInv, TeleTyped
  <2> QED BY <2>1 DEF TeleInv, OnItsWay, Tele!Range
<1>2. TeleInv => Tele!ShadowsSettled
  <2> SUFFICES ASSUME TeleInv, NEW s \in shadows, s.trade \in settled
               PROVE  s.exit = deal[s.trade].bars /\ s.bar <= s.exit
    BY DEF Tele!ShadowsSettled
  <2>1. s.exit = deal[s.trade].bars /\ s.bar \in 1..deal[s.trade].bars
    BY DEF TeleInv, Agreed
  <2> QED BY <2>1
<1>3. TeleInv => Tele!TelemetryKept
  BY <1>1, <1>2 DEF Tele!TelemetryKept
<1> QED BY <1>3, TelemetryInOrder, PTL

(* Every variable of the telemetry has its type. *)
THEOREM TelemetryTypeOK == Tele!Spec => []Tele!TypeOK
<1>1. TeleInv => Tele!TypeOK
  <2> SUFFICES ASSUME TeleInv PROVE Tele!TypeOK
    OBVIOUS
  <2>0. TeleTyped
    BY DEF TeleInv
  <2>1. \A t \in Deals : /\ deal[t].pc \in {"new", "entering", "open", "closing", "closed"}
                         /\ deal[t].bars \in 0..MaxBars
                         /\ deal[t].after \in {NoTrade} \cup 0..PostBars
    <3> SUFFICES ASSUME NEW t \in Deals
                 PROVE  /\ deal[t].pc \in {"new", "entering", "open", "closing", "closed"}
                        /\ deal[t].bars \in 0..MaxBars
                        /\ deal[t].after \in {NoTrade} \cup 0..PostBars
      OBVIOUS
    <3>1. deal[t] \in Knowledge
      BY <2>0 DEF TeleTyped
    <3>2. 0..(PostBars - 1) \subseteq 0..PostBars
      BY ForwardAssumption
    <3> QED BY <3>1, <3>2 DEF Knowledge
  <2>2. Tele!Range(lane) \subseteq Tele!Items
    <3>1. \A k \in DOMAIN lane : lane[k] \in Tele!Items
      BY <2>0, LenProperties, ElementOfSeq DEF TeleTyped
    <3> QED BY <3>1 DEF Tele!Range
  <2>3. (post = "get" <=> item = NoTrade) /\ item \in Tele!Items \cup {NoTrade}
    BY <2>0, NoItemAssumption DEF TeleTyped
  <2>4. \A s \in shadows : s.bar \in 1..MaxBars /\ s.exit \in {NoTrade} \cup 1..MaxBars
    BY <2>0 DEF TeleTyped, Shadows
  <2>5. overflow \cup owed \subseteq Tele!Items
    BY <2>0 DEF TeleTyped
  <2>6. turn \in Deals \cup {NoTrade} /\ Len(lane) <= Capacity
    BY <2>0 DEF TeleTyped
  <2> QED BY <2>1, <2>2, <2>3, <2>4, <2>5, <2>6, Zenon DEF Tele!TypeOK
<1> QED BY <1>1, TelemetryInOrder, PTL
=============================================================================
