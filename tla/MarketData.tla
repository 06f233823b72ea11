----------------------------- MODULE MarketData -----------------------------
(***************************************************************************)
(* The candles of one symbol and timeframe: data/candle_manager.py between *)
(* the WebSocket, which may lose, repeat or falsify a closed candle, and   *)
(* the REST endpoint, which is right but is asked before the lock is taken *)
(* and answers later.  A candle is the number of its open time.            *)
(***************************************************************************)
EXTENDS Naturals, Sequences

CONSTANTS History,    \* candle_history_limit
          Checked,    \* closed candles a REST check compares (3)
          MaxCandles, \* bound: candles that close
          MaxDrops    \* bound: connections lost

VARIABLES now,     \* the last candle closed at the exchange
          link,    \* the WebSocket is connected
          wire,    \* closed candles sent and not yet handled
          phase,   \* setup, fetched, live
          buffer,  \* _candles: [t, ok], ok if its close agrees with the exchange
          busy,    \* _lock is held while CANDLE_CLOSED is handled
          check,   \* the candles an unfinished check was told, {} for none
          handled, \* the last candle handled (observation)
          count,   \* candles handled (observation)
          drops

vars == <<now, link, wire, phase, buffer, busy, check, handled, count, drops>>

Lesser(a, b) == IF a <= b THEN a ELSE b
LastOf(s, n) == SubSeq(s, Len(s) - Lesser(n, Len(s)) + 1, Len(s))
TimesOf(s) == {s[i].t : i \in DOMAIN s}

Init ==
    /\ now = 1
    /\ link = FALSE
    /\ wire = <<>>
    /\ phase = "setup"
    /\ buffer = <<>>
    /\ busy = FALSE
    /\ check = {}
    /\ handled = 0
    /\ count = 0
    /\ drops = 0
-----------------------------------------------------------------------------
(* The exchange closes a candle and sends it to who is connected. *)
CandleCloses ==
    /\ now < MaxCandles
    /\ now' = now + 1
    /\ \E ok \in BOOLEAN :
          wire' = IF link THEN Append(wire, [t |-> now', ok |-> ok]) ELSE wire
    /\ UNCHANGED <<link, phase, buffer, busy, check, handled, count, drops>>

(* After a connection the last closed candle may come again. *)
LinkUp ==
    /\ phase = "live"
    /\ ~link
    /\ link' = TRUE
    /\ wire' \in {<<>>, <<[t |-> now, ok |-> TRUE]>>}
    /\ UNCHANGED <<now, phase, buffer, busy, check, handled, count, drops>>

LinkDown ==
    /\ link
    /\ drops < MaxDrops
    /\ drops' = drops + 1
    /\ link' = FALSE
    /\ wire' = <<>>
    /\ UNCHANGED <<now, phase, buffer, busy, check, handled, count>>

(* load_history_from_rest, called by setup before the WebSocket starts: the *)
(* answer holds what is closed when it is asked.                           *)
AskHistory ==
    /\ phase = "setup"
    /\ phase' = "fetched"
    /\ check' = 1..now
    /\ UNCHANGED <<now, link, wire, buffer, busy, handled, count, drops>>

LoadHistory ==
    /\ phase = "fetched"
    /\ phase' = "live"
    /\ buffer' = LastOf([i \in check |-> [t |-> i, ok |-> TRUE]], History)
    /\ check' = {}
    /\ UNCHANGED <<now, link, wire, busy, handled, count, drops>>

(* The request fails, which is only logged. *)
HistoryFails ==
    /\ phase = "fetched"
    /\ phase' = "live"
    /\ check' = {}
    /\ UNCHANGED <<now, link, wire, buffer, busy, handled, count, drops>>

(* Mutant of IsRepeat: a repeated candle is appended. *)
IsRepeatNever(k) == FALSE

(* handle_ws_kline of a closed candle.  Only the last one is compared. *)
IsRepeat(k) == buffer # <<>> /\ buffer[Len(buffer)].t = k.t

HandleKline ==
    /\ ~busy
    /\ wire # <<>>
    /\ wire' = Tail(wire)
    /\ IF IsRepeat(Head(wire))
       THEN UNCHANGED <<buffer, busy, handled, count>>
       ELSE /\ buffer' = LastOf(Append(buffer, Head(wire)), History)
            /\ busy' = TRUE
            /\ handled' = Head(wire).t
            /\ count' = count + 1
    /\ UNCHANGED <<now, link, phase, check, drops>>

HandlerReturns ==
    /\ busy
    /\ busy' = FALSE
    /\ UNCHANGED <<now, link, wire, phase, buffer, check, handled, count, drops>>

(* verify_with_rest: the request, ... *)
AskCheck ==
    /\ phase = "live"
    /\ check = {}
    /\ check' = {t \in 1..now : t + Checked > now}
    /\ UNCHANGED <<now, link, wire, phase, buffer, busy, handled, count, drops>>

(* Mutant of ApplyCheck: the oldest candle of the answer is skipped as     *)
(* the youngest should be.                                                 *)
ApplyCheckShort ==
    /\ phase = "live"
    /\ check # {}
    /\ ~busy
    /\ buffer' = [i \in DOMAIN buffer |->
                    IF buffer[i].t + 1 \in check THEN [buffer[i] EXCEPT !.ok = TRUE]
                    ELSE buffer[i]]
    /\ check' = {}
    /\ UNCHANGED <<now, link, wire, phase, busy, handled, count, drops>>

(* ... and the comparison under the lock: what is found is corrected, what *)
(* is missing is not inserted.                                             *)
ApplyCheck ==
    /\ phase = "live"
    /\ check # {}
    /\ ~busy
    /\ buffer' = [i \in DOMAIN buffer |->
                    IF buffer[i].t \in check THEN [buffer[i] EXCEPT !.ok = TRUE]
                    ELSE buffer[i]]
    /\ check' = {}
    /\ UNCHANGED <<now, link, wire, phase, busy, handled, count, drops>>

CheckFails ==
    /\ phase = "live"
    /\ check # {}
    /\ check' = {}
    /\ UNCHANGED <<now, link, wire, phase, buffer, busy, handled, count, drops>>

Check == AskCheck \/ ApplyCheck

Next ==
    \/ CandleCloses
    \/ LinkUp \/ LinkDown
    \/ AskHistory \/ LoadHistory \/ HistoryFails
    \/ HandleKline \/ HandlerReturns
    \/ Check \/ CheckFails

Spec == Init /\ [][Next]_vars
-----------------------------------------------------------------------------
(* Every variable has its type. *)
TypeOK ==
    /\ now \in 1..MaxCandles
    /\ link \in BOOLEAN
    /\ wire \in Seq([t : 1..MaxCandles, ok : BOOLEAN])
    /\ phase \in {"setup", "fetched", "live"}
    /\ buffer \in Seq([t : 1..MaxCandles, ok : BOOLEAN])
    /\ Len(buffer) <= History
    /\ busy \in BOOLEAN
    /\ check \subseteq 1..now
    /\ handled \in 0..MaxCandles
    /\ count \in 0..MaxCandles
    /\ drops \in 0..MaxDrops

(* Each handled candle is younger than the one before: the trading loop    *)
(* never decides twice on the same one, also after a reconnection.         *)
HandledInOrder == [][count' # count => handled' > handled]_vars

(* A candle that differs from the exchange's is corrected unless newer     *)
(* ones have pushed it out of the check (candle_manager.py:142).           *)
WrongIsCorrected ==
    \A t \in 1..MaxCandles :
        (\E i \in DOMAIN buffer : buffer[i].t = t /\ ~buffer[i].ok) ~>
        \/ \A i \in DOMAIN buffer : buffer[i].t = t => buffer[i].ok
        \/ t + Checked <= now
=============================================================================
