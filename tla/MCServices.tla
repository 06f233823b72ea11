----------------------------- MODULE MCServices -----------------------------
(***************************************************************************)
(* The services that have something to finish: the writer of the database, *)
(* the supervised tasks, the candle manager, and the v5 runner with two    *)
(* symbols.  They share no state in this module: `focus' says which one a  *)
(* behaviour is about, and the others rest in their first state.           *)
(***************************************************************************)
EXTENDS V5ForwardTest, WriterQueue, Supervision

CONSTANTS History, Checked, MaxDrops,  \* of MarketData
          MaxClosed                    \* its bound of the candles that close

\* The configured history is not empty.
ASSUME MarketAssumption ==
    /\ History \in Nat \ {0}
    /\ Checked \in Nat /\ MaxDrops \in Nat
    /\ MaxClosed \in Nat \ {0}

VARIABLES focus,
          clock, link, wire, feed, buffer, busy, check, handled, count, drops

Market == INSTANCE MarketData WITH
    MaxCandles <- MaxClosed, now <- clock, phase <- feed

marketVars == <<clock, link, wire, feed, buffer, busy, check, handled, count, drops>>

allVars == <<focus, writerVars, watchVars, marketVars, vars>>

MCInit ==
    /\ focus \in {"writer", "watch", "market", "portfolio"}
    /\ WriterInit /\ WatchInit /\ Market!Init /\ Init

\* A step of one component leaves all the others alone.
Only(f) ==
    /\ focus = f
    /\ UNCHANGED focus
    /\ f # "writer" => UNCHANGED writerVars
    /\ f # "watch" => UNCHANGED watchVars
    /\ f # "market" => UNCHANGED marketVars
    /\ f # "portfolio" => UNCHANGED vars

MCNext ==
    \/ Only("writer") /\ WriterNext
    \/ Only("watch") /\ WatchNext
    \/ Only("market") /\ Market!Next
    \/ Only("portfolio") /\ Next

\* The fairness of each module, as its loop or its tasks owe it.
MCFairness ==
    /\ WF_allVars(Only("writer") /\ Writer)
    /\ WF_allVars(Only("watch") /\ Monitor)
    /\ WF_allVars(Only("watch") /\ Stop)
    /\ WF_allVars(Only("watch") /\ Reconnect)
    /\ \A t \in Tasks : WF_allVars(Only("watch") /\ RestartTask(t))
    /\ WF_allVars(Only("market") /\ Market!AskHistory)
    /\ WF_allVars(Only("market") /\ (Market!LoadHistory \/ Market!HistoryFails))
    /\ WF_allVars(Only("market") /\ Market!HandleKline)
    /\ WF_allVars(Only("market") /\ Market!HandlerReturns)
    /\ WF_allVars(Only("market") /\ Market!AskCheck)
    /\ SF_allVars(Only("market") /\ Market!ApplyCheck)
    /\ WF_allVars(Only("portfolio") /\ Loop)

MCSpec == MCInit /\ [][MCNext]_allVars /\ MCFairness
-----------------------------------------------------------------------------
\* Every variable of every service has its type.
TypesHold ==
    /\ WriterTypeOK /\ WatchTypeOK /\ Market!TypeOK /\ TypeOK

\* Candles reach the strategy in the order of time and once each
\* (candle_manager.py:76-94).
HandledInOrder == Market!HandledInOrder

\* A stored candle that differs from the exchange's is corrected
\* (candle_manager.py:141-188).
WrongIsCorrected == Market!WrongIsCorrected

=============================================================================
