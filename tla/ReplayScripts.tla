--------------------------- MODULE ReplayScripts ---------------------------
(***************************************************************************)
(* The scripts around the replays of tools/: they page through the         *)
(* exchange's history, interval by interval, run every variant of a grid   *)
(* on it, the fast one in a pool of worker processes, and print a          *)
(* recommendation.  What one replay does is module Replay's; here a        *)
(* variant's score is what the environment says.                           *)
(*                                                                         *)
(* Candle k of an interval is the number k; Ends[i] is the last one that   *)
(* closes before the end of the period, and the exchange has a few more.   *)
(***************************************************************************)
EXTENDS Integers, FiniteSets, SequencesExt

CONSTANTS Scripts,    \* the scripts that are run
          Ends,       \* [interval -> last candle of the period]
          Beyond,     \* candles the exchange has after the period
          Page,       \* candles of an answer (1500)
          Grid,       \* the variants in the order of the grid
          Scores,     \* [qualified, full, in, out, calmar] of a variant
          Workers,    \* NUM_WORKERS
          MaxCuts,    \* bound: answers that are no list of candles
          MaxFails    \* bound: variants whose worker fails

VARIABLES script,
          fetched,    \* [interval -> candles]
          at,         \* index of the interval being fetched
          from,       \* its next start time
          cuts,       \* answers that were none
          waiting,    \* variants not yet run, in order
          running,    \* variants in the workers
          results,    \* [label, score] in the order of arrival
          failed,     \* variants that were dropped
          phase       \* fetch, replay, done, aborted

vars == <<script, fetched, at, from, cuts, waiting, running, results, failed, phase>>

(* The intervals in the order of the calls. *)
Intervals ==
    CASE script \in {"sweep", "btc", "fast", "extended"} -> <<"1m", "5m", "15m", "4h">>
      [] script = "full" -> <<"1m", "5m", "15m">>
      [] script = "continuation" -> <<"15m", "4h">>
      [] script = "swing" -> <<"15m", "4h", "1d">>
      [] script = "runner" -> <<"5m", "15m", "1m">>

(* What is replayed; without it the script ends. *)
Main == IF script \in {"continuation", "swing"} THEN "15m" ELSE "5m"

(* Two scripts run one replay only. *)
GridOf == IF script \in {"full", "runner"} THEN SubSeq(Grid, 1, 1) ELSE Grid

Variants == Range(Grid)

Init ==
    /\ script \in Scripts
    /\ fetched = [i \in DOMAIN Ends |-> <<>>]
    /\ at = 1 /\ from = 1 /\ cuts = 0
    /\ waiting = GridOf /\ running = {} /\ results = <<>> /\ failed = {}
    /\ phase = "fetch"
-----------------------------------------------------------------------------
Smaller(x, y) == IF x <= y THEN x ELSE y

(* A page: the candles from a start on, as many as fit (get_klines). *)
Klines(i, start) ==
    LET last == Smaller(start + Page - 1, Ends[i] + Beyond)
    IN [k \in 1..(last - start + 1) |-> start + k - 1]

(* Those that close within the period: the rest of a page is left out at  *)
(* the first that does not.                                                *)
Within(i, page) ==
    SubSeq(page, 1, Cardinality({k \in DOMAIN page : \A j \in 1..k : page[j] <= Ends[i]}))

(* Mutant of NextStart: the close of the last candle, and a whole one more. *)
NextStartSkips(page) == Last(page) + 2

NextStart(page) == Last(page) + 1

(* A short page or one past the end is the last. *)
LastPage(i, page) == Len(page) < Page \/ NextStart(page) > Ends[i]

(* Kept once each and in order. *)
Ordered(candles) ==
    LET S == Range(candles)
    IN [k \in 1..Cardinality(S) |-> CHOOSE x \in S : Cardinality({y \in S : y <= x}) = k]

(* With the last interval the client is closed; an empty main history ends *)
(* the script.                                                             *)
NextInterval(data) ==
    /\ fetched' = data
    /\ from' = 1
    /\ IF at < Len(Intervals) THEN at' = at + 1 /\ phase' = "fetch"
       ELSE at' = at /\ phase' = IF data[Main] = <<>> THEN "aborted" ELSE "replay"

(* The runner keeps whole pages, the candle that still forms included. *)
Kept(i, page) == IF script = "runner" THEN page ELSE Within(i, page)

FetchPage ==
    /\ phase = "fetch"
    /\ LET i == Intervals[at]
           page == Klines(i, from)
           data == [fetched EXCEPT ![i] = Ordered(@ \o Kept(i, page))]
       IN IF LastPage(i, page) THEN NextInterval(data)
          ELSE fetched' = data /\ from' = NextStart(page) /\ UNCHANGED <<at, phase>>
    /\ UNCHANGED <<script, cuts, waiting, running, results, failed>>

(* Every script has a copy of that loop. *)
SweepFetch == script = "sweep" /\ FetchPage
BtcFetch == script = "btc" /\ FetchPage
FastFetch == script = "fast" /\ FetchPage
FullFetch == script = "full" /\ FetchPage
ExtendedFetch == script = "extended" /\ FetchPage
ContinuationFetch == script = "continuation" /\ FetchPage
SwingFetch == script = "swing" /\ FetchPage
RunnerFetch == script = "runner" /\ FetchPage

(* An empty answer, or one that is no list, ends the interval: what has    *)
(* been fetched of it is replayed.                                         *)
FetchNothing ==
    /\ phase = "fetch"
    /\ cuts < MaxCuts
    /\ cuts' = cuts + 1
    /\ NextInterval(fetched)
    /\ UNCHANGED <<script, waiting, running, results, failed>>

(* The runner looks only for an empty answer: one that is no list raises.  *)
RunnerFails ==
    /\ phase = "fetch"
    /\ script = "runner"
    /\ cuts < MaxCuts
    /\ cuts' = cuts + 1
    /\ phase' = "aborted"
    /\ UNCHANGED <<script, fetched, at, from, waiting, running, results, failed>>
-----------------------------------------------------------------------------
(* One after the other, in the order of the grid. *)
RunVariant(s) ==
    /\ phase = "replay"
    /\ script # "fast"
    /\ waiting # <<>>
    /\ results' = Append(results, [label |-> Head(waiting), score |-> s])
    /\ waiting' = Tail(waiting)
    /\ UNCHANGED <<script, fetched, at, from, cuts, running, failed, phase>>

(* The pool takes them in that order, and they end in any. *)
StartWorker ==
    /\ phase = "replay"
    /\ script = "fast"
    /\ waiting # <<>>
    /\ Cardinality(running) < Workers
    /\ running' = running \cup {Head(waiting)}
    /\ waiting' = Tail(waiting)
    /\ UNCHANGED <<script, fetched, at, from, cuts, results, failed, phase>>

Collect(v, s) ==
    /\ v \in running
    /\ running' = running \ {v}
    /\ results' = Append(results, [label |-> v, score |-> s])
    /\ UNCHANGED <<script, fetched, at, from, cuts, waiting, failed, phase>>

(* The failure of a worker is printed and its variant dropped. *)
WorkerFails(v) ==
    /\ v \in running
    /\ Cardinality(failed) < MaxFails
    /\ running' = running \ {v}
    /\ failed' = failed \cup {v}
    /\ UNCHANGED <<script, fetched, at, from, cuts, waiting, results, phase>>

Done ==
    /\ phase = "replay"
    /\ waiting = <<>>
    /\ running = {}
    /\ phase' = "done"
    /\ UNCHANGED <<script, fetched, at, from, cuts, waiting, running, results, failed>>
-----------------------------------------------------------------------------
(* max(): of equal ones the first of the list. *)
Best(rs, among, key) ==
    rs[CHOOSE k \in among :
         \A j \in among : \/ rs[j].score[key] < rs[k].score[key]
                          \/ rs[j].score[key] = rs[k].score[key] /\ k <= j]

(* The candidate of the sweep and of its copies: by the Calmar ratio among *)
(* those positive in both samples, else overall, else among all.           *)
SweepAdvice(rs) ==
    LET qualified == {k \in DOMAIN rs : rs[k].score.qualified}
        cross == {k \in qualified : rs[k].score.in > 0 /\ rs[k].score.out > 0}
        positive == {k \in qualified : rs[k].score.full > 0}
    IN IF cross # {} THEN [verdict |-> "best", of |-> Best(rs, cross, "calmar")]
       ELSE IF positive # {} THEN [verdict |-> "partial", of |-> Best(rs, positive, "calmar")]
       ELSE [verdict |-> "none", of |-> Best(rs, DOMAIN rs, "calmar")]

(* Mutant of FastAdvice: the first of the kind to arrive is taken. *)
FastAdviceFirst(rs) ==
    LET advice == SweepAdvice(rs)
        alike(r) == SweepAdvice(<<r>>).verdict = advice.verdict
    IN [advice EXCEPT !.of = Head(SelectSeq(rs, alike))]

FastAdvice(rs) == SweepAdvice(rs)

BtcAdvice(rs) == SweepAdvice(rs)

(* By expectancy, and confirmed when the samples agree. *)
ExtendedAdvice(rs) ==
    LET r == Best(rs, DOMAIN rs, "full")
    IN [verdict |-> IF r.score.full <= 0 THEN "none"
                    ELSE IF r.score.in > 0 /\ r.score.out > 0 THEN "best" ELSE "partial",
        of |-> r]

(* The first of the ranking, judged by its samples only. *)
ContinuationAdvice(rs) ==
    LET r == Best(rs, DOMAIN rs, "full")
    IN [verdict |-> IF r.score.in > 0 /\ r.score.out > 0 THEN "best"
                    ELSE IF r.score.in > 0 \/ r.score.out > 0 THEN "partial" ELSE "none",
        of |-> r]

SwingAdvice(rs) == ContinuationAdvice(rs)

Advice(rs) ==
    CASE script = "sweep" -> SweepAdvice(rs)
      [] script = "btc" -> BtcAdvice(rs)
      [] script = "fast" -> FastAdvice(rs)
      [] script = "extended" -> ExtendedAdvice(rs)
      [] script = "continuation" -> ContinuationAdvice(rs)
      [] script = "swing" -> SwingAdvice(rs)

Stopped == phase \in {"done", "aborted"} /\ UNCHANGED vars

Next ==
    \/ SweepFetch \/ BtcFetch \/ FastFetch \/ FullFetch
    \/ ExtendedFetch \/ ContinuationFetch \/ SwingFetch \/ RunnerFetch
    \/ FetchNothing \/ RunnerFails
    \/ \E s \in Scores : RunVariant(s)
    \/ StartWorker
    \/ \E v \in Variants, s \in Scores : Collect(v, s)
    \/ \E v \in Variants : WorkerFails(v)
    \/ Done
    \/ Stopped

Spec == Init /\ [][Next]_vars
-----------------------------------------------------------------------------
(* Every variable has its type. *)
TypeOK ==
    /\ script \in Scripts
    /\ at \in 1..Len(Intervals)
    /\ cuts \in 0..MaxCuts
    /\ running \subseteq Variants
    /\ failed \subseteq Variants
    /\ phase \in {"fetch", "replay", "done", "aborted"}

Prefix(n) == [k \in 1..n |-> k]

(* A history has no hole, no candle twice and, but for the runner, none    *)
(* after the period, however it was paged, and it is whole when every      *)
(* answer was a list (replay_v2_sweep.py:109-147, replay_runner.py:43).    *)
HistoryIsWhole ==
    /\ \A i \in DOMAIN Ends :
          /\ fetched[i] = Prefix(Len(fetched[i]))
          /\ script # "runner" => Len(fetched[i]) <= Ends[i]
    /\ phase \notin {"fetch", "aborted"} /\ cuts = 0 =>
          \A i \in Range(Intervals) : Len(fetched[i]) >= Ends[i]

(* What is recommended does not depend on the order in which the workers   *)
(* ended: in any other order, the same variants give the same verdict and  *)
(* a candidate as good.  None is lost but those whose worker failed, and   *)
(* the scripts without a pool, whose advice does depend on the order, keep *)
(* that of the grid (replay_v2_sweep_fast.py:995, 883-914).                *)
AdviceIsStable ==
    phase = "done" /\ results # <<>> /\ script \notin {"full", "runner"} =>
        LET Places == DOMAIN results
        IN /\ Len(results) + Cardinality(failed) = Len(Grid)
           /\ script # "fast" => \A k \in Places : results[k].label = Grid[k]
           /\ script \in {"sweep", "btc", "fast"} =>
                 \A p \in Bijection(Places, Places) :
                    LET other == [k \in Places |-> results[p[k]]]
                    IN /\ Advice(other).verdict = Advice(results).verdict
                       /\ Advice(other).of.score.calmar = Advice(results).of.score.calmar
=============================================================================
