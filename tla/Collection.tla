----------------------------- MODULE Collection -----------------------------
(***************************************************************************)
(* The collectors of research/data: one after another, for every dataset,  *)
(* scripts/collect_all.py asks a source for what came after the last       *)
(* stored row, page by page, and writes it to the dataset's file.  Row t   *)
(* of a dataset is the number t; the source has the rows up to the clock.  *)
(* A candle, and a day of Coinalyze, is given while it is still open; the  *)
(* events of the other sources are final.  The hourly rows of Coinalyze,   *)
(* which the source forgets, are left out.                                 *)
(***************************************************************************)
EXTENDS Integers, FiniteSets, FiniteSetsExt, SequencesExt

CONSTANTS Order,      \* the datasets in the order of collect_symbol_group
          Kind,       \* dataset -> "candles", "funding", "recent", "daily"
          None,
          Torn,       \* the content of a file whose writing was interrupted
          Page,       \* rows of an answer
          Window,     \* rows back to which the recent ones are asked for (30 days)
          Horizon,    \* bound: the clock
          MaxFails,   \* bound: requests that fail five times
          MaxCrashes  \* bound: collections that are killed

VARIABLES clock,
          file,     \* dataset -> its rows [t, open], None without a file, or Torn
          at,       \* index of the dataset being collected, 0 when none is
          step,     \* start, fetch, save
          cursor,   \* the next row asked for
          until,    \* the clock at the start of the dataset
          got,      \* rows fetched and not yet saved
          fails, crashes

job == <<at, step, cursor, until, got>>
vars == <<clock, file, job, fails, crashes>>

Datasets == Range(Order)
Readable(d) == file[d] \notin {None, Torn}
Times(rows) == {r.t : r \in rows}
Stored(d) == IF Readable(d) THEN Times(file[d]) ELSE {}
dataset == Order[at]

Init ==
    /\ clock = 1
    /\ file = [d \in Datasets |-> None]
    /\ at = 0 /\ step = "start" /\ cursor = 0 /\ until = 0 /\ got = {}
    /\ fails = 0 /\ crashes = 0
-----------------------------------------------------------------------------
Tick ==
    /\ clock < Horizon
    /\ clock' = clock + 1
    /\ UNCHANGED <<file, job, fails, crashes>>

Collect ==
    /\ at = 0
    /\ at' = 1 /\ step' = "start"
    /\ UNCHANGED <<clock, file, cursor, until, got, fails, crashes>>

NextDataset ==
    /\ at' = IF at = Len(Order) THEN 0 ELSE at + 1
    /\ step' = "start"
    /\ cursor' = 0 /\ until' = 0 /\ got' = {}

(* A dataset is resumed after its last row, from the listing if there is   *)
(* none; the recent ones are asked for anew.                               *)
ResumesAt(d) ==
    IF Kind[d] = "recent" THEN clock - Window
    ELSE IF Stored(d) = {} THEN 1 ELSE Max(Stored(d)) + 1

(* A file that cannot be read raises, and the next dataset comes; where    *)
(* only the save reads it, that raises.                                    *)
Start ==
    /\ at > 0 /\ step = "start"
    /\ IF file[dataset] = Torn /\ Kind[dataset] # "recent"
       THEN NextDataset
       ELSE /\ step' = "fetch"
            /\ cursor' = ResumesAt(dataset)
            /\ until' = clock
            /\ UNCHANGED <<at, got>>
    /\ UNCHANGED <<clock, file, fails, crashes>>

(* What the source has from the cursor to the end, a page of it; the days  *)
(* come in one answer.                                                     *)
Answer ==
    LET rows == {t \in cursor..until : t >= 1}
        first == {t \in rows : Kind[dataset] = "daily" \/ Cardinality({u \in rows : u < t}) < Page}
    IN {[t |-> t, open |-> t = clock /\ Kind[dataset] \in {"candles", "daily"}] : t \in first}

(* The loop goes on behind the last row received, and ends with an empty   *)
(* answer, without progress (the one row a candle's cursor points at) or   *)
(* at the end.                                                             *)
Fetch ==
    /\ at > 0 /\ step = "fetch"
    /\ LET rows == Answer
           last == Max(Times(rows))
       IN IF cursor > until \/ rows = {}
          THEN step' = "save" /\ UNCHANGED <<cursor, got>>
          ELSE /\ got' = got \cup rows
               /\ cursor' = last + 1
               /\ step' = IF Kind[dataset] = "daily" \/ (Kind[dataset] = "candles" /\ last <= cursor)
                      THEN "save" ELSE "fetch"
    /\ UNCHANGED <<clock, file, at, until, fails, crashes>>

(* A request that failed five times gives an empty answer: the loop ends   *)
(* and what came before it is saved.                                       *)
FetchFails ==
    /\ at > 0 /\ step = "fetch"
    /\ fails < MaxFails
    /\ fails' = fails + 1
    /\ step' = "save"
    /\ UNCHANGED <<clock, file, at, cursor, until, got, crashes>>

(* save_parquet: the rows of the file and the new ones, of two at one time *)
(* the later; nothing is written when there is nothing new.                *)
Merged(d) ==
    IF Readable(d) THEN {r \in file[d] : r.t \notin Times(got)} \cup got ELSE got

Save ==
    /\ at > 0 /\ step = "save"
    /\ file' = IF got = {} \/ file[dataset] = Torn THEN file
               ELSE [file EXCEPT ![dataset] = Merged(dataset)]
    /\ NextDataset
    /\ UNCHANGED <<clock, fails, crashes>>

(* The collection is killed; the file being written is overwritten in      *)
(* place.                                                                  *)
Crash ==
    /\ at > 0 /\ crashes < MaxCrashes
    /\ crashes' = crashes + 1
    /\ file' \in {file} \cup (IF step = "save" /\ got # {} /\ file[dataset] # Torn
                              THEN {[file EXCEPT ![dataset] = Torn]} ELSE {})
    /\ at' = 0 /\ step' = "start" /\ cursor' = 0 /\ until' = 0 /\ got' = {}
    /\ UNCHANGED <<clock, fails>>

Next == Tick \/ Collect \/ Start \/ Fetch \/ FetchFails \/ Save \/ Crash

Spec == Init /\ [][Next]_vars
-----------------------------------------------------------------------------
Rows == [t : 1..Horizon, open : BOOLEAN]

TypeOK ==
    /\ clock \in 1..Horizon
    /\ \A d \in Datasets : file[d] \in {None, Torn} \/ file[d] \subseteq Rows
    /\ at \in 0..Len(Order)
    /\ step \in {"start", "fetch", "save"}
    /\ cursor \in -Window..(Horizon + 1) /\ until \in 0..Horizon
    /\ got \subseteq Rows

(* However often a collection was cut short or killed, the rows of a       *)
(* dataset follow one another from the first without a gap, and no time    *)
(* has two (binance_ohlcv.py:115-165, parquet_store.py:85-124).  The       *)
(* recent rows are given for a while only, so theirs begin anywhere, and   *)
(* have a gap after a longer pause.                                        *)
StoreIsWhole ==
    \A d \in Datasets : Readable(d) =>
        /\ Cardinality(file[d]) = Cardinality(Stored(d))
        /\ Kind[d] # "recent" => Stored(d) = 1..Max(Stored(d))
=============================================================================
