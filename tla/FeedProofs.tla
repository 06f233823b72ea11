----------------------------- MODULE FeedProofs -----------------------------
(***************************************************************************)
(* Theorems about what gathers or serves histories: the walk-forward       *)
(* split, the research collectors, the scripts around the replay tools,    *)
(* the liquidations of the v5 runner and the candles of the swing-break    *)
(* engine.                                                                 *)
(***************************************************************************)
EXTENDS MCFeeds, SequenceTheorems, FiniteSetTheorems, FunctionTheorems, WellFoundedInduction, TLAPS

(* Every non-empty set of natural numbers has a least one. *)
LEMMA LeastDay ==
    ASSUME NEW T \in SUBSET Nat, T # {}
    PROVE  \E x \in T : \A y \in T : x <= y
<1>1. IsWellFoundedOn(OpToRel(<, Nat), Nat)
  BY NatLessThanWellFounded, Zenon
<1>2. PICK x \in T : \A y \in T : ~(<<y, x>> \in OpToRel(<, Nat))
  BY <1>1, WFMin, Zenon
<1>3. \A y \in T : ~(y < x)
  BY <1>2 DEF OpToRel
<1> QED BY <1>3
-----------------------------------------------------------------------------
(***************************************************************************)
(* The walk-forward split.  That a day is tested once cannot be read off   *)
(* the trades: it follows from where the windows lie, which the cursor     *)
(* bounds from above.                                                      *)
(***************************************************************************)
Windows == [train : SUBSET HistoryDays, test : SUBSET HistoryDays]

WalkTyped ==
    /\ history \subseteq HistoryDays
    /\ window \in Nat
    /\ splits \in Seq(Windows)
    /\ \A k \in 1..Len(splits) : splits[k].train \subseteq history /\ splits[k].test \subseteq history
    /\ fold \in 0..Len(splits)
    /\ params # NoRow => fold >= 1 /\ params = splits[fold].train
    /\ \A t \in tested : t.fold \in 1..fold /\ t.day \in splits[t.fold].test

(* A window tests on days after its own and before all that come. *)
Windowed ==
    /\ \A k \in 1..Len(splits) :
          /\ \A d \in splits[k].train, e \in splits[k].test : d < e
          /\ \A d \in splits[k].test : d < window + TrainDays
    /\ \A j, k \in 1..Len(splits) :
          j < k => \A d \in splits[j].test, e \in splits[k].test : d < e

WalkInv == WalkTyped /\ Windowed

LEMMA WalkStart == Walk!Init => WalkInv
<1> SUFFICES ASSUME Walk!Init PROVE WalkInv
  OBVIOUS
<1>1. history \subseteq HistoryDays /\ history # {}
  BY DEF Walk!Init
<1>2. window \in history
  <2>1. history \in SUBSET Nat
    BY <1>1, SplitAssumption
  <2>2. PICK x \in history : \A y \in history : x <= y
    BY <1>1, <2>1, LeastDay
  <2> QED BY <2>2 DEF Walk!Init, Walk!Min
<1>3. splits = <<>> /\ fold = 0 /\ params = NoRow /\ tested = {}
  BY DEF Walk!Init
<1>4. splits \in Seq(Windows) /\ Len(splits) = 0
  BY <1>3, EmptySeq
<1>5. window \in Nat
  BY <1>1, <1>2, SplitAssumption
<1> QED BY <1>1, <1>3, <1>4, <1>5 DEF WalkInv, WalkTyped, Windowed

(* A window that is found lies behind all that were found before.          *)
LEMMA FoundIsLater ==
    ASSUME WalkInv, Walk!NextWindow,
           NEW train, train = Walk!Between(window, Walk!TrainEnd),
           NEW test, test = Walk!Between(Walk!TrainEnd, Walk!TestEnd),
           NEW s, s = [train |-> train, test |-> test], splits' = Append(splits, s)
    PROVE  WalkInv'
<1>0. /\ history \subseteq HistoryDays /\ window \in Nat /\ splits \in Seq(Windows)
      /\ TrainDays \in Nat /\ TestDays \in Nat /\ StepDays \in Nat /\ TestDays <= StepDays
      /\ HistoryDays \subseteq Nat
  BY SplitAssumption DEF WalkInv, WalkTyped
<1>1. UNCHANGED <<history, fold, params, tested>> /\ window' = window + StepDays
  BY DEF Walk!NextWindow
<1>2. /\ \A d \in train : d \in history /\ d < window + TrainDays
      /\ \A d \in test : /\ d \in history
                         /\ window + TrainDays <= d /\ d < window + TrainDays + TestDays
  BY DEF Walk!Between, Walk!TrainEnd, Walk!TestEnd
<1>3. s.train = train /\ s.test = test
  OBVIOUS
<1>4. s \in Windows
  BY <1>0, <1>2 DEF Windows
<1>5. PICK n \in Nat : n = Len(splits)
  BY <1>0, LenProperties
<1>6. /\ splits' \in Seq(Windows) /\ Len(splits') = n + 1
      /\ \A k \in 1..n : splits'[k] = splits[k]
      /\ splits'[n + 1] = s
  BY <1>0, <1>4, <1>5, AppendProperties
<1>7. PICK e \in Nat : e = window + TrainDays
  BY <1>0
<1>8. PICK w \in Nat : w = window'
  BY <1>0, <1>1
<1>9. PICK g \in Nat : g = w + TrainDays
  BY <1>0
<1>10. e <= g /\ w = window + StepDays
  BY <1>0, <1>1, <1>7, <1>8, <1>9
<1>11. ASSUME NEW d \in train, NEW f \in test PROVE d < f
  <2>1. d \in Nat /\ f \in Nat /\ d < e /\ e <= f
    BY <1>0, <1>2, <1>7
  <2> QED BY <1>7, <2>1
<1>12. ASSUME NEW d \in test PROVE d < g
  <2>1. d \in Nat /\ d < window + TrainDays + TestDays
    BY <1>0, <1>2
  <2> QED BY <1>0, <1>9, <1>10, <2>1
<1>13. /\ \A k \in 1..n : \A d \in splits[k].train, f \in splits[k].test : d < f
       /\ \A k \in 1..n : \A d \in splits[k].test : d < e
       /\ \A j, k \in 1..n :
             j < k => \A d \in splits[j].test, f \in splits[k].test : d < f
       /\ \A k \in 1..n : splits[k].train \subseteq history /\ splits[k].test \subseteq history
  BY <1>5, <1>7 DEF WalkInv, WalkTyped, Windowed
<1>14. /\ fold \in 0..n
       /\ params # NoRow => fold >= 1 /\ params = splits[fold].train
       /\ \A t \in tested : t.fold \in 1..fold /\ t.day \in splits[t.fold].test
  BY <1>5 DEF WalkInv, WalkTyped
<1>15. \A k \in 1..(n + 1) : k \in 1..n \/ k = n + 1
  OBVIOUS
<1>16. \A k \in 1..(n + 1) :
          splits'[k].train \subseteq history /\ splits'[k].test \subseteq history
  <2>1. train \subseteq history /\ test \subseteq history
    BY <1>2
  <2> QED BY <1>3, <1>6, <1>13, <1>15, <2>1, Zenon
<1>17. \A k \in 1..(n + 1) : \A d \in splits'[k].train, f \in splits'[k].test : d < f
  BY <1>3, <1>6, <1>13, <1>15, <1>11, Zenon
<1>18. \A k \in 1..(n + 1) : \A d \in splits'[k].test : d < g
  <2>1. ASSUME NEW k \in 1..n, NEW d \in splits[k].test PROVE d < g
    <3>1. d \in Nat /\ d < e /\ e <= g
      BY <1>0, <1>13, <1>10, <2>1
    <3> QED BY <3>1
  <2> QED BY <1>3, <1>6, <1>15, <1>12, <2>1, Zenon
<1>19. ASSUME NEW j \in 1..(n + 1), NEW k \in 1..(n + 1), j < k
       PROVE  \A d \in splits'[j].test, f \in splits'[k].test : d < f
  <2>1. j \in 1..n
    BY <1>19
  <2>2. CASE k \in 1..n
    BY <1>6, <1>13, <1>19, <2>1, <2>2, Zenon
  <2>3. CASE k = n + 1
    <3>1. ASSUME NEW d \in splits[j].test, NEW f \in test PROVE d < f
      <4>1. d \in Nat /\ f \in Nat /\ d < e /\ e <= f
        BY <1>0, <1>2, <1>7, <1>13, <2>1, <3>1
      <4> QED BY <1>7, <4>1
    <3> QED BY <1>3, <1>6, <2>1, <2>3, <3>1, Zenon
  <2> QED BY <1>15, <2>2, <2>3
<1>20. /\ params # NoRow => fold >= 1 /\ params = splits'[fold].train
       /\ \A t \in tested : t.fold \in 1..fold /\ t.day \in splits'[t.fold].test
  <2>1. \A k \in 1..fold : k \in 1..n
    BY <1>14
  <2>2. params # NoRow => fold \in 1..n
    BY <1>14
  <2> QED BY <1>6, <1>14, <2>1, <2>2, Zenon
<1>21. WalkTyped'
  BY <1>0, <1>1, <1>6, <1>8, <1>14, <1>16, <1>20 DEF WalkTyped
<1>22. Windowed'
  BY <1>6, <1>8, <1>9, <1>17, <1>18, <1>19 DEF Windowed
<1> QED BY <1>21, <1>22 DEF WalkInv

LEMMA WalkStep == WalkInv /\ [Walk!Next]_Walk!wfVars => WalkInv'
<1> SUFFICES ASSUME WalkInv, [Walk!Next]_Walk!wfVars PROVE WalkInv'
  OBVIOUS
<1>0. /\ history \subseteq HistoryDays /\ window \in Nat /\ splits \in Seq(Windows)
      /\ Len(splits) \in Nat /\ fold \in 0..Len(splits) /\ StepDays \in Nat
      /\ TrainDays \in Nat /\ HistoryDays \subseteq Nat
  BY SplitAssumption DEF WalkInv, WalkTyped
<1>1. CASE Walk!NextWindow
  <2>1. PICK train, test : /\ train = Walk!Between(window, Walk!TrainEnd)
                           /\ test = Walk!Between(Walk!TrainEnd, Walk!TestEnd)
    OBVIOUS
  <2>2. PICK s : s = [train |-> train, test |-> test]
    OBVIOUS
  <2>3. splits' = splits \/ splits' = Append(splits, s)
    BY <1>1, <2>1, <2>2 DEF Walk!NextWindow
  <2>4. CASE splits' = splits
    <3>1. UNCHANGED <<history, splits, fold, params, tested>> /\ window' = window + StepDays
      BY <1>1, <2>4 DEF Walk!NextWindow
    <3>2. WalkTyped'
      BY <1>0, <3>1 DEF WalkInv, WalkTyped
    <3>3. \A k \in 1..Len(splits) : \A d \in splits[k].test : d < window' + TrainDays
      <4>1. SUFFICES ASSUME NEW k \in 1..Len(splits), NEW d \in splits[k].test
                     PROVE  d < window' + TrainDays
        OBVIOUS
      <4>2. d \in Nat /\ d < window + TrainDays
        BY <1>0 DEF WalkInv, WalkTyped, Windowed
      <4> QED BY <1>0, <3>1, <4>2
    <3>4. Windowed'
      BY <3>1, <3>3 DEF WalkInv, Windowed
    <3> QED BY <3>2, <3>4 DEF WalkInv
  <2> QED BY <1>1, <2>1, <2>2, <2>3, <2>4, FoundIsLater
<1>2. CASE Walk!Train
  <2>1. /\ UNCHANGED <<history, window, splits, tested>>
        /\ fold < Len(splits) /\ fold' = fold + 1 /\ params' = splits[fold'].train
    BY <1>2 DEF Walk!Train
  <2>2. fold' \in 1..Len(splits) /\ \A k \in 1..fold : k \in 1..fold'
    BY <1>0, <2>1
  <2>3. WalkTyped'
    BY <1>0, <2>1, <2>2 DEF WalkInv, WalkTyped
  <2>4. Windowed'
    BY <2>1 DEF WalkInv, Windowed
  <2> QED BY <2>3, <2>4 DEF WalkInv
<1>3. CASE Walk!Test
  <2>1. /\ params # NoRow /\ params' = NoRow
        /\ UNCHANGED <<history, window, splits, fold>>
    BY <1>3 DEF Walk!Test
  <2>2. PICK days \in SUBSET splits[fold].test :
            tested' = tested \cup {[fold |-> fold, day |-> d] : d \in days}
    BY <1>3 DEF Walk!Test
  <2>3. fold \in 1..fold
    BY <1>0, <2>1 DEF WalkInv, WalkTyped
  <2>4. ASSUME NEW t \in tested'
        PROVE  t.fold \in 1..fold /\ t.day \in splits[t.fold].test
    <3>1. CASE t \in tested
      BY <3>1 DEF WalkInv, WalkTyped
    <3>2. CASE \E d \in days : t = [fold |-> fold, day |-> d]
      BY <2>2, <2>3, <3>2
    <3> QED BY <2>2, <3>1, <3>2
  <2>5. WalkTyped'
    BY <1>0, <2>1, <2>4 DEF WalkInv, WalkTyped
  <2>6. Windowed'
    BY <2>1 DEF WalkInv, Windowed
  <2> QED BY <2>5, <2>6 DEF WalkInv
<1>4. CASE Walk!Done \/ UNCHANGED Walk!wfVars
  BY <1>4 DEF Walk!Done, Walk!wfVars, WalkInv, WalkTyped, Windowed
<1> QED BY <1>1, <1>2, <1>3, <1>4 DEF Walk!Next

(* Parameters are tested only on days after those they were trained on,    *)
(* and a day counts once in the combined result, for any history and any   *)
(* lengths of the windows (walkforward.py:52-76, 102-112).                 *)
THEOREM OutOfSampleHolds == Walk!Spec => []Walk!OutOfSample
<1>1. WalkInv => Walk!OutOfSample
  <2> SUFFICES ASSUME WalkInv PROVE Walk!OutOfSample
    OBVIOUS
  <2>0. /\ fold \in 0..Len(splits) /\ Len(splits) \in Nat
        /\ \A k \in 1..Len(splits) : \A d \in splits[k].test : d \in Nat
    BY SplitAssumption, LenProperties DEF WalkInv, WalkTyped
  <2>1. params # NoRow => \A d \in params, e \in splits[fold].test : d < e
    BY <2>0 DEF WalkInv, WalkTyped, Windowed
  <2>2. \A t \in tested : t.fold \in 1..Len(splits) /\ t.day \in splits[t.fold].test
    BY <2>0 DEF WalkInv, WalkTyped
  <2>3. ASSUME NEW t \in tested, NEW u \in tested, t.day = u.day PROVE t.fold = u.fold
    <3>1. PICK d, j, k : d = t.day /\ j = t.fold /\ k = u.fold
      OBVIOUS
    <3>2. /\ j \in 1..Len(splits) /\ k \in 1..Len(splits)
          /\ d \in splits[j].test /\ d \in splits[k].test
      BY <2>2, <2>3, <3>1
    <3>3. d \in Nat
      BY <2>0, <3>2
    <3>4. ~(j < k) /\ ~(k < j)
      BY <3>2, <3>3 DEF WalkInv, Windowed
    <3>5. j = k
      BY <2>0, <3>2, <3>4
    <3> QED BY <3>1, <3>5
  <2>4. \A t \in tested : \A d \in splits[t.fold].train : d < t.day
    BY <2>2 DEF WalkInv, Windowed
  <2> QED BY <2>1, <2>3, <2>4 DEF Walk!OutOfSample
<1> QED BY <1>1, WalkStart, WalkStep, PTL DEF Walk!Spec

(* Every variable of the split keeps its type.                             *)
THEOREM WalkTypeOK == Walk!Spec => []Walk!TypeOK
<1>1. WalkInv => Walk!TypeOK
  <2> SUFFICES ASSUME WalkInv PROVE Walk!TypeOK
    OBVIOUS
  <2>0. /\ fold \in 0..Len(splits) /\ Len(splits) \in Nat /\ DOMAIN splits = 1..Len(splits)
        /\ \A k \in 1..Len(splits) :
              splits[k].train \subseteq history /\ splits[k].test \subseteq history
    BY LenProperties DEF WalkInv, WalkTyped
  <2>1. params = NoRow \/ params \subseteq history
    BY <2>0 DEF WalkInv, WalkTyped
  <2>2. \A t \in tested : t.fold \in 1..fold /\ t.day \in history
    BY <2>0 DEF WalkInv, WalkTyped
  <2> QED BY <2>0, <2>1, <2>2 DEF WalkInv, WalkTyped, Walk!TypeOK
<1> QED BY <1>1, WalkStart, WalkStep, PTL DEF Walk!Spec
-----------------------------------------------------------------------------
(***************************************************************************)
(* The collectors.  What a dataset holds is an interval of times from the  *)
(* first, what was fetched since is the interval that follows it up to the *)
(* cursor, and no time is in either twice.                                 *)
(***************************************************************************)
Once(rs) == \A r, s \in rs : r.t = s.t => r = s

(* A set of rows without a time twice has as many as it has times. *)
LEMMA OnceCounts ==
    ASSUME NEW rs, Once(rs), IsFiniteSet(Collectors!Times(rs))
    PROVE  Cardinality(rs) = Cardinality(Collectors!Times(rs))
<1> DEFINE times == Collectors!Times(rs)
           f == [r \in rs |-> r.t]
<1>1. f \in [rs -> times]
  BY DEF Collectors!Times
<1>2. \A r, s \in rs : f[r] = f[s] => r = s
  BY DEF Once
<1>3. \A t \in times : \E r \in rs : f[r] = t
  BY DEF Collectors!Times
<1> HIDE DEF times, f
<1>4. f \in Bijection(rs, times)
  BY <1>1, <1>2, <1>3, Fun_IsBij
<1>5. f \in Injection(rs, times) /\ f \in Surjection(rs, times)
  BY <1>4 DEF Bijection
<1>6. IsFiniteSet(times)
  BY DEF times
<1>7. Cardinality(rs) = Cardinality(times)
  BY <1>5, <1>6, FS_Injection
<1> QED BY <1>7 DEF times

(* The greatest of some times. *)
LEMMA GreatestOf ==
    ASSUME NEW S, S # {}, NEW m \in Nat, S \subseteq 1..m
    PROVE  Collectors!Max(S) \in S /\ \A y \in S : y <= Collectors!Max(S)
<1> DEFINE T == {m - x : x \in S}
<1>1. T \in SUBSET Nat /\ T # {}
  <2>1. \A x \in S : m - x \in Nat
    OBVIOUS
  <2>2. T # {}
    <3>1. PICK x : x \in S
      OBVIOUS
    <3>2. m - x \in T
      BY <3>1
    <3> QED BY <3>2
  <2> QED BY <2>1, <2>2
<1>2. PICK z \in T : \A y \in T : z <= y
  BY <1>1, LeastDay
<1>3. PICK x \in S : z = m - x
  BY <1>2
<1>4. \A y \in S : x >= y
  <2> SUFFICES ASSUME NEW y \in S PROVE x >= y
    OBVIOUS
  <2>1. m - y \in T
    OBVIOUS
  <2>2. m - x <= m - y
    BY <1>2, <1>3, <2>1
  <2>3. x \in Nat /\ y \in Nat
    OBVIOUS
  <2> QED BY <2>2, <2>3
<1>5. Collectors!Max(S) \in S /\ \A y \in S : Collectors!Max(S) >= y
  BY <1>4 DEF Collectors!Max
<1>6. \A x1, y1 \in S : x1 >= y1 => y1 <= x1
  OBVIOUS
<1> QED BY <1>5, <1>6

(* The rows of a dataset: those of the recent kinds begin anywhere. *)
Filed(d, rs) ==
    /\ rs \subseteq Collectors!Rows
    /\ Once(rs)
    /\ Kind[d] # "recent" => \E n \in 1..LastHour : Collectors!Times(rs) = 1..n

Fetched(d) ==
    /\ file[d] # Torn
    /\ \E n \in 0..LastHour :
          /\ Collectors!Stored(d) = 1..n
          /\ n + 1 <= cursor
          /\ Collectors!Times(got) = (n + 1)..(cursor - 1)

CollectInv ==
    /\ hour \in 1..LastHour
    /\ DOMAIN file = Collectors!Datasets
    /\ \A d \in Collectors!Datasets : Collectors!Readable(d) => Filed(d, file[d])
    /\ dataset \in 0..Len(DatasetOrder)
    /\ leg \in {"start", "fetch", "save"}
    /\ cursor \in (-RecentRows)..(LastHour + 1) /\ until \in 0..hour
    /\ got \subseteq Collectors!Rows /\ Once(got) /\ \A r \in got : r.t < cursor
    /\ dataset = 0 => leg = "start"
    /\ leg = "start" => got = {}
    /\ leg # "start" /\ Kind[Collectors!dataset] # "recent" => Fetched(Collectors!dataset)

LEMMA CollectStart == Collectors!Init => CollectInv
<1> SUFFICES ASSUME Collectors!Init PROVE CollectInv
  OBVIOUS
<1>1. /\ hour = 1 /\ dataset = 0 /\ leg = "start" /\ cursor = 0 /\ until = 0 /\ got = {}
      /\ file = [d \in Collectors!Datasets |-> NoRow]
  BY DEF Collectors!Init
<1>2. \A d \in Collectors!Datasets : ~Collectors!Readable(d)
  BY <1>1 DEF Collectors!Readable
<1>3. DOMAIN file = Collectors!Datasets
  BY <1>1
<1>4. Len(DatasetOrder) \in Nat
  BY CollectAssumption, LenProperties
<1> QED BY <1>1, <1>2, <1>3, <1>4, CollectAssumption DEF CollectInv, Once

(* The dataset in turn is one of them. *)
LEMMA InTurn ==
    ASSUME CollectInv, dataset > 0
    PROVE  Collectors!dataset \in Collectors!Datasets
<1>1. dataset \in 1..Len(DatasetOrder) /\ DOMAIN DatasetOrder = 1..Len(DatasetOrder)
  BY CollectAssumption, LenProperties DEF CollectInv
<1> QED BY <1>1 DEF Collectors!dataset, Collectors!Datasets, Collectors!Range

(* What no row is fetched of yet begins a dataset. *)
LEMMA TurnBegins ==
    ASSUME CollectInv,
           DOMAIN file' = Collectors!Datasets,
           \A d \in Collectors!Datasets : Collectors!Readable(d)' => Filed(d, file'[d]),
           dataset' \in 0..Len(DatasetOrder), hour' = hour,
           leg' = "start", cursor' = 0, until' = 0, got' = {}
    PROVE  CollectInv'
<1>1. hour \in 1..LastHour
  BY DEF CollectInv
<1>2. \A d \in Collectors!Datasets : Collectors!Readable(d)' => Filed(d, file[d])'
  BY DEF Filed
<1>3. Once(got')
  BY DEF Once
<1> QED BY <1>1, <1>2, <1>3, CollectAssumption DEF CollectInv, Collectors!Datasets, Once

(* A dataset is resumed behind what it holds. *)
LEMMA StartKeeps == CollectInv /\ Collectors!Start => CollectInv'
<1> SUFFICES ASSUME CollectInv, Collectors!Start PROVE CollectInv'
  OBVIOUS
<1> DEFINE d == Collectors!dataset
<1>1. /\ dataset > 0 /\ leg = "start" /\ hour' = hour /\ file' = file
      /\ dataset \in 0..Len(DatasetOrder) /\ Len(DatasetOrder) \in Nat
      /\ hour \in 1..LastHour /\ got = {} /\ d \in Collectors!Datasets
      /\ RecentRows \in Nat /\ LastHour \in Nat
  BY CollectAssumption, InTurn, LenProperties DEF Collectors!Start, CollectInv
<1>2. CASE Collectors!NextDataset
  <2>1. /\ dataset' \in 0..Len(DatasetOrder)
        /\ leg' = "start" /\ cursor' = 0 /\ until' = 0 /\ got' = {}
    BY <1>1, <1>2 DEF Collectors!NextDataset
  <2>2. /\ DOMAIN file' = Collectors!Datasets
        /\ \A e \in Collectors!Datasets : Collectors!Readable(e)' => Filed(e, file'[e])
    BY <1>1 DEF CollectInv, Collectors!Readable
  <2> QED BY <1>1, <2>1, <2>2, TurnBegins
<1>3. CASE /\ ~(file[d] = Torn /\ Kind[d] # "recent")
           /\ leg' = "fetch" /\ cursor' = Collectors!ResumesAt(d) /\ until' = hour
           /\ UNCHANGED <<dataset, got>>
  <2>1. /\ \A e \in Collectors!Datasets : Collectors!Readable(e)' => Filed(e, file[e])'
        /\ DOMAIN file' = Collectors!Datasets
    BY <1>1 DEF CollectInv, Collectors!Readable, Filed
  <2>2. Once(got) /\ got \subseteq Collectors!Rows /\ \A r \in got : FALSE
    BY <1>1 DEF Once
  <2>3. CASE Kind[d] = "recent"
    <3>1. cursor' = hour - RecentRows
      BY <1>3, <2>3 DEF Collectors!ResumesAt
    <3>2. cursor' \in (-RecentRows)..(LastHour + 1)
      BY <1>1, <3>1
    <3>3. Kind[Collectors!dataset]' = "recent"
      BY <1>3, <2>3 DEF Collectors!dataset
    <3> QED BY <1>1, <1>3, <2>1, <2>2, <3>2, <3>3 DEF CollectInv, Once
  <2>4. CASE Kind[d] # "recent"
    <3>1. PICK n \in 0..LastHour : /\ Collectors!Stored(d) = 1..n
                                   /\ cursor' = n + 1
      <4>1. CASE Collectors!Stored(d) = {}
        <5>1. cursor' = 1 /\ Collectors!Stored(d) = 1..0
          BY <1>3, <2>4, <4>1 DEF Collectors!ResumesAt
        <5> QED BY <1>1, <5>1
      <4>2. CASE Collectors!Stored(d) # {}
        <5>1. Collectors!Readable(d) /\ Collectors!Stored(d) = Collectors!Times(file[d])
          BY <4>2 DEF Collectors!Stored
        <5>2. PICK n \in 1..LastHour : Collectors!Stored(d) = 1..n
          BY <1>1, <2>4, <5>1 DEF CollectInv, Filed
        <5>3. Collectors!Max(1..n) = n
          <6>1. 1..n # {} /\ n \in 1..n /\ 1..n \subseteq 1..n /\ n \in Nat
            OBVIOUS
          <6>2. Collectors!Max(1..n) \in 1..n /\ n <= Collectors!Max(1..n)
            BY <6>1, GreatestOf
          <6> QED BY <6>2
        <5>4. cursor' = Collectors!Max(Collectors!Stored(d)) + 1
          BY <1>3, <2>4, <4>2 DEF Collectors!ResumesAt
        <5>5. cursor' = n + 1
          BY <5>2, <5>3, <5>4
        <5> QED BY <5>2, <5>5
      <4> QED BY <4>1, <4>2
    <3>2. cursor' \in (-RecentRows)..(LastHour + 1)
      BY <1>1, <3>1
    <3>3. Fetched(Collectors!dataset)'
      <4>1. file[d]' # Torn /\ Collectors!Stored(d)' = 1..n /\ d' = d
        BY <1>1, <1>3, <2>4, <3>1
           DEF Collectors!Stored, Collectors!Readable, Collectors!dataset
      <4>2. Collectors!Times(got') = {} /\ (n + 1)..(cursor' - 1) = {} /\ n + 1 <= cursor'
        BY <1>1, <1>3, <3>1 DEF Collectors!Times
      <4> QED BY <4>1, <4>2 DEF Fetched
    <3> QED BY <1>1, <1>3, <2>1, <2>2, <3>2, <3>3 DEF CollectInv, Once
  <2> QED BY <2>3, <2>4
<1> QED BY <1>1, <1>2, <1>3 DEF Collectors!Start

LEMMA TickKeeps == CollectInv /\ Collectors!Tick => CollectInv'
<1> SUFFICES ASSUME CollectInv, Collectors!Tick PROVE CollectInv'
  OBVIOUS
<1>1. /\ hour < LastHour /\ hour' = hour + 1 /\ hour \in 1..LastHour /\ LastHour \in Nat
      /\ until \in 0..hour
      /\ UNCHANGED <<file, dataset, leg, cursor, until, got>>
  BY CollectAssumption DEF Collectors!Tick, Collectors!job, CollectInv
<1>2. hour' \in 1..LastHour /\ until \in 0..hour'
  BY <1>1
<1>3. Fetched(Collectors!dataset) => Fetched(Collectors!dataset)'
  BY <1>1 DEF Fetched, Collectors!dataset, Collectors!Stored, Collectors!Readable
<1>4. Collectors!dataset' = Collectors!dataset
  BY <1>1 DEF Collectors!dataset
<1>5. \A d \in Collectors!Datasets : Collectors!Readable(d)' => Filed(d, file[d])'
  BY <1>1 DEF CollectInv, Collectors!Readable, Filed
<1> QED BY <1>1, <1>2, <1>3, <1>4, <1>5 DEF CollectInv

LEMMA CollectKeeps == CollectInv /\ Collectors!Collect => CollectInv'
<1> SUFFICES ASSUME CollectInv, Collectors!Collect PROVE CollectInv'
  OBVIOUS
<1>1. /\ dataset = 0 /\ dataset' = 1 /\ leg' = "start" /\ leg = "start" /\ got = {}
      /\ UNCHANGED <<hour, file, cursor, until, got>>
  BY DEF Collectors!Collect, CollectInv
<1>2. 1 \in 0..Len(DatasetOrder)
  BY CollectAssumption, LenProperties
<1>3. \A d \in Collectors!Datasets : Collectors!Readable(d)' => Filed(d, file[d])'
  BY <1>1 DEF CollectInv, Collectors!Readable, Filed
<1> QED BY <1>1, <1>2, <1>3 DEF CollectInv, Once

(* The times of an answer among those there are. *)
FirstPage(times, all) ==
    {t \in times : all \/ Collectors!Cardinality({u \in times : u < t}) < ResearchPage}

(* What is fetched goes on where the cursor stands. *)
LEMMA RowsFollow ==
    ASSUME NEW c \in Nat \ {0}, NEW u \in 0..LastHour, c <= u, NEW all \in BOOLEAN
    PROVE  \E l \in c..u : FirstPage({t \in c..u : t >= 1}, all) = c..l
<1> DEFINE answer == {t \in c..u : t >= 1}
           first == FirstPage(answer, all)
<1> SUFFICES \E l \in c..u : first = c..l
  OBVIOUS
<1>0. LastHour \in Nat /\ ResearchPage \in Nat \ {0} /\ u \in Nat
  BY CollectAssumption
<1>1. answer = c..u
  BY <1>0
<1> HIDE DEF first
<1> HIDE DEF answer
<1>2. ASSUME NEW t \in c..u
      PROVE  Collectors!Cardinality({x \in answer : x < t}) = t - c
  <2>1. {x \in answer : x < t} = c..(t - 1)
    BY <1>0, <1>1
  <2>2. c \in Int /\ t - 1 \in Int /\ t \in Int
    BY <1>0
  <2>3. Cardinality(c..(t - 1)) = IF c > t - 1 THEN 0 ELSE (t - 1) - c + 1
    BY <2>2, FS_Interval
  <2>4. Collectors!Cardinality(c..(t - 1)) = Cardinality(c..(t - 1))
    BY DEF Cardinality, Collectors!Cardinality
  <2>5. (IF c > t - 1 THEN 0 ELSE (t - 1) - c + 1) = t - c
    <3>1. c <= t
      BY <1>0
    <3> QED BY <2>2, <3>1
  <2> QED BY <2>1, <2>3, <2>4, <2>5, Zenon
<1>3. CASE all
  <2>1. first = c..u
    BY <1>1, <1>3 DEF FirstPage, first
  <2>2. u \in c..u
    BY <1>0
  <2> QED BY <2>1, <2>2
<1>4. CASE ~all
  <2>1. first = {t \in c..u : t - c < ResearchPage}
    BY <1>1, <1>2, <1>4 DEF FirstPage, first
  <2>2. CASE c + ResearchPage - 1 <= u
    <3>1. first = c..(c + ResearchPage - 1)
      BY <1>0, <2>1, <2>2
    <3> QED BY <1>0, <2>2, <3>1
  <2>3. CASE u < c + ResearchPage - 1
    <3>1. first = c..u
      BY <1>0, <2>1, <2>3
    <3> QED BY <1>0, <3>1
  <2>4. c + ResearchPage - 1 <= u \/ u < c + ResearchPage - 1
    BY <1>0
  <2> QED BY <2>2, <2>3, <2>4, Zenon
<1> QED BY <1>3, <1>4

(* An answer holds no time twice, and none before the cursor. *)
LEMMA AnswerIsNew ==
    ASSUME CollectInv, dataset > 0,
           NEW answer, answer = Collectors!Answer
    PROVE  /\ answer \subseteq Collectors!Rows
           /\ Once(answer)
           /\ \A r \in answer : cursor <= r.t /\ r.t <= LastHour
<1>0. hour \in 1..LastHour /\ until \in 0..hour /\ LastHour \in Nat /\ cursor \in Int
  BY CollectAssumption DEF CollectInv
<1> DEFINE all == {t \in cursor..until : t >= 1}
           first == {t \in all : Kind[Collectors!dataset] = "daily"
                          \/ Collectors!Cardinality({u \in all : u < t}) < ResearchPage}
           row(t) == [t |-> t, open |-> t = hour /\ Kind[Collectors!dataset] \in {"candles", "daily"}]
<1>1. answer = {row(t) : t \in first}
  BY DEF Collectors!Answer
<1>2. first \subseteq all
  OBVIOUS
<1> HIDE DEF first
<1>3. \A t \in all : /\ t \in 1..LastHour /\ cursor <= t
                     /\ row(t) \in Collectors!Rows /\ row(t).t = t
  <2> SUFFICES ASSUME NEW t \in all
               PROVE  /\ t \in 1..LastHour /\ cursor <= t
                      /\ row(t) \in Collectors!Rows /\ row(t).t = t
    OBVIOUS
  <2>1. t \in 1..LastHour /\ cursor <= t
    BY <1>0
  <2>2. (t = hour /\ Kind[Collectors!dataset] \in {"candles", "daily"}) \in BOOLEAN
    BY Zenon
  <2> QED BY <2>1, <2>2 DEF Collectors!Rows
<1> HIDE DEF all, row
<1>4. \A r \in answer : \E t \in all : r = row(t)
  BY <1>1, <1>2
<1>5. \A r \in answer : r \in Collectors!Rows /\ cursor <= r.t /\ r.t <= LastHour /\ r = row(r.t)
  <2> SUFFICES ASSUME NEW r \in answer
               PROVE  r \in Collectors!Rows /\ cursor <= r.t /\ r.t <= LastHour /\ r = row(r.t)
    OBVIOUS
  <2>1. PICK t \in all : r = row(t)
    BY <1>4
  <2>2. r.t = t /\ t \in 1..LastHour /\ cursor <= t /\ r \in Collectors!Rows
    BY <1>3, <2>1, Zenon
  <2>3. r = row(r.t)
    BY <2>1, <2>2, Zenon
  <2>4. cursor <= r.t /\ r.t <= LastHour
    <3>1. t <= LastHour
      BY <1>0, <2>2
    <3> QED BY <2>2, <3>1, Zenon
  <2> QED BY <2>2, <2>3, <2>4, Zenon
<1>6. Once(answer)
  BY <1>5, Zenon DEF Once
<1> QED BY <1>5, <1>6

(* But for the recent kinds an answer is the interval from the cursor on.  *)
LEMMA AnswerIsInterval ==
    ASSUME CollectInv, dataset > 0, Kind[Collectors!dataset] # "recent",
           NEW c \in Nat \ {0}, cursor = c, c <= until
    PROVE  \E l \in c..until : Collectors!Times(Collectors!Answer) = c..l
<1> DEFINE all == {t \in c..until : t >= 1}
           daily == Kind[Collectors!dataset] = "daily"
           first == {t \in all : daily \/ Collectors!Cardinality({u \in all : u < t}) < ResearchPage}
           row(t) == [t |-> t, open |-> t = hour /\ Kind[Collectors!dataset] \in {"candles", "daily"}]
<1>1. Collectors!Answer = {row(t) : t \in first}
  BY DEF Collectors!Answer
<1>2. \E l \in c..until : first = c..l
  <2>1. PICK u \in 0..LastHour : u = until
    BY CollectAssumption DEF CollectInv
  <2>2. PICK whole \in BOOLEAN : whole = daily
    BY Zenon
  <2>3. \E l \in c..u : FirstPage({t \in c..u : t >= 1}, whole) = c..l
    BY <2>1, RowsFollow
  <2>4. first = FirstPage({t \in c..u : t >= 1}, whole)
    BY <2>1, <2>2, Zenon DEF FirstPage
  <2> QED BY <2>1, <2>3, <2>4, Zenon
<1>3. \A t : row(t).t = t
  OBVIOUS
<1> HIDE DEF first, row
<1>4. Collectors!Times(Collectors!Answer) = first
  BY <1>1, <1>3 DEF Collectors!Times
<1> QED BY <1>2, <1>4

LEMMA FetchKeeps == CollectInv /\ Collectors!Fetch => CollectInv'
<1> SUFFICES ASSUME CollectInv, Collectors!Fetch PROVE CollectInv'
  OBVIOUS
<1> DEFINE d == Collectors!dataset
<1>1. PICK answer : answer = Collectors!Answer
  OBVIOUS
<1>2. PICK last : last = Collectors!Max(Collectors!Times(answer))
  OBVIOUS
<1>3. /\ dataset > 0 /\ leg = "fetch" /\ d \in Collectors!Datasets
      /\ UNCHANGED <<hour, file, dataset, until>>
      /\ \/ /\ leg' = "save" /\ UNCHANGED <<cursor, got>>
         \/ /\ cursor <= until /\ answer # {}
            /\ got' = got \cup answer /\ cursor' = last + 1 /\ leg' \in {"fetch", "save"}
  <2>1. cursor \in Int /\ until \in Int
    BY CollectAssumption DEF CollectInv
  <2> QED BY <1>1, <1>2, <2>1, InTurn DEF Collectors!Fetch
<1>4. /\ d' = d
      /\ \A e \in Collectors!Datasets : Collectors!Readable(e)' => Filed(e, file[e])'
      /\ Collectors!Stored(d)' = Collectors!Stored(d)
  BY <1>3 DEF CollectInv, Collectors!dataset, Collectors!Readable, Collectors!Stored, Filed
<1>5. CASE leg' = "save" /\ UNCHANGED <<cursor, got>>
  <2>1. Kind[d] # "recent" => Fetched(d)'
    BY <1>3, <1>4, <1>5 DEF CollectInv, Fetched
  <2> QED BY <1>3, <1>4, <1>5, <2>1 DEF CollectInv, Once
<1>6. CASE /\ cursor <= until /\ answer # {}
           /\ got' = got \cup answer /\ cursor' = last + 1 /\ leg' \in {"fetch", "save"}
  <2>0. /\ cursor \in Int /\ cursor <= LastHour + 1 /\ RecentRows \in Nat /\ LastHour \in Nat
        /\ 0 - RecentRows <= cursor
        /\ got \subseteq Collectors!Rows /\ Once(got) /\ \A r \in got : r.t < cursor
        /\ until \in 0..LastHour
    BY CollectAssumption DEF CollectInv
  <2>1. /\ answer \subseteq Collectors!Rows /\ Once(answer)
        /\ \A r \in answer : cursor <= r.t /\ r.t <= LastHour
    BY <1>1, <1>3, AnswerIsNew
  <2>2. last \in Collectors!Times(answer) /\ \A t \in Collectors!Times(answer) : t <= last
    <3>1. Collectors!Times(answer) \subseteq 1..LastHour
      BY <2>1 DEF Collectors!Times, Collectors!Rows
    <3>2. Collectors!Times(answer) # {}
      BY <1>6 DEF Collectors!Times
    <3>3. PICK T : T = Collectors!Times(answer)
      OBVIOUS
    <3>4. Collectors!Max(T) \in T /\ \A y \in T : y <= Collectors!Max(T)
      BY <2>0, <3>1, <3>2, <3>3, GreatestOf
    <3> QED BY <1>2, <3>3, <3>4, Zenon
  <2>3. last \in 1..LastHour /\ cursor <= last /\ \A r \in answer : r.t <= last /\ r.t \in Nat
    <3>1. PICK r \in answer : last = r.t
      BY <2>2 DEF Collectors!Times
    <3>2. last \in 1..LastHour /\ cursor <= last
      BY <2>1, <3>1 DEF Collectors!Rows
    <3>3. \A q \in answer : q.t \in 1..LastHour /\ q.t <= last
      BY <2>1, <2>2 DEF Collectors!Times, Collectors!Rows
    <3> QED BY <3>2, <3>3
  <2>4. PICK n \in Int : n = cursor'
    BY <1>6, <2>3
  <2>5. n \in (-RecentRows)..(LastHour + 1) /\ cursor < n /\ n = last + 1
    BY <1>6, <2>0, <2>3, <2>4
  <2>6. \A r \in got \cup answer : r.t < n
    <3>1. \A r \in got : r.t < n
      <4>1. SUFFICES ASSUME NEW r \in got PROVE r.t < n
        OBVIOUS
      <4>2. r.t \in Nat /\ r.t < cursor
        BY <2>0 DEF Collectors!Rows
      <4> QED BY <2>0, <2>5, <4>2
    <3>2. \A r \in answer : r.t < n
      <4>1. SUFFICES ASSUME NEW r \in answer PROVE r.t < n
        OBVIOUS
      <4> QED BY <2>3, <2>5
    <3> QED BY <3>1, <3>2
  <2>7. Once(got \cup answer)
    <3>1. \A r \in got, s \in answer : r.t # s.t
      <4>1. SUFFICES ASSUME NEW r \in got, NEW s \in answer, r.t = s.t PROVE FALSE
        OBVIOUS
      <4>2. r.t \in Nat /\ s.t \in Nat /\ r.t < cursor /\ cursor <= s.t
        BY <2>0, <2>1 DEF Collectors!Rows
      <4> QED BY <2>0, <4>1, <4>2
    <3> QED BY <2>0, <2>1, <3>1, Zenon DEF Once
  <2>8. ASSUME Kind[d] # "recent" PROVE Fetched(d)'
    <3>1. PICK k \in 0..LastHour :
             /\ Collectors!Stored(d) = 1..k /\ k + 1 <= cursor
             /\ Collectors!Times(got) = (k + 1)..(cursor - 1)
      BY <1>3, <2>8 DEF CollectInv, Fetched
    <3>2. PICK c \in Nat \ {0} : c = cursor
      BY <2>0, <3>1
    <3>3. c <= until
      BY <1>6, <3>2
    <3>4. PICK l \in c..until : Collectors!Times(answer) = c..l
      BY <1>1, <1>3, <2>8, <3>2, <3>3, AnswerIsInterval
    <3>5. last = l
      <4>1. last \in c..l /\ \A t \in c..l : t <= last
        BY <2>2, <3>4, Zenon
      <4>2. c \in Int /\ l \in Int /\ c <= l
        BY <2>0
      <4> QED BY <4>1, <4>2
    <3>6. Collectors!Times(got \cup answer) = Collectors!Times(got) \cup Collectors!Times(answer)
      BY DEF Collectors!Times
    <3>7. Collectors!Times(got \cup answer) = (k + 1)..(n - 1)
      <4>1. Collectors!Times(got) = (k + 1)..(c - 1)
        BY <3>1, <3>2, Zenon
      <4>2. n = l + 1
        BY <2>5, <3>5, Zenon
      <4>3. c \in Int /\ l \in Int /\ c <= l /\ k \in Int
        BY <2>0
      <4>4. k + 1 <= c
        BY <3>1, <3>2, Zenon
      <4>5. ((k + 1)..(c - 1)) \cup (c..l) = (k + 1)..(n - 1)
        BY <4>2, <4>3, <4>4
      <4> QED BY <3>4, <3>6, <4>1, <4>5, Zenon
    <3>8. k + 1 <= n
      BY <2>0, <2>5, <3>1, <3>2
    <3>9. file[d]' # Torn
      BY <1>3, <1>4, <2>8 DEF CollectInv, Fetched
    <3>10. Collectors!Times(got') = (k + 1)..(cursor' - 1) /\ k + 1 <= cursor'
      BY <1>6, <2>4, <3>7, <3>8
    <3> QED BY <1>4, <3>1, <3>9, <3>10 DEF Fetched
  <2>9. cursor' \in (-RecentRows)..(LastHour + 1) /\ \A r \in got' : r.t < cursor'
    BY <1>6, <2>4, <2>5, <2>6, Zenon
  <2>10. got' \subseteq Collectors!Rows /\ Once(got')
    BY <1>6, <2>0, <2>1, <2>7, Zenon
  <2> QED BY <1>3, <1>4, <1>6, <2>8, <2>9, <2>10 DEF CollectInv
<1> QED BY <1>3, <1>5, <1>6

LEMMA FetchFailsKeeps == CollectInv /\ Collectors!FetchFails => CollectInv'
<1> SUFFICES ASSUME CollectInv, Collectors!FetchFails PROVE CollectInv'
  OBVIOUS
<1>1. /\ dataset > 0 /\ leg = "fetch" /\ leg' = "save"
      /\ UNCHANGED <<hour, file, dataset, cursor, until, got>>
  BY DEF Collectors!FetchFails
<1>2. Fetched(Collectors!dataset) => Fetched(Collectors!dataset)'
  BY <1>1 DEF Fetched, Collectors!dataset, Collectors!Stored, Collectors!Readable
<1>3. Collectors!dataset' = Collectors!dataset
  BY <1>1 DEF Collectors!dataset
<1>4. \A d \in Collectors!Datasets : Collectors!Readable(d)' => Filed(d, file[d])'
  BY <1>1 DEF CollectInv, Collectors!Readable, Filed
<1> QED BY <1>1, <1>2, <1>3, <1>4 DEF CollectInv

(* The saved rows are those of the file and, of two at one time, the new.  *)
LEMMA MergedIsFiled ==
    ASSUME CollectInv, dataset > 0, leg = "save", got # {},
           NEW d, d = Collectors!dataset, file[d] # Torn
    PROVE  Filed(d, Collectors!Merged(d))
<1> DEFINE merged == Collectors!Merged(d)
<1>0. /\ d \in Collectors!Datasets /\ got \subseteq Collectors!Rows /\ Once(got)
      /\ Collectors!Readable(d) => file[d] \subseteq Collectors!Rows /\ Once(file[d])
      /\ LastHour \in Nat
  BY CollectAssumption, InTurn DEF CollectInv, Filed
<1>1. merged \subseteq Collectors!Rows
  BY <1>0 DEF Collectors!Merged
<1>2. Once(merged)
  <2>1. CASE Collectors!Readable(d)
    <3>1. merged = {r \in file[d] : r.t \notin Collectors!Times(got)} \cup got
      BY <2>1 DEF Collectors!Merged
    <3>2. \A r \in file[d], s \in got : r.t \notin Collectors!Times(got) => r.t # s.t
      BY DEF Collectors!Times
    <3> QED BY <1>0, <2>1, <3>1, <3>2 DEF Once
  <2>2. CASE ~Collectors!Readable(d)
    BY <1>0, <2>2 DEF Collectors!Merged
  <2> QED BY <2>1, <2>2
<1>3. Collectors!Times(merged) = Collectors!Stored(d) \cup Collectors!Times(got)
  <2>1. CASE Collectors!Readable(d)
    <3>1. merged = {r \in file[d] : r.t \notin Collectors!Times(got)} \cup got
      BY <2>1 DEF Collectors!Merged
    <3> QED BY <2>1, <3>1 DEF Collectors!Times, Collectors!Stored
  <2>2. CASE ~Collectors!Readable(d)
    BY <2>2 DEF Collectors!Merged, Collectors!Times, Collectors!Stored
  <2> QED BY <2>1, <2>2
<1>4. ASSUME Kind[d] # "recent"
      PROVE  \E n \in 1..LastHour : Collectors!Times(merged) = 1..n
  <2>1. PICK k \in 0..LastHour :
           /\ Collectors!Stored(d) = 1..k /\ k + 1 <= cursor
           /\ Collectors!Times(got) = (k + 1)..(cursor - 1)
    BY <1>4 DEF CollectInv, Fetched
  <2>2. PICK n \in Int : n = cursor - 1
    BY CollectAssumption DEF CollectInv
  <2>3. cursor = n + 1 /\ k <= n /\ n <= LastHour
    <3>1. cursor \in Int /\ cursor <= LastHour + 1
      BY CollectAssumption DEF CollectInv
    <3> QED BY <1>0, <2>1, <2>2, <3>1
  <2>4. PICK r \in got : TRUE
    OBVIOUS
  <2>5. n \in (k + 1)..n
    <3>1. r.t \in (k + 1)..n
      BY <2>1, <2>2, <2>4 DEF Collectors!Times
    <3>2. k \in Int
      BY <1>0
    <3> QED BY <2>2, <3>1, <3>2
  <2>6. n \in 1..LastHour
    BY <1>0, <2>3, <2>5
  <2>7. (1..k) \cup ((k + 1)..n) = 1..n
    BY <1>0, <2>3, <2>5
  <2> QED BY <1>3, <2>1, <2>2, <2>6, <2>7, Zenon
<1> QED BY <1>1, <1>2, <1>4 DEF Filed

LEMMA SaveKeeps == CollectInv /\ Collectors!Save => CollectInv'
<1> SUFFICES ASSUME CollectInv, Collectors!Save PROVE CollectInv'
  OBVIOUS
<1> DEFINE d == Collectors!dataset
<1>1. /\ dataset > 0 /\ leg = "save" /\ hour' = hour
      /\ dataset \in 0..Len(DatasetOrder) /\ Len(DatasetOrder) \in Nat
      /\ d \in Collectors!Datasets /\ DOMAIN file = Collectors!Datasets
  BY CollectAssumption, InTurn, LenProperties DEF Collectors!Save, CollectInv
<1>2. /\ dataset' \in 0..Len(DatasetOrder)
      /\ leg' = "start" /\ cursor' = 0 /\ until' = 0 /\ got' = {}
  BY <1>1 DEF Collectors!Save, Collectors!NextDataset
<1>3. CASE got = {} \/ file[d] = Torn
  <2>1. file' = file
    BY <1>3 DEF Collectors!Save
  <2>2. /\ DOMAIN file' = Collectors!Datasets
        /\ \A e \in Collectors!Datasets : Collectors!Readable(e)' => Filed(e, file'[e])
    BY <1>1, <2>1 DEF CollectInv, Collectors!Readable
  <2> QED BY <1>1, <1>2, <2>2, TurnBegins
<1>4. CASE ~(got = {} \/ file[d] = Torn)
  <2>1. PICK rs : rs = Collectors!Merged(d)
    OBVIOUS
  <2>2. file' = [file EXCEPT ![d] = rs]
    BY <1>4, <2>1 DEF Collectors!Save
  <2>3. Filed(d, rs)
    BY <1>1, <1>4, <2>1, MergedIsFiled
  <2>4. ASSUME NEW e \in Collectors!Datasets, Collectors!Readable(e)'
        PROVE  Filed(e, file'[e])
    <3>1. CASE e = d
      BY <1>1, <2>2, <2>3, <3>1
    <3>2. CASE e # d
      <4>1. file'[e] = file[e]
        BY <1>1, <2>2, <2>4, <3>2
      <4>2. Collectors!Readable(e)
        BY <2>4, <4>1 DEF Collectors!Readable
      <4> QED BY <2>4, <4>1, <4>2 DEF CollectInv
    <3> QED BY <3>1, <3>2
  <2>5. DOMAIN file' = Collectors!Datasets
    BY <1>1, <2>2
  <2> QED BY <1>1, <1>2, <2>4, <2>5, TurnBegins
<1> QED BY <1>3, <1>4

LEMMA CrashKeeps == CollectInv /\ Collectors!Crash => CollectInv'
<1> SUFFICES ASSUME CollectInv, Collectors!Crash PROVE CollectInv'
  OBVIOUS
<1>1. /\ hour' = hour /\ dataset' = 0 /\ DOMAIN file = Collectors!Datasets
      /\ leg' = "start" /\ cursor' = 0 /\ until' = 0 /\ got' = {}
      /\ file' = file \/ file' = [file EXCEPT ![Collectors!dataset] = Torn]
  BY DEF Collectors!Crash, CollectInv
<1>2. 0 \in 0..Len(DatasetOrder) /\ dataset' \in 0..Len(DatasetOrder)
  BY <1>1, CollectAssumption, LenProperties
<1>3. DOMAIN file' = Collectors!Datasets
  BY <1>1
<1>4. ASSUME NEW e \in Collectors!Datasets, Collectors!Readable(e)'
      PROVE  Filed(e, file'[e])
  <2>1. file'[e] # Torn
    BY <1>4 DEF Collectors!Readable
  <2>2. file'[e] = file[e]
    BY <1>1, <2>1
  <2>3. Collectors!Readable(e)
    BY <1>4, <2>2 DEF Collectors!Readable
  <2> QED BY <1>4, <2>2, <2>3 DEF CollectInv
<1> QED BY <1>1, <1>2, <1>3, <1>4, TurnBegins

LEMMA CollectStep == CollectInv /\ [Collectors!Next]_Collectors!vars => CollectInv'
<1>1. CollectInv /\ UNCHANGED Collectors!vars => CollectInv'
  <2> SUFFICES ASSUME CollectInv, UNCHANGED Collectors!vars PROVE CollectInv'
    OBVIOUS
  <2>1. UNCHANGED <<hour, file, dataset, leg, cursor, until, got>>
    BY DEF Collectors!vars, Collectors!job
  <2>2. Fetched(Collectors!dataset) => Fetched(Collectors!dataset)'
    BY <2>1 DEF Fetched, Collectors!dataset, Collectors!Stored, Collectors!Readable
  <2>3. Collectors!dataset' = Collectors!dataset
    BY <2>1 DEF Collectors!dataset
  <2>4. \A d \in Collectors!Datasets : Collectors!Readable(d)' => Filed(d, file[d])'
    BY <2>1 DEF CollectInv, Collectors!Readable, Filed
  <2> QED BY <2>1, <2>2, <2>3, <2>4 DEF CollectInv
<1> QED BY <1>1, TickKeeps, CollectKeeps, StartKeeps, FetchKeeps, FetchFailsKeeps, SaveKeeps,
           CrashKeeps DEF Collectors!Next

(* However often a collection is cut short, killed or torn, what a file    *)
(* that can be read holds has no time twice, and but for the recent kinds  *)
(* no gap, for any datasets and lengths of the pages (collectors'          *)
(* resumption and parquet_store.py:85-124).                                *)
THEOREM StoreIsWholeHolds == Collectors!Spec => []Collectors!StoreIsWhole
<1>1. CollectInv => Collectors!StoreIsWhole
  <2> SUFFICES ASSUME CollectInv, NEW d \in Collectors!Datasets, Collectors!Readable(d)
               PROVE  /\ Collectors!Cardinality(file[d])
                            = Collectors!Cardinality(Collectors!Stored(d))
                      /\ Kind[d] # "recent" =>
                            Collectors!Stored(d) = 1..Collectors!Max(Collectors!Stored(d))
    BY DEF Collectors!StoreIsWhole
  <2>1. Filed(d, file[d]) /\ Collectors!Stored(d) = Collectors!Times(file[d])
    BY DEF CollectInv, Collectors!Stored
  <2>2. PICK rs : rs = file[d]
    OBVIOUS
  <2>3. IsFiniteSet(Collectors!Times(rs))
    <3>1. Collectors!Times(rs) \subseteq 1..LastHour
      BY <2>1, <2>2 DEF Filed, Collectors!Rows, Collectors!Times
    <3>2. IsFiniteSet(1..LastHour)
      BY CollectAssumption, FS_Interval
    <3> QED BY <3>1, <3>2, FS_Subset
  <2>4. Cardinality(rs) = Cardinality(Collectors!Times(rs))
    BY <2>1, <2>2, <2>3, OnceCounts DEF Filed
  <2>5. \A S : Collectors!Cardinality(S) = Cardinality(S)
    BY DEF Cardinality, Collectors!Cardinality
  <2>6. ASSUME Kind[d] # "recent"
        PROVE  Collectors!Stored(d) = 1..Collectors!Max(Collectors!Stored(d))
    <3>1. PICK n \in 1..LastHour : Collectors!Stored(d) = 1..n
      BY <2>1, <2>6 DEF Filed
    <3>2. n \in Nat /\ n \in 1..n /\ 1..n # {}
      <4>1. n \in Nat \ {0}
        BY CollectAssumption
      <4>2. n \in 1..n
        BY <4>1
      <4> QED BY <4>1, <4>2
    <3>3. Collectors!Max(1..n) \in 1..n /\ n <= Collectors!Max(1..n)
      BY <3>2, GreatestOf
    <3>4. Collectors!Max(1..n) = n
      BY <3>2, <3>3
    <3> QED BY <3>1, <3>4, Zenon
  <2> QED BY <2>1, <2>2, <2>4, <2>5, <2>6, Zenon
<1> QED BY <1>1, CollectStart, CollectStep, PTL DEF Collectors!Spec

(* Every variable of the collectors keeps its type.                        *)
THEOREM CollectTypeOK == Collectors!Spec => []Collectors!TypeOK
<1>1. CollectInv => Collectors!TypeOK
  <2> SUFFICES ASSUME CollectInv PROVE Collectors!TypeOK
    OBVIOUS
  <2>1. \A d \in Collectors!Datasets : file[d] \in {NoRow, Torn} \/ file[d] \subseteq Collectors!Rows
    BY DEF CollectInv, Collectors!Readable, Filed
  <2>2. until \in 0..LastHour
    BY CollectAssumption DEF CollectInv
  <2> QED BY <2>1, <2>2 DEF CollectInv, Collectors!TypeOK
<1> QED BY <1>1, CollectStart, CollectStep, PTL DEF Collectors!Spec
-----------------------------------------------------------------------------
(***************************************************************************)
(* The histories of the replay tools.  While an interval is fetched, what  *)
(* there is of it is the candles before the next start, and of those whose *)
(* turn has not come there is nothing.                                     *)
(***************************************************************************)
CountTo(n) == [k \in 1..n |-> k]
Run(s, m) == [k \in 1..m |-> s + k - 1]

LEMMA CountSeq ==
    ASSUME NEW n \in Nat
    PROVE  /\ CountTo(n) \in Seq(Nat)
           /\ Len(CountTo(n)) = n
           /\ \A k \in 1..n : CountTo(n)[k] = k
<1>1. CountTo(n) \in [1..n -> Nat]
  BY DEF CountTo
<1>2. CountTo(n) \in Seq(Nat)
  BY <1>1, SeqDef
<1>3. Len(CountTo(n)) = n
  BY <1>1, <1>2, LenProperties
<1> QED BY <1>2, <1>3 DEF CountTo

LEMMA RunSeq ==
    ASSUME NEW s \in Nat \ {0}, NEW m \in Nat
    PROVE  /\ Run(s, m) \in Seq(Nat)
           /\ Len(Run(s, m)) = m
           /\ \A k \in 1..m : Run(s, m)[k] = s + k - 1
<1>1. Run(s, m) \in [1..m -> Nat]
  BY DEF Run
<1>2. Run(s, m) \in Seq(Nat)
  BY <1>1, SeqDef
<1>3. Len(Run(s, m)) = m
  BY <1>1, <1>2, LenProperties
<1> QED BY <1>2, <1>3 DEF Run

(* A run that begins where the count ends goes on counting. *)
LEMMA RunJoins ==
    ASSUME NEW n \in Nat, NEW m \in Nat
    PROVE  CountTo(n) \o Run(n + 1, m) = CountTo(n + m)
<1>1. PICK c : c = CountTo(n)
  OBVIOUS
<1>2. PICK r : r = Run(n + 1, m)
  OBVIOUS
<1>3. c \in Seq(Nat) /\ Len(c) = n /\ \A k \in 1..n : c[k] = k
  BY <1>1, CountSeq
<1>4. r \in Seq(Nat) /\ Len(r) = m /\ \A k \in 1..m : r[k] = n + k
  <2>1. n + 1 \in Nat \ {0}
    OBVIOUS
  <2>2. \A k \in 1..m : r[k] = n + 1 + k - 1
    BY <1>2, <2>1, RunSeq
  <2>3. \A k \in 1..m : n + 1 + k - 1 = n + k
    OBVIOUS
  <2> QED BY <1>2, <2>1, <2>2, <2>3, RunSeq
<1>5. PICK j : j = c \o r
  OBVIOUS
<1>6. /\ j \in Seq(Nat) /\ Len(j) = n + m
      /\ \A k \in 1..(n + m) : j[k] = IF k <= n THEN c[k] ELSE r[k - n]
  BY <1>3, <1>4, <1>5, ConcatProperties
<1>7. \A k \in 1..(n + m) : j[k] = k
  <2> SUFFICES ASSUME NEW k \in 1..(n + m) PROVE j[k] = k
    OBVIOUS
  <2>1. CASE k <= n
    BY <1>3, <1>6, <2>1
  <2>2. CASE k > n
    <3>1. k - n \in 1..m /\ n + (k - n) = k
      BY <2>2
    <3> QED BY <1>4, <1>6, <2>2, <3>1
  <2> QED BY <2>1, <2>2
<1>8. j = [k \in 1..(n + m) |-> j[k]]
  BY <1>6, LenProperties
<1>9. j = CountTo(n + m)
  BY <1>7, <1>8 DEF CountTo
<1> QED BY <1>1, <1>2, <1>5, <1>9

LEMMA UpTo ==
    ASSUME NEW n \in Int, n >= 0
    PROVE  Scripted!Cardinality(1..n) = n
<1>1. Cardinality(1..n) = IF 1 > n THEN 0 ELSE n - 1 + 1
  BY FS_Interval
<1>2. Cardinality(1..n) = n
  BY <1>1
<1> QED BY <1>2 DEF Cardinality, Scripted!Cardinality

(* What counts is in order already. *)
LEMMA CountedIsOrdered ==
    ASSUME NEW n \in Nat
    PROVE  Scripted!Ordered(CountTo(n)) = CountTo(n)
<1>1. PICK S : S = Scripted!Range(CountTo(n))
  OBVIOUS
<1>2. PICK c : c = Scripted!Cardinality(S)
  OBVIOUS
<1> DEFINE place(x) == Scripted!Cardinality({y \in S : y <= x})
           it(k) == CHOOSE x \in S : place(x) = k
<1>3. Scripted!Ordered(CountTo(n)) = [k \in 1..c |-> it(k)]
  BY <1>1, <1>2 DEF Scripted!Ordered
<1>4. S = 1..n
  <2>1. DOMAIN CountTo(n) = 1..n /\ \A k \in 1..n : CountTo(n)[k] = k
    BY DEF CountTo
  <2> QED BY <1>1, <2>1 DEF Scripted!Range
<1>5. c = n
  BY <1>2, <1>4, UpTo
<1>6. \A x \in S : place(x) = x
  <2> SUFFICES ASSUME NEW x \in S PROVE place(x) = x
    OBVIOUS
  <2>1. {y \in S : y <= x} = 1..x
    BY <1>4
  <2>2. x \in Int /\ x >= 0
    BY <1>4
  <2> QED BY <2>1, <2>2, UpTo
<1> HIDE DEF place
<1>7. \A k \in S : it(k) = k
  BY <1>6
<1> HIDE DEF it
<1> QED BY <1>3, <1>4, <1>5, <1>7 DEF CountTo

(* Of a page that begins within the period, the candles up to its end. *)
LEMMA WithinRun ==
    ASSUME NEW i \in DOMAIN Ends, NEW s \in Nat \ {0}, NEW m \in Nat, s <= Ends[i] + 1
    PROVE  \E q \in 0..m :
              /\ Scripted!Within(i, Run(s, m)) = Run(s, q)
              /\ q = m \/ s + q - 1 = Ends[i]
              /\ s + q - 1 <= Ends[i]
<1>1. PICK e \in Nat : e = Ends[i]
  BY ScriptAssumption
<1>2. PICK r : r = Run(s, m)
  OBVIOUS
<1>3. /\ r \in Seq(Nat) /\ Len(r) = m /\ DOMAIN r = 1..m
      /\ \A k \in 1..m : r[k] = s + k - 1
  BY <1>2, RunSeq, LenProperties
<1>4. PICK q \in 0..m : (q = m \/ s + q - 1 = e) /\ s + q - 1 <= e
  <2>1. CASE s + m - 1 <= e
    BY <2>1
  <2>2. CASE s + m - 1 > e
    <3>1. PICK q \in Int : q = e - s + 1
      OBVIOUS
    <3>2. q \in 0..m /\ s + q - 1 = e
      BY <1>1, <2>2, <3>1
    <3> QED BY <3>2
  <2> QED BY <1>1, <2>1, <2>2
<1>5. {k \in DOMAIN r : \A j \in 1..k : r[j] <= Ends[i]} = 1..q
  <2>1. ASSUME NEW k \in 1..m, \A j \in 1..k : r[j] <= e PROVE k \in 1..q
    <3>1. k \in 1..k
      OBVIOUS
    <3>2. s + k - 1 <= e
      BY <1>3, <2>1, <3>1
    <3> QED BY <1>1, <1>4, <3>2
  <2>2. ASSUME NEW k \in 1..q PROVE k \in 1..m /\ \A j \in 1..k : r[j] <= e
    <3>1. k \in 1..m
      BY <1>4
    <3>2. ASSUME NEW j \in 1..k PROVE r[j] <= e
      <4>1. j \in 1..m /\ j <= q
        BY <1>4
      <4>2. s + j - 1 <= e
        BY <1>1, <1>4, <4>1
      <4> QED BY <1>3, <4>1, <4>2
    <3> QED BY <3>1, <3>2
  <2> QED BY <1>1, <1>3, <2>1, <2>2
<1>6. Scripted!Within(i, r) = SubSeq(r, 1, q)
  <2>1. Scripted!Cardinality(1..q) = q
    BY <1>4, UpTo
  <2> QED BY <1>5, <2>1 DEF Scripted!Within
<1>7. SubSeq(r, 1, q) = Run(s, q)
  <2>1. \A k \in 1..q : k \in 1..m /\ k + 1 - 1 = k
    BY <1>4
  <2>2. PICK c : c = SubSeq(r, 1, q)
    OBVIOUS
  <2>3. /\ c \in Seq(Nat) /\ Len(c) = q
        /\ \A k \in 1..q : c[k] = r[1 + k - 1]
    BY <1>3, <1>4, <2>2, SubSeqProperties
  <2>4. \A k \in 1..q : c[k] = s + k - 1
    <3>1. \A k \in 1..q : 1 + k - 1 = k
      BY <1>4
    <3> QED BY <1>3, <2>1, <2>3, <3>1
  <2>5. c = [k \in 1..q |-> c[k]]
    BY <2>3, LenProperties
  <2> QED BY <2>2, <2>4, <2>5 DEF Run
<1> QED BY <1>1, <1>2, <1>4, <1>6, <1>7

LEMMA NothingCounted == CountTo(0) = <<>>
  BY CountSeq, EmptySeq

(* Each script asks for an interval once. *)
Distinct(s) == \A j, k \in 1..Len(s) : s[j] = s[k] => j = k

LEMMA TurnsDiffer ==
    ASSUME script \in Scripts
    PROVE  /\ Scripted!Intervals \in Seq(DOMAIN Ends)
           /\ Len(Scripted!Intervals) \in Nat \ {0}
           /\ Distinct(Scripted!Intervals)
<1> DEFINE T == DOMAIN Ends
<1>1. "1m" \in T /\ "5m" \in T /\ "15m" \in T /\ "4h" \in T /\ "1d" \in T
  BY ScriptAssumption
<1> HIDE DEF T
<1>2. /\ <<"1m", "5m", "15m", "4h">> \in Seq(T) /\ Len(<<"1m", "5m", "15m", "4h">>) = 4
      /\ Distinct(<<"1m", "5m", "15m", "4h">>)
  BY <1>1 DEF Distinct
<1>3. /\ <<"1m", "5m", "15m">> \in Seq(T) /\ Len(<<"1m", "5m", "15m">>) = 3
      /\ Distinct(<<"1m", "5m", "15m">>)
  BY <1>1 DEF Distinct
<1>4. /\ <<"15m", "4h">> \in Seq(T) /\ Len(<<"15m", "4h">>) = 2
      /\ Distinct(<<"15m", "4h">>)
  BY <1>1 DEF Distinct
<1>5. /\ <<"15m", "4h", "1d">> \in Seq(T) /\ Len(<<"15m", "4h", "1d">>) = 3
      /\ Distinct(<<"15m", "4h", "1d">>)
  BY <1>1 DEF Distinct
<1>6. /\ <<"5m", "15m", "1m">> \in Seq(T) /\ Len(<<"5m", "15m", "1m">>) = 3
      /\ Distinct(<<"5m", "15m", "1m">>)
  BY <1>1 DEF Distinct
<1>7. PICK s : s = Scripted!Intervals
  OBVIOUS
<1>8. \/ s = <<"1m", "5m", "15m", "4h">> \/ s = <<"1m", "5m", "15m">>
      \/ s = <<"15m", "4h">> \/ s = <<"15m", "4h", "1d">> \/ s = <<"5m", "15m", "1m">>
  BY <1>7, ScriptAssumption DEF Scripted!Intervals
<1>9. s \in Seq(T) /\ Distinct(s) /\ (Len(s) = 4 \/ Len(s) = 3 \/ Len(s) = 2)
  BY <1>2, <1>3, <1>4, <1>5, <1>6, <1>8, Zenon
<1>10. Len(s) \in Nat \ {0}
  <2>1. PICK l : l = Len(s)
    OBVIOUS
  <2>2. l = 4 \/ l = 3 \/ l = 2
    BY <1>9, <2>1, Zenon
  <2>3. l \in Nat \ {0}
    BY <2>2
  <2> QED BY <2>1, <2>3, Zenon
<1> QED BY <1>7, <1>9, <1>10, Zenon DEF T

InPeriod(i, n) == script = "runner" \/ n <= Ends[i]

Fetching(I) ==
    /\ from \in Nat \ {0} /\ from <= Ends[I[step]] + 1
    /\ fetched[I[step]] = CountTo(from - 1)
    /\ \A k \in 1..Len(I) : k > step => fetched[I[k]] = CountTo(0)

Complete(i) == \E n \in Nat : fetched[i] = CountTo(n) /\ n >= Ends[i]

ScriptInv ==
    /\ script \in Scripts
    /\ DOMAIN fetched = DOMAIN Ends
    /\ cuts \in Nat
    /\ step \in 1..Len(Scripted!Intervals)
    /\ part \in {"fetch", "replay", "done", "aborted"}
    /\ \A i \in DOMAIN Ends : \E n \in Nat : fetched[i] = CountTo(n) /\ InPeriod(i, n)
    /\ part = "fetch" => Fetching(Scripted!Intervals)
    /\ cuts = 0 =>
          \A k \in 1..Len(Scripted!Intervals) :
             k < step \/ part # "fetch" => Complete(Scripted!Intervals[k])

LEMMA ScriptStart == Scripted!Init => ScriptInv
<1> SUFFICES ASSUME Scripted!Init PROVE ScriptInv
  OBVIOUS
<1>1. /\ script \in Scripts /\ fetched = [i \in DOMAIN Ends |-> <<>>]
      /\ step = 1 /\ from = 1 /\ cuts = 0 /\ part = "fetch"
  BY DEF Scripted!Init
<1>2. PICK I : I = Scripted!Intervals
  OBVIOUS
<1>3. I \in Seq(DOMAIN Ends) /\ Len(I) \in Nat \ {0}
  BY <1>1, <1>2, TurnsDiffer
<1>4. \A k \in 1..Len(I) : I[k] \in DOMAIN Ends
  BY <1>3, ElementOfSeq
<1>5. \A i \in DOMAIN Ends : Ends[i] \in Nat /\ fetched[i] = CountTo(0)
  BY <1>1, ScriptAssumption, NothingCounted
<1>6. \A i \in DOMAIN Ends : \E n \in Nat : fetched[i] = CountTo(n) /\ InPeriod(i, n)
  BY <1>5 DEF InPeriod
<1>7. 1 \in 1..Len(I)
  BY <1>3
<1>8. Fetching(I)
  BY <1>1, <1>4, <1>5, <1>7 DEF Fetching
<1>9. \A k \in 1..Len(I) : ~(k < step)
  BY <1>1
<1> QED BY <1>1, <1>2, <1>6, <1>7, <1>8, <1>9 DEF ScriptInv

(* An interval is left with what there is of it; it is all of it, unless   *)
(* an answer was none.                                                     *)
LEMMA IntervalEnds ==
    ASSUME ScriptInv, part = "fetch", script' = script,
           NEW I, I = Scripted!Intervals,
           NEW data, DOMAIN data = DOMAIN Ends, Scripted!NextInterval(data),
           NEW n \in Nat, data[I[step]] = CountTo(n), InPeriod(I[step], n),
           \A i \in DOMAIN Ends : i # I[step] => data[i] = fetched[i],
           cuts' \in Nat, cuts' = 0 => cuts = 0 /\ n >= Ends[I[step]]
    PROVE  ScriptInv'
<1>0. /\ script \in Scripts /\ step \in 1..Len(I) /\ I \in Seq(DOMAIN Ends)
      /\ Len(I) \in Nat \ {0} /\ Distinct(I)
  BY TurnsDiffer DEF ScriptInv
<1>1. Scripted!Intervals' = I
  BY Zenon DEF Scripted!Intervals
<1>2. \A k \in 1..Len(I) : I[k] \in DOMAIN Ends /\ Ends[I[k]] \in Nat
  BY <1>0, ElementOfSeq, ScriptAssumption
<1>3. /\ fetched' = data /\ from' = 1
      /\ \/ step < Len(I) /\ step' = step + 1 /\ part' = "fetch"
         \/ step = Len(I) /\ step' = step /\ part' \in {"aborted", "replay"}
  <2>1. step < Len(I) \/ (~(step < Len(I)) /\ step = Len(I))
    BY <1>0
  <2> QED BY <2>1 DEF Scripted!NextInterval
<1>4. step' \in 1..Len(I) /\ step <= step'
  BY <1>0, <1>3
<1>5. ASSUME NEW i \in DOMAIN Ends
      PROVE  \E m \in Nat : data[i] = CountTo(m) /\ InPeriod(i, m)'
  <2>1. CASE i = I[step]
    BY <2>1 DEF InPeriod
  <2>2. CASE i # I[step]
    BY <2>2 DEF ScriptInv, InPeriod
  <2> QED BY <2>1, <2>2
<1>6. \A k \in 1..Len(I) : k # step => I[k] # I[step] /\ data[I[k]] = fetched[I[k]]
  BY <1>0, <1>2 DEF Distinct
<1>7. \A k \in 1..Len(I) : k > step => data[I[k]] = CountTo(0)
  <2> SUFFICES ASSUME NEW k \in 1..Len(I), k > step PROVE data[I[k]] = CountTo(0)
    OBVIOUS
  <2>1. k # step
    BY <1>0
  <2> QED BY <1>6, <2>1 DEF ScriptInv, Fetching
<1>8. ASSUME part' = "fetch" PROVE Fetching(I)'
  <2>1. step' = step + 1 /\ from' = 1
    BY <1>3, <1>8
  <2>2. step' > step
    BY <1>0, <2>1
  <2>3. fetched'[I[step']] = CountTo(0)
    BY <1>3, <1>4, <1>7, <2>2, Zenon
  <2>4. 1 <= Ends[I[step']] + 1
    BY <1>2, <1>4
  <2>5. \A k \in 1..Len(I) : k > step' => k > step
    BY <1>0, <2>1
  <2>6. 1 \in Nat \ {0} /\ 1 - 1 = 0
    OBVIOUS
  <2> QED BY <1>3, <1>7, <2>1, <2>3, <2>4, <2>5, <2>6 DEF Fetching
<1>9. ASSUME cuts' = 0, NEW k \in 1..Len(I), k < step' \/ part' # "fetch"
      PROVE  Complete(I[k])'
  <2>1. cuts = 0 /\ n >= Ends[I[step]]
    BY <1>9
  <2>2. k <= step
    BY <1>0, <1>3, <1>9
  <2>3. CASE k = step
    BY <1>3, <2>1, <2>3 DEF Complete
  <2>4. CASE k < step
    <3>1. Complete(I[k])
      BY <2>1, <2>4 DEF ScriptInv
    <3>2. k # step
      BY <1>0, <2>4
    <3>3. fetched'[I[k]] = fetched[I[k]]
      BY <1>3, <1>6, <3>2
    <3> QED BY <3>1, <3>3 DEF Complete
  <2> QED BY <1>0, <2>2, <2>3, <2>4
<1>10. part' \in {"fetch", "replay", "done", "aborted"}
  BY <1>3
<1> QED BY <1>0, <1>1, <1>3, <1>4, <1>5, <1>8, <1>9, <1>10 DEF ScriptInv

(* A page is a run of candles from its start, and it is the last if it     *)
(* reaches the end of the period or of what the exchange has.              *)
LEMMA PageIsRun ==
    ASSUME NEW i \in DOMAIN Ends, NEW s \in Nat \ {0}, s <= Ends[i] + 1
    PROVE  \E m \in 0..ScriptPage :
              /\ Scripted!Klines(i, s) = Run(s, m)
              /\ Scripted!LastPage(i, Run(s, m)) => s + m - 1 >= Ends[i]
              /\ ~Scripted!LastPage(i, Run(s, m)) =>
                    /\ m > 0 /\ s + m <= Ends[i]
                    /\ Scripted!NextStart(Run(s, m)) = s + m
<1>1. PICK e \in Nat : e = Ends[i]
  BY ScriptAssumption
<1>2. ScriptPage \in Nat \ {0} /\ Beyond \in Nat
  BY ScriptAssumption
<1>3. PICK last \in Nat : last = Scripted!Smaller(s + ScriptPage - 1, e + Beyond)
  BY <1>1, <1>2 DEF Scripted!Smaller
<1>4. /\ last = s + ScriptPage - 1 \/ (last = e + Beyond /\ last < s + ScriptPage - 1)
      /\ last <= s + ScriptPage - 1 /\ s - 1 <= last
  BY <1>1, <1>2, <1>3 DEF Scripted!Smaller
<1>5. PICK m \in Int : m = last - s + 1
  BY <1>3
<1>6. m \in 0..ScriptPage /\ last = s + m - 1
  BY <1>2, <1>4, <1>5
<1>7. Scripted!Klines(i, s) = Run(s, m)
  BY <1>1, <1>3, <1>5, Zenon DEF Scripted!Klines, Run
<1>8. PICK r : r = Run(s, m)
  OBVIOUS
<1>9. Len(r) = m /\ \A k \in 1..m : r[k] = s + k - 1
  <2>1. m \in Nat
    BY <1>2, <1>6
  <2> QED BY <1>8, <2>1, RunSeq
<1>10. m > 0 => Scripted!NextStart(r) = s + m
  <2> SUFFICES ASSUME m > 0 PROVE Scripted!NextStart(r) = s + m
    OBVIOUS
  <2>1. m \in 1..m
    OBVIOUS
  <2>2. Scripted!Last(r) = s + m - 1
    BY <1>9, <2>1 DEF Scripted!Last
  <2>3. s + m - 1 + 1 = s + m
    OBVIOUS
  <2> QED BY <2>2, <2>3 DEF Scripted!NextStart
<1>11. ASSUME Scripted!LastPage(i, r) PROVE s + m - 1 >= e
  <2>1. CASE m < ScriptPage
    BY <1>1, <1>2, <1>4, <1>6, <2>1
  <2>2. CASE ~(m < ScriptPage)
    <3>1. Scripted!NextStart(r) > e /\ m > 0
      BY <1>1, <1>2, <1>6, <1>9, <1>11, <2>2 DEF Scripted!LastPage
    <3>2. s + m > e
      BY <1>10, <3>1
    <3> QED BY <1>1, <3>2
  <2> QED BY <2>1, <2>2
<1>12. ASSUME ~Scripted!LastPage(i, r)
       PROVE  m > 0 /\ s + m <= e /\ Scripted!NextStart(r) = s + m
  <2>1. ~(m < ScriptPage) /\ ~(Scripted!NextStart(r) > e)
    BY <1>1, <1>9, <1>12 DEF Scripted!LastPage
  <2>2. m > 0
    BY <1>2, <1>6, <2>1
  <2>3. ~(s + m > e)
    BY <1>10, <2>1, <2>2
  <2> QED BY <1>1, <1>10, <2>2, <2>3
<1> QED BY <1>1, <1>6, <1>7, <1>8, <1>11, <1>12

LEMMA FetchPageKeeps == ScriptInv /\ Scripted!FetchPage => ScriptInv'
<1> SUFFICES ASSUME ScriptInv, Scripted!FetchPage PROVE ScriptInv'
  OBVIOUS
<1>1. PICK I : I = Scripted!Intervals
  OBVIOUS
<1>2. PICK i : i = I[step]
  OBVIOUS
<1>3. /\ part = "fetch" /\ script \in Scripts /\ script' = script /\ cuts' = cuts /\ cuts \in Nat
      /\ DOMAIN fetched = DOMAIN Ends /\ step \in 1..Len(I)
      /\ I \in Seq(DOMAIN Ends) /\ Len(I) \in Nat
  BY <1>1, TurnsDiffer DEF Scripted!FetchPage, ScriptInv
<1>4. i \in DOMAIN Ends
  BY <1>2, <1>3, ElementOfSeq
<1>5. PICK e \in Nat : e = Ends[i]
  BY <1>4, ScriptAssumption
<1>6. from \in Nat \ {0} /\ from <= Ends[i] + 1 /\ fetched[i] = CountTo(from - 1)
  BY <1>1, <1>2, <1>3 DEF ScriptInv, Fetching
<1>7. PICK s \in Nat \ {0} : s = from /\ s <= Ends[i] + 1
  BY <1>6
<1>8. PICK m \in 0..ScriptPage :
         /\ Scripted!Klines(i, s) = Run(s, m)
         /\ Scripted!LastPage(i, Run(s, m)) => s + m - 1 >= Ends[i]
         /\ ~Scripted!LastPage(i, Run(s, m)) =>
               /\ m > 0 /\ s + m <= Ends[i]
               /\ Scripted!NextStart(Run(s, m)) = s + m
  BY <1>4, <1>7, PageIsRun
<1>9. m \in Nat
  BY ScriptAssumption
<1>10. PICK q \in 0..m : /\ Scripted!Kept(i, Run(s, m)) = Run(s, q)
                         /\ q = m \/ s + q - 1 = e
                         /\ script = "runner" \/ s + q - 1 <= e
  <2>1. CASE script = "runner"
    BY <1>9, <2>1 DEF Scripted!Kept
  <2>2. CASE script # "runner"
    <3>1. PICK q \in 0..m : /\ Scripted!Within(i, Run(s, m)) = Run(s, q)
                            /\ q = m \/ s + q - 1 = Ends[i]
                            /\ s + q - 1 <= Ends[i]
      BY <1>4, <1>7, <1>9, WithinRun
    <3> QED BY <1>5, <2>2, <3>1 DEF Scripted!Kept
  <2> QED BY <2>1, <2>2
<1>11. PICK n \in Nat : n = s + q - 1
  BY <1>9, <1>10
<1>12. PICK data : data = [fetched EXCEPT ![i] =
                             Scripted!Ordered(@ \o Scripted!Kept(i, Scripted!Klines(i, from)))]
  OBVIOUS
<1>13. data[i] = CountTo(n)
  <2>1. PICK p \in Nat : p = s - 1 /\ s = p + 1
    OBVIOUS
  <2>2. q \in Nat /\ p + q = n
    BY <1>9, <1>10, <1>11, <2>1
  <2>3. CountTo(p) \o Run(p + 1, q) = CountTo(n)
    BY <2>2, RunJoins
  <2>4. fetched[i] = CountTo(p) /\ Scripted!Kept(i, Scripted!Klines(i, from)) = Run(p + 1, q)
    BY <1>6, <1>7, <1>8, <1>10, <2>1, Zenon
  <2>5. data[i] = Scripted!Ordered(CountTo(n))
    BY <1>3, <1>4, <1>12, <2>3, <2>4
  <2> QED BY <2>5, CountedIsOrdered
<1>14. DOMAIN data = DOMAIN Ends /\ \A k \in DOMAIN Ends : k # i => data[k] = fetched[k]
  BY <1>3, <1>12
<1>15. InPeriod(i, n)
  BY <1>5, <1>10, <1>11 DEF InPeriod
<1>16. CASE Scripted!LastPage(i, Run(s, m))
  <2>1. Scripted!NextInterval(data)
    BY <1>1, <1>2, <1>7, <1>8, <1>12, <1>16, Zenon DEF Scripted!FetchPage
  <2>2. n >= Ends[i]
    <3>1. s + m - 1 >= e
      BY <1>5, <1>8, <1>16
    <3> QED BY <1>5, <1>9, <1>10, <1>11, <3>1
  <2>3. cuts' \in Nat /\ (cuts' = 0 => cuts = 0 /\ n >= Ends[i])
    BY <1>3, <2>2
  <2> QED BY <1>1, <1>2, <1>3, <1>13, <1>14, <1>15, <2>1, <2>3, IntervalEnds, Zenon
<1>17. CASE ~Scripted!LastPage(i, Run(s, m))
  <2>1. /\ fetched' = data /\ step' = step /\ part' = part
        /\ from' = Scripted!NextStart(Run(s, m))
    BY <1>1, <1>2, <1>7, <1>8, <1>12, <1>17, Zenon DEF Scripted!FetchPage
  <2>2. m > 0 /\ s + m <= e /\ from' = s + m
    BY <1>5, <1>8, <1>17, <2>1
  <2>3. q = m
    BY <1>5, <1>9, <1>10, <2>2
  <2>4. from' \in Nat \ {0} /\ from' <= Ends[i] + 1 /\ n = from' - 1
    BY <1>5, <1>9, <1>11, <2>2, <2>3
  <2>5. Scripted!Intervals' = I
    BY <1>1, <1>3, Zenon DEF Scripted!Intervals
  <2>6. ASSUME NEW j \in DOMAIN Ends
        PROVE  \E k \in Nat : data[j] = CountTo(k) /\ InPeriod(j, k)'
    <3>1. CASE j = i
      BY <1>3, <1>13, <1>15, <3>1 DEF InPeriod
    <3>2. CASE j # i
      BY <1>3, <1>14, <3>2 DEF ScriptInv, InPeriod
    <3> QED BY <3>1, <3>2
  <2>7. \A k \in 1..Len(I) : k # step => I[k] \in DOMAIN Ends /\ I[k] # i
    BY <1>1, <1>2, <1>3, TurnsDiffer, ElementOfSeq DEF Distinct
  <2>8. \A k \in 1..Len(I) : k # step => data[I[k]] = fetched[I[k]]
    BY <1>14, <2>7
  <2>9. Fetching(I)'
    <3>1. \A k \in 1..Len(I) : k > step => data[I[k]] = CountTo(0)
      <4> SUFFICES ASSUME NEW k \in 1..Len(I), k > step PROVE data[I[k]] = CountTo(0)
        OBVIOUS
      <4>1. k # step
        BY <1>3
      <4>2. fetched[I[k]] = CountTo(0)
        BY <1>1, <1>3 DEF ScriptInv, Fetching
      <4> QED BY <2>8, <4>1, <4>2
    <3>2. data[i] = CountTo(from' - 1)
      BY <1>13, <2>4
    <3> QED BY <1>2, <2>1, <2>4, <3>1, <3>2 DEF Fetching
  <2>10. ASSUME cuts' = 0, NEW k \in 1..Len(I), k < step' \/ part' # "fetch"
         PROVE  Complete(I[k])'
    <3>1. k < step /\ cuts = 0
      BY <1>3, <2>1, <2>10
    <3>2. Complete(I[k])
      BY <1>1, <3>1 DEF ScriptInv
    <3>3. k # step
      BY <1>3, <3>1
    <3>4. fetched'[I[k]] = fetched[I[k]]
      BY <2>1, <2>8, <3>3
    <3> QED BY <3>2, <3>4 DEF Complete
  <2> QED BY <1>3, <1>14, <2>1, <2>5, <2>6, <2>9, <2>10 DEF ScriptInv
<1> QED BY <1>16, <1>17

LEMMA FetchNothingKeeps == ScriptInv /\ Scripted!FetchNothing => ScriptInv'
<1> SUFFICES ASSUME ScriptInv, Scripted!FetchNothing PROVE ScriptInv'
  OBVIOUS
<1>1. PICK I : I = Scripted!Intervals
  OBVIOUS
<1>2. /\ part = "fetch" /\ script \in Scripts /\ script' = script
      /\ cuts' = cuts + 1 /\ cuts \in Nat
      /\ DOMAIN fetched = DOMAIN Ends /\ step \in 1..Len(I) /\ I \in Seq(DOMAIN Ends)
      /\ Scripted!NextInterval(fetched)
  BY <1>1, TurnsDiffer DEF Scripted!FetchNothing, ScriptInv
<1>3. I[step] \in DOMAIN Ends
  BY <1>2, ElementOfSeq
<1>4. PICK n \in Nat : fetched[I[step]] = CountTo(n) /\ InPeriod(I[step], n)
  BY <1>3 DEF ScriptInv
<1>5. cuts' \in Nat /\ cuts' # 0
  BY <1>2
<1> QED BY <1>1, <1>2, <1>4, <1>5, IntervalEnds, Zenon

LEMMA RunnerFailsKeeps == ScriptInv /\ Scripted!RunnerFails => ScriptInv'
<1> SUFFICES ASSUME ScriptInv, Scripted!RunnerFails PROVE ScriptInv'
  OBVIOUS
<1>1. PICK I : I = Scripted!Intervals
  OBVIOUS
<1>2. /\ script' = script /\ fetched' = fetched /\ step' = step /\ from' = from
      /\ cuts' = cuts + 1 /\ cuts \in Nat /\ part' = "aborted"
  BY DEF Scripted!RunnerFails, ScriptInv
<1>3. Scripted!Intervals' = I
  BY <1>1, <1>2, Zenon DEF Scripted!Intervals
<1>4. \A i \in DOMAIN Ends : \E n \in Nat : fetched'[i] = CountTo(n) /\ InPeriod(i, n)'
  BY <1>2 DEF ScriptInv, InPeriod
<1>5. cuts' \in Nat /\ cuts' # 0
  BY <1>2
<1> QED BY <1>1, <1>2, <1>3, <1>4, <1>5 DEF ScriptInv

(* Once the histories are there, nothing but the phase changes. *)
LEMMA ReplayKeeps ==
    ASSUME ScriptInv, UNCHANGED <<script, fetched, step, from, cuts>>,
           part' = part \/ (part # "fetch" /\ part' = "done")
    PROVE  ScriptInv'
<1>1. PICK I : I = Scripted!Intervals
  OBVIOUS
<1>2. Scripted!Intervals' = I
  BY <1>1, Zenon DEF Scripted!Intervals
<1>3. \A i \in DOMAIN Ends : \E n \in Nat : fetched'[i] = CountTo(n) /\ InPeriod(i, n)'
  BY DEF ScriptInv, InPeriod
<1>4. part' = "fetch" => part = "fetch" /\ Fetching(I)'
  BY <1>1 DEF ScriptInv, Fetching
<1>5. ASSUME cuts' = 0, NEW k \in 1..Len(I), k < step' \/ part' # "fetch"
      PROVE  Complete(I[k])'
  BY <1>1, <1>5 DEF ScriptInv, Complete
<1> QED BY <1>1, <1>2, <1>3, <1>4, <1>5 DEF ScriptInv

LEMMA ScriptStep == ScriptInv /\ [Scripted!Next]_Scripted!vars => ScriptInv'
<1> SUFFICES ASSUME ScriptInv, [Scripted!Next]_Scripted!vars PROVE ScriptInv'
  OBVIOUS
<1>1. CASE Scripted!FetchPage
  BY <1>1, FetchPageKeeps
<1>2. CASE Scripted!FetchNothing
  BY <1>2, FetchNothingKeeps
<1>9. CASE Scripted!RunnerFails
  BY <1>9, RunnerFailsKeeps
<1>3. CASE \E s \in Scores : Scripted!RunVariant(s)
  BY <1>3, ReplayKeeps DEF Scripted!RunVariant
<1>4. CASE Scripted!StartWorker
  BY <1>4, ReplayKeeps DEF Scripted!StartWorker
<1>5. CASE \E v \in Scripted!Variants, s \in Scores : Scripted!Collect(v, s)
  BY <1>5, ReplayKeeps DEF Scripted!Collect
<1>6. CASE \E v \in Scripted!Variants : Scripted!WorkerFails(v)
  BY <1>6, ReplayKeeps DEF Scripted!WorkerFails
<1>7. CASE Scripted!Done
  BY <1>7, ReplayKeeps DEF Scripted!Done
<1>8. CASE Scripted!Stopped \/ UNCHANGED Scripted!vars
  BY <1>8, ReplayKeeps DEF Scripted!Stopped, Scripted!vars
<1> QED BY <1>1, <1>2, <1>3, <1>4, <1>5, <1>6, <1>7, <1>8, <1>9
   DEF Scripted!Next, Scripted!SweepFetch, Scripted!BtcFetch, Scripted!FastFetch,
       Scripted!FullFetch, Scripted!ExtendedFetch, Scripted!ContinuationFetch,
       Scripted!SwingFetch, Scripted!RunnerFetch

(* What is replayed begins with the first candle and has no gap and none   *)
(* twice, however it was paged, whatever the length of the pages and of    *)
(* the period, and it reaches the end of the period when every answer was  *)
(* a list (replay_v2_sweep.py:97-147).                                     *)
THEOREM ScriptHistoryHolds == Scripted!Spec => []Scripted!HistoryIsWhole
<1>1. ScriptInv => Scripted!HistoryIsWhole
  <2> SUFFICES ASSUME ScriptInv PROVE Scripted!HistoryIsWhole
    OBVIOUS
  <2>1. \A n : Scripted!Prefix(n) = CountTo(n)
    BY DEF Scripted!Prefix, CountTo
  <2>2. \A n \in Nat : Len(CountTo(n)) = n
    BY CountSeq
  <2>3. ASSUME NEW i \in DOMAIN Ends
        PROVE  /\ fetched[i] = Scripted!Prefix(Len(fetched[i]))
               /\ script # "runner" => Len(fetched[i]) <= Ends[i]
    <3>1. PICK n \in Nat : fetched[i] = CountTo(n) /\ InPeriod(i, n)
      BY DEF ScriptInv
    <3> QED BY <2>1, <2>2, <3>1, Zenon DEF InPeriod
  <2>4. ASSUME part \notin {"fetch", "aborted"}, cuts = 0,
               NEW i \in Scripted!Range(Scripted!Intervals)
        PROVE  Len(fetched[i]) >= Ends[i]
    <3>1. PICK I : I = Scripted!Intervals
      OBVIOUS
    <3>2. I \in Seq(DOMAIN Ends)
      BY <3>1, TurnsDiffer DEF ScriptInv
    <3>3. DOMAIN I = 1..Len(I)
      BY <3>2, LenProperties
    <3>4. PICK k \in 1..Len(I) : i = I[k]
      BY <2>4, <3>1, <3>3 DEF Scripted!Range
    <3>5. Complete(I[k])
      BY <2>4, <3>1 DEF ScriptInv
    <3>6. PICK n \in Nat : fetched[i] = CountTo(n) /\ n >= Ends[i]
      BY <3>4, <3>5 DEF Complete
    <3> QED BY <2>2, <3>6, Zenon
  <2> QED BY <2>3, <2>4 DEF Scripted!HistoryIsWhole
<1> QED BY <1>1, ScriptStart, ScriptStep, PTL DEF Scripted!Spec
-----------------------------------------------------------------------------
(***************************************************************************)
(* The advice of the sweeps.  The best of some results is the first of the *)
(* highest; in another order its place may differ and not its value, and   *)
(* the samples decide the verdict without regard to places.                *)
(***************************************************************************)
Highest(f, A, k) == \A j \in A : f[j] < f[k] \/ (f[j] = f[k] /\ k <= j)

LEMMA HighestExists ==
    ASSUME NEW n \in Nat, NEW f \in [1..n -> Int], NEW A \in SUBSET (1..n), A # {}
    PROVE  \E k \in A : Highest(f, A, k)
<1> DEFINE upTo(m) == {k \in A : k <= m}
           fails == {m \in 0..n : upTo(m) # {} /\ \A k \in upTo(m) : ~Highest(f, upTo(m), k)}
<1>0. \A k \in A : k \in Nat /\ 1 <= k /\ k <= n
  OBVIOUS
<1>1. upTo(n) = A
  BY <1>0
<1>2. SUFFICES ASSUME fails # {} PROVE FALSE
  <2>1. fails = {} => n \notin fails
    OBVIOUS
  <2>2. n \in 0..n
    OBVIOUS
  <2> HIDE DEF upTo
  <2> QED BY <1>1, <2>1, <2>2
<1>3. PICK m \in fails : \A l \in fails : m <= l
  <2>1. fails \in SUBSET Nat
    OBVIOUS
  <2> HIDE DEF fails
  <2> QED BY <1>2, <2>1, LeastDay
<1>4. m \in 0..n /\ upTo(m) # {} /\ \A k \in upTo(m) : ~Highest(f, upTo(m), k)
  OBVIOUS
<1>5. m # 0
  <2>1. SUFFICES ASSUME m = 0 PROVE FALSE
    OBVIOUS
  <2>2. PICK k \in upTo(m) : TRUE
    BY <1>4
  <2>3. k \in A /\ k <= 0
    BY <2>1, <2>2
  <2> QED BY <1>0, <2>3
<1>6. m - 1 \in 0..n /\ m - 1 \notin fails
  <2>1. m - 1 \in 0..n /\ ~(m <= m - 1)
    BY <1>4, <1>5
  <2> HIDE DEF fails
  <2> QED BY <1>3, <2>1
<1>7. \A j \in upTo(m) : j \in upTo(m - 1) \/ j = m
  BY <1>0, <1>4
<1>8. upTo(m - 1) \subseteq upTo(m) /\ \A j \in upTo(m - 1) : j < m
  <2>1. ASSUME NEW j \in upTo(m - 1) PROVE j \in A /\ j <= m /\ j < m
    <3>1. j \in A /\ j <= m - 1
      OBVIOUS
    <3> QED BY <1>0, <1>4, <3>1
  <2> QED BY <2>1
<1>9. CASE upTo(m - 1) = {}
  <2>1. m \in upTo(m) /\ \A j \in upTo(m) : j = m
    BY <1>4, <1>7, <1>9
  <2>2. Highest(f, upTo(m), m)
    BY <1>4, <2>1 DEF Highest
  <2> QED BY <1>4, <2>1, <2>2
<1>10. CASE upTo(m - 1) # {}
  <2>1. PICK k \in upTo(m - 1) : Highest(f, upTo(m - 1), k)
    BY <1>6, <1>10
  <2>2. k \in 1..n /\ k < m /\ f[k] \in Int /\ m \in Int
    BY <1>4, <1>8, <2>1
  <2>3. CASE m \in A /\ f[m] > f[k]
    <3>1. m \in upTo(m) /\ f[m] \in Int
      BY <1>4, <2>3
    <3>2. ASSUME NEW j \in upTo(m) PROVE f[j] < f[m] \/ (f[j] = f[m] /\ m <= j)
      <4>1. CASE j = m
        BY <1>4, <4>1
      <4>2. CASE j \in upTo(m - 1)
        <5>1. f[j] < f[k] \/ f[j] = f[k]
          BY <2>1, <4>2 DEF Highest
        <5>2. f[j] \in Int
          BY <4>2
        <5> QED BY <2>2, <2>3, <3>1, <5>1, <5>2
      <4> QED BY <1>7, <4>1, <4>2
    <3>3. Highest(f, upTo(m), m)
      BY <3>2 DEF Highest
    <3> QED BY <1>4, <3>1, <3>3
  <2>4. CASE ~(m \in A /\ f[m] > f[k])
    <3>1. k \in upTo(m)
      BY <1>8
    <3>2. ASSUME NEW j \in upTo(m) PROVE f[j] < f[k] \/ (f[j] = f[k] /\ k <= j)
      <4>1. CASE j = m
        <5>1. m \in A /\ f[m] \in Int
          BY <4>1
        <5> QED BY <2>2, <2>4, <4>1, <5>1
      <4>2. CASE j \in upTo(m - 1)
        BY <2>1, <4>2 DEF Highest
      <4> QED BY <1>7, <4>1, <4>2
    <3>3. Highest(f, upTo(m), k)
      BY <3>2 DEF Highest
    <3> QED BY <1>4, <3>1, <3>3
  <2> QED BY <2>3, <2>4
<1> QED BY <1>9, <1>10

(* The results of a sweep. *)
Scored(rs, n) == /\ n \in Nat /\ DOMAIN rs = 1..n
                 /\ \A k \in 1..n : rs[k].score \in Scores

LEMMA BestIsHighest ==
    ASSUME NEW n \in Nat, NEW rs, Scored(rs, n), NEW A \in SUBSET (1..n), A # {}
    PROVE  \E k \in A : /\ Scripted!Best(rs, A, "calmar") = rs[k]
                        /\ rs[k].score.calmar \in Int
                        /\ \A j \in A : /\ rs[j].score.calmar \in Int
                                        /\ rs[j].score.calmar <= rs[k].score.calmar
<1> DEFINE f == [k \in 1..n |-> rs[k].score.calmar]
<1>1. \A k \in 1..n : rs[k].score.calmar \in Int
  BY ScriptAssumption DEF Scored
<1>2. f \in [1..n -> Int]
  BY <1>1
<1>3. \E k \in A : Highest(f, A, k)
  <2> HIDE DEF f
  <2> QED BY <1>2, HighestExists
<1>4. \A k \in A : Highest(f, A, k) <=>
         \A j \in A : \/ rs[j].score["calmar"] < rs[k].score["calmar"]
                      \/ rs[j].score["calmar"] = rs[k].score["calmar"] /\ k <= j
  BY DEF Highest
<1>5. PICK k \in A : /\ Scripted!Best(rs, A, "calmar") = rs[k]
                     /\ \A j \in A : \/ rs[j].score["calmar"] < rs[k].score["calmar"]
                                     \/ rs[j].score["calmar"] = rs[k].score["calmar"] /\ k <= j
  <2> HIDE DEF f
  <2>1. \E k \in A : \A j \in A : \/ rs[j].score["calmar"] < rs[k].score["calmar"]
                                  \/ rs[j].score["calmar"] = rs[k].score["calmar"] /\ k <= j
    BY <1>3, <1>4
  <2> QED BY <2>1 DEF Scripted!Best
<1>6. ASSUME NEW j \in A PROVE rs[j].score.calmar <= rs[k].score.calmar
  <2>1. PICK x \in Int : rs[j].score.calmar = x
    BY <1>1
  <2>2. PICK y \in Int : rs[k].score.calmar = y
    BY <1>1
  <2>3. x < y \/ x = y
    BY <1>5, <2>1, <2>2
  <2> QED BY <2>1, <2>2, <2>3
<1> QED BY <1>1, <1>5, <1>6

(* The results in another order, every one of them. *)
Onto(p, n) == /\ p \in [1..n -> 1..n]
              /\ \A k \in 1..n : \E j \in 1..n : p[j] = k

Other(rs, p, n) == [k \in 1..n |-> rs[p[k]]]

LEMMA OtherIsScored ==
    ASSUME NEW n, NEW rs, Scored(rs, n), NEW p, Onto(p, n)
    PROVE  Scored(Other(rs, p, n), n)
BY DEF Scored, Onto, Other

LEMMA SameBest ==
    ASSUME NEW n \in Nat, NEW rs, Scored(rs, n), NEW p, Onto(p, n),
           NEW A \in SUBSET (1..n), A # {}, NEW B \in SUBSET (1..n),
           \A j \in B : p[j] \in A, \A j \in 1..n : p[j] \in A => j \in B
    PROVE  /\ B # {}
           /\ Scripted!Best(Other(rs, p, n), B, "calmar").score.calmar
                  = Scripted!Best(rs, A, "calmar").score.calmar
<1>1. \A k \in A : \E j \in B : p[j] = k
  BY DEF Onto
<1>2. B # {}
  BY <1>1
<1>3. PICK a \in A : /\ Scripted!Best(rs, A, "calmar") = rs[a]
                     /\ rs[a].score.calmar \in Int
                     /\ \A j \in A : /\ rs[j].score.calmar \in Int
                                     /\ rs[j].score.calmar <= rs[a].score.calmar
  BY BestIsHighest
<1> DEFINE o == Other(rs, p, n)
<1>4. Scored(o, n)
  BY OtherIsScored
<1>5. \A j \in B : o[j] = rs[p[j]]
  BY DEF Other
<1> HIDE DEF o
<1>6. PICK b \in B : /\ Scripted!Best(o, B, "calmar") = o[b]
                     /\ o[b].score.calmar \in Int
                     /\ \A j \in B : /\ o[j].score.calmar \in Int
                                     /\ o[j].score.calmar <= o[b].score.calmar
  BY <1>2, <1>4, BestIsHighest
<1>7. PICK j \in B : p[j] = a
  BY <1>1
<1>8. PICK x \in Int : rs[a].score.calmar = x
  BY <1>3
<1>9. PICK y \in Int : o[b].score.calmar = y
  BY <1>6
<1>10. x <= y
  BY <1>5, <1>6, <1>7, <1>8, <1>9
<1>11. y <= x
  BY <1>3, <1>5, <1>8, <1>9
<1>12. x = y
  BY <1>10, <1>11
<1> QED BY <1>2, <1>3, <1>6, <1>8, <1>9, <1>12 DEF o

LEMMA SweepIsStable ==
    ASSUME NEW n \in Nat \ {0}, NEW rs, Scored(rs, n), NEW p, Onto(p, n)
    PROVE  /\ Scripted!SweepAdvice(Other(rs, p, n)).verdict = Scripted!SweepAdvice(rs).verdict
           /\ Scripted!SweepAdvice(Other(rs, p, n)).of.score.calmar
                  = Scripted!SweepAdvice(rs).of.score.calmar
<1> DEFINE o == Other(rs, p, n)
           Q(r) == {k \in 1..n : r[k].score.qualified}
           C(r) == {k \in Q(r) : r[k].score.in > 0 /\ r[k].score.out > 0}
           P(r) == {k \in Q(r) : r[k].score.full > 0}
           Adv(r) == IF C(r) # {} THEN [verdict |-> "best", of |-> Scripted!Best(r, C(r), "calmar")]
                     ELSE IF P(r) # {}
                     THEN [verdict |-> "partial", of |-> Scripted!Best(r, P(r), "calmar")]
                     ELSE [verdict |-> "none", of |-> Scripted!Best(r, 1..n, "calmar")]
<1>1. DOMAIN rs = 1..n /\ DOMAIN o = 1..n
  BY DEF Scored, Other
<1>2. Scripted!SweepAdvice(rs) = Adv(rs) /\ Scripted!SweepAdvice(o) = Adv(o)
  <2> HIDE DEF o
  <2> QED BY <1>1 DEF Scripted!SweepAdvice
<1>3. \A k \in 1..n : o[k] = rs[p[k]] /\ p[k] \in 1..n
  BY DEF Onto, Other
<1>4. \A j \in 1..n : /\ j \in C(o) <=> p[j] \in C(rs)
                      /\ j \in P(o) <=> p[j] \in P(rs)
  <2> HIDE DEF o
  <2> QED BY <1>3
<1>5. /\ C(o) \in SUBSET (1..n) /\ C(rs) \in SUBSET (1..n)
      /\ P(o) \in SUBSET (1..n) /\ P(rs) \in SUBSET (1..n)
  OBVIOUS
<1>6. 1..n # {}
  OBVIOUS
<1> HIDE DEF C, P, Q
<1>7. C(rs) # {} => /\ C(o) # {}
                    /\ Scripted!Best(o, C(o), "calmar").score.calmar
                          = Scripted!Best(rs, C(rs), "calmar").score.calmar
  <2>1. \A j \in C(o) : p[j] \in C(rs)
    BY <1>4, <1>5
  <2>2. \A j \in 1..n : p[j] \in C(rs) => j \in C(o)
    BY <1>4
  <2> QED BY <1>5, <2>1, <2>2, SameBest
<1>8. P(rs) # {} => /\ P(o) # {}
                    /\ Scripted!Best(o, P(o), "calmar").score.calmar
                          = Scripted!Best(rs, P(rs), "calmar").score.calmar
  <2>1. \A j \in P(o) : p[j] \in P(rs)
    BY <1>4, <1>5
  <2>2. \A j \in 1..n : p[j] \in P(rs) => j \in P(o)
    BY <1>4
  <2> QED BY <1>5, <2>1, <2>2, SameBest
<1>9. Scripted!Best(o, 1..n, "calmar").score.calmar
         = Scripted!Best(rs, 1..n, "calmar").score.calmar
  <2>1. \A j \in 1..n : p[j] \in 1..n
    BY <1>3
  <2>2. 1..n \in SUBSET (1..n)
    OBVIOUS
  <2> QED BY <1>6, <2>1, <2>2, SameBest
<1>10. C(rs) = {} => C(o) = {}
  BY <1>4, <1>5
<1>11. P(rs) = {} => P(o) = {}
  BY <1>4, <1>5
<1>12. Adv(o).verdict = Adv(rs).verdict /\ Adv(o).of.score.calmar = Adv(rs).of.score.calmar
  <2> HIDE DEF o
  <2>1. CASE C(rs) # {}
    BY <1>7, <2>1
  <2>2. CASE C(rs) = {} /\ P(rs) # {}
    BY <1>8, <1>10, <2>2
  <2>3. CASE C(rs) = {} /\ P(rs) = {}
    BY <1>9, <1>10, <1>11, <2>3
  <2> QED BY <2>1, <2>2, <2>3
<1> QED BY <1>2, <1>12
-----------------------------------------------------------------------------
(***************************************************************************)
(* Of the variants of the grid, in its order, the first so many have been  *)
(* taken: each has its result, is with a worker or is dropped; the others  *)
(* wait.  Without the pool the results are in that order themselves.       *)
(***************************************************************************)
Labels == {Grid[k] : k \in DOMAIN Grid}

Queued(w, d, G) == /\ d \in Nat /\ w \in Seq(Labels) /\ Len(G) = Len(w) + d
                   /\ \A k \in 1..Len(w) : w[k] = G[d + k]

LEMMA QueueMoves ==
    ASSUME NEW G \in Seq(Labels), NEW d, NEW w, Queued(w, d, G), w # <<>>
    PROVE  /\ Head(w) = G[d + 1] /\ Head(w) \in Labels
           /\ d + 1 \in 1..Len(G)
           /\ Queued(Tail(w), d + 1, G)
<1>1. d \in Nat /\ w \in Seq(Labels) /\ Len(w) \in Nat /\ Len(G) = Len(w) + d
  BY DEF Queued
<1>2. Len(w) # 0
  BY <1>1, EmptySeq
<1>3. PICK m \in Nat : m = Len(w) /\ m # 0
  BY <1>1, <1>2
<1>4. Head(w) = w[1] /\ Head(w) \in Labels
  BY <1>1, <1>2
<1>5. w[1] = G[d + 1]
  BY <1>3 DEF Queued
<1>6. /\ Tail(w) \in Seq(Labels) /\ Len(Tail(w)) = m - 1
      /\ \A k \in 1..(m - 1) : Tail(w)[k] = w[k + 1]
  BY <1>1, <1>3
<1>7. ASSUME NEW k \in 1..(m - 1) PROVE Tail(w)[k] = G[(d + 1) + k]
  <2>1. k + 1 \in 1..m /\ d + (k + 1) = (d + 1) + k
    BY <1>1, <1>3
  <2>2. w[k + 1] = G[d + (k + 1)]
    BY <1>3, <2>1 DEF Queued
  <2> QED BY <1>6, <2>1, <2>2
<1>8. Len(G) = (m - 1) + (d + 1) /\ d + 1 \in Nat /\ d + 1 \in 1..Len(G)
  BY <1>1, <1>3
<1>9. Queued(Tail(w), d + 1, G)
  BY <1>6, <1>7, <1>8 DEF Queued
<1> QED BY <1>4, <1>5, <1>8, <1>9

LEMMA GridsAreGrids ==
    /\ Grid \in Seq(Labels)
    /\ Scripted!GridOf \in Seq(Labels)
    /\ \A j, k \in 1..Len(Scripted!GridOf) : Scripted!GridOf[j] = Scripted!GridOf[k] => j = k
    /\ script \notin {"full", "runner"} => Scripted!GridOf = Grid
    /\ Scripted!Variants = Labels
<1>1. Grid \in Seq(Labels) /\ Grid # <<>>
  BY ScriptAssumption DEF Labels
<1>2. /\ Len(Grid) \in Nat \ {0} /\ DOMAIN Grid = 1..Len(Grid)
      /\ \A j, k \in 1..Len(Grid) : Grid[j] = Grid[k] => j = k
  BY <1>1, EmptySeq, ScriptAssumption
<1>3. 1 \in 1..Len(Grid) /\ Grid[1] \in Labels
  BY <1>1, <1>2, ElementOfSeq
<1> DEFINE one == [k \in 1..1 |-> Grid[k]]
<1>4. SubSeq(Grid, 1, 1) = one
  BY <1>1, <1>3 DEF SubSeq
<1>5. one \in Seq(Labels) /\ Len(one) = 1
  <2>1. \A k \in 1..1 : k = 1
    OBVIOUS
  <2>2. one \in [1..1 -> Labels]
    BY <1>3, <2>1
  <2>3. DOMAIN one = 1..1
    OBVIOUS
  <2> HIDE DEF one
  <2>4. PICK n \in Nat : n = 1
    OBVIOUS
  <2>5. one \in [1..n -> Labels]
    BY <2>2, <2>4
  <2>6. one \in Seq(Labels)
    BY <2>5, SeqDef
  <2>7. Len(one) = 1
    BY <2>4, <2>5, <2>6, LenProperties
  <2> QED BY <2>6, <2>7
<1>6. \A j, k \in 1..Len(one) : one[j] = one[k] => j = k
  BY <1>5
<1> HIDE DEF one
<1>7. Scripted!GridOf = one \/ Scripted!GridOf = Grid
  BY <1>4 DEF Scripted!GridOf
<1>8. script \notin {"full", "runner"} => Scripted!GridOf = Grid
  BY DEF Scripted!GridOf
<1>9. Scripted!Variants = Labels
  BY DEF Scripted!Variants, Scripted!Range, Labels
<1> QED BY <1>1, <1>2, <1>5, <1>6, <1>7, <1>8, <1>9

Taken == Len(results) + Cardinality(pool) + Cardinality(failed)

Workings(G) ==
    /\ Queued(waiting, Taken, G)
    /\ \A v \in pool \cup failed : \E k \in 1..Taken : v = G[k]
    /\ script # "fast" => /\ pool = {} /\ failed = {}
                          /\ \A k \in 1..Len(results) : results[k].label = G[k]

AdviceInv ==
    /\ script \in Scripts
    /\ results \in Seq([label : Labels, score : Scores])
    /\ pool \subseteq Labels /\ failed \subseteq Labels
    /\ IsFiniteSet(pool) /\ IsFiniteSet(failed) /\ pool \cap failed = {}
    /\ Workings(Scripted!GridOf)
    /\ part = "done" => waiting = <<>> /\ pool = {}

LEMMA AdviceStart == Scripted!Init => AdviceInv
<1> SUFFICES ASSUME Scripted!Init PROVE AdviceInv
  OBVIOUS
<1>1. /\ script \in Scripts /\ waiting = Scripted!GridOf /\ pool = {} /\ results = <<>>
      /\ failed = {} /\ part = "fetch"
  BY DEF Scripted!Init
<1>2. PICK G \in Seq(Labels) : G = Scripted!GridOf
  BY GridsAreGrids
<1>3. /\ IsFiniteSet({}) /\ Cardinality({}) = 0
  BY FS_EmptySet
<1>4. Len(results) = 0 /\ results \in Seq([label : Labels, score : Scores])
  BY <1>1
<1>5. Taken = 0
  BY <1>1, <1>3, <1>4 DEF Taken
<1>6. Queued(waiting, 0, G)
  <2>1. \A k \in 1..Len(G) : 0 + k = k
    BY <1>2
  <2>2. Len(G) = Len(G) + 0
    BY <1>2
  <2> QED BY <1>1, <1>2, <2>1, <2>2 DEF Queued
<1>7. \A k \in 1..Len(results) : FALSE
  BY <1>4
<1>8. Workings(G)
  BY <1>1, <1>5, <1>6, <1>7 DEF Workings
<1> QED BY <1>1, <1>2, <1>3, <1>4, <1>8 DEF AdviceInv

(* What the steps of the replay keep: a variant is taken, a worker ends. *)
LEMMA VariantRuns == ASSUME AdviceInv, NEW s \in Scores, Scripted!RunVariant(s) PROVE AdviceInv'
<1>1. /\ script # "fast" /\ waiting # <<>> /\ part = "replay"
      /\ results' = Append(results, [label |-> Head(waiting), score |-> s])
      /\ waiting' = Tail(waiting)
      /\ script' = script /\ pool' = pool /\ failed' = failed /\ part' = part
  BY DEF Scripted!RunVariant
<1>2. /\ script \in Scripts /\ results \in Seq([label : Labels, score : Scores])
      /\ Workings(Scripted!GridOf)
  BY DEF AdviceInv
<1>3. PICK G \in Seq(Labels) : G = Scripted!GridOf
  BY GridsAreGrids
<1>4. Scripted!GridOf' = G
  BY <1>1, <1>3 DEF Scripted!GridOf
<1>5. /\ Queued(waiting, Taken, G) /\ pool = {} /\ failed = {}
      /\ \A k \in 1..Len(results) : results[k].label = G[k]
  BY <1>1, <1>2, <1>3 DEF Workings
<1>6. PICK m \in Nat : m = Len(results)
  BY <1>2
<1>7. Cardinality({}) = 0
  BY FS_EmptySet
<1>8. Taken = m
  BY <1>5, <1>6, <1>7 DEF Taken
<1>9. /\ Head(waiting) = G[m + 1] /\ Head(waiting) \in Labels
      /\ Queued(waiting', m + 1, G)
  BY <1>1, <1>5, <1>8, QueueMoves
<1>10. PICK r \in [label : Labels, score : Scores] :
          r = [label |-> Head(waiting), score |-> s]
  BY <1>9
<1>11. /\ results' = Append(results, r) /\ r.label = G[m + 1]
  BY <1>1, <1>9, <1>10
<1>12. /\ results' \in Seq([label : Labels, score : Scores]) /\ Len(results') = m + 1
       /\ \A k \in 1..m : results'[k] = results[k]
       /\ results'[m + 1] = r
  BY <1>2, <1>6, <1>11, AppendProperties
<1>13. ASSUME NEW k \in 1..Len(results') PROVE results'[k].label = G[k]
  <2>1. k \in 1..m \/ k = m + 1
    BY <1>6, <1>12
  <2> QED BY <1>5, <1>6, <1>11, <1>12, <2>1
<1>14. Taken' = m + 1
  BY <1>1, <1>5, <1>7, <1>12 DEF Taken
<1>15. Workings(G)'
  BY <1>1, <1>3, <1>5, <1>9, <1>13, <1>14 DEF Workings
<1> QED BY <1>1, <1>2, <1>3, <1>4, <1>12, <1>15 DEF AdviceInv

LEMMA WorkerStarts == ASSUME AdviceInv, Scripted!StartWorker PROVE AdviceInv'
<1>1. /\ script = "fast" /\ waiting # <<>> /\ part = "replay"
      /\ pool' = pool \cup {Head(waiting)} /\ waiting' = Tail(waiting)
      /\ script' = script /\ results' = results /\ failed' = failed /\ part' = part
  BY DEF Scripted!StartWorker
<1>2. /\ results \in Seq([label : Labels, score : Scores])
      /\ pool \subseteq Labels /\ IsFiniteSet(pool) /\ pool \cap failed = {}
      /\ IsFiniteSet(failed) /\ Workings(Scripted!GridOf)
  BY DEF AdviceInv
<1>3. PICK G \in Seq(Labels) : G = Scripted!GridOf
  BY GridsAreGrids
<1>4. Scripted!GridOf' = G
  BY <1>1, <1>3 DEF Scripted!GridOf
<1>5. PICK d \in Nat : d = Taken /\ Queued(waiting, d, G)
  BY <1>2, <1>3 DEF Workings, Queued
<1>6. \A v \in pool \cup failed : \E k \in 1..d : v = G[k]
  BY <1>2, <1>3, <1>5 DEF Workings
<1>7. PICK v : v = Head(waiting)
  OBVIOUS
<1>8. /\ v = G[d + 1] /\ v \in Labels /\ d + 1 \in 1..Len(G)
      /\ Queued(waiting', d + 1, G)
  BY <1>1, <1>5, <1>7, QueueMoves
<1>9. v \notin pool /\ v \notin failed
  <2>1. SUFFICES ASSUME v \in pool \cup failed PROVE FALSE
    OBVIOUS
  <2>2. PICK k \in 1..d : v = G[k]
    BY <1>6, <2>1
  <2>3. k \in 1..Len(G) /\ k # d + 1
    BY <1>3, <1>8
  <2>4. G[k] = G[d + 1]
    BY <1>8, <2>2
  <2> QED BY <1>3, <1>8, <2>3, <2>4, GridsAreGrids, Zenon
<1>10. IsFiniteSet(pool') /\ Cardinality(pool') = Cardinality(pool) + 1
  BY <1>1, <1>2, <1>7, <1>9, FS_AddElement
<1>11. Cardinality(pool) \in Nat /\ Cardinality(failed) \in Nat /\ Len(results) \in Nat
  BY <1>2, FS_CardinalityType
<1>12. Taken' = d + 1
  <2>1. d = Len(results) + Cardinality(pool) + Cardinality(failed)
    BY <1>5 DEF Taken
  <2>2. Taken' = Len(results) + (Cardinality(pool) + 1) + Cardinality(failed)
    BY <1>1, <1>10 DEF Taken
  <2> QED BY <1>11, <2>1, <2>2
<1>13. ASSUME NEW u \in pool' \cup failed' PROVE \E k \in 1..(d + 1) : u = G[k]
  <2>1. u = v \/ u \in pool \cup failed
    BY <1>1, <1>7, <1>13
  <2>2. d + 1 \in 1..(d + 1) /\ \A k \in 1..d : k \in 1..(d + 1)
    OBVIOUS
  <2> QED BY <1>6, <1>8, <2>1, <2>2
<1>14. Workings(G)'
  BY <1>1, <1>3, <1>8, <1>12, <1>13 DEF Workings
<1>15. pool' \subseteq Labels /\ pool' \cap failed' = {}
  BY <1>1, <1>2, <1>7, <1>8, <1>9
<1> QED BY <1>1, <1>2, <1>4, <1>10, <1>14, <1>15 DEF AdviceInv

LEMMA WorkerEnds ==
    ASSUME AdviceInv, NEW v \in pool, pool' = pool \ {v},
           UNCHANGED <<script, waiting, part>>,
           \/ /\ failed' = failed
              /\ \E s \in Scores : results' = Append(results, [label |-> v, score |-> s])
           \/ failed' = failed \cup {v} /\ results' = results
    PROVE  AdviceInv'
<1>1. /\ results \in Seq([label : Labels, score : Scores])
      /\ pool \subseteq Labels /\ IsFiniteSet(pool) /\ pool \cap failed = {}
      /\ failed \subseteq Labels /\ IsFiniteSet(failed) /\ Workings(Scripted!GridOf)
      /\ script \in Scripts
  BY DEF AdviceInv
<1>2. PICK G \in Seq(Labels) : G = Scripted!GridOf
  BY GridsAreGrids
<1>3. Scripted!GridOf' = G
  BY <1>2 DEF Scripted!GridOf
<1>4. script = "fast" /\ part # "done"
  <2>1. script # "fast" => pool = {}
    BY <1>1 DEF Workings
  <2>2. part = "done" => pool = {}
    BY DEF AdviceInv
  <2> QED BY <2>1, <2>2
<1>5. PICK c \in Nat : c = Cardinality(pool)
  BY <1>1, FS_CardinalityType
<1>6. PICK e \in Nat : e = Cardinality(failed)
  BY <1>1, FS_CardinalityType
<1>7. PICK m \in Nat : m = Len(results)
  BY <1>1
<1>8. IsFiniteSet(pool') /\ Cardinality(pool') = c - 1
  BY <1>1, <1>5, FS_RemoveElement
<1>9. v \in Labels /\ v \notin failed
  BY <1>1
<1>10. /\ IsFiniteSet(failed') /\ failed' \subseteq Labels /\ pool' \cap failed' = {}
       /\ results' \in Seq([label : Labels, score : Scores])
       /\ (Cardinality(failed') = e /\ Len(results') = m + 1)
          \/ (Cardinality(failed') = e + 1 /\ Len(results') = m)
  <2>1. CASE /\ failed' = failed
             /\ \E s \in Scores : results' = Append(results, [label |-> v, score |-> s])
    <3>1. PICK s \in Scores : results' = Append(results, [label |-> v, score |-> s])
      BY <2>1
    <3>2. PICK r \in [label : Labels, score : Scores] : r = [label |-> v, score |-> s]
      BY <1>9
    <3>3. results' \in Seq([label : Labels, score : Scores]) /\ Len(results') = m + 1
      BY <1>1, <1>7, <3>1, <3>2, AppendProperties
    <3> QED BY <1>1, <1>6, <2>1, <3>3
  <2>2. CASE failed' = failed \cup {v} /\ results' = results
    <3>1. IsFiniteSet(failed') /\ Cardinality(failed') = e + 1
      BY <1>1, <1>6, <1>9, <2>2, FS_AddElement
    <3> QED BY <1>1, <1>7, <1>9, <2>2, <3>1
  <2> QED BY <2>1, <2>2
<1>11. Taken' = Taken
  <2>1. Taken = m + c + e
    BY <1>5, <1>6, <1>7 DEF Taken
  <2>2. Taken' = Len(results') + Cardinality(pool') + Cardinality(failed')
    BY DEF Taken
  <2> QED BY <1>8, <1>10, <2>1, <2>2
<1>12. pool' \cup failed' \subseteq pool \cup failed
  OBVIOUS
<1>13. Workings(G)'
  BY <1>1, <1>2, <1>4, <1>11, <1>12 DEF Workings
<1>14. pool' \subseteq Labels
  BY <1>1
<1> QED BY <1>1, <1>3, <1>4, <1>8, <1>10, <1>13, <1>14 DEF AdviceInv

(* Nothing but the phase changes, and the replay is done when no variant   *)
(* waits or runs.                                                          *)
LEMMA AdviceRests ==
    ASSUME AdviceInv, UNCHANGED <<script, waiting, pool, results, failed>>,
           part' = "done" => part = "done" \/ (waiting = <<>> /\ pool = {})
    PROVE  AdviceInv'
<1>1. Scripted!GridOf' = Scripted!GridOf
  BY DEF Scripted!GridOf
<1>2. Workings(Scripted!GridOf)'
  BY <1>1 DEF AdviceInv, Workings, Taken
<1> QED BY <1>2 DEF AdviceInv

LEMMA AdviceStep == AdviceInv /\ [Scripted!Next]_Scripted!vars => AdviceInv'
<1> SUFFICES ASSUME AdviceInv, [Scripted!Next]_Scripted!vars PROVE AdviceInv'
  OBVIOUS
<1>1. CASE Scripted!FetchPage
  <2>1. UNCHANGED <<script, waiting, pool, results, failed>>
    BY <1>1 DEF Scripted!FetchPage
  <2>2. part = "fetch" /\ (part' = part \/ \E data : Scripted!NextInterval(data))
    BY <1>1 DEF Scripted!FetchPage
  <2>3. part' # "done"
    BY <2>2 DEF Scripted!NextInterval
  <2> QED BY <2>1, <2>3, AdviceRests
<1>2. CASE Scripted!FetchNothing
  BY <1>2, AdviceRests DEF Scripted!FetchNothing, Scripted!NextInterval
<1>9. CASE Scripted!RunnerFails
  BY <1>9, AdviceRests DEF Scripted!RunnerFails
<1>3. CASE \E s \in Scores : Scripted!RunVariant(s)
  BY <1>3, VariantRuns
<1>4. CASE Scripted!StartWorker
  BY <1>4, WorkerStarts
<1>5. CASE \E v \in Scripted!Variants, s \in Scores : Scripted!Collect(v, s)
  BY <1>5, WorkerEnds DEF Scripted!Collect
<1>6. CASE \E v \in Scripted!Variants : Scripted!WorkerFails(v)
  BY <1>6, WorkerEnds DEF Scripted!WorkerFails
<1>7. CASE Scripted!Done
  BY <1>7, AdviceRests DEF Scripted!Done
<1>8. CASE Scripted!Stopped \/ UNCHANGED Scripted!vars
  BY <1>8, AdviceRests DEF Scripted!Stopped, Scripted!vars
<1> QED BY <1>1, <1>2, <1>3, <1>4, <1>5, <1>6, <1>7, <1>8, <1>9
   DEF Scripted!Next, Scripted!SweepFetch, Scripted!BtcFetch, Scripted!FastFetch,
       Scripted!FullFetch, Scripted!ExtendedFetch, Scripted!ContinuationFetch,
       Scripted!SwingFetch, Scripted!RunnerFetch

(* Whatever the grid, the scores and the number of workers, and in         *)
(* whatever order they end: the advice is as good as in any other, and no  *)
(* variant is lost but those whose worker failed                           *)
(* (replay_v2_sweep_fast.py:995, 883-914).                                 *)
THEOREM AdviceHolds == Scripted!Spec => []Scripted!AdviceIsStable
<1>1. AdviceInv => Scripted!AdviceIsStable
  <2> SUFFICES ASSUME AdviceInv, part = "done", results # <<>>,
                      script \notin {"full", "runner"}
               PROVE  /\ Len(results) + Scripted!Cardinality(failed) = Len(Grid)
                      /\ script # "fast" =>
                            \A k \in DOMAIN results : results[k].label = Grid[k]
                      /\ script \in {"sweep", "btc", "fast"} =>
                            \A p \in Scripted!Bijection(DOMAIN results, DOMAIN results) :
                               LET other == [k \in DOMAIN results |-> results[p[k]]]
                               IN /\ Scripted!Advice(other).verdict
                                       = Scripted!Advice(results).verdict
                                  /\ Scripted!Advice(other).of.score.calmar
                                       = Scripted!Advice(results).of.score.calmar
    BY DEF Scripted!AdviceIsStable
  <2>1. /\ results \in Seq([label : Labels, score : Scores])
        /\ waiting = <<>> /\ pool = {} /\ IsFiniteSet(failed) /\ Workings(Grid)
    BY GridsAreGrids DEF AdviceInv
  <2>2. PICK n \in Nat : n = Len(results) /\ n # 0 /\ DOMAIN results = 1..n
    BY <2>1, EmptySeq
  <2>3. Len(results) + Scripted!Cardinality(failed) = Len(Grid)
    <3>1. Cardinality(pool) = 0
      BY <2>1, FS_EmptySet
    <3>2. PICK c \in Nat : c = Cardinality(failed)
      BY <2>1, FS_CardinalityType
    <3>3. Taken = n + c
      BY <2>2, <3>1, <3>2 DEF Taken
    <3>4. Len(Grid) = Len(waiting) + Taken
      BY <2>1 DEF Workings, Queued
    <3>5. Len(waiting) = 0
      BY <2>1
    <3>6. Scripted!Cardinality(failed) = Cardinality(failed)
      BY DEF Cardinality, Scripted!Cardinality
    <3> QED BY <2>2, <3>2, <3>3, <3>4, <3>5, <3>6
  <2>4. script # "fast" => \A k \in DOMAIN results : results[k].label = Grid[k]
    BY <2>1, <2>2 DEF Workings
  <2>5. ASSUME script \in {"sweep", "btc", "fast"},
               NEW p \in Scripted!Bijection(DOMAIN results, DOMAIN results),
               NEW other, other = [k \in DOMAIN results |-> results[p[k]]]
        PROVE  /\ Scripted!Advice(other).verdict = Scripted!Advice(results).verdict
               /\ Scripted!Advice(other).of.score.calmar
                     = Scripted!Advice(results).of.score.calmar
    <3>1. \A r : Scripted!Advice(r) = Scripted!SweepAdvice(r)
      <4>1. script = "sweep" \/ script = "btc" \/ script = "fast"
        BY <2>5
      <4> QED BY <4>1
          DEF Scripted!Advice, Scripted!BtcAdvice, Scripted!FastAdvice
    <3>2. p \in Scripted!Bijection(1..n, 1..n)
      BY <2>2, <2>5
    <3>3. Onto(p, n)
      BY <3>2 DEF Onto, Scripted!Bijection, Scripted!Injection, Scripted!Surjection
    <3>4. other = Other(results, p, n)
      BY <2>2, <2>5 DEF Other
    <3>5. Scored(results, n)
      <4>1. \A k \in 1..n : results[k] \in [label : Labels, score : Scores]
        BY <2>1, <2>2, ElementOfSeq
      <4> QED BY <2>2, <4>1 DEF Scored
    <3> QED BY <2>2, <3>1, <3>3, <3>4, <3>5, SweepIsStable
  <2> QED BY <2>3, <2>4, <2>5
<1> QED BY <1>1, AdviceStart, AdviceStep, PTL DEF Scripted!Spec

(* The variables of a script keep their types. *)
THEOREM ScriptTypeOK == Scripted!Spec => []Scripted!TypeOK
<1> DEFINE Cut == cuts \in 0..MaxCuts
<1>1. ScriptInv /\ AdviceInv /\ Cut => Scripted!TypeOK
  <2> SUFFICES ASSUME ScriptInv, AdviceInv, Cut PROVE Scripted!TypeOK
    OBVIOUS
  <2>1. pool \subseteq Scripted!Variants /\ failed \subseteq Scripted!Variants
    BY GridsAreGrids DEF AdviceInv
  <2> QED BY <2>1 DEF ScriptInv, Scripted!TypeOK
<1>2. Scripted!Init => Cut
  BY ScriptAssumption DEF Scripted!Init
<1>3. Cut /\ [Scripted!Next]_Scripted!vars => Cut'
  <2> SUFFICES ASSUME Cut, [Scripted!Next]_Scripted!vars PROVE Cut'
    OBVIOUS
  <2>1. CASE Scripted!FetchNothing \/ Scripted!RunnerFails
    BY <2>1, ScriptAssumption DEF Scripted!FetchNothing, Scripted!RunnerFails
  <2>2. CASE UNCHANGED cuts
    BY <2>2
  <2>3. Scripted!FetchPage => UNCHANGED cuts
    BY DEF Scripted!FetchPage
  <2>4. UNCHANGED Scripted!vars => UNCHANGED cuts
    BY DEF Scripted!vars
  <2>5. Scripted!Next => Scripted!FetchNothing \/ Scripted!RunnerFails \/ UNCHANGED cuts
    BY <2>3, <2>4
       DEF Scripted!Next, Scripted!RunVariant, Scripted!StartWorker, Scripted!Collect,
           Scripted!WorkerFails, Scripted!Done, Scripted!Stopped, Scripted!SweepFetch,
           Scripted!BtcFetch, Scripted!FastFetch, Scripted!FullFetch, Scripted!ExtendedFetch,
           Scripted!ContinuationFetch, Scripted!SwingFetch, Scripted!RunnerFetch
  <2> QED BY <2>1, <2>2, <2>4, <2>5
<1> QED BY <1>1, <1>2, <1>3, ScriptStart, ScriptStep, AdviceStart, AdviceStep, PTL
        DEF Scripted!Spec
-----------------------------------------------------------------------------
(***************************************************************************)
(* The liquidations of the v5 runner.  A tracker holds what the table held *)
(* when its symbol was fed; what changes the table since makes the symbol  *)
(* one that somebody still has to feed, and what the days and the pruning  *)
(* take from the table is too old to count in the tracker too.             *)
(***************************************************************************)
StillCounts(r) == r.date >= Cache!MinDate
InTable(s) == Cache!Latest(Cache!Cached(s, Cache!MinDate), KeepDays)
Matches(s) == {r \in tracker[s] : StillCounts(r)} = InTable(s)

TaskSteps == {"down", "idle", "next", "asking", "closes", "pause"}
Entries == {NoRow} \cup [volume : Nat, close : Int]
Answers == UNION {[0..d -> Volumes] : d \in 0..LastDay}
Histories == {NoRow} \cup Answers

CacheTyped ==
    /\ today \in 0..LastDay
    /\ faults \in Nat
    /\ DOMAIN rows = Streams /\ \A s \in Streams : DOMAIN rows[s] = 0..LastDay
    /\ DOMAIN committed.rows = Streams
    /\ \A s \in Streams : DOMAIN committed.rows[s] = 0..LastDay
    /\ \A s \in Streams, d \in 0..LastDay :
          rows[s][d] \in Entries /\ committed.rows[s][d] \in Entries
    /\ DOMAIN committed = {"rows", "lastDate"}
    /\ refresh \in [pc : TaskSteps, since : Int, todo : SUBSET Streams,
                    sym : Streams \cup {NoRow}, answer : Histories]
    /\ refresh.pc \in {"asking", "closes", "pause"} => refresh.sym \in Streams
    /\ refresh.pc \in {"down", "idle", "next"} => refresh.sym = NoRow
    /\ refresh.pc \notin {"down", "idle"} => refresh.since <= Cache!MinDate
    /\ refresh.pc = "closes" => refresh.answer \in Answers
    /\ refresh.pc = "down" => stream.pc = "off"
    /\ stream \in [pc : {"off", "on", "flush"}, since : Int, list : SUBSET Streams]
    /\ stream.pc = "flush" => stream.since <= Cache!MinDate
    /\ stream.pc # "flush" => stream.list = {}
    /\ dirty \subseteq Streams

(* A tracker holds no row that counts and is not in the table. *)
TrackerTyped ==
    /\ DOMAIN tracker = Streams /\ DOMAIN active = Streams
    /\ refresh.pc = "down" => \A s \in Streams : tracker[s] = {}
    /\ \A s \in Streams :
          /\ active[s] = Cache!Cascade(tracker[s])
          /\ \A r \in tracker[s] : /\ r.date \in 0..LastDay
                                   /\ StillCounts(r) => rows[s][r.date] # NoRow

CacheInv ==
    /\ CacheTyped
    /\ TrackerTyped
    /\ faults = 0 => \A s \in Streams : Cache!Settled(s) => Matches(s)

LEMMA NoCascade == Cache!Cascade({}) = FALSE
<1>1. Cache!Cardinality({}) = 0
  BY FS_EmptySet DEF Cache!Cardinality, Cardinality
<1>2. ~(0 >= MinLookback)
  BY CacheAssumption
<1> QED BY <1>1, <1>2 DEF Cache!Cascade

LEMMA NoneIsLatest == Cache!Latest({}, KeepDays) = {}
  BY DEF Cache!Latest

(* The latest of some rows, of those from a date on, are those of the rows *)
(* from that date on.                                                      *)
LEMMA LatestFrom ==
    ASSUME NEW C, \A r \in C : r.date \in Int, NEW m \in Int, NEW n
    PROVE  {r \in Cache!Latest(C, n) : r.date >= m}
              = Cache!Latest({r \in C : r.date >= m}, n)
<1> DEFINE D == {r \in C : r.date >= m}
<1>1. \A r \in D : {q \in D : q.date > r.date} = {q \in C : q.date > r.date}
  <2> SUFFICES ASSUME NEW r \in D, NEW q \in C, q.date > r.date PROVE q.date >= m
    OBVIOUS
  <2>1. q.date \in Int /\ r.date \in Int /\ r.date >= m
    OBVIOUS
  <2> QED BY <2>1
<1> QED BY <1>1 DEF Cache!Latest

LEMMA CachedFrom ==
    ASSUME NEW s, NEW k \in Int, NEW m \in Int, k <= m
    PROVE  /\ \A r \in Cache!Cached(s, k) : r.date \in 0..LastDay /\ rows[s][r.date] # NoRow
           /\ Cache!Cached(s, m) = {r \in Cache!Cached(s, k) : r.date >= m}
<1> DEFINE it(d) == [date |-> d, volume |-> rows[s][d].volume, close |-> rows[s][d].close]
           those(j) == {d \in 0..LastDay : d >= j /\ rows[s][d] # NoRow}
<1>1. \A j : Cache!Cached(s, j) = {it(d) : d \in those(j)}
  BY DEF Cache!Cached, Cache!Dates
<1>2. \A d : it(d).date = d
  OBVIOUS
<1>3. LastDay \in Nat
  BY CacheAssumption
<1>4. those(m) = {d \in those(k) : d >= m}
  BY <1>3
<1>5. \A d \in those(k) : d \in 0..LastDay /\ rows[s][d] # NoRow
  OBVIOUS
<1> HIDE DEF it, those
<1> QED BY <1>1, <1>2, <1>4, <1>5

(* A row of the table is among those read of it. *)
LEMMA CachedAll ==
    ASSUME NEW s, NEW k \in Int, NEW d \in 0..LastDay, d >= k, rows[s][d] # NoRow
    PROVE  Cache!Cached(s, k) # {}
  BY DEF Cache!Cached, Cache!Dates

LEMMA MinDateInt == CacheTyped => Cache!MinDate \in Int
  BY CacheAssumption DEF CacheTyped, Cache!MinDate

(* What is fed of a symbol is what the table holds of it. *)
LEMMA FeedAllKeeps ==
    ASSUME CacheTyped, TrackerTyped, NEW ss \in SUBSET Streams,
           NEW k \in Int, k <= Cache!MinDate,
           Cache!FeedAll(ss, k), UNCHANGED <<today, rows>>
    PROVE  /\ DOMAIN tracker' = Streams /\ DOMAIN active' = Streams
           /\ \A s \in Streams :
                 /\ active'[s] = Cache!Cascade(tracker'[s])
                 /\ \A r \in tracker'[s] : /\ r.date \in 0..LastDay
                                           /\ StillCounts(r)' => rows'[s][r.date] # NoRow
           /\ \A s \in ss : Matches(s)'
           /\ \A s \in Streams \ ss : tracker'[s] = tracker[s]
<1>1. PICK m \in Int : m = Cache!MinDate /\ k <= m
  BY MinDateInt
<1>2. Cache!MinDate' = m
  BY <1>1 DEF Cache!MinDate
<1>3. /\ DOMAIN tracker = Streams /\ DOMAIN active = Streams
      /\ \A s \in Streams : /\ active[s] = Cache!Cascade(tracker[s])
                            /\ \A r \in tracker[s] : /\ r.date \in 0..LastDay
                                                     /\ r.date >= m => rows[s][r.date] # NoRow
  BY <1>1 DEF TrackerTyped, StillCounts
<1>4. /\ DOMAIN tracker' = Streams /\ DOMAIN active' = Streams
      /\ \A s \in Streams :
            \/ /\ s \in ss /\ Cache!Cached(s, k) # {}
               /\ tracker'[s] = Cache!Fed(s, k) /\ active'[s] = Cache!Cascade(Cache!Fed(s, k))
            \/ /\ s \notin ss \/ Cache!Cached(s, k) = {}
               /\ tracker'[s] = tracker[s] /\ active'[s] = active[s]
  BY DEF Cache!FeedAll
<1>5. \A s, j : Cache!Cached(s, j)' = Cache!Cached(s, j)
  BY DEF Cache!Cached
<1>6. \A s \in Streams : Cache!Fed(s, k) \subseteq Cache!Cached(s, k)
  BY DEF Cache!Fed, Cache!Latest
<1>7. ASSUME NEW s \in Streams
      PROVE  /\ active'[s] = Cache!Cascade(tracker'[s])
             /\ \A r \in tracker'[s] : /\ r.date \in 0..LastDay
                                       /\ r.date >= m => rows[s][r.date] # NoRow
  BY <1>1, <1>3, <1>4, <1>6, CachedFrom
<1>8. ASSUME NEW s \in ss
      PROVE  {r \in tracker'[s] : r.date >= m} = Cache!Latest(Cache!Cached(s, m), KeepDays)
  <2>1. CASE Cache!Cached(s, k) # {}
    <3>1. tracker'[s] = Cache!Latest(Cache!Cached(s, k), KeepDays)
      BY <1>4, <2>1 DEF Cache!Fed
    <3>2. \A r \in Cache!Cached(s, k) : r.date \in Int
      BY <1>1, CacheAssumption, CachedFrom
    <3>3. Cache!Cached(s, m) = {r \in Cache!Cached(s, k) : r.date >= m}
      BY <1>1, CachedFrom
    <3> QED BY <3>1, <3>2, <3>3, LatestFrom
  <2>2. CASE Cache!Cached(s, k) = {}
    <3>1. tracker'[s] = tracker[s]
      BY <1>4, <2>2
    <3>2. Cache!Cached(s, m) = {}
      BY <1>1, <2>2, CachedFrom
    <3>3. ASSUME NEW r \in tracker[s], r.date >= m PROVE FALSE
      <4>1. r.date \in 0..LastDay /\ rows[s][r.date] # NoRow
        BY <1>3, <3>3
      <4>2. PICK d \in 0..LastDay : d = r.date /\ d >= m /\ rows[s][d] # NoRow
        BY <3>3, <4>1
      <4>3. d >= k
        BY <1>1, <4>2, CacheAssumption
      <4> QED BY <2>2, <4>2, <4>3, CachedAll
    <3> QED BY <3>1, <3>2, <3>3, NoneIsLatest
  <2> QED BY <2>1, <2>2
<1>9. \A s \in ss : Matches(s)'
  BY <1>2, <1>5, <1>8 DEF Matches, StillCounts, InTable
<1> QED BY <1>2, <1>4, <1>7, <1>9 DEF StillCounts

(* What moves neither the table nor a tracker owes a symbol no feed less.  *)
LEMMA NothingFed ==
    ASSUME CacheInv, CacheTyped', UNCHANGED <<today, rows, tracker, active>>,
           refresh'.pc = "down" => refresh.pc = "down",
           faults' = 0 => faults = 0 /\ \A s \in Streams : Cache!Settled(s)' => Cache!Settled(s)
    PROVE  CacheInv'
<1>1. \A s : Matches(s)' <=> Matches(s)
  BY DEF Matches, StillCounts, InTable, Cache!Cached, Cache!MinDate
<1>2. TrackerTyped'
  BY DEF CacheInv, TrackerTyped, StillCounts, Cache!MinDate
<1> QED BY <1>1, <1>2 DEF CacheInv

LEMMA CacheStart == Cache!Init => CacheInv
<1> SUFFICES ASSUME Cache!Init PROVE CacheInv
  OBVIOUS
<1>1. CacheTyped
  BY CacheAssumption
     DEF Cache!Init, CacheTyped, Cache!NoRows, Cache!Task, Cache!Idle, Cache!Dates, TaskSteps,
         Histories, Entries
<1>2. /\ tracker = [s \in Streams |-> {}] /\ active = [s \in Streams |-> FALSE]
      /\ refresh.pc = "down"
  BY DEF Cache!Init, Cache!Task
<1>3. TrackerTyped
  BY <1>2, NoCascade DEF TrackerTyped
<1>4. \A s \in Streams : ~Cache!Settled(s)
  BY <1>2 DEF Cache!Settled
<1> QED BY <1>1, <1>3, <1>4 DEF CacheInv

LEMMA NoKeyKeeps == ASSUME CacheInv, NEW s \in Streams, Cache!NoKey(s) PROVE CacheInv'
<1>1. /\ refresh.pc = "next" /\ refresh' = [refresh EXCEPT !.todo = @ \ {s}] /\ ~key
      /\ UNCHANGED <<today, rows, committed, tracker, active, stream, dirty, key, faults>>
  BY DEF Cache!NoKey, Cache!Left
<1>2. CacheTyped'
  BY <1>1 DEF CacheInv, CacheTyped, Cache!MinDate
<1>3. \A t \in Streams : Cache!Settled(t)' => Cache!Settled(t)
  BY <1>1 DEF Cache!Settled
<1>4. refresh'.pc = refresh.pc
  BY <1>1 DEF CacheInv, CacheTyped
<1> QED BY <1>1, <1>2, <1>3, <1>4, NothingFed

LEMMA AskKeeps == ASSUME CacheInv, NEW s \in Streams, Cache!Ask(s) PROVE CacheInv'
<1>1. /\ refresh.pc = "next"
      /\ refresh' = [[refresh EXCEPT !.todo = @ \ {s}] EXCEPT !.pc = "asking", !.sym = s]
      /\ UNCHANGED <<today, rows, committed, tracker, active, stream, dirty, key, faults>>
  BY DEF Cache!Ask, Cache!Left
<1>2. /\ refresh'.pc = "asking" /\ refresh'.sym = s /\ refresh'.todo = refresh.todo \ {s}
      /\ refresh'.since = refresh.since /\ refresh'.answer = refresh.answer
      /\ refresh' \in [pc : TaskSteps, since : Int, todo : SUBSET Streams,
                       sym : Streams \cup {NoRow}, answer : Histories]
  BY <1>1 DEF CacheInv, CacheTyped, TaskSteps
<1>3. CacheTyped'
  BY <1>1, <1>2 DEF CacheInv, CacheTyped, Cache!MinDate
<1>4. refresh.sym = NoRow
  BY <1>1 DEF CacheInv, CacheTyped
<1>5. \A t \in Streams : Cache!Settled(t)' => Cache!Settled(t)
  BY <1>1, <1>2, <1>4, CacheAssumption DEF Cache!Settled
<1> QED BY <1>1, <1>2, <1>3, <1>5, NothingFed

LEMMA AnsweredKeeps ==
    ASSUME CacheInv, NEW d \in 0..today, NEW h \in [0..d -> Volumes], Cache!Answered(h)
    PROVE  CacheInv'
<1>1. /\ refresh.pc = "asking" /\ refresh' = [refresh EXCEPT !.pc = "closes", !.answer = h]
      /\ UNCHANGED <<today, rows, committed, tracker, active, stream, dirty, key, faults>>
  BY DEF Cache!Answered
<1>2. h \in Answers
  <2>1. d \in 0..LastDay
    BY CacheAssumption DEF CacheInv, CacheTyped
  <2> QED BY <2>1 DEF Answers
<1>3. /\ refresh'.pc = "closes" /\ refresh'.sym = refresh.sym /\ refresh'.todo = refresh.todo
      /\ refresh'.since = refresh.since /\ refresh'.answer = h
      /\ refresh' \in [pc : TaskSteps, since : Int, todo : SUBSET Streams,
                       sym : Streams \cup {NoRow}, answer : Histories]
  BY <1>1, <1>2 DEF CacheInv, CacheTyped, TaskSteps, Histories
<1>4. CacheTyped'
  BY <1>1, <1>2, <1>3 DEF CacheInv, CacheTyped, Cache!MinDate
<1>5. \A t \in Streams : Cache!Settled(t)' => Cache!Settled(t)
  BY <1>1, <1>3 DEF Cache!Settled
<1> QED BY <1>1, <1>3, <1>4, <1>5, NothingFed

LEMMA NoAnswerKeeps == ASSUME CacheInv, Cache!NoAnswer PROVE CacheInv'
<1>1. /\ refresh.pc = "asking" /\ refresh' = [refresh EXCEPT !.pc = "pause"]
      /\ UNCHANGED <<today, rows, committed, tracker, active, stream, dirty, key, faults>>
  BY DEF Cache!NoAnswer
<1>2. /\ refresh'.pc = "pause" /\ refresh'.sym = refresh.sym /\ refresh'.todo = refresh.todo
      /\ refresh'.since = refresh.since
      /\ refresh' \in [pc : TaskSteps, since : Int, todo : SUBSET Streams,
                       sym : Streams \cup {NoRow}, answer : Histories]
  BY <1>1 DEF CacheInv, CacheTyped, TaskSteps
<1>3. CacheTyped'
  BY <1>1, <1>2 DEF CacheInv, CacheTyped, Cache!MinDate
<1>4. \A t \in Streams : Cache!Settled(t)' => Cache!Settled(t)
  BY <1>1, <1>2 DEF Cache!Settled
<1> QED BY <1>1, <1>2, <1>3, <1>4, NothingFed

(* After a symbol is done there is none in turn. *)
LEMMA DoneFields ==
    ASSUME CacheTyped, refresh' = Cache!SymbolDone
    PROVE  /\ refresh'.pc = "next" /\ refresh'.sym = NoRow
           /\ refresh'.todo = refresh.todo /\ refresh'.since = refresh.since
           /\ refresh' \in [pc : TaskSteps, since : Int, todo : SUBSET Streams,
                            sym : Streams \cup {NoRow}, answer : Histories]
<1>1. NoRow \in Histories
  BY DEF Histories
<1> QED BY <1>1 DEF Cache!SymbolDone, CacheTyped, TaskSteps

LEMMA SymbolFailsKeeps == ASSUME CacheInv, Cache!SymbolFails PROVE CacheInv'
<1>1. /\ refresh.pc \in {"closes", "pause"} /\ refresh' = Cache!SymbolDone
      /\ faults' = faults + 1
      /\ UNCHANGED <<today, rows, committed, tracker, active, stream, dirty, key>>
  BY DEF Cache!SymbolFails
<1>2. /\ refresh'.pc = "next" /\ refresh'.sym = NoRow
      /\ refresh'.todo = refresh.todo /\ refresh'.since = refresh.since
      /\ refresh' \in [pc : TaskSteps, since : Int, todo : SUBSET Streams,
                       sym : Streams \cup {NoRow}, answer : Histories]
  BY <1>1, DoneFields DEF CacheInv
<1>3. faults' \in Nat /\ faults' # 0
  BY <1>1 DEF CacheInv, CacheTyped
<1>4. CacheTyped'
  BY <1>1, <1>2, <1>3 DEF CacheInv, CacheTyped, Cache!MinDate
<1> QED BY <1>1, <1>2, <1>3, <1>4, NothingFed

LEMMA RefreshedKeeps == ASSUME CacheInv, Cache!Refreshed PROVE CacheInv'
<1>1. /\ refresh.pc = "next" /\ refresh.todo = {} /\ refresh' = Cache!Task("idle")
      /\ committed' = [rows |-> rows, lastDate |-> today]
      /\ stream' = IF stream.pc = "off" THEN [stream EXCEPT !.pc = "on"] ELSE stream
      /\ UNCHANGED <<today, rows, tracker, active, dirty, key, faults>>
  BY DEF Cache!Refreshed
<1>2. /\ refresh'.pc = "idle" /\ refresh'.todo = {} /\ refresh'.sym = NoRow
      /\ refresh' \in [pc : TaskSteps, since : Int, todo : SUBSET Streams,
                       sym : Streams \cup {NoRow}, answer : Histories]
  BY <1>1 DEF Cache!Task, TaskSteps, Histories
<1>3. /\ stream'.list = stream.list /\ stream'.since = stream.since
      /\ stream'.pc = "flush" <=> stream.pc = "flush"
      /\ stream' \in [pc : {"off", "on", "flush"}, since : Int, list : SUBSET Streams]
  BY <1>1 DEF CacheInv, CacheTyped
<1>4. CacheTyped'
  BY <1>1, <1>2, <1>3 DEF CacheInv, CacheTyped, Cache!MinDate
<1>5. refresh.sym = NoRow
  BY <1>1 DEF CacheInv, CacheTyped
<1>6. \A t \in Streams : Cache!Settled(t)' => Cache!Settled(t)
  BY <1>1, <1>2, <1>3, <1>5 DEF Cache!Settled
<1> QED BY <1>1, <1>2, <1>4, <1>6, NothingFed

LEMMA FlushFailsKeeps == ASSUME CacheInv, Cache!FlushFails PROVE CacheInv'
<1>1. /\ stream.pc = "flush" /\ stream' = Cache!Idle("on") /\ faults' = faults + 1
      /\ UNCHANGED <<today, rows, committed, tracker, active, refresh, dirty, key>>
  BY DEF Cache!FlushFails
<1>2. faults' \in Nat /\ faults' # 0
  BY <1>1 DEF CacheInv, CacheTyped
<1>3. CacheTyped'
  BY <1>1, <1>2 DEF CacheInv, CacheTyped, Cache!MinDate, Cache!Idle
<1> QED BY <1>1, <1>2, <1>3, NothingFed

LEMMA OtherCommitKeeps == ASSUME CacheInv, Cache!OtherCommit PROVE CacheInv'
<1>1. /\ committed' = [committed EXCEPT !.rows = rows]
      /\ UNCHANGED <<today, rows, tracker, active, refresh, stream, dirty, key, faults>>
  BY DEF Cache!OtherCommit, Cache!Committed, Cache!memory
<1>2. CacheTyped'
  BY <1>1 DEF CacheInv, CacheTyped, Cache!MinDate
<1>3. \A t \in Streams : Cache!Settled(t)' => Cache!Settled(t)
  BY <1>1 DEF Cache!Settled
<1> QED BY <1>1, <1>2, <1>3, NothingFed

(* A feed of some symbols settles them, and no other. *)
LEMMA FeedSettles ==
    ASSUME CacheInv, CacheTyped', NEW ss \in SUBSET Streams, NEW k \in Int, k <= Cache!MinDate,
           Cache!FeedAll(ss, k), UNCHANGED <<today, rows, faults>>,
           refresh'.pc # "down",
           \A s \in Streams \ ss :
              tracker'[s] = tracker[s] => (Cache!Settled(s)' => Cache!Settled(s))
    PROVE  CacheInv'
<1>1. /\ DOMAIN tracker' = Streams /\ DOMAIN active' = Streams
      /\ \A s \in Streams :
            /\ active'[s] = Cache!Cascade(tracker'[s])
            /\ \A r \in tracker'[s] : /\ r.date \in 0..LastDay
                                      /\ StillCounts(r)' => rows'[s][r.date] # NoRow
      /\ \A s \in ss : Matches(s)'
      /\ \A s \in Streams \ ss : tracker'[s] = tracker[s]
  BY FeedAllKeeps DEF CacheInv
<1>2. TrackerTyped'
  BY <1>1 DEF TrackerTyped
<1>3. ASSUME faults' = 0, NEW s \in Streams, Cache!Settled(s)' PROVE Matches(s)'
  <2>1. CASE s \in ss
    BY <1>1, <2>1
  <2>2. CASE s \notin ss
    <3>1. Cache!Settled(s) /\ tracker'[s] = tracker[s]
      BY <1>1, <1>3, <2>2
    <3>2. Matches(s)
      BY <1>3, <3>1 DEF CacheInv
    <3> QED BY <3>1, <3>2 DEF Matches, StillCounts, InTable, Cache!Cached, Cache!MinDate
  <2> QED BY <2>1, <2>2
<1> QED BY <1>2, <1>3 DEF CacheInv

LEMMA SkipKeeps == ASSUME CacheInv, NEW s \in Streams, Cache!Skip(s) PROVE CacheInv'
<1>1. /\ refresh.pc = "next" /\ refresh' = [refresh EXCEPT !.todo = @ \ {s}]
      /\ Cache!FeedAll({s}, refresh.since)
      /\ UNCHANGED <<today, rows, committed, stream, dirty, key, faults>>
  BY DEF Cache!Skip, Cache!Left
<1>2. PICK k \in Int : k = refresh.since /\ k <= Cache!MinDate
  BY <1>1 DEF CacheInv, CacheTyped
<1>3. CacheTyped'
  BY <1>1 DEF CacheInv, CacheTyped, Cache!MinDate
<1>4. refresh'.pc = "next"
  BY <1>1 DEF CacheInv, CacheTyped
<1>5. \A t \in Streams \ {s} :
         tracker'[t] = tracker[t] => (Cache!Settled(t)' => Cache!Settled(t))
  BY <1>1 DEF Cache!Settled
<1>6. Cache!FeedAll({s}, k)
  BY <1>1, <1>2
<1> QED BY <1>1, <1>2, <1>3, <1>4, <1>5, <1>6, FeedSettles

LEMMA FeedKeeps == ASSUME CacheInv, Cache!Feed PROVE CacheInv'
<1>1. /\ refresh.pc = "pause" /\ refresh' = Cache!SymbolDone
      /\ Cache!FeedAll({refresh.sym}, refresh.since)
      /\ UNCHANGED <<today, rows, committed, stream, dirty, key, faults>>
  BY DEF Cache!Feed
<1>2. PICK k \in Int : k = refresh.since /\ k <= Cache!MinDate
  BY <1>1 DEF CacheInv, CacheTyped
<1>3. PICK s \in Streams : s = refresh.sym
  BY <1>1 DEF CacheInv, CacheTyped
<1>4. /\ refresh'.pc = "next" /\ refresh'.sym = NoRow
      /\ refresh'.todo = refresh.todo /\ refresh'.since = refresh.since
      /\ refresh' \in [pc : TaskSteps, since : Int, todo : SUBSET Streams,
                       sym : Streams \cup {NoRow}, answer : Histories]
  BY <1>1, DoneFields DEF CacheInv
<1>5. CacheTyped'
  BY <1>1, <1>4 DEF CacheInv, CacheTyped, Cache!MinDate
<1>6. \A t \in Streams \ {s} :
         tracker'[t] = tracker[t] => (Cache!Settled(t)' => Cache!Settled(t))
  BY <1>1, <1>3, <1>4 DEF Cache!Settled
<1>7. Cache!FeedAll({s}, k)
  BY <1>1, <1>2, <1>3
<1> QED BY <1>1, <1>2, <1>4, <1>5, <1>6, <1>7, FeedSettles

LEMMA FlushKeeps == ASSUME CacheInv, Cache!Flush PROVE CacheInv'
<1>1. /\ stream.pc = "flush" /\ stream' = Cache!Idle("on")
      /\ Cache!FeedAll(stream.list, stream.since)
      /\ UNCHANGED <<today, rows, committed, refresh, dirty, key, faults>>
  BY DEF Cache!Flush
<1>2. PICK k \in Int : k = stream.since /\ k <= Cache!MinDate
  BY <1>1 DEF CacheInv, CacheTyped
<1>3. PICK ss \in SUBSET Streams : ss = stream.list
  BY DEF CacheInv, CacheTyped
<1>4. CacheTyped' /\ stream'.list = {}
  BY <1>1 DEF CacheInv, CacheTyped, Cache!MinDate, Cache!Idle
<1>5. \A t \in Streams \ ss :
         tracker'[t] = tracker[t] => (Cache!Settled(t)' => Cache!Settled(t))
  BY <1>1, <1>3, <1>4 DEF Cache!Settled
<1>6. Cache!FeedAll(ss, k)
  BY <1>1, <1>2, <1>3
<1>7. CASE refresh.pc # "down"
  BY <1>1, <1>2, <1>4, <1>5, <1>6, <1>7, FeedSettles
<1>8. CASE refresh.pc = "down"
  BY <1>1, <1>8 DEF CacheInv, CacheTyped
<1> QED BY <1>7, <1>8

(* The rows of a symbol from a date on, where they have not changed. *)
LEMMA CachedSame ==
    ASSUME NEW s, NEW k \in Int, \A d \in 0..LastDay : d >= k => rows'[s][d] = rows[s][d]
    PROVE  Cache!Cached(s, k)' = Cache!Cached(s, k)
<1> DEFINE it(d) == [date |-> d, volume |-> rows[s][d].volume, close |-> rows[s][d].close]
           new(d) == [date |-> d, volume |-> rows'[s][d].volume, close |-> rows'[s][d].close]
           those == {d \in 0..LastDay : d >= k /\ rows[s][d] # NoRow}
<1>1. Cache!Cached(s, k) = {it(d) : d \in those}
  BY DEF Cache!Cached, Cache!Dates
<1>2. Cache!Cached(s, k)' = {new(d) : d \in {d \in 0..LastDay : d >= k /\ rows'[s][d] # NoRow}}
  BY DEF Cache!Cached, Cache!Dates
<1>3. {d \in 0..LastDay : d >= k /\ rows'[s][d] # NoRow} = those
  OBVIOUS
<1>4. \A d \in those : new(d) = it(d)
  OBVIOUS
<1> HIDE DEF it, new, those
<1> QED BY <1>1, <1>2, <1>3, <1>4

(* A change of the table that takes no row that counts, and touches none   *)
(* of a symbol that stays settled.                                         *)
LEMMA TableChanges ==
    ASSUME CacheInv, CacheTyped', UNCHANGED <<today, tracker, active, faults>>,
           refresh'.pc = "down" => refresh.pc = "down",
           \A s \in Streams, d \in 0..LastDay :
              d >= Cache!MinDate /\ rows[s][d] # NoRow => rows'[s][d] # NoRow,
           \A s \in Streams : Cache!Settled(s)' =>
              /\ Cache!Settled(s)
              /\ \A d \in 0..LastDay : d >= Cache!MinDate => rows'[s][d] = rows[s][d]
    PROVE  CacheInv'
<1>1. PICK m \in Int : m = Cache!MinDate
  BY MinDateInt DEF CacheInv
<1>2. Cache!MinDate' = m
  BY <1>1 DEF Cache!MinDate
<1>3. TrackerTyped'
  <2>1. ASSUME NEW s \in Streams, NEW r \in tracker[s]
        PROVE  r.date \in 0..LastDay /\ (StillCounts(r)' => rows'[s][r.date] # NoRow)
    BY <1>1, <1>2, <2>1 DEF CacheInv, TrackerTyped, StillCounts
  <2> QED BY <2>1 DEF CacheInv, TrackerTyped
<1>4. ASSUME faults' = 0, NEW s \in Streams, Cache!Settled(s)' PROVE Matches(s)'
  <2>1. Matches(s)
    BY <1>4 DEF CacheInv
  <2>2. Cache!Cached(s, m)' = Cache!Cached(s, m)
    <3>1. \A d \in 0..LastDay : d >= m => rows'[s][d] = rows[s][d]
      BY <1>1, <1>4
    <3> QED BY <3>1, CachedSame
  <2> QED BY <1>1, <1>2, <2>1, <2>2 DEF Matches, StillCounts, InTable
<1> QED BY <1>3, <1>4 DEF CacheInv

LEMMA RefreshKeeps == ASSUME CacheInv, Cache!Refresh PROVE CacheInv'
<1>1. /\ refresh.pc \in {"down", "idle"} /\ rows' = Cache!Pruned
      /\ committed' = [committed EXCEPT !.rows = Cache!Pruned]
      /\ refresh' = [Cache!Task("next") EXCEPT !.since = Cache!MinDate, !.todo = Streams]
      /\ UNCHANGED <<today, tracker, active, stream, dirty, key, faults>>
  BY DEF Cache!Refresh, Cache!Committed
<1>2. PICK m \in Int : m = Cache!MinDate
  BY MinDateInt DEF CacheInv
<1>3. /\ refresh'.pc = "next" /\ refresh'.sym = NoRow /\ refresh'.todo = Streams
      /\ refresh'.since = m
      /\ refresh' \in [pc : TaskSteps, since : Int, todo : SUBSET Streams,
                       sym : Streams \cup {NoRow}, answer : Histories]
  BY <1>1, <1>2 DEF Cache!Task, TaskSteps, Histories
<1>4. /\ DOMAIN rows' = Streams
      /\ \A s \in Streams : /\ DOMAIN rows'[s] = 0..LastDay
                            /\ \A d \in 0..LastDay :
                                  rows'[s][d] = IF d < m THEN NoRow ELSE rows[s][d]
  BY <1>1, <1>2 DEF Cache!Pruned, Cache!Dates
<1>5. Cache!MinDate' = m
  BY <1>1, <1>2 DEF Cache!MinDate
<1>6. DOMAIN committed' = {"rows", "lastDate"} /\ committed'.rows = rows'
  BY <1>1 DEF CacheInv, CacheTyped
<1>7. \A s \in Streams, d \in 0..LastDay : rows'[s][d] \in Entries
  BY <1>4 DEF CacheInv, CacheTyped, Entries
<1>8. CacheTyped'
  BY <1>1, <1>2, <1>3, <1>4, <1>5, <1>6, <1>7 DEF CacheInv, CacheTyped
<1>9. \A d \in 0..LastDay : d >= m => ~(d < m)
  BY CacheAssumption
<1>10. ASSUME NEW s \in Streams, Cache!Settled(s)' PROVE Cache!Settled(s)
  BY <1>1, <1>3, <1>10 DEF Cache!Settled
<1>11. \A s \in Streams, d \in 0..LastDay : d >= m => rows'[s][d] = rows[s][d]
  BY <1>4, <1>9
<1> QED BY <1>1, <1>2, <1>3, <1>8, <1>10, <1>11, TableChanges

LEMMA SeedKeeps == ASSUME CacheInv, NEW c \in Closes \cup {0}, Cache!Seed(c) PROVE CacheInv'
<1>1. /\ refresh.pc = "closes" /\ rows' = Cache!Seeded(refresh.sym, refresh.answer, c)
      /\ committed' = [committed EXCEPT !.rows = rows']
      /\ refresh' = [refresh EXCEPT !.pc = "pause", !.answer = NoRow]
      /\ UNCHANGED <<today, tracker, active, stream, dirty, key, faults>>
  BY DEF Cache!Seed, Cache!Committed
<1>2. PICK s \in Streams : s = refresh.sym
  BY <1>1 DEF CacheInv, CacheTyped
<1>3. /\ refresh'.pc = "pause" /\ refresh'.sym = s /\ refresh'.todo = refresh.todo
      /\ refresh'.since = refresh.since
      /\ refresh' \in [pc : TaskSteps, since : Int, todo : SUBSET Streams,
                       sym : Streams \cup {NoRow}, answer : Histories]
  BY <1>1, <1>2 DEF CacheInv, CacheTyped, TaskSteps, Histories
<1>4. PICK h : h = refresh.answer
  OBVIOUS
<1>5. /\ DOMAIN rows = Streams /\ \A t \in Streams : DOMAIN rows[t] = 0..LastDay
      /\ rows' = [rows EXCEPT ![s] = [d \in 0..LastDay |->
                    IF d \in DOMAIN h THEN [volume |-> h[d], close |-> c] ELSE @[d]]]
  BY <1>1, <1>2, <1>4 DEF Cache!Seeded, Cache!Dates, CacheInv, CacheTyped
<1>6. /\ DOMAIN rows' = Streams
      /\ \A t \in Streams : DOMAIN rows'[t] = 0..LastDay
      /\ \A t \in Streams : t # s => rows'[t] = rows[t]
      /\ \A d \in 0..LastDay :
            rows'[s][d] = IF d \in DOMAIN h THEN [volume |-> h[d], close |-> c] ELSE rows[s][d]
  BY <1>5
<1>7. DOMAIN committed' = {"rows", "lastDate"} /\ committed'.rows = rows'
  BY <1>1 DEF CacheInv, CacheTyped
<1>8. \A d \in DOMAIN h : [volume |-> h[d], close |-> c] \in [volume : Nat, close : Int]
  <2>1. c \in Int
    BY CacheAssumption
  <2>2. h \in Answers
    BY <1>1, <1>4 DEF CacheInv, CacheTyped
  <2>3. PICK k \in 0..LastDay : h \in [0..k -> Volumes]
    BY <2>2 DEF Answers
  <2>4. \A d \in DOMAIN h : h[d] \in Nat
    BY <2>3, CacheAssumption
  <2> QED BY <2>1, <2>4
<1>9. \A d \in 0..LastDay : rows'[s][d] \in Entries /\ (rows[s][d] # NoRow => rows'[s][d] # NoRow)
  <2> SUFFICES ASSUME NEW d \in 0..LastDay
               PROVE  rows'[s][d] \in Entries /\ (rows[s][d] # NoRow => rows'[s][d] # NoRow)
    OBVIOUS
  <2>1. CASE d \in DOMAIN h
    <3>1. rows'[s][d] \in [volume : Nat, close : Int]
      BY <1>6, <1>8, <2>1
    <3> QED BY <3>1, CacheAssumption DEF Entries
  <2>2. CASE d \notin DOMAIN h
    <3>1. rows'[s][d] = rows[s][d]
      BY <1>6, <2>2
    <3> QED BY <3>1 DEF CacheInv, CacheTyped
  <2> QED BY <2>1, <2>2
<1>10. CacheTyped'
  BY <1>1, <1>3, <1>6, <1>7, <1>9 DEF CacheInv, CacheTyped, Cache!MinDate
<1>11. \A t \in Streams : Cache!Settled(t)' => t # s /\ Cache!Settled(t)
  BY <1>1, <1>2, <1>3 DEF Cache!Settled
<1> QED BY <1>1, <1>3, <1>6, <1>9, <1>10, <1>11, TableChanges

LEMMA MessageKeeps ==
    ASSUME CacheInv, NEW s \in Streams, NEW d \in 0..LastDay, NEW c \in Closes, Cache!Message(s, d, c)
    PROVE  CacheInv'
<1>1. /\ stream.pc = "on" /\ rows' = Cache!Volume(s, d, c)
      /\ \/ dirty' = dirty \cup {s} /\ UNCHANGED <<committed, stream>>
         \/ /\ committed' = [committed EXCEPT !.rows = rows']
            /\ stream' = [pc |-> "flush", since |-> Cache!MinDate, list |-> dirty \cup {s}]
            /\ dirty' = {}
      /\ UNCHANGED <<today, tracker, active, refresh, key, faults>>
  BY DEF Cache!Message, Cache!Committed
<1>2. PICK v \in Nat : rows' = [rows EXCEPT ![s][d] = [volume |-> v, close |-> c]]
  <2>1. PICK old : /\ old = IF rows[s][d] = NoRow THEN 0 ELSE rows[s][d].volume
                   /\ rows' = [rows EXCEPT ![s][d] = [volume |-> old + 1, close |-> c]]
    BY <1>1 DEF Cache!Volume
  <2>2. old \in Nat
    BY <2>1 DEF CacheInv, CacheTyped, Entries
  <2>3. old + 1 \in Nat
    BY <2>2
  <2> QED BY <2>1, <2>3
<1>3. /\ DOMAIN rows' = Streams
      /\ \A t \in Streams : DOMAIN rows'[t] = 0..LastDay
      /\ \A t \in Streams : t # s => rows'[t] = rows[t]
      /\ \A e \in 0..LastDay :
            rows'[s][e] = IF e = d THEN [volume |-> v, close |-> c] ELSE rows[s][e]
  BY <1>2 DEF CacheInv, CacheTyped
<1>4. PICK m \in Int : m = Cache!MinDate
  BY MinDateInt DEF CacheInv
<1>5. Cache!MinDate' = m
  BY <1>1, <1>4 DEF Cache!MinDate
<1>6. /\ stream' \in [pc : {"off", "on", "flush"}, since : Int, list : SUBSET Streams]
      /\ dirty' \subseteq Streams
      /\ dirty \cup {s} \subseteq dirty' \cup stream'.list
      /\ stream'.pc = "flush" => stream'.since <= m
      /\ stream'.pc # "flush" => stream'.list = {}
  BY <1>1, <1>4 DEF CacheInv, CacheTyped
<1>7. /\ DOMAIN committed' = {"rows", "lastDate"}
      /\ committed'.rows = committed.rows \/ committed'.rows = rows'
  BY <1>1 DEF CacheInv, CacheTyped
<1>8. refresh.pc # "down"
  BY <1>1 DEF CacheInv, CacheTyped
<1>9. [volume |-> v, close |-> c] \in [volume : Nat, close : Int]
  BY CacheAssumption
<1>10. \A t \in Streams, e \in 0..LastDay :
          rows'[t][e] \in Entries /\ (rows[t][e] # NoRow => rows'[t][e] # NoRow)
  BY <1>3, <1>9, CacheAssumption DEF CacheInv, CacheTyped, Entries
<1>11. CacheTyped'
  BY <1>1, <1>3, <1>4, <1>5, <1>6, <1>7, <1>8, <1>10 DEF CacheInv, CacheTyped
<1>12. stream.list = {}
  BY <1>1 DEF CacheInv, CacheTyped
<1>13. \A t \in Streams : Cache!Settled(t)' => t # s /\ Cache!Settled(t)
  BY <1>1, <1>6, <1>12 DEF Cache!Settled
<1> QED BY <1>1, <1>3, <1>11, <1>10, <1>13, TableChanges

(* What leaves the days that count leaves the tracker's and the table's.   *)
LEMMA MidnightKeeps == ASSUME CacheInv, Cache!Midnight PROVE CacheInv'
<1>1. /\ today < LastDay /\ today' = today + 1
      /\ UNCHANGED <<rows, committed, tracker, active, refresh, stream, dirty, key, faults>>
  BY DEF Cache!Midnight, Cache!memory
<1>2. PICK m \in Int : m = Cache!MinDate
  BY MinDateInt DEF CacheInv
<1>3. today \in 0..LastDay /\ LastDay \in Nat /\ MaxDays \in Nat
  BY CacheAssumption DEF CacheInv, CacheTyped
<1>4. Cache!MinDate' = m + 1
  BY <1>1, <1>2, <1>3 DEF Cache!MinDate
<1>5. today' \in 0..LastDay
  BY <1>1, <1>3
<1>6. /\ refresh.pc \notin {"down", "idle"} => refresh.since <= m + 1
      /\ stream.pc = "flush" => stream.since <= m + 1
  <2>1. refresh.since \in Int /\ stream.since \in Int
    BY DEF CacheInv, CacheTyped
  <2>2. PICK a \in Int, b \in Int : a = refresh.since /\ b = stream.since
    BY <2>1
  <2>3. (a <= m => a <= m + 1) /\ (b <= m => b <= m + 1)
    OBVIOUS
  <2> QED BY <1>2, <2>2, <2>3, Zenon DEF CacheInv, CacheTyped
<1>7. CacheTyped'
  BY <1>1, <1>4, <1>5, <1>6 DEF CacheInv, CacheTyped
<1>8. \A s \in Streams : \A r \in tracker[s] : /\ r.date \in 0..LastDay
                                               /\ r.date >= m => rows[s][r.date] # NoRow
  BY <1>2 DEF CacheInv, TrackerTyped, StillCounts
<1>9. TrackerTyped'
  <2>1. ASSUME NEW s \in Streams, NEW r \in tracker[s], r.date >= m + 1
        PROVE  rows[s][r.date] # NoRow
    <3>1. r.date \in Int
      BY <1>3, <1>8, <2>1
    <3>2. r.date >= m
      BY <2>1, <3>1
    <3> QED BY <1>8, <2>1, <3>2
  <2> QED BY <1>1, <1>4, <1>8, <2>1 DEF CacheInv, TrackerTyped, StillCounts
<1>10. ASSUME faults' = 0, NEW s \in Streams, Cache!Settled(s)' PROVE Matches(s)'
  <2>1. Cache!Settled(s)
    BY <1>1, <1>10 DEF Cache!Settled
  <2>2. {r \in tracker[s] : r.date >= m} = Cache!Latest(Cache!Cached(s, m), KeepDays)
    BY <1>1, <1>2, <1>10, <2>1 DEF CacheInv, Matches, StillCounts, InTable
  <2>3. PICK held : held = tracker[s]
    OBVIOUS
  <2>4. \A r \in held : r.date \in Int
    BY <1>3, <1>8, <2>3
  <2>5. {r \in held : r.date >= m + 1} = {r \in {r \in held : r.date >= m} : r.date >= m + 1}
    BY <2>4
  <2>6. PICK C : C = Cache!Cached(s, m)
    OBVIOUS
  <2>7. m + 1 \in Int /\ m <= m + 1
    OBVIOUS
  <2>8. /\ \A r \in C : r.date \in Int
        /\ Cache!Cached(s, m + 1) = {r \in C : r.date >= m + 1}
    BY <1>3, <2>6, <2>7, CachedFrom
  <2>9. {r \in Cache!Latest(C, KeepDays) : r.date >= m + 1}
           = Cache!Latest(Cache!Cached(s, m + 1), KeepDays)
    BY <2>7, <2>8, LatestFrom
  <2>10. {r \in held : r.date >= m + 1} = Cache!Latest(Cache!Cached(s, m + 1), KeepDays)
    BY <2>2, <2>3, <2>5, <2>6, <2>9
  <2>11. Cache!Cached(s, m + 1)' = Cache!Cached(s, m + 1)
    BY <1>1 DEF Cache!Cached
  <2> QED BY <1>1, <1>4, <2>3, <2>10, <2>11 DEF Matches, StillCounts, InTable
<1> QED BY <1>7, <1>9, <1>10 DEF CacheInv

LEMMA CrashEmpties == ASSUME CacheInv, Cache!Crash PROVE CacheInv'
<1>1. /\ rows' = committed.rows /\ refresh' = Cache!Task("down") /\ stream' = Cache!Idle("off")
      /\ tracker' = [s \in Streams |-> {}] /\ active' = [s \in Streams |-> FALSE] /\ dirty' = {}
      /\ UNCHANGED <<today, committed, key, faults>>
  BY DEF Cache!Crash
<1>2. CacheTyped'
  BY <1>1 DEF CacheInv, CacheTyped, Cache!Task, Cache!Idle, Cache!MinDate, TaskSteps, Histories
<1>3. TrackerTyped'
  BY <1>1, NoCascade DEF TrackerTyped
<1>4. \A s \in Streams : ~Cache!Settled(s)'
  BY <1>1 DEF Cache!Settled, Cache!Task
<1> QED BY <1>2, <1>3, <1>4 DEF CacheInv

LEMMA CacheStep == CacheInv /\ [Cache!Next]_Cache!vars => CacheInv'
<1> SUFFICES ASSUME CacheInv, [Cache!Next]_Cache!vars PROVE CacheInv'
  OBVIOUS
<1>1. CASE \E s \in Streams : Cache!Skip(s) \/ Cache!NoKey(s) \/ Cache!Ask(s)
  BY <1>1, SkipKeeps, NoKeyKeeps, AskKeeps
<1>2. CASE \E d \in 0..today : \E h \in [0..d -> Volumes] : Cache!Answered(h)
  BY <1>2, AnsweredKeeps
<1>3. CASE \E c \in Closes \cup {0} : Cache!Seed(c)
  BY <1>3, SeedKeeps
<1>4. CASE \E s \in Streams, d \in Cache!Dates, c \in Closes : Cache!Message(s, d, c)
  BY <1>4, MessageKeeps DEF Cache!Dates
<1>5. CASE Cache!Waiting \/ UNCHANGED Cache!vars
  <2>1. UNCHANGED <<today, rows, committed, tracker, active, refresh, stream, dirty, key, faults>>
    BY <1>5 DEF Cache!Waiting, Cache!vars, Cache!memory
  <2>2. CacheTyped'
    BY <2>1 DEF CacheInv, CacheTyped, Cache!MinDate
  <2>3. \A t \in Streams : Cache!Settled(t)' => Cache!Settled(t)
    BY <2>1 DEF Cache!Settled
  <2> QED BY <2>1, <2>2, <2>3, NothingFed
<1> QED BY <1>1, <1>2, <1>3, <1>4, <1>5, RefreshKeeps, RefreshedKeeps, NoAnswerKeeps, FeedKeeps,
           SymbolFailsKeeps, FlushKeeps, FlushFailsKeeps, OtherCommitKeeps, MidnightKeeps,
           CrashEmpties DEF Cache!Next

(* Whatever the refresh and the stream do at each other's awaits, and      *)
(* whenever the date changes or the process crashes, the tracker of a      *)
(* symbol that nobody owes a feed holds the rows of the table, as they are *)
(* now, and its verdict is theirs (v5_forward_test.py:623, 746, 783).      *)
THEOREM CacheIsCurrent == Cache!Spec => []Cache!FedIsCurrent
<1>1. CacheInv => Cache!FedIsCurrent
  <2> SUFFICES ASSUME CacheInv, faults = 0, NEW s \in Streams, Cache!Settled(s)
               PROVE  LET rowsNow == InTable(s)
                      IN /\ {r \in tracker[s] : r.date >= Cache!MinDate} = rowsNow
                         /\ tracker[s] = rowsNow => active[s] = Cache!Cascade(rowsNow)
    BY DEF Cache!FedIsCurrent, InTable
  <2>1. Matches(s) /\ active[s] = Cache!Cascade(tracker[s])
    BY DEF CacheInv, TrackerTyped
  <2> QED BY <2>1 DEF Matches, StillCounts
<1> QED BY <1>1, CacheStart, CacheStep, PTL DEF Cache!Spec

(* A deque of so many rows never holds more: the rows of a symbol have     *)
(* dates of their own, and those after the first one kept are fewer.       *)
LEMMA FewAreFed ==
    ASSUME NEW s, NEW k \in Int
    PROVE  Cache!Cardinality(Cache!Fed(s, k)) <= KeepDays
<1> DEFINE it(d) == [date |-> d, volume |-> rows[s][d].volume, close |-> rows[s][d].close]
           T == {d \in 0..LastDay : d >= k /\ rows[s][d] # NoRow}
           f == [d \in T |-> it(d)]
<1>1. PICK C : C = Cache!Cached(s, k)
  OBVIOUS
<1>2. C = {it(d) : d \in T}
  BY <1>1 DEF Cache!Cached, Cache!Dates
<1>3. LastDay \in Nat /\ KeepDays \in Nat \ {0}
  BY CacheAssumption
<1>4. \A r, q \in C : r.date \in Nat /\ (r.date = q.date => r = q)
  BY <1>2, <1>3
<1>5. IsFiniteSet(C)
  <2>1. IsFiniteSet(T)
    <3>1. IsFiniteSet(0..LastDay) /\ T \subseteq 0..LastDay
      BY <1>3, FS_Interval
    <3> HIDE DEF T
    <3> QED BY <3>1, FS_Subset
  <2>2. f \in [T -> C] /\ \A r \in C : \E d \in T : f[d] = r
    BY <1>2
  <2> HIDE DEF f, T
  <2>3. f \in Surjection(T, C)
    BY <2>2 DEF Surjection
  <2> QED BY <2>1, <2>3, FS_Surjection
<1> HIDE DEF f, T, it
<1>6. PICK L : L = Cache!Fed(s, k)
  OBVIOUS
<1>7. L = {r \in C : Cache!Cardinality({q \in C : q.date > r.date}) < KeepDays}
  BY <1>1, <1>6 DEF Cache!Fed, Cache!Latest
<1>8. IsFiniteSet(L) /\ L \subseteq C
  BY <1>5, <1>7, FS_Subset
<1>9. \A S : Cache!Cardinality(S) = Cardinality(S)
  BY DEF Cardinality, Cache!Cardinality
<1>10. PICK n \in Nat : n = Cardinality(L)
  BY <1>8, FS_CardinalityType
<1>11. SUFFICES ASSUME n > KeepDays PROVE FALSE
  BY <1>3, <1>6, <1>9, <1>10
<1>12. L # {}
  <2>1. n # 0
    BY <1>3, <1>11
  <2> QED BY <1>10, <2>1, FS_EmptySet
<1>13. PICK r \in L : \A q \in L : r.date <= q.date
  <2>1. {q.date : q \in L} \in SUBSET Nat /\ {q.date : q \in L} # {}
    BY <1>4, <1>8, <1>12
  <2>2. PICK x \in {q.date : q \in L} : \A y \in {q.date : q \in L} : x <= y
    BY <2>1, LeastDay
  <2> QED BY <2>2
<1> DEFINE later == {q \in C : q.date > r.date}
<1>14. L \ {r} \subseteq later
  <2> SUFFICES ASSUME NEW q \in L, q # r PROVE q.date > r.date
    BY <1>8
  <2>1. q.date \in Nat /\ r.date \in Nat /\ q.date # r.date /\ r.date <= q.date
    BY <1>4, <1>8, <1>13
  <2> QED BY <2>1
<1>15. Cardinality(later) < KeepDays
  BY <1>7, <1>9, <1>13
<1>16. IsFiniteSet(later)
  BY <1>5, FS_Subset
<1> HIDE DEF later
<1>17. Cardinality(L \ {r}) = n - 1
  BY <1>8, <1>10, <1>13, FS_RemoveElement
<1>18. Cardinality(L \ {r}) <= Cardinality(later) /\ Cardinality(later) \in Nat
  BY <1>14, <1>16, FS_Subset, FS_CardinalityType
<1> QED BY <1>3, <1>11, <1>15, <1>17, <1>18

(* What a tracker holds fits, and its verdict is one. *)
CacheFits == /\ active \in [Streams -> BOOLEAN]
             /\ \A s \in Streams : Cache!Cardinality(tracker[s]) <= KeepDays

LEMMA FitsWhenFed ==
    ASSUME CacheFits, NEW ss, NEW k \in Int, Cache!FeedAll(ss, k)
    PROVE  CacheFits'
<1> DEFINE fed == {s \in ss : Cache!Cached(s, k) # {}}
<1>1. /\ tracker' = [s \in Streams |-> IF s \in fed THEN Cache!Fed(s, k) ELSE tracker[s]]
      /\ active' = [s \in Streams |-> IF s \in fed THEN Cache!Cascade(Cache!Fed(s, k))
                                      ELSE active[s]]
  BY DEF Cache!FeedAll
<1> HIDE DEF fed
<1>2. \A s \in Streams : Cache!Cardinality(tracker'[s]) <= KeepDays
  BY <1>1, FewAreFed DEF CacheFits
<1>3. \A held : Cache!Cascade(held) \in BOOLEAN
  BY DEF Cache!Cascade
<1>4. active' \in [Streams -> BOOLEAN]
  BY <1>1, <1>3 DEF CacheFits
<1> QED BY <1>2, <1>4 DEF CacheFits

LEMMA FitsEmpty ==
    ASSUME tracker' = [s \in Streams |-> {}], active' = [s \in Streams |-> FALSE]
    PROVE  CacheFits'
<1>1. Cache!Cardinality({}) = 0
  BY FS_EmptySet DEF Cardinality, Cache!Cardinality
<1>2. \A s \in Streams : Cache!Cardinality(tracker'[s]) <= KeepDays
  BY <1>1, CacheAssumption
<1> QED BY <1>2 DEF CacheFits

LEMMA FitsStep == CacheInv /\ CacheFits /\ [Cache!Next]_Cache!vars => CacheFits'
<1> SUFFICES ASSUME CacheInv, CacheFits, [Cache!Next]_Cache!vars PROVE CacheFits'
  OBVIOUS
<1>1. refresh.since \in Int /\ stream.since \in Int
  BY DEF CacheInv, CacheTyped
<1>2. CASE UNCHANGED <<tracker, active>>
  BY <1>2 DEF CacheFits
<1>3. CASE Cache!Feed \/ Cache!Flush \/ \E s \in Streams : Cache!Skip(s)
  <2>1. \E ss : Cache!FeedAll(ss, refresh.since) \/ Cache!FeedAll(ss, stream.since)
    BY <1>3 DEF Cache!Feed, Cache!Flush, Cache!Skip
  <2> QED BY <1>1, <2>1, FitsWhenFed
<1>4. CASE Cache!Crash
  BY <1>4, FitsEmpty DEF Cache!Crash
<1>5. UNCHANGED Cache!vars => UNCHANGED <<tracker, active>>
  BY DEF Cache!vars, Cache!memory
<1>6. Cache!Waiting => UNCHANGED Cache!vars
  BY DEF Cache!Waiting
<1>7. \/ Cache!Refresh \/ Cache!Refreshed \/ Cache!NoAnswer \/ Cache!SymbolFails
      \/ Cache!FlushFails \/ Cache!OtherCommit \/ Cache!Midnight
      => UNCHANGED <<tracker, active>>
  BY DEF Cache!Refresh, Cache!Refreshed, Cache!NoAnswer, Cache!SymbolFails, Cache!FlushFails,
         Cache!OtherCommit, Cache!Midnight, Cache!memory
<1>8. \A s \in Streams : Cache!NoKey(s) \/ Cache!Ask(s) => UNCHANGED <<tracker, active>>
  BY DEF Cache!NoKey, Cache!Ask
<1>9. \A h : Cache!Answered(h) => UNCHANGED <<tracker, active>>
  BY DEF Cache!Answered
<1>10. \A c : Cache!Seed(c) => UNCHANGED <<tracker, active>>
  BY DEF Cache!Seed
<1>11. \A s, d, c : Cache!Message(s, d, c) => UNCHANGED <<tracker, active>>
  BY DEF Cache!Message, Cache!memory
<1> QED BY <1>2, <1>3, <1>4, <1>5, <1>6, <1>7, <1>8, <1>9, <1>10, <1>11, Zenon DEF Cache!Next

(* The variables of the liquidation cache keep their types, and a tracker  *)
(* holds at most the rows its deque has room for                           *)
(* (liq_cluster_engine_v5.py:348).                                          *)
THEOREM CacheTypeOK == Cache!Spec => []Cache!TypeOK
<1>1. CacheInv /\ CacheFits => Cache!TypeOK
  <2> SUFFICES ASSUME CacheInv, CacheFits PROVE Cache!TypeOK
    OBVIOUS
  <2>1. /\ today \in Cache!Dates
        /\ refresh.pc \in {"down", "idle", "next", "asking", "closes", "pause"}
        /\ refresh.todo \subseteq Streams
    BY DEF CacheInv, CacheTyped, Cache!Dates, TaskSteps
  <2>2. /\ stream.pc \in {"off", "on", "flush"} /\ stream.list \subseteq Streams
        /\ dirty \subseteq Streams
    BY DEF CacheInv, CacheTyped
  <2> QED BY <2>1, <2>2, Zenon DEF CacheFits, Cache!TypeOK
<1>2. Cache!Init => CacheFits
  <2> SUFFICES ASSUME Cache!Init PROVE CacheFits
    OBVIOUS
  <2>1. Cache!Cardinality({}) = 0
    BY FS_EmptySet DEF Cardinality, Cache!Cardinality
  <2>2. \A s \in Streams : Cache!Cardinality(tracker[s]) <= KeepDays
    BY <2>1, CacheAssumption DEF Cache!Init
  <2> QED BY <2>2 DEF Cache!Init, CacheFits
<1> QED BY <1>1, <1>2, CacheStart, CacheStep, FitsStep, PTL DEF Cache!Spec
-----------------------------------------------------------------------------
(***************************************************************************)
(* The candles the swing-break engine is fed.  They rise; the last is the  *)
(* last that had closed at the last answer; between two of them there is   *)
(* a step of one candle, or one that the longest time without an answer    *)
(* explains.                                                               *)
(***************************************************************************)
Front(f) == IF f = <<>> THEN 0 ELSE f[Len(f)]

Rises(f) == \A j, k \in 1..Len(f) : j < k => f[j] < f[k]

OneStep(i, a, b) == b = a + Period[i] \/ (Period[i] < worst[i] /\ b < a + Period[i] + worst[i])

Steps(i, f) == \A k \in 1..(Len(f) - 1) : OneStep(i, f[k], f[k + 1])

UpToDate(i, f, t) == \E q \in Nat : /\ Front(f) = q * Period[i]
                                    /\ q * Period[i] <= t /\ t < q * Period[i] + Period[i]

Both == {"4h", "1d"}

SwingTyped ==
    /\ now15 \in 0..LastCandle /\ polled \in BOOLEAN /\ asking \in 0..2
    /\ feed \in [Both -> Seq(Nat \ {0})] /\ lastKey \in [Both -> Nat]
    /\ late \in [Both -> 0..now15] /\ worst \in [Both -> Nat]
    /\ view # NoRow => view.at \in 0..now15 /\ view.four \in Nat

SwingInv ==
    /\ SwingTyped
    /\ \A i \in Both :
          /\ late[i] <= worst[i]
          /\ lastKey[i] <= Front(feed[i])
          /\ Rises(feed[i]) /\ Steps(i, feed[i])
          /\ UpToDate(i, feed[i], now15 - late[i])
    /\ Swing!ViewIsCurrent

LEMMA TwoIntervals == Swing!Names = Both
<1>1. FeedIntervals = <<"4h", "1d">>
  BY SwingAssumption
<1> QED BY <1>1 DEF Swing!Names, Swing!Range, Both

LEMMA Floor ==
    ASSUME NEW p \in Nat \ {0}, NEW t \in Nat
    PROVE  /\ t \div p \in Nat
           /\ (t \div p) * p <= t /\ t < (t \div p) * p + p
  OBVIOUS

(* Two multiples are at least a period apart. *)
LEMMA Multiples ==
    ASSUME NEW p \in Nat \ {0}, NEW a \in Nat, NEW b \in Nat
    PROVE  /\ a * p \in Nat /\ (a + 1) * p = a * p + p
           /\ a < b <=> a * p < b * p
           /\ a < b => a * p + p <= b * p
<1>1. a * p \in Nat /\ b * p \in Nat /\ (a + 1) * p = a * p + p
  OBVIOUS
<1>2. ASSUME NEW u \in Nat, NEW v \in Nat, u < v PROVE u * p + p <= v * p
  <2>1. PICK d \in Nat : v = u + 1 + d
    <3>1. v - u - 1 \in Nat /\ v = u + 1 + (v - u - 1)
      BY <1>2
    <3> QED BY <3>1
  <2>2. v * p = u * p + p + d * p
    BY <2>1
  <2>3. d * p \in Nat /\ u * p \in Nat
    OBVIOUS
  <2> QED BY <2>2, <2>3
<1>3. a < b => a * p + p <= b * p
  BY <1>2
<1>4. b < a => b * p + p <= a * p
  BY <1>2
<1>5. a = b => a * p = b * p
  OBVIOUS
<1>6. PICK x \in Nat, y \in Nat : x = a * p /\ y = b * p
  BY <1>1
<1> QED BY <1>1, <1>3, <1>4, <1>5, <1>6

(* The candles that have closed at a time. *)
LEMMA ClosedIsWhole ==
    ASSUME NEW i \in Both, NEW t \in Nat
    PROVE  /\ Swing!ClosedBy(i, t) \in Seq(Nat \ {0})
           /\ Len(Swing!ClosedBy(i, t)) = t \div Period[i]
           /\ \A k \in 1..(t \div Period[i]) : Swing!ClosedBy(i, t)[k] = k * Period[i]
           /\ Rises(Swing!ClosedBy(i, t)) /\ Steps(i, Swing!ClosedBy(i, t))
           /\ Front(Swing!ClosedBy(i, t)) = (t \div Period[i]) * Period[i]
           /\ UpToDate(i, Swing!ClosedBy(i, t), t)
<1>1. PICK p \in Nat \ {0} : p = Period[i]
  BY SwingAssumption DEF Both
<1>2. PICK q \in Nat : q = t \div p /\ q * p <= t /\ t < q * p + p
  BY Floor
<1>3. PICK f : f = Swing!ClosedBy(i, t)
  OBVIOUS
<1>4. f = [k \in 1..q |-> k * p]
  BY <1>1, <1>2, <1>3 DEF Swing!ClosedBy
<1>5. \A k \in 1..q : k * p \in Nat \ {0}
  BY Multiples
<1>6. f \in Seq(Nat \ {0})
  BY <1>4, <1>5, SeqDef
<1>7. Len(f) = q
  BY <1>4
<1>8. \A k \in 1..q : f[k] = k * p
  BY <1>4
<1>9. Rises(f)
  <2>1. ASSUME NEW j \in 1..q, NEW k \in 1..q, j < k PROVE j * p < k * p
    BY <2>1, Multiples
  <2> QED BY <1>7, <1>8, <2>1 DEF Rises
<1>10. Steps(i, f)
  <2>1. \A k \in 1..(q - 1) : (k + 1) * p = k * p + p
    BY Multiples
  <2>2. \A k \in 1..(q - 1) : k \in 1..q /\ k + 1 \in 1..q
    BY <1>2
  <2> QED BY <1>1, <1>7, <1>8, <2>1, <2>2 DEF Steps, OneStep
<1>11. Front(f) = q * p
  <2>1. CASE q = 0
    BY <1>7, <2>1, <1>6, EmptySeq DEF Front
  <2>2. CASE q # 0
    BY <1>7, <1>8, <2>2 DEF Front
  <2> QED BY <2>1, <2>2
<1>12. UpToDate(i, f, t)
  BY <1>1, <1>2, <1>11 DEF UpToDate
<1> QED BY <1>1, <1>2, <1>3, <1>6, <1>7, <1>8, <1>9, <1>10, <1>11, <1>12

(* What one candle more does to what rises and has no gap. *)
LEMMA ToldIsWhole ==
    ASSUME NEW i \in Both, NEW f \in Seq(Nat \ {0}), NEW c \in Nat \ {0},
           worst[i] \in Nat, lastKey[i] \in Nat, lastKey[i] <= Front(f),
           Rises(f), Steps(i, f),
           f # <<>> /\ c > Front(f) => OneStep(i, Front(f), c)
    PROVE  /\ Swing!Told(i, f, c) \in Seq(Nat \ {0})
           /\ Rises(Swing!Told(i, f, c)) /\ Steps(i, Swing!Told(i, f, c))
           /\ Front(Swing!Told(i, f, c)) = IF c > Front(f) THEN c ELSE Front(f)
<1>1. PICK n \in Nat : n = Len(f)
  BY LenProperties
<1>2. \A k \in 1..n : f[k] \in Nat \ {0}
  BY <1>1, ElementOfSeq
<1>3. /\ f = <<>> <=> n = 0
      /\ Front(f) \in Nat
      /\ n # 0 => Front(f) = f[n]
  <2>1. f = <<>> <=> n = 0
    BY <1>1, EmptySeq
  <2> QED BY <1>1, <1>2, <2>1 DEF Front
<1>4. PICK e \in Nat : e = Front(f)
  BY <1>3
<1>5. CASE c <= e
  <2>1. f # <<>>
    BY <1>3, <1>4, <1>5 DEF Front
  <2>2. Swing!Told(i, f, c) = f
    BY <1>1, <1>3, <1>4, <1>5, <2>1 DEF Swing!Told, Swing!Appended, Swing!Last
  <2>3. ~(c > e)
    BY <1>5
  <2> QED BY <1>4, <2>2, <2>3
<1>6. CASE c > e
  <2>1. PICK g : g = Append(f, c)
    OBVIOUS
  <2>2. Swing!Told(i, f, c) = g
    <3>1. c # lastKey[i]
      BY <1>4, <1>6
    <3>2. f # <<>> => ~(c <= Swing!Last(f))
      BY <1>1, <1>3, <1>4, <1>6 DEF Swing!Last
    <3> QED BY <2>1, <3>1, <3>2 DEF Swing!Told, Swing!Appended
  <2>3. /\ g \in Seq(Nat \ {0}) /\ Len(g) = n + 1 /\ g[n + 1] = c
        /\ \A k \in 1..n : g[k] = f[k]
    BY <1>1, <2>1, AppendProperties
  <2>4. Front(g) = c
    <3>1. g # <<>>
      BY <1>1, <2>3, EmptySeq
    <3> QED BY <2>3, <3>1 DEF Front
  <2>5. Rises(g)
    <3>1. \A k \in 1..n : f[k] <= e
      <4>1. n # 0 => e = f[n] /\ n \in 1..n
        BY <1>3, <1>4
      <4> QED BY <1>1, <1>2, <4>1 DEF Rises
    <3>2. \A k \in 1..n : f[k] < c
      BY <1>2, <1>6, <3>1
    <3>3. ASSUME NEW j \in 1..(n + 1), NEW k \in 1..(n + 1), j < k PROVE g[j] < g[k]
      <4>1. j \in 1..n /\ (k \in 1..n \/ k = n + 1)
        BY <3>3
      <4> QED BY <1>1, <2>3, <3>2, <3>3, <4>1 DEF Rises
    <3> QED BY <2>3, <3>3 DEF Rises
  <2>6. Steps(i, g)
    <3>1. ASSUME NEW k \in 1..n PROVE OneStep(i, g[k], g[k + 1])
      <4>1. CASE k = n
        BY <1>3, <1>4, <1>6, <2>3, <4>1
      <4>2. CASE k # n
        <5>1. k \in 1..(n - 1) /\ k + 1 \in 1..n
          BY <4>2
        <5> QED BY <1>1, <2>3, <5>1 DEF Steps
      <4> QED BY <4>1, <4>2
    <3>2. Len(g) - 1 = n
      BY <2>3
    <3> QED BY <3>1, <3>2 DEF Steps
  <2> QED BY <1>4, <1>6, <2>2, <2>3, <2>4, <2>5, <2>6
<1> QED BY <1>4, <1>5, <1>6

(* The place of a time in what rises is that of the last that is no later. *)
LEMMA PlaceIsLast ==
    ASSUME NEW i \in Both, feed[i] \in Seq(Nat \ {0}), Rises(feed[i]), NEW t \in Nat,
           Swing!Place(i, t) > 1
    PROVE  /\ Swing!Place(i, t) \in 1..Len(feed[i])
           /\ feed[i][Swing!Place(i, t)] <= t
           /\ Swing!Place(i, t) < Len(feed[i]) => t < feed[i][Swing!Place(i, t) + 1]
<1>1. PICK f \in Seq(Nat \ {0}) : f = feed[i]
  OBVIOUS
<1>2. PICK n \in Nat : n = Len(f) /\ DOMAIN f = 1..n
  BY LenProperties
<1>3. \A k \in 1..n : f[k] \in Nat \ {0}
  BY <1>2, ElementOfSeq
<1> DEFINE after == {k \in Nat : k # 0 /\ (k > n \/ f[k] > t)}
<1>4. n + 1 \in after
  BY <1>2
<1>5. PICK x \in after : \A y \in after : x <= y
  <2>1. after \in SUBSET Nat /\ after # {}
    BY <1>4
  <2> HIDE DEF after
  <2> QED BY <2>1, LeastDay
<1>6. {k \in 1..n : f[k] <= t} = 1..(x - 1)
  <2>1. x \in Nat /\ x <= n + 1 /\ x # 0 /\ (x > n \/ f[x] > t)
    BY <1>4, <1>5
  <2>2. ASSUME NEW k \in 1..n, f[k] <= t PROVE k < x
    <3>1. SUFFICES ASSUME k >= x PROVE FALSE
      BY <2>1
    <3>2. f[x] <= f[k]
      <4>1. CASE k = x
        BY <4>1, <1>3
      <4>2. CASE k # x
        <5>1. x \in 1..n /\ x < k
          BY <2>1, <3>1, <4>2
        <5>2. f[x] < f[k]
          BY <1>1, <1>2, <5>1 DEF Rises
        <5>3. f[x] \in Nat /\ f[k] \in Nat
          BY <1>3, <5>1
        <5> QED BY <5>2, <5>3
      <4> QED BY <4>1, <4>2
    <3>3. x \in 1..n
      BY <2>1, <3>1
    <3> QED BY <1>3, <2>1, <2>2, <3>2, <3>3
  <2>3. ASSUME NEW k \in 1..(x - 1) PROVE k \in 1..n /\ f[k] <= t
    <3>1. k \in 1..n /\ k < x /\ k \in Nat
      BY <2>1
    <3>2. k \notin after
      BY <1>5, <2>1, <3>1
    <3> QED BY <1>3, <3>1, <3>2
  <2>4. \A k \in 1..n : k < x => k \in 1..(x - 1)
    BY <2>1
  <2> HIDE DEF after
  <2> QED BY <2>2, <2>3, <2>4
<1>7. x \in Nat /\ x <= n + 1 /\ x # 0 /\ (x > n \/ f[x] > t)
  BY <1>4, <1>5
<1>8. Swing!Cardinality({k \in 1..n : f[k] <= t}) = x - 1
  <2>1. x - 1 \in Int /\ x - 1 >= 0
    BY <1>7
  <2>2. Scripted!Cardinality(1..(x - 1)) = x - 1
    BY <2>1, UpTo
  <2> QED BY <1>6, <2>2 DEF Scripted!Cardinality, Swing!Cardinality
<1>9. Swing!Place(i, t) = IF x - 1 = 0 THEN 1 ELSE x - 1
  BY <1>1, <1>2, <1>8 DEF Swing!Place
<1>10. Swing!Place(i, t) = x - 1 /\ x - 1 \in 1..n
  <2>1. x - 1 # 0
    BY <1>9
  <2> QED BY <1>7, <1>9, <2>1
<1>11. f[x - 1] <= t
  <2>1. PICK j : j = x - 1
    OBVIOUS
  <2>2. j \in 1..j
    BY <1>10, <2>1
  <2> QED BY <1>6, <2>1, <2>2
<1>12. x - 1 < n => t < f[x - 1 + 1]
  <2>1. x - 1 + 1 = x
    BY <1>7
  <2>2. x - 1 < n => x \in 1..n
    BY <1>7
  <2> QED BY <1>3, <1>7, <2>1, <2>2
<1> QED BY <1>1, <1>2, <1>10, <1>11, <1>12

LEMMA SwingStart == Swing!Init => SwingInv
<1> SUFFICES ASSUME Swing!Init PROVE SwingInv
  OBVIOUS
<1>1. /\ now15 \in {0, Period["4h"]} /\ polled = FALSE /\ asking = 0 /\ view = NoRow
      /\ feed = [i \in Both |-> Swing!ClosedBy(i, now15)] /\ lastKey = [i \in Both |-> 0]
      /\ late = [i \in Both |-> 0] /\ worst = late
  BY TwoIntervals, SwingAssumption DEF Swing!Init
<1>2. now15 \in 0..LastCandle /\ now15 \in Nat
  BY <1>1, SwingAssumption
<1>3. \A i \in Both : feed[i] = Swing!ClosedBy(i, now15)
  BY <1>1
<1>4. \A i \in Both : /\ feed[i] \in Seq(Nat \ {0}) /\ Rises(feed[i]) /\ Steps(i, feed[i])
                      /\ UpToDate(i, feed[i], now15)
                      /\ Front(feed[i]) >= 0
  <2> SUFFICES ASSUME NEW i \in Both
               PROVE  /\ feed[i] \in Seq(Nat \ {0}) /\ Rises(feed[i]) /\ Steps(i, feed[i])
                      /\ UpToDate(i, feed[i], now15)
                      /\ Front(feed[i]) >= 0
    OBVIOUS
  <2>1. PICK q \in Nat, p \in Nat : Front(Swing!ClosedBy(i, now15)) = q * p
    <3>1. now15 \div Period[i] \in Nat /\ Period[i] \in Nat
      BY <1>2, Floor, SwingAssumption DEF Both
    <3> QED BY <1>2, <3>1, ClosedIsWhole
  <2>2. q * p >= 0
    OBVIOUS
  <2> QED BY <1>2, <1>3, <2>1, <2>2, ClosedIsWhole
<1>5. SwingTyped
  <2>1. feed \in [Both -> Seq(Nat \ {0})]
    BY <1>1, <1>3, <1>4
  <2>2. late \in [Both -> 0..now15] /\ worst \in [Both -> Nat] /\ lastKey \in [Both -> Nat]
    BY <1>1, <1>2
  <2>3. asking \in 0..2
    BY <1>1
  <2>4. polled \in BOOLEAN
    BY <1>1
  <2> QED BY <1>1, <1>2, <2>1, <2>2, <2>3, <2>4, Zenon DEF SwingTyped
<1>6. \A i \in Both : now15 - late[i] = now15 /\ late[i] = 0 /\ worst[i] = 0 /\ lastKey[i] = 0
  BY <1>1, <1>2
<1>7. Swing!ViewIsCurrent
  BY <1>1 DEF Swing!ViewIsCurrent
<1> QED BY <1>4, <1>5, <1>6, <1>7 DEF SwingInv

LEMMA CandleClosesKeeps == SwingInv /\ Swing!CandleCloses => SwingInv'
<1> SUFFICES ASSUME SwingInv, Swing!CandleCloses PROVE SwingInv'
  OBVIOUS
<1>1. /\ now15 < LastCandle /\ now15' = now15 + 1 /\ polled' = FALSE
      /\ late' = [i \in Both |-> late[i] + 1]
      /\ worst' = [i \in Both |-> IF late'[i] > worst[i] THEN late'[i] ELSE worst[i]]
      /\ UNCHANGED <<asking, feed, lastKey, view>>
  BY TwoIntervals DEF Swing!CandleCloses
<1>2. /\ now15 \in 0..LastCandle /\ LastCandle \in Nat
      /\ \A i \in Both : late[i] \in 0..now15 /\ worst[i] \in Nat /\ late[i] <= worst[i]
  BY SwingAssumption DEF SwingInv, SwingTyped
<1>3. \A i \in Both : /\ late'[i] \in 0..now15' /\ worst'[i] \in Nat
                      /\ late'[i] <= worst'[i] /\ worst[i] <= worst'[i]
                      /\ now15' - late'[i] = now15 - late[i]
  BY <1>1, <1>2
<1>4. SwingTyped'
  <2>1. now15' \in 0..LastCandle
    BY <1>1, <1>2
  <2>2. late' \in [Both -> 0..now15'] /\ worst' \in [Both -> Nat]
    BY <1>1, <1>3
  <2>3. view # NoRow => view.at \in 0..now15'
    BY <1>1, <1>2 DEF SwingInv, SwingTyped
  <2>4. polled' \in BOOLEAN
    BY <1>1
  <2> QED BY <1>1, <2>1, <2>2, <2>3, <2>4, Zenon DEF SwingInv, SwingTyped
<1>5. ASSUME NEW i \in Both PROVE Steps(i, feed[i])'
  <2>1. PICK f \in Seq(Nat \ {0}) : f = feed[i]
    BY DEF SwingInv, SwingTyped
  <2>2. PICK n \in Nat : n = Len(f)
    BY LenProperties
  <2>3. PICK p \in Nat : p = Period[i]
    BY SwingAssumption DEF Both
  <2>4. \A k \in 1..(n - 1) : OneStep(i, f[k], f[k + 1])
    BY <2>1, <2>2 DEF SwingInv, Steps
  <2>5. ASSUME NEW k \in 1..(n - 1) PROVE OneStep(i, f[k], f[k + 1])'
    <3>1. k \in 1..n /\ k + 1 \in 1..n
      BY <2>2
    <3>2. PICK x \in Nat, y \in Nat : x = f[k] /\ y = f[k + 1]
      BY <2>2, <3>1, ElementOfSeq
    <3>3. PICK v \in Nat, w \in Nat : v = worst[i] /\ w = worst'[i] /\ v <= w
      BY <1>2, <1>3
    <3>4. y = x + p \/ (p < v /\ y < x + p + v)
      BY <2>3, <2>4, <3>2, <3>3 DEF OneStep
    <3>5. y = x + p \/ (p < w /\ y < x + p + w)
      BY <3>3, <3>4
    <3> QED BY <1>1, <2>1, <2>3, <3>2, <3>3, <3>5 DEF OneStep
  <2> QED BY <1>1, <2>1, <2>2, <2>5 DEF Steps
<1>6. Swing!ViewIsCurrent'
  <2> SUFFICES ASSUME view # NoRow
               PROVE  /\ view.four <= view.at /\ (view.day # NoRow => view.day <= view.at)
                      /\ view.at < view.four + Period["4h"] + worst'["4h"]
    BY <1>1 DEF Swing!ViewIsCurrent
  <2>1. PICK a \in Nat, b \in Nat : a = view.at /\ b = view.four
    BY <1>2 DEF SwingInv, SwingTyped
  <2>2. PICK p \in Nat : p = Period["4h"]
    BY SwingAssumption
  <2>3. PICK v \in Nat, w \in Nat : v = worst["4h"] /\ w = worst'["4h"] /\ v <= w
    BY <1>2, <1>3 DEF Both
  <2>4. a < b + p + v
    BY <2>1, <2>2, <2>3 DEF SwingInv, Swing!ViewIsCurrent
  <2>5. a < b + p + w
    BY <2>3, <2>4
  <2> QED BY <2>1, <2>2, <2>3, <2>5 DEF SwingInv, Swing!ViewIsCurrent
<1>7. \A i \in Both : UpToDate(i, feed'[i], now15' - late'[i])
  BY <1>1, <1>3 DEF SwingInv
<1> QED BY <1>1, <1>3, <1>4, <1>5, <1>6, <1>7 DEF SwingInv, UpToDate

LEMMA PollKeeps == SwingInv /\ Swing!Poll => SwingInv'
<1> SUFFICES ASSUME SwingInv, Swing!Poll PROVE SwingInv'
  OBVIOUS
<1>1. PICK t \in {now15 - 1, now15} :
         /\ t >= 0
         /\ view' = IF t % Period["1d"] \in TradingHours /\ Swing!Known("4h", t) # NoRow
                    THEN [at |-> t, four |-> Swing!Known("4h", t),
                          day |-> Swing!Known("1d", t)] ELSE NoRow
  BY DEF Swing!Poll
<1>2. /\ polled' = TRUE /\ asking' = 1
      /\ UNCHANGED <<now15, feed, lastKey, late, worst>>
  BY DEF Swing!Poll
<1>3. now15 \in Nat /\ now15 \in 0..LastCandle /\ t \in Nat /\ t \in 0..now15
  <2>1. now15 \in 0..LastCandle
    BY DEF SwingInv, SwingTyped
  <2> QED BY <1>1, <2>1
<1>4. ASSUME NEW i \in Both, Swing!Known(i, t) # NoRow
      PROVE  /\ Swing!Place(i, t) > 1
             /\ Swing!Known(i, t) = feed[i][Swing!Place(i, t)]
             /\ Swing!Place(i, t) \in 1..Len(feed[i])
             /\ feed[i][Swing!Place(i, t)] <= t
             /\ Swing!Place(i, t) < Len(feed[i]) => t < feed[i][Swing!Place(i, t) + 1]
  <2>1. Swing!Place(i, t) > Warm[i] /\ Swing!Known(i, t) = feed[i][Swing!Place(i, t)]
    BY <1>4 DEF Swing!Known
  <2>2. Swing!Place(i, t) \in Int
    <3>1. PICK f \in Seq(Nat \ {0}), n \in Nat : f = feed[i] /\ n = Len(f) /\ DOMAIN f = 1..n
      BY LenProperties DEF SwingInv, SwingTyped
    <3>2. IsFiniteSet(1..n)
      BY FS_Interval
    <3>3. Cardinality({k \in 1..n : f[k] <= t}) \in Nat
      BY <3>2, FS_Subset, FS_CardinalityType
    <3> QED BY <3>1, <3>3 DEF Swing!Place, Cardinality, Swing!Cardinality
  <2>3. Warm[i] \in Nat \ {0}
    BY SwingAssumption DEF Both
  <2>4. Swing!Place(i, t) > 1
    BY <2>1, <2>2, <2>3
  <2>5. feed[i] \in Seq(Nat \ {0}) /\ Rises(feed[i])
    BY DEF SwingInv, SwingTyped
  <2> QED BY <1>3, <2>1, <2>4, <2>5, PlaceIsLast
<1>5. CASE view' = NoRow
  <2>1. SwingTyped'
    BY <1>2, <1>5 DEF SwingInv, SwingTyped
  <2>2. Swing!ViewIsCurrent'
    BY <1>5 DEF Swing!ViewIsCurrent
  <2> QED BY <1>2, <2>1, <2>2 DEF SwingInv, Steps, OneStep, UpToDate
<1>6. CASE view' # NoRow
  <2>1. /\ Swing!Known("4h", t) # NoRow
        /\ view'.at = t /\ view'.four = Swing!Known("4h", t) /\ view'.day = Swing!Known("1d", t)
    BY <1>1, <1>6
  <2>2. view'.day # NoRow => view'.day <= t
    BY <1>4, <2>1 DEF Both
  <2>3. PICK f \in Seq(Nat \ {0}), n \in Nat : f = feed["4h"] /\ n = Len(f)
    BY LenProperties DEF SwingInv, SwingTyped, Both
  <2>4. PICK u \in 1..n : /\ u = Swing!Place("4h", t) /\ view'.four = f[u]
                          /\ f[u] <= t /\ (u < n => t < f[u + 1])
    BY <1>4, <2>1, <2>3 DEF Both
  <2>5. f[u] \in Nat /\ (u < n => f[u + 1] \in Nat)
    <3>1. u \in 1..n /\ (u < n => u + 1 \in 1..n)
      BY <2>4
    <3> QED BY <2>3, <3>1, ElementOfSeq
  <2>6. PICK p \in Nat, w \in Nat, l \in Nat :
           /\ p = Period["4h"] /\ w = worst["4h"] /\ l = late["4h"] /\ l <= w /\ l <= now15
    <3>1. late["4h"] \in 0..now15 /\ worst["4h"] \in Nat /\ late["4h"] <= worst["4h"]
      BY DEF SwingInv, SwingTyped, Both
    <3>2. Period["4h"] \in Nat
      BY SwingAssumption
    <3>3. late["4h"] \in Nat /\ late["4h"] <= now15
      BY <1>3, <3>1
    <3> QED BY <3>1, <3>2, <3>3
  <2>7. t < f[u] + p + w
    <3>1. PICK x \in Nat : x = f[u]
      BY <2>5
    <3>2. CASE u < n
      <4>1. u \in 1..(Len(f) - 1)
        BY <2>3, <2>4, <3>2
      <4>2. OneStep("4h", f[u], f[u + 1])
        BY <2>3, <4>1 DEF SwingInv, Steps, Both
      <4>3. PICK y \in Nat : y = f[u + 1] /\ t < y
        BY <2>4, <2>5, <3>2
      <4>4. y = x + p \/ (p < w /\ y < x + p + w)
        BY <2>6, <3>1, <4>2, <4>3 DEF OneStep
      <4>5. t < x + p + w
        BY <1>3, <4>3, <4>4
      <4> QED BY <3>1, <4>5
    <3>3. CASE u = n
      <4>1. Front(f) = x
        <5>1. f # <<>>
          BY <2>3, <3>3, EmptySeq
        <5> QED BY <2>3, <3>1, <3>3, <5>1 DEF Front
      <4>2. PICK r \in Int : r = now15 - l
        BY <1>3
      <4>3. UpToDate("4h", f, r)
        BY <2>3, <2>6, <4>2 DEF SwingInv, Both
      <4>4. r < x + p
        <5>1. PICK q \in Nat : x = q * p /\ r < q * p + p
          BY <2>6, <4>1, <4>3 DEF UpToDate
        <5> QED BY <5>1
      <4>5. t < x + p + w
        <5>1. PICK z \in Nat, m \in Nat : z = t /\ m = now15 /\ z <= m
          BY <1>3
        <5>2. l <= w /\ r = m - l
          BY <2>6, <4>2, <5>1
        <5>3. z < x + p + w
          BY <4>4, <5>1, <5>2
        <5> QED BY <5>1, <5>3
      <4> QED BY <3>1, <4>5
    <3>4. u < n \/ u = n
      BY <2>4
    <3> QED BY <3>2, <3>3, <3>4
  <2>8. Swing!ViewIsCurrent'
    BY <1>2, <2>1, <2>2, <2>4, <2>6, <2>7 DEF Swing!ViewIsCurrent
  <2>9. SwingTyped'
    <3>1. view'.at \in 0..now15 /\ view'.four \in Nat
      BY <1>3, <2>1, <2>4, <2>5
    <3>2. polled' \in BOOLEAN
      BY <1>2
    <3>3. asking' \in 0..2
      BY <1>2
    <3> QED BY <1>2, <3>1, <3>2, <3>3, Zenon DEF SwingInv, SwingTyped
  <2> QED BY <1>2, <2>8, <2>9 DEF SwingInv, Steps, OneStep, UpToDate
<1> QED BY <1>5, <1>6

(* What an answer makes of the candles of its interval. *)
LEMMA AnswerIsWhole ==
    ASSUME SwingInv, NEW i \in Both, NEW n \in {1, 2}, n <= Len(Swing!ClosedBy(i, now15))
    PROVE  /\ Swing!Given(i, n) \in Seq(Nat \ {0})
           /\ Rises(Swing!Given(i, n)) /\ Steps(i, Swing!Given(i, n))
           /\ Front(Swing!Given(i, n)) = Swing!Last(Swing!ClosedBy(i, now15))
           /\ UpToDate(i, Swing!Given(i, n), now15)
           /\ Swing!Last(Swing!ClosedBy(i, now15)) \in Nat
<1>1. PICK p \in Nat \ {0} : p = Period[i]
  BY SwingAssumption DEF Both
<1>2. PICK now \in Nat : now = now15
  BY DEF SwingInv, SwingTyped
<1>3. PICK m \in Nat : m = now \div p /\ m * p <= now /\ now < m * p + p
  BY Floor
<1>4. PICK all : all = Swing!ClosedBy(i, now15)
  OBVIOUS
<1>5. Len(all) = m /\ \A k \in 1..m : all[k] = k * p
  BY <1>1, <1>2, <1>3, <1>4, ClosedIsWhole
<1>6. n <= m /\ m # 0 /\ (n = 2 => m - 1 \in Nat \ {0})
  BY <1>4, <1>5
<1>7. Swing!Last(all) = m * p
  <2>1. m \in 1..m
    BY <1>6
  <2> QED BY <1>5, <2>1 DEF Swing!Last
<1>8. PICK f \in Seq(Nat \ {0}) : f = feed[i]
  BY DEF SwingInv, SwingTyped
<1>9. PICK l \in Nat, w \in Nat : l = late[i] /\ w = worst[i] /\ l <= w /\ l <= now
  <2>1. late[i] \in 0..now15 /\ worst[i] \in Nat /\ late[i] <= worst[i]
    BY DEF SwingInv, SwingTyped
  <2> QED BY <1>2, <2>1
<1>10. PICK q \in Nat : Front(f) = q * p /\ q * p <= now - l /\ now - l < q * p + p
  BY <1>1, <1>2, <1>8, <1>9 DEF SwingInv, UpToDate
<1>11. PICK x \in Nat, c \in Nat, b \in Int :
          x = q * p /\ c = m * p /\ b = (m - 1) * p /\ c = b + p
  <2>1. q * p \in Nat /\ m * p \in Nat
    BY Multiples
  <2>2. (m - 1) * p \in Int /\ m * p = (m - 1) * p + p
    BY <1>1
  <2> QED BY <2>1, <2>2
<1>12. /\ x <= now - l /\ now - l < x + p /\ c <= now /\ now < c + p
       /\ x <= c
  <2>1. x <= now - l /\ now - l < x + p /\ c <= now /\ now < c + p
    BY <1>3, <1>10, <1>11
  <2>2. m < q => m * p + p <= q * p
    BY Multiples
  <2>3. m < q => c + p <= x
    BY <1>11, <2>2
  <2>4. ~(m < q)
    BY <1>9, <2>1, <2>3
  <2>5. q < m => q * p < m * p
    BY Multiples
  <2> QED BY <1>11, <2>1, <2>4, <2>5
<1>23. c = b + p /\ (b > x => b \in Nat) /\ b <= c
  BY <1>11
<1>24. \A y \in Nat : y <= c => y < x + p + w
  <2>1. l <= w
    BY <1>9
  <2>2. now - l < x + p /\ c <= now
    BY <1>12
  <2>3. now < x + p + l
    BY <2>2
  <2>4. now < x + p + w
    BY <2>1, <2>3
  <2> QED BY <2>2, <2>4
(* A later multiple is one step away, or an answer was missed.             *)
<1>13. ASSUME NEW r \in Nat, NEW y \in Nat, y = r * p, y > x, y <= c
       PROVE  OneStep(i, x, y)
  <2>1. y < x + p + w
    BY <1>13, <1>24
  <2>2. CASE p < w
    BY <1>1, <1>9, <2>1, <2>2 DEF OneStep
  <2>3. CASE ~(p < w)
    <3>1. y < x + p + p
      BY <2>1, <2>3
    <3>2. q < r
      BY <1>11, <1>13, Multiples
    <3>3. x + p <= y
      BY <1>11, <1>13, <3>2, Multiples
    <3>4. (q + 1) * p = x + p /\ (q + 1 + 1) * p = x + p + p
      <4>1. (q + 1) * p = q * p + p
        BY Multiples
      <4>2. (q + 1 + 1) * p = (q + 1) * p + p
        BY Multiples
      <4> QED BY <1>11, <4>1, <4>2
    <3>5. r < q + 1 + 1
      <4>1. q + 1 + 1 \in Nat
        OBVIOUS
      <4>2. r * p < (q + 1 + 1) * p
        BY <1>13, <3>1, <3>4
      <4> QED BY <4>1, <4>2, Multiples
    <3>6. r = q + 1
      BY <3>2, <3>5
    <3>7. y = x + p
      BY <1>13, <3>4, <3>6
    <3> QED BY <1>1, <3>7 DEF OneStep
  <2> QED BY <2>2, <2>3
<1>14. c \in Nat \ {0}
  BY <1>1, <1>6, <1>11, Multiples
<1>15. PICK older : /\ older = IF n = 1 THEN f ELSE Swing!Told(i, f, all[m - 1])
                    /\ Swing!Given(i, n) = Swing!Told(i, older, c)
  BY <1>2, <1>4, <1>5, <1>7, <1>8, <1>11 DEF Swing!Given
<1>16. worst[i] \in Nat /\ lastKey[i] \in Nat /\ lastKey[i] <= Front(f) /\ Rises(f) /\ Steps(i, f)
  BY <1>8 DEF SwingInv, SwingTyped
<1>17. /\ older \in Seq(Nat \ {0}) /\ Rises(older) /\ Steps(i, older)
       /\ Front(older) = x \/ (Front(older) = b /\ b > x)
  <2>1. CASE n = 1
    BY <1>8, <1>10, <1>11, <1>15, <1>16, <2>1
  <2>2. CASE n = 2
    <3>1. PICK j \in Nat \ {0} : j = m - 1 /\ j \in 1..m
      BY <1>6, <2>2
    <3>2. all[m - 1] = b /\ b \in Nat \ {0} /\ b = j * p
      <4>1. b = j * p
        BY <1>11, <3>1
      <4>2. all[j] = j * p
        BY <1>5, <3>1
      <4>3. j * p \in Nat \ {0}
        OBVIOUS
      <4> QED BY <3>1, <4>1, <4>2, <4>3
    <3>3. b > x => OneStep(i, x, b)
      <4>1. b \in Nat /\ j \in Nat /\ b <= c /\ b = j * p
        BY <1>23, <3>2
      <4> QED BY <1>13, <4>1, Zenon
    <3>4. /\ older \in Seq(Nat \ {0}) /\ Rises(older) /\ Steps(i, older)
          /\ Front(older) = IF b > Front(f) THEN b ELSE Front(f)
      <4>1. f # <<>> /\ b > Front(f) => OneStep(i, Front(f), b)
        BY <1>10, <1>11, <3>3
      <4>2. older = Swing!Told(i, f, b)
        BY <1>15, <2>2, <3>2
      <4> QED BY <1>16, <3>2, <4>1, <4>2, ToldIsWhole
    <3> QED BY <1>10, <1>11, <3>4
  <2> QED BY <2>1, <2>2
<1>18. PICK e \in Nat : e = Front(older) /\ lastKey[i] <= e /\ e <= c
  <2>1. PICK e \in Int : e = Front(older)
    BY <1>17
  <2>2. e = x \/ (e = b /\ b > x)
    BY <1>17, <2>1
  <2>3. x <= c
    BY <1>12
  <2>4. x <= e /\ e <= c /\ e \in Nat
    BY <1>23, <2>2, <2>3
  <2>5. lastKey[i] <= x
    BY <1>10, <1>11, <1>16
  <2>6. lastKey[i] <= e
    BY <1>16, <2>4, <2>5
  <2> QED BY <2>1, <2>4, <2>6
<1>19. c > e => OneStep(i, e, c)
  <2>1. CASE e = x
    BY <1>11, <1>13, <2>1
  <2>2. CASE e = b
    BY <1>1, <1>11, <2>2 DEF OneStep
  <2> QED BY <1>17, <1>18, <2>1, <2>2
<1>20. /\ Swing!Given(i, n) \in Seq(Nat \ {0})
       /\ Rises(Swing!Given(i, n)) /\ Steps(i, Swing!Given(i, n))
       /\ Front(Swing!Given(i, n)) = IF c > e THEN c ELSE e
  <2>1. older # <<>> /\ c > Front(older) => OneStep(i, Front(older), c)
    BY <1>18, <1>19
  <2>2. lastKey[i] <= Front(older)
    BY <1>18
  <2>3. worst[i] \in Nat /\ lastKey[i] \in Nat
    BY <1>16
  <2>4. older \in Seq(Nat \ {0}) /\ Rises(older) /\ Steps(i, older)
    BY <1>17
  <2>5. /\ Swing!Told(i, older, c) \in Seq(Nat \ {0})
        /\ Rises(Swing!Told(i, older, c)) /\ Steps(i, Swing!Told(i, older, c))
        /\ Front(Swing!Told(i, older, c)) = IF c > Front(older) THEN c ELSE Front(older)
    BY <1>14, <2>1, <2>2, <2>3, <2>4, ToldIsWhole, Zenon
  <2> QED BY <1>15, <1>18, <2>5
<1>21. Front(Swing!Given(i, n)) = c
  BY <1>18, <1>20
<1>22. UpToDate(i, Swing!Given(i, n), now15)
  BY <1>1, <1>2, <1>11, <1>12, <1>21 DEF UpToDate
<1> QED BY <1>4, <1>7, <1>11, <1>20, <1>21, <1>22

(* After an answer, and after a start, an interval is up to date. *)
LEMMA FedKeeps ==
    ASSUME SwingInv, NEW ss \in SUBSET Both, SwingTyped', Swing!ViewIsCurrent',
           UNCHANGED now15,
           \A i \in Both \ ss : UNCHANGED <<feed[i], lastKey[i], late[i], worst[i]>>,
           \A i \in ss : /\ late'[i] = 0 /\ lastKey'[i] <= Front(feed'[i])
                         /\ Rises(feed'[i]) /\ Steps(i, feed[i])' /\ UpToDate(i, feed'[i], now15)
    PROVE  SwingInv'
<1>1. now15 \in Nat
  BY DEF SwingInv, SwingTyped
<1>2. ASSUME NEW i \in ss
      PROVE  /\ late'[i] <= worst'[i] /\ lastKey'[i] <= Front(feed'[i])
             /\ Rises(feed'[i]) /\ Steps(i, feed[i])'
             /\ UpToDate(i, feed'[i], now15' - late'[i])
  <2>1. late'[i] = 0 /\ worst'[i] \in Nat /\ now15' = now15
    BY <1>2 DEF SwingTyped
  <2>2. late'[i] <= worst'[i] /\ now15' - late'[i] = now15
    BY <1>1, <2>1
  <2> QED BY <1>2, <2>2
<1>3. ASSUME NEW i \in Both \ ss
      PROVE  /\ late'[i] <= worst'[i] /\ lastKey'[i] <= Front(feed'[i])
             /\ Rises(feed'[i]) /\ Steps(i, feed[i])'
             /\ UpToDate(i, feed'[i], now15' - late'[i])
  BY <1>3 DEF SwingInv, Steps, OneStep
<1> QED BY <1>2, <1>3 DEF SwingInv, UpToDate

LEMMA Asked ==
    ASSUME SwingInv, asking # 0
    PROVE  /\ FeedIntervals[asking] \in Both
           /\ asking \in 1..2
           /\ (IF asking = Len(FeedIntervals) THEN 0 ELSE asking + 1) \in 0..2
<1>1. asking \in {1, 2}
  BY DEF SwingInv, SwingTyped
<1> QED BY <1>1, SwingAssumption DEF Both

LEMMA AnswerKeeps == SwingInv /\ Swing!Ask => SwingInv'
<1> SUFFICES ASSUME SwingInv, Swing!Ask PROVE SwingInv'
  OBVIOUS
<1>1. PICK i : i = FeedIntervals[asking]
  OBVIOUS
<1>2. i \in Both /\ (IF asking = Len(FeedIntervals) THEN 0 ELSE asking + 1) \in 0..2
  BY <1>1, Asked DEF Swing!Ask
<1>3. PICK n \in {1, 2} :
         /\ n <= Len(Swing!ClosedBy(i, now15))
         /\ feed' = [feed EXCEPT ![i] = Swing!Given(i, n)]
         /\ lastKey' = [lastKey EXCEPT ![i] = Swing!Last(Swing!ClosedBy(i, now15))]
  BY <1>1 DEF Swing!Ask
<1>4. /\ late' = [late EXCEPT ![i] = 0]
      /\ asking' = IF asking = Len(FeedIntervals) THEN 0 ELSE asking + 1
      /\ UNCHANGED <<now15, polled, view, worst>>
  BY <1>1 DEF Swing!Ask
<1>5. PICK f : f = Swing!Given(i, n)
  OBVIOUS
<1>6. PICK c \in Nat : c = Swing!Last(Swing!ClosedBy(i, now15))
  BY <1>2, <1>3, AnswerIsWhole
<1>7. /\ f \in Seq(Nat \ {0}) /\ Rises(f) /\ Steps(i, f) /\ Front(f) = c
      /\ UpToDate(i, f, now15)
  BY <1>2, <1>3, <1>5, <1>6, AnswerIsWhole
<1>8. SwingTyped'
  <2>1. feed' \in [Both -> Seq(Nat \ {0})]
    BY <1>2, <1>3, <1>5, <1>7 DEF SwingInv, SwingTyped
  <2>2. lastKey' \in [Both -> Nat]
    BY <1>2, <1>3, <1>6 DEF SwingInv, SwingTyped
  <2>3. late' \in [Both -> 0..now15]
    BY <1>2, <1>4 DEF SwingInv, SwingTyped
  <2>4. asking' \in 0..2
    BY <1>2, <1>4
  <2> QED BY <1>4, <2>1, <2>2, <2>3, <2>4, Zenon DEF SwingInv, SwingTyped
<1>9. Swing!ViewIsCurrent'
  BY <1>4 DEF SwingInv, Swing!ViewIsCurrent
<1>10. feed'[i] = f /\ lastKey'[i] = c /\ late'[i] = 0
  BY <1>2, <1>3, <1>4, <1>5, <1>6 DEF SwingInv, SwingTyped
<1>11. c <= Front(f)
  BY <1>7
<1>12. Steps(i, feed[i])'
  BY <1>4, <1>7, <1>10 DEF Steps, OneStep
<1>13. \A j \in Both \ {i} : UNCHANGED <<feed[j], lastKey[j], late[j], worst[j]>>
  BY <1>2, <1>3, <1>4 DEF SwingInv, SwingTyped
<1>14. {i} \in SUBSET Both
  BY <1>2
<1> QED BY <1>4, <1>7, <1>8, <1>9, <1>10, <1>11, <1>12, <1>13, <1>14, FedKeeps

(* Nothing has closed, and nothing has been fed. *)
LEMMA NothingYetKeeps == SwingInv /\ Swing!NothingYet => SwingInv'
<1> SUFFICES ASSUME SwingInv, Swing!NothingYet PROVE SwingInv'
  OBVIOUS
<1>1. PICK i : i = FeedIntervals[asking]
  OBVIOUS
<1>2. i \in Both /\ (IF asking = Len(FeedIntervals) THEN 0 ELSE asking + 1) \in 0..2
  BY <1>1, Asked DEF Swing!NothingYet
<1>3. /\ Swing!ClosedBy(i, now15) = <<>>
      /\ late' = [late EXCEPT ![i] = 0]
      /\ asking' = IF asking = Len(FeedIntervals) THEN 0 ELSE asking + 1
      /\ UNCHANGED <<now15, polled, feed, lastKey, view, worst>>
  BY <1>1 DEF Swing!NothingYet
<1>4. SwingTyped'
  <2>1. late' \in [Both -> 0..now15]
    BY <1>2, <1>3 DEF SwingInv, SwingTyped
  <2>2. asking' \in 0..2
    BY <1>2, <1>3
  <2> QED BY <1>3, <2>1, <2>2, Zenon DEF SwingInv, SwingTyped
<1>5. Swing!ViewIsCurrent'
  BY <1>3 DEF SwingInv, Swing!ViewIsCurrent
<1>6. PICK p \in Nat \ {0}, now \in Nat, l \in Nat : p = Period[i] /\ now = now15 /\ l = late[i]
  <2>1. now15 \in Nat /\ late[i] \in 0..now15
    BY <1>2 DEF SwingInv, SwingTyped
  <2> QED BY <1>2, <2>1, SwingAssumption DEF Both
<1>7. now < p
  <2>1. PICK q \in Nat : q = now \div p /\ now < q * p + p
    BY <1>6, Floor
  <2>2. Len(Swing!ClosedBy(i, now)) = q
    BY <1>2, <1>6, <2>1, ClosedIsWhole
  <2>3. q = 0
    BY <1>3, <1>6, <2>2
  <2>4. 0 * p = 0
    OBVIOUS
  <2> QED BY <2>1, <2>3, <2>4
<1>8. UpToDate(i, feed[i], now15)
  <2>1. PICK q \in Nat : Front(feed[i]) = q * p /\ q * p <= now - l
    BY <1>2, <1>6 DEF SwingInv, UpToDate
  <2>2. q = 0
    <3>1. 0 < q => 0 * p + p <= q * p
      BY Multiples
    <3>2. 0 * p = 0
      OBVIOUS
    <3>3. PICK x \in Int : x = q * p
      OBVIOUS
    <3>4. x < p
      BY <1>7, <2>1, <3>3
    <3> QED BY <3>1, <3>2, <3>3, <3>4
  <2>3. 0 * p = 0
    OBVIOUS
  <2>4. 0 * p <= now /\ now < 0 * p + p
    BY <1>7, <2>3
  <2> QED BY <1>6, <2>1, <2>2, <2>4 DEF UpToDate
<1>9. late'[i] = 0 /\ feed'[i] = feed[i] /\ lastKey'[i] = lastKey[i]
  BY <1>2, <1>3 DEF SwingInv, SwingTyped
<1>10. /\ lastKey[i] <= Front(feed[i]) /\ Rises(feed[i]) /\ Steps(i, feed[i])'
  BY <1>2, <1>3 DEF SwingInv, Steps, OneStep
<1>11. \A j \in Both \ {i} : UNCHANGED <<feed[j], lastKey[j], late[j], worst[j]>>
  BY <1>2, <1>3 DEF SwingInv, SwingTyped
<1>12. {i} \in SUBSET Both
  BY <1>2
<1> QED BY <1>3, <1>4, <1>5, <1>8, <1>9, <1>10, <1>11, <1>12, FedKeeps

(* A start reads again what has closed, of which the key is still one.     *)
LEMMA RestartKeeps == SwingInv /\ Swing!Restart => SwingInv'
<1> SUFFICES ASSUME SwingInv, Swing!Restart PROVE SwingInv'
  OBVIOUS
<1>1. /\ polled' = FALSE /\ asking' = 0 /\ view' = NoRow
      /\ feed' = [i \in Both |-> Swing!ClosedBy(i, now15)]
      /\ late' = [i \in Both |-> 0] /\ worst' = late'
      /\ UNCHANGED <<now15, lastKey>>
  BY TwoIntervals DEF Swing!Restart
<1>2. now15 \in Nat
  BY DEF SwingInv, SwingTyped
<1>3. ASSUME NEW i \in Both
      PROVE  /\ feed'[i] \in Seq(Nat \ {0})
             /\ late'[i] = 0 /\ lastKey'[i] <= Front(feed'[i])
             /\ Rises(feed'[i]) /\ Steps(i, feed[i])' /\ UpToDate(i, feed'[i], now15)
  <2>1. PICK f : f = Swing!ClosedBy(i, now15)
    OBVIOUS
  <2>2. PICK p \in Nat \ {0}, m \in Nat : p = Period[i] /\ m = now15 \div p /\ now15 < m * p + p
    <3>1. PICK p \in Nat \ {0} : p = Period[i]
      BY SwingAssumption DEF Both
    <3>2. now15 \div p \in Nat /\ now15 < (now15 \div p) * p + p
      BY <1>2, Floor
    <3> QED BY <3>1, <3>2
  <2>3. f \in Seq(Nat \ {0}) /\ Rises(f) /\ Front(f) = m * p /\ UpToDate(i, f, now15)
    BY <1>2, <2>1, <2>2, ClosedIsWhole
  <2>4. \A k \in 1..(Len(f) - 1) : f[k + 1] = f[k] + Period[i]
    <3>1. Len(f) = m /\ \A k \in 1..m : f[k] = k * p
      BY <1>2, <2>1, <2>2, ClosedIsWhole
    <3>2. \A k \in 1..(m - 1) : k \in 1..m /\ k + 1 \in 1..m /\ (k + 1) * p = k * p + p
      BY Multiples
    <3> QED BY <2>2, <3>1, <3>2
  <2>5. feed'[i] = f /\ late'[i] = 0 /\ lastKey'[i] = lastKey[i]
    BY <1>1, <2>1
  <2>6. Steps(i, feed[i])'
    BY <2>4, <2>5 DEF Steps, OneStep
  <2>7. lastKey[i] <= m * p
    <3>1. PICK q \in Nat, l \in Nat : /\ l = late[i] /\ l <= now15
                                      /\ Front(feed[i]) = q * p /\ q * p <= now15 - l
      <4>1. late[i] \in Nat /\ late[i] <= now15
        BY <1>2 DEF SwingInv, SwingTyped
      <4> QED BY <2>2, <4>1 DEF SwingInv, UpToDate
    <3>2. PICK x \in Nat, c \in Nat : x = q * p /\ c = m * p
      BY Multiples
    <3>3. x <= now15 /\ now15 < c + p
      BY <1>2, <2>2, <3>1, <3>2
    <3>4. m < q => c + p <= x
      BY <3>2, Multiples
    <3>5. q < m => x < c
      BY <3>2, Multiples
    <3>6. x <= c
      <4>1. ~(m < q)
        BY <1>2, <3>3, <3>4
      <4> QED BY <3>2, <3>5, <4>1
    <3>7. lastKey[i] <= x /\ lastKey[i] \in Nat
      BY <3>1, <3>2 DEF SwingInv, SwingTyped
    <3> QED BY <3>2, <3>6, <3>7
  <2> QED BY <2>3, <2>5, <2>6, <2>7
<1>4. SwingTyped'
  <2>1. feed' \in [Both -> Seq(Nat \ {0})]
    BY <1>1, <1>3
  <2>2. late' \in [Both -> 0..now15] /\ worst' \in [Both -> Nat]
    BY <1>1, <1>2
  <2>3. asking' \in 0..2
    BY <1>1
  <2>4. polled' \in BOOLEAN
    BY <1>1
  <2> QED BY <1>1, <2>1, <2>2, <2>3, <2>4, Zenon DEF SwingInv, SwingTyped
<1>5. Swing!ViewIsCurrent'
  BY <1>1 DEF Swing!ViewIsCurrent
<1>6. Both \in SUBSET Both /\ \A i \in Both \ Both : FALSE
  OBVIOUS
<1> QED BY <1>1, <1>3, <1>4, <1>5, <1>6, FedKeeps

LEMMA SwingStep == SwingInv /\ [Swing!Next]_Swing!sbVars => SwingInv'
<1>1. SwingInv /\ (Swing!PollFails \/ Swing!AskFails \/ Swing!Done \/ UNCHANGED Swing!sbVars)
         => SwingInv'
  <2> SUFFICES ASSUME SwingInv,
                      Swing!PollFails \/ Swing!AskFails \/ Swing!Done \/ UNCHANGED Swing!sbVars
               PROVE  SwingInv'
    OBVIOUS
  <2>1. /\ polled' \in {TRUE, polled} /\ asking' \in {0, asking}
        /\ UNCHANGED <<now15, feed, lastKey, view, late, worst>>
    BY DEF Swing!PollFails, Swing!AskFails, Swing!Done, Swing!sbVars
  <2>2. asking' \in 0..2
    BY <2>1 DEF SwingInv, SwingTyped
  <2>3. polled' \in BOOLEAN
    BY <2>1, Zenon DEF SwingInv, SwingTyped
  <2>4. SwingTyped'
    BY <2>1, <2>2, <2>3, Zenon DEF SwingInv, SwingTyped
  <2> QED BY <2>1, <2>4 DEF SwingInv, Steps, OneStep, UpToDate, Swing!ViewIsCurrent
<1> QED BY <1>1, CandleClosesKeeps, PollKeeps, AnswerKeeps, NothingYetKeeps, RestartKeeps
        DEF Swing!Next

(* No candle it has is ahead of the clock. *)
LEMMA FeedIsPast ==
    ASSUME SwingInv, NEW i \in Both
    PROVE  /\ Front(feed[i]) \in Nat /\ Front(feed[i]) <= now15
           /\ \A k \in 1..Len(feed[i]) : feed[i][k] \in Nat \ {0} /\ feed[i][k] <= now15
<1>1. PICK f \in Seq(Nat \ {0}), n \in Nat : f = feed[i] /\ n = Len(f) /\ DOMAIN f = 1..n
  BY LenProperties DEF SwingInv, SwingTyped
<1>2. \A k \in 1..n : f[k] \in Nat \ {0}
  BY <1>1, ElementOfSeq
<1>3. Rises(f)
  BY <1>1 DEF SwingInv
<1>4. Front(f) \in Nat /\ Front(f) <= now15
  <2>1. PICK p \in Nat, now \in Nat, l \in Nat : p = Period[i] /\ now = now15 /\ l = late[i]
    <3>1. now15 \in Nat /\ late[i] \in 0..now15
      BY DEF SwingInv, SwingTyped
    <3>2. Period[i] \in Nat /\ late[i] \in Nat
      BY <3>1, SwingAssumption DEF Both
    <3> QED BY <3>1, <3>2
  <2>2. PICK q \in Nat : Front(f) = q * p /\ q * p <= now - l
    BY <1>1, <2>1 DEF SwingInv, UpToDate
  <2>3. q * p \in Nat /\ q * p <= now
    BY <2>2
  <2> QED BY <2>1, <2>2, <2>3
<1>5. n # 0 => Front(f) = f[n]
  BY <1>1, EmptySeq DEF Front
<1>6. ASSUME NEW k \in 1..n PROVE f[k] <= now15
  <2>1. n \in 1..n /\ now15 \in Nat /\ n # 0
    BY DEF SwingInv, SwingTyped
  <2>2. k # n => k < n
    OBVIOUS
  <2>3. k # n => f[k] < f[n]
    BY <1>1, <1>3, <2>1, <2>2 DEF Rises
  <2> QED BY <1>2, <1>4, <1>5, <2>1, <2>3
<1> QED BY <1>1, <1>2, <1>4, <1>6

(* The swing-break engine knows no candle before it has closed, each once  *)
(* and in order, and looks at none that closed after the candle it is      *)
(* asked about; neither a gap nor an old view is more than the answers     *)
(* that were missed explain, whatever fails and whenever it starts again   *)
(* (swing_break_engine.py:156-183, 301-317).                               *)
THEOREM EngineIsFedHolds == Swing!Spec => []Swing!EngineIsFed
<1>1. SwingInv => Swing!EngineIsFed
  <2>1. \A m \in Nat : \A k \in 1..(m - 1) : k \in 1..m /\ k + 1 \in 1..m /\ k < k + 1
    OBVIOUS
  <2> SUFFICES ASSUME SwingInv PROVE Swing!FeedIsWhole
    BY DEF SwingInv, Swing!EngineIsFed
  <2>2. ASSUME NEW i \in Both
        PROVE  /\ \A c \in Swing!Range(feed[i]) : c <= now15
               /\ \A k \in 1..(Len(feed[i]) - 1) :
                     /\ feed[i][k] < feed[i][k + 1]
                     /\ worst[i] <= Period[i] => feed[i][k + 1] = feed[i][k] + Period[i]
    <3>1. PICK f \in Seq(Nat \ {0}), n \in Nat : f = feed[i] /\ n = Len(f) /\ DOMAIN f = 1..n
      BY LenProperties DEF SwingInv, SwingTyped
    <3>2. \A k \in 1..n : f[k] \in Nat
      BY <3>1, ElementOfSeq
    <3>3. Rises(f) /\ Steps(i, f)
      BY <3>1 DEF SwingInv
    <3>5. \A k \in 1..n : f[k] <= now15
      BY <3>1, FeedIsPast
    <3>6. ASSUME NEW k \in 1..(n - 1)
          PROVE  /\ f[k] < f[k + 1]
                 /\ worst[i] <= Period[i] => f[k + 1] = f[k] + Period[i]
      <4>1. k \in 1..n /\ k + 1 \in 1..n /\ k < k + 1
        BY <2>1
      <4>2. f[k] < f[k + 1]
        BY <3>1, <3>3, <4>1 DEF Rises
      <4>3. worst[i] \in Nat /\ Period[i] \in Nat
        BY SwingAssumption DEF SwingInv, SwingTyped, Both
      <4>4. OneStep(i, f[k], f[k + 1])
        BY <3>1, <3>3 DEF Steps
      <4>5. ~(Period[i] < worst[i] /\ worst[i] <= Period[i])
        BY <4>3
      <4> QED BY <4>2, <4>4, <4>5, Zenon DEF OneStep
    <3> QED BY <3>1, <3>5, <3>6 DEF Swing!Range
  <2> QED BY <2>2, TwoIntervals DEF Swing!FeedIsWhole
<1> QED BY <1>1, SwingStart, SwingStep, PTL DEF Swing!Spec

(* Its variables keep their types: no candle it has been given, or notes   *)
(* as the last, is ahead of the clock (swing_break_engine.py:156-183).     *)
THEOREM SwingTypeOK == Swing!Spec => []Swing!TypeOK
<1>1. SwingInv => Swing!TypeOK
  <2> SUFFICES ASSUME SwingInv PROVE Swing!TypeOK
    OBVIOUS
  <2>1. /\ now15 \in 0..LastCandle /\ polled \in BOOLEAN /\ asking \in 0..2
        /\ view # NoRow => view.at \in 0..now15
    BY DEF SwingInv, SwingTyped
  <2>2. Len(FeedIntervals) = 2
    BY SwingAssumption
  <2>3. ASSUME NEW i \in Both
        PROVE  Swing!Range(feed[i]) \subseteq 1..now15 /\ lastKey[i] \in 0..now15
    <3>1. now15 \in Nat /\ lastKey[i] \in Nat /\ lastKey[i] <= Front(feed[i])
      BY DEF SwingInv, SwingTyped
    <3>2. DOMAIN feed[i] = 1..Len(feed[i])
      BY LenProperties DEF SwingInv, SwingTyped
    <3>3. \A k \in 1..Len(feed[i]) : feed[i][k] \in 1..now15
      BY <3>1, FeedIsPast
    <3>4. lastKey[i] \in 0..now15
      BY <3>1, FeedIsPast
    <3> QED BY <3>2, <3>3, <3>4 DEF Swing!Range
  <2> QED BY <2>1, <2>2, <2>3, TwoIntervals DEF Swing!TypeOK
<1> QED BY <1>1, SwingStart, SwingStep, PTL DEF Swing!Spec
=============================================================================
