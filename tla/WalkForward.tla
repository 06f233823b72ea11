----------------------------- MODULE WalkForward -----------------------------
(***************************************************************************)
(* The walk-forward split of the research (research/engine/walkforward.py):*)
(* windows of training and test data are cut from a history one step after *)
(* the other, and each is trained and tested in its turn.  A row is its    *)
(* day; the history may have holes.  The anchored variant takes the same   *)
(* window again and again, as its end does not depend on the cursor, and   *)
(* never returns: it is left out, as nothing asks for it.                  *)
(***************************************************************************)
EXTENDS Integers, FiniteSets, FiniteSetsExt, SequencesExt

CONSTANTS Days,      \* the longest history
          None,
          TrainDays, TestDays, StepDays,
          MinTrain,  \* min_train_bars
          MaxTrades  \* bound: trades of a test

VARIABLES history,  \* the rows
          cursor,
          splits,   \* the windows found
          fold,     \* folds that were run
          params,   \* the rows the parameters were trained on
          trades    \* [fold, day] of every trade

wfVars == <<history, cursor, splits, fold, params, trades>>

Init ==
    /\ history \in (SUBSET Days) \ {{}}
    /\ cursor = Min(history)
    /\ splits = <<>>
    /\ fold = 0 /\ params = None /\ trades = {}

Between(a, b) == {t \in history : a <= t /\ t < b}
TrainEnd == cursor + TrainDays
TestEnd == TrainEnd + TestDays
Cut == TestEnd > Max(history)
-----------------------------------------------------------------------------
(* A window counts if it has enough rows to train on and one to test. *)
NextWindow ==
    /\ ~Cut
    /\ LET train == Between(cursor, TrainEnd)
           test == Between(TrainEnd, TestEnd)
       IN splits' = IF Cardinality(train) >= MinTrain /\ test # {}
                    THEN Append(splits, [train |-> train, test |-> test]) ELSE splits
    /\ cursor' = cursor + StepDays
    /\ UNCHANGED <<history, fold, params, trades>>

Train ==
    /\ Cut /\ params = None /\ fold < Len(splits)
    /\ fold' = fold + 1
    /\ params' = splits[fold'].train
    /\ UNCHANGED <<history, cursor, splits, trades>>

Test ==
    /\ params # None
    /\ \E days \in SUBSET splits[fold].test :
          /\ Cardinality(days) <= MaxTrades
          /\ trades' = trades \cup {[fold |-> fold, day |-> d] : d \in days}
    /\ params' = None
    /\ UNCHANGED <<history, cursor, splits, fold>>

Done == Cut /\ params = None /\ fold = Len(splits) /\ UNCHANGED wfVars

Next == NextWindow \/ Train \/ Test \/ Done

Spec == Init /\ [][Next]_wfVars
-----------------------------------------------------------------------------
TypeOK ==
    /\ cursor \in Nat
    /\ fold \in 0..Len(splits)
    /\ \A k \in DOMAIN splits : splits[k].train \cup splits[k].test \subseteq history
    /\ params = None \/ params \subseteq history
    /\ \A t \in trades : t.fold \in 1..fold /\ t.day \in history

(* Parameters are tested only on days after the ones they were trained on, *)
(* and a day counts in the combined result once                            *)
(* (walkforward.py:52-76, 102-112).                                        *)
OutOfSample ==
    /\ params # None => \A d \in params, e \in splits[fold].test : d < e
    /\ \A t, u \in trades : t.day = u.day => t.fold = u.fold
    /\ \A t \in trades : \A d \in splits[t.fold].train : d < t.day
=============================================================================
