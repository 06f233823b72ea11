-------------------------------- MODULE Totals --------------------------------
(***************************************************************************)
(* The running sums of a sequence of amounts, as a function of how many of *)
(* them are taken, and the last of them: the ledgers of the backtest and   *)
(* of the replay tools are stated with it.                                 *)
(***************************************************************************)
EXTENDS Integers, Sequences

Sums(amounts) ==
    LET sum[k \in 0..Len(amounts)] == IF k = 0 THEN 0 ELSE sum[k - 1] + amounts[k]
    IN sum

Total(amounts) == Sums(amounts)[Len(amounts)]
=============================================================================
