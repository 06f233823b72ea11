---------------------------- MODULE MCTradingCore ----------------------------
(***************************************************************************)
(* Instances of TradingCore for TLC.  The uuids of entries are             *)
(* interchangeable: a symmetry for the runs without liveness.              *)
(***************************************************************************)
EXTENDS TradingCore, TLC

UuidSymmetry == Permutations(OwnIds)

=============================================================================
