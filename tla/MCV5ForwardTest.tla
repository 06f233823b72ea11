--------------------------- MODULE MCV5ForwardTest ---------------------------
(***************************************************************************)
(* Instances of V5ForwardTest for TLC.  Symbols and uuids are              *)
(* interchangeable.                                                        *)
(***************************************************************************)
EXTENDS V5ForwardTest, TLC

Interchangeable == Permutations(Uuids) \cup Permutations(Symbols)

=============================================================================
