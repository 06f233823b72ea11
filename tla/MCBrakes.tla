------------------------------ MODULE MCBrakes ------------------------------
(***************************************************************************)
(* A small calendar for Brakes: two instants a day, two days a week, so    *)
(* the cooldown (three instants) can straddle a midnight and a Monday.     *)
(***************************************************************************)
EXTENDS Brakes

MCHorizon == 6

MCDay == [t \in 0..MCHorizon |-> t \div 2]

MCWeek == [t \in 0..MCHorizon |-> t \div 4]

=============================================================================
