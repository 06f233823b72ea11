-------------------------- MODULE LiqClusterEngine --------------------------
(***************************************************************************)
(* LiqClusterEngineV5 (engines/liq_cluster_engine_v5.py): the state the    *)
(* engine keeps of a symbol and what its three entry points make of it.    *)
(* The module has no variables; V5ForwardTest holds one state per symbol.  *)
(*                                                                         *)
(* Indicators, confirmations, deciles and prices are abstracted to the     *)
(* decision they lead to.  last_cascade_state always equals                *)
(* cascade_active (both are assigned in update_daily_liq only), so one     *)
(* field stands for both.  `lively' says that mfe is at least 0.1 R, the   *)
(* bar under which a trade counts as dead.                                 *)
(***************************************************************************)
EXTENDS Integers

CONSTANTS
    CooldownBars,         \* cooldown_bars
    StopCooldownBars,     \* 288 bars after too many stops
    MaxConsecutiveStops,  \* max_consecutive_stops
    TightBars,            \* bars before a deactivated cascade tightens
    DecayStart,           \* decay_start_bar of the decile
    MaxHold               \* max_hold_bars of the decile

ASSUME EngineAssumption ==
    /\ CooldownBars \in Nat \ {0} /\ StopCooldownBars \in Nat \ {0}
    /\ MaxConsecutiveStops \in Nat \ {0}
    /\ TightBars \in Nat /\ DecayStart \in Nat /\ MaxHold \in Nat \ {0}

SymbolState ==
    [cascade_active : BOOLEAN, cooldown : Nat, stopped_in_window : BOOLEAN,
     consecutive_stops : Nat, stop_cooldown : Nat, in_trade : BOOLEAN,
     lively : BOOLEAN]

FreshSymbol ==
    [cascade_active |-> FALSE, cooldown |-> 0, stopped_in_window |-> FALSE,
     consecutive_stops |-> 0, stop_cooldown |-> 0, in_trade |-> FALSE,
     lively |-> FALSE]

\* A cascade that begins lifts the blocks earned in the one before.
UpdateDailyLiq(st, active) ==
    IF active /\ ~st.cascade_active
    THEN [st EXCEPT !.cascade_active = TRUE, !.stopped_in_window = FALSE,
                    !.consecutive_stops = 0, !.stop_cooldown = 0]
    ELSE [st EXCEPT !.cascade_active = active]

-----------------------------------------------------------------------------
(* evaluate *)

\* Mutant of CanSignal: the bars after an exit are not waited for.
CanSignalAtOnce(st) ==
    ~st.stopped_in_window /\ st.cascade_active /\ st.stop_cooldown = 0

CanSignal(st) ==
    /\ st.cooldown = 0
    /\ ~st.stopped_in_window
    /\ st.cascade_active
    /\ st.stop_cooldown = 0

\* Mutant of Quiet: the cooldown is counted down below zero.
QuietUnchecked(st) == {[st EXCEPT !.cooldown = @ - 1]}

\* What an evaluation without a signal leaves.  A cascade too weak to trade
\* returns before the long cooldown is counted down.
Quiet(st) ==
    IF st.cooldown > 0 THEN {[st EXCEPT !.cooldown = @ - 1]}
    ELSE IF /\ ~st.stopped_in_window /\ st.cascade_active
            /\ st.stop_cooldown > 0
         THEN {st, [st EXCEPT !.stop_cooldown = @ - 1]}
    ELSE {st}

Signalled(st) == [st EXCEPT !.in_trade = TRUE, !.lively = FALSE]

-----------------------------------------------------------------------------
(* manage_position *)

\* Mutant of Decisions: the time stop is taken at one bar only.
DecisionsAtTheBar(st, bars) ==
    IF ~st.in_trade THEN {"hold"}
    ELSE {"stop_loss", "trail"}
         \cup (IF bars = MaxHold THEN {"time_stop"} ELSE {"hold"})

\* What the bar may lead to when the trade has been held for so many bars.
\* "trail" stands for vol_trail, struct_trail and decay.
Decisions(st, bars) ==
    IF ~st.in_trade THEN {"hold"}
    ELSE {"stop_loss", "trail"}
         \cup (IF ~st.cascade_active /\ bars > TightBars
               THEN {"cascade_deactivated"} ELSE {})
         \cup (IF bars >= DecayStart /\ ~st.lively
               THEN {"early_cut"} ELSE {})
         \cup (IF bars >= MaxHold THEN {"time_stop"} ELSE {"hold"})

CountStop(st) ==
    [st EXCEPT !.consecutive_stops = @ + 1,
               !.stop_cooldown = IF st.consecutive_stops + 1 >= MaxConsecutiveStops
                                 THEN StopCooldownBars ELSE @]

\* The states after a decision.
Decided(st, d) ==
    LET out == [st EXCEPT !.in_trade = FALSE, !.cooldown = CooldownBars]
    IN  CASE d = "hold" -> IF st.in_trade
                           THEN {st, [st EXCEPT !.lively = TRUE]} ELSE {st}
          [] d = "stop_loss" ->
                 {CountStop([out EXCEPT !.stopped_in_window = TRUE])}
          [] d = "early_cut" -> {CountStop(out)}
          [] OTHER -> {[out EXCEPT !.consecutive_stops = 0]}

=============================================================================
