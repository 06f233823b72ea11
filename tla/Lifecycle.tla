------------------------------ MODULE Lifecycle ------------------------------
(***************************************************************************)
(* The position state machine of core/models.py: PositionState, the table  *)
(* VALID_TRANSITIONS and Position.transition_to, which rejects an invalid  *)
(* move by leaving the state as it is.                                     *)
(***************************************************************************)

PositionState ==
    {"SIGNAL_GENERATED", "ORDER_PENDING", "PARTIALLY_FILLED", "FILLED",
     "STOP_PLACED", "MANAGING", "PARTIAL_TP", "TRAILING", "CLOSING", "CLOSED",
     "DETECTED", "TRACKING", "CANCELLED"}

ValidTransitions ==
    {<<"SIGNAL_GENERATED", "ORDER_PENDING">>,
     <<"ORDER_PENDING", "PARTIALLY_FILLED">>, <<"ORDER_PENDING", "FILLED">>,
     <<"ORDER_PENDING", "CANCELLED">>,
     <<"PARTIALLY_FILLED", "FILLED">>, <<"PARTIALLY_FILLED", "CANCELLED">>,
     <<"FILLED", "STOP_PLACED">>, <<"STOP_PLACED", "MANAGING">>,
     <<"MANAGING", "PARTIAL_TP">>, <<"MANAGING", "CLOSING">>,
     <<"PARTIAL_TP", "TRAILING">>, <<"PARTIAL_TP", "CLOSING">>,
     <<"TRAILING", "CLOSING">>, <<"CLOSING", "CLOSED">>,
     <<"DETECTED", "TRACKING">>, <<"TRACKING", "CLOSED">>}

TransitionTo(state, target) ==
    IF <<state, target>> \in ValidTransitions THEN target ELSE state

\* States in which get_open_positions does not list a position.
Terminal == {"CLOSED", "CANCELLED"}

\* A new position as main.py builds it from the fill of its entry order.
Opened == TransitionTo(TransitionTo("FILLED", "STOP_PLACED"), "MANAGING")

\* A position reconciliation found on the exchange.
Adopted == TransitionTo("DETECTED", "TRACKING")

\* A managed position after its partial take-profit, and one that trails.
AfterTakeProfit(state) == TransitionTo(state, "PARTIAL_TP")

AfterTrail(state) == TransitionTo(state, "TRAILING")

\* The two moves of a close; an external position skips the first.
AfterClose(state) == TransitionTo(TransitionTo(state, "CLOSING"), "CLOSED")

=============================================================================
