---------------------------- MODULE Supervision ----------------------------
(***************************************************************************)
(* The tasks of main.py under core/watchdog.py, the connection loop of     *)
(* data/binance_ws.py that one of them starts, and the shutdown of all.    *)
(* asyncio switches at an await only: a task that never awaits keeps the   *)
(* event loop, and then no other action is possible.                       *)
(***************************************************************************)
EXTENDS Naturals, FiniteSets

CONSTANTS Tasks,       \* the supervised tasks
          Socket,      \* the one that starts the WebSocket
          MaxRestarts, \* max_restarts of a task
          MaxRetries,  \* max_retries of the WebSocket
          Patience     \* intervals of silence the monitor tolerates (3)

\* What the theorems assume of the budgets.
ASSUME WatchAssumption ==
    /\ MaxRestarts \in Nat
    /\ MaxRetries \in Nat
    /\ Patience \in Nat

VARIABLES sup,      \* where _run_with_supervision is: run, backoff, ended
          restarts, \* restart_count
          healthy,  \* is_healthy
          silent,   \* intervals since last_heartbeat
          sock,     \* _connect_loop: off, connecting, up, waiting, ended
          retries,  \* its consecutive failures
          phase,    \* main: up, alert, tasks, socket, persist, down
          spinning  \* a task keeps the event loop

watchVars == <<sup, restarts, healthy, silent, sock, retries, phase, spinning>>

AppRunning == phase = "up"                  \* Bitana._running
WatchdogRunning == phase \in {"up", "alert"} \* Watchdog._running

(* start_all and the first turn of every task. *)
WatchInit ==
    /\ sup = [t \in Tasks |-> "run"]
    /\ restarts = [t \in Tasks |-> 0]
    /\ healthy = [t \in Tasks |-> TRUE]
    /\ silent = [t \in Tasks |-> 0]
    /\ sock = "connecting"
    /\ retries = 0
    /\ phase = "up"
    /\ spinning = FALSE
-----------------------------------------------------------------------------
Fresh(t) ==
    /\ silent' = [silent EXCEPT ![t] = 0]
    /\ healthy' = [healthy EXCEPT ![t] = TRUE]

(* The body of a task comes round and reports. *)
Heartbeat(t) ==
    /\ ~spinning
    /\ sup[t] = "run"
    /\ AppRunning
    /\ Fresh(t)
    /\ UNCHANGED <<sup, restarts, sock, retries, phase, spinning>>

(* Mutant of Crash: the task is not marked. *)
CrashUnmarked(t) ==
    /\ ~spinning
    /\ t # Socket
    /\ sup[t] = "run"
    /\ restarts' = [restarts EXCEPT ![t] = @ + 1]
    /\ sup' = [sup EXCEPT ![t] = IF restarts[t] + 1 > MaxRestarts
                                 THEN "ended" ELSE "backoff"]
    /\ UNCHANGED <<healthy, silent, sock, retries, phase, spinning>>

(* An exception leaves the body.  The one that starts the WebSocket has    *)
(* nothing that raises.  Nobody subscribes to what is emitted: neither     *)
(* TASK_CRASHED nor SYSTEM_SHUTDOWN changes anything.                      *)
TaskCrashes(t) ==
    /\ ~spinning
    /\ t # Socket
    /\ sup[t] = "run"
    /\ restarts' = [restarts EXCEPT ![t] = @ + 1]
    /\ healthy' = [healthy EXCEPT ![t] = FALSE]
    /\ sup' = [sup EXCEPT ![t] = IF restarts[t] + 1 > MaxRestarts
                                 THEN "ended" ELSE "backoff"]
    /\ UNCHANGED <<silent, sock, retries, phase, spinning>>

RestartTask(t) ==
    /\ ~spinning
    /\ sup[t] = "backoff"
    /\ WatchdogRunning
    /\ sup' = [sup EXCEPT ![t] = "run"]
    /\ Fresh(t)
    /\ UNCHANGED <<restarts, sock, retries, phase, spinning>>

(* A body that finds _running false returns.  The watchdog, which still    *)
(* runs, calls the factory again at once, and that returns at once again   *)
(* without an await (but for Telegram's, whose start awaits its polling).  *)
Return(t) ==
    /\ ~spinning
    /\ sup[t] = "run"
    /\ ~AppRunning
    /\ IF WatchdogRunning
       THEN spinning' = TRUE /\ Fresh(t) /\ UNCHANGED sup
       ELSE sup' = [sup EXCEPT ![t] = "ended"] /\ UNCHANGED <<spinning, silent, healthy>>
    /\ UNCHANGED <<restarts, sock, retries, phase>>

(* One turn of _monitor_loop, an interval after the last. *)
Monitor ==
    /\ ~spinning
    /\ WatchdogRunning
    /\ silent' = [t \in Tasks |-> IF silent[t] > Patience THEN silent[t] ELSE silent[t] + 1]
    /\ healthy' = [t \in Tasks |-> healthy[t] /\ silent'[t] <= Patience]
    /\ UNCHANGED <<sup, restarts, sock, retries, phase, spinning>>

(* _connect_loop. *)
Connect ==
    /\ ~spinning
    /\ sock = "connecting"
    /\ sock' = "up"
    /\ retries' = 0
    /\ UNCHANGED <<sup, restarts, healthy, silent, phase, spinning>>

(* No connection, or the end of one. *)
Disconnect ==
    /\ ~spinning
    /\ sock \in {"connecting", "up"}
    /\ retries' = retries + 1
    /\ sock' = IF retries' > MaxRetries THEN "ended" ELSE "waiting"
    /\ UNCHANGED <<sup, restarts, healthy, silent, phase, spinning>>

Reconnect ==
    /\ ~spinning
    /\ sock = "waiting"
    /\ sock' = "connecting"
    /\ UNCHANGED <<sup, restarts, healthy, silent, retries, phase, spinning>>
-----------------------------------------------------------------------------
(* Bitana.shutdown, from await to await: _running is cleared, then an      *)
(* alert is awaited, ...                                                   *)
RequestShutdown ==
    /\ ~spinning
    /\ phase = "up"
    /\ phase' = "alert"
    /\ UNCHANGED <<sup, restarts, healthy, silent, sock, retries, spinning>>

(* ... then stop_all clears the watchdog's flag ... *)
StopAll ==
    /\ ~spinning
    /\ phase = "alert"
    /\ phase' = "tasks"
    /\ UNCHANGED <<sup, restarts, healthy, silent, sock, retries, spinning>>

(* Mutant of CancelTask: a task that waits for its restart is not reached. *)
CancelRunning(t) ==
    /\ ~spinning
    /\ phase = "tasks"
    /\ sup[t] = "run"
    /\ sup' = [sup EXCEPT ![t] = "ended"]
    /\ UNCHANGED <<restarts, healthy, silent, sock, retries, phase, spinning>>

(* ... and cancels one task after another, wherever it waits. *)
CancelTask(t) ==
    /\ ~spinning
    /\ phase = "tasks"
    /\ sup[t] # "ended"
    /\ sup' = [sup EXCEPT ![t] = "ended"]
    /\ UNCHANGED <<restarts, healthy, silent, sock, retries, phase, spinning>>

StopSocket ==
    /\ ~spinning
    /\ phase = "tasks"
    /\ \A t \in Tasks : sup[t] = "ended"
    /\ phase' = "persist"
    /\ sock' = "ended"
    /\ UNCHANGED <<sup, restarts, healthy, silent, retries, spinning>>

Persist ==
    /\ ~spinning
    /\ phase = "persist"
    /\ phase' = "down"
    /\ UNCHANGED <<sup, restarts, healthy, silent, sock, retries, spinning>>

Stop == StopAll \/ (\E t \in Tasks : CancelTask(t)) \/ StopSocket \/ Persist

(* The process has ended, or one task has the event loop for ever. *)
Rest == (phase = "down" \/ spinning) /\ UNCHANGED watchVars

WatchNext ==
    \/ \E t \in Tasks : Heartbeat(t) \/ TaskCrashes(t) \/ RestartTask(t) \/ Return(t)
    \/ Monitor
    \/ Connect \/ Disconnect \/ Reconnect
    \/ RequestShutdown
    \/ Stop
    \/ Rest

WatchSpec == WatchInit /\ [][WatchNext]_watchVars
-----------------------------------------------------------------------------
(* Every variable has its type. *)
WatchTypeOK ==
    /\ sup \in [Tasks -> {"run", "backoff", "ended"}]
    /\ restarts \in [Tasks -> 0..MaxRestarts + 1]
    /\ healthy \in [Tasks -> BOOLEAN]
    /\ silent \in [Tasks -> 0..Patience + 1]
    /\ sock \in {"connecting", "up", "waiting", "ended"}
    /\ retries \in 0..MaxRetries + 1
    /\ phase \in {"up", "alert", "tasks", "persist", "down"}
    /\ spinning \in BOOLEAN

(* What get_health_summary calls healthy is a task that runs: one that     *)
(* crashed is not healthy again before its body is (watchdog.py:109-112),  *)
(* and one that was given up never is.                                     *)
HealthyRuns == \A t \in Tasks : AppRunning /\ healthy[t] => sup[t] = "run"

(* A shutdown ends every task and the process (main.py:557), unless a task *)
(* keeps the event loop.                                                   *)
ShutdownEndsOrSpins == (phase = "alert") ~> (phase = "down" \/ spinning)

=============================================================================
