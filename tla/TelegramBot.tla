---------------------------- MODULE TelegramBot ----------------------------
(***************************************************************************)
(* The command handler of tg_bot/bot.py.  Updates arrive in order and the  *)
(* application of python-telegram-bot (external, built with its defaults)  *)
(* awaits the handler of one before it takes the next.                     *)
(***************************************************************************)
EXTENDS Naturals, Sequences

CONSTANTS Timeout,    \* flatten_confirm_timeout_s, in ticks
          MaxUpdates  \* bound: updates ever sent

Commands == {"pause", "resume", "shutdown", "flatten", "CONFIRM"}

VARIABLES inbox,     \* updates sent and not yet taken
          handler,   \* idle, asking (the prompt is sent), flattening
          left,      \* ticks the handler of /flatten still sleeps
          pending,   \* _pending_flatten
          paused,    \* set and cleared by the callbacks of main
          stopping,  \* _shutdown_event
          owed,      \* a CONFIRM was sent while its window was open and has not
                     \* yet led to the flatten (observation)
          flattened, \* calls of the flatten callback (observation)
          sent       \* number of updates sent

vars == <<inbox, handler, left, pending, paused, stopping, owed, flattened, sent>>

Init ==
    /\ inbox = <<>>
    /\ handler = "idle"
    /\ left = 0
    /\ pending = FALSE
    /\ paused = FALSE
    /\ stopping = FALSE
    /\ owed = FALSE
    /\ flattened = 0
    /\ sent = 0
-----------------------------------------------------------------------------
(* The user sends a command; an answer to the prompt is one that comes     *)
(* while the window it names is open.                                      *)
Send(u) ==
    /\ sent < MaxUpdates
    /\ sent' = sent + 1
    /\ inbox' = Append(inbox, u)
    /\ owed' = (owed \/ (u = "CONFIRM" /\ handler = "asking" /\ left > 0))
    /\ UNCHANGED <<handler, left, pending, paused, stopping, flattened>>

Takes(u) ==
    /\ handler = "idle"
    /\ inbox # <<>>
    /\ Head(inbox) = u
    /\ inbox' = Tail(inbox)

Pause ==
    /\ Takes("pause")
    /\ paused' = TRUE
    /\ UNCHANGED <<handler, left, pending, stopping, owed, flattened, sent>>

Resume ==
    /\ Takes("resume")
    /\ paused' = FALSE
    /\ UNCHANGED <<handler, left, pending, stopping, owed, flattened, sent>>

Shutdown ==
    /\ Takes("shutdown")
    /\ stopping' = TRUE
    /\ UNCHANGED <<handler, left, pending, paused, owed, flattened, sent>>

(* _cmd_flatten up to its sleep. *)
Flatten ==
    /\ Takes("flatten")
    /\ pending' = TRUE
    /\ handler' = "asking"
    /\ left' = Timeout
    /\ UNCHANGED <<paused, stopping, owed, flattened, sent>>

(* Its end, after the sleep. *)
Expire ==
    /\ handler = "asking"
    /\ left = 0
    /\ pending' = FALSE
    /\ handler' = "idle"
    /\ UNCHANGED <<inbox, left, paused, stopping, owed, flattened, sent>>

(* _text_handler. *)
Text ==
    /\ Takes("CONFIRM")
    /\ handler' = IF pending THEN "flattening" ELSE "idle"
    /\ pending' = FALSE
    /\ UNCHANGED <<left, paused, stopping, owed, flattened, sent>>

(* The callback, main.py's _flatten_all, pauses trading among its steps.     *)
Flattened ==
    /\ handler = "flattening"
    /\ handler' = "idle"
    /\ flattened' = flattened + 1
    /\ paused' = TRUE
    /\ owed' = FALSE
    /\ UNCHANGED <<inbox, left, pending, stopping, sent>>

Tick ==
    /\ left' = IF left > 0 THEN left - 1 ELSE 0
    /\ UNCHANGED <<inbox, handler, pending, paused, stopping, owed, flattened, sent>>

Handler == Pause \/ Resume \/ Shutdown \/ Flatten \/ Expire \/ Text \/ Flattened

Next ==
    \/ \E u \in Commands : Send(u)
    \/ Handler
    \/ Tick

(* Updates are taken as they come and time passes; nobody need write. *)
FairSpec == Init /\ [][Next]_vars /\ WF_vars(Handler) /\ WF_vars(Tick)
-----------------------------------------------------------------------------
(* bot.py:217 "Type `CONFIRM` within {timeout}s to proceed": a             *)
(* confirmation sent within the window flattens the positions.             *)
ConfirmFlattens == owed ~> ~owed
=============================================================================
