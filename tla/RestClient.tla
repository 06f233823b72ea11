----------------------------- MODULE RestClient -----------------------------
(***************************************************************************)
(* One request of data/binance_rest.py after another: the tokens, the      *)
(* signature, up to three attempts, and what the exchange (external) makes *)
(* of each.  The signature and its timestamp are made once; the exchange   *)
(* refuses a signed request whose timestamp is old.                        *)
(***************************************************************************)
EXTENDS Naturals

CONSTANT Attempts  \* attempts of a request (3)

Kinds == {"order", "signed", "public"}
Results == {"accepted", "refused", "unavailable", "nothing", "raised"}

VARIABLES kind,     \* what is requested
          at,       \* idle, acquire, send, sleep
          attempt,  \* the attempt, from 0
          stale,    \* its timestamp is old
          executed, \* times the exchange executed it (observation)
          doubts,   \* attempts whose answer does not tell (observation)
          result    \* what the last request returned

vars == <<kind, at, attempt, stale, executed, doubts, result>>

Last == attempt = Attempts - 1

Init ==
    /\ kind = "public"
    /\ at = "idle"
    /\ attempt = 0
    /\ stale = FALSE
    /\ executed = 0
    /\ doubts = 0
    /\ result = "nothing"
-----------------------------------------------------------------------------
Start(k) ==
    /\ at = "idle"
    /\ kind' = k
    /\ at' = "acquire"
    /\ attempt' = 0
    /\ stale' = FALSE
    /\ executed' = 0
    /\ doubts' = 0
    /\ UNCHANGED result

(* The limiter of its kind gives the tokens; the first time the request is *)
(* signed after it.  When a third 429 was slept out the loop is over and   *)
(* the method returns nothing.                                             *)
Acquired ==
    /\ at = "acquire"
    /\ IF attempt < Attempts
       THEN at' = "send" /\ UNCHANGED result
       ELSE at' = "idle" /\ result' = "nothing"
    /\ UNCHANGED <<kind, attempt, stale, executed, doubts>>

Returns(r) ==
    /\ at' = "idle"
    /\ result' = r
    /\ UNCHANGED <<attempt, stale>>

Retry ==
    /\ at' = "sleep"
    /\ attempt' = attempt + 1
    /\ UNCHANGED result

MayExecute == ~(stale /\ kind # "public")

Accepted ==
    /\ at = "send"
    /\ MayExecute
    /\ executed' = executed + 1
    /\ Returns("accepted")
    /\ UNCHANGED <<kind, doubts>>

(* Status 4xx, 429 apart: the exchange did not execute it.  The error is    *)
(* returned as data.                                                       *)
Refused ==
    /\ at = "send"
    /\ Returns("refused")
    /\ UNCHANGED <<kind, executed, doubts>>

(* Status 429: the exchange names the time to wait, which the signature    *)
(* may not survive, and new tokens are acquired.                           *)
TooMany ==
    /\ at = "send"
    /\ at' = "acquire"
    /\ attempt' = attempt + 1
    /\ stale' \in {stale, TRUE}
    /\ UNCHANGED <<kind, executed, doubts, result>>

(* The request may or may not have been executed. *)
InDoubt ==
    /\ doubts' = doubts + 1
    /\ executed' \in {executed} \cup (IF MayExecute THEN {executed + 1} ELSE {})
    /\ UNCHANGED kind

(* Mutant of Unavailable: the last 502 is returned as an acceptance. *)
UnavailableAccepted ==
    /\ at = "send"
    /\ InDoubt
    /\ \/ ~Last /\ Retry /\ UNCHANGED stale
       \/ Last /\ Returns("accepted")

(* Status 502 or 503; the last one is returned as data. *)
Unavailable ==
    /\ at = "send"
    /\ InDoubt
    /\ \/ ~Last /\ Retry /\ UNCHANGED stale
       \/ Last /\ Returns("unavailable")

(* Any other status 5xx, such as 500 or 504, is returned as data at once,  *)
(* as a refusal is: only the number tells the two apart.                   *)
ServerError ==
    /\ at = "send"
    /\ InDoubt
    /\ Returns("unavailable")

(* The connection breaks, or 30 seconds pass, which the signature does not *)
(* survive; the last exception is raised.                                  *)
Fails ==
    /\ at = "send"
    /\ InDoubt
    /\ \/ ~Last /\ Retry /\ stale' \in {stale, TRUE}
       \/ Last /\ Returns("raised")

(* Without new tokens and with the old signature. *)
Wake ==
    /\ at = "sleep"
    /\ at' = "send"
    /\ UNCHANGED <<kind, attempt, stale, executed, doubts, result>>

Answer == Accepted \/ Refused \/ TooMany \/ Unavailable \/ ServerError \/ Fails

Next ==
    \/ \E k \in Kinds : Start(k)
    \/ Acquired
    \/ Answer
    \/ Wake

Spec == Init /\ [][Next]_vars
-----------------------------------------------------------------------------
(* Every variable has its type. *)
TypeOK ==
    /\ kind \in Kinds
    /\ at \in {"idle", "acquire", "send", "sleep"}
    /\ attempt \in 0..Attempts
    /\ stale \in BOOLEAN
    /\ executed \in 0..Attempts
    /\ doubts \in 0..Attempts
    /\ result \in Results

(* What is returned can be relied on as far as it goes: an accepted order  *)
(* was executed, at most once more than answers were in doubt; and where   *)
(* none was in doubt a status 4xx or nothing means that it was not         *)
(* (binance_rest.py:89-123, which also sends orders again).  A status 5xx  *)
(* says neither.                                                           *)
AnswerIsTrue ==
    /\ executed <= doubts + 1
    /\ at = "idle" =>
         /\ result = "accepted" => executed >= 1
         /\ result \in {"refused", "nothing"} /\ doubts = 0 => executed = 0

=============================================================================
