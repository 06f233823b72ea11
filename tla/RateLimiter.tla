---------------------------- MODULE RateLimiter ----------------------------
(***************************************************************************)
(* The token bucket of data/rate_limiter.py, shared by every task that     *)
(* sends a request.  Time is counted in ticks; the code refills when it    *)
(* looks at the bucket, the model when a tick passes, which gives the same *)
(* tokens.  Callers sleep outside the lock, so another may be faster.      *)
(***************************************************************************)
EXTENDS Integers

CONSTANTS Callers,   \* the tasks that acquire
          Weights,   \* the weights they ask for
          MaxTokens, \* _max_tokens
          Rate,      \* _refill_rate: tokens per tick
          SleepCap,  \* the longest sleep (5.0 s)
          Observed     \* bound: ticks for which grants are observed

\* What the code's settings satisfy; the theorems assume it.
ASSUME BucketAssumption ==
    /\ MaxTokens \in Nat \ {0}
    /\ Rate \in Nat \ {0}
    /\ SleepCap \in Nat \ {0}
    /\ Observed \in Nat
    /\ Weights \subseteq 1..MaxTokens

VARIABLES tokens,   \* _tokens, refilled to this tick
          want,     \* the weight each caller waits for, 0 for none
          sleep,    \* ticks until it looks again
          age,      \* ticks since the observed window began (observation)
          granted   \* the weight granted within it (observation)

limiterVars == <<tokens, want, sleep, age, granted>>

Lesser(a, b) == IF a <= b THEN a ELSE b
RoundedUp(a, b) == (a + b - 1) \div b

LimiterInit ==
    /\ tokens = MaxTokens
    /\ want = [c \in Callers |-> 0]
    /\ sleep = [c \in Callers |-> 0]
    /\ age = 0
    /\ granted = 0
-----------------------------------------------------------------------------
Request(c, w) ==
    /\ want[c] = 0
    /\ want' = [want EXCEPT ![c] = w]
    /\ UNCHANGED <<tokens, sleep, age, granted>>

(* Mutant of Acquire: the tokens are taken after the sleep, unchecked. *)
AcquireUnchecked(c) ==
    /\ want[c] > 0
    /\ sleep[c] = 0
    /\ tokens' = tokens - Lesser(tokens, want[c])
    /\ granted' = granted + want[c]
    /\ want' = [want EXCEPT ![c] = 0]
    /\ UNCHANGED <<sleep, age>>

(* One turn of the loop of acquire() that finds the tokens. *)
Acquire(c) ==
    /\ want[c] > 0
    /\ sleep[c] = 0
    /\ tokens >= want[c]
    /\ tokens' = tokens - want[c]
    /\ granted' = granted + want[c]
    /\ want' = [want EXCEPT ![c] = 0]
    /\ UNCHANGED <<sleep, age>>

(* One that does not: the deficit gives the time to sleep, a little more   *)
(* (0.1 s) and at most SleepCap.                                           *)
Sleep(c) ==
    /\ want[c] > 0
    /\ sleep[c] = 0
    /\ tokens < want[c]
    /\ sleep' = [sleep EXCEPT ![c] =
                    Lesser(RoundedUp(want[c] - tokens, Rate) + 1, SleepCap)]
    /\ UNCHANGED <<tokens, want, age, granted>>

(* _refill, and the observation: a window of more than Observed ticks is     *)
(* given up and another one begins.                                        *)
Tick ==
    /\ tokens' = Lesser(MaxTokens, tokens + Rate)
    /\ sleep' = [c \in Callers |-> IF sleep[c] > 0 THEN sleep[c] - 1 ELSE 0]
    /\ age' = IF age < Observed THEN age + 1 ELSE 0
    /\ granted' = IF age < Observed THEN granted ELSE 0
    /\ UNCHANGED want

(* A window may begin at any instant. *)
Observe ==
    /\ age' = 0
    /\ granted' = 0
    /\ UNCHANGED <<tokens, want, sleep>>

LimiterNext ==
    \/ \E c \in Callers, w \in Weights : Request(c, w)
    \/ \E c \in Callers : Acquire(c) \/ Sleep(c)
    \/ Tick
    \/ Observe

LimiterSpec == LimiterInit /\ [][LimiterNext]_limiterVars
-----------------------------------------------------------------------------
(* Every variable has its type; in particular the bucket is never overdrawn *)
(* nor over-full.                                                          *)
LimiterTypeOK ==
    /\ tokens \in 0..MaxTokens
    /\ want \in [Callers -> Weights \cup {0}]
    /\ sleep \in [Callers -> 0..SleepCap]
    /\ age \in 0..Observed
    /\ granted \in Nat

(* The weight granted between any two instants is bounded by a full bucket *)
(* and what was refilled between them, however many tasks race for it      *)
(* (rate_limiter.py:45, acquire).  For the 60 seconds in which a whole     *)
(* bucket is refilled that is twice the weight the setting names.          *)
GrantsBounded == granted <= MaxTokens + Rate * age

=============================================================================
