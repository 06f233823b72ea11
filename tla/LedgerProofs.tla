--------------------------- MODULE LedgerProofs ---------------------------
(***************************************************************************)
(* Theorems about what accounts for requests and for money: the rate       *)
(* limiter, the request loop of the REST client, the paper executor, the   *)
(* research backtest and the replay tools.                                 *)
(*                                                                         *)
(* GrantsBounded is not inductive: it says nothing of the tokens left.     *)
(* What is conserved is the sum of the weight granted and the tokens left, *)
(* which only a refill can raise, and never by more than the rate.  The    *)
(* backtest needs to know that no trade ended after its position began.    *)
(* The equity of a replay is followed through every step of a candle, by   *)
(* what the trades and the open positions leave unexplained of it; that a  *)
(* report adds up is a fact about sums over any way of splitting a set,    *)
(* which Totals has by a least counterexample.                             *)
(***************************************************************************)
EXTENDS MCLedgers, Totals, SequenceTheorems, FiniteSetTheorems, WellFoundedInduction, TLAPS

(* What was granted and what is left came from a full bucket and refills.  *)
Conserved == granted + tokens <= MaxTokens + Rate * age

LimiterInv == LimiterTypeOK /\ Conserved
-----------------------------------------------------------------------------
(* The minimum of two numbers is one of them and at most each. *)
LEMMA LesserIsLeast ==
    ASSUME NEW x \in Int, NEW y \in Int
    PROVE  /\ Lesser(x, y) \in {x, y}
           /\ Lesser(x, y) <= x
           /\ Lesser(x, y) <= y
BY DEF Lesser

(* A division that rounds up gives a natural number. *)
LEMMA RoundedUpIsNatural ==
    ASSUME NEW x \in Nat, NEW y \in Nat \ {0}
    PROVE  RoundedUp(x, y) \in Nat
<1>1. x + y - 1 \in Nat
  OBVIOUS
<1>2. \A n \in Nat : n \div y \in Nat
  OBVIOUS
<1> QED BY <1>1, <1>2 DEF RoundedUp

(* A refill adds to both sides what it adds to the tokens. *)
LEMMA RefillCovered ==
    ASSUME NEW g \in Int, NEW t \in Int, NEW u \in Int, NEW bound \in Int,
           NEW r \in Int, u <= t + r, g + t <= bound
    PROVE  g + u <= bound + r
OBVIOUS

LEMMA LimiterStart == LimiterInit => LimiterInv
<1> SUFFICES ASSUME LimiterInit PROVE LimiterInv
  OBVIOUS
<1>1. LimiterTypeOK
  BY BucketAssumption DEF LimiterInit, LimiterTypeOK
<1>2. Conserved
  <2>1. Rate * 0 = 0
    BY BucketAssumption
  <2> QED BY <2>1, BucketAssumption DEF LimiterInit, Conserved
<1> QED BY <1>1, <1>2 DEF LimiterInv
-----------------------------------------------------------------------------
(* No step overdraws the bucket or grants what was not there. *)
LEMMA LimiterStep == LimiterInv /\ [LimiterNext]_limiterVars => LimiterInv'
<1> SUFFICES ASSUME LimiterInv, [LimiterNext]_limiterVars PROVE LimiterInv'
  OBVIOUS
<1> USE BucketAssumption DEF LimiterInv
<1>0. /\ tokens \in Nat /\ tokens <= MaxTokens /\ granted \in Nat
      /\ MaxTokens \in Nat /\ Rate \in Nat /\ age \in Nat
      /\ \A c \in Callers : want[c] \in Nat
  <2>1. \A n \in Weights \cup {0} : n \in Nat
    OBVIOUS
  <2>2. \A c \in Callers : want[c] \in Weights \cup {0}
    BY DEF LimiterTypeOK
  <2>3. /\ tokens \in 0..MaxTokens
        /\ granted \in Nat
        /\ age \in 0..Observed
    BY DEF LimiterTypeOK
  <2>4. \A c \in Callers : want[c] \in Nat
    BY <2>1, <2>2
  <2> QED BY <2>3, <2>4
<1>1. ASSUME NEW c \in Callers, NEW w \in Weights, Request(c, w) PROVE LimiterInv'
  <2>1. want' \in [Callers -> Weights \cup {0}]
    BY <1>1 DEF Request, LimiterTypeOK
  <2> QED BY <1>1, <2>1 DEF Request, LimiterTypeOK, Conserved
<1>2. ASSUME NEW c \in Callers, Acquire(c) PROVE LimiterInv'
  <2>1. want[c] \in Nat /\ want[c] <= tokens
    BY <1>0, <1>2 DEF Acquire
  <2>2. /\ tokens' \in 0..MaxTokens
        /\ granted' \in Nat
        /\ granted' + tokens' = granted + tokens
    BY <1>0, <1>2, <2>1 DEF Acquire
  <2>3. want' \in [Callers -> Weights \cup {0}]
    BY <1>2 DEF Acquire, LimiterTypeOK
  <2>4. LimiterTypeOK'
    BY <1>2, <2>2, <2>3 DEF Acquire, LimiterTypeOK
  <2> QED BY <1>2, <2>2, <2>4 DEF Acquire, Conserved
<1>3. ASSUME NEW c \in Callers, Sleep(c) PROVE LimiterInv'
  <2> DEFINE ticks == RoundedUp(want[c] - tokens, Rate) + 1
  <2>1. want[c] - tokens \in Nat
    BY <1>0, <1>3 DEF Sleep
  <2>2. ticks \in Nat
    BY <2>1, RoundedUpIsNatural
  <2> HIDE DEF ticks
  <2>3. Lesser(ticks, SleepCap) \in 0..SleepCap
    BY <2>2 DEF Lesser
  <2>4. sleep' = [sleep EXCEPT ![c] = Lesser(ticks, SleepCap)]
    BY <1>3 DEF Sleep, ticks
  <2>5. sleep' \in [Callers -> 0..SleepCap]
    BY <2>3, <2>4 DEF LimiterTypeOK
  <2> QED BY <1>3, <2>5 DEF Sleep, LimiterTypeOK, Conserved
<1>4. ASSUME Tick PROVE LimiterInv'
  <2>1. tokens' \in 0..MaxTokens /\ tokens' <= tokens + Rate
    BY <1>0, <1>4 DEF Tick, Lesser
  <2>2. \A c \in Callers : sleep[c] \in 0..SleepCap
    BY DEF LimiterTypeOK
  <2>3. sleep' = [c \in Callers |-> IF sleep[c] > 0 THEN sleep[c] - 1 ELSE 0]
    BY <1>4 DEF Tick
  <2>4. \A c \in Callers :
          (IF sleep[c] > 0 THEN sleep[c] - 1 ELSE 0) \in 0..SleepCap
    BY <2>2
  <2>5. sleep' \in [Callers -> 0..SleepCap]
    BY <2>3, <2>4
  <2>6. CASE age < Observed
    <3>1. age' = age + 1 /\ granted' = granted /\ want' = want
      BY <1>4, <2>6 DEF Tick
    <3>2. age' \in 0..Observed
      BY <3>1, <2>6, <1>0
    <3>3. LimiterTypeOK'
      BY <2>1, <2>5, <3>1, <3>2 DEF LimiterTypeOK
    <3> DEFINE refilled == Rate * age
    <3>4. Rate * (age + 1) = refilled + Rate /\ refilled \in Int
      BY <1>0
    <3>5. granted + tokens <= MaxTokens + refilled
      BY DEF Conserved
    <3>6. Rate * age' = refilled + Rate
      BY <3>1, <3>4
    <3> HIDE DEF refilled
    <3>7. /\ MaxTokens + refilled \in Int /\ Rate \in Int
          /\ tokens \in Int /\ tokens' \in Int /\ granted \in Int
      BY <1>0, <2>1, <3>4
    <3>8. granted + tokens' <= (MaxTokens + refilled) + Rate
      BY <2>1, <3>5, <3>7, RefillCovered
    <3>9. (MaxTokens + refilled) + Rate = MaxTokens + (refilled + Rate)
      BY <1>0, <3>4
    <3> QED BY <3>1, <3>3, <3>6, <3>8, <3>9 DEF Conserved
  <2>7. CASE ~(age < Observed)
    <3>1. age' = 0 /\ granted' = 0 /\ want' = want
      BY <1>4, <2>7 DEF Tick
    <3>2. LimiterTypeOK'
      BY <2>1, <2>5, <3>1 DEF LimiterTypeOK
    <3>3. Rate * age' = 0
      BY <1>0, <3>1
    <3>4. \A u \in 0..MaxTokens : 0 + u <= MaxTokens + 0
      BY <1>0
    <3>5. 0 + tokens' <= MaxTokens + 0
      BY <2>1, <3>4
    <3> QED BY <3>1, <3>2, <3>3, <3>5 DEF Conserved
  <2> QED BY <2>6, <2>7
<1>5. ASSUME Observe PROVE LimiterInv'
  <2>1. Rate * 0 = 0
    BY <1>0
  <2> QED BY <1>0, <1>5, <2>1 DEF Observe, LimiterTypeOK, Conserved
<1>6. ASSUME UNCHANGED limiterVars PROVE LimiterInv'
  BY <1>6 DEF limiterVars, LimiterTypeOK, Conserved
<1> QED BY <1>1, <1>2, <1>3, <1>4, <1>5, <1>6 DEF LimiterNext

(* The bucket and its refills pay for everything that is granted. *)
THEOREM BucketPays == LimiterSpec => []LimiterInv
<1> QED BY LimiterStart, LimiterStep, PTL DEF LimiterSpec

(* Whatever tasks race for it, the limiter grants at most a full bucket    *)
(* and the refills of the time between two instants                        *)
(* (rate_limiter.py:44-69).                                                *)
THEOREM GrantsHold == LimiterSpec => []GrantsBounded
<1>1. LimiterInv => GrantsBounded
  <2> SUFFICES ASSUME LimiterInv PROVE granted <= MaxTokens + Rate * age
    BY DEF GrantsBounded
  <2>1. granted \in Nat /\ tokens \in Nat /\ Rate * age \in Int /\ MaxTokens \in Nat
    BY BucketAssumption DEF LimiterInv, LimiterTypeOK
  <2>2. granted + tokens <= MaxTokens + Rate * age
    BY DEF LimiterInv, Conserved
  <2> QED BY <2>1, <2>2
<1> QED BY <1>1, BucketPays, PTL
-----------------------------------------------------------------------------
(* The request loop *)

(* A request under way was executed by attempts in doubt only.             *)
InFlight ==
    at # "idle" => /\ executed <= doubts
                   /\ doubts <= attempt
                   /\ at # "acquire" => attempt < Attempts

RequestInv == Rest!TypeOK /\ InFlight /\ Rest!AnswerIsTrue

(* A request is attempted at least once. *)
LEMMA AtLeastOnce == Attempts \in Nat \ {0}
BY LedgerAssumption

LEMMA RequestInit ==
    Rest!Init => RequestInv
<1> SUFFICES ASSUME Rest!Init PROVE RequestInv
  OBVIOUS
<1>1. stale \in BOOLEAN
  BY Zenon DEF Rest!Init
<1>2. Rest!TypeOK
  BY <1>1, AtLeastOnce DEF Rest!Init, Rest!TypeOK, Rest!Kinds, Rest!Results
<1> QED BY <1>2 DEF Rest!Init, RequestInv, InFlight, Rest!AnswerIsTrue

(* An attempt in doubt adds as much to the doubts as it may to what was    *)
(* executed.                                                               *)
LEMMA DoubtCovers ==
    ASSUME Rest!TypeOK, InFlight, at = "send", Rest!InDoubt
    PROVE  /\ kind' \in Rest!Kinds /\ executed' \in Nat /\ doubts' \in Nat
           /\ executed' <= doubts' /\ doubts' <= attempt + 1
           /\ doubts' >= 1
BY DEF Rest!TypeOK, InFlight, Rest!InDoubt, Rest!MayExecute

(* So what is reported is true, unless it is an acceptance or a refusal.   *)
LEMMA DoubtIsNoAnswer ==
    ASSUME executed' \in Nat, doubts' \in Nat, executed' <= doubts',
           at' = "idle" => result' \in {"unavailable", "raised"}
    PROVE  Rest!AnswerIsTrue'
<1>1. executed' <= doubts' + 1
  <2>1. \A e, d \in Nat : e <= d => e <= d + 1
    OBVIOUS
  <2> QED BY <2>1
<1>2. at' = "idle" => ~(result' = "accepted") /\ result' \notin {"refused", "nothing"}
  OBVIOUS
<1> QED BY <1>1, <1>2, Zenon DEF Rest!AnswerIsTrue

LEMMA RequestStep ==
    RequestInv /\ [Rest!Next]_Rest!vars => RequestInv'
<1> SUFFICES ASSUME RequestInv, [Rest!Next]_Rest!vars PROVE RequestInv'
  OBVIOUS
<1> USE AtLeastOnce DEF RequestInv
<1>1. ASSUME NEW k \in Rest!Kinds, Rest!Start(k) PROVE RequestInv'
  <2>1. stale' \in BOOLEAN
    BY <1>1, Zenon DEF Rest!Start
  <2>2. Rest!TypeOK'
    BY <1>1, <2>1 DEF Rest!Start, Rest!TypeOK
  <2> QED BY <1>1, <2>2 DEF Rest!Start, InFlight, Rest!AnswerIsTrue
<1>2. CASE Rest!Acquired
  BY <1>2 DEF Rest!Acquired, Rest!TypeOK, InFlight, Rest!AnswerIsTrue, Rest!Results
<1>3. CASE Rest!Accepted
  BY <1>3 DEF Rest!Accepted, Rest!Returns, Rest!TypeOK, InFlight, Rest!AnswerIsTrue, Rest!Results
<1>4. CASE Rest!Refused
  BY <1>4 DEF Rest!Refused, Rest!Returns, Rest!TypeOK, InFlight, Rest!AnswerIsTrue, Rest!Results
<1>5. CASE Rest!TooMany
  <2>1. stale' \in BOOLEAN
    BY <1>5, Zenon DEF Rest!TooMany, Rest!TypeOK
  <2> QED BY <1>5, <2>1 DEF Rest!TooMany, Rest!TypeOK, InFlight, Rest!AnswerIsTrue
<1>6. CASE Rest!Unavailable
  <2>1. at = "send" /\ Rest!InDoubt
    BY <1>6 DEF Rest!Unavailable
  <2>2. /\ kind' \in Rest!Kinds /\ executed' \in Nat /\ doubts' \in Nat
        /\ executed' <= doubts' /\ doubts' <= attempt + 1 /\ doubts' >= 1
    BY <2>1, DoubtCovers
  <2>3. attempt \in Nat /\ attempt < Attempts
    BY <2>1 DEF Rest!TypeOK, InFlight
  <2>4. CASE ~Rest!Last /\ Rest!Retry /\ UNCHANGED stale
    <3>1. executed' \in 0..Attempts /\ doubts' \in 0..Attempts /\ attempt' = attempt + 1
      BY <2>2, <2>3, <2>4 DEF Rest!Retry
    <3>2. attempt + 1 < Attempts
      BY <2>3, <2>4 DEF Rest!Last
    <3>3. stale' \in BOOLEAN
      BY <2>4, Zenon DEF Rest!TypeOK
    <3>4. Rest!TypeOK'
      BY <2>2, <2>3, <2>4, <3>1, <3>2, <3>3 DEF Rest!Retry, Rest!TypeOK
    <3>5. at' = "sleep"
      BY <2>4 DEF Rest!Retry
    <3>6. InFlight'
      BY <2>2, <2>3, <3>1, <3>2, <3>5 DEF InFlight
    <3>7. Rest!AnswerIsTrue'
      BY <2>2, <3>5, DoubtIsNoAnswer
    <3> QED BY <3>4, <3>6, <3>7
  <2>5. CASE Rest!Last /\ Rest!Returns("unavailable")
    <3>1. executed' \in 0..Attempts /\ doubts' \in 0..Attempts
      BY <2>2, <2>3
    <3>2. Rest!TypeOK'
      BY <2>2, <2>5, <3>1 DEF Rest!Returns, Rest!TypeOK, Rest!Results
    <3>3. at' = "idle" /\ result' = "unavailable"
      BY <2>5 DEF Rest!Returns
    <3>4. InFlight'
      BY <3>3 DEF InFlight
    <3>5. Rest!AnswerIsTrue'
      BY <2>2, <3>3, DoubtIsNoAnswer
    <3> QED BY <3>2, <3>4, <3>5
  <2> QED BY <1>6, <2>4, <2>5 DEF Rest!Unavailable
<1>7. CASE Rest!Fails
  <2>1. at = "send" /\ Rest!InDoubt
    BY <1>7 DEF Rest!Fails
  <2>2. /\ kind' \in Rest!Kinds /\ executed' \in Nat /\ doubts' \in Nat
        /\ executed' <= doubts' /\ doubts' <= attempt + 1 /\ doubts' >= 1
    BY <2>1, DoubtCovers
  <2>3. attempt \in Nat /\ attempt < Attempts
    BY <2>1 DEF Rest!TypeOK, InFlight
  <2>4. CASE ~Rest!Last /\ Rest!Retry /\ stale' \in {stale, TRUE}
    <3>1. executed' \in 0..Attempts /\ doubts' \in 0..Attempts /\ attempt' = attempt + 1
      BY <2>2, <2>3, <2>4 DEF Rest!Retry
    <3>2. attempt + 1 < Attempts
      BY <2>3, <2>4 DEF Rest!Last
    <3>3. stale' \in BOOLEAN
      BY <2>4, Zenon DEF Rest!TypeOK
    <3>4. Rest!TypeOK'
      BY <2>2, <2>3, <2>4, <3>1, <3>2, <3>3 DEF Rest!Retry, Rest!TypeOK
    <3>5. at' = "sleep"
      BY <2>4 DEF Rest!Retry
    <3>6. InFlight'
      BY <2>2, <2>3, <3>1, <3>2, <3>5 DEF InFlight
    <3>7. Rest!AnswerIsTrue'
      BY <2>2, <3>5, DoubtIsNoAnswer
    <3> QED BY <3>4, <3>6, <3>7
  <2>5. CASE Rest!Last /\ Rest!Returns("raised")
    <3>1. executed' \in 0..Attempts /\ doubts' \in 0..Attempts
      BY <2>2, <2>3
    <3>2. Rest!TypeOK'
      BY <2>2, <2>5, <3>1 DEF Rest!Returns, Rest!TypeOK, Rest!Results
    <3>3. at' = "idle" /\ result' = "raised"
      BY <2>5 DEF Rest!Returns
    <3>4. InFlight'
      BY <3>3 DEF InFlight
    <3>5. Rest!AnswerIsTrue'
      BY <2>2, <3>3, DoubtIsNoAnswer
    <3> QED BY <3>2, <3>4, <3>5
  <2> QED BY <1>7, <2>4, <2>5 DEF Rest!Fails
<1>10. CASE Rest!ServerError
  <2>1. at = "send" /\ Rest!InDoubt /\ Rest!Returns("unavailable")
    BY <1>10 DEF Rest!ServerError
  <2>2. /\ kind' \in Rest!Kinds /\ executed' \in Nat /\ doubts' \in Nat
        /\ executed' <= doubts' /\ doubts' <= attempt + 1 /\ doubts' >= 1
    BY <2>1, DoubtCovers
  <2>3. attempt \in Nat /\ attempt < Attempts
    BY <2>1 DEF Rest!TypeOK, InFlight
  <2>4. executed' \in 0..Attempts /\ doubts' \in 0..Attempts
    BY <2>2, <2>3
  <2>5. Rest!TypeOK'
    BY <2>1, <2>2, <2>4 DEF Rest!Returns, Rest!TypeOK, Rest!Results
  <2>6. at' = "idle" /\ result' = "unavailable"
    BY <2>1 DEF Rest!Returns
  <2>7. InFlight'
    BY <2>6 DEF InFlight
  <2>8. Rest!AnswerIsTrue'
    BY <2>2, <2>6, DoubtIsNoAnswer
  <2> QED BY <2>5, <2>7, <2>8
<1>8. CASE Rest!Wake
  BY <1>8 DEF Rest!Wake, Rest!TypeOK, InFlight, Rest!AnswerIsTrue
<1>9. CASE UNCHANGED Rest!vars
  BY <1>9 DEF Rest!vars, Rest!TypeOK, InFlight, Rest!AnswerIsTrue
<1> QED BY <1>1, <1>2, <1>3, <1>4, <1>5, <1>6, <1>7, <1>8, <1>9, <1>10 DEF Rest!Next, Rest!Answer

(* Whatever answers are lost and however often a request is sent again:    *)
(* an accepted one was executed, at most once more than attempts were in   *)
(* doubt, and one refused with a status 4xx without doubt was not; a       *)
(* status 5xx says nothing of it (binance_rest.py:67-123).                 *)
THEOREM AnswerHolds ==
    Rest!Spec => []Rest!AnswerIsTrue
<1>1. RequestInv => Rest!AnswerIsTrue
  BY DEF RequestInv
<1> QED BY <1>1, RequestInit, RequestStep, PTL DEF Rest!Spec

(* Every variable of the request loop keeps its type: no more attempts are *)
(* made, executed or in doubt than the loop allows.                        *)
THEOREM RequestTypeOK == Rest!Spec => []Rest!TypeOK
<1>1. RequestInv => Rest!TypeOK
  BY DEF RequestInv
<1> QED BY <1>1, RequestInit, RequestStep, PTL DEF Rest!Spec
-----------------------------------------------------------------------------
(* The paper executor *)

(* Both sets of positions are books, and the money is counted in integers. *)
Booked ==
    /\ quote \in [Coins -> {0} \cup Prices]
    /\ holdings \in [Coins -> Paper!Position \cup {NoPosition}]
    /\ known \in [Coins -> Paper!Position \cup {NoPosition}]
    /\ balance \in Int /\ told \in Int /\ twice \in Nat /\ equitySaved \in Nat
    /\ reboots \in Nat

PaperInv == Booked /\ Paper!PaperLedger

(* What the executor holds it filled at a price, and prices and holdings   *)
(* are forgotten together.                                                 *)
Priced == \A s \in Coins : holdings[s] # NoPosition => quote[s] # 0

LEMMA PaperStart == Paper!Init => PaperInv
<1> SUFFICES ASSUME Paper!Init PROVE PaperInv
  OBVIOUS
<1>1. Booked
  BY LedgerAssumption DEF Paper!Init, Paper!Flat, Booked
<1>2. Initial = Initial - 0
  BY LedgerAssumption
<1> QED BY <1>1, <1>2 DEF Paper!Init, Paper!Flat, Paper!PaperLedger, PaperInv

(* What an order is filled at, costs and makes is a whole number, and the  *)
(* slippage leaves of a price a price.                                     *)
LEMMA AmountsAreWhole ==
    ASSUME NEW p \in Prices, NEW slip \in Slips, NEW q \in Nat \ {0},
           NEW side \in {"LONG", "SHORT"}
    PROVE  /\ Paper!Slipped(p, side, slip) \in Nat
           /\ \A f \in Nat : Paper!FeeOf(q, f) \in Nat
           /\ \A pos \in Paper!Position, f \in Nat : Paper!Pnl(pos, f, q) \in Int
<1>0. p \in Nat /\ slip \in Nat /\ slip <= p /\ Scale \in Int
  BY LedgerAssumption
<1>1. Paper!Slipped(p, side, slip) \in Nat
  BY <1>0 DEF Paper!Slipped
<1>2. \A f \in Nat : Paper!FeeOf(q, f) \in Nat
  BY DEF Paper!FeeOf
<1>3. ASSUME NEW pos \in Paper!Position, NEW f \in Nat PROVE Paper!Pnl(pos, f, q) \in Int
  <2>1. pos.entry \in Nat
    BY DEF Paper!Position
  <2>2. \A x \in Int : Scale * q * x \in Int
    BY <1>0
  <2>3. f - pos.entry \in Int /\ pos.entry - f \in Int
    BY <2>1
  <2>4. (IF pos.side = "LONG" THEN f - pos.entry ELSE pos.entry - f) \in Int
    BY <2>3
  <2> QED BY <2>2, <2>4 DEF Paper!Pnl
<1> QED BY <1>1, <1>2, <1>3

(* A part of a position is one, and what is left of nothing is nothing. *)
LEMMA LessIsHeld ==
    ASSUME NEW pos \in Paper!Position \cup {NoPosition}, NEW q \in Nat \ {0}
    PROVE  /\ Paper!Less(pos, q) \in Paper!Position \cup {NoPosition}
           /\ Paper!Less(NoPosition, q) = NoPosition
<1>1. CASE pos \in Paper!Position
  <2>1. pos.qty \in Nat /\ (~(pos.qty <= q) => pos.qty - q \in Nat \ {0})
    BY <1>1 DEF Paper!Position
  <2>2. \A r \in Nat \ {0} : [pos EXCEPT !.qty = r] \in Paper!Position
    BY <1>1 DEF Paper!Position
  <2> QED BY <2>1, <2>2 DEF Paper!Less
<1>2. CASE pos = NoPosition
  BY <1>2 DEF Paper!Less
<1>3. Paper!Less(NoPosition, q) = NoPosition
  BY DEF Paper!Less
<1> QED BY <1>1, <1>2, <1>3

(* An exit of no more than the bot holds. *)
LEMMA ExitKeepsLedger ==
    ASSUME PaperInv, NEW s \in Coins, NEW side \in {"LONG", "SHORT"},
           NEW q \in Nat \ {0}, NEW slip \in Slips,
           known[s] # NoPosition, q <= known[s].qty, Paper!PlaceExit(s, side, q, slip)
    PROVE  PaperInv'
<1> DEFINE fill == Paper!Slipped(quote[s], side, slip)
           fee == Paper!FeeOf(q, fill)
           gain == Paper!Pnl(known[s], fill, q)
<1>1. /\ quote[s] \in Prices /\ holdings[s] \in Paper!Position \cup {NoPosition}
      /\ known[s] \in Paper!Position /\ holdings[s] \in {NoPosition, known[s]}
  BY DEF PaperInv, Booked, Paper!PaperLedger, Paper!PlaceExit, Paper!Order
<1>2. fill \in Nat /\ fee \in Nat /\ gain \in Int
  BY <1>1, AmountsAreWhole
<1>3. holdings[s] # NoPosition =>
        Paper!Pnl(holdings[s], fill, Paper!Smaller(q, holdings[s].qty)) = gain
  <2>1. Paper!Smaller(q, known[s].qty) = q
    BY <1>1 DEF Paper!Smaller, Paper!Position
  <2> QED BY <1>1, <2>1
<1>4. /\ holdings' = [holdings EXCEPT ![s] = Paper!Less(holdings[s], q)]
      /\ balance' = balance - fee + (IF holdings[s] # NoPosition THEN gain - fee ELSE 0)
      /\ known' = [known EXCEPT ![s] = Paper!Less(known[s], q)]
      /\ told' = told + gain - fee
      /\ twice' = twice + (IF holdings[s] # NoPosition THEN fee ELSE 0)
      /\ UNCHANGED <<quote, equitySaved, reboots>>
  BY <1>3 DEF Paper!PlaceExit, Paper!Order
<1> HIDE DEF fill, fee, gain
<1>5. Booked'
  <2>1. /\ Paper!Less(holdings[s], q) \in Paper!Position \cup {NoPosition}
        /\ Paper!Less(known[s], q) \in Paper!Position \cup {NoPosition}
    BY <1>1, LessIsHeld
  <2>2. /\ holdings' \in [Coins -> Paper!Position \cup {NoPosition}]
        /\ known' \in [Coins -> Paper!Position \cup {NoPosition}]
    BY <1>4, <2>1 DEF PaperInv, Booked
  <2>3. balance' \in Int /\ told' \in Int /\ twice' \in Nat
    BY <1>2, <1>4 DEF PaperInv, Booked
  <2> QED BY <1>4, <2>2, <2>3 DEF PaperInv, Booked
<1>6. ASSUME NEW u \in Coins PROVE holdings'[u] \in {NoPosition, known'[u]}
  <2>1. CASE u = s
    BY <1>1, <1>4, <2>1, LessIsHeld DEF PaperInv, Booked
  <2>2. CASE u # s
    BY <1>4, <2>2 DEF PaperInv, Booked, Paper!PaperLedger
  <2> QED BY <2>1, <2>2
<1>7. ASSUME reboots' = 0 PROVE holdings' = known' /\ balance' = told' - twice'
  <2>1. holdings = known /\ balance = told - twice
    BY <1>4, <1>7 DEF PaperInv, Paper!PaperLedger
  <2>2. holdings' = known'
    BY <1>4, <2>1
  <2>3. CASE holdings[s] # NoPosition
    <3>1. balance' = balance - fee + (gain - fee) /\ twice' = twice + fee
      BY <1>4, <2>3
    <3> QED BY <1>2, <1>4, <2>1, <2>2, <3>1 DEF PaperInv, Booked
  <2>4. CASE holdings[s] = NoPosition
    BY <1>1, <2>1, <2>4
  <2> QED BY <2>2, <2>3, <2>4
<1> QED BY <1>5, <1>6, <1>7 DEF PaperInv, Paper!PaperLedger

LEMMA PricedStep == PaperInv /\ Priced /\ [Paper!Next]_Paper!paperVars => Priced'
<1> SUFFICES ASSUME PaperInv, Priced, [Paper!Next]_Paper!paperVars PROVE Priced'
  OBVIOUS
<1> USE DEF PaperInv, Booked, Priced
<1>1. ASSUME NEW s \in Coins, NEW p \in Prices, Paper!SetPrice(s, p) PROVE Priced'
  <2>1. p # 0
    BY LedgerAssumption
  <2> QED BY <1>1, <2>1 DEF Paper!SetPrice
<1>2. ASSUME NEW s \in Coins, NEW side \in {"LONG", "SHORT"}, NEW q \in Quantities,
             NEW slip \in Slips, Paper!PlaceEntry(s, side, q, slip)
      PROVE  Priced'
  <2>1. quote[s] # 0 /\ quote' = quote
    BY <1>2, LedgerAssumption DEF Paper!PlaceEntry, Paper!Order
  <2>2. \A u \in Coins : u # s => holdings'[u] = holdings[u]
    BY <1>2 DEF Paper!PlaceEntry
  <2> QED BY <2>1, <2>2
<1>3. ASSUME NEW s \in Coins, NEW side, NEW q, NEW slip, Paper!PlaceExit(s, side, q, slip)
      PROVE  Priced'
  <2>1. quote[s] # 0 /\ quote' = quote
    BY <1>3, LedgerAssumption DEF Paper!PlaceExit, Paper!Order
  <2>2. \A u \in Coins : u # s => holdings'[u] = holdings[u]
    BY <1>3 DEF Paper!PlaceExit
  <2> QED BY <2>1, <2>2
<1>4. ASSUME NEW s \in Coins, NEW q \in Quantities, NEW slip \in Slips,
             Paper!ExecuteExit(s, q, slip)
      PROVE  Priced'
  BY <1>3, <1>4 DEF Paper!ExecuteExit
<1>5. ASSUME NEW s \in Coins, NEW slip \in Slips, Paper!ClosePosition(s, slip)
      PROVE  Priced'
  BY <1>3, <1>5 DEF Paper!ClosePosition
<1>6. ASSUME NEW s \in Coins, Paper!CloseUnpriced(s) PROVE Priced'
  BY <1>6 DEF Paper!CloseUnpriced
<1>7. CASE Paper!UpdateEquity
  BY <1>7 DEF Paper!UpdateEquity
<1>8. CASE Paper!Restart
  BY <1>8 DEF Paper!Restart, Paper!Flat
<1>9. CASE UNCHANGED Paper!paperVars
  BY <1>9 DEF Paper!paperVars
<1> QED BY <1>1, <1>2, <1>4, <1>5, <1>6, <1>7, <1>8, <1>9 DEF Paper!Next

LEMMA PaperStep == PaperInv /\ Priced /\ [Paper!Next]_Paper!paperVars => PaperInv'
<1> SUFFICES ASSUME PaperInv, Priced, [Paper!Next]_Paper!paperVars PROVE PaperInv'
  OBVIOUS
<1>1. ASSUME NEW s \in Coins, NEW p \in Prices, Paper!SetPrice(s, p) PROVE PaperInv'
  <2>1. quote' \in [Coins -> {0} \cup Prices]
    BY <1>1 DEF Paper!SetPrice, PaperInv, Booked
  <2> QED BY <1>1, <2>1 DEF Paper!SetPrice, PaperInv, Booked, Paper!PaperLedger
<1>2. ASSUME NEW s \in Coins, NEW side \in {"LONG", "SHORT"}, NEW q \in Quantities,
             NEW slip \in Slips, Paper!PlaceEntry(s, side, q, slip)
      PROVE  PaperInv'
  <2> DEFINE fill == Paper!Slipped(quote[s], side, slip)
             fee == Paper!FeeOf(q, fill)
             pos == [side |-> side, qty |-> q, entry |-> fill]
  <2>1. quote[s] \in Prices /\ q \in Nat \ {0}
    BY <1>2, LedgerAssumption DEF PaperInv, Booked, Paper!PlaceEntry, Paper!Order
  <2>2. fill \in Nat /\ fee \in Nat
    BY <2>1, AmountsAreWhole
  <2>3. pos \in Paper!Position
    BY <2>1, <2>2 DEF Paper!Position
  <2>4. /\ holdings' = [holdings EXCEPT ![s] = pos]
        /\ known' = [known EXCEPT ![s] = pos]
        /\ balance' = balance - fee /\ told' = told - fee
        /\ UNCHANGED <<quote, equitySaved, reboots, twice>>
    BY <1>2 DEF Paper!PlaceEntry, Paper!Order
  <2> HIDE DEF fill, fee, pos
  <2>5. Booked'
    BY <2>2, <2>3, <2>4 DEF PaperInv, Booked
  <2>6. ASSUME NEW u \in Coins PROVE holdings'[u] \in {NoPosition, known'[u]}
    BY <2>4 DEF PaperInv, Booked, Paper!PaperLedger
  <2>7. ASSUME reboots' = 0 PROVE holdings' = known' /\ balance' = told' - twice'
    <3>1. holdings = known /\ balance = told - twice
      BY <2>4, <2>7 DEF PaperInv, Paper!PaperLedger
    <3> QED BY <2>2, <2>4, <3>1 DEF PaperInv, Booked
  <2> QED BY <2>5, <2>6, <2>7 DEF PaperInv, Paper!PaperLedger
<1>3. ASSUME NEW s \in Coins, NEW q \in Quantities, NEW slip \in Slips,
             Paper!ExecuteExit(s, q, slip)
      PROVE  PaperInv'
  <2>1. /\ known[s] # NoPosition /\ q <= known[s].qty
        /\ Paper!PlaceExit(s, Paper!Opposite(known[s].side), q, slip)
    BY <1>3 DEF Paper!ExecuteExit
  <2>2. Paper!Opposite(known[s].side) \in {"LONG", "SHORT"} /\ q \in Nat \ {0}
    BY LedgerAssumption DEF Paper!Opposite
  <2> QED BY <2>1, <2>2, ExitKeepsLedger
<1>4. ASSUME NEW s \in Coins, NEW slip \in Slips, Paper!ClosePosition(s, slip)
      PROVE  PaperInv'
  <2>1. /\ known[s] # NoPosition
        /\ Paper!PlaceExit(s, known[s].side, known[s].qty, slip)
    BY <1>4 DEF Paper!ClosePosition
  <2>2. known[s].side \in {"LONG", "SHORT"} /\ known[s].qty \in Nat \ {0}
    BY <2>1 DEF PaperInv, Booked, Paper!Position
  <2>3. known[s].qty <= known[s].qty
    BY <2>2
  <2> QED BY <2>1, <2>2, <2>3, ExitKeepsLedger
<1>5. CASE Paper!UpdateEquity
  BY <1>5 DEF Paper!UpdateEquity, PaperInv, Booked, Paper!PaperLedger
<1>6. CASE Paper!Restart
  <2>1. /\ quote' = [u \in Coins |-> 0]
        /\ holdings' = [u \in Coins |-> NoPosition]
        /\ balance' \in {equitySaved, Initial}
        /\ reboots' = reboots + 1
        /\ UNCHANGED <<equitySaved, known, told, twice>>
    BY <1>6 DEF Paper!Restart, Paper!Flat
  <2>2. Booked' /\ reboots' # 0
    BY <2>1, LedgerAssumption DEF PaperInv, Booked
  <2> QED BY <2>1, <2>2 DEF PaperInv, Paper!PaperLedger
<1>7. CASE UNCHANGED Paper!paperVars
  BY <1>7 DEF Paper!paperVars, PaperInv, Booked, Paper!PaperLedger
<1>8. ASSUME NEW s \in Coins, Paper!CloseUnpriced(s) PROVE PaperInv'
  <2>1. /\ known[s] # NoPosition /\ quote[s] = 0
        /\ known' = [known EXCEPT ![s] = NoPosition]
        /\ UNCHANGED <<quote, holdings, balance, equitySaved, told, twice, reboots>>
    BY <1>8 DEF Paper!CloseUnpriced
  <2>2. holdings[s] = NoPosition
    BY <2>1 DEF Priced
  <2>3. Booked'
    BY <2>1 DEF PaperInv, Booked
  <2>4. \A u \in Coins : holdings'[u] \in {NoPosition, known'[u]}
    BY <2>1, <2>2 DEF PaperInv, Booked, Paper!PaperLedger
  <2>5. reboots # 0
    BY <2>1, <2>2 DEF PaperInv, Paper!PaperLedger
  <2> QED BY <2>1, <2>3, <2>4, <2>5 DEF PaperInv, Paper!PaperLedger
<1> QED BY <1>1, <1>2, <1>3, <1>4, <1>5, <1>6, <1>7, <1>8 DEF Paper!Next

(* For any prices, quantities and slippage: what the paper executor holds  *)
(* the bot holds too, and until a restart its balance is what the bot was  *)
(* told, but for the exit fees taken twice (paper_executor.py:85-109).     *)
THEOREM PaperLedgerHolds == Paper!Spec => []Paper!PaperLedger
<1>1. PaperInv => Paper!PaperLedger
  BY DEF PaperInv
<1>2. Paper!Init => Priced
  BY DEF Paper!Init, Paper!Flat, Priced
<1> QED BY <1>1, <1>2, PaperStart, PricedStep, PaperStep, PTL DEF Paper!Spec

(* Every variable of the paper executor keeps its type: an exit of a part  *)
(* leaves a position of at least one unit, and no fill is below zero.      *)
THEOREM PaperTypeOK == Paper!Spec => []Paper!TypeOK
<1>1. PaperInv => Paper!TypeOK
  <2> SUFFICES ASSUME PaperInv PROVE Paper!TypeOK
    OBVIOUS
  <2>1. \A s \in Coins : /\ quote[s] \in {0} \cup Prices
                         /\ holdings[s] \in Paper!Position \cup {NoPosition}
                         /\ known[s] \in Paper!Position \cup {NoPosition}
    BY DEF PaperInv, Booked
  <2> QED BY <2>1 DEF PaperInv, Booked, Paper!TypeOK
<1>2. Paper!Init => Priced
  BY DEF Paper!Init, Paper!Flat, Priced
<1> QED BY <1>1, <1>2, PaperStart, PricedStep, PaperStep, PTL DEF Paper!Spec
-----------------------------------------------------------------------------
(* Sums of amounts *)

(* Every non-empty set of natural numbers has a least one. *)
LEMMA LeastNumber ==
    ASSUME NEW T \in SUBSET Nat, T # {}
    PROVE  \E x \in T : \A y \in T : x <= y
<1>1. IsWellFoundedOn(OpToRel(<, Nat), Nat)
  BY NatLessThanWellFounded, Zenon
<1>2. PICK x \in T : \A y \in T : ~(<<y, x>> \in OpToRel(<, Nat))
  BY <1>1, WFMin, Zenon
<1>3. \A y \in T : ~(y < x)
  BY <1>2 DEF OpToRel
<1> QED BY <1>3

(* The running sums of a sequence of amounts. *)
Running(f, v, n) ==
    /\ f \in [0..n -> Int]
    /\ f[0] = 0
    /\ \A k \in 1..n : f[k] = f[k - 1] + v[k]

Prefix(v, w, n) == \A k \in 1..n : v[k] = w[k]
Agree(f, g, n) == \A k \in 0..n : f[k] = g[k]

(* Where the amounts agree the running sums do. *)
LEMMA RunningAgree ==
    ASSUME NEW v, NEW w, NEW n \in Nat, NEW f, NEW g,
           Running(f, v, n), Running(g, w, n + 1), Prefix(v, w, n)
    PROVE  Agree(f, g, n)
<1> DEFINE T == {k \in 0..n : f[k] # g[k]}
<1> SUFFICES ASSUME T # {} PROVE FALSE
  BY DEF Agree
<1>1. PICK x \in T : \A y \in T : x <= y
  <2>1. T \in SUBSET Nat
    OBVIOUS
  <2> QED BY <2>1, LeastNumber
<1>2. x \in 1..n
  BY DEF Running
<1>3. x - 1 \in 0..n /\ x - 1 \notin T
  BY <1>1, <1>2
<1>4. f[x - 1] = g[x - 1]
  BY <1>3
<1>5. f[x] = f[x - 1] + v[x] /\ g[x] = g[x - 1] + w[x] /\ v[x] = w[x]
  BY <1>2 DEF Running, Prefix
<1> QED BY <1>1, <1>4, <1>5

Summable(v, n) == \E f : Running(f, v, n)

(* Any amounts have running sums. *)
LEMMA RunningExists ==
    ASSUME NEW v \in Seq(Int), NEW n \in 0..Len(v)
    PROVE  Summable(v, n)
<1> DEFINE T == {k \in 0..n : ~Summable(v, k)}
<1> SUFFICES ASSUME T # {} PROVE FALSE
  OBVIOUS
<1>1. PICK x \in T : \A y \in T : x <= y
  <2>1. T \in SUBSET Nat
    OBVIOUS
  <2> QED BY <2>1, LeastNumber
<1>2. Summable(v, 0)
  <2>1. Running([k \in 0..0 |-> 0], v, 0)
    BY DEF Running
  <2> QED BY <2>1 DEF Summable
<1>3. x \in 1..n
  BY <1>2
<1>4. x - 1 \in 0..n /\ x - 1 \notin T
  BY <1>1, <1>3
<1>5. PICK f : Running(f, v, x - 1)
  BY <1>4 DEF Summable
<1>6. f[x - 1] + v[x] \in Int
  <2>1. v[x] \in Int /\ f[x - 1] \in Int
    BY <1>3, <1>5, ElementOfSeq DEF Running
  <2>2. \A a, d \in Int : a + d \in Int
    OBVIOUS
  <2> QED BY <2>1, <2>2, Zenon
<1> DEFINE g == [k \in 0..x |-> IF k = x THEN f[x - 1] + v[x] ELSE f[k]]
<1>7. Running(g, v, x)
  <2>1. f \in [0..(x - 1) -> Int] /\ f[0] = 0
    BY <1>5 DEF Running
  <2>2. ASSUME NEW k \in 0..x PROVE g[k] \in Int
    <3>1. CASE k = x
      BY <1>6, <3>1
    <3>2. CASE k # x
      <4>1. k \in 0..(x - 1)
        BY <1>3, <3>2
      <4> QED BY <2>1, <3>2, <4>1
    <3> QED BY <3>1, <3>2
  <2>3. g[0] = 0
    BY <1>3, <2>1
  <2>4. ASSUME NEW k \in 1..x PROVE g[k] = g[k - 1] + v[k]
    <3>1. CASE k = x
      BY <1>3, <3>1
    <3>2. CASE k # x
      <4>1. k \in 1..(x - 1) /\ k - 1 \in 0..x /\ k - 1 # x /\ k \in 0..x
        BY <1>3, <3>2
      <4>2. f[k] = f[k - 1] + v[k]
        BY <1>5, <4>1 DEF Running
      <4> QED BY <3>2, <4>1, <4>2
    <3> QED BY <3>1, <3>2
  <2>5. g \in [0..x -> Int]
    BY <2>2
  <2> HIDE DEF g
  <2> QED BY <2>3, <2>4, <2>5 DEF Running
<1>8. Summable(v, x)
  BY <1>7 DEF Summable
<1> QED BY <1>1, <1>8

(* The total is the last of them. *)
LEMMA TotalIsRunning ==
    ASSUME NEW v \in Seq(Int), NEW n, n = Len(v), NEW f, Running(f, v, n)
    PROVE  Total(v) = f[n]
<1> DEFINE More(h) == [k \in 0..Len(v) |-> IF k = 0 THEN 0 ELSE h[k - 1] + v[k]]
           sum == CHOOSE h : h = More(h)
<1>1. n \in Nat
  BY LenProperties
<1>2. f = More(f)
  BY <1>1 DEF Running
<1>3. sum = More(sum)
  BY <1>2
<1>4. Total(v) = sum[n]
  BY DEF Total, Sums
<1> HIDE DEF sum
<1>5. /\ sum[0] = 0
      /\ \A k \in 1..n : sum[k] = sum[k - 1] + v[k]
  BY <1>1, <1>3
<1> DEFINE T == {k \in 0..n : f[k] # sum[k]}
<1>6. ASSUME T # {} PROVE FALSE
  <2>1. PICK x \in T : \A y \in T : x <= y
    <3>1. T \in SUBSET Nat
      OBVIOUS
    <3> QED BY <1>6, <3>1, LeastNumber
  <2>2. x \in 1..n
    BY <1>5 DEF Running
  <2>3. x - 1 \in 0..n /\ x - 1 \notin T
    BY <2>1, <2>2
  <2> QED BY <1>5, <2>1, <2>2, <2>3 DEF Running
<1> QED BY <1>1, <1>4, <1>6

(* A total of numbers is one. *)
LEMMA TotalIsWhole ==
    ASSUME NEW v \in Seq(Int)
    PROVE  Total(v) \in Int
<1>1. PICK n : n = Len(v)
  OBVIOUS
<1>2. n \in Nat /\ n \in 0..Len(v)
  BY <1>1, LenProperties
<1>3. Summable(v, n)
  BY <1>2, RunningExists
<1>4. PICK f : Running(f, v, n)
  BY <1>3 DEF Summable
<1>5. Total(v) = f[n]
  BY <1>1, <1>2, <1>4, TotalIsRunning
<1> QED BY <1>2, <1>4, <1>5 DEF Running

(* Nothing adds up to nothing. *)
LEMMA TotalOfNone == Total(<<>>) = 0
<1>1. <<>> \in Seq(Int) /\ Len(<<>>) = 0
  BY EmptySeq
<1>2. Running([k \in 0..0 |-> 0], <<>>, 0)
  BY DEF Running
<1>3. Total(<<>>) = [k \in 0..0 |-> 0][0]
  BY <1>1, <1>2, TotalIsRunning
<1> QED BY <1>3

(* A total is a number, and one more amount adds to it. *)
LEMMA TotalOfMore ==
    ASSUME NEW v \in Seq(Int), NEW w \in Seq(Int), Len(w) = Len(v) + 1,
           \A k \in 1..Len(v) : w[k] = v[k]
    PROVE  /\ Total(v) \in Int
           /\ Total(w) = Total(v) + w[Len(w)]
<1>1. PICK n : n = Len(v)
  OBVIOUS
<1>2. n \in Nat /\ Len(w) = n + 1
  BY <1>1, LenProperties
<1>3. PICK f : Running(f, v, n)
  <2>1. n \in 0..Len(v)
    BY <1>1, <1>2
  <2>2. Summable(v, n)
    BY <2>1, RunningExists
  <2> QED BY <2>2 DEF Summable
<1>4. PICK g : Running(g, w, n + 1)
  <2>1. n + 1 \in 0..Len(w)
    BY <1>2
  <2>2. Summable(w, n + 1)
    BY <2>1, RunningExists
  <2> QED BY <2>2 DEF Summable
<1>5. Total(v) = f[n] /\ Total(w) = g[n + 1]
  BY <1>1, <1>2, <1>3, <1>4, TotalIsRunning
<1>6. \A k \in 0..n : g[k] = f[k]
  <2>1. Prefix(v, w, n)
    BY <1>1 DEF Prefix
  <2>2. n \in Nat
    BY <1>2
  <2>3. Agree(f, g, n)
    BY <1>3, <1>4, <2>1, <2>2, RunningAgree, Zenon
  <2> QED BY <2>3 DEF Agree
<1>7. g[n + 1] = g[n] + w[n + 1] /\ f[n] \in Int
  BY <1>2, <1>3, <1>4 DEF Running
<1> QED BY <1>2, <1>5, <1>6, <1>7
-----------------------------------------------------------------------------
(* The backtest *)

EndReasons == {"stop_loss", "trailing_stop", "take_profit", "signal_close", "end_of_data"}

BackTrade ==
    [side : {"LONG", "SHORT"}, entry : Int, exit : Int, size : Sizes, since : Nat,
     until : 1..Frame, net : Int, reason : EndReasons]

BackTypes ==
    /\ count \in 0..Frame /\ current \in BackBars
    /\ doing \in {"bar", "signal", "done"}
    /\ capital \in Int
    /\ position \in Back!Position \cup {NoPosition}
    /\ trades \in Seq(BackTrade)

(* The trailing stop is its distance behind the best price. *)
Behind(pos) ==
    pos.distance # NoPosition => pos.trail = pos.best - Back!Dir(pos.side) * pos.distance

(* A position began within the bars taken, before the one whose signal is  *)
(* asked for, and after every trade; and what is open was not hit.         *)
Dated ==
    /\ doing = "signal" => count >= 1
    /\ position # NoPosition =>
         /\ position.since \in 1..count
         /\ Behind(position)
         /\ doing = "signal" => position.since < count /\ Back!Hit(position, current) = NoPosition
    /\ \A k \in DOMAIN trades :
         /\ trades[k].until <= count
         /\ position # NoPosition => trades[k].until <= position.since

(* The trades do not overlap, and only the end of the data closes one on   *)
(* the bar of its entry.                                                   *)
Sequential ==
    \A k \in DOMAIN trades :
        /\ trades[k].since < trades[k].until \/ trades[k].reason = "end_of_data"
        /\ k > 1 => trades[k - 1].until <= trades[k].since

BackInv == BackTypes /\ Dated /\ Sequential /\ Back!Accounted

Amounts(log) == [k \in DOMAIN log |-> Back!Earned(log[k])]

LEMMA BackNumbers ==
    /\ Scale \in Int /\ Initial \in Int /\ Frame \in Nat
    /\ NoPosition \notin Int /\ NoPosition \notin Back!Position
    /\ \A c \in BackBars : c.low \in Int /\ c.high \in Int /\ c.close \in Int
    /\ \A n \in Sizes : n \in Int
    /\ \A d \in Distances : d \in Int
BY LedgerAssumption, NoPositionAssumption

(* All definitions of a total are the same. *)
LEMMA SameTotal ==
    ASSUME NEW v
    PROVE  Back!Total(v) = Total(v) /\ Replays!Total(v) = Total(v)
BY DEF Total, Sums, Back!Total, Back!Sums, Replays!Total, Replays!Sums

(* What a trade or a position is worth is a whole number. *)
LEMMA WorthIsWhole ==
    /\ \A pos \in Back!Position : Back!Charged(pos) \in Int
    /\ \A t \in BackTrade : Back!Earned(t) \in Int
<1>1. \A x, y \in Int : x * y \in Int /\ x + y \in Int /\ x - y \in Int
  OBVIOUS
<1>2. ASSUME NEW pos \in Back!Position PROVE Back!Charged(pos) \in Int
  <2>1. pos.entry \in Int /\ pos.size \in Int
    BY BackNumbers DEF Back!Position
  <2> QED BY <1>1, <2>1 DEF Back!Charged, Back!Cost
<1>3. ASSUME NEW t \in BackTrade PROVE Back!Earned(t) \in Int
  <2>1. t.entry \in Int /\ t.size \in Int /\ t.net \in Int /\ Scale \in Int
    BY BackNumbers DEF BackTrade
  <2>2. t.entry * t.size \in Int /\ Scale * t.entry \in Int
    BY <1>1, <2>1, Zenon
  <2>3. Scale * t.entry * t.size \in Int /\ t.net - t.entry * t.size \in Int
    BY <1>1, <2>1, <2>2, Zenon
  <2>4. t.net - t.entry * t.size + Scale * t.entry * t.size \in Int
    BY <1>1, <2>3, Zenon
  <2> QED BY <2>4 DEF Back!Earned, Back!Charged, Back!Cost
<1> QED BY <1>2, <1>3

Follows(new, pos) ==
    /\ new \in Back!Position /\ Behind(new)
    /\ new.side = pos.side /\ new.entry = pos.entry /\ new.size = pos.size
    /\ new.since = pos.since

(* The trailing stop keeps its distance, and nothing but it and the best   *)
(* price changes.                                                          *)
LEMMA TrailingKeeps ==
    ASSUME NEW pos \in Back!Position, NEW c \in BackBars, Behind(pos)
    PROVE  Follows(Back!Trailed(pos, c), pos)
<1>0. PICK new : new = Back!Trailed(pos, c)
  OBVIOUS
<1> SUFFICES Follows(new, pos)
  BY <1>0
<1> DEFINE best == Back!BestOf(c, pos.side)
           level == best - Back!Dir(pos.side) * pos.distance
<1>1. CASE pos.distance = NoPosition
  BY <1>0, <1>1 DEF Back!Trailed, Follows
<1>2. CASE pos.distance # NoPosition
  <2>1. /\ pos.distance \in Int /\ best \in Int /\ pos.best \in Int
        /\ Back!Dir(pos.side) \in {1, -1}
    BY <1>2, BackNumbers DEF Back!Position, Back!BestOf, Back!Dir
  <2>2. level \in Int
    BY <2>1
  <2>3. pos.trail = pos.best - Back!Dir(pos.side) * pos.distance /\ pos.trail \in Int
    BY <1>2, <2>1 DEF Behind
  <2>4. new = IF Back!NoWorse(pos.side, pos.best, best) THEN pos
              ELSE [pos EXCEPT !.trail = level, !.best = best]
    <3>1. Back!NoWorse(pos.side, pos.trail, level) = Back!NoWorse(pos.side, pos.best, best)
      BY <2>1, <2>3 DEF Back!NoWorse
    <3>2. new = [pos EXCEPT
                   !.trail = IF Back!NoWorse(pos.side, @, level) THEN @ ELSE level,
                   !.best = IF Back!NoWorse(pos.side, @, best) THEN @ ELSE best]
      BY <1>0, <1>2 DEF Back!Trailed
    <3> HIDE DEF level, best
    <3>3. pos = [pos EXCEPT !.trail = pos.trail, !.best = pos.best]
      BY DEF Back!Position
    <3> QED BY <3>1, <3>2, <3>3 DEF Back!Position
  <2>5. CASE Back!NoWorse(pos.side, pos.best, best)
    BY <2>4, <2>5 DEF Follows
  <2>6. CASE ~Back!NoWorse(pos.side, pos.best, best)
    <3>1. new = [pos EXCEPT !.trail = level, !.best = best]
      BY <2>4, <2>6
    <3> DEFINE dir == Back!Dir(pos.side)
    <3>2. level = best - dir * pos.distance
      OBVIOUS
    <3> HIDE DEF level, best, dir
    <3>3. /\ new \in Back!Position
          /\ new.side = pos.side /\ new.entry = pos.entry /\ new.size = pos.size
          /\ new.since = pos.since /\ new.distance = pos.distance
          /\ new.trail = level /\ new.best = best
      BY <2>1, <2>2, <3>1 DEF Back!Position
    <3>4. Behind(new)
      BY <3>2, <3>3 DEF Behind, dir
    <3> QED BY <3>3, <3>4 DEF Follows
  <2> QED BY <2>5, <2>6
<1> QED BY <1>1, <1>2

(* A level that is hit is a price. *)
LEMMA HitIsPrice ==
    ASSUME NEW pos \in Back!Position, NEW c \in BackBars, Back!Hit(pos, c) # NoPosition
    PROVE  Back!Hit(pos, c).price \in Int /\ Back!Hit(pos, c).reason \in EndReasons
<1>1. /\ pos.stop # NoPosition => pos.stop \in Int
      /\ pos.trail # NoPosition => pos.trail \in Int
      /\ pos.target # NoPosition => pos.target \in Int
  BY DEF Back!Position
<1>2. \/ /\ pos.stop # NoPosition
         /\ Back!Hit(pos, c) = [reason |-> "stop_loss", price |-> pos.stop]
      \/ /\ pos.trail # NoPosition
         /\ Back!Hit(pos, c) = [reason |-> "trailing_stop", price |-> pos.trail]
      \/ /\ pos.target # NoPosition
         /\ Back!Hit(pos, c) = [reason |-> "take_profit", price |-> pos.target]
  BY DEF Back!Hit, Back!HitsStop, Back!HitsTrail, Back!HitsTarget
<1>3. \A x \in Int, r \in EndReasons :
         [reason |-> r, price |-> x].price \in Int /\ [reason |-> r, price |-> x].reason \in EndReasons
  OBVIOUS
<1>4. {"stop_loss", "trailing_stop", "take_profit"} \subseteq EndReasons
  BY DEF EndReasons
<1> QED BY <1>1, <1>2, <1>3, <1>4

(* An entry's level is a price or none. *)
LEMMA LevelIsPrice ==
    ASSUME NEW e \in Int, NEW d \in Distances \cup {NoPosition}, NEW sign \in {1, -1}
    PROVE  Back!Level(e, sign, d) \in Int \cup {NoPosition}
BY BackNumbers DEF Back!Level

(* The capital is explained by the log and the open position. *)
Explains(money, pos, log) ==
    money = Initial - (IF pos = NoPosition THEN 0 ELSE Back!Charged(pos)) + Total(Amounts(log))

LEMMA AccountedIsExplained ==
    /\ Back!Accounted <=> Explains(capital, position, trades)
    /\ Back!Accounted' <=> Explains(capital', position', trades')
BY SameTotal DEF Back!Accounted, Explains, Amounts

(* What a log earned is a whole number. *)
LEMMA TotalsAreWhole ==
    ASSUME NEW log \in Seq(BackTrade)
    PROVE  Total(Amounts(log)) \in Int
<1>1. PICK n : n = Len(log)
  OBVIOUS
<1>2. PICK v : v = Amounts(log)
  OBVIOUS
<1>3. n \in Nat /\ v = [k \in 1..n |-> Back!Earned(log[k])]
  BY <1>1, <1>2, LenProperties DEF Amounts
<1>4. \A k \in 1..n : Back!Earned(log[k]) \in Int
  BY <1>1, ElementOfSeq, WorthIsWhole
<1>5. v \in Seq(Int) /\ Len(v) = n
  BY <1>3, <1>4
<1> QED BY <1>2, <1>3, <1>5, TotalIsWhole

(* One more trade adds what it earned. *)
LEMMA AmountsGrow ==
    ASSUME NEW log \in Seq(BackTrade), NEW t \in BackTrade
    PROVE  /\ Total(Amounts(log)) \in Int
           /\ Total(Amounts(Append(log, t))) = Total(Amounts(log)) + Back!Earned(t)
<1>1. PICK n : n = Len(log)
  OBVIOUS
<1>2. PICK more : more = Append(log, t)
  OBVIOUS
<1>3. /\ n \in Nat /\ DOMAIN log = 1..n /\ DOMAIN more = 1..(n + 1)
      /\ \A k \in 1..n : more[k] = log[k] /\ log[k] \in BackTrade
      /\ more[n + 1] = t
  BY <1>1, <1>2, LenProperties, AppendProperties, ElementOfSeq
<1>4. PICK v : v = Amounts(log)
  OBVIOUS
<1>5. PICK w : w = Amounts(more)
  OBVIOUS
<1>6. v = [k \in 1..n |-> Back!Earned(log[k])] /\ w = [k \in 1..(n + 1) |-> Back!Earned(more[k])]
  BY <1>3, <1>4, <1>5 DEF Amounts
<1>7. v \in Seq(Int) /\ Len(v) = n
  <2>1. \A k \in 1..n : Back!Earned(log[k]) \in Int
    BY <1>3, WorthIsWhole
  <2> QED BY <1>3, <1>6, <2>1
<1>8. w \in Seq(Int) /\ Len(w) = n + 1
  <2>1. \A k \in 1..(n + 1) : Back!Earned(more[k]) \in Int
    BY <1>3, WorthIsWhole
  <2> QED BY <1>3, <1>6, <2>1
<1>9. \A k \in 1..n : w[k] = v[k]
  BY <1>3, <1>6
<1>10. Total(v) \in Int /\ Total(w) = Total(v) + w[n + 1]
  BY <1>7, <1>8, <1>9, TotalOfMore
<1>11. w[n + 1] = Back!Earned(t)
  BY <1>3, <1>6
<1> QED BY <1>2, <1>4, <1>5, <1>10, <1>11

(* A position that is closed leaves its trade, and its notional. *)
LEMMA ClosedKeeps ==
    ASSUME BackInv, position # NoPosition, NEW pos \in Back!Position,
           pos.entry = position.entry, pos.size = position.size, pos.since = position.since,
           NEW p \in Int, NEW reason \in EndReasons,
           count' \in 1..Frame, count <= count',
           pos.since < count' \/ reason = "end_of_data",
           Back!Closed(pos, p, reason)
    PROVE  /\ position' = NoPosition /\ capital' \in Int /\ trades' \in Seq(BackTrade)
           /\ Back!Accounted' /\ Sequential'
           /\ \A k \in DOMAIN trades' : trades'[k].until <= count'
<1> DEFINE gross == Scale * (p - pos.entry) * pos.size * Back!Dir(pos.side)
           cost == Back!Cost(pos.entry, pos.size) + Back!Cost(p, pos.size)
           t == [side |-> pos.side, entry |-> pos.entry, exit |-> p, size |-> pos.size,
                 since |-> pos.since, until |-> count', net |-> gross - cost,
                 reason |-> reason]
           worth == Scale * pos.entry * pos.size
<1>1. trades' = Append(trades, t) /\ capital' = capital + gross - cost + worth
      /\ position' = NoPosition
  BY DEF Back!Closed
<1>2. /\ pos.entry \in Int /\ pos.size \in Int /\ pos.since \in Nat
      /\ pos.side \in {"LONG", "SHORT"} /\ Back!Dir(pos.side) \in Int /\ Scale \in Int
      /\ pos.size \in Sizes
  BY BackNumbers DEF Back!Position, Back!Dir
<1>3. \A x, y \in Int : x * y \in Int /\ x + y \in Int /\ x - y \in Int
  OBVIOUS
<1>4. gross \in Int
  <2>1. Scale * (p - pos.entry) \in Int
    BY <1>2, <1>3, Zenon
  <2>2. Scale * (p - pos.entry) * pos.size \in Int
    BY <1>2, <1>3, <2>1, Zenon
  <2> QED BY <1>2, <1>3, <2>2, Zenon
<1>5. cost \in Int
  <2>1. Back!Cost(pos.entry, pos.size) \in Int /\ Back!Cost(p, pos.size) \in Int
    BY <1>2, <1>3 DEF Back!Cost
  <2> QED BY <1>3, <2>1, Zenon
<1>6. worth \in Int
  <2>1. Scale * pos.entry \in Int
    BY <1>2, <1>3, Zenon
  <2> QED BY <1>2, <1>3, <2>1, Zenon
<1>7. Back!Earned(t) = (gross - cost) - Back!Charged(pos) + worth
  BY DEF Back!Earned, Back!Charged
<1>8. /\ t.since = pos.since /\ t.until = count' /\ t.reason = reason
  OBVIOUS
<1>9. t \in BackTrade
  <2>1. gross - cost \in Int
    BY <1>4, <1>5
  <2> HIDE DEF gross, cost
  <2> QED BY <1>2, <2>1 DEF BackTrade
<1> HIDE DEF gross, cost, worth, t
<1>10. trades \in Seq(BackTrade) /\ position \in Back!Position /\ capital \in Int
  BY DEF BackInv, BackTypes
<1>11. trades' \in Seq(BackTrade)
  BY <1>1, <1>9, <1>10, AppendProperties
<1>12. capital' \in Int
  BY <1>1, <1>4, <1>5, <1>6, <1>10
<1>13. Back!Accounted'
  <2>1. PICK total : total = Total(Amounts(trades))
    OBVIOUS
  <2>2. PICK charged : charged = Back!Charged(pos)
    OBVIOUS
  <2>3. Back!Charged(position) = charged
    BY <2>2 DEF Back!Charged
  <2>4. total \in Int /\ charged \in Int /\ Initial \in Int
    BY <1>10, <2>1, <2>2, <1>9, AmountsGrow, WorthIsWhole, BackNumbers
  <2>5. capital = Initial - charged + total
    BY <2>1, <2>3, AccountedIsExplained DEF BackInv, Explains
  <2>6. Total(Amounts(trades')) = total + ((gross - cost) - charged + worth)
    BY <1>1, <1>7, <1>9, <1>10, <2>1, <2>2, AmountsGrow
  <2>7. capital' = Initial - 0 + Total(Amounts(trades'))
    <3>1. PICK g, c, w : g = gross /\ c = cost /\ w = worth
      OBVIOUS
    <3>2. /\ g \in Int /\ c \in Int /\ w \in Int
          /\ total \in Int /\ charged \in Int /\ Initial \in Int
      BY <1>4, <1>5, <1>6, <2>4, <3>1, Zenon
    <3>3. (Initial - charged + total) + g - c + w
            = Initial - 0 + (total + ((g - c) - charged + w))
      BY <3>2
    <3>4. capital' = (Initial - charged + total) + g - c + w
      BY <1>1, <2>5, <3>1, Zenon
    <3> QED BY <2>6, <3>1, <3>3, <3>4, Zenon
  <2>8. Explains(capital', position', trades')
    BY <1>1, <2>7 DEF Explains
  <2> QED BY <2>8, AccountedIsExplained
<1>14. PICK n : n = Len(trades)
  OBVIOUS
<1>15. PICK log : log = trades'
  OBVIOUS
<1>16. /\ n \in Nat /\ DOMAIN trades = 1..n /\ DOMAIN log = 1..(n + 1)
       /\ \A k \in 1..n : log[k] = trades[k] /\ trades[k].until \in Int
       /\ log[n + 1] = t
  <2>1. \A k \in 1..Len(trades) : trades[k] \in BackTrade
    BY <1>10, ElementOfSeq
  <2>2. \A u \in BackTrade : u.until \in Int
    BY DEF BackTrade
  <2>3. \A k \in 1..Len(trades) : trades[k].until \in Int
    BY <2>1, <2>2, Zenon
  <2> QED BY <1>1, <1>9, <1>10, <1>14, <1>15, <2>3, LenProperties, AppendProperties
<1>17. \A k \in 1..n : trades[k].until <= count /\ trades[k].until <= pos.since
  BY <1>16 DEF BackInv, Dated
<1>18. Sequential'
  <2>1. ASSUME NEW k \in 1..(n + 1)
        PROVE  log[k].since < log[k].until \/ log[k].reason = "end_of_data"
    <3>1. CASE k \in 1..n
      BY <1>16, <3>1 DEF BackInv, Sequential
    <3>2. CASE k = n + 1
      BY <1>8, <1>16, <3>2
    <3> QED BY <1>16, <3>1, <3>2
  <2>2. ASSUME NEW k \in 1..(n + 1), k > 1
        PROVE  log[k - 1].until <= log[k].since
    <3>1. CASE k \in 1..n
      <4>1. k - 1 \in 1..n
        BY <1>16, <2>2, <3>1
      <4>2. trades[k - 1].until <= trades[k].since
        BY <1>16, <2>2, <3>1 DEF BackInv, Sequential
      <4> QED BY <1>16, <3>1, <4>1, <4>2
    <3>2. CASE k = n + 1
      <4>0. n \in Nat
        BY <1>16
      <4>1. k - 1 \in 1..n /\ k - 1 = n
        BY <2>2, <3>2, <4>0
      <4> QED BY <1>8, <1>16, <1>17, <3>2, <4>1
    <3> QED BY <1>16, <3>1, <3>2
  <2> QED BY <1>15, <1>16, <2>1, <2>2 DEF Sequential
<1>19. ASSUME NEW k \in 1..(n + 1) PROVE log[k].until <= count'
  <2>1. CASE k \in 1..n
    <3>1. log[k].until \in Int /\ log[k].until <= count /\ count \in Int /\ count' \in Int
      BY <1>16, <1>17, <2>1 DEF BackInv, BackTypes
    <3> QED BY <3>1
  <2>2. CASE k = n + 1
    BY <1>8, <1>16, <2>2
  <2> QED BY <1>16, <2>1, <2>2
<1> QED BY <1>1, <1>11, <1>12, <1>13, <1>15, <1>16, <1>18, <1>19

(* A trade ends on a bar. *)
LEMMA UntilIsBar ==
    ASSUME NEW log \in Seq(BackTrade)
    PROVE  \A k \in DOMAIN log : log[k].until \in Int
<1>1. \A k \in DOMAIN log : log[k] \in BackTrade
  BY ElementOfSeq, LenProperties
<1>2. \A t \in BackTrade : t.until \in Int
  BY DEF BackTrade
<1> QED BY <1>1, <1>2, Zenon

LEMMA BackStart == Back!Init => BackInv
<1> SUFFICES ASSUME Back!Init PROVE BackInv
  OBVIOUS
<1>1. /\ count = 0 /\ current \in BackBars /\ doing = "bar" /\ position = NoPosition
      /\ capital = Initial /\ trades = <<>>
  BY DEF Back!Init
<1>2. DOMAIN trades = {} /\ trades \in Seq(BackTrade)
  BY <1>1, EmptySeq
<1>3. BackTypes
  BY <1>1, <1>2, BackNumbers DEF BackTypes
<1>4. Dated /\ Sequential
  BY <1>1, <1>2 DEF Dated, Sequential
<1>5. Explains(capital, position, trades)
  <2>1. Amounts(trades) = <<>>
    BY <1>1, <1>2 DEF Amounts
  <2>2. Initial = Initial - 0 + 0
    BY BackNumbers
  <2> QED BY <1>1, <2>1, <2>2, TotalOfNone DEF Explains
<1> QED BY <1>3, <1>4, <1>5, AccountedIsExplained DEF BackInv

(* A step that closes a position and gives the next bar the word. *)
LEMMA ClosingStep ==
    ASSUME BackInv, position # NoPosition, NEW pos \in Back!Position,
           pos.entry = position.entry, pos.size = position.size, pos.since = position.since,
           NEW p \in Int, NEW reason \in EndReasons,
           count' \in 1..Frame, count <= count', current' \in BackBars, doing' \in {"bar", "done"},
           pos.since < count' \/ reason = "end_of_data",
           Back!Closed(pos, p, reason)
    PROVE  BackInv'
<1>1. /\ position' = NoPosition /\ capital' \in Int /\ trades' \in Seq(BackTrade)
      /\ Back!Accounted' /\ Sequential'
      /\ \A k \in DOMAIN trades' : trades'[k].until <= count'
  BY ClosedKeeps
<1>2. BackTypes'
  BY <1>1, BackNumbers DEF BackTypes
<1>3. Dated'
  BY <1>1 DEF Dated
<1> QED BY <1>1, <1>2, <1>3 DEF BackInv

LEMMA BackStep == BackInv /\ [Back!Next]_Back!btVars => BackInv'
<1> SUFFICES ASSUME BackInv, [Back!Next]_Back!btVars PROVE BackInv'
  OBVIOUS
<1>0. /\ count \in Nat /\ count <= Frame /\ Frame \in Nat /\ current \in BackBars /\ capital \in Int
      /\ position \in Back!Position \cup {NoPosition} /\ trades \in Seq(BackTrade)
      /\ position # NoPosition => position.since \in 1..count /\ Behind(position)
  BY BackNumbers DEF BackInv, BackTypes, Dated
<1>1. CASE Back!TakeBar
  <2>1. /\ doing = "bar" /\ count < Frame /\ count' = count + 1 /\ current' \in BackBars
    BY <1>1 DEF Back!TakeBar
  <2>2. count' \in 1..Frame /\ count <= count'
    BY <1>0, <2>1
  <2>3. CASE position = NoPosition
    <3>1. doing' = "signal" /\ UNCHANGED <<position, capital, trades>>
      BY <1>1, <2>3 DEF Back!TakeBar
    <3>2. BackTypes'
      BY <1>0, <2>1, <2>2, <3>1 DEF BackTypes
    <3>3. \A k \in DOMAIN trades : trades[k].until <= count'
      <4>1. \A k \in DOMAIN trades : trades[k].until \in Int /\ trades[k].until <= count
        BY <1>0, UntilIsBar DEF BackInv, Dated
      <4> QED BY <1>0, <2>1, <4>1
    <3>4. Dated'
      BY <2>2, <2>3, <3>1, <3>3 DEF Dated
    <3>5. Sequential' /\ Back!Accounted'
      BY <3>1, AccountedIsExplained DEF BackInv, Sequential, Explains
    <3> QED BY <3>2, <3>4, <3>5 DEF BackInv
  <2>4. CASE position # NoPosition
    <3>1. PICK pos : pos = Back!Trailed(position, current')
      OBVIOUS
    <3>2. PICK hit : hit = Back!Hit(pos, current')
      OBVIOUS
    <3>3. IF hit = NoPosition
          THEN doing' = "signal" /\ position' = pos /\ UNCHANGED <<capital, trades>>
          ELSE doing' = "bar" /\ Back!Closed(pos, hit.price, hit.reason)
      BY <1>1, <2>4, <3>1, <3>2 DEF Back!TakeBar
    <3>4. Follows(pos, position)
      BY <1>0, <2>1, <2>4, <3>1, TrailingKeeps
    <3>5. position.since \in 1..count /\ position.since < count'
      BY <1>0, <2>1, <2>4
    <3>6. CASE hit = NoPosition
      <4>1. doing' = "signal" /\ position' = pos /\ UNCHANGED <<capital, trades>>
        BY <3>3, <3>6
      <4>2. BackTypes'
        BY <1>0, <2>1, <2>2, <3>4, <4>1 DEF BackTypes, Follows
      <4>3. \A k \in DOMAIN trades :
               trades[k].until <= count' /\ trades[k].until <= pos.since
        <5>1. \A k \in DOMAIN trades :
                 /\ trades[k].until \in Int /\ trades[k].until <= count
                 /\ trades[k].until <= position.since
          BY <1>0, <2>4, UntilIsBar DEF BackInv, Dated
        <5> QED BY <1>0, <2>1, <3>4, <5>1 DEF Follows
      <4>4. pos.since \in 1..count' /\ pos.since < count'
        BY <1>0, <2>1, <3>4, <3>5 DEF Follows
      <4>5. Dated'
        <5>1. count' >= 1
          BY <1>0, <2>1
        <5>2. /\ position'.since \in 1..count' /\ Behind(position')
              /\ position'.since < count' /\ Back!Hit(position', current') = NoPosition
          BY <3>2, <3>4, <3>6, <4>1, <4>4 DEF Follows
        <5>3. \A k \in DOMAIN trades' :
                 trades'[k].until <= count' /\ trades'[k].until <= position'.since
          BY <4>1, <4>3
        <5> QED BY <5>1, <5>2, <5>3, Zenon DEF Dated
      <4>6. Explains(capital', position', trades')
        <5>1. pos # NoPosition => Back!Charged(pos) = Back!Charged(position)
          BY <3>4 DEF Follows, Back!Charged
        <5>2. Explains(capital, position, trades)
          BY AccountedIsExplained DEF BackInv
        <5>3. pos # NoPosition
          BY <3>4, BackNumbers DEF Follows
        <5> QED BY <2>4, <4>1, <5>1, <5>2, <5>3 DEF Explains
      <4>7. Sequential'
        BY <4>1 DEF BackInv, Sequential
      <4> QED BY <4>2, <4>5, <4>6, <4>7, AccountedIsExplained DEF BackInv
    <3>7. CASE hit # NoPosition
      <4>1. hit.price \in Int /\ hit.reason \in EndReasons
        BY <2>1, <3>2, <3>4, <3>7, HitIsPrice DEF Follows
      <4>2. doing' = "bar" /\ Back!Closed(pos, hit.price, hit.reason)
        BY <3>3, <3>7
      <4>3. /\ pos \in Back!Position /\ pos.entry = position.entry
            /\ pos.size = position.size /\ pos.since = position.since
        BY <3>4 DEF Follows
      <4>4. pos.since < count'
        BY <3>5, <4>3
      <4> QED BY <2>1, <2>2, <2>4, <4>1, <4>2, <4>3, <4>4, ClosingStep
    <3> QED BY <3>6, <3>7
  <2> QED BY <2>3, <2>4
<1>2. CASE Back!NoAction
  <2>1. doing' = "bar" /\ UNCHANGED <<count, current, position, capital, trades>>
    BY <1>2 DEF Back!NoAction
  <2>2. BackTypes' /\ Dated' /\ Sequential'
    BY <2>1 DEF BackInv, BackTypes, Dated, Sequential
  <2>3. Back!Accounted'
    BY <2>1, AccountedIsExplained DEF BackInv, Explains
  <2> QED BY <2>2, <2>3 DEF BackInv
<1>3. CASE Back!CloseAction
  <2>1. /\ doing = "signal" /\ position # NoPosition /\ doing' = "bar"
        /\ UNCHANGED <<count, current>>
        /\ Back!Closed(position, current.close, "signal_close")
    BY <1>3 DEF Back!CloseAction
  <2>2. position \in Back!Position /\ position.since < count' /\ count' \in 1..Frame
    BY <1>0, <2>1 DEF BackInv, Dated
  <2>3. current.close \in Int /\ "signal_close" \in EndReasons /\ count <= count'
    BY <1>0, <2>1, BackNumbers DEF EndReasons
  <2> QED BY <1>0, <2>1, <2>2, <2>3, ClosingStep
<1>4. CASE Back!EndOfData
  <2>1. doing = "bar" /\ count = Frame /\ doing' = "done" /\ UNCHANGED <<count, current>>
    BY <1>4 DEF Back!EndOfData
  <2>2. CASE position = NoPosition
    <3>1. UNCHANGED <<position, capital, trades>>
      BY <1>4, <2>2 DEF Back!EndOfData
    <3>2. BackTypes' /\ Dated' /\ Sequential'
      BY <2>1, <2>2, <3>1 DEF BackInv, BackTypes, Dated, Sequential
    <3>3. Back!Accounted'
      BY <3>1, AccountedIsExplained DEF BackInv, Explains
    <3> QED BY <3>2, <3>3 DEF BackInv
  <2>3. CASE position # NoPosition
    <3>1. Back!Closed(position, current.close, "end_of_data")
      BY <1>4, <2>3 DEF Back!EndOfData
    <3>2. position \in Back!Position /\ count' \in 1..Frame /\ count <= count'
      BY <1>0, <2>1, <2>3
    <3>3. current.close \in Int /\ "end_of_data" \in EndReasons
      BY <1>0, BackNumbers DEF EndReasons
    <3> QED BY <1>0, <2>1, <2>3, <3>1, <3>2, <3>3, ClosingStep
  <2> QED BY <2>2, <2>3
<1>5. ASSUME NEW side \in {"LONG", "SHORT"}, NEW size \in Sizes,
             NEW stop \in Distances \cup {NoPosition},
             NEW target \in Distances \cup {NoPosition},
             NEW distance \in Distances \cup {NoPosition},
             Back!EntryAction(side, size, stop, target, distance)
      PROVE  BackInv'
  <2>1. PICK e : e = current.close
    OBVIOUS
  <2>2. PICK dir : dir = Back!Dir(side)
    OBVIOUS
  <2>3. PICK pos :
          pos = [side |-> side, entry |-> e, size |-> size, since |-> count,
                 stop |-> Back!Level(e, -dir, stop), target |-> Back!Level(e, dir, target),
                 distance |-> distance, trail |-> Back!Level(e, -dir, distance),
                 best |-> e]
    OBVIOUS
  <2>4. /\ doing = "signal" /\ position = NoPosition /\ doing' = "bar" /\ position' = pos
        /\ capital' = capital - Back!Cost(e, size)
        /\ UNCHANGED <<count, current, trades>>
    BY <1>5, <2>1, <2>2, <2>3 DEF Back!EntryAction
  <2>5. e \in Int /\ dir \in {1, -1} /\ -dir \in {1, -1} /\ count \in 1..Frame
    <3>1. e \in Int
      BY <1>0, <2>1, BackNumbers
    <3>2. dir = 1 \/ dir = -1
      BY <2>2 DEF Back!Dir
    <3>3. count >= 1
      BY <2>4 DEF BackInv, Dated
    <3> QED BY <1>0, <3>1, <3>2, <3>3
  <2>6. pos \in Back!Position
    <3>1. /\ Back!Level(e, -dir, stop) \in Int \cup {NoPosition}
          /\ Back!Level(e, dir, target) \in Int \cup {NoPosition}
          /\ Back!Level(e, -dir, distance) \in Int \cup {NoPosition}
      BY <2>5, LevelIsPrice
    <3> QED BY <2>3, <2>5, <3>1 DEF Back!Position
  <2>7. Behind(pos)
    <3>1. pos.distance = distance /\ pos.side = side /\ pos.best = e
          /\ pos.trail = Back!Level(e, -dir, distance)
      BY <2>3
    <3>2. distance # NoPosition => distance \in Int /\ Back!Level(e, -dir, distance) = e + (-dir) * distance
      BY BackNumbers DEF Back!Level
    <3>3. distance # NoPosition => e + (-dir) * distance = e - dir * distance
      BY <2>5, <3>2
    <3> QED BY <2>2, <3>1, <3>2, <3>3 DEF Behind
  <2>8. Back!Charged(pos) = Back!Cost(e, size) /\ Back!Charged(pos) \in Int
    <3>1. pos.entry = e /\ pos.size = size
      BY <2>3
    <3> QED BY <2>6, <3>1, WorthIsWhole DEF Back!Charged
  <2>9. BackTypes'
    <3>1. capital' \in Int
      BY <1>0, <2>4, <2>8
    <3> QED BY <1>0, <2>4, <2>5, <2>6, <3>1 DEF BackInv, BackTypes
  <2>10. Dated'
    <3>1. \A k \in DOMAIN trades : trades[k].until <= count
      BY DEF BackInv, Dated
    <3>2. pos.since = count /\ count \in 1..count
      BY <2>3, <2>5
    <3> QED BY <2>4, <2>7, <3>1, <3>2 DEF Dated
  <2>11. Sequential'
    BY <2>4 DEF BackInv, Sequential
  <2>12. Explains(capital', position', trades')
    <3>1. capital = Initial - 0 + Total(Amounts(trades))
      BY <2>4, AccountedIsExplained DEF BackInv, Explains
    <3>2. PICK total : total = Total(Amounts(trades))
      OBVIOUS
    <3>3. PICK charged : charged = Back!Charged(pos)
      OBVIOUS
    <3>4. total \in Int /\ charged \in Int /\ Initial \in Int
      <4>1. total \in Int
        BY <1>0, <3>2, TotalsAreWhole
      <4> QED BY <2>8, <3>3, <4>1, BackNumbers
    <3>5. \A x, y, z \in Int : x - 0 + y - z = x - z + y
      OBVIOUS
    <3>6. capital' = Initial - charged + total
      BY <2>4, <2>8, <3>1, <3>2, <3>3, <3>4, <3>5
    <3>7. pos # NoPosition
      BY <2>6, BackNumbers
    <3> QED BY <2>4, <3>2, <3>3, <3>6, <3>7 DEF Explains
  <2> QED BY <2>9, <2>10, <2>11, <2>12, AccountedIsExplained DEF BackInv
<1>6. CASE Back!Done \/ UNCHANGED Back!btVars
  <2>1. UNCHANGED <<count, current, doing, position, capital, trades>>
    BY <1>6 DEF Back!Done, Back!btVars
  <2>2. BackTypes' /\ Dated' /\ Sequential'
    BY <2>1 DEF BackInv, BackTypes, Dated, Sequential
  <2>3. Back!Accounted'
    BY <2>1, AccountedIsExplained DEF BackInv, Explains
  <2> QED BY <2>2, <2>3 DEF BackInv
<1> QED BY <1>1, <1>2, <1>3, <1>4, <1>5, <1>6 DEF Back!Next

(* For any bars, sizes and distances: the capital of the backtest is what  *)
(* its trades and its open position explain, no position outlives a bar    *)
(* that reaches one of its levels, the trailing stop never loses its       *)
(* distance to the best price, and trades do not overlap                   *)
(* (backtest.py:124-199, 215, 254, 275).                                   *)
THEOREM BacktestLedgerHolds == Back!Spec => []Back!BacktestHolds
<1>1. BackInv => Back!BacktestHolds
  BY DEF BackInv, Dated, Sequential, Behind, Back!BacktestHolds, Back!Protected
<1> QED BY <1>1, BackStart, BackStep, PTL DEF Back!Spec

(* Every variable of the backtest keeps its type; a position began on a    *)
(* bar that was taken, and every trade ended on one.                       *)
THEOREM BacktestTypeOK == Back!Spec => []Back!TypeOK
<1>1. BackInv => Back!TypeOK
  <2> SUFFICES ASSUME BackInv PROVE Back!TypeOK
    OBVIOUS
  <2>1. /\ count \in 0..Frame /\ current \in BackBars /\ doing \in {"bar", "signal", "done"}
        /\ capital \in Int
    BY DEF BackInv, BackTypes
  <2>2. position # NoPosition =>
          position \in Back!Position /\ position.since \in 1..count
    BY DEF BackInv, BackTypes, Dated
  <2>3. \A k \in DOMAIN trades : trades[k].net \in Int /\ trades[k].until \in 1..Frame
    <3>1. \A k \in DOMAIN trades : trades[k] \in BackTrade
      BY ElementOfSeq, LenProperties DEF BackInv, BackTypes
    <3> QED BY <3>1 DEF BackTrade
  <2>4. \A t \in Back!Range(trades) : t.net \in Int /\ t.until \in 1..Frame
    BY <2>3 DEF Back!Range
  <2> QED BY <2>1, <2>2, <2>4 DEF Back!TypeOK
<1> QED BY <1>1, BackStart, BackStep, PTL DEF Back!Spec
-----------------------------------------------------------------------------
(* The replay tools *)

Stake ==
    [side : {"long", "short"}, entry : Int, qty : Int, orig : Int, stop : Int, initial : Int,
     tp1 : BOOLEAN, trail : Int, held : Int, result : Int, fees : Int, since : 1..Length]

Outcome == [r : Int, net : Int, since : 1..Length, until : Int]

Account == [equity : Int, peak : Int, opens : Seq(Stake), trades : Seq(Outcome)]

Nets(log) == [k \in DOMAIN log |-> log[k].net]
Values(opens) == [k \in DOMAIN opens |-> opens[k].result - opens[k].fees]

(* What of the equity neither the trades nor the open positions explain. *)
Unexplained(a) == a.equity - Total(Nets(a.trades)) - Total(Values(a.opens))

LEMMA ReplayNumbers ==
    /\ Fee \in Int /\ Slip \in Int /\ Trail \in Int /\ Whole \in Int /\ Split \in Int
    /\ Length \in Nat /\ Initial \in Int
    /\ \A c \in Shapes : c.low \in Int /\ c.high \in Int /\ c.close \in Int
BY LedgerAssumption, ReplayAssumption

LEMMA WholeNumbers == \A x, y \in Int : x * y \in Int /\ x + y \in Int /\ x - y \in Int
OBVIOUS

(* The results of a log add up to a number, and one more adds its own. *)
LEMMA NetsGrow ==
    ASSUME NEW log \in Seq(Outcome)
    PROVE  /\ Total(Nets(log)) \in Int
           /\ \A t \in Outcome : Total(Nets(Append(log, t))) = Total(Nets(log)) + t.net
<1>1. PICK n : n = Len(log)
  OBVIOUS
<1>2. PICK v : v = Nets(log)
  OBVIOUS
<1>3. n \in Nat /\ DOMAIN log = 1..n /\ \A k \in 1..n : log[k] \in Outcome
  BY <1>1, LenProperties, ElementOfSeq
<1>4. \A t \in Outcome : t.net \in Int
  BY DEF Outcome
<1>5. v = [k \in 1..n |-> log[k].net]
  BY <1>2, <1>3 DEF Nets
<1>6. v \in Seq(Int) /\ Len(v) = n
  BY <1>3, <1>4, <1>5
<1>7. ASSUME NEW t \in Outcome PROVE Total(Nets(Append(log, t))) = Total(Nets(log)) + t.net
  <2>1. PICK more : more = Append(log, t)
    OBVIOUS
  <2>2. DOMAIN more = 1..(n + 1) /\ more[n + 1] = t /\ \A k \in 1..n : more[k] = log[k]
    BY <1>1, <1>3, <2>1, AppendProperties
  <2>3. PICK w : w = Nets(more)
    OBVIOUS
  <2>4. w = [k \in 1..(n + 1) |-> more[k].net]
    BY <2>2, <2>3 DEF Nets
  <2>5. \A k \in 1..(n + 1) : more[k].net \in Int
    BY <1>3, <1>4, <2>2
  <2>6. w \in Seq(Int) /\ Len(w) = n + 1
    <3>1. PICK m : m = n + 1
      OBVIOUS
    <3>2. m \in Nat
      BY <1>3, <3>1
    <3>3. w = [k \in 1..m |-> more[k].net] /\ \A k \in 1..m : more[k].net \in Int
      BY <2>4, <2>5, <3>1
    <3>4. w \in Seq(Int) /\ Len(w) = m
      BY <3>2, <3>3
    <3> QED BY <3>1, <3>4
  <2>7. /\ \A k \in 1..n : w[k] = v[k]
        /\ w[n + 1] = t.net
    BY <1>3, <1>5, <2>2, <2>4
  <2>8. Total(w) = Total(v) + w[n + 1]
    BY <1>6, <2>6, <2>7, TotalOfMore
  <2> QED BY <1>2, <2>1, <2>3, <2>7, <2>8
<1> QED BY <1>2, <1>6, <1>7, TotalIsWhole

(* So do the values of the open positions. *)
LEMMA ValuesGrow ==
    ASSUME NEW opens \in Seq(Stake)
    PROVE  /\ Values(opens) \in Seq(Int) /\ Len(Values(opens)) = Len(opens)
           /\ Total(Values(opens)) \in Int
           /\ \A p \in Stake : Total(Values(Append(opens, p)))
                                 = Total(Values(opens)) + (p.result - p.fees)
<1>1. PICK n : n = Len(opens)
  OBVIOUS
<1>2. PICK v : v = Values(opens)
  OBVIOUS
<1>3. n \in Nat /\ DOMAIN opens = 1..n /\ \A k \in 1..n : opens[k] \in Stake
  BY <1>1, LenProperties, ElementOfSeq
<1>4. \A p \in Stake : p.result - p.fees \in Int
  BY DEF Stake
<1>5. v = [k \in 1..n |-> opens[k].result - opens[k].fees]
  BY <1>2, <1>3 DEF Values
<1>6. v \in Seq(Int) /\ Len(v) = n
  BY <1>3, <1>4, <1>5
<1>7. ASSUME NEW p \in Stake
      PROVE  Total(Values(Append(opens, p))) = Total(Values(opens)) + (p.result - p.fees)
  <2>1. PICK more : more = Append(opens, p)
    OBVIOUS
  <2>2. DOMAIN more = 1..(n + 1) /\ more[n + 1] = p /\ \A k \in 1..n : more[k] = opens[k]
    BY <1>1, <1>3, <2>1, AppendProperties
  <2>3. PICK w : w = Values(more)
    OBVIOUS
  <2>4. w = [k \in 1..(n + 1) |-> more[k].result - more[k].fees]
    BY <2>2, <2>3 DEF Values
  <2>5. \A k \in 1..(n + 1) : more[k].result - more[k].fees \in Int
    BY <1>3, <1>4, <2>2
  <2>6. w \in Seq(Int) /\ Len(w) = n + 1
    BY <1>3, <2>4, <2>5
  <2>7. /\ \A k \in 1..n : w[k] = v[k]
        /\ w[n + 1] = p.result - p.fees
    BY <1>3, <1>5, <2>2, <2>4
  <2>8. Total(w) = Total(v) + w[n + 1]
    BY <1>6, <2>6, <2>7, TotalOfMore
  <2> QED BY <1>2, <2>1, <2>3, <2>7, <2>8
<1> QED BY <1>1, <1>2, <1>6, <1>7, TotalIsWhole

(* What an exit gains is a whole number. *)
LEMMA GainIsWhole ==
    ASSUME NEW p \in Stake, NEW x \in Int, NEW q \in Int
    PROVE  Replays!Gain(p, x, q) \in Int
<1>1. p.entry \in Int /\ Replays!Dir(p.side) \in Int
  BY DEF Stake, Replays!Dir
<1>2. Slip * Replays!Dir(p.side) \in Int
  BY <1>1, ReplayNumbers, WholeNumbers, Zenon
<1>3. (x - Slip * Replays!Dir(p.side)) - p.entry \in Int
  BY <1>1, <1>2
<1>4. ((x - Slip * Replays!Dir(p.side)) - p.entry) * Replays!Dir(p.side) \in Int
  BY <1>1, <1>3, WholeNumbers, Zenon
<1>5. ((x - Slip * Replays!Dir(p.side)) - p.entry) * Replays!Dir(p.side) * q \in Int
  BY <1>4, WholeNumbers, Zenon
<1> QED BY <1>5 DEF Replays!Gain

(* An account that has paid out a value: nothing else is unexplained. *)
Settles(n, a, value) ==
    /\ n \in Account
    /\ Unexplained(n) = Unexplained(a) - value
    /\ Len(n.trades) >= Len(a.trades)

Worth(p) == p.result - p.fees

(* What of an account is a number. *)
LEMMA AccountNumbers ==
    ASSUME NEW a \in Account
    PROVE  /\ a.equity \in Int /\ a.peak \in Int
           /\ a.opens \in Seq(Stake) /\ a.trades \in Seq(Outcome)
           /\ Total(Nets(a.trades)) \in Int /\ Total(Values(a.opens)) \in Int
           /\ Unexplained(a) \in Int /\ Len(a.trades) \in Nat
<1>1. /\ a.equity \in Int /\ a.peak \in Int
      /\ a.opens \in Seq(Stake) /\ a.trades \in Seq(Outcome)
  BY DEF Account
<1>2. Total(Nets(a.trades)) \in Int /\ Total(Values(a.opens)) \in Int
  BY <1>1, NetsGrow, ValuesGrow
<1>3. Unexplained(a) \in Int
  <2>1. \A x, y, z \in Int : x - y - z \in Int
    OBVIOUS
  <2> QED BY <1>1, <1>2, <2>1, Zenon DEF Unexplained
<1> QED BY <1>1, <1>2, <1>3, LenProperties

(* A fill moves the equity by its gain and its fee, and nothing else. *)
LEMMA ExitKeeps ==
    ASSUME NEW a \in Account, NEW p \in Stake, NEW x \in Int, NEW q \in Int
    PROVE  /\ Replays!Exit(a, p, x, q) \in Account
           /\ Replays!Exit(a, p, x, q).equity = a.equity + Replays!Gain(p, x, q) - Fee * q
           /\ Replays!Exit(a, p, x, q).opens = a.opens
           /\ Replays!Exit(a, p, x, q).trades = a.trades
<1>1. PICK e : e = a.equity + Replays!Gain(p, x, q) - Fee * q
  OBVIOUS
<1>2. PICK m : m = Replays!Larger(a.peak, e)
  OBVIOUS
<1>3. Replays!Exit(a, p, x, q) = [a EXCEPT !.equity = e, !.peak = m]
  BY <1>1, <1>2 DEF Replays!Exit
<1>4. e \in Int
  <2>1. Fee * q \in Int
    BY ReplayNumbers, WholeNumbers, Zenon
  <2>2. \A i, j, k \in Int : i + j - k \in Int
    OBVIOUS
  <2> QED BY <1>1, <2>1, <2>2, GainIsWhole, AccountNumbers, Zenon
<1>5. m \in Int
  BY <1>2, <1>4, AccountNumbers DEF Replays!Larger
<1>6. PICK n : n = [a EXCEPT !.equity = e, !.peak = m]
  OBVIOUS
<1>7. n \in Account /\ n.equity = e /\ n.opens = a.opens /\ n.trades = a.trades
  BY <1>4, <1>5, <1>6 DEF Account
<1> QED BY <1>1, <1>3, <1>6, <1>7, Zenon

(* A trade is worth what the position had realised and what its last exit  *)
(* brought.                                                                *)
LEMMA CloseKeeps ==
    ASSUME NEW a \in Account, NEW p \in Stake, NEW x \in Int, NEW t \in Int
    PROVE  /\ Settles(Replays!Close(a, p, x, t), a, Worth(p))
           /\ Replays!Close(a, p, x, t).opens = a.opens
<1>1. PICK n : n = Replays!Exit(a, p, x, p.qty)
  OBVIOUS
<1>2. PICK g : g = Replays!Gain(p, x, p.qty)
  OBVIOUS
<1>3. PICK fee : fee = Fee * p.qty
  OBVIOUS
<1>4. p.qty \in Int /\ p.result \in Int /\ p.fees \in Int /\ p.since \in 1..Length
  BY DEF Stake
<1>5. g \in Int /\ fee \in Int
  BY <1>2, <1>3, <1>4, GainIsWhole, ReplayNumbers, WholeNumbers, Zenon
<1>6. /\ n \in Account /\ n.equity = a.equity + g - fee
      /\ n.opens = a.opens /\ n.trades = a.trades
  <2>1. PICK q : q = p.qty
    OBVIOUS
  <2>2. q \in Int
    BY <1>4, <2>1
  <2>3. /\ Replays!Exit(a, p, x, q) \in Account
        /\ Replays!Exit(a, p, x, q).equity = a.equity + Replays!Gain(p, x, q) - Fee * q
        /\ Replays!Exit(a, p, x, q).opens = a.opens
        /\ Replays!Exit(a, p, x, q).trades = a.trades
    BY <2>2, ExitKeeps
  <2> QED BY <1>1, <1>2, <1>3, <2>1, <2>3, Zenon
<1>17. PICK z \in Int : z = IF Replays!Distance(p) > 0 THEN p.result + g ELSE 0
  BY <1>4, <1>5
<1>7. PICK out : out = [r |-> z, net |-> (p.result + g) - (p.fees + fee),
                        since |-> p.since, until |-> t]
  OBVIOUS
<1>8. out \in Outcome /\ out.net = (p.result + g) - (p.fees + fee)
  BY <1>4, <1>5, <1>7 DEF Outcome
<1>9. PICK log : log = Append(n.trades, out)
  OBVIOUS
<1>10. PICK m : m = Replays!Close(a, p, x, t)
  OBVIOUS
<1>11. m = [n EXCEPT !.trades = log]
  BY <1>1, <1>2, <1>3, <1>7, <1>9, <1>10, <1>17 DEF Replays!Close
<1>12. log \in Seq(Outcome) /\ Len(log) = Len(a.trades) + 1
  BY <1>6, <1>8, <1>9, AccountNumbers, AppendProperties
<1>13. /\ m \in Account /\ m.equity = n.equity /\ m.opens = n.opens /\ m.trades = log
  <2>1. \A acc \in Account, l \in Seq(Outcome) :
          LET k == [acc EXCEPT !.trades = l]
          IN k \in Account /\ k.equity = acc.equity /\ k.opens = acc.opens /\ k.trades = l
    BY DEF Account
  <2> QED BY <1>6, <1>11, <1>12, <2>1
<1>14. Total(Nets(log)) = Total(Nets(a.trades)) + out.net
  BY <1>6, <1>8, <1>9, AccountNumbers, NetsGrow
<1>15. Unexplained(m) = Unexplained(a) - Worth(p)
  <2>1. PICK s : s = Total(Nets(a.trades))
    OBVIOUS
  <2>2. PICK v : v = Total(Values(a.opens))
    OBVIOUS
  <2>3. Unexplained(m) = (a.equity + g - fee) - (s + ((p.result + g) - (p.fees + fee))) - v
    BY <1>6, <1>8, <1>13, <1>14, <2>1, <2>2, Zenon DEF Unexplained
  <2>4. Unexplained(a) = a.equity - s - v
    BY <2>1, <2>2, Zenon DEF Unexplained
  <2>5. PICK eq : eq = a.equity
    OBVIOUS
  <2>6. PICK res, paid : res = p.result /\ paid = p.fees
    OBVIOUS
  <2>7. eq \in Int /\ s \in Int /\ v \in Int /\ res \in Int /\ paid \in Int
    BY <1>4, <2>1, <2>2, <2>5, <2>6, AccountNumbers
  <2>8. (eq + g - fee) - (s + ((res + g) - (paid + fee))) - v = (eq - s - v) - (res - paid)
    BY <1>5, <2>7
  <2> QED BY <2>3, <2>4, <2>5, <2>6, <2>8, Zenon DEF Worth
<1>16. Len(m.trades) >= Len(a.trades)
  BY <1>12, <1>13, AccountNumbers
<1> QED BY <1>6, <1>10, <1>13, <1>15, <1>16, Zenon DEF Settles

(* A position that is kept takes its value along. *)
LEMMA KeptKeeps ==
    ASSUME NEW a \in Account, NEW p \in Stake
    PROVE  Settles(Replays!Kept(a, p), a, Worth(p))
<1>1. PICK n : n = Replays!Kept(a, p)
  OBVIOUS
<1>2. PICK more : more = Append(a.opens, p)
  OBVIOUS
<1>3. n = [a EXCEPT !.opens = more]
  BY <1>1, <1>2 DEF Replays!Kept
<1>4. more \in Seq(Stake)
  BY <1>2, AccountNumbers, AppendProperties
<1>5. n \in Account /\ n.equity = a.equity /\ n.trades = a.trades /\ n.opens = more
  BY <1>3, <1>4 DEF Account
<1>6. Unexplained(n) = Unexplained(a) - Worth(p)
  <2>1. PICK v : v = Total(Values(a.opens))
    OBVIOUS
  <2>2. PICK s : s = Total(Nets(a.trades))
    OBVIOUS
  <2>3. PICK eq : eq = a.equity
    OBVIOUS
  <2>4. PICK w : w = Worth(p)
    OBVIOUS
  <2>5. Total(Values(more)) = v + w
    BY <1>2, <2>1, <2>4, AccountNumbers, ValuesGrow DEF Worth
  <2>6. eq \in Int /\ s \in Int /\ v \in Int /\ w \in Int
    <3>1. w \in Int
      BY <2>4 DEF Worth, Stake
    <3> QED BY <2>1, <2>2, <2>3, <3>1, AccountNumbers
  <2>7. eq - s - (v + w) = (eq - s - v) - w
    BY <2>6
  <2>8. Unexplained(n) = eq - s - (v + w) /\ Unexplained(a) = eq - s - v
    BY <1>5, <2>1, <2>2, <2>3, <2>5, Zenon DEF Unexplained
  <2> QED BY <2>4, <2>7, <2>8, Zenon
<1> QED BY <1>1, <1>5, <1>6, AccountNumbers DEF Settles

LEMMA HalfIsWhole == \A q \in Int : q \div 2 \in Int
OBVIOUS

(* A partial exit books its gain and its fee with the position. *)
LEMMA HalvedKeeps ==
    ASSUME NEW p \in Stake, NEW c \in Shapes, NEW half, half = p.qty \div 2
    PROVE  /\ Replays!Halved(p, c) \in Stake
           /\ Replays!Halved(p, c).result = p.result + Replays!Gain(p, c.close, half)
           /\ Replays!Halved(p, c).fees = p.fees + Fee * half
<1>1. PICK g : g = Replays!Gain(p, c.close, half)
  OBVIOUS
<1>2. PICK fee : fee = Fee * half
  OBVIOUS
<1>3. PICK n : n = Replays!Halved(p, c)
  OBVIOUS
<1>4. p.qty \in Int /\ p.result \in Int /\ p.fees \in Int
  BY DEF Stake
<1>5. c.close \in Int /\ Fee \in Int
  BY ReplayNumbers
<1>6. half \in Int
  BY <1>4, HalfIsWhole
<1>7. g \in Int /\ fee \in Int
  BY <1>1, <1>2, <1>5, <1>6, GainIsWhole, WholeNumbers, Zenon
<1>8. PICK rest, res, paid : rest = p.qty - half /\ res = p.result + g /\ paid = p.fees + fee
  OBVIOUS
<1>9. rest \in Int /\ res \in Int /\ paid \in Int
  BY <1>4, <1>6, <1>7, <1>8
<1>10. n = [p EXCEPT !.tp1 = TRUE, !.qty = rest, !.result = res, !.fees = paid]
  BY <1>1, <1>2, <1>3, <1>8, Zenon DEF Replays!Halved
<1>11. n \in Stake /\ n.result = res /\ n.fees = paid
  BY <1>9, <1>10 DEF Stake
<1> QED BY <1>1, <1>2, <1>3, <1>8, <1>11, Zenon

(* The trailing stop moves nothing but the stop. *)
LEMMA TrailedKeeps ==
    ASSUME NEW p \in Stake, NEW c \in Shapes
    PROVE  Replays!Trailed(p, c) \in Stake /\ Worth(Replays!Trailed(p, c)) = Worth(p)
<1>1. PICK new : new = c.close - Trail * Replays!Dir(p.side)
  OBVIOUS
<1>2. PICK trail : trail = IF p.side = "long" THEN Replays!Larger(new, p.trail)
                           ELSE IF p.trail = 0 \/ new < p.trail THEN new ELSE p.trail
  OBVIOUS
<1>3. PICK closer : closer = IF p.side = "long" THEN trail > p.stop
                             ELSE trail < p.stop \/ p.stop = 0
  OBVIOUS
<1>4. PICK stop : stop = IF closer THEN trail ELSE p.stop
  OBVIOUS
<1>5. PICK n : n = Replays!Trailed(p, c)
  OBVIOUS
<1>6. n = IF p.tp1 THEN [p EXCEPT !.trail = trail, !.stop = stop] ELSE p
  BY <1>1, <1>2, <1>3, <1>4, <1>5, Zenon DEF Replays!Trailed
<1>7. p.trail \in Int /\ p.stop \in Int
  BY DEF Stake
<1>8. new \in Int
  <2>1. Trail * Replays!Dir(p.side) \in Int
    <3>1. Replays!Dir(p.side) \in Int
      BY DEF Replays!Dir
    <3> QED BY <3>1, ReplayNumbers, WholeNumbers, Zenon
  <2>2. c.close \in Int
    BY ReplayNumbers
  <2> QED BY <1>1, <2>1, <2>2, WholeNumbers, Zenon
<1>9. trail \in Int
  BY <1>2, <1>7, <1>8 DEF Replays!Larger
<1>10. stop \in Int
  BY <1>4, <1>7, <1>9
<1>11. CASE p.tp1
  <2>1. n = [p EXCEPT !.trail = trail, !.stop = stop]
    BY <1>6, <1>11
  <2>2. n \in Stake /\ n.result = p.result /\ n.fees = p.fees
    BY <1>9, <1>10, <2>1 DEF Stake
  <2> QED BY <1>5, <2>2 DEF Worth
<1>12. CASE ~p.tp1
  BY <1>5, <1>6, <1>12
<1> QED BY <1>11, <1>12

(* One position on one candle, with the exit every tool has. *)
One(acc, old, c, limit, t) == Replays!ManagedOne(acc, old, c, limit, t, Replays!Close)

LEMMA OneKeeps ==
    ASSUME NEW a \in Account, NEW old \in Stake, NEW c \in Shapes, NEW limit, NEW t \in Int
    PROVE  Settles(One(a, old, c, limit, t), a, Worth(old))
<1>1. PICK p : p = [old EXCEPT !.held = @ + 1]
  OBVIOUS
<1>2. p \in Stake /\ Worth(p) = Worth(old) /\ p.stop \in Int
  <2>1. PICK held : held = old.held + 1
    OBVIOUS
  <2>2. held \in Int
    BY <2>1 DEF Stake
  <2>3. p = [old EXCEPT !.held = held]
    BY <1>1, <2>1
  <2> QED BY <2>2, <2>3 DEF Stake, Worth
<1>3. One(a, old, c, limit, t)
        = IF Replays!Late(p, c, limit) THEN Replays!Close(a, p, c.close, t)
          ELSE IF Replays!StopHit(p, c) THEN Replays!Close(a, p, p.stop, t)
          ELSE IF Replays!TakesProfit(p, c)
          THEN Replays!Kept(Replays!Exit(a, p, c.close, p.qty \div 2),
                            Replays!Trailed(Replays!Halved(p, c), c))
          ELSE Replays!Kept(a, Replays!Trailed(p, c))
  BY <1>1 DEF One, Replays!ManagedOne
<1>4. c.close \in Int
  BY ReplayNumbers
<1>5. /\ Settles(Replays!Close(a, p, c.close, t), a, Worth(old))
      /\ Settles(Replays!Close(a, p, p.stop, t), a, Worth(old))
  BY <1>2, <1>4, CloseKeeps
<1>6. Settles(Replays!Kept(a, Replays!Trailed(p, c)), a, Worth(old))
  BY <1>2, KeptKeeps, TrailedKeeps
<1>7. Settles(Replays!Kept(Replays!Exit(a, p, c.close, p.qty \div 2),
                           Replays!Trailed(Replays!Halved(p, c), c)), a, Worth(old))
  <2>1. PICK half : half = p.qty \div 2
    OBVIOUS
  <2>2. half \in Int
    <3>1. p.qty \in Int
      BY <1>2 DEF Stake
    <3> QED BY <2>1, <3>1, HalfIsWhole
  <2>3. PICK h : h = Replays!Halved(p, c)
    OBVIOUS
  <2>4. PICK k : k = Replays!Trailed(h, c)
    OBVIOUS
  <2>5. PICK x : x = Replays!Exit(a, p, c.close, half)
    OBVIOUS
  <2>6. PICK n : n = Replays!Kept(x, k)
    OBVIOUS
  <2>7. PICK g : g = Replays!Gain(p, c.close, half)
    OBVIOUS
  <2>8. PICK fee : fee = Fee * half
    OBVIOUS
  <2>9. g \in Int /\ fee \in Int
    BY <1>2, <1>4, <2>2, <2>7, <2>8, GainIsWhole, ReplayNumbers, WholeNumbers, Zenon
  <2>10. h \in Stake /\ h.result = p.result + g /\ h.fees = p.fees + fee
    BY <1>2, <2>1, <2>3, <2>7, <2>8, HalvedKeeps, Zenon
  <2>11. k \in Stake /\ Worth(k) = Worth(h)
    BY <2>4, <2>10, TrailedKeeps
  <2>12. x \in Account /\ x.equity = a.equity + g - fee /\ x.opens = a.opens /\ x.trades = a.trades
    <3>1. PICK close : close = c.close
      OBVIOUS
    <3>2. close \in Int
      BY <1>4, <3>1
    <3>3. /\ Replays!Exit(a, p, close, half) \in Account
          /\ Replays!Exit(a, p, close, half).equity
               = a.equity + Replays!Gain(p, close, half) - Fee * half
          /\ Replays!Exit(a, p, close, half).opens = a.opens
          /\ Replays!Exit(a, p, close, half).trades = a.trades
      BY <1>2, <2>2, <3>2, ExitKeeps
    <3> QED BY <2>5, <2>7, <2>8, <3>1, <3>3, Zenon
  <2>13. Settles(n, x, Worth(k))
    BY <2>6, <2>11, <2>12, KeptKeeps
  <2>14. Worth(k) = Worth(old) + g - fee
    <3>1. PICK res, paid : res = p.result /\ paid = p.fees
      OBVIOUS
    <3>2. res \in Int /\ paid \in Int
      BY <1>2, <3>1 DEF Stake
    <3>3. (res + g) - (paid + fee) = (res - paid) + g - fee
      BY <2>9, <3>2
    <3> QED BY <1>2, <2>10, <2>11, <3>1, <3>3, Zenon DEF Worth
  <2>15. Unexplained(x) = Unexplained(a) + g - fee
    <3>1. PICK eq, s, v : eq = a.equity /\ s = Total(Nets(a.trades)) /\ v = Total(Values(a.opens))
      OBVIOUS
    <3>2. eq \in Int /\ s \in Int /\ v \in Int
      BY <3>1, AccountNumbers
    <3>3. (eq + g - fee) - s - v = (eq - s - v) + g - fee
      BY <2>9, <3>2
    <3> QED BY <2>12, <3>1, <3>3, Zenon DEF Unexplained
  <2>16. Unexplained(n) = Unexplained(a) - Worth(old)
    <3>1. PICK u, w, v : u = Unexplained(a) /\ w = Worth(old) /\ v = Worth(k)
      OBVIOUS
    <3>2. u \in Int /\ w \in Int
      <4>1. Worth(p) \in Int
        BY <1>2 DEF Worth, Stake
      <4> QED BY <1>2, <3>1, <4>1, AccountNumbers
    <3>3. (u + g - fee) - (w + g - fee) = u - w
      BY <2>9, <3>2
    <3>4. Unexplained(n) = Unexplained(x) - Worth(k)
      BY <2>13 DEF Settles
    <3> QED BY <2>14, <2>15, <3>1, <3>3, <3>4, Zenon
  <2>17. n \in Account /\ Len(n.trades) >= Len(a.trades)
    BY <2>12, <2>13 DEF Settles
  <2> QED BY <2>1, <2>3, <2>4, <2>5, <2>6, <2>16, <2>17, Zenon DEF Settles
<1> QED BY <1>3, <1>5, <1>6, <1>7, Zenon

(* An account led through one step after another. *)
Led(f, start, step, n) ==
    /\ DOMAIN f = 0..n
    /\ f[0] = start
    /\ \A k \in 1..n : f[k] = step[k][f[k - 1]]

Leads(start, step, n) == \E f : f \in [0..n -> Account] /\ Led(f, start, step, n)

LEMMA LedExists ==
    ASSUME NEW n \in Nat, NEW start \in Account, NEW step \in [1..n -> [Account -> Account]]
    PROVE  Leads(start, step, n)
<1> DEFINE T == {k \in 0..n : ~Leads(start, step, k)}
<1> SUFFICES ASSUME T # {} PROVE FALSE
  OBVIOUS
<1>1. PICK x \in T : \A y \in T : x <= y
  <2>1. T \in SUBSET Nat
    OBVIOUS
  <2> QED BY <2>1, LeastNumber
<1>2. Leads(start, step, 0)
  <2>1. [k \in 0..0 |-> start] \in [0..0 -> Account]
    OBVIOUS
  <2>2. Led([k \in 0..0 |-> start], start, step, 0)
    BY DEF Led
  <2> QED BY <2>1, <2>2 DEF Leads
<1>3. x \in 1..n
  BY <1>2
<1>4. x - 1 \in 0..n /\ x - 1 \notin T
  BY <1>1, <1>3
<1>5. PICK f : f \in [0..(x - 1) -> Account] /\ Led(f, start, step, x - 1)
  BY <1>4 DEF Leads
<1>6. PICK last : last = step[x][f[x - 1]]
  OBVIOUS
<1>7. last \in Account
  <2>1. f[x - 1] \in Account
    BY <1>3, <1>5
  <2>2. step[x] \in [Account -> Account]
    BY <1>3
  <2> QED BY <1>6, <2>1, <2>2
<1>8. PICK g : g = [k \in 0..x |-> IF k = x THEN last ELSE f[k]]
  OBVIOUS
<1>9. g \in [0..x -> Account]
  <2>1. ASSUME NEW k \in 0..x PROVE (IF k = x THEN last ELSE f[k]) \in Account
    <3>1. CASE k = x
      BY <1>7, <3>1
    <3>2. CASE k # x
      <4>1. k \in 0..(x - 1)
        BY <1>3, <3>2
      <4> QED BY <1>5, <3>2, <4>1
    <3> QED BY <3>1, <3>2
  <2> QED BY <1>8, <2>1
<1>10. Led(g, start, step, x)
  <2>1. g[0] = start
    BY <1>3, <1>5, <1>8 DEF Led
  <2>2. ASSUME NEW k \in 1..x PROVE g[k] = step[k][g[k - 1]]
    <3>1. k \in 0..x /\ k - 1 \in 0..x /\ k - 1 # x
      BY <1>3
    <3>2. g[k - 1] = f[k - 1] /\ g[k] = IF k = x THEN last ELSE f[k]
      BY <1>8, <3>1
    <3>3. CASE k = x
      BY <1>6, <3>2, <3>3
    <3>4. CASE k # x
      <4>1. k \in 1..(x - 1)
        BY <1>3, <3>4
      <4>2. f[k] = step[k][f[k - 1]]
        BY <1>5, <4>1 DEF Led
      <4> QED BY <3>2, <3>4, <4>2
    <3> QED BY <3>3, <3>4
  <2> QED BY <1>9, <2>1, <2>2 DEF Led
<1>11. Leads(start, step, x)
  BY <1>9, <1>10 DEF Leads
<1> QED BY <1>1, <1>11

(* Every step that pays a value leaves the account short of their sum. *)
LEMMA LedPays ==
    ASSUME NEW n \in Nat, NEW start \in Account, NEW step, NEW f, Led(f, start, step, n),
           NEW v \in Seq(Int), n = Len(v), NEW sum, Running(sum, v, n),
           \A k \in 1..n, a \in Account : Settles(step[k][a], a, v[k])
    PROVE  Settles(f[n], start, sum[n])
<1> DEFINE T == {k \in 0..n : ~Settles(f[k], start, sum[k])}
<1> SUFFICES ASSUME T # {} PROVE FALSE
  OBVIOUS
<1>1. PICK x \in T : \A y \in T : x <= y
  <2>1. T \in SUBSET Nat
    OBVIOUS
  <2> QED BY <2>1, LeastNumber
<1>2. Settles(f[0], start, sum[0])
  <2>1. f[0] = start /\ sum[0] = 0
    BY DEF Led, Running
  <2>2. Unexplained(start) \in Int /\ Len(start.trades) \in Nat
    BY AccountNumbers
  <2>3. Unexplained(start) = Unexplained(start) - 0 /\ Len(start.trades) >= Len(start.trades)
    BY <2>2
  <2> QED BY <2>1, <2>3, Zenon DEF Settles
<1>3. x \in 1..n
  BY <1>2
<1>4. x - 1 \in 0..n /\ x - 1 \notin T
  BY <1>1, <1>3
<1>5. Settles(f[x - 1], start, sum[x - 1])
  BY <1>4
<1>6. f[x] = step[x][f[x - 1]]
  BY <1>3 DEF Led
<1>7. Settles(f[x], f[x - 1], v[x])
  <2>1. f[x - 1] \in Account
    BY <1>5 DEF Settles
  <2> QED BY <1>3, <1>6, <2>1
<1>8. sum[x] = sum[x - 1] + v[x] /\ sum[x] \in Int /\ sum[x - 1] \in Int
  BY <1>3 DEF Running
<1>9. Settles(f[x], start, sum[x])
  <2>1. PICK u, w, i, j : /\ u = Unexplained(start) /\ w = Unexplained(f[x])
                          /\ i = sum[x - 1] /\ j = v[x]
    OBVIOUS
  <2>2. w = (u - i) - j
    BY <1>5, <1>7, <2>1, Zenon DEF Settles
  <2>3. u \in Int /\ i \in Int /\ j \in Int
    <3>1. v[x] \in Int
      BY <1>3, ElementOfSeq
    <3> QED BY <1>8, <2>1, <3>1, AccountNumbers
  <2>4. Len(f[x].trades) >= Len(start.trades)
    <3>1. PICK l, m, o : /\ l = Len(start.trades) /\ m = Len(f[x - 1].trades)
                         /\ o = Len(f[x].trades)
      OBVIOUS
    <3>2. m >= l /\ o >= m
      BY <1>5, <1>7, <3>1, Zenon DEF Settles
    <3>3. f[x] \in Account /\ f[x - 1] \in Account
      BY <1>5, <1>7, Zenon DEF Settles
    <3>4. l \in Nat /\ m \in Nat /\ o \in Nat
      BY <3>1, <3>3, AccountNumbers
    <3>5. o >= l
      BY <3>2, <3>4
    <3> QED BY <3>1, <3>5, Zenon
  <2>5. w = u - (i + j)
    BY <2>2, <2>3
  <2> QED BY <1>7, <1>8, <2>1, <2>4, <2>5, Zenon DEF Settles
<1> QED BY <1>1, <1>9

(* The book after one candle, as every tool but for its time stop computes *)
(* it.                                                                     *)
Manage(book, c, limit, t) == Replays!Managed(book, c, limit, t, Replays!Close)

(* An account whose positions are taken away to be looked at one by one.   *)
LEMMA TakenAway ==
    ASSUME NEW a \in Account, NEW start, start = [a EXCEPT !.opens = <<>>]
    PROVE  /\ start \in Account /\ start.opens = <<>>
           /\ Unexplained(start) = Unexplained(a) + Total(Values(a.opens))
           /\ Len(start.trades) = Len(a.trades)
<1>1. <<>> \in Seq(Stake)
  BY EmptySeq
<1>2. start \in Account /\ start.opens = <<>> /\ start.trades = a.trades /\ start.equity = a.equity
  BY <1>1 DEF Account
<1>3. Total(Values(<<>>)) = 0
  <2>1. Values(<<>>) \in Seq(Int) /\ Len(Values(<<>>)) = 0
    BY <1>1, ValuesGrow, EmptySeq
  <2>2. Values(<<>>) = <<>>
    BY <2>1, EmptySeq
  <2> QED BY <2>2, TotalOfNone
<1>4. PICK eq, s, v : eq = a.equity /\ s = Total(Nets(a.trades)) /\ v = Total(Values(a.opens))
  OBVIOUS
<1>5. eq \in Int /\ s \in Int /\ v \in Int
  BY <1>4, AccountNumbers
<1>6. eq - s - 0 = (eq - s - v) + v
  BY <1>5
<1>7. Unexplained(start) = Unexplained(a) + Total(Values(a.opens))
  BY <1>2, <1>3, <1>4, <1>6, Zenon DEF Unexplained
<1> QED BY <1>2, <1>7

(* Where a recursion agrees with the steps it is led by them. *)
LEMMA LedIsUnique ==
    ASSUME NEW n \in Nat, NEW f, NEW g, f[0] = g[0],
           \A k \in 1..n : f[k - 1] = g[k - 1] => f[k] = g[k]
    PROVE  f[n] = g[n]
<1> DEFINE T == {k \in 0..n : f[k] # g[k]}
<1> SUFFICES ASSUME T # {} PROVE FALSE
  OBVIOUS
<1>1. PICK x \in T : \A y \in T : x <= y
  <2>1. T \in SUBSET Nat
    OBVIOUS
  <2> QED BY <2>1, LeastNumber
<1>2. x \in 1..n
  OBVIOUS
<1>3. x - 1 \in 0..n /\ x - 1 \notin T
  BY <1>1, <1>2
<1> QED BY <1>2, <1>3

(* Steps that pay one by one what the positions of an account are worth.   *)
LEMMA LedKeeps ==
    ASSUME NEW a \in Account, NEW n, n = Len(a.opens), NEW step, NEW f,
           Led(f, [a EXCEPT !.opens = <<>>], step, n),
           \A k \in 1..n, acc \in Account : Settles(step[k][acc], acc, Worth(a.opens[k]))
    PROVE  Settles(f[n], a, 0)
<1>1. PICK opens : opens = a.opens
  OBVIOUS
<1>2. PICK v : v = Values(opens)
  OBVIOUS
<1>3. PICK start : start = [a EXCEPT !.opens = <<>>]
  OBVIOUS
<1>4. n \in Nat /\ opens \in Seq(Stake) /\ DOMAIN opens = 1..n
  BY <1>1, AccountNumbers, LenProperties
<1>5. v \in Seq(Int) /\ n = Len(v) /\ \A k \in 1..n : v[k] = Worth(opens[k])
  <2>1. v \in Seq(Int) /\ n = Len(v)
    BY <1>1, <1>2, <1>4, ValuesGrow
  <2> QED BY <1>2, <1>4, <2>1 DEF Values, Worth
<1>6. start \in Account
  BY <1>3, TakenAway
<1>7. PICK sum : Running(sum, v, n)
  <2>1. Summable(v, n)
    BY <1>4, <1>5, RunningExists
  <2> QED BY <2>1 DEF Summable
<1>8. Settles(f[n], start, sum[n])
  <2>1. \A k \in 1..n, acc \in Account : Settles(step[k][acc], acc, v[k])
    BY <1>1, <1>5
  <2>2. Led(f, start, step, n)
    BY <1>3
  <2> QED BY <1>4, <1>5, <1>6, <1>7, <2>1, <2>2, LedPays
<1>9. sum[n] = Total(v)
  BY <1>5, <1>7, TotalIsRunning
<1>10. /\ Unexplained(start) = Unexplained(a) + Total(v)
       /\ Len(start.trades) = Len(a.trades)
  BY <1>1, <1>2, <1>3, TakenAway
<1>11. Unexplained(f[n]) = Unexplained(a) - 0
  <2>1. PICK u, s : u = Unexplained(a) /\ s = Total(v)
    OBVIOUS
  <2>2. u \in Int /\ s \in Int
    BY <1>5, <2>1, AccountNumbers, TotalIsWhole
  <2>3. (u + s) - s = u - 0
    BY <2>2
  <2> QED BY <1>8, <1>9, <1>10, <2>1, <2>3, Zenon DEF Settles
<1> QED BY <1>8, <1>10, <1>11, Zenon DEF Settles

(* One candle of management leaves unexplained what was: what the closed   *)
(* positions realised is in the trades.                                    *)
LEMMA ManageKeeps ==
    ASSUME NEW a \in Account, NEW c \in Shapes, NEW limit, NEW t \in Int
    PROVE  Settles(Manage(a, c, limit, t), a, 0)
<1>1. PICK opens : opens = a.opens
  OBVIOUS
<1>2. PICK n : n = Len(opens)
  OBVIOUS
<1>3. PICK start : start = [a EXCEPT !.opens = <<>>]
  OBVIOUS
<1>4. n \in Nat /\ \A k \in 1..n : opens[k] \in Stake
  BY <1>1, <1>2, AccountNumbers, LenProperties, ElementOfSeq
<1> DEFINE More(h) == [k \in 0..n |-> IF k = 0 THEN start
                                      ELSE One(h[k - 1], opens[k], c, limit, t)]
<1>5. PICK f : f = CHOOSE h : h = More(h)
  OBVIOUS
<1>6. Manage(a, c, limit, t) = f[n]
  BY <1>1, <1>2, <1>3, <1>5 DEF Manage, Replays!Managed, One
<1>7. PICK step : step = [k \in 1..n |-> [acc \in Account |-> One(acc, opens[k], c, limit, t)]]
  OBVIOUS
<1>8. \A k \in 1..n, acc \in Account : step[k][acc] = One(acc, opens[k], c, limit, t)
  BY <1>7
<1>9. \A k \in 1..n, acc \in Account : Settles(step[k][acc], acc, Worth(opens[k]))
  BY <1>4, <1>8, OneKeeps
<1>10. step \in [1..n -> [Account -> Account]]
  <2>1. \A k \in 1..n, acc \in Account : One(acc, opens[k], c, limit, t) \in Account
    BY <1>4, OneKeeps DEF Settles
  <2> QED BY <1>7, <2>1
<1>11. start \in Account
  BY <1>3, TakenAway
<1>12. PICK g : g \in [0..n -> Account] /\ Led(g, start, step, n)
  BY <1>4, <1>10, <1>11, LedExists DEF Leads
<1>13. \A k \in 1..n : g[k] = One(g[k - 1], opens[k], c, limit, t)
  <2>1. \A k \in 1..n : k - 1 \in 0..n
    BY <1>4
  <2> QED BY <1>8, <1>12, <2>1 DEF Led
<1>14. g = More(g)
  BY <1>12, <1>13 DEF Led
<1>15. f = More(f)
  BY <1>5, <1>14
<1>16. f[0] = start /\ \A k \in 1..n : f[k] = One(f[k - 1], opens[k], c, limit, t)
  BY <1>4, <1>15
<1>17. f[n] = g[n]
  <2>1. f[0] = g[0]
    BY <1>12, <1>16 DEF Led
  <2>2. \A k \in 1..n : f[k - 1] = g[k - 1] => f[k] = g[k]
    BY <1>13, <1>16
  <2> QED BY <1>4, <2>1, <2>2, LedIsUnique
<1>18. Settles(g[n], a, 0)
  BY <1>1, <1>2, <1>3, <1>9, <1>12, LedKeeps
<1> QED BY <1>6, <1>17, <1>18, Zenon

(* What the end of the data does. *)
Ended(book, x, t) == Replays!Finished(book, x, t, Replays!Close)

(* The end of the data leaves unexplained what was, and nothing open.      *)
LEMMA EndedKeeps ==
    ASSUME NEW a \in Account, NEW x \in Int, NEW t \in Int
    PROVE  Settles(Ended(a, x, t), a, 0) /\ Ended(a, x, t).opens = <<>>
<1>1. PICK opens : opens = a.opens
  OBVIOUS
<1>2. PICK n : n = Len(opens)
  OBVIOUS
<1>3. PICK start : start = [a EXCEPT !.opens = <<>>]
  OBVIOUS
<1>4. n \in Nat /\ \A k \in 1..n : opens[k] \in Stake
  BY <1>1, <1>2, AccountNumbers, LenProperties, ElementOfSeq
<1> DEFINE More(h) == [k \in 0..n |-> IF k = 0 THEN start
                                      ELSE Replays!Close(h[k - 1], opens[k], x, t)]
<1>5. PICK f : f = CHOOSE h : h = More(h)
  OBVIOUS
<1>6. Ended(a, x, t) = f[n]
  BY <1>1, <1>2, <1>3, <1>5 DEF Ended, Replays!Finished
<1>7. PICK step : step = [k \in 1..n |-> [acc \in Account |-> Replays!Close(acc, opens[k], x, t)]]
  OBVIOUS
<1>8. \A k \in 1..n, acc \in Account : step[k][acc] = Replays!Close(acc, opens[k], x, t)
  BY <1>7
<1>9. \A k \in 1..n, acc \in Account : Settles(step[k][acc], acc, Worth(opens[k]))
  BY <1>4, <1>8, CloseKeeps
<1>10. step \in [1..n -> [Account -> Account]]
  <2>1. \A k \in 1..n, acc \in Account : Replays!Close(acc, opens[k], x, t) \in Account
    BY <1>4, CloseKeeps DEF Settles
  <2> QED BY <1>7, <2>1
<1>11. start \in Account /\ start.opens = <<>>
  BY <1>3, TakenAway
<1>12. PICK g : g \in [0..n -> Account] /\ Led(g, start, step, n)
  BY <1>4, <1>10, <1>11, LedExists DEF Leads
<1>13. \A k \in 1..n : g[k] = Replays!Close(g[k - 1], opens[k], x, t)
  <2>1. \A k \in 1..n : k - 1 \in 0..n
    BY <1>4
  <2> QED BY <1>8, <1>12, <2>1 DEF Led
<1>14. g = More(g)
  BY <1>12, <1>13 DEF Led
<1>15. f = More(f)
  BY <1>5, <1>14
<1>16. f[0] = start /\ \A k \in 1..n : f[k] = Replays!Close(f[k - 1], opens[k], x, t)
  BY <1>4, <1>15
<1>17. f[n] = g[n]
  <2>1. f[0] = g[0]
    BY <1>12, <1>16 DEF Led
  <2>2. \A k \in 1..n : f[k - 1] = g[k - 1] => f[k] = g[k]
    BY <1>13, <1>16
  <2> QED BY <1>4, <2>1, <2>2, LedIsUnique
<1>18. Settles(g[n], a, 0)
  BY <1>1, <1>2, <1>3, <1>9, <1>12, LedKeeps
<1>19. g[n].opens = <<>>
  <2> DEFINE T == {k \in 0..n : g[k].opens # <<>>}
  <2> SUFFICES ASSUME T # {} PROVE FALSE
    BY <1>4
  <2>1. PICK k \in T : \A y \in T : k <= y
    <3>1. T \in SUBSET Nat
      OBVIOUS
    <3> QED BY <3>1, LeastNumber
  <2>2. k \in 1..n
    BY <1>11, <1>12 DEF Led
  <2>3. k - 1 \in 0..n /\ k - 1 \notin T
    BY <1>4, <2>1, <2>2
  <2>4. g[k].opens = g[k - 1].opens
    <3>1. g[k - 1] \in Account /\ opens[k] \in Stake
      BY <1>4, <1>12, <2>2, <2>3
    <3> QED BY <1>13, <2>2, <3>1, CloseKeeps
  <2> QED BY <2>3, <2>4
<1> QED BY <1>6, <1>17, <1>18, <1>19, Zenon

LEMMA DirIsWhole == \A side : Replays!Dir(side) \in Int
BY DEF Replays!Dir

(* An entry costs its fee, and the position says so. *)
LEMMA SizedKeeps ==
    ASSUME NEW a \in Account, NEW sig, sig.side \in {"long", "short"}, NEW gap \in Int,
           NEW c \in Shapes, NEW t \in 1..Length, NEW reduced
    PROVE  Settles(Replays!Sized(a, sig, gap, c, t, reduced), a, 0)
<1>1. PICK qty : qty = Replays!Quantity(reduced)
  OBVIOUS
<1>2. PICK fee : fee = Fee * qty
  OBVIOUS
<1>3. PICK dir : dir = Replays!Dir(sig.side)
  OBVIOUS
<1>4. PICK stop : stop = c.close - gap * dir
  OBVIOUS
<1>5. PICK entry : entry = c.close + Slip * dir
  OBVIOUS
<1>6. PICK p : p = [side |-> sig.side, entry |-> entry, qty |-> qty, orig |-> qty,
                    stop |-> stop, initial |-> stop, tp1 |-> FALSE, trail |-> 0, held |-> 0,
                    result |-> 0, fees |-> fee, since |-> t]
  OBVIOUS
<1>7. PICK more : more = Append(a.opens, p)
  OBVIOUS
<1>8. PICK eq : eq = a.equity - fee
  OBVIOUS
<1>9. PICK n : n = Replays!Sized(a, sig, gap, c, t, reduced)
  OBVIOUS
<1>10. n = [a EXCEPT !.equity = eq, !.opens = more]
  BY <1>1, <1>2, <1>3, <1>4, <1>5, <1>6, <1>7, <1>8, <1>9, Zenon
     DEF Replays!Sized, Replays!Enter, Replays!Opened, Replays!EntryPrice
<1>11. qty \in Int
  <2>1. Whole \div 2 \in Int /\ Whole \in Int
    BY ReplayNumbers, HalfIsWhole, Zenon
  <2> QED BY <1>1, <2>1, Zenon DEF Replays!Quantity
<1>12. fee \in Int /\ dir \in Int /\ stop \in Int /\ entry \in Int
  <2>1. fee \in Int
    BY <1>2, <1>11, ReplayNumbers, WholeNumbers, Zenon
  <2>2. dir \in Int
    BY <1>3, DirIsWhole
  <2>3. gap * dir \in Int /\ Slip * dir \in Int
    BY <2>2, ReplayNumbers, WholeNumbers, Zenon
  <2>4. c.close \in Int
    BY ReplayNumbers
  <2> QED BY <1>4, <1>5, <2>1, <2>2, <2>3, <2>4, WholeNumbers, Zenon
<1>13. p \in Stake /\ p.result = 0 /\ p.fees = fee
  BY <1>6, <1>11, <1>12 DEF Stake
<1>14. more \in Seq(Stake)
  BY <1>7, <1>13, AccountNumbers, AppendProperties
<1>15. eq \in Int
  BY <1>8, <1>12, AccountNumbers
<1>16. n \in Account /\ n.equity = eq /\ n.trades = a.trades /\ n.opens = more
  BY <1>10, <1>14, <1>15 DEF Account
<1>17. Unexplained(n) = Unexplained(a) - 0
  <2>1. PICK before, s, v : /\ before = a.equity
                            /\ s = Total(Nets(a.trades)) /\ v = Total(Values(a.opens))
    OBVIOUS
  <2>2. before \in Int /\ s \in Int /\ v \in Int
    BY <2>1, AccountNumbers
  <2>3. Total(Values(more)) = v + (0 - fee)
    BY <1>7, <1>13, <2>1, AccountNumbers, ValuesGrow
  <2>4. (before - fee) - s - (v + (0 - fee)) = (before - s - v) - 0
    BY <1>12, <2>2
  <2> QED BY <1>8, <1>16, <2>1, <2>3, <2>4, Zenon DEF Unexplained
<1>18. Len(n.trades) >= Len(a.trades)
  BY <1>16, AccountNumbers
<1> QED BY <1>9, <1>16, <1>17, <1>18, Zenon DEF Settles

(* The tally of the trades that have been counted. *)
Counts(y, n) == "counted" \in DOMAIN y /\ y.counted = n

LEMMA CountKept ==
    ASSUME NEW y, NEW n, Counts(y, n), NEW v
    PROVE  /\ Counts([y EXCEPT !.losses = v], n)
           /\ Counts([y EXCEPT !.lost = v], n)
           /\ Counts([y EXCEPT !.reduced = v], n)
           /\ Counts([y EXCEPT !.when = v], n)
           /\ Counts([y EXCEPT !.counted = v], v)
BY DEF Counts

(* The tally of a tool with a daily limit has counted every trade. *)
LEMMA DayCounts ==
    ASSUME NEW book, NEW t, NEW n, Counts(tally, n)
    PROVE  Counts(Replays!DayTally(book, t), Len(book.trades))
<1>1. PICK y : y = Replays!Dated(tally, t)
  OBVIOUS
<1>2. Counts(y, n)
  BY <1>1, CountKept DEF Replays!Dated
<1>3. PICK l : l = Len(book.trades)
  OBVIOUS
<1>4. PICK z : z = Replays!Counted(y, book.trades)
  OBVIOUS
<1>5. Counts(z, l)
  <2>1. PICK run, loss : z = [y EXCEPT !.counted = l, !.losses = run, !.lost = loss]
    BY <1>3, <1>4, Zenon DEF Replays!Counted
  <2>2. PICK y1 : y1 = [y EXCEPT !.counted = l]
    OBVIOUS
  <2>3. PICK y2 : y2 = [y1 EXCEPT !.losses = run]
    OBVIOUS
  <2>4. z = [y2 EXCEPT !.lost = loss]
    BY <2>1, <2>2, <2>3
  <2>5. Counts(y1, l)
    BY <1>2, <2>2, CountKept
  <2>6. Counts(y2, l)
    BY <2>3, <2>5, CountKept
  <2> QED BY <2>4, <2>6, CountKept
<1>6. Counts(Replays!Adjusted(z, book), l)
  <2>1. /\ Counts([z EXCEPT !.reduced = TRUE], l)
        /\ Counts([z EXCEPT !.reduced = FALSE], l)
    BY <1>5, CountKept
  <2>2. \/ Replays!Adjusted(z, book) = [z EXCEPT !.reduced = TRUE]
        \/ Replays!Adjusted(z, book) = [z EXCEPT !.reduced = FALSE]
        \/ Replays!Adjusted(z, book) = z
    BY Zenon DEF Replays!Adjusted
  <2> QED BY <1>5, <2>1, <2>2, Zenon
<1> QED BY <1>1, <1>3, <1>4, <1>6, Zenon DEF Replays!DayTally

(* So has that of the swing tool. *)
LEMMA SwingCounts ==
    ASSUME NEW log, NEW n, Counts(tally, n)
    PROVE  Counts(Replays!LossTimes(tally, log), Len(log))
<1>1. PICK times : Replays!LossTimes(tally, log)
                     = [tally EXCEPT !.when = times, !.counted = Len(log)]
  BY Zenon DEF Replays!LossTimes
<1>2. PICK y : y = [tally EXCEPT !.when = times]
  OBVIOUS
<1>3. Counts(y, n)
  BY <1>2, CountKept
<1>4. Replays!LossTimes(tally, log) = [y EXCEPT !.counted = Len(log)]
  BY <1>1, <1>2
<1> QED BY <1>3, <1>4, CountKept

(* What a candle of a tool gives: nothing new is unexplained, and it has   *)
(* not counted more trades than there are.                                 *)
Sound(r) ==
    /\ Settles(r.book, b, 0)
    /\ \E n \in 0..Len(r.book.trades) : Counts(r.tally, n)

LEMMA SettlesTwice ==
    ASSUME NEW x, NEW y, NEW z \in Account, Settles(y, z, 0), Settles(x, y, 0)
    PROVE  Settles(x, z, 0)
<1>1. PICK u, v, w : u = Unexplained(x) /\ v = Unexplained(y) /\ w = Unexplained(z)
  OBVIOUS
<1>2. w \in Int /\ v = w - 0 /\ u = v - 0
  BY <1>1, AccountNumbers DEF Settles
<1>3. u = w - 0
  BY <1>2
<1>4. x \in Account /\ y \in Account
  BY DEF Settles
<1>5. PICK i, j, k : i = Len(x.trades) /\ j = Len(y.trades) /\ k = Len(z.trades)
  OBVIOUS
<1>6. i \in Nat /\ j \in Nat /\ k \in Nat
  BY <1>4, <1>5, AccountNumbers
<1>7. i >= j /\ j >= k
  BY <1>5, Zenon DEF Settles
<1>8. i >= k
  BY <1>6, <1>7
<1> QED BY <1>1, <1>3, <1>4, <1>5, <1>8, Zenon DEF Settles

(* A candle manages what is open and then enters a position or does not;   *)
(* the tally has counted the trades so far, or those before the candle.    *)
LEMMA CandleIsSound ==
    ASSUME b \in Account, NEW c \in Shapes, NEW limit, NEW t \in 1..Length, NEW book,
           book = Manage(b, c, limit, t),
           NEW y, NEW counted, Counts(y, counted), counted \in {tally.counted, Len(book.trades)},
           tally.counted \in 0..Len(b.trades),
           NEW sig, NEW gap, NEW reduced, NEW enters \in BOOLEAN, NEW r,
           enters => sig.side \in {"long", "short"} /\ gap \in Int,
           \/ r = Replays!Goes(book, y)
           \/ r = Replays!Breaks(book, y)
           \/ enters /\ r = Replays!Goes(Replays!Sized(book, sig, gap, c, t, reduced), y)
    PROVE  Sound(r)
<1>1. t \in Int
  OBVIOUS
<1>2. Settles(book, b, 0)
  BY <1>1, ManageKeeps
<1>3. book \in Account
  BY <1>2 DEF Settles
<1>4. Settles(r.book, b, 0) /\ r.tally = y /\ Len(r.book.trades) >= Len(book.trades)
  <2>1. CASE r = Replays!Goes(book, y) \/ r = Replays!Breaks(book, y)
    <3>1. r.book = book /\ r.tally = y
      BY <2>1 DEF Replays!Goes, Replays!Breaks
    <3> QED BY <1>2, <1>3, <3>1, AccountNumbers
  <2>2. CASE enters /\ r = Replays!Goes(Replays!Sized(book, sig, gap, c, t, reduced), y)
    <3>1. PICK more : more = Replays!Sized(book, sig, gap, c, t, reduced)
      OBVIOUS
    <3>2. r.book = more /\ r.tally = y
      BY <2>2, <3>1 DEF Replays!Goes
    <3>3. Settles(more, book, 0)
      BY <1>3, <2>2, <3>1, SizedKeeps
    <3>4. Settles(more, b, 0) /\ Len(more.trades) >= Len(book.trades)
      BY <1>2, <3>3, SettlesTwice DEF Settles
    <3> QED BY <3>2, <3>4
  <2> QED BY <2>1, <2>2
<1>5. counted \in 0..Len(r.book.trades)
  <2>1. PICK i, j, k : i = Len(b.trades) /\ j = Len(book.trades) /\ k = Len(r.book.trades)
    OBVIOUS
  <2>2. i \in Nat /\ j \in Nat /\ k \in Nat
    <3>1. r.book \in Account
      BY <1>4 DEF Settles
    <3> QED BY <1>3, <2>1, <3>1, AccountNumbers
  <2>3. j >= i
    BY <1>2, <2>1 DEF Settles
  <2>4. k >= j
    BY <1>4, <2>1
  <2>5. counted \in 0..i \/ counted = j
    BY <2>1
  <2>6. counted \in 0..k
    BY <2>2, <2>3, <2>4, <2>5
  <2> QED BY <2>1, <2>6
<1> QED BY <1>4, <1>5 DEF Sound

(* The side and the distance of a signal. *)
LEMMA SignalHasSide ==
    ASSUME NEW m \in Markets, m.sig # NoPosition
    PROVE  m.sig.side \in {"long", "short"} /\ m.sig.gap \in Int
BY ReplayAssumption

LEMMA WideIsWhole ==
    ASSUME variant \in Replays!Variants(tool)
    PROVE  variant.wide \in Int
BY DEF Replays!Variants, Replays!VariantParams

(* A candle of a tool with one position and a limit of the day. *)
DayGives(r, c, sig, gap, t) ==
    LET book == Manage(b, c, TimeStop, t)
        y == Replays!DayTally(book, t)
    IN \/ r = Replays!Goes(book, y)
       \/ r = Replays!Breaks(book, y)
       \/ /\ sig # NoPosition
          /\ r = Replays!Goes(Replays!Sized(book, sig, gap, c, t, y.reduced), y)

(* What the candles of a replay start from. *)
BookCounted == \E k \in 0..Len(b.trades) : Counts(tally, k)

LEMMA DayIsSound ==
    ASSUME b \in Account, BookCounted, NEW c \in Shapes, NEW m \in Markets, NEW t \in 1..Length,
           NEW gap, m.sig # NoPosition => gap \in Int,
           NEW r, DayGives(r, c, m.sig, gap, t)
    PROVE  Sound(r)
<1>1. PICK book : book = Manage(b, c, TimeStop, t)
  OBVIOUS
<1>2. PICK y : y = Replays!DayTally(book, t)
  OBVIOUS
<1>3. PICK enters : enters = (m.sig # NoPosition) /\ enters \in BOOLEAN
  OBVIOUS
<1>4. enters => m.sig.side \in {"long", "short"} /\ gap \in Int
  BY <1>3, SignalHasSide
<1>5. \/ r = Replays!Goes(book, y)
      \/ r = Replays!Breaks(book, y)
      \/ enters /\ r = Replays!Goes(Replays!Sized(book, m.sig, gap, c, t, y.reduced), y)
  BY <1>1, <1>2, <1>3, Zenon DEF DayGives
<1>6. PICK k : k \in 0..Len(b.trades) /\ Counts(tally, k)
  BY DEF BookCounted
<1>7. Counts(y, Len(book.trades)) /\ tally.counted \in 0..Len(b.trades)
  BY <1>2, <1>6, DayCounts DEF Counts
<1> QED BY <1>1, <1>3, <1>4, <1>5, <1>7, CandleIsSound

(* Each of the seven tools gives a sound candle. *)
LEMMA ToolIsSound ==
    ASSUME b \in Account, BookCounted, tool \in Tools, variant \in Replays!Variants(tool),
           NEW c \in Shapes, NEW m \in Markets, NEW t \in 1..Length
    PROVE  Sound(Replays!CandleOf(c, m, t))
<1>1. m.sig # NoPosition => m.sig.gap \in Int /\ m.sig.gap + variant.wide \in Int
  BY SignalHasSide, WideIsWhole, WholeNumbers
<1>2. CASE tool = "sweep"
  <2>1. Replays!SweepManaged(c, t) = Manage(b, c, TimeStop, t)
    BY DEF Replays!SweepManaged, Manage, Replays!Managed, Replays!ManagedOne, Replays!SweepClose
  <2>2. DayGives(Replays!SweepCandle(c, m, t), c, m.sig, m.sig.gap + variant.wide, t)
    BY <2>1, Zenon DEF DayGives, Replays!SweepCandle, Replays!SweepAllows, Replays!SweepEnter,
                       Replays!SweepTally
  <2> QED BY <1>1, <1>2, <2>2, DayIsSound DEF Replays!CandleOf
<1>3. CASE tool = "btc"
  <2>1. Replays!BtcManaged(c, t) = Manage(b, c, TimeStop, t)
    BY DEF Replays!BtcManaged, Manage, Replays!Managed, Replays!ManagedOne, Replays!BtcClose
  <2>2. DayGives(Replays!BtcCandle(c, m, t), c, m.sig, m.sig.gap + variant.wide, t)
    BY <2>1, Zenon DEF DayGives, Replays!BtcCandle, Replays!BtcAllows, Replays!BtcEnter,
                       Replays!BtcTally
  <2> QED BY <1>1, <1>3, <2>2, DayIsSound DEF Replays!CandleOf
<1>4. CASE tool = "fast"
  <2>1. Replays!FastManaged(c, t) = Manage(b, c, TimeStop, t)
    BY DEF Replays!FastManaged, Manage, Replays!Managed, Replays!ManagedOne, Replays!FastClose
  <2>2. DayGives(Replays!FastCandle(c, m, t), c, m.sig, m.sig.gap + variant.wide, t)
    BY <2>1, Zenon DEF DayGives, Replays!FastCandle, Replays!FastAllows, Replays!FastEnter,
                       Replays!FastTally
  <2> QED BY <1>1, <1>4, <2>2, DayIsSound DEF Replays!CandleOf
<1>5. CASE tool = "full"
  <2>1. Replays!FullManaged(c, t) = Manage(b, c, TimeStop, t)
    BY DEF Replays!FullManaged, Manage, Replays!Managed, Replays!ManagedOne, Replays!FullClose
  <2>2. DayGives(Replays!FullCandle(c, m, t), c, m.sig, m.sig.gap, t)
    BY <2>1, Zenon DEF DayGives, Replays!FullCandle, Replays!FullAllows, Replays!FullEnter,
                       Replays!FullTally
  <2> QED BY <1>1, <1>5, <2>2, DayIsSound DEF Replays!CandleOf
<1>6. CASE tool = "extended"
  <2>1. Replays!ExtendedManaged(c, t) = Manage(b, c, TimeStop, t)
    BY DEF Replays!ExtendedManaged, Manage, Replays!Managed, Replays!ManagedOne,
           Replays!ExtendedClose
  <2>2. DayGives(Replays!ExtendedCandle(c, m, t), c, m.sig, m.sig.gap, t)
    BY <2>1, Zenon DEF DayGives, Replays!ExtendedCandle, Replays!ExtendedAllows,
                       Replays!ExtendedEnter, Replays!ExtendedTally
  <2> QED BY <1>1, <1>6, <2>2, DayIsSound DEF Replays!CandleOf
<1>7. PICK enters : enters = (m.sig # NoPosition) /\ enters \in BOOLEAN
  OBVIOUS
<1>8. enters => m.sig.side \in {"long", "short"} /\ m.sig.gap \in Int
  BY <1>7, SignalHasSide
<1>9. PICK book : book = Manage(b, c, LongStop, t)
  OBVIOUS
<1>10. PICK k : k \in 0..Len(b.trades) /\ Counts(tally, k)
  BY DEF BookCounted
<1>11. tally.counted = k
  BY <1>10 DEF Counts
<1>12. CASE tool = "continuation"
  <2>1. Replays!ContinuationManaged(c, t) = book
    BY <1>9 DEF Replays!ContinuationManaged, Manage, Replays!Managed, Replays!ManagedOne,
                Replays!ContinuationClose
  <2>2. PICK r : r = Replays!ContinuationCandle(c, m, t)
    OBVIOUS
  <2>3. \/ r = Replays!Goes(book, tally)
        \/ r = Replays!Breaks(book, tally)
        \/ enters /\ r = Replays!Goes(Replays!Sized(book, m.sig, m.sig.gap, c, t, FALSE), tally)
    BY <1>7, <2>1, <2>2, Zenon
       DEF Replays!ContinuationCandle, Replays!ContinuationAllows, Replays!ContinuationEnter
  <2>4. Sound(r)
    BY <1>7, <1>8, <1>9, <1>10, <1>11, <2>3, CandleIsSound
  <2> QED BY <1>12, <2>2, <2>4 DEF Replays!CandleOf
<1>13. CASE tool = "swing"
  <2>1. Replays!SwingManaged(c, t) = book
    BY <1>9 DEF Replays!SwingManaged, Manage, Replays!Managed, Replays!ManagedOne,
                Replays!SwingClose
  <2>2. PICK r : r = Replays!SwingCandle(c, m, t)
    OBVIOUS
  <2>3. PICK y : y = Replays!LossTimes(tally, book.trades)
    OBVIOUS
  <2>4. PICK halved : halved = (variant.risk = "half_weak" /\ ~m.strong)
    OBVIOUS
  <2>5. \/ r = Replays!Goes(book, y)
        \/ r = Replays!Breaks(book, y)
        \/ enters /\ r = Replays!Goes(Replays!Sized(book, m.sig, m.sig.gap, c, t, halved), y)
    BY <1>7, <2>1, <2>2, <2>3, <2>4, Zenon
       DEF Replays!SwingCandle, Replays!SwingAllows, Replays!SwingEnter
  <2>6. Counts(y, Len(book.trades))
    BY <1>10, <2>3, SwingCounts
  <2>7. Sound(r)
    BY <1>7, <1>8, <1>9, <1>10, <1>11, <2>5, <2>6, CandleIsSound
  <2> QED BY <1>13, <2>2, <2>7 DEF Replays!CandleOf
<1> QED BY <1>2, <1>3, <1>4, <1>5, <1>6, <1>12, <1>13, ReplayAssumption

(* What a tool does at the end of the data. *)
LEMMA ToolEnds ==
    ASSUME tool \in Tools, NEW x
    PROVE  Replays!FinishedBy(x) = Ended(b, x, Length)
<1>1. /\ Replays!SweepFinished(x) = Ended(b, x, Length)
      /\ Replays!BtcFinished(x) = Ended(b, x, Length)
      /\ Replays!FastFinished(x) = Ended(b, x, Length)
      /\ Replays!FullFinished(x) = Ended(b, x, Length)
  BY DEF Ended, Replays!Finished, Replays!SweepFinished, Replays!BtcFinished,
         Replays!FastFinished, Replays!FullFinished,
         Replays!SweepClose, Replays!BtcClose, Replays!FastClose, Replays!FullClose
<1>2. /\ Replays!ExtendedFinished(x) = Ended(b, x, Length)
      /\ Replays!ContinuationFinished(x) = Ended(b, x, Length)
      /\ Replays!SwingFinished(x) = Ended(b, x, Length)
  BY DEF Ended, Replays!Finished, Replays!ExtendedFinished, Replays!ContinuationFinished,
         Replays!SwingFinished, Replays!ExtendedClose, Replays!ContinuationClose,
         Replays!SwingClose
<1> QED BY <1>1, <1>2, ReplayAssumption DEF Replays!FinishedBy

(* Running sums add up pointwise. *)
LEMMA TotalsAdd ==
    ASSUME NEW n \in Nat, NEW u \in Seq(Int), NEW v \in Seq(Int), NEW w \in Seq(Int),
           Len(u) = n, Len(v) = n, Len(w) = n, \A k \in 1..n : u[k] = v[k] + w[k]
    PROVE  Total(u) = Total(v) + Total(w)
<1>1. Summable(v, n) /\ Summable(w, n)
  BY RunningExists
<1>2. PICK f, g : Running(f, v, n) /\ Running(g, w, n)
  BY <1>1 DEF Summable
<1>3. PICK h : h = [k \in 0..n |-> f[k] + g[k]]
  OBVIOUS
<1>4. Running(h, u, n)
  <2>1. /\ \A k \in 0..n : f[k] \in Int /\ g[k] \in Int
        /\ f[0] = 0 /\ g[0] = 0
    BY <1>2 DEF Running
  <2>2. h \in [0..n -> Int] /\ h[0] = 0
    BY <1>3, <2>1
  <2>3. ASSUME NEW k \in 1..n PROVE h[k] = h[k - 1] + u[k]
    <3>1. k \in 0..n /\ k - 1 \in 0..n
      OBVIOUS
    <3>2. f[k] = f[k - 1] + v[k] /\ g[k] = g[k - 1] + w[k]
      BY <1>2 DEF Running
    <3>3. v[k] \in Int /\ w[k] \in Int
      BY ElementOfSeq
    <3>4. PICK i, j, x, y : i = f[k - 1] /\ j = g[k - 1] /\ x = v[k] /\ y = w[k]
      OBVIOUS
    <3>5. i \in Int /\ j \in Int /\ x \in Int /\ y \in Int
      BY <2>1, <3>1, <3>3, <3>4
    <3>6. (i + x) + (j + y) = (i + j) + (x + y)
      BY <3>5
    <3>7. h[k] = f[k] + g[k] /\ h[k - 1] = f[k - 1] + g[k - 1]
      BY <1>3, <3>1
    <3> QED BY <3>2, <3>4, <3>6, <3>7, Zenon
  <2> QED BY <2>2, <2>3 DEF Running
<1>5. Total(u) = h[n] /\ Total(v) = f[n] /\ Total(w) = g[n]
  BY <1>2, <1>4, TotalIsRunning
<1> QED BY <1>3, <1>5

(* The results of two samples that share nothing and leave nothing out.    *)
Splits(log, in, out) == in \cup out = DOMAIN log /\ in \cap out = {}

LEMMA LoggedNumbers ==
    ASSUME NEW log \in Seq(Outcome)
    PROVE  \A k \in DOMAIN log : log[k].net \in Int /\ log[k].since \in 1..Length
<1>1. \A k \in DOMAIN log : log[k] \in Outcome
  BY LenProperties, ElementOfSeq
<1>2. \A o \in Outcome : o.net \in Int /\ o.since \in 1..Length
  BY DEF Outcome
<1> QED BY <1>1, <1>2

LEMMA ResultsAreWhole ==
    ASSUME NEW log \in Seq(Outcome), NEW sample
    PROVE  /\ Replays!Results(log, sample) \in Seq(Int)
           /\ Len(Replays!Results(log, sample)) = Len(log)
<1>1. PICK n : n = Len(log)
  OBVIOUS
<1>2. n \in Nat /\ DOMAIN log = 1..n /\ \A k \in 1..n : log[k].net \in Int
  BY <1>1, LenProperties, LoggedNumbers
<1>3. PICK v : v = [k \in 1..n |-> IF k \in sample THEN log[k].net ELSE 0]
  OBVIOUS
<1>4. \A k \in 1..n : (IF k \in sample THEN log[k].net ELSE 0) \in Int
  BY <1>2
<1>5. v \in Seq(Int) /\ Len(v) = n
  BY <1>2, <1>3, <1>4
<1> QED BY <1>1, <1>2, <1>3, <1>5 DEF Replays!Results

LEMMA SplitsAddUp ==
    ASSUME NEW log \in Seq(Outcome), NEW in, NEW out, Splits(log, in, out)
    PROVE  /\ Total(Replays!Results(log, DOMAIN log)) = Total(Nets(log))
           /\ Total(Nets(log)) = Total(Replays!Results(log, in)) + Total(Replays!Results(log, out))
           /\ Cardinality(DOMAIN log) = Cardinality(in) + Cardinality(out)
<1>1. PICK n : n = Len(log)
  OBVIOUS
<1>2. n \in Nat /\ DOMAIN log = 1..n
  BY <1>1, LenProperties
<1>3. \A k \in 1..n : log[k].net \in Int
  BY <1>2, LoggedNumbers
<1>4. Replays!Results(log, DOMAIN log) = Nets(log)
  BY DEF Replays!Results, Nets
<1>5. Total(Nets(log)) = Total(Replays!Results(log, in)) + Total(Replays!Results(log, out))
  <2>1. PICK u, v, w : /\ u = Nets(log)
                       /\ v = Replays!Results(log, in) /\ w = Replays!Results(log, out)
    OBVIOUS
  <2>2. /\ u \in Seq(Int) /\ v \in Seq(Int) /\ w \in Seq(Int)
        /\ Len(u) = n /\ Len(v) = n /\ Len(w) = n
    BY <1>1, <1>4, <2>1, ResultsAreWhole
  <2>3. ASSUME NEW k \in 1..n PROVE u[k] = v[k] + w[k]
    <3>1. /\ u[k] = log[k].net
          /\ v[k] = IF k \in in THEN log[k].net ELSE 0
          /\ w[k] = IF k \in out THEN log[k].net ELSE 0
      BY <1>2, <2>1 DEF Nets, Replays!Results
    <3>2. (k \in in /\ k \notin out) \/ (k \notin in /\ k \in out)
      BY <1>2 DEF Splits
    <3>3. log[k].net \in Int
      BY <1>3
    <3> QED BY <3>1, <3>2, <3>3
  <2> QED BY <1>2, <2>1, <2>2, <2>3, TotalsAdd
<1>6. Cardinality(DOMAIN log) = Cardinality(in) + Cardinality(out)
  <2>1. IsFiniteSet(DOMAIN log)
    BY <1>2, FS_Interval
  <2>2. in \in SUBSET DOMAIN log /\ out \in SUBSET DOMAIN log
    BY DEF Splits
  <2>3. IsFiniteSet(in) /\ IsFiniteSet(out)
    BY <2>1, <2>2, FS_Subset
  <2>4. Cardinality(DOMAIN log) = Cardinality(in) + Cardinality(out) - Cardinality({})
    BY <2>3, FS_Union DEF Splits
  <2>5. Cardinality(in) \in Nat /\ Cardinality(out) \in Nat /\ Cardinality({}) = 0
    BY <2>3, FS_CardinalityType, FS_EmptySet
  <2> QED BY <2>4, <2>5
<1> QED BY <1>4, <1>5, <1>6

(* A report that adds up: its whole is what the trades earned and its two  *)
(* samples share it out.                                                   *)
AddsUp(r, log) ==
    /\ r.full.net = Total(Nets(log))
    /\ r.in.total + r.out.total = r.full.total
    /\ r.in.net + r.out.net = r.full.net

LEMMA MeasuresAddUp ==
    ASSUME NEW log \in Seq(Outcome), NEW in, NEW out, Splits(log, in, out), NEW r,
           /\ r.full.net = Replays!Total(Replays!Results(log, DOMAIN log))
           /\ r.full.total = Replays!Cardinality(DOMAIN log)
           /\ r.in.net = Replays!Total(Replays!Results(log, in))
           /\ r.in.total = Replays!Cardinality(in)
           /\ r.out.net = Replays!Total(Replays!Results(log, out))
           /\ r.out.total = Replays!Cardinality(out)
    PROVE  AddsUp(r, log)
<1>1. \A set : Replays!Cardinality(set) = Cardinality(set)
  BY DEF Cardinality, Replays!Cardinality
<1>2. /\ r.full.total = Cardinality(DOMAIN log)
      /\ r.in.total = Cardinality(in) /\ r.out.total = Cardinality(out)
  BY <1>1
<1>3. /\ r.full.net = Total(Replays!Results(log, DOMAIN log))
      /\ r.in.net = Total(Replays!Results(log, in))
      /\ r.out.net = Total(Replays!Results(log, out))
  BY SameTotal
<1>4. /\ Total(Replays!Results(log, DOMAIN log)) = Total(Nets(log))
      /\ Total(Nets(log)) = Total(Replays!Results(log, in)) + Total(Replays!Results(log, out))
      /\ Cardinality(DOMAIN log) = Cardinality(in) + Cardinality(out)
  BY SplitsAddUp
<1> QED BY <1>2, <1>3, <1>4, Zenon DEF AddsUp

(* A report by the split of the period adds up. *)
LEMMA SampleSplits ==
    ASSUME NEW log \in Seq(Outcome)
    PROVE  Splits(log, Replays!InSample(log, Split), Replays!OutOfSample(log, Split))
<1>1. PICK in, out : in = Replays!InSample(log, Split) /\ out = Replays!OutOfSample(log, Split)
  OBVIOUS
<1>2. \A k \in DOMAIN log : log[k].since \in Int /\ Split \in Int
  BY ReplayNumbers, LoggedNumbers
<1>3. in \subseteq DOMAIN log /\ out \subseteq DOMAIN log
  BY <1>1 DEF Replays!InSample, Replays!OutOfSample
<1>4. \A k \in DOMAIN log : k \in out <=> ~(k \in in)
  BY <1>1, <1>2 DEF Replays!InSample, Replays!OutOfSample
<1> QED BY <1>1, <1>3, <1>4 DEF Splits

LEMMA PeriodsSplit ==
    ASSUME NEW log \in Seq(Outcome)
    PROVE  Splits(log, Replays!FullPeriod(log, 1) \cup Replays!FullPeriod(log, 2),
                  Replays!FullPeriod(log, 3))
<1>1. PICK third : third = Replays!Third
  OBVIOUS
<1>2. third \in Nat /\ 2 * third <= Length /\ Length \in Nat
  BY <1>1, ReplayNumbers DEF Replays!Third
<1>3. \A k \in DOMAIN log : log[k].since \in 1..Length
  BY LoggedNumbers
<1>4. /\ Replays!FullPeriod(log, 1) = {j \in DOMAIN log : 0 < log[j].since /\ log[j].since <= third}
      /\ Replays!FullPeriod(log, 2)
           = {j \in DOMAIN log : third < log[j].since /\ log[j].since <= 2 * third}
      /\ Replays!FullPeriod(log, 3)
           = {j \in DOMAIN log : 2 * third < log[j].since /\ log[j].since <= Length}
  BY <1>1, <1>2 DEF Replays!FullPeriod
<1>5. PICK in, out : /\ in = Replays!FullPeriod(log, 1) \cup Replays!FullPeriod(log, 2)
                     /\ out = Replays!FullPeriod(log, 3)
  OBVIOUS
<1>6. in \subseteq DOMAIN log /\ out \subseteq DOMAIN log
  BY <1>4, <1>5
<1>7. \A k \in DOMAIN log : k \in out <=> ~(k \in in)
  <2>1. ASSUME NEW k \in DOMAIN log PROVE k \in out <=> ~(k \in in)
    <3>1. PICK since : since = log[k].since
      OBVIOUS
    <3>2. since \in 1..Length
      BY <1>3, <3>1
    <3>3. k \in out <=> 2 * third < since /\ since <= Length
      BY <1>4, <1>5, <3>1
    <3>4. k \in in <=> \/ 0 < since /\ since <= third
                       \/ third < since /\ since <= 2 * third
      BY <1>4, <1>5, <3>1
    <3>5. (2 * third < since /\ since <= Length)
             <=> ~ \/ 0 < since /\ since <= third
                   \/ third < since /\ since <= 2 * third
      BY <1>2, <3>2
    <3> QED BY <3>3, <3>4, <3>5, Zenon
  <2> QED BY <2>1
<1> QED BY <1>5, <1>6, <1>7 DEF Splits

LEMMA ReportAddsUp ==
    ASSUME tool \in Tools, NEW log \in Seq(Outcome)
    PROVE  AddsUp(Replays!ReportBy(log), log)
<1>1. PICK r : r = Replays!ReportBy(log)
  OBVIOUS
<1>2. CASE tool = "full"
  <2>1. r = Replays!FullReport(log)
    BY <1>1, <1>2 DEF Replays!ReportBy
  <2>2. PICK in, out : /\ in = Replays!FullPeriod(log, 1) \cup Replays!FullPeriod(log, 2)
                       /\ out = Replays!FullPeriod(log, 3)
    OBVIOUS
  <2>3. /\ r.full.net = Replays!Total(Replays!Results(log, DOMAIN log))
        /\ r.full.total = Replays!Cardinality(DOMAIN log)
        /\ r.in.net = Replays!Total(Replays!Results(log, in))
        /\ r.in.total = Replays!Cardinality(in)
        /\ r.out.net = Replays!Total(Replays!Results(log, out))
        /\ r.out.total = Replays!Cardinality(out)
    BY <2>1, <2>2 DEF Replays!FullReport, Replays!FullMetrics, Replays!Metrics
  <2>4. Splits(log, in, out)
    BY <2>2, PeriodsSplit
  <2> QED BY <1>1, <2>3, <2>4, MeasuresAddUp
<1>3. CASE tool # "full"
  <2>1. r = Replays!Report(log, Split, Replays!Metrics)
    BY <1>1, <1>3, ReplayAssumption
       DEF Replays!ReportBy, Replays!Report, Replays!SweepReport, Replays!BtcReport,
           Replays!FastReport, Replays!ExtendedReport, Replays!ContinuationReport,
           Replays!SwingReport, Replays!SweepMetrics, Replays!BtcMetrics, Replays!FastMetrics,
           Replays!ExtendedMetrics, Replays!ContinuationMetrics, Replays!SwingMetrics
  <2>2. PICK in, out : /\ in = Replays!InSample(log, Split)
                       /\ out = Replays!OutOfSample(log, Split)
    OBVIOUS
  <2>3. /\ r.full.net = Replays!Total(Replays!Results(log, DOMAIN log))
        /\ r.full.total = Replays!Cardinality(DOMAIN log)
        /\ r.in.net = Replays!Total(Replays!Results(log, in))
        /\ r.in.total = Replays!Cardinality(in)
        /\ r.out.net = Replays!Total(Replays!Results(log, out))
        /\ r.out.total = Replays!Cardinality(out)
    BY <2>1, <2>2 DEF Replays!Report, Replays!Metrics
  <2>4. Splits(log, in, out)
    BY <2>2, SampleSplits
  <2> QED BY <1>1, <2>3, <2>4, MeasuresAddUp
<1> QED BY <1>2, <1>3
-----------------------------------------------------------------------------
ReplayInv ==
    /\ tool \in Tools /\ variant \in Replays!Variants(tool)
    /\ bar \in 0..Length /\ stage \in {"run", "broke", "over"}
    /\ price \in Int
    /\ b \in Account /\ Unexplained(b) = Initial
    /\ BookCounted
    /\ stage = "over" => b.opens = <<>>

LEMMA ReplayStart == Replays!Init => ReplayInv
<1> SUFFICES ASSUME Replays!Init PROVE ReplayInv
  OBVIOUS
<1>1. /\ tool \in Tools /\ variant \in Replays!Variants(tool)
      /\ bar = 0 /\ stage = "run" /\ price = 0
      /\ b = Replays!NewBook(Initial) /\ tally = Replays!NoTally
  BY DEF Replays!Init
<1>2. <<>> \in Seq(Stake) /\ <<>> \in Seq(Outcome) /\ Len(<<>>) = 0
  BY EmptySeq
<1>3. b \in Account /\ b.equity = Initial /\ b.opens = <<>> /\ b.trades = <<>>
  BY <1>1, <1>2, ReplayNumbers DEF Replays!NewBook, Account
<1>4. Unexplained(b) = Initial
  <2>1. Nets(<<>>) = <<>> /\ Values(<<>>) = <<>>
    BY <1>2 DEF Nets, Values
  <2>2. Unexplained(b) = Initial - 0 - 0
    BY <1>3, <2>1, TotalOfNone, Zenon DEF Unexplained
  <2> QED BY <2>2, ReplayNumbers
<1>5. BookCounted
  <2>1. Counts(tally, 0) /\ 0 \in 0..Len(b.trades)
    BY <1>1, <1>2, <1>3 DEF Counts, Replays!NoTally
  <2> QED BY <2>1 DEF BookCounted
<1>6. bar \in 0..Length /\ price \in Int
  BY <1>1, ReplayNumbers
<1> QED BY <1>1, <1>3, <1>4, <1>5, <1>6 DEF ReplayInv

LEMMA ReplayStep == ReplayInv /\ [Replays!Next]_Replays!vars => ReplayInv'
<1> SUFFICES ASSUME ReplayInv, [Replays!Next]_Replays!vars PROVE ReplayInv'
  OBVIOUS
<1>1. Unexplained(b) = Initial /\ b \in Account /\ Initial \in Int
  BY ReplayNumbers DEF ReplayInv
<1>2. ASSUME NEW c \in Shapes, NEW m \in Markets, Replays!Candle(c, m) PROVE ReplayInv'
  <2>1. PICK r : r = Replays!CandleOf(c, m, bar')
    OBVIOUS
  <2>2. /\ bar < Length /\ bar' = bar + 1 /\ stage' \in {"run", "broke"}
        /\ b' = r.book /\ tally' = r.tally /\ price' = c.close
        /\ tool' = tool /\ variant' = variant
    BY <1>2, <2>1 DEF Replays!Candle
  <2>3. bar' \in 1..Length /\ price' \in Int
    BY <2>2, ReplayNumbers DEF ReplayInv
  <2>4. Sound(r)
    <3>1. PICK t : t = bar'
      OBVIOUS
    <3>2. Sound(Replays!CandleOf(c, m, t))
      BY <2>3, <3>1, ToolIsSound DEF ReplayInv
    <3> QED BY <2>1, <3>1, <3>2
  <2>5. b' \in Account /\ Unexplained(r.book) = Initial
    BY <1>1, <2>2, <2>4 DEF Sound, Settles
  <2>6. Unexplained(b)' = Initial
    BY <2>2, <2>5 DEF Unexplained
  <2>7. BookCounted'
    BY <2>2, <2>4 DEF Sound, BookCounted, Counts
  <2>8. (variant \in Replays!Variants(tool))'
    BY <2>2 DEF ReplayInv
  <2> QED BY <2>2, <2>3, <2>5, <2>6, <2>7, <2>8 DEF ReplayInv
<1>3. ASSUME NEW x \in Int, Replays!Finish(x) PROVE ReplayInv'
  <2>1. PICK e : e = Ended(b, x, Length)
    OBVIOUS
  <2>2. /\ b' = e /\ stage' = "over"
        /\ tool' = tool /\ variant' = variant /\ bar' = bar /\ tally' = tally /\ price' = price
    BY <1>3, <2>1, ToolEnds DEF Replays!Finish, ReplayInv
  <2>3. Settles(e, b, 0) /\ e.opens = <<>>
    BY <1>1, <2>1, EndedKeeps, ReplayNumbers
  <2>4. b' \in Account /\ Unexplained(e) = Initial
    BY <1>1, <2>2, <2>3 DEF Settles
  <2>5. Unexplained(b)' = Initial
    BY <2>2, <2>4 DEF Unexplained
  <2>6. BookCounted'
    <3>1. PICK k \in 0..Len(b.trades) : Counts(tally, k)
      BY DEF ReplayInv, BookCounted
    <3>2. Len(e.trades) >= Len(b.trades) /\ Len(e.trades) \in Nat /\ Len(b.trades) \in Nat
      BY <1>1, <2>3, AccountNumbers DEF Settles
    <3>3. k \in 0..Len(e.trades)
      BY <3>2
    <3>4. Counts(tally', k)
      BY <2>2, <3>1
    <3> QED BY <2>2, <3>3, <3>4 DEF BookCounted
  <2>7. (variant \in Replays!Variants(tool))'
    BY <2>2 DEF ReplayInv
  <2> QED BY <2>2, <2>3, <2>4, <2>5, <2>6, <2>7 DEF ReplayInv
<1>4. CASE UNCHANGED Replays!vars
  <2>1. /\ b' = b /\ stage' = stage /\ tool' = tool /\ variant' = variant
        /\ bar' = bar /\ tally' = tally /\ price' = price
    BY <1>4 DEF Replays!vars
  <2>2. Unexplained(b)' = Initial
    BY <1>1, <2>1 DEF Unexplained
  <2>3. BookCounted'
    BY <2>1 DEF ReplayInv, BookCounted, Counts
  <2> QED BY <2>1, <2>2, <2>3 DEF ReplayInv
<1> QED BY <1>2, <1>3, <1>4, ReplayNumbers DEF Replays!Next

(* For every tool and variant, whatever the candles and the signals: the   *)
(* equity of the executor is the initial one, what the recorded trades     *)
(* earned and what the open positions have realised, and the report shares *)
(* the trades out without losing or repeating one                          *)
(* (replay_v2_sweep.py:228, 304, 723, replay_full.py:514).                 *)
THEOREM ReplayLedgerHolds == Replays!Spec => []Replays!Ledger
<1>1. ReplayInv => Replays!Ledger
  <2> SUFFICES ASSUME ReplayInv PROVE Replays!Ledger
    OBVIOUS
  <2>1. b \in Account /\ Unexplained(b) = Initial /\ Initial \in Int /\ tool \in Tools
    BY ReplayNumbers DEF ReplayInv
  <2>2. PICK eq, s, v : eq = b.equity /\ s = Total(Nets(b.trades)) /\ v = Total(Values(b.opens))
    OBVIOUS
  <2>3. eq \in Int /\ s \in Int /\ v \in Int
    BY <2>1, <2>2, AccountNumbers
  <2>4. eq - s - v = Initial
    BY <2>1, <2>2 DEF Unexplained
  <2>5. eq = Initial + s + v
    BY <2>1, <2>3, <2>4
  <2>6. Replays!EquityAddsUp
    <3>1. b.equity = Initial + Replays!Total(Nets(b.trades)) + Replays!Total(Values(b.opens))
      BY <2>2, <2>5, SameTotal
    <3> QED BY <3>1, Zenon DEF Replays!EquityAddsUp, Nets, Values
  <2>7. ASSUME stage = "over" PROVE AddsUp(Replays!ReportBy(b.trades), b.trades) /\ s = eq - Initial
    <3>1. b.opens = <<>>
      BY <2>7 DEF ReplayInv
    <3>2. Values(<<>>) = <<>>
      BY EmptySeq DEF Values
    <3>3. v = 0
      BY <2>2, <3>1, <3>2, TotalOfNone
    <3>4. s = eq - Initial
      BY <2>1, <2>3, <2>5, <3>3
    <3> QED BY <2>1, <3>4, AccountNumbers, ReportAddsUp
  <2>8. Replays!ReportAgrees
    BY <2>2, <2>7, Zenon DEF Replays!ReportAgrees, AddsUp
  <2> QED BY <2>6, <2>8 DEF Replays!Ledger
<1> QED BY <1>1, ReplayStart, ReplayStep, PTL DEF Replays!Spec

(* Every variable of a replay keeps its type: no tally counts more trades  *)
(* than the log has.                                                       *)
THEOREM ReplayTypeOK == Replays!Spec => []Replays!TypeOK
<1>1. ReplayInv => Replays!TypeOK
  BY DEF ReplayInv, BookCounted, Counts, Replays!TypeOK
<1> QED BY <1>1, ReplayStart, ReplayStep, PTL DEF Replays!Spec
=============================================================================
