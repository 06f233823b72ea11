---------------------------- MODULE ServicesProofs ----------------------------
(***************************************************************************)
(* Theorems of the services: the writer of the database, for any callers   *)
(* and any number of writes, failures and restarts; the supervised tasks,  *)
(* for any budgets of restarts and of retries; and the candles of a        *)
(* symbol, for any history, checks and lost connections.                   *)
(***************************************************************************)
EXTENDS MCServices, V5ForwardTestProofs, SequenceTheorems, TLAPS

(***************************************************************************)
(* The writer.  NoOvertaking is not inductive: a write could leave the     *)
(* queue ahead of an older one, or wait behind the open transaction.  The  *)
(* queue ascends, everything in it is younger than the write that is held, *)
(* than the transaction and than the file, and what is held is the         *)
(* youngest of these three.                                                *)
(***************************************************************************)

(* The queue holds the writes in the order of their submission. *)
Ascending ==
    \A i, j \in 1..Len(queue) :
        i < j /\ queue[i] # Sentinel /\ queue[j] # Sentinel => queue[i] < queue[j]

(* A write in the queue is younger than everything that has left it. *)
Younger ==
    \A i \in 1..Len(queue) : queue[i] # Sentinel =>
        /\ queue[i] <= submitted
        /\ item < queue[i]
        /\ \A n \in tx \cup durable : n < queue[i]

(* The write that is held is the youngest that has left the queue, and it  *)
(* is in the transaction when its commit is due.                           *)
HeldIsYoungest ==
    /\ item <= submitted
    /\ loop \in {"execute", "commit"} => item # Sentinel
    /\ loop = "commit" => item \in tx
    /\ item # Sentinel => /\ \A n \in durable : n < item
                          /\ \A n \in tx : n <= item

WriterInv ==
    /\ WriterTypeOK
    /\ Ascending
    /\ Younger
    /\ HeldIsYoungest
    /\ AnsweredIsDurable
-----------------------------------------------------------------------------
(* What Append does to a queue of numbers. *)
LEMMA AppendFacts ==
    ASSUME NEW q \in Seq(Nat), NEW x \in Nat
    PROVE  /\ Append(q, x) \in Seq(Nat)
           /\ Len(Append(q, x)) = Len(q) + 1
           /\ \A i \in 1..Len(q) : Append(q, x)[i] = q[i]
           /\ Append(q, x)[Len(q) + 1] = x
           /\ Len(q) \in Nat
OBVIOUS

(* What Head and Tail do to one that is not empty. *)
LEMMA TailFacts ==
    ASSUME NEW q \in Seq(Nat), q # <<>>
    PROVE  /\ Tail(q) \in Seq(Nat)
           /\ Len(Tail(q)) = Len(q) - 1
           /\ \A i \in 1..Len(Tail(q)) : Tail(q)[i] = q[i + 1]
           /\ Head(q) = q[1]
           /\ Head(q) \in Nat
           /\ Len(q) \in Nat \ {0}
OBVIOUS

LEMMA WriterInitInv == WriterInit => WriterInv
<1> SUFFICES ASSUME WriterInit PROVE WriterInv
  OBVIOUS
<1>1. WriterTypeOK
  BY WriterAssumption DEF WriterInit, WriterTypeOK, Numbers
<1>2. Len(queue) = 0 /\ item = 0 /\ loop = "get" /\ submitted = 0 /\ answered = {}
  BY DEF WriterInit
<1> QED BY <1>1, <1>2
        DEF WriterInv, Ascending, Younger, HeldIsYoungest, AnsweredIsDurable, Sentinel
-----------------------------------------------------------------------------
LEMMA SubmitInv ==
    ASSUME WriterInv, NEW c \in Callers, Submit(c)
    PROVE  WriterInv'
<1> USE DEF WriterInv, Sentinel
<1>1. /\ submitted \in Nat /\ submitted' = submitted + 1
      /\ queue \in Seq(Nat) /\ queue' = Append(queue, submitted')
      /\ UNCHANGED <<running, loop, item, tx, durable, answered, spent>>
  BY DEF Submit, WriterTypeOK
<1>2. /\ queue' \in Seq(Nat) /\ Len(queue') = Len(queue) + 1 /\ Len(queue) \in Nat
      /\ \A i \in 1..Len(queue) : queue'[i] = queue[i]
      /\ queue'[Len(queue) + 1] = submitted'
  BY <1>1, AppendFacts
<1>3. /\ item \in Nat /\ tx \subseteq 1..submitted /\ durable \subseteq 1..submitted
      /\ answered \subseteq 1..submitted
  BY DEF WriterTypeOK, Numbers
<1>4. \A i \in 1..Len(queue') : i \in 1..Len(queue) \/ i = Len(queue) + 1
  BY <1>2
<1>5. \A i \in 1..Len(queue) : queue[i] \in Nat
  BY <1>1
<1>6. WriterTypeOK'
  <2>1. call' \in [Callers -> (1..submitted') \cup {0}]
    BY <1>1 DEF Submit, WriterTypeOK, Numbers
  <2> QED BY <1>1, <1>2, <1>3, <2>1 DEF WriterTypeOK, Numbers
<1>7. Younger'
  <2>1. ASSUME NEW i \in 1..Len(queue') , queue'[i] # 0
        PROVE  /\ queue'[i] <= submitted' /\ item < queue'[i]
               /\ \A n \in tx \cup durable : n < queue'[i]
    <3>1. CASE i \in 1..Len(queue)
      BY <1>1, <1>2, <1>5, <2>1, <3>1 DEF Younger
    <3>2. CASE i = Len(queue) + 1
      BY <1>1, <1>2, <1>3, <3>2 DEF HeldIsYoungest
    <3> QED BY <1>4, <3>1, <3>2
  <2> QED BY <1>1, <2>1 DEF Younger
<1>8. Ascending'
  <2>1. ASSUME NEW i \in 1..Len(queue'), NEW j \in 1..Len(queue'), i < j,
               queue'[i] # 0, queue'[j] # 0
        PROVE  queue'[i] < queue'[j]
    <3>1. i \in 1..Len(queue)
      BY <1>2, <2>1
    <3>2. CASE j \in 1..Len(queue)
      BY <1>2, <2>1, <3>1, <3>2 DEF Ascending
    <3>3. CASE j = Len(queue) + 1
      BY <1>1, <1>2, <1>5, <2>1, <3>1, <3>3 DEF Younger
    <3> QED BY <1>4, <3>2, <3>3
  <2> QED BY <2>1 DEF Ascending
<1>9. HeldIsYoungest' /\ AnsweredIsDurable'
  BY <1>1, <1>3 DEF HeldIsYoungest, AnsweredIsDurable
<1> QED BY <1>6, <1>7, <1>8, <1>9

LEMMA CloseInv ==
    ASSUME WriterInv, CloseDatabase
    PROVE  WriterInv'
<1> USE DEF WriterInv, Sentinel
<1>1. /\ queue \in Seq(Nat) /\ queue' = Append(queue, 0) /\ running' = FALSE
      /\ UNCHANGED <<loop, item, tx, durable, call, answered, submitted, spent>>
  BY DEF CloseDatabase, WriterTypeOK
<1>2. /\ queue' \in Seq(Nat) /\ Len(queue') = Len(queue) + 1 /\ Len(queue) \in Nat
      /\ \A i \in 1..Len(queue) : queue'[i] = queue[i]
      /\ queue'[Len(queue) + 1] = 0
  BY <1>1, AppendFacts
<1>3. \A i \in 1..Len(queue') : queue'[i] # 0 => i \in 1..Len(queue)
  BY <1>2
<1>4. WriterTypeOK'
  BY <1>1, <1>2 DEF WriterTypeOK, Numbers
<1>5. Younger'
  BY <1>1, <1>2, <1>3 DEF Younger
<1>6. Ascending'
  BY <1>2, <1>3 DEF Ascending
<1>7. HeldIsYoungest' /\ AnsweredIsDurable'
  BY <1>1 DEF HeldIsYoungest, AnsweredIsDurable
<1> QED BY <1>4, <1>5, <1>6, <1>7

LEMMA TakeInv ==
    ASSUME WriterInv, Take
    PROVE  WriterInv'
<1> USE DEF WriterInv, Sentinel
<1>1. /\ queue \in Seq(Nat) /\ queue # <<>>
      /\ queue' = Tail(queue) /\ item' = Head(queue)
      /\ loop' = IF Head(queue) = 0 THEN "ended" ELSE "execute"
      /\ UNCHANGED <<running, tx, durable, call, answered, submitted, spent>>
  BY DEF Take, WriterTypeOK
<1>2. /\ queue' \in Seq(Nat) /\ Len(queue') = Len(queue) - 1
      /\ \A i \in 1..Len(queue') : queue'[i] = queue[i + 1]
      /\ item' = queue[1] /\ item' \in Nat /\ Len(queue) \in Nat \ {0}
  BY <1>1, TailFacts
<1>3. \A i \in 1..Len(queue') : i + 1 \in 1..Len(queue) /\ 1 < i + 1
  BY <1>2
<1>4. 1 \in 1..Len(queue)
  BY <1>2
<1>5. WriterTypeOK'
  BY <1>1, <1>2 DEF WriterTypeOK, Numbers
<1>6. Younger'
  <2>1. ASSUME NEW i \in 1..Len(queue'), queue'[i] # 0
        PROVE  /\ queue'[i] <= submitted /\ item' < queue'[i]
               /\ \A n \in tx \cup durable : n < queue'[i]
    <3>1. queue'[i] = queue[i + 1] /\ i + 1 \in 1..Len(queue) /\ 1 < i + 1
      BY <1>2, <1>3
    <3>2. /\ queue[i + 1] <= submitted
          /\ \A n \in tx \cup durable : n < queue[i + 1]
      BY <2>1, <3>1 DEF Younger
    <3>3. CASE item' = 0
      <4>1. queue'[i] \in Nat
        BY <1>2
      <4> QED BY <2>1, <3>1, <3>2, <3>3, <4>1
    <3>4. CASE item' # 0
      BY <1>2, <1>4, <2>1, <3>1, <3>2, <3>4 DEF Ascending
    <3> QED BY <3>3, <3>4
  <2> QED BY <1>1, <2>1 DEF Younger
<1>7. Ascending'
  <2>1. ASSUME NEW i \in 1..Len(queue'), NEW j \in 1..Len(queue'), i < j,
               queue'[i] # 0, queue'[j] # 0
        PROVE  queue'[i] < queue'[j]
    <3>1. /\ queue'[i] = queue[i + 1] /\ i + 1 \in 1..Len(queue)
          /\ queue'[j] = queue[j + 1] /\ j + 1 \in 1..Len(queue)
          /\ i + 1 < j + 1
      BY <1>2, <1>3, <2>1
    <3> QED BY <2>1, <3>1 DEF Ascending
  <2> QED BY <2>1 DEF Ascending
<1>8. HeldIsYoungest'
  <2>1. item' # 0 => /\ item' <= submitted
                     /\ \A n \in tx \cup durable : n < item'
    BY <1>2, <1>4 DEF Younger
  <2>2. submitted \in Nat /\ tx \subseteq Nat
    BY DEF WriterTypeOK, Numbers
  <2>3. \A n \in tx : item' # 0 => n <= item'
    BY <1>2, <2>1, <2>2
  <2>4. /\ loop' # "commit"
        /\ loop' = "execute" => item' # 0
    BY <1>1
  <2>5. item' <= submitted'
    BY <1>1, <2>1, <2>2
  <2> QED BY <1>1, <2>1, <2>3, <2>4, <2>5 DEF HeldIsYoungest
<1>9. AnsweredIsDurable'
  BY <1>1 DEF AnsweredIsDurable
<1> QED BY <1>5, <1>6, <1>7, <1>8, <1>9
-----------------------------------------------------------------------------
LEMMA ExecuteInv ==
    ASSUME WriterInv, Execute
    PROVE  WriterInv'
<1> USE DEF WriterInv, Sentinel
<1>1. /\ loop = "execute" /\ loop' = "commit" /\ tx' = tx \cup {item}
      /\ UNCHANGED <<running, queue, item, durable, call, answered, submitted, spent>>
  BY DEF Execute
<1>2. item \in Nat /\ item # 0 /\ item <= submitted /\ submitted \in Nat
  BY <1>1 DEF WriterTypeOK, HeldIsYoungest
<1>3. WriterTypeOK'
  BY <1>1, <1>2 DEF WriterTypeOK, Numbers
<1>4. Younger' /\ Ascending'
  BY <1>1 DEF Younger, Ascending
<1>5. HeldIsYoungest' /\ AnsweredIsDurable'
  BY <1>1, <1>2 DEF HeldIsYoungest, AnsweredIsDurable
<1> QED BY <1>3, <1>4, <1>5

(* The caller that is answered leaves its call; the others keep theirs. *)
LEMMA ResolveFacts ==
    ASSUME WriterInv, NEW ok \in BOOLEAN, Resolve(item, ok)
    PROVE  /\ call' \in [Callers -> Numbers \cup {0}]
           /\ answered' \subseteq answered \cup {item}
           /\ ~ok => answered' = answered
           /\ loop' = "get" /\ item' = 0
BY DEF WriterInv, WriterTypeOK, Resolve

LEMMA CommitInv ==
    ASSUME WriterInv, Commit
    PROVE  WriterInv'
<1> USE DEF WriterInv, Sentinel
<1>1. /\ loop = "commit" /\ durable' = durable \cup tx /\ tx' = {}
      /\ UNCHANGED <<running, queue, submitted, spent>>
  BY DEF Commit
<1>2. /\ call' \in [Callers -> Numbers \cup {0}]
      /\ answered' \subseteq answered \cup {item}
      /\ loop' = "get" /\ item' = 0
  BY ResolveFacts DEF Commit
<1>3. item \in tx
  BY <1>1 DEF HeldIsYoungest
<1>4. AnsweredIsDurable'
  BY <1>1, <1>2, <1>3 DEF AnsweredIsDurable
<1>5. WriterTypeOK'
  BY <1>1, <1>2, <1>3 DEF WriterTypeOK, Numbers
<1>6. Younger'
  <2>1. \A i \in 1..Len(queue) : queue[i] \in Nat
    BY DEF WriterTypeOK
  <2> QED BY <1>1, <1>2, <2>1 DEF Younger
<1>7. Ascending'
  BY <1>1 DEF Ascending
<1>8. HeldIsYoungest'
  BY <1>1, <1>2 DEF HeldIsYoungest, WriterTypeOK
<1> QED BY <1>4, <1>5, <1>6, <1>7, <1>8

LEMMA FailInv ==
    ASSUME WriterInv, Fail
    PROVE  WriterInv'
<1> USE DEF WriterInv, Sentinel
<1>1. UNCHANGED <<running, queue, tx, durable, submitted>>
  BY DEF Fail
<1>2. /\ call' \in [Callers -> Numbers \cup {0}]
      /\ answered' = answered
      /\ loop' = "get" /\ item' = 0
  BY ResolveFacts DEF Fail
<1>3. spent' \in [errors : 0..MaxFailures, starts : 0..MaxStarts]
  BY WriterAssumption DEF Fail, WriterTypeOK
<1>4. WriterTypeOK'
  BY <1>1, <1>2, <1>3 DEF WriterTypeOK, Numbers
<1>5. Younger'
  <2>1. \A i \in 1..Len(queue) : queue[i] \in Nat
    BY DEF WriterTypeOK
  <2> QED BY <1>1, <1>2, <2>1 DEF Younger
<1>6. Ascending' /\ AnsweredIsDurable'
  BY <1>1, <1>2 DEF Ascending, AnsweredIsDurable
<1>7. HeldIsYoungest'
  BY <1>1, <1>2 DEF HeldIsYoungest, WriterTypeOK
<1> QED BY <1>4, <1>5, <1>6, <1>7

LEMMA ReopenInv ==
    ASSUME WriterInv, Reopen
    PROVE  WriterInv'
<1> USE DEF WriterInv, Sentinel
<1>1. /\ running' = TRUE /\ queue' = <<>> /\ loop' = "get" /\ item' = 0 /\ tx' = {}
      /\ UNCHANGED <<durable, answered, submitted>>
  BY DEF Reopen
<1>2. spent' \in [errors : 0..MaxFailures, starts : 0..MaxStarts]
  BY WriterAssumption DEF Reopen, WriterTypeOK
<1>3. call' \in [Callers -> Numbers \cup {0}]
  BY DEF Reopen
<1>4. WriterTypeOK'
  BY <1>1, <1>2, <1>3 DEF WriterTypeOK, Numbers
<1>5. Len(queue') = 0
  BY <1>1
<1>6. Younger' /\ Ascending'
  BY <1>5 DEF Younger, Ascending
<1>7. HeldIsYoungest' /\ AnsweredIsDurable'
  BY <1>1 DEF HeldIsYoungest, AnsweredIsDurable, WriterTypeOK
<1> QED BY <1>4, <1>6, <1>7

LEMMA CancelInv ==
    ASSUME WriterInv, NEW c \in Callers, Cancel(c)
    PROVE  WriterInv'
<1> USE DEF WriterInv
<1>1. UNCHANGED <<running, queue, loop, item, tx, durable, answered, submitted, spent>>
  BY DEF Cancel
<1>2. call' \in [Callers -> Numbers \cup {0}]
  BY DEF Cancel, WriterTypeOK
<1>3. WriterTypeOK'
  BY <1>1, <1>2 DEF WriterTypeOK, Numbers
<1>4. Younger' /\ Ascending' /\ HeldIsYoungest' /\ AnsweredIsDurable'
  BY <1>1 DEF Younger, Ascending, HeldIsYoungest, AnsweredIsDurable
<1> QED BY <1>3, <1>4
-----------------------------------------------------------------------------
(* Every step of a caller, of the writer, of close() or of a restart keeps *)
(* that order.                                                             *)
LEMMA WriterStepInv == WriterInv /\ [WriterNext]_writerVars => WriterInv'
<1> SUFFICES ASSUME WriterInv, [WriterNext]_writerVars PROVE WriterInv'
  OBVIOUS
<1>1. CASE UNCHANGED writerVars
  <2>1. WriterTypeOK'
    BY <1>1 DEF writerVars, WriterInv, WriterTypeOK, Numbers
  <2>2. Younger' /\ Ascending' /\ HeldIsYoungest' /\ AnsweredIsDurable'
    BY <1>1 DEF writerVars, WriterInv, Younger, Ascending, HeldIsYoungest, AnsweredIsDurable
  <2> QED BY <2>1, <2>2 DEF WriterInv
<1>2. CASE \E c \in Callers : Submit(c) \/ Cancel(c)
  BY <1>2, SubmitInv, CancelInv
<1>3. CASE Writer
  BY <1>3, TakeInv, ExecuteInv, CommitInv, FailInv DEF Writer
<1>4. CASE CloseDatabase
  BY <1>4, CloseInv
<1>5. CASE Reopen
  BY <1>5, ReopenInv
<1> QED BY <1>1, <1>2, <1>3, <1>4, <1>5 DEF WriterNext, Ended

(* The queue, the transaction and the file stay in the order of submission. *)
THEOREM QueueInOrder == WriterSpec => []WriterInv
<1> QED BY WriterInitInv, WriterStepInv, PTL DEF WriterSpec

(* Whatever fails, is cancelled or is cut by a restart, a caller whose     *)
(* write returned finds it in the file (database.py:199-209).              *)
THEOREM AnsweredHolds == WriterSpec => []AnsweredIsDurable
<1>1. WriterInv => AnsweredIsDurable
  BY DEF WriterInv
<1> QED BY <1>1, QueueInOrder, PTL

(* No write becomes durable before an older one that is still to be        *)
(* written (database.py:181-205, _writer_loop).                    *)
THEOREM OrderHolds == WriterSpec => []NoOvertaking
<1>1. WriterInv => NoOvertaking
  <2> SUFFICES ASSUME WriterInv, NEW n \in durable, NEW m \in Pending
               PROVE  n < m
    BY DEF NoOvertaking
  <2>1. m # Sentinel /\ (m = item \/ \E i \in DOMAIN queue : m = queue[i])
    BY DEF Pending, Queued
  <2>2. CASE m = item
    BY <2>1, <2>2 DEF WriterInv, HeldIsYoungest
  <2>3. CASE \E i \in DOMAIN queue : m = queue[i]
    <3>1. PICK i \in DOMAIN queue : m = queue[i]
      BY <2>3
    <3>2. i \in 1..Len(queue)
      BY <3>1 DEF WriterInv, WriterTypeOK
    <3> QED BY <2>1, <3>1, <3>2 DEF WriterInv, Younger
  <2> QED BY <2>1, <2>2, <2>3
<1> QED BY <1>1, QueueInOrder, PTL
-----------------------------------------------------------------------------
(***************************************************************************)
(* The supervised tasks.  HealthyRuns speaks of a running application      *)
(* only, so a step of the shutdown could leave it and no step returns to   *)
(* it; what makes it inductive are the types, the one-way phases and that  *)
(* a task is revived only as it is called healthy again.                   *)
(***************************************************************************)

(* Who still runs or waits has not used up its budget. *)
Budgeted ==
    /\ \A t \in Tasks : sup[t] # "ended" => restarts[t] <= MaxRestarts
    /\ sock # "ended" => retries <= MaxRetries

WatchInv == WatchTypeOK /\ Budgeted /\ HealthyRuns
-----------------------------------------------------------------------------
LEMMA WatchInitInv == WatchInit => WatchInv
<1> SUFFICES ASSUME WatchInit PROVE WatchInv
  OBVIOUS
<1> USE WatchAssumption DEF WatchInit
<1>1. restarts \in [Tasks -> 0..MaxRestarts + 1] /\ silent \in [Tasks -> 0..Patience + 1]
  OBVIOUS
<1>2. WatchTypeOK
  <2>1. /\ sup \in [Tasks -> {"run", "backoff", "ended"}]
        /\ healthy \in [Tasks -> BOOLEAN]
        /\ spinning \in BOOLEAN
    OBVIOUS
  <2>2. retries \in 0..MaxRetries + 1
    OBVIOUS
  <2> QED BY <1>1, <2>1, <2>2 DEF WatchTypeOK
<1>3. Budgeted /\ HealthyRuns
  BY DEF Budgeted, HealthyRuns
<1> QED BY <1>2, <1>3 DEF WatchInv

(* A task is called healthy again only where it runs again. *)
LEMMA FreshInv ==
    ASSUME WatchInv, NEW t \in Tasks, Heartbeat(t) \/ RestartTask(t)
    PROVE  WatchInv'
<1> USE WatchAssumption DEF WatchInv, Heartbeat, RestartTask, Fresh
<1>1. /\ sup' = [sup EXCEPT ![t] = "run"]
      /\ silent' = [silent EXCEPT ![t] = 0]
      /\ healthy' = [healthy EXCEPT ![t] = TRUE]
      /\ sup[t] # "ended"
      /\ UNCHANGED <<restarts, sock, retries, phase, spinning>>
  <2>1. CASE Heartbeat(t)
    <3>1. sup[t] = "run" /\ UNCHANGED sup /\ sup \in [Tasks -> {"run", "backoff", "ended"}]
      BY <2>1 DEF WatchTypeOK
    <3>2. sup' = [sup EXCEPT ![t] = "run"]
      BY <3>1
    <3> QED BY <2>1, <3>1, <3>2
  <2>2. CASE RestartTask(t)
    BY <2>2
  <2> QED BY <2>1, <2>2
<1>2. silent' \in [Tasks -> 0..Patience + 1]
  BY <1>1 DEF WatchTypeOK
<1>3. WatchTypeOK'
  BY <1>1, <1>2 DEF WatchTypeOK
<1>4. Budgeted'
  BY <1>1 DEF Budgeted, WatchTypeOK
<1>5. HealthyRuns'
  BY <1>1 DEF HealthyRuns, AppRunning, WatchTypeOK
<1> QED BY <1>3, <1>4, <1>5

(* A task that crashes is called unhealthy in the same step. *)
LEMMA CrashInv ==
    ASSUME WatchInv, NEW t \in Tasks, TaskCrashes(t)
    PROVE  WatchInv'
<1> USE WatchAssumption DEF WatchInv, TaskCrashes
<1>1. restarts[t] \in 0..MaxRestarts
  BY DEF WatchTypeOK, Budgeted
<1>2. restarts' \in [Tasks -> 0..MaxRestarts + 1]
  BY <1>1 DEF WatchTypeOK
<1>3. WatchTypeOK'
  BY <1>2 DEF WatchTypeOK
<1>4. \A u \in Tasks : sup'[u] # "ended" => restarts'[u] <= MaxRestarts
  BY <1>1 DEF WatchTypeOK, Budgeted
<1>5. Budgeted'
  BY <1>4 DEF Budgeted
<1>6. HealthyRuns'
  BY DEF HealthyRuns, AppRunning, WatchTypeOK
<1> QED BY <1>3, <1>5, <1>6

(* Bodies return only when the application has been told to stop. *)
LEMMA ReturnInv ==
    ASSUME WatchInv, NEW t \in Tasks, Return(t)
    PROVE  WatchInv'
<1> USE WatchAssumption DEF WatchInv, Return, Fresh
<1>1. silent' \in [Tasks -> 0..Patience + 1] /\ healthy' \in [Tasks -> BOOLEAN]
  <2>1. silent \in [Tasks -> 0..Patience + 1] /\ healthy \in [Tasks -> BOOLEAN]
    BY DEF WatchTypeOK
  <2>2. silent' = silent \/ silent' = [silent EXCEPT ![t] = 0]
    OBVIOUS
  <2>3. healthy' = healthy \/ healthy' = [healthy EXCEPT ![t] = TRUE]
    OBVIOUS
  <2>4. silent' \in [Tasks -> 0..Patience + 1]
    BY <2>1, <2>2
  <2>5. healthy' \in [Tasks -> BOOLEAN]
    BY <2>1, <2>3
  <2> QED BY <2>4, <2>5
<1>2. sup' \in [Tasks -> {"run", "backoff", "ended"}] /\ spinning' \in BOOLEAN
  BY DEF WatchTypeOK
<1>3. WatchTypeOK'
  BY <1>1, <1>2 DEF WatchTypeOK
<1>4. Budgeted'
  BY DEF Budgeted, WatchTypeOK
<1>5. HealthyRuns'
  BY DEF HealthyRuns, AppRunning
<1> QED BY <1>3, <1>4, <1>5

(* The monitor takes health away and never gives it back. *)
LEMMA MonitorInv ==
    ASSUME WatchInv, Monitor
    PROVE  WatchInv'
<1> USE WatchAssumption DEF WatchInv, Monitor
<1>1. \A t \in Tasks : silent[t] \in 0..Patience + 1
  BY DEF WatchTypeOK
<1>2. \A t \in Tasks : (IF silent[t] > Patience THEN silent[t] ELSE silent[t] + 1)
                          \in 0..Patience + 1
  BY <1>1
<1>3. silent' \in [Tasks -> 0..Patience + 1]
  BY <1>2
<1>4. \A t \in Tasks : healthy'[t] => healthy[t]
  OBVIOUS
<1>5. healthy' \in [Tasks -> BOOLEAN]
  BY DEF WatchTypeOK
<1>6. WatchTypeOK' /\ Budgeted'
  BY <1>3, <1>5 DEF WatchTypeOK, Budgeted
<1>7. HealthyRuns'
  BY <1>4 DEF HealthyRuns, AppRunning
<1> QED BY <1>6, <1>7

(* The connection loop touches no task. *)
LEMMA SocketInv ==
    ASSUME WatchInv, Connect \/ Disconnect \/ Reconnect
    PROVE  WatchInv'
<1> USE WatchAssumption DEF WatchInv, Connect, Disconnect, Reconnect
<1>1. UNCHANGED <<sup, restarts, healthy, silent, phase, spinning>>
  OBVIOUS
<1>2. /\ retries' \in 0..MaxRetries + 1
      /\ sock' \in {"connecting", "up", "waiting", "ended"}
      /\ sock' # "ended" => retries' <= MaxRetries
  BY DEF WatchTypeOK, Budgeted
<1>3. WatchTypeOK' /\ Budgeted' /\ HealthyRuns'
  BY <1>1, <1>2 DEF WatchTypeOK, Budgeted, HealthyRuns, AppRunning
<1> QED BY <1>3

(* Every phase but the first is one in which HealthyRuns promises nothing. *)
LEMMA ShutdownInv ==
    ASSUME WatchInv, RequestShutdown \/ Stop
    PROVE  WatchInv'
<1> USE DEF WatchInv, RequestShutdown, Stop, StopAll, CancelTask, StopSocket, Persist
<1>1. UNCHANGED <<restarts, healthy, silent, retries, spinning>>
  OBVIOUS
<1>2. /\ sup' \in [Tasks -> {"run", "backoff", "ended"}]
      /\ \A t \in Tasks : sup'[t] # "ended" => sup[t] # "ended"
  BY DEF WatchTypeOK
<1>3. sock' \in {sock, "ended"} /\ phase' \in {"alert", "tasks", "persist", "down"}
  OBVIOUS
<1>4. WatchTypeOK' /\ Budgeted' /\ HealthyRuns'
  BY <1>1, <1>2, <1>3 DEF WatchTypeOK, Budgeted, HealthyRuns, AppRunning
<1> QED BY <1>4
-----------------------------------------------------------------------------
LEMMA WatchStepInv == WatchInv /\ [WatchNext]_watchVars => WatchInv'
<1> SUFFICES ASSUME WatchInv, [WatchNext]_watchVars PROVE WatchInv'
  OBVIOUS
<1>1. CASE UNCHANGED watchVars
  BY <1>1 DEF watchVars, WatchInv, WatchTypeOK, Budgeted, HealthyRuns, AppRunning
<1>2. CASE \E t \in Tasks : Heartbeat(t) \/ TaskCrashes(t) \/ RestartTask(t) \/ Return(t)
  BY <1>2, FreshInv, CrashInv, ReturnInv
<1>3. CASE Monitor
  BY <1>3, MonitorInv
<1>4. CASE Connect \/ Disconnect \/ Reconnect
  BY <1>4, SocketInv
<1>5. CASE RequestShutdown \/ Stop
  BY <1>5, ShutdownInv
<1> QED BY <1>1, <1>2, <1>3, <1>4, <1>5 DEF WatchNext, Rest

(* No task runs or waits with its budget spent, and health is never        *)
(* claimed for one that does not run.                                      *)
THEOREM WatchHolds == WatchSpec => []WatchInv
<1> QED BY WatchInitInv, WatchStepInv, PTL DEF WatchSpec

(* While the application runs, a task that the health summary calls        *)
(* healthy has a running body (watchdog.py:94-145).                        *)
THEOREM HealthHolds == WatchSpec => []HealthyRuns
<1>1. WatchInv => HealthyRuns
  BY DEF WatchInv
<1> QED BY <1>1, WatchHolds, PTL

-----------------------------------------------------------------------------
(***************************************************************************)
(* The candles.  HandledInOrder compares a candle with the one handled     *)
(* before, the code with the last of the buffer: they are the same, since  *)
(* whatever cuts or corrects the buffer keeps the time of its last candle. *)
(* What is on the wire ascends and is not older.                           *)
(***************************************************************************)
Received == [t : 1..MaxClosed, ok : BOOLEAN]

(* What was sent comes in the order of closing, and nothing older than     *)
(* what was handled is sent.                                               *)
Sent ==
    /\ \A i, j \in 1..Len(wire) : i < j => wire[i].t < wire[j].t
    /\ \A i \in 1..Len(wire) : handled <= wire[i].t /\ wire[i].t <= clock
    /\ ~link => wire = <<>>

(* The buffer ends with the candle that was handled last. *)
EndsHandled ==
    /\ handled > 0 => buffer # <<>> /\ buffer[Len(buffer)].t = handled
    /\ handled <= clock /\ count <= handled

(* Until the history is loaded nothing is received. *)
Loading ==
    /\ feed # "live" => ~link /\ handled = 0
    /\ feed = "fetched" => \E n \in Nat : check = 1..n

MarketInv == Market!TypeOK /\ Sent /\ EndsHandled /\ Loading

(* A buffer that is cut to its last candles keeps the last of them. *)
LEMMA LastOfFacts ==
    ASSUME NEW S, NEW s \in Seq(S), NEW n \in Nat \ {0}
    PROVE  /\ Market!LastOf(s, n) \in Seq(S)
           /\ Len(Market!LastOf(s, n)) <= n
           /\ s # <<>> => /\ Market!LastOf(s, n) # <<>>
                          /\ Market!LastOf(s, n)[Len(Market!LastOf(s, n))] = s[Len(s)]
<1> DEFINE k == Market!Lesser(n, Len(s))
           cut == SubSeq(s, Len(s) - k + 1, Len(s))
<1>1. /\ k \in Nat /\ k <= n /\ k <= Len(s)
      /\ s # <<>> => k >= 1
  BY DEF Market!Lesser
<1> HIDE DEF k
<1>2. /\ cut \in Seq(S)
      /\ Len(cut) = IF Len(s) - k + 1 <= Len(s) THEN k ELSE 0
      /\ \A i \in 1..k : cut[i] = s[Len(s) - k + i]
  <2>1. \A i \in (Len(s) - k + 1)..Len(s) : s[i] \in S
    BY <1>1
  <2>2. /\ cut \in Seq(S)
        /\ Len(cut) = IF Len(s) - k + 1 <= Len(s) THEN Len(s) - (Len(s) - k + 1) + 1 ELSE 0
        /\ \A i \in 1..(Len(s) - (Len(s) - k + 1) + 1) : cut[i] = s[Len(s) - k + 1 + i - 1]
    <3> HIDE DEF cut
    <3>1. Len(s) - k + 1 \in Int /\ Len(s) \in Int
      BY <1>1
    <3> QED BY <1>1, <2>1, <3>1, SubSeqProperties DEF cut
  <2>3. Len(s) - (Len(s) - k + 1) + 1 = k
    BY <1>1
  <2>4. \A i \in 1..k : Len(s) - k + 1 + i - 1 = Len(s) - k + i
    BY <1>1
  <2> HIDE DEF cut
  <2> QED BY <2>2, <2>3, <2>4
<1>3. /\ Len(cut) = k
      /\ s # <<>> => cut[k] = s[Len(s)]
  <2> HIDE DEF cut
  <2> QED BY <1>1, <1>2
<1>4. Market!LastOf(s, n) = cut
  BY DEF Market!LastOf, k
<1> HIDE DEF cut
<1> QED BY <1>1, <1>2, <1>3, <1>4

LEMMA SentTimes ==
    ASSUME NEW s \in Seq(Received), NEW i \in 1..Len(s)
    PROVE  s[i].t \in 1..MaxClosed
<1>1. s[i] \in Received
  OBVIOUS
<1> QED BY <1>1 DEF Received

LEMMA MarketInitInv == Market!Init => MarketInv
<1> SUFFICES ASSUME Market!Init PROVE MarketInv
  OBVIOUS
<1> USE MarketAssumption DEF Market!Init
<1>1. <<>> \in Seq([t : 1..MaxClosed, ok : BOOLEAN])
  BY EmptySeq
<1>2. clock \in 1..MaxClosed /\ Len(buffer) <= History
  OBVIOUS
<1>3. link \in BOOLEAN /\ busy \in BOOLEAN
  BY Zenon
<1>4. Market!TypeOK
  BY <1>1, <1>2, <1>3 DEF Market!TypeOK
<1>5. Sent
  BY <1>1, EmptySeq DEF Sent
<1> QED BY <1>4, <1>5 DEF MarketInv, EndsHandled, Loading

(* What the wire and the link bring. *)
LEMMA LinkInv ==
    ASSUME MarketInv, Market!CandleCloses \/ Market!LinkUp \/ Market!LinkDown
    PROVE  MarketInv'
<1> USE MarketAssumption DEF MarketInv
<1>1. CASE Market!CandleCloses
  <2> USE <1>1 DEF Market!CandleCloses
  <2>1. clock' = clock + 1 /\ clock' \in 1..MaxClosed /\ clock \in 1..MaxClosed
    BY DEF Market!TypeOK
  <2>2. PICK ok \in BOOLEAN :
          wire' = IF link THEN Append(wire, [t |-> clock', ok |-> ok]) ELSE wire
    OBVIOUS
  <2>3. wire \in Seq(Received) /\ [t |-> clock', ok |-> ok] \in Received
    BY <2>1 DEF Market!TypeOK, Received
  <2>4. wire' \in Seq(Received)
    BY <2>2, <2>3
  <2>5. Market!TypeOK'
    BY <2>1, <2>4 DEF Market!TypeOK, Received
  <2>6. Sent'
    <3>1. CASE link
      <4>1. /\ Len(wire') = Len(wire) + 1 /\ Len(wire) \in Nat
            /\ \A i \in 1..Len(wire) : wire'[i] = wire[i] /\ wire[i].t \in 1..MaxClosed
            /\ wire'[Len(wire) + 1].t = clock + 1
        <5> DEFINE k == [t |-> clock', ok |-> ok]
        <5>1. k.t = clock + 1 /\ k \in Received
          BY <2>1, <2>3
        <5>2. wire' = Append(wire, k)
          BY <2>2, <3>1
        <5> HIDE DEF k
        <5>3. \A i \in 1..Len(wire) : wire[i] \in Received
          BY <2>3
        <5>4. \A i \in 1..Len(wire) : wire[i].t \in 1..MaxClosed
          BY <5>3 DEF Received
        <5> QED BY <2>3, <5>1, <5>2, <5>4, AppendProperties
      <4>2. handled' = handled /\ handled \in Nat /\ handled <= clock
        BY DEF Market!TypeOK, EndsHandled
      <4>3. ASSUME NEW i \in 1..Len(wire'), NEW j \in 1..Len(wire'), i < j
            PROVE  wire'[i].t < wire'[j].t
        <5>1. i \in 1..Len(wire)
          BY <4>1, <4>3
        <5>2. CASE j \in 1..Len(wire)
          BY <4>1, <4>3, <5>1, <5>2 DEF Sent
        <5>3. CASE j = Len(wire) + 1
          BY <2>1, <4>1, <5>1, <5>3 DEF Sent
        <5> QED BY <4>1, <5>2, <5>3
      <4>4. ASSUME NEW i \in 1..Len(wire')
            PROVE  handled' <= wire'[i].t /\ wire'[i].t <= clock'
        <5>1. CASE i \in 1..Len(wire)
          BY <2>1, <4>1, <4>2, <5>1 DEF Sent
        <5>2. CASE i = Len(wire) + 1
          BY <2>1, <4>1, <4>2, <5>2
        <5> QED BY <4>1, <5>1, <5>2
      <4> QED BY <3>1, <4>3, <4>4 DEF Sent
    <3>2. CASE ~link
      <4>1. wire' = <<>>
        BY <2>2, <3>2 DEF Sent
      <4> QED BY <4>1 DEF Sent
    <3> QED BY <3>1, <3>2
  <2>7. EndsHandled'
    BY <2>1 DEF EndsHandled, Market!TypeOK
  <2> QED BY <2>5, <2>6, <2>7 DEF Loading
<1>2. CASE Market!LinkUp
  <2> USE <1>2 DEF Market!LinkUp
  <2>1. clock \in 1..MaxClosed /\ handled \in Nat /\ handled <= clock
    BY DEF Market!TypeOK, EndsHandled
  <2>2. wire' = <<>> \/ wire' = <<[t |-> clock, ok |-> TRUE]>>
    OBVIOUS
  <2>3. wire' \in Seq(Received)
    <3>1. [t |-> clock, ok |-> TRUE] \in Received
      BY <2>1 DEF Received
    <3>2. <<[t |-> clock, ok |-> TRUE]>> \in Seq(Received)
      <4> DEFINE k == [t |-> clock, ok |-> TRUE]
      <4> HIDE DEF k
      <4>1. k \in Received => <<k>> \in Seq(Received)
        OBVIOUS
      <4> QED BY <3>1, <4>1 DEF k
    <3>3. <<>> \in Seq(Received)
      BY EmptySeq
    <3> QED BY <2>2, <3>2, <3>3
  <2>4. Market!TypeOK'
    BY <2>3 DEF Market!TypeOK, Received
  <2>5. Sent'
    BY <2>1, <2>2 DEF Sent
  <2> QED BY <2>4, <2>5 DEF EndsHandled, Loading
<1>3. CASE Market!LinkDown
  <2> USE <1>3 DEF Market!LinkDown
  <2>1. wire' \in Seq([t : 1..MaxClosed, ok : BOOLEAN])
    BY EmptySeq
  <2>2. Market!TypeOK'
    <3>1. drops' \in 0..MaxDrops
      BY DEF Market!TypeOK
    <3>2. link' \in BOOLEAN
      BY Zenon
    <3> QED BY <2>1, <3>1, <3>2 DEF Market!TypeOK
  <2>3. Sent'
    BY EmptySeq DEF Sent
  <2> QED BY <2>2, <2>3 DEF EndsHandled, Loading
<1> QED BY <1>1, <1>2, <1>3

(* The history, the checks and the end of a handler. *)
LEMMA BufferInv ==
    ASSUME MarketInv,
           \/ Market!AskHistory \/ Market!LoadHistory \/ Market!HistoryFails
           \/ Market!HandlerReturns \/ Market!Check \/ Market!CheckFails
    PROVE  MarketInv'
<1> USE MarketAssumption DEF MarketInv
<1>0. Market!TypeOK
  OBVIOUS
<1>1. CASE Market!AskHistory
  BY <1>1 DEF Market!AskHistory, Market!TypeOK, Sent, EndsHandled, Loading
<1>2. CASE Market!LoadHistory
  <2> USE <1>2 DEF Market!LoadHistory
  <2>1. PICK n \in Nat : check = 1..n
    BY DEF Loading
  <2> DEFINE loaded == [i \in check |-> [t |-> i, ok |-> TRUE]]
  <2>2. loaded \in Seq(Received)
    <3>1. \A i \in check : i \in 1..MaxClosed
      BY DEF Market!TypeOK
    <3>2. \A i \in 1..n : [t |-> i, ok |-> TRUE] \in Received
      BY <2>1, <3>1 DEF Received
    <3> QED BY <2>1, <3>2
  <2>3. buffer' \in Seq(Received) /\ Len(buffer') <= History
    BY <2>2, LastOfFacts
  <2>4. Market!TypeOK'
    BY <2>3 DEF Market!TypeOK, Received
  <2> QED BY <2>4 DEF Sent, EndsHandled, Loading
<1>3. CASE Market!HistoryFails
  BY <1>3 DEF Market!HistoryFails, Market!TypeOK, Sent, EndsHandled, Loading
<1>4. CASE Market!HandlerReturns
  BY <1>4 DEF Market!HandlerReturns, Market!TypeOK, Sent, EndsHandled, Loading
<1>5. CASE Market!AskCheck
  BY <1>5 DEF Market!AskCheck, Market!TypeOK, Sent, EndsHandled, Loading
<1>6. CASE Market!ApplyCheck
  <2> USE <1>6 DEF Market!ApplyCheck
  <2>1. buffer \in Seq(Received)
    BY DEF Market!TypeOK, Received
  <2>2. \A i \in 1..Len(buffer) :
           (IF buffer[i].t \in check THEN [buffer[i] EXCEPT !.ok = TRUE] ELSE buffer[i]) \in Received
    <3>1. \A k \in Received : [k EXCEPT !.ok = TRUE] \in Received
      BY DEF Received
    <3> QED BY <2>1, <3>1
  <2>3. DOMAIN buffer = 1..Len(buffer)
    BY <2>1
  <2>4. buffer' \in Seq(Received) /\ Len(buffer') = Len(buffer)
    BY <2>2, <2>3
  <2>5. \A i \in 1..Len(buffer) : buffer'[i].t = buffer[i].t
    <3>1. \A i \in 1..Len(buffer) : buffer[i] \in Received
      BY <2>1
    <3>2. \A k \in Received : [k EXCEPT !.ok = TRUE].t = k.t
      BY DEF Received
    <3> QED BY <2>3, <3>1, <3>2
  <2>6. buffer # <<>> => buffer' # <<>> /\ buffer'[Len(buffer')].t = buffer[Len(buffer)].t
    BY <2>1, <2>4, <2>5
  <2>7. Market!TypeOK'
    BY <2>4 DEF Market!TypeOK, Received
  <2> QED BY <2>6, <2>7 DEF Sent, EndsHandled, Loading
<1>7. CASE Market!CheckFails
  BY <1>7 DEF Market!CheckFails, Market!TypeOK, Sent, EndsHandled, Loading
<1> QED BY <1>1, <1>2, <1>3, <1>4, <1>5, <1>6, <1>7 DEF Market!Check

(* A candle that is not a repetition is younger than the last one handled. *)
LEMMA HandleInv ==
    ASSUME MarketInv, Market!HandleKline
    PROVE  MarketInv' /\ (count' # count => handled' > handled)
<1> USE MarketAssumption DEF MarketInv, Market!HandleKline
<1> DEFINE k == Head(wire)
<1>1. /\ wire \in Seq(Received) /\ buffer \in Seq(Received)
      /\ handled \in Nat /\ count \in Nat /\ clock \in 1..MaxClosed
  BY DEF Market!TypeOK, Received
<1>2. /\ k = wire[1] /\ k \in Received /\ k.t \in 1..MaxClosed
      /\ wire' \in Seq(Received) /\ Len(wire') = Len(wire) - 1
      /\ \A i \in 1..Len(wire') : wire'[i] = wire[i + 1] /\ i + 1 \in 1..Len(wire)
      /\ 1 \in 1..Len(wire)
  <2>1. k = wire[1] /\ k \in Received /\ 1 \in 1..Len(wire)
    BY <1>1
  <2>2. \A c \in Received : c.t \in 1..MaxClosed
    BY DEF Received
  <2>3. wire' = Tail(wire)
    OBVIOUS
  <2> QED BY <1>1, <2>1, <2>2, <2>3, HeadTailProperties
<1>3. /\ handled <= k.t /\ k.t <= clock
      /\ \A i \in 1..Len(wire') : k.t < wire'[i].t /\ wire'[i].t <= clock
  BY <1>2 DEF Sent
<1>4. \A i, j \in 1..Len(wire') : i < j => wire'[i].t < wire'[j].t
  BY <1>2 DEF Sent
<1>5. link
  BY DEF Sent
<1>6. CASE Market!IsRepeat(k)
  <2>1. UNCHANGED <<buffer, busy, handled, count, clock, link, feed, check, drops>>
    BY <1>6
  <2>2. Market!TypeOK'
    BY <1>2, <2>1 DEF Market!TypeOK, Received
  <2>3. \A i \in 1..Len(wire') : wire'[i].t \in 1..MaxClosed
    BY <1>2, SentTimes
  <2>4. Sent'
    BY <1>1, <1>2, <1>3, <1>4, <1>5, <2>1, <2>3 DEF Sent
  <2> QED BY <2>1, <2>2, <2>4 DEF EndsHandled, Loading
<1>7. CASE ~Market!IsRepeat(k)
  <2>1. /\ buffer' = Market!LastOf(Append(buffer, k), History)
        /\ handled' = k.t /\ count' = count + 1
        /\ UNCHANGED <<clock, link, feed, check, drops>> /\ busy' = TRUE
    BY <1>7
  <2>2. handled < k.t
    <3>1. CASE handled = 0
      BY <1>2, <3>1
    <3>2. CASE handled > 0
      <4>1. buffer # <<>> /\ buffer[Len(buffer)].t = handled
        BY <3>2 DEF EndsHandled
      <4>2. handled # k.t
        BY <1>7, <4>1 DEF Market!IsRepeat
      <4> QED BY <1>1, <1>2, <1>3, <4>2
    <3> QED BY <1>1, <3>1, <3>2
  <2>3. /\ Append(buffer, k) \in Seq(Received) /\ Append(buffer, k) # <<>>
        /\ Append(buffer, k)[Len(Append(buffer, k))] = k
    BY <1>1, <1>2
  <2>4. /\ buffer' \in Seq(Received) /\ Len(buffer') <= History
        /\ buffer' # <<>> /\ buffer'[Len(buffer')] = k
    BY <2>1, <2>3, LastOfFacts
  <2>5. count' <= handled' /\ handled' <= clock' /\ handled' \in 0..MaxClosed
    BY <1>1, <1>2, <1>3, <2>1, <2>2 DEF EndsHandled
  <2>6. count' \in 0..MaxClosed
    BY <1>1, <2>1, <2>5
  <2>7. Market!TypeOK'
    BY <1>2, <2>1, <2>4, <2>5, <2>6 DEF Market!TypeOK, Received
  <2>8. \A i \in 1..Len(wire') : wire'[i].t \in 1..MaxClosed
    BY <1>2, SentTimes
  <2>9. Sent'
    BY <1>2, <1>3, <1>4, <1>5, <2>1, <2>8 DEF Sent
  <2>10. feed = "live"
    BY <1>5 DEF Loading
  <2>11. EndsHandled' /\ Loading'
    BY <2>1, <2>4, <2>5, <2>10 DEF EndsHandled, Loading
  <2> QED BY <1>1, <1>2, <2>1, <2>2, <2>7, <2>9, <2>11
<1> QED BY <1>6, <1>7

LEMMA MarketStepInv == MarketInv /\ [Market!Next]_Market!vars => MarketInv'
<1> SUFFICES ASSUME MarketInv, [Market!Next]_Market!vars PROVE MarketInv'
  OBVIOUS
<1>1. ASSUME UNCHANGED Market!vars PROVE MarketInv'
  BY <1>1 DEF Market!vars, MarketInv, Market!TypeOK, Sent, EndsHandled, Loading
<1> QED BY <1>1, LinkInv, BufferInv, HandleInv DEF Market!Next

(* The inductive invariant of the candles: the buffer ends with what was   *)
(* handled, and the wire ascends from there.                               *)
THEOREM CandlesInOrder == Market!Spec => []MarketInv
<1> QED BY MarketInitInv, MarketStepInv, PTL DEF Market!Spec

(* Only HandleKline counts. *)
LEMMA OnlyHandlingCounts ==
    ASSUME MarketInv, [Market!Next]_Market!vars, count' # count
    PROVE  handled' > handled
<1>1. Market!HandleKline
  BY DEF Market!Next, Market!vars, Market!CandleCloses, Market!LinkUp, Market!LinkDown,
         Market!AskHistory, Market!LoadHistory, Market!HistoryFails, Market!HandlerReturns,
         Market!Check, Market!AskCheck, Market!ApplyCheck, Market!CheckFails
<1> QED BY <1>1, HandleInv

(* The suite runs the candle manager as its module says. *)
LEMMA SuiteRunsMarket == MCSpec => Market!Spec
<1>1. MCInit => Market!Init
  BY DEF MCInit
<1>2. [MCNext]_allVars => [Market!Next]_Market!vars
  BY DEF MCNext, Only, allVars, marketVars, Market!vars
<1> QED BY <1>1, <1>2, PTL DEF MCSpec, Market!Spec

(* Candles reach the strategy in the order of time and once each, although *)
(* the wire repeats and the checks rewrite the buffer                      *)
(* (candle_manager.py:76-94).                                              *)
THEOREM HandledInOrderHolds == MCSpec => HandledInOrder
<1>1. MarketInv /\ [Market!Next]_Market!vars => [count' # count => handled' > handled]_Market!vars
  BY OnlyHandlingCounts
<1> QED BY <1>1, CandlesInOrder, SuiteRunsMarket, PTL
        DEF Market!Spec, HandledInOrder, Market!HandledInOrder
-----------------------------------------------------------------------------
(* The suite runs the writer, the watchdog and the v5 runner as their      *)
(* modules say.                                                            *)
LEMMA SuiteRunsServices ==
    /\ MCSpec => WriterInit /\ [][WriterNext]_writerVars
    /\ MCSpec => WatchInit /\ [][WatchNext]_watchVars
    /\ MCSpec => Spec
<1>1. MCInit => WriterInit /\ WatchInit /\ Init
  BY DEF MCInit
<1>2. [MCNext]_allVars => [WriterNext]_writerVars
  BY DEF MCNext, Only, allVars, writerVars
<1>3. [MCNext]_allVars => [WatchNext]_watchVars
  BY DEF MCNext, Only, allVars, watchVars
<1>4. [MCNext]_allVars => [Next]_vars
  BY DEF MCNext, Only, allVars, vars
<1> QED BY <1>1, <1>2, <1>3, <1>4, PTL DEF MCSpec, Spec

(* Every variable of every service has its type, for any number of         *)
(* callers, symbols, candles and tasks.                                    *)
THEOREM ServiceTypes == MCSpec => []TypesHold
<1>1. WriterInit /\ [][WriterNext]_writerVars => []WriterTypeOK
  <2>1. WriterInv => WriterTypeOK
    BY DEF WriterInv
  <2> QED BY <2>1, WriterInitInv, WriterStepInv, PTL
<1>2. WatchInit /\ [][WatchNext]_watchVars => []WatchTypeOK
  <2>1. WatchInv => WatchTypeOK
    BY DEF WatchInv
  <2> QED BY <2>1, WatchInitInv, WatchStepInv, PTL
<1>3. MCSpec => []Market!TypeOK
  <2>1. MarketInv => Market!TypeOK
    BY DEF MarketInv
  <2> QED BY <2>1, SuiteRunsMarket, CandlesInOrder, PTL
<1>4. WriterTypeOK /\ WatchTypeOK /\ Market!TypeOK /\ TypeOK => TypesHold
  BY DEF TypesHold
<1> QED BY <1>1, <1>2, <1>3, <1>4, SuiteRunsServices, TypeInvariant, PTL
=============================================================================
