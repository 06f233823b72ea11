---------------------------- MODULE WriterQueue ----------------------------
(***************************************************************************)
(* The single writer of storage/database.py: callers put their statement   *)
(* and a future on an unbounded queue, one task executes and commits them, *)
(* and close() stops it with a sentinel.  Writes are numbered in the order *)
(* in which they are submitted; a number stands for the statement and for  *)
(* its future.                                                             *)
(***************************************************************************)
EXTENDS Naturals, Sequences

CONSTANTS Callers,     \* the tasks that write
          MaxWrites,   \* bound: writes ever submitted
          MaxFailures, \* bound: statements or commits that fail
          MaxStarts    \* bound: processes started after the first

\* What the theorems assume of the bounds.
ASSUME WriterAssumption ==
    /\ MaxWrites \in Nat
    /\ MaxFailures \in Nat
    /\ MaxStarts \in Nat

VARIABLES running,    \* Database._running
          queue,      \* _write_queue: numbers, Sentinel
          loop,       \* where _writer_loop is: get, execute, commit, ended
          item,       \* the write it holds
          tx,         \* statements executed and not committed
          durable,    \* statements a restart finds
          call,       \* the write each caller awaits, 0 for none
          answered,   \* writes whose caller returned (observation)
          submitted,  \* number of the last write
          spent       \* how much of the bounds is used

writerVars == <<running, queue, loop, item, tx, durable, call, answered, submitted, spent>>

Sentinel == 0
Waiting(n) == \E c \in Callers : call[c] = n

WriterInit ==
    /\ running = TRUE
    /\ queue = <<>>
    /\ loop = "get"
    /\ item = 0
    /\ tx = {}
    /\ durable = {}
    /\ call = [c \in Callers |-> 0]
    /\ answered = {}
    /\ submitted = 0
    /\ spent = [errors |-> 0, starts |-> 0]
-----------------------------------------------------------------------------
(* _write: nothing asks whether the writer still runs. *)
Submit(c) ==
    /\ call[c] = 0
    /\ submitted < MaxWrites
    /\ submitted' = submitted + 1
    /\ queue' = Append(queue, submitted')
    /\ call' = [call EXCEPT ![c] = submitted']
    /\ UNCHANGED <<running, loop, item, tx, durable, answered, spent>>

(* The task of a caller is cancelled and its future with it. *)
Cancel(c) ==
    /\ call[c] # 0
    /\ call' = [call EXCEPT ![c] = 0]
    /\ UNCHANGED <<running, queue, loop, item, tx, durable, answered, submitted, spent>>

(* Mutant of Take: the loop looks at _running alone and leaves the rest of *)
(* its queue.                                                              *)
TakeRunning ==
    /\ loop = "get"
    /\ queue # <<>>
    /\ queue' = Tail(queue)
    /\ item' = Head(queue)
    /\ loop' = IF ~running \/ Head(queue) = Sentinel THEN "ended" ELSE "execute"
    /\ UNCHANGED <<running, tx, durable, call, answered, submitted, spent>>

(* The writer takes the next item; the sentinel ends it. *)
Take ==
    /\ loop = "get"
    /\ queue # <<>>
    /\ queue' = Tail(queue)
    /\ item' = Head(queue)
    /\ loop' = IF Head(queue) = Sentinel THEN "ended" ELSE "execute"
    /\ UNCHANGED <<running, tx, durable, call, answered, submitted, spent>>

(* Mutant of Execute: the caller is released before the commit. *)
ExecuteAnswers ==
    /\ loop = "execute"
    /\ tx' = tx \cup {item}
    /\ loop' = "commit"
    /\ call' = [c \in Callers |-> IF call[c] = item THEN 0 ELSE call[c]]
    /\ answered' = IF Waiting(item) THEN answered \cup {item} ELSE answered
    /\ UNCHANGED <<running, queue, item, durable, submitted, spent>>

Execute ==
    /\ loop = "execute"
    /\ tx' = tx \cup {item}
    /\ loop' = "commit"
    /\ UNCHANGED <<running, queue, item, durable, call, answered, submitted, spent>>

(* set_result reaches the caller unless its future is done already. *)
Resolve(n, ok) ==
    /\ call' = [c \in Callers |-> IF call[c] = n THEN 0 ELSE call[c]]
    /\ answered' = IF ok /\ Waiting(n) THEN answered \cup {n} ELSE answered
    /\ loop' = "get"
    /\ item' = 0

Commit ==
    /\ loop = "commit"
    /\ durable' = durable \cup tx
    /\ tx' = {}
    /\ Resolve(item, TRUE)
    /\ UNCHANGED <<running, queue, submitted, spent>>

(* Mutant of Fail: the statement is put back at the end of the queue. *)
FailRequeues ==
    /\ loop \in {"execute", "commit"}
    /\ spent.errors < MaxFailures
    /\ spent' = [spent EXCEPT !.errors = @ + 1]
    /\ queue' = Append(queue, item)
    /\ loop' = "get"
    /\ item' = 0
    /\ UNCHANGED <<running, tx, durable, call, answered, submitted>>

(* The statement or its commit fails.  Nothing is rolled back: what was    *)
(* executed stays in the open transaction for the next commit.             *)
Fail ==
    /\ loop \in {"execute", "commit"}
    /\ spent.errors < MaxFailures
    /\ spent' = [spent EXCEPT !.errors = @ + 1]
    /\ Resolve(item, FALSE)
    /\ UNCHANGED <<running, queue, tx, durable, submitted>>

(* The last call of Bitana.shutdown. *)
CloseDatabase ==
    /\ running
    /\ running' = FALSE
    /\ queue' = Append(queue, Sentinel)
    /\ UNCHANGED <<loop, item, tx, durable, call, answered, submitted, spent>>

(* The process is gone, after close() or without it, and another one opens *)
(* the file: the open transaction is rolled back.                          *)
Reopen ==
    /\ spent.starts < MaxStarts
    /\ spent' = [spent EXCEPT !.starts = @ + 1]
    /\ running' = TRUE
    /\ queue' = <<>>
    /\ loop' = "get"
    /\ item' = 0
    /\ tx' = {}
    /\ call' = [c \in Callers |-> 0]
    /\ UNCHANGED <<durable, answered, submitted>>

(* The writer has ended; callers may wait for it for ever. *)
Ended == loop = "ended" /\ UNCHANGED writerVars

Writer == Take \/ Execute \/ Commit \/ Fail

WriterNext ==
    \/ \E c \in Callers : Submit(c) \/ Cancel(c)
    \/ Writer
    \/ CloseDatabase
    \/ Reopen
    \/ Ended

WriterSpec == WriterInit /\ [][WriterNext]_writerVars
-----------------------------------------------------------------------------
Numbers == 1..submitted
Queued == {queue[i] : i \in DOMAIN queue}
Pending == (Queued \cup {item}) \ {Sentinel}

(* Every variable has its type. *)
WriterTypeOK ==
    /\ running \in BOOLEAN
    /\ queue \in Seq(Nat)
    /\ loop \in {"get", "execute", "commit", "ended"}
    /\ item \in Nat
    /\ submitted \in Nat
    /\ call \in [Callers -> Numbers \cup {0}]
    /\ tx \subseteq Numbers
    /\ durable \subseteq Numbers
    /\ answered \subseteq Numbers
    /\ spent \in [errors : 0..MaxFailures, starts : 0..MaxStarts]

(* A write returns only when a restart would find it (database.py:209, the *)
(* await of the future), whatever failed before it in the same             *)
(* transaction.                                                            *)
AnsweredIsDurable == answered \subseteq durable

(* Writes become durable in the order in which they were submitted: none   *)
(* that still waits for the writer is older than one a restart finds, so   *)
(* the row of a key holds its newest value (database.py:5).                *)
NoOvertaking == \A n \in durable : \A m \in Pending : n < m

(* A write submitted while the writer runs is answered, also when close()  *)
(* follows at once: the loop drains its queue before the sentinel.  (One   *)
(* that is submitted after the sentinel waits for ever, database.py:209.)  *)
AnsweredUnlessClosed == \A c \in Callers : (running /\ call[c] # 0) ~> (call[c] = 0)
=============================================================================
