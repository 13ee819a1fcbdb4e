----------------------------- MODULE CheckQueue -----------------------------
(***************************************************************************)
(* CCheckQueue and CCheckQueueControl of checkqueue.h: the worker threads  *)
(* of one script check queue and the master that adds the checks of a      *)
(* block and then joins them in Wait().                                    *)
(*                                                                         *)
(* Each pass through the locked part of Loop() is one step: the clean-up   *)
(* of the batch before, and what "logically, the do loop starts here" says *)
(* next.  A batch runs with the mutex free; it touches nothing shared, so  *)
(* its evaluation is part of the step that reports it.  The waits are      *)
(* timed (100 ms), so a waiting thread may look again at any moment and    *)
(* the notifications decide only how soon.  "As the order of booleans      *)
(* doesn't matter" the queue is a set, and any part of it may be taken.    *)
(***************************************************************************)
EXTENDS Integers, FiniteSets

CONSTANTS
    Workers,    \* the threads that run Thread()
    Master,     \* the thread that runs Wait(), one block at a time
    Checks,     \* the script checks of a block
    Bad,        \* those that return false
    BatchSize   \* nBatchSize

ASSUME CheckQueueAssumption ==
    /\ IsFiniteSet(Workers)
    /\ Master \notin Workers
    /\ IsFiniteSet(Checks)
    /\ Bad \subseteq Checks
    /\ BatchSize \in Nat \ {0}

Threads == Workers \union {Master}

VARIABLES
    queue,      \* checks nobody has taken
    nTodo,      \* checks that have not been completed
    nIdle,      \* threads that wait
    nTotal,     \* threads in Loop()
    fAllOk,     \* no check of this round failed
    fQuit,      \* this round is given up
    fExit,      \* the threads are to end
    pc,         \* pc[t]: "start", "wait", "work" or "exit"; of the master also
                \* "out" (no round) and "add" (between Queue() and Wait())
    vChecks,    \* vChecks[t]: the batch t is running
    fOk,        \* fOk[t]: fAllOk when t took it
    added,      \* history: the checks of this round
    verdict     \* history: what the last Wait() returned

vars == <<queue, nTodo, nIdle, nTotal, fAllOk, fQuit, fExit, pc, vChecks, fOk,
          added, verdict>>

Init ==
    /\ queue = {}
    /\ nTodo = 0
    /\ nIdle = 0
    /\ nTotal = 0
    /\ fAllOk = TRUE
    /\ fQuit = FALSE
    /\ fExit = FALSE
    /\ pc = [t \in Threads |-> IF t = Master THEN "out" ELSE "start"]
    /\ vChecks = [t \in Threads |-> {}]
    /\ fOk = [t \in Threads |-> TRUE]
    /\ added = {}
    /\ verdict = "none"

IsIdle == nTotal = nIdle /\ nTodo = 0 /\ fAllOk

\* Checks that are queued or being run.
Running == {c \in Checks : \E t \in Threads : c \in vChecks[t]}
Pending == queue \union Running
-----------------------------------------------------------------------------
(* The locked part of Loop() from "logically, the do loop starts here":    *)
(* q, todo, ok, total and idle are the shared values at that point.        *)

\* How many checks the next batch has.
BatchOf(q, total, idle) ==
    LET share == Cardinality(q) \div (total + idle + 1)
        most  == IF share < BatchSize THEN share ELSE BatchSize
    IN  IF most < 1 THEN 1 ELSE most

\* "Decide how many work units to process now."
TakeBatch(t, q, todo, ok, total, idle) ==
    /\ q # {}
    /\ \E B \in SUBSET q :
          /\ Cardinality(B) = BatchOf(q, total, idle)
          /\ vChecks' = [vChecks EXCEPT ![t] = B]
          /\ queue' = q \ B
    /\ fOk' = [fOk EXCEPT ![t] = ok]
    /\ pc' = [pc EXCEPT ![t] = "work"]
    /\ nTodo' = todo
    /\ fAllOk' = ok
    /\ nTotal' = total
    /\ nIdle' = idle
    /\ UNCHANGED <<fQuit, verdict>>

\* "if (fExit) return fAllOk"
Leave(t, q, todo, ok, total, idle) ==
    /\ q = {}
    /\ fExit
    /\ pc' = [pc EXCEPT ![t] = "exit"]
    /\ vChecks' = [vChecks EXCEPT ![t] = {}]
    /\ queue' = q
    /\ nTodo' = todo
    /\ fAllOk' = ok
    /\ nTotal' = total
    /\ nIdle' = idle
    /\ UNCHANGED <<fQuit, fOk, verdict>>

\* Mutant of Return: the master returns when the queue is empty, without looking
\* at nTodo.
Return_AtEmptyQueue(t, q, todo, ok, total, idle) ==
    /\ q = {}
    /\ ~fExit
    /\ t = Master
    /\ pc' = [pc EXCEPT ![t] = "out"]
    /\ vChecks' = [vChecks EXCEPT ![t] = {}]
    /\ queue' = q
    /\ nTodo' = todo
    /\ nTotal' = total - 1
    /\ nIdle' = idle
    /\ verdict' = IF ok THEN "ok" ELSE "bad"
    /\ fAllOk' = TRUE
    /\ fQuit' = FALSE
    /\ UNCHANGED fOk

\* The master returns the verdict and resets it for new work.
Return(t, q, todo, ok, total, idle) ==
    /\ q = {}
    /\ ~fExit
    /\ t = Master /\ todo = 0
    /\ pc' = [pc EXCEPT ![t] = "out"]
    /\ vChecks' = [vChecks EXCEPT ![t] = {}]
    /\ queue' = q
    /\ nTodo' = todo
    /\ nTotal' = total - 1
    /\ nIdle' = idle
    /\ verdict' = IF ok THEN "ok" ELSE "bad"
    /\ fAllOk' = TRUE
    /\ fQuit' = FALSE
    /\ UNCHANGED fOk

\* cond.wait_for: the mutex is released with the thread counted as idle.
GoIdle(t, q, todo, ok, total, idle) ==
    /\ q = {}
    /\ ~fExit
    /\ t # Master \/ todo # 0
    /\ pc' = [pc EXCEPT ![t] = "wait"]
    /\ vChecks' = [vChecks EXCEPT ![t] = {}]
    /\ queue' = q
    /\ nTodo' = todo
    /\ fAllOk' = ok
    /\ nTotal' = total
    /\ nIdle' = idle + 1
    /\ UNCHANGED <<fQuit, fOk, verdict>>

Proceed(t, q, todo, ok, total, idle) ==
    \/ TakeBatch(t, q, todo, ok, total, idle)
    \/ Leave(t, q, todo, ok, total, idle)
    \/ Return(t, q, todo, ok, total, idle)
    \/ GoIdle(t, q, todo, ok, total, idle)
-----------------------------------------------------------------------------
(* The clean-up of the batch a thread has run.                             *)

\* "fAllOk &= fOk": a batch taken after a failure is not evaluated, and one
\* that is stops at its first failure.
OkAfter(t) == fAllOk /\ fOk[t] /\ vChecks[t] \intersect Bad = {}

LeftBy(t) ==
    IF nTodo >= Cardinality(vChecks[t])
    THEN nTodo - Cardinality(vChecks[t])
    ELSE nTodo

\* "We processed the last element", or the round was quit: the queue is cleared.
QueueAfter(t) == IF t # Master /\ (LeftBy(t) = 0 \/ fQuit) THEN {} ELSE queue

\* Mutant of TodoAfter: what a quit throws away stays counted.
TodoAfter_QuitForgets(t) == LeftBy(t)

TodoAfter(t) ==
    IF t # Master /\ LeftBy(t) # 0 /\ fQuit
    THEN LeftBy(t) - Cardinality(queue)
    ELSE LeftBy(t)
-----------------------------------------------------------------------------
(* The passes of Loop().                                                   *)

\* A worker starts: "first iteration".
Thread(t) ==
    /\ t \in Workers
    /\ pc[t] = "start"
    /\ Proceed(t, queue, nTodo, fAllOk, nTotal + 1, nIdle)
    /\ UNCHANGED <<fExit, added>>

\* The master has added everything and joins the workers.
Wait ==
    /\ pc[Master] = "add"
    /\ Proceed(Master, queue, nTodo, fAllOk, nTotal + 1, nIdle)
    /\ UNCHANGED <<fExit, added>>

\* A batch is done.
Report(t) ==
    /\ pc[t] = "work"
    /\ Proceed(t, QueueAfter(t), TodoAfter(t), OkAfter(t), nTotal, nIdle)
    /\ UNCHANGED <<fExit, added>>

\* cond.wait_for returns, by a notification or after its 100 ms.
Wake(t) ==
    /\ pc[t] = "wait"
    /\ Proceed(t, queue, nTodo, fAllOk, nTotal, nIdle - 1)
    /\ UNCHANGED <<fExit, added>>
-----------------------------------------------------------------------------
(* The other entry points.                                                 *)

\* Mutant of Queue: the mark that the round before left is not taken away.
Queue_KeepsQuit ==
    /\ pc[Master] = "out"
    /\ ~fExit
    /\ IsIdle
    /\ pc' = [pc EXCEPT ![Master] = "add"]
    /\ added' = {}
    /\ verdict' = "none"
    /\ UNCHANGED <<queue, nTodo, nIdle, nTotal, fAllOk, fQuit, fExit, vChecks, fOk>>

\* GetScriptCheckQueue offers only an idle queue and clears fQuit, and the
\* control object asserts that the queue is idle.
Queue ==
    /\ pc[Master] = "out"
    /\ ~fExit
    /\ IsIdle
    /\ pc' = [pc EXCEPT ![Master] = "add"]
    /\ fQuit' = FALSE
    /\ added' = {}
    /\ verdict' = "none"
    /\ UNCHANGED <<queue, nTodo, nIdle, nTotal, fAllOk, fExit, vChecks, fOk>>

Add(S) ==
    /\ pc[Master] = "add"
    /\ S \subseteq Checks \ added /\ S # {}
    /\ queue' = queue \union S
    /\ nTodo' = nTodo + Cardinality(S)
    /\ added' = added \union S
    /\ UNCHANGED <<nIdle, nTotal, fAllOk, fQuit, fExit, pc, vChecks, fOk, verdict>>

\* Quit(true): by a thread whose block has won, or by the master when it
\* leaves ConnectBlock.
Quit ==
    /\ fQuit' = TRUE
    /\ UNCHANGED <<queue, nTodo, nIdle, nTotal, fAllOk, fExit, pc, vChecks, fOk,
                   added, verdict>>

\* CParallelValidation is destroyed after every validation thread has ended.
Shutdown ==
    /\ pc[Master] = "out"
    /\ fExit' = TRUE
    /\ UNCHANGED <<queue, nTodo, nIdle, nTotal, fAllOk, fQuit, pc, vChecks, fOk,
                   added, verdict>>

Next ==
    \/ \E t \in Threads : Thread(t) \/ Report(t) \/ Wake(t)
    \/ Wait
    \/ Queue
    \/ \E S \in SUBSET Checks : Add(S)
    \/ Quit
    \/ Shutdown

Spec == Init /\ [][Next]_vars

\* Every thread goes on with Loop(); when blocks arrive, whether a round is
\* quit and when the node stops is left to the rest of the program.
FairSpec ==
    /\ Spec
    /\ \A t \in Threads : WF_vars(Thread(t) \/ Report(t) \/ Wake(t))
-----------------------------------------------------------------------------
(* What holds.                                                             *)

TypeOK ==
    /\ queue \subseteq Checks
    /\ nTodo \in Nat
    /\ nIdle \in Nat
    /\ nTotal \in Nat
    /\ fAllOk \in BOOLEAN
    /\ fQuit \in BOOLEAN
    /\ fExit \in BOOLEAN
    /\ pc \in [Threads -> {"start", "wait", "work", "exit", "out", "add"}]
    /\ vChecks \in [Threads -> SUBSET Checks]
    /\ fOk \in [Threads -> BOOLEAN]
    /\ added \subseteq Checks
    /\ verdict \in {"none", "ok", "bad"}

\* nTodo counts the checks that are queued or in a worker's batch, each of them
\* once, whatever mixture of workers, master and quits takes them away: the
\* master returns when it is 0, and subtracting twice would wrap it.
TodoIsExact ==
    /\ nTodo = Cardinality(Pending)
    /\ \A t \in Threads :
          /\ vChecks[t] \intersect queue = {}
          /\ \A u \in Threads \ {t} : vChecks[t] \intersect vChecks[u] = {}

\* When Wait() has returned no worker runs a check any more (the checks point
\* into the coins and the transactions of the block, which the caller is about
\* to destroy), and the assertion of CCheckQueueControl holds for the next one.
IdleBetweenRounds ==
    pc[Master] = "out" /\ ~fExit => IsIdle /\ Pending = {}

\* The queue keeps what CheckRound promises: the verdict of a round is about
\* the checks of this round and of no other, and exact unless it was quit.
Round == INSTANCE CheckRound WITH open <- pc[Master] # "out", quit <- fQuit
ImplementsCheckRound == Round!Spec

\* A thread that waits for its block's scripts gets its answer.
WaitReturns == pc[Master] \in {"wait", "work"} ~> pc[Master] = "out"
=============================================================================
