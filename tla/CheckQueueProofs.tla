-------------------------- MODULE CheckQueueProofs --------------------------
(***************************************************************************)
(* Proofs about CheckQueue, for any finite number of workers and checks    *)
(* and any batch size.                                                     *)
(*                                                                         *)
(* Every pass of Loop() ends in Proceed, so the argument has two halves.   *)
(* AtLoop says what holds of the shared values where "logically, the do    *)
(* loop starts here", when the thread has handed in its batch; each way of *)
(* getting there establishes it (ThreadArrives, ReportArrives,             *)
(* WakeArrives), and whatever Proceed then does restores the invariant     *)
(* (ProceedKeeps).                                                         *)
(***************************************************************************)
EXTENDS CheckQueue, FiniteSetTheorems, TLAPS

\* The prover of the leaves that name no other.
USE SMTT(40)

Waiting == {t \in Threads : pc[t] = "wait"}
InLoop == {t \in Threads : pc[t] \in {"wait", "work", "exit"}}

\* nIdle and nTotal are what their comments say.
Counted ==
    /\ nIdle = Cardinality(Waiting)
    /\ nTotal = Cardinality(InLoop)

\* Which thread can be where, and that the threads end only without a master.
Phases ==
    /\ \A w \in Workers : pc[w] \in {"start", "wait", "work", "exit"}
    /\ pc[Master] \in {"out", "add", "wait", "work"}
    /\ fExit => pc[Master] = "out"
    /\ ~fExit => \A t \in Threads : pc[t] # "exit"
    /\ \A t \in Threads : pc[t] = "work" <=> vChecks[t] # {}

\* While a round is open and has not been quit, a failing check is either
\* still to be evaluated or has made fAllOk false.
RoundKept ==
    /\ Pending \subseteq added
    /\ pc[Master] = "out" => Pending = {} /\ fAllOk
    /\ ~fAllOk => added \intersect Bad # {}
    /\ pc[Master] # "out" /\ fAllOk /\ ~fQuit => added \intersect Bad \subseteq Pending
    /\ \A t \in Threads : pc[t] = "work" /\ ~fOk[t] => ~fAllOk

IInv == TypeOK /\ TodoIsExact /\ Counted /\ Phases /\ RoundKept

\* The batches of the threads other than t.
Others(t) == {c \in Checks : \E u \in Threads \ {t} : c \in vChecks[u]}

\* The same for thread t inside the locked part, its own batch handed in.
AtLoop(t, q, todo, ok, total, idle) ==
    /\ q \subseteq Checks
    /\ ok \in BOOLEAN
    /\ todo = Cardinality(q \union Others(t))
    /\ total = Cardinality(InLoop \union {t})
    /\ idle = Cardinality(Waiting \ {t})
    /\ q \intersect Others(t) = {}
    /\ q \union Others(t) \subseteq added
    /\ pc[Master] = "out" => q \union Others(t) = {} /\ ok
    /\ ~ok => added \intersect Bad # {}
    /\ pc[Master] # "out" /\ ok /\ ~fQuit =>
          added \intersect Bad \subseteq q \union Others(t)
    /\ \A u \in Threads \ {t} : pc[u] = "work" /\ ~fOk[u] => ~ok
    /\ pc[t] \notin {"out", "exit"}
-----------------------------------------------------------------------------
LEMMA FiniteSets ==
    /\ IsFiniteSet(Threads)
    /\ \A S \in SUBSET Threads : IsFiniteSet(S) /\ Cardinality(S) \in Nat
    /\ \A S \in SUBSET Checks : IsFiniteSet(S) /\ Cardinality(S) \in Nat
<1>1. IsFiniteSet(Threads)
  BY CheckQueueAssumption, FS_AddElement DEF Threads
<1>2. ASSUME NEW S \in SUBSET Threads
      PROVE  IsFiniteSet(S) /\ Cardinality(S) \in Nat
  BY <1>1, FS_Subset, FS_CardinalityType
<1>3. ASSUME NEW S \in SUBSET Checks
      PROVE  IsFiniteSet(S) /\ Cardinality(S) \in Nat
  BY CheckQueueAssumption, FS_Subset, FS_CardinalityType
<1> QED BY <1>1, <1>2, <1>3

\* A batch has at least one check.
LEMMA BatchNotEmpty ==
    ASSUME NEW q \in SUBSET Checks, NEW total \in Nat, NEW idle \in Nat,
           NEW B \in SUBSET q, Cardinality(B) = BatchOf(q, total, idle)
    PROVE  B # {}
<1>1. BatchOf(q, total, idle) # 0
  <2>1. Cardinality(q) \in Nat /\ total + idle + 1 \in Nat \ {0} /\ BatchSize \in Nat
    BY FiniteSets, CheckQueueAssumption
  <2>2. Cardinality(q) \div (total + idle + 1) \in Int
    BY <2>1
  <2> QED BY <2>1, <2>2 DEF BatchOf
<1> QED BY <1>1, FS_EmptySet

\* Disjoint finite sets of checks: sizes add up.
LEMMA SizesAdd ==
    ASSUME NEW S \in SUBSET Checks, NEW T \in SUBSET Checks, S \intersect T = {}
    PROVE  Cardinality(S \union T) = Cardinality(S) + Cardinality(T)
<1>1. IsFiniteSet(S) /\ IsFiniteSet(T) /\ Cardinality(S) \in Nat /\ Cardinality(T) \in Nat
  BY FiniteSets
<1>2. Cardinality(S \intersect T) = 0
  BY FS_EmptySet
<1>3. Cardinality(S \union T) = Cardinality(S) + Cardinality(T) - Cardinality(S \intersect T)
  BY <1>1, FS_Union
<1> QED BY <1>1, <1>2, <1>3
-----------------------------------------------------------------------------
\* What Proceed leaves behind, whichever way it goes.
LEMMA ProceedKeeps ==
    ASSUME IInv, NEW t \in Threads,
           NEW q, NEW todo, NEW ok, NEW total, NEW idle,
           AtLoop(t, q, todo, ok, total, idle),
           Proceed(t, q, todo, ok, total, idle),
           UNCHANGED <<fExit, added>>
    PROVE  IInv'
<1> DEFINE rest == q \union Others(t)
<1>1. /\ q \in SUBSET Checks /\ rest \in SUBSET Checks
      /\ Waiting \in SUBSET Threads /\ InLoop \in SUBSET Threads
      /\ Master \in Threads /\ Workers \subseteq Threads
  BY DEF AtLoop, Others, Waiting, InLoop, Threads
<1>2. todo \in Nat /\ total \in Nat /\ idle \in Nat /\ ok \in BOOLEAN
  BY <1>1, FiniteSets DEF AtLoop
<1>3. CASE TakeBatch(t, q, todo, ok, total, idle)
  <2>1. PICK B \in SUBSET q :
          /\ Cardinality(B) = BatchOf(q, total, idle)
          /\ vChecks' = [vChecks EXCEPT ![t] = B]
          /\ queue' = q \ B
    BY <1>3, ZenonT(40) DEF TakeBatch
  <2>2. B # {}
    BY <1>1, <1>2, <2>1, BatchNotEmpty
  <2>3. /\ fOk' = [fOk EXCEPT ![t] = ok]
        /\ pc' = [pc EXCEPT ![t] = "work"]
        /\ nTodo' = todo /\ fAllOk' = ok /\ nTotal' = total /\ nIdle' = idle
        /\ fQuit' = fQuit /\ verdict' = verdict /\ fExit' = fExit /\ added' = added
    BY <1>3 DEF TakeBatch
  <2>4. TypeOK'
    BY <1>1, <1>2, <2>1, <2>3 DEF IInv, TypeOK
  <2>5. Pending' = rest
    BY <1>1, <2>1 DEF Pending, Running, Others, IInv, TypeOK
  <2>6. TodoIsExact'
    BY <1>1, <2>1, <2>3, <2>5 DEF TodoIsExact, AtLoop, Others, IInv, TypeOK
  <2>7. Waiting' = Waiting \ {t} /\ InLoop' = InLoop \union {t}
    BY <2>3 DEF Waiting, InLoop, IInv, TypeOK
  <2>8. Counted'
    BY <2>3, <2>7 DEF Counted, AtLoop
  <2>9. ~fExit
    BY <1>1, <2>1, <2>2 DEF IInv, Phases, AtLoop
  <2>10. Phases'
    BY <1>1, <2>1, <2>2, <2>3, <2>9 DEF Phases, IInv, TypeOK, AtLoop, Threads
  <2>11. RoundKept'
    BY <1>1, <2>1, <2>2, <2>3, <2>5 DEF RoundKept, AtLoop, IInv, TypeOK, Phases
  <2> QED BY <2>4, <2>6, <2>8, <2>10, <2>11 DEF IInv
<1>4. CASE Leave(t, q, todo, ok, total, idle)
  <2> USE <1>4 DEF Leave
  <2>1. t # Master
    BY DEF IInv, Phases, AtLoop
  <2>2. TypeOK'
    BY <1>1, <1>2 DEF IInv, TypeOK
  <2>3. Pending' = rest
    BY <1>1 DEF Pending, Running, Others, IInv, TypeOK
  <2>4. TodoIsExact'
    BY <1>1, <2>3, ZenonT(40) DEF TodoIsExact, AtLoop, Others, IInv, TypeOK
  <2>5. Waiting' = Waiting \ {t} /\ InLoop' = InLoop \union {t}
    BY DEF Waiting, InLoop, IInv, TypeOK
  <2>6. Counted'
    BY <2>5 DEF Counted, AtLoop
  <2>7. Phases'
    BY <1>1, <2>1 DEF Phases, IInv, TypeOK, AtLoop, Threads
  <2>8. RoundKept'
    BY <1>1, <2>1, <2>3 DEF RoundKept, AtLoop, IInv, TypeOK, Phases
  <2> QED BY <2>2, <2>4, <2>6, <2>7, <2>8 DEF IInv
<1>5. CASE Return(t, q, todo, ok, total, idle)
  <2> USE <1>5 DEF Return
  <2>1. rest = {}
    BY <1>1, FiniteSets, FS_EmptySet, ZenonT(40) DEF AtLoop
  <2>2. t \in InLoop \union {t} /\ IsFiniteSet(InLoop \union {t})
    BY <1>1, FiniteSets
  <2>3. /\ total - 1 = Cardinality((InLoop \union {t}) \ {t})
        /\ total - 1 \in Nat
    <3>1. Cardinality((InLoop \union {t}) \ {t}) = Cardinality(InLoop \union {t}) - 1
      BY <2>2, FS_RemoveElement, ZenonT(40)
    <3>2. Cardinality((InLoop \union {t}) \ {t}) \in Nat
      BY <1>1, FiniteSets
    <3>3. total = Cardinality(InLoop \union {t})
      BY DEF AtLoop
    <3> QED BY <3>1, <3>2, <3>3
  <2>4. TypeOK'
    BY <1>1, <1>2, <2>3, ZenonT(40) DEF IInv, TypeOK
  <2>5. Pending' = rest
    BY <1>1 DEF Pending, Running, Others, IInv, TypeOK
  <2>6. TodoIsExact'
    BY <1>1, <2>5 DEF TodoIsExact, AtLoop, Others, IInv, TypeOK
  <2>7. Waiting' = Waiting \ {t} /\ InLoop' = (InLoop \union {t}) \ {t}
    BY DEF Waiting, InLoop, IInv, TypeOK
  <2>8. Counted'
    BY <2>3, <2>7 DEF Counted, AtLoop
  <2>9. \A u \in Threads : vChecks'[u] = {} /\ pc'[u] # "work"
    <3>1. \A u \in Threads \ {t} : vChecks[u] = {}
      BY <2>1 DEF Others, IInv, TypeOK
    <3> QED BY <3>1 DEF IInv, TypeOK, Phases
  <2>10. Phases'
    <3>1. \A w \in Workers : w # t /\ pc'[w] = pc[w]
      BY CheckQueueAssumption DEF IInv, TypeOK, Threads
    <3>2. pc'[Master] = "out" /\ \A u \in Threads : pc'[u] # "exit"
      BY <1>1 DEF IInv, TypeOK, Phases
    <3> QED BY <2>9, <3>1, <3>2 DEF Phases, IInv
  <2>11. RoundKept'
    <3>1. pc'[Master] = "out" /\ fAllOk' = TRUE /\ Pending' = {}
      BY <1>1, <2>1, <2>5 DEF IInv, TypeOK
    <3> QED BY <2>9, <3>1 DEF RoundKept
  <2> QED BY <2>4, <2>6, <2>8, <2>10, <2>11 DEF IInv
<1>6. CASE GoIdle(t, q, todo, ok, total, idle)
  <2> USE <1>6 DEF GoIdle
  <2>1. /\ idle + 1 = Cardinality((Waiting \ {t}) \union {t})
        /\ idle + 1 \in Nat
    <3>1. IsFiniteSet(Waiting \ {t}) /\ t \notin Waiting \ {t}
      BY <1>1, FiniteSets
    <3>2. Cardinality((Waiting \ {t}) \union {t}) = Cardinality(Waiting \ {t}) + 1
      BY <3>1, FS_AddElement
    <3> QED BY <1>2, <3>2 DEF AtLoop
  <2>2. TypeOK'
    BY <1>1, <1>2, <2>1 DEF IInv, TypeOK
  <2>3. Pending' = rest
    BY <1>1 DEF Pending, Running, Others, IInv, TypeOK
  <2>4. TodoIsExact'
    BY <1>1, <2>3, ZenonT(40) DEF TodoIsExact, AtLoop, Others, IInv, TypeOK
  <2>5. Waiting' = (Waiting \ {t}) \union {t} /\ InLoop' = InLoop \union {t}
    BY DEF Waiting, InLoop, IInv, TypeOK
  <2>6. Counted'
    BY <2>1, <2>5 DEF Counted, AtLoop
  <2>7. Phases'
    BY <1>1 DEF Phases, IInv, TypeOK, AtLoop, Threads
  <2>8. RoundKept'
    BY <1>1, <2>3 DEF RoundKept, AtLoop, IInv, TypeOK, Phases
  <2> QED BY <2>2, <2>4, <2>6, <2>7, <2>8 DEF IInv
<1> QED BY <1>3, <1>4, <1>5, <1>6 DEF Proceed
-----------------------------------------------------------------------------
\* The batch of t and what the others have or nobody has: a partition.
LEMMA BatchApart ==
    ASSUME IInv, NEW t \in Threads
    PROVE  /\ vChecks[t] \in SUBSET Checks
           /\ queue \union Others(t) \in SUBSET Checks
           /\ Others(t) \in SUBSET Checks
           /\ queue \intersect Others(t) = {}
           /\ vChecks[t] \intersect (queue \union Others(t)) = {}
           /\ Pending = vChecks[t] \union (queue \union Others(t))
BY DEF IInv, TypeOK, TodoIsExact, Pending, Running, Others

\* A worker's first pass, and the master's.
LEMMA ThreadArrives ==
    ASSUME IInv, NEW t \in Threads, pc[t] \in {"start", "add"}
    PROVE  AtLoop(t, queue, nTodo, fAllOk, nTotal + 1, nIdle)
<1>1. vChecks[t] = {} /\ Pending = queue \union Others(t)
  BY BatchApart DEF IInv, Phases
<1>2. Waiting \ {t} = Waiting
  BY DEF Waiting
<1>3. nTotal + 1 = Cardinality(InLoop \union {t})
  <2>1. IsFiniteSet(InLoop) /\ t \notin InLoop
    BY FiniteSets DEF InLoop
  <2>2. Cardinality(InLoop \union {t}) = Cardinality(InLoop) + 1
    BY <2>1, FS_AddElement, ZenonT(40)
  <2> QED BY <2>2 DEF IInv, Counted
<1>4. nTodo = Cardinality(queue \union Others(t)) /\ nIdle = Cardinality(Waiting \ {t})
  BY <1>1, <1>2 DEF IInv, TodoIsExact, Counted
<1>5. /\ queue \subseteq Checks /\ fAllOk \in BOOLEAN
      /\ queue \intersect Others(t) = {}
      /\ pc[t] \notin {"out", "exit"}
  BY BatchApart DEF IInv, TypeOK
<1>6. /\ queue \union Others(t) \subseteq added
      /\ pc[Master] = "out" => queue \union Others(t) = {} /\ fAllOk
      /\ ~fAllOk => added \intersect Bad # {}
      /\ pc[Master] # "out" /\ fAllOk /\ ~fQuit =>
            added \intersect Bad \subseteq queue \union Others(t)
      /\ \A u \in Threads \ {t} : pc[u] = "work" /\ ~fOk[u] => ~fAllOk
  BY <1>1 DEF IInv, RoundKept
<1> QED BY <1>3, <1>4, <1>5, <1>6 DEF AtLoop

\* The wait is over.
LEMMA WakeArrives ==
    ASSUME IInv, NEW t \in Threads, pc[t] = "wait"
    PROVE  AtLoop(t, queue, nTodo, fAllOk, nTotal, nIdle - 1)
<1>1. vChecks[t] = {} /\ Pending = queue \union Others(t)
  BY BatchApart DEF IInv, Phases
<1>2. InLoop \union {t} = InLoop
  BY DEF InLoop
<1>3. nIdle - 1 = Cardinality(Waiting \ {t})
  <2>1. IsFiniteSet(Waiting) /\ t \in Waiting
    BY FiniteSets DEF Waiting
  <2>2. Cardinality(Waiting \ {t}) = Cardinality(Waiting) - 1
    BY <2>1, FS_RemoveElement, ZenonT(40)
  <2> QED BY <2>2 DEF IInv, Counted
<1>4. nTodo = Cardinality(queue \union Others(t)) /\ nTotal = Cardinality(InLoop \union {t})
  BY <1>1, <1>2 DEF IInv, TodoIsExact, Counted
<1>5. /\ queue \subseteq Checks /\ fAllOk \in BOOLEAN
      /\ queue \intersect Others(t) = {}
      /\ pc[t] \notin {"out", "exit"}
  BY BatchApart DEF IInv, TypeOK
<1>6. /\ queue \union Others(t) \subseteq added
      /\ pc[Master] = "out" => queue \union Others(t) = {} /\ fAllOk
      /\ ~fAllOk => added \intersect Bad # {}
      /\ pc[Master] # "out" /\ fAllOk /\ ~fQuit =>
            added \intersect Bad \subseteq queue \union Others(t)
      /\ \A u \in Threads \ {t} : pc[u] = "work" /\ ~fOk[u] => ~fAllOk
  BY <1>1 DEF IInv, RoundKept
<1> QED BY <1>3, <1>4, <1>5, <1>6 DEF AtLoop

\* A batch has been run: it leaves nTodo, and after a quit the queue does too.
LEMMA ReportArrives ==
    ASSUME IInv, NEW t \in Threads, pc[t] = "work"
    PROVE  AtLoop(t, QueueAfter(t), TodoAfter(t), OkAfter(t), nTotal, nIdle)
<1> DEFINE rest == queue \union Others(t)
<1>1. LeftBy(t) = Cardinality(rest)
  <2>1. Cardinality(Pending) = Cardinality(vChecks[t]) + Cardinality(rest)
    BY BatchApart, SizesAdd
  <2>2. Cardinality(vChecks[t]) \in Nat /\ Cardinality(rest) \in Nat
    BY BatchApart, FiniteSets
  <2>3. nTodo = Cardinality(Pending)
    BY DEF IInv, TodoIsExact
  <2> QED BY <2>1, <2>2, <2>3 DEF LeftBy
<1>2. LeftBy(t) = 0 <=> rest = {}
  <2>1. IsFiniteSet(rest)
    BY BatchApart, FiniteSets
  <2> QED BY <1>1, <2>1, FS_EmptySet
<1>3. TodoAfter(t) = Cardinality(QueueAfter(t) \union Others(t))
  <2>1. CASE t # Master /\ LeftBy(t) # 0 /\ fQuit
    <3>1. Cardinality(rest) = Cardinality(queue) + Cardinality(Others(t))
      BY BatchApart, SizesAdd DEF IInv, TypeOK
    <3>2. Cardinality(queue) \in Nat /\ Cardinality(Others(t)) \in Nat
      BY BatchApart, FiniteSets DEF IInv, TypeOK
    <3>3. QueueAfter(t) \union Others(t) = Others(t)
      BY <2>1 DEF QueueAfter
    <3>4. TodoAfter(t) = LeftBy(t) - Cardinality(queue)
      BY <2>1 DEF TodoAfter
    <3>5. LeftBy(t) - Cardinality(queue) = Cardinality(Others(t))
      BY <1>1, <3>1, <3>2
    <3> QED BY <3>3, <3>4, <3>5, ZenonT(40)
  <2>2. CASE ~(t # Master /\ LeftBy(t) # 0 /\ fQuit)
    <3>1. TodoAfter(t) = LeftBy(t)
      BY <2>2 DEF TodoAfter
    <3>2. QueueAfter(t) \union Others(t) = rest
      BY <1>2, <2>2 DEF QueueAfter
    <3> QED BY <1>1, <3>1, <3>2
  <2> QED BY <2>1, <2>2
<1>4. Waiting \ {t} = Waiting /\ InLoop \union {t} = InLoop
  BY DEF Waiting, InLoop
<1>5. nTotal = Cardinality(InLoop \union {t}) /\ nIdle = Cardinality(Waiting \ {t})
  BY <1>4 DEF IInv, Counted
<1>6. QueueAfter(t) \subseteq queue /\ (~fQuit => QueueAfter(t) = queue)
  BY <1>2 DEF QueueAfter
<1>7. OkAfter(t) \in BOOLEAN /\ (OkAfter(t) => fAllOk /\ vChecks[t] \intersect Bad = {})
  BY DEF OkAfter
<1>8. /\ vChecks[t] # {} /\ vChecks[t] \subseteq Pending /\ Pending \subseteq added
      /\ pc[Master] # "out"
  BY BatchApart DEF IInv, Phases, RoundKept
<1>9. ~OkAfter(t) => added \intersect Bad # {}
  <2>1. fAllOk => fOk[t]
    BY DEF IInv, RoundKept
  <2>2. fAllOk /\ fOk[t] /\ ~OkAfter(t) => vChecks[t] \intersect Bad # {}
    BY DEF OkAfter
  <2> QED BY <1>8, <2>1, <2>2 DEF IInv, RoundKept
<1>10. OkAfter(t) /\ ~fQuit => added \intersect Bad \subseteq QueueAfter(t) \union Others(t)
  BY <1>6, <1>7, <1>8, BatchApart DEF IInv, RoundKept
<1>11. \A u \in Threads \ {t} : pc[u] = "work" /\ ~fOk[u] => ~OkAfter(t)
  BY <1>7 DEF IInv, RoundKept
<1>12. /\ QueueAfter(t) \subseteq Checks
       /\ QueueAfter(t) \intersect Others(t) = {}
       /\ QueueAfter(t) \union Others(t) \subseteq added
  BY <1>6, <1>8, BatchApart
<1>13. pc[t] \notin {"out", "exit"}
  OBVIOUS
<1> QED
  BY <1>3, <1>5, <1>7, <1>8, <1>9, <1>10, <1>11, <1>12, <1>13 DEF AtLoop
-----------------------------------------------------------------------------
LEMMA InitInv == Init => IInv
<1> SUFFICES ASSUME Init PROVE IInv
  OBVIOUS
<1>1. Pending = {} /\ Waiting = {} /\ InLoop = {}
  BY DEF Init, Pending, Running, Waiting, InLoop
<1>2. TypeOK
  BY ZenonT(40) DEF Init, TypeOK
<1>3. TodoIsExact /\ Counted
  BY <1>1, FS_EmptySet DEF Init, TodoIsExact, Counted
<1>4. Phases
  BY CheckQueueAssumption DEF Init, Phases, Threads
<1>5. RoundKept
  BY <1>1 DEF Init, RoundKept, Threads
<1> QED BY <1>2, <1>3, <1>4, <1>5 DEF IInv

\* Add grows the queue and nTodo by the same checks.
LEMMA AddKeeps ==
    ASSUME IInv, NEW S \in SUBSET Checks, Add(S)
    PROVE  IInv'
<1>1. /\ pc[Master] = "add" /\ S \subseteq Checks \ added
      /\ queue' = queue \union S /\ nTodo' = nTodo + Cardinality(S)
      /\ added' = added \union S
      /\ UNCHANGED <<nIdle, nTotal, fAllOk, fQuit, fExit, pc, vChecks, fOk, verdict>>
  BY DEF Add
<1>2. Pending' = Pending \union S /\ Pending \intersect S = {} /\ Pending \in SUBSET Checks
  BY <1>1 DEF Pending, Running, IInv, RoundKept, TypeOK
<1>3. Cardinality(Pending') = nTodo + Cardinality(S)
  BY <1>2, SizesAdd DEF IInv, TodoIsExact
<1>4. Cardinality(S) \in Nat
  BY FiniteSets
<1>5. TypeOK'
  BY <1>1, <1>4 DEF IInv, TypeOK
<1>6. \A t \in Threads : vChecks[t] \subseteq added
  BY DEF IInv, RoundKept, Pending, Running, TypeOK
<1>7. TodoIsExact'
  BY <1>1, <1>3, <1>6 DEF TodoIsExact, IInv
<1>8. Counted'
  BY <1>1 DEF IInv, Counted, Waiting, InLoop
<1>9. Phases'
  BY <1>1 DEF IInv, Phases
<1>10. RoundKept'
  BY <1>1, <1>2 DEF IInv, RoundKept
<1> QED BY <1>5, <1>7, <1>8, <1>9, <1>10 DEF IInv

\* Opening a round, quitting it and shutting down leave the checks alone.
LEMMA FlagsKeep ==
    ASSUME IInv, Queue \/ Quit \/ Shutdown
    PROVE  IInv'
<1>1. CASE Queue
  <2>1. Pending' = Pending /\ Pending = {} /\ fAllOk
    BY <1>1 DEF Queue, Pending, Running, IInv, RoundKept
  <2>2. TypeOK'
    BY <1>1, ZenonT(40) DEF Queue, IInv, TypeOK
  <2>3. TodoIsExact'
    BY <1>1, <2>1 DEF Queue, IInv, TodoIsExact
  <2>4. Waiting' = Waiting /\ InLoop' = InLoop
    BY <1>1 DEF Queue, Waiting, InLoop, IInv, TypeOK
  <2>5. Counted'
    BY <1>1, <2>4 DEF Queue, IInv, Counted
  <2>6. Phases'
    BY <1>1, CheckQueueAssumption DEF Queue, IInv, Phases, TypeOK, Threads
  <2>7. RoundKept'
    BY <1>1, <2>1 DEF Queue, IInv, RoundKept, TypeOK
  <2> QED BY <2>2, <2>3, <2>5, <2>6, <2>7 DEF IInv
<1>2. CASE Quit
  BY <1>2 DEF Quit, IInv, TypeOK, TodoIsExact, Counted, Phases, RoundKept, Pending,
              Running, Waiting, InLoop
<1>3. CASE Shutdown
  BY <1>3 DEF Shutdown, IInv, TypeOK, TodoIsExact, Counted, Phases, RoundKept, Pending,
              Running, Waiting, InLoop
<1> QED BY <1>1, <1>2, <1>3

LEMMA NextInv == IInv /\ [Next]_vars => IInv'
<1> SUFFICES ASSUME IInv, [Next]_vars PROVE IInv'
  OBVIOUS
<1>1. ASSUME NEW t \in Threads, Thread(t) PROVE IInv'
  BY <1>1, ThreadArrives, ProceedKeeps DEF Thread
<1>2. ASSUME NEW t \in Threads, Report(t) PROVE IInv'
  BY <1>2, ReportArrives, ProceedKeeps DEF Report
<1>3. ASSUME NEW t \in Threads, Wake(t) PROVE IInv'
  BY <1>3, WakeArrives, ProceedKeeps DEF Wake
<1>4. CASE Wait
  <2>1. Master \in Threads
    BY DEF Threads
  <2> QED BY <1>4, <2>1, ThreadArrives, ProceedKeeps DEF Wait
<1>5. ASSUME NEW S \in SUBSET Checks, Add(S) PROVE IInv'
  BY <1>5, AddKeeps
<1>6. CASE Queue \/ Quit \/ Shutdown
  BY <1>6, FlagsKeep
<1>7. CASE UNCHANGED vars
  BY <1>7 DEF vars, IInv, TypeOK, TodoIsExact, Counted, Phases, RoundKept, Pending,
              Running, Waiting, InLoop
<1> QED BY <1>1, <1>2, <1>3, <1>4, <1>5, <1>6, <1>7 DEF Next

\* The strengthened invariant holds in every reachable state.
THEOREM CheckQueueInductive == Spec => []IInv
BY InitInv, NextInv, PTL DEF Spec

\* nTodo is the number of checks that are queued or in a batch, and no check is
\* in two places.
THEOREM TodoStaysExact == Spec => []TodoIsExact
<1>1. IInv => TodoIsExact
  BY DEF IInv
<1> QED BY <1>1, CheckQueueInductive, PTL

\* When Wait() has returned nobody runs a check of its round, and the queue
\* passes the assertion of CCheckQueueControl.
THEOREM NoCheckOutlivesWait == Spec => []IdleBetweenRounds
<1>1. IInv => IdleBetweenRounds
  <2> SUFFICES ASSUME IInv, pc[Master] = "out", ~fExit
               PROVE  IsIdle /\ Pending = {}
    BY DEF IdleBetweenRounds
  <2>1. Pending = {} /\ fAllOk
    BY DEF IInv, RoundKept
  <2>2. nTodo = 0
    BY <2>1, FS_EmptySet DEF IInv, TodoIsExact
  <2>3. \A t \in Threads : vChecks[t] = {}
    BY <2>1 DEF Pending, Running, IInv, TypeOK
  <2>4. InLoop = Waiting
    BY <2>3 DEF InLoop, Waiting, IInv, Phases
  <2> QED BY <2>1, <2>2, <2>4 DEF IsIdle, IInv, Counted
<1> QED BY <1>1, CheckQueueInductive, PTL
-----------------------------------------------------------------------------
(* The queue implements the abstract round.                                *)

\* A pass of Loop() is invisible unless the master returns, and then the round
\* closes with a verdict it deserves.
LEMMA ProceedMaps ==
    ASSUME IInv, NEW t \in Threads,
           NEW q, NEW todo, NEW ok, NEW total, NEW idle,
           AtLoop(t, q, todo, ok, total, idle),
           Proceed(t, q, todo, ok, total, idle),
           UNCHANGED <<fExit, added>>
    PROVE  [Round!Next]_(Round!vars)
<1>1. /\ pc \in [Threads -> {"start", "wait", "work", "exit", "out", "add"}]
      /\ Master \in Threads /\ pc[t] \notin {"out", "exit"}
  BY DEF IInv, TypeOK, AtLoop, Threads
<1>2. CASE TakeBatch(t, q, todo, ok, total, idle)
  BY <1>1, <1>2 DEF TakeBatch, Round!vars
<1>3. CASE Leave(t, q, todo, ok, total, idle)
  BY <1>1, <1>3 DEF Leave, Round!vars, IInv, Phases
<1>4. CASE GoIdle(t, q, todo, ok, total, idle)
  BY <1>1, <1>4 DEF GoIdle, Round!vars
<1>5. CASE Return(t, q, todo, ok, total, idle)
  <2>1. q \union Others(t) = {}
    <3>1. q \union Others(t) \in SUBSET Checks /\ Cardinality(q \union Others(t)) = 0
      BY <1>5 DEF Return, AtLoop, Others
    <3> QED BY <3>1, FiniteSets, FS_EmptySet
  <2>2. /\ pc[Master] # "out" /\ pc'[Master] = "out"
        /\ fQuit' = FALSE /\ added' = added
        /\ verdict' = IF ok THEN "ok" ELSE "bad"
    BY <1>1, <1>5 DEF Return
  <2>3. CASE ok = TRUE
    <3>1. added \intersect Bad = {} \/ fQuit
      BY <2>1, <2>2, <2>3 DEF AtLoop
    <3> QED BY <2>2, <2>3, <3>1 DEF Round!Next, Round!Close
  <2>4. CASE ok = FALSE
    <3>1. added \intersect Bad # {}
      BY <2>4 DEF AtLoop
    <3> QED BY <2>2, <2>4, <3>1 DEF Round!Next, Round!Close
  <2> QED BY <2>3, <2>4, ZenonT(40) DEF AtLoop
<1> QED BY <1>2, <1>3, <1>4, <1>5 DEF Proceed

\* CCheckQueue keeps the promise of CheckRound: the verdict of Wait() is about
\* the checks of this round, and exact unless the round was quit.
THEOREM CheckRoundImplemented == Spec => ImplementsCheckRound
<1>1. Init => Round!Init
  BY DEF Init, Round!Init, Threads
<1>2. IInv /\ [Next]_vars => [Round!Next]_(Round!vars)
  <2> SUFFICES ASSUME IInv, [Next]_vars PROVE [Round!Next]_(Round!vars)
    OBVIOUS
  <2>1. ASSUME NEW t \in Threads, Thread(t) PROVE [Round!Next]_(Round!vars)
    BY <2>1, ThreadArrives, ProceedMaps DEF Thread
  <2>2. ASSUME NEW t \in Threads, Report(t) PROVE [Round!Next]_(Round!vars)
    BY <2>2, ReportArrives, ProceedMaps DEF Report
  <2>3. ASSUME NEW t \in Threads, Wake(t) PROVE [Round!Next]_(Round!vars)
    BY <2>3, WakeArrives, ProceedMaps DEF Wake
  <2>4. CASE Wait
    <3>1. Master \in Threads
      BY DEF Threads
    <3> QED BY <2>4, <3>1, ThreadArrives, ProceedMaps DEF Wait
  <2>5. ASSUME NEW S \in SUBSET Checks, Add(S) PROVE [Round!Next]_(Round!vars)
    BY <2>5 DEF Add, Round!Next, Round!Add
  <2>6. CASE Queue
    BY <2>6 DEF Queue, Round!Next, Round!Open, IInv, TypeOK, Threads
  <2>7. CASE Quit
    BY <2>7 DEF Quit, Round!Next, Round!Quit
  <2>8. CASE Shutdown
    BY <2>8 DEF Shutdown, Round!vars
  <2>9. CASE UNCHANGED vars
    BY <2>9 DEF vars, Round!vars
  <2> QED BY <2>1, <2>2, <2>3, <2>4, <2>5, <2>6, <2>7, <2>8, <2>9 DEF Next
<1> QED BY <1>1, <1>2, CheckQueueInductive, PTL DEF Spec, ImplementsCheckRound, Round!Spec
=============================================================================
