---------------------------- MODULE ThreadCorral ----------------------------
(***************************************************************************)
(* CThreadCorral of sync.h: the lock that separates parallel transaction   *)
(* validation (region 1), commitment to the txpool (region 2) and the work *)
(* that needs both stopped, such as connecting a block (region 3).         *)
(*                                                                         *)
(* Each pass through the loop of Enter() and the whole of Exit() run with  *)
(* the mutex "corral" held, so each is one step; cond.wait releases the    *)
(* mutex and ends the step.  A thread that waits is "wait" until the       *)
(* condition variable wakes it ("ready"), and then makes another pass.     *)
(***************************************************************************)
EXTENDS Naturals, FiniteSets

CONSTANTS
    Threads,    \* the threads that enter the corral
    Regions,    \* the region numbers the program uses
    Uses,       \* Uses[t]: the regions thread t enters
    Nestable,   \* regions a thread enters again while it is inside
    MaxNest     \* bound on how many CCorralLock objects a thread holds

\* Only the highest region is entered again by a thread that is inside it:
\* FlushTxAdmission holds CORRAL_TX_PAUSE and calls CommitTxToMempool with it.
ASSUME CorralAssumption ==
    /\ IsFiniteSet(Threads)
    /\ Regions \subseteq Nat \ {0}
    /\ Uses \in [Threads -> SUBSET Regions]
    /\ Nestable \subseteq Regions
    /\ \A n \in Nestable : \A r \in Regions : r <= n
    /\ MaxNest \in Nat \ {0}

VARIABLES
    curRegion,          \* the region running now, or the last one that ran
    curCount,           \* how many entries into it have not been left
    maxRequestedRegion, \* the highest region a waiting thread asked for
    pc,                 \* pc[t]: "run", "wait" (in cond.wait) or "ready" (woken)
    want,               \* want[t]: the argument of the Enter() t is in, or 0
    holds,              \* holds[t]: the region t is inside of, or 0
    depth               \* depth[t]: how many times t is inside of it

vars == <<curRegion, curCount, maxRequestedRegion, pc, want, holds, depth>>

Init ==
    /\ curRegion = 0
    /\ curCount = 0
    /\ maxRequestedRegion = 0
    /\ pc = [t \in Threads |-> "run"]
    /\ want = [t \in Threads |-> 0]
    /\ holds = [t \in Threads |-> 0]
    /\ depth = [t \in Threads |-> 0]

Waiting(t) == pc[t] \in {"wait", "ready"}
-----------------------------------------------------------------------------
(* One pass through the loop of Enter(region).                             *)

\* Enter() returns to t.
Return(t, r) ==
    /\ pc' = [pc EXCEPT ![t] = "run"]
    /\ want' = [want EXCEPT ![t] = 0]
    /\ holds' = [holds EXCEPT ![t] = r]
    /\ depth' = [depth EXCEPT ![t] = @ + 1]

\* Mutants of RunMyRegion: it does not ask whether a region is running; it
\* does not take back the request it has granted.
RunMyRegion_Anytime(t, r) ==
    /\ r >= maxRequestedRegion
    /\ curRegion' = r
    /\ maxRequestedRegion' = 0
    /\ curCount' = 1
    /\ Return(t, r)
RunMyRegion_KeepsRequest(t, r) ==
    /\ curCount = 0
    /\ r >= maxRequestedRegion
    /\ curRegion' = r
    /\ curCount' = 1
    /\ Return(t, r)
    /\ UNCHANGED maxRequestedRegion

\* "If no region is running and I'm the biggest requested region"
RunMyRegion(t, r) ==
    /\ curCount = 0
    /\ r >= maxRequestedRegion
    /\ curRegion' = r
    /\ maxRequestedRegion' = 0
    /\ curCount' = 1
    /\ Return(t, r)

\* "If the current region is mine, and no higher priority regions want to run"
JoinMyRegion(t, r) ==
    /\ curCount # 0
    /\ curRegion = r
    /\ r >= maxRequestedRegion
    /\ curCount' = curCount + 1
    /\ Return(t, r)
    /\ UNCHANGED <<curRegion, maxRequestedRegion>>

\* Mutants of CannotRun: a running region keeps its own threads out, as a plain
\* mutex would; the request is not recorded.
CannotRun_WheneverBusy(t, r) ==
    /\ r < maxRequestedRegion \/ curCount # 0
    /\ maxRequestedRegion' = IF r > maxRequestedRegion THEN r ELSE maxRequestedRegion
    /\ pc' = [pc EXCEPT ![t] = "wait"]
    /\ want' = [want EXCEPT ![t] = r]
    /\ UNCHANGED <<curRegion, curCount, holds, depth>>
CannotRun_NoRequest(t, r) ==
    /\ r < maxRequestedRegion \/ (curCount # 0 /\ curRegion # r)
    /\ pc' = [pc EXCEPT ![t] = "wait"]
    /\ want' = [want EXCEPT ![t] = r]
    /\ UNCHANGED <<curRegion, curCount, maxRequestedRegion, holds, depth>>

\* "I can't run now."
CannotRun(t, r) ==
    /\ \/ r < maxRequestedRegion
       \/ curCount # 0 /\ curRegion # r
    /\ maxRequestedRegion' = IF r > maxRequestedRegion THEN r ELSE maxRequestedRegion
    /\ pc' = [pc EXCEPT ![t] = "wait"]
    /\ want' = [want EXCEPT ![t] = r]
    /\ UNCHANGED <<curRegion, curCount, holds, depth>>

EnterPass(t, r) == RunMyRegion(t, r) \/ JoinMyRegion(t, r) \/ CannotRun(t, r)

\* The program's discipline: a thread enters a region from outside, or again
\* when the region is one it may nest.
MayEnter(t, r) ==
    /\ r \in Uses[t]
    /\ \/ depth[t] = 0
       \/ holds[t] = r /\ r \in Nestable /\ depth[t] < MaxNest

\* Thread t calls Enter(r).
Enter(t, r) ==
    /\ pc[t] = "run"
    /\ MayEnter(t, r)
    /\ EnterPass(t, r)

\* A woken thread takes the mutex again and repeats the loop.
Resume(t) ==
    /\ pc[t] = "ready"
    /\ EnterPass(t, want[t])

\* A condition variable may wake a thread that nobody notified.
SpuriousWake(t) ==
    /\ pc[t] = "wait"
    /\ pc' = [pc EXCEPT ![t] = "ready"]
    /\ UNCHANGED <<curRegion, curCount, maxRequestedRegion, want, holds, depth>>

\* Mutant of Exit: notify_one.
Exit_NotifyOne(t) ==
    /\ pc[t] = "run"
    /\ depth[t] > 0
    /\ curCount' = curCount - 1
    /\ holds' = [holds EXCEPT ![t] = IF depth[t] = 1 THEN 0 ELSE @]
    /\ depth' = [depth EXCEPT ![t] = @ - 1]
    /\ IF curCount' = 0 /\ \E u \in Threads : pc[u] = "wait"
       THEN \E u \in Threads : pc[u] = "wait" /\ pc' = [pc EXCEPT ![u] = "ready"]
       ELSE pc' = pc
    /\ UNCHANGED <<curRegion, maxRequestedRegion, want>>

\* Exit(region); cond.notify_all() when the last thread has left.
Exit(t) ==
    /\ pc[t] = "run"
    /\ depth[t] > 0
    /\ curCount' = curCount - 1
    /\ holds' = [holds EXCEPT ![t] = IF depth[t] = 1 THEN 0 ELSE @]
    /\ depth' = [depth EXCEPT ![t] = @ - 1]
    /\ pc' = IF curCount' = 0
             THEN [u \in Threads |-> IF pc[u] = "wait" THEN "ready" ELSE pc[u]]
             ELSE pc
    /\ UNCHANGED <<curRegion, maxRequestedRegion, want>>

Next ==
    \E t \in Threads :
        \/ \E r \in Regions : Enter(t, r)
        \/ Resume(t)
        \/ SpuriousWake(t)
        \/ Exit(t)

Spec == Init /\ [][Next]_vars

\* A woken thread is scheduled in the end, and no region is held for ever.
\* Nothing makes a thread call Enter(), and nothing wakes it but notify_all.
Fairness == \A t \in Threads : WF_vars(Resume(t)) /\ WF_vars(Exit(t))

FairSpec == Spec /\ Fairness
-----------------------------------------------------------------------------
\* Type correctness of the corral's counters and of the state of its threads.
TypeOK ==
    /\ curRegion \in Regions \cup {0}
    /\ curCount \in Nat
    /\ maxRequestedRegion \in Regions \cup {0}
    /\ pc \in [Threads -> {"run", "wait", "ready"}]
    /\ want \in [Threads -> Regions \cup {0}]
    /\ holds \in [Threads -> Regions \cup {0}]
    /\ depth \in [Threads -> 0 .. MaxNest]

\* The assertion in Exit(), for every Exit() still to come: each thread inside
\* is inside curRegion.  So no two threads are ever inside different regions.
InsideCurRegion ==
    \A t \in Threads : depth[t] > 0 => holds[t] = curRegion

\* The entries that have not been left, one per live CCorralLock object.
Held == {h \in Threads \X (1 .. MaxNest) : h[2] <= depth[h[1]]}

\* curCount counts those entries: it reaches 0 exactly when the last one is
\* left, which is when Exit() wakes the waiters.
CountIsHeld == curCount = Cardinality(Held)

\* maxRequestedRegion keeps threads out of lower regions, so it may not outlive
\* the request: whenever it is set, a thread is waiting for that very region.
RequestHasWaiter ==
    maxRequestedRegion # 0 =>
        \E t \in Threads : Waiting(t) /\ want[t] = maxRequestedRegion

\* No wakeup is lost: if nobody is inside and somebody waits, then a thread
\* that the next pass of Enter() lets in has been woken.
NoLostWakeup ==
    curCount = 0 /\ (\E t \in Threads : Waiting(t)) =>
        \E t \in Threads : pc[t] = "ready" /\ want[t] >= maxRequestedRegion

\* A thread that is inside never waits for the corral (it would wait for
\* itself): entering CORRAL_TX_PAUSE again always succeeds at once.
InsideNeverWaits ==
    \A t \in Threads : depth[t] > 0 => pc[t] = "run"

\* The corral keeps the promise stated in the module Corral.
Promise == INSTANCE Corral
ImplementsCorral == Promise!CorralSpec

\* r is the highest region and t is the only thread that enters it.
SoleUserOfTop(t, r) ==
    /\ r \in Uses[t]
    /\ \A q \in Regions : q <= r
    /\ \A u \in Threads \ {t} : r \notin Uses[u]

\* The only thread that asks for the highest region gets it in the end: the
\* threads of lower regions, however often they come back, cannot starve it.
TopRegionEnters ==
    \A t \in Threads, r \in Regions :
        SoleUserOfTop(t, r) => (Waiting(t) /\ want[t] = r ~> holds[t] = r)

=============================================================================
