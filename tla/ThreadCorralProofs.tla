------------------------- MODULE ThreadCorralProofs -------------------------
(***************************************************************************)
(* Proofs about ThreadCorral, for every finite set of threads, every set   *)
(* of region numbers and every nesting bound.                              *)
(*                                                                         *)
(* None of the invariants is inductive alone.  That a request has a waiter *)
(* survives a thread joining the running region only because the requested *)
(* region is never the running one (RequestIsForAnother); that no wakeup   *)
(* is lost needs to know which thread the last Exit() woke (WokenForIt)    *)
(* and that without a request it woke them all (NobodySleeps).             *)
(***************************************************************************)
EXTENDS ThreadCorral, FiniteSetTheorems, TLAPS

\* The prover of the leaves that name no other.
USE SMTT(40)

\* Local bookkeeping: a thread waits exactly while it has a region it wants,
\* and is inside exactly while it holds a region.
Bookkeeping ==
    \A t \in Threads : /\ pc[t] = "run" <=> want[t] = 0
                       /\ depth[t] > 0 <=> holds[t] # 0

\* The region asked for is never the one that ran last: a request for the
\* running region is granted, or refused for the sake of a higher one.
RequestIsForAnother ==
    maxRequestedRegion # 0 => maxRequestedRegion # curRegion

\* With nobody inside, the thread whose request is recorded has been woken.
WokenForIt ==
    curCount = 0 /\ maxRequestedRegion # 0 =>
        \E t \in Threads : pc[t] = "ready" /\ want[t] = maxRequestedRegion

\* With nobody inside and no request recorded, no thread sleeps.
NobodySleeps ==
    curCount = 0 /\ maxRequestedRegion = 0 => \A t \in Threads : pc[t] # "wait"

IInv ==
    /\ TypeOK
    /\ Bookkeeping
    /\ InsideCurRegion
    /\ CountIsHeld
    /\ InsideNeverWaits
    /\ RequestIsForAnother
    /\ RequestHasWaiter
    /\ WokenForIt
    /\ NobodySleeps
-----------------------------------------------------------------------------
\* The set of live CCorralLock objects is finite, so curCount is its size.
LEMMA HeldFinite ==
    ASSUME TypeOK
    PROVE  IsFiniteSet(Held) /\ Cardinality(Held) \in Nat
<1>1. IsFiniteSet(Threads) /\ MaxNest \in Nat
  BY CorralAssumption
<1>2. IsFiniteSet(1 .. MaxNest)
  BY <1>1, FS_Interval
<1>3. IsFiniteSet(Threads \X (1 .. MaxNest))
  BY <1>1, <1>2, FS_Product
<1>4. Held \in SUBSET (Threads \X (1 .. MaxNest))
  BY DEF Held
<1>5. IsFiniteSet(Held)
  BY <1>3, <1>4, FS_Subset
<1> QED
  BY <1>5, FS_CardinalityType

\* curCount is 0 exactly when no thread is inside.
LEMMA CountZero ==
    ASSUME TypeOK, CountIsHeld
    PROVE  curCount = 0 <=> \A t \in Threads : depth[t] = 0
<1>1. curCount = 0 <=> Held = {}
  BY HeldFinite, FS_EmptySet DEF CountIsHeld
<1>2. ASSUME NEW t \in Threads, depth[t] # 0
      PROVE  Held # {}
  <2>1. depth[t] \in 0 .. MaxNest /\ MaxNest \in Nat
    BY CorralAssumption DEF TypeOK
  <2>2. 1 \in 1 .. MaxNest /\ 1 <= depth[t]
    BY <1>2, <2>1
  <2>3. <<t, 1>> \in Held
    BY <2>2 DEF Held
  <2> QED BY <2>3
<1>3. ASSUME Held # {}
      PROVE  \E t \in Threads : depth[t] # 0
  <2>1. PICK h \in Threads \X (1 .. MaxNest) : h[2] <= depth[h[1]]
    BY <1>3 DEF Held
  <2>2. h[1] \in Threads /\ h[2] \in 1 .. MaxNest
    BY <2>1
  <2>3. depth[h[1]] # 0
    BY <2>1, <2>2, CorralAssumption DEF TypeOK
  <2> QED BY <2>2, <2>3
<1> QED BY <1>1, <1>2, <1>3

\* When Enter() returns, one more CCorralLock object is alive.
LEMMA HeldGrows ==
    ASSUME TypeOK, NEW t \in Threads, depth[t] < MaxNest,
           depth' = [depth EXCEPT ![t] = @ + 1]
    PROVE  Cardinality(Held') = Cardinality(Held) + 1
<1> DEFINE e == <<t, depth[t] + 1>>
<1>1. depth[t] \in 0 .. MaxNest /\ MaxNest \in Nat
  BY CorralAssumption DEF TypeOK
<1>2. e \in Threads \X (1 .. MaxNest) /\ e \notin Held
  BY <1>1 DEF Held
<1>3. \A h \in Threads \X (1 .. MaxNest) :
         h[2] <= depth'[h[1]] <=> (h[2] <= depth[h[1]] \/ h = e)
  <2> SUFFICES ASSUME NEW u \in Threads, NEW i \in 1 .. MaxNest
               PROVE  i <= depth'[u] <=> (i <= depth[u] \/ <<u, i>> = e)
    OBVIOUS
  <2>1. depth[u] \in 0 .. MaxNest
    BY DEF TypeOK
  <2>2. CASE u = t
    BY <2>1, <2>2, <1>1 DEF TypeOK
  <2>3. CASE u # t
    BY <2>1, <2>3, <1>1 DEF TypeOK
  <2> QED BY <2>2, <2>3
<1>4. Held' = Held \cup {e}
  BY <1>2, <1>3 DEF Held
<1> QED
  BY <1>2, <1>4, HeldFinite, FS_AddElement, ZenonT(40)

\* When Exit() returns, one CCorralLock object less is alive.
LEMMA HeldShrinks ==
    ASSUME TypeOK, NEW t \in Threads, depth[t] > 0,
           depth' = [depth EXCEPT ![t] = @ - 1]
    PROVE  Cardinality(Held') = Cardinality(Held) - 1
<1> DEFINE e == <<t, depth[t]>>
<1>1. depth[t] \in 0 .. MaxNest /\ MaxNest \in Nat
  BY CorralAssumption DEF TypeOK
<1>2. e \in Threads \X (1 .. MaxNest) /\ e \in Held
  BY <1>1 DEF Held
<1>3. \A h \in Threads \X (1 .. MaxNest) :
         h[2] <= depth'[h[1]] <=> (h[2] <= depth[h[1]] /\ h # e)
  <2> SUFFICES ASSUME NEW u \in Threads, NEW i \in 1 .. MaxNest
               PROVE  i <= depth'[u] <=> (i <= depth[u] /\ <<u, i>> # e)
    OBVIOUS
  <2>1. depth[u] \in 0 .. MaxNest
    BY DEF TypeOK
  <2>2. CASE u = t
    BY <2>1, <2>2, <1>1 DEF TypeOK
  <2>3. CASE u # t
    BY <2>1, <2>3, <1>1 DEF TypeOK
  <2> QED BY <2>2, <2>3
<1>4. Held' = Held \ {e}
  BY <1>2, <1>3 DEF Held
<1> QED
  BY <1>2, <1>4, HeldFinite, FS_RemoveElement, ZenonT(40)
-----------------------------------------------------------------------------
\* A thread in Enter(r) that is not inside, or is inside r and may nest, goes
\* to a state that satisfies the invariant, whichever branch it takes.
LEMMA EnterPassKeepsIInv ==
    ASSUME IInv, NEW t \in Threads, NEW r \in Regions,
           \/ pc[t] = "run" /\ MayEnter(t, r)
           \/ pc[t] = "ready" /\ want[t] = r,
           EnterPass(t, r)
    PROVE  IInv'
<1> USE DEF IInv
<1>a. /\ Regions \subseteq Nat /\ r > 0 /\ MaxNest \in Nat /\ MaxNest > 0
      /\ \A q \in Nestable : \A p \in Regions : p <= q
  BY CorralAssumption
<1>b. curCount = 0 <=> \A u \in Threads : depth[u] = 0
  BY CountZero
<1>c. /\ depth[t] \in 0 .. MaxNest
      /\ depth[t] < MaxNest
      /\ depth[t] > 0 => holds[t] = r /\ r \in Nestable /\ curRegion = r
  BY <1>a DEF MayEnter, InsideNeverWaits, InsideCurRegion, TypeOK
<1>d. ASSUME NEW u \in Threads, Waiting(u), want[u] # r
      PROVE  u # t
  BY <1>d DEF Bookkeeping, Waiting, TypeOK
<1>e. maxRequestedRegion \in Nat /\ curCount \in Nat
  BY <1>a DEF TypeOK
<1>1. CASE RunMyRegion(t, r)
  <2>1. /\ curCount = 0 /\ curCount' = 1 /\ curRegion' = r
        /\ maxRequestedRegion' = 0
        /\ pc' = [pc EXCEPT ![t] = "run"] /\ want' = [want EXCEPT ![t] = 0]
        /\ holds' = [holds EXCEPT ![t] = r]
        /\ depth' = [depth EXCEPT ![t] = @ + 1]
    BY <1>1 DEF RunMyRegion, Return
  <2>2. \A u \in Threads : depth[u] = 0
    BY <2>1, <1>b
  <2>3. TypeOK'
    BY <2>1, <1>a, <1>c DEF TypeOK
  <2>4. Bookkeeping'
    BY <2>1, <2>2, <1>a DEF TypeOK, Bookkeeping
  <2>5. InsideCurRegion'
    BY <2>1, <2>2 DEF TypeOK, InsideCurRegion
  <2>6. CountIsHeld'
    <3>1. Cardinality(Held') = Cardinality(Held) + 1
      BY <2>1, <1>c, HeldGrows, ZenonT(40)
    <3> QED BY <3>1, <2>1 DEF CountIsHeld
  <2>7. InsideNeverWaits'
    BY <2>1, <2>2 DEF TypeOK, InsideNeverWaits
  <2>8. RequestIsForAnother' /\ RequestHasWaiter' /\ WokenForIt' /\ NobodySleeps'
    BY <2>1 DEF RequestIsForAnother, RequestHasWaiter, WokenForIt, NobodySleeps
  <2> QED BY <2>3, <2>4, <2>5, <2>6, <2>7, <2>8
<1>2. CASE JoinMyRegion(t, r)
  <2>1. /\ curCount # 0 /\ curCount' = curCount + 1
        /\ curRegion = r /\ UNCHANGED <<curRegion, maxRequestedRegion>>
        /\ r >= maxRequestedRegion
        /\ pc' = [pc EXCEPT ![t] = "run"] /\ want' = [want EXCEPT ![t] = 0]
        /\ holds' = [holds EXCEPT ![t] = r]
        /\ depth' = [depth EXCEPT ![t] = @ + 1]
    BY <1>2 DEF JoinMyRegion, Return
  <2>3. TypeOK'
    BY <2>1, <1>a, <1>c DEF TypeOK
  <2>4. Bookkeeping'
    BY <2>1, <1>a, <1>c DEF TypeOK, Bookkeeping
  <2>5. InsideCurRegion'
    BY <2>1 DEF TypeOK, InsideCurRegion
  <2>6. CountIsHeld'
    BY <2>1, <1>c, HeldGrows, ZenonT(40) DEF CountIsHeld
  <2>7. InsideNeverWaits'
    BY <2>1 DEF TypeOK, InsideNeverWaits
  <2>8. RequestIsForAnother'
    BY <2>1 DEF RequestIsForAnother
  <2>9. RequestHasWaiter'
    <3> SUFFICES ASSUME maxRequestedRegion # 0
                 PROVE  RequestHasWaiter'
      BY <2>1 DEF RequestHasWaiter
    <3>1. PICK u \in Threads : Waiting(u) /\ want[u] = maxRequestedRegion
      BY DEF RequestHasWaiter
    <3>2. u # t
      BY <3>1, <2>1, <1>d DEF RequestIsForAnother
    <3>3. Waiting(u)' /\ want'[u] = maxRequestedRegion'
      BY <3>1, <3>2, <2>1 DEF Waiting, TypeOK
    <3> QED BY <3>3 DEF RequestHasWaiter
  <2>10. curCount' # 0
    BY <2>1, <1>e
  <2>11. WokenForIt' /\ NobodySleeps'
    BY <2>10 DEF WokenForIt, NobodySleeps
  <2> QED BY <2>3, <2>4, <2>5, <2>6, <2>7, <2>8, <2>9, <2>11
<1>3. CASE CannotRun(t, r)
  <2>1. /\ r < maxRequestedRegion \/ (curCount # 0 /\ curRegion # r)
        /\ maxRequestedRegion' = IF r > maxRequestedRegion THEN r ELSE maxRequestedRegion
        /\ pc' = [pc EXCEPT ![t] = "wait"] /\ want' = [want EXCEPT ![t] = r]
        /\ UNCHANGED <<curRegion, curCount, holds, depth>>
    BY <1>3 DEF CannotRun
  <2>2. depth[t] = 0
    <3>1. ASSUME depth[t] > 0 PROVE FALSE
      <4>1. curRegion = r /\ r \in Nestable
        BY <3>1, <1>c
      <4>2. maxRequestedRegion <= r
        BY <4>1, <1>a DEF TypeOK
      <4> QED BY <4>1, <4>2, <2>1, <1>a, <1>e
    <3> QED BY <3>1, <1>c
  <2>3. TypeOK'
    BY <2>1, <1>a DEF TypeOK
  <2>4. Bookkeeping'
    BY <2>1, <1>a DEF TypeOK, Bookkeeping
  <2>5. InsideCurRegion'
    BY <2>1 DEF InsideCurRegion
  <2>6. CountIsHeld'
    BY <2>1 DEF CountIsHeld, Held
  <2>7. InsideNeverWaits'
    BY <2>1, <2>2 DEF TypeOK, InsideNeverWaits
  <2>8. RequestIsForAnother'
    BY <2>1, <1>a, <1>e DEF RequestIsForAnother
  <2>9. RequestHasWaiter'
    <3>1. CASE maxRequestedRegion' = r
      BY <3>1, <2>1, ZenonT(40) DEF RequestHasWaiter, Waiting, TypeOK
    <3>2. CASE maxRequestedRegion' # r
      <4> SUFFICES ASSUME maxRequestedRegion' # 0
                   PROVE  RequestHasWaiter'
        BY DEF RequestHasWaiter
      <4>1. maxRequestedRegion' = maxRequestedRegion
        BY <3>2, <2>1
      <4>2. PICK u \in Threads : Waiting(u) /\ want[u] = maxRequestedRegion
        BY <4>1 DEF RequestHasWaiter
      <4>3. u # t
        BY <4>1, <4>2, <3>2, <1>d
      <4>4. Waiting(u)' /\ want'[u] = maxRequestedRegion'
        BY <4>1, <4>2, <4>3, <2>1 DEF Waiting, TypeOK
      <4> QED BY <4>4 DEF RequestHasWaiter
    <3> QED BY <3>1, <3>2
  <2>10. ASSUME curCount' = 0
         PROVE  /\ maxRequestedRegion' = maxRequestedRegion
                /\ r < maxRequestedRegion
    BY <2>10, <2>1, <1>a, <1>e
  <2>11. WokenForIt'
    <3> SUFFICES ASSUME curCount' = 0, maxRequestedRegion' # 0
                 PROVE  \E u \in Threads : pc'[u] = "ready" /\ want'[u] = maxRequestedRegion'
      BY DEF WokenForIt
    <3>1. PICK u \in Threads : pc[u] = "ready" /\ want[u] = maxRequestedRegion
      BY <2>10, <2>1 DEF WokenForIt
    <3>2. u # t
      BY <3>1, <2>10, <1>d, <1>a, <1>e DEF Waiting
    <3>3. pc'[u] = "ready" /\ want'[u] = maxRequestedRegion'
      BY <3>1, <3>2, <2>10, <2>1 DEF TypeOK
    <3> QED BY <3>3
  <2>12. NobodySleeps'
    BY <2>10, <1>a, <1>e DEF NobodySleeps
  <2> QED BY <2>3, <2>4, <2>5, <2>6, <2>7, <2>8, <2>9, <2>11, <2>12
<1> QED BY <1>1, <1>2, <1>3 DEF EnterPass

\* Exit() keeps the invariant: the last thread out wakes every waiter.
LEMMA ExitKeepsIInv ==
    ASSUME IInv, NEW t \in Threads, Exit(t)
    PROVE  IInv'
<1> USE DEF IInv
<1>a. Regions \subseteq Nat /\ MaxNest \in Nat
  BY CorralAssumption
<1>1. /\ pc[t] = "run" /\ depth[t] > 0 /\ depth[t] \in 0 .. MaxNest
      /\ curCount' = curCount - 1
      /\ holds' = [holds EXCEPT ![t] = IF depth[t] = 1 THEN 0 ELSE @]
      /\ depth' = [depth EXCEPT ![t] = @ - 1]
      /\ UNCHANGED <<curRegion, maxRequestedRegion, want>>
  BY DEF Exit, TypeOK
<1>2. \A u \in Threads :
         pc'[u] = IF curCount' = 0 /\ pc[u] = "wait" THEN "ready" ELSE pc[u]
  BY DEF Exit, TypeOK
<1>3. pc' \in [Threads -> {"run", "wait", "ready"}]
  BY DEF Exit, TypeOK
<1>4. curCount \in Nat /\ curCount # 0
  BY <1>1, CountZero DEF TypeOK
<1>5. TypeOK'
  <2>1. curCount' \in Nat
    BY <1>1, <1>4
  <2>2. depth' \in [Threads -> 0 .. MaxNest]
    BY <1>1, <1>a DEF TypeOK
  <2>3. holds' \in [Threads -> Regions \cup {0}]
    BY <1>1 DEF TypeOK
  <2> QED BY <1>1, <1>3, <2>1, <2>2, <2>3 DEF TypeOK
<1>6. Bookkeeping'
  <2> SUFFICES ASSUME NEW u \in Threads
               PROVE  /\ pc'[u] = "run" <=> want'[u] = 0
                      /\ depth'[u] > 0 <=> holds'[u] # 0
    BY DEF Bookkeeping
  <2>1. pc'[u] = "run" <=> want'[u] = 0
    BY <1>1, <1>2 DEF Bookkeeping
  <2>2. depth'[u] > 0 <=> holds'[u] # 0
    BY <1>1, <1>a DEF Bookkeeping, TypeOK
  <2> QED BY <2>1, <2>2
<1>7. InsideCurRegion'
  BY <1>1, <1>a DEF InsideCurRegion, TypeOK
<1>8. CountIsHeld'
  <2>1. Cardinality(Held') = Cardinality(Held) - 1
    BY <1>1, HeldShrinks, ZenonT(40)
  <2> QED BY <2>1, <1>1 DEF CountIsHeld
<1>9. InsideNeverWaits'
  BY <1>1, <1>2, <1>a DEF InsideNeverWaits, TypeOK
<1>10. RequestIsForAnother'
  BY <1>1 DEF RequestIsForAnother
<1>11. \A u \in Threads : Waiting(u) =>
          Waiting(u)' /\ (curCount' = 0 => pc'[u] = "ready") /\ want'[u] = want[u]
  BY <1>1, <1>2 DEF Waiting
<1>12. RequestHasWaiter' /\ WokenForIt'
  BY <1>1, <1>11 DEF RequestHasWaiter, WokenForIt
<1>13. NobodySleeps'
  BY <1>2 DEF NobodySleeps
<1> QED BY <1>5, <1>6, <1>7, <1>8, <1>9, <1>10, <1>12, <1>13

\* The inductive invariant holds in every reachable state.
THEOREM Inductive == Spec => []IInv
<1>1. Init => IInv
  <2> SUFFICES ASSUME Init PROVE IInv
    OBVIOUS
  <2>1. TypeOK
    BY CorralAssumption DEF Init, TypeOK
  <2>2. Held = {}
    BY CorralAssumption DEF Init, Held
  <2>3. CountIsHeld
    BY <2>2, FS_EmptySet DEF Init, CountIsHeld
  <2> QED
    BY <2>1, <2>3 DEF Init, IInv, Bookkeeping, InsideCurRegion, InsideNeverWaits,
       RequestIsForAnother, RequestHasWaiter, WokenForIt, NobodySleeps
<1>2. IInv /\ [Next]_vars => IInv'
  <2> SUFFICES ASSUME IInv, [Next]_vars PROVE IInv'
    OBVIOUS
  <2>1. ASSUME NEW t \in Threads, NEW r \in Regions, Enter(t, r)
        PROVE  IInv'
    BY <2>1, EnterPassKeepsIInv DEF Enter
  <2>2. ASSUME NEW t \in Threads, Resume(t)
        PROVE  IInv'
    <3>1. want[t] \in Regions
      BY <2>2 DEF Resume, IInv, Bookkeeping, TypeOK
    <3> QED BY <2>2, <3>1, EnterPassKeepsIInv DEF Resume
  <2>3. ASSUME NEW t \in Threads, SpuriousWake(t)
        PROVE  IInv'
    <3> USE DEF IInv
    <3>1. /\ pc[t] = "wait" /\ pc' = [pc EXCEPT ![t] = "ready"]
          /\ UNCHANGED <<curRegion, curCount, maxRequestedRegion, want, holds, depth>>
      BY <2>3 DEF SpuriousWake
    <3>2. TypeOK' /\ Bookkeeping' /\ InsideCurRegion' /\ InsideNeverWaits'
      BY <3>1 DEF TypeOK, Bookkeeping, InsideCurRegion, InsideNeverWaits
    <3>3. CountIsHeld'
      BY <3>1 DEF CountIsHeld, Held
    <3>4. RequestIsForAnother' /\ RequestHasWaiter' /\ WokenForIt' /\ NobodySleeps'
      BY <3>1 DEF TypeOK, RequestIsForAnother, RequestHasWaiter, WokenForIt,
         NobodySleeps, Waiting
    <3> QED BY <3>2, <3>3, <3>4
  <2>4. ASSUME NEW t \in Threads, Exit(t)
        PROVE  IInv'
    BY <2>4, ExitKeepsIInv
  <2>5. CASE UNCHANGED vars
    BY <2>5 DEF vars, IInv, TypeOK, Bookkeeping, InsideCurRegion, CountIsHeld, Held,
       InsideNeverWaits, RequestIsForAnother, RequestHasWaiter, Waiting, WokenForIt,
       NobodySleeps
  <2> QED BY <2>1, <2>2, <2>3, <2>4, <2>5 DEF Next
<1> QED BY <1>1, <1>2, PTL DEF Spec

\* Type correctness, and no thread inside a region other than curRegion: the
\* assertion of Exit() never fails.
THEOREM RegionsExclude == Spec => [](TypeOK /\ InsideCurRegion)
BY Inductive, PTL DEF IInv

\* A wakeup is never lost, whatever the number of threads and regions.
THEOREM WakeupsAreNotLost == Spec => []NoLostWakeup
<1>1. IInv => NoLostWakeup
  <2> SUFFICES ASSUME IInv, curCount = 0, NEW t \in Threads, Waiting(t)
               PROVE  \E u \in Threads : pc[u] = "ready" /\ want[u] >= maxRequestedRegion
    BY DEF NoLostWakeup
  <2>1. \A u \in Threads : want[u] \in Nat
    BY CorralAssumption, ZenonT(40) DEF IInv, TypeOK
  <2>2. CASE maxRequestedRegion = 0
    <3>1. pc[t] = "ready"
      BY <2>2 DEF IInv, NobodySleeps, Waiting
    <3> QED BY <3>1, <2>1, <2>2
  <2>3. CASE maxRequestedRegion # 0
    BY <2>3, <2>1 DEF IInv, WokenForIt
  <2> QED BY <2>2, <2>3
<1> QED BY <1>1, Inductive, PTL

\* A recorded request always belongs to a thread that still waits for it.
THEOREM RequestsAreReal == Spec => []RequestHasWaiter
BY Inductive, PTL DEF IInv

\* Entering the corral again from inside never blocks.
THEOREM NestingNeverBlocks == Spec => []InsideNeverWaits
BY Inductive, PTL DEF IInv

\* CThreadCorral implements the promise of the module Corral.
THEOREM CorralImplemented == Spec => ImplementsCorral
<1>1. Init => Promise!CorralInit
  BY DEF Init, Promise!CorralInit
<1>2. IInv /\ [Next]_vars => [Promise!CorralNext]_Promise!corralVars
  <2> SUFFICES ASSUME IInv, [Next]_vars
               PROVE  Promise!CorralNext \/ UNCHANGED <<holds, depth>>
    BY DEF Promise!corralVars
  <2>1. ASSUME NEW t \in Threads, NEW r \in Regions, EnterPass(t, r)
        PROVE  Promise!CorralNext \/ UNCHANGED <<holds, depth>>
    <3>1. CASE RunMyRegion(t, r)
      <4>1. \A u \in Threads : depth[u] = 0
        BY <3>1, CountZero DEF RunMyRegion, IInv
      <4>2. Promise!EnterRegion(t, r)
        BY <3>1, <4>1 DEF RunMyRegion, Return, Promise!EnterRegion, Promise!OnlyRegion
      <4> QED BY <4>2 DEF Promise!CorralNext
    <3>2. CASE JoinMyRegion(t, r)
      <4>1. Promise!EnterRegion(t, r)
        BY <3>2 DEF JoinMyRegion, Return, IInv, InsideCurRegion,
           Promise!EnterRegion, Promise!OnlyRegion
      <4> QED BY <4>1 DEF Promise!CorralNext
    <3>3. CASE CannotRun(t, r)
      BY <3>3 DEF CannotRun
    <3> QED BY <2>1, <3>1, <3>2, <3>3 DEF EnterPass
  <2>2. ASSUME NEW t \in Threads, Resume(t)
        PROVE  Promise!CorralNext \/ UNCHANGED <<holds, depth>>
    <3>1. want[t] \in Regions
      BY <2>2 DEF Resume, IInv, Bookkeeping, TypeOK
    <3> QED BY <2>1, <2>2, <3>1 DEF Resume
  <2>3. ASSUME NEW t \in Threads, Exit(t)
        PROVE  Promise!CorralNext
    <3>1. Promise!ExitRegion(t)
      BY <2>3 DEF Exit, Promise!ExitRegion
    <3> QED BY <3>1 DEF Promise!CorralNext
  <2> QED BY <2>1, <2>2, <2>3 DEF Next, Enter, SpuriousWake, vars
<1> QED BY <1>1, <1>2, Inductive, PTL DEF Spec, ImplementsCorral, Promise!CorralSpec
=============================================================================
