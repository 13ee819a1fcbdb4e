-------------------------- MODULE TxAdmissionInv ---------------------------
(***************************************************************************)
(* The first inductive invariant of TxAdmission, Inv, and that every       *)
(* action keeps it; for any set of transactions, any filter and any number *)
(* of threads.                                                             *)
(*                                                                         *)
(* Inv says where a thread may be, what it has to do next and what its     *)
(* place in the corral is (Control), who holds cs_accept (AcceptLock),     *)
(* that nothing waits for a commit that somebody in the corral has         *)
(* finished (Flushed), that the txpool and what may enter it spend nothing *)
(* twice (Unspent), and that whatever the workers may take belongs to one  *)
(* round (Round).                                                          *)
(*                                                                         *)
(* First come the queues: what testing and enqueueing a transaction does,  *)
(* and the round that a commit makes of what was deferred.  The proofs     *)
(* about the actions have two layers.  The lemmas that end in Tame show of *)
(* each action that it keeps the types and the control, and what it makes  *)
(* of the acting thread; they unfold the action once.  The steps of        *)
(* NextInv, one for each action, show Inv from that.                       *)
(*                                                                         *)
(* A step that is used again and again in its proof has no name: its fact  *)
(* is in force from there on and is not cited.                             *)
(***************************************************************************)
EXTENDS TxAdmission, TLAPS

\* Zenon proves most of the leaves; the others name their prover.
USE ZenonT(60)
USE DEF queueVars, poolVars, orphanVars, filterVars, batchVars, boundVars, corralVars

-----------------------------------------------------------------------------
(* Queues                                                                  *)

\* What the four members of the admission state may hold; what the workers may
\* take; what is queued in any way.
QueueType == [in : Seq(Txs), orphan : Seq(Txs), defer : Seq(Txs),
              conflicts : SUBSET UNION Range(Bits)]

Ready(q) == Range(q.in) \cup Range(q.orphan)
Everything(q) == Range(q.defer) \cup Ready(q)

\* The filter knows all inputs of t.
Covered(q, t) == \A o \in Inputs(t) : Bits[o] \subseteq q.conflicts

\* The filter knows no input of t.
Unseen(q, t) == \A o \in Inputs(t) : ~(Bits[o] \subseteq q.conflicts)

\* What is ready is in the filter and spends different outputs.
Separate(q) ==
    /\ \A t \in Ready(q) : Covered(q, t)
    /\ \A i, j \in DOMAIN q.in : i # j => Disjoint(q.in[i], q.in[j])
    /\ \A i, j \in DOMAIN q.orphan : i # j => Disjoint(q.orphan[i], q.orphan[j])
    /\ \A t \in Range(q.in), u \in Range(q.orphan) : Disjoint(t, u)

\* r is q after some transactions have been tested and enqueued.
Extended(q, r) ==
    /\ r \in QueueType /\ Separate(r)
    /\ q.conflicts \subseteq r.conflicts
    /\ \A t \in Ready(r) : t \in Ready(q) \/ Unseen(q, t)

\* Induction over the natural numbers, as a fact about sets.  It is proved in
\* TxAdmissionProofs from the library, which is slow to have at hand.
NatStepwise ==
    \A T : 0 \in T /\ (\A n \in Nat : n \in T => n + 1 \in T) => Nat \subseteq T

\* What the loop over a queue of transactions achieves.
EnqueueAllOK ==
    \A q \in QueueType, s \in Seq(Txs) :
        Separate(q) => /\ Extended(q, EnqueueAll(q, s))
                       /\ Everything(EnqueueAll(q, s)) = Everything(q) \cup Range(s)

-----------------------------------------------------------------------------
(* What the queues compute                                                 *)

\* The next number, for the counter of rounds.
LEMMA NatSucc == \A n \in Nat : n + 1 \in Nat
  BY SMTT(60)

\* The number before, for the least number outside a set.
LEMMA NatPred == \A n \in Nat : n # 0 => n - 1 \in Nat /\ (n - 1) + 1 = n /\ ~(n <= n - 1)
  BY SMTT(60)

\* Numbers are ordered.
LEMMA NatOrder == \A m, n \in Nat : ~(n < m) => m <= n
  BY SMTT(60)

\* Positions in a concatenation stay different in its second part.
LEMMA Differences == \A k, m, n \in Nat : m # n => m - k # n - k
  BY SMTT(60)

\* The depths in the corral.
LEMMA UptoTwo == 0 \in 0 .. 2 /\ 1 \in 0 .. 2 /\ 2 \in 0 .. 2
  BY SMTT(60)

\* One more call of kind k: c calls become d, where n are allowed.
OneMore(c, k, d, n) ==
    /\ d \in [CallKinds -> Nat] /\ d[k] # 0 /\ n # 0
    /\ \A j \in CallKinds : (c[j] # 0 => d[j] # 0) /\ (j # k => d[j] = c[j])

\* Counting the call makes it so.
LEMMA CallMade ==
    ASSUME NEW c, c \in [CallKinds -> Nat], NEW k \in CallKinds, NEW d, NEW n, c[k] < n,
           d = [c EXCEPT ![k] = @ + 1]
    PROVE  OneMore(c, k, d, n)
<1>1. c[k] \in Nat /\ c[k] + 1 \in Nat /\ c[k] + 1 # 0 /\ n # 0
  BY SMTT(60)
<1> QED BY <1>1 DEF OneMore

\* Disjoint says the same of both.
LEMMA DisjointSym == \A t, u : Disjoint(t, u) <=> Disjoint(u, t)
  BY DEF Disjoint

\* The elements of a concatenation.
LEMMA RangeOfConcat ==
    ASSUME NEW S, NEW s \in Seq(S), NEW r \in Seq(S)
    PROVE  s \o r \in Seq(S) /\ Range(s \o r) = Range(s) \cup Range(r)
<1> /\ Len(s \o r) = Len(s) + Len(r) /\ s \o r \in Seq(S)
    /\ \A i \in 1 .. Len(s) + Len(r) :
          (s \o r)[i] = IF i <= Len(s) THEN s[i] ELSE r[i - Len(s)]
    BY SMTT(60)
<1> ASSUME NEW x \in Range(s) PROVE x \in Range(s \o r)
    <2> PICK i \in DOMAIN s : x = s[i]
        BY DEF Range
    <2> i \in DOMAIN (s \o r) /\ (s \o r)[i] = x
        BY SMTT(60)
    <2> QED
        BY DEF Range
<1> ASSUME NEW x \in Range(r) PROVE x \in Range(s \o r)
    <2> PICK i \in DOMAIN r : x = r[i]
        BY DEF Range
    <2> Len(s) + i \in DOMAIN (s \o r) /\ (s \o r)[Len(s) + i] = x
        BY SMTT(60)
    <2> QED
        BY DEF Range
<1> ASSUME NEW x \in Range(s \o r) PROVE x \in Range(s) \cup Range(r)
    <2> PICK i \in DOMAIN (s \o r) : x = (s \o r)[i]
        BY DEF Range
    <2> CASE i <= Len(s)
        BY SMTT(60) DEF Range
    <2> CASE ~(i <= Len(s))
        <3>1. i - Len(s) \in DOMAIN r /\ x = r[i - Len(s)]
            BY SMTT(60)
        <3> QED
            BY <3>1 DEF Range
    <2> QED
        OBVIOUS
<1> QED
    OBVIOUS

\* The head and the tail of a sequence.
LEMMA TailFacts ==
    ASSUME NEW S, NEW s \in Seq(S), s # <<>>
    PROVE  /\ Tail(s) \in Seq(S) /\ Head(s) = s[1] /\ 1 \in DOMAIN s /\ Head(s) \in Range(s)
           /\ DOMAIN Tail(s) = 1 .. Len(s) - 1
           /\ \A i \in DOMAIN Tail(s) : i + 1 \in DOMAIN s /\ i + 1 # 1 /\ Tail(s)[i] = s[i + 1]
           /\ Range(s) = Range(Tail(s)) \cup {Head(s)}
<1> /\ Tail(s) \in Seq(S) /\ Head(s) = s[1] /\ 1 \in DOMAIN s
    /\ DOMAIN s = 1 .. Len(s) /\ Len(s) \in Nat \ {0}
    /\ DOMAIN Tail(s) = 1 .. Len(s) - 1
    /\ \A i \in 1 .. Len(s) - 1 : Tail(s)[i] = s[i + 1]
  BY SMTT(60)
<1> \A i \in DOMAIN Tail(s) : i + 1 \in DOMAIN s /\ i + 1 # 1 /\ Tail(s)[i] = s[i + 1]
  BY SMTT(60)
<1>3. ASSUME NEW i \in DOMAIN s PROVE s[i] = Head(s) \/ s[i] \in Range(Tail(s))
  <2> CASE i = 1
    OBVIOUS
  <2> CASE i # 1
    <3>1. i - 1 \in DOMAIN Tail(s) /\ Tail(s)[i - 1] = s[i]
      BY SMTT(60)
    <3> QED BY <3>1 DEF Range
  <2> QED OBVIOUS
<1>4. Range(Tail(s)) \subseteq Range(s)
  BY DEF Range
<1>5. Range(s) \subseteq Range(Tail(s)) \cup {Head(s)}
  BY <1>3 DEF Range
<1>6. Head(s) \in Range(s)
  BY DEF Range
<1> QED BY <1>4, <1>5, <1>6

\* The elements of a longer sequence.
LEMMA RangeOfAppend ==
    ASSUME NEW S, NEW s \in Seq(S), NEW t \in S
    PROVE  Append(s, t) \in Seq(S) /\ Range(Append(s, t)) = Range(s) \cup {t}
<1>1. /\ Append(s, t) \in Seq(S) /\ Len(Append(s, t)) = Len(s) + 1
      /\ \A i \in 1 .. Len(s) : Append(s, t)[i] = s[i]
      /\ Append(s, t)[Len(s) + 1] = t
    BY SMTT(60)
<1> QED
    BY <1>1, SMTT(60) DEF Range

\* The elements of the concatenation of three sequences.
LEMMA RangeOfThree ==
    ASSUME NEW S, NEW a \in Seq(S), NEW b \in Seq(S), NEW c \in Seq(S)
    PROVE  /\ a \o b \o c \in Seq(S)
           /\ Range(a \o b \o c) = Range(a) \cup Range(b) \cup Range(c)
<1>1. a \o b \in Seq(S)
  BY RangeOfConcat
<1>2. /\ (a \o b) \o c \in Seq(S)
      /\ Range(a \o b) = Range(a) \cup Range(b)
      /\ Range((a \o b) \o c) = Range(a \o b) \cup Range(c)
  BY <1>1, RangeOfConcat
<1> QED BY <1>2

\* AllQueued lists everything that is queued.
LEMMA AllIsEverything ==
    ASSUME NEW q \in QueueType PROVE Range(AllQueued(q)) = Everything(q)
<1>1. q.in \in Seq(Txs) /\ q.orphan \in Seq(Txs) /\ q.defer \in Seq(Txs)
  BY DEF QueueType
<1>2. Range(q.defer \o q.orphan \o q.in) = Range(q.defer) \cup Range(q.orphan) \cup Range(q.in)
  BY <1>1, RangeOfThree, SMTT(60)
<1> QED BY <1>2 DEF AllQueued, Everything, Ready

\* Where the elements of a concatenation come from.
LEMMA ConcatFacts ==
    ASSUME NEW S, NEW s \in Seq(S), NEW r \in Seq(S)
    PROVE  /\ DOMAIN (s \o r) \subseteq Nat /\ Len(s) \in Nat
           /\ \A i \in DOMAIN (s \o r) :
                 \/ i \in DOMAIN s /\ (s \o r)[i] = s[i]
                 \/ /\ i > Len(s) /\ i - Len(s) \in DOMAIN r
                    /\ (s \o r)[i] = r[i - Len(s)]
<1>1. /\ DOMAIN (s \o r) = 1 .. Len(s) + Len(r)
      /\ DOMAIN s = 1 .. Len(s) /\ DOMAIN r = 1 .. Len(r)
      /\ Len(s) \in Nat /\ Len(r) \in Nat
      /\ \A i \in 1 .. Len(s) + Len(r) :
            (s \o r)[i] = IF i <= Len(s) THEN s[i] ELSE r[i - Len(s)]
  BY SMTT(60)
<1> QED BY <1>1, SMTT(60)

\* The elements of a sequence.
LEMMA RangeOfSeq ==
    ASSUME NEW S, NEW s \in Seq(S)
    PROVE  Range(s) \subseteq S
    BY SMTT(60) DEF Range

\* The filter only grows, and a transaction that does not collide has all its
\* inputs entered and had none of them there before.
LEMMA FilterTest ==
    ASSUME NEW set \in SUBSET UNION Range(Bits), NEW t \in Txs
    PROVE  /\ set \subseteq SetByTest(set, t) /\ SetByTest(set, t) \subseteq UNION Range(Bits)
           /\ Collisions(set, t) = {} =>
                 \A o \in Inputs(t) : ~(Bits[o] \subseteq set)
                   /\ Bits[o] \subseteq SetByTest(set, t)
<1>1. \A k \in DOMAIN Spends[t] : Bits[Spends[t][k]] \subseteq UNION Range(Bits)
    BY QueuesAssumption DEF Inputs, Range
<1> DEFINE tested == {k \in DOMAIN Spends[t] : \A i \in Collisions(set, t) : k <= i}
<1> SetByTest(set, t) = set \cup UNION {Bits[Spends[t][k]] : k \in tested}
    BY DEF SetByTest
<1>3. set \subseteq SetByTest(set, t) /\ SetByTest(set, t) \subseteq UNION Range(Bits)
    BY <1>1
<1> ASSUME Collisions(set, t) = {}, NEW o \in Inputs(t)
    PROVE  ~(Bits[o] \subseteq set) /\ Bits[o] \subseteq SetByTest(set, t)
    <2> PICK k \in DOMAIN Spends[t] : o = Spends[t][k]
        BY DEF Inputs, Range
    <2>2. k \in tested
        OBVIOUS
    <2>3. ~(Bits[o] \subseteq set \cup UNION {Bits[Spends[t][i]] : i \in 1 .. k - 1})
        BY DEF Collisions
    <2> HIDE DEF tested
    <2> QED
        BY <2>2, <2>3
<1> QED
    BY <1>3

\* One transaction is tested and enqueued.
LEMMA EnqueueOne ==
    ASSUME NEW q \in QueueType, Separate(q), NEW t \in Txs, NEW f \in BOOLEAN
    PROVE  /\ Extended(q, TestConflictEnqueueTx(q, t, f))
           /\ Everything(TestConflictEnqueueTx(q, t, f)) = Everything(q) \cup {t}
<1> DEFINE r == TestConflictEnqueueTx(q, t, f)
           free == Collisions(q.conflicts, t) = {}
<1>0. r = [in |-> IF ~(Collisions(q.conflicts, t) # {}) /\ ~f THEN Append(q.in, t) ELSE q.in,
           orphan |-> IF ~(Collisions(q.conflicts, t) # {}) /\ f
                      THEN Append(q.orphan, t) ELSE q.orphan,
           defer |-> IF Collisions(q.conflicts, t) # {} THEN Append(q.defer, t) ELSE q.defer,
           conflicts |-> SetByTest(q.conflicts, t)]
    BY DEF TestConflictEnqueueTx
<1> /\ r.in = IF free /\ ~f THEN Append(q.in, t) ELSE q.in
    /\ r.orphan = IF free /\ f THEN Append(q.orphan, t) ELSE q.orphan
    /\ r.defer = IF free THEN q.defer ELSE Append(q.defer, t)
    /\ r.conflicts = SetByTest(q.conflicts, t)
    /\ r = [in |-> r.in, orphan |-> r.orphan, defer |-> r.defer, conflicts |-> r.conflicts]
    <2> HIDE DEF r
    <2> QED
        BY <1>0
<1> /\ q.in \in Seq(Txs) /\ q.orphan \in Seq(Txs) /\ q.defer \in Seq(Txs)
    /\ q.conflicts \in SUBSET UNION Range(Bits)
    BY DEF QueueType
<1> HIDE DEF r
<1> /\ q.conflicts \subseteq r.conflicts /\ r.conflicts \subseteq UNION Range(Bits)
    /\ free => Unseen(q, t) /\ Covered(r, t)
    <2> /\ q.conflicts \subseteq SetByTest(q.conflicts, t)
        /\ SetByTest(q.conflicts, t) \subseteq UNION Range(Bits)
        /\ free => \A o \in Inputs(t) : /\ ~(Bits[o] \subseteq q.conflicts)
                                        /\ Bits[o] \subseteq SetByTest(q.conflicts, t)
        BY FilterTest
    <2> HIDE DEF free
    <2> QED
        BY DEF Unseen, Covered
<1> \A s \in Seq(Txs) : Append(s, t) \in Seq(Txs) /\ Range(Append(s, t)) = Range(s) \cup {t}
    BY RangeOfAppend, SMTT(60)
<1> HIDE DEF free
<1>5. r \in QueueType
    BY DEF QueueType
<1> /\ Range(r.in) = IF free /\ ~f THEN Range(q.in) \cup {t} ELSE Range(q.in)
    /\ Range(r.orphan) = IF free /\ f THEN Range(q.orphan) \cup {t} ELSE Range(q.orphan)
    /\ Range(r.defer) = IF free THEN Range(q.defer) ELSE Range(q.defer) \cup {t}
    OBVIOUS
<1>7. Everything(r) = Everything(q) \cup {t}
    BY DEF Everything, Ready
<1> Ready(r) = IF free THEN Ready(q) \cup {t} ELSE Ready(q)
    BY DEF Ready
<1> ASSUME NEW u \in Ready(q)
    PROVE  Covered(r, u) /\ (free => Disjoint(u, t) /\ Disjoint(t, u))
    <2> Covered(q, u)
        BY DEF Separate
    <2> QED
        BY DEF Covered, Unseen, Disjoint
<1>10. Separate(r)
    <2> \A u \in Ready(r) : Covered(r, u)
        OBVIOUS
    <2>2. \A u \in Range(r.in), v \in Range(r.orphan) : Disjoint(u, v)
        BY SMTT(60) DEF Separate, Ready
    <2> ASSUME NEW s \in Seq(Txs), \A u \in Range(s) : Disjoint(u, t) /\ Disjoint(t, u),
               \A i, j \in DOMAIN s : i # j => Disjoint(s[i], s[j]),
               NEW i \in DOMAIN Append(s, t), NEW j \in DOMAIN Append(s, t), i # j
        PROVE  Disjoint(Append(s, t)[i], Append(s, t)[j])
        <3> DOMAIN Append(s, t) = 1 .. Len(s) + 1 /\ Len(s) \in Nat /\ DOMAIN s = 1 .. Len(s)
            BY SMTT(60)
        <3> CASE i \in DOMAIN s /\ j \in DOMAIN s
            BY SMTT(60)
        <3> CASE i \in DOMAIN s /\ j = Len(s) + 1
            BY SMTT(60) DEF Range
        <3> CASE i = Len(s) + 1 /\ j \in DOMAIN s
            BY SMTT(60) DEF Range
        <3> QED
            BY SMTT(60)
    <2>4. \A i, j \in DOMAIN r.in : i # j => Disjoint(r.in[i], r.in[j])
        <3> CASE r.in = q.in
            BY DEF Separate
        <3> CASE r.in = Append(q.in, t) /\ free
            BY DEF Separate, Ready
        <3> QED
            OBVIOUS
    <2>5. \A i, j \in DOMAIN r.orphan : i # j => Disjoint(r.orphan[i], r.orphan[j])
        <3> CASE r.orphan = q.orphan
            BY DEF Separate
        <3> CASE r.orphan = Append(q.orphan, t) /\ free
            BY DEF Separate, Ready
        <3> QED
            OBVIOUS
    <2> QED
        BY <2>2, <2>4, <2>5 DEF Separate
<1>11. \A u \in Ready(r) : u \in Ready(q) \/ Unseen(q, u)
    OBVIOUS
<1>12. Extended(q, r)
    BY <1>5, <1>10, <1>11 DEF Extended
<1> QED
    BY <1>7, <1>12 DEF r

\* Enqueueing goes on from where it was.
LEMMA ExtendedTrans ==
    ASSUME NEW q, NEW r, NEW s, Extended(q, r), Extended(r, s)
    PROVE  Extended(q, s)
    BY DEF Extended, Unseen

\* Enqueueing nothing.
LEMMA ExtendedRefl ==
    ASSUME NEW q \in QueueType, Separate(q)
    PROVE  Extended(q, q)
    BY DEF Extended

\* The loops of _CommitTxToMempool and ResubmitTransactions.
Tested(q, t) == TestConflictEnqueueTx(q, t, FALSE)

\* f[i] is q after the first i transactions of s.
Turns(f, q, s) ==
    f[0] = q /\ \A i \in 1 .. Len(s) : f[i] = Tested(f[i - 1], s[i])

\* The recursion of EnqueueAll is well-founded: there is a function that does
\* what it says.
LEMMA EnqueueAllRec ==
    ASSUME NatStepwise, NEW q, NEW s, Len(s) \in Nat
    PROVE  \E f : Turns(f, q, s) /\ EnqueueAll(q, s) = f[Len(s)]
<1> DEFINE Step(f, n) == [i \in 0 .. n |-> IF i = 0 THEN q
                                 ELSE Tested(f[i - 1], s[i])]
           T == {n \in Nat : \E f : f = Step(f, n)}
<1>1. 0 \in T
    <2> DEFINE f == [i \in 0 .. 0 |-> q]
    <2>1. f = Step(f, 0)
        BY SMTT(60)
    <2> QED
        BY <2>1
<1>2. ASSUME NEW n \in Nat, n \in T
      PROVE  n + 1 \in T
    <2>1. PICK f : f = Step(f, n)
        BY <1>2
    <2> DEFINE g == [i \in 0 .. n + 1 |-> IF i = n + 1
                        THEN Tested(f[n], s[n + 1]) ELSE f[i]]
    <2>2. ASSUME NEW i \in 0 .. n + 1
          PROVE  g[i] = IF i = 0 THEN q ELSE Tested(g[i - 1], s[i])
        <3>1. CASE i = n + 1
            <4>1. g[n] = f[n] /\ i - 1 = n /\ g[i] = Tested(f[n], s[n + 1])
                BY <3>1, SMTT(60)
            <4> QED
                BY <3>1, <4>1, SMTT(60)
        <3>2. CASE i # n + 1
            <4>1. i \in 0 .. n /\ g[i] = f[i]
                BY <3>2, SMTT(60)
            <4>2. i # 0 => g[i - 1] = f[i - 1]
                BY <4>1, SMTT(60)
            <4>3. f[i] = IF i = 0 THEN q ELSE Tested(f[i - 1], s[i])
                BY <2>1, <4>1
            <4> HIDE DEF g
            <4> QED
                BY <4>1, <4>2, <4>3
        <3> QED
            BY <3>1, <3>2
    <2>3. DOMAIN g = 0 .. n + 1 /\ g = [i \in DOMAIN g |-> g[i]]
        OBVIOUS
    <2> HIDE DEF g
    <2>4. g = Step(g, n + 1)
        BY <2>2, <2>3
    <2> QED
        BY <2>4, SMTT(60)
<1>3. Nat \subseteq T
    <2> HIDE DEF T
    <2> QED
        BY <1>1, <1>2 DEF NatStepwise
<1>4. \E f : f = Step(f, Len(s))
    BY <1>3
<1> DEFINE f == CHOOSE f : f = Step(f, Len(s))
<1>5. f = Step(f, Len(s))
    BY <1>4
<1>6. EnqueueAll(q, s) = f[Len(s)]
    BY DEF EnqueueAll, Tested
<1> HIDE DEF f
<1> WITNESS f
<1>7. f[0] = q
    BY <1>5, SMTT(60)
<1>8. \A i \in 1 .. Len(s) : f[i] = Tested(f[i - 1], s[i])
    BY <1>5, SMTT(60)
<1> QED
    BY <1>6, <1>7, <1>8 DEF Turns

\* Many transactions are tested and enqueued.
LEMMA EnqueueMany ==
    ASSUME NatStepwise, NEW q \in QueueType, Separate(q), NEW s \in Seq(Txs)
    PROVE  /\ Extended(q, EnqueueAll(q, s))
           /\ Everything(EnqueueAll(q, s)) = Everything(q) \cup Range(s)
<1>0. Len(s) \in Nat /\ DOMAIN s = 1 .. Len(s) /\ \A i \in 1 .. Len(s) : s[i] \in Txs
    BY SMTT(60)
<1>a. PICK f : Turns(f, q, s) /\ EnqueueAll(q, s) = f[Len(s)]
    BY <1>0, EnqueueAllRec
<1>1. /\ EnqueueAll(q, s) = f[Len(s)] /\ f[0] = q
      /\ \A i \in 1 .. Len(s) : f[i] = Tested(f[i - 1], s[i])
    BY <1>a DEF Turns
<1> DEFINE Upto(n) == {s[i] : i \in 1 .. n}
           T == {n \in Nat : n <= Len(s) =>
                    Extended(q, f[n]) /\ Everything(f[n]) = Everything(q) \cup Upto(n)}
<1>2. 0 \in T
    BY <1>1, ExtendedRefl, SMTT(60)
<1>3. ASSUME NEW n \in Nat, n \in T
      PROVE  n + 1 \in T
    <2> SUFFICES ASSUME n + 1 <= Len(s)
                 PROVE  /\ Extended(q, f[n + 1])
                        /\ Everything(f[n + 1]) = Everything(q) \cup Upto(n + 1)
        BY SMTT(60)
    <2>1. n + 1 \in 1 .. Len(s) /\ n + 1 - 1 = n /\ n <= Len(s)
        BY <1>0, SMTT(60)
    <2>2. f[n + 1] = Tested(f[n], s[n + 1]) /\ s[n + 1] \in Txs
        BY <1>0, <1>1, <2>1, SMTT(60)
    <2>3. Extended(q, f[n]) /\ Everything(f[n]) = Everything(q) \cup Upto(n)
        BY <1>3, <2>1
    <2>4. f[n] \in QueueType /\ Separate(f[n])
        BY <2>3 DEF Extended
    <2>5. Extended(f[n], f[n + 1]) /\ Everything(f[n + 1]) = Everything(f[n]) \cup {s[n + 1]}
        BY <2>2, <2>4, EnqueueOne DEF Tested
    <2>6. Upto(n + 1) = Upto(n) \cup {s[n + 1]}
        BY SMTT(60)
    <2> HIDE DEF Upto
    <2> QED
        BY <2>3, <2>5, <2>6, ExtendedTrans
<1>4. Nat \subseteq T
    <2> HIDE DEF T
    <2> QED
        BY <1>2, <1>3 DEF NatStepwise
<1>5. Extended(q, f[Len(s)]) /\ Everything(f[Len(s)]) = Everything(q) \cup Upto(Len(s))
    BY <1>0, <1>4, SMTT(60)
<1>6. Upto(Len(s)) = Range(s)
    BY <1>0 DEF Range
<1> HIDE DEF Upto
<1> QED
    BY <1>1, <1>5, <1>6

\* EnqueueAll does what it should, given induction.
LEMMA EnqueueAllWorks == NatStepwise => EnqueueAllOK
  BY EnqueueMany DEF EnqueueAllOK

\* Nothing is queued at first.
LEMMA EmptyIsGood == EmptyQueues \in QueueType /\ Separate(EmptyQueues)
      /\ Everything(EmptyQueues) = {}
<1> Range(<<>>) = {} /\ <<>> \in Seq(Txs)
    BY SMTT(60) DEF Range
<1>2. /\ EmptyQueues.in = <<>> /\ EmptyQueues.orphan = <<>> /\ EmptyQueues.defer = <<>>
      /\ EmptyQueues \in QueueType
    BY DEF EmptyQueues, QueueType
<1>3. DOMAIN <<>> = {}
    BY SMTT(60)
<1> QED
    BY <1>2, <1>3 DEF Separate, Ready, Everything

\* The first deferred transaction starts the new round.
LEMMA FirstIsGood ==
    ASSUME NEW d \in Seq(Txs)
    PROVE  /\ RequeueFirst(d) \in QueueType /\ Separate(RequeueFirst(d))
           /\ Everything(RequeueFirst(d)) = IF d = <<>> THEN {} ELSE {Head(d)}
<1> CASE d = <<>>
    BY EmptyIsGood DEF RequeueFirst
<1> CASE d # <<>>
    <2> DEFINE t == Head(d)
               set == UNION {Bits[o] : o \in Inputs(t) \cup Reads[t]}
               r == RequeueFirst(d)
    <2> t \in Txs
        BY SMTT(60)
    <2>a. r = [EmptyQueues EXCEPT !.in = <<t>>, !.conflicts = set]
        BY DEF RequeueFirst
    <2>b. EmptyQueues = [in |-> <<>>, orphan |-> <<>>, defer |-> <<>>, conflicts |-> {}]
        BY DEF EmptyQueues
    <2> /\ r.in = <<t>> /\ r.orphan = <<>> /\ r.defer = <<>> /\ r.conflicts = set
        /\ r = [in |-> <<t>>, orphan |-> <<>>, defer |-> <<>>, conflicts |-> set]
        <3> HIDE DEF r, t, set
        <3> QED
            BY <2>a, <2>b
    <2>2. set \subseteq UNION Range(Bits)
        BY QueuesAssumption DEF Inputs, Range
    <2> Range(<<>>) = {} /\ Range(<<t>>) = {t} /\ <<>> \in Seq(Txs) /\ <<t>> \in Seq(Txs)
        BY SMTT(60) DEF Range
    <2>4. \A o \in Inputs(t) : Bits[o] \subseteq set
        OBVIOUS
    <2>5. DOMAIN <<t>> = {1} /\ DOMAIN <<>> = {}
        BY SMTT(60)
    <2> HIDE DEF r, set, t
    <2>6. r \in QueueType
        BY <2>2 DEF QueueType
    <2>7. Separate(r)
        BY <2>4, <2>5, SMTT(60) DEF Separate, Ready, Covered
    <2>8. Everything(r) = {t}
        BY DEF Everything, Ready
    <2> QED
        BY <2>6, <2>7, <2>8 DEF r, t
<1> QED
    OBVIOUS

\* The second half of _CommitTxToMempool makes a round of what is queued and
\* loses nothing.
LEMMA RequeueIsGood ==
    ASSUME EnqueueAllOK, NEW q \in QueueType
    PROVE  /\ Requeue(q) \in QueueType /\ Separate(Requeue(q))
           /\ Everything(Requeue(q)) = Everything(q)
<1> DEFINE d == IF q.defer = <<>> THEN <<>> ELSE Tail(q.defer)
           rest == d \o q.orphan \o q.in
           n == IF Len(rest) < MaxMove THEN Len(rest) ELSE MaxMove
           head == SubSeq(rest, 1, n)
           tail == SubSeq(rest, n + 1, Len(rest))
           moved == EnqueueAll(RequeueFirst(q.defer), head)
           r == Requeue(q)
<1>1. q.in \in Seq(Txs) /\ q.orphan \in Seq(Txs) /\ q.defer \in Seq(Txs)
    BY DEF QueueType
<1>2. d \in Seq(Txs) /\ Range(q.defer) = Range(d)
        \cup (IF q.defer = <<>> THEN {} ELSE {Head(q.defer)})
    <2>1. CASE q.defer = <<>>
        BY <2>1, SMTT(60) DEF Range
    <2>2. CASE q.defer # <<>>
        <3>1. d = Tail(q.defer) /\ d \in Seq(Txs) /\ Len(d) = Len(q.defer) - 1
              /\ \A i \in 1 .. Len(d) : d[i] = q.defer[i + 1]
            BY <1>1, <2>2, SMTT(60)
        <3>2. DOMAIN d = 1 .. Len(d) /\ DOMAIN q.defer = 1 .. Len(q.defer)
              /\ Len(q.defer) \in Nat /\ Len(q.defer) >= 1 /\ Head(q.defer) = q.defer[1]
            BY <1>1, <2>2, <3>1, SMTT(60)
        <3> HIDE DEF d
        <3>3. Range(d) \subseteq Range(q.defer)
            BY <3>1, <3>2, SMTT(60) DEF Range
        <3>4. ASSUME NEW i \in DOMAIN q.defer, i # 1
              PROVE  q.defer[i] \in Range(d)
            <4>1. i - 1 \in DOMAIN d /\ d[i - 1] = q.defer[i]
                BY <3>1, <3>2, <3>4, SMTT(60)
            <4> QED
                BY <4>1 DEF Range
        <3>5. Range(q.defer) \subseteq Range(d) \cup {Head(q.defer)}
            BY <3>2, <3>4 DEF Range
        <3>6. Head(q.defer) \in Range(q.defer)
            BY <3>2, SMTT(60) DEF Range
        <3> QED
            BY <2>2, <3>1, <3>3, <3>5, <3>6
    <2> QED
        BY <2>1, <2>2
<1> HIDE DEF d
<1>3. rest \in Seq(Txs) /\ Range(rest) = Range(d) \cup Range(q.orphan) \cup Range(q.in)
    <2>1. d \o q.orphan \in Seq(Txs) /\ Range(d \o q.orphan) = Range(d) \cup Range(q.orphan)
        BY <1>1, <1>2, RangeOfConcat, SMTT(60)
    <2> DEFINE e == d \o q.orphan
    <2> HIDE DEF e
    <2>2. e \o q.in \in Seq(Txs) /\ Range(e \o q.in) = Range(e) \cup Range(q.in)
        <3>1. e \in Seq(Txs)
            BY <2>1 DEF e
        <3> QED
            BY <1>1, <3>1, RangeOfConcat, SMTT(60)
    <2>3. rest = e \o q.in /\ Range(e) = Range(d) \cup Range(q.orphan)
        BY <2>1 DEF e
    <2> HIDE DEF rest
    <2> QED
        BY <2>2, <2>3
<1> HIDE DEF rest
<1>4. n \in Nat /\ n <= Len(rest) /\ Len(rest) \in Nat
    BY <1>3, QueuesAssumption, SMTT(60)
<1> HIDE DEF n
<1>5. head \in Seq(Txs) /\ tail \in Seq(Txs) /\ Range(rest) = Range(head) \cup Range(tail)
    <2>1. /\ head \in Seq(Txs) /\ Len(head) = n /\ \A i \in 1 .. n : head[i] = rest[i]
        BY <1>3, <1>4, SMTT(60)
    <2>2. /\ tail \in Seq(Txs) /\ Len(tail) = Len(rest) - n
          /\ \A i \in 1 .. Len(rest) - n : tail[i] = rest[n + i]
        BY <1>3, <1>4, SMTT(60)
    <2>3. /\ DOMAIN rest = 1 .. Len(rest) /\ DOMAIN head = 1 .. n
          /\ DOMAIN tail = 1 .. Len(rest) - n
        BY <1>3, <2>1, <2>2, SMTT(60)
    <2> HIDE DEF head, tail
    <2>4. Range(head) \subseteq Range(rest)
        BY <1>4, <2>1, <2>3, SMTT(60) DEF Range
    <2>5. Range(tail) \subseteq Range(rest)
        <3>1. \A i \in 1 .. Len(rest) - n : n + i \in DOMAIN rest
            BY <1>4, <2>3, SMTT(60)
        <3> QED
            BY <2>2, <2>3, <3>1 DEF Range
    <2>6. ASSUME NEW i \in DOMAIN rest
          PROVE  rest[i] \in Range(head) \cup Range(tail)
        <3>1. CASE i <= n
            BY <1>4, <2>1, <2>3, <3>1, SMTT(60) DEF Range
        <3>2. CASE ~(i <= n)
            <4>1. i - n \in DOMAIN tail /\ tail[i - n] = rest[i]
                BY <1>4, <2>2, <2>3, <3>2, SMTT(60)
            <4> QED
                BY <4>1 DEF Range
        <3> QED
            BY <3>1, <3>2
    <2> QED
        BY <2>1, <2>2, <2>4, <2>5, <2>6 DEF Range
<1> HIDE DEF head, tail
<1>6. /\ moved \in QueueType /\ Separate(moved)
      /\ Everything(moved) = Everything(RequeueFirst(q.defer)) \cup Range(head)
    BY <1>1, <1>5, FirstIsGood DEF Extended, EnqueueAllOK
<1>7. r = [moved EXCEPT !.defer = @ \o tail]
    BY DEF Requeue, head, tail, n, rest, d
<1> HIDE DEF moved, r
<1>8. /\ r.in = moved.in /\ r.orphan = moved.orphan /\ r.conflicts = moved.conflicts
      /\ r.defer = moved.defer \o tail /\ r \in QueueType
    <2>1. /\ moved.in \in Seq(Txs) /\ moved.orphan \in Seq(Txs) /\ moved.defer \in Seq(Txs)
          /\ moved.conflicts \in SUBSET UNION Range(Bits)
          /\ moved = [in |-> moved.in, orphan |-> moved.orphan, defer |-> moved.defer,
                      conflicts |-> moved.conflicts]
        BY <1>6 DEF QueueType
    <2>2. moved.defer \o tail \in Seq(Txs)
        BY <1>5, <2>1, SMTT(60)
    <2>3. r = [in |-> moved.in, orphan |-> moved.orphan, defer |-> moved.defer \o tail,
               conflicts |-> moved.conflicts]
        BY <1>7, <2>1
    <2> QED
        BY <2>1, <2>2, <2>3 DEF QueueType
<1>9. Range(r.defer) = Range(moved.defer) \cup Range(tail)
    <2>1. moved.defer \in Seq(Txs)
        BY <1>6 DEF QueueType
    <2> QED
        BY <1>5, <1>8, <2>1, RangeOfConcat, SMTT(60)
<1>10. Separate(r)
    BY <1>6, <1>8 DEF Separate, Ready, Covered
<1>11. Everything(r) = Everything(moved) \cup Range(tail)
    BY <1>8, <1>9 DEF Everything, Ready
<1>12. Everything(RequeueFirst(q.defer)) = IF q.defer = <<>> THEN {} ELSE {Head(q.defer)}
    BY <1>1, FirstIsGood
<1>13. Everything(r) = Everything(q)
    BY <1>2, <1>3, <1>5, <1>6, <1>11, <1>12 DEF Everything, Ready
<1> QED
    BY <1>8, <1>10, <1>13 DEF r

\* A queue that is shorter by its head.
Pops(q, r, c) ==
    /\ c \in {"in", "orphan"}
    /\ r.conflicts = q.conflicts /\ r.defer = q.defer
    /\ c = "in" => q.in # <<>> /\ r.in = Tail(q.in) /\ r.orphan = q.orphan
    /\ c = "orphan" => q.orphan # <<>> /\ r.orphan = Tail(q.orphan) /\ r.in = q.in

\* What it leaves, and what x is.
Popped(q, r, x) ==
    /\ Extended(q, r) /\ x \in Ready(q) /\ x \in Txs
    /\ \A u \in Ready(r) : Disjoint(x, u)
    /\ Ready(r) \subseteq Ready(q)
    /\ Everything(q) = Everything(r) \cup {x}

\* What is popped spends nothing that is left.
LEMMA PopIsGood ==
    ASSUME NEW q \in QueueType, Separate(q), NEW r \in QueueType, NEW c, Pops(q, r, c), NEW x,
           x = IF c = "in" THEN Head(q.in) ELSE Head(q.orphan)
    PROVE  Popped(q, r, x)
<1> q.in \in Seq(Txs) /\ q.orphan \in Seq(Txs)
  BY DEF QueueType
<1> CASE c = "in"
  <2> q.in # <<>> /\ r.in = Tail(q.in) /\ r.orphan = q.orphan /\ x = Head(q.in)
    BY DEF Pops
  <2> /\ Head(q.in) = q.in[1] /\ 1 \in DOMAIN q.in /\ Head(q.in) \in Range(q.in)
      /\ \A i \in DOMAIN Tail(q.in) :
            i + 1 \in DOMAIN q.in /\ i + 1 # 1 /\ Tail(q.in)[i] = q.in[i + 1]
      /\ Range(q.in) = Range(Tail(q.in)) \cup {Head(q.in)}
    BY TailFacts
  <2> \A u \in Range(r.in) : Disjoint(x, u)
    BY SMTT(60) DEF Separate, Range
  <2> \A u \in Range(r.orphan) : Disjoint(x, u)
    BY DEF Separate
  <2> \A i, j \in DOMAIN r.in : i # j => Disjoint(r.in[i], r.in[j])
    <3> TAKE i, j \in DOMAIN r.in
    <3> HAVE i # j
    <3> i + 1 \in DOMAIN q.in /\ j + 1 \in DOMAIN q.in
        /\ r.in[i] = q.in[i + 1] /\ r.in[j] = q.in[j + 1]
      OBVIOUS
    <3> DOMAIN r.in \subseteq Nat
      BY SMTT(60) DEF QueueType
    <3> i + 1 # j + 1
      BY SMTT(60)
    <3> QED BY DEF Separate
  <2> Separate(r)
    <3> /\ \A t \in Ready(r) : Covered(r, t)
        /\ \A t \in Range(r.in), u \in Range(r.orphan) : Disjoint(t, u)
      BY DEF Separate, Ready, Covered, Pops
    <3> QED BY DEF Separate
  <2> QED
    <3> Ready(r) \subseteq Ready(q) /\ x \in Ready(q)
      BY DEF Ready
    <3> Extended(q, r)
      BY DEF Extended, Pops
    <3> Everything(q) = Everything(r) \cup {x}
      BY DEF Ready, Everything, Pops
    <3> x \in Txs
      BY SMTT(60)
    <3> QED BY DEF Ready, Popped
<1> CASE c = "orphan"
  <2> q.orphan # <<>> /\ r.orphan = Tail(q.orphan) /\ r.in = q.in /\ x = Head(q.orphan)
    BY DEF Pops
  <2> /\ Head(q.orphan) = q.orphan[1] /\ 1 \in DOMAIN q.orphan
      /\ Head(q.orphan) \in Range(q.orphan)
      /\ \A i \in DOMAIN Tail(q.orphan) :
            /\ i + 1 \in DOMAIN q.orphan /\ i + 1 # 1
            /\ Tail(q.orphan)[i] = q.orphan[i + 1]
      /\ Range(q.orphan) = Range(Tail(q.orphan)) \cup {Head(q.orphan)}
    BY TailFacts
  <2> \A u \in Range(r.orphan) : Disjoint(x, u)
    BY SMTT(60) DEF Separate, Range
  <2> \A u \in Range(r.in) : Disjoint(x, u)
    BY DEF Separate, Disjoint
  <2> \A i, j \in DOMAIN r.orphan : i # j => Disjoint(r.orphan[i], r.orphan[j])
    <3> TAKE i, j \in DOMAIN r.orphan
    <3> HAVE i # j
    <3> i + 1 \in DOMAIN q.orphan /\ j + 1 \in DOMAIN q.orphan
        /\ r.orphan[i] = q.orphan[i + 1] /\ r.orphan[j] = q.orphan[j + 1]
      OBVIOUS
    <3> DOMAIN r.orphan \subseteq Nat
      BY SMTT(60) DEF QueueType
    <3> i + 1 # j + 1
      BY SMTT(60)
    <3> QED BY DEF Separate
  <2> Separate(r)
    <3> /\ \A t \in Ready(r) : Covered(r, t)
        /\ \A t \in Range(r.in), u \in Range(r.orphan) : Disjoint(t, u)
      BY DEF Separate, Ready, Covered, Pops
    <3> QED BY DEF Separate
  <2> QED
    <3> Ready(r) \subseteq Ready(q) /\ x \in Ready(q)
      BY DEF Ready
    <3> Extended(q, r)
      BY DEF Extended, Pops
    <3> Everything(q) = Everything(r) \cup {x}
      BY DEF Ready, Everything, Pops
    <3> x \in Txs
      BY SMTT(60)
    <3> QED BY DEF Ready, Popped
<1> QED BY DEF Pops

-----------------------------------------------------------------------------
(* Threads                                                                 *)

\* Where a thread may be and what it may have in its local variables.
Labels == {"idle", "take", "apply", "swap", "requeue", "leave", "blocks", "batches",
           "collect", "erase", "enqueue", "limit", "pause", "flush", "remove", "rewind",
           "resubmit", "accept", "insert", "accepted", "addorphan", "again", "check", "decide"}

\* What a thread may have in its local variables.
Locals == [tx : Txs \cup {NoTx},
           verdict : {"", "invalid", "nonfinal", "known", "conflict", "missing", "accept"},
           code : {"none", "public", "internal"}, last : BOOLEAN, round : Nat,
           batch : SUBSET Txs, finals : SUBSET Txs, children : SUBSET Txs,
           then : Labels, empty : BOOLEAN]

\* The types of all variables but the queues.
Types ==
    /\ commitQ \subseteq Txs /\ mempool \subseteq Txs
    /\ env \in Scenarios /\ chain \in Seq(env.blocks)
    /\ mapOrphans \subseteq Txs /\ mapNonFinals \subseteq Txs
    /\ recentRejects \subseteq Txs /\ txRecentlyInBlock \subseteq Txs /\ known \subseteq Txs
    /\ vProcessOrphans \in Seq(SUBSET Txs) /\ vPostBlock \in Seq(SUBSET Txs)
    /\ csAccept \in Rpcs \cup {NoThread}
    /\ pc \in [Threads -> Labels]
    /\ loc \in [Threads -> Locals]
    /\ holds \in [Threads -> Regions \cup {0}] /\ depth \in [Threads -> Nat]

\* Where a thread is, what it has to do next and its place in the corral.
WorkerOK(w) ==
    /\ loc[w].batch = {}
    /\ \/ pc[w] = "idle" /\ depth[w] = 0
       \/ pc[w] = "take" /\ depth[w] = 1 /\ holds[w] = PROCESSING
       \/ pc[w] = "apply" /\ depth[w] = 1 /\ holds[w] = PROCESSING
          /\ loc[w].tx \in Txs /\ loc[w].verdict # ""

\* ThreadCommitToMempool: the commit happens in region COMMITMENT, the
\* processing of the orphans outside of the corral.
CommitterOK(t) ==
    /\ pc[t] # "collect" => loc[t].batch = {}
    /\ \/ pc[t] \in {"idle", "limit", "blocks", "batches"} /\ depth[t] = 0
       \/ pc[t] \in {"collect", "erase", "enqueue"} /\ loc[t].then \in {"blocks", "batches"}
          /\ depth[t] = 0
       \/ pc[t] \in {"swap", "requeue"} /\ loc[t].then = "leave" /\ depth[t] = 1
          /\ holds[t] = COMMITMENT
       \/ pc[t] = "leave" /\ depth[t] = 1 /\ holds[t] = COMMITMENT

\* v has found a block to connect.
Connecting(v) ==
    \/ pc[v] \in {"pause", "swap", "requeue"} /\ loc[v].then = "flush"
    \/ pc[v] = "flush"

\* ActivateBestChain: from the pause on everything happens in region PAUSE.
ValidatorOK(v) ==
    /\ Connecting(v) \/ pc[v] = "remove" => loc[v].batch \in env.blocks
    /\ ~Connecting(v) /\ pc[v] \notin {"remove", "resubmit"} => loc[v].batch = {}
    /\ \/ pc[v] = "idle" /\ depth[v] = 0
       \/ pc[v] = "pause" /\ loc[v].then \in {"flush", "rewind"} /\ depth[v] = 0
       \/ pc[v] \in {"swap", "requeue"} /\ loc[v].then \in {"flush", "rewind"}
          /\ depth[v] = 1 /\ holds[v] = PAUSE
       \/ pc[v] \in {"flush", "remove", "rewind", "resubmit"} /\ depth[v] = 1
          /\ holds[v] = PAUSE

\* sendrawtransaction and FlushTxAdmission: in region PAUSE, which the commit in
\* the loop of FlushTxAdmission enters a second time.
RpcOK(r) ==
    /\ pc[r] # "collect" => loc[r].batch = {}
    /\ pc[r] = "addorphan" => env.alloworphans
    /\ \/ pc[r] \in {"idle", "limit", "again"} /\ depth[r] = 0
       \/ pc[r] = "addorphan" /\ depth[r] = 0 /\ loc[r].tx \in Txs
       \/ pc[r] = "pause" /\ loc[r].then = "accept" /\ depth[r] = 0 /\ loc[r].tx \in Txs
       \/ pc[r] \in {"swap", "requeue"} /\ loc[r].then \in {"accept", "accepted"}
          /\ depth[r] = 1 /\ holds[r] = PAUSE /\ loc[r].tx \in Txs
       \/ pc[r] \in {"accept", "insert"} /\ depth[r] = 1 /\ holds[r] = PAUSE /\ loc[r].tx \in Txs
       \/ pc[r] \in {"accepted", "check", "blocks", "batches", "decide"}
          /\ depth[r] = 1 /\ holds[r] = PAUSE
       \/ pc[r] \in {"collect", "erase", "enqueue"} /\ loc[r].then \in {"blocks", "batches"}
          /\ depth[r] = 1 /\ holds[r] = PAUSE
       \/ pc[r] \in {"swap", "requeue"} /\ loc[r].then = "leave" /\ depth[r] = 2
          /\ holds[r] = PAUSE
       \/ pc[r] = "leave" /\ depth[r] = 2 /\ holds[r] = PAUSE

\* A thread of each kind is where its code can be.
ThreadOK(t) ==
    /\ t \in Workers => WorkerOK(t)
    /\ t \in Committers => CommitterOK(t)
    /\ t \in Validators => ValidatorOK(t)
    /\ t \in Rpcs => RpcOK(t)

\* The corral lets in threads of one region at a time.
OneRegion == \A t, u \in Threads : depth[t] > 0 /\ depth[u] > 0 => holds[t] = holds[u]

\* What happens to the local variables of t, and that the others keep theirs.
LocTo(t, tx, verdict, batch, finals, children, then) ==
    /\ loc' \in [Threads -> Locals]
    /\ \A u \in Threads \ {t} : loc'[u] = loc[u]
    /\ loc'[t].tx = tx /\ loc'[t].verdict = verdict /\ loc'[t].batch = batch
    /\ loc'[t].finals = finals /\ loc'[t].children = children /\ loc'[t].then = then

\* t goes on at label.
PcTo(t, label) ==
    /\ pc' \in [Threads -> Labels] /\ pc'[t] = label
    /\ \A u \in Threads \ {t} : pc'[u] = pc[u]

-----------------------------------------------------------------------------
(* What assignments and the operations of the corral amount to             *)

\* What Goto and the forms of assignment to loc that the actions use amount to.
LEMMA GotoFacts ==
    ASSUME Types, NEW t \in Threads, NEW label \in Labels, Goto(t, label)
    PROVE  PcTo(t, label)
  BY DEF Types, Goto, PcTo

\* Assignment of a whole record.
LEMMA LocFacts ==
    ASSUME Types, NEW t \in Threads, NEW l \in Locals, loc' = [loc EXCEPT ![t] = l]
    PROVE  LocTo(t, l.tx, l.verdict, l.batch, l.finals, l.children, l.then)
<1>1. loc' \in [Threads -> Locals] /\ loc'[t] = l /\ \A u \in Threads \ {t} : loc'[u] = loc[u]
  BY DEF Types
<1> QED BY <1>1 DEF LocTo

\* No assignment.
LEMMA LocSame ==
    ASSUME Types, NEW t \in Threads, loc' = loc
    PROVE  LocTo(t, loc[t].tx, loc[t].verdict, loc[t].batch, loc[t].finals, loc[t].children,
                 loc[t].then)
  BY DEF Types, LocTo

\* The thread is done.
LEMMA LocIdle ==
    ASSUME Types, NEW t \in Threads, loc' = [loc EXCEPT ![t] = Idle]
    PROVE  LocTo(t, NoTx, "", {}, {}, {}, "idle")
<1> /\ Idle \in Locals
    /\ Idle.tx = NoTx /\ Idle.verdict = "" /\ Idle.batch = {}
    /\ Idle.finals = {} /\ Idle.children = {} /\ Idle.then = "idle"
  BY DEF Idle, Locals, Labels
<1>2. LocTo(t, Idle.tx, Idle.verdict, Idle.batch, Idle.finals, Idle.children, Idle.then)
  BY LocFacts
<1> QED BY <1>2

\* The thread notes where it goes on after a commit or a batch.
LEMMA LocThen ==
    ASSUME Types, NEW t \in Threads, NEW label \in Labels,
           loc' = [loc EXCEPT ![t].then = label]
    PROVE  LocTo(t, loc[t].tx, loc[t].verdict, loc[t].batch, loc[t].finals, loc[t].children, label)
<1> DEFINE l == [loc[t] EXCEPT !.then = label]
<1> loc[t] \in Locals
  BY DEF Types
<1>2. l \in Locals /\ loc' = [loc EXCEPT ![t] = l]
  BY DEF Locals
<1>3. /\ l.tx = loc[t].tx /\ l.verdict = loc[t].verdict /\ l.batch = loc[t].batch
      /\ l.finals = loc[t].finals /\ l.children = loc[t].children /\ l.then = label
  BY DEF Locals
<1> HIDE DEF l
<1>4. LocTo(t, l.tx, l.verdict, l.batch, l.finals, l.children, l.then)
  BY <1>2, LocFacts
<1> QED BY <1>3, <1>4

\* The worker is ready for its next transaction.
LEMMA LocNextTx ==
    ASSUME Types, NEW t \in Threads, NEW last \in BOOLEAN,
           loc' = [loc EXCEPT ![t].round = @ + 1, ![t].last = last, ![t].tx = NoTx,
             ![t].verdict = ""]
    PROVE  LocTo(t, NoTx, "", loc[t].batch, loc[t].finals, loc[t].children, loc[t].then)
<1> DEFINE l == [loc[t] EXCEPT !.round = loc[t].round + 1, !.last = last, !.tx = NoTx,
                  !.verdict = ""]
<1> loc[t] \in Locals
  BY DEF Types
<1>e. loc[t].round + 1 \in Nat
  <2>1. loc[t].round \in Nat
    BY DEF Locals
  <2> QED BY <2>1, NatSucc
<1>2. l \in Locals /\ loc' = [loc EXCEPT ![t] = l]
  BY <1>e DEF Locals
<1>3. /\ l.tx = NoTx /\ l.verdict = "" /\ l.batch = loc[t].batch
      /\ l.finals = loc[t].finals /\ l.children = loc[t].children /\ l.then = loc[t].then
  BY DEF Locals
<1> HIDE DEF l
<1>4. LocTo(t, l.tx, l.verdict, l.batch, l.finals, l.children, l.then)
  BY <1>2, LocFacts
<1> QED BY <1>3, <1>4

\* The worker has validated a transaction.
LEMMA LocVerdict ==
    ASSUME Types, NEW t \in Threads, NEW x \in Txs, NEW last \in BOOLEAN,
           NEW v \in {"invalid", "nonfinal", "known", "conflict", "missing", "accept"},
           loc' = [loc EXCEPT ![t].tx = x, ![t].verdict = v, ![t].last = last,
             ![t].code = CodeAfter(@, v)]
    PROVE  LocTo(t, x, v, loc[t].batch, loc[t].finals, loc[t].children, loc[t].then)
<1> DEFINE l == [loc[t] EXCEPT !.tx = x, !.verdict = v, !.last = last,
                  !.code = CodeAfter(loc[t].code, v)]
<1> loc[t] \in Locals
  BY DEF Types
<1>e. CodeAfter(loc[t].code, v) \in {"none", "public", "internal"}
  BY DEF Locals, CodeAfter
<1>2. l \in Locals /\ loc' = [loc EXCEPT ![t] = l]
  BY <1>e DEF Locals
<1>3. /\ l.tx = x /\ l.verdict = v /\ l.batch = loc[t].batch
      /\ l.finals = loc[t].finals /\ l.children = loc[t].children /\ l.then = loc[t].then
  BY DEF Locals
<1> HIDE DEF l
<1>4. LocTo(t, l.tx, l.verdict, l.batch, l.finals, l.children, l.then)
  BY <1>2, LocFacts
<1> QED BY <1>3, <1>4

\* The thread has a block, or a batch of committed transactions, to process.
LEMMA LocBatch ==
    ASSUME Types, NEW t \in Threads, NEW b \in SUBSET Txs, NEW label \in Labels,
           loc' = [loc EXCEPT ![t].batch = b, ![t].then = label]
    PROVE  LocTo(t, loc[t].tx, loc[t].verdict, b, loc[t].finals, loc[t].children, label)
<1> DEFINE l == [loc[t] EXCEPT !.batch = b, !.then = label]
<1> loc[t] \in Locals
  BY DEF Types
<1>2. l \in Locals /\ loc' = [loc EXCEPT ![t] = l]
  BY DEF Locals
<1>3. /\ l.tx = loc[t].tx /\ l.verdict = loc[t].verdict /\ l.batch = b
      /\ l.finals = loc[t].finals /\ l.children = loc[t].children /\ l.then = label
  BY DEF Locals
<1> HIDE DEF l
<1>4. LocTo(t, l.tx, l.verdict, l.batch, l.finals, l.children, l.then)
  BY <1>2, LocFacts
<1> QED BY <1>3, <1>4

\* The validator has the transactions of a disconnected block, or none.
LEMMA LocRewound ==
    ASSUME Types, NEW t \in Threads, NEW b \in SUBSET Txs,
           loc' = [loc EXCEPT ![t].batch = b]
    PROVE  LocTo(t, loc[t].tx, loc[t].verdict, b, loc[t].finals, loc[t].children, loc[t].then)
<1> DEFINE l == [loc[t] EXCEPT !.batch = b]
<1> loc[t] \in Locals
  BY DEF Types
<1>2. l \in Locals /\ loc' = [loc EXCEPT ![t] = l]
  BY DEF Locals
<1>3. /\ l.tx = loc[t].tx /\ l.verdict = loc[t].verdict /\ l.batch = b
      /\ l.finals = loc[t].finals /\ l.children = loc[t].children /\ l.then = loc[t].then
  BY DEF Locals
<1> HIDE DEF l
<1>4. LocTo(t, l.tx, l.verdict, l.batch, l.finals, l.children, l.then)
  BY <1>2, LocFacts
<1> QED BY <1>3, <1>4

\* The thread has collected orphans.
LEMMA LocCollected ==
    ASSUME Types, NEW t \in Threads, NEW f \in SUBSET Txs, NEW c \in SUBSET Txs,
           loc' = [loc EXCEPT ![t].finals = f, ![t].children = c, ![t].batch = {}]
    PROVE  LocTo(t, loc[t].tx, loc[t].verdict, {}, f, c, loc[t].then)
<1> DEFINE l == [loc[t] EXCEPT !.finals = f, !.children = c, !.batch = {}]
<1> loc[t] \in Locals
  BY DEF Types
<1>2. l \in Locals /\ loc' = [loc EXCEPT ![t] = l]
  BY DEF Locals
<1>3. /\ l.tx = loc[t].tx /\ l.verdict = loc[t].verdict /\ l.batch = {}
      /\ l.finals = f /\ l.children = c /\ l.then = loc[t].then
  BY DEF Locals
<1> HIDE DEF l
<1>4. LocTo(t, l.tx, l.verdict, l.batch, l.finals, l.children, l.then)
  BY <1>2, LocFacts
<1> QED BY <1>3, <1>4

\* The thread keeps the rest of what it collected.
LEMMA LocLeft ==
    ASSUME Types, NEW t \in Threads, NEW f \in SUBSET Txs, NEW c \in SUBSET Txs,
           loc' = [loc EXCEPT ![t].finals = f, ![t].children = c]
    PROVE  LocTo(t, loc[t].tx, loc[t].verdict, loc[t].batch, f, c, loc[t].then)
<1> DEFINE l == [loc[t] EXCEPT !.finals = f, !.children = c]
<1> loc[t] \in Locals
  BY DEF Types
<1>2. l \in Locals /\ loc' = [loc EXCEPT ![t] = l]
  BY DEF Locals
<1>3. /\ l.tx = loc[t].tx /\ l.verdict = loc[t].verdict /\ l.batch = loc[t].batch
      /\ l.finals = f /\ l.children = c /\ l.then = loc[t].then
  BY DEF Locals
<1> HIDE DEF l
<1>4. LocTo(t, l.tx, l.verdict, l.batch, l.finals, l.children, l.then)
  BY <1>2, LocFacts
<1> QED BY <1>3, <1>4

\* The thread serves a call about x.
LEMMA LocCall ==
    ASSUME Types, NEW t \in Threads, NEW x \in Txs, NEW label \in Labels,
           loc' = [loc EXCEPT ![t].tx = x, ![t].then = label]
    PROVE  LocTo(t, x, loc[t].verdict, loc[t].batch, loc[t].finals, loc[t].children, label)
<1> DEFINE l == [loc[t] EXCEPT !.tx = x, !.then = label]
<1> loc[t] \in Locals
  BY DEF Types
<1>2. l \in Locals /\ loc' = [loc EXCEPT ![t] = l]
  BY DEF Locals
<1>3. /\ l.tx = x /\ l.verdict = loc[t].verdict /\ l.batch = loc[t].batch
      /\ l.finals = loc[t].finals /\ l.children = loc[t].children /\ l.then = label
  BY DEF Locals
<1> HIDE DEF l
<1>4. LocTo(t, l.tx, l.verdict, l.batch, l.finals, l.children, l.then)
  BY <1>2, LocFacts
<1> QED BY <1>3, <1>4

\* The thread goes round the loop of FlushTxAdmission.
LEMMA LocLoop ==
    ASSUME Types, NEW t \in Threads, NEW e \in BOOLEAN, NEW label \in Labels,
           loc' = [loc EXCEPT ![t].empty = e, ![t].then = label]
    PROVE  LocTo(t, loc[t].tx, loc[t].verdict, loc[t].batch, loc[t].finals, loc[t].children, label)
<1> DEFINE l == [loc[t] EXCEPT !.empty = e, !.then = label]
<1> loc[t] \in Locals
  BY DEF Types
<1>2. l \in Locals /\ loc' = [loc EXCEPT ![t] = l]
  BY DEF Locals
<1>3. /\ l.tx = loc[t].tx /\ l.verdict = loc[t].verdict /\ l.batch = loc[t].batch
      /\ l.finals = loc[t].finals /\ l.children = loc[t].children /\ l.then = label
  BY DEF Locals
<1> HIDE DEF l
<1>4. LocTo(t, l.tx, l.verdict, l.batch, l.finals, l.children, l.then)
  BY <1>2, LocFacts
<1> QED BY <1>3, <1>4

\* What happens to the place of t in the corral.
CorralTo(t, region, n) ==
    /\ holds' \in [Threads -> Regions \cup {0}] /\ depth' \in [Threads -> Nat]
    /\ \A u \in Threads \ {t} : holds'[u] = holds[u] /\ depth'[u] = depth[u]
    /\ holds'[t] = region /\ depth'[t] = n
    /\ \/ n > 0 => depth[t] > 0 /\ holds[t] = region
       \/ OnlyRegion(region)

\* What the operations of the corral amount to.
LEMMA StayFacts ==
    ASSUME Types, NEW t \in Threads, UNCHANGED <<holds, depth>>
    PROVE  CorralTo(t, holds[t], depth[t])
  BY DEF Types, CorralTo

\* Entering, or entering again.
LEMMA EnterFacts ==
    ASSUME Types, NEW t \in Threads, NEW r \in Regions, EnterRegion(t, r)
    PROVE  /\ depth[t] = 0 => CorralTo(t, r, 1)
           /\ depth[t] = 1 => CorralTo(t, r, 2)
  BY SMTT(60) DEF Types, CorralTo, EnterRegion

\* Leaving, or leaving the inner one of two entries.
LEMMA ExitFacts ==
    ASSUME Types, NEW t \in Threads, ExitRegion(t)
    PROVE  /\ depth[t] = 1 => CorralTo(t, 0, 0)
           /\ depth[t] = 2 => CorralTo(t, holds[t], 1)
  BY SMTT(60) DEF Types, CorralTo, ExitRegion

\* No operation lets threads of two regions in.
LEMMA OneRegionKept ==
    ASSUME OneRegion, NEW t \in Threads, NEW r, NEW n, CorralTo(t, r, n)
    PROVE  OneRegion'
  BY DEF OneRegion, CorralTo, OnlyRegion

-----------------------------------------------------------------------------
(* Steps that keep the types and the control                               *)

\* A step of t that keeps types and control and leaves the other threads alone.
Tame(t) ==
    /\ Types' /\ env' = env
    /\ \A u \in Threads \ {t} : /\ pc'[u] = pc[u] /\ loc'[u] = loc[u]
                                /\ holds'[u] = holds[u] /\ depth'[u] = depth[u]
    /\ ThreadOK(t)'
    /\ OneRegion => OneRegion'

\* t keeps its local variables; t is done.
LocKeeps(t) == LocTo(t, loc[t].tx, loc[t].verdict, loc[t].batch, loc[t].finals,
                     loc[t].children, loc[t].then)

\* The local variables are as they were at first.
LocRests(t) == LocTo(t, NoTx, "", {}, {}, {}, "idle")

\* The types of what the threads share.
PoolTypes ==
    /\ commitQ \subseteq Txs /\ mempool \subseteq Txs
    /\ env \in Scenarios /\ chain \in Seq(env.blocks)
    /\ mapOrphans \subseteq Txs /\ mapNonFinals \subseteq Txs
    /\ recentRejects \subseteq Txs /\ txRecentlyInBlock \subseteq Txs /\ known \subseteq Txs
    /\ vProcessOrphans \in Seq(SUBSET Txs) /\ vPostBlock \in Seq(SUBSET Txs)
    /\ csAccept \in Rpcs \cup {NoThread}

\* What it takes to be tame.
LEMMA TameStep ==
    ASSUME NEW t \in Threads, PoolTypes', env' = env, ThreadOK(t)',
           NEW label, PcTo(t, label),
           NEW x, NEW v, NEW b, NEW f, NEW c, NEW then, LocTo(t, x, v, b, f, c, then),
           NEW r, NEW n, CorralTo(t, r, n)
    PROVE  Tame(t)
<1>1. Types'
  BY DEF PoolTypes, Types, PcTo, LocTo, CorralTo
<1>2. OneRegion => OneRegion'
  BY OneRegionKept
<1> QED BY <1>1, <1>2 DEF Tame, PcTo, LocTo, CorralTo

\* A step that changes none of what is shared.
LEMMA PoolTypesSame ==
    ASSUME Types, UNCHANGED <<commitQ, mempool, env, chain, mapOrphans, mapNonFinals, recentRejects,
                   txRecentlyInBlock, known, vProcessOrphans, vPostBlock, csAccept>>
    PROVE PoolTypes'
  BY DEF Types, PoolTypes

\* A thread is of one kind.
LEMMA Kinds ==
    /\ Workers \subseteq Threads /\ Committers \subseteq Threads
    /\ Validators \subseteq Threads /\ Rpcs \subseteq Threads
    /\ PROCESSING \in Regions /\ COMMITMENT \in Regions /\ PAUSE \in Regions
    /\ \A w \in Workers : w \notin Committers /\ w \notin Validators /\ w \notin Rpcs
    /\ \A t \in Committers : t \notin Validators /\ t \notin Rpcs
    /\ \A t \in Validators : t \notin Rpcs
  BY AdmissionAssumption

-----------------------------------------------------------------------------
(* Each action is tame, and where it leaves its thread                     *)

\* ThreadTxAdmission enters its region of the corral.
LEMMA WorkerEnterTame ==
    ASSUME Types, NEW t \in Workers, ThreadOK(t), WorkerEnter(t)
    PROVE  Tame(t) /\ PcTo(t, "take") /\ LocKeeps(t)
<1> USE Kinds
<1> t \in Threads
  OBVIOUS
<1> pc[t] = "idle"
  BY DEF WorkerEnter
<1> PcTo(t, "take")
  BY GotoFacts DEF WorkerEnter, GoIdle, Labels
<1> LocKeeps(t)
  BY LocSame DEF WorkerEnter, LocKeeps
<1>d. depth[t] = 0
  BY DEF ThreadOK, WorkerOK
<1> CorralTo(t, PROCESSING, 1)
  BY <1>d, EnterFacts DEF WorkerEnter
<1> PoolTypes' /\ env' = env
  BY PoolTypesSame DEF WorkerEnter
<1>5. ThreadOK(t)'
  BY DEF ThreadOK, WorkerOK, PcTo, LocTo, CorralTo, LocKeeps
<1> QED BY <1>5, TameStep DEF LocKeeps

\* NextTxOrLeave
LEMMA NextTxTame ==
    ASSUME Types, NEW t \in Workers, ThreadOK(t), pc[t] \in {"take", "apply"},
           NEW last \in BOOLEAN, NextTxOrLeave(t, last), PoolTypes', env' = env
    PROVE  Tame(t) /\ pc'[t] \in {"take", "idle"}
<1> USE Kinds
<1> t \in Threads /\ WorkerOK(t) BY DEF ThreadOK
<1> CASE GoIdle(t) /\ ExitRegion(t)
  <2> PcTo(t, "idle") /\ LocTo(t, NoTx, "", {}, {}, {}, "idle")
    BY GotoFacts, LocIdle DEF GoIdle, Labels
  <2> CorralTo(t, 0, 0)
    BY ExitFacts DEF WorkerOK
  <2> ThreadOK(t)'
    BY DEF ThreadOK, WorkerOK, PcTo, LocTo, CorralTo
  <2> QED BY TameStep DEF PcTo
<1> CASE /\ Goto(t, "take")
         /\ loc' = [loc EXCEPT ![t].round = @ + 1, ![t].last = last,
                               ![t].tx = NoTx, ![t].verdict = ""]
         /\ UNCHANGED corralVars
  <2> PcTo(t, "take")
    BY GotoFacts DEF Labels
  <2> LocTo(t, NoTx, "", loc[t].batch, loc[t].finals, loc[t].children, loc[t].then)
    BY LocNextTx
  <2> CorralTo(t, holds[t], depth[t])
    BY StayFacts
  <2>4. ThreadOK(t)'
    BY DEF ThreadOK, WorkerOK, PcTo, LocTo, CorralTo
  <2> QED BY <2>4, TameStep DEF PcTo
<1> QED BY DEF NextTxOrLeave

\* ThreadTxAdmission leaves it again.
LEMMA WorkerLeaveTame ==
    ASSUME Types, NEW t \in Workers, ThreadOK(t), WorkerLeave(t)
    PROVE  Tame(t) /\ PcTo(t, "idle") /\ LocRests(t)
<1> USE Kinds
<1> t \in Threads
  OBVIOUS
<1>g. pc[t] = "take"
  BY DEF WorkerLeave
<1> PcTo(t, "idle")
  BY GotoFacts DEF WorkerLeave, GoIdle, Labels
<1> LocRests(t)
  BY LocIdle DEF WorkerLeave, LocRests, GoIdle
<1> CorralTo(t, 0, 0)
  BY ExitFacts DEF WorkerLeave, ThreadOK, WorkerOK
<1> PoolTypes' /\ env' = env
  BY PoolTypesSame DEF WorkerLeave
<1>5. ThreadOK(t)'
  BY <1>g
      DEF ThreadOK, WorkerOK, PcTo, LocTo, CorralTo, LocRests
<1> QED BY <1>5, TameStep DEF LocRests

\* The first half of _CommitTxToMempool, which fills the txpool.
LEMMA CommitSwapTame ==
    ASSUME Types, NEW t \in Committers \cup Validators \cup Rpcs, ThreadOK(t), CommitSwap(t)
    PROVE  Tame(t) /\ PcTo(t, "requeue") /\ LocKeeps(t)
<1> t \in Threads
  BY Kinds
<1>g. pc[t] = "swap"
  BY DEF CommitSwap
<1> PcTo(t, "requeue")
  BY GotoFacts DEF CommitSwap, GoIdle, Labels
<1> LocKeeps(t)
  BY LocSame DEF CommitSwap, LocKeeps
<1> CorralTo(t, holds[t], depth[t])
  BY StayFacts DEF CommitSwap
<1> PoolTypes' /\ env' = env
  BY SMTT(60) DEF CommitSwap, Types, PoolTypes
<1>5. ThreadOK(t)'
  BY <1>g, Kinds
      DEF ThreadOK, CommitterOK, ValidatorOK, RpcOK, Connecting, PcTo, LocTo, CorralTo, LocKeeps
<1> QED BY <1>5, TameStep DEF LocKeeps

\* The second half of _CommitTxToMempool, which starts a new round.
LEMMA CommitRequeueTame ==
    ASSUME Types, NEW t \in Committers \cup Validators \cup Rpcs, ThreadOK(t), CommitRequeue(t)
    PROVE  Tame(t) /\ PcTo(t, loc[t].then) /\ LocKeeps(t)
<1> t \in Threads
  BY Kinds
<1>g. pc[t] = "requeue"
  BY DEF CommitRequeue
<1> loc[t].then \in Labels
  BY DEF Types, Locals
<1> PcTo(t, loc[t].then)
  BY GotoFacts DEF CommitRequeue
<1> LocKeeps(t)
  BY LocSame DEF CommitRequeue, LocKeeps
<1> CorralTo(t, holds[t], depth[t])
  BY StayFacts DEF CommitRequeue
<1> PoolTypes' /\ env' = env
  BY PoolTypesSame DEF CommitRequeue
<1>5. ThreadOK(t)'
  BY <1>g, Kinds
      DEF ThreadOK, CommitterOK, ValidatorOK, RpcOK, Connecting, PcTo, LocTo, CorralTo, LocKeeps
<1> QED BY <1>5, TameStep DEF LocKeeps

\* ThreadCommitToMempool enters the region of the commits.
LEMMA CommitterEnterTame ==
    ASSUME Types, NEW t \in Committers, ThreadOK(t), CommitterEnter(t)
    PROVE  Tame(t) /\ PcTo(t, "swap")
             /\ LocTo(t, loc[t].tx, loc[t].verdict, loc[t].batch, loc[t].finals,
             loc[t].children, "leave")
<1> USE Kinds
<1> t \in Threads
  OBVIOUS
<1> pc[t] = "idle"
  BY DEF CommitterEnter
<1> "leave" \in Labels
  BY DEF Labels
<1> PcTo(t, "swap")
  BY GotoFacts DEF CommitterEnter, GoIdle, Labels
<1> LocTo(t, loc[t].tx, loc[t].verdict, loc[t].batch, loc[t].finals, loc[t].children, "leave")
  BY LocThen DEF CommitterEnter
<1>d. depth[t] = 0
  BY DEF ThreadOK, CommitterOK
<1> CorralTo(t, COMMITMENT, 1)
  BY <1>d, EnterFacts DEF CommitterEnter
<1> PoolTypes' /\ env' = env
  BY PoolTypesSame DEF CommitterEnter
<1>5. ThreadOK(t)'
  BY DEF ThreadOK, CommitterOK, PcTo, LocTo, CorralTo
<1> QED BY <1>5, TameStep

\* CommitTxToMempool takes a connected block whose orphans are to be processed.
LEMMA NextBlockTame ==
    ASSUME Types, NEW t \in Committers \cup Rpcs, ThreadOK(t), NextBlock(t)
    PROVE  Tame(t) /\ PcTo(t, "collect")
             /\ LocTo(t, loc[t].tx, loc[t].verdict, Head(vPostBlock), loc[t].finals,
             loc[t].children, "blocks")
<1> t \in Threads
  BY Kinds
<1>g. pc[t] = "blocks"
  BY DEF NextBlock
<1> /\ "blocks" \in Labels /\ Head(vPostBlock) \in SUBSET Txs
    /\ Tail(vPostBlock) \in Seq(SUBSET Txs)
  BY SMTT(60) DEF Labels, Types, NextBlock
<1> PcTo(t, "collect")
  BY GotoFacts DEF NextBlock, GoIdle, Labels
<1> LocTo(t, loc[t].tx, loc[t].verdict, Head(vPostBlock), loc[t].finals, loc[t].children, "blocks")
  BY LocBatch DEF NextBlock
<1> CorralTo(t, holds[t], depth[t])
  BY StayFacts DEF NextBlock
<1> PoolTypes' /\ env' = env
  BY DEF NextBlock, Types, PoolTypes
<1>5. ThreadOK(t)'
  BY <1>g, Kinds
      DEF ThreadOK, CommitterOK, RpcOK, PcTo, LocTo, CorralTo
<1> QED BY <1>5, TameStep

\* ProcessOrphans takes a batch of transactions.
LEMMA NextBatchTame ==
    ASSUME Types, NEW t \in Committers \cup Rpcs, ThreadOK(t), NextBatch(t)
    PROVE  Tame(t) /\ PcTo(t, "collect")
             /\ LocTo(t, loc[t].tx, loc[t].verdict, Head(vProcessOrphans), loc[t].finals,
             loc[t].children, "batches")
<1> t \in Threads
  BY Kinds
<1>g. pc[t] \in {"blocks", "batches"}
  BY DEF NextBatch
<1> /\ "batches" \in Labels /\ Head(vProcessOrphans) \in SUBSET Txs
    /\ Tail(vProcessOrphans) \in Seq(SUBSET Txs)
  BY SMTT(60) DEF Labels, Types, NextBatch
<1> PcTo(t, "collect")
  BY GotoFacts DEF NextBatch, GoIdle, Labels
<1> LocTo(t, loc[t].tx, loc[t].verdict, Head(vProcessOrphans), loc[t].finals,
      loc[t].children, "batches")
  BY LocBatch DEF NextBatch
<1> CorralTo(t, holds[t], depth[t])
  BY StayFacts DEF NextBatch
<1> PoolTypes' /\ env' = env
  BY DEF NextBatch, Types, PoolTypes
<1>5. ThreadOK(t)'
  BY <1>g, Kinds
      DEF ThreadOK, CommitterOK, RpcOK, PcTo, LocTo, CorralTo
<1> QED BY <1>5, TameStep

\* ProcessOrphans collects the orphans that wait for the batch.
LEMMA CollectTame ==
    ASSUME Types, NEW t \in Committers \cup Rpcs, ThreadOK(t), Collect(t)
    PROVE  Tame(t) /\ PcTo(t, "erase")
             /\ LocTo(t, loc[t].tx, loc[t].verdict, {}, {n \in mapNonFinals : Final(n)},
             {o \in mapOrphans : (Inputs(o) \cup Reads[o]) \cap loc[t].batch # {}}
                        \ {n \in mapNonFinals : Final(n)}, loc[t].then)
<1> t \in Threads
  BY Kinds
<1>g. pc[t] = "collect"
  BY DEF Collect
<1> /\ {n \in mapNonFinals : Final(n)} \in SUBSET Txs
    /\ {o \in mapOrphans : (Inputs(o) \cup Reads[o]) \cap loc[t].batch # {}}
          \ {n \in mapNonFinals : Final(n)} \in SUBSET Txs
  BY DEF Types
<1> PcTo(t, "erase")
  BY GotoFacts DEF Collect, GoIdle, Labels
<1> LocTo(t, loc[t].tx, loc[t].verdict, {}, {n \in mapNonFinals : Final(n)},
      {o \in mapOrphans : (Inputs(o) \cup Reads[o]) \cap loc[t].batch # {}}
                      \ {n \in mapNonFinals : Final(n)}, loc[t].then)
  BY LocCollected DEF Collect
<1> CorralTo(t, holds[t], depth[t])
  BY StayFacts DEF Collect
<1> PoolTypes' /\ env' = env
  BY PoolTypesSame DEF Collect
<1>5. ThreadOK(t)'
  BY <1>g, Kinds
      DEF ThreadOK, CommitterOK, RpcOK, PcTo, LocTo, CorralTo
<1> QED BY <1>5, TameStep

\* ProcessOrphans erases what it has collected from the orphan pool.
LEMMA EraseTame ==
    ASSUME Types, NEW t \in Committers \cup Rpcs, ThreadOK(t), Erase(t)
    PROVE  Tame(t) /\ PcTo(t, "enqueue")
             /\ LocTo(t, loc[t].tx, loc[t].verdict, loc[t].batch,
             loc[t].finals \cap (mapOrphans \cup mapNonFinals),
             loc[t].children \cap (mapOrphans \cup mapNonFinals), loc[t].then)
<1> t \in Threads
  BY Kinds
<1>g. pc[t] = "erase"
  BY DEF Erase
<1> /\ loc[t].finals \cap (mapOrphans \cup mapNonFinals) \in SUBSET Txs
    /\ loc[t].children \cap (mapOrphans \cup mapNonFinals) \in SUBSET Txs
  BY DEF Types
<1> PcTo(t, "enqueue")
  BY GotoFacts DEF Erase, GoIdle, Labels
<1> LocTo(t, loc[t].tx, loc[t].verdict, loc[t].batch,
      loc[t].finals \cap (mapOrphans \cup mapNonFinals),
      loc[t].children \cap (mapOrphans \cup mapNonFinals), loc[t].then)
  BY LocLeft DEF Erase
<1> CorralTo(t, holds[t], depth[t])
  BY StayFacts DEF Erase
<1> PoolTypes' /\ env' = env
  BY DEF Erase, Types, PoolTypes
<1>5. ThreadOK(t)'
  BY <1>g, Kinds
      DEF ThreadOK, CommitterOK, RpcOK, PcTo, LocTo, CorralTo
<1> QED BY <1>5, TameStep

\* The txpool is limited in size.
LEMMA LimitMempoolSizeTame ==
    ASSUME Types, NEW t \in Committers \cup Rpcs, ThreadOK(t), LimitMempoolSize(t)
    PROVE  Tame(t) /\ PcTo(t, "idle") /\ LocRests(t)
<1> t \in Threads
  BY Kinds
<1>g. pc[t] = "limit"
  BY DEF LimitMempoolSize
<1> PcTo(t, "idle")
  BY GotoFacts DEF LimitMempoolSize, GoIdle, Labels
<1> LocRests(t)
  BY LocIdle DEF LimitMempoolSize, LocRests, GoIdle
<1> CorralTo(t, holds[t], depth[t])
  BY StayFacts DEF LimitMempoolSize
<1> PoolTypes' /\ env' = env
  BY DEF LimitMempoolSize, Types, PoolTypes
<1>5. ThreadOK(t)'
  BY <1>g, Kinds
      DEF ThreadOK, CommitterOK, RpcOK, PcTo, LocTo, CorralTo, LocRests
<1> QED BY <1>5, TameStep DEF LocRests

\* A TxAdmissionPause begins.
LEMMA PauseEnterTame ==
    ASSUME Types, NEW t \in Validators \cup Rpcs, ThreadOK(t), PauseEnter(t)
    PROVE  Tame(t) /\ PcTo(t, "swap") /\ LocKeeps(t)
<1> USE Kinds
<1> t \in Threads
  OBVIOUS
<1> pc[t] = "pause"
  BY DEF PauseEnter
<1> PcTo(t, "swap")
  BY GotoFacts DEF PauseEnter, GoIdle, Labels
<1> LocKeeps(t)
  BY LocSame DEF PauseEnter, LocKeeps
<1>d. depth[t] = 0
  BY DEF ThreadOK, ValidatorOK, RpcOK
<1> CorralTo(t, PAUSE, 1)
  BY <1>d, EnterFacts DEF PauseEnter
<1> PoolTypes' /\ env' = env
  BY PoolTypesSame DEF PauseEnter
<1>5. ThreadOK(t)'
  BY DEF ThreadOK, ValidatorOK, RpcOK, Connecting, PcTo, LocTo, CorralTo, LocKeeps
<1> QED BY <1>5, TameStep DEF LocKeeps

\* ConnectTip has found a valid block.
LEMMA ConnectBlockTame ==
    ASSUME Types, NEW t \in Validators, ThreadOK(t), NEW b \in env.blocks, ConnectBlock(t, b)
    PROVE  Tame(t) /\ PcTo(t, "pause")
             /\ LocTo(t, loc[t].tx, loc[t].verdict, b, loc[t].finals, loc[t].children,
             "flush")
<1> t \in Threads
  BY Kinds
<1>g. pc[t] = "idle"
  BY DEF ConnectBlock
<1> "flush" \in Labels /\ b \in SUBSET Txs
  BY AdmissionAssumption DEF Labels, Types
<1> PcTo(t, "pause")
  BY GotoFacts DEF ConnectBlock, GoIdle, Labels
<1> LocTo(t, loc[t].tx, loc[t].verdict, b, loc[t].finals, loc[t].children, "flush")
  BY LocBatch DEF ConnectBlock
<1> CorralTo(t, holds[t], depth[t])
  BY StayFacts DEF ConnectBlock
<1> PoolTypes' /\ env' = env
  BY DEF ConnectBlock, Types, PoolTypes
<1>5. ThreadOK(t)'
  BY <1>g, Kinds
      DEF ThreadOK, ValidatorOK, Connecting, PcTo, LocTo, CorralTo
<1> QED BY <1>5, TameStep

\* ConnectTip flushes the coins of the block.
LEMMA FlushCoinsTame ==
    ASSUME Types, NEW t \in Validators, ThreadOK(t), FlushCoins(t)
    PROVE  Tame(t) /\ PcTo(t, "remove") /\ LocKeeps(t)
<1> t \in Threads
  BY Kinds
<1> pc[t] = "flush"
  BY DEF FlushCoins
<1> Append(chain, loc[t].batch) \in Seq(env.blocks) /\ loc[t].batch \in env.blocks
  <2> DEFINE B == env.blocks
             b == loc[t].batch
  <2> chain \in Seq(B) /\ b \in B
    BY DEF Types, ThreadOK, ValidatorOK, Connecting
  <2> HIDE DEF B, b
  <2>2. Append(chain, b) \in Seq(B)
    BY SMTT(60)
  <2> QED BY <2>2 DEF B, b
<1> PcTo(t, "remove")
  BY GotoFacts DEF FlushCoins, GoIdle, Labels
<1> LocKeeps(t)
  BY LocSame DEF FlushCoins, LocKeeps
<1> CorralTo(t, holds[t], depth[t])
  BY StayFacts DEF FlushCoins
<1> PoolTypes' /\ env' = env
  BY DEF FlushCoins, Types, PoolTypes
<1>5. ThreadOK(t)'
  BY Kinds
      DEF ThreadOK, ValidatorOK, Connecting, PcTo, LocTo, CorralTo, LocKeeps
<1> QED BY <1>5, TameStep DEF LocKeeps

\* removeForBlock takes the block, and what conflicts with it, out of the txpool.
LEMMA RemoveForBlockTame ==
    ASSUME Types, NEW t \in Validators, ThreadOK(t), RemoveForBlock(t)
    PROVE  Tame(t) /\ PcTo(t, "idle") /\ LocRests(t)
<1> USE Kinds
<1> t \in Threads
  OBVIOUS
<1>g. pc[t] = "remove"
  BY DEF RemoveForBlock
<1> Append(vPostBlock, loc[t].batch) \in Seq(SUBSET Txs)
  <2>1. loc[t].batch \in SUBSET Txs
    BY DEF Types, Locals
  <2> QED BY <2>1, SMTT(60) DEF Types
<1> PcTo(t, "idle")
  BY GotoFacts DEF RemoveForBlock, GoIdle, Labels
<1> LocRests(t)
  BY LocIdle DEF RemoveForBlock, LocRests, GoIdle
<1> CorralTo(t, 0, 0)
  BY ExitFacts DEF RemoveForBlock, ThreadOK, ValidatorOK
<1> PoolTypes' /\ env' = env
  BY DEF RemoveForBlock, Types, PoolTypes
<1>5. ThreadOK(t)'
  BY <1>g
      DEF ThreadOK, ValidatorOK, Connecting, PcTo, LocTo, CorralTo, LocRests
<1> QED BY <1>5, TameStep DEF LocRests

\* The disconnection of the tip begins.
LEMMA DisconnectTipTame ==
    ASSUME Types, NEW t \in Validators, ThreadOK(t), DisconnectTip(t)
    PROVE  Tame(t) /\ PcTo(t, "pause")
             /\ LocTo(t, loc[t].tx, loc[t].verdict, loc[t].batch, loc[t].finals,
             loc[t].children, "rewind")
<1> t \in Threads
  BY Kinds
<1>g. pc[t] = "idle"
  BY DEF DisconnectTip
<1> "rewind" \in Labels
  BY DEF Labels
<1> PcTo(t, "pause")
  BY GotoFacts DEF DisconnectTip, GoIdle, Labels
<1> LocTo(t, loc[t].tx, loc[t].verdict, loc[t].batch, loc[t].finals, loc[t].children, "rewind")
  BY LocThen DEF DisconnectTip
<1> CorralTo(t, holds[t], depth[t])
  BY StayFacts DEF DisconnectTip
<1> PoolTypes' /\ env' = env
  BY PoolTypesSame DEF DisconnectTip
<1>5. ThreadOK(t)'
  BY <1>g, Kinds
      DEF ThreadOK, ValidatorOK, Connecting, PcTo, LocTo, CorralTo
<1> QED BY <1>5, TameStep

\* DisconnectTip takes the tip off the chain.
LEMMA RewindCoinsTame ==
    ASSUME Types, NEW t \in Validators, ThreadOK(t),
           chain # <<>>, RewindCoins(t)
    PROVE  Tame(t) /\ PcTo(t, "resubmit")
             /\ LocTo(t, loc[t].tx, loc[t].verdict, chain[Len(chain)], loc[t].finals,
             loc[t].children, loc[t].then)
<1> t \in Threads
  BY Kinds
<1>g. pc[t] = "rewind"
  BY DEF RewindCoins
<1> /\ chain[Len(chain)] \in SUBSET Txs
    /\ SubSeq(chain, 1, Len(chain) - 1) \in Seq(env.blocks)
  <2> DEFINE B == env.blocks
  <2> B \subseteq SUBSET Txs /\ chain \in Seq(B)
    BY AdmissionAssumption DEF Types
  <2> HIDE DEF B
  <2>2. chain[Len(chain)] \in B /\ SubSeq(chain, 1, Len(chain) - 1) \in Seq(B)
    BY SMTT(60)
  <2> QED BY <2>2 DEF B
<1> PcTo(t, "resubmit")
  BY GotoFacts DEF RewindCoins, GoIdle, Labels
<1> LocTo(t, loc[t].tx, loc[t].verdict, chain[Len(chain)], loc[t].finals, loc[t].children,
      loc[t].then)
  BY LocRewound DEF RewindCoins
<1> CorralTo(t, holds[t], depth[t])
  BY StayFacts DEF RewindCoins
<1> PoolTypes' /\ env' = env
  BY DEF RewindCoins, Types, PoolTypes
<1>5. ThreadOK(t)'
  BY <1>g, Kinds
      DEF ThreadOK, ValidatorOK, Connecting, PcTo, LocTo, CorralTo
<1> QED BY <1>5, TameStep

\* The transactions of the block and of the txpool go back into the queues.
LEMMA ResubmitTame ==
    ASSUME Types, NEW t \in Validators, ThreadOK(t), Resubmit(t)
    PROVE  Tame(t) /\ PcTo(t, "idle") /\ LocRests(t)
<1> USE Kinds
<1> t \in Threads
  OBVIOUS
<1>g. pc[t] = "resubmit"
  BY DEF Resubmit
<1> PcTo(t, "idle")
  BY GotoFacts DEF Resubmit, GoIdle, Labels
<1> LocRests(t)
  BY LocIdle DEF Resubmit, LocRests, GoIdle
<1> CorralTo(t, 0, 0)
  BY ExitFacts DEF Resubmit, ThreadOK, ValidatorOK
<1> PoolTypes' /\ env' = env
  BY DEF Resubmit, Types, PoolTypes
<1>5. ThreadOK(t)'
  BY <1>g
      DEF ThreadOK, ValidatorOK, Connecting, PcTo, LocTo, CorralTo, LocRests
<1> QED BY <1>5, TameStep DEF LocRests

\* sendrawtransaction begins.
LEMMA SendRawTame ==
    ASSUME Types, NEW t \in Rpcs, ThreadOK(t), NEW x \in env.raw, SendRaw(t, x)
    PROVE  Tame(t) /\ PcTo(t, "pause")
             /\ LocTo(t, x, loc[t].verdict, loc[t].batch, loc[t].finals, loc[t].children,
             "accept")
<1> t \in Threads
  BY Kinds
<1>g. pc[t] = "idle"
  BY DEF SendRaw
<1> x \in Txs /\ "accept" \in Labels
  BY AdmissionAssumption DEF Types, Labels
<1> PcTo(t, "pause")
  BY GotoFacts DEF SendRaw, GoIdle, Labels
<1> LocTo(t, x, loc[t].verdict, loc[t].batch, loc[t].finals, loc[t].children, "accept")
  BY LocCall DEF SendRaw
<1> CorralTo(t, holds[t], depth[t])
  BY StayFacts DEF SendRaw
<1> PoolTypes' /\ env' = env
  BY PoolTypesSame DEF SendRaw
<1>5. ThreadOK(t)'
  BY <1>g, Kinds
      DEF ThreadOK, RpcOK, PcTo, LocTo, CorralTo
<1> QED BY <1>5, TameStep

\* AcceptToMemoryPool puts the transaction into the commit queue.
LEMMA AcceptInsertTame ==
    ASSUME Types, NEW t \in Rpcs, ThreadOK(t), AcceptInsert(t)
    PROVE  Tame(t) /\ PcTo(t, "swap")
             /\ LocTo(t, loc[t].tx, loc[t].verdict, loc[t].batch, loc[t].finals,
             loc[t].children, "accepted")
<1> t \in Threads
  BY Kinds
<1>g. pc[t] = "insert"
  BY DEF AcceptInsert
<1> "accepted" \in Labels /\ loc[t].tx \in Txs
  BY DEF Labels, ThreadOK, RpcOK, AcceptInsert
<1> PcTo(t, "swap")
  BY GotoFacts DEF AcceptInsert, GoIdle, Labels
<1> LocTo(t, loc[t].tx, loc[t].verdict, loc[t].batch, loc[t].finals, loc[t].children, "accepted")
  BY LocThen DEF AcceptInsert
<1> CorralTo(t, holds[t], depth[t])
  BY StayFacts DEF AcceptInsert
<1> PoolTypes' /\ env' = env
  BY DEF AcceptInsert, Types, PoolTypes
<1>5. ThreadOK(t)'
  BY <1>g, Kinds
      DEF ThreadOK, RpcOK, PcTo, LocTo, CorralTo
<1> QED BY <1>5, TameStep

\* AcceptToMemoryPool has committed and releases cs_accept.
LEMMA AcceptDoneTame ==
    ASSUME Types, NEW t \in Rpcs, ThreadOK(t), AcceptDone(t)
    PROVE  Tame(t) /\ PcTo(t, "limit") /\ LocKeeps(t)
<1> USE Kinds
<1> t \in Threads
  OBVIOUS
<1>g. pc[t] = "accepted"
  BY DEF AcceptDone
<1> PcTo(t, "limit")
  BY GotoFacts DEF AcceptDone, GoIdle, Labels
<1> LocKeeps(t)
  BY LocSame DEF AcceptDone, LocKeeps
<1> CorralTo(t, 0, 0)
  BY ExitFacts DEF AcceptDone, ThreadOK, RpcOK
<1> PoolTypes' /\ env' = env
  BY DEF AcceptDone, Types, PoolTypes
<1>5. ThreadOK(t)'
  BY <1>g
      DEF ThreadOK, RpcOK, PcTo, LocTo, CorralTo, LocKeeps
<1> QED BY <1>5, TameStep DEF LocKeeps

\* sendrawtransaction adds an orphan.
LEMMA AddOrphanByRpcTame ==
    ASSUME Types, NEW t \in Rpcs, ThreadOK(t), AddOrphanByRpc(t)
    PROVE  Tame(t) /\ PcTo(t, "idle") /\ LocRests(t)
<1> t \in Threads
  BY Kinds
<1>g. pc[t] = "addorphan"
  BY DEF AddOrphanByRpc
<1> loc[t].tx \in Txs
  BY DEF ThreadOK, RpcOK, AddOrphanByRpc
<1> PcTo(t, "idle")
  BY GotoFacts DEF AddOrphanByRpc, GoIdle, Labels
<1> LocRests(t)
  BY LocIdle DEF AddOrphanByRpc, LocRests, GoIdle
<1> CorralTo(t, holds[t], depth[t])
  BY StayFacts DEF AddOrphanByRpc
<1> PoolTypes' /\ env' = env
  BY DEF AddOrphanByRpc, Types, PoolTypes
<1>5. ThreadOK(t)'
  BY <1>g, Kinds
      DEF ThreadOK, RpcOK, PcTo, LocTo, CorralTo, LocRests
<1> QED BY <1>5, TameStep DEF LocRests

\* FlushTxAdmission begins.
LEMMA FlushTxAdmissionTame ==
    ASSUME Types, NEW t \in Rpcs, ThreadOK(t), FlushTxAdmission(t)
    PROVE  Tame(t) /\ PcTo(t, "again") /\ LocKeeps(t)
<1> t \in Threads
  BY Kinds
<1>g. pc[t] = "idle"
  BY DEF FlushTxAdmission
<1> PcTo(t, "again")
  BY GotoFacts DEF FlushTxAdmission, GoIdle, Labels
<1> LocKeeps(t)
  BY LocSame DEF FlushTxAdmission, LocKeeps
<1> CorralTo(t, holds[t], depth[t])
  BY StayFacts DEF FlushTxAdmission
<1> PoolTypes' /\ env' = env
  BY PoolTypesSame DEF FlushTxAdmission
<1>5. ThreadOK(t)'
  BY <1>g, Kinds
      DEF ThreadOK, RpcOK, PcTo, LocTo, CorralTo, LocKeeps
<1> QED BY <1>5, TameStep DEF LocKeeps

\* FlushTxAdmission pauses the admission.
LEMMA FlushEnterTame ==
    ASSUME Types, NEW t \in Rpcs, ThreadOK(t), FlushEnter(t)
    PROVE  Tame(t) /\ PcTo(t, "check") /\ LocKeeps(t)
<1> USE Kinds
<1> t \in Threads
  OBVIOUS
<1> pc[t] = "again"
  BY DEF FlushEnter
<1> PcTo(t, "check")
  BY GotoFacts DEF FlushEnter, GoIdle, Labels
<1> LocKeeps(t)
  BY LocSame DEF FlushEnter, LocKeeps
<1>d. depth[t] = 0
  BY DEF ThreadOK, RpcOK
<1> CorralTo(t, PAUSE, 1)
  BY <1>d, EnterFacts DEF FlushEnter
<1> PoolTypes' /\ env' = env
  BY PoolTypesSame DEF FlushEnter
<1>5. ThreadOK(t)'
  BY DEF ThreadOK, RpcOK, PcTo, LocTo, CorralTo, LocKeeps
<1> QED BY <1>5, TameStep DEF LocKeeps

\* WorkerTake, apart from the queues.
LEMMA VerdictNames ==
    ASSUME NEW x PROVE Verdicts(x) \subseteq {"invalid", "nonfinal", "known", "conflict",
             "missing", "accept"}
  BY DEF Verdicts

\* A worker pops a transaction and validates it.
LEMMA WorkerTakeTame ==
    ASSUME Types, queues \in QueueType, NEW t \in Workers, ThreadOK(t), WorkerTake(t)
    PROVE  /\ Tame(t)
           /\ LET q == IF queues.orphan # <<>> THEN queues.orphan ELSE queues.in
              IN  /\ q # <<>>
                  /\ queues' = [queues EXCEPT !.orphan = IF queues.orphan # <<>>
                       THEN Tail(@) ELSE @,
                                              !.in = IF queues.orphan # <<>> THEN @ ELSE Tail(@)]
                  /\ \/ pc'[t] \in {"take", "idle"}
                     \/ /\ PcTo(t, "apply")
                        /\ \E v \in Verdicts(Head(q)) :
                              LocTo(t, Head(q), v, loc[t].batch, loc[t].finals, loc[t].children,
                                    loc[t].then)
<1> DEFINE q == IF queues.orphan # <<>> THEN queues.orphan ELSE queues.in
           last == loc[t].last \/ (queues.orphan # <<>> /\ Len(queues.orphan) = 1)
<1> t \in Threads
  BY Kinds
<1>g. pc[t] = "take"
  BY DEF WorkerTake
<1> q \in Seq(Txs) /\ q # <<>> /\ Head(q) \in Txs
  <2>1. queues.in \in Seq(Txs) /\ queues.orphan \in Seq(Txs)
    BY DEF QueueType
  <2>2. q \in Seq(Txs) /\ q # <<>>
    BY <2>1 DEF WorkerTake, Queued
  <2> HIDE DEF q
  <2> QED BY <2>2, SMTT(60)
<1>1. /\ queues' = [queues EXCEPT !.orphan = IF queues.orphan # <<>> THEN Tail(@) ELSE @,
                                  !.in = IF queues.orphan # <<>> THEN @ ELSE Tail(@)]
      /\ UNCHANGED <<poolVars, chain, orphanVars, filterVars, batchVars, csAccept,
                     rejects, boundVars>>
      /\ \/ NextTxOrLeave(t, last)
         \/ /\ \E v \in Verdicts(Head(q)) :
                   loc' = [loc EXCEPT ![t].tx = Head(q), ![t].verdict = v, ![t].last = last,
                                      ![t].code = CodeAfter(@, v)]
            /\ Goto(t, "apply")
            /\ UNCHANGED corralVars
  BY DEF WorkerTake
<1>2. PoolTypes' /\ env' = env
  BY <1>1, PoolTypesSame
<1>3. last \in BOOLEAN
  OBVIOUS
<1> HIDE DEF q, last
<1>4. CASE NextTxOrLeave(t, last)
  BY <1>1, <1>2, <1>3, <1>4, <1>g, NextTxTame DEF q
<1> ASSUME NEW v \in Verdicts(Head(q)), Goto(t, "apply"), UNCHANGED corralVars,
           loc' = [loc EXCEPT ![t].tx = Head(q), ![t].verdict = v, ![t].last = last,
                              ![t].code = CodeAfter(@, v)]
    PROVE  /\ Tame(t) /\ PcTo(t, "apply")
           /\ LocTo(t, Head(q), v, loc[t].batch, loc[t].finals, loc[t].children, loc[t].then)
  <2>1. PcTo(t, "apply")
    BY GotoFacts DEF Labels
  <2>2. v \in {"invalid", "nonfinal", "known", "conflict", "missing", "accept"}
    BY VerdictNames
  <2>3. LocTo(t, Head(q), v, loc[t].batch, loc[t].finals, loc[t].children, loc[t].then)
    BY <1>3, <2>2, LocVerdict
  <2>4. CorralTo(t, holds[t], depth[t])
    BY StayFacts
  <2>5. ThreadOK(t)'
    <3>0. v # ""
      BY <2>2
    <3>1. /\ pc'[t] = "apply" /\ loc'[t].tx \in Txs /\ loc'[t].batch = loc[t].batch
          /\ holds'[t] = holds[t] /\ depth'[t] = depth[t] /\ loc'[t].verdict # ""
      BY <3>0, <2>1, <2>3, <2>4 DEF PcTo, LocTo, CorralTo
    <3>2. t \notin Committers /\ t \notin Validators /\ t \notin Rpcs /\ WorkerOK(t)
      BY Kinds DEF ThreadOK
    <3>3. WorkerOK(t)'
      BY <1>g, <3>1, <3>2 DEF WorkerOK
    <3> QED BY <3>2, <3>3 DEF ThreadOK
  <2> QED BY <1>2, <2>1, <2>3, <2>4, <2>5, TameStep
<1>6. ASSUME NEW v \in Verdicts(Head(q)), Goto(t, "apply"), UNCHANGED corralVars,
             loc' = [loc EXCEPT ![t].tx = Head(q), ![t].verdict = v, ![t].last = last,
                                ![t].code = CodeAfter(@, v)]
      PROVE  Tame(t) /\ PcTo(t, "apply") /\ \E u \in Verdicts(Head(q)) :
             LocTo(t, Head(q), u, loc[t].batch, loc[t].finals, loc[t].children, loc[t].then)
  BY <1>6
<1> QED BY <1>1, <1>4, <1>6 DEF q

\* A worker acts on its verdict.
LEMMA WorkerApplyTame ==
    ASSUME Types, NEW t \in Workers, ThreadOK(t), WorkerApply(t)
    PROVE  Tame(t) /\ pc'[t] \in {"take", "idle"}
<1>0. t \in Threads
  BY Kinds
<1> pc[t] = "apply"
  BY DEF WorkerApply
<1>p. loc[t].tx \in Txs
  BY DEF ThreadOK, WorkerOK
<1>1. PoolTypes' /\ env' = env
  BY <1>p DEF WorkerApply, Types, PoolTypes
<1>2. NextTxOrLeave(t, loc[t].last) /\ loc[t].last \in BOOLEAN
  BY <1>0 DEF WorkerApply, Types, Locals
<1> QED BY <1>1, <1>2, NextTxTame

\* CommitTxToMempool leaves the corral before it processes orphans.
LEMMA LeaveCorralTame ==
    ASSUME Types, NEW t \in Committers \cup Rpcs, ThreadOK(t), LeaveCorral(t)
    PROVE  Tame(t) /\ PcTo(t, "blocks") /\ LocKeeps(t)
<1> USE Kinds
<1> t \in Threads
  OBVIOUS
<1> pc[t] = "leave"
  BY DEF LeaveCorral
<1> PcTo(t, "blocks")
  BY GotoFacts DEF LeaveCorral, Labels
<1> LocKeeps(t)
  BY LocSame DEF LeaveCorral, LocKeeps
<1> PoolTypes' /\ env' = env
  BY PoolTypesSame DEF LeaveCorral
<1> CASE t \in Committers
  <2> CorralTo(t, 0, 0)
    BY ExitFacts DEF LeaveCorral, ThreadOK, CommitterOK
  <2> ThreadOK(t)'
    BY DEF ThreadOK, CommitterOK, PcTo, LocTo, CorralTo, LocKeeps
  <2> QED BY TameStep DEF LocKeeps
<1> CASE t \in Rpcs
  <2> RpcOK(t) /\ depth[t] = 2 /\ holds[t] = PAUSE
    BY DEF ThreadOK, RpcOK
  <2> CorralTo(t, holds[t], 1)
    BY ExitFacts DEF LeaveCorral
  <2>3. ThreadOK(t)'
    BY DEF ThreadOK, RpcOK, PcTo, LocTo, CorralTo, LocKeeps
  <2> QED BY <2>3, TameStep DEF LocKeeps
<1> QED OBVIOUS

\* ProcessOrphans has gone through all batches.
LEMMA NoMoreBatchesTame ==
    ASSUME Types, NEW t \in Committers \cup Rpcs, ThreadOK(t), NoMoreBatches(t)
    PROVE  Tame(t) /\ pc'[t] \in {"limit", "decide"} /\ LocKeeps(t)
<1> DEFINE label == IF t \in Committers THEN "limit" ELSE "decide"
<1> t \in Threads /\ label \in Labels
  BY Kinds DEF Labels
<1>g. pc[t] \in {"blocks", "batches"}
  BY DEF NoMoreBatches
<1> PcTo(t, label)
  BY GotoFacts DEF NoMoreBatches
<1> LocKeeps(t)
  BY LocSame DEF NoMoreBatches, LocKeeps
<1> CorralTo(t, holds[t], depth[t])
  BY StayFacts DEF NoMoreBatches
<1> PoolTypes' /\ env' = env
  BY PoolTypesSame DEF NoMoreBatches
<1>5. ThreadOK(t)'
  BY <1>g, Kinds
      DEF ThreadOK, CommitterOK, RpcOK, PcTo, LocTo, CorralTo, LocKeeps
<1>6. pc'[t] \in {"limit", "decide"}
  BY DEF PcTo
<1> HIDE DEF label
<1> QED BY <1>5, <1>6, TameStep DEF LocKeeps

\* ProcessOrphans enqueues an orphan.
LEMMA EnqueueOrphanTame ==
    ASSUME Types, NEW t \in Committers \cup Rpcs, ThreadOK(t), EnqueueOrphan(t)
    PROVE  /\ Tame(t)
           /\ \/ \E o \in Collected(t) :
                   /\ queues' = TestConflictEnqueueTx(queues, o, TRUE)
                   /\ PcTo(t, "enqueue")
                   /\ LocTo(t, loc[t].tx, loc[t].verdict, loc[t].batch, loc[t].finals \ {o},
                            loc[t].children \ {o}, loc[t].then)
              \/ /\ Collected(t) = {} /\ queues' = queues
                 /\ LocKeeps(t) /\ PcTo(t, loc[t].then)
<1> USE Kinds
<1> t \in Threads
  OBVIOUS
<1> pc[t] = "enqueue"
  BY DEF EnqueueOrphan
<1> loc[t].finals \in SUBSET Txs /\ loc[t].children \in SUBSET Txs /\ loc[t].then \in Labels
  BY DEF Types, Locals
<1> CorralTo(t, holds[t], depth[t])
  BY StayFacts DEF EnqueueOrphan
<1> PoolTypes' /\ env' = env
  BY PoolTypesSame DEF EnqueueOrphan
<1> ASSUME NEW o \in Collected(t), queues' = TestConflictEnqueueTx(queues, o, TRUE),
           loc' = [loc EXCEPT ![t].finals = @ \ {o}, ![t].children = @ \ {o}], UNCHANGED pc
    PROVE  /\ Tame(t) /\ PcTo(t, "enqueue")
           /\ LocTo(t, loc[t].tx, loc[t].verdict, loc[t].batch, loc[t].finals \ {o},
                    loc[t].children \ {o}, loc[t].then)
  <2> PcTo(t, "enqueue")
    BY DEF Types, PcTo
  <2> loc[t].finals \ {o} \in SUBSET Txs /\ loc[t].children \ {o} \in SUBSET Txs
    OBVIOUS
  <2> LocTo(t, loc[t].tx, loc[t].verdict, loc[t].batch, loc[t].finals \ {o},
            loc[t].children \ {o}, loc[t].then)
    BY LocLeft
  <2>4. ThreadOK(t)'
    BY DEF ThreadOK, CommitterOK, RpcOK, PcTo, LocTo, CorralTo
  <2> QED BY <2>4, TameStep
<1> ASSUME Goto(t, loc[t].then), loc' = loc
    PROVE  Tame(t) /\ LocKeeps(t) /\ PcTo(t, loc[t].then)
  <2> PcTo(t, loc[t].then)
    BY GotoFacts
  <2> LocKeeps(t)
    BY LocSame DEF LocKeeps
  <2> ThreadOK(t)'
    BY DEF ThreadOK, CommitterOK, RpcOK, PcTo, LocTo, CorralTo, LocKeeps
  <2> QED BY TameStep DEF LocKeeps
<1> DEFINE front == IF loc[t].finals # {} THEN loc[t].finals ELSE loc[t].children
<1> front \subseteq Collected(t) /\ (front = {} => Collected(t) = {})
  BY DEF Collected
<1>7. \/ \E o \in front : /\ queues' = TestConflictEnqueueTx(queues, o, TRUE)
                          /\ loc' = [loc EXCEPT ![t].finals = @ \ {o}, ![t].children = @ \ {o}]
                          /\ UNCHANGED pc
      \/ front = {} /\ Goto(t, loc[t].then) /\ queues' = queues /\ loc' = loc
  BY DEF EnqueueOrphan
<1> HIDE DEF front
<1> CASE \E o \in front : /\ queues' = TestConflictEnqueueTx(queues, o, TRUE)
                          /\ loc' = [loc EXCEPT ![t].finals = @ \ {o}, ![t].children = @ \ {o}]
                          /\ UNCHANGED pc
  <2> PICK o \in front : /\ queues' = TestConflictEnqueueTx(queues, o, TRUE)
                         /\ loc' = [loc EXCEPT ![t].finals = @ \ {o}, ![t].children = @ \ {o}]
                         /\ UNCHANGED pc
    OBVIOUS
  <2> o \in Collected(t)
    OBVIOUS
  <2> QED OBVIOUS
<1> QED BY <1>7

\* AcceptToMemoryPool validates under cs_accept.
LEMMA AcceptCheckTame ==
    ASSUME Types, NEW t \in Rpcs, ThreadOK(t), AcceptCheck(t)
    PROVE  /\ Tame(t) /\ csAccept = NoThread
           /\ \/ /\ "accept" \in Verdicts(loc[t].tx)
                 /\ csAccept' = t /\ PcTo(t, "insert") /\ LocKeeps(t)
              \/ csAccept' = csAccept /\ PcTo(t, "addorphan") /\ LocKeeps(t)
              \/ csAccept' = csAccept /\ PcTo(t, "idle") /\ LocRests(t)
<1> t \in Threads
  BY Kinds
<1> pc[t] = "accept" /\ csAccept = NoThread
  BY DEF AcceptCheck
<1> RpcOK(t) /\ depth[t] = 1 /\ holds[t] = PAUSE /\ loc[t].tx \in Txs
  BY DEF ThreadOK, RpcOK
<1> /\ UNCHANGED <<queueVars, poolVars, chain, orphanVars, filterVars, batchVars,
                   rejects, boundVars>>
    /\ \/ /\ "accept" \in Verdicts(loc[t].tx)
          /\ csAccept' = t /\ Goto(t, "insert") /\ loc' = loc /\ UNCHANGED corralVars
       \/ /\ ExitRegion(t) /\ csAccept' = csAccept
          /\ \/ env.alloworphans /\ Goto(t, "addorphan") /\ loc' = loc
             \/ GoIdle(t)
  BY DEF AcceptCheck
<1> csAccept' \in Rpcs \cup {NoThread} => PoolTypes' /\ env' = env
  BY DEF Types, PoolTypes
<1> t \notin Workers /\ t \notin Committers /\ t \notin Validators
  BY Kinds
<1> CASE /\ "accept" \in Verdicts(loc[t].tx)
         /\ csAccept' = t /\ Goto(t, "insert") /\ loc' = loc /\ UNCHANGED corralVars
  <2> PcTo(t, "insert")
    BY GotoFacts DEF Labels
  <2> LocKeeps(t)
    BY LocSame DEF LocKeeps
  <2> CorralTo(t, holds[t], depth[t])
    BY StayFacts
  <2> PoolTypes' /\ env' = env
    OBVIOUS
  <2> ThreadOK(t)'
    BY DEF ThreadOK, RpcOK, PcTo, LocTo, CorralTo, LocKeeps
  <2> QED BY TameStep DEF LocKeeps
<1> CASE ExitRegion(t) /\ csAccept' = csAccept /\ GoIdle(t)
  <2> PcTo(t, "idle")
    BY GotoFacts DEF GoIdle, Labels
  <2> LocRests(t)
    BY LocIdle DEF GoIdle, LocRests
  <2> CorralTo(t, 0, 0)
    BY ExitFacts
  <2> PoolTypes' /\ env' = env
    BY DEF Types
  <2> ThreadOK(t)'
    BY DEF ThreadOK, RpcOK, PcTo, LocTo, CorralTo, LocRests
  <2> QED BY TameStep DEF LocRests
<1> CASE /\ ExitRegion(t) /\ csAccept' = csAccept
         /\ env.alloworphans /\ Goto(t, "addorphan") /\ loc' = loc
  <2> PcTo(t, "addorphan")
    BY GotoFacts DEF Labels
  <2> LocKeeps(t)
    BY LocSame DEF LocKeeps
  <2> CorralTo(t, 0, 0)
    BY ExitFacts
  <2> PoolTypes' /\ env' = env
    BY DEF Types
  <2> ThreadOK(t)'
    BY DEF ThreadOK, RpcOK, PcTo, LocTo, CorralTo, LocKeeps
  <2> QED BY TameStep DEF LocKeeps
<1> QED OBVIOUS

\* FlushTxAdmission looks at the queues.
LEMMA FlushCheckTame ==
    ASSUME Types, NEW t \in Rpcs, ThreadOK(t), FlushCheck(t)
    PROVE  /\ Tame(t)
           /\ \/ PcTo(t, "idle") /\ LocRests(t)
              \/ /\ PcTo(t, "swap")
                 /\ LocTo(t, loc[t].tx, loc[t].verdict, loc[t].batch, loc[t].finals,
                          loc[t].children, "leave")
<1> USE Kinds
<1> t \in Threads
  OBVIOUS
<1> pc[t] = "check"
  BY DEF FlushCheck
<1> RpcOK(t) /\ depth[t] = 1 /\ holds[t] = PAUSE
  BY DEF ThreadOK, RpcOK
<1>2. \/ ExitRegion(t) /\ GoIdle(t)
      \/ /\ EnterRegion(t, PAUSE) /\ Goto(t, "swap")
         /\ \E e \in BOOLEAN : loc' = [loc EXCEPT ![t].empty = e, ![t].then = "leave"]
  BY DEF FlushCheck
<1> PoolTypes' /\ env' = env
  BY PoolTypesSame DEF FlushCheck
<1> t \notin Workers /\ t \notin Committers /\ t \notin Validators
  OBVIOUS
<1> CASE ExitRegion(t) /\ GoIdle(t)
  <2> PcTo(t, "idle")
    BY GotoFacts DEF GoIdle, Labels
  <2> LocRests(t)
    BY LocIdle DEF GoIdle, LocRests
  <2> CorralTo(t, 0, 0)
    BY ExitFacts
  <2> ThreadOK(t)'
    BY DEF ThreadOK, RpcOK, PcTo, LocTo, CorralTo, LocRests
  <2> QED BY TameStep DEF LocRests
<1> CASE /\ EnterRegion(t, PAUSE) /\ Goto(t, "swap")
         /\ \E e \in BOOLEAN : loc' = [loc EXCEPT ![t].empty = e, ![t].then = "leave"]
  <2> PcTo(t, "swap") /\ "leave" \in Labels
    BY GotoFacts DEF Labels
  <2> LocTo(t, loc[t].tx, loc[t].verdict, loc[t].batch, loc[t].finals, loc[t].children, "leave")
    BY LocLoop
  <2> CorralTo(t, PAUSE, 2)
    BY EnterFacts
  <2> ThreadOK(t)'
    BY DEF ThreadOK, RpcOK, PcTo, LocTo, CorralTo
  <2> QED BY TameStep
<1> QED BY <1>2

\* FlushTxAdmission goes round again or ends.
LEMMA FlushDecideTame ==
    ASSUME Types, NEW t \in Rpcs, ThreadOK(t), FlushDecide(t)
    PROVE  Tame(t) /\ LocRests(t) /\ pc'[t] \in {"idle", "again"}
<1> t \in Threads
  BY Kinds
<1> pc[t] = "decide"
  BY DEF FlushDecide
<1> RpcOK(t) /\ depth[t] = 1 /\ holds[t] = PAUSE
  BY DEF ThreadOK, RpcOK
<1> /\ ExitRegion(t) /\ loc' = [loc EXCEPT ![t] = Idle]
    /\ Goto(t, "idle") \/ Goto(t, "again")
  BY DEF FlushDecide, GoIdle
<1>3. PoolTypes' /\ env' = env
  BY PoolTypesSame DEF FlushDecide
<1>4. t \notin Workers /\ t \notin Committers /\ t \notin Validators
  BY Kinds
<1> PICK label \in {"idle", "again"} : PcTo(t, label)
  BY GotoFacts DEF Labels
<1> LocRests(t)
  BY LocIdle DEF LocRests
<1> CorralTo(t, 0, 0)
  BY ExitFacts
<1>8. ThreadOK(t)' /\ pc'[t] \in {"idle", "again"}
  BY <1>4
     DEF ThreadOK, RpcOK, PcTo, LocTo, CorralTo, LocRests
<1> QED BY <1>3, <1>8, TameStep DEF LocRests

-----------------------------------------------------------------------------
(* The invariant                                                           *)

\* v has found a tip to disconnect.
Rewinding(v) ==
    \/ pc[v] \in {"pause", "swap", "requeue"} /\ loc[v].then = "rewind"
    \/ pc[v] = "rewind"

\* r holds cs_accept.
Accepting(r) ==
    \/ pc[r] \in {"insert", "accepted"}
    \/ pc[r] \in {"swap", "requeue"} /\ loc[r].then = "accepted"

\* A call of sendrawtransaction has put its transaction into the commit queue
\* and has not committed it.
SendingAt(r) == pc[r] = "swap" /\ loc[r].then = "accepted"

\* Somebody commits the transaction of a sendrawtransaction; and it is x.
Sending == \E r \in Rpcs : SendingAt(r)
Sends(x) == \E r \in Rpcs : SendingAt(r) /\ loc[r].tx = x

\* t has committed what was in the commit queue when it got into its region.
PastSwap(t) == pc[t] \in {"requeue", "leave", "flush", "remove", "rewind", "resubmit",
                          "accept", "insert", "accepted"}

\* What has been validated and will enter the commit queue.
Accepted == {loc[w].tx : w \in {x \in Workers : pc[x] = "apply" /\ loc[x].verdict = "accept"}}

\* What sendrawtransaction has validated and will insert.
Inserting == {loc[r].tx : r \in {x \in Rpcs : pc[x] = "insert"}}

\* Where everybody is.
Control ==
    /\ Types /\ OneRegion
    /\ \A t \in Threads : ThreadOK(t)
    /\ \A v \in Validators : Rewinding(v) => chain # <<>>

\* cs_accept is held from the check to the end of the commit.
AcceptLock == \A r \in Rpcs : Accepting(r) <=> csAccept = r

\* Whoever has committed in region COMMITMENT or PAUSE finds nothing in the
\* commit queue but what sendrawtransaction has put there and is about to commit.
Flushed == (\E t \in Threads : PastSwap(t)) => \A x \in commitQ : Sends(x)

\* What is in the txpool, is validated or waits for the commit spends nothing twice.
Unspent ==
    /\ \A t, u \in mempool : t # u => Disjoint(t, u)
    /\ \A t \in commitQ \cup Accepted \cup Inserting, u \in mempool : Disjoint(t, u)
    /\ \A t, u \in commitQ : t # u => Disjoint(t, u)

\* What belongs to the round that the filter was set up for.
Taken == InFlight \cup (IF Sending THEN {} ELSE commitQ)

\* What is taken and what is ready spend different outputs, all of them known to
\* the filter.
Round ==
    /\ queues \in QueueType /\ Separate(queues)
    /\ \A t \in Taken : Covered(queues, t)
    /\ \A t \in Taken, u \in Ready(queues) : Disjoint(t, u)
    /\ \A t, u \in Taken : t # u => Disjoint(t, u)
    /\ \A w, x \in Workers : w # x /\ pc[w] = "apply" /\ pc[x] = "apply" => loc[w].tx # loc[x].tx
    /\ ~Sending => \A w \in Workers : pc[w] = "apply" => loc[w].tx \notin commitQ

\* The invariant.
Inv == Control /\ AcceptLock /\ Flushed /\ Unspent /\ Round

-----------------------------------------------------------------------------
(* What the corral implies, and steps that matter little                   *)

\* Workers are in the corral alone.
LEMMA WorkersAlone ==
    ASSUME Control, NEW w \in Workers, pc[w] \in {"take", "apply"}
    PROVE  /\ \A t \in Threads : ~PastSwap(t) /\ pc[t] # "swap"
           /\ ~Sending /\ Inserting = {}
<1> ASSUME NEW t \in Threads, PastSwap(t) \/ pc[t] = "swap"
    PROVE  FALSE
  <2>1. depth[w] > 0 /\ holds[w] = PROCESSING /\ w \in Threads
    <3> WorkerOK(w) /\ w \in Threads
      BY Kinds DEF Control, ThreadOK
    <3> depth[w] = 1 /\ holds[w] = PROCESSING
      BY DEF WorkerOK
    <3> QED BY SMTT(60)
  <2>2. depth[t] > 0 /\ holds[t] \in {COMMITMENT, PAUSE}
    <3> ThreadOK(t) /\ (t \in Workers \/ t \in Committers \/ t \in Validators \/ t \in Rpcs)
      BY AdmissionAssumption DEF Control
    <3> CASE t \in Workers
      BY DEF ThreadOK, WorkerOK, PastSwap
    <3> CASE t \in Committers
      BY SMTT(60) DEF ThreadOK, CommitterOK, PastSwap
    <3> CASE t \in Validators
      BY SMTT(60) DEF ThreadOK, ValidatorOK, PastSwap
    <3> CASE t \in Rpcs
      BY SMTT(60) DEF ThreadOK, RpcOK, PastSwap
    <3> QED OBVIOUS
  <2> QED BY <2>1, <2>2, SMTT(60) DEF Control, OneRegion, PROCESSING, COMMITMENT, PAUSE
<1>2. ~Sending /\ Inserting = {}
  BY Kinds DEF Sending, SendingAt, Inserting, PastSwap
<1> QED BY <1>2

\* Nobody validates while somebody commits or is past it.
LEMMA CommitAlone ==
    ASSUME Control, NEW t \in Threads, PastSwap(t) \/ pc[t] = "swap"
    PROVE  InFlight = {} /\ Accepted = {} /\ \A w \in Workers : pc[w] \notin {"take", "apply"}
<1>1. \A w \in Workers : pc[w] \notin {"take", "apply"}
  BY WorkersAlone
<1> QED BY <1>1 DEF InFlight, Accepted

\* A tame step keeps the control of all threads.
LEMMA ControlKept ==
    ASSUME Control, NEW t \in Threads, Tame(t), chain' = chain \/ t \in Validators,
           t \in Validators => (Rewinding(t)' => chain' # <<>>)
    PROVE  Control'
<1> Types' /\ OneRegion' /\ ThreadOK(t)' /\ env' = env
  BY DEF Tame, Control
<1>2. ASSUME NEW u \in Threads \ {t} PROVE ThreadOK(u)'
  <2> /\ pc'[u] = pc[u] /\ loc'[u] = loc[u] /\ holds'[u] = holds[u] /\ depth'[u] = depth[u]
      /\ ThreadOK(u)
    BY DEF Tame, Control
  <2> QED BY DEF ThreadOK, WorkerOK, CommitterOK, ValidatorOK, RpcOK, Connecting
<1> ASSUME NEW v \in Validators, Rewinding(v)' PROVE chain' # <<>>
  <2> CASE v = t
    OBVIOUS
  <2> CASE v # t
    <3> chain' = chain /\ v \in Threads \ {t}
      BY Kinds, AdmissionAssumption
    <3>2. pc'[v] = pc[v] /\ loc'[v] = loc[v]
      BY DEF Tame
    <3> QED BY <3>2 DEF Control, Rewinding
  <2> QED OBVIOUS
<1> QED BY <1>2 DEF Control

\* What a step that takes part neither in a round nor in a commit may change.
Quiet(t) ==
    /\ queues' = queues \/ Extended(queues, queues')
    /\ commitQ' \subseteq commitQ /\ mempool' \subseteq mempool
    /\ csAccept' = csAccept
    /\ pc'[t] \notin {"apply", "insert"}
    /\ t \in Rpcs => (Accepting(t)' <=> Accepting(t)) /\ ~SendingAt(t) /\ ~SendingAt(t)'
    /\ PastSwap(t)' => PastSwap(t)

\* What a quiet step leaves of the sets that Inv is about.
LEMMA QuietThreads ==
    ASSUME NEW t \in Threads, Tame(t), Quiet(t)
    PROVE  /\ \A r \in Rpcs : (Accepting(r)' <=> Accepting(r)) /\ (SendingAt(r)' <=> SendingAt(r))
           /\ Sending' <=> Sending
           /\ \A x : Sends(x) => Sends(x)'
           /\ \A u \in Threads : PastSwap(u)' => PastSwap(u)
           /\ InFlight' \subseteq InFlight /\ Accepted' \subseteq Accepted
           /\ Inserting' \subseteq Inserting
           /\ \A w \in Workers : pc'[w] = "apply" => pc[w] = "apply" /\ loc'[w] = loc[w]
<1> USE Kinds
<1> \A u \in Threads : u = t \/ (pc'[u] = pc[u] /\ loc'[u] = loc[u])
  BY DEF Tame
<1> \A r \in Rpcs : (Accepting(r)' <=> Accepting(r)) /\ (SendingAt(r)' <=> SendingAt(r))
  <2> TAKE r \in Rpcs
  <2> r \in Threads
    OBVIOUS
  <2> CASE r = t
    BY DEF Quiet
  <2> CASE r # t
    BY DEF Accepting, SendingAt
  <2> QED OBVIOUS
<1>3. Sending' <=> Sending
  BY DEF Sending
<1> ASSUME NEW x, Sends(x) PROVE Sends(x)'
  <2> PICK r \in Rpcs : SendingAt(r) /\ loc[r].tx = x
    BY DEF Sends
  <2> r # t /\ r \in Threads
    BY DEF Quiet
  <2> loc'[r] = loc[r]
    OBVIOUS
  <2> QED BY DEF Sends
<1>4. \A u \in Threads : PastSwap(u)' => PastSwap(u)
  BY DEF Quiet, PastSwap
<1>5. \A w \in Workers : pc'[w] = "apply" => pc[w] = "apply" /\ loc'[w] = loc[w]
  BY DEF Quiet
<1>6. \A r \in Rpcs : pc'[r] = "insert" => pc[r] = "insert" /\ loc'[r] = loc[r]
  BY DEF Quiet
<1> QED BY <1>3, <1>4, <1>5, <1>6 DEF InFlight, Accepted, Inserting

\* What is validated and what is to be inserted after a step of an RPC thread.
LEMMA RpcThreads ==
    ASSUME NEW t \in Rpcs, \A u \in Threads : u # t => pc'[u] = pc[u] /\ loc'[u] = loc[u]
    PROVE  /\ InFlight' = InFlight /\ Accepted' = Accepted
           /\ \A w \in Workers : pc'[w] = pc[w] /\ loc'[w] = loc[w]
           /\ Inserting' \subseteq Inserting \cup {loc'[t].tx}
           /\ pc'[t] # "insert" => Inserting' \subseteq Inserting
<1> \A w \in Workers : pc'[w] = pc[w] /\ loc'[w] = loc[w]
  BY Kinds
<1> \A r \in Rpcs : r # t => pc'[r] = pc[r] /\ loc'[r] = loc[r]
  BY Kinds
<1>3. InFlight' = InFlight
  BY DEF InFlight
<1>4. Accepted' = Accepted
  BY DEF Accepted
<1>5. Inserting' \subseteq Inserting \cup {loc'[t].tx}
  BY DEF Inserting
<1>6. pc'[t] # "insert" => Inserting' \subseteq Inserting
  BY DEF Inserting
<1> QED BY <1>3, <1>4, <1>5, <1>6

\* A quiet step keeps Inv.
LEMMA QuietStep ==
    ASSUME Inv, NEW t \in Threads, Tame(t), Quiet(t), chain' = chain \/ t \in Validators,
           t \in Validators => (Rewinding(t)' => chain' # <<>>)
    PROVE  Inv'
<1> /\ \A r \in Rpcs : (Accepting(r)' <=> Accepting(r)) /\ (SendingAt(r)' <=> SendingAt(r))
    /\ Sending' <=> Sending
    /\ \A x : Sends(x) => Sends(x)'
    /\ \A u \in Threads : PastSwap(u)' => PastSwap(u)
    /\ InFlight' \subseteq InFlight /\ Accepted' \subseteq Accepted
    /\ Inserting' \subseteq Inserting
    /\ \A w \in Workers : pc'[w] = "apply" => pc[w] = "apply" /\ loc'[w] = loc[w]
  BY QuietThreads
<1>1. Control'
  BY ControlKept DEF Inv
<1>2. AcceptLock'
  BY DEF Inv, AcceptLock, Quiet
<1>3. Flushed'
  BY DEF Inv, Flushed, Quiet
<1>4. Unspent'
  BY DEF Inv, Unspent, Quiet
<1> Taken' \subseteq Taken
  BY DEF Taken, Quiet
<1>6. Round'
  <2>1. /\ queues' \in QueueType /\ Separate(queues')
        /\ \A x \in Taken : Covered(queues', x)
        /\ \A x \in Taken, u \in Ready(queues') : Disjoint(x, u)
    <3> CASE queues' = queues
      BY DEF Inv, Round
    <3> CASE Extended(queues, queues')
      <4>1. \A x \in Taken : Covered(queues', x)
        BY DEF Inv, Round, Extended, Covered
      <4>2. ASSUME NEW x \in Taken, NEW u \in Ready(queues')
            PROVE  Disjoint(x, u)
        BY DEF Inv, Round, Extended, Covered, Unseen, Disjoint
      <4> QED BY <4>1, <4>2 DEF Extended
    <3> QED BY DEF Quiet
  <2>2. \A x, u \in Taken' : x # u => Disjoint(x, u)
    BY DEF Inv, Round
  <2>3. \A w, x \in Workers : w # x /\ pc'[w] = "apply" /\ pc'[x] = "apply"
                              => loc'[w].tx # loc'[x].tx
    BY DEF Inv, Round
  <2>4. ~Sending' => \A w \in Workers : pc'[w] = "apply" => loc'[w].tx \notin commitQ'
    BY DEF Inv, Round, Quiet
  <2> QED BY <2>1, <2>2, <2>3, <2>4 DEF Round
<1> QED BY <1>1, <1>2, <1>3, <1>4, <1>6 DEF Inv

\* What a step that goes to a label and keeps the round does to the sets.
LEMMA OthersStay ==
    ASSUME NEW t \in Threads, Tame(t)
    PROVE  /\ \A u \in Threads : u # t => /\ pc'[u] = pc[u] /\ loc'[u] = loc[u]
                                          /\ PastSwap(u)' <=> PastSwap(u)
           /\ \A r \in Rpcs : r # t => /\ Accepting(r)' <=> Accepting(r)
                                       /\ SendingAt(r)' <=> SendingAt(r)
           /\ (t \in Rpcs => ~SendingAt(t)) => \A x : Sends(x) => Sends(x)'
<1> \A u \in Threads : u # t => pc'[u] = pc[u] /\ loc'[u] = loc[u]
  BY DEF Tame
<1> ASSUME NEW u \in Threads, u # t PROVE PastSwap(u)' <=> PastSwap(u)
  BY DEF PastSwap
<1> ASSUME NEW r \in Rpcs, r # t
    PROVE  (Accepting(r)' <=> Accepting(r)) /\ (SendingAt(r)' <=> SendingAt(r))
  <2> pc'[r] = pc[r] /\ loc'[r] = loc[r]
    BY Kinds
  <2> QED BY DEF Accepting, SendingAt
<1> ASSUME t \in Rpcs => ~SendingAt(t), NEW x, Sends(x) PROVE Sends(x)'
  <2> PICK r \in Rpcs : SendingAt(r) /\ loc[r].tx = x
    BY DEF Sends
  <2> r # t /\ r \in Threads
    BY Kinds
  <2>3. loc'[r] = loc[r]
    OBVIOUS
  <2> QED BY <2>3 DEF Sends
<1> QED OBVIOUS

\* cs_accept: nobody inserts while another thread is sending, and at most one does.
LEMMA OneAccepts ==
    ASSUME Inv, NEW r \in Rpcs, pc[r] \in {"insert", "accepted"}
    PROVE  csAccept = r /\ ~Sending /\ commitQ = {}
<1> csAccept = r
  BY DEF Inv, AcceptLock, Accepting
<1>2. ~Sending
  BY DEF Inv, AcceptLock, Accepting, Sending, SendingAt
<1> QED BY <1>2, Kinds DEF Inv, Flushed, PastSwap, Sends, Sending

\* An accepted transaction spends nothing that the txpool spends.
LEMMA AcceptedIsFresh ==
    ASSUME NEW x, "accept" \in Verdicts(x) PROVE \A u \in mempool : Disjoint(x, u)
<1>1. ~IsRespend(x)
  BY DEF Verdicts
<1> QED BY <1>1 DEF IsRespend, SpentBy, Disjoint

\* Every transaction spends something, so none is disjoint from itself.
LEMMA HasInputs == ASSUME NEW x \in Txs PROVE ~Disjoint(x, x)
<1>1. Spends[x] \in Seq(Range(Spends[x])) /\ Spends[x] # <<>>
  BY QueuesAssumption
<1>2. 1 \in DOMAIN Spends[x]
  BY <1>1, SMTT(60)
<1> QED BY <1>2 DEF Disjoint, Inputs, Range

-----------------------------------------------------------------------------
(* The invariant is inductive                                              *)

\* PopTx takes the head of one of the two queues.
LEMMA TakePops ==
    ASSUME Types, queues \in QueueType, NEW t \in Workers, WorkerTake(t)
    PROVE  /\ queues' \in QueueType
           /\ Pops(queues, queues', IF queues.orphan # <<>> THEN "orphan" ELSE "in")
<1> DEFINE q == queues
<1>1. queues' = [queues EXCEPT !.orphan = IF queues.orphan # <<>> THEN Tail(@) ELSE @,
                               !.in = IF queues.orphan # <<>> THEN @ ELSE Tail(@)]
  BY DEF WorkerTake
<1> q.orphan # <<>> \/ q.in # <<>>
  BY DEF WorkerTake, Queued
<1> /\ q.in \in Seq(Txs) /\ q.orphan \in Seq(Txs) /\ q.defer \in Seq(Txs)
    /\ q.conflicts \in SUBSET UNION Range(Bits)
    /\ q = [in |-> q.in, orphan |-> q.orphan, defer |-> q.defer, conflicts |-> q.conflicts]
  BY DEF QueueType
<1> queues' = [in |-> IF q.orphan # <<>> THEN q.in ELSE Tail(q.in),
               orphan |-> IF q.orphan # <<>> THEN Tail(q.orphan) ELSE q.orphan,
               defer |-> q.defer, conflicts |-> q.conflicts]
  BY <1>1
<1>5. /\ (IF q.orphan # <<>> THEN q.in ELSE Tail(q.in)) \in Seq(Txs)
      /\ (IF q.orphan # <<>> THEN Tail(q.orphan) ELSE q.orphan) \in Seq(Txs)
  BY SMTT(60)
<1>6. queues' \in QueueType
  BY <1>5 DEF QueueType
<1>7. /\ queues'.in = IF q.orphan # <<>> THEN q.in ELSE Tail(q.in)
      /\ queues'.orphan = IF q.orphan # <<>> THEN Tail(q.orphan) ELSE q.orphan
      /\ queues'.defer = q.defer /\ queues'.conflicts = q.conflicts
  OBVIOUS
<1> QED BY <1>6, <1>7 DEF Pops

\* The initial states.
LEMMA InitInv == Init => Inv
<1> USE Kinds
<1> SUFFICES ASSUME Init PROVE Inv
  OBVIOUS
<1> \A t \in Threads : pc[t] = "idle" /\ loc[t] = Idle /\ depth[t] = 0
  BY DEF Init, CorralInit
<1> Idle \in Locals /\ Idle.batch = {} /\ "idle" \in Labels
  BY DEF Idle, Locals, Labels
<1>3. Types
  <2> chain \in Seq(env.blocks) /\ vProcessOrphans \in Seq(SUBSET Txs)
        /\ vPostBlock \in Seq(SUBSET Txs)
    BY SMTT(60) DEF Init
  <2> pc \in [Threads -> Labels] /\ loc \in [Threads -> Locals]
    BY DEF Init
  <2>3. holds \in [Threads -> Regions \cup {0}] /\ depth \in [Threads -> Nat]
    BY DEF Init, CorralInit
  <2> QED BY <2>3 DEF Init, Types
<1>4. \A t \in Threads : ThreadOK(t)
  BY DEF ThreadOK, WorkerOK, CommitterOK, ValidatorOK, Connecting, RpcOK
<1>5. Control
  <2> OneRegion /\ \A v \in Validators : ~Rewinding(v)
    BY SMTT(60) DEF OneRegion, Rewinding
  <2> QED BY <1>3, <1>4 DEF Control
<1>6. AcceptLock /\ Flushed /\ ~Sending
  BY AdmissionAssumption DEF Init, AcceptLock, Accepting, Flushed, PastSwap, Sending, SendingAt
<1> InFlight = {} /\ commitQ = {} /\ mempool = {}
  BY DEF InFlight, Init
<1>8. Unspent
  BY DEF Unspent
<1>9. Round
  <2> queues \in QueueType /\ Separate(queues)
    BY EmptyIsGood DEF Init
  <2> Taken = {} /\ \A w \in Workers : pc[w] # "apply"
    BY DEF Taken
  <2> QED BY DEF Round
<1> QED BY <1>5, <1>6, <1>8, <1>9 DEF Inv

\* Nothing happens.
LEMMA StutterInv == ASSUME Inv, UNCHANGED vars PROVE Inv'
<1> UNCHANGED <<queues, commitQ, mempool, chain, mapOrphans, mapNonFinals, recentRejects,
                txRecentlyInBlock, known, vProcessOrphans, vPostBlock, csAccept,
                pc, loc, env, holds, depth>>
  BY DEF vars
<1>2. Control'
  <2>1. Types' /\ OneRegion' /\ \A v \in Validators : Rewinding(v)' => chain' # <<>>
    BY DEF Inv, Control, Types, OneRegion, Rewinding
  <2>2. ASSUME NEW t \in Threads PROVE ThreadOK(t)'
    <3>1. ThreadOK(t)
      BY DEF Inv, Control
    <3> QED BY <3>1 DEF ThreadOK, WorkerOK, CommitterOK, ValidatorOK, Connecting, RpcOK
  <2> QED BY <2>1, <2>2 DEF Control
<1> AcceptLock' /\ Flushed' /\ (Sending' <=> Sending)
  BY DEF Inv, AcceptLock, Flushed, Accepting, Sending, Sends, SendingAt, PastSwap
<1> InFlight' = InFlight /\ Accepted' = Accepted /\ Inserting' = Inserting
  BY DEF InFlight, Accepted, Inserting
<1>6. Unspent'
  BY DEF Inv, Unspent
<1>7. Taken' = Taken
  BY DEF Taken
<1>8. Round'
  BY <1>7 DEF Inv, Round
<1> QED BY <1>2, <1>6, <1>8 DEF Inv

\* The transactions of a block, in some order.
LEMMA OrdersAreSeqs ==
    ASSUME NEW S \in SUBSET Txs, NEW s \in Orders(S)
    PROVE  s \in Seq(Txs) /\ Range(s) = S
<1>1. Cardinality(S) \in Nat
  BY AdmissionAssumption
<1> QED BY <1>1, SMTT(60) DEF Orders

\* Inv is inductive: each action keeps it.
LEMMA NextInv == ASSUME EnqueueAllOK, Inv PROVE Next => Inv'

\* The first half of _CommitTxToMempool moves the commit queue into the txpool.
<1>CommitSwap. ASSUME NEW t \in Committers \cup Validators \cup Rpcs, CommitSwap(t) PROVE Inv'
  <2> USE <1>CommitSwap
  <2> USE Kinds
  <2> t \in Threads /\ Control /\ Types /\ ThreadOK(t) /\ pc[t] = "swap" /\ t \notin Workers
    BY DEF Inv, Control, CommitSwap
  <2> Tame(t) /\ pc'[t] = "requeue" /\ loc'[t].then = loc[t].then
    BY CommitSwapTame DEF PcTo, LocTo, LocKeeps
  <2> /\ queues' = queues /\ commitQ' = {} /\ mempool' = mempool \cup commitQ
      /\ csAccept' = csAccept /\ chain' = chain
    BY DEF CommitSwap
  <2>3. InFlight = {} /\ Accepted = {} /\ \A w \in Workers : pc[w] \notin {"take", "apply"}
    BY CommitAlone
  <2> /\ \A u \in Threads : u # t => pc'[u] = pc[u] /\ loc'[u] = loc[u]
      /\ \A r \in Rpcs : r # t => (Accepting(r)' <=> Accepting(r))
    BY OthersStay
  <2> InFlight' = {} /\ Accepted' = {} /\ \A w \in Workers : pc'[w] # "apply"
    BY <2>3 DEF InFlight, Accepted
  <2>6. Inserting' \subseteq Inserting /\ (Inserting # {} => commitQ = {})
    BY OneAccepts DEF Inserting
  <2>7. Control'
    <3> t \in Validators => (Rewinding(t)' => chain' # <<>>)
      BY DEF Rewinding, Control
    <3> QED BY ControlKept
  <2>8. AcceptLock'
    <3> t \in Rpcs => (Accepting(t)' <=> Accepting(t))
      BY DEF Accepting
    <3> QED BY DEF Inv, AcceptLock
  <2>9. Flushed'
    BY DEF Flushed
  <2>10. Unspent'
    BY <2>6 DEF Inv, Unspent, Disjoint
  <2>11. Taken' = {}
    BY DEF Taken
  <2>12. Round'
    BY <2>11 DEF Inv, Round
  <2> QED BY <2>7, <2>8, <2>9, <2>10, <2>12 DEF Inv

\* The second half starts a round with new queues, of which more later.
<1>CommitRequeueIf. ASSUME NEW t \in Committers \cup Validators \cup Rpcs, CommitRequeue(t),
                           queues' \in QueueType, Separate(queues')
                    PROVE  Inv'
  <2> USE <1>CommitRequeueIf
  <2> USE Kinds
  <2> t \in Threads /\ Control /\ Types /\ ThreadOK(t) /\ pc[t] = "requeue" /\ t \notin Workers
    BY DEF Inv, Control, CommitRequeue
  <2> Tame(t) /\ pc'[t] = loc[t].then /\ loc'[t].then = loc[t].then
    BY CommitRequeueTame DEF PcTo, LocTo, LocKeeps
  <2> commitQ' = commitQ /\ mempool' = mempool /\ csAccept' = csAccept /\ chain' = chain
    BY DEF CommitRequeue
  <2>3. InFlight = {} /\ Accepted = {} /\ \A w \in Workers : pc[w] \notin {"take", "apply"}
    BY CommitAlone DEF PastSwap
  <2> /\ \A u \in Threads : u # t => pc'[u] = pc[u] /\ loc'[u] = loc[u]
      /\ \A r \in Rpcs : r # t => /\ Accepting(r)' <=> Accepting(r)
                                  /\ SendingAt(r)' <=> SendingAt(r)
    BY OthersStay
  <2> InFlight' = {} /\ Accepted' = {} /\ \A w \in Workers : pc'[w] # "apply"
    BY <2>3 DEF InFlight, Accepted
  <2> /\ loc[t].then \in {"leave", "flush", "rewind", "accept", "accepted"}
      /\ t \in Validators => loc[t].then \in {"flush", "rewind"}
    BY DEF ThreadOK, CommitterOK, ValidatorOK, RpcOK
  <2>6. Inserting' \subseteq Inserting
    BY DEF Inserting
  <2>7. Control'
    <3> t \in Validators => (Rewinding(t)' => chain' # <<>>)
      BY DEF Rewinding, Control
    <3> QED BY ControlKept
  <2> AcceptLock' /\ (Sending' <=> Sending)
    <3> t \in Rpcs => (Accepting(t)' <=> Accepting(t)) /\ (SendingAt(t)' <=> SendingAt(t))
      BY DEF Accepting, SendingAt
    <3> QED BY DEF Inv, AcceptLock, Sending
  <2> (\A x \in commitQ : Sends(x)) /\ (commitQ = {} \/ Sending)
    <3> \A x \in commitQ : Sends(x)
      BY DEF Inv, Flushed, PastSwap
    <3> QED BY DEF Sends, Sending
  <2>10. Flushed'
    <3> t \in Rpcs => ~SendingAt(t)
      BY DEF SendingAt
    <3>2. \A x : Sends(x) => Sends(x)'
      BY OthersStay
    <3> QED BY <3>2 DEF Flushed
  <2>11. Unspent'
    BY <2>6 DEF Inv, Unspent
  <2>12. Taken' = {}
    BY DEF Taken
  <2>13. Round'
    BY <2>12 DEF Round
  <2> QED BY <2>7, <2>10, <2>11, <2>13 DEF Inv

\* A worker takes x from the queues.
<1>Verdict. ASSUME NEW t \in Workers, Tame(t), pc[t] = "take", NEW x \in Ready(queues),
                   Extended(queues, queues'), \A u \in Ready(queues') : Disjoint(x, u), x \in Txs,
                   Ready(queues') \subseteq Ready(queues), NEW v \in Verdicts(x),
                   pc'[t] = "apply", loc'[t].tx = x, loc'[t].verdict = v,
                   UNCHANGED <<commitQ, mempool, csAccept, chain>>
            PROVE  Inv'
  <2> USE <1>Verdict
  <2> USE Kinds
  <2> t \in Threads /\ Control /\ ~Sending /\ t \notin Rpcs /\ t \notin Validators
    BY WorkersAlone DEF Inv
  <2> /\ \A u \in Threads : u # t => /\ pc'[u] = pc[u] /\ loc'[u] = loc[u]
                                     /\ PastSwap(u)' <=> PastSwap(u)
      /\ \A r \in Rpcs : (Accepting(r)' <=> Accepting(r)) /\ (SendingAt(r)' <=> SendingAt(r))
    BY OthersStay
  <2>2. ~Sending' /\ AcceptLock'
    BY DEF Inv, AcceptLock, Sending
  <2>3. Control'
    BY ControlKept
  <2>4. Flushed'
    BY WorkersAlone DEF Flushed, PastSwap
  <2>5. /\ InFlight' \subseteq InFlight \cup {x} /\ Inserting' \subseteq Inserting
        /\ Accepted' \subseteq Accepted \cup (IF v = "accept" THEN {x} ELSE {})
    BY DEF InFlight, Accepted, Inserting
  <2>6. Unspent'
    BY <2>5, AcceptedIsFresh DEF Inv, Unspent
  <2>7. Taken' \subseteq Taken \cup {x} /\ x \notin Taken
    <3>1. x \notin Taken
      BY HasInputs DEF Inv, Round
    <3> QED BY <2>2, <2>5, <3>1 DEF Taken
  <2>8. Round'
    <3>1. \A u \in Taken \cup {x} : Covered(queues', u)
      <4>1. \A u \in Taken \cup {x} : Covered(queues, u)
        BY DEF Inv, Round, Separate
      <4> QED BY <4>1 DEF Extended, Covered
    <3>2. \A u \in Taken \cup {x}, y \in Ready(queues') : Disjoint(u, y)
      BY DEF Inv, Round
    <3>3. \A u, y \in Taken \cup {x} : u # y => Disjoint(u, y)
      BY DisjointSym DEF Inv, Round
    <3>4. \A w \in Workers : w # t /\ pc'[w] = "apply" => loc'[w].tx \in Taken
      BY DEF Taken, InFlight
    <3>5. \A w, y \in Workers : w # y /\ pc'[w] = "apply" /\ pc'[y] = "apply"
                                => loc'[w].tx # loc'[y].tx
      BY <2>7, <3>4 DEF Inv, Round
    <3>6. \A w \in Workers : pc'[w] = "apply" => loc'[w].tx \notin commitQ'
      <4>1. commitQ \subseteq Taken
        BY DEF Taken
      <4> QED BY <2>7, <4>1 DEF Inv, Round
    <3> QED BY <2>7, <3>1, <3>2, <3>3, <3>5, <3>6 DEF Round, Extended
  <2> QED BY <2>2, <2>3, <2>4, <2>6, <2>8 DEF Inv

\* The worker puts what it has accepted into the commit queue.
<1>WorkerApply. ASSUME NEW t \in Workers, WorkerApply(t) PROVE Inv'
  <2> USE <1>WorkerApply
  <2> USE Kinds
  <2> DEFINE x == loc[t].tx
  <2>0. /\ t \in Threads /\ Control /\ Types /\ ThreadOK(t) /\ pc[t] = "apply"
        /\ t \notin Rpcs /\ t \notin Validators
    BY DEF Inv, Control, WorkerApply
  <2>1. Tame(t) /\ pc'[t] \in {"take", "idle"}
    BY <2>0, WorkerApplyTame
  <2>2. /\ queues' = queues /\ mempool' = mempool /\ csAccept' = csAccept /\ chain' = chain
        /\ commitQ' = commitQ \cup (IF loc[t].verdict = "accept" THEN {x} ELSE {})
    BY DEF WorkerApply
  <2>3. ~Sending /\ Inserting = {} /\ \A u \in Threads : ~PastSwap(u)
    BY <2>0, WorkersAlone
  <2>4. /\ \A u \in Threads : u # t => /\ pc'[u] = pc[u] /\ loc'[u] = loc[u]
                                       /\ PastSwap(u)' <=> PastSwap(u)
        /\ \A r \in Rpcs : (Accepting(r)' <=> Accepting(r)) /\ (SendingAt(r)' <=> SendingAt(r))
    BY <2>0, <2>1, OthersStay
  <2>5. ~Sending' /\ AcceptLock'
    BY <2>2, <2>3, <2>4 DEF Inv, AcceptLock, Sending
  <2>6. Control'
    BY <2>0, <2>1, <2>2, ControlKept
  <2>7. Flushed'
    BY <2>1, <2>3, <2>4 DEF Flushed, PastSwap
  <2>8. /\ InFlight' \subseteq InFlight /\ Accepted' \subseteq Accepted
        /\ Inserting' \subseteq Inserting /\ x \in InFlight
        /\ loc[t].verdict = "accept" => x \in Accepted
    BY <2>0, <2>1, <2>4 DEF InFlight, Accepted, Inserting
  <2>9. Taken = InFlight \cup commitQ /\ Taken' \subseteq Taken
    BY <2>2, <2>3, <2>5, <2>8 DEF Taken
  <2>10. Unspent'
    <3>1. commitQ' = commitQ \/ (commitQ' = commitQ \cup {x} /\ x \in Accepted)
      BY <2>2, <2>8
    <3>2. commitQ' \subseteq Taken
      BY <2>8, <2>9, <3>1
    <3>3. \A u, y \in Taken : u # y => Disjoint(u, y)
      BY DEF Inv, Round
    <3> QED BY <2>2, <2>8, <3>1, <3>2, <3>3 DEF Inv, Unspent
  <2>11. Round'
    <3>1. \A w, y \in Workers : w # y /\ pc'[w] = "apply" /\ pc'[y] = "apply"
                                => loc'[w].tx # loc'[y].tx
      BY <2>1, <2>4 DEF Inv, Round
    <3>2. \A w \in Workers : pc'[w] = "apply" => loc'[w].tx \notin commitQ'
      BY <2>0, <2>1, <2>2, <2>3, <2>4 DEF Inv, Round
    <3>3. /\ queues \in QueueType /\ Separate(queues)
          /\ \A u \in Taken : Covered(queues, u)
          /\ \A u \in Taken, y \in Ready(queues) : Disjoint(u, y)
          /\ \A u, y \in Taken : u # y => Disjoint(u, y)
      BY DEF Inv, Round
    <3>4. /\ \A u \in Taken' : Covered(queues, u)
          /\ \A u \in Taken', y \in Ready(queues) : Disjoint(u, y)
          /\ \A u, y \in Taken' : u # y => Disjoint(u, y)
      BY <2>9, <3>3
    <3> QED BY <2>2, <3>1, <3>2, <3>3, <3>4 DEF Round
  <2> QED BY <2>5, <2>6, <2>7, <2>10, <2>11 DEF Inv

\* sendrawtransaction validates, inserts and commits under cs_accept.
<1>AcceptCheck. ASSUME NEW t \in Rpcs, AcceptCheck(t) PROVE Inv'
  <2> USE <1>AcceptCheck
  <2> USE Kinds
  <2> DEFINE x == loc[t].tx
  <2> /\ t \in Threads /\ Control /\ Types /\ ThreadOK(t) /\ pc[t] = "accept"
      /\ t \notin Workers /\ t \notin Validators /\ NoThread \notin Threads
    BY AdmissionAssumption DEF Inv, Control, AcceptCheck
  <2> /\ Tame(t) /\ csAccept = NoThread
      /\ \/ /\ "accept" \in Verdicts(x)
            /\ csAccept' = t /\ PcTo(t, "insert") /\ LocKeeps(t)
         \/ csAccept' = csAccept /\ PcTo(t, "addorphan") /\ LocKeeps(t)
         \/ csAccept' = csAccept /\ PcTo(t, "idle") /\ LocRests(t)
    BY AcceptCheckTame
  <2> queues' = queues /\ commitQ' = commitQ /\ mempool' = mempool /\ chain' = chain
    BY DEF AcceptCheck
  <2>3. CASE csAccept' = csAccept /\ pc'[t] \in {"addorphan", "idle"}
    <3> Quiet(t)
      BY <2>3 DEF Quiet, Accepting, SendingAt, PastSwap
    <3> QED BY QuietStep
  <2> CASE /\ "accept" \in Verdicts(x) /\ csAccept' = t
           /\ pc'[t] = "insert" /\ loc'[t].tx = x
    <3> /\ \A u \in Threads : u # t => /\ pc'[u] = pc[u] /\ loc'[u] = loc[u]
                                       /\ PastSwap(u)' <=> PastSwap(u)
        /\ \A r \in Rpcs : r # t => /\ Accepting(r)' <=> Accepting(r)
                                    /\ SendingAt(r)' <=> SendingAt(r)
      BY OthersStay
    <3>2. AcceptLock'
      <4>1. \A r \in Rpcs : ~Accepting(r)
        BY DEF Inv, AcceptLock
      <4>2. Accepting(t)'
        BY DEF Accepting
      <4> QED BY <4>1, <4>2 DEF AcceptLock
    <3>3. Sending' <=> Sending
      BY DEF Sending, SendingAt
    <3>4. Control'
      BY ControlKept
    <3>5. Flushed'
      <4>1. \A y : Sends(y) => Sends(y)'
        BY OthersStay DEF SendingAt
      <4> QED BY <4>1 DEF Inv, Flushed, PastSwap
    <3>6. /\ InFlight' = InFlight /\ Accepted' = Accepted
          /\ Inserting' \subseteq Inserting \cup {x}
          /\ \A w \in Workers : pc'[w] = pc[w] /\ loc'[w] = loc[w]
      BY RpcThreads
    <3>7. Unspent'
      BY <3>6, AcceptedIsFresh DEF Inv, Unspent
    <3>8. Taken' = Taken
      BY <3>3, <3>6 DEF Taken
    <3>9. Round'
      BY <3>3, <3>6, <3>8 DEF Inv, Round
    <3> QED BY <3>2, <3>4, <3>5, <3>7, <3>9 DEF Inv
  <2> QED
    <3> LocKeeps(t) => loc'[t].tx = x
      BY DEF LocKeeps, LocTo
    <3>2. \A l : PcTo(t, l) => pc'[t] = l
      BY DEF PcTo
    <3> QED BY <2>3, <3>2
<1>AcceptInsert. ASSUME NEW t \in Rpcs, AcceptInsert(t) PROVE Inv'
  <2> USE <1>AcceptInsert
  <2> USE Kinds
  <2> DEFINE x == loc[t].tx
  <2> /\ t \in Threads /\ Control /\ Types /\ ThreadOK(t) /\ pc[t] = "insert"
      /\ t \notin Workers /\ t \notin Validators
    BY DEF Inv, Control, AcceptInsert
  <2> Tame(t) /\ pc'[t] = "swap" /\ loc'[t].then = "accepted" /\ loc'[t].tx = x
    BY AcceptInsertTame DEF PcTo, LocTo
  <2> /\ queues' = queues /\ mempool' = mempool /\ csAccept' = csAccept /\ chain' = chain
      /\ commitQ' = commitQ \cup {x}
    BY DEF AcceptInsert
  <2> csAccept = t /\ ~Sending /\ commitQ = {}
    BY OneAccepts
  <2> InFlight = {} /\ Accepted = {} /\ \A w \in Workers : pc[w] \notin {"take", "apply"}
    BY CommitAlone DEF PastSwap
  <2> /\ \A u \in Threads : u # t => pc'[u] = pc[u] /\ loc'[u] = loc[u]
      /\ \A r \in Rpcs : r # t => (Accepting(r)' <=> Accepting(r))
    BY OthersStay
  <2> InFlight' = {} /\ Accepted' = {} /\ Inserting' \subseteq Inserting /\ x \in Inserting
    <3>1. x \in Inserting
      BY DEF Inserting
    <3> QED BY <3>1, RpcThreads
  <2> Sending' /\ Flushed'
    <3> SendingAt(t)'
      BY DEF SendingAt
    <3> QED BY DEF Sending, Sends, Flushed
  <2>8. AcceptLock'
    <3> Accepting(t)' /\ Accepting(t)
      BY DEF Accepting
    <3> QED BY DEF Inv, AcceptLock
  <2>9. Control'
    BY ControlKept
  <2>10. Unspent'
    BY DEF Inv, Unspent
  <2>11. Taken' = {} /\ \A w \in Workers : pc'[w] # "apply"
    BY DEF Taken
  <2>12. Round'
    BY <2>11 DEF Inv, Round
  <2> QED BY <2>8, <2>9, <2>10, <2>12 DEF Inv
<1>AcceptDone. ASSUME NEW t \in Rpcs, AcceptDone(t) PROVE Inv'
  <2> USE <1>AcceptDone
  <2> USE Kinds
  <2>0. /\ t \in Threads /\ Control /\ Types /\ ThreadOK(t) /\ pc[t] = "accepted"
        /\ t \notin Workers /\ t \notin Validators /\ NoThread \notin Threads
    BY AdmissionAssumption DEF Inv, Control, AcceptDone
  <2>1. Tame(t) /\ pc'[t] = "limit"
    BY <2>0, AcceptDoneTame DEF PcTo
  <2>2. /\ queues' = queues /\ mempool' = mempool /\ csAccept' = NoThread /\ chain' = chain
        /\ commitQ' = commitQ
    BY DEF AcceptDone
  <2>3. csAccept = t /\ ~Sending /\ commitQ = {}
    BY <2>0, OneAccepts
  <2>5. /\ \A u \in Threads : u # t => /\ pc'[u] = pc[u] /\ loc'[u] = loc[u]
                                       /\ PastSwap(u)' <=> PastSwap(u)
        /\ \A r \in Rpcs : r # t => /\ Accepting(r)' <=> Accepting(r)
                                    /\ SendingAt(r)' <=> SendingAt(r)
    BY <2>0, <2>1, OthersStay
  <2>6. /\ InFlight' = InFlight /\ Accepted' = Accepted /\ Inserting' \subseteq Inserting
        /\ \A w \in Workers : pc'[w] = pc[w] /\ loc'[w] = loc[w]
    BY <2>1, <2>5, RpcThreads
  <2>7. ~Sending' /\ Flushed'
    BY <2>1, <2>2, <2>3, <2>5 DEF Sending, SendingAt, Flushed
  <2>8. AcceptLock'
    <3>1. ~Accepting(t)'
      BY <2>1 DEF Accepting
    <3> QED BY <2>0, <2>2, <2>3, <2>5, <3>1 DEF Inv, AcceptLock
  <2>9. Control'
    BY <2>0, <2>1, <2>2, ControlKept
  <2>10. Unspent'
    BY <2>2, <2>6 DEF Inv, Unspent
  <2>11. Taken' = Taken
    BY <2>2, <2>3, <2>6, <2>7 DEF Taken
  <2>12. Round'
    BY <2>2, <2>3, <2>6, <2>7, <2>11 DEF Inv, Round
  <2> QED BY <2>7, <2>8, <2>9, <2>10, <2>12 DEF Inv
<1>WorkerEnter. ASSUME NEW t \in Workers, WorkerEnter(t) PROVE Inv'
  <2> USE <1>WorkerEnter
  <2> USE Kinds
  <2> t \in Threads /\ Control /\ Types /\ ThreadOK(t) /\ pc[t] = "idle"
    BY DEF Inv, Control, WorkerEnter
  <2> Tame(t) /\ pc'[t] = "take"
    BY WorkerEnterTame DEF PcTo, LocTo, LocKeeps
  <2> /\ queues' = queues /\ commitQ' \subseteq commitQ
      /\ mempool' \subseteq mempool /\ csAccept' = csAccept /\ chain' = chain
    BY DEF WorkerEnter
  <2>a. t \notin Rpcs
    OBVIOUS
  <2>3. Quiet(t)
    BY <2>a DEF Quiet, PastSwap
  <2>4. t \notin Validators
    OBVIOUS
  <2> QED BY <2>3, <2>4, QuietStep
<1>WorkerLeave. ASSUME NEW t \in Workers, WorkerLeave(t) PROVE Inv'
  <2> USE <1>WorkerLeave
  <2> USE Kinds
  <2> t \in Threads /\ Control /\ Types /\ ThreadOK(t) /\ pc[t] = "take"
    BY DEF Inv, Control, WorkerLeave
  <2> Tame(t) /\ pc'[t] = "idle"
    BY WorkerLeaveTame DEF PcTo, LocTo, LocKeeps
  <2> /\ queues' = queues /\ commitQ' \subseteq commitQ
      /\ mempool' \subseteq mempool /\ csAccept' = csAccept /\ chain' = chain
    BY DEF WorkerLeave
  <2>a. t \notin Rpcs
    OBVIOUS
  <2>3. Quiet(t)
    BY <2>a DEF Quiet, PastSwap
  <2>4. t \notin Validators
    OBVIOUS
  <2> QED BY <2>3, <2>4, QuietStep
<1>CommitterEnter. ASSUME NEW t \in Committers, CommitterEnter(t) PROVE Inv'
  <2> USE <1>CommitterEnter
  <2> USE Kinds
  <2> t \in Threads /\ Control /\ Types /\ ThreadOK(t) /\ pc[t] = "idle"
    BY DEF Inv, Control, CommitterEnter
  <2> Tame(t) /\ pc'[t] = "swap"
    BY CommitterEnterTame DEF PcTo, LocTo, LocKeeps
  <2> /\ queues' = queues /\ commitQ' \subseteq commitQ
      /\ mempool' \subseteq mempool /\ csAccept' = csAccept /\ chain' = chain
    BY DEF CommitterEnter
  <2>a. t \notin Rpcs
    OBVIOUS
  <2>3. Quiet(t)
    BY <2>a DEF Quiet, PastSwap
  <2>4. t \notin Validators
    OBVIOUS
  <2> QED BY <2>3, <2>4, QuietStep
<1>LeaveCorral. ASSUME NEW t \in Committers \cup Rpcs, LeaveCorral(t) PROVE Inv'
  <2> USE <1>LeaveCorral
  <2> t \in Threads /\ Control /\ Types /\ ThreadOK(t) /\ pc[t] = "leave"
    BY Kinds DEF Inv, Control, LeaveCorral
  <2> Tame(t) /\ pc'[t] = "blocks"
    BY LeaveCorralTame DEF PcTo, LocTo, LocKeeps
  <2> /\ queues' = queues /\ commitQ' \subseteq commitQ
      /\ mempool' \subseteq mempool /\ csAccept' = csAccept /\ chain' = chain
    BY DEF LeaveCorral
  <2>a. t \in Rpcs => (Accepting(t)' <=> Accepting(t)) /\ ~SendingAt(t) /\ ~SendingAt(t)'
    BY DEF Accepting, SendingAt
  <2>3. Quiet(t)
    BY <2>a DEF Quiet, PastSwap
  <2>4. t \notin Validators
    BY Kinds
  <2> QED BY <2>3, <2>4, QuietStep
<1>NextBlock. ASSUME NEW t \in Committers \cup Rpcs, NextBlock(t) PROVE Inv'
  <2> USE <1>NextBlock
  <2> t \in Threads /\ Control /\ Types /\ ThreadOK(t) /\ pc[t] = "blocks"
    BY Kinds DEF Inv, Control, NextBlock
  <2> Tame(t) /\ pc'[t] = "collect"
    BY NextBlockTame DEF PcTo, LocTo, LocKeeps
  <2> /\ queues' = queues /\ commitQ' \subseteq commitQ
      /\ mempool' \subseteq mempool /\ csAccept' = csAccept /\ chain' = chain
    BY DEF NextBlock
  <2>a. t \in Rpcs => (Accepting(t)' <=> Accepting(t)) /\ ~SendingAt(t) /\ ~SendingAt(t)'
    BY DEF Accepting, SendingAt
  <2>3. Quiet(t)
    BY <2>a DEF Quiet, PastSwap
  <2>4. t \notin Validators
    BY Kinds
  <2> QED BY <2>3, <2>4, QuietStep
<1>NextBatch. ASSUME NEW t \in Committers \cup Rpcs, NextBatch(t) PROVE Inv'
  <2> USE <1>NextBatch
  <2> t \in Threads /\ Control /\ Types /\ ThreadOK(t) /\ pc[t] \in {"blocks", "batches"}
    BY Kinds DEF Inv, Control, NextBatch
  <2> Tame(t) /\ pc'[t] = "collect"
    BY NextBatchTame DEF PcTo, LocTo, LocKeeps
  <2> /\ queues' = queues /\ commitQ' \subseteq commitQ
      /\ mempool' \subseteq mempool /\ csAccept' = csAccept /\ chain' = chain
    BY DEF NextBatch
  <2>a. t \in Rpcs => (Accepting(t)' <=> Accepting(t)) /\ ~SendingAt(t) /\ ~SendingAt(t)'
    BY DEF Accepting, SendingAt
  <2>3. Quiet(t)
    BY <2>a DEF Quiet, PastSwap
  <2>4. t \notin Validators
    BY Kinds
  <2> QED BY <2>3, <2>4, QuietStep
<1>NoMoreBatches. ASSUME NEW t \in Committers \cup Rpcs, NoMoreBatches(t) PROVE Inv'
  <2> USE <1>NoMoreBatches
  <2> t \in Threads /\ Control /\ Types /\ ThreadOK(t) /\ pc[t] \in {"blocks", "batches"}
    BY Kinds DEF Inv, Control, NoMoreBatches
  <2> Tame(t) /\ pc'[t] \in {"limit", "decide"}
    BY NoMoreBatchesTame DEF PcTo, LocTo, LocKeeps
  <2> /\ queues' = queues /\ commitQ' \subseteq commitQ
      /\ mempool' \subseteq mempool /\ csAccept' = csAccept /\ chain' = chain
    BY DEF NoMoreBatches
  <2>a. t \in Rpcs => (Accepting(t)' <=> Accepting(t)) /\ ~SendingAt(t) /\ ~SendingAt(t)'
    BY DEF Accepting, SendingAt
  <2>3. Quiet(t)
    BY <2>a DEF Quiet, PastSwap
  <2>4. t \notin Validators
    BY Kinds
  <2> QED BY <2>3, <2>4, QuietStep
<1>Collect. ASSUME NEW t \in Committers \cup Rpcs, Collect(t) PROVE Inv'
  <2> USE <1>Collect
  <2> t \in Threads /\ Control /\ Types /\ ThreadOK(t) /\ pc[t] = "collect"
    BY Kinds DEF Inv, Control, Collect
  <2> Tame(t) /\ pc'[t] = "erase"
    BY CollectTame DEF PcTo, LocTo, LocKeeps
  <2> /\ queues' = queues /\ commitQ' \subseteq commitQ
      /\ mempool' \subseteq mempool /\ csAccept' = csAccept /\ chain' = chain
    BY DEF Collect
  <2>a. t \in Rpcs => (Accepting(t)' <=> Accepting(t)) /\ ~SendingAt(t) /\ ~SendingAt(t)'
    BY DEF Accepting, SendingAt
  <2>3. Quiet(t)
    BY <2>a DEF Quiet, PastSwap
  <2>4. t \notin Validators
    BY Kinds
  <2> QED BY <2>3, <2>4, QuietStep
<1>Erase. ASSUME NEW t \in Committers \cup Rpcs, Erase(t) PROVE Inv'
  <2> USE <1>Erase
  <2> t \in Threads /\ Control /\ Types /\ ThreadOK(t) /\ pc[t] = "erase"
    BY Kinds DEF Inv, Control, Erase
  <2> Tame(t) /\ pc'[t] = "enqueue"
    BY EraseTame DEF PcTo, LocTo, LocKeeps
  <2> /\ queues' = queues /\ commitQ' \subseteq commitQ
      /\ mempool' \subseteq mempool /\ csAccept' = csAccept /\ chain' = chain
    BY DEF Erase
  <2>a. t \in Rpcs => (Accepting(t)' <=> Accepting(t)) /\ ~SendingAt(t) /\ ~SendingAt(t)'
    BY DEF Accepting, SendingAt
  <2>3. Quiet(t)
    BY <2>a DEF Quiet, PastSwap
  <2>4. t \notin Validators
    BY Kinds
  <2> QED BY <2>3, <2>4, QuietStep
<1>LimitMempoolSize. ASSUME NEW t \in Committers \cup Rpcs, LimitMempoolSize(t) PROVE Inv'
  <2> USE <1>LimitMempoolSize
  <2> t \in Threads /\ Control /\ Types /\ ThreadOK(t) /\ pc[t] = "limit"
    BY Kinds DEF Inv, Control, LimitMempoolSize
  <2> Tame(t) /\ pc'[t] = "idle"
    BY LimitMempoolSizeTame DEF PcTo, LocTo, LocKeeps
  <2> /\ queues' = queues /\ commitQ' \subseteq commitQ
      /\ mempool' \subseteq mempool /\ csAccept' = csAccept /\ chain' = chain
    BY DEF LimitMempoolSize
  <2>a. t \in Rpcs => (Accepting(t)' <=> Accepting(t)) /\ ~SendingAt(t) /\ ~SendingAt(t)'
    BY DEF Accepting, SendingAt
  <2>3. Quiet(t)
    BY <2>a DEF Quiet, PastSwap
  <2>4. t \notin Validators
    BY Kinds
  <2> QED BY <2>3, <2>4, QuietStep
<1>PauseEnter. ASSUME NEW t \in Validators \cup Rpcs, PauseEnter(t) PROVE Inv'
  <2> USE <1>PauseEnter
  <2> t \in Threads /\ Control /\ Types /\ ThreadOK(t) /\ pc[t] = "pause"
    BY Kinds DEF Inv, Control, PauseEnter
  <2> Tame(t) /\ pc'[t] = "swap" /\ loc'[t].then = loc[t].then
    BY PauseEnterTame DEF PcTo, LocTo, LocKeeps
  <2> /\ queues' = queues /\ commitQ' \subseteq commitQ
      /\ mempool' \subseteq mempool /\ csAccept' = csAccept /\ chain' = chain
    BY DEF PauseEnter
  <2>a. t \in Rpcs => (Accepting(t)' <=> Accepting(t)) /\ ~SendingAt(t) /\ ~SendingAt(t)'
    BY DEF Accepting, SendingAt, ThreadOK, RpcOK
  <2>3. Quiet(t)
    BY <2>a DEF Quiet, PastSwap
  <2>4. t \in Validators => (Rewinding(t)' => chain' # <<>>)
    BY DEF Rewinding, Control
  <2> QED BY <2>3, <2>4, QuietStep
<1>ConnectBlock. ASSUME NEW t \in Validators, NEW b \in env.blocks, ConnectBlock(t, b) PROVE Inv'
  <2> USE <1>ConnectBlock
  <2> t \in Threads /\ Control /\ Types /\ ThreadOK(t) /\ pc[t] = "idle"
    BY Kinds DEF Inv, Control, ConnectBlock
  <2> Tame(t) /\ pc'[t] = "pause" /\ loc'[t].then = "flush"
    BY ConnectBlockTame DEF PcTo, LocTo, LocKeeps
  <2> /\ queues' = queues /\ commitQ' \subseteq commitQ
      /\ mempool' \subseteq mempool /\ csAccept' = csAccept /\ chain' = chain
    BY DEF ConnectBlock
  <2>a. t \notin Rpcs
    BY Kinds
  <2>3. Quiet(t)
    BY <2>a DEF Quiet, PastSwap
  <2>4. Rewinding(t)' => chain' # <<>>
    BY DEF Rewinding
  <2> QED BY <2>3, <2>4, QuietStep
<1>FlushCoins. ASSUME NEW t \in Validators, FlushCoins(t) PROVE Inv'
  <2> USE <1>FlushCoins
  <2> t \in Threads /\ Control /\ Types /\ ThreadOK(t) /\ pc[t] = "flush"
    BY Kinds DEF Inv, Control, FlushCoins
  <2> Tame(t) /\ pc'[t] = "remove"
    BY FlushCoinsTame DEF PcTo, LocTo, LocKeeps
  <2> /\ queues' = queues /\ commitQ' \subseteq commitQ
      /\ mempool' \subseteq mempool /\ csAccept' = csAccept
    BY DEF FlushCoins
  <2>a. t \notin Rpcs
    BY Kinds
  <2>3. Quiet(t)
    BY <2>a DEF Quiet, PastSwap
  <2>4. Rewinding(t)' => chain' # <<>>
    BY DEF Rewinding
  <2> QED BY <2>3, <2>4, QuietStep
<1>RemoveForBlock. ASSUME NEW t \in Validators, RemoveForBlock(t) PROVE Inv'
  <2> USE <1>RemoveForBlock
  <2> t \in Threads /\ Control /\ Types /\ ThreadOK(t) /\ pc[t] = "remove"
    BY Kinds DEF Inv, Control, RemoveForBlock
  <2> Tame(t) /\ pc'[t] = "idle"
    BY RemoveForBlockTame DEF PcTo, LocTo, LocKeeps
  <2> /\ queues' = queues /\ commitQ' \subseteq commitQ
      /\ mempool' \subseteq mempool /\ csAccept' = csAccept /\ chain' = chain
    BY DEF RemoveForBlock
  <2>a. t \notin Rpcs
    BY Kinds
  <2>3. Quiet(t)
    BY <2>a DEF Quiet, PastSwap
  <2>4. Rewinding(t)' => chain' # <<>>
    BY DEF Rewinding
  <2> QED BY <2>3, <2>4, QuietStep
<1>DisconnectTip. ASSUME NEW t \in Validators, DisconnectTip(t) PROVE Inv'
  <2> USE <1>DisconnectTip
  <2> t \in Threads /\ Control /\ Types /\ ThreadOK(t) /\ pc[t] = "idle"
    BY Kinds DEF Inv, Control, DisconnectTip
  <2> Tame(t) /\ pc'[t] = "pause"
    BY DisconnectTipTame DEF PcTo, LocTo, LocKeeps
  <2> /\ queues' = queues /\ commitQ' \subseteq commitQ
      /\ mempool' \subseteq mempool /\ csAccept' = csAccept /\ chain' = chain /\ chain # <<>>
    BY DEF DisconnectTip
  <2>a. t \notin Rpcs
    BY Kinds
  <2>3. Quiet(t)
    BY <2>a DEF Quiet, PastSwap
  <2>4. Rewinding(t)' => chain' # <<>>
    BY DEF Rewinding
  <2> QED BY <2>3, <2>4, QuietStep
<1>RewindCoins. ASSUME NEW t \in Validators, RewindCoins(t) PROVE Inv'
  <2> USE <1>RewindCoins
  <2> t \in Threads /\ Control /\ Types /\ ThreadOK(t) /\ pc[t] = "rewind"
    BY Kinds DEF Inv, Control, RewindCoins
  <2>c. chain # <<>>
    BY DEF Control, Rewinding
  <2> Tame(t) /\ pc'[t] = "resubmit"
    BY <2>c, RewindCoinsTame DEF PcTo, LocTo, LocKeeps
  <2> /\ queues' = queues /\ commitQ' \subseteq commitQ
      /\ mempool' \subseteq mempool /\ csAccept' = csAccept
    BY DEF RewindCoins
  <2>a. t \notin Rpcs
    BY Kinds
  <2>3. Quiet(t)
    BY <2>a DEF Quiet, PastSwap
  <2>4. Rewinding(t)' => chain' # <<>>
    BY DEF Rewinding
  <2> QED BY <2>3, <2>4, QuietStep
<1>ResubmitIf. ASSUME NEW t \in Validators, Resubmit(t),
                      queues' = queues \/ Extended(queues, queues')
               PROVE  Inv'
  <2> USE <1>ResubmitIf
  <2> t \in Threads /\ Control /\ Types /\ ThreadOK(t) /\ pc[t] = "resubmit"
    BY Kinds DEF Inv, Control, Resubmit
  <2> Tame(t) /\ pc'[t] = "idle"
    BY ResubmitTame DEF PcTo, LocTo, LocKeeps
  <2> /\ (queues' = queues \/ Extended(queues, queues')) /\ commitQ' \subseteq commitQ
      /\ mempool' \subseteq mempool /\ csAccept' = csAccept /\ chain' = chain
    BY DEF Resubmit
  <2>a. t \notin Rpcs
    BY Kinds
  <2>3. Quiet(t)
    BY <2>a DEF Quiet, PastSwap
  <2>4. Rewinding(t)' => chain' # <<>>
    BY DEF Rewinding
  <2> QED BY <2>3, <2>4, QuietStep
<1>SendRaw. ASSUME NEW t \in Rpcs, NEW x \in env.raw, SendRaw(t, x) PROVE Inv'
  <2> USE <1>SendRaw
  <2> t \in Threads /\ Control /\ Types /\ ThreadOK(t) /\ pc[t] = "idle"
    BY Kinds DEF Inv, Control, SendRaw
  <2> Tame(t) /\ pc'[t] = "pause"
    BY SendRawTame DEF PcTo, LocTo, LocKeeps
  <2> /\ queues' = queues /\ commitQ' \subseteq commitQ
      /\ mempool' \subseteq mempool /\ csAccept' = csAccept /\ chain' = chain
    BY DEF SendRaw
  <2>a. t \in Rpcs => (Accepting(t)' <=> Accepting(t)) /\ ~SendingAt(t) /\ ~SendingAt(t)'
    BY DEF Accepting, SendingAt
  <2>3. Quiet(t)
    BY <2>a DEF Quiet, PastSwap
  <2>4. t \notin Validators
    BY Kinds
  <2> QED BY <2>3, <2>4, QuietStep
<1>AddOrphanByRpc. ASSUME NEW t \in Rpcs, AddOrphanByRpc(t) PROVE Inv'
  <2> USE <1>AddOrphanByRpc
  <2> t \in Threads /\ Control /\ Types /\ ThreadOK(t) /\ pc[t] = "addorphan"
    BY Kinds DEF Inv, Control, AddOrphanByRpc
  <2> Tame(t) /\ pc'[t] = "idle"
    BY AddOrphanByRpcTame DEF PcTo, LocTo, LocKeeps
  <2> /\ queues' = queues /\ commitQ' \subseteq commitQ
      /\ mempool' \subseteq mempool /\ csAccept' = csAccept /\ chain' = chain
    BY DEF AddOrphanByRpc
  <2>a. t \in Rpcs => (Accepting(t)' <=> Accepting(t)) /\ ~SendingAt(t) /\ ~SendingAt(t)'
    BY DEF Accepting, SendingAt
  <2>3. Quiet(t)
    BY <2>a DEF Quiet, PastSwap
  <2>4. t \notin Validators
    BY Kinds
  <2> QED BY <2>3, <2>4, QuietStep
<1>FlushTxAdmission. ASSUME NEW t \in Rpcs, FlushTxAdmission(t) PROVE Inv'
  <2> USE <1>FlushTxAdmission
  <2> t \in Threads /\ Control /\ Types /\ ThreadOK(t) /\ pc[t] = "idle"
    BY Kinds DEF Inv, Control, FlushTxAdmission
  <2> Tame(t) /\ pc'[t] = "again"
    BY FlushTxAdmissionTame DEF PcTo, LocTo, LocKeeps
  <2> /\ queues' = queues /\ commitQ' \subseteq commitQ
      /\ mempool' \subseteq mempool /\ csAccept' = csAccept /\ chain' = chain
    BY DEF FlushTxAdmission
  <2>a. t \in Rpcs => (Accepting(t)' <=> Accepting(t)) /\ ~SendingAt(t) /\ ~SendingAt(t)'
    BY DEF Accepting, SendingAt
  <2>3. Quiet(t)
    BY <2>a DEF Quiet, PastSwap
  <2>4. t \notin Validators
    BY Kinds
  <2> QED BY <2>3, <2>4, QuietStep
<1>FlushEnter. ASSUME NEW t \in Rpcs, FlushEnter(t) PROVE Inv'
  <2> USE <1>FlushEnter
  <2> t \in Threads /\ Control /\ Types /\ ThreadOK(t) /\ pc[t] = "again"
    BY Kinds DEF Inv, Control, FlushEnter
  <2> Tame(t) /\ pc'[t] = "check"
    BY FlushEnterTame DEF PcTo, LocTo, LocKeeps
  <2> /\ queues' = queues /\ commitQ' \subseteq commitQ
      /\ mempool' \subseteq mempool /\ csAccept' = csAccept /\ chain' = chain
    BY DEF FlushEnter
  <2>a. t \in Rpcs => (Accepting(t)' <=> Accepting(t)) /\ ~SendingAt(t) /\ ~SendingAt(t)'
    BY DEF Accepting, SendingAt
  <2>3. Quiet(t)
    BY <2>a DEF Quiet, PastSwap
  <2>4. t \notin Validators
    BY Kinds
  <2> QED BY <2>3, <2>4, QuietStep
<1>FlushDecide. ASSUME NEW t \in Rpcs, FlushDecide(t) PROVE Inv'
  <2> USE <1>FlushDecide
  <2> t \in Threads /\ Control /\ Types /\ ThreadOK(t) /\ pc[t] = "decide"
    BY Kinds DEF Inv, Control, FlushDecide
  <2> Tame(t) /\ pc'[t] \in {"idle", "again"}
    BY FlushDecideTame DEF PcTo, LocTo, LocKeeps
  <2> /\ queues' = queues /\ commitQ' \subseteq commitQ
      /\ mempool' \subseteq mempool /\ csAccept' = csAccept /\ chain' = chain
    BY DEF FlushDecide
  <2>a. t \in Rpcs => (Accepting(t)' <=> Accepting(t)) /\ ~SendingAt(t) /\ ~SendingAt(t)'
    BY DEF Accepting, SendingAt
  <2>3. Quiet(t)
    BY <2>a DEF Quiet, PastSwap
  <2>4. t \notin Validators
    BY Kinds
  <2> QED BY <2>3, <2>4, QuietStep
<1>FlushCheck. ASSUME NEW t \in Rpcs, FlushCheck(t) PROVE Inv'
  <2> USE <1>FlushCheck
  <2> t \in Threads /\ Control /\ Types /\ ThreadOK(t) /\ pc[t] = "check" /\ t \notin Validators
    BY Kinds DEF Inv, Control, FlushCheck
  <2> /\ Tame(t)
      /\ pc'[t] = "idle" \/ (pc'[t] = "swap" /\ loc'[t].then = "leave")
    BY FlushCheckTame DEF PcTo, LocTo
  <2> /\ queues' = queues /\ commitQ' = commitQ
      /\ mempool' = mempool /\ csAccept' = csAccept /\ chain' = chain
    BY DEF FlushCheck
  <2>a. (Accepting(t)' <=> Accepting(t)) /\ ~SendingAt(t) /\ ~SendingAt(t)'
    BY DEF Accepting, SendingAt
  <2>3. Quiet(t)
    BY <2>a DEF Quiet, PastSwap
  <2> QED BY <2>3, QuietStep
<1>EnqueueOrphanIf. ASSUME NEW t \in Committers \cup Rpcs, EnqueueOrphan(t),
                           queues' = queues \/ Extended(queues, queues')
                    PROVE  Inv'
  <2> USE <1>EnqueueOrphanIf
  <2> t \in Threads /\ Control /\ Types /\ ThreadOK(t) /\ pc[t] = "enqueue" /\ t \notin Validators
    BY Kinds DEF Inv, Control, EnqueueOrphan
  <2> Tame(t) /\ pc'[t] \in {"enqueue", loc[t].then}
    BY EnqueueOrphanTame DEF PcTo
  <2> /\ commitQ' = commitQ
      /\ mempool' = mempool /\ csAccept' = csAccept /\ chain' = chain
    BY DEF EnqueueOrphan
  <2> loc[t].then \in {"blocks", "batches"}
    BY DEF ThreadOK, CommitterOK, RpcOK
  <2>a. (Accepting(t)' <=> Accepting(t)) /\ ~SendingAt(t) /\ ~SendingAt(t)'
    BY DEF Accepting, SendingAt
  <2>4. Quiet(t)
    BY <2>a DEF Quiet, PastSwap
  <2> QED BY <2>4, QuietStep

\* A worker takes the next transaction.
<1>WorkerTake. ASSUME NEW t \in Workers, WorkerTake(t) PROVE Inv'
  <2> USE <1>WorkerTake
  <2> DEFINE q == IF queues.orphan # <<>> THEN queues.orphan ELSE queues.in
             x == Head(q)
             c == IF queues.orphan # <<>> THEN "orphan" ELSE "in"
  <2> /\ t \in Threads /\ Control /\ Types /\ ThreadOK(t) /\ pc[t] = "take"
      /\ t \notin Rpcs /\ t \notin Validators
      /\ queues \in QueueType /\ Separate(queues)
    BY Kinds DEF Inv, Control, Round, WorkerTake
  <2> /\ Tame(t)
      /\ \/ pc'[t] \in {"take", "idle"}
         \/ \E v \in Verdicts(x) : /\ pc'[t] = "apply" /\ loc'[t].tx = x
                                   /\ loc'[t].verdict = v
    <3> /\ Tame(t)
        /\ \/ pc'[t] \in {"take", "idle"}
           \/ /\ PcTo(t, "apply")
              /\ \E v \in Verdicts(x) :
                    LocTo(t, x, v, loc[t].batch, loc[t].finals, loc[t].children, loc[t].then)
      BY WorkerTakeTame
    <3> QED BY DEF PcTo, LocTo
  <2> commitQ' = commitQ /\ mempool' = mempool /\ csAccept' = csAccept /\ chain' = chain
    BY DEF WorkerTake
  <2>3. queues' \in QueueType /\ Pops(queues, queues', c)
    BY TakePops
  <2> /\ Extended(queues, queues') /\ x \in Ready(queues) /\ x \in Txs
      /\ \A u \in Ready(queues') : Disjoint(x, u)
      /\ Ready(queues') \subseteq Ready(queues)
    <3> x = IF c = "in" THEN Head(queues.in) ELSE Head(queues.orphan)
      OBVIOUS
    <3> HIDE DEF c, x
    <3>2. Popped(queues, queues', x)
      BY <2>3, PopIsGood
    <3> QED BY <3>2 DEF Popped
  <2> CASE pc'[t] \in {"take", "idle"}
    <3> Quiet(t)
      BY DEF Quiet, PastSwap
    <3> QED BY QuietStep
  <2> CASE \E v \in Verdicts(x) : /\ pc'[t] = "apply" /\ loc'[t].tx = x
                                  /\ loc'[t].verdict = v
    <3> PICK v \in Verdicts(x) : pc'[t] = "apply" /\ loc'[t].tx = x /\ loc'[t].verdict = v
      OBVIOUS
    <3> HIDE DEF x
    <3> QED BY <1>Verdict
  <2> QED OBVIOUS

\* The commit ends with a new round.
<1>CommitRequeue. ASSUME NEW t \in Committers \cup Validators \cup Rpcs, CommitRequeue(t) PROVE Inv'
  <2> USE <1>CommitRequeue
  <2>1. queues \in QueueType /\ queues' = Requeue(queues)
    BY DEF Inv, Round, CommitRequeue
  <2>2. queues' \in QueueType /\ Separate(queues')
    BY <2>1, RequeueIsGood
  <2> QED BY <2>2, <1>CommitRequeueIf

\* Orphans whose parents have arrived are enqueued.
<1>EnqueueOrphan. ASSUME NEW t \in Committers \cup Rpcs, EnqueueOrphan(t) PROVE Inv'
  <2> USE <1>EnqueueOrphan
  <2> /\ t \in Threads /\ Types /\ ThreadOK(t) /\ queues \in QueueType /\ Separate(queues)
      /\ Collected(t) \subseteq Txs
    <3> t \in Threads /\ Types /\ ThreadOK(t) /\ queues \in QueueType /\ Separate(queues)
      BY Kinds DEF Inv, Control, Round
    <3>2. loc[t] \in Locals
      BY DEF Types
    <3> QED BY <3>2 DEF Locals, Collected
  <2>1. \/ \E o \in Collected(t) : queues' = TestConflictEnqueueTx(queues, o, TRUE)
        \/ queues' = queues
    BY EnqueueOrphanTame
  <2>2. queues' = queues \/ Extended(queues, queues')
    BY <2>1, EnqueueOne
  <2> QED BY <2>2, <1>EnqueueOrphanIf

\* The transactions of a disconnected block are enqueued.
<1>Resubmit. ASSUME NEW t \in Validators, Resubmit(t) PROVE Inv'
  <2> USE <1>Resubmit
  <2> /\ queues \in QueueType /\ Separate(queues) /\ mempool \subseteq Txs
      /\ loc[t].batch \subseteq Txs
    <3> queues \in QueueType /\ Separate(queues) /\ mempool \subseteq Txs /\ loc[t] \in Locals
      BY Kinds DEF Inv, Control, Types, Round
    <3> QED BY DEF Locals
  <2>1. \/ \E b \in Orders(loc[t].batch), p \in Orders(mempool) :
             queues' = EnqueueAll(queues, b \o p)
        \/ queues' = queues
    BY DEF Resubmit
  <2> ASSUME NEW b \in Orders(loc[t].batch), NEW p \in Orders(mempool),
             queues' = EnqueueAll(queues, b \o p)
      PROVE  Extended(queues, queues')
    <3> b \in Seq(Txs) /\ p \in Seq(Txs)
      BY OrdersAreSeqs
    <3>2. b \o p \in Seq(Txs)
      BY RangeOfConcat
    <3> QED BY <3>2 DEF EnqueueAllOK
  <2> QED BY <2>1, <1>ResubmitIf

\* Nobody moves.
<1>Arrive. ASSUME NEW x \in Txs, Arrive(x) PROVE Inv'
  <2> USE <1>Arrive
  <2>0. queues \in QueueType /\ Separate(queues)
    BY DEF Inv, Round
  <2> Extended(queues, queues')
    BY <2>0, EnqueueOne DEF Arrive
  <2> UNCHANGED <<commitQ, mempool, chain, mapOrphans, mapNonFinals, recentRejects,
                  txRecentlyInBlock, known, vProcessOrphans, vPostBlock, csAccept,
                  pc, loc, env, holds, depth>>
    BY DEF Arrive
  <2>3. Control'
    <3> Types' /\ OneRegion' /\ \A v \in Validators : Rewinding(v)' => chain' # <<>>
      BY DEF Inv, Control, Types, OneRegion, Rewinding
    <3> ASSUME NEW t \in Threads PROVE ThreadOK(t)'
      <4>1. ThreadOK(t)
        BY DEF Inv, Control
      <4> QED BY <4>1 DEF ThreadOK, WorkerOK, CommitterOK, ValidatorOK, Connecting, RpcOK
    <3> QED BY DEF Control
  <2> AcceptLock' /\ Flushed' /\ (Sending' <=> Sending)
    BY DEF Inv, AcceptLock, Flushed, Accepting, Sending, Sends, SendingAt, PastSwap
  <2> InFlight' = InFlight /\ Accepted' = Accepted /\ Inserting' = Inserting
    BY DEF InFlight, Accepted, Inserting
  <2>6. Unspent'
    BY DEF Inv, Unspent
  <2>7. Taken' = Taken
    BY DEF Taken
  <2>8. Round'
    <3> \A y \in Taken : Covered(queues', y)
      BY DEF Inv, Round, Extended, Covered
    <3> ASSUME NEW y \in Taken, NEW u \in Ready(queues') PROVE Disjoint(y, u)
      BY DEF Inv, Round, Extended, Covered, Unseen, Disjoint
    <3> QED BY <2>7 DEF Inv, Round, Extended
  <2> QED BY <2>3, <2>6, <2>8 DEF Inv

\* One step for each kind of thread.
<1>ProcessOrphans. ASSUME NEW t \in Committers \cup Rpcs, ProcessOrphans(t) PROVE Inv'
  BY <1>ProcessOrphans, <1>LeaveCorral, <1>NextBlock, <1>NextBatch, <1>NoMoreBatches, <1>Collect,
     <1>Erase, <1>EnqueueOrphan DEF ProcessOrphans
<1>Commit. ASSUME NEW t \in Committers \cup Validators \cup Rpcs, Commit(t) PROVE Inv'
  BY <1>Commit, <1>CommitSwap, <1>CommitRequeue DEF Commit
<1>Worker. ASSUME NEW t \in Workers, Worker(t) PROVE Inv'
  BY <1>Worker, <1>WorkerEnter, <1>WorkerTake, <1>WorkerApply, <1>WorkerLeave DEF Worker
<1>Committer. ASSUME NEW t \in Committers, Committer(t) PROVE Inv'
  <2> USE <1>Committer
  <2>1. t \in Committers \cup Validators \cup Rpcs /\ t \in Committers \cup Rpcs
    OBVIOUS
  <2> QED
    BY <2>1, <1>CommitterEnter, <1>Commit, <1>ProcessOrphans, <1>LimitMempoolSize
       DEF Committer
<1>Validator. ASSUME NEW t \in Validators, Validator(t) PROVE Inv'
  <2> USE <1>Validator
  <2>1. t \in Committers \cup Validators \cup Rpcs /\ t \in Validators \cup Rpcs
    OBVIOUS
  <2> QED
    BY <2>1, <1>ConnectBlock, <1>DisconnectTip, <1>PauseEnter, <1>Commit, <1>FlushCoins,
       <1>RemoveForBlock, <1>RewindCoins, <1>Resubmit DEF Validator
<1>Rpc. ASSUME NEW t \in Rpcs, Rpc(t) PROVE Inv'
  <2> USE <1>Rpc
  <2> /\ t \in Committers \cup Validators \cup Rpcs /\ t \in Validators \cup Rpcs
      /\ t \in Committers \cup Rpcs
    OBVIOUS
  <2> CASE \/ \E x \in env.raw : SendRaw(t, x)
           \/ FlushTxAdmission(t)
           \/ PauseEnter(t) \/ Commit(t)
           \/ AcceptCheck(t) \/ AcceptInsert(t) \/ AcceptDone(t) \/ AddOrphanByRpc(t)
    BY <1>SendRaw, <1>FlushTxAdmission, <1>PauseEnter, <1>Commit, <1>AcceptCheck,
       <1>AcceptInsert, <1>AcceptDone, <1>AddOrphanByRpc
  <2> CASE \/ FlushEnter(t) \/ FlushCheck(t) \/ ProcessOrphans(t) \/ FlushDecide(t)
           \/ LimitMempoolSize(t)
    BY <1>FlushEnter, <1>FlushCheck, <1>ProcessOrphans, <1>FlushDecide, <1>LimitMempoolSize
  <2> QED BY DEF Rpc
<1> QED BY <1>Arrive, <1>Worker, <1>Committer, <1>Validator, <1>Rpc DEF Next
=============================================================================
