------------------------------ MODULE TxQueues ------------------------------
(***************************************************************************)
(* The admission queues of txadmission.cpp (txInQ, txOrphanQ, txDeferQ) and *)
(* the fast filter incomingConflicts that keeps transactions which may     *)
(* spend the same output out of one round of parallel validation.  All     *)
(* four are guarded by csTxInQ and are one value here.                     *)
(***************************************************************************)
EXTENDS Naturals, Sequences, Functions

CONSTANTS
    Txs,        \* the transactions; a transaction's name is also its output's
    Spends,     \* Spends[t]: the outputs t consumes, in the order of vin
    Reads,      \* Reads[t]: the outputs t's read-only inputs refer to
    Bits,       \* Bits[o]: the filter positions an output hashes to
    MaxMove     \* maxmove: how many transactions a commit re-tests at most

\* CheckTransaction does not let a transaction without inputs through.
ASSUME QueuesAssumption ==
    /\ DOMAIN Spends = Txs /\ DOMAIN Reads = Txs
    /\ \A t \in Txs : Spends[t] \in Seq(Range(Spends[t])) /\ Spends[t] # <<>>
    /\ \A t \in Txs : Range(Spends[t]) \cup Reads[t] \subseteq DOMAIN Bits
    /\ MaxMove \in Nat

Inputs(t) == Range(Spends[t])
Disjoint(t, u) == Inputs(t) \cap Inputs(u) = {}

EmptyQueues == [in |-> <<>>, orphan |-> <<>>, defer |-> <<>>, conflicts |-> {}]

\* CFastFilter::checkAndSet in the loop over vin: the inputs of which all
\* positions are set, by what was tested before or by the inputs before them.
\* The loop stops at the first; what it has set stays set.
Collisions(set, t) ==
    {k \in DOMAIN Spends[t] :
        Bits[Spends[t][k]] \subseteq set \cup UNION {Bits[Spends[t][i]] : i \in 1 .. k - 1}}
SetByTest(set, t) ==
    LET tested == {k \in DOMAIN Spends[t] : \A i \in Collisions(set, t) : k <= i}
    IN  set \cup UNION {Bits[Spends[t][k]] : k \in tested}

\* Mutant of TestConflictEnqueueTx: what the filter says is ignored.
TestConflictEnqueueTx_NoDefer(q, t, fOrphan) ==
    [q EXCEPT !.conflicts = SetByTest(@, t),
              ![IF fOrphan THEN "orphan" ELSE "in"] = Append(@, t)]

TestConflictEnqueueTx(q, t, fOrphan) ==
    LET conflict == Collisions(q.conflicts, t) # {}
    IN  [in |-> IF ~conflict /\ ~fOrphan THEN Append(q.in, t) ELSE q.in,
         orphan |-> IF ~conflict /\ fOrphan THEN Append(q.orphan, t) ELSE q.orphan,
         defer |-> IF conflict THEN Append(q.defer, t) ELSE q.defer,
         conflicts |-> SetByTest(q.conflicts, t)]

\* The queues after the transactions of s have been tested in turn.
EnqueueAll(q, s) ==
    LET after[i \in 0 .. Len(s)] ==
            IF i = 0 THEN q ELSE TestConflictEnqueueTx(after[i - 1], s[i], FALSE)
    IN  after[Len(s)]

\* Mutants of RequeueFirst: the first transaction is tested like the others;
\* its inputs are not added to the new filter.
RequeueFirst_Tested(defer) ==
    IF defer = <<>> THEN EmptyQueues ELSE TestConflictEnqueueTx(EmptyQueues, Head(defer), FALSE)
RequeueFirst_NotInFilter(defer) ==
    IF defer = <<>> THEN EmptyQueues ELSE [EmptyQueues EXCEPT !.in = <<Head(defer)>>]

\* The first deferred transaction goes back unchecked, so that one whose own
\* inputs collide in the filter is not deferred for ever.
RequeueFirst(defer) ==
    IF defer = <<>> THEN EmptyQueues
    ELSE LET t == Head(defer)
         IN  [EmptyQueues EXCEPT !.in = <<t>>,
                                 !.conflicts = UNION {Bits[o] : o \in Inputs(t) \cup Reads[t]}]

\* The second half of _CommitTxToMempool: reset the filter and test every
\* queued transaction again, in the order txDeferQ, txOrphanQ, txInQ; what is
\* left after maxmove of them is deferred untested.
Requeue(q) ==
    LET rest == (IF q.defer = <<>> THEN <<>> ELSE Tail(q.defer)) \o q.orphan \o q.in
        n == IF Len(rest) < MaxMove THEN Len(rest) ELSE MaxMove
        moved == EnqueueAll(RequeueFirst(q.defer), SubSeq(rest, 1, n))
    IN  [moved EXCEPT !.defer = @ \o SubSeq(rest, n + 1, Len(rest))]

\* What a worker may take: txOrphanQ goes before txInQ.
Queued(q) == q.in # <<>> \/ q.orphan # <<>>
AllQueued(q) == q.defer \o q.orphan \o q.in
=============================================================================
