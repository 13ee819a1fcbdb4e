----------------------------- MODULE TxAdmission -----------------------------
(***************************************************************************)
(* Transaction admission (txadmission.cpp) together with the parts of the  *)
(* program that it shares the txpool with: the orphan pool, ConnectTip and *)
(* DisconnectTip (validation.cpp) and the size limit of the txpool.        *)
(*                                                                         *)
(* Admission threads validate queued transactions in parallel (region 1 of *)
(* the corral) and put them into the commit queue; the commit thread moves *)
(* the commit queue into the txpool (region 2); connecting a block and the *)
(* RPC calls stop both (region 3).  A step is what the code does between   *)
(* taking and releasing one of its locks.  The corral is the one specified *)
(* in Corral.  The chain is one of ordinary blocks (Tailstorm not active); *)
(* a transaction has one output, named like the transaction.  The limits of *)
(* the orphan pool by size and by age (LimitPoolSize, EraseByTime) are in   *)
(* the module OrphanPool; the few transactions here never reach them.       *)
(***************************************************************************)
EXTENDS Corral, TxQueues, FiniteSets

CONSTANTS
    Workers,        \* threads running ThreadTxAdmission
    Committers,     \* threads running ThreadCommitToMempool
    Validators,     \* the thread connecting and disconnecting blocks
    Rpcs,           \* threads serving sendrawtransaction and "flush" calls
    BaseCoins,      \* outputs that are confirmed in the initial chain
    FinalAt,        \* FinalAt[t]: the first height of a block t may be in
    Bad,            \* transactions that fail a check of their own
    FromLight,      \* transactions whose sender is a light client
    MaxTxPerRound,  \* maxTxPerRound of ThreadTxAdmission
    Scenarios       \* what may come from outside: records with the fields
                    \*   arrivals[t]: how often t arrives from the network,
                    \*   calls[k]: how many calls of kind k there are, "connect"
                    \*     and "disconnect" a block, "send" and "flush" by RPC,
                    \*   raw: the transactions that are sent by RPC,
                    \*   blocks: the blocks (sets of transactions) there are,
                    \*   overflows: whether the txpool ever exceeds its limits,
                    \*   alloworphans: that argument of sendrawtransaction,
                    \*   rollbacks: whether rollbackchain may be called

NoTx == "none"
NoThread == "nobody"
PROCESSING == 1
COMMITMENT == 2
PAUSE == 3
CallKinds == {"connect", "disconnect", "send", "flush"}

\* ConnectTip and DisconnectTip run with cs_main held from their checks to the
\* new tip, so that one thread stands for all that do; an output of the initial
\* chain is none of a transaction that is still to come.  That the subsets of
\* a finite set have a size is spelled out for the proofs.
ASSUME AdmissionAssumption ==
    /\ Threads = Workers \cup Committers \cup Validators \cup Rpcs
    /\ Regions = {PROCESSING, COMMITMENT, PAUSE}
    /\ Workers \cap (Committers \cup Validators \cup Rpcs) = {}
    /\ Committers \cap (Validators \cup Rpcs) = {} /\ Validators \cap Rpcs = {}
    /\ \A u, v \in Validators : u = v
    /\ IsFiniteSet(Txs) /\ \A S \in SUBSET Txs : Cardinality(S) \in Nat
    /\ BaseCoins \cap Txs = {}
    /\ \A e \in Scenarios : e.raw \subseteq Txs /\ \A b \in e.blocks : b \subseteq Txs
    /\ NoTx \notin Txs /\ NoThread \notin Threads

VARIABLES
    queues,             \* txInQ, txOrphanQ, txDeferQ and incomingConflicts
    commitQ,            \* txCommitQ
    mempool,            \* the transactions in the txpool (mapTx)
    chain,              \* the connected blocks, above the initial chain
    mapOrphans,         \* transactions with missing inputs
    mapNonFinals,       \* transactions that are not final yet
    recentRejects,      \* filter of rejected transactions
    txRecentlyInBlock,  \* filter of transactions seen in a block
    known,              \* filterTransactionKnown
    vProcessOrphans,    \* batches added to the txpool, orphans not yet looked at
    vPostBlock,         \* blocks connected, orphans not yet looked at
    csAccept,           \* the holder of cs_accept, or NoThread
    rejects,            \* REJECT messages sent: the transaction and its verdict
    pc,                 \* pc[t]: where thread t is
    loc,                \* loc[t]: the local variables of thread t
    arrivals,           \* arrivals[t] of the network so far
    calls,              \* calls[k] made so far
    env                 \* the scenario, chosen once

queueVars == <<queues>>
poolVars == <<commitQ, mempool>>
orphanVars == <<mapOrphans, mapNonFinals>>
filterVars == <<recentRejects, txRecentlyInBlock, known>>
batchVars == <<vProcessOrphans, vPostBlock>>
boundVars == <<arrivals, calls, env>>
vars == <<queues, commitQ, mempool, chain, mapOrphans, mapNonFinals, recentRejects,
          txRecentlyInBlock, known, vProcessOrphans, vPostBlock, csAccept, rejects,
          pc, loc, arrivals, calls, env, holds, depth>>

\* The local variables of a thread that is idle.
Idle == [tx |-> NoTx, verdict |-> "", code |-> "none", last |-> FALSE, round |-> 0,
         batch |-> {}, finals |-> {}, children |-> {}, then |-> "idle", empty |-> FALSE]

Init ==
    /\ CorralInit
    /\ queues = EmptyQueues
    /\ commitQ = {} /\ mempool = {} /\ chain = <<>>
    /\ mapOrphans = {} /\ mapNonFinals = {}
    /\ recentRejects = {} /\ txRecentlyInBlock = {} /\ known = {}
    /\ vProcessOrphans = <<>> /\ vPostBlock = <<>>
    /\ csAccept = NoThread
    /\ rejects = {}
    /\ pc = [t \in Threads |-> "idle"]
    /\ loc = [t \in Threads |-> Idle]
    /\ arrivals = [t \in Txs |-> 0]
    /\ calls = [k \in CallKinds |-> 0]
    /\ env \in Scenarios

Goto(t, label) == pc' = [pc EXCEPT ![t] = label]
GoIdle(t) == Goto(t, "idle") /\ loc' = [loc EXCEPT ![t] = Idle]
-----------------------------------------------------------------------------
(* What ParallelAcceptToMemoryPool reads and what it answers.              *)

SpentBy(S) == UNION {Inputs(t) : t \in S}
Confirmed == UNION Range(chain)
Utxo == (BaseCoins \cup Confirmed) \ SpentBy(Confirmed)

\* CheckFinalTx, for the block that would be connected next.
Final(t) == Len(chain) + 1 >= FinalAt[t]

\* Inputs come from the chain or from the txpool, read-only inputs only from
\* the chain.
HaveInputs(t) == Inputs(t) \subseteq Utxo \cup mempool /\ Reads[t] \subseteq Utxo

IsRespend(t) == Inputs(t) \cap SpentBy(mempool) # {}

\* The possible answers, in the order of the checks.  A respend that one of
\* the respend actions finds interesting is validated further, and then its
\* inputs may be missing.
Verdicts(t) ==
    CASE t \in Bad -> {"invalid"}
      [] t \notin Bad /\ ~Final(t) -> {"nonfinal"}
      [] t \notin Bad /\ Final(t) /\ t \in mempool -> {"known"}
      [] OTHER -> (IF IsRespend(t) THEN {"conflict"} ELSE {})
                  \cup (IF ~HaveInputs(t) THEN {"missing"} ELSE {})
                  \cup (IF HaveInputs(t) /\ ~IsRespend(t) THEN {"accept"} ELSE {})

\* What the verdict leaves in CValidationState: the codes of "known" and of
\* "conflict" are internal ones; missing inputs do not touch it.
CodeAfter(code, verdict) ==
    CASE verdict \in {"invalid", "nonfinal"} -> "public"
      [] verdict \in {"known", "conflict"} -> "internal"
      [] OTHER -> code

TxAlreadyHave(t) ==
    t \in txRecentlyInBlock \cup recentRejects \cup commitQ \cup mempool \cup mapOrphans
TxMayAlreadyHave(t) == t \in known /\ TxAlreadyHave(t)

\* The transactions of the txpool that are in S or spend, directly or not, an
\* output of one that is (_CalculateDescendants).
Descendants(S) ==
    {u \in mempool :
        \A C \in SUBSET mempool :
            /\ S \cap mempool \subseteq C
            /\ \A w \in mempool : Inputs(w) \cap C # {} => w \in C
            => u \in C}
-----------------------------------------------------------------------------
(* The network, enqueuerawtransaction and the wallet: EnqueueTxForAdmission *)

Arrive(t) ==
    /\ arrivals[t] < env.arrivals[t]
    /\ arrivals' = [arrivals EXCEPT ![t] = @ + 1]
    /\ queues' = TestConflictEnqueueTx(queues, t, FALSE)
    /\ UNCHANGED <<poolVars, chain, orphanVars, filterVars, batchVars, csAccept,
                   rejects, pc, loc, calls, env, corralVars>>
-----------------------------------------------------------------------------
(* ThreadTxAdmission                                                       *)

WorkerEnter(w) ==
    /\ pc[w] = "idle"
    /\ Queued(queues)
    /\ EnterRegion(w, PROCESSING)
    /\ Goto(w, "take")
    /\ UNCHANGED <<queueVars, poolVars, chain, orphanVars, filterVars, batchVars,
                   csAccept, rejects, loc, boundVars>>

\* After a transaction: the next one, or out of the corral.
NextTxOrLeave(w, last) ==
    IF last \/ loc[w].round + 1 >= MaxTxPerRound
    THEN GoIdle(w) /\ ExitRegion(w)
    ELSE /\ Goto(w, "take")
         /\ loc' = [loc EXCEPT ![w].round = @ + 1, ![w].last = last,
                               ![w].tx = NoTx, ![w].verdict = ""]
         /\ UNCHANGED corralVars

\* Pop a transaction, orphans first, and validate it unless it is known.
WorkerTake(w) ==
    /\ pc[w] = "take"
    /\ Queued(queues)
    /\ LET orphan == queues.orphan # <<>>
           t == Head(IF orphan THEN queues.orphan ELSE queues.in)
           last == loc[w].last \/ (orphan /\ Len(queues.orphan) = 1)
       IN  /\ queues' = [queues EXCEPT !.orphan = IF orphan THEN Tail(@) ELSE @,
                                       !.in = IF orphan THEN @ ELSE Tail(@)]
           /\ \/ /\ ~orphan /\ TxMayAlreadyHave(t)
                 /\ NextTxOrLeave(w, last)
              \/ /\ orphan \/ ~TxMayAlreadyHave(t)
                 /\ \E v \in Verdicts(t) :
                       loc' = [loc EXCEPT ![w].tx = t, ![w].verdict = v, ![w].last = last,
                                          ![w].code = CodeAfter(@, v)]
                 /\ Goto(w, "apply")
                 /\ UNCHANGED corralVars
    /\ UNCHANGED <<poolVars, chain, orphanVars, filterVars, batchVars, csAccept,
                   rejects, boundVars>>

\* "if (from && (invalid || from->fClient))", with the code that is sent.
SendsReject(w) ==
    LET missing == loc[w].verdict = "missing"
        invalid == loc[w].code # "none"
    IN  /\ invalid \/ missing
        /\ missing \/ loc[w].code = "public"
        /\ invalid \/ loc[w].tx \in FromLight

\* Act on the verdict, answer the sender and go on.
WorkerApply(w) ==
    /\ pc[w] = "apply"
    /\ LET t == loc[w].tx
           v == loc[w].verdict
       IN  /\ commitQ' = IF v = "accept" THEN commitQ \cup {t} ELSE commitQ
           /\ mapOrphans' = IF v = "missing" THEN mapOrphans \cup {t} ELSE mapOrphans
           /\ mapNonFinals' = IF v = "nonfinal" THEN mapNonFinals \cup {t} ELSE mapNonFinals
           /\ recentRejects' = IF v \in {"invalid", "known", "conflict"}
                               THEN recentRejects \cup {t} ELSE recentRejects
           /\ rejects' = IF SendsReject(w) THEN rejects \cup {<<t, v>>} ELSE rejects
           /\ known' = known \cup {t}
           /\ NextTxOrLeave(w, loc[w].last)
    /\ UNCHANGED <<queueVars, mempool, chain, txRecentlyInBlock, batchVars, csAccept,
                   boundVars>>

\* Mutant of WorkerLeave: the break does not leave the corral.
WorkerLeave_StaysInside(w) ==
    /\ pc[w] = "take"
    /\ ~Queued(queues)
    /\ GoIdle(w)
    /\ UNCHANGED <<queueVars, poolVars, chain, orphanVars, filterVars, batchVars,
                   csAccept, rejects, boundVars, corralVars>>

\* The queues are empty: break.
WorkerLeave(w) ==
    /\ pc[w] = "take"
    /\ ~Queued(queues)
    /\ ExitRegion(w)
    /\ GoIdle(w)
    /\ UNCHANGED <<queueVars, poolVars, chain, orphanVars, filterVars, batchVars,
                   csAccept, rejects, boundVars>>
-----------------------------------------------------------------------------
(* _CommitTxToMempool, in two steps: under cs_txmempool, then under csTxInQ. *)
(* The thread is in COMMITMENT or PAUSE and goes on at loc[t].then.          *)

\* Mutant of CommitSwap: the orphan pool is not told what has been added.
CommitSwap_NoBatch(t) ==
    /\ pc[t] = "swap"
    /\ mempool' = mempool \cup commitQ
    /\ commitQ' = {}
    /\ Goto(t, "requeue")
    /\ UNCHANGED <<queueVars, chain, orphanVars, filterVars, batchVars, csAccept,
                   rejects, loc, boundVars, corralVars>>

CommitSwap(t) ==
    /\ pc[t] = "swap"
    /\ mempool' = mempool \cup commitQ
    /\ commitQ' = {}
    /\ vProcessOrphans' = Append(vProcessOrphans, commitQ)
    /\ Goto(t, "requeue")
    /\ UNCHANGED <<queueVars, chain, orphanVars, filterVars, vPostBlock, csAccept,
                   rejects, loc, boundVars, corralVars>>

CommitRequeue(t) ==
    /\ pc[t] = "requeue"
    /\ queues' = Requeue(queues)
    /\ Goto(t, loc[t].then)
    /\ UNCHANGED <<poolVars, chain, orphanVars, filterVars, batchVars, csAccept,
                   rejects, loc, boundVars, corralVars>>

\* ThreadCommitToMempool wakes up, on a notification or after two seconds, and
\* finds something to do.
CommitterEnter(t) ==
    /\ pc[t] = "idle"
    /\ \/ commitQ # {}
       \/ queues.defer # <<>>
       \/ vProcessOrphans # <<>>
       \/ vPostBlock # <<>>
    /\ EnterRegion(t, COMMITMENT)
    /\ Goto(t, "swap")
    /\ loc' = [loc EXCEPT ![t].then = "leave"]
    /\ UNCHANGED <<queueVars, poolVars, chain, orphanVars, filterVars, batchVars,
                   csAccept, rejects, boundVars>>

\* The rest of CommitTxToMempool runs after its CORRAL block has been left.
LeaveCorral(t) ==
    /\ pc[t] = "leave"
    /\ ExitRegion(t)
    /\ Goto(t, "blocks")
    /\ UNCHANGED <<queueVars, poolVars, chain, orphanVars, filterVars, batchVars,
                   csAccept, rejects, loc, boundVars>>

\* Look at the orphan pool for a block that has been connected:
\* RemoveForBlock, and then ProcessOrphans.
NextBlock(t) ==
    /\ pc[t] = "blocks"
    /\ vPostBlock # <<>>
    /\ vPostBlock' = Tail(vPostBlock)
    /\ mapOrphans' = mapOrphans \ Head(vPostBlock)
    /\ mapNonFinals' = mapNonFinals \ Head(vPostBlock)
    /\ loc' = [loc EXCEPT ![t].batch = Head(vPostBlock), ![t].then = "blocks"]
    /\ Goto(t, "collect")
    /\ UNCHANGED <<queueVars, poolVars, chain, filterVars, vProcessOrphans, csAccept,
                   rejects, boundVars, corralVars>>

\* ... and for a batch of transactions that has entered the txpool.
NextBatch(t) ==
    /\ \/ pc[t] = "blocks" /\ vPostBlock = <<>>
       \/ pc[t] = "batches"
    /\ vProcessOrphans # <<>>
    /\ vProcessOrphans' = Tail(vProcessOrphans)
    /\ loc' = [loc EXCEPT ![t].batch = Head(vProcessOrphans), ![t].then = "batches"]
    /\ Goto(t, "collect")
    /\ UNCHANGED <<queueVars, poolVars, chain, orphanVars, filterVars, vPostBlock,
                   csAccept, rejects, boundVars, corralVars>>

NoMoreBatches(t) ==
    /\ \/ pc[t] = "blocks" /\ vPostBlock = <<>>
       \/ pc[t] = "batches"
    /\ vProcessOrphans = <<>>
    /\ Goto(t, IF t \in Committers THEN "limit" ELSE "decide")
    /\ UNCHANGED <<queueVars, poolVars, chain, orphanVars, filterVars, batchVars,
                   csAccept, rejects, loc, boundVars, corralVars>>

\* ProcessOrphans, first part (read lock): the non-finals that are final now
\* and the orphans that have an input from the batch.
Collect(t) ==
    /\ pc[t] = "collect"
    /\ LET finals == {n \in mapNonFinals : Final(n)}
           children == {o \in mapOrphans :
                           (Inputs(o) \cup Reads[o]) \cap loc[t].batch # {}}
       IN  loc' = [loc EXCEPT ![t].finals = finals, ![t].children = children \ finals,
                              ![t].batch = {}]
    /\ Goto(t, "erase")
    /\ UNCHANGED <<queueVars, poolVars, chain, orphanVars, filterVars, batchVars,
                   csAccept, rejects, boundVars, corralVars>>

\* Mutant of Erase: only what was in mapOrphans is enqueued.
Erase_OrphansOnly(t) ==
    /\ pc[t] = "erase"
    /\ loc' = [loc EXCEPT ![t].finals = @ \cap mapOrphans, ![t].children = @ \cap mapOrphans]
    /\ mapOrphans' = mapOrphans \ (loc[t].finals \cup loc[t].children)
    /\ mapNonFinals' = mapNonFinals \ (loc[t].finals \cup loc[t].children)
    /\ Goto(t, "enqueue")
    /\ UNCHANGED <<queueVars, poolVars, chain, filterVars, batchVars, csAccept,
                   rejects, boundVars, corralVars>>

\* Second part (write lock): take them out of the pool; one that is gone has
\* been enqueued by another thread.
Erase(t) ==
    /\ pc[t] = "erase"
    /\ LET there == mapOrphans \cup mapNonFinals
       IN  loc' = [loc EXCEPT ![t].finals = @ \cap there, ![t].children = @ \cap there]
    /\ mapOrphans' = mapOrphans \ (loc[t].finals \cup loc[t].children)
    /\ mapNonFinals' = mapNonFinals \ (loc[t].finals \cup loc[t].children)
    /\ Goto(t, "enqueue")
    /\ UNCHANGED <<queueVars, poolVars, chain, filterVars, batchVars, csAccept,
                   rejects, boundVars, corralVars>>

\* Third part: enqueue them, one lock of csTxInQ each, the non-finals first;
\* the order within the two, that of the ids, is left open.
EnqueueOrphan(t) ==
    /\ pc[t] = "enqueue"
    /\ LET front == IF loc[t].finals # {} THEN loc[t].finals ELSE loc[t].children
       IN  \/ \E o \in front :
                /\ queues' = TestConflictEnqueueTx(queues, o, TRUE)
                /\ loc' = [loc EXCEPT ![t].finals = @ \ {o}, ![t].children = @ \ {o}]
                /\ UNCHANGED pc
          \/ /\ front = {}
             /\ Goto(t, loc[t].then)
             /\ UNCHANGED <<queueVars, loc>>
    /\ UNCHANGED <<poolVars, chain, orphanVars, filterVars, batchVars, csAccept,
                   rejects, boundVars, corralVars>>

\* LimitMempoolSize, outside of the corral: Expire and TrimToSize drop
\* transactions with all their descendants.
LimitMempoolSize(t) ==
    /\ pc[t] = "limit"
    /\ \/ UNCHANGED mempool
       \/ /\ env.overflows
          /\ \E u \in mempool : mempool' = mempool \ Descendants({u})
    /\ GoIdle(t)
    /\ UNCHANGED <<queueVars, commitQ, chain, orphanVars, filterVars, batchVars,
                   csAccept, rejects, boundVars, corralVars>>
-----------------------------------------------------------------------------
(* TxAdmissionPause: enter PAUSE and flush the commit queue.               *)

\* Mutant of PauseEnter: the commit queue is not flushed.
PauseEnter_NoFlush(t) ==
    /\ pc[t] = "pause"
    /\ EnterRegion(t, PAUSE)
    /\ Goto(t, loc[t].then)
    /\ UNCHANGED <<queueVars, poolVars, chain, orphanVars, filterVars, batchVars,
                   csAccept, rejects, loc, boundVars>>

PauseEnter(t) ==
    /\ pc[t] = "pause"
    /\ EnterRegion(t, PAUSE)
    /\ Goto(t, "swap")
    /\ UNCHANGED <<queueVars, poolVars, chain, orphanVars, filterVars, batchVars,
                   csAccept, rejects, loc, boundVars>>
-----------------------------------------------------------------------------
(* ConnectTip and DisconnectTip                                            *)

\* What ConnectBlock demands of a block of transactions (external to this
\* module: the script and amount checks are not modelled).
ValidBlock(b) ==
    /\ b \cap Confirmed = {} /\ b \cap Bad = {}
    /\ \A t \in b : Final(t) /\ Inputs(t) \subseteq Utxo \cup b /\ Reads[t] \subseteq Utxo
    /\ \A t, u \in b : t # u => Disjoint(t, u)

\* ConnectBlock succeeds; txRecentlyInBlock is filled before the pause.
ConnectBlock(v, b) ==
    /\ pc[v] = "idle"
    /\ calls["connect"] < env.calls["connect"]
    /\ calls' = [calls EXCEPT !["connect"] = @ + 1]
    /\ ValidBlock(b)
    /\ txRecentlyInBlock' = txRecentlyInBlock \cup b
    /\ loc' = [loc EXCEPT ![v].batch = b, ![v].then = "flush"]
    /\ Goto(v, "pause")
    /\ UNCHANGED <<queueVars, poolVars, chain, orphanVars, recentRejects, known,
                   batchVars, csAccept, rejects, arrivals, env, corralVars>>

\* view.Flush(): the coins are those of the new tip.
FlushCoins(v) ==
    /\ pc[v] = "flush"
    /\ chain' = Append(chain, loc[v].batch)
    /\ Goto(v, "remove")
    /\ UNCHANGED <<queueVars, poolVars, orphanVars, filterVars, batchVars, csAccept,
                   rejects, loc, boundVars, corralVars>>

\* Mutant of RemovedForBlock: read-only inputs are not looked at.
RemovedForBlock_NoReaders(b) ==
    b \cup Descendants({m \in mempool \ b : Inputs(m) \cap SpentBy(b) # {}})

\* mempool.removeForBlock: the block's transactions, those that conflict with
\* them, those that read an output they consume, and the descendants of both.
RemovedForBlock(b) ==
    LET readers == {m \in mempool : Reads[m] \cap SpentBy(b) # {}}
        conflicts == {m \in mempool \ b : Inputs(m) \cap SpentBy(b) # {}}
    IN  b \cup Descendants(readers \cup conflicts)

\* Mutant of RemoveForBlock: the block is not handed to the orphan pool.
RemoveForBlock_NoBatch(v) ==
    /\ pc[v] = "remove"
    /\ mempool' = mempool \ RemovedForBlock(loc[v].batch)
    /\ recentRejects' = {}
    /\ ExitRegion(v)
    /\ GoIdle(v)
    /\ UNCHANGED <<queueVars, commitQ, chain, orphanVars, txRecentlyInBlock, known,
                   batchVars, csAccept, rejects, boundVars>>

\* removeForBlock, hand the block to the orphan processing, UpdateTip.
RemoveForBlock(v) ==
    /\ pc[v] = "remove"
    /\ mempool' = mempool \ RemovedForBlock(loc[v].batch)
    /\ vPostBlock' = Append(vPostBlock, loc[v].batch)
    /\ recentRejects' = {}
    /\ ExitRegion(v)
    /\ GoIdle(v)
    /\ UNCHANGED <<queueVars, commitQ, chain, orphanVars, txRecentlyInBlock, known,
                   vProcessOrphans, csAccept, rejects, boundVars>>

DisconnectTip(v) ==
    /\ pc[v] = "idle"
    /\ calls["disconnect"] < env.calls["disconnect"]
    /\ calls' = [calls EXCEPT !["disconnect"] = @ + 1]
    /\ chain # <<>>
    /\ loc' = [loc EXCEPT ![v].then = "rewind"]
    /\ Goto(v, "pause")
    /\ UNCHANGED <<queueVars, poolVars, chain, orphanVars, filterVars, batchVars,
                   csAccept, rejects, arrivals, env, corralVars>>

\* DisconnectBlock and Flush; the filters are reset; UpdateTip.
RewindCoins(v) ==
    /\ pc[v] = "rewind"
    /\ loc' = [loc EXCEPT ![v].batch = chain[Len(chain)]]
    /\ chain' = SubSeq(chain, 1, Len(chain) - 1)
    /\ txRecentlyInBlock' = {}
    /\ recentRejects' = {}
    /\ Goto(v, "resubmit")
    /\ UNCHANGED <<queueVars, poolVars, orphanVars, known, batchVars, csAccept,
                   rejects, boundVars, corralVars>>

\* The sequences of the transactions in S, each of them once.
Orders(S) == {s \in [1 .. Cardinality(S) -> S] : Range(s) = S}

\* ResubmitTransactions: the block, then the txpool, back into the queues, the
\* order within the two left open; or drop everything when the chain is rolled
\* back by hand.
Resubmit(v) ==
    /\ pc[v] = "resubmit"
    /\ \/ /\ \E block \in Orders(loc[v].batch), pool \in Orders(mempool) :
                queues' = EnqueueAll(queues, block \o pool)
          /\ UNCHANGED commitQ
       \/ /\ env.rollbacks
          /\ commitQ' = {}
          /\ UNCHANGED queueVars
    /\ mempool' = {}
    /\ ExitRegion(v)
    /\ GoIdle(v)
    /\ UNCHANGED <<chain, orphanVars, filterVars, batchVars, csAccept, rejects, boundVars>>
-----------------------------------------------------------------------------
(* sendrawtransaction: AcceptToMemoryPool                                  *)

SendRaw(r, t) ==
    /\ pc[r] = "idle"
    /\ calls["send"] < env.calls["send"]
    /\ t \notin mempool
    /\ calls' = [calls EXCEPT !["send"] = @ + 1]
    /\ loc' = [loc EXCEPT ![r].tx = t, ![r].then = "accept"]
    /\ Goto(r, "pause")
    /\ UNCHANGED <<queueVars, poolVars, chain, orphanVars, filterVars, batchVars,
                   csAccept, rejects, arrivals, env, corralVars>>

\* Mutant of AcceptCheck: no cs_accept.
AcceptCheck_NoLock(r) ==
    /\ pc[r] = "accept"
    /\ \E v \in Verdicts(loc[r].tx) :
          IF v = "accept"
          THEN Goto(r, "insert") /\ UNCHANGED <<loc, corralVars>>
          ELSE GoIdle(r) /\ ExitRegion(r)
    /\ UNCHANGED <<queueVars, poolVars, chain, orphanVars, filterVars, batchVars,
                   csAccept, rejects, boundVars>>

\* Validate with cs_accept held, which makes these calls sequential.
AcceptCheck(r) ==
    /\ pc[r] = "accept"
    /\ csAccept = NoThread
    /\ \E v \in Verdicts(loc[r].tx) :
          IF v = "accept"
          THEN /\ csAccept' = r
               /\ Goto(r, "insert")
               /\ UNCHANGED <<loc, corralVars>>
          ELSE /\ ExitRegion(r)
               /\ UNCHANGED csAccept
               /\ IF v = "missing" /\ env.alloworphans
                  THEN Goto(r, "addorphan") /\ UNCHANGED loc
                  ELSE GoIdle(r)
    /\ UNCHANGED <<queueVars, poolVars, chain, orphanVars, filterVars, batchVars,
                   rejects, boundVars>>

\* The end of ParallelAcceptToMemoryPool, and then _CommitTxToMempool.
AcceptInsert(r) ==
    /\ pc[r] = "insert"
    /\ commitQ' = commitQ \cup {loc[r].tx}
    /\ loc' = [loc EXCEPT ![r].then = "accepted"]
    /\ Goto(r, "swap")
    /\ UNCHANGED <<queueVars, mempool, chain, orphanVars, filterVars, batchVars,
                   csAccept, rejects, boundVars, corralVars>>

AcceptDone(r) ==
    /\ pc[r] = "accepted"
    /\ csAccept' = NoThread
    /\ ExitRegion(r)
    /\ Goto(r, "limit")
    /\ UNCHANGED <<queueVars, poolVars, chain, orphanVars, filterVars, batchVars,
                   rejects, loc, boundVars>>

\* alloworphans: the orphan is stored after the corral has been left.
AddOrphanByRpc(r) ==
    /\ pc[r] = "addorphan"
    /\ mapOrphans' = mapOrphans \cup {loc[r].tx}
    /\ GoIdle(r)
    /\ UNCHANGED <<queueVars, poolVars, chain, mapNonFinals, filterVars, batchVars,
                   csAccept, rejects, boundVars, corralVars>>
-----------------------------------------------------------------------------
(* FlushTxAdmission                                                        *)

FlushTxAdmission(r) ==
    /\ pc[r] = "idle"
    /\ calls["flush"] < env.calls["flush"]
    /\ calls' = [calls EXCEPT !["flush"] = @ + 1]
    /\ Goto(r, "again")
    /\ UNCHANGED <<queueVars, poolVars, chain, orphanVars, filterVars, batchVars,
                   csAccept, rejects, arrivals, env, loc, corralVars>>

\* The head of the loop.
FlushEnter(r) ==
    /\ pc[r] = "again"
    /\ EnterRegion(r, PAUSE)
    /\ Goto(r, "check")
    /\ UNCHANGED <<queueVars, poolVars, chain, orphanVars, filterVars, batchVars,
                   csAccept, rejects, loc, boundVars>>

\* Nothing is queued: done.  Otherwise CommitTxToMempool(CORRAL_TX_PAUSE),
\* which enters the region a second time.
FlushCheck(r) ==
    /\ pc[r] = "check"
    /\ LET empty == queues.in = <<>> /\ queues.defer = <<>>
       IN  \/ /\ empty /\ queues.orphan = <<>>
              /\ ExitRegion(r)
              /\ GoIdle(r)
           \/ /\ ~(empty /\ queues.orphan = <<>>)
              /\ EnterRegion(r, PAUSE)
              /\ loc' = [loc EXCEPT ![r].empty = empty, ![r].then = "leave"]
              /\ Goto(r, "swap")
    /\ UNCHANGED <<queueVars, poolVars, chain, orphanVars, filterVars, batchVars,
                   csAccept, rejects, boundVars>>

\* The end of the loop.  Both tests of txOrphanQ ask for empty as well, and the
\* loop ends when empty is set, so that alone decides, as it was read before
\* the commit.  The ten second timeout is not modelled: these calls take less.
FlushDecide(r) ==
    /\ pc[r] = "decide"
    /\ ExitRegion(r)
    /\ IF loc[r].empty
       THEN GoIdle(r)
       ELSE Goto(r, "again") /\ loc' = [loc EXCEPT ![r] = Idle]
    /\ UNCHANGED <<queueVars, poolVars, chain, orphanVars, filterVars, batchVars,
                   csAccept, rejects, boundVars>>
-----------------------------------------------------------------------------
Commit(t) == CommitSwap(t) \/ CommitRequeue(t)

ProcessOrphans(t) ==
    \/ LeaveCorral(t) \/ NextBlock(t) \/ NextBatch(t) \/ NoMoreBatches(t)
    \/ Collect(t) \/ Erase(t) \/ EnqueueOrphan(t)

Worker(w) == WorkerEnter(w) \/ WorkerTake(w) \/ WorkerApply(w) \/ WorkerLeave(w)

Committer(t) == CommitterEnter(t) \/ Commit(t) \/ ProcessOrphans(t) \/ LimitMempoolSize(t)

Validator(v) ==
    \/ \E b \in env.blocks : ConnectBlock(v, b)
    \/ DisconnectTip(v)
    \/ PauseEnter(v) \/ Commit(v)
    \/ FlushCoins(v) \/ RemoveForBlock(v) \/ RewindCoins(v) \/ Resubmit(v)

Rpc(r) ==
    \/ \E t \in env.raw : SendRaw(r, t)
    \/ FlushTxAdmission(r)
    \/ PauseEnter(r) \/ Commit(r)
    \/ AcceptCheck(r) \/ AcceptInsert(r) \/ AcceptDone(r) \/ AddOrphanByRpc(r)
    \/ FlushEnter(r) \/ FlushCheck(r) \/ ProcessOrphans(r) \/ FlushDecide(r)
    \/ LimitMempoolSize(r)

Next ==
    \/ \E t \in Txs : Arrive(t)
    \/ \E w \in Workers : Worker(w)
    \/ \E t \in Committers : Committer(t)
    \/ \E v \in Validators : Validator(v)
    \/ \E r \in Rpcs : Rpc(r)

Spec == Init /\ [][Next]_vars

\* Every thread that can go on does in the end.  Entering the corral needs
\* strong fairness: the region is free again and again but not all the time.
\* The commit thread sleeps for up to two seconds between two passes, which
\* lets the admission threads in.
Fairness ==
    /\ \A w \in Workers :
          /\ SF_vars(WorkerEnter(w))
          /\ WF_vars(WorkerTake(w) \/ WorkerApply(w) \/ WorkerLeave(w))
    /\ \A t \in Committers :
          /\ SF_vars(CommitterEnter(t))
          /\ WF_vars(Commit(t) \/ ProcessOrphans(t) \/ LimitMempoolSize(t))

FairSpec == Spec /\ Fairness
-----------------------------------------------------------------------------
\* Type correctness.
TypeOK ==
    /\ Range(AllQueued(queues)) \subseteq Txs
    /\ queues.conflicts \subseteq UNION Range(Bits)
    /\ commitQ \subseteq Txs /\ mempool \subseteq Txs
    /\ \A b \in Range(chain) : b \in env.blocks
    /\ mapOrphans \subseteq Txs /\ mapNonFinals \subseteq Txs
    /\ recentRejects \subseteq Txs /\ txRecentlyInBlock \subseteq Txs /\ known \subseteq Txs
    /\ \A b \in Range(vProcessOrphans) \cup Range(vPostBlock) : b \subseteq Txs
    /\ csAccept \in Rpcs \cup {NoThread}
    /\ \A t \in Threads : loc[t].tx \in Txs \cup {NoTx}
    /\ holds \in [Threads -> Regions \cup {0}] /\ depth \in [Threads -> 0 .. 2]

\* The transactions that admission threads have validated and not acted on.
InFlight == {loc[w].tx : w \in {x \in Workers : pc[x] = "apply"}}

\* The txpool never gets two transactions that spend the same output, although
\* the threads validate against the txpool only, not against one another or
\* the commit queue.  RespendDetector does not look at the commit queue.
NoDoubleSpend ==
    \A t, u \in mempool \cup commitQ : t # u => Disjoint(t, u)

\* What incomingConflicts is for: whatever may be validated in one round
\* (queued, being validated or waiting for the commit) spends different
\* outputs, and no transaction is among it twice.
RoundIsDisjoint ==
    csAccept = NoThread =>
        LET ready == queues.orphan \o queues.in
            taken == InFlight \cup commitQ
        IN  /\ \A i, j \in DOMAIN ready : i # j => Disjoint(ready[i], ready[j])
            /\ \A i \in DOMAIN ready : \A t \in taken : Disjoint(ready[i], t)
            /\ \A t, u \in taken : t # u => Disjoint(t, u)
            /\ \A w \in Workers : pc[w] = "apply" =>
                  /\ loc[w].tx \notin commitQ
                  /\ \A x \in Workers : x # w /\ pc[x] = "apply" => loc[x].tx # loc[w].tx

\* No thread is in the middle of replacing the chain tip.
TipIsSettled == \A v \in Validators : pc[v] \notin {"remove", "resubmit"}

\* sendrawtransaction enters PAUSE without cs_main, and PAUSE admits any number
\* of threads: a call can overlap the connection of a block.
Apart ==
    \/ env.calls["send"] = 0
    \/ env.calls["connect"] = 0 /\ env.calls["disconnect"] = 0

\* CTxMemPool::check: every input of a transaction in the txpool is an
\* unspent output of the chain or an output of another transaction in the
\* txpool, every read-only input is one of the chain.  Where the txpool is at
\* its limit this fails: a parent may be evicted after its child was validated
\* and before the child is committed.  It fails too when sendrawtransaction
\* validates against the old tip and inserts after removeForBlock.
PoolIsConsistent ==
    TipIsSettled /\ ~env.overflows /\ Apart => \A t \in mempool : HaveInputs(t)

\* "Stop txadmission, and flush the commitQ, before we flush coin state and
\* remove txn conflicts": while the tip is replaced nothing is validated by an
\* admission thread, and the commit queue is empty but for a transaction that a
\* call of sendrawtransaction has just put there and is about to commit.
PausedMeansFlushed ==
    \A v \in Validators :
        pc[v] \in {"flush", "remove", "rewind", "resubmit"} =>
            /\ InFlight = {}
            /\ \A t \in commitQ : \E r \in Rpcs :
                  pc[r] = "swap" /\ loc[r].then = "accepted" /\ loc[r].tx = t

\* What ProcessOrphans has found and not enqueued yet (vEnqueue).
Collected(t) == loc[t].finals \cup loc[t].children
BeingEnqueued == UNION {Collected(t) : t \in {x \in Threads : pc[x] = "enqueue"}}

\* Everywhere a transaction can be while the node still cares for it.
Tracked ==
    Range(AllQueued(queues)) \cup InFlight \cup commitQ \cup mempool \cup Confirmed
    \cup mapOrphans \cup mapNonFinals
    \cup BeingEnqueued \cup UNION {loc[v].batch : v \in Validators}

\* The transactions on which a batch of work on the orphan pool is pending.
Pending == UNION (Range(vProcessOrphans) \cup Range(vPostBlock)
                  \cup {loc[t].batch : t \in Threads})

\* No orphan is forgotten: when all its inputs have become available, the
\* orphan pool is going to be searched for the children of one of them, or a
\* thread has found the orphan and is about to enqueue it.  Two cases in which
\* nobody looks are left out: an output that a disconnection sets free, and
\* alloworphans, which stores the orphan outside of the corral, possibly after
\* the batch of its parent has been searched.
NoStrandedOrphan ==
    calls["disconnect"] = 0 /\ ~env.alloworphans =>
        \A o \in mapOrphans : HaveInputs(o) =>
            \/ (Inputs(o) \cup Reads[o]) \cap Pending # {}
            \/ \E t \in Threads : pc[t] = "erase" /\ o \in Collected(t)

\* A thread rejects t, the pool drops it for its size, a block replaces it, the
\* chain is rolled back, or t was in a block that was disconnected before its
\* post-block work was done, which then removes it from the orphan pool.
MayForget(t) ==
    \/ \E w \in Workers : pc[w] = "apply" /\ loc[w].tx = t /\ t \in recentRejects'
    \/ t \in recentRejects
    \/ \E x \in Threads : pc[x] \in {"limit", "remove"} /\ pc'[x] = "idle"
    \/ env.rollbacks /\ \E v \in Validators : pc[v] = "resubmit"
    \/ \E b \in Range(vPostBlock) \ Range(chain) : t \in b /\ vPostBlock' = Tail(vPostBlock)

\* No step loses a transaction: one that leaves a queue, a pool or a thread
\* arrives in another one, unless the code means to drop it.
NothingIsLost ==
    [][\A t \in Tracked : t \notin Tracked' => MayForget(t)]_vars

\* What has been queued is dealt with, however it collides in the filter: once
\* the last transaction has arrived the queues are empty in the end.
QueuesDrain == <>[](AllQueued(queues) = <<>> /\ commitQ = {})

\* txadmission.cpp: "Send a reject if we know who this tx came from, AND the
\* tx is invalid or its an orphan and the node is a light client."
RejectsAreDeserved ==
    \A r \in rejects : \/ r[2] \in {"invalid", "nonfinal"}
                       \/ r[2] = "missing" /\ r[1] \in FromLight

=============================================================================
