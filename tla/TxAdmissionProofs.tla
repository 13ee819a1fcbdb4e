------------------------- MODULE TxAdmissionProofs -------------------------
(***************************************************************************)
(* What the admission of transactions guarantees, for any set of           *)
(* transactions, any assignment of filter bits and any number of threads.  *)
(*                                                                         *)
(* First that no step loses a transaction, action by action; then what Inv *)
(* implies; then induction over the natural numbers, which TxAdmissionInv  *)
(* needs for the loops over sequences; and at the end the theorems.        *)
(***************************************************************************)
EXTENDS TxAdmissionPool

\* Zenon proves most of the leaves; the others name their prover.
USE ZenonT(60)
USE DEF queueVars, poolVars, orphanVars, filterVars, batchVars, boundVars, corralVars

-----------------------------------------------------------------------------
(* No transaction is lost                                                  *)

\* Where a transaction is: in a place that the threads share, or with one of
\* them.
Shared ==
    Everything(queues) \cup commitQ \cup mempool \cup Confirmed \cup mapOrphans \cup mapNonFinals

\* What t carries with it.
Carried(t) ==
    {x \in Txs \cup {NoTx} :
        \/ t \in Workers /\ pc[t] = "apply" /\ x = loc[t].tx
        \/ pc[t] = "enqueue" /\ x \in Collected(t)
        \/ t \in Validators /\ x \in loc[t].batch}

\* The action of NothingIsLost.
NoLoss == \A x \in Tracked : x \notin Tracked' => MayForget(x)

\* What is tracked is shared or carried, ...
LEMMA TrackedIs ==
    Types /\ queues \in QueueType =>
        Tracked = Shared \cup UNION {Carried(t) : t \in Threads}
<1> SUFFICES ASSUME Types, queues \in QueueType
             PROVE  Tracked = Shared \cup UNION {Carried(t) : t \in Threads}
  OBVIOUS
<1> Range(AllQueued(queues)) = Everything(queues)
  BY AllIsEverything
<1> \A t \in Threads : loc[t].tx \in Txs \cup {NoTx} /\ Collected(t) \subseteq Txs
      /\ loc[t].batch \subseteq Txs
  BY DEF Types, Locals, Collected
<1>3. \A x \in Tracked : x \in Shared \/ \E t \in Threads : x \in Carried(t)
  <2> SUFFICES ASSUME NEW x \in Tracked, x \notin Shared PROVE \E t \in Threads : x \in Carried(t)
    OBVIOUS
  <2> CASE x \in InFlight
    BY Kinds DEF InFlight, Carried
  <2> CASE x \in BeingEnqueued
    BY DEF Carried, BeingEnqueued
  <2> CASE x \in UNION {loc[v].batch : v \in Validators}
    BY Kinds DEF Carried
  <2>4. \/ x \in Shared \/ x \in InFlight
        \/ x \in BeingEnqueued
        \/ x \in UNION {loc[v].batch : v \in Validators}
    BY DEF Tracked, Shared
  <2> QED BY <2>4
<1>4. Shared \subseteq Tracked
  BY DEF Tracked, Shared
<1>5. \A t \in Threads : \A x \in Carried(t) : x \in Tracked
  <2> SUFFICES ASSUME NEW t \in Threads, NEW x \in Carried(t) PROVE x \in Tracked
    OBVIOUS
  <2> CASE t \in Workers /\ pc[t] = "apply" /\ x = loc[t].tx
    <3> x \in InFlight
      BY DEF InFlight
    <3> QED BY DEF Tracked
  <2> CASE pc[t] = "enqueue" /\ x \in Collected(t)
    <3> x \in BeingEnqueued
      BY DEF BeingEnqueued
    <3> QED BY DEF Tracked
  <2> CASE t \in Validators /\ x \in loc[t].batch
    <3> x \in UNION {loc[v].batch : v \in Validators}
      OBVIOUS
    <3> QED BY DEF Tracked
  <2> QED BY DEF Carried
<1> QED BY <1>3, <1>4, <1>5

\* ... in the next state as well.
LEMMA TrackedIsNext ==
    (Types /\ queues \in QueueType =>
        Tracked = Shared \cup UNION {Carried(t) : t \in Threads})'
BY TrackedIs, PTL

\* What t does with the transactions it reaches is all that matters.
LEMMA NoLossBy ==
    ASSUME Inv, queues' \in QueueType, NEW t \in Threads, Tame(t),
           \A x \in Shared \cup Carried(t) :
               x \in Shared' \cup Carried(t)' \/ x \in Tracked' \/ MayForget(x)
    PROVE  NoLoss
<1>1. Tracked = Shared \cup UNION {Carried(u) : u \in Threads}
  BY TrackedIs DEF Inv, Control, Round
<1>2. Tracked' = Shared' \cup UNION {Carried(u)' : u \in Threads}
  <2>1. Types' /\ (queues \in QueueType)'
    BY DEF Tame
  <2>2. (Types /\ queues \in QueueType =>
            Tracked = Shared \cup UNION {Carried(u) : u \in Threads})'
    BY TrackedIsNext
  <2> QED BY <2>1, <2>2
<1>3. \A u \in Threads : u # t => Carried(u)' = Carried(u)
  BY DEF Tame, Carried, Collected
<1> QED BY <1>1, <1>2, <1>3 DEF NoLoss

\* A step that moves no transaction.
LEMMA NothingMoves ==
    ASSUME Inv, NEW t \in Threads, Tame(t),
           UNCHANGED <<queues, commitQ, mempool, chain, mapOrphans, mapNonFinals>>,
           pc[t] \notin {"apply", "enqueue"},
           t \in Validators => loc[t].batch \subseteq loc'[t].batch
    PROVE  NoLoss
<1>1. Shared' = Shared
  BY DEF Shared, Everything, Ready, Confirmed
<1>2. Carried(t) \subseteq Carried(t)'
  BY DEF Carried
<1>3. queues' \in QueueType
  BY DEF Inv, Round
<1> QED BY <1>1, <1>2, <1>3, NoLossBy

\* Nothing is carried by a thread that is neither validating nor enqueueing.
LEMMA CarriesNothing ==
    ASSUME NEW t \in Threads, t \notin Validators, pc[t] \notin {"apply", "enqueue"}
    PROVE  Carried(t) = {}
BY DEF Carried

\* No step loses a transaction.
LEMMA NextTracks == ASSUME EnqueueAllOK, Inv, Inv2 PROVE Next => NoLoss
<1>WorkerEnter. ASSUME NEW t \in Workers, WorkerEnter(t) PROVE NoLoss
  <2> USE <1>WorkerEnter
  <2> t \in Threads /\ Types /\ ThreadOK(t) /\ pc[t] = "idle" /\ t \notin Validators
    BY Kinds DEF Inv, Control, WorkerEnter
  <2>1. Tame(t)
    BY WorkerEnterTame
  <2>2. UNCHANGED <<queues, commitQ, mempool, chain, mapOrphans, mapNonFinals>>
    BY DEF WorkerEnter
  <2> QED BY <2>1, <2>2, NothingMoves
<1>WorkerLeave. ASSUME NEW t \in Workers, WorkerLeave(t) PROVE NoLoss
  <2> USE <1>WorkerLeave
  <2> t \in Threads /\ Types /\ ThreadOK(t) /\ pc[t] = "take" /\ t \notin Validators
    BY Kinds DEF Inv, Control, WorkerLeave
  <2>1. Tame(t)
    BY WorkerLeaveTame
  <2>2. UNCHANGED <<queues, commitQ, mempool, chain, mapOrphans, mapNonFinals>>
    BY DEF WorkerLeave
  <2> QED BY <2>1, <2>2, NothingMoves
<1>CommitterEnter. ASSUME NEW t \in Committers, CommitterEnter(t) PROVE NoLoss
  <2> USE <1>CommitterEnter
  <2> t \in Threads /\ Types /\ ThreadOK(t) /\ pc[t] = "idle" /\ t \notin Validators
    BY Kinds DEF Inv, Control, CommitterEnter
  <2>1. Tame(t)
    BY CommitterEnterTame
  <2>2. UNCHANGED <<queues, commitQ, mempool, chain, mapOrphans, mapNonFinals>>
    BY DEF CommitterEnter
  <2> QED BY <2>1, <2>2, NothingMoves
<1>LeaveCorral. ASSUME NEW t \in Committers \cup Rpcs, LeaveCorral(t) PROVE NoLoss
  <2> USE <1>LeaveCorral
  <2> t \in Threads /\ Types /\ ThreadOK(t) /\ pc[t] = "leave" /\ t \notin Validators
    BY Kinds DEF Inv, Control, LeaveCorral
  <2>1. Tame(t)
    BY LeaveCorralTame
  <2>2. UNCHANGED <<queues, commitQ, mempool, chain, mapOrphans, mapNonFinals>>
    BY DEF LeaveCorral
  <2> QED BY <2>1, <2>2, NothingMoves
<1>NextBatch. ASSUME NEW t \in Committers \cup Rpcs, NextBatch(t) PROVE NoLoss
  <2> USE <1>NextBatch
  <2> t \in Threads /\ Types /\ ThreadOK(t) /\ pc[t] \in {"blocks", "batches"}
        /\ t \notin Validators
    BY Kinds DEF Inv, Control, NextBatch
  <2>1. Tame(t)
    BY NextBatchTame
  <2>2. UNCHANGED <<queues, commitQ, mempool, chain, mapOrphans, mapNonFinals>>
    BY DEF NextBatch
  <2> QED BY <2>1, <2>2, NothingMoves
<1>NoMoreBatches. ASSUME NEW t \in Committers \cup Rpcs, NoMoreBatches(t) PROVE NoLoss
  <2> USE <1>NoMoreBatches
  <2> t \in Threads /\ Types /\ ThreadOK(t) /\ pc[t] \in {"blocks", "batches"}
        /\ t \notin Validators
    BY Kinds DEF Inv, Control, NoMoreBatches
  <2>1. Tame(t)
    BY NoMoreBatchesTame
  <2>2. UNCHANGED <<queues, commitQ, mempool, chain, mapOrphans, mapNonFinals>>
    BY DEF NoMoreBatches
  <2> QED BY <2>1, <2>2, NothingMoves
<1>Collect. ASSUME NEW t \in Committers \cup Rpcs, Collect(t) PROVE NoLoss
  <2> USE <1>Collect
  <2> t \in Threads /\ Types /\ ThreadOK(t) /\ pc[t] = "collect" /\ t \notin Validators
    BY Kinds DEF Inv, Control, Collect
  <2>1. Tame(t)
    BY CollectTame
  <2>2. UNCHANGED <<queues, commitQ, mempool, chain, mapOrphans, mapNonFinals>>
    BY DEF Collect
  <2> QED BY <2>1, <2>2, NothingMoves
<1>PauseEnter. ASSUME NEW t \in Validators \cup Rpcs, PauseEnter(t) PROVE NoLoss
  <2> USE <1>PauseEnter
  <2> t \in Threads /\ Types /\ ThreadOK(t) /\ pc[t] = "pause"
    BY Kinds DEF Inv, Control, PauseEnter
  <2>1. Tame(t) /\ loc'[t].batch = loc[t].batch
    BY PauseEnterTame DEF LocKeeps, LocTo
  <2>2. UNCHANGED <<queues, commitQ, mempool, chain, mapOrphans, mapNonFinals>>
    BY DEF PauseEnter
  <2> QED BY <2>1, <2>2, NothingMoves
<1>ConnectBlock. ASSUME NEW t \in Validators, NEW b \in env.blocks, ConnectBlock(t, b) PROVE NoLoss
  <2> USE <1>ConnectBlock
  <2> t \in Threads /\ Types /\ ThreadOK(t) /\ pc[t] = "idle"
    BY Kinds DEF Inv, Control, ConnectBlock
  <2>1. Tame(t) /\ loc[t].batch = {}
    BY ConnectBlockTame DEF ThreadOK, ValidatorOK, Connecting
  <2>2. UNCHANGED <<queues, commitQ, mempool, chain, mapOrphans, mapNonFinals>>
    BY DEF ConnectBlock
  <2> QED BY <2>1, <2>2, NothingMoves
<1>DisconnectTip. ASSUME NEW t \in Validators, DisconnectTip(t) PROVE NoLoss
  <2> USE <1>DisconnectTip
  <2> t \in Threads /\ Types /\ ThreadOK(t) /\ pc[t] = "idle"
    BY Kinds DEF Inv, Control, DisconnectTip
  <2>1. Tame(t) /\ loc'[t].batch = loc[t].batch
    BY DisconnectTipTame DEF LocKeeps, LocTo
  <2>2. UNCHANGED <<queues, commitQ, mempool, chain, mapOrphans, mapNonFinals>>
    BY DEF DisconnectTip
  <2> QED BY <2>1, <2>2, NothingMoves
<1>SendRaw. ASSUME NEW t \in Rpcs, NEW x \in env.raw, SendRaw(t, x) PROVE NoLoss
  <2> USE <1>SendRaw
  <2> t \in Threads /\ Types /\ ThreadOK(t) /\ pc[t] = "idle" /\ t \notin Validators
    BY Kinds DEF Inv, Control, SendRaw
  <2>1. Tame(t)
    BY SendRawTame
  <2>2. UNCHANGED <<queues, commitQ, mempool, chain, mapOrphans, mapNonFinals>>
    BY DEF SendRaw
  <2> QED BY <2>1, <2>2, NothingMoves
<1>AcceptCheck. ASSUME NEW t \in Rpcs, AcceptCheck(t) PROVE NoLoss
  <2> USE <1>AcceptCheck
  <2> t \in Threads /\ Types /\ ThreadOK(t) /\ pc[t] = "accept" /\ t \notin Validators
    BY Kinds DEF Inv, Control, AcceptCheck
  <2>1. Tame(t)
    BY AcceptCheckTame
  <2>2. UNCHANGED <<queues, commitQ, mempool, chain, mapOrphans, mapNonFinals>>
    BY DEF AcceptCheck
  <2> QED BY <2>1, <2>2, NothingMoves
<1>AcceptDone. ASSUME NEW t \in Rpcs, AcceptDone(t) PROVE NoLoss
  <2> USE <1>AcceptDone
  <2> t \in Threads /\ Types /\ ThreadOK(t) /\ pc[t] = "accepted" /\ t \notin Validators
    BY Kinds DEF Inv, Control, AcceptDone
  <2>1. Tame(t)
    BY AcceptDoneTame
  <2>2. UNCHANGED <<queues, commitQ, mempool, chain, mapOrphans, mapNonFinals>>
    BY DEF AcceptDone
  <2> QED BY <2>1, <2>2, NothingMoves
<1>FlushTxAdmission. ASSUME NEW t \in Rpcs, FlushTxAdmission(t) PROVE NoLoss
  <2> USE <1>FlushTxAdmission
  <2> t \in Threads /\ Types /\ ThreadOK(t) /\ pc[t] = "idle" /\ t \notin Validators
    BY Kinds DEF Inv, Control, FlushTxAdmission
  <2>1. Tame(t)
    BY FlushTxAdmissionTame
  <2>2. UNCHANGED <<queues, commitQ, mempool, chain, mapOrphans, mapNonFinals>>
    BY DEF FlushTxAdmission
  <2> QED BY <2>1, <2>2, NothingMoves
<1>FlushEnter. ASSUME NEW t \in Rpcs, FlushEnter(t) PROVE NoLoss
  <2> USE <1>FlushEnter
  <2> t \in Threads /\ Types /\ ThreadOK(t) /\ pc[t] = "again" /\ t \notin Validators
    BY Kinds DEF Inv, Control, FlushEnter
  <2>1. Tame(t)
    BY FlushEnterTame
  <2>2. UNCHANGED <<queues, commitQ, mempool, chain, mapOrphans, mapNonFinals>>
    BY DEF FlushEnter
  <2> QED BY <2>1, <2>2, NothingMoves
<1>FlushCheck. ASSUME NEW t \in Rpcs, FlushCheck(t) PROVE NoLoss
  <2> USE <1>FlushCheck
  <2> t \in Threads /\ Types /\ ThreadOK(t) /\ pc[t] = "check" /\ t \notin Validators
    BY Kinds DEF Inv, Control, FlushCheck
  <2>1. Tame(t)
    BY FlushCheckTame
  <2>2. UNCHANGED <<queues, commitQ, mempool, chain, mapOrphans, mapNonFinals>>
    BY DEF FlushCheck
  <2> QED BY <2>1, <2>2, NothingMoves
<1>FlushDecide. ASSUME NEW t \in Rpcs, FlushDecide(t) PROVE NoLoss
  <2> USE <1>FlushDecide
  <2> t \in Threads /\ Types /\ ThreadOK(t) /\ pc[t] = "decide" /\ t \notin Validators
    BY Kinds DEF Inv, Control, FlushDecide
  <2>1. Tame(t)
    BY FlushDecideTame
  <2>2. UNCHANGED <<queues, commitQ, mempool, chain, mapOrphans, mapNonFinals>>
    BY DEF FlushDecide
  <2> QED BY <2>1, <2>2, NothingMoves

\* From the commit queue into the txpool.
<1>CommitSwap. ASSUME NEW t \in Committers \cup Validators \cup Rpcs, CommitSwap(t) PROVE NoLoss
  <2> USE <1>CommitSwap
  <2> t \in Threads /\ Types /\ ThreadOK(t) /\ pc[t] = "swap" /\ queues \in QueueType
    BY Kinds DEF Inv, Control, CommitSwap, Round
  <2> Tame(t) /\ loc'[t].batch = loc[t].batch
    BY CommitSwapTame DEF LocKeeps, LocTo
  <2> /\ UNCHANGED <<queues, chain, mapOrphans, mapNonFinals>>
      /\ mempool' = mempool \cup commitQ
    BY DEF CommitSwap
  <2>3. Confirmed' = Confirmed
    BY DEF Confirmed
  <2>4. Shared \subseteq Shared'
    BY <2>3 DEF Shared
  <2>5. Carried(t) \subseteq Carried(t)'
    BY DEF Carried
  <2> QED BY <2>4, <2>5, NoLossBy

\* From a worker to where its verdict sends it.
<1>WorkerApply. ASSUME NEW t \in Workers, WorkerApply(t) PROVE NoLoss
  <2> USE <1>WorkerApply
  <2> /\ t \in Threads /\ Types /\ ThreadOK(t) /\ pc[t] = "apply" /\ t \notin Validators
      /\ queues \in QueueType
    BY Kinds DEF Inv, Control, WorkerApply, Round
  <2>1. Tame(t)
    BY WorkerApplyTame
  <2> /\ UNCHANGED <<queues, chain, mempool>>
      /\ commitQ \subseteq commitQ' /\ mapOrphans \subseteq mapOrphans'
      /\ mapNonFinals \subseteq mapNonFinals'
    BY DEF WorkerApply
  <2>3. Confirmed' = Confirmed
    BY DEF Confirmed
  <2>4. Shared \subseteq Shared'
    BY <2>3 DEF Shared
  <2>5. loc[t].verdict \in {"invalid", "nonfinal", "known", "conflict", "missing", "accept"}
    <3>1. loc[t].verdict # "" /\ loc[t] \in Locals
      BY DEF ThreadOK, WorkerOK, Types
    <3> QED BY <3>1 DEF Locals
  <2>6. \/ loc[t].tx \in commitQ' \cup mapOrphans' \cup mapNonFinals'
        \/ loc[t].tx \in recentRejects'
    BY <2>5 DEF WorkerApply
  <2>7. \A x \in Carried(t) : x = loc[t].tx
    BY DEF Carried
  <2>8. \A x \in Carried(t) : x \in Shared' \/ MayForget(x)
    BY <2>6, <2>7 DEF Shared, MayForget
  <2> QED BY <2>1, <2>4, <2>8, NoLossBy

\* What a connected block confirms leaves the orphan pool; a block that has been
\* disconnected meanwhile is the one exception.
<1>NextBlock. ASSUME NEW t \in Committers \cup Rpcs, NextBlock(t) PROVE NoLoss
  <2> USE <1>NextBlock
  <2> /\ t \in Threads /\ Types /\ ThreadOK(t) /\ pc[t] = "blocks" /\ t \notin Validators
      /\ queues \in QueueType
    BY Kinds DEF Inv, Control, NextBlock, Round
  <2>1. Tame(t)
    BY NextBlockTame
  <2> /\ UNCHANGED <<queues, commitQ, mempool, chain>>
      /\ mapOrphans' = mapOrphans \ Head(vPostBlock)
      /\ mapNonFinals' = mapNonFinals \ Head(vPostBlock)
      /\ vPostBlock # <<>> /\ vPostBlock' = Tail(vPostBlock)
    BY DEF NextBlock
  <2>3. Confirmed' = Confirmed
    BY DEF Confirmed
  <2>4. Head(vPostBlock) \in Range(vPostBlock)
    BY TailFacts DEF Types
  <2>5. \A x \in Head(vPostBlock) : x \in Confirmed \/ MayForget(x)
    BY <2>4 DEF Confirmed, MayForget
  <2>6. \A x \in Shared : x \in Shared' \/ MayForget(x)
    BY <2>3, <2>5 DEF Shared
  <2>7. Carried(t) = {}
    BY CarriesNothing
  <2> QED BY <2>1, <2>6, <2>7, NoLossBy

\* From the orphan pool to the thread that found it.
<1>Erase. ASSUME NEW t \in Committers \cup Rpcs, Erase(t) PROVE NoLoss
  <2> USE <1>Erase
  <2> /\ t \in Threads /\ Types /\ ThreadOK(t) /\ pc[t] = "erase" /\ t \notin Validators
      /\ queues \in QueueType
    BY Kinds DEF Inv, Control, Erase, Round
  <2> /\ Tame(t) /\ pc'[t] = "enqueue"
      /\ loc'[t].finals = loc[t].finals \cap (mapOrphans \cup mapNonFinals)
      /\ loc'[t].children = loc[t].children \cap (mapOrphans \cup mapNonFinals)
    BY EraseTame DEF PcTo, LocTo
  <2> /\ UNCHANGED <<queues, commitQ, mempool, chain>>
      /\ mapOrphans' = mapOrphans \ Collected(t)
      /\ mapNonFinals' = mapNonFinals \ Collected(t)
    BY DEF Erase, Collected
  <2>3. Confirmed' = Confirmed
    BY DEF Confirmed
  <2>4. \A x \in mapOrphans \cup mapNonFinals : x \in Collected(t) => x \in Carried(t)'
    <3>1. mapOrphans \subseteq Txs /\ mapNonFinals \subseteq Txs
      BY DEF Types
    <3> QED BY <3>1 DEF Carried, Collected
  <2>5. \A x \in Shared : x \in Shared' \cup Carried(t)'
    BY <2>3, <2>4 DEF Shared
  <2>6. Carried(t) = {}
    BY CarriesNothing
  <2> QED BY <2>5, <2>6, NoLossBy

\* The steps that may drop a transaction: the limit of the txpool, a block that
\* takes the place of what conflicts with it.
<1>LimitMempoolSize. ASSUME NEW t \in Committers \cup Rpcs, LimitMempoolSize(t) PROVE NoLoss
  <2> USE <1>LimitMempoolSize
  <2> t \in Threads /\ Types /\ ThreadOK(t) /\ pc[t] = "limit"
    BY Kinds DEF Inv, Control, LimitMempoolSize
  <2>1. pc'[t] = "idle"
    BY LimitMempoolSizeTame DEF PcTo
  <2> QED BY <2>1 DEF NoLoss, MayForget
<1>RemoveForBlock. ASSUME NEW t \in Validators, RemoveForBlock(t) PROVE NoLoss
  <2> USE <1>RemoveForBlock
  <2> t \in Threads /\ Types /\ ThreadOK(t) /\ pc[t] = "remove"
    BY Kinds DEF Inv, Control, RemoveForBlock
  <2>1. pc'[t] = "idle"
    BY RemoveForBlockTame DEF PcTo
  <2> QED BY <2>1 DEF NoLoss, MayForget
<1>AcceptInsert. ASSUME NEW t \in Rpcs, AcceptInsert(t) PROVE NoLoss
  <2> USE <1>AcceptInsert
  <2> /\ t \in Threads /\ Types /\ ThreadOK(t) /\ pc[t] = "insert" /\ t \notin Validators
      /\ queues \in QueueType
    BY Kinds DEF Inv, Control, AcceptInsert, Round
  <2>1. Tame(t)
    BY AcceptInsertTame
  <2> UNCHANGED <<queues, mempool, chain, mapOrphans, mapNonFinals>> /\ commitQ \subseteq commitQ'
    BY DEF AcceptInsert
  <2>3. Confirmed' = Confirmed
    BY DEF Confirmed
  <2>4. Shared \subseteq Shared'
    BY <2>3 DEF Shared
  <2> QED BY <2>1, <2>4, CarriesNothing, NoLossBy
<1>AddOrphanByRpc. ASSUME NEW t \in Rpcs, AddOrphanByRpc(t) PROVE NoLoss
  <2> USE <1>AddOrphanByRpc
  <2> /\ t \in Threads /\ Types /\ ThreadOK(t) /\ pc[t] = "addorphan" /\ t \notin Validators
      /\ queues \in QueueType
    BY Kinds DEF Inv, Control, AddOrphanByRpc, Round
  <2>1. Tame(t)
    BY AddOrphanByRpcTame
  <2> /\ UNCHANGED <<queues, commitQ, mempool, chain, mapNonFinals>>
      /\ mapOrphans \subseteq mapOrphans'
    BY DEF AddOrphanByRpc
  <2>3. Confirmed' = Confirmed
    BY DEF Confirmed
  <2>4. Shared \subseteq Shared'
    BY <2>3 DEF Shared
  <2> QED BY <2>1, <2>4, CarriesNothing, NoLossBy
<1>FlushCoins. ASSUME NEW t \in Validators, FlushCoins(t) PROVE NoLoss
  <2> USE <1>FlushCoins
  <2> t \in Threads /\ Types /\ ThreadOK(t) /\ pc[t] = "flush" /\ queues \in QueueType
    BY Kinds DEF Inv, Control, FlushCoins, Round
  <2> Tame(t) /\ loc'[t].batch = loc[t].batch
    BY FlushCoinsTame DEF LocKeeps, LocTo
  <2> /\ UNCHANGED <<queues, commitQ, mempool, mapOrphans, mapNonFinals>>
      /\ chain' = Append(chain, loc[t].batch)
    BY DEF FlushCoins
  <2>3. loc[t].batch \in env.blocks /\ chain \in Seq(env.blocks)
    BY DEF ThreadOK, ValidatorOK, Connecting, Types
  <2>4. Grown(chain, loc[t].batch, chain')
    BY <2>3, ChainGrows
  <2>5. Confirmed' = Confirmed \cup loc[t].batch
    BY <2>4 DEF Grown, Confirmed
  <2>6. Shared \subseteq Shared'
    BY <2>5 DEF Shared
  <2>7. Carried(t) \subseteq Carried(t)'
    BY DEF Carried
  <2> QED BY <2>6, <2>7, NoLossBy

\* The transactions of the tip go with the thread that disconnects it.
<1>RewindCoins. ASSUME NEW t \in Validators, RewindCoins(t) PROVE NoLoss
  <2> USE <1>RewindCoins
  <2> t \in Threads /\ Types /\ ThreadOK(t) /\ pc[t] = "rewind" /\ queues \in QueueType /\ Control
    BY Kinds DEF Inv, Control, RewindCoins, Round
  <2> chain # <<>> /\ chain \in Seq(env.blocks)
    BY DEF Control, Rewinding, Types
  <2> Tame(t) /\ pc'[t] = "resubmit" /\ loc'[t].batch = chain[Len(chain)]
    BY RewindCoinsTame DEF PcTo, LocTo
  <2> /\ UNCHANGED <<queues, commitQ, mempool, mapOrphans, mapNonFinals>>
      /\ chain' = SubSeq(chain, 1, Len(chain) - 1)
    BY DEF RewindCoins
  <2>3. Confirmed = Before \cup chain[Len(chain)]
    BY TipOnTop DEF Confirmed, Before
  <2>4. Before \subseteq Confirmed'
    <3>1. Shrunk(chain, chain')
      BY ChainShrinks
    <3> QED BY <3>1 DEF Shrunk, Before, Confirmed, Range
  <2>5. chain[Len(chain)] \subseteq Carried(t)'
    <3> loc'[t].batch \subseteq Txs
      BY DEF Tame, Types, Locals
    <3> QED BY DEF Carried
  <2>6. \A x \in Shared : x \in Shared' \cup Carried(t)'
    BY <2>3, <2>4, <2>5 DEF Shared
  <2>7. Carried(t) = {}
    <3> loc[t].batch = {}
      BY DEF ThreadOK, ValidatorOK, Connecting
    <3> QED BY Kinds DEF Carried
  <2> QED BY <2>6, <2>7, NoLossBy

\* What was deferred is ready or deferred again.
<1>Requeue. ASSUME NEW t \in Committers \cup Validators \cup Rpcs, CommitRequeue(t) PROVE NoLoss
  <2> USE <1>Requeue
  <2> t \in Threads /\ Types /\ ThreadOK(t) /\ pc[t] = "requeue" /\ queues \in QueueType
    BY Kinds DEF Inv, Control, CommitRequeue, Round
  <2> Tame(t) /\ loc'[t].batch = loc[t].batch
    BY CommitRequeueTame DEF LocKeeps, LocTo
  <2> /\ UNCHANGED <<commitQ, mempool, chain, mapOrphans, mapNonFinals>>
      /\ queues' = Requeue(queues)
    BY DEF CommitRequeue
  <2> queues' \in QueueType /\ Everything(queues') = Everything(queues)
    BY RequeueIsGood
  <2>4. Confirmed' = Confirmed
    BY DEF Confirmed
  <2>5. Everything(queues)' = Everything(queues')
    BY DEF Everything, Ready
  <2>6. Shared \subseteq Shared'
    BY <2>4, <2>5 DEF Shared
  <2>7. Carried(t) \subseteq Carried(t)'
    BY DEF Carried
  <2> QED BY <2>6, <2>7, NoLossBy

\* Orphans go back into the queues.
<1>EnqueueOrphan. ASSUME NEW t \in Committers \cup Rpcs, EnqueueOrphan(t) PROVE NoLoss
  <2> USE <1>EnqueueOrphan
  <2> /\ t \in Threads /\ Types /\ ThreadOK(t) /\ pc[t] = "enqueue" /\ t \notin Validators
      /\ queues \in QueueType /\ Separate(queues)
    BY Kinds DEF Inv, Control, EnqueueOrphan, Round
  <2> /\ Tame(t)
      /\ \/ \E o \in Collected(t) :
              /\ queues' = TestConflictEnqueueTx(queues, o, TRUE)
              /\ pc'[t] = "enqueue"
              /\ loc'[t].finals = loc[t].finals \ {o} /\ loc'[t].children = loc[t].children \ {o}
         \/ Collected(t) = {} /\ queues' = queues
    BY EnqueueOrphanTame DEF PcTo, LocTo
  <2> UNCHANGED <<commitQ, mempool, chain, mapOrphans, mapNonFinals>>
    BY DEF EnqueueOrphan
  <2> Confirmed' = Confirmed
    BY DEF Confirmed
  <2>4. Everything(queues)' = Everything(queues')
    BY DEF Everything, Ready
  <2> Collected(t) \subseteq Txs
    <3> loc[t] \in Locals
      BY DEF Types
    <3> QED BY DEF Locals, Collected
  <2> \A x \in Carried(t) : x \in Collected(t)
    BY Kinds DEF Carried
  <2> CASE Collected(t) = {} /\ queues' = queues
    <3> Shared \subseteq Shared'
      BY DEF Shared
    <3> QED BY NoLossBy
  <2> ASSUME NEW o \in Collected(t), queues' = TestConflictEnqueueTx(queues, o, TRUE),
             pc'[t] = "enqueue",
             loc'[t].finals = loc[t].finals \ {o}, loc'[t].children = loc[t].children \ {o}
      PROVE  NoLoss
    <3> queues' \in QueueType /\ Everything(queues') = Everything(queues) \cup {o}
      BY EnqueueOne DEF Extended
    <3>2. Shared \subseteq Shared' /\ o \in Shared'
      BY <2>4 DEF Shared
    <3>3. Carried(t) \subseteq Carried(t)' \cup {o}
      BY DEF Carried, Collected
    <3> QED BY <3>2, <3>3, NoLossBy
  <2> QED OBVIOUS

\* So do the transactions of a disconnected block.
<1>Resubmit. ASSUME NEW t \in Validators, Resubmit(t) PROVE NoLoss
  <2> USE <1>Resubmit
  <2> /\ t \in Threads /\ Types /\ ThreadOK(t) /\ pc[t] = "resubmit"
      /\ queues \in QueueType /\ Separate(queues) /\ mempool \subseteq Txs
    BY Kinds DEF Inv, Control, Resubmit, Round, Types
  <2>1. Tame(t)
    BY ResubmitTame
  <2> UNCHANGED <<chain, mapOrphans, mapNonFinals>>
    BY DEF Resubmit
  <2>3. \/ /\ \E b \in Orders(loc[t].batch), p \in Orders(mempool) :
                 queues' = EnqueueAll(queues, b \o p)
           /\ commitQ' = commitQ
        \/ env.rollbacks
    BY DEF Resubmit
  <2> CASE env.rollbacks
    BY DEF NoLoss, MayForget
  <2> ASSUME NEW b \in Orders(loc[t].batch), NEW p \in Orders(mempool),
             queues' = EnqueueAll(queues, b \o p), commitQ' = commitQ
      PROVE  NoLoss
    <3>1. loc[t].batch \subseteq Txs
      BY DEF Types, Locals
    <3>2. b \in Seq(Txs) /\ p \in Seq(Txs) /\ Range(b) = loc[t].batch /\ Range(p) = mempool
      BY <3>1, OrdersAreSeqs
    <3>3. b \o p \in Seq(Txs) /\ Range(b \o p) = Range(b) \cup Range(p)
      BY <3>2, RangeOfConcat
    <3> /\ queues' \in QueueType
        /\ Everything(queues') = Everything(queues) \cup (loc[t].batch \cup mempool)
      BY <3>2, <3>3 DEF Extended, EnqueueAllOK
    <3>5. Confirmed' = Confirmed
      BY DEF Confirmed
    <3>6. Everything(queues)' = Everything(queues')
      BY DEF Everything, Ready
    <3>7. Shared \subseteq Shared' /\ loc[t].batch \subseteq Shared'
      BY <3>5, <3>6 DEF Shared
    <3>8. Carried(t) \subseteq loc[t].batch
      BY Kinds DEF Carried
    <3> QED BY <2>1, <3>7, <3>8, NoLossBy
  <2> QED BY <2>3

\* Popped: validated, or known to be somewhere already.
<1>WorkerTake. ASSUME NEW t \in Workers, WorkerTake(t) PROVE NoLoss
  <2> USE <1>WorkerTake
  <2> DEFINE q == IF queues.orphan # <<>> THEN queues.orphan ELSE queues.in
             x == Head(q)
             c == IF queues.orphan # <<>> THEN "orphan" ELSE "in"
  <2> /\ t \in Threads /\ Types /\ ThreadOK(t) /\ pc[t] = "take" /\ t \notin Validators
      /\ queues \in QueueType /\ Separate(queues)
    BY Kinds DEF Inv, Control, WorkerTake, Round
  <2>1. Tame(t)
    BY WorkerTakeTame
  <2>2. UNCHANGED <<commitQ, mempool, chain, mapOrphans, mapNonFinals>>
    BY DEF WorkerTake
  <2>3. queues' \in QueueType /\ Everything(queues) = Everything(queues') \cup {x} /\ x \in Txs
    <3>1. queues' \in QueueType /\ Pops(queues, queues', c)
      BY TakePops
    <3>2. x = IF c = "in" THEN Head(queues.in) ELSE Head(queues.orphan)
      OBVIOUS
    <3> HIDE DEF q, x, c
    <3>3. Popped(queues, queues', x)
      BY <3>1, <3>2, PopIsGood
    <3> QED BY <3>1, <3>3 DEF Popped
  <2>4. \/ TxAlreadyHave(x)
        \/ /\ pc'[t] = "apply" /\ loc'[t].tx = x
    <3>1. \/ TxMayAlreadyHave(x)
          \/ /\ \E v \in Verdicts(x) :
                   loc' = [loc EXCEPT ![t].tx = x, ![t].verdict = v,
                                      ![t].last = loc[t].last \/ (queues.orphan # <<>>
                                        /\ Len(queues.orphan) = 1),
                                      ![t].code = CodeAfter(@, v)]
             /\ Goto(t, "apply")
      BY DEF WorkerTake
    <3> HIDE DEF q, x, c
    <3>2. TxMayAlreadyHave(x) => TxAlreadyHave(x)
      BY DEF TxMayAlreadyHave
    <3>3. Goto(t, "apply") => pc'[t] = "apply"
      BY DEF Goto, Types
    <3>4. ASSUME NEW v, loc' = [loc EXCEPT ![t].tx = x, ![t].verdict = v,
                                      ![t].last = loc[t].last \/ (queues.orphan # <<>>
                                        /\ Len(queues.orphan) = 1),
                                      ![t].code = CodeAfter(@, v)]
          PROVE  loc'[t].tx = x
      <4>1. loc \in [Threads -> Locals]
        BY DEF Types
      <4> QED BY <3>4, <4>1 DEF Locals
    <3> QED BY <3>1, <3>2, <3>3, <3>4
  <2> HIDE DEF x, q, c
  <2>5. TxAlreadyHave(x) => x \in Shared' \/ MayForget(x) \/ x \in Held
    <3>1. Confirmed' = Confirmed
      BY <2>2 DEF Confirmed
    <3> QED BY <2>2, <3>1 DEF TxAlreadyHave, Inv2, Chains, Shared, MayForget
  <2>6. x \in Shared' \cup Carried(t)' \/ MayForget(x) \/ x \in Held
    <3>1. pc'[t] = "apply" /\ loc'[t].tx = x => x \in Carried(t)'
      BY <2>3 DEF Carried
    <3> QED BY <2>4, <2>5, <3>1
  <2>7. \A y \in Shared : y \in Shared' \/ y = x
    <3>1. Confirmed' = Confirmed /\ Everything(queues)' = Everything(queues')
      BY <2>2 DEF Confirmed, Everything, Ready
    <3> QED BY <2>2, <2>3, <3>1 DEF Shared
  <2>8. Carried(t) = {}
    BY CarriesNothing
  <2>9. x \in Held => x \in Tracked'
    <3> SUFFICES ASSUME NEW v \in Validators, x \in loc[v].batch PROVE x \in Tracked'
      BY DEF Held
    <3>1. loc'[v] = loc[v]
      BY <2>1, Kinds DEF Tame
    <3>2. x \in UNION {loc'[u].batch : u \in Validators}
      BY <3>1
    <3> QED BY <3>2 DEF Tracked
  <2> QED BY <2>1, <2>3, <2>6, <2>7, <2>8, <2>9, NoLossBy

\* A transaction arrives.
<1>Arrive. ASSUME NEW x \in Txs, Arrive(x) PROVE NoLoss
  <2> USE <1>Arrive
  <2> /\ Types /\ queues \in QueueType /\ Separate(queues)
      /\ queues' = TestConflictEnqueueTx(queues, x, FALSE)
      /\ UNCHANGED <<commitQ, mempool, chain, mapOrphans, mapNonFinals, recentRejects,
                     txRecentlyInBlock, known, vProcessOrphans, vPostBlock, csAccept,
                     pc, loc, env, holds, depth>>
    BY DEF Inv, Control, Round, Arrive
  <2> queues' \in QueueType /\ Everything(queues) \subseteq Everything(queues')
    <3> FALSE \in BOOLEAN
      OBVIOUS
    <3>2. /\ Extended(queues, TestConflictEnqueueTx(queues, x, FALSE))
          /\ Everything(TestConflictEnqueueTx(queues, x, FALSE)) = Everything(queues) \cup {x}
      BY EnqueueOne
    <3>3. Extended(queues, queues') /\ Everything(queues') = Everything(queues) \cup {x}
      BY <3>2
    <3> QED BY <3>3 DEF Extended
  <2>3. Types'
    BY DEF Types
  <2>4. Tracked = Shared \cup UNION {Carried(u) : u \in Threads}
    BY TrackedIs
  <2>5. Tracked' = Shared' \cup UNION {Carried(u)' : u \in Threads}
    BY <2>3, TrackedIsNext
  <2>6. \A u \in Threads : Carried(u)' = Carried(u)
    BY DEF Carried, Collected
  <2>7. Shared \subseteq Shared'
    <3> Confirmed' = Confirmed /\ Everything(queues)' = Everything(queues')
      BY DEF Confirmed, Everything, Ready
    <3> QED BY DEF Shared
  <2> QED BY <2>4, <2>5, <2>6, <2>7 DEF NoLoss

\* One step for each kind of thread.
<1>ProcessOrphans. ASSUME NEW t \in Committers \cup Rpcs, ProcessOrphans(t) PROVE NoLoss
  BY <1>ProcessOrphans, <1>LeaveCorral, <1>NextBlock, <1>NextBatch, <1>NoMoreBatches, <1>Collect,
     <1>Erase, <1>EnqueueOrphan DEF ProcessOrphans
<1>Commit. ASSUME NEW t \in Committers \cup Validators \cup Rpcs, Commit(t) PROVE NoLoss
  BY <1>Commit, <1>CommitSwap, <1>Requeue DEF Commit
<1>Worker. ASSUME NEW t \in Workers, Worker(t) PROVE NoLoss
  BY <1>Worker, <1>WorkerEnter, <1>WorkerTake, <1>WorkerApply, <1>WorkerLeave DEF Worker
<1>Committer. ASSUME NEW t \in Committers, Committer(t) PROVE NoLoss
  <2> USE <1>Committer
  <2>1. t \in Committers \cup Validators \cup Rpcs /\ t \in Committers \cup Rpcs
    OBVIOUS
  <2> QED
    BY <2>1, <1>CommitterEnter, <1>Commit, <1>ProcessOrphans, <1>LimitMempoolSize
       DEF Committer
<1>Validator. ASSUME NEW t \in Validators, Validator(t) PROVE NoLoss
  <2> USE <1>Validator
  <2>1. t \in Committers \cup Validators \cup Rpcs /\ t \in Validators \cup Rpcs
    OBVIOUS
  <2> QED
    BY <2>1, <1>ConnectBlock, <1>DisconnectTip, <1>PauseEnter, <1>Commit, <1>FlushCoins,
       <1>RemoveForBlock, <1>RewindCoins, <1>Resubmit DEF Validator
<1>Rpc. ASSUME NEW t \in Rpcs, Rpc(t) PROVE NoLoss
  <2> USE <1>Rpc
  <2> /\ t \in Committers \cup Validators \cup Rpcs /\ t \in Validators \cup Rpcs
      /\ t \in Committers \cup Rpcs
    OBVIOUS
  <2> CASE \/ \E x \in env.raw : SendRaw(t, x)
           \/ FlushTxAdmission(t)
           \/ PauseEnter(t) \/ Commit(t)
           \/ AcceptCheck(t) \/ AcceptInsert(t) \/ AcceptDone(t) \/ AddOrphanByRpc(t)
    BY <1>SendRaw, <1>FlushTxAdmission, <1>PauseEnter, <1>Commit, <1>AcceptCheck,
       <1>AcceptInsert, <1>AcceptDone, <1>AddOrphanByRpc
  <2> CASE \/ FlushEnter(t) \/ FlushCheck(t) \/ ProcessOrphans(t) \/ FlushDecide(t)
           \/ LimitMempoolSize(t)
    BY <1>FlushEnter, <1>FlushCheck, <1>ProcessOrphans, <1>FlushDecide, <1>LimitMempoolSize
  <2> QED BY DEF Rpc
<1> QED BY <1>Arrive, <1>Worker, <1>Committer, <1>Validator, <1>Rpc DEF Next

-----------------------------------------------------------------------------
(* What Inv implies                                                        *)

\* The types.
LEMMA InvTypeOK == Inv => TypeOK
<1> SUFFICES ASSUME Inv PROVE TypeOK
  OBVIOUS
<1> Types /\ queues \in QueueType /\ \A t \in Threads : ThreadOK(t)
  BY DEF Inv, Control, Round
<1>2. Range(AllQueued(queues)) \subseteq Txs /\ queues.conflicts \subseteq UNION Range(Bits)
  <2> AllQueued(queues) \in Seq(Txs) /\ queues.conflicts \subseteq UNION Range(Bits)
    BY RangeOfThree DEF QueueType, AllQueued
  <2> QED BY RangeOfSeq
<1>3. \A b \in Range(chain) : b \in env.blocks
  BY RangeOfSeq DEF Types
<1>4. \A b \in Range(vProcessOrphans) \cup Range(vPostBlock) : b \subseteq Txs
  <2> Range(vProcessOrphans) \subseteq SUBSET Txs /\ Range(vPostBlock) \subseteq SUBSET Txs
    BY RangeOfSeq DEF Types
  <2> QED OBVIOUS
<1>5. \A t \in Threads : loc[t].tx \in Txs \cup {NoTx}
  BY DEF Types, Locals
<1>6. depth \in [Threads -> 0 .. 2]
  <2> ASSUME NEW t \in Threads PROVE depth[t] \in 0 .. 2
    <3> ThreadOK(t) /\ (t \in Workers \/ t \in Committers \/ t \in Validators \/ t \in Rpcs)
      BY AdmissionAssumption
    <3> CASE t \in Workers
      <4>1. depth[t] = 0 \/ depth[t] = 1
        BY DEF ThreadOK, WorkerOK
      <4> QED BY <4>1, UptoTwo
    <3> CASE t \in Committers
      BY UptoTwo DEF ThreadOK, CommitterOK
    <3> CASE t \in Validators
      BY UptoTwo DEF ThreadOK, ValidatorOK
    <3> CASE t \in Rpcs
      BY UptoTwo DEF ThreadOK, RpcOK
    <3> QED OBVIOUS
  <2> QED BY DEF Types
<1> QED BY <1>2, <1>3, <1>4, <1>5, <1>6 DEF TypeOK, Types

\* The txpool and the commit queue.
LEMMA InvNoDoubleSpend == Inv => NoDoubleSpend
BY DEF Inv, Unspent, NoDoubleSpend, Disjoint

\* What is ready, in flight or committed.
LEMMA InvRoundIsDisjoint == Inv => RoundIsDisjoint
<1> SUFFICES ASSUME Inv, csAccept = NoThread PROVE RoundIsDisjoint
  BY DEF RoundIsDisjoint
<1> DEFINE q == queues
           ready == queues.orphan \o queues.in
<1>1. ~Sending
  BY Kinds, AdmissionAssumption DEF Inv, AcceptLock, Accepting, Sending, SendingAt
<1>2. Taken = InFlight \cup commitQ
  BY <1>1 DEF Taken
<1>3. /\ DOMAIN ready \subseteq Nat /\ Len(q.orphan) \in Nat
      /\ \A i \in DOMAIN ready :
            \/ i \in DOMAIN q.orphan /\ ready[i] = q.orphan[i]
            \/ /\ i > Len(q.orphan) /\ i - Len(q.orphan) \in DOMAIN q.in
               /\ ready[i] = q.in[i - Len(q.orphan)]
  <2> q.orphan \in Seq(Txs) /\ q.in \in Seq(Txs)
    BY DEF Inv, Round, QueueType
  <2> QED BY ConcatFacts
<1> ASSUME NEW i \in DOMAIN ready
    PROVE  \/ i \in DOMAIN q.orphan /\ ready[i] = q.orphan[i]
           \/ /\ i > Len(q.orphan) /\ i - Len(q.orphan) \in DOMAIN q.in
              /\ ready[i] = q.in[i - Len(q.orphan)]
  BY <1>3
<1> Separate(q)
  BY DEF Inv, Round
<1>6. ASSUME NEW i \in DOMAIN ready, NEW j \in DOMAIN ready, i # j
      PROVE  Disjoint(ready[i], ready[j])
  <2> DEFINE n == Len(q.orphan)
  <2> CASE i \in DOMAIN q.orphan /\ ready[i] = q.orphan[i]
    <3> CASE j \in DOMAIN q.orphan /\ ready[j] = q.orphan[j]
      BY <1>6 DEF Separate
    <3> CASE j - n \in DOMAIN q.in /\ ready[j] = q.in[j - n]
      BY DEF Separate, Range, Disjoint
    <3> QED OBVIOUS
  <2>2. CASE i > n /\ i - n \in DOMAIN q.in /\ ready[i] = q.in[i - n]
    <3> CASE j \in DOMAIN q.orphan /\ ready[j] = q.orphan[j]
      BY <2>2 DEF Separate, Range, Disjoint
    <3> CASE j > n /\ j - n \in DOMAIN q.in /\ ready[j] = q.in[j - n]
      <4>1. i - n # j - n
        BY <1>3, <1>6, Differences
      <4> QED BY <2>2, <4>1 DEF Separate
    <3> QED OBVIOUS
  <2> QED BY <2>2
<1>7. ASSUME NEW i \in DOMAIN ready, NEW t \in Taken PROVE Disjoint(ready[i], t)
  <2> ready[i] \in Ready(q)
    BY DEF Ready, Range
  <2> QED BY DEF Inv, Round, Disjoint
<1>8. \A t, u \in Taken : t # u => Disjoint(t, u)
  BY DEF Inv, Round
<1>9. \A w \in Workers : pc[w] = "apply" =>
         /\ loc[w].tx \notin commitQ
         /\ \A x \in Workers : x # w /\ pc[x] = "apply" => loc[x].tx # loc[w].tx
  BY <1>1 DEF Inv, Round
<1> QED BY <1>2, <1>6, <1>7, <1>8, <1>9 DEF RoundIsDisjoint

\* A validator past its commit.
LEMMA InvPausedMeansFlushed == Inv => PausedMeansFlushed
<1> SUFFICES ASSUME Inv, NEW v \in Validators, pc[v] \in {"flush", "remove", "rewind", "resubmit"}
             PROVE  /\ InFlight = {}
                    /\ \A t \in commitQ : \E r \in Rpcs :
                          pc[r] = "swap" /\ loc[r].then = "accepted" /\ loc[r].tx = t
  BY DEF PausedMeansFlushed
<1> v \in Threads /\ PastSwap(v) /\ Control
  BY Kinds DEF PastSwap, Inv
<1>2. InFlight = {}
  BY CommitAlone
<1>3. \A t \in commitQ : Sends(t)
  BY DEF Inv, Flushed
<1> QED BY <1>2, <1>3 DEF Sends, SendingAt

-----------------------------------------------------------------------------
(* Induction                                                               *)

\* Induction over the natural numbers comes from here.
LOCAL INSTANCE WellFoundedInduction

\* A set of naturals has a least element, and so the natural numbers can be
\* exhausted step by step.
LEMMA Least ==
    ASSUME NEW T, T \subseteq Nat, T # {}
    PROVE  \E m \in T : \A n \in T : m <= n
<1> DEFINE R == OpToRel(<, Nat)
<1>1. IsWellFoundedOn(R, Nat)
    BY NatLessThanWellFounded
<1> HIDE DEF R
<1>2. \E m \in T : \A n \in T : ~(<<n, m>> \in R)
    BY <1>1, WFMin
<1> ASSUME NEW m \in T, NEW n \in T, ~(<<n, m>> \in R)
    PROVE  m <= n
    BY NatOrder DEF R, OpToRel
<1> QED
    BY <1>2

\* Induction, as a fact about sets.
LEMMA NatSetInduction == NatStepwise
<1> SUFFICES ASSUME NEW T, 0 \in T, \A n \in Nat : n \in T => n + 1 \in T
             PROVE  Nat \subseteq T
  BY DEF NatStepwise
<1> DEFINE U == Nat \ T
<1>1. SUFFICES ASSUME U # {} PROVE FALSE
  OBVIOUS
<1>2. PICK m \in U : \A n \in U : m <= n
  BY <1>1, Least
<1>3. m # 0 /\ m - 1 \in Nat /\ (m - 1) + 1 = m /\ m - 1 \notin U
  BY <1>2, NatPred
<1> QED BY <1>3

-----------------------------------------------------------------------------
(* The theorems                                                            *)

\* Every behaviour satisfies Inv.
THEOREM InvHolds == Spec => []Inv
<1>1. Inv /\ [Next]_vars => Inv'
  BY EnqueueAllWorks, NatSetInduction, NextInv, StutterInv
<1> QED BY InitInv, <1>1, PTL DEF Spec

\* Every behaviour satisfies Inv2.
LEMMA Inv2Holds == Spec => []Inv2
<1>1. Inv /\ Inv2 /\ [Next]_vars => Inv2'
  BY NextInv2
<1>2. Init => Inv2
  BY InitInv2
<1> QED BY <1>1, <1>2, InvHolds, PTL DEF Spec

\* The queues, the pools, the filters and the batches hold transactions, the
\* chain holds blocks of the scenario, and no thread is more than two regions
\* deep in the corral.
THEOREM TypesHold == Spec => []TypeOK
BY InvHolds, InvTypeOK, PTL

\* The txpool and the commit queue never hold two transactions that spend the
\* same output, whatever the parallel workers of ThreadTxAdmission,
\* sendrawtransaction, the commits and the blocks do: nobody looks for such a
\* conflict between the validation of a transaction and its entry into the pool.
THEOREM SpentOnce == Spec => []NoDoubleSpend
BY InvHolds, InvNoDoubleSpend, PTL

\* What the workers validate at the same time, and what they have accepted since
\* the last commit, spend different outputs: incomingConflicts makes it so, with
\* false positives of the filter and for orphans and resubmitted transactions as
\* well.
THEOREM RoundsDisjoint == Spec => []RoundIsDisjoint
BY InvHolds, InvRoundIsDisjoint, PTL

\* Once a validator has committed the queue under its TxAdmissionPause, no worker
\* holds a transaction and the commit queue has at most what sendrawtransaction
\* is about to commit itself, until the tip and the txpool have been updated.
THEOREM PauseFlushes == Spec => []PausedMeansFlushed
BY InvHolds, InvPausedMeansFlushed, PTL

\* No orphan stays behind when its parents have arrived: an orphan with all its
\* inputs at hand has a parent in a batch that ProcessOrphans has yet to go
\* through, or has been collected from one, unless blocks are disconnected or
\* sendrawtransaction adds orphans.
THEOREM NoOrphanStranded == Spec => []NoStrandedOrphan
<1>1. Inv2 => NoStrandedOrphan
  BY DEF Inv2
<1> QED BY <1>1, Inv2Holds, PTL

\* Wherever the tip is settled, each transaction of the txpool spends coins of the
\* tip or outputs of other transactions of the txpool: the pause that
\* ActivateBestChain takes keeps the admission from validating against one tip
\* and inserting under the next.
THEOREM PoolStaysConsistent == Spec => []PoolIsConsistent
BY Inv2PoolIsConsistent, Inv2Holds, PTL

\* No step of any thread loses a transaction: what leaves a queue, a map, a pool
\* or the hands of a thread is somewhere else in the next state, or the code means
\* to drop it (a duplicate, a reject, an eviction, a rollback).
THEOREM NothingGetsLost == Spec => NothingIsLost
<1>1. Inv /\ Inv2 /\ [Next]_vars => [\A t \in Tracked : t \notin Tracked' => MayForget(t)]_vars
  BY EnqueueAllWorks, NatSetInduction, NextTracks DEF NoLoss
<1> QED BY <1>1, InvHolds, Inv2Holds, PTL DEF Spec, NothingIsLost
=============================================================================
