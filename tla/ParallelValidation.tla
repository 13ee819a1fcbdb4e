------------------------- MODULE ParallelValidation -------------------------
(***************************************************************************)
(* Block validation threads (validation/parallel.cpp) and the way they     *)
(* advance the chain (ActivateBestChain, ConnectTip and ConnectBlock of    *)
(* validation/validation.cpp).  Each block that arrives gets a thread; a   *)
(* thread gives up cs_main while it checks inputs and scripts, so several  *)
(* blocks are checked at a time, and the first to take cs_main again       *)
(* updates the coins and the tip.  The others are told to quit, or see     *)
(* that the work of the tip has changed.                                   *)
(*                                                                         *)
(* A locally mined block is connected by a thread that is not in the table *)
(* of validation threads and keeps cs_main throughout.  Block messages are *)
(* handled with parallel validation enabled, and reorganisations are not   *)
(* left to the Tailstorm forest (IsTailstormDagActivated() is FALSE).      *)
(*                                                                         *)
(* What cs_blockvalidationthread protects is done in one step, except that *)
(* DisconnectTip is divided at its flush: the coins and the tip are read   *)
(* without that lock.  Only summary blocks are validated here.  A script   *)
(* check queue appears by the promise of CheckRound: its verdict is exact  *)
(* unless the round was quit.                                              *)
(***************************************************************************)
EXTENDS Naturals, FiniteSets, Sequences

CONSTANTS
    Threads,        \* block message threads: IN_PARALLEL, in the table
    Miners,         \* threads with a block of our own: SINGLE_THREADED
    NoThread,
    Blocks,         \* the blocks that arrive
    Feeds,          \* the ways the blocks may be spread over the threads
    Root,           \* the tip at the start, a descendant of the genesis block
    NoBlock,
    Chain,          \* Chain[b]: the path from Root to b, both included
    Work,           \* chainWork() of a block
    Bits,           \* nBits of a block
    Size,           \* GetBlockSize() of a block
    Valid,          \* the blocks whose scripts succeed
    numScriptCheckQueues,
    IsChainNearlySyncd

\* vQueues: one queue is added for the Tailstorm forest.
Queues == 1..(numScriptCheckQueues + 1)
NoQueue == 0

Actors == Threads \union Miners
Tree == Blocks \union {Root}

Ancestors(b) == {Chain[b][i] : i \in DOMAIN Chain[b]}             \* b included
Height(b) == Len(Chain[b])
Parent(b) == Chain[b][Height(b) - 1]

ASSUME TreeAssumption ==
    /\ Root \notin Blocks /\ NoBlock \notin Tree
    /\ Chain \in [Tree -> Seq(Tree)]
    /\ Chain[Root] = <<Root>>
    /\ \A b \in Tree : Chain[b][1] = Root
    /\ Work \in [Tree -> Nat]
    /\ \A b \in Blocks : /\ Height(b) > 1
                         /\ Chain[b] = Append(Chain[Parent(b)], b)
                         /\ Work[b] > Work[Parent(b)]
    /\ Valid \subseteq Blocks
    /\ Feeds \subseteq [Actors -> SUBSET Blocks]
    /\ Threads \intersect Miners = {} /\ NoThread \notin Actors
    /\ numScriptCheckQueues \in Nat \ {0}

\* A block names its parent by hash, so no block is its own ancestor.
ASSUME NoCycles == \A b \in Blocks : b \notin Ancestors(Parent(b))

VARIABLES
    csMain,     \* the holder of cs_main
    sem,        \* semThreadCount
    entry,      \* mapBlockValidationThreads
    quitQueues, \* the script check queues with fQuit set
    have,       \* blocks with BLOCK_HAVE_DATA
    failed,     \* blocks with BLOCK_FAILED_VALID
    coins,      \* the blocks whose changes are in pcoinsTip
    tip,        \* chainActive.Tip()
    lookalike,  \* history: a thread has met another tip of the work it began with
    loc,        \* the local state of every thread
    feed        \* the blocks a thread may be given yet

vars == <<csMain, sem, entry, quitQueues, have, failed, coins, tip, lookalike,
          loc, feed>>
chain == <<have, failed, coins, tip, lookalike>>
table == <<sem, entry, quitQueues>>

NoEntry == [hash |-> NoBlock]

Idle == [pc |-> "idle", pblock |-> NoBlock, arrived |-> NoBlock,
         mostWork |-> NoBlock, fBlocksDisconnected |-> FALSE,
         toConnect |-> <<>>, startWork |-> 0,
         queue |-> NoQueue, oneDone |-> FALSE, result |-> "none"]

Init ==
    /\ csMain = NoThread
    /\ sem = numScriptCheckQueues
    /\ entry = [t \in Threads |-> NoEntry]
    /\ quitQueues = {}
    /\ have = {Root}
    /\ failed = {}
    /\ coins = {Root}
    /\ tip = Root
    /\ lookalike = FALSE
    /\ loc = [t \in Actors |-> Idle]
    /\ feed \in Feeds

-----------------------------------------------------------------------------
(***************************************************************************)
(* The table of validation threads.                                        *)
(***************************************************************************)
Registered == {t \in Threads : entry[t] # NoEntry}

\* Quit() of every thread of U: its queue throws its checks away, and the
\* thread is told.  A thread between two queues has no queue to tell.
QuitAll(U) ==
    /\ quitQueues' = quitQueues \union ({entry[u].queue : u \in U} \ {NoQueue})
    /\ entry' = [t \in Threads |->
                    IF t \in U
                    THEN [entry[t] EXCEPT !.fQuit = TRUE, !.fIsReorgInProgress = FALSE]
                    ELSE entry[t]]

QuitReceived_Never(t) == t \in Threads /\ FALSE
QuitReceived(t) == t \in Registered /\ entry[t].fQuit

\* Competing threads are known by the parent of the block they began with.
Competing(t, prev) == {u \in Registered \ {t} : entry[u].hashPrevBlock = prev}

IsReorgInProgress == \E t \in Registered : entry[t].fIsReorgInProgress

\* The table keeps nBits under the name of chain work.
ExceedsWorkBeingProcessed(b) ==
    \A t \in Registered : Work[b] > Bits[loc[t].arrived]

BlockExtendsChain(b) == \E t \in Registered : entry[t].hash = Parent(b)

\* The block a thread is connecting.
Current(t) == Head(loc[t].toConnect)

ChainWorkHasChanged_Never(t) == t \in Actors /\ FALSE
ChainWorkHasChanged(t) == Work[tip] # loc[t].startWork

\* A thread in ConnectBlock that finds x at the tip does not see that it is not the
\* parent of its block.
LooksAlike(t, x) ==
    /\ loc[t].pc \in {"queue", "begin", "inputs", "missing", "wait", "relock", "final"}
    /\ Work[x] = loc[t].startWork
    /\ x # Parent(Current(t))

-----------------------------------------------------------------------------
(***************************************************************************)
(* The best chain: among the linked blocks without a failed ancestor one   *)
(* with the most work.  The order of blocks with the same work             *)
(* (nSequenceId, which the winner of a race is given the lowest of) is     *)
(* left open.                                                              *)
(***************************************************************************)
Candidates == {b \in have : Ancestors(b) \subseteq have \ failed}

FindMostWorkChain == {b \in Candidates : \A c \in Candidates : Work[c] <= Work[b]}

Goto(t, pc) == loc' = [loc EXCEPT ![t].pc = pc]

\* ActivateBestChain returns, which releases cs_main.
Return(t) ==
    /\ csMain' = NoThread
    /\ loc' = [loc EXCEPT ![t] = [Idle EXCEPT !.pc = "finish", !.arrived = loc[t].arrived]]

\* One round of its loop is done: the next ones read their blocks from disk.
Again(t) ==
    loc' = [loc EXCEPT ![t] = [Idle EXCEPT !.pc = "again", !.arrived = loc[t].arrived,
                                           !.oneDone = TRUE]]

-----------------------------------------------------------------------------
(***************************************************************************)
(* A block arrives.                                                        *)
(***************************************************************************)
\* Every block is sent once: the request manager asks one peer at a time.
Send(b) == feed' = [t \in Actors |-> feed[t] \ {b}]

\* The grant of the semaphore is there: the thread is launched.
Launch(t, b) ==
    /\ loc[t].pc = "idle"
    /\ sem > 0
    /\ sem' = sem - 1
    /\ loc' = [loc EXCEPT ![t].pc = "init", ![t].pblock = b, ![t].arrived = b]
    /\ UNCHANGED <<csMain, entry, quitQueues, chain>>

\* All grants are taken.  When the chain is nearly synced and the table is
\* full, a block that competes with the ones in work is refused if it is at
\* least as large as the largest of them; otherwise the largest must make way.
Crowded(t, b) ==
    LET rivals  == {u \in Registered : entry[u].hashPrevBlock = Parent(b)}
        largest == {u \in rivals : \A v \in rivals :
                        Size[loc[v].arrived] <= Size[loc[u].arrived]}
        full    == IsChainNearlySyncd /\ Cardinality(Registered) >= numScriptCheckQueues
    IN
    /\ loc[t].pc = "idle"
    /\ sem = 0
    /\ \/ /\ ~full \/ rivals = {}
          /\ loc' = [loc EXCEPT ![t].pc = "grant", ![t].pblock = b, ![t].arrived = b]
          /\ UNCHANGED <<entry, quitQueues>>
       \/ \E u \in largest :
             /\ full
             /\ IF Size[b] >= Size[loc[u].arrived]
                THEN /\ loc' = [loc EXCEPT ![t].pc = "refused", ![t].pblock = b,
                                           ![t].arrived = b]
                     /\ UNCHANGED <<entry, quitQueues>>
                ELSE /\ QuitAll({u})
                     /\ loc' = [loc EXCEPT ![t].pc = "grant", ![t].pblock = b,
                                           ![t].arrived = b]
    /\ UNCHANGED <<csMain, sem, chain>>

HandleBlockMessageHelper(t) ==
    \E b \in feed[t] :
        /\ Launch(t, b) \/ Crowded(t, b)
        /\ Send(b)

WaitForGrant(t) ==
    /\ loc[t].pc = "grant"
    /\ sem > 0
    /\ sem' = sem - 1
    /\ Goto(t, "init")
    /\ UNCHANGED <<csMain, entry, quitQueues, chain>>

InitThread(t) ==
    /\ loc[t].pc = "init"
    /\ entry' = [entry EXCEPT ![t] =
                    [hash |-> loc[t].arrived, hashPrevBlock |-> Parent(loc[t].arrived),
                     queue |-> NoQueue, fQuit |-> FALSE, fIsValidating |-> FALSE,
                     fIsReorgInProgress |-> FALSE]]
    /\ Goto(t, "accept")
    /\ UNCHANGED <<csMain, sem, quitQueues, chain>>

\* generateblocks and submitblock: the threads that work on a block of no
\* more "work" (nBits again) are told to quit, but one whose block is being
\* extended may be spared (nMostWorkOurFork is not followed).
StopAllSummaryBlockValidationThreads(t) ==
    /\ loc[t].pc = "idle"
    /\ \E b \in feed[t] :
          /\ Send(b)
          /\ \E U \in SUBSET {u \in Registered : Bits[loc[u].arrived] <= Bits[b]} :
                QuitAll(U)
          /\ loc' = [loc EXCEPT ![t].pc = "accept", ![t].pblock = b, ![t].arrived = b]
    /\ UNCHANGED <<csMain, sem, chain>>

\* Under cs_main the block is stored, unless it or its parent is known to be
\* bad.  A refused block gets no further.
ProcessAcceptBlock(t) ==
    LET b  == loc[t].pblock
        ok == Ancestors(b) \intersect failed = {}
    IN
    /\ loc[t].pc \in {"accept", "refused"}
    /\ csMain = NoThread
    /\ have' = IF ok THEN have \union {b} ELSE have
    /\ IF loc[t].pc = "refused" THEN loc' = [loc EXCEPT ![t] = Idle]
                                ELSE Goto(t, IF ok THEN "activate" ELSE "finish")
    /\ UNCHANGED <<csMain, table, failed, coins, tip, lookalike>>

-----------------------------------------------------------------------------
(***************************************************************************)
(* The choice of the chain to make active.                                 *)
(***************************************************************************)
\* The path that remains to be connected once the fork point is the tip.
PathFrom(h, b) == SubSeq(Chain[b], h + 1, Height(b))

\* What a thread of the table goes for: its own block, if that extends the
\* tip, although another block may have as much work or more.
Targets(t) ==
    IF t \in Threads /\ loc[t].pblock # NoBlock /\ Parent(loc[t].pblock) = tip
    THEN {loc[t].pblock}
    ELSE FindMostWorkChain

\* Towards b from the tip x: roll back to the fork point, then connect.
Approach(t, x, b, disconnected) ==
    loc' = IF x \in Ancestors(b)
           THEN [loc EXCEPT ![t].pc = "connect", ![t].mostWork = b,
                            ![t].fBlocksDisconnected = disconnected,
                            ![t].toConnect = PathFrom(Height(x), b)]
           ELSE [loc EXCEPT ![t].pc = "reorg", ![t].mostWork = b,
                            ![t].fBlocksDisconnected = disconnected]

Aim(t, b) ==
    /\ csMain' = t
    /\ Approach(t, tip, b, FALSE)

\* One round of the loop of _ActivateBestChain.  A reorganisation that is in
\* progress may be stopped for a better chain and is not disturbed otherwise,
\* unless by a block that extends a block in work.
ActivateBestChain(t) ==
    /\ \/ loc[t].pc = "activate" /\ csMain = NoThread
       \/ loc[t].pc = "again" /\ csMain = t
    /\ \/ /\ \A b \in FindMostWorkChain : Work[b] <= Work[tip]
          /\ Return(t)
          /\ UNCHANGED <<entry, quitQueues>>
       \/ \E b \in Targets(t) :
             /\ \A c \in FindMostWorkChain : Work[c] > Work[tip]
             /\ IF loc[t].oneDone \/ ~IsReorgInProgress
                THEN Aim(t, b) /\ UNCHANGED <<entry, quitQueues>>
                ELSE IF ExceedsWorkBeingProcessed(b)
                THEN Aim(t, b) /\ QuitAll(Registered \ {t})
                ELSE /\ IF BlockExtendsChain(loc[t].pblock) THEN Aim(t, b) ELSE Return(t)
                     /\ UNCHANGED <<entry, quitQueues>>
    /\ UNCHANGED <<sem, chain>>

\* Before every block that is rolled back the thread may find that it has
\* been told to quit ...
ReorgQuit(t) ==
    /\ loc[t].pc = "reorg"
    /\ QuitReceived(t)
    /\ entry' = [entry EXCEPT ![t].fIsReorgInProgress = FALSE]
    /\ Return(t)
    /\ UNCHANGED <<sem, quitQueues, chain>>

\* ... or DisconnectTip, which flushes the coins first ...  The reorganisation is
\* marked once, before the first of the blocks.
DisconnectCoins(t) ==
    /\ loc[t].pc = "reorg"
    /\ ~QuitReceived(t)
    /\ entry' = IF t \in Registered /\ ~loc[t].fBlocksDisconnected
                THEN [entry EXCEPT ![t].fIsReorgInProgress = TRUE] ELSE entry
    /\ coins' = coins \ {tip}
    /\ Goto(t, "disconnect")
    /\ UNCHANGED <<csMain, sem, quitQueues, have, failed, tip, lookalike>>

\* The tip becomes x.
SetTip(x) ==
    /\ tip' = x
    /\ lookalike' = (lookalike \/ \E u \in Actors : LooksAlike(u, x))

\* ... and moves the tip then.
DisconnectTip(t) ==
    /\ loc[t].pc = "disconnect"
    /\ SetTip(Parent(tip))
    /\ Approach(t, Parent(tip), loc[t].mostWork, TRUE)
    /\ UNCHANGED <<csMain, table, have, failed, coins>>

-----------------------------------------------------------------------------
(***************************************************************************)
(* Connecting the blocks of the path, one at a time.                       *)
(***************************************************************************)
\* The path is at its end: go on if the best chain has grown meanwhile, even
\* if it is another chain by now; otherwise a round of the loop is done.
PathConnected(t) ==
    LET h == Height(loc[t].mostWork) IN
    /\ loc[t].pc = "connect"
    /\ loc[t].toConnect = <<>>
    /\ \E b \in FindMostWorkChain :
          IF Height(b) > h
          THEN loc' = [loc EXCEPT ![t].mostWork = b, ![t].toConnect = PathFrom(h, b)]
          ELSE Again(t)
    /\ UNCHANGED <<csMain, table, chain>>

\* Before every block: a better chain ends the round, and a tip that is not
\* the parent of the block ends the call.
ConnectTip(t) ==
    LET b == Head(loc[t].toConnect)
        better == \E c \in FindMostWorkChain : Work[c] > Work[loc[t].mostWork]
    IN
    /\ loc[t].pc = "connect"
    /\ loc[t].toConnect # <<>>
    /\ \/ better /\ Again(t) /\ UNCHANGED csMain
       \/ ~better /\ Parent(b) # tip /\ Return(t)
       \/ /\ ~better /\ Parent(b) = tip
          /\ loc' = [loc EXCEPT ![t].pc = "queue", ![t].startWork = Work[tip]]
          /\ UNCHANGED csMain
    /\ UNCHANGED <<table, chain>>

InUse(q) == \E t \in Actors : loc[t].queue = q
Marked(q) == \E t \in Registered : entry[t].queue = q

TakeQueue(t, q) ==
    /\ quitQueues' = quitQueues \ {q}
    /\ entry' = IF t \in Registered THEN [entry EXCEPT ![t].queue = q] ELSE entry
    /\ loc' = [loc EXCEPT ![t].pc = "begin", ![t].queue = q]

GetScriptCheckQueue_IdleOnly(t) ==
    /\ loc[t].pc = "queue"
    /\ \E q \in Queues :
          /\ \A p \in 1..(q - 1) : InUse(p)
          /\ TakeQueue(t, q)
    /\ UNCHANGED <<csMain, sem, chain>>

\* The first queue that is idle and has no mark in the table.  IsIdle() looks
\* at the workers of a queue, and they may be idle while a thread uses it, so
\* the mark is what keeps a queue from being shared.  A thread that is not in
\* the table leaves none.
GetScriptCheckQueue(t) ==
    /\ loc[t].pc = "queue"
    /\ \E q \in Queues :
          /\ ~Marked(q)
          /\ \A p \in 1..(q - 1) : Marked(p) \/ InUse(p)
          /\ TakeQueue(t, q)
    /\ UNCHANGED <<csMain, sem, chain>>

\* cs_main is released while the block is checked.
StartChecks(t) ==
    /\ csMain' = NoThread
    /\ Goto(t, "inputs")

BeginValidation_NoQuit(t) ==
    LET b == Current(t) IN
    /\ loc[t].pc = "begin"
    /\ t \in Threads
    /\ entry' = [entry EXCEPT ![t].hash = b, ![t].fIsValidating = TRUE]
    /\ StartChecks(t)
    /\ UNCHANGED <<sem, quitQueues, chain>>

\* A thread that may not begin leaves its mark in the table.  (The tip cannot
\* have passed the block: cs_main is held since ConnectTip compared them.)
BeginValidation(t) ==
    LET b == Current(t)
        same == \E u \in Registered \ {t} :
                   entry[u].hash = b /\ entry[u].fIsValidating /\ ~entry[u].fQuit
    IN
    /\ loc[t].pc = "begin"
    /\ t \in Threads
    /\ IF Work[tip] > Work[b]
       THEN Return(t) /\ UNCHANGED entry
       ELSE IF entry[t].fQuit \/ same
       THEN Return(t) /\ entry' = [entry EXCEPT ![t].hash = b]
       ELSE /\ StartChecks(t)
            /\ entry' = [entry EXCEPT ![t].hash = b, ![t].fIsValidating = TRUE]
    /\ UNCHANGED <<sem, quitQueues, chain>>

BeginSingleThreaded(t) ==
    /\ loc[t].pc = "begin"
    /\ t \in Miners
    /\ Goto(t, "inputs")
    /\ UNCHANGED <<csMain, table, chain>>

\* The checks end with a result and ConnectBlockScopeExit: the queue is quit
\* and waited for, and its mark is cleared.
EndChecks(t, result) ==
    /\ quitQueues' = quitQueues \union {loc[t].queue}
    /\ entry' = IF t \in Registered THEN [entry EXCEPT ![t].queue = NoQueue] ELSE entry
    /\ loc' = [loc EXCEPT ![t].queue = NoQueue, ![t].result = result,
                          ![t].pc = IF t \in Threads THEN "relock" ELSE "final"]

\* The inputs are looked up in pcoinsTip.  When the coins are not those of
\* the parent, because another thread changes them, some may be missing.
CheckInputs(t) ==
    /\ loc[t].pc = "inputs"
    /\ \/ Goto(t, "wait") /\ UNCHANGED <<entry, quitQueues>>
       \/ /\ coins # Ancestors(Parent(Current(t)))
          /\ Goto(t, "missing")
          /\ UNCHANGED <<entry, quitQueues>>
       \/ QuitReceived(t) /\ EndChecks(t, "stopped")
    /\ UNCHANGED <<csMain, sem, chain>>

\* With inputs missing the block is invalid, unless the thread has lost the
\* race.
InputsMissing(t) ==
    /\ loc[t].pc = "missing"
    /\ EndChecks(t, IF ChainWorkHasChanged(t) \/ QuitReceived(t)
                    THEN "stopped" ELSE "invalid")
    /\ UNCHANGED <<csMain, sem, chain>>

\* control.Wait(): the verdict on the scripts, which is worthless after a quit.
WaitForScripts(t) ==
    LET b == Current(t) IN
    /\ loc[t].pc = "wait"
    /\ \/ b \notin Valid /\ EndChecks(t, "invalid")
       \/ /\ b \in Valid \/ loc[t].queue \in quitQueues
          /\ EndChecks(t, IF QuitReceived(t) THEN "stopped" ELSE "ok")
    /\ UNCHANGED <<csMain, sem, chain>>

\* A thread of the table takes cs_main again.
SetLocks(t) ==
    /\ loc[t].pc = "relock"
    /\ csMain = NoThread
    /\ csMain' = t
    /\ Goto(t, "final")
    /\ UNCHANGED <<table, chain>>


-----------------------------------------------------------------------------
(***************************************************************************)
(* The end of ConnectBlock and of ConnectTip, under cs_main.               *)
(***************************************************************************)
\* InvalidBlockFound: the block and all that build on it are out, and the
\* loop looks for the next best chain.
InvalidBlockFound(t) ==
    /\ loc[t].pc = "final"
    /\ loc[t].result = "invalid"
    /\ failed' = failed \union {Current(t)}
    /\ Again(t)
    /\ UNCHANGED <<csMain, table, have, coins, tip, lookalike>>

\* The race is lost ...
RaceLost(t) ==
    /\ loc[t].pc = "final"
    /\ \/ loc[t].result = "stopped"
       \/ loc[t].result = "ok" /\ (ChainWorkHasChanged(t) \/ QuitReceived(t))
    /\ Return(t)
    /\ UNCHANGED <<table, chain>>

\* ... or won: the competitors are told before the coins are touched.
QuitCompetingThreads(t) ==
    /\ loc[t].pc = "final"
    /\ loc[t].result = "ok"
    /\ ~ChainWorkHasChanged(t)
    /\ ~QuitReceived(t)
    /\ QuitAll(Competing(t, Parent(Current(t))))
    /\ Goto(t, "flush")
    /\ UNCHANGED <<csMain, sem, chain>>

FlushCoins(t) ==
    /\ loc[t].pc = "flush"
    /\ coins' = coins \union {Current(t)}
    /\ Goto(t, "tip")
    /\ UNCHANGED <<csMain, table, have, failed, tip, lookalike>>

UpdateTip(t) ==
    /\ loc[t].pc = "tip"
    /\ SetTip(Current(t))
    /\ loc' = [loc EXCEPT ![t].pc = "connect", ![t].toConnect = Tail(@),
                          ![t].startWork = 0, ![t].result = "none"]
    /\ UNCHANGED <<csMain, table, have, failed, coins>>

-----------------------------------------------------------------------------
(***************************************************************************)
(* The end of a thread: the grant is given back before the entry is erased. *)
(***************************************************************************)
Post_ByAll(t) ==
    /\ loc[t].pc = "finish"
    /\ IF t \in Threads THEN Goto(t, "erase") ELSE loc' = [loc EXCEPT ![t] = Idle]
    /\ sem' = sem + 1
    /\ UNCHANGED <<csMain, entry, quitQueues, chain>>

Post_Forgotten(t) ==
    /\ loc[t].pc = "finish"
    /\ IF t \in Threads THEN Goto(t, "erase") ELSE loc' = [loc EXCEPT ![t] = Idle]
    /\ sem' = IF t \in Threads /\ ~QuitReceived(t) THEN sem + 1 ELSE sem
    /\ UNCHANGED <<csMain, entry, quitQueues, chain>>

Post(t) ==
    /\ loc[t].pc = "finish"
    /\ IF t \in Threads THEN Goto(t, "erase") ELSE loc' = [loc EXCEPT ![t] = Idle]
    /\ sem' = IF t \in Threads THEN sem + 1 ELSE sem
    /\ UNCHANGED <<csMain, entry, quitQueues, chain>>

Erase(t) ==
    /\ loc[t].pc = "erase"
    /\ entry' = [entry EXCEPT ![t] = NoEntry]
    /\ loc' = [loc EXCEPT ![t] = Idle]
    /\ UNCHANGED <<csMain, sem, quitQueues, chain>>

-----------------------------------------------------------------------------
\* What a thread does once it has a block.
Step(t) ==
    /\ \/ WaitForGrant(t) \/ InitThread(t) \/ ProcessAcceptBlock(t)
       \/ ActivateBestChain(t) \/ ReorgQuit(t)
       \/ DisconnectCoins(t) \/ DisconnectTip(t)
       \/ PathConnected(t) \/ ConnectTip(t) \/ GetScriptCheckQueue(t)
       \/ BeginValidation(t) \/ BeginSingleThreaded(t)
       \/ CheckInputs(t) \/ InputsMissing(t) \/ WaitForScripts(t)
       \/ SetLocks(t)
       \/ InvalidBlockFound(t) \/ RaceLost(t) \/ QuitCompetingThreads(t)
       \/ FlushCoins(t) \/ UpdateTip(t) \/ Post(t) \/ Erase(t)
    /\ UNCHANGED feed

Next ==
    \/ \E t \in Threads : HandleBlockMessageHelper(t)
    \/ \E t \in Miners : StopAllSummaryBlockValidationThreads(t)
    \/ \E t \in Actors : Step(t)

\* Every thread that has a block keeps running.
Spec == Init /\ [][Next]_vars /\ \A t \in Actors : WF_vars(Step(t))

-----------------------------------------------------------------------------
Checking(t) == loc[t].pc \in {"begin", "inputs", "missing", "wait"}

TypeOK ==
    /\ csMain \in Actors \union {NoThread}
    /\ sem \in 0..numScriptCheckQueues
    /\ \A t \in Registered :
          /\ entry[t].hash \in Blocks /\ entry[t].hashPrevBlock \in Tree
          /\ entry[t].queue \in Queues \union {NoQueue}
          /\ {entry[t].fQuit, entry[t].fIsValidating, entry[t].fIsReorgInProgress}
                \subseteq BOOLEAN
    /\ quitQueues \subseteq Queues
    /\ have \subseteq Tree /\ failed \subseteq Blocks
    /\ coins \subseteq Tree /\ tip \in Tree /\ lookalike \in BOOLEAN
    /\ \A t \in Actors :
          /\ {loc[t].pblock, loc[t].arrived, loc[t].mostWork} \subseteq Tree \union {NoBlock}
          /\ loc[t].toConnect \in Seq(Tree)
          /\ loc[t].queue \in Queues \union {NoQueue}
          /\ Checking(t) => loc[t].queue # NoQueue /\ loc[t].toConnect # <<>>

\* A script check queue is never shared by two blocks in validation: the mark
\* in the table protects it, or cs_main does for a thread without a mark
\* (GetScriptCheckQueue, SetLocks and the early return of BeginValidation).
QueueIsNotShared ==
    \A t, u \in Actors :
        t # u /\ Checking(t) /\ Checking(u) => loc[t].queue # loc[u].queue

\* A quit that reaches a thread reaches the scripts it waits for: no thread
\* that was told to quit has its queue go on with the checks (Quit and the
\* test of fQuit in BeginValidation).
QuitReachesScripts ==
    \A t \in Threads :
        loc[t].pc \in {"inputs", "missing", "wait"} /\ QuitReceived(t)
            => loc[t].queue \in quitQueues

\* Only blocks whose scripts were all checked and found good change the coins,
\* although a quit makes the verdict of the queue worthless (the tests of
\* QuitReceived in ConnectBlock).
OnlyValidBlocksConnect == coins \ {Root} \subseteq Valid

\* As long as no thread in ConnectBlock has met a tip of exactly the work it began with
\* that is not the parent of its block, the coins are those of the chain that ends in the
\* tip whenever nobody is between the flush of the coins and the update of the tip,
\* whoever won the races so far and whatever was rolled back (ChainWorkHasChanged, which
\* compares the tips by their work alone, and QuitCompetingThreads).
CoinsMatchTip ==
    ~lookalike /\ (\A t \in Actors : loc[t].pc \notin {"tip", "disconnect"})
        => coins = Ancestors(tip)

\* A block is marked invalid only if it is: a thread that finds inputs missing
\* because another one has changed the coins stops without a verdict (the
\* tests before the reject in ConnectBlockCanonicalOrdering).
OnlyInvalidBlocksFail == failed \intersect Valid = {}

Quiet == \A t \in Actors : loc[t].pc = "idle"

\* Whatever quits, lost races and full tables the threads meet, all of them
\* come to an end, and the grants, the queues and the table are as before.
ThreadsEnd ==
    <>[](Quiet /\ sem = numScriptCheckQueues /\ Registered = {} /\ csMain = NoThread)
=============================================================================
