---------------------- MODULE ParallelValidationProofs ----------------------
(***************************************************************************)
(* What parallel validation guarantees, for any tree of blocks and any     *)
(* number of threads, miners and script check queues.                      *)
(*                                                                         *)
(* The invariant says of each thread what its place in the code implies    *)
(* (ThreadInv).  A step of one thread keeps it for the others as long as   *)
(* it leaves them Undisturbed, which is shown once (OthersKeep); for each  *)
(* action remain the thread itself and the types.  The actions follow in   *)
(* the order in which a block goes through them, from its arrival to the   *)
(* end of the thread.  A second invariant (CoinsInv) relates the coins to  *)
(* the tip.                                                                *)
(***************************************************************************)
EXTENDS ParallelValidation, TLAPS

\* The types of the table's entries and of the local states.
Entries == [hash : Tree, hashPrevBlock : Tree, queue : Queues \union {NoQueue},
            fQuit : BOOLEAN, fIsValidating : BOOLEAN, fIsReorgInProgress : BOOLEAN]
Labels == {"idle", "grant", "init", "refused", "accept", "activate", "again", "reorg",
           "disconnect", "connect", "queue", "begin", "inputs", "missing", "wait",
           "relock", "final", "flush", "tip", "finish", "erase"}
Locals == [pc : Labels, pblock : Blocks \union {NoBlock}, arrived : Blocks \union {NoBlock},
           mostWork : Tree \union {NoBlock}, fBlocksDisconnected : BOOLEAN,
           toConnect : Seq(Tree), startWork : Nat,
           queue : Queues \union {NoQueue}, oneDone : BOOLEAN,
           result : {"none", "ok", "invalid", "stopped"}]

\* sem, failed and coins need no type here.
Types ==
    /\ csMain \in Actors \union {NoThread}
    /\ entry \in [Threads -> Entries \union {NoEntry}]
    /\ quitQueues \subseteq Queues
    /\ have \subseteq Tree
    /\ tip \in Tree
    /\ loc \in [Actors -> Locals]
    /\ feed \in [Actors -> SUBSET Blocks]

\* Where a thread has the block it is connecting at the head of its path.
Connecting == {"queue", "begin", "inputs", "missing", "wait", "relock", "final", "flush", "tip"}

\* Where a thread holds cs_main; a miner does while it checks, too.
Locked(t) ==
    \/ loc[t].pc \in {"again", "reorg", "disconnect", "connect", "queue", "begin", "final",
                      "flush", "tip"}
    \/ t \in Miners /\ loc[t].pc \in {"inputs", "missing", "wait"}

\* What a thread knows of the blocks it works on.
Aimed(t) ==
    /\ loc[t].pc # "idle" => loc[t].arrived \in Blocks
    /\ loc[t].pc \in {"grant", "init", "refused", "accept"} => loc[t].pblock \in Blocks
    /\ loc[t].pc \in Connecting => loc[t].toConnect # <<>>
    /\ loc[t].pc \in {"reorg", "disconnect", "connect"} \union Connecting
          => loc[t].mostWork \in Tree
    /\ loc[t].pc \in {"reorg", "disconnect"} => tip \notin Ancestors(loc[t].mostWork)

\* The table has the threads between InitThread and Erase.
Listed(t) ==
    t \in Registered <=> loc[t].pc \notin {"idle", "grant", "init", "refused"}

\* A thread of the table has marked the queue it uses; what a miner uses has no mark.
OwnMark(t) ==
    /\ IF Checking(t) THEN loc[t].queue # NoQueue ELSE loc[t].queue = NoQueue
    /\ t \in Threads /\ Checking(t) => entry[t].queue = loc[t].queue
    /\ t \in Miners /\ Checking(t) => \A u \in Registered : entry[u].queue # loc[t].queue

\* A queue in use is quit when its thread is told and only then, but for a thread
\* that was told before it took the queue.
Told(t) ==
    /\ Checking(t) /\ loc[t].queue \in quitQueues => QuitReceived(t)
    /\ loc[t].pc \in {"inputs", "missing", "wait"} /\ QuitReceived(t)
          => loc[t].queue \in quitQueues

\* The verdict "ok" is about a valid block and is kept until the tip is updated.
Judged(t) ==
    /\ loc[t].result = "ok" => /\ loc[t].pc \in {"relock", "final", "flush", "tip"}
                               /\ Current(t) \in Valid
    /\ loc[t].pc \in {"flush", "tip"} => loc[t].result = "ok"

ThreadInv(t) ==
    /\ Locked(t) => csMain = t
    /\ t \in Threads => Listed(t)
    /\ Aimed(t) /\ OwnMark(t) /\ Told(t) /\ Judged(t)

\* No queue has two marks.
MarksDiffer ==
    \A t, u \in Registered : t # u /\ entry[t].queue = entry[u].queue => entry[t].queue = NoQueue

IInv ==
    /\ Types
    /\ \A t \in Actors : ThreadInv(t)
    /\ MarksDiffer
    /\ OnlyValidBlocksConnect

\* What a step of thread t leaves alone of the other threads.
Undisturbed(t) ==
    /\ \A u \in Actors \ {t} : loc'[u] = loc[u]
    /\ csMain' # csMain => csMain \in {t, NoThread}
    /\ tip' # tip => csMain = t
    /\ \A u \in Threads \ {t} :
          \/ entry'[u] = entry[u]
          \/ /\ u \in Registered
             /\ entry'[u] \in Entries /\ entry'[u].fQuit /\ entry'[u].queue = entry[u].queue
             /\ entry[u].queue \in quitQueues' \union {NoQueue}
    /\ t \in Registered' => \/ t \in Registered /\ entry'[t].queue = entry[t].queue
                            \/ entry'[t].queue = NoQueue
                            \/ csMain = t
    /\ \A q \in quitQueues' \ quitQueues :
          \/ q = loc[t].queue
          \/ \E u \in Registered : entry[u].queue = q /\ u \in Registered' /\ entry'[u].fQuit
    /\ \A q \in quitQueues \ quitQueues' : \A u \in Actors \ {t} : loc[u].queue # q

\* How a step moves thread t: the fields it keeps.
Keeps(t) ==
    /\ loc'[t].arrived = loc[t].arrived /\ loc'[t].mostWork = loc[t].mostWork
    /\ loc'[t].toConnect = loc[t].toConnect /\ loc'[t].queue = loc[t].queue
    /\ loc'[t].result = loc[t].result /\ loc'[t].pblock = loc[t].pblock
    /\ loc'[t].startWork = loc[t].startWork

Rests(t) ==
    /\ loc'[t].arrived = loc[t].arrived /\ loc'[t].queue = NoQueue /\ loc'[t].result = "none"

MovesOnly(t) ==
    /\ loc' \in [Actors -> Locals]
    /\ \A u \in Actors \ {t} : loc'[u] = loc[u]

-----------------------------------------------------------------------------
\* Paths lead from Root through the tree.
LEMMA TreeFacts ==
    /\ \A b \in Tree : Chain[b] \in Seq(Tree) /\ Height(b) \in Nat /\ Root \in Ancestors(b)
    /\ \A b \in Blocks : Parent(b) \in Tree
    /\ \A b \in Tree, h \in Nat : PathFrom(h, b) \in Seq(Tree)
<1>1. \A b \in Tree : Chain[b] \in Seq(Tree) /\ Height(b) \in Nat /\ Height(b) > 0
  BY TreeAssumption DEF Tree, Height
<1>2. \A b \in Blocks : Parent(b) \in Tree
  BY <1>1, TreeAssumption DEF Tree, Height, Parent
<1>3. ASSUME NEW b \in Tree PROVE Root \in Ancestors(b)
  <2>1. 1 \in DOMAIN Chain[b] /\ Chain[b][1] = Root
    <3>1. 1 \in DOMAIN Chain[b]
      BY <1>1 DEF Height
    <3> QED BY <3>1, TreeAssumption, Zenon
  <2> QED BY <2>1, Zenon DEF Ancestors
<1>4. ASSUME NEW b \in Tree, NEW h \in Nat PROVE PathFrom(h, b) \in Seq(Tree)
  <2>1. \A i \in (h + 1) .. Height(b) : Chain[b][i] \in Tree
    BY <1>1 DEF Height
  <2> QED BY <1>1, <2>1 DEF PathFrom
<1> QED BY <1>1, <1>2, <1>3, <1>4, Zenon

\* NoEntry is no entry; a thread at rest is well typed.
LEMMA EntryFacts ==
    /\ NoEntry \notin Entries
    /\ Idle \in Locals
    /\ Idle.pc = "idle" /\ Idle.queue = NoQueue /\ Idle.result = "none"
<1>1. NoEntry.hash \notin Tree
  BY TreeAssumption, Zenon DEF NoEntry
<1>2. \A e \in Entries : e.hash \in Tree
  BY Zenon DEF Entries
<1>3. <<>> \in Seq(Tree)
  OBVIOUS
<1>4. Idle \in Locals
  BY <1>3, Zenon DEF Idle, Locals, Labels
<1>5. Idle.pc = "idle" /\ Idle.queue = NoQueue /\ Idle.result = "none"
  BY Zenon DEF Idle
<1> QED BY <1>1, <1>2, <1>4, <1>5, Zenon

\* The best chain ends in a block of the tree.
LEMMA MostWorkInTree == ASSUME Types PROVE FindMostWorkChain \subseteq Tree
  BY Zenon DEF Types, FindMostWorkChain, Candidates

-----------------------------------------------------------------------------
(***************************************************************************)
(* The others.                                                             *)
(***************************************************************************)

\* Marks, and cs_main for a miner, keep a queue from being shared.
LEMMA NotShared == ASSUME IInv PROVE QueueIsNotShared
<1> SUFFICES ASSUME NEW t \in Actors, NEW u \in Actors, t # u, Checking(t), Checking(u),
                    loc[t].queue = loc[u].queue
             PROVE  FALSE
  BY Zenon DEF QueueIsNotShared
<1>1. ThreadInv(t) /\ ThreadInv(u)
  BY Zenon DEF IInv
<1>2. \A v \in Threads : Checking(v) /\ ThreadInv(v) => v \in Registered
  BY Zenon DEF ThreadInv, Listed, Checking
<1>3. CASE t \in Miners /\ u \in Miners
  BY <1>1, <1>3, Zenon DEF ThreadInv, Locked, Checking
<1>4. CASE t \in Threads /\ u \in Threads
  BY <1>1, <1>2, <1>4, ZenonT(30) DEF ThreadInv, OwnMark, IInv, MarksDiffer
<1>5. CASE t \in Threads /\ u \in Miners
  BY <1>1, <1>2, <1>5, Zenon DEF ThreadInv, OwnMark
<1>6. CASE t \in Miners /\ u \in Threads
  BY <1>1, <1>2, <1>6, Zenon DEF ThreadInv, OwnMark
<1> QED BY <1>3, <1>4, <1>5, <1>6, Zenon DEF Actors

\* A step that leaves the others undisturbed keeps what is said of them.
LEMMA OthersKeep ==
    ASSUME IInv, NEW t \in Actors, Undisturbed(t), NEW u \in Actors \ {t}
    PROVE  ThreadInv(u)'
<1>1. ThreadInv(u) /\ Types /\ NoThread \notin Actors /\ Threads \intersect Miners = {}
  BY TreeAssumption, Zenon DEF IInv
<1>2. loc'[u] = loc[u]
  BY Zenon DEF Undisturbed
<1>3. (Locked(u) => csMain = u)'
  BY <1>1, <1>2 DEF Undisturbed, Locked, ThreadInv, Actors
<1>4. Aimed(u)'
  BY <1>1, <1>2, Zenon DEF Undisturbed, ThreadInv, Locked, Aimed
<1>5. \A v \in Threads \ {t} :
          /\ entry[v] # NoEntry <=> entry'[v] # NoEntry
          /\ entry[v] # NoEntry => entry'[v].queue = entry[v].queue
          /\ entry[v] # NoEntry /\ entry[v].fQuit => entry'[v].fQuit
  BY EntryFacts DEF Undisturbed, Registered
<1>6. u \in Threads => Listed(u)'
  BY <1>1, <1>2, <1>5, Zenon DEF ThreadInv, Listed, Registered
<1>7. OwnMark(u)'
  <2>1. (IF Checking(u) THEN loc[u].queue # NoQueue ELSE loc[u].queue = NoQueue)'
    BY <1>1, <1>2, Zenon DEF ThreadInv, OwnMark, Checking, NoQueue
  <2>2. (u \in Threads /\ Checking(u) => entry[u].queue = loc[u].queue)'
    BY <1>1, <1>2, <1>5, Zenon DEF ThreadInv, OwnMark, Checking, Listed, Registered
  <2>3. ASSUME u \in Miners, Checking(u), NEW v \in Registered'
        PROVE  entry'[v].queue # loc[u].queue
    <3>1. csMain = u
      BY <1>1, <2>3, Zenon DEF ThreadInv, Locked, Checking
    <3>2. CASE v = t
      BY <1>1, <2>1, <2>3, <3>1, <3>2, <1>2, Zenon DEF Undisturbed, ThreadInv, OwnMark, Checking
    <3>3. CASE v # t
      BY <1>1, <1>5, <2>3, <3>3, Zenon DEF ThreadInv, OwnMark, Registered
    <3> QED BY <3>2, <3>3, Zenon
  <2> QED BY <2>1, <2>2, <2>3, <1>2, Zenon DEF OwnMark, Checking
<1>8. Told(u)'
  <2>1. ASSUME Checking(u), loc[u].queue \in quitQueues'
        PROVE  QuitReceived(u)'
    <3>1. CASE loc[u].queue \in quitQueues
      BY <1>1, <1>5, <2>1, <3>1, Zenon DEF ThreadInv, Told, QuitReceived, Registered, Checking
    <3>2. CASE loc[u].queue = loc[t].queue
      <4>1. Checking(t)
        BY <1>1, <2>1, <3>2, Zenon DEF IInv, ThreadInv, OwnMark
      <4> QED BY <2>1, <3>2, <4>1, NotShared, Zenon DEF QueueIsNotShared
    <3>3. CASE \E v \in Registered :
                entry[v].queue = loc[u].queue /\ v \in Registered' /\ entry'[v].fQuit
      <4>1. PICK v \in Registered :
                entry[v].queue = loc[u].queue /\ v \in Registered' /\ entry'[v].fQuit
        BY <3>3, Zenon
      <4>2. loc[u].queue # NoQueue /\ u \in Threads
        BY <1>1, <2>1, <4>1, Zenon DEF ThreadInv, OwnMark, Actors
      <4>3. u \in Registered /\ entry[u].queue = loc[u].queue
        BY <1>1, <2>1, <4>2, Zenon DEF ThreadInv, OwnMark, Listed, Checking
      <4>4. v = u
        BY <4>1, <4>2, <4>3, Zenon DEF IInv, MarksDiffer
      <4> QED BY <4>1, <4>4, Zenon DEF QuitReceived
    <3> QED BY <2>1, <3>1, <3>2, <3>3, Zenon DEF Undisturbed
  <2>2. ASSUME loc[u].pc \in {"inputs", "missing", "wait"}, QuitReceived(u)'
        PROVE  loc[u].queue \in quitQueues'
    <3>1. u \in Threads /\ u \in Registered /\ Checking(u)
      BY <2>2, <1>5, Zenon DEF QuitReceived, Registered, Checking
    <3>2. CASE QuitReceived(u)
      BY <1>1, <2>2, <3>1, <3>2, Zenon DEF ThreadInv, Told, Undisturbed
    <3>3. CASE ~QuitReceived(u)
      <4>1. entry'[u] # entry[u]
        BY <2>2, <3>1, <3>3, Zenon DEF QuitReceived
      <4>2. entry[u].queue \in quitQueues' \union {NoQueue}
        BY <3>1, <4>1, Zenon DEF Undisturbed
      <4> QED BY <1>1, <3>1, <4>2, Zenon DEF ThreadInv, OwnMark
    <3> QED BY <3>2, <3>3, Zenon
  <2> QED BY <2>1, <2>2, <1>2, Zenon DEF Told, Checking
<1>9. Judged(u)'
  BY <1>1, <1>2, Zenon DEF ThreadInv, Judged, Current
<1> QED BY <1>3, <1>4, <1>6, <1>7, <1>8, <1>9, Zenon DEF ThreadInv

-----------------------------------------------------------------------------
(***************************************************************************)
(* Kinds of steps.                                                         *)
(***************************************************************************)

\* What is left to show of a step of thread t.
LEMMA StepKeeps ==
    ASSUME IInv, NEW t \in Actors, Undisturbed(t), Types', ThreadInv(t)', MarksDiffer',
           OnlyValidBlocksConnect'
    PROVE  IInv'
<1>1. \A u \in Actors : ThreadInv(u)'
  BY OthersKeep, Zenon
<1> QED BY <1>1, Zenon DEF IInv

\* A step that changes neither the table nor the queues.
LEMMA PrivateStep ==
    ASSUME IInv, NEW t \in Actors, MovesOnly(t), entry' = entry, quitQueues' = quitQueues,
           csMain' = csMain \/ csMain \in {t, NoThread}, tip' = tip \/ csMain = t,
           Types', ThreadInv(t)', OnlyValidBlocksConnect'
    PROVE  IInv'
<1>1. Undisturbed(t)
  BY Zenon DEF Undisturbed, MovesOnly, Registered
<1>2. MarksDiffer'
  BY Zenon DEF IInv, MarksDiffer, Registered
<1> QED BY <1>1, <1>2, StepKeeps, Zenon

\* A step that sets or clears no mark but the thread's own.
LEMMA MarksKept ==
    ASSUME IInv, NEW t \in Actors, Undisturbed(t),
           t \in Registered' => \/ t \in Registered /\ entry'[t].queue = entry[t].queue
                               \/ entry'[t].queue = NoQueue
    PROVE  MarksDiffer'
<1>1. \A u \in Threads \ {t} :
          /\ entry[u] # NoEntry <=> entry'[u] # NoEntry
          /\ entry[u] # NoEntry => entry'[u].queue = entry[u].queue
  BY EntryFacts, ZenonT(30) DEF Undisturbed, Registered
<1> QED BY <1>1 DEF IInv, MarksDiffer, Registered

\* A step that changes the thread's own entry and keeps or clears its mark.
LEMMA OwnEntry ==
    ASSUME IInv, NEW t \in Actors, MovesOnly(t), quitQueues' = quitQueues, tip' = tip,
           csMain' = csMain \/ csMain \in {t, NoThread},
           \A u \in Threads \ {t} : entry'[u] = entry[u],
           t \in Registered' => \/ t \in Registered /\ entry'[t].queue = entry[t].queue
                               \/ entry'[t].queue = NoQueue,
           Types', ThreadInv(t)', OnlyValidBlocksConnect'
    PROVE  IInv'
<1>1. Undisturbed(t)
  BY Zenon DEF Undisturbed, MovesOnly
<1>2. MarksDiffer'
  BY <1>1, MarksKept, Zenon
<1> QED BY <1>1, <1>2, StepKeeps, Zenon

\* What Quit() of the threads U changes.
LEMMA QuitAllFacts ==
    ASSUME IInv, NEW t \in Actors, NEW U \in SUBSET (Registered \ {t}), QuitAll(U)
    PROVE  /\ entry' \in [Threads -> Entries \union {NoEntry}]
           /\ quitQueues' \subseteq Queues
           /\ t \in Threads => entry'[t] = entry[t]
           /\ quitQueues \subseteq quitQueues'
           /\ \A q \in quitQueues' \ quitQueues : \E u \in U : entry[u].queue = q
           /\ \A u \in Threads \ U : entry'[u] = entry[u]
           /\ \A u \in U : /\ u \in Registered /\ entry'[u] \in Entries /\ entry'[u].fQuit
                           /\ entry'[u].queue = entry[u].queue
                           /\ entry[u].queue \in quitQueues' \union {NoQueue}
<1>1. Types /\ U \subseteq Threads /\ t \notin U
  BY Zenon DEF IInv, Registered
<1>2. ASSUME NEW u \in U
      PROVE  /\ u \in Registered /\ entry[u] \in Entries
             /\ entry'[u] \in Entries /\ entry'[u].fQuit /\ entry'[u].queue = entry[u].queue
             /\ entry[u].queue \in quitQueues' \union {NoQueue}
  <2> DEFINE e == [entry[u] EXCEPT !.fQuit = TRUE, !.fIsReorgInProgress = FALSE]
  <2>1. u \in Registered /\ entry[u] \in Entries
    BY <1>1, Zenon DEF Types, Registered
  <2>2. e \in Entries /\ e.fQuit /\ e.queue = entry[u].queue
    BY <2>1, ZenonT(30), Zenon DEF Entries
  <2>3. entry'[u] = e
    BY <1>1, ZenonT(30), Zenon DEF QuitAll
  <2>4. entry[u].queue \in quitQueues' \union {NoQueue}
    BY ZenonT(30), Zenon DEF QuitAll
  <2> QED BY <2>1, <2>2, <2>3, <2>4, Zenon
<1>3. \A u \in Threads \ U : entry'[u] = entry[u]
  BY ZenonT(30), Zenon DEF QuitAll
<1>4. \A u \in Threads : entry'[u] \in Entries \union {NoEntry}
  BY <1>1, <1>2, <1>3, Zenon DEF Types
<1>5. entry' \in [Threads -> Entries \union {NoEntry}]
  <2>1. DOMAIN entry' = Threads /\ entry' = [u \in DOMAIN entry' |-> entry'[u]]
    BY ZenonT(30), Zenon DEF QuitAll
  <2> QED BY <1>4, <2>1, Zenon
<1>6. \A u \in U : entry[u].queue \in Queues \union {NoQueue}
  BY <1>2, Zenon DEF Entries
<1>7. quitQueues' \subseteq Queues
  BY <1>1, <1>6, ZenonT(30), Zenon DEF QuitAll, Types
<1>8. /\ quitQueues \subseteq quitQueues'
      /\ \A q \in quitQueues' \ quitQueues : \E u \in U : entry[u].queue = q
  BY ZenonT(30), Zenon DEF QuitAll
<1> QED BY <1>1, <1>2, <1>3, <1>5, <1>7, <1>8, Zenon

\* A step that tells other threads to quit.
LEMMA QuitStep ==
    ASSUME IInv, NEW t \in Actors, NEW U \in SUBSET (Registered \ {t}), QuitAll(U),
           MovesOnly(t), tip' = tip, csMain' = csMain \/ csMain \in {t, NoThread},
           Types', ThreadInv(t)', OnlyValidBlocksConnect'
    PROVE  IInv'
<1>1. /\ t \in Threads => entry'[t] = entry[t]
      /\ quitQueues \subseteq quitQueues'
      /\ \A q \in quitQueues' \ quitQueues : \E u \in U : entry[u].queue = q
      /\ \A u \in Threads \ U : entry'[u] = entry[u]
      /\ \A u \in U : /\ u \in Registered /\ entry'[u] \in Entries /\ entry'[u].fQuit
                      /\ entry'[u].queue = entry[u].queue
                      /\ entry[u].queue \in quitQueues' \union {NoQueue}
  BY QuitAllFacts
<1>2. t \in Registered' => t \in Registered /\ entry'[t].queue = entry[t].queue
  BY <1>1, Zenon DEF Registered
<1>3. \A q \in quitQueues' \ quitQueues :
          \E u \in Registered : entry[u].queue = q /\ u \in Registered' /\ entry'[u].fQuit
  <2>1. \A u \in U : u \in Registered /\ u \in Registered' /\ entry'[u].fQuit
    BY <1>1, EntryFacts, Zenon DEF Registered
  <2> QED BY <1>1, <2>1, Zenon
<1>4. Undisturbed(t)
  BY <1>1, <1>2, <1>3, Zenon DEF Undisturbed, MovesOnly
<1>5. MarksDiffer'
  BY <1>2, <1>4, MarksKept, Zenon
<1> QED BY <1>4, <1>5, StepKeeps, Zenon

-----------------------------------------------------------------------------
(***************************************************************************)
(* The local state and the entry of the thread that moves.                 *)
(***************************************************************************)

LEMMA MoveFacts ==
    ASSUME Types, NEW t \in Actors, NEW l \in Locals, loc' = [loc EXCEPT ![t] = l]
    PROVE  MovesOnly(t) /\ loc'[t] = l
  BY Zenon DEF Types, MovesOnly

\* What the ways to move a thread do to its local state.
LEMMA GotoFacts ==
    ASSUME Types, NEW t \in Actors, NEW pc \in Labels, Goto(t, pc)
    PROVE  MovesOnly(t) /\ Keeps(t) /\ loc'[t].pc = pc
<1> DEFINE l == [loc[t] EXCEPT !.pc = pc]
<1>1. loc[t] \in Locals
  BY Zenon DEF Types
<1>2. l \in Locals
  BY <1>1, Zenon DEF Locals
<1>3. loc' = [loc EXCEPT ![t] = l]
  BY Zenon DEF Goto
<1>4. loc'[t] = l
  BY <1>3, Zenon DEF Types
<1>5. MovesOnly(t)
  BY <1>2, <1>3, Zenon DEF Types, MovesOnly
<1>6. /\ l.pc = pc /\ l.arrived = loc[t].arrived /\ l.mostWork = loc[t].mostWork
      /\ l.toConnect = loc[t].toConnect /\ l.queue = loc[t].queue
      /\ l.result = loc[t].result /\ l.pblock = loc[t].pblock
      /\ l.startWork = loc[t].startWork
  BY <1>1, Zenon DEF Locals
<1> QED BY <1>4, <1>5, <1>6, Zenon DEF Keeps

LEMMA AgainFacts ==
    ASSUME Types, NEW t \in Actors, Again(t)
    PROVE  MovesOnly(t) /\ Rests(t) /\ loc'[t].pc = "again"
<1> DEFINE l == [Idle EXCEPT !.pc = "again", !.arrived = loc[t].arrived, !.oneDone = TRUE]
<1>1. loc[t].arrived \in Blocks \union {NoBlock}
  BY Zenon DEF Types, Locals
<1>2. l \in Locals
  BY <1>1, EntryFacts, ZenonT(30), Zenon DEF Locals, Labels
<1>3. MovesOnly(t) /\ loc'[t] = l
  BY <1>2, MoveFacts, ZenonT(30), Zenon DEF Again
<1>4. l.pc = "again" /\ l.arrived = loc[t].arrived /\ l.queue = NoQueue /\ l.result = "none"
  BY Zenon DEF Idle
<1> QED BY <1>3, <1>4, Zenon DEF Rests

LEMMA ReturnFacts ==
    ASSUME Types, NEW t \in Actors, Return(t)
    PROVE  MovesOnly(t) /\ Rests(t) /\ loc'[t].pc = "finish" /\ csMain' = NoThread
<1> DEFINE l == [Idle EXCEPT !.pc = "finish", !.arrived = loc[t].arrived]
<1>1. loc[t].arrived \in Blocks \union {NoBlock}
  BY Zenon DEF Types, Locals
<1>2. l \in Locals
  BY <1>1, EntryFacts, ZenonT(30), Zenon DEF Locals, Labels
<1>3. MovesOnly(t) /\ loc'[t] = l /\ csMain' = NoThread
  BY <1>2, MoveFacts, ZenonT(30), Zenon DEF Return
<1>4. l.pc = "finish" /\ l.arrived = loc[t].arrived /\ l.queue = NoQueue /\ l.result = "none"
  BY Zenon DEF Idle
<1> QED BY <1>3, <1>4, Zenon DEF Rests

\* A thread of the table gets another entry.
LEMMA EntryUpdate ==
    ASSUME Types, NEW t \in Threads, NEW e \in Entries, entry' = [entry EXCEPT ![t] = e]
    PROVE  /\ entry' \in [Threads -> Entries \union {NoEntry}]
           /\ entry'[t] = e /\ t \in Registered'
           /\ \A u \in Threads \ {t} : entry'[u] = entry[u]
  BY EntryFacts, Zenon DEF Types, Registered

-----------------------------------------------------------------------------
(***************************************************************************)
(* A block arrives.                                                        *)
(***************************************************************************)

\* A thread is given the block b.
LEMMA ReceiveFacts ==
    ASSUME IInv, NEW t \in Actors, NEW b \in Blocks, loc[t].pc = "idle",
           NEW pc \in {"grant", "init", "refused", "accept"}, pc = "accept" => t \notin Threads,
           loc' = [loc EXCEPT ![t].pc = pc, ![t].pblock = b, ![t].arrived = b],
           t \in Threads => entry'[t] = entry[t]
    PROVE  MovesOnly(t) /\ ThreadInv(t)'
<1> DEFINE l == [loc[t] EXCEPT !.pc = pc, !.pblock = b, !.arrived = b]
<1>1. Types /\ ThreadInv(t) /\ loc[t] \in Locals BY Zenon DEF IInv, Types
<1>2. l \in Locals /\ loc' = [loc EXCEPT ![t] = l]
  BY <1>1, ZenonT(30), ZenonT(30) DEF Locals, Labels
<1>3. MovesOnly(t) /\ loc'[t] = l
  <2> HIDE DEF l
  <2> QED BY <1>1, <1>2, MoveFacts, ZenonT(30), Zenon
<1>4. /\ l.pc = pc /\ l.pblock = b /\ l.arrived = b
      /\ l.queue = loc[t].queue /\ l.result = loc[t].result
  BY <1>1, Zenon DEF Locals
<1> HIDE DEF l
<1>5. ThreadInv(t)'
  BY <1>1, <1>3, <1>4, Zenon DEF ThreadInv, Locked, Aimed, Connecting,
        Listed, Registered, OwnMark, Checking, Told, Judged, Current
<1> QED BY <1>3, <1>5, Zenon

\* A block that is sent is taken from every feed.
LEMMA SendFacts ==
    ASSUME Types, NEW b, Send(b) PROVE feed' \in [Actors -> SUBSET Blocks]
  BY Zenon DEF Types, Send

LEMMA HandleBlockMessageHelperKeeps ==
    ASSUME IInv, NEW t \in Threads, HandleBlockMessageHelper(t) PROVE IInv'
<1>1. Types /\ ThreadInv(t) /\ t \in Actors BY Zenon DEF IInv, Actors
<1>2. PICK b \in feed[t] : (Launch(t, b) \/ Crowded(t, b)) /\ Send(b)
  BY Zenon DEF HandleBlockMessageHelper
<1>3. b \in Blocks /\ feed' \in [Actors -> SUBSET Blocks]
  BY <1>1, <1>2, SendFacts, Zenon DEF Types
<1>4. {"grant", "init", "refused"} \subseteq {"grant", "init", "refused", "accept"} \ {"accept"}
  BY Zenon
<1>5. /\ OnlyValidBlocksConnect' /\ csMain' = csMain /\ tip' = tip /\ have' = have
      /\ loc[t].pc = "idle"
  BY <1>2, Zenon DEF Launch, Crowded, chain, IInv, OnlyValidBlocksConnect
<1>6. ASSUME UNCHANGED <<entry, quitQueues>>, NEW pc \in {"grant", "init", "refused"},
             loc' = [loc EXCEPT ![t].pc = pc, ![t].pblock = b, ![t].arrived = b]
      PROVE  IInv'
  <2>1. MovesOnly(t) /\ ThreadInv(t)'
    BY <1>1, <1>3, <1>4, <1>5, <1>6, ReceiveFacts, ZenonT(30), Zenon
  <2>2. Types'
    BY <1>1, <1>3, <1>5, <1>6, <2>1, Zenon DEF Types, MovesOnly
  <2> QED BY <1>1, <1>5, <1>6, <2>1, <2>2, PrivateStep, Zenon
<1>7. CASE \E u \in Registered :
              /\ QuitAll({u})
              /\ loc' = [loc EXCEPT ![t].pc = "grant", ![t].pblock = b, ![t].arrived = b]
  <2>1. PICK u \in Registered :
              /\ QuitAll({u})
              /\ loc' = [loc EXCEPT ![t].pc = "grant", ![t].pblock = b, ![t].arrived = b]
    BY <1>7, ZenonT(30), Zenon
  <2>2. t \notin Registered
    BY <1>1, <1>5, Zenon DEF ThreadInv, Listed
  <2>3. {u} \in SUBSET (Registered \ {t})
    BY <2>2, Zenon
  <2>4. /\ entry' \in [Threads -> Entries \union {NoEntry}] /\ quitQueues' \subseteq Queues
        /\ entry'[t] = entry[t]
    BY <1>1, <2>1, <2>3, QuitAllFacts, Zenon
  <2>5. MovesOnly(t) /\ ThreadInv(t)'
    BY <1>1, <1>3, <1>4, <1>5, <2>1, <2>4, ReceiveFacts, ZenonT(30), Zenon
  <2>6. Types'
    BY <1>1, <1>3, <1>5, <2>4, <2>5, Zenon DEF Types, MovesOnly
  <2> QED BY <1>1, <1>5, <2>1, <2>3, <2>5, <2>6, QuitStep, Zenon
<1>8. CASE Launch(t, b)
  BY <1>6, <1>8, Zenon DEF Launch
<1>9. CASE Crowded(t, b)
  BY <1>6, <1>7, <1>9, ZenonT(30), Zenon DEF Crowded
<1> QED BY <1>2, <1>8, <1>9, Zenon

LEMMA StopAllSummaryBlockValidationThreadsKeeps ==
    ASSUME IInv, NEW t \in Miners, StopAllSummaryBlockValidationThreads(t) PROVE IInv'
<1>1. Types /\ t \in Actors /\ t \notin Threads /\ t \notin Registered
  BY TreeAssumption, Zenon DEF IInv, Actors, Registered
<1>2. PICK b \in feed[t] :
          /\ Send(b)
          /\ \E U \in SUBSET {u \in Registered : Bits[loc[u].arrived] <= Bits[b]} : QuitAll(U)
          /\ loc' = [loc EXCEPT ![t].pc = "accept", ![t].pblock = b, ![t].arrived = b]
  BY ZenonT(30), Zenon DEF StopAllSummaryBlockValidationThreads
<1>3. PICK U \in SUBSET (Registered \ {t}) : QuitAll(U)
  BY <1>1, <1>2, Zenon
<1>4. b \in Blocks /\ feed' \in [Actors -> SUBSET Blocks]
  BY <1>1, <1>2, SendFacts, Zenon DEF Types
<1>5. entry' \in [Threads -> Entries \union {NoEntry}] /\ quitQueues' \subseteq Queues
  BY <1>1, <1>3, QuitAllFacts, Zenon
<1>6. loc[t].pc = "idle"
  BY Zenon DEF StopAllSummaryBlockValidationThreads
<1>7. MovesOnly(t) /\ ThreadInv(t)'
  BY <1>1, <1>2, <1>4, <1>6, ReceiveFacts, ZenonT(30), Zenon
<1>8. OnlyValidBlocksConnect' /\ csMain' = csMain /\ tip' = tip /\ have' = have
  BY Zenon DEF StopAllSummaryBlockValidationThreads, chain, IInv, OnlyValidBlocksConnect
<1>9. Types'
  BY <1>1, <1>4, <1>5, <1>7, <1>8, Zenon DEF Types, MovesOnly
<1> QED BY <1>1, <1>3, <1>7, <1>8, <1>9, QuitStep, Zenon

LEMMA WaitForGrantKeeps ==
    ASSUME IInv, NEW t \in Actors, WaitForGrant(t), UNCHANGED feed PROVE IInv'
<1>1. Types /\ ThreadInv(t) BY Zenon DEF IInv
<1>2. MovesOnly(t) /\ Keeps(t) /\ loc'[t].pc = "init"
  BY <1>1, GotoFacts, Zenon DEF WaitForGrant, Labels
<1>3. Types'
  BY <1>1, <1>2, Zenon DEF WaitForGrant, chain, Types, MovesOnly
<1>4. ThreadInv(t)'
  BY <1>1, <1>2, Zenon DEF WaitForGrant, chain, Keeps, ThreadInv, Locked, Aimed, Connecting,
        Listed, Registered, OwnMark, Checking, Told, Judged, Current
<1> QED BY <1>1, <1>2, <1>3, <1>4, PrivateStep, Zenon
      DEF WaitForGrant, chain, IInv, OnlyValidBlocksConnect

LEMMA InitThreadKeeps ==
    ASSUME IInv, NEW t \in Actors, InitThread(t), UNCHANGED feed PROVE IInv'
<1> DEFINE e == [hash |-> loc[t].arrived, hashPrevBlock |-> Parent(loc[t].arrived),
                 queue |-> NoQueue, fQuit |-> FALSE, fIsValidating |-> FALSE,
                 fIsReorgInProgress |-> FALSE]
<1>1. Types /\ ThreadInv(t) BY Zenon DEF IInv
<1>2. MovesOnly(t) /\ Keeps(t) /\ loc'[t].pc = "accept"
  BY <1>1, GotoFacts, Zenon DEF InitThread, Labels
<1>3. loc[t].arrived \in Blocks /\ Parent(loc[t].arrived) \in Tree
  BY <1>1, TreeFacts, Zenon DEF InitThread, ThreadInv, Aimed
<1>4. e \in Entries /\ e.queue = NoQueue
  BY <1>3, Zenon DEF Entries, Tree
<1>5. entry' = [entry EXCEPT ![t] = e]
  BY Zenon DEF InitThread
<1> HIDE DEF e
<1>6. /\ entry' \in [Threads -> Entries \union {NoEntry}]
      /\ \A u \in Threads \ {t} : entry'[u] = entry[u]
      /\ t \in Threads => entry'[t] = e
  BY <1>1, <1>4, <1>5, ZenonT(30), Zenon DEF Types
<1>7. t \in Threads => t \in Registered' /\ entry'[t].queue = NoQueue
  BY <1>4, <1>6, EntryFacts, Zenon DEF Registered
<1>8. Types'
  BY <1>1, <1>2, <1>6, SMTT(30) DEF InitThread, chain, Types, MovesOnly
<1>9. ThreadInv(t)'
  BY <1>1, <1>2, <1>7, Zenon DEF InitThread, chain, Keeps, ThreadInv, Locked, Aimed, Connecting,
        Listed, Registered, OwnMark, Checking, Told, Judged, Current
<1>10. t \in Registered' => entry'[t].queue = NoQueue
  BY <1>7, Zenon DEF Registered
<1> QED BY <1>2, <1>6, <1>8, <1>9, <1>10, OwnEntry, Zenon
      DEF InitThread, chain, IInv, OnlyValidBlocksConnect

LEMMA ProcessAcceptBlockKeeps ==
    ASSUME IInv, NEW t \in Actors, ProcessAcceptBlock(t), UNCHANGED feed PROVE IInv'
<1>1. Types /\ ThreadInv(t) /\ Idle \in Locals BY EntryFacts, Zenon DEF IInv
<1>2. have' \subseteq Tree
  BY <1>1, Zenon DEF ProcessAcceptBlock, ThreadInv, Aimed, Types, Tree
<1>3. CASE loc[t].pc = "refused"
  <2>1. MovesOnly(t) /\ loc'[t] = Idle
    BY <1>1, <1>3, MoveFacts, Zenon DEF ProcessAcceptBlock
  <2>2. Types'
    BY <1>1, <1>2, <2>1, SMTT(30) DEF ProcessAcceptBlock, table, Types, MovesOnly
  <2>3. ThreadInv(t)'
    BY <1>1, <1>3, <2>1, EntryFacts, Zenon
          DEF ProcessAcceptBlock, table, ThreadInv, Locked, Aimed, Connecting,
        Listed, Registered, OwnMark, Checking, Told, Judged, Current
  <2> QED BY <2>1, <2>2, <2>3, PrivateStep, Zenon
        DEF ProcessAcceptBlock, table, IInv, OnlyValidBlocksConnect
<1>4. CASE loc[t].pc = "accept"
  <2>1. PICK pc \in {"activate", "finish"} : Goto(t, pc)
    BY <1>4, Zenon DEF ProcessAcceptBlock
  <2>2. MovesOnly(t) /\ Keeps(t) /\ loc'[t].pc = pc
    BY <1>1, <2>1, GotoFacts, Zenon DEF Labels
  <2>3. Types'
    BY <1>1, <1>2, <2>2, SMTT(30) DEF ProcessAcceptBlock, table, Types, MovesOnly
  <2>4. ThreadInv(t)'
    BY <1>1, <1>4, <2>2, Zenon
          DEF ProcessAcceptBlock, table, Keeps, ThreadInv, Locked, Aimed, Connecting,
        Listed, Registered, OwnMark, Checking, Told, Judged, Current
  <2> QED BY <2>2, <2>3, <2>4, PrivateStep, Zenon
        DEF ProcessAcceptBlock, table, IInv, OnlyValidBlocksConnect
<1> QED BY <1>3, <1>4, Zenon DEF ProcessAcceptBlock

-----------------------------------------------------------------------------
(***************************************************************************)
(* The choice of the chain, and the way to the fork point.                 *)
(***************************************************************************)

\* Towards block b from the tip x.
LEMMA ApproachFacts ==
    ASSUME IInv, NEW t \in Actors, NEW x \in Tree, NEW b \in Tree, NEW d \in BOOLEAN,
           Approach(t, x, b, d),
           tip' = x, csMain' = t, loc[t].arrived \in Blocks, loc[t].queue = NoQueue,
           loc[t].result # "ok", t \in Threads => t \in Registered'
    PROVE  MovesOnly(t) /\ ThreadInv(t)'
<1>1. Types /\ loc[t] \in Locals BY Zenon DEF IInv, Types
<1>2. CASE x \in Ancestors(b)
  <2> DEFINE p == PathFrom(Height(x), b)
             l == [loc[t] EXCEPT !.pc = "connect", !.mostWork = b,
                                 !.fBlocksDisconnected = d, !.toConnect = p]
  <2>1. p \in Seq(Tree)
    BY TreeFacts, Zenon
  <2>2. l \in Locals
    BY <1>1, <2>1, ZenonT(30), Zenon DEF Locals, Labels
  <2>3. loc' = [loc EXCEPT ![t] = l]
    BY <1>2, ZenonT(30), Zenon DEF Approach
  <2>4. /\ l.pc = "connect" /\ l.arrived = loc[t].arrived /\ l.mostWork = b
        /\ l.queue = loc[t].queue /\ l.result = loc[t].result
    BY <1>1, Zenon DEF Locals
  <2> HIDE DEF l
  <2>5. MovesOnly(t) /\ loc'[t] = l
    BY <1>1, <2>2, <2>3, MoveFacts, ZenonT(30), Zenon
  <2>6. ThreadInv(t)'
    BY <2>4, <2>5, Zenon DEF ThreadInv, Locked, Aimed, Connecting,
        Listed, Registered, OwnMark, Checking, Told, Judged, Current
  <2> QED BY <2>5, <2>6, Zenon
<1>3. CASE x \notin Ancestors(b)
  <2> DEFINE l == [loc[t] EXCEPT !.pc = "reorg", !.mostWork = b, !.fBlocksDisconnected = d]
  <2>2. l \in Locals
    BY <1>1, ZenonT(30), Zenon DEF Locals, Labels
  <2>3. loc' = [loc EXCEPT ![t] = l]
    BY <1>3, ZenonT(30), Zenon DEF Approach
  <2>4. /\ l.pc = "reorg" /\ l.arrived = loc[t].arrived /\ l.mostWork = b
        /\ l.queue = loc[t].queue /\ l.result = loc[t].result
    BY <1>1, Zenon DEF Locals
  <2> HIDE DEF l
  <2>5. MovesOnly(t) /\ loc'[t] = l
    BY <1>1, <2>2, <2>3, MoveFacts, ZenonT(30), Zenon
  <2>6. ThreadInv(t)'
    BY <1>3, <2>4, <2>5, SMTT(30) DEF ThreadInv, Locked, Aimed, Connecting,
        Listed, Registered, OwnMark, Checking, Told, Judged, Current
  <2> QED BY <2>5, <2>6, Zenon
<1> QED BY <1>2, <1>3, Zenon

LEMMA ActivateBestChainKeeps ==
    ASSUME IInv, NEW t \in Actors, ActivateBestChain(t), UNCHANGED feed PROVE IInv'
<1>1. Types /\ ThreadInv(t) /\ Targets(t) \subseteq Tree
  <2>1. Types /\ ThreadInv(t) /\ loc[t] \in Locals BY Zenon DEF IInv, Types
  <2>2. loc[t].pblock \in Tree \union {NoBlock}
    BY <2>1, SMTT(30) DEF Locals, Tree
  <2> QED BY <2>1, <2>2, MostWorkInTree, Zenon DEF Targets
<1>2. /\ loc[t].arrived \in Blocks /\ loc[t].queue = NoQueue /\ loc[t].result # "ok"
      /\ csMain \in {t, NoThread}
      /\ t \in Threads => t \in Registered
  BY <1>1, Zenon DEF ActivateBestChain, ThreadInv, Aimed, Listed, OwnMark, Checking, Judged
<1>3. tip' = tip /\ have' = have /\ OnlyValidBlocksConnect' /\ tip \in Tree
  BY <1>1, SMTT(30) DEF ActivateBestChain, chain, IInv, OnlyValidBlocksConnect, Types
<1>4. ASSUME Return(t), UNCHANGED <<entry, quitQueues>> PROVE IInv'
  <2>1. MovesOnly(t) /\ Rests(t) /\ loc'[t].pc = "finish" /\ csMain' = NoThread
    BY <1>1, <1>4, ReturnFacts, Zenon
  <2>2. Types'
    BY <1>1, <1>3, <1>4, <2>1, Zenon DEF Types, MovesOnly
  <2>3. ThreadInv(t)'
    BY <1>2, <1>4, <2>1, Zenon DEF Rests, ThreadInv, Locked, Aimed, Connecting,
        Listed, Registered, OwnMark, Checking, Told, Judged, Current
  <2> QED BY <1>2, <1>3, <1>4, <2>1, <2>2, <2>3, PrivateStep, SMTT(30)
<1>5. ASSUME NEW b \in Tree, Aim(t, b), UNCHANGED <<entry, quitQueues>> PROVE IInv'
  <2>1. MovesOnly(t) /\ ThreadInv(t)'
    <3>1. t \in Threads => t \in Registered'
      BY <1>2, <1>5, Zenon DEF Registered
    <3> QED BY <1>2, <1>3, <1>5, <3>1, ApproachFacts, Zenon DEF Aim
  <2>2. Types'
    BY <1>1, <1>3, <1>5, <2>1, Zenon DEF Types, MovesOnly, Aim
  <2> QED BY <1>2, <1>3, <1>5, <2>1, <2>2, PrivateStep, Zenon
<1>6. ASSUME NEW b \in Tree, Aim(t, b), QuitAll(Registered \ {t}) PROVE IInv'
  <2>1. Registered \ {t} \in SUBSET (Registered \ {t})
    BY Zenon
  <2>2. /\ entry' \in [Threads -> Entries \union {NoEntry}] /\ quitQueues' \subseteq Queues
        /\ t \in Threads => entry'[t] = entry[t]
    BY <1>6, <2>1, QuitAllFacts, Zenon
  <2>3. MovesOnly(t) /\ ThreadInv(t)'
    <3>1. t \in Threads => t \in Registered'
      BY <1>2, <2>2, Zenon DEF Registered
    <3> QED BY <1>2, <1>3, <1>6, <3>1, ApproachFacts, Zenon DEF Aim
  <2>4. Types'
    BY <1>1, <1>3, <1>6, <2>2, <2>3, Zenon DEF Types, MovesOnly, Aim
  <2> QED BY <1>2, <1>3, <1>6, <2>1, <2>3, <2>4, QuitStep, Zenon
<1> QED BY <1>1, <1>4, <1>5, <1>6, Zenon DEF ActivateBestChain

LEMMA ReorgQuitKeeps ==
    ASSUME IInv, NEW t \in Actors, ReorgQuit(t), UNCHANGED feed PROVE IInv'
<1> DEFINE e == [entry[t] EXCEPT !.fIsReorgInProgress = FALSE]
<1>1. Types /\ ThreadInv(t) /\ t \in Registered /\ t \in Threads /\ entry[t] \in Entries
  BY Zenon DEF IInv, ReorgQuit, QuitReceived, Registered, Types
<1>2. e \in Entries /\ e.queue = entry[t].queue /\ entry' = [entry EXCEPT ![t] = e]
  BY <1>1, ZenonT(30), Zenon DEF Entries, ReorgQuit
<1> HIDE DEF e
<1>3. /\ entry' \in [Threads -> Entries \union {NoEntry}]
      /\ entry'[t] = e /\ t \in Registered'
      /\ \A u \in Threads \ {t} : entry'[u] = entry[u]
  BY <1>1, <1>2, EntryUpdate, ZenonT(30), Zenon
<1>4. MovesOnly(t) /\ Rests(t) /\ loc'[t].pc = "finish" /\ csMain' = NoThread
  BY <1>1, ReturnFacts, Zenon DEF ReorgQuit
<1>5. Types'
  BY <1>1, <1>3, <1>4, Zenon DEF ReorgQuit, chain, Types, MovesOnly
<1>6. ThreadInv(t)'
  BY <1>1, <1>3, <1>4, TreeAssumption, Zenon DEF ReorgQuit, chain, Rests, ThreadInv, Locked, Aimed,
        Connecting, Listed, OwnMark, Checking, Told, Judged
<1>7. csMain = t
  BY <1>1, Zenon DEF ReorgQuit, ThreadInv, Locked
<1> QED BY <1>1, <1>2, <1>3, <1>4, <1>5, <1>6, <1>7, OwnEntry, Zenon
        DEF ReorgQuit, chain, IInv, OnlyValidBlocksConnect

LEMMA DisconnectCoinsKeeps ==
    ASSUME IInv, NEW t \in Actors, DisconnectCoins(t), UNCHANGED feed PROVE IInv'
<1> DEFINE e == [entry[t] EXCEPT !.fIsReorgInProgress = TRUE]
<1>1. Types /\ ThreadInv(t) BY Zenon DEF IInv
<1>2. MovesOnly(t) /\ Keeps(t) /\ loc'[t].pc = "disconnect"
  BY <1>1, GotoFacts, Zenon DEF DisconnectCoins, Labels
<1>3. OnlyValidBlocksConnect' /\ quitQueues' = quitQueues /\ tip' = tip /\ csMain' = csMain
  BY Zenon DEF DisconnectCoins, IInv, OnlyValidBlocksConnect
<1>4. CASE t \in Registered /\ ~loc[t].fBlocksDisconnected
  <2>1. t \in Threads /\ entry[t] \in Entries
    BY <1>1, <1>4, Zenon DEF Registered, Types
  <2>2. e \in Entries /\ e.queue = entry[t].queue /\ entry' = [entry EXCEPT ![t] = e]
    BY <1>4, <2>1, ZenonT(30), Zenon DEF Entries, DisconnectCoins
  <2> HIDE DEF e
  <2>3. /\ entry' \in [Threads -> Entries \union {NoEntry}]
        /\ entry'[t] = e /\ t \in Registered'
        /\ \A u \in Threads \ {t} : entry'[u] = entry[u]
    BY <1>1, <2>1, <2>2, EntryUpdate, ZenonT(30), Zenon
  <2>4. Types'
    BY <1>1, <1>2, <2>3, Zenon DEF DisconnectCoins, Types, MovesOnly
  <2>5. ThreadInv(t)'
    BY <1>1, <1>2, <2>1, <2>3, TreeAssumption, Zenon
          DEF DisconnectCoins, Keeps, ThreadInv, Locked, Aimed,
          Connecting, Listed, OwnMark, Checking, Told, Judged
  <2> QED BY <1>2, <1>3, <1>4, <2>2, <2>3, <2>4, <2>5, OwnEntry, Zenon
<1>5. CASE ~(t \in Registered /\ ~loc[t].fBlocksDisconnected)
  <2>1. entry' = entry
    BY <1>5, Zenon DEF DisconnectCoins
  <2>2. Types'
    BY <1>1, <1>2, <2>1, ZenonT(30), Zenon DEF DisconnectCoins, Types, MovesOnly
  <2>3. ThreadInv(t)'
    BY <1>1, <1>2, <2>1, ZenonT(30), Zenon
          DEF DisconnectCoins, Keeps, ThreadInv, Locked, Aimed, Connecting,
        Listed, Registered, OwnMark, Checking, Told, Judged, Current
  <2> QED BY <1>2, <1>3, <2>1, <2>2, <2>3, PrivateStep, Zenon
<1> QED BY <1>4, <1>5, Zenon

LEMMA DisconnectTipKeeps ==
    ASSUME IInv, NEW t \in Actors, DisconnectTip(t), UNCHANGED feed PROVE IInv'
<1>1. Types /\ ThreadInv(t) BY Zenon DEF IInv
<1>2. /\ loc[t].arrived \in Blocks /\ loc[t].queue = NoQueue /\ loc[t].result # "ok"
      /\ csMain = t
      /\ t \in Threads => t \in Registered
      /\ loc[t].mostWork \in Tree /\ tip \notin Ancestors(loc[t].mostWork)
  BY <1>1, Zenon DEF DisconnectTip, SetTip, ThreadInv, Locked, Aimed, Listed, OwnMark,
     Checking, Judged
<1>3. tip \in Blocks /\ Parent(tip) \in Tree
  BY <1>1, <1>2, TreeFacts, ZenonT(30), Zenon DEF Types, Tree
<1>4. t \in Threads => t \in Registered'
  BY <1>2, Zenon DEF DisconnectTip, SetTip, table, Registered
<1>5. MovesOnly(t) /\ ThreadInv(t)'
  BY <1>2, <1>3, <1>4, ApproachFacts, Zenon DEF DisconnectTip, SetTip
<1>6. Types'
  BY <1>1, <1>3, <1>5, Zenon DEF DisconnectTip, SetTip, table, Types, MovesOnly
<1> QED BY <1>2, <1>5, <1>6, PrivateStep, SMTT(30)
      DEF DisconnectTip, SetTip, table, IInv, OnlyValidBlocksConnect

-----------------------------------------------------------------------------
(***************************************************************************)
(* The path.                                                               *)
(***************************************************************************)

LEMMA PathConnectedKeeps ==
    ASSUME IInv, NEW t \in Actors, PathConnected(t), UNCHANGED feed PROVE IInv'
<1>1. Types /\ ThreadInv(t) /\ loc[t] \in Locals BY Zenon DEF IInv, Types
<1>2. PICK b \in FindMostWorkChain :
          IF Height(b) > Height(loc[t].mostWork)
          THEN loc' = [loc EXCEPT ![t].mostWork = b,
                                  ![t].toConnect = PathFrom(Height(loc[t].mostWork), b)]
          ELSE Again(t)
  BY Zenon DEF PathConnected
<1>3. b \in Tree /\ loc[t].mostWork \in Tree
  BY <1>1, MostWorkInTree, Zenon DEF PathConnected, ThreadInv, Aimed
<1>4. CASE Again(t)
  <2>1. MovesOnly(t) /\ Rests(t) /\ loc'[t].pc = "again"
    BY <1>1, <1>4, AgainFacts, Zenon
  <2>2. Types'
    BY <1>1, <2>1, Zenon DEF PathConnected, table, chain, Types, MovesOnly
  <2>3. ThreadInv(t)'
    BY <1>1, <2>1, Zenon DEF PathConnected, table, chain, Rests, ThreadInv, Locked, Aimed,
       Connecting,
        Listed, Registered, OwnMark, Checking, Told, Judged, Current
  <2> QED BY <2>1, <2>2, <2>3, PrivateStep, Zenon
        DEF PathConnected, table, chain, IInv, OnlyValidBlocksConnect
<1>5. CASE loc' = [loc EXCEPT ![t].mostWork = b,
                              ![t].toConnect = PathFrom(Height(loc[t].mostWork), b)]
  <2> DEFINE p == PathFrom(Height(loc[t].mostWork), b)
             l == [loc[t] EXCEPT !.mostWork = b, !.toConnect = p]
  <2>1. p \in Seq(Tree)
    BY <1>3, TreeFacts, Zenon
  <2>2. l \in Locals /\ loc' = [loc EXCEPT ![t] = l]
    BY <1>1, <1>3, <1>5, <2>1, ZenonT(30), Zenon DEF Locals
  <2>3. /\ l.pc = loc[t].pc /\ l.arrived = loc[t].arrived /\ l.mostWork = b
        /\ l.queue = loc[t].queue /\ l.result = loc[t].result
    BY <1>1, Zenon DEF Locals
  <2> HIDE DEF l
  <2>4. MovesOnly(t) /\ loc'[t] = l
    BY <1>1, <2>2, MoveFacts, ZenonT(30), Zenon
  <2>5. Types'
    BY <1>1, <2>4, Zenon DEF PathConnected, table, chain, Types, MovesOnly
  <2>6. ThreadInv(t)'
    BY <1>1, <1>3, <2>3, <2>4, Zenon
          DEF PathConnected, table, chain, ThreadInv, Locked, Aimed, Connecting,
        Listed, Registered, OwnMark, Checking, Told, Judged, Current
  <2> QED BY <2>4, <2>5, <2>6, PrivateStep, Zenon
        DEF PathConnected, table, chain, IInv, OnlyValidBlocksConnect
<1> QED BY <1>2, <1>4, <1>5, Zenon

LEMMA ConnectTipKeeps ==
    ASSUME IInv, NEW t \in Actors, ConnectTip(t), UNCHANGED feed PROVE IInv'
<1>1. Types /\ ThreadInv(t) /\ loc[t] \in Locals BY Zenon DEF IInv, Types
<1>2. csMain = t
  BY <1>1, Zenon DEF ConnectTip, ThreadInv, Locked
<1>3. CASE Again(t) /\ UNCHANGED csMain
  <2>1. MovesOnly(t) /\ Rests(t) /\ loc'[t].pc = "again"
    BY <1>1, <1>3, AgainFacts, Zenon
  <2>2. Types'
    BY <1>1, <1>3, <2>1, Zenon DEF ConnectTip, table, chain, Types, MovesOnly
  <2>3. ThreadInv(t)'
    BY <1>1, <1>3, <2>1, Zenon DEF ConnectTip, table, chain, Rests, ThreadInv, Locked,
       Aimed, Connecting,
        Listed, Registered, OwnMark, Checking, Told, Judged, Current
  <2> QED BY <1>3, <2>1, <2>2, <2>3, PrivateStep, Zenon
        DEF ConnectTip, table, chain, IInv, OnlyValidBlocksConnect
<1>4. CASE Return(t)
  <2>1. MovesOnly(t) /\ Rests(t) /\ loc'[t].pc = "finish" /\ csMain' = NoThread
    BY <1>1, <1>4, ReturnFacts, Zenon
  <2>2. Types'
    BY <1>1, <2>1, Zenon DEF ConnectTip, table, chain, Types, MovesOnly
  <2>3. ThreadInv(t)'
    BY <1>1, <2>1, Zenon DEF ConnectTip, table, chain, Rests, ThreadInv, Locked, Aimed, Connecting,
        Listed, Registered, OwnMark, Checking, Told, Judged, Current
  <2> QED BY <1>2, <2>1, <2>2, <2>3, PrivateStep, Zenon
        DEF ConnectTip, table, chain, IInv, OnlyValidBlocksConnect
<1>5. CASE /\ loc' = [loc EXCEPT ![t].pc = "queue", ![t].startWork = Work[tip]]
           /\ UNCHANGED csMain
  <2> DEFINE l == [loc[t] EXCEPT !.pc = "queue", !.startWork = Work[tip]]
  <2>1. Work[tip] \in Nat
    BY <1>1, TreeAssumption, Zenon DEF Types
  <2>2. l \in Locals /\ loc' = [loc EXCEPT ![t] = l]
    BY <1>1, <1>5, <2>1, ZenonT(30), ZenonT(30) DEF Locals, Labels
  <2>3. /\ l.pc = "queue" /\ l.arrived = loc[t].arrived /\ l.mostWork = loc[t].mostWork
        /\ l.toConnect = loc[t].toConnect /\ l.queue = loc[t].queue /\ l.result = loc[t].result
    BY <1>1, Zenon DEF Locals
  <2> HIDE DEF l
  <2>4. MovesOnly(t) /\ loc'[t] = l
    BY <1>1, <2>2, MoveFacts, ZenonT(30), Zenon
  <2>5. Types'
    BY <1>1, <1>5, <2>4, Zenon DEF ConnectTip, table, chain, Types, MovesOnly
  <2>6. ThreadInv(t)'
    BY <1>1, <1>5, <2>3, <2>4, Zenon DEF ConnectTip, table, chain, ThreadInv, Locked,
       Aimed, Connecting,
        Listed, Registered, OwnMark, Checking, Told, Judged, Current
  <2> QED BY <1>5, <2>4, <2>5, <2>6, PrivateStep, Zenon
        DEF ConnectTip, table, chain, IInv, OnlyValidBlocksConnect
<1> QED BY <1>3, <1>4, <1>5, Zenon DEF ConnectTip

-----------------------------------------------------------------------------
(***************************************************************************)
(* The script check queue and the checks.                                  *)
(***************************************************************************)

LEMMA GetScriptCheckQueueKeeps ==
    ASSUME IInv, NEW t \in Actors, GetScriptCheckQueue(t), UNCHANGED feed PROVE IInv'
<1>1. Types /\ ThreadInv(t) /\ loc[t] \in Locals BY Zenon DEF IInv, Types
<1>2. PICK q \in Queues : ~Marked(q) /\ TakeQueue(t, q)
  BY Zenon DEF GetScriptCheckQueue
<1>3. csMain = t /\ q # NoQueue
  BY <1>1, TreeAssumption DEF GetScriptCheckQueue, ThreadInv, Locked, Queues, NoQueue
<1> DEFINE l == [loc[t] EXCEPT !.pc = "begin", !.queue = q]
           e == [entry[t] EXCEPT !.queue = q]
<1>4. l \in Locals /\ loc' = [loc EXCEPT ![t] = l]
  BY <1>1, <1>2, ZenonT(30), ZenonT(30) DEF Locals, Labels, TakeQueue
<1>5. /\ l.pc = "begin" /\ l.arrived = loc[t].arrived /\ l.mostWork = loc[t].mostWork
      /\ l.toConnect = loc[t].toConnect /\ l.queue = q /\ l.result = loc[t].result
  BY <1>1, Zenon DEF Locals
<1> HIDE DEF l
<1>6. MovesOnly(t) /\ loc'[t] = l
  BY <1>1, <1>4, MoveFacts, ZenonT(30), Zenon
<1>7. /\ entry' \in [Threads -> Entries \union {NoEntry}]
      /\ \A u \in Threads \ {t} : entry'[u] = entry[u]
      /\ t \in Threads => (t \in Registered <=> t \in Registered')
      /\ t \in Registered' => entry'[t].queue = q
      /\ t \notin Registered => entry' = entry
  <2>1. CASE t \in Registered
    <3>1. t \in Threads /\ entry[t] \in Entries
      BY <1>1, <2>1, Zenon DEF Registered, Types
    <3>2. e \in Entries /\ e.queue = q /\ entry' = [entry EXCEPT ![t] = e]
      BY <1>2, <2>1, <3>1, Zenon DEF Entries, TakeQueue
    <3> HIDE DEF e
    <3> QED BY <1>1, <2>1, <3>1, <3>2, EntryUpdate, ZenonT(30), Zenon
  <2>2. CASE t \notin Registered
    BY <1>1, <1>2, <2>2, Zenon DEF TakeQueue, Types, Registered
  <2> QED BY <2>1, <2>2, Zenon
<1>8. \A u \in Actors \ {t} : loc[u].queue # q
  <2> SUFFICES ASSUME NEW u \in Actors \ {t}, loc[u].queue = q PROVE FALSE
    BY Zenon
  <2>1. ThreadInv(u) /\ Checking(u)
    BY <1>3, Zenon DEF IInv, ThreadInv, OwnMark
  <2>2. CASE u \in Threads
    BY <1>2, <2>1, <2>2, Zenon DEF ThreadInv, OwnMark, Listed, Checking, Marked
  <2>3. CASE u \in Miners
    BY <1>3, <2>1, <2>3, Zenon DEF ThreadInv, Locked, Checking
  <2> QED BY <2>2, <2>3, Zenon DEF Actors
<1>9. Types'
  BY <1>1, <1>2, <1>6, <1>7, Zenon DEF GetScriptCheckQueue, TakeQueue, chain, Types, MovesOnly
<1>10. ThreadInv(t)'
  <2>1. (Locked(t) => csMain = t)' /\ Aimed(t)' /\ Judged(t)'
    BY <1>1, <1>3, <1>5, <1>6, Zenon DEF GetScriptCheckQueue, chain, ThreadInv, Locked, Aimed,
          Connecting, Judged, Current
  <2>2. (t \in Threads => Listed(t))'
    BY <1>1, <1>5, <1>6, <1>7, Zenon DEF GetScriptCheckQueue, ThreadInv, Listed
  <2>3. OwnMark(t)'
    <3>1. loc'[t].queue = q /\ Checking(t)'
      BY <1>5, <1>6, Zenon DEF Checking
    <3>2. t \in Threads => t \in Registered'
      BY <1>1, <1>7, Zenon DEF GetScriptCheckQueue, ThreadInv, Listed
    <3>3. t \in Miners => \A u \in Registered' : entry'[u].queue # q
      BY <1>2, <1>7, TreeAssumption, Zenon DEF Registered, Marked
    <3> QED BY <1>3, <1>7, <3>1, <3>2, <3>3, Zenon DEF OwnMark
  <2>4. Told(t)'
    BY <1>2, <1>5, <1>6 DEF Told, TakeQueue
  <2> QED BY <2>1, <2>2, <2>3, <2>4, Zenon DEF ThreadInv
<1>11. Undisturbed(t)
  BY <1>2, <1>3, <1>6, <1>7, <1>8, Zenon
        DEF GetScriptCheckQueue, TakeQueue, chain, Undisturbed, MovesOnly
<1>12. MarksDiffer'
  <2>1. \A u \in Registered' \ {t} : /\ u \in Registered /\ entry'[u].queue = entry[u].queue
                                    /\ entry[u].queue # q
    BY <1>2, <1>7, Zenon DEF Registered, Marked
  <2> QED BY <1>7, <2>1, ZenonT(30) DEF IInv, MarksDiffer
<1> QED BY <1>9, <1>10, <1>11, <1>12, StepKeeps, Zenon
        DEF GetScriptCheckQueue, chain, IInv, OnlyValidBlocksConnect

LEMMA BeginValidationKeeps ==
    ASSUME IInv, NEW t \in Actors, BeginValidation(t), UNCHANGED feed PROVE IInv'
<1>1. Types /\ ThreadInv(t) /\ t \in Threads /\ t \notin Miners
  BY TreeAssumption, Zenon DEF IInv, BeginValidation
<1>2. t \in Registered /\ entry[t] \in Entries /\ csMain = t
  BY <1>1, Zenon DEF BeginValidation, ThreadInv, Listed, Locked, Registered, Types
<1>3. Current(t) \in Tree
  <2>1. loc[t].toConnect \in Seq(Tree) /\ loc[t].toConnect # <<>>
    BY <1>1, Zenon DEF BeginValidation, ThreadInv, Aimed, Connecting, Types, Locals
  <2> QED BY <2>1 DEF Current
<1>4. /\ OnlyValidBlocksConnect' /\ quitQueues' = quitQueues /\ tip' = tip /\ have' = have
      /\ loc[t].pc = "begin"
  BY Zenon DEF BeginValidation, chain, IInv, OnlyValidBlocksConnect
<1>5. ASSUME NEW e \in Entries, e.queue = entry[t].queue, entry' = [entry EXCEPT ![t] = e],
             Return(t)
      PROVE  IInv'
  <2>1. /\ entry' \in [Threads -> Entries \union {NoEntry}]
        /\ entry'[t] = e /\ t \in Registered'
        /\ \A u \in Threads \ {t} : entry'[u] = entry[u]
    BY <1>1, <1>5, EntryUpdate, ZenonT(30), Zenon
  <2>2. MovesOnly(t) /\ Rests(t) /\ loc'[t].pc = "finish" /\ csMain' = NoThread
    BY <1>1, <1>5, ReturnFacts, Zenon
  <2>3. Types'
    BY <1>1, <1>4, <2>1, <2>2, Zenon DEF Types, MovesOnly
  <2>4. ThreadInv(t)'
    BY <1>1, <1>4, <2>1, <2>2, Zenon DEF Rests, ThreadInv, Locked, Aimed, Connecting,
          Listed, OwnMark, Checking, Told, Judged
  <2> QED BY <1>2, <1>4, <1>5, <2>1, <2>2, <2>3, <2>4, OwnEntry, Zenon
<1>6. ASSUME NEW e \in Entries, e.queue = entry[t].queue, e.fQuit = entry[t].fQuit,
             ~entry[t].fQuit, entry' = [entry EXCEPT ![t] = e], StartChecks(t)
      PROVE  IInv'
  <2>1. /\ entry' \in [Threads -> Entries \union {NoEntry}]
        /\ entry'[t] = e /\ t \in Registered'
        /\ \A u \in Threads \ {t} : entry'[u] = entry[u]
    BY <1>1, <1>6, EntryUpdate, ZenonT(30), Zenon
  <2>2. MovesOnly(t) /\ Keeps(t) /\ loc'[t].pc = "inputs" /\ csMain' = NoThread
    BY <1>1, <1>6, GotoFacts, Zenon DEF StartChecks, Labels
  <2>3. Types'
    BY <1>1, <1>4, <2>1, <2>2, Zenon DEF Types, MovesOnly
  <2>4. ThreadInv(t)'
    BY <1>1, <1>4, <1>6, <2>1, <2>2, Zenon DEF Keeps, ThreadInv, Locked, Aimed, Connecting,
          Listed, OwnMark, Checking, Told, QuitReceived, Judged, Current
  <2> QED BY <1>2, <1>4, <1>6, <2>1, <2>2, <2>3, <2>4, OwnEntry, Zenon
<1> DEFINE kept == [entry[t] EXCEPT !.hash = Current(t)]
           began == [entry[t] EXCEPT !.hash = Current(t), !.fIsValidating = TRUE]
<1>7. /\ kept \in Entries /\ kept.queue = entry[t].queue
      /\ began \in Entries /\ began.queue = entry[t].queue /\ began.fQuit = entry[t].fQuit
  BY <1>2, <1>3, ZenonT(30), Zenon DEF Entries
<1>8. entry = [entry EXCEPT ![t] = entry[t]]
  BY <1>1, Zenon DEF Types
<1>9. \/ Return(t) /\ entry' = entry
      \/ Return(t) /\ entry' = [entry EXCEPT ![t] = kept]
      \/ ~entry[t].fQuit /\ StartChecks(t) /\ entry' = [entry EXCEPT ![t] = began]
  BY ZenonT(30), Zenon DEF BeginValidation
<1> HIDE DEF kept, began
<1> QED BY <1>2, <1>5, <1>6, <1>7, <1>8, <1>9, Zenon

LEMMA BeginSingleThreadedKeeps ==
    ASSUME IInv, NEW t \in Actors, BeginSingleThreaded(t), UNCHANGED feed PROVE IInv'
<1>1. Types /\ ThreadInv(t) BY Zenon DEF IInv
<1>2. MovesOnly(t) /\ Keeps(t) /\ loc'[t].pc = "inputs"
  BY <1>1, GotoFacts, Zenon DEF BeginSingleThreaded, Labels
<1>3. Types'
  BY <1>1, <1>2, SMTT(30) DEF BeginSingleThreaded, table, chain, Types, MovesOnly
<1>4. ThreadInv(t)'
  BY <1>1, <1>2, TreeAssumption, SMTT(30)
        DEF BeginSingleThreaded, table, chain, Keeps, ThreadInv, Locked, Aimed, Connecting,
        Listed, Registered, OwnMark, Checking, Told, Judged, Current, QuitReceived
<1> QED BY <1>1, <1>2, <1>3, <1>4, PrivateStep, Zenon
      DEF BeginSingleThreaded, table, chain, IInv, OnlyValidBlocksConnect

\* The checks of a thread end; "ok" only for a valid block.
LEMMA EndChecksKeeps ==
    ASSUME IInv, NEW t \in Actors, NEW result \in {"ok", "invalid", "stopped"},
           EndChecks(t, result), loc[t].pc \in {"inputs", "missing", "wait"},
           result = "ok" => Current(t) \in Valid, UNCHANGED <<csMain, sem, chain, feed>>
    PROVE  IInv'
<1>1. Types /\ ThreadInv(t) /\ loc[t] \in Locals BY Zenon DEF IInv, Types
<1> DEFINE pc == IF t \in Threads THEN "relock" ELSE "final"
           l == [loc[t] EXCEPT !.queue = NoQueue, !.result = result, !.pc = pc]
           e == [entry[t] EXCEPT !.queue = NoQueue]
<1>2. l \in Locals /\ loc' = [loc EXCEPT ![t] = l]
  <2>1. pc \in Labels
    BY Zenon DEF Labels
  <2>2. l \in Locals
    <3> HIDE DEF pc
    <3> QED BY <1>1, <2>1, ZenonT(30), Zenon DEF Locals
  <2>3. loc' = [loc EXCEPT ![t] = l]
    BY ZenonT(30), Zenon DEF EndChecks
  <2> QED BY <2>2, <2>3, Zenon
<1>3. /\ l.pc = pc /\ l.arrived = loc[t].arrived /\ l.mostWork = loc[t].mostWork
      /\ l.toConnect = loc[t].toConnect /\ l.queue = NoQueue /\ l.result = result
  BY <1>1, Zenon DEF Locals
<1> HIDE DEF l
<1>4. MovesOnly(t) /\ loc'[t] = l
  BY <1>1, <1>2, MoveFacts, ZenonT(30), Zenon
<1>5. loc[t].queue \in Queues
  BY <1>1, Zenon DEF ThreadInv, OwnMark, Checking, Locals
<1>6. /\ entry' \in [Threads -> Entries \union {NoEntry}]
      /\ \A u \in Threads \ {t} : entry'[u] = entry[u]
      /\ t \in Threads => t \in Registered'
      /\ t \in Registered' => entry'[t].queue = NoQueue
  <2>1. CASE t \in Threads
    <3>1. t \in Registered /\ entry[t] \in Entries
      BY <1>1, <2>1, Zenon DEF ThreadInv, Listed, Registered, Types
    <3>2. e \in Entries /\ e.queue = NoQueue /\ entry' = [entry EXCEPT ![t] = e]
      BY <3>1, Zenon DEF Entries, EndChecks
    <3> HIDE DEF e
    <3> QED BY <1>1, <2>1, <3>2, EntryUpdate, ZenonT(30), Zenon
  <2>2. CASE t \notin Threads
    BY <1>1, <2>2, Zenon DEF EndChecks, Types, Registered
  <2> QED BY <2>1, <2>2, Zenon
<1>7. quitQueues' = quitQueues \union {loc[t].queue}
  BY Zenon DEF EndChecks
<1>8. Types'
  BY <1>1, <1>4, <1>5, <1>6, <1>7, SMTT(30) DEF chain, Types, MovesOnly
<1>9. ThreadInv(t)'
  <2>1. loc'[t].pc = pc /\ (t \in Threads => pc = "relock") /\ (t \notin Threads => pc = "final")
    BY <1>3, <1>4, SMTT(30)
  <2> HIDE DEF pc
  <2> QED BY <1>1, <1>3, <1>4, <1>6, <2>1, TreeAssumption, SMTT(30)
        DEF chain, ThreadInv, Locked, Aimed,
          Connecting, Listed, OwnMark, Checking, Told, Judged, Current, Actors
<1>10. Undisturbed(t)
  BY <1>4, <1>6, <1>7, SMTT(30) DEF chain, Undisturbed, MovesOnly
<1>11. MarksDiffer'
  BY <1>6, <1>10, MarksKept, Zenon
<1> QED BY <1>8, <1>9, <1>10, <1>11, StepKeeps, Zenon DEF chain, IInv, OnlyValidBlocksConnect

LEMMA CheckInputsKeeps ==
    ASSUME IInv, NEW t \in Actors, CheckInputs(t), UNCHANGED feed PROVE IInv'
<1>1. Types /\ ThreadInv(t) BY Zenon DEF IInv
<1>2. ASSUME NEW pc \in {"wait", "missing"}, Goto(t, pc), UNCHANGED <<entry, quitQueues>>
      PROVE  IInv'
  <2>1. MovesOnly(t) /\ Keeps(t) /\ loc'[t].pc = pc
    BY <1>1, <1>2, GotoFacts, Zenon DEF Labels
  <2>2. Types'
    BY <1>1, <1>2, <2>1, SMTT(30) DEF CheckInputs, chain, Types, MovesOnly
  <2>3. ThreadInv(t)'
    BY <1>1, <1>2, <2>1, Zenon
          DEF CheckInputs, chain, Keeps, QuitReceived, ThreadInv, Locked, Aimed, Connecting,
        Listed, Registered, OwnMark, Checking, Told, Judged, Current
  <2> QED BY <1>2, <2>1, <2>2, <2>3, PrivateStep, Zenon
        DEF CheckInputs, chain, IInv, OnlyValidBlocksConnect
<1>3. CASE EndChecks(t, "stopped")
  BY <1>3, EndChecksKeeps, Zenon DEF CheckInputs
<1> QED BY <1>2, <1>3, Zenon DEF CheckInputs

LEMMA InputsMissingKeeps ==
    ASSUME IInv, NEW t \in Actors, InputsMissing(t), UNCHANGED feed PROVE IInv'
<1>1. PICK result \in {"stopped", "invalid"} : EndChecks(t, result)
  BY Zenon DEF InputsMissing
<1> QED BY <1>1, EndChecksKeeps, Zenon DEF InputsMissing

\* The verdict of a queue that was quit is dropped, because its thread is told.
LEMMA WaitForScriptsKeeps ==
    ASSUME IInv, NEW t \in Actors, WaitForScripts(t), UNCHANGED feed PROVE IInv'
<1>1. ThreadInv(t) BY Zenon DEF IInv
<1>2. loc[t].queue \in quitQueues => QuitReceived(t)
  BY <1>1, Zenon DEF ThreadInv, Told, Checking, WaitForScripts
<1>3. PICK result \in {"ok", "invalid", "stopped"} :
          EndChecks(t, result) /\ (result = "ok" => Current(t) \in Valid)
  BY <1>2, Zenon DEF WaitForScripts
<1> QED BY <1>3, EndChecksKeeps, Zenon DEF WaitForScripts

-----------------------------------------------------------------------------
(***************************************************************************)
(* The end of ConnectBlock and of ConnectTip, and of the thread.           *)
(***************************************************************************)

LEMMA SetLocksKeeps ==
    ASSUME IInv, NEW t \in Actors, SetLocks(t), UNCHANGED feed PROVE IInv'
<1>1. Types /\ ThreadInv(t) BY Zenon DEF IInv
<1>2. MovesOnly(t) /\ Keeps(t) /\ loc'[t].pc = "final"
  BY <1>1, GotoFacts, Zenon DEF SetLocks, Labels
<1>3. Types'
  BY <1>1, <1>2, SMTT(30) DEF SetLocks, table, chain, Types, MovesOnly
<1>4. ThreadInv(t)'
  BY <1>1, <1>2, SMTT(30) DEF SetLocks, table, chain, Keeps, ThreadInv, Locked, Aimed, Connecting,
        Listed, Registered, OwnMark, Checking, Told, Judged, Current
<1> QED BY <1>2, <1>3, <1>4, PrivateStep, Zenon DEF SetLocks, table, chain, IInv,
      OnlyValidBlocksConnect

LEMMA InvalidBlockFoundKeeps ==
    ASSUME IInv, NEW t \in Actors, InvalidBlockFound(t), UNCHANGED feed PROVE IInv'
<1>1. Types /\ ThreadInv(t) BY Zenon DEF IInv
<1>2. MovesOnly(t) /\ Rests(t) /\ loc'[t].pc = "again"
  BY <1>1, AgainFacts, Zenon DEF InvalidBlockFound
<1>3. Types'
  BY <1>1, <1>2, SMTT(30) DEF InvalidBlockFound, table, Types, MovesOnly
<1>4. ThreadInv(t)'
  BY <1>1, <1>2, SMTT(30)
        DEF InvalidBlockFound, table, Rests, ThreadInv, Locked, Aimed, Connecting,
        Listed, Registered, OwnMark, Checking, Told, Judged, Current
<1> QED BY <1>2, <1>3, <1>4, PrivateStep, SMTT(30)
      DEF InvalidBlockFound, table, IInv, OnlyValidBlocksConnect

LEMMA RaceLostKeeps ==
    ASSUME IInv, NEW t \in Actors, RaceLost(t), UNCHANGED feed PROVE IInv'
<1>1. Types /\ ThreadInv(t) BY Zenon DEF IInv
<1>2. MovesOnly(t) /\ Rests(t) /\ loc'[t].pc = "finish" /\ csMain' = NoThread
  BY <1>1, ReturnFacts, Zenon DEF RaceLost
<1>3. Types'
  BY <1>1, <1>2, SMTT(30) DEF RaceLost, table, chain, Types, MovesOnly
<1>4. ThreadInv(t)'
  BY <1>1, <1>2, SMTT(30) DEF RaceLost, table, chain, Rests, ThreadInv, Locked, Aimed, Connecting,
        Listed, Registered, OwnMark, Checking, Told, Judged, Current
<1>5. csMain = t
  BY <1>1, SMTT(30) DEF RaceLost, ThreadInv, Locked
<1> QED BY <1>2, <1>3, <1>4, <1>5, PrivateStep, SMTT(30)
      DEF RaceLost, table, chain, IInv, OnlyValidBlocksConnect

LEMMA QuitCompetingThreadsKeeps ==
    ASSUME IInv, NEW t \in Actors, QuitCompetingThreads(t), UNCHANGED feed PROVE IInv'
<1> DEFINE U == Competing(t, Parent(Current(t)))
<1>1. Types /\ ThreadInv(t) BY Zenon DEF IInv
<1>2. U \in SUBSET (Registered \ {t}) /\ QuitAll(U)
  BY Zenon DEF Competing, QuitCompetingThreads
<1> HIDE DEF U
<1>3. MovesOnly(t) /\ Keeps(t) /\ loc'[t].pc = "flush"
  BY <1>1, GotoFacts, Zenon DEF QuitCompetingThreads, Labels
<1>4. /\ entry' \in [Threads -> Entries \union {NoEntry}] /\ quitQueues' \subseteq Queues
      /\ t \in Threads => entry'[t] = entry[t]
  BY <1>2, QuitAllFacts, Zenon
<1>5. Types'
  BY <1>1, <1>3, <1>4, SMTT(30) DEF QuitCompetingThreads, chain, Types, MovesOnly
<1>6. ThreadInv(t)'
  BY <1>1, <1>3, <1>4, SMTT(30), Zenon
        DEF QuitCompetingThreads, chain, Keeps, ThreadInv, Locked, Aimed, Connecting,
        Listed, Registered, OwnMark, Checking, Told, Judged, Current
<1> QED BY <1>2, <1>3, <1>5, <1>6, QuitStep, ZenonT(30), Zenon
      DEF QuitCompetingThreads, chain, IInv, OnlyValidBlocksConnect

LEMMA FlushCoinsKeeps ==
    ASSUME IInv, NEW t \in Actors, FlushCoins(t), UNCHANGED feed PROVE IInv'
<1>1. Types /\ ThreadInv(t) BY Zenon DEF IInv
<1>2. MovesOnly(t) /\ Keeps(t) /\ loc'[t].pc = "tip"
  BY <1>1, GotoFacts, Zenon DEF FlushCoins, Labels
<1>3. Types'
  BY <1>1, <1>2, SMTT(30) DEF FlushCoins, table, chain, Types, MovesOnly
<1>4. ThreadInv(t)'
  BY <1>1, <1>2, ZenonT(30), Zenon
        DEF FlushCoins, table, chain, Keeps, ThreadInv, Locked, Aimed, Connecting,
        Listed, Registered, OwnMark, Checking, Told, Judged, Current
<1> QED BY <1>1, <1>2, <1>3, <1>4, PrivateStep, ZenonT(30), Zenon
      DEF FlushCoins, table, chain, IInv, OnlyValidBlocksConnect, ThreadInv, Judged

LEMMA UpdateTipKeeps ==
    ASSUME IInv, NEW t \in Actors, UpdateTip(t), UNCHANGED feed PROVE IInv'
<1> DEFINE l == [loc[t] EXCEPT !.pc = "connect", !.toConnect = Tail(@), !.startWork = 0,
                               !.result = "none"]
<1>1. Types /\ ThreadInv(t) /\ loc[t] \in Locals BY Zenon DEF IInv, Types
<1>2. loc[t].toConnect \in Seq(Tree) /\ loc[t].toConnect # <<>>
  BY <1>1, Zenon DEF UpdateTip, SetTip, ThreadInv, Aimed, Connecting, Locals
<1>3. Current(t) \in Tree /\ Tail(loc[t].toConnect) \in Seq(Tree)
  BY <1>2 DEF Current
<1>4. l \in Locals
  BY <1>1, <1>3, ZenonT(30), ZenonT(30) DEF Locals, Labels
<1>5. loc' = [loc EXCEPT ![t] = l]
  BY ZenonT(30), Zenon DEF UpdateTip, SetTip
<1>6. MovesOnly(t) /\ loc'[t] = l
  BY <1>1, <1>4, <1>5, Zenon DEF MovesOnly, Types
<1>7. /\ l.pc = "connect" /\ l.arrived = loc[t].arrived /\ l.mostWork = loc[t].mostWork
      /\ l.queue = loc[t].queue /\ l.result = "none"
  BY <1>1, Zenon DEF Locals
<1>8. Types'
  BY <1>1, <1>3, <1>6, Zenon DEF UpdateTip, SetTip, table, Types, MovesOnly
<1>9. ThreadInv(t)'
  <2> HIDE DEF l
  <2> QED BY <1>1, <1>6, <1>7, Zenon DEF UpdateTip, SetTip, table, ThreadInv, Locked,
        Aimed, Connecting,
        Listed, Registered, OwnMark, Checking, Told, Judged, Current
<1>10. csMain = t
  BY <1>1, Zenon DEF UpdateTip, SetTip, ThreadInv, Locked
<1> QED BY <1>6, <1>8, <1>9, <1>10, PrivateStep, Zenon DEF UpdateTip, SetTip, table, IInv,
      OnlyValidBlocksConnect

LEMMA PostKeeps ==
    ASSUME IInv, NEW t \in Actors, Post(t), UNCHANGED feed PROVE IInv'
<1>1. Types /\ ThreadInv(t) /\ Idle \in Locals BY EntryFacts, Zenon DEF IInv
<1>2. CASE t \in Threads
  <2>1. MovesOnly(t) /\ Keeps(t) /\ loc'[t].pc = "erase"
    BY <1>1, <1>2, GotoFacts, Zenon DEF Post, Labels
  <2>2. Types'
    BY <1>1, <2>1, SMTT(30) DEF Post, chain, Types, MovesOnly
  <2>3. ThreadInv(t)'
    BY <1>1, <2>1, SMTT(30) DEF Post, chain, Keeps, ThreadInv, Locked, Aimed, Connecting,
        Listed, Registered, OwnMark, Checking, Told, Judged, Current
  <2> QED BY <2>1, <2>2, <2>3, PrivateStep, Zenon DEF Post, chain, IInv, OnlyValidBlocksConnect
<1>3. CASE t \notin Threads
  <2>1. MovesOnly(t) /\ loc'[t] = Idle
    BY <1>1, <1>3, Zenon DEF Post, MovesOnly, Types
  <2>2. Types'
    BY <1>1, <2>1, Zenon DEF Post, chain, Types, MovesOnly
  <2>3. ThreadInv(t)'
    BY <1>3, <2>1, EntryFacts, Zenon DEF ThreadInv, Locked, Aimed, Connecting,
        Listed, Registered, OwnMark, Checking, Told, Judged, Current
  <2> QED BY <2>1, <2>2, <2>3, PrivateStep, Zenon DEF Post, chain, IInv, OnlyValidBlocksConnect
<1> QED BY <1>2, <1>3, Zenon

LEMMA EraseKeeps ==
    ASSUME IInv, NEW t \in Actors, Erase(t), UNCHANGED feed PROVE IInv'
<1>1. Types /\ ThreadInv(t) /\ Idle \in Locals BY EntryFacts, Zenon DEF IInv
<1>2. MovesOnly(t) /\ loc'[t] = Idle
  BY <1>1, Zenon DEF Erase, MovesOnly, Types
<1>3. entry' \in [Threads -> Entries \union {NoEntry}]
  BY <1>1, ZenonT(30), Zenon DEF Erase, Types
<1>4. t \notin Registered' /\ \A u \in Threads \ {t} : entry'[u] = entry[u]
  BY <1>1, Zenon DEF Erase, Registered, Types
<1>5. Types'
  BY <1>1, <1>2, <1>3, Zenon DEF Erase, chain, Types, MovesOnly
<1>6. ThreadInv(t)'
  BY <1>2, <1>4, EntryFacts, Zenon DEF ThreadInv, Locked, Aimed, Connecting, Listed,
     OwnMark, Checking,
        Told, Judged
<1>7. Undisturbed(t)
  BY <1>2, <1>4, Zenon DEF Erase, chain, Undisturbed, MovesOnly
<1>8. MarksDiffer'
  BY <1>4, <1>7, MarksKept, Zenon
<1> QED BY <1>5, <1>6, <1>7, <1>8, StepKeeps, Zenon DEF Erase, chain, IInv, OnlyValidBlocksConnect

-----------------------------------------------------------------------------
(***************************************************************************)
(* The coins and the tip.  While no tip has looked like the one a thread   *)
(* began with, a thread whose comparison of the works succeeds has the     *)
(* parent of its block at the tip.                                         *)
(***************************************************************************)
\* In ConnectBlock, before the comparison that lets a thread win.
Contending == {"queue", "begin", "inputs", "missing", "wait", "relock", "final"}

Follows(t) ==
    /\ loc[t].pc \in Contending /\ Work[tip] = loc[t].startWork => tip = Parent(Current(t))
    /\ loc[t].pc \in {"flush", "tip"} => tip = Parent(Current(t))

\* Between the coins and the tip, in the one or the other direction.
Midway(t) == loc[t].pc \in {"tip", "disconnect"}

CoinsOfTip ==
    /\ \A t \in Actors : loc[t].pc = "tip" => coins = Ancestors(Current(t))
    /\ \A t \in Actors : loc[t].pc = "disconnect" => coins = Ancestors(tip) \ {tip}
    /\ (\A t \in Actors : ~Midway(t)) => coins = Ancestors(tip)

CoinsInv == ~lookalike => (\A t \in Actors : Follows(t)) /\ CoinsOfTip

\* A block adds itself to the ancestors of its parent.
LEMMA AncestorFacts ==
    \A b \in Blocks : /\ Ancestors(b) = Ancestors(Parent(b)) \union {b}
                      /\ Ancestors(b) \ {b} = Ancestors(Parent(b))
<1> SUFFICES ASSUME NEW b \in Blocks
             PROVE  Ancestors(b) = Ancestors(Parent(b)) \union {b}
  BY NoCycles, Zenon
<1> DEFINE c == Chain[Parent(b)]
<1>1. c \in Seq(Tree) /\ Chain[b] = Append(c, b) /\ b \in Tree
  BY TreeFacts, TreeAssumption, Zenon DEF Tree
<1>2. DOMAIN Chain[b] = DOMAIN c \union {Len(c) + 1}
  BY <1>1
<1>3. \A i \in DOMAIN c : Chain[b][i] = c[i]
  BY <1>1
<1>4. Chain[b][Len(c) + 1] = b
  BY <1>1
<1> HIDE DEF c
<1>5. Ancestors(Parent(b)) = {c[i] : i \in DOMAIN c}
  BY Zenon DEF Ancestors, c
<1>6. Ancestors(b) = {Chain[b][i] : i \in DOMAIN c} \union {Chain[b][Len(c) + 1]}
  BY <1>2, Zenon DEF Ancestors
<1>7. {Chain[b][i] : i \in DOMAIN c} = {c[i] : i \in DOMAIN c}
  BY <1>3, Zenon
<1> QED BY <1>4, <1>5, <1>6, <1>7, Zenon

\* A step that leaves the coins and the tip alone and is not between the two.
LEMMA CoinsLeftAlone ==
    ASSUME CoinsInv, NEW t \in Actors, \A u \in Actors \ {t} : loc'[u] = loc[u],
           UNCHANGED <<coins, tip, lookalike>>, ~Midway(t), ~Midway(t)',
           ~lookalike /\ Follows(t) => Follows(t)'
    PROVE  CoinsInv'
<1> SUFFICES ASSUME ~lookalike
             PROVE  (\A u \in Actors : Follows(u)') /\ CoinsOfTip'
  BY Zenon DEF CoinsInv
<1>1. (\A u \in Actors : Follows(u)) /\ CoinsOfTip
  BY Zenon DEF CoinsInv
<1>2. ASSUME NEW u \in Actors PROVE Follows(u)'
  <2>1. CASE u = t
    BY <1>1, <2>1, Zenon
  <2>2. CASE u # t
    BY <1>1, <2>2, Zenon DEF Follows, Current
  <2> QED BY <2>1, <2>2, Zenon
<1>3. \A u \in Actors : Midway(u)' <=> Midway(u)
  BY Zenon DEF Midway
<1>4. \A u \in Actors : Midway(u) => loc'[u] = loc[u]
  BY Zenon
<1>5. (\A u \in Actors : loc[u].pc = "tip" => coins = Ancestors(Current(u)))'
  BY <1>1, <1>3, <1>4, Zenon DEF CoinsOfTip, Midway, Current
<1>6. (\A u \in Actors : loc[u].pc = "disconnect" => coins = Ancestors(tip) \ {tip})'
  BY <1>1, <1>3, <1>4, Zenon DEF CoinsOfTip, Midway
<1>7. ((\A u \in Actors : ~Midway(u)) => coins = Ancestors(tip))'
  BY <1>1, <1>3, Zenon DEF CoinsOfTip
<1> QED BY <1>2, <1>5, <1>6, <1>7, Zenon DEF CoinsOfTip

\* It suffices that the thread is outside ConnectBlock after the step, or goes on in it.
LEMMA CoinsAside ==
    ASSUME CoinsInv, NEW t \in Actors, \A u \in Actors \ {t} : loc'[u] = loc[u],
           UNCHANGED <<coins, tip, lookalike>>, ~Midway(t),
           \/ loc'[t].pc \notin Connecting \union {"disconnect"}
           \/ /\ loc[t].pc \in Contending /\ loc'[t].pc \in Contending
              /\ loc'[t].startWork = loc[t].startWork /\ loc'[t].toConnect = loc[t].toConnect
    PROVE  CoinsInv'
<1>1. ~Midway(t)'
  BY Zenon DEF Midway, Connecting, Contending
<1>2. Follows(t) => Follows(t)'
  BY Zenon DEF Follows, Connecting, Contending, Current
<1> QED BY <1>1, <1>2, CoinsLeftAlone, Zenon

\* The steps outside ConnectBlock.
LEMMA CoinsOutside ==
    ASSUME IInv, CoinsInv, NEW t \in Actors,
           \/ WaitForGrant(t) \/ InitThread(t) \/ ProcessAcceptBlock(t)
           \/ ReorgQuit(t) \/ InvalidBlockFound(t) \/ RaceLost(t) \/ Post(t) \/ Erase(t)
    PROVE  CoinsInv'
<1>1. Types BY Zenon DEF IInv
<1>2. UNCHANGED <<coins, tip, lookalike>> /\ ~Midway(t)
  BY Zenon DEF WaitForGrant, InitThread, ProcessAcceptBlock, ReorgQuit, InvalidBlockFound,
      RaceLost, Post, Erase, chain, Midway
<1>3. \/ \E pc \in {"init", "accept", "activate", "finish", "erase"} : Goto(t, pc)
      \/ Return(t) \/ Again(t) \/ loc' = [loc EXCEPT ![t] = Idle]
  BY Zenon DEF WaitForGrant, InitThread, ProcessAcceptBlock, ReorgQuit, InvalidBlockFound,
      RaceLost, Post, Erase
<1>4. /\ \A u \in Actors \ {t} : loc'[u] = loc[u]
      /\ loc'[t].pc \notin Connecting \union {"disconnect"}
  <2>1. CASE \E pc \in {"init", "accept", "activate", "finish", "erase"} : Goto(t, pc)
    BY <1>1, <2>1, GotoFacts, Zenon DEF Labels, MovesOnly, Connecting
  <2>2. CASE Return(t) \/ Again(t)
    BY <1>1, <2>2, ReturnFacts, AgainFacts, Zenon DEF MovesOnly, Connecting
  <2>3. CASE loc' = [loc EXCEPT ![t] = Idle]
    BY <1>1, <2>3, EntryFacts, MoveFacts, Zenon DEF MovesOnly, Connecting
  <2> QED BY <1>3, <2>1, <2>2, <2>3, Zenon
<1> QED BY <1>2, <1>4, CoinsAside, Zenon

\* A block arrives.
LEMMA CoinsReceive ==
    ASSUME IInv, CoinsInv, NEW t \in Actors,
           HandleBlockMessageHelper(t) \/ StopAllSummaryBlockValidationThreads(t)
    PROVE  CoinsInv'
<1>1. Types /\ loc[t] \in Locals BY Zenon DEF IInv, Types
<1>2. UNCHANGED <<coins, tip, lookalike>> /\ ~Midway(t)
  BY Zenon DEF HandleBlockMessageHelper, Launch, Crowded,
      StopAllSummaryBlockValidationThreads, chain, Midway
<1>3. PICK pc \in {"grant", "init", "refused", "accept"}, b \in feed[t] :
          loc' = [loc EXCEPT ![t].pc = pc, ![t].pblock = b, ![t].arrived = b]
  BY ZenonT(30) DEF HandleBlockMessageHelper, Launch, Crowded,
      StopAllSummaryBlockValidationThreads
<1> DEFINE l == [loc[t] EXCEPT !.pc = pc, !.pblock = b, !.arrived = b]
<1>4. loc' = [loc EXCEPT ![t] = l] /\ l.pc = pc
  BY <1>1, <1>3, ZenonT(30) DEF Locals
<1> HIDE DEF l
<1>5. /\ \A u \in Actors \ {t} : loc'[u] = loc[u]
      /\ loc'[t].pc \notin Connecting \union {"disconnect"}
  BY <1>1, <1>4, Zenon DEF Types, Connecting
<1> QED BY <1>2, <1>5, CoinsAside, Zenon

\* The way to the fork point begins, or goes on.
LEMMA ApproachMoves ==
    ASSUME Types, NEW t \in Actors, NEW x, NEW b, NEW d, Approach(t, x, b, d)
    PROVE  /\ \A u \in Actors \ {t} : loc'[u] = loc[u]
           /\ loc'[t].pc \in {"connect", "reorg"}
<1>1. loc[t] \in Locals BY Zenon DEF Types
<1> DEFINE p == PathFrom(Height(x), b)
           connect == [loc[t] EXCEPT !.pc = "connect", !.mostWork = b,
                                     !.fBlocksDisconnected = d, !.toConnect = p]
           reorg == [loc[t] EXCEPT !.pc = "reorg", !.mostWork = b, !.fBlocksDisconnected = d]
<1>2. connect.pc = "connect" /\ reorg.pc = "reorg"
  BY <1>1, Zenon DEF Locals
<1>3. loc' = [loc EXCEPT ![t] = connect] \/ loc' = [loc EXCEPT ![t] = reorg]
  BY ZenonT(30) DEF Approach
<1> HIDE DEF connect, reorg
<1> QED BY <1>2, <1>3, Zenon DEF Types

LEMMA CoinsActivate ==
    ASSUME IInv, CoinsInv, NEW t \in Actors, ActivateBestChain(t) PROVE CoinsInv'
<1>1. Types BY Zenon DEF IInv
<1>2. UNCHANGED <<coins, tip, lookalike>> /\ ~Midway(t)
  BY Zenon DEF ActivateBestChain, chain, Midway
<1>3. Return(t) \/ \E b : Approach(t, tip, b, FALSE)
  BY Zenon DEF ActivateBestChain, Aim
<1>4. /\ \A u \in Actors \ {t} : loc'[u] = loc[u]
      /\ loc'[t].pc \in {"finish", "connect", "reorg"}
  BY <1>1, <1>3, ReturnFacts, ApproachMoves, Zenon DEF MovesOnly
<1> QED BY <1>2, <1>4, CoinsAside, Zenon DEF Connecting

\* The end of a path.
LEMMA CoinsPath ==
    ASSUME IInv, CoinsInv, NEW t \in Actors, PathConnected(t) PROVE CoinsInv'
<1>1. Types /\ loc[t] \in Locals BY Zenon DEF IInv, Types
<1>2. UNCHANGED <<coins, tip, lookalike>> /\ loc[t].pc = "connect"
  BY Zenon DEF PathConnected, chain
<1>3. CASE Again(t)
  BY <1>1, <1>2, <1>3, AgainFacts, CoinsAside, Zenon DEF MovesOnly, Connecting, Midway
<1>4. ASSUME NEW b, NEW p, loc' = [loc EXCEPT ![t].mostWork = b, ![t].toConnect = p]
      PROVE  CoinsInv'
  <2> DEFINE l == [loc[t] EXCEPT !.mostWork = b, !.toConnect = p]
  <2>1. loc' = [loc EXCEPT ![t] = l] /\ l.pc = loc[t].pc
    BY <1>1, <1>4, ZenonT(30) DEF Locals
  <2> HIDE DEF l
  <2>2. loc'[t] = l /\ \A u \in Actors \ {t} : loc'[u] = loc[u]
    BY <1>1, <2>1, Zenon DEF Types
  <2> QED BY <1>2, <2>1, <2>2, CoinsAside, Zenon DEF Connecting, Midway
<1> QED BY <1>3, <1>4, Zenon DEF PathConnected

\* A thread enters ConnectBlock with the parent of its block at the tip.
LEMMA CoinsConnectTip ==
    ASSUME IInv, CoinsInv, NEW t \in Actors, ConnectTip(t) PROVE CoinsInv'
<1>1. Types /\ loc[t] \in Locals BY Zenon DEF IInv, Types
<1>2. UNCHANGED <<coins, tip, lookalike>> /\ ~Midway(t)
  BY Zenon DEF ConnectTip, chain, Midway
<1>3. CASE Again(t) \/ Return(t)
  BY <1>1, <1>2, <1>3, AgainFacts, ReturnFacts, CoinsAside, Zenon DEF MovesOnly, Connecting
<1>4. CASE /\ Parent(Current(t)) = tip
           /\ loc' = [loc EXCEPT ![t].pc = "queue", ![t].startWork = Work[tip]]
  <2> DEFINE l == [loc[t] EXCEPT !.pc = "queue", !.startWork = Work[tip]]
  <2>1. loc' = [loc EXCEPT ![t] = l] /\ l.pc = "queue" /\ l.toConnect = loc[t].toConnect
    BY <1>1, <1>4, ZenonT(30) DEF Locals
  <2> HIDE DEF l
  <2>2. loc'[t] = l /\ \A u \in Actors \ {t} : loc'[u] = loc[u]
    BY <1>1, <2>1, Zenon DEF Types
  <2>3. Follows(t)' /\ ~Midway(t)'
    BY <1>2, <1>4, <2>1, <2>2, Zenon DEF Follows, Current, Midway
  <2> QED BY <1>2, <2>2, <2>3, CoinsLeftAlone, Zenon
<1> QED BY <1>3, <1>4, Zenon DEF ConnectTip, Current

\* The checks of a block, from its queue to the lock.
LEMMA CoinsChecks ==
    ASSUME IInv, CoinsInv, NEW t \in Actors,
           \/ GetScriptCheckQueue(t) \/ BeginValidation(t) \/ BeginSingleThreaded(t)
           \/ CheckInputs(t) \/ InputsMissing(t) \/ WaitForScripts(t) \/ SetLocks(t)
    PROVE  CoinsInv'
<1>1. Types /\ loc[t] \in Locals BY Zenon DEF IInv, Types
<1>2. UNCHANGED <<coins, tip, lookalike>> /\ loc[t].pc \in Contending /\ ~Midway(t)
  BY Zenon DEF GetScriptCheckQueue, BeginValidation, BeginSingleThreaded, CheckInputs,
      InputsMissing, WaitForScripts, SetLocks, chain, Contending, Midway
<1>3. \/ Return(t)
      \/ \E pc \in {"inputs", "wait", "missing", "final"} : Goto(t, pc)
      \/ \E q \in Queues : TakeQueue(t, q)
      \/ \E result \in {"ok", "invalid", "stopped"} : EndChecks(t, result)
  BY Zenon DEF GetScriptCheckQueue, BeginValidation, StartChecks, BeginSingleThreaded,
      CheckInputs, InputsMissing, WaitForScripts, SetLocks
<1>4. CASE Return(t)
  BY <1>1, <1>2, <1>4, ReturnFacts, CoinsAside, Zenon DEF MovesOnly, Connecting
<1>5. CASE \E pc \in {"inputs", "wait", "missing", "final"} : Goto(t, pc)
  <2>1. PICK pc \in {"inputs", "wait", "missing", "final"} : Goto(t, pc)
    BY <1>5, Zenon
  <2>2. MovesOnly(t) /\ Keeps(t) /\ loc'[t].pc = pc
    BY <1>1, <2>1, GotoFacts, Zenon DEF Labels
  <2> QED BY <1>2, <2>2, CoinsAside, Zenon DEF MovesOnly, Keeps, Contending
<1>6. ASSUME NEW q \in Queues, TakeQueue(t, q) PROVE CoinsInv'
  <2> DEFINE l == [loc[t] EXCEPT !.pc = "begin", !.queue = q]
  <2>1. /\ loc' = [loc EXCEPT ![t] = l] /\ l.pc = "begin"
        /\ l.toConnect = loc[t].toConnect /\ l.startWork = loc[t].startWork
    BY <1>1, <1>6, ZenonT(30) DEF Locals, TakeQueue
  <2> HIDE DEF l
  <2>2. loc'[t] = l /\ \A u \in Actors \ {t} : loc'[u] = loc[u]
    BY <1>1, <2>1, Zenon DEF Types
  <2> QED BY <1>2, <2>1, <2>2, CoinsAside, Zenon DEF Contending
<1>7. ASSUME NEW result, EndChecks(t, result) PROVE CoinsInv'
  <2> DEFINE pc == IF t \in Threads THEN "relock" ELSE "final"
             l == [loc[t] EXCEPT !.queue = NoQueue, !.result = result, !.pc = pc]
  <2>1. pc \in {"relock", "final"}
    BY Zenon
  <2>2. /\ loc' = [loc EXCEPT ![t] = l] /\ l.pc = pc
        /\ l.toConnect = loc[t].toConnect /\ l.startWork = loc[t].startWork
    BY <1>1, <1>7, ZenonT(30) DEF Locals, EndChecks
  <2> HIDE DEF l, pc
  <2>3. loc'[t] = l /\ \A u \in Actors \ {t} : loc'[u] = loc[u]
    BY <1>1, <2>2, Zenon DEF Types
  <2> QED BY <1>2, <2>1, <2>2, <2>3, CoinsAside, Zenon DEF Contending
<1> QED BY <1>3, <1>4, <1>5, <1>6, <1>7, Zenon

\* The comparison of the works lets a thread win that has the parent at the tip.
LEMMA CoinsWin ==
    ASSUME IInv, CoinsInv, NEW t \in Actors, QuitCompetingThreads(t) PROVE CoinsInv'
<1>1. Types BY Zenon DEF IInv
<1>2. UNCHANGED <<coins, tip, lookalike>> /\ loc[t].pc = "final" /\ Work[tip] = loc[t].startWork
  BY Zenon DEF QuitCompetingThreads, chain, ChainWorkHasChanged
<1>3. MovesOnly(t) /\ Keeps(t) /\ loc'[t].pc = "flush"
  BY <1>1, GotoFacts, Zenon DEF QuitCompetingThreads, Labels
<1>4. Follows(t) => Follows(t)'
  BY <1>2, <1>3, Zenon DEF Follows, Contending, Keeps, Current
<1> QED BY <1>2, <1>3, <1>4, CoinsLeftAlone, Zenon DEF MovesOnly, Midway

\* Who changes the coins or the tip holds cs_main, and is alone in doing so.
LEMMA AloneMidway ==
    ASSUME IInv, NEW t \in Actors, loc[t].pc \in {"reorg", "disconnect", "flush", "tip"}
    PROVE  \A u \in Actors \ {t} : ~Midway(u) /\ loc[u].pc # "flush"
  BY Zenon DEF IInv, ThreadInv, Locked, Midway

LEMMA CoinsFlush ==
    ASSUME IInv, CoinsInv, NEW t \in Actors, FlushCoins(t) PROVE CoinsInv'
<1> SUFFICES ASSUME ~lookalike PROVE (\A u \in Actors : Follows(u)') /\ CoinsOfTip'
  BY Zenon DEF CoinsInv, FlushCoins
<1>1. Types /\ ThreadInv(t) BY Zenon DEF IInv
<1>2. MovesOnly(t) /\ Keeps(t) /\ loc'[t].pc = "tip"
  BY <1>1, GotoFacts, Zenon DEF FlushCoins, Labels
<1>3. loc[t].pc = "flush" /\ tip' = tip /\ coins' = coins \union {Current(t)}
  BY Zenon DEF FlushCoins
<1>4. Current(t) \in Blocks
  BY <1>1, <1>3, TreeAssumption, Zenon DEF ThreadInv, Judged
<1>5. \A u \in Actors \ {t} : ~Midway(u)' /\ Follows(u)'
  BY <1>2, <1>3, AloneMidway, Zenon DEF CoinsInv, MovesOnly, Midway, Follows, Current
<1>6. tip = Parent(Current(t)) /\ Current(t)' = Current(t)
  BY <1>2, <1>3, Zenon DEF CoinsInv, Follows, Keeps, Current
<1>7. Follows(t)'
  BY <1>2, <1>3, <1>6, Zenon DEF Follows, Contending
<1>8. coins = Ancestors(tip)
  <2>1. \A u \in Actors : ~Midway(u)
    BY <1>3, AloneMidway, Zenon DEF Midway
  <2> QED BY <2>1, Zenon DEF CoinsInv, CoinsOfTip
<1>9. coins' = Ancestors(Current(t)')
  BY <1>3, <1>4, <1>6, <1>8, AncestorFacts, Zenon
<1> QED BY <1>2, <1>5, <1>7, <1>9, Zenon DEF CoinsOfTip, Midway

LEMMA CoinsUpdateTip ==
    ASSUME IInv, CoinsInv, NEW t \in Actors, UpdateTip(t) PROVE CoinsInv'
<1>1. Types /\ loc[t] \in Locals BY Zenon DEF IInv, Types
<1> SUFFICES ASSUME ~lookalike' PROVE (\A u \in Actors : Follows(u)') /\ CoinsOfTip'
  BY Zenon DEF CoinsInv
<1>2. /\ loc[t].pc = "tip" /\ tip' = Current(t) /\ coins' = coins /\ ~lookalike
      /\ \A u \in Actors : ~LooksAlike(u, tip')
  BY Zenon DEF UpdateTip, SetTip
<1> DEFINE l == [loc[t] EXCEPT !.pc = "connect", !.toConnect = Tail(@), !.startWork = 0,
                               !.result = "none"]
<1>3. loc' = [loc EXCEPT ![t] = l] /\ l.pc = "connect"
  BY <1>1, ZenonT(30) DEF Locals, UpdateTip
<1> HIDE DEF l
<1>4. loc'[t] = l /\ \A u \in Actors \ {t} : loc'[u] = loc[u]
  BY <1>1, <1>3, Zenon DEF Types
<1>5. ASSUME NEW u \in Actors \ {t} PROVE ~Midway(u)' /\ Follows(u)'
  <2>1. ~Midway(u)' /\ loc[u].pc # "flush" /\ loc[u].pc # "tip"
    BY <1>2, <1>4, AloneMidway, Zenon DEF Midway
  <2>2. loc[u].pc \in Contending /\ Work[tip'] = loc[u].startWork => tip' = Parent(Current(u))
    BY <1>2, Zenon DEF LooksAlike, Contending
  <2> QED BY <1>4, <2>1, <2>2, Zenon DEF Follows, Current
<1>6. Follows(t)' /\ ~Midway(t)'
  BY <1>3, <1>4, Zenon DEF Follows, Contending, Midway
<1>7. coins' = Ancestors(tip')
  BY <1>2, Zenon DEF CoinsInv, CoinsOfTip
<1> QED BY <1>5, <1>6, <1>7, Zenon DEF CoinsOfTip, Midway

LEMMA CoinsDisconnect ==
    ASSUME IInv, CoinsInv, NEW t \in Actors, DisconnectCoins(t) PROVE CoinsInv'
<1> SUFFICES ASSUME ~lookalike PROVE (\A u \in Actors : Follows(u)') /\ CoinsOfTip'
  BY Zenon DEF CoinsInv, DisconnectCoins
<1>1. Types BY Zenon DEF IInv
<1>2. MovesOnly(t) /\ loc'[t].pc = "disconnect"
  BY <1>1, GotoFacts, Zenon DEF DisconnectCoins, Labels
<1>3. loc[t].pc = "reorg" /\ tip' = tip /\ coins' = coins \ {tip}
  BY Zenon DEF DisconnectCoins
<1>4. \A u \in Actors \ {t} : ~Midway(u)' /\ Follows(u)'
  BY <1>2, <1>3, AloneMidway, Zenon DEF CoinsInv, MovesOnly, Midway, Follows, Current
<1>5. Follows(t)'
  BY <1>2, Zenon DEF Follows, Contending
<1>6. coins = Ancestors(tip)
  <2>1. \A u \in Actors : ~Midway(u)
    BY <1>3, AloneMidway, Zenon DEF Midway
  <2> QED BY <2>1, Zenon DEF CoinsInv, CoinsOfTip
<1> QED BY <1>2, <1>3, <1>4, <1>5, <1>6, Zenon DEF CoinsOfTip, Midway

LEMMA CoinsDisconnectTip ==
    ASSUME IInv, CoinsInv, NEW t \in Actors, DisconnectTip(t) PROVE CoinsInv'
<1>1. Types /\ ThreadInv(t) BY Zenon DEF IInv
<1> SUFFICES ASSUME ~lookalike' PROVE (\A u \in Actors : Follows(u)') /\ CoinsOfTip'
  BY Zenon DEF CoinsInv
<1>2. /\ loc[t].pc = "disconnect" /\ tip' = Parent(tip) /\ coins' = coins /\ ~lookalike
      /\ \A u \in Actors : ~LooksAlike(u, tip')
      /\ \E b, d : Approach(t, tip', b, d)
  BY Zenon DEF DisconnectTip, SetTip
<1>3. /\ \A u \in Actors \ {t} : loc'[u] = loc[u]
      /\ loc'[t].pc \in {"connect", "reorg"}
  BY <1>1, <1>2, ApproachMoves, Zenon
<1>4. tip \in Blocks
  BY <1>1, <1>2, TreeFacts, ZenonT(30) DEF Types, Tree, ThreadInv, Aimed
<1>5. ASSUME NEW u \in Actors \ {t} PROVE ~Midway(u)' /\ Follows(u)'
  <2>1. ~Midway(u)' /\ loc[u].pc # "flush" /\ loc[u].pc # "tip"
    BY <1>2, <1>3, AloneMidway, Zenon DEF Midway
  <2>2. loc[u].pc \in Contending /\ Work[tip'] = loc[u].startWork => tip' = Parent(Current(u))
    BY <1>2, Zenon DEF LooksAlike, Contending
  <2> QED BY <1>3, <2>1, <2>2, Zenon DEF Follows, Current
<1>6. Follows(t)' /\ ~Midway(t)'
  BY <1>3, Zenon DEF Follows, Contending, Midway
<1>7. coins' = Ancestors(tip')
  BY <1>2, <1>4, AncestorFacts, Zenon DEF CoinsInv, CoinsOfTip
<1> QED BY <1>5, <1>6, <1>7, Zenon DEF CoinsOfTip, Midway

\* All of them.
LEMMA CoinsNext == IInv /\ CoinsInv /\ [Next]_vars => CoinsInv'
<1> SUFFICES ASSUME IInv, CoinsInv, [Next]_vars PROVE CoinsInv'
  BY Zenon
<1>1. CASE UNCHANGED vars
  BY <1>1, ZenonT(30) DEF vars, CoinsInv, CoinsOfTip, Follows, Midway, Current
<1>2. ASSUME NEW t \in Actors, Step(t) PROVE CoinsInv'
  BY <1>2, CoinsOutside, CoinsActivate, CoinsPath, CoinsConnectTip, CoinsChecks, CoinsWin,
     CoinsFlush, CoinsUpdateTip, CoinsDisconnect, CoinsDisconnectTip, Zenon DEF Step
<1> QED BY <1>1, <1>2, CoinsReceive, Zenon DEF Next, Actors

-----------------------------------------------------------------------------
(***************************************************************************)
(* The invariant and what follows from it.                                 *)
(***************************************************************************)

\* The invariant holds at the start ...
LEMMA InitInv == Init => IInv
<1> SUFFICES ASSUME Init PROVE IInv
  BY Zenon
<1>1. Types
  BY EntryFacts, TreeAssumption, Zenon DEF Init, Types, Tree
<1>2. Registered = {}
  BY Zenon DEF Init, Registered
<1>3. \A t \in Actors : loc[t] = Idle
  BY SMTT(30) DEF Init
<1>4. \A t \in Actors : ThreadInv(t)
  <2> SUFFICES ASSUME NEW t \in Actors PROVE ThreadInv(t)
    BY Zenon
  <2>1. loc[t].pc = "idle" /\ loc[t].queue = NoQueue /\ loc[t].result = "none"
    BY <1>3, EntryFacts, Zenon
  <2> QED BY <1>2, <2>1, Zenon DEF ThreadInv, Locked, Aimed, Connecting, Listed, OwnMark, Checking,
          Told, Judged
<1>5. OnlyValidBlocksConnect
  BY Zenon DEF Init, OnlyValidBlocksConnect
<1> QED BY <1>1, <1>2, <1>4, <1>5, Zenon DEF IInv, MarksDiffer

\* ... and is kept by every step.
LEMMA NextInv == IInv /\ [Next]_vars => IInv'
<1> SUFFICES ASSUME IInv, [Next]_vars PROVE IInv'
  BY Zenon
<1>1. CASE UNCHANGED vars
  <2>1. Types' /\ MarksDiffer' /\ OnlyValidBlocksConnect'
    BY <1>1, SMTT(30) DEF vars, IInv, Types, MarksDiffer, OnlyValidBlocksConnect, Registered
  <2>2. ASSUME NEW t \in Actors PROVE ThreadInv(t)'
    <3>1. ThreadInv(t)
      BY Zenon DEF IInv
    <3> QED BY <1>1, <3>1, ZenonT(30), ZenonT(30)
          DEF vars, ThreadInv, Locked, Aimed, Listed, Registered, OwnMark,
            Checking, Told, QuitReceived, Judged, Current
  <2> QED BY <2>1, <2>2, Zenon DEF IInv
<1>2. ASSUME NEW t \in Threads, HandleBlockMessageHelper(t) PROVE IInv'
  BY <1>2, HandleBlockMessageHelperKeeps, Zenon
<1>3. ASSUME NEW t \in Miners, StopAllSummaryBlockValidationThreads(t) PROVE IInv'
  BY <1>3, StopAllSummaryBlockValidationThreadsKeeps, Zenon
<1>4. ASSUME NEW t \in Actors, Step(t) PROVE IInv'
  <2>1. CASE WaitForGrant(t) \/ InitThread(t) \/ ProcessAcceptBlock(t)
    BY <1>4, <2>1, WaitForGrantKeeps, InitThreadKeeps, ProcessAcceptBlockKeeps, Zenon DEF Step
  <2>2. CASE ActivateBestChain(t) \/ ReorgQuit(t) \/ DisconnectCoins(t) \/ DisconnectTip(t)
    BY <1>4, <2>2, ActivateBestChainKeeps, ReorgQuitKeeps, DisconnectCoinsKeeps,
       DisconnectTipKeeps, Zenon DEF Step
  <2>3. CASE PathConnected(t) \/ ConnectTip(t) \/ GetScriptCheckQueue(t)
    BY <1>4, <2>3, PathConnectedKeeps, ConnectTipKeeps, GetScriptCheckQueueKeeps, Zenon DEF Step
  <2>4. CASE BeginValidation(t) \/ BeginSingleThreaded(t) \/ CheckInputs(t)
    BY <1>4, <2>4, BeginValidationKeeps, BeginSingleThreadedKeeps, CheckInputsKeeps, Zenon DEF Step
  <2>5. CASE InputsMissing(t) \/ WaitForScripts(t) \/ SetLocks(t)
    BY <1>4, <2>5, InputsMissingKeeps, WaitForScriptsKeeps, SetLocksKeeps, Zenon DEF Step
  <2>6. CASE InvalidBlockFound(t) \/ RaceLost(t) \/ QuitCompetingThreads(t)
    BY <1>4, <2>6, InvalidBlockFoundKeeps, RaceLostKeeps, QuitCompetingThreadsKeeps, Zenon DEF Step
  <2>7. CASE FlushCoins(t) \/ UpdateTip(t) \/ Post(t) \/ Erase(t)
    BY <1>4, <2>7, FlushCoinsKeeps, UpdateTipKeeps, PostKeeps, EraseKeeps, Zenon DEF Step
  <2> QED BY <1>4, <2>1, <2>2, <2>3, <2>4, <2>5, <2>6, <2>7, Zenon DEF Step
<1> QED BY <1>1, <1>2, <1>3, <1>4, Zenon DEF Next

\* No script check queue is ever used for two blocks at a time, however many
\* threads and queues there are (GetScriptCheckQueue and the marks it leaves).
THEOREM NeverShared == Spec => []QueueIsNotShared
<1>1. IInv => QueueIsNotShared
  BY NotShared, Zenon
<1> QED BY <1>1, InitInv, NextInv, PTL DEF Spec

\* Whenever a thread at its checks has been told to quit, its queue has been
\* told, too, whoever sent the quit (Quit, and the test in BeginValidation).
THEOREM QuitReaches == Spec => []QuitReachesScripts
<1>1. IInv => QuitReachesScripts
  BY Zenon DEF IInv, ThreadInv, Told, QuitReachesScripts, Actors
<1> QED BY <1>1, InitInv, NextInv, PTL DEF Spec

\* Only a block whose scripts were all checked ever changes the coins, for
\* every tree of blocks and whatever threads are told to quit.
THEOREM OnlyValidConnect == Spec => []OnlyValidBlocksConnect
<1>1. IInv => OnlyValidBlocksConnect
  BY Zenon DEF IInv
<1> QED BY <1>1, InitInv, NextInv, PTL DEF Spec

\* While no thread has taken another tip for the parent of its block, the coins are
\* those of the chain that ends in the tip, for every tree of blocks, every number of
\* threads and miners and however the races end (ChainWorkHasChanged, under cs_main).
THEOREM CoinsStayWithTip == Spec => []CoinsMatchTip
<1>1. Init => CoinsInv
  <2> SUFFICES ASSUME Init PROVE CoinsInv
    BY Zenon
  <2>1. coins = Ancestors(tip)
    <3>1. Ancestors(Root) = {Root}
      BY TreeAssumption DEF Ancestors, Tree
    <3> QED BY <3>1, Zenon DEF Init
  <2>2. \A t \in Actors : loc[t].pc = "idle"
    BY EntryFacts, Zenon DEF Init
  <2> QED BY <2>1, <2>2, Zenon DEF CoinsInv, CoinsOfTip, Follows, Contending, Midway
<1>2. CoinsInv => CoinsMatchTip
  BY Zenon DEF CoinsInv, CoinsOfTip, Midway, CoinsMatchTip
<1> QED BY <1>1, <1>2, InitInv, NextInv, CoinsNext, PTL DEF Spec
=============================================================================
