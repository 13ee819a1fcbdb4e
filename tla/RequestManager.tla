--------------------------- MODULE RequestManager ---------------------------
(***************************************************************************)
(* The request manager (requestManager.cpp): which peer is asked for which *)
(* block, subblock or transaction, and what becomes of the request when    *)
(* the peer answers, does not have the object, is slow, or goes away.      *)
(*                                                                         *)
(* Announcements come from the message handlers, which only take           *)
(* cs_addBlock; what has been received is put down for deletion under      *)
(* cs_deleteBlock; SendRequests takes both over under cs_objDownloader and *)
(* visits the requests one by one.  A peer is finalised when no reference  *)
(* to it is left, and the lists of sources hold references.                *)
(*                                                                         *)
(* Time is abstract: a request that was sent may become due again at any   *)
(* moment.  Downloading, by which a block whose download has begun is not  *)
(* due before the look-ahead interval has passed, is part of that.  The    *)
(* order of a list of sources (desirability) is left open, so the lists    *)
(* are sets.  outstandingReqs is not kept: nothing depends on it.          *)
(***************************************************************************)
EXTENDS Naturals, FiniteSets, Sequences

CONSTANTS
    Nodes,          \* peers
    Good,           \* the peers that stay and answer in time
    NoNode,
    Blocks,         \* objType::BLOCK
    Subblocks,      \* objType::SUBBLOCK
    Txns,           \* objType::TXN
    Damaged,        \* pairs of a peer and a block: its copy fails its checks
    Scenarios,      \* what is announced, which blocks are missing while the chain
                    \* is being synced, which are near enough to the tip to be
                    \* stored unasked, whether the relay timer is enabled, and
                    \* what peers do that are not good
    MAX_SOURCES_TO_ADD,
    MAX_BLK_INFO,   \* twice DEFAULT_BLOCK_DOWNLOAD_WINDOW
    MAX_IN_FLIGHT_REQS,
    nMaxBlocksInTransit

AllBlocks == Blocks \union Subblocks
Objs == AllBlocks \union Txns

Faults == {"lose", "reject", "close", "leave", "stall"}

ASSUME ConstantsAssumption ==
    /\ Good \subseteq Nodes /\ Damaged \subseteq Nodes \X AllBlocks /\ NoNode \notin Nodes
    /\ Blocks \intersect Subblocks = {} /\ AllBlocks \intersect Txns = {}
    /\ \A e \in Scenarios : /\ e.announce \subseteq Nodes \X Objs
                            /\ e.missing \subseteq Blocks /\ e.near \subseteq Blocks
                            /\ e.timer \in BOOLEAN /\ e.faults \subseteq Faults
    /\ {MAX_SOURCES_TO_ADD, nMaxBlocksInTransit} \subseteq Nat \ {0}
    /\ {MAX_BLK_INFO, MAX_IN_FLIGHT_REQS} \subseteq Nat

VARIABLES
    toAdd,      \* mapBlkToAdd and mapTxnToAdd: the sources of every object
    info,       \* mapBlkInfo and mapTxnInfo
    deleter,    \* setBlockDeleter and setDeleter
    inFlight,   \* mapBlocksInFlight: pairs of a block and a peer
    state,      \* mapRequestManagerNodeState
    sending,    \* what SendRequests, which holds cs_objDownloader, has to visit:
                \* the blocks, then "txns", replaced by the transactions
    conn,       \* peers: up, leaving (fDisconnectRequest), closing, gone
    asking,     \* what the message handler of a peer is about to ask for
    waiting,    \* requests a peer has and has not answered
    work,       \* blocks in the hands of a thread that accepts them
    got,        \* the objects we have
    expired,    \* blocks whose relay timer has expired
    env         \* the scenario

vars == <<toAdd, info, deleter, inFlight, state, sending, conn, asking, waiting,
          work, got, expired, env>>
requests == <<toAdd, info, deleter, sending>>
flight == <<inFlight, state>>
peers == <<conn, asking, waiting, work, got, env>>

NoItem == [from |-> {}]
NewItem(S) == [from |-> S, prev |-> NoNode, due |-> TRUE,
               fProcessing |-> FALSE, rateLimited |-> FALSE]
NoAsk == [todo |-> {}]
NoState == [n |-> 0]
EmptyState == [list |-> <<>>, n |-> 0]

Init ==
    /\ toAdd = [o \in Objs |-> {}]
    /\ info = [o \in Objs |-> NoItem]
    /\ deleter = {} /\ inFlight = {} /\ sending = {}
    /\ state = [n \in Nodes |-> EmptyState]
    /\ conn = [n \in Nodes |-> "up"]
    /\ asking = [n \in Nodes |-> NoAsk]
    /\ waiting = {} /\ work = {} /\ got = {} /\ expired = {}
    /\ env \in Scenarios

Unlocked == sending = {}
Known(o) == info[o] # NoItem
InList(n, o) == \E i \in DOMAIN state[n].list : state[n].list[i] = o
Without(s, o) == SelectSeq(s, LAMBDA x : x # o)

\* A reference to a peer: as a source, as the peer asked last, or in a thread.
Referenced(n) ==
    \/ \E o \in Objs : n \in toAdd[o] \/ (Known(o) /\ (n \in info[o].from \/ n = info[o].prev))
    \/ \E m \in Nodes : n \in asking[m].todo
    \/ \E w \in work : w.node = n

-----------------------------------------------------------------------------
(***************************************************************************)
(* Asking.                                                                 *)
(***************************************************************************)
\* A peer announces an object by an inv or a header.  The handler looks
\* whether we have it, and asks for it a little later.
Announce(n) ==
    \E o \in Objs :
        /\ <<n, o>> \in env.announce
        /\ conn[n] \in {"up", "leaving"}
        /\ asking[n] = NoAsk
        /\ env' = [env EXCEPT !.announce = @ \ {<<n, o>>}]
        /\ asking' = IF o \in got THEN asking
                     ELSE [asking EXCEPT ![n] = [obj |-> o, todo |-> {n}, sync |-> FALSE]]
        /\ UNCHANGED <<requests, flight, conn, waiting, work, got, expired>>

\* While the chain is being synced every peer is asked, again and again, for
\* the blocks that are missing: for one that is not in flight with other peers
\* that have it as further sources, for one in flight elsewhere as one more
\* source.  One thread at a time does this (cs_requestNextBlocks).
RequestNextBlocksToDownload(n) ==
    \E o \in env.missing \ got :
        LET flying == \E m \in Nodes : <<o, m>> \in inFlight
            connected == {m \in Nodes : conn[m] # "gone"}
        IN
        /\ \A m \in Nodes : asking[m] # NoAsk => ~asking[m].sync
        /\ conn[n] = "up"
        /\ asking[n] = NoAsk
        /\ state[n].n < nMaxBlocksInTransit
        /\ IF flying THEN Known(o) /\ <<o, n>> \notin inFlight ELSE TRUE
        /\ \E U \in (IF flying THEN {{}} ELSE SUBSET connected) :
              asking' = [asking EXCEPT ![n] = [obj |-> o, todo |-> {n} \union U, sync |-> TRUE]]
        /\ UNCHANGED <<requests, flight, conn, waiting, work, got, env, expired>>

\* Of too many sources for a transaction the last of the list is dropped.
AddSource(o, S) ==
    IF o \in Txns /\ Cardinality(S) > MAX_SOURCES_TO_ADD
    THEN {U \in SUBSET S : Cardinality(U) = MAX_SOURCES_TO_ADD}
    ELSE {S}

Full(o) ==
    \/ o \in AllBlocks /\ Cardinality({b \in AllBlocks : Known(b)}) > MAX_BLK_INFO
    \/ o \in Txns /\ Cardinality({t \in Txns : Known(t)}) > MAX_IN_FLIGHT_REQS

\* One source is added, the peer that announced first.
AskFor(n) ==
    LET o == asking[n].obj IN
    /\ asking[n] # NoAsk
    /\ \E m \in asking[n].todo :
          /\ n \in asking[n].todo => m = n
          /\ \E S \in AddSource(o, toAdd[o] \union {m}) :
                toAdd' = IF Full(o) THEN toAdd ELSE [toAdd EXCEPT ![o] = S]
          /\ asking' = [asking EXCEPT ![n] = IF @.todo = {m} THEN NoAsk
                                             ELSE [@ EXCEPT !.todo = @ \ {m}]]
    /\ UNCHANGED <<info, deleter, sending, flight, conn, waiting, work, got,
                   env, expired>>

-----------------------------------------------------------------------------
(***************************************************************************)
(* The blocks in flight: mapBlocksInFlight, and for every peer the list    *)
(* vBlocksInFlight and the counter nBlocksInFlight.                        *)
(***************************************************************************)
MarkBlockAsInFlight(n, o) ==
    /\ inFlight' = inFlight \union {<<o, n>>}
    /\ state' = IF <<o, n>> \in inFlight THEN state
                ELSE [state EXCEPT ![n] = [list |-> Append(@.list, o), n |-> @.n + 1]]

\* Every peer's list and counter, without the blocks in O.
WithoutAll(O) ==
    [n \in Nodes |->
        IF state[n] = NoState \/ O = {} THEN state[n]
        ELSE LET s == SelectSeq(state[n].list, LAMBDA x : x \notin O)
             IN [list |-> s, n |-> Len(s)]]

\* Mutant: the lists of the peers are left as they are.
MarkBlockAsReceivedByAnother_MapOnly(O) ==
    /\ inFlight' = {f \in inFlight : f[1] \notin O}
    /\ UNCHANGED state

MarkBlockAsReceivedByAnother(O) ==
    /\ inFlight' = {f \in inFlight : f[1] \notin O}
    /\ state' = WithoutAll(O)

\* Mutant: the counter is decremented for a block that is not in flight.
MarkBlockAsReceived_Always(n, o) ==
    /\ inFlight' = inFlight \ {<<o, n>>}
    /\ state' = [state EXCEPT ![n] = [list |-> Without(@.list, o), n |-> @.n - 1]]

MarkBlockAsReceived(n, o) ==
    /\ inFlight' = inFlight \ {<<o, n>>}
    /\ state' = IF <<o, n>> \notin inFlight THEN state
                ELSE [state EXCEPT ![n] = [list |-> Without(@.list, o), n |-> @.n - 1]]

-----------------------------------------------------------------------------
(***************************************************************************)
(* SendRequests: a pass over the requests with cs_objDownloader held.      *)
(***************************************************************************)
\* Mutant: a request that exists does not get the new sources.
TakeOver_NoNewSources(O) ==
    /\ info' = [o \in Objs |->
          IF o \notin O THEN info[o]
          ELSE IF o \in deleter \/ ~(Known(o) \/ toAdd[o] # {}) THEN NoItem
          ELSE IF Known(o) THEN info[o] ELSE NewItem(toAdd[o])]
    /\ toAdd' = [o \in Objs |-> IF o \in O THEN {} ELSE toAdd[o]]
    /\ deleter' = deleter \ O

\* New requests are taken over: what has been received meanwhile is dropped,
\* from the new ones too; a request that exists gets the new sources.
TakeOver(O) ==
    /\ \E src \in [O -> SUBSET Nodes] :
          /\ \A o \in O : src[o] \in AddSource(o, info[o].from \union toAdd[o])
          /\ info' = [o \in Objs |->
                IF o \notin O THEN info[o]
                ELSE IF o \in deleter \/ ~(Known(o) \/ toAdd[o] # {}) THEN NoItem
                ELSE IF Known(o) THEN [info[o] EXCEPT !.from = src[o]] ELSE NewItem(src[o])]
    /\ toAdd' = [o \in Objs |-> IF o \in O THEN {} ELSE toAdd[o]]
    /\ deleter' = deleter \ O

\* A pass begins with the blocks, if there is anything to do.
SendRequests ==
    /\ Unlocked
    /\ \E o \in Objs : Known(o) \/ toAdd[o] # {} \/ o \in deleter
    /\ TakeOver(AllBlocks)
    /\ MarkBlockAsReceivedByAnother(deleter \intersect AllBlocks)
    /\ sending' = {o \in AllBlocks : info'[o] # NoItem} \union {"txns"}
    /\ UNCHANGED <<peers, expired>>

SendTxnRequests ==
    /\ sending = {"txns"}
    /\ TakeOver(Txns)
    /\ sending' = {o \in Txns : info'[o] # NoItem}
    /\ UNCHANGED <<flight, peers, expired>>

\* An object is asked for when it never was, or when the time for an answer
\* or for the download of a block that has begun has passed.
Due(o) ==
    /\ info[o].due
    /\ ~info[o].fProcessing
    /\ o \in Txns => ~info[o].rateLimited

Visit(o) ==
    /\ o \in sending
    /\ sending' = sending \ {o}

SkipItem(o) ==
    /\ Visit(o) /\ ~Due(o)
    /\ UNCHANGED <<toAdd, info, deleter, flight, peers, expired>>

\* There are no sources: the request is given up.
NoSources(o) ==
    /\ Visit(o) /\ Due(o)
    /\ info[o].from = {}
    /\ deleter' = deleter \union {o}
    /\ UNCHANGED <<toAdd, info, flight, peers, expired>>

\* The message reaches the peer unless its connection is closing.
PushMessage(n, o) ==
    waiting' = IF conn[n] = "closing" THEN waiting ELSE waiting \union {<<n, o>>}

\* The first source is asked, also when it is disconnecting: the loop over
\* the sources ends with the node that it means to skip.
RequestFrom(o, n) ==
    /\ Visit(o) /\ Due(o)
    /\ n \in info[o].from
    /\ info' = [info EXCEPT ![o] = [@ EXCEPT !.from = @ \ {n}, !.prev = n, !.due = FALSE]]
    /\ PushMessage(n, o)
    /\ IF o \in Txns THEN UNCHANGED <<flight, expired>>
       ELSE MarkBlockAsInFlight(n, o) /\ expired' = expired \ {o}
    /\ UNCHANGED <<toAdd, deleter, conn, asking, work, got, env>>

\* RequestBlock asks for nothing: the peer has no thin type block, and the
\* relay timer still runs.  The source goes back to its list.
RequestBlockFails(o, n) ==
    /\ Visit(o) /\ Due(o)
    /\ o \in AllBlocks
    /\ n \in info[o].from
    /\ env.timer /\ env.missing = {} /\ o \notin expired
    /\ info' = [info EXCEPT ![o].prev = n]
    /\ UNCHANGED <<toAdd, deleter, flight, peers, expired>>

BlockRelayTimerExpires(o) ==
    /\ env.timer /\ env.missing = {}
    /\ Known(o) /\ o \in AllBlocks \ expired
    /\ expired' = expired \union {o}
    /\ UNCHANGED <<requests, flight, peers>>

\* The retry interval, or the look-ahead interval of a download, passes; the
\* good peers answer before that.
Timeout(o) ==
    /\ Known(o) /\ ~info[o].due
    /\ \A n \in Good : <<n, o>> \notin waiting
    /\ info' = [info EXCEPT ![o].due = TRUE]
    /\ UNCHANGED <<toAdd, deleter, sending, flight, peers, expired>>

-----------------------------------------------------------------------------
(***************************************************************************)
(* Answers.                                                                *)
(***************************************************************************)
Answered(n, o) ==
    /\ <<n, o>> \in waiting
    /\ waiting' = waiting \ {<<n, o>>}

\* A transaction is put down for deletion at once.
ReceiveTx(n, o) ==
    /\ o \in Txns
    /\ Answered(n, o)
    /\ got' = got \union {o}
    /\ deleter' = deleter \union {o}
    /\ UNCHANGED <<toAdd, info, sending, flight, conn, asking, work, env, expired>>

\* A block has arrived: it is marked as being processed and goes to a thread
\* that accepts it.  A summary block that fails the checks made before
\* AcceptBlock goes no further.
ProcessingBlock(n, o) ==
    /\ o \in AllBlocks
    /\ Answered(n, o)
    /\ info' = IF Known(o) THEN [info EXCEPT ![o].fProcessing = TRUE] ELSE info
    /\ work' = IF <<n, o>> \in Damaged /\ o \in Blocks THEN work
               ELSE work \union {[node |-> n, obj |-> o, pc |-> "accept"]}
    /\ UNCHANGED <<toAdd, deleter, sending, flight, conn, asking, got, env, expired>>

\* A thin type block we have already: the request is removed.
AlreadyReceived(n, o) ==
    /\ o \in AllBlocks \intersect got
    /\ Answered(n, o)
    /\ IF Known(o) THEN MarkBlockAsReceived(n, o) /\ deleter' = deleter \union {o}
       ELSE UNCHANGED <<flight, deleter>>
    /\ UNCHANGED <<toAdd, info, sending, conn, asking, work, got, env, expired>>

\* ProcessAcceptBlock holds cs_main to its end.  The block is stored if we
\* asked for it or if it has enough work; a copy that is refused may be asked
\* for again.
ProcessAcceptBlock(w) ==
    LET o == w.obj
        fRequested == Known(o)
        bad == <<w.node, o>> \in Damaged
    IN
    /\ w.pc = "accept"
    /\ \A v \in work : v.pc = "accept"
    /\ MarkBlockAsReceived(w.node, o)
    /\ got' = IF ~bad /\ (fRequested \/ <<o, w.node>> \in inFlight \/ o \in env.near \union Subblocks)
              THEN got \union {o} ELSE got
    /\ work' = (work \ {w}) \union {[w EXCEPT !.pc = IF bad THEN "rejected" ELSE "accepted"]}
    /\ UNCHANGED <<requests, conn, asking, waiting, env, expired>>

\* Mutant: the block stays marked as being processed.
BlockRejected_StillProcessing(w) ==
    /\ w.pc = "rejected"
    /\ work' = work \ {w}
    /\ UNCHANGED <<requests, flight, conn, asking, waiting, got, env, expired>>

BlockRejected(w) ==
    /\ w.pc = "rejected"
    /\ info' = IF Known(w.obj) THEN [info EXCEPT ![w.obj].fProcessing = FALSE] ELSE info
    /\ work' = work \ {w}
    /\ UNCHANGED <<toAdd, deleter, sending, flight, conn, asking, waiting, got, env,
                   expired>>

\* Accepted: the request is put down for deletion, cs_objDownloader not being
\* held, and then the block leaves the lists of all peers.
Accepted(w) ==
    \/ /\ w.pc = "accepted"
       /\ deleter' = deleter \union {w.obj}
       /\ work' = (work \ {w}) \union {[w EXCEPT !.pc = "deleted"]}
       /\ UNCHANGED <<toAdd, info, sending, flight, conn, asking, waiting, got, env,
                      expired>>
    \/ /\ w.pc = "deleted"
       /\ MarkBlockAsReceivedByAnother({w.obj})
       /\ work' = work \ {w}
       /\ UNCHANGED <<requests, conn, asking, waiting, got, env, expired>>

\* The peer does not have the object, or rejects it: for lack of a fee a
\* transaction is not asked for again.
Rejected(n, o) ==
    /\ Answered(n, o)
    /\ IF Known(o) /\ o \in AllBlocks
       THEN /\ inFlight' = inFlight \ {<<o, n>>}
            /\ state' = LET s == Without(state[n].list, o)
                        IN [state EXCEPT ![n] = [list |-> s, n |-> Len(s)]]
       ELSE UNCHANGED flight
    /\ \/ UNCHANGED info
       \/ Known(o) /\ o \in Txns /\ info' = [info EXCEPT ![o].rateLimited = TRUE]
    /\ UNCHANGED <<toAdd, deleter, sending, conn, asking, work, got, env, expired>>

\* A peer loses the request.
Lose(n, o) ==
    /\ Answered(n, o)
    /\ UNCHANGED <<requests, flight, conn, asking, work, got, env, expired>>

-----------------------------------------------------------------------------
(***************************************************************************)
(* Peers come and go.                                                      *)
(***************************************************************************)
Disconnect(n) ==
    /\ conn[n] \in {"up", "leaving"}
    /\ conn' = [conn EXCEPT ![n] = "closing"]
    /\ UNCHANGED <<requests, flight, asking, waiting, work, got, env, expired>>

\* A graceful disconnect waits until no block is in flight.
InitiateGracefulDisconnect(n) ==
    /\ conn[n] = "up"
    /\ conn' = [conn EXCEPT ![n] = "leaving"]
    /\ UNCHANGED <<requests, flight, asking, waiting, work, got, env, expired>>

GracefulDisconnect(n) ==
    /\ conn[n] = "leaving"
    /\ state[n].n = 0
    /\ conn' = [conn EXCEPT ![n] = "closing"]
    /\ UNCHANGED <<requests, flight, asking, waiting, work, got, env, expired>>

\* The oldest block in flight took too long: the peer is disconnected, for a
\* subblock it is only forgotten, and the counter is left as it is.
DisconnectOnDownloadTimeout(n) ==
    /\ conn[n] = "up"
    /\ state[n].list # <<>>
    /\ IF Head(state[n].list) \in Blocks
       THEN conn' = [conn EXCEPT ![n] = "closing"] /\ UNCHANGED flight
       ELSE /\ inFlight' = inFlight \ {<<Head(state[n].list), n>>}
            /\ state' = [state EXCEPT ![n].list = Tail(@)]
            /\ UNCHANGED conn
    /\ UNCHANGED <<requests, asking, waiting, work, got, env, expired>>

\* Mutant: the node is deleted while it is a source of a request.
RemoveNodeState_Referenced(n) ==
    /\ conn[n] = "closing"
    /\ conn' = [conn EXCEPT ![n] = "gone"]
    /\ inFlight' = {f \in inFlight : f[2] # n}
    /\ state' = [state EXCEPT ![n] = NoState]
    /\ waiting' = {r \in waiting : r[1] # n}
    /\ UNCHANGED <<requests, asking, work, got, env, expired>>

\* The last reference is gone and the node is deleted (~CNode, FinalizeNode,
\* RemoveNodeState): what is in flight with it may be asked for at once.
RemoveNodeState(n) ==
    /\ conn[n] = "closing" /\ ~Referenced(n)
    /\ conn' = [conn EXCEPT ![n] = "gone"]
    /\ inFlight' = {f \in inFlight : f[2] # n \/ ~InList(n, f[1])}
    /\ info' = [o \in Objs |->
          IF Known(o) /\ InList(n, o)
          THEN [info[o] EXCEPT !.due = TRUE] ELSE info[o]]
    /\ state' = [state EXCEPT ![n] = NoState]
    /\ waiting' = {r \in waiting : r[1] # n}
    /\ UNCHANGED <<toAdd, deleter, sending, asking, work, got, env, expired>>

-----------------------------------------------------------------------------
Answer(n, o) == ReceiveTx(n, o) \/ ProcessingBlock(n, o) \/ AlreadyReceived(n, o)

\* What a peer that is not one of the good ones may do, in this scenario.
Fault(n) ==
    \/ "lose" \in env.faults /\ \E o \in Objs : Lose(n, o)
    \/ "reject" \in env.faults /\ \E o \in Objs : Rejected(n, o)
    \/ "close" \in env.faults /\ Disconnect(n)
    \/ "leave" \in env.faults /\ InitiateGracefulDisconnect(n)
    \/ "stall" \in env.faults /\ DisconnectOnDownloadTimeout(n)

Pass ==
    \/ SendRequests \/ SendTxnRequests
    \/ \E o \in Objs : SkipItem(o) \/ NoSources(o)
                       \/ \E n \in Nodes : RequestFrom(o, n) \/ RequestBlockFails(o, n)

\* What goes on during a pass (AskFor, cleanup, a connection that closes)
\* touches nothing the pass still reads, and everything else waits for
\* cs_objDownloader: so nothing else happens during a pass.
Next ==
    \/ Pass
    \/ \E n \in Nodes : Unlocked /\ Announce(n)
    \/ \E n \in Nodes : Unlocked /\ RequestNextBlocksToDownload(n)
    \/ \E n \in Nodes : Unlocked /\ AskFor(n)
    \/ \E n \in Nodes, o \in Objs : Unlocked /\ Answer(n, o)
    \/ \E n \in Nodes : Unlocked /\ (GracefulDisconnect(n) \/ RemoveNodeState(n))
    \/ \E n \in Nodes \ Good : Unlocked /\ Fault(n)
    \/ \E o \in Objs : Unlocked /\ (Timeout(o) \/ BlockRelayTimerExpires(o))
    \/ \E w \in work : Unlocked /\ (ProcessAcceptBlock(w) \/ BlockRejected(w) \/ Accepted(w))

\* Peer n is added as a source by one of the handlers.
Adds(n) == \E m \in Nodes : n \in asking[m].todo /\ AskFor(m) /\ n \notin asking'[m].todo

\* The message handlers call SendRequests and SendMessages again and again,
\* they and the validation threads go on with what they do, time passes, and
\* the good peers answer.  A good peer is not always added as a source at the
\* one moment when it is of no use: between the pass that gives a request up
\* and the next, which drops the new source with the request.  A good source
\* is not passed over for ever: every request that was not answered in time
\* makes the peer that was asked less desirable (nReRequests).
Fairness ==
    /\ WF_vars(Pass)
    /\ \A o \in Objs :
          /\ WF_vars(Timeout(o)) /\ WF_vars(BlockRelayTimerExpires(o))
          /\ \A n \in Good : WF_vars(Answer(n, o)) /\ SF_vars(RequestFrom(o, n))
    /\ \A n \in Nodes : WF_vars(AskFor(n))
    /\ \A n \in Good :
          /\ SF_vars(deleter = {} /\ RequestNextBlocksToDownload(n))
          /\ SF_vars(deleter = {} /\ Adds(n))
          /\ WF_vars(Announce(n))
    /\ WF_vars(\E w \in work : ProcessAcceptBlock(w) \/ BlockRejected(w) \/ Accepted(w))

Spec == Init /\ [][Next]_vars /\ Fairness

-----------------------------------------------------------------------------
Items == [from : SUBSET Nodes, prev : Nodes \union {NoNode}, due : BOOLEAN,
          fProcessing : BOOLEAN, rateLimited : BOOLEAN]

\* The variables have their types, and a peer has its state as long as it is
\* referenced or connected (the assertions of MarkBlockAsInFlight and
\* MarkBlockAsReceived).
TypeOK ==
    /\ toAdd \in [Objs -> SUBSET Nodes]
    /\ \A o \in Objs : Known(o) => info[o] \in Items
    /\ deleter \subseteq Objs /\ got \subseteq Objs /\ expired \subseteq AllBlocks
    /\ sending \subseteq Objs \union {"txns"}
    /\ inFlight \subseteq AllBlocks \X Nodes
    /\ \A n \in Nodes :
          /\ conn[n] \in {"up", "leaving", "closing", "gone"}
          /\ (conn[n] = "gone") = (state[n] = NoState)
          /\ Referenced(n) => conn[n] # "gone"
    /\ waiting \subseteq Nodes \X Objs
    /\ work \subseteq [node : Nodes, obj : AllBlocks, pc : {"accept", "accepted", "rejected", "deleted"}]

\* The map of the blocks in flight, whose values are iterators into the lists
\* of the peers, and the lists say the same, and no list has a block twice:
\* an iterator that outlived its element would be erased a second time.
InFlightIsMirrored ==
    \A n \in Nodes :
        LET list == IF state[n] = NoState THEN <<>> ELSE state[n].list IN
        /\ \A o \in AllBlocks :
              <<o, n>> \in inFlight <=> \E i \in DOMAIN list : list[i] = o
        /\ \A i, j \in DOMAIN list : list[i] = list[j] => i = j

\* nBlocksInFlight never falls below the number of blocks in flight, so it is
\* never decremented at zero and a graceful disconnect cuts off no download.
CountCoversFlight ==
    \A n \in Nodes : state[n] # NoState => state[n].n >= Len(state[n].list)

\* While the chain is being synced the next block is received, whatever the
\* peers that are not good do, if one good peer is there.
BlocksArrive == <>(env.missing \intersect env.near \subseteq got)

\* Every request comes to an end, by an answer or for lack of sources; only a
\* transaction a peer has rejected for its fee may be kept.
RequestsEnd == []<>(\A o \in Objs : Known(o) => info[o].rateLimited)
=============================================================================
