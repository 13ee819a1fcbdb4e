# A TLA+ model of the Nexa full node: transactions, coins, blocks and the locks between them

Nexa is a multithreaded full node.  Its correctness rests on a few shared
structures that many threads change at once: the transaction pool with its
admission queues, the orphan pool, the set of unspent outputs in its layers of
caches, the table of the threads that validate blocks, the queues that check
scripts for them, the record of what is requested from which peer, and the one
lock that keeps the phases of transaction processing apart.  This directory
models those structures from the C++ code in `src/src/` and checks them with TLC
on small instances.  TLAPS proves, for every size of the instance, the safety of
the lock, of transaction admission, of the orphan pool, of the coins caches, of
the script check queue and of parallel block validation.

## 1. The system

### Parts and how they interact

| Part | Source | State | Operations that change it |
|---|---|---|---|
| Thread corral | `sync.h` (`CThreadCorral`) | `curRegion`, `curCount`, `maxRequestedRegion` | `Enter`, `Exit` |
| Admission queues | `txadmission.cpp`, `fastfilter.h` | `txInQ`, `txOrphanQ`, `txDeferQ`, `incomingConflicts`, `txCommitQ` | enqueue, admission threads, commit thread, `AcceptToMemoryPool`, `FlushTxAdmission` |
| Transaction pool | `txmempool.cpp` | `mapTx` and its indexes | commit, `removeForBlock`, `LimitMempoolSize`, resubmission |
| Orphan pool | `txorphanpool.cpp` | `mapOrphans`, `mapOrphansByPrev`, `mapNonFinals`, `nPoolBytes` | add, erase, limit, expire, remove for a block, clear |
| Coins views | `coins.cpp` | cache entries with DIRTY and FRESH flags | fetch, access, add, spend, batch write, trim, uncache, flush |
| Chainstate database | `txdb.cpp` | coins, `DB_BEST_BLOCK` | `BatchWrite` |
| Tip update | `validation/validation.cpp` | active chain | `ConnectTip`, `DisconnectTip`, `ResubmitTransactions` |
| Script check queue | `checkqueue.h` | `queue`, `nTodo`, `nIdle`, `nTotal`, `fAllOk`, `fQuit` | `Add`, `Loop`, `Wait`, `Quit`, `Shutdown` |
| Parallel validation | `validation/parallel.cpp`, `validation/validation.cpp` | `mapBlockValidationThreads`, `semThreadCount`, block flags, coins and tip | `HandleBlockMessage`, `ActivateBestChain`, `ConnectBlock`, `ConnectTip`, `Quit`, `Erase` |
| Request manager | `requestManager.cpp` | requests with their sources, `mapBlocksInFlight`, the list and the counter of each peer | `AskFor`, `SendRequests`, `ProcessingBlock`, `Accepted`, `Rejected`, `BlockRejected`, timeouts, `RemoveNodeState` |

Transactions come from the network, the wallet and RPC calls.  Admission
threads validate them in parallel inside region 1 of the corral
(`CORRAL_TX_PROCESSING`) and put them into the commit queue.  The commit thread
moves that queue into the pool inside region 2 (`CORRAL_TX_COMMITMENT`) and
then searches the orphan pool for children.  A thread that connects or
disconnects a block, and an RPC call that submits a transaction, enter region 3
(`CORRAL_TX_PAUSE`), which stops the other two.  Validation reads coins through
`pcoinsTip`; a block is applied in a view of its own over `pcoinsTip` and is
flushed into it while admission is paused; `pcoinsTip` is written to the
database from time to time.

A block is requested from one of the peers that announced it.  When it arrives,
`HandleBlockMessage` gives it a thread, which enters the table of validation
threads, takes a script check queue, gives up `cs_main` while inputs and scripts
are checked, and takes it again to update the coins and the tip.  Whoever does
that first tells the threads that work on a sibling to quit, and their queues
drop what is left of their scripts.

The Tailstorm forest, the codecs of block relay and the other parts of the node
are listed in `PROJECT.json` (`components`), with the reason for each one that
has no module.

### What is hard about it

- One condition variable serves threads of three regions with priorities.
- Threads validate against the pool only, not against one another.  The fast
  filter keeps conflicting transactions out of one round, has false positives,
  and has to give every deferred transaction a turn.
- The parent of an orphan may be committed while the orphan is being stored.
- A block or a reorganisation arrives between validation and commitment.
- Eviction and the post-block work run outside of the corral.
- `FetchCoin` reads the base with no lock held.
- A process may die between two writes of one flush.
- A quit may reach a validation thread before it has a queue, while its scripts
  run, or after they are done, and it makes the verdict of the queue worthless.
- Coins are flushed before the tip is updated, and other threads read both
  without `cs_main`.
- What is in flight is kept in a map of blocks and in a list of each peer, which
  five handlers update; answers come late, twice, damaged or not at all.

`PROJECT.json` (`hazards`) lists these and others at the line where each bites,
with the properties that cover them.

## 2. The modules

| Module | Models | Notes |
|---|---|---|
| `Corral` | what the comment above `CThreadCorral` promises | abstract: a region is entered in a step in which no other region is occupied |
| `ThreadCorral` | `CThreadCorral` | one pass of `Enter`'s loop is one step; `cond.wait` ends it; spurious wake-ups; nested entry of the highest region |
| `ThreadCorralProofs` | | the proofs about `ThreadCorral` |
| `TxQueues` | the three queues and the filter | pure operators: the filter test in the order of `vin`, the requeueing at the end of a commit |
| `TxAdmission` | admission, commit, orphan processing, `ConnectTip`, `DisconnectTip`, eviction, RPC calls | extends `Corral` and `TxQueues`: the corral appears through its promise |
| `TxAdmissionInv`, `TxAdmissionPool`, `TxAdmissionProofs` | | the invariant of the threads, the queues and the rounds; the one of the chain, the pool and the orphans; that nothing is lost, and the theorems |
| `OrphanPool` | `CTxOrphanPool` | byte count, index and the two loops of `LimitPoolSize`, turn by turn |
| `UtxoSet` | what the coins views promise together | abstract: one set of unspent outputs that a block replaces as a whole, and a saved copy; a crash inside a flush may leave the copy mixed, a late reader may bring a spent output back, and nothing but the next restart is promised from there |
| `CoinsCache` | `CCoinsViewDB`, `pcoinsTip`, the view of a block | a cache is the sets of its entries and of those that are unspent, DIRTY and FRESH; `chain`, `block` and `sound` are history: the coins of the chain, those of the block being applied, and whether the views can be relied on |
| `CoinsCacheProofs` | | the proofs about `CoinsCache` |
| `OrphanPoolProofs` | | the proofs about its index, its byte count and its limit |
| `CheckRound` | what a script check queue promises | abstract: a round is opened, gets checks and is closed with a verdict, which is exact unless the round was quit |
| `CheckQueue` | `CCheckQueue`, `CCheckQueueControl` | each pass through the locked part of `Loop` is one step |
| `CheckQueueProofs` | | the proofs about `CheckQueue` |
| `ParallelValidation` | `CParallelValidation`, `ActivateBestChain`, `ConnectTip`, `ConnectBlock`, `DisconnectTip` as several threads run them | a script check queue appears through its promise (`CheckRound`); `lookalike` is history |
| `ParallelValidationProofs` | | the proofs about `ParallelValidation` |
| `RequestManager` | `CRequestManager`, with the peers as its environment | a pass of `SendRequests` visits the requests one by one |
| `MC*` | | instances for TLC |

`PROJECT.json` (`map`) names the source lines behind each definition.

**Granularity.**  A step is what the code does between taking and releasing a
lock.  So `_CommitTxToMempool` is two steps (`cs_txmempool`, then `csTxInQ`),
`ProcessOrphans` is three (read lock, write lock, then one enqueue at a time),
`FetchCoin` is two (the base is read in between without a lock), and each
operation of the orphan pool is one.  A validation thread has a step for each
stretch under `cs_blockvalidationthread`, and `ConnectTip` and `DisconnectTip`
are divided between the flush of the coins and the update of the tip.
`SendRequests` holds `cs_objDownloader` for a whole pass; what other threads may
do meanwhile (`AskFor`, `Accepted` up to its wait for that lock, a connection
that closes) touches nothing the rest of the pass reads, so it commutes with the
pass and nothing else is interleaved.

**Data.**  A transaction is a model value with the outputs it spends, in order,
and those it reads; it has one output, which carries its name.  What
`ParallelAcceptToMemoryPool` finds out about one transaction alone (format,
scripts, fees) is membership of the constant set `Bad`.  Filter positions of
an output are a small set of numbers, chosen so that two outputs collide.
The chain is one of ordinary blocks; Tailstorm is not active.
An outpoint is unspent or not: its amount and script never change.
In `ParallelValidation` a block is a node of a tree with its work, size and
`nBits`, and the coins are the set of the blocks whose changes they hold.  The
order of `nSequenceId` among blocks of equal work is left open.  A block is sent
once, and registered threads validate in parallel.  (With parallel validation
disabled a registered thread ignores `fQuit`, while `Quit` still drops the rest
of its checks; that configuration is not part of the model.)
In `RequestManager` time is abstract: a request may become due again whenever no
good peer still owes its answer, and `Downloading`, which only puts that moment
off, is part of `Timeout`.  The order of the sources is left open.

**Scenarios.**  What the environment does is chosen in the initial state: the
variable `env` of `TxAdmission` and `RequestManager`, and `Feeds` of
`ParallelValidation`.  So one run covers several environments without their
product.  In `TxAdmission` a scenario says how often a transaction arrives, how
many blocks, disconnections and calls there are and of what kind, and whether the
pool is at its limit (`overflows`), RPC calls store orphans (`alloworphans`) or
the chain may be rolled back by hand (`rollbacks`).

## 3. The runs

### Runs that pass

| Run | Instance | Shows |
|---|---|---|
| `corral` | five threads, three regions, nesting of two | regions exclude one another, a recorded request has a waiter, no wake-up is lost, nested entry never blocks, the promise in `Corral` is kept, the sole user of the highest region is not starved |
| `rounds` | two admission threads, the commit thread, four transactions, one of which arrives twice | no double spend, rounds without conflict, no orphan forgotten, the queues drain |
| `pool` | one admission thread and the commit thread beside two blocks; beside two blocks and a disconnection, by reorganisation or by hand; beside a call of `sendrawtransaction` that overlaps a block; or beside two RPC threads with the pool at its limit | no double spend, the pool agrees with the coins, the pause is complete, orphans and non-final transactions are released, nothing is lost |
| `orphans` | five transactions, two limits, expiry | byte count and index exact, limits hold, `LimitPoolSize` returns when at most one transaction is time locked |
| `coins` | two outpoints, two readers inside the corral and one outside of it, crashes anywhere and replay after them | while `sound`: flags are true, every layer shows the coins of its block, no FRESH misapplied, the views are one set of unspent outputs; and only an overtaken fetch from outside of the corral or a half written database ends it |
| `checks` | two workers and a master, up to four checks of which one fails, a quit at any moment | `nTodo` is exact, no check outlives `Wait`, the promise in `CheckRound` is kept, `Wait` returns |
| `parallel` | three block threads with two grants and three queues, a mining thread, branches that overtake each other, two tips of equal work and an invalid block, in six ways to spread them | no queue is shared, a quit reaches the scripts, only checked blocks change the coins, the coins are those of the tip until a thread meets another tip of the work it began with, every thread ends and gives back what it took |
| `requests` | a peer that answers and one that loses, rejects, stalls, leaves or disconnects; a block, a subblock, two transactions; six scenarios | the two records of what is in flight agree, the counter covers the list, a referenced peer has its state, the next block arrives, every request ends |

### Runs that find a disagreement

Each checks one property that a comment in the code states, and TLC shows
a behaviour of the code that contradicts it.  `PROJECT.json` (`findings`)
quotes the line.

| Run | Source | What happens |
|---|---|---|
| `orphan_limit` | `txorphanpool.cpp:211` | the loop over `mapNonFinals` erases from `mapOrphans` and never ends |
| `coins_free` | `coins.cpp:104` | over a database that is that of its best block, a fetch outside of the corral clears the DIRTY flag of a coin that a block has just spent |
| `race_verdict` | `validation/validation.cpp:3355` | a thread finds its inputs spent between another thread's flush of the coins and its update of the tip, and marks a valid block invalid |
| `stuck_request` | `validation/validation.cpp:4739` | a copy of a block that fails `CheckBlock` is dropped without `BlockRejected`, and the block is not requested again |

### Behaviours the passing runs leave out

In these cases a property above, or a comment, does **not** hold of the code
without a condition.  The condition is part of the property, or the passing
instances exclude the case, as said with each.  TLC gave a counterexample to the
unconditional form of each, which is not among the runs kept here.

- `sync.h:645`: whoever starts a region clears `maxRequestedRegion`.  A thread
  waits for region 2, another takes region 2 first, clears the request and
  leaves; then a thread may enter region 1 while the first one still waits,
  although `sync.h:605` says "threads are blocked from entering region 1".
  `TopRegionEnters` is about the highest region, which this cannot starve.
- `txadmission.cpp:650`: the validation state and `fMissingInputs` are shared by the
  transactions of a round, so one that is not invalid may be answered with a
  REJECT.  `RejectsAreDeserved` states the comment at line 791 and fails.
- `txadmission.cpp:334`: `LimitMempoolSize` may evict a parent between the
  validation of its child and the commit; the child is then in the pool without
  an input.  `PoolIsConsistent` is therefore conditional on `~env.overflows`.
- `txadmission.cpp:841`: threads of region 3 do not exclude one another.
  `AcceptToMemoryPool` beside `ConnectTip` may check its inputs before the
  block's coins are flushed and insert after the block's conflicts were removed.
  `PoolIsConsistent` is therefore conditional on `Apart`, and `PausedMeansFlushed`
  leaves out what such a call is about to commit.  The other properties hold in
  the scenario that has both.
- `txadmission.cpp:446`: `DisconnectTip` leaves the block in the list of
  post-block work.  `RemoveForBlock` then erases its resubmitted transactions
  that wait in the orphan pool.  `MayForget`, in `NothingIsLost`, exempts exactly
  that.
- `txadmission.cpp:158`: `FlushTxAdmission` decides from `empty` as it was before
  the commit, which may have moved a transaction to `txInQ`, and returns.
- `rpc/rawtransaction.cpp:1445`: an orphan that `alloworphans` stores after the
  batch of its parent was searched is not looked for again, and neither is one
  whose input a disconnection sets free.  `NoStrandedOrphan` leaves both out.
- `txdb.cpp:190`: the best block and the coins are written by different writes.  A
  crash in between leaves a database that names a block whose coins it does not
  hold (`coins.h:175` speaks of one block whose state the view represents), and the
  next start applies blocks to it.  The run `coins` has the crash and the replay.
  The crash makes `sound` false, and the properties of the views are conditional
  on `sound`: it is true again after a start on a database that holds the coins of
  its best block.
- `coins.cpp:90`: a fetch from outside of the corral that is overtaken by a block
  brings a spent coin back (`coins_free` shows the flags).  The run `coins` has such
  a reader.  `sound` is false from the moment its fetch ends with a coin the chain no
  longer has.
- `validation/parallel.cpp:420`: a thread compares the work of the tip it saw with
  the work of the present one.  When one tip replaces another of equal work, as in
  a reorganisation by one block, it takes them for the same and applies its block to
  other coins, although `validation.cpp:4325` says such threads "will automatically
  fail validation during ConnectBlock() once the chaintip has changed".  The
  instance of `parallel` has this case (`a1` and `d1`): without its condition
  `CoinsMatchTip` fails there.  The condition is `~lookalike`: no thread in
  `ConnectBlock` has had a tip before it that has the work it began with and is not
  the parent of its block.
- `validation/parallel.cpp:385`: a thread that is quit in favour of a block which
  then proves invalid leaves its own block until the next one arrives.
  `ThreadsEnd` says that threads end, not that the best block is the tip.
- `requestManager.cpp:1976`: a subblock that timed out leaves the list of the peer
  but stays counted in `nBlocksInFlight`, so a graceful disconnect may wait for
  ever.  `CountCoversFlight` is the other direction.
- `requestManager.cpp:946`: the loop that means to skip disconnecting peers ends
  with the peer it skips, which is then asked.  The model asks it too, and
  requests end nevertheless.
- `requestManager.cpp:810`: a source announced between the pass that gives a
  request up and the next one is dropped together with the request.  A
  transaction rejected for its fee (`rateLimited`) is kept for good; `RequestsEnd`
  exempts it.
- `Accepted` is also called for a block that arrived unrequested and that
  `AcceptBlock` did not store; it then deletes a request for it.

### Bounds

- Four transactions are enough for a parent and child, a conflict, a collision
  in the filter and a time lock.  With `MaxMove = 2` and `MaxTxPerRound = 2` a
  commit leaves deferred transactions behind and a worker ends its round with
  transactions queued.  A second arrival of the parent covers duplicates.
- Two admission threads make a round parallel; a third would repeat what the
  second does.  In the runs with blocks there is one, because the races there
  are between one validation and the block.  The two RPC threads are symmetric.
  The proofs do not depend on any of these numbers.
- Two blocks let a time lock run out and a child's parent be confirmed; with one
  disconnection they cover connect, disconnect and connect another.
- Operations on the coins views treat outpoints one by one.  Two, one of them
  unspent to begin with, let a view spend one coin while another is created;
  two readers in the corral and one outside of it make fetches of the same coin
  overlap.  The readers in the corral are symmetric.  The proofs do not depend on
  these numbers.
- `MaxItems = 2`, `MaxBytes = 3` and sizes of 1 and 3 let either limit bite
  alone; the clock runs to 3 so that entries expire, and do not, at a check.
- Two workers and a master let one thread drop the checks another still has the
  results of; four checks in batches of up to two take more than one pass.
- Three validation threads compete for two grants, so that one waits or quits the
  thread of a larger block.  The blocks are four siblings, three of them with a
  child: a race of siblings, a branch that overtakes another while its thread is
  validating, a reorganisation of depth two, and a tip that is replaced by one of
  the same work while its child is being checked all happen.
- In `RequestManager` each limit is 1.  With a block and a subblock, and with two
  transactions, an announcement meets a full map; the last two scenarios are there for
  that.  The faulty peer may
  do everything the scenario allows at any moment, again and again.
- Arrivals, calls, blocks and announcements are bounded by the scenario
  (`Scenarios`, `Feeds`).  When they are used up the system may be idle, so the
  runs of `TxAdmission`, `ParallelValidation` and `RequestManager` do not check
  deadlock, nor does `checks`, where the threads may have been shut down.  The
  corral, the orphan pool and the coins views are checked for it.

### Fairness

- `ThreadCorral`: a woken thread is scheduled in the end and no region is held
  for ever (weak fairness of `Resume` and `Exit`).  Nothing obliges a thread to
  enter, and the condition variable owes nobody a spurious wake-up.
- `TxAdmission`: weak fairness of each thread inside the corral, strong fairness
  of entering it, because a region is free again and again but not all the
  time.  The commit thread waits on a condition variable with a timeout of two
  seconds between its passes, which gives the others their turn.  Arrivals,
  blocks and calls are not fair.
- `OrphanPool`: a thread in `LimitPoolSize` goes on.
- `CheckQueue`: weak fairness of each thread.  The waits are timed (100 ms), so a
  waiting thread looks again.
- `ParallelValidation`: weak fairness of each thread.  A thread that waits for
  `cs_main`, a grant or a queue is enabled when it is free; arrivals are part of
  a thread's steps but each block comes once.
- `RequestManager`: weak fairness of the passes, of time, of the handlers, of the
  threads that accept blocks and of the answers of the good peers, which arrive
  before the retry interval has passed.  Strong fairness where an action is enabled
  again and again only: that a good source is asked (each unanswered request
  makes the peer that was asked less desirable by `nReRequests`), and that it is
  added at a moment when no deletion is pending.  Nothing obliges the other peers.

## 4. The proofs

### The corral (`ThreadCorralProofs`)

From `CorralAssumption` (finitely many threads, positive regions, only the
highest region is nested) and for any number of each:

- `RegionsExclude`: the threads inside are in one region, so that the assertion
  in `Exit` never fails;
- `WakeupsAreNotLost`: when the corral is empty and somebody waits, a thread
  that may enter has been woken;
- `RequestsAreReal`, `NestingNeverBlocks`;
- `CorralImplemented`: `ThreadCorral` implements `Corral`.

None of these is inductive alone.  `IInv` adds that `curCount` is the number of
live locks, that the recorded request is never for the region that ran last,
that with nobody inside the thread whose request is recorded has been woken,
and that with nobody inside and no request nobody sleeps.  The last two are
what `Exit`'s `notify_all` establishes and what an entry that clears the
request has to keep.  `curCount` reaching 0 exactly when the last thread leaves
needs a count of a finite set (`HeldFinite`, `CountZero`, `HeldGrows`,
`HeldShrinks`).

### The coins views (`CoinsCacheProofs`)

For any outpoints and any readers, inside the corral or not, and wherever the
process dies.  No assumption is made about the readers: `sound` records in the state
whether something has happened after which nothing can be promised, and the last
theorem of the list says what that can be.

- `CoinsInductive`: `CoinsInv` (types, and `Good` while `sound`) is kept by every
  step;
- `FlagsStayTrue`: while `sound`, DIRTY and FRESH mean what `coins.h` says, of
  `pcoinsTip` over the database and of a block's view over `pcoinsTip`;
- `CoinsStayOfTheChain`: while `sound`, the database holds the coins of its best block,
  `pcoinsTip` shows those of the chain, and the view of a block those of the block;
- `NoMisappliedFresh`: while `sound`, `BatchWrite` does not throw;
- `CoinsCacheImplementsUtxoSet`: the three layers are one set of unspent outputs;
  a flush that is cut short leaves of each output what was there or what was to be
  written, and an overtaken reader adds at most the coin it carries;
- `OnlyTwoThingsHarm`: only the end of a fetch from outside of the corral, or a start
  on a half written database, makes `sound` false.  A fetch inside the corral never
  does.

The argument is about one cache over one base: fetching and dropping clean
entries change neither the flags' truth nor what is seen, adding and spending
change what is seen by one coin, `BatchWrite` moves what the child showed into
the parent, and writing DIRTY entries makes the base what was seen.  These are
lemmas of their own, and each action is one of them applied at one level.
`Good` adds to the properties that a reader of the corral carries a coin that has not
been changed in the database or in `pcoinsTip` since it was read
(`FetchesAreCurrent`); `ViewFlush` keeps it because it waits for the corral to be
empty.  That `AddCoin` is never asked to overwrite an unspent coin is not assumed of
the views: `ViewAdd` is guarded by the coins of the block (`block`), because the
transactions of one chain have different ids, and while `sound` the view agrees with
`block`.

### The script check queue (`CheckQueueProofs`)

From `CheckQueueAssumption`, for any finite number of workers and checks and any
batch size:

- `TodoStaysExact`: `nTodo` counts the checks that are queued or in a batch, and no
  check is in two places;
- `NoCheckOutlivesWait`: when `Wait` has returned nobody runs a check of its round;
- `CheckRoundImplemented`: `CheckQueue` implements `CheckRound`.

Every pass of `Loop` reports a batch and goes on to what the loop does next.
`AtLoop` is the invariant at the point between, with the batch handed in: each way
of getting there establishes it and each way on restores `IInv`.  `IInv` adds
that `nIdle` and `nTotal` count the threads that wait and that are in the loop,
and that in a round which has not been quit a failing check is pending or has
made `fAllOk` false.  `Shutdown` is called only without a master, as the node
does.

### The orphan pool (`OrphanPoolProofs`)

From `OrphanPoolAssumption` (sizes and limits are numbers, a size is not 0), for any
transactions:

- `IndexStaysExact`: `mapOrphansByPrev` has each orphan under each of its inputs and
  nothing else;
- `BytesStayExact`: `nPoolBytes` is the sum of the sizes of what is stored;
- `LimitStands`: whenever `LimitPoolSize` returns, both counts and the bytes are
  within the limits.  (That it returns is another matter: see `orphan_limit`.)

The first is inductive; there is a lemma for insertion and one for `Erase`, which all
ways out but `clear` use.  A sum over a set would be a recursion, so the bytes of
a set are counted as the elements of a set: the pairs of a transaction and a
number up to its size.  With that, insertion and erasure are facts about unions of
disjoint finite sets (`Counted` adds the finiteness).  The third needs what the
first loop has established while the second one runs (`OrphansLimited`).

### Transaction admission (`TxAdmissionInv`, `TxAdmissionPool`, `TxAdmissionProofs`)

From the assumptions on the constants (`QueuesAssumption`, `AdmissionAssumption`: the
kinds of threads are disjoint, one thread changes the tip, finitely many
transactions), for any transactions, any positions in the filter, any scenarios and any
number of admission, commit and RPC threads:

- `SpentOnce`: the pool and the commit queue never hold two transactions that
  spend the same output;
- `RoundsDisjoint`: what may be validated between two commits is free of conflicts;
- `PauseFlushes`: a thread that changes the tip has, from its commit under the
  pause on, no worker beside it and nothing uncommitted but what
  `sendrawtransaction` is about to commit itself;
- `PoolStaysConsistent`: where the tip is settled, the pool has its inputs, when
  nothing is evicted and no call of `sendrawtransaction` overlaps a change of the tip;
- `NoOrphanStranded`: an orphan whose inputs have all arrived is about to be looked
  for;
- `NothingGetsLost`: no step of any thread loses a transaction;
- `TypesHold`.

The invariants `Inv` and `Inv2` carry this.  `Inv` says where a thread may be and
what place in the corral that gives it (`Control`), who holds `cs_accept`, that a
thread past its commit has left nothing to commit (`Flushed`), that what is in the
pool, in the commit queue, accepted or being inserted spends nothing twice
(`Unspent`), and that whatever the workers may take belongs to one round (`Round`):
the bits of all its inputs are set in `incomingConflicts`, which is why the next
transaction that shares one is deferred.  `NoDoubleSpend` is not inductive without
`Round`, since nobody looks for conflicts between validation and commit, and
`Round` is not without `Control`, since only the corral keeps a commit, which
resets the filter, away from the workers.

`Inv2` is inductive relative to `Inv`.  It adds that a block spends what was there
before it, that what is about to enter the pool has its inputs as well
(`Settled`), what the pool looks like between the flush of the coins and
`removeForBlock` (`Removing`), and that a transaction a worker found to miss an
input misses it until the worker has stored it (`MissingIsMissing`), which is what
makes the search for orphans after each commit complete.

Each action has a lemma ending in `Tame`, which unfolds it once: it keeps the types and
the control, and leaves its thread at this place with this state.  The
steps of `NextInv`, `NextInv2` and `NextTracks` start from that.  That `EnqueueAll`
keeps a queue well formed is an induction over the sequence.  `TxAdmissionInv` shows
it (`EnqueueAllWorks`) from the principle `NatStepwise`, that a set with 0 and with
every successor holds all naturals; `TxAdmissionProofs` proves the principle at its end
(`NatSetInduction`), because the library behind it slows down every proof after it.

A step that most of the steps after it use has no name in these three modules, so
that its fact is in force without being cited, and `USE ZenonT(60)` makes Zenon
the prover of every leaf that names no other.

### Parallel validation (`ParallelValidationProofs`)

From `TreeAssumption` (the blocks are a tree over `Root`, and work grows along a
path) and `NoCycles` (no block is its own ancestor), for any tree and any number of
threads, miners and queues:

- `NeverShared`: two threads never use the same script check queue;
- `QuitReaches`: a thread that was told to quit and still waits for scripts uses a
  queue that was told to quit;
- `OnlyValidConnect`: only blocks whose scripts were all checked and found good
  change the coins;
- `CoinsStayWithTip`: as long as no thread has met another tip of the work it began
  with (`~lookalike`), the coins are those of the chain of the tip whenever no thread
  is between the coins and the tip.

`ThreadInv` says of each thread what its place in the code implies: where it holds
`cs_main`, that it is in the table from `InitThread` to `Erase`, that the queue it
uses is the one it marked (or, for a miner, one without a mark), that its queue is
quit only if it was told, and that a verdict "ok" is about a valid block.  The
last needs the queue to be quit only if the thread was told: a verdict after a quit
is worthless, and `ConnectBlock` tests `QuitReceived` after taking it.
`Undisturbed` collects what a step may do to the other threads, and
`OthersKeep` shows once that their `ThreadInv` survives it; for each action only
the acting thread and the types remain.

`CoinsInv` is a second invariant, inductive relative to `IInv`.  It says what the
comparison of the works is worth: while `~lookalike`, a thread in `ConnectBlock` that
finds the work it began with has the parent of its block at the tip (`Follows`).  So
the thread that wins adds its block to the coins of the parent, and what is between the
coins and the tip in either direction is known exactly (`CoinsOfTip`).  That nobody
else is there at the same time follows from `cs_main`.

### What is model-checked only

- Liveness (`TopRegionEnters`, `QueuesDrain`, `LimitReturns`, `WaitReturns`,
  `ThreadsEnd`, `BlocksArrive`, `RequestsEnd`), which is beyond the prover.
- The safety of `RequestManager` (`TypeOK`, `InFlightIsMirrored`,
  `CountCoversFlight`).  It relates lists of the peers to maps through `SelectSeq`,
  whose properties need an induction over the sequence for each predicate.
- `TypeOK` of `ParallelValidation`.

## 5. What is not modelled

- Rules that look at one transaction or block alone: scripts, signatures, fees,
  amounts, group tokens, difficulty.  They have no state that outlives them.
- Ancestor and descendant state of the pool, fee estimation, `mempool.dat`.
- Byte accounting of the coins cache, and the data race on its hash table
  between a reader under a shared lock and `CoinAccessor`.
- Failing disk writes.  A crash inside a flush is modelled.
- The ten second timeout of `FlushTxAdmission`.
- In `ParallelValidation`: the limit on the depth of a reorganisation, work on our
  own fork by miners (`nMostWorkOurFork`), reorganisations of the Tailstorm forest
  and its post-block processing, shutdown.
- In `RequestManager`: the statistics that adapt `nMaxBlocksInTransit` and the
  order of the sources, batching of messages, `outstandingReqs`.  Which blocks are
  missing (`FindNextBlocksToDownload`) is part of the scenario.  The branches for
  a peer without state are not reached: references keep the state, which `TypeOK`
  checks.
- Tailstorm, the codecs of block relay and the rest of the components marked
  `not_modelled`.

## 6. Plan

In this order; each with the abstract statement it is checked against.

1. `StateFlush` (`blockstorage.cpp`, `txdb.cpp`, `index/txindex.cpp`): the order
   of header, index and chainstate writes, failing writes, a crash between any
   two and what the next start accepts.
2. `WalletSync` (`txadmission.cpp`, `vPostBlockProcessing`): the order in which
   blocks reach the wallet.
3. `TailstormForest` (`validation/dag.cpp`): insertion, orphans of the forest,
   the best grove.
4. Block relay bookkeeping, double spend proof storage, the CAPD pool, the
   address manager, ban list, fork voting and the traffic shaper, as small
   modules; the pure algorithms against reference definitions.
5. Proofs: `InFlightIsMirrored`.
