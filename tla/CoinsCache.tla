----------------------------- MODULE CoinsCache -----------------------------
(***************************************************************************)
(* The coins views: the chainstate database (CCoinsViewDB, txdb.cpp), the  *)
(* cache pcoinsTip over it and the view a block is applied in over that    *)
(* (CCoinsViewCache, coins.cpp).  A cache entry is DIRTY when it may       *)
(* differ from the view below and FRESH when the view below has no such    *)
(* coin; which entries are written down, which may be dropped and which a  *)
(* spend may simply erase all hang on those two flags.                     *)
(*                                                                         *)
(* FetchCoin fills a cache from the view below in two critical sections:   *)
(* the shared lock is released before the base is read and the exclusive   *)
(* lock is taken after it.  Other threads' steps fall in between.  Threads *)
(* in Corralled fetch from within the transaction admission corral or      *)
(* under cs_main, so that no block is applied to pcoinsTip meanwhile       *)
(* (TxAdmissionPause in ConnectTip and DisconnectTip).  Threads in Free    *)
(* hold neither: ConnectBlock on a parallel validation thread, which       *)
(* leaves cs_main, and gettxout.                                           *)
(*                                                                         *)
(* A coin is spent or unspent: an outpoint names one output, so its amount *)
(* and script never change.  Byte accounting (cachedCoinsUsage) is left    *)
(* out.                                                                    *)
(*                                                                         *)
(* Three history variables say what the views should show: the coins of    *)
(* the active chain, those coins with the block being applied so far, and  *)
(* whether the views can still be relied on.  They cease to be reliable    *)
(* when a fetch puts back a coin that was spent meanwhile, and when the    *)
(* process starts on a database that is not that of its DB_BEST_BLOCK.  No *)
(* operation looks at sound, and nothing holds back what the code does     *)
(* once it is FALSE: blocks are then replayed over coins the database      *)
(* already has.                                                            *)
(***************************************************************************)
EXTENDS Naturals

CONSTANTS
    Coins,          \* the outpoints
    Genesis,        \* those unspent in the database to begin with
    Corralled,      \* threads that fetch in the corral or under cs_main
    Free,           \* threads that fetch holding neither
    NoCoin          \* no fetch in progress

ASSUME GenesisAreCoins == Genesis \subseteq Coins
ASSUME NoCoinIsNoCoin == NoCoin \notin Coins

Readers == Corralled \cup Free

VARIABLES
    db,             \* the outpoints the database has a coin for
    best,           \* the coins of the block named by DB_BEST_BLOCK
    tip,            \* pcoinsTip
    view,           \* the CCoinsViewCache a block is applied in
    building,       \* whether that view exists
    fetching,       \* fetching[r]: the coin r read from the database for pcoinsTip
    chain,          \* history: the coins of the tip of the active chain
    block,          \* history: those coins, with the block being applied so far
    sound           \* history: whether the views can be relied on

history == <<chain, block, sound>>

coinsVars == <<db, best, tip, view, building, fetching, chain, block, sound>>

----------------------------------------------------------------------------
(***************************************************************************)
(* A CCoinsViewCache: the outpoints that have an entry in cacheCoins, and  *)
(* among them those whose coin is unspent, whose entry is DIRTY and whose  *)
(* entry is FRESH.                                                         *)
(***************************************************************************)
Caches == [has : SUBSET Coins, unspent : SUBSET Coins,
           dirty : SUBSET Coins, fresh : SUBSET Coins]

EmptyCache == [has |-> {}, unspent |-> {}, dirty |-> {}, fresh |-> {}]

Without(c, os) ==
    [has |-> c.has \ os, unspent |-> c.unspent \ os,
     dirty |-> c.dirty \ os, fresh |-> c.fresh \ os]

\* The unspent outputs seen through cache c over a base whose unspent outputs are b.
Seen(c, b) == c.unspent \cup (b \ c.has)

TipCoins == Seen(tip, db)
ViewCoins == Seen(view, TipCoins)

\* Entries with flags == 0.
Clean(c) == c.has \ (c.dirty \cup c.fresh)

Emplace(c, o, live) ==
    IF o \in c.has THEN c
    ELSE [c EXCEPT !.has = @ \cup {o},
                   !.unspent = IF live THEN @ \cup {o} ELSE @]

\* The second half of FetchCoin and of GetCoinFromDB: emplace does not replace an
\* entry that is there, and a spent entry's flags become FRESH and nothing else.
Fetched(c, o, live) ==
    LET e == Emplace(c, o, live)
    IN  IF o \in e.unspent THEN e
        ELSE [e EXCEPT !.dirty = @ \ {o}, !.fresh = @ \cup {o}]

\* AddCoin may throw: "Adding new coin that replaces non-pruned entry".
AddCoinThrows(c, o, overwrite) == ~overwrite /\ o \in c.unspent

\* Mutant: every coin that is not an overwrite is taken to be fresh.
AddCoin_AlwaysFresh(c, o, overwrite) ==
    [has |-> c.has \cup {o},
     unspent |-> c.unspent \cup {o},
     dirty |-> c.dirty \cup {o},
     fresh |-> IF overwrite THEN c.fresh ELSE c.fresh \cup {o}]

AddCoin(c, o, overwrite) ==
    [has |-> c.has \cup {o},
     unspent |-> c.unspent \cup {o},
     dirty |-> c.dirty \cup {o},
     fresh |-> IF ~overwrite /\ o \notin c.dirty THEN c.fresh \cup {o} ELSE c.fresh]

\* Mutant: a spent entry is erased whether or not the base has the coin.
SpendCoin_Erases(c, o) == Without(c, {o})

\* SpendCoin on an entry that is in the cache.
SpendCoin(c, o) ==
    IF o \in c.fresh THEN Without(c, {o})
    ELSE [c EXCEPT !.unspent = @ \ {o}, !.dirty = @ \cup {o}]

\* CCoinsViewCache::BatchWrite throws: "FRESH flag misapplied to cache entry ...".
BatchWriteThrows(p, c) == c.dirty \cap c.fresh \cap p.unspent # {}

\* Mutant: an entry that is there is replaced and not marked DIRTY.
BatchWrite_ModifiedStaysClean(p, c) ==
    LET created == {o \in c.dirty \ p.has : o \notin c.fresh \/ o \in c.unspent}
        erased == {o \in c.dirty \cap p.has : o \in p.fresh /\ o \notin c.unspent}
        modified == (c.dirty \cap p.has) \ erased
    IN  [has |-> (p.has \cup created) \ erased,
         unspent |-> (p.unspent \ c.dirty) \cup ((created \cup modified) \cap c.unspent),
         dirty |-> (p.dirty \ erased) \cup created,
         fresh |-> (p.fresh \ erased) \cup (created \cap c.fresh)]

\* CCoinsViewCache::BatchWrite of child c into parent p.
BatchWrite(p, c) ==
    LET created == {o \in c.dirty \ p.has : o \notin c.fresh \/ o \in c.unspent}
        erased == {o \in c.dirty \cap p.has : o \in p.fresh /\ o \notin c.unspent}
        modified == (c.dirty \cap p.has) \ erased
    IN  [has |-> (p.has \cup created) \ erased,
         unspent |-> (p.unspent \ c.dirty) \cup ((created \cup modified) \cap c.unspent),
         dirty |-> (p.dirty \ erased) \cup created \cup modified,
         fresh |-> (p.fresh \ erased) \cup (created \cap c.fresh)]

\* CCoinsViewDB::BatchWrite: what the database holds once the entries os are written ...
Written(d, c, os) == (d \ os) \cup (os \cap c.unspent)

\* Mutant: a written entry that stays keeps its FRESH flag.
AfterWrite_KeepsFresh(c, evict) ==
    LET gone == IF evict THEN c.dirty ELSE c.dirty \ c.unspent
    IN  [Without(c, gone) EXCEPT !.dirty = {}]

\* ... and what is left in the cache: spent entries go, the others go too when the
\* chain is nearly synced, and are marked clean otherwise.
AfterWrite(c, evict) ==
    LET gone == IF evict THEN c.dirty ELSE c.dirty \ c.unspent
    IN  [Without(c, gone) EXCEPT !.dirty = {}, !.fresh = @ \ c.dirty]

----------------------------------------------------------------------------
CoinsInit ==
    /\ db = Genesis
    /\ best = Genesis
    /\ tip = EmptyCache
    /\ view = EmptyCache
    /\ building = FALSE
    /\ fetching = [r \in Readers |-> NoCoin]
    /\ chain = Genesis
    /\ block = Genesis
    /\ sound = TRUE

\* FetchCoin, first half: the coin is not in the cache, the database has it.
FetchMiss(r, o) ==
    /\ fetching[r] = NoCoin
    /\ o \notin tip.has
    /\ o \in db
    /\ fetching' = [fetching EXCEPT ![r] = o]
    /\ UNCHANGED <<db, best, tip, view, building, history>>

\* FetchCoin, second half: the coin may have been spent since it was read.
FetchInsert(r) ==
    /\ fetching[r] # NoCoin
    /\ tip' = Fetched(tip, fetching[r], TRUE)
    /\ fetching' = [fetching EXCEPT ![r] = NoCoin]
    /\ sound' = (sound /\ fetching[r] \in TipCoins)
    /\ UNCHANGED <<db, best, view, building, chain, block>>

\* CoinAccessor and CoinModifier hold cs_utxo across the whole fetch.
AccessCoin(o) ==
    /\ o \notin tip.has
    /\ o \in db
    /\ tip' = Fetched(tip, o, TRUE)
    /\ UNCHANGED <<db, best, view, building, fetching, history>>

\* Trim, called by the commit thread: any entries that are not modified.
Trim(os) ==
    /\ os \subseteq Clean(tip)
    /\ tip' = Without(tip, os)
    /\ UNCHANGED <<db, best, view, building, fetching, history>>

Uncache(o) ==
    /\ o \in Clean(tip)
    /\ tip' = Without(tip, {o})
    /\ UNCHANGED <<db, best, view, building, fetching, history>>

----------------------------------------------------------------------------
(***************************************************************************)
(* A block (ConnectTip, DisconnectTip).  Its reads and its spends fetch    *)
(* into the view from pcoinsTip, which first fetches into itself what it   *)
(* lacks: that part is FetchMiss and FetchInsert.                          *)
(***************************************************************************)
NewView ==
    /\ ~building
    /\ building' = TRUE
    /\ view' = EmptyCache
    /\ UNCHANGED <<db, best, tip, fetching, history>>

\* FetchCoin on the view: GetCoin on pcoinsTip succeeds for any entry it has, a spent
\* one included.
ViewFetch(o) ==
    /\ building
    /\ o \notin view.has
    /\ o \in tip.has
    /\ view' = Fetched(view, o, o \in tip.unspent)
    /\ UNCHANGED <<db, best, tip, building, fetching, history>>

\* SpendCoins in ConnectBlock and DisconnectBlock; a spend of a spent coin returns
\* false and the block is refused.
ViewSpend(o) ==
    /\ building
    /\ o \in view.has
    /\ o \in view.unspent
    /\ view' = SpendCoin(view, o)
    /\ block' = block \ {o}
    /\ UNCHANGED <<db, best, tip, building, fetching, chain, sound>>

\* AddCoins in ConnectBlock, where overwrite is tx.IsCoinBase(), and ApplyTxInUndo.  The
\* chain does not create an output it has: transactions that spend something have
\* different outpoints, and so do the coinbases of different heights.  Whether the views
\* have it is not looked at; AddCoin sees an entry of its own cache only.
ViewAdd(o, overwrite) ==
    /\ building
    /\ o \notin block
    /\ ~AddCoinThrows(view, o, overwrite)
    /\ view' = AddCoin(view, o, overwrite)
    /\ block' = block \cup {o}
    /\ UNCHANGED <<db, best, tip, building, fetching, chain, sound>>

\* Mutant: the coin state is flushed before the transaction threads are paused.
ViewFlush_NoPause ==
    /\ building
    /\ ~BatchWriteThrows(tip, view)
    /\ tip' = BatchWrite(tip, view)
    /\ view' = EmptyCache
    /\ building' = FALSE
    /\ chain' = block
    /\ UNCHANGED <<db, best, fetching, block, sound>>

\* view.Flush() inside the TxAdmissionPause.
ViewFlush ==
    /\ building
    /\ \A r \in Corralled : fetching[r] = NoCoin
    /\ ~BatchWriteThrows(tip, view)
    /\ tip' = BatchWrite(tip, view)
    /\ view' = EmptyCache
    /\ building' = FALSE
    /\ chain' = block
    /\ UNCHANGED <<db, best, fetching, block, sound>>

\* The block was refused, or lost the race to another.
ViewDrop ==
    /\ building
    /\ view' = EmptyCache
    /\ building' = FALSE
    /\ block' = chain
    /\ UNCHANGED <<db, best, tip, fetching, chain, sound>>

----------------------------------------------------------------------------
\* FlushStateToDisk with fDoFullFlush: pcoinsTip->Flush() and then Trim.
FlushStateToDisk(evict, os) ==
    /\ os \subseteq Clean(AfterWrite(tip, evict))
    /\ db' = Written(db, tip, tip.dirty)
    /\ best' = chain
    /\ tip' = Without(AfterWrite(tip, evict), os)
    /\ UNCHANGED <<view, building, fetching, history>>

\* A restart: the caches are gone, the chain continues from DB_BEST_BLOCK, whose coins
\* the database is taken to hold.
Lose ==
    /\ tip' = EmptyCache
    /\ view' = EmptyCache
    /\ building' = FALSE
    /\ fetching' = [r \in Readers |-> NoCoin]
    /\ chain' = best'
    /\ block' = best'
    /\ sound' = (db' = best')

Crash == UNCHANGED <<db, best>> /\ Lose

\* The process dies inside CCoinsViewDB::BatchWrite with the entries os written.
\* DB_BEST_BLOCK is a write of its own, before the last batch.
CrashWhileFlushing(os, bestWritten) ==
    /\ os \subseteq tip.dirty
    /\ db' = Written(db, tip, os)
    /\ best' = IF bestWritten THEN chain ELSE best
    /\ Lose

CoinsNext ==
    \/ \E r \in Readers : FetchInsert(r) \/ \E o \in Coins : FetchMiss(r, o)
    \/ \E o \in Coins :
          \/ AccessCoin(o) \/ Uncache(o) \/ ViewFetch(o) \/ ViewSpend(o)
          \/ \E overwrite \in BOOLEAN : ViewAdd(o, overwrite)
    \/ NewView \/ ViewFlush \/ ViewDrop \/ Crash
    \/ \E os \in SUBSET Coins :
          \/ Trim(os)
          \/ \E evict \in BOOLEAN : FlushStateToDisk(evict, os)
          \/ \E bestWritten \in BOOLEAN : CrashWhileFlushing(os, bestWritten)

CoinsSpec == CoinsInit /\ [][CoinsNext]_coinsVars

----------------------------------------------------------------------------
WellFormed(c) ==
    /\ c \in Caches
    /\ c.unspent \subseteq c.has
    /\ c.dirty \subseteq c.has
    /\ c.fresh \subseteq c.has

\* Flags and coins belong to entries; a view exists only while a block is applied.
TypeOK ==
    /\ db \subseteq Coins
    /\ best \subseteq Coins
    /\ WellFormed(tip)
    /\ WellFormed(view)
    /\ building \in BOOLEAN
    /\ ~building => view = EmptyCache
    /\ fetching \in [Readers -> Coins \cup {NoCoin}]
    /\ chain \subseteq Coins
    /\ block \subseteq Coins
    /\ sound \in BOOLEAN

\* What coins.h says of the flags: an entry of c that is not DIRTY is the same as in the
\* base, whose unspent outputs are b, and of a FRESH entry the base has no coin.
FlagsTell(c, b) ==
    /\ \A o \in c.has \ c.dirty : o \in c.unspent <=> o \in b
    /\ \A o \in c.fresh : o \notin b

FlagsHold == FlagsTell(tip, db) /\ FlagsTell(view, TipCoins)

\* While the views can be relied on, the flags of pcoinsTip's entries are true of the
\* database and those of the block's view are true of pcoinsTip, whatever is fetched,
\* trimmed, written or flushed around them (coins.h, CCoinsCacheEntry::Flags).
FlagsAreTrue == sound => FlagsHold

\* The same, asked only of a database that is that of its best block: the lies that are
\* left are those of a fetch that was overtaken (coins.h, CCoinsCacheEntry::Flags).
FlagsAreTrueOverBest == db = best => FlagsHold

\* While the views can be relied on, the database holds the coins of the block
\* DB_BEST_BLOCK names, pcoinsTip shows those of the active chain, and the view those of
\* the chain with the block's spends and outputs so far: the coin the flags let SpendCoin
\* erase is gone, the one they let it mark is not written back, none is lost in a Trim.
CoinsAreOfTheChain == sound => db = best /\ TipCoins = chain /\ ViewCoins = block

\* While the views can be relied on, the logic_error of CCoinsViewCache::BatchWrite,
\* "FRESH flag misapplied", is not thrown: it would come out of ConnectTip with the block
\* half way into pcoinsTip.
FreshIsNeverMisapplied == sound => ~BatchWriteThrows(tip, view)

Harmless ==
    sound =>
      \/ sound'
      \/ \E r \in Free : FetchInsert(r) /\ fetching[r] \notin TipCoins
      \/ \E os \in SUBSET tip.dirty, bestWritten \in BOOLEAN :
            /\ CrashWhileFlushing(os, bestWritten)
            /\ os # {} \/ bestWritten
            /\ os # tip.dirty \/ ~bestWritten

\* The views cease to be reliable in two ways only: a thread outside of the corral puts
\* a coin into pcoinsTip that was spent since it read it, or the process dies in
\* CCoinsViewDB::BatchWrite with some of the writes done and not all.  Fetches inside the
\* corral, which leave the lock between reading and emplacing (FetchCoin), and deaths
\* anywhere else do no harm.
OnlyFreeFetchesAndTornFlushesHarm == [][Harmless]_coinsVars

\* While the views can be relied on, the three layers behave as one set of unspent
\* outputs: fetching, trimming and uncaching change nothing, a block takes effect as a
\* whole or not at all, and a flush saves exactly what pcoinsTip showed.  A flush that is
\* cut short invents no coin and loses none that it was not about to delete.
U == INSTANCE UtxoSet WITH utxo <- TipCoins, work <- ViewCoins, saved <- db, intact <- sound

ImplementsUtxoSet == U!UtxoSpec
=============================================================================
