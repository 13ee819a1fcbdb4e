--------------------------- MODULE CoinsCacheProofs ---------------------------
(***************************************************************************)
(* Proofs about CoinsCache, for any outpoints and any readers, inside of   *)
(* the corral and outside of it, wherever the process dies.                *)
(***************************************************************************)
EXTENDS CoinsCache, TLAPS

\* The prover of the leaves that name no other.
USE SMTT(40)

\* What a reader of the corral carries from the database is still unspent there and has
\* not been modified in pcoinsTip since it was read.
FetchesAreCurrent ==
    \A r \in Corralled : fetching[r] # NoCoin => fetching[r] \in db \ tip.dirty

\* The state while the views can be relied on: the flags mean what they say at both
\* levels, fetches of the corral are current, and every layer shows its coins.
Good ==
    /\ TypeOK
    /\ FlagsHold
    /\ FetchesAreCurrent
    /\ db = best
    /\ TipCoins = chain
    /\ ViewCoins = block

\* What the steps preserve.
CoinsInv == TypeOK /\ (sound => Good)

----------------------------------------------------------------------------
(***************************************************************************)
(* The operations on one cache over a base whose unspent outputs are b.    *)
(***************************************************************************)

\* Fetching a coin as the base has it changes neither the truth of the flags nor what
\* is seen through the cache (FetchCoin).
LEMMA FetchKeepsView ==
    ASSUME NEW c, WellFormed(c), NEW b \in SUBSET Coins, FlagsTell(c, b),
           NEW o \in Coins, o \notin c.dirty
    PROVE  /\ WellFormed(Fetched(c, o, o \in b))
           /\ FlagsTell(Fetched(c, o, o \in b), b)
           /\ Seen(Fetched(c, o, o \in b), b) = Seen(c, b)
           /\ Fetched(c, o, o \in b).dirty = c.dirty
<1> DEFINE e == [c EXCEPT !.has = @ \cup {o}, !.unspent = @ \cup {o}]
           f == [c EXCEPT !.has = @ \cup {o}, !.dirty = @ \ {o}, !.fresh = @ \cup {o}]
           g == [c EXCEPT !.fresh = @ \cup {o}]
<1>1. CASE o \in c.has /\ o \in b
  <2>1. o \in c.unspent
    BY <1>1 DEF FlagsTell
  <2>2. Fetched(c, o, o \in b) = c
    BY <1>1, <2>1 DEF Fetched, Emplace
  <2> QED BY <2>2
<1>2. CASE o \notin c.has /\ o \in b
  <2>1. Fetched(c, o, o \in b) = e
    BY <1>2 DEF Fetched, Emplace, WellFormed, Caches
  <2>2. WellFormed(e) /\ FlagsTell(e, b) /\ Seen(e, b) = Seen(c, b) /\ e.dirty = c.dirty
    BY <1>2, ZenonT(40) DEF WellFormed, Caches, FlagsTell, Seen
  <2> HIDE DEF e
  <2> QED BY <2>1, <2>2
<1>3. CASE o \in c.has /\ o \notin b
  <2>1. o \notin c.unspent
    BY <1>3 DEF FlagsTell
  <2>2. Fetched(c, o, o \in b) = g
    BY <1>3, <2>1, ZenonT(40) DEF Fetched, Emplace, WellFormed, Caches
  <2>3. WellFormed(g) /\ FlagsTell(g, b) /\ Seen(g, b) = Seen(c, b) /\ g.dirty = c.dirty
    BY <1>3 DEF WellFormed, Caches, FlagsTell, Seen
  <2> HIDE DEF g
  <2> QED BY <2>2, <2>3
<1>4. CASE o \notin c.has /\ o \notin b
  <2>1. Fetched(c, o, o \in b) = f
    BY <1>4, ZenonT(40) DEF Fetched, Emplace, WellFormed, Caches
  <2>2. WellFormed(f) /\ FlagsTell(f, b) /\ Seen(f, b) = Seen(c, b) /\ f.dirty = c.dirty
    BY <1>4, ZenonT(40) DEF WellFormed, Caches, FlagsTell, Seen
  <2> HIDE DEF f
  <2> QED BY <2>1, <2>2
<1> QED BY <1>1, <1>2, <1>3, <1>4

\* Dropping entries whose flags are 0 does neither (Trim, Uncache).
LEMMA DropCleanKeepsView ==
    ASSUME NEW c, WellFormed(c), NEW b \in SUBSET Coins, FlagsTell(c, b),
           NEW os, os \subseteq Clean(c)
    PROVE  /\ WellFormed(Without(c, os))
           /\ FlagsTell(Without(c, os), b)
           /\ Seen(Without(c, os), b) = Seen(c, b)
           /\ Without(c, os).dirty = c.dirty
  BY DEF WellFormed, Caches, FlagsTell, Without, Clean, Seen

\* AddCoin of an output that is not unspent adds it to what is seen.
LEMMA AddCoinAdds ==
    ASSUME NEW c, WellFormed(c), NEW b \in SUBSET Coins, FlagsTell(c, b),
           NEW o \in Coins, o \notin Seen(c, b), NEW overwrite \in BOOLEAN
    PROVE  /\ WellFormed(AddCoin(c, o, overwrite))
           /\ FlagsTell(AddCoin(c, o, overwrite), b)
           /\ Seen(AddCoin(c, o, overwrite), b) = Seen(c, b) \cup {o}
  BY DEF WellFormed, Caches, FlagsTell, AddCoin, Seen

\* SpendCoin of an unspent entry removes it from what is seen.
LEMMA SpendCoinRemoves ==
    ASSUME NEW c, WellFormed(c), NEW b \in SUBSET Coins, FlagsTell(c, b),
           NEW o \in c.unspent
    PROVE  /\ WellFormed(SpendCoin(c, o))
           /\ FlagsTell(SpendCoin(c, o), b)
           /\ Seen(SpendCoin(c, o), b) = Seen(c, b) \ {o}
  BY ZenonT(40) DEF WellFormed, Caches, FlagsTell, SpendCoin, Without, Seen

\* BatchWrite makes the parent show what the child showed through it, and leaves the
\* parent's flags true of the parent's own base.
LEMMA BatchWriteMoves ==
    ASSUME NEW p, WellFormed(p), NEW b \in SUBSET Coins, FlagsTell(p, b),
           NEW c, WellFormed(c), FlagsTell(c, Seen(p, b))
    PROVE  /\ ~BatchWriteThrows(p, c)
           /\ WellFormed(BatchWrite(p, c))
           /\ FlagsTell(BatchWrite(p, c), b)
           /\ Seen(BatchWrite(p, c), b) = Seen(c, Seen(p, b))
<1>1. ~BatchWriteThrows(p, c)
  BY DEF WellFormed, Caches, FlagsTell, Seen, BatchWriteThrows
<1>2. WellFormed(BatchWrite(p, c))
  BY DEF WellFormed, Caches, BatchWrite
<1>3. FlagsTell(BatchWrite(p, c), b)
  BY DEF WellFormed, Caches, BatchWrite, FlagsTell, Seen
<1>4. Seen(BatchWrite(p, c), b) = Seen(c, Seen(p, b))
  BY DEF WellFormed, Caches, BatchWrite, FlagsTell, Seen
<1> QED BY <1>1, <1>2, <1>3, <1>4

\* Writing the DIRTY entries to the base makes the base what was seen, and the entries
\* that stay are true of it.
LEMMA WriteSaves ==
    ASSUME NEW c, WellFormed(c), NEW b \in SUBSET Coins, FlagsTell(c, b),
           NEW evict \in BOOLEAN
    PROVE  /\ Written(b, c, c.dirty) = Seen(c, b)
           /\ WellFormed(AfterWrite(c, evict))
           /\ FlagsTell(AfterWrite(c, evict), Seen(c, b))
           /\ Seen(AfterWrite(c, evict), Seen(c, b)) = Seen(c, b)
           /\ AfterWrite(c, evict).dirty = {}
<1>1. Written(b, c, c.dirty) = Seen(c, b)
  BY DEF WellFormed, Caches, FlagsTell, Written, Seen
<1>2. WellFormed(AfterWrite(c, evict)) /\ AfterWrite(c, evict).dirty = {}
  BY ZenonT(40) DEF WellFormed, Caches, AfterWrite, Without
<1>3. FlagsTell(AfterWrite(c, evict), Seen(c, b))
  BY DEF WellFormed, Caches, AfterWrite, Without, FlagsTell, Seen
<1>4. Seen(AfterWrite(c, evict), Seen(c, b)) = Seen(c, b)
  BY DEF WellFormed, Caches, AfterWrite, Without, FlagsTell, Seen
<1> QED BY <1>1, <1>2, <1>3, <1>4

\* An empty cache is well formed, tells no lie and shows the base.
LEMMA EmptyCacheShowsBase ==
    ASSUME NEW b \in SUBSET Coins
    PROVE  WellFormed(EmptyCache) /\ FlagsTell(EmptyCache, b) /\ Seen(EmptyCache, b) = b
  BY DEF WellFormed, Caches, EmptyCache, FlagsTell, Seen

----------------------------------------------------------------------------
(***************************************************************************)
(* The types, which hold in every state: no operation leaves a flag or a   *)
(* coin without its entry, whatever the flags say.                         *)
(***************************************************************************)

\* Emplacing a coin leaves a cache well formed (FetchCoin).
LEMMA FetchedWellFormed ==
    ASSUME NEW c, WellFormed(c), NEW o \in Coins, NEW live \in BOOLEAN
    PROVE  WellFormed(Fetched(c, o, live))
<1> DEFINE e == Emplace(c, o, live)
<1>1. WellFormed(e) /\ o \in e.has
  <2>1. CASE o \in c.has
    BY <2>1 DEF Emplace
  <2>2. CASE o \notin c.has
    BY <2>2, ZenonT(40) DEF Emplace, WellFormed, Caches
  <2> QED BY <2>1, <2>2
<1> HIDE DEF e
<1>2. WellFormed([e EXCEPT !.dirty = @ \ {o}, !.fresh = @ \cup {o}])
  BY <1>1, ZenonT(40) DEF WellFormed, Caches
<1> QED BY <1>1, <1>2, ZenonT(40) DEF Fetched, e

\* So does dropping entries (Trim, Uncache).
LEMMA WithoutWellFormed ==
    ASSUME NEW c, WellFormed(c), NEW os
    PROVE  WellFormed(Without(c, os))
  BY DEF WellFormed, Caches, Without

\* So do AddCoin and SpendCoin.
LEMMA AddCoinWellFormed ==
    ASSUME NEW c, WellFormed(c), NEW o \in Coins, NEW overwrite \in BOOLEAN
    PROVE  WellFormed(AddCoin(c, o, overwrite))
  BY DEF WellFormed, Caches, AddCoin

\* SpendCoin leaves the entry without its coin or leaves no entry.
LEMMA SpendCoinWellFormed ==
    ASSUME NEW c, WellFormed(c), NEW o \in c.unspent
    PROVE  WellFormed(SpendCoin(c, o))
  BY ZenonT(40) DEF WellFormed, Caches, SpendCoin, Without

\* So are the caches that are flushed and flushed into (CCoinsViewCache::BatchWrite and
\* CCoinsViewDB::BatchWrite).
LEMMA FlushesWellFormed ==
    ASSUME NEW p, WellFormed(p), NEW c, WellFormed(c), NEW evict \in BOOLEAN
    PROVE  WellFormed(BatchWrite(p, c)) /\ WellFormed(AfterWrite(c, evict))
<1>1. WellFormed(BatchWrite(p, c))
  BY DEF WellFormed, Caches, BatchWrite
<1>2. WellFormed(AfterWrite(c, evict))
  BY ZenonT(40) DEF WellFormed, Caches, AfterWrite, Without
<1> QED BY <1>1, <1>2

\* An empty cache is well formed.
LEMMA EmptyWellFormed == WellFormed(EmptyCache)
  BY DEF WellFormed, Caches, EmptyCache

\* The types of the next state, conjunct by conjunct.
LEMMA TypesNext ==
    ASSUME db' \in SUBSET Coins, best' \in SUBSET Coins, WellFormed(tip'), WellFormed(view'),
           building' \in BOOLEAN, ~building' => view' = EmptyCache,
           fetching' \in [Readers -> Coins \cup {NoCoin}], chain' \in SUBSET Coins,
           block' \in SUBSET Coins, sound' \in BOOLEAN
    PROVE  TypeOK'
  BY DEF TypeOK, WellFormed, Caches, EmptyCache

\* Every step of CoinsCache leaves its variables well typed.
LEMMA TypeStep ==
    ASSUME TypeOK, [CoinsNext]_coinsVars
    PROVE  TypeOK'
<1> USE DEF TypeOK
<1>1. ASSUME NEW r \in Readers, FetchInsert(r) PROVE TypeOK'
  <2>1. fetching[r] \in Coins
    BY <1>1 DEF FetchInsert
  <2>2. WellFormed(tip')
    BY <1>1, <2>1, FetchedWellFormed, ZenonT(40) DEF FetchInsert
  <2>3. sound' \in BOOLEAN /\ fetching' \in [Readers -> Coins \cup {NoCoin}]
    BY <1>1 DEF FetchInsert
  <2> QED BY <1>1, <2>2, <2>3, TypesNext, ZenonT(40) DEF FetchInsert
<1>2. ASSUME NEW r \in Readers, NEW o \in Coins, FetchMiss(r, o) PROVE TypeOK'
  <2>1. fetching' \in [Readers -> Coins \cup {NoCoin}]
    BY <1>2 DEF FetchMiss
  <2> QED BY <1>2, <2>1, TypesNext DEF FetchMiss, history
<1>3. ASSUME NEW o \in Coins, AccessCoin(o) PROVE TypeOK'
  <2>1. WellFormed(tip')
    BY <1>3, FetchedWellFormed, ZenonT(40) DEF AccessCoin
  <2> QED BY <1>3, <2>1, TypesNext, ZenonT(40) DEF AccessCoin, history
<1>4. ASSUME NEW o \in Coins, Uncache(o) PROVE TypeOK'
  <2>1. WellFormed(tip')
    BY <1>4, WithoutWellFormed DEF Uncache
  <2> QED BY <1>4, <2>1, TypesNext DEF Uncache, history
<1>5. ASSUME NEW o \in Coins, ViewFetch(o) PROVE TypeOK'
  <2>1. WellFormed(view')
    <3>1. view' = Fetched(view, o, TRUE) \/ view' = Fetched(view, o, FALSE)
      BY <1>5, ZenonT(40) DEF ViewFetch, Fetched, Emplace
    <3> QED BY <3>1, FetchedWellFormed, ZenonT(40)
  <2> QED BY <1>5, <2>1, TypesNext DEF ViewFetch, history
<1>6. ASSUME NEW o \in Coins, ViewSpend(o) PROVE TypeOK'
  <2>1. WellFormed(view')
    BY <1>6, SpendCoinWellFormed DEF ViewSpend
  <2> QED BY <1>6, <2>1, TypesNext DEF ViewSpend
<1>7. ASSUME NEW o \in Coins, NEW overwrite \in BOOLEAN, ViewAdd(o, overwrite) PROVE TypeOK'
  <2>1. WellFormed(view')
    BY <1>7, AddCoinWellFormed DEF ViewAdd
  <2> QED BY <1>7, <2>1, TypesNext DEF ViewAdd
<1>8. CASE NewView
  BY <1>8, EmptyWellFormed, TypesNext DEF NewView, history
<1>9. CASE ViewFlush
  <2>1. WellFormed(tip')
    BY <1>9, FlushesWellFormed DEF ViewFlush
  <2> QED BY <1>9, <2>1, EmptyWellFormed, TypesNext, ZenonT(40) DEF ViewFlush
<1>10. CASE ViewDrop
  BY <1>10, EmptyWellFormed, TypesNext, ZenonT(40) DEF ViewDrop
<1>11. ASSUME Lose, db' \in SUBSET Coins, best' \in SUBSET Coins PROVE TypeOK'
  <2>1. fetching' \in [Readers -> Coins \cup {NoCoin}] /\ sound' \in BOOLEAN
    BY <1>11 DEF Lose
  <2> QED BY <1>11, <2>1, EmptyWellFormed, TypesNext, ZenonT(40) DEF Lose
<1>12. CASE Crash
  BY <1>11, <1>12 DEF Crash
<1>13. ASSUME NEW os, Trim(os) PROVE TypeOK'
  <2>1. WellFormed(tip')
    BY <1>13, WithoutWellFormed DEF Trim
  <2> QED BY <1>13, <2>1, TypesNext DEF Trim, history
<1>14. ASSUME NEW os, NEW evict \in BOOLEAN, FlushStateToDisk(evict, os) PROVE TypeOK'
  <2>1. WellFormed(AfterWrite(tip, evict))
    BY FlushesWellFormed
  <2>2. WellFormed(tip')
    BY <1>14, <2>1, WithoutWellFormed DEF FlushStateToDisk
  <2>3. db' \in SUBSET Coins
    BY <1>14 DEF FlushStateToDisk, Written, WellFormed, Caches
  <2> QED BY <1>14, <2>2, <2>3, TypesNext DEF FlushStateToDisk, history
<1>15. ASSUME NEW os, NEW bestWritten, CrashWhileFlushing(os, bestWritten) PROVE TypeOK'
  <2>1. db' \in SUBSET Coins /\ best' \in SUBSET Coins /\ Lose
    BY <1>15 DEF CrashWhileFlushing, Written, WellFormed, Caches
  <2> QED BY <1>11, <2>1
<1>16. CASE UNCHANGED coinsVars
  BY <1>16, TypesNext DEF coinsVars
<1> QED
  BY <1>1, <1>2, <1>3, <1>4, <1>5, <1>6, <1>7, <1>8, <1>9, <1>10, <1>12, <1>13,
     <1>14, <1>15, <1>16 DEF CoinsNext

----------------------------------------------------------------------------
(***************************************************************************)
(* One lemma per kind of step from a state in which the views can be       *)
(* relied on: they still can after it, and what it does to the coins seen  *)
(* in pcoinsTip and in the block's view.                                   *)
(***************************************************************************)
Quiet ==
    /\ TipCoins' = TipCoins /\ ViewCoins' = ViewCoins
    /\ building' = building /\ db' = db /\ sound' = sound

\* What pcoinsTip and the view show are sets of outpoints.
LEMMA SeenAreCoins ==
    ASSUME TypeOK
    PROVE  TipCoins \in SUBSET Coins /\ ViewCoins \in SUBSET Coins /\ db \in SUBSET Coins
  BY DEF TypeOK, WellFormed, Caches, TipCoins, ViewCoins, Seen

\* Any step that replaces pcoinsTip by a cache that shows the same coins and has the same
\* modified entries.
LEMMA SameTip ==
    ASSUME Good, TypeOK', FlagsTell(tip', db), TipCoins' = TipCoins,
           tip'.dirty = tip.dirty, UNCHANGED <<db, best, view, building, chain, block, sound>>,
           \A r \in Readers : fetching'[r] \in {fetching[r], NoCoin}
    PROVE  Good' /\ Quiet
<1>1. ViewCoins' = ViewCoins
  BY DEF ViewCoins
<1>2. FlagsHold'
  BY DEF Good, FlagsHold, FlagsTell
<1>3. FetchesAreCurrent'
  BY DEF Good, FetchesAreCurrent, Readers
<1> QED BY <1>1, <1>2, <1>3 DEF Good, Quiet

\* Reading a coin from the database changes nothing yet (FetchCoin, first half).
LEMMA FetchMissKeeps ==
    ASSUME Good, TypeOK', NEW r \in Readers, NEW o \in Coins, FetchMiss(r, o)
    PROVE  Good' /\ Quiet
<1> USE DEF FetchMiss, history
<1>1. Quiet
  BY DEF Quiet, TipCoins, ViewCoins
<1>2. FlagsHold'
  BY DEF Good, FlagsHold, FlagsTell, TipCoins
<1>3. FetchesAreCurrent'
  BY DEF Good, FetchesAreCurrent, TypeOK, WellFormed, Readers
<1> QED BY <1>1, <1>2, <1>3 DEF Good, Quiet

\* Emplacing a coin that pcoinsTip still shows changes nothing that is seen (FetchCoin,
\* second half).
LEMMA FetchInsertKeeps ==
    ASSUME Good, TypeOK', NEW r \in Readers, FetchInsert(r), sound, sound'
    PROVE  Good' /\ Quiet
<1> DEFINE o == fetching[r]
<1>a. o \in Coins
  BY DEF Good, TypeOK, FetchInsert
<1>b. o \in TipCoins
  BY ZenonT(40) DEF FetchInsert
<1>1. o \in Coins /\ o \in TipCoins
  BY <1>a, <1>b
<1>2. WellFormed(tip) /\ FlagsTell(tip, db) /\ db \in SUBSET Coins
  BY DEF Good, TypeOK, FlagsHold
<1>3. tip' = Fetched(tip, o, TRUE) /\ db' = db
  BY DEF FetchInsert
<1> HIDE DEF o
<1>4. FlagsTell(tip', db) /\ Seen(tip', db) = Seen(tip, db) /\ tip'.dirty = tip.dirty
  <2>1. CASE o \in tip.has
    <3>1. o \in tip.unspent
      BY <1>1, <2>1 DEF TipCoins, Seen
    <3>2. tip' = tip
      BY <1>3, <2>1, <3>1, ZenonT(40) DEF Fetched, Emplace
    <3> QED BY <1>2, <3>2
  <2>2. CASE o \notin tip.has
    <3>1. o \in db /\ o \notin tip.dirty
      BY <1>1, <1>2, <2>2 DEF TipCoins, Seen, WellFormed
    <3>2. tip' = Fetched(tip, o, o \in db)
      BY <1>3, <3>1, ZenonT(40) DEF Fetched, Emplace
    <3> QED BY <1>1, <1>2, <3>1, <3>2, FetchKeepsView
  <2> QED BY <2>1, <2>2
<1>5. TipCoins' = TipCoins
  BY <1>3, <1>4, ZenonT(40) DEF TipCoins
<1>6. \A q \in Readers : fetching'[q] \in {fetching[q], NoCoin}
  BY DEF Good, TypeOK, FetchInsert
<1>7. UNCHANGED <<db, best, view, building, chain, block, sound>>
  BY ZenonT(40) DEF FetchInsert
<1> QED BY <1>4, <1>5, <1>6, <1>7, SameTip

\* Emplacing one that it does not show brings back that coin at most, and is what a
\* reader of the corral never does.
LEMMA FetchInsertRevives ==
    ASSUME Good, TypeOK', NEW r \in Readers, FetchInsert(r), sound, ~sound'
    PROVE  /\ \E o \in Coins : U!Revive(o)
           /\ r \in Free /\ fetching[r] \notin TipCoins
<1> DEFINE o == fetching[r]
<1>1. o \in Coins /\ o # NoCoin
  BY DEF Good, TypeOK, FetchInsert
<1>2. o \notin TipCoins
  BY ZenonT(40) DEF FetchInsert
<1>3. WellFormed(tip) /\ FlagsTell(tip, db) /\ WellFormed(view)
  BY DEF Good, TypeOK, FlagsHold
<1>4. r \notin Corralled
  <2> SUFFICES ASSUME r \in Corralled PROVE FALSE
    OBVIOUS
  <2>1. o \in db /\ o \notin tip.dirty
    BY <1>1 DEF Good, FetchesAreCurrent
  <2> QED BY <1>2, <1>3, <2>1 DEF FlagsTell, TipCoins, Seen
<1>5. tip' = Fetched(tip, o, TRUE) /\ db' = db /\ view' = view /\ building' = building
  BY DEF FetchInsert
<1> HIDE DEF o
<1>6. TipCoins' \in {TipCoins, TipCoins \cup {o}}
  <2>1. CASE o \in tip.has
    <3>1. o \notin tip.unspent
      BY <1>2 DEF TipCoins, Seen
    <3>2. tip'.unspent = tip.unspent /\ tip'.has = tip.has
      BY <1>3, <1>5, <2>1, <3>1, ZenonT(40) DEF Fetched, Emplace, WellFormed, Caches
    <3> QED BY <1>5, <3>2, ZenonT(40) DEF TipCoins, Seen
  <2>2. CASE o \notin tip.has
    <3>1. tip'.unspent = tip.unspent \cup {o} /\ tip'.has = tip.has \cup {o}
      BY <1>3, <1>5, <2>2 DEF Fetched, Emplace, WellFormed, Caches
    <3>2. Seen(tip', db) = Seen(tip, db) \cup {o}
      BY <3>1, ZenonT(40) DEF Seen
    <3>3. TipCoins' = TipCoins \cup {o}
      BY <1>5, <3>2, ZenonT(40) DEF TipCoins
    <3> QED BY <3>3
  <2> QED BY <2>1, <2>2
<1>7. ViewCoins' \in {ViewCoins, ViewCoins \cup {o}}
  BY <1>5, <1>6 DEF ViewCoins, Seen
<1>8. sound' = FALSE
  BY ZenonT(40) DEF TypeOK
<1>9. U!Revive(o)
  BY <1>5, <1>6, <1>7, <1>8, ZenonT(40) DEF U!Revive
<1>10. r \in Free
  BY <1>4 DEF Readers
<1> QED BY <1>1, <1>2, <1>9, <1>10, ZenonT(40) DEF o

\* A fetch under one lock changes nothing that is seen (CoinAccessor, CoinModifier).
LEMMA AccessCoinKeeps ==
    ASSUME Good, TypeOK', NEW o \in Coins, AccessCoin(o)
    PROVE  Good' /\ Quiet
<1>1. WellFormed(tip) /\ FlagsTell(tip, db) /\ db \in SUBSET Coins
  BY DEF Good, TypeOK, FlagsHold
<1>2. o \notin tip.dirty
  BY DEF AccessCoin, Good, TypeOK, WellFormed
<1>3. tip' = Fetched(tip, o, o \in db)
  BY DEF AccessCoin, Fetched, Emplace
<1>4. FlagsTell(tip', db) /\ Seen(tip', db) = Seen(tip, db) /\ tip'.dirty = tip.dirty
  BY <1>1, <1>2, <1>3, FetchKeepsView
<1>5. TipCoins' = TipCoins
  BY <1>4, ZenonT(40) DEF TipCoins, AccessCoin
<1> QED BY <1>4, <1>5, SameTip DEF AccessCoin, history

\* Nor does dropping clean entries (Trim, Uncache).
LEMMA TrimKeeps ==
    ASSUME Good, TypeOK', NEW os, Trim(os)
    PROVE  Good' /\ Quiet
<1>1. WellFormed(tip) /\ FlagsTell(tip, db) /\ db \in SUBSET Coins
  BY DEF Good, TypeOK, FlagsHold
<1>2. FlagsTell(tip', db) /\ Seen(tip', db) = Seen(tip, db) /\ tip'.dirty = tip.dirty
  BY <1>1, DropCleanKeepsView DEF Trim
<1>3. TipCoins' = TipCoins
  BY <1>2 DEF TipCoins, Trim
<1> QED BY <1>2, <1>3, SameTip DEF Trim, history

\* Any step that only replaces the block's view by one whose flags are true.
LEMMA NewerView ==
    ASSUME Good, TypeOK', FlagsTell(view', TipCoins), Seen(view', TipCoins) = block',
           UNCHANGED <<db, best, tip, fetching, chain, sound>>
    PROVE  /\ Good' /\ TipCoins' = TipCoins /\ ViewCoins' = Seen(view', TipCoins)
           /\ sound' = sound
<1>1. TipCoins' = TipCoins /\ ViewCoins' = Seen(view', TipCoins)
  BY DEF TipCoins, ViewCoins
<1>2. FlagsHold'
  BY <1>1 DEF Good, FlagsHold, FlagsTell
<1>3. FetchesAreCurrent'
  BY DEF Good, FetchesAreCurrent
<1> QED BY <1>1, <1>2, <1>3 DEF Good

\* Nor does a fetch into the block's view from pcoinsTip change anything.
LEMMA ViewFetchKeeps ==
    ASSUME Good, TypeOK', NEW o \in Coins, ViewFetch(o)
    PROVE  Good' /\ Quiet
<1>1. WellFormed(view) /\ FlagsTell(view, TipCoins) /\ TipCoins \in SUBSET Coins
        /\ o \notin view.dirty
  BY SeenAreCoins DEF Good, TypeOK, FlagsHold, ViewFetch, WellFormed
<1>2. o \in tip.unspent <=> o \in TipCoins
  BY DEF ViewFetch, TipCoins, Seen
<1>3. view' = Fetched(view, o, o \in TipCoins)
  BY <1>2, ZenonT(40) DEF ViewFetch, Fetched, Emplace
<1>4. FlagsTell(view', TipCoins) /\ Seen(view', TipCoins) = Seen(view, TipCoins)
  BY <1>1, <1>3, FetchKeepsView
<1>5. Seen(view', TipCoins) = block' /\ Seen(view', TipCoins) = ViewCoins
  BY <1>4 DEF Good, ViewCoins, ViewFetch, history
<1> QED BY <1>4, <1>5, NewerView, ZenonT(40) DEF ViewFetch, Quiet, history

\* The steps of a block, in the terms of UtxoSet.
LEMMA NewViewBegins ==
    ASSUME Good, TypeOK', NewView
    PROVE  Good' /\ U!Begin /\ sound' = sound
<1>1. FlagsTell(view', TipCoins) /\ Seen(view', TipCoins) = TipCoins
  BY SeenAreCoins, EmptyCacheShowsBase DEF NewView, Good
<1>2. ViewCoins = TipCoins
  BY SeenAreCoins, EmptyCacheShowsBase DEF NewView, Good, TypeOK, ViewCoins
<1>3. Seen(view', TipCoins) = block'
  BY <1>1, <1>2 DEF Good, NewView, history
<1> QED BY <1>1, <1>2, <1>3, NewerView, ZenonT(40) DEF NewView, U!Begin, history

\* SpendCoin on the view is a Spend of the set.
LEMMA ViewSpendSpends ==
    ASSUME Good, TypeOK', NEW o \in Coins, ViewSpend(o)
    PROVE  Good' /\ U!Spend(o) /\ sound' = sound
<1>1. WellFormed(view) /\ FlagsTell(view, TipCoins) /\ TipCoins \in SUBSET Coins
  BY SeenAreCoins DEF Good, TypeOK, FlagsHold
<1>2. FlagsTell(view', TipCoins) /\ Seen(view', TipCoins) = Seen(view, TipCoins) \ {o}
  BY <1>1, SpendCoinRemoves DEF ViewSpend
<1>3. Seen(view', TipCoins) = block' /\ Seen(view', TipCoins) = ViewCoins \ {o}
  BY <1>2 DEF Good, ViewCoins, ViewSpend
<1>4. Good' /\ TipCoins' = TipCoins /\ ViewCoins' = ViewCoins \ {o} /\ sound' = sound
  BY <1>2, <1>3, NewerView DEF ViewSpend
<1>5. o \in ViewCoins
  BY DEF ViewSpend, ViewCoins, Seen
<1> QED BY <1>4, <1>5, ZenonT(40) DEF ViewSpend, U!Spend

\* AddCoin on the view is a Create: what the chain does not have the view does not show.
LEMMA ViewAddCreates ==
    ASSUME Good, TypeOK', NEW o \in Coins, NEW overwrite \in BOOLEAN, ViewAdd(o, overwrite)
    PROVE  Good' /\ U!Create(o) /\ sound' = sound
<1>1. WellFormed(view) /\ FlagsTell(view, TipCoins) /\ TipCoins \in SUBSET Coins
  BY SeenAreCoins DEF Good, TypeOK, FlagsHold
<1>2. o \notin Seen(view, TipCoins)
  BY DEF ViewAdd, ViewCoins, Good
<1>3. FlagsTell(view', TipCoins) /\ Seen(view', TipCoins) = Seen(view, TipCoins) \cup {o}
  BY <1>1, <1>2, AddCoinAdds DEF ViewAdd
<1>4. Seen(view', TipCoins) = block' /\ Seen(view', TipCoins) = ViewCoins \cup {o}
  BY <1>3 DEF Good, ViewCoins, ViewAdd
<1>5. Good' /\ TipCoins' = TipCoins /\ ViewCoins' = ViewCoins \cup {o} /\ sound' = sound
  BY <1>3, <1>4, NewerView DEF ViewAdd
<1>6. o \notin ViewCoins
  BY <1>2 DEF ViewCoins
<1> QED BY <1>5, <1>6, ZenonT(40) DEF ViewAdd, U!Create

\* A block that is refused is a Forget.
LEMMA ViewDropForgets ==
    ASSUME Good, TypeOK', ViewDrop
    PROVE  Good' /\ U!Forget /\ sound' = sound
<1>1. FlagsTell(view', TipCoins) /\ Seen(view', TipCoins) = TipCoins
  BY SeenAreCoins, EmptyCacheShowsBase DEF ViewDrop, Good
<1>2. Seen(view', TipCoins) = block'
  BY <1>1 DEF Good, ViewDrop
<1> QED BY <1>1, <1>2, NewerView, ZenonT(40) DEF ViewDrop, U!Forget

\* view.Flush() is an Apply: the set becomes the block's as a whole.  No reader of the
\* corral is between the two halves of a fetch then.
LEMMA ViewFlushApplies ==
    ASSUME Good, TypeOK', ViewFlush
    PROVE  Good' /\ U!Apply /\ sound' = sound
<1>1. WellFormed(tip) /\ FlagsTell(tip, db) /\ db \in SUBSET Coins /\ WellFormed(view)
        /\ FlagsTell(view, Seen(tip, db))
  BY DEF Good, TypeOK, FlagsHold, TipCoins
<1>2. FlagsTell(tip', db) /\ Seen(tip', db) = ViewCoins
  BY <1>1, BatchWriteMoves DEF ViewFlush, ViewCoins, TipCoins
<1>3. TipCoins' = ViewCoins
  BY <1>2 DEF TipCoins, ViewFlush
<1>4. FlagsTell(view', ViewCoins) /\ Seen(view', ViewCoins) = ViewCoins
  BY SeenAreCoins, EmptyCacheShowsBase DEF ViewFlush, Good
<1>5. ViewCoins' = ViewCoins
  BY <1>3, <1>4 DEF ViewCoins
<1>6. FlagsHold'
  BY <1>2, <1>3, <1>4 DEF ViewFlush, FlagsHold, FlagsTell
<1>7. FetchesAreCurrent'
  BY DEF ViewFlush, FetchesAreCurrent
<1>8. db' = best' /\ TipCoins' = chain' /\ ViewCoins' = block'
  BY <1>3, <1>5 DEF ViewFlush, Good
<1> QED BY <1>3, <1>5, <1>6, <1>7, <1>8, ZenonT(40) DEF Good, ViewFlush, U!Apply

\* FlushStateToDisk is a Save: the database becomes what pcoinsTip showed.
LEMMA FlushStateToDiskSaves ==
    ASSUME Good, TypeOK', NEW evict \in BOOLEAN, NEW os, FlushStateToDisk(evict, os)
    PROVE  Good' /\ U!Save /\ sound' = sound
<1> DEFINE t == AfterWrite(tip, evict)
<1>1. WellFormed(tip) /\ FlagsTell(tip, db) /\ db \in SUBSET Coins /\ Seen(tip, db) \in SUBSET Coins
  BY SeenAreCoins DEF Good, TypeOK, FlagsHold, TipCoins
<1>2. db' = TipCoins
  BY <1>1, WriteSaves DEF FlushStateToDisk, TipCoins
<1>3. WellFormed(t) /\ FlagsTell(t, Seen(tip, db))
        /\ Seen(t, Seen(tip, db)) = Seen(tip, db) /\ t.dirty = {}
  BY <1>1, WriteSaves
<1> HIDE DEF t
<1>4. tip' = Without(t, os) /\ os \subseteq Clean(t)
  BY DEF FlushStateToDisk, t
<1>5. FlagsTell(tip', TipCoins) /\ Seen(tip', TipCoins) = TipCoins /\ tip'.dirty = {}
  BY <1>1, <1>3, <1>4, DropCleanKeepsView DEF TipCoins
<1>6. TipCoins' = TipCoins
  BY <1>2, <1>5 DEF TipCoins
<1>7. ViewCoins' = ViewCoins
  BY <1>6 DEF ViewCoins, FlushStateToDisk
<1>8. FlagsHold'
  BY <1>2, <1>5, <1>6 DEF FlushStateToDisk, Good, FlagsHold, FlagsTell
<1>9. FetchesAreCurrent'
  BY <1>1, <1>2, <1>5 DEF FlushStateToDisk, Good, FetchesAreCurrent, TipCoins, Seen, FlagsTell
<1>10. db' = best' /\ TipCoins' = chain' /\ ViewCoins' = block'
  BY <1>2, <1>6, <1>7 DEF FlushStateToDisk, Good, history
<1> QED BY <1>2, <1>6, <1>7, <1>8, <1>9, <1>10, ZenonT(40) DEF Good, U!Save, FlushStateToDisk,
     history

\* A restart shows what the database holds, whatever that is, and can be relied on
\* exactly if that is what DB_BEST_BLOCK says.
LEMMA LoseShowsDb ==
    ASSUME TypeOK', Lose
    PROVE  /\ sound' => Good'
           /\ TipCoins' = db' /\ ViewCoins' = db' /\ building' = FALSE
           /\ db' = best' => sound'
<1> USE DEF Lose
<1>1. FlagsTell(tip', db') /\ Seen(tip', db') = db'
  BY EmptyCacheShowsBase DEF TypeOK
<1>2. TipCoins' = db'
  BY <1>1 DEF TipCoins
<1>3. FlagsTell(view', db') /\ ViewCoins' = db'
  BY <1>2, EmptyCacheShowsBase DEF ViewCoins, TypeOK
<1>4. FlagsHold'
  BY <1>1, <1>2, <1>3 DEF FlagsHold, FlagsTell
<1>5. FetchesAreCurrent'
  BY DEF FetchesAreCurrent, Readers
<1>6. sound' => Good'
  BY <1>2, <1>3, <1>4, <1>5, ZenonT(40) DEF Good
<1>7. db' = best' => sound'
  BY ZenonT(40)
<1> QED BY <1>2, <1>3, <1>6, <1>7

\* A crash outside of a flush is a Restart: the set becomes what was saved.
LEMMA CrashRestarts ==
    ASSUME Good, TypeOK', Crash
    PROVE  sound' /\ Good' /\ U!Restart
<1>1. db' = db /\ db' = best' /\ Lose
  BY DEF Good, Crash
<1> QED BY <1>1, LoseShowsDb, ZenonT(40) DEF U!Restart

\* A crash inside CCoinsViewDB::BatchWrite is a Tear: each outpoint is in the database as
\* it was there or as pcoinsTip showed it.  It does no harm before the first write and
\* after the last.
LEMMA CrashInFlushTears ==
    ASSUME Good, TypeOK', NEW os, NEW bestWritten \in BOOLEAN,
           CrashWhileFlushing(os, bestWritten)
    PROVE  /\ sound' => Good'
           /\ U!Tear
           /\ ~sound' => (os # {} \/ bestWritten) /\ (os # tip.dirty \/ ~bestWritten)
<1>1. WellFormed(tip) /\ db \in SUBSET Coins /\ os \subseteq tip.dirty /\ FlagsTell(tip, db)
        /\ Lose
  BY DEF Good, TypeOK, FlagsHold, CrashWhileFlushing
<1>2. db' \subseteq db \cup TipCoins /\ db \cap TipCoins \subseteq db'
  BY <1>1 DEF CrashWhileFlushing, Written, TipCoins, Seen, WellFormed, Caches
<1>3. (sound' => Good') /\ TipCoins' = db' /\ ViewCoins' = db' /\ building' = FALSE
        /\ (db' = best' => sound')
  BY <1>1, LoseShowsDb, ZenonT(40)
<1>4. U!Tear
  BY <1>2, <1>3, ZenonT(40) DEF U!Tear, TypeOK
<1>5. CASE os = {} /\ ~bestWritten
  <2>1. db' = db /\ best' = best
    BY <1>5 DEF CrashWhileFlushing, Written
  <2>2. sound'
    BY <1>3, <2>1, ZenonT(40) DEF Good
  <2> QED BY <1>3, <1>4, <2>2, ZenonT(40)
<1>6. CASE os = tip.dirty /\ bestWritten
  <2>1. db' = TipCoins /\ best' = chain
    <3>1. Written(db, tip, tip.dirty) = Seen(tip, db)
      BY <1>1, WriteSaves, TRUE \in BOOLEAN, ZenonT(40)
    <3> QED BY <1>6, <3>1, ZenonT(40) DEF CrashWhileFlushing, TipCoins
  <2>2. sound'
    BY <1>3, <2>1, ZenonT(40) DEF Good
  <2> QED BY <1>3, <1>4, <2>2, ZenonT(40)
<1> QED BY <1>3, <1>4, <1>5, <1>6, ZenonT(40)

\* The invariant holds at the start and the start is one of UtxoSet (CoinsInit).
LEMMA InitHolds == CoinsInit => CoinsInv /\ U!UtxoInit
<1> SUFFICES ASSUME CoinsInit PROVE CoinsInv /\ U!UtxoInit
  OBVIOUS
<1> USE GenesisAreCoins DEF CoinsInit
<1>1. TipCoins = Genesis /\ ViewCoins = Genesis
  BY DEF TipCoins, ViewCoins, Seen, EmptyCache
<1>2. TypeOK
  BY ZenonT(40) DEF TypeOK, WellFormed, Caches, EmptyCache
<1>3. FlagsHold /\ FetchesAreCurrent
  BY DEF FlagsHold, FlagsTell, FetchesAreCurrent, EmptyCache, Readers
<1> QED BY <1>1, <1>2, <1>3, ZenonT(40) DEF CoinsInv, Good, U!UtxoInit

\* What is to be shown of a step.
StepIsRight == (sound' => Good') /\ [U!UtxoNext]_(U!utxoVars) /\ Harmless

\* A step that changes nothing that is seen is right.
LEMMA QuietIsRight ==
    ASSUME Good', Quiet, sound
    PROVE  StepIsRight
  BY ZenonT(40) DEF Quiet, StepIsRight, Harmless, U!utxoVars

\* Every step from a state in which the views can be relied on.
LEMMA SoundStep ==
    ASSUME Good, sound, TypeOK', [CoinsNext]_coinsVars
    PROVE  StepIsRight
<1>1. ASSUME NEW r \in Readers, FetchInsert(r) PROVE StepIsRight
  <2>1. CASE sound'
    BY <1>1, <2>1, FetchInsertKeeps, QuietIsRight, ZenonT(40)
  <2>2. CASE ~sound'
    BY <1>1, <2>2, FetchInsertRevives, ZenonT(40) DEF StepIsRight, Harmless, U!UtxoNext
  <2> QED BY <2>1, <2>2
<1>2. CASE \E r \in Readers, o \in Coins : FetchMiss(r, o)
  BY <1>2, FetchMissKeeps, QuietIsRight, ZenonT(40)
<1>3. CASE \E o \in Coins : AccessCoin(o)
  BY <1>3, AccessCoinKeeps, QuietIsRight, ZenonT(40)
<1>4. CASE \E o \in Coins : Uncache(o)
  <2>1. \E os : Trim(os)
    BY <1>4 DEF Uncache, Trim
  <2> QED BY <2>1, TrimKeeps, QuietIsRight, ZenonT(40)
<1>5. CASE \E o \in Coins : ViewFetch(o)
  BY <1>5, ViewFetchKeeps, QuietIsRight, ZenonT(40)
<1> USE DEF StepIsRight, Harmless, U!UtxoNext
<1>6. CASE \E o \in Coins : ViewSpend(o)
  BY <1>6, ViewSpendSpends, ZenonT(40)
<1>7. CASE \E o \in Coins, overwrite \in BOOLEAN : ViewAdd(o, overwrite)
  BY <1>7, ViewAddCreates, ZenonT(40)
<1>8. CASE NewView
  BY <1>8, NewViewBegins, ZenonT(40)
<1>9. CASE ViewFlush
  BY <1>9, ViewFlushApplies, ZenonT(40)
<1>10. CASE ViewDrop
  BY <1>10, ViewDropForgets, ZenonT(40)
<1>11. CASE Crash
  BY <1>11, CrashRestarts, ZenonT(40)
<1>12. CASE \E os \in SUBSET Coins : Trim(os)
  BY <1>12, TrimKeeps, QuietIsRight, ZenonT(40)
<1>13. CASE \E os \in SUBSET Coins, evict \in BOOLEAN : FlushStateToDisk(evict, os)
  BY <1>13, FlushStateToDiskSaves, ZenonT(40)
<1>14. ASSUME NEW os \in SUBSET Coins, NEW bestWritten \in BOOLEAN,
              CrashWhileFlushing(os, bestWritten)
       PROVE  StepIsRight
  <2>1. os \in SUBSET tip.dirty
    BY <1>14 DEF CrashWhileFlushing
  <2> QED BY <1>14, <2>1, CrashInFlushTears, ZenonT(40)
<1>15. CASE UNCHANGED coinsVars
  <2>1. Good'
    BY <1>15 DEF coinsVars, Good, FlagsHold, FlagsTell, TipCoins, ViewCoins, Seen,
       FetchesAreCurrent
  <2>2. Quiet
    BY <1>15 DEF coinsVars, Quiet, TipCoins, ViewCoins
  <2> QED BY <2>1, <2>2, QuietIsRight, ZenonT(40)
<1> QED
  BY <1>1, <1>2, <1>3, <1>4, <1>5, <1>6, <1>7, <1>8, <1>9, <1>10, <1>11, <1>12, <1>13,
     <1>14, <1>15, ZenonT(40) DEF CoinsNext

\* Every step from a state in which they cannot: only a restart changes that.
LEMMA DamagedStep ==
    ASSUME TypeOK, ~sound, TypeOK', [CoinsNext]_coinsVars
    PROVE  StepIsRight
<1> USE DEF StepIsRight, Harmless, U!UtxoNext, U!Damaged
<1>1. CASE Lose
  BY <1>1, LoseShowsDb, ZenonT(40)
<1>2. CASE ~sound'
  BY <1>2, ZenonT(40)
<1>3. Lose \/ ~sound'
  BY ZenonT(40) DEF CoinsNext, coinsVars, history, FetchInsert, FetchMiss, AccessCoin, Uncache,
     ViewFetch, ViewSpend, ViewAdd, NewView, ViewFlush, ViewDrop, Crash, Trim,
     FlushStateToDisk, CrashWhileFlushing
<1> QED BY <1>1, <1>2, <1>3

\* Every step keeps the invariant, is a step of UtxoSet or changes nothing there, and does
\* no harm but for the two ways of Harmless.
LEMMA StepHolds ==
    ASSUME CoinsInv, [CoinsNext]_coinsVars
    PROVE  CoinsInv' /\ [U!UtxoNext]_(U!utxoVars) /\ Harmless
<1>1. TypeOK'
  BY TypeStep DEF CoinsInv
<1>2. StepIsRight
  BY <1>1, SoundStep, DamagedStep, ZenonT(40) DEF CoinsInv
<1> QED BY <1>1, <1>2, ZenonT(40) DEF CoinsInv, StepIsRight

----------------------------------------------------------------------------
\* Whoever reads coins and wherever the process dies, the invariant of the proof holds:
\* while the views can be relied on, the flags are true, the fetches of the corral are
\* current and every layer shows the coins it should.
THEOREM CoinsInductive == CoinsSpec => []CoinsInv
<1>1. CoinsInv /\ [CoinsNext]_coinsVars => CoinsInv'
  BY StepHolds
<1> QED BY <1>1, InitHolds, PTL DEF CoinsSpec

\* coins.h's two sentences on DIRTY and FRESH hold of pcoinsTip over the database and of
\* a block's view over pcoinsTip, while the views can be relied on.
THEOREM FlagsStayTrue == CoinsSpec => []FlagsAreTrue
<1>1. CoinsInv => FlagsAreTrue
  BY DEF CoinsInv, Good, FlagsAreTrue
<1> QED BY <1>1, CoinsInductive, PTL

\* The database, pcoinsTip and the view of a block show the coins of DB_BEST_BLOCK, of the
\* active chain and of the chain with the block so far, while they can be relied on.
THEOREM CoinsStayOfTheChain == CoinsSpec => []CoinsAreOfTheChain
<1>1. CoinsInv => CoinsAreOfTheChain
  BY DEF CoinsInv, Good, CoinsAreOfTheChain
<1> QED BY <1>1, CoinsInductive, PTL

\* CCoinsViewCache::BatchWrite does not throw its logic_error while the views can be
\* relied on.
THEOREM NoMisappliedFresh == CoinsSpec => []FreshIsNeverMisapplied
<1>1. CoinsInv => FreshIsNeverMisapplied
  BY BatchWriteMoves DEF CoinsInv, Good, TypeOK, FlagsHold, TipCoins, FreshIsNeverMisapplied
<1> QED BY <1>1, CoinsInductive, PTL

\* They can be relied on until a thread outside of the corral emplaces a coin that was
\* spent since it read it, or the process dies with part of a flush to disk written.
THEOREM OnlyTwoThingsHarm == CoinsSpec => OnlyFreeFetchesAndTornFlushesHarm
<1>1. CoinsInv /\ [CoinsNext]_coinsVars => [Harmless]_coinsVars
  BY StepHolds
<1> QED BY <1>1, CoinsInductive, PTL DEF CoinsSpec, OnlyFreeFetchesAndTornFlushesHarm

\* The database, pcoinsTip and a block's view implement one set of unspent outputs.
THEOREM CoinsCacheImplementsUtxoSet == CoinsSpec => ImplementsUtxoSet
<1>1. CoinsInv /\ [CoinsNext]_coinsVars => [U!UtxoNext]_(U!utxoVars)
  BY StepHolds
<1>2. CoinsInit => U!UtxoInit
  BY InitHolds
<1> QED BY <1>1, <1>2, CoinsInductive, PTL DEF CoinsSpec, ImplementsUtxoSet, U!UtxoSpec
=============================================================================
