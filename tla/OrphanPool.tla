----------------------------- MODULE OrphanPool -----------------------------
(***************************************************************************)
(* CTxOrphanPool (txorphanpool.cpp): the transactions with missing inputs  *)
(* (mapOrphans, indexed by the outputs they wait for) and those that are   *)
(* not final yet (mapNonFinals), with one count of bytes for both.         *)
(*                                                                         *)
(* Every operation holds cs_orphanpool for writing and is one step, except *)
(* LimitPoolSize: each turn of its two loops is a step with the lock held, *)
(* because whether the loops end is a question of its own.                 *)
(***************************************************************************)
EXTENDS Integers, FiniteSets

CONSTANTS
    Txs,            \* the transactions
    Prevs,          \* Prevs[t]: the outputs the inputs of t refer to
    Size,           \* Size[t]: the memory t takes up
    Oversize,       \* transactions larger than MAX_STANDARD_TX_SIZE
    Timelocked,     \* transactions that admission may find not to be final
    MaxItems,       \* maxOrphanPool
    MaxBytes,       \* a tenth of maxTxPool
    Expiry,         \* orphanPoolExpiry
    CheckInterval,  \* the time between two searches for expired transactions
    MaxTime         \* bound on the clock

ASSUME OrphanPoolAssumption ==
    /\ Prevs \in [Txs -> SUBSET UNION {Prevs[t] : t \in Txs}]
    /\ Size \in [Txs -> Nat \ {0}]
    /\ Oversize \subseteq Txs /\ Timelocked \subseteq Txs
    /\ {MaxItems, MaxBytes, Expiry, CheckInterval, MaxTime} \subseteq Nat

VARIABLES
    mapOrphans,         \* mapOrphans[t]: when t was stored
    mapOrphansByPrev,   \* mapOrphansByPrev[h]: the orphans with an input h
    mapNonFinals,       \* mapNonFinals[t]: when t was stored
    nPoolBytes,
    limiting,           \* the loop of LimitPoolSize that runs, or "no"
    nLastOrphanCheck,
    now                 \* GetTime()

vars == <<mapOrphans, mapOrphansByPrev, mapNonFinals, nPoolBytes, limiting,
          nLastOrphanCheck, now>>
poolVars == <<mapOrphans, mapOrphansByPrev, mapNonFinals, nPoolBytes>>

NoEntries == [t \in {} |-> 0]

Orphans == DOMAIN mapOrphans
NonFinals == DOMAIN mapNonFinals

\* The memory that the transactions in S take up: the sum of their sizes, as
\* the number of their bytes.
BytesOf(S) == UNION {{t} \X (1 .. Size[t]) : t \in S}
Bytes(S) == Cardinality(BytesOf(S))

\* f without the keys in S.
Without(f, S) == [k \in DOMAIN f \ S |-> f[k]]

Init ==
    /\ mapOrphans = NoEntries
    /\ mapOrphansByPrev = NoEntries
    /\ mapNonFinals = NoEntries
    /\ nPoolBytes = 0
    /\ limiting = "no"
    /\ nLastOrphanCheck = 0
    /\ now = 0
-----------------------------------------------------------------------------
\* The orphans that an index b lists under h.
Listed(b, h) == IF h \in DOMAIN b THEN b[h] ELSE {}

AddOrphanTx(t) ==
    IF t \in Orphans \/ t \in Oversize
    THEN UNCHANGED poolVars
    ELSE /\ mapOrphans' = [u \in Orphans \cup {t} |-> IF u = t THEN now ELSE mapOrphans[u]]
         /\ mapOrphansByPrev' =
                [h \in DOMAIN mapOrphansByPrev \cup Prevs[t] |->
                    Listed(mapOrphansByPrev, h) \cup (IF h \in Prevs[t] THEN {t} ELSE {})]
         /\ nPoolBytes' = nPoolBytes + Size[t]
         /\ UNCHANGED mapNonFinals

AddNonFinalTx(t) ==
    IF t \in NonFinals \/ t \in Oversize
    THEN UNCHANGED poolVars
    ELSE /\ mapNonFinals' = [u \in NonFinals \cup {t} |-> IF u = t THEN now ELSE mapNonFinals[u]]
         /\ nPoolBytes' = nPoolBytes + Size[t]
         /\ UNCHANGED <<mapOrphans, mapOrphansByPrev>>

\* Mutants of Erase: the index keeps the erased transactions; the bytes of the
\* non-finals are not taken off.
Erase_KeepsIndex(O, N) ==
    /\ mapOrphans' = Without(mapOrphans, O)
    /\ mapNonFinals' = Without(mapNonFinals, N)
    /\ nPoolBytes' = nPoolBytes - Bytes(O \cap Orphans) - Bytes(N \cap NonFinals)
    /\ UNCHANGED mapOrphansByPrev
Erase_KeepsBytes(O, N) ==
    LET gone == O \cap Orphans
        left == [h \in DOMAIN mapOrphansByPrev |->
                    mapOrphansByPrev[h] \ {t \in gone : h \in Prevs[t]}]
    IN  /\ mapOrphans' = Without(mapOrphans, gone)
        /\ mapOrphansByPrev' = Without(left, {h \in DOMAIN left : left[h] = {}})
        /\ mapNonFinals' = Without(mapNonFinals, N)
        /\ nPoolBytes' = nPoolBytes - Bytes(gone)

\* EraseOrphanTx for each transaction in O and EraseNonFinalTx for each in N;
\* what is not there is passed over, an index entry that gets empty goes.
Erase(O, N) ==
    LET gone == O \cap Orphans
        left == [h \in DOMAIN mapOrphansByPrev |->
                    mapOrphansByPrev[h] \ {t \in gone : h \in Prevs[t]}]
    IN  /\ mapOrphans' = Without(mapOrphans, gone)
        /\ mapOrphansByPrev' = Without(left, {h \in DOMAIN left : left[h] = {}})
        /\ mapNonFinals' = Without(mapNonFinals, N)
        /\ nPoolBytes' = nPoolBytes - Bytes(gone) - Bytes(N \cap NonFinals)
-----------------------------------------------------------------------------
\* An admission thread stores a transaction and then limits the pool, all
\* under one lock.
Store(t) ==
    /\ limiting = "no"
    /\ \/ AddOrphanTx(t)
       \/ t \in Timelocked /\ AddNonFinalTx(t)
    /\ limiting' = "orphans"
    /\ UNCHANGED <<nLastOrphanCheck, now>>

\* sendrawtransaction with alloworphans: stored, but the pool is not limited.
StoreByRpc(t) ==
    /\ limiting = "no"
    /\ AddOrphanTx(t)
    /\ UNCHANGED <<limiting, nLastOrphanCheck, now>>

\* Mutants of LimitOrphans: the bytes are not looked at; the transaction is
\* looked for among the non-finals.
LimitOrphans_ItemsOnly ==
    /\ limiting = "orphans"
    /\ IF Cardinality(Orphans) > MaxItems
       THEN \E t \in Orphans : Erase({t}, {}) /\ UNCHANGED limiting
       ELSE limiting' = "nonfinals" /\ UNCHANGED poolVars
    /\ UNCHANGED <<nLastOrphanCheck, now>>
LimitOrphans_OtherMap ==
    /\ limiting = "orphans"
    /\ IF (Cardinality(Orphans) > MaxItems \/ nPoolBytes > MaxBytes) /\ Orphans # {}
       THEN \E t \in Orphans : Erase({}, {t}) /\ UNCHANGED limiting
       ELSE limiting' = "nonfinals" /\ UNCHANGED poolVars
    /\ UNCHANGED <<nLastOrphanCheck, now>>

\* The first loop of LimitPoolSize evicts a random orphan.
LimitOrphans ==
    /\ limiting = "orphans"
    /\ IF (Cardinality(Orphans) > MaxItems \/ nPoolBytes > MaxBytes) /\ Orphans # {}
       THEN \E t \in Orphans : Erase({t}, {}) /\ UNCHANGED limiting
       ELSE limiting' = "nonfinals" /\ UNCHANGED poolVars
    /\ UNCHANGED <<nLastOrphanCheck, now>>

\* The second loop picks a random non-final and calls EraseOrphanTx with it.
LimitNonFinals ==
    /\ limiting = "nonfinals"
    /\ IF (Cardinality(NonFinals) > MaxItems \/ nPoolBytes > MaxBytes) /\ NonFinals # {}
       THEN \E t \in NonFinals : Erase({t}, {}) /\ UNCHANGED limiting
       ELSE limiting' = "no" /\ UNCHANGED poolVars
    /\ UNCHANGED <<nLastOrphanCheck, now>>

\* EraseByTime, at most once in CheckInterval.
EraseByTime ==
    /\ limiting = "no"
    /\ now >= nLastOrphanCheck + CheckInterval
    /\ nLastOrphanCheck' = now
    /\ LET cutoff == now - Expiry
       IN  Erase({t \in Orphans : mapOrphans[t] < cutoff},
                 {t \in NonFinals : mapNonFinals[t] < cutoff})
    /\ UNCHANGED <<limiting, now>>

\* RemoveForBlock, and ProcessOrphans when it takes transactions out of the
\* pool to have them admitted.
RemoveForBlock(b) ==
    /\ limiting = "no"
    /\ Erase(b, b)
    /\ UNCHANGED <<limiting, nLastOrphanCheck, now>>

clear ==
    /\ limiting = "no"
    /\ mapOrphans' = NoEntries
    /\ mapOrphansByPrev' = NoEntries
    /\ mapNonFinals' = NoEntries
    /\ nPoolBytes' = 0
    /\ UNCHANGED <<limiting, nLastOrphanCheck, now>>

Tick ==
    /\ now < MaxTime
    /\ now' = now + 1
    /\ UNCHANGED <<poolVars, limiting, nLastOrphanCheck>>

Next ==
    \/ \E t \in Txs : Store(t) \/ StoreByRpc(t)
    \/ LimitOrphans \/ LimitNonFinals
    \/ EraseByTime
    \/ \E b \in SUBSET Txs : RemoveForBlock(b)
    \/ clear \/ Tick

Spec == Init /\ [][Next]_vars

\* A thread that is in LimitPoolSize goes on.
FairSpec == Spec /\ WF_vars(LimitOrphans \/ LimitNonFinals)
-----------------------------------------------------------------------------
\* Type correctness.
TypeOK ==
    /\ Orphans \subseteq Txs \ Oversize /\ NonFinals \subseteq Txs \ Oversize
    /\ \A t \in Orphans : mapOrphans[t] \in 0 .. now
    /\ \A t \in NonFinals : mapNonFinals[t] \in 0 .. now
    /\ nPoolBytes \in Nat
    /\ limiting \in {"no", "orphans", "nonfinals"}
    /\ nLastOrphanCheck \in 0 .. now

\* "Current in memory footprint of all txns in the overall pool of orphans and
\* non-finals": nPoolBytes is that sum after any sequence of insertions,
\* evictions, expiries and blocks.  It is unsigned: one byte too much taken off
\* would make the pool look full for ever.
BytesAreExact == nPoolBytes = Bytes(Orphans) + Bytes(NonFinals)

\* mapOrphansByPrev finds an orphan by each of its inputs, and finds nothing
\* else; ProcessOrphans sees the orphan pool only through it.
IndexIsExact ==
    /\ DOMAIN mapOrphansByPrev = UNION {Prevs[t] : t \in Orphans}
    /\ \A h \in DOMAIN mapOrphansByPrev :
          mapOrphansByPrev[h] = {t \in Orphans : h \in Prevs[t]}

\* When LimitPoolSize returns, both the number of transactions and the bytes
\* are within the limits.
LimitHolds ==
    [][limiting = "nonfinals" /\ limiting' = "no" =>
          /\ Cardinality(Orphans) <= MaxItems
          /\ Cardinality(NonFinals) <= MaxItems
          /\ nPoolBytes <= MaxBytes \/ Orphans \cup NonFinals = {}]_vars

\* txorphanpool.h: "Limit the pool size by either number of transactions
\* (items) or max bytes allowed."  LimitPoolSize evicts until the limits hold
\* and returns.
LimitReturns == limiting # "no" ~> limiting = "no"
=============================================================================
