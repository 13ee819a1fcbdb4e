-------------------------- MODULE OrphanPoolProofs --------------------------
(***************************************************************************)
(* Three results on the orphan pool, for every set of transactions with    *)
(* any sizes, and for every limit.                                         *)
(*                                                                         *)
(* IndexIsExact is inductive by itself: an insertion writes the            *)
(* transaction under each of its inputs, and each of the ways out of the   *)
(* pool goes through Erase or clears both maps.                            *)
(*                                                                         *)
(* BytesAreExact needs that what is counted is finite (Counted), since the *)
(* bytes of a set are the cardinality of a set of numbered bytes; then an  *)
(* insertion adds the bytes of one transaction and an erasure takes off    *)
(* those of what was there.                                                *)
(*                                                                         *)
(* LimitHolds needs what the first loop of LimitPoolSize has established   *)
(* while the second one runs (OrphansLimited).                             *)
(***************************************************************************)
EXTENDS OrphanPool, FiniteSetTheorems, TLAPS

\* The prover of the leaves that name no other.
USE SMTT(40)

\* The index is as IndexIsExact says after the steps of AddOrphanTx.
LEMMA AddKeepsIndex ==
    ASSUME IndexIsExact, NEW t \in Txs, AddOrphanTx(t)
    PROVE  IndexIsExact'
<1>1. CASE UNCHANGED poolVars
    BY <1>1 DEF IndexIsExact, Orphans, poolVars
<1>2. CASE ~(t \in Orphans \/ t \in Oversize)
    <2>1. DOMAIN mapOrphans' = Orphans \cup {t}
        BY <1>2 DEF AddOrphanTx
    <2>2. mapOrphansByPrev' =
            [h \in DOMAIN mapOrphansByPrev \cup Prevs[t] |->
                Listed(mapOrphansByPrev, h) \cup (IF h \in Prevs[t] THEN {t} ELSE {})]
        BY <1>2 DEF AddOrphanTx
    <2>3. \A h : Listed(mapOrphansByPrev, h) = {u \in Orphans : h \in Prevs[u]}
        BY DEF IndexIsExact, Listed
    <2>4. DOMAIN mapOrphansByPrev' = UNION {Prevs[u] : u \in Orphans \cup {t}}
        BY <2>2 DEF IndexIsExact
    <2>5. ASSUME NEW h \in DOMAIN mapOrphansByPrev'
          PROVE  mapOrphansByPrev'[h] = {u \in Orphans \cup {t} : h \in Prevs[u]}
        BY <2>2, <2>3, <2>5
    <2> QED
        BY <2>1, <2>4, <2>5 DEF IndexIsExact, Orphans
<1> QED
    BY <1>1, <1>2 DEF AddOrphanTx

\* ... and after any Erase: what is taken out of mapOrphans is taken out of the
\* index, and an entry that gets empty goes.
LEMMA EraseKeepsIndex ==
    ASSUME IndexIsExact, NEW O, NEW N, Erase(O, N)
    PROVE  IndexIsExact'
<1> DEFINE gone == O \cap Orphans
           left == [h \in DOMAIN mapOrphansByPrev |->
                       mapOrphansByPrev[h] \ {t \in gone : h \in Prevs[t]}]
<1>1. /\ mapOrphans' = Without(mapOrphans, gone)
      /\ mapOrphansByPrev' = Without(left, {h \in DOMAIN left : left[h] = {}})
    BY DEF Erase
<1>2. DOMAIN mapOrphans' = Orphans \ gone
    BY <1>1 DEF Without, Orphans
<1>3. \A h \in DOMAIN mapOrphansByPrev :
        left[h] = {t \in Orphans \ gone : h \in Prevs[t]}
    BY DEF IndexIsExact
<1>4. /\ DOMAIN mapOrphansByPrev' = {h \in DOMAIN mapOrphansByPrev : left[h] # {}}
      /\ \A h \in DOMAIN mapOrphansByPrev' : mapOrphansByPrev'[h] = left[h]
    BY <1>1, ZenonT(30) DEF Without
<1>5. DOMAIN mapOrphansByPrev' = UNION {Prevs[t] : t \in Orphans \ gone}
    <2>1. \A h \in DOMAIN mapOrphansByPrev :
            left[h] # {} <=> \E t \in Orphans \ gone : h \in Prevs[t]
        BY <1>3
    <2>2. \A t \in Orphans : Prevs[t] \subseteq DOMAIN mapOrphansByPrev
        BY DEF IndexIsExact
    <2> HIDE DEF gone, left
    <2> QED
        BY <1>4, <2>1, <2>2
<1> HIDE DEF gone, left
<1>6. \A h \in DOMAIN mapOrphansByPrev' :
        mapOrphansByPrev'[h] = {t \in Orphans \ gone : h \in Prevs[t]}
    BY <1>3, <1>4
<1> QED
    BY <1>2, <1>5, <1>6 DEF IndexIsExact, Orphans

\* mapOrphansByPrev finds each orphan by each of its inputs and nothing else,
\* whichever of the five ways (age, limit, block, parent found, clear) the
\* others left by.
THEOREM IndexStaysExact == Spec => []IndexIsExact
<1>1. Init => IndexIsExact
    BY DEF Init, IndexIsExact, NoEntries, Orphans
<1>2. IndexIsExact /\ [Next]_vars => IndexIsExact'
    <2> SUFFICES ASSUME IndexIsExact, [Next]_vars
                 PROVE  IndexIsExact'
        OBVIOUS
    <2>0. ASSUME UNCHANGED <<mapOrphans, mapOrphansByPrev>>
          PROVE  IndexIsExact'
        BY <2>0 DEF IndexIsExact, Orphans
    <2>1. ASSUME NEW t \in Txs, Store(t)
          PROVE  IndexIsExact'
        BY <2>0, <2>1, AddKeepsIndex DEF Store, AddNonFinalTx, poolVars
    <2>2. ASSUME NEW t \in Txs, StoreByRpc(t)
          PROVE  IndexIsExact'
        BY <2>2, AddKeepsIndex DEF StoreByRpc
    <2>3. CASE LimitOrphans
        BY <2>0, <2>3, EraseKeepsIndex, ZenonT(30) DEF LimitOrphans, poolVars
    <2>4. CASE LimitNonFinals
        BY <2>0, <2>4, EraseKeepsIndex, ZenonT(30) DEF LimitNonFinals, poolVars
    <2>5. CASE EraseByTime
        BY <2>5, EraseKeepsIndex DEF EraseByTime
    <2>6. ASSUME NEW b \in SUBSET Txs, RemoveForBlock(b)
          PROVE  IndexIsExact'
        BY <2>6, EraseKeepsIndex DEF RemoveForBlock
    <2>7. CASE clear
        BY <2>7 DEF clear, IndexIsExact, NoEntries, Orphans
    <2>8. CASE Tick \/ UNCHANGED vars
        BY <2>0, <2>8 DEF Tick, poolVars, vars
    <2> QED
        BY <2>1, <2>2, <2>3, <2>4, <2>5, <2>6, <2>7, <2>8 DEF Next
<1> QED
    BY <1>1, <1>2, PTL DEF Spec
-----------------------------------------------------------------------------
\* The bytes of a set of transactions, and of the part of it that is erased.
LEMMA BytesOfParts ==
    /\ \A S, T : BytesOf(S \cup T) = BytesOf(S) \cup BytesOf(T)
    /\ \A S, T : S \cap T = {} => BytesOf(S) \cap BytesOf(T) = {}
    /\ BytesOf({}) = {}
<1>1. \A S : BytesOf(S) = UNION {{t} \X (1 .. Size[t]) : t \in S}
    BY DEF BytesOf
<1>2. ASSUME NEW S, NEW e
      PROVE  e \in BytesOf(S) <=> \E t \in S : e \in {t} \X (1 .. Size[t])
    BY <1>1
<1>3. ASSUME NEW S, NEW T, S \cap T = {}, NEW e, e \in BytesOf(S), e \in BytesOf(T)
      PROVE  FALSE
    BY <1>2, <1>3
<1>4. \A S, T : BytesOf(S \cup T) = BytesOf(S) \cup BytesOf(T)
    BY <1>2
<1> QED
    BY <1>2, <1>3, <1>4

LEMMA DisjointUnion ==
    ASSUME NEW A, NEW B, IsFiniteSet(A), IsFiniteSet(B), A \cap B = {}
    PROVE  IsFiniteSet(A \cup B) /\ Cardinality(A \cup B) = Cardinality(A) + Cardinality(B)
<1>1. /\ IsFiniteSet(A \cup B)
      /\ Cardinality(A \cup B) = Cardinality(A) + Cardinality(B) - Cardinality(A \cap B)
    BY FS_Union
<1>2. Cardinality(A \cap B) = 0
    BY FS_EmptySet, Zenon
<1>3. Cardinality(A) \in Nat /\ Cardinality(B) \in Nat
    BY FS_CardinalityType
<1> QED
    BY <1>1, <1>2, <1>3

LEMMA BytesOfOne ==
    ASSUME NEW t \in Txs
    PROVE  IsFiniteSet(BytesOf({t})) /\ Bytes({t}) = Size[t]
<1>1. Size[t] \in Nat \ {0}
    BY OrphanPoolAssumption
<1>2. BytesOf({t}) = {t} \X (1 .. Size[t])
    BY DEF BytesOf
<1>3. IsFiniteSet({t}) /\ Cardinality({t}) = 1
    BY FS_Singleton
<1>4. IsFiniteSet(1 .. Size[t]) /\ Cardinality(1 .. Size[t]) = Size[t]
    <2>1. 1 \in Int /\ Size[t] \in Int /\ ~(1 > Size[t]) /\ Size[t] - 1 + 1 = Size[t]
        BY <1>1, SMTT(60)
    <2>2. /\ IsFiniteSet(1 .. Size[t])
          /\ Cardinality(1 .. Size[t]) = IF 1 > Size[t] THEN 0 ELSE Size[t] - 1 + 1
        BY <2>1, FS_Interval, ZenonT(60)
    <2> QED
        BY <2>1, <2>2, ZenonT(60)
<1>5. /\ IsFiniteSet({t} \X (1 .. Size[t]))
      /\ Cardinality({t} \X (1 .. Size[t])) = 1 * Size[t]
    BY <1>3, <1>4, FS_Product, ZenonT(40)
<1>6. 1 * Size[t] = Size[t]
    BY <1>1
<1> QED
    BY <1>2, <1>5, <1>6, Zenon DEF Bytes

LEMMA BytesAdd ==
    ASSUME NEW S, NEW t \in Txs, IsFiniteSet(BytesOf(S)), t \notin S
    PROVE  /\ IsFiniteSet(BytesOf(S \cup {t}))
           /\ Bytes(S \cup {t}) = Bytes(S) + Size[t]
<1>1. /\ BytesOf(S \cup {t}) = BytesOf(S) \cup BytesOf({t})
      /\ BytesOf(S) \cap BytesOf({t}) = {}
    BY BytesOfParts
<1>2. IsFiniteSet(BytesOf({t})) /\ Bytes({t}) = Size[t]
    BY BytesOfOne
<1> QED
    BY <1>1, <1>2, DisjointUnion, ZenonT(40) DEF Bytes

LEMMA BytesErase ==
    ASSUME NEW S, NEW T, IsFiniteSet(BytesOf(S))
    PROVE  /\ IsFiniteSet(BytesOf(S \ T))
           /\ Bytes(S \ T) = Bytes(S) - Bytes(T \cap S)
           /\ Bytes(S) \in Nat /\ Bytes(S \ T) \in Nat /\ Bytes(T \cap S) \in Nat
<1>1. S = (S \ T) \cup (T \cap S) /\ (S \ T) \cap (T \cap S) = {}
    OBVIOUS
<1>2. /\ BytesOf(S) = BytesOf(S \ T) \cup BytesOf(T \cap S)
      /\ BytesOf(S \ T) \cap BytesOf(T \cap S) = {}
    BY <1>1, BytesOfParts
<1>3. IsFiniteSet(BytesOf(S \ T)) /\ IsFiniteSet(BytesOf(T \cap S))
    BY <1>2, FS_Subset, ZenonT(20)
<1>4. Bytes(S) \in Nat /\ Bytes(S \ T) \in Nat /\ Bytes(T \cap S) \in Nat
    BY <1>3, FS_CardinalityType DEF Bytes
<1>5. Bytes(S) = Bytes(S \ T) + Bytes(T \cap S)
    BY <1>2, <1>3, DisjointUnion, Zenon DEF Bytes
<1> QED
    BY <1>3, <1>4, <1>5

\* The maps are finite, and so are the bytes counted.
Counted ==
    /\ IsFiniteSet(Orphans) /\ IsFiniteSet(NonFinals)
    /\ IsFiniteSet(BytesOf(Orphans)) /\ IsFiniteSet(BytesOf(NonFinals))
    /\ BytesAreExact

LEMMA CountedInNat ==
    ASSUME Counted
    PROVE  /\ Bytes(Orphans) \in Nat /\ Bytes(NonFinals) \in Nat /\ nPoolBytes \in Nat
           /\ Cardinality(Orphans) \in Nat /\ Cardinality(NonFinals) \in Nat
<1>1. Bytes(Orphans) \in Nat /\ Bytes(NonFinals) \in Nat
    BY FS_CardinalityType DEF Counted, Bytes
<1>2. Cardinality(Orphans) \in Nat /\ Cardinality(NonFinals) \in Nat
    BY FS_CardinalityType DEF Counted
<1> QED
    BY <1>1, <1>2 DEF Counted, BytesAreExact

\* An insertion adds one transaction and its size, or nothing.
LEMMA AddKeepsCount ==
    ASSUME Counted, NEW t \in Txs, AddOrphanTx(t) \/ AddNonFinalTx(t)
    PROVE  Counted'
<1>1. CASE UNCHANGED poolVars
    BY <1>1 DEF Counted, BytesAreExact, Orphans, NonFinals, poolVars
<1>2. CASE AddOrphanTx(t) /\ ~UNCHANGED poolVars
    <2>1. /\ t \notin Orphans
          /\ Orphans' = Orphans \cup {t} /\ NonFinals' = NonFinals
          /\ nPoolBytes' = nPoolBytes + Size[t]
        BY <1>2 DEF AddOrphanTx, Orphans, NonFinals
    <2>2. /\ IsFiniteSet(BytesOf(Orphans')) /\ Bytes(Orphans') = Bytes(Orphans) + Size[t]
          /\ IsFiniteSet(Orphans')
        BY <2>1, BytesAdd, FS_AddElement DEF Counted
    <2>3. Size[t] \in Nat
        BY OrphanPoolAssumption
    <2> QED
        BY <2>1, <2>2, <2>3, CountedInNat DEF Counted, BytesAreExact
<1>3. CASE AddNonFinalTx(t) /\ ~UNCHANGED poolVars
    <2>1. /\ t \notin NonFinals
          /\ NonFinals' = NonFinals \cup {t} /\ Orphans' = Orphans
          /\ nPoolBytes' = nPoolBytes + Size[t]
        BY <1>3 DEF AddNonFinalTx, Orphans, NonFinals
    <2>2. /\ IsFiniteSet(BytesOf(NonFinals')) /\ Bytes(NonFinals') = Bytes(NonFinals) + Size[t]
          /\ IsFiniteSet(NonFinals')
        BY <2>1, BytesAdd, FS_AddElement DEF Counted
    <2>3. Size[t] \in Nat
        BY OrphanPoolAssumption
    <2> QED
        BY <2>1, <2>2, <2>3, CountedInNat DEF Counted, BytesAreExact
<1> QED
    BY <1>1, <1>2, <1>3

\* An erasure takes off the size of what was there, and of nothing else.
LEMMA EraseKeepsCount ==
    ASSUME Counted, NEW O, NEW N, Erase(O, N)
    PROVE  /\ Counted'
           /\ Orphans' \subseteq Orphans /\ NonFinals' \subseteq NonFinals
           /\ nPoolBytes' <= nPoolBytes
<1>1. /\ Orphans' = Orphans \ (O \cap Orphans) /\ NonFinals' = NonFinals \ N
      /\ nPoolBytes' = nPoolBytes - Bytes(O \cap Orphans) - Bytes(N \cap NonFinals)
    BY DEF Erase, Orphans, NonFinals, Without
<1>2. Orphans' = Orphans \ O
    BY <1>1
<1>3. /\ IsFiniteSet(BytesOf(Orphans'))
      /\ Bytes(Orphans') = Bytes(Orphans) - Bytes(O \cap Orphans)
      /\ Bytes(O \cap Orphans) \in Nat
    BY <1>2, BytesErase, ZenonT(20) DEF Counted
<1>4. /\ IsFiniteSet(BytesOf(NonFinals'))
      /\ Bytes(NonFinals') = Bytes(NonFinals) - Bytes(N \cap NonFinals)
      /\ Bytes(N \cap NonFinals) \in Nat
    BY <1>1, BytesErase DEF Counted
<1>5. IsFiniteSet(Orphans') /\ IsFiniteSet(NonFinals')
    BY <1>1, <1>2, FS_Subset DEF Counted
<1>6. BytesAreExact' /\ nPoolBytes' <= nPoolBytes
    BY <1>1, <1>3, <1>4, CountedInNat DEF Counted, BytesAreExact
<1> QED
    BY <1>1, <1>2, <1>3, <1>4, <1>5, <1>6 DEF Counted

LEMMA CountInit == Init => Counted
<1>1. Init => Orphans = {} /\ NonFinals = {} /\ nPoolBytes = 0
    BY DEF Init, NoEntries, Orphans, NonFinals
<1>2. BytesOf({}) = {} /\ IsFiniteSet({}) /\ Bytes({}) = 0
    BY BytesOfParts, FS_EmptySet DEF Bytes
<1> QED
    BY <1>1, <1>2 DEF Counted, BytesAreExact

LEMMA CountStep ==
    ASSUME Counted, [Next]_vars
    PROVE  Counted'
<1>0. ASSUME UNCHANGED poolVars
      PROVE  Counted'
    BY <1>0 DEF Counted, BytesAreExact, Orphans, NonFinals, poolVars
<1>1. ASSUME NEW t \in Txs, Store(t) \/ StoreByRpc(t)
      PROVE  Counted'
    BY <1>1, AddKeepsCount DEF Store, StoreByRpc
<1>2. CASE LimitOrphans \/ LimitNonFinals
    BY <1>0, <1>2, EraseKeepsCount, ZenonT(30) DEF LimitOrphans, LimitNonFinals
<1>3. CASE EraseByTime
    BY <1>3, EraseKeepsCount DEF EraseByTime
<1>4. ASSUME NEW b \in SUBSET Txs, RemoveForBlock(b)
      PROVE  Counted'
    BY <1>4, EraseKeepsCount DEF RemoveForBlock
<1>5. CASE clear
    <2>1. Orphans' = {} /\ NonFinals' = {} /\ nPoolBytes' = 0
        BY <1>5 DEF clear, NoEntries, Orphans, NonFinals
    <2>2. BytesOf({}) = {} /\ IsFiniteSet({}) /\ Bytes({}) = 0
        BY BytesOfParts, FS_EmptySet DEF Bytes
    <2>3. /\ IsFiniteSet(Orphans') /\ IsFiniteSet(NonFinals')
          /\ IsFiniteSet(BytesOf(Orphans')) /\ IsFiniteSet(BytesOf(NonFinals'))
          /\ nPoolBytes' = 0 /\ Bytes(Orphans') = 0 /\ Bytes(NonFinals') = 0
        BY <2>1, <2>2, Zenon
    <2> QED
        BY <2>3 DEF Counted, BytesAreExact
<1>6. CASE Tick \/ UNCHANGED vars
    BY <1>0, <1>6 DEF Tick, poolVars, vars
<1> QED
    BY <1>1, <1>2, <1>3, <1>4, <1>5, <1>6 DEF Next

\* nPoolBytes is the memory of what is stored, after any sequence of
\* insertions, evictions, expiries, blocks and clears.
THEOREM BytesStayExact == Spec => []BytesAreExact
<1>1. Counted => BytesAreExact
    BY DEF Counted
<1> QED
    BY <1>1, CountInit, CountStep, PTL DEF Spec
-----------------------------------------------------------------------------
\* What the first loop of LimitPoolSize has established while the second runs.
OrphansLimited ==
    limiting = "nonfinals" =>
        /\ Cardinality(Orphans) <= MaxItems
        /\ nPoolBytes <= MaxBytes \/ Orphans = {}

LEMMA LimitStep ==
    ASSUME Counted, OrphansLimited, [Next]_vars
    PROVE  OrphansLimited'
<1> SUFFICES ASSUME limiting' = "nonfinals"
             PROVE  /\ Cardinality(Orphans') <= MaxItems
                    /\ nPoolBytes' <= MaxBytes \/ Orphans' = {}
    BY DEF OrphansLimited
<1>0. MaxItems \in Nat /\ MaxBytes \in Nat
    BY OrphanPoolAssumption
<1>1. CASE UNCHANGED <<poolVars, limiting>>
    BY <1>1 DEF OrphansLimited, poolVars, Orphans
<1>2. CASE LimitOrphans
    <2>1. /\ ~((Cardinality(Orphans) > MaxItems \/ nPoolBytes > MaxBytes) /\ Orphans # {})
          /\ UNCHANGED poolVars
        BY <1>2 DEF LimitOrphans
    <2>2. Orphans' = Orphans /\ nPoolBytes' = nPoolBytes
        BY <2>1 DEF poolVars, Orphans
    <2>3. Orphans = {} => Cardinality(Orphans) = 0
        BY FS_EmptySet, Zenon
    <2> QED
        BY <1>0, <2>1, <2>2, <2>3, CountedInNat
<1>3. CASE LimitNonFinals
    <2>1. PICK t \in NonFinals : Erase({t}, {})
        BY <1>3, ZenonT(20) DEF LimitNonFinals
    <2>2. /\ limiting = "nonfinals" /\ Counted'
          /\ Orphans' \subseteq Orphans /\ nPoolBytes' <= nPoolBytes
        BY <1>3, <2>1, EraseKeepsCount DEF LimitNonFinals
    <2>3. Cardinality(Orphans') <= Cardinality(Orphans)
        BY <2>2, FS_Subset DEF Counted
    <2>4. Cardinality(Orphans') \in Nat /\ nPoolBytes' \in Nat
        <3>1. /\ IsFiniteSet(Orphans') /\ nPoolBytes' = Bytes(Orphans') + Bytes(NonFinals')
              /\ IsFiniteSet(BytesOf(Orphans')) /\ IsFiniteSet(BytesOf(NonFinals'))
            BY <2>2 DEF Counted, BytesAreExact
        <3>2. Bytes(Orphans') \in Nat /\ Bytes(NonFinals') \in Nat
            BY <3>1, FS_CardinalityType DEF Bytes
        <3> QED
            BY <3>1, <3>2, FS_CardinalityType
    <2> QED
        BY <1>0, <2>2, <2>3, <2>4, CountedInNat DEF OrphansLimited
<1> QED
    BY <1>1, <1>2, <1>3
    DEF Next, vars, Store, StoreByRpc, EraseByTime, RemoveForBlock, clear, Tick, poolVars

\* Whenever LimitPoolSize returns, the number of orphans, the number of
\* non-finals and the bytes of both are within the limits: what the second loop
\* takes out never puts the result of the first in doubt.
THEOREM LimitStands == Spec => LimitHolds
<1> DEFINE Within == /\ Cardinality(Orphans) <= MaxItems
                     /\ Cardinality(NonFinals) <= MaxItems
                     /\ nPoolBytes <= MaxBytes \/ Orphans \cup NonFinals = {}
<1>1. Init => Counted /\ OrphansLimited
    BY CountInit DEF OrphansLimited, Init
<1>2. Counted /\ OrphansLimited /\ [Next]_vars => (Counted /\ OrphansLimited)'
    BY CountStep, LimitStep
<1>3. Counted /\ OrphansLimited /\ [Next]_vars
        => (limiting = "nonfinals" /\ limiting' = "no" => Within)
    <2> SUFFICES ASSUME Counted, OrphansLimited, [Next]_vars,
                        limiting = "nonfinals", limiting' = "no"
                 PROVE  Within
        OBVIOUS
    <2>0. MaxItems \in Nat /\ MaxBytes \in Nat
        BY OrphanPoolAssumption
    <2>1. LimitNonFinals
        BY DEF Next, vars, Store, StoreByRpc, LimitOrphans, EraseByTime, RemoveForBlock,
               clear, Tick
    <2>2. ~((Cardinality(NonFinals) > MaxItems \/ nPoolBytes > MaxBytes) /\ NonFinals # {})
        BY <2>1 DEF LimitNonFinals
    <2>3. NonFinals = {} => Cardinality(NonFinals) = 0
        BY FS_EmptySet, Zenon
    <2> QED
        BY <2>0, <2>2, <2>3, CountedInNat DEF OrphansLimited
<1> QED
    BY <1>1, <1>2, <1>3, PTL DEF Spec, LimitHolds
=============================================================================
