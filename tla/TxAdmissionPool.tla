-------------------------- MODULE TxAdmissionPool --------------------------
(***************************************************************************)
(* The second inductive invariant of TxAdmission, Inv2, about the chain,   *)
(* the txpool and the orphans.  It is inductive relative to Inv.           *)
(*                                                                         *)
(* Inv2 says that threads do what the scenario asks for and nothing else   *)
(* (Calls), that a block spends what was there before it (Chains), that    *)
(* transactions of the txpool, and those about to enter it, have their     *)
(* inputs wherever the tip is settled (Settled), that between the flush of *)
(* the coins and removeForBlock they have them below the tip (Removing),   *)
(* that a worker which found inputs missing is still right about it        *)
(* (MissingIsMissing), and NoStrandedOrphan itself.                        *)
(*                                                                         *)
(* The steps of NextInv2, one for each action, show that it is kept.       *)
(***************************************************************************)
EXTENDS TxAdmissionInv

\* Zenon proves most of the leaves; the others name their prover.
USE ZenonT(60)
USE DEF queueVars, poolVars, orphanVars, filterVars, batchVars, boundVars, corralVars

-----------------------------------------------------------------------------
(* The invariant                                                           *)

\* r serves sendrawtransaction and has not inserted or refused its transaction.
Calling(r) ==
    \/ pc[r] \in {"accept", "insert", "accepted", "addorphan"}
    \/ pc[r] \in {"pause", "swap", "requeue"} /\ loc[r].then \in {"accept", "accepted"}

\* v disconnects the tip.
Undoing(v) == Rewinding(v) \/ pc[v] = "resubmit"

\* Threads do only what the scenario asks for.
CallOK(t) ==
    /\ t \in Validators =>
          /\ pc[t] # "idle" => env.calls["connect"] # 0 \/ env.calls["disconnect"] # 0
          /\ Undoing(t) => calls["disconnect"] # 0
    /\ t \in Rpcs /\ Calling(t) => env.calls["send"] # 0

\* The same for all threads.
Calls == calls \in [CallKinds -> Nat] /\ \A t \in Threads : CallOK(t)

\* The blocks under the tip.
Before == UNION {chain[j] : j \in 1 .. Len(chain) - 1}

\* The coins before the tip was connected.
UtxoBefore == (BaseCoins \cup Before) \ SpentBy(Before)

\* A block spends outputs of the initial chain, of earlier blocks or its own.
ChainOK ==
    \A i \in DOMAIN chain :
        SpentBy(chain[i]) \subseteq BaseCoins \cup UNION {chain[j] : j \in 1 .. i}

\* What v connects is valid, and then it is the tip.
TipOK(v) ==
    /\ Connecting(v) => ValidBlock(loc[v].batch)
    /\ pc[v] = "remove" => /\ chain # <<>> /\ loc[v].batch = chain[Len(chain)]
                           /\ loc[v].batch \cap Before = {}
    /\ pc[v] = "resubmit" => txRecentlyInBlock = {}

\* The transactions of the blocks that are connected or disconnected.
Held == UNION {loc[v].batch : v \in Validators}

\* txRecentlyInBlock remembers only what a block of the chain, or one being
\* connected, has.
Chains ==
    /\ ChainOK
    /\ \A v \in Validators : TipOK(v)
    /\ txRecentlyInBlock \subseteq Confirmed \cup Held

\* No overlap of sendrawtransaction with a change of the tip, and no eviction.
Calm == ~env.overflows /\ Apart

\* The txpool, what waits for the commit and what has been accepted have inputs.
Settled ==
    Calm /\ TipIsSettled =>
        \A t \in mempool \cup commitQ \cup Accepted \cup Inserting : HaveInputs(t)

\* After the flush of the coins the txpool still fits the chain below the tip.
Removing ==
    Calm => \A v \in Validators : pc[v] = "remove" =>
        \A t \in mempool : Inputs(t) \subseteq UtxoBefore \cup mempool
          /\ Reads[t] \subseteq UtxoBefore

\* No input turns up while a worker holds a transaction that misses it.
MissingIsMissing ==
    \A w \in Workers : pc[w] = "apply" /\ loc[w].verdict = "missing" => ~HaveInputs(loc[w].tx)

\* The invariant.
Inv2 == Calls /\ Chains /\ Settled /\ Removing /\ MissingIsMissing /\ NoStrandedOrphan

-----------------------------------------------------------------------------
(* What the steps that matter little have in common                        *)

\* t stays within its calls.
CallsGo(t) ==
    /\ CallOK(t)' /\ calls' \in [CallKinds -> Nat]
    /\ calls["disconnect"] # 0 => calls'["disconnect"] # 0

\* So do the others.
LEMMA CallsKept ==
    ASSUME Calls, NEW t \in Threads, Tame(t), CallsGo(t) PROVE Calls'
<1> ASSUME NEW u \in Threads, u # t PROVE CallOK(u)'
  <2>1. CallOK(u) /\ pc'[u] = pc[u] /\ loc'[u] = loc[u] /\ env' = env
    BY DEF Calls, Tame
  <2> QED BY <2>1 DEF CallOK, Calling, Undoing, Rewinding, CallsGo
<1> QED BY DEF Calls, CallsGo

\* A step that leaves the chain alone and the block being connected.
ChainsStill(t) ==
    /\ chain' = chain /\ txRecentlyInBlock' = txRecentlyInBlock
    /\ pc'[t] \notin {"remove", "resubmit"}
    /\ t \in Validators => /\ Connecting(t)' => Connecting(t)
                           /\ loc'[t].batch = loc[t].batch

\* A step that leaves alone the chain and what waits to enter the txpool.
PoolStill(t) ==
    /\ chain' = chain
    /\ mempool' = mempool \/ (env.overflows /\ mempool' \subseteq mempool)
    /\ commitQ' \subseteq commitQ \cup Accepted \cup Inserting
    /\ pc'[t] \notin {"remove", "resubmit"}
    /\ t \in Validators => pc[t] \notin {"remove", "resubmit"}
    /\ pc'[t] \in {"apply", "insert"} =>
          /\ mempool' = mempool
          /\ pc'[t] = "insert" \/ loc'[t].verdict = "accept" => HaveInputs(loc'[t].tx)
          /\ pc'[t] = "apply" /\ loc'[t].verdict = "missing" => ~HaveInputs(loc'[t].tx)

\* Both, within the calls.
Still(t) == ChainsStill(t) /\ PoolStill(t) /\ CallsGo(t)

\* What depends on the chain alone.
LEMMA ChainSame ==
    ASSUME chain' = chain
    PROVE  /\ Confirmed' = Confirmed /\ Utxo' = Utxo /\ Before' = Before
           /\ UtxoBefore' = UtxoBefore
           /\ \A x : Final(x)' <=> Final(x)
           /\ \A b : ValidBlock(b)' <=> ValidBlock(b)
           /\ mempool' \subseteq mempool => \A x : HaveInputs(x)' => HaveInputs(x)
           /\ mempool \subseteq mempool' => \A x : HaveInputs(x) => HaveInputs(x)'
           /\ ChainOK' <=> ChainOK
<1> Confirmed' = Confirmed /\ Before' = Before
  BY DEF Confirmed, Before
<1>b. Utxo' = Utxo /\ UtxoBefore' = UtxoBefore
  BY DEF Utxo, UtxoBefore, SpentBy
<1>c. \A x : Final(x)' <=> Final(x)
  BY DEF Final
<1>d. ChainOK' <=> ChainOK
  BY SMTT(60) DEF ChainOK, SpentBy
<1> /\ Confirmed' = Confirmed /\ Utxo' = Utxo /\ Before' = Before /\ UtxoBefore' = UtxoBefore
    /\ \A x : Final(x)' <=> Final(x)
    /\ ChainOK' <=> ChainOK
  BY <1>b, <1>c, <1>d
<1>2. \A b : ValidBlock(b)' <=> ValidBlock(b)
  BY DEF ValidBlock
<1> QED BY <1>2 DEF HaveInputs

\* Such a step keeps Chains, ...
LEMMA ChainsKept ==
    ASSUME Inv2, NEW t \in Threads, Tame(t), ChainsStill(t) PROVE Chains'
<1> /\ Confirmed' = Confirmed /\ Before' = Before
    /\ ChainOK' <=> ChainOK
    /\ \A b : ValidBlock(b)' <=> ValidBlock(b)
  BY ChainSame DEF ChainsStill
<1> ASSUME NEW v \in Validators PROVE TipOK(v)' /\ loc'[v].batch = loc[v].batch
  <2> TipOK(v) /\ v \in Threads
    BY Kinds DEF Inv2, Chains
  <2> CASE v = t
    BY DEF ChainsStill, TipOK
  <2> CASE v # t
    <3>1. pc'[v] = pc[v] /\ loc'[v] = loc[v]
      BY DEF Tame
    <3> QED BY <3>1 DEF ChainsStill, TipOK, Connecting
  <2> QED OBVIOUS
<1>3. Held' = Held
  BY DEF Held
<1> QED BY <1>3 DEF Inv2, Chains, ChainsStill

\* ... the parts about the txpool, ...
LEMMA PoolKept ==
    ASSUME Inv2, NEW t \in Threads, Tame(t), PoolStill(t)
    PROVE  Settled' /\ Removing' /\ MissingIsMissing'
<1> USE Kinds
<1> \A u \in Threads : u = t \/ (pc'[u] = pc[u] /\ loc'[u] = loc[u])
  BY DEF Tame
<1> env' = env /\ (Calm' <=> Calm)
  BY DEF Tame, Calm, Apart
<1> /\ UtxoBefore' = UtxoBefore
    /\ \A x : HaveInputs(x)' => HaveInputs(x)
    /\ mempool' = mempool => \A x : HaveInputs(x) => HaveInputs(x)'
  BY ChainSame DEF PoolStill
<1>6. \A x \in Accepted' \cup Inserting' : x \in Accepted \cup Inserting \/ HaveInputs(x)
  <2> \A w \in Workers : pc'[w] = "apply" /\ loc'[w].verdict = "accept" =>
         loc'[w].tx \in Accepted \/ HaveInputs(loc'[w].tx)
    BY DEF PoolStill, Accepted
  <2> \A r \in Rpcs : pc'[r] = "insert" =>
         loc'[r].tx \in Inserting \/ HaveInputs(loc'[r].tx)
    BY DEF PoolStill, Inserting
  <2> QED BY DEF Accepted, Inserting
<1>7. TipIsSettled' => TipIsSettled
  BY DEF TipIsSettled, PoolStill
<1> Calm => mempool' = mempool
  BY DEF Calm, PoolStill
<1>9. Settled'
  BY <1>6, <1>7 DEF Inv2, Settled, PoolStill
<1>10. Removing'
  BY DEF Inv2, Removing, PoolStill
<1>11. MissingIsMissing'
  <2> SUFFICES ASSUME NEW w \in Workers, pc'[w] = "apply", loc'[w].verdict = "missing"
               PROVE  ~HaveInputs(loc'[w].tx)
    BY DEF MissingIsMissing
  <2> CASE w = t
    BY DEF PoolStill
  <2> CASE w # t
    BY DEF Inv2, MissingIsMissing
  <2> QED OBVIOUS
<1> QED BY <1>9, <1>10, <1>11

\* ... and so all of Inv2 but the orphans.
LEMMA StillStep ==
    ASSUME Inv2, NEW t \in Threads, Tame(t), Still(t)
    PROVE  Calls' /\ Chains' /\ Settled' /\ Removing' /\ MissingIsMissing'
<1>1. Calls'
  BY CallsKept DEF Inv2, Still
<1>2. Chains'
  BY ChainsKept DEF Still
<1> QED BY <1>1, <1>2, PoolKept DEF Still

\* A step that takes no orphan out of sight.
OrphansStill(t) ==
    /\ chain' = chain /\ mempool' \subseteq mempool
    /\ \A o \in mapOrphans' : HaveInputs(o) => o \in mapOrphans
    /\ \/ Pending \subseteq Pending'
       \/ /\ pc'[t] = "erase"
          /\ \A o \in mapOrphans : (Inputs(o) \cup Reads[o]) \cap Pending # {} =>
                \/ (Inputs(o) \cup Reads[o]) \cap Pending' # {}
                \/ o \in Collected(t)'
    /\ pc[t] = "erase" => Collected(t) \cap mapOrphans' = {}
    /\ calls["disconnect"] # 0 => calls'["disconnect"] # 0

\* Such a step strands no orphan.
LEMMA OrphansStillStep ==
    ASSUME Inv2, NEW t \in Threads, Tame(t), OrphansStill(t)
    PROVE  NoStrandedOrphan'
<1> SUFFICES ASSUME calls'["disconnect"] = 0, ~env'.alloworphans, NEW o \in mapOrphans',
                    HaveInputs(o)'
             PROVE  \/ (Inputs(o) \cup Reads[o]) \cap Pending' # {}
                    \/ \E u \in Threads : pc'[u] = "erase" /\ o \in Collected(u)'
  BY DEF NoStrandedOrphan
<1> HaveInputs(o) /\ o \in mapOrphans /\ calls["disconnect"] = 0 /\ ~env.alloworphans
  BY ChainSame DEF OrphansStill, Tame
<1>2. \/ (Inputs(o) \cup Reads[o]) \cap Pending # {}
      \/ \E u \in Threads : pc[u] = "erase" /\ o \in Collected(u)
  BY DEF Inv2, NoStrandedOrphan
<1> ASSUME NEW u \in Threads, pc[u] = "erase", o \in Collected(u)
    PROVE  pc'[u] = "erase" /\ o \in Collected(u)'
  <2>1. u # t
    BY DEF OrphansStill
  <2>2. pc'[u] = pc[u] /\ loc'[u] = loc[u]
    BY <2>1 DEF Tame
  <2> QED BY <2>2 DEF Collected
<1> ASSUME (Inputs(o) \cup Reads[o]) \cap Pending # {}
    PROVE  \/ (Inputs(o) \cup Reads[o]) \cap Pending' # {}
           \/ pc'[t] = "erase" /\ o \in Collected(t)'
  BY DEF OrphansStill
<1> QED BY <1>2

\* One more batch of transactions whose orphans are to be processed.
LEMMA BatchAppended ==
    ASSUME NEW s \in Seq(SUBSET Txs), NEW b \in SUBSET Txs
    PROVE  Range(Append(s, b)) = Range(s) \cup {b}
BY RangeOfAppend, SMTT(60)

\* The batches whose orphans are yet to be processed.
LEMMA PendingKept ==
    ASSUME NEW t \in Threads, Tame(t), Range(vProcessOrphans) \subseteq Range(vProcessOrphans'),
           Range(vPostBlock) \subseteq Range(vPostBlock'), loc[t].batch \subseteq loc'[t].batch
    PROVE  Pending \subseteq Pending'
<1>1. \A u \in Threads : loc[u].batch \subseteq loc'[u].batch
  BY DEF Tame
<1> QED BY <1>1 DEF Pending

\* A thread takes a batch of them.
LEMMA PendingTaken ==
    ASSUME NEW t \in Threads, Tame(t), loc[t].batch = {},
           Range(vProcessOrphans) \subseteq Range(vProcessOrphans') \cup {loc'[t].batch},
           Range(vPostBlock) \subseteq Range(vPostBlock') \cup {loc'[t].batch}
    PROVE  Pending \subseteq Pending'
<1> DEFINE P == Range(vProcessOrphans) \cup Range(vPostBlock) \cup {loc[u].batch : u \in Threads}
           Q == P'
<1>1. SUFFICES ASSUME NEW B \in P, B # {} PROVE B \in Q
  BY DEF Pending
<1>2. loc'[t].batch \in Q
  OBVIOUS
<1>3. CASE B \in Range(vProcessOrphans) \/ B \in Range(vPostBlock)
  BY <1>2, <1>3
<1>4. ASSUME NEW u \in Threads, B = loc[u].batch PROVE B \in Q
  <2>1. loc'[u] = loc[u]
    BY <1>1, <1>4 DEF Tame
  <2> QED BY <1>4, <2>1
<1> QED BY <1>3, <1>4

\* What a verdict says about the inputs.
LEMMA VerdictFacts ==
    ASSUME NEW x
    PROVE  /\ "accept" \in Verdicts(x) => HaveInputs(x)
           /\ "missing" \in Verdicts(x) => ~HaveInputs(x)
BY DEF Verdicts

\* What a step does that leaves the batches alone.
LEMMA PendingSame ==
    ASSUME NEW t \in Threads, Tame(t), ThreadOK(t), t \notin Validators, pc[t] # "collect",
           vProcessOrphans' = vProcessOrphans, vPostBlock' = vPostBlock
    PROVE  Pending \subseteq Pending'
<1>1. loc[t].batch = {}
  BY AdmissionAssumption DEF ThreadOK, WorkerOK, CommitterOK, RpcOK
<1> QED BY <1>1, PendingKept

\* What a step does that makes no call.
LEMMA CallsSame ==
    ASSUME Inv2, NEW t \in Threads, Tame(t), calls' = calls, t \notin Validators,
           t \in Rpcs /\ Calling(t)' => Calling(t)
    PROVE  CallsGo(t)
<1>1. calls \in [CallKinds -> Nat] /\ CallOK(t) /\ env' = env
  BY DEF Inv2, Calls, Tame
<1> QED BY <1>1 DEF CallsGo, CallOK

-----------------------------------------------------------------------------
(* The chain and the txpool                                                *)

\* Where calls do not overlap, nothing is on its way into the txpool while the
\* tip is replaced.
LEMMA CalmTip ==
    ASSUME Inv, Inv2, Calm, NEW v \in Validators,
           pc[v] \in {"flush", "remove", "rewind", "resubmit"}
    PROVE  commitQ = {} /\ Accepted = {} /\ Inserting = {}
<1> v \in Threads /\ PastSwap(v) /\ Control /\ CallOK(v) /\ pc[v] # "idle"
  BY Kinds DEF PastSwap, Inv, Inv2, Calls
<1>2. env.calls["send"] = 0
  BY DEF CallOK, Calm, Apart
<1> \A r \in Rpcs : ~Calling(r)
  BY <1>2, Kinds DEF Inv2, Calls, CallOK
<1>4. Inserting = {}
  BY DEF Inserting, Calling
<1>5. commitQ = {}
  <2>1. \A x \in commitQ : Sends(x)
    BY DEF Inv, Flushed
  <2>2. \A x : ~Sends(x)
    BY DEF Sends, SendingAt, Calling
  <2> QED BY <2>1, <2>2
<1>6. Accepted = {}
  BY CommitAlone
<1> QED BY <1>4, <1>5, <1>6

\* d is the chain c with the block b on top.
Grown(c, b, d) ==
    /\ d # <<>> /\ d[Len(d)] = b
    /\ UNION Range(d) = (UNION Range(c)) \cup b
    /\ UNION {d[j] : j \in 1 .. Len(d) - 1} = UNION Range(c)
    /\ DOMAIN d = DOMAIN c \cup {Len(d)}
    /\ \A i \in DOMAIN c : /\ d[i] = c[i]
                           /\ UNION {d[j] : j \in 1 .. i} = UNION {c[j] : j \in 1 .. i}
    /\ UNION {d[j] : j \in 1 .. Len(d)} = (UNION Range(c)) \cup b

\* Append puts it there.
LEMMA ChainGrows ==
    ASSUME NEW S, NEW c \in Seq(S), NEW b \in S PROVE Grown(c, b, Append(c, b))
<1> DEFINE d == Append(c, b)
<1> d = Append(c, b)
  OBVIOUS
<1> HIDE DEF d
<1> /\ Len(c) \in Nat /\ DOMAIN c = 1 .. Len(c) /\ Len(d) = Len(c) + 1
    /\ DOMAIN d = 1 .. Len(c) + 1
    /\ \A i \in 1 .. Len(c) : d[i] = c[i]
    /\ d[Len(c) + 1] = b
  BY SMTT(60)
<1>2. d # <<>> /\ d[Len(d)] = b /\ DOMAIN d = DOMAIN c \cup {Len(d)}
  BY SMTT(60)
<1>3. Len(d) - 1 = Len(c)
  BY SMTT(60)
<1>4. {d[j] : j \in 1 .. Len(c)} = Range(c)
  BY DEF Range
<1> Range(d) = Range(c) \cup {b}
  BY RangeOfAppend, SMTT(60)
<1>6. {d[j] : j \in 1 .. Len(d)} = Range(c) \cup {b}
  BY DEF Range
<1>7. ASSUME NEW i \in DOMAIN c
      PROVE  d[i] = c[i] /\ {d[j] : j \in 1 .. i} = {c[j] : j \in 1 .. i}
  <2>1. i \in Nat /\ \A j \in 1 .. i : j \in 1 .. Len(c)
    BY SMTT(60)
  <2> QED BY <2>1
<1>8. UNION (Range(c) \cup {b}) = (UNION Range(c)) \cup b
  BY SMTT(60)
<1>9. \A i \in DOMAIN c : /\ d[i] = c[i]
                         /\ UNION {d[j] : j \in 1 .. i} = UNION {c[j] : j \in 1 .. i}
  BY <1>7
<1>10. UNION Range(d) = (UNION Range(c)) \cup b
         /\ UNION {d[j] : j \in 1 .. Len(d)} = (UNION Range(c)) \cup b
  BY <1>6, <1>8
<1>11. UNION {d[j] : j \in 1 .. Len(d) - 1} = UNION Range(c)
  BY <1>3, <1>4
<1>12. Grown(c, b, d)
  BY <1>2, <1>9, <1>10, <1>11 DEF Grown
<1> QED BY <1>12

\* More transactions spend more.
LEMMA SpentByGrows ==
    ASSUME NEW A, NEW B, A \subseteq B PROVE SpentBy(A) \subseteq SpentBy(B)
BY DEF SpentBy

\* The descendants of S are closed under being a child.
LEMMA DescendantsClosed ==
    ASSUME NEW S
    PROVE  /\ S \cap mempool \subseteq Descendants(S)
           /\ \A w \in mempool : Inputs(w) \cap Descendants(S) # {} => w \in Descendants(S)
<1>1. S \cap mempool \subseteq Descendants(S)
  BY DEF Descendants
<1> ASSUME NEW w \in mempool, NEW x \in Inputs(w), x \in Descendants(S)
    PROVE  w \in Descendants(S)
  <2>1. \A C \in SUBSET mempool :
            /\ S \cap mempool \subseteq C
            /\ \A z \in mempool : Inputs(z) \cap C # {} => z \in C
            => x \in C
    BY DEF Descendants
  <2> ASSUME NEW C \in SUBSET mempool, S \cap mempool \subseteq C,
             \A z \in mempool : Inputs(z) \cap C # {} => z \in C
      PROVE  w \in C
    <3>1. x \in C
      BY <2>1
    <3> QED BY <3>1
  <2> QED BY DEF Descendants
<1> QED BY <1>1

\* What the blocks 1 .. n spend comes from the initial chain or from themselves.
LEMMA ChainSpends ==
    ASSUME ChainOK, NEW n \in Nat, n <= Len(chain), NEW S, chain \in Seq(S)
    PROVE  LET P == UNION {chain[j] : j \in 1 .. n} IN SpentBy(P) \subseteq BaseCoins \cup P
<1> DEFINE P == UNION {chain[j] : j \in 1 .. n}
<1> SUFFICES ASSUME NEW x \in SpentBy(P) PROVE x \in BaseCoins \cup P
  OBVIOUS
<1>0. PICK u \in P : x \in Inputs(u)
  BY DEF SpentBy
<1>1. PICK i \in 1 .. n : u \in chain[i]
  OBVIOUS
<1> i \in DOMAIN chain /\ 1 .. i \subseteq 1 .. n
  BY SMTT(60)
<1>3. x \in SpentBy(chain[i])
  BY <1>0, <1>1 DEF SpentBy
<1>4. x \in BaseCoins \cup UNION {chain[j] : j \in 1 .. i}
  BY <1>3 DEF ChainOK
<1>5. UNION {chain[j] : j \in 1 .. i} \subseteq P
  OBVIOUS
<1> QED BY <1>4, <1>5

\* A chain is the tip on top of the blocks before it.
LEMMA TipOnTop ==
    ASSUME NEW S, NEW c \in Seq(S), c # <<>>
    PROVE  /\ UNION Range(c) = (UNION {c[j] : j \in 1 .. Len(c) - 1}) \cup c[Len(c)]
           /\ Len(c) \in Nat /\ Len(c) - 1 \in Nat /\ Len(c) \in DOMAIN c
<1> /\ Len(c) \in Nat /\ Len(c) - 1 \in Nat /\ DOMAIN c = 1 .. Len(c)
    /\ 1 .. Len(c) = 1 .. Len(c) - 1 \cup {Len(c)}
  BY SMTT(60)
<1>2. Range(c) = {c[j] : j \in 1 .. Len(c) - 1} \cup {c[Len(c)]}
  BY DEF Range
<1>3. \A A, B : UNION (A \cup {B}) = (UNION A) \cup B
  BY SMTT(60)
<1>4. Len(c) \in DOMAIN c
  OBVIOUS
<1>5. UNION Range(c) = (UNION {c[j] : j \in 1 .. Len(c) - 1}) \cup c[Len(c)]
  BY <1>2, <1>3
<1> QED BY <1>4, <1>5

\* What removeForBlock leaves in the txpool has its inputs on the new chain.
LEMMA LeftHaveInputs ==
    ASSUME Inv, Inv2, Calm, NEW v \in Validators, pc[v] = "remove",
           NEW t \in mempool \ RemovedForBlock(loc[v].batch)
    PROVE  /\ Inputs(t) \subseteq Utxo \cup (mempool \ RemovedForBlock(loc[v].batch))
           /\ Reads[t] \subseteq Utxo
<1> DEFINE b == loc[v].batch
           R == {m \in mempool : Reads[m] \cap SpentBy(b) # {}}
           C == {m \in mempool \ b : Inputs(m) \cap SpentBy(b) # {}}
           D == Descendants(R \cup C)
<1>1. RemovedForBlock(b) = b \cup D
  BY DEF RemovedForBlock
<1> /\ chain # <<>> /\ b = chain[Len(chain)] /\ b \cap Before = {} /\ ChainOK
    /\ chain \in Seq(env.blocks) /\ mempool \subseteq Txs
  BY DEF Inv, Inv2, Control, Types, Chains, TipOK
<1>3. Inputs(t) \subseteq UtxoBefore \cup mempool /\ Reads[t] \subseteq UtxoBefore
  BY DEF Inv2, Removing
<1>4. /\ (R \cup C) \cap mempool \subseteq D
      /\ \A w \in mempool : Inputs(w) \cap D # {} => w \in D
  BY DescendantsClosed
<1>5. t \in mempool /\ t \notin b /\ t \notin D
  BY <1>1
<1>6. Inputs(t) \cap SpentBy(b) = {} /\ Reads[t] \cap SpentBy(b) = {} /\ Inputs(t) \cap D = {}
  <2>1. t \notin R /\ t \notin C
    BY <1>4, <1>5
  <2> HIDE DEF D
  <2> QED BY <1>4, <1>5, <2>1
<1> HIDE DEF D, b
<1>7. Confirmed = Before \cup b
  BY TipOnTop DEF Confirmed, Before
<1>8. SpentBy(Before) \subseteq BaseCoins \cup Before
  <2>1. Len(chain) - 1 \in Nat /\ Len(chain) - 1 <= Len(chain)
    BY TipOnTop, SMTT(60)
  <2> QED BY <2>1, ChainSpends DEF Before
<1>9. SpentBy(Confirmed) \subseteq SpentBy(Before) \cup SpentBy(b)
  BY <1>7 DEF SpentBy
<1>10. \A x \in UtxoBefore : x \notin SpentBy(b) => x \in Utxo
  BY <1>7, <1>9 DEF Utxo, UtxoBefore
<1>11. ASSUME NEW x \in Inputs(t), x \in mempool, x \in b PROVE x \in Utxo
  <2>1. x \notin BaseCoins /\ x \notin Before
    BY <1>11, AdmissionAssumption
  <2> QED BY <1>6, <1>7, <1>8, <1>9, <1>11, <2>1 DEF Utxo
<1>12. Inputs(t) \subseteq Utxo \cup (mempool \ (b \cup D))
  BY <1>3, <1>6, <1>10, <1>11
<1>13. Reads[t] \subseteq Utxo
  BY <1>3, <1>6, <1>10
<1> QED BY <1>1, <1>12, <1>13 DEF b

\* d is the chain c without its tip.
Shrunk(c, d) ==
    /\ DOMAIN d = 1 .. Len(c) - 1
    /\ \A i \in DOMAIN d : /\ i \in DOMAIN c /\ d[i] = c[i]
                           /\ {d[j] : j \in 1 .. i} = {c[j] : j \in 1 .. i}

\* SubSeq takes it off.
LEMMA ChainShrinks ==
    ASSUME NEW S, NEW c \in Seq(S), c # <<>>, NEW d, d = SubSeq(c, 1, Len(c) - 1)
    PROVE  Shrunk(c, d)
<1> /\ Len(c) \in Nat /\ DOMAIN c = 1 .. Len(c) /\ DOMAIN d = 1 .. Len(c) - 1
    /\ \A i \in 1 .. Len(c) - 1 : d[i] = c[i]
  BY SMTT(60)
<1>2. ASSUME NEW i \in DOMAIN d
      PROVE  i \in DOMAIN c /\ d[i] = c[i] /\ {d[j] : j \in 1 .. i} = {c[j] : j \in 1 .. i}
  <2>1. i \in Nat /\ \A j \in 1 .. i : j \in 1 .. Len(c) - 1
    BY SMTT(60)
  <2> QED BY <2>1, SMTT(60)
<1> QED BY <1>2 DEF Shrunk

-----------------------------------------------------------------------------
(* The invariant is inductive                                              *)

\* A step of nobody: a transaction arrives, or nothing happens.
LEMMA NobodyGoes ==
    ASSUME Inv2, UNCHANGED <<commitQ, mempool, chain, mapOrphans, txRecentlyInBlock,
                             vProcessOrphans, vPostBlock, pc, loc, calls, env>>
    PROVE  Inv2'
<1>1. Calls'
  BY DEF Inv2, Calls, CallOK, Calling, Undoing, Rewinding
<1> /\ Confirmed' = Confirmed /\ Before' = Before /\ UtxoBefore' = UtxoBefore
    /\ \A b : ValidBlock(b)' <=> ValidBlock(b)
    /\ \A x : HaveInputs(x)' <=> HaveInputs(x)
    /\ ChainOK' <=> ChainOK
  BY ChainSame
<1>3. Chains'
  <2>1. \A v \in Validators : TipOK(v)'
    BY DEF Inv2, Chains, TipOK, Connecting
  <2>2. Held' = Held
    BY DEF Held
  <2> QED BY <2>1, <2>2 DEF Inv2, Chains
<1> /\ Calm' <=> Calm
    /\ TipIsSettled' <=> TipIsSettled
  BY DEF Calm, Apart, TipIsSettled
<1> Accepted' = Accepted /\ Inserting' = Inserting /\ Pending' = Pending
  BY DEF Accepted, Inserting, Pending
<1>6. Settled'
  BY DEF Inv2, Settled
<1>7. Removing'
  BY DEF Inv2, Removing
<1>8. MissingIsMissing'
  BY DEF Inv2, MissingIsMissing
<1>9. NoStrandedOrphan'
  BY DEF Inv2, NoStrandedOrphan, Collected
<1> QED BY <1>1, <1>3, <1>6, <1>7, <1>8, <1>9 DEF Inv2

\* The initial states.
LEMMA InitInv2 == Init => Inv2
<1> USE Kinds
<1> SUFFICES ASSUME Init PROVE Inv2
  OBVIOUS
<1> \A t \in Threads : pc[t] = "idle" /\ loc[t] = Idle
  BY DEF Init
<1> commitQ = {} /\ mempool = {} /\ chain = <<>> /\ mapOrphans = {} /\ txRecentlyInBlock = {}
  BY DEF Init
<1>3. Calls
  <2> calls \in [CallKinds -> Nat]
    BY DEF Init
  <2> QED BY DEF Calls, CallOK, Calling, Undoing, Rewinding
<1>4. Chains
  <2> ChainOK
    BY SMTT(60) DEF ChainOK
  <2>2. \A v \in Validators : TipOK(v)
    BY DEF TipOK, Connecting
  <2> QED BY <2>2 DEF Chains
<1>5. Settled
  BY DEF Settled, Accepted, Inserting
<1>6. Removing /\ MissingIsMissing /\ NoStrandedOrphan
  BY DEF Removing, MissingIsMissing, NoStrandedOrphan
<1> QED BY <1>3, <1>4, <1>5, <1>6 DEF Inv2

\* Inv2 is inductive relative to Inv: each action keeps it.
LEMMA NextInv2 == ASSUME Inv, Inv2 PROVE [Next]_vars => Inv2'
<1>WorkerEnter. ASSUME NEW t \in Workers, WorkerEnter(t) PROVE Inv2'
  <2> USE <1>WorkerEnter
  <2> /\ t \in Threads /\ Types /\ ThreadOK(t) /\ pc[t] = "idle"
      /\ t \notin Validators /\ t \notin Rpcs
    BY Kinds DEF Inv, Control, WorkerEnter
  <2> Tame(t) /\ pc'[t] = "take"
    BY WorkerEnterTame DEF PcTo
  <2> UNCHANGED <<chain, txRecentlyInBlock, commitQ, mempool, mapOrphans, calls,
                  vProcessOrphans, vPostBlock>>
    BY DEF WorkerEnter
  <2>3. CallsGo(t)
    BY CallsSame
  <2>4. Still(t)
    BY <2>3 DEF Still, ChainsStill, PoolStill
  <2>5. OrphansStill(t)
    BY PendingSame DEF OrphansStill
  <2> QED BY <2>4, <2>5, StillStep, OrphansStillStep DEF Inv2
<1>WorkerLeave. ASSUME NEW t \in Workers, WorkerLeave(t) PROVE Inv2'
  <2> USE <1>WorkerLeave
  <2> /\ t \in Threads /\ Types /\ ThreadOK(t) /\ pc[t] = "take"
      /\ t \notin Validators /\ t \notin Rpcs
    BY Kinds DEF Inv, Control, WorkerLeave
  <2> Tame(t) /\ pc'[t] = "idle"
    BY WorkerLeaveTame DEF PcTo
  <2> UNCHANGED <<chain, txRecentlyInBlock, commitQ, mempool, mapOrphans, calls,
                  vProcessOrphans, vPostBlock>>
    BY DEF WorkerLeave
  <2>3. CallsGo(t)
    BY CallsSame
  <2>4. Still(t)
    BY <2>3 DEF Still, ChainsStill, PoolStill
  <2>5. OrphansStill(t)
    BY PendingSame DEF OrphansStill
  <2> QED BY <2>4, <2>5, StillStep, OrphansStillStep DEF Inv2
<1>CommitRequeue. ASSUME NEW t \in Committers \cup Validators \cup Rpcs, CommitRequeue(t)
                  PROVE  Inv2'
  <2> USE <1>CommitRequeue
  <2> t \in Threads /\ Control /\ Types /\ ThreadOK(t) /\ CallOK(t) /\ pc[t] = "requeue"
    BY Kinds DEF Inv, Control, Inv2, Calls, CommitRequeue
  <2> Tame(t) /\ pc'[t] = loc[t].then /\ loc'[t].then = loc[t].then /\ loc'[t].batch = loc[t].batch
    BY CommitRequeueTame DEF PcTo, LocTo, LocKeeps
  <2> /\ chain' = chain /\ txRecentlyInBlock' = txRecentlyInBlock /\ commitQ' = commitQ
      /\ mempool' = mempool
      /\ mapOrphans' = mapOrphans /\ calls' = calls
      /\ vProcessOrphans' = vProcessOrphans /\ vPostBlock' = vPostBlock
    BY DEF CommitRequeue
  <2> CallsGo(t)
    <3>1. calls \in [CallKinds -> Nat] /\ env' = env
      BY DEF Inv2, Calls, Tame
    <3> QED BY <3>1 DEF CallsGo, CallOK, Calling, Undoing, Rewinding, ThreadOK,
          CommitterOK, ValidatorOK, RpcOK
  <2>3. Still(t)
    BY Kinds DEF Still, ChainsStill, PoolStill, Connecting, ThreadOK, CommitterOK,
       ValidatorOK, RpcOK
  <2>4. Pending \subseteq Pending'
    BY PendingKept
  <2>5. NoStrandedOrphan'
    BY <2>4, OrphansStillStep DEF OrphansStill, CallsGo
  <2> QED BY <2>3, <2>5, StillStep DEF Inv2
<1>CommitterEnter. ASSUME NEW t \in Committers, CommitterEnter(t) PROVE Inv2'
  <2> USE <1>CommitterEnter
  <2> /\ t \in Threads /\ Types /\ ThreadOK(t) /\ pc[t] = "idle"
      /\ t \notin Validators /\ t \notin Rpcs
    BY Kinds DEF Inv, Control, CommitterEnter
  <2> Tame(t) /\ pc'[t] = "swap"
    BY CommitterEnterTame DEF PcTo
  <2> UNCHANGED <<chain, txRecentlyInBlock, commitQ, mempool, mapOrphans, calls,
                  vProcessOrphans, vPostBlock>>
    BY DEF CommitterEnter
  <2>3. CallsGo(t)
    BY CallsSame
  <2>4. Still(t)
    BY <2>3 DEF Still, ChainsStill, PoolStill
  <2>5. OrphansStill(t)
    BY PendingSame DEF OrphansStill
  <2> QED BY <2>4, <2>5, StillStep, OrphansStillStep DEF Inv2
<1>LeaveCorral. ASSUME NEW t \in Committers \cup Rpcs, LeaveCorral(t) PROVE Inv2'
  <2> USE <1>LeaveCorral
  <2> /\ t \in Threads /\ Types /\ ThreadOK(t) /\ pc[t] = "leave"
      /\ t \notin Validators
    BY Kinds DEF Inv, Control, LeaveCorral
  <2> Tame(t) /\ pc'[t] = "blocks"
    BY LeaveCorralTame DEF PcTo
  <2> UNCHANGED <<chain, txRecentlyInBlock, commitQ, mempool, mapOrphans, calls,
                  vProcessOrphans, vPostBlock>>
    BY DEF LeaveCorral
  <2>3. CallsGo(t)
    <3>1. ~Calling(t)'
      BY DEF Calling
    <3> QED BY <3>1, CallsSame
  <2>4. Still(t)
    BY <2>3 DEF Still, ChainsStill, PoolStill
  <2>5. OrphansStill(t)
    BY PendingSame DEF OrphansStill
  <2> QED BY <2>4, <2>5, StillStep, OrphansStillStep DEF Inv2
<1>NextBlock. ASSUME NEW t \in Committers \cup Rpcs, NextBlock(t) PROVE Inv2'
  <2> USE <1>NextBlock
  <2> t \in Threads /\ Control /\ Types /\ ThreadOK(t) /\ CallOK(t) /\ pc[t] = "blocks"
    BY Kinds DEF Inv, Control, Inv2, Calls, NextBlock
  <2> Tame(t) /\ pc'[t] = "collect" /\ loc'[t].batch = Head(vPostBlock)
    BY NextBlockTame DEF PcTo, LocTo, LocKeeps
  <2> /\ chain' = chain /\ txRecentlyInBlock' = txRecentlyInBlock /\ commitQ' = commitQ
      /\ mempool' = mempool
      /\ mapOrphans' \subseteq mapOrphans /\ calls' = calls
      /\ TRUE
    BY DEF NextBlock
  <2> CallsGo(t)
    <3> calls \in [CallKinds -> Nat] /\ env' = env
      BY DEF Inv2, Calls, Tame
    <3> QED BY DEF CallsGo, CallOK, Calling, Undoing, Rewinding
  <2>n. t \notin Validators
    BY Kinds
  <2>3. Still(t)
    BY <2>n DEF Still, ChainsStill, PoolStill
  <2>4. Pending \subseteq Pending'
    <3> /\ vPostBlock # <<>> /\ vPostBlock' = Tail(vPostBlock)
        /\ vProcessOrphans' = vProcessOrphans
      BY DEF NextBlock
    <3>2. Range(vPostBlock) = Range(vPostBlock') \cup {loc'[t].batch}
      BY TailFacts DEF Types
    <3>3. loc[t].batch = {}
      BY DEF ThreadOK, CommitterOK, RpcOK
    <3> QED BY <3>2, <3>3, PendingTaken
  <2>5. NoStrandedOrphan'
    BY <2>4, OrphansStillStep DEF OrphansStill, CallsGo
  <2> QED BY <2>3, <2>5, StillStep DEF Inv2
<1>NextBatch. ASSUME NEW t \in Committers \cup Rpcs, NextBatch(t) PROVE Inv2'
  <2> USE <1>NextBatch
  <2> t \in Threads /\ Control /\ Types /\ ThreadOK(t) /\ CallOK(t)
        /\ pc[t] \in {"blocks", "batches"}
    BY Kinds DEF Inv, Control, Inv2, Calls, NextBatch
  <2> Tame(t) /\ pc'[t] = "collect" /\ loc'[t].batch = Head(vProcessOrphans)
    BY NextBatchTame DEF PcTo, LocTo, LocKeeps
  <2> /\ chain' = chain /\ txRecentlyInBlock' = txRecentlyInBlock /\ commitQ' = commitQ
      /\ mempool' = mempool
      /\ mapOrphans' = mapOrphans /\ calls' = calls
      /\ TRUE
    BY DEF NextBatch
  <2> CallsGo(t)
    <3> calls \in [CallKinds -> Nat] /\ env' = env
      BY DEF Inv2, Calls, Tame
    <3> QED BY DEF CallsGo, CallOK, Calling, Undoing, Rewinding
  <2>n. t \notin Validators
    BY Kinds
  <2>3. Still(t)
    BY <2>n DEF Still, ChainsStill, PoolStill
  <2>4. Pending \subseteq Pending'
    <3> /\ vProcessOrphans # <<>> /\ vProcessOrphans' = Tail(vProcessOrphans)
        /\ vPostBlock' = vPostBlock
      BY DEF NextBatch
    <3>2. Range(vProcessOrphans) = Range(vProcessOrphans') \cup {loc'[t].batch}
      BY TailFacts DEF Types
    <3>3. loc[t].batch = {}
      BY DEF ThreadOK, CommitterOK, RpcOK
    <3> QED BY <3>2, <3>3, PendingTaken
  <2>5. NoStrandedOrphan'
    BY <2>4, OrphansStillStep DEF OrphansStill, CallsGo
  <2> QED BY <2>3, <2>5, StillStep DEF Inv2
<1>NoMoreBatches. ASSUME NEW t \in Committers \cup Rpcs, NoMoreBatches(t) PROVE Inv2'
  <2> USE <1>NoMoreBatches
  <2> /\ t \in Threads /\ Types /\ ThreadOK(t) /\ pc[t] \in {"blocks", "batches"}
      /\ t \notin Validators
    BY Kinds DEF Inv, Control, NoMoreBatches
  <2> Tame(t) /\ pc'[t] \in {"limit", "decide"}
    BY NoMoreBatchesTame DEF PcTo
  <2> UNCHANGED <<chain, txRecentlyInBlock, commitQ, mempool, mapOrphans, calls,
                  vProcessOrphans, vPostBlock>>
    BY DEF NoMoreBatches
  <2>3. CallsGo(t)
    <3>1. ~Calling(t)'
      BY DEF Calling
    <3> QED BY <3>1, CallsSame
  <2>4. Still(t)
    BY <2>3 DEF Still, ChainsStill, PoolStill
  <2>5. OrphansStill(t)
    BY PendingSame DEF OrphansStill
  <2> QED BY <2>4, <2>5, StillStep, OrphansStillStep DEF Inv2
<1>LimitMempoolSize. ASSUME NEW t \in Committers \cup Rpcs, LimitMempoolSize(t) PROVE Inv2'
  <2> USE <1>LimitMempoolSize
  <2> /\ t \in Threads /\ Types /\ ThreadOK(t) /\ pc[t] = "limit"
      /\ t \notin Validators
    BY Kinds DEF Inv, Control, LimitMempoolSize
  <2> Tame(t) /\ pc'[t] = "idle"
    BY LimitMempoolSizeTame DEF PcTo
  <2> UNCHANGED <<chain, txRecentlyInBlock, commitQ, mapOrphans, calls,
                  vProcessOrphans, vPostBlock>>
    BY DEF LimitMempoolSize
  <2> (mempool' = mempool \/ (env.overflows /\ mempool' \subseteq mempool))
    BY DEF LimitMempoolSize
  <2>3. CallsGo(t)
    <3>1. ~Calling(t)'
      BY DEF Calling
    <3> QED BY <3>1, CallsSame
  <2>4. Still(t)
    BY <2>3 DEF Still, ChainsStill, PoolStill
  <2>5. OrphansStill(t)
    BY PendingSame DEF OrphansStill
  <2> QED BY <2>4, <2>5, StillStep, OrphansStillStep DEF Inv2
<1>PauseEnter. ASSUME NEW t \in Validators \cup Rpcs, PauseEnter(t) PROVE Inv2'
  <2> USE <1>PauseEnter
  <2> t \in Threads /\ Control /\ Types /\ ThreadOK(t) /\ CallOK(t) /\ pc[t] = "pause"
    BY Kinds DEF Inv, Control, Inv2, Calls, PauseEnter
  <2> Tame(t) /\ pc'[t] = "swap" /\ loc'[t].then = loc[t].then /\ loc'[t].batch = loc[t].batch
    BY PauseEnterTame DEF PcTo, LocTo, LocKeeps
  <2> /\ chain' = chain /\ txRecentlyInBlock' = txRecentlyInBlock /\ commitQ' = commitQ
      /\ mempool' = mempool
      /\ mapOrphans' = mapOrphans /\ calls' = calls
      /\ vProcessOrphans' = vProcessOrphans /\ vPostBlock' = vPostBlock
    BY DEF PauseEnter
  <2> CallsGo(t)
    <3>1. calls \in [CallKinds -> Nat] /\ env' = env
      BY DEF Inv2, Calls, Tame
    <3> QED BY <3>1 DEF CallsGo, CallOK, Calling, Undoing, Rewinding
  <2>3. Still(t)
    BY Kinds DEF Still, ChainsStill, PoolStill, Connecting
  <2>4. Pending \subseteq Pending'
    BY PendingKept
  <2>5. NoStrandedOrphan'
    BY <2>4, OrphansStillStep DEF OrphansStill, CallsGo
  <2> QED BY <2>3, <2>5, StillStep DEF Inv2
<1>DisconnectTip. ASSUME NEW t \in Validators, DisconnectTip(t) PROVE Inv2'
  <2> USE <1>DisconnectTip
  <2> USE Kinds
  <2> t \in Threads /\ Control /\ Types /\ ThreadOK(t) /\ CallOK(t) /\ pc[t] = "idle"
    BY DEF Inv, Control, Inv2, Calls, DisconnectTip
  <2> Tame(t) /\ pc'[t] = "pause" /\ loc'[t].then = "rewind" /\ loc'[t].batch = loc[t].batch
    BY DisconnectTipTame DEF PcTo, LocTo, LocKeeps
  <2> /\ chain' = chain /\ txRecentlyInBlock' = txRecentlyInBlock /\ commitQ' = commitQ
      /\ mempool' = mempool
      /\ mapOrphans' = mapOrphans /\ calls' = [calls EXCEPT !["disconnect"] = @ + 1]
           /\ calls["disconnect"] < env.calls["disconnect"]
      /\ vProcessOrphans' = vProcessOrphans /\ vPostBlock' = vPostBlock
    BY DEF DisconnectTip
  <2> CallsGo(t)
    <3> calls \in [CallKinds -> Nat] /\ env' = env
      BY DEF Inv2, Calls, Tame
    <3> "disconnect" \in CallKinds /\ "disconnect" \in CallKinds
      BY DEF CallKinds
    <3>2. OneMore(calls, "disconnect", calls', env.calls["disconnect"])
      BY CallMade
    <3>3. /\ calls' \in [CallKinds -> Nat] /\ calls'["disconnect"] # 0 /\ env.calls["disconnect"] # 0
          /\ calls["disconnect"] # 0 => calls'["disconnect"] # 0
      BY <3>2 DEF OneMore
    <3> QED BY <3>3 DEF CallsGo, CallOK, Calling, Undoing, Rewinding
  <2>3. Still(t)
    BY DEF Still, ChainsStill, PoolStill, Connecting
  <2>4. Pending \subseteq Pending'
    BY PendingKept
  <2>5. NoStrandedOrphan'
    BY <2>4, OrphansStillStep DEF OrphansStill, CallsGo
  <2> QED BY <2>3, <2>5, StillStep DEF Inv2
<1>SendRaw. ASSUME NEW t \in Rpcs, NEW x \in env.raw, SendRaw(t, x) PROVE Inv2'
  <2> USE <1>SendRaw
  <2> USE Kinds
  <2> t \in Threads /\ Control /\ Types /\ ThreadOK(t) /\ CallOK(t) /\ pc[t] = "idle"
    BY DEF Inv, Control, Inv2, Calls, SendRaw
  <2> Tame(t) /\ pc'[t] = "pause"
    BY SendRawTame DEF PcTo, LocTo, LocKeeps
  <2> /\ chain' = chain /\ txRecentlyInBlock' = txRecentlyInBlock /\ commitQ' = commitQ
      /\ mempool' = mempool
      /\ mapOrphans' = mapOrphans /\ calls' = [calls EXCEPT !["send"] = @ + 1]
           /\ calls["send"] < env.calls["send"]
      /\ vProcessOrphans' = vProcessOrphans /\ vPostBlock' = vPostBlock
    BY DEF SendRaw
  <2> CallsGo(t)
    <3> calls \in [CallKinds -> Nat] /\ env' = env
      BY DEF Inv2, Calls, Tame
    <3> "send" \in CallKinds /\ "disconnect" \in CallKinds
      BY DEF CallKinds
    <3>2. OneMore(calls, "send", calls', env.calls["send"])
      BY CallMade
    <3>3. /\ calls' \in [CallKinds -> Nat] /\ calls'["send"] # 0 /\ env.calls["send"] # 0
          /\ calls["disconnect"] # 0 => calls'["disconnect"] # 0
      BY <3>2 DEF OneMore
    <3> QED BY <3>3 DEF CallsGo, CallOK, Calling, Undoing, Rewinding
  <2>n. t \notin Validators
    OBVIOUS
  <2>3. Still(t)
    BY <2>n DEF Still, ChainsStill, PoolStill
  <2>4. Pending \subseteq Pending'
    <3> loc[t].batch = {}
      BY DEF ThreadOK, RpcOK
    <3> QED BY PendingKept
  <2>5. NoStrandedOrphan'
    BY <2>4, OrphansStillStep DEF OrphansStill, CallsGo
  <2> QED BY <2>3, <2>5, StillStep DEF Inv2
<1>FlushTxAdmission. ASSUME NEW t \in Rpcs, FlushTxAdmission(t) PROVE Inv2'
  <2> USE <1>FlushTxAdmission
  <2> USE Kinds
  <2> t \in Threads /\ Control /\ Types /\ ThreadOK(t) /\ CallOK(t) /\ pc[t] = "idle"
    BY DEF Inv, Control, Inv2, Calls, FlushTxAdmission
  <2> Tame(t) /\ pc'[t] = "again"
    BY FlushTxAdmissionTame DEF PcTo, LocTo, LocKeeps
  <2> /\ chain' = chain /\ txRecentlyInBlock' = txRecentlyInBlock /\ commitQ' = commitQ
      /\ mempool' = mempool
      /\ mapOrphans' = mapOrphans /\ calls' = [calls EXCEPT !["flush"] = @ + 1]
           /\ calls["flush"] < env.calls["flush"]
      /\ vProcessOrphans' = vProcessOrphans /\ vPostBlock' = vPostBlock
    BY DEF FlushTxAdmission
  <2> CallsGo(t)
    <3> calls \in [CallKinds -> Nat] /\ env' = env
      BY DEF Inv2, Calls, Tame
    <3> "flush" \in CallKinds /\ "disconnect" \in CallKinds
      BY DEF CallKinds
    <3>2. OneMore(calls, "flush", calls', env.calls["flush"])
      BY CallMade
    <3>3. /\ calls' \in [CallKinds -> Nat] /\ calls'["flush"] # 0 /\ env.calls["flush"] # 0
          /\ calls["disconnect"] # 0 => calls'["disconnect"] # 0
      BY <3>2 DEF OneMore
    <3> QED BY <3>3 DEF CallsGo, CallOK, Calling, Undoing, Rewinding
  <2>n. t \notin Validators
    OBVIOUS
  <2>3. Still(t)
    BY <2>n DEF Still, ChainsStill, PoolStill
  <2>4. Pending \subseteq Pending'
    <3> loc[t].batch = {}
      BY DEF ThreadOK, RpcOK
    <3> QED BY PendingKept
  <2>5. NoStrandedOrphan'
    BY <2>4, OrphansStillStep DEF OrphansStill, CallsGo
  <2> QED BY <2>3, <2>5, StillStep DEF Inv2
<1>FlushEnter. ASSUME NEW t \in Rpcs, FlushEnter(t) PROVE Inv2'
  <2> USE <1>FlushEnter
  <2> /\ t \in Threads /\ Types /\ ThreadOK(t) /\ pc[t] = "again"
      /\ t \notin Validators
    BY Kinds DEF Inv, Control, FlushEnter
  <2> Tame(t) /\ pc'[t] = "check"
    BY FlushEnterTame DEF PcTo
  <2> UNCHANGED <<chain, txRecentlyInBlock, commitQ, mempool, mapOrphans, calls,
                  vProcessOrphans, vPostBlock>>
    BY DEF FlushEnter
  <2>3. CallsGo(t)
    <3>1. ~Calling(t)'
      BY DEF Calling
    <3> QED BY <3>1, CallsSame
  <2>4. Still(t)
    BY <2>3 DEF Still, ChainsStill, PoolStill
  <2>5. OrphansStill(t)
    BY PendingSame DEF OrphansStill
  <2> QED BY <2>4, <2>5, StillStep, OrphansStillStep DEF Inv2
<1>FlushDecide. ASSUME NEW t \in Rpcs, FlushDecide(t) PROVE Inv2'
  <2> USE <1>FlushDecide
  <2> /\ t \in Threads /\ Types /\ ThreadOK(t) /\ pc[t] = "decide"
      /\ t \notin Validators
    BY Kinds DEF Inv, Control, FlushDecide
  <2> Tame(t) /\ pc'[t] \in {"idle", "again"}
    BY FlushDecideTame DEF PcTo
  <2> UNCHANGED <<chain, txRecentlyInBlock, commitQ, mempool, mapOrphans, calls,
                  vProcessOrphans, vPostBlock>>
    BY DEF FlushDecide
  <2>3. CallsGo(t)
    <3>1. ~Calling(t)'
      BY DEF Calling
    <3> QED BY <3>1, CallsSame
  <2>4. Still(t)
    BY <2>3 DEF Still, ChainsStill, PoolStill
  <2>5. OrphansStill(t)
    BY PendingSame DEF OrphansStill
  <2> QED BY <2>4, <2>5, StillStep, OrphansStillStep DEF Inv2
<1>AcceptDone. ASSUME NEW t \in Rpcs, AcceptDone(t) PROVE Inv2'
  <2> USE <1>AcceptDone
  <2> /\ t \in Threads /\ Types /\ ThreadOK(t) /\ pc[t] = "accepted"
      /\ t \notin Validators
    BY Kinds DEF Inv, Control, AcceptDone
  <2> Tame(t) /\ pc'[t] = "limit"
    BY AcceptDoneTame DEF PcTo
  <2> UNCHANGED <<chain, txRecentlyInBlock, commitQ, mempool, mapOrphans, calls,
                  vProcessOrphans, vPostBlock>>
    BY DEF AcceptDone
  <2>3. CallsGo(t)
    <3>1. ~Calling(t)'
      BY DEF Calling
    <3> QED BY <3>1, CallsSame
  <2>4. Still(t)
    BY <2>3 DEF Still, ChainsStill, PoolStill
  <2>5. OrphansStill(t)
    BY PendingSame DEF OrphansStill
  <2> QED BY <2>4, <2>5, StillStep, OrphansStillStep DEF Inv2
<1>FlushCheck. ASSUME NEW t \in Rpcs, FlushCheck(t) PROVE Inv2'
  <2> USE <1>FlushCheck
  <2> t \in Threads /\ Types /\ ThreadOK(t) /\ pc[t] = "check" /\ t \notin Validators
    BY Kinds DEF Inv, Control, FlushCheck
  <2> /\ Tame(t)
      /\ pc'[t] = "idle" \/ (pc'[t] = "swap" /\ loc'[t].then = "leave")
    BY FlushCheckTame DEF PcTo, LocTo
  <2> UNCHANGED <<chain, txRecentlyInBlock, commitQ, mempool, mapOrphans, calls,
                  vProcessOrphans, vPostBlock>>
    BY DEF FlushCheck
  <2>3. CallsGo(t)
    <3>1. ~Calling(t)'
      BY DEF Calling
    <3> QED BY <3>1, CallsSame
  <2>4. Still(t)
    BY <2>3 DEF Still, ChainsStill, PoolStill
  <2>5. OrphansStill(t)
    BY PendingSame DEF OrphansStill
  <2> QED BY <2>4, <2>5, StillStep, OrphansStillStep DEF Inv2
<1>EnqueueOrphan. ASSUME NEW t \in Committers \cup Rpcs, EnqueueOrphan(t) PROVE Inv2'
  <2> USE <1>EnqueueOrphan
  <2> t \in Threads /\ Types /\ ThreadOK(t) /\ pc[t] = "enqueue" /\ t \notin Validators
    BY Kinds DEF Inv, Control, EnqueueOrphan
  <2> Tame(t) /\ pc'[t] \in {"enqueue", loc[t].then}
    BY EnqueueOrphanTame DEF PcTo
  <2> loc[t].then \in {"blocks", "batches"}
    BY DEF ThreadOK, CommitterOK, RpcOK
  <2> UNCHANGED <<chain, txRecentlyInBlock, commitQ, mempool, mapOrphans, calls,
                  vProcessOrphans, vPostBlock>>
    BY DEF EnqueueOrphan
  <2>3. CallsGo(t)
    <3>1. ~Calling(t)'
      BY DEF Calling
    <3> QED BY <3>1, CallsSame
  <2>4. Still(t)
    BY <2>3 DEF Still, ChainsStill, PoolStill
  <2>5. OrphansStill(t)
    BY PendingSame DEF OrphansStill
  <2> QED BY <2>4, <2>5, StillStep, OrphansStillStep DEF Inv2
<1>AcceptCheck. ASSUME NEW t \in Rpcs, AcceptCheck(t) PROVE Inv2'
  <2> USE <1>AcceptCheck
  <2> t \in Threads /\ Types /\ ThreadOK(t) /\ pc[t] = "accept" /\ t \notin Validators
    BY Kinds DEF Inv, Control, AcceptCheck
  <2> /\ Tame(t)
      /\ \/ pc'[t] \in {"addorphan", "idle"}
         \/ pc'[t] = "insert" /\ loc'[t].tx = loc[t].tx /\ "accept" \in Verdicts(loc[t].tx)
    <3> /\ Tame(t)
        /\ \/ "accept" \in Verdicts(loc[t].tx) /\ PcTo(t, "insert") /\ LocKeeps(t)
           \/ PcTo(t, "addorphan") \/ PcTo(t, "idle")
      BY AcceptCheckTame
    <3>2. PcTo(t, "addorphan") \/ PcTo(t, "idle") => pc'[t] \in {"addorphan", "idle"}
      BY DEF PcTo
    <3> QED BY <3>2 DEF PcTo, LocKeeps, LocTo
  <2> UNCHANGED <<chain, txRecentlyInBlock, commitQ, mempool, mapOrphans, calls,
                  vProcessOrphans, vPostBlock>>
    BY DEF AcceptCheck
  <2>3. CallsGo(t)
    <3> Calling(t)
      BY DEF Calling
    <3> QED BY CallsSame
  <2>4. Still(t)
    BY <2>3, VerdictFacts DEF Still, ChainsStill, PoolStill
  <2>5. OrphansStill(t)
    BY PendingSame DEF OrphansStill
  <2> QED BY <2>4, <2>5, StillStep, OrphansStillStep DEF Inv2
<1>AcceptInsert. ASSUME NEW t \in Rpcs, AcceptInsert(t) PROVE Inv2'
  <2> USE <1>AcceptInsert
  <2> t \in Threads /\ Types /\ ThreadOK(t) /\ pc[t] = "insert" /\ t \notin Validators
    BY Kinds DEF Inv, Control, AcceptInsert
  <2> Tame(t) /\ pc'[t] = "swap"
    BY AcceptInsertTame DEF PcTo
  <2> UNCHANGED <<chain, txRecentlyInBlock, mempool, mapOrphans, calls,
                  vProcessOrphans, vPostBlock>>
    BY DEF AcceptInsert
  <2>a. commitQ' \subseteq commitQ \cup Inserting
    BY DEF AcceptInsert, Inserting
  <2>3. CallsGo(t)
    <3>1. Calling(t)
      BY DEF Calling
    <3> QED BY <3>1, CallsSame
  <2>4. Still(t)
    BY <2>a, <2>3 DEF Still, ChainsStill, PoolStill
  <2>5. OrphansStill(t)
    BY PendingSame DEF OrphansStill
  <2> QED BY <2>4, <2>5, StillStep, OrphansStillStep DEF Inv2
<1>AddOrphanByRpc. ASSUME NEW t \in Rpcs, AddOrphanByRpc(t) PROVE Inv2'
  <2> USE <1>AddOrphanByRpc
  <2> t \in Threads /\ Types /\ ThreadOK(t) /\ pc[t] = "addorphan" /\ t \notin Validators
    BY Kinds DEF Inv, Control, AddOrphanByRpc
  <2> Tame(t) /\ pc'[t] = "idle" /\ env' = env
    BY AddOrphanByRpcTame DEF PcTo, Tame
  <2> UNCHANGED <<chain, txRecentlyInBlock, mempool, commitQ, calls,
                  vProcessOrphans, vPostBlock>>
    BY DEF AddOrphanByRpc
  <2>3. CallsGo(t)
    <3> ~Calling(t)'
      BY DEF Calling
    <3> QED BY CallsSame
  <2>4. Still(t)
    BY <2>3 DEF Still, ChainsStill, PoolStill
  <2>5. NoStrandedOrphan'
    <3> env.alloworphans
      BY DEF ThreadOK, RpcOK
    <3> QED BY DEF NoStrandedOrphan
  <2> QED BY <2>4, <2>5, StillStep DEF Inv2
<1>WorkerTake. ASSUME NEW t \in Workers, WorkerTake(t) PROVE Inv2'
  <2> USE <1>WorkerTake
  <2> DEFINE q == IF queues.orphan # <<>> THEN queues.orphan ELSE queues.in
             x == Head(q)
  <2> /\ t \in Threads /\ Types /\ ThreadOK(t) /\ pc[t] = "take" /\ t \notin Validators
      /\ t \notin Rpcs /\ queues \in QueueType
    BY Kinds DEF Inv, Control, Round, WorkerTake
  <2> /\ Tame(t)
      /\ \/ pc'[t] \in {"take", "idle"}
         \/ \E v \in Verdicts(x) : /\ pc'[t] = "apply" /\ loc'[t].tx = x
                                   /\ loc'[t].verdict = v
    <3>1. /\ Tame(t)
          /\ \/ pc'[t] \in {"take", "idle"}
             \/ /\ PcTo(t, "apply")
                /\ \E v \in Verdicts(x) :
                      LocTo(t, x, v, loc[t].batch, loc[t].finals, loc[t].children, loc[t].then)
      BY WorkerTakeTame
    <3> QED BY <3>1 DEF PcTo, LocTo
  <2> UNCHANGED <<chain, txRecentlyInBlock, commitQ, mempool, mapOrphans, calls,
                  vProcessOrphans, vPostBlock>>
    BY DEF WorkerTake
  <2> HIDE DEF x
  <2>3. CallsGo(t)
    BY CallsSame
  <2>4. Still(t)
    BY <2>3, VerdictFacts DEF Still, ChainsStill, PoolStill
  <2>5. OrphansStill(t)
    BY PendingSame DEF OrphansStill
  <2> QED BY <2>4, <2>5, StillStep, OrphansStillStep DEF Inv2
<1>WorkerApply. ASSUME NEW t \in Workers, WorkerApply(t) PROVE Inv2'
  <2> USE <1>WorkerApply
  <2> /\ t \in Threads /\ Types /\ ThreadOK(t) /\ pc[t] = "apply" /\ t \notin Validators
      /\ t \notin Rpcs
    BY Kinds DEF Inv, Control, WorkerApply
  <2> Tame(t) /\ pc'[t] \in {"take", "idle"}
    BY WorkerApplyTame
  <2> UNCHANGED <<chain, txRecentlyInBlock, mempool, calls, vProcessOrphans, vPostBlock>>
    BY DEF WorkerApply
  <2>a. commitQ' \subseteq commitQ \cup Accepted
    BY DEF WorkerApply, Accepted
  <2>b. \A o \in mapOrphans' : HaveInputs(o) => o \in mapOrphans
    BY DEF WorkerApply, Inv2, MissingIsMissing
  <2>3. CallsGo(t)
    BY CallsSame
  <2>4. Still(t)
    BY <2>a, <2>3 DEF Still, ChainsStill, PoolStill
  <2>5. OrphansStill(t)
    BY <2>b, PendingSame DEF OrphansStill
  <2> QED BY <2>4, <2>5, StillStep, OrphansStillStep DEF Inv2
<1>Collect. ASSUME NEW t \in Committers \cup Rpcs, Collect(t) PROVE Inv2'
  <2> USE <1>Collect
  <2> DEFINE found == {o \in mapOrphans : (Inputs(o) \cup Reads[o]) \cap loc[t].batch # {}}
             finals == {n \in mapNonFinals : Final(n)}
  <2> t \in Threads /\ Types /\ ThreadOK(t) /\ pc[t] = "collect" /\ t \notin Validators
    BY Kinds DEF Inv, Control, Collect
  <2> /\ Tame(t) /\ pc'[t] = "erase" /\ loc'[t].batch = {}
      /\ loc'[t].finals = finals /\ loc'[t].children = found \ finals
    BY CollectTame DEF PcTo, LocTo
  <2> UNCHANGED <<chain, txRecentlyInBlock, commitQ, mempool, mapOrphans, calls,
                  vProcessOrphans, vPostBlock>>
    BY DEF Collect
  <2>3. CallsGo(t)
    <3> ~Calling(t)'
      BY DEF Calling
    <3> QED BY CallsSame
  <2>4. Still(t)
    BY <2>3 DEF Still, ChainsStill, PoolStill
  <2>5. found \subseteq Collected(t)'
    BY DEF Collected
  <2>6. Pending \subseteq Pending' \cup loc[t].batch
    <3> \A u \in Threads \ {t} : loc'[u] = loc[u]
      BY DEF Tame
    <3> QED BY DEF Pending
  <2>7. OrphansStill(t)
    BY <2>5, <2>6 DEF OrphansStill
  <2> QED BY <2>4, <2>7, StillStep, OrphansStillStep DEF Inv2
<1>Erase. ASSUME NEW t \in Committers \cup Rpcs, Erase(t) PROVE Inv2'
  <2> USE <1>Erase
  <2> t \in Threads /\ Types /\ ThreadOK(t) /\ pc[t] = "erase" /\ t \notin Validators
    BY Kinds DEF Inv, Control, Erase
  <2> Tame(t) /\ pc'[t] = "enqueue"
    BY EraseTame DEF PcTo
  <2> UNCHANGED <<chain, txRecentlyInBlock, commitQ, mempool, calls,
                  vProcessOrphans, vPostBlock>>
    BY DEF Erase
  <2>3. CallsGo(t)
    <3>1. ~Calling(t)'
      BY DEF Calling
    <3> QED BY <3>1, CallsSame
  <2>4. Still(t)
    BY <2>3 DEF Still, ChainsStill, PoolStill
  <2>5. mapOrphans' = mapOrphans \ Collected(t)
    BY DEF Erase, Collected
  <2>6. OrphansStill(t)
    BY <2>5, PendingSame DEF OrphansStill
  <2> QED BY <2>4, <2>6, StillStep, OrphansStillStep DEF Inv2

\* The committed transactions become a batch whose orphans will be processed.
<1>CommitSwap. ASSUME NEW t \in Committers \cup Validators \cup Rpcs, CommitSwap(t) PROVE Inv2'
  <2> USE <1>CommitSwap
  <2> USE Kinds
  <2> t \in Threads /\ Types /\ ThreadOK(t) /\ pc[t] = "swap" /\ Control
    BY DEF Inv, Control, CommitSwap
  <2> /\ Tame(t) /\ pc'[t] = "requeue" /\ loc'[t].then = loc[t].then
      /\ loc'[t].batch = loc[t].batch
    BY CommitSwapTame DEF PcTo, LocTo, LocKeeps
  <2>2. UNCHANGED <<chain, txRecentlyInBlock, mapOrphans, calls, vPostBlock, env>>
    BY DEF CommitSwap
  <2>3. /\ mempool' = mempool \cup commitQ /\ commitQ' = {}
        /\ vProcessOrphans' = Append(vProcessOrphans, commitQ)
    BY DEF CommitSwap
  <2>4. \A u \in Threads : u = t \/ (pc'[u] = pc[u] /\ loc'[u] = loc[u])
    BY DEF Tame
  <2>5. Calls'
    <3> calls \in [CallKinds -> Nat] /\ CallOK(t)
      BY DEF Inv2, Calls
    <3>2. CallsGo(t)
      BY <2>2 DEF CallsGo, CallOK, Calling, Undoing, Rewinding
    <3> QED BY <3>2, CallsKept DEF Inv2
  <2>6. Chains'
    <3> ChainsStill(t)
      BY <2>2 DEF ChainsStill, Connecting
    <3> QED BY ChainsKept
  <2>7. /\ UtxoBefore' = UtxoBefore /\ Utxo' = Utxo
        /\ \A x : HaveInputs(x) => HaveInputs(x)'
    BY <2>2, <2>3, ChainSame
  <2>8. Calm' <=> Calm
    BY <2>2 DEF Calm, Apart
  <2>9. Settled'
    <3> Accepted' \subseteq Accepted /\ Inserting' \subseteq Inserting
      BY <2>4 DEF Accepted, Inserting
    <3>2. TipIsSettled' => TipIsSettled
      BY <2>4 DEF TipIsSettled
    <3> QED BY <2>3, <2>7, <2>8, <3>2 DEF Inv2, Settled
  <2>10. Removing'
    <3> SUFFICES ASSUME Calm, NEW v \in Validators, pc'[v] = "remove"
                 PROVE  \A x \in mempool' : /\ Inputs(x) \subseteq UtxoBefore \cup mempool'
                                            /\ Reads[x] \subseteq UtxoBefore
      BY <2>7, <2>8 DEF Removing
    <3> pc[v] = "remove"
      BY <2>4
    <3>2. mempool' = mempool
      BY <2>3, CalmTip
    <3> QED BY <3>2 DEF Inv2, Removing
  <2>11. MissingIsMissing'
    <3> \A w \in Workers : pc[w] # "apply"
      BY CommitAlone
    <3> QED BY <2>4 DEF MissingIsMissing
  <2>12. NoStrandedOrphan'
    <3> SUFFICES ASSUME calls'["disconnect"] = 0, ~env'.alloworphans, NEW o \in mapOrphans',
                        HaveInputs(o)'
                 PROVE  \/ (Inputs(o) \cup Reads[o]) \cap Pending' # {}
                        \/ \E u \in Threads : pc'[u] = "erase" /\ o \in Collected(u)'
      BY DEF NoStrandedOrphan
    <3> Range(vProcessOrphans') = Range(vProcessOrphans) \cup {commitQ}
      <4>1. vProcessOrphans \in Seq(SUBSET Txs) /\ commitQ \in SUBSET Txs
        BY DEF Types
      <4>2. Range(Append(vProcessOrphans, commitQ)) = Range(vProcessOrphans) \cup {commitQ}
        BY <4>1, BatchAppended
      <4> QED BY <2>3, <4>2
    <3>2. Pending \subseteq Pending' /\ commitQ \subseteq Pending'
      <4>1. Pending \subseteq Pending'
        BY <2>2, PendingKept
      <4> QED BY <4>1 DEF Pending
    <3>3. CASE HaveInputs(o)
      <4>1. \/ (Inputs(o) \cup Reads[o]) \cap Pending # {}
            \/ \E u \in Threads : pc[u] = "erase" /\ o \in Collected(u)
        BY <2>2, <3>3 DEF Inv2, NoStrandedOrphan
      <4>2. ASSUME NEW u \in Threads, pc[u] = "erase", o \in Collected(u)
            PROVE  pc'[u] = "erase" /\ o \in Collected(u)'
        <5>1. pc'[u] = pc[u] /\ loc'[u] = loc[u]
          BY <2>4, <4>2
        <5> QED BY <4>2, <5>1 DEF Collected
      <4> QED BY <3>2, <4>1, <4>2
    <3>4. CASE ~HaveInputs(o)
      <4>1. Inputs(o) \cap commitQ # {}
        BY <2>3, <2>7, <3>4 DEF HaveInputs
      <4> QED BY <3>2, <4>1
    <3> QED BY <3>3, <3>4
  <2> QED BY <2>5, <2>6, <2>9, <2>10, <2>11, <2>12 DEF Inv2

\* A valid block has been found.
<1>ConnectBlock. ASSUME NEW t \in Validators, NEW b \in env.blocks, ConnectBlock(t, b) PROVE Inv2'
  <2> USE <1>ConnectBlock
  <2> /\ t \in Threads /\ Types /\ ThreadOK(t) /\ pc[t] = "idle" /\ Control
      /\ \A v \in Validators : v = t
    BY Kinds, AdmissionAssumption DEF Inv, Control, ConnectBlock
  <2> Tame(t) /\ pc'[t] = "pause" /\ loc'[t].then = "flush" /\ loc'[t].batch = b
    BY ConnectBlockTame DEF PcTo, LocTo
  <2> UNCHANGED <<chain, mapOrphans, commitQ, mempool, vProcessOrphans, vPostBlock, env>>
    BY DEF ConnectBlock
  <2> /\ txRecentlyInBlock' = txRecentlyInBlock \cup b /\ ValidBlock(b)
      /\ calls' = [calls EXCEPT !["connect"] = @ + 1]
      /\ calls["connect"] < env.calls["connect"]
    BY DEF ConnectBlock
  <2> loc[t].batch = {}
    BY DEF ThreadOK, ValidatorOK, Connecting
  <2> CallsGo(t)
    <3> calls \in [CallKinds -> Nat]
      BY DEF Inv2, Calls
    <3> "connect" \in CallKinds /\ "disconnect" \in CallKinds /\ "disconnect" # "connect"
      BY DEF CallKinds
    <3> /\ calls' \in [CallKinds -> Nat] /\ calls'["disconnect"] = calls["disconnect"]
        /\ env.calls["connect"] # 0
      <4>1. OneMore(calls, "connect", calls', env.calls["connect"])
        BY CallMade
      <4> QED BY <4>1 DEF OneMore
    <3> QED BY Kinds DEF CallsGo, CallOK, Undoing, Rewinding
  <2>6. Calls'
    BY CallsKept DEF Inv2
  <2>7. Chains'
    <3> /\ Confirmed' = Confirmed /\ ValidBlock(b)'
        /\ ChainOK' <=> ChainOK
      BY ChainSame
    <3> TipOK(t)'
      BY DEF TipOK
    <3> Held = {} /\ Held' = b
      BY DEF Held
    <3> QED BY DEF Inv2, Chains
  <2>8. Settled' /\ Removing' /\ MissingIsMissing'
    <3> PoolStill(t)
      BY DEF PoolStill
    <3> QED BY PoolKept
  <2>9. NoStrandedOrphan'
    <3> Pending \subseteq Pending'
      BY PendingKept
    <3> OrphansStill(t)
      BY DEF OrphansStill, CallsGo
    <3> QED BY OrphansStillStep
  <2> QED BY <2>6, <2>7, <2>8, <2>9 DEF Inv2

\* The coins change before the txpool does.
<1>FlushCoins. ASSUME NEW t \in Validators, FlushCoins(t) PROVE Inv2'
  <2> USE <1>FlushCoins
  <2> USE Kinds
  <2> DEFINE b == loc[t].batch
  <2> /\ t \in Threads /\ Types /\ ThreadOK(t) /\ pc[t] = "flush" /\ Control
      /\ \A v \in Validators : v = t
    BY AdmissionAssumption DEF Inv, Control, FlushCoins
  <2> Tame(t) /\ pc'[t] = "remove" /\ loc'[t].batch = b
    BY FlushCoinsTame DEF PcTo, LocTo, LocKeeps
  <2> /\ UNCHANGED <<mapOrphans, commitQ, mempool, calls, txRecentlyInBlock,
                     vProcessOrphans, vPostBlock, env>>
      /\ chain' = Append(chain, b)
    BY DEF FlushCoins
  <2>3. ValidBlock(b) /\ TipOK(t) /\ ChainOK
    <3> Connecting(t)
      BY DEF Connecting
    <3> QED BY DEF Inv2, Chains, TipOK
  <2>4. b \in env.blocks /\ chain \in Seq(env.blocks)
    BY DEF ThreadOK, ValidatorOK, Connecting, Types
  <2> HIDE DEF b
  <2>5. /\ chain' # <<>> /\ chain'[Len(chain')] = b
        /\ Confirmed' = Confirmed \cup b /\ Before' = Confirmed
        /\ DOMAIN chain' = DOMAIN chain \cup {Len(chain')}
        /\ \A i \in DOMAIN chain :
              /\ chain'[i] = chain[i]
              /\ UNION {chain'[j] : j \in 1 .. i} = UNION {chain[j] : j \in 1 .. i}
        /\ UNION {chain'[j] : j \in 1 .. Len(chain')} = Confirmed \cup b
    <3> chain' = Append(chain, b)
      OBVIOUS
    <3> Grown(chain, b, chain')
      BY <2>4, ChainGrows
    <3> QED BY DEF Grown, Confirmed, Before
  <2>6. SpentBy(b) \subseteq BaseCoins \cup Confirmed \cup b
    <3>1. \A x \in b : Inputs(x) \subseteq BaseCoins \cup Confirmed \cup b
      BY <2>3 DEF ValidBlock, Utxo
    <3> QED BY <3>1 DEF SpentBy
  <2>7. Calls'
    <3> calls \in [CallKinds -> Nat] /\ CallOK(t)
      BY DEF Inv2, Calls
    <3> CallsGo(t)
      BY DEF CallsGo, CallOK, Undoing, Rewinding
    <3> QED BY CallsKept DEF Inv2
  <2>8. Chains'
    <3> ChainOK'
      <4> SUFFICES ASSUME NEW i \in DOMAIN chain'
                   PROVE  SpentBy(chain'[i]) \subseteq BaseCoins
                            \cup UNION {chain'[j] : j \in 1 .. i}
        BY DEF ChainOK, SpentBy
      <4>1. CASE i \in DOMAIN chain
        <5>1. SpentBy(chain[i]) \subseteq BaseCoins \cup UNION {chain[j] : j \in 1 .. i}
          BY <2>3, <4>1 DEF ChainOK
        <5> QED BY <2>5, <4>1, <5>1
      <4>2. CASE i = Len(chain')
        <5>1. chain'[i] = b /\ UNION {chain'[j] : j \in 1 .. i} = Confirmed \cup b
          BY <2>5, <4>2
        <5> QED BY <2>6, <5>1
      <4>3. i \in DOMAIN chain \/ i = Len(chain')
        BY <2>5
      <4> QED BY <4>1, <4>2, <4>3
    <3> TipOK(t)'
      <4>1. chain' # <<>> /\ chain'[Len(chain')] = b /\ Before' = Confirmed
        BY <2>5
      <4> QED BY <2>3, <4>1 DEF TipOK, ValidBlock, Connecting
    <3>3. Held' = b /\ Held = b
      BY DEF Held, b
    <3>4. Confirmed' = Confirmed \cup b
      BY <2>5
    <3> QED BY <3>3, <3>4 DEF Inv2, Chains
  <2>9. Utxo' \subseteq Utxo \cup b /\ UtxoBefore' = Utxo
    <3>0. Confirmed' = Confirmed \cup b /\ Before' = Confirmed /\ Confirmed \subseteq Confirmed'
      BY <2>5
    <3> SpentBy(Confirmed)' = SpentBy(Confirmed') /\ SpentBy(Before)' = SpentBy(Before')
      BY DEF SpentBy
    <3> SpentBy(Confirmed) \subseteq SpentBy(Confirmed')
      BY <3>0, SpentByGrows
    <3>3. SpentBy(Before') = SpentBy(Confirmed)
      BY <3>0
    <3> QED BY <3>0, <3>3 DEF Utxo, UtxoBefore
  <2>10. Settled'
    BY DEF Settled, TipIsSettled
  <2>11. Removing'
    <3> TipIsSettled
      BY DEF TipIsSettled
    <3> Calm => \A x \in mempool : HaveInputs(x)
      BY DEF Inv2, Settled
    <3>3. Calm' <=> Calm
      BY DEF Calm, Apart
    <3> QED BY <2>9, <3>3 DEF Removing, HaveInputs
  <2>12. MissingIsMissing'
    <3> \A w \in Workers : pc[w] # "apply" /\ w # t /\ w \in Threads
      BY CommitAlone DEF PastSwap
    <3> \A w \in Workers : pc'[w] # "apply"
      BY DEF Tame
    <3> QED BY DEF MissingIsMissing
  <2>13. NoStrandedOrphan'
    <3> SUFFICES ASSUME calls'["disconnect"] = 0, ~env'.alloworphans, NEW o \in mapOrphans',
                        HaveInputs(o)'
                 PROVE  \/ (Inputs(o) \cup Reads[o]) \cap Pending' # {}
                        \/ \E u \in Threads : pc'[u] = "erase" /\ o \in Collected(u)'
      BY DEF NoStrandedOrphan
    <3> Pending \subseteq Pending' /\ b \subseteq Pending'
      <4>1. Pending \subseteq Pending'
        BY PendingKept DEF b
      <4> QED BY <4>1 DEF Pending
    <3> CASE HaveInputs(o)
      <4>1. \/ (Inputs(o) \cup Reads[o]) \cap Pending # {}
            \/ \E u \in Threads : pc[u] = "erase" /\ o \in Collected(u)
        BY DEF Inv2, NoStrandedOrphan
      <4>2. ASSUME NEW u \in Threads, pc[u] = "erase", o \in Collected(u)
            PROVE  pc'[u] = "erase" /\ o \in Collected(u)'
        <5>1. pc'[u] = pc[u] /\ loc'[u] = loc[u]
          BY <4>2 DEF Tame
        <5> QED BY <4>2, <5>1 DEF Collected
      <4> QED BY <4>1, <4>2
    <3>3. CASE ~HaveInputs(o)
      <4>1. (Inputs(o) \cup Reads[o]) \cap b # {}
        BY <2>9, <3>3 DEF HaveInputs
      <4> QED BY <4>1
    <3> QED BY <3>3
  <2> QED BY <2>7, <2>8, <2>10, <2>11, <2>12, <2>13 DEF Inv2

\* removeForBlock makes the txpool fit the coins again.
<1>RemoveForBlock. ASSUME NEW t \in Validators, RemoveForBlock(t) PROVE Inv2'
  <2> USE <1>RemoveForBlock
  <2> USE Kinds
  <2> /\ t \in Threads /\ Types /\ ThreadOK(t) /\ pc[t] = "remove" /\ Control
      /\ \A v \in Validators : v = t
    BY AdmissionAssumption DEF Inv, Control, RemoveForBlock
  <2> Tame(t) /\ pc'[t] = "idle" /\ loc'[t].batch = {}
    BY RemoveForBlockTame DEF PcTo, LocRests, LocTo
  <2> /\ UNCHANGED <<chain, commitQ, mapOrphans, txRecentlyInBlock, vProcessOrphans, calls, env>>
      /\ mempool' = mempool \ RemovedForBlock(loc[t].batch)
      /\ vPostBlock' = Append(vPostBlock, loc[t].batch)
    BY DEF RemoveForBlock
  <2>3. CallsGo(t)
    <3> calls \in [CallKinds -> Nat]
      BY DEF Inv2, Calls
    <3> QED BY DEF CallsGo, CallOK, Undoing, Rewinding
  <2>4. Calls'
    BY <2>3, CallsKept DEF Inv2
  <2> /\ Confirmed' = Confirmed /\ Utxo' = Utxo
      /\ ChainOK' <=> ChainOK
    BY ChainSame
  <2>6. Chains'
    <3> TipOK(t)'
      BY DEF TipOK, Connecting
    <3> Held \subseteq Confirmed
      <4> chain # <<>> /\ loc[t].batch = chain[Len(chain)] /\ chain \in Seq(env.blocks)
        BY DEF Inv2, Chains, TipOK, Types
      <4> loc[t].batch \subseteq Confirmed
        BY TipOnTop DEF Confirmed
      <4> QED BY DEF Held
    <3> QED BY DEF Inv2, Chains
  <2>7. Settled'
    <3> SUFFICES ASSUME Calm
                 PROVE  \A x \in mempool' \cup commitQ' \cup Accepted' \cup Inserting' :
                          HaveInputs(x)'
      BY DEF Settled, Calm, Apart
    <3> commitQ = {} /\ Accepted = {} /\ Inserting = {}
      BY CalmTip
    <3> Accepted' \subseteq Accepted /\ Inserting' \subseteq Inserting
      BY DEF Accepted, Inserting, Tame
    <3>3. ASSUME NEW x \in mempool' PROVE HaveInputs(x)'
      <4> x \in mempool \ RemovedForBlock(loc[t].batch)
        OBVIOUS
      <4> Inputs(x) \subseteq Utxo \cup mempool' /\ Reads[x] \subseteq Utxo
        BY LeftHaveInputs
      <4> QED BY DEF HaveInputs
    <3> QED BY <3>3
  <2>8. Removing'
    BY DEF Removing
  <2>9. MissingIsMissing'
    <3> \A w \in Workers : pc[w] # "apply" /\ w # t /\ w \in Threads
      BY CommitAlone DEF PastSwap
    <3> \A w \in Workers : pc'[w] # "apply"
      BY DEF Tame
    <3> QED BY DEF MissingIsMissing
  <2>10. NoStrandedOrphan'
    <3> Pending \subseteq Pending'
      <4> Range(vPostBlock') = Range(vPostBlock) \cup {loc[t].batch}
        <5>1. loc[t].batch \in SUBSET Txs /\ vPostBlock \in Seq(SUBSET Txs)
          BY DEF Types, Locals
        <5> QED BY <5>1, BatchAppended
      <4> \A u \in Threads : u = t \/ loc'[u] = loc[u]
        BY DEF Tame
      <4> QED BY DEF Pending
    <3> OrphansStill(t)
      BY DEF OrphansStill
    <3> QED BY OrphansStillStep
  <2> QED BY <2>4, <2>6, <2>7, <2>8, <2>9, <2>10 DEF Inv2

\* Disconnecting: the txpool is about to be emptied.
<1>RewindCoins. ASSUME NEW t \in Validators, RewindCoins(t) PROVE Inv2'
  <2> USE <1>RewindCoins
  <2> USE Kinds
  <2> /\ t \in Threads /\ Types /\ ThreadOK(t) /\ pc[t] = "rewind" /\ Control
      /\ \A v \in Validators : v = t
    BY AdmissionAssumption DEF Inv, Control, RewindCoins
  <2> chain # <<>>
    BY DEF Control, Rewinding
  <2> Tame(t) /\ pc'[t] = "resubmit"
    BY RewindCoinsTame DEF PcTo, LocTo
  <2> /\ UNCHANGED <<calls, env>> /\ txRecentlyInBlock' = {}
      /\ chain' = SubSeq(chain, 1, Len(chain) - 1)
    BY DEF RewindCoins
  <2> calls \in [CallKinds -> Nat] /\ CallOK(t) /\ calls["disconnect"] # 0
    BY DEF Inv2, Calls, CallOK, Undoing, Rewinding
  <2>4. Calls'
    <3> CallsGo(t)
      BY DEF CallsGo, CallOK, Undoing, Rewinding
    <3> QED BY CallsKept DEF Inv2
  <2>5. Chains'
    <3> ChainOK'
      <4> SUFFICES ASSUME NEW i \in DOMAIN chain'
                   PROVE  SpentBy(chain'[i]) \subseteq BaseCoins
                            \cup UNION {chain'[j] : j \in 1 .. i}
        BY DEF ChainOK, SpentBy
      <4> /\ i \in DOMAIN chain /\ chain'[i] = chain[i]
          /\ {chain'[j] : j \in 1 .. i} = {chain[j] : j \in 1 .. i}
        <5>1. chain \in Seq(env.blocks)
          BY DEF Types
        <5>2. Shrunk(chain, chain')
          BY <5>1, ChainShrinks
        <5> QED BY <5>2 DEF Shrunk
      <4>2. SpentBy(chain[i]) \subseteq BaseCoins \cup UNION {chain[j] : j \in 1 .. i}
        BY DEF Inv2, Chains, ChainOK
      <4> QED BY <4>2
    <3> TipOK(t)'
      BY DEF TipOK, Connecting
    <3> QED BY DEF Chains
  <2>6. Settled' /\ Removing'
    BY DEF Settled, Removing, TipIsSettled
  <2>7. MissingIsMissing'
    <3> \A w \in Workers : pc[w] # "apply" /\ w # t /\ w \in Threads
      BY CommitAlone DEF PastSwap
    <3> \A w \in Workers : pc'[w] # "apply"
      BY DEF Tame
    <3> QED BY DEF MissingIsMissing
  <2>8. NoStrandedOrphan'
    BY DEF NoStrandedOrphan
  <2> QED BY <2>4, <2>5, <2>6, <2>7, <2>8 DEF Inv2

\* What the block had goes back through the queues; the txpool is emptied.
<1>Resubmit. ASSUME NEW t \in Validators, Resubmit(t) PROVE Inv2'
  <2> USE <1>Resubmit
  <2> USE Kinds
  <2> /\ t \in Threads /\ Types /\ ThreadOK(t) /\ pc[t] = "resubmit" /\ Control
      /\ \A v \in Validators : v = t
    BY AdmissionAssumption DEF Inv, Control, Resubmit
  <2> Tame(t) /\ pc'[t] = "idle"
    BY ResubmitTame DEF PcTo
  <2> /\ UNCHANGED <<chain, txRecentlyInBlock, calls, env>> /\ mempool' = {}
      /\ commitQ' \subseteq commitQ
    BY DEF Resubmit
  <2> calls \in [CallKinds -> Nat] /\ CallOK(t) /\ calls["disconnect"] # 0
    BY DEF Inv2, Calls, CallOK, Undoing
  <2>4. Calls'
    <3> CallsGo(t)
      BY DEF CallsGo, CallOK, Undoing, Rewinding
    <3> QED BY CallsKept DEF Inv2
  <2>5. Chains'
    <3> ChainOK' <=> ChainOK
      BY ChainSame
    <3> TipOK(t)'
      BY DEF TipOK, Connecting
    <3>3. txRecentlyInBlock' = {}
      BY DEF Inv2, Chains, TipOK
    <3> QED BY <3>3 DEF Inv2, Chains
  <2>6. Settled'
    <3> SUFFICES ASSUME Calm
                 PROVE  \A x \in mempool' \cup commitQ' \cup Accepted' \cup Inserting' :
                          HaveInputs(x)'
      BY DEF Settled, Calm, Apart
    <3> commitQ = {} /\ Accepted = {} /\ Inserting = {}
      BY CalmTip
    <3> Accepted' \subseteq Accepted /\ Inserting' \subseteq Inserting
      BY DEF Accepted, Inserting, Tame
    <3> QED OBVIOUS
  <2>7. Removing'
    BY DEF Removing
  <2>8. MissingIsMissing'
    <3> \A w \in Workers : pc[w] # "apply" /\ w # t /\ w \in Threads
      BY CommitAlone DEF PastSwap
    <3> \A w \in Workers : pc'[w] # "apply"
      BY DEF Tame
    <3> QED BY DEF MissingIsMissing
  <2>9. NoStrandedOrphan'
    BY DEF NoStrandedOrphan
  <2> QED BY <2>4, <2>5, <2>6, <2>7, <2>8, <2>9 DEF Inv2

\* One step for each kind of thread.
<1>ProcessOrphans. ASSUME NEW t \in Committers \cup Rpcs, ProcessOrphans(t) PROVE Inv2'
  BY <1>ProcessOrphans, <1>LeaveCorral, <1>NextBlock, <1>NextBatch, <1>NoMoreBatches, <1>Collect,
     <1>Erase, <1>EnqueueOrphan DEF ProcessOrphans
<1>Commit. ASSUME NEW t \in Committers \cup Validators \cup Rpcs, Commit(t) PROVE Inv2'
  BY <1>Commit, <1>CommitSwap, <1>CommitRequeue DEF Commit
<1>Worker. ASSUME NEW t \in Workers, Worker(t) PROVE Inv2'
  BY <1>Worker, <1>WorkerEnter, <1>WorkerTake, <1>WorkerApply, <1>WorkerLeave DEF Worker
<1>Committer. ASSUME NEW t \in Committers, Committer(t) PROVE Inv2'
  <2> USE <1>Committer
  <2>1. t \in Committers \cup Validators \cup Rpcs /\ t \in Committers \cup Rpcs
    OBVIOUS
  <2> QED
    BY <2>1, <1>CommitterEnter, <1>Commit, <1>ProcessOrphans, <1>LimitMempoolSize
       DEF Committer
<1>Validator. ASSUME NEW t \in Validators, Validator(t) PROVE Inv2'
  <2> USE <1>Validator
  <2>1. t \in Committers \cup Validators \cup Rpcs /\ t \in Validators \cup Rpcs
    OBVIOUS
  <2> QED
    BY <2>1, <1>ConnectBlock, <1>DisconnectTip, <1>PauseEnter, <1>Commit, <1>FlushCoins,
       <1>RemoveForBlock, <1>RewindCoins, <1>Resubmit DEF Validator
<1>Rpc. ASSUME NEW t \in Rpcs, Rpc(t) PROVE Inv2'
  <2> USE <1>Rpc
  <2> /\ t \in Committers \cup Validators \cup Rpcs /\ t \in Validators \cup Rpcs
      /\ t \in Committers \cup Rpcs
    OBVIOUS
  <2> CASE \/ \E x \in env.raw : SendRaw(t, x)
           \/ FlushTxAdmission(t)
           \/ PauseEnter(t) \/ Commit(t)
           \/ AcceptCheck(t) \/ AcceptInsert(t) \/ AcceptDone(t) \/ AddOrphanByRpc(t)
    BY <1>SendRaw, <1>FlushTxAdmission, <1>PauseEnter, <1>Commit, <1>AcceptCheck,
       <1>AcceptInsert, <1>AcceptDone, <1>AddOrphanByRpc
  <2> CASE \/ FlushEnter(t) \/ FlushCheck(t) \/ ProcessOrphans(t) \/ FlushDecide(t)
           \/ LimitMempoolSize(t)
    BY <1>FlushEnter, <1>FlushCheck, <1>ProcessOrphans, <1>FlushDecide, <1>LimitMempoolSize
  <2> QED BY DEF Rpc
<1>Nobody. ASSUME UNCHANGED vars \/ \E x \in Txs : Arrive(x) PROVE Inv2'
  <2>1. UNCHANGED <<commitQ, mempool, chain, mapOrphans, txRecentlyInBlock,
                    vProcessOrphans, vPostBlock, pc, loc, calls, env>>
    BY <1>Nobody DEF vars, Arrive, poolVars, orphanVars, filterVars, batchVars
  <2> QED BY <2>1, NobodyGoes
<1> QED BY <1>Nobody, <1>Worker, <1>Committer, <1>Validator, <1>Rpc DEF Next

\* What Inv2 is for.
LEMMA Inv2PoolIsConsistent == Inv2 => PoolIsConsistent
BY DEF Inv2, Settled, Calm, PoolIsConsistent
=============================================================================
