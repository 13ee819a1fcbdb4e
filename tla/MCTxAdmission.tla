--------------------------- MODULE MCTxAdmission ---------------------------
(***************************************************************************)
(* Small instances of TxAdmission.                                         *)
(*   p spends the coin x and is the parent of c; d spends x too; s spends  *)
(*   y and z, which collide in the filter; l spends z, reads x and is      *)
(*   final in the second block.                                            *)
(***************************************************************************)
EXTENDS TxAdmission, TLC

CONSTANTS w1, w2, commit, validator, r1, r2, p, c, d, s, l, x, y, z

MCRegions == {1, 2, 3}
MCBase == {x, y, z}
MCSpends == p :> <<x>> @@ c :> <<p>> @@ d :> <<x>> @@ s :> <<y, z>> @@ l :> <<z>>
MCReads == p :> {} @@ c :> {} @@ d :> {} @@ s :> {} @@ l :> {x}
MCBits == x :> {1, 2} @@ y :> {2, 3} @@ z :> {2, 3} @@ p :> {1, 4} @@ c :> {4, 5}
          @@ d :> {5, 6} @@ s :> {6, 7} @@ l :> {1, 7}
MCFinal == p :> 1 @@ c :> 1 @@ d :> 1 @@ s :> 1 @@ l :> 2

Only(S, f) == [t \in S |-> f[t]]
Once(S, T) == [t \in T |-> IF t \in S THEN 1 ELSE 0]
Calls(connect, disconnect, send, flush) ==
    "connect" :> connect @@ "disconnect" :> disconnect @@ "send" :> send @@ "flush" :> flush
Quiet == [arrivals |-> <<>>, calls |-> Calls(0, 0, 0, 0), raw |-> {}, blocks |-> {},
          overflows |-> FALSE, alloworphans |-> FALSE, rollbacks |-> FALSE]

\* Two admission threads: parallel rounds, deferral, orphans.
RoundThreads == {w1, w2, commit}
RoundTxs == {p, c, d, s}
RoundSpends == Only(RoundTxs, MCSpends)
RoundReads == Only(RoundTxs, MCReads)
RoundFinal == Only(RoundTxs, MCFinal)
Rounds == {[Quiet EXCEPT !.arrivals = [t \in RoundTxs |-> IF t = p THEN 2 ELSE 1]]}

\* One admission thread beside a thread that connects and disconnects blocks
\* or threads that serve sendrawtransaction and FlushTxAdmission.
PoolThreads == {w1, commit, validator, r1, r2}
PoolTxs == {p, c, d, l}
PoolSpends == Only(PoolTxs, MCSpends)
PoolReads == Only(PoolTxs, MCReads)
PoolFinal == Only(PoolTxs, MCFinal)
Chain == [Quiet EXCEPT !.arrivals = Once({p, c, l}, PoolTxs), !.calls = Calls(2, 0, 0, 0),
                       !.blocks = {{}, {p}}]
Reorg == [Quiet EXCEPT !.arrivals = Once({p, c}, PoolTxs), !.calls = Calls(2, 1, 0, 0),
                       !.blocks = {{d}, {p, c}}, !.rollbacks = TRUE]
RpcCalls == [Quiet EXCEPT !.arrivals = Once({d}, PoolTxs), !.calls = Calls(0, 0, 2, 1),
                          !.raw = {p, c, d}, !.overflows = TRUE, !.alloworphans = TRUE]
Overlap == [Quiet EXCEPT !.arrivals = Once({c}, PoolTxs), !.calls = Calls(1, 0, 1, 0),
                         !.raw = {p}, !.blocks = {{d}, {p}}]
Pool == {Chain, Reorg, RpcCalls, Overlap}
\* The RPC threads are interchangeable.
PoolSymmetry == Permutations(Rpcs)
=============================================================================
