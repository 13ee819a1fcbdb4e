-------------------------- MODULE MCRequestManager --------------------------
(***************************************************************************)
(* Instances of RequestManager: the peer good stays and answers in time,   *)
(* the other peer may do anything.                                         *)
(***************************************************************************)
EXTENDS RequestManager

CONSTANTS good, peer, blk, sub, txn, txn2

Told(N, O, F) == [announce |-> N \X O, missing |-> {}, near |-> {}, timer |-> TRUE,
                  faults |-> F]

\* The chain is being synced, or objects are announced by one or both peers; the last
\* two scenarios announce more objects than the limits allow.
MCScenarios ==
    { [announce |-> {}, missing |-> {blk}, near |-> {blk}, timer |-> FALSE, faults |-> Faults],
      Told({good, peer}, {txn}, Faults),
      Told({good, peer}, {sub}, Faults),
      Told({good, peer}, {blk}, {"lose", "close"}),
      [Told({peer}, {blk, sub}, {"stall"}) EXCEPT !.announce = @ \union {<<good, sub>>},
                                                  !.timer = FALSE],
      [Told({peer}, {txn, txn2}, {"stall"}) EXCEPT !.announce = @ \union {<<good, txn>>},
                                                   !.timer = FALSE] }

\* The copy of the subblock that the other peer has is refused.
MCDamaged == {<<peer, sub>>}

\* The copy of the block that the other peer has is not that block.
DamagedBlock == {<<peer, blk>>}
DamagedScenarios == {Told({good, peer}, {blk}, {"close"})}
=============================================================================
