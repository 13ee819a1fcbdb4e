---------------------------- MODULE MCOrphanPool ----------------------------
(***************************************************************************)
(* Small instances of OrphanPool: a and b wait for the same output h1, b   *)
(* for h2 too and is large, n waits for h2 and has a lock time, m is only  *)
(* not final, o is over the size limit.                                    *)
(***************************************************************************)
EXTENDS OrphanPool, TLC

CONSTANTS a, b, n, m, o, h1, h2

MCPrevs == a :> {h1} @@ b :> {h1, h2} @@ n :> {h2} @@ m :> {h1} @@ o :> {h1}
MCSize == a :> 1 @@ b :> 3 @@ n :> 1 @@ m :> 1 @@ o :> 1
LimitPrevs == [t \in {a, n, m} |-> MCPrevs[t]]
LimitSize == [t \in {a, n, m} |-> MCSize[t]]
=============================================================================
