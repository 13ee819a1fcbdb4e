------------------------ MODULE MCParallelValidation ------------------------
(***************************************************************************)
(* Blocks a1, c1, d1 and e1 on the root, a2 on a1, c2 on c1 and d2 on d1.  *)
(* a1, d1 and e1 have the same work, as blocks of one height usually do.   *)
(***************************************************************************)
EXTENDS ParallelValidation, TLC

CONSTANTS t1, t2, t3, m1, root, a1, a2, c1, c2, d1, d2, e1

MCChain == root :> <<root>> @@ a1 :> <<root, a1>> @@ c1 :> <<root, c1>> @@ e1 :> <<root, e1>>
           @@ d1 :> <<root, d1>> @@ a2 :> <<root, a1, a2>> @@ c2 :> <<root, c1, c2>>
           @@ d2 :> <<root, d1, d2>>

MCWork == root :> 1 @@ a1 :> 2 @@ d1 :> 2 @@ e1 :> 2 @@ c1 :> 3 @@ a2 :> 4 @@ c2 :> 5
          @@ d2 :> 6

MCBits == a1 :> 3 @@ a2 :> 3 @@ c1 :> 3 @@ c2 :> 5 @@ e1 :> 4 @@ d1 :> 3 @@ d2 :> 3
MCSize == a1 :> 2 @@ a2 :> 2 @@ c1 :> 1 @@ c2 :> 1 @@ e1 :> 1 @@ d1 :> 1 @@ d2 :> 1

Feed(A, B, C, M) == t1 :> A @@ t2 :> B @@ t3 :> C @@ m1 :> M

\* Three siblings for two grants; two branches that overtake each other, with
\* two or three threads; a block of our own among the blocks of others; and a tip
\* that is replaced by one of the same work while a block on it is being checked.
MCFeeds == {Feed({a1}, {c1}, {e1}, {}), Feed({a1, a2}, {c1, c2}, {}, {}),
            Feed({a1}, {c1}, {c2}, {}),
            Feed({a1}, {a2}, {}, {c1}), Feed({c1}, {c2}, {}, {e1}),
            Feed({a1, a2}, {d1, d2}, {}, {})}
=============================================================================
