---------------------------- MODULE MCCoinsCache ----------------------------
(***************************************************************************)
(* Instances of CoinsCache.  The operations treat outpoints one by one, so *)
(* that two of them, one unspent to begin with, meet every combination of  *)
(* entries.  Two readers in the corral and one outside of it make fetches  *)
(* of one coin overlap.                                                    *)
(***************************************************************************)
EXTENDS CoinsCache, TLC

CONSTANTS o1, o2, r1, r2, r3

MCCoins == {o1, o2}
OneCoin == {o1}
InCorral == {r1, r2}
Outside == {r3}
None == {}

ReadersAlike == Permutations(InCorral)
=============================================================================
