--------------------------- MODULE MCThreadCorral ---------------------------
(***************************************************************************)
(* The threads of the program that meet in txProcessingCorral: two         *)
(* admission threads (region 1), the commit thread (region 2), a wallet    *)
(* RPC that goes from 1 to 2 and back, and a thread that connects blocks   *)
(* (region 3, nested by FlushTxAdmission).                                 *)
(***************************************************************************)
EXTENDS ThreadCorral, TLC

CONSTANTS admit1, admit2, commit, wallet, pause

MCThreads == {admit1, admit2, commit, wallet, pause}
MCRegions == {1, 2, 3}
MCUses == admit1 :> {1} @@ admit2 :> {1} @@ commit :> {2} @@ wallet :> {1, 2}
          @@ pause :> {3}
MCNestable == {3}
=============================================================================
