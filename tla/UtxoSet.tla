------------------------------- MODULE UtxoSet -------------------------------
(***************************************************************************)
(* What the stack of CCoinsView objects promises (coins.h): one set of     *)
(* unspent outputs.  A block works on a private copy of it and either      *)
(* replaces it ("Apply the block atomically to the chain state",           *)
(* ConnectTip and DisconnectTip) or is forgotten; the set is saved to disk *)
(* now and then, and a restart goes back to what was saved.  Nothing but   *)
(* where it restarts is promised once the set is not intact.  There are no *)
(* caches, flags or fetches here: CoinsCache implements this specification *)
(* with them.                                                              *)
(***************************************************************************)
CONSTANTS
    Coins,      \* the outpoints
    Genesis     \* the outpoints that are unspent to begin with

VARIABLES
    utxo,       \* the unspent outputs of the active chain
    work,       \* what the block being applied has made of them so far
    building,   \* whether a block is being applied
    saved,      \* the unspent outputs on disk
    intact      \* whether the set is still the chain's

utxoVars == <<utxo, work, building, saved, intact>>

UtxoInit ==
    /\ utxo = Genesis
    /\ work = Genesis
    /\ building = FALSE
    /\ saved = Genesis
    /\ intact = TRUE

Begin ==
    /\ ~building
    /\ building' = TRUE
    /\ UNCHANGED <<utxo, work, saved>>

Spend(o) ==
    /\ building
    /\ o \in work
    /\ work' = work \ {o}
    /\ UNCHANGED <<utxo, building, saved>>

Create(o) ==
    /\ building
    /\ o \notin work
    /\ work' = work \cup {o}
    /\ UNCHANGED <<utxo, building, saved>>

Apply ==
    /\ building
    /\ utxo' = work
    /\ building' = FALSE
    /\ UNCHANGED <<work, saved>>

Forget ==
    /\ building
    /\ work' = utxo
    /\ building' = FALSE
    /\ UNCHANGED <<utxo, saved>>

Save ==
    /\ saved' = utxo
    /\ UNCHANGED <<utxo, work, building>>

Restart ==
    /\ utxo' = saved
    /\ work' = saved
    /\ building' = FALSE
    /\ UNCHANGED saved

\* The process dies inside a save: of each output the disk has what it had or what it
\* was to get, not all of them from the same moment.
Tear ==
    /\ saved' \in SUBSET (saved \cup utxo)
    /\ saved \cap utxo \subseteq saved'
    /\ utxo' = saved'
    /\ work' = saved'
    /\ building' = FALSE
    /\ intact' \in BOOLEAN

\* A reader brings a spent output back.
Revive(o) ==
    /\ utxo' \in {utxo, utxo \cup {o}}
    /\ work' \in {work, work \cup {o}}
    /\ intact' = FALSE
    /\ UNCHANGED <<building, saved>>

\* Of a set that is not intact: it is so again only after a restart.
Damaged ==
    intact' => utxo' = saved' /\ work' = saved' /\ ~building'

UtxoNext ==
    \/ /\ intact
       /\ \/ /\ intact'
             /\ \/ Begin \/ Apply \/ Forget \/ Save \/ Restart
                \/ \E o \in Coins : Spend(o) \/ Create(o)
          \/ Tear
          \/ \E o \in Coins : Revive(o)
    \/ ~intact /\ Damaged

UtxoSpec == UtxoInit /\ [][UtxoNext]_utxoVars
=============================================================================
