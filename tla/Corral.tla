------------------------------- MODULE Corral -------------------------------
(***************************************************************************)
(* What the comment above CThreadCorral (sync.h) promises its users:       *)
(* "Multiple threads can be running in the same corral, but threads cannot *)
(* run in multiple corrals simultaneously."  Nothing is said here of how a *)
(* thread is made to wait: a thread enters a region in a step in which no  *)
(* other region is occupied.  ThreadCorral implements this specification   *)
(* and TxAdmission is written on top of it.                                *)
(***************************************************************************)
EXTENDS Naturals

CONSTANTS
    Threads,    \* the threads that enter the corral
    Regions     \* the region numbers; a higher number is a higher priority

VARIABLES
    holds,      \* holds[t]: the region thread t is inside of, 0 for none
    depth       \* depth[t]: how many CCorralLock objects of t are alive

corralVars == <<holds, depth>>

CorralInit ==
    /\ holds = [t \in Threads |-> 0]
    /\ depth = [t \in Threads |-> 0]

\* No thread is inside a region other than r.
OnlyRegion(r) == \A t \in Threads : depth[t] > 0 => holds[t] = r

EnterRegion(t, r) ==
    /\ OnlyRegion(r)
    /\ holds' = [holds EXCEPT ![t] = r]
    /\ depth' = [depth EXCEPT ![t] = @ + 1]

ExitRegion(t) ==
    /\ depth[t] > 0
    /\ holds' = [holds EXCEPT ![t] = IF depth[t] = 1 THEN 0 ELSE @]
    /\ depth' = [depth EXCEPT ![t] = @ - 1]

CorralNext ==
    \E t \in Threads : ExitRegion(t) \/ \E r \in Regions : EnterRegion(t, r)

CorralSpec == CorralInit /\ [][CorralNext]_corralVars
=============================================================================
