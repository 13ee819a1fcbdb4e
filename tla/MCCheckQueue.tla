---------------------------- MODULE MCCheckQueue ----------------------------
(***************************************************************************)
(* Two workers and a master, a block of up to four scripts of which one    *)
(* fails, batches of up to two.                                            *)
(***************************************************************************)
EXTENDS CheckQueue, TLC

CONSTANTS w1, w2, c1, c2, c3, c4

MCWorkers == {w1, w2}
MCChecks == {c1, c2, c3, c4}
MCBad == {c4}
=============================================================================
