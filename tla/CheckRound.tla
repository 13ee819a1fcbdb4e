----------------------------- MODULE CheckRound -----------------------------
(***************************************************************************)
(* What a script check queue promises the thread that connects a block:    *)
(* a round is opened, checks are added, and Wait() closes it with a        *)
(* verdict.  The verdict is exact unless somebody quit the round; after a  *)
(* quit it may be "ok" although checks were thrown away, and the caller    *)
(* must not rely on it.                                                    *)
(***************************************************************************)
EXTENDS Naturals

CONSTANTS
    Checks,     \* the script checks
    Bad         \* those that fail

VARIABLES
    open,       \* a thread is the master of the queue
    added,      \* what it has added in this round
    quit,       \* the round has been quit
    verdict     \* what the last Wait() returned: "none", "ok" or "bad"

vars == <<open, added, quit, verdict>>

Init ==
    /\ open = FALSE
    /\ added = {}
    /\ quit = FALSE
    /\ verdict = "none"

Open ==
    /\ ~open
    /\ open' = TRUE
    /\ added' = {}
    /\ quit' = FALSE
    /\ verdict' = "none"

Add ==
    /\ open
    /\ \E S \in SUBSET Checks : added' = added \union S
    /\ UNCHANGED <<open, quit, verdict>>

Quit ==
    /\ quit' = TRUE
    /\ UNCHANGED <<open, added, verdict>>

\* A verdict of "bad" is always deserved; "ok" is, unless the round was quit.
Close ==
    /\ open
    /\ open' = FALSE
    /\ \/ /\ added \intersect Bad # {}
          /\ verdict' = "bad"
       \/ /\ added \intersect Bad = {} \/ quit
          /\ verdict' = "ok"
    /\ quit' = FALSE
    /\ UNCHANGED added

Next == Open \/ Add \/ Quit \/ Close

Spec == Init /\ [][Next]_vars
=============================================================================
