--------------------------- MODULE ParallelCheck ---------------------------
(***************************************************************************)
(* What CCheckQueueControl promises its caller (src/src/checkqueue.h): the *)
(* caller adds checks, waits, and is told whether all of them succeeded.   *)
(***************************************************************************)
CONSTANTS
    Check,   \* the checks of one block
    Good     \* those that succeed

VARIABLES
    phase,   \* "closed", "adding" or "waiting"
    added,   \* the checks added since the control object was made
    result   \* what the last Wait returned

vars == <<phase, added, result>>

Init == phase = "closed" /\ added = {} /\ result = TRUE

Open ==
    /\ phase = "closed"
    /\ phase' = "adding"
    /\ added' = {}
    /\ UNCHANGED result

Add ==
    /\ phase = "adding"
    /\ \E S \in SUBSET (Check \ added) : added' = added \cup S
    /\ UNCHANGED <<phase, result>>

BeginWait ==
    /\ phase = "adding"
    /\ phase' = "waiting"
    /\ UNCHANGED <<added, result>>

Return ==
    /\ phase = "waiting"
    /\ phase' = "closed"
    /\ result' = (added \subseteq Good)
    /\ UNCHANGED added

Next == Open \/ Add \/ BeginWait \/ Return

Spec == Init /\ [][Next]_vars
=============================================================================
