------------------------------ MODULE UTXOSet ------------------------------
(***************************************************************************)
(* What the layered coin views promise (src/src/coins.h): a map from       *)
(* transactions to their unspent outputs, changed block by block, all of a *)
(* block or nothing, and saved now and then together with the block it     *)
(* belongs to.                                                             *)
(***************************************************************************)
CONSTANTS Txid, Coins, Pruned, Block, Genesis

VARIABLES
    open,        \* a block is being connected or disconnected
    working,     \* the coins as that block sees them
    committed,   \* the coins at the tip, and the tip
    saved        \* the coins on disk, and the block they belong to

vars == <<open, working, committed, saved>>

Empty == [t \in Txid |-> Pruned]
State(c, b) == [coins |-> c, best |-> b]

Init ==
    /\ open = FALSE
    /\ working = Empty
    /\ committed = State(Empty, Genesis)
    /\ saved = State(Empty, Genesis)

Begin == ~ open /\ open' = TRUE /\ UNCHANGED <<working, committed, saved>>

Change ==
    /\ open
    /\ \E t \in Txid, c \in Coins \cup {Pruned} : working' = [working EXCEPT ![t] = c]
    /\ UNCHANGED <<open, committed, saved>>

Commit ==
    /\ open /\ open' = FALSE
    /\ \E b \in Block : committed' = State(working, b)
    /\ UNCHANGED <<working, saved>>

Drop ==
    /\ open /\ open' = FALSE
    /\ working' = committed.coins
    /\ UNCHANGED <<committed, saved>>

Save == ~ open /\ saved' = committed /\ UNCHANGED <<open, working, committed>>

(* Saving fails: the coins are those on disk again, and the tip is still   *)
(* the block whose coins are lost.                                         *)
SaveFails ==
    /\ ~ open
    /\ committed' = State(saved.coins, committed.best)
    /\ working' = saved.coins
    /\ UNCHANGED <<open, saved>>

Crash ==
    /\ open' = FALSE
    /\ committed' = saved
    /\ working' = saved.coins
    /\ UNCHANGED saved

Next == Begin \/ Change \/ Commit \/ Drop \/ Save \/ SaveFails \/ Crash

Spec == Init /\ [][Next]_vars
=============================================================================
