---------------------------- MODULE CoinsCache ----------------------------
(***************************************************************************)
(* The coin views: src/src/coins.cpp, the coin database of txdb.cpp and    *)
(* their use by ConnectTip, DisconnectTip and FlushStateToDisk (main.cpp). *)
(*                                                                         *)
(* Three layers: the view a block is applied to, pcoinsTip below it, and   *)
(* the database.  Reading fills the caches on the way; flags say how an    *)
(* entry relates to the layer below, and decide what BatchWrite may leave  *)
(* out.  All of it runs under cs_main, so an action is a whole call.  A    *)
(* CCoinsModifier lives from ModifyCoins to its destructor in one action:  *)
(* the callers change one entry at a time.  LevelDB writes a batch as a    *)
(* whole or not at all.                                                    *)
(***************************************************************************)
CONSTANTS
    Txid,       \* transactions
    Coins,      \* what can be unspent of one
    Pruned,     \* nothing is: CCoins::IsPruned, or no record in the database
    Absent,     \* no entry in a cache
    Block,
    Genesis,    \* the block of the initial database
    Null        \* hashBlock.IsNull()

ASSUME CoinsAssumption == Pruned \notin Coins
ASSUME BlockAssumption == Genesis \in Block /\ Null \notin Block

VARIABLES
    db,        \* the database: coins by transaction
    dbBest,    \* and the block they belong to, under key 'B'
    tip,       \* pcoinsTip->cacheCoins
    tipBest,   \* pcoinsTip->hashBlock
    view,      \* cacheCoins of the block's view
    open,      \* there is such a view
    stateOf,   \* the coins each block leads to, once it was connected
    failed     \* a write to the database has failed (AbortNode)

coinsVars == <<db, dbBest, tip, tipBest, view, open, stateOf, failed>>

(* A CCoinsCacheEntry.  One that the layer below lacks and that is pruned  *)
(* again is not kept.                                                      *)
Entry == {e \in [coins : Coins \cup {Pruned}, dirty : BOOLEAN, fresh : BOOLEAN] :
             ~ (e.coins = Pruned /\ e.dirty /\ e.fresh)}
Cache == [Txid -> Entry \cup {Absent}]
Map == [Txid -> Coins \cup {Pruned}]
Unknown == [t \in Txid |-> Absent]
ASSUME AbsentAssumption == Absent \notin Entry /\ Absent \notin Coins \cup {Pruned}

(* The layers hold coins and entries; flags are consistent.                *)
CoinsTypeOK ==
    /\ db \in Map /\ dbBest \in Block
    /\ tip \in Cache /\ tipBest \in Block \cup {Null}
    /\ view \in Cache /\ open \in BOOLEAN
    /\ stateOf \in [Block -> Map \cup {Unknown}] /\ failed \in BOOLEAN

Empty == [t \in Txid |-> Absent]

CoinsInit ==
    /\ db = [t \in Txid |-> Pruned] /\ dbBest = Genesis
    /\ tip = Empty /\ tipBest = Null
    /\ view = Empty /\ open = FALSE
    /\ stateOf = [b \in Block |-> IF b = Genesis THEN db ELSE Unknown]
    /\ failed = FALSE

-----------------------------------------------------------------------------
(* What each layer answers for a transaction.                              *)
InTip(t) == IF tip[t] = Absent THEN db[t] ELSE tip[t].coins
InView(t) == IF view[t] = Absent THEN InTip(t) ELSE view[t].coins
TipState == [t \in Txid |-> InTip(t)]
ViewState == [t \in Txid |-> InView(t)]
GetBestBlock == IF tipBest = Null THEN dbBest ELSE tipBest

(* An entry filled from below.  Mutation: taken to be new.                 *)
CopyFresh(c) == [coins |-> c, dirty |-> FALSE, fresh |-> TRUE]
Copy(c) == [coins |-> c, dirty |-> FALSE, fresh |-> (c = Pruned)]

(* FetchCoins: pcoinsTip after it was asked for t.                         *)
FetchCoins(t) ==
    IF tip[t] # Absent \/ db[t] = Pruned THEN tip ELSE [tip EXCEPT ![t] = Copy(db[t])]

(* What ~CCoinsModifier leaves of entry e with coins c.                    *)
(* Mutation: DIRTY replaces the flags.                                     *)
OnlyDirty(e, c) ==
    IF e.fresh /\ c = Pruned THEN Absent ELSE [coins |-> c, dirty |-> TRUE, fresh |-> FALSE]
Modified(e, c) ==
    IF e.fresh /\ c = Pruned THEN Absent ELSE [coins |-> c, dirty |-> TRUE, fresh |-> e.fresh]

(* BatchWrite, one entry: what the parent's entry becomes.                 *)
(* Mutation: pruned coins are erased although the grandparent has them.    *)
MergeErase(child, own) ==
    IF child = Absent \/ ~ child.dirty THEN own
    ELSE IF child.coins = Pruned THEN Absent
    ELSE IF own = Absent THEN [coins |-> child.coins, dirty |-> TRUE, fresh |-> TRUE]
    ELSE [own EXCEPT !.coins = child.coins, !.dirty = TRUE]
Merge(child, own) ==
    IF child = Absent \/ ~ child.dirty THEN own
    ELSE IF own = Absent
    THEN IF child.coins = Pruned THEN Absent
         ELSE [coins |-> child.coins, dirty |-> TRUE, fresh |-> TRUE]
    ELSE IF own.fresh /\ child.coins = Pruned THEN Absent
    ELSE [own EXCEPT !.coins = child.coins, !.dirty = TRUE]

(* CCoinsViewDB::BatchWrite, one record.                                   *)
Written(e, c) == IF e = Absent \/ ~ e.dirty THEN c ELSE e.coins

(* The block written under 'B'.  Mutation: left to the next flush.         *)
OldBest == dbBest
WrittenBest == IF tipBest = Null THEN dbBest ELSE tipBest

-----------------------------------------------------------------------------
(* CCoinsViewCache view(pcoinsTip).                                        *)
OpenView ==
    /\ ~ open
    /\ open' = TRUE /\ view' = Empty
    /\ UNCHANGED <<db, dbBest, tip, tipBest, stateOf, failed>>

(* AccessCoins, HaveCoins, GetCoins on pcoinsTip, and on the view.         *)
AccessTip(t) ==
    /\ tip' = FetchCoins(t)
    /\ UNCHANGED <<db, dbBest, tipBest, view, open, stateOf, failed>>

AccessView(t) ==
    /\ open /\ view[t] = Absent
    /\ tip' = FetchCoins(t)
    /\ view' = IF tip'[t] = Absent THEN view ELSE [view EXCEPT ![t] = Copy(tip'[t].coins)]
    /\ UNCHANGED <<db, dbBest, tipBest, open, stateOf, failed>>

(* ModifyCoins by UpdateCoins, DisconnectBlock or ApplyTxInUndo: spent,    *)
(* added or restored, the coins of t become c.                             *)
ModifyCoins(t, c) ==
    /\ open
    /\ tip' = IF view[t] = Absent THEN FetchCoins(t) ELSE tip
    /\ LET e == IF view[t] # Absent THEN view[t]
                ELSE Copy(IF tip'[t] = Absent THEN Pruned ELSE tip'[t].coins)
       IN  view' = [view EXCEPT ![t] = Modified(e, c)]
    /\ UNCHANGED <<db, dbBest, tipBest, open, stateOf, failed>>

(* SetBestBlock and Flush at the end of ConnectTip or DisconnectTip.  The  *)
(* block determines the coins it leads to.                                 *)
FlushView(b) ==
    /\ open /\ b # GetBestBlock
    /\ stateOf[b] \in {Unknown, ViewState}
    /\ stateOf' = [stateOf EXCEPT ![b] = ViewState]
    /\ tip' = [t \in Txid |-> Merge(view[t], tip[t])]
    /\ tipBest' = b
    /\ view' = Empty /\ open' = FALSE
    /\ UNCHANGED <<db, dbBest, failed>>

(* The block was refused, or the view was only for checking it.            *)
DropView ==
    /\ open /\ open' = FALSE /\ view' = Empty
    /\ UNCHANGED <<db, dbBest, tip, tipBest, stateOf, failed>>

(* FlushStateToDisk, its chainstate part.                                  *)
FlushTip ==
    /\ ~ open
    /\ db' = [t \in Txid |-> Written(tip[t], db[t])]
    /\ dbBest' = WrittenBest
    /\ tip' = Empty
    /\ UNCHANGED <<tipBest, view, open, stateOf, failed>>

(* WriteBatch throws: BatchWrite has emptied the cache already, and        *)
(* FlushStateToDisk asks for a shutdown, which flushes again.              *)
FlushTipFails ==
    /\ ~ open
    /\ tip' = Empty /\ failed' = TRUE
    /\ UNCHANGED <<db, dbBest, tipBest, view, open, stateOf>>

(* The process is killed and starts on what the database holds.            *)
Crash ==
    /\ tip' = Empty /\ tipBest' = Null
    /\ view' = Empty /\ open' = FALSE
    /\ UNCHANGED <<db, dbBest, stateOf, failed>>

CoinsNext ==
    \/ OpenView \/ DropView \/ FlushTip \/ FlushTipFails \/ Crash
    \/ \E t \in Txid :
          \/ AccessTip(t)
          \/ AccessView(t)
          \/ \E c \in Coins \cup {Pruned} : ModifyCoins(t, c)
    \/ \E b \in Block : FlushView(b)

CoinsSpec == CoinsInit /\ [][CoinsNext]_coinsVars

-----------------------------------------------------------------------------
(* Flags mean what coins.h:312 says: an entry without DIRTY is what the    *)
(* layer below has; the layer below has nothing where FRESH is set.        *)
FlagsOf(e, below) == e # Absent => /\ ~ e.dirty => e.coins = below
                                   /\ e.fresh => below = Pruned
FlagsSound == \A t \in Txid : FlagsOf(tip[t], db[t]) /\ FlagsOf(view[t], InTip(t))

(* The assert of BatchWrite (coins.cpp:178): an unpruned entry that the    *)
(* parent cache lacks is FRESH, whatever was read, written and erased      *)
(* before, because reading through the parent leaves an entry there.       *)
AssertFresh ==
    \A t \in Txid :
        view[t] # Absent /\ tip[t] = Absent /\ view[t].dirty /\ view[t].coins # Pruned
            => view[t].fresh

(* The inductive invariant, besides the type and FlagsSound.               *)
ClosedIsEmpty == ~ open => view = Empty
HeldBelow == \A t \in Txid : view[t] # Absent /\ tip[t] = Absent => view[t].fresh

(* GetBestBlock returns "the block hash whose state this CCoinsView        *)
(* currently represents" (coins.h:347): the database holds the coins of    *)
(* the block it names.                                                     *)
DiskIsItsState == db = stateOf[dbBest]

(* So does pcoinsTip, and both also after a crash, as long as no write to  *)
(* the database has failed.                                                *)
TipIsItsState == TipState = stateOf[GetBestBlock]
BestBlockIsItsState == ~ failed => DiskIsItsState /\ TipIsItsState

(* The three layers together are a UTXOSet: caching, flags and erased      *)
(* entries never show, a block takes effect as a whole, a crash goes back  *)
(* to the last flush, and a failed write loses what was not yet saved.     *)
Abstract == INSTANCE UTXOSet WITH
    working <- ViewState,
    committed <- [coins |-> TipState, best |-> GetBestBlock],
    saved <- [coins |-> db, best |-> dbBest]
ImplementsUTXOSet == Abstract!Spec
=============================================================================
