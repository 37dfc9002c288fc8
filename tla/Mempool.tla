------------------------------ MODULE Mempool ------------------------------
(***************************************************************************)
(* The memory pool while blocks come and go: src/src/txmempool.cpp with    *)
(* AcceptToMemoryPool, ConnectTip and DisconnectTip of src/src/main.cpp    *)
(* and the failure of CreateNewBlock in src/src/miner.cpp.                 *)
(*                                                                         *)
(* cs_main keeps out other writers while a block is connected or           *)
(* disconnected; readers of the pool only take its own lock, which is free *)
(* between two transactions of the block.  So each of these is a step.     *)
(*                                                                         *)
(* AcceptToMemoryPool may refuse any transaction: for its fee, its         *)
(* scripts, its lock time or a transaction lock.  Zerocoin spends, which   *)
(* mapNextTx ignores, fees, priorities and sizes are left out.             *)
(***************************************************************************)
EXTENDS Naturals, Sequences

CONSTANTS
    Tx,
    Outpoint,
    Inputs,      \* vin: the outpoints a transaction spends
    Creator,     \* the transaction of an outpoint
    Generated,   \* IsCoinBase or IsCoinStake
    BlockTxs,    \* the blocks there may be: vtx
    Base,        \* transactions of the first block
    None,        \* no transaction
    Maturity,    \* nCoinbaseMaturity
    MaxHeight

ASSUME TxAssumption ==
    /\ Inputs \in [Tx -> SUBSET Outpoint] /\ Creator \in [Outpoint -> Tx]
    /\ Generated \subseteq Tx /\ None \notin Tx /\ Base \in Seq(Tx)
    /\ BlockTxs \subseteq Seq(Tx)
    /\ \A t \in Tx \ Generated : Inputs[t] # {}
    /\ \A i, j \in 1..Len(Base) : Inputs[Base[i]] = {} /\ (i # j => Base[i] # Base[j])
ASSUME HeightAssumption == Maturity \in Nat \ {0} /\ MaxHeight \in Nat

VARIABLES
    mapTx,      \* the transactions in the pool
    mapNextTx,  \* the pool's spender of an outpoint
    chain,      \* vtx of the blocks of the active chain, from height 1
    height,     \* CCoins::nHeight, 0 for a transaction in no block
    phase,      \* what the holder of cs_main is doing
    todo        \* transactions of the block it has not come to

vars == <<mapTx, mapNextTx, chain, height, phase, todo>>

Elements(s) == {s[i] : i \in 1..Len(s)}

(* Pool, chain and heights fit each other.                                 *)
TypeOK ==
    /\ mapTx \subseteq Tx \ Generated
    /\ mapNextTx \in [Outpoint -> Tx \cup {None}]
    /\ chain \in Seq(Seq(Tx)) /\ height \in [Tx -> Nat]
    /\ \A t \in Tx : height[t] <= Len(chain)
    /\ \A i \in 1..Len(chain) : Elements(chain[i]) = {t \in Tx : height[t] = i}
    /\ phase \in {"idle", "connect", "disconnect"} /\ todo \in Seq(Tx)

Init ==
    /\ mapTx = {} /\ mapNextTx = [o \in Outpoint |-> None]
    /\ chain = <<Base>>
    /\ height = [t \in Tx |-> IF t \in Elements(Base) THEN 1 ELSE 0]
    /\ phase = "idle" /\ todo = <<>>

-----------------------------------------------------------------------------
Confirmed == {t \in Tx : height[t] # 0}
Unspent(o) == \A t \in Confirmed : o \notin Inputs[t]

(* CheckInputs: what was generated may be spent Maturity blocks later.     *)
Mature(o) == Creator[o] \in Generated => Len(chain) + 1 >= height[Creator[o]] + Maturity

(* An input is the output of a transaction in the pool, or a coin.         *)
Available(o) == Creator[o] \in mapTx \/ (Creator[o] \in Confirmed /\ Unspent(o) /\ Mature(o))

(* The pool knows a transaction in the chain while it has unspent outputs. *)
HaveCoins(t) == t \in Confirmed /\ \E o \in Outpoint : Creator[o] = t /\ Unspent(o)

(* Mutation: generated transactions are not told apart.                    *)
AcceptableAny(t) ==
    /\ t \notin mapTx /\ ~ HaveCoins(t)
    /\ \A o \in Inputs[t] : mapNextTx[o] = None /\ Available(o)
Acceptable(t) ==
    /\ t \notin Generated \cup mapTx /\ ~ HaveCoins(t)
    /\ \A o \in Inputs[t] : mapNextTx[o] = None /\ Available(o)

(* addUnchecked.                                                           *)
addUnchecked(t) ==
    /\ mapTx' = mapTx \cup {t}
    /\ mapNextTx' = [o \in Outpoint |-> IF o \in Inputs[t] THEN t ELSE mapNextTx[o]]

(* remove, recursive: S with everything in the pool that spends from it.   *)
Spenders(S) == {t \in mapTx : \E o \in Outpoint : Creator[o] \in S /\ mapNextTx[o] = t}
WithDescendants(S) == {t \in mapTx : \A C \in SUBSET mapTx : (S \subseteq C /\ Spenders(C) \subseteq C) => t \in C}

(* If t is not in the pool itself, its spenders are removed.               *)
ToRemove(t) == WithDescendants(IF t \in mapTx THEN {t} ELSE Spenders({t}))

(* The inputs of what leaves the pool.  Mutation: they stay marked.        *)
KeepMarks(S) == mapNextTx
EraseMarks(S) == [o \in Outpoint |-> IF \E t \in S : o \in Inputs[t] THEN None ELSE mapNextTx[o]]
Remove(S) ==
    /\ mapTx' = mapTx \ S
    /\ mapNextTx' = EraseMarks(S)

-----------------------------------------------------------------------------
AcceptToMemoryPool(t) ==
    /\ phase = "idle" /\ Acceptable(t)
    /\ addUnchecked(t)
    /\ UNCHANGED <<chain, height, phase, todo>>

(* A block ConnectBlock accepts.                                           *)
Connectable(vtx) ==
    /\ \A i, j \in 1..Len(vtx) : i # j => vtx[i] # vtx[j] /\ Inputs[vtx[i]] \cap Inputs[vtx[j]] = {}
    /\ \A i \in 1..Len(vtx) :
          /\ height[vtx[i]] = 0
          /\ \A o \in Inputs[vtx[i]] :
                \/ Creator[o] \in Confirmed /\ Unspent(o) /\ Mature(o)
                \/ Creator[o] \notin Generated /\ \E j \in 1..(i - 1) : vtx[j] = Creator[o]

(* ConnectTip: the coins first, then removeForBlock, one by one.           *)
ConnectTip(vtx) ==
    /\ phase = "idle" /\ Len(chain) < MaxHeight /\ Connectable(vtx)
    /\ chain' = Append(chain, vtx)
    /\ height' = [t \in Tx |-> IF t \in Elements(vtx) THEN Len(chain) + 1 ELSE height[t]]
    /\ phase' = "connect" /\ todo' = vtx
    /\ UNCHANGED <<mapTx, mapNextTx>>

(* removeConflicts: other spenders of t's inputs, with all their           *)
(* descendants.  t leaves alone.  Mutation: it takes its descendants along.*)
Conflicts(t) == {x \in mapTx \ {t} : \E o \in Inputs[t] : mapNextTx[o] = x}
BlockRemovesAll(t) == WithDescendants({t} \cap mapTx) \cup WithDescendants(Conflicts(t))
BlockRemoves(t) == ({t} \cap mapTx) \cup WithDescendants(Conflicts(t))

RemoveForBlock ==
    /\ phase = "connect" /\ todo # <<>>
    /\ Remove(BlockRemoves(Head(todo))) /\ todo' = Tail(todo)
    /\ UNCHANGED <<chain, height, phase>>

ConnectDone ==
    /\ phase = "connect" /\ todo = <<>>
    /\ phase' = "idle" /\ UNCHANGED <<mapTx, mapNextTx, chain, height, todo>>

(* DisconnectTip: the coins first, then the block's transactions go back   *)
(* to the pool in their order, ...                                         *)
DisconnectTip ==
    /\ phase = "idle" /\ Len(chain) > 1
    /\ chain' = SubSeq(chain, 1, Len(chain) - 1)
    /\ height' = [t \in Tx |-> IF height[t] = Len(chain) THEN 0 ELSE height[t]]
    /\ phase' = "disconnect" /\ todo' = chain[Len(chain)]
    /\ UNCHANGED <<mapTx, mapNextTx>>

Resurrect ==
    /\ phase = "disconnect" /\ todo # <<>> /\ Acceptable(Head(todo))
    /\ addUnchecked(Head(todo)) /\ todo' = Tail(todo)
    /\ UNCHANGED <<chain, height, phase>>

(* ... or, generated or refused, are removed with what spends them.        *)
NotResurrected ==
    /\ phase = "disconnect" /\ todo # <<>>
    /\ Remove(ToRemove(Head(todo))) /\ todo' = Tail(todo)
    /\ UNCHANGED <<chain, height, phase>>

(* removeCoinbaseSpends.  Mutation: only what spends missing coins.        *)
MissingSpends == {t \in mapTx : \E o \in Inputs[t] : Creator[o] \notin mapTx \cup Confirmed}
ImmatureSpends == {t \in mapTx : \E o \in Inputs[t] : Creator[o] \notin mapTx /\ (Creator[o] \in Confirmed => ~ Mature(o))}
DisconnectDone ==
    /\ phase = "disconnect" /\ todo = <<>>
    /\ Remove(WithDescendants(ImmatureSpends))
    /\ phase' = "idle" /\ UNCHANGED <<chain, height, todo>>

(* CreateNewBlock, with cs_main and the pool's lock: the template fails    *)
(* TestBlockValidity, for any reason, and the pool is cleared.             *)
ClearPool ==
    /\ phase = "idle"
    /\ mapTx' = {} /\ mapNextTx' = [o \in Outpoint |-> None]
    /\ UNCHANGED <<chain, height, phase, todo>>

Next ==
    \/ \E t \in Tx : AcceptToMemoryPool(t)
    \/ ClearPool
    \/ \E vtx \in BlockTxs : ConnectTip(vtx)
    \/ RemoveForBlock \/ ConnectDone
    \/ DisconnectTip \/ Resurrect \/ NotResurrected \/ DisconnectDone

Spec == Init /\ [][Next]_vars

-----------------------------------------------------------------------------
(* check(): mapNextTx has the inputs of the pool's transactions and no     *)
(* others, at every moment; so no two of them spend the same output.       *)
NextTxExact == \A o \in Outpoint, t \in Tx : mapNextTx[o] = t <=> (t \in mapTx /\ o \in Inputs[t])

(* check(): once a block has been dealt with, every input in the pool is   *)
(* another's output or an unspent, mature coin, and nothing in the pool is *)
(* in the chain, whatever AcceptToMemoryPool refused on the way.           *)
PoolConnects ==
    phase = "idle" => /\ mapTx \cap Confirmed = {}
                      /\ \A t \in mapTx : \A o \in Inputs[t] : Available(o)

(* A transaction leaves the pool only for a cause: it is in the chain, or  *)
(* an input of it is spent there, immature, or created by neither.  The    *)
(* one exception is the miner, who clears the pool: no block connected or  *)
(* disconnected takes a transaction that could still be mined.             *)
Spoilt(t) ==
    \/ t \in Confirmed
    \/ \E o \in Inputs[t] : \/ Creator[o] \notin mapTx \cup Confirmed
                            \/ ~ Unspent(o)
                            \/ Creator[o] \notin mapTx /\ ~ Mature(o)
LeftForCause == \A t \in mapTx \ mapTx' : Spoilt(t)'
LeavesForCause == [][LeftForCause \/ ClearPool]_vars
=============================================================================
