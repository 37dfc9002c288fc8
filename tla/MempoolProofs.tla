--------------------------- MODULE MempoolProofs ---------------------------
(***************************************************************************)
(* The pool's consistency and the cause of every removal, for any          *)
(* transactions, blocks and heights.                                       *)
(*                                                                         *)
(* PoolConnects only holds between blocks.  The inductive invariant says   *)
(* what holds while a block is being worked on: what is still wrong with   *)
(* the pool concerns transactions the loop has not come to (todo).         *)
(*                                                                         *)
(* The second part is about CoinsCache, for any transactions, coins and    *)
(* blocks: the flags are sound, the assert of BatchWrite holds, and the    *)
(* layers implement a plain map.                                           *)
(***************************************************************************)
EXTENDS Mempool, CoinsCache, TLAPS

(* While a block is connected, a spent input is spent by one still to come.*)
ConnectPending ==
    /\ Elements(todo) \subseteq Confirmed
    /\ mapTx \cap Confirmed \subseteq Elements(todo)
    /\ \A t \in mapTx : \A o \in Inputs[t] :
          /\ Creator[o] \in mapTx \cup Confirmed
          /\ \A u \in Confirmed : o \in Inputs[u] => u \in Elements(todo)
          /\ Creator[o] \notin mapTx => Mature(o)

Distinct(s) == \A i, j \in 1..Len(s) : i # j => s[i] # s[j]

(* While one is disconnected, a missing creator is still to come.          *)
DisconnectPending ==
    /\ Elements(todo) \cap (Confirmed \cup mapTx) = {} /\ Distinct(todo)
    /\ mapTx \cap Confirmed = {}
    /\ \A t \in mapTx : \A o \in Inputs[t] :
          Creator[o] \in mapTx \cup Confirmed \cup Elements(todo) /\ Unspent(o)

(* The chain spends what it created before, once.                          *)
ChainSound ==
    /\ \A i \in 1..Len(chain) : Distinct(chain[i])
    /\ \A t, u \in Confirmed : t # u => Inputs[t] \cap Inputs[u] = {}
    /\ \A t \in Confirmed : \A o \in Inputs[t] :
          Creator[o] \in Confirmed /\ height[Creator[o]] <= height[t]

Inv ==
    /\ TypeOK /\ NextTxExact /\ ChainSound
    /\ PoolConnects
    /\ phase = "idle" => \A t \in mapTx : \A o \in Inputs[t] : Unspent(o)
    /\ phase = "connect" => ConnectPending
    /\ phase = "disconnect" => DisconnectPending

-----------------------------------------------------------------------------
(* The set remove() works out: part of the pool, with S in it, closed, and *)
(* nothing in it without a parent in it except S.                          *)
LEMMA Closure ==
    ASSUME NEW S, S \subseteq mapTx
    PROVE  /\ WithDescendants(S) \subseteq mapTx
           /\ S \subseteq WithDescendants(S)
           /\ Spenders(WithDescendants(S)) \subseteq WithDescendants(S)
           /\ WithDescendants(S) \subseteq S \cup Spenders(WithDescendants(S))
<1> DEFINE W == WithDescendants(S)
<1>1. W \subseteq mapTx  BY DEF WithDescendants
<1>2. S \subseteq W  BY DEF WithDescendants
<1>3. Spenders(W) \subseteq W
  <2> SUFFICES ASSUME NEW t \in Spenders(W), NEW C \in SUBSET mapTx, S \subseteq C, Spenders(C) \subseteq C
               PROVE  t \in C
    BY DEF WithDescendants, Spenders
  <2>1. PICK o \in Outpoint : Creator[o] \in W /\ mapNextTx[o] = t  BY DEF Spenders
  <2>2. Creator[o] \in C  BY <2>1 DEF WithDescendants
  <2>3. t \in Spenders(C)  BY <2>1, <2>2 DEF Spenders
  <2> QED  BY <2>3
<1>4. W \subseteq S \cup Spenders(W)
  <2> DEFINE C == S \cup Spenders(W)
  <2>1. C \subseteq W /\ C \in SUBSET mapTx  BY <1>1, <1>2, <1>3
  <2>2. Spenders(C) \subseteq Spenders(W)  BY <2>1 DEF Spenders
  <2>3. Spenders(C) \subseteq C  BY <2>2
  <2> QED  BY <2>1, <2>3 DEF WithDescendants
<1> QED  BY <1>1, <1>2, <1>3, <1>4

(* The set is the least one.                                               *)
LEMMA Least ==
    ASSUME NEW S, NEW C \in SUBSET mapTx, S \subseteq C, Spenders(C) \subseteq C
    PROVE  WithDescendants(S) \subseteq C
BY DEF WithDescendants

(* A transaction whose parent leaves with it is in the set.                *)
LEMMA ChildLeaves ==
    ASSUME TypeOK, NextTxExact, NEW S, Spenders(S) \subseteq S, NEW t \in mapTx, NEW o \in Inputs[t], Creator[o] \in S
    PROVE  t \in S
<1>1. o \in Outpoint /\ t \in Tx  BY TxAssumption DEF TypeOK
<1>2. mapNextTx[o] = t  BY <1>1 DEF NextTxExact
<1> QED  BY <1>1, <1>2 DEF Spenders

(* Removing a part of the pool keeps mapNextTx exact.                      *)
LEMMA RemoveExact ==
    ASSUME TypeOK, NextTxExact, NEW S, S \subseteq mapTx, Remove(S)
    PROVE  /\ NextTxExact' /\ mapTx' = mapTx \ S
           /\ mapTx' \subseteq Tx \ Generated
           /\ mapNextTx' \in [Outpoint -> Tx \cup {None}]
<1>1. mapTx' = mapTx \ S /\ mapTx' \subseteq Tx \ Generated  BY DEF Remove, TypeOK
<1>2. mapNextTx' \in [Outpoint -> Tx \cup {None}]  BY DEF Remove, EraseMarks, TypeOK
<1>3. ASSUME NEW o \in Outpoint, NEW t \in Tx
      PROVE  mapNextTx'[o] = t <=> (t \in mapTx' /\ o \in Inputs[t])
  <2>1. mapNextTx'[o] = IF \E u \in S : o \in Inputs[u] THEN None ELSE mapNextTx[o]
    BY DEF Remove, EraseMarks
  <2>2. CASE \E u \in S : o \in Inputs[u]
    <3>1. PICK u \in S : o \in Inputs[u]  BY <2>2
    <3>2. mapNextTx[o] = u /\ u \in Tx  BY <3>1 DEF NextTxExact, TypeOK
    <3>3. mapNextTx'[o] # t  BY <2>1, <2>2, TxAssumption
    <3>4. ~ (t \in mapTx' /\ o \in Inputs[t])  BY <1>1, <3>1, <3>2 DEF NextTxExact
    <3> QED  BY <3>3, <3>4
  <2>3. CASE ~ \E u \in S : o \in Inputs[u]
    BY <2>1, <2>3, <1>1 DEF NextTxExact
  <2> QED  BY <2>2, <2>3
<1> QED  BY <1>1, <1>2, <1>3 DEF NextTxExact

(* addUnchecked keeps mapNextTx exact.                                     *)
LEMMA AddExact ==
    ASSUME TypeOK, NextTxExact, NEW t \in Tx, Acceptable(t), addUnchecked(t)
    PROVE  /\ NextTxExact' /\ mapTx' = mapTx \cup {t}
           /\ mapTx' \subseteq Tx \ Generated
           /\ mapNextTx' \in [Outpoint -> Tx \cup {None}]
<1>1. mapTx' = mapTx \cup {t} /\ mapTx' \subseteq Tx \ Generated  BY DEF addUnchecked, Acceptable, TypeOK
<1>2. mapNextTx' \in [Outpoint -> Tx \cup {None}]  BY DEF addUnchecked, TypeOK
<1>3. ASSUME NEW o \in Outpoint, NEW u \in Tx
      PROVE  mapNextTx'[o] = u <=> (u \in mapTx' /\ o \in Inputs[u])
  <2>1. mapNextTx'[o] = IF o \in Inputs[t] THEN t ELSE mapNextTx[o]  BY DEF addUnchecked
  <2>2. CASE o \in Inputs[t]
    <3>1. mapNextTx[o] = None  BY <2>2 DEF Acceptable
    <3>2. ~ (u \in mapTx /\ o \in Inputs[u])  BY <3>1, TxAssumption DEF NextTxExact
    <3> QED  BY <2>1, <2>2, <3>2, <1>1
  <2>3. CASE o \notin Inputs[t]
    BY <2>1, <2>3, <1>1 DEF NextTxExact
  <2> QED  BY <2>2, <2>3
<1> QED  BY <1>1, <1>2, <1>3 DEF NextTxExact

(* What is left of a block after its first transaction.                    *)
LEMMA Rest ==
    ASSUME NEW s \in Seq(Tx), s # <<>>
    PROVE  /\ Head(s) \in Tx /\ Tail(s) \in Seq(Tx) /\ Head(s) \in Elements(s)
           /\ Elements(s) = {Head(s)} \cup Elements(Tail(s))
           /\ Distinct(s) => Distinct(Tail(s)) /\ Head(s) \notin Elements(Tail(s))
<1>1. Len(s) \in Nat \ {0} /\ Head(s) = s[1] /\ Head(s) \in Tx /\ Tail(s) \in Seq(Tx)  OBVIOUS
<1>2. Len(Tail(s)) = Len(s) - 1 /\ \A i \in 1..(Len(s) - 1) : Tail(s)[i] = s[i + 1]  OBVIOUS
<1>3. Elements(s) \subseteq {Head(s)} \cup Elements(Tail(s))
  <2> SUFFICES ASSUME NEW i \in 1..Len(s)
               PROVE  s[i] = Head(s) \/ s[i] \in Elements(Tail(s))
    BY DEF Elements
  <2>1. CASE i = 1  BY <2>1, <1>1
  <2>2. CASE i # 1
    <3>1. i - 1 \in 1..Len(Tail(s)) /\ Tail(s)[i - 1] = s[i]  BY <2>2, <1>1, <1>2
    <3> QED  BY <3>1 DEF Elements
  <2> QED  BY <2>1, <2>2
<1>4. Elements(Tail(s)) \subseteq Elements(s)
  <2> SUFFICES ASSUME NEW i \in 1..Len(Tail(s))
               PROVE  Tail(s)[i] \in Elements(s)
    BY DEF Elements
  <2>1. i + 1 \in 1..Len(s) /\ Tail(s)[i] = s[i + 1]  BY <1>1, <1>2
  <2> QED  BY <2>1 DEF Elements
<1>5. Head(s) \in Elements(s)  BY <1>1 DEF Elements
<1>6. ASSUME Distinct(s) PROVE Distinct(Tail(s)) /\ Head(s) \notin Elements(Tail(s))
  <2>1. ASSUME NEW i \in 1..Len(Tail(s)) PROVE Tail(s)[i] # Head(s)
    <3>1. i + 1 \in 1..Len(s) /\ 1 \in 1..Len(s) /\ i + 1 # 1 /\ Tail(s)[i] = s[i + 1]  BY <1>1, <1>2
    <3> QED  BY <3>1, <1>1, <1>6 DEF Distinct
  <2>2. ASSUME NEW i \in 1..Len(Tail(s)), NEW j \in 1..Len(Tail(s)), i # j PROVE Tail(s)[i] # Tail(s)[j]
    <3>1. i + 1 \in 1..Len(s) /\ j + 1 \in 1..Len(s) /\ i + 1 # j + 1  BY <1>1, <1>2, <2>2
    <3>2. Tail(s)[i] = s[i + 1] /\ Tail(s)[j] = s[j + 1]  BY <1>2, <1>1
    <3> QED  BY <3>1, <3>2, <1>6 DEF Distinct
  <2> QED  BY <2>1, <2>2 DEF Distinct, Elements
<1> QED  BY <1>1, <1>3, <1>4, <1>5, <1>6

-----------------------------------------------------------------------------
(* Steps that leave the chain alone.                                       *)
LEMMA SameChain ==
    ASSUME UNCHANGED <<chain, height>>
    PROVE  /\ Confirmed' = Confirmed
           /\ \A o : Unspent(o)' <=> Unspent(o)
           /\ \A o : Mature(o)' <=> Mature(o)
           /\ ChainSound => ChainSound'
BY DEF Confirmed, Unspent, Mature, ChainSound, Distinct

(* The type invariant, for such steps.                                     *)
LEMMA TypePool ==
    ASSUME TypeOK, UNCHANGED <<chain, height>>, todo' \in Seq(Tx),
           phase' \in {"idle", "connect", "disconnect"},
           mapTx' \subseteq Tx \ Generated, mapNextTx' \in [Outpoint -> Tx \cup {None}]
    PROVE  TypeOK'
BY DEF TypeOK

(* What is acceptable is not in the chain, and neither are spenders of its *)
(* inputs, as long as the pool and the chain have nothing in common.       *)
LEMMA AcceptedIsNew ==
    ASSUME TypeOK, ChainSound, mapTx \cap Confirmed = {}, NEW t \in Tx, Acceptable(t)
    PROVE  t \notin Confirmed /\ \A o \in Inputs[t] : Unspent(o)
<1>1. \A o \in Inputs[t] : Unspent(o)
  <2> SUFFICES ASSUME NEW o \in Inputs[t], NEW u \in Confirmed, o \in Inputs[u] PROVE FALSE
    BY DEF Unspent
  <2>1. Creator[o] \in Confirmed  BY DEF ChainSound
  <2>2. Creator[o] \notin mapTx  BY <2>1
  <2> QED  BY <2>2 DEF Acceptable, Available, Unspent
<1>2. t \notin Generated  BY DEF Acceptable
<1>3. PICK o \in Inputs[t] : TRUE  BY <1>2, TxAssumption
<1> QED  BY <1>1, <1>3 DEF Unspent

(* AcceptToMemoryPool keeps the invariant.                                 *)
LEMMA AcceptStep ==
    ASSUME Inv, NEW t \in Tx, AcceptToMemoryPool(t)
    PROVE  Inv' /\ LeftForCause
<1> USE DEF Inv, AcceptToMemoryPool
<1>1. NextTxExact' /\ mapTx' = mapTx \cup {t} /\ TypeOK'  BY AddExact, TypePool DEF TypeOK
<1>2. /\ Confirmed' = Confirmed /\ ChainSound'
      /\ \A o : Unspent(o)' <=> Unspent(o)
      /\ \A o : Mature(o)' <=> Mature(o)
  BY SameChain
<1>3. mapTx \cap Confirmed = {}  BY DEF PoolConnects
<1>4. t \notin Confirmed /\ \A o \in Inputs[t] : Unspent(o)  BY <1>3, AcceptedIsNew
<1>5. ASSUME NEW u \in mapTx', NEW o \in Inputs[u]
      PROVE  Available(o)' /\ Unspent(o)'
  <2>1. Available(o) /\ Unspent(o)  BY <1>1, <1>4 DEF PoolConnects, Acceptable
  <2> QED  BY <2>1, <1>1, <1>2 DEF Available
<1>6. phase' = "idle"  OBVIOUS
<1>7. PoolConnects'  BY <1>1, <1>2, <1>3, <1>4, <1>5 DEF PoolConnects
<1>8. LeftForCause  BY <1>1 DEF LeftForCause
<1> QED  BY <1>1, <1>2, <1>5, <1>6, <1>7, <1>8

(* A transaction that goes back to the pool keeps the invariant.           *)
LEMMA ResurrectStep ==
    ASSUME Inv, Resurrect
    PROVE  Inv' /\ LeftForCause
<1> USE DEF Inv, Resurrect
<1> DEFINE t == Head(todo)
<1>0. /\ t \in Tx /\ Tail(todo) \in Seq(Tx) /\ Elements(todo) = {t} \cup Elements(Tail(todo))
      /\ Distinct(Tail(todo)) /\ t \notin Elements(Tail(todo))
  BY Rest DEF TypeOK, DisconnectPending
<1> HIDE DEF t
<1>1. NextTxExact' /\ mapTx' = mapTx \cup {t} /\ TypeOK'
  BY <1>0, AddExact, TypePool DEF TypeOK, t
<1>2. /\ Confirmed' = Confirmed /\ ChainSound'
      /\ \A o : Unspent(o)' <=> Unspent(o)
      /\ \A o : Mature(o)' <=> Mature(o)
  BY SameChain
<1>3. DisconnectPending /\ phase' = "disconnect"  OBVIOUS
<1>4. t \notin Confirmed /\ \A o \in Inputs[t] : Unspent(o)
  BY <1>0, <1>3, AcceptedIsNew DEF DisconnectPending, t
<1>5. ASSUME NEW u \in mapTx', NEW o \in Inputs[u]
      PROVE  Creator[o] \in (mapTx \cup Confirmed \cup Elements(todo))' /\ Unspent(o)'
  <2>1. Unspent(o)'  BY <1>1, <1>2, <1>3, <1>4 DEF DisconnectPending
  <2>2. Creator[o] \in mapTx \cup Confirmed \cup Elements(todo)
    <3>1. CASE u \in mapTx  BY <3>1, <1>3 DEF DisconnectPending
    <3>2. CASE u = t  BY <3>2 DEF Acceptable, Available, t
    <3> QED  BY <3>1, <3>2, <1>1
  <2>3. Elements(todo)' = Elements(Tail(todo))  BY DEF Elements
  <2> QED  BY <2>1, <2>2, <2>3, <1>0, <1>1, <1>2
<1>6. Elements(todo)' = Elements(Tail(todo))  BY DEF Elements
<1>7. DisconnectPending'
  BY <1>0, <1>1, <1>2, <1>3, <1>4, <1>5, <1>6 DEF DisconnectPending
<1>8. LeftForCause  BY <1>1 DEF LeftForCause
<1> QED  BY <1>1, <1>2, <1>3, <1>7, <1>8 DEF PoolConnects

(* Whatever leaves the pool with its descendants has a cause if the ones   *)
(* it starts with have.                                                    *)
LEMMA DescendantsSpoilt ==
    ASSUME TypeOK, NextTxExact, UNCHANGED <<chain, height>>, NEW S, S \subseteq mapTx,
           WithDescendants(S) \cap Confirmed = {}, \A t \in S : Spoilt(t)',
           mapTx' \cap WithDescendants(S) = {}
    PROVE  \A t \in WithDescendants(S) : Spoilt(t)'
<1> SUFFICES ASSUME NEW t \in WithDescendants(S), t \notin S PROVE Spoilt(t)'
  OBVIOUS
<1>1. t \in Spenders(WithDescendants(S))  BY Closure
<1>2. PICK o \in Outpoint : Creator[o] \in WithDescendants(S) /\ mapNextTx[o] = t  BY <1>1 DEF Spenders
<1>3. t \in Tx  BY <1>1 DEF Spenders, TypeOK
<1>4. o \in Inputs[t]  BY <1>2, <1>3 DEF NextTxExact
<1>5. Confirmed' = Confirmed  BY SameChain
<1>6. Creator[o] \notin (mapTx \cup Confirmed)'  BY <1>2, <1>5
<1> QED  BY <1>4, <1>6 DEF Spoilt

(* One that does not keeps the invariant.                                  *)
LEMMA NotResurrectedStep ==
    ASSUME Inv, NotResurrected
    PROVE  Inv' /\ LeftForCause
<1> USE DEF Inv, NotResurrected
<1> DEFINE h == Head(todo)
           S == IF h \in mapTx THEN {h} ELSE Spenders({h})
           W == WithDescendants(S)
<1>0. /\ h \in Tx /\ Tail(todo) \in Seq(Tx) /\ Elements(todo) = {h} \cup Elements(Tail(todo))
      /\ Distinct(Tail(todo)) /\ h \notin Elements(Tail(todo))
  BY Rest DEF TypeOK, DisconnectPending
<1>a. S \subseteq mapTx  BY DEF Spenders
<1>b. Remove(W)  BY DEF ToRemove
<1>c. W \subseteq mapTx /\ S \subseteq W /\ Spenders(W) \subseteq W  BY <1>a, Closure
<1>d. \A t \in mapTx : \A o \in Inputs[t] : (Creator[o] = h /\ h \notin mapTx) => t \in S
  BY TxAssumption DEF Spenders, NextTxExact, TypeOK
<1>e. \A t \in S \ {h} : h \notin mapTx /\ t \in Spenders({h})  OBVIOUS
<1>f. \A t \in mapTx : \A o \in Inputs[t] : Creator[o] \in W => t \in W  BY <1>c, ChildLeaves
<1>g. h \in mapTx => h \in W  BY <1>c
<1> HIDE DEF h, S, W
<1>1. NextTxExact' /\ mapTx' = mapTx \ W /\ TypeOK'
  BY <1>0, <1>b, <1>c, RemoveExact, TypePool DEF TypeOK
<1>2. /\ Confirmed' = Confirmed /\ ChainSound'
      /\ \A o : Unspent(o)' <=> Unspent(o)
  BY SameChain
<1>3. DisconnectPending /\ phase' = "disconnect"  OBVIOUS
<1>4. Elements(todo)' = Elements(Tail(todo))  BY DEF Elements
<1>5. ASSUME NEW t \in mapTx', NEW o \in Inputs[t]
      PROVE  Creator[o] \in mapTx' \cup Confirmed' \cup Elements(todo)' /\ Unspent(o)'
  <2>1. Unspent(o)'  BY <1>1, <1>2, <1>3 DEF DisconnectPending
  <2>2. t \in mapTx /\ t \notin W  BY <1>1
  <2>3. Creator[o] \in mapTx \cup Confirmed \cup Elements(todo)  BY <1>3, <2>2 DEF DisconnectPending
  <2>4. Creator[o] \notin W  BY <1>f, <2>2
  <2>5. Creator[o] # h \/ h \in mapTx  BY <1>c, <1>d, <2>2
  <2>6. Creator[o] # h  BY <2>4, <2>5, <1>g
  <2> QED  BY <2>1, <2>3, <2>4, <2>6, <1>0, <1>1, <1>2, <1>4
<1>6. DisconnectPending'
  BY <1>0, <1>1, <1>2, <1>3, <1>4, <1>5 DEF DisconnectPending
<1>7. h \notin Confirmed /\ W \cap Confirmed = {}  BY <1>0, <1>c, <1>3 DEF DisconnectPending
<1>8. ASSUME NEW t \in S PROVE Spoilt(t)'
  <2>1. h \notin mapTx  BY <1>0, <1>3 DEF DisconnectPending
  <2>2. t \in Spenders({h})  BY <2>1 DEF S
  <2>3. PICK o \in Outpoint : Creator[o] = h /\ mapNextTx[o] = t  BY <2>2 DEF Spenders
  <2>4. o \in Inputs[t]  BY <2>2, <2>3 DEF NextTxExact, Spenders, TypeOK
  <2> QED  BY <2>1, <2>3, <2>4, <1>1, <1>2, <1>7 DEF Spoilt
<1>9. LeftForCause
  <2>1. \A t \in W : Spoilt(t)'  BY <1>a, <1>1, <1>7, <1>8, DescendantsSpoilt DEF W
  <2> QED  BY <2>1, <1>1 DEF LeftForCause
<1> QED  BY <1>1, <1>2, <1>3, <1>6, <1>9 DEF PoolConnects

(* removeCoinbaseSpends keeps the invariant.                               *)
LEMMA DisconnectDoneStep ==
    ASSUME Inv, DisconnectDone
    PROVE  Inv' /\ LeftForCause
<1> USE DEF Inv, DisconnectDone
<1> DEFINE S == ImmatureSpends
           W == WithDescendants(S)
<1>a. S \subseteq mapTx  BY DEF ImmatureSpends
<1>c. W \subseteq mapTx /\ S \subseteq W /\ Spenders(W) \subseteq W  BY <1>a, Closure
<1>f. \A t \in mapTx : \A o \in Inputs[t] : Creator[o] \in W => t \in W  BY <1>c, ChildLeaves
<1> HIDE DEF S, W
<1>1. NextTxExact' /\ mapTx' = mapTx \ W /\ TypeOK'
  BY <1>c, RemoveExact, TypePool DEF TypeOK, S, W
<1>2. /\ Confirmed' = Confirmed /\ ChainSound'
      /\ \A o : Unspent(o)' <=> Unspent(o)
      /\ \A o : Mature(o)' <=> Mature(o)
  BY SameChain
<1>3. DisconnectPending /\ phase' = "idle"  OBVIOUS
<1>4. Elements(todo) = {}  BY DEF Elements
<1>5. ASSUME NEW t \in mapTx', NEW o \in Inputs[t]
      PROVE  Available(o)' /\ Unspent(o)'
  <2>1. t \in mapTx /\ t \notin W /\ t \notin S  BY <1>1, <1>c
  <2>2. Unspent(o) /\ Creator[o] \in mapTx \cup Confirmed  BY <1>3, <1>4, <2>1 DEF DisconnectPending
  <2>3. Creator[o] \notin W  BY <1>f, <2>1
  <2>4. Creator[o] \notin mapTx => Mature(o)  BY <2>1, <2>2 DEF S, ImmatureSpends
  <2> QED  BY <2>2, <2>3, <2>4, <1>1, <1>2 DEF Available
<1>6. PoolConnects'  BY <1>1, <1>2, <1>3, <1>5 DEF PoolConnects, DisconnectPending
<1>7. W \cap Confirmed = {}  BY <1>c, <1>3 DEF DisconnectPending
<1>8. ASSUME NEW t \in S PROVE Spoilt(t)'
  <2>1. PICK o \in Inputs[t] : Creator[o] \notin mapTx /\ (Creator[o] \in Confirmed => ~ Mature(o))
    BY DEF S, ImmatureSpends
  <2> QED  BY <2>1, <1>1, <1>2 DEF Spoilt
<1>9. LeftForCause
  <2>1. \A t \in W : Spoilt(t)'  BY <1>a, <1>1, <1>7, <1>8, DescendantsSpoilt DEF W
  <2> QED  BY <2>1, <1>1 DEF LeftForCause
<1> QED  BY <1>1, <1>2, <1>3, <1>5, <1>6, <1>9

(* removeForBlock, for one transaction keeps the invariant.                *)
LEMMA RemoveForBlockStep ==
    ASSUME Inv, RemoveForBlock
    PROVE  Inv' /\ LeftForCause
<1> USE DEF Inv, RemoveForBlock
<1> DEFINE h == Head(todo)
           S == Conflicts(h)
           W == WithDescendants(S)
           R == ({h} \cap mapTx) \cup W
<1>0. /\ h \in Tx /\ Tail(todo) \in Seq(Tx) /\ Elements(todo) = {h} \cup Elements(Tail(todo))
  BY Rest DEF TypeOK
<1>a. S \subseteq mapTx  BY DEF Conflicts
<1>b. Remove(R)  BY DEF BlockRemoves
<1>c. W \subseteq mapTx /\ S \subseteq W /\ Spenders(W) \subseteq W  BY <1>a, Closure
<1>d. \A t \in mapTx \ {h} : \A o \in Inputs[t] : o \in Inputs[h] => t \in S
  BY TxAssumption DEF Conflicts, NextTxExact, TypeOK
<1>e. \A t \in S : t \in mapTx \ {h} /\ \E o \in Inputs[h] : o \in Inputs[t]
  <2> SUFFICES ASSUME NEW t \in S PROVE t \in mapTx \ {h} /\ \E o \in Inputs[h] : o \in Inputs[t]
    OBVIOUS
  <2>1. PICK o \in Inputs[h] : mapNextTx[o] = t  BY DEF Conflicts
  <2>2. o \in Outpoint  BY <1>0, TxAssumption
  <2>3. t \in mapTx \ {h} /\ t \in Tx  BY DEF Conflicts, TypeOK
  <2> QED  BY <2>1, <2>2, <2>3 DEF NextTxExact
<1>f. \A t \in mapTx : \A o \in Inputs[t] : Creator[o] \in W => t \in W  BY <1>c, ChildLeaves
<1> HIDE DEF h, S, W
<1>3. ConnectPending /\ phase' = "connect"  OBVIOUS
<1>g. h \in Confirmed  BY <1>0, <1>3 DEF ConnectPending
<1>7. W \cap Confirmed = {}
  <2> DEFINE C == W \ Confirmed
  <2>1. S \subseteq C
    <3> SUFFICES ASSUME NEW t \in S PROVE t \notin Confirmed  BY <1>c
    <3> QED  BY <1>e, <1>g DEF ChainSound
  <2>2. Spenders(C) \subseteq C
    <3> SUFFICES ASSUME NEW t \in Spenders(C) PROVE t \in C  OBVIOUS
    <3>1. PICK o \in Outpoint : Creator[o] \in C /\ mapNextTx[o] = t /\ t \in mapTx  BY DEF Spenders
    <3>2. t \in Tx /\ o \in Inputs[t]  BY <3>1 DEF NextTxExact, TypeOK
    <3>3. t \in W  BY <1>f, <3>1, <3>2
    <3>4. t \notin Confirmed  BY <3>1, <3>2 DEF ChainSound
    <3> QED  BY <3>3, <3>4
  <2>3. C \in SUBSET mapTx  BY <1>c
  <2>4. W \subseteq C  BY <2>1, <2>2, <2>3, Least DEF W
  <2> QED  BY <2>4
<1>1. NextTxExact' /\ mapTx' = mapTx \ R /\ TypeOK'
  BY <1>0, <1>b, <1>c, RemoveExact, TypePool DEF TypeOK
<1>2. /\ Confirmed' = Confirmed /\ ChainSound'
      /\ \A o : Unspent(o)' <=> Unspent(o)
      /\ \A o : Mature(o)' <=> Mature(o)
  BY SameChain
<1>4. Elements(todo)' = Elements(Tail(todo))  BY DEF Elements
<1>5. ASSUME NEW t \in mapTx', NEW o \in Inputs[t]
      PROVE  /\ Creator[o] \in mapTx' \cup Confirmed'
             /\ \A u \in Confirmed' : o \in Inputs[u] => u \in Elements(todo)'
             /\ Creator[o] \notin mapTx' => Mature(o)'
  <2>1. t \in mapTx /\ t \notin W /\ t # h  BY <1>1
  <2>2. /\ Creator[o] \in mapTx \cup Confirmed
        /\ \A u \in Confirmed : o \in Inputs[u] => u \in Elements(todo)
        /\ Creator[o] \notin mapTx => Mature(o)
    BY <1>3, <2>1 DEF ConnectPending
  <2>3. Creator[o] \notin W  BY <1>f, <2>1
  <2>4. o \notin Inputs[h]  BY <1>c, <1>d, <2>1
  <2>5. Creator[o] \in mapTx' \cup Confirmed'  BY <2>2, <2>3, <1>1, <1>2, <1>g
  <2>6. \A u \in Confirmed' : o \in Inputs[u] => u \in Elements(todo)'  BY <2>2, <2>4, <1>0, <1>2, <1>4
  <2>7. Creator[o] \notin mapTx' => Mature(o)
    <3>1. CASE Creator[o] \in mapTx  BY <3>1 DEF Mature, TypeOK
    <3> QED  BY <3>1, <2>2
  <2> QED  BY <2>5, <2>6, <2>7, <1>2
<1>6. ConnectPending'
  BY <1>0, <1>1, <1>2, <1>3, <1>4, <1>5 DEF ConnectPending
<1>8. ASSUME NEW t \in S PROVE Spoilt(t)'
  <2>1. PICK o \in Inputs[t] : o \in Inputs[h]  BY <1>e
  <2>2. ~ Unspent(o)  BY <2>1, <1>g DEF Unspent
  <2> QED  BY <2>2, <1>2 DEF Spoilt
<1>9. LeftForCause
  <2>1. \A t \in W : Spoilt(t)'  BY <1>a, <1>1, <1>7, <1>8, DescendantsSpoilt DEF W
  <2>2. \A t \in Tx : t = h => Spoilt(t)'  BY <1>g, <1>2 DEF Spoilt
  <2> QED  BY <2>1, <2>2, <1>0, <1>1 DEF LeftForCause
<1> QED  BY <1>1, <1>2, <1>3, <1>6, <1>9 DEF PoolConnects

(* The end of removeForBlock keeps the invariant.                          *)
LEMMA ConnectDoneStep ==
    ASSUME Inv, ConnectDone
    PROVE  Inv' /\ LeftForCause
<1> USE DEF Inv, ConnectDone
<1>1. /\ Confirmed' = Confirmed /\ ChainSound'
      /\ \A o : Unspent(o)' <=> Unspent(o)
      /\ \A o : Mature(o)' <=> Mature(o)
  BY SameChain
<1>2. ConnectPending /\ phase' = "idle" /\ Elements(todo) = {}  BY DEF Elements
<1>3. TypeOK' /\ NextTxExact'  BY DEF TypeOK, NextTxExact
<1>4. ASSUME NEW t \in mapTx', NEW o \in Inputs[t]
      PROVE  Available(o)' /\ Unspent(o)'
  <2>1. Unspent(o)  BY <1>2 DEF ConnectPending, Unspent
  <2> QED  BY <2>1, <1>1, <1>2 DEF ConnectPending, Available
<1>5. PoolConnects'  BY <1>1, <1>2, <1>4 DEF PoolConnects, ConnectPending
<1> QED  BY <1>1, <1>2, <1>3, <1>4, <1>5 DEF LeftForCause

(* Undoing the tip's coins keeps the invariant.                            *)
LEMMA DisconnectTipStep ==
    ASSUME Inv, DisconnectTip
    PROVE  Inv' /\ LeftForCause
<1> USE DEF Inv, DisconnectTip
<1> DEFINE n == Len(chain)
           v == chain[Len(chain)]
<1>1. n \in Nat /\ n > 1 /\ v \in Seq(Tx) /\ n \in 1..Len(chain)  BY DEF TypeOK
<1>2. /\ chain' \in Seq(Seq(Tx)) /\ Len(chain') = n - 1
      /\ \A i \in 1..(n - 1) : chain'[i] = chain[i]
  BY DEF TypeOK
<1>3. /\ height \in [Tx -> Nat] /\ height' \in [Tx -> Nat]
      /\ \A t \in Tx : height[t] <= n /\ height'[t] = IF height[t] = n THEN 0 ELSE height[t]
  BY DEF TypeOK
<1>4. Elements(v) = {t \in Tx : height[t] = n} /\ Distinct(v)  BY <1>1 DEF TypeOK, ChainSound
<1> HIDE DEF n, v
<1>5. TypeOK'
  <2>1. \A t \in Tx : height'[t] <= Len(chain')  BY <1>1, <1>2, <1>3
  <2>2. ASSUME NEW i \in 1..Len(chain') PROVE Elements(chain'[i]) = {t \in Tx : height'[t] = i}
    <3>1. i \in 1..Len(chain) /\ i # n /\ i # 0 /\ chain'[i] = chain[i]  BY <1>1, <1>2 DEF n
    <3>2. Elements(chain[i]) = {t \in Tx : height[t] = i}  BY <3>1 DEF TypeOK
    <3> QED  BY <3>1, <3>2, <1>3
  <2> QED  BY <2>1, <2>2, <1>1, <1>2, <1>3 DEF TypeOK, v
<1>6. Confirmed' = Confirmed \ Elements(v) /\ Elements(v) \subseteq Confirmed
  BY <1>1, <1>3, <1>4 DEF Confirmed
<1>7. ChainSound'
  <2>1. \A i \in 1..Len(chain') : Distinct(chain'[i])  BY <1>1, <1>2 DEF ChainSound, n
  <2>2. ASSUME NEW t \in Confirmed', NEW o \in Inputs[t]
        PROVE  Creator[o] \in Confirmed' /\ height'[Creator[o]] <= height'[t]
    <3>1. t \in Tx /\ t \in Confirmed /\ height'[t] = height[t] /\ height[t] # n
      BY <1>3, <1>4, <1>6 DEF Confirmed
    <3>2. Creator[o] \in Tx /\ Creator[o] \in Confirmed /\ height[Creator[o]] <= height[t]
      BY <3>1 DEF ChainSound, Confirmed
    <3>3. height[Creator[o]] # n  BY <3>1, <3>2, <1>1, <1>3
    <3> QED  BY <3>1, <3>2, <3>3, <1>3, <1>4, <1>6
  <2> QED  BY <2>1, <2>2, <1>6 DEF ChainSound
<1>8. NextTxExact' /\ phase' = "disconnect" /\ mapTx' = mapTx /\ todo' = v  BY DEF NextTxExact, v
<1>9. DisconnectPending'
  <2>1. Elements(todo') = Elements(v) /\ mapTx \cap Confirmed = {}  BY <1>8 DEF PoolConnects
  <2>2. ASSUME NEW t \in mapTx, NEW o \in Inputs[t]
        PROVE  Creator[o] \in mapTx \cup Confirmed' \cup Elements(v) /\ Unspent(o)'
    <3>1. Unspent(o) /\ Creator[o] \in mapTx \cup Confirmed  BY DEF PoolConnects, Available
    <3> QED  BY <3>1, <1>6 DEF Unspent
  <2> QED  BY <2>1, <2>2, <1>4, <1>6, <1>8 DEF DisconnectPending, Elements, Distinct
<1> QED  BY <1>5, <1>7, <1>8, <1>9 DEF PoolConnects, LeftForCause

(* Making a block's coins keeps the invariant.                             *)
LEMMA ConnectTipStep ==
    ASSUME Inv, NEW vtx \in BlockTxs, ConnectTip(vtx)
    PROVE  Inv' /\ LeftForCause
<1> USE DEF Inv, ConnectTip
<1> DEFINE n == Len(chain)
<1>1. n \in Nat /\ vtx \in Seq(Tx)  BY TxAssumption DEF TypeOK
<1>2. /\ chain' \in Seq(Seq(Tx)) /\ Len(chain') = n + 1 /\ chain'[n + 1] = vtx
      /\ \A i \in 1..n : chain'[i] = chain[i]
  BY <1>1 DEF TypeOK
<1>3. /\ height \in [Tx -> Nat] /\ height' \in [Tx -> Nat]
      /\ \A t \in Tx : height[t] <= n /\ height'[t] = IF t \in Elements(vtx) THEN n + 1 ELSE height[t]
  BY <1>1 DEF TypeOK
<1>4. /\ Elements(vtx) \subseteq Tx /\ \A t \in Elements(vtx) : height[t] = 0
      /\ Distinct(vtx)
  BY <1>1 DEF Elements, Connectable, Distinct
<1> HIDE DEF n
<1>5. TypeOK'
  <2>1. \A t \in Tx : height'[t] <= Len(chain')  BY <1>1, <1>2, <1>3
  <2>2. ASSUME NEW i \in 1..Len(chain') PROVE Elements(chain'[i]) = {t \in Tx : height'[t] = i}
    <3>1. CASE i = n + 1
      <4>1. \A t \in Tx : height'[t] = n + 1 <=> t \in Elements(vtx)  BY <1>1, <1>3
      <4> QED  BY <3>1, <4>1, <1>2, <1>4
    <3>2. CASE i # n + 1
      <4>1. i \in 1..n /\ i # 0 /\ chain'[i] = chain[i]  BY <3>2, <1>1, <1>2
      <4>2. Elements(chain[i]) = {t \in Tx : height[t] = i}  BY <4>1 DEF TypeOK, n
      <4>3. \A t \in Tx : height'[t] = i <=> height[t] = i  BY <3>2, <4>1, <1>3, <1>4
      <4> QED  BY <4>1, <4>2, <4>3
    <3> QED  BY <3>1, <3>2
  <2> QED  BY <2>1, <2>2, <1>1, <1>2, <1>3 DEF TypeOK
<1>6. Confirmed' = Confirmed \cup Elements(vtx) /\ Confirmed \cap Elements(vtx) = {}
  BY <1>1, <1>3, <1>4 DEF Confirmed
<1>7. ASSUME NEW t \in Elements(vtx), NEW o \in Inputs[t]
      PROVE  Unspent(o) /\ Creator[o] \in Confirmed' /\ height'[Creator[o]] <= height'[t]
  <2>1. PICK i \in 1..Len(vtx) : t = vtx[i]  BY DEF Elements
  <2>2. o \in Outpoint /\ Creator[o] \in Tx /\ t \in Tx  BY <1>4, TxAssumption
  <2>3. height'[t] = n + 1 /\ height'[Creator[o]] <= n + 1  BY <2>2, <1>1, <1>3
  <2>4. CASE Creator[o] \in Confirmed /\ Unspent(o)
    BY <2>3, <2>4, <1>6
  <2>5. CASE \E j \in 1..(i - 1) : vtx[j] = Creator[o]
    <3>1. PICK j \in 1..(i - 1) : vtx[j] = Creator[o]  BY <2>5
    <3>2. j \in 1..Len(vtx)  BY <1>1
    <3>3. Creator[o] \in Elements(vtx)  BY <3>1, <3>2 DEF Elements
    <3>4. Creator[o] \notin Confirmed  BY <3>3, <1>6
    <3>5. Unspent(o)  BY <3>4 DEF Unspent, ChainSound
    <3> QED  BY <2>3, <3>3, <3>5, <1>6
  <2> QED  BY <2>1, <2>4, <2>5 DEF Connectable
<1>8. ChainSound'
  <2>1. \A i \in 1..Len(chain') : Distinct(chain'[i])  BY <1>1, <1>2, <1>4 DEF ChainSound, n
  <2>2. ASSUME NEW t \in Confirmed', NEW o \in Inputs[t]
        PROVE  Creator[o] \in Confirmed' /\ height'[Creator[o]] <= height'[t]
    <3>1. CASE t \in Elements(vtx)  BY <3>1, <1>7
    <3>2. CASE t \in Confirmed
      <4>1. Creator[o] \in Confirmed /\ height[Creator[o]] <= height[t]  BY <3>2 DEF ChainSound
      <4>2. t \in Tx /\ Creator[o] \in Tx  BY <3>2, <4>1 DEF Confirmed
      <4> QED  BY <3>2, <4>1, <4>2, <1>3, <1>6
    <3> QED  BY <3>1, <3>2, <1>6
  <2>3. ASSUME NEW t \in Confirmed', NEW u \in Confirmed', t # u PROVE Inputs[t] \cap Inputs[u] = {}
    <3>1. CASE t \in Confirmed /\ u \in Confirmed  BY <3>1, <2>3 DEF ChainSound
    <3>2. CASE t \in Elements(vtx) /\ u \in Confirmed  BY <3>2, <1>7 DEF Unspent
    <3>3. CASE t \in Confirmed /\ u \in Elements(vtx)  BY <3>3, <1>7 DEF Unspent
    <3>4. CASE t \in Elements(vtx) /\ u \in Elements(vtx)  BY <3>4, <2>3 DEF Elements, Connectable
    <3> QED  BY <3>1, <3>2, <3>3, <3>4, <1>6
  <2> QED  BY <2>1, <2>2, <2>3 DEF ChainSound
<1>9. NextTxExact' /\ phase' = "connect" /\ mapTx' = mapTx /\ todo' = vtx  BY DEF NextTxExact
<1>10. ConnectPending'
  <2>1. Elements(todo') = Elements(vtx) /\ mapTx \cap Confirmed = {}  BY <1>9 DEF PoolConnects
  <2>2. ASSUME NEW t \in mapTx, NEW o \in Inputs[t]
        PROVE  /\ Creator[o] \in mapTx \cup Confirmed'
               /\ \A u \in Confirmed' : o \in Inputs[u] => u \in Elements(vtx)
               /\ Creator[o] \notin mapTx => Mature(o)'
    <3>1. Unspent(o) /\ Available(o)  BY DEF PoolConnects
    <3>2. \A u \in Confirmed' : o \in Inputs[u] => u \in Elements(vtx)  BY <3>1, <1>6 DEF Unspent
    <3>3. ASSUME Creator[o] \notin mapTx PROVE Mature(o)'
      <4>1. Creator[o] \in Confirmed /\ Mature(o)  BY <3>1, <3>3 DEF Available
      <4>2. Creator[o] \in Tx /\ height'[Creator[o]] = height[Creator[o]]  BY <4>1, <1>3, <1>6 DEF Confirmed
      <4> QED  BY <4>1, <4>2, <1>1, <1>2, <1>3, HeightAssumption DEF Mature, n
    <3> QED  BY <3>1, <3>2, <3>3, <1>6 DEF Available
  <2> QED  BY <2>1, <2>2, <1>6, <1>9 DEF ConnectPending, Elements
<1> QED  BY <1>5, <1>8, <1>9, <1>10 DEF PoolConnects, LeftForCause

-----------------------------------------------------------------------------
(* The empty pool on the first block.                                      *)
LEMMA Initially == Init => Inv
<1> SUFFICES ASSUME Init PROVE Inv  OBVIOUS
<1>1. Base \in Seq(Tx) /\ Len(chain) = 1 /\ chain[1] = Base /\ chain \in Seq(Seq(Tx))  BY TxAssumption DEF Init
<1>2. Elements(Base) \subseteq Tx /\ Distinct(Base) /\ \A t \in Elements(Base) : Inputs[t] = {}
  BY TxAssumption DEF Elements, Distinct
<1>7. \A t \in Elements(Base) : height[t] = 1  BY <1>2 DEF Init
<1>8. \A t \in Tx \ Elements(Base) : height[t] = 0  BY DEF Init
<1>9. height \in [Tx -> Nat]  BY DEF Init
<1>10. ASSUME NEW t \in Tx
       PROVE  (height[t] # 0 <=> t \in Elements(Base)) /\ (height[t] = 1 <=> t \in Elements(Base)) /\ height[t] <= 1
  <2>1. CASE t \in Elements(Base)
    <3>1. height[t] = 1  BY <2>1, <1>7
    <3> QED  BY <3>1, <2>1
  <2>2. CASE t \notin Elements(Base)
    <3>1. height[t] = 0  BY <2>2, <1>8
    <3> QED  BY <3>1, <2>2
  <2> QED  BY <2>1, <2>2
<1>3. Confirmed = Elements(Base)  BY <1>10, <1>2 DEF Confirmed
<1>4. TypeOK
  <2>1. \A t \in Tx : height[t] <= Len(chain)  BY <1>10, <1>1
  <2>2. ASSUME NEW i \in 1..Len(chain) PROVE Elements(chain[i]) = {t \in Tx : height[t] = i}
    <3>1. i = 1  BY <1>1
    <3> QED  BY <3>1, <1>10, <1>1, <1>2
  <2>3. mapTx = {} /\ phase = "idle" /\ todo \in Seq(Tx)  BY DEF Init
  <2>4. mapNextTx \in [Outpoint -> Tx \cup {None}]  BY DEF Init
  <2> QED  BY <2>1, <2>2, <2>3, <2>4, <1>1, <1>9 DEF TypeOK
<1>5. NextTxExact  BY TxAssumption DEF NextTxExact, Init
<1>6. ChainSound
  <2>1. \A i \in 1..Len(chain) : i = 1  BY <1>1
  <2>2. \A i \in 1..Len(chain) : Distinct(chain[i])  BY <2>1, <1>1, <1>2
  <2> QED  BY <2>2, <1>2, <1>3 DEF ChainSound
<1> QED  BY <1>4, <1>5, <1>6 DEF Inv, PoolConnects, Init

(* An empty pool fits any chain.                                           *)
LEMMA ClearPoolStep ==
    ASSUME Inv, ClearPool
    PROVE  Inv'
<1> USE DEF Inv, ClearPool
<1>1. TypeOK'  BY DEF TypeOK
<1>2. NextTxExact'  BY TxAssumption DEF NextTxExact
<1>3. ChainSound' /\ phase' = "idle" /\ mapTx' = {}  BY DEF ChainSound, Confirmed
<1> QED  BY <1>1, <1>2, <1>3 DEF PoolConnects

(* Every step keeps the invariant and, the miner's apart, has a cause for  *)
(* what it removes.                                                        *)
LEMMA Step == Inv /\ [Next]_vars => Inv' /\ [LeftForCause \/ ClearPool]_vars
<1> SUFFICES ASSUME Inv, [Next]_vars PROVE Inv' /\ (LeftForCause \/ ClearPool \/ UNCHANGED vars)
  OBVIOUS
<1>1. CASE UNCHANGED vars
  BY <1>1 DEF vars, Inv, TypeOK, NextTxExact, ChainSound, PoolConnects, ConnectPending, DisconnectPending,
              Confirmed, Unspent, Mature, Available, Elements, Distinct
<1>2. CASE Next
  BY <1>2, AcceptStep, ClearPoolStep, ConnectTipStep, RemoveForBlockStep, ConnectDoneStep, DisconnectTipStep,
     ResurrectStep, NotResurrectedStep, DisconnectDoneStep DEF Next
<1> QED  BY <1>1, <1>2

(* Pool, chain and heights fit each other in every state.                  *)
THEOREM TypeCorrect == Spec => []TypeOK
<1>1. Inv => TypeOK  BY DEF Inv
<1> QED  BY <1>1, Initially, Step, PTL DEF Spec

(* mapNextTx is exact at every moment, also in the middle of a block: no   *)
(* double spend in the pool, no mark left behind by a removal.             *)
THEOREM MarksCorrect == Spec => []NextTxExact
<1>1. Inv => NextTxExact  BY DEF Inv
<1> QED  BY <1>1, Initially, Step, PTL DEF Spec

(* Between blocks the pool can be mined on the chain, after any sequence of*)
(* blocks connected and disconnected.                                      *)
THEOREM PoolCorrect == Spec => []PoolConnects
<1>1. Inv => PoolConnects  BY DEF Inv
<1> QED  BY <1>1, Initially, Step, PTL DEF Spec

(* Nothing leaves the pool without a cause, unless the miner clears it.    *)
THEOREM RemovalsCorrect == Spec => LeavesForCause
BY Initially, Step, PTL DEF Spec, LeavesForCause

-----------------------------------------------------------------------------
(* CoinsCache, the coins that the pool is checked against.                 *)
USE CoinsAssumption, BlockAssumption, AbsentAssumption

CoinsInv == CoinsTypeOK /\ FlagsSound /\ HeldBelow /\ ClosedIsEmpty

(* Entries, as the provers need them.                                      *)
LEMMA EntryFields ==
    ASSUME NEW e \in Entry
    PROVE  /\ e # Absent
           /\ e.coins \in Coins \cup {Pruned} /\ e.dirty \in BOOLEAN /\ e.fresh \in BOOLEAN
BY DEF Entry

LEMMA CopyIsEntry == \A c \in Coins \cup {Pruned} : Copy(c) \in Entry
BY DEF Entry, Copy

LEMMA CopyFacts ==
    ASSUME NEW c
    PROVE  /\ Copy(c).coins = c
           /\ Copy(c).fresh => c = Pruned
           /\ FlagsOf(Copy(c), c)
<1>1. Copy(c) = [coins |-> c, dirty |-> FALSE, fresh |-> (c = Pruned)]
  BY DEF Copy
<1>2. Copy(c).coins = c /\ Copy(c).fresh = (c = Pruned)
  BY <1>1
<1> QED
  BY <1>2 DEF FlagsOf

LEMMA ModifiedIsEntry ==
    \A e \in Entry, c \in Coins \cup {Pruned} : Modified(e, c) \in Entry \cup {Absent}
BY DEF Entry, Modified

LEMMA MergeIsEntry ==
    \A e, o \in Entry \cup {Absent} : Merge(e, o) \in Entry \cup {Absent}
BY DEF Entry, Merge

(* FetchCoins leaves what pcoinsTip answers alone, and an entry if the     *)
(* answer is not empty.                                                    *)
LEMMA FetchFacts ==
    ASSUME CoinsTypeOK, FlagsSound, NEW t \in Txid
    PROVE  /\ FetchCoins(t) \in Cache
           /\ \A u \in Txid : u # t => FetchCoins(t)[u] = tip[u]
           /\ tip[t] # Absent => FetchCoins(t)[t] = tip[t]
           /\ tip[t] = Absent /\ db[t] = Pruned => FetchCoins(t)[t] = Absent
           /\ tip[t] = Absent /\ db[t] # Pruned => FetchCoins(t)[t] = Copy(db[t])
<1>1. Copy(db[t]) \in Entry
  BY CopyIsEntry DEF CoinsTypeOK, Map
<1> QED
  BY <1>1 DEF FetchCoins, CoinsTypeOK, Cache

(* BatchWrite makes the parent answer as the child did.                    *)
LEMMA MergeFacts ==
    ASSUME CoinsInv, NEW t \in Txid
    PROVE  /\ (IF Merge(view[t], tip[t]) = Absent THEN db[t] ELSE Merge(view[t], tip[t]).coins) = InView(t)
           /\ FlagsOf(Merge(view[t], tip[t]), db[t])
<1> DEFINE e == view[t]
           o == tip[t]
           m == Merge(e, o)
<1>1. e \in Entry \cup {Absent} /\ o \in Entry \cup {Absent} /\ m \in Entry \cup {Absent}
  BY MergeIsEntry DEF CoinsInv, CoinsTypeOK, Cache
<1>2. FlagsOf(o, db[t]) /\ FlagsOf(e, InTip(t))
  BY DEF CoinsInv, FlagsSound
<1>3. e # Absent /\ o = Absent => e.fresh
  BY DEF CoinsInv, HeldBelow
<1>4. InTip(t) = IF o = Absent THEN db[t] ELSE o.coins
  BY DEF InTip
<1>5. InView(t) = IF e = Absent THEN InTip(t) ELSE e.coins
  BY DEF InView
<1>6. m = Merge(e, o)
  OBVIOUS
<1> SUFFICES (IF m = Absent THEN db[t] ELSE m.coins) = InView(t) /\ FlagsOf(m, db[t])
  OBVIOUS
<1> HIDE DEF e, o, m
<1>7. CASE e = Absent \/ ~ e.dirty
  BY <1>1, <1>2, <1>4, <1>5, <1>6, <1>7 DEF Merge, FlagsOf
<1>8. CASE e # Absent /\ e.dirty /\ o = Absent
  <2>1. db[t] = Pruned
    BY <1>2, <1>3, <1>4, <1>8 DEF FlagsOf
  <2>2. CASE e.coins = Pruned
    BY <1>4, <1>5, <1>6, <1>8, <2>1, <2>2 DEF Merge, FlagsOf
  <2>3. CASE e.coins # Pruned
    <3>1. m = [coins |-> e.coins, dirty |-> TRUE, fresh |-> TRUE]
      BY <1>6, <1>8, <2>3 DEF Merge
    <3>2. m # Absent
      <4>1. e.coins \in Coins
        BY <1>1, <1>8, <2>3, EntryFields
      <4>2. m \in Entry
        BY <3>1, <4>1 DEF Entry
      <4> QED
        BY <4>2
    <3> QED
      BY <1>5, <1>8, <2>1, <3>1, <3>2 DEF FlagsOf
  <2> QED
    BY <2>2, <2>3
<1>9. CASE e # Absent /\ e.dirty /\ o # Absent
  <2>1. CASE o.fresh /\ e.coins = Pruned
    BY <1>2, <1>5, <1>6, <1>9, <2>1 DEF Merge, FlagsOf
  <2>2. CASE ~ (o.fresh /\ e.coins = Pruned)
    <3>1. m = [o EXCEPT !.coins = e.coins, !.dirty = TRUE]
      BY <1>6, <1>9, <2>2 DEF Merge
    <3>2. o \in [coins : Coins \cup {Pruned}, dirty : BOOLEAN, fresh : BOOLEAN]
      BY <1>1, <1>9 DEF Entry
    <3>3. m.coins = e.coins /\ m.dirty = TRUE /\ m.fresh = o.fresh
      BY <3>1, <3>2
    <3>4. m # Absent
      <4>1. m \in [coins : Coins \cup {Pruned}, dirty : BOOLEAN, fresh : BOOLEAN]
        BY <3>1, <3>2, <1>1, <1>9, EntryFields
      <4>2. ~ (m.coins = Pruned /\ m.dirty /\ m.fresh)
        BY <2>2, <3>3
      <4> QED
        BY <4>1, <4>2 DEF Entry
    <3> QED
      BY <1>2, <1>5, <1>9, <3>3, <3>4 DEF FlagsOf
  <2> QED
    BY <2>1, <2>2
<1> QED
  BY <1>7, <1>8, <1>9

(* A read through pcoinsTip fills it and changes nothing else there.       *)
LEMMA TipFetched ==
    ASSUME CoinsInv, NEW t \in Txid, db' = db, tip' = FetchCoins(t) \/ tip' = tip
    PROVE  /\ tip' \in Cache
           /\ \A u \in Txid : InTip(u)' = InTip(u) /\ FlagsOf(tip'[u], db'[u])
           /\ \A u \in Txid : tip[u] # Absent => tip'[u] # Absent
           /\ tip' = FetchCoins(t) /\ tip'[t] = Absent => InTip(t) = Pruned
<1>1. CASE tip' = tip
  <2>1. tip[t] = Absent /\ tip' = FetchCoins(t) => db[t] = Pruned
    <3>1. tip[t] = Absent /\ db[t] # Pruned => FetchCoins(t)[t] = Copy(db[t])
      BY FetchFacts DEF CoinsInv
    <3>2. Copy(db[t]) # Absent
      BY CopyIsEntry, EntryFields DEF CoinsInv, CoinsTypeOK, Map
    <3> QED
      BY <1>1, <3>1, <3>2
  <2> QED
    BY <1>1, <2>1 DEF CoinsInv, CoinsTypeOK, FlagsSound, InTip
<1>2. CASE tip' = FetchCoins(t)
  <2>1. tip' \in Cache /\ \A u \in Txid : u # t => tip'[u] = tip[u]
    BY <1>2, FetchFacts DEF CoinsInv
  <2>2. \A u \in Txid : FlagsOf(tip[u], db[u])
    BY DEF CoinsInv, FlagsSound
  <2>3. CASE tip[t] # Absent
    <3>1. tip'[t] = tip[t]
      BY <1>2, <2>3, FetchFacts DEF CoinsInv
    <3> QED
      BY <2>1, <2>2, <2>3, <3>1 DEF InTip
  <2>4. CASE tip[t] = Absent /\ db[t] = Pruned
    <3>1. tip'[t] = tip[t]
      BY <1>2, <2>4, FetchFacts DEF CoinsInv
    <3> QED
      BY <2>1, <2>2, <2>4, <3>1 DEF InTip
  <2>5. CASE tip[t] = Absent /\ db[t] # Pruned
    <3>1. tip'[t] = Copy(db[t]) /\ tip'[t] # Absent
      BY <1>2, <2>5, FetchFacts, CopyIsEntry, EntryFields DEF CoinsInv, CoinsTypeOK, Map
    <3>2. tip'[t].coins = db[t] /\ FlagsOf(tip'[t], db[t])
      BY <3>1, CopyFacts
    <3> QED
      BY <2>1, <2>2, <2>5, <3>1, <3>2 DEF InTip
  <2> QED
    BY <2>3, <2>4, <2>5
<1> QED
  BY <1>1, <1>2

(* ModifyCoins: the view answers c for t, and as before for the others.    *)
LEMMA ModifyStep ==
    ASSUME CoinsInv, NEW t \in Txid, NEW c \in Coins \cup {Pruned}, ModifyCoins(t, c)
    PROVE  /\ CoinsInv'
           /\ \A u \in Txid : InTip(u)' = InTip(u)
           /\ \A u \in Txid : InView(u)' = IF u = t THEN c ELSE InView(u)
<1> DEFINE e == IF view[t] # Absent THEN view[t]
                ELSE Copy(IF tip'[t] = Absent THEN Pruned ELSE tip'[t].coins)
<1>1. /\ tip' \in Cache
      /\ \A u \in Txid : InTip(u)' = InTip(u) /\ FlagsOf(tip'[u], db'[u])
      /\ \A u \in Txid : tip[u] # Absent => tip'[u] # Absent
      /\ tip' = FetchCoins(t) /\ tip'[t] = Absent => InTip(t) = Pruned
  BY TipFetched DEF ModifyCoins
<1>2. e \in Entry
  <2>1. tip'[t] # Absent => tip'[t].coins \in Coins \cup {Pruned}
    BY <1>1, EntryFields DEF Cache
  <2> QED
    BY <2>1, CopyIsEntry DEF CoinsInv, CoinsTypeOK, Cache
<1>3. e.fresh => InTip(t) = Pruned
  <2>1. CASE view[t] # Absent
    BY <2>1 DEF CoinsInv, FlagsSound, FlagsOf
  <2>2. CASE view[t] = Absent
    <3>1. tip'[t] # Absent => tip'[t].coins = InTip(t)
      BY <1>1 DEF InTip
    <3>2. tip' = FetchCoins(t)
      BY <2>2 DEF ModifyCoins
    <3>3. e = Copy(InTip(t))
      BY <1>1, <2>2, <3>1, <3>2
    <3> QED
      BY <3>3, CopyFacts
  <2> QED
    BY <2>1, <2>2
<1>4. tip'[t] = Absent => e.fresh
  <2>1. CASE view[t] # Absent
    BY <1>1, <2>1 DEF CoinsInv, HeldBelow
  <2>2. CASE view[t] = Absent
    BY <2>2 DEF Copy
  <2> QED
    BY <2>1, <2>2
<1>5. view' = [view EXCEPT ![t] = Modified(e, c)] /\ Modified(e, c) \in Entry \cup {Absent}
  BY <1>2, ModifiedIsEntry DEF ModifyCoins
<1> HIDE DEF e
<1>6. /\ view' \in Cache
      /\ view'[t] = Modified(e, c)
      /\ \A u \in Txid : u # t => view'[u] = view[u]
  BY <1>5 DEF CoinsInv, CoinsTypeOK, Cache
<1>7. CASE e.fresh /\ c = Pruned
  <2>1. view'[t] = Absent
    BY <1>6, <1>7 DEF Modified
  <2>2. \A u \in Txid : InView(u)' = IF u = t THEN c ELSE InView(u)
    BY <1>1, <1>3, <1>6, <1>7, <2>1 DEF InView
  <2>3. FlagsSound' /\ HeldBelow'
    BY <1>1, <1>6, <2>1 DEF CoinsInv, FlagsSound, HeldBelow, FlagsOf
  <2> QED
    BY <1>1, <1>6, <2>2, <2>3 DEF CoinsInv, CoinsTypeOK, ClosedIsEmpty, ModifyCoins
<1>8. CASE ~ (e.fresh /\ c = Pruned)
  <2>1. view'[t] = [coins |-> c, dirty |-> TRUE, fresh |-> e.fresh] /\ view'[t] # Absent
    <3>1. view'[t] = [coins |-> c, dirty |-> TRUE, fresh |-> e.fresh]
      BY <1>6, <1>8 DEF Modified
    <3>2. view'[t] \in Entry
      BY <1>2, <1>8, <3>1, EntryFields DEF Entry
    <3> QED
      BY <3>1, <3>2
  <2>2. \A u \in Txid : InView(u)' = IF u = t THEN c ELSE InView(u)
    BY <1>1, <1>6, <2>1 DEF InView
  <2>3. FlagsOf(view'[t], InTip(t))
    BY <1>3, <2>1 DEF FlagsOf
  <2>4. FlagsSound'
    BY <1>1, <1>6, <2>3 DEF CoinsInv, FlagsSound
  <2>5. HeldBelow'
    BY <1>1, <1>4, <1>6, <2>1 DEF CoinsInv, HeldBelow
  <2> QED
    BY <1>1, <1>6, <2>2, <2>4, <2>5 DEF CoinsInv, CoinsTypeOK, ClosedIsEmpty, ModifyCoins
<1> QED
  BY <1>7, <1>8

(* A read through the view changes no answer.                              *)
LEMMA AccessStep ==
    ASSUME CoinsInv, NEW t \in Txid, AccessTip(t) \/ AccessView(t)
    PROVE  /\ CoinsInv'
           /\ \A u \in Txid : InTip(u)' = InTip(u) /\ InView(u)' = InView(u)
<1>1. /\ tip' \in Cache
      /\ \A u \in Txid : InTip(u)' = InTip(u) /\ FlagsOf(tip'[u], db'[u])
      /\ \A u \in Txid : tip[u] # Absent => tip'[u] # Absent
  BY TipFetched DEF AccessTip, AccessView
<1>2. CASE view' = view
  <2>1. \A u \in Txid : InView(u)' = InView(u)
    BY <1>1, <1>2 DEF InView
  <2>2. FlagsSound' /\ HeldBelow'
    BY <1>1, <1>2 DEF CoinsInv, FlagsSound, HeldBelow
  <2> QED
    BY <1>1, <1>2, <2>1, <2>2 DEF CoinsInv, CoinsTypeOK, ClosedIsEmpty, AccessTip, AccessView
<1>3. CASE AccessView(t) /\ tip'[t] # Absent
  <2>1. tip'[t].coins = InTip(t) /\ tip'[t].coins \in Coins \cup {Pruned}
    BY <1>1, <1>3, EntryFields DEF InTip, Cache
  <2>2. view' = [view EXCEPT ![t] = Copy(InTip(t))] /\ Copy(InTip(t)) \in Entry
    BY <1>3, <2>1, CopyIsEntry DEF AccessView
  <2>3. /\ view' \in Cache
        /\ view'[t] = Copy(InTip(t)) /\ view'[t] # Absent
        /\ \A u \in Txid : u # t => view'[u] = view[u]
    BY <2>2, EntryFields DEF CoinsInv, CoinsTypeOK, Cache
  <2>4. view'[t].coins = InTip(t) /\ FlagsOf(view'[t], InTip(t))
    BY <2>3, CopyFacts
  <2>5. \A u \in Txid : InView(u)' = InView(u)
    BY <1>1, <1>3, <2>3, <2>4 DEF InView, AccessView
  <2>6. FlagsSound' /\ HeldBelow'
    BY <1>1, <1>3, <2>3, <2>4 DEF CoinsInv, FlagsSound, HeldBelow
  <2> QED
    BY <1>1, <1>3, <2>3, <2>5, <2>6 DEF CoinsInv, CoinsTypeOK, ClosedIsEmpty, AccessView
<1> QED
  BY <1>2, <1>3 DEF AccessTip, AccessView

(* Flushing the view makes pcoinsTip answer what the view did.             *)
LEMMA FlushViewStep ==
    ASSUME CoinsInv, NEW b \in Block, FlushView(b)
    PROVE  CoinsInv' /\ TipState' = ViewState /\ ViewState' = ViewState
<1>1. \A t \in Txid : tip'[t] = Merge(view[t], tip[t]) /\ tip'[t] \in Entry \cup {Absent}
  BY MergeIsEntry DEF FlushView, CoinsInv, CoinsTypeOK, Cache
<1>2. tip' \in Cache
  BY <1>1 DEF FlushView, Cache
<1>3. \A t \in Txid : view'[t] = Absent
  BY DEF FlushView, Empty
<1>4. \A t \in Txid : InTip(t)' = InView(t) /\ FlagsOf(tip'[t], db'[t])
  BY <1>1, MergeFacts DEF FlushView, InTip
<1>5. \A t \in Txid : InView(t)' = InView(t)
  BY <1>3, <1>4 DEF InView
<1>6. FlagsSound' /\ HeldBelow'
  BY <1>3, <1>4 DEF FlagsSound, HeldBelow, FlagsOf
<1>7. ViewState \in Map
  <2>1. \A t \in Txid : InView(t) \in Coins \cup {Pruned}
    BY EntryFields DEF CoinsInv, CoinsTypeOK, Cache, Map, InView, InTip
  <2> QED
    BY <2>1 DEF ViewState, Map
<1>8. CoinsTypeOK'
  BY <1>2, <1>7 DEF CoinsInv, CoinsTypeOK, FlushView, Empty, Cache
<1> QED
  BY <1>4, <1>5, <1>6, <1>8 DEF CoinsInv, TipState, ViewState, ClosedIsEmpty, FlushView

(* An empty cache is well-formed and answers what the layer below does.    *)
LEMMA EmptyFacts == Empty \in Cache /\ \A t \in Txid : Empty[t] = Absent
BY DEF Empty, Cache

LEMMA ClosedStates == CoinsInv /\ ~ open => ViewState = TipState
BY EmptyFacts DEF CoinsInv, ClosedIsEmpty, ViewState, TipState, InView

LEMMA ViewStep ==
    ASSUME CoinsInv, OpenView \/ DropView
    PROVE  CoinsInv' /\ TipState' = TipState /\ ViewState' = TipState
<1>1. view' = Empty /\ UNCHANGED <<db, dbBest, tip, tipBest, stateOf, failed>> /\ open' \in BOOLEAN
  BY DEF OpenView, DropView
<1>2. \A t \in Txid : InTip(t)' = InTip(t) /\ InView(t)' = InTip(t)
  BY <1>1, EmptyFacts DEF InTip, InView
<1>3. FlagsSound' /\ HeldBelow'
  BY <1>1, <1>2, EmptyFacts DEF CoinsInv, FlagsSound, HeldBelow, FlagsOf
<1>4. CoinsTypeOK' /\ ClosedIsEmpty'
  BY <1>1, EmptyFacts DEF CoinsInv, CoinsTypeOK, ClosedIsEmpty
<1> QED
  BY <1>2, <1>3, <1>4 DEF CoinsInv, TipState, ViewState

LEMMA FlushTipStep ==
    ASSUME CoinsInv, FlushTip
    PROVE  CoinsInv' /\ TipState' = TipState /\ ViewState' = TipState /\ db' = TipState
<1>1. tip' = Empty /\ view' = view /\ view = Empty
  BY DEF FlushTip, CoinsInv, ClosedIsEmpty
<1>2. \A t \in Txid : tip[t] \in Entry \cup {Absent} /\ FlagsOf(tip[t], db[t])
  BY DEF CoinsInv, CoinsTypeOK, Cache, FlagsSound
<1>3. \A t \in Txid : Written(tip[t], db[t]) = InTip(t)
  BY <1>2 DEF Written, InTip, FlagsOf
<1>4. db' = TipState
  BY <1>3 DEF FlushTip, TipState
<1>5. \A t \in Txid : InTip(t)' = InTip(t) /\ InView(t)' = InTip(t)
  BY <1>1, <1>4, EmptyFacts DEF InTip, InView, TipState
<1>6. FlagsSound' /\ HeldBelow' /\ ClosedIsEmpty'
  BY <1>1, EmptyFacts DEF FlagsSound, HeldBelow, FlagsOf, ClosedIsEmpty, FlushTip
<1>7. TipState \in Map
  <2>1. \A t \in Txid : InTip(t) \in Coins \cup {Pruned}
    BY <1>2, EntryFields DEF CoinsInv, CoinsTypeOK, Map, InTip
  <2> QED
    BY <2>1 DEF TipState, Map
<1>8. CoinsTypeOK'
  BY <1>1, <1>4, <1>7, EmptyFacts DEF CoinsInv, CoinsTypeOK, FlushTip, WrittenBest
<1> QED
  BY <1>4, <1>5, <1>6, <1>8 DEF CoinsInv, TipState, ViewState

LEMMA LostStep ==
    ASSUME CoinsInv, FlushTipFails \/ Crash
    PROVE  CoinsInv' /\ TipState' = db /\ ViewState' = db
<1>1. /\ tip' = Empty /\ view' = Empty /\ open' \in BOOLEAN /\ UNCHANGED <<db, dbBest, stateOf>>
      /\ tipBest' \in Block \cup {Null} /\ failed' \in BOOLEAN
  BY DEF FlushTipFails, Crash, CoinsInv, ClosedIsEmpty, CoinsTypeOK
<1>2. \A t \in Txid : InTip(t)' = db[t] /\ InView(t)' = db[t]
  BY <1>1, EmptyFacts DEF InTip, InView
<1>3. FlagsSound' /\ HeldBelow' /\ ClosedIsEmpty'
  BY <1>1, EmptyFacts DEF FlagsSound, HeldBelow, FlagsOf, ClosedIsEmpty
<1>4. CoinsTypeOK'
  BY <1>1, EmptyFacts DEF CoinsInv, CoinsTypeOK
<1>5. db = [t \in Txid |-> db[t]]
  BY DEF CoinsInv, CoinsTypeOK, Map
<1> QED
  BY <1>2, <1>3, <1>4, <1>5 DEF CoinsInv, TipState, ViewState

(* Flags, types and the presence of entries below are kept by every step.  *)
THEOREM CoinsInductive == CoinsSpec => []CoinsInv
<1>1. CoinsInit => CoinsInv
  <2> SUFFICES ASSUME CoinsInit PROVE CoinsInv
    OBVIOUS
  <2>1. db \in Map /\ stateOf \in [Block -> Map \cup {Unknown}]
    BY DEF CoinsInit, Map
  <2>2. CoinsTypeOK /\ ClosedIsEmpty
    BY <2>1, EmptyFacts DEF CoinsInit, CoinsTypeOK, ClosedIsEmpty
  <2>3. FlagsSound /\ HeldBelow
    BY EmptyFacts DEF CoinsInit, FlagsSound, HeldBelow, FlagsOf
  <2> QED
    BY <2>2, <2>3 DEF CoinsInv
<1>2. CoinsInv /\ [CoinsNext]_coinsVars => CoinsInv'
  <2> SUFFICES ASSUME CoinsInv, [CoinsNext]_coinsVars PROVE CoinsInv'
    OBVIOUS
  <2>1. CASE UNCHANGED coinsVars
    BY <2>1 DEF coinsVars, CoinsInv, CoinsTypeOK, FlagsSound, HeldBelow, ClosedIsEmpty, InTip
  <2> QED
    BY <2>1, ViewStep, FlushTipStep, LostStep, AccessStep, ModifyStep, FlushViewStep DEF CoinsNext
<1> QED
  BY <1>1, <1>2, PTL DEF CoinsSpec

(* The entries of CCoinsViewCache are well-formed, also when writes fail.  *)
THEOREM CoinsTypeCorrect == CoinsSpec => []CoinsTypeOK
<1>1. CoinsInv => CoinsTypeOK
  BY DEF CoinsInv
<1> QED
  BY <1>1, CoinsInductive, PTL

(* The flags say what coins.h says of them, also when writes fail.         *)
THEOREM FlagsCorrect == CoinsSpec => []FlagsSound
<1>1. CoinsInv => FlagsSound
  BY DEF CoinsInv
<1> QED
  BY <1>1, CoinsInductive, PTL

(* The assert of BatchWrite never fails.                                   *)
THEOREM AssertHolds == CoinsSpec => []AssertFresh
<1>1. CoinsInv => AssertFresh
  BY DEF CoinsInv, HeldBelow, AssertFresh
<1> QED
  BY <1>1, CoinsInductive, PTL

(* The layers implement UTXOSet: each step is a step of the plain map or   *)
(* none.                                                                   *)
THEOREM CoinsRefinement == CoinsSpec => ImplementsUTXOSet
<1>1. CoinsInit => Abstract!Init
  <2> SUFFICES ASSUME CoinsInit PROVE Abstract!Init
    OBVIOUS
  <2>1. TipState = db /\ ViewState = db
    BY EmptyFacts DEF CoinsInit, TipState, ViewState, InTip, InView
  <2> QED
    BY <2>1 DEF CoinsInit, Abstract!Init, Abstract!State, Abstract!Empty, GetBestBlock
<1>2. CoinsInv /\ [CoinsNext]_coinsVars => [Abstract!Next]_(Abstract!vars)
  <2> SUFFICES ASSUME CoinsInv, [CoinsNext]_coinsVars PROVE [Abstract!Next]_(Abstract!vars)
    OBVIOUS
  <2>1. CASE OpenView
    <3>1. ViewState' = ViewState /\ TipState' = TipState
      BY <2>1, ViewStep, ClosedStates DEF OpenView
    <3> QED
      BY <2>1, <3>1 DEF OpenView, GetBestBlock, Abstract!Next, Abstract!Begin
  <2>2. CASE DropView
    <3>1. ViewState' = TipState /\ TipState' = TipState
      BY <2>2, ViewStep
    <3> QED
      BY <2>2, <3>1 DEF DropView, GetBestBlock, Abstract!Next, Abstract!Drop
  <2>3. CASE FlushTip
    <3>1. ViewState' = ViewState /\ TipState' = TipState /\ db' = TipState
      BY <2>3, FlushTipStep, ClosedStates DEF FlushTip
    <3>2. dbBest' = GetBestBlock /\ GetBestBlock' = GetBestBlock
      BY <2>3 DEF FlushTip, WrittenBest, GetBestBlock
    <3> QED
      BY <2>3, <3>1, <3>2 DEF FlushTip, Abstract!Next, Abstract!Save
  <2>4. CASE Crash
    <3>1. ViewState' = db /\ TipState' = db
      BY <2>4, LostStep
    <3> QED
      BY <2>4, <3>1 DEF Crash, GetBestBlock, Abstract!Next, Abstract!Crash
  <2>5. ASSUME NEW t \in Txid, AccessTip(t) \/ AccessView(t) PROVE UNCHANGED Abstract!vars
    <3>1. ViewState' = ViewState /\ TipState' = TipState
      BY <2>5, AccessStep DEF ViewState, TipState
    <3> QED
      BY <2>5, <3>1 DEF AccessTip, AccessView, GetBestBlock, Abstract!vars
  <2>6. ASSUME NEW t \in Txid, NEW c \in Coins \cup {Pruned}, ModifyCoins(t, c)
        PROVE  Abstract!Next
    <3>1. TipState' = TipState /\ ViewState' = [ViewState EXCEPT ![t] = c]
      BY <2>6, ModifyStep DEF ViewState, TipState
    <3> QED
      BY <2>6, <3>1 DEF ModifyCoins, GetBestBlock, Abstract!Next, Abstract!Change
  <2>7. ASSUME NEW b \in Block, FlushView(b) PROVE Abstract!Next
    <3>1. TipState' = ViewState /\ ViewState' = ViewState
      BY <2>7, FlushViewStep
    <3>2. GetBestBlock' = b
      BY <2>7 DEF FlushView, GetBestBlock
    <3> QED
      BY <2>7, <3>1, <3>2 DEF FlushView, Abstract!Next, Abstract!Commit, Abstract!State
  <2>8. CASE FlushTipFails
    <3>1. ViewState' = db /\ TipState' = db
      BY <2>8, LostStep
    <3> QED
      BY <2>8, <3>1 DEF FlushTipFails, GetBestBlock, Abstract!Next, Abstract!SaveFails, Abstract!State
  <2>9. CASE UNCHANGED coinsVars
    BY <2>9 DEF coinsVars, TipState, ViewState, InTip, InView, GetBestBlock, Abstract!vars
  <2> QED
    BY <2>1, <2>2, <2>3, <2>4, <2>5, <2>6, <2>7, <2>8, <2>9 DEF CoinsNext
<1> QED
  BY <1>1, <1>2, CoinsInductive, PTL DEF CoinsSpec, ImplementsUTXOSet, Abstract!Spec

(* While no write has failed, database and tip hold the coins of the       *)
(* blocks they name.                                                       *)
THEOREM BestBlockCorrect == CoinsSpec => []BestBlockIsItsState
<1>1. CoinsInit => BestBlockIsItsState
  <2> SUFFICES ASSUME CoinsInit PROVE BestBlockIsItsState
    OBVIOUS
  <2>1. TipState = db
    BY EmptyFacts DEF CoinsInit, TipState, InTip
  <2> QED
    BY <2>1 DEF CoinsInit, BestBlockIsItsState, DiskIsItsState, TipIsItsState, GetBestBlock
<1>2. CoinsInv /\ BestBlockIsItsState /\ [CoinsNext]_coinsVars => BestBlockIsItsState'
  <2> SUFFICES ASSUME CoinsInv, BestBlockIsItsState, [CoinsNext]_coinsVars, ~ failed'
               PROVE  (DiskIsItsState /\ TipIsItsState)'
    BY DEF BestBlockIsItsState
  <2> DEFINE Goal == (DiskIsItsState /\ TipIsItsState)'
  <2>0. ~ failed /\ ~ FlushTipFails
    BY DEF CoinsNext, OpenView, DropView, FlushTip, FlushTipFails, Crash, AccessTip, AccessView,
           ModifyCoins, FlushView, coinsVars
  <2>00. DiskIsItsState /\ TipIsItsState
    BY <2>0 DEF BestBlockIsItsState
  <2> USE <2>00 DEF DiskIsItsState, TipIsItsState
  <2>1. CASE OpenView \/ DropView
    <3>1. TipState' = TipState
      BY <2>1, ViewStep
    <3> QED
      BY <2>1, <3>1 DEF OpenView, DropView, GetBestBlock
  <2>2. CASE FlushTip
    <3>1. TipState' = TipState /\ db' = TipState
      BY <2>2, FlushTipStep
    <3>2. dbBest' = GetBestBlock /\ GetBestBlock' = GetBestBlock /\ stateOf' = stateOf
      BY <2>2 DEF FlushTip, WrittenBest, GetBestBlock
    <3> QED
      BY <3>1, <3>2
  <2>3. CASE Crash
    <3>1. TipState' = db
      BY <2>3, LostStep
    <3> QED
      BY <2>3, <3>1 DEF Crash, GetBestBlock
  <2>4. ASSUME NEW t \in Txid, AccessTip(t) \/ AccessView(t) PROVE Goal
    <3>1. TipState' = TipState
      BY <2>4, AccessStep DEF TipState
    <3> QED
      BY <2>4, <3>1 DEF AccessTip, AccessView, GetBestBlock
  <2>5. ASSUME NEW t \in Txid, NEW c \in Coins \cup {Pruned}, ModifyCoins(t, c)
        PROVE  Goal
    <3>1. TipState' = TipState
      BY <2>5, ModifyStep DEF TipState
    <3> QED
      BY <2>5, <3>1 DEF ModifyCoins, GetBestBlock
  <2>6. ASSUME NEW b \in Block, FlushView(b) PROVE Goal
    <3>1. TipState' = ViewState /\ GetBestBlock' = b
      BY <2>6, FlushViewStep DEF FlushView, GetBestBlock
    <3>2. stateOf'[b] = ViewState /\ \A d \in Block : d # b => stateOf'[d] = stateOf[d]
      BY <2>6 DEF FlushView, CoinsInv, CoinsTypeOK
    <3>3. CASE dbBest = b
      <4>1. db = stateOf[b] /\ db \in Map /\ ViewState \in [Txid -> {InView(t) : t \in Txid}]
        BY <3>3 DEF CoinsInv, CoinsTypeOK, ViewState
      <4>2. db = ViewState
        <5>1. CASE stateOf[b] = Unknown
          BY <4>1, <5>1 DEF Map, Unknown, ViewState
        <5>2. CASE stateOf[b] = ViewState
          BY <4>1, <5>2
        <5> QED
          BY <2>6, <5>1, <5>2 DEF FlushView
      <4> QED
        BY <2>6, <3>1, <3>2, <3>3, <4>2 DEF FlushView
    <3>4. CASE dbBest # b
      BY <2>6, <3>1, <3>2, <3>4 DEF FlushView, CoinsInv, CoinsTypeOK
    <3> QED
      BY <3>3, <3>4
  <2>7. CASE UNCHANGED coinsVars
    BY <2>7 DEF coinsVars, TipState, InTip, GetBestBlock
  <2> QED
    BY <2>0, <2>1, <2>2, <2>3, <2>4, <2>5, <2>6, <2>7 DEF CoinsNext
<1> QED
  BY <1>1, <1>2, CoinsInductive, PTL DEF CoinsSpec
=============================================================================
