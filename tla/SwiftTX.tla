------------------------------ MODULE SwiftTX ------------------------------
(***************************************************************************)
(* Transaction locks (SwiftX) on one node: src/src/swifttx.cpp, and the    *)
(* callers in wallet.cpp and rawtransaction.cpp that write its maps.       *)
(*                                                                         *)
(* A lock request ("ix") asks the masternodes ranked highest for a block   *)
(* height to vote for a transaction; each vote ("txlvote") is added to the *)
(* transaction's lock, and a lock with enough votes reserves the inputs of *)
(* its transaction in mapLockedInputs, which AcceptToMemoryPool and        *)
(* CheckBlock consult.                                                     *)
(*                                                                         *)
(* The handlers run whole: each is one action.  What the memory pool, the  *)
(* chain and the masternode list answer is an input: the pool may refuse   *)
(* any transaction and must refuse one that a reservation forbids; the     *)
(* height computed for a lock may change with the chain; a vote may always *)
(* be turned down, and is added only for a masternode ranked high enough.  *)
(***************************************************************************)
EXTENDS Integers, Sequences, FiniteSets

CONSTANTS
    Tx,            \* transactions
    OutPoint,      \* transaction outputs
    Vin,           \* Vin[t]: the outputs transaction t spends
    Masternodes,   \* masternodes
    Self,          \* this node's own masternode, or a value outside Masternodes
    Heights,       \* heights a lock or a vote may carry
    TopRanked,     \* TopRanked[h]: the SWIFTTX_SIGNATURES_TOTAL first ranks at h
    Required,      \* SWIFTTX_SIGNATURES_REQUIRED
    LockTime       \* the 60 minutes a lock is kept, in clock ticks

ASSUME TxAssumption == Vin \in [Tx -> SUBSET OutPoint]

ASSUME VoteAssumption ==
    /\ 0 \in Heights /\ Heights \subseteq Nat
    /\ TopRanked \in [Heights -> SUBSET Masternodes]

ASSUME BoundAssumption ==
    /\ Required \in Nat \ {0}
    /\ LockTime \in Nat

VARIABLES
    mapTxLockReq,          \* requests taken: Tx -> the inputs of the stored copy
    mapTxLockReqRejected,  \* requests the memory pool refused
    mapTxLockVote,         \* hashes of the votes seen: <<masternode, tx>>
    mapTxLocks,            \* Tx -> lock
    mapLockedInputs        \* OutPoint -> the transaction it is reserved for

vars == <<mapTxLockReq, mapTxLockReqRejected, mapTxLockVote, mapTxLocks, mapLockedInputs>>

(* A vote as kept in a lock, and a lock.  left is nExpiration - GetTime(): *)
(* a lock is over once it is negative.                                     *)
Vote == [mn : Masternodes, nBlockHeight : Heights]
Lock == [nBlockHeight : Heights, vecConsensusVotes : Seq(Vote), left : -1 .. LockTime]

(* map is a std::map with keys in K and values in V.                       *)
IsMap(map, K, V) == DOMAIN map \subseteq K /\ map \in [DOMAIN map -> V]

(* The maps hold what their declarations say.                              *)
TypeOK ==
    /\ IsMap(mapTxLockReq, Tx, SUBSET OutPoint)
    /\ mapTxLockReqRejected \subseteq Tx
    /\ mapTxLockVote \subseteq Masternodes \X Tx
    /\ IsMap(mapTxLocks, Tx, Lock)
    /\ IsMap(mapLockedInputs, OutPoint, Tx)

-----------------------------------------------------------------------------
(* std::map::insert keeps an entry that is already there.                  *)
Insert(map, k, v) ==
    [x \in DOMAIN map \cup {k} |-> IF x \in DOMAIN map THEN map[x] ELSE v]

Erase(map, S) == [x \in DOMAIN map \ S |-> map[x]]

(* Mutation: the heights of the votes are not compared.                    *)
CountAllSignatures(lock) ==
    IF lock.nBlockHeight = 0 THEN -1 ELSE Len(lock.vecConsensusVotes)

(* Only votes for the lock's own height count, and none before a request   *)
(* has fixed that height.                                                  *)
CountSignatures(lock) ==
    IF lock.nBlockHeight = 0
    THEN -1
    ELSE Cardinality({i \in DOMAIN lock.vecConsensusVotes :
                        lock.vecConsensusVotes[i].nBlockHeight = lock.nBlockHeight})

IsComplete(lock) == CountSignatures(lock) >= Required

NewLock(h) ==
    [nBlockHeight |-> h, vecConsensusVotes |-> << >>, left |-> LockTime]

(* CreateNewLock.  It returns h, the height it computes from the chain, or *)
(* 0 if an input is missing or less than 5 blocks deep.                    *)
CreateNewLock(t, h) ==
    IF h = 0
    THEN mapTxLocks
    ELSE [Insert(mapTxLocks, t, NewLock(h)) EXCEPT ![t].nBlockHeight = h]

(* Mutation: a new lock takes its height from the vote.                    *)
AddSignatureWithHeight(t, vote) ==
    [Insert(mapTxLocks, t, NewLock(vote.nBlockHeight)) EXCEPT
        ![t].vecConsensusVotes = Append(@, vote)]

(* The vote's lock, made if need be, with the vote added to it.            *)
AddSignature(t, vote) ==
    [Insert(mapTxLocks, t, NewLock(0)) EXCEPT ![t].vecConsensusVotes = Append(@, vote)]

(* Mutation: a reservation is overwritten.                                 *)
LockInputsOver(locked, ins, t) ==
    [o \in DOMAIN locked \cup ins |-> IF o \in ins THEN t ELSE locked[o]]

(* Reserve for t the inputs that are not reserved yet.                     *)
LockInputs(locked, ins, t) ==
    [o \in DOMAIN locked \cup ins |-> IF o \in DOMAIN locked THEN locked[o] ELSE t]

(* The transactions that hold a reservation on one of ins against t.       *)
Holders(locked, ins, t) ==
    {locked[o] : o \in {p \in ins \cap DOMAIN locked : locked[p] # t}}

(* CheckForConflictingLocks found a holder u: both locks expire now.       *)
ExpireBoth(map, t, u) ==
    [x \in DOMAIN map |-> IF x \in {t, u} THEN [map[x] EXCEPT !.left = 0] ELSE map[x]]

-----------------------------------------------------------------------------
IsNewRequest(t) == t \notin DOMAIN mapTxLockReq \cup mapTxLockReqRejected

(* "ix" that AcceptToMemoryPool accepts.  DoConsensusVote records this     *)
(* node's own vote as seen but does not add it to the lock.                *)
LockRequestAccepted(t, h) ==
    /\ IsNewRequest(t)
    /\ Holders(mapLockedInputs, Vin[t], t) = {}
    /\ mapTxLocks' = CreateNewLock(t, h)
    /\ \/ /\ Self \in TopRanked[h]
          /\ mapTxLockVote' = mapTxLockVote \cup {<<Self, t>>}
       \/ UNCHANGED mapTxLockVote
    /\ mapTxLockReq' = Insert(mapTxLockReq, t, Vin[t])
    /\ UNCHANGED <<mapTxLockReqRejected, mapLockedInputs>>

(* "ix" that AcceptToMemoryPool refuses: the free inputs are reserved all  *)
(* the same.  A lock that already has its quorum is kept and the last      *)
(* blocks are reprocessed, unless another transaction holds an input.      *)
LockRequestRejected(t, h) ==
    LET map     == CreateNewLock(t, h)
        locked  == LockInputs(mapLockedInputs, Vin[t], t)
        rivals  == Holders(locked, Vin[t], t)
        quorum  == t \in DOMAIN map /\ IsComplete(map[t])
    IN  /\ IsNewRequest(t)
        /\ mapTxLockReqRejected' = mapTxLockReqRejected \cup {t}
        /\ mapLockedInputs' = locked
        /\ \/ /\ ~ quorum
              /\ mapTxLocks' = map
              /\ UNCHANGED mapTxLockReq
           \/ /\ quorum
              /\ \E u \in rivals : mapTxLocks' = ExpireBoth(map, t, u)
              /\ UNCHANGED mapTxLockReq
           \/ /\ quorum
              /\ rivals = {}
              /\ mapTxLocks' = map
              /\ mapTxLockReq' = Insert(mapTxLockReq, t, Vin[t])
        /\ UNCHANGED mapTxLockVote

(* RelayWalletTransaction("ix") and sendrawtransaction with the SwiftX     *)
(* flag: the request is stored without asking the memory pool.             *)
LocalLockRequest(t, h) ==
    /\ mapTxLockReq' = Insert(mapTxLockReq, t, Vin[t])
    /\ mapTxLocks' = CreateNewLock(t, h)
    /\ UNCHANGED <<mapTxLockReqRejected, mapTxLockVote, mapLockedInputs>>

(* A vote's hash is made of its masternode and its transaction only.       *)
Seen(m, t) == <<m, t>> \in mapTxLockVote

(* "txlvote" that ProcessConsensusVote turns down (masternode unknown,     *)
(* rank too low, bad signature): seen all the same.                        *)
VoteIgnored(m, t) ==
    /\ ~ Seen(m, t)
    /\ mapTxLockVote' = mapTxLockVote \cup {<<m, t>>}
    /\ UNCHANGED <<mapTxLockReq, mapTxLockReqRejected, mapTxLocks, mapLockedInputs>>

(* "txlvote" that ProcessConsensusVote adds.  With a quorum,               *)
(* mapTxLockReq[txHash] makes an entry without inputs if there is none;    *)
(* then either a conflict expires both locks or the inputs of the stored   *)
(* request are reserved (and the last blocks reprocessed if the memory     *)
(* pool had refused the request).                                          *)
VoteAdded(m, t, h) ==
    LET map    == AddSignature(t, [mn |-> m, nBlockHeight |-> h])
        req    == Insert(mapTxLockReq, t, {})
        rivals == Holders(mapLockedInputs, req[t], t)
    IN  /\ ~ Seen(m, t)
        /\ m \in TopRanked[h]
        /\ mapTxLockVote' = mapTxLockVote \cup {<<m, t>>}
        /\ \/ /\ ~ IsComplete(map[t])
              /\ mapTxLocks' = map
              /\ UNCHANGED <<mapTxLockReq, mapLockedInputs>>
           \/ /\ IsComplete(map[t])
              /\ mapTxLockReq' = req
              /\ \E u \in rivals : mapTxLocks' = ExpireBoth(map, t, u)
              /\ UNCHANGED mapLockedInputs
           \/ /\ IsComplete(map[t])
              /\ rivals = {}
              /\ mapTxLockReq' = req
              /\ mapTxLocks' = map
              /\ mapLockedInputs' = LockInputs(mapLockedInputs, req[t], t)
        /\ UNCHANGED mapTxLockReqRejected

(* Mutation: a lock without a stored request is passed over.               *)
OverAndAsked == {t \in DOMAIN mapTxLocks : mapTxLocks[t].left < 0 /\ t \in DOMAIN mapTxLockReq}

(* The locks past their expiration.                                        *)
Over == {t \in DOMAIN mapTxLocks : mapTxLocks[t].left < 0}

(* CleanTransactionLocksList: every lock past its expiration goes.  The    *)
(* reservations, the request, its rejection and its votes go with it only  *)
(* if mapTxLockReq holds the transaction.                                  *)
CleanTransactionLocksList ==
    LET asked    == Over \cap DOMAIN mapTxLockReq
        Voted(t) == {<<mapTxLocks[t].vecConsensusVotes[i].mn, t>> :
                        i \in DOMAIN mapTxLocks[t].vecConsensusVotes}
    IN  /\ Over # {}
        /\ mapLockedInputs' = Erase(mapLockedInputs, UNION {mapTxLockReq[t] : t \in asked})
        /\ mapTxLockReq' = Erase(mapTxLockReq, asked)
        /\ mapTxLockReqRejected' = mapTxLockReqRejected \ asked
        /\ mapTxLockVote' = mapTxLockVote \ UNION {Voted(t) : t \in asked}
        /\ mapTxLocks' = Erase(mapTxLocks, Over)

(* One tick of GetTime().                                                  *)
Tick ==
    /\ \E t \in DOMAIN mapTxLocks : mapTxLocks[t].left >= 0
    /\ mapTxLocks' = [t \in DOMAIN mapTxLocks |->
                        [mapTxLocks[t] EXCEPT !.left = IF @ < 0 THEN @ ELSE @ - 1]]
    /\ UNCHANGED <<mapTxLockReq, mapTxLockReqRejected, mapTxLockVote, mapLockedInputs>>

Init ==
    /\ mapTxLockReq = << >>
    /\ mapTxLockReqRejected = {}
    /\ mapTxLockVote = {}
    /\ mapTxLocks = << >>
    /\ mapLockedInputs = << >>

Next ==
    \/ \E t \in Tx, h \in Heights : LockRequestAccepted(t, h)
    \/ \E t \in Tx, h \in Heights : LockRequestRejected(t, h)
    \/ \E t \in Tx, h \in Heights : LocalLockRequest(t, h)
    \/ \E m \in Masternodes, t \in Tx : VoteIgnored(m, t)
    \/ \E m \in Masternodes, t \in Tx, h \in Heights : VoteAdded(m, t, h)
    \/ CleanTransactionLocksList
    \/ Tick

Spec == Init /\ [][Next]_vars

(* GetTime() moves on, and ThreadCheckObfuScationPool calls                *)
(* CleanTransactionLocksList once a minute.                                *)
FairSpec == Spec /\ WF_vars(Tick) /\ WF_vars(CleanTransactionLocksList)

-----------------------------------------------------------------------------
(* The inductive invariant.  Every vote in a lock has been seen (so it     *)
(* cannot be added again), came from a masternode ranked high enough, and  *)
(* from a different masternode than the others.                            *)
VotesOfLock(t) == mapTxLocks[t].vecConsensusVotes
VotesSeen ==
    \A t \in DOMAIN mapTxLocks : \A i \in DOMAIN VotesOfLock(t) :
        <<VotesOfLock(t)[i].mn, t>> \in mapTxLockVote
VotesRanked ==
    \A t \in DOMAIN mapTxLocks : \A i \in DOMAIN VotesOfLock(t) :
        VotesOfLock(t)[i].mn \in TopRanked[VotesOfLock(t)[i].nBlockHeight]
VotesDistinct ==
    \A t \in DOMAIN mapTxLocks : \A i, j \in DOMAIN VotesOfLock(t) :
        VotesOfLock(t)[i].mn = VotesOfLock(t)[j].mn => i = j

(* Only a request gives a lock its height, and the request outlives it.    *)
HeightFromRequest ==
    \A t \in DOMAIN mapTxLocks : mapTxLocks[t].nBlockHeight # 0 => ~ IsNewRequest(t)
StoredOrRejected ==
    \A t \in DOMAIN mapTxLockReq :
        \/ mapTxLockReq[t] = Vin[t]
        \/ mapTxLockReq[t] = {} /\ t \in mapTxLockReqRejected

-----------------------------------------------------------------------------
(* A lock that counts as complete rests on Required different masternodes, *)
(* each of which may vote at the lock's height: no redelivery, clean-up,   *)
(* second request or change of the lock's height lets one masternode count *)
(* twice (ProcessConsensusVote, CountSignatures).                          *)
QuorumIsGenuine ==
    \A t \in DOMAIN mapTxLocks :
        IsComplete(mapTxLocks[t]) =>
            \E Q \in SUBSET TopRanked[mapTxLocks[t].nBlockHeight] :
                Cardinality(Q) >= Required /\ \A m \in Q : <<m, t>> \in mapTxLockVote

(* No lock completes for a transaction this node was never asked to lock,  *)
(* and the entry without inputs that ProcessConsensusVote makes in         *)
(* mapTxLockReq only ever stands for a request the memory pool refused.    *)
CompleteLockWasRequested ==
    /\ \A t \in DOMAIN mapTxLocks :
          IsComplete(mapTxLocks[t]) => ~ IsNewRequest(t)
    /\ StoredOrRejected

(* A reserved input stays reserved for the same transaction until          *)
(* CleanTransactionLocksList removes the expired lock of a transaction     *)
(* that spends it: no request and no vote takes a reservation over.        *)
KeepsReservations ==
    \A o \in DOMAIN mapLockedInputs :
        \/ o \in DOMAIN mapLockedInputs' /\ mapLockedInputs'[o] = mapLockedInputs[o]
        \/ \E t \in DOMAIN mapTxLocks \ DOMAIN mapTxLocks' :
              o \in Vin[t] /\ mapTxLocks[t].left < 0
ReservationKept == [][KeepsReservations]_vars

(* Every lock is removed in the end: votes that keep arriving, and         *)
(* conflicts that set nExpiration again, do not keep one alive.            *)
LocksExpire ==
    \A t \in Tx : t \in DOMAIN mapTxLocks ~> t \notin DOMAIN mapTxLocks
=============================================================================
