--------------------------- MODULE SwiftTXProofs ---------------------------
(* Proofs about SwiftTX for any transactions, masternodes, heights, ranks  *)
(* and quorum.                                                             *)
EXTENDS SwiftTX, FiniteSetTheorems, TLAPS

(* A new lock is a lock without votes.                                     *)
LEMMA NewLockType ==
    ASSUME NEW h \in Heights
    PROVE  /\ NewLock(h) \in Lock
           /\ NewLock(h).nBlockHeight = h
           /\ NewLock(h).vecConsensusVotes = << >>
<1>1. << >> \in Seq(Vote)
  OBVIOUS
<1> QED  BY <1>1, BoundAssumption DEF NewLock, Lock

(* CreateNewLock sets the height of one lock and leaves all votes alone.   *)
LEMMA CreateNewLockMap ==
    ASSUME TypeOK, NEW t \in Tx, NEW h \in Heights
    PROVE  LET map == CreateNewLock(t, h) IN
           /\ IsMap(map, Tx, Lock)
           /\ DOMAIN mapTxLocks \subseteq DOMAIN map
           /\ DOMAIN map \subseteq DOMAIN mapTxLocks \cup {t}
           /\ \A x \in DOMAIN map :
                 \/ /\ x \in DOMAIN mapTxLocks
                    /\ map[x].vecConsensusVotes = mapTxLocks[x].vecConsensusVotes
                 \/ map[x].vecConsensusVotes = << >>
           /\ \A x \in DOMAIN map :
                 x # t => x \in DOMAIN mapTxLocks /\ map[x] = mapTxLocks[x]
<1> DEFINE ins == Insert(mapTxLocks, t, NewLock(h))
<1>1. CASE h = 0
  BY <1>1 DEF CreateNewLock, TypeOK
<1>2. CASE h # 0
  <2>1. /\ IsMap(ins, Tx, Lock)
        /\ DOMAIN ins = DOMAIN mapTxLocks \cup {t}
        /\ \A x \in DOMAIN mapTxLocks : ins[x] = mapTxLocks[x]
        /\ t \notin DOMAIN mapTxLocks => ins[t] = NewLock(h)
    BY NewLockType DEF TypeOK, IsMap, Insert
  <2>2. CreateNewLock(t, h) = [ins EXCEPT ![t].nBlockHeight = h]
    BY <1>2 DEF CreateNewLock
  <2>3. ins[t] \in Lock
    BY <2>1 DEF IsMap
  <2>4. /\ [ins[t] EXCEPT !.nBlockHeight = h] \in Lock
        /\ [ins[t] EXCEPT !.nBlockHeight = h].vecConsensusVotes = ins[t].vecConsensusVotes
    BY <2>3 DEF Lock
  <2> HIDE DEF ins
  <2>5. t \notin DOMAIN mapTxLocks => ins[t].vecConsensusVotes = << >>
    BY <2>1, NewLockType
  <2> QED  BY <2>1, <2>2, <2>4, <2>5 DEF IsMap
<1> QED  BY <1>1, <1>2

(* AddSignature appends the vote to one lock, made without a height if     *)
(* there was none, and leaves the others alone.                            *)
LEMMA AddSignatureMap ==
    ASSUME TypeOK, NEW t \in Tx, NEW vote \in Vote
    PROVE  LET map == AddSignature(t, vote) IN
           /\ IsMap(map, Tx, Lock)
           /\ DOMAIN map = DOMAIN mapTxLocks \cup {t}
           /\ \A x \in DOMAIN mapTxLocks : x # t => map[x] = mapTxLocks[x]
           /\ t \in DOMAIN mapTxLocks =>
                /\ map[t].nBlockHeight = mapTxLocks[t].nBlockHeight
                /\ map[t].vecConsensusVotes = Append(mapTxLocks[t].vecConsensusVotes, vote)
           /\ t \notin DOMAIN mapTxLocks =>
                map[t].nBlockHeight = 0 /\ map[t].vecConsensusVotes = <<vote>>
<1> DEFINE ins == Insert(mapTxLocks, t, NewLock(0))
           new == [ins[t] EXCEPT !.vecConsensusVotes = Append(@, vote)]
<1>1. /\ NewLock(0) \in Lock
      /\ NewLock(0).nBlockHeight = 0
      /\ NewLock(0).vecConsensusVotes = << >>
  BY NewLockType, VoteAssumption
<1>2. /\ IsMap(ins, Tx, Lock)
      /\ DOMAIN ins = DOMAIN mapTxLocks \cup {t}
      /\ \A x \in DOMAIN mapTxLocks : ins[x] = mapTxLocks[x]
      /\ t \notin DOMAIN mapTxLocks => ins[t] = NewLock(0)
  BY <1>1 DEF TypeOK, IsMap, Insert
<1>3. AddSignature(t, vote) = [ins EXCEPT ![t] = new]
  BY DEF AddSignature
<1> HIDE DEF ins
<1>4. ins[t] \in Lock
  BY <1>2 DEF IsMap
<1>5. Append(ins[t].vecConsensusVotes, vote) \in Seq(Vote)
  BY <1>4 DEF Lock
<1>6. /\ new \in Lock
      /\ new.nBlockHeight = ins[t].nBlockHeight
      /\ new.vecConsensusVotes = Append(ins[t].vecConsensusVotes, vote)
  BY <1>4, <1>5 DEF Lock
<1> HIDE DEF new
<1>7. Append(<< >>, vote) = <<vote>>
  OBVIOUS
<1> QED  BY <1>1, <1>2, <1>3, <1>6, <1>7 DEF IsMap

(* ExpireBoth changes no height and no vote.                               *)
LEMMA ExpireBothMap ==
    ASSUME NEW map, IsMap(map, Tx, Lock), NEW t, NEW u
    PROVE  LET new == ExpireBoth(map, t, u) IN
           /\ IsMap(new, Tx, Lock)
           /\ DOMAIN new = DOMAIN map
           /\ \A x \in DOMAIN map :
                /\ new[x].nBlockHeight = map[x].nBlockHeight
                /\ new[x].vecConsensusVotes = map[x].vecConsensusVotes
<1>1. \A l \in Lock : /\ [l EXCEPT !.left = 0] \in Lock
                      /\ [l EXCEPT !.left = 0].nBlockHeight = l.nBlockHeight
                      /\ [l EXCEPT !.left = 0].vecConsensusVotes = l.vecConsensusVotes
  BY BoundAssumption DEF Lock
<1> QED  BY <1>1 DEF IsMap, ExpireBoth

(* A complete lock has a height.                                           *)
LEMMA CompleteHasHeight ==
    ASSUME NEW lock, IsComplete(lock)
    PROVE  lock.nBlockHeight # 0
BY BoundAssumption DEF IsComplete, CountSignatures

-----------------------------------------------------------------------------
(* Every step keeps the maps well-formed.                                  *)
LEMMA TypeStep == TypeOK /\ [Next]_vars => TypeOK'
<1> SUFFICES ASSUME TypeOK, [Next]_vars PROVE TypeOK'
  OBVIOUS
<1> USE TxAssumption, VoteAssumption
<1>1. ASSUME NEW t \in Tx, NEW h \in Heights, LockRequestAccepted(t, h)  PROVE TypeOK'
  <2>1. IsMap(CreateNewLock(t, h), Tx, Lock)
    BY CreateNewLockMap
  <2>2. IsMap(mapTxLockReq, Tx, SUBSET OutPoint)'
    BY <1>1 DEF LockRequestAccepted, TypeOK, IsMap, Insert
  <2>3. (mapTxLockVote \subseteq Masternodes \X Tx)'
    BY <1>1 DEF LockRequestAccepted, TypeOK
  <2> QED  BY <1>1, <2>1, <2>2, <2>3 DEF LockRequestAccepted, TypeOK
<1>2. ASSUME NEW t \in Tx, NEW h \in Heights, LockRequestRejected(t, h)  PROVE TypeOK'
  <2> DEFINE map == CreateNewLock(t, h)
  <2>1. IsMap(map, Tx, Lock)
    BY CreateNewLockMap
  <2>2. IsMap(mapLockedInputs, OutPoint, Tx)'
    BY <1>2 DEF LockRequestRejected, TypeOK, IsMap, LockInputs
  <2>3. IsMap(mapTxLockReq, Tx, SUBSET OutPoint)'
    BY <1>2 DEF LockRequestRejected, TypeOK, IsMap, Insert
  <2>4. mapTxLocks' = map \/ \E u : mapTxLocks' = ExpireBoth(map, t, u)
    BY <1>2, Zenon DEF LockRequestRejected
  <2>5. IsMap(mapTxLocks, Tx, Lock)'
    BY <2>1, <2>4, ExpireBothMap
  <2> QED  BY <1>2, <2>2, <2>3, <2>5 DEF LockRequestRejected, TypeOK
<1>3. ASSUME NEW t \in Tx, NEW h \in Heights, LocalLockRequest(t, h)  PROVE TypeOK'
  <2>1. IsMap(CreateNewLock(t, h), Tx, Lock)
    BY CreateNewLockMap
  <2>2. IsMap(mapTxLockReq, Tx, SUBSET OutPoint)'
    BY <1>3 DEF LocalLockRequest, TypeOK, IsMap, Insert
  <2> QED  BY <1>3, <2>1, <2>2 DEF LocalLockRequest, TypeOK
<1>4. ASSUME NEW m \in Masternodes, NEW t \in Tx, VoteIgnored(m, t)  PROVE TypeOK'
  BY <1>4 DEF VoteIgnored, Seen, TypeOK
<1>5. ASSUME NEW m \in Masternodes, NEW t \in Tx, NEW h \in Heights, VoteAdded(m, t, h)
      PROVE  TypeOK'
  <2> DEFINE vote == [mn |-> m, nBlockHeight |-> h]
             map  == AddSignature(t, vote)
  <2>1. IsMap(map, Tx, Lock)
    BY AddSignatureMap DEF Vote
  <2>2. IsMap(Insert(mapTxLockReq, t, {}), Tx, SUBSET OutPoint)
    BY DEF TypeOK, IsMap, Insert
  <2>3. IsMap(mapTxLockReq, Tx, SUBSET OutPoint)'
    BY <1>5, <2>2 DEF VoteAdded, TypeOK
  <2>4. IsMap(mapLockedInputs, OutPoint, Tx)'
    <3>1. Insert(mapTxLockReq, t, {})[t] \subseteq OutPoint
      BY <2>2 DEF TypeOK, IsMap, Insert
    <3>2. IsMap(LockInputs(mapLockedInputs, Insert(mapTxLockReq, t, {})[t], t), OutPoint, Tx)
      BY <3>1 DEF TypeOK, IsMap, LockInputs
    <3> QED  BY <1>5, <3>2 DEF VoteAdded, TypeOK
  <2>5. mapTxLocks' = map \/ \E u : mapTxLocks' = ExpireBoth(map, t, u)
    BY <1>5, Zenon DEF VoteAdded
  <2>6. IsMap(mapTxLocks, Tx, Lock)'
    BY <2>1, <2>5, ExpireBothMap
  <2>7. (mapTxLockVote \subseteq Masternodes \X Tx)'
    BY <1>5 DEF VoteAdded, TypeOK
  <2> QED  BY <1>5, <2>3, <2>4, <2>6, <2>7 DEF VoteAdded, TypeOK
<1>6. ASSUME CleanTransactionLocksList  PROVE TypeOK'
  BY <1>6 DEF CleanTransactionLocksList, Over, TypeOK, IsMap, Erase
<1>7. ASSUME Tick  PROVE TypeOK'
  <2>1. \A l \in Lock : [l EXCEPT !.left = IF @ < 0 THEN @ ELSE @ - 1] \in Lock
    BY BoundAssumption DEF Lock
  <2> QED  BY <1>7, <2>1 DEF Tick, TypeOK, IsMap
<1>8. ASSUME UNCHANGED vars  PROVE TypeOK'
  BY <1>8 DEF vars, TypeOK
<1> QED  BY <1>1, <1>2, <1>3, <1>4, <1>5, <1>6, <1>7, <1>8 DEF Next

(* Type correctness.                                                       *)
THEOREM TypeCorrect == Spec => []TypeOK
<1>1. Init => TypeOK
  BY DEF Init, TypeOK, IsMap
<1> QED  BY <1>1, TypeStep, PTL DEF Spec

-----------------------------------------------------------------------------
VotesInv == VotesSeen /\ VotesRanked /\ VotesDistinct
RequestsInv == HeightFromRequest /\ StoredOrRejected

(* The votes of each lock of new are those of the same lock of old, or     *)
(* there are none.                                                         *)
SameVotes(old, new) ==
    \A x \in DOMAIN new :
        \/ x \in DOMAIN old /\ new[x].vecConsensusVotes = old[x].vecConsensusVotes
        \/ new[x].vecConsensusVotes = << >>

(* A step that adds no vote to a lock and forgets none keeps VotesInv.     *)
LEMMA SameVotesStep ==
    ASSUME VotesInv, SameVotes(mapTxLocks, mapTxLocks'), mapTxLockVote \subseteq mapTxLockVote'
    PROVE  VotesInv'
BY DEF VotesInv, VotesSeen, VotesRanked, VotesDistinct, VotesOfLock, SameVotes

(* A vote is added once: VoteAdded keeps VotesInv.                         *)
LEMMA VoteAddedVotes ==
    ASSUME TypeOK, VotesInv, NEW m \in Masternodes, NEW t \in Tx, NEW h \in Heights,
           VoteAdded(m, t, h)
    PROVE  VotesInv'
<1> DEFINE vote == [mn |-> m, nBlockHeight |-> h]
           map  == AddSignature(t, vote)
<1>1. vote \in Vote
  BY DEF Vote
<1>2. /\ IsMap(map, Tx, Lock)
      /\ DOMAIN map = DOMAIN mapTxLocks \cup {t}
      /\ \A x \in DOMAIN mapTxLocks : x # t => map[x] = mapTxLocks[x]
      /\ t \in DOMAIN mapTxLocks =>
            map[t].vecConsensusVotes = Append(mapTxLocks[t].vecConsensusVotes, vote)
      /\ t \notin DOMAIN mapTxLocks => map[t].vecConsensusVotes = <<vote>>
  BY <1>1, AddSignatureMap
<1>3. mapTxLocks' = map \/ \E u : mapTxLocks' = ExpireBoth(map, t, u)
  BY Zenon DEF VoteAdded
<1> HIDE DEF map
<1>4. /\ DOMAIN mapTxLocks' = DOMAIN map
      /\ \A x \in DOMAIN map : mapTxLocks'[x].vecConsensusVotes = map[x].vecConsensusVotes
  BY <1>2, <1>3, ExpireBothMap
<1>5. <<m, t>> \notin mapTxLockVote /\ mapTxLockVote' = mapTxLockVote \cup {<<m, t>>}
  BY DEF VoteAdded, Seen
<1>6. m \in TopRanked[h]
  BY DEF VoteAdded
<1> SUFFICES ASSUME NEW x \in DOMAIN mapTxLocks'
             PROVE  LET v == mapTxLocks'[x].vecConsensusVotes IN
                    /\ \A i \in DOMAIN v : /\ <<v[i].mn, x>> \in mapTxLockVote'
                                           /\ v[i].mn \in TopRanked[v[i].nBlockHeight]
                    /\ \A i, j \in DOMAIN v : v[i].mn = v[j].mn => i = j
  BY DEF VotesInv, VotesSeen, VotesRanked, VotesDistinct, VotesOfLock
<1>7. CASE x # t
  <2>1. x \in DOMAIN mapTxLocks
    BY <1>2, <1>4, <1>7
  <2>2. mapTxLocks'[x].vecConsensusVotes = mapTxLocks[x].vecConsensusVotes
    BY <1>2, <1>4, <1>7, <2>1
  <2> QED  BY <1>5, <2>1, <2>2
           DEF VotesInv, VotesSeen, VotesRanked, VotesDistinct, VotesOfLock
<1>8. CASE x = t /\ t \notin DOMAIN mapTxLocks
  <2>1. mapTxLocks'[x].vecConsensusVotes = <<vote>>
    BY <1>2, <1>4, <1>8
  <2> QED  BY <1>5, <1>6, <1>8, <2>1
<1>9. CASE x = t /\ t \in DOMAIN mapTxLocks
  <2> DEFINE old == mapTxLocks[t].vecConsensusVotes
  <2>1. mapTxLocks'[x].vecConsensusVotes = Append(old, vote)
    BY <1>2, <1>4, <1>9
  <2>2. old \in Seq(Vote)
    BY <1>9 DEF TypeOK, IsMap, Lock
  <2>3. \A i \in DOMAIN old : /\ <<old[i].mn, t>> \in mapTxLockVote
                              /\ old[i].mn \in TopRanked[old[i].nBlockHeight]
    BY <1>9 DEF VotesInv, VotesSeen, VotesRanked, VotesOfLock
  <2>4. \A i, j \in DOMAIN old : old[i].mn = old[j].mn => i = j
    BY <1>9 DEF VotesInv, VotesDistinct, VotesOfLock
  <2>5. \A i \in DOMAIN old : old[i].mn # m
    BY <1>5, <2>3
  <2> HIDE DEF old
  <2>6. /\ DOMAIN Append(old, vote) = 1 .. Len(old) + 1
        /\ \A i \in 1 .. Len(old) : Append(old, vote)[i] = old[i]
        /\ Append(old, vote)[Len(old) + 1] = vote
        /\ DOMAIN old = 1 .. Len(old)
        /\ Len(old) \in Nat
    BY <1>1, <2>2
  <2>7. \A i \in 1 .. Len(old) + 1 : i \in 1 .. Len(old) \/ i = Len(old) + 1
    BY <2>6
  <2> QED  BY <1>5, <1>6, <1>9, <2>1, <2>3, <2>4, <2>5, <2>6, <2>7
<1> QED  BY <1>4, <1>7, <1>8, <1>9, <1>2

(* Every step keeps VotesInv.                                              *)
LEMMA VotesStep == TypeOK /\ VotesInv /\ [Next]_vars => VotesInv'
<1> SUFFICES ASSUME TypeOK, VotesInv, [Next]_vars PROVE VotesInv'
  OBVIOUS
<1>1. ASSUME NEW t \in Tx, NEW h \in Heights, LockRequestAccepted(t, h)  PROVE VotesInv'
  <2>1. SameVotes(mapTxLocks, CreateNewLock(t, h))
    BY CreateNewLockMap DEF SameVotes
  <2> QED  BY <1>1, <2>1, SameVotesStep DEF LockRequestAccepted
<1>2. ASSUME NEW t \in Tx, NEW h \in Heights, LockRequestRejected(t, h)  PROVE VotesInv'
  <2> DEFINE map == CreateNewLock(t, h)
  <2>1. IsMap(map, Tx, Lock) /\ SameVotes(mapTxLocks, map)
    BY CreateNewLockMap DEF SameVotes
  <2>2. mapTxLocks' = map \/ \E u : mapTxLocks' = ExpireBoth(map, t, u)
    BY <1>2, Zenon DEF LockRequestRejected
  <2> HIDE DEF map
  <2>3. SameVotes(mapTxLocks, mapTxLocks')
    BY <2>1, <2>2, ExpireBothMap DEF SameVotes
  <2> QED  BY <1>2, <2>3, SameVotesStep DEF LockRequestRejected
<1>3. ASSUME NEW t \in Tx, NEW h \in Heights, LocalLockRequest(t, h)  PROVE VotesInv'
  <2>1. SameVotes(mapTxLocks, CreateNewLock(t, h))
    BY CreateNewLockMap DEF SameVotes
  <2> QED  BY <1>3, <2>1, SameVotesStep DEF LocalLockRequest
<1>4. ASSUME NEW m \in Masternodes, NEW t \in Tx, VoteIgnored(m, t)  PROVE VotesInv'
  BY <1>4, SameVotesStep DEF VoteIgnored, Seen, SameVotes
<1>5. ASSUME NEW m \in Masternodes, NEW t \in Tx, NEW h \in Heights, VoteAdded(m, t, h)
      PROVE  VotesInv'
  BY <1>5, VoteAddedVotes
<1>6. ASSUME CleanTransactionLocksList  PROVE VotesInv'
  <2>1. /\ DOMAIN mapTxLocks' \subseteq DOMAIN mapTxLocks
        /\ \A x \in DOMAIN mapTxLocks' : mapTxLocks'[x] = mapTxLocks[x]
    BY <1>6 DEF CleanTransactionLocksList, Over, Erase
  <2>2. \A m, x : <<m, x>> \in mapTxLockVote /\ x \in DOMAIN mapTxLocks'
                    => <<m, x>> \in mapTxLockVote'
    BY <1>6 DEF CleanTransactionLocksList, Over, Erase
  <2> QED  BY <2>1, <2>2 DEF VotesInv, VotesSeen, VotesRanked, VotesDistinct, VotesOfLock
<1>7. ASSUME Tick  PROVE VotesInv'
  <2>1. SameVotes(mapTxLocks, mapTxLocks')
    BY <1>7 DEF Tick, SameVotes, TypeOK, IsMap, Lock
  <2> QED  BY <1>7, <2>1, SameVotesStep DEF Tick
<1>8. ASSUME UNCHANGED vars  PROVE VotesInv'
  BY <1>8, SameVotesStep DEF vars, SameVotes
<1> QED  BY <1>1, <1>2, <1>3, <1>4, <1>5, <1>6, <1>7, <1>8 DEF Next

(* A lock gets a height only with its request, and loses the request only  *)
(* with the lock: every step keeps RequestsInv.                            *)
LEMMA RequestsStep == TypeOK /\ RequestsInv /\ [Next]_vars => RequestsInv'
<1> SUFFICES ASSUME TypeOK, RequestsInv, [Next]_vars PROVE RequestsInv'
  OBVIOUS
<1> USE DEF RequestsInv, HeightFromRequest, StoredOrRejected, IsNewRequest
<1>1. ASSUME NEW t \in Tx, NEW h \in Heights, LockRequestAccepted(t, h)  PROVE RequestsInv'
  <2>1. \A x \in DOMAIN CreateNewLock(t, h) :
           x # t => x \in DOMAIN mapTxLocks /\ CreateNewLock(t, h)[x] = mapTxLocks[x]
    BY CreateNewLockMap
  <2> QED  BY <1>1, <2>1 DEF LockRequestAccepted, Insert
<1>2. ASSUME NEW t \in Tx, NEW h \in Heights, LockRequestRejected(t, h)  PROVE RequestsInv'
  <2> DEFINE map == CreateNewLock(t, h)
  <2>1. /\ IsMap(map, Tx, Lock)
        /\ \A x \in DOMAIN map : x # t => x \in DOMAIN mapTxLocks /\ map[x] = mapTxLocks[x]
    BY CreateNewLockMap
  <2>2. mapTxLocks' = map \/ \E u : mapTxLocks' = ExpireBoth(map, t, u)
    BY <1>2, Zenon DEF LockRequestRejected
  <2>3. /\ mapTxLockReqRejected' = mapTxLockReqRejected \cup {t}
        /\ mapTxLockReq' = mapTxLockReq \/ mapTxLockReq' = Insert(mapTxLockReq, t, Vin[t])
    BY <1>2 DEF LockRequestRejected
  <2> HIDE DEF map
  <2>4. /\ DOMAIN mapTxLocks' = DOMAIN map
        /\ \A x \in DOMAIN map : mapTxLocks'[x].nBlockHeight = map[x].nBlockHeight
    BY <2>1, <2>2, ExpireBothMap
  <2> QED  BY <2>1, <2>3, <2>4 DEF Insert
<1>3. ASSUME NEW t \in Tx, NEW h \in Heights, LocalLockRequest(t, h)  PROVE RequestsInv'
  <2>1. \A x \in DOMAIN CreateNewLock(t, h) :
           x # t => x \in DOMAIN mapTxLocks /\ CreateNewLock(t, h)[x] = mapTxLocks[x]
    BY CreateNewLockMap
  <2> QED  BY <1>3, <2>1 DEF LocalLockRequest, Insert
<1>4. ASSUME NEW m \in Masternodes, NEW t \in Tx, VoteIgnored(m, t)  PROVE RequestsInv'
  BY <1>4 DEF VoteIgnored
<1>5. ASSUME NEW m \in Masternodes, NEW t \in Tx, NEW h \in Heights, VoteAdded(m, t, h)
      PROVE  RequestsInv'
  <2> DEFINE vote == [mn |-> m, nBlockHeight |-> h]
             map  == AddSignature(t, vote)
  <2>1. /\ IsMap(map, Tx, Lock)
        /\ DOMAIN map = DOMAIN mapTxLocks \cup {t}
        /\ \A x \in DOMAIN mapTxLocks : x # t => map[x] = mapTxLocks[x]
        /\ t \in DOMAIN mapTxLocks => map[t].nBlockHeight = mapTxLocks[t].nBlockHeight
        /\ t \notin DOMAIN mapTxLocks => map[t].nBlockHeight = 0
    BY AddSignatureMap DEF Vote
  <2>2. mapTxLocks' = map \/ \E u : mapTxLocks' = ExpireBoth(map, t, u)
    BY <1>5, Zenon DEF VoteAdded
  <2>3. \/ mapTxLockReq' = mapTxLockReq
        \/ IsComplete(map[t]) /\ mapTxLockReq' = Insert(mapTxLockReq, t, {})
    BY <1>5 DEF VoteAdded
  <2>4. mapTxLockReqRejected' = mapTxLockReqRejected
    BY <1>5 DEF VoteAdded
  <2> HIDE DEF map
  <2>5. /\ DOMAIN mapTxLocks' = DOMAIN map
        /\ \A x \in DOMAIN map : mapTxLocks'[x].nBlockHeight = map[x].nBlockHeight
    BY <2>1, <2>2, ExpireBothMap
  <2>6. IsComplete(map[t]) => t \in DOMAIN mapTxLockReq \cup mapTxLockReqRejected
    <3>1. IsComplete(map[t]) => map[t].nBlockHeight # 0
      BY CompleteHasHeight
    <3> QED  BY <2>1, <3>1
  <2>7. HeightFromRequest'
    BY <2>1, <2>3, <2>4, <2>5 DEF Insert
  <2>8. StoredOrRejected'
    BY <2>3, <2>4, <2>6 DEF Insert
  <2> QED  BY <2>7, <2>8
<1>6. ASSUME CleanTransactionLocksList  PROVE RequestsInv'
  BY <1>6 DEF CleanTransactionLocksList, Over, Erase
<1>7. ASSUME Tick  PROVE RequestsInv'
  <2>1. /\ DOMAIN mapTxLocks' = DOMAIN mapTxLocks
        /\ \A x \in DOMAIN mapTxLocks : mapTxLocks'[x].nBlockHeight = mapTxLocks[x].nBlockHeight
    BY <1>7 DEF Tick, TypeOK, IsMap, Lock
  <2> QED  BY <1>7, <2>1 DEF Tick
<1>8. ASSUME UNCHANGED vars  PROVE RequestsInv'
  BY <1>8 DEF vars
<1> QED  BY <1>1, <1>2, <1>3, <1>4, <1>5, <1>6, <1>7, <1>8 DEF Next

(* The inductive invariant holds in every reachable state.                 *)
THEOREM Inductive == Spec => [](TypeOK /\ VotesInv /\ RequestsInv)
<1>1. Init => TypeOK /\ VotesInv /\ RequestsInv
  BY DEF Init, TypeOK, IsMap, VotesInv, VotesSeen, VotesRanked, VotesDistinct, RequestsInv,
         HeightFromRequest, StoredOrRejected
<1> QED  BY <1>1, TypeStep, VotesStep, RequestsStep, PTL DEF Spec

(* A complete lock rests on Required different masternodes that may vote   *)
(* at its height, whatever the order and number of deliveries              *)
(* (ProcessConsensusVote, CountSignatures).                                *)
THEOREM QuorumCorrect == Spec => []QuorumIsGenuine
<1>1. TypeOK /\ VotesInv => QuorumIsGenuine
  <2> SUFFICES ASSUME TypeOK, VotesInv, NEW t \in DOMAIN mapTxLocks, IsComplete(mapTxLocks[t])
               PROVE  \E Q \in SUBSET TopRanked[mapTxLocks[t].nBlockHeight] :
                         Cardinality(Q) >= Required /\ \A m \in Q : <<m, t>> \in mapTxLockVote
    BY DEF QuorumIsGenuine
  <2> DEFINE lock  == mapTxLocks[t]
             votes == lock.vecConsensusVotes
             I     == {i \in DOMAIN votes : votes[i].nBlockHeight = lock.nBlockHeight}
             mn    == [i \in I |-> votes[i].mn]
             Q     == {mn[i] : i \in I}
  <2>1. votes \in Seq(Vote)
    BY DEF TypeOK, IsMap, Lock
  <2>2. IsFiniteSet(I)
    <3>1. DOMAIN votes = 1 .. Len(votes) /\ Len(votes) \in Nat
      BY <2>1
    <3>2. IsFiniteSet(1 .. Len(votes))
      BY <3>1, FS_Interval
    <3> QED  BY <3>1, <3>2, FS_Subset
  <2>3. Cardinality(I) >= Required
    BY BoundAssumption DEF IsComplete, CountSignatures
  <2>4. mn \in Bijection(I, Q)
    <3>1. \A i, j \in I : mn[i] = mn[j] => i = j
      BY DEF VotesInv, VotesDistinct, VotesOfLock
    <3>2. mn \in [I -> Q] /\ \A q \in Q : \E i \in I : mn[i] = q
      OBVIOUS
    <3> HIDE DEF mn, Q, I
    <3> QED  BY <3>1, <3>2 DEF Bijection, Injection, Surjection, IsInjective
  <2>5. Cardinality(Q) = Cardinality(I)
    <3> HIDE DEF mn, Q, I
    <3>1. ExistsBijection(I, Q)
      BY <2>4 DEF ExistsBijection
    <3> QED  BY <2>2, <3>1, FS_Bijection
  <2>6. Q \subseteq TopRanked[lock.nBlockHeight]
    BY DEF VotesInv, VotesRanked, VotesOfLock
  <2>7. \A m \in Q : <<m, t>> \in mapTxLockVote
    BY DEF VotesInv, VotesSeen, VotesOfLock
  <2> HIDE DEF Q, I, mn, lock
  <2>8. Cardinality(Q) >= Required
    BY <2>3, <2>5
  <2> QED  BY <2>6, <2>7, <2>8 DEF lock
<1> QED  BY <1>1, Inductive, PTL

(* No lock completes without a request, and an entry without inputs in     *)
(* mapTxLockReq stands for a refused request (ProcessConsensusVote).       *)
THEOREM RequestCorrect == Spec => []CompleteLockWasRequested
<1>1. RequestsInv => CompleteLockWasRequested
  BY CompleteHasHeight DEF RequestsInv, HeightFromRequest, CompleteLockWasRequested
<1> QED  BY <1>1, Inductive, PTL

(* No request and no vote takes a reservation over; only the clean-up of   *)
(* an expired lock over the same input ends one.                           *)
THEOREM ReservationsKept == Spec => ReservationKept
<1> DEFINE Kept(o) == o \in DOMAIN mapLockedInputs' /\ mapLockedInputs'[o] = mapLockedInputs[o]
           Freed(o) == \E t \in DOMAIN mapTxLocks \ DOMAIN mapTxLocks' :
                          o \in Vin[t] /\ mapTxLocks[t].left < 0
<1>1. ASSUME RequestsInv, Next, NEW o \in DOMAIN mapLockedInputs
      PROVE  Kept(o) \/ Freed(o)
  <2>1. ASSUME CleanTransactionLocksList  PROVE Kept(o) \/ Freed(o)
    BY <1>1, <2>1 DEF CleanTransactionLocksList, Over, Erase, RequestsInv, StoredOrRejected
  <2>2. ASSUME NEW m \in Masternodes, NEW t \in Tx, NEW h \in Heights, VoteAdded(m, t, h)
        PROVE  Kept(o)
    BY <2>2 DEF VoteAdded, LockInputs
  <2>3. ASSUME NEW t \in Tx, NEW h \in Heights, LockRequestRejected(t, h)
        PROVE  Kept(o)
    BY <2>3 DEF LockRequestRejected, LockInputs
  <2>4. CASE UNCHANGED mapLockedInputs
    BY <2>4
  <2> QED  BY <1>1, <2>1, <2>2, <2>3, <2>4
           DEF Next, LockRequestAccepted, LocalLockRequest, VoteIgnored, Tick
<1>2. RequestsInv /\ [Next]_vars => [KeepsReservations]_vars
  BY <1>1 DEF KeepsReservations
<1> QED  BY <1>2, Inductive, PTL DEF Spec, ReservationKept
=============================================================================
