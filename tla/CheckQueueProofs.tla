-------------------------- MODULE CheckQueueProofs --------------------------
(* Proofs about CheckQueue for any number of workers, any checks and any   *)
(* batch size.                                                             *)
EXTENDS CheckQueue, FiniteSetTheorems, TLAPS

IInv ==
    /\ TypeOK
    /\ TodoIsPending
    /\ BatchWhileWorking
    /\ ActiveCounted
    /\ WorkersOnly
    /\ StatusSoFar
    /\ NoWorkOutside

(* All sets of threads and checks are finite.                              *)
LEMMA Finite ==
    /\ \A S \in SUBSET Check : IsFiniteSet(S) /\ Cardinality(S) \in Nat
    /\ \A S \in SUBSET Thread : IsFiniteSet(S) /\ Cardinality(S) \in Nat
<1>1. IsFiniteSet(Thread)
  <2>1. IsFiniteSet({Master})
    BY FS_Singleton
  <2> QED  BY <2>1, ThreadAssumption, FS_Union DEF Thread
<1>2. \A S \in SUBSET Check : IsFiniteSet(S)
  BY CheckAssumption, FS_Subset
<1>3. \A S \in SUBSET Thread : IsFiniteSet(S)
  BY <1>1, FS_Subset
<1> QED  BY <1>2, <1>3, FS_CardinalityType

(* Membership in Pending.                                                  *)
LEMMA PendingMember ==
    ASSUME TypeOK
    PROVE  /\ Pending \subseteq Check
           /\ \A x : x \in Pending <=> (x \in queue \/ \E t \in Thread : x \in batch[t])
BY DEF Pending, TypeOK

(* A batch that is taken is not empty.                                     *)
LEMMA BatchNotEmpty ==
    ASSUME NEW b \in SUBSET Check, NEW n, NEW total, NEW idle,
           Cardinality(b) = BatchOf(n, total, idle)
    PROVE  b # {}
<1>1. Cardinality({}) = 0
  BY FS_EmptySet
<1>2. BatchOf(n, total, idle) # 0
  BY BatchAssumption DEF BatchOf
<1> QED  BY <1>1, <1>2

(* What is left to do once the thread t has accounted for its batch.       *)
Rest(t) == Pending \ batch[t]

LEMMA RestCounted ==
    ASSUME IInv, NEW t \in Thread
    PROVE  /\ nTodo - Finished(t) = Cardinality(Rest(t))
           /\ Cardinality(Rest(t)) \in Nat
           /\ \A x : x \in Rest(t) <=>
                 (x \in queue \/ \E u \in Thread \ {t} : x \in batch[u])
<1>1. Pending \subseteq Check /\ batch[t] \subseteq Pending /\ batch[t] \subseteq Check
  BY PendingMember DEF IInv, TypeOK
<1>2. IsFiniteSet(Pending) /\ Cardinality(Rest(t)) \in Nat
  BY <1>1, Finite DEF Rest
<1>3. Cardinality(Rest(t)) = Cardinality(Pending) - Cardinality(Pending \cap batch[t])
  BY <1>2, FS_Difference DEF Rest
<1>4. Pending \cap batch[t] = batch[t]
  BY <1>1
<1>5. \A x : x \in Rest(t) <=> (x \in queue \/ \E u \in Thread \ {t} : x \in batch[u])
  BY PendingMember DEF Rest, IInv, TodoIsPending
<1> QED  BY <1>2, <1>3, <1>4, <1>5 DEF Finished, IInv, TodoIsPending

-----------------------------------------------------------------------------
(* The pcs a critical section works with: the master may have been woken.  *)
SamePc(pcs) ==
    /\ pcs \in [Thread -> PC]
    /\ \A u \in Thread : pcs[u] = pc[u] \/ (pc[u] = "wait" /\ pcs[u] = "woken")

(* What the status says of the checks added, once the batch of t is        *)
(* accounted for.                                                          *)
LEMMA AccountedStatus ==
    ASSUME IInv, NEW t \in Thread, NEW ok \in BOOLEAN,
           ok = (fAllOk /\ (pc[t] = "work" => fOk[t])),
           pc[Master] \notin {"out", "gone"}
    PROVE  /\ Rest(t) \subseteq added
           /\ ok => added \ Rest(t) \subseteq Good
           /\ ~ ok => ~ (added \subseteq Good)
<1>1. /\ Pending \subseteq added
      /\ fAllOk => added \ Pending \subseteq Good
      /\ ~ fAllOk => ~ (added \subseteq Good)
  BY DEF IInv, StatusSoFar
<1>2. pc[t] = "work" => /\ fOk[t] => batch[t] \subseteq Good
                        /\ ~ fOk[t] => ~ (added \subseteq Good)
  BY DEF IInv, StatusSoFar, Active
<1>3. pc[t] # "work" => batch[t] = {}
  BY DEF IInv, BatchWhileWorking
<1>4. batch[t] \subseteq Good \/ ~ ok
  BY <1>2, <1>3
<1> QED  BY <1>1, <1>2, <1>4 DEF Rest

(* Every critical section of Loop keeps the invariant.                     *)
LEMMA ProceedStep ==
    ASSUME IInv, NEW t \in Thread, pc[t] \in {"start", "work", "wait", "woken"},
           NEW total \in Int, NEW idle \in Int, NEW todo, NEW ok \in BOOLEAN, NEW pcs,
           SamePc(pcs),
           todo = nTodo - Finished(t),
           ok = (fAllOk /\ (pc[t] = "work" => fOk[t])),
           total - idle = nTotal - nIdle + (IF pc[t] = "work" THEN 0 ELSE 1),
           Proceed(t, total, idle, todo, ok, pcs)
    PROVE  IInv'
<1> DEFINE rest == Rest(t)
<1>a. TypeOK /\ TodoIsPending /\ BatchWhileWorking /\ ActiveCounted /\ WorkersOnly
      /\ StatusSoFar /\ NoWorkOutside
  BY DEF IInv
<1>b. /\ todo = Cardinality(rest) /\ todo \in Nat
      /\ \A x : x \in rest <=> (x \in queue \/ \E u \in Thread \ {t} : x \in batch[u])
  BY RestCounted
<1>c. pcs \in [Thread -> PC] /\ pc \in [Thread -> PC]
  BY <1>a DEF SamePc, TypeOK
<1>d. \A u \in Thread : pcs[u] = "work" <=> pc[u] = "work"
  BY DEF SamePc
<1>e. pcs[Master] \in {"out", "gone"} <=> pc[Master] \in {"out", "gone"}
  BY DEF SamePc, Thread
<1>f. Master \in Thread /\ Worker \subseteq Thread /\ Master \notin Worker
  BY ThreadAssumption DEF Thread
<1>i. \A u \in Thread : batch[u] # {} <=> pc[u] = "work"
  BY <1>a DEF BatchWhileWorking
<1>j. pc[Master] \notin {"out", "gone"} =>
         /\ rest \subseteq added
         /\ ok => added \ rest \subseteq Good
         /\ ~ ok => ~ (added \subseteq Good)
  BY AccountedStatus
<1>k. pc[Master] \in {"out", "gone"} => rest = {} /\ queue = {} /\ ok /\ t # Master
  <2> SUFFICES ASSUME pc[Master] \in {"out", "gone"}
               PROVE  rest = {} /\ queue = {} /\ ok /\ t # Master
    OBVIOUS
  <2>1. Pending = {} /\ fAllOk
    BY <1>a DEF NoWorkOutside
  <2>2. queue = {} /\ batch[t] = {}
    BY <1>a, <2>1, PendingMember
  <2> QED  BY <1>i, <2>1, <2>2 DEF Rest
<1>l. \A u \in Thread : u # t => batch[u] \cap queue = {} /\ batch[u] \subseteq Check
  BY <1>a DEF TodoIsPending, TypeOK
<1>m. queue \subseteq Check /\ batch \in [Thread -> SUBSET Check] /\ fOk \in [Thread -> BOOLEAN]
      /\ added \subseteq Check /\ result \in BOOLEAN /\ interrupted \in BOOLEAN
  BY <1>a DEF TypeOK
<1>n. \A u, v \in Thread : u # v => batch[u] \cap batch[v] = {}
  BY <1>a DEF TodoIsPending
<1>o. IsFiniteSet(Active) /\ Active \subseteq Thread /\ Cardinality(Active) \in Nat
  BY Finite DEF Active
<1>p. added' = added /\ interrupted' = interrupted
  BY DEF Proceed
<1> HIDE DEF rest
(* The number of active threads without t and with t.                      *)
<1>q. /\ Cardinality(Active \ {t}) = total - idle - 1
      /\ Cardinality(Active \cup {t}) = total - idle
  <2>1. CASE pc[t] = "work"
    <3>1. t \in Active /\ Active \cup {t} = Active
      BY <2>1 DEF Active
    <3>2. Cardinality(Active \ {t}) = Cardinality(Active) - 1
      BY <1>o, <3>1, FS_RemoveElement
    <3>3. total - idle = Cardinality(Active)
      BY <1>a, <1>o, <2>1 DEF ActiveCounted, TypeOK
    <3> QED  BY <3>1, <3>2, <3>3
  <2>2. CASE pc[t] # "work"
    <3>1. t \notin Active /\ Active \ {t} = Active
      BY <2>2 DEF Active
    <3>2. Cardinality(Active \cup {t}) = Cardinality(Active) + 1
      BY <1>o, <3>1, FS_AddElement
    <3>3. total - idle = Cardinality(Active) + 1
      BY <1>a, <1>o, <2>2 DEF ActiveCounted, TypeOK
    <3>4. Cardinality(Active \ {t}) = total - idle - 1
      BY <1>o, <3>1, <3>3
    <3> QED  BY <3>2, <3>3, <3>4
  <2> QED  BY <2>1, <2>2
<1>1. CASE ReturnResult(t, total, idle, todo, ok, pcs)
  <2>1. /\ queue = {} /\ t = Master /\ todo = 0
        /\ nTotal' = total - 1 /\ nIdle' = idle /\ nTodo' = todo
        /\ result' = ok /\ fAllOk' = TRUE /\ queue' = queue /\ fOk' = fOk
        /\ batch' = [batch EXCEPT ![t] = {}]
        /\ pc' = [pcs EXCEPT ![t] = IF interrupted THEN "gone" ELSE "out"]
    BY <1>1 DEF ReturnResult, ResetStatus
  <2>2. rest = {}
    <3>1. rest \subseteq Check
      BY <1>a, PendingMember DEF Rest, rest
    <3>2. IsFiniteSet(rest)
      BY <3>1, Finite
    <3> QED  BY <1>b, <2>1, <3>2, FS_EmptySet
  <2>3. batch' = [u \in Thread |-> {}]
    BY <1>b, <1>m, <2>1, <2>2
  <2>4. pc' \in [Thread -> PC] /\ pc'[Master] \in {"out", "gone"}
        /\ \A u \in Thread \ {t} : pc'[u] = pcs[u]
    BY <1>c, <1>f, <2>1 DEF PC
  <2>5. TypeOK'
    BY <1>b, <1>m, <1>p, <2>1, <2>3, <2>4 DEF TypeOK
  <2>6. Pending' = {}
    BY <2>1, <2>3 DEF Pending
  <2>7. TodoIsPending'
    BY <2>1, <2>3, <2>6, FS_EmptySet DEF TodoIsPending
  <2>8. Active' = Active \ {t}
    BY <1>d, <2>1, <2>4 DEF Active
  <2>9. ActiveCounted'
    BY <1>q, <2>1, <2>8 DEF ActiveCounted
  <2>10. BatchWhileWorking'
    <3>1. \A u \in Thread : pc'[u] # "work"
      BY <1>b, <1>d, <1>i, <2>1, <2>2, <2>4
    <3> QED  BY <2>3, <3>1 DEF BatchWhileWorking
  <2>11. WorkersOnly'
    BY <1>a, <1>f, <2>1, <2>4 DEF WorkersOnly, SamePc
  <2>12. StatusSoFar' /\ NoWorkOutside'
    BY <2>1, <2>4, <2>6 DEF StatusSoFar, NoWorkOutside
  <2> QED  BY <2>5, <2>7, <2>9, <2>10, <2>11, <2>12 DEF IInv
<1>2. CASE Sleep(t, total, idle, todo, ok, pcs)
  <2>1. /\ queue = {} /\ ~ (t = Master /\ todo = 0)
        /\ nTotal' = total /\ nIdle' = idle + 1 /\ nTodo' = todo
        /\ fAllOk' = ok /\ result' = result /\ queue' = queue /\ fOk' = fOk
        /\ batch' = [batch EXCEPT ![t] = {}]
        /\ pc' = [pcs EXCEPT ![t] = "wait"]
    BY <1>2 DEF Sleep
  <2>2. batch'[t] = {} /\ \A u \in Thread \ {t} : batch'[u] = batch[u]
    BY <1>m, <2>1
  <2>3. batch' \in [Thread -> SUBSET Check]
    BY <1>m, <2>1
  <2>4. pc' \in [Thread -> PC] /\ pc'[t] = "wait" /\ \A u \in Thread \ {t} : pc'[u] = pcs[u]
    BY <1>c, <2>1 DEF PC
  <2>5. TypeOK'
    BY <1>b, <1>m, <1>p, <2>1, <2>3, <2>4 DEF TypeOK
  <2>6. Pending' = rest
    <3>1. \A x : x \in Pending' <=> (x \in queue \/ \E u \in Thread : x \in batch'[u])
      BY <2>1 DEF Pending
    <3>2. \A x : x \in Pending' <=> x \in rest
      BY <1>b, <2>2, <3>1
    <3> QED  BY <3>2
  <2>7. TodoIsPending'
    BY <1>b, <1>n, <2>1, <2>2, <2>6 DEF TodoIsPending
  <2>8. Active' = Active \ {t}
    BY <1>d, <2>4 DEF Active
  <2>9. ActiveCounted'
    BY <1>q, <2>1, <2>8 DEF ActiveCounted
  <2>10. BatchWhileWorking'
    BY <1>d, <1>i, <2>2, <2>4 DEF BatchWhileWorking
  <2>11. WorkersOnly'
    BY <1>a, <1>f, <2>4 DEF WorkersOnly, SamePc
  <2>12. pc'[Master] \in {"out", "gone"} <=> pc[Master] \in {"out", "gone"}
    BY <1>e, <1>f, <2>4
  <2>13. StatusSoFar'
    <3>1. pc[Master] \notin {"out", "gone"} =>
             \A u \in Active' :
                IF fOk[u] THEN batch'[u] \subseteq Good ELSE ~ (added \subseteq Good)
      BY <1>a, <1>o, <2>2, <2>8 DEF StatusSoFar
    <3> QED  BY <1>j, <1>p, <2>1, <2>6, <2>12, <3>1 DEF StatusSoFar
  <2>14. NoWorkOutside'
    BY <1>k, <2>1, <2>6, <2>12 DEF NoWorkOutside
  <2> QED  BY <2>5, <2>7, <2>9, <2>10, <2>11, <2>13, <2>14 DEF IInv
<1>3. CASE TakeBatch(t, total, idle, todo, ok, pcs)
  <2>1. /\ queue # {}
        /\ nTotal' = total /\ nIdle' = idle /\ nTodo' = todo
        /\ fAllOk' = ok /\ result' = result
        /\ pc' = [pcs EXCEPT ![t] = "work"]
    BY <1>3 DEF TakeBatch
  <2> PICK b \in SUBSET queue :
          /\ Cardinality(b) = BatchOf(Cardinality(queue), total, idle)
          /\ queue' = queue \ b
          /\ batch' = [batch EXCEPT ![t] = b]
          /\ fOk' = [fOk EXCEPT ![t] = Execute(ok, b)]
    BY <1>3 DEF TakeBatch
  <2>2. batch'[t] = b /\ \A u \in Thread \ {t} : batch'[u] = batch[u]
    BY <1>m
  <2>3. batch' \in [Thread -> SUBSET Check] /\ b \subseteq Check /\ b # {}
    BY <1>m, BatchNotEmpty
  <2>4. pc' \in [Thread -> PC] /\ pc'[t] = "work" /\ \A u \in Thread \ {t} : pc'[u] = pcs[u]
    BY <1>c, <2>1 DEF PC
  <2>5. fOk' \in [Thread -> BOOLEAN] /\ fOk'[t] = (ok /\ b \subseteq Good)
        /\ \A u \in Thread \ {t} : fOk'[u] = fOk[u]
    BY <1>m DEF Execute
  <2>6. TypeOK'
    BY <1>b, <1>m, <1>p, <2>1, <2>3, <2>4, <2>5 DEF TypeOK
  <2>7. Pending' = rest
    <3>1. \A x : x \in Pending' <=> (x \in queue \ b \/ \E u \in Thread : x \in batch'[u])
      BY DEF Pending
    <3>2. \A x : x \in Pending' <=> x \in rest
      BY <1>b, <2>2, <3>1
    <3> QED  BY <3>2
  <2>8. TodoIsPending'
    BY <1>b, <1>l, <1>n, <2>1, <2>2, <2>7 DEF TodoIsPending
  <2>9. Active' = Active \cup {t}
    BY <1>d, <2>4 DEF Active
  <2>10. ActiveCounted'
    BY <1>q, <2>1, <2>9 DEF ActiveCounted
  <2>11. BatchWhileWorking'
    BY <1>d, <1>i, <2>2, <2>3, <2>4 DEF BatchWhileWorking
  <2>12. WorkersOnly'
    BY <1>a, <1>f, <2>4 DEF WorkersOnly, SamePc
  <2>13. pc[Master] \notin {"out", "gone"}
    BY <1>k, <2>1
  <2>14. pc'[Master] \notin {"out", "gone"}
    BY <1>e, <1>f, <2>4, <2>13
  <2>15. StatusSoFar'
    <3>1. b \subseteq added
      BY <1>b, <1>j, <2>13
    <3>2. IF fOk'[t] THEN b \subseteq Good ELSE ~ (added \subseteq Good)
      BY <1>j, <2>5, <2>13, <3>1
    <3>3. \A u \in Active \ {t} :
             IF fOk[u] THEN batch[u] \subseteq Good ELSE ~ (added \subseteq Good)
      BY <1>a, <2>13 DEF StatusSoFar
    <3>4. \A u \in Active' :
             IF fOk'[u] THEN batch'[u] \subseteq Good ELSE ~ (added \subseteq Good)
      BY <1>o, <2>2, <2>5, <2>9, <3>2, <3>3
    <3> QED  BY <1>j, <1>p, <2>1, <2>7, <2>13, <3>4 DEF StatusSoFar
  <2>16. NoWorkOutside'
    BY <2>14 DEF NoWorkOutside
  <2> QED  BY <2>6, <2>8, <2>10, <2>11, <2>12, <2>15, <2>16 DEF IInv
<1> QED  BY <1>1, <1>2, <1>3 DEF Proceed

(* The calls of Proceed meet the conditions of ProceedStep.                *)
LoopStep(t, total, idle, todo, ok, pcs) ==
    /\ pc[t] \in {"start", "work", "wait", "woken"}
    /\ total \in Int /\ idle \in Int /\ ok \in BOOLEAN
    /\ SamePc(pcs)
    /\ todo = nTodo - Finished(t)
    /\ ok = (fAllOk /\ (pc[t] = "work" => fOk[t]))
    /\ total - idle = nTotal - nIdle + (IF pc[t] = "work" THEN 0 ELSE 1)
    /\ Proceed(t, total, idle, todo, ok, pcs)

LEMMA LoopSteps ==
    ASSUME IInv, NEW t \in Thread, Loop(t) \/ AwakeSpuriously(t)
    PROVE  \E total, idle, todo, ok, pcs : LoopStep(t, total, idle, todo, ok, pcs)
<1>1. SamePc(pc) /\ SamePc(MasterNotified)
  BY DEF IInv, TypeOK, SamePc, MasterNotified, PC
<1>2. pc[t] # "work" => nTodo = nTodo - Finished(t)
  <2>1. pc[t] # "work" => batch[t] = {}
    BY DEF IInv, BatchWhileWorking
  <2>2. Cardinality({}) = 0
    BY FS_EmptySet
  <2> QED  BY <2>1, <2>2 DEF Finished, IInv, TypeOK
<1>3. CASE Start(t)
  <2>1. LoopStep(t, nTotal + 1, nIdle, nTodo, fAllOk, pc)
    BY <1>1, <1>2, <1>3 DEF LoopStep, Start, IInv, TypeOK
  <2> QED  BY <2>1
<1>4. CASE Done(t)
  <2> DEFINE todo == nTodo - Finished(t)
             ok   == fAllOk /\ fOk[t]
             pcs  == IF todo = 0 /\ t # Master THEN MasterNotified ELSE pc
  <2>1. pc[t] = "work" /\ Proceed(t, nTotal, nIdle, todo, ok, pcs)
    BY <1>4 DEF Done
  <2>2. ok \in BOOLEAN /\ ok = (fAllOk /\ (pc[t] = "work" => fOk[t]))
    BY <2>1 DEF IInv, TypeOK
  <2>3. SamePc(pcs)
    BY <1>1
  <2> HIDE DEF todo, ok, pcs
  <2>4. LoopStep(t, nTotal, nIdle, todo, ok, pcs)
    BY <2>1, <2>2, <2>3 DEF LoopStep, IInv, TypeOK, todo
  <2> QED  BY <2>4
<1>5. CASE Awake(t) \/ AwakeSpuriously(t)
  <2>1. LoopStep(t, nTotal, nIdle - 1, nTodo, fAllOk, pc)
    BY <1>1, <1>2, <1>5 DEF LoopStep, Awake, AwakeSpuriously, IInv, TypeOK
  <2> QED  BY <2>1
<1> QED  BY <1>3, <1>4, <1>5 DEF Loop

(* The steps outside Loop keep the invariant.                              *)
LEMMA OtherSteps ==
    ASSUME IInv,
           \/ \E t \in Thread : Interrupt(t)
           \/ Open \/ Wait
           \/ UNCHANGED vars
    PROVE  IInv'
<1>1. pc' \in [Thread -> PC] /\ Active' = Active
  BY DEF IInv, TypeOK, Interrupt, Open, Wait, vars, PC, Active
<1>2. /\ queue' = queue /\ nIdle' = nIdle /\ nTotal' = nTotal /\ fAllOk' = fAllOk
      /\ nTodo' = nTodo /\ batch' = batch /\ fOk' = fOk /\ result' = result
  BY DEF Interrupt, Open, Wait, vars, counters
<1>3. interrupted' \in BOOLEAN /\ added' \subseteq Check
  BY DEF IInv, TypeOK, Interrupt, Open, Wait, vars
<1>4. TypeOK'
  BY <1>1, <1>2, <1>3 DEF IInv, TypeOK
<1>5. Pending' = Pending
  BY <1>2 DEF Pending
<1>6. TodoIsPending' /\ ActiveCounted'
  BY <1>1, <1>2, <1>5 DEF IInv, TodoIsPending, ActiveCounted
<1>7. BatchWhileWorking'
  BY <1>1, <1>2 DEF IInv, BatchWhileWorking, Active
<1>8. WorkersOnly'
  BY ThreadAssumption DEF IInv, TypeOK, WorkersOnly, Interrupt, Open, Wait, vars, Thread
<1>9. NoWorkOutside'
  BY <1>2, <1>5 DEF IInv, TypeOK, NoWorkOutside, Interrupt, Open, Wait, vars, Thread
<1>10. StatusSoFar'
  <2>1. CASE Open
    <3>1. Pending = {} /\ fAllOk /\ Active = {} /\ added' = {}
      <4>1. pc[Master] = "out" /\ added' = {}
        BY <2>1 DEF Open
      <4>2. Pending = {} /\ fAllOk
        BY <4>1 DEF IInv, NoWorkOutside
      <4> QED  BY <4>1, <4>2, PendingMember DEF IInv, BatchWhileWorking, Active
    <3> QED  BY <1>1, <1>2, <1>5, <3>1 DEF StatusSoFar
  <2>2. CASE ~ Open
    <3>1. added' = added
      BY <2>2 DEF Interrupt, Wait, vars
    <3>2. pc'[Master] \notin {"out", "gone"} => pc[Master] \notin {"out", "gone"}
      BY <2>2 DEF IInv, TypeOK, Interrupt, Wait, vars, Thread
    <3> QED  BY <1>1, <1>2, <1>5, <3>1, <3>2 DEF IInv, StatusSoFar
  <2> QED  BY <2>1, <2>2
<1> QED  BY <1>4, <1>6, <1>7, <1>8, <1>9, <1>10 DEF IInv

(* Add keeps the invariant: the new checks are pending and only they.      *)
LEMMA AddStep ==
    ASSUME IInv, NEW S \in SUBSET (Check \ added), Add(S)
    PROVE  IInv'
<1>1. /\ pc[Master] = "adding"
      /\ queue' = queue \cup S /\ added' = added \cup S
      /\ nTodo' = nTodo + Cardinality(S)
      /\ nIdle' = nIdle /\ nTotal' = nTotal /\ fAllOk' = fAllOk /\ batch' = batch
      /\ fOk' = fOk /\ result' = result /\ interrupted' = interrupted
  BY DEF Add
<1>2. \E ws \in SUBSET Waiting : pc' = Notified(ws)
  <2>1. pc = Notified({})
    BY DEF IInv, TypeOK, Notified
  <2> QED  BY <2>1 DEF Add
<1>3. /\ pc' \in [Thread -> PC]
      /\ Active' = Active
      /\ pc'[Master] = pc[Master]
      /\ \A w \in Worker : pc'[w] = pc[w] \/ pc'[w] = "woken"
  BY <1>2, ThreadAssumption DEF IInv, TypeOK, Notified, Waiting, PC, Thread, Active
<1>4. /\ Pending \subseteq added
      /\ Pending \subseteq Check
      /\ Pending' = Pending \cup S
      /\ Pending \cap S = {}
  <2>1. Pending \subseteq added
    BY <1>1 DEF IInv, StatusSoFar
  <2>2. Pending \subseteq Check
    BY PendingMember DEF IInv
  <2> QED  BY <1>1, <2>1, <2>2 DEF Pending
<1>5. nTodo' = Cardinality(Pending') /\ nTodo' \in Nat
  <2>1. IsFiniteSet(Pending) /\ IsFiniteSet(S) /\ Cardinality(Pending) \in Nat /\ Cardinality(S) \in Nat
    BY <1>4, Finite
  <2>2. Cardinality(Pending \cup S) =
            Cardinality(Pending) + Cardinality(S) - Cardinality(Pending \cap S)
    BY <2>1, FS_Union
  <2>3. Cardinality(Pending \cap S) = 0
    BY <1>4, FS_EmptySet
  <2>4. nTodo = Cardinality(Pending)
    BY DEF IInv, TodoIsPending
  <2> QED  BY <1>1, <1>4, <2>1, <2>2, <2>3, <2>4
<1>6. TypeOK'
  BY <1>1, <1>3, <1>5 DEF IInv, TypeOK
<1>7. TodoIsPending'
  <2>1. \A t \in Thread : batch[t] \subseteq Pending
    BY PendingMember DEF IInv
  <2> QED  BY <1>1, <1>4, <1>5, <2>1 DEF IInv, TodoIsPending
<1>8. ActiveCounted' /\ BatchWhileWorking' /\ WorkersOnly'
  <2>1. ActiveCounted'
    BY <1>1, <1>3 DEF IInv, ActiveCounted
  <2>2. BatchWhileWorking'
    BY <1>1, <1>3 DEF IInv, BatchWhileWorking, Active
  <2>3. WorkersOnly'
    BY <1>3 DEF IInv, WorkersOnly
  <2> QED  BY <2>1, <2>2, <2>3
<1>9. StatusSoFar' /\ NoWorkOutside'
  <2>1. /\ fAllOk => added \ Pending \subseteq Good
        /\ ~ fAllOk => ~ (added \subseteq Good)
        /\ \A t \in Active : IF fOk[t] THEN batch[t] \subseteq Good ELSE ~ (added \subseteq Good)
    BY <1>1 DEF IInv, StatusSoFar
  <2>2. Pending' \subseteq added'
    BY <1>1, <1>4
  <2>3. IF fAllOk' THEN added' \ Pending' \subseteq Good ELSE ~ (added' \subseteq Good)
    BY <1>1, <1>4, <2>1
  <2>4. \A t \in Active' : IF fOk'[t] THEN batch'[t] \subseteq Good ELSE ~ (added' \subseteq Good)
    BY <1>1, <1>3, <2>1
  <2> QED  BY <1>1, <1>3, <2>2, <2>3, <2>4 DEF StatusSoFar, NoWorkOutside
<1> QED  BY <1>6, <1>7, <1>8, <1>9 DEF IInv

-----------------------------------------------------------------------------
(* The inductive invariant holds in every reachable state.                 *)
THEOREM Inductive == Spec => []IInv
<1>1. Init => IInv
  <2> SUFFICES ASSUME Init PROVE IInv
    OBVIOUS
  <2>1. TypeOK
    <3>1. pc \in [Thread -> PC] /\ batch \in [Thread -> SUBSET Check]
      BY DEF Init, PC
    <3>2. fOk \in [Thread -> BOOLEAN]
      BY DEF Init
    <3>3. fAllOk \in BOOLEAN /\ result \in BOOLEAN /\ interrupted \in BOOLEAN
      BY Zenon DEF Init
    <3>4. nIdle \in Int /\ nTotal \in Int /\ nTodo \in Nat
      BY DEF Init
    <3>5. queue \subseteq Check /\ added \subseteq Check
      BY Zenon DEF Init
    <3> QED  BY <3>1, <3>2, <3>3, <3>4, <3>5 DEF TypeOK
  <2>2. Pending = {} /\ Active = {}
    BY DEF Init, Pending, Active
  <2>3. TodoIsPending /\ ActiveCounted
    BY <2>2, FS_EmptySet DEF Init, TodoIsPending, ActiveCounted
  <2>4. BatchWhileWorking /\ WorkersOnly
    BY ThreadAssumption DEF Init, BatchWhileWorking, WorkersOnly, Thread
  <2>5. StatusSoFar /\ NoWorkOutside
    BY <2>2 DEF Init, StatusSoFar, NoWorkOutside, Thread
  <2> QED  BY <2>1, <2>3, <2>4, <2>5 DEF IInv
<1>2. IInv /\ [Next]_vars => IInv'
  <2> SUFFICES ASSUME IInv, [Next]_vars PROVE IInv'
    OBVIOUS
  <2>1. ASSUME NEW t \in Thread, Loop(t) \/ AwakeSpuriously(t)  PROVE IInv'
    <3> PICK total, idle, todo, ok, pcs : LoopStep(t, total, idle, todo, ok, pcs)
      BY <2>1, LoopSteps
    <3> QED  BY ProceedStep DEF LoopStep
  <2>2. ASSUME NEW S \in SUBSET (Check \ added), Add(S)  PROVE IInv'
    BY <2>2, AddStep
  <2> QED  BY <2>1, <2>2, OtherSteps DEF Next
<1> QED  BY <1>1, <1>2, PTL DEF Spec

(* The fields of CCheckQueue hold what their declarations say; nTodo, from *)
(* which Loop subtracts whole batches, never goes below zero.              *)
THEOREM TypeCorrect == Spec => []TypeOK
<1>1. IInv => TypeOK
  BY DEF IInv
<1> QED  BY <1>1, Inductive, PTL

(* nTodo counts the checks not done, and no check is taken twice.          *)
THEOREM TodoCorrect == Spec => []TodoIsPending
<1>1. IInv => TodoIsPending
  BY DEF IInv
<1> QED  BY <1>1, Inductive, PTL

(* The assert of CCheckQueueControl never fails.                           *)
THEOREM AssertHolds == Spec => []AssertIsIdle
<1>1. IInv => AssertIsIdle
  <2> SUFFICES ASSUME IInv, pc[Master] = "out" PROVE IsIdle
    BY DEF AssertIsIdle
  <2>1. Pending = {} /\ fAllOk
    BY DEF IInv, NoWorkOutside
  <2>2. Active = {}
    BY <2>1, PendingMember DEF IInv, BatchWhileWorking, Active
  <2>3. nTodo = 0 /\ nTotal - nIdle = 0
    BY <2>1, <2>2, FS_EmptySet DEF IInv, TodoIsPending, ActiveCounted
  <2> QED  BY <2>1, <2>3 DEF IInv, TypeOK, IsIdle
<1> QED  BY <1>1, Inductive, PTL

(* Wait tells the caller whether every check it added succeeds: the queue  *)
(* with its threads, batches and condition variables implements            *)
(* ParallelCheck.                                                          *)
THEOREM Refinement == Spec => ImplementsParallelCheck
<1> USE DEF Phase
<1>1. Init => Abstract!Init
  BY DEF Init, Abstract!Init, Thread
<1>2. IInv /\ [Next]_vars => [Abstract!Next]_Abstract!vars
  <2> SUFFICES ASSUME IInv, [Next]_vars
               PROVE  Abstract!Next \/ UNCHANGED <<Phase, added, result>>
    BY DEF Abstract!vars
  <2>0. Master \in Thread /\ pc \in [Thread -> PC]
    BY DEF Thread, IInv, TypeOK
  <2>1. ASSUME NEW t \in Thread, Loop(t) \/ AwakeSpuriously(t)
        PROVE  Abstract!Return \/ UNCHANGED <<Phase, added, result>>
    <3> PICK total, idle, todo, ok, pcs : LoopStep(t, total, idle, todo, ok, pcs)
      BY <2>1, LoopSteps
    <3>0. added' = added
      BY DEF LoopStep, Proceed
    <3>1. CASE ReturnResult(t, total, idle, todo, ok, pcs)
      <4>1. t = Master /\ todo = 0 /\ result' = ok /\ queue = {}
        BY <3>1 DEF ReturnResult
      <4>2. Phase = "waiting" /\ Phase' = "closed"
        BY <2>0, <3>1, <4>1 DEF ReturnResult, LoopStep, SamePc
      <4>3. pc[Master] \notin {"out", "gone"}
        BY <4>1 DEF LoopStep
      <4>4. Rest(t) = {}
        <5>1. Cardinality(Rest(t)) = 0
          BY <4>1, RestCounted DEF LoopStep
        <5>2. IsFiniteSet(Rest(t))
          BY PendingMember, Finite DEF Rest, IInv
        <5> QED  BY <5>1, <5>2, FS_EmptySet
      <4>5. ok \in BOOLEAN /\ (ok <=> added \subseteq Good)
        BY <4>3, <4>4, AccountedStatus DEF LoopStep
      <4>6. result' = (added \subseteq Good)
        BY <4>1, <4>5
      <4> QED  BY <3>0, <4>2, <4>6 DEF Abstract!Return
    <3>2. CASE Sleep(t, total, idle, todo, ok, pcs) \/ TakeBatch(t, total, idle, todo, ok, pcs)
      <4>1. result' = result
        BY <3>2 DEF Sleep, TakeBatch
      <4>2. pc' = [pcs EXCEPT ![t] = "wait"] \/ pc' = [pcs EXCEPT ![t] = "work"]
        BY <3>2 DEF Sleep, TakeBatch
      <4>3. Phase' = Phase
        BY <2>0, <4>2 DEF LoopStep, SamePc
      <4> QED  BY <3>0, <4>1, <4>3
    <3> QED  BY <3>1, <3>2 DEF LoopStep, Proceed
  <2>2. ASSUME NEW t \in Thread, Interrupt(t)  PROVE UNCHANGED <<Phase, added, result>>
    BY <2>0, <2>2 DEF Interrupt, PC
  <2>3. ASSUME Open  PROVE Abstract!Open
    BY <2>0, <2>3 DEF Open, Abstract!Open
  <2>4. ASSUME Wait  PROVE Abstract!BeginWait
    BY <2>0, <2>4 DEF Wait, Abstract!BeginWait
  <2>5. ASSUME NEW S \in SUBSET (Check \ added), Add(S)  PROVE Abstract!Add
    <3>1. pc'[Master] = pc[Master] /\ pc[Master] = "adding"
      BY <2>0, <2>5, ThreadAssumption DEF Add, Notified, Waiting
    <3> QED  BY <2>5, <3>1 DEF Add, Abstract!Add
  <2>6. CASE UNCHANGED vars
    BY <2>6 DEF vars
  <2> QED  BY <2>1, <2>2, <2>3, <2>4, <2>5, <2>6 DEF Next, Abstract!Next
<1> QED  BY <1>1, <1>2, Inductive, PTL DEF Spec, ImplementsParallelCheck, Abstract!Spec
=============================================================================
