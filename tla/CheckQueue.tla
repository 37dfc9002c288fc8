---------------------------- MODULE CheckQueue ----------------------------
(***************************************************************************)
(* The script check queue: src/src/checkqueue.h.  ConnectBlock (the        *)
(* master) adds the script checks of a block and then works on them beside *)
(* the worker threads until all are done.                                  *)
(*                                                                         *)
(* One action is one critical section: from taking the mutex to releasing  *)
(* it, by leaving the block or by waiting on a condition variable.  The    *)
(* checks a thread executes between two of them touch nothing shared, so   *)
(* their outcome is settled where the batch is taken.  The queue is a set: *)
(* its LIFO order is one of the orders the model explores.                 *)
(***************************************************************************)
EXTENDS Integers, FiniteSets

CONSTANTS
    Check,      \* the checks of one block
    Good,       \* those that succeed
    Worker,     \* the threads running Thread()
    Master,     \* the thread running ConnectBlock
    BatchSize   \* nBatchSize

ASSUME CheckAssumption == IsFiniteSet(Check) /\ Good \subseteq Check
ASSUME ThreadAssumption == IsFiniteSet(Worker) /\ Master \notin Worker
ASSUME BatchAssumption == BatchSize \in Nat \ {0}

Thread == Worker \cup {Master}

VARIABLES
    queue,        \* the checks not yet taken
    nIdle,        \* threads counted as waiting
    nTotal,       \* threads counted as being in Loop
    fAllOk,       \* the result so far
    nTodo,        \* checks not yet accounted for
    pc,           \* where each thread is, see PC
    batch,        \* vChecks of each thread
    fOk,          \* fOk of each thread once its batch is executed
    added,        \* the checks added since the control object was made
    result,       \* what Wait returned last
    interrupted   \* the master was interrupted and its stack is unwinding

vars == <<queue, nIdle, nTotal, fAllOk, nTodo, pc, batch, fOk, added, result, interrupted>>
counters == <<nIdle, nTotal, fAllOk, nTodo>>

(* out, adding: the master before and after CCheckQueueControl is made;    *)
(* start: at the head of Loop; work: executing its batch; wait: on its     *)
(* condition variable; woken: notified; gone: has left for good.           *)
PC == {"out", "adding", "start", "work", "wait", "woken", "gone"}

(* The fields hold what their declarations say.                            *)
TypeOK ==
    /\ queue \subseteq Check
    /\ nIdle \in Int /\ nTotal \in Int /\ nTodo \in Nat
    /\ fAllOk \in BOOLEAN
    /\ pc \in [Thread -> PC]
    /\ batch \in [Thread -> SUBSET Check]
    /\ fOk \in [Thread -> BOOLEAN]
    /\ added \subseteq Check
    /\ result \in BOOLEAN /\ interrupted \in BOOLEAN

Init ==
    /\ queue = {} /\ added = {}
    /\ nIdle = 0 /\ nTotal = 0 /\ nTodo = 0
    /\ fAllOk = TRUE /\ result = TRUE /\ interrupted = FALSE
    /\ pc = [t \in Thread |-> IF t = Master THEN "out" ELSE "start"]
    /\ batch = [t \in Thread |-> {}]
    /\ fOk = [t \in Thread |-> TRUE]

-----------------------------------------------------------------------------
(* nNow: how many checks to take at once.                                  *)
BatchOf(n, total, idle) ==
    LET share == n \div (total + idle + 1)
    IN  IF share < 1 THEN 1 ELSE IF share > BatchSize THEN BatchSize ELSE share

(* notify_one and notify_all on condWorker, notify_one on condMaster.      *)
Waiting == {w \in Worker : pc[w] = "wait"}
Notified(ws) == [t \in Thread |-> IF t \in ws THEN "woken" ELSE pc[t]]

(* Mutation: the master is not told.                                       *)
MasterForgotten == pc
MasterNotified == [t \in Thread |-> IF t = Master /\ pc[t] = "wait" THEN "woken" ELSE pc[t]]

(* How many checks a thread is done with.                                  *)
(* Mutations: only one; a full batch whatever it took.                     *)
FinishedOne(t) == 1
FinishedFull(t) == BatchSize
Finished(t) == Cardinality(batch[t])

(* A batch is executed up to the first check that fails; nothing is if     *)
(* some check has failed already.                                          *)
(* Mutation: one good check will do.                                       *)
ExecuteAny(ok, b) == ok /\ b \cap Good # {}
Execute(ok, b) == ok /\ b \subseteq Good

(* fAllOk once Wait has returned ok.                                       *)
(* Mutation: it is not reset for new work.                                 *)
KeepStatus(ok) == ok
ResetStatus(ok) == TRUE

(* Loop from the while loop on, in a critical section that has already set *)
(* the counters and the other threads' pcs to the values given.  Only the  *)
(* master leaves the loop: fQuit is never set.                             *)
ReturnResult(t, total, idle, todo, ok, pcs) ==
    /\ queue = {} /\ t = Master /\ todo = 0
    /\ nTotal' = total - 1 /\ nIdle' = idle /\ nTodo' = todo
    /\ result' = ok
    /\ fAllOk' = ResetStatus(ok)
    /\ pc' = [pcs EXCEPT ![t] = IF interrupted THEN "gone" ELSE "out"]
    /\ batch' = [batch EXCEPT ![t] = {}]
    /\ UNCHANGED <<queue, fOk>>

Sleep(t, total, idle, todo, ok, pcs) ==
    /\ queue = {} /\ ~ (t = Master /\ todo = 0)
    /\ nTotal' = total /\ nIdle' = idle + 1 /\ nTodo' = todo /\ fAllOk' = ok
    /\ pc' = [pcs EXCEPT ![t] = "wait"]
    /\ batch' = [batch EXCEPT ![t] = {}]
    /\ UNCHANGED <<queue, fOk, result>>

TakeBatch(t, total, idle, todo, ok, pcs) ==
    /\ queue # {}
    /\ nTotal' = total /\ nIdle' = idle /\ nTodo' = todo /\ fAllOk' = ok
    /\ pc' = [pcs EXCEPT ![t] = "work"]
    /\ \E b \in SUBSET queue :
          /\ Cardinality(b) = BatchOf(Cardinality(queue), total, idle)
          /\ queue' = queue \ b
          /\ batch' = [batch EXCEPT ![t] = b]
          /\ fOk' = [fOk EXCEPT ![t] = Execute(ok, b)]
    /\ UNCHANGED result

Proceed(t, total, idle, todo, ok, pcs) ==
    /\ \/ ReturnResult(t, total, idle, todo, ok, pcs)
       \/ Sleep(t, total, idle, todo, ok, pcs)
       \/ TakeBatch(t, total, idle, todo, ok, pcs)
    /\ UNCHANGED <<added, interrupted>>

-----------------------------------------------------------------------------
(* The first iteration of Loop.                                            *)
Start(t) ==
    /\ pc[t] = "start"
    /\ Proceed(t, nTotal + 1, nIdle, nTodo, fAllOk, pc)

(* The batch is executed: account for it; the last one wakes the master.   *)
Done(t) ==
    LET todo == nTodo - Finished(t)
    IN  /\ pc[t] = "work"
        /\ Proceed(t, nTotal, nIdle, todo, fAllOk /\ fOk[t],
                   IF todo = 0 /\ t # Master THEN MasterNotified ELSE pc)

(* A wait ends, by a notification or spuriously.                           *)
Awake(t) ==
    /\ pc[t] = "woken"
    /\ Proceed(t, nTotal, nIdle - 1, nTodo, fAllOk, pc)
AwakeSpuriously(t) ==
    /\ pc[t] = "wait"
    /\ Proceed(t, nTotal, nIdle - 1, nTodo, fAllOk, pc)

(* boost interrupts threads in a wait at shutdown.  A worker leaves; the   *)
(* master unwinds through ~CCheckQueueControl, which calls Wait again.     *)
Interrupt(t) ==
    /\ pc[t] \in {"wait", "woken"}
    /\ t = Master => ~ interrupted
    /\ pc' = [pc EXCEPT ![t] = IF t = Master THEN "start" ELSE "gone"]
    /\ interrupted' = (interrupted \/ t = Master)
    /\ UNCHANGED <<queue, counters, batch, fOk, added, result>>

(* CCheckQueueControl, Add and Wait.                                       *)
Open ==
    /\ pc[Master] = "out"
    /\ pc' = [pc EXCEPT ![Master] = "adding"]
    /\ added' = {}
    /\ UNCHANGED <<queue, counters, batch, fOk, result, interrupted>>

Add(S) ==
    /\ pc[Master] = "adding"
    /\ queue' = queue \cup S
    /\ added' = added \cup S
    /\ nTodo' = nTodo + Cardinality(S)
    /\ \/ Cardinality(S) = 1 /\ Waiting # {} /\ \E w \in Waiting : pc' = Notified({w})
       \/ Cardinality(S) = 1 /\ Waiting = {} /\ pc' = pc
       \/ Cardinality(S) > 1 /\ pc' = Notified(Waiting)
    /\ UNCHANGED <<nIdle, nTotal, fAllOk, batch, fOk, result, interrupted>>

Wait ==
    /\ pc[Master] = "adding"
    /\ pc' = [pc EXCEPT ![Master] = "start"]
    /\ UNCHANGED <<queue, counters, batch, fOk, added, result, interrupted>>

Loop(t) == Start(t) \/ Done(t) \/ Awake(t)

Next ==
    \/ \E t \in Thread : Loop(t) \/ AwakeSpuriously(t) \/ Interrupt(t)
    \/ Open
    \/ \E S \in SUBSET (Check \ added) : Add(S)
    \/ Wait

Spec == Init /\ [][Next]_vars

(* A thread that can run does; nobody is owed a spurious wake-up.          *)
FairSpec == Spec /\ \A t \in Thread : WF_vars(Loop(t))

-----------------------------------------------------------------------------
(* The inductive invariant, besides the type and TodoIsPending.            *)
BatchWhileWorking == \A t \in Thread : batch[t] # {} <=> pc[t] = "work"
Active == {t \in Thread : pc[t] = "work"}
ActiveCounted == nTotal - nIdle = Cardinality(Active)
WorkersOnly == \A w \in Worker : pc[w] \notin {"out", "adding"}

(* nTodo counts exactly the checks in the queue or in some thread's batch, *)
(* and no check is in two places.                                          *)
Pending == queue \cup UNION {batch[t] : t \in Thread}
TodoIsPending ==
    /\ nTodo = Cardinality(Pending)
    /\ \A t \in Thread : queue \cap batch[t] = {}
    /\ \A t, u \in Thread : t # u => batch[t] \cap batch[u] = {}

(* What fAllOk, and each thread's fOk, say of the checks done so far.      *)
StatusSoFar ==
    pc[Master] \notin {"out", "gone"} =>
    /\ Pending \subseteq added
    /\ IF fAllOk THEN added \ Pending \subseteq Good ELSE ~ (added \subseteq Good)
    /\ \A t \in Active : IF fOk[t] THEN batch[t] \subseteq Good ELSE ~ (added \subseteq Good)
NoWorkOutside == pc[Master] \in {"out", "gone"} => Pending = {} /\ fAllOk

(* IsIdle holds whenever the next CCheckQueueControl may be made: its      *)
(* assert (checkqueue.h:187) cannot fail, whatever the workers were doing  *)
(* when Wait returned, and also after interrupted waits.                   *)
IsIdle == nTotal = nIdle /\ nTodo = 0 /\ fAllOk
AssertIsIdle == pc[Master] = "out" => IsIdle

(* The queue implements ParallelCheck: Wait returns TRUE exactly if every  *)
(* check added since the control object was made succeeds.                 *)
Phase ==
    IF pc[Master] \in {"out", "gone"} THEN "closed"
    ELSE IF pc[Master] = "adding" THEN "adding"
    ELSE "waiting"
Abstract == INSTANCE ParallelCheck WITH phase <- Phase
ImplementsParallelCheck == Abstract!Spec

(* Wait returns: the last notification is never lost and no batch stays    *)
(* with a thread that is gone.                                             *)
WaitReturns == Phase = "waiting" ~> Phase = "closed"
=============================================================================
