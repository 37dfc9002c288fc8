----------------------------- MODULE BlockChain -----------------------------
(***************************************************************************)
(* The block index and the active chain of a node: AcceptBlock,            *)
(* ActivateBestChain, InvalidateBlock, ReconsiderBlock, ReprocessBlocks,   *)
(* FlushStateToDisk and LoadBlockIndexDB of src/src/main.cpp.              *)
(*                                                                         *)
(* cs_main is held for a whole handler, except by ActivateBestChain, which *)
(* gives it up whenever it has a better tip or found an invalid block, and *)
(* by ReprocessBlocks, which takes it anew for each block.  `job' is the   *)
(* part of a handler that still holds it: it goes on block by block, so    *)
(* that the node can crash between any two of them.                        *)
(*                                                                         *)
(* Left out: checkpoints, warnings, headers without blocks other than      *)
(* those AcceptBlock leaves behind, and disk errors.  No block file is     *)
(* ever deleted, so a linked block has its data.                           *)
(***************************************************************************)
EXTENDS Naturals, FiniteSets

CONSTANTS
    Block, Genesis,
    Parent,         \* pprev
    Anc,            \* a block and its ancestors
    Work,           \* nChainWork
    Invalid,        \* blocks ConnectBlock finds to break a consensus rule
    NotContextual,  \* blocks ContextualCheckBlock refuses
    Unverified,     \* blocks whose stake AcceptBlock may be unable to verify
    Refusable,      \* blocks CheckBlock refuses at some times and not at others
    Orders,         \* the orders among blocks of equal work
    Depth,          \* the argument of ReprocessBlocks (15 in the code)
    MaxOps,         \* how often a user or a transaction lock intervenes
    MaxCrash        \* how often the process dies

ASSUME TreeAssumption ==
    /\ IsFiniteSet(Block) /\ Genesis \in Block
    /\ Parent \in [Block \ {Genesis} -> Block]
    /\ Anc \in [Block -> SUBSET Block] /\ Anc[Genesis] = {Genesis}
    /\ \A b \in Block \ {Genesis} : Anc[b] = {b} \cup Anc[Parent[b]] /\ b \notin Anc[Parent[b]]
    /\ \A b \in Block : \A a \in Anc[b] : Genesis \in Anc[a] /\ Anc[a] \subseteq Anc[b]
    /\ \A b \in Block : \A x, y \in Anc[b] : x \in Anc[y] \/ y \in Anc[x]
ASSUME WorkAssumption ==
    /\ Work \in [Block -> Nat]
    /\ \A b \in Block \ {Genesis} : Work[Parent[b]] < Work[b]
Level(S, x) == {y \in S : Work[y] = Work[x]}
ASSUME OrderAssumption ==
    Orders = {o \in [Block -> 1..Cardinality(Block)] :
                 \A x \in Block : {o[y] : y \in Level(Block, x)} = 1..Cardinality(Level(Block, x))}
ASSUME CheckAssumption ==
    /\ Invalid \cup NotContextual \cup Unverified \cup Refusable \subseteq Block \ {Genesis}
    /\ Depth \in Nat /\ MaxOps \in Nat /\ MaxCrash \in Nat

VARIABLES
    index,      \* mapBlockIndex
    data,       \* BLOCK_HAVE_DATA
    undo,       \* BLOCK_HAVE_UNDO, set with BLOCK_VALID_SCRIPTS
    invalid,    \* BLOCK_FAILED_VALID
    child,      \* BLOCK_FAILED_CHILD
    dirty,      \* setDirtyBlockIndex
    rank,       \* order among blocks of equal work, 0 without nChainTx
    cand,       \* setBlockIndexCandidates
    tip,        \* chainActive.Tip()
    refused,    \* blocks CheckBlock refuses now: lock conflicts, payees
    rejected,   \* mapRejectedBlocks
    active,     \* some thread is in ActivateBestChain
    rep,        \* the thread in ReprocessBlocks, before DisconnectBlocks
    job,        \* what the holder of cs_main has left to do
    disk,       \* the databases of the block index and of the coins
    up,         \* the process runs
    odd,        \* ghost: "short" and "torn", see below
    ops,        \* interventions so far
    crashes

index_vars == <<index, data, undo, invalid, child, dirty, rank>>
chain_vars == <<cand, tip, active, job, up>>
vars == <<index, data, undo, invalid, child, dirty, rank, cand, tip, refused, rejected, active, rep, job, disk, up, odd, ops, crashes>>

JobOf(what, b, old, n) == [op |-> what, to |-> b, from |-> old, left |-> n]
NoJob == JobOf("none", Genesis, Genesis, 0)
NoRep == [on |-> FALSE, left |-> {}]
Job == [op : {"none", "activate", "invalidate", "disconnect"}, to : Block, from : Block, left : 0..(Depth + 1)]
Disk == [index : SUBSET Block, data : SUBSET Block, undo : SUBSET Block, invalid : SUBSET Block, child : SUBSET Block, tip : Block]

Failed == invalid \cup child
Linked == {b \in Block : rank[b] # 0}
(* CBlockIndexWorkComparator: less work, or the same and known later.      *)
Worse(a, b) == Work[a] < Work[b] \/ (Work[a] = Work[b] /\ rank[a] > rank[b])

(* The index, the candidates and the jobs are about known blocks; what is  *)
(* linked has its data, as have its ancestors, and the tip and every       *)
(* candidate are linked.                                                   *)
TypeOK ==
    /\ index \subseteq Block /\ data \subseteq index /\ undo \subseteq data
    /\ invalid \subseteq index /\ child \subseteq index /\ dirty \subseteq index
    /\ rank \in [Block -> Nat] /\ \A b \in Linked : Anc[b] \subseteq data
    /\ cand \subseteq Linked /\ tip \in Linked
    /\ refused \subseteq Refusable /\ rejected \subseteq Block
    /\ active \in BOOLEAN /\ up \in BOOLEAN /\ rep \in [on : BOOLEAN, left : SUBSET Block]
    /\ job \in Job /\ disk \in Disk /\ odd \subseteq {"short", "torn"} /\ ops \in 0..MaxOps /\ crashes \in 0..MaxCrash

(* A node that has loaded its database with nothing but the genesis block. *)
Init ==
    /\ index = {Genesis} /\ data = {Genesis} /\ undo = {} /\ invalid = {} /\ child = {} /\ dirty = {}
    /\ rank = [b \in Block |-> IF b = Genesis THEN 1 ELSE 0]
    /\ cand = {Genesis} /\ tip = Genesis
    /\ refused = {} /\ rejected = {}
    /\ active = FALSE /\ rep = NoRep /\ job = NoJob
    /\ disk = [index |-> {Genesis}, data |-> {Genesis}, undo |-> {}, invalid |-> {}, child |-> {}, tip |-> Genesis]
    /\ up = TRUE /\ odd = {} /\ ops = 0 /\ crashes = 0

-----------------------------------------------------------------------------
(* FlushStateToDisk: the dirty entries of the block index, then the coins. *)
Written(old, new) == (old \ dirty) \cup (new \cap dirty)
IndexWritten ==
    [index |-> disk.index \cup dirty, data |-> Written(disk.data, data), undo |-> Written(disk.undo, undo),
     invalid |-> Written(disk.invalid, invalid), child |-> Written(disk.child, child), tip |-> disk.tip]

(* What is on disk between the two writes of a flush.                      *)
(* Mutation: the coins are written first.                                  *)
CoinsFirst == [disk EXCEPT !.tip = tip]
BetweenWrites == IndexWritten

Flushed(t) == [IndexWritten EXCEPT !.tip = t]

(* FLUSH_STATE_PERIODIC, FLUSH_STATE_IF_NEEDED after a block was           *)
(* connected, and the flush at shutdown or for an RPC call.                *)
FlushStateToDisk ==
    /\ up /\ job.op \in {"none", "activate"} /\ (job.op = "activate" => tip \in Anc[job.to])
    /\ disk' = Flushed(tip) /\ dirty' = {}
    /\ UNCHANGED <<index, data, undo, invalid, child, rank, chain_vars, refused, rejected, rep, odd, ops, crashes>>

(* DisconnectTip always flushes before the tip moves.                      *)
DisconnectTip ==
    /\ tip' = Parent[tip]
    /\ disk' = Flushed(Parent[tip])

-----------------------------------------------------------------------------
(* A new block.                                                            *)
Free == up /\ job = NoJob

(* ReceivedBlockTransactions: b and the blocks that waited for it are      *)
(* linked, in the order in which they had come.                            *)
NowLinked(b) ==
    {x \in data \cup {b} : rank[x] = 0 /\ b \in Anc[x] /\ Anc[x] \subseteq Linked \cup data \cup {b}}

(* nSequenceId: those of S come after the blocks of T, in order o.         *)
Ranked(S, T, o) ==
    [x \in Block |-> IF x \in S
                     THEN Cardinality(Level(T, x)) + Cardinality({y \in Level(S, x) : o[y] <= o[x]})
                     ELSE IF x \in T THEN rank[x] ELSE 0]
(* Mutation: whether or not the parent is linked.                          *)
StoreLinked(b) ==
    /\ data' = data \cup {b}
    /\ rank' \in {Ranked({b}, Linked, o) : o \in Orders}
    /\ cand' = cand \cup {b}
Store(b) ==
    /\ data' = data \cup {b}
    /\ IF Parent[b] \in Linked
       THEN LET S == NowLinked(b)
            IN /\ rank' \in {Ranked(S, Linked, o) : o \in Orders}
               /\ cand' = cand \cup {x \in S : Work[x] > Work[tip]}
       ELSE UNCHANGED <<rank, cand>>

(* AcceptBlockHeader: a known block is not checked again; one whose        *)
(* parent failed is not taken.                                             *)
Acceptable(b) == Free /\ b # Genesis /\ Parent[b] \in index \ Failed /\ b \notin Failed

(* CheckBlock refuses the block for now.                                   *)
BlockRefused(b) ==
    /\ up /\ b \in refused
    /\ rejected' = rejected \cup {b}
    /\ UNCHANGED <<index_vars, chain_vars, refused, rep, disk, odd, ops, crashes>>

(* Its header enters the index, but AcceptBlock takes no data: for a       *)
(* contextual rule, or because its stake cannot be verified here.          *)
BlockNotStored(b) ==
    /\ Acceptable(b) /\ b \in (NotContextual \cup Unverified) \ (refused \cup data)
    /\ index' = index \cup {b} /\ dirty' = dirty \cup {b}
    /\ invalid' = IF b \in NotContextual THEN invalid \cup {b} ELSE invalid
    /\ UNCHANGED <<data, undo, child, rank, chain_vars, refused, rejected, rep, disk, odd, ops, crashes>>

BlockStored(b) ==
    /\ Acceptable(b) /\ b \notin refused \cup NotContextual \cup data
    /\ Store(b)
    /\ index' = index \cup {b} /\ dirty' = dirty \cup {b} /\ active' = TRUE
    /\ UNCHANGED <<undo, invalid, child, tip, job, up, refused, rejected, rep, disk, odd, ops, crashes>>

-----------------------------------------------------------------------------
(* ActivateBestChain.                                                      *)

(* FindMostWorkChain looks at the part of a candidate's chain that is not  *)
(* active.  Mutation: at the candidate alone.                              *)
PathItself(c) == {c}
Path(c) == Anc[c] \ Anc[tip]
Usable == {c \in cand : Path(c) \cap Failed = {}}
MostWork == {c \in Usable : \A d \in Usable : ~ Worse(c, d)}

(* The candidates it goes through before the one it returns, and the last  *)
(* failed block on each path with all that follows it.                     *)
Visited == {c \in cand \ Usable : \A d \in MostWork : Worse(d, c)}
Spoiled == UNION {{x \in Path(c) : Failed \cap Path(c) \subseteq Anc[x]} : c \in Visited}
FindMostWorkChain ==
    /\ child' = child \cup (Spoiled \ Failed)
    /\ cand' = cand \ Spoiled

(* Nothing better than the tip.  Without any candidate, the result is      *)
(* NULL and its hash is read nevertheless: the process ends.               *)
NothingToDo ==
    /\ Free /\ active /\ MostWork \subseteq {tip}
    /\ FindMostWorkChain
    /\ active' = FALSE /\ up' = (MostWork # {})
    /\ UNCHANGED <<index, data, undo, invalid, dirty, rank, tip, job, refused, rejected, rep, disk, odd, ops, crashes>>

BeginStep ==
    /\ Free /\ active
    /\ \E c \in MostWork \ {tip} : job' = JobOf("activate", c, tip, 0)
    /\ FindMostWorkChain
    /\ UNCHANGED <<index, data, undo, invalid, dirty, rank, tip, active, up, refused, rejected, rep, disk, odd, ops, crashes>>

(* ActivateBestChainStep: back to the fork first.                          *)
DisconnectStep ==
    /\ up /\ job.op = "activate" /\ tip \notin Anc[job.to]
    /\ DisconnectTip /\ dirty' = {}
    /\ UNCHANGED <<index, data, undo, invalid, child, rank, cand, active, job, up, refused, rejected, rep, odd, ops, crashes>>

(* PruneBlockIndexCandidates.                                              *)
Prune(C, t) == {c \in C : ~ Worse(c, t)}

Connects(b) == up /\ job.op = "activate" /\ b \in Anc[job.to] \ {Genesis} /\ tip = Parent[b]

(* The next block connects.  The step ends with a better tip than it       *)
(* began with, ActivateBestChain when that is the one it wanted.  The      *)
(* thread that received a block does not check it twice.                   *)
ConnectStep(b) ==
    /\ Connects(b) /\ b \notin Invalid /\ (b \in refused => b = job.to /\ b \notin undo)
    /\ tip' = b /\ undo' = undo \cup {b}
    /\ dirty' = IF b \in undo THEN dirty ELSE dirty \cup {b}
    /\ cand' = Prune(cand, b) /\ up' = (cand' # {})
    /\ job' = IF Work[b] > Work[job.from] \/ b = job.to THEN NoJob ELSE job
    /\ active' = (b # job.to)
    /\ UNCHANGED <<index, data, invalid, child, rank, refused, rejected, rep, disk, odd, ops, crashes>>

(* InvalidBlockFound.  ConnectBlock calls CheckBlock again for a block     *)
(* read from disk.  When one that was active before is now refused, those  *)
(* that were dropped for being worse are missing: candidates are "short".  *)
(* Mutation: the block is not marked.                                      *)
ConnectFailsAgain(b) ==
    /\ Connects(b) /\ b \in Invalid \cup refused
    /\ job' = NoJob
    /\ UNCHANGED <<index_vars, cand, tip, active, up, refused, rejected, rep, disk, odd, ops, crashes>>
ConnectFails(b) ==
    /\ Connects(b) /\ b \in Invalid \cup refused
    /\ invalid' = invalid \cup {b} /\ dirty' = dirty \cup {b} /\ cand' = cand \ {b}
    /\ rejected' = IF b \in refused THEN rejected \cup {b} ELSE rejected
    /\ job' = NoJob /\ odd' = IF b \in undo THEN odd \cup {"short"} ELSE odd
    /\ UNCHANGED <<index, data, undo, child, rank, tip, active, up, refused, rep, disk, ops, crashes>>

-----------------------------------------------------------------------------
(* invalidateblock, reconsiderblock.                                       *)
Intervene == ops < MaxOps /\ ops' = ops + 1 /\ UNCHANGED crashes

(* All valid, linked blocks no worse than the tip are candidates again.    *)
(* Mutation: only the tip is.                                              *)
OnlyTip(C, F, t) == C \cup {t}
AddedAgain(C, F, t) == C \cup {x \in Linked \ F : ~ Worse(x, t)}

(* The loop of InvalidateBlock, up to its next DisconnectTip with tip t.   *)
InvalidateFrom(b, t, F, d) ==
    IF b \in Anc[t]
    THEN /\ child' = child \cup {t} /\ dirty' = d \cup {t} /\ cand' = cand \ {b, t}
         /\ job' = JobOf("invalidate", b, Genesis, 0)
         /\ UNCHANGED <<active, odd>>
    ELSE /\ cand' = AddedAgain(cand \ {b}, F, t) /\ dirty' = d
         /\ job' = NoJob /\ active' = TRUE /\ odd' = odd \ {"short"}
         /\ UNCHANGED child

InvalidateBlock(b) ==
    /\ Free /\ b \in index \ {Genesis} /\ Intervene
    /\ invalid' = invalid \cup {b}
    /\ InvalidateFrom(b, tip, Failed \cup {b}, dirty \cup {b})
    /\ UNCHANGED <<index, data, undo, rank, tip, up, refused, rejected, rep, disk>>

InvalidateStep ==
    /\ up /\ job.op = "invalidate"
    /\ DisconnectTip
    /\ InvalidateFrom(job.to, Parent[tip], Failed, {})
    /\ UNCHANGED <<index, data, undo, invalid, rank, up, refused, rejected, rep, ops, crashes>>

(* ReconsiderBlock.  A block without data counts as not valid.  Ancestors  *)
(* lose their flags but are not made candidates: these may be "short".     *)
Reconsidered(b) ==
    LET below == {x \in index : b \in Anc[x] /\ (x \in Failed \/ x \notin data)}
        cleared == below \cup (Anc[b] \cap Failed)
    IN /\ invalid' = invalid \ cleared /\ child' = child \ cleared
       /\ dirty' = dirty \cup cleared
       /\ cand' = cand \cup {x \in below \cap Linked : Worse(tip, x)}
       /\ odd' = IF (Anc[b] \ {b}) \cap Failed = {} THEN odd ELSE odd \cup {"short"}

ReconsiderBlock(b) ==
    /\ Free /\ b \in index /\ Intervene
    /\ Reconsidered(b) /\ active' = TRUE
    /\ UNCHANGED <<index, data, undo, rank, tip, job, up, refused, rejected, rep, disk>>

-----------------------------------------------------------------------------
(* What CheckBlock refuses changes with transaction locks that complete    *)
(* and expire, and with the votes for payees.                              *)
ChecksChange(R) ==
    /\ up /\ refused' = R
    /\ UNCHANGED <<index_vars, chain_vars, rejected, rep, disk, odd, ops, crashes>>

(* ReprocessBlocks, when a lock completes whose request was refused: each  *)
(* block rejected of late is reconsidered, ...                             *)
ReprocessBlocks(recent) ==
    /\ up /\ ~ rep.on /\ Intervene
    /\ rep' = [on |-> TRUE, left |-> recent]
    /\ UNCHANGED <<index_vars, chain_vars, refused, rejected, disk, odd>>

ReprocessStep(b) ==
    /\ Free /\ rep.on /\ b \in rep.left
    /\ rep' = [rep EXCEPT !.left = rep.left \ {b}]
    /\ IF b \in index THEN Reconsidered(b) ELSE UNCHANGED <<invalid, child, dirty, cand, odd>>
    /\ UNCHANGED <<index, data, undo, rank, tip, active, job, up, refused, rejected, disk, ops, crashes>>

(* ... then DisconnectBlocks goes back Depth + 1 blocks, and               *)
(* ActivateBestChain is called.  The candidates are not added again.       *)
DisconnectBlocks ==
    /\ Free /\ rep.on /\ rep.left = {}
    /\ rep' = NoRep /\ job' = JobOf("disconnect", Genesis, Genesis, Depth + 1)
    /\ UNCHANGED <<index_vars, cand, tip, active, up, refused, rejected, disk, odd, ops, crashes>>

DisconnectBlocksStep ==
    /\ up /\ job.op = "disconnect" /\ job.left > 0 /\ tip # Genesis
    /\ DisconnectTip /\ dirty' = {}
    /\ job' = [job EXCEPT !.left = job.left - 1]
    /\ UNCHANGED <<index, data, undo, invalid, child, rank, cand, active, up, refused, rejected, rep, odd, ops, crashes>>

DisconnectBlocksEnd ==
    /\ up /\ job.op = "disconnect" /\ (job.left = 0 \/ tip = Genesis)
    /\ job' = NoJob /\ active' = TRUE
    /\ UNCHANGED <<index_vars, cand, tip, up, refused, rejected, rep, disk, odd, ops, crashes>>

-----------------------------------------------------------------------------
(* LoadBlockIndexDB from d, and ActivateBestChain at the end of the start. *)
(* Equal work is ordered by the entries' addresses.  A tip with a failure  *)
(* flag in its chain is "torn": see Crash.                                 *)
Load(d) ==
    LET linked == {b \in d.data : Anc[b] \subseteq d.data}
    IN /\ index' = d.index /\ data' = d.data /\ undo' = d.undo
       /\ invalid' = d.invalid /\ child' = d.child /\ dirty' = {}
       /\ rank' \in {Ranked(linked, {}, o) : o \in Orders}
       /\ tip' = d.tip
       /\ cand' = {b \in linked \ (d.invalid \cup d.child) :
                      Work[b] > Work[d.tip] \/ (Work[b] = Work[d.tip] /\ rank'[b] <= rank'[d.tip])}
       /\ odd' = IF Anc[d.tip] \cap (d.invalid \cup d.child) = {} THEN {} ELSE {"torn"}
       /\ up' = (cand' # {}) /\ active' = up'
       /\ disk' = d

(* The process dies, maybe in the middle of a flush, and starts again.     *)
Crash ==
    /\ crashes < MaxCrash /\ crashes' = crashes + 1 /\ UNCHANGED ops
    /\ \E d \in IF up THEN {disk, BetweenWrites} ELSE {disk} : Load(d)
    /\ refused' = {} /\ rejected' = {} /\ rep' = NoRep /\ job' = NoJob

-----------------------------------------------------------------------------
Activate ==
    \/ NothingToDo \/ BeginStep \/ DisconnectStep
    \/ \E b \in Block : ConnectStep(b) \/ ConnectFails(b)
Others ==
    \/ InvalidateStep \/ DisconnectBlocks \/ DisconnectBlocksStep \/ DisconnectBlocksEnd
    \/ \E b \in Block : ReprocessStep(b)

Next ==
    \/ \E b \in Block : \/ BlockRefused(b) \/ BlockNotStored(b) \/ BlockStored(b)
                         \/ InvalidateBlock(b) \/ ReconsiderBlock(b)
    \/ \E R \in SUBSET Refusable : ChecksChange(R)
    \/ \E R \in SUBSET rejected : ReprocessBlocks(R)
    \/ FlushStateToDisk \/ Activate \/ Others \/ Crash

Spec == Init /\ [][Next]_vars
(* The threads that activate, invalidate or reprocess run on.              *)
FairSpec == Spec /\ WF_vars(Activate) /\ WF_vars(Others)

-----------------------------------------------------------------------------
Quiet == up /\ ~ active /\ ~ rep.on /\ job = NoJob

(* DisconnectTip and LoadBlockIndexDB rely on it: whatever the moment of a *)
(* crash, the best block of the coin database and all its ancestors are in *)
(* the stored index with their data, and but for the genesis block with    *)
(* their undo data.                                                        *)
DiskUsable ==
    /\ Anc[disk.tip] \subseteq disk.index \cap disk.data
    /\ Anc[disk.tip] \ {Genesis} \subseteq disk.undo

(* A node at rest is on a chain without failed blocks, unless a crash left *)
(* it with one ("torn"): what InvalidateBlock, ConnectTip and              *)
(* FindMostWorkChain are for, with the lock given up in between.           *)
ChainNotFailed == Quiet /\ "torn" \notin odd => Anc[tip] \cap Failed = {}

(* "The result is either failure or an activated best chain": at rest, no  *)
(* block whose whole chain is there and not failed has more work than the  *)
(* tip, unless the candidates were left short, or chosen at a start by     *)
(* their work against a "torn" tip, which no step goes back to.            *)
QuietBest ==
    Quiet /\ odd = {} =>
        \A b \in Linked : Anc[b] \cap Failed = {} => Work[b] <= Work[tip]

(* ActivateBestChain ends, however often it meets an invalid block or      *)
(* others come in while it has released cs_main.                           *)
ActivationEnds == active ~> (~ active \/ ~ up)

(* "Either the current tip or a successor of it we're working towards is   *)
(* left in setBlockIndexCandidates": while no handler is at work on the set *)
(* it is not empty, so that ActivateBestChain has something to go to.      *)
CandidateLeft == Free => cand # {}
=============================================================================
