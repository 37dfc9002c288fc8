-------------------------- MODULE BlockChainProofs --------------------------
(* What a crash leaves on disk can be loaded and undone, and a node at     *)
(* rest is on the best chain it has: proofs about BlockChain, for any tree *)
(* of blocks.                                                              *)
EXTENDS BlockChain, FiniteSetTheorems, TLAPS

(* The ancestors of a linked block are linked.                             *)
Closed == \A b \in Linked : Anc[b] \subseteq Linked

(* An image of the databases is sound: what the index says is about known  *)
(* blocks, and the best block's chain is there with its undo data.         *)
Sound(d) ==
    /\ d \in Disk
    /\ d.data \subseteq d.index /\ d.undo \subseteq d.data
    /\ d.invalid \subseteq d.index /\ d.child \subseteq d.index
    /\ Anc[d.tip] \subseteq d.index \cap d.data
    /\ Anc[d.tip] \ {Genesis} \subseteq d.undo

(* Nothing is taken back in memory, and what is not dirty is stored.       *)
Synced ==
    /\ disk.index \subseteq index /\ disk.data \subseteq data /\ disk.undo \subseteq undo
    /\ index \ dirty \subseteq disk.index /\ data \ dirty \subseteq disk.data /\ undo \ dirty \subseteq disk.undo

(* The active chain can be undone, and a job has a block to go to.         *)
TipUndoable == Anc[tip] \ {Genesis} \subseteq undo
Target ==
    /\ job.op = "activate" => job.to \in Linked
    /\ job.op = "invalidate" => job.to # Genesis /\ job.to \in Anc[tip]

Inv == TypeOK /\ Closed /\ Sound(disk) /\ Synced /\ TipUndoable /\ Target

(* A block is among its ancestors, and so is the genesis block.            *)
LEMMA AncFacts ==
    /\ \A b \in Block : b \in Anc[b] /\ Genesis \in Anc[b] /\ Anc[b] \subseteq Block
    /\ \A b \in Block \ {Genesis} : Parent[b] \in Block /\ Anc[b] = {b} \cup Anc[Parent[b]]
BY TreeAssumption

(* Ranked gives each block of S a rank and leaves those of T theirs.       *)
LEMMA RankedFacts ==
    ASSUME NEW S \in SUBSET Block, NEW T \in SUBSET Block, NEW o \in Orders, rank \in [Block -> Nat]
    PROVE  /\ Ranked(S, T, o) \in [Block -> Nat]
           /\ \A x \in S : Ranked(S, T, o)[x] # 0
           /\ \A x \in Block \ S : Ranked(S, T, o)[x] = IF x \in T THEN rank[x] ELSE 0
<1>1. o \in [Block -> Nat]
  BY OrderAssumption
<1>2. IsFiniteSet(Block)
  BY TreeAssumption
<1>3. ASSUME NEW x \in Block
      PROVE  Cardinality(Level(T, x)) \in Nat
  <2>1. Level(T, x) \subseteq Block
    BY DEF Level
  <2>2. QED
    BY <2>1, <1>2, FS_Subset, FS_CardinalityType
<1>4. ASSUME NEW x \in S
      PROVE  /\ Cardinality({y \in Level(S, x) : o[y] <= o[x]}) \in Nat
             /\ Cardinality({y \in Level(S, x) : o[y] <= o[x]}) # 0
  <2> DEFINE L == {y \in Level(S, x) : o[y] <= o[x]}
  <2>1. L \subseteq Block /\ x \in L
    BY <1>1 DEF Level
  <2>2. IsFiniteSet(L)
    BY <2>1, <1>2, FS_Subset
  <2>3. Cardinality(L) \in Nat
    BY <2>2, FS_CardinalityType
  <2>4. Cardinality(L) # 0
    BY <2>1, <2>2, FS_EmptySet
  <2>5. QED
    BY <2>3, <2>4
<1>5. QED
  BY <1>3, <1>4 DEF Ranked

(* Between the two writes of a flush the image is sound, and after it the  *)
(* database is the memory.                                                 *)
LEMMA Images ==
    ASSUME Inv
    PROVE  /\ Sound(BetweenWrites)
           /\ \A t \in Block :
                (Anc[t] \subseteq data /\ Anc[t] \ {Genesis} \subseteq undo) =>
                    /\ Sound(Flushed(t)) /\ Flushed(t).index = index
                    /\ Flushed(t).data = data /\ Flushed(t).undo = undo
<1>1. /\ IndexWritten.index = index /\ IndexWritten.data = data /\ IndexWritten.undo = undo
      /\ IndexWritten.invalid \subseteq index /\ IndexWritten.child \subseteq index
      /\ IndexWritten.tip = disk.tip
  BY DEF Inv, TypeOK, Sound, Synced, IndexWritten, Written
<1>2. IndexWritten \in Disk
  BY <1>1 DEF Inv, TypeOK, Sound, Disk, IndexWritten, Written
<1>3. Sound(BetweenWrites)
  BY <1>1, <1>2 DEF Inv, TypeOK, Sound, Synced, BetweenWrites
<1>4. ASSUME NEW t \in Block, Anc[t] \subseteq data, Anc[t] \ {Genesis} \subseteq undo
      PROVE  /\ Sound(Flushed(t)) /\ Flushed(t).index = index
             /\ Flushed(t).data = data /\ Flushed(t).undo = undo
  <2>1. /\ Flushed(t).index = index /\ Flushed(t).data = data /\ Flushed(t).undo = undo
        /\ Flushed(t).invalid \subseteq index /\ Flushed(t).child \subseteq index
        /\ Flushed(t).tip = t
    BY <1>1, <1>2 DEF Flushed, Disk
  <2>2. Flushed(t) \in Disk
    BY <1>2 DEF Flushed, Disk
  <2>3. QED
    BY <2>1, <2>2, <1>4 DEF Sound, Inv, TypeOK
<1>5. QED
  BY <1>3, <1>4

(* The tip's parent, when there is one, is linked and can be undone.       *)
LEMMA ParentOfTip ==
    ASSUME Inv, tip # Genesis
    PROVE  /\ Parent[tip] \in Linked /\ Anc[Parent[tip]] \subseteq Anc[tip]
           /\ Anc[Parent[tip]] \subseteq data /\ Anc[Parent[tip]] \ {Genesis} \subseteq undo
BY AncFacts DEF Inv, TypeOK, Closed, TipUndoable, Linked

(* DisconnectTip keeps the databases and the chain sound.                  *)
LEMMA Disconnected ==
    ASSUME Inv, tip # Genesis, DisconnectTip,
           UNCHANGED <<index, data, undo, rank>>, dirty' \subseteq Block
    PROVE  /\ Sound(disk)' /\ TipUndoable' /\ Closed' /\ tip' \in Linked'
           /\ (disk.index = index /\ disk.data = data /\ disk.undo = undo)'
           /\ Synced'
<1>1. /\ Sound(Flushed(Parent[tip])) /\ Flushed(Parent[tip]).index = index
      /\ Flushed(Parent[tip]).data = data /\ Flushed(Parent[tip]).undo = undo
  BY Images, ParentOfTip DEF Linked
<1>2. disk' = Flushed(Parent[tip]) /\ tip' = Parent[tip]
  BY DEF DisconnectTip
<1>3. (disk.index = index /\ disk.data = data /\ disk.undo = undo)'
  BY <1>1, <1>2
<1>4. Sound(disk)'
  BY <1>1, <1>2 DEF Sound
<1>5. TipUndoable' /\ Closed' /\ tip' \in Linked'
  BY <1>2, ParentOfTip DEF TipUndoable, Closed, Linked, Inv
<1>6. QED
  BY <1>3, <1>4, <1>5 DEF Synced

-----------------------------------------------------------------------------
LEMMA InitInv == Init => Inv
<1> SUFFICES ASSUME Init PROVE Inv
  OBVIOUS
<1>1. Linked = {Genesis}
  BY TreeAssumption DEF Init, Linked
<1>2. job \in Job /\ rep \in [on : BOOLEAN, left : SUBSET Block] /\ ops \in 0..MaxOps /\ crashes \in 0..MaxCrash
  BY TreeAssumption, CheckAssumption DEF Init, NoJob, JobOf, NoRep, Job
<1>3. Sound(disk)
  BY TreeAssumption DEF Init, Sound, Disk
<1>4. Closed /\ Synced /\ TipUndoable /\ Target
  BY <1>1, TreeAssumption DEF Init, Closed, Synced, TipUndoable, Target, NoJob, JobOf
<1>5. TypeOK
  BY <1>1, <1>2, <1>3, TreeAssumption DEF Init, TypeOK, Sound
<1>6. QED
  BY <1>3, <1>4, <1>5 DEF Inv

(* Steps that leave tip, blocks and databases alone.                       *)
LEMMA SameChain ==
    ASSUME Inv, UNCHANGED <<index, data, undo, rank, tip, disk>>, dirty \subseteq dirty'
    PROVE  Closed' /\ Sound(disk)' /\ Synced' /\ TipUndoable' /\ Linked' = Linked
BY DEF Inv, Closed, Sound, Synced, TipUndoable, Linked

(* One lemma for each action.                                              *)
LEMMA BlockRefusedInv ==
    ASSUME Inv, NEW b \in Block, BlockRefused(b)
    PROVE  Inv'
<1>1. Closed' /\ Sound(disk)' /\ Synced' /\ TipUndoable' /\ Linked' = Linked
  BY SameChain DEF BlockRefused, index_vars, chain_vars
<1>2. TypeOK' /\ Target'
  BY <1>1 DEF Inv, TypeOK, Target, Failed, BlockRefused, index_vars, chain_vars
<1>3. QED
  BY <1>1, <1>2 DEF Inv

LEMMA ChecksChangeInv ==
    ASSUME Inv, NEW R \in SUBSET Refusable, ChecksChange(R)
    PROVE  Inv'
<1>1. Closed' /\ Sound(disk)' /\ Synced' /\ TipUndoable' /\ Linked' = Linked
  BY SameChain DEF ChecksChange, index_vars, chain_vars
<1>2. TypeOK' /\ Target'
  BY <1>1 DEF Inv, TypeOK, Target, ChecksChange, index_vars, chain_vars
<1>3. QED
  BY <1>1, <1>2 DEF Inv

LEMMA ReprocessBlocksInv ==
    ASSUME Inv, NEW R \in SUBSET rejected, ReprocessBlocks(R)
    PROVE  Inv'
<1>1. Closed' /\ Sound(disk)' /\ Synced' /\ TipUndoable' /\ Linked' = Linked
  BY SameChain DEF ReprocessBlocks, index_vars, chain_vars
<1>2. ops' \in 0..MaxOps /\ crashes' = crashes
  BY CheckAssumption DEF Inv, TypeOK, ReprocessBlocks, Intervene
<1>3. rep' \in [on : BOOLEAN, left : SUBSET Block]
  BY DEF Inv, TypeOK, ReprocessBlocks
<1>4. TypeOK' /\ Target'
  BY <1>1, <1>2, <1>3 DEF Inv, TypeOK, Target, ReprocessBlocks, index_vars, chain_vars
<1>5. QED
  BY <1>1, <1>4 DEF Inv

LEMMA FindInv ==
    ASSUME Inv, FindMostWorkChain, UNCHANGED index
    PROVE  child' \subseteq index' /\ cand' \subseteq Linked
<1>1. ASSUME NEW c \in cand
      PROVE  Anc[c] \subseteq index
  BY <1>1 DEF Inv, TypeOK
<1>2. Spoiled \subseteq index
  BY <1>1 DEF Spoiled, Visited, Path
<1>3. QED
  BY <1>2 DEF FindMostWorkChain, Inv, TypeOK

LEMMA NothingToDoInv ==
    ASSUME Inv, NothingToDo
    PROVE  Inv'
<1>1. Closed' /\ Sound(disk)' /\ Synced' /\ TipUndoable' /\ Linked' = Linked
  BY SameChain DEF NothingToDo
<1>2. child' \subseteq index' /\ cand' \subseteq Linked
  BY FindInv DEF NothingToDo
<1>3. up' \in BOOLEAN /\ active' \in BOOLEAN
  BY DEF NothingToDo
<1>4. TypeOK' /\ Target'
  BY <1>1, <1>2, <1>3 DEF Inv, TypeOK, Target, NothingToDo
<1>5. QED
  BY <1>1, <1>4 DEF Inv

LEMMA BeginStepInv ==
    ASSUME Inv, BeginStep
    PROVE  Inv'
<1>1. Closed' /\ Sound(disk)' /\ Synced' /\ TipUndoable' /\ Linked' = Linked
  BY SameChain DEF BeginStep
<1>2. child' \subseteq index' /\ cand' \subseteq Linked
  BY FindInv DEF BeginStep
<1>3. PICK c \in cand : job' = JobOf("activate", c, tip, 0)
  BY DEF BeginStep, MostWork, Usable
<1>4. c \in Linked /\ c \in Block /\ tip \in Block
  BY DEF Inv, TypeOK, Linked
<1>5. job' \in Job /\ Target'
  BY <1>1, <1>3, <1>4, CheckAssumption DEF Job, JobOf, Target
<1>6. TypeOK'
  BY <1>1, <1>2, <1>5 DEF Inv, TypeOK, BeginStep
<1>7. QED
  BY <1>1, <1>5, <1>6 DEF Inv

LEMMA NoJobType == NoJob \in Job /\ NoJob.op = "none"
BY TreeAssumption, CheckAssumption DEF NoJob, JobOf, Job

LEMMA ConnectStepInv ==
    ASSUME Inv, NEW b \in Block, ConnectStep(b)
    PROVE  Inv'
<1>1. b \in Linked /\ b # Genesis /\ tip = Parent[b] /\ Anc[b] = {b} \cup Anc[tip]
  BY AncFacts DEF ConnectStep, Connects, Inv, Closed, Target
<1>2. b \in data
  BY <1>1, AncFacts DEF Inv, TypeOK
<1>3. Linked' = Linked /\ Closed' /\ Sound(disk)'
  BY DEF ConnectStep, Inv, Linked, Closed, Sound
<1>4. TipUndoable'
  BY <1>1 DEF ConnectStep, Inv, TipUndoable
<1>5. Synced'
  BY DEF ConnectStep, Inv, Synced
<1>6. job' \in Job /\ Target'
  <2>1. CASE job' = NoJob
    BY <2>1, NoJobType DEF Target
  <2>2. CASE job' = job
    BY <2>2, <1>3 DEF ConnectStep, Connects, Inv, TypeOK, Target
  <2>3. QED
    BY <2>1, <2>2 DEF ConnectStep
<1>7. cand' \subseteq Linked /\ up' \in BOOLEAN /\ active' \in BOOLEAN
  BY DEF ConnectStep, Prune, Inv, TypeOK
<1>8. TypeOK'
  BY <1>1, <1>2, <1>3, <1>6, <1>7 DEF Inv, TypeOK, ConnectStep
<1>9. QED
  BY <1>3, <1>4, <1>5, <1>6, <1>8 DEF Inv

LEMMA ConnectFailsInv ==
    ASSUME Inv, NEW b \in Block, ConnectFails(b)
    PROVE  Inv'
<1>1. b \in index
  BY AncFacts DEF ConnectFails, Connects, Inv, TypeOK, Closed, Target
<1>2. Closed' /\ Sound(disk)' /\ Synced' /\ TipUndoable' /\ Linked' = Linked
  BY SameChain DEF ConnectFails
<1>3. TypeOK' /\ Target'
  BY <1>1, <1>2, NoJobType DEF Inv, TypeOK, Target, ConnectFails
<1>4. QED
  BY <1>2, <1>3 DEF Inv

LEMMA FlushInv ==
    ASSUME Inv, FlushStateToDisk
    PROVE  Inv'
<1>1. tip \in Block /\ Anc[tip] \subseteq data /\ Anc[tip] \ {Genesis} \subseteq undo
  BY DEF Inv, TypeOK, Linked, TipUndoable
<1>2. /\ Sound(Flushed(tip)) /\ Flushed(tip).index = index
      /\ Flushed(tip).data = data /\ Flushed(tip).undo = undo
  BY <1>1, Images
<1>3. disk' = Flushed(tip) /\ dirty' = {}
  BY DEF FlushStateToDisk
<1>4. Sound(disk)' /\ Synced'
  BY <1>2, <1>3 DEF Sound, Synced, FlushStateToDisk
<1>5. Closed' /\ TipUndoable' /\ Target' /\ Linked' = Linked
  BY DEF Inv, Closed, TipUndoable, Target, Linked, FlushStateToDisk, chain_vars
<1>6. TypeOK'
  BY <1>4, <1>5 DEF Inv, TypeOK, Sound, FlushStateToDisk, chain_vars
<1>7. QED
  BY <1>4, <1>5, <1>6 DEF Inv

LEMMA DisconnectStepInv ==
    ASSUME Inv, DisconnectStep
    PROVE  Inv'
<1>1. tip # Genesis
  BY AncFacts DEF DisconnectStep, Inv, TypeOK, Target, Linked
<1>2. Sound(disk)' /\ TipUndoable' /\ Closed' /\ tip' \in Linked' /\ Synced'
  BY <1>1, Disconnected DEF DisconnectStep
<1>3. Linked' = Linked
  BY DEF DisconnectStep, Linked
<1>4. TypeOK' /\ Target'
  BY <1>2, <1>3 DEF Inv, TypeOK, Target, Sound, DisconnectStep
<1>5. QED
  BY <1>2, <1>4 DEF Inv

LEMMA DisconnectBlocksInv ==
    ASSUME Inv, DisconnectBlocks \/ DisconnectBlocksEnd
    PROVE  Inv'
<1>1. Closed' /\ Sound(disk)' /\ Synced' /\ TipUndoable' /\ Linked' = Linked
  BY SameChain DEF DisconnectBlocks, DisconnectBlocksEnd, index_vars
<1>2. job' \in Job /\ job'.op \in {"none", "disconnect"}
  <2>1. CASE DisconnectBlocksEnd
    BY <2>1, NoJobType DEF DisconnectBlocksEnd
  <2>2. CASE DisconnectBlocks
    BY <2>2, TreeAssumption, CheckAssumption DEF DisconnectBlocks, Job, JobOf
  <2>3. QED
    BY <2>1, <2>2
<1>3. rep' \in [on : BOOLEAN, left : SUBSET Block]
  <2>1. NoRep \in [on : BOOLEAN, left : SUBSET Block]
    BY DEF NoRep
  <2>2. rep' = rep \/ rep' = NoRep
    BY DEF DisconnectBlocks, DisconnectBlocksEnd
  <2>3. QED
    BY <2>1, <2>2 DEF Inv, TypeOK
<1>4. TypeOK' /\ Target'
  BY <1>1, <1>2, <1>3 DEF Inv, TypeOK, Target, DisconnectBlocks, DisconnectBlocksEnd, index_vars
<1>5. QED
  BY <1>1, <1>4 DEF Inv

LEMMA DisconnectBlocksStepInv ==
    ASSUME Inv, DisconnectBlocksStep
    PROVE  Inv'
<1>1. Sound(disk)' /\ TipUndoable' /\ Closed' /\ tip' \in Linked' /\ Synced'
  BY Disconnected DEF DisconnectBlocksStep
<1>2. Linked' = Linked
  BY DEF DisconnectBlocksStep, Linked
<1>3. job' \in Job /\ job'.op = "disconnect"
  BY CheckAssumption DEF Inv, TypeOK, Job, DisconnectBlocksStep
<1>4. TypeOK' /\ Target'
  BY <1>1, <1>2, <1>3 DEF Inv, TypeOK, Target, Sound, DisconnectBlocksStep
<1>5. QED
  BY <1>1, <1>4 DEF Inv

(* The loop of InvalidateBlock leaves a job only with the block still in   *)
(* the chain.                                                              *)
LEMMA InvalidateFromFacts ==
    ASSUME Inv, NEW b \in index \ {Genesis}, NEW t \in Linked, NEW F, NEW d \in SUBSET index,
           InvalidateFrom(b, t, F, d)
    PROVE  /\ child' \subseteq index /\ cand' \subseteq Linked /\ dirty' \subseteq index /\ d \subseteq dirty'
           /\ job' \in Job /\ active' \in BOOLEAN /\ odd' \subseteq {"short", "torn"}
           /\ job'.op = "invalidate" => job'.to # Genesis /\ job'.to \in Anc[t]
           /\ job'.op # "activate"
<1>1. t \in index /\ b \in Block
  BY AncFacts DEF Inv, TypeOK, Linked
<1>2. CASE b \in Anc[t]
  <2>1. job' = JobOf("invalidate", b, Genesis, 0)
    BY <1>2 DEF InvalidateFrom
  <2>2. job' \in Job /\ job'.op = "invalidate" /\ job'.to = b
    BY <1>1, <2>1, TreeAssumption, CheckAssumption DEF Job, JobOf
  <2>3. QED
    BY <1>1, <1>2, <2>2 DEF InvalidateFrom, Inv, TypeOK
<1>3. CASE b \notin Anc[t]
  BY <1>3, NoJobType DEF InvalidateFrom, AddedAgain, Inv, TypeOK
<1>4. QED
  BY <1>2, <1>3

LEMMA InvalidateBlockInv ==
    ASSUME Inv, NEW b \in Block, InvalidateBlock(b)
    PROVE  Inv'
<1>1. b \in index \ {Genesis} /\ tip \in Linked /\ dirty \cup {b} \subseteq index
  BY DEF InvalidateBlock, Inv, TypeOK
<1>2. /\ child' \subseteq index /\ cand' \subseteq Linked /\ dirty' \subseteq index /\ dirty \subseteq dirty'
      /\ job' \in Job /\ active' \in BOOLEAN /\ odd' \subseteq {"short", "torn"}
      /\ job'.op = "invalidate" => job'.to # Genesis /\ job'.to \in Anc[tip]
      /\ job'.op # "activate"
  <2>1. InvalidateFrom(b, tip, Failed \cup {b}, dirty \cup {b})
    BY DEF InvalidateBlock
  <2>2. QED
    BY <1>1, <2>1, InvalidateFromFacts
<1>3. Closed' /\ Sound(disk)' /\ Synced' /\ TipUndoable' /\ Linked' = Linked
  BY <1>2, SameChain DEF InvalidateBlock
<1>4. ops' \in 0..MaxOps /\ crashes' = crashes
  BY CheckAssumption DEF Inv, TypeOK, InvalidateBlock, Intervene
<1>5. TypeOK' /\ Target'
  BY <1>1, <1>2, <1>3, <1>4 DEF Inv, TypeOK, Target, InvalidateBlock
<1>6. QED
  BY <1>3, <1>5 DEF Inv

LEMMA InvalidateStepInv ==
    ASSUME Inv, InvalidateStep
    PROVE  Inv'
<1>1. tip # Genesis /\ job.to \in index \ {Genesis}
  BY TreeAssumption DEF InvalidateStep, Inv, TypeOK, Target
<1>2. Parent[tip] \in Linked /\ tip' = Parent[tip]
  BY <1>1, ParentOfTip DEF InvalidateStep, DisconnectTip
<1>3. /\ child' \subseteq index /\ cand' \subseteq Linked /\ dirty' \subseteq index
      /\ job' \in Job /\ active' \in BOOLEAN /\ odd' \subseteq {"short", "torn"}
      /\ job'.op = "invalidate" => job'.to # Genesis /\ job'.to \in Anc[Parent[tip]]
      /\ job'.op # "activate"
  <2>1. InvalidateFrom(job.to, Parent[tip], Failed, {})
    BY DEF InvalidateStep
  <2>2. QED
    BY <1>1, <1>2, <2>1, InvalidateFromFacts
<1>4. Sound(disk)' /\ TipUndoable' /\ Closed' /\ tip' \in Linked' /\ Synced' /\ Linked' = Linked
  BY <1>1, <1>3, Disconnected DEF InvalidateStep, Inv, TypeOK, Linked
<1>5. TypeOK' /\ Target'
  BY <1>2, <1>3, <1>4 DEF Inv, TypeOK, Target, Sound, InvalidateStep
<1>6. QED
  BY <1>4, <1>5 DEF Inv

LEMMA ReconsideredFacts ==
    ASSUME Inv, NEW b \in index, Reconsidered(b)
    PROVE  /\ invalid' \subseteq index /\ child' \subseteq index /\ dirty' \subseteq index /\ dirty \subseteq dirty'
           /\ cand' \subseteq Linked /\ odd' \subseteq {"short", "torn"}
BY DEF Reconsidered, Inv, TypeOK, Failed

LEMMA ReconsiderBlockInv ==
    ASSUME Inv, NEW b \in Block, ReconsiderBlock(b)
    PROVE  Inv'
<1>1. /\ invalid' \subseteq index /\ child' \subseteq index /\ dirty' \subseteq index /\ dirty \subseteq dirty'
      /\ cand' \subseteq Linked /\ odd' \subseteq {"short", "torn"}
  BY ReconsideredFacts DEF ReconsiderBlock
<1>2. Closed' /\ Sound(disk)' /\ Synced' /\ TipUndoable' /\ Linked' = Linked
  BY <1>1, SameChain DEF ReconsiderBlock
<1>3. ops' \in 0..MaxOps /\ crashes' = crashes
  BY CheckAssumption DEF Inv, TypeOK, ReconsiderBlock, Intervene
<1>4. TypeOK' /\ Target'
  BY <1>1, <1>2, <1>3 DEF Inv, TypeOK, Target, ReconsiderBlock
<1>5. QED
  BY <1>2, <1>4 DEF Inv

LEMMA ReprocessStepInv ==
    ASSUME Inv, NEW b \in Block, ReprocessStep(b)
    PROVE  Inv'
<1>1. /\ invalid' \subseteq index /\ child' \subseteq index /\ dirty' \subseteq index /\ dirty \subseteq dirty'
      /\ cand' \subseteq Linked /\ odd' \subseteq {"short", "torn"}
  <2>1. CASE b \in index
    BY <2>1, ReconsideredFacts DEF ReprocessStep
  <2>2. CASE b \notin index
    BY <2>2 DEF ReprocessStep, Inv, TypeOK
  <2>3. QED
    BY <2>1, <2>2
<1>2. Closed' /\ Sound(disk)' /\ Synced' /\ TipUndoable' /\ Linked' = Linked
  BY <1>1, SameChain DEF ReprocessStep
<1>3. rep' \in [on : BOOLEAN, left : SUBSET Block]
  BY DEF Inv, TypeOK, ReprocessStep
<1>4. TypeOK' /\ Target'
  BY <1>1, <1>2, <1>3 DEF Inv, TypeOK, Target, ReprocessStep
<1>5. QED
  BY <1>2, <1>4 DEF Inv

LEMMA BlockNotStoredInv ==
    ASSUME Inv, NEW b \in Block, BlockNotStored(b)
    PROVE  Inv'
<1>1. Linked' = Linked /\ Closed' /\ Sound(disk)' /\ TipUndoable' /\ Target'
  BY DEF BlockNotStored, chain_vars, Inv, Linked, Closed, Sound, TipUndoable, Target
<1>2. Synced'
  BY DEF BlockNotStored, Inv, Synced
<1>3. TypeOK'
  BY <1>1 DEF BlockNotStored, chain_vars, Inv, TypeOK
<1>4. QED
  BY <1>1, <1>2, <1>3 DEF Inv

(* Once a block is stored, the linked blocks are those that were and the   *)
(* ones that now have all their ancestors.                                 *)
LEMMA StoreFacts ==
    ASSUME Inv, NEW b \in Block \ {Genesis}, Store(b)
    PROVE  /\ rank' \in [Block -> Nat] /\ Linked \subseteq Linked' /\ cand' \subseteq Linked'
           /\ Closed' /\ \A x \in Linked' : Anc[x] \subseteq data'
<1>1. CASE Parent[b] \notin Linked
  <2>1. rank' = rank /\ cand' = cand /\ data' = data \cup {b}
    BY <1>1 DEF Store
  <2>2. QED
    BY <2>1 DEF Linked, Inv, TypeOK, Closed
<1>2. CASE Parent[b] \in Linked
  <2> DEFINE S == NowLinked(b)
  <2>1. S \in SUBSET Block /\ Linked \in SUBSET Block /\ rank \in [Block -> Nat] /\ data \subseteq Block
    BY DEF NowLinked, Linked, Inv, TypeOK
  <2>2. PICK o \in Orders : rank' = Ranked(S, Linked, o)
    BY <1>2 DEF Store
  <2>3. cand' \subseteq cand \cup S /\ data' = data \cup {b}
    BY <1>2 DEF Store
  <2>4. /\ rank' \in [Block -> Nat]
        /\ \A x \in S : rank'[x] # 0
        /\ \A x \in Block \ S : rank'[x] = IF x \in Linked THEN rank[x] ELSE 0
    <3> HIDE DEF S
    <3> QED
      BY <2>1, <2>2, RankedFacts
  <2>5. \A x \in S : rank[x] = 0 /\ b \in Anc[x] /\ Anc[x] \subseteq Linked \cup data \cup {b}
    BY DEF NowLinked
  <2>6. Linked' = Linked \cup S
    <3> HIDE DEF S
    <3> QED
      BY <2>1, <2>4, <2>5 DEF Linked
  <2>7. \A x \in Linked : Anc[x] \subseteq data /\ Anc[x] \subseteq Linked /\ x \in data
    BY <2>1, AncFacts DEF Inv, TypeOK, Closed
  <2>8. \A x \in Linked' : Anc[x] \subseteq data'
    BY <2>3, <2>5, <2>6, <2>7
  <2>9. ASSUME NEW x \in S, NEW a \in Anc[x]
        PROVE  a \in Linked \cup S
    <3> SUFFICES ASSUME a \notin Linked PROVE a \in S
      OBVIOUS
    <3>1. a \in Block /\ rank[a] = 0 /\ a \in data \cup {b}
      BY <2>1, <2>5, <2>9, AncFacts DEF Linked
    <3>2. b \in Anc[a]
      <4>1. a \in Anc[b] \/ b \in Anc[a]
        BY <2>1, <2>5, <2>9, TreeAssumption
      <4>2. Anc[b] = {b} \cup Anc[Parent[b]] /\ Anc[Parent[b]] \subseteq Linked
        BY <1>2, <2>7, AncFacts
      <4>3. QED
        BY <4>1, <4>2, AncFacts
    <3>3. Anc[a] \subseteq Anc[x]
      BY <2>1, <2>9, TreeAssumption
    <3>4. QED
      BY <2>5, <2>9, <3>1, <3>2, <3>3 DEF NowLinked
  <2>10. Closed'
    BY <2>6, <2>7, <2>9 DEF Closed
  <2>11. cand' \subseteq Linked'
    BY <2>3, <2>6 DEF Inv, TypeOK
  <2>12. QED
    BY <2>4, <2>6, <2>8, <2>10, <2>11
<1>3. QED
  BY <1>1, <1>2

LEMMA BlockStoredInv ==
    ASSUME Inv, NEW b \in Block, BlockStored(b)
    PROVE  Inv'
<1>1. b # Genesis /\ Store(b) /\ data' = data \cup {b}
  BY DEF BlockStored, Acceptable, Store
<1>2. /\ rank' \in [Block -> Nat] /\ Linked \subseteq Linked' /\ cand' \subseteq Linked'
      /\ Closed' /\ \A x \in Linked' : Anc[x] \subseteq data'
  BY <1>1, StoreFacts
<1>3. Sound(disk)' /\ TipUndoable' /\ Target'
  BY <1>2 DEF BlockStored, Inv, Sound, TipUndoable, Target
<1>4. Synced'
  BY <1>1 DEF BlockStored, Inv, Synced
<1>5. TypeOK'
  BY <1>1, <1>2 DEF BlockStored, Inv, TypeOK
<1>6. QED
  BY <1>2, <1>3, <1>4, <1>5 DEF Inv

LEMMA LoadFacts ==
    ASSUME Inv, NEW d, Sound(d), Load(d)
    PROVE  /\ Sound(disk)' /\ Closed' /\ Synced' /\ TipUndoable'
           /\ (/\ index \subseteq Block /\ data \subseteq index /\ undo \subseteq data
               /\ invalid \subseteq index /\ child \subseteq index /\ dirty \subseteq index
               /\ rank \in [Block -> Nat] /\ \A b \in Linked : Anc[b] \subseteq data
               /\ cand \subseteq Linked /\ tip \in Linked)'
           /\ active' \in BOOLEAN /\ up' \in BOOLEAN /\ odd' \subseteq {"short", "torn"}
<1> DEFINE L == {b \in d.data : Anc[b] \subseteq d.data}
<1>1. /\ index' = d.index /\ data' = d.data /\ undo' = d.undo /\ invalid' = d.invalid /\ child' = d.child
      /\ dirty' = {} /\ tip' = d.tip /\ disk' = d /\ cand' \subseteq L
      /\ odd' \subseteq {"short", "torn"}
  BY DEF Load
<1>2. active' \in BOOLEAN /\ up' \in BOOLEAN
  BY DEF Load
<1>3. PICK o \in Orders : rank' = Ranked(L, {}, o)
  BY DEF Load
<1>4. d.index \subseteq Block /\ d.data \subseteq Block /\ d.tip \in Block /\ L \in SUBSET Block
  BY DEF Sound, Disk
<1>5. /\ rank' \in [Block -> Nat]
      /\ \A x \in L : rank'[x] # 0
      /\ \A x \in Block \ L : rank'[x] = 0
  <2>1. rank \in [Block -> Nat]
    BY DEF Inv, TypeOK
  <2> HIDE DEF L
  <2>2. {} \in SUBSET Block
    OBVIOUS
  <2>3. /\ Ranked(L, {}, o) \in [Block -> Nat]
        /\ \A x \in L : Ranked(L, {}, o)[x] # 0
        /\ \A x \in Block \ L : Ranked(L, {}, o)[x] = IF x \in {} THEN rank[x] ELSE 0
    BY <1>4, <2>1, <2>2, RankedFacts
  <2>4. QED
    BY <1>3, <2>3
<1>6. Linked' = L
  <2> HIDE DEF L
  <2> QED
    BY <1>4, <1>5 DEF Linked
<1>7. tip' \in L
  BY <1>1, <1>4, AncFacts DEF Sound
<1>8. Closed'
  <2>1. ASSUME NEW b \in L, NEW a \in Anc[b]
        PROVE  a \in L
    BY <1>4, TreeAssumption
  <2>2. QED
    BY <1>6, <2>1 DEF Closed
<1>9. Sound(disk)' /\ Synced' /\ TipUndoable'
  BY <1>1 DEF Sound, Synced, TipUndoable
<1>10. QED
  BY <1>1, <1>2, <1>4, <1>5, <1>6, <1>7, <1>8, <1>9 DEF Sound

LEMMA CrashInv ==
    ASSUME Inv, Crash
    PROVE  Inv'
<1>1. PICK d \in {disk, BetweenWrites} : Load(d)
  BY DEF Crash
<1>2. Sound(d)
  BY Images DEF Inv
<1>3. /\ Sound(disk)' /\ Closed' /\ Synced' /\ TipUndoable'
      /\ (/\ index \subseteq Block /\ data \subseteq index /\ undo \subseteq data
          /\ invalid \subseteq index /\ child \subseteq index /\ dirty \subseteq index
          /\ rank \in [Block -> Nat] /\ \A b \in Linked : Anc[b] \subseteq data
          /\ cand \subseteq Linked /\ tip \in Linked)'
      /\ active' \in BOOLEAN /\ up' \in BOOLEAN /\ odd' \subseteq {"short", "torn"}
  BY <1>1, <1>2, LoadFacts
<1>4. ops' \in 0..MaxOps /\ crashes' \in 0..MaxCrash
  BY CheckAssumption DEF Crash, Inv, TypeOK
<1>5. rep' \in [on : BOOLEAN, left : SUBSET Block] /\ job' \in Job /\ job'.op = "none"
  BY NoJobType DEF Crash, NoRep
<1>6. refused' = {} /\ rejected' = {}
  BY DEF Crash
<1>7. TypeOK' /\ Target'
  BY <1>3, <1>4, <1>5, <1>6 DEF TypeOK, Target, Sound
<1>8. QED
  BY <1>3, <1>7 DEF Inv

LEMMA NextInv == Inv /\ [Next]_vars => Inv'
<1> SUFFICES ASSUME Inv, [Next]_vars PROVE Inv'
  OBVIOUS
<1>1. CASE UNCHANGED vars
  BY <1>1 DEF vars, Inv, TypeOK, Closed, Sound, Synced, TipUndoable, Target, Linked
<1>2. ASSUME NEW b \in Block, BlockRefused(b) PROVE Inv'
  BY <1>2, BlockRefusedInv
<1>3. ASSUME NEW b \in Block, BlockNotStored(b) PROVE Inv'
  BY <1>3, BlockNotStoredInv
<1>4. ASSUME NEW b \in Block, BlockStored(b) PROVE Inv'
  BY <1>4, BlockStoredInv
<1>5. ASSUME NEW b \in Block, InvalidateBlock(b) PROVE Inv'
  BY <1>5, InvalidateBlockInv
<1>6. ASSUME NEW b \in Block, ReconsiderBlock(b) PROVE Inv'
  BY <1>6, ReconsiderBlockInv
<1>7. ASSUME NEW R \in SUBSET Refusable, ChecksChange(R) PROVE Inv'
  BY <1>7, ChecksChangeInv
<1>8. ASSUME NEW R \in SUBSET rejected, ReprocessBlocks(R) PROVE Inv'
  BY <1>8, ReprocessBlocksInv
<1>9. CASE FlushStateToDisk
  BY <1>9, FlushInv
<1>10. CASE Activate
  <2>1. ASSUME NEW b \in Block, ConnectStep(b) PROVE Inv'
    BY <2>1, ConnectStepInv
  <2>2. ASSUME NEW b \in Block, ConnectFails(b) PROVE Inv'
    BY <2>2, ConnectFailsInv
  <2>3. QED
    BY <1>10, <2>1, <2>2, NothingToDoInv, BeginStepInv, DisconnectStepInv DEF Activate
<1>11. CASE Others
  <2>1. ASSUME NEW b \in Block, ReprocessStep(b) PROVE Inv'
    BY <2>1, ReprocessStepInv
  <2>2. QED
    BY <1>11, <2>1, InvalidateStepInv, DisconnectBlocksInv, DisconnectBlocksStepInv DEF Others
<1>12. CASE Crash
  BY <1>12, CrashInv
<1>13. QED
  BY <1>1, <1>2, <1>3, <1>4, <1>5, <1>6, <1>7, <1>8, <1>9, <1>10, <1>11, <1>12 DEF Next

(* The index, the tip and the candidates stay consistent: a linked block   *)
(* has its data and its ancestors' (ReceivedBlockTransactions,             *)
(* LoadBlockIndexDB), and only linked blocks are candidates.               *)
THEOREM TypeCorrect == Spec => []TypeOK
<1>1. Inv => TypeOK
  BY DEF Inv
<1>2. QED
  BY <1>1, InitInv, NextInv, PTL DEF Spec

(* Whenever the process dies, also between the two writes of               *)
(* FlushStateToDisk and in the middle of a reorganisation, an invalidation *)
(* or a reprocessing, the stored index has the chain of the stored coins,  *)
(* with undo data: LoadBlockIndexDB finds the tip and DisconnectBlock can  *)
(* take every block back.                                                  *)
THEOREM DiskCorrect == Spec => []DiskUsable
<1>1. Inv => DiskUsable
  BY DEF Inv, Sound, DiskUsable
<1>2. QED
  BY <1>1, InitInv, NextInv, PTL DEF Spec

-----------------------------------------------------------------------------
(* The chain a node rests on.  A block is good when its chain has no       *)
(* failed block, and kept when it was connected before.  Every linked      *)
(* block without a flag is a candidate or covered by a kept one no worse:  *)
(* what PruneBlockIndexCandidates drops is worse than a tip, and a tip     *)
(* that is disconnected stays a candidate until it fails again.            *)
Good(x) == Anc[x] \cap Failed = {}
Kept(c) == Good(c) /\ Anc[c] \ {Genesis} \subseteq undo
Covered(x) == \E c \in cand : Kept(c) /\ ~ Worse(c, x)
BestIs(t) == \A x \in Linked : Good(x) => Work[x] <= Work[t]

(* nSequenceId grows: a rank is at most the number of blocks of that work. *)
Ranks == \A x \in Linked : rank[x] <= Cardinality(Level(Linked, x))

(* Flags in the active chain are those InvalidateBlock is about to leave.  *)
Marks ==
    "torn" \notin odd =>
        /\ job.op # "invalidate" => Good(tip)
        /\ job.op = "invalidate" => \A x \in Anc[tip] \cap Failed : job.to \in Anc[x]
        /\ job.op = "activate" => Good(job.to)

Candidates ==
    odd = {} =>
        /\ job.op # "invalidate" => \A x \in Linked \ Failed : x \in cand \/ Covered(x)
        /\ job.op = "activate" => BestIs(job.to)
        /\ Quiet => BestIs(tip)

RestInv ==
    /\ Ranks /\ Marks /\ Candidates
    /\ job.op = "activate" => active
    /\ job.op = "invalidate" => job.to \in invalid

(* CBlockIndexWorkComparator orders the blocks.                            *)
LEMMA WorseFacts ==
    ASSUME rank \in [Block -> Nat], NEW x \in Block, NEW y \in Block, NEW z \in Block
    PROVE  /\ ~ Worse(x, x)
           /\ Worse(x, y) => ~ Worse(y, x)
           /\ ~ Worse(x, y) => Work[y] <= Work[x]
           /\ ~ Worse(x, y) /\ ~ Worse(y, z) => ~ Worse(x, z)
BY WorkAssumption DEF Worse

(* The blocks of S come after those of T of the same work.                 *)
LEMMA RankedOrder ==
    ASSUME NEW S \in SUBSET Block, NEW T \in SUBSET Block, S \cap T = {}, NEW o \in Orders,
           rank \in [Block -> Nat], \A x \in T : rank[x] <= Cardinality(Level(T, x))
    PROVE  /\ \A x \in S \cup T : Ranked(S, T, o)[x] <= Cardinality(Level(S \cup T, x))
           /\ \A x \in S, y \in T : Work[x] = Work[y] => Ranked(S, T, o)[y] < Ranked(S, T, o)[x]
<1> DEFINE low(x) == {y \in Level(S, x) : o[y] <= o[x]}
           r == Ranked(S, T, o)
<1>1. /\ r \in [Block -> Nat] /\ \A x \in S : r[x] # 0
      /\ \A x \in Block \ S : r[x] = IF x \in T THEN rank[x] ELSE 0
  BY RankedFacts
<1>2. \A x \in S : r[x] = Cardinality(Level(T, x)) + Cardinality(low(x))  BY DEF Ranked
<1>3. o \in [Block -> Nat] /\ IsFiniteSet(Block)  BY OrderAssumption, TreeAssumption
<1>4. ASSUME NEW x \in Block
      PROVE  /\ Cardinality(Level(T, x)) \in Nat /\ Cardinality(Level(S, x)) \in Nat /\ Cardinality(low(x)) \in Nat
             /\ Cardinality(Level(S \cup T, x)) = Cardinality(Level(T, x)) + Cardinality(Level(S, x))
             /\ Cardinality(low(x)) <= Cardinality(Level(S, x))
  <2>1. /\ Level(T, x) \subseteq Block /\ Level(S, x) \subseteq Block /\ low(x) \subseteq Level(S, x)
        /\ Level(S \cup T, x) = Level(T, x) \cup Level(S, x) /\ Level(T, x) \cap Level(S, x) = {}
    BY DEF Level
  <2>2. IsFiniteSet(Level(T, x)) /\ IsFiniteSet(Level(S, x)) /\ IsFiniteSet(low(x))
    BY <2>1, <1>3, FS_Subset
  <2> HIDE DEF low
  <2>3. Cardinality(low(x)) <= Cardinality(Level(S, x))  BY <2>1, <2>2, FS_Subset
  <2>4. Cardinality(Level(T, x)) \in Nat /\ Cardinality(Level(S, x)) \in Nat /\ Cardinality(low(x)) \in Nat
    BY <2>2, FS_CardinalityType
  <2>5. Cardinality({}) = 0  BY FS_EmptySet
  <2>6. Cardinality(Level(S \cup T, x)) = Cardinality(Level(T, x)) + Cardinality(Level(S, x)) - Cardinality({})
    <3> DEFINE A == Level(T, x)
               B == Level(S, x)
    <3>1. IsFiniteSet(A) /\ IsFiniteSet(B) /\ A \cap B = {}  BY <2>1, <2>2
    <3>2. Level(S \cup T, x) = A \cup B  BY <2>1
    <3> HIDE DEF A, B
    <3>3. Cardinality(A \cup B) = Cardinality(A) + Cardinality(B) - Cardinality(A \cap B)  BY ONLY <3>1, FS_Union
    <3> QED  BY <3>1, <3>2, <3>3 DEF A, B
  <2> QED  BY <2>3, <2>4, <2>5, <2>6
<1>5. ASSUME NEW x \in S  PROVE x \in low(x) /\ Cardinality(low(x)) > 0
  <2>1. x \in low(x) /\ low(x) \subseteq Block  BY <1>3 DEF Level
  <2>2. IsFiniteSet(low(x))  BY <2>1, <1>3, FS_Subset
  <2> HIDE DEF low
  <2>3. Cardinality(low(x)) # 0  BY <2>1, <2>2, FS_EmptySet
  <2> QED  BY <2>1, <2>3, <1>4
<1> HIDE DEF low, r
<1>6. ASSUME NEW x \in S \cup T  PROVE r[x] <= Cardinality(Level(S \cup T, x))
  <2>0. /\ Cardinality(Level(T, x)) \in Nat /\ Cardinality(Level(S, x)) \in Nat /\ Cardinality(low(x)) \in Nat
        /\ Cardinality(Level(S \cup T, x)) = Cardinality(Level(T, x)) + Cardinality(Level(S, x))
        /\ Cardinality(low(x)) <= Cardinality(Level(S, x))
    BY <1>4
  <2>1. CASE x \in S
    <3>1. r[x] = Cardinality(Level(T, x)) + Cardinality(low(x))  BY <2>1, <1>2
    <3> QED  BY ONLY <3>1, <2>0
  <2>2. CASE x \notin S
    <3>1. r[x] = rank[x] /\ rank[x] <= Cardinality(Level(T, x)) /\ rank[x] \in Nat  BY <2>2, <1>1
    <3> QED  BY ONLY <3>1, <2>0
  <2> QED  BY <2>1, <2>2
<1>7. ASSUME NEW x \in S, NEW y \in T, Work[x] = Work[y]  PROVE r[y] < r[x]
  <2>1. Level(T, x) = Level(T, y)  BY <1>7 DEF Level
  <2>2. r[y] = rank[y] /\ rank[y] \in Nat  BY <1>1
  <2>3. rank[y] <= Cardinality(Level(T, x))  BY <2>1
  <2> QED  BY <2>2, <2>3, <1>2, <1>4, <1>5
<1> QED  BY <1>6, <1>7 DEF r

(* The tip, if it is good, is covered.                                     *)
LEMMA TipCovered ==
    ASSUME Inv, Good(tip), \A x \in Linked \ Failed : x \in cand \/ Covered(x)
    PROVE  Covered(tip)
<1>1. tip \in Block /\ tip \in Linked \ Failed  BY AncFacts DEF Inv, TypeOK, Linked, Good
<1>2. Kept(tip)  BY DEF Kept, Inv, TipUndoable
<1>3. ~ Worse(tip, tip)  BY <1>1, WorseFacts DEF Inv, TypeOK
<1> QED  BY <1>1, <1>2, <1>3 DEF Covered

(* What is no better than a covered block is covered.                      *)
LEMMA CoveredBelow ==
    ASSUME Inv, NEW x \in Block, NEW y \in Block, Covered(y), ~ Worse(y, x)
    PROVE  Covered(x)
<1>1. PICK c \in cand : Kept(c) /\ ~ Worse(c, y)  BY DEF Covered
<1>2. c \in Block  BY DEF Inv, TypeOK, Linked
<1>3. ~ Worse(c, x)  BY <1>1, <1>2, WorseFacts DEF Inv, TypeOK
<1> QED  BY <1>1, <1>3 DEF Covered

(* Steps that leave the chain, the flags and the candidates alone.         *)
LEMMA SameRest ==
    ASSUME RestInv, UNCHANGED <<undo, invalid, child, rank, cand, tip, job, odd, active>>, Quiet' => Quiet
    PROVE  RestInv'
<1>1. Linked' = Linked /\ Failed' = Failed  BY DEF Linked, Failed
<1>2. Ranks' /\ Marks'  BY <1>1 DEF RestInv, Ranks, Marks, Good, Level
<1>3. /\ \A x \in Block : Covered(x)' <=> Covered(x)
      /\ \A x : BestIs(x)' <=> BestIs(x)
  BY <1>1 DEF Covered, Kept, Good, Worse, BestIs
<1>4. Candidates'
  BY <1>1, <1>3 DEF RestInv, Candidates, Linked
<1> QED  BY <1>2, <1>4 DEF RestInv

(* New flags that are not in the chains of kept blocks, the tip's and the  *)
(* job's leave what is claimed of those, while no handler is at work.      *)
LEMMA FlaggedRest ==
    ASSUME Inv, RestInv, NEW F, Failed' = Failed \cup F, UNCHANGED <<undo, rank, tip, odd>>,
           job.op # "invalidate",
           \A c \in Linked : Kept(c) => Anc[c] \cap F = {},
           cand \ F \subseteq cand', cand' \subseteq cand,
           \A c \in cand : Kept(c) => c \in cand'
    PROVE  /\ Linked' = Linked /\ Ranks'
           /\ "torn" \notin odd' => Good(tip)'
           /\ odd' = {} => \A x \in (Linked \ Failed)' : x \in cand' \/ Covered(x)'
           /\ \A x : Good(x)' => Good(x)
<1>1. Linked' = Linked /\ Ranks'  BY DEF Linked, Ranks, Level, RestInv
<1>2. ASSUME NEW c \in Linked, Kept(c)  PROVE Kept(c)'
  <2>1. Anc[c] \cap F = {}  BY <1>2
  <2> QED  BY <1>2, <2>1 DEF Kept, Good
<1>3. "torn" \notin odd' => Good(tip)'
  <2> SUFFICES ASSUME "torn" \notin odd  PROVE Good(tip)'
    OBVIOUS
  <2>1. tip \in Linked /\ Kept(tip)  BY DEF Kept, RestInv, Marks, Inv, TypeOK, TipUndoable
  <2>2. Kept(tip)'
    <3>1. Anc[tip] \cap F = {}  BY <2>1
    <3> QED  BY <2>1, <3>1 DEF Kept, Good
  <2> QED  BY <2>2 DEF Kept
<1>4. ASSUME odd' = {}, NEW x \in Linked', x \notin Failed', x \notin cand'  PROVE Covered(x)'
  <2>1. x \in Linked \ Failed /\ x \notin cand  BY <1>1, <1>4
  <2>2. Covered(x)  BY <2>1, <1>4 DEF RestInv, Candidates
  <2>3. PICK c \in cand : Kept(c) /\ ~ Worse(c, x)  BY <2>2 DEF Covered
  <2>4. c \in cand' /\ c \in Linked  BY <2>3 DEF Inv, TypeOK
  <2>5. Kept(c)' /\ ~ Worse(c, x)'  BY <1>2, <2>3, <2>4 DEF Worse
  <2> QED  BY <2>4, <2>5 DEF Covered
<1>5. \A x : Good(x)' => Good(x)  BY DEF Good
<1> QED  BY <1>1, <1>3, <1>4, <1>5

LEMMA NoJobRest ==
    ASSUME RestInv, job.op # "invalidate"
    PROVE  /\ "torn" \notin odd => Good(tip)
           /\ odd = {} => \A x \in Linked \ Failed : x \in cand \/ Covered(x)
BY DEF RestInv, Marks, Candidates

(* What it takes, when no handler is left at work.                         *)
LEMMA FreeRest ==
    ASSUME Ranks', job' = NoJob, "torn" \notin odd' => Good(tip)',
           odd' = {} => \A x \in (Linked \ Failed)' : x \in cand' \/ Covered(x)',
           odd' = {} /\ Quiet' => BestIs(tip)'
    PROVE  RestInv'
BY NoJobType DEF RestInv, Marks, Candidates

LEMMA BlockNotStoredRest ==
    ASSUME Inv, RestInv, NEW b \in Block, BlockNotStored(b)
    PROVE  RestInv'
<1> DEFINE F == IF b \in NotContextual THEN {b} ELSE {}
<1>1. /\ Failed' = Failed \cup F /\ UNCHANGED <<undo, rank, tip, odd, cand, job, active, up, rep>>
      /\ job = NoJob /\ b \notin data /\ F \subseteq {b}
  BY DEF BlockNotStored, chain_vars, Failed, Acceptable, Free
<1>2. job.op # "invalidate"  BY <1>1, NoJobType
<1>3. \A c \in Linked : Anc[c] \cap F = {}  BY <1>1 DEF Inv, TypeOK
<1> HIDE DEF F
<1>4. /\ Linked' = Linked /\ Ranks'
      /\ "torn" \notin odd' => Good(tip)'
      /\ odd' = {} => \A x \in (Linked \ Failed)' : x \in cand' \/ Covered(x)'
      /\ \A x : Good(x)' => Good(x)
  BY <1>1, <1>2, <1>3, FlaggedRest
<1>5. odd' = {} /\ Quiet' => BestIs(tip)'
  BY <1>1, <1>4 DEF RestInv, Candidates, Quiet, BestIs
<1> QED  BY <1>1, <1>4, <1>5, FreeRest

(* FindMostWorkChain flags and drops only what follows a failed block.     *)
LEMMA FindRest ==
    ASSUME Inv, RestInv, FindMostWorkChain, job = NoJob, UNCHANGED <<undo, invalid, rank, tip, odd>>
    PROVE  /\ Linked' = Linked /\ Ranks'
           /\ "torn" \notin odd' => Good(tip)'
           /\ odd' = {} => \A x \in (Linked \ Failed)' : x \in cand' \/ Covered(x)'
           /\ \A x : Good(x)' => Good(x)
           /\ \A x \in Block : Good(x) => Good(x)'
<1>1. /\ child' = child \cup (Spoiled \ Failed) /\ cand' = cand \ Spoiled  BY DEF FindMostWorkChain
<1>2. Failed' = Failed \cup Spoiled  BY <1>1 DEF Failed
<1>3. ASSUME NEW x \in Block, Good(x), NEW a \in Anc[x] \cap Spoiled  PROVE FALSE
  <2>1. PICK c \in Visited : a \in Path(c) /\ Failed \cap Path(c) \subseteq Anc[a]  BY DEF Spoiled
  <2>2. PICK f \in Failed : f \in Path(c)  BY DEF Visited, Usable
  <2>3. f \in Anc[a] /\ Anc[a] \subseteq Anc[x]  BY <2>1, <2>2, TreeAssumption
  <2> QED  BY <1>3, <2>3, <2>2 DEF Good
<1>4. \A x \in Block : Good(x) => Anc[x] \cap Spoiled = {}  BY <1>3
<1>5. \A c \in Linked : c \in Block /\ c \in Anc[c]  BY AncFacts DEF Linked
<1>6. \A c \in Linked : Kept(c) => Anc[c] \cap Spoiled = {}  BY <1>4, <1>5 DEF Kept
<1>7. \A c \in cand : Kept(c) => c \in cand'  BY <1>1, <1>5, <1>6 DEF Inv, TypeOK
<1>8. job.op # "invalidate"  BY NoJobType
<1>9. cand \ Spoiled \subseteq cand' /\ cand' \subseteq cand  BY <1>1
<1>10. /\ Linked' = Linked /\ Ranks'
       /\ "torn" \notin odd' => Good(tip)'
       /\ odd' = {} => \A x \in (Linked \ Failed)' : x \in cand' \/ Covered(x)'
       /\ \A x : Good(x)' => Good(x)
  BY <1>2, <1>6, <1>7, <1>8, <1>9, FlaggedRest
<1>11. \A x \in Block : Good(x) => Good(x)'  BY <1>2, <1>4 DEF Good
<1> QED  BY <1>10, <1>11

(* No good block beats the candidate that FindMostWorkChain returns.       *)
LEMMA MostWorkBest ==
    ASSUME Inv, RestInv, job = NoJob, odd = {}, NEW c \in MostWork
    PROVE  BestIs(c)
<1> SUFFICES ASSUME NEW x \in Linked, Good(x)  PROVE Work[x] <= Work[c]
  BY DEF BestIs
<1>1. x \in Block /\ c \in Block /\ x \notin Failed  BY AncFacts DEF Good, MostWork, Usable, Inv, TypeOK, Linked
<1>2. \A d \in cand : Good(d) => d \in Usable /\ ~ Worse(c, d)  BY DEF Good, Usable, Path, MostWork
<1>3. rank \in [Block -> Nat]  BY DEF Inv, TypeOK
<1>4. CASE x \in cand
  BY <1>1, <1>2, <1>3, <1>4, WorseFacts
<1>5. CASE Covered(x)
  <2>1. PICK d \in cand : Kept(d) /\ ~ Worse(d, x)  BY <1>5 DEF Covered
  <2>2. d \in Block /\ ~ Worse(c, d)  BY <1>2, <2>1 DEF Inv, TypeOK, Linked, Kept
  <2>3. ~ Worse(c, x)  BY <1>1, <1>3, <2>1, <2>2, WorseFacts
  <2> QED  BY <1>1, <1>3, <2>3, WorseFacts
<1> QED  BY <1>1, <1>4, <1>5, NoJobType, NoJobRest

LEMMA NothingToDoRest ==
    ASSUME Inv, RestInv, NothingToDo
    PROVE  RestInv'
<1>1. /\ FindMostWorkChain /\ job = NoJob /\ job' = NoJob /\ UNCHANGED <<undo, invalid, rank, tip, odd>>
      /\ MostWork \subseteq {tip} /\ up' = (MostWork # {})
  BY DEF NothingToDo, Free
<1>2. /\ Linked' = Linked /\ Ranks'
      /\ "torn" \notin odd' => Good(tip)'
      /\ odd' = {} => \A x \in (Linked \ Failed)' : x \in cand' \/ Covered(x)'
      /\ \A x : Good(x)' => Good(x)
  BY <1>1, FindRest
<1>3. ASSUME odd' = {}, Quiet'  PROVE BestIs(tip)'
  <2>1. tip \in MostWork /\ odd = {}  BY <1>1, <1>3 DEF Quiet
  <2>2. BestIs(tip)  BY <1>1, <2>1, MostWorkBest
  <2> QED  BY <1>1, <1>2, <2>2 DEF BestIs
<1> QED  BY <1>1, <1>2, <1>3, FreeRest

LEMMA BeginStepRest ==
    ASSUME Inv, RestInv, BeginStep
    PROVE  RestInv'
<1>1. /\ FindMostWorkChain /\ job = NoJob /\ active /\ UNCHANGED <<undo, invalid, rank, tip, odd, active>>
  BY DEF BeginStep, Free
<1>2. /\ Linked' = Linked /\ Ranks'
      /\ "torn" \notin odd' => Good(tip)'
      /\ odd' = {} => \A x \in (Linked \ Failed)' : x \in cand' \/ Covered(x)'
      /\ \A x : Good(x)' => Good(x)
      /\ \A x \in Block : Good(x) => Good(x)'
  BY <1>1, FindRest
<1>3. PICK c \in MostWork : job' = JobOf("activate", c, tip, 0)  BY DEF BeginStep
<1>4. job'.op = "activate" /\ job'.to = c /\ c \in Block /\ Path(c) \cap Failed = {}
  BY <1>3 DEF JobOf, MostWork, Usable, Inv, TypeOK, Linked
<1>5. "torn" \notin odd => Good(c)
  BY <1>1, <1>4, NoJobType, NoJobRest DEF Good, Path
<1>6. odd = {} => BestIs(c)'
  BY <1>1, <1>2, MostWorkBest DEF BestIs
<1>7. ~ Quiet'  BY <1>4, NoJobType DEF Quiet
<1>8. Marks'  BY <1>1, <1>2, <1>4, <1>5 DEF Marks
<1>9. Candidates'  BY <1>1, <1>2, <1>4, <1>6, <1>7 DEF Candidates
<1> QED  BY <1>1, <1>2, <1>4, <1>8, <1>9 DEF RestInv

(* Blocks that are linked now are candidates, or no better than the tip.   *)
LEMMA BlockStoredRest ==
    ASSUME Inv, RestInv, NEW b \in Block, BlockStored(b)
    PROVE  RestInv'
<1>1. /\ Store(b) /\ job = NoJob /\ job' = NoJob /\ active' = TRUE /\ b # Genesis
      /\ UNCHANGED <<undo, invalid, child, tip, odd>>
  BY DEF BlockStored, Acceptable, Free
<1>2. Failed' = Failed /\ \A x : (Good(x)' <=> Good(x)) /\ (Kept(x)' <=> Kept(x))
  BY <1>1 DEF Failed, Good, Kept
<1>3. ~ Quiet'  BY <1>1 DEF Quiet
<1>4. /\ "torn" \notin odd => Good(tip)
      /\ odd = {} => \A x \in Linked \ Failed : x \in cand \/ Covered(x)
  BY <1>1, NoJobType, NoJobRest
<1>5. CASE Parent[b] \notin Linked
  <2>1. rank' = rank /\ cand' = cand  BY <1>5, <1>1 DEF Store
  <2>2. Linked' = Linked /\ Ranks'  BY <2>1 DEF Linked, Ranks, Level, RestInv
  <2>3. \A x : Covered(x)' <=> Covered(x)  BY <1>2, <2>1 DEF Covered, Worse
  <2>4. odd' = {} => \A x \in (Linked \ Failed)' : x \in cand' \/ Covered(x)'  BY <1>1, <1>2, <1>4, <2>1, <2>2, <2>3
  <2> QED  BY <1>1, <1>2, <1>3, <1>4, <2>2, <2>4, FreeRest
<1>6. CASE Parent[b] \in Linked
  <2> DEFINE S == NowLinked(b)
  <2>1. PICK o \in Orders : rank' = Ranked(S, Linked, o)  BY <1>1, <1>6 DEF Store
  <2>2. cand' = cand \cup {x \in S : Work[x] > Work[tip]}  BY <1>1, <1>6 DEF Store
  <2>3. /\ S \in SUBSET Block /\ Linked \in SUBSET Block /\ S \cap Linked = {} /\ rank \in [Block -> Nat]
        /\ \A x \in Linked : rank[x] <= Cardinality(Level(Linked, x))
    BY DEF NowLinked, Linked, Inv, TypeOK, RestInv, Ranks
  <2> HIDE DEF S
  <2>4. /\ rank' \in [Block -> Nat] /\ \A x \in S : rank'[x] # 0
        /\ \A x \in Block \ S : rank'[x] = IF x \in Linked THEN rank[x] ELSE 0
    BY <2>1, <2>3, RankedFacts
  <2>5. /\ \A x \in S \cup Linked : rank'[x] <= Cardinality(Level(S \cup Linked, x))
        /\ \A x \in S, y \in Linked : Work[x] = Work[y] => rank'[y] < rank'[x]
    BY <2>1, <2>3, RankedOrder
  <2>6. Linked' = S \cup Linked  BY <2>3, <2>4 DEF Linked
  <2>7. Ranks'  BY <2>5, <2>6 DEF Ranks, Level
  <2>8. \A c, x \in Linked : Worse(c, x)' <=> Worse(c, x)  BY <2>3, <2>4 DEF Worse
  <2>9. ASSUME NEW x \in Linked, Covered(x)  PROVE Covered(x)'
    <3>1. PICK c \in cand : Kept(c) /\ ~ Worse(c, x)  BY <2>9 DEF Covered
    <3>2. c \in Linked /\ c \in cand'  BY <2>2 DEF Inv, TypeOK
    <3>3. Kept(c)' /\ ~ Worse(c, x)'  BY <1>2, <2>8, <3>1, <3>2
    <3> QED  BY <3>2, <3>3 DEF Covered
  <2>10. ASSUME odd = {}, NEW x \in S, Work[x] <= Work[tip]  PROVE Covered(x)'
    <3>0. PICK t \in Linked : t = tip  BY DEF Inv, TypeOK
    <3>1. Covered(t)  BY <1>4, <2>10, <3>0, TipCovered
    <3>2. PICK c \in cand' : Kept(c)' /\ ~ Worse(c, t)'
      <4>1. Covered(t)'  BY <2>9, <3>1
      <4> QED  BY <4>1 DEF Covered
    <3>3. rank'[t] < rank'[x] \/ Work[x] # Work[t]  BY <2>5
    <3>4. t \in Block /\ x \in Block /\ Work[t] \in Nat /\ Work[x] \in Nat
      BY <2>3, WorkAssumption
    <3>5. rank'[t] \in Nat /\ rank'[x] \in Nat  BY <2>4, <3>4
    <3>6. ~ Worse(t, x)'  BY <2>10, <3>0, <3>3, <3>4, <3>5 DEF Worse
    <3>7. c \in Block  BY <1>1, StoreFacts DEF Linked
    <3>8. ~ Worse(c, x)'
      <4>1. Work[c] \in Nat /\ rank'[c] \in Nat  BY <3>7, <2>4, WorkAssumption
      <4> QED  BY <4>1, <3>2, <3>4, <3>5, <3>6 DEF Worse
    <3> QED  BY <3>2, <3>8 DEF Covered
  <2>11. ASSUME odd' = {}, NEW x \in Linked', x \notin Failed', x \notin cand'  PROVE Covered(x)'
    <3>1. CASE x \in Linked  BY <1>1, <1>2, <1>4, <2>2, <2>9, <2>11, <3>1
    <3>2. CASE x \in S
      <4>1. Work[x] <= Work[tip]
        <5>1. Work[x] \in Nat /\ Work[tip] \in Nat  BY <3>2, <2>3, WorkAssumption DEF Inv, TypeOK
        <5> QED  BY <5>1, <2>2, <2>11, <3>2
      <4> QED  BY <1>1, <4>1, <2>10, <2>11, <3>2
    <3> QED  BY <2>6, <2>11, <3>1, <3>2
  <2> QED  BY <1>1, <1>2, <1>3, <1>4, <2>7, <2>11, FreeRest
<1> QED  BY <1>5, <1>6

(* The tip goes back, and nothing is dropped.                              *)
LEMMA BackRest ==
    ASSUME Inv, RestInv, tip # Genesis, tip' = Parent[tip], job.op # "invalidate", job'.op = job.op, job'.to = job.to,
           UNCHANGED <<undo, invalid, child, rank, cand, odd, active>>, job.op # "none"
    PROVE  RestInv'
<1>1. Linked' = Linked /\ Failed' = Failed  BY DEF Linked, Failed
<1>2. Ranks'  BY <1>1 DEF RestInv, Ranks, Level
<1>3. /\ \A x : Covered(x)' <=> Covered(x)
      /\ BestIs(job.to)' <=> BestIs(job.to)
      /\ \A x : Good(x)' <=> Good(x)
  BY <1>1 DEF Covered, Kept, Good, Worse, BestIs
<1>4. Good(tip) => Good(tip')  BY ParentOfTip DEF Good
<1>5. ~ Quiet'  BY NoJobType DEF Quiet
<1>6. Good(job.to)' <=> Good(job'.to)  BY <1>1 DEF Good
<1>7. Marks'  BY <1>1, <1>3, <1>4, <1>6 DEF RestInv, Marks, Good
<1>8. Candidates'  BY <1>1, <1>3, <1>5 DEF RestInv, Candidates, BestIs, Good
<1> QED  BY <1>2, <1>7, <1>8 DEF RestInv

LEMMA DisconnectStepRest ==
    ASSUME Inv, RestInv, DisconnectStep
    PROVE  RestInv'
<1>1. tip # Genesis  BY AncFacts DEF DisconnectStep, Inv, TypeOK, Target, Linked
<1> QED  BY <1>1, BackRest DEF DisconnectStep, DisconnectTip

LEMMA DisconnectBlocksStepRest ==
    ASSUME Inv, RestInv, DisconnectBlocksStep
    PROVE  RestInv'
<1>1. job'.op = job.op /\ job'.to = job.to  BY DEF DisconnectBlocksStep, Inv, TypeOK, Job
<1> QED  BY <1>1, BackRest DEF DisconnectBlocksStep, DisconnectTip

(* DisconnectBlocks takes the lock, and gives it up to activate.           *)
LEMMA DisconnectBlocksRest ==
    ASSUME Inv, RestInv, DisconnectBlocks \/ DisconnectBlocksEnd
    PROVE  RestInv'
<1>1. /\ UNCHANGED <<undo, invalid, child, rank, cand, tip, odd>> /\ job.op \in {"none", "disconnect"}
      /\ job'.op \in {"none", "disconnect"}
  BY NoJobType DEF DisconnectBlocks, DisconnectBlocksEnd, index_vars, Free, JobOf
<1>2. Linked' = Linked /\ Failed' = Failed  BY <1>1 DEF Linked, Failed
<1>3. Ranks'  BY <1>1, <1>2 DEF RestInv, Ranks, Level
<1>4. /\ \A x : Covered(x)' <=> Covered(x)
      /\ Good(tip)' <=> Good(tip)
  BY <1>1, <1>2 DEF Covered, Kept, Good, Worse
<1>5. ~ Quiet'  BY NoJobType DEF Quiet, DisconnectBlocks, DisconnectBlocksEnd, JobOf
<1>6. Marks' /\ Candidates'  BY <1>1, <1>2, <1>4, <1>5 DEF RestInv, Marks, Candidates
<1> QED  BY <1>1, <1>3, <1>6 DEF RestInv

(* A block connects; what is worse is dropped.                             *)
LEMMA ConnectStepRest ==
    ASSUME Inv, RestInv, NEW b \in Block, ConnectStep(b)
    PROVE  RestInv'
<1>1. b \in Linked /\ b # Genesis /\ tip = Parent[b] /\ Anc[b] = {b} \cup Anc[tip] /\ b \in Anc[job.to]
  BY AncFacts DEF ConnectStep, Connects, Inv, Closed, Target
<1>2. /\ job.op = "activate" /\ tip' = b /\ undo' = undo \cup {b} /\ cand' = Prune(cand, b)
      /\ job' = NoJob \/ (job' = job /\ b # job.to)
      /\ active' = (b # job.to) /\ UNCHANGED <<invalid, child, rank, odd>>
  BY DEF ConnectStep, Connects
<1>3. Linked' = Linked /\ Failed' = Failed  BY <1>2 DEF Linked, Failed
<1>4. Ranks'  BY <1>2, <1>3 DEF RestInv, Ranks, Level
<1>5. \A x : (Good(x)' <=> Good(x)) /\ (Kept(x) => Kept(x)')  BY <1>2, <1>3 DEF Good, Kept
<1>6. \A x : BestIs(x)' <=> BestIs(x)  BY <1>2, <1>3, <1>5 DEF BestIs
<1>7. "torn" \notin odd => Good(b) /\ Good(job.to)
  <2>1. job.to \in Block /\ Anc[b] \subseteq Anc[job.to]  BY <1>1, TreeAssumption DEF Inv, TypeOK, Job
  <2> QED  BY <1>2, <2>1 DEF RestInv, Marks, Good
<1>8. rank \in [Block -> Nat] /\ \A c \in cand : c \in Block  BY DEF Inv, TypeOK, Linked
<1>9. cand' = {c \in cand : ~ Worse(c, b)}  BY <1>2 DEF Prune
<1>10. ASSUME odd = {}  PROVE Covered(b)'
  <2>1. b \notin Failed /\ Kept(b)'
    BY <1>1, <1>2, <1>5, <1>7, <1>10, AncFacts DEF Good, Kept, Inv, TipUndoable
  <2>2. CASE b \in cand
    <3>1. b \in cand' /\ ~ Worse(b, b)'  BY <2>2, <1>2, <1>8, <1>9, WorseFacts DEF Worse
    <3> QED  BY <2>1, <3>1 DEF Covered
  <2>3. CASE Covered(b)
    <3>1. PICK c \in cand : Kept(c) /\ ~ Worse(c, b)  BY <2>3 DEF Covered
    <3>2. c \in cand' /\ Kept(c)' /\ ~ Worse(c, b)'  BY <3>1, <1>2, <1>5, <1>9 DEF Worse
    <3> QED  BY <3>2 DEF Covered
  <2> QED  BY <2>1, <2>2, <2>3, <1>1, <1>2, <1>10 DEF RestInv, Candidates
<1>11. ASSUME odd = {}, NEW x \in Linked, ~ Worse(b, x)  PROVE Covered(x)'
  <2>1. PICK c \in cand' : Kept(c)' /\ ~ Worse(c, b)'  BY <1>10, <1>11 DEF Covered
  <2>2. c \in Block /\ x \in Block  BY <1>8, <1>9 DEF Linked
  <2>3. ~ Worse(c, b)  BY <2>1, <1>2 DEF Worse
  <2>4. ~ Worse(c, x)  BY <2>2, <2>3, <1>8, <1>11, WorseFacts
  <2> QED  BY <2>1, <2>4, <1>2 DEF Covered, Worse
<1>12. ASSUME odd = {}, NEW x \in Linked \ Failed, x \notin cand'  PROVE Covered(x)'
  <2>0. x \in Block  BY DEF Linked
  <2>1. CASE x \in cand
    <3>1. ~ Worse(b, x)  BY <2>0, <2>1, <1>8, <1>9, <1>12, WorseFacts
    <3> QED  BY <3>1, <1>11, <1>12
  <2>2. CASE Covered(x)
    <3>1. PICK c \in cand : Kept(c) /\ ~ Worse(c, x)  BY <2>2 DEF Covered
    <3>2. CASE Worse(c, b)
      <4>1. ~ Worse(b, c)  BY <1>8, <3>2, WorseFacts
      <4>2. ~ Worse(b, x)  BY <1>8, <3>1, <4>1, <2>0, WorseFacts
      <4> QED  BY <4>2, <1>11, <1>12
    <3>3. CASE ~ Worse(c, b)
      <4>1. c \in cand' /\ Kept(c)' /\ ~ Worse(c, x)'  BY <3>1, <3>3, <1>2, <1>5, <1>9 DEF Worse
      <4> QED  BY <4>1 DEF Covered
    <3> QED  BY <3>2, <3>3
  <2> QED  BY <2>1, <2>2, <1>2, <1>12 DEF RestInv, Candidates
<1>13. odd' = {} => \A x \in (Linked \ Failed)' : x \in cand' \/ Covered(x)'  BY <1>2, <1>3, <1>12
<1>14. "torn" \notin odd' => Good(tip)'  BY <1>2, <1>3, <1>7 DEF Good
<1>15. odd = {} => BestIs(job.to)  BY <1>2 DEF RestInv, Candidates
<1>16. CASE job' = NoJob
  <2>1. odd' = {} /\ Quiet' => BestIs(tip)'
    <3> SUFFICES ASSUME odd' = {}, Quiet'  PROVE BestIs(tip)'
      OBVIOUS
    <3>1. b = job.to /\ odd = {}  BY <1>2 DEF Quiet
    <3>2. BestIs(b)'  BY <3>1, <1>6, <1>15
    <3> QED  BY <3>2, <1>2 DEF BestIs
  <2> QED  BY <1>4, <1>13, <1>14, <1>16, <2>1, FreeRest
<1>17. CASE job' = job /\ b # job.to
  <2>1. ~ Quiet' /\ active'  BY <1>2, <1>17, NoJobType DEF Quiet
  <2>2. Marks'
    <3>1. "torn" \notin odd' => Good(job.to)'  BY <1>2, <1>3, <1>7, <1>17 DEF Good
    <3> QED  BY <3>1, <1>2, <1>14, <1>17 DEF Marks
  <2>3. Candidates'
    <3>1. odd' = {} => BestIs(job.to)'  BY <1>2, <1>3, <1>5, <1>15, <1>17 DEF BestIs
    <3> QED  BY <3>1, <2>1, <1>2, <1>13, <1>17 DEF Candidates
  <2> QED  BY <1>2, <1>4, <1>17, <2>1, <2>2, <2>3 DEF RestInv
<1> QED  BY <1>2, <1>16, <1>17

(* A block fails, and its flag spoils no block that was connected before.  *)
LEMMA ConnectFailsRest ==
    ASSUME Inv, RestInv, NEW b \in Block, ConnectFails(b)
    PROVE  RestInv'
<1>1. /\ job.op = "activate" /\ active' = active /\ job' = NoJob /\ tip = Parent[b] /\ b # Genesis
      /\ Failed' = Failed \cup {b} /\ cand' = cand \ {b} /\ UNCHANGED <<undo, rank, tip>>
      /\ odd' = IF b \in undo THEN odd \cup {"short"} ELSE odd
  BY DEF ConnectFails, Connects, Failed
<1>2. b \notin Anc[tip] /\ \A c \in Block : c \in Anc[c]  BY <1>1, TreeAssumption, AncFacts
<1>3. ~ Quiet'  BY <1>1 DEF RestInv, Quiet
<1>4. CASE b \notin undo
  <2>1. odd' = odd /\ job.op # "invalidate"  BY <1>1, <1>4
  <2>2. \A c \in Linked : Kept(c) => Anc[c] \cap {b} = {}  BY <1>1, <1>4 DEF Kept
  <2>3. \A c \in cand : Kept(c) => c \in cand'  BY <1>1, <1>2, <2>2 DEF Inv, TypeOK, Linked
  <2>4. cand \ {b} \subseteq cand' /\ cand' \subseteq cand  BY <1>1
  <2>5. /\ Ranks'
        /\ "torn" \notin odd' => Good(tip)'
        /\ odd' = {} => \A x \in (Linked \ Failed)' : x \in cand' \/ Covered(x)'
    BY <1>1, <2>1, <2>2, <2>3, <2>4, FlaggedRest
  <2> QED  BY <1>1, <1>3, <2>5, FreeRest
<1>5. CASE b \in undo
  <2>1. odd' # {} /\ ("torn" \in odd' <=> "torn" \in odd)  BY <1>1, <1>5
  <2>2. Ranks'  BY <1>1 DEF RestInv, Ranks, Linked, Level
  <2>3. "torn" \notin odd' => Good(tip)'  BY <1>1, <1>2, <2>1 DEF RestInv, Marks, Good
  <2> QED  BY <1>1, <2>1, <2>2, <2>3, FreeRest
<1> QED  BY <1>4, <1>5

(* The loop of InvalidateBlock.  When it ends, all unflagged blocks no     *)
(* worse than the tip are candidates, and the tip is one.                  *)
LEMMA InvalidateFromRest ==
    ASSUME Inv, RestInv, NEW b \in Block \ {Genesis}, NEW t \in Linked, NEW F, NEW d, InvalidateFrom(b, t, F, d),
           tip' = t, Anc[t] \subseteq Anc[tip], UNCHANGED <<undo, rank>>,
           F = Failed \cup {b}, invalid \subseteq invalid', invalid' \subseteq F, b \in invalid',
           "torn" \notin odd => \A x \in Anc[tip] \cap Failed : b \in Anc[x]
    PROVE  RestInv'
<1>1. t \in Block /\ b \in Anc[b] /\ t \in Anc[t] /\ Linked' = Linked  BY AncFacts DEF Linked
<1>2. Ranks'  BY <1>1 DEF RestInv, Ranks, Level
<1>3. CASE b \in Anc[t]
  <2>1. job' = JobOf("invalidate", b, Genesis, 0) /\ odd' = odd /\ child' = child \cup {t}  BY <1>3 DEF InvalidateFrom
  <2>2. job'.op = "invalidate" /\ job'.to = b  BY <2>1 DEF JobOf
  <2>3. Failed' \subseteq Failed \cup {b, t}  BY <2>1 DEF Failed
  <2>4. "torn" \notin odd' => \A x \in (Anc[tip] \cap Failed)' : b \in Anc[x]
    BY <1>1, <1>3, <2>1, <2>3
  <2>5. ~ Quiet'  BY <2>2, NoJobType DEF Quiet
  <2>6. Marks' /\ Candidates'  BY <2>2, <2>4, <2>5 DEF Marks, Candidates
  <2> QED  BY <1>2, <2>2, <2>6 DEF RestInv
<1>4. CASE b \notin Anc[t]
  <2>1. /\ cand' = AddedAgain(cand \ {b}, F, t) /\ job' = NoJob /\ active' = TRUE
        /\ odd' = odd \ {"short"} /\ child' = child
    BY <1>4 DEF InvalidateFrom
  <2>2. Failed' = F  BY <2>1 DEF Failed
  <2>3. "torn" \notin odd' => Good(t)'
    <3> SUFFICES ASSUME "torn" \notin odd'  PROVE Anc[t] \cap F = {}
      BY <2>2 DEF Good
    <3>1. "torn" \notin odd  BY <2>1
    <3>2. ASSUME NEW x \in Anc[t] \cap Failed  PROVE FALSE
      <4>1. b \in Anc[x] /\ Anc[x] \subseteq Anc[t]  BY <3>1, <3>2, <1>1, TreeAssumption
      <4> QED  BY <4>1, <1>4
    <3> QED  BY <3>2, <1>4
  <2>4. ~ Quiet'  BY <2>1 DEF Quiet
  <2>5. ASSUME odd' = {}, NEW x \in (Linked \ Failed)', x \notin cand'  PROVE Covered(x)'
    <3>1. Good(t)' /\ t \notin F  BY <2>2, <2>3, <2>5, <1>1 DEF Good
    <3>2. rank \in [Block -> Nat] /\ x \in Block /\ x \in Linked \ F
      BY <1>1, <2>2, <2>5 DEF Inv, TypeOK, Linked
    <3>3. ~ Worse(t, t) /\ ~ Worse(t, x)
      <4>1. Worse(x, t)  BY <2>1, <2>5, <3>2 DEF AddedAgain
      <4> QED  BY <4>1, <1>1, <3>2, WorseFacts
    <3>4. t \in cand'  BY <2>1, <3>1, <3>3 DEF AddedAgain
    <3>5. Kept(t)'  BY <3>1 DEF Kept, Inv, TipUndoable
    <3>6. ~ Worse(t, x)'  BY <3>3 DEF Worse
    <3> QED  BY <3>4, <3>5, <3>6 DEF Covered
  <2>6. "torn" \notin odd' => Good(tip)'  BY <2>3 DEF Good
  <2> QED  BY <1>2, <2>1, <2>4, <2>5, <2>6, FreeRest
<1> QED  BY <1>3, <1>4

LEMMA InvalidateBlockRest ==
    ASSUME Inv, RestInv, NEW b \in Block, InvalidateBlock(b)
    PROVE  RestInv'
<1>1. /\ b \in Block \ {Genesis} /\ tip \in Linked /\ job = NoJob /\ UNCHANGED <<undo, rank, tip>>
      /\ invalid' = invalid \cup {b} /\ InvalidateFrom(b, tip, Failed \cup {b}, dirty \cup {b})
  BY DEF InvalidateBlock, Inv, TypeOK, Free
<1>2. "torn" \notin odd => \A x \in Anc[tip] \cap Failed : b \in Anc[x]
  BY <1>1, NoJobType, NoJobRest DEF Good
<1>3. invalid' \subseteq Failed \cup {b}  BY <1>1 DEF Failed
<1>4. PICK t \in Linked : t = tip  BY <1>1
<1>5. InvalidateFrom(b, t, Failed \cup {b}, dirty \cup {b}) /\ tip' = t /\ Anc[t] \subseteq Anc[tip]  BY <1>1, <1>4
<1> QED  BY <1>1, <1>2, <1>3, <1>5, InvalidateFromRest

LEMMA InvalidateStepRest ==
    ASSUME Inv, RestInv, InvalidateStep
    PROVE  RestInv'
<1>1. job.to \in Block \ {Genesis} /\ job.op = "invalidate" /\ tip # Genesis
  BY TreeAssumption DEF InvalidateStep, Inv, TypeOK, Target, Job
<1>2. /\ tip' = Parent[tip] /\ UNCHANGED <<undo, rank, invalid>> /\ InvalidateFrom(job.to, Parent[tip], Failed, {})
  BY DEF InvalidateStep, DisconnectTip
<1>3. Parent[tip] \in Linked /\ Anc[Parent[tip]] \subseteq Anc[tip]  BY <1>1, ParentOfTip
<1>4. "torn" \notin odd => \A x \in Anc[tip] \cap Failed : job.to \in Anc[x]  BY <1>1 DEF RestInv, Marks
<1>5. job.to \in invalid /\ Failed = Failed \cup {job.to} /\ invalid' \subseteq Failed  BY <1>1, <1>2 DEF RestInv, Failed
<1>6. PICK t \in Linked : t = Parent[tip]  BY <1>3
<1>7. PICK b \in Block \ {Genesis} : b = job.to  BY <1>1
<1>8. InvalidateFrom(b, t, Failed, {}) /\ tip' = t /\ Anc[t] \subseteq Anc[tip]  BY <1>2, <1>3, <1>6, <1>7
<1> QED  BY <1>2, <1>4, <1>5, <1>7, <1>8, InvalidateFromRest

(* Reconsidered blocks are candidates again, or no better than the tip;    *)
(* with a failed ancestor the candidates are "short".                      *)
LEMMA ReconsideredRest ==
    ASSUME Inv, RestInv, NEW b \in index, Reconsidered(b), job = NoJob, UNCHANGED <<undo, rank, tip>>
    PROVE  /\ Ranks'
           /\ "torn" \notin odd' => Good(tip)'
           /\ odd' = {} => \A x \in (Linked \ Failed)' : x \in cand' \/ Covered(x)'
<1> DEFINE below == {x \in index : b \in Anc[x] /\ (x \in Failed \/ x \notin data)}
           cleared == below \cup (Anc[b] \cap Failed)
<1>1. /\ Failed' = Failed \ cleared
      /\ cand' = cand \cup {x \in below \cap Linked : Worse(tip, x)}
      /\ odd' = IF (Anc[b] \ {b}) \cap Failed = {} THEN odd ELSE odd \cup {"short"}
  BY DEF Reconsidered, Failed
<1>2. Linked' = Linked /\ Ranks'  BY DEF Linked, Ranks, Level, RestInv
<1>3. /\ "torn" \notin odd => Good(tip)
      /\ odd = {} => \A x \in Linked \ Failed : x \in cand \/ Covered(x)
  BY NoJobType, NoJobRest
<1>4. \A x : (Good(x) => Good(x)') /\ (Kept(x) => Kept(x)')  BY <1>1 DEF Good, Kept
<1>5. "torn" \notin odd' => Good(tip)'  BY <1>1, <1>3, <1>4 DEF Good
<1>6. \A x : Covered(x) => Covered(x)'  BY <1>1, <1>4 DEF Covered, Worse
<1>7. ASSUME odd' = {}, NEW x \in (Linked \ Failed)', x \notin cand'  PROVE Covered(x)'
  <2>1. odd = {} /\ (Anc[b] \ {b}) \cap Failed = {}  BY <1>1, <1>7
  <2>2. x \in Linked /\ x \notin cand /\ x \in Block  BY <1>1, <1>2, <1>7 DEF Linked
  <2>3. CASE x \notin Failed  BY <1>3, <1>6, <2>1, <2>2, <2>3
  <2>4. CASE x \in Failed
    <3>1. x \in below
      <4>1. b \in Anc[b] /\ x \in cleared  BY <1>1, <1>7, <2>4, AncFacts DEF Inv, TypeOK
      <4> QED  BY <4>1, <2>1
    <3>2. ~ Worse(tip, x)  BY <1>1, <1>7, <2>2, <3>1
    <3>3. Covered(tip) /\ tip \in Block  BY <1>3, <2>1, TipCovered DEF Inv, TypeOK, Linked
    <3>4. Covered(x)  BY <3>2, <3>3, <2>2, CoveredBelow
    <3> QED  BY <3>4, <1>6
  <2> QED  BY <2>3, <2>4
<1> QED  BY <1>2, <1>5, <1>7

LEMMA ReconsiderBlockRest ==
    ASSUME Inv, RestInv, NEW b \in Block, ReconsiderBlock(b)
    PROVE  RestInv'
<1>1. b \in index /\ Reconsidered(b) /\ job = NoJob /\ job' = NoJob /\ active' = TRUE /\ UNCHANGED <<undo, rank, tip>>
  BY DEF ReconsiderBlock, Free
<1>2. ~ Quiet'  BY <1>1 DEF Quiet
<1> QED  BY <1>1, <1>2, ReconsideredRest, FreeRest

LEMMA ReprocessStepRest ==
    ASSUME Inv, RestInv, NEW b \in Block, ReprocessStep(b)
    PROVE  RestInv'
<1>1. /\ job = NoJob /\ job' = NoJob /\ UNCHANGED <<undo, rank, tip, active>> /\ rep'.on
  BY DEF ReprocessStep, Free, Inv, TypeOK
<1>2. ~ Quiet'  BY <1>1 DEF Quiet
<1>3. CASE b \in index
  <2>1. Reconsidered(b)  BY <1>3 DEF ReprocessStep
  <2> QED  BY <1>1, <1>2, <1>3, <2>1, ReconsideredRest, FreeRest
<1>4. CASE b \notin index
  BY <1>1, <1>2, <1>4, SameRest DEF ReprocessStep
<1> QED  BY <1>3, <1>4

(* LoadBlockIndexDB makes every unflagged linked block a candidate that is *)
(* no worse than the tip.                                                  *)
LEMMA CrashRest ==
    ASSUME Inv, RestInv, Crash
    PROVE  RestInv'
<1>1. PICK d \in {disk, BetweenWrites} : Load(d)  BY DEF Crash
<1> DEFINE L == {b \in d.data : Anc[b] \subseteq d.data}
           F == d.invalid \cup d.child
<1>2. Sound(d)  BY Images DEF Inv
<1>3. /\ Failed' = F /\ tip' = d.tip /\ job' = NoJob /\ active' = up'
      /\ odd' = IF Anc[d.tip] \cap F = {} THEN {} ELSE {"torn"}
      /\ cand' = {b \in L \ F : Work[b] > Work[d.tip] \/ (Work[b] = Work[d.tip] /\ rank'[b] <= rank'[d.tip])}
  BY <1>1 DEF Load, Failed, Crash
<1>4. PICK o \in Orders : rank' = Ranked(L, {}, o)  BY <1>1 DEF Load
<1>5. d.data \subseteq Block /\ d.tip \in Block /\ L \in SUBSET Block /\ {} \in SUBSET Block
  BY <1>2 DEF Sound, Disk
<1>6. rank \in [Block -> Nat]  BY DEF Inv, TypeOK
<1>7. d.tip \in L  BY <1>2, <1>5, AncFacts DEF Sound
<1>8. TipUndoable'  BY <1>1, <1>2, LoadFacts
<1> HIDE DEF L, F
<1>9. /\ rank' \in [Block -> Nat] /\ \A x \in L : rank'[x] # 0
      /\ \A x \in Block \ L : rank'[x] = IF x \in {} THEN rank[x] ELSE 0
  BY <1>4, <1>5, <1>6, RankedFacts
<1>10. Linked' = L  BY <1>5, <1>9 DEF Linked
<1>11. Ranks'
  <2>1. \A x \in L \cup {} : Ranked(L, {}, o)[x] <= Cardinality(Level(L \cup {}, x))
    <3>1. L \cap {} = {} /\ \A x \in {} : rank[x] <= Cardinality(Level({}, x))  OBVIOUS
    <3> QED  BY <3>1, <1>5, <1>6, RankedOrder
  <2>2. L \cup {} = L  OBVIOUS
  <2> QED  BY <1>4, <1>10, <2>1, <2>2 DEF Ranks, Level
<1>12. "torn" \notin odd' => Good(tip)'  BY <1>3 DEF Good
<1>13. ~ Quiet'  BY <1>3 DEF Quiet
<1>14. ASSUME odd' = {}, NEW x \in (Linked \ Failed)', x \notin cand'  PROVE Covered(x)'
  <2>1. PICK t \in Block : t = d.tip  BY <1>5
  <2>2. t \in L \ F /\ Anc[t] \cap F = {}  BY <1>3, <1>7, <1>14, <2>1, AncFacts
  <2>3. x \in L \ F /\ x \in Block  BY <1>3, <1>5, <1>10, <1>14
  <2>4. Work[t] \in Nat /\ Work[x] \in Nat /\ rank'[t] \in Nat /\ rank'[x] \in Nat
    BY <2>3, <1>9, WorkAssumption
  <2>5. t \in cand'  BY <1>3, <2>1, <2>2, <2>4
  <2>6. ~ (Work[x] > Work[t] \/ (Work[x] = Work[t] /\ rank'[x] <= rank'[t]))  BY <1>3, <1>14, <2>1, <2>3
  <2>7. ~ Worse(t, x)'  BY <2>4, <2>6 DEF Worse
  <2>8. Kept(t)'  BY <1>3, <1>8, <2>1, <2>2 DEF Kept, Good, TipUndoable
  <2> QED  BY <2>5, <2>7, <2>8 DEF Covered
<1> QED  BY <1>3, <1>11, <1>12, <1>13, <1>14, FreeRest

LEMMA RestInit == Init => RestInv
<1> SUFFICES ASSUME Init  PROVE RestInv
  OBVIOUS
<1>1. Linked = {Genesis} /\ Failed = {} /\ job.op = "none" /\ rank[Genesis] = 1 /\ tip = Genesis
  BY TreeAssumption, NoJobType DEF Init, Linked, Failed
<1>2. Ranks
  <2>1. Level(Linked, Genesis) = {Genesis}  BY <1>1 DEF Level
  <2>2. Cardinality({Genesis}) = 1  BY FS_Singleton
  <2> QED  BY <1>1, <2>1, <2>2 DEF Ranks
<1>3. Marks  BY <1>1 DEF Marks, Good
<1>4. BestIs(tip)  BY <1>1, WorkAssumption, TreeAssumption DEF BestIs
<1>5. \A x \in Linked \ Failed : x \in cand  BY <1>1 DEF Init
<1> QED  BY <1>1, <1>2, <1>3, <1>4, <1>5 DEF RestInv, Candidates

LEMMA RestStep == Inv /\ RestInv /\ [Next]_vars => RestInv'
<1> SUFFICES ASSUME Inv, RestInv, [Next]_vars  PROVE RestInv'
  OBVIOUS
<1>1. CASE UNCHANGED vars
  BY <1>1, SameRest DEF vars, Quiet
<1>2. ASSUME NEW b \in Block, BlockRefused(b)  PROVE RestInv'
  BY <1>2, SameRest DEF BlockRefused, index_vars, chain_vars, Quiet
<1>3. ASSUME NEW R \in SUBSET Refusable, ChecksChange(R)  PROVE RestInv'
  BY <1>3, SameRest DEF ChecksChange, index_vars, chain_vars, Quiet
<1>4. ASSUME NEW R \in SUBSET rejected, ReprocessBlocks(R)  PROVE RestInv'
  BY <1>4, SameRest DEF ReprocessBlocks, index_vars, chain_vars, Quiet
<1>5. CASE FlushStateToDisk
  BY <1>5, SameRest DEF FlushStateToDisk, chain_vars, Quiet
<1>6. CASE Activate
  BY <1>6, NothingToDoRest, BeginStepRest, DisconnectStepRest, ConnectStepRest, ConnectFailsRest DEF Activate
<1>7. CASE Others
  BY <1>7, InvalidateStepRest, DisconnectBlocksRest, DisconnectBlocksStepRest, ReprocessStepRest DEF Others
<1> QED
  BY <1>1, <1>2, <1>3, <1>4, <1>5, <1>6, <1>7, CrashRest,
     BlockNotStoredRest, BlockStoredRest, InvalidateBlockRest, ReconsiderBlockRest DEF Next

(* A node at rest is on a chain without failed blocks, unless a crash left *)
(* it "torn": for any tree of blocks and any interleaving of               *)
(* ActivateBestChain with new blocks, invalidateblock, reconsiderblock,    *)
(* ReprocessBlocks, flushes and crashes.                                   *)
THEOREM ChainCorrect == Spec => []ChainNotFailed
<1>1. Inv /\ RestInv => ChainNotFailed
  BY NoJobType DEF RestInv, Marks, Good, ChainNotFailed, Quiet
<1> QED  BY <1>1, InitInv, NextInv, RestInit, RestStep, PTL DEF Spec

(* ... and no valid chain it has in full is better, unless candidates were *)
(* left "short": what ActivateBestChain promises.                          *)
THEOREM BestCorrect == Spec => []QuietBest
<1>1. Inv /\ RestInv => QuietBest
  BY DEF RestInv, Candidates, BestIs, Good, QuietBest
<1> QED  BY <1>1, InitInv, NextInv, RestInit, RestStep, PTL DEF Spec

(* "Either the current tip or a successor of it we're working towards is   *)
(* left in setBlockIndexCandidates" holds whenever no handler is at work   *)
(* and the candidates are not "short", nor the tip "torn": those are the   *)
(* only two ways to the empty set at which ActivateBestChain dies.         *)
THEOREM CandidatesCorrect == Spec => [](odd = {} => CandidateLeft)
<1>1. Inv /\ RestInv => (odd = {} => CandidateLeft)
  <2> SUFFICES ASSUME Inv, RestInv, odd = {}, Free  PROVE cand # {}
    BY DEF CandidateLeft
  <2>1. job.op # "invalidate"  BY NoJobType DEF Free
  <2>2. Covered(tip)  BY <2>1, NoJobRest, TipCovered
  <2> QED  BY <2>2 DEF Covered
<1> QED  BY <1>1, InitInv, NextInv, RestInit, RestStep, PTL DEF Spec
=============================================================================
