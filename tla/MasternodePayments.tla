------------------------- MODULE MasternodePayments -------------------------
(***************************************************************************)
(* The votes on who is paid by a block: src/src/masternode-payments.cpp.   *)
(* One node, which may be a masternode itself.                             *)
(*                                                                         *)
(* A vote is stored under the locks and counted after their release, by    *)
(* the message thread or by a thread that made a block.  The file is       *)
(* written on shutdown, first the votes and then the counts, before the    *)
(* threads are told to stop.                                               *)
(*                                                                         *)
(* Left out: budget payments, the rank of a voter and its protocol (IsValid*)
(* drops the vote), the block hash AddWinningMasternode asks for (in the   *)
(* range of votes there is one), and Sync, which only reads.               *)
(***************************************************************************)
EXTENDS Naturals, Sequences, FiniteSets

CONSTANTS
    MN, Self,     \* masternodes; this node
    Payee,
    NoPayee,      \* the empty script
    Queue,        \* whom GetNextMasternodeInQueueForPayment may return for a height
    Network,      \* votes of the other masternodes
    Unknown,      \* masternodes whose current key is not known at first
    Thread,       \* threads that add votes
    MsgThread,    \* the one that handles messages
    None,
    Ahead,        \* how far ahead of the tip a masternode votes
    Window,       \* how far ahead a vote is taken
    Past,         \* how far back: CountEnabled() * 1.25
    Limit,        \* how far back votes are kept
    Required,     \* MNPAYMENTS_SIGNATURES_REQUIRED
    FirstPaid,    \* height up to which masternodes get nothing
    EarlyEnd,     \* height at which the test network's first block values end, or 0
    Premine, Early, Subsidy,  \* the block values
    MaxTip, MaxReorg, MaxStops

Height == 0..(MaxTip + Window)
Vote == [mn : MN, height : Height, payee : Payee \cup {NoPayee}]
VoteOf(m, h, p) == [mn |-> m, height |-> h, payee |-> p]

ASSUME PaymentAssumption ==
    /\ Self \in MN /\ NoPayee \notin Payee /\ MsgThread \in Thread
    /\ None \notin Vote \cup Height
    /\ Queue \in [Height -> SUBSET Payee] /\ Network \subseteq Vote /\ Unknown \subseteq MN
    /\ {Ahead, Window, Past, Limit, Required, FirstPaid, EarlyEnd, Premine, Early, Subsidy,
        MaxTip, MaxReorg, MaxStops} \subseteq Nat
    /\ Ahead <= Window /\ Window > 0 /\ Past <= Limit /\ Required > 0 /\ MaxTip > 0

VARIABLES
    votes,      \* mapMasternodePayeeVotes
    blocks,     \* mapMasternodeBlocks
    lastVote,   \* mapMasternodesLastVote
    own,        \* nLastBlockHeight
    keyed,      \* masternodes whose current key this node knows
    sent,       \* own votes that peers have
    adding,     \* stored vote a thread has yet to count
    voting,     \* the height ProcessBlock of a thread was called with, or 0
    tip,
    dump,       \* the votes already in the stream of the file
    disk,       \* the file
    readable,   \* the file is whole, or there is none
    quiet,      \* no vote has been stored, or left to count, since the dump began
    torn,       \* the file that was loaded was not written in quiet
    late,       \* heights of votes cleaned away before they were counted
    reorgs, stops

vars == <<votes, blocks, lastVote, own, keyed, sent, adding, voting, tip, dump, disk, readable, quiet, torn, late, reorgs, stops>>
memory == <<votes, blocks, lastVote, own, adding, voting, late>>
file == <<dump, disk, readable, quiet, torn, stops>>

(* CMasternodeBlockPayees: the payees in the order of their first vote.    *)
Entry(at, vec, n) == [at |-> at, vec |-> vec, n |-> n]
NoVotes == [p \in Payee \cup {NoPayee} |-> 0]
NoEntry == Entry(None, <<>>, NoVotes)
Empty == [h \in Height |-> NoEntry]
BlockMap == [Height -> [at : Height \cup {None}, vec : Seq(Payee \cup {NoPayee}), n : [Payee \cup {NoPayee} -> Nat]]]
File(v, b, q, l) == [votes |-> v, blocks |-> b, quiet |-> q, late |-> l]
NoFile == File({}, Empty, TRUE, {})

(* Everything is of its type, and a vote being counted fits its thread.    *)
TypeOK ==
    /\ votes \in SUBSET Vote /\ dump \in (SUBSET Vote) \cup {None} /\ blocks \in BlockMap
    /\ disk \in [votes : SUBSET Vote, blocks : BlockMap, quiet : BOOLEAN, late : SUBSET Height]
    /\ lastVote \in [MN -> Height \cup {None}] /\ own \in Height /\ keyed \subseteq MN /\ sent \subseteq Vote
    /\ adding \in [Thread -> Vote \cup {None}] /\ voting \in [Thread -> Height]
    /\ tip \in 1..MaxTip /\ late \subseteq Height /\ quiet \in BOOLEAN /\ readable \in BOOLEAN /\ torn \in BOOLEAN
    /\ \A th \in Thread : adding[th] # None /\ (voting[th] # 0 \/ th # MsgThread) => adding[th].mn = Self

Init ==
    /\ votes = {} /\ blocks = Empty /\ lastVote = [m \in MN |-> None] /\ own = 0
    /\ keyed = MN \ Unknown /\ sent = {} /\ adding = [th \in Thread |-> None]
    /\ voting = [th \in Thread |-> 0] /\ tip = 1
    /\ dump = None /\ disk = NoFile /\ readable = TRUE /\ quiet = TRUE /\ torn = FALSE /\ late = {}
    /\ reorgs = 0 /\ stops = 0

-----------------------------------------------------------------------------
(* AddPayee; an entry that is not there is made for height 0 by map's [].  *)
AddPayee(e, p) == Entry(e.at, IF e.n[p] = 0 THEN Append(e.vec, p) ELSE e.vec, [e.n EXCEPT ![p] = e.n[p] + 1])
Opened(b, h, at) == IF b[h].at = None THEN [b EXCEPT ![h] = Entry(at, <<>>, NoVotes)] ELSE b

(* GetPayee: the first of those with the most votes.  Mutation: the last.  *)
LastPayee(h) ==
    {blocks[h].vec[i] : i \in {i \in 1..Len(blocks[h].vec) : \A j \in 1..Len(blocks[h].vec) : j # i => j < i}}
GetPayee(h) ==
    {blocks[h].vec[i] : i \in {i \in 1..Len(blocks[h].vec) :
        \A j \in 1..Len(blocks[h].vec) :
            IF j < i THEN blocks[h].n[blocks[h].vec[j]] < blocks[h].n[blocks[h].vec[i]]
            ELSE blocks[h].n[blocks[h].vec[j]] <= blocks[h].n[blocks[h].vec[i]]}}

GetBlockValue(h) == IF h = 0 THEN Premine ELSE IF h < EarlyEnd THEN Early ELSE Subsidy
GetMasternodePayment(h) == IF h <= FirstPaid THEN 0 ELSE (GetBlockValue(h) \div 100) * 80

(* FillBlockPayee: what a block on top of the tip pays, to whom.  The      *)
(* amount is that of the tip's height, not of the block's.                 *)
FillBlockPayee == IF GetPayee(tip + 1) = {} THEN Payee ELSE GetPayee(tip + 1)
Paid == GetMasternodePayment(tip)

(* IsTransactionValid.  Anything goes without a payee with enough votes.   *)
IsTransactionValid(h, payee, value) ==
    LET e == blocks[h]
        winners == {p \in Payee \cup {NoPayee} : e.n[p] >= Required}
    IN  e.at # None /\ winners # {} => payee \in winners /\ value = GetMasternodePayment(e.at)

-----------------------------------------------------------------------------
(* AddWinningMasternode: under the locks; the count follows.               *)
(* Mutation: votes that have been seen are not told apart.                 *)
StoreAgain(th, v) ==
    /\ votes' = votes \cup {v} /\ blocks' = Opened(blocks, v.height, v.height)
    /\ adding' = [adding EXCEPT ![th] = v] /\ quiet' = FALSE
Store(th, v) ==
    /\ v \notin votes
    /\ votes' = votes \cup {v} /\ blocks' = Opened(blocks, v.height, v.height)
    /\ adding' = [adding EXCEPT ![th] = v] /\ quiet' = FALSE

InRange(v) == tip <= v.height + Past /\ v.height <= tip + Window
CanVote(v) == lastVote[v.mn] # v.height

(* "mnw": a vote that can be checked, ...                                  *)
WinnerAccepted(v) ==
    /\ adding[MsgThread] = None /\ InRange(v) /\ CanVote(v) /\ v.mn \in keyed
    /\ Store(MsgThread, v) /\ lastVote' = [lastVote EXCEPT ![v.mn] = v.height]
    /\ UNCHANGED <<own, keyed, sent, voting, tip, late, reorgs, dump, disk, readable, torn, stops>>

(* ... and one whose signature fails: its masternode is asked for, but it  *)
(* has already been recorded.                                              *)
WinnerRefused(v) ==
    /\ adding[MsgThread] = None /\ v \notin votes /\ InRange(v) /\ CanVote(v) /\ v.mn \notin keyed
    /\ lastVote' = [lastVote EXCEPT ![v.mn] = v.height]
    /\ UNCHANGED <<votes, blocks, adding, voting, own, keyed, sent, tip, late, reorgs, file>>

LearnMasternode(m) ==
    /\ m \notin keyed /\ keyed' = keyed \cup {m}
    /\ UNCHANGED <<memory, sent, tip, reorgs, file>>

(* ProcessBlock: the vote of this node, for a block Ahead of the tip.      *)
(* In a budget block, or without a candidate, its height and payee remain  *)
(* empty and it is signed and added all the same.                          *)
ProcessBlock(th, v) ==
    /\ adding[th] = None /\ tip + Ahead > own
    /\ v \in IF Queue[tip + Ahead] = {} THEN {VoteOf(Self, 0, NoPayee)}
             ELSE {VoteOf(Self, tip + Ahead, p) : p \in Queue[tip + Ahead]}
    /\ Store(th, v) /\ voting' = [voting EXCEPT ![th] = tip + Ahead]
    /\ UNCHANGED <<lastVote, own, keyed, sent, tip, late, reorgs, dump, disk, readable, torn, stops>>

(* Mutation: the thread's next vote is taken for its own.                  *)
StillVoting(th) == voting
NotVoting(th) == [voting EXCEPT ![th] = 0]

(* The count, and for an own vote what ProcessBlock does after it.         *)
Count(th) ==
    /\ adding[th] # None
    /\ \E v \in {adding[th]} :
          /\ \E b \in {Opened(blocks, v.height, 0)} :
                blocks' = [b EXCEPT ![v.height] = AddPayee(b[v.height], v.payee)]
          /\ IF voting[th] = 0 THEN UNCHANGED <<sent, own>>
             ELSE sent' = sent \cup {v} /\ own' = voting[th]
    /\ adding' = [adding EXCEPT ![th] = None] /\ voting' = NotVoting(th)
    /\ UNCHANGED <<votes, lastVote, keyed, tip, late, reorgs, file>>

(* CleanPaymentList.                                                       *)
Old(v) == tip > v.height + Limit
Cleaned(b, v) == [h \in Height |-> IF \E x \in v : x.height = h /\ Old(x) THEN NoEntry ELSE b[h]]
CleanPaymentList ==
    /\ \E v \in votes : Old(v)
    /\ votes' = {v \in votes : ~ Old(v)} /\ blocks' = Cleaned(blocks, votes) /\ quiet' = FALSE
    /\ late' = late \cup {v.height : v \in {v \in votes : Old(v) /\ \E th \in Thread : adding[th] = v}}
    /\ UNCHANGED <<lastVote, own, keyed, sent, adding, voting, tip, reorgs, dump, disk, readable, torn, stops>>

NewTip ==
    /\ \/ tip < MaxTip /\ tip' = tip + 1 /\ reorgs' = reorgs
       \/ tip > 1 /\ reorgs < MaxReorg /\ tip' = tip - 1 /\ reorgs' = reorgs + 1
    /\ UNCHANGED <<memory, keyed, sent, file>>

-----------------------------------------------------------------------------
(* DumpMasternodePayments, called by PrepareShutdown before the threads    *)
(* are interrupted: the votes, then the counts, without a lock; nothing if *)
(* the file that is there cannot be read.                                  *)
BeginDump ==
    /\ dump = None /\ readable /\ stops < MaxStops
    /\ dump' = votes /\ quiet' = (\A th \in Thread : adding[th] = None) /\ stops' = stops + 1
    /\ UNCHANGED <<memory, keyed, sent, tip, reorgs, disk, readable, torn>>

(* The next start: Read and CleanPaymentList.                              *)
Start(f) ==
    /\ votes' = {v \in f.votes : ~ Old(v)} /\ blocks' = Cleaned(f.blocks, f.votes)
    /\ lastVote' = [m \in MN |-> None] /\ own' = 0
    /\ adding' = [th \in Thread |-> None] /\ voting' = [th \in Thread |-> 0]
    /\ late' = f.late /\ torn' = ~ f.quiet
    /\ disk' = f /\ dump' = None /\ quiet' = TRUE
    /\ UNCHANGED <<keyed, sent, tip, reorgs>>

Restart == dump # None /\ Start(File(dump, blocks, quiet /\ ~ torn, late)) /\ UNCHANGED <<readable, stops>>

(* A crash, also in the middle of the write, after which the file cannot   *)
(* be read; or a shutdown that writes nothing.                             *)
Crash == stops < MaxStops /\ Start(disk) /\ readable' = readable /\ stops' = stops + 1
CrashInWrite == dump # None /\ Start(NoFile) /\ readable' = FALSE /\ stops' = stops

Next ==
    \/ \E v \in Network \cup sent : WinnerAccepted(v) \/ WinnerRefused(v)
    \/ \E m \in MN : LearnMasternode(m)
    \/ \E th \in Thread : Count(th) \/ \E v \in Vote : ProcessBlock(th, v)
    \/ CleanPaymentList \/ NewTip \/ BeginDump \/ Restart \/ Crash \/ CrashInWrite

Spec == Init /\ [][Next]_vars

-----------------------------------------------------------------------------
Counted(v, h, p) == {x \in v : x.height = h /\ x.payee = p}

(* A payee's count is the number of masternodes with a stored vote for it, *)
(* those being counted excepted: after any mix of threads, cleaning and    *)
(* restarts, unless the file was written while votes were being added.     *)
VotesCounted ==
    ~ torn => \A h \in Height \ late, p \in Payee \cup {NoPayee} :
        blocks[h].n[p] = Cardinality(Counted(votes \ {adding[th] : th \in Thread}, h, p))

(* What FillBlockPayee puts in a block, IsTransactionValid accepts, except *)
(* in the two blocks at which the payment changes: FillBlockPayee pays that*)
(* of the tip's height, IsTransactionValid wants that of the block's.      *)
MinedIsAccepted ==
    (tip # FirstPaid /\ tip + 1 # EarlyEnd /\ tip + 1 \notin late) =>
        \A p \in FillBlockPayee : IsTransactionValid(tip + 1, p, Paid)
=============================================================================
