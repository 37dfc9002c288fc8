------------------------------- MODULE Budget -------------------------------
(***************************************************************************)
(* Budget proposals, finalized budgets, the votes on both and the blocks   *)
(* that pay them: src/src/masternode-budget.cpp.  One synced node, itself  *)
(* a masternode in mode "auto", on a network whose GetTotalBudget is not 0.*)
(*                                                                         *)
(* Proposals and finalized budgets ("items") have the same handlers and    *)
(* maps of the same use; one set of operators stands for both.  The        *)
(* manager is the record bm, which an operation computes anew.             *)
(*                                                                         *)
(* Left out: mode "suggest" (SubmitFinalBudget); what peers are sent (Sync *)
(* and its marks, relaying, the questions of askedForSource...); items     *)
(* that fail a test of their fixed fields; votes dated in the future,      *)
(* abstentions; reorganisations; the confirmations that a complete SwiftX  *)
(* lock adds to those of a collateral (GetIXConfirmations).  NewBlock may  *)
(* run at any height, not just each 14th.  fAutoChecked is left out too:   *)
(* CheckAndRemove copies all entries, and a copy starts unchecked.         *)
(***************************************************************************)
EXTENDS Naturals, Integers, Sequences, FiniteSets, SequencesExt

CONSTANTS
    MN, Self,         \* masternodes; this node
    Others,           \* number of enabled masternodes that never vote
    Leaver,           \* masternodes that leave the list and return
    Stranger,         \* masternodes whose votes may fail the check of their signature
    Proposal,         \* proposals; a payment is named by its proposal
    FinSeq,           \* the finalized budgets in the order of their hashes
    Payments,         \* vecBudgetPayments of each, ...
    BlockStart,       \* ... and its nBlockStart
    From, To,         \* nBlockStart and nBlockEnd of a proposal
    Amount, Total,    \* of a proposal; GetTotalBudget
    Mined,            \* height of an item's collateral
    Traffic,          \* sets of items and votes that peers may send, or the user by RPC
    Cycle,            \* nBudgetCycleBlocks
    FeeConfirmations, \* nBudgetFeeConfirmations
    Establishment,    \* nProposalEstablishmentTime, in blocks
    UpdateMin,        \* BUDGET_VOTE_UPDATE_MIN
    FirstTip, MaxTip, MaxStops,
    None

Fin == {FinSeq[i] : i \in 1..Len(FinSeq)}
Item == Proposal \cup Fin
Vote == [mn : MN, item : Item, time : Nat, yes : BOOLEAN]

ASSUME BudgetAssumption ==
    /\ IsFiniteSet(MN) /\ FinSeq \in Seq(Fin)
    /\ Self \in MN /\ Leaver \subseteq MN \ {Self} /\ Stranger \subseteq MN
    /\ Proposal \cap Fin = {} /\ None \notin Item \cup Vote
    /\ Payments \in [Fin -> Seq(Proposal)]
    /\ \A b \in Fin : BlockStart[b] \in Nat \ {0} /\ BlockStart[b] % Cycle = 0
    /\ From \in [Proposal -> Nat] /\ To \in [Proposal -> Nat] /\ Amount \in [Proposal -> Nat]
    /\ Mined \in [Item -> Nat] /\ \A t \in Traffic : t \subseteq Item \cup Vote
    /\ \A v \in UNION Traffic : v \in Vote /\ v.item \in Fin => v.yes
    /\ {Others, Total, FeeConfirmations, Establishment, UpdateMin, FirstTip, MaxTip, MaxStops} \subseteq Nat
    /\ FirstTip <= MaxTip /\ Cycle \in Nat \ {0}

VARIABLES
    bm,       \* CBudgetManager
    history,  \* mapPayment_History: the height a proposal was paid at, or 0
    listed,   \* masternodes of the list that vote
    traffic,  \* what may be sent, of Traffic
    silent,   \* items added without a look at the orphan votes since
    swept,    \* NewBlock was the last to run
    tip, stops

vars == <<bm, history, listed, traffic, silent, swept, tip, stops>>
world == <<history, listed, traffic, tip, stops>>

Height == 0..MaxTip + 1
NoVotes == [m \in MN |-> None]
(* known: mapProposals and mapFinalizedBudgets, votes: mapVotes of each,   *)
(* off: its votes with fValid off; seen: the four mapSeen...; orphan: the  *)
(* two mapOrphan..., by the item's hash; immature: the two vecImmature...  *)
Manager == [known : SUBSET Item, votes : [Item -> [MN -> Vote \cup {None}]], off : [Item -> SUBSET MN],
            seen : SUBSET (Item \cup Vote), orphan : [Item -> Vote \cup {None}], immature : SUBSET Item]
Empty == [known |-> {}, votes |-> [i \in Item |-> NoVotes], off |-> [i \in Item |-> {}],
          seen |-> {}, orphan |-> [i \in Item |-> None], immature |-> {}]

Init ==
    /\ bm = Empty /\ history = [p \in Proposal |-> 0] /\ listed = MN
    /\ traffic \in Traffic /\ silent = {} /\ swept = FALSE /\ tip = FirstTip /\ stops = 0

-----------------------------------------------------------------------------
CountEnabled == Others + Cardinality(listed)

(* IsBudgetCollateralValid: its confirmations in the chain.                *)
Confirmations(i) == IF Mined[i] <= tip THEN tip - Mined[i] + 1 ELSE 0
IsBudgetCollateralValid(i) == Confirmations(i) >= FeeConfirmations

BlockEnd(b) == BlockStart[b] + Len(Payments[b]) - 1
Covers(b, h) == h \in BlockStart[b]..BlockEnd(b)
NextCycle == (tip - (tip % Cycle)) + Cycle

VoteCount(s, b) == Cardinality({m \in MN : s.votes[b][m] # None})
Counted(s, p, yes) == {m \in MN \ s.off[p] : s.votes[p][m] # None /\ s.votes[p][m].yes = yes}
Net(s, p) == Cardinality(Counted(s, p, TRUE)) - Cardinality(Counted(s, p, FALSE))

(* CBudgetProposal::IsValid: no active removal, and not over.              *)
ProposalEnd(p) == From[p] + Cycle * ((To[p] - (From[p] - (From[p] % Cycle))) \div Cycle)
ProposalValid(s, p) ==
    /\ -Net(s, p) <= CountEnabled \div 10
    /\ IsBudgetCollateralValid(p) /\ Amount[p] <= Total /\ ProposalEnd(p) >= tip

(* CFinalizedBudget::IsValid: pays no more than it may, not obsolete.      *)
TotalPayout(b) == FoldLeft(LAMBDA sum, p : sum + Amount[p], 0, Payments[b])
Obsolete(b) == BlockEnd(b) < NextCycle - 2 * Cycle
BudgetValid(b) == TotalPayout(b) <= Total /\ IsBudgetCollateralValid(b) /\ ~Obsolete(b)

IsValid(s, i) == IF i \in Proposal THEN ProposalValid(s, i) ELSE BudgetValid(i)

(* A broadcast is checked without votes; AddProposal, AddFinalizedBudget   *)
(* of the items of S.                                                      *)
Add(s, S) ==
    LET new == {i \in S \ s.known : IsValid(Empty, i)}
    IN  [s EXCEPT !.known = @ \cup new,
                  !.votes = [i \in Item |-> IF i \in new THEN NoVotes ELSE @[i]],
                  !.off = [i \in Item |-> IF i \in new THEN {} ELSE @[i]]]

(* AddOrUpdateVote takes a vote unless there is a newer, or recent, one;   *)
(* vote has the one taken for each of some items.                          *)
Takes(s, v) ==
    LET old == s.votes[v.item][v.mn] IN old # None => v.time >= old.time + UpdateMin
AddOrUpdateVote(s, vote) ==
    [s EXCEPT !.votes = [i \in Item |-> IF i \in DOMAIN vote THEN [@[i] EXCEPT ![vote[i].mn] = vote[i]] ELSE @[i]],
              !.off = [i \in Item |-> IF i \in DOMAIN vote THEN @[i] \ {vote[i].mn} ELSE @[i]]]
Ballot(v) == [i \in {v.item} |-> v]

(* UpdateProposal, UpdateFinalizedBudget; without a peer (RPC, orphans)    *)
(* nothing is kept for an unknown item.  One orphan an item is kept.       *)
(* Mutation: the item is not looked up.                                    *)
UpdateUnknown(s, v) == IF Takes(s, v) THEN AddOrUpdateVote(s, Ballot(v)) ELSE s
Update(s, v) ==
    IF v.item \notin s.known THEN [s EXCEPT !.orphan[v.item] = v]
    ELSE IF Takes(s, v) THEN AddOrUpdateVote(s, Ballot(v)) ELSE s

(* CheckOrphanVotes.  Mutation: those of the proposals only.               *)
Orphaned(s, i) == s.orphan[i] # None /\ i \in s.known /\ Takes(s, s.orphan[i])
SettleOrphans(s, S) ==
    [AddOrUpdateVote(s, [i \in S |-> s.orphan[i]]) EXCEPT
        !.orphan = [i \in Item |-> IF i \in S THEN None ELSE @[i]]]
CheckProposalOrphans(s) == SettleOrphans(s, {i \in Proposal : Orphaned(s, i)})
CheckOrphanVotes(s) == SettleOrphans(s, {i \in Item : Orphaned(s, i)})

(* CleanAndRemove of the items of S.                                       *)
CleanAndRemove(s, S) ==
    [s EXCEPT !.off = [i \in Item |-> IF i \in S \cap s.known
                                      THEN {m \in MN \ listed : s.votes[i][m] # None} ELSE @[i]]]

-----------------------------------------------------------------------------
(* GetBudget: the proposals with the best votes that fit (ties by hash,    *)
(* here the order of CHOOSE).                                              *)
IsPassing(s, p) ==
    /\ From[p] <= NextCycle /\ To[p] >= NextCycle + Cycle - 1
    /\ Net(s, p) > CountEnabled \div 10 /\ tip > Mined[p] + Establishment
GetBudget(s) ==
    LET ranked == SetToSortSeq({p \in Proposal \cap s.known : IsPassing(s, p)}, LAMBDA p, q : Net(s, p) > Net(s, q))
        allot(acc, p) == IF acc.sum + Amount[p] <= Total
                         THEN [sum |-> acc.sum + Amount[p], set |-> acc.set \cup {p}] ELSE acc
    IN  FoldLeft(allot, [sum |-> 0, set |-> {}], ranked).set

(* CheckAndVote of the budgets of B, with SubmitVote: an exact match in    *)
(* any order is voted for.  The vote for one is no matter to the others.   *)
Matches(s, b) ==
    LET set == GetBudget(s) IN set # {} /\ Len(Payments[b]) = Cardinality(set) /\ ToSet(Payments[b]) = set
FinVote(b) == [mn |-> Self, item |-> b, time |-> 0, yes |-> TRUE]
Submits(s, b) == Matches(s, b) /\ Takes(s, FinVote(b))
CheckAndVote(s, B) ==
    LET clean == CleanAndRemove(s, Proposal)
        vote == [b \in {b \in B : Submits(clean, b)} |-> FinVote(b)]
    IN  IF B = {} THEN s
        ELSE [AddOrUpdateVote(clean, vote) EXCEPT !.seen = @ \cup {FinVote(b) : b \in DOMAIN vote}]

(* CheckAndRemove; rand() % 4 = 0 for the budgets of R.                    *)
(* Mutation: budgets are never removed.                                    *)
Keep(s, K) ==
    [s EXCEPT !.known = K, !.votes = [i \in Item |-> IF i \in K THEN @[i] ELSE NoVotes],
              !.off = [i \in Item |-> IF i \in K THEN @[i] ELSE {}]]
Voted(s, R) == CheckAndVote(s, {b \in R \cap s.known : BudgetValid(b)})
RemoveProposals(s, R) ==
    LET voted == Voted(s, R) IN Keep(voted, {i \in voted.known : i \in Fin \/ IsValid(voted, i)})
CheckAndRemove(s, R) ==
    LET voted == Voted(s, R) IN Keep(voted, {i \in voted.known : IsValid(voted, i)})

(* The immature items of NewBlock.  Those whose collateral has matured     *)
(* leave the list, added or not.  Mutation: only those added leave it.     *)
SettleAdded(s) ==
    LET ripe == {i \in s.immature : IsBudgetCollateralValid(i) /\ IsValid(Empty, i) /\ i \notin s.known}
    IN  [Add(s, ripe) EXCEPT !.immature = @ \ ripe]
SettleImmature(s) ==
    LET ripe == {i \in s.immature : IsBudgetCollateralValid(i)}
    IN  [Add(s, ripe) EXCEPT !.immature = @ \ ripe]

ClearSeen(s) == [s EXCEPT !.seen = {}]

-----------------------------------------------------------------------------
Covering(s, h) == {b \in Fin \cap s.known : Covers(b, h)}
HighestCount(s, h, least) == CHOOSE n \in {least} \cup {VoteCount(s, b) : b \in Covering(s, h)} :
    n >= least /\ \A b \in Covering(s, h) : n >= VoteCount(s, b)

IsBudgetPaymentBlock(s, h) == HighestCount(s, h, -1) > CountEnabled \div 20

(* FillBlockPayee of both files: a block pays what the first budget with   *)
(* the most votes says or, when it is no budget block, a masternode.  The  *)
(* payee of a budget block passes as a masternode's only if none is voted  *)
(* for, which mn tells.                                                    *)
Payment(b, h) == Payments[b][h - BlockStart[b] + 1]
FillBlockPayee(s, h, mn) ==
    LET best == {i \in 1..Len(FinSeq) : FinSeq[i] \in Covering(s, h) /\ VoteCount(s, FinSeq[i]) = HighestCount(s, h, 0)}
    IN  IF ~IsBudgetPaymentBlock(s, h) THEN [budget |-> None, mn |-> TRUE]
        ELSE [budget |-> Payment(FinSeq[CHOOSE i \in best : \A j \in best : i <= j], h), mn |-> mn]

(* CFinalizedBudget::IsTransactionValid and IsPaidAlready, which forgets   *)
(* the payments of other cycles and notes the one it is asked about.       *)
Forget(hist, b) == [p \in Proposal |-> IF Covers(b, hist[p]) THEN hist[p] ELSE 0]
BudgetVerdict(b, h, pay, hist) ==
    LET recent == Forget(hist, b)
    IN  IF pay # Payment(b, h) THEN [status |-> "InValid", history |-> hist]
        ELSE IF recent[pay] # 0 THEN [status |-> "DoublePayment", history |-> recent]
        ELSE [status |-> "Valid", history |-> [recent EXCEPT ![pay] = h]]

(* CBudgetManager::IsTransactionValid: every known budget with enough      *)
(* votes is asked, in the order of the hashes, until one is satisfied.     *)
(* Mutation: the highest count is taken over all cycles.                   *)
Asked(above, h, pay, hist) ==
    LET asked[n \in 0..Len(FinSeq)] ==
            IF n = 0 THEN [status |-> "InValid", history |-> hist]
            ELSE IF asked[n - 1].status = "Valid" \/ FinSeq[n] \notin above \/ ~Covers(FinSeq[n], h) THEN asked[n - 1]
            ELSE BudgetVerdict(FinSeq[n], h, pay, asked[n - 1].history)
    IN  asked
Verdict(s, h, pay, hist, highest) ==
    LET above == {b \in Fin \cap s.known : VoteCount(s, b) > highest - CountEnabled \div 10}
        answer == Asked(above, h, pay, hist)[Len(FinSeq)]
    IN  IF highest < CountEnabled \div 20 THEN [status |-> "InValid", history |-> hist]
        ELSE IF above = {} THEN [answer EXCEPT !.status = "VoteThreshold"] ELSE answer
VerdictOverall(s, h, pay, hist) ==
    Verdict(s, h, pay, hist, CHOOSE n \in {VoteCount(s, b) : b \in Fin} : \A b \in Fin : n >= VoteCount(s, b))
IsTransactionValid(s, h, pay, hist) == Verdict(s, h, pay, hist, HighestCount(s, h, 0))

(* IsBlockPayeeValid with superblocks and both enforcements on; mn is the  *)
(* answer of CMasternodePayments::IsTransactionValid.                      *)
IsBlockPayeeValid(s, h, block, hist) ==
    LET verdict == IsTransactionValid(s, h, block.budget, hist)
    IN  IF ~IsBudgetPaymentBlock(s, h) THEN [ok |-> block.mn, history |-> hist]
        ELSE [ok |-> verdict.status = "Valid" \/ (verdict.status # "InValid" /\ block.mn),
              history |-> verdict.history]

-----------------------------------------------------------------------------
(* "mprop" and "fbs".                                                      *)
ItemArrives(i) ==
    /\ i \in traffic /\ i \notin bm.seen
    /\ IF ~IsBudgetCollateralValid(i)
       THEN /\ Confirmations(i) >= 1
            /\ bm' = [bm EXCEPT !.immature = @ \cup {i}] /\ UNCHANGED silent
       ELSE LET seen == [bm EXCEPT !.seen = @ \cup {i}] IN
            IF IsValid(Empty, i)
            THEN bm' = CheckOrphanVotes(Add(seen, {i})) /\ silent' = {}
            ELSE bm' = seen /\ UNCHANGED silent
    /\ UNCHANGED world

(* "mvote" and "fbvote" of a masternode in the list, ...                   *)
VoteArrives(v) ==
    /\ v \in traffic /\ v \notin bm.seen /\ v.mn \in listed
    /\ bm' = Update([bm EXCEPT !.seen = @ \cup {v}], v)
    /\ UNCHANGED <<silent, world>>

(* ... and with a signature that is not that of the key known for it.      *)
VoteRefused(v) ==
    /\ v \in traffic /\ v \notin bm.seen /\ v.mn \in listed \cap Stranger
    /\ bm' = [bm EXCEPT !.seen = @ \cup {v}]
    /\ UNCHANGED <<silent, world>>

(* mnbudgetvote, and "vote" of mnfinalbudget.                              *)
RpcVote(v) ==
    /\ v \in traffic /\ v.mn = Self /\ v.item \in bm.known /\ Takes(bm, v)
    /\ bm' = [AddOrUpdateVote(bm, Ballot(v)) EXCEPT !.seen = @ \cup {v}]
    /\ UNCHANGED <<silent, world>>

(* submitbudget.                                                           *)
RpcSubmit(p) ==
    /\ p \in traffic \cap Proposal /\ IsBudgetCollateralValid(p)
    /\ bm' = Add([bm EXCEPT !.seen = @ \cup {p}], {p})
    /\ silent' = silent \cup (bm'.known \ bm.known)
    /\ UNCHANGED world

(* checkbudgets.                                                           *)
RpcCheck(R) ==
    /\ bm' = CheckAndRemove(bm, R) /\ silent' = silent \cap bm'.known
    /\ UNCHANGED world

(* CBudgetManager::NewBlock; once in a while what was seen is forgotten.   *)
NewBlock(R, clear) ==
    LET kept == CheckAndRemove(IF clear THEN ClearSeen(bm) ELSE bm, R)
    IN  /\ bm' = SettleImmature(CleanAndRemove(kept, Item))
        /\ silent' = (silent \cap kept.known) \cup (bm'.known \ kept.known)
        /\ UNCHANGED world

(* CheckBlock of a block on top of the tip that is not connected, ...      *)
CheckBlock(block) ==
    /\ tip < MaxTip /\ history' = IsBlockPayeeValid(bm, tip + 1, block, history).history
    /\ UNCHANGED <<bm, silent, listed, traffic, tip, stops>>

(* ... and of one that is.                                                 *)
ConnectBlock(block) ==
    LET checked == IsBlockPayeeValid(bm, tip + 1, block, history)
    IN  /\ tip < MaxTip /\ checked.ok /\ tip' = tip + 1 /\ history' = checked.history
        /\ UNCHANGED <<bm, silent, listed, traffic, stops>>

(* The list of masternodes changes.                                        *)
Leave(m) == m \in Leaver \cap listed /\ listed' = listed \ {m} /\ UNCHANGED <<bm, silent, history, traffic, tip, stops>>
Return(m) == m \in Leaver \ listed /\ listed' = listed \cup {m} /\ UNCHANGED <<bm, silent, history, traffic, tip, stops>>

(* A restart with the file of DumpBudgets, or without a readable one.  The *)
(* file has no immature items and no fValid; CBudgetDB::Read ends with     *)
(* CheckAndRemove, not yet as a masternode.                                *)
Restart(found) ==
    /\ stops < MaxStops /\ stops' = stops + 1 /\ history' = [p \in Proposal |-> 0]
    /\ bm' = IF found
             THEN ClearSeen(CheckAndRemove([bm EXCEPT !.off = [i \in Item |-> {}], !.immature = {}], {}))
             ELSE Empty
    /\ silent' = silent \cap bm'.known
    /\ UNCHANGED <<listed, traffic, tip>>

Block == [budget : Proposal \cup {None}, mn : BOOLEAN]
Next ==
    \/ /\ \/ \E i \in Item : ItemArrives(i) \/ RpcSubmit(i)
          \/ \E v \in traffic \cap Vote : VoteArrives(v) \/ VoteRefused(v) \/ RpcVote(v)
          \/ \E R \in SUBSET Fin : RpcCheck(R)
          \/ \E block \in Block : CheckBlock(block) \/ ConnectBlock(block)
          \/ \E m \in Leaver : Leave(m) \/ Return(m)
          \/ \E found \in BOOLEAN : Restart(found)
       /\ swept' = FALSE
    \/ \E R \in SUBSET Fin, clear \in BOOLEAN : NewBlock(R, clear) /\ swept' = TRUE

(* Blocks keep coming: NewBlock, which is always enabled, runs again after *)
(* whatever else runs.                                                     *)
Fairness == []<>swept
Spec == Init /\ [][Next]_vars /\ Fairness

-----------------------------------------------------------------------------
(* Everything is of its type, and only known items have votes.             *)
TypeOK ==
    /\ bm \in Manager
    /\ \A i \in Item : bm.off[i] \subseteq {m \in MN : bm.votes[i][m] # None}
    /\ \A i \in Item \ bm.known : bm.votes[i] = NoVotes
    /\ \A i \in Item, m \in MN : bm.votes[i][m] # None => bm.votes[i][m].item = i /\ bm.votes[i][m].mn = m
    /\ \A i \in Item : bm.orphan[i] # None => bm.orphan[i].item = i
    /\ history \in [Proposal -> Height] /\ listed \subseteq MN /\ silent \subseteq bm.known
    /\ swept \in BOOLEAN /\ tip \in FirstTip..MaxTip /\ stops \in 0..MaxStops

(* With ten enabled masternodes the block FillBlockPayee makes is one that *)
(* IsBlockPayeeValid takes unless IsPaidAlready knows its payment; when a  *)
(* single budget covers the height it is never InValid, and taken again    *)
(* when the masternode payment is in order.                                *)
BudgetBlockAccepted ==
    \A mn \in BOOLEAN :
        LET h == tip + 1
            block == FillBlockPayee(bm, h, mn)
            checked == IsBlockPayeeValid(bm, h, block, history)
            paid == block.budget # None /\ \E b \in Covering(bm, h) : Covers(b, history[block.budget])
        IN  CountEnabled >= 10 =>
            /\ ~paid => checked.ok
            /\ mn /\ Cardinality(Covering(bm, h)) = 1 =>
                   checked.ok /\ IsBlockPayeeValid(bm, h, block, checked.history).ok

(* CheckOrphanVotes leaves no vote behind whose item has come: an orphan   *)
(* of a known item was refused for a newer or recent vote of its           *)
(* masternode, or the item was added where the orphans are not looked at.  *)
OrphansWait ==
    \A i \in bm.known : bm.orphan[i] # None => i \in silent \/ ~Takes(bm, bm.orphan[i])

(* CheckAndRemove clears budgets that end two cycles back, and no peer,    *)
(* list of immature ones or file brings one of them back.                  *)
ObsoleteRemoved == \A b \in Fin : Obsolete(b) ~> [](b \notin bm.known)

(* An item whose collateral has matured leaves the list of the immature,   *)
(* even if it has come again, and was added, by a message.                 *)
ImmatureSettle == \A i \in Item : (i \in bm.immature /\ IsBudgetCollateralValid(i)) ~> i \notin bm.immature
=============================================================================
