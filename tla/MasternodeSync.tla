-------------------------- MODULE MasternodeSync --------------------------
(***************************************************************************)
(* How a node catches up on sporks, masternodes, winners and budgets:      *)
(* src/src/masternode-sync.cpp.  Process runs on the obfuscation thread    *)
(* and acts every MASTERNODE_SYNC_TIMEOUT (5) seconds; one such round is   *)
(* one action, though messages and RPC calls take none of its mutexes.     *)
(* Messages, RPC calls and peers come and go between rounds.               *)
(*                                                                         *)
(* Times are kept as ages, in rounds, and saturate where no comparison     *)
(* tells them apart.  Items arrive anywhere between two rounds and a round *)
(* is a little longer than 5 seconds, so at one age each comparison may go *)
(* either way.  Left out: the counts of "ssc" messages, which decide       *)
(* nothing here, the branch for the regression test network, and peers of  *)
(* an old version, which the list, winner and budget stages pass over.     *)
(***************************************************************************)
EXTENDS Integers, FiniteSets, Sequences, SequencesExt

CONSTANTS
    Peer,          \* the nodes this one may be connected to
    Churn,         \* those that connect and disconnect
    Threshold,     \* MASTERNODE_SYNC_THRESHOLD (2 in the code)
    MaxItems,      \* items of each kind that still count (see Added)
    ClearMayFail,  \* whether ClearFulfilledRequest may find cs_vNodes taken
    QuietRounds,   \* rounds in 10 seconds since an item   (3 in the code)
    LateRounds,    \* rounds in 25 seconds of a stage      (5 in the code)
    RetryRounds    \* rounds in 60 seconds since a failure (12 in the code)

ASSUME SyncAssumption ==
    /\ IsFiniteSet(Peer) /\ Churn \subseteq Peer
    /\ MaxItems \in Nat /\ Threshold \in Nat \ {0} /\ ClearMayFail \in BOOLEAN
    /\ QuietRounds \in Nat /\ LateRounds \in Nat /\ RetryRounds \in Nat

None == -1          \* a time that is 0: nothing yet

Stage == {"LIST", "MNW", "BUDGET"}
Asset == {"INITIAL", "SPORKS", "FAILED", "FINISHED"} \cup Stage
Request == {"SPORKS"} \cup Stage

VARIABLES
    sync,        \* the fields of CMasternodeSync
    fulfilled,   \* the peers marked with each request
    vNodes,      \* the peers connected, in the order they came
    tipRecent    \* there is a tip, at most an hour old, and no import runs

syncVars == <<sync, fulfilled, vNodes, tipRecent>>

(* asset, attempt: RequestedMasternodeAssets and -Attempt; started:        *)
(* nAssetSyncStarted; last: lastMasternodeList, -Winner, lastBudgetItem;   *)
(* failed: lastFailure; left: items before mapSeenSync* reach the          *)
(* threshold; chain: fBlockchainSynced; stale: lastProcess is more than an *)
(* hour ago.                                                               *)
Sync == [asset : Asset, attempt : 0..(3 * Threshold), started : 0..(LateRounds + 1),
         failed : 0..(RetryRounds + 1), last : [Stage -> None..(QuietRounds + 1)], left : [Stage -> 0..MaxItems],
         chain : BOOLEAN, stale : BOOLEAN]

(* Attempts stay within their limit and the ages within their bounds.      *)
SyncTypeOK ==
    /\ sync \in Sync
    /\ fulfilled \in [Request -> SUBSET Peer]
    /\ vNodes \in Seq(Peer) /\ IsInjective(vNodes)
    /\ tipRecent \in BOOLEAN

-----------------------------------------------------------------------------
Reset(s) ==
    [s EXCEPT !.asset = "INITIAL", !.attempt = 0, !.started = 0, !.failed = 0,
              !.last = [k \in Stage |-> None], !.left = [k \in Stage |-> MaxItems],
              !.chain = FALSE, !.stale = TRUE]

SyncInit ==
    /\ sync = Reset([asset |-> "INITIAL", attempt |-> 0, started |-> 0, failed |-> 0,
                     last |-> [k \in Stage |-> None], left |-> [k \in Stage |-> 0],
                     chain |-> FALSE, stale |-> TRUE])
    /\ fulfilled = [r \in Request |-> {}]
    /\ vNodes = SetToSeq(Peer)
    /\ tipRecent = FALSE

NextAsset == [INITIAL |-> "SPORKS", FAILED |-> "SPORKS", SPORKS |-> "LIST", LIST |-> "MNW",
              MNW |-> "BUDGET", BUDGET |-> "FINISHED"]
GetNextAsset(s) == [s EXCEPT !.asset = NextAsset[s.asset], !.attempt = 0, !.started = 0]

Fail(s) == [s EXCEPT !.asset = "FAILED", !.attempt = 0, !.failed = 0]

(* IsBlockchainSynced: the state after it.  It starts over when it was not *)
(* called for an hour, also right after Reset, which clears lastProcess.   *)
(* Mutation: after an hour only the chain is doubted.                      *)
DoubtChain(s, locked) ==
    LET t == IF s.stale THEN [s EXCEPT !.chain = FALSE, !.stale = FALSE] ELSE s
    IN  [t EXCEPT !.chain = t.chain \/ (locked /\ tipRecent)]
IsBlockchainSynced(s, locked) ==
    LET t == IF s.stale THEN [Reset(s) EXCEPT !.stale = FALSE] ELSE s
    IN  [t EXCEPT !.chain = t.chain \/ (locked /\ tipRecent)]

(* A round later.  A time ages only where it is still going to be read.   *)
Older(age, max) == IF age = None \/ age > max THEN age ELSE age + 1
Passed(s, k) == s.asset = "FINISHED" \/ <<k, s.asset>> \in
                    {<<"LIST", "MNW">>, <<"LIST", "BUDGET">>, <<"MNW", "BUDGET">>}
Aged(s) ==
    [s EXCEPT !.started = IF s.asset \in Stage THEN Older(@, LateRounds) ELSE @,
              !.failed = IF s.asset = "FAILED" THEN Older(@, RetryRounds) ELSE @,
              !.last = [k \in Stage |-> IF Passed(s, k) THEN s.last[k]
                                        ELSE Older(s.last[k], QuietRounds)]]

(* Nothing new for 10 seconds; the stage is older than 25; the failure is  *)
(* older than 60: each may be so at one age and must be so beyond.         *)
Beyond(age, limit, may) == age > limit \/ (may /\ age = limit)
IsQuiet(s, k, may) == s.last[k] # None /\ Beyond(s.last[k], QuietRounds, may)
IsLate(s, may) == Beyond(s.started, LateRounds, may)
MayRetry(s, may) == Beyond(s.failed, RetryRounds, may)

(* The attempts a stage makes.  Mutation: one more.                        *)
OneMore == 3 * Threshold + 1
MaxAttempts == 3 * Threshold

Gone(s, k, may) == s.last[k] = None /\ (s.attempt >= MaxAttempts \/ IsLate(s, may))
Enough(s, k, may) == IsQuiet(s, k, may) /\ s.attempt >= Threshold

-----------------------------------------------------------------------------
Connected == ToSet(vNodes)
Unasked(marks, r) == Connected \ marks[r]
Mark(marks, r) ==
    LET i == CHOOSE i \in DOMAIN vNodes :
                 /\ vNodes[i] \notin marks[r]
                 /\ \A j \in 1..(i - 1) : vNodes[j] \in marks[r]
    IN  [marks EXCEPT ![r] = @ \cup {vNodes[i]}]
Ask(s) == IF s.attempt >= MaxAttempts THEN s ELSE [s EXCEPT !.attempt = @ + 1]

(* The loop over vNodes, from state s and marks m on: what it leaves.      *)
AskForSporks(s, m) ==
    /\ s.asset = "SPORKS" /\ Unasked(m, "SPORKS") # {}
    /\ fulfilled' = Mark(m, "SPORKS")
    /\ LET t == IF s.attempt >= 2 THEN GetNextAsset(s) ELSE s
       IN  sync' = [t EXCEPT !.attempt = @ + 1]

(* The list and the winners: the limits are looked at with a peer that was *)
(* not asked yet.                                                          *)
ListOrWinners(s, m, k, may) ==
    /\ s.asset = k /\ vNodes # <<>>
    /\ \/ Enough(s, k, may) /\ sync' = GetNextAsset(s) /\ fulfilled' = m
       \/ /\ ~ Enough(s, k, may)
          /\ Unasked(m, k) # {} /\ fulfilled' = Mark(m, k)
          /\ IF Gone(s, k, may)
             THEN sync' \in {Fail(s), GetNextAsset(s)}   \* by SPORK_8
             ELSE sync' = Ask(s)

Budget(s, m, may) ==
    /\ s.asset = "BUDGET" /\ vNodes # <<>>
    /\ \/ /\ Enough(s, "BUDGET", may) \/ Gone(s, "BUDGET", may)
          /\ sync' = GetNextAsset(s) /\ fulfilled' = m
       \/ /\ ~ (Enough(s, "BUDGET", may) \/ Gone(s, "BUDGET", may))
          /\ Unasked(m, "BUDGET") # {} /\ fulfilled' = Mark(m, "BUDGET")
          /\ sync' = Ask(s)

(* No peer, or none that this stage has not asked, and no limit reached.   *)
NobodyToAsk(s, m, may) ==
    /\ s.asset \in Request => Unasked(m, s.asset) = {}
    /\ (s.asset \in Stage /\ vNodes # <<>>) => ~ Enough(s, s.asset, may)
    /\ (s.asset = "BUDGET" /\ vNodes # <<>>) => ~ Gone(s, "BUDGET", may)
    /\ sync' = s /\ fulfilled' = m

Loop(s, m, may) ==
    \/ AskForSporks(s, m)
    \/ \E k \in {"LIST", "MNW"} : ListOrWinners(s, m, k, may)
    \/ Budget(s, m, may)
    \/ NobodyToAsk(s, m, may)

(* Process.  none: no masternode is enabled; clears, mains, nodes: how     *)
(* TRY_LOCK may fare in ClearFulfilledRequest, in IsBlockchainSynced and   *)
(* before the loop.                                                        *)
Retried(s, none, may) ==
    IF (s.asset = "FINISHED" /\ none) \/ (s.asset = "FAILED" /\ MayRetry(s, may))
    THEN Reset(s) ELSE s

(* Mutation: the request for sporks stays marked.                          *)
ClearStages(s, clear) ==
    IF s.asset = "INITIAL" /\ clear
    THEN [r \in Request |-> IF r \in Stage THEN fulfilled[r] \ Connected ELSE fulfilled[r]]
    ELSE fulfilled
ClearFulfilledRequest(s, clear) ==
    IF s.asset = "INITIAL" /\ clear THEN [r \in Request |-> fulfilled[r] \ Connected] ELSE fulfilled

Process(clears, mains, nodes) ==
    /\ \E a \in {Aged(sync)} : \E s \in {Retried(a, none, may) : none, may \in BOOLEAN} :
          \/ /\ s.asset \in {"FINISHED", "FAILED"}
             /\ sync' = s /\ UNCHANGED fulfilled
          \/ /\ s.asset \notin {"FINISHED", "FAILED"}
             /\ \E m \in {ClearFulfilledRequest(s, clear) : clear \in clears},
                   n \in {IF s.asset = "INITIAL" THEN GetNextAsset(s) ELSE s}, locked \in nodes :
                \E c \in {IsBlockchainSynced(n, main) : main \in mains} :
                   IF ~ locked \/ (~ c.chain /\ c.asset \in Stage)
                   THEN sync' = c /\ fulfilled' = m
                   ELSE \E may \in BOOLEAN : Loop(c, m, may)
    /\ UNCHANGED <<vNodes, tipRecent>>

Round == Process(IF ClearMayFail THEN BOOLEAN ELSE {TRUE}, BOOLEAN, BOOLEAN)
LockedRound == Process({TRUE}, {TRUE}, {TRUE})

-----------------------------------------------------------------------------
(* AddedMasternodeList, AddedMasternodeWinner, AddedBudgetItem.  A hash    *)
(* counts at most MASTERNODE_SYNC_THRESHOLD times.                         *)
Added(k) ==
    /\ sync.left[k] > 0
    /\ sync' = [sync EXCEPT !.last[k] = 0, !.left[k] = @ - 1]
    /\ UNCHANGED <<fulfilled, vNodes, tipRecent>>

(* IsBlockchainSynced called by a message handler or the thread itself.    *)
Called ==
    /\ \E main \in BOOLEAN : sync' = IsBlockchainSynced(sync, main)
    /\ UNCHANGED <<fulfilled, vNodes, tipRecent>>

(* RPC "mnsync reset".                                                     *)
MnsyncReset ==
    /\ sync' = Reset(sync)
    /\ UNCHANGED <<fulfilled, vNodes, tipRecent>>

(* The computer sleeps for more than an hour.                              *)
Sleep ==
    /\ sync' = [sync EXCEPT !.stale = TRUE]
    /\ tipRecent' = FALSE
    /\ UNCHANGED <<fulfilled, vNodes>>

BlockArrives ==
    /\ tipRecent' = TRUE
    /\ UNCHANGED <<sync, fulfilled, vNodes>>

Connect(p) ==
    /\ p \notin Connected /\ vNodes' = Append(vNodes, p)
    /\ UNCHANGED <<sync, fulfilled, tipRecent>>

Disconnect(p) ==
    /\ \E i \in DOMAIN vNodes : vNodes[i] = p /\ vNodes' = RemoveAt(vNodes, i)
    /\ fulfilled' = [r \in Request |-> fulfilled[r] \ {p}]
    /\ UNCHANGED <<sync, tipRecent>>

SyncNext ==
    \/ Round
    \/ \E k \in Stage : Added(k)
    \/ Called \/ MnsyncReset \/ Sleep \/ BlockArrives
    \/ \E p \in Churn : Connect(p) \/ Disconnect(p)

SyncSpec == SyncInit /\ [][SyncNext]_syncVars

(* ThreadCheckObfuscationPool calls Process every second; a mutex it tries *)
(* is free now and then; blocks arrive.                                    *)
SyncFairSpec == SyncSpec /\ WF_syncVars(LockedRound) /\ WF_syncVars(BlockArrives)

-----------------------------------------------------------------------------
(* The node counts as synced, or goes on beyond the list, only after it    *)
(* had the block chain since the sync last started over: whoever resets    *)
(* one resets the other, on every path (RPC, sleep, retry, no masternodes).*)
FinishedOnChain == sync.asset \in {"MNW", "BUDGET", "FINISHED"} => sync.chain

(* No stage lasts forever: with enough peers, each ends by what arrived,   *)
(* by its limit of attempts or by its time limit, and a failed sync is     *)
(* tried again.                                                            *)
StageEnds == \A a \in Asset \ {"INITIAL", "FINISHED"} : sync.asset = a ~> sync.asset # a

(* "timeout" (masternode-sync.cpp:332): the list stage ends also when      *)
(* nobody sends a masternode.                                              *)
ListStageEnds == sync.asset = "LIST" ~> sync.asset # "LIST"
=============================================================================
