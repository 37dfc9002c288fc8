# SchillingCoin in TLA+

A verification development for the SchillingCoin node (`src/`, a fork of PIVX and
Dash in C++). It models the parts of the node whose correctness depends on the
order of events: threads, messages, crashes, timeouts and failed writes. TLC
checks small instances; TLAPS proves the main results for all of them.

Source paths below are relative to `src/src/`. `PROJECT.json` maps every
definition to the lines it models.

## 1. Inventory

| Part | State | Operations | Talks to | What is hard about it |
|---|---|---|---|---|
| Transaction locks (`swifttx.cpp`) | `mapTxLockReq`, `mapTxLockReqRejected`, `mapTxLockVote`, `mapTxLocks`, `mapLockedInputs` | lock request, vote, clean-up | memory pool, block check, masternode ranks | votes before requests, redelivery, refused requests, conflicts, expiry |
| Script check queue (`checkqueue.h`) | queue, counters, result, condition variables | `Add`, `Wait`, worker loop, control object | `ConnectBlock` | lost wake-ups, results merged by several threads |
| Sporks (`spork.cpp`, `sporkdb.cpp`) | `mapSporks`, `mapSporksActive`, database | update by RPC, spork message, getsporks, load | everything that asks for a spork | check and store under separate locks, relay before store, restart |
| Coins views (`coins.cpp`, `txdb.cpp`) | block view, `pcoinsTip`, LevelDB | fetch, modify, merge, flush | `ConnectTip`, `DisconnectTip`, shutdown | FRESH and DIRTY flags, crash, failed write |
| Masternode sync (`masternode-sync.cpp`) | stage, attempts, times, marks on peers | `Process`, items, reset | peers, chain tip | stages that must end, marks that outlive a reset, sleep |
| Masternode list (`masternode*.cpp`, `activemasternode.cpp`) | masternodes, broadcasts and pings seen | broadcast, ping, check and remove, rank | sync, payments, locks | stale block hashes, expiry against late pings |
| Masternode payments (`masternode-payments.cpp`) | votes, payees of each height | vote, block check, clean-up | list, budget, blocks | order of votes, same payee everywhere |
| Budget (`masternode-budget.cpp`) | proposals, finalized budgets, votes, orphan votes | submit, vote, update, check and remove | payments, blocks | orphan votes, thresholds, copies that lose state |
| Chain (`main.cpp`, `chain.cpp`) | block index, active chain, candidates | accept, connect, disconnect, invalidate, load | coins, pool, wallet | reorganisation, crash between index and coins |
| Memory pool (`txmempool.cpp`) | transactions, spends | accept, remove, return after a disconnect | chain, locks | conflicts, order of removal |
| Scheduler (`scheduler.cpp`) | task queue, threads | schedule, serve, stop | wallet, net | stop against drain |
| Network (`net.cpp`, `addrman.cpp`) | peers, inventory, addresses | connect, send, receive | all of the above | sockets are I/O; inventory is in Spork |

Wallet, proof of stake, zerocoin, script, serialisation, servers and the user
interface are listed in `PROJECT.json` with the reason they are not modelled.

## 2. Modules

Definitions whose comment begins with "Mutation" are wrong variants of the one
that follows. No specification uses them: they serve to test that each property
notices the mistake.

### SwiftTX: transaction locks on one node

Variables are the five maps of `swifttx.cpp`. Each handler is one action:
`LockRequestAccepted` and `LockRequestRejected` ("ix"), `LocalLockRequest` (the
wallet's and RPC's own requests), `VoteAdded` and `VoteIgnored` ("txlvote"),
`CleanTransactionLocksList`, `Tick`. What the memory pool, the chain and the
masternode list answer is an input. Time is kept as what is left of a lock.

Checked: a complete lock rests on enough different, ranked masternodes for the
lock's own height (`QuorumIsGenuine`); no lock completes unasked
(`CompleteLockWasRequested`); a reservation ends only with the clean-up of an
expired lock over the same input (`ReservationKept`); every lock goes away
(`LocksExpire`). That no reservation outlives its lock does not hold (section 5).

Left out: the limiter for votes on unknown transactions, `nTimeout`,
`nCompleteTXLocks` and the wallet notification at exactly the required count.
`ReprocessBlocks`, which a completed lock calls, is in `BlockChain`. The maps have
no mutex of their own; handlers are taken as atomic. Nothing is persisted, so a
restart is `Init`.

### CheckQueue and ParallelCheck: parallel script checks

`CheckQueue` has one action per critical section of `CCheckQueue::Loop`, with a
program counter for each thread and wait sets for the two condition variables.
Spurious wake-ups and thread interruption at shutdown are actions.
`ParallelCheck` is the promise made to `ConnectBlock`: open, add, wait, and be
told whether everything added was good. `ImplementsParallelCheck` is refinement.

### Spork: one spork in a network

Nodes exchange announcements, requests and sporks in a set of packets, delivered
in any order. `UpdateSpork` is two actions because it relays before it stores.
`ProcessSpork` is three (check, store and relay, write to the database) because
`cs` is released between them. `Restart` loads the database. The ghost `early`
holds the sporks that a request or `getsporks` asked for between relay and store.
One update at a time runs on a signer. Signatures, the window for the old key and
clock differences are left out.

Checked: a node that is no signer never returns to an older spork (`NeverOlder`),
also over a restart between handlers (`RestartKeeps`); once nothing is under way no
node is behind another (`QuietAgree`). A peer may miss a spork of `early`, but not
the ones before it and not the next. `NeverOlder` does not hold for signers (section 5).

### CoinsCache and UTXOSet: the layers of coins

`CoinsCache` has the database, `pcoinsTip` and the view of the block being
connected, with flags per entry. `UTXOSet` has one set of coins: a block changes
it atomically, saving makes it durable, a crash returns to what was saved, and a
failed save loses the coins since then while the tip keeps its name.
`stateOf` and `failed` are ghosts: the coins as they were when a block was
committed, and that a write has failed, after which `DiskIsItsState` does not hold
(section 5). `cs_main`
serialises everything here; a `CCoinsModifier` lives within one action; a LevelDB
batch is atomic. Power loss after a write that is not synced is not modelled.

### MasternodeSync: catching up

One action per 5-second round of `Process`, with the results of its three
`TRY_LOCK`s as inputs. Items, resets, sleep, peers and the tip change between
rounds. Times are ages in rounds; at one age each comparison may go either way,
because items arrive between rounds and rounds last a little over 5 seconds. An
item counts a bounded number of times (`MaxItems`), as `mapSeenSync*` ensures for
each hash. A round is one atomic action, although message handlers and RPC calls
take none of its mutexes and could change the stage or a time in the middle of it.
The "ssc" counters, the regtest branch and the tests of a peer's `nVersion`
(`masternode-sync.cpp:321` and `388`) are left out: all peers are recent enough.

### BlockChain: the block index and the active chain

The variables are the flags of `CBlockIndex` as sets of blocks, the candidates,
the tip, and the two databases (`disk`). `cs_main` is held for a whole handler,
except by `ActivateBestChain`, which releases it after each better tip or invalid
block, and by `ReprocessBlocks`, which takes it anew for each block. `job` is the
part of a handler that still holds it. It goes on block by block, so that a crash
can fall between any two of them, and between the two writes of
`FlushStateToDisk`. `Crash` ends with `Load`, which is `LoadBlockIndexDB`.

The rules for a block are constants: `Invalid` (ConnectBlock), `NotContextual`,
`Unverified` (a stake AcceptBlock cannot look up yet) and `Refusable`, which
CheckBlock refuses at some times only, as transaction locks and payee votes
change. The ghost `odd` records two situations the code does not repair by
itself: "short", when candidates worse than a former tip were dropped and are
needed after all, and "torn", when a crash in a flush left an index with failure
flags on the chain of the stored tip.

Checked: the databases can be started from after a crash at any moment
(`DiskUsable`); at rest the active chain has no failed block (`ChainNotFailed`)
and is the best there is (`QuietBest`, which leaves out both situations of `odd`:
after "torn" the candidates are chosen by their work against a tip that no step
returns to); activation ends (`ActivationEnds`).

### Mempool: the pool while blocks come and go

A block is connected or disconnected one transaction at a time (`phase`, `todo`),
because readers of the pool only take its own lock. `AcceptToMemoryPool` may
refuse any transaction that it could accept. `ClearPool` is what `CreateNewBlock`
does when its own block fails `TestBlockValidity` (`miner.cpp:416`): it drops
everything. Checked: `mapNextTx` is exact at every moment (`NextTxExact`); after a
block every input in the pool is there, unspent and mature (`PoolConnects`), which
is what `CTxMemPool::check` asserts; apart from `ClearPool`, a transaction leaves the
pool only for a cause (`LeavesForCause`). `DisconnectBlockAndInputs`, which also
changes the pool, is called from nowhere.

### MasternodePayments: votes for payees

A vote is stored under the locks and counted after their release, by the message
thread (`WinnerAccepted`) or by a thread that made a block (`ProcessBlock`);
`Count` is the second half of both. At shutdown `BeginDump` writes the votes and
`Restart` the counts, while other threads still add. A vote whose signature cannot
be checked is recorded in `mapMasternodesLastVote` all the same
(`WinnerRefused`). Without a candidate `ProcessBlock` signs and adds a vote for
height 0 and an empty script. The ghosts `quiet`, `torn` and `late` tell when a
file was written during additions and which heights were cleaned before their
vote was counted. `GetBlockValue` has the three values of `main.cpp`, with the
height at which the test network's first ones end as a constant.

Checked: counts are the numbers of stored votes (`VotesCounted`); what
`FillBlockPayee` puts in a block `IsTransactionValid` accepts
(`MinedIsAccepted`), except in the two blocks at which the payment changes, the
first that pays masternodes and the first of the later value: `FillBlockPayee`
computes the amount for the tip's height and `IsTransactionValid` for the block's.
At these two, and for the counts of a torn file, the code does not keep what is asked
(section 5).

### MasternodeList: one masternode in the lists of all nodes

`Cold` holds the collateral and announces the masternode, `Hot` runs it and pings.
Actions are the handlers of "mnb" and "mnp", `CheckAndRemove`, `ManageStatus`,
`SendMasternodePing`, and restarts with or without the cache. Ages are in units of
`MASTERNODE_MIN_MNP_SECONDS`. An announcement is followed from inv over getdata to
the handler in one step. A controller may announce twice within a unit, of which
nodes refuse the second. Busy locks, lost messages, late pings and restarts are
faults, of which there are `MaxFaults`.

Checked: a node that lists the masternode can hand its broadcast on
(`ListedIsServed`), without which others could not learn of it; one that pings is
enabled on every node again and again (`PingingIsEnabled`); one whose collateral
is spent disappears (`SpentIsRemoved`).

### Budget: proposals, finalized budgets and the blocks that pay them

One node, itself a masternode that votes automatically. Proposals and finalized
budgets have handlers and maps of the same form, so one set of operators stands
for both: `ItemArrives` is "mprop" and "fbs", `VoteArrives` and `VoteRefused` are
"mvote" and "fbvote". `bm` is `CBudgetManager`; `NewBlock` is all that the function
of this name does: it forgets now and then what was seen, removes what is no longer
valid, votes (`CheckAndVote`), looks at the voters and settles the immature items.
RPC votes, submissions and `checkbudgets` are actions, and so is a restart with or
without the file. `CheckBlock` and `ConnectBlock` run `IsBlockPayeeValid`, which
writes `mapPayment_History` even for a block that is never connected. The ghost
`silent` marks items that were added where `CheckOrphanVotes` is not called.

Checked: with ten enabled masternodes the node accepts the budget block it makes,
unless the payment is in the history (`BudgetBlockAccepted`); orphan votes are
applied when their item comes (`OrphansWait`); an obsolete budget goes and does
not come back (`ObsoleteRemoved`); an item whose collateral has matured leaves the
list of immature ones (`ImmatureSettle`). Each handler is one step: the message
handler takes `cs_budget` and `NewBlock` takes `cs`, so two of them may really
overlap, which is not modelled. A collateral's confirmations are those in the
chain: the ones a complete SwiftX lock adds (`GetIXConfirmations`,
`masternode-budget.cpp:87`) are left out, so an item here matures no earlier than in
the code.

## 3. Runs

| Run | Instance | Shows |
|---|---|---|
| `swifttx` | 2 masternodes, 2 conflicting transactions, heights 0 to 2 | no quorum, completion or reservation without its cause; every lock is removed |
| `checkqueue` | 2 workers, 4 checks, one bad, batches of 2 | counters, assertion, refinement, `Wait` returns |
| `spork` | signer and 2 peers, one restart, 2 seconds | no step back, restart keeps, nobody is left behind |
| `coinscache` | 2 transactions, 2 coin values, 3 blocks, writes may fail | flags, the assertion in `BatchWrite`, best block, refinement |
| `sync` | 5 peers of which one comes and goes, mutexes may be busy, shortened limits | beyond the list only on a synced chain; every stage ends |
| `chain` | 6 blocks in three branches, 1 intervention, 1 crash, `Depth` 0 | usable databases, best chain at rest, activation ends |
| `mempool` | 10 transactions, 4 of them dependent or conflicting spends, maturity 2, height up to 5 | a consistent pool |
| `payments` | 2 masternodes, 2 payees, 2 threads, 1 stop, 1 reorganisation, a block value that drops | exact counts; own blocks are accepted |
| `list` | 2 nodes, 2 announcements, 1 fault | the broadcast is served, pings enable, spent ones go |
| `budget` | 1 proposal and 2 budgets of a cycle of 2 blocks, 2 masternodes, 1 restart | own budget blocks are accepted, orphan votes applied, obsolete and mature items settled |
| `sync_stuck`, `chain_empty` | 3 peers and the limits of the code; the blocks of `chain` | disagreements, section 5 |

**Bounds.** Two conflicting transactions, two votes for a quorum and a height at
which only one masternode may vote give every conflict, every double count and
every change of a lock's height. Two workers and a batch size below the number of
checks let a batch be out while the queue is empty and let either thread finish
last. Three nodes let a message arrive by two ways. Two transactions let an entry
be kept while another is erased. In `sync` the limits are shortened (1 for
`MASTERNODE_SYNC_THRESHOLD`, so 3 attempts; 1, 2 and 1 rounds for 10, 25 and 60
seconds): each limit is still reached both before and after the others, and four
peers that stay are as many as a stage asks before one of its limits holds.
`ClearMayFail` is FALSE there; with TRUE `StageEnds` is violated, see section 5.

In `chain` one branch ends in an invalid block, one begins with a block that may
stay without data and ends as heavy as the first, and the heaviest block of the
first is refused at times: a reorganisation can fail half way, come back, and be
overtaken by an intervention or a crash. `Depth` is 0 for 15 in the code, so that
`DisconnectBlocks` goes back one block of two. `NotContextual` is empty there.
In `mempool` a coinbase becomes immature again by a disconnect while a chain of
dependent transactions is in the pool. In `payments` another masternode votes
twice for a height, as one does that restarts after a reorganisation, and the
second makes both payees reach the count that is required; the payment changes at
two heights within the instance. In `list` an hour is
two units and the limits keep their order; a single fault at any moment is what
each recovery has to deal with. In `budget` ten or nine masternodes are enabled, so
that a tenth of them is one vote or none; peers send one of three sets of messages:
a proposal passing and a budget that matches it, a proposal voted for and against,
or two budgets that pay different proposals at the same height. Heights reach two
cycles beyond the budgets, where they are obsolete.

Deadlock is not checked where the system may stop: `spork` and `payments` end when
their times, tips and restarts are used up, `checkqueue` at shutdown, and `chain`
with the process down or nothing left to receive.

**Fairness.** `swifttx` assumes the clock and `CleanTransactionLocksList`, which
`ThreadCheckObfuScationPool` calls every minute once the chain is synced
(`obfuscation.cpp`). `checkqueue` assumes each thread that can run does.
`sync` assumes `Process` runs (same thread, every second), that a round in
which no mutex is busy comes again and again, and that blocks arrive. `chain`
assumes that the thread in `ActivateBestChain` runs on, and so do those that
invalidate or reprocess; blocks, crashes and users are not fair. `list` assumes
that `ManageStatus`, `SendMasternodePing` and `CheckAndRemove` are called (the
same thread), that messages arrive unless a fault loses them, and that time
passes. `budget` assumes that `NewBlock`, which
`ProcessNewBlock` calls after each block (it acts at every 14th height, and when
its lock is free), runs again after anything else; it does not assume that
the height grows.

## 4. Proofs

| Module | Theorems | Inductive invariant |
|---|---|---|
| `SwiftTXProofs` | `TypeCorrect`, `QuorumCorrect`, `RequestCorrect`, `ReservationsKept` | votes in locks are in `mapTxLockVote`, ranked and pairwise distinct; a height other than 0 comes from a request |
| `CheckQueueProofs` | `TypeCorrect`, `TodoCorrect`, `AssertHolds`, `Refinement` | `nTodo` counts queue and batches, batches are disjoint, `nTotal` and `nIdle` count threads, the result so far is that of the finished checks |
| `SporkProofs`, Spork | `TypeCorrect`, `PeersCorrect`, `PeersNeverOlder`, `PeersKeepOverRestart` | a peer with no handler under way has in its database what it has in memory, and a handler between check and store holds something newer |
| | `AgreementCorrect` | `AgreeInv`: the signer has every message there is and goes by the latest; to each peer that asked it, all it has, and to each that it believes to know a spork, that spork, is there, in the handler or on its way, if it is not in `early` |
| `SporkProofs`, MasternodeSync | `SyncTypeCorrect`, `FinishedCorrect` | `SyncInv`: both together |
| `MempoolProofs`, Mempool | `TypeCorrect`, `MarksCorrect`, `PoolCorrect`, `RemovalsCorrect` | the two marks agree; the chain spends once what it created before; while a block is dealt with, a spent or missing input is accounted for by the transactions still to do |
| `MempoolProofs`, CoinsCache | `CoinsInductive`, `CoinsTypeCorrect`, `FlagsCorrect`, `AssertHolds`, `CoinsRefinement`, `BestBlockCorrect` | `CoinsInv`: an unmodified entry equals the layer below, FRESH means the layer below has nothing, what a view holds `pcoinsTip` holds |
| `BlockChainProofs` | `TypeCorrect`, `DiskCorrect` | index, data and undo marks that are not dirty are stored, the stored tip and the active chain can be undone, what is linked has its data, and a job has a block it can reach |
| | `ChainCorrect`, `BestCorrect`, `CandidatesCorrect` | `RestInv`: only what an invalidation under way is about to disconnect has failed; each linked block without a failure flag is a candidate, or there is a candidate no worse that was connected before; the target of a reorganisation is the best there is; equal work is decided by the order of arrival |
| `MasternodePaymentsProofs` | `TypeCorrect`, `VotesCorrect` | a vote being counted is stored or of a height cleaned away, no two threads count the same one, and a file written in quiet has exact counts |
| | `MinedCorrect` | `PlacedInv`: a payee with votes is in the vector of its height, the entry of a height has this height, also in the file, and a vote being counted finds its entry |
| `MasternodeListProofs` | `TypeCorrect`, `ServedCorrect` | `ListedIsServed` with the type invariant, which bounds the age of a ping on its way |
| `BudgetProofs` | `TypeCorrect`, `OrphansCorrect`, `BlockCorrect` | `TypeOK` with `OrphansWait`; `BudgetBlockAccepted` then follows in each state |

Two proof modules are about two components each, whose names are kept apart:
those of MasternodeSync's and CoinsCache's specifications begin with `Sync` and
`Coins`.

The theorems hold for every value of the constants that meets the named
assumptions: any block tree, any set of transactions and blocks, any number of
nodes, threads, votes, budgets and faults. Beyond the types of the constants
these are: `Window > 0` and `Ahead <= Window` in MasternodePayments (in the code
a masternode votes 10 blocks ahead and votes are taken up to 20 ahead);
`Threshold > 0` in MasternodeSync (2 in the code); in Budget finitely many masternodes, a map of
finalized budgets that is walked in the order `FinSeq`, and budgets that begin
with a cycle. `AgreementCorrect` is for one signer that does not restart, as in
the run: a signer stores over whatever it goes by, and one that stops between
announcing and storing an update has lost it. `CoinsRefinement` includes
crashes and failed writes; `BestBlockCorrect` speaks of the time before a write
fails.

How the longer ones go:

- *Agreement.* `Quiet` says that no packet is left and that every node has asked
  the signer, so what is owed to a peer can only be there already, and whatever a
  node goes by the signer has and owes to all others. A packet on its way pays for
  an older spork only if the signer can serve it by now; that is why an answer
  given too early (`early`) costs the peer this one spork and no other.
- *Best chain.* `FindMostWorkChain` takes the best candidate whose ancestors have
  not failed; a block that is no candidate is covered by one that is no worse and
  was connected before; where such a one fails after all, `odd` is "short". Each handler is shown to keep this cover over pruning, over insertion
  on invalidation, and over the release of `cs_main`. `CandidatesCorrect` adds that
  the two cases of `odd` are the only ways to the empty set of section 5.
- *Own blocks.* For payments, the payee with the most votes at a height has at
  least as many as any payee the check asks for. For the budget, `FillBlockPayee` and
  `IsTransactionValid` find the same highest count, so the budget paid is among
  those asked; what the budgets asked before it answer, and write to the history, is
  followed by induction over the walk through the map.

The walks through maps and vectors (`Asked`, the payees of a height) are recursive
functions. The library's induction theorems cannot be used, but the least number
at which a claim fails can be named, which is the form these inductions have
(`LeastNatural`).

Type invariants of SwiftTX, Spork and CoinsCache are theorems and not
invariants of their runs.

Only model-checked: liveness (`LocksExpire`, `WaitReturns`, `StageEnds`,
`ActivationEnds`, `PingingIsEnabled`, `SpentIsRemoved`, `ObsoleteRemoved`,
`ImmatureSettle`), because fairness is out of the prover's reach. Every
invariant, every action property and both refinements that the passing runs check
are theorems.

## 5. Disagreements between code and text

Two are runs that violate the property stating what a comment says.

- The list stage never times out with few peers (`sync_stuck`).
- `DisconnectBlocks` leaves `setBlockIndexCandidates` without the blocks that are
  now as good as the tip; when the last candidate fails, the set is empty
  (`chain_empty`).

Others are in the models, where a constant, a ghost or an exception in a property
marks them:

- A resync whose marks could not be cleared, because `cs_vNodes` was taken
  (`masternode-sync.cpp:245`), finds nobody left to ask and stays in its stage until
  another peer connects, also with enough peers (MasternodeSync, `ClearMayFail`).
- A lock request that the memory pool refuses reserves its inputs, without a vote.
  Only the clean-up of a stored request frees them again, so they stay reserved
  until the node restarts, where the comment says "locks expire after 60 minutes"
  (`swifttx.cpp:250`; SwiftTX, `LockRequestRejected`).
- On a signer, a spork that passed the age check overwrites a newer one set by RPC
  before it is stored (`spork.cpp:157`; Spork, the exception in `NeverOlder`).
- A failed chainstate write followed by the flush at shutdown leaves the new best
  block over the old coins (`txdb.cpp:66`; CoinsCache, `failed`).
- A masternode payment above what the block's height asks for is refused
  (`masternode-payments.cpp:620`), where the comment at line 601 says that only a
  smaller one is. It concerns the node's own block at the height where the block
  value of the test network drops, since it is filled for the height before
  (MasternodePayments, `EarlyEnd`). `TestBlockValidity` then fails and the pool is
  cleared.
- A payments file written while votes come in is loaded with counts that are not
  those of its votes; a vote that comes again is then counted twice
  (`init.cpp:214`; MasternodePayments, `torn`).
- A crash between the two writes of a flush leaves failure flags on the chain the
  coins are at, and the node starts on it (BlockChain, "torn").
- A block on top of the last one that pays masternodes nothing is filled with one
  amount and checked with another (MasternodePayments, `FirstPaid`).
- Asking about a payment records it ("for checks with later blocks from this
  cycle", `masternode-budget.cpp:2106`), so the second check of the same block finds
  a double payment, and with another budget for the height an invalid one (Budget,
  the exception in `BudgetBlockAccepted`).
- With fewer than ten enabled masternodes a tenth is 0 and the budget with the most
  votes is itself below the threshold (`masternode-budget.cpp:698`; Budget, the
  condition of `BudgetBlockAccepted`).
- Items added by `NewBlock` or by RPC leave their orphan votes waiting for the next
  message with an item (Budget, `silent`).
- A budget is to be checked once (`masternode-budget.cpp:1866`), but the copy made
  by `CheckAndRemove` forgets that it was (`masternode-budget.cpp:1785`).

## 6. Not modelled

- **Budget, mode "suggest"** (`SubmitFinalBudget`), what `Sync` sends to peers, and
  reorganisations: the collateral of a suggested budget needs more heights than the
  rest of the module, and peers are the environment of the one node.
- **Ranks and the payment queue** are constants of SwiftTX and MasternodePayments:
  they sort hashes. What is missing is that two nodes may have cached different
  block hashes across a reorganisation.
- **SwiftTX with pool and chain**, and a network of nodes for the intersection of
  quorums: the parts are there (`SwiftTX`, `Mempool`, `BlockChain`), the product of
  their states is beyond TLC at useful bounds.
- **Scheduler**: a queue of timed tasks on which no modelled part depends.
- **Pure algorithms** (difficulty, stake targets, script,
  serialisation, accumulators): arithmetic over large numbers and bytes.
- **Wallet, servers, network sockets, user interface**: the calls that change
  modelled state are actions of the modules; the rest is I/O or sequential code.

Some behaviour is in the models, or known, without a property that claims
anything of it: two sporks signed in the same second compare equal, and nodes may
keep different ones (`spork.cpp:184`); a vote whose signature fails uses up its
masternode's turn (`masternode-payments.cpp:488`, `WinnerRefused`); a payments
file cut off by a crash is never replaced (`masternode-payments.cpp:215`,
`CrashInWrite`); `CheckAndRemove` reads an iterator that may be at the end of its
map (`masternodeman.cpp:323`); the maps of SwiftTX are used by several threads
without a lock of their own (`swifttx.cpp:24`).
