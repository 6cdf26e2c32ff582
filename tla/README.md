# Datos: TLA+ models and proofs

Datos is a node of a proof-of-stake chain with deterministic masternodes,
derived from Dash. Three parts are its own: staking (`src/src/pos`), tokens
(`src/src/token`) and distributed storage (`src/src/storage`). Each keeps state
in memory next to the block chain, and neither `src/src/test` nor
`src/test/functional` has a test for any of them.
This directory models those three parts and three that every block passes
through: the threshold signatures of masternode quorums (`src/src/llmq/signing*`),
the ChainLocks made of them, with the acceptance of headers and the activation
of the best chain (`validation.cpp`), and the InstantSend locks on transactions.
TLC checks each on small instances; TLAPS proves the invariants for every instance.

## The system

| part | state | who changes it | what makes it hard |
|---|---|---|---|
| stake manager | start and stop requests, running flag, thread table, stop flag, wake flag | the manager thread, the staking thread, the `setstaking` call, `Shutdown` | four threads share flags and an unlocked vector; a stop joins a thread that may be waiting |
| token registry | `KnownIssuances`, the memory pool, the transaction index, the block being connected | `ConnectBlock` and `TestBlockValidity`, one transaction at a time; `DisconnectTip`; the pool; the index thread; the scan at startup | nothing rolls the vector back when a block fails or is disconnected; the index lags; the vector is rebuilt after a restart |
| storage proofs | the proof cache, the health of every storage node | `submitproof`, the `NETPROOF` and `ASKPROOF` messages, `ConnectBlock`, `verifychain`, startup | the scores decide which payments a block must hold, and are never taken back |
| minting round | the height the round started from, the block template | the staking thread | the tip is read four times without one lock |
| quorum signing | votes and recovered signatures in a database, a cache in front of it, shares and queues in memory | callers on any thread, the share worker, the message thread, clean-up, restarts; other members, some of them faulty | one vote per request has to survive restarts, truncation and stale cache answers on every member |
| ChainLocks and activation | the best lock and its block, the flags of the block index, the active chain, the running activation | the message thread, the signature worker, the scheduler, block processing, the spork | the best lock changes while an activation holds `cs_main`, and a mark as conflicting is final |
| InstantSend | the database of islocks with its caches and archive, locks that wait, transactions without a lock | validation, which changes chain and pool; the thread that handles its notifications in order; the thread "isman" | what isman reads of pool, chain and index is outdated when it acts on it; a lock is stored, filed, resolved and enforced in separate steps |

The parts meet in `validation.cpp`: `ConnectBlock` checks the proof and the
token transactions of a block, asks the scores for the masternode payment, and
finally scores the proof. The staking thread that the stake manager starts and
stops is the one whose rounds mint blocks. `ConnectBlock` also asks the
ChainLocks handler whether a block conflicts with a lock, and InstantSend whether
a transaction does, which a chain lock overrides; both kinds of lock are
recovered signatures of the signing manager.

## Modules

### StakeManager

The manager thread (`pos/manager.cpp`), `StartThreadStakeMiner`,
`StopThreadStakeMiner` and the loop of `ThreadStakeMiner` (`pos/minter.cpp`),
`setstaking` and the part of `Shutdown` that stops staking. Each statement that
touches a shared flag is an action named after what it does (`RunClear`,
`StartPush`, `StopJoin`, ...); `pc` says where the manager and the shutdown
thread are, `miner` where each staking thread is. `StopThreadStakeMiner` is one
set of actions with the calling thread as a parameter, because both the manager
and `Shutdown` run it. What a search finds, and whether the node is synced, is
chosen freely in each round.

### TokenRegistry

`token/verify.cpp`, `token/issuances.cpp` and `token/index.cpp`, with their
callers in `validation.cpp`. Transactions are rows of a constant table, with the
outpoints they spend and their typed outputs. A block is connected one
transaction per step (`StartBlock`, `ConnectTx`, `TokenRefused`,
`BlockInvalid`, `ConnectDone`, `CheckDone`), because the registry grows step by
step while the block may still fail. `IndexBlock` is the transaction index,
`DisconnectTip`, `EndReorg`, `Resubmit` and `ResubmitDone` are a reorganisation,
`Restart`, `ScanStart`, `ScanStep` and `ScanDone` a new start. Left out: token
outputs of coinbase and coinstake transactions, fees, eviction and expiry in the
pool, and the script encoding (an output has a type, a name, an identifier and a
value, or is malformed).

### StorageMinting

`storage/manager.cpp`, `storage/behavior.cpp`, `storage/rewards.cpp`,
`storage/rpc.cpp`, the proof messages, the places of `ConnectBlock` and
`VerifyDB` that use them, the masternode payment check, and the round of
`ThreadStakeMiner`. A proof is a row of a constant table: its height, the
chunkservers it lists and whether the network's key signed it; its identifier
stands for its hash. `ConnectTip` and `ConnectFails` are the two outcomes of
`ConnectBlock`, used by blocks of peers and by minted blocks. `VerifyStart` and
`VerifyStep` are `verifychain` at level 4. `SubmitSign` and `SubmitPush` are
`submitproof`, which stores its proof after it has let go of `cs_main`. `MintHeight` to `MintSubmit` are one
round, cut where the thread lets go of `cs_main`. The vector of proofs is kept
as one sequence per height, since lookups go by height or by hash; the null
proofs that `Initialise` pushes match no lookup and are left out.
`CBlockIndex::netProof`, from which `Initialise` reads, is declared in `chain.h`,
saved and loaded by `txdb.cpp`, and assigned nowhere else.

The payee of a height is a constant (the masternode list is a function of the
chain that is not modelled); superblocks, the operator's share of a reward and
reorganisations below the last proof-of-work block are left out.

### RecoveredSigs and LLMQSigning

`RecoveredSigs` is what the users of the signing manager rely on: an id gets a
signature on at most one message until its votes are old (`-maxrecsigsage`).
`LLMQSigning` is how the members of several quorums bring it about: the manager
with its database (`llmq/signing.cpp`) and the share manager
(`llmq/signing_shares.cpp`) of every member. `KeepsPromise` maps the second to
the first: the abstract signature of an id is on the message for which enough
members have sent a share.

`AsyncSignIfMember` writes the vote, `SignPendingSigShares` makes and sends the
share later, `ProcessPendingSigShares` takes up shares of others and recovers the
signature, `ProcessPendingRecoveredSigs` takes recovered ones of peers and of
InstantSend. `LookupRead` and `LookupInsert` are one `HasRecoveredSigForId` of
another thread, cut where it reads the database without the lock.
`TruncateRecoveredSig`, `SessionTimeout`, `Age`, `Cleanup` and `Restart` forget.
A signature is a session (quorum, id, message); a share verifies when its maker
sent it; faulty members have sent everything. The network delivers any share in
any order, any number of times or never.

Left out: announcements, requests and batches of shares, and bans, which only
decide when a share arrives; the selection of a quorum, which is free; the caches
of hashes and sessions, which are read through the database; the limit of the id
cache, whose effect on an entry is that of a restart.

### ChainLocks

One node's handler (`llmq/chainlocks.cpp`), and from `validation.cpp` the
acceptance of headers and blocks, `FindMostWorkChain`, `ActivateBestChain` with
its steps, and `EnforceBlock`. A lock is the block it names. A step is what a
thread does under one hold of the handler's mutex: `CheckSeen`, `LookupBlock` and
`StoreLock` are `ProcessNewChainLock`; `UpdateActiveState` and `ResetLocks` are
`CheckActiveState`; `TakeSnapshot` to `ActivationReturns` are
`EnforceBestChainLock`. `phase` says where a running activation is; outside
"idle" and "free" it holds `cs_main`, and locks come in between its steps
`ConnectBlock` (the verdict) and `SetTip`. `held` is a history variable: the
lock being enforced, once it was seen active.

That there is one lock per height is the promise of `RecoveredSigs`. That locks
of different heights lie on one branch is assumed (`LocksAssumption`): the
signing manager does not promise it, the quorums achieve it by signing the tip of
their own chain, which the lock of before restricts. Which of two blocks of equal
work goes first (`nSequenceId`) is left open. The islocks that blocks conflict
with are there from the start, and only go when a lock overrides them. Left out:
`TrySignChainTip`, which depends on transaction times and InstantSend (`OwnLocks`
are the blocks this node signed), notifications, and the clean-up of old entries.

### InstantSend

One node that is no masternode (`llmq/instantsend.cpp`), synced, with the sporks
on. `db` is `CInstantSendDb`: the stored locks, the two indexes that lead to them,
the heights they are filed under as mined, the archive, and what the caches keep of
a confirmed lock (`kept`, `keptTx`). `nl` is `nonLockedTxs` with its index of
outpoints. Three parties interleave:

- validation (`AcceptToMemoryPool`, `LimitMempoolSize`, `ActivateBestChain`,
  `RejectBlock`, `ProcessNewChainLock`, `EnforceBlock`, `NotifyChainLock`) changes
  the chain and the pool in one step each, and queues its notifications;
- the scheduler (`spc`) handles them in order: `TransactionAdded` to
  `AddedWithoutLock`, `TransactionRemoved`, `BlockConnected` to `WriteTxIndex`,
  `BlockDisconnected`, `HandleFullyConfirmedBlock`;
- isman (`wpc`) takes a batch of pending locks and brings each from `LookupTx` over
  `ReplaceSameTx`, `StoreLock`, `WriteInstantSendLockMined`, `Untrack`,
  `ResolveBlockConflicts` and the steps of `InvalidateBlock` to
  `ResolveMempoolConflicts`. `InvalidateBlock` disconnects block by block and lets
  go of `cs_main` in between, but holds `m_cs_chainstate`.

A world says which transactions, blocks and locks may come to be. `stale` and
`missed` are history: locks stored on outdated news of their transaction, and
locks resolved while the active chain had a conflict that was not tracked. What
validation does with blocks is simpler than in `ChainLocks`, and connects a branch
in one step. That two locks never claim one input for different transactions is
the promise of `RecoveredSigs` (`OneLockPerInput`). That the chain locks of a world
are on one branch is what `TrySignChainTip` sees to, which signs no block that
conflicts with a chain lock (`OneLockedBranch`).

Left out: the signing side (`ProcessTx`, which returns at once on this node, and so
`pendingRetryTxs`), the verification of signatures, eviction from the caches, the
pruning of the archive 100 blocks later, confirmation by depth while ChainLocks are
off, the upgrade of the database, relay and requests to peers.

### MC modules and proof modules

`MCStakeManager`, `MCTokenRegistry`, `MCStorageMinting`, `MCLLMQSigning`,
`MCChainLocks` and `MCInstantSend` give the constants their values.
`StakeManagerProofs`, `TokenRegistryProofs`, `StorageMintingProofs`,
`LLMQSigningProofs`, `ChainLocksProofs`, `InstantSendProofs` and
`InstantSendChainProofs`, which builds on it, hold the theorems; `DataInduction`
has the lemmas on loops, sums and induction that three of them use. The
definitions just before an action
whose names end in a deviation (`RestartUnscored`, `PrevoutsMatchLoose`, ...)
are mistaken variants: `PROJECT.json` pairs each with the property it breaks.

## Runs

| run | checks | instance |
|---|---|---|
| `stake_manager` | `IInv`, `AtMostOneMiner`, `NoOrphanThread`, `StopServed`, `StartServed` | three `setstaking` calls, hence up to three staking threads, and a shutdown at any time |
| `stake_toggle` | `ToggleHonoured`, refuted | the same |
| `stake_shutdown` | `NoMinerAfterReset`, refuted | the same |
| `token_registry` | `TypeOK`, `RegistryInv`, `KnownUnique`, `MempoolNamesUnique`, `ChainUniqueUntilRestart`, `SupplyBounded`, `VerdictFollowsChainWhenClean` | five token transactions, three blocks offered with up to two of them each, one refused or only checked, one disconnected, one restart, the index at most one block behind |
| `token_reorg` | `VerdictFollowsChain`, refuted | the same transactions, four blocks offered, one disconnected |
| `token_restart` | `ChainIssuancesUnique`, refuted | four blocks offered, one restart |
| `token_pool_inputs` | `MempoolInputsConfirmed`, refuted | four blocks offered; no disconnection, no restart |
| `storage_minting` | `TypeOK`, `ChainProofs`, `ScoresFollowChain`, `FreshNodeAccepts`, `FullScoreWasLive`, `MintingContinues` | two proof-of-stake heights, three proofs (one from another key), one `submitproof`, and two of: a disconnection, a `verifychain`, a restart |
| `storage_verify` | `OwnChainVerifies`, refuted | one `verifychain` |
| `llmq_signing` | `TypeOK`, `SharesFollowVotes`, `OneMessagePerId`, `HoldsOnlyValid`, `NodesAgree`, `StoredMessageKept`, `KeepsPromise` | three masternodes, one faulty, two quorums, one id, two messages, two losses (a lookup interrupted, a session dropped, a truncation, an id grown old, a clean-up, a restart) |
| `chainlocks` | `TypeOK`, `ActiveChainClean`, `LockedBranchClean`, `LockedStays`, `LockTakesEffect` | two branches of two blocks, both blocks of one of them locked, the first perhaps against an islock; the spork comes on at any time |
| `instant_send` | `TypeOK`, `IndexesAgree`, `PoolRespectsLocks`, `ChainRespectsLocks`, `MinedHeightsRight`, `WaitsForUnknownTx`, `ArchivedStays` | nine worlds of a payment, its child and a double spend, two branches of two blocks, up to two islocks and one chain lock each; at most three notifications in the queue |

What the refuted ones show:

- **stake_toggle**: `setstaking false` followed quickly by `setstaking true`
  leaves the node stopped, because the running loop clears the start request in
  each round.
- **stake_shutdown**: a start request that is pending at shutdown creates a
  staking thread after `Shutdown` has stopped staking.
- **token_reorg**: `KnownIssuances` is not rolled back when a block is
  disconnected, so whether a token block is accepted depends on the branches a
  node has seen.
- **token_restart**: after a restart the network threads run before the scan has
  refilled `KnownIssuances`, so a block connected in between may issue a known
  name again. The scan also stops before the tip, with the same effect for an
  issuance in the last block.
- **token_pool_inputs**: a coin that is not confirmed counts as one of height 0,
  so a token transaction that spends it enters the pool, although a block with
  both transactions is refused by the same check.
- **storage_verify**: `verifychain` at level 4 judges old payments by the scores
  of the tip, and scores the blocks again.

`VerdictFollowsChainWhenClean`, `ScoresFollowChain` and `FreshNodeAccepts` say
when nodes with the same chain agree, and the conditions are part of what they
say. Dropping any one of the four conditions of the first (no block refused, none
disconnected, no restart, index caught up) gives a counterexample on the instance
of the run. So does dropping `~dirty` from the second and `disconnects = 0` from
the third. Dropping `verifies = 0` from the third does **not**, on two
proof-of-stake heights: the run is too small to tell. On a chain with four of them TLC finds one: a
`verifychain` that gives up half way has scored a missed proof a second time and
not the later good one, and the node then accepts a block without the payment a
fresh node asks for. The condition is kept for that reason.

**Bounds.** Three `setstaking` calls allow a start, a stop and a second start,
which is what an old and a new staking thread need to meet. Two issuances of one
name and one that reuses an identifier give both kinds of conflict; a
disconnection followed by another branch takes three blocks.
In the storage instance `SCORE_INCREASE` is 50 and `SCORE_DECREASE` 60 (5 and 25 in the code), so that one proof with two chunkservers at one address
gives the full score of 100, one miss loses it, and the payment falls due within
the two heights. What needs longer chains is out of this instance's sight, as
above; the theorems hold for any values and any height. In the signing instance every masternode is in one quorum and two of
them in the other, so that a faulty member can try a second message with either;
two losses are a restart and a truncation, or a stale cache answer and what makes
it stale; `n1` alone takes in shares of others (`Collectors`), the rest get
recovered signatures. In the ChainLocks instance each branch can be ahead, the
two locks arrive in both orders through two threads, and the other branch can be
active, half connected or ahead when they do. The inductive invariant of the
proofs was also checked there with three changes of the spork. The worlds of the
InstantSend instance are chained locks under eviction, a double spend that is mined
first, one on a longer branch, a chain lock against an islock, a locked payment that
is reorganised away, the two locks of one transaction with and without a block and
with an eviction, and a restart; one instance with all of it at once is out of reach. TLC counters
(`offers`, `disconnects`, `submits`, `losses`, `sporks`, ...) only bound the
instances.

**Deadlock.** `stake_manager` and the token runs may stop: the manager thread
ends at shutdown, and a bounded number of blocks is offered. The staking round
of the storage model never stops, nor does the scheduler of `chainlocks`, and
there deadlock is checked. In `llmq_signing` all shares may be made and nothing
left to lose. In `instant_send` a world comes to its end, and a full queue stops
what would add to it.

**Fairness.** `StakeManager`: weak fairness of each thread, as the operating
system gives; a timed wait ends. `StorageMinting`: weak fairness of the staking
thread and of a running `verifychain`; strong fairness of finding a kernel, as
the search is repeated with new time stamps; strong fairness of an answer to
`ASKPROOF`, as each round without a proof asks every peer again. Proofs that
arrive unasked, blocks of peers and all failures are not fair. `ChainLocks`: weak
fairness of the scheduler, whose task runs every five seconds, and of an
activation that was begun; headers, blocks, locks and the spork are not fair.
`LLMQSigning` states safety only: a share that is lost in a restart is made again
only if the caller asks again, so recovery is not promised. `InstantSend` states
safety only; what should hold once the work is done is said of the states in which
nothing is in progress (`Quiet`).

## Proofs

Assumptions are the named `ASSUME`s of the modules: types of the constants, that
a transaction has inputs (`VinAssumption`) and what was buried before tokens
started holds none (`BaseAssumption`), that the empty proof is not one of the
table, that two sets of signers share a member that follows the rules
(`OverlapAssumption`), that blocks form a tree (`TreeAssumption`; `BlockTree`, also
that a chain has a transaction once and the genesis block none that can be locked),
that hashes are finitely many (`FiniteHashes`), that chain locks lie on one branch
(`LocksAssumption`, `OneLockedBranch`), and that two islocks on one input are the two
kinds of lock of one transaction (`OneLockPerInput`).

What a loop computes over a sequence or a sum over a set needs induction over data.
The provers cannot instantiate an induction rule with a predicate, but a set can
stand for the predicate: `DataInduction` proves from the least element of a set of
naturals that a set with 0 and closed under successor has them all, and from it a
rule for the rounds of a loop (`LoopInduction`) and the facts on sums of
finite sets that the value of a transaction needs.

- `StakeManagerProofs`: `ManagerInvariant`, `OneMiner`, `ThreadsFound`, for any
  number of calls. The last two speak of the time until `Shutdown` raises the stop
  flag, and claim nothing after it; `stake_shutdown` shows a staking thread that
  outlives it. "At most one staking thread" is not inductive; `IInv` adds, for
  each location of the manager thread, whether it owns a thread, that the
  thread table holds exactly that one, and that the stop flag is down whenever a
  stop begins, so that a stop leaves only by its join.
- `TokenRegistryProofs`: `RegistryInvariant`, `RegistryUnique`, `ChainUnique`,
  `PoolUnique`, `TypeCorrect`, `VerdictInvariant`, `VerdictAlwaysFollowsChain` and
  `SupplyAlwaysBounded`, for any transactions and bounds. `RegistryInv` adds that
  every entry repeats what its origin issued, and that until a restart the chain,
  and the part of the block already passed, is covered by the registry: the
  unique check against the registry is then a check against the chain.
  `VerdictInv` adds the other direction while no block was refused or
  disconnected: the registry has nothing that neither the chain nor the passed part
  of the block issued, so its verdict is the chain's. `SupplyInv` says that the
  supply is sound after every block of the chain (not only the last, so that a
  disconnection leaves it sound) and after every transaction passed of the block in
  work: each token output names an issuance that is there, and what circulates of
  an issuance is worth no more than it made. A transfer that passes `CheckToken` has
  inputs of one token only, so the comparison of total values in `CheckTxInputs`
  conserves it; that needs the name to be issued once, hence `RegistryInv`. Coinbase
  and coinstake transactions, for which `CheckTxInputs` compares no values, are no
  rows of the table, and the theorem says nothing of token outputs in them.
- `StorageMintingProofs`: `StorageInvariant`, `ChainProofsHold`, `ScoreInvariant`,
  `ScoresAlwaysFollowChain`, `FreshNodeAlwaysAccepts`, `FullScoreWasAlwaysLive` and
  `TypeCorrect`, for any proofs, payees and scoring constants. `Validate` skips the signature of a proof it
  already has, so `StorageInv` adds that every cached proof is signed or was
  submitted on this node; the height comes from `ConnectBlock`'s own comparison,
  whatever height the staking thread started from. The scores are a loop over the
  entries of a proof inside a replay over the chain. By induction over the entries
  health stays within 0..100 and a full score is that of a node listed as live; by
  induction over the chain a block connected to clean scores leaves the scores of
  the longer replay. `ScoreInv` adds that only a disconnected block or a
  `verifychain` makes them differ, and that each payment was judged by the replay
  below it.
- `LLMQSigningProofs`: `TypeCorrect`, `SharesAlwaysFollowVotes`, `HoldsOnlyValidAlways`, `OneMessagePerIdAlways`,
  `NodesAgreeAlways`, `StoredMessageKeptAlways` and `Refinement`
  (`Spec => KeepsPromise`), for any members, quorums, thresholds, ids, messages
  and losses. The inductive invariant is that a share pending or sent is for the
  message its maker's database has a vote for, until the id is old, and that
  every share, hash and signature a node holds verifies. Two messages for one id
  would have a common honest signer with two votes. The state of the abstract
  specification is a function of what was sent, so only sending and growing old
  are steps of it; all the rest, restarts included, leaves it alone.
- `ChainLocksProofs`: `TypeCorrect`, `ActiveChainCleanAlways`,
  `LockedBranchCleanAlways` and `LockedStaysAlways`, for any tree, locks and
  spork changes. A lock that is active is not so during an activation that tries
  another branch. `WayBack` says what holds then: the starting tip has the lock,
  is complete and free of flags, the target is at least as high, and nothing that
  conflicts with the lock has passed the check; a tip as high as the starting
  one and on one branch with the lock therefore has it again.

- `InstantSendProofs`: `LockInvariantHolds`, `IndexesAlwaysAgree`, `ArchiveIsFinal`
  and `PoolAlwaysRespectsLocks`, for any transactions, blocks, locks and worlds, and
  any length of the queue. `LockInvariant` adds for each step of isman what it still
  knows of its lock, whatever the others did: until it is stored it is neither in
  the database nor in the archive, and no other lock of its transaction is stored
  since the step that replaces one. What the caches keep is archived, so a lock
  found only there is known. Conflicts in the pool are with the lock being
  processed only: `AcceptToMemoryPool` and the return of disconnected transactions
  ask for stored locks, and the last step of isman removes what came before.
  The module also has the lemmas on the queue and on what each step tells of the
  chain, on which the next one rests.

- `InstantSendChainProofs`: `TypesAlwaysRight`, `ChainAlwaysRespectsLocks`,
  `MinedHeightsAlwaysRight` and `WaitsOnlyForUnknownTx`, again for any tree, locks,
  worlds and queue. The last three speak of states in which nothing is in progress,
  so each has an invariant that says what is still under way in all others.
  - `StateInvariant` is `LockInvariant` with the types and what each thread is in the
    middle of: the notification being handled is at the head of the queue, and what
    isman is to invalidate has a conflicting transaction, so it is not the genesis
    block.
  - `ConflictsInHand`: an active conflict of a stored lock is one that isman has yet to
    look for, or has found and has yet to invalidate. A block is connected only if it
    has no conflict with a stored lock or the lock goes, and a lock is stored only by
    isman, which then looks.
  - `FilingInvariant`: the last notification in the queue about a transaction at a
    height tells whether the chain has it there (`Tells`), and where none is left the
    database agrees with the chain. Every step of validation queues its disconnected
    blocks before its connected ones (`News`), also where a block is refused and the
    old ones come back. That a set of blocks can be listed in the order of heights
    (`SortedExists`) takes induction over finite sets.
  - `WaitInvariant`: while a lock waits for a transaction that is there, a notification
    of the transaction is ahead of the scheduler, a lock of it is in process or
    stored, or a chain lock covers a block with it. What comes into pool or chain is
    announced in the same step (`ComesAnnounced`), chain locks only grow along their
    branch, and a stored lock goes only into the archive.

Only model-checked: the liveness properties (`StopServed`, `StartServed`,
`MintingContinues`, `LockTakesEffect`), which the prover cannot treat. Every invariant
and action property of a passing run, and the refinement, is also a theorem.

## Observations

Met while modelling; none of them contradicts a property above, and no run is
spent on them.

- `signing.h` says that votes are removed when the recovered signature is written.
  `WriteRecoveredSig` does not remove them, and must not: with the variant
  `TruncateVote`, which forgets the vote with the signature, `KeepsPromise` fails.
- After `TruncateRecoveredSig` the entry of the hash stays for good, since
  `RemoveRecoveredSig` finds it only through the signature.
- A stale "no" in the id cache lets `ProcessRecoveredSig` write a signature over
  one that is there. Both are on the same message, which is what
  `StoredMessageKept` says.
- `ProcessNewChainLock` compares heights before it verifies and not when it
  stores, so the best lock can go back to a lower one. `LockedStays` is about the
  lock being enforced and survives this.
- `CheckActiveState` clears the locks after it raised the flag. A lock stored in
  between is lost and, being in `seenChainLocks`, not fetched again.
- A header accepted between the lookup and the storing of its lock leaves the lock
  without a known block until the next lock. `LockTakesEffect` speaks of locks
  whose block is known.
- `BLOCK_CONFLICT_CHAINLOCK` is never cleared, also not when spork 19 goes off.
- A lock that `AddNonLockedTx` puts back when a block is connected can be looked up
  by isman before the transaction index hears of the block. It then waits again,
  for a transaction that is in the chain. `WaitsForUnknownTx` excludes such locks
  (`stale`).
- `ResolveBlockConflicts` finds mined conflicts through `nonLockedTxs`. A block whose
  notification is not handled yet, or that was connected before a restart, is not
  there, and stays active although it conflicts; `ChainRespectsLocks` excludes locks
  resolved then (`missed`).
- `TransactionAddedToMempool` and `AddNonLockedTx` put one waiting lock back. A second
  one of the same transaction, of the other kind, waits on. If the one put back was
  archived in the meantime, because the other kind replaced it, it is dropped, and the
  transaction stays unlocked although a lock waits for it. The attempt to prove
  `WaitsForUnknownTx` without an exception for archived locks led to this; TLC finds it
  with both locks of a payment that is evicted and comes again.
- A chain lock on a block off the active chain removes a conflicting lock already, and
  `LookupTx` drops a lock when the index still leads to such a block. `WaitsForUnknownTx`
  therefore speaks of a chain locked block anywhere.
- `AddNonLockedTx` does not complete an entry that was made as a parent of others: it
  has no transaction and no outpoints, and `ResolveBlockConflicts` passes it over.
- `RemoveConfirmedInstantSendLocks` leaves confirmed locks in the caches, so they go
  on to forbid conflicting transactions until they are evicted or the node restarts.
- The cases of the switch on the space mode in `storage/rewards.cpp` have no
  `break`, so every mode earns the percentage of the last one. The model does the
  same.

## Not modelled

- **The signing side of InstantSend**: input locks, their recovered signatures and
  the locks a masternode makes of them. With it would come `TrySignChainTip`, whose
  decision depends on it; a version of `ChainLocks` with signing attempts is out of
  reach of a short run already on two branches of two blocks.
- **InstantSend and ChainLocks in one model**: `ChainLocks` takes the islocks that
  blocks conflict with as a set, `InstantSend` takes chain locks as they come.
- **Token verdicts and fork choice together**: a block refused by the token checks
  is not marked as failed (`validation.cpp`, the second branch after
  `ConnectTip`). `TokenRegistry` has no fork choice and `ChainLocks` no tokens.
- **Key generation, quorum commitments, the masternode list**: functions of the
  chain for everything modelled here; quorums and payees are constants.
- **Sporks, masternode sync**: what the modelled parts read of them is a free
  choice of the environment.
- **CoinJoin, governance, wallet, network transport, block files, scripts and
  cryptography, embedded MooseFS, user interface**: inherited, or external, and
  met by the modelled parts only through the inputs they leave open. They make up
  nearly all of the source tree by size.
- Within the modelled parts: see "Left out" under each module.
