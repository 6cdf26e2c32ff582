----------------------------- MODULE InstantSend -----------------------------
(***************************************************************************)
(* The islocks of one node (llmq/instantsend.cpp): the database of locks,  *)
(* the locks that wait, and the transactions that have no lock yet.  Three *)
(* parties work on them at the same time:                                  *)
(*  - validation changes the chain and the pool and queues a notification  *)
(*    for each change (the actions from AcceptToMemoryPool on);            *)
(*  - one thread of the scheduler handles the notifications in order (the  *)
(*    steps of spc);                                                       *)
(*  - the thread "isman" processes incoming locks (the steps of wpc).      *)
(* A step is what a thread does in one critical section of cs, cs_db,      *)
(* mempool.cs or cs_main, or in several between which the other threads    *)
(* can do nothing that they could not as well do before or after them.     *)
(*                                                                         *)
(* The node is no masternode, so ProcessTx returns at once, and            *)
(* pendingRetryTxs only holds arguments for it.  It is synced and the      *)
(* sporks for InstantSend, block filtering and ChainLocks are on, and the  *)
(* database has its current version (fUpgradedDB).                         *)
(***************************************************************************)
EXTENDS Integers, FiniteSets, Sequences, Functions

CONSTANTS
    Txs,
    Outpoints,
    Inputs,     \* Inputs[t]: the outpoints t spends
    Creator,    \* Creator[o]: the transaction o is an output of; None: buried long ago
    Locks,      \* islocks, by hash
    Txid,       \* Txid[l]: the transaction l locks
    Det,        \* the deterministic locks
    Blocks, Genesis, Parent, Height,
    Path,       \* Path[b]: b and its ancestors
    BlockTxs,   \* BlockTxs[b]: the transactions in b that can be locked
    Worlds,     \* what may come to be: [txs, blocks, islocks, chainlocks, evictable, restarts]
    MaxQueue,   \* bound on notifications in the queue
    None

ASSUME TransactionTypes ==
    /\ Inputs \in [Txs -> SUBSET Outpoints]
    /\ Creator \in [Outpoints -> Txs \cup {None}] /\ None \notin Txs

ASSUME BlockTypes ==
    /\ Genesis \in Blocks /\ None \notin Blocks
    /\ Parent \in [Blocks -> Blocks \cup {None}] /\ Height \in [Blocks -> Nat]
    /\ Path \in [Blocks -> SUBSET Blocks] /\ BlockTxs \in [Blocks -> SUBSET Txs]

\* Blocks form a tree; the genesis block has only a coinbase, which cannot be locked, and a
\* chain has a transaction once, as its inputs are spent by then.
ASSUME BlockTree ==
    /\ Path[Genesis] = {Genesis} /\ BlockTxs[Genesis] = {}
    /\ \A b \in Blocks \ {Genesis} : Parent[b] \in Blocks /\ Path[b] = {b} \cup Path[Parent[b]]
    /\ \A b \in Blocks : \A c, d \in Path[b] :
        /\ Path[c] \subseteq Path[b]
        /\ c # d => Height[c] # Height[d] /\ BlockTxs[c] \cap BlockTxs[d] = {}

\* There are finitely many hashes of transactions and of blocks.
ASSUME FiniteHashes == IsFiniteSet(Txs) /\ IsFiniteSet(Blocks)

ASSUME LockTypes ==
    /\ Txid \in [Locks -> Txs] /\ None \notin Locks
    /\ \A w \in Worlds : w.islocks \subseteq Locks

\* A quorum signs one transaction per input, and its signature is unique: two locks on a
\* common input are the deterministic lock and the other lock of one transaction.
ASSUME OneLockPerInput ==
    \A w \in Worlds : \A l, m \in w.islocks :
        l # m /\ (Txid[l] = Txid[m] \/ Inputs[Txid[l]] \cap Inputs[Txid[m]] # {})
            => Txid[l] = Txid[m] /\ (l \in Det) # (m \in Det)

\* The chain locks of a world are on one branch: a quorum signs no block that conflicts with
\* a chain lock.
ASSUME OneLockedBranch ==
    \A w \in Worlds : \A b, c \in w.chainlocks : Height[b] < Height[c] => b \in Path[c]

VARIABLES
    world,
    tip, failed,        \* the active chain and the blocks marked as failed
    chainlock,          \* bestChainLockBlockIndex
    notified,           \* lastNotifyChainLockBlockIndex
    mempool, txindex,
    db,                 \* CInstantSendDb
    confirmed,          \* best_confirmed_height
    pending,            \* pendingInstantSendLocks
    pendingNoTx,        \* pendingNoTxInstantSendLocks
    nl,                 \* nonLockedTxs and nonLockedTxsByOutpoints
    queue,              \* notifications not handled yet
    spc, todo, cur,     \* scheduler: step, transactions of the block left, the lock or
                        \*   transaction being handled
    wpc, batch, wlock,  \* isman: step, locks taken from pending, the one being processed,
    wtx, conflicts,     \*   what GetTransaction said, conflicting blocks found,
    wblock,             \*   the one being invalidated
    restarts,
    stale,              \* history: locks filed on outdated news of their transaction
    missed              \* history: locks resolved while a conflict was active, but not found

chain == <<tip, failed, chainlock, notified>>
sched == <<spc, todo, cur>>
isman == <<wpc, batch, wlock, wtx, conflicts, wblock>>
history == <<stale, missed>>
vars == <<world, chain, mempool, txindex, db, confirmed, pending, pendingNoTx, nl, queue,
          sched, isman, restarts, history>>

Notifications ==
    [kind : {"added", "removed"}, tx : Txs]
        \cup [kind : {"connected"}, block : Blocks, txs : SUBSET Txs]
        \cup [kind : {"disconnected", "chainlock"}, block : Blocks]

DbType ==
    [lock : SUBSET Locks, tx : [Txs -> Locks \cup {None}], out : [Outpoints -> Locks \cup {None}],
     mined : SUBSET (Nat \X Locks), archived : SUBSET Locks, kept : SUBSET Locks,
     keptTx : SUBSET Locks]

\* The database, the pending maps, nonLockedTxs and the places of the two threads have their
\* types: an index that has an entry leads to a transaction, block or lock, and parents that
\* were buried long ago are not tracked (CInstantSendDb, NonLockedTxInfo, AddNonLockedTx).
TypeOK ==
    /\ world \in Worlds
    /\ tip \in Blocks /\ failed \subseteq Blocks
    /\ {chainlock, notified} \subseteq Blocks \cup {None}
    /\ mempool \subseteq Txs /\ txindex \in [Txs -> Blocks \cup {None}]
    /\ db \in DbType /\ confirmed \in Nat
    /\ pending \subseteq Locks /\ pendingNoTx \subseteq Locks
    /\ nl \in [keys : SUBSET Txs, txs : SUBSET Txs, mined : [Txs -> Blocks \cup {None}],
               children : [Txs -> SUBSET Txs], out : [Outpoints -> Txs \cup {None}]]
    /\ queue \in Seq(Notifications)
    /\ spc \in {"idle", "add", "mempool", "block", "track", "index"}
    /\ todo \subseteq Txs /\ cur \in Locks \cup Txs \cup {None}
    /\ wpc \in {"idle", "same", "store", "mined", "untrack", "resolve", "invalidate", "reset", "mempool"}
    /\ batch \subseteq Locks /\ wlock \in Locks \cup {None}
    /\ wtx \in [known : BOOLEAN, block : Blocks \cup {None}]
    /\ conflicts \subseteq Blocks \X Txs /\ wblock \in Blocks \cup {None}
    /\ restarts \in Nat
    /\ stale \subseteq Locks /\ missed \subseteq Locks

NoLocks == [lock |-> {}, tx |-> [t \in Txs |-> None], out |-> [o \in Outpoints |-> None],
            mined |-> {}, archived |-> {}, kept |-> {}, keptTx |-> {}]
NothingTracked == [keys |-> {}, txs |-> {}, mined |-> [t \in Txs |-> None],
                   children |-> [t \in Txs |-> {}], out |-> [o \in Outpoints |-> None]]
NoNews == [known |-> FALSE, block |-> None]

Init ==
    /\ world \in Worlds
    /\ tip = Genesis /\ failed = {} /\ chainlock = None /\ notified = None
    /\ mempool = {} /\ txindex = [t \in Txs |-> None]
    /\ db = NoLocks /\ confirmed = 0
    /\ pending = {} /\ pendingNoTx = {} /\ nl = NothingTracked
    /\ queue = <<>>
    /\ spc = "idle" /\ todo = {} /\ cur = None
    /\ wpc = "idle" /\ batch = {} /\ wlock = None /\ wtx = NoNews
    /\ conflicts = {} /\ wblock = None
    /\ restarts = 0 /\ stale = {} /\ missed = {}

-----------------------------------------------------------------------------
(* The chain and the pool, as InstantSend sees them.                       *)

TxsOf(bs) == UNION {BlockTxs[b] : b \in bs}
HasChainLock(b) == chainlock # None /\ b \in Path[chainlock]
HasConflictingChainLock(b) == chainlock # None /\ chainlock \notin Path[b] /\ b \notin Path[chainlock]

DoubleSpend(t, u) == t # u /\ Inputs[t] \cap Inputs[u] # {}
\* Variant: outputs of transactions long buried are not left out.
ParentsAndNone(t) == {Creator[o] : o \in Inputs[t]}
Parents(t) == {Creator[o] : o \in Inputs[t]} \ {None}

\* The members of pool in S and all that descends from S there.
removeRecursive(pool, S) ==
    {t \in pool : \A D \in SUBSET pool :
        (\A u \in pool : u \in S \/ Parents(u) \cap (S \cup D) # {} => u \in D) => t \in D}

\* What spends an input of t in pool.
Spenders(pool, t) == {u \in pool : DoubleSpend(t, u)}

\* The pool is looked at first; the index keeps what disconnected blocks held.
GetTransaction(t) ==
    [known |-> t \in mempool \/ txindex[t] # None,
     block |-> IF t \in mempool THEN None ELSE txindex[t]]

\* What is true of t: whether it is in the pool or the chain, and in which block.
Whereabouts(t) ==
    [known |-> t \in mempool \cup TxsOf(Path[tip]),
     block |-> IF t \in TxsOf(Path[tip]) THEN CHOOSE b \in Path[tip] : t \in BlockTxs[b] ELSE None]

-----------------------------------------------------------------------------
(* CInstantSendDb.  Its caches answer as the database does, except that    *)
(* they keep a lock that was confirmed: kept is what islockCache has of    *)
(* those, keptTx what txidCache and outpointCache have.                    *)

\* Variant: the archive is not looked at.
KnownUnlessArchived(l) == l \in db.lock \cup db.kept
KnownInstantSendLock(l) == l \in db.lock \cup db.archived \cup db.kept

\* The lock of a transaction and the lock on an outpoint, as sets of at most one.
GetInstantSendLockHashByTxid(t) ==
    IF db.tx[t] # None THEN {db.tx[t]} ELSE {l \in db.keptTx : Txid[l] = t}
GetInstantSendLockByTxid(t) == GetInstantSendLockHashByTxid(t) \cap (db.lock \cup db.kept)
GetInstantSendLockByInput(o) ==
    IF db.out[o] # None THEN {db.out[o]} ELSE {l \in db.kept \cap db.keptTx : o \in Inputs[Txid[l]]}

IsLocked(t) == \E l \in GetInstantSendLockHashByTxid(t) : KnownInstantSendLock(l)

\* The locks of which GetConflictingLock returns one.
GetConflictingLock(t) == {l \in UNION {GetInstantSendLockByInput(o) : o \in Inputs[t]} : Txid[l] # t}

WriteNewInstantSendLock(d, l) ==
    [d EXCEPT !.lock = @ \cup {l},
              !.tx = [d.tx EXCEPT ![Txid[l]] = l],
              !.out = [o \in Outpoints |-> IF o \in Inputs[Txid[l]] THEN l ELSE d.out[o]],
              !.keptTx = {k \in d.keptTx : Txid[k] # Txid[l]}]

\* Variant: the keys of the inputs are not erased.
RemoveLeavesInputs(d, S) ==
    [d EXCEPT !.lock = @ \ S,
              !.tx = [t \in Txs |-> IF \E l \in S \cap d.lock : Txid[l] = t THEN None ELSE d.tx[t]],
              !.archived = @ \cup S, !.kept = @ \ S]

\* RemoveInstantSendLock for those of S that are stored, WriteInstantSendLockArchived for all.
RemoveAndArchive(d, S) ==
    LET gone == S \cap d.lock IN
    [d EXCEPT !.lock = @ \ S,
              !.tx = [t \in Txs |-> IF \E l \in gone : Txid[l] = t THEN None ELSE d.tx[t]],
              !.out = [o \in Outpoints |-> IF \E l \in gone : o \in Inputs[Txid[l]]
                                           THEN None ELSE d.out[o]],
              !.archived = @ \cup S,
              !.kept = @ \ S,
              !.keptTx = {k \in d.keptTx : \A l \in gone : Txid[k] # Txid[l]}]

\* The stored locks that the outpoint index has on outputs of t.
GetInstantSendLocksByParent(d, t) ==
    {l \in d.lock : \E o \in Outpoints : Creator[o] = t /\ d.out[o] = l}

\* RemoveChainedInstantSendLocks: the locks S and all stored locks chained to them.
RemoveConflictingLock(d, S) ==
    LET chained == {l \in d.lock : \A C \in SUBSET d.lock :
            (\A m \in S \cup C : GetInstantSendLocksByParent(d, Txid[m]) \subseteq C) => l \in C}
    IN  RemoveAndArchive(d, S \cup chained)

\* RemoveConfirmedInstantSendLocks: by height of the block they were mined in.
RemoveConfirmedInstantSendLocks(d, height) ==
    LET entries == {e \in d.mined : e[1] <= height}
        locks == {e[2] : e \in entries}
    IN  [RemoveAndArchive(d, locks) EXCEPT
            !.mined = d.mined \ entries,
            !.kept = (d.kept \ locks) \cup (locks \cap d.lock),
            !.keptTx = d.keptTx \cup (locks \cap d.lock)]

\* The entries of block b in the index of mined locks.
MinedLocks(b) ==
    {<<Height[b], l>> : l \in UNION {GetInstantSendLockHashByTxid(t) : t \in Txs \cap BlockTxs[b]}}

-----------------------------------------------------------------------------
(* nonLockedTxs: an entry without a transaction (keys \ txs) stands for a  *)
(* parent of tracked ones.                                                 *)

AddNonLockedTx(n, t, b) ==
    LET m == [n EXCEPT !.keys = @ \cup {t}, !.mined = [n.mined EXCEPT ![t] = b]] IN
    IF t \in n.keys THEN m
    ELSE [m EXCEPT !.keys = @ \cup Parents(t),
                   !.txs = @ \cup {t},
                   !.children = [q \in Txs |-> IF q \in Parents(t) THEN n.children[q] \cup {t}
                                                                   ELSE n.children[q]],
                   !.out = [o \in Outpoints |-> IF o \in Inputs[t] /\ n.out[o] = None
                                                THEN t ELSE n.out[o]]]

\* RemoveNonLockedTx for each of S.
RemoveNonLockedTx(n, S) ==
    LET txs == S \cap n.txs
        children == [q \in Txs |-> n.children[q] \ txs]
        dead == (S \cap n.keys) \cup
                {q \in n.keys \ n.txs : n.children[q] \cap txs # {} /\ children[q] = {}}
    IN  [keys |-> n.keys \ dead, txs |-> n.txs \ S,
         mined |-> [t \in Txs |-> IF t \in dead THEN None ELSE n.mined[t]],
         children |-> [q \in Txs |-> IF q \in dead THEN {} ELSE children[q]],
         out |-> [o \in Outpoints |-> IF \E t \in txs : o \in Inputs[t] THEN None ELSE n.out[o]]]

\* A lock that waits for t, if any, is put back into pending.
IsWaitingForTx(t) == \E l \in pendingNoTx : Txid[l] = t
PutBack(l) == pending' = pending \cup {l} /\ pendingNoTx' = pendingNoTx \ {l}
\* Variant: only TransactionAddedToMempool looks for waiting locks.
PutBackNone(t) == UNCHANGED <<pending, pendingNoTx>>
PutBackAny(t) ==
    IF IsWaitingForTx(t)
    THEN \E l \in pendingNoTx : Txid[l] = t /\ PutBack(l)
    ELSE UNCHANGED <<pending, pendingNoTx>>

-----------------------------------------------------------------------------
(* Notifications.                                                          *)

\* The order among the transactions does not matter.
Each(kind, S) ==
    LET seq == CHOOSE s \in [1..Cardinality(S) -> S] : IsInjective(s)
    IN  [i \in DOMAIN seq |-> [kind |-> kind, tx |-> seq[i]]]
Ascending(bs) ==
    CHOOSE s \in [1..Cardinality(bs) -> bs] :
        \A i, j \in DOMAIN s : i < j => Height[s[i]] < Height[s[j]]
Descending(bs) == LET s == Ascending(bs) IN [i \in DOMAIN s |-> s[(Len(s) - i) + 1]]

\* Queue the notifications q behind those in rest.
Notify(rest, q) == Len(rest \o q) <= MaxQueue /\ queue' = rest \o q

\* Variant: the pool keeps what is no longer tracked.
UntrackConflictsForLock(l, rest) ==
    /\ UNCHANGED mempool /\ Notify(rest, <<>>)
    /\ nl' = RemoveNonLockedTx(nl, Spenders(mempool, Txid[l]))

\* The pool loses what conflicts with l; what is removed directly is no longer tracked.
RemoveMempoolConflictsForLock(l, rest) ==
    LET toDelete == Spenders(mempool, Txid[l])
        gone == removeRecursive(mempool, toDelete)
    IN  /\ mempool' = mempool \ gone
        /\ Notify(rest, Each("removed", gone))
        /\ nl' = RemoveNonLockedTx(nl, toDelete)

-----------------------------------------------------------------------------
(* Validation, under cs_main.                                              *)

\* t enters the pool; a transaction that a lock waits for replaces its conflicts.
AcceptToMemoryPool(t) ==
    LET gone == IF IsWaitingForTx(t) THEN removeRecursive(mempool, Spenders(mempool, t)) ELSE {}
    IN  /\ t \in world.txs /\ t \notin mempool \cup TxsOf(Path[tip])
        /\ Spenders(TxsOf(Path[tip]), t) = {}
        /\ GetConflictingLock(t) = {}
        /\ Spenders(mempool \ gone, t) = {}
        /\ Parents(t) \subseteq TxsOf(Path[tip]) \cup (mempool \ gone)
        /\ mempool' = (mempool \ gone) \cup {t}
        /\ Notify(queue, Each("removed", gone) \o Each("added", {t}))
        /\ UNCHANGED <<world, chain, txindex, db, confirmed, pending, pendingNoTx, nl, sched, isman,
                       restarts, history>>

\* A transaction expires or is evicted, with what depends on it.
LimitMempoolSize(t) ==
    /\ t \in world.evictable /\ t \in mempool
    /\ LET gone == removeRecursive(mempool, {t}) IN
       mempool' = mempool \ gone /\ Notify(queue, Each("removed", gone))
    /\ UNCHANGED <<world, chain, txindex, db, confirmed, pending, pendingNoTx, nl, sched, isman,
                   restarts, history>>

\* The transactions of the disconnected blocks old that UpdateMempoolForReorg takes back when
\* the new ones are connected up to b: those that spend what is unspent, after their parents.
TakenBack(old, b) ==
    LET chainTxs == TxsOf(Path[b])
        may == {t \in Txs : /\ t \in TxsOf(old) \ chainTxs
                            /\ Spenders(chainTxs, t) = {} /\ GetConflictingLock(t) = {}}
    IN  UNION {S \in SUBSET may : \A t \in S : Parents(t) \subseteq chainTxs \cup mempool \cup S}

\* The active chain becomes the one that ends in b (DisconnectTip, ConnectTip, and the pool).
SetTip(b) ==
    LET old == Path[tip] \ Path[b]
        new == Path[b] \ Path[tip]
        conflicted(c) == removeRecursive(mempool, {u \in mempool : Spenders(BlockTxs[c], u) # {}})
        removed == UNION {conflicted(c) : c \in new}
        back == TakenBack(old, b)
        left == mempool \ (removed \cup TxsOf(new))
        orphans == removeRecursive(left, TxsOf(old) \ (back \cup TxsOf(new)))
        up == Ascending(new)
        down == Descending(old)
    IN  /\ tip' = b
        /\ mempool' = (left \ orphans) \cup back
        /\ Notify(queue, [i \in DOMAIN down |-> [kind |-> "disconnected", block |-> down[i]]]
                         \o Each("removed", removed \cup orphans) \o Each("added", back)
                         \o [i \in DOMAIN up |-> [kind |-> "connected", block |-> up[i],
                                                  txs |-> conflicted(up[i])]])

\* Variant: ConnectBlock does not ask.
NoConflictingLocks(b) == {}
\* The islocks that the transactions of b conflict with.
ConflictingLocks(b) == UNION {GetConflictingLock(t) : t \in BlockTxs[b]}

\* The blocks that have the most work once they are there; m_cs_chainstate is free.
MostWork(b) ==
    /\ b \in world.blocks /\ wblock = None
    /\ Height[b] = Height[tip] + 1 /\ Path[b] \cap failed = {} /\ ~HasConflictingChainLock(b)

\* ActivateBestChainStep; in a block with a chain lock a conflicting islock is overridden.
ActivateBestChain(b) ==
    LET new == Path[b] \ Path[tip] IN
    /\ MostWork(b)
    /\ \A c \in new : ConflictingLocks(c) # {} => HasChainLock(c)
    /\ SetTip(b)
    /\ db' = RemoveConflictingLock(db, UNION {ConflictingLocks(c) : c \in new})
    /\ UNCHANGED <<world, failed, chainlock, notified, txindex, confirmed, pending, pendingNoTx, nl,
                   sched, isman, restarts, history>>

\* ... and where the first new block fails because of an islock: the old ones come back.
RejectBlock(b) ==
    \E c \in Path[b] \ Path[tip] :
    LET old == Path[tip] \ Path[b]
        back == TakenBack(old, Parent[c])
        orphans == removeRecursive(mempool, TxsOf(old) \ back)
        up == Ascending(old)
        down == Descending(old)
    IN  /\ MostWork(b)
        /\ Parent[c] \in Path[tip] /\ ConflictingLocks(c) # {} /\ ~HasChainLock(c)
        /\ failed' = failed \cup {c}
        /\ mempool' = mempool \ orphans
        /\ Notify(queue, [i \in DOMAIN down |-> [kind |-> "disconnected", block |-> down[i]]]
                         \o Each("removed", orphans) \o Each("added", back)
                         \o [i \in DOMAIN up |-> [kind |-> "connected", block |-> up[i], txs |-> {}]])
        /\ UNCHANGED <<world, tip, chainlock, notified, txindex, db, confirmed, pending,
                       pendingNoTx, nl, sched, isman, restarts, history>>

\* ProcessNewChainLock: a higher lock on a known block.
ProcessNewChainLock(b) ==
    /\ b \in world.chainlocks
    /\ chainlock # None => Height[b] > Height[chainlock]
    /\ chainlock' = b
    /\ UNCHANGED <<world, tip, failed, notified, mempool, txindex, db, confirmed, pending,
                   pendingNoTx, nl, queue, sched, isman, restarts, history>>

\* EnforceBlock: the blocks that compete with the locked branch go, failures on it are forgotten.
EnforceBlock ==
    /\ chainlock # None /\ wblock = None
    /\ HasConflictingChainLock(tip) \/ Path[chainlock] \cap failed # {}
    /\ IF HasConflictingChainLock(tip)
       THEN \E b \in Path[tip] \cap Path[chainlock] :
                /\ \A c \in Path[tip] \cap Path[chainlock] : Height[c] <= Height[b]
                /\ SetTip(b)
       ELSE UNCHANGED <<tip, mempool, queue>>
    /\ failed' = {b \in failed : b \notin Path[chainlock] /\ chainlock \notin Path[b]}
    /\ UNCHANGED <<world, chainlock, notified, txindex, db, confirmed, pending, pendingNoTx, nl,
                   sched, isman, restarts, history>>

\* The end of EnforceBestChainLock.
NotifyChainLock ==
    /\ chainlock # None /\ chainlock # notified /\ chainlock \in Path[tip]
    /\ notified' = chainlock
    /\ Notify(queue, <<[kind |-> "chainlock", block |-> chainlock]>>)
    /\ UNCHANGED <<world, tip, failed, chainlock, mempool, txindex, db, confirmed, pending,
                   pendingNoTx, nl, sched, isman, restarts, history>>

-----------------------------------------------------------------------------
(* isman.                                                                  *)

\* ProcessMessageInstantSendLock: a lock arrives, or is made from the quorum's signature.
ReceiveLock(l) ==
    /\ l \in world.islocks
    /\ l \notin pending \cup pendingNoTx /\ ~KnownInstantSendLock(l)
    /\ pending' = pending \cup {l}
    /\ UNCHANGED <<world, chain, mempool, txindex, db, confirmed, pendingNoTx, nl, queue,
                   sched, isman, restarts, history>>

\* ProcessPendingInstantSendLocks takes the deterministic locks, or the others.
ProcessPendingInstantSendLocks(deterministic) ==
    LET pend == {l \in pending : (l \in Det) = deterministic} IN
    /\ wpc = "idle" /\ batch = {} /\ pend # {}
    /\ batch' = pend /\ pending' = pending \ pend
    /\ UNCHANGED <<world, chain, mempool, txindex, db, confirmed, pendingNoTx, nl, queue,
                   sched, wpc, wlock, wtx, conflicts, wblock, restarts, history>>

\* ProcessInstantSendLock.  First, what is known of the lock and of its transaction.
LookupTx(l) ==
    LET info == GetTransaction(Txid[l])
        drop == KnownInstantSendLock(l) \/ (info.block # None /\ HasChainLock(info.block))
    IN  /\ wpc = "idle" /\ l \in batch
        /\ batch' = batch \ {l}
        /\ IF drop THEN UNCHANGED <<wpc, wlock, wtx>>
                   ELSE wpc' = "same" /\ wlock' = l /\ wtx' = info
        /\ UNCHANGED <<world, chain, mempool, txindex, db, confirmed, pending, pendingNoTx, nl,
                       queue, sched, conflicts, wblock, restarts, history>>

\* A deterministic lock replaces another one of the transaction, not the reverse.
ReplaceSameTx ==
    LET same == GetInstantSendLockByTxid(Txid[wlock]) IN
    /\ wpc = "same"
    /\ IF same \cap Det # {}
       THEN wpc' = "idle" /\ wlock' = None /\ wtx' = NoNews /\ UNCHANGED db
       ELSE /\ wpc' = "store" /\ UNCHANGED <<wlock, wtx>>
            /\ IF wlock \in Det
               THEN db' = [RemoveAndArchive(db, same) EXCEPT !.keptTx = @ \ same]
               ELSE UNCHANGED db
    /\ UNCHANGED <<world, chain, mempool, txindex, confirmed, pending, pendingNoTx, nl, queue, sched,
                   batch, conflicts, wblock, restarts, history>>

Outdated == IF wtx = Whereabouts(Txid[wlock]) THEN {} ELSE {wlock}

\* It is stored, or waits for its transaction.
StoreLock ==
    /\ wpc = "store"
    /\ IF wtx.known
       THEN db' = WriteNewInstantSendLock(db, wlock) /\ UNCHANGED pendingNoTx
       ELSE pendingNoTx' = pendingNoTx \cup {wlock} /\ UNCHANGED db
    /\ wpc' = IF wtx.block # None THEN "mined" ELSE "untrack"
    /\ stale' = stale \cup Outdated
    /\ UNCHANGED <<world, chain, mempool, txindex, confirmed, pending, nl, queue, sched,
                   batch, wlock, wtx, conflicts, wblock, restarts, missed>>

WriteInstantSendLockMined ==
    /\ wpc = "mined" /\ wpc' = "untrack"
    /\ db' = [db EXCEPT !.mined = @ \cup {<<Height[wtx.block], wlock>>}]
    /\ stale' = stale \cup Outdated
    /\ UNCHANGED <<world, chain, mempool, txindex, confirmed, pending, pendingNoTx, nl, queue,
                   sched, batch, wlock, wtx, conflicts, wblock, restarts, missed>>

Untrack ==
    /\ wpc = "untrack" /\ wpc' = "resolve"
    /\ nl' = RemoveNonLockedTx(nl, {Txid[wlock]})
    /\ UNCHANGED <<world, chain, mempool, txindex, db, confirmed, pending, pendingNoTx, queue,
                   sched, batch, wlock, wtx, conflicts, wblock, restarts, history>>

\* The tracked transactions in blocks that the index of outpoints has on inputs of l.
TrackedConflicts(l) ==
    {<<nl.mined[t], t>> : t \in {u \in nl.txs \ {Txid[l]} :
        nl.mined[u] # None /\ \E o \in Inputs[Txid[l]] : nl.out[o] = u}}

\* The transactions of the active chain that spend an input of l, with their blocks.
ActiveConflicts(l) ==
    {c \in Path[tip] \X Txs : c[2] \in Spenders(BlockTxs[c[1]], Txid[l])}

\* ResolveBlockConflicts.  A conflict in a chain locked block removes the lock and those
\* chained to it.
ResolveBlockConflicts ==
    LET found == TrackedConflicts(wlock)
        hasChainLockedConflict == \E c \in found : HasChainLock(c[1])
    IN  /\ wpc = "resolve"
        /\ db' = IF hasChainLockedConflict THEN RemoveConflictingLock(db, {wlock}) ELSE db
        /\ conflicts' = IF hasChainLockedConflict THEN {} ELSE found
        /\ wpc' = CASE conflicts' = {} -> "mempool"
                    [] conflicts' # {} /\ wlock \in pendingNoTx -> "reset"
                    [] OTHER -> "invalidate"
        /\ missed' = IF ActiveConflicts(wlock) \subseteq found THEN missed ELSE missed \cup {wlock}
        /\ UNCHANGED <<world, chain, mempool, txindex, confirmed, pending, pendingNoTx, nl, queue,
                       sched, batch, wlock, wtx, wblock, restarts, stale>>

\* Otherwise each block with conflicts is invalidated: its conflicts are no longer tracked,
BeginInvalidate(c) ==
    /\ wpc \in {"invalidate", "reset"} /\ wblock = None /\ c \in conflicts
    /\ wblock' = c[1]
    /\ nl' = RemoveNonLockedTx(nl, {d[2] : d \in {e \in conflicts : e[1] = c[1]}})
    /\ UNCHANGED <<world, chain, mempool, txindex, db, confirmed, pending, pendingNoTx, queue,
                   sched, wpc, batch, wlock, wtx, conflicts, restarts, history>>

\* blocks are disconnected one by one until it is off the chain,
InvalidateBlock ==
    /\ wblock # None /\ wblock \in Path[tip]
    /\ SetTip(Parent[tip])
    /\ failed' = failed \cup {tip}
    /\ UNCHANGED <<world, chainlock, notified, txindex, db, confirmed, pending, pendingNoTx, nl,
                   sched, isman, restarts, history>>

\* and it is marked, or no longer marked when the locked transaction has yet to come.
EndInvalidate ==
    /\ wblock # None /\ wblock \notin Path[tip]
    /\ failed' = IF wpc = "reset"
                 THEN {b \in failed : wblock \notin Path[b] /\ b \notin Path[wblock]}
                 ELSE failed \cup {wblock}
    /\ conflicts' = {c \in conflicts : c[1] # wblock}
    /\ wpc' = IF conflicts' = {} THEN "mempool" ELSE wpc
    /\ wblock' = None
    /\ UNCHANGED <<world, tip, chainlock, notified, mempool, txindex, db, confirmed, pending,
                   pendingNoTx, nl, queue, sched, batch, wlock, wtx, restarts, history>>

\* Last, the pool.
ResolveMempoolConflicts ==
    /\ wpc = "mempool" /\ wpc' = "idle" /\ wlock' = None /\ wtx' = NoNews
    /\ IF wtx.known THEN RemoveMempoolConflictsForLock(wlock, queue)
                    ELSE UNCHANGED <<mempool, queue, nl>>
    /\ UNCHANGED <<world, chain, txindex, db, confirmed, pending, pendingNoTx, sched, batch,
                   conflicts, wblock, restarts, history>>

-----------------------------------------------------------------------------
(* The scheduler.                                                          *)

Notified(kind) == spc = "idle" /\ queue # <<>> /\ Head(queue).kind = kind
Event == Head(queue)
Handled == queue' = Tail(queue)

\* TransactionAddedToMempool: a lock that waited for the transaction is put back
TransactionAdded ==
    /\ Notified("added")
    /\ IF IsWaitingForTx(Event.tx)
       THEN \E l \in pendingNoTx : Txid[l] = Event.tx /\ PutBack(l) /\ cur' = l /\ spc' = "mempool"
       ELSE spc' = "add" /\ UNCHANGED <<pending, pendingNoTx, cur>>
    /\ UNCHANGED <<world, chain, mempool, txindex, db, confirmed, nl, queue, todo, isman,
                   restarts, history>>

\* and the pool cleared of conflicts,
AddedWithLock ==
    /\ spc = "mempool" /\ spc' = "idle" /\ cur' = None
    /\ RemoveMempoolConflictsForLock(cur, Tail(queue))
    /\ UNCHANGED <<world, chain, txindex, db, confirmed, pending, pendingNoTx, todo, isman,
                   restarts, history>>

\* otherwise the transaction is tracked.
AddedWithoutLock ==
    /\ spc = "add" /\ spc' = "idle"
    /\ nl' = AddNonLockedTx(nl, Event.tx, None)
    /\ PutBackAny(Event.tx)
    /\ Handled
    /\ UNCHANGED <<world, chain, mempool, txindex, db, confirmed, todo, cur, isman,
                   restarts, history>>

\* TransactionRemovedFromMempool.
TransactionRemoved ==
    /\ Notified("removed")
    /\ db' = RemoveConflictingLock(db, GetInstantSendLockByTxid(Event.tx))
    /\ Handled
    /\ UNCHANGED <<world, chain, mempool, txindex, confirmed, pending, pendingNoTx, nl, sched,
                   isman, restarts, history>>

\* BlockConnected: first the conflicted transactions,
BlockConnected ==
    /\ Notified("connected")
    /\ nl' = RemoveNonLockedTx(nl, Event.txs)
    /\ todo' = BlockTxs[Event.block] /\ spc' = "block"
    /\ UNCHANGED <<world, chain, mempool, txindex, db, confirmed, pending, pendingNoTx, queue,
                   cur, isman, restarts, history>>

\* then each transaction of the block: a locked one is not tracked any more,
CheckTx(t) ==
    /\ spc = "block" /\ t \in todo
    /\ todo' = todo \ {t}
    /\ IF IsLocked(t) \/ HasChainLock(Event.block)
       THEN nl' = RemoveNonLockedTx(nl, {t}) /\ UNCHANGED <<spc, cur>>
       ELSE spc' = "track" /\ cur' = t /\ UNCHANGED nl
    /\ UNCHANGED <<world, chain, mempool, txindex, db, confirmed, pending, pendingNoTx, queue,
                   isman, restarts, history>>

\* another one is,
TrackTx ==
    /\ spc = "track" /\ spc' = "block" /\ cur' = None
    /\ nl' = AddNonLockedTx(nl, cur, Event.block)
    /\ PutBackAny(cur)
    /\ UNCHANGED <<world, chain, mempool, txindex, db, confirmed, queue, todo, isman,
                   restarts, history>>

\* and the locks of the block are filed under its height.
WriteBlockInstantSendLocks ==
    /\ spc = "block" /\ todo = {} /\ spc' = "index"
    /\ db' = [db EXCEPT !.mined = @ \cup MinedLocks(Event.block)]
    /\ UNCHANGED <<world, chain, mempool, txindex, confirmed, pending, pendingNoTx, nl, queue,
                   todo, cur, isman, restarts, history>>

\* The transaction index hears of the block after InstantSend.
WriteTxIndex ==
    /\ spc = "index" /\ spc' = "idle"
    /\ txindex' = [t \in Txs |-> IF t \in BlockTxs[Event.block] THEN Event.block ELSE txindex[t]]
    /\ Handled
    /\ UNCHANGED <<world, chain, mempool, db, confirmed, pending, pendingNoTx, nl, todo, cur,
                   isman, restarts, history>>

\* Variant: the entries stay.
DisconnectedKeepsMined ==
    /\ Notified("disconnected") /\ Handled
    /\ UNCHANGED <<world, chain, mempool, txindex, db, confirmed, pending, pendingNoTx, nl, sched,
                   isman, restarts, history>>
BlockDisconnected ==
    /\ Notified("disconnected")
    /\ db' = [db EXCEPT !.mined = @ \ MinedLocks(Event.block)]
    /\ Handled
    /\ UNCHANGED <<world, chain, mempool, txindex, confirmed, pending, pendingNoTx, nl, sched,
                   isman, restarts, history>>

\* NotifyChainLock: HandleFullyConfirmedBlock.
HandleFullyConfirmedBlock ==
    LET b == Event.block IN
    /\ Notified("chainlock")
    /\ IF Height[b] > confirmed
       THEN db' = RemoveConfirmedInstantSendLocks(db, Height[b]) /\ confirmed' = Height[b]
       ELSE UNCHANGED <<db, confirmed>>
    /\ nl' = RemoveNonLockedTx(nl, {t \in nl.keys : nl.mined[t] \in Path[b]})
    /\ Handled
    /\ UNCHANGED <<world, chain, mempool, txindex, pending, pendingNoTx, sched, isman,
                   restarts, history>>

-----------------------------------------------------------------------------
\* The node stops when its threads are done and the queue is empty, and starts again.  The
\* database and the chain are kept, the pool too if it is saved; a pool that is loaded
\* before the node is synced is not tracked.
Restart ==
    /\ restarts < world.restarts /\ restarts' = restarts + 1
    /\ queue = <<>> /\ spc = "idle" /\ wpc = "idle" /\ batch = {}
    /\ mempool' \in {mempool, {}}
    /\ db' = [db EXCEPT !.kept = {}, !.keptTx = {}]
    /\ confirmed' = 0
    /\ pending' = {} /\ pendingNoTx' = {} /\ nl' = NothingTracked
    /\ chainlock' = None /\ notified' = None
    /\ UNCHANGED <<world, tip, failed, txindex, queue, sched, isman, history>>

Validation ==
    \/ \E t \in Txs : AcceptToMemoryPool(t) \/ LimitMempoolSize(t)
    \/ \E b \in Blocks : ActivateBestChain(b) \/ RejectBlock(b) \/ ProcessNewChainLock(b)
    \/ EnforceBlock \/ NotifyChainLock

Isman ==
    \/ \E deterministic \in BOOLEAN : ProcessPendingInstantSendLocks(deterministic)
    \/ \E l \in Locks : LookupTx(l)
    \/ ReplaceSameTx \/ StoreLock \/ WriteInstantSendLockMined \/ Untrack \/ ResolveBlockConflicts
    \/ \E c \in conflicts : BeginInvalidate(c)
    \/ InvalidateBlock \/ EndInvalidate \/ ResolveMempoolConflicts

Scheduler ==
    \/ TransactionAdded \/ AddedWithLock \/ AddedWithoutLock \/ TransactionRemoved
    \/ BlockConnected \/ (\E t \in todo : CheckTx(t)) \/ TrackTx
    \/ WriteBlockInstantSendLocks \/ WriteTxIndex
    \/ BlockDisconnected \/ HandleFullyConfirmedBlock

Next == Validation \/ Isman \/ Scheduler \/ Restart \/ \E l \in Locks : ReceiveLock(l)

Spec == Init /\ [][Next]_vars

-----------------------------------------------------------------------------
(* Properties.                                                             *)

\* Nothing is in progress.
Quiet == queue = <<>> /\ spc = "idle" /\ wpc = "idle" /\ batch = {} /\ pending = {}

\* The three indexes of the database agree: a transaction or an outpoint leads to a stored
\* lock that is about it, and a stored lock is found by its transaction and all its inputs
\* (WriteNewInstantSendLock, RemoveInstantSendLock).
IndexesAgree ==
    /\ \A t \in Txs : db.tx[t] # None => db.tx[t] \in db.lock /\ Txid[db.tx[t]] = t
    /\ \A o \in Outpoints : db.out[o] # None => db.out[o] \in db.lock /\ o \in Inputs[Txid[db.out[o]]]
    /\ \A l \in db.lock : db.tx[Txid[l]] = l /\ \A o \in Inputs[Txid[l]] : db.out[o] = l

\* A lock that was removed, replaced or confirmed never comes back: late copies of it and the
\* work in progress on it are dropped (KnownInstantSendLock, WriteInstantSendLockArchived).
\* The archive is not pruned here; the code forgets what is 100 blocks old.
ArchivedStays == [][\A l \in db.archived : l \in db'.archived /\ l \notin db'.lock]_vars

\* Whenever isman is between two locks, the pool holds nothing that conflicts with a stored
\* lock (AcceptToMemoryPool, RemoveMempoolConflictsForLock).
PoolRespectsLocks ==
    wpc = "idle" => \A l \in db.lock : Spenders(mempool, Txid[l]) = {}

\* When nothing is in progress, no active block conflicts with a stored lock whose conflicts
\* were all tracked when it was resolved: such a block was refused or invalidated, or the
\* lock was removed for the sake of a chain lock (ConnectBlock, ResolveBlockConflicts).
ChainRespectsLocks ==
    Quiet => \A l \in db.lock \ missed : ActiveConflicts(l) = {}

\* When nothing is in progress, a stored lock is filed under the height of the block its
\* transaction is in, and under no other, unless it was stored on outdated news
\* (WriteBlockInstantSendLocks, RemoveBlockInstantSendLocks, WriteInstantSendLockMined).
MinedHeightsRight ==
    Quiet => \A l \in db.lock \ stale :
        {e[1] : e \in {f \in db.mined : f[2] = l}}
            = {Height[b] : b \in {c \in Path[tip] : Txid[l] \in BlockTxs[c]}}

\* When nothing is in progress, a transaction that is there is not left unlocked while a lock
\* waits for it, unless it is chain locked, or a lock of it was put to wait on outdated news or
\* is archived: where two locks wait and one is archived, the one that is put back may be
\* the one that is dropped (TransactionAddedToMempool, AddNonLockedTx).
WaitsForUnknownTx ==
    Quiet => \A t \in Txs \ {Txid[l] : l \in stale \cup db.archived} :
        IsWaitingForTx(t) /\ Whereabouts(t).known
            => IsLocked(t) \/ \E b \in Blocks : t \in BlockTxs[b] /\ HasChainLock(b)

=============================================================================
