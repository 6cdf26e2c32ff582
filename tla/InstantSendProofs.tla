-------------------------- MODULE InstantSendProofs --------------------------
(***************************************************************************)
(* Proofs about the islock database of InstantSend, for all transactions,  *)
(* locks, blocks and worlds: its indexes agree, what is archived never     *)
(* comes back, and between two locks isman leaves no conflict in the pool; *)
(* then what the notifications in the queue tell of the chain, and what    *)
(* the two threads know of the work they are in the middle of.             *)
(***************************************************************************)
EXTENDS InstantSend, DataInduction, SequenceTheorems, TLAPS

-----------------------------------------------------------------------------
(* The inductive invariant.                                                *)

\* The database by itself: its indexes, what the caches keep and what is filed as mined.
DbInvariant(d) ==
    /\ DOMAIN d = {"lock", "tx", "out", "mined", "archived", "kept", "keptTx"}
    /\ d.lock \subseteq Locks /\ d.lock \cap d.archived = {}
    /\ d.tx \in [Txs -> Locks \cup {None}] /\ d.out \in [Outpoints -> Locks \cup {None}]
    /\ d.kept \subseteq d.archived /\ d.keptTx \subseteq d.archived
    /\ \A e \in d.mined : e[2] \in d.lock \cup d.archived
    /\ \A t \in Txs : d.tx[t] # None => d.tx[t] \in d.lock /\ Txid[d.tx[t]] = t
    /\ \A o \in Outpoints : d.out[o] # None => d.out[o] \in d.lock /\ o \in Inputs[Txid[d.out[o]]]
    /\ \A l \in d.lock : d.tx[Txid[l]] = l /\ \A o \in Inputs[Txid[l]] : d.out[o] = l

\* All locks that the node has or works on are locks of this world.
LocksOfWorld ==
    /\ world \in Worlds
    /\ db.lock \cup pending \cup pendingNoTx \cup batch \subseteq world.islocks
    /\ wpc # "idle" => wlock \in world.islocks

\* What isman knows of the lock that it is processing.
IsmanInvariant ==
    /\ wblock # None => wpc \in {"invalidate", "reset"}
    /\ wtx.block # None => wtx.known
    /\ wpc \in {"same", "store"} => wlock \notin db.lock \cup db.archived
    /\ wpc = "store" => \A l \in db.lock : Txid[l] # Txid[wlock]
    /\ wpc = "mined" => wlock \in db.lock \cup db.archived /\ wtx.block # None
    /\ wpc # "idle" /\ wlock \in db.lock => wtx.known

\* The pool has conflicts only with the lock that isman is processing.
PoolInvariant ==
    /\ mempool \subseteq Txs
    /\ \A l \in db.lock : Spenders(mempool, Txid[l]) # {} => wpc # "idle" /\ wlock = l

LockInvariant == DbInvariant(db) /\ LocksOfWorld /\ IsmanInvariant /\ PoolInvariant

-----------------------------------------------------------------------------
(* The operations of the database.                                         *)

\* RemoveInstantSendLock and WriteInstantSendLockArchived keep the database in order.
LEMMA RemoveAndArchiveKeeps ==
    ASSUME NEW d, NEW S, DbInvariant(d)
    PROVE  /\ DbInvariant(RemoveAndArchive(d, S))
           /\ RemoveAndArchive(d, S).lock = d.lock \ S
           /\ RemoveAndArchive(d, S).archived = d.archived \cup S
<1> DEFINE r == RemoveAndArchive(d, S)
           gone == S \cap d.lock
<1>1. /\ DOMAIN r = DOMAIN d
      /\ r.lock = d.lock \ S /\ r.archived = d.archived \cup S /\ r.mined = d.mined
      /\ r.kept = d.kept \ S /\ r.keptTx \subseteq d.keptTx
      /\ r.tx = [t \in Txs |-> IF \E l \in gone : Txid[l] = t THEN None ELSE d.tx[t]]
      /\ r.out = [o \in Outpoints |-> IF \E l \in gone : o \in Inputs[Txid[l]]
                                      THEN None ELSE d.out[o]]
  BY DEF DbInvariant, RemoveAndArchive
<1> HIDE DEF r
<1>2. r.tx \in [Txs -> Locks \cup {None}] /\ r.out \in [Outpoints -> Locks \cup {None}]
  BY <1>1 DEF DbInvariant
<1>3. \A t \in Txs : r.tx[t] # None => r.tx[t] \in r.lock /\ Txid[r.tx[t]] = t
  <2> SUFFICES ASSUME NEW t \in Txs, r.tx[t] # None
               PROVE  r.tx[t] \in r.lock /\ Txid[r.tx[t]] = t
    OBVIOUS
  <2>1. r.tx[t] = d.tx[t] /\ ~ \E l \in gone : Txid[l] = t
    BY <1>1
  <2>2. d.tx[t] \in d.lock /\ Txid[d.tx[t]] = t
    BY <2>1 DEF DbInvariant
  <2> QED
    BY <1>1, <2>1, <2>2
<1>4. \A o \in Outpoints : r.out[o] # None => r.out[o] \in r.lock /\ o \in Inputs[Txid[r.out[o]]]
  <2> SUFFICES ASSUME NEW o \in Outpoints, r.out[o] # None
               PROVE  r.out[o] \in r.lock /\ o \in Inputs[Txid[r.out[o]]]
    OBVIOUS
  <2>1. r.out[o] = d.out[o] /\ ~ \E l \in gone : o \in Inputs[Txid[l]]
    BY <1>1
  <2>2. d.out[o] \in d.lock /\ o \in Inputs[Txid[d.out[o]]]
    BY <2>1 DEF DbInvariant
  <2> QED
    BY <1>1, <2>1, <2>2
<1>5. \A l \in r.lock : r.tx[Txid[l]] = l /\ \A o \in Inputs[Txid[l]] : r.out[o] = l
  <2> SUFFICES ASSUME NEW l \in d.lock, l \notin S
               PROVE  r.tx[Txid[l]] = l /\ \A o \in Inputs[Txid[l]] : r.out[o] = l
    BY <1>1
  <2>1. d.tx[Txid[l]] = l /\ Txid[l] \in Txs /\ Inputs[Txid[l]] \subseteq Outpoints
    BY LockTypes, TransactionTypes DEF DbInvariant
  <2>2. \A m \in gone : Txid[m] # Txid[l]
    BY <2>1 DEF DbInvariant
  <2>3. \A o \in Inputs[Txid[l]] : d.out[o] = l /\ \A m \in gone : o \notin Inputs[Txid[m]]
    BY DEF DbInvariant
  <2> QED
    BY <1>1, <2>1, <2>2, <2>3
<1>6. /\ r.lock \subseteq Locks /\ r.lock \cap r.archived = {}
      /\ r.kept \subseteq r.archived /\ r.keptTx \subseteq r.archived
      /\ \A e \in r.mined : e[2] \in r.lock \cup r.archived
  BY <1>1 DEF DbInvariant
<1> QED
  <2>1. DbInvariant(r)
    BY <1>1, <1>2, <1>3, <1>4, <1>5, <1>6 DEF DbInvariant
  <2> QED
    BY <1>1, <2>1 DEF r

\* So does RemoveConflictingLock, which archives at most S and stored locks.
LEMMA RemoveConflictingKeeps ==
    ASSUME NEW d, NEW S, DbInvariant(d)
    PROVE  LET r == RemoveConflictingLock(d, S) IN
           /\ DbInvariant(r)
           /\ r.lock \subseteq d.lock \ S
           /\ d.archived \subseteq r.archived
           /\ r.lock \cup r.archived = d.lock \cup d.archived \cup S
<1> DEFINE chained == {l \in d.lock : \A C \in SUBSET d.lock :
            (\A m \in S \cup C : GetInstantSendLocksByParent(d, Txid[m]) \subseteq C) => l \in C}
<1>1. RemoveConflictingLock(d, S) = RemoveAndArchive(d, S \cup chained)
  BY DEF RemoveConflictingLock
<1>2. chained \subseteq d.lock
  OBVIOUS
<1> HIDE DEF chained
<1> QED
  BY <1>1, <1>2, RemoveAndArchiveKeeps

\* And the removal of what a chain lock confirms.
LEMMA RemoveConfirmedKeeps ==
    ASSUME NEW d, NEW height, DbInvariant(d)
    PROVE  LET r == RemoveConfirmedInstantSendLocks(d, height) IN
           /\ DbInvariant(r)
           /\ r.lock \subseteq d.lock
           /\ d.archived \subseteq r.archived
           /\ r.lock \cup r.archived = d.lock \cup d.archived
<1> DEFINE entries == {e \in d.mined : e[1] <= height}
           locks == {e[2] : e \in entries}
           a == RemoveAndArchive(d, locks)
           r == RemoveConfirmedInstantSendLocks(d, height)
<1>1. locks \subseteq d.lock \cup d.archived
  BY DEF DbInvariant
<1>2. /\ DbInvariant(a) /\ a.lock = d.lock \ locks /\ a.archived = d.archived \cup locks
  BY RemoveAndArchiveKeeps
<1>3. r = [a EXCEPT !.mined = d.mined \ entries,
                    !.kept = (d.kept \ locks) \cup (locks \cap d.lock),
                    !.keptTx = d.keptTx \cup (locks \cap d.lock)]
  BY DEF RemoveConfirmedInstantSendLocks
<1> HIDE DEF entries, locks, a, r
<1>4. /\ DOMAIN r = DOMAIN a /\ r.lock = a.lock /\ r.tx = a.tx /\ r.out = a.out
      /\ r.archived = a.archived /\ r.mined \subseteq d.mined
      /\ r.kept = (d.kept \ locks) \cup (locks \cap d.lock)
      /\ r.keptTx = d.keptTx \cup (locks \cap d.lock)
  BY <1>2, <1>3 DEF DbInvariant
<1>5. DbInvariant(r)
  BY <1>1, <1>2, <1>4 DEF DbInvariant
<1> QED
  BY <1>1, <1>2, <1>4, <1>5 DEF r

\* WriteNewInstantSendLock, for a lock that shares nothing with the stored ones.
LEMMA WriteKeeps ==
    ASSUME NEW d, NEW l \in Locks, DbInvariant(d), l \notin d.lock \cup d.archived,
           \A m \in d.lock : Txid[m] # Txid[l] /\ Inputs[Txid[m]] \cap Inputs[Txid[l]] = {}
    PROVE  /\ DbInvariant(WriteNewInstantSendLock(d, l))
           /\ WriteNewInstantSendLock(d, l).lock = d.lock \cup {l}
           /\ WriteNewInstantSendLock(d, l).archived = d.archived
<1> DEFINE w == WriteNewInstantSendLock(d, l)
<1>1. /\ DOMAIN w = DOMAIN d
      /\ w.lock = d.lock \cup {l} /\ w.archived = d.archived /\ w.mined = d.mined
      /\ w.kept = d.kept /\ w.keptTx \subseteq d.keptTx
      /\ w.tx = [d.tx EXCEPT ![Txid[l]] = l]
      /\ w.out = [o \in Outpoints |-> IF o \in Inputs[Txid[l]] THEN l ELSE d.out[o]]
  BY DEF DbInvariant, WriteNewInstantSendLock
<1> HIDE DEF w
<1>2. Txid[l] \in Txs /\ Inputs[Txid[l]] \subseteq Outpoints /\ l # None
  BY LockTypes, TransactionTypes
<1>3. w.tx \in [Txs -> Locks \cup {None}] /\ w.out \in [Outpoints -> Locks \cup {None}]
  <2>1. d.tx \in [Txs -> Locks \cup {None}] /\ d.out \in [Outpoints -> Locks \cup {None}]
    BY DEF DbInvariant
  <2>2. w.tx \in [Txs -> Locks \cup {None}]
    BY <1>1, <2>1, Zenon
  <2>3. ASSUME NEW o \in Outpoints
        PROVE  (IF o \in Inputs[Txid[l]] THEN l ELSE d.out[o]) \in Locks \cup {None}
    BY <2>1
  <2> QED
    BY <1>1, <2>2, <2>3
<1>4. \A t \in Txs : w.tx[t] # None => w.tx[t] \in w.lock /\ Txid[w.tx[t]] = t
  BY <1>1 DEF DbInvariant
<1>5. \A o \in Outpoints : w.out[o] # None => w.out[o] \in w.lock /\ o \in Inputs[Txid[w.out[o]]]
  BY <1>1 DEF DbInvariant
<1>6. \A m \in w.lock : w.tx[Txid[m]] = m /\ \A o \in Inputs[Txid[m]] : w.out[o] = m
  <2>1. w.tx[Txid[l]] = l /\ \A o \in Inputs[Txid[l]] : w.out[o] = l
    BY <1>1, <1>2 DEF DbInvariant
  <2>2. ASSUME NEW m \in d.lock
        PROVE  w.tx[Txid[m]] = m /\ \A o \in Inputs[Txid[m]] : w.out[o] = m
    <3>1. Txid[m] \in Txs /\ Inputs[Txid[m]] \subseteq Outpoints
      BY LockTypes, TransactionTypes DEF DbInvariant
    <3> QED
      BY <1>1, <3>1 DEF DbInvariant
  <2> QED
    BY <1>1, <2>1, <2>2
<1>7. DbInvariant(w)
  BY <1>1, <1>3, <1>4, <1>5, <1>6 DEF DbInvariant
<1> QED
  BY <1>1, <1>7 DEF w

-----------------------------------------------------------------------------
(* The queries.                                                            *)

\* A lock found by its transaction is stored or archived.
LEMMA FoundByTxid ==
    ASSUME NEW t, DbInvariant(db)
    PROVE  GetInstantSendLockByTxid(t) \subseteq db.lock \cup db.archived
BY DEF GetInstantSendLockByTxid, DbInvariant

\* So is a lock that a block's transactions conflict with, and one filed for a block.
LEMMA FoundByInput ==
    ASSUME NEW b \in Blocks, DbInvariant(db)
    PROVE  ConflictingLocks(b) \subseteq db.lock \cup db.archived
<1> SUFFICES ASSUME NEW t \in BlockTxs[b], NEW o \in Inputs[t], NEW l \in GetInstantSendLockByInput(o)
             PROVE  l \in db.lock \cup db.archived
  BY DEF ConflictingLocks, GetConflictingLock
<1>1. o \in Outpoints
  BY BlockTypes, TransactionTypes
<1> QED
  BY <1>1 DEF GetInstantSendLockByInput, DbInvariant

LEMMA FiledForBlock ==
    ASSUME NEW b, NEW e \in MinedLocks(b), DbInvariant(db)
    PROVE  e[2] \in db.lock \cup db.archived
<1>1. PICK t \in Txs : \E l \in GetInstantSendLockHashByTxid(t) : e = <<Height[b], l>>
  BY DEF MinedLocks
<1>2. PICK l \in GetInstantSendLockHashByTxid(t) : e = <<Height[b], l>>
  BY <1>1
<1>3. l \in db.lock \cup db.archived
  BY DEF GetInstantSendLockHashByTxid, DbInvariant
<1> QED
  BY <1>2, <1>3

\* A transaction without conflicting lock spends no input of another locked one.
LEMMA NoConflictingLock ==
    ASSUME DbInvariant(db), NEW t \in Txs, GetConflictingLock(t) = {}, NEW l \in db.lock
    PROVE  ~ DoubleSpend(Txid[l], t)
<1> SUFFICES ASSUME Txid[l] # t, NEW o \in Inputs[Txid[l]], o \in Inputs[t]
             PROVE  FALSE
  BY DEF DoubleSpend
<1>1. db.out[o] = l /\ l # None
  BY LockTypes DEF DbInvariant
<1>2. l \in GetInstantSendLockByInput(o)
  BY <1>1 DEF GetInstantSendLockByInput
<1> QED
  BY <1>2 DEF GetConflictingLock

-----------------------------------------------------------------------------
(* What most steps do: the database only loses locks, to the archive, and  *)
(* the pool gets no new conflicts with the stored ones.                    *)

DbShrinks ==
    /\ DbInvariant(db)' /\ db'.lock \subseteq db.lock
    /\ db.archived \subseteq db'.archived
    /\ db'.lock \cup db'.archived = db.lock \cup db.archived

PoolBehaves ==
    /\ mempool' \subseteq Txs
    /\ \A l \in db.lock : \A t \in mempool' \ mempool : ~ DoubleSpend(Txid[l], t)

\* Such a step keeps the invariant when isman is where it was.
LEMMA OrdinaryStep ==
    ASSUME LockInvariant, DbShrinks, PoolBehaves,
           UNCHANGED <<world, wpc, wlock, wtx, wblock>>,
           pending' \cup pendingNoTx' \cup batch' \subseteq world.islocks
    PROVE  LockInvariant'
<1>1. LocksOfWorld'
  BY DEF LockInvariant, LocksOfWorld, DbShrinks
<1>2. IsmanInvariant'
  BY DEF LockInvariant, IsmanInvariant, DbShrinks
<1>3. PoolInvariant'
  BY DEF LockInvariant, PoolInvariant, DbShrinks, PoolBehaves, Spenders
<1> QED
  BY <1>1, <1>2, <1>3 DEF LockInvariant, DbShrinks

\* The database as it was.
LEMMA SameDb ==
    ASSUME LockInvariant, UNCHANGED db
    PROVE  DbShrinks
BY DEF LockInvariant, DbShrinks, DbInvariant

\* The pool as it was, or smaller.
LEMMA SmallerPool ==
    ASSUME LockInvariant, mempool' \subseteq mempool
    PROVE  PoolBehaves
BY DEF LockInvariant, PoolInvariant, PoolBehaves

\* RemoveConflictingLock of locks that are stored or archived.
LEMMA ConflictingShrinks ==
    ASSUME LockInvariant, NEW S, S \subseteq db.lock \cup db.archived,
           db' = RemoveConflictingLock(db, S)
    PROVE  DbShrinks
<1>1. DbInvariant(db)
  BY DEF LockInvariant
<1>2. DbInvariant(RemoveConflictingLock(db, S))
  BY <1>1, RemoveConflictingKeeps
<1>3. DbInvariant(db)'
  BY <1>2 DEF DbInvariant
<1>4. /\ db'.lock \subseteq db.lock \ S
      /\ db.archived \subseteq db'.archived
      /\ db'.lock \cup db'.archived = db.lock \cup db.archived \cup S
  BY <1>1, RemoveConflictingKeeps
<1> QED
  BY <1>3, <1>4 DEF DbShrinks

\* What returns to the pool in a change of the chain has no conflicting lock.
LEMMA SetTipBehaves ==
    ASSUME LockInvariant, NEW b, SetTip(b)
    PROVE  PoolBehaves
<1> DEFINE old == Path[tip] \ Path[b]
           back == TakenBack(old, b)
<1>1. mempool' \subseteq mempool \cup back
  BY DEF SetTip
<1>2. \A t \in back : t \in Txs /\ GetConflictingLock(t) = {}
  BY DEF TakenBack
<1> HIDE DEF back
<1> QED
  BY <1>1, <1>2, NoConflictingLock DEF LockInvariant, PoolInvariant, PoolBehaves

-----------------------------------------------------------------------------
(* The steps.                                                              *)

\* Validation: blocks and transactions that conflict with a stored lock are refused.
LEMMA ValidationStep ==
    ASSUME LockInvariant, Validation
    PROVE  LockInvariant' /\ db.archived \subseteq db'.archived
<1>1. UNCHANGED <<world, wpc, wlock, wtx, wblock, pending, pendingNoTx, batch>>
  BY Zenon DEF Validation, AcceptToMemoryPool, LimitMempoolSize, ActivateBestChain, RejectBlock,
               ProcessNewChainLock, EnforceBlock, NotifyChainLock, isman
<1>2. DbShrinks
  <2>1. ASSUME NEW b \in Blocks, ActivateBestChain(b)
        PROVE  DbShrinks
    <3> DEFINE S == UNION {ConflictingLocks(c) : c \in Path[b] \ Path[tip]}
    <3>1. S \subseteq db.lock \cup db.archived
      BY FoundByInput, BlockTypes DEF LockInvariant
    <3>2. db' = RemoveConflictingLock(db, S)
      BY <2>1 DEF ActivateBestChain
    <3> HIDE DEF S
    <3> QED
      BY <3>1, <3>2, ConflictingShrinks
  <2>2. CASE UNCHANGED db
    BY <2>2, SameDb
  <2>3. UNCHANGED db \/ \E b \in Blocks : ActivateBestChain(b)
    BY Zenon DEF Validation, AcceptToMemoryPool, LimitMempoolSize, RejectBlock, ProcessNewChainLock,
                 EnforceBlock, NotifyChainLock
  <2> QED
    BY <2>1, <2>2, <2>3
<1>3. PoolBehaves
  <2>1. ASSUME NEW t \in Txs, AcceptToMemoryPool(t)
        PROVE  PoolBehaves
    <3>1. mempool' \subseteq mempool \cup {t} /\ GetConflictingLock(t) = {}
      BY <2>1 DEF AcceptToMemoryPool
    <3> QED
      BY <3>1, NoConflictingLock DEF LockInvariant, PoolInvariant, PoolBehaves
  <2>2. ASSUME NEW b, SetTip(b)
        PROVE  PoolBehaves
    BY <2>2, SetTipBehaves
  <2>3. CASE mempool' \subseteq mempool
    BY <2>3, SmallerPool
  <2>4. ASSUME NEW t \in Txs, LimitMempoolSize(t)
        PROVE  mempool' \subseteq mempool
    BY <2>4 DEF LimitMempoolSize
  <2>5. ASSUME NEW b \in Blocks, RejectBlock(b)
        PROVE  mempool' \subseteq mempool
    BY <2>5, Zenon DEF RejectBlock
  <2>6. ASSUME EnforceBlock
        PROVE  mempool' \subseteq mempool \/ \E b \in Path[tip] : SetTip(b)
    BY <2>6 DEF EnforceBlock
  <2>7. ASSUME NEW b \in Blocks, ActivateBestChain(b)
        PROVE  SetTip(b)
    BY <2>7 DEF ActivateBestChain
  <2>8. ASSUME NotifyChainLock \/ \E b \in Blocks : ProcessNewChainLock(b)
        PROVE  mempool' \subseteq mempool
    BY <2>8 DEF NotifyChainLock, ProcessNewChainLock
  <2> QED
    BY <2>1, <2>2, <2>3, <2>4, <2>5, <2>6, <2>7, <2>8 DEF Validation
<1>4. pending' \cup pendingNoTx' \cup batch' \subseteq world.islocks
  BY <1>1 DEF LockInvariant, LocksOfWorld
<1> QED
  BY <1>1, <1>2, <1>3, <1>4, OrdinaryStep DEF DbShrinks

\* The scheduler: it removes, files and confirms locks, and puts waiting ones back.
LEMMA SchedulerStep ==
    ASSUME LockInvariant, Scheduler
    PROVE  LockInvariant' /\ db.archived \subseteq db'.archived
<1> USE DEF isman
<1>1. UNCHANGED <<world, wpc, wlock, wtx, wblock, batch>>
  BY Zenon DEF Scheduler, TransactionAdded, AddedWithLock, AddedWithoutLock, TransactionRemoved,
               BlockConnected, CheckTx, TrackTx, WriteBlockInstantSendLocks, WriteTxIndex,
               BlockDisconnected, HandleFullyConfirmedBlock
<1>2. DbShrinks
  <2>1. CASE UNCHANGED db
    BY <2>1, SameDb
  <2>2. CASE TransactionRemoved
    BY <2>2, FoundByTxid, ConflictingShrinks DEF TransactionRemoved, LockInvariant
  <2>3. CASE WriteBlockInstantSendLocks
    <3>1. db' = [db EXCEPT !.mined = @ \cup MinedLocks(Event.block)]
      BY <2>3 DEF WriteBlockInstantSendLocks
    <3>2. \A e \in MinedLocks(Event.block) : e[2] \in db.lock \cup db.archived
      BY FiledForBlock DEF LockInvariant
    <3> QED
      BY <3>1, <3>2 DEF LockInvariant, DbInvariant, DbShrinks
  <2>4. CASE BlockDisconnected
    <3>1. db' = [db EXCEPT !.mined = @ \ MinedLocks(Event.block)]
      BY <2>4 DEF BlockDisconnected
    <3> QED
      BY <3>1 DEF LockInvariant, DbInvariant, DbShrinks
  <2>5. ASSUME NEW h, db' = RemoveConfirmedInstantSendLocks(db, h)
        PROVE  DbShrinks
    <3>1. DbInvariant(RemoveConfirmedInstantSendLocks(db, h))
      BY RemoveConfirmedKeeps DEF LockInvariant
    <3>2. DbInvariant(db)'
      BY <2>5, <3>1 DEF DbInvariant
    <3> QED
      BY <2>5, <3>2, RemoveConfirmedKeeps DEF LockInvariant, DbShrinks
  <2>6. CASE HandleFullyConfirmedBlock
    BY <2>1, <2>5, <2>6 DEF HandleFullyConfirmedBlock
  <2>7. \/ UNCHANGED db \/ TransactionRemoved \/ WriteBlockInstantSendLocks
        \/ BlockDisconnected \/ HandleFullyConfirmedBlock
    BY Zenon DEF Scheduler, TransactionAdded, AddedWithLock, AddedWithoutLock, BlockConnected, CheckTx,
                 TrackTx, WriteTxIndex
  <2> QED
    BY <2>1, <2>2, <2>3, <2>4, <2>6, <2>7
<1>3. PoolBehaves
  <2>1. mempool' \subseteq mempool
    BY Zenon DEF Scheduler, TransactionAdded, AddedWithLock, AddedWithoutLock, TransactionRemoved,
                 BlockConnected, CheckTx, TrackTx, WriteBlockInstantSendLocks, WriteTxIndex,
                 BlockDisconnected, HandleFullyConfirmedBlock, RemoveMempoolConflictsForLock
  <2> QED
    BY <2>1, SmallerPool
<1>4. pending' \cup pendingNoTx' \subseteq pending \cup pendingNoTx
  BY Zenon DEF Scheduler, TransactionAdded, AddedWithLock, AddedWithoutLock, TransactionRemoved,
               BlockConnected, CheckTx, TrackTx, WriteBlockInstantSendLocks, WriteTxIndex,
               BlockDisconnected, HandleFullyConfirmedBlock, PutBackAny, PutBack
<1> QED
  <2>1. pending' \cup pendingNoTx' \cup batch' \subseteq world.islocks
    BY <1>1, <1>4 DEF LockInvariant, LocksOfWorld
  <2> QED
    BY <1>1, <1>2, <1>3, <2>1, OrdinaryStep DEF DbShrinks

\* ReplaceSameTx leaves no stored lock of the transaction.
LEMMA ReplaceSameTxStep ==
    ASSUME LockInvariant, ReplaceSameTx
    PROVE  LockInvariant' /\ db.archived \subseteq db'.archived
<1> DEFINE same == GetInstantSendLockByTxid(Txid[wlock])
<1>0. /\ wpc = "same" /\ wlock \notin db.lock \cup db.archived /\ wlock \in world.islocks
      /\ wlock \in Locks /\ wblock = None
      /\ UNCHANGED <<world, mempool, pending, pendingNoTx, batch, wblock>>
  BY LockTypes DEF ReplaceSameTx, LockInvariant, IsmanInvariant, LocksOfWorld
<1>1. same \subseteq db.lock \cup db.archived
  BY FoundByTxid DEF LockInvariant
<1>2. \A l \in db.lock : Spenders(mempool, Txid[l]) = {}
  BY <1>0 DEF LockInvariant, PoolInvariant
<1>3. CASE same \cap Det # {}
  <2>1. UNCHANGED db /\ wpc' = "idle" /\ wtx' = NoNews
    BY <1>3 DEF ReplaceSameTx
  <2>2. DbInvariant(db)' /\ db.archived \subseteq db'.archived
    BY <2>1 DEF LockInvariant, DbInvariant
  <2>3. LocksOfWorld' /\ IsmanInvariant' /\ PoolInvariant'
    BY <1>0, <1>2, <2>1 DEF LockInvariant, LocksOfWorld, IsmanInvariant, PoolInvariant, NoNews, Spenders
  <2> QED
    BY <2>2, <2>3 DEF LockInvariant
<1>4. CASE same \cap Det = {}
  <2>0. wpc' = "store" /\ UNCHANGED <<wlock, wtx>>
    BY <1>4 DEF ReplaceSameTx
  <2>1. \A l \in db.lock : Txid[l] = Txid[wlock] => l \in same
    <3> SUFFICES ASSUME NEW l \in db.lock, Txid[l] = Txid[wlock]
                 PROVE  l \in same
      OBVIOUS
    <3>1. db.tx[Txid[wlock]] = l /\ l # None
      BY LockTypes DEF LockInvariant, DbInvariant
    <3> QED
      BY <3>1 DEF GetInstantSendLockByTxid, GetInstantSendLockHashByTxid
  <2> HIDE DEF same
  <2>2. CASE wlock \in Det
    <3> DEFINE a == RemoveAndArchive(db, same)
    <3>1. DbInvariant(a) /\ a.lock = db.lock \ same /\ a.archived = db.archived \cup same
      BY RemoveAndArchiveKeeps DEF LockInvariant
    <3>2. db' = [a EXCEPT !.keptTx = @ \ same]
      BY <1>4, <2>2 DEF ReplaceSameTx, same
    <3> HIDE DEF a
    <3>3. DbInvariant(db)' /\ db'.lock = a.lock /\ db'.archived = a.archived
      BY <3>1, <3>2 DEF DbInvariant
    <3>4. LocksOfWorld'
      BY <1>0, <2>0, <3>1, <3>3 DEF LockInvariant, LocksOfWorld
    <3>5. IsmanInvariant'
      BY <1>0, <1>1, <2>0, <2>1, <3>1, <3>3 DEF LockInvariant, IsmanInvariant
    <3>6. PoolInvariant'
      BY <1>0, <1>2, <3>1, <3>3 DEF LockInvariant, PoolInvariant, Spenders
    <3> QED
      BY <3>1, <3>3, <3>4, <3>5, <3>6 DEF LockInvariant
  <2>3. CASE wlock \notin Det
    <3>1. UNCHANGED db
      BY <1>4, <2>3 DEF ReplaceSameTx, same
    <3>2. \A l \in db.lock : Txid[l] # Txid[wlock]
      BY <1>0, <1>4, <2>1, <2>3, OneLockPerInput DEF LockInvariant, LocksOfWorld
    <3>3. DbInvariant(db)' /\ db.archived \subseteq db'.archived
      BY <3>1 DEF LockInvariant, DbInvariant
    <3>4. LocksOfWorld'
      BY <1>0, <2>0, <3>1 DEF LockInvariant, LocksOfWorld
    <3>5. IsmanInvariant'
      BY <1>0, <2>0, <3>1, <3>2 DEF LockInvariant, IsmanInvariant
    <3>6. PoolInvariant'
      BY <1>0, <1>2, <3>1 DEF LockInvariant, PoolInvariant, Spenders
    <3> QED
      BY <3>3, <3>4, <3>5, <3>6 DEF LockInvariant
  <2> QED
    BY <2>2, <2>3
<1> QED
  BY <1>3, <1>4

\* StoreLock stores a lock that shares no input with a stored one.
LEMMA StoreLockStep ==
    ASSUME LockInvariant, StoreLock
    PROVE  LockInvariant' /\ db.archived \subseteq db'.archived
<1>0. /\ wpc = "store" /\ wlock \notin db.lock \cup db.archived /\ wlock \in world.islocks
      /\ wlock \in Locks /\ wblock = None /\ wpc' # "idle" /\ wpc' # "same" /\ wpc' # "store"
      /\ wpc' = "mined" => wtx.block # None /\ wtx.known
      /\ UNCHANGED <<world, mempool, pending, batch, wlock, wtx, wblock>>
  BY LockTypes DEF StoreLock, LockInvariant, IsmanInvariant, LocksOfWorld
<1>1. \A l \in db.lock : Spenders(mempool, Txid[l]) = {}
  BY <1>0 DEF LockInvariant, PoolInvariant
<1>2. CASE wtx.known
  <2>1. \A m \in db.lock : Txid[m] # Txid[wlock] /\ Inputs[Txid[m]] \cap Inputs[Txid[wlock]] = {}
    <3> SUFFICES ASSUME NEW m \in db.lock
                 PROVE  Txid[m] # Txid[wlock] /\ Inputs[Txid[m]] \cap Inputs[Txid[wlock]] = {}
      OBVIOUS
    <3>1. Txid[m] # Txid[wlock]
      BY <1>0 DEF LockInvariant, IsmanInvariant
    <3>2. m \in world.islocks /\ world \in Worlds
      BY DEF LockInvariant, LocksOfWorld
    <3> QED
      BY <1>0, <3>1, <3>2, OneLockPerInput
  <2>2. db' = WriteNewInstantSendLock(db, wlock) /\ UNCHANGED pendingNoTx
    BY <1>2 DEF StoreLock
  <2>3. /\ DbInvariant(WriteNewInstantSendLock(db, wlock))
        /\ db'.lock = db.lock \cup {wlock} /\ db'.archived = db.archived
    BY <1>0, <2>1, <2>2, WriteKeeps DEF LockInvariant
  <2>4. DbInvariant(db)'
    BY <2>2, <2>3 DEF DbInvariant
  <2>5. LocksOfWorld' /\ IsmanInvariant'
    BY <1>0, <1>2, <2>2, <2>3 DEF LockInvariant, LocksOfWorld, IsmanInvariant
  <2>6. PoolInvariant'
    BY <1>0, <1>1, <2>3 DEF LockInvariant, PoolInvariant, Spenders
  <2> QED
    BY <2>3, <2>4, <2>5, <2>6 DEF LockInvariant
<1>3. CASE ~ wtx.known
  <2>1. UNCHANGED db /\ pendingNoTx' = pendingNoTx \cup {wlock}
    BY <1>3 DEF StoreLock
  <2>2. DbInvariant(db)' /\ db.archived \subseteq db'.archived
    BY <2>1 DEF LockInvariant, DbInvariant
  <2>3. LocksOfWorld' /\ IsmanInvariant'
    BY <1>0, <1>3, <2>1 DEF LockInvariant, LocksOfWorld, IsmanInvariant
  <2>4. PoolInvariant'
    BY <1>0, <1>1, <2>1 DEF LockInvariant, PoolInvariant, Spenders
  <2> QED
    BY <2>2, <2>3, <2>4 DEF LockInvariant
<1> QED
  BY <1>2, <1>3

\* ResolveBlockConflicts may archive the lock that is being processed.
LEMMA ResolveBlockConflictsStep ==
    ASSUME LockInvariant, ResolveBlockConflicts
    PROVE  LockInvariant' /\ db.archived \subseteq db'.archived
<1>1. /\ wpc = "resolve" /\ wpc' \in {"mempool", "reset", "invalidate"} /\ wblock = None
      /\ UNCHANGED <<world, mempool, pending, pendingNoTx, batch, wlock, wtx, wblock>>
      /\ UNCHANGED db \/ db' = RemoveConflictingLock(db, {wlock})
  BY DEF ResolveBlockConflicts, LockInvariant, IsmanInvariant
<1>2. DbInvariant(db)' /\ db'.lock \subseteq db.lock /\ db.archived \subseteq db'.archived
  <2>1. CASE UNCHANGED db
    BY <2>1 DEF LockInvariant, DbInvariant
  <2>2. CASE db' = RemoveConflictingLock(db, {wlock})
    <3>1. DbInvariant(RemoveConflictingLock(db, {wlock}))
      BY RemoveConflictingKeeps DEF LockInvariant
    <3>2. DbInvariant(db)'
      BY <2>2, <3>1, Zenon DEF DbInvariant
    <3> QED
      BY <2>2, <3>2, RemoveConflictingKeeps DEF LockInvariant
  <2> QED
    BY <1>1, <2>1, <2>2
<1>3. LocksOfWorld' /\ IsmanInvariant'
  BY <1>1, <1>2 DEF LockInvariant, LocksOfWorld, IsmanInvariant
<1>4. PoolInvariant'
  BY <1>1, <1>2 DEF LockInvariant, PoolInvariant, Spenders
<1> QED
  BY <1>2, <1>3, <1>4 DEF LockInvariant

\* RemoveMempoolConflictsForLock leaves no conflict with its lock.
LEMMA NoConflictLeft ==
    ASSUME NEW l, NEW rest, RemoveMempoolConflictsForLock(l, rest)
    PROVE  mempool' \subseteq mempool /\ Spenders(mempool', Txid[l]) = {}
<1> DEFINE toDelete == Spenders(mempool, Txid[l])
<1>1. mempool' = mempool \ removeRecursive(mempool, toDelete)
  BY DEF RemoveMempoolConflictsForLock
<1>2. toDelete \subseteq removeRecursive(mempool, toDelete)
  <2>1. toDelete \subseteq mempool
    BY DEF Spenders
  <2> HIDE DEF toDelete
  <2> QED
    BY <2>1 DEF removeRecursive
<1> QED
  BY <1>1, <1>2 DEF Spenders

\* ResolveMempoolConflicts ends the processing of a lock.
LEMMA ResolveMempoolConflictsStep ==
    ASSUME LockInvariant, ResolveMempoolConflicts
    PROVE  LockInvariant' /\ db.archived \subseteq db'.archived
<1>1. /\ wpc = "mempool" /\ wpc' = "idle" /\ wtx' = NoNews /\ wblock = None
      /\ UNCHANGED <<world, db, pending, pendingNoTx, batch, wblock>>
  BY DEF ResolveMempoolConflicts, LockInvariant, IsmanInvariant
<1>2. mempool' \subseteq mempool
  BY NoConflictLeft DEF ResolveMempoolConflicts
<1>3. wlock \in db.lock => Spenders(mempool', Txid[wlock]) = {}
  <2> SUFFICES ASSUME wlock \in db.lock
               PROVE  Spenders(mempool', Txid[wlock]) = {}
    OBVIOUS
  <2>1. wtx.known
    BY <1>1 DEF LockInvariant, IsmanInvariant
  <2> QED
    BY <2>1, NoConflictLeft DEF ResolveMempoolConflicts
<1>4. DbInvariant(db)'
  BY <1>1 DEF LockInvariant, DbInvariant
<1>5. LocksOfWorld' /\ IsmanInvariant'
  BY <1>1 DEF LockInvariant, LocksOfWorld, IsmanInvariant, NoNews
<1>6. PoolInvariant'
  BY <1>1, <1>2, <1>3 DEF LockInvariant, PoolInvariant, Spenders
<1> QED
  BY <1>1, <1>4, <1>5, <1>6 DEF LockInvariant

\* The thread isman: the steps above, and those that leave stored locks alone.
LEMMA IsmanStep ==
    ASSUME LockInvariant, Isman
    PROVE  LockInvariant' /\ db.archived \subseteq db'.archived
<1>1. ASSUME NEW deterministic \in BOOLEAN, ProcessPendingInstantSendLocks(deterministic)
      PROVE  LockInvariant' /\ db.archived \subseteq db'.archived
  <2>1. UNCHANGED <<world, mempool, db, wpc, wlock, wtx, wblock, pendingNoTx>>
    BY <1>1 DEF ProcessPendingInstantSendLocks
  <2>2. pending' \cup batch' \subseteq pending
    BY <1>1 DEF ProcessPendingInstantSendLocks
  <2>3. pending' \cup pendingNoTx' \cup batch' \subseteq world.islocks
    BY <2>1, <2>2 DEF LockInvariant, LocksOfWorld
  <2> QED
    BY <2>1, <2>3, SameDb, SmallerPool, OrdinaryStep DEF DbShrinks
<1>2. ASSUME NEW l \in Locks, LookupTx(l)
      PROVE  LockInvariant' /\ db.archived \subseteq db'.archived
  <2>1. /\ wpc = "idle" /\ l \in batch /\ batch' \subseteq batch /\ wblock = None
        /\ UNCHANGED <<world, mempool, db, wblock, pending, pendingNoTx>>
    BY <1>2 DEF LookupTx, LockInvariant, IsmanInvariant
  <2>2. CASE UNCHANGED <<wpc, wlock, wtx>>
    <3>1. pending' \cup pendingNoTx' \cup batch' \subseteq world.islocks
      BY <2>1 DEF LockInvariant, LocksOfWorld
    <3> QED
      BY <2>1, <2>2, <3>1, SameDb, SmallerPool, OrdinaryStep DEF DbShrinks
  <2>3. CASE wpc' = "same" /\ wlock' = l /\ wtx' = GetTransaction(Txid[l])
             /\ ~ KnownInstantSendLock(l)
    <3>1. wtx'.block # None => wtx'.known
      BY <2>3, Zenon DEF GetTransaction
    <3>2. l \notin db.lock \cup db.archived
      BY <2>3 DEF KnownInstantSendLock
    <3>3. DbInvariant(db)'
      BY <2>1 DEF LockInvariant, DbInvariant
    <3>4. LocksOfWorld' /\ IsmanInvariant'
      BY <2>1, <2>3, <3>1, <3>2 DEF LockInvariant, LocksOfWorld, IsmanInvariant
    <3>5. PoolInvariant'
      BY <2>1, <2>3 DEF LockInvariant, PoolInvariant, Spenders
    <3> QED
      BY <2>1, <3>3, <3>4, <3>5 DEF LockInvariant
  <2> QED
    BY <1>2, <2>2, <2>3 DEF LookupTx
<1>3. CASE WriteInstantSendLockMined
  <2>1. /\ wpc = "mined" /\ wpc' = "untrack" /\ wblock = None
        /\ db' = [db EXCEPT !.mined = @ \cup {<<Height[wtx.block], wlock>>}]
        /\ UNCHANGED <<world, mempool, pending, pendingNoTx, batch, wlock, wtx, wblock>>
    BY <1>3 DEF WriteInstantSendLockMined, LockInvariant, IsmanInvariant
  <2>2. wlock \in db.lock \cup db.archived
    BY <2>1 DEF LockInvariant, IsmanInvariant
  <2>3. DbInvariant(db)' /\ db'.lock = db.lock /\ db'.archived = db.archived
    BY <2>1, <2>2 DEF LockInvariant, DbInvariant
  <2>4. LocksOfWorld' /\ IsmanInvariant'
    BY <2>1, <2>3 DEF LockInvariant, LocksOfWorld, IsmanInvariant
  <2>5. PoolInvariant'
    BY <2>1, <2>3 DEF LockInvariant, PoolInvariant, Spenders
  <2> QED
    BY <2>3, <2>4, <2>5 DEF LockInvariant
<1>4. CASE Untrack \/ (\E c \in conflicts : BeginInvalidate(c)) \/ EndInvalidate
  <2>1. /\ wpc \in {"untrack", "invalidate", "reset"}
        /\ wpc' \in {"resolve", "mempool", "invalidate", "reset"}
        /\ wblock' # None => wpc' \in {"invalidate", "reset"}
        /\ UNCHANGED <<world, mempool, db, pending, pendingNoTx, batch, wlock, wtx>>
    BY <1>4, Zenon DEF Untrack, BeginInvalidate, EndInvalidate, LockInvariant, IsmanInvariant
  <2>2. DbInvariant(db)'
    BY <2>1 DEF LockInvariant, DbInvariant
  <2>3. LocksOfWorld' /\ IsmanInvariant'
    BY <2>1, Zenon DEF LockInvariant, LocksOfWorld, IsmanInvariant
  <2>4. PoolInvariant'
    BY <2>1, Zenon DEF LockInvariant, PoolInvariant, Spenders
  <2> QED
    BY <2>1, <2>2, <2>3, <2>4 DEF LockInvariant
<1>5. CASE InvalidateBlock
  <2>1. SetTip(Parent[tip])
        /\ UNCHANGED <<world, db, pending, pendingNoTx, batch, wpc, wlock, wtx, wblock>>
    BY <1>5 DEF InvalidateBlock, isman
  <2>2. pending' \cup pendingNoTx' \cup batch' \subseteq world.islocks
    BY <2>1 DEF LockInvariant, LocksOfWorld
  <2> QED
    BY <2>1, <2>2, SameDb, SetTipBehaves, OrdinaryStep DEF DbShrinks
<1> QED
  BY <1>1, <1>2, <1>3, <1>4, <1>5, ReplaceSameTxStep, StoreLockStep, ResolveBlockConflictsStep,
     ResolveMempoolConflictsStep DEF Isman

\* Every step keeps the invariant, and nothing leaves the archive.
LEMMA LockInvariantStep ==
    ASSUME LockInvariant, [Next]_vars
    PROVE  LockInvariant' /\ db.archived \subseteq db'.archived
<1>1. CASE Restart
  <2>1. /\ mempool' \subseteq mempool /\ pending' = {} /\ pendingNoTx' = {}
        /\ UNCHANGED <<world, wpc, batch, wlock, wtx, wblock>>
    BY <1>1 DEF Restart, isman
  <2>2. db' = [db EXCEPT !.kept = {}, !.keptTx = {}]
    BY <1>1 DEF Restart
  <2>3. DbShrinks
    BY <2>2 DEF LockInvariant, DbInvariant, DbShrinks
  <2>4. pending' \cup pendingNoTx' \cup batch' \subseteq world.islocks
    BY <2>1 DEF LockInvariant, LocksOfWorld
  <2> QED
    BY <2>1, <2>3, <2>4, SmallerPool, OrdinaryStep DEF DbShrinks
<1>2. ASSUME NEW l \in Locks, ReceiveLock(l)
      PROVE  LockInvariant' /\ db.archived \subseteq db'.archived
  <2>1. UNCHANGED <<world, mempool, db, wpc, batch, wlock, wtx, wblock, pendingNoTx>>
    BY <1>2 DEF ReceiveLock, isman
  <2>2. pending' \cup pendingNoTx' \cup batch' \subseteq world.islocks
    BY <1>2, <2>1 DEF ReceiveLock, LockInvariant, LocksOfWorld
  <2> QED
    BY <2>1, <2>2, SameDb, SmallerPool, OrdinaryStep DEF DbShrinks
<1>3. CASE UNCHANGED vars
  <2>1. UNCHANGED <<world, mempool, db, wpc, batch, wlock, wtx, wblock, pending, pendingNoTx>>
    BY <1>3 DEF vars, isman
  <2>2. pending' \cup pendingNoTx' \cup batch' \subseteq world.islocks
    BY <2>1 DEF LockInvariant, LocksOfWorld
  <2> QED
    BY <2>1, <2>2, SameDb, SmallerPool, OrdinaryStep DEF DbShrinks
<1> QED
  BY <1>1, <1>2, <1>3, ValidationStep, IsmanStep, SchedulerStep DEF Next

\* Initially there are no locks.
LEMMA LockInvariantInit == Init => LockInvariant
<1> SUFFICES ASSUME Init
             PROVE  LockInvariant
  OBVIOUS
<1>1. DbInvariant(db)
  BY DEF Init, NoLocks, DbInvariant
<1>2. db.lock = {}
  BY DEF Init, NoLocks
<1>3. LocksOfWorld /\ IsmanInvariant /\ PoolInvariant
  BY <1>2 DEF Init, LocksOfWorld, IsmanInvariant, PoolInvariant, NoNews
<1> QED
  BY <1>1, <1>3 DEF LockInvariant

\* What the node knows of islocks is consistent in every reachable state.
THEOREM LockInvariantHolds == Spec => []LockInvariant
<1>1. LockInvariant /\ [Next]_vars => LockInvariant'
  BY LockInvariantStep
<1> QED
  BY <1>1, LockInvariantInit, PTL DEF Spec

-----------------------------------------------------------------------------
\* The indexes of CInstantSendDb by transaction and by outpoint agree with the locks that are
\* stored, whatever the threads do between its critical sections.
THEOREM IndexesAlwaysAgree == Spec => []IndexesAgree
<1>1. LockInvariant => IndexesAgree
  BY DEF LockInvariant, DbInvariant, IndexesAgree
<1> QED
  BY <1>1, LockInvariantHolds, PTL

\* When isman has finished a lock, no transaction of the pool conflicts with a stored one:
\* neither one that was there nor one accepted or taken back meanwhile.
THEOREM PoolAlwaysRespectsLocks == Spec => []PoolRespectsLocks
<1>1. LockInvariant => PoolRespectsLocks
  BY DEF LockInvariant, PoolInvariant, PoolRespectsLocks
<1> QED
  BY <1>1, LockInvariantHolds, PTL

\* A lock that was removed, replaced or confirmed is never stored again.
THEOREM ArchiveIsFinal == Spec => ArchivedStays
<1>1. LockInvariant /\ [Next]_vars
        => [\A l \in db.archived : l \in db'.archived /\ l \notin db'.lock]_vars
  <2> SUFFICES ASSUME LockInvariant, [Next]_vars
               PROVE  \A l \in db.archived : l \in db'.archived /\ l \notin db'.lock
    OBVIOUS
  <2>1. db.archived \subseteq db'.archived
    BY LockInvariantStep
  <2>2. db'.lock \cap db'.archived = {}
    BY LockInvariantStep DEF LockInvariant, DbInvariant
  <2> QED
    BY <2>1, <2>2
<1> QED
  BY <1>1, LockInvariantHolds, PTL DEF Spec, ArchivedStays

-----------------------------------------------------------------------------
(* The sequences that notifications are queued in.                         *)

\* s lists the elements of S.
Lists(s, S) ==
    \E n \in Nat : s \in [1..n -> S] /\ \A x \in S : \E i \in 1..n : s[i] = x

\* A choice of an injective sequence does, for a finite set.
LEMMA ChosenLists ==
    ASSUME NEW S, IsFiniteSet(S)
    PROVE  Lists(CHOOSE s \in [1..Cardinality(S) -> S] : IsInjective(s), S)
<1> DEFINE n == Cardinality(S)
           f == CHOOSE s \in [1..n -> S] : IsInjective(s)
<1>1. n \in Nat /\ ExistsBijection(1..n, S)
  BY FS_CardinalityType
<1>2. PICK g \in [1..n -> S] : IsInjective(g)
  BY <1>1 DEF ExistsBijection, Bijection, Injection, IsInjective
<1>3. f \in [1..n -> S] /\ IsInjective(f)
  BY <1>2
<1> HIDE DEF f
<1>4. f \in Injection(1..n, S)
  BY <1>3 DEF Injection, IsInjective
<1>5. IsFiniteSet(1..n) /\ Cardinality(1..n) = n
  BY <1>1, FS_Interval
<1>6. f \in Surjection(1..n, S)
  BY <1>4, <1>5, FS_Injection
<1>7. \A x \in S : \E i \in 1..n : f[i] = x
  BY <1>6 DEF Surjection
<1> QED
  BY <1>1, <1>3, <1>7, Zenon DEF Lists, f

\* A finite set of blocks of different heights can be sorted.
LEMMA SortedExists ==
    ASSUME NEW n \in Nat, NEW bs \in SUBSET Blocks, IsFiniteSet(bs), Cardinality(bs) = n,
           \A c, d \in bs : c # d => Height[c] # Height[d]
    PROVE  \E s \in [1..n -> bs] : \A i, j \in 1..n : i < j => Height[s[i]] < Height[s[j]]
<1> DEFINE Sortable(m) == \A B \in SUBSET Blocks :
               /\ IsFiniteSet(B) /\ Cardinality(B) = m
               /\ \A c, d \in B : c # d => Height[c] # Height[d]
               => \E s \in [1..m -> B] : \A i, j \in 1..m : i < j => Height[s[i]] < Height[s[j]]
           S == {m \in Nat : Sortable(m)}
<1>1. 0 \in S
  <2> SUFFICES ASSUME NEW B \in SUBSET Blocks
               PROVE  \E s \in [1..0 -> B] : \A i, j \in 1..0 : i < j => Height[s[i]] < Height[s[j]]
    OBVIOUS
  <2>1. 1..0 = {}
    OBVIOUS
  <2>2. PICK s : s = [i \in 1..0 |-> Genesis]
    OBVIOUS
  <2>3. s \in [1..0 -> B]
    BY <2>1, <2>2, Zenon
  <2> QED
    BY <2>1, <2>3, Zenon
<1>2. ASSUME NEW m \in Nat, m \in S
      PROVE  m + 1 \in S
  <2> SUFFICES ASSUME NEW B \in SUBSET Blocks, IsFiniteSet(B), Cardinality(B) = m + 1,
                      \A c, d \in B : c # d => Height[c] # Height[d]
               PROVE  \E s \in [1..(m + 1) -> B] :
                          \A i, j \in 1..(m + 1) : i < j => Height[s[i]] < Height[s[j]]
    OBVIOUS
  <2> DEFINE hs == {Height[c] : c \in B}
  <2>1. hs \in SUBSET Nat /\ hs # {}
    BY BlockTypes, FS_EmptySet
  <2>2. PICK h \in hs : \A k \in hs : h <= k
    BY <2>1, LeastNatural, Zenon
  <2>3. PICK low \in B : \A c \in B : Height[low] <= Height[c]
    BY <2>2
  <2>4. \A c \in B \ {low} : Height[low] < Height[c]
    <3> SUFFICES ASSUME NEW c \in B, c # low PROVE Height[low] < Height[c]
      OBVIOUS
    <3>1. Height[low] <= Height[c] /\ Height[low] # Height[c]
      BY <2>3
    <3>2. Height[low] \in Nat /\ Height[c] \in Nat
      BY BlockTypes
    <3> QED
      BY <3>1, <3>2
  <2> DEFINE R == B \ {low}
  <2>5. IsFiniteSet(R) /\ Cardinality(R) = m /\ R \in SUBSET Blocks
    <3>1. IsFiniteSet(R) /\ Cardinality(R) = Cardinality(B) - 1
      BY FS_RemoveElement, Zenon
    <3> QED
      BY <3>1
  <2>6. PICK r \in [1..m -> R] : \A i, j \in 1..m : i < j => Height[r[i]] < Height[r[j]]
    BY <1>2, <2>5
  <2> DEFINE s == [i \in 1..(m + 1) |-> IF i = 1 THEN low ELSE r[i - 1]]
  <2>7. \A i \in 1..(m + 1) : i # 1 => i - 1 \in 1..m /\ s[i] = r[i - 1] /\ r[i - 1] \in R
    BY <2>6
  <2>8. s \in [1..(m + 1) -> B] /\ s[1] = low
    BY <2>7
  <2> HIDE DEF s, R
  <2>9. ASSUME NEW i \in 1..(m + 1), NEW j \in 1..(m + 1), i < j
        PROVE  Height[s[i]] < Height[s[j]]
    <3>1. j # 1 /\ j - 1 \in 1..m /\ s[j] = r[j - 1] /\ r[j - 1] \in R
      BY <2>7, <2>9
    <3>2. CASE i = 1
      BY <2>4, <2>8, <3>1, <3>2 DEF R
    <3>3. CASE i # 1
      <4>1. i - 1 \in 1..m /\ s[i] = r[i - 1] /\ i - 1 < j - 1
        BY <2>7, <2>9, <3>3
      <4> QED
        BY <2>6, <3>1, <4>1
    <3> QED
      BY <3>2, <3>3
  <2> QED
    BY <2>8, <2>9
<1>3. Nat \subseteq S
  <2> HIDE DEF S
  <2> QED
    BY <1>1, <1>2, NatSetInduction
<1> QED
  BY <1>3

\* Ascending lists the blocks of a part of a chain.
LEMMA AscendingLists ==
    ASSUME NEW b \in Blocks, NEW bs \in SUBSET Path[b]
    PROVE  Lists(Ascending(bs), bs)
<1> DEFINE n == Cardinality(bs)
           f == Ascending(bs)
<1>1. bs \in SUBSET Blocks /\ \A c, d \in bs : c # d => Height[c] # Height[d]
  BY BlockTypes, BlockTree
<1>2. IsFiniteSet(bs) /\ n \in Nat
  BY <1>1, FiniteHashes, FS_Subset, FS_CardinalityType
<1>3. PICK s \in [1..n -> bs] : \A i, j \in 1..n : i < j => Height[s[i]] < Height[s[j]]
  BY <1>1, <1>2, SortedExists
<1>4. f \in [1..n -> bs] /\ \A i, j \in 1..n : i < j => Height[f[i]] < Height[f[j]]
  <2>1. \E g \in [1..n -> bs] : \A i, j \in DOMAIN g : i < j => Height[g[i]] < Height[g[j]]
    BY <1>3, Zenon
  <2>2. f \in [1..n -> bs] /\ \A i, j \in DOMAIN f : i < j => Height[f[i]] < Height[f[j]]
    BY <2>1, Zenon DEF Ascending
  <2> HIDE DEF f
  <2> QED
    BY <2>2
<1> HIDE DEF f
<1>5. f \in Injection(1..n, bs)
  <2>1. ASSUME NEW i \in 1..n, NEW j \in 1..n, f[i] = f[j]
        PROVE  i = j
    <3>1. Height[f[i]] \in Nat
      BY <1>1, <1>4, BlockTypes
    <3>2. ~ (i < j) /\ ~ (j < i)
      BY <1>4, <2>1, <3>1
    <3> QED
      BY <1>2, <3>2
  <2> QED
    BY <1>4, <2>1 DEF Injection, IsInjective
<1>6. IsFiniteSet(1..n) /\ Cardinality(1..n) = n
  BY <1>2, FS_Interval
<1>7. f \in Surjection(1..n, bs)
  BY <1>2, <1>5, <1>6, FS_Injection
<1>8. \A x \in bs : \E i \in 1..n : f[i] = x
  BY <1>7 DEF Surjection
<1> QED
  BY <1>2, <1>4, <1>8 DEF Lists, f

\* So does Descending.
LEMMA DescendingLists ==
    ASSUME NEW b \in Blocks, NEW S \in SUBSET Path[b]
    PROVE  Lists(Descending(S), S)
<1>0. PICK s : s = Ascending(S)
  OBVIOUS
<1>1. PICK n \in Nat : s \in [1..n -> S] /\ \A x \in S : \E i \in 1..n : s[i] = x
  BY <1>0, AscendingLists DEF Lists
<1>2. s \in Seq(S) /\ Len(s) = n
  BY <1>1, SeqDef, LenProperties
<1> DEFINE r == Descending(S)
<1>3. r = [i \in 1..n |-> s[(n - i) + 1]]
  BY <1>0, <1>1, <1>2 DEF Descending
<1> HIDE DEF r
<1>4. \A i \in 1..n : (n - i) + 1 \in 1..n /\ r[i] = s[(n - i) + 1]
  BY <1>3
<1>5. r \in [1..n -> S]
  BY <1>1, <1>3, <1>4
<1>6. ASSUME NEW x \in S
      PROVE  \E i \in 1..n : r[i] = x
  <2>1. PICK k \in 1..n : s[k] = x
    BY <1>1
  <2>2. (n - k) + 1 \in 1..n /\ (n - ((n - k) + 1)) + 1 = k
    OBVIOUS
  <2> QED
    BY <1>4, <2>1, <2>2
<1> QED
  BY <1>5, <1>6 DEF Lists, r

-----------------------------------------------------------------------------
(* What notifications tell of the chain.                                   *)

\* e is about a block of height h that has t.
BlockEvent(e, t, h) ==
    e.kind \in {"connected", "disconnected"} /\ Height[e.block] = h /\ t \in BlockTxs[e.block]
Concerned(q, t, h) == \E i \in DOMAIN q : BlockEvent(q[i], t, h)

\* t is in a block of height h among the blocks P.
OnChain(P, t, h) == \E b \in P : Height[b] = h /\ t \in BlockTxs[b]

\* The last notification in q about t at a height tells whether it is there in the chain P.
Tells(q, P) ==
    \A t \in Txs, h \in Nat : \A i \in DOMAIN q : BlockEvent(q[i], t, h) =>
        \/ \E j \in DOMAIN q : j > i /\ BlockEvent(q[j], t, h)
        \/ OnChain(P, t, h) <=> q[i].kind = "connected"

\* In q the blocks old are disconnected, and after that the blocks new are connected.
News(q, old, new) ==
    /\ q \in Seq(Notifications)
    /\ \A i \in DOMAIN q : q[i].kind = "disconnected" => q[i].block \in old
    /\ \A i \in DOMAIN q : q[i].kind = "connected" => q[i].block \in new
    /\ \A b \in old : \E i \in DOMAIN q : q[i].kind = "disconnected" /\ q[i].block = b
    /\ \A b \in new : \E i \in DOMAIN q :
          /\ q[i].kind = "connected" /\ q[i].block = b
          /\ \A j \in DOMAIN q : q[j].kind = "disconnected" => j < i

\* The notifications that are left tell what all of them did.
LEMMA TellsTail ==
    ASSUME NEW q \in Seq(Notifications), q # <<>>, NEW P, Tells(q, P)
    PROVE  /\ Tells(Tail(q), P)
           /\ \A t \in Txs, h \in Nat :
                /\ Concerned(q, t, h) <=> BlockEvent(Head(q), t, h) \/ Concerned(Tail(q), t, h)
                /\ BlockEvent(Head(q), t, h) /\ ~ Concerned(Tail(q), t, h)
                     => (OnChain(P, t, h) <=> Head(q).kind = "connected")
<1>1. PICK r : r = Tail(q)
  BY Zenon
<1>2. PICK n \in Nat : n = Len(r)
  BY <1>1, HeadTailProperties, LenProperties
<1>3. /\ DOMAIN q = 1..(n + 1) /\ DOMAIN r = 1..n /\ Head(q) = q[1]
      /\ \A i \in 1..n : r[i] = q[i + 1]
  BY <1>1, <1>2, HeadTailProperties, LenProperties, EmptySeq
<1>4. \A i \in 1..(n + 1) : i = 1 \/ (i - 1 \in 1..n /\ q[i] = r[i - 1])
  BY <1>3
<1>5. ASSUME NEW t \in Txs, NEW h \in Nat, NEW i \in 1..n, BlockEvent(r[i], t, h)
      PROVE  \/ \E j \in 1..n : j > i /\ BlockEvent(r[j], t, h)
             \/ OnChain(P, t, h) <=> r[i].kind = "connected"
  <2>1. i + 1 \in DOMAIN q /\ q[i + 1] = r[i]
    BY <1>3
  <2>2. CASE \E j \in DOMAIN q : j > i + 1 /\ BlockEvent(q[j], t, h)
    <3>1. PICK j \in DOMAIN q : j > i + 1 /\ BlockEvent(q[j], t, h)
      BY <2>2
    <3>2. j - 1 \in 1..n /\ j - 1 > i /\ q[j] = r[j - 1]
      BY <1>3, <1>4, <3>1
    <3> QED
      BY <3>1, <3>2
  <2>3. CASE OnChain(P, t, h) <=> q[i + 1].kind = "connected"
    BY <2>1, <2>3
  <2> QED
    BY <1>5, <2>1, <2>2, <2>3 DEF Tells
<1>6. Tells(r, P)
  BY <1>3, <1>5, Zenon DEF Tells
<1>7. ASSUME NEW t \in Txs, NEW h \in Nat
      PROVE  /\ Concerned(q, t, h) <=> BlockEvent(q[1], t, h) \/ Concerned(r, t, h)
             /\ BlockEvent(q[1], t, h) /\ ~ Concerned(r, t, h)
                  => (OnChain(P, t, h) <=> q[1].kind = "connected")
  <2>1. 1 \in DOMAIN q
    BY <1>3
  <2>2. \A j \in DOMAIN q : BlockEvent(q[j], t, h) => j = 1 \/ Concerned(r, t, h)
    BY <1>3, <1>4, Zenon DEF Concerned
  <2>3. Concerned(r, t, h) => Concerned(q, t, h)
    <3> SUFFICES ASSUME NEW i \in 1..n, BlockEvent(r[i], t, h)
                 PROVE  Concerned(q, t, h)
      BY <1>3 DEF Concerned
    <3>1. i + 1 \in DOMAIN q /\ q[i + 1] = r[i]
      BY <1>3
    <3> QED
      BY <3>1 DEF Concerned
  <2>4. ASSUME BlockEvent(q[1], t, h), ~ Concerned(r, t, h)
        PROVE  OnChain(P, t, h) <=> q[1].kind = "connected"
    <3>1. ~ \E j \in DOMAIN q : j > 1 /\ BlockEvent(q[j], t, h)
      BY <2>2, <2>4
    <3> QED
      BY <2>1, <2>4, <3>1 DEF Tells
  <2> QED
    BY <2>1, <2>2, <2>3, <2>4 DEF Concerned
<1> QED
  BY <1>1, <1>3, <1>6, <1>7

\* A change of the chain and the news of it keep them true.
LEMMA TellsAppend ==
    ASSUME NEW q \in Seq(Notifications), NEW r, NEW P, NEW old, NEW new, Tells(q, P),
           News(r, old, new), old \subseteq P,
           \A c, d \in P : c # d => Height[c] # Height[d]
    PROVE  LET Q == (P \ old) \cup new IN
           /\ q \o r \in Seq(Notifications)
           /\ Tells(q \o r, Q)
           /\ \A t \in Txs, h \in Nat : ~ Concerned(q \o r, t, h) =>
                ~ Concerned(q, t, h) /\ (OnChain(Q, t, h) <=> OnChain(P, t, h))
<1> DEFINE Q == (P \ old) \cup new
<1>0. PICK s : s = q \o r
  BY Zenon
<1>1. r \in Seq(Notifications)
  BY DEF News
<1>2. PICK m \in Nat, n \in Nat : m = Len(q) /\ n = Len(r)
  BY <1>1, LenProperties
<1>3. /\ DOMAIN q = 1..m /\ DOMAIN r = 1..n /\ DOMAIN s = 1..(m + n)
      /\ s \in Seq(Notifications)
  BY <1>0, <1>1, <1>2, ConcatProperties, LenProperties
<1>4. \A i \in 1..(m + n) : s[i] = IF i <= m THEN q[i] ELSE r[i - m]
  BY <1>0, <1>1, <1>2, ConcatProperties
<1>5. (\A i \in 1..m : i \in 1..(m + n) /\ s[i] = q[i])
      /\ (\A k \in 1..n : m + k \in 1..(m + n) /\ s[m + k] = r[k])
      /\ (\A i \in 1..(m + n) : i \in 1..m \/ \E k \in 1..n : i = m + k)
  <2>1. \A i \in 1..m : i \in 1..(m + n) /\ s[i] = q[i]
    BY <1>4
  <2>2. ASSUME NEW k \in 1..n
        PROVE  m + k \in 1..(m + n) /\ s[m + k] = r[k]
    <3>1. m + k \in 1..(m + n) /\ ~ (m + k <= m) /\ (m + k) - m = k
      OBVIOUS
    <3> QED
      BY <1>4, <3>1
  <2>3. ASSUME NEW i \in 1..(m + n)
        PROVE  i \in 1..m \/ \E k \in 1..n : i = m + k
    <3>1. i \in 1..m \/ (i - m \in 1..n /\ i = m + (i - m))
      OBVIOUS
    <3> QED
      BY <3>1
  <2> QED
    BY <2>1, <2>2, <2>3
<1>6. ASSUME NEW t \in Txs, NEW h \in Nat
      PROVE  \/ Concerned(r, t, h)
             \/ OnChain(Q, t, h) <=> OnChain(P, t, h)
  <2> SUFFICES ASSUME ~ Concerned(r, t, h)
               PROVE  OnChain(Q, t, h) <=> OnChain(P, t, h)
    OBVIOUS
  <2>1. \A b \in old \cup new : ~ (Height[b] = h /\ t \in BlockTxs[b])
    BY DEF News, Concerned, BlockEvent
  <2> QED
    BY <2>1 DEF OnChain
<1>7. ASSUME NEW t \in Txs, NEW h \in Nat, ~ Concerned(s, t, h)
      PROVE  ~ Concerned(q, t, h) /\ ~ Concerned(r, t, h)
  BY <1>3, <1>5, <1>7 DEF Concerned
<1>8. ASSUME NEW t \in Txs, NEW h \in Nat, NEW k \in 1..n, BlockEvent(r[k], t, h)
      PROVE  \/ \E j \in 1..(m + n) : j > m + k /\ BlockEvent(s[j], t, h)
             \/ OnChain(Q, t, h) <=> r[k].kind = "connected"
  <2>1. CASE r[k].kind = "connected"
    <3>1. r[k].block \in Q
      BY <1>3, <2>1 DEF News
    <3>2. OnChain(Q, t, h)
      BY <1>8, <3>1 DEF OnChain, BlockEvent
    <3> QED
      BY <2>1, <3>2
  <2>2. CASE r[k].kind = "disconnected"
    <3>1. r[k].block \in old
      BY <1>3, <2>2 DEF News
    <3>2. ASSUME NEW b \in new, Height[b] = h, t \in BlockTxs[b]
          PROVE  \E j \in 1..(m + n) : j > m + k /\ BlockEvent(s[j], t, h)
      <4>1. PICK i \in 1..n : r[i].kind = "connected" /\ r[i].block = b
                                /\ \A j \in 1..n : r[j].kind = "disconnected" => j < i
        BY <1>3, Zenon DEF News
      <4>2. m + i \in 1..(m + n) /\ m + i > m + k /\ s[m + i] = r[i]
        BY <1>5, <2>2, <4>1
      <4>3. BlockEvent(s[m + i], t, h)
        BY <3>2, <4>1, <4>2 DEF BlockEvent
      <4> QED
        BY <4>2, <4>3
    <3>3. ASSUME NEW b \in P \ old, Height[b] = h, t \in BlockTxs[b]
          PROVE  FALSE
      BY <1>8, <3>1, <3>3 DEF BlockEvent
    <3> QED
      BY <2>2, <3>2, <3>3 DEF OnChain
  <2> QED
    BY <1>8, <2>1, <2>2 DEF BlockEvent
<1>9. ASSUME NEW t \in Txs, NEW h \in Nat, NEW i \in 1..m, BlockEvent(q[i], t, h)
      PROVE  \/ \E j \in 1..(m + n) : j > i /\ BlockEvent(s[j], t, h)
             \/ OnChain(Q, t, h) <=> q[i].kind = "connected"
  <2>1. CASE Concerned(r, t, h)
    <3>1. PICK k \in 1..n : BlockEvent(r[k], t, h)
      BY <1>3, <2>1 DEF Concerned
    <3>2. m + k \in 1..(m + n) /\ m + k > i /\ s[m + k] = r[k]
      BY <1>5
    <3> QED
      BY <3>1, <3>2, Zenon
  <2>2. CASE \E j \in 1..m : j > i /\ BlockEvent(q[j], t, h)
    BY <1>5, <2>2
  <2>3. CASE ~ Concerned(r, t, h) /\ (OnChain(P, t, h) <=> q[i].kind = "connected")
    BY <1>6, <2>3, Zenon
  <2> QED
    BY <1>3, <1>9, <2>1, <2>2, <2>3, Zenon DEF Tells
<1>10. Tells(s, Q)
  <2> SUFFICES ASSUME NEW t \in Txs, NEW h \in Nat, NEW i \in 1..(m + n), BlockEvent(s[i], t, h)
               PROVE  \/ \E j \in 1..(m + n) : j > i /\ BlockEvent(s[j], t, h)
                      \/ OnChain(Q, t, h) <=> s[i].kind = "connected"
    BY <1>3, Zenon DEF Tells
  <2>1. CASE i \in 1..m
    BY <1>5, <1>9, <2>1, Zenon
  <2>2. CASE \E k \in 1..n : i = m + k
    <3>1. PICK k \in 1..n : i = m + k
      BY <2>2
    <3>2. s[i] = r[k]
      BY <1>5, <3>1
    <3> QED
      BY <1>8, <3>1, <3>2, Zenon
  <2> QED
    BY <1>5, <2>1, <2>2, Zenon
<1> QED
  BY <1>0, <1>3, <1>6, <1>7, <1>10, Zenon

\* Notifications about transactions.
LEMMA EachNotifies ==
    ASSUME NEW kind \in {"added", "removed"}, NEW S \in SUBSET Txs
    PROVE  /\ Each(kind, S) \in Seq(Notifications)
           /\ \A i \in DOMAIN Each(kind, S) : Each(kind, S)[i].kind = kind /\ Each(kind, S)[i].tx \in S
           /\ \A t \in S : \E i \in DOMAIN Each(kind, S) : Each(kind, S)[i].tx = t
<1>1. PICK seq : seq = CHOOSE s \in [1..Cardinality(S) -> S] : IsInjective(s)
  OBVIOUS
<1>2. Lists(seq, S)
  BY <1>1, FiniteHashes, FS_Subset, ChosenLists
<1>3. PICK n \in Nat : seq \in [1..n -> S] /\ \A x \in S : \E i \in 1..n : seq[i] = x
  BY <1>2, Zenon DEF Lists
<1>4. PICK e : e = Each(kind, S)
  OBVIOUS
<1>5. e = [i \in 1..n |-> [kind |-> kind, tx |-> seq[i]]]
  BY <1>1, <1>3, <1>4 DEF Each
<1>6. \A i \in 1..n : e[i] \in Notifications /\ e[i].kind = kind /\ e[i].tx = seq[i] /\ seq[i] \in S
  BY <1>3, <1>5 DEF Notifications
<1>7. e \in [1..n -> Notifications]
  BY <1>5, <1>6
<1>8. e \in Seq(Notifications) /\ DOMAIN e = 1..n
  BY <1>7, SeqDef
<1> QED
  BY <1>3, <1>4, <1>6, <1>8

\* Notifications that are not about blocks.
NoBlocks(q) ==
    q \in Seq(Notifications) /\ \A i \in DOMAIN q : q[i].kind \notin {"connected", "disconnected"}

LEMMA NoNewsOfBlocks ==
    ASSUME NEW q, NoBlocks(q)
    PROVE  News(q, {}, {})
BY DEF NoBlocks, News

LEMMA EachHasNoBlocks ==
    ASSUME NEW kind \in {"added", "removed"}, NEW S \in SUBSET Txs
    PROVE  NoBlocks(Each(kind, S))
BY EachNotifies DEF NoBlocks

\* s has the notifications of q and then those of r.
Joined(s, q, r) ==
    \E m, n \in Nat :
        /\ DOMAIN q = 1..m /\ DOMAIN r = 1..n /\ DOMAIN s = 1..(m + n)
        /\ s \in Seq(Notifications)
        /\ \A i \in 1..m : i \in 1..(m + n) /\ s[i] = q[i]
        /\ \A k \in 1..n : m + k \in 1..(m + n) /\ s[m + k] = r[k]
        /\ \A i \in 1..(m + n) : i \in 1..m \/ \E k \in 1..n : i = m + k

LEMMA Concatenated ==
    ASSUME NEW q \in Seq(Notifications), NEW r \in Seq(Notifications)
    PROVE  Joined(q \o r, q, r)
<1>0. PICK s : s = q \o r
  BY Zenon
<1>1. PICK m \in Nat, n \in Nat : m = Len(q) /\ n = Len(r)
  BY LenProperties
<1>2. /\ DOMAIN q = 1..m /\ DOMAIN r = 1..n /\ DOMAIN s = 1..(m + n)
      /\ s \in Seq(Notifications)
  BY <1>0, <1>1, ConcatProperties, LenProperties
<1>3. \A i \in 1..(m + n) : s[i] = IF i <= m THEN q[i] ELSE r[i - m]
  BY <1>0, <1>1, ConcatProperties
<1>4. \A i \in 1..m : i \in 1..(m + n) /\ s[i] = q[i]
  BY <1>3
<1>5. ASSUME NEW k \in 1..n
      PROVE  m + k \in 1..(m + n) /\ s[m + k] = r[k]
  <2>1. m + k \in 1..(m + n) /\ ~ (m + k <= m) /\ (m + k) - m = k
    OBVIOUS
  <2> QED
    BY <1>3, <2>1
<1>6. ASSUME NEW i \in 1..(m + n)
      PROVE  i \in 1..m \/ \E k \in 1..n : i = m + k
  <2>1. i \in 1..m \/ (i - m \in 1..n /\ i = m + (i - m))
    OBVIOUS
  <2> QED
    BY <2>1
<1>7. Joined(s, q, r)
  BY <1>2, <1>4, <1>5, <1>6, Zenon DEF Joined
<1> QED
  BY <1>0, <1>7

LEMMA NoBlocksAppended ==
    ASSUME NEW q, NEW r, NEW old, News(q, old, {}), NoBlocks(r)
    PROVE  News(q \o r, old, {})
<1>1. q \in Seq(Notifications) /\ r \in Seq(Notifications)
  BY DEF News, NoBlocks
<1>2. PICK s : s = q \o r
  BY Zenon
<1>3. PICK m, n \in Nat :
           /\ DOMAIN q = 1..m /\ DOMAIN r = 1..n /\ DOMAIN s = 1..(m + n)
           /\ s \in Seq(Notifications)
           /\ \A i \in 1..m : i \in 1..(m + n) /\ s[i] = q[i]
           /\ \A k \in 1..n : m + k \in 1..(m + n) /\ s[m + k] = r[k]
           /\ \A i \in 1..(m + n) : i \in 1..m \/ \E k \in 1..n : i = m + k
  <2>1. Joined(s, q, r)
    BY <1>1, <1>2, Concatenated
  <2> QED
    BY <2>1, Zenon DEF Joined
<1>4. ASSUME NEW i \in DOMAIN s, s[i].kind \in {"connected", "disconnected"}
      PROVE  i \in DOMAIN q /\ s[i] = q[i]
  <2>1. \A k \in 1..n : i # m + k
    BY <1>3, <1>4, Zenon DEF NoBlocks
  <2> QED
    BY <1>3, <2>1
<1>5. News(s, old, {})
  BY <1>3, <1>4, Zenon DEF News
<1> QED
  BY <1>2, <1>5

\* Blocks are disconnected,
LEMMA DisconnectedNews ==
    ASSUME NEW old \in SUBSET Blocks, NEW down, Lists(down, old)
    PROVE  News([i \in DOMAIN down |-> [kind |-> "disconnected", block |-> down[i]]], old, {})
<1>1. PICK n \in Nat : down \in [1..n -> old] /\ \A x \in old : \E i \in 1..n : down[i] = x
  BY DEF Lists
<1>2. PICK q : q = [i \in 1..n |-> [kind |-> "disconnected", block |-> down[i]]]
  BY Zenon
<1>3. \A i \in 1..n : q[i] \in Notifications /\ q[i].kind = "disconnected" /\ q[i].block = down[i]
                       /\ down[i] \in old
  BY <1>1, <1>2 DEF Notifications
<1>4. q \in [1..n -> Notifications]
  BY <1>2, <1>3
<1>5. q \in Seq(Notifications) /\ DOMAIN q = 1..n
  BY <1>4, SeqDef
<1>6. News(q, old, {})
  BY <1>1, <1>3, <1>5 DEF News
<1> QED
  BY <1>1, <1>2, <1>6

\* and others connected after that.
LEMMA ConnectedNews ==
    ASSUME NEW q, NEW old, NEW new \in SUBSET Blocks, News(q, old, {}), NEW up, Lists(up, new),
           NEW u, DOMAIN u = DOMAIN up,
           \A i \in DOMAIN up : /\ u[i].kind = "connected" /\ u[i].block = up[i]
                                /\ u[i] \in Notifications,
           u = [i \in DOMAIN up |-> u[i]]
    PROVE  News(q \o u, old, new)
<1>1. PICK n \in Nat : up \in [1..n -> new] /\ \A x \in new : \E i \in 1..n : up[i] = x
  BY DEF Lists
<1>2. u \in [1..n -> Notifications]
  BY <1>1
<1>3. u \in Seq(Notifications) /\ q \in Seq(Notifications) /\ DOMAIN up = 1..n
  <2>1. u \in Seq(Notifications)
    BY <1>2, SeqDef
  <2> QED
    BY <1>1, <2>1 DEF News
<1>4. PICK s : s = q \o u
  BY Zenon
<1>5. PICK m, k0 \in Nat :
           /\ DOMAIN q = 1..m /\ DOMAIN u = 1..k0 /\ DOMAIN s = 1..(m + k0)
           /\ s \in Seq(Notifications)
           /\ \A i \in 1..m : i \in 1..(m + k0) /\ s[i] = q[i]
           /\ \A k \in 1..k0 : m + k \in 1..(m + k0) /\ s[m + k] = u[k]
           /\ \A i \in 1..(m + k0) : i \in 1..m \/ \E k \in 1..k0 : i = m + k
  <2>1. Joined(s, q, u)
    BY <1>3, <1>4, Concatenated
  <2> QED
    BY <2>1 DEF Joined
<1>6. ASSUME NEW i \in DOMAIN s, s[i].kind = "disconnected"
      PROVE  i \in DOMAIN q /\ s[i].block \in old
  <2>1. ASSUME NEW k \in 1..k0, i = m + k
        PROVE  FALSE
    <3>1. k \in DOMAIN up /\ s[i] = u[k]
      BY <1>5, <2>1
    <3> QED
      BY <1>6, <3>1
  <2>2. i \in DOMAIN q /\ s[i] = q[i]
    BY <1>5, <2>1
  <2> QED
    BY <1>6, <2>2 DEF News
<1>7. ASSUME NEW i \in DOMAIN s, s[i].kind = "connected"
      PROVE  s[i].block \in new
  <2>1. i \notin DOMAIN q
    BY <1>5, <1>7 DEF News
  <2>2. PICK k \in 1..k0 : i = m + k
    BY <1>5, <2>1
  <2>3. k \in DOMAIN up /\ s[i] = u[k]
    BY <1>5, <2>2
  <2> QED
    BY <1>1, <1>3, <2>3
<1>8. ASSUME NEW b \in old
      PROVE  \E i \in DOMAIN s : s[i].kind = "disconnected" /\ s[i].block = b
  BY <1>5 DEF News
<1>9. ASSUME NEW b \in new
      PROVE  \E i \in DOMAIN s : /\ s[i].kind = "connected" /\ s[i].block = b
                                 /\ \A j \in DOMAIN s : s[j].kind = "disconnected" => j < i
  <2>1. PICK k \in 1..n : up[k] = b
    BY <1>1
  <2>2. k \in DOMAIN u /\ u[k].kind = "connected" /\ u[k].block = b
    BY <1>3, <2>1
  <2>3. m + k \in DOMAIN s /\ s[m + k] = u[k]
    BY <1>5, <2>2
  <2>4. \A j \in DOMAIN q : j < m + k
    BY <1>5
  <2> QED
    BY <1>6, <2>2, <2>3, <2>4
<1>10. News(s, old, new)
  BY <1>5, <1>6, <1>7, <1>8, <1>9 DEF News
<1> QED
  BY <1>4, <1>10

-----------------------------------------------------------------------------
(* The types of what the operators return.                                 *)

LEMMA RemoveAndArchiveType ==
    ASSUME NEW d \in DbType, NEW S \in SUBSET Locks
    PROVE  RemoveAndArchive(d, S) \in DbType
<1> DEFINE gone == S \cap d.lock
<1>1. PICK tx, out, keptTx :
          /\ tx = [t \in Txs |-> IF \E l \in gone : Txid[l] = t THEN None ELSE d.tx[t]]
          /\ out = [o \in Outpoints |-> IF \E l \in gone : o \in Inputs[Txid[l]]
                                        THEN None ELSE d.out[o]]
          /\ keptTx = {k \in d.keptTx : \A l \in gone : Txid[k] # Txid[l]}
  BY Zenon
<1>2. /\ d.tx \in [Txs -> Locks \cup {None}] /\ d.out \in [Outpoints -> Locks \cup {None}]
      /\ d.keptTx \subseteq Locks
  BY DEF DbType
<1>3. tx \in [Txs -> Locks \cup {None}]
  BY <1>1, <1>2
<1>4. out \in [Outpoints -> Locks \cup {None}]
  BY <1>1, <1>2
<1>5. keptTx \subseteq Locks
  BY <1>1, <1>2
<1>6. RemoveAndArchive(d, S) = [d EXCEPT !.lock = @ \ S, !.tx = tx, !.out = out,
                                        !.archived = @ \cup S, !.kept = @ \ S, !.keptTx = keptTx]
  BY <1>1 DEF RemoveAndArchive
<1> QED
  BY <1>3, <1>4, <1>5, <1>6, Zenon DEF DbType

LEMMA RemoveConflictingType ==
    ASSUME NEW d \in DbType, NEW S \in SUBSET Locks
    PROVE  RemoveConflictingLock(d, S) \in DbType
<1> DEFINE chained == {l \in d.lock : \A C \in SUBSET d.lock :
            (\A m \in S \cup C : GetInstantSendLocksByParent(d, Txid[m]) \subseteq C) => l \in C}
<1>1. RemoveConflictingLock(d, S) = RemoveAndArchive(d, S \cup chained)
  BY DEF RemoveConflictingLock
<1>2. chained \subseteq Locks
  BY DEF DbType
<1> HIDE DEF chained
<1> QED
  BY <1>1, <1>2, RemoveAndArchiveType

LEMMA RemoveConfirmedType ==
    ASSUME NEW d \in DbType, NEW height
    PROVE  RemoveConfirmedInstantSendLocks(d, height) \in DbType
<1> DEFINE entries == {e \in d.mined : e[1] <= height}
           locks == {e[2] : e \in entries}
           a == RemoveAndArchive(d, locks)
<1>1. locks \subseteq Locks /\ d.mined \ entries \subseteq Nat \X Locks
  BY DEF DbType
<1>2. RemoveConfirmedInstantSendLocks(d, height)
        = [a EXCEPT !.mined = d.mined \ entries,
                    !.kept = (d.kept \ locks) \cup (locks \cap d.lock),
                    !.keptTx = d.keptTx \cup (locks \cap d.lock)]
  BY DEF RemoveConfirmedInstantSendLocks
<1>3. a \in DbType
  BY <1>1, RemoveAndArchiveType
<1> HIDE DEF entries, locks, a
<1> QED
  BY <1>1, <1>2, <1>3, ZenonT(30) DEF DbType

LEMMA WriteNewType ==
    ASSUME NEW d \in DbType, NEW l \in Locks
    PROVE  WriteNewInstantSendLock(d, l) \in DbType
<1>1. PICK lock, tx, out, keptTx :
          /\ lock = d.lock \cup {l}
          /\ tx = [d.tx EXCEPT ![Txid[l]] = l]
          /\ out = [o \in Outpoints |-> IF o \in Inputs[Txid[l]] THEN l ELSE d.out[o]]
          /\ keptTx = {k \in d.keptTx : Txid[k] # Txid[l]}
  BY Zenon
<1>2. /\ d.lock \subseteq Locks /\ d.tx \in [Txs -> Locks \cup {None}] /\ d.out \in [Outpoints -> Locks \cup {None}]
      /\ d.keptTx \subseteq Locks
  BY DEF DbType
<1>3. tx \in [Txs -> Locks \cup {None}]
  BY <1>1, <1>2, LockTypes, Zenon
<1>4. out \in [Outpoints -> Locks \cup {None}]
  BY <1>1, <1>2
<1>5. lock \subseteq Locks /\ keptTx \subseteq Locks
  BY <1>1, <1>2
<1>6. WriteNewInstantSendLock(d, l) = [d EXCEPT !.lock = lock, !.tx = tx, !.out = out,
                                               !.keptTx = keptTx]
  BY <1>1 DEF WriteNewInstantSendLock
<1> QED
  BY <1>3, <1>4, <1>5, <1>6, Zenon DEF DbType

\* nonLockedTxs, in which a transaction has the block it is in.
Tracking(n) ==
    /\ n \in [keys : SUBSET Txs, txs : SUBSET Txs, mined : [Txs -> Blocks \cup {None}],
              children : [Txs -> SUBSET Txs], out : [Outpoints -> Txs \cup {None}]]
    /\ \A t \in Txs : n.mined[t] # None => t \in BlockTxs[n.mined[t]]

LEMMA ParentsType ==
    ASSUME NEW t \in Txs
    PROVE  Parents(t) \subseteq Txs
BY TransactionTypes DEF Parents

LEMMA AddKeepsTracking ==
    ASSUME NEW n, Tracking(n), NEW t \in Txs, NEW b \in Blocks \cup {None}, b # None => t \in BlockTxs[b]
    PROVE  Tracking(AddNonLockedTx(n, t, b))
<1>1. PICK mined, children, out :
          /\ mined = [n.mined EXCEPT ![t] = b]
          /\ children = [q \in Txs |-> IF q \in Parents(t) THEN n.children[q] \cup {t} ELSE n.children[q]]
          /\ out = [o \in Outpoints |-> IF o \in Inputs[t] /\ n.out[o] = None THEN t ELSE n.out[o]]
  BY Zenon
<1>2. /\ n.mined \in [Txs -> Blocks \cup {None}] /\ n.children \in [Txs -> SUBSET Txs]
      /\ n.out \in [Outpoints -> Txs \cup {None}]
  BY DEF Tracking
<1>3. mined \in [Txs -> Blocks \cup {None}] /\ \A u \in Txs : mined[u] # None => u \in BlockTxs[mined[u]]
  BY <1>1, <1>2 DEF Tracking
<1>4. children \in [Txs -> SUBSET Txs]
  BY <1>1, <1>2
<1>5. out \in [Outpoints -> Txs \cup {None}]
  BY <1>1, <1>2
<1>6. PICK m : m = [n EXCEPT !.keys = @ \cup {t}, !.mined = mined]
  OBVIOUS
<1>7. Tracking(m) /\ m.mined = mined
  BY <1>3, <1>6, Zenon DEF Tracking
<1>8. AddNonLockedTx(n, t, b) = IF t \in n.keys THEN m
        ELSE [m EXCEPT !.keys = @ \cup Parents(t), !.txs = @ \cup {t}, !.children = children, !.out = out]
  BY <1>1, <1>6 DEF AddNonLockedTx
<1>9. PICK k : k = [m EXCEPT !.keys = @ \cup Parents(t), !.txs = @ \cup {t}, !.children = children,
                            !.out = out]
  OBVIOUS
<1>10. Tracking(k)
  BY <1>4, <1>5, <1>7, <1>9, ParentsType, Zenon DEF Tracking
<1> QED
  BY <1>7, <1>8, <1>9, <1>10

LEMMA RemoveKeepsTracking ==
    ASSUME NEW n, Tracking(n), NEW S
    PROVE  Tracking(RemoveNonLockedTx(n, S))
<1> DEFINE txs == S \cap n.txs
           left == [q \in Txs |-> n.children[q] \ txs]
           dead == (S \cap n.keys) \cup {q \in n.keys \ n.txs : n.children[q] \cap txs # {} /\ left[q] = {}}
<1>1. PICK mined, children, out :
          /\ mined = [t \in Txs |-> IF t \in dead THEN None ELSE n.mined[t]]
          /\ children = [q \in Txs |-> IF q \in dead THEN {} ELSE left[q]]
          /\ out = [o \in Outpoints |-> IF \E t \in txs : o \in Inputs[t] THEN None ELSE n.out[o]]
  BY Zenon
<1>2. RemoveNonLockedTx(n, S) = [keys |-> n.keys \ dead, txs |-> n.txs \ S, mined |-> mined,
                                 children |-> children, out |-> out]
  BY <1>1, Zenon DEF RemoveNonLockedTx
<1>3. /\ n.mined \in [Txs -> Blocks \cup {None}] /\ n.children \in [Txs -> SUBSET Txs]
      /\ n.out \in [Outpoints -> Txs \cup {None}] /\ n.keys \subseteq Txs /\ n.txs \subseteq Txs
  BY DEF Tracking
<1>4. left \in [Txs -> SUBSET Txs]
  BY <1>3
<1> HIDE DEF left, dead, txs
<1>5. mined \in [Txs -> Blocks \cup {None}] /\ \A u \in Txs : mined[u] # None => u \in BlockTxs[mined[u]]
  BY <1>1, <1>3 DEF Tracking
<1>6. children \in [Txs -> SUBSET Txs]
  BY <1>1, <1>4
<1>7. out \in [Outpoints -> Txs \cup {None}]
  BY <1>1, <1>3
<1> QED
  BY <1>2, <1>3, <1>5, <1>6, <1>7, SMTT(30) DEF Tracking

-----------------------------------------------------------------------------
(* The types of the state, and what the two threads know of the work they  *)
(* are in the middle of.                                                   *)

ChainOK ==
    /\ tip \in Blocks /\ failed \subseteq Blocks
    /\ chainlock \in Blocks \cup {None} /\ notified \in Blocks \cup {None}
    /\ txindex \in [Txs -> Blocks \cup {None}] /\ confirmed \in Nat /\ restarts \in Nat

LocksOK ==
    db \in DbType /\ Tracking(nl) /\ stale \subseteq Locks /\ missed \subseteq Locks

\* The notification being handled stays at the head of the queue.
SchedulerOK ==
    /\ queue \in Seq(Notifications)
    /\ spc \in {"idle", "add", "mempool", "block", "track", "index"}
    /\ todo \subseteq Txs /\ cur \in Locks \cup Txs \cup {None}
    /\ spc \in {"add", "mempool"} => queue # <<>> /\ Event.kind = "added"
    /\ spc \in {"block", "track", "index"} =>
          queue # <<>> /\ Event.kind = "connected" /\ todo \subseteq BlockTxs[Event.block]
    /\ spc = "track" => cur \in BlockTxs[Event.block]
    /\ spc = "mempool" => cur \in Locks

\* A block that is invalidated has a transaction that conflicts, so it is not the genesis block.
IsmanOK ==
    /\ wpc \in {"idle", "same", "store", "mined", "untrack", "resolve", "invalidate", "reset", "mempool"}
    /\ wlock \in Locks \cup {None}
    /\ wpc # "idle" => wlock \in Locks
    /\ wtx \in [known : BOOLEAN, block : Blocks \cup {None}]
    /\ conflicts \subseteq Blocks \X Txs /\ \A c \in conflicts : c[2] \in BlockTxs[c[1]]
    /\ wblock \in Blocks \cup {None}
    /\ wblock # None => BlockTxs[wblock] # {}

StateInvariant == LockInvariant /\ ChainOK /\ LocksOK /\ SchedulerOK /\ IsmanOK

-----------------------------------------------------------------------------
(* What steps other than those of the scheduler do to chain and queue: the *)
(* notifications they add tell how the chain changes.                      *)

\* e is about a transaction t that is there now, or has been.
Handles(e, t) ==
    \/ e.kind = "added" /\ e.tx = t
    \/ e.kind = "connected" /\ t \in BlockTxs[e.block]
Announces(q, t) == \E i \in DOMAIN q : Handles(q[i], t)

LEMMA AnnouncesJoined ==
    ASSUME NEW q \in Seq(Notifications), NEW r \in Seq(Notifications), NEW t
    PROVE  Announces(q, t) \/ Announces(r, t) => Announces(q \o r, t)
<1>1. PICK s : s = q \o r
  BY Zenon
<1>2. PICK m \in Nat, n \in Nat :
        /\ DOMAIN q = 1..m /\ DOMAIN r = 1..n /\ DOMAIN s = 1..(m + n)
        /\ \A i \in 1..m : i \in 1..(m + n) /\ s[i] = q[i]
        /\ \A k \in 1..n : m + k \in 1..(m + n) /\ s[m + k] = r[k]
  <2>1. Joined(s, q, r)
    BY <1>1, Concatenated
  <2> QED
    BY <2>1, Zenon DEF Joined
<1>3. Announces(q, t) => Announces(s, t)
  BY <1>2 DEF Announces
<1>4. Announces(r, t) => Announces(s, t)
  <2> SUFFICES ASSUME NEW k \in 1..n, Handles(r[k], t) PROVE Announces(s, t)
    BY <1>2 DEF Announces
  <2>1. m + k \in DOMAIN s /\ s[m + k] = r[k]
    BY <1>2
  <2> QED
    BY <2>1 DEF Announces
<1> QED
  BY <1>1, <1>3, <1>4

\* t is in the pool or the chain.
Known(t) == t \in mempool \cup TxsOf(Path[tip])

\* What is there only now was announced.
NewcomersAnnounced ==
    \E q \in Seq(Notifications) :
        queue' = queue \o q /\ \A t \in Txs : ~ Known(t) /\ Known(t)' => Announces(q, t)

ChainStep ==
    \E q, old, new :
        /\ News(q, old, new) /\ queue' = queue \o q
        /\ tip' \in Blocks /\ old \subseteq Path[tip] /\ Path[tip'] = (Path[tip] \ old) \cup new

LEMMA BlocksAsTheyWere ==
    ASSUME tip \in Blocks, UNCHANGED tip, NEW q, NoBlocks(q), queue' = queue \o q
    PROVE  ChainStep
<1>1. News(q, {}, {})
  BY NoNewsOfBlocks
<1>2. {} \subseteq Path[tip] /\ Path[tip'] = (Path[tip] \ {}) \cup {} /\ tip' \in Blocks
  OBVIOUS
<1> QED
  BY <1>1, <1>2, Zenon DEF ChainStep

LEMMA ChainAndQueueAsTheyWere ==
    ASSUME tip \in Blocks, queue \in Seq(Notifications), UNCHANGED <<tip, queue>>
    PROVE  ChainStep
<1>1. PICK q : q = <<>>
  OBVIOUS
<1>2. q \in Seq(Notifications) /\ Len(q) = 0
  BY <1>1, EmptySeq
<1>3. NoBlocks(q)
  BY <1>2, LenProperties DEF NoBlocks
<1>4. queue' = queue \o q
  BY <1>1, ConcatEmptySeq
<1> QED
  BY <1>3, <1>4, BlocksAsTheyWere

LEMMA RemovesFromPool ==
    ASSUME NEW pool, NEW S
    PROVE  removeRecursive(pool, S) \subseteq pool
BY DEF removeRecursive

LEMMA TakenBackType ==
    ASSUME NEW old, NEW b
    PROVE  TakenBack(old, b) \subseteq Txs
BY DEF TakenBack

LEMMA SetTipNews ==
    ASSUME tip \in Blocks, mempool \subseteq Txs, NEW b \in Blocks, SetTip(b)
    PROVE  ChainStep /\ tip' = b /\ NewcomersAnnounced
<1> DEFINE old == Path[tip] \ Path[b]
           new == Path[b] \ Path[tip]
           conflicted(c) == removeRecursive(mempool, {u \in mempool : Spenders(BlockTxs[c], u) # {}})
           removed == UNION {conflicted(c) : c \in new}
           back == TakenBack(old, b)
           left == mempool \ (removed \cup TxsOf(new))
           orphans == removeRecursive(left, TxsOf(old) \ (back \cup TxsOf(new)))
           up == Ascending(new)
           down == Descending(old)
           d == [i \in DOMAIN down |-> [kind |-> "disconnected", block |-> down[i]]]
           r == Each("removed", removed \cup orphans)
           a == Each("added", back)
           u == [i \in DOMAIN up |-> [kind |-> "connected", block |-> up[i], txs |-> conflicted(up[i])]]
<1>1. tip' = b /\ queue' = queue \o (((d \o r) \o a) \o u) /\ mempool' = (left \ orphans) \cup back
  BY Zenon DEF SetTip, Notify
<1>2. old \in SUBSET Path[tip] /\ new \in SUBSET Path[b] /\ old \in SUBSET Blocks /\ new \in SUBSET Blocks
  BY BlockTypes
<1>3. \A c : conflicted(c) \subseteq Txs
  BY RemovesFromPool
<1>4. removed \cup orphans \in SUBSET Txs /\ back \in SUBSET Txs
  <2>1. back \subseteq Txs
    BY TakenBackType
  <2>2. removed \subseteq Txs
    <3> HIDE DEF conflicted
    <3> QED
      BY <1>3
  <2>3. orphans \subseteq left /\ left \subseteq Txs
    <3>1. left \subseteq Txs
      OBVIOUS
    <3> HIDE DEF left, back
    <3> QED
      BY <3>1, RemovesFromPool
  <2> QED
    BY <2>1, <2>2, <2>3, Zenon
<1>5. Lists(up, new) /\ Lists(down, old)
  BY <1>2, AscendingLists, DescendingLists
<1>6. \A i \in DOMAIN up : up[i] \in Blocks
  BY <1>2, <1>5, Zenon DEF Lists
<1>7. /\ DOMAIN u = DOMAIN up /\ u = [i \in DOMAIN up |-> u[i]]
      /\ \A i \in DOMAIN up : /\ u[i].kind = "connected" /\ u[i].block = up[i]
                               /\ u[i] \in Notifications
  <2> HIDE DEF up, conflicted
  <2> QED
    BY <1>3, <1>6 DEF Notifications
<1>8. News(d, old, {}) /\ NoBlocks(r) /\ NoBlocks(a)
  <2> HIDE DEF old, down, removed, orphans, back
  <2> QED
    BY <1>2, <1>4, <1>5, DisconnectedNews, EachHasNoBlocks, Zenon
<1>9. \A t \in back : Announces(a, t)
  <2> HIDE DEF back
  <2> SUFFICES ASSUME NEW t \in back PROVE Announces(a, t)
    OBVIOUS
  <2>1. /\ \A i \in DOMAIN a : a[i].kind = "added" /\ a[i].tx \in back
        /\ \A x \in back : \E i \in DOMAIN a : a[i].tx = x
    <3>1. "added" \in {"added", "removed"} /\ back \in SUBSET Txs
      BY <1>4
    <3> QED
      BY <3>1, EachNotifies, Zenon
  <2>2. PICK i \in DOMAIN a : a[i].tx = t /\ a[i].kind = "added"
    BY <2>1, Zenon
  <2> QED
    BY <2>2, Zenon DEF Announces, Handles
<1>10. u \in Seq(Notifications) /\ \A c \in new : \A t \in BlockTxs[c] : Announces(u, t)
  <2> HIDE DEF u, up, new
  <2>1. PICK n \in Nat : up \in [1..n -> new] /\ \A x \in new : \E i \in 1..n : up[i] = x
    BY <1>5, Zenon DEF Lists
  <2>2. u \in [1..n -> Notifications]
    BY <1>7, <2>1
  <2>3. u \in Seq(Notifications)
    BY <2>2, SeqDef
  <2> QED
    BY <1>7, <2>1, <2>3 DEF Announces, Handles
<1> HIDE DEF d, r, a, u, up
<1>11. News((d \o r) \o a, old, {})
  <2>1. News(d \o r, old, {})
    BY <1>8, NoBlocksAppended
  <2> QED
    BY <1>8, <2>1, NoBlocksAppended
<1>12. News(((d \o r) \o a) \o u, old, new)
  BY <1>2, <1>5, <1>7, <1>11, ConnectedNews
<1>13. tip' \in Blocks /\ old \subseteq Path[tip] /\ Path[tip'] = (Path[tip] \ old) \cup new
  BY <1>1, Zenon
<1>14. ASSUME NEW t \in Txs, ~ Known(t), Known(t)'
       PROVE  Announces(((d \o r) \o a) \o u, t)
  <2>1. d \o r \in Seq(Notifications) /\ (d \o r) \o a \in Seq(Notifications) /\ a \in Seq(Notifications)
    BY <1>8, <1>11, NoBlocksAppended, ZenonT(30) DEF News, NoBlocks
  <2>2. t \in mempool' \/ \E c \in Path[b] : t \in BlockTxs[c]
    BY <1>1, <1>14 DEF Known, TxsOf
  <2>3. CASE t \in mempool'
    <3>1. t \in back
      BY <1>1, <1>14, <2>3, Zenon DEF Known
    <3>2. Announces(a, t)
      BY <1>9, <3>1
    <3> QED
      BY <1>10, <2>1, <3>2, AnnouncesJoined, Zenon
  <2>4. ASSUME NEW c \in Path[b], t \in BlockTxs[c] PROVE Announces(((d \o r) \o a) \o u, t)
    <3>1. c \in new
      BY <1>14, <2>4 DEF Known, TxsOf
    <3>2. Announces(u, t)
      BY <1>10, <2>4, <3>1
    <3> QED
      BY <1>10, <2>1, <3>2, AnnouncesJoined, Zenon
  <2> QED
    BY <2>2, <2>3, <2>4, Zenon
<1>15. NewcomersAnnounced
  <2>1. ((d \o r) \o a) \o u \in Seq(Notifications)
    BY <1>12, Zenon DEF News
  <2> QED
    BY <1>1, <1>14, <2>1, Zenon DEF NewcomersAnnounced
<1> QED
  BY <1>1, <1>12, <1>13, <1>15, Zenon DEF ChainStep

LEMMA RejectBlockNews ==
    ASSUME tip \in Blocks, mempool \subseteq Txs, NEW b \in Blocks, RejectBlock(b)
    PROVE  ChainStep
<1>1. PICK c \in Path[b] \ Path[tip] :
        LET old == Path[tip] \ Path[b]
            back == TakenBack(old, Parent[c])
            orphans == removeRecursive(mempool, TxsOf(old) \ back)
            up == Ascending(old)
            down == Descending(old)
        IN  /\ UNCHANGED tip
            /\ queue' = queue \o
                  ([i \in DOMAIN down |-> [kind |-> "disconnected", block |-> down[i]]]
                   \o Each("removed", orphans) \o Each("added", back)
                   \o [i \in DOMAIN up |-> [kind |-> "connected", block |-> up[i], txs |-> {}]])
  BY Zenon DEF RejectBlock, Notify
<1> DEFINE old == Path[tip] \ Path[b]
           back == TakenBack(old, Parent[c])
           orphans == removeRecursive(mempool, TxsOf(old) \ back)
           up == Ascending(old)
           down == Descending(old)
           d == [i \in DOMAIN down |-> [kind |-> "disconnected", block |-> down[i]]]
           r == Each("removed", orphans)
           a == Each("added", back)
           u == [i \in DOMAIN up |-> [kind |-> "connected", block |-> up[i], txs |-> {}]]
<1>2. old \in SUBSET Path[tip] /\ old \in SUBSET Blocks
  BY BlockTypes
<1>3. orphans \in SUBSET Txs /\ back \in SUBSET Txs
  BY RemovesFromPool, TakenBackType
<1>4. Lists(up, old) /\ Lists(down, old)
  BY <1>2, AscendingLists, DescendingLists
<1>5. \A i \in DOMAIN up : up[i] \in Blocks
  BY <1>2, <1>4, Zenon DEF Lists
<1>6. UNCHANGED tip /\ queue' = queue \o (((d \o r) \o a) \o u)
  BY <1>1, Zenon
<1>7. /\ DOMAIN u = DOMAIN up /\ u = [i \in DOMAIN up |-> u[i]]
      /\ \A i \in DOMAIN up : /\ u[i].kind = "connected" /\ u[i].block = up[i]
                               /\ u[i] \in Notifications
  <2> HIDE DEF up
  <2> QED
    BY <1>5, Zenon DEF Notifications
<1>8. News(d, old, {}) /\ NoBlocks(r) /\ NoBlocks(a)
  <2> HIDE DEF old, down, orphans, back
  <2> QED
    BY <1>2, <1>3, <1>4, DisconnectedNews, EachHasNoBlocks, Zenon
<1> HIDE DEF d, r, a, u, up
<1>9. News((d \o r) \o a, old, {})
  <2>1. News(d \o r, old, {})
    BY <1>8, NoBlocksAppended
  <2> QED
    BY <1>8, <2>1, NoBlocksAppended, Zenon
<1>10. News(((d \o r) \o a) \o u, old, old)
  BY <1>2, <1>4, <1>7, <1>9, ConnectedNews
<1>11. tip' \in Blocks /\ old \subseteq Path[tip] /\ Path[tip'] = (Path[tip] \ old) \cup old
  BY <1>6
<1> QED
  BY <1>6, <1>10, <1>11, Zenon DEF ChainStep

LEMMA NoBlocksJoined ==
    ASSUME NEW q, NEW r, NoBlocks(q), NoBlocks(r)
    PROVE  NoBlocks(q \o r)
<1>1. News(q \o r, {}, {})
  BY NoNewsOfBlocks, NoBlocksAppended
<1>2. PICK s : s = q \o r
  BY Zenon
<1> QED
  BY <1>1, <1>2 DEF News, NoBlocks

\* Validation.
LEMMA ValidationChains ==
    ASSUME StateInvariant, Validation
    PROVE  ChainStep
<1>0. tip \in Blocks /\ mempool \subseteq Txs /\ queue \in Seq(Notifications)
  BY DEF StateInvariant, LockInvariant, PoolInvariant, ChainOK, SchedulerOK
<1>1. ASSUME NEW t \in Txs, AcceptToMemoryPool(t)
      PROVE  ChainStep
  <2> DEFINE gone == IF IsWaitingForTx(t) THEN removeRecursive(mempool, Spenders(mempool, t)) ELSE {}
  <2>1. gone \in SUBSET Txs
    BY <1>0, RemovesFromPool
  <2>2. UNCHANGED tip /\ queue' = queue \o (Each("removed", gone) \o Each("added", {t}))
    BY <1>1, Zenon DEF AcceptToMemoryPool, Notify, chain
  <2> HIDE DEF gone
  <2>3. NoBlocks(Each("removed", gone) \o Each("added", {t}))
    BY <2>1, EachHasNoBlocks, NoBlocksJoined
  <2> QED
    BY <1>0, <2>2, <2>3, BlocksAsTheyWere, Zenon
<1>2. ASSUME NEW t \in Txs, LimitMempoolSize(t)
      PROVE  ChainStep
  <2> DEFINE gone == removeRecursive(mempool, {t})
  <2>1. gone \in SUBSET Txs
    BY <1>0, RemovesFromPool
  <2>2. UNCHANGED tip /\ queue' = queue \o Each("removed", gone)
    BY <1>2, Zenon DEF LimitMempoolSize, Notify, chain
  <2> HIDE DEF gone
  <2> QED
    BY <1>0, <2>1, <2>2, EachHasNoBlocks, BlocksAsTheyWere
<1>3. ASSUME NEW b \in Blocks, ActivateBestChain(b)
      PROVE  ChainStep
  BY <1>0, <1>3, SetTipNews DEF ActivateBestChain
<1>4. ASSUME NEW b \in Blocks, RejectBlock(b)
      PROVE  ChainStep
  BY <1>0, <1>4, RejectBlockNews
<1>5. ASSUME NEW b \in Blocks, ProcessNewChainLock(b)
      PROVE  ChainStep
  <2>1. UNCHANGED <<tip, queue>>
    BY <1>5, Zenon DEF ProcessNewChainLock
  <2> QED
    BY <1>0, <2>1, ChainAndQueueAsTheyWere
<1>6. CASE EnforceBlock
  <2>1. UNCHANGED <<tip, queue>> \/ \E b \in Path[tip] : SetTip(b)
    BY <1>6, Zenon DEF EnforceBlock
  <2>2. \A b \in Path[tip] : b \in Blocks
    BY <1>0, BlockTypes
  <2> QED
    BY <1>0, <2>1, <2>2, SetTipNews, ChainAndQueueAsTheyWere
<1>7. CASE NotifyChainLock
  <2>1. PICK e : e = [kind |-> "chainlock", block |-> chainlock]
    BY Zenon
  <2>2. e \in Notifications /\ e.kind = "chainlock"
    BY <1>7, <2>1, Zenon DEF NotifyChainLock, StateInvariant, ChainOK, Notifications
  <2>3. UNCHANGED tip /\ queue' = queue \o <<e>>
    BY <1>7, <2>1, Zenon DEF NotifyChainLock, Notify
  <2>4. NoBlocks(<<e>>)
    BY <2>2 DEF NoBlocks
  <2> QED
    BY <1>0, <2>3, <2>4, BlocksAsTheyWere, Zenon
<1> QED
  BY <1>1, <1>2, <1>3, <1>4, <1>5, <1>6, <1>7, Zenon DEF Validation

\* The genesis block is never invalidated.
LEMMA AboveGenesis ==
    ASSUME StateInvariant, wblock # None, wblock \in Path[tip]
    PROVE  Parent[tip] \in Blocks /\ Path[Parent[tip]] \subseteq Path[tip]
<1>1. tip \in Blocks /\ BlockTxs[wblock] # {}
  BY DEF StateInvariant, ChainOK, IsmanOK
<1>2. Path[Genesis] = {Genesis} /\ BlockTxs[Genesis] = {}
  BY BlockTree
<1>3. tip # Genesis
  BY <1>1, <1>2
<1>4. Parent[tip] \in Blocks /\ Path[tip] = {tip} \cup Path[Parent[tip]]
  BY <1>1, <1>3, BlockTree, Zenon
<1> QED
  BY <1>4, Zenon

\* RemoveMempoolConflictsForLock.
LEMMA RemovesConflicts ==
    ASSUME NEW l, NEW rest, mempool \subseteq Txs, RemoveMempoolConflictsForLock(l, rest)
    PROVE  \E q : NoBlocks(q) /\ queue' = rest \o q
<1> DEFINE gone == removeRecursive(mempool, Spenders(mempool, Txid[l]))
<1>1. gone \in SUBSET Txs
  BY RemovesFromPool
<1>2. queue' = rest \o Each("removed", gone)
  BY Zenon DEF RemoveMempoolConflictsForLock, Notify
<1> HIDE DEF gone
<1> QED
  BY <1>1, <1>2, EachHasNoBlocks

\* isman.
LEMMA IsmanChains ==
    ASSUME StateInvariant, Isman
    PROVE  ChainStep
<1>0. tip \in Blocks /\ mempool \subseteq Txs /\ queue \in Seq(Notifications)
  BY DEF StateInvariant, LockInvariant, PoolInvariant, ChainOK, SchedulerOK
<1>1. CASE UNCHANGED <<tip, queue>>
  BY <1>0, <1>1, ChainAndQueueAsTheyWere
<1>2. CASE InvalidateBlock
  BY <1>0, <1>2, AboveGenesis, SetTipNews DEF InvalidateBlock
<1>3. CASE ResolveMempoolConflicts
  <2>1. UNCHANGED tip
    BY <1>3, Zenon DEF ResolveMempoolConflicts, chain
  <2>2. UNCHANGED queue \/ RemoveMempoolConflictsForLock(wlock, queue)
    BY <1>3, Zenon DEF ResolveMempoolConflicts
  <2> QED
    BY <1>0, <1>1, <2>1, <2>2, RemovesConflicts, BlocksAsTheyWere
<1>4. Isman => InvalidateBlock \/ ResolveMempoolConflicts \/ UNCHANGED <<tip, queue>>
  BY Zenon DEF Isman, ProcessPendingInstantSendLocks, LookupTx, ReplaceSameTx, StoreLock,
               WriteInstantSendLockMined, Untrack, ResolveBlockConflicts, BeginInvalidate,
               EndInvalidate, chain
<1> QED
  BY <1>1, <1>2, <1>3, <1>4

\* All steps but the scheduler's.
LEMMA OthersChain ==
    ASSUME StateInvariant, [Next]_vars, ~ Scheduler
    PROVE  ChainStep /\ UNCHANGED sched
<1>0. tip \in Blocks /\ queue \in Seq(Notifications)
  BY DEF StateInvariant, ChainOK, SchedulerOK
<1>1. CASE Validation
  <2>1. UNCHANGED sched
    BY <1>1, Zenon DEF Validation, AcceptToMemoryPool, LimitMempoolSize, ActivateBestChain, RejectBlock,
                  ProcessNewChainLock, EnforceBlock, NotifyChainLock
  <2> QED
    BY <1>1, <2>1, ValidationChains
<1>2. CASE Isman
  <2>1. UNCHANGED sched
    BY <1>2, Zenon DEF Isman, ProcessPendingInstantSendLocks, LookupTx, ReplaceSameTx, StoreLock,
                  WriteInstantSendLockMined, Untrack, ResolveBlockConflicts, BeginInvalidate,
                  InvalidateBlock, EndInvalidate, ResolveMempoolConflicts
  <2> QED
    BY <1>2, <2>1, IsmanChains
<1>3. CASE Restart \/ (\E l \in Locks : ReceiveLock(l)) \/ UNCHANGED vars
  <2>1. UNCHANGED <<tip, queue>> /\ UNCHANGED sched
    BY <1>3, Zenon DEF Restart, ReceiveLock, vars, chain
  <2> QED
    BY <1>0, <2>1, ChainAndQueueAsTheyWere
<1> QED
  BY <1>1, <1>2, <1>3, Zenon DEF Next

-----------------------------------------------------------------------------
(* What each party leaves alone.                                           *)

LEMMA ValidationLeaves ==
    ASSUME Validation
    PROVE  UNCHANGED <<world, txindex, confirmed, pending, pendingNoTx, nl, sched, isman, restarts, history>>
BY Zenon DEF Validation, AcceptToMemoryPool, LimitMempoolSize, ActivateBestChain, RejectBlock,
             ProcessNewChainLock, EnforceBlock, NotifyChainLock

LEMMA IsmanLeaves ==
    ASSUME Isman
    PROVE  UNCHANGED <<world, chainlock, notified, txindex, confirmed, sched, restarts>>
BY Zenon DEF Isman, ProcessPendingInstantSendLocks, LookupTx, ReplaceSameTx, StoreLock,
             WriteInstantSendLockMined, Untrack, ResolveBlockConflicts, BeginInvalidate,
             InvalidateBlock, EndInvalidate, ResolveMempoolConflicts, chain

LEMMA SchedulerLeaves ==
    ASSUME Scheduler
    PROVE  UNCHANGED <<world, chain, isman, restarts, history>>
BY Zenon DEF Scheduler, TransactionAdded, AddedWithLock, AddedWithoutLock, TransactionRemoved,
             BlockConnected, CheckTx, TrackTx, WriteBlockInstantSendLocks, WriteTxIndex,
             BlockDisconnected, HandleFullyConfirmedBlock, sched

LEMMA RestLeaves ==
    ASSUME Restart \/ (\E l \in Locks : ReceiveLock(l)) \/ UNCHANGED vars
    PROVE  UNCHANGED <<world, tip, failed, txindex, queue, sched, isman, history>>
BY Zenon DEF Restart, ReceiveLock, vars, chain

-----------------------------------------------------------------------------
(* The types of chain and queue, and of what the two threads work on.      *)

LEMMA EventType ==
    ASSUME SchedulerOK, queue # <<>>
    PROVE  /\ Event.kind \in {"added", "removed"} => Event.tx \in Txs
           /\ Event.kind = "connected" => Event.block \in Blocks /\ Event.txs \subseteq Txs
           /\ Event.kind \in {"disconnected", "chainlock"} => Event.block \in Blocks
<1>1. PICK e : e = Event
  OBVIOUS
<1>2. e \in Notifications
  BY <1>1, HeadTailProperties DEF SchedulerOK, Event
<1> QED
  BY <1>1, <1>2 DEF Notifications

\* The chain and what validation keeps of it.
LEMMA ChainOKStep ==
    ASSUME StateInvariant, [Next]_vars
    PROVE  ChainOK'
<1>0. ChainOK
  BY DEF StateInvariant
<1>1. tip' \in Blocks
  <2>1. Scheduler => UNCHANGED tip
    BY SchedulerLeaves, Zenon DEF chain
  <2> QED
    BY <1>0, <2>1, OthersChain DEF ChainStep, ChainOK
<1>2. failed' \subseteq Blocks
  <2>1. CASE Validation
    <3>1. ASSUME NEW b \in Blocks, RejectBlock(b) PROVE failed' \subseteq Blocks
      <4>1. PICK c \in Path[b] \ Path[tip] : failed' = failed \cup {c}
        BY <3>1, Zenon DEF RejectBlock
      <4> QED
        BY <1>0, <4>1, BlockTypes DEF ChainOK
    <3>2. CASE EnforceBlock
      BY <1>0, <3>2, Zenon DEF EnforceBlock, ChainOK
    <3>3. \/ UNCHANGED failed \/ EnforceBlock
          \/ \E b \in Blocks : RejectBlock(b)
      BY <2>1, Zenon DEF Validation, AcceptToMemoryPool, LimitMempoolSize, ActivateBestChain,
                         ProcessNewChainLock, NotifyChainLock, chain
    <3> QED
      BY <1>0, <3>1, <3>2, <3>3 DEF ChainOK
  <2>2. CASE Isman
    <3>1. CASE InvalidateBlock
      BY <1>0, <3>1, Zenon DEF InvalidateBlock, ChainOK
    <3>2. CASE EndInvalidate
      BY <1>0, <3>2, Zenon DEF EndInvalidate, ChainOK, StateInvariant, IsmanOK
    <3>3. UNCHANGED failed \/ InvalidateBlock \/ EndInvalidate
      BY <2>2, Zenon DEF Isman, ProcessPendingInstantSendLocks, LookupTx, ReplaceSameTx, StoreLock,
                         WriteInstantSendLockMined, Untrack, ResolveBlockConflicts, BeginInvalidate,
                         ResolveMempoolConflicts, chain
    <3> QED
      BY <1>0, <3>1, <3>2, <3>3 DEF ChainOK
  <2>3. CASE Scheduler \/ Restart \/ (\E l \in Locks : ReceiveLock(l)) \/ UNCHANGED vars
    <3>1. UNCHANGED failed
      BY <2>3, SchedulerLeaves, RestLeaves, Zenon DEF chain
    <3> QED
      BY <1>0, <3>1 DEF ChainOK
  <2> QED
    BY <2>1, <2>2, <2>3, Zenon DEF Next
<1>3. chainlock' \in Blocks \cup {None} /\ notified' \in Blocks \cup {None}
  <2>1. CASE Validation
    <3>1. {chainlock', notified'} \subseteq {chainlock, notified} \/ \E b \in Blocks : ProcessNewChainLock(b)
      <4>1. \/ chainlock' = chainlock /\ notified' = notified
            \/ chainlock' = chainlock /\ notified' = chainlock
            \/ \E b \in Blocks : ProcessNewChainLock(b)
        BY <2>1, Zenon DEF Validation, AcceptToMemoryPool, LimitMempoolSize, ActivateBestChain,
                           RejectBlock, EnforceBlock, NotifyChainLock, chain
      <4> QED
        BY <4>1
    <3>2. ASSUME NEW b \in Blocks, ProcessNewChainLock(b)
          PROVE  chainlock' = b /\ notified' = notified
      BY <3>2, Zenon DEF ProcessNewChainLock
    <3> QED
      BY <1>0, <3>1, <3>2 DEF ChainOK
  <2>2. CASE UNCHANGED <<chainlock, notified>>
    BY <1>0, <2>2 DEF ChainOK
  <2>3. CASE Restart
    BY <2>3 DEF Restart
  <2>4. Isman \/ Scheduler \/ (\E l \in Locks : ReceiveLock(l)) \/ UNCHANGED vars
          => UNCHANGED <<chainlock, notified>>
    BY IsmanLeaves, SchedulerLeaves, Zenon DEF ReceiveLock, vars, chain
  <2> QED
    BY <2>1, <2>2, <2>3, <2>4, Zenon DEF Next
<1>4. txindex' \in [Txs -> Blocks \cup {None}]
  <2>1. CASE WriteTxIndex
    <3>1. Event.block \in Blocks
      BY <2>1, EventType DEF WriteTxIndex, StateInvariant, SchedulerOK
    <3>2. PICK b \in Blocks : txindex' = [t \in Txs |-> IF t \in BlockTxs[b] THEN b ELSE txindex[t]]
      BY <2>1, <3>1, Zenon DEF WriteTxIndex
    <3> QED
      BY <1>0, <3>2 DEF ChainOK
  <2>2. UNCHANGED txindex \/ WriteTxIndex
    <3>1. Scheduler => UNCHANGED txindex \/ WriteTxIndex
      BY Zenon DEF Scheduler, TransactionAdded, AddedWithLock, AddedWithoutLock, TransactionRemoved,
             BlockConnected, CheckTx, TrackTx, WriteBlockInstantSendLocks,
             BlockDisconnected, HandleFullyConfirmedBlock
    <3> QED
      BY <3>1, ValidationLeaves, IsmanLeaves, RestLeaves, Zenon DEF Next
  <2> QED
    BY <1>0, <2>1, <2>2 DEF ChainOK
<1>5. confirmed' \in Nat /\ restarts' \in Nat
  <2>1. CASE HandleFullyConfirmedBlock
    <3>1. Height[Event.block] \in Nat
      BY <2>1, EventType, BlockTypes, Zenon DEF HandleFullyConfirmedBlock, Notified, Event, StateInvariant
    <3>2. confirmed' \in {confirmed, Height[Event.block]} /\ UNCHANGED restarts
      BY <2>1, Zenon DEF HandleFullyConfirmedBlock
    <3> QED
      BY <1>0, <3>1, <3>2 DEF ChainOK
  <2>2. CASE Restart
    BY <1>0, <2>2 DEF Restart, ChainOK
  <2>3. UNCHANGED <<confirmed, restarts>> \/ HandleFullyConfirmedBlock \/ Restart
    <3>1. Scheduler => UNCHANGED <<confirmed, restarts>> \/ HandleFullyConfirmedBlock
      BY Zenon DEF Scheduler, TransactionAdded, AddedWithLock, AddedWithoutLock, TransactionRemoved,
             BlockConnected, CheckTx, TrackTx, WriteBlockInstantSendLocks, WriteTxIndex,
             BlockDisconnected
    <3>2. (\E l \in Locks : ReceiveLock(l)) \/ UNCHANGED vars => UNCHANGED <<confirmed, restarts>>
      BY Zenon DEF ReceiveLock, vars
    <3> QED
      BY <3>1, <3>2, ValidationLeaves, IsmanLeaves, Zenon DEF Next
  <2> QED
    BY <1>0, <2>1, <2>2, <2>3 DEF ChainOK
<1> QED
  BY <1>1, <1>2, <1>3, <1>4, <1>5 DEF ChainOK

\* What is queued behind leaves the event at the head.
LEMMA QueuedBehind ==
    ASSUME queue \in Seq(Notifications), NEW q \in Seq(Notifications), queue' = queue \o q
    PROVE  /\ queue' \in Seq(Notifications)
           /\ queue # <<>> => queue' # <<>> /\ Event' = Event
<1>1. PICK s, r : s = queue \o q /\ r = queue
  OBVIOUS
<1>2. PICK m \in Nat, n \in Nat : m = Len(r) /\ n = Len(q)
  BY <1>1, LenProperties
<1>3. s \in Seq(Notifications) /\ Len(s) = m + n /\ \A i \in 1..(m + n) : i <= m => s[i] = r[i]
  BY <1>1, <1>2, ConcatProperties
<1>4. r # <<>> => m > 0
  BY <1>1, <1>2, EmptySeq
<1>5. r # <<>> => s # <<>> /\ s[1] = r[1]
  BY <1>2, <1>3, <1>4, EmptySeq
<1>6. r # <<>> => Head(r) = r[1] /\ Head(s) = s[1]
  BY <1>1, <1>3, <1>5, HeadTailProperties
<1> QED
  BY <1>1, <1>3, <1>5, <1>6 DEF Event

LEMMA TailType ==
    ASSUME queue \in Seq(Notifications), queue # <<>>
    PROVE  Tail(queue) \in Seq(Notifications)
BY HeadTailProperties

LEMMA TailOfConcat ==
    ASSUME NEW s \in Seq(Notifications), NEW q \in Seq(Notifications), s # <<>>
    PROVE  Tail(s \o q) = Tail(s) \o q
<1>1. PICK r, u : r = s \o q /\ u = Tail(s)
  BY Zenon
<1>2. PICK m \in Nat, n \in Nat : m = Len(s) /\ n = Len(q)
  BY LenProperties
<1>3. m > 0
  BY <1>2, EmptySeq
<1>4. r \in Seq(Notifications) /\ Len(r) = m + n /\ \A i \in 1..(m + n) : r[i] = IF i <= m THEN s[i] ELSE q[i - m]
  BY <1>1, <1>2, ConcatProperties
<1>5. u \in Seq(Notifications) /\ Len(u) = m - 1 /\ \A i \in 1..(m - 1) : u[i] = s[i + 1]
  BY <1>1, <1>2, HeadTailProperties
<1>6. r # <<>>
  BY <1>3, <1>4, EmptySeq
<1>7. PICK v, w : v = Tail(r) /\ w = u \o q
  BY Zenon
<1>8. v \in Seq(Notifications) /\ Len(v) = (m + n) - 1 /\ \A i \in 1..((m + n) - 1) : v[i] = r[i + 1]
  BY <1>4, <1>6, <1>7, HeadTailProperties
<1>9. /\ w \in Seq(Notifications) /\ Len(w) = (m - 1) + n
      /\ \A i \in 1..((m - 1) + n) : w[i] = IF i <= m - 1 THEN u[i] ELSE q[i - (m - 1)]
  <2>1. PICK k \in Nat : k = Len(u) /\ k = m - 1
    BY <1>3, <1>5
  <2>2. /\ w \in Seq(Notifications) /\ Len(w) = k + n
        /\ \A i \in 1..(k + n) : w[i] = IF i <= k THEN u[i] ELSE q[i - k]
    <3>1. u \in Seq(Notifications) /\ Len(u) = k /\ Len(q) = n /\ w = u \o q
      BY <1>2, <1>5, <1>7, <2>1
    <3> QED
      BY <3>1, ConcatProperties, Zenon
  <2> QED
    BY <2>1, <2>2
<1>10. ASSUME NEW i \in 1..((m + n) - 1)
       PROVE  v[i] = w[i]
  <2>1. i + 1 \in 1..(m + n) /\ i \in 1..((m - 1) + n) /\ i \in Nat /\ (i + 1) - m = i - (m - 1)
    OBVIOUS
  <2>2. CASE i <= m - 1
    BY <1>4, <1>5, <1>8, <1>9, <2>1, <2>2
  <2>3. CASE ~ (i <= m - 1)
    <3>1. ~ (i + 1 <= m)
      BY <2>3
    <3> QED
      BY <1>4, <1>8, <1>9, <2>1, <2>3, <3>1, Zenon
  <2> QED
    BY <2>2, <2>3
<1>11. Len(v) = Len(w) /\ \A i \in 1..Len(v) : v[i] = w[i]
  BY <1>8, <1>9, <1>10
<1>12. v = w
  BY <1>8, <1>9, <1>11, SeqEqual
<1> QED
  BY <1>1, <1>7, <1>12

\* The scheduler is at the event that it is handling.
LEMMA SchedulerOKStep ==
    ASSUME StateInvariant, [Next]_vars
    PROVE  SchedulerOK'
<1>0. SchedulerOK /\ pendingNoTx \subseteq Locks /\ mempool \subseteq Txs
  BY LockTypes DEF StateInvariant, LockInvariant, LocksOfWorld, PoolInvariant
<1>1. CASE ~ Scheduler
  <2>1. PICK q : q \in Seq(Notifications) /\ queue' = queue \o q
    BY <1>1, OthersChain DEF ChainStep, News
  <2>2. spc' = spc /\ todo' = todo /\ cur' = cur
    BY <1>1, OthersChain DEF sched
  <2>3. queue' \in Seq(Notifications) /\ (queue # <<>> => queue' # <<>> /\ Event' = Event)
    BY <1>0, <2>1, QueuedBehind DEF SchedulerOK
  <2> QED
    BY <1>0, <2>2, <2>3 DEF SchedulerOK
<1>2. CASE TransactionAdded
  <2>1. UNCHANGED <<queue, todo>> /\ queue # <<>> /\ Event.kind = "added"
    BY <1>2, Zenon DEF TransactionAdded, Notified, Event
  <2>2. (spc' = "mempool" /\ cur' \in Locks) \/ (spc' = "add" /\ cur' = cur)
    BY <1>0, <1>2 DEF TransactionAdded
  <2>3. Event' = Event
    BY <2>1 DEF Event
  <2> QED
    BY <1>0, <2>1, <2>2, <2>3 DEF SchedulerOK
<1>3. CASE AddedWithLock
  <2>1. spc' = "idle" /\ cur' = None /\ todo' = todo
    BY <1>3, Zenon DEF AddedWithLock
  <2>2. PICK q : NoBlocks(q) /\ queue' = Tail(queue) \o q
    BY <1>0, <1>3, RemovesConflicts, Zenon DEF AddedWithLock
  <2>3. Tail(queue) \in Seq(Notifications)
    BY <1>0, <1>3, TailType DEF SchedulerOK, AddedWithLock
  <2>4. PICK r : r = Tail(queue)
    BY Zenon
  <2>5. r \o q \in Seq(Notifications)
    BY <2>2, <2>3, <2>4, ConcatProperties DEF NoBlocks
  <2> QED
    BY <1>0, <2>1, <2>2, <2>4, <2>5 DEF SchedulerOK
<1>4. CASE AddedWithoutLock \/ TransactionRemoved \/ WriteTxIndex \/ BlockDisconnected \/ HandleFullyConfirmedBlock
  <2>1. spc' = "idle" /\ todo' = todo /\ cur' = cur /\ queue' = Tail(queue)
    BY <1>4, Zenon DEF AddedWithoutLock, TransactionRemoved, WriteTxIndex, BlockDisconnected,
                       HandleFullyConfirmedBlock, Handled, Notified, sched
  <2>2. queue # <<>>
    <3>1. spc \in {"add", "index"} \/ queue # <<>>
      BY <1>4 DEF AddedWithoutLock, TransactionRemoved, WriteTxIndex, BlockDisconnected,
                         HandleFullyConfirmedBlock, Notified
    <3> QED
      BY <1>0, <3>1 DEF SchedulerOK
  <2> QED
    BY <1>0, <2>1, <2>2, TailType DEF SchedulerOK
<1>5. CASE BlockConnected
  <2>1. /\ queue # <<>> /\ Event.kind = "connected" /\ UNCHANGED <<queue, cur>>
        /\ spc' = "block" /\ todo' = BlockTxs[Event.block]
    BY <1>5, Zenon DEF BlockConnected, Notified, Event
  <2>2. todo' \subseteq Txs
    BY <1>0, <2>1, EventType, BlockTypes
  <2>3. Event' = Event
    BY <2>1, Zenon DEF Event
  <2> QED
    BY <1>0, <2>1, <2>2, <2>3 DEF SchedulerOK
<1>6. ASSUME NEW t \in todo, CheckTx(t) PROVE SchedulerOK'
  <2>1. /\ spc = "block" /\ queue' = queue /\ todo' = todo \ {t}
        /\ (spc' = "block" /\ cur' = cur) \/ (spc' = "track" /\ cur' = t)
    BY <1>6, Zenon DEF CheckTx
  <2>2. Event' = Event
    BY <2>1 DEF Event
  <2> QED
    BY <1>0, <2>1, <2>2 DEF SchedulerOK
<1>7. CASE TrackTx \/ WriteBlockInstantSendLocks
  <2>1. /\ spc \in {"block", "track"} /\ queue' = queue /\ todo' = todo
        /\ spc' \in {"block", "index"} /\ cur' \in {cur, None}
    BY <1>7 DEF TrackTx, WriteBlockInstantSendLocks
  <2>2. Event' = Event
    BY <2>1 DEF Event
  <2> QED
    BY <1>0, <2>1, <2>2 DEF SchedulerOK
<1> QED
  BY <1>1, <1>2, <1>3, <1>4, <1>5, <1>6, <1>7, Zenon DEF Scheduler

LEMMA TrackedConflictsType ==
    ASSUME Tracking(nl), NEW l
    PROVE  TrackedConflicts(l) \subseteq Blocks \X Txs /\ \A c \in TrackedConflicts(l) : c[2] \in BlockTxs[c[1]]
<1> SUFFICES ASSUME NEW c \in TrackedConflicts(l)
             PROVE  c \in Blocks \X Txs /\ c[2] \in BlockTxs[c[1]]
  BY Zenon
<1>1. nl.txs \subseteq Txs /\ nl.mined \in [Txs -> Blocks \cup {None}]
  BY DEF Tracking
<1>2. PICK t \in nl.txs : nl.mined[t] # None /\ c = <<nl.mined[t], t>>
  BY Zenon DEF TrackedConflicts
<1>3. t \in Txs /\ nl.mined[t] \in Blocks /\ t \in BlockTxs[nl.mined[t]]
  BY <1>1, <1>2 DEF Tracking
<1> QED
  BY <1>2, <1>3

\* isman is at the lock that it is processing.
LEMMA IsmanOKStep ==
    ASSUME StateInvariant, [Next]_vars
    PROVE  IsmanOK'
<1>0. IsmanOK /\ batch \subseteq Locks
  BY LockTypes DEF StateInvariant, LockInvariant, LocksOfWorld
<1>1. CASE UNCHANGED isman
  BY <1>0, <1>1 DEF IsmanOK, isman
<1>2. CASE \E deterministic \in BOOLEAN : ProcessPendingInstantSendLocks(deterministic)
  <2>1. UNCHANGED <<wpc, wlock, wtx, conflicts, wblock>>
    BY <1>2, Zenon DEF ProcessPendingInstantSendLocks
  <2> QED
    BY <1>0, <2>1 DEF IsmanOK
<1>3. ASSUME NEW l \in Locks, LookupTx(l) PROVE IsmanOK'
  <2>1. UNCHANGED <<conflicts, wblock>>
        /\ (UNCHANGED <<wpc, wlock, wtx>> \/ (wpc' = "same" /\ wlock' = l /\ wtx' = GetTransaction(Txid[l])))
    BY <1>3, Zenon DEF LookupTx
  <2>2. GetTransaction(Txid[l]) \in [known : BOOLEAN, block : Blocks \cup {None}]
    BY LockTypes, Zenon DEF GetTransaction, StateInvariant, ChainOK
  <2> QED
    BY <1>0, <2>1, <2>2 DEF IsmanOK
<1>4. CASE ReplaceSameTx \/ ResolveMempoolConflicts
  <2>1. UNCHANGED <<conflicts, wblock>> /\ wpc # "idle"
        /\ ((wpc' = "idle" /\ wlock' = None /\ wtx' = NoNews) \/ (wpc' = "store" /\ UNCHANGED <<wlock, wtx>>))
    BY <1>4 DEF ReplaceSameTx, ResolveMempoolConflicts
  <2>2. NoNews \in [known : BOOLEAN, block : Blocks \cup {None}]
    BY DEF NoNews
  <2> QED
    BY <1>0, <2>1, <2>2 DEF IsmanOK
<1>5. CASE StoreLock \/ WriteInstantSendLockMined \/ Untrack
  <2>1. UNCHANGED <<wlock, wtx, conflicts, wblock>> /\ wpc # "idle" /\ wpc' \in {"mined", "untrack", "resolve"}
    BY <1>5 DEF StoreLock, WriteInstantSendLockMined, Untrack
  <2> QED
    BY <1>0, <2>1 DEF IsmanOK
<1>6. CASE ResolveBlockConflicts
  <2>1. /\ UNCHANGED <<wlock, wtx, wblock>> /\ wpc = "resolve"
        /\ conflicts' = {} \/ conflicts' = TrackedConflicts(wlock)
    BY <1>6, Zenon DEF ResolveBlockConflicts
  <2>2. wpc' \in {"mempool", "reset", "invalidate"}
    BY <1>6 DEF ResolveBlockConflicts
  <2>3. TrackedConflicts(wlock) \subseteq Blocks \X Txs /\ \A c \in TrackedConflicts(wlock) : c[2] \in BlockTxs[c[1]]
    BY TrackedConflictsType DEF StateInvariant, LocksOK
  <2> QED
    BY <1>0, <2>1, <2>2, <2>3 DEF IsmanOK
<1>7. ASSUME NEW c \in conflicts, BeginInvalidate(c) PROVE IsmanOK'
  <2>1. UNCHANGED <<wpc, wlock, wtx, conflicts>> /\ wblock' = c[1]
    BY <1>7, Zenon DEF BeginInvalidate
  <2> QED
    BY <1>0, <2>1 DEF IsmanOK
<1>8. CASE EndInvalidate
  <2>1. UNCHANGED <<wlock, wtx>> /\ wblock' = None /\ wblock # None /\ conflicts' \subseteq conflicts
        /\ wpc' \in {"mempool", wpc}
    BY <1>8 DEF EndInvalidate
  <2>2. wpc # "idle"
    BY <2>1 DEF StateInvariant, LockInvariant, IsmanInvariant
  <2> QED
    BY <1>0, <2>1, <2>2 DEF IsmanOK
<1>9. InvalidateBlock => UNCHANGED isman
  BY Zenon DEF InvalidateBlock
<1>10. Validation \/ Scheduler \/ Restart \/ (\E l \in Locks : ReceiveLock(l)) \/ UNCHANGED vars
          => UNCHANGED isman
  BY ValidationLeaves, SchedulerLeaves, RestLeaves, Zenon
<1> QED
  BY <1>1, <1>2, <1>3, <1>4, <1>5, <1>6, <1>7, <1>8, <1>9, <1>10, Zenon DEF Next, Isman

=============================================================================
