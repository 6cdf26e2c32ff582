----------------------- MODULE InstantSendChainProofs -----------------------
(***************************************************************************)
(* Proofs about InstantSend and the chain, for all transactions, locks,    *)
(* blocks and worlds: the types of the state, that the active chain does   *)
(* not conflict with stored locks, where stored locks are filed as mined,  *)
(* and what locks may wait for.                                            *)
(***************************************************************************)
EXTENDS InstantSendProofs

-----------------------------------------------------------------------------
(* The types of the database and of what is tracked, and of the state.     *)

\* What lookups in the database return are locks.
LEMMA LocksFound ==
    ASSUME db \in DbType
    PROVE  /\ \A t \in Txs : GetInstantSendLockHashByTxid(t) \subseteq Locks
           /\ \A t : GetInstantSendLockByTxid(t) \subseteq Locks
           /\ \A b \in Blocks : ConflictingLocks(b) \subseteq Locks /\ MinedLocks(b) \subseteq Nat \X Locks
<1>1. /\ db.lock \subseteq Locks /\ db.kept \subseteq Locks /\ db.keptTx \subseteq Locks
      /\ db.tx \in [Txs -> Locks \cup {None}] /\ db.out \in [Outpoints -> Locks \cup {None}]
  BY DEF DbType
<1>2. \A t \in Txs : GetInstantSendLockHashByTxid(t) \subseteq Locks
  BY <1>1 DEF GetInstantSendLockHashByTxid
<1>3. \A t : GetInstantSendLockByTxid(t) \subseteq Locks
  BY <1>1 DEF GetInstantSendLockByTxid
<1>4. \A o \in Outpoints : GetInstantSendLockByInput(o) \subseteq Locks
  BY <1>1 DEF GetInstantSendLockByInput
<1>5. \A t \in Txs : GetConflictingLock(t) \subseteq Locks
  BY <1>4, TransactionTypes DEF GetConflictingLock
<1>6. \A b \in Blocks : ConflictingLocks(b) \subseteq Locks
  BY <1>5, BlockTypes DEF ConflictingLocks
<1>7. ASSUME NEW b \in Blocks PROVE MinedLocks(b) \subseteq Nat \X Locks
  BY <1>2, BlockTypes DEF MinedLocks
<1> QED
  BY <1>2, <1>3, <1>6, <1>7

\* What changes the database.
LEMMA DbChanges ==
    ASSUME [Next]_vars
    PROVE  \/ UNCHANGED db \/ (\E b \in Blocks : ActivateBestChain(b))
           \/ ReplaceSameTx \/ StoreLock \/ WriteInstantSendLockMined \/ ResolveBlockConflicts
           \/ TransactionRemoved \/ WriteBlockInstantSendLocks \/ BlockDisconnected
           \/ HandleFullyConfirmedBlock \/ Restart
<1>1. Validation => UNCHANGED db \/ \E b \in Blocks : ActivateBestChain(b)
  BY Zenon DEF Validation, AcceptToMemoryPool, LimitMempoolSize, RejectBlock,
             ProcessNewChainLock, EnforceBlock, NotifyChainLock
<1>2. Isman => UNCHANGED db \/ ReplaceSameTx \/ StoreLock \/ WriteInstantSendLockMined \/ ResolveBlockConflicts
  BY Zenon DEF Isman, ProcessPendingInstantSendLocks, LookupTx, Untrack, BeginInvalidate,
               InvalidateBlock, EndInvalidate, ResolveMempoolConflicts
<1>3. Scheduler => \/ UNCHANGED db \/ TransactionRemoved \/ WriteBlockInstantSendLocks
                    \/ BlockDisconnected \/ HandleFullyConfirmedBlock
  BY Zenon DEF Scheduler, TransactionAdded, AddedWithLock, AddedWithoutLock, BlockConnected, CheckTx, TrackTx,
               WriteTxIndex
<1>4. (\E l \in Locks : ReceiveLock(l)) \/ UNCHANGED vars => UNCHANGED db
  BY Zenon DEF ReceiveLock, vars
<1> QED
  BY <1>1, <1>2, <1>3, <1>4, Zenon DEF Next

\* The database.
LEMMA DbTypeStep ==
    ASSUME StateInvariant, [Next]_vars
    PROVE  db' \in DbType
<1>0. db \in DbType /\ IsmanOK /\ SchedulerOK /\ ChainOK
  BY DEF StateInvariant, LocksOK
<1>1. CASE UNCHANGED db
  BY <1>0, <1>1
<1>2. ASSUME NEW b \in Blocks, ActivateBestChain(b) PROVE db' \in DbType
  <2>1. PICK S : /\ db' = RemoveConflictingLock(db, S)
                 /\ S = UNION {ConflictingLocks(c) : c \in Path[b] \ Path[tip]}
    BY <1>2, Zenon DEF ActivateBestChain
  <2>2. \A c \in Path[b] : ConflictingLocks(c) \subseteq Locks
    BY <1>0, LocksFound, BlockTypes
  <2>3. S \subseteq Locks
    BY <2>1, <2>2
  <2> QED
    BY <1>0, <2>1, <2>3, RemoveConflictingType
<1>3. CASE ReplaceSameTx
  <2>1. PICK same : same = GetInstantSendLockByTxid(Txid[wlock])
    OBVIOUS
  <2>2. UNCHANGED db \/ db' = [RemoveAndArchive(db, same) EXCEPT !.keptTx = @ \ same]
    BY <1>3, <2>1, Zenon DEF ReplaceSameTx
  <2>3. RemoveAndArchive(db, same) \in DbType
    BY <1>0, <2>1, LocksFound, RemoveAndArchiveType
  <2> QED
    BY <1>0, <2>2, <2>3 DEF DbType
<1>4. CASE StoreLock
  <2>1. UNCHANGED db \/ db' = WriteNewInstantSendLock(db, wlock)
    BY <1>4, Zenon DEF StoreLock
  <2>2. wlock \in Locks
    BY <1>0, <1>4 DEF StoreLock, IsmanOK
  <2> QED
    BY <1>0, <2>1, <2>2, WriteNewType
<1>5. CASE WriteInstantSendLockMined
  <2>1. wlock \in Locks /\ wtx.block \in Blocks
    BY <1>0, <1>5 DEF WriteInstantSendLockMined, IsmanOK, StateInvariant, LockInvariant, IsmanInvariant
  <2>2. <<Height[wtx.block], wlock>> \in Nat \X Locks
    BY <2>1, BlockTypes
  <2>3. db' = [db EXCEPT !.mined = @ \cup {<<Height[wtx.block], wlock>>}]
    BY <1>5, Zenon DEF WriteInstantSendLockMined
  <2> QED
    BY <1>0, <2>2, <2>3 DEF DbType
<1>6. CASE ResolveBlockConflicts
  <2>1. wlock \in Locks
    BY <1>0, <1>6 DEF ResolveBlockConflicts, IsmanOK
  <2>2. UNCHANGED db \/ db' = RemoveConflictingLock(db, {wlock})
    BY <1>6, Zenon DEF ResolveBlockConflicts
  <2> QED
    BY <1>0, <2>1, <2>2, RemoveConflictingType
<1>7. CASE TransactionRemoved
  <2>1. PICK S : S = GetInstantSendLockByTxid(Event.tx) /\ db' = RemoveConflictingLock(db, S)
    BY <1>7, Zenon DEF TransactionRemoved
  <2> QED
    BY <1>0, <2>1, LocksFound, RemoveConflictingType
<1>8. CASE WriteBlockInstantSendLocks
  <2>1. Event.block \in Blocks
    BY <1>0, <1>8, EventType DEF WriteBlockInstantSendLocks, SchedulerOK
  <2>2. PICK M : M = MinedLocks(Event.block) /\ db' = [db EXCEPT !.mined = @ \cup M]
    BY <1>8, Zenon DEF WriteBlockInstantSendLocks
  <2>3. M \subseteq Nat \X Locks
    BY <1>0, <2>1, <2>2, LocksFound
  <2> QED
    BY <1>0, <2>2, <2>3 DEF DbType
<1>9. CASE BlockDisconnected
  <2>1. PICK M : db' = [db EXCEPT !.mined = @ \ M]
    BY <1>9, Zenon DEF BlockDisconnected
  <2> QED
    BY <1>0, <2>1 DEF DbType
<1>10. CASE HandleFullyConfirmedBlock
  <2>1. UNCHANGED db \/ \E h : db' = RemoveConfirmedInstantSendLocks(db, h)
    BY <1>10, Zenon DEF HandleFullyConfirmedBlock
  <2> QED
    BY <1>0, <2>1, RemoveConfirmedType
<1>11. CASE Restart
  <2>1. db' = [db EXCEPT !.kept = {}, !.keptTx = {}]
    BY <1>11, Zenon DEF Restart
  <2> QED
    BY <1>0, <2>1, Zenon DEF DbType
<1> QED
  BY <1>1, <1>2, <1>3, <1>4, <1>5, <1>6, <1>7, <1>8, <1>9, <1>10, <1>11, DbChanges, Zenon

\* nonLockedTxs.
LEMMA TrackingStep ==
    ASSUME StateInvariant, [Next]_vars
    PROVE  Tracking(nl')
<1>0. Tracking(nl) /\ SchedulerOK
  BY DEF StateInvariant, LocksOK
<1>1. CASE UNCHANGED nl
  BY <1>0, <1>1
<1>2. CASE \E S : nl' = RemoveNonLockedTx(nl, S)
  BY <1>0, <1>2, RemoveKeepsTracking
<1>3. CASE AddedWithoutLock
  <2>1. nl' = AddNonLockedTx(nl, Event.tx, None) /\ spc = "add"
    BY <1>3, Zenon DEF AddedWithoutLock
  <2>2. Event.tx \in Txs
    BY <1>0, <2>1, EventType DEF SchedulerOK
  <2> QED
    BY <1>0, <2>1, <2>2, AddKeepsTracking
<1>4. CASE TrackTx
  <2>1. nl' = AddNonLockedTx(nl, cur, Event.block) /\ spc = "track"
    BY <1>4, Zenon DEF TrackTx
  <2>2. cur \in BlockTxs[Event.block] /\ Event.block \in Blocks
    BY <1>0, <2>1, EventType, Zenon DEF SchedulerOK
  <2>3. cur \in Txs
    BY <2>2, BlockTypes
  <2> QED
    BY <1>0, <2>1, <2>2, <2>3, AddKeepsTracking, Zenon
<1>5. CASE Restart
  <2>1. nl' = NothingTracked
    BY <1>5, Zenon DEF Restart
  <2>2. Tracking(NothingTracked)
    BY Zenon DEF Tracking, NothingTracked
  <2> QED
    BY <2>1, <2>2
<1>6. Isman => UNCHANGED nl \/ \E S : nl' = RemoveNonLockedTx(nl, S)
  BY Zenon DEF Isman, ProcessPendingInstantSendLocks, LookupTx, ReplaceSameTx, StoreLock,
               WriteInstantSendLockMined, Untrack, ResolveBlockConflicts, BeginInvalidate,
               InvalidateBlock, EndInvalidate, ResolveMempoolConflicts, RemoveMempoolConflictsForLock
<1>7. Scheduler => UNCHANGED nl \/ (\E S : nl' = RemoveNonLockedTx(nl, S)) \/ AddedWithoutLock \/ TrackTx
  BY Zenon DEF Scheduler, TransactionAdded, AddedWithLock, TransactionRemoved, BlockConnected, CheckTx,
               WriteBlockInstantSendLocks, WriteTxIndex, BlockDisconnected, HandleFullyConfirmedBlock,
               RemoveMempoolConflictsForLock
<1>8. (\E l \in Locks : ReceiveLock(l)) \/ UNCHANGED vars => UNCHANGED nl
  BY Zenon DEF ReceiveLock, vars
<1> QED
  BY <1>1, <1>2, <1>3, <1>4, <1>5, <1>6, <1>7, <1>8, ValidationLeaves, Zenon DEF Next

LEMMA LocksOKStep ==
    ASSUME StateInvariant, [Next]_vars
    PROVE  LocksOK'
<1>0. stale \subseteq Locks /\ missed \subseteq Locks
  BY DEF StateInvariant, LocksOK
<1>1. stale' \in {stale, stale \cup {wlock}} /\ missed' \in {missed, missed \cup {wlock}}
      /\ (wpc # "idle" \/ UNCHANGED <<stale, missed>>)
  <2>1. Isman => /\ (stale' = stale \/ stale' = stale \cup Outdated) /\ (missed' = missed \/ missed' = missed \cup {wlock})
                 /\ (wpc # "idle" \/ UNCHANGED <<stale, missed>>)
    <3>1. CASE StoreLock \/ WriteInstantSendLockMined
      BY <3>1 DEF StoreLock, WriteInstantSendLockMined
    <3>2. CASE ResolveBlockConflicts
      BY <3>2 DEF ResolveBlockConflicts
    <3>3. Isman => UNCHANGED <<stale, missed>> \/ StoreLock \/ WriteInstantSendLockMined \/ ResolveBlockConflicts
      BY Zenon DEF Isman, ProcessPendingInstantSendLocks, LookupTx, ReplaceSameTx, Untrack, BeginInvalidate,
               InvalidateBlock, EndInvalidate, ResolveMempoolConflicts, history
    <3> QED
      BY <3>1, <3>2, <3>3
  <2>2. Validation \/ Scheduler \/ Restart \/ (\E l \in Locks : ReceiveLock(l)) \/ UNCHANGED vars
          => UNCHANGED <<stale, missed>>
    BY ValidationLeaves, SchedulerLeaves, RestLeaves, Zenon DEF history
  <2>3. Outdated \in {{}, {wlock}}
    BY DEF Outdated
  <2> QED
    BY <2>1, <2>2, <2>3 DEF Next
<1>2. wpc # "idle" => wlock \in Locks
  BY DEF StateInvariant, IsmanOK
<1>3. stale' \subseteq Locks /\ missed' \subseteq Locks
  BY <1>0, <1>1, <1>2
<1> QED
  BY <1>3, DbTypeStep, TrackingStep DEF LocksOK

LEMMA StateInvariantStep ==
    ASSUME StateInvariant, [Next]_vars
    PROVE  StateInvariant'
<1>1. LockInvariant'
  BY LockInvariantStep DEF StateInvariant
<1> QED
  BY <1>1, ChainOKStep, SchedulerOKStep, IsmanOKStep, LocksOKStep, Zenon DEF StateInvariant

LEMMA StateInvariantInit == Init => StateInvariant
<1> SUFFICES ASSUME Init PROVE StateInvariant
  OBVIOUS
<1>1. LockInvariant
  BY LockInvariantInit
<1>2. ChainOK
  BY BlockTypes DEF Init, ChainOK
<1>3. LocksOK
  BY Zenon DEF Init, LocksOK, NoLocks, NothingTracked, DbType, Tracking
<1>4. SchedulerOK
  BY EmptySeq DEF Init, SchedulerOK
<1>5. IsmanOK
  BY DEF Init, IsmanOK, NoNews
<1> QED
  BY <1>1, <1>2, <1>3, <1>4, <1>5 DEF StateInvariant

\* The state always has its types, the notification that is handled stays at the head of the
\* queue, and isman works on a lock and on blocks that have a transaction (ProcessPendingInstantSendLocks,
\* BlockConnected, ResolveBlockConflicts).
THEOREM StateInvariantHolds == Spec => []StateInvariant
<1>1. Init => StateInvariant
  BY StateInvariantInit
<1>2. StateInvariant /\ [Next]_vars => StateInvariant'
  BY StateInvariantStep
<1> QED
  BY <1>1, <1>2, PTL DEF Spec

\* The database, the pending maps, nonLockedTxs and the places of the two threads always have
\* their types (CInstantSendDb, NonLockedTxInfo, AddNonLockedTx).
THEOREM TypesAlwaysRight == Spec => []TypeOK
<1>1. StateInvariant => TypeOK
  <2> SUFFICES ASSUME StateInvariant PROVE TypeOK
    OBVIOUS
  <2>1. world \in Worlds /\ pending \cup pendingNoTx \cup batch \subseteq Locks /\ mempool \subseteq Txs
    BY LockTypes, Zenon DEF StateInvariant, LockInvariant, LocksOfWorld, PoolInvariant
  <2> QED
    BY <2>1, Zenon DEF StateInvariant, ChainOK, LocksOK, SchedulerOK, IsmanOK, Tracking, TypeOK
<1> QED
  BY <1>1, StateInvariantHolds, PTL

-----------------------------------------------------------------------------
(* The active chain and the stored locks.                                  *)

\* An active conflict of a stored lock is in the hands of isman: it has yet to look for
\* conflicts of the lock, or it found this one and has yet to invalidate the block.
ConflictsInHand ==
    \A l \in db.lock \ missed : \A c \in ActiveConflicts(l) :
        /\ wlock = l
        /\ \/ wpc \in {"mined", "untrack", "resolve"}
           \/ wpc \in {"invalidate", "reset"} /\ c \in conflicts

\* Only StoreLock adds to the stored locks, and a lock that goes is archived.
LEMMA LocksShrink ==
    ASSUME StateInvariant, [Next]_vars, ~ StoreLock
    PROVE  db'.lock \subseteq db.lock /\ db.lock \subseteq db'.lock \cup db'.archived
<1>0. DbInvariant(db)
  BY DEF StateInvariant, LockInvariant
<1>1. CASE UNCHANGED db
  BY <1>1
<1>2. CASE \E S : db' = RemoveConflictingLock(db, S)
  BY <1>0, <1>2, RemoveConflictingKeeps
<1>3. CASE \E h : db' = RemoveConfirmedInstantSendLocks(db, h)
  BY <1>0, <1>3, RemoveConfirmedKeeps
<1>4. CASE ReplaceSameTx
  <2>1. UNCHANGED db \/ \E same : db' = [RemoveAndArchive(db, same) EXCEPT !.keptTx = @ \ same]
    BY <1>4, Zenon DEF ReplaceSameTx
  <2>2. ASSUME NEW same, db' = [RemoveAndArchive(db, same) EXCEPT !.keptTx = @ \ same]
        PROVE  db'.lock \subseteq db.lock /\ db.lock \subseteq db'.lock \cup db'.archived
    <3>1. PICK r : r = RemoveAndArchive(db, same)
      OBVIOUS
    <3>2. DbInvariant(r) /\ r.lock = db.lock \ same /\ r.archived = db.archived \cup same
      BY <1>0, <3>1, RemoveAndArchiveKeeps
    <3>3. db'.lock = r.lock /\ db'.archived = r.archived
      BY <2>2, <3>1, <3>2 DEF DbInvariant
    <3> QED
      BY <3>2, <3>3
  <2> QED
    BY <2>1, <2>2
<1>5. CASE \/ \E M : db' = [db EXCEPT !.mined = M]
           \/ db' = [db EXCEPT !.kept = {}, !.keptTx = {}]
  BY <1>0, <1>5, Zenon DEF DbInvariant
<1>6. ResolveBlockConflicts \/ TransactionRemoved
        => UNCHANGED db \/ \E S : db' = RemoveConflictingLock(db, S)
  BY Zenon DEF ResolveBlockConflicts, TransactionRemoved
<1>7. HandleFullyConfirmedBlock => UNCHANGED db \/ \E h : db' = RemoveConfirmedInstantSendLocks(db, h)
  BY Zenon DEF HandleFullyConfirmedBlock
<1>8. WriteInstantSendLockMined \/ WriteBlockInstantSendLocks \/ BlockDisconnected
        => \E M : db' = [db EXCEPT !.mined = M]
  BY Zenon DEF WriteInstantSendLockMined, WriteBlockInstantSendLocks, BlockDisconnected
<1>9. Restart => db' = [db EXCEPT !.kept = {}, !.keptTx = {}]
  BY Zenon DEF Restart
<1>10. \A b : ActivateBestChain(b) => \E S : db' = RemoveConflictingLock(db, S)
  BY Zenon DEF ActivateBestChain
<1> QED
  BY <1>1, <1>2, <1>3, <1>4, <1>5, <1>6, <1>7, <1>8, <1>9, <1>10, DbChanges, Zenon

LEMMA ChainShrinks ==
    ASSUME NEW l, Path[tip'] \subseteq Path[tip]
    PROVE  ActiveConflicts(l)' \subseteq ActiveConflicts(l)
BY DEF ActiveConflicts

\* Steps that neither store a lock nor extend the chain, and leave isman where it was.
LEMMA NoNewConflicts ==
    ASSUME ConflictsInHand, db'.lock \subseteq db.lock, missed \subseteq missed', Path[tip'] \subseteq Path[tip],
           UNCHANGED <<wpc, wlock, conflicts>>
    PROVE  ConflictsInHand'
<1> SUFFICES ASSUME NEW l \in db'.lock \ missed', NEW c \in ActiveConflicts(l)'
             PROVE  /\ wlock' = l
                    /\ \/ wpc' \in {"mined", "untrack", "resolve"}
                       \/ wpc' \in {"invalidate", "reset"} /\ c \in conflicts'
  BY Zenon DEF ConflictsInHand
<1>1. l \in db.lock \ missed /\ c \in ActiveConflicts(l)
  BY ChainShrinks
<1> QED
  BY <1>1 DEF ConflictsInHand

\* A new block has no conflict with a lock that is still stored after it is connected.
LEMMA NewBlocksRespectLocks ==
    ASSUME StateInvariant, NEW b \in Blocks, ActivateBestChain(b), NEW l \in db'.lock,
           NEW c \in ActiveConflicts(l)'
    PROVE  l \in db.lock /\ c \in ActiveConflicts(l)
<1>0. DbInvariant(db) /\ tip' = b /\ tip \in Blocks
  BY Zenon DEF StateInvariant, LockInvariant, ActivateBestChain, SetTip, ChainOK
<1>1. PICK S : /\ db' = RemoveConflictingLock(db, S)
               /\ S = UNION {ConflictingLocks(d) : d \in Path[b] \ Path[tip]}
  BY Zenon DEF ActivateBestChain
<1>2. l \in db.lock /\ l \notin S
  BY <1>0, <1>1, RemoveConflictingKeeps
<1>3. c[1] \in Path[b] /\ c \in Path[b] \X Txs /\ c[2] \in Spenders(BlockTxs[c[1]], Txid[l])
  BY <1>0 DEF ActiveConflicts
<1>4. CASE c[1] \in Path[tip]
  BY <1>2, <1>3, <1>4 DEF ActiveConflicts
<1>5. CASE c[1] \notin Path[tip]
  <2>1. c[2] \in BlockTxs[c[1]] /\ c[2] # Txid[l] /\ Inputs[Txid[l]] \cap Inputs[c[2]] # {}
    BY <1>3 DEF Spenders, DoubleSpend
  <2>2. PICK o : o \in Inputs[Txid[l]] /\ o \in Inputs[c[2]]
    BY <2>1
  <2>3. db.out[o] = l /\ l # None
    BY <1>0, <1>2, <2>2, LockTypes DEF DbInvariant
  <2>4. l \in GetInstantSendLockByInput(o)
    BY <2>3 DEF GetInstantSendLockByInput
  <2>5. l \in GetConflictingLock(c[2])
    BY <2>1, <2>2, <2>4 DEF GetConflictingLock
  <2>6. l \in ConflictingLocks(c[1])
    BY <2>1, <2>5 DEF ConflictingLocks
  <2> QED
    BY <1>1, <1>2, <1>3, <1>5, <2>6
<1> QED
  BY <1>4, <1>5

\* The steps of validation, of which only ActivateBestChain extends the chain.
LEMMA ValidationConflicts ==
    ASSUME StateInvariant, ConflictsInHand, Validation
    PROVE  ConflictsInHand'
<1>0. ChainOK
  BY DEF StateInvariant
<1>1. UNCHANGED <<wpc, wlock, conflicts, missed>>
  BY ValidationLeaves, Zenon DEF isman, history
<1>2. ASSUME NEW b \in Blocks, ActivateBestChain(b) PROVE ConflictsInHand'
  <2> SUFFICES ASSUME NEW l \in db'.lock \ missed', NEW c \in ActiveConflicts(l)'
               PROVE  /\ wlock' = l
                      /\ \/ wpc' \in {"mined", "untrack", "resolve"}
                         \/ wpc' \in {"invalidate", "reset"} /\ c \in conflicts'
    BY Zenon DEF ConflictsInHand
  <2>1. l \in db.lock /\ c \in ActiveConflicts(l)
    BY <1>2, NewBlocksRespectLocks
  <2> QED
    BY <1>1, <2>1 DEF ConflictsInHand
<1>3. CASE UNCHANGED db /\ Path[tip'] \subseteq Path[tip]
  BY <1>1, <1>3, NoNewConflicts
<1>4. EnforceBlock => UNCHANGED db /\ Path[tip'] \subseteq Path[tip]
  <2> SUFFICES ASSUME EnforceBlock PROVE UNCHANGED db /\ Path[tip'] \subseteq Path[tip]
    OBVIOUS
  <2>1. UNCHANGED db /\ (UNCHANGED tip \/ \E b \in Path[tip] : tip' = b)
    BY Zenon DEF EnforceBlock, SetTip
  <2> QED
    BY <1>0, <2>1, BlockTree DEF ChainOK
<1>5. Validation => \/ (\E b \in Blocks : ActivateBestChain(b)) \/ EnforceBlock
                    \/ UNCHANGED <<db, tip>>
  BY Zenon DEF Validation, AcceptToMemoryPool, LimitMempoolSize, RejectBlock, ProcessNewChainLock,
               NotifyChainLock, chain
<1> QED
  BY <1>2, <1>3, <1>4, <1>5

\* The steps of isman.
LEMMA IsmanConflicts ==
    ASSUME StateInvariant, ConflictsInHand, Isman
    PROVE  ConflictsInHand'
<1>0. tip \in Blocks /\ DbInvariant(db) /\ IsmanInvariant
  BY DEF StateInvariant, ChainOK, LockInvariant
<1>1. CASE wpc \in {"idle", "same", "store", "mempool"} /\ UNCHANGED tip /\ missed \subseteq missed'
            /\ db'.lock \subseteq db.lock
  <2> SUFFICES ASSUME NEW l \in db'.lock \ missed', NEW c \in ActiveConflicts(l)'
               PROVE  FALSE
    BY Zenon DEF ConflictsInHand
  <2>1. l \in db.lock \ missed /\ c \in ActiveConflicts(l)
    BY <1>1, ChainShrinks
  <2> QED
    BY <1>1, <2>1 DEF ConflictsInHand
<1>2. CASE UNCHANGED <<wpc, wlock, conflicts, missed, db>> /\ Path[tip'] \subseteq Path[tip]
  BY <1>2, NoNewConflicts
<1>3. CASE StoreLock
  <2>1. /\ UNCHANGED <<tip, wlock, missed>> /\ wpc = "store" /\ wpc' \in {"mined", "untrack"}
        /\ UNCHANGED db \/ db' = WriteNewInstantSendLock(db, wlock)
    BY <1>3 DEF StoreLock, chain
  <2>2. WriteNewInstantSendLock(db, wlock).lock = db.lock \cup {wlock}
    BY <1>0 DEF WriteNewInstantSendLock, DbInvariant
  <2>3. db'.lock \subseteq db.lock \cup {wlock}
    BY <2>1, <2>2
  <2> SUFFICES ASSUME NEW l \in db'.lock \ missed', NEW c \in ActiveConflicts(l)'
               PROVE  wlock' = l
    BY <2>1 DEF ConflictsInHand
  <2>4. l \in db.lock => c \in ActiveConflicts(l)
    BY <2>1, ChainShrinks
  <2> QED
    BY <2>1, <2>3, <2>4 DEF ConflictsInHand
<1>4. CASE WriteInstantSendLockMined \/ Untrack
  <2>1. /\ UNCHANGED <<tip, wlock, missed>> /\ wpc \in {"mined", "untrack"} /\ wpc' \in {"untrack", "resolve"}
        /\ db' = db \/ db' = [db EXCEPT !.mined = @ \cup {<<Height[wtx.block], wlock>>}]
    BY <1>4 DEF WriteInstantSendLockMined, Untrack, chain, history
  <2>2. db'.lock = db.lock
    BY <1>0, <2>1 DEF DbInvariant
  <2> SUFFICES ASSUME NEW l \in db'.lock \ missed', NEW c \in ActiveConflicts(l)'
               PROVE  wlock' = l
    BY <2>1 DEF ConflictsInHand
  <2>3. c \in ActiveConflicts(l)
    BY <2>1, ChainShrinks
  <2> QED
    BY <2>1, <2>2, <2>3 DEF ConflictsInHand
<1>5. CASE ResolveBlockConflicts
  <2>1. PICK found : found = TrackedConflicts(wlock)
    OBVIOUS
  <2>2. PICK has \in BOOLEAN : has = \E c \in found : HasChainLock(c[1])
    BY Zenon
  <2>3. /\ wpc = "resolve" /\ UNCHANGED <<tip, wlock>>
        /\ db' = IF has THEN RemoveConflictingLock(db, {wlock}) ELSE db
        /\ conflicts' = IF has THEN {} ELSE found
        /\ missed' = IF ActiveConflicts(wlock) \subseteq found THEN missed ELSE missed \cup {wlock}
    BY <1>5, <2>1, <2>2, Zenon DEF ResolveBlockConflicts, chain
  <2>4. conflicts' # {} => wpc' \in {"reset", "invalidate"}
    BY <1>5 DEF ResolveBlockConflicts
  <2>5. RemoveConflictingLock(db, {wlock}).lock \subseteq db.lock \ {wlock}
    BY <1>0, RemoveConflictingKeeps
  <2> SUFFICES ASSUME NEW l \in db'.lock \ missed', NEW c \in ActiveConflicts(l)'
               PROVE  wlock' = l /\ wpc' \in {"reset", "invalidate"} /\ c \in conflicts'
    BY Zenon DEF ConflictsInHand
  <2>6. c \in ActiveConflicts(l) /\ l \in db.lock \ missed
    BY <2>3, <2>5, ChainShrinks
  <2>7. l = wlock
    BY <2>6 DEF ConflictsInHand
  <2>8. has = FALSE /\ ActiveConflicts(wlock) \subseteq found
    BY <2>3, <2>5, <2>7
  <2> QED
    BY <2>3, <2>4, <2>6, <2>7, <2>8
<1>6. CASE EndInvalidate
  <2>1. /\ UNCHANGED <<tip, wlock, missed, db>> /\ wblock \notin Path[tip] /\ wblock # None
        /\ conflicts' = {c \in conflicts : c[1] # wblock}
        /\ wpc' = IF conflicts' = {} THEN "mempool" ELSE wpc
    BY <1>6, Zenon DEF EndInvalidate, history
  <2>2. wpc \in {"invalidate", "reset"}
    BY <1>0, <2>1 DEF IsmanInvariant
  <2> SUFFICES ASSUME NEW l \in db'.lock \ missed', NEW c \in ActiveConflicts(l)'
               PROVE  wlock' = l /\ wpc' \in {"reset", "invalidate"} /\ c \in conflicts'
    BY Zenon DEF ConflictsInHand
  <2>3. c \in ActiveConflicts(l) /\ l \in db.lock \ missed
    BY <2>1, ChainShrinks
  <2>4. wlock = l /\ c \in conflicts
    BY <2>2, <2>3 DEF ConflictsInHand
  <2>5. c[1] \in Path[tip]
    BY <2>3 DEF ActiveConflicts
  <2>6. c \in conflicts'
    BY <2>1, <2>4, <2>5
  <2> QED
    BY <2>1, <2>2, <2>4, <2>6
<1>7. InvalidateBlock => UNCHANGED <<wpc, wlock, conflicts, missed, db>> /\ Path[tip'] \subseteq Path[tip]
  <2> SUFFICES ASSUME InvalidateBlock PROVE UNCHANGED <<wpc, wlock, conflicts, missed, db>> /\ Path[tip'] \subseteq Path[tip]
    OBVIOUS
  <2>1. UNCHANGED <<wpc, wlock, conflicts, missed, db>> /\ tip' = Parent[tip] /\ wblock # None /\ wblock \in Path[tip]
    BY Zenon DEF InvalidateBlock, SetTip, isman, history
  <2> QED
    BY <2>1, AboveGenesis
<1>8. (\E deterministic \in BOOLEAN : ProcessPendingInstantSendLocks(deterministic))
        \/ (\E c \in conflicts : BeginInvalidate(c))
          => UNCHANGED <<wpc, wlock, conflicts, missed, db, tip>>
  BY Zenon DEF ProcessPendingInstantSendLocks, BeginInvalidate, chain, history
<1>9. (\E l \in Locks : LookupTx(l)) \/ ReplaceSameTx \/ ResolveMempoolConflicts
        => wpc \in {"idle", "same", "store", "mempool"} /\ UNCHANGED tip /\ missed = missed' /\ ~ StoreLock
  BY DEF LookupTx, ReplaceSameTx, ResolveMempoolConflicts, StoreLock, chain, history
<1>10. ~ StoreLock => db'.lock \subseteq db.lock
  BY LocksShrink DEF Next
<1>11. (\E l \in Locks : LookupTx(l)) \/ ReplaceSameTx \/ ResolveMempoolConflicts => ConflictsInHand'
  BY <1>1, <1>9, <1>10
<1>12. (\E deterministic \in BOOLEAN : ProcessPendingInstantSendLocks(deterministic))
         \/ (\E c \in conflicts : BeginInvalidate(c))
          => ConflictsInHand'
  BY <1>2, <1>8
<1> QED
  BY <1>2, <1>3, <1>4, <1>5, <1>6, <1>7, <1>11, <1>12, Zenon DEF Isman

LEMMA ConflictsInHandStep ==
    ASSUME StateInvariant, ConflictsInHand, [Next]_vars
    PROVE  ConflictsInHand'
<1>1. CASE Validation
  BY <1>1, ValidationConflicts
<1>2. CASE Isman
  BY <1>2, IsmanConflicts
<1>3. CASE ~ Isman /\ UNCHANGED <<tip, isman, missed>>
  <2>1. StoreLock => Isman
    BY Zenon DEF Isman
  <2>2. UNCHANGED <<tip, missed>> /\ UNCHANGED <<wpc, wlock, conflicts>>
    BY <1>3 DEF isman
  <2> QED
    BY <1>3, <2>1, <2>2, LocksShrink, NoNewConflicts
<1>4. Scheduler \/ Restart \/ (\E l \in Locks : ReceiveLock(l)) \/ UNCHANGED vars
        => UNCHANGED <<tip, isman, missed>>
  BY SchedulerLeaves, RestLeaves, Zenon DEF chain, history
<1> QED
  BY <1>1, <1>2, <1>3, <1>4, Zenon DEF Next

\* An active conflict of a stored lock, unless it was missed, is always in the hands of isman
\* (ConnectBlock, ResolveBlockConflicts).
THEOREM ConflictsAlwaysInHand == Spec => []ConflictsInHand
<1>1. Init => ConflictsInHand
  BY DEF Init, NoLocks, ConflictsInHand
<1>2. StateInvariant /\ ConflictsInHand /\ [Next]_vars => ConflictsInHand'
  BY ConflictsInHandStep
<1> QED
  BY <1>1, <1>2, StateInvariantHolds, PTL DEF Spec

\* When nothing is in progress, no active block conflicts with a stored lock whose conflicts
\* were all tracked when it was resolved (ConnectBlock, ResolveBlockConflicts).
THEOREM ChainAlwaysRespectsLocks == Spec => []ChainRespectsLocks
<1>1. ConflictsInHand => ChainRespectsLocks
  BY Zenon DEF ConflictsInHand, ChainRespectsLocks, Quiet
<1> QED
  BY <1>1, ConflictsAlwaysInHand, PTL

-----------------------------------------------------------------------------
(* The heights under which locks are filed as mined.                       *)

\* The notifications of which the index of mined locks has yet to hear.
Unfiled == IF spc = "index" THEN Tail(queue) ELSE queue

\* isman is about to file l under h.
AboutToFile(l, h) == wpc = "mined" /\ wlock = l /\ h = Height[wtx.block]

\* Once the scheduler has handled all that concerns the transaction of l at height h, l is
\* filed there if and only if the transaction is there in the active chain.
Filed(l, h) ==
    ~ Concerned(Unfiled, Txid[l], h) =>
        /\ <<h, l>> \in db.mined => OnChain(Path[tip], Txid[l], h)
        /\ OnChain(Path[tip], Txid[l], h) => <<h, l>> \in db.mined \/ AboutToFile(l, h)

FilingInvariant ==
    /\ Tells(Unfiled, Path[tip])
    /\ \A l \in db.lock \ stale, h \in Nat : Filed(l, h)

\* The entries of the stored locks for a block.
LEMMA MinedLocksOf ==
    ASSUME DbInvariant(db), NEW b \in Blocks, NEW l \in db.lock, NEW h
    PROVE  <<h, l>> \in MinedLocks(b) <=> h = Height[b] /\ Txid[l] \in BlockTxs[b]
<1>1. l \in Locks /\ l # None /\ Txid[l] \in Txs /\ db.tx[Txid[l]] = l /\ l \notin db.keptTx
  BY LockTypes DEF DbInvariant
<1>2. \A t \in Txs : l \in GetInstantSendLockHashByTxid(t) <=> t = Txid[l]
  BY <1>1 DEF GetInstantSendLockHashByTxid, DbInvariant
<1>3. <<h, l>> \in MinedLocks(b) <=> h = Height[b] /\ \E t \in Txs \cap BlockTxs[b] : l \in GetInstantSendLockHashByTxid(t)
  BY DEF MinedLocks
<1> QED
  BY <1>1, <1>2, <1>3

\* The steps that do not touch the entries of the locks that they leave in the database.
LEMMA EntriesKept ==
    ASSUME StateInvariant, [Next]_vars, ~ WriteInstantSendLockMined, ~ WriteBlockInstantSendLocks,
           ~ BlockDisconnected
    PROVE  \A l \in db'.lock : \A h : <<h, l>> \in db'.mined <=> <<h, l>> \in db.mined
<1>0. DbInvariant(db) /\ db \in DbType
  BY DEF StateInvariant, LockInvariant, LocksOK
<1>1. CASE db'.mined = db.mined
  BY <1>1
<1>2. \A S : RemoveAndArchive(db, S).mined = db.mined
  BY <1>0 DEF RemoveAndArchive, DbInvariant
<1>3. CASE \E S : db' = RemoveConflictingLock(db, S)
  <2>1. PICK S : db' = RemoveAndArchive(db, S)
    BY <1>3, Zenon DEF RemoveConflictingLock
  <2> QED
    BY <1>2, <2>1
<1>4. ASSUME NEW height, db' = RemoveConfirmedInstantSendLocks(db, height)
      PROVE  \A l \in db'.lock : \A h : <<h, l>> \in db'.mined <=> <<h, l>> \in db.mined
  <2> DEFINE entries == {e \in db.mined : e[1] <= height}
             locks == {e[2] : e \in entries}
             a == RemoveAndArchive(db, locks)
  <2>1. db' = [a EXCEPT !.mined = db.mined \ entries,
                        !.kept = (db.kept \ locks) \cup (locks \cap db.lock),
                        !.keptTx = db.keptTx \cup (locks \cap db.lock)]
    BY <1>4 DEF RemoveConfirmedInstantSendLocks
  <2>2. DbInvariant(a) /\ a.lock = db.lock \ locks
    BY <1>0, RemoveAndArchiveKeeps
  <2>3. db'.mined = db.mined \ entries /\ db'.lock = db.lock \ locks
    <3> HIDE DEF entries, locks, a
    <3> QED
      BY <2>1, <2>2 DEF DbInvariant
  <2>4. ASSUME NEW l \in db'.lock, NEW h PROVE <<h, l>> \notin entries
    <3>1. <<h, l>> \in entries => <<h, l>>[2] \in locks
      OBVIOUS
    <3> QED
      BY <2>3, <3>1
  <2> HIDE DEF entries
  <2> QED
    BY <2>3, <2>4, Zenon
<1>5. CASE ReplaceSameTx
  <2>1. UNCHANGED db \/ \E same : db' = [RemoveAndArchive(db, same) EXCEPT !.keptTx = @ \ same]
    BY <1>5, Zenon DEF ReplaceSameTx
  <2>2. ASSUME NEW same, db' = [RemoveAndArchive(db, same) EXCEPT !.keptTx = @ \ same]
        PROVE  db'.mined = db.mined
    <3>1. PICK r : r = RemoveAndArchive(db, same)
      OBVIOUS
    <3>2. DbInvariant(r) /\ r.mined = db.mined
      BY <1>0, <1>2, <3>1, RemoveAndArchiveKeeps
    <3>3. db'.mined = r.mined
      BY <2>2, <3>1, <3>2 DEF DbInvariant
    <3> QED
      BY <3>2, <3>3
  <2> QED
    BY <1>1, <2>1, <2>2, Zenon
<1>6. CASE StoreLock
  <2>1. UNCHANGED db \/ db' = WriteNewInstantSendLock(db, wlock)
    BY <1>6, Zenon DEF StoreLock
  <2>2. WriteNewInstantSendLock(db, wlock).mined = db.mined
    BY <1>0 DEF WriteNewInstantSendLock, DbInvariant
  <2> QED
    BY <1>1, <2>1, <2>2, Zenon
<1>7. CASE Restart
  <2>1. db' = [db EXCEPT !.kept = {}, !.keptTx = {}]
    BY <1>7, Zenon DEF Restart
  <2> QED
    BY <1>0, <1>1, <2>1 DEF DbInvariant
<1>8. ResolveBlockConflicts \/ TransactionRemoved
        => UNCHANGED db \/ \E S : db' = RemoveConflictingLock(db, S)
  BY Zenon DEF ResolveBlockConflicts, TransactionRemoved
<1>9. HandleFullyConfirmedBlock => UNCHANGED db \/ \E h : db' = RemoveConfirmedInstantSendLocks(db, h)
  BY Zenon DEF HandleFullyConfirmedBlock
<1>10. \A b : ActivateBestChain(b) => \E S : db' = RemoveConflictingLock(db, S)
  BY Zenon DEF ActivateBestChain
<1>11. UNCHANGED db => db'.mined = db.mined
  OBVIOUS
<1> QED
  BY <1>1, <1>3, <1>4, <1>5, <1>6, <1>7, <1>8, <1>9, <1>10, <1>11, DbChanges, Zenon

\* The steps of the other parties, and what they queue.
LEMMA OthersUnfiled ==
    ASSUME StateInvariant, Tells(Unfiled, Path[tip]), ChainStep, UNCHANGED sched
    PROVE  /\ Tells(Unfiled', Path[tip'])
           /\ \A t \in Txs, h \in Nat : ~ Concerned(Unfiled', t, h) =>
                ~ Concerned(Unfiled, t, h) /\ (OnChain(Path[tip'], t, h) <=> OnChain(Path[tip], t, h))
<1>0. SchedulerOK /\ tip \in Blocks
  BY DEF StateInvariant, ChainOK
<1>1. PICK q, old, new : /\ News(q, old, new) /\ queue' = queue \o q /\ old \subseteq Path[tip]
                         /\ Path[tip'] = (Path[tip] \ old) \cup new
  BY Zenon DEF ChainStep
<1>2. q \in Seq(Notifications) /\ queue \in Seq(Notifications)
  BY <1>0, <1>1 DEF News, SchedulerOK
<1>3. PICK u : u = Unfiled
  OBVIOUS
<1>4. u \in Seq(Notifications) /\ Unfiled' = u \o q
  <2>1. spc' = spc
    BY DEF sched
  <2>2. CASE spc = "index"
    <3>1. queue # <<>>
      BY <1>0, <2>2 DEF SchedulerOK
    <3>2. u = Tail(queue) /\ Unfiled' = Tail(queue')
      BY <1>3, <2>1, <2>2 DEF Unfiled
    <3>3. Tail(queue \o q) = Tail(queue) \o q
      BY <1>2, <3>1, TailOfConcat
    <3> QED
      BY <1>1, <1>2, <3>1, <3>2, <3>3, TailType
  <2>3. CASE spc # "index"
    <3>1. u = queue /\ Unfiled' = queue'
      BY <1>3, <2>1, <2>3 DEF Unfiled
    <3> QED
      BY <1>1, <1>2, <3>1
  <2> QED
    BY <2>2, <2>3
<1>5. \A c, d \in Path[tip] : c # d => Height[c] # Height[d]
  BY <1>0, BlockTree
<1> DEFINE Q == (Path[tip] \ old) \cup new
<1>6. /\ Tells(u \o q, Q)
      /\ \A t \in Txs, h \in Nat : ~ Concerned(u \o q, t, h) =>
           ~ Concerned(u, t, h) /\ (OnChain(Q, t, h) <=> OnChain(Path[tip], t, h))
  BY <1>1, <1>3, <1>4, <1>5, TellsAppend, Zenon
<1> QED
  BY <1>1, <1>3, <1>4, <1>6, Zenon

\* A lock is filed after a step as it was before.
LEMMA StaysFiled ==
    ASSUME NEW l \in Locks, NEW h \in Nat, Filed(l, h),
           ~ Concerned(Unfiled', Txid[l], h) =>
                /\ ~ Concerned(Unfiled, Txid[l], h)
                /\ OnChain(Path[tip'], Txid[l], h) <=> OnChain(Path[tip], Txid[l], h),
           <<h, l>> \in db'.mined <=> <<h, l>> \in db.mined,
           AboutToFile(l, h) => AboutToFile(l, h)'
    PROVE  Filed(l, h)'
BY Zenon DEF Filed

\* A chain has a transaction in one block.
LEMMA BlockOfTx ==
    ASSUME tip \in Blocks, NEW t \in Txs, NEW b \in Path[tip], t \in BlockTxs[b]
    PROVE  Whereabouts(t).block = b
<1>1. \A c \in Path[tip] : t \in BlockTxs[c] => c = b
  BY BlockTree
<1>2. t \in TxsOf(Path[tip])
  BY DEF TxsOf
<1>3. b = CHOOSE c \in Path[tip] : t \in BlockTxs[c]
  BY <1>1
<1> QED
  BY <1>2, <1>3, Zenon DEF Whereabouts

LEMMA WhereaboutsInChain ==
    ASSUME tip \in Blocks, NEW t \in Txs, Whereabouts(t).block # None
    PROVE  Whereabouts(t).block \in Path[tip] /\ t \in BlockTxs[Whereabouts(t).block]
<1>1. t \in TxsOf(Path[tip])
  BY DEF Whereabouts
<1>2. PICK b \in Path[tip] : t \in BlockTxs[b]
  BY <1>1 DEF TxsOf
<1> QED
  BY <1>2, BlockOfTx

\* isman stores the lock of a transaction whose whereabouts it knows,
LEMMA StoreLockFiles ==
    ASSUME StateInvariant, FilingInvariant, StoreLock,
           NEW l \in db'.lock \ stale', NEW h \in Nat
    PROVE  Filed(l, h)'
<1>0. DbInvariant(db) /\ IsmanInvariant /\ tip \in Blocks /\ wlock \in Locks
  BY Zenon DEF StateInvariant, LockInvariant, ChainOK, IsmanOK, StoreLock
<1>1. /\ UNCHANGED <<tip, queue, spc, wlock, wtx>> /\ wpc = "store" /\ stale' = stale \cup Outdated
      /\ wpc' = IF wtx.block # None THEN "mined" ELSE "untrack"
      /\ UNCHANGED db \/ db' = WriteNewInstantSendLock(db, wlock)
  BY Zenon DEF StoreLock, chain, sched
<1>2. /\ WriteNewInstantSendLock(db, wlock).lock = db.lock \cup {wlock}
      /\ WriteNewInstantSendLock(db, wlock).mined = db.mined
  BY <1>0 DEF WriteNewInstantSendLock, DbInvariant
<1>3. db'.mined = db.mined /\ db'.lock \subseteq db.lock \cup {wlock}
  BY <1>1, <1>2
<1>4. Unfiled' = Unfiled /\ tip' = tip
  BY <1>1 DEF Unfiled
<1>5. CASE l \in db.lock
  <2>1. Filed(l, h) /\ l \in Locks
    BY <1>0, <1>1, <1>5, Zenon DEF FilingInvariant, DbInvariant
  <2>2. ~ AboutToFile(l, h)
    BY <1>1 DEF AboutToFile
  <2> QED
    BY <1>3, <1>4, <2>1, <2>2, StaysFiled, Zenon
<1>6. CASE l = wlock
  <2>1. <<h, l>> \notin db'.mined
    <3>1. l \notin db.lock \cup db.archived
      BY <1>0, <1>1, <1>6 DEF IsmanInvariant
    <3>2. <<h, l>>[2] = l
      OBVIOUS
    <3> QED
      BY <1>0, <1>3, <3>1, <3>2 DEF DbInvariant
  <2>2. wtx = Whereabouts(Txid[l])
    BY <1>1, <1>6 DEF Outdated
  <2>3. ASSUME OnChain(Path[tip], Txid[l], h) PROVE AboutToFile(l, h)'
    <3>1. PICK b \in Path[tip] : Height[b] = h /\ Txid[l] \in BlockTxs[b]
      BY <2>3 DEF OnChain
    <3>2. wtx.block = b /\ b # None
      BY <1>0, <1>6, <2>2, <3>1, BlockOfTx, LockTypes, BlockTypes
    <3> QED
      BY <1>1, <1>6, <3>1, <3>2 DEF AboutToFile
  <2> QED
    BY <1>4, <2>1, <2>3 DEF Filed
<1> QED
  BY <1>3, <1>5, <1>6

\* and files it if the transaction is in a block.
LEMMA WriteMinedFiles ==
    ASSUME StateInvariant, FilingInvariant, WriteInstantSendLockMined,
           NEW l \in db'.lock \ stale', NEW h \in Nat
    PROVE  Filed(l, h)'
<1>0. DbInvariant(db) /\ IsmanInvariant /\ tip \in Blocks /\ wlock \in Locks
  BY DEF StateInvariant, LockInvariant, ChainOK, IsmanOK, WriteInstantSendLockMined
<1>1. /\ UNCHANGED <<tip, queue, spc, wlock, wtx>> /\ wpc = "mined" /\ stale' = stale \cup Outdated
      /\ db' = [db EXCEPT !.mined = @ \cup {<<Height[wtx.block], wlock>>}]
  BY Zenon DEF WriteInstantSendLockMined, chain, sched
<1>2. db'.mined = db.mined \cup {<<Height[wtx.block], wlock>>} /\ db'.lock = db.lock
  BY <1>0, <1>1 DEF DbInvariant
<1>3. Unfiled' = Unfiled /\ tip' = tip
  BY <1>1 DEF Unfiled
<1>4. Filed(l, h) /\ l \in Locks
  BY <1>0, <1>1, <1>2 DEF FilingInvariant, DbInvariant
<1>5. CASE ~ AboutToFile(l, h)
  <2>1. <<h, l>> # <<Height[wtx.block], wlock>>
    BY <1>1, <1>5 DEF AboutToFile
  <2> QED
    BY <1>2, <1>3, <1>4, <1>5, <2>1, StaysFiled, Zenon
<1>6. CASE AboutToFile(l, h)
  <2>1. l = wlock /\ h = Height[wtx.block]
    BY <1>6 DEF AboutToFile
  <2>2. wtx = Whereabouts(Txid[l]) /\ wtx.block # None
    BY <1>0, <1>1, <2>1 DEF Outdated, IsmanInvariant
  <2>3. wtx.block \in Path[tip] /\ Txid[l] \in BlockTxs[wtx.block]
    BY <1>0, <2>1, <2>2, WhereaboutsInChain, LockTypes
  <2>4. OnChain(Path[tip], Txid[l], h)
    BY <2>1, <2>3 DEF OnChain
  <2> QED
    BY <1>2, <1>3, <2>1, <2>4 DEF Filed
<1> QED
  BY <1>5, <1>6

\* The steps of all parties but the scheduler.
LEMMA OthersFile ==
    ASSUME StateInvariant, FilingInvariant, [Next]_vars, ~ Scheduler
    PROVE  FilingInvariant'
<1>1. ChainStep /\ UNCHANGED sched
  BY OthersChain
<1>2. /\ Tells(Unfiled', Path[tip'])
      /\ \A t \in Txs, h \in Nat : ~ Concerned(Unfiled', t, h) =>
           ~ Concerned(Unfiled, t, h) /\ (OnChain(Path[tip'], t, h) <=> OnChain(Path[tip], t, h))
  BY <1>1, OthersUnfiled, Zenon DEF FilingInvariant
<1> SUFFICES ASSUME NEW l \in db'.lock \ stale', NEW h \in Nat
             PROVE  Filed(l, h)'
  BY <1>2, Zenon DEF FilingInvariant
<1>3. CASE StoreLock
  BY <1>3, StoreLockFiles
<1>4. CASE WriteInstantSendLockMined
  BY <1>4, WriteMinedFiles
<1>5. CASE ~ StoreLock /\ ~ WriteInstantSendLockMined
  <2>1. l \in db.lock
    BY <1>5, LocksShrink
  <2>2. l \in Locks /\ Txid[l] \in Txs
    BY <2>1, LockTypes DEF StateInvariant, LockInvariant, DbInvariant
  <2>3. stale \subseteq stale' /\ (wpc # "mined" \/ UNCHANGED <<wpc, wlock, wtx>>)
    <3>1. Isman => UNCHANGED stale /\ (wpc # "mined" \/ UNCHANGED <<wpc, wlock, wtx>>)
      <4>1. CASE UNCHANGED stale /\ UNCHANGED <<wpc, wlock, wtx>>
        BY <4>1
      <4>2. (\E deterministic \in BOOLEAN : ProcessPendingInstantSendLocks(deterministic))
              \/ (\E c \in conflicts : BeginInvalidate(c)) \/ InvalidateBlock
                => UNCHANGED stale /\ UNCHANGED <<wpc, wlock, wtx>>
        BY Zenon DEF ProcessPendingInstantSendLocks, BeginInvalidate, InvalidateBlock, isman, history
      <4>3. (\E k \in Locks : LookupTx(k)) \/ ReplaceSameTx \/ Untrack \/ ResolveBlockConflicts
              \/ ResolveMempoolConflicts => UNCHANGED stale /\ wpc # "mined"
        BY DEF LookupTx, ReplaceSameTx, Untrack, ResolveBlockConflicts, ResolveMempoolConflicts, history
      <4>4. EndInvalidate => UNCHANGED stale /\ wpc # "mined"
        <5>1. EndInvalidate => UNCHANGED stale /\ wblock # None
          BY Zenon DEF EndInvalidate, history
        <5> QED
          BY <5>1 DEF StateInvariant, LockInvariant, IsmanInvariant
      <4> QED
        BY <1>5, <4>1, <4>2, <4>3, <4>4, Zenon DEF Isman
    <3>2. Validation \/ Restart \/ (\E k \in Locks : ReceiveLock(k)) \/ UNCHANGED vars
            => UNCHANGED stale /\ UNCHANGED <<wpc, wlock, wtx>>
      BY ValidationLeaves, RestLeaves, Zenon DEF isman, history
    <3> QED
      BY <3>1, <3>2, Zenon DEF Next
  <2>4. Filed(l, h)
    BY <2>1, <2>3 DEF FilingInvariant
  <2>5. ~ WriteBlockInstantSendLocks /\ ~ BlockDisconnected
    BY Zenon DEF Scheduler
  <2>6. <<h, l>> \in db'.mined <=> <<h, l>> \in db.mined
    BY <1>5, <2>5, EntriesKept
  <2>7. AboutToFile(l, h) => AboutToFile(l, h)'
    BY <2>3 DEF AboutToFile
  <2> QED
    BY <1>2, <2>2, <2>4, <2>6, <2>7, StaysFiled, Zenon
<1> QED
  BY <1>3, <1>4, <1>5

\* The event at the head of the queue.
LEMMA UnfiledTail ==
    ASSUME StateInvariant, FilingInvariant, queue # <<>>, spc # "index"
    PROVE  /\ Tells(Tail(queue), Path[tip])
           /\ \A t \in Txs, h \in Nat :
                /\ Concerned(Unfiled, t, h) <=> BlockEvent(Event, t, h) \/ Concerned(Tail(queue), t, h)
                /\ BlockEvent(Event, t, h) /\ ~ Concerned(Tail(queue), t, h)
                     => (OnChain(Path[tip], t, h) <=> Event.kind = "connected")
<1>1. queue \in Seq(Notifications) /\ Unfiled = queue /\ Tells(queue, Path[tip])
  BY Zenon DEF StateInvariant, SchedulerOK, Unfiled, FilingInvariant
<1> QED
  BY <1>1, TellsTail DEF Event

\* An event that is not about a block is handled.
LEMMA OtherEventHandled ==
    ASSUME StateInvariant, FilingInvariant, queue # <<>>, spc # "index", spc' # "index",
           Event.kind \notin {"connected", "disconnected"}, UNCHANGED tip,
           NEW r, NoBlocks(r), queue' = Tail(queue) \/ queue' = Tail(queue) \o r
    PROVE  /\ Tells(Unfiled', Path[tip'])
           /\ \A t \in Txs, h \in Nat : ~ Concerned(Unfiled', t, h) => ~ Concerned(Unfiled, t, h)
<1>1. Unfiled' = queue' /\ tip' = tip
  BY DEF Unfiled
<1>2. PICK u : u = Tail(queue)
  BY Zenon
<1>3. u \in Seq(Notifications)
  BY <1>2, TailType DEF StateInvariant, SchedulerOK
<1>4. \A t, h : ~ BlockEvent(Event, t, h)
  BY DEF BlockEvent
<1>5. Tells(u, Path[tip]) /\ \A t \in Txs, h \in Nat : Concerned(Unfiled, t, h) <=> Concerned(u, t, h)
  BY <1>2, <1>4, UnfiledTail
<1>6. CASE queue' = u
  BY <1>1, <1>5, <1>6
<1>7. CASE queue' = u \o r
  <2>1. PICK P : P = Path[tip]
    OBVIOUS
  <2>2. \A c, d \in P : c # d => Height[c] # Height[d]
    BY <2>1, BlockTree DEF StateInvariant, ChainOK
  <2>3. News(r, {}, {}) /\ {} \subseteq P /\ (P \ {}) \cup {} = P
    BY NoNewsOfBlocks
  <2>4. /\ Tells(u \o r, P)
        /\ \A t \in Txs, h \in Nat : ~ Concerned(u \o r, t, h) => ~ Concerned(u, t, h)
    <3>1. PICK none : none = {}
      BY Zenon
    <3>2. /\ Tells(u \o r, (P \ none) \cup none)
          /\ \A t \in Txs, h \in Nat : ~ Concerned(u \o r, t, h) => ~ Concerned(u, t, h)
      BY <1>3, <1>5, <2>1, <2>2, <2>3, <3>1, TellsAppend, Zenon
    <3> QED
      BY <2>3, <3>1, <3>2
  <2> QED
    BY <1>1, <1>5, <1>7, <2>1, <2>4
<1> QED
  BY <1>2, <1>6, <1>7

\* The scheduler files the locks of a block that was connected,
LEMMA ConnectedFiles ==
    ASSUME StateInvariant, FilingInvariant, WriteBlockInstantSendLocks
    PROVE  FilingInvariant'
<1>1. /\ spc = "block" /\ spc' = "index" /\ db' = [db EXCEPT !.mined = @ \cup MinedLocks(Event.block)]
      /\ UNCHANGED <<tip, queue, stale, wpc, wlock, wtx>>
  BY Zenon DEF WriteBlockInstantSendLocks, chain, isman, history
<1>2. queue # <<>> /\ Event.kind = "connected" /\ Event.block \in Blocks /\ DbInvariant(db)
  BY <1>1, EventType DEF StateInvariant, SchedulerOK, LockInvariant
<1>3. db'.lock = db.lock /\ db'.mined = db.mined \cup MinedLocks(Event.block)
  BY <1>1, <1>2 DEF DbInvariant
<1>4. Unfiled' = Tail(queue) /\ tip' = tip
  BY <1>1 DEF Unfiled
<1>5. Tells(Unfiled', Path[tip'])
  BY <1>1, <1>2, <1>4, UnfiledTail
<1> SUFFICES ASSUME NEW l \in db.lock \ stale, NEW h \in Nat, ~ Concerned(Tail(queue), Txid[l], h)
             PROVE  /\ <<h, l>> \in db'.mined => OnChain(Path[tip], Txid[l], h)
                    /\ OnChain(Path[tip], Txid[l], h) => <<h, l>> \in db'.mined \/ AboutToFile(l, h)
  <2>1. \A l \in db'.lock \ stale', h \in Nat : Filed(l, h)'
    BY <1>1, <1>3, <1>4 DEF Filed, AboutToFile
  <2> QED
    BY <1>5, <2>1, Zenon DEF FilingInvariant
<1>6. Txid[l] \in Txs
  BY <1>2, LockTypes, Zenon DEF DbInvariant
<1>7. <<h, l>> \in MinedLocks(Event.block) <=> BlockEvent(Event, Txid[l], h)
  BY <1>2, MinedLocksOf, Zenon DEF BlockEvent
<1>8. CASE BlockEvent(Event, Txid[l], h)
  BY <1>1, <1>2, <1>3, <1>6, <1>7, <1>8, UnfiledTail
<1>9. CASE ~ BlockEvent(Event, Txid[l], h)
  <2>1. ~ Concerned(Unfiled, Txid[l], h)
    BY <1>1, <1>2, <1>6, <1>9, UnfiledTail
  <2>2. Filed(l, h)
    BY DEF FilingInvariant
  <2> QED
    BY <1>3, <1>7, <1>9, <2>1, <2>2, Zenon DEF Filed
<1> QED
  BY <1>8, <1>9, Zenon

\* and removes the entries for one that was disconnected.
LEMMA DisconnectedFiles ==
    ASSUME StateInvariant, FilingInvariant, BlockDisconnected
    PROVE  FilingInvariant'
<1>1. /\ spc = "idle" /\ spc' = spc /\ db' = [db EXCEPT !.mined = @ \ MinedLocks(Event.block)]
      /\ queue # <<>> /\ Event.kind = "disconnected" /\ queue' = Tail(queue)
      /\ UNCHANGED <<tip, stale, wpc, wlock, wtx>>
  BY Zenon DEF BlockDisconnected, Notified, Event, Handled, chain, isman, history, sched
<1>2. Event.block \in Blocks /\ DbInvariant(db)
  BY <1>1, EventType DEF StateInvariant, LockInvariant
<1>3. db'.lock = db.lock /\ db'.mined = db.mined \ MinedLocks(Event.block)
  BY <1>1, <1>2 DEF DbInvariant
<1>4. Unfiled' = Tail(queue) /\ tip' = tip
  BY <1>1 DEF Unfiled
<1>5. Tells(Unfiled', Path[tip'])
  BY <1>1, <1>4, UnfiledTail
<1> SUFFICES ASSUME NEW l \in db.lock \ stale, NEW h \in Nat, ~ Concerned(Tail(queue), Txid[l], h)
             PROVE  /\ <<h, l>> \in db'.mined => OnChain(Path[tip], Txid[l], h)
                    /\ OnChain(Path[tip], Txid[l], h) => <<h, l>> \in db'.mined \/ AboutToFile(l, h)
  <2>1. \A l \in db'.lock \ stale', h \in Nat : Filed(l, h)'
    BY <1>1, <1>3, <1>4 DEF Filed, AboutToFile
  <2> QED
    BY <1>5, <2>1, Zenon DEF FilingInvariant
<1>6. Txid[l] \in Txs
  BY <1>2, LockTypes, Zenon DEF DbInvariant
<1>7. <<h, l>> \in MinedLocks(Event.block) <=> BlockEvent(Event, Txid[l], h)
  BY <1>1, <1>2, MinedLocksOf DEF BlockEvent
<1>8. CASE BlockEvent(Event, Txid[l], h)
  BY <1>1, <1>3, <1>6, <1>7, <1>8, UnfiledTail
<1>9. CASE ~ BlockEvent(Event, Txid[l], h)
  <2>1. ~ Concerned(Unfiled, Txid[l], h)
    BY <1>1, <1>6, <1>9, UnfiledTail
  <2>2. Filed(l, h)
    BY DEF FilingInvariant
  <2> QED
    BY <1>3, <1>7, <1>9, <2>1, <2>2, Zenon DEF Filed
<1> QED
  BY <1>8, <1>9, Zenon

\* Its other steps.
LEMMA SchedulerFiles ==
    ASSUME StateInvariant, FilingInvariant, Scheduler
    PROVE  FilingInvariant'
<1>0. UNCHANGED <<tip, stale, wpc, wlock, wtx>>
  BY SchedulerLeaves, Zenon DEF chain, isman, history
<1>1. CASE WriteBlockInstantSendLocks
  BY <1>1, ConnectedFiles
<1>2. CASE BlockDisconnected
  BY <1>2, DisconnectedFiles
<1>3. ASSUME ~ WriteBlockInstantSendLocks, ~ BlockDisconnected,
             Tells(Unfiled', Path[tip']),
             \A t \in Txs, h \in Nat : ~ Concerned(Unfiled', t, h) => ~ Concerned(Unfiled, t, h)
      PROVE  FilingInvariant'
  <2> SUFFICES ASSUME NEW l \in db'.lock \ stale', NEW h \in Nat
               PROVE  Filed(l, h)'
    BY <1>3, Zenon DEF FilingInvariant
  <2>1. ~ StoreLock /\ ~ WriteInstantSendLockMined
    BY <1>0 DEF StoreLock, WriteInstantSendLockMined
  <2>2. l \in db.lock \ stale /\ Filed(l, h)
    BY <1>0, <2>1, LocksShrink, Zenon DEF Next, FilingInvariant
  <2>3. l \in Locks /\ Txid[l] \in Txs
    BY <2>2, LockTypes DEF StateInvariant, LockInvariant, DbInvariant
  <2>4. <<h, l>> \in db'.mined <=> <<h, l>> \in db.mined
    BY <1>3, <2>1, EntriesKept, Zenon DEF Next
  <2>5. AboutToFile(l, h) => AboutToFile(l, h)'
    BY <1>0 DEF AboutToFile
  <2> QED
    BY <1>0, <1>3, <2>2, <2>3, <2>4, <2>5, StaysFiled, Zenon
<1>4. CASE Unfiled' = Unfiled
  BY <1>0, <1>1, <1>2, <1>3, <1>4, Zenon DEF FilingInvariant
<1>5. CASE TransactionAdded \/ BlockConnected \/ (\E t \in todo : CheckTx(t)) \/ TrackTx
  <2>1. queue' = queue /\ spc # "index" /\ spc' # "index"
    BY <1>5, Zenon DEF TransactionAdded, BlockConnected, CheckTx, TrackTx, Notified
  <2> QED
    BY <1>4, <2>1 DEF Unfiled
<1>6. CASE WriteTxIndex
  <2>1. queue' = Tail(queue) /\ spc = "index" /\ spc' = "idle"
    BY <1>6, Zenon DEF WriteTxIndex, Handled
  <2> QED
    BY <1>4, <2>1 DEF Unfiled
<1>7. ASSUME queue # <<>>, spc # "index", spc' # "index", Event.kind \notin {"connected", "disconnected"},
             NEW r, NoBlocks(r), queue' = Tail(queue) \/ queue' = Tail(queue) \o r
      PROVE  FilingInvariant'
  <2>1. /\ Tells(Unfiled', Path[tip'])
        /\ \A t \in Txs, h \in Nat : ~ Concerned(Unfiled', t, h) => ~ Concerned(Unfiled, t, h)
    BY <1>0, <1>7, OtherEventHandled
  <2> QED
    BY <1>1, <1>2, <1>3, <2>1
<1>8. CASE AddedWithoutLock \/ TransactionRemoved \/ HandleFullyConfirmedBlock
  <2>1. \E r : NoBlocks(r)
    BY EachHasNoBlocks
  <2>2. queue' = Tail(queue) /\ spc' # "index" /\ spc # "index"
        /\ (spc = "add" \/ (queue # <<>> /\ Event.kind \in {"removed", "chainlock"}))
    BY <1>8, Zenon DEF AddedWithoutLock, TransactionRemoved, HandleFullyConfirmedBlock, Handled, Notified, Event, sched
  <2>3. queue # <<>> /\ Event.kind \in {"added", "removed", "chainlock"}
    BY <2>2 DEF StateInvariant, SchedulerOK
  <2> QED
    BY <1>7, <2>1, <2>2, <2>3
<1>9. CASE AddedWithLock
  <2>1. spc = "mempool" /\ spc' = "idle"
    BY <1>9, Zenon DEF AddedWithLock
  <2>2. queue # <<>> /\ Event.kind = "added" /\ mempool \subseteq Txs
    BY <2>1, Zenon DEF StateInvariant, SchedulerOK, LockInvariant, PoolInvariant
  <2>3. PICK r : NoBlocks(r) /\ queue' = Tail(queue) \o r
    BY <1>9, <2>2, RemovesConflicts, Zenon DEF AddedWithLock
  <2> QED
    BY <1>7, <2>1, <2>2, <2>3
<1> QED
  BY <1>1, <1>2, <1>5, <1>6, <1>8, <1>9, Zenon DEF Scheduler

\* Every stored lock is always filed as the chain and the notifications still to be handled
\* say, unless it was stored on outdated news (WriteBlockInstantSendLocks,
\* RemoveBlockInstantSendLocks, WriteInstantSendLockMined).
THEOREM FilingInvariantHolds == Spec => []FilingInvariant
<1>1. Init => FilingInvariant
  <2> SUFFICES ASSUME Init PROVE FilingInvariant
    OBVIOUS
  <2>1. PICK u : u = Unfiled
    OBVIOUS
  <2>2. u = <<>> /\ db.lock = {}
    BY <2>1 DEF Init, Unfiled, NoLocks
  <2>3. DOMAIN u = {}
    BY <2>2, EmptySeq, LenProperties
  <2> QED
    BY <2>1, <2>2, <2>3 DEF FilingInvariant, Tells
<1>2. StateInvariant /\ FilingInvariant /\ [Next]_vars => FilingInvariant'
  BY OthersFile, SchedulerFiles
<1> QED
  BY <1>1, <1>2, StateInvariantHolds, PTL DEF Spec

\* When nothing is in progress, a stored lock is filed under the height of the block its
\* transaction is in, and under no other, unless it was stored on outdated news
\* (WriteBlockInstantSendLocks, RemoveBlockInstantSendLocks, WriteInstantSendLockMined).
THEOREM MinedHeightsAlwaysRight == Spec => []MinedHeightsRight
<1>1. StateInvariant /\ FilingInvariant => MinedHeightsRight
  <2> SUFFICES ASSUME StateInvariant, FilingInvariant, Quiet, NEW l \in db.lock \ stale
               PROVE  {e[1] : e \in {f \in db.mined : f[2] = l}}
                        = {Height[b] : b \in {c \in Path[tip] : Txid[l] \in BlockTxs[c]}}
    BY DEF MinedHeightsRight
  <2>1. tip \in Blocks /\ db.mined \subseteq Nat \X Locks
    BY DEF StateInvariant, ChainOK, LocksOK, DbType
  <2>2. \A h : ~ Concerned(Unfiled, Txid[l], h)
    <3>1. PICK u : u = Unfiled
      OBVIOUS
    <3>2. u = <<>>
      BY <3>1 DEF Quiet, Unfiled
    <3>3. DOMAIN u = {}
      BY <3>2, EmptySeq, LenProperties
    <3> QED
      BY <3>1, <3>3, Zenon DEF Concerned
  <2>3. \A h \in Nat : <<h, l>> \in db.mined <=> \E b \in Path[tip] : Height[b] = h /\ Txid[l] \in BlockTxs[b]
    BY <2>2, Zenon DEF FilingInvariant, Filed, AboutToFile, Quiet, OnChain
  <2>4. \A b \in Path[tip] : Height[b] \in Nat
    BY <2>1, BlockTypes
  <2>5. \A h : h \in {e[1] : e \in {f \in db.mined : f[2] = l}} <=> h \in Nat /\ <<h, l>> \in db.mined
    BY <2>1
  <2> QED
    BY <2>3, <2>4, <2>5, Zenon
<1> QED
  BY <1>1, StateInvariantHolds, FilingInvariantHolds, PTL

-----------------------------------------------------------------------------
(* The locks that wait for their transactions.                             *)

\* A notification from which the scheduler has yet to learn of t.
HeadToDo(t) ==
    \/ spc \in {"idle", "add"}
    \/ spc \in {"block", "track"} /\ t \in todo
    \/ spc = "track" /\ t = cur
EventAhead(t) == \E i \in DOMAIN queue : Handles(queue[i], t) /\ (i = 1 => HeadToDo(t))

\* A lock of t that is not decided on, or stored; a block with t that a chain lock covers.
InProcess(t) ==
    \E l \in Locks : Txid[l] = t /\ (l \in pending \cup batch \/ (wpc \in {"same", "store"} /\ wlock = l))
Stored(t) == \E l \in db.lock : Txid[l] = t
InLockedBlock(t) == \E b \in Blocks : t \in BlockTxs[b] /\ HasChainLock(b)

Fresh(t) == \A l \in stale \cup db.archived : Txid[l] # t
Served(t) == EventAhead(t) \/ InProcess(t) \/ Stored(t) \/ InLockedBlock(t)

\* While a lock waits for a transaction that is there, something is done about it.
WaitInvariant ==
    /\ \A t \in Txs : txindex[t] # None => t \in BlockTxs[txindex[t]]
    /\ chainlock # None => chainlock \in world.chainlocks
    /\ \A t \in Txs : Fresh(t) /\ IsWaitingForTx(t) /\ Known(t) => Served(t)

\* What is outdated or archived stays so.
LEMMA FreshBefore ==
    ASSUME StateInvariant, [Next]_vars, NEW t, Fresh(t)'
    PROVE  Fresh(t)
<1>1. db.archived \subseteq db'.archived
  BY LockInvariantStep DEF StateInvariant
<1>2. stale \subseteq stale'
  <2>1. Validation \/ Scheduler \/ Restart \/ (\E l \in Locks : ReceiveLock(l)) \/ UNCHANGED vars
          => UNCHANGED stale
    BY ValidationLeaves, SchedulerLeaves, RestLeaves, Zenon DEF history
  <2>2. Isman => UNCHANGED stale \/ stale' = stale \cup Outdated
    BY Zenon DEF Isman, ProcessPendingInstantSendLocks, LookupTx, ReplaceSameTx, StoreLock,
                 WriteInstantSendLockMined, Untrack, ResolveBlockConflicts, BeginInvalidate,
                 InvalidateBlock, EndInvalidate, ResolveMempoolConflicts, history
  <2>3. Isman => stale \subseteq stale'
    BY <2>2
  <2> QED
    BY <2>1, <2>3 DEF Next
<1> QED
  BY <1>1, <1>2 DEF Fresh

\* A stored lock of a transaction without archived ones stays.
LEMMA StaysStored ==
    ASSUME StateInvariant, [Next]_vars, NEW t, Fresh(t)', Stored(t)
    PROVE  Stored(t)'
<1>1. db.lock \subseteq db'.lock \cup db'.archived
  <2>1. CASE StoreLock
    <3>1. UNCHANGED db \/ db' = WriteNewInstantSendLock(db, wlock)
      BY <2>1, Zenon DEF StoreLock
    <3>2. db \in DbType
      BY DEF StateInvariant, LocksOK
    <3>3. WriteNewInstantSendLock(db, wlock).lock = db.lock \cup {wlock}
      BY <3>2 DEF WriteNewInstantSendLock, DbType
    <3> QED
      BY <3>1, <3>3
  <2> QED
    BY <2>1, LocksShrink
<1> QED
  BY <1>1 DEF Stored, Fresh

\* A lock that is found for such a transaction is stored.
LEMMA FoundIsStored ==
    ASSUME StateInvariant, NEW t \in Txs, Fresh(t)
    PROVE  \A l \in GetInstantSendLockHashByTxid(t) : l \in db.lock /\ Txid[l] = t
BY SMTT(30) DEF StateInvariant, LockInvariant, DbInvariant, GetInstantSendLockHashByTxid, Fresh

\* Chain locks only grow, along one branch.
LEMMA StaysLocked ==
    ASSUME StateInvariant, WaitInvariant, [Next]_vars, ~ Restart, NEW t, InLockedBlock(t)
    PROVE  InLockedBlock(t)'
<1>1. CASE UNCHANGED chainlock
  BY <1>1 DEF InLockedBlock, HasChainLock
<1>2. ASSUME NEW b \in Blocks, ProcessNewChainLock(b) PROVE InLockedBlock(t)'
  <2>1. PICK c \in Blocks : t \in BlockTxs[c] /\ chainlock # None /\ c \in Path[chainlock]
    BY DEF InLockedBlock, HasChainLock
  <2>2. b \in world.chainlocks /\ chainlock' = b /\ Height[b] > Height[chainlock]
    BY <1>2, <2>1, Zenon DEF ProcessNewChainLock
  <2>3. chainlock \in world.chainlocks /\ chainlock \in Blocks /\ world \in Worlds
    BY <2>1 DEF WaitInvariant, StateInvariant, ChainOK, LockInvariant, LocksOfWorld
  <2>4. Height[b] \in Nat /\ Height[chainlock] \in Nat
    BY <2>3, BlockTypes
  <2>5. chainlock \in Path[b]
    BY <2>2, <2>3, <2>4, OneLockedBranch
  <2>6. c \in Path[b] /\ b # None
    BY <2>1, <2>5, BlockTree, BlockTypes
  <2> QED
    BY <2>1, <2>2, <2>6 DEF InLockedBlock, HasChainLock
<1>3. Validation => UNCHANGED chainlock \/ \E b \in Blocks : ProcessNewChainLock(b)
  BY Zenon DEF Validation, AcceptToMemoryPool, LimitMempoolSize, ActivateBestChain, RejectBlock,
               EnforceBlock, NotifyChainLock, chain
<1>4. Isman \/ Scheduler \/ (\E l \in Locks : ReceiveLock(l)) \/ UNCHANGED vars => UNCHANGED chainlock
  BY IsmanLeaves, SchedulerLeaves, Zenon DEF chain, ReceiveLock, vars
<1> QED
  BY <1>1, <1>2, <1>3, <1>4, Zenon DEF Next

\* The scheduler only takes transactions from the pool.
LEMMA SchedulerOnlyRemoves ==
    ASSUME Scheduler
    PROVE  mempool' \subseteq mempool /\ UNCHANGED tip
<1>1. UNCHANGED tip /\ (UNCHANGED mempool \/ \E S : mempool' = mempool \ S)
  BY Zenon DEF Scheduler, TransactionAdded, AddedWithLock, AddedWithoutLock, TransactionRemoved,
               BlockConnected, CheckTx, TrackTx, WriteBlockInstantSendLocks, WriteTxIndex,
               BlockDisconnected, HandleFullyConfirmedBlock, RemoveMempoolConflictsForLock, chain
<1> QED
  BY <1>1

\* Only validation and an invalidated block bring transactions.
LEMMA OnlyTheseBring ==
    ASSUME StateInvariant, [Next]_vars
    PROVE  \/ mempool' \subseteq mempool /\ UNCHANGED tip
           \/ (\E t \in Txs : AcceptToMemoryPool(t)) \/ (\E b \in Blocks : SetTip(b))
<1>0. mempool \subseteq Txs /\ tip \in Blocks
  BY DEF StateInvariant, LockInvariant, PoolInvariant, ChainOK
<1>1. CASE Validation
  <2>1. ASSUME NEW t \in Txs, LimitMempoolSize(t) PROVE mempool' \subseteq mempool /\ UNCHANGED tip
    BY <2>1 DEF LimitMempoolSize, chain
  <2>2. ASSUME NEW b \in Blocks, RejectBlock(b) PROVE mempool' \subseteq mempool /\ UNCHANGED tip
    <3>1. UNCHANGED tip /\ \E S : mempool' = mempool \ S
      BY <2>2, Zenon DEF RejectBlock
    <3> QED
      BY <3>1
  <2>3. CASE EnforceBlock
    <3>1. UNCHANGED <<tip, mempool>> \/ \E b \in Path[tip] : SetTip(b)
      BY <2>3, Zenon DEF EnforceBlock
    <3> QED
      BY <1>0, <3>1, BlockTypes
  <2>4. (\E b \in Blocks : ProcessNewChainLock(b)) \/ NotifyChainLock => UNCHANGED <<tip, mempool>>
    BY Zenon DEF ProcessNewChainLock, NotifyChainLock
  <2>5. \A b \in Blocks : ActivateBestChain(b) => SetTip(b)
    BY DEF ActivateBestChain
  <2> QED
    BY <1>1, <2>1, <2>2, <2>3, <2>4, <2>5 DEF Validation
<1>2. CASE Isman
  <2>1. CASE InvalidateBlock
    BY <2>1, AboveGenesis DEF InvalidateBlock
  <2>2. CASE ResolveMempoolConflicts
    <3>1. UNCHANGED tip /\ (UNCHANGED mempool \/ \E S : mempool' = mempool \ S)
      BY <2>2, Zenon DEF ResolveMempoolConflicts, RemoveMempoolConflictsForLock, chain
    <3> QED
      BY <3>1
  <2>3. Isman => InvalidateBlock \/ ResolveMempoolConflicts \/ UNCHANGED <<tip, mempool>>
    BY Zenon DEF Isman, ProcessPendingInstantSendLocks, LookupTx, ReplaceSameTx, StoreLock,
                 WriteInstantSendLockMined, Untrack, ResolveBlockConflicts, BeginInvalidate,
                 EndInvalidate, chain
  <2> QED
    BY <1>2, <2>1, <2>2, <2>3
<1>3. Scheduler => mempool' \subseteq mempool /\ UNCHANGED tip
  BY SchedulerOnlyRemoves
<1>4. Restart => UNCHANGED tip /\ mempool' \in {mempool, {}}
  BY Zenon DEF Restart
<1>5. (\E l \in Locks : ReceiveLock(l)) \/ UNCHANGED vars => UNCHANGED <<tip, mempool>>
  BY Zenon DEF ReceiveLock, vars, chain
<1> QED
  BY <1>1, <1>2, <1>3, <1>4, <1>5 DEF Next

\* A transaction that comes is announced.
LEMMA ComesAnnounced ==
    ASSUME StateInvariant, [Next]_vars, NEW t \in Txs, ~ Known(t), Known(t)'
    PROVE  \E q \in Seq(Notifications) : queue' = queue \o q /\ Announces(q, t)
<1>0. tip \in Blocks /\ mempool \subseteq Txs
  BY DEF StateInvariant, LockInvariant, PoolInvariant, ChainOK
<1>1. ~ (mempool' \subseteq mempool /\ UNCHANGED tip)
  BY DEF Known
<1>2. ASSUME NEW b \in Blocks, SetTip(b)
      PROVE  \E q \in Seq(Notifications) : queue' = queue \o q /\ Announces(q, t)
  <2>1. NewcomersAnnounced
    BY <1>0, <1>2, SetTipNews
  <2> QED
    BY <2>1 DEF NewcomersAnnounced
<1>3. ASSUME NEW u \in Txs, AcceptToMemoryPool(u)
      PROVE  \E q \in Seq(Notifications) : queue' = queue \o q /\ Announces(q, t)
  <2> DEFINE gone == IF IsWaitingForTx(u) THEN removeRecursive(mempool, Spenders(mempool, u)) ELSE {}
  <2>1. gone \in SUBSET Txs
    BY <1>0, RemovesFromPool
  <2>2. /\ UNCHANGED tip /\ mempool' = (mempool \ gone) \cup {u}
        /\ queue' = queue \o (Each("removed", gone) \o Each("added", {u}))
    BY <1>3, Zenon DEF AcceptToMemoryPool, Notify, chain
  <2> HIDE DEF gone
  <2>3. t = u
    BY <2>2 DEF Known
  <2>4. PICK r : r = Each("removed", gone)
    OBVIOUS
  <2>5. PICK a : a = Each("added", {u})
    OBVIOUS
  <2>6. r \in Seq(Notifications) /\ a \in Seq(Notifications)
    BY <2>1, <2>4, <2>5, EachNotifies
  <2>7. Announces(a, t)
    <3>1. "added" \in {"added", "removed"} /\ {u} \in SUBSET Txs /\ u \in {u}
      OBVIOUS
    <3>2. /\ \A i \in DOMAIN Each("added", {u}) : Each("added", {u})[i].kind = "added"
          /\ \A x \in {u} : \E i \in DOMAIN Each("added", {u}) : Each("added", {u})[i].tx = x
      BY <3>1, EachNotifies, Zenon
    <3>3. PICK i \in DOMAIN a : a[i].tx = u /\ a[i].kind = "added"
      BY <2>5, <3>1, <3>2
    <3> QED
      BY <2>3, <3>3, Zenon DEF Announces, Handles
  <2>8. Announces(r \o a, t)
    BY <2>6, <2>7, AnnouncesJoined
  <2>9. r \o a \in Seq(Notifications)
    BY <2>6, ConcatProperties
  <2> QED
    BY <2>2, <2>4, <2>5, <2>8, <2>9, Zenon
<1> QED
  BY <1>1, <1>2, <1>3, OnlyTheseBring

\* What is queued behind the others is ahead of the scheduler,
LEMMA QueuedIsAhead ==
    ASSUME SchedulerOK, UNCHANGED sched, NEW t,
           NEW q \in Seq(Notifications), queue' = queue \o q, EventAhead(t) \/ Announces(q, t)
    PROVE  EventAhead(t)'
<1>1. PICK s : s = queue'
  OBVIOUS
<1>2. PICK m \in Nat, n \in Nat :
        /\ DOMAIN queue = 1..m /\ DOMAIN q = 1..n /\ DOMAIN s = 1..(m + n)
        /\ \A i \in 1..m : i \in 1..(m + n) /\ s[i] = queue[i]
        /\ \A k \in 1..n : m + k \in 1..(m + n) /\ s[m + k] = q[k]
  <2>1. queue \in Seq(Notifications)
    BY Zenon DEF SchedulerOK
  <2>2. Joined(s, queue, q)
    BY <1>1, <2>1, Concatenated
  <2> QED
    BY <2>2, Zenon DEF Joined
<1>3. UNCHANGED <<spc, todo, cur>>
  BY DEF sched
<1>4. HeadToDo(t) => HeadToDo(t)'
  BY <1>3 DEF HeadToDo
<1>5. CASE EventAhead(t)
  BY <1>1, <1>2, <1>4, <1>5, Zenon DEF EventAhead
<1>6. CASE Announces(q, t)
  <2>1. PICK k \in 1..n : Handles(q[k], t)
    BY <1>2, <1>6 DEF Announces
  <2>2. m + k \in DOMAIN s /\ Handles(s[m + k], t)
    BY <1>2, <2>1
  <2>3. m + k = 1 => HeadToDo(t)'
    <3> SUFFICES ASSUME m = 0 PROVE HeadToDo(t)'
      OBVIOUS
    <3>1. DOMAIN queue = {}
      BY <1>2
    <3>2. queue = <<>>
      BY <3>1, EmptySeq, LenProperties DEF SchedulerOK
    <3>3. spc = "idle"
      BY <3>2 DEF SchedulerOK
    <3> QED
      BY <1>3, <3>3 DEF HeadToDo
  <2> QED
    BY <1>1, <2>2, <2>3, Zenon DEF EventAhead
<1> QED
  BY <1>5, <1>6

\* A lock that isman stores for want of its transaction waits for an unknown one, or is stale.
LEMMA StoredAsWaiting ==
    ASSUME StoreLock, ~ wtx.known, NEW t, t = Txid[wlock], Fresh(t)'
    PROVE  ~ Known(t) /\ ~ Known(t)'
<1>1. stale' = stale \cup Outdated /\ UNCHANGED <<mempool, tip>>
  BY Zenon DEF StoreLock, chain
<1>2. Outdated = {}
  BY <1>1 DEF Fresh, Outdated
<1>3. wtx = Whereabouts(t)
  BY <1>2 DEF Outdated
<1>4. ~ Known(t)
  BY <1>3, Zenon DEF Whereabouts, Known
<1> QED
  BY <1>1, <1>4 DEF Known

\* Only StoreLock makes a lock wait.
LEMMA WaitedBefore ==
    ASSUME [Next]_vars, NEW t, IsWaitingForTx(t)', Fresh(t)', Known(t)'
    PROVE  IsWaitingForTx(t)
<1>1. CASE StoreLock
  <2>1. UNCHANGED pendingNoTx \/ (~ wtx.known /\ pendingNoTx' = pendingNoTx \cup {wlock})
    BY <1>1, Zenon DEF StoreLock
  <2> QED
    BY <1>1, <2>1, StoredAsWaiting DEF IsWaitingForTx
<1>2. CASE pendingNoTx' \subseteq pendingNoTx
  BY <1>2 DEF IsWaitingForTx
<1>3. Validation => UNCHANGED pendingNoTx
  BY ValidationLeaves
<1>4. Isman => StoreLock \/ UNCHANGED pendingNoTx
  BY Zenon DEF Isman, ProcessPendingInstantSendLocks, LookupTx, ReplaceSameTx,
               WriteInstantSendLockMined, Untrack, ResolveBlockConflicts, BeginInvalidate,
               InvalidateBlock, EndInvalidate, ResolveMempoolConflicts
<1>5. Scheduler => UNCHANGED pendingNoTx \/ \E l : pendingNoTx' = pendingNoTx \ {l}
  BY Zenon DEF Scheduler, TransactionAdded, AddedWithLock, AddedWithoutLock, TransactionRemoved,
               BlockConnected, CheckTx, TrackTx, WriteBlockInstantSendLocks, WriteTxIndex,
               BlockDisconnected, HandleFullyConfirmedBlock, PutBackAny, PutBack
<1>6. Restart => pendingNoTx' = {}
  BY Zenon DEF Restart
<1>7. (\E l \in Locks : ReceiveLock(l)) \/ UNCHANGED vars => UNCHANGED pendingNoTx
  BY Zenon DEF ReceiveLock, vars
<1> QED
  BY <1>1, <1>2, <1>3, <1>4, <1>5, <1>6, <1>7 DEF Next

\* A lock in process stays so until it is stored, or found in no need of it.
LEMMA ProcessedOrServed ==
    ASSUME StateInvariant, WaitInvariant, [Next]_vars, ~ Restart, NEW t \in Txs,
           Fresh(t), Fresh(t)', Known(t), InProcess(t)
    PROVE  InProcess(t)' \/ Stored(t) \/ Stored(t)' \/ InLockedBlock(t)
<1>0. PICK l \in Locks : Txid[l] = t /\ (l \in pending \cup batch \/ (wpc \in {"same", "store"} /\ wlock = l))
  BY DEF InProcess
<1>1. CASE pending \subseteq pending' /\ batch \subseteq batch' /\ UNCHANGED <<wpc, wlock>>
  BY <1>0, <1>1 DEF InProcess
<1>2. CASE wpc \notin {"same", "store"} /\ UNCHANGED <<pending, batch>>
  BY <1>0, <1>2 DEF InProcess
<1>3. ASSUME NEW deterministic \in BOOLEAN, ProcessPendingInstantSendLocks(deterministic)
      PROVE  InProcess(t)'
  <2>1. /\ batch = {} /\ UNCHANGED <<wpc, wlock>>
        /\ \E pend : batch' = pend /\ pending' = pending \ pend
    BY <1>3, Zenon DEF ProcessPendingInstantSendLocks
  <2> QED
    BY <1>0, <2>1 DEF InProcess
<1>4. ASSUME NEW m \in Locks, LookupTx(m)
      PROVE  InProcess(t)' \/ Stored(t) \/ InLockedBlock(t)
  <2>1. wpc = "idle" /\ batch' = batch \ {m} /\ UNCHANGED pending
    BY <1>4, Zenon DEF LookupTx
  <2>2. CASE l # m
    BY <1>0, <2>1, <2>2 DEF InProcess
  <2>3. CASE l = m
    <3>1. \/ wpc' = "same" /\ wlock' = l
          \/ KnownInstantSendLock(l)
          \/ GetTransaction(t).block # None /\ HasChainLock(GetTransaction(t).block)
      BY <1>0, <1>4, <2>3, Zenon DEF LookupTx
    <3>2. CASE wpc' = "same" /\ wlock' = l
      BY <1>0, <3>2 DEF InProcess
    <3>3. CASE KnownInstantSendLock(l)
      BY <1>0, <3>3, Zenon DEF KnownInstantSendLock, StateInvariant, LockInvariant, DbInvariant, Fresh, Stored
    <3>4. CASE GetTransaction(t).block # None /\ HasChainLock(GetTransaction(t).block)
      <4>1. txindex[t] # None /\ HasChainLock(txindex[t])
        BY <3>4 DEF GetTransaction
      <4>2. txindex[t] \in Blocks /\ t \in BlockTxs[txindex[t]]
        BY <4>1, Zenon DEF WaitInvariant, StateInvariant, ChainOK
      <4> QED
        BY <4>1, <4>2, Zenon DEF InLockedBlock
    <3> QED
      BY <3>1, <3>2, <3>3, <3>4
  <2> QED
    BY <2>2, <2>3
<1>5. CASE ReplaceSameTx
  <2>1. /\ UNCHANGED <<pending, batch>> /\ wpc = "same"
        /\ \/ wpc' = "store" /\ UNCHANGED wlock
           \/ GetInstantSendLockByTxid(Txid[wlock]) \cap Det # {}
    BY <1>5, Zenon DEF ReplaceSameTx
  <2>2. CASE l \in pending \cup batch
    BY <1>0, <2>1, <2>2 DEF InProcess
  <2>3. CASE wlock = l
    <3>1. GetInstantSendLockByTxid(t) \cap Det # {} => Stored(t)
      BY FoundIsStored, Zenon DEF GetInstantSendLockByTxid, Stored
    <3> QED
      BY <1>0, <2>1, <2>3, <3>1 DEF InProcess
  <2> QED
    BY <1>0, <2>2, <2>3
<1>6. CASE StoreLock
  <2>1. /\ UNCHANGED <<pending, batch>> /\ wpc = "store"
        /\ ~ wtx.known \/ db' = WriteNewInstantSendLock(db, wlock)
    BY <1>6, Zenon DEF StoreLock
  <2>2. CASE l \in pending \cup batch
    BY <1>0, <2>1, <2>2 DEF InProcess
  <2>3. CASE wlock = l
    <3>1. wtx.known
      BY <1>0, <1>6, <2>3, StoredAsWaiting
    <3>2. db \in DbType
      BY DEF StateInvariant, LocksOK
    <3>3. WriteNewInstantSendLock(db, wlock).lock = db.lock \cup {wlock}
      BY <3>2 DEF WriteNewInstantSendLock, DbType
    <3>4. wlock \in db'.lock
      BY <2>1, <3>1, <3>3
    <3> QED
      BY <1>0, <2>3, <3>4, Zenon DEF Stored
  <2> QED
    BY <1>0, <2>2, <2>3
<1>7. Isman => \/ \E deterministic \in BOOLEAN : ProcessPendingInstantSendLocks(deterministic)
               \/ (\E m \in Locks : LookupTx(m)) \/ ReplaceSameTx \/ StoreLock
               \/ UNCHANGED <<pending, batch, wpc, wlock>>
               \/ (wpc \notin {"same", "store"} /\ UNCHANGED <<pending, batch>>)
  <2>1. WriteInstantSendLockMined \/ Untrack \/ ResolveBlockConflicts \/ ResolveMempoolConflicts
          => wpc \notin {"same", "store"} /\ UNCHANGED <<pending, batch>>
    BY DEF WriteInstantSendLockMined, Untrack, ResolveBlockConflicts, ResolveMempoolConflicts
  <2>2. (\E c \in conflicts : BeginInvalidate(c)) \/ InvalidateBlock => UNCHANGED <<pending, batch, wpc, wlock>>
    BY Zenon DEF BeginInvalidate, InvalidateBlock, isman
  <2>3. EndInvalidate => wpc \notin {"same", "store"} /\ UNCHANGED <<pending, batch>>
    BY Zenon DEF EndInvalidate, StateInvariant, LockInvariant, IsmanInvariant
  <2> QED
    BY <2>1, <2>2, <2>3, Zenon DEF Isman
<1>8. Validation => UNCHANGED <<pending, batch, wpc, wlock>>
  BY ValidationLeaves, Zenon DEF isman
<1>9. Scheduler => /\ UNCHANGED <<batch, wpc, wlock>>
                   /\ UNCHANGED pending \/ \E m : pending' = pending \cup {m}
  BY Zenon DEF Scheduler, TransactionAdded, AddedWithLock, AddedWithoutLock, TransactionRemoved,
               BlockConnected, CheckTx, TrackTx, WriteBlockInstantSendLocks, WriteTxIndex,
               BlockDisconnected, HandleFullyConfirmedBlock, PutBackAny, PutBack, isman, sched
<1>10. (\E m \in Locks : ReceiveLock(m)) \/ UNCHANGED vars
         => UNCHANGED <<batch, wpc, wlock>> /\ (UNCHANGED pending \/ \E m : pending' = pending \cup {m})
  BY Zenon DEF ReceiveLock, vars, isman
<1>11. (UNCHANGED pending \/ \E m : pending' = pending \cup {m}) => pending \subseteq pending'
  OBVIOUS
<1> QED
  BY <1>1, <1>2, <1>3, <1>4, <1>5, <1>6, <1>7, <1>8, <1>9, <1>10, <1>11 DEF Next

\* The notification at the head of the queue is handled as far as t is concerned:
\* what is behind it is still ahead,
LEMMA BehindTheHead ==
    ASSUME SchedulerOK, queue # <<>>, NEW t, EventAhead(t), ~ (Handles(Event, t) /\ HeadToDo(t))
    PROVE  /\ Announces(Tail(queue), t)
           /\ \E i \in DOMAIN queue : i # 1 /\ Handles(queue[i], t)
<1>1. PICK i \in DOMAIN queue : Handles(queue[i], t) /\ (i = 1 => HeadToDo(t))
  BY DEF EventAhead
<1>2. PICK r : r = Tail(queue)
  BY Zenon
<1>3. /\ queue \in Seq(Notifications) /\ Len(queue) \in Nat /\ DOMAIN queue = 1..Len(queue)
      /\ Event = queue[1]
  BY LenProperties DEF SchedulerOK, Event
<1>4. Len(r) = Len(queue) - 1 /\ DOMAIN r = 1..Len(r) /\ \A k \in 1..Len(r) : r[k] = queue[k + 1]
  BY <1>2, <1>3
<1>5. i # 1
  BY <1>1, <1>3
<1>6. i - 1 \in 1..Len(r) /\ (i - 1) + 1 = i
  BY <1>1, <1>3, <1>4, <1>5
<1>7. r[i - 1] = queue[i]
  BY <1>4, <1>6
<1> QED
  BY <1>1, <1>2, <1>4, <1>5, <1>6, <1>7, Zenon DEF Announces

\* or it stays at the head, with t left to do.
LEMMA HeadStays ==
    ASSUME SchedulerOK, queue # <<>>, UNCHANGED queue, NEW t, EventAhead(t),
           Handles(Event, t) /\ HeadToDo(t) => HeadToDo(t)'
    PROVE  EventAhead(t)'
<1>1. CASE ~ (Handles(Event, t) /\ HeadToDo(t))
  <2>1. PICK i \in DOMAIN queue : i # 1 /\ Handles(queue[i], t)
    BY <1>1, BehindTheHead
  <2> QED
    BY <2>1 DEF EventAhead
<1>2. CASE Handles(Event, t) /\ HeadToDo(t)
  BY <1>2 DEF EventAhead
<1> QED
  BY <1>1, <1>2

LEMMA IdleAhead ==
    ASSUME spc' = "idle", NEW t, NEW q, queue' = q, Announces(q, t)
    PROVE  EventAhead(t)'
BY DEF EventAhead, HeadToDo, Announces

\* A lock that waited is put back.
LEMMA PutBackProcesses ==
    ASSUME StateInvariant, NEW t, IsWaitingForTx(t), PutBackAny(t)
    PROVE  InProcess(t)'
<1>1. PICK l \in pendingNoTx : Txid[l] = t /\ pending' = pending \cup {l}
  BY DEF PutBackAny, PutBack
<1>2. l \in Locks
  BY LockTypes DEF StateInvariant, LockInvariant, LocksOfWorld
<1> QED
  BY <1>1, <1>2 DEF InProcess

\* What the scheduler was to do for t is done or remains.
LEMMA SchedulerServes ==
    ASSUME StateInvariant, Scheduler, NEW t \in Txs, Fresh(t), IsWaitingForTx(t), EventAhead(t)
    PROVE  EventAhead(t)' \/ InProcess(t)' \/ Stored(t) \/ InLockedBlock(t)
<1>0. SchedulerOK
  BY DEF StateInvariant
<1>1. CASE TransactionAdded
  <2>1. /\ spc = "idle" /\ queue # <<>> /\ Event.kind = "added" /\ UNCHANGED queue
        /\ spc' = "add" \/ \E l \in pendingNoTx : Txid[l] = Event.tx /\ PutBack(l)
        /\ IsWaitingForTx(Event.tx) => \E l \in pendingNoTx : Txid[l] = Event.tx /\ PutBack(l)
    BY <1>1, Zenon DEF TransactionAdded, Notified, Event
  <2>2. CASE Event.tx = t
    <3>1. PutBackAny(t)
      BY <2>1, <2>2 DEF PutBackAny
    <3> QED
      BY <3>1, PutBackProcesses
  <2>3. CASE Event.tx # t
    <3>1. ~ Handles(Event, t)
      BY <2>1, <2>3 DEF Handles
    <3> QED
      BY <1>0, <2>1, <3>1, HeadStays, Zenon
  <2> QED
    BY <2>2, <2>3
<1>2. CASE AddedWithLock
  <2>1. spc = "mempool" /\ spc' = "idle" /\ RemoveMempoolConflictsForLock(cur, Tail(queue))
    BY <1>2, Zenon DEF AddedWithLock
  <2>2. queue # <<>> /\ ~ HeadToDo(t) /\ mempool \subseteq Txs
    BY <1>0, <2>1, Zenon DEF SchedulerOK, HeadToDo, StateInvariant, LockInvariant, PoolInvariant
  <2>3. PICK r : NoBlocks(r) /\ queue' = Tail(queue) \o r
    BY <2>1, <2>2, RemovesConflicts, Zenon
  <2>4. r \in Seq(Notifications) /\ Tail(queue) \in Seq(Notifications)
    BY <1>0, <2>2, <2>3, TailType DEF NoBlocks, SchedulerOK
  <2>5. Announces(Tail(queue), t)
    BY <1>0, <2>2, BehindTheHead
  <2>6. Announces(Tail(queue) \o r, t)
    BY <2>4, <2>5, AnnouncesJoined, Zenon
  <2> QED
    BY <2>1, <2>3, <2>6, IdleAhead, Zenon
<1>3. CASE AddedWithoutLock
  <2>1. spc = "add" /\ spc' = "idle" /\ PutBackAny(Event.tx) /\ queue' = Tail(queue)
    BY <1>3, Zenon DEF AddedWithoutLock, Handled
  <2>2. queue # <<>> /\ Event.kind = "added"
    BY <1>0, <2>1 DEF SchedulerOK
  <2>3. CASE Event.tx = t
    BY <2>1, <2>3, PutBackProcesses
  <2>4. CASE Event.tx # t
    <3>1. ~ Handles(Event, t)
      BY <2>2, <2>4 DEF Handles
    <3> QED
      BY <1>0, <2>1, <2>2, <3>1, BehindTheHead, IdleAhead, Zenon
  <2> QED
    BY <2>3, <2>4
<1>4. CASE TransactionRemoved \/ BlockDisconnected \/ HandleFullyConfirmedBlock
  <2>1. /\ spc = "idle" /\ UNCHANGED spc /\ queue # <<>> /\ queue' = Tail(queue)
        /\ Event.kind \in {"removed", "disconnected", "chainlock"}
    BY <1>4 DEF TransactionRemoved, BlockDisconnected, HandleFullyConfirmedBlock, Notified, Handled, Event, sched
  <2>2. ~ Handles(Event, t)
    BY <2>1 DEF Handles
  <2> QED
    BY <1>0, <2>1, <2>2, BehindTheHead, IdleAhead, Zenon
<1>5. CASE BlockConnected
  <2>1. /\ spc = "idle" /\ spc' = "block" /\ queue # <<>> /\ UNCHANGED queue /\ Event.kind = "connected"
        /\ todo' = BlockTxs[Event.block]
    BY <1>5, Zenon DEF BlockConnected, Notified, Event
  <2>2. Handles(Event, t) => HeadToDo(t)'
    BY <2>1 DEF Handles, HeadToDo
  <2> QED
    BY <1>0, <2>1, <2>2, HeadStays, Zenon
<1>6. ASSUME NEW u \in todo, CheckTx(u)
      PROVE  EventAhead(t)' \/ Stored(t) \/ InLockedBlock(t)
  <2>1. /\ spc = "block" /\ todo' = todo \ {u} /\ UNCHANGED queue
        /\ (spc' = "track" /\ cur' = u) \/ (UNCHANGED spc /\ (IsLocked(u) \/ HasChainLock(Event.block)))
    BY <1>6, Zenon DEF CheckTx
  <2>2. queue # <<>> /\ Event.kind = "connected" /\ todo \subseteq BlockTxs[Event.block]
    BY <1>0, <2>1, Zenon DEF SchedulerOK
  <2>3. Event.block \in Blocks
    BY <1>0, <2>2, EventType, Zenon
  <2>4. CASE t = u /\ UNCHANGED spc
    <3>1. HasChainLock(Event.block) => InLockedBlock(t)
      BY <2>2, <2>3, <2>4 DEF InLockedBlock
    <3>2. IsLocked(t) => Stored(t)
      BY FoundIsStored DEF IsLocked, Stored
    <3> QED
      BY <2>1, <2>4, <3>1, <3>2
  <2>5. CASE t # u \/ (spc' = "track" /\ cur' = u)
    <3>1. HeadToDo(t) => HeadToDo(t)'
      BY <2>1, <2>5 DEF HeadToDo
    <3> QED
      BY <1>0, <2>1, <2>2, <3>1, HeadStays, Zenon
  <2> QED
    BY <2>1, <2>4, <2>5
<1>7. CASE TrackTx
  <2>1. spc = "track" /\ spc' = "block" /\ PutBackAny(cur) /\ UNCHANGED <<queue, todo>>
    BY <1>7, Zenon DEF TrackTx
  <2>2. queue # <<>>
    BY <1>0, <2>1 DEF SchedulerOK
  <2>3. CASE t = cur
    BY <2>1, <2>3, PutBackProcesses
  <2>4. CASE t # cur
    <3>1. HeadToDo(t) => HeadToDo(t)'
      BY <2>1, <2>4 DEF HeadToDo
    <3> QED
      BY <1>0, <2>1, <2>2, <3>1, HeadStays
  <2> QED
    BY <2>3, <2>4
<1>8. CASE WriteBlockInstantSendLocks
  <2>1. spc = "block" /\ todo = {} /\ UNCHANGED queue
    BY <1>8, Zenon DEF WriteBlockInstantSendLocks
  <2>2. queue # <<>> /\ ~ HeadToDo(t)
    BY <1>0, <2>1 DEF SchedulerOK, HeadToDo
  <2> QED
    BY <1>0, <2>1, <2>2, HeadStays
<1>9. CASE WriteTxIndex
  <2>1. spc = "index" /\ spc' = "idle" /\ queue' = Tail(queue)
    BY <1>9, Zenon DEF WriteTxIndex, Handled
  <2>2. queue # <<>> /\ ~ HeadToDo(t)
    BY <1>0, <2>1 DEF SchedulerOK, HeadToDo
  <2> QED
    BY <1>0, <2>1, <2>2, BehindTheHead, IdleAhead, Zenon
<1> QED
  BY <1>1, <1>2, <1>3, <1>4, <1>5, <1>6, <1>7, <1>8, <1>9, Zenon DEF Scheduler

\* The index of transactions and the chain lock.
LEMMA IndexAndChainLock ==
    ASSUME StateInvariant, WaitInvariant, [Next]_vars
    PROVE  /\ \A t \in Txs : txindex'[t] # None => t \in BlockTxs[txindex'[t]]
           /\ chainlock' # None => chainlock' \in world'.chainlocks
<1>1. UNCHANGED world
  BY ValidationLeaves, IsmanLeaves, SchedulerLeaves, RestLeaves, Zenon DEF Next, ReceiveLock, vars
<1>2. UNCHANGED chainlock \/ chainlock' = None \/ chainlock' \in world.chainlocks
  <2>1. Validation => UNCHANGED chainlock \/ chainlock' \in world.chainlocks
    BY Zenon DEF Validation, AcceptToMemoryPool, LimitMempoolSize, ActivateBestChain, RejectBlock,
                 ProcessNewChainLock, EnforceBlock, NotifyChainLock, chain
  <2>2. Isman \/ Scheduler \/ (\E l \in Locks : ReceiveLock(l)) \/ UNCHANGED vars => UNCHANGED chainlock
    BY IsmanLeaves, SchedulerLeaves, Zenon DEF chain, ReceiveLock, vars
  <2>3. Restart => chainlock' = None
    BY Zenon DEF Restart
  <2> QED
    BY <2>1, <2>2, <2>3, Zenon DEF Next
<1>3. UNCHANGED txindex \/ WriteTxIndex
  <2>1. Scheduler => UNCHANGED txindex \/ WriteTxIndex
    BY Zenon DEF Scheduler, TransactionAdded, AddedWithLock, AddedWithoutLock, TransactionRemoved,
                 BlockConnected, CheckTx, TrackTx, WriteBlockInstantSendLocks,
                 BlockDisconnected, HandleFullyConfirmedBlock
  <2> QED
    BY <2>1, ValidationLeaves, IsmanLeaves, RestLeaves, Zenon DEF Next
<1>4. CASE WriteTxIndex
  BY <1>1, <1>2, <1>4 DEF WriteTxIndex, WaitInvariant
<1>5. CASE UNCHANGED txindex
  BY <1>1, <1>2, <1>5 DEF WaitInvariant
<1> QED
  BY <1>3, <1>4, <1>5

LEMMA WaitInvariantStep ==
    ASSUME StateInvariant, WaitInvariant, [Next]_vars
    PROVE  WaitInvariant'
<1> SUFFICES ASSUME NEW t \in Txs, Fresh(t)', IsWaitingForTx(t)', Known(t)'
             PROVE  Served(t)'
  BY IndexAndChainLock, Zenon DEF WaitInvariant
<1>0. SchedulerOK
  BY DEF StateInvariant
<1>1. Fresh(t) /\ IsWaitingForTx(t)
  BY FreshBefore, WaitedBefore
<1>2. ~ Restart
  BY DEF Restart, IsWaitingForTx
<1>3. CASE ~ Known(t)
  <2>1. PICK q \in Seq(Notifications) : queue' = queue \o q /\ Announces(q, t)
    BY <1>3, ComesAnnounced
  <2>2. ~ Scheduler
    <3>1. Scheduler => mempool' \subseteq mempool /\ UNCHANGED tip
      BY SchedulerOnlyRemoves
    <3> QED
      BY <1>3, <3>1 DEF Known
  <2>3. UNCHANGED sched
    BY <2>2, OthersChain
  <2> QED
    BY <1>0, <2>1, <2>3, QueuedIsAhead DEF Served
<1>4. CASE Known(t)
  <2>1. Served(t)
    BY <1>1, <1>4 DEF WaitInvariant
  <2>2. CASE Stored(t)
    BY <2>2, StaysStored DEF Served
  <2>3. CASE InLockedBlock(t)
    BY <1>2, <2>3, StaysLocked DEF Served
  <2>4. CASE InProcess(t)
    BY <1>1, <1>2, <1>4, <2>2, <2>3, <2>4, ProcessedOrServed DEF Served
  <2>5. CASE EventAhead(t) /\ Scheduler
    BY <1>1, <2>2, <2>3, <2>5, SchedulerServes DEF Served
  <2>6. CASE EventAhead(t) /\ ~ Scheduler
    <3>1. ChainStep /\ UNCHANGED sched
      BY <2>6, OthersChain
    <3>2. PICK q : q \in Seq(Notifications) /\ queue' = queue \o q
      BY <3>1 DEF ChainStep, News
    <3> QED
      BY <1>0, <2>6, <3>1, <3>2, QueuedIsAhead, Zenon DEF Served
  <2> QED
    BY <2>1, <2>2, <2>3, <2>4, <2>5, <2>6 DEF Served
<1> QED
  BY <1>3, <1>4

\* While a lock waits for a transaction that is there, a notification of the transaction is
\* still to be handled, a lock of it is in process or stored, or it is chain locked
\* (TransactionAddedToMempool, AddNonLockedTx, ProcessInstantSendLock).
THEOREM WaitInvariantHolds == Spec => []WaitInvariant
<1>1. Init => WaitInvariant
  BY Zenon DEF Init, WaitInvariant, IsWaitingForTx
<1>2. StateInvariant /\ WaitInvariant /\ [Next]_vars => WaitInvariant'
  BY WaitInvariantStep
<1> QED
  BY <1>1, <1>2, StateInvariantHolds, PTL DEF Spec

\* When nothing is in progress, a transaction that is there is not left unlocked while a lock
\* waits for it, unless it is chain locked, or a lock of it was put to wait on outdated news or
\* is archived (TransactionAddedToMempool, AddNonLockedTx).
THEOREM WaitsOnlyForUnknownTx == Spec => []WaitsForUnknownTx
<1>1. StateInvariant /\ WaitInvariant => WaitsForUnknownTx
  <2> SUFFICES ASSUME StateInvariant, WaitInvariant, Quiet,
                      NEW t \in Txs \ {Txid[l] : l \in stale \cup db.archived},
                      IsWaitingForTx(t), Whereabouts(t).known
               PROVE  IsLocked(t) \/ \E b \in Blocks : t \in BlockTxs[b] /\ HasChainLock(b)
    BY DEF WaitsForUnknownTx
  <2>1. Fresh(t) /\ Known(t)
    BY Zenon DEF Fresh, Known, Whereabouts
  <2>2. Served(t)
    BY <2>1 DEF WaitInvariant
  <2>3. ~ EventAhead(t) /\ ~ InProcess(t)
    <3>1. PICK q : q = queue
      OBVIOUS
    <3>2. DOMAIN q = {}
      BY <3>1, EmptySeq, LenProperties DEF Quiet
    <3> QED
      BY <3>1, <3>2 DEF EventAhead, InProcess, Quiet
  <2>4. ASSUME NEW l \in db.lock, Txid[l] = t PROVE IsLocked(t)
    <3>1. db.tx[t] = l /\ l # None
      BY <2>4, LockTypes DEF StateInvariant, LockInvariant, DbInvariant
    <3> QED
      BY <3>1 DEF IsLocked, GetInstantSendLockHashByTxid, KnownInstantSendLock
  <2> QED
    BY <2>2, <2>3, <2>4 DEF Served, Stored, InLockedBlock
<1> QED
  BY <1>1, StateInvariantHolds, WaitInvariantHolds, PTL

=============================================================================
