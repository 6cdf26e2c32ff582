--------------------------- MODULE ChainLocksProofs ---------------------------
(***************************************************************************)
(* For every block tree, every set of locks on one branch and every number *)
(* of spork changes: the active chain is free of flagged blocks, the locked*)
(* branch is never marked as conflicting, and an active locked block stays *)
(* active while it is the one being enforced.                              *)
(***************************************************************************)
EXTENDS ChainLocks, TLAPS

\* The block index is closed under parents.
KnownClosed == \A b \in known : Path[b] \subseteq known

\* A thread inside ProcessNewChainLock has a lock, the scheduler inside
\* EnforceBestChainLock has one to enforce.
ThreadsHold ==
    /\ \A t \in Receivers : pc[t] \in {"reset", "check", "lookup", "store"} => lock[t] \in Locks
    /\ pc["sched"] \in {"enforce", "need"} => snap \in Locks

\* A running activation has a clean and complete way up to its target.
Aimed ==
    /\ phase = "find" => target = None
    /\ phase \in {"connect", "set"} => target # None /\ tip # target
    /\ phase \in {"connect", "set", "free"} /\ target # None =>
          tip \in Path[target] /\ Path[target] \subseteq data /\ Flagged(target) = {}

\* What is connected, or about to be, has no islock against it.
NotIslocked ==
    /\ Path[tip] \cap islocks = {}
    /\ phase = "set" => NextBlock \notin islocks

\* The lock being observed is the one being enforced.
HeldIsIndex == held # None => held = index /\ enforced

OneBranch(b, c) == b \in Path[c] \/ c \in Path[b]

\* During an activation the held lock is no longer in the active chain, but on one
\* branch with it; the way back to the starting tip stays open, and nothing that
\* conflicts with the lock passed the check.
WayBack ==
    /\ OneBranch(held, tip)
    /\ held \in Path[start] /\ Path[start] \subseteq data
    /\ Path[start] \cap (failed \cup conflict \cup islocks) = {}
    /\ phase \in {"connect", "set"} => Height[target] >= Height[start]
    /\ phase = "set" => (Height[NextBlock] <= Height[held] => NextBlock \in Path[held])

HeldStays == held # None => IF MainFree THEN held \in Path[tip] ELSE WayBack

IInv ==
    /\ TypeOK /\ KnownClosed /\ ThreadsHold
    /\ ActiveChainClean /\ LockedBranchClean
    /\ Aimed /\ NotIslocked
    /\ HeldIsIndex /\ HeldStays

-----------------------------------------------------------------------------
(* The block tree.                                                         *)

\* An ancestor is a block, its path is part of the path, and it is no higher.
LEMMA AncestorFacts ==
    ASSUME NEW b \in Blocks, NEW c \in Path[b]
    PROVE  /\ c \in Blocks /\ b \in Path[b] /\ Path[c] \subseteq Path[b] /\ Path[b] \subseteq Blocks
           /\ Height[c] \in Nat /\ Height[b] \in Nat /\ Height[c] <= Height[b]
  <1>1. /\ c \in Blocks /\ b \in Path[b] /\ Path[c] \subseteq Path[b] /\ Path[b] \subseteq Blocks
        /\ Height[c] \in Nat /\ Height[b] \in Nat
    BY TreeAssumption
  <1>2. Height[c] <= Height[b]
    BY <1>1, TreeAssumption
  <1> QED BY <1>1, <1>2

\* Two ancestors of a block, in the order of their heights.
LEMMA Ordered ==
    ASSUME NEW b \in Blocks, NEW c \in Path[b], NEW d \in Path[b]
    PROVE  /\ Height[c] <= Height[d] => c \in Path[d] /\ Path[c] \subseteq Path[d]
           /\ c \in Path[d] => Height[c] <= Height[d]
  <1>1. c \in Blocks /\ d \in Blocks
    BY AncestorFacts
  <1>2. Height[c] <= Height[d] <=> c \in Path[d]
    BY TreeAssumption
  <1> QED BY <1>1, <1>2, AncestorFacts

\* A proper ancestor is an ancestor of the parent.
LEMMA BelowParent ==
    ASSUME NEW b \in Blocks \ {Genesis}, NEW c \in Path[b], c # b
    PROVE  c \in Path[Parent[b]]
  BY TreeAssumption

\* A block other than Genesis is one above its parent.
LEMMA ParentFacts ==
    ASSUME NEW b \in Blocks \ {Genesis}
    PROVE  /\ Parent[b] \in Blocks /\ Parent[b] \in Path[b]
           /\ Path[b] = Path[Parent[b]] \cup {b}
           /\ Height[b] = Height[Parent[b]] + 1
           /\ Height[Parent[b]] \in Nat /\ Height[b] \in Nat
  <1>1. Parent[b] \in Blocks
    BY TreeAssumption
  <1>2. Parent[b] \in Path[Parent[b]]
    BY <1>1, TreeAssumption
  <1>3. Height[Parent[b]] \in Nat /\ Height[b] \in Nat
    BY <1>1, TreeAssumption
  <1>4. Path[b] = Path[Parent[b]] \cup {b} /\ Height[b] = Height[Parent[b]] + 1
    BY TreeAssumption
  <1> QED BY <1>1, <1>2, <1>3, <1>4

\* Of two blocks on one branch the lower one is an ancestor of the other.
LEMMA Reaches ==
    ASSUME NEW b \in Blocks, NEW c \in Blocks, OneBranch(b, c), Height[b] <= Height[c]
    PROVE  b \in Path[c]
  <1>1. CASE b \in Path[c]
    BY <1>1
  <1>2. CASE c \in Path[b]
    <2>1. b \in Path[b]
      BY TreeAssumption
    <2> QED BY <1>2, <2>1, Ordered
  <1> QED BY <1>1, <1>2 DEF OneBranch

\* The fork with a branch lies on both.
LEMMA ForkFacts ==
    ASSUME NEW b \in Blocks, tip \in Blocks
    PROVE  /\ FindFork(b) \in Blocks
           /\ Path[FindFork(b)] = Path[b] \cap Path[tip]
           /\ FindFork(b) \in Path[b] /\ FindFork(b) \in Path[tip]
  <1>1. \E c \in Blocks : Path[c] = Path[b] \cap Path[tip]
    BY TreeAssumption
  <1>2. FindFork(b) \in Blocks /\ Path[FindFork(b)] = Path[b] \cap Path[tip]
    BY <1>1 DEF FindFork
  <1>3. FindFork(b) \in Path[FindFork(b)]
    BY <1>2, TreeAssumption
  <1> QED BY <1>2, <1>3

\* The next block to connect extends the tip by one towards the target.
LEMMA NextBlockFacts ==
    ASSUME tip \in Blocks, target \in Blocks, tip \in Path[target], tip # target
    PROVE  /\ NextBlock \in Path[target] /\ NextBlock \in Blocks
           /\ Height[NextBlock] = Height[tip] + 1
           /\ tip \in Path[NextBlock] /\ NextBlock \notin Path[tip]
           /\ Path[NextBlock] \subseteq Path[tip] \cup {NextBlock}
           /\ Height[NextBlock] \in Nat /\ Height[tip] \in Nat
  <1>1. \E d \in Path[target] : Height[d] = Height[tip] + 1
    BY TreeAssumption
  <1>2. NextBlock \in Path[target] /\ Height[NextBlock] = Height[tip] + 1
    BY <1>1 DEF NextBlock
  <1>3. NextBlock \in Blocks /\ Height[NextBlock] \in Nat /\ Height[tip] \in Nat
    BY <1>2, AncestorFacts
  <1>4. tip \in Path[NextBlock]
    BY <1>2, <1>3, Ordered
  <1>5. NextBlock \notin Path[tip]
    BY <1>2, <1>3, AncestorFacts
  <1>6. NextBlock # Genesis
    BY <1>3, <1>4, <1>5, TreeAssumption
  <1>7. Parent[NextBlock] \in Path[target] /\ Height[Parent[NextBlock]] <= Height[tip]
    BY <1>2, <1>3, <1>6, ParentFacts, AncestorFacts
  <1>8. Path[Parent[NextBlock]] \subseteq Path[tip]
    BY <1>7, Ordered
  <1>9. Path[NextBlock] \subseteq Path[tip] \cup {NextBlock}
    BY <1>3, <1>6, <1>8, ParentFacts
  <1> QED BY <1>2, <1>3, <1>4, <1>5, <1>9

-----------------------------------------------------------------------------
(* Types, by group of variables.                                           *)

Places == {"idle", "reset", "check", "lookup", "store", "enforce", "need", "activate", "wait"}

ChainTypes ==
    /\ known \subseteq Blocks /\ data \subseteq known
    /\ failed \subseteq known /\ conflict \subseteq known
    /\ islocks \subseteq Contested
    /\ tip \in Blocks /\ Path[tip] \subseteq data
ActTypes ==
    /\ phase \in {"idle", "find", "connect", "set", "free"}
    /\ start \in Blocks
    /\ target \in Blocks \cup {None}
HandlerTypes ==
    /\ spork \in BOOLEAN /\ enforced \in BOOLEAN
    /\ sporks \in 0..MaxSporks
    /\ best \in Locks \cup {None}
    /\ index \in Locks \cup {None}
    /\ seen \subseteq Locks
ThreadTypes ==
    /\ pc \in [Receivers \cup {"sched"} -> Places]
    /\ lock \in [Receivers -> Locks \cup {None}]
    /\ found \in [Receivers -> BOOLEAN]
    /\ snap \in Locks \cup {None}

\* The type invariant, group by group; the history follows the index.
LEMMA TypeGroups ==
    /\ TypeOK <=> (ChainTypes /\ ActTypes /\ HandlerTypes /\ ThreadTypes /\ held \in Locks \cup {None})
    /\ TypeOK' <=> (ChainTypes /\ ActTypes /\ HandlerTypes /\ ThreadTypes /\ held \in Locks \cup {None})'
  BY DEF TypeOK, ChainTypes, ActTypes, HandlerTypes, ThreadTypes, Places

\* The history has its type when the index has.
LEMMA HeldType ==
    ASSUME Observe, HandlerTypes'
    PROVE  held' \in Locks \cup {None}
  BY DEF Observe, HandlerTypes

\* A lock is a block, and not None.
LEMMA LockIsBlock ==
    ASSUME NEW l \in Locks
    PROVE  l \in Blocks /\ l # None
  BY TreeAssumption, LocksAssumption

\* A step of the flags, of any thread.
LEMMA UpdateTypes ==
    ASSUME HandlerTypes, ThreadTypes, NEW t \in Receivers \cup {"sched"},
           UpdateActiveState(t, "check"), UNCHANGED <<spork, sporks, best, index, seen>>
    PROVE  /\ HandlerTypes'
           /\ pc' \in [Receivers \cup {"sched"} -> Places]
           /\ pc'[t] \in {"reset", "check"}
           /\ \A u \in Receivers \cup {"sched"} : u # t => pc'[u] = pc[u]
  <1>1. HandlerTypes'
    BY DEF HandlerTypes, UpdateActiveState
  <1>2. CASE ~enforced /\ spork
    BY <1>1, <1>2 DEF UpdateActiveState, Go, ThreadTypes, Places
  <1>3. CASE ~(~enforced /\ spork)
    BY <1>1, <1>3 DEF UpdateActiveState, Go, ThreadTypes, Places
  <1> QED BY <1>2, <1>3

\* A receiver that is done.
LEMMA DoneTypes ==
    ASSUME ThreadTypes, ThreadsHold, NEW t \in Receivers, Done(t), UNCHANGED snap
    PROVE  ThreadTypes' /\ ThreadsHold'
  <1>1. ThreadTypes'
    BY DEF ThreadTypes, Done, Go, Places
  <1>2. pc'[t] = "idle" /\ pc'["sched"] = pc["sched"]
    BY DEF ThreadTypes, Done, Go, Receivers
  <1>3. \A u \in Receivers : u # t => pc'[u] = pc[u] /\ lock'[u] = lock[u]
    BY DEF ThreadTypes, Done, Go
  <1> QED BY <1>1, <1>2, <1>3 DEF ThreadsHold

\* A step of one thread that keeps the locks at hand.
LEMMA MoveTypes ==
    ASSUME ThreadTypes, ThreadsHold, NEW t \in Receivers \cup {"sched"}, NEW where \in Places,
           Go(t, where), UNCHANGED <<lock, snap>>,
           t \in Receivers => lock[t] \in Locks,
           t = "sched" => where \notin {"enforce", "need"}
    PROVE  /\ pc' \in [Receivers \cup {"sched"} -> Places]
           /\ ThreadsHold'
  <1>1. pc' \in [Receivers \cup {"sched"} -> Places]
    BY DEF ThreadTypes, Go
  <1>2. pc'[t] = where /\ \A u \in Receivers \cup {"sched"} : u # t => pc'[u] = pc[u]
    BY DEF ThreadTypes, Go
  <1> QED BY <1>1, <1>2 DEF ThreadsHold, Receivers

-----------------------------------------------------------------------------
(* Steps that leave the chain and its activation alone.                    *)

Quiet ==
    \/ ChangeSpork
    \/ \E l \in Locks : ReceiveLock(l) \/ HandleNewRecoveredSig(l)
    \/ Receiving
    \/ RunTask \/ ResetLocks("sched", "check") \/ TakeSnapshot
    \/ ActivateNeeded \/ ActivationReturns

\* They keep the types of the handler and of the threads.
LEMMA QuietTypes ==
    ASSUME HandlerTypes, ThreadTypes, ThreadsHold, Quiet
    PROVE  HandlerTypes' /\ ThreadTypes' /\ ThreadsHold' /\ UNCHANGED <<chain, act>>
  <1>1. CASE ChangeSpork
    <2>1. HandlerTypes'
      BY <1>1, LocksAssumption DEF ChangeSpork, HandlerTypes, handler
    <2>2. ThreadTypes' /\ ThreadsHold'
      BY <1>1 DEF ChangeSpork, ThreadTypes, ThreadsHold, threads
    <2> QED BY <1>1, <2>1, <2>2 DEF ChangeSpork
  <1>2. ASSUME NEW l \in Locks, NEW t \in Receivers,
               lock' = [lock EXCEPT ![t] = l], UpdateActiveState(t, "check"),
               UNCHANGED <<chain, act, spork, sporks, best, index, seen, found, snap>>
        PROVE  HandlerTypes' /\ ThreadTypes' /\ ThreadsHold' /\ UNCHANGED <<chain, act>>
    <2>1. /\ HandlerTypes' /\ pc' \in [Receivers \cup {"sched"} -> Places]
          /\ \A u \in Receivers \cup {"sched"} : u # t => pc'[u] = pc[u]
      BY <1>2, UpdateTypes
    <2>2. lock' \in [Receivers -> Locks \cup {None}] /\ lock'[t] = l
          /\ \A u \in Receivers : u # t => lock'[u] = lock[u]
      BY <1>2 DEF ThreadTypes
    <2>3. ThreadTypes'
      BY <1>2, <2>1, <2>2 DEF ThreadTypes
    <2>4. ThreadsHold'
      BY <1>2, <2>1, <2>2 DEF ThreadsHold, Receivers
    <2> QED BY <1>2, <2>1, <2>3, <2>4
  <1>3. ASSUME NEW l \in Locks, ReceiveLock(l)
        PROVE  HandlerTypes' /\ ThreadTypes' /\ ThreadsHold' /\ UNCHANGED <<chain, act>>
    BY <1>2, <1>3 DEF ReceiveLock, Receivers
  <1>4. ASSUME NEW l \in Locks, HandleNewRecoveredSig(l)
        PROVE  HandlerTypes' /\ ThreadTypes' /\ ThreadsHold' /\ UNCHANGED <<chain, act>>
    BY <1>2, <1>4 DEF HandleNewRecoveredSig, Receivers
  <1>5. ASSUME NEW t \in Receivers \cup {"sched"}, ResetLocks(t, "check")
        PROVE  HandlerTypes' /\ ThreadTypes' /\ ThreadsHold' /\ UNCHANGED <<chain, act>>
    <2>1. HandlerTypes'
      BY <1>5 DEF ResetLocks, HandlerTypes
    <2>2. pc' \in [Receivers \cup {"sched"} -> Places] /\ ThreadsHold'
      BY <1>5, MoveTypes DEF ResetLocks, ThreadsHold, Places
    <2>3. ThreadTypes'
      BY <1>5, <2>2 DEF ResetLocks, ThreadTypes
    <2> QED BY <1>5, <2>1, <2>2, <2>3 DEF ResetLocks
  <1>6. ASSUME NEW t \in Receivers, CheckSeen(t)
        PROVE  HandlerTypes' /\ ThreadTypes' /\ ThreadsHold' /\ UNCHANGED <<chain, act>>
    <2>1. lock[t] \in Locks
      BY <1>6 DEF CheckSeen, ThreadsHold
    <2>2. HandlerTypes'
      BY <1>6, <2>1 DEF CheckSeen, HandlerTypes
    <2>3. CASE Done(t)
      BY <1>6, <2>2, <2>3, DoneTypes DEF CheckSeen
    <2>4. CASE Go(t, "lookup") /\ UNCHANGED <<lock, found>>
      <3>1. pc' \in [Receivers \cup {"sched"} -> Places] /\ ThreadsHold'
        BY <1>6, <2>1, <2>4, MoveTypes DEF CheckSeen, Places, Receivers
      <3>2. ThreadTypes'
        BY <1>6, <2>4, <3>1 DEF CheckSeen, ThreadTypes
      <3> QED BY <1>6, <2>2, <3>1, <3>2 DEF CheckSeen
    <2> QED BY <1>6, <2>3, <2>4 DEF CheckSeen
  <1>7. ASSUME NEW t \in Receivers, LookupBlock(t)
        PROVE  HandlerTypes' /\ ThreadTypes' /\ ThreadsHold' /\ UNCHANGED <<chain, act>>
    <2>1. HandlerTypes'
      BY <1>7 DEF LookupBlock, HandlerTypes, handler
    <2>2. pc' \in [Receivers \cup {"sched"} -> Places] /\ ThreadsHold'
      BY <1>7, MoveTypes DEF LookupBlock, ThreadsHold, Places, Receivers
    <2>3. (lock[t] \in known) \in BOOLEAN
      OBVIOUS
    <2>4. found' \in [Receivers -> BOOLEAN]
      BY <1>7, <2>3, Zenon DEF LookupBlock, ThreadTypes
    <2>5. ThreadTypes'
      BY <1>7, <2>2, <2>4 DEF LookupBlock, ThreadTypes
    <2> QED BY <1>7, <2>1, <2>2, <2>5 DEF LookupBlock
  <1>8. ASSUME NEW t \in Receivers, StoreLock(t)
        PROVE  HandlerTypes' /\ ThreadTypes' /\ ThreadsHold' /\ UNCHANGED <<chain, act>>
    <2>1. lock[t] \in Locks
      BY <1>8 DEF StoreLock, ThreadsHold
    <2>2. HandlerTypes'
      BY <1>8, <2>1 DEF StoreLock, HandlerTypes
    <2> QED BY <1>8, <2>2, DoneTypes DEF StoreLock
  <1>9. CASE Receiving
    BY <1>9, <1>5, <1>6, <1>7, <1>8 DEF Receiving
  <1>10. CASE RunTask
    <2>1. /\ HandlerTypes' /\ pc' \in [Receivers \cup {"sched"} -> Places]
          /\ pc'["sched"] \in {"reset", "check"}
          /\ \A u \in Receivers : pc'[u] = pc[u]
      BY <1>10, UpdateTypes DEF RunTask, Receivers
    <2>2. ThreadTypes' /\ ThreadsHold'
      BY <1>10, <2>1 DEF RunTask, ThreadTypes, ThreadsHold
    <2> QED BY <1>10, <2>1, <2>2 DEF RunTask
  <1>11. CASE TakeSnapshot
    <2>1. HandlerTypes'
      BY <1>11 DEF TakeSnapshot, HandlerTypes, handler
    <2>2. CASE enforced /\ index # None
      <3>1. snap' = index /\ index \in Locks
        BY <1>11, <2>2 DEF TakeSnapshot, HandlerTypes
      <3>2. pc' \in [Receivers \cup {"sched"} -> Places] /\ \A u \in Receivers : pc'[u] = pc[u]
        BY <1>11, <2>2 DEF TakeSnapshot, Go, ThreadTypes, Places, Receivers
      <3> QED BY <1>11, <2>1, <3>1, <3>2 DEF TakeSnapshot, ThreadTypes, ThreadsHold
    <2>3. CASE ~(enforced /\ index # None)
      <3>1. pc' \in [Receivers \cup {"sched"} -> Places] /\ ThreadsHold'
        BY <1>11, <2>3, MoveTypes DEF TakeSnapshot, Places, Receivers
      <3> QED BY <1>11, <2>1, <2>3, <3>1 DEF TakeSnapshot, ThreadTypes
    <2> QED BY <2>2, <2>3
  <1>12. CASE ActivateNeeded
    <2>1. HandlerTypes'
      BY <1>12 DEF ActivateNeeded, HandlerTypes, handler
    <2>2. /\ pc' \in [Receivers \cup {"sched"} -> Places]
          /\ pc'["sched"] \in {"idle", "activate"}
          /\ \A u \in Receivers : pc'[u] = pc[u]
      BY <1>12 DEF ActivateNeeded, Go, ThreadTypes, Places, Receivers
    <2> QED BY <1>12, <2>1, <2>2 DEF ActivateNeeded, ThreadTypes, ThreadsHold
  <1>13. CASE ActivationReturns
    <2>1. HandlerTypes'
      BY <1>13 DEF ActivationReturns, HandlerTypes, handler
    <2>2. pc' \in [Receivers \cup {"sched"} -> Places] /\ ThreadsHold'
      BY <1>13, MoveTypes DEF ActivationReturns, Places, Receivers
    <2> QED BY <1>13, <2>1, <2>2 DEF ActivationReturns, ThreadTypes
  <1>14. CASE ResetLocks("sched", "check")
    BY <1>14, <1>5
  <1> QED BY <1>1, <1>3, <1>4, <1>9, <1>10, <1>11, <1>12, <1>13, <1>14 DEF Quiet

-----------------------------------------------------------------------------
(* The chain invariants.                                                   *)

ChainInv == KnownClosed /\ ActiveChainClean /\ LockedBranchClean /\ Aimed /\ NotIslocked

\* Only a lock that was held before needs an argument: one held anew is active.
LEMMA HeldCase ==
    ASSUME Observe,
           held # None /\ held' = held => (IF MainFree' THEN held \in Path[tip'] ELSE WayBack')
    PROVE  HeldIsIndex' /\ HeldStays'
  <1>1. HeldIsIndex'
    BY DEF Observe, HeldIsIndex
  <1>2. held' # None => held' = held \/ (MainFree' /\ held' \in Path[tip'])
    BY DEF Observe, MainFree
  <1>3. HeldStays'
    BY <1>2 DEF HeldStays
  <1> QED BY <1>1, <1>3

\* Nothing changes for a quiet step.
LEMMA QuietChain ==
    ASSUME ChainInv, HeldStays, Observe, UNCHANGED <<chain, act>>
    PROVE  ChainInv' /\ HeldIsIndex' /\ HeldStays'
  <1> USE DEF chain, act
  <1>1. NextBlock' = NextBlock
    BY DEF NextBlock
  <1>2. KnownClosed' /\ ActiveChainClean' /\ LockedBranchClean'
    BY DEF ChainInv, KnownClosed, ActiveChainClean, LockedBranchClean
  <1>3. Aimed'
    BY DEF ChainInv, Aimed, Flagged
  <1>4. NotIslocked'
    BY <1>1 DEF ChainInv, NotIslocked
  <1>5. ASSUME held # None, held' = held
        PROVE  IF MainFree' THEN held \in Path[tip'] ELSE WayBack'
    <2>1. MainFree' <=> MainFree
      BY DEF MainFree
    <2>2. CASE MainFree
      BY <1>5, <2>1, <2>2 DEF HeldStays
    <2>3. CASE ~MainFree
      BY <1>1, <1>5, <2>1, <2>3 DEF HeldStays, WayBack, OneBranch
    <2> QED BY <2>2, <2>3
  <1>6. HeldIsIndex' /\ HeldStays'
    BY <1>5, HeldCase
  <1> QED BY <1>2, <1>3, <1>4, <1>6 DEF ChainInv

\* A block that FindMostWorkChain drags along has a flagged ancestor that is not active.
LEMMA DraggedAbove ==
    ASSUME NEW dropped, NEW flags, NEW d \in Dragged(dropped, flags)
    PROVE  /\ d \in known
           /\ \E f \in flags : f \in Path[d] /\ f \in failed \cup conflict /\ f \notin Path[tip]
  BY DEF Dragged, Flagged

\* So it is on no way that is clean above the active chain.
LEMMA CleanNotDragged ==
    ASSUME NEW dropped, NEW flags, NEW c \in Blocks, Flagged(c) = {}
    PROVE  Path[c] \cap Dragged(dropped, flags) = {}
  <1> SUFFICES ASSUME NEW d \in Path[c], d \in Dragged(dropped, flags)
               PROVE  FALSE
    OBVIOUS
  <1>1. PICK f \in flags : f \in Path[d] /\ f \in failed \cup conflict /\ f \notin Path[tip]
    BY DraggedAbove
  <1>2. f \in Path[c]
    BY <1>1, AncestorFacts
  <1> QED BY <1>1, <1>2 DEF Flagged

\* A block that conflicts with one lock is on the way to none.
LEMMA ConflictsWithAll ==
    ASSUME NEW i \in Locks, NEW b \in Blocks, Height[b] <= Height[i], b \notin Path[i], NEW l \in Locks
    PROVE  b \notin Path[l]
  <1> SUFFICES ASSUME b \in Path[l] PROVE FALSE
    OBVIOUS
  <1>1. i \in Blocks /\ l \in Blocks
    BY LockIsBlock
  <1>2. CASE i \in Path[l]
    BY <1>1, <1>2, Ordered
  <1>3. CASE l \in Path[i]
    BY <1>1, <1>3, AncestorFacts
  <1> QED BY <1>2, <1>3, LocksAssumption

\* While cs_main is free, the way to a target left for the next round is clean.
LEMMA CleanTarget ==
    ASSUME ActiveChainClean, Aimed, phase \in {"connect", "set", "free"}, target # None
    PROVE  Path[target] \cap (failed \cup conflict) = {}
  BY DEF ActiveChainClean, Aimed, Flagged

\* What a step has to keep of the chain, the activation and the history.
Kept == ChainTypes /\ ActTypes /\ ChainInv /\ HeldIsIndex /\ HeldStays

\* AcceptBlockHeader.
LEMMA HeaderStep ==
    ASSUME Kept, HandlerTypes, NEW b \in Blocks \ {Genesis}, AcceptBlockHeader(b), Observe
    PROVE  Kept' /\ HandlerTypes'
  <1> DEFINE above == {c \in Path[b] \ {b} : Path[c] \cap failed # {}}
  <1>0. /\ MainFree /\ b \notin known /\ Parent[b] \in known
        /\ UNCHANGED <<data, islocks, tip, phase, start, target, spork, sporks, enforced, best, seen>>
    BY DEF AcceptBlockHeader, act
  <1>1. ActTypes'
    BY <1>0 DEF Kept, ActTypes
  <1>2. /\ known \subseteq Blocks /\ data \subseteq known /\ failed \subseteq known /\ conflict \subseteq known
        /\ islocks \subseteq Contested /\ tip \in Blocks /\ Path[tip] \subseteq data
        /\ KnownClosed /\ ActiveChainClean /\ LockedBranchClean /\ Aimed /\ NotIslocked
    BY DEF Kept, ChainTypes, ChainInv
  <1>3. Path[b] \subseteq known \cup {b}
    BY <1>0, <1>2, ParentFacts DEF KnownClosed
  <1>4. MainFree' /\ phase # "set"
    BY <1>0 DEF MainFree
  <1>5. NotIslocked'
    BY <1>0, <1>2, <1>4 DEF NotIslocked
  <1>6. HeldIsIndex' /\ HeldStays'
    BY <1>0, <1>4, HeldCase DEF Kept, HeldStays
  <1>7. target # None => target \in Blocks
    BY DEF Kept, ActTypes
  <1>8. CASE above # {}
    <2>1. failed' = failed \cup above /\ UNCHANGED <<known, conflict, index>>
      BY <1>8 DEF AcceptBlockHeader
    <2>2. ChainTypes' /\ KnownClosed' /\ LockedBranchClean'
      BY <1>0, <1>2, <1>3, <2>1 DEF ChainTypes, KnownClosed, LockedBranchClean
    <2>3. ASSUME NEW c \in Blocks, Path[c] \cap failed = {}
          PROVE  Path[c] \cap above = {}
      <3> SUFFICES ASSUME NEW d \in Path[c], d \in above PROVE FALSE
        OBVIOUS
      <3>1. Path[d] \subseteq Path[c]
        BY AncestorFacts
      <3> QED BY <2>3, <3>1
    <2>4. ActiveChainClean'
      BY <1>0, <1>2, <2>1, <2>3 DEF ActiveChainClean
    <2>5. ASSUME phase \in {"connect", "set", "free"}, target # None
          PROVE  Path[target] \cap (failed' \cup conflict') = {}
      BY <1>2, <1>7, <2>1, <2>3, <2>5, CleanTarget
    <2>6. Aimed'
      BY <1>0, <1>2, <2>5 DEF Aimed, Flagged
    <2>7. HandlerTypes'
      BY <1>0, <2>1 DEF HandlerTypes
    <2> QED BY <1>1, <1>5, <1>6, <2>2, <2>4, <2>6, <2>7 DEF Kept, ChainInv
  <1>9. CASE above = {}
    <2>1. /\ known' = known \cup {b} /\ failed' = failed
          /\ conflict' = IF HasConflictingChainLock(b) THEN conflict \cup {b} ELSE conflict
          /\ index' = IF best = b /\ ~HasConflictingChainLock(b) THEN b ELSE index
      BY <1>9 DEF AcceptBlockHeader
    <2>2. conflict' \subseteq conflict \cup {b}
      BY <2>1
    <2>3. ChainTypes' /\ KnownClosed'
      BY <1>0, <1>2, <1>3, <2>1, <2>2 DEF ChainTypes, KnownClosed
    <2>4. ActiveChainClean'
      BY <1>0, <1>2, <2>1, <2>2 DEF ActiveChainClean
    <2>5. LockedBranchClean'
      <3>1. CASE HasConflictingChainLock(b)
        <4>1. index \in Locks /\ Height[b] <= Height[index] /\ b \notin Path[index]
          BY <3>1 DEF HasConflictingChainLock, HandlerTypes
        <4>2. \A l \in Locks : b \notin Path[l]
          BY <4>1, ConflictsWithAll
        <4> QED BY <1>2, <2>2, <4>2 DEF LockedBranchClean
      <3>2. CASE ~HasConflictingChainLock(b)
        BY <1>2, <2>1, <3>2 DEF LockedBranchClean
      <3> QED BY <3>1, <3>2
    <2>6. Aimed'
      BY <1>0, <1>2, <2>1, <2>2 DEF Aimed, Flagged
    <2>7. HandlerTypes'
      BY <1>0, <2>1, TreeAssumption DEF HandlerTypes
    <2> QED BY <1>1, <1>5, <1>6, <2>3, <2>4, <2>5, <2>6, <2>7 DEF Kept, ChainInv
  <1> QED BY <1>8, <1>9

\* AcceptBlock.
LEMMA BlockStep ==
    ASSUME Kept, NEW b \in Blocks \ {Genesis}, AcceptBlock(b), Observe
    PROVE  Kept'
  <1>0. /\ MainFree /\ b \in known /\ data' = data \cup {b}
        /\ UNCHANGED <<known, failed, conflict, islocks, tip, phase, start, target>>
    BY DEF AcceptBlock, act
  <1>1. ChainTypes' /\ ActTypes'
    BY <1>0 DEF Kept, ChainTypes, ActTypes
  <1>2. KnownClosed' /\ ActiveChainClean' /\ LockedBranchClean'
    BY <1>0 DEF Kept, ChainInv, KnownClosed, ActiveChainClean, LockedBranchClean
  <1>3. Aimed'
    BY <1>0 DEF Kept, ChainInv, Aimed, Flagged
  <1>4. MainFree' /\ phase # "set"
    BY <1>0 DEF MainFree
  <1>5. NotIslocked'
    BY <1>0, <1>4 DEF Kept, ChainInv, NotIslocked
  <1>6. HeldIsIndex' /\ HeldStays'
    BY <1>0, <1>4, HeldCase DEF Kept, HeldStays
  <1> QED BY <1>1, <1>2, <1>3, <1>5, <1>6 DEF Kept, ChainInv

\* What FindMostWorkChain returns is usable, has the most work, and is not below the tip.
LEMMA MostWorkFacts ==
    ASSUME ChainTypes, NEW b \in MostWork
    PROVE  /\ b \in Blocks /\ Path[b] \subseteq data /\ Flagged(b) = {}
           /\ \A c \in Usable : Height[c] <= Height[b]
           /\ tip \in Usable
           /\ b # tip => b \notin Path[tip]
  <1>1. b \in Usable /\ \A c \in Usable : Height[c] <= Height[b]
    BY DEF MostWork
  <1>2. b \in Blocks /\ Path[b] \subseteq data /\ Flagged(b) = {}
    BY <1>1 DEF Usable, Candidates, ChainTypes
  <1>3. tip \in Usable
    BY TreeAssumption DEF Usable, Candidates, Flagged, ChainTypes
  <1>4. ASSUME b # tip, b \in Path[tip] PROVE FALSE
    <2>1. tip \in Blocks \ {Genesis}
      BY <1>4, TreeAssumption DEF ChainTypes
    <2>2. /\ Parent[tip] \in Blocks /\ Height[tip] = Height[Parent[tip]] + 1
          /\ Height[Parent[tip]] \in Nat /\ Height[tip] \in Nat
      BY <2>1, ParentFacts
    <2>3. b \in Path[Parent[tip]]
      BY <1>4, <2>1, BelowParent
    <2>4. Height[b] <= Height[Parent[tip]] /\ Height[b] \in Nat
      BY <2>2, <2>3, AncestorFacts
    <2>5. Height[tip] <= Height[b]
      BY <1>1, <1>3
    <2> QED BY <2>2, <2>4, <2>5
  <1> QED BY <1>1, <1>2, <1>3, <1>4

\* FindMostWorkChain and the disconnection that follows it, at the start of an
\* activation or after an invalid block.
LEMMA AimStep ==
    ASSUME Kept, NEW b \in Blocks, NEW from \in Blocks, Aim(b, from), Observe,
           (MainFree /\ from = tip) \/ (phase = "find" /\ from = start)
    PROVE  Kept'
  <1>1. /\ known \subseteq Blocks /\ data \subseteq known /\ failed \subseteq known /\ conflict \subseteq known
        /\ islocks \subseteq Contested /\ tip \in Blocks /\ Path[tip] \subseteq data
        /\ KnownClosed /\ ActiveChainClean /\ LockedBranchClean /\ Aimed /\ NotIslocked /\ ChainTypes
    BY DEF Kept, ChainTypes, ChainInv
  <1>0. PICK dropped \in SUBSET Candidates :
          /\ failed' = failed \cup Dragged(dropped, failed)
          /\ conflict' = conflict \cup Dragged(dropped, conflict \ failed)
    BY DEF Aim, FindMostWorkChain
  <1>2. /\ b \in MostWork
        /\ failed' = failed \cup Dragged(dropped, failed)
        /\ conflict' = conflict \cup Dragged(dropped, conflict \ failed)
        /\ UNCHANGED <<known, data, islocks>>
    BY <1>0 DEF Aim, FindMostWorkChain
  <1>3. /\ Path[b] \subseteq data /\ Flagged(b) = {}
        /\ \A c \in Usable : Height[c] <= Height[b]
        /\ tip \in Usable
        /\ b # tip => b \notin Path[tip]
    BY <1>1, <1>2, MostWorkFacts
  <1>4. Dragged(dropped, failed) \subseteq known /\ Dragged(dropped, conflict \ failed) \subseteq known
    BY DEF Dragged
  <1>5. ASSUME NEW c \in Blocks, Flagged(c) = {}
        PROVE  (Path[c] \ Path[tip]) \cap (failed' \cup conflict') = {}
    <2>1. Path[c] \cap Dragged(dropped, failed) = {} /\ Path[c] \cap Dragged(dropped, conflict \ failed) = {}
      BY <1>5, CleanNotDragged
    <2> QED BY <1>2, <1>5, <2>1 DEF Flagged
  <1>6. Path[tip] \cap (failed' \cup conflict') = {}
    <2>1. Flagged(tip) = {}
      BY DEF Flagged
    <2>2. Path[tip] \cap Dragged(dropped, failed) = {} /\ Path[tip] \cap Dragged(dropped, conflict \ failed) = {}
      BY <1>1, <2>1, CleanNotDragged
    <2> QED BY <1>1, <1>2, <2>2 DEF ActiveChainClean
  <1>7. LockedBranchClean'
    <2> SUFFICES ASSUME NEW l \in Locks, NEW d \in Path[l], d \in Dragged(dropped, conflict \ failed)
                 PROVE  FALSE
      BY <1>1, <1>2 DEF LockedBranchClean
    <2>1. PICK f \in conflict : f \in Path[d]
      BY DraggedAbove
    <2>2. f \in Path[l]
      BY <2>1, LockIsBlock, AncestorFacts
    <2> QED BY <1>1, <2>1, <2>2 DEF LockedBranchClean
  <1>8. KnownClosed'
    BY <1>1, <1>2 DEF KnownClosed
  <1>9. held # None => held \in Blocks
    <2>1. held # None => index \in Path[tip] \/ index \in Path[start]
      BY DEF Kept, HeldIsIndex, HeldStays, WayBack
    <2>2. start \in Blocks
      BY DEF Kept, ActTypes
    <2> QED BY <1>1, <2>1, <2>2, AncestorFacts DEF Kept, HeldIsIndex
  <1>10. ASSUME held # None, phase = "find"
         PROVE  /\ OneBranch(held, tip) /\ held \in Path[start] /\ start \in Blocks
                /\ Path[start] \subseteq data
                /\ Path[start] \cap (failed \cup conflict \cup islocks) = {}
                /\ start \in Usable
    <2>1. WayBack /\ start \in Blocks
      BY <1>10 DEF Kept, HeldStays, MainFree, ActTypes
    <2>2. start \in Usable
      <3>1. start \in Path[start]
        BY <2>1, TreeAssumption
      <3>2. start \in known /\ Path[start] \subseteq data
        BY <1>1, <2>1, <3>1 DEF WayBack
      <3>3. Flagged(start) = {}
        BY <2>1 DEF WayBack, Flagged
      <3> QED BY <3>2, <3>3 DEF Usable, Candidates
    <2> QED BY <2>1, <2>2 DEF WayBack
  <1>11. CASE b = tip
    <2>1. phase' = "idle" /\ start' = Genesis /\ target' = None /\ tip' = tip
      BY <1>11 DEF Aim
    <2>2. ChainTypes' /\ ActTypes'
      BY <1>1, <1>2, <1>4, <2>1, TreeAssumption DEF ChainTypes, ActTypes
    <2>3. ActiveChainClean' /\ Aimed' /\ NotIslocked'
      BY <1>1, <1>2, <1>6, <2>1 DEF ActiveChainClean, Aimed, NotIslocked
    <2>4. MainFree'
      BY <2>1 DEF MainFree
    <2>5. ASSUME held # None PROVE held \in Path[tip]
      <3>1. CASE MainFree
        BY <2>5, <3>1 DEF Kept, HeldStays
      <3>2. CASE phase = "find"
        <4>1. OneBranch(held, tip) /\ held \in Path[start] /\ start \in Blocks /\ Height[start] <= Height[tip]
          BY <1>3, <1>10, <1>11, <2>5, <3>2
        <4>2. Height[held] <= Height[start] /\ Height[held] \in Nat /\ Height[start] \in Nat
          BY <4>1, AncestorFacts
        <4>3. Height[tip] \in Nat
          BY <1>1, TreeAssumption
        <4>4. Height[held] <= Height[tip]
          BY <4>1, <4>2, <4>3
        <4> QED BY <1>1, <1>9, <2>5, <4>1, <4>4, Reaches
      <3> QED BY <3>1, <3>2
    <2>6. HeldIsIndex' /\ HeldStays'
      BY <2>1, <2>4, <2>5, HeldCase
    <2> QED BY <1>7, <1>8, <2>2, <2>3, <2>6 DEF Kept, ChainInv
  <1>12. CASE b # tip
    <2>1. phase' = "connect" /\ start' = from /\ target' = b /\ tip' = FindFork(b)
      BY <1>12 DEF Aim
    <2>2. tip' \in Blocks /\ Path[tip'] = Path[b] \cap Path[tip] /\ tip' \in Path[b] /\ tip' \in Path[tip]
      BY <1>1, <2>1, ForkFacts
    <2>3. ChainTypes' /\ ActTypes'
      BY <1>1, <1>2, <1>4, <2>1, <2>2 DEF ChainTypes, ActTypes
    <2>4. ActiveChainClean' /\ ~MainFree'
      BY <1>6, <2>1, <2>2 DEF ActiveChainClean, MainFree
    <2>5. NotIslocked'
      BY <1>1, <1>2, <2>1, <2>2 DEF NotIslocked
    <2>6. Aimed'
      <3>1. tip' # b
        BY <1>3, <1>12, <2>2
      <3>2. (Path[b] \ Path[tip']) \cap (failed' \cup conflict') = {}
        BY <1>3, <1>5, <2>2
      <3>3. b # None
        BY TreeAssumption
      <3> QED BY <1>2, <1>3, <2>1, <2>2, <3>1, <3>2, <3>3 DEF Aimed, Flagged
    <2>7. ASSUME held # None, held' = held PROVE WayBack'
      <3>1. OneBranch(held, tip')
        <4>1. OneBranch(held, tip)
          BY <1>10, <2>7 DEF Kept, HeldStays, OneBranch
        <4>2. CASE held \in Path[tip]
          BY <1>1, <2>2, <4>2, Ordered, AncestorFacts DEF OneBranch
        <4>3. CASE tip \in Path[held]
          BY <1>9, <2>2, <2>7, <4>3, AncestorFacts DEF OneBranch
        <4> QED BY <4>1, <4>2, <4>3 DEF OneBranch
      <3>2. CASE MainFree /\ from = tip
        <4>1. held \in Path[tip] /\ Height[tip] <= Height[b]
          BY <1>3, <2>7, <3>2 DEF Kept, HeldStays
        <4>2. Height[b] \in Nat /\ Height[tip] \in Nat
          BY <1>1, TreeAssumption
        <4> QED BY <1>1, <1>2, <1>6, <2>1, <2>7, <3>1, <3>2, <4>1, <4>2 DEF WayBack, OneBranch, NotIslocked
      <3>3. CASE phase = "find" /\ from = start
        <4>1. /\ held \in Path[start] /\ start \in Blocks /\ Path[start] \subseteq data
              /\ Path[start] \cap (failed \cup conflict \cup islocks) = {} /\ Height[start] <= Height[b]
          BY <1>3, <1>10, <2>7, <3>3
        <4>2. Flagged(start) = {}
          BY <4>1 DEF Flagged
        <4>3. Path[start] \cap (failed' \cup conflict') = {}
          BY <1>5, <1>6, <4>1, <4>2
        <4>4. Height[b] \in Nat /\ Height[start] \in Nat
          BY <4>1, TreeAssumption
        <4> QED BY <1>2, <2>1, <2>7, <3>1, <3>3, <4>1, <4>3, <4>4 DEF WayBack, OneBranch
      <3> QED BY <3>2, <3>3
    <2>8. HeldIsIndex' /\ HeldStays'
      BY <2>4, <2>7, HeldCase
    <2> QED BY <1>7, <1>8, <2>3, <2>4, <2>5, <2>6, <2>8 DEF Kept, ChainInv
  <1> QED BY <1>11, <1>12

\* A lock held during an activation is a block on one branch with the tip, and a tip
\* as high as the starting one has it again.
LEMMA HeldBack ==
    ASSUME Kept, held # None, ~MainFree, NEW c \in Blocks, OneBranch(held, c), Height[start] <= Height[c]
    PROVE  held \in Path[c]
  <1>1. start \in Blocks /\ held \in Path[start]
    BY DEF Kept, ActTypes, HeldStays, WayBack
  <1>2. held \in Blocks /\ Height[held] <= Height[start] /\ Height[held] \in Nat /\ Height[start] \in Nat
    BY <1>1, AncestorFacts
  <1>3. Height[c] \in Nat
    BY TreeAssumption
  <1>4. Height[held] <= Height[c]
    BY <1>2, <1>3
  <1> QED BY <1>2, <1>4, Reaches

\* ConnectBlock, refused or not.
LEMMA ConnectStep ==
    ASSUME Kept, ConnectBlock, Observe
    PROVE  Kept'
  <1>1. /\ known \subseteq Blocks /\ data \subseteq known /\ failed \subseteq known /\ conflict \subseteq known
        /\ islocks \subseteq Contested /\ tip \in Blocks /\ Path[tip] \subseteq data
        /\ KnownClosed /\ ActiveChainClean /\ LockedBranchClean /\ Aimed /\ NotIslocked /\ start \in Blocks
    BY DEF Kept, ChainTypes, ActTypes, ChainInv
  <1>2. /\ phase = "connect" /\ ~MainFree
        /\ UNCHANGED <<known, data, conflict, tip, start, enforced, index>>
    BY DEF ConnectBlock, MainFree, handler
  <1>3. target \in Blocks /\ tip # target /\ tip \in Path[target] /\ Path[target] \subseteq data /\ Flagged(target) = {}
    BY <1>1, <1>2 DEF Aimed, Kept, ActTypes
  <1>4. /\ NextBlock \in Path[target] /\ NextBlock \in Blocks /\ NextBlock \notin Path[tip]
    BY <1>1, <1>3, NextBlockFacts
  <1>5. KnownClosed' /\ LockedBranchClean'
    BY <1>1, <1>2 DEF KnownClosed, LockedBranchClean
  <1>6. held # None => WayBack /\ held = index /\ enforced
    BY <1>2 DEF Kept, HeldIsIndex, HeldStays
  <1>7. CASE Refused(NextBlock)
    <2>1. /\ failed' = failed \cup {NextBlock} /\ islocks' = islocks
          /\ target' = None /\ phase' \in {"free", "find"}
          /\ phase' = "free" => ~(Height[tip] < Height[start])
      BY <1>7 DEF ConnectBlock, Hold
    <2>2. ChainTypes' /\ ActTypes'
      BY <1>1, <1>2, <1>3, <1>4, <2>1 DEF ChainTypes, ActTypes
    <2>3. ActiveChainClean' /\ Aimed' /\ NotIslocked'
      BY <1>1, <1>2, <1>4, <2>1 DEF ActiveChainClean, Aimed, NotIslocked
    <2>4. ASSUME held # None, held' = held
          PROVE  IF MainFree' THEN held \in Path[tip'] ELSE WayBack'
      <3>1. CASE phase' = "free"
        <4>1. Height[start] <= Height[tip] /\ OneBranch(held, tip)
          BY <1>1, <1>6, <2>1, <2>4, <3>1, TreeAssumption DEF WayBack
        <4>2. held \in Path[tip]
          BY <1>1, <1>2, <2>4, <4>1, HeldBack
        <4> QED BY <1>2, <2>1, <3>1, <4>2 DEF MainFree
      <3>2. CASE phase' = "find"
        <4>1. NextBlock \notin Path[start]
          <5> SUFFICES ASSUME NextBlock \in Path[start] PROVE FALSE
            OBVIOUS
          <5>1. HasConflictingChainLock(NextBlock)
            BY <1>6, <1>7, <2>4 DEF WayBack, Refused
          <5>2. Height[NextBlock] <= Height[held] /\ NextBlock \notin Path[held] /\ held \in Path[start]
            BY <1>6, <2>4, <5>1 DEF HasConflictingChainLock, WayBack
          <5> QED BY <1>1, <5>2, Ordered
        <4>2. phase' = "find" /\ ~MainFree'
          BY <3>2 DEF MainFree
        <4> QED BY <1>2, <1>6, <2>1, <2>4, <4>1, <4>2 DEF WayBack, OneBranch
      <3> QED BY <2>1, <3>1, <3>2
    <2>5. HeldIsIndex' /\ HeldStays'
      BY <2>4, HeldCase
    <2> QED BY <1>5, <2>2, <2>3, <2>5 DEF Kept, ChainInv
  <1>8. CASE ~Refused(NextBlock)
    <2>1. islocks' = islocks \ {NextBlock} /\ phase' = "set" /\ failed' = failed /\ target' = target
      BY <1>8 DEF ConnectBlock
    <2>2. NextBlock' = NextBlock
      BY <1>2, <2>1 DEF NextBlock
    <2>3. ChainTypes' /\ ActTypes'
      BY <1>1, <1>2, <1>3, <2>1 DEF ChainTypes, ActTypes
    <2>4. ActiveChainClean' /\ NotIslocked' /\ ~MainFree'
      BY <1>1, <1>2, <2>1, <2>2 DEF ActiveChainClean, NotIslocked, MainFree
    <2>5. Aimed'
      BY <1>1, <1>2, <2>1 DEF Aimed, Flagged
    <2>6. ASSUME held # None, held' = held PROVE WayBack'
      <3>1. Height[NextBlock] <= Height[held] => NextBlock \in Path[held]
        BY <1>6, <1>8, <2>6 DEF Refused, HasConflictingChainLock
      <3> QED BY <1>2, <1>6, <2>1, <2>2, <2>6, <3>1 DEF WayBack, OneBranch
    <2>7. HeldIsIndex' /\ HeldStays'
      BY <2>4, <2>6, HeldCase
    <2> QED BY <1>5, <2>3, <2>4, <2>5, <2>7 DEF Kept, ChainInv
  <1> QED BY <1>7, <1>8

\* The new tip.
LEMMA SetTipStep ==
    ASSUME Kept, SetTip, Observe
    PROVE  Kept'
  <1>1. /\ known \subseteq Blocks /\ data \subseteq known /\ failed \subseteq known /\ conflict \subseteq known
        /\ islocks \subseteq Contested /\ tip \in Blocks /\ Path[tip] \subseteq data
        /\ KnownClosed /\ ActiveChainClean /\ LockedBranchClean /\ Aimed /\ NotIslocked /\ start \in Blocks
    BY DEF Kept, ChainTypes, ActTypes, ChainInv
  <1>2. /\ phase = "set" /\ ~MainFree /\ tip' = NextBlock
        /\ phase' \in {"free", "connect"}
        /\ phase' = "free" => NextBlock = target \/ ~(Height[NextBlock] < Height[start])
        /\ phase' = "connect" => NextBlock # target
        /\ UNCHANGED <<known, data, failed, conflict, islocks, start, target, index, enforced>>
    BY DEF SetTip, Hold, MainFree, handler
  <1>3. target \in Blocks /\ tip # target /\ tip \in Path[target] /\ Path[target] \subseteq data /\ Flagged(target) = {}
    BY <1>1, <1>2 DEF Aimed, Kept, ActTypes
  <1>4. /\ NextBlock \in Path[target] /\ NextBlock \in Blocks /\ NextBlock \notin Path[tip]
        /\ Height[NextBlock] = Height[tip] + 1 /\ tip \in Path[NextBlock]
        /\ Path[NextBlock] \subseteq Path[tip] \cup {NextBlock}
        /\ Height[NextBlock] \in Nat /\ Height[tip] \in Nat
    BY <1>1, <1>3, NextBlockFacts
  <1>5. Path[tip] \subseteq Path[NextBlock] /\ Path[NextBlock] \subseteq Path[target]
    BY <1>3, <1>4, AncestorFacts
  <1>6. ChainTypes' /\ ActTypes'
    BY <1>1, <1>2, <1>3, <1>4, <1>5 DEF ChainTypes, ActTypes
  <1>7. KnownClosed' /\ LockedBranchClean'
    BY <1>1, <1>2 DEF KnownClosed, LockedBranchClean
  <1>8. ActiveChainClean'
    BY <1>1, <1>2, <1>3, <1>4 DEF ActiveChainClean, Flagged
  <1>9. NotIslocked'
    BY <1>1, <1>2, <1>4 DEF NotIslocked
  <1>10. Aimed'
    BY <1>1, <1>2, <1>3, <1>4, <1>5 DEF Aimed, Flagged
  <1>11. ASSUME held # None, held' = held
         PROVE  IF MainFree' THEN held \in Path[tip'] ELSE WayBack'
    <2>1. WayBack
      BY <1>2, <1>11 DEF Kept, HeldStays
    <2>2. held \in Blocks
      BY <1>1, <2>1, AncestorFacts DEF WayBack
    <2>3. Height[held] \in Nat /\ Height[start] \in Nat /\ Height[target] \in Nat
      BY <1>1, <1>3, <2>2, TreeAssumption
    <2>4. OneBranch(held, NextBlock)
      <3>1. CASE Height[NextBlock] <= Height[held]
        BY <1>2, <2>1, <3>1 DEF WayBack, OneBranch
      <3>2. CASE ~(Height[NextBlock] <= Height[held])
        <4>1. Height[held] <= Height[tip]
          BY <1>4, <2>3, <3>2
        <4>2. held \in Path[tip]
          BY <1>1, <2>1, <2>2, <4>1, Reaches DEF WayBack
        <4> QED BY <1>5, <4>2 DEF OneBranch
      <3> QED BY <3>1, <3>2
    <2>5. CASE phase' = "free"
      <3>1. Height[start] <= Height[NextBlock]
        BY <1>2, <1>4, <2>1, <2>3, <2>5 DEF WayBack
      <3>2. held \in Path[NextBlock]
        BY <1>2, <1>4, <1>11, <2>4, <3>1, HeldBack
      <3> QED BY <1>2, <2>5, <3>2 DEF MainFree
    <2>6. CASE phase' = "connect"
      <3>1. phase' = "connect" /\ ~MainFree'
        BY <2>6 DEF MainFree
      <3> QED BY <1>2, <1>11, <2>1, <2>4, <3>1 DEF WayBack, OneBranch
    <2> QED BY <1>2, <2>5, <2>6
  <1>12. HeldIsIndex' /\ HeldStays'
    BY <1>11, HeldCase
  <1> QED BY <1>6, <1>7, <1>8, <1>9, <1>10, <1>12 DEF Kept, ChainInv

\* The next round.
LEMMA NextRoundStep ==
    ASSUME Kept, NextRound, Observe
    PROVE  Kept'
  <1>1. /\ tip \in Blocks /\ Path[tip] \subseteq data /\ ChainTypes
        /\ KnownClosed /\ ActiveChainClean /\ LockedBranchClean /\ Aimed /\ NotIslocked
    BY DEF Kept, ChainTypes, ChainInv
  <1>2. /\ phase = "free" /\ target # None /\ MainFree
        /\ UNCHANGED <<known, data, failed, conflict, islocks, tip>>
    BY DEF NextRound, MainFree, chain
  <1>3. target \in Blocks /\ tip \in Path[target] /\ Path[target] \subseteq data /\ Flagged(target) = {}
    BY <1>1, <1>2 DEF Aimed, Kept, ActTypes
  <1>4. ChainTypes' /\ KnownClosed' /\ ActiveChainClean' /\ LockedBranchClean'
    BY <1>1, <1>2 DEF ChainTypes, KnownClosed, ActiveChainClean, LockedBranchClean
  <1>5. held # None => held \in Path[tip]
    BY <1>2 DEF Kept, HeldStays
  <1>6. CASE tip = target
    <2>1. phase' = "idle" /\ start' = Genesis /\ target' = None
      BY <1>6 DEF NextRound
    <2>2. ActTypes' /\ Aimed' /\ NotIslocked' /\ MainFree'
      BY <1>1, <1>2, <2>1, TreeAssumption DEF ActTypes, Aimed, NotIslocked, MainFree
    <2>3. HeldIsIndex' /\ HeldStays'
      BY <1>2, <1>5, <2>2, HeldCase
    <2> QED BY <1>4, <2>2, <2>3 DEF Kept, ChainInv
  <1>7. CASE tip # target
    <2>1. phase' = "connect" /\ start' = tip /\ target' = target
      BY <1>7 DEF NextRound
    <2>2. ActTypes' /\ NotIslocked' /\ ~MainFree'
      BY <1>1, <1>2, <1>3, <2>1 DEF ActTypes, NotIslocked, MainFree
    <2>3. Aimed'
      BY <1>2, <1>3, <1>7, <2>1 DEF Aimed, Flagged
    <2>4. ASSUME held # None, held' = held PROVE WayBack'
      <3>1. Height[target] >= Height[tip]
        BY <1>3, AncestorFacts
      <3> QED BY <1>1, <1>2, <1>5, <2>1, <2>4, <3>1 DEF WayBack, OneBranch, ActiveChainClean, NotIslocked
    <2>5. HeldIsIndex' /\ HeldStays'
      BY <2>2, <2>4, HeldCase
    <2> QED BY <1>4, <2>2, <2>3, <2>5 DEF Kept, ChainInv
  <1> QED BY <1>6, <1>7

\* The root is on every path.
LEMMA GenesisActive ==
    ASSUME NEW b \in Blocks
    PROVE  Genesis \in Path[b]
  <1>1. PICK d \in Blocks : Path[d] = Path[b] \cap Path[Genesis]
    BY TreeAssumption
  <1>2. d \in Path[d] /\ Path[Genesis] = {Genesis}
    BY <1>1, TreeAssumption
  <1> QED BY <1>1, <1>2

\* A sibling of the locked branch is as high as the block of the branch it stands
\* beside, and is on the way to no lock.
LEMMA SiblingFacts ==
    ASSUME ChainTypes, NEW l \in Locks, NEW c \in Siblings(l)
    PROVE  /\ c \in known /\ c \in Blocks \ {Genesis}
           /\ \E d \in Path[l] \ Path[tip] : /\ d \in Blocks \ {Genesis}
                                             /\ Parent[c] = Parent[d] /\ Height[c] = Height[d]
           /\ \A k \in Locks : c \notin Path[k]
  <1>1. c \in known /\ c \in Blocks \ {Genesis} /\ c \notin Path[l]
    BY DEF Siblings, ChainTypes
  <1>2. l \in Blocks /\ tip \in Blocks
    BY LockIsBlock DEF ChainTypes
  <1>3. PICK d \in Path[l] \ Path[tip] : Parent[c] = Parent[d]
    BY DEF Siblings
  <1>4. d \in Blocks \ {Genesis}
    BY <1>2, <1>3, GenesisActive, AncestorFacts
  <1>5. Height[c] = Height[d]
    BY <1>1, <1>3, <1>4, ParentFacts
  <1>6. ASSUME NEW k \in Locks, c \in Path[k] PROVE FALSE
    <2>1. k \in Blocks
      BY LockIsBlock
    <2>2. CASE k \in Path[l]
      BY <1>1, <1>2, <1>6, <2>2, AncestorFacts
    <2>3. CASE l \in Path[k]
      <3>1. d \in Path[k]
        BY <1>2, <1>3, <2>1, <2>3, AncestorFacts
      <3>2. Height[c] <= Height[d]
        BY <1>4, <1>5, TreeAssumption
      <3>3. c \in Path[d]
        BY <1>6, <2>1, <3>1, <3>2, Ordered
      <3> QED BY <1>1, <1>2, <1>3, <3>3, AncestorFacts
    <2> QED BY <2>2, <2>3, LocksAssumption
  <1> QED BY <1>1, <1>3, <1>4, <1>5, <1>6

\* Below an active sibling there is no other one: the branch leaves the active chain once.
LEMMA OneActiveSibling ==
    ASSUME ChainTypes, NEW l \in Locks, NEW c \in Siblings(l), c \in Path[tip]
    PROVE  Siblings(l) \cap Path[Parent[c]] = {}
  <1> SUFFICES ASSUME NEW e \in Siblings(l), e \in Path[Parent[c]] PROVE FALSE
    OBVIOUS
  <1>1. l \in Blocks /\ tip \in Blocks /\ c \in Blocks \ {Genesis}
    BY LockIsBlock, SiblingFacts DEF ChainTypes
  <1>2. PICK d \in Path[l] \ Path[tip] : /\ d \in Blocks \ {Genesis}
                                         /\ Parent[c] = Parent[d] /\ Height[c] = Height[d]
    BY SiblingFacts
  <1>3. PICK f \in Path[l] \ Path[tip] : f \in Blocks \ {Genesis} /\ Height[e] = Height[f]
    BY SiblingFacts
  <1>4. /\ Parent[c] \in Blocks /\ Height[c] = Height[Parent[c]] + 1 /\ Parent[c] \in Path[c]
        /\ Height[Parent[c]] \in Nat
    BY <1>1, ParentFacts
  <1>5. Height[e] <= Height[Parent[c]] /\ Height[e] \in Nat
    BY <1>4, AncestorFacts
  <1>6. Height[f] <= Height[d] /\ f # d
    <2>1. Height[f] <= Height[Parent[c]] /\ Height[d] = Height[Parent[c]] + 1
      BY <1>2, <1>3, <1>4, <1>5
    <2>2. Height[f] \in Nat
      BY <1>3, <1>5
    <2>3. Height[f] < Height[d]
      BY <1>4, <2>1, <2>2
    <2>4. Height[f] # Height[d]
      BY <1>4, <2>1, <2>2
    <2> QED BY <1>4, <2>1, <2>2, <2>3, <2>4
  <1>7. f \in Path[d]
    BY <1>1, <1>6, Ordered
  <1>8. f \in Path[Parent[d]]
    BY <1>2, <1>6, <1>7, BelowParent
  <1>9. Parent[c] \in Path[tip]
    BY <1>1, <1>4, AncestorFacts
  <1>10. f \in Path[tip]
    BY <1>1, <1>2, <1>8, <1>9, AncestorFacts
  <1> QED BY <1>3, <1>10

\* EnforceBlock leaves the tip where it is or at the parent of an active sibling.
LEMMA CutFacts ==
    ASSUME NEW l \in Locks
    PROVE  \/ Siblings(l) \cap Path[tip] = {} /\ Cut(l) = tip
           \/ \E c \in Siblings(l) : c \in Path[tip] /\ Cut(l) = Parent[c]
  <1>1. CASE Siblings(l) \cap Path[tip] = {}
    BY <1>1 DEF Cut
  <1>2. CASE Siblings(l) \cap Path[tip] # {}
    <2>1. \E c \in Siblings(l) : c \in Path[tip]
      BY <1>2
    <2>2. /\ (CHOOSE c \in Siblings(l) : c \in Path[tip]) \in Siblings(l)
          /\ (CHOOSE c \in Siblings(l) : c \in Path[tip]) \in Path[tip]
      BY <2>1
    <2> QED BY <1>2, <2>2 DEF Cut
  <1> QED BY <1>1, <1>2

\* EnforceBlock, as the scheduler calls it.
LEMMA EnforceStep ==
    ASSUME Kept, snap \in Locks, EnforceBestChainLock, held # None => held \in Locks, Observe
    PROVE  Kept'
  <1>1. /\ known \subseteq Blocks /\ data \subseteq known /\ failed \subseteq known /\ conflict \subseteq known
        /\ islocks \subseteq Contested /\ tip \in Blocks /\ Path[tip] \subseteq data /\ ChainTypes
        /\ KnownClosed /\ ActiveChainClean /\ LockedBranchClean /\ Aimed /\ NotIslocked
    BY DEF Kept, ChainTypes, ChainInv
  <1>2. /\ phase = "idle" /\ UNCHANGED <<known, data, islocks, phase, start, target>>
        /\ tip' = Cut(snap)
        /\ conflict' = conflict \cup Siblings(snap) \cup (Path[tip] \ Path[Cut(snap)])
        /\ failed' \subseteq failed
    BY DEF EnforceBestChainLock, EnforceBlock, act
  <1>3. MainFree /\ MainFree'
    BY <1>2 DEF MainFree
  <1>4. Siblings(snap) \subseteq known
    BY DEF Siblings
  <1>5. ActTypes' /\ KnownClosed' /\ Aimed'
    BY <1>1, <1>2 DEF Kept, ActTypes, KnownClosed, Aimed
  <1>6. \A l \in Locks : Siblings(snap) \cap Path[l] = {}
    BY <1>1, SiblingFacts
  <1>7. held # None => held \in Path[tip]
    BY <1>3 DEF Kept, HeldStays
  <1>8. CASE Siblings(snap) \cap Path[tip] = {} /\ Cut(snap) = tip
    <2>1. conflict' = conflict \cup Siblings(snap) /\ tip' = tip
      BY <1>2, <1>8
    <2>2. ChainTypes' /\ ActiveChainClean' /\ LockedBranchClean' /\ NotIslocked'
      BY <1>1, <1>2, <1>4, <1>6, <1>8, <2>1
         DEF ChainTypes, ActiveChainClean, LockedBranchClean, NotIslocked
    <2>3. HeldIsIndex' /\ HeldStays'
      BY <1>3, <1>7, <2>1, HeldCase
    <2> QED BY <1>5, <2>2, <2>3 DEF Kept, ChainInv
  <1>9. ASSUME NEW c \in Siblings(snap), c \in Path[tip], Cut(snap) = Parent[c]
        PROVE  Kept'
    <2>1. /\ c \in Blocks \ {Genesis} /\ \A k \in Locks : c \notin Path[k]
      BY <1>1, SiblingFacts
    <2>2. /\ Parent[c] \in Blocks /\ Parent[c] \in Path[c] /\ Path[c] = Path[Parent[c]] \cup {c}
          /\ Height[c] = Height[Parent[c]] + 1 /\ Height[Parent[c]] \in Nat
      BY <2>1, ParentFacts
    <2>3. Path[c] \subseteq Path[tip] /\ Parent[c] \in Path[tip] /\ Path[Parent[c]] \subseteq Path[tip]
      BY <1>1, <1>9, <2>2, AncestorFacts
    <2>4. tip' = Parent[c] /\ conflict' = conflict \cup Siblings(snap) \cup (Path[tip] \ Path[Parent[c]])
      BY <1>2, <1>9
    <2>5. ChainTypes'
      BY <1>1, <1>2, <1>4, <2>2, <2>3, <2>4 DEF ChainTypes
    <2>6. ActiveChainClean' /\ NotIslocked'
      <3>1. Siblings(snap) \cap Path[Parent[c]] = {}
        BY <1>1, <1>9, OneActiveSibling
      <3> QED BY <1>1, <1>2, <2>3, <2>4, <3>1 DEF ActiveChainClean, NotIslocked
    <2>7. ASSUME NEW e \in Path[tip], e \notin Path[Parent[c]]
          PROVE  c \in Path[e]
      <3>1. e \in Blocks /\ Height[e] \in Nat
        BY <1>1, AncestorFacts
      <3>2. ~(Height[e] <= Height[Parent[c]])
        BY <1>1, <2>3, <2>7, Ordered
      <3>3. Height[c] <= Height[e]
        BY <2>2, <3>1, <3>2
      <3> QED BY <1>1, <1>9, <3>3, Ordered
    <2>8. LockedBranchClean'
      <3> SUFFICES ASSUME NEW l \in Locks, NEW e \in Path[l], e \in Path[tip] \ Path[Parent[c]]
                   PROVE  FALSE
        BY <1>1, <1>6, <2>4 DEF LockedBranchClean
      <3>1. c \in Path[e] /\ l \in Blocks
        BY <2>7, LockIsBlock
      <3>2. c \in Path[l]
        BY <3>1, AncestorFacts
      <3> QED BY <2>1, <3>2
    <2>9. ASSUME held # None PROVE held \in Path[tip']
      <3>1. held \in Path[tip] /\ held \in Locks /\ held \in Blocks
        BY <1>7, <2>9, LockIsBlock
      <3>2. c \notin Path[held]
        BY <2>1, <3>1
      <3> QED BY <2>4, <2>7, <3>1, <3>2
    <2>10. HeldIsIndex' /\ HeldStays'
      BY <1>3, <2>9, HeldCase
    <2> QED BY <1>5, <2>5, <2>6, <2>8, <2>10 DEF Kept, ChainInv
  <1> QED BY <1>8, <1>9, CutFacts

-----------------------------------------------------------------------------
(* The theorems.                                                           *)

\* The invariant, in the groups the steps are proved by.
LEMMA IInvParts ==
    /\ IInv <=> (Kept /\ HandlerTypes /\ ThreadTypes /\ ThreadsHold /\ held \in Locks \cup {None})
    /\ IInv' <=> (Kept /\ HandlerTypes /\ ThreadTypes /\ ThreadsHold /\ held \in Locks \cup {None})'
  BY TypeGroups DEF IInv, Kept, ChainInv

\* The initial state has the invariant.
LEMMA InitHolds == Init => IInv
  <1> SUFFICES ASSUME Init PROVE IInv
    OBVIOUS
  <1> USE DEF Init
  <1>1. ChainTypes /\ ActTypes
    BY TreeAssumption DEF ChainTypes, ActTypes
  <1>2. HandlerTypes
    <2>1. sporks \in 0..MaxSporks
      BY LocksAssumption
    <2>2. spork \in BOOLEAN /\ enforced \in BOOLEAN
      OBVIOUS
    <2>3. best \in Locks \cup {None} /\ index \in Locks \cup {None} /\ seen \subseteq Locks
      OBVIOUS
    <2> QED BY <2>1, <2>2, <2>3 DEF HandlerTypes
  <1>3. ThreadTypes
    BY DEF ThreadTypes, Places
  <1>4. ThreadsHold
    BY DEF ThreadsHold, Receivers
  <1>5. KnownClosed /\ ActiveChainClean /\ LockedBranchClean
    BY TreeAssumption DEF KnownClosed, ActiveChainClean, LockedBranchClean
  <1>6. Aimed
    BY DEF Aimed
  <1>7. NotIslocked
    BY TreeAssumption, LocksAssumption DEF NotIslocked
  <1>8. HeldIsIndex /\ HeldStays
    BY DEF HeldIsIndex, HeldStays
  <1> QED BY <1>1, <1>2, <1>3, <1>4, <1>5, <1>6, <1>7, <1>8, IInvParts DEF Kept, ChainInv

\* A step is quiet, or one of the chain's.
LEMMA StepKinds ==
    ASSUME Step
    PROVE  \/ Quiet
           \/ \E b \in Blocks \ {Genesis} : AcceptBlockHeader(b) \/ AcceptBlock(b)
           \/ ActivateBestChain \/ FindAgain \/ ActivateLocked
           \/ ConnectBlock \/ SetTip \/ NextRound \/ EnforceBestChainLock
  BY DEF Step, Scheduled, Activating, Quiet

\* A step of the chain that leaves handler and threads alone keeps their types.
LEMMA ThreadFrame ==
    ASSUME HandlerTypes, ThreadTypes, ThreadsHold, UNCHANGED <<spork, sporks, handler, threads>>
    PROVE  HandlerTypes' /\ ThreadTypes' /\ ThreadsHold'
  <1>1. HandlerTypes'
    BY DEF HandlerTypes, handler
  <1>2. ThreadTypes'
    BY DEF ThreadTypes, threads
  <1>3. ThreadsHold'
    BY DEF ThreadsHold, threads
  <1> QED BY <1>1, <1>2, <1>3

\* Every step keeps the invariant.
LEMMA StepHolds == IInv /\ [Next]_vars => IInv'
  <1> SUFFICES ASSUME IInv, [Next]_vars PROVE IInv'
    OBVIOUS
  <1>1. Kept /\ HandlerTypes /\ ThreadTypes /\ ThreadsHold /\ held \in Locks \cup {None}
    BY IInvParts
  <1>2. CASE UNCHANGED vars
    <2>1. UNCHANGED <<chain, act, handler, threads, spork, sporks, held>>
      BY <1>2 DEF vars
    <2>2. HandlerTypes' /\ ThreadTypes' /\ ThreadsHold'
      BY <1>1, <2>1, ThreadFrame
    <2>3. ChainTypes' /\ ActTypes' /\ KnownClosed' /\ ActiveChainClean' /\ LockedBranchClean'
      BY <1>1, <2>1 DEF Kept, ChainInv, ChainTypes, ActTypes, KnownClosed, ActiveChainClean,
                        LockedBranchClean, chain, act
    <2>4. NextBlock' = NextBlock
      BY <2>1 DEF NextBlock, chain, act
    <2>5. Aimed' /\ NotIslocked'
      BY <1>1, <2>1, <2>4 DEF Kept, ChainInv, Aimed, Flagged, NotIslocked, chain, act
    <2>6. HeldIsIndex'
      BY <1>1, <2>1 DEF Kept, HeldIsIndex, handler
    <2>7. HeldStays'
      BY <1>1, <2>1, <2>4 DEF Kept, HeldStays, WayBack, OneBranch, MainFree, chain, act
    <2> QED BY <1>1, <2>1, <2>2, <2>3, <2>5, <2>6, <2>7, IInvParts DEF Kept, ChainInv
  <1>3. CASE Next
    <2>1. Step /\ Observe
      BY <1>3 DEF Next
    <2>2. SUFFICES Kept' /\ HandlerTypes' /\ ThreadTypes' /\ ThreadsHold'
      BY <2>1, <2>2, HeldType, IInvParts
    <2>3. CASE Quiet
      <3>1. HandlerTypes' /\ ThreadTypes' /\ ThreadsHold' /\ UNCHANGED <<chain, act>>
        BY <1>1, <2>3, QuietTypes
      <3>2. ChainInv' /\ HeldIsIndex' /\ HeldStays'
        BY <1>1, <2>1, <3>1, QuietChain DEF Kept
      <3>3. ChainTypes' /\ ActTypes'
        BY <1>1, <3>1 DEF Kept, ChainTypes, ActTypes, chain, act
      <3> QED BY <3>1, <3>2, <3>3 DEF Kept
    <2>4. ASSUME NEW b \in Blocks \ {Genesis}, AcceptBlockHeader(b)
          PROVE  Kept' /\ HandlerTypes' /\ ThreadTypes' /\ ThreadsHold'
      <3>1. Kept' /\ HandlerTypes'
        BY <1>1, <2>1, <2>4, HeaderStep
      <3>2. UNCHANGED threads
        BY <2>4 DEF AcceptBlockHeader
      <3> QED BY <1>1, <3>1, <3>2 DEF ThreadTypes, ThreadsHold, threads
    <2>5. ASSUME NEW b \in Blocks \ {Genesis}, AcceptBlock(b)
          PROVE  Kept' /\ HandlerTypes' /\ ThreadTypes' /\ ThreadsHold'
      <3>1. Kept'
        BY <1>1, <2>1, <2>5, BlockStep
      <3> QED BY <1>1, <2>5, <3>1, ThreadFrame DEF AcceptBlock
    <2>6. tip \in Blocks /\ start \in Blocks
      BY <1>1 DEF Kept, ChainTypes, ActTypes
    <2>7. CASE ActivateBestChain
      <3>1. PICK b \in Blocks : Aim(b, tip)
        BY <2>7 DEF ActivateBestChain
      <3>2. Kept'
        BY <1>1, <2>1, <2>6, <2>7, <3>1, AimStep DEF ActivateBestChain, MainFree
      <3>3. UNCHANGED <<spork, sporks, handler, threads>>
        BY <2>7, <3>1 DEF ActivateBestChain, Aim
      <3> QED BY <1>1, <3>2, <3>3, ThreadFrame
    <2>8. CASE FindAgain
      <3>1. CASE phase = "find" /\ \E b \in Blocks : Aim(b, start)
        <4>1. PICK b \in Blocks : Aim(b, start)
          BY <3>1
        <4>2. Kept'
          BY <1>1, <2>1, <2>6, <3>1, <4>1, AimStep
        <4>3. UNCHANGED <<spork, sporks, handler, threads>>
          BY <2>8, <4>1 DEF FindAgain, Aim
        <4> QED BY <1>1, <4>2, <4>3, ThreadFrame
      <3>2. CASE phase = "free" /\ \E b \in Blocks : Aim(b, tip)
        <4>1. PICK b \in Blocks : Aim(b, tip)
          BY <3>2
        <4>2. Kept'
          BY <1>1, <2>1, <2>6, <3>2, <4>1, AimStep DEF MainFree
        <4>3. UNCHANGED <<spork, sporks, handler, threads>>
          BY <2>8, <4>1 DEF FindAgain, Aim
        <4> QED BY <1>1, <4>2, <4>3, ThreadFrame
      <3> QED BY <2>8, <3>1, <3>2 DEF FindAgain
    <2>9. CASE ActivateLocked
      <3>1. PICK b \in Blocks : Aim(b, tip)
        BY <2>9 DEF ActivateLocked
      <3>2. Kept'
        BY <1>1, <2>1, <2>6, <2>9, <3>1, AimStep DEF ActivateLocked, MainFree
      <3>3. HandlerTypes'
        BY <1>1, <3>1 DEF Aim, HandlerTypes, handler
      <3>4. pc' \in [Receivers \cup {"sched"} -> Places] /\ ThreadsHold'
        BY <1>1, <2>9, MoveTypes DEF ActivateLocked, Places, Receivers
      <3> QED BY <1>1, <2>9, <3>2, <3>3, <3>4 DEF ActivateLocked, ThreadTypes
    <2>10. CASE ConnectBlock
      BY <1>1, <2>1, <2>10, ConnectStep, ThreadFrame DEF ConnectBlock
    <2>11. CASE SetTip
      BY <1>1, <2>1, <2>11, SetTipStep, ThreadFrame DEF SetTip
    <2>12. CASE NextRound
      BY <1>1, <2>1, <2>12, NextRoundStep, ThreadFrame DEF NextRound
    <2>13. CASE EnforceBestChainLock
      <3>1. snap \in Locks
        BY <1>1, <2>13 DEF EnforceBestChainLock, ThreadsHold
      <3>2. Kept'
        BY <1>1, <2>1, <2>13, <3>1, EnforceStep
      <3>3. HandlerTypes'
        BY <1>1, <2>13 DEF EnforceBestChainLock, HandlerTypes, handler
      <3>4. pc' \in [Receivers \cup {"sched"} -> Places] /\ \A u \in Receivers : pc'[u] = pc[u]
        BY <1>1, <2>13 DEF EnforceBestChainLock, Go, ThreadTypes, Places, Receivers
      <3>5. ThreadTypes' /\ ThreadsHold'
        BY <1>1, <2>13, <3>1, <3>4 DEF EnforceBestChainLock, ThreadTypes, ThreadsHold
      <3> QED BY <3>2, <3>3, <3>5
    <2> QED BY <2>1, <2>3, <2>4, <2>5, <2>7, <2>8, <2>9, <2>10, <2>11, <2>12, <2>13, StepKinds
  <1> QED BY <1>2, <1>3

\* The invariant holds of every behaviour of the handler and the chain.
THEOREM Invariance == Spec => []IInv
  BY InitHolds, StepHolds, PTL DEF Spec

\* Every variable keeps its type, and the active chain only has blocks whose data and
\* ancestors have arrived.
THEOREM TypeCorrect == Spec => []TypeOK
  <1>1. IInv => TypeOK
    BY DEF IInv
  <1> QED BY <1>1, Invariance, PTL

\* The active chain never holds a failed or conflicting block.
THEOREM ActiveChainCleanAlways == Spec => []ActiveChainClean
  <1>1. IInv => ActiveChainClean
    BY DEF IInv
  <1> QED BY <1>1, Invariance, PTL

\* No block of the locked branch is ever marked as conflicting, whichever lock is the
\* best one, stale or reset.
THEOREM LockedBranchCleanAlways == Spec => []LockedBranchClean
  <1>1. IInv => LockedBranchClean
    BY DEF IInv
  <1> QED BY <1>1, Invariance, PTL

\* An active lock is not replaced while it is the one being enforced.
THEOREM LockedStaysAlways == Spec => []LockedStays
  <1>1. IInv => LockedStays
    BY DEF IInv, HeldStays, LockedStays, InChain
  <1> QED BY <1>1, Invariance, PTL
=============================================================================
