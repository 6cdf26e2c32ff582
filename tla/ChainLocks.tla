------------------------------ MODULE ChainLocks ------------------------------
(***************************************************************************)
(* One node's ChainLocks handler (llmq/chainlocks.cpp) together with the   *)
(* part of validation.cpp it steers: header acceptance, chain activation   *)
(* and the enforcement of a locked block.                                  *)
(*                                                                         *)
(* A ChainLock is a recovered quorum signature for the block at a height   *)
(* (LLMQSigning, RecoveredSigs); here a lock is the block it names.        *)
(*                                                                         *)
(* Four threads run: the message handler ("net") and the signature worker  *)
(* ("rec") both bring locks in, the scheduler ("sched") enforces the best  *)
(* one, and block processing accepts headers and blocks and activates the  *)
(* best chain.  A step is what a thread does under one hold of the         *)
(* handler's mutex cs.  cs_main and m_cs_chainstate are held across the    *)
(* steps of an activation, so locks can arrive in its midst.               *)
(***************************************************************************)
EXTENDS Integers, FiniteSets

CONSTANTS
    Blocks,     \* the block tree the network produces
    Genesis,    \* its root, known and active from the start
    Parent,     \* Parent[b]: pprev of every block but Genesis
    Height,     \* Height[b]: nHeight, which also stands for nChainWork
    Path,       \* Path[b]: b and its ancestors
    Locks,      \* the blocks the quorums sign
    OwnLocks,   \* those whose signature this node helped to create
    Contested,  \* blocks that may hold a transaction conflicting with an islock
    MaxSporks,  \* bound on the changes of spork 19
    None

\* The block tree: a block extends its parent's path by one, paths contain the paths
\* of their blocks and every height up to their own, two ancestors of one block are
\* ordered by height, and two branches part at a last common block.
ASSUME TreeAssumption ==
    /\ None \notin Blocks
    /\ Genesis \in Blocks
    /\ Parent \in [Blocks \ {Genesis} -> Blocks]
    /\ Height \in [Blocks -> Nat]
    /\ Path \in [Blocks -> SUBSET Blocks]
    /\ Path[Genesis] = {Genesis}
    /\ \A b \in Blocks \ {Genesis} : /\ Path[b] = Path[Parent[b]] \cup {b}
                                     /\ Height[b] = Height[Parent[b]] + 1
    /\ \A b \in Blocks : b \in Path[b]
    /\ \A b \in Blocks : \A c \in Path[b] : Path[c] \subseteq Path[b]
    /\ \A b \in Blocks : \A c \in Path[b] \ {b} : \E d \in Path[b] : Height[d] = Height[c] + 1
    /\ \A b \in Blocks : \A c, d \in Path[b] : Height[c] <= Height[d] <=> c \in Path[d]
    /\ \A b, c \in Blocks : \E d \in Blocks : Path[d] = Path[b] \cap Path[c]

\* One lock per height is what the signing protocol promises (RecoveredSigs);
\* that locks of different heights lie on one branch is assumed of the quorums.
ASSUME LocksAssumption ==
    /\ Locks \subseteq Blocks \ {Genesis}
    /\ \A b, c \in Locks : b \in Path[c] \/ c \in Path[b]
    /\ OwnLocks \subseteq Locks
    /\ Contested \subseteq Blocks \ {Genesis}
    /\ MaxSporks \in Nat

VARIABLES
    known,      \* blocks of the block index
    data,       \* those with BLOCK_HAVE_DATA
    failed,     \* those with BLOCK_FAILED_VALID or BLOCK_FAILED_CHILD
    conflict,   \* those with BLOCK_CONFLICT_CHAINLOCK
    islocks,    \* blocks with a transaction that conflicts with an islock; all islocks
                \* are known at the start
    tip,        \* m_chain.Tip()
    phase,      \* where the running ActivateBestChain is, "idle" when none runs
    start,      \* its starting_tip
    target,     \* its pindexMostWork
    spork,      \* SPORK_19_CHAINLOCKS_ENABLED
    sporks,     \* how often the spork changed
    enforced,   \* isEnforced (and isEnabled: DIP0008 is active throughout)
    best,       \* bestChainLock
    index,      \* bestChainLockBlockIndex
    seen,       \* seenChainLocks
    pc,         \* the next step of each of the threads net, rec and sched
    lock,       \* clsig in ProcessNewChainLock, per thread
    found,      \* whether its block was found in the index, per thread
    snap,       \* currentBestChainLockBlockIndex in EnforceBestChainLock
    held        \* history: the index, once it was seen in the active chain

chain == <<known, data, failed, conflict, islocks, tip>>
act == <<phase, start, target>>
handler == <<enforced, best, index, seen>>
threads == <<pc, lock, found, snap>>
vars == <<chain, act, spork, sporks, handler, threads, held>>

Receivers == {"net", "rec"}

\* Every variable has its type, and what is stored is known: data, flags and
\* the active chain only concern blocks of the index.
TypeOK ==
    /\ known \subseteq Blocks /\ data \subseteq known
    /\ failed \subseteq known /\ conflict \subseteq known
    /\ islocks \subseteq Contested
    /\ tip \in Blocks /\ Path[tip] \subseteq data
    /\ phase \in {"idle", "find", "connect", "set", "free"}
    /\ start \in Blocks
    /\ target \in Blocks \cup {None}
    /\ spork \in BOOLEAN /\ enforced \in BOOLEAN
    /\ sporks \in 0..MaxSporks
    /\ best \in Locks \cup {None}
    /\ index \in Locks \cup {None}
    /\ seen \subseteq Locks
    /\ pc \in [Receivers \cup {"sched"} ->
                 {"idle", "reset", "check", "lookup", "store", "enforce",
                  "need", "activate", "wait"}]
    /\ lock \in [Receivers -> Locks \cup {None}]
    /\ found \in [Receivers -> BOOLEAN]
    /\ snap \in Locks \cup {None}
    /\ held \in Locks \cup {None}

Init ==
    /\ known = {Genesis} /\ data = {Genesis}
    /\ failed = {} /\ conflict = {}
    /\ islocks \in SUBSET Contested
    /\ tip = Genesis
    /\ phase = "idle" /\ start = Genesis /\ target = None
    /\ spork = FALSE /\ sporks = 0
    /\ enforced = FALSE
    /\ best = None /\ index = None /\ seen = {}
    /\ pc = [t \in Receivers \cup {"sched"} |-> "idle"]
    /\ lock = [t \in Receivers |-> None]
    /\ found = [t \in Receivers |-> FALSE]
    /\ snap = None /\ held = None

-----------------------------------------------------------------------------
(* What the handler answers about a block, and the chain helpers.          *)

HasChainLock(b) == enforced /\ index # None /\ b \in Path[index]

\* Variant: blocks above the lock are compared too.
ConflictAtAnyHeight(b) == enforced /\ index # None /\ b \notin Path[index]

HasConflictingChainLock(b) ==
    enforced /\ index # None /\ Height[b] <= Height[index] /\ b \notin Path[index]

InChain(b) == b \in Path[tip]
MainFree == phase \in {"idle", "free"}      \* no activation holds cs_main
Above(lck, b) == lck # None /\ Height[lck] >= Height[b]
Go(t, where) == pc' = [pc EXCEPT ![t] = where]

-----------------------------------------------------------------------------
(* Block processing: headers, blocks and the activation of the best chain. *)

\* AcceptBlockHeader for a new block: refused under a flagged parent; below a
\* failed block the blocks in between become failed; a block conflicting with
\* the lock enters the index with its mark; otherwise the handler is told.
AcceptBlockHeader(b) ==
    /\ MainFree
    /\ b \notin known /\ Parent[b] \in known \ (failed \cup conflict)
    /\ LET above == {c \in Path[b] \ {b} : Path[c] \cap failed # {}} IN
       IF above # {}
         THEN failed' = failed \cup above /\ UNCHANGED <<known, conflict, index>>
         ELSE /\ known' = known \cup {b}
              /\ conflict' = IF HasConflictingChainLock(b) THEN conflict \cup {b} ELSE conflict
              /\ index' = IF best = b /\ ~HasConflictingChainLock(b) THEN b ELSE index
              /\ UNCHANGED failed
    /\ UNCHANGED <<data, islocks, tip, act, spork, sporks, enforced, best, seen,
                   threads>>

\* Variant: the header need not be accepted first.
AcceptUnindexed(b) ==
    /\ MainFree
    /\ b \notin data \cup failed \cup conflict
    /\ data' = data \cup {b}
    /\ UNCHANGED <<known, failed, conflict, islocks, tip, act, spork, sporks, handler, threads>>

\* AcceptBlock for a block of the index: data of a flagged block is refused.
AcceptBlock(b) ==
    /\ MainFree
    /\ b \in known \ (data \cup failed \cup conflict)
    /\ data' = data \cup {b}
    /\ UNCHANGED <<known, failed, conflict, islocks, tip, act, spork, sporks, handler, threads>>

\* Candidates have the data of their whole path; FindMostWorkChain walks each one
\* down to the active chain and drops it at the first flagged block.
Candidates == {b \in known : Path[b] \subseteq data}
Flagged(b) == (Path[b] \ Path[tip]) \cap (failed \cup conflict)
Usable == {b \in Candidates : Flagged(b) = {}}

\* The usable candidates with the most work.  Which one of equals goes first is left
\* open, here and below: the order of arrival (nSequenceId) is not modelled.
MostWork == {b \in Usable : \A c \in Usable : Height[c] <= Height[b]}

\* The blocks that take one of these flags while FindMostWorkChain drops these
\* candidates: those above the first flagged block of such a candidate.
Dragged(dropped, flags) ==
    {d \in known : \E c \in dropped : \E f \in flags :
        /\ f \in Flagged(c) /\ Flagged(c) \subseteq Path[f]
        /\ d \in Path[c] /\ f \in Path[d]}

\* FindMostWorkChain returning b: it drops the better ones, and those equals that go
\* before b.
FindMostWorkChain(b) ==
    /\ b \in MostWork
    /\ \E dropped \in SUBSET {c \in Candidates \ Usable : Height[c] >= Height[b]} :
        /\ \A c \in Candidates : Height[c] > Height[b] => c \in dropped
        /\ failed' = failed \cup Dragged(dropped, failed)
        /\ conflict' = conflict \cup Dragged(dropped, conflict \ failed)

\* m_chain.FindFork
FindFork(b) == CHOOSE c \in Blocks : Path[c] = Path[b] \cap Path[tip]

\* ActivateBestChain has found b: with nothing better it returns, else
\* ActivateBestChainStep disconnects down to the fork.
Aim(b, from) ==
    /\ FindMostWorkChain(b)
    /\ IF b = tip
         THEN phase' = "idle" /\ start' = Genesis /\ target' = None /\ UNCHANGED tip
         ELSE /\ phase' = "connect" /\ start' = from /\ target' = b
              /\ tip' = FindFork(b)
    /\ UNCHANGED <<known, data, islocks, spork, sporks, handler>>

\* Block processing calls ActivateBestChain when there may be something to do.
ActivateBestChain ==
    /\ phase = "idle"
    /\ \E b \in Blocks : Aim(b, tip)
    /\ UNCHANGED threads

\* An activation that lost its target to an invalid block looks for another one:
\* at once while the tip is worse than the starting one, else with cs_main released.
FindAgain ==
    /\ target = None
    /\ \/ phase = "find" /\ \E b \in Blocks : Aim(b, start)
       \/ phase = "free" /\ \E b \in Blocks : Aim(b, tip)
    /\ UNCHANGED threads

\* The block ConnectTip is given next, on the path from the tip to the target.
NextBlock == CHOOSE b \in Path[target] : Height[b] = Height[tip] + 1

\* Whether cs_main is released with b as the tip (phase "free"): if b is better than
\* the starting tip, not if it is worse; else the phase is next.
Hold(b, next) ==
    (IF Height[b] > Height[start] THEN {} ELSE {next}) \cup
    (IF Height[b] < Height[start] THEN {} ELSE {"free"})

\* Variant: only islocks are checked.
RefusedByIslock(b) == b \in islocks /\ ~HasChainLock(b)

\* ConnectBlock refuses a block that conflicts with the lock (its first check), or with
\* an islock that no lock overrides.  Either check alone is one hold of cs; a lock that
\* comes between the two changes no verdict.
Refused(b) == HasConflictingChainLock(b) \/ (b \in islocks /\ ~HasChainLock(b))

\* ConnectTip up to the verdict of ConnectBlock: a refused block is marked by
\* InvalidBlockFound, an accepted one removes the islocks against it.
ConnectBlock ==
    /\ phase = "connect"
    /\ IF Refused(NextBlock)
         THEN /\ failed' = failed \cup {NextBlock}
              /\ target' = None /\ phase' \in Hold(tip, "find")
              /\ UNCHANGED islocks
         ELSE /\ islocks' = islocks \ {NextBlock}
              /\ phase' = "set"
              /\ UNCHANGED <<failed, target>>
    /\ UNCHANGED <<known, data, conflict, tip, start, spork, sporks, handler, threads>>

\* The end of ConnectTip: the tip moves, and cs_main is released once it is better
\* than the starting tip or nothing is left to connect.
SetTip ==
    /\ phase = "set"
    /\ tip' = NextBlock
    /\ phase' \in IF NextBlock = target THEN {"free"} ELSE Hold(NextBlock, "connect")
    /\ UNCHANGED <<known, data, failed, conflict, islocks, start, target, spork,
                   sporks, handler, threads>>

\* The next round of ActivateBestChain: done at the target, else on towards it.
NextRound ==
    /\ phase = "free" /\ target # None
    /\ IF tip = target THEN phase' = "idle" /\ start' = Genesis /\ target' = None
                       ELSE phase' = "connect" /\ start' = tip /\ UNCHANGED target
    /\ UNCHANGED <<chain, spork, sporks, handler, threads>>

-----------------------------------------------------------------------------
(* The handler.                                                            *)

\* Spork 19 is switched by its signers.
ChangeSpork ==
    /\ sporks < MaxSporks
    /\ spork' = ~spork /\ sporks' = sporks + 1
    /\ UNCHANGED <<chain, act, handler, threads>>

\* The first half of CheckActiveState, of thread t: the flags follow the spork.
UpdateActiveState(t, next) ==
    /\ MainFree
    /\ enforced' = spork
    /\ Go(t, IF ~enforced /\ spork THEN "reset" ELSE next)

\* Its second half, when enforcement came on: forget the locks of before.
ResetLocks(t, next) ==
    /\ pc[t] = "reset"
    /\ best' = None /\ index' = None
    /\ Go(t, next)
    /\ UNCHANGED <<chain, act, spork, sporks, enforced, seen, lock, found, snap>>

\* ProcessMessage hands a lock to ProcessNewChainLock while the spork is on.  A lock
\* is not fetched from a peer when it was seen (AlreadyHave).
ReceiveLock(l) ==
    /\ pc["net"] = "idle" /\ spork /\ l \notin seen
    /\ lock' = [lock EXCEPT !["net"] = l]
    /\ UpdateActiveState("net", "check")
    /\ UNCHANGED <<chain, act, spork, sporks, best, index, seen, found, snap>>

\* HandleNewRecoveredSig makes a lock of the signature on a block this node signed
\* (TrySignChainTip is left out), unless one as high is there.
HandleNewRecoveredSig(l) ==
    /\ pc["rec"] = "idle"
    /\ l \in OwnLocks /\ enforced /\ ~Above(best, l)
    /\ lock' = [lock EXCEPT !["rec"] = l]
    /\ UpdateActiveState("rec", "check")
    /\ UNCHANGED <<chain, act, spork, sporks, best, index, seen, found, snap>>

\* A receiver is done with its lock.
Done(t) ==
    /\ Go(t, "idle")
    /\ lock' = [lock EXCEPT ![t] = None]
    /\ found' = [found EXCEPT ![t] = FALSE]

\* ProcessNewChainLock: nothing to do for a lock seen before or not above the best.
CheckSeen(t) ==
    /\ pc[t] = "check"
    /\ seen' = seen \cup {lock[t]}
    /\ IF lock[t] \in seen \/ Above(best, lock[t])
         THEN Done(t)
         ELSE Go(t, "lookup") /\ UNCHANGED <<lock, found>>
    /\ UNCHANGED <<chain, act, spork, sporks, enforced, best, index, snap>>

\* VerifyRecoveredSig (locks are valid by definition) and LookupBlockIndex.
LookupBlock(t) ==
    /\ pc[t] = "lookup" /\ MainFree
    /\ found' = [found EXCEPT ![t] = lock[t] \in known]
    /\ Go(t, "store")
    /\ UNCHANGED <<chain, act, spork, sporks, handler, lock, snap>>

\* The lock becomes the best one, whatever is the best one by now.
StoreLock(t) ==
    /\ pc[t] = "store"
    /\ best' = lock[t]
    /\ index' = IF found[t] THEN lock[t] ELSE index
    /\ Done(t)
    /\ UNCHANGED <<chain, act, spork, sporks, enforced, seen, snap>>

-----------------------------------------------------------------------------
(* The scheduler: CheckActiveState and EnforceBestChainLock.               *)

RunTask ==
    /\ pc["sched"] = "idle"
    /\ UpdateActiveState("sched", "check")
    /\ UNCHANGED <<chain, act, spork, sporks, best, index, seen, lock, found, snap>>

\* EnforceBestChainLock takes the lock to enforce, if there is one.
TakeSnapshot ==
    /\ pc["sched"] = "check"
    /\ IF enforced /\ index # None
         THEN snap' = index /\ Go("sched", "enforce")
         ELSE Go("sched", "idle") /\ UNCHANGED snap
    /\ UNCHANGED <<chain, act, spork, sporks, handler, lock, found>>

\* MarkConflictingBlock for every sibling of the locked block and of its ancestors
\* down to the active chain; an active one is disconnected first, with all above.
Siblings(b) ==
    {c \in known \ (Path[b] \cup {Genesis}) :
        \E d \in Path[b] \ Path[tip] : Parent[c] = Parent[d]}

\* Variant: the siblings are marked but stay connected.
MarkOnly(b) == tip

\* Where MarkConflictingBlock leaves the tip.
Cut(b) ==
    IF Siblings(b) \cap Path[tip] = {} THEN tip
    ELSE Parent[CHOOSE c \in Siblings(b) : c \in Path[tip]]

\* Variant: failure flags stay.
EnforceFailed(b) ==
    /\ tip' = Cut(b)
    /\ conflict' = conflict \cup Siblings(b) \cup (Path[tip] \ Path[Cut(b)])
    /\ UNCHANGED failed

\* EnforceBlock also clears the failure flags around a block not known as valid.
EnforceBlock(b) ==
    /\ tip' = Cut(b)
    /\ conflict' = conflict \cup Siblings(b) \cup (Path[tip] \ Path[Cut(b)])
    /\ failed' = IF b \in failed \/ b \notin data
                   THEN {c \in failed : b \notin Path[c] /\ c \notin Path[b]}
                   ELSE failed

EnforceBestChainLock ==
    /\ pc["sched"] = "enforce" /\ phase = "idle"
    /\ EnforceBlock(snap)
    /\ Go("sched", "need")
    /\ UNCHANGED <<known, data, islocks, act, spork, sporks, handler, lock, found, snap>>

ActivateNeeded ==
    /\ pc["sched"] = "need" /\ MainFree
    /\ Go("sched", IF InChain(snap) THEN "idle" ELSE "activate")
    /\ snap' = None
    /\ UNCHANGED <<chain, act, spork, sporks, handler, lock, found>>

ActivateLocked ==
    /\ pc["sched"] = "activate" /\ phase = "idle"
    /\ \E b \in Blocks : Aim(b, tip)
    /\ Go("sched", "wait")
    /\ UNCHANGED <<lock, found, snap>>

ActivationReturns ==
    /\ pc["sched"] = "wait" /\ phase = "idle"
    /\ Go("sched", "idle")
    /\ UNCHANGED <<chain, act, spork, sporks, handler, lock, found, snap>>

-----------------------------------------------------------------------------
Receiving == \E t \in Receivers : ResetLocks(t, "check") \/ CheckSeen(t) \/ LookupBlock(t) \/ StoreLock(t)

Scheduled ==
    \/ RunTask \/ ResetLocks("sched", "check") \/ TakeSnapshot \/ EnforceBestChainLock
    \/ ActivateNeeded \/ ActivateLocked \/ ActivationReturns

Activating == FindAgain \/ ConnectBlock \/ SetTip \/ NextRound

Step ==
    \/ \E b \in Blocks \ {Genesis} : AcceptBlockHeader(b) \/ AcceptBlock(b)
    \/ ActivateBestChain \/ Activating
    \/ ChangeSpork
    \/ \E l \in Locks : ReceiveLock(l) \/ HandleNewRecoveredSig(l)
    \/ Receiving \/ Scheduled

\* The history of the lock being enforced: seen active while cs_main was free.
Observe ==
    held' = IF /\ enforced' /\ index' # None
               /\ (phase' \in {"idle", "free"} /\ index' \in Path[tip']) \/ held = index'
              THEN index' ELSE None

Next == Step /\ Observe

\* The scheduler runs its task every five seconds, and an activation that was
\* begun goes on: only the environment may stop.
Spec ==
    /\ Init /\ [][Next]_vars
    /\ WF_vars(Scheduled /\ Observe) /\ WF_vars(Activating /\ Observe)

-----------------------------------------------------------------------------
(* Properties.                                                             *)

\* The active chain holds no block flagged as failed or conflicting: marking a block
\* disconnects it first, and no activation connects one (FindMostWorkChain relies
\* on it: "we know all blocks in it are valid already").
ActiveChainClean == Path[tip] \cap (failed \cup conflict) = {}

\* No block of the branch the quorums lock is ever marked as conflicting, although
\* the best lock may go back, be reset with the spork, or be enforced from a stale
\* snapshot: the mark is never cleared, so the node could not follow that branch.
LockedBranchClean == \A l \in Locks : Path[l] \cap conflict = {}

\* A lock that was seen in the active chain stays there while it is the one being
\* enforced: whenever cs_main is free, no activation has replaced it, more work or not.
LockedStays == MainFree /\ held # None => InChain(held)

\* The node does not stay off a locked branch: it is never for good that a lock is
\* to be enforced, its block and ancestors have arrived and the active chain lacks it.
\* Earlier failures of the branch, more work elsewhere and a ConnectBlock that passed
\* its check just before the lock came do not keep it out.
KeptOut == enforced /\ index # None /\ Path[index] \subseteq data /\ ~InChain(index)
LockTakesEffect == []<>~KeptOut
=============================================================================
