---------------------------- MODULE StakeManager ----------------------------
(***************************************************************************)
(* The life cycle of the staking thread: the manager thread                *)
(* (src/pos/manager.cpp), the start, stop and main loop of the miner       *)
(* thread (src/pos/minter.cpp), the setstaking call (src/rpc/misc.cpp) and *)
(* the node's Shutdown (src/init.cpp), which stops the miner a second time *)
(* from a thread of its own.                                               *)
(*                                                                         *)
(* Every statement that reads or writes a flag shared by two threads is a  *)
(* step of its own, so all interleavings of the plain and of the atomic    *)
(* flags are explored.  Sleeps are left out: a sleeping thread is one that *)
(* has not taken its next step yet, and a timed wait may always end.       *)
(* Whether the node is synced, past the proof-of-work era, able to search  *)
(* and lucky is chosen by the environment at each round of the miner.      *)
(*                                                                         *)
(* vStakeThreads is not locked.  A push_back while another thread walks    *)
(* the vector is undefined; the walk here keeps the elements it started    *)
(* with, which is what the freed buffer still holds.  This can only happen *)
(* once Shutdown has begun.                                                *)
(***************************************************************************)
EXTENDS Naturals, Sequences

CONSTANT MaxRequests    \* how many times setstaking is called

ASSUME MaxRequestsAssumption == MaxRequests \in Nat

VARIABLES
  requestStart,    \* fStakerRequestStart
  requestStop,     \* fStakerRequestStop
  running,         \* fStakerRunning
  stopMinerProc,   \* fStopMinerProc
  isStaking,       \* fIsStaking
  tryToSync,       \* fTryToSync
  vStakeThreads,   \* the StakeThread objects, by the number of their thread
  wake,            \* fWakeMinerProc of each StakeThread
  miner,           \* where each staking thread is
  pc,              \* where the manager thread and the shutdown thread are
  todo,            \* the threads the running StopThreadStakeMiner has to join
  started,         \* how many staking threads have been created
  calls,           \* how many setstaking calls have been made
  reply            \* "staking status" of the last setstaking call

managerFlags == <<requestStart, requestStop, running>>
minerFlags   == <<stopMinerProc, isStaking, tryToSync>>
threads      == <<vStakeThreads, wake, miner, started>>
client       == <<calls, reply>>
vars == <<managerFlags, minerFlags, threads, pc, todo, client>>

Threads == 1..MaxRequests
Actors  == {"handler", "shutoff"}

\* The threads whose function has not returned.
Live == {t \in Threads : miner[t] \notin {"none", "done"}}

Goto(a, label) == pc' = [pc EXCEPT ![a] = label]

Init ==
  /\ requestStart = FALSE /\ requestStop = FALSE /\ running = FALSE
  /\ stopMinerProc = FALSE /\ isStaking = FALSE /\ tryToSync = FALSE
  /\ vStakeThreads = <<>>
  /\ wake = [t \in Threads |-> FALSE]
  /\ miner = [t \in Threads |-> "none"]
  /\ pc = [a \in Actors |-> IF a = "handler" THEN "outer" ELSE "up"]
  /\ todo = [a \in Actors |-> <<>>]
  /\ started = 0
  /\ calls = 0
  /\ reply = FALSE

-----------------------------------------------------------------------------
(* Mistaken variants of some steps below; each breaks a property. *)

\* The running loop clears the wrong request.
RunClearWrongFlag ==
  /\ pc["handler"] = "run.clear"
  /\ requestStop' = FALSE
  /\ Goto("handler", "run.test")
  /\ UNCHANGED <<requestStart, running, minerFlags, threads, todo, client>>

\* The idle loop clears the wrong request.
IdleClearWrongFlag ==
  /\ pc["handler"] = "idle.clear"
  /\ requestStart' = FALSE
  /\ Goto("handler", "idle.test")
  /\ UNCHANGED <<requestStop, running, minerFlags, threads, todo, client>>

\* The new thread is not put in the vector.
StartPushForgotten ==
  /\ pc["handler"] = "start.push"
  /\ Goto("handler", "start.flag")
  /\ UNCHANGED <<managerFlags, minerFlags, threads, todo, client>>

\* The stop flag is not lowered.
StartFlagForgotten ==
  /\ pc["handler"] = "start.flag"
  /\ Goto("handler", "idle.on")
  /\ UNCHANGED <<managerFlags, minerFlags, threads, todo, client>>

\* The thread is detached instead of joined.
StopJoinDetach(a) ==
  /\ pc[a] = "stop.join"
  /\ todo' = [todo EXCEPT ![a] = Tail(@)]
  /\ Goto(a, "stop.wake")
  /\ UNCHANGED <<managerFlags, minerFlags, threads, client>>

-----------------------------------------------------------------------------
(* The setstaking call, from an RPC thread, until Shutdown has stopped the
   RPC server. *)

setstaking(action) ==
  /\ pc["shutoff"] \in {"up", "requested"}
  /\ calls < MaxRequests
  /\ calls' = calls + 1
  /\ reply' = action
  /\ IF action THEN requestStart' = TRUE /\ UNCHANGED requestStop
               ELSE requestStop' = TRUE /\ UNCHANGED requestStart
  /\ UNCHANGED <<running, minerFlags, threads, pc, todo>>

-----------------------------------------------------------------------------
(* stakeman_handler *)

\* The outer loop's ShutdownRequested() test, and which inner loop is entered.
Outer ==
  /\ pc["handler"] = "outer"
  /\ Goto("handler", IF pc["shutoff"] # "up" THEN "exit"
                     ELSE IF running THEN "run.clear" ELSE "idle.clear")
  /\ UNCHANGED <<managerFlags, minerFlags, threads, todo, client>>

RunClear ==
  /\ pc["handler"] = "run.clear"
  /\ requestStart' = FALSE
  /\ Goto("handler", "run.test")
  /\ UNCHANGED <<requestStop, running, minerFlags, threads, todo, client>>

RunTest ==
  /\ pc["handler"] = "run.test"
  /\ Goto("handler", IF requestStop THEN "stop.check" ELSE "run.clear")
  /\ UNCHANGED <<managerFlags, minerFlags, threads, todo, client>>

RunOff ==
  /\ pc["handler"] = "run.off"
  /\ running' = FALSE
  /\ Goto("handler", "run.ack")
  /\ UNCHANGED <<requestStart, requestStop, minerFlags, threads, todo, client>>

RunAck ==
  /\ pc["handler"] = "run.ack"
  /\ requestStop' = FALSE
  /\ Goto("handler", "idle.clear")
  /\ UNCHANGED <<requestStart, running, minerFlags, threads, todo, client>>

IdleClear ==
  /\ pc["handler"] = "idle.clear"
  /\ requestStop' = FALSE
  /\ Goto("handler", "idle.test")
  /\ UNCHANGED <<requestStart, running, minerFlags, threads, todo, client>>

IdleTest ==
  /\ pc["handler"] = "idle.test"
  /\ Goto("handler", IF requestStart THEN "start.spawn" ELSE "idle.clear")
  /\ UNCHANGED <<managerFlags, minerFlags, threads, todo, client>>

IdleOn ==
  /\ pc["handler"] = "idle.on"
  /\ running' = TRUE
  /\ Goto("handler", "idle.ack")
  /\ UNCHANGED <<requestStart, requestStop, minerFlags, threads, todo, client>>

IdleAck ==
  /\ pc["handler"] = "idle.ack"
  /\ requestStart' = FALSE
  /\ Goto("handler", "outer")
  /\ UNCHANGED <<requestStop, running, minerFlags, threads, todo, client>>

-----------------------------------------------------------------------------
(* StartThreadStakeMiner, called by the manager thread: create the thread,
   remember it, and only then lower the stop flag. *)

StartSpawn ==
  /\ pc["handler"] = "start.spawn"
  /\ started < MaxRequests
  /\ started' = started + 1
  /\ miner' = [miner EXCEPT ![started + 1] = "init"]
  /\ Goto("handler", "start.push")
  /\ UNCHANGED <<managerFlags, minerFlags, vStakeThreads, wake, todo, client>>

StartPush ==
  /\ pc["handler"] = "start.push"
  /\ vStakeThreads' = Append(vStakeThreads, started)
  /\ Goto("handler", "start.flag")
  /\ UNCHANGED <<managerFlags, minerFlags, wake, miner, started, todo, client>>

StartFlag ==
  /\ pc["handler"] = "start.flag"
  /\ stopMinerProc' = FALSE
  /\ Goto("handler", "idle.on")
  /\ UNCHANGED <<managerFlags, isStaking, tryToSync, threads, todo, client>>

-----------------------------------------------------------------------------
(* StopThreadStakeMiner, called by the manager thread or by Shutdown. *)

AfterStop(a) == IF a = "handler" THEN "run.off" ELSE "reset"

StopCheck(a) ==
  /\ pc[a] = "stop.check"
  /\ Goto(a, IF vStakeThreads = <<>> \/ stopMinerProc THEN AfterStop(a)
             ELSE "stop.flag")
  /\ UNCHANGED <<managerFlags, minerFlags, threads, todo, client>>

StopFlag(a) ==
  /\ pc[a] = "stop.flag"
  /\ stopMinerProc' = TRUE
  /\ Goto(a, "stop.status")
  /\ UNCHANGED <<managerFlags, isStaking, tryToSync, threads, todo, client>>

StopStatus(a) ==
  /\ pc[a] = "stop.status"
  /\ isStaking' = FALSE
  /\ tryToSync' = FALSE
  /\ todo' = [todo EXCEPT ![a] = vStakeThreads]
  /\ Goto(a, "stop.wake")
  /\ UNCHANGED <<managerFlags, stopMinerProc, threads, client>>

StopWake(a) ==
  /\ pc[a] = "stop.wake"
  /\ IF todo[a] = <<>>
     THEN Goto(a, "stop.clear") /\ UNCHANGED wake
     ELSE Goto(a, "stop.join") /\ wake' = [wake EXCEPT ![Head(todo[a])] = TRUE]
  /\ UNCHANGED <<managerFlags, minerFlags, vStakeThreads, miner, started, todo, client>>

StopJoin(a) ==
  /\ pc[a] = "stop.join"
  /\ miner[Head(todo[a])] = "done"
  /\ todo' = [todo EXCEPT ![a] = Tail(@)]
  /\ Goto(a, "stop.wake")
  /\ UNCHANGED <<managerFlags, minerFlags, threads, client>>

StopClear(a) ==
  /\ pc[a] = "stop.clear"
  /\ vStakeThreads' = <<>>
  /\ Goto(a, AfterStop(a))
  /\ UNCHANGED <<managerFlags, minerFlags, wake, miner, started, todo, client>>

StopThreadStakeMiner(a) ==
  StopCheck(a) \/ StopFlag(a) \/ StopStatus(a) \/ StopWake(a) \/ StopJoin(a) \/ StopClear(a)

-----------------------------------------------------------------------------
(* Shutdown, in the thread that runs it: the shutdown request, the stop of the
   RPC server and of the miner, and the reset of the objects the miner uses. *)

ShutdownRequest ==
  /\ pc["shutoff"] = "up"
  /\ Goto("shutoff", "requested")
  /\ UNCHANGED <<managerFlags, minerFlags, threads, todo, client>>

Shutdown ==
  /\ pc["shutoff"] = "requested"
  /\ Goto("shutoff", "stop.check")
  /\ UNCHANGED <<managerFlags, minerFlags, threads, todo, client>>

-----------------------------------------------------------------------------
(* ThreadStakeMiner *)

At(t, from, to) == miner[t] = from /\ miner' = [miner EXCEPT ![t] = to]

MinerInit(t) ==
  /\ At(t, "init", "check")
  /\ UNCHANGED <<managerFlags, minerFlags, vStakeThreads, wake, started, pc, todo, client>>

MinerCheck(t) ==
  /\ At(t, "check", IF stopMinerProc THEN "done" ELSE "top")
  /\ UNCHANGED <<managerFlags, minerFlags, vStakeThreads, wake, started, pc, todo, client>>

\* The fTryToSync test: the flag is taken down, and a node that is still not
\* synced waits without raising it again.
MinerSync(t) ==
  /\ tryToSync' = FALSE
  /\ \/ At(t, "top", "search") /\ UNCHANGED isStaking
     \/ tryToSync /\ At(t, "top", "wait") /\ isStaking' = FALSE
  /\ UNCHANGED <<managerFlags, stopMinerProc, vStakeThreads, wake, started, pc, todo, client>>

\* The rest of a round up to SignBlock.
MinerSearch(t) ==
  /\ \/ \* too few peers or initial block download; masternode data not synced
        At(t, "search", "wait") /\ isStaking' = FALSE /\ tryToSync' = TRUE
     \/ \* the proof-of-work era has not ended
        At(t, "search", "wait") /\ isStaking' = FALSE /\ UNCHANGED tryToSync
     \/ \* too early for a new search; no storage proof for the height, or a bad one
        At(t, "search", "wait") /\ UNCHANGED <<isStaking, tryToSync>>
     \/ \* time already searched, wallet locked, low balance, no block template
        At(t, "search", "check") /\ UNCHANGED <<isStaking, tryToSync>>
     \/ \* template and proof are ready
        At(t, "search", "mint") /\ isStaking' = TRUE /\ UNCHANGED tryToSync
  /\ UNCHANGED <<managerFlags, stopMinerProc, vStakeThreads, wake, started, pc, todo, client>>

\* SignBlock and CheckStake: a new block or no mature coins go straight to the
\* next round.
MinerMint(t) ==
  /\ At(t, "mint", "check") \/ At(t, "mint", "wait")
  /\ UNCHANGED <<managerFlags, minerFlags, vStakeThreads, wake, started, pc, todo, client>>

\* condWaitFor: the wait is on vStakeThreads[0], whatever thread that is.
MinerWait(t) ==
  /\ vStakeThreads # <<>>
  /\ At(t, "wait", "waiting")
  /\ wake' = [wake EXCEPT ![vStakeThreads[1]] = FALSE]
  /\ UNCHANGED <<managerFlags, minerFlags, vStakeThreads, started, pc, todo, client>>

\* The wait ends when it is notified or when its time is over.
MinerWake(t) ==
  /\ At(t, "waiting", "check")
  /\ UNCHANGED <<managerFlags, minerFlags, vStakeThreads, wake, started, pc, todo, client>>

ThreadStakeMiner(t) ==
  \/ MinerInit(t) \/ MinerCheck(t) \/ MinerSync(t) \/ MinerSearch(t)
  \/ MinerMint(t) \/ MinerWait(t) \/ MinerWake(t)

-----------------------------------------------------------------------------

stakeman_handler ==
  \/ Outer
  \/ RunClear \/ RunTest \/ StopThreadStakeMiner("handler") \/ RunOff \/ RunAck
  \/ IdleClear \/ IdleTest \/ StartSpawn \/ StartPush \/ StartFlag \/ IdleOn \/ IdleAck

Next ==
  \/ \E action \in BOOLEAN : setstaking(action)
  \/ stakeman_handler
  \/ ShutdownRequest \/ Shutdown \/ StopThreadStakeMiner("shutoff")
  \/ \E t \in Threads : ThreadStakeMiner(t)

\* The operating system runs every thread that can run.  Nothing obliges a user
\* to call setstaking or to stop the node.
Fairness ==
  /\ WF_vars(stakeman_handler)
  /\ WF_vars(Shutdown \/ StopThreadStakeMiner("shutoff"))
  /\ \A t \in Threads : WF_vars(ThreadStakeMiner(t))

Spec == Init /\ [][Next]_vars /\ Fairness

-----------------------------------------------------------------------------
(* Properties *)

StopLabels == {"stop.check", "stop.flag", "stop.status", "stop.wake", "stop.join", "stop.clear"}
HandlerLabels ==
  StopLabels \cup {"outer", "run.clear", "run.test", "run.off", "run.ack", "idle.clear",
                   "idle.test", "start.spawn", "start.push", "start.flag", "idle.on",
                   "idle.ack", "exit"}
ShutoffLabels == StopLabels \cup {"up", "requested", "reset"}
MinerLabels == {"none", "init", "check", "top", "search", "mint", "wait", "waiting", "done"}

\* Type correctness of the flags, thread table and control locations.
TypeOK ==
  /\ requestStart \in BOOLEAN /\ requestStop \in BOOLEAN /\ running \in BOOLEAN
  /\ stopMinerProc \in BOOLEAN /\ isStaking \in BOOLEAN /\ tryToSync \in BOOLEAN
  /\ vStakeThreads \in Seq(Threads)
  /\ wake \in [Threads -> BOOLEAN]
  /\ miner \in [Threads -> MinerLabels]
  /\ pc \in [Actors -> HandlerLabels \cup ShutoffLabels]
  /\ pc["handler"] \in HandlerLabels /\ pc["shutoff"] \in ShutoffLabels
  /\ todo \in [Actors -> Seq(Threads)]
  /\ started \in 0..MaxRequests
  /\ calls \in 0..MaxRequests
  /\ reply \in BOOLEAN

\* Shutdown has not touched the miner yet.
Undisturbed == pc["shutoff"] \in {"up", "requested", "stop.check", "stop.flag"}

\* Until Shutdown stops the miner there is never more than one staking thread,
\* however start and stop requests are interleaved: two would search the same
\* coins and sign two blocks on one parent.
AtMostOneMiner == Undisturbed => \A t, u \in Live : t = u

\* Until Shutdown stops the miner, a staking thread that has not returned can be
\* found: it is in vStakeThreads, or StartThreadStakeMiner is about to put it
\* there.  A thread dropped from the table could never be stopped or joined.
NoOrphanThread ==
  Undisturbed =>
    \A t \in Live : \/ \E i \in 1..Len(vStakeThreads) : vStakeThreads[i] = t
                    \/ pc["handler"] = "start.push" /\ t = started

\* A stop request made while the manager is in its running state is served: the
\* miner thread is woken, joined and the state becomes stopped.  The join waits
\* for a thread that is itself waiting, searching or about to lower its own wake
\* flag.
StopServed ==
  (running /\ requestStop) ~> (~running \/ pc["shutoff"] # "up")

\* A start request that is pending while the manager is stopped is served.
StartServed ==
  (~running /\ requestStart) ~> (running \/ pc["shutoff"] # "up")

-----------------------------------------------------------------------------
(* The inductive invariant behind AtMostOneMiner and NoOrphanThread: what the
   manager thread knows of the miner at each of its locations. *)

\* A thread that joins has somebody to join, and one that is about to register a
\* StakeThread has created it.
ControlInv ==
  /\ \A a \in Actors : pc[a] = "stop.join" => todo[a] # <<>>
  /\ pc["handler"] = "start.push" => started \in Threads
  /\ pc["handler"] \in {"idle.ack", "run.clear", "run.test", "run.off"} \cup StopLabels => running
  /\ pc["handler"] \in {"run.ack", "idle.clear", "idle.test", "start.spawn", "start.push",
                        "start.flag", "idle.on"} => ~running

\* The manager has a registered thread at the "owning" locations and none at the
\* "free" ones; at the outer test and after the handler's exit, running tells.
Owning ==
  \/ pc["handler"] \in {"start.flag", "idle.on", "idle.ack", "run.clear", "run.test"} \cup StopLabels
  \/ pc["handler"] \in {"outer", "exit"} /\ running
Armed ==
  \/ pc["handler"] \in {"idle.on", "idle.ack", "run.clear", "run.test", "stop.check", "stop.flag"}
  \/ pc["handler"] \in {"outer", "exit"} /\ running

OwnershipInv ==
  Undisturbed =>
    /\ \A t \in Live : t = started
    /\ Owning => vStakeThreads = <<started>>
    /\ ~Owning => vStakeThreads = <<>>
    /\ ~Owning /\ pc["handler"] # "start.push" => Live = {}
    /\ Armed => ~stopMinerProc
    /\ pc["handler"] \in {"stop.wake", "stop.join"} =>
         todo["handler"] = <<started>> \/ (todo["handler"] = <<>> /\ Live = {})
    /\ pc["handler"] = "stop.clear" => Live = {}

\* What the manager thread may rely on at each of its locations: it alone owns
\* the staking thread, and its view of it is the thread table's.
IInv == TypeOK /\ ControlInv /\ OwnershipInv

-----------------------------------------------------------------------------
(* What comments, messages and assertions of the code say and the code does
   not do; each is refuted by a run of its own. *)

\* setstaking "can be toggled to enable or disable staking": once the last call
\* was an enabling one, the manager ends up in its running state.  A start
\* request that arrives while a stop is pending is cleared by the running loop.
ToggleHonoured == <>[]reply => <>[](running \/ pc["shutoff"] # "up")

\* "After the threads that potentially access these pointers have been stopped,
\* destruct and reset all to nullptr": no staking thread runs once Shutdown has
\* reset the objects.  A start request pending at shutdown is still served.
NoMinerAfterReset == pc["shutoff"] = "reset" => Live = {}

=============================================================================
