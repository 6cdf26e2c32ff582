------------------------- MODULE StakeManagerProofs -------------------------
(***************************************************************************)
(* Proofs about StakeManager, for every number of setstaking calls.  The   *)
(* argument: at each location of the manager thread it is known whether a  *)
(* staking thread exists and that it is the one in vStakeThreads           *)
(* (OwnershipInv); a start is only reached from locations without one, and *)
(* a stop leaves by its join only, because fStopMinerProc is down whenever *)
(* the manager enters it.                                                  *)
(***************************************************************************)
EXTENDS StakeManager, SequenceTheorems, TLAPS

USE DEF Actors, Threads, Goto, managerFlags, minerFlags, threads, client

\* The type invariant, with the facts about control that Tail and Append need,
\* is preserved by every step.
LEMMA TypeStep == TypeOK /\ ControlInv /\ [Next]_vars => TypeOK' /\ ControlInv'
<1> SUFFICES ASSUME TypeOK, ControlInv, [Next]_vars PROVE TypeOK' /\ ControlInv'
  OBVIOUS
<1> USE MaxRequestsAssumption DEF TypeOK, ControlInv, StopLabels, HandlerLabels, ShutoffLabels, MinerLabels
<1>1. ASSUME NEW action \in BOOLEAN, setstaking(action) PROVE TypeOK' /\ ControlInv'
  <2>1. CASE action = TRUE
    BY <1>1, <2>1 DEF setstaking
  <2>2. CASE action = FALSE
    BY <1>1, <2>2 DEF setstaking
  <2>. QED
    BY <2>1, <2>2
<1>2. CASE Outer
  BY <1>2 DEF Outer
<1>3. CASE RunClear
  <2>1. /\ pc' \in [Actors -> HandlerLabels \cup ShutoffLabels]
        /\ pc'["handler"] = "run.test" /\ pc'["shutoff"] = pc["shutoff"]
    BY <1>3 DEF RunClear
  <2>2. UNCHANGED todo
    BY <1>3 DEF RunClear
  <2>3. TypeOK'
    BY <1>3, <2>1 DEF RunClear
  <2>. QED
    BY <1>3, <2>1, <2>2, <2>3 DEF RunClear
<1>4. CASE RunTest
  BY <1>4 DEF RunTest
<1>5. CASE RunOff
  <2>1. /\ pc' \in [Actors -> HandlerLabels \cup ShutoffLabels]
        /\ pc'["handler"] = "run.ack" /\ pc'["shutoff"] = pc["shutoff"]
    BY <1>5 DEF RunOff
  <2>2. UNCHANGED todo
    BY <1>5 DEF RunOff
  <2>3. TypeOK'
    BY <1>5, <2>1 DEF RunOff
  <2>. QED
    BY <1>5, <2>1, <2>2, <2>3 DEF RunOff
<1>6. CASE RunAck
  <2>1. /\ pc' \in [Actors -> HandlerLabels \cup ShutoffLabels]
        /\ pc'["handler"] = "idle.clear" /\ pc'["shutoff"] = pc["shutoff"]
    BY <1>6 DEF RunAck
  <2>2. UNCHANGED todo
    BY <1>6 DEF RunAck
  <2>3. TypeOK'
    BY <1>6, <2>1 DEF RunAck
  <2>. QED
    BY <1>6, <2>1, <2>2, <2>3 DEF RunAck
<1>7. CASE IdleClear
  <2>1. /\ pc' \in [Actors -> HandlerLabels \cup ShutoffLabels]
        /\ pc'["handler"] = "idle.test" /\ pc'["shutoff"] = pc["shutoff"]
    BY <1>7 DEF IdleClear
  <2>2. UNCHANGED todo
    BY <1>7 DEF IdleClear
  <2>3. TypeOK'
    BY <1>7, <2>1 DEF IdleClear
  <2>. QED
    BY <1>7, <2>1, <2>2, <2>3 DEF IdleClear
<1>8. CASE IdleTest
  BY <1>8 DEF IdleTest
<1>9. CASE IdleOn
  <2>1. /\ pc' \in [Actors -> HandlerLabels \cup ShutoffLabels]
        /\ pc'["handler"] = "idle.ack" /\ pc'["shutoff"] = pc["shutoff"]
    BY <1>9 DEF IdleOn
  <2>2. UNCHANGED todo
    BY <1>9 DEF IdleOn
  <2>3. TypeOK'
    BY <1>9, <2>1 DEF IdleOn
  <2>. QED
    BY <1>9, <2>1, <2>2, <2>3 DEF IdleOn
<1>10. CASE IdleAck
  <2>1. /\ pc' \in [Actors -> HandlerLabels \cup ShutoffLabels]
        /\ pc'["handler"] = "outer" /\ pc'["shutoff"] = pc["shutoff"]
    BY <1>10 DEF IdleAck
  <2>2. UNCHANGED todo
    BY <1>10 DEF IdleAck
  <2>3. TypeOK'
    BY <1>10, <2>1 DEF IdleAck
  <2>. QED
    BY <1>10, <2>1, <2>2, <2>3 DEF IdleAck
<1>11. CASE StartSpawn
  BY <1>11 DEF StartSpawn
<1>12. CASE StartPush
  BY <1>12 DEF StartPush
<1>13. CASE StartFlag
  <2>1. /\ pc' \in [Actors -> HandlerLabels \cup ShutoffLabels]
        /\ pc'["handler"] = "idle.on" /\ pc'["shutoff"] = pc["shutoff"]
    BY <1>13 DEF StartFlag
  <2>2. UNCHANGED todo
    BY <1>13 DEF StartFlag
  <2>3. TypeOK'
    BY <1>13, <2>1 DEF StartFlag
  <2>. QED
    BY <1>13, <2>1, <2>2, <2>3 DEF StartFlag
<1>14. CASE ShutdownRequest
  BY <1>14 DEF ShutdownRequest
<1>15. CASE Shutdown
  BY <1>15 DEF Shutdown
<1>16. ASSUME NEW a \in Actors, StopCheck(a) PROVE TypeOK' /\ ControlInv'
  BY <1>16 DEF StopCheck, AfterStop
<1>17. ASSUME NEW a \in Actors, StopFlag(a) PROVE TypeOK' /\ ControlInv'
  BY <1>17 DEF StopFlag
<1>18. ASSUME NEW a \in Actors, StopStatus(a) PROVE TypeOK' /\ ControlInv'
  <2>1. todo' \in [Actors -> Seq(Threads)]
    BY <1>18 DEF StopStatus
  <2>2. /\ pc' \in [Actors -> HandlerLabels \cup ShutoffLabels]
        /\ pc'[a] = "stop.wake"
        /\ \A b \in Actors \ {a} : pc'[b] = pc[b] /\ todo'[b] = todo[b]
    BY <1>18 DEF StopStatus
  <2>3. pc[a] = "stop.status" /\ UNCHANGED <<managerFlags, stopMinerProc, threads, client>>
    BY <1>18 DEF StopStatus
  <2>4. isStaking' \in BOOLEAN /\ tryToSync' \in BOOLEAN
    BY <1>18 DEF StopStatus
  <2>5. CASE a = "handler"
    BY <2>1, <2>2, <2>3, <2>4, <2>5
  <2>6. CASE a = "shutoff"
    BY <2>1, <2>2, <2>3, <2>4, <2>6
  <2>. QED
    BY <2>5, <2>6
<1>19. ASSUME NEW a \in Actors, StopWake(a) PROVE TypeOK' /\ ControlInv'
  <2>1. CASE todo[a] = <<>>
    <3>. pc' = [pc EXCEPT ![a] = "stop.clear"]
      BY <1>19, <2>1 DEF StopWake
    <3>1. /\ pc' \in [Actors -> HandlerLabels \cup ShutoffLabels]
          /\ pc'[a] = "stop.clear"
          /\ \A b \in Actors \ {a} : pc'[b] = pc[b]
      OBVIOUS
    <3>2. /\ pc[a] = "stop.wake"
          /\ UNCHANGED <<managerFlags, minerFlags, wake, threads, todo, client>>
      BY <1>19, <2>1 DEF StopWake
    <3>3. CASE a = "handler"
      BY <3>1, <3>2, <3>3
    <3>4. CASE a = "shutoff"
      BY <3>1, <3>2, <3>4
    <3>. QED
      BY <3>3, <3>4
  <2>2. CASE todo[a] # <<>>
    <3>1. wake' \in [Threads -> BOOLEAN]
      BY <1>19, <2>2 DEF StopWake
    <3>. QED
      BY <1>19, <2>2, <3>1 DEF StopWake
  <2>. QED
    BY <2>1, <2>2
<1>20. ASSUME NEW a \in Actors, StopJoin(a) PROVE TypeOK' /\ ControlInv'
  <2>1. todo[a] # <<>> /\ todo[a] \in Seq(Threads)
    BY <1>20 DEF StopJoin
  <2>2. Tail(todo[a]) \in Seq(Threads)
    BY <2>1, HeadTailProperties
  <2>3. todo' \in [Actors -> Seq(Threads)]
    BY <1>20, <2>2 DEF StopJoin
  <2>. QED
    BY <1>20, <2>3 DEF StopJoin
<1>21. ASSUME NEW a \in Actors, StopClear(a) PROVE TypeOK' /\ ControlInv'
  BY <1>21 DEF StopClear, AfterStop
<1>22. ASSUME NEW t \in Threads, MinerInit(t) PROVE TypeOK' /\ ControlInv'
  BY <1>22 DEF MinerInit, At
<1>23. ASSUME NEW t \in Threads, MinerCheck(t) PROVE TypeOK' /\ ControlInv'
  BY <1>23 DEF MinerCheck, At
<1>24. ASSUME NEW t \in Threads, MinerSync(t) PROVE TypeOK' /\ ControlInv'
  <2>1. miner' \in [Threads -> MinerLabels]
    BY <1>24 DEF MinerSync, At
  <2>2. isStaking' \in BOOLEAN /\ tryToSync' \in BOOLEAN
    BY <1>24 DEF MinerSync
  <2>. QED
    BY <1>24, <2>1, <2>2 DEF MinerSync
<1>25. ASSUME NEW t \in Threads, MinerSearch(t) PROVE TypeOK' /\ ControlInv'
  <2>1. miner' \in [Threads -> MinerLabels]
    BY <1>25 DEF MinerSearch, At
  <2>2. isStaking' \in BOOLEAN /\ tryToSync' \in BOOLEAN
    BY <1>25 DEF MinerSearch
  <2>. QED
    BY <1>25, <2>1, <2>2 DEF MinerSearch
<1>26. ASSUME NEW t \in Threads, MinerMint(t) PROVE TypeOK' /\ ControlInv'
  <2>1. miner' \in [Threads -> MinerLabels]
    BY <1>26 DEF MinerMint, At
  <2>. QED
    BY <1>26, <2>1 DEF MinerMint
<1>27. ASSUME NEW t \in Threads, MinerWait(t) PROVE TypeOK' /\ ControlInv'
  <2>1. miner' \in [Threads -> MinerLabels] /\ wake' \in [Threads -> BOOLEAN]
    BY <1>27 DEF MinerWait, At
  <2>. QED
    BY <1>27, <2>1 DEF MinerWait
<1>28. ASSUME NEW t \in Threads, MinerWake(t) PROVE TypeOK' /\ ControlInv'
  BY <1>28 DEF MinerWake, At
<1>29. CASE UNCHANGED vars
  BY <1>29 DEF vars
<1>. QED
  BY <1>1, <1>2, <1>3, <1>4, <1>5, <1>6, <1>7, <1>8, <1>9, <1>10, <1>11, <1>12, <1>13, <1>14, <1>15, <1>16, <1>17, <1>18, <1>19, <1>20, <1>21, <1>22, <1>23, <1>24, <1>25, <1>26, <1>27, <1>28, <1>29 DEF Next, stakeman_handler, StopThreadStakeMiner, ThreadStakeMiner

\* A step that leaves the manager thread where it is, together with what it knows
\* about, and lets no further thread live keeps its knowledge valid.
LEMMA OwnershipFrame ==
  ASSUME TypeOK, OwnershipInv, Undisturbed' => Undisturbed, Live' \subseteq Live,
         pc'["handler"] = pc["handler"], todo'["handler"] = todo["handler"],
         UNCHANGED <<vStakeThreads, started, running>>,
         stopMinerProc' = stopMinerProc \/ ~Undisturbed'
  PROVE  OwnershipInv'
BY DEF OwnershipInv, Owning, Armed

\* What the manager thread relies on at each location stays true whatever thread
\* takes the next step.
LEMMA OwnershipStep ==
  TypeOK /\ ControlInv /\ OwnershipInv /\ [Next]_vars => OwnershipInv'
<1> SUFFICES ASSUME TypeOK, ControlInv, OwnershipInv, [Next]_vars PROVE OwnershipInv'
  OBVIOUS
<1>0. TypeOK' /\ ControlInv'
  BY TypeStep
<1>1. ASSUME NEW action \in BOOLEAN, setstaking(action) PROVE OwnershipInv'
  BY <1>1, OwnershipFrame DEF setstaking, Undisturbed, Live
<1>2. ASSUME NEW t \in Threads, ThreadStakeMiner(t) PROVE OwnershipInv'
  <2>1. /\ UNCHANGED <<pc, todo, vStakeThreads, started, running, stopMinerProc>>
        /\ miner[t] \notin {"none", "done"}
        /\ \E l \in MinerLabels : miner' = [miner EXCEPT ![t] = l]
    BY <1>2 DEF ThreadStakeMiner, MinerInit, MinerCheck, MinerSync, MinerSearch, MinerMint,
                MinerWait, MinerWake, At, MinerLabels
  <2>2. Live' \subseteq Live
    BY <2>1 DEF Live, TypeOK
  <2>. QED
    BY <2>1, <2>2, OwnershipFrame DEF Undisturbed
<1>3. CASE ShutdownRequest \/ Shutdown \/ StopThreadStakeMiner("shutoff")
  <2>1. /\ pc'["handler"] = pc["handler"] /\ todo'["handler"] = todo["handler"]
        /\ UNCHANGED <<miner, started, running>>
    BY <1>3 DEF TypeOK, ShutdownRequest, Shutdown, StopThreadStakeMiner, StopCheck, StopFlag,
                StopStatus, StopWake, StopJoin, StopClear
  <2>2. /\ Undisturbed' => Undisturbed
        /\ Undisturbed' => UNCHANGED <<vStakeThreads, stopMinerProc>>
    BY <1>3 DEF TypeOK, Undisturbed, ShutdownRequest, Shutdown, StopThreadStakeMiner, StopCheck,
                StopFlag, StopStatus, StopWake, StopJoin, StopClear, AfterStop
  <2>3. CASE Undisturbed'
    BY <2>1, <2>2, <2>3, OwnershipFrame DEF Live
  <2>4. CASE ~Undisturbed'
    BY <2>4 DEF OwnershipInv
  <2>. QED
    BY <2>3, <2>4
<1>4. CASE stakeman_handler
  <2>0. /\ pc'["shutoff"] = pc["shutoff"] /\ Undisturbed' = Undisturbed
    BY <1>4 DEF TypeOK, Undisturbed, stakeman_handler, Outer, RunClear, RunTest, RunOff, RunAck,
                IdleClear, IdleTest, IdleOn, IdleAck, StartSpawn, StartPush, StartFlag,
                StopThreadStakeMiner, StopCheck, StopFlag, StopStatus, StopWake, StopJoin, StopClear
  <2> SUFFICES ASSUME Undisturbed PROVE OwnershipInv'
    BY <2>0 DEF OwnershipInv
  <2> USE DEF OwnershipInv, ControlInv, Owning, Armed, StopLabels
  <2>1. CASE StartSpawn
    <3>1. Live = {} /\ vStakeThreads = <<>>
      BY <2>1 DEF StartSpawn
    <3>2. \A t \in Live' : t = started'
      BY <2>1, <3>1 DEF StartSpawn, Live, TypeOK
    <3>. QED
      BY <2>1, <3>1, <3>2 DEF StartSpawn, TypeOK
  <2>2. CASE stakeman_handler /\ Live' = Live /\ UNCHANGED started
    <3>1. CASE StopThreadStakeMiner("handler")
      <4>1. CASE StopCheck("handler")
        <5>1. vStakeThreads # <<>> /\ ~stopMinerProc
          BY <4>1 DEF StopCheck
        <5>. QED
          BY <2>2, <4>1, <5>1 DEF TypeOK, StopCheck
      <4>2. CASE StopFlag("handler")
        BY <2>2, <4>2 DEF TypeOK, StopFlag
      <4>3. CASE StopStatus("handler")
        <5>1. vStakeThreads = <<started>> /\ todo'["handler"] = <<started>>
          BY <4>3 DEF TypeOK, StopStatus
        <5>. QED
          BY <2>2, <4>3, <5>1 DEF TypeOK, StopStatus
      <4>4. CASE StopWake("handler")
        <5>1. CASE todo["handler"] = <<>>
          <6>1. Live = {}
            BY <4>4, <5>1 DEF StopWake
          <6>. QED
            BY <2>2, <4>4, <5>1, <6>1 DEF TypeOK, StopWake
        <5>2. CASE todo["handler"] # <<>>
          BY <2>2, <4>4, <5>2 DEF TypeOK, StopWake
        <5>. QED
          BY <5>1, <5>2
      <4>5. CASE StopJoin("handler")
        <5>1. todo["handler"] = <<started>> /\ Live = {}
          BY <4>5 DEF StopJoin, Live
        <5>2. todo'["handler"] = <<>>
          BY <4>5, <5>1 DEF StopJoin, TypeOK
        <5>. QED
          BY <2>2, <4>5, <5>1, <5>2 DEF TypeOK, StopJoin
      <4>6. CASE StopClear("handler")
        BY <2>2, <4>6 DEF TypeOK, StopClear, AfterStop
      <4>. QED
        BY <3>1, <4>1, <4>2, <4>3, <4>4, <4>5, <4>6 DEF StopThreadStakeMiner
    <3>2. CASE StartPush \/ StartFlag \/ IdleOn \/ IdleAck
      <4>1. CASE StartPush
        <5>1. vStakeThreads' = <<started>>
          BY <4>1 DEF StartPush
        <5>. QED
          BY <2>2, <4>1, <5>1 DEF TypeOK, StartPush
      <4>2. CASE StartFlag \/ IdleOn \/ IdleAck
        BY <2>2, <4>2 DEF TypeOK, StartFlag, IdleOn, IdleAck
      <4>. QED
        BY <3>2, <4>1, <4>2
    <3>3. CASE Outer \/ RunClear \/ RunTest \/ RunOff \/ RunAck \/ IdleClear \/ IdleTest
      BY <2>2, <3>3 DEF TypeOK, Outer, RunClear, RunTest, RunOff, RunAck, IdleClear, IdleTest
    <3>4. CASE StartSpawn
      BY <2>1, <3>4
    <3>. QED
      BY <2>2, <3>1, <3>2, <3>3, <3>4 DEF stakeman_handler
  <2>3. StartSpawn \/ (Live' = Live /\ UNCHANGED started)
    BY <1>4 DEF stakeman_handler, Outer, RunClear, RunTest, RunOff, RunAck, IdleClear, IdleTest,
                IdleOn, IdleAck, StartPush, StartFlag, StopThreadStakeMiner, StopCheck, StopFlag,
                StopStatus, StopWake, StopJoin, StopClear, Live
  <2>. QED
    BY <1>4, <2>1, <2>2, <2>3
<1>5. CASE UNCHANGED vars
  BY <1>5, OwnershipFrame DEF vars, Undisturbed, Live
<1>. QED
  BY <1>1, <1>2, <1>3, <1>4, <1>5 DEF Next

\* The state the manager thread relies on holds in every reachable state.
THEOREM ManagerInvariant == Spec => []IInv
<1>1. Init => IInv
  <2> SUFFICES ASSUME Init PROVE IInv
    OBVIOUS
  <2> USE DEF Init, StopLabels
  <2>1. TypeOK
    <3>1. pc \in [Actors -> HandlerLabels \cup ShutoffLabels]
      BY DEF HandlerLabels, ShutoffLabels
    <3>2. vStakeThreads \in Seq(Threads) /\ todo \in [Actors -> Seq(Threads)]
      OBVIOUS
    <3>3. miner \in [Threads -> MinerLabels] /\ wake \in [Threads -> BOOLEAN]
      BY DEF MinerLabels
    <3>4. started \in 0..MaxRequests /\ calls \in 0..MaxRequests
      BY MaxRequestsAssumption
    <3>5. pc["handler"] \in HandlerLabels /\ pc["shutoff"] \in ShutoffLabels
      BY DEF HandlerLabels, ShutoffLabels
    <3>. QED
      BY <3>1, <3>2, <3>3, <3>4, <3>5 DEF TypeOK
  <2>2. ControlInv
    BY DEF ControlInv
  <2>3. OwnershipInv
    BY DEF OwnershipInv, Owning, Armed, Live
  <2>. QED
    BY <2>1, <2>2, <2>3 DEF IInv
<1>2. IInv /\ [Next]_vars => IInv'
  BY TypeStep, OwnershipStep DEF IInv
<1>. QED
  BY <1>1, <1>2, PTL DEF Spec

\* However start and stop requests are interleaved with the threads, there is
\* never more than one staking thread before Shutdown stops it.
THEOREM OneMiner == Spec => []AtMostOneMiner
<1>1. IInv => AtMostOneMiner
  BY DEF IInv, OwnershipInv, AtMostOneMiner
<1>. QED
  BY <1>1, ManagerInvariant, PTL

\* No staking thread is ever lost from the thread table before Shutdown.
THEOREM ThreadsFound == Spec => []NoOrphanThread
<1>1. IInv => NoOrphanThread
  BY DEF IInv, OwnershipInv, NoOrphanThread, Owning, Live
<1>. QED
  BY <1>1, ManagerInvariant, PTL

=============================================================================
