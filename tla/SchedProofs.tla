---------------------------- MODULE SchedProofs ----------------------------
(***************************************************************************)
(* Proofs about Sched, for every size of the thread table, every set of     *)
(* quanta and every set of services.                                        *)
(*                                                                          *)
(* The safety invariants are proved for programs that start a thread only   *)
(* once ("restart" \notin Services).  Starting a thread again that waits in  *)
(* the list of the round makes it STANDBY there, so that RoundReady fails.  *)
(***************************************************************************)
EXTENDS Sched, SequenceTheorems, TLAPS

----------------------------------------------------------------------------
(* The inductive invariant.                                                 *)

\* Slots of the thread table are taken from the bottom.
Dense ==
    \A t, u \in Threads : (u < t /\ state[t] # "FREE") => state[u] # "FREE"

\* A process is named by its flower thread, which is its oldest one.
Owners ==
    /\ owner[INIT_TID] = INIT_TID
    /\ state[curPid] # "FREE"
    /\ owner[curPid] = curPid
    /\ \A t \in Threads : state[t] # "FREE" =>
          /\ owner[t] <= t
          /\ state[owner[t]] # "FREE"
          /\ owner[owner[t]] = owner[t]

\* Only flower threads exit or join.
FlowerOnly ==
    \A t \in Threads :
        (exitReq[t] \/ joinTgt[t] # INIT_TID \/ state[t] = "ZOMBIE")
            => owner[t] = t /\ state[t] # "FREE"

\* A thread that was not started yet has no saved context.
FreshUnsaved ==
    \A t \in Threads :
        state[t] \in {"FREE", "INITIALIZED", "STANDBY"} => ~saved[t]

\* The list holds distinct READY threads, all visited before by a scan that
\* is still going on, and none of them is on its way to the processor.
Rounds ==
    pc # "halt" =>
        /\ \A i \in 1 .. Len(round) :
              /\ state[round[i]] = "READY"
              /\ round[i] # INIT_TID
              /\ pc \in {"user", "dispatch"} => round[i] # current
              /\ pc = "scan" => round[i] < scan
        /\ \A i, j \in 1 .. Len(round) : i < j => round[i] # round[j]

\* Which thread runs, at every position of the handler.
Running ==
    /\ \A t \in Threads : state[t] = "RUNNING" =>
          (t = current /\ pc = "user") \/ pc = "halt"
    /\ pc = "user" => state[current] = "RUNNING"
    /\ pc = "dispatch" => state[current] = "READY"
    /\ pc = "scan" => scan >= 1 /\ state[INIT_TID] = "READY"

\* init is never reaped or destroyed, and is READY unless it runs or sleeps.
InitThere ==
    /\ Valid(INIT_TID)
    /\ pc # "halt" => \/ state[INIT_TID] = "READY"
                      \/ pc = "user" /\ current = INIT_TID
                      \/ sleepPhase[INIT_TID] # 0

\* Before the first fault every thread has a valid process.
Destroyed == \E u \in Threads : state[u] = "DESTROYED"
LiveProcess ==
    \/ Destroyed
    \/ /\ \A t \in Threads : Valid(t) => pvalid[owner[t]]
       /\ pc = "user" => pvalid[curPid]

NoCause == pc # "halt" => cause = "none"

SInv ==
    /\ TypeOK
    /\ Dense
    /\ Owners
    /\ FlowerOnly
    /\ FreshUnsaved
    /\ Rounds
    /\ Running
    /\ InitThere
    /\ LiveProcess
    /\ HaltExplained
    /\ NoCause

----------------------------------------------------------------------------
(* Type correctness.                                                        *)

\* init's tid is the tid of a thread.
LEMMA InitTid == INIT_TID \in Threads
BY SchedAssumption DEF INIT_TID, Threads

\* The states that the actions write.
LEMMA StateNames ==
    /\ "FREE" \in States /\ "INITIALIZED" \in States /\ "STANDBY" \in States
    /\ "READY" \in States /\ "RUNNING" \in States /\ "WAITING" \in States
    /\ "BLOCKED" \in States /\ "ZOMBIE" \in States /\ "REUSE" \in States
    /\ "DESTROYED" \in States
BY DEF States

\* The list of the round holds tids.
LEMMA ListTids == ASSUME TypeOK PROVE \A i \in 1 .. Len(round) : round[i] \in Threads
<1>1. round \in Seq(Threads)
  BY DEF TypeOK
<1> QED
  BY <1>1

\* The initial state has the right types.
LEMMA InitType == Init => TypeOK
<1> SUFFICES ASSUME Init PROVE TypeOK
  OBVIOUS
<1> USE InitTid, StateNames
<1>1. left \in Nat
  BY SchedAssumption DEF Init
<1>2. scan \in 0 .. THREAD_COUNT_MAX
  BY SchedAssumption DEF Init
<1>3. round \in Seq(Threads)
  BY DEF Init
<1>4. /\ state \in [Threads -> States]
      /\ owner \in [Threads -> Threads]
      /\ joinTgt \in [Threads -> Threads]
      /\ sleepPhase \in [Threads -> 0 .. 2]
      /\ sleepLeft \in [Threads -> Nat]
  BY DEF Init
<1>5. /\ saved \in [Threads -> BOOLEAN]
      /\ exitReq \in [Threads -> BOOLEAN]
      /\ joinPend \in [Threads -> BOOLEAN]
      /\ blockReq \in [Threads -> BOOLEAN]
      /\ dsEvent \in [Threads -> BOOLEAN]
      /\ waitLoop \in [Threads -> BOOLEAN]
      /\ pvalid \in [Threads -> BOOLEAN]
  BY DEF Init
<1>6. /\ current \in Threads /\ curPid \in Threads
      /\ tsLocked \in BOOLEAN /\ schedLocked \in BOOLEAN
      /\ ds \in Threads \cup {NoThread}
      /\ pc \in {"user", "switch", "scan", "dispatch", "halt"}
      /\ cause \in Causes
  BY DEF Init, Causes
<1> QED
  BY <1>1, <1>2, <1>3, <1>4, <1>5, <1>6 DEF TypeOK

\* A tick that elapses leaves natural numbers of ticks to sleep.
LEMMA ElapsedType == ASSUME TypeOK PROVE Elapsed \in [Threads -> Nat]
BY DEF TypeOK, Elapsed

\* The timer handler up to the choice of the next thread.
LEMMA TickType == ASSUME TypeOK, Tick PROVE TypeOK'
<1> USE ElapsedType, StateNames
<1>1. CASE TickInvalid
  BY <1>1 DEF TypeOK, TickInvalid, Halt, deferred, cpu, locks, Causes
<1>2. CASE TickLocked
  BY <1>2 DEF TypeOK, TickLocked, Ticking, StillInQuantum, locks
<1>3. CASE TickStay
  BY <1>3 DEF TypeOK, TickStay, Ticking, StillInQuantum, locks
<1>4. CASE TickLeave
  <2>1. Preempted \in [Threads -> States]
    BY DEF TypeOK, Preempted
  <2>2. state' \in [Threads -> States] /\ sleepPhase' \in [Threads -> 0 .. 2]
    <3>1. /\ state \in [Threads -> States] /\ current \in Threads
          /\ sleepPhase \in [Threads -> 0 .. 2]
      BY DEF TypeOK
    <3>2. \/ /\ state' = [state EXCEPT ![current] = "WAITING"]
             /\ sleepPhase' = [sleepPhase EXCEPT ![current] = 2]
          \/ state' = Preempted /\ sleepPhase' = sleepPhase
      BY <1>4 DEF TickLeave
    <3> QED
      BY <2>1, <3>1, <3>2
  <2>3. left' \in Nat /\ curPid' \in Threads
    BY <1>4 DEF TypeOK, TickLeave, Ticking, StillInQuantum
  <2>4. /\ sleepLeft' \in [Threads -> Nat]
        /\ saved' \in [Threads -> BOOLEAN]
        /\ pc' \in {"user", "switch", "scan", "dispatch", "halt"}
    BY <1>4 DEF TypeOK, TickLeave
  <2>5. UNCHANGED <<owner, exitReq, joinTgt, joinPend, blockReq, dsEvent,
                    waitLoop, pvalid, current, round, tsLocked, schedLocked,
                    ds, scan, cause>>
    BY <1>4 DEF TickLeave, locks
  <2> QED
    BY <2>2, <2>3, <2>4, <2>5 DEF TypeOK
<1>5. ASSUME NEW t \in Threads, TickSpawn(t) PROVE TypeOK'
  <2>1. CASE saved[t] \/ t = current
    BY <1>5, <2>1 DEF TypeOK, TickSpawn, Halt, deferred, cpu, locks, Causes
  <2>2. CASE ~(saved[t] \/ t = current)
    <3>1. Preempted \in [Threads -> States]
      BY DEF TypeOK, Preempted
    <3>2. state' \in [Threads -> States]
      <4>1. state' = [Preempted EXCEPT ![t] = "RUNNING"]
        BY <1>5, <2>2 DEF TickSpawn
      <4> QED
        BY <3>1, <4>1
    <3>3. left' \in Nat
      BY <1>5, <2>2, SchedAssumption DEF TickSpawn
    <3>4. /\ saved' \in [Threads -> BOOLEAN]
          /\ exitReq' \in [Threads -> BOOLEAN]
          /\ tsLocked' \in BOOLEAN /\ schedLocked' \in BOOLEAN
      BY <1>5, <2>2 DEF TypeOK, TickSpawn
    <3>6. /\ sleepLeft' \in [Threads -> Nat]
          /\ current' \in Threads /\ curPid' \in Threads
      BY <1>5, <2>2 DEF TypeOK, TickSpawn
    <3>7. sleepPhase' \in [Threads -> 0 .. 2]
      <4>1. sleepPhase \in [Threads -> 0 .. 2]
        BY DEF TypeOK
      <4>2. sleepPhase' = [sleepPhase EXCEPT ![t] = 0]
        BY <1>5, <2>2 DEF TickSpawn
      <4> QED
        BY <4>1, <4>2
    <3>5. UNCHANGED <<owner, joinTgt, joinPend, blockReq, dsEvent, waitLoop,
                      pvalid, round, ds, scan, pc, cause>>
      BY <1>5, <2>2 DEF TickSpawn
    <3> QED
      BY <3>2, <3>3, <3>4, <3>5, <3>6, <3>7 DEF TypeOK
  <2> QED
    BY <2>1, <2>2
<1> QED
  BY <1>1, <1>2, <1>3, <1>4, <1>5 DEF Tick

\* The choice of the next thread and its dispatch.
LEMMA SwitchType ==
    ASSUME TypeOK, SwitchNext \/ SwitchEndOfRound \/ Dispatch \/ DispatchSleepingInit
    PROVE  TypeOK'
<1> USE InitTid, StateNames
<1>1. CASE SwitchNext
  <2>1. round' \in Seq(Threads) /\ Head(round) \in Threads
    <3>1. round \in Seq(Threads) /\ round # <<>> /\ round' = Tail(round)
      BY <1>1 DEF TypeOK, SwitchNext
    <3> QED
      BY <3>1, HeadTailProperties
  <2> QED
    BY <1>1, <2>1 DEF TypeOK, SwitchNext, Halt, deferred, locks, Causes
<1>2. CASE SwitchEndOfRound
  <2>1. scan' \in 0 .. THREAD_COUNT_MAX
    <3>1. scan \in 0 .. THREAD_COUNT_MAX
      BY DEF TypeOK
    <3>2. scan' = scan \/ scan' = INIT_TID + 1
      BY <1>2 DEF SwitchEndOfRound
    <3> QED
      BY <3>1, <3>2, SchedAssumption DEF INIT_TID
  <2>2. state' \in [Threads -> States]
    BY <1>2 DEF TypeOK, SwitchEndOfRound
  <2> QED
    BY <1>2, <2>1, <2>2 DEF TypeOK, SwitchEndOfRound, Halt, deferred, locks, Causes
<1>3. CASE Dispatch
  <2>1. TargetThread \in Threads
    BY DEF TypeOK, TargetThread, Selected
  <2>2. Released \in [Threads -> States]
    BY DEF TypeOK, Released
  <2>3. left' \in Nat
    BY <1>3, SchedAssumption DEF TypeOK, Dispatch
  <2>4. state' \in [Threads -> States]
    BY <1>3, <2>2 DEF TypeOK, Dispatch
  <2> QED
    <3>1. /\ saved' \in [Threads -> BOOLEAN]
          /\ curPid' \in Threads
      <4>1. /\ saved \in [Threads -> BOOLEAN] /\ curPid \in Threads
            /\ owner[TargetThread] \in Threads /\ current \in Threads
        BY <2>1 DEF TypeOK
      <4>2. /\ saved' = saved \/ saved' = [saved EXCEPT ![current] = FALSE]
            /\ curPid' = curPid \/ curPid' = owner[TargetThread]
        BY <1>3 DEF Dispatch
      <4> QED
        BY <4>1, <4>2
    <3>2. /\ pc' \in {"user", "switch", "scan", "dispatch", "halt"}
          /\ cause' \in Causes
      BY <1>3 DEF TypeOK, Dispatch, Halt, Causes
    <3>3. UNCHANGED <<owner, sleepPhase, sleepLeft, exitReq, joinTgt, joinPend,
                      blockReq, dsEvent, waitLoop, pvalid, current, round,
                      tsLocked, schedLocked, ds, scan>>
      BY <1>3 DEF Dispatch, deferred, locks
    <3> QED
      BY <2>3, <2>4, <3>1, <3>2, <3>3 DEF TypeOK
<1>4. CASE DispatchSleepingInit
  BY <1>4 DEF TypeOK, DispatchSleepingInit, Halt, deferred, cpu, locks, Causes
<1> QED
  BY <1>1, <1>2, <1>3, <1>4

\* What a visit of the scheduler leaves in the state of threads.
LEMMA CheckedType ==
    ASSUME TypeOK, NEW t \in Threads
    PROVE  Checked(t) \in States /\ Reaped(t) \in [Threads -> States]
BY StateNames DEF TypeOK, Checked, Reaped

\* The loop of the scheduler.
LEMMA ScanType == ASSUME TypeOK, Scheduler PROVE TypeOK'
<1> USE InitTid, StateNames
<1>1. ASSUME NEW t \in Threads, Visiting(t) PROVE scan' \in 0 .. THREAD_COUNT_MAX
  BY <1>1, SchedAssumption DEF Visiting, Threads
<1>2. ASSUME NEW t \in Threads, VisitEvent(t) PROVE TypeOK'
  <2>1. scan' \in 0 .. THREAD_COUNT_MAX
    BY <1>1, <1>2 DEF VisitEvent
  <2>2. state' \in [Threads -> States]
    BY <1>2 DEF TypeOK, VisitEvent
  <2> QED
    BY <1>2, <2>1, <2>2 DEF TypeOK, VisitEvent, locks
<1>3. ASSUME NEW t \in Threads, VisitBlock(t) PROVE TypeOK'
  <2>1. scan' \in 0 .. THREAD_COUNT_MAX
    BY <1>1, <1>3 DEF VisitBlock
  <2>2. state' \in [Threads -> States]
    BY <1>3 DEF TypeOK, VisitBlock
  <2> QED
    BY <1>3, <2>1, <2>2 DEF TypeOK, VisitBlock, locks
<1>4. ASSUME NEW t \in Threads, VisitExit(t) PROVE TypeOK'
  <2>1. scan' \in 0 .. THREAD_COUNT_MAX
    BY <1>1, <1>4 DEF VisitExit
  <2>2. state' \in [Threads -> States]
    BY <1>4 DEF TypeOK, VisitExit
  <2> QED
    BY <1>4, <2>1, <2>2 DEF TypeOK, VisitExit, locks
<1>5. ASSUME NEW t \in Threads, VisitThread(t) PROVE TypeOK'
  <2>1. scan' \in 0 .. THREAD_COUNT_MAX
    BY <1>1, <1>5 DEF VisitThread
  <2>2. state' \in [Threads -> States] /\ round' \in Seq(Threads)
    <3>1. /\ state \in [Threads -> States] /\ round \in Seq(Threads)
      BY DEF TypeOK
    <3>2. /\ \/ state' = Reaped(t)
             \/ state' = [state EXCEPT ![t] = Checked(t)]
          /\ round' = round \/ round' = Append(round, t)
      BY <1>5 DEF VisitThread
    <3>3. Append(round, t) \in Seq(Threads)
      BY <3>1, AppendProperties
    <3> QED
      BY <3>1, <3>2, <3>3, CheckedType
  <2>3. /\ sleepPhase' \in [Threads -> 0 .. 2]
        /\ joinPend' \in [Threads -> BOOLEAN]
        /\ pvalid' \in [Threads -> BOOLEAN]
        /\ ds' \in Threads \cup {NoThread}
    <3>1. /\ sleepPhase \in [Threads -> 0 .. 2]
          /\ joinPend \in [Threads -> BOOLEAN]
          /\ pvalid \in [Threads -> BOOLEAN]
          /\ owner[t] \in Threads
          /\ ds \in Threads \cup {NoThread}
      BY DEF TypeOK
    <3>2. sleepPhase' = sleepPhase \/ sleepPhase' = [sleepPhase EXCEPT ![t] = 0]
      BY <1>5 DEF VisitThread
    <3>3. joinPend' = joinPend \/ joinPend' = [joinPend EXCEPT ![t] = FALSE]
      BY <1>5 DEF VisitThread
    <3>4. /\ pvalid' = pvalid \/ pvalid' = [pvalid EXCEPT ![owner[t]] = FALSE]
          /\ ds' = ds \/ ds' = NoThread
      BY <1>5 DEF VisitThread
    <3>5. sleepPhase' \in [Threads -> 0 .. 2]
      BY <3>1, <3>2
    <3> QED
      BY <3>1, <3>3, <3>4, <3>5
  <2> QED
    BY <1>5, <2>1, <2>2, <2>3 DEF TypeOK, VisitThread, locks
<1>6. CASE VisitEnd
  BY <1>6, SchedAssumption DEF TypeOK, VisitEnd, deferred, locks
<1> QED
  BY <1>2, <1>3, <1>4, <1>5, <1>6 DEF Scheduler

\* The services of sci0.
LEMMA SyscallType == ASSUME TypeOK, Syscall PROVE TypeOK'
<1> USE InitTid, StateNames
<1>1. CASE ServiceInvalid
  BY <1>1 DEF TypeOK, ServiceInvalid, Halt, deferred, cpu, locks, Causes
<1>2. CASE Yield
  BY <1>2 DEF TypeOK, Yield, deferred, locks
<1>3. ASSUME NEW ms \in SleepMs, Sleep(ms) PROVE TypeOK'
  <2>1. ms \in Nat
    BY SchedAssumption
  <2>2. sleepPhase' \in [Threads -> 0 .. 2] /\ sleepLeft' \in [Threads -> Nat]
    <3>1. /\ sleepPhase \in [Threads -> 0 .. 2]
          /\ sleepLeft \in [Threads -> Nat]
          /\ current \in Threads
      BY DEF TypeOK
    <3>2. /\ sleepPhase' = [sleepPhase EXCEPT ![current] = 1]
          /\ sleepLeft' = [sleepLeft EXCEPT ![current] = ms]
      BY <1>3 DEF Sleep
    <3> QED
      BY <2>1, <3>1, <3>2
  <2> QED
    BY <1>3, <2>2 DEF TypeOK, Sleep, cpu, locks
<1>4. CASE Exit
  BY <1>4 DEF TypeOK, Exit, cpu, locks
<1>5. ASSUME NEW t \in Threads, Join(t) PROVE TypeOK'
  <2>1. joinTgt' \in [Threads -> Threads] /\ joinPend' \in [Threads -> BOOLEAN]
    <3>1. /\ joinTgt' = joinTgt \/ joinTgt' = [joinTgt EXCEPT ![curPid] = t]
          /\ joinPend' = joinPend \/ joinPend' = [joinPend EXCEPT ![curPid] = TRUE]
      BY <1>5 DEF Join
    <3>2. /\ joinTgt \in [Threads -> Threads]
          /\ joinPend \in [Threads -> BOOLEAN]
      BY DEF TypeOK
    <3>3. joinTgt' \in [Threads -> Threads]
      BY <1>5, <3>1, <3>2
    <3>4. joinPend' \in [Threads -> BOOLEAN]
      BY <3>1, <3>2
    <3> QED
      BY <3>3, <3>4
  <2> QED
    BY <1>5, <2>1 DEF TypeOK, Join, cpu, locks
<1>6. CASE RequestBlock
  BY <1>6 DEF TypeOK, RequestBlock, cpu, locks
<1>7. CASE RegisterDs
  BY <1>7 DEF TypeOK, RegisterDs, deferred, cpu, locks
<1>8. ASSUME NEW t \in Threads, NEW b \in BOOLEAN, NotifyEvent(t, b) PROVE TypeOK'
  BY <1>8 DEF TypeOK, NotifyEvent, cpu, locks
<1>9. ASSUME NEW a \in BOOLEAN, NEW b \in BOOLEAN, Lock(a, b) PROVE TypeOK'
  BY <1>9 DEF TypeOK, Lock, deferred, cpu
<1>10. ASSUME NEW t \in Threads, CreateThread(t) PROVE TypeOK'
  BY <1>10 DEF TypeOK, CreateThread, deferred, cpu, locks
<1>11. ASSUME NEW t \in Threads, StartThread(t) PROVE TypeOK'
  BY <1>11 DEF TypeOK, StartThread, deferred, cpu, locks
<1>12. ASSUME NEW t \in Threads, NEW st \in States, NewProcess(t, st),
              saved' \in [Threads -> BOOLEAN], left' \in Nat
       PROVE  TypeOK'
  <2>1. /\ state' \in [Threads -> States]
        /\ owner' \in [Threads -> Threads]
        /\ pvalid' \in [Threads -> BOOLEAN]
    BY <1>12 DEF TypeOK, NewProcess
  <2> QED
    BY <1>12, <2>1 DEF TypeOK, NewProcess, deferred, locks
<1>13. ASSUME NEW t \in Threads, Clone(t) PROVE TypeOK'
  <2>1. saved' \in [Threads -> BOOLEAN] /\ left' \in Nat
    BY <1>13, SchedAssumption DEF TypeOK, Clone
  <2> QED
    BY <1>12, <1>13, <2>1 DEF Clone
<1>14. ASSUME NEW t \in Threads, CloneFails(t) PROVE TypeOK'
  <2>1. saved' \in [Threads -> BOOLEAN] /\ left' \in Nat
    BY <1>14 DEF TypeOK, CloneFails
  <2> QED
    BY <1>12, <1>14, <2>1 DEF CloneFails
<1>15. CASE CloneMismatch
  BY <1>15 DEF TypeOK, CloneMismatch, Halt, deferred, cpu, locks, Causes
<1>16. tsLocked \in BOOLEAN /\ schedLocked \in BOOLEAN
  BY DEF TypeOK
<1> QED
  BY <1>1, <1>2, <1>3, <1>4, <1>5, <1>6, <1>7, <1>8, <1>9, <1>10, <1>11,
     <1>13, <1>14, <1>15, <1>16 DEF Syscall

\* Faults.
LEMMA FaultType == ASSUME TypeOK, Fault \/ FaultPanics PROVE TypeOK'
<1> USE InitTid, StateNames
<1>1. CASE Fault
  <2>1. state' \in [Threads -> States]
    <3>1. \/ state' = [state EXCEPT ![current] = "DESTROYED"]
          \/ state' = [state EXCEPT ![current] = "DESTROYED",
                                    ![INIT_TID] = "RUNNING"]
      BY <1>1 DEF Fault
    <3>2. state \in [Threads -> States]
      BY DEF TypeOK
    <3> QED
      BY <3>1, <3>2
  <2>2. /\ pvalid' \in [Threads -> BOOLEAN]
        /\ saved' \in [Threads -> BOOLEAN]
        /\ curPid' \in Threads
    BY <1>1 DEF TypeOK, Fault
  <2>3. left' \in Nat
    BY <1>1, SchedAssumption DEF TypeOK, Fault
  <2> QED
    <3>1. /\ current' = INIT_TID
          /\ UNCHANGED <<owner, deferred, round, scan, locks, ds>>
      BY <1>1 DEF Fault
    <3>2. /\ pc' \in {"user", "switch", "scan", "dispatch", "halt"}
          /\ cause' \in Causes
      BY <1>1 DEF TypeOK, Fault, Halt, Causes
    <3> QED
      BY <2>1, <2>2, <2>3, <3>1, <3>2 DEF TypeOK, deferred, locks
<1>2. CASE FaultPanics
  BY <1>2 DEF TypeOK, FaultPanics, Halt, deferred, cpu, locks, Causes
<1> QED
  BY <1>1, <1>2

\* Every step preserves the types.
LEMMA NextType == ASSUME TypeOK, [Next]_vars PROVE TypeOK'
<1>1. CASE Kernel
  BY <1>1, TickType, SwitchType, ScanType DEF Kernel
<1>2. CASE Syscall
  BY <1>2, SyscallType
<1>3. CASE Fault \/ FaultPanics
  BY <1>3, FaultType
<1>4. CASE Halted \/ UNCHANGED vars
  BY <1>4 DEF TypeOK, Halted, vars
<1> QED
  BY <1>1, <1>2, <1>3, <1>4 DEF Next

\* The thread table, the list of the round and the handler keep their types,
\* whatever the services and the size of the table.
THEOREM SchedTypeOK == Spec => []TypeOK
<1> QED
  BY InitType, NextType, PTL DEF Spec

----------------------------------------------------------------------------
(* The inductive invariant holds initially, and steps that leave the thread *)
(* states alone preserve it.                                                *)

\* At boot only init exists, and it runs.
LEMMA SInit == Init => SInv
<1> SUFFICES ASSUME Init PROVE SInv
  OBVIOUS
<1> USE InitTid
<1>1. TypeOK
  BY InitType
<1>2. \A t \in Threads : state[t] = IF t = INIT_TID THEN "RUNNING" ELSE "FREE"
  BY DEF Init
<1>3. Dense
  BY <1>2 DEF Dense, Threads, INIT_TID
<1>4. Owners
  BY <1>2 DEF Init, Owners, INIT_TID
<1>5. FlowerOnly /\ FreshUnsaved
  BY <1>2 DEF Init, FlowerOnly, FreshUnsaved
<1>6. Rounds
  <2>1. Len(round) = 0
    BY DEF Init
  <2> QED
    BY <2>1 DEF Rounds
<1>7. Running /\ InitThere
  BY <1>2 DEF Init, Running, InitThere, Valid
<1>8. LiveProcess
  BY <1>2 DEF Init, LiveProcess, Valid
<1>9. HaltExplained /\ NoCause
  BY DEF Init, HaltExplained, NoCause
<1> QED
  BY <1>1, <1>3, <1>4, <1>5, <1>6, <1>7, <1>8, <1>9 DEF SInv

\* A step that takes no slot and chooses the current process among the owners
\* of threads preserves the structure of the table.
LEMMA SlotsKept ==
    ASSUME SInv, TypeOK', owner' = owner,
           \A t \in Threads : state'[t] = "FREE" <=> state[t] = "FREE",
           \/ curPid' = curPid
           \/ \E u \in Threads : state[u] # "FREE" /\ curPid' = owner[u]
    PROVE  Dense' /\ Owners'
<1>1. Dense'
  BY DEF SInv, Dense
<1>2. \A t \in Threads : owner[t] \in Threads
  BY DEF SInv, TypeOK
<1>3. /\ \A t \in Threads : state[t] # "FREE" =>
             /\ owner[t] <= t
             /\ state[owner[t]] # "FREE"
             /\ owner[owner[t]] = owner[t]
      /\ owner[INIT_TID] = INIT_TID
      /\ state[curPid] # "FREE" /\ owner[curPid] = curPid
      /\ curPid \in Threads
  BY DEF SInv, Owners, TypeOK
<1>4. state'[curPid'] # "FREE" /\ owner[curPid'] = curPid'
  BY <1>2, <1>3
<1> QED
  BY <1>1, <1>2, <1>3, <1>4 DEF Owners

\* A step that revives no thread and kills no process keeps the processes of
\* threads alive.
LEMMA LiveKept ==
    ASSUME SInv, owner' = owner, pvalid' = pvalid,
           \A t \in Threads :
               /\ state'[t] \notin {"FREE", "REUSE", "DESTROYED"} => Valid(t)
               /\ state[t] = "DESTROYED" => state'[t] = "DESTROYED",
           pc' = "user" => \/ pc = "user" /\ curPid' = curPid
                           \/ pvalid[curPid']
    PROVE  LiveProcess'
<1>1. CASE Destroyed
  BY <1>1 DEF LiveProcess, Destroyed
<1>2. CASE ~Destroyed
  BY <1>2 DEF SInv, LiveProcess, Valid
<1> QED
  BY <1>1, <1>2

\* Steps in user mode that leave the states, the list and the processor alone.
LEMMA QuietStep ==
    ASSUME SInv, TypeOK', pc = "user",
           UNCHANGED <<state, owner, pvalid, current, round, scan, pc, cause>>,
           curPid' = curPid \/ (curPid' = owner[current] /\ pvalid[curPid']),
           FlowerOnly', FreshUnsaved',
           sleepPhase'[INIT_TID] = sleepPhase[INIT_TID] \/ sleepPhase'[INIT_TID] # 0
    PROVE  SInv'
<1>1. current \in Threads /\ state[current] # "FREE"
  BY DEF SInv, TypeOK, Running
<1>2. Dense' /\ Owners'
  BY <1>1, SlotsKept
<1>3. LiveProcess'
  BY LiveKept DEF Valid
<1>4. Rounds' /\ Running' /\ NoCause'
  BY DEF SInv, Rounds, Running, NoCause
<1>5. InitThere'
  BY DEF SInv, InitThere, Valid
<1>6. HaltExplained'
  BY DEF SInv, NoCause, HaltExplained
<1> QED
  BY <1>2, <1>3, <1>4, <1>5, <1>6 DEF SInv

\* Panics that leave the states alone.
LEMMA HaltStep ==
    ASSUME SInv, TypeOK', HaltExplained', pc' = "halt",
           UNCHANGED <<state, owner, saved, sleepPhase, exitReq, joinTgt,
                       pvalid, curPid>>
    PROVE  SInv'
<1>1. Dense' /\ Owners'
  BY SlotsKept
<1>2. LiveProcess'
  BY LiveKept DEF Valid
<1>3. FlowerOnly' /\ FreshUnsaved'
  BY DEF SInv, FlowerOnly, FreshUnsaved
<1>4. Rounds' /\ Running' /\ NoCause'
  BY DEF SInv, Rounds, Running, NoCause
<1>5. InitThere'
  BY DEF SInv, InitThere, Valid
<1> QED
  BY <1>1, <1>2, <1>3, <1>4, <1>5 DEF SInv

\* Exits and joins mark the flower thread of the current process.
LEMMA SMarks ==
    ASSUME SInv, TypeOK', Exit \/ \E t \in Threads : Join(t)
    PROVE  SInv'
<1>1. /\ pc = "user"
      /\ UNCHANGED <<state, owner, saved, sleepPhase, pvalid, current, curPid,
                     round, scan, pc, cause>>
  BY DEF Exit, Join, Service, cpu
<1>2. \A t \in Threads \ {curPid} :
          exitReq'[t] = exitReq[t] /\ joinTgt'[t] = joinTgt[t]
  BY DEF SInv, TypeOK, Exit, Join
<1>3. curPid \in Threads /\ owner[curPid] = curPid /\ state[curPid] # "FREE"
  BY DEF SInv, TypeOK, Owners
<1>4. FlowerOnly'
  BY <1>1, <1>2, <1>3 DEF SInv, FlowerOnly
<1>5. FreshUnsaved'
  BY <1>1 DEF SInv, FreshUnsaved
<1> QED
  BY <1>1, <1>4, <1>5, QuietStep

\* The other services that only record something, and ticks that leave the
\* current thread on the processor.
LEMMA SRecords ==
    ASSUME SInv, TypeOK',
           \/ TickLocked \/ TickStay \/ Yield \/ RequestBlock \/ RegisterDs
           \/ \E ms \in SleepMs : Sleep(ms)
           \/ \E t \in Threads, b \in BOOLEAN : NotifyEvent(t, b)
           \/ \E a, b \in BOOLEAN : Lock(a, b)
    PROVE  SInv'
<1>1. /\ pc = "user"
      /\ UNCHANGED <<state, owner, pvalid, current, round, scan, pc, cause,
                     exitReq, joinTgt>>
      /\ curPid' = curPid \/ (curPid' = owner[current] /\ pvalid[owner[current]])
  BY DEF TickLocked, TickStay, Ticking, Yield, RequestBlock, RegisterDs, Sleep,
         NotifyEvent, Lock, Service, cpu, deferred
<1>2. saved' = saved \/ saved' = [saved EXCEPT ![current] = TRUE]
  BY DEF TickLocked, TickStay, Yield, RequestBlock, RegisterDs, Sleep,
         NotifyEvent, Lock
<1>3. sleepPhase' = sleepPhase \/ sleepPhase' = [sleepPhase EXCEPT ![current] = 1]
  BY DEF TickLocked, TickStay, Yield, RequestBlock, RegisterDs, Sleep,
         NotifyEvent, Lock, deferred
<1>4. state[current] = "RUNNING"
  BY <1>1 DEF SInv, Running
<1>5. FlowerOnly'
  BY <1>1 DEF SInv, FlowerOnly
<1>6. FreshUnsaved'
  BY <1>1, <1>2, <1>4 DEF SInv, TypeOK, FreshUnsaved
<1>7. sleepPhase'[INIT_TID] = sleepPhase[INIT_TID] \/ sleepPhase'[INIT_TID] # 0
  BY <1>3, InitTid DEF SInv, TypeOK
<1> QED
  BY <1>1, <1>5, <1>6, <1>7, QuietStep

\* Panics of the switcher, of sci0 and of the fault handler.
LEMMA SHalts ==
    ASSUME SInv, TypeOK',
           TickInvalid \/ DispatchSleepingInit \/ ServiceInvalid \/ FaultPanics
    PROVE  SInv'
<1>1. /\ pc' = "halt"
      /\ UNCHANGED <<state, owner, saved, sleepPhase, exitReq, joinTgt, pvalid,
                     curPid>>
  BY DEF TickInvalid, DispatchSleepingInit, ServiceInvalid, FaultPanics, Halt,
         deferred, cpu
<1>2. HaltExplained'
  <2>1. CASE TickInvalid
    <3>1. Valid(current) /\ current \in Threads
      BY <2>1 DEF TickInvalid, SInv, TypeOK, Running, Valid
    <3>2. cause' = "ts: CurrentProcess validation" /\ ~pvalid[owner[current]]
      BY <2>1, <3>1 DEF TickInvalid, Halt
    <3>3. \E t \in Threads : state'[t] = "DESTROYED"
      BY <1>1, <3>1, <3>2 DEF SInv, LiveProcess, Destroyed
    <3> QED
      BY <3>2, <3>3 DEF HaltExplained
  <2>2. CASE ServiceInvalid
    <3>1. cause' = "sci0: p validation" /\ ~pvalid[curPid] /\ pc = "user"
      BY <2>2 DEF ServiceInvalid, Halt
    <3>2. \E t \in Threads : state'[t] = "DESTROYED"
      BY <1>1, <3>1 DEF SInv, LiveProcess, Destroyed
    <3> QED
      BY <3>1, <3>2 DEF HaltExplained
  <2>3. CASE DispatchSleepingInit \/ FaultPanics
    BY <2>3 DEF DispatchSleepingInit, FaultPanics, Halt, HaltExplained
  <2> QED
    BY <2>1, <2>2, <2>3
<1> QED
  BY <1>1, <1>2, HaltStep

----------------------------------------------------------------------------
(* The timer handler.                                                       *)

\* The current thread leaves the processor.
LEMMA STickLeave == ASSUME SInv, TypeOK', TickLeave PROVE SInv'
<1> USE InitTid
<1>1. /\ pc = "user" /\ pc' = "switch" /\ state[current] = "RUNNING"
      /\ current \in Threads /\ current' = current /\ Valid(current)
      /\ curPid' = owner[current]
      /\ UNCHANGED <<owner, exitReq, joinTgt, pvalid, round, cause>>
  BY DEF TickLeave, Ticking, SInv, TypeOK, Running
<1>2. /\ state'[current] \in {"WAITING", "READY"}
      /\ \A t \in Threads \ {current} : state'[t] = state[t]
  BY <1>1 DEF TickLeave, Preempted, SInv, TypeOK
<1>3. \/ sleepPhase' = sleepPhase /\ state'[current] = "READY"
      \/ sleepPhase' = [sleepPhase EXCEPT ![current] = 2]
  BY <1>1 DEF TickLeave, Preempted, SInv, TypeOK
<1>4. Dense' /\ Owners'
  BY <1>1, <1>2, SlotsKept
<1>5. LiveProcess'
  BY <1>1, <1>2, LiveKept DEF Valid
<1>6. FlowerOnly'
  BY <1>1, <1>2 DEF SInv, FlowerOnly
<1>7. FreshUnsaved'
  <2>1. \A t \in Threads \ {current} : saved'[t] = saved[t]
    BY DEF TickLeave, SInv, TypeOK
  <2> QED
    BY <1>1, <1>2, <2>1 DEF SInv, FreshUnsaved
<1>8. Rounds'
  <2>1. \A i \in 1 .. Len(round) : round[i] \in Threads
    BY ListTids DEF SInv
  <2> QED
    BY <1>1, <1>2, <2>1 DEF SInv, Rounds
<1>9. Running'
  BY <1>1, <1>2 DEF SInv, Running
<1>10. InitThere'
  <2>1. CASE current = INIT_TID
    <3>1. state'[INIT_TID] = "READY" \/ sleepPhase'[INIT_TID] # 0
      BY <1>3, <2>1 DEF SInv, TypeOK
    <3> QED
      BY <1>2, <2>1, <3>1 DEF InitThere, Valid
  <2>2. CASE current # INIT_TID
    <3>1. state'[INIT_TID] = state[INIT_TID]
      BY <1>2, <2>2
    <3>2. sleepPhase'[INIT_TID] = sleepPhase[INIT_TID]
      BY <1>3, <2>2 DEF SInv, TypeOK
    <3> QED
      BY <1>1, <2>2, <3>1, <3>2 DEF SInv, InitThere, Valid
  <2> QED
    BY <2>1, <2>2
<1>11. HaltExplained' /\ NoCause'
  BY <1>1 DEF SInv, NoCause, HaltExplained
<1> QED
  BY <1>4, <1>5, <1>6, <1>7, <1>8, <1>9, <1>10, <1>11 DEF SInv

\* A new thread is started; it cannot have a saved context.
LEMMA STickSpawn ==
    ASSUME SInv, TypeOK', NEW t \in Threads, TickSpawn(t)
    PROVE  SInv'
<1> USE InitTid
<1>1. /\ pc = "user" /\ state[current] = "RUNNING" /\ current \in Threads
      /\ state[t] = "STANDBY" /\ t # INIT_TID /\ t # current
  BY DEF TickSpawn, IsFirstStandby, Standby, SInv, TypeOK, Running
<1>2. ~saved[t]
  BY <1>1 DEF SInv, FreshUnsaved
<1>3. /\ current' = t /\ curPid' = owner[t]
      /\ UNCHANGED <<owner, joinTgt, pvalid, round, pc, cause>>
      /\ saved' = [saved EXCEPT ![current] = TRUE]
      /\ sleepPhase' = [sleepPhase EXCEPT ![t] = 0]
      /\ exitReq' = [exitReq EXCEPT ![t] = FALSE]
      /\ state' = [Preempted EXCEPT ![t] = "RUNNING"]
  BY <1>1, <1>2 DEF TickSpawn
<1>4. /\ state'[t] = "RUNNING" /\ state'[current] = "READY"
      /\ \A u \in Threads \ {t, current} : state'[u] = state[u]
  BY <1>1, <1>3 DEF Preempted, SInv, TypeOK
<1>5. Dense' /\ Owners'
  BY <1>1, <1>3, <1>4, SlotsKept
<1>6. LiveProcess'
  <2>1. CASE Destroyed
    BY <1>1, <1>4, <2>1 DEF LiveProcess, Destroyed
  <2>2. CASE ~Destroyed
    <3>1. pvalid[owner[t]]
      BY <1>1, <2>2 DEF SInv, LiveProcess, Valid
    <3> QED
      BY <1>1, <1>3, <1>4, <3>1, LiveKept DEF Valid
  <2> QED
    BY <2>1, <2>2
<1>7. FlowerOnly'
  <2>1. \A u \in Threads : exitReq'[u] => exitReq[u]
    BY <1>3 DEF SInv, TypeOK
  <2> QED
    BY <1>1, <1>3, <1>4, <2>1 DEF SInv, FlowerOnly
<1>8. FreshUnsaved'
  <2>1. \A u \in Threads \ {current} : saved'[u] = saved[u]
    BY <1>3 DEF SInv, TypeOK
  <2> QED
    BY <1>1, <1>4, <2>1 DEF SInv, FreshUnsaved
<1>9. Rounds'
  <2>1. \A i \in 1 .. Len(round) : round[i] \in Threads
    BY ListTids DEF SInv
  <2>2. \A i \in 1 .. Len(round) : round[i] # t /\ round[i] # current
    BY <1>1, <2>1 DEF SInv, Rounds
  <2> QED
    BY <1>1, <1>3, <1>4, <2>1, <2>2 DEF SInv, Rounds
<1>10. Running'
  BY <1>1, <1>3, <1>4 DEF SInv, Running
<1>11. InitThere'
  <2>1. sleepPhase'[INIT_TID] = sleepPhase[INIT_TID]
    BY <1>1, <1>3 DEF SInv, TypeOK
  <2>2. CASE current = INIT_TID
    BY <1>4, <2>2 DEF InitThere, Valid
  <2>3. CASE current # INIT_TID
    <3>1. state'[INIT_TID] = state[INIT_TID]
      BY <1>1, <1>4, <2>3
    <3> QED
      BY <1>1, <2>1, <2>3, <3>1 DEF SInv, InitThere, Valid
  <2> QED
    BY <2>2, <2>3
<1>12. HaltExplained' /\ NoCause'
  BY <1>1, <1>3 DEF SInv, NoCause, HaltExplained
<1> QED
  BY <1>5, <1>6, <1>7, <1>8, <1>9, <1>10, <1>11, <1>12 DEF SInv

\* The next thread of the list is READY, and is not listed twice.
LEMMA SSwitchNext == ASSUME SInv, TypeOK', SwitchNext PROVE SInv'
<1>1. round \in Seq(Threads) /\ round # <<>> /\ pc = "switch" /\ round' = Tail(round)
  BY DEF SwitchNext, SInv, TypeOK
<1>2. /\ Head(round) = round[1] /\ Len(round) \in Nat /\ Len(round) >= 1
      /\ Len(Tail(round)) = Len(round) - 1
      /\ \A i \in 1 .. Len(Tail(round)) : Tail(round)[i] = round[i + 1]
  BY <1>1, HeadTailProperties, EmptySeq, LenProperties
<1>3. state[Head(round)] = "READY"
  BY <1>1, <1>2 DEF SInv, Rounds
<1>4. /\ current' = Head(round) /\ pc' = "dispatch"
      /\ UNCHANGED <<state, owner, saved, sleepPhase, exitReq, joinTgt, pvalid,
                     curPid, cause>>
  BY <1>3 DEF SwitchNext, deferred
<1>5. Dense' /\ Owners'
  BY <1>4, SlotsKept
<1>6. LiveProcess'
  BY <1>4, LiveKept DEF Valid
<1>7. FlowerOnly' /\ FreshUnsaved'
  BY <1>4 DEF SInv, FlowerOnly, FreshUnsaved
<1>8. Rounds'
  <2>1. \A i \in 1 .. Len(round) : state[round[i]] = "READY" /\ round[i] # INIT_TID
    BY <1>1 DEF SInv, Rounds
  <2>2. \A i, j \in 1 .. Len(round) : i < j => round[i] # round[j]
    BY <1>1 DEF SInv, Rounds
  <2>3. \A i \in 1 .. Len(round') : i + 1 \in 1 .. Len(round) /\ 1 < i + 1
    BY <1>1, <1>2
  <2>4. \A i \in 1 .. Len(round') : round'[i] = round[i + 1]
    BY <1>1, <1>2
  <2>5. \A i \in 1 .. Len(round') :
           /\ state'[round'[i]] = "READY"
           /\ round'[i] # INIT_TID
           /\ round'[i] # current'
    BY <1>2, <1>4, <2>1, <2>2, <2>3, <2>4
  <2>6. \A i, j \in 1 .. Len(round') : i < j => round'[i] # round'[j]
    BY <2>2, <2>3, <2>4, <1>1, <1>2
  <2> QED
    BY <1>4, <2>5, <2>6 DEF Rounds
<1>9. Running' /\ NoCause'
  BY <1>1, <1>3, <1>4 DEF SInv, Running, NoCause
<1>10. InitThere'
  BY <1>1, <1>4 DEF SInv, InitThere, Valid
<1>11. HaltExplained'
  BY <1>4 DEF SInv, HaltExplained
<1> QED
  BY <1>5, <1>6, <1>7, <1>8, <1>9, <1>10, <1>11 DEF SInv

\* The end of a round wakes init up, or the scheduler is locked.
LEMMA SSwitchEndOfRound == ASSUME SInv, TypeOK', SwitchEndOfRound PROVE SInv'
<1> USE InitTid
<1>1. CASE schedLocked
  <2>1. /\ pc' = "halt" /\ cause' = "ts: current_tid"
        /\ UNCHANGED <<state, owner, saved, sleepPhase, exitReq, joinTgt, pvalid,
                       curPid>>
    BY <1>1 DEF SwitchEndOfRound, Halt, deferred
  <2>2. HaltExplained'
    BY <2>1 DEF HaltExplained
  <2> QED
    BY <2>1, <2>2, HaltStep
<1>2. CASE ~schedLocked
  <2>1. /\ pc = "switch" /\ pc' = "scan" /\ scan' = INIT_TID + 1
        /\ state' = [state EXCEPT ![INIT_TID] = "READY"]
        /\ round = <<>>
        /\ UNCHANGED <<owner, saved, sleepPhase, exitReq, joinTgt, pvalid,
                       curPid, round, current, cause>>
    BY <1>2 DEF SwitchEndOfRound, deferred
  <2>2. /\ state'[INIT_TID] = "READY" /\ Valid(INIT_TID)
        /\ \A t \in Threads \ {INIT_TID} : state'[t] = state[t]
    BY <2>1 DEF SInv, TypeOK, InitThere
  <2>3. Dense' /\ Owners'
    BY <2>1, <2>2, SlotsKept DEF Valid
  <2>4. LiveProcess'
    BY <2>1, <2>2, LiveKept DEF Valid
  <2>5. FlowerOnly' /\ FreshUnsaved'
    BY <2>1, <2>2 DEF SInv, FlowerOnly, FreshUnsaved
  <2>6. Rounds'
    <3>1. Len(round') = 0
      BY <2>1
    <3> QED
      BY <3>1 DEF Rounds
  <2>7. Running'
    <3>1. scan' >= 1
      BY <2>1 DEF INIT_TID
    <3> QED
      BY <2>1, <2>2, <3>1 DEF SInv, Running
  <2>8. InitThere' /\ HaltExplained' /\ NoCause'
    BY <2>1, <2>2 DEF SInv, InitThere, Valid, HaltExplained, NoCause
  <2> QED
    BY <2>3, <2>4, <2>5, <2>6, <2>7, <2>8 DEF SInv
<1> QED
  BY <1>1, <1>2

----------------------------------------------------------------------------
(* The loop of the scheduler.                                               *)

\* A visit that changes the state of the visited thread only, and appends it
\* to the list only if it is READY.
LEMMA SVisitOne ==
    ASSUME SInv, TypeOK', NEW t \in Threads, Visiting(t), pc' = pc, FlowerOnly',
           UNCHANGED <<owner, saved, curPid, current, pvalid, cause>>,
           sleepPhase'[INIT_TID] = sleepPhase[INIT_TID],
           \/ state'[t] = state[t]
           \/ Valid(t) /\ state'[t] \in {"READY", "BLOCKED", "ZOMBIE"},
           \A u \in Threads \ {t} : state'[u] = state[u],
           round' = round \/ (round' = Append(round, t) /\ state'[t] = "READY")
    PROVE  SInv'
<1> USE InitTid
<1>1. pc = "scan" /\ scan = t /\ scan' = t + 1 /\ t >= 1 /\ t # INIT_TID /\ t \in Int
  BY DEF Visiting, SInv, Running, INIT_TID, Threads
<1>2. state'[INIT_TID] = state[INIT_TID]
  BY <1>1
<1>3. Dense' /\ Owners'
  BY SlotsKept DEF Valid
<1>4. LiveProcess'
  BY <1>1, LiveKept DEF Valid
<1>5. FreshUnsaved'
  BY DEF SInv, FreshUnsaved
<1>6. /\ \A i \in 1 .. Len(round) :
             /\ round[i] \in Threads /\ state[round[i]] = "READY"
             /\ round[i] # INIT_TID /\ round[i] < t
      /\ \A i, j \in 1 .. Len(round) : i < j => round[i] # round[j]
  <2>1. \A i \in 1 .. Len(round) : round[i] \in Threads
    BY ListTids DEF SInv
  <2> QED
    BY <1>1, <2>1 DEF SInv, Rounds
<1>7. Rounds'
  <2>1. CASE round' = round
    <3>1. \A i \in 1 .. Len(round) : round[i] < t + 1 /\ round[i] # t
      BY <1>1, <1>6 DEF Threads
    <3> QED
      BY <1>1, <1>6, <2>1, <3>1 DEF Rounds
  <2>2. CASE round' = Append(round, t) /\ state'[t] = "READY"
    <3>1. /\ Len(round) \in Nat
          /\ Len(round') = Len(round) + 1
          /\ \A i \in 1 .. Len(round) : round'[i] = round[i]
          /\ round'[Len(round) + 1] = t
      <4>1. round \in Seq(Threads)
        BY DEF SInv, TypeOK
      <4> QED
        BY <2>2, <4>1, AppendProperties, LenProperties
    <3>2. \A i \in 1 .. Len(round') : i \in 1 .. Len(round) \/ i = Len(round) + 1
      BY <3>1
    <3>3. \A i \in 1 .. Len(round) : round[i] < t + 1 /\ round[i] # t
      BY <1>1, <1>6 DEF Threads
    <3>4. \A i \in 1 .. Len(round') :
             /\ state'[round'[i]] = "READY"
             /\ round'[i] # INIT_TID /\ round'[i] < scan'
      <4>1. ASSUME NEW i \in 1 .. Len(round)
            PROVE  /\ state'[round'[i]] = "READY"
                   /\ round'[i] # INIT_TID /\ round'[i] < scan'
        <5>1. /\ round'[i] = round[i] /\ round[i] \in Threads \ {t}
              /\ state[round[i]] = "READY" /\ round[i] # INIT_TID
          BY <1>6, <3>1, <3>3
        <5>2. round[i] < scan'
          BY <1>1, <3>3
        <5> QED
          BY <5>1, <5>2
      <4>2. t < scan'
        BY <1>1
      <4> QED
        BY <1>1, <2>2, <3>1, <3>2, <4>1, <4>2
    <3>5. \A i, j \in 1 .. Len(round') : i < j => round'[i] # round'[j]
      BY <1>6, <3>1, <3>2, <3>3
    <3> QED
      BY <1>1, <3>4, <3>5 DEF Rounds
  <2> QED
    BY <2>1, <2>2
<1>8. Running'
  BY <1>1, <1>2 DEF SInv, Running
<1>9. InitThere' /\ HaltExplained' /\ NoCause'
  BY <1>1, <1>2 DEF SInv, InitThere, Valid, HaltExplained, NoCause
<1> QED
  BY <1>3, <1>4, <1>5, <1>7, <1>8, <1>9 DEF SInv

\* Events, blocks and exits.
LEMMA SVisitEvent ==
    ASSUME SInv, TypeOK', NEW t \in Threads,
           VisitEvent(t) \/ VisitBlock(t) \/ VisitExit(t)
    PROVE  SInv'
<1>1. /\ Visiting(t) /\ Valid(t) /\ pc' = pc
      /\ UNCHANGED <<owner, saved, curPid, current, pvalid, cause, sleepPhase,
                     joinTgt, round>>
  BY DEF VisitEvent, VisitBlock, VisitExit
<1>2. /\ \/ state'[t] = state[t]
         \/ state'[t] \in {"READY", "BLOCKED"}
         \/ state'[t] = "ZOMBIE" /\ exitReq[t]
      /\ \A u \in Threads \ {t} : state'[u] = state[u]
  <2>1. \/ state' = state
        \/ state' = [state EXCEPT ![t] = "READY"]
        \/ state' = [state EXCEPT ![t] = "BLOCKED"]
        \/ state' = [state EXCEPT ![t] = "ZOMBIE"] /\ exitReq[t]
    BY DEF VisitEvent, VisitBlock, VisitExit
  <2>2. state \in [Threads -> States]
    BY DEF SInv, TypeOK
  <2> QED
    BY <2>1, <2>2
<1>3. \A u \in Threads : exitReq'[u] => exitReq[u]
  <2>1. exitReq' = exitReq \/ exitReq' = [exitReq EXCEPT ![t] = FALSE]
    BY DEF VisitEvent, VisitBlock, VisitExit
  <2>2. exitReq \in [Threads -> BOOLEAN]
    BY DEF SInv, TypeOK
  <2> QED
    BY <2>1, <2>2
<1>4. FlowerOnly'
  BY <1>1, <1>2, <1>3 DEF SInv, FlowerOnly, Valid
<1> QED
  BY <1>1, <1>2, <1>4, SVisitOne

\* A zombie is reaped with its process.  Its threads are younger than it, so
\* none of them is in the list yet, and none of them has joined it.
LEMMA SReap ==
    ASSUME SInv, TypeOK', NEW t \in Threads, VisitThread(t), Checked(t) = "ZOMBIE"
    PROVE  SInv'
<1> USE InitTid
<1>1. /\ pc = "scan" /\ pc' = pc /\ scan = t /\ scan' = t + 1 /\ t >= 1
      /\ t # INIT_TID /\ t \in Int
  BY DEF VisitThread, Visiting, SInv, Running, INIT_TID, Threads
<1>2. state[t] = "ZOMBIE" /\ owner[t] = t /\ Valid(t)
  BY DEF Checked, SInv, FlowerOnly, Valid
<1>3. /\ state' = Reaped(t)
      /\ pvalid' = [pvalid EXCEPT ![t] = FALSE]
      /\ UNCHANGED <<owner, saved, curPid, current, cause, exitReq, joinTgt,
                     round>>
      /\ sleepPhase' = sleepPhase \/ sleepPhase' = [sleepPhase EXCEPT ![t] = 0]
  BY <1>2 DEF VisitThread
<1>4. \A u \in Threads :
         state'[u] = IF u = t THEN "REUSE"
                     ELSE IF Valid(u) /\ joinTgt[u] = t THEN "READY"
                     ELSE IF Valid(u) /\ owner[u] = t THEN "REUSE"
                     ELSE state[u]
  BY <1>2, <1>3 DEF Reaped
<1>5. \A u \in Threads : joinTgt[u] = t => owner[u] = u
  BY <1>1 DEF SInv, FlowerOnly
<1>6. owner[INIT_TID] = INIT_TID /\ state[INIT_TID] = "READY"
  BY <1>1 DEF SInv, Owners, Running
<1>7. state'[INIT_TID] = "READY"
  BY <1>1, <1>4, <1>6
<1>8. Dense' /\ Owners'
  BY <1>2, <1>3, <1>4, SlotsKept DEF Valid
<1>9. \A u \in Threads : state[u] = "DESTROYED" => state'[u] = "DESTROYED"
  BY <1>2, <1>4 DEF Valid
<1>10. LiveProcess'
  <2>1. CASE Destroyed
    BY <1>9, <2>1 DEF LiveProcess, Destroyed
  <2>2. CASE ~Destroyed
    <3>1. \A u \in Threads : state'[u] \notin {"FREE", "REUSE", "DESTROYED"}
             => Valid(u) /\ owner[u] # t
      BY <1>2, <1>4, <1>5 DEF Valid
    <3>2. \A u \in Threads : Valid(u) => pvalid[owner[u]]
      BY <2>2 DEF SInv, LiveProcess
    <3>3. \A u \in Threads \ {t} : pvalid'[u] = pvalid[u]
      BY <1>3 DEF SInv, TypeOK
    <3>4. \A u \in Threads : owner[u] \in Threads
      BY DEF SInv, TypeOK
    <3> QED
      BY <1>1, <1>3, <3>1, <3>2, <3>3, <3>4 DEF LiveProcess, Valid
  <2> QED
    BY <2>1, <2>2
<1>11. FlowerOnly' /\ FreshUnsaved'
  BY <1>3, <1>4 DEF SInv, FlowerOnly, FreshUnsaved, Valid
<1>12. Rounds'
  <2>1. /\ \A i \in 1 .. Len(round) :
               /\ round[i] \in Threads /\ state[round[i]] = "READY"
               /\ round[i] # INIT_TID /\ round[i] < t
        /\ \A i, j \in 1 .. Len(round) : i < j => round[i] # round[j]
    <3>1. \A i \in 1 .. Len(round) : round[i] \in Threads
      BY ListTids DEF SInv
    <3> QED
      BY <1>1, <3>1 DEF SInv, Rounds
  <2>2. \A u \in Threads : (u < t /\ state[u] # "FREE") => owner[u] # t
    BY <1>1 DEF SInv, Owners, Threads
  <2>3. \A i \in 1 .. Len(round) : round[i] < t + 1 /\ round[i] # t
    BY <1>1, <2>1 DEF Threads
  <2>4. \A i \in 1 .. Len(round) : state'[round[i]] = "READY"
    BY <1>4, <2>1, <2>2, <2>3
  <2> QED
    BY <1>1, <1>3, <2>1, <2>3, <2>4 DEF Rounds
<1>13. Running'
  <2>1. \A u \in Threads : state'[u] # "RUNNING"
    BY <1>1, <1>4 DEF SInv, Running
  <2>2. scan' >= 1
    BY <1>1
  <2> QED
    BY <1>1, <1>7, <2>1, <2>2 DEF Running
<1>14. InitThere'
  BY <1>7 DEF InitThere, Valid
<1>15. HaltExplained' /\ NoCause'
  BY <1>1, <1>3 DEF SInv, HaltExplained, NoCause
<1> QED
  BY <1>8, <1>10, <1>11, <1>12, <1>13, <1>14, <1>15 DEF SInv

\* Every visit of the scheduler.
LEMMA SVisitThread ==
    ASSUME SInv, TypeOK', NEW t \in Threads, VisitThread(t)
    PROVE  SInv'
<1> USE InitTid
<1>1. CASE Checked(t) = "ZOMBIE"
  BY <1>1, SReap
<1>2. CASE Checked(t) # "ZOMBIE"
  <2>1. /\ Visiting(t) /\ pc' = pc /\ t # INIT_TID
        /\ UNCHANGED <<owner, saved, curPid, current, pvalid, cause, exitReq,
                       joinTgt>>
        /\ state' = [state EXCEPT ![t] = Checked(t)]
        /\ round' = IF Checked(t) = "READY" THEN Append(round, t) ELSE round
        /\ sleepPhase' = sleepPhase \/ sleepPhase' = [sleepPhase EXCEPT ![t] = 0]
    BY <1>2 DEF VisitThread, Visiting, SInv, Running, INIT_TID
  <2>2. /\ state'[t] = Checked(t)
        /\ \A u \in Threads \ {t} : state'[u] = state[u]
    BY <2>1 DEF SInv, TypeOK
  <2>3. Checked(t) = state[t] \/ (Valid(t) /\ Checked(t) \in {"READY", "BLOCKED"})
    <3>1. CASE Valid(t)
      BY <3>1 DEF Checked
    <3>2. CASE ~Valid(t)
      BY <3>2 DEF Checked
    <3> QED
      BY <3>1, <3>2
  <2>4. sleepPhase'[INIT_TID] = sleepPhase[INIT_TID]
    BY <2>1 DEF SInv, TypeOK
  <2>5. FlowerOnly'
    BY <2>1, <2>2, <2>3 DEF SInv, FlowerOnly, Valid
  <2> QED
    BY <2>1, <2>2, <2>3, <2>4, <2>5, SVisitOne
<1> QED
  BY <1>1, <1>2

\* At the end of the loop init is dispatched; it is READY and not listed.
LEMMA SVisitEnd == ASSUME SInv, TypeOK', VisitEnd PROVE SInv'
<1>1. /\ pc = "scan" /\ pc' = "dispatch" /\ current' = INIT_TID
      /\ UNCHANGED <<state, owner, saved, sleepPhase, exitReq, joinTgt, pvalid,
                     curPid, round, cause>>
  BY DEF VisitEnd, deferred
<1>2. Dense' /\ Owners'
  BY <1>1, SlotsKept
<1>3. LiveProcess'
  BY <1>1, LiveKept DEF Valid
<1>4. FlowerOnly' /\ FreshUnsaved'
  BY <1>1 DEF SInv, FlowerOnly, FreshUnsaved
<1>5. Rounds' /\ Running' /\ NoCause'
  BY <1>1 DEF SInv, Rounds, Running, NoCause
<1>6. InitThere' /\ HaltExplained'
  BY <1>1 DEF SInv, InitThere, Valid, HaltExplained
<1> QED
  BY <1>2, <1>3, <1>4, <1>5, <1>6 DEF SInv

----------------------------------------------------------------------------
(* The dispatcher.                                                          *)

\* The selected thread is READY, so it runs; init may be set READY instead of
\* it, and is then the current process.
LEMMA SDispatch == ASSUME SInv, TypeOK', Dispatch PROVE SInv'
<1> USE InitTid
<1>1. /\ pc = "dispatch" /\ current \in Threads /\ state[current] = "READY"
      /\ Valid(INIT_TID) /\ Selected = current
      /\ \A t \in Threads : state[t] # "RUNNING"
  BY DEF Dispatch, SInv, TypeOK, Running, InitThere, Selected
<1>2. /\ \/ Released = state
         \/ current # INIT_TID /\ Released = [state EXCEPT ![INIT_TID] = "READY"]
      /\ TargetThread = current \/ TargetThread = INIT_TID
  BY <1>1 DEF Dispatch, Released, TargetThread
<1>3. Released[current] = "READY"
  BY <1>1, <1>2 DEF SInv, TypeOK
<1>4. /\ state' = [Released EXCEPT ![current] = "RUNNING"]
      /\ saved' = [saved EXCEPT ![current] = FALSE]
      /\ UNCHANGED <<owner, sleepPhase, exitReq, joinTgt, pvalid, current, round,
                     scan>>
      /\ \/ /\ pvalid[owner[TargetThread]] /\ curPid' = owner[TargetThread]
            /\ pc' = "user" /\ cause' = cause
         \/ /\ ~pvalid[owner[TargetThread]] /\ curPid' = curPid
            /\ pc' = "halt" /\ cause' = "ts: TargetProcess validation"
  BY <1>3 DEF Dispatch, Halt, deferred
<1>5. /\ state'[current] = "RUNNING"
      /\ current = INIT_TID \/ state'[INIT_TID] = state[INIT_TID]
                            \/ state'[INIT_TID] = "READY"
      /\ \A t \in Threads \ {current, INIT_TID} : state'[t] = state[t]
  BY <1>1, <1>2, <1>4 DEF SInv, TypeOK
<1>6. TargetThread \in Threads /\ Valid(TargetThread)
  BY <1>1, <1>2 DEF Valid
<1>7. Dense' /\ Owners'
  <2>1. \A t \in Threads : state'[t] = "FREE" <=> state[t] = "FREE"
    BY <1>1, <1>5 DEF Valid
  <2>2. curPid' = curPid \/ (state[TargetThread] # "FREE" /\ curPid' = owner[TargetThread])
    BY <1>4, <1>6 DEF Valid
  <2> QED
    BY <1>4, <1>6, <2>1, <2>2, SlotsKept
<1>8. LiveProcess'
  <2>1. \A t \in Threads :
           /\ state'[t] \notin {"FREE", "REUSE", "DESTROYED"} => Valid(t)
           /\ state[t] = "DESTROYED" => state'[t] = "DESTROYED"
    BY <1>1, <1>5 DEF Valid
  <2>2. pc' = "user" => pvalid[curPid']
    BY <1>4
  <2> QED
    BY <1>4, <2>1, <2>2, LiveKept
<1>9. FlowerOnly'
  <2>1. UNCHANGED <<owner, exitReq, joinTgt>>
    BY <1>4
  <2>2. \A t \in Threads : /\ state'[t] = "ZOMBIE" => state[t] = "ZOMBIE"
                           /\ state'[t] = "FREE" => state[t] = "FREE"
    BY <1>1, <1>5 DEF Valid
  <2> QED
    BY <2>1, <2>2 DEF SInv, FlowerOnly
<1>10. FreshUnsaved'
  <2>1. \A t \in Threads : saved'[t] => saved[t]
    BY <1>1, <1>4 DEF SInv, TypeOK
  <2> QED
    BY <1>1, <1>5, <2>1 DEF SInv, FreshUnsaved
<1>11. Rounds'
  <2>1. /\ \A i \in 1 .. Len(round) :
               state[round[i]] = "READY" /\ round[i] # INIT_TID /\ round[i] # current
        /\ \A i, j \in 1 .. Len(round) : i < j => round[i] # round[j]
    BY <1>1 DEF SInv, Rounds
  <2>2. \A i \in 1 .. Len(round) : round[i] \in Threads
    BY ListTids DEF SInv
  <2>3. \A i \in 1 .. Len(round) : state'[round[i]] = "READY"
    BY <1>5, <2>1, <2>2
  <2>4. pc' # "scan" /\ round' = round /\ current' = current
    BY <1>4
  <2> QED
    BY <2>1, <2>3, <2>4 DEF Rounds
<1>12. Running'
  BY <1>1, <1>4, <1>5 DEF Running
<1>13. InitThere'
  <2>1. CASE current = INIT_TID
    BY <1>4, <1>5, <2>1 DEF InitThere, Valid
  <2>2. CASE current # INIT_TID
    BY <1>1, <1>4, <1>5, <2>2 DEF SInv, InitThere, Valid
  <2> QED
    BY <2>1, <2>2
<1>14. NoCause'
  BY <1>1, <1>4 DEF SInv, NoCause
<1>15. HaltExplained'
  <2>1. CASE pc' = "user"
    BY <1>1, <1>4, <2>1 DEF SInv, NoCause, HaltExplained
  <2>2. CASE pc' = "halt"
    <3>1. ~pvalid[owner[TargetThread]] /\ cause' = "ts: TargetProcess validation"
      BY <1>4, <2>2
    <3>2. Destroyed
      BY <1>6, <3>1 DEF SInv, LiveProcess
    <3>3. \E t \in Threads : state'[t] = "DESTROYED"
      BY <1>1, <1>5, <3>2 DEF Destroyed, Valid
    <3> QED
      BY <3>1, <3>3 DEF HaltExplained
  <2> QED
    BY <1>4, <2>1, <2>2
<1> QED
  BY <1>7, <1>8, <1>9, <1>10, <1>11, <1>12, <1>13, <1>14, <1>15 DEF SInv

----------------------------------------------------------------------------
(* New threads and processes.                                               *)

\* A thread takes the first empty slot, in the current process or as the
\* flower thread of a new one.
LEMMA SNewThread ==
    ASSUME SInv, TypeOK', NEW t \in Threads, NEW o \in Threads, IsNewTid(t),
           pc = "user", o = curPid \/ o = t,
           UNCHANGED <<sleepPhase, exitReq, joinTgt, current, curPid, round, scan,
                       pc, cause>>,
           state'[t] \in {"INITIALIZED", "STANDBY", "BLOCKED"},
           \A u \in Threads \ {t} : state'[u] = state[u],
           owner' = [owner EXCEPT ![t] = o],
           pvalid'[o], \A u \in Threads \ {t} : pvalid'[u] = pvalid[u],
           saved'[t] => state'[t] = "BLOCKED",
           \A u \in Threads \ {t} : saved'[u] = saved[u]
    PROVE  SInv'
<1> USE InitTid
<1>1. /\ state[t] = "FREE"
      /\ \A u \in Threads : u < t => state[u] # "FREE"
  BY DEF IsNewTid
<1>2. \A u \in Threads : u > t => state[u] = "FREE"
  BY <1>1 DEF SInv, Dense
<1>3. /\ owner'[t] = o /\ \A u \in Threads \ {t} : owner'[u] = owner[u]
      /\ \A u \in Threads : owner[u] \in Threads
      /\ curPid \in Threads /\ current \in Threads
  BY DEF SInv, TypeOK
<1>4. /\ state[curPid] # "FREE" /\ owner[curPid] = curPid /\ curPid # t
      /\ owner[INIT_TID] = INIT_TID /\ INIT_TID # t
      /\ \A u \in Threads : state[u] # "FREE" =>
             owner[u] <= u /\ state[owner[u]] # "FREE" /\ owner[owner[u]] = owner[u]
  BY <1>1 DEF SInv, Owners, InitThere, Valid
<1>5. Dense'
  BY <1>1, <1>2 DEF Dense, Threads
<1>6. Owners'
  <2>1. o <= t
    BY <1>2, <1>3, <1>4 DEF Threads
  <2>2. owner'[o] = o /\ state'[o] # "FREE"
    BY <1>3, <1>4
  <2>3. ASSUME NEW u \in Threads \ {t}, state[u] # "FREE"
        PROVE  /\ owner'[u] <= u /\ state'[owner'[u]] # "FREE"
               /\ owner'[owner'[u]] = owner'[u]
    <3>1. owner'[u] = owner[u] /\ owner[u] # t /\ owner[u] \in Threads
      BY <1>1, <1>3, <1>4, <2>3
    <3> QED
      BY <1>3, <1>4, <2>3, <3>1
  <2>4. /\ owner'[INIT_TID] = INIT_TID
        /\ state'[curPid'] # "FREE" /\ owner'[curPid'] = curPid'
    BY <1>3, <1>4
  <2>5. \A u \in Threads : state'[u] # "FREE" =>
           /\ owner'[u] <= u /\ state'[owner'[u]] # "FREE"
           /\ owner'[owner'[u]] = owner'[u]
    BY <1>3, <2>1, <2>2, <2>3
  <2> QED
    BY <2>4, <2>5 DEF Owners
<1>7. FlowerOnly'
  <2>1. ~exitReq[t] /\ joinTgt[t] = INIT_TID
    BY <1>1 DEF SInv, FlowerOnly
  <2> QED
    BY <1>1, <1>3, <2>1 DEF SInv, FlowerOnly
<1>8. FreshUnsaved'
  BY DEF SInv, FreshUnsaved
<1>9. Rounds'
  <2>1. \A i \in 1 .. Len(round) : round[i] \in Threads
    BY ListTids DEF SInv
  <2>2. \A i \in 1 .. Len(round) : state[round[i]] = "READY"
    BY DEF SInv, Rounds
  <2>3. \A i \in 1 .. Len(round) : state'[round[i]] = "READY"
    BY <1>1, <2>1, <2>2
  <2> QED
    BY <2>3 DEF SInv, Rounds
<1>10. Running'
  <2>1. state[current] = "RUNNING" /\ current # t
    BY <1>1 DEF SInv, Running
  <2> QED
    BY <1>3, <2>1 DEF SInv, Running
<1>11. InitThere'
  BY <1>4 DEF SInv, InitThere, Valid
<1>12. LiveProcess'
  <2>1. CASE Destroyed
    BY <1>1, <2>1 DEF LiveProcess, Destroyed
  <2>2. CASE ~Destroyed
    <3>1. /\ \A u \in Threads : Valid(u) => pvalid[owner[u]]
          /\ pvalid[curPid]
      BY <2>2 DEF SInv, LiveProcess
    <3>2. ASSUME NEW u \in Threads \ {t}, Valid(u)
          PROVE  pvalid'[owner'[u]]
      <4>1. owner'[u] = owner[u] /\ owner[u] \in Threads \ {t}
        BY <1>1, <1>3, <1>4, <3>2 DEF Valid
      <4> QED
        BY <3>1, <3>2, <4>1
    <3>3. pvalid'[curPid']
      BY <1>3, <1>4, <3>1
    <3> QED
      BY <1>3, <3>2, <3>3 DEF LiveProcess, Valid
  <2> QED
    BY <2>1, <2>2
<1>13. HaltExplained' /\ NoCause'
  BY DEF SInv, NoCause, HaltExplained
<1> QED
  BY <1>5, <1>6, <1>7, <1>8, <1>9, <1>10, <1>11, <1>12, <1>13 DEF SInv

\* Service 72.
LEMMA SCreateThread ==
    ASSUME SInv, TypeOK', NEW t \in Threads, CreateThread(t)
    PROVE  SInv'
<1>1. /\ IsNewTid(t) /\ pc = "user" /\ pvalid[curPid] /\ curPid \in Threads
      /\ UNCHANGED <<sleepPhase, exitReq, joinTgt, current, curPid, round, scan,
                     pc, cause, saved, pvalid>>
      /\ owner' = [owner EXCEPT ![t] = curPid]
      /\ state[t] = "FREE"
  BY DEF CreateThread, Service, deferred, cpu, SInv, TypeOK, IsNewTid
<1>2. /\ state'[t] = "INITIALIZED"
      /\ \A u \in Threads \ {t} : state'[u] = state[u]
  BY DEF CreateThread, SInv, TypeOK
<1>3. ~saved[t]
  BY <1>1 DEF SInv, FreshUnsaved
<1> QED
  BY <1>1, <1>2, <1>3, SNewThread

\* Clones, successful or not.
LEMMA SClone ==
    ASSUME SInv, TypeOK', NEW t \in Threads, Clone(t) \/ CloneFails(t)
    PROVE  SInv'
<1>1. PICK st \in {"STANDBY", "BLOCKED"} :
         /\ NewProcess(t, st)
         /\ \/ saved' = saved
            \/ saved' = [saved EXCEPT ![t] = saved[current]] /\ st = "BLOCKED"
  BY DEF Clone, CloneFails
<1>2. /\ IsNewTid(t) /\ pc = "user" /\ state[t] = "FREE"
      /\ UNCHANGED <<sleepPhase, exitReq, joinTgt, current, curPid, round, scan,
                     pc, cause>>
      /\ owner' = [owner EXCEPT ![t] = t]
      /\ state' = [state EXCEPT ![current] = "RUNNING", ![t] = st]
      /\ pvalid' = [pvalid EXCEPT ![t] = TRUE]
  BY <1>1 DEF NewProcess, Service, deferred, IsNewTid
<1>3. state[current] = "RUNNING" /\ current \in Threads
  BY <1>2 DEF SInv, TypeOK, Running
<1>4. /\ state'[t] = st
      /\ \A u \in Threads \ {t} : state'[u] = state[u]
  BY <1>2, <1>3 DEF SInv, TypeOK
<1>5. pvalid'[t] /\ \A u \in Threads \ {t} : pvalid'[u] = pvalid[u]
  BY <1>2 DEF SInv, TypeOK
<1>6. ~saved[t]
  BY <1>2 DEF SInv, FreshUnsaved
<1>7. \A u \in Threads \ {t} : saved'[u] = saved[u]
  BY <1>1 DEF SInv, TypeOK
<1>8. saved'[t] => state'[t] = "BLOCKED"
  BY <1>1, <1>4, <1>6
<1> QED
  BY <1>1, <1>2, <1>4, <1>5, <1>7, <1>8, SNewThread

\* Service 94, for a thread that was not started before.
LEMMA SStartThread ==
    ASSUME SInv, TypeOK', "restart" \notin Services,
           NEW t \in Threads, StartThread(t)
    PROVE  SInv'
<1> USE InitTid
<1>1. /\ pc = "user" /\ state[t] = "INITIALIZED"
      /\ state' = [state EXCEPT ![t] = "STANDBY"]
      /\ UNCHANGED <<owner, saved, sleepPhase, exitReq, joinTgt, pvalid,
                     current, curPid, round, scan, pc, cause>>
  BY DEF StartThread, Service, deferred, cpu
<1>2. state'[t] = "STANDBY" /\ \A u \in Threads \ {t} : state'[u] = state[u]
  BY <1>1 DEF SInv, TypeOK
<1>3. \A u \in Threads : state'[u] = "FREE" <=> state[u] = "FREE"
  BY <1>1, <1>2
<1>4. Dense' /\ Owners'
  BY <1>1, <1>3, SlotsKept
<1>5. FlowerOnly' /\ FreshUnsaved'
  BY <1>1, <1>2 DEF SInv, FlowerOnly, FreshUnsaved
<1>6. Rounds'
  <2>1. \A i \in 1 .. Len(round) : round[i] \in Threads
    BY ListTids DEF SInv
  <2>2. \A i \in 1 .. Len(round) : state[round[i]] = "READY"
    BY <1>1 DEF SInv, Rounds
  <2>3. \A i \in 1 .. Len(round) : state'[round[i]] = "READY"
    BY <1>1, <1>2, <2>1, <2>2
  <2> QED
    BY <1>1, <2>3 DEF SInv, Rounds
<1>7. Running'
  <2>1. state[current] = "RUNNING" /\ current \in Threads \ {t}
    BY <1>1 DEF SInv, Running, TypeOK
  <2> QED
    BY <1>1, <1>2, <2>1 DEF SInv, Running
<1>8. InitThere'
  BY <1>1, <1>2 DEF SInv, InitThere, Valid
<1>9. LiveProcess'
  BY <1>1, <1>2, LiveKept DEF Valid
<1>10. HaltExplained' /\ NoCause'
  BY <1>1 DEF SInv, NoCause, HaltExplained
<1> QED
  BY <1>4, <1>5, <1>6, <1>7, <1>8, <1>9, <1>10 DEF SInv

\* A clone by a thread that is not the flower thread of its process.
LEMMA SCloneMismatch ==
    ASSUME SInv, TypeOK', CloneMismatch
    PROVE  SInv'
<1> USE InitTid
<1>1. /\ pc' = "halt" /\ cause' = "clone: CallerTID"
      /\ state' = IF Valid(curPid) THEN [state EXCEPT ![curPid] = "RUNNING"]
                                   ELSE state
      /\ UNCHANGED <<owner, saved, sleepPhase, exitReq, joinTgt, pvalid, curPid>>
  BY DEF CloneMismatch, Halt, deferred, cpu
<1>2. /\ curPid \in Threads
      /\ \A u \in Threads : \/ state'[u] = state[u]
                            \/ state'[u] = "RUNNING" /\ Valid(u)
  BY <1>1 DEF SInv, TypeOK
<1>3. \A u \in Threads : state'[u] = "FREE" <=> state[u] = "FREE"
  BY <1>2 DEF Valid
<1>4. Dense' /\ Owners'
  BY <1>1, <1>3, SlotsKept
<1>5. FlowerOnly' /\ FreshUnsaved'
  <2>1. UNCHANGED <<owner, exitReq, joinTgt, saved>>
    BY <1>1
  <2>2. FlowerOnly'
    BY <1>2, <1>3, <2>1 DEF SInv, FlowerOnly
  <2>3. FreshUnsaved'
    BY <1>2, <2>1 DEF SInv, FreshUnsaved
  <2> QED
    BY <2>2, <2>3
<1>6. Rounds' /\ Running' /\ NoCause'
  BY <1>1 DEF Rounds, Running, NoCause
<1>7. InitThere'
  BY <1>1, <1>2 DEF SInv, InitThere, Valid
<1>8. LiveProcess'
  BY <1>1, <1>2, LiveKept DEF Valid
<1>9. HaltExplained'
  BY <1>1 DEF HaltExplained
<1> QED
  BY <1>4, <1>5, <1>6, <1>7, <1>8, <1>9 DEF SInv

----------------------------------------------------------------------------
(* Faults.                                                                  *)

\* The current thread is destroyed, and init is dispatched if it is READY.
LEMMA SFault == ASSUME SInv, TypeOK', Fault PROVE SInv'
<1> USE InitTid
<1>1. /\ pc = "user" /\ current # INIT_TID /\ current' = INIT_TID
      /\ UNCHANGED <<owner, sleepPhase, exitReq, joinTgt, round, scan>>
      /\ current \in Threads
  BY DEF Fault, FaultRaised, Killable, deferred, SInv, TypeOK
<1>2. /\ state[current] = "RUNNING" /\ owner[INIT_TID] = INIT_TID
      /\ state[INIT_TID] # "FREE"
      /\ \A u \in Threads \ {current} : state[u] # "RUNNING"
  BY <1>1 DEF SInv, Running, Owners, InitThere, Valid
<1>3. \/ /\ state[INIT_TID] = "READY" /\ pc' = pc /\ cause' = cause
         /\ state' = [state EXCEPT ![current] = "DESTROYED",
                                   ![INIT_TID] = "RUNNING"]
         /\ saved' = [saved EXCEPT ![INIT_TID] = FALSE]
      \/ /\ state[INIT_TID] # "READY"
         /\ pc' = "halt" /\ cause' = "dispatcher: state"
         /\ state' = [state EXCEPT ![current] = "DESTROYED"]
         /\ saved' = saved
  BY DEF Fault, Halt
<1>4. /\ state \in [Threads -> States] /\ saved \in [Threads -> BOOLEAN]
  BY DEF SInv, TypeOK
<1>5. /\ state'[current] = "DESTROYED"
       /\ \A u \in Threads \ {current, INIT_TID} : state'[u] = state[u]
  BY <1>1, <1>3, <1>4
<1>6. \/ /\ state'[INIT_TID] = "RUNNING" /\ pc' = pc /\ cause' = cause
      \/ /\ state[INIT_TID] # "READY" /\ state'[INIT_TID] = state[INIT_TID]
         /\ pc' = "halt" /\ cause' = "dispatcher: state"
  BY <1>1, <1>3, <1>4
<1>7. curPid' = curPid \/ curPid' = owner[INIT_TID]
  BY <1>2 DEF Fault
<1>8. \A u \in Threads : saved'[u] => saved[u]
  BY <1>3, <1>4
<1>9. \A u \in Threads : state'[u] = "FREE" <=> state[u] = "FREE"
  BY <1>1, <1>2, <1>5, <1>6
<1>10. Dense' /\ Owners'
  BY <1>1, <1>2, <1>7, <1>9, SlotsKept
<1>11. FlowerOnly' /\ FreshUnsaved'
  BY <1>1, <1>2, <1>5, <1>6, <1>8, <1>9 DEF SInv, FlowerOnly, FreshUnsaved
<1>12. Rounds'
  <2>1. \A i \in 1 .. Len(round) : round[i] \in Threads
    BY ListTids DEF SInv
  <2>2. \A i \in 1 .. Len(round) :
           state[round[i]] = "READY" /\ round[i] # INIT_TID /\ round[i] # current
    BY <1>1 DEF SInv, Rounds
  <2>3. \A i \in 1 .. Len(round) : state'[round[i]] = "READY"
    BY <1>5, <2>1, <2>2
  <2> QED
    BY <1>1, <1>6, <2>2, <2>3 DEF SInv, Rounds
<1>13. Running'
  BY <1>1, <1>2, <1>5, <1>6 DEF Running
<1>14. InitThere'
  BY <1>1, <1>6 DEF SInv, InitThere, Valid
<1>15. LiveProcess'
  BY <1>1, <1>5 DEF LiveProcess, Destroyed
<1>16. HaltExplained' /\ NoCause'
  BY <1>1, <1>6 DEF SInv, NoCause, InitThere, HaltExplained
<1> QED
  BY <1>10, <1>11, <1>12, <1>13, <1>14, <1>15, <1>16 DEF SInv

----------------------------------------------------------------------------
(* The theorems.                                                            *)

\* Every step preserves the invariant.
LEMMA SNext ==
    ASSUME SInv, "restart" \notin Services, [Next]_vars
    PROVE  SInv'
<1>1. TypeOK'
  BY NextType DEF SInv
<1>2. CASE Tick
  BY <1>1, <1>2, SHalts, SRecords, STickLeave, STickSpawn DEF Tick
<1>3. CASE SwitchNext \/ SwitchEndOfRound
  BY <1>1, <1>3, SSwitchNext, SSwitchEndOfRound
<1>4. CASE Scheduler
  BY <1>1, <1>4, SVisitEvent, SVisitThread, SVisitEnd DEF Scheduler
<1>5. CASE Dispatch \/ DispatchSleepingInit
  BY <1>1, <1>5, SDispatch, SHalts
<1>6. CASE Syscall
  <2>1. tsLocked \in BOOLEAN /\ schedLocked \in BOOLEAN
    BY DEF SInv, TypeOK
  <2>2. CASE \E b \in BOOLEAN : Lock(b, schedLocked) \/ Lock(tsLocked, b)
    <3>1. \E a, b \in BOOLEAN : Lock(a, b)
      BY <2>1, <2>2
    <3> QED
      BY <1>1, <3>1, SRecords
  <2>3. CASE \/ ServiceInvalid \/ Yield \/ RequestBlock \/ RegisterDs
             \/ \E ms \in SleepMs : Sleep(ms)
             \/ \E t \in Threads, b \in BOOLEAN : NotifyEvent(t, b)
    BY <1>1, <2>3, SHalts, SRecords
  <2>4. CASE Exit \/ \E t \in Threads : Join(t)
    BY <1>1, <2>4, SMarks
  <2>5. CASE \E t \in Threads : CreateThread(t) \/ StartThread(t)
    BY <1>1, <2>5, SCreateThread, SStartThread
  <2>6. CASE \/ \E t \in Threads : Clone(t) \/ CloneFails(t)
             \/ CloneMismatch
    BY <1>1, <2>6, SClone, SCloneMismatch
  <2> QED
    BY <1>6, <2>2, <2>3, <2>4, <2>5, <2>6 DEF Syscall
<1>7. CASE Fault \/ FaultPanics
  BY <1>1, <1>7, SFault, SHalts
<1>8. CASE Halted \/ UNCHANGED vars
  <2>1. UNCHANGED <<state, owner, saved, sleepPhase, exitReq, joinTgt, pvalid,
                    current, curPid, round, scan, pc, cause>>
    BY <1>8 DEF Halted, vars
  <2>2. Dense' /\ Owners' /\ FlowerOnly' /\ FreshUnsaved'
    BY <2>1 DEF SInv, Dense, Owners, FlowerOnly, FreshUnsaved
  <2>3. Rounds' /\ Running' /\ InitThere' /\ NoCause' /\ HaltExplained'
    BY <2>1 DEF SInv, Rounds, Running, InitThere, Valid, NoCause, HaltExplained
  <2>4. LiveProcess'
    BY <2>1 DEF SInv, LiveProcess, Destroyed, Valid
  <2> QED
    BY <1>1, <2>2, <2>3, <2>4 DEF SInv
<1> QED
  BY <1>2, <1>3, <1>4, <1>5, <1>6, <1>7, <1>8 DEF Next, Kernel

\* The inductive invariant, for programs that start a thread once.
LEMMA SchedInvariant ==
    ASSUME "restart" \notin Services
    PROVE  Spec => []SInv
<1>1. Init => SInv
  BY SInit
<1>2. SInv /\ [Next]_vars => SInv'
  BY SNext
<1> QED
  BY <1>1, <1>2, PTL DEF Spec

\* Whatever exits, joins, sleeps, faults and spawns happen between two
\* schedules, the rest of the list that ZeroGravity dispatches is READY and
\* without the running thread, for every number of threads.
THEOREM SchedRoundReady ==
    ASSUME "restart" \notin Services
    PROVE  Spec => []RoundReady
<1>1. SInv => RoundReady
  BY DEF SInv, Rounds, RoundReady
<1> QED
  BY <1>1, SchedInvariant, PTL

\* Exactly the current thread is RUNNING in user mode.
THEOREM SchedOneRunning ==
    ASSUME "restart" \notin Services
    PROVE  Spec => []OneRunning
<1>1. SInv => OneRunning
  BY DEF SInv, Running, OneRunning
<1> QED
  BY <1>1, SchedInvariant, PTL

\* The consistency checks of the switcher and of the spawner never fire, and
\* the other panics have a sleeping init or an earlier fault behind them.
THEOREM SchedHaltExplained ==
    ASSUME "restart" \notin Services
    PROVE  Spec => []HaltExplained
<1>1. SInv => HaltExplained
  BY DEF SInv
<1> QED
  BY <1>1, SchedInvariant, PTL
=============================================================================
