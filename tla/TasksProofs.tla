---------------------------- MODULE TasksProofs ----------------------------
(***************************************************************************)
(* Sched implements Tasks, for every size of the thread table, every set of *)
(* quanta and every set of services, threads that are started again         *)
(* included: the life of threads and processes does not depend on the list  *)
(* of the round, whose invariant such a restart breaks.                     *)
(***************************************************************************)
EXTENDS SchedProofs

----------------------------------------------------------------------------
(* The inductive invariant.                                                 *)

\* A slot that was never used: nobody names it.
Unused(t) == state[t] = "FREE"

\* A process that was created and whose flower thread has not run yet.
Unborn(t) == state[t] = "STANDBY" /\ owner[t] = t

\* init is there, is a process, and is never a zombie.
BootThere ==
    /\ Valid(INIT_TID)
    /\ state[INIT_TID] # "ZOMBIE"
    /\ owner[INIT_TID] = INIT_TID

\* Every thread belongs to a process, and so does every system call.
Families ==
    /\ \A t \in Threads : owner[owner[t]] = owner[t]
    /\ owner[curPid] = curPid

\* Only flower threads exit, join or become zombies.
OnlyFlowers ==
    \A t \in Threads :
        (exitReq[t] \/ joinTgt[t] # INIT_TID \/ state[t] = "ZOMBIE")
            => owner[t] = t

\* Nothing was done yet by, to or in the name of a thread that has not run,
\* and such a thread has the only tid of its process.
NothingYet ==
    \A t \in Threads :
        /\ Unused(t) => /\ joinTgt[t] = INIT_TID
                        /\ \A u \in Threads : owner[u] # t
        /\ Unused(t) \/ Unborn(t) => /\ ~exitReq[t]
                                     /\ curPid # t
                                     /\ \A u \in Threads : owner[u] = t => u = t
        /\ state[t] = "INITIALIZED" => owner[t] # t

\* The thread in user mode is usable, and RUNNING if it is a flower thread.
UserMode ==
    pc = "user" => /\ Valid(current)
                   /\ owner[current] = current => state[current] = "RUNNING"

ScanPast == pc = "scan" => scan >= 1

LInv ==
    /\ TypeOK
    /\ BootThere
    /\ Families
    /\ OnlyFlowers
    /\ NothingYet
    /\ UserMode
    /\ ScanPast
    /\ ActsAsOwner

----------------------------------------------------------------------------
(* What most steps have in common: they move threads between states without *)
(* making or ending any.                                                    *)

\* Thread t keeps its slot and its life, is not put back before its start,
\* and does not ask for an exit or a join, or become a zombie, unasked.
Moves(t) ==
    /\ (state'[t] = "FREE") <=> (state[t] = "FREE")
    /\ (state'[t] \in {"REUSE", "DESTROYED"}) <=> (state[t] \in {"REUSE", "DESTROYED"})
    /\ state'[t] = "INITIALIZED" => state[t] = "INITIALIZED"
    /\ state'[t] = "STANDBY" => state[t] = "STANDBY" \/ owner[t] # t
    /\ state'[t] = "ZOMBIE" => state[t] = "ZOMBIE" \/ (exitReq[t] /\ t # INIT_TID)
    /\ exitReq'[t] => exitReq[t]

\* The current process is the one before, or the process of a thread that has
\* been started.
ActsFor ==
    \/ curPid' = curPid
    \/ \E t \in Threads : /\ curPid' = owner[t]
                          /\ owner[t] = t => state'[t] # "STANDBY"

\* Such a step keeps the parts of the invariant about slots and processes.
LEMMA FamiliesKept ==
    ASSUME LInv, ActsFor, owner' = owner,
           \A t \in Threads :
              /\ (state'[t] = "FREE") <=> (state[t] = "FREE")
              /\ state'[t] = "INITIALIZED" => state[t] = "INITIALIZED"
              /\ state'[t] = "STANDBY" => state[t] = "STANDBY" \/ owner[t] # t
              /\ state'[t] = "ZOMBIE" => state[t] = "ZOMBIE" \/ (exitReq[t] /\ t # INIT_TID)
              /\ exitReq'[t] => exitReq[t] \/ t = curPid
              /\ joinTgt'[t] # INIT_TID => joinTgt[t] # INIT_TID \/ t = curPid,
           state'[INIT_TID] \notin {"REUSE", "DESTROYED"}
    PROVE  BootThere' /\ Families' /\ OnlyFlowers' /\ NothingYet'
<1> USE InitTid
<1>1. /\ owner \in [Threads -> Threads] /\ curPid \in Threads
      /\ BootThere /\ Families /\ OnlyFlowers /\ NothingYet
  BY DEF LInv, TypeOK
<1>2. BootThere'
  BY <1>1 DEF BootThere, Valid
<1>3. curPid' \in Threads /\ owner[curPid'] = curPid'
  BY <1>1 DEF Families, ActsFor
<1>4. Families'
  BY <1>1, <1>3 DEF Families
<1>5. OnlyFlowers'
  BY <1>1 DEF OnlyFlowers, Families
<1>6. \A t \in Threads : Unborn(t)' => Unborn(t)
  BY <1>1 DEF Unborn
<1>7. \A t \in Threads : Unused(t)' <=> Unused(t)
  BY DEF Unused
<1>8. ASSUME NEW t \in Threads, Unused(t) \/ Unborn(t)', curPid' = t PROVE FALSE
  <2>1. Unused(t) \/ Unborn(t)
    BY <1>6, <1>8
  <2>2. curPid # t /\ \A u \in Threads : owner[u] = t => u = t
    BY <1>1, <2>1 DEF NothingYet
  <2>3. PICK u \in Threads : curPid' = owner[u] /\ (owner[u] = u => state'[u] # "STANDBY")
    BY <1>8, <2>2 DEF ActsFor
  <2>4. u = t /\ owner[t] = t /\ state'[t] # "STANDBY"
    BY <1>8, <2>2, <2>3
  <2>5. CASE Unused(t)
    BY <1>1, <2>4, <2>5 DEF NothingYet
  <2>6. CASE Unborn(t)'
    BY <2>4, <2>6 DEF Unborn
  <2> QED
    BY <1>8, <2>5, <2>6
<1>9. ASSUME NEW t \in Threads
      PROVE  /\ Unused(t)' => /\ joinTgt'[t] = INIT_TID
                              /\ \A u \in Threads : owner'[u] # t
             /\ (Unused(t)' \/ Unborn(t)') => /\ ~exitReq'[t]
                                              /\ curPid' # t
                                              /\ \A u \in Threads : owner'[u] = t => u = t
             /\ state'[t] = "INITIALIZED" => owner'[t] # t
  <2>1. Unused(t)' => joinTgt'[t] = INIT_TID /\ \A u \in Threads : owner'[u] # t
    BY <1>1, <1>7 DEF NothingYet
  <2>2. ASSUME Unused(t)' \/ Unborn(t)'
        PROVE  ~exitReq'[t] /\ curPid' # t /\ \A u \in Threads : owner'[u] = t => u = t
    <3>1. Unused(t) \/ Unborn(t)
      BY <1>6, <1>7, <2>2
    <3>2. ~exitReq[t] /\ curPid # t /\ \A u \in Threads : owner[u] = t => u = t
      BY <1>1, <3>1 DEF NothingYet
    <3> QED
      BY <1>7, <1>8, <2>2, <3>2
  <2>3. state'[t] = "INITIALIZED" => owner'[t] # t
    BY <1>1 DEF NothingYet
  <2> QED
    BY <2>1, <2>2, <2>3
<1>10. NothingYet'
  BY <1>9 DEF NothingYet
<1> QED
  BY <1>2, <1>4, <1>5, <1>10

\* The picture that Tasks has of the thread table does not change when every
\* thread keeps its life.
LEMMA LifeKept ==
    ASSUME \A t \in Threads :
              /\ (state'[t] = "FREE") <=> (state[t] = "FREE")
              /\ (state'[t] \in {"REUSE", "DESTROYED"}) <=> (state[t] \in {"REUSE", "DESTROYED"})
    PROVE  [t \in Threads |-> Life(t)]' = [t \in Threads |-> Life(t)]
BY DEF Life, Valid

\* A step that ends in the kernel, or in a panic, and makes and ends no
\* thread: the kernel has the processor.
LEMMA KernelStep ==
    ASSUME LInv, TypeOK', pc' # "user", pc' = "scan" => scan' >= 1,
           UNCHANGED <<owner, joinTgt, pvalid>>, ActsFor,
           \A t \in Threads : Moves(t)
    PROVE  LInv' /\ Abstract!Next
<1> USE InitTid
<1>1. state'[INIT_TID] \notin {"REUSE", "DESTROYED"}
  BY DEF LInv, BootThere, Valid, Moves
<1>2. BootThere' /\ Families' /\ OnlyFlowers' /\ NothingYet'
  BY <1>1, FamiliesKept DEF Moves
<1>3. UserMode' /\ ScanPast' /\ ActsAsOwner'
  BY DEF UserMode, ScanPast, ActsAsOwner
<1>4. LInv'
  BY <1>2, <1>3 DEF LInv
<1>5. [t \in Threads |-> Life(t)]' = [t \in Threads |-> Life(t)]
  BY LifeKept DEF Moves
<1>6. {t \in Threads : exitReq[t] \/ state[t] = "ZOMBIE"}'
        \subseteq {t \in Threads : exitReq[t] \/ state[t] = "ZOMBIE"}
  BY DEF Moves
<1>7. Abstract!Enter
  BY <1>5, <1>6 DEF Abstract!Enter
<1> QED
  BY <1>4, <1>7 DEF Abstract!Next

----------------------------------------------------------------------------
(* Steps that end in the kernel.                                            *)

\* The panics that change nothing else.
LEMMA LHalts ==
    ASSUME LInv, TypeOK',
           TickInvalid \/ ServiceInvalid \/ FaultPanics \/ DispatchSleepingInit
    PROVE  LInv' /\ Abstract!Next
<1>1. pc' = "halt" /\ UNCHANGED <<state, owner, exitReq, joinTgt, pvalid, curPid>>
  BY DEF TickInvalid, ServiceInvalid, FaultPanics, DispatchSleepingInit, Halt,
     deferred, cpu
<1>2. ActsFor /\ \A t \in Threads : Moves(t)
  BY <1>1 DEF ActsFor, Moves
<1> QED
  BY <1>1, <1>2, KernelStep

\* The current thread leaves the processor.
LEMMA LTickLeave == ASSUME LInv, TypeOK', TickLeave PROVE LInv' /\ Abstract!Next
<1>1. /\ pc = "user" /\ pc' = "switch" /\ Valid(current)
      /\ curPid' = owner[current]
      /\ UNCHANGED <<owner, exitReq, joinTgt, pvalid>>
      /\ \/ state' = [state EXCEPT ![current] = "WAITING"]
         \/ state' = [state EXCEPT ![current] = "READY"]
         \/ state' = state
  BY DEF TickLeave, Ticking, Preempted
<1>2. state \in [Threads -> States] /\ current \in Threads
  BY DEF LInv, TypeOK
<1>3. owner[current] = current => state[current] = "RUNNING"
  BY <1>1 DEF LInv, UserMode
<1>4. \A t \in Threads : Moves(t)
  BY <1>1, <1>2 DEF Moves, Valid
<1>5. owner[current] = current => state'[current] # "STANDBY"
  BY <1>1, <1>2, <1>3
<1>6. ActsFor
  BY <1>1, <1>2, <1>5 DEF ActsFor
<1> QED
  BY <1>1, <1>4, <1>6, KernelStep

\* The next thread of the list, the end of the list, and the end of the scan.
LEMMA LSwitch ==
    ASSUME LInv, TypeOK', SwitchNext \/ SwitchEndOfRound \/ VisitEnd
    PROVE  LInv' /\ Abstract!Next
<1> USE InitTid
<1>1. UNCHANGED <<owner, exitReq, joinTgt, pvalid, curPid>>
  BY DEF SwitchNext, SwitchEndOfRound, VisitEnd, deferred
<1>2. state' = state \/ state' = [state EXCEPT ![INIT_TID] = "READY"]
  BY DEF SwitchNext, SwitchEndOfRound, VisitEnd
<1>3. pc' # "user"
  BY DEF SwitchNext, SwitchEndOfRound, VisitEnd, Halt
<1>4. pc' = "scan" => scan' >= 1
  <2>1. CASE SwitchNext \/ VisitEnd
    <3>1. pc' # "scan"
      BY <2>1 DEF SwitchNext, VisitEnd, Halt
    <3> QED
      BY <3>1
  <2>2. CASE SwitchEndOfRound
    <3>1. pc' = "halt" \/ scan' = INIT_TID + 1
      BY <2>2 DEF SwitchEndOfRound, Halt
    <3>2. pc' = "halt" \/ scan' = 1
      BY <3>1 DEF INIT_TID
    <3> QED
      BY <3>2
  <2> QED
    BY <2>1, <2>2
<1>5. state \in [Threads -> States] /\ Valid(INIT_TID)
  BY DEF LInv, TypeOK, BootThere
<1>6. \A t \in Threads : Moves(t)
  BY <1>1, <1>2, <1>5 DEF Moves, Valid
<1> QED
  BY <1>1, <1>3, <1>4, <1>6, KernelStep DEF ActsFor

\* A visit of the scheduler that serves an event, a block or an exit.
LEMMA LVisitOne ==
    ASSUME LInv, TypeOK', NEW t \in Threads,
           VisitEvent(t) \/ VisitBlock(t) \/ VisitExit(t)
    PROVE  LInv' /\ Abstract!Next
<1>1. /\ pc = "scan" /\ pc' = "scan" /\ t = scan /\ scan' = scan + 1 /\ Valid(t)
      /\ UNCHANGED <<owner, joinTgt, pvalid, curPid>>
  BY DEF VisitEvent, VisitBlock, VisitExit, Visiting
<1>2. \/ state' = state /\ exitReq' = exitReq
      \/ state' = [state EXCEPT ![t] = "READY"] /\ exitReq' = exitReq
      \/ state' = [state EXCEPT ![t] = "BLOCKED"] /\ exitReq' = exitReq
      \/ /\ state' = [state EXCEPT ![t] = "ZOMBIE"] /\ exitReq[t]
         /\ exitReq' = [exitReq EXCEPT ![t] = FALSE]
  BY DEF VisitEvent, VisitBlock, VisitExit
<1>3. /\ state \in [Threads -> States] /\ exitReq \in [Threads -> BOOLEAN]
      /\ scan >= 1 /\ scan \in 0 .. THREAD_COUNT_MAX
  BY <1>1 DEF LInv, TypeOK, ScanPast
<1>4. t # INIT_TID /\ scan' >= 1
  BY <1>1, <1>3, SchedAssumption DEF INIT_TID
<1>5. ASSUME NEW u \in Threads PROVE Moves(u)
  <2>1. CASE u # t
    BY <1>2, <1>3, <2>1 DEF Moves
  <2>2. CASE u = t
    BY <1>1, <1>2, <1>3, <1>4, <2>2 DEF Moves, Valid
  <2> QED
    BY <2>1, <2>2
<1> QED
  BY <1>1, <1>4, <1>5, KernelStep DEF ActsFor

\* The parent finds that it may not clone.
LEMMA LCloneMismatch ==
    ASSUME LInv, TypeOK', CloneMismatch PROVE LInv' /\ Abstract!Next
<1>1. pc' = "halt" /\ UNCHANGED <<owner, exitReq, joinTgt, pvalid, curPid>>
  BY DEF CloneMismatch, Halt, deferred, cpu
<1>2. \/ state' = state
      \/ Valid(curPid) /\ state' = [state EXCEPT ![curPid] = "RUNNING"]
  BY DEF CloneMismatch
<1>3. state \in [Threads -> States] /\ curPid \in Threads
  BY DEF LInv, TypeOK
<1>4. \A t \in Threads : Moves(t)
  BY <1>1, <1>2, <1>3 DEF Moves, Valid
<1> QED
  BY <1>1, <1>4, KernelStep DEF ActsFor

\* What a visit that is not cut short leaves of a thread that is no zombie.
LEMMA LVisitSettled ==
    ASSUME LInv, TypeOK', NEW t \in Threads, VisitThread(t), Checked(t) # "ZOMBIE"
    PROVE  LInv' /\ Abstract!Next
<1>1. /\ pc = "scan" /\ pc' = "scan" /\ t = scan /\ scan' = scan + 1
      /\ state' = [state EXCEPT ![t] = Checked(t)]
      /\ UNCHANGED <<owner, exitReq, joinTgt, pvalid, curPid>>
  BY DEF VisitThread, Visiting
<1>2. \/ Checked(t) = state[t]
      \/ Valid(t) /\ Checked(t) \in {"READY", "BLOCKED"}
  BY DEF Checked
<1>3. state \in [Threads -> States] /\ scan >= 1 /\ scan \in 0 .. THREAD_COUNT_MAX
  BY <1>1 DEF LInv, TypeOK, ScanPast
<1>4. scan' >= 1
  BY <1>1, <1>3, SchedAssumption
<1>5. \A u \in Threads : Moves(u)
  BY <1>1, <1>2, <1>3 DEF Moves, Valid
<1> QED
  BY <1>1, <1>4, <1>5, KernelStep DEF ActsFor

\* The scheduler reaps a zombie: all threads of its process and no others.
LEMMA LReap ==
    ASSUME LInv, TypeOK', NEW t \in Threads, VisitThread(t), Checked(t) = "ZOMBIE"
    PROVE  LInv' /\ Abstract!Next
<1> USE InitTid
<1>1. /\ pc = "scan" /\ pc' = "scan" /\ t = scan /\ scan' = scan + 1
      /\ state' = Reaped(t) /\ Settled(t)
      /\ pvalid' = [pvalid EXCEPT ![owner[t]] = FALSE]
      /\ UNCHANGED <<owner, exitReq, joinTgt, curPid>>
  BY DEF VisitThread, Visiting
<1>2. state[t] = "ZOMBIE"
  BY DEF Checked
<1>3. /\ state \in [Threads -> States] /\ owner \in [Threads -> Threads]
      /\ scan >= 1 /\ scan \in 0 .. THREAD_COUNT_MAX
      /\ BootThere /\ OnlyFlowers /\ Families
  BY <1>1 DEF LInv, TypeOK, ScanPast
<1>4. t # INIT_TID /\ scan' >= 1
  BY <1>1, <1>3, SchedAssumption DEF INIT_TID
<1>5. owner[t] = t
  BY <1>2, <1>3 DEF OnlyFlowers
<1>6. ~exitReq[t]
  BY <1>1, <1>2 DEF Settled, Valid
<1>7. ASSUME NEW u \in Threads
      PROVE  state'[u] = IF u = t THEN "REUSE"
                         ELSE IF Valid(u) /\ joinTgt[u] = t THEN "READY"
                         ELSE IF Valid(u) /\ owner[u] = t THEN "REUSE"
                         ELSE state[u]
  BY <1>1, <1>5 DEF Reaped
<1>8. \A u \in Threads : (u # t /\ joinTgt[u] = t) => owner[u] # t
  BY <1>3, <1>4 DEF OnlyFlowers
<1>9. ASSUME NEW u \in Threads
      PROVE  \/ Valid(u) /\ owner[u] = t /\ state'[u] = "REUSE"
             \/ Valid(u) /\ owner[u] # t /\ state'[u] = "READY"
             \/ ~(Valid(u) /\ owner[u] = t) /\ state'[u] = state[u]
  <2>1. CASE u = t
    BY <1>2, <1>5, <1>7, <2>1 DEF Valid
  <2>2. CASE u # t
    BY <1>7, <1>8, <2>2
  <2> QED
    BY <2>1, <2>2
<1>10. /\ \A u \in Threads :
            /\ (state'[u] = "FREE") <=> (state[u] = "FREE")
            /\ state'[u] = "INITIALIZED" => state[u] = "INITIALIZED"
            /\ state'[u] = "STANDBY" => state[u] = "STANDBY"
            /\ state'[u] = "ZOMBIE" => state[u] = "ZOMBIE" /\ u # t
       /\ state'[INIT_TID] \notin {"REUSE", "DESTROYED"}
  <2>1. ASSUME NEW u \in Threads
        PROVE  /\ (state'[u] = "FREE") <=> (state[u] = "FREE")
               /\ state'[u] = "INITIALIZED" => state[u] = "INITIALIZED"
               /\ state'[u] = "STANDBY" => state[u] = "STANDBY"
               /\ state'[u] = "ZOMBIE" => state[u] = "ZOMBIE" /\ u # t
    BY <1>2, <1>5, <1>9 DEF Valid
  <2>2. state'[INIT_TID] \notin {"REUSE", "DESTROYED"}
    BY <1>3, <1>4, <1>9 DEF BootThere, Valid
  <2> QED
    BY <2>1, <2>2
<1>11. ActsFor
  BY <1>1 DEF ActsFor
<1>12. BootThere' /\ Families' /\ OnlyFlowers' /\ NothingYet'
  BY <1>1, <1>10, <1>11, FamiliesKept
<1>13. UserMode' /\ ScanPast' /\ ActsAsOwner'
  BY <1>1, <1>4 DEF UserMode, ScanPast, ActsAsOwner
<1>14. [u \in Threads |-> Life(u)]'
         = [u \in Threads |-> IF owner[u] = t /\ [v \in Threads |-> Life(v)][u] = "alive"
                                THEN "dead" ELSE [v \in Threads |-> Life(v)][u]]
  <2>1. ASSUME NEW u \in Threads
        PROVE  Life(u)' = IF owner[u] = t /\ Life(u) = "alive" THEN "dead" ELSE Life(u)
    BY <1>9 DEF Life, Valid
  <2> QED
    BY <2>1
<1>15. {u \in Threads : pvalid[u]}' = {u \in Threads : pvalid[u]} \ {t}
  <2>1. pvalid \in [Threads -> BOOLEAN] /\ pvalid' = [pvalid EXCEPT ![t] = FALSE]
    BY <1>1, <1>5 DEF LInv, TypeOK
  <2> QED
    BY <2>1
<1>16. {u \in Threads : exitReq[u] \/ state[u] = "ZOMBIE"}'
         \subseteq {u \in Threads : exitReq[u] \/ state[u] = "ZOMBIE"} \ {t}
  BY <1>1, <1>6, <1>10
<1>17. Abstract!Reap(t)
  BY <1>1, <1>2, <1>4, <1>14, <1>15, <1>16 DEF Abstract!Reap
<1> QED
  BY <1>12, <1>13, <1>17 DEF LInv, Abstract!Next

----------------------------------------------------------------------------
(* Steps that end in user mode.                                             *)

\* A step that ends in user mode and makes and ends no thread: the current
\* thread has the processor, or keeps it.
LEMMA UserStep ==
    ASSUME LInv, TypeOK', pc' = "user", UNCHANGED <<owner, pvalid>>, ActsFor,
           \A t \in Threads :
              /\ Moves(t)
              /\ (exitReq[t] \/ state[t] = "ZOMBIE")
                    => (exitReq'[t] \/ state'[t] = "ZOMBIE")
              /\ joinTgt'[t] # INIT_TID => (joinTgt[t] # INIT_TID \/ t = curPid),
           UserMode', ActsAsOwner'
    PROVE  LInv' /\ Abstract!Next
<1> USE InitTid
<1>1. state'[INIT_TID] \notin {"REUSE", "DESTROYED"}
  BY DEF LInv, BootThere, Valid, Moves
<1>2. BootThere' /\ Families' /\ OnlyFlowers' /\ NothingYet'
  BY <1>1, FamiliesKept DEF Moves
<1>3. ScanPast'
  BY DEF ScanPast
<1>4. LInv'
  BY <1>2, <1>3 DEF LInv
<1>5. [t \in Threads |-> Life(t)]' = [t \in Threads |-> Life(t)]
  BY LifeKept DEF Moves
<1>6. {t \in Threads : exitReq[t] \/ state[t] = "ZOMBIE"}'
        = {t \in Threads : exitReq[t] \/ state[t] = "ZOMBIE"}
  <2>1. \A t \in Threads : (exitReq'[t] \/ state'[t] = "ZOMBIE")
                              <=> (exitReq[t] \/ state[t] = "ZOMBIE")
    BY DEF Moves
  <2> QED
    BY <2>1
<1>7. current' \in Threads /\ [t \in Threads |-> Life(t)][current'] = "alive"
  <2>1. current' \in Threads /\ Valid(current)'
    BY DEF TypeOK, UserMode
  <2>2. state'[current'] \notin {"FREE", "REUSE", "DESTROYED"}
    BY <2>1 DEF Valid
  <2>3. state[current'] \notin {"FREE", "REUSE", "DESTROYED"}
    BY <2>1, <2>2 DEF Moves
  <2>4. Life(current') = "alive"
    BY <2>3 DEF Life, Valid
  <2> QED
    BY <2>1, <2>4
<1>8. Abstract!Run(current')
  BY <1>5, <1>6, <1>7 DEF Abstract!Run
<1> QED
  BY <1>4, <1>7, <1>8 DEF Abstract!Next

\* A tick that leaves the current thread where it is.
LEMMA LTickStay ==
    ASSUME LInv, TypeOK', TickLocked \/ TickStay PROVE LInv' /\ Abstract!Next
<1>1. /\ pc = "user" /\ pc' = "user" /\ curPid' = owner[current]
      /\ UNCHANGED <<state, owner, exitReq, joinTgt, pvalid, current>>
  BY DEF TickLocked, TickStay, Ticking
<1>2. UserMode /\ current \in Threads
  BY DEF LInv, TypeOK
<1>3. UserMode' /\ ActsAsOwner'
  BY <1>1, <1>2 DEF UserMode, ActsAsOwner, Valid
<1>4. owner[current] = current => state'[current] # "STANDBY"
  BY <1>1, <1>2 DEF UserMode
<1>5. ActsFor
  BY <1>1, <1>2, <1>4 DEF ActsFor
<1>6. \A t \in Threads : Moves(t)
  BY <1>1 DEF Moves
<1> QED
  BY <1>1, <1>3, <1>5, <1>6, UserStep

\* A thread in STANDBY is spawned, or the spawner panics.
LEMMA LTickSpawn ==
    ASSUME LInv, TypeOK', NEW t \in Threads, TickSpawn(t)
    PROVE  LInv' /\ Abstract!Next
<1>1. /\ pc = "user" /\ Valid(current) /\ state[t] = "STANDBY"
      /\ owner' = owner /\ pvalid' = pvalid
  BY DEF TickSpawn, IsFirstStandby, Standby
<1>2. /\ state \in [Threads -> States] /\ current \in Threads
      /\ exitReq \in [Threads -> BOOLEAN] /\ owner \in [Threads -> Threads]
      /\ UserMode /\ NothingYet /\ OnlyFlowers
  BY DEF LInv, TypeOK
<1>3. CASE saved[t] \/ t = current
  <2>1. pc' = "halt" /\ UNCHANGED <<state, exitReq, joinTgt, curPid>>
    BY <1>3 DEF TickSpawn, Halt, deferred, cpu
  <2>2. \A u \in Threads : Moves(u)
    BY <2>1 DEF Moves
  <2> QED
    BY <1>1, <2>1, <2>2, KernelStep DEF ActsFor
<1>4. CASE ~(saved[t] \/ t = current)
  <2>1. /\ pc' = "user" /\ current' = t /\ curPid' = owner[t]
        /\ state' = [Preempted EXCEPT ![t] = "RUNNING"]
        /\ exitReq' = [exitReq EXCEPT ![t] = FALSE]
        /\ joinTgt' = joinTgt
    BY <1>1, <1>4 DEF TickSpawn
  <2>2. ~exitReq[t]
    BY <1>1, <1>2 DEF NothingYet, OnlyFlowers, Unborn
  <2>3. exitReq' = exitReq
    BY <1>2, <2>1, <2>2
  <2>4. state'[t] = "RUNNING"
    BY <1>2, <2>1, StateNames DEF Preempted
  <2>5. \A u \in Threads \ {t} :
           state'[u] = state[u] \/ (state[u] = "RUNNING" /\ state'[u] = "READY")
    BY <1>2, <2>1, StateNames DEF Preempted
  <2>6. \A u \in Threads : /\ Moves(u)
                           /\ state[u] = "ZOMBIE" => state'[u] = "ZOMBIE"
    BY <1>1, <2>3, <2>4, <2>5 DEF Moves
  <2>7. UserMode' /\ ActsAsOwner'
    BY <1>1, <2>1, <2>4 DEF UserMode, ActsAsOwner, Valid
  <2>8. ActsFor
    BY <2>1, <2>4 DEF ActsFor
  <2> QED
    BY <1>1, <2>1, <2>3, <2>6, <2>7, <2>8, UserStep
<1> QED
  BY <1>3, <1>4

\* The dispatcher resumes the selected thread, or panics.
LEMMA LDispatch == ASSUME LInv, TypeOK', Dispatch PROVE LInv' /\ Abstract!Next
<1> USE InitTid
<1>1. /\ pc = "dispatch"
      /\ UNCHANGED <<owner, exitReq, joinTgt, sleepPhase, pvalid, current>>
  BY DEF Dispatch, deferred
<1>2. /\ state \in [Threads -> States] /\ current \in Threads
      /\ BootThere /\ owner \in [Threads -> Threads]
  BY DEF LInv, TypeOK
<1>3. CASE Released[current] # "READY"
  <2>1. pc' = "halt" /\ UNCHANGED <<state, curPid>>
    BY <1>3 DEF Dispatch, Halt
  <2>2. \A u \in Threads : Moves(u)
    BY <1>1, <2>1 DEF Moves
  <2> QED
    BY <1>1, <2>1, <2>2, KernelStep DEF ActsFor
<1>4. CASE Released[current] = "READY"
  <2>1. /\ state' = [Released EXCEPT ![current] = "RUNNING"]
        /\ \/ pc' = "halt" /\ curPid' = curPid
           \/ pc' = "user" /\ curPid' = owner[TargetThread]
    BY <1>4 DEF Dispatch, Halt
  <2>2. /\ Released \in [Threads -> States]
        /\ \A u \in Threads \ {INIT_TID} : Released[u] = state[u]
        /\ Released[INIT_TID] \in {state[INIT_TID], "READY"}
    BY <1>2, StateNames DEF Released
  <2>3. state'[current] = "RUNNING" /\ \A u \in Threads \ {current} : state'[u] = Released[u]
    BY <1>2, <2>1, <2>2
  <2>4. \A u \in Threads : /\ Moves(u)
                           /\ state[u] = "ZOMBIE" => state'[u] = "ZOMBIE"
    <3>1. ASSUME NEW u \in Threads, u # INIT_TID, u # current
          PROVE  Moves(u) /\ (state[u] = "ZOMBIE" => state'[u] = "ZOMBIE")
      BY <1>1, <2>2, <2>3, <3>1 DEF Moves
    <3>2. Moves(INIT_TID) /\ state[INIT_TID] # "ZOMBIE"
      BY <1>1, <1>2, <2>2, <2>3 DEF Moves, BootThere, Valid
    <3>3. current # INIT_TID => (Moves(current) /\ state[current] # "ZOMBIE")
      BY <1>1, <1>2, <1>4, <2>2, <2>3 DEF Moves
    <3> QED
      BY <3>1, <3>2, <3>3
  <2>5. CASE pc' = "halt" /\ curPid' = curPid
    BY <1>1, <2>4, <2>5, KernelStep DEF ActsFor
  <2>6. CASE pc' = "user" /\ curPid' = owner[TargetThread]
    <3>1. TargetThread \in {current, INIT_TID}
      BY DEF TargetThread, Selected
    <3>2. \/ TargetThread = current
          \/ TargetThread = INIT_TID /\ sleepPhase[current] # 0
      <4>1. CASE state[current] = "READY"
        BY <4>1 DEF TargetThread, Selected
      <4>2. CASE state[current] # "READY"
        <5>1. current = INIT_TID
          BY <1>2, <1>4, <2>2, <4>2
        <5> QED
          BY <3>1, <5>1
      <4> QED
        BY <4>1, <4>2
    <3>3. ActsAsOwner'
      BY <1>1, <1>2, <2>6, <3>2 DEF ActsAsOwner, BootThere
    <3>4. UserMode'
      BY <1>1, <1>2, <2>3 DEF UserMode, Valid
    <3>5. ActsFor
      <4>1. CASE TargetThread = current
        BY <1>2, <2>3, <2>6, <4>1 DEF ActsFor
      <4>2. CASE TargetThread = INIT_TID /\ TargetThread # current
        <5>1. Released[INIT_TID] = "READY"
          <6>1. state[current] # "READY" \/ sleepPhase[current] # 0
            BY <4>2 DEF TargetThread, Selected
          <6>2. Released = [state EXCEPT ![INIT_TID] = "READY"]
            BY <6>1 DEF Released
          <6> QED
            BY <1>2, <6>2
        <5>2. state'[INIT_TID] # "STANDBY"
          BY <2>3, <4>2, <5>1
        <5> QED
          BY <2>6, <4>2, <5>2 DEF ActsFor
      <4> QED
        BY <3>1, <4>1, <4>2
    <3> QED
      BY <1>1, <2>4, <2>6, <3>3, <3>4, <3>5, UserStep
  <2> QED
    BY <2>1, <2>5, <2>6
<1> QED
  BY <1>3, <1>4

----------------------------------------------------------------------------
(* System calls and faults.                                                 *)

\* Calls that record something about the caller, its process or a thread.
LEMMA LRecords ==
    ASSUME LInv, TypeOK',
           \/ Yield \/ RequestBlock \/ RegisterDs
           \/ \E ms \in SleepMs : Sleep(ms)
           \/ \E t \in Threads : Join(t)
           \/ \E t \in Threads, b \in BOOLEAN : NotifyEvent(t, b)
           \/ \E b \in BOOLEAN : Lock(b, schedLocked) \/ Lock(tsLocked, b)
    PROVE  LInv' /\ Abstract!Next
<1>1. /\ pc = "user" /\ pc' = "user"
      /\ UNCHANGED <<state, owner, exitReq, pvalid, current, curPid>>
  BY DEF Yield, RequestBlock, RegisterDs, Sleep, Join, NotifyEvent, Lock, Service,
     deferred, cpu
<1>2. /\ joinTgt \in [Threads -> Threads] /\ sleepPhase \in [Threads -> 0 .. 2]
      /\ current \in Threads /\ curPid \in Threads /\ UserMode /\ ActsAsOwner
  BY DEF LInv, TypeOK
<1>3. \/ joinTgt' = joinTgt
      \/ \E t \in Threads : joinTgt' = [joinTgt EXCEPT ![curPid] = t]
  BY DEF Yield, RequestBlock, RegisterDs, Sleep, Join, NotifyEvent, Lock, deferred
<1>4. \/ sleepPhase' = sleepPhase
      \/ sleepPhase' = [sleepPhase EXCEPT ![current] = 1]
  BY DEF Yield, RequestBlock, RegisterDs, Sleep, Join, NotifyEvent, Lock, deferred
<1>5. sleepPhase[current] # 0 => sleepPhase'[current] # 0
  BY <1>2, <1>4
<1>6. UserMode' /\ ActsAsOwner'
  BY <1>1, <1>2, <1>5 DEF UserMode, ActsAsOwner, Valid
<1>7. \A t \in Threads : joinTgt'[t] # INIT_TID => (joinTgt[t] # INIT_TID \/ t = curPid)
  BY <1>2, <1>3
<1>8. \A t \in Threads : Moves(t)
  BY <1>1 DEF Moves
<1> QED
  BY <1>1, <1>6, <1>7, <1>8, UserStep DEF ActsFor

\* A thread that is no flower thread is started, for the first time or again.
LEMMA LStartThread ==
    ASSUME LInv, TypeOK', NEW t \in Threads, StartThread(t)
    PROVE  LInv' /\ Abstract!Next
<1>1. /\ pc = "user" /\ pc' = "user" /\ Valid(t)
      /\ state[t] = "INITIALIZED" \/ owner[t] # t
      /\ state' = [state EXCEPT ![t] = "STANDBY"]
      /\ UNCHANGED <<owner, exitReq, joinTgt, sleepPhase, pvalid, current, curPid>>
  BY DEF StartThread, Service, deferred, cpu
<1>2. /\ state \in [Threads -> States] /\ current \in Threads
      /\ UserMode /\ ActsAsOwner /\ NothingYet /\ OnlyFlowers
  BY DEF LInv, TypeOK
<1>3. owner[t] # t /\ state[t] # "ZOMBIE"
  BY <1>1, <1>2 DEF NothingYet, OnlyFlowers
<1>4. state'[t] = "STANDBY" /\ \A u \in Threads \ {t} : state'[u] = state[u]
  BY <1>1, <1>2
<1>5. \A u \in Threads : Moves(u) /\ (state[u] = "ZOMBIE" => state'[u] = "ZOMBIE")
  BY <1>1, <1>3, <1>4 DEF Moves, Valid
<1>6. UserMode'
  <2>1. CASE current = t
    BY <1>1, <1>3, <1>4, <2>1 DEF UserMode, Valid
  <2>2. CASE current # t
    BY <1>1, <1>2, <1>4, <2>2 DEF UserMode, Valid
  <2> QED
    BY <2>1, <2>2
<1>7. ActsAsOwner'
  BY <1>1, <1>2 DEF ActsAsOwner
<1> QED
  BY <1>1, <1>5, <1>6, <1>7, UserStep DEF ActsFor

\* The name that a system call acts in is the one that Tasks allows.
LEMMA ActingFor ==
    ASSUME LInv, pc = "user", pvalid[curPid]
    PROVE  /\ curPid \in {owner[current], INIT_TID} \cap {t \in Threads : pvalid[t]}
           /\ (IF pc = "user" THEN current ELSE NoThread) = current
           /\ current # NoThread
<1>1. curPid \in Threads /\ current \in Threads /\ ActsAsOwner
  BY DEF LInv, TypeOK
<1>2. curPid = owner[current] \/ curPid = INIT_TID
  BY <1>1 DEF ActsAsOwner
<1>3. current # NoThread
  BY <1>1, SchedAssumption DEF Threads, NoThread
<1> QED
  BY <1>1, <1>2, <1>3

\* The flower thread of the current process is marked for its exit.
LEMMA LExit == ASSUME LInv, TypeOK', Exit PROVE LInv' /\ [Abstract!Next]_Abstract!taskVars
<1> USE InitTid
<1>1. /\ pc = "user" /\ pvalid[curPid]
      /\ UNCHANGED <<state, owner, joinTgt, sleepPhase, pvalid, current, curPid, pc>>
  BY DEF Exit, Service, cpu
<1>2. /\ exitReq \in [Threads -> BOOLEAN] /\ curPid \in Threads
      /\ UserMode /\ ActsAsOwner /\ BootThere
  BY DEF LInv, TypeOK
<1>3. \/ exitReq' = exitReq
      \/ exitReq' = [exitReq EXCEPT ![curPid] = TRUE]
  BY DEF Exit
<1>4. UserMode' /\ ActsAsOwner' /\ ScanPast'
  BY <1>1, <1>2 DEF UserMode, ActsAsOwner, ScanPast, Valid
<1>5. \A t \in Threads : exitReq'[t] => exitReq[t] \/ t = curPid
  BY <1>2, <1>3
<1>6. state'[INIT_TID] \notin {"REUSE", "DESTROYED"}
  BY <1>1, <1>2 DEF BootThere, Valid
<1>7. BootThere' /\ Families' /\ OnlyFlowers' /\ NothingYet'
  BY <1>1, <1>5, <1>6, FamiliesKept DEF ActsFor
<1>8. [t \in Threads |-> Life(t)]' = [t \in Threads |-> Life(t)]
  BY <1>1 DEF Life, Valid
<1>9. CASE exitReq' = exitReq
  BY <1>1, <1>4, <1>7, <1>8, <1>9 DEF LInv, Abstract!taskVars
<1>10. CASE exitReq' = [exitReq EXCEPT ![curPid] = TRUE]
  <2>1. {t \in Threads : exitReq[t] \/ state[t] = "ZOMBIE"}'
          = {t \in Threads : exitReq[t] \/ state[t] = "ZOMBIE"} \cup {curPid}
    BY <1>1, <1>2, <1>10
  <2>2. PICK p \in Threads : p = curPid
    BY <1>2
  <2>3. Abstract!Ask(p)
    BY <1>1, <1>8, <2>1, <2>2, ActingFor DEF Abstract!Ask, Abstract!Acting
  <2> QED
    BY <1>4, <1>7, <2>3 DEF LInv, Abstract!Next
<1> QED
  BY <1>3, <1>9, <1>10

\* A thread, or a process with its first thread, is made in an unused slot.
LEMMA LNew ==
    ASSUME LInv, TypeOK', NEW t \in Threads, NEW p \in {curPid, t}, NEW st \in States,
           pc = "user", pc' = "user", state[t] = "FREE", pvalid[curPid],
           \/ p = t /\ st \in {"STANDBY", "BLOCKED"}
           \/ p = curPid /\ st = "INITIALIZED",
           state'[t] = st,
           \A u \in Threads \ {t, current} : state'[u] = state[u],
           state'[current] \in {state[current], "RUNNING"},
           current = curPid \/ state'[current] = state[current],
           owner' = [owner EXCEPT ![t] = p],
           {u \in Threads : pvalid'[u]} = {u \in Threads : pvalid[u]} \cup {p},
           UNCHANGED <<exitReq, joinTgt, sleepPhase, current, curPid>>
    PROVE  LInv' /\ Abstract!Next
<1> USE InitTid
<1>1. /\ state \in [Threads -> States] /\ current \in Threads /\ curPid \in Threads
      /\ owner \in [Threads -> Threads]
      /\ UserMode /\ ActsAsOwner /\ BootThere /\ Families /\ OnlyFlowers /\ NothingYet
  BY DEF LInv, TypeOK
<1>2. /\ joinTgt[t] = INIT_TID /\ ~exitReq[t] /\ curPid # t
      /\ \A u \in Threads : owner[u] # t
  BY <1>1 DEF NothingYet, Unused
<1>3. current # t /\ t # INIT_TID /\ Valid(current)
  BY <1>1 DEF UserMode, BootThere, Valid
<1>4. /\ owner'[t] = p /\ \A u \in Threads \ {t} : owner'[u] = owner[u]
      /\ st \notin {"FREE", "REUSE", "DESTROYED", "ZOMBIE"}
  BY <1>1
<1>5. /\ owner[current] = current => state[current] = "RUNNING"
      /\ state'[current] \in {state[current], "RUNNING"}
  BY <1>1 DEF UserMode
<1>6. owner[curPid] = curPid
  BY <1>1 DEF Families
<1>7. state'[current] = state[current]
  BY <1>5, <1>6
<1>8. \A u \in Threads \ {t} : state'[u] = state[u]
  BY <1>7
<1>9. BootThere'
  BY <1>1, <1>3, <1>4, <1>8 DEF BootThere, Valid
<1>10. Families'
  <2>1. ASSUME NEW u \in Threads PROVE owner'[owner'[u]] = owner'[u]
    <3>1. CASE u = t
      BY <1>2, <1>4, <1>6, <3>1
    <3>2. CASE u # t
      BY <1>1, <1>2, <1>4, <3>2 DEF Families
    <3> QED
      BY <3>1, <3>2
  <2>2. owner'[curPid] = curPid
    BY <1>1, <1>2, <1>4, <1>6
  <2> QED
    BY <2>1, <2>2 DEF Families
<1>11. OnlyFlowers'
  BY <1>1, <1>2, <1>4, <1>8 DEF OnlyFlowers
<1>12. NothingYet'
  <2>1. ASSUME NEW u \in Threads, u # t
        PROVE  /\ Unused(u)' => joinTgt'[u] = INIT_TID /\ \A v \in Threads : owner'[v] # u
               /\ (Unused(u)' \/ Unborn(u)') =>
                     /\ ~exitReq'[u] /\ curPid' # u
                     /\ \A v \in Threads : owner'[v] = u => v = u
               /\ state'[u] = "INITIALIZED" => owner'[u] # u
    <3>1. (Unused(u)' <=> Unused(u)) /\ (Unborn(u)' <=> Unborn(u))
      BY <1>4, <1>8, <2>1 DEF Unused, Unborn
    <3>2. (Unused(u) \/ Unborn(u)) => owner'[t] # u
      BY <1>1, <1>4, <2>1 DEF NothingYet
    <3>3. ASSUME Unused(u)' PROVE joinTgt'[u] = INIT_TID /\ \A v \in Threads : owner'[v] # u
      <4>1. joinTgt[u] = INIT_TID /\ \A v \in Threads : owner[v] # u
        BY <1>1, <3>1, <3>3 DEF NothingYet
      <4> QED
        BY <1>4, <3>1, <3>2, <3>3, <4>1
    <3>4. ASSUME Unused(u)' \/ Unborn(u)'
          PROVE  ~exitReq'[u] /\ curPid' # u /\ \A v \in Threads : owner'[v] = u => v = u
      <4>1. ~exitReq[u] /\ curPid # u /\ \A v \in Threads : owner[v] = u => v = u
        BY <1>1, <3>1, <3>4 DEF NothingYet
      <4> QED
        BY <1>4, <3>1, <3>2, <3>4, <4>1
    <3>5. state'[u] = "INITIALIZED" => owner'[u] # u
      BY <1>1, <1>4, <1>8, <2>1 DEF NothingYet
    <3> QED
      BY <3>3, <3>4, <3>5
  <2>2. /\ ~Unused(t)'
        /\ Unborn(t)' => /\ ~exitReq'[t] /\ curPid' # t
                         /\ \A v \in Threads : owner'[v] = t => v = t
        /\ state'[t] = "INITIALIZED" => owner'[t] # t
    BY <1>2, <1>4 DEF Unused, Unborn
  <2> QED
    BY <2>1, <2>2 DEF NothingYet
<1>13. UserMode' /\ ActsAsOwner' /\ ScanPast'
  BY <1>1, <1>3, <1>4, <1>7 DEF UserMode, ActsAsOwner, ScanPast, Valid
<1>14. LInv'
  BY <1>9, <1>10, <1>11, <1>12, <1>13 DEF LInv
<1>15. [u \in Threads |-> Life(u)]' = [[u \in Threads |-> Life(u)] EXCEPT ![t] = "alive"]
  <2>1. Life(t)' = "alive" /\ Life(t) = "none"
    BY <1>4 DEF Life, Valid
  <2>2. \A u \in Threads \ {t} : Life(u)' = Life(u)
    BY <1>8 DEF Life, Valid
  <2> QED
    BY <2>1, <2>2
<1>16. [u \in Threads |-> Life(u)][t] = "none"
  BY DEF Life, Valid
<1>17. {u \in Threads : exitReq[u] \/ state[u] = "ZOMBIE"}'
         = {u \in Threads : exitReq[u] \/ state[u] = "ZOMBIE"}
  BY <1>4, <1>8
<1>18. Abstract!Create(t, p)
  BY <1>15, <1>16, <1>17, ActingFor DEF Abstract!Create, Abstract!Acting
<1> QED
  BY <1>1, <1>14, <1>18 DEF Abstract!Next

\* Service 72.
LEMMA LCreateThread ==
    ASSUME LInv, TypeOK', NEW t \in Threads, CreateThread(t)
    PROVE  LInv' /\ Abstract!Next
<1>1. /\ pc = "user" /\ pc' = "user" /\ state[t] = "FREE" /\ pvalid[curPid]
      /\ Valid(current)
      /\ state' = [state EXCEPT ![t] = "INITIALIZED"]
      /\ owner' = [owner EXCEPT ![t] = curPid]
      /\ UNCHANGED <<exitReq, joinTgt, sleepPhase, pvalid, current, curPid>>
  BY DEF CreateThread, IsNewTid, Service, deferred, cpu
<1>2. state \in [Threads -> States] /\ curPid \in Threads /\ current \in Threads
  BY DEF LInv, TypeOK
<1>3. current # t
  BY <1>1 DEF Valid
<1>4. /\ state'[t] = "INITIALIZED" /\ state'[current] = state[current]
      /\ \A u \in Threads \ {t, current} : state'[u] = state[u]
  BY <1>1, <1>2, <1>3
<1>5. {u \in Threads : pvalid'[u]} = {u \in Threads : pvalid[u]} \cup {curPid}
  BY <1>1, <1>2
<1> QED
  BY <1>1, <1>2, <1>4, <1>5, LNew, StateNames

\* copy_process00, when it succeeds and when the image cannot be loaded.
LEMMA LClone ==
    ASSUME LInv, TypeOK', NEW t \in Threads, Clone(t) \/ CloneFails(t)
    PROVE  LInv' /\ Abstract!Next
<1>1. /\ pc = "user" /\ pc' = "user" /\ state[t] = "FREE" /\ pvalid[curPid]
      /\ Valid(current) /\ current = curPid
      /\ \E st \in {"STANDBY", "BLOCKED"} :
            state' = [state EXCEPT ![current] = "RUNNING", ![t] = st]
      /\ owner' = [owner EXCEPT ![t] = t]
      /\ pvalid' = [pvalid EXCEPT ![t] = TRUE]
      /\ UNCHANGED <<exitReq, joinTgt, sleepPhase, current, curPid>>
  BY DEF Clone, CloneFails, NewProcess, IsNewTid, Service, deferred
<1>2. /\ state \in [Threads -> States] /\ current \in Threads
      /\ pvalid \in [Threads -> BOOLEAN]
  BY DEF LInv, TypeOK
<1>3. current # t
  BY <1>1 DEF Valid
<1>4. PICK st \in {"STANDBY", "BLOCKED"} :
         state' = [state EXCEPT ![current] = "RUNNING", ![t] = st]
  BY <1>1
<1>5. /\ state'[t] = st /\ state'[current] = "RUNNING"
      /\ \A u \in Threads \ {t, current} : state'[u] = state[u]
  BY <1>2, <1>3, <1>4
<1>6. {u \in Threads : pvalid'[u]} = {u \in Threads : pvalid[u]} \cup {t}
  <2>1. \A u \in Threads : pvalid'[u] <=> (pvalid[u] \/ u = t)
    BY <1>1, <1>2
  <2> QED
    BY <2>1
<1>7. st \in States
  BY StateNames
<1> QED
  BY <1>1, <1>5, <1>6, <1>7, LNew

\* A fault: the current thread dies, its process is closed, and init runs
\* unless it cannot be dispatched.
LEMMA LFault == ASSUME LInv, TypeOK', Fault PROVE LInv' /\ Abstract!Next
<1> USE InitTid
<1>1. /\ pc = "user" /\ Valid(current) /\ pvalid[curPid]
      /\ current # INIT_TID /\ curPid # INIT_TID
      /\ pvalid' = [pvalid EXCEPT ![curPid] = FALSE]
      /\ current' = INIT_TID
      /\ UNCHANGED <<owner, exitReq, joinTgt>>
  BY DEF Fault, FaultRaised, Killable, deferred
<1>2. \/ /\ state[INIT_TID] = "READY" /\ pc' = "user" /\ curPid' = INIT_TID
         /\ state' = [state EXCEPT ![current] = "DESTROYED", ![INIT_TID] = "RUNNING"]
      \/ /\ pc' = "halt" /\ curPid' = curPid
         /\ state' = [state EXCEPT ![current] = "DESTROYED"]
  BY <1>1 DEF Fault, Halt
<1>3. /\ state \in [Threads -> States] /\ current \in Threads
      /\ owner \in [Threads -> Threads] /\ pvalid \in [Threads -> BOOLEAN]
      /\ UserMode /\ ActsAsOwner /\ BootThere /\ OnlyFlowers
  BY DEF LInv, TypeOK
<1>4. /\ state'[current] = "DESTROYED"
      /\ \A u \in Threads \ {current, INIT_TID} : state'[u] = state[u]
      /\ \/ state'[INIT_TID] = state[INIT_TID]
         \/ state[INIT_TID] = "READY" /\ state'[INIT_TID] = "RUNNING"
      /\ pc' = "user" => state'[INIT_TID] = "RUNNING"
  BY <1>1, <1>2, <1>3
<1>5. state[current] # "ZOMBIE" /\ curPid = owner[current]
  BY <1>1, <1>3 DEF UserMode, OnlyFlowers, ActsAsOwner
<1>6. /\ \A u \in Threads :
            /\ (state'[u] = "FREE") <=> (state[u] = "FREE")
            /\ state'[u] = "INITIALIZED" => state[u] = "INITIALIZED"
            /\ state'[u] = "STANDBY" => state[u] = "STANDBY"
            /\ (state'[u] = "ZOMBIE") <=> (state[u] = "ZOMBIE")
      /\ state'[INIT_TID] \notin {"REUSE", "DESTROYED"}
  BY <1>1, <1>3, <1>4, <1>5 DEF BootThere, Valid
<1>7. ActsFor
  <2>1. CASE curPid' = curPid
    BY <2>1 DEF ActsFor
  <2>2. CASE pc' = "user" /\ curPid' = INIT_TID
    BY <1>3, <1>4, <2>2 DEF ActsFor, BootThere
  <2> QED
    BY <1>2, <2>1, <2>2
<1>8. BootThere' /\ Families' /\ OnlyFlowers' /\ NothingYet'
  BY <1>1, <1>6, <1>7, FamiliesKept
<1>9. UserMode' /\ ScanPast'
  BY <1>1, <1>2, <1>4 DEF UserMode, ScanPast, Valid
<1>10. ActsAsOwner'
  BY <1>1, <1>2, <1>3 DEF ActsAsOwner, BootThere
<1>11. LInv'
  BY <1>8, <1>9, <1>10 DEF LInv
<1>12. [u \in Threads |-> Life(u)]'
         = [[u \in Threads |-> Life(u)] EXCEPT ![current] = "dead"]
  <2>1. ASSUME NEW u \in Threads
        PROVE  Life(u)' = IF u = current THEN "dead" ELSE Life(u)
    BY <1>4 DEF Life, Valid
  <2> QED
    BY <1>3, <2>1
<1>13. {u \in Threads : pvalid[u]}' = {u \in Threads : pvalid[u]} \ {owner[current]}
  <2>1. \A u \in Threads : pvalid'[u] <=> (pvalid[u] /\ u # owner[current])
    BY <1>1, <1>3, <1>5
  <2> QED
    BY <2>1
<1>14. {u \in Threads : exitReq[u] \/ state[u] = "ZOMBIE"}'
         = {u \in Threads : exitReq[u] \/ state[u] = "ZOMBIE"}
  BY <1>1, <1>6
<1>15. current # NoThread
  BY <1>3, SchedAssumption DEF Threads, NoThread
<1>16. Abstract!Kill
  BY <1>1, <1>2, <1>12, <1>13, <1>14, <1>15 DEF Abstract!Kill
<1> QED
  BY <1>11, <1>16 DEF Abstract!Next

----------------------------------------------------------------------------
(* The theorems.                                                            *)

\* The initial state satisfies the invariant and is one of Tasks.
LEMMA LInit == Init => LInv /\ Abstract!Init
<1> SUFFICES ASSUME Init PROVE LInv /\ Abstract!Init
  OBVIOUS
<1> USE InitTid
<1>1. TypeOK
  BY InitType
<1>2. BootThere /\ Families /\ OnlyFlowers /\ UserMode /\ ScanPast /\ ActsAsOwner
  BY DEF Init, BootThere, Families, OnlyFlowers, UserMode, ScanPast, ActsAsOwner, Valid
<1>3. NothingYet
  BY DEF Init, NothingYet, Unused, Unborn
<1>4. Abstract!Init
  <2>1. [t \in Threads |-> Life(t)]
          = [t \in Threads |-> IF t = INIT_TID THEN "alive" ELSE "none"]
    BY DEF Init, Life, Valid
  <2>2. {t \in Threads : pvalid[t]} = {INIT_TID}
    BY DEF Init
  <2>3. {t \in Threads : exitReq[t] \/ state[t] = "ZOMBIE"} = {}
    BY DEF Init
  <2>4. owner = [t \in Threads |-> INIT_TID] /\ pc = "user" /\ current = INIT_TID
    BY DEF Init
  <2> QED
    BY <2>1, <2>2, <2>3, <2>4 DEF Abstract!Init
<1> QED
  BY <1>1, <1>2, <1>3, <1>4 DEF LInv

\* A step that leaves everything alone.
LEMMA LStutter ==
    ASSUME LInv, TypeOK', UNCHANGED vars
    PROVE  LInv' /\ UNCHANGED Abstract!taskVars
<1>1. UNCHANGED <<state, owner, exitReq, joinTgt, sleepPhase, pvalid, current, curPid, pc, scan>>
  BY DEF vars
<1>2. LInv'
  BY <1>1 DEF LInv, BootThere, Families, OnlyFlowers, NothingYet, UserMode, ScanPast,
     ActsAsOwner, Unused, Unborn, Valid
<1>3. UNCHANGED Abstract!taskVars
  BY <1>1 DEF Abstract!taskVars, Life, Valid
<1> QED
  BY <1>2, <1>3

\* Every step keeps the invariant and is a step of Tasks or changes nothing
\* that Tasks sees.
LEMMA LNext ==
    ASSUME LInv, [Next]_vars
    PROVE  LInv' /\ [Abstract!Next]_Abstract!taskVars
<1>1. TypeOK'
  BY NextType DEF LInv
<1>2. CASE Tick
  BY <1>1, <1>2, LHalts, LTickStay, LTickLeave, LTickSpawn DEF Tick
<1>3. CASE Scheduler
  BY <1>1, <1>3, LVisitOne, LVisitSettled, LReap, LSwitch DEF Scheduler
<1>4. CASE SwitchNext \/ SwitchEndOfRound \/ Dispatch \/ DispatchSleepingInit
  BY <1>1, <1>4, LSwitch, LDispatch, LHalts
<1>5. CASE Syscall
  BY <1>1, <1>5, LHalts, LRecords, LExit, LStartThread, LCreateThread, LClone,
     LCloneMismatch DEF Syscall
<1>6. CASE Fault \/ FaultPanics
  BY <1>1, <1>6, LFault, LHalts
<1>7. CASE Halted \/ UNCHANGED vars
  BY <1>1, <1>7, LStutter DEF Halted
<1> QED
  BY <1>2, <1>3, <1>4, <1>5, <1>6, <1>7 DEF Next, Kernel

\* The switcher, the scheduler, the deferred exit, the reaper, the spawner and
\* the fault handler together implement Tasks: nobody dies unasked, an exit
\* ends its own process and no other, and the processor goes to the living.
THEOREM SchedImplementsTasks == Spec => ImplementsTasks
<1>1. Init => LInv /\ Abstract!Init
  BY LInit
<1>2. LInv /\ [Next]_vars => LInv' /\ [Abstract!Next]_Abstract!taskVars
  BY LNext
<1> QED
  BY <1>1, <1>2, PTL DEF Spec, ImplementsTasks, Abstract!Spec

\* System calls act in the name of the owner of the current thread, or of init
\* for a thread dispatched in its sleep, for every number of threads, also
\* when threads are started again.
THEOREM SchedActsAsOwner == Spec => []ActsAsOwner
<1>1. LInv => ActsAsOwner
  BY DEF LInv
<1>2. LInv /\ [Next]_vars => LInv'
  BY LNext
<1> QED
  BY <1>1, <1>2, LInit, PTL DEF Spec

\* Every step keeps the state of a thread that was reaped or destroyed.
LEMMA DeadKept ==
    ASSUME LInv, [Next]_vars, NEW t \in Threads,
           state[t] \in {"REUSE", "DESTROYED"}
    PROVE  state'[t] = state[t]
<1> USE InitTid
<1>1. /\ state \in [Threads -> States] /\ current \in Threads
      /\ ~Valid(t) /\ state[t] # "FREE"
  BY DEF LInv, TypeOK, Valid
<1>2. Valid(INIT_TID) /\ INIT_TID # t
  BY <1>1 DEF LInv, BootThere
<1>3. CASE TickLeave
  <2>1. /\ Valid(current)
        /\ \/ state' = [state EXCEPT ![current] = "WAITING"]
           \/ state' = [state EXCEPT ![current] = "READY"]
           \/ state' = state
    BY <1>3 DEF TickLeave, Ticking, Preempted
  <2> QED
    BY <1>1, <2>1
<1>4. ASSUME NEW u \in Threads, TickSpawn(u) PROVE state'[t] = state[t]
  <2>1. state[u] = "STANDBY" /\ Valid(current)
    BY <1>4 DEF TickSpawn, IsFirstStandby, Standby
  <2>2. \/ state' = state
        \/ state' = [Preempted EXCEPT ![u] = "RUNNING"]
    BY <1>4 DEF TickSpawn
  <2>3. Preempted \in [Threads -> States] /\ Preempted[t] = state[t]
    BY <1>1, <2>1, StateNames DEF Preempted
  <2> QED
    BY <1>1, <2>1, <2>2, <2>3
<1>5. CASE SwitchEndOfRound
  <2>1. state' = state \/ state' = [state EXCEPT ![INIT_TID] = "READY"]
    BY <1>5 DEF SwitchEndOfRound
  <2> QED
    BY <1>1, <1>2, <2>1
<1>6. ASSUME NEW u \in Threads, VisitEvent(u) \/ VisitBlock(u) \/ VisitExit(u)
      PROVE  state'[t] = state[t]
  <2>1. /\ Valid(u)
        /\ \/ state' = state
           \/ \E st \in States : state' = [state EXCEPT ![u] = st]
    BY <1>6, StateNames DEF VisitEvent, VisitBlock, VisitExit
  <2> QED
    BY <1>1, <2>1
<1>7. ASSUME NEW u \in Threads, VisitThread(u) PROVE state'[t] = state[t]
  <2>1. \/ Checked(u) = "ZOMBIE" /\ state' = Reaped(u)
        \/ state' = [state EXCEPT ![u] = Checked(u)]
    BY <1>7 DEF VisitThread
  <2>2. ~Valid(u) => Checked(u) = state[u]
    BY DEF Checked
  <2>3. Checked(u) = "ZOMBIE" => u # t
    BY <1>1, <2>2
  <2>4. u # t => Reaped(u)[t] = state[t]
    BY <1>1 DEF Reaped
  <2> QED
    BY <1>1, <2>1, <2>2, <2>3, <2>4
<1>8. CASE Dispatch
  <2>1. \/ state' = state
        \/ /\ Released[current] = "READY"
           /\ state' = [Released EXCEPT ![current] = "RUNNING"]
    BY <1>8 DEF Dispatch
  <2>2. Released \in [Threads -> States] /\ Released[t] = state[t]
    BY <1>1, <1>2, StateNames DEF Released
  <2> QED
    BY <1>1, <2>1, <2>2
<1>9. ASSUME NEW u \in Threads, CreateThread(u) \/ StartThread(u)
      PROVE  state'[t] = state[t]
  <2>1. /\ u # t
        /\ \E st \in States : state' = [state EXCEPT ![u] = st]
    BY <1>1, <1>9, StateNames DEF CreateThread, StartThread, IsNewTid
  <2> QED
    BY <1>1, <2>1
<1>10. ASSUME NEW u \in Threads, Clone(u) \/ CloneFails(u)
       PROVE  state'[t] = state[t]
  <2>1. /\ u # t /\ Valid(current)
        /\ \E st \in States :
              state' = [state EXCEPT ![current] = "RUNNING", ![u] = st]
    BY <1>1, <1>10, StateNames
       DEF Clone, CloneFails, NewProcess, Service, IsNewTid
  <2> QED
    BY <1>1, <2>1
<1>11. CASE CloneMismatch
  <2>1. \/ state' = state
        \/ Valid(curPid) /\ state' = [state EXCEPT ![curPid] = "RUNNING"]
    BY <1>11 DEF CloneMismatch
  <2> QED
    BY <1>1, <2>1
<1>12. CASE Fault
  <2>1. /\ Valid(current)
        /\ \/ state' = [state EXCEPT ![current] = "DESTROYED",
                                     ![INIT_TID] = "RUNNING"]
           \/ state' = [state EXCEPT ![current] = "DESTROYED"]
    BY <1>12 DEF Fault, Killable
  <2> QED
    BY <1>1, <1>2, <2>1
<1>13. CASE \/ TickInvalid \/ TickLocked \/ TickStay \/ SwitchNext \/ VisitEnd
            \/ DispatchSleepingInit \/ FaultPanics \/ Halted \/ UNCHANGED vars
  BY <1>13 DEF TickInvalid, TickLocked, TickStay, SwitchNext, VisitEnd,
     DispatchSleepingInit, FaultPanics, Halted, vars
<1>14. CASE \/ ServiceInvalid \/ Yield \/ RequestBlock \/ RegisterDs \/ Exit
            \/ \E ms \in SleepMs : Sleep(ms)
            \/ \E u \in Threads : Join(u)
            \/ \E u \in Threads, b \in BOOLEAN : NotifyEvent(u, b)
            \/ \E b \in BOOLEAN : Lock(b, schedLocked) \/ Lock(tsLocked, b)
  BY <1>14 DEF ServiceInvalid, Yield, RequestBlock, RegisterDs, Exit, Sleep,
     Join, NotifyEvent, Lock
<1>15. CASE Tick
  BY <1>3, <1>4, <1>13, <1>15 DEF Tick
<1>16. CASE Scheduler
  BY <1>6, <1>7, <1>13, <1>16 DEF Scheduler
<1>17. CASE Syscall
  BY <1>9, <1>10, <1>11, <1>14, <1>17 DEF Syscall
<1> QED
  BY <1>5, <1>8, <1>12, <1>13, <1>15, <1>16, <1>17 DEF Next, Kernel

\* No handler revives a reaped or destroyed thread: sleep timers, joins and
\* events that were recorded while it was alive are ignored afterwards.
THEOREM SchedDeadStayDead == Spec => DeadStayDead
<1>1. LInv /\ [Next]_vars =>
         [\A t \in Threads : state[t] \in {"REUSE", "DESTROYED"}
                                => state'[t] = state[t]]_vars
  BY DeadKept
<1>2. LInv /\ [Next]_vars => LInv'
  BY LNext
<1> QED
  BY <1>1, <1>2, LInit, PTL DEF Spec, DeadStayDead
=============================================================================
