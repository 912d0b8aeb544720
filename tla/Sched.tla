------------------------------- MODULE Sched -------------------------------
(***************************************************************************)
(* Threads of the castleos kernel: their life from creation to reuse, the   *)
(* task switcher (ts.c), the round-robin scheduler (sched.c), the           *)
(* dispatcher (dispatch.c, spawn.c), the services that ask for a deferred   *)
(* state change, and the fault handler that kills the current process.      *)
(*                                                                          *)
(* Interrupt gates and system calls run with interrupts disabled and only   *)
(* the boot processor switches threads, so a handler is never interleaved   *)
(* with another.  The timer handler is nevertheless written as several      *)
(* steps: pc says where it is, nothing else is enabled while pc # "user",   *)
(* and every one of its steps is forced.                                    *)
(*                                                                          *)
(* A process is named by the tid of its flower thread.  jiffies and         *)
(* wake_jiffy are abstracted to the number of ticks left to sleep, and      *)
(* quantum and runningCount to the number of ticks left to run.             *)
(***************************************************************************)
EXTENDS Integers, Sequences

CONSTANTS
    THREAD_COUNT_MAX, \* number of slots of threadList[]
    Quanta,           \* quanta with which a thread may be dispatched
    SleepMs,          \* arguments of service 266, in ticks
    Services          \* the services that the programs of an instance use

ASSUME SchedAssumption ==
    /\ THREAD_COUNT_MAX \in Nat \ {0}
    /\ Quanta \subseteq Nat \ {0} /\ Quanta # {}
    /\ SleepMs \subseteq Nat \ {0}
    /\ Services \subseteq {"yield", "sleep", "exit", "join", "block",
                          "display", "lock", "thread", "restart", "clone",
                          "fault"}

Threads  == 0 .. THREAD_COUNT_MAX - 1
INIT_TID == 0
NoThread == -1

States == {"FREE",        \* a NULL slot of threadList[]
           "INITIALIZED", "STANDBY", "READY", "RUNNING", "WAITING",
           "BLOCKED", "ZOMBIE",
           "REUSE",       \* THREAD_STATE_WAITING_FOR_REUSE, magic 4321
           "DESTROYED"}   \* destroy_thread_structure, magic 0

\* The panic() and die() calls that these handlers can end in.
Causes == {"none",
           "ts: CurrentThread validation", "ts: CurrentProcess validation",
           "ts: Unexpected error", "ts: current_tid", "ts: Init is sleeping",
           "ts: TargetProcess validation", "dispatcher: state",
           "spawn: Saved", "sci0: p validation", "excep: Could not kill",
           "clone: CallerTID"}

VARIABLES
    state,      \* thread_d.state, with the validity of its magic
    owner,      \* tgid: the process, named by its flower thread
    saved,      \* thread_d.saved
    sleepPhase, \* Deferred.sleep_phase, 0 when sleep_in_progress is FALSE
    sleepLeft,  \* desired_sleep_ms in phase 1, ticks to wake_jiffy in phase 2
    exitReq,    \* Deferred.exit_in_progress
    joinTgt,    \* wait4tid; 0, the tid of init, when it was never set
    joinPend,   \* wait4tid_pending
    blockReq,   \* msgctl.block_in_progress
    dsEvent,    \* msgctl.has_event_from_ds
    waitLoop,   \* wait_reason is WAIT_REASON_LOOP
    pvalid,     \* magic of the process structure is 1234
    current,    \* lapic_info[0].current_tid
    curPid,     \* the current process of core 0
    round,      \* the threads of the list behind currentq
    left,       \* quantum - runningCount of the current thread
    tsLocked,   \* task_switch_status
    schedLocked, \* SchedulerInfo.is_locked
    ds,         \* DisplayServerInfo.tid while it is initialized
    pc,         \* where the timer handler is; "user" outside of it
    scan,       \* the next tid that __scheduler_rr visits
    cause       \* the reason of pc = "halt"

deferred == <<sleepPhase, sleepLeft, exitReq, joinTgt, joinPend, blockReq,
              dsEvent, waitLoop>>
cpu      == <<current, curPid, round, left, scan>>
locks    == <<tsLocked, schedLocked>>
vars     == <<state, owner, saved, sleepPhase, sleepLeft, exitReq, joinTgt,
              joinPend, blockReq, dsEvent, waitLoop, pvalid, current, curPid,
              round, left, tsLocked, schedLocked, ds, pc, scan, cause>>

\* used == TRUE and magic == 1234.
Valid(t) == state[t] \notin {"FREE", "REUSE", "DESTROYED"}

Halt(why) == pc' = "halt" /\ cause' = why

\* I_x64ExecuteInitialProcess: only the init thread, running, and a list of
\* one element.
Init ==
    /\ state = [t \in Threads |-> IF t = INIT_TID THEN "RUNNING" ELSE "FREE"]
    /\ owner = [t \in Threads |-> INIT_TID]
    /\ saved = [t \in Threads |-> FALSE]
    /\ sleepPhase = [t \in Threads |-> 0]
    /\ sleepLeft = [t \in Threads |-> 0]
    /\ exitReq = [t \in Threads |-> FALSE]
    /\ joinTgt = [t \in Threads |-> INIT_TID]
    /\ joinPend = [t \in Threads |-> FALSE]
    /\ blockReq = [t \in Threads |-> FALSE]
    /\ dsEvent = [t \in Threads |-> FALSE]
    /\ waitLoop = [t \in Threads |-> FALSE]
    /\ pvalid = [t \in Threads |-> t = INIT_TID]
    /\ current = INIT_TID
    /\ curPid = INIT_TID
    /\ round = <<>>
    /\ left \in Quanta
    /\ tsLocked = FALSE
    /\ schedLocked = FALSE
    /\ ds = NoThread
    /\ pc = "user"
    /\ scan = 0
    /\ cause = "none"

----------------------------------------------------------------------------
(* The timer interrupt: __thread_switch.                                    *)

\* Mutations of Elapsed: a sleep that is counted below zero, or not at all.
ElapsedBelowZero ==
    [t \in Threads |-> IF sleepPhase[t] = 2 THEN sleepLeft[t] - 1
                                            ELSE sleepLeft[t]]
ElapsedNever == sleepLeft

\* DeviceInterface_PIT: jiffies++.
Elapsed ==
    [t \in Threads |-> IF sleepPhase[t] = 2 /\ sleepLeft[t] > 0
                         THEN sleepLeft[t] - 1 ELSE sleepLeft[t]]

\* runningCount++ leaves time in the quantum.
StillInQuantum == left > 1

TickInvalid ==
    /\ pc = "user"
    /\ ~(Valid(current) /\ pvalid[owner[current]])
    /\ Halt(IF Valid(current) THEN "ts: CurrentProcess validation"
                              ELSE "ts: CurrentThread validation")
    /\ UNCHANGED <<state, owner, saved, deferred, pvalid, cpu, locks, ds>>

Ticking ==
    /\ pc = "user"
    /\ Valid(current)
    /\ pvalid[owner[current]]
    /\ curPid' = owner[current]
    /\ left' = IF StillInQuantum THEN left - 1 ELSE 0

\* task_switch_status == LOCKED: return without saving the context.
TickLocked ==
    /\ Ticking
    /\ tsLocked
    /\ sleepLeft' = Elapsed
    /\ UNCHANGED <<state, owner, saved, sleepPhase, exitReq, joinTgt,
                   joinPend, blockReq, dsEvent, waitLoop, pvalid, current,
                   round, locks, ds, pc, scan, cause>>

\* Still in quantum: the current thread runs on.
TickStay ==
    /\ Ticking
    /\ ~tsLocked
    /\ StillInQuantum
    /\ sleepPhase[current] # 1
    /\ sleepLeft' = Elapsed
    /\ saved' = [saved EXCEPT ![current] = TRUE]
    /\ UNCHANGED <<state, owner, sleepPhase, exitReq, joinTgt, joinPend,
                   blockReq, dsEvent, waitLoop, pvalid, current, round,
                   locks, ds, pc, scan, cause>>

\* schedi_check_for_standby2: the first thread in STANDBY that is not init.
Standby == {t \in Threads \ {INIT_TID} : state[t] = "STANDBY"}
IsFirstStandby(t) == t \in Standby /\ \A u \in Standby : t <= u

\* Mutation of Preempted: the thread is left in RUNNING.
PreemptedNot == state

\* __tsOnFinishedExecuting: RUNNING --> READY.
Preempted ==
    IF state[current] = "RUNNING" THEN [state EXCEPT ![current] = "READY"]
                                  ELSE state

\* The current thread leaves the processor: at the end of its quantum, or
\* earlier when it has asked to sleep (sleep_phase 1 --> 2, WAITING).
TickLeave ==
    /\ Ticking
    /\ ~tsLocked
    /\ \/ StillInQuantum /\ sleepPhase[current] = 1
       \/ ~StillInQuantum /\ Standby = {}
    /\ IF sleepPhase[current] = 1
         THEN /\ state' = [state EXCEPT ![current] = "WAITING"]
              /\ sleepPhase' = [sleepPhase EXCEPT ![current] = 2]
         ELSE /\ state' = Preempted
              /\ UNCHANGED sleepPhase
    /\ sleepLeft' = Elapsed
    /\ saved' = [saved EXCEPT ![current] = TRUE]
    /\ pc' = "switch"
    /\ UNCHANGED <<owner, exitReq, joinTgt, joinPend, blockReq, dsEvent,
                   waitLoop, pvalid, current, round, locks, ds, scan, cause>>

\* __spawn_thread_by_tid_imp: STANDBY --> RUNNING, deferred actions cleared,
\* task switching and scheduler unlocked.  It never returns to the caller.  A
\* saved context means that the thread has run before.
TickSpawn(t) ==
    /\ pc = "user"
    /\ Valid(current) /\ pvalid[owner[current]]
    /\ ~tsLocked
    /\ ~StillInQuantum
    /\ IsFirstStandby(t)
    /\ IF saved[t] \/ t = current
         THEN /\ Halt("spawn: Saved")
              /\ UNCHANGED <<state, saved, deferred, cpu, locks>>
         ELSE /\ state' = [Preempted EXCEPT ![t] = "RUNNING"]
              /\ saved' = [saved EXCEPT ![current] = TRUE]
              /\ sleepLeft' = Elapsed
              /\ sleepPhase' = [sleepPhase EXCEPT ![t] = 0]
              /\ exitReq' = [exitReq EXCEPT ![t] = FALSE]
              /\ current' = t
              /\ curPid' = owner[t]
              /\ left' \in Quanta
              /\ tsLocked' = FALSE
              /\ schedLocked' = FALSE
              /\ UNCHANGED <<joinTgt, joinPend, blockReq, dsEvent, waitLoop,
                             round, scan, pc, cause>>
    /\ UNCHANGED <<owner, pvalid, ds>>

Tick ==
    \/ TickInvalid
    \/ TickLocked
    \/ TickStay
    \/ TickLeave
    \/ \E t \in Threads : TickSpawn(t)

\* Mutations of SwitchNext: currentq does not advance, or the rest of the list
\* is forgotten.
SwitchNextStays ==
    /\ pc = "switch"
    /\ round # <<>>
    /\ current' = Head(round) /\ pc' = "dispatch"
    /\ UNCHANGED <<state, owner, saved, deferred, pvalid, curPid, round, left,
                   locks, ds, scan, cause>>
SwitchNextForgets ==
    /\ pc = "switch"
    /\ round # <<>>
    /\ current' = Head(round) /\ pc' = "dispatch" /\ round' = <<>>
    /\ UNCHANGED <<state, owner, saved, deferred, pvalid, curPid, left, locks,
                   ds, scan, cause>>

\* ZeroGravity: the next thread of the list, if there is one.
SwitchNext ==
    /\ pc = "switch"
    /\ round # <<>>
    /\ round' = Tail(round)
    /\ IF state[Head(round)] = "READY"
         THEN current' = Head(round) /\ pc' = "dispatch" /\ UNCHANGED cause
         ELSE UNCHANGED current /\ Halt("ts: Unexpected error")
    /\ UNCHANGED <<state, owner, saved, deferred, pvalid, curPid, left,
                   locks, ds, scan>>

\* ZeroGravity: end of round.  psScheduler refuses while it is locked, else
\* __scheduler_rr starts a new list behind the idle thread and wakes it up.
SwitchEndOfRound ==
    /\ pc = "switch"
    /\ round = <<>>
    /\ IF schedLocked
         THEN Halt("ts: current_tid") /\ UNCHANGED <<state, scan>>
         ELSE /\ state' = [state EXCEPT ![INIT_TID] = "READY"]
              /\ pc' = "scan"
              /\ scan' = INIT_TID + 1
              /\ UNCHANGED cause
    /\ UNCHANGED <<owner, saved, deferred, pvalid, current, curPid, round,
                   left, locks, ds>>

----------------------------------------------------------------------------
(* The loop of __scheduler_rr, one thread at a time.                        *)

Visiting(t) == pc = "scan" /\ t = scan /\ scan' = scan + 1

\* has_event_from_ds: wake the thread up if it waits for messages.  The
\* visit ends here, whatever the state of the thread.
VisitEvent(t) ==
    /\ Visiting(t)
    /\ Valid(t) /\ dsEvent[t]
    /\ IF state[t] \in {"WAITING", "BLOCKED"} /\ waitLoop[t]
         THEN /\ state' = [state EXCEPT ![t] = "READY"]
              /\ waitLoop' = [waitLoop EXCEPT ![t] = FALSE]
         ELSE UNCHANGED <<state, waitLoop>>
    /\ dsEvent' = [dsEvent EXCEPT ![t] = FALSE]
    /\ UNCHANGED <<owner, saved, sleepPhase, sleepLeft, exitReq, joinTgt,
                   joinPend, blockReq, pvalid, current, curPid, round, left,
                   locks, ds, pc, cause>>

\* wait4tid_pending is cleared on the way, then block_in_progress is served.
VisitBlock(t) ==
    /\ Visiting(t)
    /\ Valid(t) /\ ~dsEvent[t] /\ blockReq[t]
    /\ state' = [state EXCEPT ![t] = "BLOCKED"]
    /\ joinPend' = [joinPend EXCEPT ![t] = FALSE]
    /\ blockReq' = [blockReq EXCEPT ![t] = FALSE]
    /\ waitLoop' = [waitLoop EXCEPT ![t] = TRUE]
    /\ UNCHANGED <<owner, saved, sleepPhase, sleepLeft, exitReq, joinTgt,
                   dsEvent, pvalid, current, curPid, round, left, locks, ds,
                   pc, cause>>

\* exit_in_progress is served.
VisitExit(t) ==
    /\ Visiting(t)
    /\ Valid(t) /\ ~dsEvent[t] /\ ~blockReq[t] /\ exitReq[t]
    /\ state' = [state EXCEPT ![t] = "ZOMBIE"]
    /\ joinPend' = [joinPend EXCEPT ![t] = FALSE]
    /\ exitReq' = [exitReq EXCEPT ![t] = FALSE]
    /\ UNCHANGED <<owner, saved, sleepPhase, sleepLeft, joinTgt, blockReq,
                   dsEvent, waitLoop, pvalid, current, curPid, round, left,
                   locks, ds, pc, cause>>

\* The wake-up time of a sleeping thread has come.
Woken(t) == sleepPhase[t] = 2 /\ sleepLeft[t] = 0

\* Mutation of Checked: do_thread_ready without the test of magic.
CheckedNoMagic(t) ==
    IF Woken(t) THEN "READY"
    ELSE IF Valid(t) /\ joinPend[t] THEN "BLOCKED" ELSE state[t]

\* do_thread_ready for a woken thread, after a pending join has blocked it;
\* both leave a thread alone whose magic is not 1234.
Checked(t) ==
    IF ~Valid(t) THEN state[t]
    ELSE IF Woken(t) THEN "READY"
    ELSE IF joinPend[t] THEN "BLOCKED" ELSE state[t]

\* Mutations of Reaped: the other threads of the process are forgotten, or
\* the state of the thread itself is.
ReapedAlone(t) ==
    [u \in Threads |->
        IF u = t THEN "REUSE"
        ELSE IF Valid(u) /\ joinTgt[u] = t THEN "READY" ELSE state[u]]
ReapedNot(t) ==
    [u \in Threads |->
        IF u # t /\ Valid(u) /\ joinTgt[u] = t THEN "READY" ELSE state[u]]

\* __on_zombie: the thread can be reused, a thread that joined it is READY,
\* and the other threads of its process can be reused too.
Reaped(t) ==
    [u \in Threads |->
        IF u = t THEN "REUSE"
        ELSE IF Valid(u) /\ joinTgt[u] = t THEN "READY"
        ELSE IF Valid(u) /\ owner[u] = owner[t] THEN "REUSE"
        ELSE state[u]]

\* No event is in progress for the thread.
Settled(t) == ~(Valid(t) /\ (dsEvent[t] \/ blockReq[t] \/ exitReq[t]))

VisitThread(t) ==
    /\ Visiting(t)
    /\ Settled(t)
    /\ sleepPhase' = IF Woken(t) THEN [sleepPhase EXCEPT ![t] = 0]
                                 ELSE sleepPhase
    /\ joinPend' = IF Valid(t) THEN [joinPend EXCEPT ![t] = FALSE]
                               ELSE joinPend
    /\ IF Checked(t) = "ZOMBIE"
         THEN /\ state' = Reaped(t)
              /\ pvalid' = [pvalid EXCEPT ![owner[t]] = FALSE]
              /\ ds' = IF ds = t THEN NoThread ELSE ds
              /\ UNCHANGED round
         ELSE /\ state' = [state EXCEPT ![t] = Checked(t)]
              /\ round' = IF Checked(t) = "READY" THEN Append(round, t)
                                                  ELSE round
              /\ UNCHANGED <<pvalid, ds>>
    /\ UNCHANGED <<owner, saved, sleepLeft, exitReq, joinTgt, blockReq,
                   dsEvent, waitLoop, current, curPid, left, locks, pc, cause>>

\* The end of the list: the idle thread goes first.
VisitEnd ==
    /\ pc = "scan"
    /\ scan = THREAD_COUNT_MAX
    /\ scan' = 0
    /\ current' = INIT_TID
    /\ pc' = "dispatch"
    /\ UNCHANGED <<state, owner, saved, deferred, pvalid, curPid, round, left,
                   locks, ds, cause>>

Scheduler ==
    \/ \E t \in Threads :
          VisitEvent(t) \/ VisitBlock(t) \/ VisitExit(t) \/ VisitThread(t)
    \/ VisitEnd

----------------------------------------------------------------------------
(* dispatch_current and dispatcher().                                       *)

\* dispatch_current: init stands in for a selected thread that is not READY.
Selected == IF state[current] = "READY" THEN current ELSE INIT_TID

\* Mutation of TargetThread: init stands in for every thread that has a
\* deferred action in progress.
TargetThreadDeferred ==
    IF sleepPhase[Selected] # 0 \/ exitReq[Selected] THEN INIT_TID
                                                     ELSE Selected

\* Init stands in also for a thread that is in a sleep routine.  It is set
\* READY then; dispatcher() still takes current_tid.
TargetThread == IF sleepPhase[Selected] # 0 THEN INIT_TID ELSE Selected

Released ==
    IF state[current] = "READY" /\ sleepPhase[current] = 0
      THEN state ELSE [state EXCEPT ![INIT_TID] = "READY"]

Dispatch ==
    /\ pc = "dispatch"
    /\ sleepPhase[INIT_TID] # 0 => Selected # INIT_TID
    /\ IF Released[current] # "READY"
         THEN /\ Halt("dispatcher: state")
              /\ UNCHANGED <<state, saved, curPid, left>>
         ELSE /\ state' = [Released EXCEPT ![current] = "RUNNING"]
              /\ saved' = [saved EXCEPT ![current] = FALSE]
              /\ left' \in Quanta
              /\ IF pvalid[owner[TargetThread]]
                   THEN /\ curPid' = owner[TargetThread]
                        /\ pc' = "user"
                        /\ UNCHANGED cause
                   ELSE /\ Halt("ts: TargetProcess validation")
                        /\ UNCHANGED curPid
    /\ UNCHANGED <<owner, deferred, pvalid, current, round, locks, ds, scan>>

\* "The idle thread can't sleep".
DispatchSleepingInit ==
    /\ pc = "dispatch"
    /\ Selected = INIT_TID
    /\ sleepPhase[INIT_TID] # 0
    /\ Halt("ts: Init is sleeping")
    /\ UNCHANGED <<state, owner, saved, deferred, pvalid, cpu, locks, ds>>

Kernel ==
    \/ Tick
    \/ SwitchNext
    \/ SwitchEndOfRound
    \/ Scheduler
    \/ Dispatch
    \/ DispatchSleepingInit

----------------------------------------------------------------------------
(* Services, called by the current thread.  sci0 looks up the structure of  *)
(* the current process first.                                               *)

Service(name) ==
    name \in Services /\ pc = "user" /\ Valid(current) /\ pvalid[curPid]

ServiceInvalid ==
    /\ pc = "user" /\ Valid(current) /\ ~pvalid[curPid]
    /\ Halt("sci0: p validation")
    /\ UNCHANGED <<state, owner, saved, deferred, pvalid, cpu, locks, ds>>

\* Service 265.
Yield ==
    /\ Service("yield")
    /\ left' = 0
    /\ UNCHANGED <<state, owner, saved, deferred, pvalid, current, curPid,
                   round, scan, locks, ds, pc, cause>>

\* Service 266: only the intention is recorded.
Sleep(ms) ==
    /\ Service("sleep")
    /\ sleepPhase' = [sleepPhase EXCEPT ![current] = 1]
    /\ sleepLeft' = [sleepLeft EXCEPT ![current] = ms]
    /\ UNCHANGED <<state, owner, saved, exitReq, joinTgt, joinPend, blockReq,
                   dsEvent, waitLoop, pvalid, cpu, locks, ds, pc, cause>>

\* SCI0_EXIT: the flower thread of the current process is marked.
Exit ==
    /\ Service("exit")
    /\ exitReq' = IF Valid(curPid) THEN [exitReq EXCEPT ![curPid] = TRUE]
                                   ELSE exitReq
    /\ UNCHANGED <<state, owner, saved, sleepPhase, sleepLeft, joinTgt,
                   joinPend, blockReq, dsEvent, waitLoop, pvalid, cpu, locks,
                   ds, pc, cause>>

\* Service 84, join_thread: again the flower thread of the current process.
Join(t) ==
    /\ Service("join")
    /\ IF Valid(curPid)
         THEN /\ joinTgt' = [joinTgt EXCEPT ![curPid] = t]
              /\ joinPend' = [joinPend EXCEPT ![curPid] = TRUE]
         ELSE UNCHANGED <<joinTgt, joinPend>>
    /\ UNCHANGED <<state, owner, saved, sleepPhase, sleepLeft, exitReq,
                   blockReq, dsEvent, waitLoop, pvalid, cpu, locks, ds, pc,
                   cause>>

\* ipc_get_message on an empty queue, for a thread that wants to block.
RequestBlock ==
    /\ Service("block")
    /\ blockReq' = [blockReq EXCEPT ![current] = TRUE]
    /\ UNCHANGED <<state, owner, saved, sleepPhase, sleepLeft, exitReq,
                   joinTgt, joinPend, dsEvent, waitLoop, pvalid, cpu, locks,
                   ds, pc, cause>>

\* dispsrv_setup_ds_info: the flower thread of the current process becomes
\* the display server, if none is registered.
RegisterDs ==
    /\ Service("display")
    /\ ds = NoThread
    /\ Valid(curPid)
    /\ ds' = curPid
    /\ UNCHANGED <<state, owner, saved, deferred, pvalid, cpu, locks, pc,
                   cause>>

\* Service 911, events 8000 and 8001, by the display server only.
NotifyEvent(t, b) ==
    /\ Service("display")
    /\ current = ds
    /\ Valid(t)
    /\ dsEvent' = [dsEvent EXCEPT ![t] = b]
    /\ UNCHANGED <<state, owner, saved, sleepPhase, sleepLeft, exitReq,
                   joinTgt, joinPend, blockReq, waitLoop, pvalid, cpu, locks,
                   ds, pc, cause>>

\* Services 640 to 643, by the init thread only.
Lock(ts, sched) ==
    /\ Service("lock")
    /\ current = INIT_TID
    /\ tsLocked' = ts
    /\ schedLocked' = sched
    /\ UNCHANGED <<state, owner, saved, deferred, pvalid, cpu, ds, pc, cause>>

\* get_new_tid: the first NULL slot; slots are never given back.
IsNewTid(t) == state[t] = "FREE" /\ \A u \in Threads : u < t => state[u] # "FREE"

\* Service 72.
CreateThread(t) ==
    /\ Service("thread")
    /\ IsNewTid(t)
    /\ state' = [state EXCEPT ![t] = "INITIALIZED"]
    /\ owner' = [owner EXCEPT ![t] = curPid]
    /\ UNCHANGED <<saved, deferred, pvalid, cpu, locks, ds, pc, cause>>

\* Service 94, with a pointer that service 72 returned:
\* schediSelectForExecution does not look at the state.
StartThread(t) ==
    /\ Service("thread")
    /\ Valid(t)
    /\ state[t] = "INITIALIZED" \/ ("restart" \in Services /\ owner[t] # t)
    /\ state' = [state EXCEPT ![t] = "STANDBY"]
    /\ UNCHANGED <<owner, saved, deferred, pvalid, cpu, locks, ds, pc, cause>>

\* copy_process00: a new process with its flower thread t, by the flower
\* thread of the current process.
NewProcess(t, st) ==
    /\ Service("clone")
    /\ current = curPid
    /\ IsNewTid(t)
    /\ state' = [state EXCEPT ![current] = "RUNNING", ![t] = st]
    /\ owner' = [owner EXCEPT ![t] = t]
    /\ pvalid' = [pvalid EXCEPT ![t] = TRUE]
    /\ UNCHANGED <<deferred, current, curPid, round, scan, locks, ds, pc,
                   cause>>

\* The new thread is in STANDBY, and the quantum of the caller is set anew.
Clone(t) ==
    /\ NewProcess(t, "STANDBY")
    /\ left' \in Quanta
    /\ UNCHANGED saved

\* The image file is missing or is not an ELF file: the new thread is left
\* as copy_thread_struct made it.
CloneFails(t) ==
    /\ NewProcess(t, "BLOCKED")
    /\ saved' = [saved EXCEPT ![t] = saved[current]]
    /\ UNCHANGED left

\* copy_process00: only the flower thread may call it.
CloneMismatch ==
    /\ Service("clone")
    /\ current # curPid
    /\ Halt("clone: CallerTID")
    /\ state' = IF Valid(curPid) THEN [state EXCEPT ![curPid] = "RUNNING"]
                                 ELSE state
    /\ UNCHANGED <<owner, saved, deferred, pvalid, cpu, locks, ds>>

Syscall ==
    \/ ServiceInvalid
    \/ Yield
    \/ \E ms \in SleepMs : Sleep(ms)
    \/ Exit
    \/ \E t \in Threads : Join(t)
    \/ RequestBlock
    \/ RegisterDs
    \/ \E t \in Threads, b \in BOOLEAN : NotifyEvent(t, b)
    \/ \E b \in BOOLEAN : Lock(b, schedLocked) \/ Lock(tsLocked, b)
    \/ \E t \in Threads : CreateThread(t) \/ StartThread(t)
    \/ \E t \in Threads : Clone(t) \/ CloneFails(t)
    \/ CloneMismatch

----------------------------------------------------------------------------
(* Faults 0, 13 and 14: __kill_faulty_current_process destroys the current  *)
(* thread and the current process, and init is dispatched.                  *)

FaultRaised == "fault" \in Services /\ pc = "user"

Killable ==
    /\ Valid(current) /\ pvalid[curPid]
    /\ current # INIT_TID /\ curPid # INIT_TID

Fault ==
    /\ FaultRaised
    /\ Killable
    /\ pvalid' = [pvalid EXCEPT ![curPid] = FALSE]
    /\ current' = INIT_TID
    /\ IF state[INIT_TID] = "READY"
         THEN /\ state' = [state EXCEPT ![current] = "DESTROYED",
                                        ![INIT_TID] = "RUNNING"]
              /\ saved' = [saved EXCEPT ![INIT_TID] = FALSE]
              /\ left' \in Quanta
              /\ curPid' = INIT_TID
              /\ UNCHANGED <<pc, cause>>
         ELSE /\ state' = [state EXCEPT ![current] = "DESTROYED"]
              /\ Halt("dispatcher: state")
              /\ UNCHANGED <<saved, curPid, left>>
    /\ UNCHANGED <<owner, deferred, round, scan, locks, ds>>

FaultPanics ==
    /\ FaultRaised
    /\ ~Killable
    /\ Halt("excep: Could not kill")
    /\ UNCHANGED <<state, owner, saved, deferred, pvalid, cpu, locks, ds>>

\* panic() and die() never return.
Halted == pc = "halt" /\ UNCHANGED vars

Next == Kernel \/ Syscall \/ Fault \/ FaultPanics \/ Halted

Spec == Init /\ [][Next]_vars

\* The timer interrupts again and again, and its handler is not interrupted.
FairSpec == Spec /\ WF_vars(Kernel)

----------------------------------------------------------------------------
(* Properties.                                                              *)

\* The type invariant of the thread table, the processor and the handler.
TypeOK ==
    /\ state \in [Threads -> States]
    /\ owner \in [Threads -> Threads]
    /\ saved \in [Threads -> BOOLEAN]
    /\ sleepPhase \in [Threads -> 0 .. 2]
    /\ sleepLeft \in [Threads -> Nat]
    /\ exitReq \in [Threads -> BOOLEAN]
    /\ joinTgt \in [Threads -> Threads]
    /\ joinPend \in [Threads -> BOOLEAN]
    /\ blockReq \in [Threads -> BOOLEAN]
    /\ dsEvent \in [Threads -> BOOLEAN]
    /\ waitLoop \in [Threads -> BOOLEAN]
    /\ pvalid \in [Threads -> BOOLEAN]
    /\ current \in Threads
    /\ curPid \in Threads
    /\ round \in Seq(Threads)
    /\ left \in Nat
    /\ tsLocked \in BOOLEAN
    /\ schedLocked \in BOOLEAN
    /\ ds \in Threads \cup {NoThread}
    /\ pc \in {"user", "switch", "scan", "dispatch", "halt"}
    /\ scan \in 0 .. THREAD_COUNT_MAX
    /\ cause \in Causes

\* The task switcher dispatches the rest of a round without asking the
\* scheduler again, while exits, joins, sleeps, faults and spawns go on: every
\* thread that is still in the list is READY, and is not the one that runs.
RoundReady ==
    pc # "halt" => \A i \in 1 .. Len(round) :
        /\ state[round[i]] = "READY"
        /\ round[i] # INIT_TID
        /\ pc = "user" => round[i] # current

\* One thread is RUNNING while user code runs, the current one, whatever was
\* preempted, spawned, cloned or killed before.
OneRunning ==
    /\ \A t \in Threads : state[t] = "RUNNING" => t = current \/ pc = "halt"
    /\ pc = "user" => state[current] = "RUNNING"

\* The consistency checks of the switcher never fire: its list holds no
\* unusable thread ("Its not valid ... Not reached" in ts.c), the current
\* thread is valid, a spawned thread is new.  init can be dispatched after a
\* fault unless init sleeps, and a thread meets a dead process only after
\* a fault.
HaltExplained ==
    /\ cause \notin {"ts: Unexpected error", "ts: CurrentThread validation",
                     "spawn: Saved"}
    /\ cause = "dispatcher: state" => sleepPhase[INIT_TID] # 0
    /\ cause \in {"ts: CurrentProcess validation", "sci0: p validation",
                  "ts: TargetProcess validation"}
          => \E t \in Threads : state[t] = "DESTROYED"

\* A system call acts in the name of the current process: that is the owner of
\* the current thread ("The owner of the current thread", ts.c:392), through
\* every switch, spawn, clone and fault, except for a thread that is dispatched
\* with its sleep still in progress, for which init stands in (ts.c:884).
ActsAsOwner ==
    pc = "user" => \/ curPid = owner[current]
                   \/ curPid = INIT_TID /\ sleepPhase[current] # 0

\* A thread that was reaped or destroyed stays so: neither a sleep timer that
\* runs out later, nor a join, nor an event of the display server revives it.
DeadStayDead ==
    [][\A t \in Threads : state[t] \in {"REUSE", "DESTROYED"}
                             => state'[t] = state[t]]_vars

\* What a program sees of the thread table: Tasks.
Life(t) == IF Valid(t) THEN "alive" ELSE IF state[t] = "FREE" THEN "none" ELSE "dead"

Abstract == INSTANCE Tasks WITH
    Thread  <- Threads,
    Boot    <- INIT_TID,
    None    <- NoThread,
    life    <- [t \in Threads |-> Life(t)],
    proc    <- owner,
    open    <- {t \in Threads : pvalid[t]},
    asked   <- {t \in Threads : exitReq[t] \/ state[t] = "ZOMBIE"},
    running <- IF pc = "user" THEN current ELSE NoThread

\* The switcher, the scheduler, the deferred exit, the reaper, the spawner and
\* the fault handler together keep the promise of Tasks: nobody dies unasked,
\* an exit ends the threads of its process and of no other, a fault ends the
\* thread that faulted and closes its own process, and only the living run.
ImplementsTasks == Abstract!Spec

\* The system was stopped by a panic, or init holds the task switch lock.
Stopped == pc = "halt" \/ tsLocked

\* A READY thread gets the processor or leaves READY, unless the display
\* server notifies it (an event ends its visit by the scheduler early).
ReadyRuns ==
    \A t \in Threads : state[t] = "READY" ~>
        (state[t] # "READY" \/ dsEvent[t] \/ Stopped)

\* The scheduler ends every sleep, whatever happened to the sleeper since.
SleeperWakes ==
    \A t \in Threads : sleepPhase[t] = 2 ~>
        (sleepPhase[t] = 0 \/ dsEvent[t] \/ exitReq[t] \/ Stopped)

\* A deferred exit turns the thread into a ZOMBIE, and a ZOMBIE does not stay
\* one, unless the program calls exit again or the server notifies it.
ExitServed ==
    \A t \in Threads \ {INIT_TID} :
        /\ exitReq[t] ~>
              (state[t] = "ZOMBIE" \/ ~Valid(t) \/ dsEvent[t] \/ Stopped)
        /\ state[t] = "ZOMBIE" ~>
              (state[t] # "ZOMBIE" \/ exitReq[t] \/ dsEvent[t] \/ Stopped)

\* sched.c, of a thread that becomes ZOMBIE: "Nao sera mais selecionada pelo
\* scheduler."  It is only ever reaped.
ZombieNeverSelected ==
    [][\A t \in Threads : state[t] = "ZOMBIE"
                             => state'[t] \in {"ZOMBIE", "REUSE"}]_vars
=============================================================================
