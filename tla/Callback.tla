------------------------------ MODULE Callback ------------------------------
(***************************************************************************)
(* Ring-3 callbacks: a thread installs a handler (service 44000) and makes *)
(* itself alertable (44001); the end of the next tick that leaves it       *)
(* current goes to the handler instead of the thread, with interrupts      *)
(* disabled and before the tick is acknowledged to the interrupt           *)
(* controller; int 198 ends the handler and resumes the thread from the    *)
(* context that the tick left in global variables.                         *)
(*                                                                         *)
(* A tick is one step from its entry to iretq (per/hw1.asm, tsThreadSwitch,*)
(* per/hw2.asm).  Which thread __thread_switch selects is left open here;  *)
(* module Sched says which one it is.  The global f_callback_requested is  *)
(* set and cleared within that step and needs no variable.                 *)
(***************************************************************************)
EXTENDS Integers

CONSTANTS Thread,     \* the threads, each in a process of its own
          InitThread, \* the thread that a fault falls back to
          Handler,    \* the ring-3 addresses of handlers
          Null,       \* the address 0
          Points      \* the points of a thread's program, which is a loop

ASSUME InitAssumption == InitThread \in Thread
ASSUME NullAssumption == Null \notin Handler
ASSUME PointsAssumption == Points \in Nat \ {0}

VARIABLES
  cur,        \* lapic_info[0].current_tid
  mode,       \* the processor runs a thread, a handler, or has panicked
  run,        \* where the processor is: a point of a thread
  fpu,        \* whose FPU registers it has: the "thread"'s or the "handler"'s
  ctx,        \* the global _context variables
  saved,      \* the context in the structure of a thread
  locked,     \* task_switch_status
  inService,  \* the timer interrupt has not been acknowledged yet
  fresh,      \* threads that wait to be spawned
  dead,       \* threads that were destroyed
  waiting,    \* threads that the scheduler passes over
  handler,    \* t->cb_r3_address
  alertable,  \* t->is_alertable
  inProgress, \* t->callback_in_progress
  address,    \* ring3_callback_address
  done        \* the point a thread has reached (history)

cpuVars == <<cur, mode, run, fpu, ctx, saved, inService>>
cbVars == <<handler, alertable, inProgress, address>>
vars == <<cpuVars, cbVars, locked, fresh, dead, waiting, done>>

Point == 0..Points - 1
Context == [tid : Thread, at : Point, fpu : {"thread", "handler"}]
At(t, n) == [tid |-> t, at |-> n, fpu |-> "thread"]

\* init runs; the other threads have been created.
Init ==
  /\ cur = InitThread /\ mode = "user"
  /\ run = [tid |-> InitThread, at |-> 0]
  /\ fpu = "thread"
  /\ ctx = At(InitThread, 0)
  /\ saved = [t \in Thread |-> At(t, 0)]
  /\ locked = FALSE /\ inService = FALSE
  /\ fresh = Thread \ {InitThread} /\ dead = {} /\ waiting = {}
  /\ handler = [t \in Thread |-> Null]
  /\ alertable = [t \in Thread |-> FALSE]
  /\ inProgress = [t \in Thread |-> FALSE]
  /\ address = Null
  /\ done = [t \in Thread |-> 0]

-----------------------------------------------------------------------------
(* What runs in ring 3. *)

\* A step of the thread's own program.
Step ==
  /\ mode = "user"
  /\ run' = [run EXCEPT !.at = (@ + 1) % Points]
  /\ done' = [done EXCEPT ![run.tid] = run'.at]
  /\ UNCHANGED <<cur, mode, fpu, ctx, saved, inService, cbVars, locked, fresh, dead, waiting>>

\* A handler computes, with the registers of the FPU too.
HandlerStep ==
  /\ mode = "handler" /\ address # Null
  /\ fpu' = "handler"
  /\ UNCHANGED <<cur, mode, run, ctx, saved, inService, cbVars, locked, fresh, dead, waiting, done>>

InRing3 == mode = "user" \/ (mode = "handler" /\ address # Null)

\* Service 44000: any address is taken, also 0.
SetHandler(a) ==
  /\ InRing3
  /\ handler' = [handler EXCEPT ![cur] = a]
  /\ UNCHANGED <<cpuVars, alertable, inProgress, address, locked, fresh, dead, waiting, done>>

\* Service 44001, which a handler may call too.
Alert ==
  /\ InRing3
  /\ handler[cur] # Null
  /\ alertable' = [alertable EXCEPT ![cur] = TRUE]
  /\ UNCHANGED <<cpuVars, handler, inProgress, address, locked, fresh, dead, waiting, done>>

\* Services 640 and 641: init locks and unlocks the switcher.
Lock(b) ==
  /\ InRing3 /\ cur = InitThread
  /\ locked' = b
  /\ UNCHANGED <<cpuVars, cbVars, fresh, dead, waiting, done>>

-----------------------------------------------------------------------------
(* The timer interrupt. *)

\* The registers at the entry of the interrupt.
Entry == [tid |-> run.tid, at |-> run.at, fpu |-> fpu]

\* Mutant: a handler is called only when the thread was switched to.
ReleaseSwitched(u) ==
  /\ fpu' = ctx'.fpu
  /\ IF alertable[u] /\ u # cur
     THEN /\ alertable' = [alertable EXCEPT ![u] = FALSE]
          /\ inProgress' = [inProgress EXCEPT ![u] = TRUE]
          /\ address' = handler[u]
          /\ mode' = "handler" /\ run' = run
          /\ inService' = TRUE
     ELSE /\ mode' = "user" /\ run' = [tid |-> ctx'.tid, at |-> ctx'.at]
          /\ inService' = FALSE
          /\ UNCHANGED <<alertable, inProgress, address>>

\* The end of psTaskSwitch and irq0_release: an alertable thread u is left
\* for its handler, any other is resumed and the interrupt acknowledged.
Release(u) ==
  /\ fpu' = ctx'.fpu
  /\ IF alertable[u]
     THEN /\ alertable' = [alertable EXCEPT ![u] = FALSE]
          /\ inProgress' = [inProgress EXCEPT ![u] = TRUE]
          /\ address' = handler[u]
          /\ mode' = "handler" /\ run' = run
          /\ inService' = TRUE
     ELSE /\ mode' = "user" /\ run' = [tid |-> ctx'.tid, at |-> ctx'.at]
          /\ inService' = FALSE
          /\ UNCHANGED <<alertable, inProgress, address>>

\* A tick needs interrupts enabled, which they are in a thread only, and the
\* tick before acknowledged.
Interrupted == mode = "user" /\ ~ inService

TickLocked ==
  /\ Interrupted /\ locked
  /\ ctx' = Entry
  /\ Release(cur)
  /\ UNCHANGED <<cur, saved, locked, fresh, dead, waiting, handler, done>>

\* The context is saved before the choice of the next thread.
Saving ==
  /\ Interrupted /\ ~ locked /\ ~ inProgress[cur]
  /\ saved' = [saved EXCEPT ![cur] = Entry]

\* "ts: Cant save context. Callback in progress".
Panicked ==
  /\ Interrupted /\ ~ locked /\ inProgress[cur]
  /\ mode' = "save panic"
  /\ UNCHANGED <<run, fpu, ctx, saved, inService, alertable, inProgress, address>>

\* The round of the scheduler that a tick may end makes threads wait (a sleep,
\* a block, a join, an exit), wakes them up, or passes over one for an event of
\* the display server, but not thread u, which it selects.  init is always
\* there: a round that finds it asleep ends in a panic (module Sched).
Rescheduled(u) == waiting' \in SUBSET (Thread \ (fresh \cup dead \cup {InitThread, u}))

TickStay ==
  /\ IF inProgress[cur]
     THEN Panicked /\ UNCHANGED waiting
     ELSE Saving /\ ctx' = Entry /\ Release(cur) /\ Rescheduled(cur)
  /\ UNCHANGED <<cur, locked, fresh, dead, handler, done>>

\* The dispatcher loads the context of the next thread.
TickSwitch(u) ==
  /\ Saving
  /\ u \notin fresh \cup dead \cup {cur}
  /\ cur' = u
  /\ ctx' = saved[u]
  /\ Release(u)
  /\ Rescheduled(u)
  /\ UNCHANGED <<locked, fresh, dead, handler, done>>

\* A spawn acknowledges the interrupt itself and does not return here.
TickSpawn(u) ==
  /\ Saving
  /\ u \in fresh
  /\ fresh' = fresh \ {u}
  /\ cur' = u /\ run' = [tid |-> u, at |-> 0]
  /\ ctx' = Entry
  /\ Rescheduled(u)
  /\ UNCHANGED <<mode, fpu, inService, cbVars, locked, dead, done>>

-----------------------------------------------------------------------------
(* The end of a handler. *)

\* Mutant: the flag of the thread is not cleared.
RestorerForgets ==
  /\ InRing3
  /\ address' = Null
  /\ IF inProgress[cur]
     THEN /\ mode' = "user" /\ run' = [tid |-> ctx.tid, at |-> ctx.at]
          /\ inService' = FALSE
     ELSE mode' = "finalize panic" /\ UNCHANGED <<run, inService>>
  /\ UNCHANGED <<cur, fpu, ctx, saved, handler, alertable, inProgress, locked, fresh, dead, waiting, done>>

\* Mutant: the thread is resumed from its structure, not from the globals.
RestorerFromSaved ==
  /\ InRing3
  /\ address' = Null
  /\ inProgress' = [inProgress EXCEPT ![cur] = FALSE]
  /\ IF inProgress[cur]
     THEN /\ mode' = "user" /\ run' = [tid |-> saved[cur].tid, at |-> saved[cur].at]
          /\ inService' = FALSE
     ELSE mode' = "finalize panic" /\ UNCHANGED <<run, inService>>
  /\ UNCHANGED <<cur, fpu, ctx, saved, handler, alertable, locked, fresh, dead, waiting, done>>

\* Mutant: the tick that the handler ran in is not acknowledged.
RestorerSilent ==
  /\ InRing3
  /\ address' = Null
  /\ inProgress' = [inProgress EXCEPT ![cur] = FALSE]
  /\ IF inProgress[cur]
     THEN mode' = "user" /\ run' = [tid |-> ctx.tid, at |-> ctx.at]
     ELSE mode' = "finalize panic" /\ UNCHANGED run
  /\ UNCHANGED <<cur, fpu, ctx, saved, inService, handler, alertable, locked, fresh, dead, waiting, done>>

\* int 198 and callback_finalize: the general registers come back from the
\* globals and the tick is acknowledged; the FPU is left alone.  A thread that
\* is in no handler and calls it meets a panic.
Restorer ==
  /\ InRing3
  /\ address' = Null
  /\ inProgress' = [inProgress EXCEPT ![cur] = FALSE]
  /\ IF inProgress[cur]
     THEN /\ mode' = "user" /\ run' = [tid |-> ctx.tid, at |-> ctx.at]
          /\ inService' = FALSE
     ELSE mode' = "finalize panic" /\ UNCHANGED <<run, inService>>
  /\ UNCHANGED <<cur, fpu, ctx, saved, handler, alertable, locked, fresh, dead, waiting, done>>

\* Mutant: init is not spared.
FaultUnguarded ==
  /\ mode \in {"user", "handler"}
  /\ mode' = "user"
  /\ dead' = dead \cup {cur}
  /\ cur' = InitThread
  /\ ctx' = saved[InitThread]
  /\ run' = [tid |-> ctx'.tid, at |-> ctx'.at] /\ fpu' = ctx'.fpu
  /\ saved' = [saved EXCEPT ![cur] = Entry]
  /\ UNCHANGED <<inService, cbVars, locked, fresh, waiting, done>>

\* A fault destroys the thread, in its handler too, and resumes init.  The
\* timer interrupt that a handler runs in is not acknowledged.
Fault ==
  /\ mode \in {"user", "handler"}
  /\ IF cur = InitThread
     THEN mode' = "fault panic" /\ UNCHANGED <<cur, run, fpu, ctx, dead>>
     ELSE /\ mode' = "user"
          /\ dead' = dead \cup {cur}
          /\ cur' = InitThread
          /\ ctx' = saved[InitThread]
          /\ run' = [tid |-> ctx'.tid, at |-> ctx'.at] /\ fpu' = ctx'.fpu
  /\ saved' = [saved EXCEPT ![cur] = Entry]
  /\ UNCHANGED <<inService, cbVars, locked, fresh, waiting, done>>

-----------------------------------------------------------------------------
Tick ==
  \/ TickLocked \/ TickStay
  \/ \E u \in Thread : TickSwitch(u) \/ TickSpawn(u)

Next ==
  \/ Step \/ HandlerStep \/ Alert
  \/ \E a \in Handler \cup {Null} : SetHandler(a)
  \/ \E b \in BOOLEAN : Lock(b)
  \/ Tick \/ Restorer \/ Fault

Spec == Init /\ [][Next]_vars

\* The timer interrupts for ever, a handler ends, and the scheduler comes round
\* to a thread that stays READY while the switcher is not locked (ReadyRuns of
\* module Sched); nothing is assumed for a thread that waits again and again.
Fairness ==
  /\ WF_vars(Tick)
  /\ \A u \in Thread : []<>(u \in waiting \/ locked) \/ SF_vars(TickSwitch(u))
  /\ WF_vars(mode = "handler" /\ Restorer)

FairSpec == Spec /\ Fairness

-----------------------------------------------------------------------------
(* Properties *)

\* Every variable has its type, and init is never destroyed.
TypeOK ==
  /\ cur \in Thread
  /\ mode \in {"user", "handler", "save panic", "finalize panic", "fault panic"}
  /\ run \in [tid : Thread, at : Point]
  /\ fpu \in {"thread", "handler"}
  /\ ctx \in Context
  /\ saved \in [Thread -> Context]
  /\ locked \in BOOLEAN /\ inService \in BOOLEAN
  /\ fresh \subseteq Thread /\ dead \subseteq Thread \ {InitThread}
  /\ waiting \subseteq Thread \ {InitThread}
  /\ handler \in [Thread -> Handler \cup {Null}]
  /\ alertable \in [Thread -> BOOLEAN]
  /\ inProgress \in [Thread -> BOOLEAN]
  /\ address \in Handler \cup {Null}
  /\ done \in [Thread -> Point]

\* A thread that runs is at the point it had reached, whatever ticks, locked
\* ticks, handlers, switches and faults came in between.
ResumesWhereItWas == mode = "user" => run = [tid |-> cur, at |-> done[cur]]

\* The switcher never finds the current thread in its handler: the panic of
\* __thread_switch that protects the context of the restorer is not reached.
NeverSavedInHandler == mode # "save panic"

\* The timer falls silent under a running thread for one reason only: some
\* thread was destroyed by a fault inside its handler, before the restorer
\* could acknowledge the tick for it.
SilentOnlyAfterFault ==
  mode = "user" /\ inService => \E t \in dead : inProgress[t]

\* "Otherwise, the assembly epilogue will send the EOI automatically"
\* (pit.c:241): whichever way a tick is left, it was acknowledged when a
\* thread runs again.
AcknowledgedWhenResumed == mode = "user" => ~ inService

\* The context that a handler interrupted is resumed: "retornarmos para ring
\* 3 com o contexto o ultimo contexto salvo" (sw2.asm:161).
ContextRestored == mode = "user" => fpu = "thread"

\* An alertable thread gets its callback, unless it blocks, sleeps, joins or
\* exits or the switcher is locked, again and again or for good, or a fault or
\* a misuse ends the thread, the timer or the system.
AlertServed ==
  \A t \in Thread : alertable[t] ~> \/ ~ alertable[t]
                                    \/ t \in waiting \cup dead
                                    \/ locked
                                    \/ mode \notin {"user", "handler"}
                                    \/ mode = "user" /\ inService
                                    \/ mode = "handler" /\ address = Null
=============================================================================
