--------------------------- MODULE CallbackProofs ---------------------------
(***************************************************************************)
(* Proofs for every number of threads, handlers and program points: a      *)
(* thread that runs is where it was, and the switcher never finds the      *)
(* current thread in its handler.                                          *)
(***************************************************************************)
EXTENDS Callback, TLAPS

\* The point of its program that a context holds is the one the thread has
\* reached.
Holds(x, t) == x.tid = t /\ x.at = done[t]

\* Threads that wait to be spawned have not started, and live.
FreshNotStarted ==
  /\ InitThread \notin fresh /\ cur \notin fresh \cup dead
  /\ fresh \cap dead = {}
  /\ \A t \in fresh : done[t] = 0

\* The context of every thread that may be dispatched is in its structure.
SavedIsDone == \A t \in Thread \ dead : t # cur => Holds(saved[t], t)

\* While a handler runs, the globals hold the context of its thread.
GlobalsHold == mode = "handler" => Holds(ctx, cur)

\* A callback is in progress for the current thread, in its handler, only.
ProgressIsHandler == \A t \in Thread \ dead : inProgress[t] <=> mode = "handler" /\ t = cur

\* The inductive invariant; in a panic nothing is promised but the types.
IInv ==
  /\ TypeOK
  /\ mode # "save panic"
  /\ mode \in {"user", "handler"} =>
       ResumesWhereItWas /\ FreshNotStarted /\ SavedIsDone /\ GlobalsHold /\ ProgressIsHandler

USE InitAssumption, NullAssumption, PointsAssumption

\* The points of a program are natural numbers, 0 is one, and a step leads
\* to one.
LEMMA PointFacts == 0 \in Point /\ \A n \in Point : (n + 1) % Points \in Point
BY DEF Point

\* In the initial state every thread is at its first point.
LEMMA InitIInv == Init => IInv
<1>1. SUFFICES ASSUME Init PROVE IInv
  OBVIOUS
<1>2. TypeOK
  BY <1>1, PointFacts DEF Init, TypeOK, At, Context
<1>3. QED
  BY <1>1, <1>2 DEF Init, IInv, ResumesWhereItWas, FreshNotStarted, SavedIsDone,
     GlobalsHold, ProgressIsHandler, Holds, At

\* A context is well typed at the entry of an interrupt.
LEMMA EntryType == TypeOK => Entry \in Context
BY DEF TypeOK, Entry, Context

\* The end of a tick keeps the types.
LEMMA ReleaseType ==
  ASSUME NEW u \in Thread, TypeOK, ctx' \in Context, Release(u)
  PROVE  /\ fpu' \in {"thread", "handler"}
         /\ mode' \in {"user", "handler"}
         /\ run' \in [tid : Thread, at : Point]
         /\ inService' \in BOOLEAN
         /\ alertable' \in [Thread -> BOOLEAN]
         /\ inProgress' \in [Thread -> BOOLEAN]
         /\ address' \in Handler \cup {Null}
<1>0. /\ alertable \in [Thread -> BOOLEAN] /\ inProgress \in [Thread -> BOOLEAN]
      /\ handler \in [Thread -> Handler \cup {Null}] /\ address \in Handler \cup {Null}
      /\ run \in [tid : Thread, at : Point]
  BY DEF TypeOK
<1>1. CASE alertable[u]
  <2>1. /\ alertable' = [alertable EXCEPT ![u] = FALSE]
        /\ inProgress' = [inProgress EXCEPT ![u] = TRUE]
        /\ address' = handler[u] /\ mode' = "handler" /\ run' = run
        /\ inService' = TRUE /\ fpu' = ctx'.fpu
    BY <1>1 DEF Release
  <2>2. alertable' \in [Thread -> BOOLEAN] /\ inProgress' \in [Thread -> BOOLEAN]
    BY <1>0, <2>1
  <2>3. QED
    BY <1>0, <2>1, <2>2 DEF Context
<1>2. CASE ~ alertable[u]
  <2>1. /\ mode' = "user" /\ run' = [tid |-> ctx'.tid, at |-> ctx'.at]
        /\ inService' = FALSE /\ fpu' = ctx'.fpu
        /\ alertable' = alertable /\ inProgress' = inProgress /\ address' = address
    BY <1>2 DEF Release
  <2>2. QED
    BY <1>0, <2>1 DEF Context
<1>3. QED
  BY <1>1, <1>2

\* The round of the scheduler leaves init and the selected thread alone.
LEMMA RescheduledType ==
  ASSUME NEW u \in Thread, Rescheduled(u)
  PROVE  waiting' \subseteq Thread \ {InitThread}
BY DEF Rescheduled

\* Every step keeps the types.
LEMMA NextType == TypeOK /\ [Next]_vars => TypeOK'
<1>1. SUFFICES ASSUME TypeOK, [Next]_vars PROVE TypeOK'
  OBVIOUS
<1>2. CASE Step
  <2>1. run' \in [tid : Thread, at : Point] /\ run.tid \in Thread /\ run'.at \in Point
    BY <1>1, <1>2, PointFacts DEF Step, TypeOK
  <2>2. QED
    BY <1>1, <1>2, <2>1 DEF Step, TypeOK, cbVars
<1>3. CASE HandlerStep
  BY <1>1, <1>3 DEF HandlerStep, TypeOK, cbVars
<1>4. CASE Alert
  BY <1>1, <1>4 DEF Alert, TypeOK, cpuVars
<1>5. ASSUME NEW a \in Handler \cup {Null}, SetHandler(a) PROVE TypeOK'
  BY <1>1, <1>5 DEF SetHandler, TypeOK, cpuVars
<1>6. ASSUME NEW b \in BOOLEAN, Lock(b) PROVE TypeOK'
  BY <1>1, <1>6 DEF Lock, TypeOK, cpuVars, cbVars
<1>7. CASE TickLocked
  <2>1. ctx' \in Context
    BY <1>1, <1>7, EntryType DEF TickLocked
  <2>2. cur \in Thread
    BY <1>1 DEF TypeOK
  <2>3. QED
    BY <1>1, <1>7, <2>1, <2>2, ReleaseType DEF TickLocked, TypeOK
<1>8. CASE TickStay
  <2>1. CASE inProgress[cur]
    BY <1>1, <1>8, <2>1 DEF TickStay, Panicked, TypeOK
  <2>2. CASE ~ inProgress[cur]
    <3>0. Saving /\ ctx' = Entry /\ Release(cur) /\ Rescheduled(cur)
      BY <1>8, <2>2 DEF TickStay
    <3>1. ctx' \in Context /\ Release(cur) /\ cur \in Thread /\ saved' \in [Thread -> Context]
      BY <1>1, <3>0, EntryType DEF Saving, TypeOK
    <3>2. /\ fpu' \in {"thread", "handler"} /\ mode' \in {"user", "handler"}
          /\ run' \in [tid : Thread, at : Point] /\ inService' \in BOOLEAN
          /\ alertable' \in [Thread -> BOOLEAN] /\ inProgress' \in [Thread -> BOOLEAN]
          /\ address' \in Handler \cup {Null}
      BY <1>1, <3>1, ReleaseType
    <3>3. UNCHANGED <<cur, locked, fresh, dead, handler, done>>
      BY <1>8 DEF TickStay
    <3>4. waiting' \subseteq Thread \ {InitThread}
      BY <3>0, <3>1, RescheduledType
    <3>5. QED
      BY <1>1, <3>1, <3>2, <3>3, <3>4 DEF TypeOK
  <2>3. QED
    BY <2>1, <2>2
<1>9. ASSUME NEW u \in Thread, TickSwitch(u) PROVE TypeOK'
  <2>1. ctx' \in Context /\ Release(u) /\ saved' \in [Thread -> Context]
    BY <1>1, <1>9, EntryType DEF TickSwitch, Saving, TypeOK
  <2>2. waiting' \subseteq Thread \ {InitThread}
    BY <1>9, RescheduledType DEF TickSwitch
  <2>3. QED
    BY <1>1, <1>9, <2>1, <2>2, ReleaseType DEF TickSwitch, TypeOK
<1>10. ASSUME NEW u \in Thread, TickSpawn(u) PROVE TypeOK'
  <2>1. ctx' \in Context /\ saved' \in [Thread -> Context]
    BY <1>1, <1>10, EntryType DEF TickSpawn, Saving, TypeOK
  <2>2. waiting' \subseteq Thread \ {InitThread}
    BY <1>10, RescheduledType DEF TickSpawn
  <2>3. QED
    BY <1>1, <1>10, <2>1, <2>2, PointFacts DEF TickSpawn, TypeOK, cbVars
<1>11. CASE Restorer
  <2>1. /\ inProgress' \in [Thread -> BOOLEAN] /\ address' \in Handler \cup {Null}
        /\ alertable' \in [Thread -> BOOLEAN]
    BY <1>1, <1>11 DEF Restorer, TypeOK
  <2>2. CASE inProgress[cur]
    <3>1. mode' = "user" /\ run' = [tid |-> ctx.tid, at |-> ctx.at] /\ inService' = FALSE
      BY <1>11, <2>2 DEF Restorer
    <3>2. run' \in [tid : Thread, at : Point]
      BY <1>1, <3>1 DEF TypeOK, Context
    <3>3. UNCHANGED <<cur, fpu, ctx, saved, handler, alertable, locked, fresh, dead, waiting, done>>
      BY <1>11 DEF Restorer
    <3>4. QED
      BY <1>1, <2>1, <3>1, <3>2, <3>3 DEF TypeOK
  <2>3. CASE ~ inProgress[cur]
    BY <1>1, <1>11, <2>1, <2>3 DEF Restorer, TypeOK
  <2>4. QED
    BY <2>2, <2>3
<1>12. CASE Fault
  <2>1. saved' \in [Thread -> Context] /\ saved[InitThread] \in Context
    BY <1>1, <1>12, EntryType DEF Fault, TypeOK
  <2>2. UNCHANGED <<inService, cbVars, locked, fresh, waiting, done>> /\ cur \in Thread
    BY <1>1, <1>12 DEF Fault, TypeOK
  <2>3. CASE cur = InitThread
    BY <1>1, <1>12, <2>1, <2>2, <2>3 DEF Fault, TypeOK, cbVars
  <2>4. CASE cur # InitThread
    <3>1. /\ mode' = "user" /\ dead' = dead \cup {cur} /\ cur' = InitThread
          /\ ctx' = saved[InitThread]
          /\ run' = [tid |-> ctx'.tid, at |-> ctx'.at] /\ fpu' = ctx'.fpu
      BY <1>12, <2>4 DEF Fault
    <3>2. run' \in [tid : Thread, at : Point] /\ fpu' \in {"thread", "handler"}
      BY <2>1, <3>1 DEF Context
    <3>3. dead' \subseteq Thread \ {InitThread}
      BY <1>1, <2>4, <3>1 DEF TypeOK
    <3>4. QED
      BY <1>1, <2>1, <2>2, <3>1, <3>2, <3>3 DEF TypeOK, cbVars
  <2>5. QED
    BY <2>3, <2>4
<1>13. CASE UNCHANGED vars
  BY <1>1, <1>13 DEF TypeOK, vars, cpuVars, cbVars
<1>14. QED
  BY <1>1, <1>2, <1>3, <1>4, <1>5, <1>6, <1>7, <1>8, <1>9, <1>10, <1>11, <1>12, <1>13
     DEF Next, Tick

\* Every tick that is released leaves the thread at its point, in its
\* handler or out of it.
LEMMA ReleaseKeeps ==
  ASSUME NEW u \in Thread, TypeOK, ctx' \in Context, cur' = u, done' = done,
         dead' = dead, u \notin dead,
         Holds(ctx', u), Release(u),
         \A t \in Thread \ dead : ~ inProgress[t]
  PROVE  ResumesWhereItWas' /\ GlobalsHold' /\ ProgressIsHandler' /\ mode' # "save panic"
<1>0. ctx'.tid = u /\ ctx'.at = done[u]
  BY DEF Holds
<1>a. inProgress \in [Thread -> BOOLEAN]
  BY DEF TypeOK
<1>1. CASE alertable[u]
  <2>1. inProgress' = [inProgress EXCEPT ![u] = TRUE] /\ mode' = "handler"
    BY <1>1 DEF Release
  <2>2. ProgressIsHandler'
    BY <1>a, <2>1 DEF ProgressIsHandler
  <2>3. QED
    BY <1>0, <2>1, <2>2 DEF ResumesWhereItWas, GlobalsHold, Holds
<1>2. CASE ~ alertable[u]
  <2>1. /\ inProgress' = inProgress /\ mode' = "user"
        /\ run' = [tid |-> ctx'.tid, at |-> ctx'.at]
    BY <1>2 DEF Release
  <2>2. ProgressIsHandler'
    BY <1>a, <2>1 DEF ProgressIsHandler
  <2>3. QED
    BY <1>0, <2>1, <2>2 DEF ResumesWhereItWas, GlobalsHold
<1>3. QED
  BY <1>1, <1>2

\* In a thread no callback is in progress, and the registers are those of
\* the thread.
LEMMA InterruptedFacts ==
  ASSUME IInv, Interrupted
  PROVE  /\ ResumesWhereItWas /\ FreshNotStarted /\ SavedIsDone /\ TypeOK
         /\ \A t \in Thread \ dead : ~ inProgress[t]
         /\ Holds(Entry, cur) /\ Entry \in Context
         /\ cur \in Thread \ dead /\ ~ inProgress[cur]
<1>1. /\ TypeOK /\ mode = "user" /\ ResumesWhereItWas /\ FreshNotStarted
      /\ SavedIsDone /\ ProgressIsHandler
  BY DEF IInv, Interrupted
<1>2. Holds(Entry, cur) /\ Entry \in Context
  BY <1>1, EntryType DEF ResumesWhereItWas, Holds, Entry
<1>3. \A t \in Thread \ dead : ~ inProgress[t]
  BY <1>1 DEF ProgressIsHandler
<1>4. cur \in Thread \ dead
  BY <1>1 DEF TypeOK, FreshNotStarted
<1>5. QED
  BY <1>1, <1>2, <1>3, <1>4

\* A tick of the locked switcher.
LEMMA LockedIInv == ASSUME IInv, TypeOK', TickLocked PROVE IInv'
<1>1. Interrupted /\ ctx' = Entry /\ Release(cur)
      /\ UNCHANGED <<cur, saved, fresh, dead, done>>
  BY DEF TickLocked
<1>2. ResumesWhereItWas' /\ GlobalsHold' /\ ProgressIsHandler' /\ mode' # "save panic"
  BY <1>1, InterruptedFacts, ReleaseKeeps DEF Holds
<1>3. FreshNotStarted' /\ SavedIsDone'
  BY <1>1, InterruptedFacts DEF FreshNotStarted, SavedIsDone, Holds
<1>4. QED
  BY <1>2, <1>3 DEF IInv

\* A tick that leaves the thread current.
LEMMA StayIInv == ASSUME IInv, TypeOK', TickStay PROVE IInv'
<1>1. Interrupted
  <2>1. CASE inProgress[cur]
    BY <2>1 DEF TickStay, Panicked
  <2>2. CASE ~ inProgress[cur]
    BY <2>2 DEF TickStay, Saving
  <2>3. QED
    BY <2>1, <2>2
<1>2. ~ inProgress[cur]
  BY <1>1, InterruptedFacts
<1>3. Saving /\ ctx' = Entry /\ Release(cur) /\ UNCHANGED <<cur, fresh, dead, done>>
  BY <1>2 DEF TickStay
<1>4. ResumesWhereItWas' /\ GlobalsHold' /\ ProgressIsHandler' /\ mode' # "save panic"
  BY <1>1, <1>3, InterruptedFacts, ReleaseKeeps DEF Holds
<1>5. FreshNotStarted'
  BY <1>1, <1>3, InterruptedFacts DEF FreshNotStarted
<1>6. SavedIsDone'
  <2>1. saved' = [saved EXCEPT ![cur] = Entry] /\ saved \in [Thread -> Context]
    BY <1>1, <1>3, InterruptedFacts DEF Saving, TypeOK
  <2>2. QED
    BY <1>1, <1>3, <2>1, InterruptedFacts DEF SavedIsDone, Holds
<1>7. QED
  BY <1>4, <1>5, <1>6 DEF IInv

\* A tick that switches to thread u.
LEMMA SwitchIInv == ASSUME IInv, TypeOK', NEW u \in Thread, TickSwitch(u) PROVE IInv'
<1>1. /\ Interrupted /\ u \notin fresh \cup dead \cup {cur} /\ cur' = u
      /\ ctx' = saved[u] /\ Release(u) /\ UNCHANGED <<fresh, dead, done>>
      /\ saved' = [saved EXCEPT ![cur] = Entry]
  BY DEF TickSwitch, Saving
<1>2. Holds(saved[u], u) /\ saved \in [Thread -> Context] /\ ctx' \in Context
  BY <1>1, InterruptedFacts DEF SavedIsDone, TypeOK
<1>3. Holds(ctx', u)
  BY <1>1, <1>2
<1>4. ResumesWhereItWas' /\ GlobalsHold' /\ ProgressIsHandler' /\ mode' # "save panic"
  BY <1>1, <1>2, <1>3, InterruptedFacts, ReleaseKeeps
<1>5. FreshNotStarted'
  BY <1>1, InterruptedFacts DEF FreshNotStarted
<1>6. SavedIsDone'
  <2>1. SUFFICES ASSUME NEW t \in Thread \ dead, t # u PROVE saved'[t].tid = t /\ saved'[t].at = done[t]
    BY <1>1 DEF SavedIsDone, Holds
  <2>2. CASE t = cur
    BY <1>1, <1>2, <2>2, InterruptedFacts DEF Holds
  <2>3. CASE t # cur
    BY <1>1, <1>2, <2>1, <2>3, InterruptedFacts DEF SavedIsDone, Holds
  <2>4. QED
    BY <2>2, <2>3
<1>7. QED
  BY <1>4, <1>5, <1>6 DEF IInv

\* A tick that spawns thread u.
LEMMA SpawnIInv == ASSUME IInv, TypeOK', NEW u \in Thread, TickSpawn(u) PROVE IInv'
<1>1. /\ Interrupted /\ u \in fresh /\ cur' = u /\ fresh' = fresh \ {u}
      /\ run' = [tid |-> u, at |-> 0] /\ mode' = mode
      /\ inProgress' = inProgress /\ dead' = dead /\ done' = done
      /\ saved' = [saved EXCEPT ![cur] = Entry]
  BY DEF TickSpawn, Saving, cbVars
<1>2. mode = "user" /\ saved \in [Thread -> Context]
  BY <1>1, InterruptedFacts DEF Interrupted, TypeOK
<1>3. done[u] = 0 /\ u # cur /\ u \notin dead
  BY <1>1, InterruptedFacts DEF FreshNotStarted
<1>4. FreshNotStarted'
  BY <1>1, <1>3, InterruptedFacts DEF FreshNotStarted
<1>5. SavedIsDone'
  <2>1. SUFFICES ASSUME NEW t \in Thread \ dead, t # u PROVE saved'[t].tid = t /\ saved'[t].at = done[t]
    BY <1>1 DEF SavedIsDone, Holds
  <2>2. CASE t = cur
    BY <1>1, <1>2, <2>2, InterruptedFacts DEF Holds
  <2>3. CASE t # cur
    BY <1>1, <1>2, <2>1, <2>3, InterruptedFacts DEF SavedIsDone, Holds
  <2>4. QED
    BY <2>2, <2>3
<1>6. ResumesWhereItWas' /\ GlobalsHold' /\ mode' # "save panic"
  BY <1>1, <1>2, <1>3 DEF ResumesWhereItWas, GlobalsHold
<1>7. ProgressIsHandler'
  BY <1>1, <1>2, InterruptedFacts DEF ProgressIsHandler
<1>8. QED
  BY <1>4, <1>5, <1>6, <1>7 DEF IInv

\* The services and the steps of ring 3 keep the contexts as they are.
LEMMA Ring3IInv ==
  ASSUME IInv, TypeOK',
         Step \/ HandlerStep \/ Alert \/ (\E a \in Handler \cup {Null} : SetHandler(a))
           \/ (\E b \in BOOLEAN : Lock(b)) \/ UNCHANGED vars
  PROVE  IInv'
<1>1. CASE Step
  <2>1. /\ mode = "user" /\ mode' = "user" /\ cur' = cur
        /\ run' = [run EXCEPT !.at = (@ + 1) % Points]
        /\ done' = [done EXCEPT ![run.tid] = run'.at]
        /\ UNCHANGED <<ctx, saved, inProgress, fresh, dead>>
    BY <1>1 DEF Step, cbVars
  <2>2. /\ ResumesWhereItWas /\ FreshNotStarted /\ SavedIsDone /\ ProgressIsHandler
        /\ cur \in Thread /\ run \in [tid : Thread, at : Point] /\ done \in [Thread -> Point]
        /\ fresh \subseteq Thread
    BY <2>1 DEF IInv, TypeOK
  <2>3. run.tid = cur
    BY <2>1, <2>2 DEF ResumesWhereItWas
  <2>4. \A t \in Thread : t # cur => done'[t] = done[t]
    BY <2>1, <2>2, <2>3
  <2>5. ResumesWhereItWas'
    BY <2>1, <2>2, <2>3 DEF ResumesWhereItWas
  <2>6. FreshNotStarted'
    BY <2>1, <2>2, <2>4 DEF FreshNotStarted
  <2>7. SavedIsDone'
    BY <2>1, <2>2, <2>4 DEF SavedIsDone, Holds
  <2>8. ProgressIsHandler' /\ GlobalsHold'
    BY <2>1, <2>2 DEF ProgressIsHandler, GlobalsHold
  <2>9. QED
    BY <2>1, <2>5, <2>6, <2>7, <2>8 DEF IInv
<1>2. CASE UNCHANGED <<cur, mode, run, ctx, saved, inProgress, fresh, dead, done>>
  BY <1>2 DEF IInv, ResumesWhereItWas, FreshNotStarted, SavedIsDone, GlobalsHold,
     ProgressIsHandler, Holds
<1>3. CASE ~ Step
  BY <1>2, <1>3 DEF HandlerStep, Alert, SetHandler, Lock, vars, cpuVars, cbVars
<1>4. QED
  BY <1>1, <1>3

\* The restorer.
LEMMA RestorerIInv == ASSUME IInv, TypeOK', Restorer PROVE IInv'
<1>1. /\ TypeOK /\ ResumesWhereItWas /\ FreshNotStarted /\ SavedIsDone /\ GlobalsHold
      /\ ProgressIsHandler
  BY DEF IInv, Restorer, InRing3
<1>2. /\ inProgress \in [Thread -> BOOLEAN]
      /\ inProgress' = [inProgress EXCEPT ![cur] = FALSE]
      /\ UNCHANGED <<cur, saved, fresh, dead, done>>
      /\ cur \in Thread /\ cur \notin dead
  BY <1>1 DEF Restorer, TypeOK, FreshNotStarted
<1>3. CASE inProgress[cur]
  <2>1. mode' = "user" /\ run' = [tid |-> ctx.tid, at |-> ctx.at]
    BY <1>3 DEF Restorer
  <2>2. mode = "handler" /\ Holds(ctx, cur)
    BY <1>1, <1>2, <1>3 DEF ProgressIsHandler, GlobalsHold
  <2>3. ResumesWhereItWas' /\ GlobalsHold'
    BY <1>2, <2>1, <2>2 DEF ResumesWhereItWas, Holds, GlobalsHold
  <2>4. ProgressIsHandler'
    BY <1>1, <1>2, <2>1 DEF ProgressIsHandler
  <2>5. FreshNotStarted' /\ SavedIsDone'
    BY <1>1, <1>2 DEF FreshNotStarted, SavedIsDone, Holds
  <2>6. QED
    BY <2>1, <2>3, <2>4, <2>5 DEF IInv
<1>4. CASE ~ inProgress[cur]
  <2>1. mode' = "finalize panic"
    BY <1>4 DEF Restorer
  <2>2. QED
    BY <2>1 DEF IInv
<1>5. QED
  BY <1>3, <1>4

\* A fault.
LEMMA FaultIInv == ASSUME IInv, TypeOK', Fault PROVE IInv'
<1>1. /\ TypeOK /\ FreshNotStarted /\ SavedIsDone /\ ProgressIsHandler
      /\ UNCHANGED <<fresh, done, inProgress>>
      /\ saved' = [saved EXCEPT ![cur] = Entry] /\ saved \in [Thread -> Context]
  BY DEF IInv, Fault, TypeOK, cbVars
<1>2. CASE cur = InitThread
  <2>1. mode' = "fault panic"
    BY <1>2 DEF Fault
  <2>2. QED
    BY <2>1 DEF IInv
<1>3. CASE cur # InitThread
  <2>1. /\ mode' = "user" /\ dead' = dead \cup {cur} /\ cur' = InitThread
        /\ ctx' = saved[InitThread] /\ run' = [tid |-> ctx'.tid, at |-> ctx'.at]
    BY <1>3 DEF Fault
  <2>2. InitThread \notin dead /\ cur \notin fresh \cup dead /\ InitThread \notin fresh
    BY <1>1 DEF TypeOK, FreshNotStarted
  <2>3. Holds(saved[InitThread], InitThread)
    BY <1>1, <1>3, <2>2 DEF SavedIsDone
  <2>4. ResumesWhereItWas' /\ GlobalsHold'
    BY <1>1, <2>1, <2>3 DEF ResumesWhereItWas, GlobalsHold, Holds
  <2>5. FreshNotStarted'
    BY <1>1, <1>3, <2>1, <2>2 DEF FreshNotStarted
  <2>6. SavedIsDone'
    BY <1>1, <2>1 DEF SavedIsDone, Holds
  <2>7. ProgressIsHandler'
    BY <1>1, <2>1 DEF ProgressIsHandler
  <2>8. QED
    BY <2>1, <2>4, <2>5, <2>6, <2>7 DEF IInv
<1>4. QED
  BY <1>2, <1>3

\* Every step keeps the invariant.
LEMMA NextIInv == IInv /\ [Next]_vars => IInv'
<1>1. SUFFICES ASSUME IInv, [Next]_vars PROVE IInv'
  OBVIOUS
<1>2. TypeOK'
  BY <1>1, NextType DEF IInv
<1>3. QED
  BY <1>1, <1>2, LockedIInv, StayIInv, SwitchIInv, SpawnIInv, Ring3IInv, RestorerIInv, FaultIInv
     DEF Next, Tick

\* Type correctness: the structures of the callback support keep their types
\* and init is never destroyed.
THEOREM CallbackTypeOK == Spec => []TypeOK
<1>1. IInv => TypeOK
  BY DEF IInv
<1>2. QED
  BY <1>1, InitIInv, NextIInv, PTL DEF Spec

\* A thread that runs is where it was: the restorer, the switcher and the
\* fault handler restore the general registers of the right thread, whatever
\* came in between.
THEOREM CallbackResumes == Spec => []ResumesWhereItWas
<1>1. IInv => ResumesWhereItWas
  BY DEF IInv, ResumesWhereItWas
<1>2. QED
  BY <1>1, InitIInv, NextIInv, PTL DEF Spec

\* __thread_switch never meets its panic over a callback in progress.
THEOREM CallbackNeverSaved == Spec => []NeverSavedInHandler
<1>1. IInv => NeverSavedInHandler
  BY DEF IInv, NeverSavedInHandler
<1>2. QED
  BY <1>1, InitIInv, NextIInv, PTL DEF Spec
\* A release that resumes a thread acknowledges the tick.
LEMMA ReleaseAcknowledges ==
  ASSUME NEW u, Release(u) PROVE SilentOnlyAfterFault'
<1>1. CASE alertable[u]
  <2>1. mode' = "handler"
    BY <1>1 DEF Release
  <2>2. QED
    BY <2>1 DEF SilentOnlyAfterFault
<1>2. CASE ~ alertable[u]
  <2>1. inService' = FALSE
    BY <1>2 DEF Release
  <2>2. QED
    BY <2>1 DEF SilentOnlyAfterFault
<1>3. QED
  BY <1>1, <1>2

\* A step silences the timer only by destroying a thread in its handler, and
\* the flag of a destroyed thread is left alone for ever.
LEMMA SilentKept ==
  ASSUME IInv, SilentOnlyAfterFault, [Next]_vars PROVE SilentOnlyAfterFault'
<1>1. CASE UNCHANGED <<mode, inService, dead, inProgress>>
  BY <1>1 DEF SilentOnlyAfterFault
<1>2. CASE Step \/ HandlerStep \/ Alert \/ UNCHANGED vars
  BY <1>1, <1>2 DEF Step, HandlerStep, Alert, vars, cpuVars, cbVars
<1>3. ASSUME NEW a \in Handler \cup {Null}, SetHandler(a) PROVE SilentOnlyAfterFault'
  BY <1>1, <1>3 DEF SetHandler, cpuVars
<1>4. ASSUME NEW b \in BOOLEAN, Lock(b) PROVE SilentOnlyAfterFault'
  BY <1>1, <1>4 DEF Lock, cpuVars, cbVars
<1>5. CASE TickLocked
  BY <1>5, ReleaseAcknowledges DEF TickLocked
<1>6. CASE TickStay
  <2>1. CASE inProgress[cur]
    <3>1. mode' = "save panic"
      BY <1>6, <2>1 DEF TickStay, Panicked
    <3>2. QED
      BY <3>1 DEF SilentOnlyAfterFault
  <2>2. CASE ~ inProgress[cur]
    BY <1>6, <2>2, ReleaseAcknowledges DEF TickStay
  <2>3. QED
    BY <2>1, <2>2
<1>7. ASSUME NEW u \in Thread, TickSwitch(u) PROVE SilentOnlyAfterFault'
  BY <1>7, ReleaseAcknowledges DEF TickSwitch
<1>8. ASSUME NEW u \in Thread, TickSpawn(u) PROVE SilentOnlyAfterFault'
  BY <1>1, <1>8 DEF TickSpawn, cbVars
<1>9. CASE Restorer
  <2>1. CASE inProgress[cur]
    <3>1. inService' = FALSE
      BY <1>9, <2>1 DEF Restorer
    <3>2. QED
      BY <3>1 DEF SilentOnlyAfterFault
  <2>2. CASE ~ inProgress[cur]
    <3>1. mode' = "finalize panic"
      BY <1>9, <2>2 DEF Restorer
    <3>2. QED
      BY <3>1 DEF SilentOnlyAfterFault
  <2>3. QED
    BY <2>1, <2>2
<1>10. CASE Fault
  <2>1. /\ mode \in {"user", "handler"} /\ inService' = inService
        /\ inProgress' = inProgress
    BY <1>10 DEF Fault, cbVars
  <2>2. CASE cur = InitThread
    <3>1. mode' = "fault panic"
      BY <1>10, <2>2 DEF Fault
    <3>2. QED
      BY <3>1 DEF SilentOnlyAfterFault
  <2>3. CASE cur # InitThread
    <3>1. dead' = dead \cup {cur}
      BY <1>10, <2>3 DEF Fault
    <3>2. CASE mode = "user"
      BY <2>1, <3>1, <3>2 DEF SilentOnlyAfterFault
    <3>3. CASE mode = "handler"
      <4>1. ProgressIsHandler /\ FreshNotStarted /\ cur \in Thread
        BY <3>3 DEF IInv, TypeOK
      <4>2. inProgress[cur]
        BY <3>3, <4>1 DEF ProgressIsHandler, FreshNotStarted
      <4>3. QED
        BY <2>1, <3>1, <4>2 DEF SilentOnlyAfterFault
    <3>4. QED
      BY <2>1, <3>2, <3>3
  <2>4. QED
    BY <2>2, <2>3
<1>11. QED
  BY <1>2, <1>3, <1>4, <1>5, <1>6, <1>7, <1>8, <1>9, <1>10 DEF Next, Tick

\* The timer falls silent under a running thread only after a fault inside a
\* handler: the one path on which the tick stays unacknowledged.
THEOREM CallbackSilentOnlyAfterFault == Spec => []SilentOnlyAfterFault
<1>1. Init => SilentOnlyAfterFault
  BY DEF Init, SilentOnlyAfterFault
<1>2. IInv /\ SilentOnlyAfterFault /\ [Next]_vars => SilentOnlyAfterFault'
  BY SilentKept
<1>3. QED
  BY <1>1, <1>2, InitIInv, NextIInv, PTL DEF Spec
=============================================================================
