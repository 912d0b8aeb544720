------------------------------- MODULE Tasks -------------------------------
(***************************************************************************)
(* What the kernel promises to its threads and processes, whatever its      *)
(* lists, deferred services and dispatch orders are: a thread lives from    *)
(* its creation until its process asked to exit and was reaped, or until it *)
(* faulted itself; a reaped process loses all of its threads and no other   *)
(* process loses any; what is dead stays dead; the processor goes to the    *)
(* living only.                                                             *)
(***************************************************************************)
CONSTANTS Thread, Boot, None

VARIABLES life,    \* "none", "alive" or "dead"
          proc,    \* the process of a thread, named by its first thread
          open,    \* the processes that may call the kernel
          asked,   \* the processes that have asked to exit
          running  \* the thread in user mode, or None

taskVars == <<life, proc, open, asked, running>>

Init ==
  /\ life = [t \in Thread |-> IF t = Boot THEN "alive" ELSE "none"]
  /\ proc = [t \in Thread |-> Boot]
  /\ open = {Boot}
  /\ asked = {}
  /\ running = Boot

\* In whose name the running thread acts: its process, or init that stands
\* in for a thread which is dispatched in its sleep.
Acting == {proc[running], Boot}

Create(t, p) ==
  /\ running # None
  /\ life[t] = "none"
  /\ p \in Acting \cap open \/ p = t
  /\ life' = [life EXCEPT ![t] = "alive"]
  /\ proc' = [proc EXCEPT ![t] = p]
  /\ open' = open \cup {p}
  /\ UNCHANGED <<asked, running>>

Ask(p) ==
  /\ running # None
  /\ p \in Acting \cap open
  /\ asked' = asked \cup {p}
  /\ UNCHANGED <<life, proc, open, running>>

Run(t) ==
  /\ life[t] = "alive"
  /\ running' = t
  /\ UNCHANGED <<life, proc, open, asked>>

\* The kernel takes the processor; it may forget that a process has asked.
Enter ==
  /\ running' = None
  /\ asked' \subseteq asked
  /\ UNCHANGED <<life, proc, open>>

Reap(p) ==
  /\ running = None
  /\ p \in asked \ {Boot}
  /\ life' = [t \in Thread |-> IF proc[t] = p /\ life[t] = "alive"
                                 THEN "dead" ELSE life[t]]
  /\ open' = open \ {p}
  /\ asked' \subseteq asked \ {p}
  /\ UNCHANGED <<proc, running>>

\* A fault of the running thread; init takes over if it can.
Kill ==
  /\ running \notin {None, Boot}
  /\ life' = [life EXCEPT ![running] = "dead"]
  /\ open' = open \ {proc[running]}
  /\ running' \in {Boot, None}
  /\ UNCHANGED <<proc, asked>>

Next ==
  \/ \E t, p \in Thread : Create(t, p)
  \/ \E p \in Thread : Ask(p) \/ Reap(p)
  \/ \E t \in Thread : Run(t)
  \/ Enter
  \/ Kill

Spec == Init /\ [][Next]_taskVars
=============================================================================
