--------------------------------- MODULE Rpc ---------------------------------
(***************************************************************************)
(* What the display server promises to its clients: a call is served once, *)
(* and returns after it was served, with the answer to that call.          *)
(***************************************************************************)
CONSTANTS Client, NoAnswer

VARIABLES call,   \* "idle", "asked" or "served"
          answer  \* the answer a client holds, if any

rpcVars == <<call, answer>>

AnswerTo(c) == [type |-> "reply", of |-> c]

Init ==
  /\ call = [c \in Client |-> "idle"]
  /\ answer = [c \in Client |-> NoAnswer]

Ask(c) ==
  /\ call[c] = "idle"
  /\ call' = [call EXCEPT ![c] = "asked"]
  /\ answer' = [answer EXCEPT ![c] = NoAnswer]

Serve(c) ==
  /\ call[c] = "asked"
  /\ call' = [call EXCEPT ![c] = "served"]
  /\ UNCHANGED answer

\* The client takes its answer, unless the call has none.
Answer(c) ==
  /\ call[c] = "served"
  /\ answer' = [answer EXCEPT ![c] = AnswerTo(c)]
  /\ UNCHANGED call

Return(c) ==
  /\ call[c] = "served"
  /\ call' = [call EXCEPT ![c] = "idle"]
  /\ UNCHANGED answer

Next == \E c \in Client : Ask(c) \/ Serve(c) \/ Answer(c) \/ Return(c)

Spec == Init /\ [][Next]_rpcVars
=============================================================================
