------------------------------ MODULE Mailbox ------------------------------
(***************************************************************************)
(* What the message queue of a thread promises to those who post and to the *)
(* thread that reads, whatever its ring and its indexes do: letters are     *)
(* numbered in the order they are posted; a letter stays as it was posted   *)
(* until it is taken, once, or until a later post drops it; and a post      *)
(* drops at most one letter, the one that is Room posts old.  Letters from  *)
(* before a restart have lost that protection.  In which order letters are  *)
(* taken is not promised.                                                   *)
(***************************************************************************)
EXTENDS Integers

CONSTANTS Room, \* a letter is safe from the next Room - 1 posts
          Msgs  \* what may be posted

VARIABLES box,     \* the letters: records of a number and a message
          last,    \* the number of the last post
          barrier, \* the number of the last post before the last restart
          taken    \* the numbers of the letters that were taken

mailVars == <<box, last, barrier, taken>>

Init == box = {} /\ last = 0 /\ barrier = 0 /\ taken = {}

\* The letters that the next post may drop: none of them or one.
Dropped ==
    {{}} \cup {{l} : l \in {k \in box : k.num + Room = last + 1 \/ k.num <= barrier}}

\* A message is posted.
Post(m) ==
    /\ \E d \in Dropped : box' = (box \ d) \cup {[num |-> last + 1, msg |-> m]}
    /\ last' = last + 1
    /\ UNCHANGED <<barrier, taken>>

\* A post of the null message: no letter, but it counts as a post.
PostVoid ==
    /\ \E d \in Dropped : box' = box \ d
    /\ last' = last + 1
    /\ UNCHANGED <<barrier, taken>>

\* A letter is taken; the box may be restarted in the same step.
Take(l) ==
    /\ box' = box \ {l}
    /\ taken' = taken \cup {l.num}
    /\ barrier' \in {barrier, last}
    /\ last' = last

Restart ==
    /\ barrier' = last
    /\ UNCHANGED <<box, last, taken>>

Next ==
    \/ \E m \in Msgs : Post(m)
    \/ PostVoid
    \/ \E l \in box : Take(l)
    \/ Restart

Spec == Init /\ [][Next]_mailVars
=============================================================================
