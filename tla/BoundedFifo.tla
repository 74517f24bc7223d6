----------------------------- MODULE BoundedFifo -----------------------------
(***************************************************************************)
(* What the log queue of ch09/msg_server.c promises its users: a first-in  *)
(* first-out buffer of at most Capacity entries.  An entry is accepted     *)
(* while there is room, an offer made to a full buffer is refused and      *)
(* counted, and accepted entries are taken exactly once, in the order in   *)
(* which they were accepted.                                               *)
(***************************************************************************)
EXTENDS Naturals, Sequences

CONSTANTS Item,      \* the entries the buffer holds
          Capacity   \* how many of them it can hold

VARIABLES items,     \* the entries inside, oldest first
          taken,     \* every entry taken out so far, oldest first
          refused    \* number of offers refused so far

fifoVars == <<items, taken, refused>>

Init == /\ items = <<>>
        /\ taken = <<>>
        /\ refused = 0

Put(m) == /\ Len(items) < Capacity
          /\ items' = Append(items, m)
          /\ UNCHANGED <<taken, refused>>

Refuse == /\ Len(items) = Capacity
          /\ refused' = refused + 1
          /\ UNCHANGED <<items, taken>>

Take == /\ items # <<>>
        /\ taken' = Append(taken, Head(items))
        /\ items' = Tail(items)
        /\ UNCHANGED refused

Next == (\E m \in Item : Put(m)) \/ Refuse \/ Take

Spec == Init /\ [][Next]_fifoVars
==============================================================================
