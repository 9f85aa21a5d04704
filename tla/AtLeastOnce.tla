------------------------------ MODULE AtLeastOnce ------------------------------
(***************************************************************************)
(* What the consuming side of the program promises its group: a message is *)
(* handled in any order and perhaps more than once, and a commit only ever *)
(* sets an offset below which everything was handled.  A commit may take   *)
(* an offset back (a rebalance makes it), it may not jump over a message.  *)
(***************************************************************************)
EXTENDS Integers

CONSTANTS
  TopicPartitions,  \* the Kafka partitions
  LogLen,           \* messages in each
  Message           \* [tp, off]

VARIABLES committed, handled

(* Everything below offset n of tp was handled.                            *)
HandledBelow(tp, n) ==
  \A o \in 0 .. n - 1 : [tp |-> tp, off |-> o] \in handled

Init ==
  /\ committed = [tp \in TopicPartitions |-> 0]
  /\ handled = {}

Handle(m) ==
  /\ handled' = handled \cup {m}
  /\ UNCHANGED committed

Commit(tp, n) ==
  /\ HandledBelow(tp, n)
  /\ committed' = [committed EXCEPT ![tp] = n]
  /\ UNCHANGED handled

(* Another member of the group handles a message and commits it.           *)
HandleAndCommit(tp) ==
  /\ HandledBelow(tp, committed[tp])
  /\ committed[tp] < LogLen
  /\ handled' = handled \cup {[tp |-> tp, off |-> committed[tp]]}
  /\ committed' = [committed EXCEPT ![tp] = @ + 1]

Next ==
  \/ \E m \in Message : Handle(m)
  \/ \E tp \in TopicPartitions : \E n \in 0 .. LogLen : Commit(tp, n)
  \/ \E tp \in TopicPartitions : HandleAndCommit(tp)

Spec == Init /\ [][Next]_<<committed, handled>>

=============================================================================
