--------------------------- MODULE ConsumeProcessInv ---------------------------
(***************************************************************************)
(* The inductive invariant behind NoLoss and KmsgAlive.  NoLoss alone is   *)
(* not inductive: whether a commit is safe depends on what is in front of  *)
(* the committed entry in the list, that on the order in which the         *)
(* consumer thread fills it, and the list between scan and removal on who  *)
(* may touch it meanwhile.                                                 *)
(***************************************************************************)
EXTENDS ConsumeProcess

(* A list holds messages of its partition number only, and every entry     *)
(* that is DONE was handled.                                               *)
ListOK(p) ==
  \A i \in 1 .. Len(list[p]) :
    /\ PartitionOf(list[p][i].msg) = p
    /\ list[p][i].state = "DONE" => list[p][i].msg \in handled

(* In front of an entry, every earlier offset of its Kafka partition is    *)
(* handled or waits closer to the head.  Duplicates, which a rebalance     *)
(* appends behind the old entries, keep this true.                         *)
InOrder(p) ==
  \A i \in 1 .. Len(list[p]) : \A o \in Offsets :
    o < list[p][i].msg.off =>
      \/ Msg(list[p][i].msg.tp, o) \in handled
      \/ \E j \in 1 .. i - 1 : list[p][j].msg = Msg(list[p][i].msg.tp, o)

Known(m) == m \in handled \/ InList(m)

(* The same for the message in the hand of the consumer thread, ...        *)
HandInOrder ==
  cons.pc \in {"find", "create"} =>
    \A o \in Offsets : o < cons.msg.off => Known(Msg(cons.msg.tp, o))

(* ... and for the next one that librdkafka will deliver.                  *)
PositionInOrder ==
  \A tp \in assigned : \A o \in Offsets :
    o < position[tp] => Known(Msg(tp, o)) \/ InHand(Msg(tp, o))

(* A manager that is not in the map is empty, unless the consumer thread   *)
(* is about to insert it.                                                  *)
Unregistered ==
  /\ cons.pc \in {"create", "handleNew", "insert"} => PartitionOf(cons.msg) \notin managers
  /\ \A p \in Partitions :
       p \in managers
         \/ (cons.pc \in {"handleNew", "insert"} /\ PartitionOf(cons.msg) = p)
         \/ list[p] = <<>>

(* process_todo works on the entry it was called for.                      *)
TailInHand ==
  cons.pc \in {"handle", "handleNew"} =>
    LET L == list[PartitionOf(cons.msg)]
    IN  Len(L) > 0 /\ L[Len(L)].msg = cons.msg

(* The map's lock: tasks run on registered managers only, and never while  *)
(* the consumer thread is inside one.                                      *)
Locking ==
  /\ cons.pc = "handle" => runPc # "tasks"
  /\ \A p \in Partitions :
       task[p].pc # "idle" => runPc = "tasks" /\ p \in managers

IInv ==
  /\ TypeOK
  /\ NoLoss
  /\ KmsgAlive
  /\ \A p \in Partitions : ListOK(p) /\ InOrder(p)
  /\ HandInOrder
  /\ PositionInOrder
  /\ Unregistered
  /\ TailInHand
  /\ Locking

-----------------------------------------------------------------------------
(* The inductive invariant behind RemovedIsCommitted and CommitMonotone,   *)
(* which hold where nothing is committed twice: with one Kafka partition   *)
(* for each number, no rebalance and no commit that fails.                 *)

Quiet ==
  /\ \A a, b \in TopicPartitions : a[2] = b[2] => a = b
  /\ MaxRebalances = 0
  /\ ~CommitMayFail

Rising(p) ==
  \A i, j \in 1 .. Len(list[p]) : i < j => list[p][i].msg.off < list[p][j].msg.off

(* Only what was delivered of an assigned partition is in a list.          *)
Owned(p) ==
  \A i \in 1 .. Len(list[p]) :
    list[p][i].msg.tp \in assigned /\ list[p][i].msg.off < position[list[p][i].msg.tp]

(* What is in a list is not committed yet, but for what is about to leave. *)
Ahead(p) ==
  \A i \in 1 .. Len(list[p]) :
    \/ committed[list[p][i].msg.tp] <= list[p][i].msg.off
    \/ task[p].pc = "remove" /\ i <= task[p].pos

Covered(p) ==
  task[p].pc = "remove" /\ task[p].pos > 0 => task[p].kmsg.off < committed[task[p].kmsg.tp]

HandAhead ==
  cons.pc \in {"find", "create"} =>
    /\ cons.msg.tp \in assigned
    /\ committed[cons.msg.tp] <= cons.msg.off /\ cons.msg.off < position[cons.msg.tp]
    /\ LET L == list[PartitionOf(cons.msg)] IN \A i \in 1 .. Len(L) : L[i].msg.off < cons.msg.off

PositionAhead == \A tp \in assigned : committed[tp] <= position[tp]

OnceInv ==
  /\ \A p \in Partitions : Rising(p) /\ Owned(p) /\ Ahead(p) /\ Covered(p)
  /\ HandAhead
  /\ PositionAhead
  /\ RemovedIsCommitted

=============================================================================
