-------------------------- MODULE ConsumeProcessProofs --------------------------
(***************************************************************************)
(* NoLoss and KmsgAlive hold for every set of topics and partitions, every *)
(* log, every configuration, and any number of rebalances, peers, failed   *)
(* commits and restarts: IInv (module ConsumeProcessInv) is inductive.     *)
(***************************************************************************)
EXTENDS ConsumeProcessInv, PartitionManagerProofs

LEMMA NoMsgIsNoMessage == NoMsg \notin Messages
BY LogAssumption DEF NoMsg, Messages, Offsets

LEMMA PartitionType ==
  ASSUME NEW m \in Messages
  PROVE  /\ PartitionOf(m) \in Partitions
         /\ m.tp \in TopicPartitions
         /\ m.off \in Offsets
         /\ \A o \in Offsets : Msg(m.tp, o) \in Messages
         /\ \A o \in Offsets : PartitionOf(Msg(m.tp, o)) = PartitionOf(m)
BY DEF Messages, TopicPartitions, PartitionOf, Msg

LEMMA InitIInv == Init => IInv
<1> SUFFICES ASSUME Init PROVE IInv
  OBVIOUS
<1> USE LogAssumption, BoundsAssumption DEF Init, Started, Consuming, NoTask
<1>1. TypeOK
  <2>1. <<>> \in Seq(Entry)
    BY EmptySeq
  <2> QED
    BY <2>1 DEF TypeOK
<1>2. \A p \in Partitions : Len(list[p]) = 0
  BY EmptySeq
<1>3. NoLoss
  BY DEF NoLoss, Offsets
<1>4. KmsgAlive /\ HandInOrder /\ PositionInOrder /\ TailInHand /\ Locking /\ Unregistered
  BY DEF KmsgAlive, HandInOrder, PositionInOrder, TailInHand, Locking, Unregistered
<1>5. \A p \in Partitions : ListOK(p) /\ InOrder(p)
  BY <1>2 DEF ListOK, InOrder
<1> QED
  BY <1>1, <1>3, <1>4, <1>5 DEF IInv

-----------------------------------------------------------------------------
(* The consumer thread.                                                    *)

LEMMA ConsumeStep ==
  ASSUME IInv, NEW tp \in TopicPartitions, Consume(tp)
  PROVE  IInv'
<1> DEFINE m == [tp |-> tp, off |-> position[tp]]
<1> USE LogAssumption DEF IInv, Consume, kafkaVars, runVars, boundVars
<1>1. m \in Messages
  BY DEF TypeOK, Messages, Offsets
<1>2. TypeOK'
  BY <1>1 DEF TypeOK
<1>3. handled \subseteq handled' /\ list' = list /\ committed' = committed
  OBVIOUS
<1>4. NoLoss' /\ KmsgAlive'
  BY <1>3 DEF NoLoss, KmsgAlive
<1>5. (\A p \in Partitions : ListOK(p) /\ InOrder(p))'
  BY <1>3 DEF ListOK, InOrder
<1>6. \A x \in Messages : Known(x) => Known(x)'
  BY <1>3 DEF Known, InList
<1>7. \A o \in Offsets : o < position[tp] => Known(Msg(tp, o))
  BY DEF PositionInOrder, InHand
<1>8. HandInOrder'
  <2> SUFFICES ASSUME cons'.pc \in {"find", "create"}, NEW o \in Offsets, o < cons'.msg.off
               PROVE  Known(Msg(cons.msg.tp, o))'
    BY DEF HandInOrder
  <2>1. cons'.msg = m
    OBVIOUS
  <2>2. Known(Msg(tp, o)) /\ Msg(tp, o) \in Messages
    BY <2>1, <1>7 DEF Msg, Messages
  <2> QED
    BY <2>1, <2>2, <1>6
<1>9. PositionInOrder'
  <2> SUFFICES ASSUME NEW q \in assigned', NEW o \in Offsets, o < position'[q]
               PROVE  Known(Msg(q, o))' \/ InHand(Msg(q, o))'
    BY DEF PositionInOrder
  <2>0. Msg(q, o) \in Messages
    BY DEF TypeOK, Msg, Messages
  <2>1. CASE q = tp /\ o = position[tp]
    <3>1. Msg(q, o) = m
      BY <2>1 DEF Msg
    <3> QED
      BY <3>1 DEF Known, InHand
  <2>2. CASE ~(q = tp /\ o = position[tp])
    <3>1. o < position[q]
      BY <2>2 DEF TypeOK, Offsets
    <3>2. Known(Msg(q, o))
      BY <3>1 DEF PositionInOrder, InHand
    <3> QED
      BY <3>2, <2>0, <1>6
  <2> QED
    BY <2>1, <2>2
<1>10. Unregistered' /\ TailInHand' /\ Locking'
  BY DEF Unregistered, TailInHand, Locking
<1> QED
  BY <1>2, <1>4, <1>5, <1>8, <1>9, <1>10 DEF IInv

(* An entry put at the tail, by a thread that no task can see.             *)
LEMMA EmplaceStep ==
  ASSUME IInv, NEW p \in Partitions,
         cons.pc \in {"find", "create"}, p = PartitionOf(cons.msg),
         list' = [list EXCEPT ![p] = EmplaceBack(list[p], cons.msg)],
         task[p].pc = "idle",
         cons' = [cons EXCEPT !.pc = "handle"] \/ cons' = [cons EXCEPT !.pc = "handleNew"],
         UNCHANGED <<handled, committed, assigned, position, task>>
  PROVE  /\ list' \in [Partitions -> Seq(Entry)]
         /\ NoLoss'
         /\ KmsgAlive'
         /\ \A q \in Partitions : ListOK(q)' /\ InOrder(q)'
         /\ HandInOrder'
         /\ PositionInOrder'
         /\ TailInHand'
<1> DEFINE m == cons.msg
<1> DEFINE n == Len(list[p])
<1>1. m \in Messages /\ list \in [Partitions -> Seq(Entry)]
  BY DEF IInv, TypeOK
<1>2. list[p] \in Seq(Entry) /\ n \in Nat
  BY <1>1, LenProperties
<1>3. /\ list'[p] \in Seq(Entry)
      /\ Len(list'[p]) = n + 1
      /\ \A i \in 1 .. n : list'[p][i] = list[p][i]
      /\ list'[p][n + 1] = Data(m)
      /\ \A q \in Partitions : q # p => list'[q] = list[q]
  BY <1>1, <1>2, EmplaceBackLemma
<1>4. list' \in [Partitions -> Seq(Entry)]
  BY <1>1, <1>3
<1>5. \A x \in Messages : InList(x) => InList(x)'
  <2> SUFFICES ASSUME NEW x \in Messages, InList(x)
               PROVE  InList(x)'
    OBVIOUS
  <2>1. PICK i \in 1 .. Len(list[PartitionOf(x)]) : list[PartitionOf(x)][i].msg = x
    BY DEF InList
  <2>2. PartitionOf(x) \in Partitions
    BY PartitionType
  <2> QED
    BY <2>1, <2>2, <1>2, <1>3 DEF InList
<1>6. \A x \in Messages : Known(x) => Known(x)'
  BY <1>5 DEF Known
<1>7. \A x \in Messages : x = m => InList(x)'
  BY <1>2, <1>3 DEF InList, Data
<1>8. NoLoss'
  BY DEF IInv, NoLoss
<1>9. KmsgAlive'
  BY <1>3 DEF IInv, KmsgAlive
<1>10. ASSUME NEW q \in Partitions
       PROVE  ListOK(q)' /\ InOrder(q)'
  <2>1. CASE q # p
    BY <2>1, <1>3 DEF IInv, ListOK, InOrder
  <2>2. CASE q = p
    <3>1. ListOK(q)'
      BY <2>2, <1>2, <1>3 DEF IInv, ListOK, Data
    <3>2. ASSUME NEW i \in 1 .. n, NEW o \in Offsets, o < list'[p][i].msg.off
          PROVE  \/ Msg(list'[p][i].msg.tp, o) \in handled'
                 \/ \E j \in 1 .. i - 1 : list'[p][j].msg = Msg(list'[p][i].msg.tp, o)
      BY <3>2, <1>2, <1>3 DEF IInv, InOrder
    <3>3. ASSUME NEW o \in Offsets, o < m.off
          PROVE  \/ Msg(m.tp, o) \in handled'
                 \/ \E j \in 1 .. n : list'[p][j].msg = Msg(m.tp, o)
      <4>1. Known(Msg(m.tp, o)) /\ PartitionOf(Msg(m.tp, o)) = p
        BY <3>3, <1>1, PartitionType DEF IInv, HandInOrder
      <4> QED
        BY <4>1, <1>3 DEF Known, InList
    <3>4. \A i \in 1 .. n + 1 : i \in 1 .. n \/ (i = n + 1 /\ i - 1 = n)
      BY <1>2
    <3>5. InOrder(q)'
      BY <2>2, <1>3, <3>2, <3>3, <3>4 DEF InOrder, Data
    <3> QED
      BY <3>1, <3>5
  <2> QED
    BY <2>1, <2>2
<1>11. cons'.msg = m /\ cons'.pc \in {"handle", "handleNew"}
  BY DEF IInv, TypeOK
<1>12. HandInOrder'
  BY <1>11 DEF HandInOrder
<1>13. PositionInOrder'
  <2> SUFFICES ASSUME NEW q \in assigned', NEW o \in Offsets, o < position'[q]
               PROVE  Known(Msg(q, o))' \/ InHand(Msg(q, o))'
    BY DEF PositionInOrder
  <2>1. Msg(q, o) \in Messages
    BY DEF IInv, TypeOK, Msg, Messages
  <2>2. Known(Msg(q, o)) \/ Msg(q, o) = m
    BY DEF IInv, PositionInOrder, InHand
  <2>3. Known(Msg(q, o))'
    BY <2>1, <2>2, <1>6, <1>7 DEF Known
  <2> QED
    BY <2>3
<1>14. TailInHand'
  BY <1>2, <1>3, <1>11 DEF TailInHand, Data
<1> QED
  BY <1>4, <1>8, <1>9, <1>10, <1>12, <1>13, <1>14

LEMMA FindManagerStep ==
  ASSUME IInv, FindManager
  PROVE  IInv'
<1> DEFINE p == PartitionOf(cons.msg)
<1> USE DEF FindManager, kafkaVars, runVars, boundVars
<1>1. p \in Partitions /\ cons.msg \in Messages
  BY PartitionType DEF IInv, TypeOK
<1>2. task[p].pc = "idle"
  BY <1>1 DEF IInv, Locking
<1>3. CASE p \in managers
  <2>1. /\ list' = [list EXCEPT ![p] = EmplaceBack(list[p], cons.msg)]
        /\ cons' = [cons EXCEPT !.pc = "handle"]
    BY <1>3
  <2>2. /\ list' \in [Partitions -> Seq(Entry)]
        /\ NoLoss' /\ KmsgAlive'
        /\ \A q \in Partitions : ListOK(q)' /\ InOrder(q)'
        /\ HandInOrder' /\ PositionInOrder' /\ TailInHand'
    BY <2>1, <1>1, <1>2, EmplaceStep
  <2>3. TypeOK'
    BY <2>1, <2>2, <1>1 DEF IInv, TypeOK
  <2>4. Unregistered' /\ Locking'
    BY <2>1, <1>1, <1>3 DEF IInv, TypeOK, Unregistered, Locking
  <2> QED
    BY <2>2, <2>3, <2>4 DEF IInv
<1>4. CASE p \notin managers
  <2>1. list' = list /\ cons' = [cons EXCEPT !.pc = "create"]
    BY <1>4
  <2>2. TypeOK'
    BY <2>1, <1>1 DEF IInv, TypeOK
  <2>3. NoLoss' /\ KmsgAlive' /\ TailInHand'
    BY <2>1 DEF IInv, TypeOK, NoLoss, KmsgAlive, TailInHand
  <2>4. \A q \in Partitions : ListOK(q)' /\ InOrder(q)'
    BY <2>1 DEF IInv, ListOK, InOrder
  <2>5. cons'.msg = cons.msg /\ cons'.pc = "create"
    BY <2>1 DEF IInv, TypeOK
  <2>6. HandInOrder' /\ PositionInOrder'
    BY <2>1, <2>5 DEF IInv, HandInOrder, PositionInOrder, Known, InList, InHand
  <2>7. Unregistered' /\ Locking'
    BY <2>1, <2>5, <1>4 DEF IInv, Unregistered, Locking
  <2> QED
    BY <2>2, <2>3, <2>4, <2>6, <2>7 DEF IInv
<1> QED
  BY <1>3, <1>4

LEMMA CreateManagerStep ==
  ASSUME IInv, CreateManager
  PROVE  IInv'
<1> DEFINE p == PartitionOf(cons.msg)
<1> USE DEF CreateManager, kafkaVars, runVars, boundVars
<1>1. p \in Partitions /\ cons.msg \in Messages /\ p \notin managers
  BY PartitionType DEF IInv, TypeOK, Unregistered
<1>2. task[p].pc = "idle"
  BY <1>1 DEF IInv, Locking
<1>3. list[p] = <<>>
  BY <1>1 DEF IInv, Unregistered
<1>4. /\ list' = [list EXCEPT ![p] = EmplaceBack(list[p], cons.msg)]
      /\ cons' = [cons EXCEPT !.pc = "handleNew"]
  BY <1>3
<1>5. /\ list' \in [Partitions -> Seq(Entry)]
      /\ NoLoss' /\ KmsgAlive'
      /\ \A q \in Partitions : ListOK(q)' /\ InOrder(q)'
      /\ HandInOrder' /\ PositionInOrder' /\ TailInHand'
  BY <1>4, <1>1, <1>2, EmplaceStep
<1>6. TypeOK'
  BY <1>4, <1>5, <1>1 DEF IInv, TypeOK
<1>7. Unregistered' /\ Locking'
  BY <1>4, <1>1 DEF IInv, TypeOK, Unregistered, Locking
<1> QED
  BY <1>5, <1>6, <1>7 DEF IInv

(* A change of state behind or in front of a task: DONE at any time,       *)
(* DOING only where no task looks.                                         *)
LEMMA SetStateStep ==
  ASSUME IInv, NEW p \in Partitions, NEW i \in 1 .. Len(list[p]),
         NEW s \in {"DOING", "DONE"},
         list' = [list EXCEPT ![p] = SetState(list[p], i, s)],
         s = "DOING" => handled' = handled /\ task[p].pc = "idle",
         s = "DONE" => handled' = handled \cup {list[p][i].msg},
         UNCHANGED <<committed, task>>
  PROVE  /\ list' \in [Partitions -> Seq(Entry)]
         /\ handled' \subseteq Messages
         /\ NoLoss'
         /\ KmsgAlive'
         /\ \A q \in Partitions : ListOK(q)' /\ InOrder(q)'
         /\ \A x \in Messages : Known(x) => Known(x)'
         /\ \A q \in Partitions : list[q] = <<>> => list'[q] = <<>>
<1>1. list \in [Partitions -> Seq(Entry)] /\ handled \subseteq Messages
  BY DEF IInv, TypeOK
<1>2. list[p] \in Seq(Entry) /\ Len(list[p]) \in Nat /\ list[p][i] \in Entry
  BY <1>1, LenProperties, ElementOfSeq
<1>3. /\ list'[p] \in Seq(Entry)
      /\ Len(list'[p]) = Len(list[p])
      /\ \A j \in 1 .. Len(list[p]) : list'[p][j].msg = list[p][j].msg
      /\ \A j \in 1 .. Len(list[p]) : j # i => list'[p][j] = list[p][j]
      /\ list'[p][i].state = s
      /\ \A q \in Partitions : q # p => list'[q] = list[q]
  BY <1>1, <1>2, SetStateLemma DEF NodeState
<1>4. list' \in [Partitions -> Seq(Entry)]
  BY <1>1, <1>3
<1>5. handled \subseteq handled' /\ handled' \subseteq Messages
  BY <1>1, <1>2 DEF Entry
<1>6. \A q \in Partitions :
        /\ Len(list'[q]) = Len(list[q])
        /\ \A j \in 1 .. Len(list[q]) : list'[q][j].msg = list[q][j].msg
  BY <1>3
<1>7. NoLoss'
  BY <1>5 DEF IInv, NoLoss
<1>8. KmsgAlive'
  <2> SUFFICES ASSUME NEW q \in Partitions, task[q].pc \in {"count", "commit", "remove"}
               PROVE  /\ task[q].pos <= Len(list'[q])
                      /\ AllDone(list'[q], task[q].pos)
                      /\ task[q].kmsg = IF task[q].pos = 0 THEN NoMsg ELSE list'[q][task[q].pos].msg
    BY DEF KmsgAlive
  <2>1. /\ task[q].pos \in Nat
        /\ task[q].pos <= Len(list[q])
        /\ AllDone(list[q], task[q].pos)
        /\ task[q].kmsg = IF task[q].pos = 0 THEN NoMsg ELSE list[q][task[q].pos].msg
    BY DEF IInv, KmsgAlive, TypeOK
  <2>2. Len(list[q]) \in Nat
    BY <1>1, LenProperties
  <2>3. CASE q # p
    BY <2>1, <2>3, <1>3
  <2>4. CASE q = p
    <3>1. s = "DONE"
      BY <2>4
    <3>2. AllDone(list'[q], task[q].pos)
      BY <2>1, <2>2, <2>4, <3>1, <1>3 DEF AllDone
    <3> QED
      BY <2>1, <2>2, <2>4, <3>2, <1>3
  <2> QED
    BY <2>3, <2>4
<1>9. ASSUME NEW q \in Partitions
      PROVE  ListOK(q)' /\ InOrder(q)'
  <2>0. Len(list[q]) \in Nat
    BY <1>1, LenProperties
  <2>1. ListOK(q)'
    <3> SUFFICES ASSUME NEW j \in 1 .. Len(list[q])
                 PROVE  /\ PartitionOf(list'[q][j].msg) = q
                        /\ list'[q][j].state = "DONE" => list'[q][j].msg \in handled'
      BY <1>6 DEF ListOK
    <3>1. /\ PartitionOf(list[q][j].msg) = q
          /\ list[q][j].state = "DONE" => list[q][j].msg \in handled
      BY DEF IInv, ListOK
    <3>2. CASE q = p /\ j = i
      BY <3>1, <3>2, <1>3
    <3>3. CASE ~(q = p /\ j = i)
      <4>1. list'[q][j] = list[q][j]
        BY <3>3, <1>3
      <4> QED
        BY <4>1, <3>1, <1>5
    <3> QED
      BY <3>2, <3>3
  <2>2. InOrder(q)'
    BY <2>0, <1>5, <1>6 DEF IInv, InOrder
  <2> QED
    BY <2>1, <2>2
<1>10. \A x \in Messages : Known(x) => Known(x)'
  BY <1>5, <1>6, PartitionType DEF Known, InList
<1>11. ASSUME NEW q \in Partitions, list[q] = <<>>
       PROVE  list'[q] = <<>>
  <2>1. Len(list[q]) = 0
    BY <1>11, EmptySeq
  <2>2. q # p
    BY <2>1
  <2> QED
    BY <2>2, <1>11, <1>3
<1> QED
  BY <1>4, <1>5, <1>7, <1>8, <1>9, <1>10, <1>11

(* What was known of every delivered message stays known when no message   *)
(* is in the hand of the consumer thread.                                  *)
LEMMA PositionStep ==
  ASSUME IInv, \A x \in Messages : Known(x) => Known(x)',
         \A x \in Messages : InHand(x) => InHand(x)',
         UNCHANGED <<assigned, position>>
  PROVE  PositionInOrder'
<1> SUFFICES ASSUME NEW q \in assigned', NEW o \in Offsets, o < position'[q]
             PROVE  Known(Msg(q, o))' \/ InHand(Msg(q, o))'
  BY DEF PositionInOrder
<1>1. Msg(q, o) \in Messages
  BY DEF IInv, TypeOK, Msg, Messages
<1>2. Known(Msg(q, o)) \/ InHand(Msg(q, o))
  BY DEF IInv, PositionInOrder
<1> QED
  BY <1>1, <1>2

LEMMA HandStep ==
  ASSUME IInv, \A x \in Messages : Known(x) => Known(x)',
         UNCHANGED cons
  PROVE  HandInOrder'
<1> SUFFICES ASSUME cons.pc \in {"find", "create"}, NEW o \in Offsets, o < cons.msg.off
             PROVE  Known(Msg(cons.msg.tp, o))'
  BY DEF HandInOrder
<1>1. Known(Msg(cons.msg.tp, o))
  BY DEF IInv, HandInOrder
<1>2. Msg(cons.msg.tp, o) \in Messages
  BY PartitionType DEF IInv, TypeOK
<1>3. PICK x \in Messages : x = Msg(cons.msg.tp, o)
  BY <1>2
<1>4. Known(x)'
  BY <1>1, <1>3
<1>5. x = Msg(cons.msg.tp, o)'
  BY <1>3 DEF Msg
<1> QED
  BY <1>4, <1>5

LEMMA ProcessTodoStep ==
  ASSUME IInv, ProcessTodo
  PROVE  IInv'
<1> DEFINE p == PartitionOf(cons.msg)
<1> DEFINE n == Len(list[p])
<1> USE DEF ProcessTodo, kafkaVars, runVars, boundVars
<1>1. p \in Partitions /\ cons.msg \in Messages
  BY PartitionType DEF IInv, TypeOK
<1>2. n \in 1 .. n /\ list[p][n].msg = cons.msg
  <2>1. n \in Nat
    BY <1>1, LenProperties DEF IInv, TypeOK
  <2> QED
    BY <2>1 DEF IInv, TailInHand
<1>3. task[p].pc = "idle"
  BY <1>1 DEF IInv, Locking, Unregistered
<1>4. PICK s \in {"DOING", "DONE"} :
        /\ list' = [list EXCEPT ![p] = SetState(list[p], n, s)]
        /\ s = "DOING" => handled' = handled
        /\ s = "DONE" => handled' = handled \cup {cons.msg}
  <2>1. CASE list' = [list EXCEPT ![p] = SetState(@, n, "DOING")] /\ UNCHANGED handled
    BY <2>1
  <2>2. CASE /\ list' = [list EXCEPT ![p] = SetState(@, n, "DONE")]
             /\ handled' = handled \cup {cons.msg}
    BY <2>2
  <2> QED
    BY <2>1, <2>2
<1>5. /\ list' \in [Partitions -> Seq(Entry)]
      /\ handled' \subseteq Messages
      /\ NoLoss' /\ KmsgAlive'
      /\ \A q \in Partitions : ListOK(q)' /\ InOrder(q)'
      /\ \A x \in Messages : Known(x) => Known(x)'
      /\ \A q \in Partitions : list[q] = <<>> => list'[q] = <<>>
  BY <1>1, <1>2, <1>3, <1>4, SetStateStep
<1>6. cons'.pc \in {"consume", "insert"}
  BY DEF IInv, TypeOK, Consuming
<1>7. TypeOK'
  BY <1>1, <1>5 DEF IInv, TypeOK, Consuming
<1>8. HandInOrder' /\ TailInHand'
  BY <1>6 DEF HandInOrder, TailInHand
<1>9. PositionInOrder'
  BY <1>5, PositionStep DEF InHand
<1>10. Unregistered'
  BY <1>1, <1>5 DEF IInv, TypeOK, Unregistered, Consuming
<1>11. Locking'
  BY <1>6 DEF IInv, Locking
<1> QED
  BY <1>5, <1>7, <1>8, <1>9, <1>10, <1>11 DEF IInv

LEMMA InsertManagerStep ==
  ASSUME IInv, InsertManager
  PROVE  IInv'
<1> USE DEF InsertManager, kafkaVars, runVars, boundVars
<1>1. PartitionOf(cons.msg) \in Partitions
  BY PartitionType DEF IInv, TypeOK
<1>2. TypeOK'
  BY <1>1 DEF IInv, TypeOK, Consuming
<1>3. NoLoss' /\ KmsgAlive' /\ (\A q \in Partitions : ListOK(q)' /\ InOrder(q)')
  BY DEF IInv, NoLoss, KmsgAlive, ListOK, InOrder
<1>4. HandInOrder' /\ TailInHand'
  BY DEF HandInOrder, TailInHand, Consuming
<1>5. PositionInOrder'
  BY PositionStep DEF InHand, Known, InList
<1>6. Unregistered' /\ Locking'
  BY <1>1 DEF IInv, Unregistered, Locking, Consuming
<1> QED
  BY <1>2, <1>3, <1>4, <1>5, <1>6 DEF IInv

(* A newly assigned partition starts at its committed offset, below which  *)
(* NoLoss says everything is handled.                                      *)
LEMMA AssignStep ==
  ASSUME IInv, NEW S \in SUBSET TopicPartitions, Assign(S)
  PROVE  IInv'
<1> USE DEF Assign, runVars, boundVars
<1>1. TypeOK'
  BY DEF IInv, TypeOK
<1>2. NoLoss' /\ KmsgAlive' /\ (\A q \in Partitions : ListOK(q)' /\ InOrder(q)')
  BY DEF IInv, NoLoss, KmsgAlive, ListOK, InOrder
<1>3. HandInOrder' /\ TailInHand' /\ Unregistered' /\ Locking'
  BY DEF IInv, HandInOrder, TailInHand, Unregistered, Locking
<1>4. PositionInOrder'
  <2> SUFFICES ASSUME NEW q \in assigned', NEW o \in Offsets, o < position'[q]
               PROVE  Known(Msg(q, o))'
    BY DEF PositionInOrder
  <2>1. q \in TopicPartitions /\ position'[q] = committed[q]
    OBVIOUS
  <2>2. Msg(q, o) \in handled
    BY <2>1 DEF IInv, NoLoss
  <2> QED
    BY <2>2 DEF Known
<1> QED
  BY <1>1, <1>2, <1>3, <1>4 DEF IInv

LEMMA UnassignStep ==
  ASSUME IInv, Unassign
  PROVE  IInv'
<1> USE BoundsAssumption DEF Unassign, runVars
<1>1. TypeOK'
  BY DEF IInv, TypeOK
<1>2. NoLoss' /\ KmsgAlive' /\ (\A q \in Partitions : ListOK(q)' /\ InOrder(q)')
  BY DEF IInv, NoLoss, KmsgAlive, ListOK, InOrder
<1>3. HandInOrder' /\ TailInHand' /\ Unregistered' /\ Locking'
  BY DEF IInv, HandInOrder, TailInHand, Unregistered, Locking
<1>4. PositionInOrder'
  BY DEF PositionInOrder
<1> QED
  BY <1>1, <1>2, <1>3, <1>4 DEF IInv

-----------------------------------------------------------------------------
(* The sessions.                                                           *)

LEMMA FinalStep ==
  ASSUME IInv, NEW p \in Partitions, NEW i \in 1 .. Len(list[p]), Final(p, i)
  PROVE  IInv'
<1> USE DEF Final, kafkaVars, runVars, boundVars
<1>1. list' = [list EXCEPT ![p] = SetState(list[p], i, "DONE")]
  OBVIOUS
<1>2. /\ list' \in [Partitions -> Seq(Entry)]
      /\ handled' \subseteq Messages
      /\ NoLoss' /\ KmsgAlive'
      /\ \A q \in Partitions : ListOK(q)' /\ InOrder(q)'
      /\ \A x \in Messages : Known(x) => Known(x)'
      /\ \A q \in Partitions : list[q] = <<>> => list'[q] = <<>>
  BY <1>1, SetStateStep
<1>3. TypeOK'
  BY <1>2 DEF IInv, TypeOK
<1>4. HandInOrder'
  BY <1>2, HandStep
<1>5. PositionInOrder'
  BY <1>2, PositionStep DEF InHand
<1>6. Unregistered' /\ Locking'
  BY <1>2 DEF IInv, Unregistered, Locking
<1>7. TailInHand'
  <2> SUFFICES ASSUME cons.pc \in {"handle", "handleNew"}
               PROVE  LET L == list'[PartitionOf(cons.msg)]
                      IN  Len(L) > 0 /\ L[Len(L)].msg = cons.msg
    BY DEF TailInHand
  <2> DEFINE c == PartitionOf(cons.msg)
  <2>1. c \in Partitions
    BY PartitionType DEF IInv, TypeOK
  <2>2. list[p] \in Seq(Entry) /\ list[c] \in Seq(Entry) /\ Len(list[c]) \in Nat
    BY <2>1, LenProperties DEF IInv, TypeOK
  <2>3. Len(list[c]) > 0 /\ list[c][Len(list[c])].msg = cons.msg
    BY DEF IInv, TailInHand
  <2>4. /\ Len(list'[c]) = Len(list[c])
        /\ \A j \in 1 .. Len(list[c]) : list'[c][j].msg = list[c][j].msg
    <3>1. CASE c = p
      BY <3>1, <2>2, <1>1, SetStateLemma DEF NodeState, IInv, TypeOK
    <3>2. CASE c # p
      BY <3>2, <2>1, <1>1 DEF IInv, TypeOK
    <3> QED
      BY <3>1, <3>2
  <2> QED
    BY <2>2, <2>3, <2>4
<1> QED
  BY <1>2, <1>3, <1>4, <1>5, <1>6, <1>7 DEF IInv

-----------------------------------------------------------------------------
(* The Run thread and its tasks.                                           *)

(* A step that leaves lists, offsets, the consumer thread and the map      *)
(* alone has only the tasks to answer for.                                 *)
LEMMA RunStep ==
  ASSUME IInv, TypeOK', NoLoss', KmsgAlive', Locking',
         UNCHANGED <<handled, assigned, position, managers, list, cons>>
  PROVE  IInv'
<1>1. (\A q \in Partitions : ListOK(q)' /\ InOrder(q)')
  BY DEF IInv, ListOK, InOrder
<1>2. HandInOrder' /\ PositionInOrder'
  BY DEF IInv, HandInOrder, PositionInOrder, Known, InList, InHand
<1>3. Unregistered' /\ TailInHand'
  BY DEF IInv, Unregistered, TailInHand
<1> QED
  BY <1>1, <1>2, <1>3 DEF IInv

LEMMA StartTasksStep ==
  ASSUME IInv, StartTasks
  PROVE  IInv'
<1> USE DEF StartTasks, kafkaVars, boundVars, NoTask
<1>1. TypeOK'
  BY DEF IInv, TypeOK
<1>2. NoLoss' /\ KmsgAlive'
  BY DEF IInv, NoLoss, KmsgAlive
<1>3. Locking'
  BY DEF IInv, Locking
<1> QED
  BY <1>1, <1>2, <1>3, RunStep

LEMMA FindFirstNotDoneStep ==
  ASSUME IInv, NEW p \in Partitions, FindFirstNotDone(p)
  PROVE  IInv'
<1> DEFINE pos == FirstNotDonePos(list[p])
<1> USE DEF FindFirstNotDone, kafkaVars, boundVars
<1>1. list[p] \in Seq(Entry) /\ Len(list[p]) \in Nat
  BY LenProperties DEF IInv, TypeOK
<1>2. pos \in 0 .. Len(list[p]) /\ AllDone(list[p], pos)
  BY <1>1, FirstNotDonePosLemma
<1>3. pos # 0 => list[p][pos].msg \in Messages
  <2> SUFFICES ASSUME pos # 0
               PROVE  list[p][pos].msg \in Messages
    OBVIOUS
  <2>1. pos \in 1 .. Len(list[p])
    BY <1>1, <1>2
  <2>2. list[p][pos] \in Entry
    BY <1>1, <2>1, ElementOfSeq
  <2> QED
    BY <2>2 DEF Entry
<1>4. ForceCommit(list[p]) \in BOOLEAN
  BY DEF ForceCommit
<1>5. TypeOK'
  BY <1>1, <1>2, <1>3, <1>4 DEF IInv, TypeOK
<1>6. NoLoss'
  BY DEF IInv, NoLoss
<1>7. KmsgAlive'
  BY <1>1, <1>2 DEF IInv, TypeOK, KmsgAlive
<1>8. Locking'
  BY DEF IInv, TypeOK, Locking
<1> QED
  BY <1>5, <1>6, <1>7, <1>8, RunStep

LEMMA CountStatesStep ==
  ASSUME IInv, NEW p \in Partitions, CountStates(p)
  PROVE  IInv'
<1> USE DEF CountStates, kafkaVars, boundVars
<1>1. Unresolved(list[p]) \in Nat
  BY UnresolvedType DEF IInv, TypeOK
<1>2. TypeOK'
  BY <1>1 DEF IInv, TypeOK
<1>3. NoLoss'
  BY DEF IInv, NoLoss
<1>4. KmsgAlive'
  BY DEF IInv, TypeOK, KmsgAlive
<1>5. Locking'
  BY DEF IInv, TypeOK, Locking
<1> QED
  BY <1>2, <1>3, <1>4, <1>5, RunStep

(* The heart of the matter: below the offset of the last entry of a        *)
(* finished head of the list, everything is handled.                       *)
LEMMA CommitStep ==
  ASSUME IInv, NEW p \in Partitions, Commit(p)
  PROVE  IInv'
<1> DEFINE m == task[p].kmsg
<1> DEFINE k == task[p].pos
<1> USE DEF Commit, kafkaVars, boundVars
<1>1. m \in Messages \cup {NoMsg} /\ k \in Nat
  BY DEF IInv, TypeOK
<1>2. KmsgAlive' /\ Locking'
  BY DEF IInv, TypeOK, KmsgAlive, Locking
<1>3. CASE UNCHANGED committed
  <2>1. TypeOK' /\ NoLoss'
    BY <1>3 DEF IInv, TypeOK, NoLoss
  <2> QED
    BY <2>1, <1>2, RunStep
<1>4. CASE m # NoMsg /\ committed' = [committed EXCEPT ![m.tp] = m.off + 1]
  <2>1. m \in Messages /\ m.tp \in TopicPartitions /\ m.off \in Offsets
    BY <1>1, <1>4, PartitionType
  <2>2. TypeOK'
    <3>1. m.off + 1 \in 0 .. LogLen
      BY <2>1, LogAssumption DEF Offsets
    <3>2. committed' \in [TopicPartitions -> 0 .. LogLen]
      BY <1>4, <2>1, <3>1 DEF IInv, TypeOK
    <3> QED
      BY <3>2 DEF IInv, TypeOK
  <2>3. /\ k <= Len(list[p]) /\ Len(list[p]) \in Nat
        /\ AllDone(list[p], k)
        /\ m = IF k = 0 THEN NoMsg ELSE list[p][k].msg
    BY LenProperties DEF IInv, TypeOK, KmsgAlive
  <2>4. \A j \in 1 .. k : list[p][j].msg \in handled
    BY <2>3, <1>1 DEF IInv, ListOK, AllDone
  <2>5. k > 0
    <3>1. k # 0
      BY <2>3, <1>4
    <3> QED
      BY <3>1, <1>1
  <2>6. ASSUME NEW o \in Offsets, o <= m.off
        PROVE  Msg(m.tp, o) \in handled
    <3>1. k \in 1 .. Len(list[p]) /\ list[p][k].msg = m
      BY <2>3, <2>5, <1>1
    <3>2. CASE o = m.off
      BY <3>1, <3>2, <2>1, <2>4, <2>5, <1>1 DEF Msg, Messages
    <3>3. CASE o < m.off
      <4>1. \/ Msg(m.tp, o) \in handled
            \/ \E j \in 1 .. k - 1 : list[p][j].msg = Msg(m.tp, o)
        BY <3>1, <3>3 DEF IInv, InOrder
      <4> QED
        BY <4>1, <2>4, <1>1
    <3> QED
      BY <3>2, <3>3, <2>6, <2>1 DEF Offsets
  <2>7. NoLoss'
    <3> SUFFICES ASSUME NEW q \in TopicPartitions, NEW o \in Offsets, o < committed'[q]
                 PROVE  Msg(q, o) \in handled
      BY DEF NoLoss
    <3>1. CASE q = m.tp
      <4>1. o <= m.off
        BY <3>1, <1>4, <2>1 DEF IInv, TypeOK, Offsets
      <4> QED
        BY <4>1, <3>1, <2>6
    <3>2. CASE q # m.tp
      BY <3>2, <1>4, <2>1 DEF IInv, TypeOK, NoLoss
    <3> QED
      BY <3>1, <3>2
  <2> QED
    BY <2>2, <2>7, <1>2, RunStep
<1> QED
  BY <1>3, <1>4

LEMMA RemoveCommittedStep ==
  ASSUME IInv, NEW p \in Partitions, RemoveCommitted(p)
  PROVE  IInv'
<1> DEFINE L == list[p]
<1> DEFINE k == task[p].pos
<1> USE DEF RemoveCommitted, kafkaVars, boundVars
<1>1. /\ L \in Seq(Entry) /\ Len(L) \in Nat
      /\ list \in [Partitions -> Seq(Entry)]
  BY LenProperties DEF IInv, TypeOK
<1>2. k \in 0 .. Len(L) /\ AllDone(L, k)
  BY <1>1 DEF IInv, TypeOK, KmsgAlive
<1>3. /\ list'[p] \in Seq(Entry)
      /\ Len(list'[p]) = Len(L) - k
      /\ \A i \in 1 .. Len(L) - k : list'[p][i] = L[i + k]
      /\ \A q \in Partitions : q # p => list'[q] = list[q]
  BY <1>1, <1>2, RemoveFromHeadLemma
<1>4. \A j \in 1 .. k : L[j].msg \in handled
  BY <1>1, <1>2 DEF IInv, ListOK, AllDone
<1>5. \A i \in 1 .. Len(L) - k : i + k \in 1 .. Len(L)
  BY <1>1, <1>2
<1>6. TypeOK'
  <2>1. list' \in [Partitions -> Seq(Entry)]
    BY <1>1, <1>3
  <2>2. task' \in [Partitions -> [pc : {"idle", "scan", "count", "commit", "remove", "end"},
                                pos : Nat, force : BOOLEAN,
                                kmsg : Messages \cup {NoMsg}]]
    BY DEF IInv, TypeOK
  <2> QED
    BY <2>1, <2>2 DEF IInv, TypeOK
<1>7. NoLoss' /\ Locking'
  BY DEF IInv, TypeOK, NoLoss, Locking
<1>8. KmsgAlive'
  BY <1>3 DEF IInv, TypeOK, KmsgAlive
<1>9. ASSUME NEW q \in Partitions
      PROVE  ListOK(q)' /\ InOrder(q)'
  <2>1. CASE q # p
    BY <2>1, <1>3 DEF IInv, ListOK, InOrder
  <2>2. CASE q = p
    <3>1. ListOK(q)'
      BY <2>2, <1>3, <1>5 DEF IInv, ListOK
    <3>2. InOrder(q)'
      <4> SUFFICES ASSUME NEW i \in 1 .. Len(L) - k, NEW o \in Offsets, o < L[i + k].msg.off,
                          Msg(L[i + k].msg.tp, o) \notin handled
                   PROVE  \E j \in 1 .. i - 1 : L[j + k].msg = Msg(L[i + k].msg.tp, o)
        <5>1. \A i \in 1 .. Len(L) - k : \A j \in 1 .. i - 1 : j \in 1 .. Len(L) - k
          BY <1>1, <1>2
        <5> QED
          BY <2>2, <1>3, <5>1 DEF InOrder
      <4>0. PICK n \in 1 .. Len(L) : n = i + k
        BY <1>5
      <4>1. PICK j \in 1 .. n - 1 : L[j].msg = Msg(L[n].msg.tp, o)
        <5>1. InOrder(p) /\ o < L[n].msg.off /\ Msg(L[n].msg.tp, o) \notin handled
          BY <4>0 DEF IInv
        <5> QED
          BY <5>1 DEF InOrder
      <4>2. ~ (j <= k)
        BY <4>0, <4>1, <1>4, <1>2
      <4>3. j - k \in 1 .. i - 1 /\ (j - k) + k = j
        <5>1. n \in Nat /\ j \in Nat /\ i \in Nat /\ k \in Nat
          BY <1>1, <1>2
        <5>2. j < n /\ k < j /\ n = i + k
          BY <4>0, <4>2, <5>1
        <5> QED
          BY ONLY <5>1, <5>2
      <4>4. L[(j - k) + k].msg = Msg(L[i + k].msg.tp, o)
        BY <4>0, <4>1, <4>3
      <4> QED
        BY <4>3, <4>4
    <3> QED
      BY <3>1, <3>2
  <2> QED
    BY <2>1, <2>2
<1>10. ASSUME NEW x \in Messages, Known(x)
       PROVE  Known(x)'
  <2>1. CASE x \in handled
    BY <2>1 DEF Known
  <2>2. CASE InList(x) /\ PartitionOf(x) # p
    BY <2>2, <1>3, PartitionType DEF Known, InList
  <2>3. CASE InList(x) /\ PartitionOf(x) = p
    <3>1. PICK j \in 1 .. Len(L) : L[j].msg = x
      BY <2>3 DEF InList
    <3>2. CASE j <= k
      BY <3>1, <3>2, <1>1, <1>2, <1>4 DEF Known
    <3>3. CASE ~(j <= k)
      <4>1. j - k \in 1 .. Len(L) - k /\ (j - k) + k = j
        BY <3>3, <1>1, <1>2
      <4>2. list'[p][j - k].msg = x
        BY <3>1, <4>1, <1>3
      <4> QED
        BY <2>3, <4>1, <4>2, <1>3 DEF Known, InList
    <3> QED
      BY <3>2, <3>3
  <2> QED
    BY <1>10, <2>1, <2>2, <2>3 DEF Known
<1>11. HandInOrder' /\ PositionInOrder'
  BY <1>10, HandStep, PositionStep DEF InHand
<1>12. p \in managers /\ cons.pc # "handle"
  BY DEF IInv, Locking
<1>13. Unregistered'
  BY <1>3, <1>12 DEF IInv, Unregistered
<1>14. TailInHand'
  <2>1. cons.pc = "handleNew" => PartitionOf(cons.msg) # p /\ PartitionOf(cons.msg) \in Partitions
    BY <1>12, PartitionType DEF IInv, TypeOK, Unregistered
  <2> QED
    BY <2>1, <1>12, <1>3 DEF IInv, TailInHand
<1> QED
  BY <1>6, <1>7, <1>8, <1>9, <1>11, <1>13, <1>14 DEF IInv

LEMMA JoinTasksStep ==
  ASSUME IInv, JoinTasks
  PROVE  IInv'
<1> USE DEF JoinTasks, kafkaVars, boundVars, NoTask
<1>1. TypeOK'
  BY DEF IInv, TypeOK
<1>2. NoLoss' /\ KmsgAlive' /\ Locking'
  BY DEF IInv, NoLoss, KmsgAlive, Locking
<1> QED
  BY <1>1, <1>2, RunStep

LEMMA FlowControlStep ==
  ASSUME IInv, FlowControl
  PROVE  IInv'
<1> USE DEF FlowControl, kafkaVars, boundVars
<1>1. TypeOK'
  BY DEF IInv, TypeOK
<1>2. NoLoss' /\ KmsgAlive' /\ Locking'
  BY DEF IInv, NoLoss, KmsgAlive, Locking
<1> QED
  BY <1>1, <1>2, RunStep

LEMMA ApplyFlowControlStep ==
  ASSUME IInv, ApplyFlowControl
  PROVE  IInv'
<1> USE DEF ApplyFlowControl, boundVars
<1>1. TypeOK'
  BY DEF IInv, TypeOK
<1>2. NoLoss' /\ KmsgAlive' /\ Locking'
  BY DEF IInv, NoLoss, KmsgAlive, Locking
<1> QED
  BY <1>1, <1>2, RunStep

-----------------------------------------------------------------------------
(* The rest of the world.                                                  *)

LEMMA PeerCommitStep ==
  ASSUME IInv, NEW tp \in TopicPartitions, PeerCommit(tp)
  PROVE  IInv'
<1> DEFINE m == [tp |-> tp, off |-> committed[tp]]
<1> USE LogAssumption DEF PeerCommit, kafkaVars, runVars, boundVars
<1>1. m \in Messages
  BY DEF IInv, TypeOK, Messages, Offsets
<1>2. TypeOK'
  BY <1>1 DEF IInv, TypeOK
<1>3. NoLoss'
  <2> SUFFICES ASSUME NEW q \in TopicPartitions, NEW o \in Offsets, o < committed'[q]
               PROVE  Msg(q, o) \in handled'
    BY DEF NoLoss
  <2>1. o < committed[q] \/ (q = tp /\ o = committed[tp])
    BY DEF IInv, TypeOK, Offsets
  <2> QED
    BY <2>1 DEF IInv, NoLoss, Msg
<1>4. KmsgAlive' /\ Locking' /\ Unregistered' /\ TailInHand'
  BY DEF IInv, KmsgAlive, Locking, Unregistered, TailInHand
<1>5. (\A q \in Partitions : ListOK(q)' /\ InOrder(q)')
  BY DEF IInv, ListOK, InOrder
<1>6. \A x \in Messages : Known(x) => Known(x)'
  BY DEF Known, InList
<1>7. HandInOrder' /\ PositionInOrder'
  BY <1>6, HandStep, PositionStep DEF InHand
<1> QED
  BY <1>2, <1>3, <1>4, <1>5, <1>7 DEF IInv

LEMMA CrashStep ==
  ASSUME IInv, Crash
  PROVE  IInv'
<1> USE LogAssumption, BoundsAssumption DEF Crash, Consuming, NoTask
<1>1. TypeOK'
  <2>1. <<>> \in Seq(Entry)
    BY EmptySeq
  <2> QED
    BY <2>1 DEF IInv, TypeOK
<1>2. \A p \in Partitions : Len(list'[p]) = 0
  BY EmptySeq
<1>3. NoLoss'
  BY DEF IInv, NoLoss
<1>4. KmsgAlive' /\ HandInOrder' /\ PositionInOrder' /\ TailInHand' /\ Locking' /\ Unregistered'
  BY DEF KmsgAlive, HandInOrder, PositionInOrder, TailInHand, Locking, Unregistered
<1>5. (\A p \in Partitions : ListOK(p)' /\ InOrder(p)')
  BY <1>2 DEF ListOK, InOrder
<1> QED
  BY <1>1, <1>3, <1>4, <1>5 DEF IInv

-----------------------------------------------------------------------------

LEMMA StutterStep ==
  ASSUME IInv, UNCHANGED vars
  PROVE  IInv'
<1> USE DEF vars, kafkaVars, runVars, boundVars
<1>1. TypeOK' /\ NoLoss' /\ KmsgAlive' /\ Locking'
  BY DEF IInv, TypeOK, NoLoss, KmsgAlive, Locking
<1> QED
  BY <1>1, RunStep

LEMMA NextIInv == IInv /\ [Next]_vars => IInv'
<1> SUFFICES ASSUME IInv, [Next]_vars
             PROVE  IInv'
  OBVIOUS
<1>1. ASSUME NEW tp \in TopicPartitions, Consume(tp) PROVE IInv'
  BY <1>1, ConsumeStep
<1>2. CASE FindManager
  BY <1>2, FindManagerStep
<1>3. CASE CreateManager
  BY <1>3, CreateManagerStep
<1>4. CASE ProcessTodo
  BY <1>4, ProcessTodoStep
<1>5. CASE InsertManager
  BY <1>5, InsertManagerStep
<1>6. ASSUME NEW S \in SUBSET TopicPartitions, Assign(S) PROVE IInv'
  BY <1>6, AssignStep
<1>7. CASE Unassign
  BY <1>7, UnassignStep
<1>8. ASSUME NEW p \in Partitions, NEW i \in 1 .. Len(list[p]), Final(p, i) PROVE IInv'
  BY <1>8, FinalStep
<1>9. CASE StartTasks
  BY <1>9, StartTasksStep
<1>10. ASSUME NEW p \in Partitions, TaskStep(p) PROVE IInv'
  BY <1>10, FindFirstNotDoneStep, CountStatesStep, CommitStep, RemoveCommittedStep DEF TaskStep
<1>11. CASE JoinTasks
  BY <1>11, JoinTasksStep
<1>12. CASE FlowControl
  BY <1>12, FlowControlStep
<1>13. CASE ApplyFlowControl
  BY <1>13, ApplyFlowControlStep
<1>14. ASSUME NEW tp \in TopicPartitions, PeerCommit(tp) PROVE IInv'
  BY <1>14, PeerCommitStep
<1>15. CASE Crash
  BY <1>15, CrashStep
<1>16. CASE UNCHANGED vars
  BY <1>16, StutterStep
<1> QED
  BY <1>1, <1>2, <1>3, <1>4, <1>5, <1>6, <1>7, <1>8, <1>9, <1>10, <1>11, <1>12,
     <1>13, <1>14, <1>15, <1>16 DEF Next

(* The inductive invariant holds of every reachable state: the order of    *)
(* the lists and the locking that the other theorems rest on.              *)
THEOREM Invariance == Spec => []IInv
BY InitIInv, NextIInv, PTL DEF Spec

(* Every variable keeps its type: in particular a committed offset and a   *)
(* fetch position stay within the log.                                     *)
THEOREM TypeCorrect == Spec => []TypeOK
<1>1. IInv => TypeOK
  BY DEF IInv
<1> QED
  BY <1>1, Invariance, PTL

(* do_something never commits an offset above a message that was not       *)
(* finished: whatever is lost in a crash or a rebalance is read again.     *)
THEOREM NothingLost == Spec => []NoLoss
<1>1. IInv => NoLoss
  BY DEF IInv
<1> QED
  BY <1>1, Invariance, PTL

(* The raw pointer and the count that do_something carries from its scan   *)
(* to commit and remove_from_head stay true although m_mutex is released   *)
(* in between.                                                             *)
THEOREM ScanStaysTrue == Spec => []KmsgAlive
<1>1. IInv => KmsgAlive
  BY DEF IInv
<1> QED
  BY <1>1, Invariance, PTL

(* A step that keeps the messages of every list where they are, or further *)
(* entries behind them, takes none out.                                    *)
LEMMA KeptInList ==
  ASSUME NEW p \in Partitions, Len(list[p]) \in Nat, Len(list'[p]) \in Nat,
         Len(list'[p]) >= Len(list[p]),
         \A i \in 1 .. Len(list[p]) : list'[p][i].msg = list[p][i].msg,
         \A q \in Partitions \ {p} : list'[q] = list[q],
         NEW m \in Messages, InList(m)
  PROVE  InList(m)'
<1>1. PartitionOf(m) \in Partitions
  BY PartitionType
<1>2. CASE PartitionOf(m) = p
  BY <1>2 DEF InList
<1>3. CASE PartitionOf(m) # p
  BY <1>1, <1>3 DEF InList
<1> QED
  BY <1>2, <1>3

(* remove_from_head takes out what its own scan found finished.            *)
LEMMA RemovedWasHandled ==
  ASSUME IInv, NEW p \in Partitions, RemoveCommitted(p), NEW m \in Messages, InList(m)
  PROVE  InList(m)' \/ m \in handled
<1> DEFINE L == list[p]
           k == task[p].pos
<1>1. /\ L \in Seq(Entry) /\ Len(L) \in Nat /\ list \in [Partitions -> Seq(Entry)]
      /\ PartitionOf(m) \in Partitions
  BY LenProperties, PartitionType DEF IInv, TypeOK
<1>2. k \in 0 .. Len(L) /\ AllDone(L, k)
  BY <1>1 DEF RemoveCommitted, IInv, TypeOK, KmsgAlive
<1>3. list' = [list EXCEPT ![p] = RemoveFromHead(L, k)]
  BY DEF RemoveCommitted
<1>4. /\ Len(list'[p]) = Len(L) - k
      /\ \A i \in 1 .. Len(L) - k : list'[p][i] = L[i + k]
      /\ \A q \in Partitions : q # p => list'[q] = list[q]
  BY <1>1, <1>2, <1>3, RemoveFromHeadLemma
<1>5. CASE PartitionOf(m) # p
  BY <1>1, <1>4, <1>5 DEF InList
<1>6. CASE PartitionOf(m) = p
  <2>1. PICK i \in 1 .. Len(L) : L[i].msg = m
    BY <1>6 DEF InList
  <2>2. CASE i <= k
    <3>1. L[i].state = "DONE"
      BY <1>2, <2>2 DEF AllDone
    <3> QED
      BY <2>1, <3>1 DEF IInv, ListOK
  <2>3. CASE i > k
    <3>1. i - k \in 1 .. Len(L) - k /\ (i - k) + k = i
      BY <1>1, <1>2, <2>3
    <3>2. list'[p][i - k].msg = m
      BY <1>4, <2>1, <3>1
    <3> QED
      BY <1>4, <1>6, <3>1, <3>2 DEF InList
  <2> QED
    BY <1>1, <1>2, <2>2, <2>3
<1> QED
  BY <1>5, <1>6

LEMMA LeavesStep ==
  ASSUME IInv, [Next]_vars, crashes' = crashes, NEW m \in Messages, InList(m)
  PROVE  InList(m)' \/ m \in handled
<1>1. /\ list \in [Partitions -> Seq(Entry)]
      /\ \A p \in Partitions : list[p] \in Seq(Entry) /\ Len(list[p]) \in Nat
  BY LenProperties DEF IInv, TypeOK
<1>2. cons.pc # "consume" => cons.msg \in Messages /\ PartitionOf(cons.msg) \in Partitions
  BY PartitionType DEF IInv, TypeOK
<1>3. UNCHANGED list => InList(m)'
  BY DEF InList
<1>4. ASSUME NEW p \in Partitions, NEW n \in Messages,
             list' = [list EXCEPT ![p] = EmplaceBack(list[p], n)]
      PROVE  InList(m)'
  <2>1. /\ Len(list'[p]) = Len(list[p]) + 1
        /\ \A i \in 1 .. Len(list[p]) : list'[p][i] = list[p][i]
        /\ \A q \in Partitions \ {p} : list'[q] = list[q]
    BY <1>1, <1>4, EmplaceBackLemma
  <2> QED
    BY <1>1, <2>1, KeptInList
<1>5. ASSUME NEW p \in Partitions, NEW i \in 1 .. Len(list[p]), NEW s \in NodeState,
             list' = [list EXCEPT ![p] = SetState(list[p], i, s)]
      PROVE  InList(m)'
  <2>1. /\ Len(list'[p]) = Len(list[p])
        /\ \A j \in 1 .. Len(list[p]) : list'[p][j].msg = list[p][j].msg
        /\ \A q \in Partitions \ {p} : list'[q] = list[q]
    BY <1>1, <1>5, SetStateLemma
  <2> QED
    BY <1>1, <2>1, KeptInList
<1>6. CASE FindManager
  BY <1>2, <1>3, <1>4, <1>6 DEF FindManager
<1>7. CASE CreateManager
  <2>1. /\ cons.msg \in Messages /\ PartitionOf(cons.msg) \in Partitions
        /\ list' = [list EXCEPT ![PartitionOf(cons.msg)] = EmplaceBack(<<>>, cons.msg)]
    BY <1>2, <1>7 DEF CreateManager
  <2>2. list[PartitionOf(cons.msg)] = <<>>
    BY <1>7, <2>1 DEF CreateManager, IInv, Unregistered
  <2> QED
    BY <1>4, <2>1, <2>2
<1>8. CASE ProcessTodo
  <2>1. cons.pc \in {"handle", "handleNew"} /\ PartitionOf(cons.msg) \in Partitions
    BY <1>2, <1>8 DEF ProcessTodo
  <2>2. Len(list[PartitionOf(cons.msg)]) \in 1 .. Len(list[PartitionOf(cons.msg)])
    BY <1>1, <2>1 DEF IInv, TailInHand
  <2>3. \E s \in NodeState :
          list' = [list EXCEPT ![PartitionOf(cons.msg)] =
                     SetState(@, Len(list[PartitionOf(cons.msg)]), s)]
    BY <1>8 DEF ProcessTodo, NodeState
  <2> QED
    BY <1>5, <2>1, <2>2, <2>3
<1>9. ASSUME NEW p \in Partitions, NEW i \in 1 .. Len(list[p]), Final(p, i)
      PROVE  InList(m)'
  BY <1>5, <1>9 DEF Final, NodeState
<1>10. ASSUME NEW p \in Partitions, TaskStep(p)
       PROVE  InList(m)' \/ m \in handled
  BY <1>3, <1>10, RemovedWasHandled DEF TaskStep, FindFirstNotDone, CountStates, Commit
<1>11. ~Crash
  BY DEF Crash, IInv, TypeOK
<1>12. ASSUME \/ \E tp \in TopicPartitions : Consume(tp) \/ PeerCommit(tp)
              \/ \E S \in SUBSET TopicPartitions : Assign(S)
              \/ InsertManager \/ Unassign \/ StartTasks \/ JoinTasks
              \/ FlowControl \/ ApplyFlowControl \/ UNCHANGED vars
       PROVE  InList(m)'
  BY <1>3, <1>12 DEF Consume, PeerCommit, Assign, InsertManager, Unassign, StartTasks, JoinTasks,
                     FlowControl, ApplyFlowControl, vars
<1> QED
  BY <1>6, <1>7, <1>8, <1>9, <1>10, <1>11, <1>12 DEF Next

(* No message leaves the lists of the managers unfinished, whatever        *)
(* rebalances, failing commits and topics sharing a partition number do:   *)
(* only the death of the process empties them.                             *)
THEOREM NothingDropped == Spec => LeavesWhenHandled
<1>1. IInv /\ [Next]_vars =>
        [crashes' = crashes =>
           \A m \in Messages : InList(m) => InList(m)' \/ m \in handled]_list
  BY LeavesStep
<1> QED
  BY <1>1, Invariance, PTL DEF Spec, LeavesWhenHandled

-----------------------------------------------------------------------------
(* Refinement of AtLeastOnce: the offsets and the handled messages are the *)
(* same, and every other variable is an implementation detail.             *)

LEMMA HandledBelowCommitted ==
  ASSUME TypeOK, NoLoss, NEW tp \in TopicPartitions
  PROVE  Promise!HandledBelow(tp, committed[tp])
<1>1. \A o \in 0 .. committed[tp] - 1 : o \in Offsets /\ o < committed[tp]
  BY LogAssumption DEF TypeOK, Offsets
<1> QED
  BY <1>1 DEF Promise!HandledBelow, NoLoss, Msg

LEMMA HandleRefines ==
  ASSUME NEW m \in Messages, handled' = handled \cup {m}, UNCHANGED committed
  PROVE  Promise!Next
BY DEF Promise!Next, Promise!Handle

LEMMA CommitRefines ==
  ASSUME IInv, IInv', NEW p \in Partitions, Commit(p)
  PROVE  [Promise!Next]_<<committed, handled>>
<1> DEFINE m == task[p].kmsg
<1> USE DEF Commit
<1>1. CASE UNCHANGED committed
  BY <1>1
<1>2. CASE m # NoMsg /\ committed' = [committed EXCEPT ![m.tp] = m.off + 1]
  <2>1. m \in Messages
    BY <1>2 DEF IInv, TypeOK
  <2>2. m.tp \in TopicPartitions /\ m.off \in Offsets
    BY <2>1, PartitionType
  <2>3. PICK tp \in TopicPartitions, n \in 0 .. LogLen : tp = m.tp /\ n = m.off + 1
    <3>1. m.off + 1 \in 0 .. LogLen
      BY <2>2, LogAssumption DEF Offsets
    <3> QED
      BY <2>2, <3>1, Zenon
  <2>4. committed' = [committed EXCEPT ![tp] = n] /\ committed'[tp] = n
    BY <1>2, <2>3 DEF IInv, TypeOK
  <2>5. Promise!HandledBelow(tp, n)
    <3>1. \A o \in 0 .. n - 1 : o \in Offsets /\ o < committed'[tp]
      BY <2>3, <2>4, LogAssumption DEF Offsets
    <3>2. \A o \in 0 .. n - 1 : Msg(tp, o) \in handled'
      BY <3>1 DEF IInv, NoLoss, Msg
    <3> QED
      BY <3>2 DEF Promise!HandledBelow, Msg
  <2>6. Promise!Commit(tp, n)
    BY <2>4, <2>5 DEF Promise!Commit
  <2> QED
    BY <2>6 DEF Promise!Next
<1> QED
  BY <1>1, <1>2

LEMMA NextRefines ==
  ASSUME IInv, IInv', [Next]_vars
  PROVE  [Promise!Next]_<<committed, handled>>
<1>1. ASSUME NEW tp \in TopicPartitions, Consume(tp)
      PROVE  [Promise!Next]_<<committed, handled>>
  <2> DEFINE m == [tp |-> tp, off |-> position[tp]]
  <2>1. m \in Messages
    BY <1>1, LogAssumption DEF Consume, IInv, TypeOK, Messages, Offsets
  <2>2. CASE handled' = handled \cup {m}
    BY <1>1, <2>1, <2>2, HandleRefines DEF Consume
  <2>3. CASE UNCHANGED handled
    BY <1>1, <2>3 DEF Consume
  <2> QED
    BY <1>1, <2>2, <2>3 DEF Consume
<1>2. CASE ProcessTodo
  <2>1. CASE UNCHANGED handled
    BY <1>2, <2>1 DEF ProcessTodo
  <2>2. CASE handled' = handled \cup {cons.msg}
    <3>1. cons.msg \in Messages /\ UNCHANGED committed
      BY <1>2 DEF ProcessTodo, IInv, TypeOK
    <3> QED
      BY <2>2, <3>1, HandleRefines
  <2> QED
    BY <1>2, <2>1, <2>2 DEF ProcessTodo
<1>3. ASSUME NEW p \in Partitions, NEW i \in 1 .. Len(list[p]), Final(p, i)
      PROVE  [Promise!Next]_<<committed, handled>>
  <2>1. list[p][i] \in Entry
    BY ElementOfSeq DEF IInv, TypeOK
  <2>2. list[p][i].msg \in Messages
    BY <2>1 DEF Entry
  <2> QED
    BY <1>3, <2>2, HandleRefines DEF Final
<1>4. ASSUME NEW p \in Partitions, TaskStep(p)
      PROVE  [Promise!Next]_<<committed, handled>>
  BY <1>4, CommitRefines DEF TaskStep, FindFirstNotDone, CountStates, RemoveCommitted
<1>5. ASSUME NEW tp \in TopicPartitions, PeerCommit(tp)
      PROVE  [Promise!Next]_<<committed, handled>>
  <2>1. Promise!HandledBelow(tp, committed[tp])
    BY HandledBelowCommitted DEF IInv
  <2>2. Promise!HandleAndCommit(tp)
    BY <1>5, <2>1 DEF PeerCommit, Promise!HandleAndCommit
  <2> QED
    BY <2>2 DEF Promise!Next
<1>6. ASSUME NEW S \in SUBSET TopicPartitions, Assign(S)
      PROVE  [Promise!Next]_<<committed, handled>>
  BY <1>6 DEF Assign
<1>7. CASE FindManager \/ CreateManager \/ InsertManager \/ Unassign
  BY <1>7 DEF FindManager, CreateManager, InsertManager, Unassign
<1>8. CASE StartTasks \/ JoinTasks \/ FlowControl \/ ApplyFlowControl \/ Crash
  BY <1>8 DEF StartTasks, JoinTasks, FlowControl, ApplyFlowControl, Crash
<1>9. CASE UNCHANGED vars
  BY <1>9 DEF vars
<1> QED
  BY <1>1, <1>2, <1>3, <1>4, <1>5, <1>6, <1>7, <1>8, <1>9 DEF Next

(* The consuming side keeps its promise: whatever the threads, rebalances, *)
(* peers, failed commits and crashes do, commits follow handled prefixes.  *)
THEOREM ImplementsAtLeastOnce == Spec => AtLeastOnceSpec
<1>1. Init => Promise!Init
  BY DEF Init, Promise!Init
<1>2. IInv /\ IInv' /\ [Next]_vars => [Promise!Next]_<<committed, handled>>
  BY NextRefines
<1> QED
  BY <1>1, <1>2, Invariance, PTL DEF Spec, AtLeastOnceSpec, Promise!Spec

-----------------------------------------------------------------------------
(* RemovedIsCommitted and CommitMonotone hold for any partitions, logs,    *)
(* commit_num and max_cache_size and any number of crashes, provided that  *)
(* one topic is subscribed to, the group does not rebalance and no commit  *)
(* fails (Quiet): the second inductive invariant of the consumer.          *)


LEMMA Lists ==
  ASSUME IInv, NEW p \in Partitions
  PROVE  /\ list[p] \in Seq(Entry) /\ Len(list[p]) \in Nat
         /\ \A i \in 1 .. Len(list[p]) :
              /\ list[p][i].msg \in Messages /\ list[p][i].msg.tp \in TopicPartitions
              /\ list[p][i].msg.off \in Nat /\ PartitionOf(list[p][i].msg) = p
<1>1. list[p] \in Seq(Entry) /\ Len(list[p]) \in Nat
  BY LenProperties DEF IInv, TypeOK
<1>2. \A i \in 1 .. Len(list[p]) : list[p][i].msg \in Messages
  <2>1. \A i \in 1 .. Len(list[p]) : list[p][i] \in Entry
    BY <1>1, ElementOfSeq
  <2> QED
    BY <2>1 DEF Entry
<1>3. \A i \in 1 .. Len(list[p]) :
        list[p][i].msg.tp \in TopicPartitions /\ list[p][i].msg.off \in Nat
  BY <1>2, PartitionType, LogAssumption DEF Offsets
<1> QED
  BY <1>1, <1>2, <1>3 DEF IInv, ListOK

(* One partition number, one Kafka partition.                              *)
LEMMA OnePartition ==
  ASSUME Quiet, NEW x \in Messages, NEW y \in Messages, PartitionOf(x) = PartitionOf(y)
  PROVE  x.tp = y.tp
  BY PartitionType DEF Quiet, PartitionOf

LEMMA OffsetTypes ==
  ASSUME IInv
  PROVE  /\ \A tp \in TopicPartitions : committed[tp] \in Nat /\ position[tp] \in Nat
         /\ assigned \subseteq TopicPartitions
         /\ cons.pc # "consume" =>
              /\ cons.msg \in Messages /\ cons.msg.tp \in TopicPartitions /\ cons.msg.off \in Nat
              /\ PartitionOf(cons.msg) \in Partitions
  BY PartitionType, LogAssumption DEF IInv, TypeOK, Offsets

(* What a list says of its messages, apart from their states.              *)
SameMessages(p) ==
  /\ Len(list'[p]) = Len(list[p])
  /\ \A i \in 1 .. Len(list[p]) : list'[p][i].msg = list[p][i].msg

(* A step in which no message is delivered, committed or removed.          *)
LEMMA CalmStep ==
  ASSUME IInv, OnceInv, UNCHANGED <<committed, assigned, position>>,
         \A p \in Partitions : SameMessages(p),
         \A p \in Partitions :
           \/ task'[p].pc # "remove" /\ task[p].pc # "remove"
           \/ task'[p] = task[p],
         cons'.pc \in {"find", "create"} => cons.pc \in {"find", "create"} /\ cons'.msg = cons.msg,
         \A m \in Messages : InHand(m) => InHand(m)'
  PROVE  OnceInv'
<1>1. ASSUME NEW p \in Partitions
      PROVE  Rising(p)' /\ Owned(p)' /\ Ahead(p)' /\ Covered(p)'
  <2>1. SameMessages(p) /\ Rising(p) /\ Owned(p) /\ Ahead(p) /\ Covered(p)
    BY DEF OnceInv
  <2>2. Rising(p)' /\ Owned(p)'
    BY <2>1 DEF SameMessages, Rising, Owned
  <2>3. Ahead(p)' /\ Covered(p)'
    BY <2>1 DEF SameMessages, Ahead, Covered
  <2> QED
    BY <2>2, <2>3
<1>2. HandAhead'
  <2> SUFFICES ASSUME cons'.pc \in {"find", "create"}
               PROVE  HandAhead'
    BY DEF HandAhead
  <2>1. cons.pc \in {"find", "create"} /\ cons'.msg = cons.msg
    OBVIOUS
  <2>2. PartitionOf(cons.msg) \in Partitions
    BY <2>1, OffsetTypes
  <2>3. SameMessages(PartitionOf(cons.msg))
    BY <2>2
  <2> QED
    BY <2>1, <2>3 DEF OnceInv, HandAhead, SameMessages
<1>3. PositionAhead'
  BY DEF OnceInv, PositionAhead
<1>4. RemovedIsCommitted'
  <2> SUFFICES ASSUME NEW tp \in assigned, NEW o \in Offsets, o < position[tp]
               PROVE  \/ o < committed[tp]
                      \/ InList(Msg(tp, o))'
                      \/ InHand(Msg(tp, o))'
                      \/ Msg(tp, o) \in Unreadable
    BY DEF RemovedIsCommitted, Msg, InList, InHand
  <2> DEFINE m == Msg(tp, o)
  <2>1. m \in Messages /\ PartitionOf(m) \in Partitions
    <3>1. tp \in TopicPartitions
      BY OffsetTypes
    <3>2. m \in Messages
      BY <3>1 DEF Msg, Messages
    <3> QED
      BY <3>2, PartitionType
  <2>2. o < committed[tp] \/ InList(m) \/ InHand(m) \/ m \in Unreadable
    BY DEF OnceInv, RemovedIsCommitted
  <2> HIDE DEF m
  <2>3. InList(m) => InList(m)'
    BY <2>1 DEF InList, SameMessages
  <2>4. InHand(m) => InHand(m)'
    BY <2>1
  <2> QED
    BY <2>2, <2>3, <2>4 DEF m
<1> QED
  BY <1>1, <1>2, <1>3, <1>4 DEF OnceInv

LEMMA SameLists ==
  ASSUME list' = list
  PROVE  \A p \in Partitions : SameMessages(p)
  BY DEF SameMessages

LEMMA OnceConsume ==
  ASSUME Quiet, IInv, OnceInv, NEW tp \in TopicPartitions, Consume(tp)
  PROVE  OnceInv'
<1> DEFINE m == [tp |-> tp, off |-> position[tp]]
<1> USE DEF kafkaVars, runVars, boundVars
<1>1. /\ list' = list /\ task' = task /\ committed' = committed /\ assigned' = assigned
      /\ tp \in assigned /\ position[tp] \in Nat /\ position'[tp] = position[tp] + 1
      /\ \A q \in TopicPartitions : q # tp => position'[q] = position[q]
      /\ cons.pc = "consume"
      /\ \A q \in TopicPartitions : position[q] \in Nat /\ position'[q] \in Nat /\ position[q] <= position'[q]
  BY OffsetTypes, LogAssumption DEF Consume, IInv, TypeOK
<1>2. /\ m \in Messages /\ PartitionOf(m) \in Partitions /\ PartitionOf(m) = tp[2]
      /\ (m \in Unreadable /\ cons' = cons) \/ cons' = [pc |-> "find", msg |-> m]
  <2>1. m \in Messages
    BY LogAssumption DEF Consume, IInv, TypeOK, Messages, Offsets
  <2> QED
    BY <2>1, PartitionType DEF Consume, PartitionOf
<1>3. ASSUME NEW p \in Partitions
      PROVE  Rising(p)' /\ Owned(p)' /\ Ahead(p)' /\ Covered(p)'
  <2>1. Rising(p)' /\ Ahead(p)' /\ Covered(p)'
    BY <1>1 DEF OnceInv, Rising, Ahead, Covered
  <2>2. Owned(p)'
    <3> SUFFICES ASSUME NEW i \in 1 .. Len(list[p])
                 PROVE  list[p][i].msg.tp \in assigned /\ list[p][i].msg.off < position'[list[p][i].msg.tp]
      BY <1>1 DEF Owned
    <3>1. list[p][i].msg.tp \in assigned /\ list[p][i].msg.off < position[list[p][i].msg.tp]
      BY DEF OnceInv, Owned
    <3>2. list[p][i].msg.tp \in TopicPartitions /\ list[p][i].msg.off \in Nat
      BY Lists
    <3> QED
      BY <1>1, <3>1, <3>2
  <2> QED
    BY <2>1, <2>2
<1>4. HandAhead'
  <2> SUFFICES ASSUME cons'.pc \in {"find", "create"}
               PROVE  HandAhead'
    BY DEF HandAhead
  <2>1. cons'.msg = m
    BY <1>1, <1>2
  <2>2. committed[tp] <= position[tp] /\ position[tp] < position'[tp]
    BY <1>1 DEF OnceInv, PositionAhead
  <2>3. ASSUME NEW i \in 1 .. Len(list[PartitionOf(m)])
        PROVE  list[PartitionOf(m)][i].msg.off < position[tp]
    <3> DEFINE x == list[PartitionOf(m)][i].msg
    <3>1. x \in Messages /\ PartitionOf(x) = PartitionOf(m)
      BY <1>2, Lists
    <3>2. x.tp = m.tp
      BY <1>2, <3>1, OnePartition
    <3>3. x.off < position[x.tp]
      BY <1>2 DEF OnceInv, Owned
    <3> QED
      BY <3>2, <3>3
  <2> QED
    BY <1>1, <2>1, <2>2, <2>3 DEF HandAhead
<1>5. PositionAhead'
  <2> SUFFICES ASSUME NEW q \in assigned
               PROVE  committed[q] <= position'[q]
    BY <1>1 DEF PositionAhead
  <2>1. q \in TopicPartitions /\ committed[q] \in Nat /\ committed[q] <= position[q]
    BY OffsetTypes DEF OnceInv, PositionAhead
  <2> QED
    BY <1>1, <2>1
<1>6. RemovedIsCommitted'
  <2> SUFFICES ASSUME NEW q \in assigned, NEW o \in Offsets, o < position'[q]
               PROVE  o < committed[q] \/ InList(Msg(q, o)) \/ InHand(Msg(q, o))' \/ Msg(q, o) \in Unreadable
    BY <1>1 DEF RemovedIsCommitted, Msg, InList, InHand
  <2>1. CASE q = tp /\ o = position[tp]
    <3>1. Msg(q, o) = m
      BY <2>1 DEF Msg
    <3>2. cons' = [pc |-> "find", msg |-> m] => InHand(Msg(q, o))'
      BY <3>1 DEF InHand, Msg
    <3> QED
      BY <1>2, <3>1, <3>2
  <2>2. CASE ~(q = tp /\ o = position[tp])
    <3>1. q \in TopicPartitions /\ o \in Nat
      BY OffsetTypes, LogAssumption DEF Offsets
    <3>2. o < position[q]
      BY <1>1, <2>2, <3>1
    <3>3. ~InHand(Msg(q, o))
      BY <1>1 DEF InHand
    <3> QED
      BY <3>2, <3>3 DEF OnceInv, RemovedIsCommitted
  <2> QED
    BY <2>1, <2>2
<1> QED
  BY <1>3, <1>4, <1>5, <1>6 DEF OnceInv

(* The message in hand goes to the tail of its list.                       *)
LEMMA OnceEmplace ==
  ASSUME Quiet, IInv, OnceInv, NEW p \in Partitions,
         cons.pc \in {"find", "create"}, p = PartitionOf(cons.msg), task[p].pc = "idle",
         list' = [list EXCEPT ![p] = EmplaceBack(list[p], cons.msg)],
         cons'.pc \in {"handle", "handleNew"},
         UNCHANGED <<committed, assigned, position, task>>
  PROVE  OnceInv'
<1> DEFINE m == cons.msg
           n == Len(list[p])
<1>1. /\ m \in Messages /\ m.tp \in TopicPartitions /\ m.off \in Nat /\ n \in Nat
      /\ list \in [Partitions -> Seq(Entry)] /\ list[p] \in Seq(Entry)
  BY OffsetTypes, Lists DEF IInv, TypeOK
<1>2. /\ Len(list'[p]) = n + 1
      /\ \A i \in 1 .. n : list'[p][i] = list[p][i]
      /\ list'[p][n + 1].msg = m
      /\ \A q \in Partitions : q # p => list'[q] = list[q]
  <2>1. list'[p] = EmplaceBack(list[p], m) /\ \A q \in Partitions : q # p => list'[q] = list[q]
    BY <1>1
  <2>2. /\ Len(EmplaceBack(list[p], m)) = n + 1
        /\ \A i \in 1 .. n : EmplaceBack(list[p], m)[i] = list[p][i]
        /\ EmplaceBack(list[p], m)[n + 1] = Data(m)
    BY <1>1, EmplaceBackLemma
  <2>3. Data(m).msg = m
    BY DEF Data
  <2> HIDE DEF m, n
  <2> QED
    BY <2>1, <2>2, <2>3
<1>3. \A i \in 1 .. n + 1 : i \in 1 .. n \/ i = n + 1
  BY <1>1
<1>4. /\ m.tp \in assigned /\ committed[m.tp] <= m.off /\ m.off < position[m.tp]
      /\ \A i \in 1 .. n : list[p][i].msg.off < m.off
  BY DEF OnceInv, HandAhead
<1> HIDE DEF m, n
<1>5. ASSUME NEW q \in Partitions
      PROVE  Rising(q)' /\ Owned(q)' /\ Ahead(q)' /\ Covered(q)'
  <2>1. CASE q # p
    BY <1>2, <2>1 DEF OnceInv, Rising, Owned, Ahead, Covered
  <2>2. CASE q = p
    <3>1. Rising(p)'
      <4> SUFFICES ASSUME NEW i \in 1 .. n + 1, NEW j \in 1 .. n + 1, i < j
                   PROVE  list'[p][i].msg.off < list'[p][j].msg.off
        BY <1>2 DEF Rising
      <4>1. i \in 1 .. n
        BY <1>1
      <4>2. CASE j = n + 1
        BY <1>2, <1>4, <4>1, <4>2
      <4>3. CASE j \in 1 .. n
        BY <1>2, <4>1, <4>3 DEF OnceInv, Rising, n
      <4> QED
        BY <1>3, <4>2, <4>3
    <3>2. Owned(p)'
      <4>1. \A i \in 1 .. n : list[p][i].msg.tp \in assigned /\ list[p][i].msg.off < position[list[p][i].msg.tp]
        BY DEF OnceInv, Owned, n
      <4> QED
        BY <1>2, <1>3, <1>4, <4>1 DEF Owned
    <3>3. Ahead(p)'
      <4>1. \A i \in 1 .. n : committed[list[p][i].msg.tp] <= list[p][i].msg.off
        BY DEF OnceInv, Ahead, n
      <4> QED
        BY <1>2, <1>3, <1>4, <4>1 DEF Ahead
    <3>4. Covered(p)'
      BY DEF Covered
    <3> QED
      BY <2>2, <3>1, <3>2, <3>3, <3>4
  <2> QED
    BY <2>1, <2>2
<1>6. HandAhead' /\ PositionAhead'
  BY DEF OnceInv, HandAhead, PositionAhead
<1>7. RemovedIsCommitted'
  <2> SUFFICES ASSUME NEW q \in assigned, NEW o \in Offsets, o < position[q]
               PROVE  o < committed[q] \/ InList(Msg(q, o))' \/ Msg(q, o) \in Unreadable
    BY DEF RemovedIsCommitted, Msg, InList
  <2> DEFINE x == Msg(q, o)
  <2>1. x \in Messages /\ PartitionOf(x) \in Partitions
    <3>1. x \in Messages
      BY OffsetTypes DEF Msg, Messages
    <3> QED
      BY <3>1, PartitionType
  <2>2. o < committed[q] \/ InList(x) \/ InHand(x) \/ x \in Unreadable
    BY DEF OnceInv, RemovedIsCommitted
  <2> HIDE DEF x
  <2>3. InHand(x) => InList(x)'
    <3>1. n + 1 \in 1 .. n + 1
      BY <1>1
    <3>2. InHand(x) => x = m /\ PartitionOf(x) = p
      BY DEF InHand, m
    <3> QED
      BY <1>2, <3>1, <3>2 DEF InList
  <2>4. InList(x) => InList(x)'
    <3>1. \A i \in 1 .. n : i \in 1 .. n + 1
      BY <1>1
    <3> QED
      BY <1>2, <2>1, <3>1 DEF InList, n
  <2> QED
    BY <2>2, <2>3, <2>4 DEF x
<1> QED
  BY <1>5, <1>6, <1>7 DEF OnceInv

LEMMA OnceFindManager ==
  ASSUME Quiet, IInv, OnceInv, FindManager
  PROVE  OnceInv'
<1> DEFINE p == PartitionOf(cons.msg)
<1> USE DEF FindManager, kafkaVars, runVars, boundVars
<1>1. p \in Partitions /\ cons.pc = "find" /\ task[p].pc = "idle"
  BY OffsetTypes DEF IInv, Locking
<1>2. CASE p \in managers
  <2>1. list' = [list EXCEPT ![p] = EmplaceBack(list[p], cons.msg)] /\ cons'.pc = "handle"
    BY <1>2 DEF IInv, TypeOK
  <2> QED
    BY <1>1, <2>1, OnceEmplace
<1>3. CASE p \notin managers
  <2>1. list' = list /\ task' = task /\ cons'.pc = "create" /\ cons'.msg = cons.msg
    BY <1>3 DEF IInv, TypeOK
  <2>2. \A m \in Messages : InHand(m) => InHand(m)'
    BY <1>1, <2>1 DEF InHand
  <2> QED
    BY <1>1, <2>1, <2>2, SameLists, CalmStep
<1> QED
  BY <1>2, <1>3

LEMMA OnceCreateManager ==
  ASSUME Quiet, IInv, OnceInv, CreateManager
  PROVE  OnceInv'
<1> DEFINE p == PartitionOf(cons.msg)
<1> USE DEF CreateManager, kafkaVars, runVars, boundVars
<1>1. p \in Partitions /\ cons.pc = "create" /\ p \notin managers
  BY OffsetTypes DEF IInv, Unregistered
<1>2. task[p].pc = "idle" /\ list[p] = <<>>
  BY <1>1 DEF IInv, Locking, Unregistered
<1>3. list' = [list EXCEPT ![p] = EmplaceBack(list[p], cons.msg)] /\ cons'.pc = "handleNew"
  BY <1>2 DEF IInv, TypeOK
<1> QED
  BY <1>1, <1>2, <1>3, OnceEmplace

LEMMA SetStateSame ==
  ASSUME IInv, NEW p \in Partitions, NEW i \in 1 .. Len(list[p]), NEW s \in NodeState,
         list' = [list EXCEPT ![p] = SetState(list[p], i, s)]
  PROVE  \A q \in Partitions : SameMessages(q)
<1>1. list \in [Partitions -> Seq(Entry)]
  BY DEF IInv, TypeOK
<1> QED
  BY <1>1, SetStateLemma DEF SameMessages

LEMMA OnceProcessTodo ==
  ASSUME IInv, OnceInv, ProcessTodo
  PROVE  OnceInv'
<1> DEFINE p == PartitionOf(cons.msg)
<1> USE DEF kafkaVars, runVars, boundVars
<1>1. /\ p \in Partitions /\ cons.pc \in {"handle", "handleNew"} /\ Len(list[p]) \in 1 .. Len(list[p])
      /\ cons'.pc \notin {"find", "create"} /\ UNCHANGED <<committed, assigned, position, task>>
  <2>1. cons.pc \in {"handle", "handleNew"}
    BY DEF ProcessTodo
  <2>2. p \in Partitions
    BY <2>1, OffsetTypes
  <2>3. Len(list[p]) \in Nat /\ Len(list[p]) > 0
    BY <2>1, <2>2, Lists DEF IInv, TailInHand
  <2> QED
    BY <2>1, <2>2, <2>3 DEF ProcessTodo, Consuming, IInv, TypeOK
<1>2. PICK s \in NodeState : list' = [list EXCEPT ![p] = SetState(list[p], Len(list[p]), s)]
  BY DEF ProcessTodo, NodeState
<1>3. \A q \in Partitions : SameMessages(q)
  BY <1>1, <1>2, SetStateSame
<1>4. \A m \in Messages : ~InHand(m)
  BY <1>1 DEF InHand
<1> QED
  BY <1>1, <1>3, <1>4, CalmStep

LEMMA OnceFinal ==
  ASSUME IInv, OnceInv, NEW p \in Partitions, NEW i \in 1 .. Len(list[p]), Final(p, i)
  PROVE  OnceInv'
<1>1. list' = [list EXCEPT ![p] = SetState(list[p], i, "DONE")]
      /\ UNCHANGED <<committed, assigned, position, task, cons>>
  BY DEF Final, kafkaVars, runVars
<1>2. \A q \in Partitions : SameMessages(q)
  BY <1>1, SetStateSame DEF NodeState
<1> QED
  BY <1>1, <1>2, CalmStep DEF InHand

(* Steps of the Run thread that only move tasks and flow control.          *)
LEMMA OnceRun ==
  ASSUME IInv, OnceInv,
         \/ InsertManager \/ StartTasks \/ JoinTasks \/ FlowControl \/ ApplyFlowControl
         \/ \E p \in Partitions : FindFirstNotDone(p) \/ CountStates(p)
         \/ UNCHANGED vars
  PROVE  OnceInv'
<1> USE DEF kafkaVars, runVars, boundVars
<1>1. UNCHANGED <<committed, assigned, position, list>>
  BY DEF InsertManager, StartTasks, JoinTasks, FlowControl, ApplyFlowControl, FindFirstNotDone,
     CountStates, vars
<1>2. (cons' = cons) \/ (cons.pc = "insert" /\ cons'.pc = "consume")
  BY DEF InsertManager, StartTasks, JoinTasks, FlowControl, ApplyFlowControl, FindFirstNotDone,
     CountStates, vars, Consuming
<1>3. \A p \in Partitions :
        (task'[p].pc # "remove" /\ task[p].pc # "remove") \/ task'[p] = task[p]
  <2>1. CASE StartTasks
    BY <2>1 DEF StartTasks, NoTask, IInv, Locking
  <2>2. CASE JoinTasks
    BY <2>2 DEF JoinTasks, NoTask, IInv, TypeOK
  <2>3. ASSUME NEW p \in Partitions, FindFirstNotDone(p) \/ CountStates(p)
        PROVE  \A q \in Partitions :
                 (task'[q].pc # "remove" /\ task[q].pc # "remove") \/ task'[q] = task[q]
    BY <2>3 DEF FindFirstNotDone, CountStates, IInv, TypeOK
  <2>4. CASE InsertManager \/ FlowControl \/ ApplyFlowControl \/ UNCHANGED vars
    BY <2>4 DEF InsertManager, FlowControl, ApplyFlowControl, vars
  <2> QED
    BY <2>1, <2>2, <2>3, <2>4
<1> QED
  BY <1>1, <1>2, <1>3, SameLists, CalmStep DEF InHand

LEMMA OnceAssign ==
  ASSUME IInv, OnceInv, NEW S \in SUBSET TopicPartitions, Assign(S)
  PROVE  OnceInv'
<1> USE DEF runVars, boundVars
<1>1. /\ assigned = {} /\ cons.pc = "consume" /\ cons' = cons /\ list' = list /\ committed' = committed
      /\ task' = task /\ \A tp \in assigned' : position'[tp] = committed[tp] /\ tp \in TopicPartitions
  BY DEF Assign
<1>2. ASSUME NEW p \in Partitions
      PROVE  Len(list[p]) = 0
  <2>1. Len(list[p]) \in Nat /\ \A i \in 1 .. Len(list[p]) : FALSE
    BY <1>1, Lists DEF OnceInv, Owned
  <2> QED
    BY <2>1
<1>3. \A p \in Partitions : Rising(p)' /\ Owned(p)' /\ Ahead(p)' /\ Covered(p)'
  BY <1>1, <1>2 DEF OnceInv, Rising, Owned, Ahead, Covered
<1>4. HandAhead'
  BY <1>1 DEF HandAhead
<1>5. PositionAhead'
  BY <1>1, OffsetTypes DEF PositionAhead
<1>6. RemovedIsCommitted'
  BY <1>1 DEF RemovedIsCommitted
<1> QED
  BY <1>3, <1>4, <1>5, <1>6 DEF OnceInv

(* A commit goes forward: what is in the list is not committed yet.        *)
LEMMA OnceCommit ==
  ASSUME Quiet, IInv, OnceInv, NEW p \in Partitions, Commit(p)
  PROVE  OnceInv' /\ \A tp \in TopicPartitions : committed'[tp] >= committed[tp]
<1> DEFINE m == task[p].kmsg
           k == task[p].pos
<1> USE DEF kafkaVars, boundVars
<1>1. /\ task[p].pc = "commit" /\ k \in Nat /\ k <= Len(list[p]) /\ Len(list[p]) \in Nat
      /\ m = IF k = 0 THEN NoMsg ELSE list[p][k].msg
      /\ UNCHANGED <<assigned, position, list, cons>>
      /\ task' = [task EXCEPT ![p].pc = "remove"] /\ task \in [Partitions -> [pc : {"idle", "scan", "count", "commit", "remove", "end"}, pos : Nat, force : BOOLEAN, kmsg : Messages \cup {NoMsg}]]
  BY Lists DEF Commit, IInv, TypeOK, KmsgAlive
<1>2. /\ task'[p].pc = "remove" /\ task'[p].pos = k /\ task'[p].kmsg = m
      /\ \A q \in Partitions : q # p => task'[q] = task[q]
  BY <1>1
<1>3. CASE k = 0
  <2>1. committed' = committed
    BY <1>1, <1>3 DEF Commit
  <2>2. ASSUME NEW q \in Partitions
        PROVE  Rising(q)' /\ Owned(q)' /\ Ahead(q)' /\ Covered(q)'
    <3>1. Rising(q)' /\ Owned(q)'
      BY <1>1 DEF OnceInv, Rising, Owned
    <3>2. Ahead(q)' /\ Covered(q)'
      BY <1>1, <1>2, <1>3, <2>1 DEF OnceInv, Ahead, Covered
    <3> QED
      BY <3>1, <3>2
  <2>3. HandAhead' /\ PositionAhead' /\ RemovedIsCommitted'
    BY <1>1, <2>1 DEF OnceInv, HandAhead, PositionAhead, RemovedIsCommitted, InList, InHand
  <2> QED
    BY <2>1, <2>2, <2>3, OffsetTypes DEF OnceInv
<1>4. CASE k # 0
  <2>1. k \in 1 .. Len(list[p]) /\ m = list[p][k].msg /\ m \in Messages /\ m.tp \in TopicPartitions
        /\ m.off \in Nat /\ PartitionOf(m) = p
    BY <1>1, <1>4, Lists
  <2>2. committed' = [committed EXCEPT ![m.tp] = m.off + 1]
    BY <2>1, NoMsgIsNoMessage DEF Commit, Quiet
  <2>3. /\ committed'[m.tp] = m.off + 1
        /\ \A tp \in TopicPartitions : tp # m.tp => committed'[tp] = committed[tp]
    BY <2>1, <2>2 DEF IInv, TypeOK
  <2>4. committed[m.tp] <= m.off /\ m.tp \in assigned /\ m.off < position[m.tp]
    BY <1>1, <2>1 DEF OnceInv, Ahead, Owned
  <2>5. ASSUME NEW tp \in TopicPartitions
        PROVE  committed'[tp] >= committed[tp]
    <3>1. committed[tp] \in Nat /\ committed[m.tp] \in Nat
      BY <2>1, OffsetTypes
    <3>2. CASE tp = m.tp
      <4>1. \A a, b \in Nat : a <= b => b + 1 >= a
        OBVIOUS
      <4> HIDE DEF m
      <4>2. m.off + 1 >= committed[m.tp]
        BY <2>1, <2>4, <3>1, <4>1
      <4>3. committed'[tp] = m.off + 1 /\ committed[tp] = committed[m.tp]
        BY <2>3, <3>2, Zenon
      <4> QED
        BY <4>2, <4>3, Zenon
    <3>3. CASE tp # m.tp
      BY <2>3, <3>1, <3>3
    <3> QED
      BY <3>2, <3>3
  <2> HIDE DEF m, k
  <2>6. ASSUME NEW q \in Partitions
        PROVE  Rising(q)' /\ Owned(q)' /\ Ahead(q)' /\ Covered(q)'
    <3>1. Rising(q)' /\ Owned(q)'
      BY <1>1 DEF OnceInv, Rising, Owned
    <3>2. CASE q = p
      <4>1. Covered(q)'
        BY <1>2, <2>1, <2>3, <3>2 DEF Covered
      <4>2. ASSUME NEW i \in 1 .. Len(list[p]), ~(i <= k)
            PROVE  committed'[list[p][i].msg.tp] <= list[p][i].msg.off
        <5>1. k < i
          BY <1>1, <4>2
        <5>2. m.off < list[p][i].msg.off /\ list[p][i].msg.off \in Nat
          BY <2>1, <5>1, Lists DEF OnceInv, Rising
        <5>3. list[p][i].msg.tp = m.tp
          BY <2>1, Lists, OnePartition
        <5> QED
          BY <2>1, <2>3, <5>2, <5>3
      <4>3. Ahead(q)'
        BY <1>1, <1>2, <3>2, <4>2 DEF Ahead
      <4> QED
        BY <3>1, <4>1, <4>3
    <3>3. CASE q # p
      <4>1. \A i \in 1 .. Len(list[q]) : list[q][i].msg.tp # m.tp
        <5>1. m.tp[2] = p /\ \A i \in 1 .. Len(list[q]) : list[q][i].msg.tp[2] = q
          BY <2>1, Lists DEF PartitionOf
        <5> QED
          BY <3>3, <5>1
      <4>2. Ahead(q)'
        BY <1>1, <1>2, <2>3, <3>3, <4>1, Lists DEF OnceInv, Ahead
      <4>3. Covered(q)'
        <5> SUFFICES ASSUME task[q].pc = "remove", task[q].pos > 0
                     PROVE  task[q].kmsg.off < committed'[task[q].kmsg.tp]
          BY <1>2, <3>3 DEF Covered
        <5>1. task[q].pos \in 1 .. Len(list[q]) /\ task[q].kmsg = list[q][task[q].pos].msg
          BY <1>1, Lists DEF IInv, KmsgAlive
        <5>2. task[q].kmsg.tp # m.tp /\ task[q].kmsg.tp \in TopicPartitions
          BY <4>1, <5>1, Lists
        <5> QED
          BY <2>3, <5>2 DEF OnceInv, Covered
      <4> QED
        BY <3>1, <4>2, <4>3
    <3> QED
      BY <3>2, <3>3
  <2>7. HandAhead'
    <3> SUFFICES ASSUME cons.pc \in {"find", "create"}
                 PROVE  HandAhead'
      BY <1>1 DEF HandAhead
    <3> DEFINE c == cons.msg
    <3>1. /\ c.tp \in assigned /\ committed[c.tp] <= c.off /\ c.off < position[c.tp]
          /\ \A i \in 1 .. Len(list[PartitionOf(c)]) : list[PartitionOf(c)][i].msg.off < c.off
          /\ c \in Messages /\ c.off \in Nat /\ c.tp \in TopicPartitions
      BY OffsetTypes DEF OnceInv, HandAhead
    <3>2. committed'[c.tp] <= c.off
      <4>1. CASE c.tp = m.tp
        <5>1. PartitionOf(c) = p
          BY <2>1, <4>1 DEF PartitionOf
        <5>2. m.off < c.off
          BY <2>1, <3>1, <5>1
        <5> QED
          BY <2>1, <2>3, <3>1, <4>1, <5>2
      <4>2. CASE c.tp # m.tp
        BY <2>3, <3>1, <4>2
      <4> QED
        BY <4>1, <4>2
    <3> QED
      BY <1>1, <3>1, <3>2 DEF HandAhead
  <2>8. PositionAhead'
    <3> SUFFICES ASSUME NEW tp \in assigned
                 PROVE  committed'[tp] <= position[tp]
      BY <1>1 DEF PositionAhead
    <3>1. tp \in TopicPartitions /\ committed[tp] <= position[tp] /\ position[tp] \in Nat
      BY OffsetTypes DEF OnceInv, PositionAhead
    <3> QED
      BY <2>1, <2>3, <2>4, <3>1
  <2>9. RemovedIsCommitted'
    <3> SUFFICES ASSUME NEW tp \in assigned, NEW o \in Offsets, o < position[tp]
                 PROVE  o < committed'[tp] \/ InList(Msg(tp, o)) \/ InHand(Msg(tp, o))
                        \/ Msg(tp, o) \in Unreadable
      BY <1>1 DEF RemovedIsCommitted, Msg, InList, InHand
    <3>1. o < committed[tp] => o < committed'[tp]
      <4>1. tp \in TopicPartitions /\ committed[tp] \in Nat /\ o \in Nat
        BY OffsetTypes, LogAssumption DEF Offsets
      <4>2. committed'[tp] \in Nat
        BY <2>1, <2>3, <4>1
      <4> QED
        BY <2>5, <4>1, <4>2
    <3> QED
      BY <3>1 DEF OnceInv, RemovedIsCommitted
  <2> QED
    BY <2>5, <2>6, <2>7, <2>8, <2>9 DEF OnceInv
<1> QED
  BY <1>3, <1>4

LEMMA OnceRemove ==
  ASSUME Quiet, IInv, OnceInv, NEW p \in Partitions, RemoveCommitted(p)
  PROVE  OnceInv'
<1> DEFINE L == list[p]
           k == task[p].pos
<1> USE DEF kafkaVars, boundVars
<1>1. /\ task[p].pc = "remove" /\ k \in Nat /\ k <= Len(L) /\ Len(L) \in Nat
      /\ L \in Seq(Entry) /\ list \in [Partitions -> Seq(Entry)]
      /\ task[p].kmsg = IF k = 0 THEN NoMsg ELSE L[k].msg
      /\ UNCHANGED <<assigned, position, committed, cons>>
      /\ list' = [list EXCEPT ![p] = RemoveFromHead(L, k)]
  BY Lists DEF RemoveCommitted, IInv, TypeOK, KmsgAlive
<1>2. /\ task'[p].pc = "end" /\ \A q \in Partitions : q # p => task'[q] = task[q]
  BY DEF RemoveCommitted, IInv, TypeOK
<1>3. /\ Len(list'[p]) = Len(L) - k
      /\ \A i \in 1 .. Len(L) - k : list'[p][i] = L[i + k]
      /\ \A q \in Partitions : q # p => list'[q] = list[q]
  <2>1. list'[p] = RemoveFromHead(L, k) /\ \A q \in Partitions : q # p => list'[q] = list[q]
    BY <1>1
  <2>2. k \in 0 .. Len(L)
    BY <1>1
  <2>3. /\ Len(RemoveFromHead(L, k)) = Len(L) - k
        /\ \A i \in 1 .. Len(L) - k : RemoveFromHead(L, k)[i] = L[i + k]
    BY <1>1, <2>2, RemoveFromHeadLemma
  <2> HIDE DEF L, k
  <2> QED
    BY <2>1, <2>3
<1>4. \A i \in 1 .. Len(L) - k : i + k \in 1 .. Len(L) /\ ~(i + k <= k) /\ i \in Nat
  BY <1>1
<1>5. \A i, j \in 1 .. Len(L) - k : i < j => i + k < j + k
  BY <1>1
<1>6. ASSUME NEW q \in Partitions
      PROVE  Rising(q)' /\ Owned(q)' /\ Ahead(q)' /\ Covered(q)'
  <2>1. CASE q # p
    BY <1>1, <1>2, <1>3, <2>1 DEF OnceInv, Rising, Owned, Ahead, Covered
  <2>2. CASE q = p
    <3>1. Rising(p) /\ Owned(p) /\ Ahead(p)
      BY DEF OnceInv
    <3>2. Rising(p)'
      BY <1>3, <1>4, <1>5, <3>1 DEF Rising
    <3>3. Owned(p)'
      <4> SUFFICES ASSUME NEW i \in 1 .. Len(L) - k
                   PROVE  /\ list'[p][i].msg.tp \in assigned
                          /\ list'[p][i].msg.off < position[list'[p][i].msg.tp]
        BY <1>1, <1>3 DEF Owned
      <4>1. i + k \in 1 .. Len(L) /\ list'[p][i] = L[i + k]
        BY <1>3, <1>4
      <4> QED
        BY <3>1, <4>1 DEF Owned
    <3>4. Ahead(p)'
      <4> SUFFICES ASSUME NEW i \in 1 .. Len(L) - k
                   PROVE  committed[list'[p][i].msg.tp] <= list'[p][i].msg.off
        BY <1>1, <1>3 DEF Ahead
      <4>1. i + k \in 1 .. Len(L) /\ ~(i + k <= k) /\ list'[p][i] = L[i + k]
        BY <1>3, <1>4
      <4> QED
        BY <3>1, <4>1 DEF Ahead
    <3>5. Covered(p)'
      BY <1>2 DEF Covered
    <3> QED
      BY <2>2, <3>2, <3>3, <3>4, <3>5
  <2> QED
    BY <2>1, <2>2
<1>7. HandAhead'
  <2> SUFFICES ASSUME cons.pc \in {"find", "create"}
               PROVE  HandAhead'
    BY <1>1 DEF HandAhead
  <2> DEFINE c == PartitionOf(cons.msg)
  <2>1. c \in Partitions
    BY OffsetTypes
  <2>2. /\ cons.msg.tp \in assigned
        /\ committed[cons.msg.tp] <= cons.msg.off /\ cons.msg.off < position[cons.msg.tp]
        /\ \A i \in 1 .. Len(list[c]) : list[c][i].msg.off < cons.msg.off
    BY DEF OnceInv, HandAhead
  <2>3. \A i \in 1 .. Len(list'[c]) : list'[c][i].msg.off < cons.msg.off
    <3>1. CASE c = p
      <4> SUFFICES ASSUME NEW i \in 1 .. Len(L) - k
                   PROVE  list'[p][i].msg.off < cons.msg.off
        BY <1>3, <3>1
      <4>1. i + k \in 1 .. Len(L) /\ list'[p][i] = L[i + k]
        BY <1>3, <1>4
      <4> QED
        BY <2>2, <3>1, <4>1
    <3>2. CASE c # p
      BY <1>3, <2>1, <2>2, <3>2
    <3> QED
      BY <3>1, <3>2
  <2> QED
    BY <1>1, <2>2, <2>3 DEF HandAhead
<1>8. PositionAhead'
  BY <1>1 DEF OnceInv, PositionAhead
<1>9. RemovedIsCommitted'
  <2> SUFFICES ASSUME NEW tp \in assigned, NEW o \in Offsets, o < position[tp]
               PROVE  o < committed[tp] \/ InList(Msg(tp, o))' \/ InHand(Msg(tp, o))
                      \/ Msg(tp, o) \in Unreadable
    BY <1>1 DEF RemovedIsCommitted, Msg, InList, InHand
  <2> DEFINE x == Msg(tp, o)
  <2>1. x \in Messages /\ x.tp = tp /\ x.off = o /\ PartitionOf(x) \in Partitions /\ o \in Nat
    <3>1. x \in Messages /\ x.tp = tp /\ x.off = o /\ o \in Nat
      BY OffsetTypes, LogAssumption DEF Msg, Messages, Offsets
    <3> QED
      BY <3>1, PartitionType
  <2>2. o < committed[tp] \/ InList(x) \/ InHand(x) \/ x \in Unreadable
    BY DEF OnceInv, RemovedIsCommitted
  <2> HIDE DEF x
  <2>3. ASSUME InList(x)
        PROVE  o < committed[tp] \/ InList(x)'
    <3>1. CASE PartitionOf(x) # p
      BY <1>3, <2>1, <2>3, <3>1 DEF InList
    <3>2. CASE PartitionOf(x) = p
      <4>1. PICK i \in 1 .. Len(L) : L[i].msg = x
        BY <2>3, <3>2 DEF InList
      <4>2. CASE i <= k
        <5>1. k \in 1 .. Len(L) /\ k > 0 /\ task[p].kmsg = L[k].msg /\ L[k].msg \in Messages
              /\ PartitionOf(L[k].msg) = p /\ L[k].msg.off \in Nat
          BY <1>1, <4>2, Lists
        <5>2. L[k].msg.tp = tp
          BY <2>1, <3>2, <5>1, OnePartition
        <5>3. L[k].msg.off < committed[tp] /\ committed[tp] \in Nat
          BY <1>1, <5>1, <5>2, OffsetTypes DEF OnceInv, Covered
        <5>4. i = k \/ i < k
          BY <1>1, <4>2
        <5>5. o <= L[k].msg.off
          <6>1. CASE i = k
            BY <2>1, <4>1, <6>1
          <6>2. CASE i < k
            <7>1. L[i].msg.off < L[k].msg.off
              BY <5>1, <6>2 DEF OnceInv, Rising
            <7> QED
              BY <2>1, <4>1, <5>1, <7>1
          <6> QED
            BY <5>4, <6>1, <6>2
        <5> QED
          BY <2>1, <5>1, <5>3, <5>5
      <4>3. CASE ~(i <= k)
        <5>1. i - k \in 1 .. Len(L) - k /\ (i - k) + k = i
          BY <1>1, <4>3
        <5>2. list'[p][i - k].msg = x
          BY <1>3, <4>1, <5>1
        <5> QED
          BY <1>3, <3>2, <5>1, <5>2 DEF InList
      <4> QED
        BY <4>2, <4>3
    <3> QED
      BY <3>1, <3>2
  <2> QED
    BY <2>2, <2>3 DEF x
<1> QED
  BY <1>6, <1>7, <1>8, <1>9 DEF OnceInv

LEMMA OncePeer ==
  ASSUME IInv, OnceInv, NEW tp \in TopicPartitions, PeerCommit(tp)
  PROVE  OnceInv' /\ \A q \in TopicPartitions : committed'[q] >= committed[q]
<1> USE DEF kafkaVars, runVars, boundVars
<1>1. /\ tp \notin assigned /\ UNCHANGED <<assigned, position, list, cons, task>>
      /\ \A q \in TopicPartitions : q # tp => committed'[q] = committed[q]
      /\ committed'[tp] = committed[tp] + 1
  BY DEF PeerCommit, IInv, TypeOK
<1>2. \A q \in TopicPartitions : committed'[q] >= committed[q]
  BY <1>1, OffsetTypes
<1>3. \A q \in assigned : q \in TopicPartitions /\ committed'[q] = committed[q]
  BY <1>1, OffsetTypes
<1>4. ASSUME NEW p \in Partitions
      PROVE  Rising(p)' /\ Owned(p)' /\ Ahead(p)' /\ Covered(p)'
  <2>1. Rising(p)' /\ Owned(p)'
    BY <1>1 DEF OnceInv, Rising, Owned
  <2>2. \A i \in 1 .. Len(list[p]) : list[p][i].msg.tp \in assigned
    BY DEF OnceInv, Owned
  <2>3. Ahead(p)'
    BY <1>1, <1>3, <2>2 DEF OnceInv, Ahead
  <2>4. Covered(p)'
    <3> SUFFICES ASSUME task[p].pc = "remove", task[p].pos > 0
                 PROVE  task[p].kmsg.off < committed'[task[p].kmsg.tp]
      BY <1>1 DEF Covered
    <3>1. /\ task[p].pos \in Nat /\ task[p].pos <= Len(list[p])
          /\ task[p].kmsg = IF task[p].pos = 0 THEN NoMsg ELSE list[p][task[p].pos].msg
      BY DEF IInv, TypeOK, KmsgAlive
    <3>2. task[p].pos \in 1 .. Len(list[p]) /\ task[p].kmsg = list[p][task[p].pos].msg
      BY <3>1, Lists
    <3> QED
      BY <1>3, <2>2, <3>2 DEF OnceInv, Covered
  <2> QED
    BY <2>1, <2>3, <2>4
<1>5. HandAhead' /\ PositionAhead'
  BY <1>1, <1>3 DEF OnceInv, HandAhead, PositionAhead
<1>6. RemovedIsCommitted'
  BY <1>1, <1>3 DEF OnceInv, RemovedIsCommitted, InList, InHand
<1> QED
  BY <1>2, <1>4, <1>5, <1>6 DEF OnceInv

LEMMA OnceCrash ==
  ASSUME IInv, Crash
  PROVE  OnceInv'
<1>1. \A p \in Partitions : Len(list'[p]) = 0 /\ task'[p].pc = "idle"
  BY EmptySeq DEF Crash, NoTask
<1>2. assigned' = {} /\ cons'.pc = "consume"
  BY DEF Crash, Consuming
<1> QED
  BY <1>1, <1>2 DEF OnceInv, Rising, Owned, Ahead, Covered, HandAhead, PositionAhead, RemovedIsCommitted

LEMMA OnceNext ==
  ASSUME Quiet, IInv, OnceInv, [Next]_vars
  PROVE  OnceInv' /\ \A tp \in TopicPartitions : committed'[tp] >= committed[tp]
<1>1. \A tp \in TopicPartitions : committed[tp] >= committed[tp]
  BY OffsetTypes
<1>2. ~Unassign
  BY DEF Unassign, Quiet, IInv, TypeOK
<1>3. ASSUME \/ \E tp \in TopicPartitions : Consume(tp)
             \/ FindManager \/ CreateManager \/ ProcessTodo
             \/ \E S \in SUBSET TopicPartitions : Assign(S)
             \/ \E p \in Partitions : \E i \in 1 .. Len(list[p]) : Final(p, i)
             \/ \E p \in Partitions : RemoveCommitted(p)
             \/ Crash
      PROVE  OnceInv' /\ committed' = committed
  <2>1. OnceInv'
    BY <1>3, OnceConsume, OnceFindManager, OnceCreateManager, OnceProcessTodo, OnceAssign,
       OnceFinal, OnceRemove, OnceCrash
  <2>2. committed' = committed
    BY <1>3 DEF Consume, FindManager, CreateManager, ProcessTodo, Assign, Final, RemoveCommitted, Crash
  <2> QED
    BY <2>1, <2>2
<1>4. ASSUME \/ InsertManager \/ StartTasks \/ JoinTasks \/ FlowControl \/ ApplyFlowControl
             \/ \E p \in Partitions : FindFirstNotDone(p) \/ CountStates(p)
             \/ UNCHANGED vars
      PROVE  OnceInv' /\ committed' = committed
  <2>1. committed' = committed
    BY <1>4 DEF InsertManager, StartTasks, JoinTasks, FlowControl, ApplyFlowControl,
       FindFirstNotDone, CountStates, vars
  <2> QED
    BY <1>4, <2>1, OnceRun
<1>5. CASE \E p \in Partitions : Commit(p)
  BY <1>5, OnceCommit
<1>6. CASE \E tp \in TopicPartitions : PeerCommit(tp)
  BY <1>6, OncePeer
<1> QED
  BY <1>1, <1>2, <1>3, <1>4, <1>5, <1>6 DEF Next, TaskStep

LEMMA OnceInit ==
  ASSUME Init
  PROVE  OnceInv
<1>1. \A p \in Partitions : Len(list[p]) = 0 /\ task[p].pc = "idle"
  BY EmptySeq DEF Init, Started, NoTask
<1>2. assigned = {} /\ cons.pc = "consume"
  BY DEF Init, Started, Consuming
<1> QED
  BY <1>1, <1>2 DEF OnceInv, Rising, Owned, Ahead, Covered, HandAhead, PositionAhead, RemovedIsCommitted

(* The inductive invariant.                                                *)
THEOREM OnceInvariance ==
  ASSUME Quiet
  PROVE  Spec => []OnceInv
<1>1. Init => OnceInv
  BY OnceInit
<1>2. IInv /\ OnceInv /\ [Next]_vars => OnceInv'
  BY OnceNext
<1> QED
  BY <1>1, <1>2, Invariance, PTL DEF Spec

(* do_something forgets no message whose offset is not committed: with one *)
(* Kafka partition for each number, no rebalance and no failing commit,    *)
(* for any commit_num, and across crashes.                                 *)
THEOREM NothingForgotten ==
  ASSUME Quiet
  PROVE  Spec => []RemovedIsCommitted
<1>1. OnceInv => RemovedIsCommitted
  BY DEF OnceInv
<1> QED
  BY <1>1, OnceInvariance, PTL

(* Under the same conditions commitSync never takes an offset back.        *)
THEOREM CommitsGoForward ==
  ASSUME Quiet
  PROVE  Spec => CommitMonotone
<1>1. IInv /\ OnceInv /\ [Next]_vars =>
        [\A tp \in TopicPartitions : committed'[tp] >= committed[tp]]_committed
  BY OnceNext
<1> QED
  BY <1>1, OnceInvariance, Invariance, PTL DEF Spec, CommitMonotone

=============================================================================
