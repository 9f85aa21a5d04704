---------------------------- MODULE PipelineProofs ----------------------------
(***************************************************************************)
(* What holds of consumer and queue together for any log, partitions,      *)
(* threads, max_task_num, commit_num and max_cache_size and any Burst:     *)
(* PipelineInv (module Pipeline) is inductive, flow control bounds the     *)
(* sessions under way, a queue that is large enough for them never comes   *)
(* to a standstill, and commits leave no gap.                              *)
(***************************************************************************)
EXTENDS Pipeline, WorkerProofs, WellFoundedInduction

-----------------------------------------------------------------------------
(* Sets of messages.                                                       *)

LEMMA MessagesFinite == Messages \subseteq Sessions /\ IsFiniteSet(Messages)
<1>1. \A i \in 1 .. Len(Log) : Log[i] \in Sessions
  BY ElementOfSeq, LogAssumption
<1>2. Messages \subseteq Sessions
  BY <1>1 DEF Messages
<1> QED
  BY <1>2, FS_Subset, SessionsAssumption

LEMMA Sizes ==
  ASSUME NEW S \in SUBSET Messages, NEW T \in SUBSET Messages
  PROVE  /\ IsFiniteSet(S) /\ Cardinality(S) \in Nat
         /\ S \subseteq T => Cardinality(S) <= Cardinality(T)
         /\ Cardinality(S \cup T) <= Cardinality(S) + Cardinality(T)
         /\ \A x : Cardinality(S \cup {x}) <= Cardinality(S) + 1
<1>1. IsFiniteSet(S) /\ IsFiniteSet(T)
  BY MessagesFinite, FS_Subset
<1>2. Cardinality(S) \in Nat /\ Cardinality(T) \in Nat
  BY <1>1, FS_CardinalityType
<1>3. S \subseteq T => Cardinality(S) <= Cardinality(T)
  BY <1>1, FS_Subset
<1>4. Cardinality(S \cup T) <= Cardinality(S) + Cardinality(T)
  <2>1. Cardinality(S \cup T) = Cardinality(S) + Cardinality(T) - Cardinality(S \cap T)
    BY <1>1, FS_Union
  <2>2. Cardinality(S \cap T) \in Nat
    <3>1. IsFiniteSet(S \cap T)
      BY <1>1, FS_Subset
    <3> QED
      BY <3>1, FS_CardinalityType
  <2> QED
    BY <1>2, <2>1, <2>2
<1>5. ASSUME NEW x
      PROVE  Cardinality(S \cup {x}) <= Cardinality(S) + 1
  <2>1. Cardinality(S \cup {x}) = IF x \in S THEN Cardinality(S) ELSE Cardinality(S) + 1
    BY <1>1, FS_AddElement
  <2> QED
    BY <1>2, <2>1
<1> QED
  BY <1>1, <1>2, <1>3, <1>4, <1>5

(* What the lists l of the partitions S hold.                              *)
ListedIn(l, S) == {x \in Messages : \E p \in S : \E i \in 1 .. Len(l[p]) : l[p][i] = x}

InHand(c) == IF c.pc = "find" THEN {c.msg} ELSE {}

LEMMA ListElements ==
  ASSUME NEW l \in [Partitions -> Seq(Messages)], NEW p \in Partitions
  PROVE  /\ l[p] \in Seq(Messages) /\ Len(l[p]) \in Nat
         /\ \A i \in 1 .. Len(l[p]) : l[p][i] \in Messages
  BY ElementOfSeq, LenProperties

LEMMA InListsIs ==
  ASSUME PipelineTypeOK
  PROVE  /\ InLists(Partitions) = ListedIn(list, Partitions)
         /\ InLists(tasks) = ListedIn(list, tasks)
<1>1. \A p \in Partitions : \A i \in 1 .. Len(list[p]) : list[p][i] \in Messages
  BY ListElements DEF PipelineTypeOK
<1>2. tasks \subseteq Partitions
  BY DEF PipelineTypeOK
<1> QED
  BY <1>1, <1>2 DEF InLists, ListedIn

LEMMA InListsIsNext ==
  ASSUME PipelineTypeOK'
  PROVE  /\ InLists(Partitions)' = ListedIn(list', Partitions)
         /\ InLists(tasks)' = ListedIn(list', tasks')
<1>1. \A p \in Partitions : \A i \in 1 .. Len(list'[p]) : list'[p][i] \in Messages
  BY ListElements DEF PipelineTypeOK
<1>2. tasks' \subseteq Partitions
  BY DEF PipelineTypeOK
<1> QED
  BY <1>1, <1>2 DEF InLists, ListedIn

(* Messages under way with these lists, results and this hand.             *)
Way(l, done, c) == (ListedIn(l, Partitions) \ done) \cup InHand(c)

LEMMA UnderWayIs ==
  ASSUME PipelineTypeOK
  PROVE  /\ UnderWay = Way(list, finished \cup refused, cons)
         /\ UnderWay \in SUBSET Messages
<1>1. UnderWay = Way(list, finished \cup refused, cons)
  BY InListsIs DEF UnderWay, Unfinished, Way, InHand
<1>2. InHand(cons) \subseteq Messages
  BY DEF PipelineTypeOK, InHand
<1> QED
  BY <1>1, <1>2 DEF Way, ListedIn

LEMMA UnderWayIsNext ==
  ASSUME PipelineTypeOK'
  PROVE  /\ UnderWay' = Way(list', finished' \cup refused', cons')
         /\ UnderWay' \in SUBSET Messages
<1>1. UnderWay' = Way(list', finished' \cup refused', cons')
  BY InListsIsNext DEF UnderWay, Unfinished, Way, InHand
<1>2. InHand(cons') \subseteq Messages
  BY DEF PipelineTypeOK, InHand
<1> QED
  BY <1>1, <1>2 DEF Way, ListedIn

-----------------------------------------------------------------------------
(* Counting.                                                               *)

(* A step that neither delivers nor counts, and in which the messages      *)
(* under way do not become more.                                           *)
LEMMA NoMore ==
  ASSUME PipelineInv, PipelineTypeOK', UnderWay' \subseteq UnderWay,
         ListedIn(list, tasks) \subseteq ListedIn(list', tasks'),
         UNCHANGED <<runPc, counted, paused, delivered>>
  PROVE  Counting' /\ Limits'
<1> USE DEF PipelineInv
<1>1. UnderWay \in SUBSET Messages /\ UnderWay' \in SUBSET Messages
  BY UnderWayIs, UnderWayIsNext
<1>2. InLists(tasks) = ListedIn(list, tasks) /\ InLists(tasks)' = ListedIn(list', tasks')
  BY InListsIs, InListsIsNext
<1>3. Cardinality(UnderWay') <= Cardinality(UnderWay)
      /\ Cardinality(UnderWay) \in Nat /\ Cardinality(UnderWay') \in Nat
  BY <1>1, Sizes
<1>4. /\ UnderWay \ InLists(tasks) \in SUBSET Messages
      /\ UnderWay' \ InLists(tasks)' \in SUBSET Messages
      /\ UnderWay' \ InLists(tasks)' \subseteq UnderWay \ InLists(tasks)
  BY <1>1, <1>2
<1>5. /\ Cardinality(UnderWay' \ InLists(tasks)') <= Cardinality(UnderWay \ InLists(tasks))
      /\ Cardinality(UnderWay' \ InLists(tasks)') \in Nat
      /\ Cardinality(UnderWay \ InLists(tasks)) \in Nat
  BY <1>4, Sizes
<1>6. counted \in Nat /\ delivered \in Nat /\ Burst \in Nat /\ CacheLimit \in Nat
  BY BoundsAssumption, CacheAssumption DEF PipelineTypeOK, CacheLimit
<1>7. Counting'
  BY <1>5, <1>6 DEF Counting
<1>8. Limits'
  BY <1>3, <1>6 DEF Limits
<1> QED
  BY <1>7, <1>8

-----------------------------------------------------------------------------
(* The worker queue inside the pipeline.                                   *)

(* Every step of the pipeline is one of Worker, or none.                   *)
LEMMA WorkerSteps ==
  ASSUME PipelineTypeOK, [PipelineNext]_pipelineVars
  PROVE  [Next]_vars
<1>1. CASE Accept
  <2>1. cons.msg \in Sessions
    BY <1>1, MessagesFinite DEF Accept, PipelineTypeOK
  <2> QED
    BY <1>1, <2>1 DEF Accept, Next
<1>2. CASE Pushed \/ PushBlocks
  BY <1>2 DEF Pushed, PushBlocks, BufferStep, Threads, Next
<1>3. ASSUME NEW t \in Workers \cup IoThreads, WorkerStep(t)
      PROVE  Next
  <2>1. t \in Threads
    BY DEF Threads
  <2>2. CASE BufferStep(t)
    BY <2>1, <2>2 DEF Next
  <2>3. CASE PushMsg(t) \/ Final(t) \/ SendRequest(t)
    BY <2>1, <2>3 DEF Next, SessionStep
  <2>4. CASE \E s \in Sessions : Callback(t, s)
    BY <2>4 DEF Next, Callback
  <2> QED
    BY <1>3, <2>2, <2>3, <2>4 DEF WorkerStep
<1>4. ASSUME NEW t \in Threads, Wakeup(t)
      PROVE  Next
  BY <1>4 DEF Wakeup, Next
<1>5. CASE Deliver \/ LockedStep \/ Refuse
  BY <1>5 DEF Deliver, LockedStep, EmplaceBack, InsertManager, Refuse
<1>6. CASE RunStep
  BY <1>6 DEF RunStep, StartTasks, DoSomething, JoinTasks, FlowControl
<1>7. CASE UNCHANGED pipelineVars
  BY <1>7 DEF pipelineVars
<1> QED
  BY <1>1, <1>2, <1>3, <1>4, <1>5, <1>6, <1>7 DEF PipelineNext, ConsumerStep

LEMMA NotifiedOne ==
  ASSUME NEW at \in [Threads -> Places], NEW place, NEW try, NEW c \in Threads,
         NEW new \in NotifyOne(at, place, try)
  PROVE  new[c] = at[c] \/ (at[c] = place /\ new[c] = try)
BY DEF NotifyOne

(* What the other threads can do to the consumer thread.                   *)
LEMMA ConsumerLeftAlone ==
  ASSUME IInv, NEW t,
         \/ t \in Workers \cup IoThreads /\ WorkerStep(t)
         \/ t \in Threads /\ Wakeup(t)
  PROVE  /\ pc'[Consumer] \in {"put", "putWait"} <=> pc[Consumer] \in {"put", "putWait"}
         /\ hand'[Consumer] = hand[Consumer] /\ item'[Consumer] = item[Consumer]
         /\ fresh' = fresh
         /\ finished \subseteq finished'
         /\ UNCHANGED <<consumerVars, runVars>>
<1>0. pc \in [Threads -> Places] /\ hand \in [Threads -> Sessions \cup {NoSession}]
      /\ item \in [Threads -> Sessions \cup {NoSession}] /\ Control
  BY DEF IInv, TypeOK
<1>1. Consumer \in Threads /\ Workers \cup IoThreads \subseteq Threads
      /\ Consumer \notin Workers \cup IoThreads
  BY ThreadsAssumption DEF Threads
<1>2. pc[Consumer] \notin {"get", "getWait"}
  BY <1>0, <1>1 DEF Control
<1>3. CASE t \in Threads /\ Wakeup(t)
  BY <1>0, <1>1, <1>2, <1>3 DEF Wakeup, SpuriousWakeup
<1>4. CASE t \in Workers \cup IoThreads /\ WorkerStep(t)
  <2>1. t \in Threads /\ t # Consumer
    BY <1>1, <1>4
  <2>2. UNCHANGED <<consumerVars, runVars>>
    BY <1>4 DEF WorkerStep
  <2>3. CASE PutItem(t)
    <3>1. PICK after \in {"get", "idle", "run"} :
            pc' \in NotifyOne([pc EXCEPT ![t] = after], "getWait", "get")
      BY <2>3 DEF PutItem, Rest
    <3>2. /\ [pc EXCEPT ![t] = after] \in [Threads -> Places]
          /\ [pc EXCEPT ![t] = after][Consumer] = pc[Consumer]
      BY <1>0, <1>1, <2>1 DEF Places
    <3> DEFINE at == [pc EXCEPT ![t] = after]
    <3>3. at \in [Threads -> Places] /\ at[Consumer] = pc[Consumer]
      BY <3>2
    <3>4. pc' \in NotifyOne(at, "getWait", "get")
      BY <3>1
    <3> HIDE DEF at
    <3>5. pc'[Consumer] = at[Consumer] \/ (at[Consumer] = "getWait" /\ pc'[Consumer] = "get")
      BY <1>1, <3>3, <3>4, NotifiedOne
    <3>6. pc'[Consumer] = pc[Consumer]
      BY <1>2, <3>3, <3>5
    <3> QED
      BY <1>0, <1>1, <2>1, <2>2, <2>3, <3>6 DEF PutItem
  <2>4. CASE GetItem(t)
    <3>1. pc' \in NotifyOne([pc EXCEPT ![t] = "run"], "putWait", "put")
      BY <2>4 DEF GetItem
    <3>2. /\ [pc EXCEPT ![t] = "run"] \in [Threads -> Places]
          /\ [pc EXCEPT ![t] = "run"][Consumer] = pc[Consumer]
      BY <1>0, <1>1, <2>1 DEF Places
    <3> DEFINE at == [pc EXCEPT ![t] = "run"]
    <3>3. at \in [Threads -> Places] /\ at[Consumer] = pc[Consumer]
      BY <3>2
    <3>4. pc' \in NotifyOne(at, "putWait", "put")
      BY <3>1
    <3> HIDE DEF at
    <3>5. pc'[Consumer] = at[Consumer] \/ (at[Consumer] = "putWait" /\ pc'[Consumer] = "put")
      BY <1>1, <3>3, <3>4, NotifiedOne
    <3>6. pc'[Consumer] = pc[Consumer] \/ (pc[Consumer] = "putWait" /\ pc'[Consumer] = "put")
      BY <3>3, <3>5
    <3> QED
      BY <1>0, <1>1, <2>1, <2>2, <2>4, <3>6 DEF GetItem
  <2>5. CASE PutBlocks(t) \/ GetBlocks(t)
    BY <1>0, <1>1, <2>1, <2>2, <2>5 DEF PutBlocks, GetBlocks
  <2>6. CASE PushMsg(t) \/ Final(t) \/ SendRequest(t)
    BY <1>0, <1>1, <2>1, <2>2, <2>6 DEF PushMsg, Final, SendRequest
  <2>7. CASE \E s \in Sessions : Callback(t, s)
    BY <1>0, <1>1, <2>1, <2>2, <2>7 DEF Callback
  <2> QED
    BY <1>4, <2>3, <2>4, <2>5, <2>6, <2>7 DEF WorkerStep, BufferStep
<1> QED
  BY <1>3, <1>4

-----------------------------------------------------------------------------
(* One list.                                                               *)

(* do_something finds the finished head of the list.                       *)
LEMMA FinishedHead ==
  ASSUME PipelineTypeOK, NEW p \in Partitions
  PROVE  /\ Manager!FirstNotDonePos(Entries(p)) \in 0 .. Len(list[p])
         /\ \A i \in 1 .. Manager!FirstNotDonePos(Entries(p)) :
              list[p][i] \in finished \cup refused
<1>1. Len(list[p]) \in Nat
  BY ListElements DEF PipelineTypeOK
<1> DEFINE L == Entries(p)
           open == {n \in 0 .. Len(list[p]) : n < Len(list[p]) => L[n + 1].state # "DONE"}
<1>2. /\ Len(L) = Len(list[p])
      /\ \A i \in 1 .. Len(list[p]) : L[i].state = "DONE" <=> list[p][i] \in finished \cup refused
  BY <1>1 DEF Entries
<1>3. open \subseteq Nat /\ Len(list[p]) \in open
  BY <1>1
<1>4. PICK n \in open : \A m \in open : ~ (<<m, n>> \in OpToRel(<, Nat))
  BY <1>3, NatLessThanWellFounded, WFMin
<1>5. n \in 0 .. Len(list[p]) /\ \A m \in open : ~ (m < n)
  BY <1>1, <1>3, <1>4 DEF OpToRel
<1>6. ASSUME NEW i \in 1 .. n
      PROVE  L[i].state = "DONE"
  <2>1. i - 1 \in 0 .. Len(list[p]) /\ i - 1 < n /\ i - 1 < Len(list[p]) /\ (i - 1) + 1 = i
    BY <1>1, <1>5
  <2> QED
    BY <1>5, <2>1
<1>7. n < Len(L) => L[n + 1].state # "DONE"
  BY <1>2, <1>4
<1> HIDE DEF L, open
<1>8. \E k \in 0 .. Len(L) : Manager!AllDone(L, k) /\ (k < Len(L) => L[k + 1].state # "DONE")
  BY <1>2, <1>5, <1>6, <1>7 DEF Manager!AllDone
<1>9. /\ Manager!FirstNotDonePos(L) \in 0 .. Len(L)
      /\ Manager!AllDone(L, Manager!FirstNotDonePos(L))
  BY <1>8 DEF Manager!FirstNotDonePos
<1>10. \A i \in 1 .. Manager!FirstNotDonePos(L) : L[i].state = "DONE"
  BY <1>9 DEF Manager!AllDone
<1>11. \A i \in 1 .. Manager!FirstNotDonePos(L) : i \in 1 .. Len(list[p])
  BY <1>1, <1>2, <1>9
<1>12. /\ Manager!FirstNotDonePos(L) \in 0 .. Len(list[p])
       /\ \A i \in 1 .. Manager!FirstNotDonePos(L) : list[p][i] \in finished \cup refused
  BY <1>2, <1>9, <1>10, <1>11
<1> QED
  BY <1>12 DEF L

(* cache_size - done_num counts every message of the list that is not done.*)
OpenIn(p) == {x \in Messages \ (finished \cup refused) : \E i \in 1 .. Len(list[p]) : list[p][i] = x}

LEMMA UnresolvedCounts ==
  ASSUME PipelineTypeOK, NEW p \in Partitions
  PROVE  /\ Manager!Unresolved(Entries(p)) \in Nat
         /\ Cardinality(OpenIn(p)) <= Manager!Unresolved(Entries(p))
<1>1. Len(list[p]) \in Nat /\ \A i \in 1 .. Len(list[p]) : list[p][i] \in Messages
  BY ListElements DEF PipelineTypeOK
<1> DEFINE places == {i \in 1 .. Len(list[p]) : list[p][i] \notin finished \cup refused}
           at == [i \in places |-> list[p][i]]
<1>2. Manager!Unresolved(Entries(p)) = Cardinality(places)
  <2>1. {i \in 1 .. Len(Entries(p)) : Entries(p)[i].state # "DONE"} = places
    BY <1>1 DEF Entries
  <2>2. Manager!Unresolved(Entries(p)) =
          Cardinality({i \in 1 .. Len(Entries(p)) : Entries(p)[i].state # "DONE"})
    BY DEF Manager!Unresolved, Manager!Cardinality, Cardinality
  <2> QED
    BY <2>1, <2>2
<1>3. IsFiniteSet(places)
  <2>1. IsFiniteSet(1 .. Len(list[p]))
    BY <1>1, FS_Interval
  <2> QED
    BY <2>1, FS_Subset
<1>4. at \in Surjection(places, OpenIn(p))
  BY <1>1 DEF OpenIn, Surjection
<1>5. Cardinality(OpenIn(p)) <= Cardinality(places)
  BY <1>3, <1>4, FS_Surjection
<1> QED
  BY <1>2, <1>3, <1>5, FS_CardinalityType

(* The rest of the list when n messages are removed from its head.         *)
LEMMA RemovedFromHead ==
  ASSUME PipelineTypeOK, NEW p \in Partitions, NEW n \in 0 .. Len(list[p])
  PROVE  LET rest == Manager!RemoveFromHead(list[p], n)
         IN  /\ rest \in Seq(Messages)
             /\ Len(rest) = Len(list[p]) - n
             /\ \A i \in 1 .. Len(rest) : rest[i] = list[p][n + i]
             /\ {rest[i] : i \in 1 .. Len(rest)} = {list[p][i] : i \in n + 1 .. Len(list[p])}
<1>1. Len(list[p]) \in Nat /\ \A i \in 1 .. Len(list[p]) : list[p][i] \in Messages
  BY ListElements DEF PipelineTypeOK
<1> DEFINE rest == SubSeq(list[p], n + 1, Len(list[p]))
<1>2. n + 1 \in Int /\ \A i \in n + 1 .. Len(list[p]) : list[p][i] \in Messages
  BY <1>1
<1>3. /\ rest \in Seq(Messages)
      /\ Len(rest) = IF n + 1 <= Len(list[p]) THEN Len(list[p]) - (n + 1) + 1 ELSE 0
      /\ \A i \in 1 .. Len(list[p]) - (n + 1) + 1 : rest[i] = list[p][(n + 1) + i - 1]
  BY <1>1, <1>2, SubSeqProperties
<1> HIDE DEF rest
<1>4. Len(rest) = Len(list[p]) - n /\ \A i \in 1 .. Len(rest) : rest[i] = list[p][n + i]
  BY <1>1, <1>3
<1>5. ASSUME NEW j \in n + 1 .. Len(list[p])
      PROVE  j - n \in 1 .. Len(rest) /\ rest[j - n] = list[p][j]
  <2>1. j - n \in 1 .. Len(rest) /\ n + (j - n) = j
    BY <1>1, <1>4
  <2> QED
    BY <1>4, <2>1
<1>6. \A i \in 1 .. Len(rest) : n + i \in n + 1 .. Len(list[p])
  BY <1>1, <1>4
<1> DEFINE left == {rest[i] : i \in 1 .. Len(rest)}
           tail == {list[p][i] : i \in n + 1 .. Len(list[p])}
<1>7. left = tail
  <2>1. ASSUME NEW i \in 1 .. Len(rest)
        PROVE  \E j \in n + 1 .. Len(list[p]) : list[p][j] = rest[i]
    BY <1>4, <1>6
  <2>2. ASSUME NEW j \in n + 1 .. Len(list[p])
        PROVE  \E i \in 1 .. Len(rest) : rest[i] = list[p][j]
    BY <1>5
  <2>3. left \subseteq tail
    BY <2>1
  <2>4. tail \subseteq left
    BY <2>2
  <2> QED
    BY <2>3, <2>4
<1> QED
  BY <1>3, <1>4, <1>7 DEF rest, Manager!RemoveFromHead

-----------------------------------------------------------------------------
(* Every step keeps the types ...                                          *)

LEMMA DeliverTypes ==
  ASSUME PipelineTypeOK, Deliver
  PROVE  PipelineTypeOK'
<1> USE DEF PipelineTypeOK
<1>1. Head(unread) \in Messages /\ Tail(unread) \in Seq(Messages)
  BY HeadTailProperties DEF Deliver
<1>2. PartitionOf[Head(unread)] \in Partitions
  BY <1>1, PartitionOfAssumption DEF Messages
<1>3. /\ UNCHANGED <<managers, list, refused, runPc, tasks, counted, paused, committed>>
      /\ cons' = [pc |-> "find", msg |-> Head(unread), part |-> PartitionOf[Head(unread)]]
      /\ unread' = Tail(unread)
      /\ delivered' = delivered + 1 /\ delivered < Burst
  BY DEF Deliver, runVars
<1>4. delivered' \in 0 .. Burst
  BY <1>3, BoundsAssumption
<1> QED
  BY <1>1, <1>2, <1>3, <1>4

LEMMA ConsumerTypes ==
  ASSUME PipelineTypeOK, ConsumerPlace,
         EmplaceBack \/ InsertManager \/ Refuse \/ Accept \/ Pushed \/ PushBlocks
  PROVE  PipelineTypeOK'
<1> USE DEF PipelineTypeOK
<1>1. CASE EmplaceBack
  <2>1. cons.part \in Partitions /\ cons.msg \in Messages
    BY <1>1 DEF EmplaceBack
  <2>2. Append(list[cons.part], cons.msg) \in Seq(Messages)
    BY <2>1, AppendProperties, ListElements
  <2>3. list' \in [Partitions -> Seq(Messages)]
    BY <1>1, <2>1, <2>2 DEF EmplaceBack
  <2> QED
    BY <1>1, <2>1, <2>3 DEF EmplaceBack, runVars
<1>2. CASE InsertManager
  <2>1. cons.part \in Partitions
    BY <1>2 DEF InsertManager
  <2> QED
    BY <1>2, <2>1 DEF InsertManager, Consuming, runVars
<1>3. CASE Refuse \/ Accept \/ Pushed
  <2>1. cons.pc \in {"handle", "handleNew", "push", "pushNew"}
    BY <1>3 DEF Refuse, Accept, Pushed, PutItem, ConsumerPlace
  <2>2. cons.msg \in Messages /\ cons.part \in Partitions
    BY <2>1
  <2>3. \/ cons' = Consuming
        \/ cons' = [cons EXCEPT !.pc = "insert"]
        \/ cons' = [cons EXCEPT !.pc = "push"]
        \/ cons' = [cons EXCEPT !.pc = "pushNew"]
    BY <1>3 DEF Refuse, Accept, Pushed, AfterHandle
  <2>4. refused' \subseteq Messages
    BY <1>3, <2>2 DEF Refuse, Accept, Pushed
  <2>5. UNCHANGED <<unread, managers, list, runPc, tasks, counted, paused, delivered, committed>>
    BY <1>3 DEF Refuse, Accept, Pushed, runVars
  <2>6. cons \in [pc : {"consume", "find", "handle", "handleNew", "push", "pushNew", "insert"},
                  msg : Messages \cup {NoSession}, part : Partitions \cup {NoPartition}]
    OBVIOUS
  <2>7. /\ cons' \in [pc : {"consume", "find", "handle", "handleNew", "push", "pushNew", "insert"},
                      msg : Messages \cup {NoSession}, part : Partitions \cup {NoPartition}]
        /\ cons'.pc # "consume" => cons'.msg = cons.msg /\ cons'.part = cons.part
    BY <2>3, <2>6 DEF Consuming
  <2> QED
    BY <2>2, <2>4, <2>5, <2>7
<1>4. CASE PushBlocks
  BY <1>4 DEF PushBlocks, consumerVars, runVars
<1> QED
  BY <1>1, <1>2, <1>3, <1>4

LEMMA RunTypes ==
  ASSUME PipelineTypeOK, RunStep
  PROVE  PipelineTypeOK'
<1> USE DEF PipelineTypeOK
<1>1. CASE StartTasks
  BY <1>1, BoundsAssumption DEF StartTasks
<1>2. ASSUME NEW p \in Partitions, DoSomething(p)
      PROVE  PipelineTypeOK'
  <2> DEFINE pos == Manager!FirstNotDonePos(Entries(p))
             head == IF Manager!CommitDue(pos, Manager!ForceCommit(Entries(p))) THEN pos ELSE 0
  <2>1. Len(list[p]) \in Nat /\ \A i \in 1 .. Len(list[p]) : list[p][i] \in Messages
    BY ListElements
  <2>2. pos \in 0 .. Len(list[p])
    BY FinishedHead
  <2>3. head \in 0 .. Len(list[p])
    BY <2>1, <2>2
  <2>4. /\ tasks' = tasks \ {p} /\ runPc = "tasks"
        /\ counted' = counted + Manager!Unresolved(Entries(p))
        /\ committed' = committed \cup {list[p][i] : i \in 1 .. head}
        /\ list' = [list EXCEPT ![p] = Manager!RemoveFromHead(list[p], head)]
        /\ UNCHANGED <<unread, cons, managers, refused, delivered, runPc, paused>>
    BY <1>2 DEF DoSomething
  <2> HIDE DEF head, pos
  <2>5. list' \in [Partitions -> Seq(Messages)]
    BY <2>3, <2>4, RemovedFromHead
  <2>6. counted' \in Nat
    BY <2>4, UnresolvedCounts
  <2>7. committed' \subseteq Messages
    BY <2>1, <2>3, <2>4
  <2> QED
    BY <2>4, <2>5, <2>6, <2>7
<1>3. CASE JoinTasks
  BY <1>3 DEF JoinTasks, consumerVars
<1>4. CASE FlowControl
  BY <1>4 DEF FlowControl, consumerVars, CacheFull
<1> QED
  BY <1>1, <1>2, <1>3, <1>4 DEF RunStep

LEMMA PipelineTypes ==
  ASSUME PipelineTypeOK, ConsumerPlace, [PipelineNext]_pipelineVars
  PROVE  PipelineTypeOK'
<1>1. ASSUME UNCHANGED <<consumerVars, runVars>>
      PROVE  PipelineTypeOK'
  BY <1>1 DEF consumerVars, runVars, PipelineTypeOK
<1>2. CASE (\E t \in Workers \cup IoThreads : WorkerStep(t)) \/ (\E t \in Threads : Wakeup(t))
  BY <1>1, <1>2 DEF WorkerStep, Wakeup
<1>3. CASE UNCHANGED pipelineVars
  BY <1>1, <1>3 DEF pipelineVars
<1> QED
  BY <1>2, <1>3, DeliverTypes, ConsumerTypes, RunTypes DEF PipelineNext, LockedStep, ConsumerStep

-----------------------------------------------------------------------------
(* ... and the rest of the invariant.                                      *)

LEMMA SameLists ==
  ASSUME PipelineTypeOK, PipelineTypeOK', list' = list, tasks' = tasks
  PROVE  /\ InLists(Partitions)' = InLists(Partitions)
         /\ ListedIn(list, tasks) \subseteq ListedIn(list', tasks')
BY InListsIs, InListsIsNext

LEMMA UnreadIsNew ==
  ASSUME PipelineInv
  PROVE  /\ Unread \subseteq Messages
         /\ Unread \cap (InLists(Partitions) \cup refused \cup {cons.msg, NoSession}) = {}
<1>1. \A i \in 1 .. Len(unread) : unread[i] \in Messages
  BY ElementOfSeq DEF PipelineInv, PipelineTypeOK
<1> QED
  BY <1>1, MessagesFinite, SessionsAssumption DEF PipelineInv, NewMessages, Unread

(* Worker and io threads, and spurious wake-ups.                           *)
LEMMA OthersStep ==
  ASSUME PipelineInv, PipelineTypeOK', IInv, NEW t,
         \/ t \in Workers \cup IoThreads /\ WorkerStep(t)
         \/ t \in Threads /\ Wakeup(t)
  PROVE  PipelineInv'
<1> USE DEF PipelineInv
<1>1. /\ pc'[Consumer] \in {"put", "putWait"} <=> pc[Consumer] \in {"put", "putWait"}
      /\ hand'[Consumer] = hand[Consumer] /\ item'[Consumer] = item[Consumer]
      /\ fresh' = fresh /\ finished \subseteq finished'
      /\ UNCHANGED <<unread, cons, managers, list, refused, delivered>>
      /\ UNCHANGED <<runPc, tasks, counted, paused, committed>>
  BY ConsumerLeftAlone DEF consumerVars, runVars
<1>2. InLists(Partitions)' = InLists(Partitions)
      /\ ListedIn(list, tasks) \subseteq ListedIn(list', tasks')
  BY <1>1, SameLists
<1>3. ConsumerPlace'
  BY <1>1 DEF ConsumerPlace
<1>4. NewMessages'
  BY <1>1, <1>2 DEF NewMessages, Unread
<1>5. LiveListed'
  BY <1>1, <1>2 DEF LiveListed, Live
<1>6. Unregistered'
  BY <1>1 DEF Unregistered
<1>7. Accounted'
  BY <1>1, <1>2 DEF Accounted, Delivered
<1>8. UnderWay' \subseteq UnderWay
  BY <1>1, <1>2 DEF UnderWay, Unfinished
<1>9. Counting' /\ Limits'
  BY <1>1, <1>2, <1>8, NoMore
<1> QED
  BY <1>3, <1>4, <1>5, <1>6, <1>7, <1>9

LEMMA RefuseStep ==
  ASSUME PipelineInv, PipelineTypeOK', Refuse
  PROVE  PipelineInv'
<1> USE DEF PipelineInv
<1>1. /\ cons.pc \in {"handle", "handleNew"}
      /\ refused' = refused \cup {cons.msg}
      /\ cons' = IF cons.pc = "handle" THEN Consuming ELSE [cons EXCEPT !.pc = "insert"]
      /\ UNCHANGED <<unread, managers, list, delivered>>
      /\ UNCHANGED <<runPc, tasks, counted, paused, committed>>
      /\ UNCHANGED <<queue, pc, hand, item, inflight, fresh, finished, pushes>>
  BY DEF Refuse, AfterHandle, vars, runVars
<1>2. /\ cons'.pc \in {"consume", "insert"}
      /\ cons'.msg \in {cons.msg, NoSession}
      /\ cons.pc = "handleNew" => cons'.pc = "insert" /\ cons'.msg = cons.msg /\ cons'.part = cons.part
  BY <1>1 DEF Consuming, PipelineTypeOK
<1>3. InLists(Partitions)' = InLists(Partitions)
      /\ ListedIn(list, tasks) \subseteq ListedIn(list', tasks')
  BY <1>1, SameLists
<1>4. ConsumerPlace'
  BY <1>1, <1>2 DEF ConsumerPlace
<1>5. NewMessages'
  BY <1>1, <1>2, <1>3, UnreadIsNew DEF NewMessages, Unread
<1>6. LiveListed'
  BY <1>1, <1>3 DEF LiveListed, Live, NewMessages
<1>7. Unregistered'
  BY <1>1, <1>2 DEF Unregistered
<1>8. Accounted'
  BY <1>1, <1>3 DEF Accounted, Delivered
<1>9. UnderWay' \subseteq UnderWay
  BY <1>1, <1>2, <1>3 DEF UnderWay, Unfinished
<1>10. Counting' /\ Limits'
  BY <1>1, <1>3, <1>9, NoMore
<1> QED
  BY <1>4, <1>5, <1>6, <1>7, <1>8, <1>10

LEMMA AcceptStep ==
  ASSUME PipelineInv, PipelineTypeOK', IInv, Accept
  PROVE  PipelineInv'
<1> USE DEF PipelineInv
<1>1. /\ cons.pc \in {"handle", "handleNew"}
      /\ NewSession(cons.msg)
      /\ cons' = [cons EXCEPT !.pc = IF cons.pc = "handle" THEN "push" ELSE "pushNew"]
      /\ UNCHANGED <<unread, managers, list, refused, delivered>>
      /\ UNCHANGED <<runPc, tasks, counted, paused, committed>>
  BY DEF Accept, runVars
<1>2. /\ cons'.pc = IF cons.pc = "handle" THEN "push" ELSE "pushNew"
      /\ cons'.msg = cons.msg /\ cons'.part = cons.part
  BY <1>1 DEF PipelineTypeOK
<1>3. /\ fresh' = fresh \ {cons.msg} /\ finished' = finished
      /\ pc'[Consumer] = "put" /\ hand'[Consumer] = cons.msg /\ item'[Consumer] = cons.msg
  BY <1>1, ThreadsAssumption DEF NewSession, IInv, TypeOK, Threads
<1>4. InLists(Partitions)' = InLists(Partitions)
      /\ ListedIn(list, tasks) \subseteq ListedIn(list', tasks')
  BY <1>1, SameLists
<1>5. ConsumerPlace'
  BY <1>1, <1>2, <1>3 DEF ConsumerPlace
<1>6. NewMessages'
  BY <1>1, <1>2, <1>3, <1>4 DEF NewMessages, Unread
<1>7. LiveListed'
  BY <1>1, <1>3, <1>4 DEF LiveListed, Live, NewMessages
<1>8. Unregistered'
  BY <1>1, <1>2 DEF Unregistered
<1>9. Accounted'
  BY <1>1, <1>2, <1>3, <1>4 DEF Accounted, Delivered
<1>10. UnderWay' \subseteq UnderWay
  BY <1>1, <1>2, <1>3, <1>4 DEF UnderWay, Unfinished
<1>11. Counting' /\ Limits'
  BY <1>1, <1>4, <1>10, NoMore
<1> QED
  BY <1>5, <1>6, <1>7, <1>8, <1>9, <1>11

LEMMA PushStep ==
  ASSUME PipelineInv, PipelineTypeOK', IInv, Pushed \/ PushBlocks
  PROVE  PipelineInv'
<1> USE DEF PipelineInv
<1>0. Consumer \in Threads /\ Consumer \notin Workers
  BY ThreadsAssumption DEF Threads
<1>1. /\ pc[Consumer] = "put" /\ cons.pc \in {"push", "pushNew"}
      /\ UNCHANGED <<unread, managers, list, refused, delivered, fresh, finished>>
      /\ UNCHANGED <<runPc, tasks, counted, paused, committed>>
  BY DEF Pushed, PushBlocks, PutItem, PutBlocks, ConsumerPlace, consumerVars, runVars
<1>2. /\ ConsumerPlace'
      /\ cons'.pc \in {"consume", "insert", "push", "pushNew"}
      /\ cons'.msg \in {cons.msg, NoSession}
      /\ cons.pc = "pushNew" => /\ cons'.pc \in {"pushNew", "insert"}
                                /\ cons'.msg = cons.msg /\ cons'.part = cons.part
  <2>1. CASE PushBlocks
    BY <1>0, <1>1, <2>1 DEF PushBlocks, PutBlocks, consumerVars, ConsumerPlace, IInv, TypeOK
  <2>2. CASE Pushed
    <3>1. /\ cons' = IF cons.pc = "push" THEN Consuming ELSE [cons EXCEPT !.pc = "insert"]
          /\ hand[Consumer] = item[Consumer]
          /\ PutItem(Consumer)
      BY <1>1, <2>2 DEF Pushed, AfterHandle, ConsumerPlace
    <3> DEFINE at == [pc EXCEPT ![Consumer] = "idle"]
    <3>2. at \in [Threads -> Places] /\ at[Consumer] = "idle"
      BY <1>0 DEF IInv, TypeOK, Places
    <3>3. /\ pc' \in NotifyOne(at, "getWait", "get")
          /\ hand' = [hand EXCEPT ![Consumer] = NoSession]
          /\ item' = [item EXCEPT ![Consumer] = NoSession]
      BY <1>0, <3>1 DEF PutItem, Rest
    <3> HIDE DEF at
    <3>4. pc'[Consumer] = at[Consumer] \/ (at[Consumer] = "getWait" /\ pc'[Consumer] = "get")
      BY <1>0, <3>2, <3>3, NotifiedOne
    <3>5. pc'[Consumer] = "idle" /\ hand'[Consumer] = item'[Consumer]
      BY <1>0, <3>2, <3>3, <3>4 DEF IInv, TypeOK
    <3> QED
      BY <1>1, <3>1, <3>5 DEF ConsumerPlace, Consuming, PipelineTypeOK
  <2> QED
    BY <2>1, <2>2
<1>3. InLists(Partitions)' = InLists(Partitions)
      /\ ListedIn(list, tasks) \subseteq ListedIn(list', tasks')
  BY <1>1, SameLists
<1>4. NewMessages'
  BY <1>1, <1>2, <1>3, UnreadIsNew DEF NewMessages, Unread
<1>5. LiveListed'
  BY <1>1, <1>3 DEF LiveListed, Live
<1>6. Unregistered'
  BY <1>1, <1>2 DEF Unregistered
<1>7. Accounted'
  BY <1>1, <1>2, <1>3 DEF Accounted, Delivered
<1>8. UnderWay' \subseteq UnderWay
  BY <1>1, <1>2, <1>3 DEF UnderWay, Unfinished
<1>9. Counting' /\ Limits'
  BY <1>1, <1>3, <1>8, NoMore
<1> QED
  BY <1>2, <1>4, <1>5, <1>6, <1>7, <1>9

LEMMA DeliverStep ==
  ASSUME PipelineInv, PipelineTypeOK', Deliver
  PROVE  PipelineInv'
<1> USE DEF PipelineInv
<1> DEFINE new == Head(unread)
<1>1. /\ cons.pc = "consume" /\ ~paused /\ delivered < Burst /\ unread # <<>>
      /\ cons' = [pc |-> "find", msg |-> new, part |-> PartitionOf[new]]
      /\ unread' = Tail(unread) /\ delivered' = delivered + 1
      /\ UNCHANGED <<managers, list, refused, runPc, tasks, counted, paused, committed>>
      /\ UNCHANGED <<queue, pc, hand, item, inflight, fresh, finished, pushes>>
  BY DEF Deliver, vars, runVars
<1>2. cons'.pc = "find" /\ cons'.msg = new
  BY <1>1
<1>3. /\ Len(unread) \in Nat \ {0} /\ Len(unread') = Len(unread) - 1 /\ new = unread[1]
      /\ \A i \in 1 .. Len(unread') : unread'[i] = unread[i + 1]
  <2>1. unread \in Seq(Messages) /\ unread # <<>>
    BY <1>1 DEF PipelineTypeOK
  <2> QED
    BY <1>1, <2>1, EmptySeq, HeadTailProperties
<1>4. \A i \in 1 .. Len(unread') : i + 1 \in 1 .. Len(unread) /\ i + 1 # 1
  BY <1>3
<1>5. new \in Unread /\ Unread' \subseteq Unread
  BY <1>3, <1>4 DEF Unread
<1>6. new \notin Unread'
  BY <1>3, <1>4 DEF Unread, NewMessages
<1>7. Unread \subseteq Unread' \cup {new}
  <2>1. ASSUME NEW i \in 1 .. Len(unread)
        PROVE  unread[i] \in Unread' \cup {new}
    <3>1. CASE i = 1
      BY <1>3, <3>1
    <3>2. CASE i # 1
      <4>1. i - 1 \in 1 .. Len(unread') /\ (i - 1) + 1 = i
        BY <1>3, <3>2
      <4>2. unread'[i - 1] = unread[i]
        BY <1>3, <4>1
      <4> QED
        BY <4>1, <4>2 DEF Unread
    <3> QED
      BY <3>1, <3>2
  <2> QED
    BY <2>1 DEF Unread
<1> HIDE DEF new
<1>8. InLists(Partitions)' = InLists(Partitions) /\ InLists(tasks)' = InLists(tasks)
  BY <1>1, InListsIs, InListsIsNext
<1>9. ConsumerPlace'
  BY <1>1, <1>2 DEF ConsumerPlace
<1>10. NewMessages'
  <2>1. \A i, j \in 1 .. Len(unread') : unread'[i] = unread'[j] => i = j
    <3>1. ASSUME NEW i \in 1 .. Len(unread'), NEW j \in 1 .. Len(unread'), unread'[i] = unread'[j]
          PROVE  i = j
      <4>1. unread[i + 1] = unread[j + 1]
        BY <1>3, <3>1
      <4>2. i + 1 = j + 1
        BY <1>4, <4>1 DEF NewMessages
      <4> QED
        BY <1>3, <4>2
    <3> QED
      BY <3>1
  <2>2. Unread' \subseteq fresh' \ (InLists(Partitions)' \cup refused' \cup {cons'.msg})
    BY <1>1, <1>2, <1>5, <1>6, <1>8 DEF NewMessages
  <2>3. cons'.msg \in fresh' \ (InLists(Partitions)' \cup refused')
    BY <1>1, <1>2, <1>5, <1>8 DEF NewMessages
  <2> QED
    BY <1>2, <2>1, <2>2, <2>3 DEF NewMessages
<1>11. LiveListed'
  BY <1>1, <1>8 DEF LiveListed, Live
<1>12. Unregistered'
  BY <1>1 DEF Unregistered
<1>13. Accounted'
  <2>1. Delivered' \subseteq Delivered \cup {new}
    BY <1>7 DEF Delivered, Unread
  <2> QED
    BY <1>1, <1>2, <1>8, <2>1 DEF Accounted
<1>14. UnderWay' = UnderWay \cup {new}
  BY <1>1, <1>2, <1>8 DEF UnderWay, Unfinished
<1>15. UnderWay \in SUBSET Messages /\ UnderWay' \in SUBSET Messages
  BY UnderWayIs, UnderWayIsNext
<1>16. Cardinality(UnderWay') <= Cardinality(UnderWay) + 1
       /\ Cardinality(UnderWay) \in Nat /\ Cardinality(UnderWay') \in Nat
  BY <1>14, <1>15, Sizes
<1> DEFINE before == UnderWay \ InLists(tasks)
           after == UnderWay' \ InLists(tasks)'
<1>17. before \in SUBSET Messages /\ after \in SUBSET Messages
       /\ before \cup {new} \in SUBSET Messages /\ after \subseteq before \cup {new}
  BY <1>8, <1>14, <1>15
<1>18. /\ Cardinality(after) <= Cardinality(before) + 1
       /\ Cardinality(after) \in Nat /\ Cardinality(before) \in Nat
  <2>1. Cardinality(after) <= Cardinality(before \cup {new})
        /\ Cardinality(before \cup {new}) \in Nat
        /\ Cardinality(after) \in Nat /\ Cardinality(before) \in Nat
    BY <1>17, Sizes
  <2>2. Cardinality(before \cup {new}) <= Cardinality(before) + 1
    BY <1>17, Sizes
  <2> QED
    BY <2>1, <2>2
<1> HIDE DEF before, after
<1>19. counted \in Nat /\ delivered \in Nat /\ Burst \in Nat /\ CacheLimit \in Nat
  BY BoundsAssumption, CacheAssumption DEF PipelineTypeOK, CacheLimit
<1>20. Counting'
  <2>1. runPc # "idle" => Cardinality(before) <= counted + delivered + 1
    BY DEF Counting, before
  <2>2. runPc' # "idle" => Cardinality(after) <= counted' + delivered' + 1
    BY <1>1, <1>18, <1>19, <2>1
  <2> QED
    BY <2>2 DEF Counting, after
<1>21. Limits'
  BY <1>1, <1>16, <1>19 DEF Limits
<1> QED
  BY <1>9, <1>10, <1>11, <1>12, <1>13, <1>20, <1>21

LEMMA EmplaceBackStep ==
  ASSUME PipelineInv, PipelineTypeOK', EmplaceBack
  PROVE  PipelineInv'
<1> USE DEF PipelineInv
<1>1. /\ cons.pc = "find" /\ runPc # "tasks"
      /\ list' = [list EXCEPT ![cons.part] = Append(list[cons.part], cons.msg)]
      /\ cons' = [cons EXCEPT !.pc = IF cons.part \in managers THEN "handle" ELSE "handleNew"]
      /\ UNCHANGED <<unread, managers, refused, delivered, runPc, tasks, counted, paused, committed>>
      /\ UNCHANGED <<queue, pc, hand, item, inflight, fresh, finished, pushes>>
  BY DEF EmplaceBack, vars, runVars
<1>2. /\ cons'.pc = IF cons.part \in managers THEN "handle" ELSE "handleNew"
      /\ cons'.msg = cons.msg /\ cons'.part = cons.part
      /\ cons.msg \in Messages /\ cons.part \in Partitions /\ tasks = {}
  BY <1>1 DEF PipelineTypeOK
<1> DEFINE old == list[cons.part]
<1>3. /\ old \in Seq(Messages) /\ Len(old) \in Nat
      /\ Len(list'[cons.part]) = Len(old) + 1
      /\ list'[cons.part][Len(old) + 1] = cons.msg
      /\ \A i \in 1 .. Len(old) : list'[cons.part][i] = old[i]
      /\ \A p \in Partitions : p # cons.part => list'[p] = list[p]
  BY <1>1, <1>2, AppendProperties, ListElements DEF PipelineTypeOK
<1>4. ListedIn(list', Partitions) = ListedIn(list, Partitions) \cup {cons.msg}
  <2>1. ASSUME NEW x \in ListedIn(list', Partitions)
        PROVE  x \in ListedIn(list, Partitions) \cup {cons.msg}
    <3>1. PICK p \in Partitions : \E i \in 1 .. Len(list'[p]) : list'[p][i] = x
      BY DEF ListedIn
    <3>2. CASE p # cons.part
      BY <1>3, <3>1, <3>2 DEF ListedIn
    <3>3. CASE p = cons.part
      <4>1. PICK i \in 1 .. Len(old) + 1 : list'[cons.part][i] = x
        BY <1>3, <3>1, <3>3
      <4>2. i \in 1 .. Len(old) \/ i = Len(old) + 1
        BY <1>3
      <4> QED
        BY <1>2, <1>3, <4>1, <4>2 DEF ListedIn
    <3> QED
      BY <3>2, <3>3
  <2>2. cons.msg \in ListedIn(list', Partitions)
    BY <1>2, <1>3 DEF ListedIn
  <2>3. ASSUME NEW x \in ListedIn(list, Partitions)
        PROVE  x \in ListedIn(list', Partitions)
    <3>1. PICK p \in Partitions : \E i \in 1 .. Len(list[p]) : list[p][i] = x
      BY DEF ListedIn
    <3>2. CASE p # cons.part
      BY <1>3, <3>1, <3>2 DEF ListedIn
    <3>3. CASE p = cons.part
      <4>1. PICK i \in 1 .. Len(old) : old[i] = x
        BY <3>1, <3>3
      <4>2. i \in 1 .. Len(list'[cons.part]) /\ list'[cons.part][i] = x
        BY <1>3, <4>1
      <4> QED
        BY <1>2, <4>2 DEF ListedIn
    <3> QED
      BY <3>2, <3>3
  <2> QED
    BY <2>1, <2>2, <2>3
<1>5. InLists(Partitions)' = InLists(Partitions) \cup {cons.msg}
  BY <1>4, InListsIs, InListsIsNext
<1>6. ConsumerPlace'
  BY <1>1, <1>2 DEF ConsumerPlace
<1>7. NewMessages'
  BY <1>1, <1>2, <1>5 DEF NewMessages, Unread
<1>8. LiveListed'
  BY <1>1, <1>5 DEF LiveListed, Live, NewMessages
<1>9. Unregistered'
  <2>1. ASSUME NEW p \in Partitions \ managers, list'[p] # <<>>
        PROVE  cons'.pc = "handleNew" /\ cons'.part = p /\ list'[p] = <<cons'.msg>>
    <3>1. list[p] = <<>>
      BY <1>1 DEF Unregistered
    <3>2. p = cons.part
      BY <1>3, <2>1, <3>1
    <3>3. list'[p] = Append(<<>>, cons.msg)
      BY <1>1, <1>2, <3>1, <3>2 DEF PipelineTypeOK
    <3> QED
      BY <1>2, <3>2, <3>3
  <2> QED
    BY <1>1, <2>1 DEF Unregistered
<1>10. Accounted'
  BY <1>1, <1>2, <1>5 DEF Accounted, Delivered
<1>11. UnderWay' \subseteq UnderWay
  BY <1>1, <1>2, <1>5 DEF UnderWay, Unfinished
<1>12. ListedIn(list, tasks) \subseteq ListedIn(list', tasks')
  BY <1>2 DEF ListedIn
<1>13. Counting' /\ Limits'
  BY <1>1, <1>11, <1>12, NoMore
<1> QED
  BY <1>6, <1>7, <1>8, <1>9, <1>10, <1>13

LEMMA InsertManagerStep ==
  ASSUME PipelineInv, PipelineTypeOK', InsertManager
  PROVE  PipelineInv'
<1> USE DEF PipelineInv
<1>1. /\ cons.pc = "insert"
      /\ managers' = managers \cup {cons.part}
      /\ cons'.pc = "consume" /\ cons'.msg = NoSession
      /\ UNCHANGED <<unread, list, refused, delivered, runPc, tasks, counted, paused, committed>>
      /\ UNCHANGED <<queue, pc, hand, item, inflight, fresh, finished, pushes>>
  BY DEF InsertManager, Consuming, vars, runVars
<1>2. InLists(Partitions)' = InLists(Partitions)
      /\ ListedIn(list, tasks) \subseteq ListedIn(list', tasks')
  BY <1>1, SameLists
<1>3. ConsumerPlace'
  BY <1>1 DEF ConsumerPlace
<1>4. NewMessages'
  BY <1>1, <1>2, UnreadIsNew DEF NewMessages, Unread
<1>5. LiveListed'
  BY <1>1, <1>2 DEF LiveListed, Live
<1>6. Unregistered'
  BY <1>1 DEF Unregistered
<1>7. Accounted'
  BY <1>1, <1>2 DEF Accounted, Delivered
<1>8. UnderWay' \subseteq UnderWay
  BY <1>1, <1>2 DEF UnderWay, Unfinished
<1>9. Counting' /\ Limits'
  BY <1>1, <1>2, <1>8, NoMore
<1> QED
  BY <1>3, <1>4, <1>5, <1>6, <1>7, <1>9

(* The steps of the Run thread that touch no list.                         *)
LEMMA RunStill ==
  ASSUME PipelineInv, PipelineTypeOK', StartTasks \/ JoinTasks \/ FlowControl
  PROVE  /\ ConsumerPlace' /\ NewMessages' /\ LiveListed' /\ Unregistered' /\ Accounted'
         /\ UnderWay' = UnderWay /\ UnderWay \in SUBSET Messages
         /\ Cardinality(UnderWay) \in Nat
<1> USE DEF PipelineInv
<1>1. /\ UNCHANGED <<unread, cons, managers, list, refused, committed>>
      /\ UNCHANGED <<queue, pc, hand, item, inflight, fresh, finished, pushes>>
  BY DEF StartTasks, JoinTasks, FlowControl, vars, consumerVars
<1>2. InLists(Partitions)' = InLists(Partitions)
  BY <1>1, InListsIs, InListsIsNext
<1>3. UnderWay \in SUBSET Messages
  BY UnderWayIs
<1>4. Cardinality(UnderWay) \in Nat
  BY <1>3, Sizes
<1>5. ConsumerPlace' /\ Unregistered'
  BY <1>1 DEF ConsumerPlace, Unregistered
<1>6. NewMessages' /\ LiveListed' /\ Accounted' /\ UnderWay' = UnderWay
  BY <1>1, <1>2 DEF NewMessages, Unread, LiveListed, Live, Accounted, Delivered, UnderWay, Unfinished
<1> QED
  BY <1>3, <1>4, <1>5, <1>6

LEMMA StartTasksStep ==
  ASSUME PipelineInv, PipelineTypeOK', StartTasks
  PROVE  PipelineInv'
<1> USE DEF PipelineInv
<1>1. /\ runPc = "idle" /\ cons.pc \notin {"handle", "push"}
      /\ runPc' = "tasks" /\ tasks' = managers /\ counted' = 0 /\ delivered' = 0
      /\ UNCHANGED <<cons, managers, list, refused, paused, finished>>
  BY DEF StartTasks, ExclusiveLock, vars
<1>2. ConsumerPlace' /\ NewMessages' /\ LiveListed' /\ Unregistered' /\ Accounted'
      /\ UnderWay' = UnderWay /\ UnderWay \in SUBSET Messages
      /\ Cardinality(UnderWay) \in Nat
  BY RunStill
<1>3. InLists(tasks)' = ListedIn(list, managers)
  BY <1>1, InListsIsNext
<1>4. UnderWay = (ListedIn(list, Partitions) \ (finished \cup refused)) \cup InHand(cons)
  BY UnderWayIs DEF Way
<1>5. UnderWay' \ InLists(tasks)' \subseteq {cons.msg}
  <2>1. ASSUME NEW x \in ListedIn(list, Partitions), x \notin ListedIn(list, managers)
        PROVE  x = cons.msg
    <3>1. PICK p \in Partitions : \E i \in 1 .. Len(list[p]) : list[p][i] = x
      BY DEF ListedIn
    <3>2. p \notin managers /\ list[p] # <<>>
      BY <2>1, <3>1 DEF ListedIn
    <3>3. list[p] = <<cons.msg>>
      BY <3>2 DEF Unregistered
    <3> QED
      BY <3>1, <3>3
  <2> QED
    BY <1>2, <1>3, <1>4, <2>1 DEF InHand
<1>6. Cardinality(UnderWay' \ InLists(tasks)') <= 1
  <2>1. IsFiniteSet({cons.msg}) /\ Cardinality({cons.msg}) = 1
    BY FS_Singleton
  <2> QED
    BY <1>5, <2>1, FS_Subset
<1>7. delivered \in 0 .. Burst /\ Burst \in Nat /\ CacheLimit \in Nat
  BY BoundsAssumption, CacheAssumption DEF PipelineTypeOK, CacheLimit
<1>8. Counting'
  BY <1>1, <1>6 DEF Counting
<1>9. Limits'
  BY <1>1, <1>2, <1>7 DEF Limits
<1> QED
  BY <1>2, <1>8, <1>9

LEMMA JoinTasksStep ==
  ASSUME PipelineInv, PipelineTypeOK', JoinTasks
  PROVE  PipelineInv'
<1> USE DEF PipelineInv
<1>1. /\ runPc = "tasks" /\ runPc' = "flow"
      /\ UNCHANGED <<list, delivered, tasks, counted, paused>>
  BY DEF JoinTasks, consumerVars
<1>2. ConsumerPlace' /\ NewMessages' /\ LiveListed' /\ Unregistered' /\ Accounted'
      /\ UnderWay' = UnderWay
  BY RunStill
<1>3. InLists(tasks)' = InLists(tasks)
  BY <1>1, InListsIs, InListsIsNext
<1>4. Counting'
  BY <1>1, <1>2, <1>3 DEF Counting
<1>5. Limits'
  BY <1>1, <1>2 DEF Limits
<1> QED
  BY <1>2, <1>4, <1>5

LEMMA FlowControlStep ==
  ASSUME PipelineInv, PipelineTypeOK', FlowControl
  PROVE  PipelineInv'
<1> USE DEF PipelineInv
<1>1. /\ runPc = "flow" /\ runPc' = "idle" /\ paused' = (counted >= MaxCache)
      /\ UNCHANGED <<list, delivered, tasks, counted>>
  BY DEF FlowControl, consumerVars, CacheFull
<1>2. ConsumerPlace' /\ NewMessages' /\ LiveListed' /\ Unregistered' /\ Accounted'
      /\ UnderWay' = UnderWay /\ Cardinality(UnderWay) \in Nat
  BY RunStill
<1>3. InLists(tasks) = {}
  BY <1>1, InListsIs DEF PipelineTypeOK, ListedIn
<1>4. Cardinality(UnderWay) <= counted + delivered + 1
  <2>1. UnderWay \ InLists(tasks) = UnderWay
    BY <1>3
  <2> QED
    BY <1>1, <2>1 DEF Counting
<1>5. counted \in Nat /\ delivered \in Nat /\ MaxCache \in Int
  BY CacheAssumption, BoundsAssumption DEF PipelineTypeOK
<1>6. ~paused' => Cardinality(UnderWay') <= CacheLimit + delivered'
  <2>1. ~ (counted >= MaxCache) => counted + 1 <= MaxCache /\ MaxCache > 0
    BY <1>5
  <2>2. ~paused' => ~ (counted >= MaxCache)
    BY <1>1, Zenon
  <2>3. MaxCache > 0 => CacheLimit = MaxCache
    BY DEF CacheLimit
  <2> QED
    BY <1>1, <1>2, <1>4, <1>5, <2>1, <2>2, <2>3
<1>7. CacheLimit \in Nat
  BY <1>5 DEF CacheLimit
<1>8. Limits'
  BY <1>1, <1>2, <1>5, <1>6, <1>7 DEF Limits
<1>9. Counting'
  BY <1>1 DEF Counting
<1> QED
  BY <1>2, <1>8, <1>9

(* One manager of the pass: the finished head of its list is committed and *)
(* removed, and what else is in the list is counted.                       *)
LEMMA DoSomethingStep ==
  ASSUME PipelineInv, PipelineTypeOK', IInv, NEW p \in Partitions, DoSomething(p)
  PROVE  PipelineInv'
<1> USE DEF PipelineInv
<1> DEFINE pos == Manager!FirstNotDonePos(Entries(p))
           head == IF Manager!CommitDue(pos, Manager!ForceCommit(Entries(p))) THEN pos ELSE 0
           done == finished \cup refused
           removed == {list[p][i] : i \in 1 .. head}
<1>1. /\ runPc = "tasks" /\ p \in tasks /\ tasks' = tasks \ {p}
      /\ counted' = counted + Manager!Unresolved(Entries(p))
      /\ committed' = committed \cup removed
      /\ list' = [list EXCEPT ![p] = Manager!RemoveFromHead(list[p], head)]
      /\ UNCHANGED <<unread, cons, managers, refused, delivered, runPc, paused>>
      /\ UNCHANGED <<queue, pc, hand, item, inflight, fresh, finished, pushes>>
  BY DEF DoSomething, vars
<1>2. Len(list[p]) \in Nat
  BY ListElements DEF PipelineTypeOK
<1>3. pos \in 0 .. Len(list[p]) /\ \A i \in 1 .. pos : list[p][i] \in done
  BY FinishedHead
<1>4. head \in 0 .. Len(list[p]) /\ removed \subseteq done
  BY <1>2, <1>3
<1> HIDE DEF pos, head
<1>5. /\ {list'[p][i] : i \in 1 .. Len(list'[p])} = {list[p][i] : i \in head + 1 .. Len(list[p])}
      /\ \A q \in Partitions : q # p => list'[q] = list[q]
  <2> DEFINE rest == Manager!RemoveFromHead(list[p], head)
  <2>1. {rest[i] : i \in 1 .. Len(rest)} = {list[p][i] : i \in head + 1 .. Len(list[p])}
    BY <1>4, RemovedFromHead
  <2> HIDE DEF rest
  <2>2. list'[p] = rest /\ \A q \in Partitions : q # p => list'[q] = list[q]
    BY <1>1 DEF PipelineTypeOK, rest
  <2> QED
    BY <2>1, <2>2
<1>6. ASSUME NEW x
      PROVE  (\E i \in 1 .. Len(list'[p]) : list'[p][i] = x)
               <=> \E i \in head + 1 .. Len(list[p]) : list[p][i] = x
  BY <1>5
<1>7. ListedIn(list', Partitions) \subseteq ListedIn(list, Partitions)
  <2>1. ASSUME NEW x \in ListedIn(list', Partitions)
        PROVE  x \in ListedIn(list, Partitions)
    <3>1. PICK q \in Partitions : \E i \in 1 .. Len(list'[q]) : list'[q][i] = x
      BY DEF ListedIn
    <3>2. \E i \in 1 .. Len(list[q]) : list[q][i] = x
      BY <1>2, <1>4, <1>5, <1>6, <3>1
    <3> QED
      BY <3>2 DEF ListedIn
  <2> QED
    BY <2>1
<1>8. ListedIn(list, Partitions) \subseteq ListedIn(list', Partitions) \cup removed
  <2>1. ASSUME NEW x \in ListedIn(list, Partitions), x \notin removed
        PROVE  x \in ListedIn(list', Partitions)
    <3>1. PICK q \in Partitions : \E i \in 1 .. Len(list[q]) : list[q][i] = x
      BY DEF ListedIn
    <3>2. CASE q # p
      BY <1>5, <3>1, <3>2 DEF ListedIn
    <3>3. CASE q = p
      <4>1. PICK i \in 1 .. Len(list[p]) : list[p][i] = x
        BY <3>1, <3>3
      <4>2. i \notin 1 .. head
        BY <2>1, <4>1
      <4>3. i \in head + 1 .. Len(list[p])
        BY <1>2, <1>4, <4>2
      <4>4. \E j \in 1 .. Len(list'[p]) : list'[p][j] = x
        BY <1>6, <4>1, <4>3
      <4> QED
        BY <4>4 DEF ListedIn
    <3> QED
      BY <3>2, <3>3
  <2> QED
    BY <2>1
<1>9. /\ InLists(Partitions)' \subseteq InLists(Partitions)
      /\ InLists(Partitions) \subseteq InLists(Partitions)' \cup removed
  BY <1>7, <1>8, InListsIs, InListsIsNext
<1> HIDE DEF removed
<1>10. fresh \cap finished = {}
  BY DEF IInv, ExclusiveSession, PlacesDisjoint
<1>11. ConsumerPlace'
  BY <1>1 DEF ConsumerPlace
<1>12. NewMessages'
  BY <1>1, <1>4, <1>9, <1>10 DEF NewMessages, Unread
<1>13. LiveListed'
  BY <1>1, <1>4, <1>9 DEF LiveListed, Live
<1>14. Unregistered'
  <2>1. p \in managers
    BY <1>1 DEF PipelineTypeOK
  <2> QED
    BY <1>1, <1>5, <2>1 DEF Unregistered
<1>15. Accounted'
  BY <1>1, <1>4, <1>9 DEF Accounted, Delivered
<1>16. UnderWay' \subseteq UnderWay
  BY <1>1, <1>9 DEF UnderWay, Unfinished
<1>17. UnderWay \in SUBSET Messages /\ UnderWay' \in SUBSET Messages
  BY UnderWayIs, UnderWayIsNext
<1>18. counted \in Nat /\ delivered \in Nat /\ Burst \in Nat /\ CacheLimit \in Nat
  BY BoundsAssumption, CacheAssumption DEF PipelineTypeOK, CacheLimit
<1>19. Limits'
  <2>1. Cardinality(UnderWay') <= Cardinality(UnderWay)
        /\ Cardinality(UnderWay) \in Nat /\ Cardinality(UnderWay') \in Nat
    BY <1>16, <1>17, Sizes
  <2> QED
    BY <1>1, <1>18, <2>1 DEF Limits
<1> DEFINE before == UnderWay \ InLists(tasks)
           after == UnderWay' \ InLists(tasks)'
<1>20. after \subseteq before \cup OpenIn(p)
  <2>1. ASSUME NEW x \in after, x \in InLists(tasks)
        PROVE  x \in OpenIn(p)
    <3>1. x \in ListedIn(list, tasks) /\ x \notin ListedIn(list', tasks')
      BY <2>1, InListsIs, InListsIsNext
    <3>2. PICK q \in tasks : \E i \in 1 .. Len(list[q]) : list[q][i] = x
      BY <3>1 DEF ListedIn
    <3>3. q = p
      <4>1. ASSUME q # p
            PROVE  FALSE
        <5>1. q \in tasks' /\ list'[q] = list[q]
          BY <1>1, <1>5, <3>2, <4>1 DEF PipelineTypeOK
        <5> QED
          BY <3>1, <3>2, <5>1 DEF ListedIn
      <4> QED
        BY <4>1
    <3>4. x \in InLists(Partitions)
      BY <3>1, InListsIs DEF ListedIn, PipelineTypeOK
    <3>5. x \in UnderWay
      BY <1>16, <2>1
    <3>6. x \notin done
      BY <3>4, <3>5 DEF UnderWay, Unfinished, NewMessages
    <3> QED
      BY <1>17, <3>2, <3>3, <3>5, <3>6 DEF OpenIn
  <2> QED
    BY <1>16, <2>1
<1>21. before \in SUBSET Messages /\ after \in SUBSET Messages /\ OpenIn(p) \in SUBSET Messages
       /\ before \cup OpenIn(p) \in SUBSET Messages
  BY <1>17 DEF OpenIn
<1> HIDE DEF before, after
<1>22. /\ Cardinality(after) <= Cardinality(before \cup OpenIn(p))
       /\ Cardinality(before \cup OpenIn(p)) <= Cardinality(before) + Cardinality(OpenIn(p))
       /\ Cardinality(after) \in Nat /\ Cardinality(before) \in Nat
       /\ Cardinality(OpenIn(p)) \in Nat /\ Cardinality(before \cup OpenIn(p)) \in Nat
  BY <1>20, <1>21, Sizes
<1>23. /\ Manager!Unresolved(Entries(p)) \in Nat
       /\ Cardinality(OpenIn(p)) <= Manager!Unresolved(Entries(p))
  BY UnresolvedCounts
<1>24. Cardinality(before) <= counted + delivered + 1
  BY <1>1 DEF Counting, before
<1>25. Cardinality(after) <= counted' + delivered' + 1
  BY <1>1, <1>18, <1>22, <1>23, <1>24
<1>26. Counting'
  BY <1>25 DEF Counting, after
<1> QED
  BY <1>11, <1>12, <1>13, <1>14, <1>15, <1>19, <1>26

-----------------------------------------------------------------------------
(* The theorems.                                                           *)

LEMMA InitPipelineInv == PipelineInit => PipelineInv
<1> SUFFICES ASSUME PipelineInit PROVE PipelineInv
  OBVIOUS
<1> USE DEF PipelineInit, Init
<1>1. Log \in Seq(Messages)
  <2>1. Len(Log) \in Nat /\ \A i \in 1 .. Len(Log) : Log[i] \in Messages
    BY LenProperties, LogAssumption DEF Messages
  <2>2. Log = [i \in 1 .. Len(Log) |-> Log[i]]
    BY LenProperties, LogAssumption
  <2> QED
    BY <2>1, <2>2, IsASeq
<1>2. PipelineTypeOK
  <2>1. cons \in [pc : {"consume", "find", "handle", "handleNew", "push", "pushNew", "insert"},
                  msg : Messages \cup {NoSession}, part : Partitions \cup {NoPartition}]
        /\ cons.pc = "consume"
    BY DEF Consuming
  <2>2. list \in [Partitions -> Seq(Messages)]
    BY EmptySeq
  <2>3. delivered \in 0 .. Burst
    BY BoundsAssumption
  <2> QED
    BY <1>1, <2>1, <2>2, <2>3 DEF PipelineTypeOK
<1>3. InLists(Partitions) = {} /\ ListedIn(list, Partitions) = {}
  BY <1>2, InListsIs DEF ListedIn
<1>4. Unread = Messages
  BY DEF Unread, Messages
<1>5. ConsumerPlace
  BY ThreadsAssumption DEF ConsumerPlace, Consuming, Rest, Threads
<1>6. NewMessages
  BY <1>3, <1>4, MessagesFinite, LogAssumption, SessionsAssumption DEF NewMessages, Consuming
<1>7. LiveListed
  BY DEF LiveListed, Live
<1>8. Unregistered
  BY DEF Unregistered
<1>9. Accounted
  BY <1>4 DEF Accounted, Delivered, Unread
<1>10. Counting
  BY DEF Counting
<1>11. Limits
  <2>1. UnderWay = {}
    BY <1>3 DEF UnderWay, Unfinished, Consuming
  <2> QED
    BY <2>1, FS_EmptySet, BoundsAssumption, CacheAssumption DEF Limits, CacheLimit
<1> QED
  BY <1>2, <1>5, <1>6, <1>7, <1>8, <1>9, <1>10, <1>11 DEF PipelineInv

LEMMA NextPipelineInv == PipelineInv /\ IInv /\ [PipelineNext]_pipelineVars => PipelineInv'
<1> SUFFICES ASSUME PipelineInv, IInv, [PipelineNext]_pipelineVars
             PROVE  PipelineInv'
  OBVIOUS
<1>1. PipelineTypeOK'
  BY PipelineTypes DEF PipelineInv
<1>2. CASE \E t \in Workers \cup IoThreads : WorkerStep(t)
  BY <1>1, <1>2, OthersStep
<1>3. CASE \E t \in Threads : Wakeup(t)
  BY <1>1, <1>3, OthersStep
<1>4. CASE Deliver
  BY <1>1, <1>4, DeliverStep
<1>5. CASE LockedStep
  BY <1>1, <1>5, EmplaceBackStep, InsertManagerStep DEF LockedStep
<1>6. CASE ConsumerStep
  BY <1>1, <1>6, RefuseStep, AcceptStep, PushStep DEF ConsumerStep
<1>7. CASE RunStep
  BY <1>1, <1>7, StartTasksStep, JoinTasksStep, FlowControlStep, DoSomethingStep DEF RunStep
<1>8. CASE UNCHANGED pipelineVars
  <2>1. /\ UNCHANGED <<unread, cons, managers, list, refused, delivered>>
        /\ UNCHANGED <<runPc, tasks, counted, paused, committed>>
        /\ UNCHANGED <<queue, pc, hand, item, inflight, fresh, finished, pushes>>
    BY <1>8 DEF pipelineVars, vars, consumerVars, runVars
  <2>2. InLists(Partitions)' = InLists(Partitions)
        /\ ListedIn(list, tasks) \subseteq ListedIn(list', tasks')
    BY <1>1, <2>1, SameLists DEF PipelineInv
  <2>3. ConsumerPlace' /\ Unregistered'
    BY <2>1 DEF PipelineInv, ConsumerPlace, Unregistered
  <2>4. NewMessages' /\ LiveListed' /\ Accounted' /\ UnderWay' = UnderWay
    BY <2>1, <2>2 DEF PipelineInv, NewMessages, Unread, LiveListed, Live, Accounted, Delivered,
                      UnderWay, Unfinished
  <2>5. Counting' /\ Limits'
    BY <1>1, <2>1, <2>2, <2>4, NoMore
  <2> QED
    BY <1>1, <2>3, <2>4, <2>5 DEF PipelineInv
<1> QED
  BY <1>2, <1>3, <1>4, <1>5, <1>6, <1>7, <1>8 DEF PipelineNext

(* PipelineInv and Worker's IInv hold of every reachable state of consumer *)
(* and queue together: of every delivery, payload and interleaving.        *)
THEOREM PipelineInvariance == PipelineSpec => [](PipelineInv /\ IInv)
<1>1. PipelineInit => PipelineInv /\ IInv
  BY InitPipelineInv, InitIInv DEF PipelineInit
<1>2. PipelineInv /\ IInv /\ [PipelineNext]_pipelineVars => (PipelineInv /\ IInv)'
  BY NextPipelineInv, WorkerSteps, NextIInv DEF PipelineInv
<1> QED
  BY <1>1, <1>2, PTL DEF PipelineSpec

(* Consumer, lists and Run thread do nothing to the queue that Worker does *)
(* not allow: what is proved of Worker (exclusive sessions, no lost        *)
(* wake-up, no session forgotten) holds here too.                          *)
THEOREM PipelineImplementsWorker == PipelineSpec => Spec
<1>1. PipelineInit => Init
  BY DEF PipelineInit
<1>2. PipelineInv /\ [PipelineNext]_pipelineVars => [Next]_vars
  BY WorkerSteps DEF PipelineInv
<1> QED
  BY <1>1, <1>2, PipelineInvariance, PTL DEF PipelineSpec, Spec

(* check_flow_control keeps the sessions under way within max_cache_size   *)
(* and what Kafka delivers in two passes of the Run thread.                *)
THEOREM CacheStaysBounded == PipelineSpec => []CacheBounded
<1>1. PipelineInv => CacheBounded
  <2> SUFFICES ASSUME PipelineInv PROVE CacheBounded
    OBVIOUS
  <2> USE DEF PipelineInv
  <2>1. UnderWay \in SUBSET Messages /\ Unfinished \subseteq UnderWay
    BY UnderWayIs DEF UnderWay
  <2>2. Unfinished \in SUBSET Messages
    BY <2>1
  <2>3. Cardinality(Unfinished) <= Cardinality(UnderWay)
        /\ Cardinality(Unfinished) \in Nat /\ Cardinality(UnderWay) \in Nat
    BY <2>1, <2>2, Sizes
  <2>4. CacheLimit \in Nat /\ Burst \in Nat
    BY CacheAssumption, BoundsAssumption DEF CacheLimit
  <2> QED
    BY <2>3, <2>4 DEF Limits, CacheBounded
<1> QED
  BY <1>1, PipelineInvariance, PTL

(* The configurations in which the sessions under way fit into the queue   *)
(* and the hands of the workers.                                           *)
LargeEnough ==
  /\ MaxTask # 0
  /\ MaxTask < 0 \/ CacheLimit + 2 * Burst < MaxTask + Cardinality(Workers)

(* With them the queue never stands still, although the consumer thread    *)
(* waits in PushMsg under the lock that commits need and workers wait for  *)
(* the room that only they can make.                                       *)
THEOREM QueueKeepsMoving ==
  ASSUME LargeEnough
  PROVE  PipelineSpec => []FlowKeepsMoving
<1>1. PipelineInv /\ IInv => FlowKeepsMoving
  <2> SUFFICES ASSUME PipelineInv, IInv, Stuck
               PROVE  FALSE
    BY DEF FlowKeepsMoving
  <2> USE DEF PipelineInv
  <2>1. MaxTask > 0 /\ Cardinality(Live) >= MaxTask + Cardinality(Workers)
    BY StandstillNeedsOverload DEF NoStandstill, LargeEnough
  <2>2. UnderWay \in SUBSET Messages
    BY UnderWayIs
  <2>3. Live \subseteq UnderWay
    BY DEF LiveListed, Live, UnderWay, Unfinished
  <2>4. Cardinality(Live) <= Cardinality(UnderWay)
        /\ Cardinality(Live) \in Nat /\ Cardinality(UnderWay) \in Nat
    <3>1. Live \in SUBSET Messages
      BY <2>2, <2>3
    <3> QED
      BY <2>2, <2>3, <3>1, Sizes
  <2>5. CacheLimit \in Nat /\ Burst \in Nat /\ MaxTask \in Int
    BY CacheAssumption, BoundsAssumption, MaxTaskAssumption DEF CacheLimit
  <2>6. Cardinality(Workers) \in Nat
    BY WorkersAssumption, FS_CardinalityType
  <2> QED
    BY <2>1, <2>4, <2>5, <2>6 DEF Limits, LargeEnough
<1> QED
  BY <1>1, PipelineInvariance, PTL

(* What Kafka has delivered is committed, in a list, or about to be put    *)
(* into one; and only what is done is committed.                           *)
THEOREM NothingLeavesUncommitted == PipelineSpec => []Accounted
<1>1. PipelineInv => Accounted
  BY DEF PipelineInv
<1> QED
  BY <1>1, PipelineInvariance, PTL

-----------------------------------------------------------------------------
(* Commits have no gaps.                                                   *)

LEMMA BeforeIsStrict ==
  ASSUME NEW x, NEW y, Before(x, y)
  PROVE  x \in Messages /\ y \in Messages /\ x # y /\ ~Before(y, x)
<1>1. Len(Log) \in Nat
  BY LenProperties, LogAssumption
<1>2. PICK i \in 1 .. Len(Log), j \in 1 .. Len(Log) : i < j /\ Log[i] = x /\ Log[j] = y
  BY DEF Before
<1>3. x \in Messages /\ y \in Messages
  BY <1>2 DEF Messages
<1>4. x # y
  BY <1>1, <1>2, LogAssumption
<1>5. ASSUME NEW k \in 1 .. Len(Log), NEW l \in 1 .. Len(Log), k < l, Log[k] = y, Log[l] = x
      PROVE  FALSE
  <2>1. k = j /\ l = i
    BY <1>2, <1>5, LogAssumption
  <2> QED
    BY <1>1, <1>2, <1>5, <2>1
<1> QED
  BY <1>3, <1>4, <1>5 DEF Before

(* The log is delivered from its head: what comes before something that    *)
(* was delivered was delivered, and before what comes next.                *)
LEMMA DeliveredFirst ==
  ASSUME UnreadIsSuffix, PipelineTypeOK
  PROVE  /\ \A x, y : Before(x, y) /\ y \notin Unread => x \notin Unread
         /\ unread # <<>> => \A x \in Messages \ Unread : Before(x, Head(unread))
<1> DEFINE read == Len(Log) - Len(unread)
<1>1. Len(Log) \in Nat /\ Len(unread) \in Nat
  BY LenProperties, LogAssumption DEF PipelineTypeOK
<1>2. read \in Nat /\ \A i \in 1 .. Len(unread) : unread[i] = Log[read + i]
  BY <1>1 DEF UnreadIsSuffix
<1>3. \A i \in 1 .. Len(unread) : read + i \in 1 .. Len(Log)
  BY <1>1, <1>2
<1>4. \A k \in 1 .. Len(Log) : k > read => k - read \in 1 .. Len(unread) /\ read + (k - read) = k
  BY <1>1, <1>2
<1> HIDE DEF read
<1>5. \A k \in 1 .. Len(Log) : k > read => Log[k] \in Unread
  BY <1>2, <1>4 DEF Unread
<1>6. ASSUME NEW x, NEW y, Before(x, y), x \in Unread
      PROVE  y \in Unread
  <2>1. PICK i \in 1 .. Len(Log), j \in 1 .. Len(Log) : i < j /\ Log[i] = x /\ Log[j] = y
    BY <1>6 DEF Before
  <2>2. PICK k \in 1 .. Len(unread) : unread[k] = x
    BY <1>6 DEF Unread
  <2>3. i = read + k
    BY <1>2, <1>3, <2>1, <2>2, LogAssumption
  <2>4. j > read
    BY <1>1, <1>2, <2>1, <2>2, <2>3
  <2> QED
    BY <1>5, <2>1, <2>4
<1>7. ASSUME unread # <<>>, NEW x \in Messages \ Unread
      PROVE  Before(x, Head(unread))
  <2>1. Len(unread) > 0 /\ Head(unread) = unread[1]
    BY <1>7, EmptySeq, HeadTailProperties DEF PipelineTypeOK
  <2>2. Head(unread) = Log[read + 1] /\ read + 1 \in 1 .. Len(Log)
    BY <1>1, <1>2, <1>3, <2>1
  <2>3. PICK k \in 1 .. Len(Log) : Log[k] = x
    BY <1>7 DEF Messages
  <2>4. k < read + 1
    BY <1>1, <1>2, <1>5, <1>7, <2>3
  <2> QED
    BY <2>2, <2>3, <2>4 DEF Before
<1> QED
  BY <1>6, <1>7

LEMMA OrderDeliver ==
  ASSUME PipelineInv, OrderInv, Deliver
  PROVE  OrderInv'
<1> USE DEF PipelineInv, OrderInv
<1>1. /\ cons.pc = "consume" /\ unread # <<>>
      /\ cons' = [pc |-> "find", msg |-> Head(unread), part |-> PartitionOf[Head(unread)]]
      /\ unread' = Tail(unread) /\ list' = list /\ committed' = committed
  BY DEF Deliver, runVars
<1>2. cons'.pc = "find" /\ cons'.msg = Head(unread) /\ cons'.part = PartitionOf[Head(unread)]
  BY <1>1
<1>3. Head(unread) \in Messages
  BY <1>1, HeadTailProperties DEF PipelineTypeOK
<1>4. cons'.part \in Partitions
  BY <1>2, <1>3, PartitionOfAssumption DEF Messages
<1>5. UnreadIsSuffix'
  <2>1. /\ Len(unread) \in Nat \ {0} /\ Len(unread') = Len(unread) - 1
        /\ \A i \in 1 .. Len(unread') : unread'[i] = unread[i + 1]
    BY <1>1, EmptySeq, HeadTailProperties DEF PipelineTypeOK
  <2>2. Len(Log) \in Nat
    BY LenProperties, LogAssumption
  <2>3. ASSUME NEW i \in 1 .. Len(unread')
        PROVE  unread'[i] = Log[Len(Log) - Len(unread') + i]
    <3>1. i + 1 \in 1 .. Len(unread)
          /\ (Len(Log) - Len(unread)) + (i + 1) = Len(Log) - Len(unread') + i
      BY <2>1, <2>2
    <3>2. unread[i + 1] = Log[(Len(Log) - Len(unread)) + (i + 1)]
      BY <3>1 DEF UnreadIsSuffix
    <3> QED
      BY <2>1, <3>1, <3>2
  <2>4. Len(Log) - Len(unread') >= 0
    BY <2>1, <2>2 DEF UnreadIsSuffix
  <2> QED
    BY <2>3, <2>4 DEF UnreadIsSuffix
<1>6. HandInOrder'
  <2>1. ASSUME NEW i \in 1 .. Len(list[cons'.part])
        PROVE  Before(list[cons'.part][i], Head(unread))
    <3>1. list[cons'.part][i] \in Messages
      BY <1>4, ListElements DEF PipelineTypeOK
    <3>2. list[cons'.part][i] \in ListedIn(list, Partitions)
      BY <1>4, <3>1 DEF ListedIn
    <3>3. list[cons'.part][i] \notin Unread
      BY <3>2, InListsIs, UnreadIsNew
    <3> QED
      BY <1>1, <3>1, <3>3, DeliveredFirst
  <2> QED
    BY <1>1, <1>2, <2>1 DEF HandInOrder
<1> QED
  BY <1>1, <1>5, <1>6 DEF ListsInOrder, CommittedInOrder

LEMMA OrderEmplaceBack ==
  ASSUME PipelineInv, OrderInv, EmplaceBack
  PROVE  OrderInv'
<1> USE DEF PipelineInv, OrderInv
<1>1. /\ cons.pc = "find"
      /\ list' = [list EXCEPT ![cons.part] = Append(list[cons.part], cons.msg)]
      /\ cons' = [cons EXCEPT !.pc = IF cons.part \in managers THEN "handle" ELSE "handleNew"]
      /\ unread' = unread /\ committed' = committed
  BY DEF EmplaceBack, runVars
<1>2. /\ cons'.pc \in {"handle", "handleNew"}
      /\ cons'.msg = cons.msg /\ cons'.part = cons.part
      /\ cons.msg \in Messages /\ cons.part \in Partitions
  BY <1>1 DEF PipelineTypeOK
<1> DEFINE old == list[cons.part]
           new == list'[cons.part]
<1>3. /\ Len(old) \in Nat /\ Len(new) = Len(old) + 1 /\ new[Len(old) + 1] = cons.msg
      /\ \A i \in 1 .. Len(old) : new[i] = old[i]
      /\ \A p \in Partitions : p # cons.part => list'[p] = list[p]
  BY <1>1, <1>2, AppendProperties, ListElements DEF PipelineTypeOK
<1>4. /\ PartitionOf[cons.msg] = cons.part
      /\ \A i \in 1 .. Len(old) : Before(old[i], cons.msg)
  BY <1>1 DEF HandInOrder
<1>5. /\ \A i \in 1 .. Len(old) : PartitionOf[old[i]] = cons.part
      /\ \A i, j \in 1 .. Len(old) : i < j => Before(old[i], old[j])
  BY <1>2 DEF ListsInOrder
<1> HIDE DEF old, new
<1>6. \A i \in 1 .. Len(new) : i \in 1 .. Len(old) \/ i = Len(old) + 1
  BY <1>3
<1>7. \A i \in 1 .. Len(new) : PartitionOf[new[i]] = cons.part
  BY <1>3, <1>4, <1>5, <1>6
<1>8. ASSUME NEW i \in 1 .. Len(new), NEW j \in 1 .. Len(new), i < j
      PROVE  Before(new[i], new[j])
  <2>1. i \in 1 .. Len(old)
    BY <1>3, <1>8
  <2>2. CASE j \in 1 .. Len(old)
    BY <1>3, <1>5, <1>8, <2>1, <2>2
  <2>3. CASE j = Len(old) + 1
    BY <1>3, <1>4, <2>1, <2>3
  <2> QED
    BY <1>6, <2>2, <2>3
<1>9. ListsInOrder'
  BY <1>3, <1>7, <1>8 DEF ListsInOrder, new
<1>10. HandInOrder'
  BY <1>2, <1>4 DEF HandInOrder
<1> QED
  BY <1>1, <1>9, <1>10 DEF UnreadIsSuffix, CommittedInOrder

(* What is committed is the head of a list; what comes before it in the    *)
(* log is no longer in the list, and not in the hand of the consumer.      *)
LEMMA OrderDoSomething ==
  ASSUME PipelineInv, OrderInv, NEW p \in Partitions, DoSomething(p)
  PROVE  OrderInv'
<1> USE DEF PipelineInv, OrderInv
<1> DEFINE pos == Manager!FirstNotDonePos(Entries(p))
           head == IF Manager!CommitDue(pos, Manager!ForceCommit(Entries(p))) THEN pos ELSE 0
           rest == Manager!RemoveFromHead(list[p], head)
<1>1. /\ committed' = committed \cup {list[p][i] : i \in 1 .. head}
      /\ list' = [list EXCEPT ![p] = rest]
      /\ UNCHANGED <<unread, cons>>
  BY DEF DoSomething
<1>2. Len(list[p]) \in Nat /\ \A i \in 1 .. Len(list[p]) : list[p][i] \in Messages
  BY ListElements DEF PipelineTypeOK
<1>3. head \in 0 .. Len(list[p])
  BY <1>2, FinishedHead
<1> HIDE DEF pos, head
<1>4. Len(rest) = Len(list[p]) - head /\ \A i \in 1 .. Len(rest) : rest[i] = list[p][head + i]
  BY <1>3, RemovedFromHead
<1> HIDE DEF rest
<1>5. \A i \in 1 .. Len(rest) : head + i \in 1 .. Len(list[p])
  BY <1>2, <1>3, <1>4
<1>6. list'[p] = rest /\ \A q \in Partitions : q # p => list'[q] = list[q]
  BY <1>1 DEF PipelineTypeOK
<1>7. ListsInOrder'
  <2>1. \A i \in 1 .. Len(rest) : PartitionOf[rest[i]] = p
    BY <1>4, <1>5 DEF ListsInOrder
  <2>2. ASSUME NEW i \in 1 .. Len(rest), NEW j \in 1 .. Len(rest), i < j
        PROVE  Before(rest[i], rest[j])
    <3>1. head + i < head + j
      BY <1>2, <1>3, <1>4, <2>2
    <3>2. Before(list[p][head + i], list[p][head + j])
      BY <1>5, <3>1 DEF ListsInOrder
    <3> QED
      BY <1>4, <3>2
  <2> QED
    BY <1>6, <2>1, <2>2 DEF ListsInOrder
<1>8. HandInOrder'
  <2>1. ASSUME cons.pc = "find", NEW i \in 1 .. Len(list'[cons.part])
        PROVE  Before(list'[cons.part][i], cons.msg)
    <3>1. cons.part \in Partitions
      BY <2>1 DEF PipelineTypeOK
    <3>2. CASE cons.part = p
      BY <1>4, <1>5, <1>6, <2>1, <3>2 DEF HandInOrder
    <3>3. CASE cons.part # p
      BY <1>6, <2>1, <3>1, <3>3 DEF HandInOrder
    <3> QED
      BY <3>2, <3>3
  <2> QED
    BY <1>1, <2>1 DEF HandInOrder
<1>9. ASSUME NEW x \in Messages, NEW h \in 1 .. head, Before(x, list[p][h]),
             PartitionOf[x] = PartitionOf[list[p][h]], x \notin committed
      PROVE  x \in {list[p][i] : i \in 1 .. head}
  <2>1. h \in 1 .. Len(list[p])
    BY <1>2, <1>3
  <2>2. list[p][h] \in ListedIn(list, Partitions) /\ PartitionOf[list[p][h]] = p
    BY <1>2, <2>1 DEF ListedIn, ListsInOrder
  <2>3. list[p][h] \notin Unread
    BY <2>2, InListsIs, UnreadIsNew
  <2>4. x \notin Unread
    BY <1>9, <2>3, DeliveredFirst
  <2>5. x \in ListedIn(list, Partitions) \/ (cons.pc = "find" /\ x = cons.msg)
    BY <1>9, <2>4, InListsIs DEF Accounted, Delivered, Unread
  <2>6. CASE cons.pc = "find" /\ x = cons.msg
    <3>1. cons.part = p
      BY <1>9, <2>2, <2>6 DEF HandInOrder
    <3>2. Before(list[p][h], x)
      BY <2>1, <2>6, <3>1 DEF HandInOrder
    <3> QED
      BY <1>9, <3>2, BeforeIsStrict
  <2>7. CASE x \in ListedIn(list, Partitions)
    <3>1. PICK q \in Partitions : \E i \in 1 .. Len(list[q]) : list[q][i] = x
      BY <2>7 DEF ListedIn
    <3>2. q = p
      BY <1>9, <2>2, <3>1 DEF ListsInOrder
    <3>3. PICK i \in 1 .. Len(list[p]) : list[p][i] = x
      BY <3>1, <3>2
    <3>4. ~ (h < i)
      <4>1. h < i => Before(list[p][h], x)
        BY <2>1, <3>3 DEF ListsInOrder
      <4> QED
        BY <1>9, <4>1, BeforeIsStrict
    <3>5. i \in 1 .. head
      BY <1>2, <1>3, <3>4
    <3> QED
      BY <3>3, <3>5
  <2> QED
    BY <2>5, <2>6, <2>7
<1>10. CommittedInOrder'
  BY <1>1, <1>9 DEF CommittedInOrder
<1>11. UnreadIsSuffix'
  BY <1>1 DEF UnreadIsSuffix
<1> QED
  BY <1>7, <1>8, <1>10, <1>11

LEMMA OrderNext == PipelineInv /\ OrderInv /\ [PipelineNext]_pipelineVars => OrderInv'
<1> SUFFICES ASSUME PipelineInv, OrderInv, [PipelineNext]_pipelineVars
             PROVE  OrderInv'
  OBVIOUS
<1>1. ASSUME UNCHANGED <<unread, list, committed>>,
             \/ cons' = cons \/ cons'.pc = "consume"
             \/ cons'.pc # "find" /\ cons.pc # "consume" /\ cons'.msg = cons.msg /\ cons'.part = cons.part
      PROVE  OrderInv'
  BY <1>1 DEF OrderInv, UnreadIsSuffix, ListsInOrder, HandInOrder, CommittedInOrder
<1>2. CASE Refuse \/ Accept \/ Pushed
  <2>1. UNCHANGED <<unread, list, committed>>
    BY <1>2 DEF Refuse, Accept, Pushed, runVars
  <2>2. cons.pc \in {"handle", "handleNew", "push", "pushNew"}
    BY <1>2 DEF Refuse, Accept, Pushed, PutItem, PipelineInv, ConsumerPlace
  <2>3. \/ cons' = Consuming
        \/ cons' = [cons EXCEPT !.pc = "insert"]
        \/ cons' = [cons EXCEPT !.pc = "push"]
        \/ cons' = [cons EXCEPT !.pc = "pushNew"]
    BY <1>2 DEF Refuse, Accept, Pushed, AfterHandle
  <2>4. \/ cons'.pc = "consume"
        \/ cons'.pc # "find" /\ cons'.msg = cons.msg /\ cons'.part = cons.part
    BY <2>3 DEF Consuming, PipelineInv, PipelineTypeOK
  <2> QED
    BY <1>1, <2>1, <2>2, <2>4
<1>3. CASE InsertManager
  BY <1>1, <1>3 DEF InsertManager, Consuming, runVars
<1>4. ASSUME UNCHANGED <<consumerVars, runVars>>
      PROVE  OrderInv'
  BY <1>1, <1>4 DEF consumerVars, runVars
<1>5. CASE PushBlocks \/ (\E t \in Workers \cup IoThreads : WorkerStep(t)) \/ (\E t \in Threads : Wakeup(t))
  BY <1>4, <1>5 DEF PushBlocks, WorkerStep, Wakeup
<1>6. CASE StartTasks \/ JoinTasks \/ FlowControl
  BY <1>1, <1>6 DEF StartTasks, JoinTasks, FlowControl, consumerVars
<1>7. CASE UNCHANGED pipelineVars
  BY <1>4, <1>7 DEF pipelineVars
<1> QED
  BY <1>2, <1>3, <1>5, <1>6, <1>7, OrderDeliver, OrderEmplaceBack, OrderDoSomething
  DEF PipelineNext, LockedStep, ConsumerStep, RunStep

(* A commit never leaves an earlier message of its partition behind.       *)
THEOREM CommitsHaveNoGaps == PipelineSpec => []CommittedInOrder
<1>1. PipelineInit => OrderInv
  <2> SUFFICES ASSUME PipelineInit PROVE OrderInv
    OBVIOUS
  <2>1. Len(Log) \in Nat
    BY LenProperties, LogAssumption
  <2> QED
    BY <2>1 DEF PipelineInit, OrderInv, UnreadIsSuffix, ListsInOrder, HandInOrder,
                CommittedInOrder, Consuming
<1>2. PipelineInv /\ OrderInv /\ [PipelineNext]_pipelineVars => OrderInv'
  BY OrderNext
<1>3. OrderInv => CommittedInOrder
  BY DEF OrderInv
<1> QED
  BY <1>1, <1>2, <1>3, PipelineInvariance, PTL DEF PipelineSpec

=============================================================================
