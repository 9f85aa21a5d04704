---------------------------- MODULE ConsumeProcess ----------------------------
(***************************************************************************)
(* CConsumeProcess with KafkaConsumerImp and the CPartitionManagers: how   *)
(* messages come from Kafka, wait in the list of their partition number,   *)
(* are finished by sessions in any order, and have their offsets           *)
(* committed.                                                              *)
(*                                                                         *)
(* Threads:                                                                *)
(*   - the consumer thread (KafkaConsumerImp::threadFun, which calls       *)
(*     CConsumeProcess::process), also the thread on which librdkafka      *)
(*     runs the rebalance callback;                                        *)
(*   - the Run thread and, on each of its passes, one std::async task per  *)
(*     registered manager (do_something);                                  *)
(*   - the sessions, of which only the end is seen here: Session::Final    *)
(*     sets the entry to DONE.                                             *)
(*                                                                         *)
(* Locks: the map's shared_mutex is held shared while runPc = "tasks" and    *)
(* exclusively while cons.pc = "handle" (the existing manager is called    *)
(* under it, PushMsg included); a manager's m_mutex is held for an         *)
(* emplace_back, for a scan and for remove_from_head, but not in between.  *)
(*                                                                         *)
(* The broker is external: a log of LogLen messages per Kafka partition    *)
(* and the committed offset of each.  Offsets count from 0 and a committed *)
(* offset is that of the next message to read.                             *)
(***************************************************************************)
EXTENDS PartitionManager, FiniteSetsExt

CONSTANTS
  MaxCache,        \* max_cache_size of the configuration, any integer
  Unreadable,      \* messages that are empty, in error or not JSON
  CommitMayFail,   \* may commitSync fail?
  MaxRebalances,   \* bound: times the assignment is revoked
  MaxCrashes       \* bound: times the process dies and is started again

ASSUME MaxCacheAssumption == MaxCache \in Int
ASSUME UnreadableAssumption == Unreadable \subseteq Messages
ASSUME CommitMayFailAssumption == CommitMayFail \in BOOLEAN
ASSUME BoundsAssumption == MaxRebalances \in Nat /\ MaxCrashes \in Nat

VARIABLES
  committed,   \* broker: offset committed for each Kafka partition
  handled,     \* history: messages finished, refused or dropped
  assigned,    \* librdkafka: Kafka partitions this consumer owns
  position,    \* librdkafka: next offset to deliver
  paused,      \* librdkafka: partitions that deliver nothing
  curState,    \* KafkaConsumerImp::m_cur_state
  managers,    \* keys of m_partition_managers
  list,        \* m_list_data of the manager made for each number
  cons,        \* consumer thread: its place and the message in its hand
  runPc,         \* place of the Run thread
  task,        \* do_something of each number: place and local variables
  unresolved,  \* all_status: cache_size - done_num that each task reports
  snapshot,    \* partitions that pause() or resume() got from assignment()
  rebalances,  \* counter for MaxRebalances
  crashes      \* counter for MaxCrashes

kafkaVars == <<assigned, position, paused>>
runVars == <<runPc, task, unresolved, snapshot, curState>>
boundVars == <<rebalances, crashes>>
vars == <<committed, handled, kafkaVars, managers, list, cons, runVars, boundVars>>

-----------------------------------------------------------------------------

NoMsg == [tp |-> <<>>, off |-> -1]

PartitionOf(m) == m.tp[2]

Consuming == [pc |-> "consume", msg |-> NoMsg]

NoTask == [pc |-> "idle", pos |-> 0, force |-> FALSE, kmsg |-> NoMsg]

(* A process that has just started: it owns no partition, has no manager   *)
(* and m_cur_state is CONSUEMR_STATE_RUN.                                  *)
Started ==
  /\ assigned = {}
  /\ position = [tp \in TopicPartitions |-> 0]
  /\ paused = {}
  /\ curState = "RUN"
  /\ managers = {}
  /\ list = [p \in Partitions |-> <<>>]
  /\ cons = Consuming
  /\ runPc = "idle"
  /\ task = [p \in Partitions |-> NoTask]
  /\ unresolved = [p \in Partitions |-> 0]
  /\ snapshot = {}

Init ==
  /\ committed = [tp \in TopicPartitions |-> 0]
  /\ handled = {}
  /\ rebalances = 0
  /\ crashes = 0
  /\ Started

-----------------------------------------------------------------------------
(* The consumer thread.                                                    *)

(* consume() returns the next message of a partition that is owned and not *)
(* paused.  What cannot be read is dropped on the spot: it never enters a  *)
(* list.                                                                   *)
Consume(tp) ==
  LET m == [tp |-> tp, off |-> position[tp]]
  IN  /\ cons.pc = "consume"
      /\ tp \in assigned \ paused
      /\ position[tp] < LogLen
      /\ position' = [position EXCEPT ![tp] = @ + 1]
      /\ IF m \in Unreadable
         THEN handled' = handled \cup {m} /\ UNCHANGED cons
         ELSE cons' = [pc |-> "find", msg |-> m] /\ UNCHANGED handled
      /\ UNCHANGED <<committed, assigned, paused, managers, list, runVars, boundVars>>

(* process() under the exclusive lock finds the manager and enters         *)
(* emplace_back, or leaves the lock to make a manager.                     *)
FindManager ==
  LET p == PartitionOf(cons.msg)
  IN  /\ cons.pc = "find"
      /\ runPc # "tasks"
      /\ \/ /\ p \in managers
            /\ list' = [list EXCEPT ![p] = EmplaceBack(@, cons.msg)]
            /\ cons' = [cons EXCEPT !.pc = "handle"]
         \/ /\ p \notin managers
            /\ cons' = [cons EXCEPT !.pc = "create"]
            /\ UNCHANGED list
      /\ UNCHANGED <<committed, handled, kafkaVars, managers, runVars, boundVars>>

(* The new manager is private to this thread until it is in the map.       *)
CreateManager ==
  LET p == PartitionOf(cons.msg)
  IN  /\ cons.pc = "create"
      /\ list' = [list EXCEPT ![p] = EmplaceBack(<<>>, cons.msg)]
      /\ cons' = [cons EXCEPT !.pc = "handleNew"]
      /\ UNCHANGED <<committed, handled, kafkaVars, managers, runVars, boundVars>>

(* process_todo and CXBusinessHandler::handle: the payload is refused and  *)
(* the entry is DONE at once, or a session for it is in the worker queue   *)
(* (PushMsg waits while the queue is full; Worker models that wait).       *)
ProcessTodo ==
  LET p == PartitionOf(cons.msg)
      tail == Len(list[p])
  IN  /\ cons.pc \in {"handle", "handleNew"}
      /\ \/ /\ list' = [list EXCEPT ![p] = SetState(@, tail, "DOING")]
            /\ UNCHANGED handled
         \/ /\ list' = [list EXCEPT ![p] = SetState(@, tail, "DONE")]
            /\ handled' = handled \cup {cons.msg}
      /\ cons' = IF cons.pc = "handle" THEN Consuming ELSE [cons EXCEPT !.pc = "insert"]
      /\ UNCHANGED <<committed, kafkaVars, managers, runVars, boundVars>>

InsertManager ==
  /\ cons.pc = "insert"
  /\ runPc # "tasks"
  /\ managers' = managers \cup {PartitionOf(cons.msg)}
  /\ cons' = Consuming
  /\ UNCHANGED <<committed, handled, kafkaVars, list, runVars, boundVars>>

(* Mistake: every assignment starts at the first message of the log.       *)
AssignFromStart(S) ==
  /\ cons.pc = "consume"
  /\ assigned = {}
  /\ S # {}
  /\ assigned' = S
  /\ position' = [tp \in TopicPartitions |-> IF tp \in S THEN 0 ELSE position[tp]]
  /\ UNCHANGED <<committed, handled, paused, managers, list, cons, runVars, boundVars>>

(* rebalance_cb, called from within consume().  librdkafka starts a newly  *)
(* assigned partition at its committed offset and not paused; the callback *)
(* touches neither the managers nor m_cur_state.                           *)
Assign(S) ==
  /\ cons.pc = "consume"
  /\ assigned = {}
  /\ S # {}
  /\ assigned' = S
  /\ position' = [tp \in TopicPartitions |-> IF tp \in S THEN committed[tp] ELSE position[tp]]
  /\ UNCHANGED <<committed, handled, paused, managers, list, cons, runVars, boundVars>>

Unassign ==
  /\ cons.pc = "consume"
  /\ assigned # {}
  /\ rebalances < MaxRebalances
  /\ rebalances' = rebalances + 1
  /\ assigned' = {}
  /\ paused' = {}
  /\ UNCHANGED <<committed, handled, position, managers, list, cons, runVars, crashes>>

-----------------------------------------------------------------------------
(* The sessions.  Session::Final stores NODE_STATE_DONE without a lock.    *)

Final(p, i) ==
  /\ i \in 1 .. Len(list[p])
  /\ list[p][i].state = "DOING"
  /\ list' = [list EXCEPT ![p] = SetState(@, i, "DONE")]
  /\ handled' = handled \cup {list[p][i].msg}
  /\ UNCHANGED <<committed, kafkaVars, managers, cons, runVars, boundVars>>

-----------------------------------------------------------------------------
(* The Run thread and its tasks.                                           *)

(* The shared lock is taken and a task started for every manager.          *)
StartTasks ==
  /\ runPc = "idle"
  /\ cons.pc # "handle"
  /\ runPc' = "tasks"
  /\ task' = [p \in Partitions |->
                IF p \in managers THEN [NoTask EXCEPT !.pc = "scan"] ELSE NoTask]
  /\ unresolved' = [p \in Partitions |-> 0]
  /\ UNCHANGED <<committed, handled, kafkaVars, managers, list, cons, snapshot,
                 curState, boundVars>>

(* Mistake: kmsg is the entry that is not DONE, not the one in front of it. *)
FindWithoutStepBack(p) ==
  LET pos == FirstNotDonePos(list[p])
      at == IF pos < Len(list[p]) THEN pos + 1 ELSE pos
  IN  /\ task[p].pc = "scan"
      /\ task' = [task EXCEPT ![p] =
                    [pc    |-> "count",
                     pos   |-> pos,
                     force |-> ForceCommit(list[p]),
                     kmsg  |-> IF pos = 0 THEN NoMsg ELSE list[p][at].msg]]
      /\ UNCHANGED <<committed, handled, kafkaVars, managers, list, cons, runPc,
                     unresolved, snapshot, curState, boundVars>>

(* The walk over the list, under m_mutex, takes effect at two instants.    *)
(* States only change from DOING to DONE behind its back, so the position  *)
(* it finds is the one at the instant it meets the first entry that is not *)
(* DONE ...                                                                *)
FindFirstNotDone(p) ==
  LET pos == FirstNotDonePos(list[p])
  IN  /\ task[p].pc = "scan"
      /\ task' = [task EXCEPT ![p] =
                    [pc    |-> "count",
                     pos   |-> pos,
                     force |-> ForceCommit(list[p]),
                     kmsg  |-> IF pos = 0 THEN NoMsg ELSE list[p][pos].msg]]
      /\ UNCHANGED <<committed, handled, kafkaVars, managers, list, cons, runPc,
                     unresolved, snapshot, curState, boundVars>>

(* ... and the numbers it reports are those of an instant between that one *)
(* and the end of the walk.                                                *)
CountStates(p) ==
  /\ task[p].pc = "count"
  /\ unresolved' = [unresolved EXCEPT ![p] = Unresolved(list[p])]
  /\ task' = [task EXCEPT ![p].pc =
                IF CommitDue(task[p].pos, task[p].force) THEN "commit" ELSE "end"]
  /\ UNCHANGED <<committed, handled, kafkaVars, managers, list, cons, runPc,
                 snapshot, curState, boundVars>>

(* commitSync(kmsg), outside every manager's lock, on the raw pointer the  *)
(* walk left.  Its result is not looked at.                                *)
Commit(p) ==
  LET m == task[p].kmsg
  IN  /\ task[p].pc = "commit"
      /\ \/ /\ m # NoMsg
            /\ committed' = [committed EXCEPT ![m.tp] = m.off + 1]
         \/ /\ m = NoMsg \/ CommitMayFail
            /\ UNCHANGED committed
      /\ task' = [task EXCEPT ![p].pc = "remove"]
      /\ UNCHANGED <<handled, kafkaVars, managers, list, cons, runPc, unresolved,
                     snapshot, curState, boundVars>>

RemoveCommitted(p) ==
  /\ task[p].pc = "remove"
  /\ list' = [list EXCEPT ![p] = RemoveFromHead(@, task[p].pos)]
  /\ task' = [task EXCEPT ![p].pc = "end"]
  /\ UNCHANGED <<committed, handled, kafkaVars, managers, cons, runPc, unresolved,
                 snapshot, curState, boundVars>>

(* Every future is joined before the shared lock goes; the 30 s of         *)
(* wait_for only decide whether a line is logged.                          *)
JoinTasks ==
  /\ runPc = "tasks"
  /\ \A p \in Partitions : task[p].pc \in {"idle", "end"}
  /\ runPc' = "flow"
  /\ task' = [p \in Partitions |-> NoTask]
  /\ UNCHANGED <<committed, handled, kafkaVars, managers, list, cons, unresolved,
                 snapshot, curState, boundVars>>

TotalCacheSize == MapThenSumSet(LAMBDA p : unresolved[p], Partitions)

(* Flow control: pause() and resume() return at once when m_cur_state says *)
(* it is already so; otherwise they read the assignment ...                *)
FlowControl ==
  LET want == IF TotalCacheSize >= MaxCache THEN "PAUSE" ELSE "RUN"
  IN  /\ runPc = "flow"
      /\ \/ /\ want = curState
            /\ runPc' = "idle"
            /\ UNCHANGED snapshot
         \/ /\ want # curState
            /\ runPc' = IF want = "PAUSE" THEN "pause" ELSE "resume"
            /\ snapshot' = assigned
      /\ UNCHANGED <<committed, handled, kafkaVars, managers, list, cons, task,
                     unresolved, curState, boundVars>>

(* Mistake: resume() leaves m_cur_state as it is.                          *)
ResumeWithoutState ==
  /\ \/ /\ runPc = "pause"
        /\ paused' = paused \cup (snapshot \cap assigned)
        /\ curState' = "PAUSE"
     \/ /\ runPc = "resume"
        /\ paused' = paused \ snapshot
        /\ UNCHANGED curState
  /\ runPc' = "idle"
  /\ snapshot' = {}
  /\ UNCHANGED <<committed, handled, assigned, position, managers, list, cons, task,
                 unresolved, boundVars>>

(* ... and then act on it, which a rebalance may have changed meanwhile.   *)
ApplyFlowControl ==
  /\ \/ /\ runPc = "pause"
        /\ paused' = paused \cup (snapshot \cap assigned)
        /\ curState' = "PAUSE"
     \/ /\ runPc = "resume"
        /\ paused' = paused \ snapshot
        /\ curState' = "RUN"
  /\ runPc' = "idle"
  /\ snapshot' = {}
  /\ UNCHANGED <<committed, handled, assigned, position, managers, list, cons, task,
                 unresolved, boundVars>>

-----------------------------------------------------------------------------
(* The rest of the world.                                                  *)

(* Another instance of the group owns the partition, handles its next      *)
(* message and commits it.                                                 *)
PeerCommit(tp) ==
  /\ tp \notin assigned
  /\ committed[tp] < LogLen
  /\ committed' = [committed EXCEPT ![tp] = @ + 1]
  /\ handled' = handled \cup {[tp |-> tp, off |-> committed[tp]]}
  /\ UNCHANGED <<kafkaVars, managers, list, cons, runVars, boundVars>>

(* The process dies, at any point of any thread, and is started again.     *)
(* Nothing of it is on disk: what is left is the broker's.                 *)
Crash ==
  /\ crashes < MaxCrashes
  /\ crashes' = crashes + 1
  /\ assigned' = {}
  /\ position' = [tp \in TopicPartitions |-> 0]
  /\ paused' = {}
  /\ curState' = "RUN"
  /\ managers' = {}
  /\ list' = [p \in Partitions |-> <<>>]
  /\ cons' = Consuming
  /\ runPc' = "idle"
  /\ task' = [p \in Partitions |-> NoTask]
  /\ unresolved' = [p \in Partitions |-> 0]
  /\ snapshot' = {}
  /\ UNCHANGED <<committed, handled, rebalances>>

-----------------------------------------------------------------------------

TaskStep(p) ==
  \/ FindFirstNotDone(p)
  \/ CountStates(p)
  \/ Commit(p)
  \/ RemoveCommitted(p)

Next ==
  \/ \E tp \in TopicPartitions : Consume(tp)
  \/ FindManager
  \/ CreateManager
  \/ ProcessTodo
  \/ InsertManager
  \/ \E S \in SUBSET TopicPartitions : Assign(S)
  \/ Unassign
  \/ \E p \in Partitions : \E i \in 1 .. Len(list[p]) : Final(p, i)
  \/ StartTasks
  \/ \E p \in Partitions : TaskStep(p)
  \/ JoinTasks
  \/ FlowControl
  \/ ApplyFlowControl
  \/ \E tp \in TopicPartitions : PeerCommit(tp)
  \/ Crash

Spec == Init /\ [][Next]_vars

(* Fairness.  Every thread keeps running (they are detached loops), and a  *)
(* session ends.  The exclusive lock is free only between two passes of    *)
(* Run; boost's shared_mutex admits no new reader while a writer waits, so *)
(* the consumer thread gets it: strong fairness for the two steps that     *)
(* take it.  A consume() that keeps being possible returns a message of    *)
(* every partition in turn.  Rebalances, peers and crashes are not owed.   *)
Fairness ==
  /\ \A tp \in TopicPartitions : SF_vars(Consume(tp))
  /\ SF_vars(FindManager)
  /\ WF_vars(CreateManager)
  /\ WF_vars(ProcessTodo)
  /\ SF_vars(InsertManager)
  /\ \A p \in Partitions :
       /\ WF_vars(\E i \in 1 .. Len(list[p]) : Final(p, i))
       /\ WF_vars(TaskStep(p))
  /\ WF_vars(StartTasks)
  /\ WF_vars(JoinTasks \/ FlowControl \/ ApplyFlowControl)

FairSpec == Spec /\ Fairness

-----------------------------------------------------------------------------
(* Properties.                                                             *)

TypeOK ==
  /\ committed \in [TopicPartitions -> 0 .. LogLen]
  /\ handled \subseteq Messages
  /\ assigned \subseteq TopicPartitions
  /\ position \in [TopicPartitions -> 0 .. LogLen]
  /\ paused \subseteq TopicPartitions
  /\ curState \in {"RUN", "PAUSE"}
  /\ managers \subseteq Partitions
  /\ list \in [Partitions -> Seq(Entry)]
  /\ cons \in [pc : {"consume", "find", "create", "handle", "handleNew", "insert"},
               msg : Messages \cup {NoMsg}]
  /\ cons.pc # "consume" => cons.msg \in Messages
  /\ runPc \in {"idle", "tasks", "flow", "pause", "resume"}
  /\ task \in [Partitions -> [pc : {"idle", "scan", "count", "commit", "remove", "end"},
                             pos : Nat, force : BOOLEAN,
                             kmsg : Messages \cup {NoMsg}]]
  /\ unresolved \in [Partitions -> Nat]
  /\ snapshot \subseteq TopicPartitions
  /\ rebalances \in 0 .. MaxRebalances
  /\ crashes \in 0 .. MaxCrashes

Msg(tp, o) == [tp |-> tp, off |-> o]

InList(m) ==
  \E i \in 1 .. Len(list[PartitionOf(m)]) : list[PartitionOf(m)][i].msg = m

InHand(m) == cons.pc \in {"find", "create"} /\ cons.msg = m

(* A committed offset never passes a message that was not finished: after  *)
(* a crash or a rebalance, whoever reads on from it misses nothing.  It    *)
(* relates the offsets do_something commits to what sessions, finishing in *)
(* any order, and the unlocked window between its scan and its commit left *)
(* behind.                                                                 *)
NoLoss ==
  \A tp \in TopicPartitions : \A o \in Offsets :
    o < committed[tp] => Msg(tp, o) \in handled

(* Between the scan and remove_from_head, m_mutex is free: what the task   *)
(* is about to commit and remove is still the finished head of the list,   *)
(* and the raw pointer kmsg still points into an entry the list owns.      *)
KmsgAlive ==
  \A p \in Partitions :
    task[p].pc \in {"count", "commit", "remove"} =>
      /\ task[p].pos <= Len(list[p])
      /\ AllDone(list[p], task[p].pos)
      /\ task[p].kmsg = IF task[p].pos = 0 THEN NoMsg ELSE list[p][task[p].pos].msg

(* Of every message that was delivered, the process still knows: it is     *)
(* committed, in a list, in the hand of the consumer thread, or was        *)
(* dropped as unreadable.  remove_from_head never forgets a message whose  *)
(* offset is not covered by the commit before it.                          *)
RemovedIsCommitted ==
  \A tp \in assigned : \A o \in Offsets :
    o < position[tp] =>
      \/ o < committed[tp]
      \/ InList(Msg(tp, o))
      \/ InHand(Msg(tp, o))
      \/ Msg(tp, o) \in Unreadable

(* A message leaves the lists only when it was finished, or with the       *)
(* process: not when a rebalance takes its partition away, not in the      *)
(* window of do_something, and not when several topics share a list.       *)
LeavesWhenHandled ==
  [][crashes' = crashes =>
       \A m \in Messages : InList(m) => InList(m)' \/ m \in handled]_list

(* Without rebalances a commit never takes an offset back, even across     *)
(* restarts: what one incarnation committed is not read again.             *)
CommitMonotone ==
  [][\A tp \in TopicPartitions : committed'[tp] >= committed[tp]]_committed

(* While the consumer believes it is paused, nothing is delivered          *)
(* (ConsumeProcess.cpp: the size of the cache controls consumption).       *)
PausedMeansSilent ==
  [][curState = "PAUSE" =>
       \A tp \in assigned \cap assigned' : position'[tp] = position[tp]]_position

Readable(tp) == {o \in Offsets : Msg(tp, o) \notin Unreadable}

Caught(tp) == \A o \in Readable(tp) : o < committed[tp]

(* The forced commit of a list that is all DONE: a partition that stays    *)
(* with this consumer is eventually committed up to its last readable      *)
(* message, even when fewer than commit_num messages are left.             *)
EventuallyCommitted ==
  \A tp \in TopicPartitions : <>[](tp \in assigned) => <>[]Caught(tp)

(* Flow control lets go: consumption that was paused is resumed once the   *)
(* sessions have finished, so the pause never becomes a standstill.        *)
PauseEnds == curState = "PAUSE" ~> curState = "RUN"

(* What the component promises: AtLeastOnce, with the same offsets and the *)
(* same handled messages.                                                  *)
Promise == INSTANCE AtLeastOnce WITH Message <- Messages

AtLeastOnceSpec == Promise!Spec

=============================================================================
