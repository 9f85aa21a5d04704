------------------------------- MODULE Pipeline -------------------------------
(***************************************************************************)
(* The consumer and the worker queue together: Kafka's messages go into    *)
(* the lists of the partition managers and, as sessions, into the queue;   *)
(* sessions finish; the Run thread commits the finished heads and pauses   *)
(* or resumes consumption by the number of messages that are not finished. *)
(* PushMsg blocks the consumer thread while it holds the managers' lock    *)
(* exclusively: until a worker takes a session, nothing is committed and   *)
(* consumption cannot be paused.                                           *)
(*                                                                         *)
(* Worker is extended: its threads take their own steps here, and the      *)
(* consumer thread, the lists and the Run thread are added.  One pass of   *)
(* do_something over a manager is one step, and commits do not fail;       *)
(* ConsumeProcess has the steps inside it, failures, rebalances, crashes,  *)
(* and messages that are no JSON and are dropped before they are listed.   *)
(*                                                                         *)
(* There is one session per message here.  Those that a worker starts for  *)
(* parked messages take more room in the queue, and no list knows them:    *)
(* they are in Worker (Dispatch) and in PictureWait.                       *)
(*                                                                         *)
(* How fast Kafka delivers is not bounded by the code: Burst is an         *)
(* assumption about the environment, and the properties below hold for it  *)
(* only.  Without it the consumer may fill the queue before the Run thread *)
(* looks once.                                                             *)
(***************************************************************************)
EXTENDS Worker

CONSTANTS
  Log,         \* the messages in the order in which Kafka delivers them
  Partitions,  \* partition numbers
  PartitionOf, \* the partition of each message
  NoPartition,
  CommitNum,   \* commit_num of the configuration
  MaxCache,    \* max_cache_size of the configuration
  Burst,       \* bound: messages delivered during one pass of the Run thread
  MaxPushers   \* bound: sessions that are pushed on

ASSUME LogAssumption ==
  /\ Log \in Seq(Sessions)
  /\ \A i, j \in 1 .. Len(Log) : Log[i] = Log[j] => i = j
ASSUME PartitionsAssumption == IsFiniteSet(Partitions) /\ NoPartition \notin Partitions
ASSUME PartitionOfAssumption == PartitionOf \in [{Log[i] : i \in 1 .. Len(Log)} -> Partitions]
ASSUME CacheAssumption == CommitNum \in Int /\ MaxCache \in Int
ASSUME BoundsAssumption == Burst \in Nat \ {0} /\ MaxPushers \in Nat

Messages == {Log[i] : i \in 1 .. Len(Log)}

VARIABLES
  unread,     \* the rest of the log
  cons,       \* consumer thread: its place, message and partition number
  managers,   \* keys of m_partition_managers
  list,       \* m_list_data for each partition number
  refused,    \* messages whose payload was refused
  runPc,      \* place of the Run thread
  tasks,      \* managers this pass has still to scan
  counted,    \* total_cache_size of this pass
  paused,     \* m_cur_state is PAUSE, and librdkafka delivers nothing
  delivered,  \* counter for Burst
  committed   \* messages whose offsets are committed

consumerVars == <<unread, cons, managers, list, refused, delivered>>
runVars == <<runPc, tasks, counted, paused, committed>>
pipelineVars == <<vars, consumerVars, runVars>>

(* The list methods; topics and offsets play no role here.                 *)
Manager == INSTANCE PartitionManager WITH Topics <- {}, LogLen <- 0

Consuming == [pc |-> "consume", msg |-> NoSession, part |-> NoPartition]

PipelineInit ==
  /\ Init
  /\ unread = Log
  /\ cons = Consuming
  /\ managers = {}
  /\ list = [p \in Partitions |-> <<>>]
  /\ refused = {}
  /\ runPc = "idle"
  /\ tasks = {}
  /\ counted = 0
  /\ paused = FALSE
  /\ delivered = 0
  /\ committed = {}

(* The list with its states: Session::Final and a refusal make an entry    *)
(* DONE.                                                                   *)
Entries(p) ==
  [i \in 1 .. Len(list[p]) |->
     [msg   |-> list[p][i],
      state |-> IF list[p][i] \in finished \cup refused THEN "DONE" ELSE "DOING"]]

-----------------------------------------------------------------------------
(* The consumer thread.                                                    *)

Deliver ==
  /\ cons.pc = "consume"
  /\ ~paused
  /\ delivered < Burst
  /\ unread # <<>>
  /\ cons' = [pc |-> "find", msg |-> Head(unread), part |-> PartitionOf[Head(unread)]]
  /\ unread' = Tail(unread)
  /\ delivered' = delivered + 1
  /\ UNCHANGED <<vars, managers, list, refused, runVars>>

(* process() takes the exclusive lock and keeps it for a manager that is   *)
(* there; a new manager is filled before it is put into the map.           *)
EmplaceBack ==
  /\ cons.pc = "find"
  /\ runPc # "tasks"
  /\ list' = [list EXCEPT ![cons.part] = Append(@, cons.msg)]
  /\ cons' = [cons EXCEPT !.pc = IF cons.part \in managers THEN "handle" ELSE "handleNew"]
  /\ UNCHANGED <<vars, unread, managers, refused, delivered, runVars>>

AfterHandle ==
  IF cons.pc \in {"handle", "push"} THEN Consuming ELSE [cons EXCEPT !.pc = "insert"]

(* CXBusinessHandler::handle refuses the payload ...                       *)
Refuse ==
  /\ cons.pc \in {"handle", "handleNew"}
  /\ refused' = refused \cup {cons.msg}
  /\ cons' = AfterHandle
  /\ UNCHANGED <<vars, unread, managers, list, delivered, runVars>>

(* ... or makes a session ...                                              *)
Accept ==
  /\ cons.pc \in {"handle", "handleNew"}
  /\ NewSession(cons.msg)
  /\ cons' = [cons EXCEPT !.pc = IF cons.pc = "handle" THEN "push" ELSE "pushNew"]
  /\ UNCHANGED <<unread, managers, list, refused, delivered, runVars>>

(* ... and pushes it, waiting for room as long as it takes.                *)
Pushed ==
  /\ PutItem(Consumer)
  /\ cons' = AfterHandle
  /\ UNCHANGED <<unread, managers, list, refused, delivered, runVars>>

PushBlocks == PutBlocks(Consumer) /\ UNCHANGED <<consumerVars, runVars>>

InsertManager ==
  /\ cons.pc = "insert"
  /\ runPc # "tasks"
  /\ managers' = managers \cup {cons.part}
  /\ cons' = Consuming
  /\ UNCHANGED <<vars, unread, list, refused, delivered, runVars>>

-----------------------------------------------------------------------------
(* Worker and io threads.                                                  *)

WorkerStep(t) ==
  /\ \/ BufferStep(t)
     \/ PushMsg(t) /\ Cardinality({s \in Sessions : pushes'[s] > 0}) <= MaxPushers
     \/ Final(t)
     \/ SendRequest(t)
     \/ \E s \in Sessions : Callback(t, s)
  /\ UNCHANGED <<consumerVars, runVars>>

Wakeup(t) == SpuriousWakeup(t) /\ UNCHANGED <<consumerVars, runVars>>

-----------------------------------------------------------------------------
(* The Run thread.                                                         *)

ExclusiveLock == cons.pc \in {"handle", "push"}

StartTasks ==
  /\ runPc = "idle"
  /\ ~ExclusiveLock
  /\ runPc' = "tasks"
  /\ tasks' = managers
  /\ counted' = 0
  /\ delivered' = 0
  /\ UNCHANGED <<vars, unread, cons, managers, list, refused, paused, committed>>

(* Mistake: a list is committed only when commit_num of it are finished.   *)
DoSomethingWithoutForce(p) ==
  LET pos == Manager!FirstNotDonePos(Entries(p))
      head == IF Manager!CommitDue(pos, FALSE) THEN pos ELSE 0
  IN  /\ runPc = "tasks"
      /\ p \in tasks
      /\ tasks' = tasks \ {p}
      /\ counted' = counted + Manager!Unresolved(Entries(p))
      /\ committed' = committed \cup {list[p][i] : i \in 1 .. head}
      /\ list' = [list EXCEPT ![p] = Manager!RemoveFromHead(@, head)]
      /\ UNCHANGED <<vars, unread, cons, managers, refused, delivered, runPc, paused>>

(* do_something: count, and commit and remove the finished head.           *)
DoSomething(p) ==
  LET pos == Manager!FirstNotDonePos(Entries(p))
      force == Manager!ForceCommit(Entries(p))
      head == IF Manager!CommitDue(pos, force) THEN pos ELSE 0
  IN  /\ runPc = "tasks"
      /\ p \in tasks
      /\ tasks' = tasks \ {p}
      /\ counted' = counted + Manager!Unresolved(Entries(p))
      /\ committed' = committed \cup {list[p][i] : i \in 1 .. head}
      /\ list' = [list EXCEPT ![p] = Manager!RemoveFromHead(@, head)]
      /\ UNCHANGED <<vars, unread, cons, managers, refused, delivered, runPc, paused>>

JoinTasks ==
  /\ runPc = "tasks"
  /\ tasks = {}
  /\ runPc' = "flow"
  /\ UNCHANGED <<vars, consumerVars, tasks, counted, paused, committed>>

(* Mistake: ">" instead of ">=".                                           *)
FullAboveMax == counted > MaxCache

CacheFull == counted >= MaxCache

FlowControl ==
  /\ runPc = "flow"
  /\ runPc' = "idle"
  /\ paused' = CacheFull
  /\ UNCHANGED <<vars, consumerVars, tasks, counted, committed>>

-----------------------------------------------------------------------------

LockedStep == EmplaceBack \/ InsertManager

ConsumerStep == Refuse \/ Accept \/ Pushed \/ PushBlocks

RunStep ==
  \/ StartTasks
  \/ \E p \in Partitions : DoSomething(p)
  \/ JoinTasks
  \/ FlowControl

PipelineNext ==
  \/ Deliver \/ LockedStep \/ ConsumerStep \/ RunStep
  \/ \E t \in Workers \cup IoThreads : WorkerStep(t)
  \/ \E t \in Threads : Wakeup(t)

PipelineSpec == PipelineInit /\ [][PipelineNext]_pipelineVars

(* Fairness as in ConsumeProcess and in Worker: threads run, the exclusive *)
(* lock is not kept from a writer that waits, modules return.  That a      *)
(* request ends is assumed (HttpClient!EndsUnlessMissed: unless a cancel   *)
(* misses its operation).  Messages are not owed.                          *)
PipelineFairness ==
  /\ SF_pipelineVars(LockedStep)
  /\ WF_pipelineVars(ConsumerStep)
  /\ WF_pipelineVars(RunStep)
  /\ \A t \in Workers \cup IoThreads : WF_pipelineVars(WorkerStep(t))

FairPipeline == PipelineSpec /\ PipelineFairness

-----------------------------------------------------------------------------
(* Properties.                                                             *)

InLists(S) == UNION {{list[p][i] : i \in 1 .. Len(list[p])} : p \in S}

Unfinished == InLists(Partitions) \ (finished \cup refused)

(* A max_cache_size of zero or less pauses consumption for good, but only  *)
(* after the first pass.                                                   *)
CacheLimit == IF MaxCache > 0 THEN MaxCache ELSE 0

(* Flow control bounds the sessions under way, although it counts the      *)
(* lists one after the other, acts later than it counts, does not see a    *)
(* manager that is not in the map yet, and the consumer goes on meanwhile. *)
CacheBounded == Cardinality(Unfinished) <= CacheLimit + 2 * Burst

(* When the queue has more places and workers than that, it never stands   *)
(* still: the consumer thread, which waits in PushMsg under the exclusive  *)
(* lock, and the workers, which wait on each other, get room in the end.   *)
FlowKeepsMoving == ~Stuck

Delivered == Messages \ {unread[i] : i \in 1 .. Len(unread)}

(* Again and again everything that was delivered is committed: neither the *)
(* wait for room under the exclusive lock, nor a pause, nor fewer than     *)
(* commit_num messages at the end of a list keeps a message back for ever. *)
EverythingCommitted == []<>(Delivered \subseteq committed)

-----------------------------------------------------------------------------
(* The inductive invariant behind CacheBounded and FlowKeepsMoving.        *)

PipelineTypeOK ==
  /\ unread \in Seq(Messages)
  /\ cons \in [pc : {"consume", "find", "handle", "handleNew", "push", "pushNew", "insert"},
               msg : Messages \cup {NoSession}, part : Partitions \cup {NoPartition}]
  /\ cons.pc # "consume" => cons.msg \in Messages /\ cons.part \in Partitions
  /\ managers \subseteq Partitions
  /\ list \in [Partitions -> Seq(Messages)]
  /\ refused \subseteq Messages
  /\ runPc \in {"idle", "tasks", "flow"}
  /\ tasks \subseteq managers
  /\ runPc # "tasks" => tasks = {}
  /\ counted \in Nat
  /\ paused \in BOOLEAN
  /\ delivered \in 0 .. Burst
  /\ committed \subseteq Messages

(* Inside PushMsg, and nowhere else, the consumer thread is in Put.        *)
ConsumerPlace ==
  /\ pc[Consumer] \in {"put", "putWait"} <=> cons.pc \in {"push", "pushNew"}
  /\ hand[Consumer] = item[Consumer]

Unread == {unread[i] : i \in 1 .. Len(unread)}

(* A message is new until the consumer thread makes a session of it.       *)
NewMessages ==
  /\ \A i, j \in 1 .. Len(unread) : unread[i] = unread[j] => i = j
  /\ Unread \subseteq fresh \ (InLists(Partitions) \cup refused \cup {cons.msg})
  /\ cons.pc = "find" => cons.msg \in fresh \ (InLists(Partitions) \cup refused)
  /\ cons.pc \in {"handle", "handleNew"} =>
       cons.msg \in (fresh \cap InLists(Partitions)) \ refused

(* Every session that is not final has its message in a list.              *)
LiveListed == Live \subseteq InLists(Partitions) \ refused

(* A manager that is not in the map has the one message it was made for.   *)
Unregistered ==
  \A p \in Partitions \ managers :
    list[p] # <<>> =>
      cons.pc \in {"handleNew", "pushNew", "insert"} /\ cons.part = p /\ list[p] = <<cons.msg>>

(* What was delivered is committed, in a list, or about to be; and only    *)
(* what is done is committed.                                              *)
Accounted ==
  /\ Delivered \subseteq committed \cup InLists(Partitions)
       \cup IF cons.pc = "find" THEN {cons.msg} ELSE {}
  /\ committed \subseteq finished \cup refused

(* Messages on their way, from delivery until they are done.               *)
UnderWay == Unfinished \cup IF cons.pc = "find" THEN {cons.msg} ELSE {}

(* A pass misses what is delivered while it lasts, and the one message     *)
(* that the consumer thread had in its hand when it began.                 *)
Counting ==
  runPc # "idle" => Cardinality(UnderWay \ InLists(tasks)) <= counted + delivered + 1

(* Two bursts: one until the pass that pauses begins, one until it ends.   *)
Limits ==
  /\ Cardinality(UnderWay) <= CacheLimit + 2 * Burst
  /\ ~paused => Cardinality(UnderWay) <=
                  CacheLimit + delivered + IF runPc = "idle" THEN 0 ELSE Burst

PipelineInv ==
  /\ PipelineTypeOK /\ ConsumerPlace /\ NewMessages /\ LiveListed /\ Unregistered
  /\ Accounted /\ Counting /\ Limits

-----------------------------------------------------------------------------
(* Commits have no gaps, although only the last offset of a commit reaches *)
(* the broker: this is what makes a set of messages a faithful picture of  *)
(* committed offsets.                                                      *)

Before(x, y) == \E i, j \in 1 .. Len(Log) : i < j /\ Log[i] = x /\ Log[j] = y

CommittedInOrder ==
  \A x, y \in Messages :
    Before(x, y) /\ PartitionOf[x] = PartitionOf[y] /\ y \in committed => x \in committed

(* The inductive invariant behind it, on top of PipelineInv.               *)
UnreadIsSuffix ==
  LET read == Len(Log) - Len(unread)
  IN  read >= 0 /\ \A i \in 1 .. Len(unread) : unread[i] = Log[read + i]

ListsInOrder ==
  \A p \in Partitions :
    /\ \A i \in 1 .. Len(list[p]) : PartitionOf[list[p][i]] = p
    /\ \A i, j \in 1 .. Len(list[p]) : i < j => Before(list[p][i], list[p][j])

HandInOrder ==
  /\ cons.pc # "consume" => PartitionOf[cons.msg] = cons.part
  /\ cons.pc = "find" =>
       \A i \in 1 .. Len(list[cons.part]) : Before(list[cons.part][i], cons.msg)

OrderInv == UnreadIsSuffix /\ ListsInOrder /\ HandInOrder /\ CommittedInOrder

=============================================================================
