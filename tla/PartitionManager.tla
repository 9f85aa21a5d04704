--------------------------- MODULE PartitionManager ---------------------------
(***************************************************************************)
(* CPartitionManager: the list in which the messages of one partition      *)
(* number wait, in the order of their arrival, until they are done and     *)
(* their offset is committed.  This module holds the list's entries and    *)
(* what its methods compute from a list; ConsumeProcess says who calls     *)
(* them, when, and under which lock.                                       *)
(*                                                                         *)
(* m_commit_num is CommitNum passed through the constructor, which turns   *)
(* every value below 1 into 1.                                             *)
(***************************************************************************)
EXTENDS Integers, Sequences, FiniteSets

CONSTANTS
  Topics,       \* topics the consumer subscribes to
  Partitions,   \* partition numbers, the same for every topic
  LogLen,       \* messages in the log of each Kafka partition
  CommitNum     \* commit_num of the configuration, any integer

ASSUME LogAssumption == LogLen \in Nat
ASSUME CommitNumAssumption == CommitNum \in Int

(* A Kafka partition is a topic and a number; a message is its offset in   *)
(* one of them.                                                            *)
TopicPartitions == Topics \X Partitions

Offsets == 0 .. LogLen - 1

Messages == [tp : TopicPartitions, off : Offsets]

(* PM_DATA: a message and the state of its processing.  An entry is TODO   *)
(* from the moment it is in the list until process_todo has handed it to   *)
(* a session, DOING while the session runs, DONE when Session::Final set   *)
(* it, or when the payload was refused.                                    *)
NodeState == {"TODO", "DOING", "DONE"}

Entry == [msg : Messages, state : NodeState]

(* Mistake: the state member has no initialiser.                           *)
DataUninitialized(m) == [msg |-> m, state |-> "?"]

Data(m) == [msg |-> m, state |-> "TODO"]

(* m_commit_num as the constructor stores it.                              *)
MinCommit == IF CommitNum <= 0 THEN 1 ELSE CommitNum

(* emplace_back up to process_todo: the new entry goes to the tail.        *)
EmplaceBack(list, m) == Append(list, Data(m))

SetState(list, i, s) == [list EXCEPT ![i].state = s]

(* remove_from_head: at most n entries, from the head.                     *)
(* Mistake: "i <= num" in the loop.                                        *)
RemoveOneMore(list, n) == SubSeq(list, n + 2, Len(list))

RemoveFromHead(list, n) == SubSeq(list, n + 1, Len(list))

AllDone(list, n) == \A i \in 1 .. n : list[i].state = "DONE"

(* do_something's first_not_done_pos: the number of entries before the     *)
(* first one that is not DONE, or all of them.                             *)
(* Mistake: it counts the DONE entries of the whole list.                  *)
CountDone(list) == Cardinality({i \in 1 .. Len(list) : list[i].state = "DONE"})

FirstNotDonePos(list) ==
  CHOOSE n \in 0 .. Len(list) :
    /\ AllDone(list, n)
    /\ n < Len(list) => list[n + 1].state # "DONE"

(* force_commit: the walk reached the last entry and found it DONE too.    *)
(* Mistake: force_commit is never set.                                     *)
ForceNever(list) == FALSE

ForceCommit(list) == list # <<>> /\ FirstNotDonePos(list) = Len(list)

(* Should this pass commit?  An empty list and a list whose head is not    *)
(* DONE never do, because MinCommit is at least 1.                         *)
CommitDue(pos, force) == force \/ pos >= MinCommit

(* cache_size - done_num: the entries that still occupy a worker.          *)
Unresolved(list) == Cardinality({i \in 1 .. Len(list) : list[i].state # "DONE"})

=============================================================================
