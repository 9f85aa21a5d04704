-------------------------------- MODULE Worker --------------------------------
(***************************************************************************)
(* Worker<Session> and its FIFOBuffer: the bounded queue of sessions, the  *)
(* threads that put sessions into it and the worker threads that take them *)
(* out.                                                                    *)
(*                                                                         *)
(* Three kinds of thread put: the consumer thread (a new session for each  *)
(* message), the worker threads themselves (a module that has finished its *)
(* step pushes the session for the next one; the picture-wait module also  *)
(* starts sessions for parked messages) and the io threads (the callback   *)
(* of an HTTP request pushes the session on, or again to retry).  Workers  *)
(* are the only threads that take, and they block in Put like every other  *)
(* thread: that is what can bring the queue to a standstill.               *)
(*                                                                         *)
(* What a session does between two pushes is left open here: any step may  *)
(* finish it, send a request or push it on.  Only the number of pushes is  *)
(* bounded: the chain is finite and so are the retries.                    *)
(*                                                                         *)
(* mtx_ is held within one call of Put or Get and released only by wait(), *)
(* so a call that does not wait is one step, and a call that waits is the  *)
(* step into the wait set and a new try after each notification.           *)
(***************************************************************************)
EXTENDS Integers, Sequences, FiniteSets

CONSTANTS
  Sessions,    \* every session that is ever created
  Workers,     \* threads_ of the Worker
  IoThreads,   \* io_workers_ of the FlowManager
  Consumer,    \* the consumer thread
  NoSession,   \* no session
  MaxTask,     \* max_task_num of the configuration, any integer
  MaxPushes    \* bound: times a session is pushed on or pushed again

ASSUME SessionsAssumption == IsFiniteSet(Sessions) /\ NoSession \notin Sessions
ASSUME WorkersAssumption == IsFiniteSet(Workers) /\ Workers # {}
ASSUME ThreadsAssumption ==
  /\ IsFiniteSet(IoThreads) /\ IoThreads # {}
  /\ Workers \cap IoThreads = {}
  /\ Consumer \notin Workers \cup IoThreads
ASSUME MaxTaskAssumption == MaxTask \in Int
ASSUME MaxPushesAssumption == MaxPushes \in Nat

Threads == Workers \cup IoThreads \cup {Consumer}

VARIABLES
  queue,      \* data_
  pc,         \* place of each thread
  hand,       \* session a thread is working for
  item,       \* session a thread is about to put
  inflight,   \* sessions whose HTTP request has no answer yet
  fresh,      \* sessions not created yet
  finished,   \* sessions that are final
  pushes      \* counter for MaxPushes

vars == <<queue, pc, hand, item, inflight, fresh, finished, pushes>>

(* Where a thread is when it has nothing to do: a worker calls Get again.  *)
Rest(t) == IF t \in Workers THEN "get" ELSE "idle"

Init ==
  /\ queue = <<>>
  /\ pc = [t \in Threads |-> Rest(t)]
  /\ hand = [t \in Threads |-> NoSession]
  /\ item = [t \in Threads |-> NoSession]
  /\ inflight = {}
  /\ fresh = Sessions
  /\ finished = {}
  /\ pushes = [s \in Sessions |-> 0]

-----------------------------------------------------------------------------
(* FIFOBuffer.                                                             *)

(* max_size_ > data_.size() compares an int with a size_t: a negative      *)
(* max_size_ is a huge number.                                             *)
Room == MaxTask < 0 \/ Len(queue) < MaxTask

(* Mistake: nobody is notified.                                            *)
NotifyNone(at, place, try) == {at}

(* notify_one: some thread of the wait set tries again, if there is one.   *)
NotifyOne(at, place, try) ==
  IF \A t \in Threads : at[t] # place
  THEN {at}
  ELSE {[at EXCEPT ![t] = try] : t \in {u \in Threads : at[u] = place}}

(* Put(item[t]) finds room.  A worker that put a session other than its    *)
(* own goes on with its own.                                               *)
PutItem(t) ==
  LET own == hand[t] = item[t]
      after == IF own THEN Rest(t) ELSE "run"
  IN  /\ pc[t] = "put"
      /\ Room
      /\ queue' = Append(queue, item[t])
      /\ pc' \in NotifyOne([pc EXCEPT ![t] = after], "getWait", "get")
      /\ hand' = IF own THEN [hand EXCEPT ![t] = NoSession] ELSE hand
      /\ item' = [item EXCEPT ![t] = NoSession]
      /\ UNCHANGED <<inflight, fresh, finished, pushes>>

PutBlocks(t) ==
  /\ pc[t] = "put"
  /\ ~Room
  /\ pc' = [pc EXCEPT ![t] = "putWait"]
  /\ UNCHANGED <<queue, hand, item, inflight, fresh, finished, pushes>>

(* Mistake: Get forgets cond_put_.notify_one().                            *)
GetSilently(t) ==
  /\ pc[t] = "get"
  /\ queue # <<>>
  /\ queue' = Tail(queue)
  /\ hand' = [hand EXCEPT ![t] = Head(queue)]
  /\ pc' \in NotifyNone([pc EXCEPT ![t] = "run"], "putWait", "put")
  /\ UNCHANGED <<item, inflight, fresh, finished, pushes>>

GetItem(t) ==
  /\ pc[t] = "get"
  /\ queue # <<>>
  /\ queue' = Tail(queue)
  /\ hand' = [hand EXCEPT ![t] = Head(queue)]
  /\ pc' \in NotifyOne([pc EXCEPT ![t] = "run"], "putWait", "put")
  /\ UNCHANGED <<item, inflight, fresh, finished, pushes>>

GetBlocks(t) ==
  /\ pc[t] = "get"
  /\ queue = <<>>
  /\ pc' = [pc EXCEPT ![t] = "getWait"]
  /\ UNCHANGED <<queue, hand, item, inflight, fresh, finished, pushes>>

(* A condition variable may wake a thread for no reason; the predicate is  *)
(* then looked at again.                                                   *)
SpuriousWakeup(t) ==
  /\ \/ pc[t] = "putWait" /\ pc' = [pc EXCEPT ![t] = "put"]
     \/ pc[t] = "getWait" /\ pc' = [pc EXCEPT ![t] = "get"]
  /\ UNCHANGED <<queue, hand, item, inflight, fresh, finished, pushes>>

-----------------------------------------------------------------------------
(* Who puts.                                                               *)

(* CXBusinessHandler::handle on the consumer thread: a session for a new   *)
(* message.                                                                *)
NewSession(s) ==
  /\ pc[Consumer] = "idle"
  /\ s \in fresh
  /\ fresh' = fresh \ {s}
  /\ hand' = [hand EXCEPT ![Consumer] = s]
  /\ item' = [item EXCEPT ![Consumer] = s]
  /\ pc' = [pc EXCEPT ![Consumer] = "put"]
  /\ UNCHANGED <<queue, inflight, finished, pushes>>

(* CXBusinessHandler::handleFromRedis on a worker thread: a session for a  *)
(* parked message, while the worker still has its own.                     *)
Dispatch(t, s) ==
  /\ t \in Workers
  /\ pc[t] = "run"
  /\ s \in fresh
  /\ fresh' = fresh \ {s}
  /\ item' = [item EXCEPT ![t] = s]
  /\ pc' = [pc EXCEPT ![t] = "put"]
  /\ UNCHANGED <<queue, hand, inflight, finished, pushes>>

(* A module, or a callback, is done and the chain goes on (or the request  *)
(* is tried again).                                                        *)
PushMsg(t) ==
  LET s == hand[t]
  IN  /\ pc[t] = "run"
      /\ pushes[s] < MaxPushes
      /\ pushes' = [pushes EXCEPT ![s] = @ + 1]
      /\ item' = [item EXCEPT ![t] = s]
      /\ pc' = [pc EXCEPT ![t] = "put"]
      /\ UNCHANGED <<queue, hand, inflight, fresh, finished>>

(* Mistake: the session is dropped and nobody calls Final.                 *)
DropWithoutFinal(t) ==
  /\ pc[t] = "run"
  /\ hand' = [hand EXCEPT ![t] = NoSession]
  /\ pc' = [pc EXCEPT ![t] = Rest(t)]
  /\ UNCHANGED <<queue, item, inflight, fresh, finished, pushes>>

(* Session::Final.                                                         *)
Final(t) ==
  /\ pc[t] = "run"
  /\ finished' = finished \cup {hand[t]}
  /\ hand' = [hand EXCEPT ![t] = NoSession]
  /\ pc' = [pc EXCEPT ![t] = Rest(t)]
  /\ UNCHANGED <<queue, item, inflight, fresh, pushes>>

(* Mistake: the worker also pushes the session it has sent a request for.  *)
SendAndPush(t) ==
  /\ t \in Workers
  /\ pc[t] = "run"
  /\ inflight' = inflight \cup {hand[t]}
  /\ item' = [item EXCEPT ![t] = hand[t]]
  /\ pc' = [pc EXCEPT ![t] = "put"]
  /\ UNCHANGED <<queue, hand, fresh, finished, pushes>>

(* HTTPModuleWrapper::SendRequest: the session belongs to the callback now *)
(* and the worker takes the next one.                                      *)
SendRequest(t) ==
  /\ t \in Workers
  /\ pc[t] = "run"
  /\ inflight' = inflight \cup {hand[t]}
  /\ hand' = [hand EXCEPT ![t] = NoSession]
  /\ pc' = [pc EXCEPT ![t] = "get"]
  /\ UNCHANGED <<queue, item, fresh, finished, pushes>>

(* The answer, or the error, calls back on an io thread.                   *)
Callback(t, s) ==
  /\ t \in IoThreads
  /\ pc[t] = "idle"
  /\ s \in inflight
  /\ inflight' = inflight \ {s}
  /\ hand' = [hand EXCEPT ![t] = s]
  /\ pc' = [pc EXCEPT ![t] = "run"]
  /\ UNCHANGED <<queue, item, fresh, finished, pushes>>

-----------------------------------------------------------------------------

BufferStep(t) == PutItem(t) \/ PutBlocks(t) \/ GetItem(t) \/ GetBlocks(t)

SessionStep(t) ==
  \/ \E s \in Sessions : Dispatch(t, s)
  \/ PushMsg(t)
  \/ Final(t)
  \/ SendRequest(t)

Next ==
  \/ \E t \in Threads : BufferStep(t) \/ SpuriousWakeup(t) \/ SessionStep(t)
  \/ \E s \in Sessions : NewSession(s)
  \/ \E t \in IoThreads, s \in Sessions : Callback(t, s)

Spec == Init /\ [][Next]_vars

-----------------------------------------------------------------------------
(* Properties.                                                             *)

Places == {"idle", "get", "getWait", "run", "put", "putWait"}

(* The queue never holds more than max_task_num sessions.                  *)
TypeOK ==
  /\ queue \in Seq(Sessions)
  /\ MaxTask >= 0 => Len(queue) <= MaxTask
  /\ pc \in [Threads -> Places]
  /\ hand \in [Threads -> Sessions \cup {NoSession}]
  /\ item \in [Threads -> Sessions \cup {NoSession}]
  /\ inflight \subseteq Sessions
  /\ fresh \subseteq Sessions
  /\ finished \subseteq Sessions
  /\ pushes \in [Sessions -> 0 .. MaxPushes]

Queued == {queue[i] : i \in 1 .. Len(queue)}

Live == Sessions \ (fresh \cup finished)

OnceQueued == \A i, j \in 1 .. Len(queue) : queue[i] = queue[j] => i = j

Held(t) == {hand[t], item[t]} \cap Sessions

HeldAlone ==
  \A t \in Threads :
    /\ Held(t) \cap (Queued \cup inflight \cup fresh \cup finished) = {}
    /\ \A u \in Threads \ {t} : Held(t) \cap Held(u) = {}

PlacesDisjoint ==
  /\ Queued \cap inflight = {}
  /\ (Queued \cup inflight) \cap (fresh \cup finished) = {}
  /\ fresh \cap finished = {}

(* Session is declared "MultiThread Unsafe!!!" (message/session.h): the    *)
(* whole pipeline relies on a session being in one place at a time, once   *)
(* in the queue, or with one thread, or with one HTTP request, and on      *)
(* nobody touching it once it is final.                                    *)
ExclusiveSession == OnceQueued /\ HeldAlone /\ PlacesDisjoint

Count(place) == Cardinality({t \in Threads : pc[t] = place})

(* notify_one under two condition variables loses no wake-up: as long as   *)
(* a thread waits to put, at least as many threads are on their way into   *)
(* Put as there are free places; as long as a worker waits to get, at      *)
(* least as many are on their way into Get as there are sessions.          *)
NoLostWakeup ==
  /\ Count("putWait") > 0 => MaxTask >= 0 /\ MaxTask - Len(queue) <= Count("put")
  /\ Count("getWait") > 0 => Len(queue) <= Count("get")

(* There is work, but no thread can take a step: not even an io thread is  *)
(* left to run the callback of a request.                                  *)
Stuck ==
  /\ Live # {}
  /\ \A t \in Threads : pc[t] \in {"idle", "getWait", "putWait"}
  /\ inflight = {} \/ \A t \in IoThreads : pc[t] # "idle"

(* Workers block in Put on the queue only they empty.  All of them do, for *)
(* ever, only when there are as many live sessions as the queue has places *)
(* and workers together: below that, whatever modules, callbacks and the   *)
(* consumer thread push, somebody can go on.                               *)
NoStandstill ==
  Stuck /\ MaxTask # 0 => MaxTask > 0 /\ Cardinality(Live) >= MaxTask + Cardinality(Workers)

(* No session gets lost on its way: one that is not final is in the queue, *)
(* with a thread, or with a request.                                       *)
NoneForgotten ==
  \A s \in Live :
    \/ s \in Queued \cup inflight
    \/ \E t \in Threads : s \in Held(t)

(* The part of the inductive invariant that ties a thread's place to what  *)
(* it holds.                                                               *)
Control ==
  \A t \in Threads :
    /\ hand[t] \in Sessions <=> pc[t] \in {"run", "put", "putWait"}
    /\ item[t] \in Sessions <=> pc[t] \in {"put", "putWait"}
    /\ t \in Workers => pc[t] # "idle"
    /\ t \notin Workers => pc[t] \notin {"get", "getWait"}

IInv == TypeOK /\ ExclusiveSession /\ NoLostWakeup /\ NoneForgotten /\ Control

=============================================================================
