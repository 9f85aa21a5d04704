# A verification of xbusiness

xbusiness is a service of a retail-camera cloud. It consumes messages about
captured faces and passers-by from Kafka, enriches them over HTTP (image
download, trace space, url generation), Redis and MongoDB, and produces the
results to Kafka topics. This directory holds TLA+ models of its concurrent and
distributed core, TLC configurations that check them, and TLAPS proofs about
them. Line references are to the repository.

## The system

    Kafka --> consumer thread --> per-partition list --+--> worker queue --> worker threads
                 ^    |  (CConsumeProcess,             |     (Worker<Session>)   |  chain of modules
                 |    |   CPartitionManager)           |            ^            |  per Session
      pause /    |    v                                |            |            v
      resume     Run thread: scan, commit, remove <--- DONE ------- | --- HTTP --+-- Redis, MongoDB,
                                            (Session::Final)   io threads           output topics

| Component | State it keeps | Operations | Hard behaviour |
|---|---|---|---|
| Kafka consumption (`KafkaConsumerImp`, `CConsumeProcess`, `CPartitionManager`) | assignment and positions, the map of managers, a list of messages per partition number with TODO/DOING/DONE, `m_cur_state` | consume, find or make a manager, hand to a session, scan, commit, remove, pause, resume, rebalance | two threads, one task per partition and any number of sessions; commit outside the lock; rebalance; crash |
| Message handler (`CXBusinessHandler`, `ParseDataFactory`) | none | `handle`, `handleFromRedis` | blocks in the worker queue; a refused message is done at once |
| Worker queue (`FIFOBuffer`, `Worker`, `FlowManager`) | bounded queue, two condition variables | Put, Get | producers that are the consumers; `notify_one`; everyone waiting |
| Session and chain (`Session`, `ModuleWrapper`s, `PreHandler`, `*Data`) | chain, picture index, images, faces, retries, plugin | Process, MakeRequest, ProcResponse, HttpErrorProcess, Final | retries, chains changed under way, images and faces matched by number, partial output |
| Waiting for the picture (`PictureWaitModule`, `CRedisClient`) | a value and a lock per picture in Redis | lock, get, set, unlock | several instances; lease, time-outs, lost commands, redelivery |
| Saving events (`BusinessSave`) | one document per event in MongoDB | find_one, update_one with upsert | check-then-act by several instances; late, replayed and repeated messages |
| HTTP transport (`client_http.h`, `Transponder`, `HTTPModuleWrapper`) | per module a pool of connections, each with a timer | request, connect, write, read, time-out, second attempt, call back | a timer that fires when its operation is over; trimming a shared pool; retries on two levels |
| Configuration, logging, thread helpers, parsing, driver pools | read once or none | | not modelled |

The repository also holds handlers and modules that the build leaves out
(`business_capture_handler`, `common_capture_handler*`, `passenger_flow_handler`,
`module_task_handle` with its LRU cache, `module_trace_output`, feature search
and registration), vendored headers and message producers for tests (`tools`).
Nothing in the service shuts down in order: `Worker::Finalize` and
`FlowManager::finalize` are never called, so every exit is a crash, and the
restart at `kafka_consumer_imp_cb.cpp:22` compares two `char` pointers and is
never taken.

What makes each component correct:

- consumption: a committed offset never passes an unhandled message; nothing
  leaves a list uncommitted; commits do not stop; a pause ends;
- worker queue: a session is in exactly one place; wake-ups arrive; the queue
  stands still only when it cannot be otherwise;
- both together: the sessions under way are bounded, so the queue does not stand
  still, and everything that was delivered is committed in the end;
- session: it always finds a module, handles each picture once and with its own
  face, ends, and its result code tells the truth;
- picture wait: the lock excludes; what is parked is handed over once; a message
  goes on one way only;
- saving: one document per event, and no message of lesser worth replaces one
  of greater worth;
- HTTP: a connection serves one request at a time, a request is sent at most
  twice and called back once; it gets its own answer, until an answer is cut
  short, and ends, unless a cancel misses its operation.

The full list of hazards, at their lines and with the properties that cover
them, is in `PROJECT.json`.

## Modules

| Module | Models | Remarks |
|---|---|---|
| `AtLeastOnce` | what consumption promises | abstract: `committed`, `handled` |
| `PartitionManager` | `CPartitionManager`'s list operations | operators only, no state |
| `ConsumeProcess` | consumer thread, Run thread with its tasks, sessions' end, rebalance, broker, crash | EXTENDS `PartitionManager`, refines `AtLeastOnce` |
| `ConsumeProcessInv` | its two inductive invariants | `IInv` for every instance, `OnceInv` under `Quiet` |
| `Worker` | `FIFOBuffer`, the threads that put and get | |
| `Pipeline` | consumer, lists, Run thread, queue and threads together | EXTENDS `Worker`, instantiates `PartitionManager` |
| `Workflow` | one session from `init` to `Final` | |
| `HttpClient` | the asynchronous client of one HTTP module | the requests of all its sessions |
| `Parking` | what waiting for the picture promises | abstract: `waiting`, `handed`, `result`, `broken` |
| `PictureWait` | the sessions, of all instances, that share a picture | refines `Parking` |
| `BusinessSave` | the sessions, of all instances, that save one event | |
| `PartitionManagerProofs`, `ConsumeProcessProofs`, `WorkerProofs`, `PipelineProofs`, `WorkflowProofs`, `HttpClientProofs`, `PictureWaitProofs`, `BusinessSaveProofs` | lemmas and theorems | |
| `MC*` | values of constants and symmetry for TLC | |

Operators with "Mistake:" in their comment are not part of the model: each is a
plausible error in the code, kept beside the definition it stands in for, that
the property named in `PROJECT.json` detects.

### ConsumeProcess

`cons` is the consumer thread, `runPc` the Run thread and `task[p]` the
`std::async` task of partition number `p`. The map's `shared_mutex` needs no
variable: it is held shared while `runPc = "tasks"` and exclusively while
`cons.pc = "handle"`, and the guards of `FindManager`, `InsertManager` and
`StartTasks` say so. The manager's `m_mutex` covers a scan, an append and a
removal, which are single steps, and not what lies between them; that is the
window the model is about. A scan is two steps, because sessions set DONE
without a lock: `FindFirstNotDone` is the instant at which the walk meets the
first unfinished entry, `CountStates` an instant between that and the end.

| Action | Code |
|---|---|
| `Consume`, `FindManager`, `CreateManager`, `ProcessTodo`, `InsertManager` | `threadFun`, `process`, `emplace_back`, `process_todo`, `handle` |
| `Final` | `Session::Final` |
| `StartTasks`, `FindFirstNotDone`, `CountStates`, `Commit`, `RemoveCommitted`, `JoinTasks` | `Run`, `do_something`, `commit`, `remove_from_head` |
| `FlowControl`, `ApplyFlowControl` | `Run`, `pause`, `resume` |
| `Assign`, `Unassign` | `rebalance_cb` |
| `PeerCommit`, `Crash` | other members of the group, the operating system |

Offsets count from 0 and a committed offset is that of the next message.

### Worker and Pipeline

Every thread has a place: `get`, `put` (about to take the mutex), `getWait`,
`putWait` (in a wait set), `run` (a module or a callback), `idle`. A call that
does not wait is one step, because the mutex is released only by `wait`.
`notify_one` moves some thread of the wait set back to its try. What a session
does in `run` is open: end, send a request, push itself, or (a worker) push
another session first. `Workflow!PushesBounded` justifies the bound on pushes.

`Pipeline` closes the loop that neither `ConsumeProcess` nor `Worker` has alone:
`PushMsg` blocks the consumer thread while it holds the map's lock exclusively,
so neither a commit nor a pause can happen until a worker takes a session, and
the workers themselves push into the same queue. Its worker threads take
`Worker`'s actions; the consumer thread's `Accept`, `Pushed` and `PushBlocks`
are `Worker!NewSession`, `PutItem` and `PutBlocks`; the Run thread uses
`PartitionManager`'s operators. One pass over a manager is one step there
(`DoSomething`), because the steps inside it are `ConsumeProcess`'s question.

### Workflow

One session is sequential (`Worker!ExclusiveSession`), so it is modelled alone:
a step is one `Session::Process` or one HTTP callback. `Kinds` are the classes
of `ParseDataFactory`, with the message types that have chains of their own.
`Session::Final` from within `makeTraceSpaceRequest` wins over the `Final` that
follows, as `is_finished` does in the code. The trace request lists each image
with the rectangle and the age that the code looks up by the image's number
(`trace`), which is what `FaceOfItsImage` is about.

### HttpClient

A step is a completion handler on an io thread: it cancels the timer, looks at
the result and starts the next operation or calls back. `pc[r]` is the operation
a request waits for, `conn[r]` its connection, `pool`, `inUse` and `reconnect`
what the client knows of the connections, `armed` and `late` the timers: one that
is set, and handlers of expired ones that are queued and can no longer be called
off. `TimerHandler` cancels whatever its connection is doing when it runs, and
that may miss: an operation made of parts (`async_connect` over several
endpoints, a composed read or write) goes on when only a part of it has ended.
`missed[r]` marks one that goes on although its timer is spent.

`stray[c]` are the answers of which bytes are left on a connection, and `got[r]`
whose bytes a request was given. A header that is read with other bytes in front
(`Garbled`: another answer's, or those of its own first attempt, which
`HeaderBroken` keeps as the code keeps `streambuf`) may be taken for any framing,
because `HttpHeader::parse` stops at the first line without a colon; `LeftOver`
is what the client then leaves unread. `ChunksEnd` may leave bytes too: what is
read ahead with one chunk is dropped with its `chunked_streambuf`
(`client_http.h:667-733`), and trailers are not read. `cutShort` remembers the
requests that were called back with success while bytes were still to come. `SecondConnection` is the attempt the client
makes by itself when an old connection breaks before the header; `RequestCallback`
is `HTTPModuleWrapper`'s callback with the session's retry. A Content-Length that
is no number ends the process (`BadLength`, `up`).

### PictureWait and BusinessSave

Both model the sessions that share one key: one Redis value with its lock, or
one filter of documents. A step is one Redis or Mongo command (or the code
between two). `Redeliver` is a crash of the instance and the message read again,
with the same uid. `faults` counts what Redis owes nobody: a command that fails
or is answered late, a lock that outlives its 5 s, a value that outlives its
10 minutes. `Parking` is the promise behind WAIT: who comes before the result
waits, the result is not written over anyone who still waits, nobody waits
behind it. `ParkingSpec` maps `waiting` to the parked list less those taken out,
`handed` to those taken out, `result` to the Trace value, and `broken` to the
first fault.

## Runs

| Run | Instance | Shows |
|---|---|---|
| `consume_once` | 1 topic, 2 partitions of 3 messages (one of them with a single readable message), commit_num 2, max_cache_size 3, a crash, no rebalance | `RemovedIsCommitted`, `CommitMonotone`, `EventuallyCommitted`, `PauseEnds` |
| `consume_faults` | 2 topics with one partition number, 2 messages each, the second unreadable, failing commits, a rebalance, a crash | `NoLoss`, `KmsgAlive`, refinement of `AtLeastOnce` |
| `worker_overload` | 5 sessions, 2 workers, 2 io threads, 2 places: more sessions than places and workers | exclusiveness, wake-ups, and that a standstill, which is reached, needs overload |
| `pipeline` | 4 messages on 2 partitions, 2 workers, 1 io thread, 2 places, max_cache_size 1, commit_num 2, `Burst` 1 | `CacheBounded`, `FlowKeepsMoving`, `EverythingCommitted` |
| `workflow` | all kinds, up to 3 pictures, 2 topics, 2 retries | chain, pictures and faces, result code, pushes, `SessionEnds` |
| `http_client` | 2 requests, 3 connection names, every framing, one session with 1 retry and one with none left, 1 chunk, 1 late timer | exclusiveness, pool, `OwnAnswer`, `SentAtMostTwice`, `CallbackOnce`, `EndsUnlessMissed` |
| `picture` | 2 Business and 2 Trace sessions, all but one Trace session may time out, 2 faults, 1 redelivery | `LockExcludes`, `TakenOnce`, `OneWay`, `PictureTriggersFlow`, refinement of `Parking` |
| `business_save` | 3 sessions, failures, 1 redelivery | `OneDocument`, `BigStays`, `NormalStays` |

Four runs are expected to end in a violation; each states what a comment of the
repository says:

- `consume_topics`: managers are keyed by the partition number alone, and a
  forced commit names one topic. With a second topic, finished messages of the
  other topic leave the list uncommitted. They are handled, so nothing is lost
  (`NothingDropped` proves it for every set of topics and partitions);
  after a restart they are handled again.
- `consume_pause`: partitions assigned while consumption is paused are not
  paused.
- `picture_refused`: a trace result with error_code -10041 is passed on, and
  the messages parked for it are dropped.
- `picture_redis`: a failed SET still answers WAIT; the message is gone.

### Bounds, and why they are enough

- Two messages are the least that can finish out of order, two partitions the
  least for tasks to run side by side; four readable messages with
  max_cache_size 3 fill the lists past the limit and empty them again; one
  rebalance and one crash put old entries in front of a second delivery.
- Two threads of a kind make `notify_one` choose; five sessions are one more
  than two places and two workers hold. `MaxPushes` bounds how often a session
  is pushed on; the proofs hold for any, and `Workflow!PushesBounded` gives one.
- `Burst` (messages delivered during one pass of Run) is not a bound on the
  search but an assumption about Kafka: no line of the code limits it, and
  without it the consumer may fill the queue before Run looks once.
  The bound of `CacheBounded`, `CacheLimit + 2 * Burst` (`CacheLimit` is
  max_cache_size, or 0 if that is negative), is tight: one burst may come until
  the pass that pauses begins, another until it ends. In the instance 1 + 2
  sessions are fewer than 2 places and 2 workers, as `QueueKeepsMoving` asks.
  `MaxPushers` limits how many sessions are pushed on, to keep the instance small.
  Kafka delivers each message of the log once here (`LogAssumption`).
- Three pictures with two retries let an error come first, between and last;
  two topics let the second refuse after the first has accepted.
- In `http_client` two requests share and trim the pool, the third connection
  is the one that replaces a broken one; one late timer is the least that can
  cancel another request's operation. A session shares one budget of retries among
  its requests, so one that has used it up in earlier modules is as real as one
  that has not; the instance has one of each. `MaxChunks` is the only thing that bounds a server
  that sends one chunk after another: each chunk is a new operation with a new
  timer, so the client itself never gives up on it.
- Two Business and two Trace sessions give the lock a holder, a waiter and a
  latecomer, two faults a lost write after a lost lock. One Trace session waits
  as long as it takes; otherwise parked messages expire unnoticed, which
  `hazards` lists.
- A find/update pair needs two others to overlap it on both sides: three
  sessions.

Deadlock is checked in the passing runs of `ConsumeProcess` only: elsewhere a
finished system stops (sessions all final), and `NoStandstill`,
`FlowKeepsMoving`, `EverythingCommitted`, `EndsUnlessMissed` and `SessionEnds`
say that it stops nowhere else.

Some properties are about a part of the behaviours, on purpose:
`RemovedIsCommitted` and `CommitMonotone` hold for one topic and without
rebalances and lost commits (after a rebalance a revoked partition's list is
still committed, which may take an offset back: `AtLeastOnce` allows it);
`LockExcludes`, `TakenOnce` and `ParkingSpec` hold while Redis answers and no
lease ends before its holder, and to the last two a message that is parked once
more on a redelivery is handed, not lost or doubled; `OneWay` is about WAIT and
going on, not about a list that is overwritten or read twice; `OwnAnswer` names
the success that was cut short (a server that gives no framing, for
`client_http.h:606` looks for "Session: close"; what is read ahead of a chunk; a
header behind other bytes) and promises nothing once there was one;
`EndsUnlessMissed` names the operation that a cancel has missed;
`FaceOfItsImage` names the image without a body; `BigStays`, `NormalStays` and
`OneDocument` excuse every session that ever overlapped another, so the race
itself is not caught: what they show is that nothing else breaks them.
`NormalStays` also names the mark of an earlier replay, which is never cleared.

One budget of retries serves all requests of a session (`session.h:221` can be
read as one for each request); the model follows the code, and `PushesBounded`
rests on it.

### Fairness

- The detached threads run for ever: weak fairness for each. The steps of the
  consumer thread that take the map's lock exclusively get strong fairness:
  boost's `shared_mutex` lets no new reader in while a writer waits.
- A `consume` that stays possible returns messages of every partition: strong
  fairness per partition, because it is blocked while the thread is busy. In
  `Pipeline` no message is owed at all.
- A session in hand ends (`Final` in `ConsumeProcess`). `Pipeline` shows it from
  weaker assumptions: threads that call Put or Get get their turn, modules
  return, a request is answered or fails. The last is an assumption of `Pipeline`
  and `Workflow`; `HttpClient!EndsUnlessMissed` shows that it fails only when a
  cancel misses its operation and the server never answers, or the process ends.
- `HttpClient` assumes nothing of the server: a connect, a write or a read may
  hang for ever. It assumes that io threads run what is queued for them, that
  timers expire, and that the operating system's resolver answers, which is the
  one operation without a timer.
- In `PictureWait` a session goes on with its module, tries the lock again every
  10 ms, and the lock of a dead session expires.
- Rebalances, peers, crashes, new messages, spurious wake-ups and faults are
  never owed.

## Proofs

They hold for every value of the constants (the named assumptions are as weak as
the configuration allows: `commit_num`, `max_cache_size` and `max_task_num` are
any integers).

`ConsumeProcessProofs`: `Invariance` proves `IInv` inductive. `NoLoss` alone is
not: a commit is right because of what a scan saw earlier. The strengthening
says that every DONE entry and every message a task holds was handled
(which makes a commit's own message safe), that what a task saw is still a
finished prefix of the list (`KmsgAlive`: others only append at the tail and
only turn DOING into DONE), and that whatever precedes an entry of the same
topic and partition was handled or precedes it in the list, or in the hand of
the consumer thread behind the list. The last is what makes the committed
offset safe and not only the committed message; it survives rebalances because
a partition is read again only from its committed offset. `TypeCorrect`,
`NothingLost` and `ScanStaysTrue` follow, and `ImplementsAtLeastOnce` shows each
step to be a step of `AtLeastOnce` or a stutter. `NothingDropped` is the promise
of the lists themselves: a message leaves them finished or with the process,
because what is removed is what the scan found done (`KmsgAlive`) and a new
manager never replaces entries (`Unregistered`). `PartitionManagerProofs` holds
the lemmas about the list operations.

Its second part proves `RemovedIsCommitted` and `CommitMonotone` under `Quiet` (one
Kafka partition for each number, no rebalance, no failing commit; any number of
crashes). `OnceInv` adds to `IInv` that a list holds rising offsets of one
assigned partition, all at or above the committed one except for the head that
a task has committed and is about to remove, and that the message in hand is
above all of them. `consume_topics` shows what the first condition is for.

`WorkerProofs`: `Invariance` proves `IInv`, which joins type correctness,
exclusiveness, `NoLostWakeup`, `NoneForgotten` and the tie between a thread's
place and what it holds. The heart is the counting of `NoLostWakeup`: while
somebody waits to put, as many threads are on their way into Put as there are
free places. `StandstillOnlyUnderOverload` then counts sessions: when nobody
can move, the queue is full and each worker holds a session of its own.

`PipelineProofs`: `PipelineImplementsWorker` maps each step of the pipeline to one
of `Worker` or to a stutter, so everything proved of the queue holds in the
pipeline. `PipelineInvariance` proves `PipelineInv` inductive together with
`IInv`. `CacheBounded` alone says nothing of what the Run thread knows: it counts
the lists one by one, while sessions finish, and messages come. `Counting` relates
the count to the messages under way (in a list and not done, or in the hand of
the consumer thread): those that are in no list still to be scanned are at most
the count, what was delivered since the pass began, and one message, which the
consumer thread may have had in its hand, or in a manager that is not in the map
yet (`Unregistered`), when the pass took its list of managers. A pass that does
not pause therefore ends with at most max_cache_size and the messages of this
pass; one that pauses ends with those of two (`Limits`). `CacheStaysBounded`
follows for any log, number of partitions, commit_num and max_cache_size.
`QueueKeepsMoving` joins it with `StandstillOnlyUnderOverload`, because every live
session has its message in a list (`LiveListed`): with `LargeEnough`
(max_cache_size and two bursts are fewer than max_task_num and the workers) the
queue never stands still. That is the rule by which the three configuration
values have to be chosen, and no line of the code checks it.
`NothingLeavesUncommitted`: what was delivered is committed or in a list
(`Accounted`). `CommitsHaveNoGaps`: of a partition, a message is committed after
all those before it in the log. What is unread is the rest of the log and lists
and hand are in log order (`OrderInv`), so a finished head of a list is all that
is not committed up to there. Hence the set `committed` of the model says what
the broker's one offset for each partition says.

`WorkflowProofs`: every safety property of `Workflow`. The chain is always an end
of the chain of its class or of the one `repairProcChain` leaves
(`ChainInOrder`), the pictures answered are those up to the url index less the
one under way (`Downloads`), every image was answered and every picture without
an image is a witness for the shifted numbers (`ImagesAnswered`, `TraceOfAll`),
what is still pending is what is not done (`Remaining`), and pushes, pending
modules, pictures left and retries left add up to a budget that never grows
(`PushesLeft`).

`HttpClientProofs`: every safety property of `HttpClient`. A request holds a
connection exactly while it is under way, only a connection that may not be
replaced carries a request a second time (`SentSoFar`), and until an answer was cut short
nothing is left on any connection but what a request still reads of its own
(`CleanStreams`, `BeingRead`); an answer that an error or a timer ends goes with
its connection. `NoOtherCause` says what an answer cut short comes from: if
servers frame their answers, and not by chunks (an assumption on `Answers`), and
no second attempt is made with bytes of the first in the response (the action
property `CleanRetries`), then every request that succeeds has its own answer and
nothing else. `NothingHangsUntimed` is the safe half of `EndsUnlessMissed`: an
operation other than the lookup is cancelled, has a running timer, or a handler
of that timer is queued, or the cancel has come and missed it; two requests never
share a connection, so no other request's end takes its timer away.

`PictureWaitProofs`: `TypeCorrect`, `LockIsExclusive`, `OnlyOnce`, `OnlyOneWay`
and `KeepsPromise`. Without a fault what a session has read is still what Redis
holds (`SeenIsValue`), and the loop has taken out what is no longer before it
(`Dispatching`); from these each step is a step of `Parking`. `OnlyOneWay` needs
neither: a message that is parked, in a copy that someone has read, or taken out
had a session that was told to wait (`CarriedWaits`). `ParkedMessagesAreKept` is
the safe half of `PictureTriggersFlow`: without a fault or a -10041 result, a
parked message is in redis until a session was started for it; the two runs
`picture_redis` and `picture_refused` show what each of the two does.
`WaitingIsCached` proves that a SET that fails in that very step is the only way
to WAIT for a message that redis does not have.

`BusinessSaveProofs`: what a session that nobody overlapped has found is still so
(`Found`), hence an upsert of it inserts nothing twice and downgrades nothing.

Only model-checked: all liveness (`EventuallyCommitted`, `PauseEnds`,
`EverythingCommitted`, `SessionEnds`, `EndsUnlessMissed`,
`PictureTriggersFlow`; fairness and ENABLED are beyond the prover).

## What is not modelled

- Contents of messages, requests, answers and documents beyond what the
  properties tell apart: parsing (`base_data.cpp`, `com_func.cpp`) is a choice
  of its outcome.
- The producer's queue after `rd_kafka_produce`: a delivery that fails is only
  logged, so an output can be lost though its input is committed. That is by
  design, and nothing in the repository says otherwise.
- Redis and MongoDB as replicated systems, and the drivers' pools: their
  failures are failures of commands. `PictureWait` takes the values in Redis to
  be those the program wrote.
- Of the HTTP client: `stop()`, the response size limit (the maximum of its
  type), synchronous requests and TLS, which nobody uses.
- Configuration, logging and timing statistics, which have no effect on state.
- Everything the build leaves out, about 2500 lines, and the vendored headers:
  librdkafka's alone are 7800 of the repository's 22300 lines and declare an
  API, and `server_http.h` is not used. The map therefore covers a small share of
  all lines (2800); of the built sources that are mapped at all, what it leaves
  out is mostly the reading and writing of JSON.

## Plan

Done, in this order: `PartitionManager`, `ConsumeProcess`, `Worker`,
`PictureWait`, `Workflow`, `BusinessSave`, then `HttpClient`, `Pipeline`,
`Parking` with its refinement, and the proofs of each.

Left:

1. Sessions that a Trace session starts for parked messages inside `Pipeline`:
   no list knows them, so they are not counted by flow control, and the room
   they need is one more assumption about the environment.
2. `module_task_handle` and its LRU cache, should the build take them in again.
