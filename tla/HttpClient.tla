------------------------------ MODULE HttpClient ------------------------------
(***************************************************************************)
(* SimpleWeb::Client<HTTP> under HTTPModuleWrapper: one client per HTTP    *)
(* module, its pool of persistent connections and the requests of the      *)
(* sessions that share it.  A worker thread sends a request; every later   *)
(* step is a completion handler on one of the io threads, so steps of      *)
(* different requests interleave freely.                                   *)
(*                                                                         *)
(* A step here is one handler: it cancels the timer, looks at the result   *)
(* of its operation and starts the next operation or calls back.  How an   *)
(* operation ends is left to the server and to the network: it completes,  *)
(* it fails, or it hangs until the timer of the connection cancels it.     *)
(* The expiry of a timer and the handler that cancels the socket are two   *)
(* steps: once the handler is queued nothing calls it back, and it cancels *)
(* what its connection is doing when it runs.  A cancel may also miss the  *)
(* operation: it has just completed; or it consists of parts (the          *)
(* endpoints of a connect, the pieces of a read or a write), one part is   *)
(* over and the next is started all the same.                              *)
(*                                                                         *)
(* The bytes of an answer are abstracted to whose answer they are.  A      *)
(* header that is read with other bytes in front of it, of another answer  *)
(* or of a first attempt of its own, may be taken for anything.  The size  *)
(* limit of a response is the maximum of its type and never met, and       *)
(* nobody stops the client before the process ends: message_size, stop()   *)
(* and continue_lock() without a lock are left out, and so are the         *)
(* synchronous request()s, which nobody calls, and failed_requests_, which *)
(* nobody reads.                                                           *)
(***************************************************************************)
EXTENDS Integers, FiniteSets

CONSTANTS
  Requests,      \* the sessions that send a request through this client
  Connections,   \* names for Connection objects, used again after deletion
  NoConnection,
  Answers,       \* the framings the server may answer with
  Retries,       \* http_retry_time_: what each session has not used up before
  MaxChunks,     \* bound: chunks of one answer
  MaxLate        \* bound: expired timers of a connection not handled yet

(* How the client takes a header: with a length, chunked, read until the   *)
(* server closes, with nothing of these, with a length that is no number.  *)
AllFramings == {"length", "chunked", "close", "unframed", "badLength"}

ASSUME RequestsAssumption == IsFiniteSet(Requests)
ASSUME ConnectionsAssumption == NoConnection \notin Connections
ASSUME AnswersAssumption ==
  Answers \subseteq AllFramings
ASSUME BoundsAssumption == Retries \in [Requests -> Nat] /\ MaxChunks \in Nat /\ MaxLate \in Nat \ {0}

VARIABLES
  pc,           \* where a request is
  conn,         \* Session::connection of a request
  failed,       \* its callback was given an error code
  sent,         \* times the request was written since it was sent last
  got,          \* requests whose answers the response holds bytes of
  chunks,       \* counter for MaxChunks
  aborted,      \* the operation of the request has been cancelled
  missed,       \* the cancel of its timer did not end it
  retries,      \* http_retry_time_
  pool,         \* connections
  inUse,        \* Connection::in_use
  reconnect,    \* Connection::attempt_reconnect
  socket,       \* "closed", "open", or "peerClosed" when the server has closed
  armed,        \* the timer of the connection is running
  late,         \* expired timers whose handlers have not run
  stray,        \* requests whose answers have bytes to come on the connection
  concurrent,   \* concurrent_requests_
  up,           \* the process is alive
  cutShort      \* history: requests called back with success while bytes
                \* were still to come on the connection they give back

requestVars == <<pc, conn, failed, sent, got, chunks, aborted, missed, retries>>
connectionVars == <<pool, inUse, reconnect, socket, armed, late, stray>>
vars == <<requestVars, connectionVars, concurrent, up, cutShort>>

Init ==
  /\ pc = [r \in Requests |-> "new"]
  /\ conn = [r \in Requests |-> NoConnection]
  /\ failed = [r \in Requests |-> FALSE]
  /\ sent = [r \in Requests |-> 0]
  /\ got = [r \in Requests |-> {}]
  /\ chunks = [r \in Requests |-> 0]
  /\ aborted = [r \in Requests |-> FALSE]
  /\ missed = [r \in Requests |-> FALSE]
  /\ retries = Retries
  /\ pool = {}
  /\ inUse = [c \in Connections |-> FALSE]
  /\ reconnect = [c \in Connections |-> TRUE]
  /\ socket = [c \in Connections |-> "closed"]
  /\ armed = [c \in Connections |-> FALSE]
  /\ late = [c \in Connections |-> 0]
  /\ stray = [c \in Connections |-> {}]
  /\ concurrent = 0
  /\ up = TRUE
  /\ cutShort = {}

-----------------------------------------------------------------------------
(* The pool, under connections_mutex.                                      *)

Idle == {c \in pool : ~inUse[c]}

(* A Connection object lives as long as the pool, a request or the handler *)
(* of one of its timers refers to it.                                      *)
Unused == {c \in Connections \ pool : late[c] = 0 /\ \A r \in Requests : conn[r] # c}

(* create_connection.  Which unused name stands for the new object does    *)
(* not matter.                                                             *)
NewConnection == IF Unused = {} THEN {} ELSE {CHOOSE c \in Unused : TRUE}

(* Mistake: every idle connection is kept.                                 *)
Untrimmed(left, used) == {left}

(* Of the idle connections one stays for the next request, whichever comes *)
(* first in the unordered set.                                             *)
Trimmed(left, used) ==
  LET idle == {c \in left : ~used[c]}
  IN  IF idle = {} THEN {left} ELSE {left \ (idle \ {c}) : c \in idle}

(* What a connection leaves behind goes with it.                           *)
Kept(f, default) == [c \in Connections |-> IF c \in pool' THEN f[c] ELSE default]

(* Mistake: the connection of a failed request is kept.                    *)
AllStay(c, error) == pool

(* A connection is not used again after an error.                          *)
Remaining(c, error) == IF error THEN pool \ {c} ELSE pool

(* The first half of session->callback: the connection is idle again, or   *)
(* goes when the request has failed.                                       *)
Release(r, error, sockets, strays) ==
  LET c == conn[r]
  IN  /\ inUse' = [inUse EXCEPT ![c] = FALSE]
      /\ pool' \in Trimmed(Remaining(c, error), inUse')
      /\ socket' = Kept(sockets, "closed")
      /\ stray' = Kept(strays, {})
      /\ conn' = [conn EXCEPT ![r] = NoConnection]
      /\ failed' = [failed EXCEPT ![r] = error]
      /\ pc' = [pc EXCEPT ![r] = "answered"]
      /\ sent' = [sent EXCEPT ![r] = 0]
      /\ chunks' = [chunks EXCEPT ![r] = 0]
      /\ aborted' = [aborted EXCEPT ![r] = FALSE]
      /\ missed' = [missed EXCEPT ![r] = FALSE]
      /\ armed' = [armed EXCEPT ![c] = FALSE]

(* What is still to come of the answer would come on the same connection.  *)
Fail(r) ==
  /\ Release(r, TRUE, socket, [stray EXCEPT ![conn[r]] = @ \cup {r}])
  /\ UNCHANGED cutShort

(* The answer has been read, or so the client thinks.                      *)
Answered(r, sockets, strays) ==
  /\ Release(r, FALSE, sockets, strays)
  /\ cutShort' = IF strays[conn[r]] = {} THEN cutShort ELSE cutShort \cup {r}

-----------------------------------------------------------------------------
(* Sending, on a worker thread.                                            *)

(* connect and write: a socket that is open is written to at once.         *)
FirstOperation(c) == IF socket[c] = "closed" THEN "resolve" ELSE "write"

(* Mistake: no timeout, as Config's comment says of its default.           *)
NoTimeout(c) == [armed EXCEPT ![c] = FALSE]

(* set_timeout: a new timer; the old one is destroyed.                     *)
SetTimeout(c) == [armed EXCEPT ![c] = TRUE]

(* HTTPModuleWrapper::SendRequest and Client::request.  get_connection     *)
(* takes any idle connection, or else creates one; from there on the       *)
(* thread touches nothing but its own connection.                          *)
SendRequest(r) ==
  /\ pc[r] = "new"
  /\ concurrent' = concurrent + 1
  /\ \E c \in IF Idle # {} THEN Idle ELSE NewConnection :
       /\ conn' = [conn EXCEPT ![r] = c]
       /\ pool' = pool \cup {c}
       /\ reconnect' = [reconnect EXCEPT ![c] = TRUE]
       /\ inUse' = [inUse EXCEPT ![c] = TRUE]
       /\ pc' = [pc EXCEPT ![r] = FirstOperation(c)]
       /\ armed' = SetTimeout(c)
  /\ UNCHANGED <<failed, sent, got, chunks, aborted, missed, retries, socket, late,
                 stray, up, cutShort>>

(* The next operation of a request.                                        *)
Start(r, operation) ==
  /\ pc' = [pc EXCEPT ![r] = operation]
  /\ armed' = SetTimeout(conn[r])
  /\ missed' = [missed EXCEPT ![r] = FALSE]
  /\ UNCHANGED <<conn, failed, aborted, pool, inUse>>

-----------------------------------------------------------------------------
(* Completion handlers, on the io threads.                                 *)

Pending == {"resolve", "connecting", "write", "header", "body", "chunk", "untilClosed"}

Completes(r, operation) == pc[r] = operation /\ ~aborted[r]

Resolved(r) ==
  /\ Completes(r, "resolve")
  /\ Start(r, "connecting")
  /\ UNCHANGED <<sent, got, chunks, retries, reconnect, socket, late, stray, concurrent,
                 up, cutShort>>

Connected(r) ==
  /\ Completes(r, "connecting")
  /\ socket' = [socket EXCEPT ![conn[r]] = "open"]
  /\ Start(r, "write")
  /\ UNCHANGED <<sent, got, chunks, retries, reconnect, late, stray, concurrent, up,
                 cutShort>>

(* A request may be written to a connection that the server has closed.    *)
Written(r) ==
  /\ Completes(r, "write")
  /\ sent' = [sent EXCEPT ![r] = @ + 1]
  /\ Start(r, "header")
  /\ UNCHANGED <<got, chunks, retries, reconnect, socket, late, stray, concurrent, up,
                 cutShort>>

(* Whose bytes the next header on the connection brings: with bytes of     *)
(* another answer in front, either an empty line among them ends the       *)
(* header, and the own answer is still to come, or they are swallowed with *)
(* the own one.                                                            *)
HeaderBytes(r) ==
  LET others == stray[conn[r]]
  IN  IF others = {} THEN {{r}} ELSE {others, others \cup {r}}

(* The header is read with bytes in front that do not belong to it: those  *)
(* of another answer, or the beginning of this request's own header that   *)
(* came on the connection that broke (HeaderBroken).                       *)
Garbled(r) == got[r] # {} \/ stray[conn[r]] # {}

(* ResponseMessage::parse and HttpHeader::parse: the fields end at the     *)
(* first line without a colon, and a field may have been cut in two.  So a *)
(* garbled header may lose the framing the server gave, or find another.   *)
Framings(r) == IF Garbled(r) THEN AllFramings ELSE Answers

(* What is still to come of the bytes under way when the client takes the  *)
(* answer to be over: nothing, when the framing is the server's or when it *)
(* reads on until the server closes.                                       *)
LeftOver(r, framing, bytes) ==
  IF framing = "unframed" \/ (framing # "close" /\ Garbled(r)) THEN SUBSET bytes ELSE {{}}

(* The operations that read the rest of an answer.                         *)
Reading == [length |-> "body", chunked |-> "chunk", close |-> "untilClosed"]

(* The header is there: how the rest of the answer is read.  The answer of *)
(* an HTTP/1.1 server without length, chunks or "Session: close" (the      *)
(* standard's "Connection: close" is not looked for) is over at once, with *)
(* what has come of its body.  A status line that makes no sense fails.    *)
HeaderRead(r) ==
  LET c == conn[r]
  IN  /\ Completes(r, "header")
      /\ socket[c] = "open"
      /\ reconnect' = [reconnect EXCEPT ![c] = TRUE]
      /\ \E bytes \in HeaderBytes(r) :
           /\ got' = [got EXCEPT ![r] = @ \cup bytes]
           /\ \/ \E framing \in Framings(r) : \E more \in LeftOver(r, framing, bytes) :
                   LET rest == [stray EXCEPT ![c] = ((@ \cup {r}) \ bytes) \cup more]
                   IN  \/ framing \in {"length", "unframed"} /\ Answered(r, socket, rest)
                       \/ /\ framing \in DOMAIN Reading
                          /\ Start(r, Reading[framing])
                          /\ stray' = rest
                          /\ UNCHANGED <<socket, sent, chunks, cutShort>>
              \/ Fail(r)
      /\ UNCHANGED <<retries, late, concurrent, up>>

(* stoull of a Content-Length that is no number throws out of the handler  *)
(* and out of io_service::run: the process ends.                           *)
BadLength(r) ==
  /\ Completes(r, "header")
  /\ socket[conn[r]] = "open"
  /\ "badLength" \in Framings(r)
  /\ up' = FALSE
  /\ UNCHANGED <<requestVars, connectionVars, concurrent, cutShort>>

(* Mistakes: in_use is not set, attempt_reconnect is left as it is born.   *)
UnmarkedSecond == [inUse |-> FALSE, reconnect |-> FALSE]
EagerSecond == [inUse |-> TRUE, reconnect |-> TRUE]

(* The connection made for the second attempt.                             *)
SecondConnection == [inUse |-> TRUE, reconnect |-> FALSE]

(* The connection breaks before the header has come.  That is what using a *)
(* connection looks like which the server has closed in the meantime, so   *)
(* the request is sent once more on a new connection; the bytes read so    *)
(* far, its own or others', stay in the response.                          *)
HeaderBroken(r) ==
  LET c == conn[r]
  IN  /\ Completes(r, "header")
      /\ IF reconnect[c] /\ c \in pool
         THEN /\ \E d \in NewConnection :
                   /\ pool' = (pool \ {c}) \cup {d}
                   /\ conn' = [conn EXCEPT ![r] = d]
                   /\ reconnect' = [reconnect EXCEPT ![c] = TRUE, ![d] = SecondConnection.reconnect]
                   /\ inUse' = [inUse EXCEPT ![c] = FALSE, ![d] = SecondConnection.inUse]
                   /\ pc' = [pc EXCEPT ![r] = "resolve"]
                   /\ missed' = [missed EXCEPT ![r] = FALSE]
                   /\ armed' = [armed EXCEPT ![c] = FALSE, ![d] = TRUE]
              /\ socket' = Kept(socket, "closed")
              /\ stray' = Kept(stray, {})
              /\ \E bytes \in {{}} \cup HeaderBytes(r) : got' = [got EXCEPT ![r] = @ \cup bytes]
              /\ UNCHANGED <<failed, aborted, sent, chunks, cutShort>>
         ELSE /\ Fail(r)
              /\ reconnect' = [reconnect EXCEPT ![c] = TRUE]
              /\ UNCHANGED got
      /\ UNCHANGED <<retries, late, concurrent, up>>

(* The rest of a body of known length has come.                            *)
BodyRead(r) ==
  /\ Completes(r, "body")
  /\ Answered(r, socket, stray)
  /\ UNCHANGED <<got, retries, reconnect, late, concurrent, up>>

(* One more chunk, read under a timer of its own.                          *)
ChunkRead(r) ==
  /\ Completes(r, "chunk")
  /\ chunks[r] < MaxChunks
  /\ chunks' = [chunks EXCEPT ![r] = @ + 1]
  /\ Start(r, "chunk")
  /\ UNCHANGED <<sent, got, retries, reconnect, socket, late, stray, concurrent, up,
                 cutShort>>

(* A chunk of length zero, or a length that is no number.  What was read   *)
(* ahead with one chunk is dropped before the next (chunked_streambuf is   *)
(* new each time), so the client may take a line inside the body for the   *)
(* last chunk; and trailer fields after the last chunk are not read.       *)
ChunksEnd(r) ==
  LET c == conn[r]
  IN  /\ Completes(r, "chunk")
      /\ \/ \E more \in SUBSET {r} : Answered(r, socket, [stray EXCEPT ![c] = @ \cup more])
         \/ Fail(r)
      /\ UNCHANGED <<got, retries, reconnect, late, concurrent, up>>

(* The server closes: all that came until then is the answer, and the      *)
(* connection stays in the pool.                                           *)
ClosedRead(r) ==
  LET c == conn[r]
  IN  /\ Completes(r, "untilClosed")
      /\ got' = [got EXCEPT ![r] = @ \cup stray[c]]
      /\ Answered(r, [socket EXCEPT ![c] = "peerClosed"], [stray EXCEPT ![c] = {}])
      /\ UNCHANGED <<retries, reconnect, late, concurrent, up>>

(* Any other operation fails: no second try.                               *)
Broken(r) ==
  /\ pc[r] \in Pending \ {"header"}
  /\ ~aborted[r]
  /\ Fail(r)
  /\ reconnect' = [reconnect EXCEPT ![conn[r]] = TRUE]
  /\ UNCHANGED <<got, retries, late, concurrent, up>>

(* The handler of a cancelled operation: operation_aborted, no second try  *)
(* either.                                                                 *)
Aborted(r) ==
  /\ aborted[r]
  /\ Fail(r)
  /\ reconnect' = [reconnect EXCEPT ![conn[r]] = TRUE]
  /\ UNCHANGED <<got, retries, late, concurrent, up>>

MayRetry(r) == failed[r] /\ retries[r] > 0

(* Mistake: only answers are counted.                                      *)
CountAnswers(r) == IF failed[r] THEN concurrent ELSE concurrent - 1

CountCallback(r) == concurrent - 1

(* The second half of session->callback: the module takes the answer, or   *)
(* HttpErrorProcess pushes the session again while it has retries left.    *)
(* The client's Session and its Response are gone afterwards.              *)
RequestCallback(r) ==
  /\ pc[r] = "answered"
  /\ concurrent' = CountCallback(r)
  /\ IF MayRetry(r)
     THEN /\ retries' = [retries EXCEPT ![r] = @ - 1]
          /\ pc' = [pc EXCEPT ![r] = "new"]
     ELSE /\ pc' = [pc EXCEPT ![r] = "done"]
          /\ UNCHANGED retries
  /\ failed' = [failed EXCEPT ![r] = FALSE]
  /\ got' = [got EXCEPT ![r] = {}]
  /\ UNCHANGED <<conn, sent, chunks, aborted, missed, connectionVars, up, cutShort>>

-----------------------------------------------------------------------------
(* Timers and the server.                                                  *)

TimerExpires(c) ==
  /\ armed[c]
  /\ late[c] < MaxLate
  /\ armed' = [armed EXCEPT ![c] = FALSE]
  /\ late' = [late EXCEPT ![c] = @ + 1]
  /\ UNCHANGED <<requestVars, pool, inUse, reconnect, socket, stray, concurrent, up,
                 cutShort>>

(* What a cancel of the socket is meant to end: not the resolver.          *)
Underway(c) ==
  {r \in Requests : conn[r] = c /\ pc[r] \in Pending \ {"resolve"} /\ ~aborted[r]}

(* cancel() ends the part of the operation that waits on the socket.  It   *)
(* ends nothing while the completion of a part is queued, and              *)
(* async_connect takes it for the failure of one endpoint and tries the    *)
(* next: the operation goes on.  The timer is spent, unless the cancel     *)
(* came from that of an earlier operation.                                 *)
TimerHandler(c) ==
  /\ late[c] > 0
  /\ late' = [late EXCEPT ![c] = @ - 1]
  /\ \E ended \in SUBSET Underway(c) :
       /\ aborted' = [r \in Requests |-> aborted[r] \/ r \in ended]
       /\ missed' = [r \in Requests |-> missed[r] \/ (~armed[c] /\ r \in Underway(c) \ ended)]
  /\ UNCHANGED <<pc, conn, failed, sent, got, chunks, retries, pool, inUse, reconnect,
                 socket, armed, stray, concurrent, up, cutShort>>

(* The server closes an idle persistent connection.                        *)
ServerCloses(c) ==
  /\ c \in Idle
  /\ socket[c] = "open"
  /\ socket' = [socket EXCEPT ![c] = "peerClosed"]
  /\ UNCHANGED <<requestVars, pool, inUse, reconnect, armed, late, stray, concurrent,
                 up, cutShort>>

-----------------------------------------------------------------------------

Completion(r) ==
  \/ Resolved(r) \/ Connected(r) \/ Written(r)
  \/ HeaderRead(r) \/ BadLength(r) \/ HeaderBroken(r)
  \/ BodyRead(r) \/ ChunkRead(r) \/ ChunksEnd(r) \/ ClosedRead(r)
  \/ Broken(r)

Next ==
  /\ up
  /\ \/ \E r \in Requests :
          SendRequest(r) \/ Completion(r) \/ Aborted(r) \/ RequestCallback(r)
     \/ \E c \in Connections : TimerExpires(c) \/ TimerHandler(c) \/ ServerCloses(c)

Spec == Init /\ [][Next]_vars

(* What a thread of the process, a timer or the resolver will do.          *)
Scheduled ==
  \/ \E r \in Requests :
       \/ SendRequest(r) \/ Aborted(r) \/ RequestCallback(r)
       \/ pc[r] = "resolve" /\ (Resolved(r) \/ Broken(r))
  \/ \E c \in Connections : TimerExpires(c) \/ TimerHandler(c)

(* Fairness.  The worker and io threads do not stop while something is     *)
(* queued for them, timers expire, and the resolver of the operating       *)
(* system answers: nothing else ends a lookup.  Nothing is assumed of the  *)
(* server: a connect, a write or a read may hang for ever.                 *)
Fairness == WF_vars(up /\ Scheduled)

FairSpec == Spec /\ Fairness

-----------------------------------------------------------------------------
(* Properties.                                                             *)

TypeOK ==
  /\ pc \in [Requests -> Pending \cup {"new", "answered", "done"}]
  /\ conn \in [Requests -> Connections \cup {NoConnection}]
  /\ failed \in [Requests -> BOOLEAN]
  /\ sent \in [Requests -> Nat]
  /\ got \in [Requests -> SUBSET Requests]
  /\ chunks \in [Requests -> 0 .. MaxChunks]
  /\ aborted \in [Requests -> BOOLEAN]
  /\ missed \in [Requests -> BOOLEAN]
  /\ retries \in [Requests -> Nat] /\ \A r \in Requests : retries[r] <= Retries[r]
  /\ pool \subseteq Connections
  /\ inUse \in [Connections -> BOOLEAN]
  /\ reconnect \in [Connections -> BOOLEAN]
  /\ socket \in [Connections -> {"closed", "open", "peerClosed"}]
  /\ armed \in [Connections -> BOOLEAN]
  /\ late \in [Connections -> 0 .. MaxLate]
  /\ stray \in [Connections -> SUBSET Requests]
  /\ concurrent \in Nat
  /\ up \in BOOLEAN
  /\ cutShort \subseteq Requests

(* Requests that hold a connection.                                        *)
Active == {r \in Requests : pc[r] \in Pending}

(* Two requests never share a connection, however sending, reconnecting    *)
(* and trimming the pool interleave: an answer is read by the request that *)
(* was written on its connection.                                          *)
ExclusiveConnection ==
  \A r \in Active :
    /\ conn[r] \in pool /\ inUse[conn[r]]
    /\ \A q \in Active \ {r} : conn[q] # conn[r]

(* Connections do not pile up and none is lost for the others: besides     *)
(* those of the requests under way there is at most one, idle and ready    *)
(* for the next request.                                                   *)
PoolBounded ==
  /\ \A c, d \in Idle : c = d
  /\ \A c \in pool \ Idle : \E r \in Active : conn[r] = c

(* A request that succeeds was given its own answer, whole or not, and     *)
(* nothing of an earlier one: an answer that an error or a timer cut short *)
(* is never left on a connection that goes back to the pool.  What does go *)
(* back with bytes to come is a success cut short (cutShort), by a server  *)
(* that gives no framing, by the loss of what is read ahead of a chunk, or *)
(* by a garbled header; that request still has nothing but its own answer, *)
(* and only after it this is promised no more.                             *)
OwnAnswer ==
  \A r \in Requests :
    pc[r] = "answered" /\ ~failed[r] /\ cutShort \subseteq {r}
      => got[r] = {r}

(* The client sends a request a second time by itself, never a third.      *)
SentAtMostTwice == \A r \in Requests : sent[r] <= 2

(* The callback of every request runs once: concurrent_requests_ counts    *)
(* the requests that wait for theirs.                                      *)
CallbackOnce == concurrent = Cardinality({r \in Requests : pc[r] \notin {"new", "done"}})

(* Whatever the server does, a request that does not end hangs in an       *)
(* operation that a cancel has missed: any other operation but the lookup  *)
(* has a timer, a cancelled one is not tried on a new connection, and      *)
(* retries run out.                                                        *)
EndsUnlessMissed == <>[](~up \/ \A r \in Requests : pc[r] = "done" \/ missed[r])

-----------------------------------------------------------------------------
(* The inductive invariant.                                                *)

HoldsConnection ==
  \A r \in Requests :
    /\ conn[r] = NoConnection <=> r \notin Active
    /\ aborted[r] \/ missed[r] => r \in Active

(* Only a connection that may not be replaced carries a request a second   *)
(* time.                                                                   *)
SentSoFar ==
  \A r \in Requests :
    /\ pc[r] \in {"new", "answered", "done"} => sent[r] = 0
    /\ pc[r] \in {"resolve", "connecting", "write"} =>
         sent[r] = 0 \/ (sent[r] = 1 /\ ~reconnect[conn[r]])
    /\ pc[r] = "header" => sent[r] = 1 \/ (sent[r] = 2 /\ ~reconnect[conn[r]])
    /\ pc[r] \in {"body", "chunk", "untilClosed"} => sent[r] \in {1, 2}

(* What is to come on a connection is the rest of an answer that its       *)
(* request still reads.                                                    *)
BeingRead(c) ==
  \E r \in Active :
    conn[r] = c /\ pc[r] \in {"body", "chunk", "untilClosed"} /\ stray[c] = {r}

(* Until an answer is cut short nothing is left on a connection but what a *)
(* request still reads of its own, and nothing is read but the own answer. *)
CleanStreams ==
  /\ cutShort = {} => \A c \in Connections : stray[c] = {} \/ BeingRead(c)
  /\ \A r \in cutShort : pc[r] = "done" \/ (pc[r] = "answered" /\ ~failed[r])
  /\ \A r \in Requests :
       cutShort \subseteq {r} =>
         /\ got[r] \subseteq {r}
         /\ pc[r] \in {"body", "chunk", "untilClosed"} \/ (pc[r] = "answered" /\ ~failed[r])
              => got[r] = {r}

IInv ==
  /\ TypeOK /\ HoldsConnection /\ ExclusiveConnection /\ PoolBounded
  /\ SentSoFar /\ CleanStreams /\ CallbackOnce

-----------------------------------------------------------------------------
(* The safe half of EndsUnlessMissed: an operation other than the lookup   *)
(* has been cancelled, the timer of its connection is running, a handler   *)
(* of that timer is queued, or its cancel has come and missed it.          *)
OperationsAreTimed ==
  \A r \in Active :
    aborted[r] \/ missed[r] \/ pc[r] = "resolve" \/ armed[conn[r]] \/ late[conn[r]] > 0

-----------------------------------------------------------------------------
(* The causes of an answer cut short are three: no framing, chunks, and a  *)
(* second attempt made with bytes of the first in the response.  Without   *)
(* them no request is ever given anything but its own answer.              *)

CleanRetries == [][\A r \in Requests : HeaderBroken(r) => got'[r] = got[r]]_vars

OnlyOwnBytes ==
  /\ cutShort = {}
  /\ \A r \in Requests : pc[r] = "answered" /\ ~failed[r] => got[r] = {r}

=============================================================================
