--------------------------- MODULE HttpClientProofs ---------------------------
(***************************************************************************)
(* What holds of the HTTP client for any number of requests, connections,  *)
(* retries and chunks and any set of framings: IInv (module HttpClient) is *)
(* inductive.  Requests never share a connection, the pool stays small, a  *)
(* request is written at most twice and is called back once; until an      *)
(* answer is cut short it is given its own.                                *)
(***************************************************************************)
EXTENDS HttpClient, FiniteSetTheorems, TLAPS

-----------------------------------------------------------------------------
(* The operators.                                                          *)

(* A new connection is nobody's.                                           *)
LEMMA NewConnectionUnused ==
  ASSUME NEW c \in NewConnection
  PROVE  c \in Connections /\ c \notin pool /\ \A r \in Requests : conn[r] # c
BY DEF NewConnection, Unused

(* Trimming keeps the connections in use and one of the others.            *)
LEMMA TrimmedKeepsOne ==
  ASSUME NEW left, NEW used, NEW p \in Trimmed(left, used)
  PROVE  /\ p \subseteq left
         /\ \A c \in left : used[c] => c \in p
         /\ \A c, d \in p : ~used[c] /\ ~used[d] => c = d
BY DEF Trimmed

-----------------------------------------------------------------------------
(* Steps that leave the connections to those that hold them.               *)

LEMMA SameHolders ==
  ASSUME IInv, UNCHANGED <<conn, aborted, pool, inUse>>, Active' = Active,
         \A r \in Requests : missed'[r] => missed[r]
  PROVE  HoldsConnection' /\ ExclusiveConnection' /\ PoolBounded'
BY DEF IInv, HoldsConnection, ExclusiveConnection, PoolBounded, Idle

Waiting == {r \in Requests : pc[r] \notin {"new", "done"}}

LEMMA WaitingFinite == IsFiniteSet(Waiting)
BY FS_Subset, RequestsAssumption DEF Waiting

LEMMA SameWaiting ==
  ASSUME IInv, UNCHANGED concurrent, Waiting' = Waiting
  PROVE  CallbackOnce'
BY DEF IInv, CallbackOnce, Waiting

(* A request goes from one operation to the next.                          *)
Moves(r, operation) ==
  /\ r \in Requests
  /\ pc[r] \in Pending
  /\ operation \in Pending
  /\ pc' = [pc EXCEPT ![r] = operation]

LEMMA MovesActive ==
  ASSUME IInv, NEW r, NEW operation, Moves(r, operation)
  PROVE  /\ pc' \in [Requests -> Pending \cup {"new", "answered", "done"}]
         /\ pc'[r] = operation
         /\ \A q \in Requests \ {r} : pc'[q] = pc[q]
         /\ Active' = Active /\ Waiting' = Waiting
         /\ r \in Active
<1>1. /\ pc' \in [Requests -> Pending \cup {"new", "answered", "done"}]
      /\ pc'[r] = operation
      /\ \A q \in Requests \ {r} : pc'[q] = pc[q]
  BY DEF Moves, IInv, TypeOK
<1>2. Active' = Active /\ r \in Active
  BY <1>1 DEF Active, Moves
<1>3. Waiting' = Waiting
  BY <1>1 DEF Waiting, Moves, Pending
<1> QED
  BY <1>1, <1>2, <1>3

LEMMA StartStep ==
  ASSUME IInv, NEW r \in Requests, NEW operation \in Pending, pc[r] \in Pending,
         Start(r, operation), UNCHANGED concurrent
  PROVE  /\ Moves(r, operation)
         /\ armed' \in [Connections -> BOOLEAN]
         /\ missed' \in [Requests -> BOOLEAN]
         /\ HoldsConnection' /\ ExclusiveConnection' /\ PoolBounded' /\ CallbackOnce'
<1>1. Moves(r, operation)
  BY DEF Start, Moves
<1>2. armed' \in [Connections -> BOOLEAN]
  BY DEF Start, SetTimeout, IInv, TypeOK
<1>5. missed' = [missed EXCEPT ![r] = FALSE] /\ missed \in [Requests -> BOOLEAN]
  BY DEF Start, IInv, TypeOK
<1>6. missed' \in [Requests -> BOOLEAN]
  BY <1>5, Zenon
<1>7. \A q \in Requests : missed'[q] => missed[q]
  BY <1>5
<1>3. HoldsConnection' /\ ExclusiveConnection' /\ PoolBounded'
  BY <1>1, <1>7, MovesActive, SameHolders DEF Start
<1>4. CallbackOnce'
  BY <1>1, MovesActive, SameWaiting
<1> QED
  BY <1>1, <1>2, <1>3, <1>4, <1>6

-----------------------------------------------------------------------------
(* The answer or the error is there and the connection goes back.          *)

Sockets == [Connections -> {"closed", "open", "peerClosed"}]

Streams == [Connections -> SUBSET Requests]

LEMMA ReleaseRequest ==
  ASSUME IInv, NEW r \in Active, NEW error \in BOOLEAN, NEW sockets \in Sockets,
         NEW strays \in Streams, Release(r, error, sockets, strays)
  PROVE  /\ pc' \in [Requests -> Pending \cup {"new", "answered", "done"}]
         /\ conn' \in [Requests -> Connections \cup {NoConnection}]
         /\ failed' \in [Requests -> BOOLEAN]
         /\ sent' \in [Requests -> Nat]
         /\ chunks' \in [Requests -> 0 .. MaxChunks]
         /\ aborted' \in [Requests -> BOOLEAN]
         /\ missed' \in [Requests -> BOOLEAN]
         /\ pc'[r] = "answered" /\ conn'[r] = NoConnection
         /\ failed'[r] = error /\ sent'[r] = 0
         /\ \A q \in Requests \ {r} :
              /\ pc'[q] = pc[q] /\ conn'[q] = conn[q]
              /\ failed'[q] = failed[q] /\ sent'[q] = sent[q]
              /\ aborted'[q] = aborted[q] /\ missed'[q] = missed[q]
         /\ ~aborted'[r] /\ ~missed'[r]
         /\ Active' = Active \ {r} /\ Waiting' = Waiting
<1> USE DEF IInv, TypeOK
<1>1. r \in Requests /\ pc[r] \in Pending
  BY DEF Active
<1>2. /\ pc' = [pc EXCEPT ![r] = "answered"]
      /\ conn' = [conn EXCEPT ![r] = NoConnection]
      /\ failed' = [failed EXCEPT ![r] = error]
      /\ sent' = [sent EXCEPT ![r] = 0]
      /\ chunks' = [chunks EXCEPT ![r] = 0]
      /\ aborted' = [aborted EXCEPT ![r] = FALSE]
      /\ missed' = [missed EXCEPT ![r] = FALSE]
  BY DEF Release
<1>3. /\ pc' \in [Requests -> Pending \cup {"new", "answered", "done"}]
      /\ conn' \in [Requests -> Connections \cup {NoConnection}]
      /\ sent' \in [Requests -> Nat]
  <2>1. pc' \in [Requests -> Pending \cup {"new", "answered", "done"}]
    BY <1>2
  <2>2. conn' \in [Requests -> Connections \cup {NoConnection}]
    BY <1>2
  <2>3. sent' \in [Requests -> Nat]
    BY <1>2
  <2> QED
    BY <2>1, <2>2, <2>3
<1>6. /\ failed' \in [Requests -> BOOLEAN] /\ aborted' \in [Requests -> BOOLEAN]
      /\ missed' \in [Requests -> BOOLEAN]
  <2>1. failed' \in [Requests -> BOOLEAN]
    BY <1>2, Zenon
  <2>2. aborted' \in [Requests -> BOOLEAN]
    BY <1>2, Zenon
  <2>3. missed' \in [Requests -> BOOLEAN]
    BY <1>2, Zenon
  <2> QED
    BY <2>1, <2>2, <2>3
<1>7. chunks' \in [Requests -> 0 .. MaxChunks]
  <2>1. 0 \in 0 .. MaxChunks
    BY BoundsAssumption
  <2> QED
    BY <1>2, <2>1, Zenon
<1>4. /\ pc'[r] = "answered" /\ conn'[r] = NoConnection
      /\ failed'[r] = error /\ sent'[r] = 0
      /\ \A q \in Requests \ {r} :
           /\ pc'[q] = pc[q] /\ conn'[q] = conn[q]
           /\ failed'[q] = failed[q] /\ sent'[q] = sent[q]
  BY <1>1, <1>2
<1>8. /\ ~aborted'[r] /\ ~missed'[r]
      /\ \A q \in Requests \ {r} : aborted'[q] = aborted[q] /\ missed'[q] = missed[q]
  BY <1>1, <1>2
<1>5. Active' = Active \ {r} /\ Waiting' = Waiting
  BY <1>1, <1>4 DEF Active, Waiting, Pending
<1> QED
  BY <1>3, <1>4, <1>5, <1>6, <1>7, <1>8

LEMMA ReleaseConnection ==
  ASSUME IInv, NEW r \in Active, NEW error \in BOOLEAN, NEW sockets \in Sockets,
         NEW strays \in Streams, Release(r, error, sockets, strays)
  PROVE  /\ pool' \subseteq pool
         /\ inUse' = [inUse EXCEPT ![conn[r]] = FALSE]
         /\ inUse' \in [Connections -> BOOLEAN]
         /\ armed' \in [Connections -> BOOLEAN]
         /\ socket' \in Sockets
         /\ stray' \in Streams
         /\ \A c \in pool : c # conn[r] /\ inUse[c] => c \in pool'
         /\ \A c, d \in Idle' : c = d
         /\ \A c \in Connections :
              stray'[c] = {} \/ (stray'[c] = strays[c] /\ (error => c # conn[r]))
<1> USE DEF IInv, TypeOK
<1>1. conn[r] \in Connections /\ conn[r] \in pool
  BY DEF ExclusiveConnection
<1>2. pool' \in Trimmed(Remaining(conn[r], error), inUse')
  BY DEF Release
<1>3. /\ inUse' = [inUse EXCEPT ![conn[r]] = FALSE]
      /\ inUse' \in [Connections -> BOOLEAN]
      /\ armed' \in [Connections -> BOOLEAN]
  BY DEF Release
<1>4. Remaining(conn[r], error) = IF error THEN pool \ {conn[r]} ELSE pool
  BY DEF Remaining
<1>5. /\ pool' \subseteq Remaining(conn[r], error)
      /\ \A c \in Remaining(conn[r], error) : inUse'[c] => c \in pool'
      /\ \A c, d \in pool' : ~inUse'[c] /\ ~inUse'[d] => c = d
  BY <1>2, TrimmedKeepsOne
<1>6. pool' \subseteq pool /\ (error => conn[r] \notin pool')
  BY <1>4, <1>5
<1>7. \A c \in pool : c # conn[r] /\ inUse[c] => c \in pool'
  BY <1>3, <1>4, <1>5
<1>8. \A c, d \in Idle' : c = d
  BY <1>5 DEF Idle
<1>9. socket' = Kept(sockets, "closed") /\ stray' = Kept(strays, {})
  BY DEF Release
<1>10. socket' \in Sockets /\ stray' \in Streams
  BY <1>9 DEF Kept, Sockets, Streams
<1>11. \A c \in Connections : stray'[c] = {} \/ (stray'[c] = strays[c] /\ c \in pool')
  BY <1>9 DEF Kept
<1> QED
  BY <1>3, <1>6, <1>7, <1>8, <1>10, <1>11

LEMMA ReleaseHolders ==
  ASSUME IInv, NEW r \in Active, NEW error \in BOOLEAN, NEW sockets \in Sockets,
         NEW strays \in Streams, Release(r, error, sockets, strays), UNCHANGED concurrent
  PROVE  HoldsConnection' /\ ExclusiveConnection' /\ PoolBounded' /\ CallbackOnce'
<1>1. /\ conn'[r] = NoConnection
      /\ \A q \in Requests \ {r} :
           conn'[q] = conn[q] /\ aborted'[q] = aborted[q] /\ missed'[q] = missed[q]
      /\ ~aborted'[r] /\ ~missed'[r]
      /\ Active' = Active \ {r} /\ Waiting' = Waiting
  BY ReleaseRequest
<1>2. /\ pool' \subseteq pool
      /\ inUse' = [inUse EXCEPT ![conn[r]] = FALSE]
      /\ \A c \in pool : c # conn[r] /\ inUse[c] => c \in pool'
      /\ \A c, d \in Idle' : c = d
  BY ReleaseConnection
<1>3. pool \subseteq Connections /\ inUse \in [Connections -> BOOLEAN] /\ Active \subseteq Requests
  BY DEF IInv, TypeOK, Active
<1>4. HoldsConnection'
  BY <1>1 DEF IInv, HoldsConnection
<1>5. ExclusiveConnection'
  BY <1>1, <1>2, <1>3 DEF IInv, ExclusiveConnection
<1>6. \A c \in pool' \ Idle' : \E q \in Active' : conn'[q] = c
  <2> SUFFICES ASSUME NEW c \in pool', c \notin Idle'
               PROVE  \E q \in Active' : conn'[q] = c
    OBVIOUS
  <2>1. c # conn[r] /\ c \in pool \ Idle
    BY <1>2, <1>3 DEF Idle
  <2>2. PICK q \in Active : conn[q] = c
    BY <2>1 DEF IInv, PoolBounded
  <2> QED
    BY <1>1, <1>3, <2>1, <2>2
<1>7. PoolBounded'
  BY <1>2, <1>6 DEF PoolBounded
<1>8. CallbackOnce'
  BY <1>1, SameWaiting
<1> QED
  BY <1>4, <1>5, <1>7, <1>8

(* What was read and what is left on the connections.                      *)
LEMMA ReleaseStreams ==
  ASSUME IInv, NEW r \in Active, NEW error \in BOOLEAN, NEW sockets \in Sockets,
         NEW strays \in Streams, Release(r, error, sockets, strays),
         \A q \in Requests \ {r} : got'[q] = got[q],
         cutShort' = cutShort \/ (cutShort' = cutShort \cup {r} /\ ~error),
         cutShort = {} => got'[r] \subseteq {r} /\ (~error => got'[r] = {r}),
         \A c \in Connections : c # conn[r] => strays[c] = stray[c],
         cutShort' = {} /\ ~error => strays[conn[r]] = {}
  PROVE  CleanStreams'
<1>1. r \in Requests /\ cutShort \subseteq Requests /\ r \notin cutShort
  BY DEF IInv, TypeOK, CleanStreams, Active, Pending
<1>2. /\ pc'[r] = "answered" /\ failed'[r] = error
      /\ \A q \in Requests \ {r} : pc'[q] = pc[q] /\ failed'[q] = failed[q]
  BY ReleaseRequest
<1>3. ASSUME cutShort' = {}, NEW c \in Connections, stray'[c] # {}
      PROVE  BeingRead(c)'
  <2>1. c # conn[r] /\ stray'[c] = stray[c] /\ stray[c] # {}
    BY <1>3, ReleaseConnection
  <2>2. cutShort = {}
    BY <1>3
  <2>3. PICK q \in Active :
          conn[q] = c /\ pc[q] \in {"body", "chunk", "untilClosed"} /\ stray[c] = {q}
    BY <2>1, <2>2 DEF IInv, CleanStreams, BeingRead
  <2>4. q \in Active' /\ q \in Requests \ {r}
    BY <2>1, <2>3, ReleaseRequest DEF Active
  <2>5. conn'[q] = c /\ pc'[q] = pc[q]
    BY <2>3, <2>4, ReleaseRequest
  <2> QED
    BY <2>1, <2>3, <2>4, <2>5 DEF BeingRead
<1>4. \A q \in cutShort' : pc'[q] = "done" \/ (pc'[q] = "answered" /\ ~failed'[q])
  BY <1>1, <1>2 DEF IInv, CleanStreams
<1>5. ASSUME NEW q \in Requests, cutShort' \subseteq {q}
      PROVE  /\ got'[q] \subseteq {q}
             /\ pc'[q] \in {"body", "chunk", "untilClosed"} \/ (pc'[q] = "answered" /\ ~failed'[q])
                  => got'[q] = {q}
  <2>1. CASE q = r
    <3>1. cutShort = {}
      BY <1>1, <1>5, <2>1
    <3> QED
      BY <1>2, <2>1, <3>1
  <2>2. CASE q # r
    BY <1>2, <1>5, <2>2 DEF IInv, CleanStreams
  <2> QED
    BY <2>1, <2>2
<1> QED
  BY <1>3, <1>4, <1>5 DEF CleanStreams

(* Nobody else's connection is marked, or loses its mark.                  *)
LEMMA OthersSent ==
  ASSUME IInv, NEW r \in Requests,
         \A q \in Requests \ {r} : pc'[q] = pc[q] /\ conn'[q] = conn[q] /\ sent'[q] = sent[q],
         \A q \in Active \ {r} : reconnect'[conn[q]] = reconnect[conn[q]],
         pc'[r] \in {"new", "answered", "done"} => sent'[r] = 0,
         pc'[r] \in {"resolve", "connecting", "write"} =>
           sent'[r] = 0 \/ (sent'[r] = 1 /\ ~reconnect'[conn'[r]]),
         pc'[r] = "header" => sent'[r] = 1 \/ (sent'[r] = 2 /\ ~reconnect'[conn'[r]]),
         pc'[r] \in {"body", "chunk", "untilClosed"} => sent'[r] \in {1, 2}
  PROVE  SentSoFar'
<1>1. ASSUME NEW q \in Requests, q # r
      PROVE  /\ pc'[q] \in {"new", "answered", "done"} => sent'[q] = 0
             /\ pc'[q] \in {"resolve", "connecting", "write"} =>
                  sent'[q] = 0 \/ (sent'[q] = 1 /\ ~reconnect'[conn'[q]])
             /\ pc'[q] = "header" => sent'[q] = 1 \/ (sent'[q] = 2 /\ ~reconnect'[conn'[q]])
             /\ pc'[q] \in {"body", "chunk", "untilClosed"} => sent'[q] \in {1, 2}
  BY <1>1 DEF IInv, SentSoFar, Active, Pending
<1> QED
  BY <1>1 DEF SentSoFar

LEMMA StartStreams ==
  ASSUME IInv, NEW r \in Requests, NEW operation \in Pending, Moves(r, operation),
         UNCHANGED <<failed, cutShort>>,
         \A q \in Requests \ {r} : got'[q] = got[q],
         cutShort = {} =>
           /\ got'[r] \subseteq {r}
           /\ operation \in {"body", "chunk", "untilClosed"} => got'[r] = {r},
         cutShort = {} => \A c \in Connections : stray'[c] = {} \/ BeingRead(c)'
  PROVE  CleanStreams'
<1>1. cutShort \subseteq Requests /\ r \notin cutShort
  BY DEF IInv, TypeOK, CleanStreams, Moves, Pending
<1>3. pc'[r] = operation /\ \A q \in Requests \ {r} : pc'[q] = pc[q]
  BY MovesActive
<1>4. \A q \in cutShort' : pc'[q] = "done" \/ (pc'[q] = "answered" /\ ~failed'[q])
  BY <1>1, <1>3 DEF IInv, CleanStreams
<1>5. ASSUME NEW q \in Requests, cutShort' \subseteq {q}
      PROVE  /\ got'[q] \subseteq {q}
             /\ pc'[q] \in {"body", "chunk", "untilClosed"} \/ (pc'[q] = "answered" /\ ~failed'[q])
                  => got'[q] = {q}
  <2>1. CASE q = r
    <3>1. cutShort = {}
      BY <1>1, <1>5, <2>1
    <3> QED
      BY <1>3, <2>1, <3>1 DEF Pending
  <2>2. CASE q # r
    BY <1>3, <1>5, <2>2 DEF IInv, CleanStreams
  <2> QED
    BY <2>1, <2>2
<1> QED
  BY <1>4, <1>5 DEF CleanStreams

(* A step before the answer, or to the next chunk.                         *)
LEMMA SameStreams ==
  ASSUME IInv, NEW r \in Requests, NEW operation \in Pending, Moves(r, operation),
         UNCHANGED <<conn, failed, got, stray, cutShort>>,
         \/ {pc[r], operation} \cap {"body", "chunk", "untilClosed"} = {}
         \/ pc[r] = "chunk" /\ operation = "chunk"
  PROVE  CleanStreams'
<1>1. /\ pc'[r] = operation /\ \A q \in Requests \ {r} : pc'[q] = pc[q]
      /\ Active' = Active
  BY MovesActive
<1>2. ASSUME NEW c \in Connections, BeingRead(c)
      PROVE  BeingRead(c)'
  BY <1>1, <1>2 DEF BeingRead, Active
<1>3. cutShort = {} => \A c \in Connections : stray'[c] = {} \/ BeingRead(c)'
  BY <1>2 DEF IInv, CleanStreams
<1>4. cutShort = {} =>
        /\ got[r] \subseteq {r}
        /\ pc[r] \in {"body", "chunk", "untilClosed"} => got[r] = {r}
  BY DEF IInv, CleanStreams
<1> QED
  BY <1>3, <1>4, StartStreams

(* On the connection of a request nothing is to come but what the request  *)
(* reads.                                                                  *)
LEMMA OwnStream ==
  ASSUME IInv, NEW r \in Active, cutShort = {}
  PROVE  /\ conn[r] \in Connections
         /\ stray[conn[r]] = {} \/ stray[conn[r]] = {r}
         /\ pc[r] \notin {"body", "chunk", "untilClosed"} => stray[conn[r]] = {}
         /\ got[r] \subseteq {r}
         /\ pc[r] \in {"body", "chunk", "untilClosed"} => got[r] = {r}
<1>1. r \in Requests /\ conn[r] \in Connections
  BY DEF Active, IInv, ExclusiveConnection, TypeOK
<1>2. ASSUME stray[conn[r]] # {}
      PROVE  stray[conn[r]] = {r} /\ pc[r] \in {"body", "chunk", "untilClosed"}
  <2>1. PICK q \in Active :
          /\ conn[q] = conn[r] /\ pc[q] \in {"body", "chunk", "untilClosed"}
          /\ stray[conn[r]] = {q}
    BY <1>1, <1>2 DEF IInv, CleanStreams, BeingRead
  <2>2. q = r
    BY <2>1 DEF IInv, ExclusiveConnection
  <2> QED
    BY <2>1, <2>2
<1> QED
  BY <1>1, <1>2 DEF IInv, CleanStreams

LEMMA ReleaseStep ==
  ASSUME IInv, NEW r \in Active, NEW error \in BOOLEAN, NEW sockets \in Sockets,
         NEW strays \in Streams, Release(r, error, sockets, strays),
         UNCHANGED <<retries, late, concurrent, up>>,
         reconnect' = reconnect \/ reconnect' = [reconnect EXCEPT ![conn[r]] = TRUE],
         got' \in [Requests -> SUBSET Requests],
         \A q \in Requests \ {r} : got'[q] = got[q],
         cutShort' = cutShort \/ (cutShort' = cutShort \cup {r} /\ ~error),
         cutShort = {} => got'[r] \subseteq {r} /\ (~error => got'[r] = {r}),
         \A c \in Connections : c # conn[r] => strays[c] = stray[c],
         cutShort' = {} /\ ~error => strays[conn[r]] = {}
  PROVE  IInv'
<1>1. r \in Requests /\ conn[r] \in Connections
  BY DEF Active, IInv, ExclusiveConnection, TypeOK
<1>2. HoldsConnection' /\ ExclusiveConnection' /\ PoolBounded' /\ CallbackOnce'
  BY ReleaseHolders
<1>3. reconnect' \in [Connections -> BOOLEAN]
  BY Zenon DEF IInv, TypeOK
<1>4. TypeOK'
  <2>1. /\ pc' \in [Requests -> Pending \cup {"new", "answered", "done"}]
        /\ conn' \in [Requests -> Connections \cup {NoConnection}]
        /\ failed' \in [Requests -> BOOLEAN]
        /\ sent' \in [Requests -> Nat]
        /\ chunks' \in [Requests -> 0 .. MaxChunks]
        /\ aborted' \in [Requests -> BOOLEAN]
        /\ missed' \in [Requests -> BOOLEAN]
    BY ReleaseRequest
  <2>2. /\ pool' \subseteq Connections
        /\ inUse' \in [Connections -> BOOLEAN]
        /\ armed' \in [Connections -> BOOLEAN]
        /\ socket' \in Sockets
        /\ stray' \in Streams
    BY ReleaseConnection DEF IInv, TypeOK
  <2>3. cutShort' \subseteq Requests
    BY <1>1 DEF IInv, TypeOK
  <2> QED
    BY <1>3, <2>1, <2>2, <2>3 DEF IInv, TypeOK, Sockets, Streams
<1>5. \A q \in Active \ {r} : reconnect'[conn[q]] = reconnect[conn[q]]
  BY <1>1 DEF IInv, TypeOK, ExclusiveConnection
<1>6. SentSoFar'
  BY <1>1, <1>5, ReleaseRequest, OthersSent
<1>7. CleanStreams'
  BY ReleaseStreams
<1> QED
  BY <1>2, <1>4, <1>6, <1>7 DEF IInv

-----------------------------------------------------------------------------
(* One lemma for each action.                                              *)

LEMMA ResolvedStep ==
  ASSUME IInv, NEW r \in Requests, Resolved(r)
  PROVE  IInv'
<1>1. pc[r] = "resolve" /\ Start(r, "connecting") /\ UNCHANGED <<concurrent, got, stray, cutShort>>
  BY DEF Resolved, Completes
<1>2. /\ Moves(r, "connecting")
      /\ armed' \in [Connections -> BOOLEAN]
      /\ missed' \in [Requests -> BOOLEAN]
      /\ HoldsConnection' /\ ExclusiveConnection' /\ PoolBounded' /\ CallbackOnce'
  BY <1>1, StartStep DEF Pending
<1>3. TypeOK'
  BY <1>1, <1>2, MovesActive, BoundsAssumption DEF Resolved, Start, IInv, TypeOK
<1>4. SentSoFar'
  BY <1>1, <1>2, MovesActive, OthersSent DEF Resolved, Start, IInv, SentSoFar
<1>5. CleanStreams'
  BY <1>1, <1>2, SameStreams DEF Start, Pending
<1> QED
  BY <1>2, <1>3, <1>4, <1>5 DEF IInv

LEMMA ConnectedStep ==
  ASSUME IInv, NEW r \in Requests, Connected(r)
  PROVE  IInv'
<1>1. pc[r] = "connecting" /\ Start(r, "write") /\ UNCHANGED <<concurrent, got, stray, cutShort>>
  BY DEF Connected, Completes
<1>2. /\ Moves(r, "write")
      /\ armed' \in [Connections -> BOOLEAN]
      /\ missed' \in [Requests -> BOOLEAN]
      /\ HoldsConnection' /\ ExclusiveConnection' /\ PoolBounded' /\ CallbackOnce'
  BY <1>1, StartStep DEF Pending
<1>3. TypeOK'
  BY <1>1, <1>2, MovesActive, BoundsAssumption DEF Connected, Start, IInv, TypeOK
<1>4. SentSoFar'
  BY <1>1, <1>2, MovesActive, OthersSent DEF Connected, Start, IInv, SentSoFar
<1>5. CleanStreams'
  BY <1>1, <1>2, SameStreams DEF Start, Pending
<1> QED
  BY <1>2, <1>3, <1>4, <1>5 DEF IInv

LEMMA WrittenStep ==
  ASSUME IInv, NEW r \in Requests, Written(r)
  PROVE  IInv'
<1>1. pc[r] = "write" /\ Start(r, "header") /\ UNCHANGED <<concurrent, got, stray, cutShort>>
  BY DEF Written, Completes
<1>2. /\ Moves(r, "header")
      /\ armed' \in [Connections -> BOOLEAN]
      /\ missed' \in [Requests -> BOOLEAN]
      /\ HoldsConnection' /\ ExclusiveConnection' /\ PoolBounded' /\ CallbackOnce'
  BY <1>1, StartStep DEF Pending
<1>3. TypeOK'
  BY <1>1, <1>2, MovesActive, BoundsAssumption DEF Written, Start, IInv, TypeOK
<1>4. SentSoFar'
  <2>1. sent'[r] = sent[r] + 1 /\ \A q \in Requests \ {r} : sent'[q] = sent[q]
    BY DEF Written, IInv, TypeOK
  <2>2. sent[r] = 0 \/ (sent[r] = 1 /\ ~reconnect[conn[r]])
    BY <1>1 DEF IInv, SentSoFar
  <2> QED
    BY <1>1, <1>2, <2>1, <2>2, MovesActive, OthersSent DEF Written, Start
<1>5. CleanStreams'
  BY <1>1, <1>2, SameStreams DEF Start, Pending
<1> QED
  BY <1>2, <1>3, <1>4, <1>5 DEF IInv

LEMMA ChunkReadStep ==
  ASSUME IInv, NEW r \in Requests, ChunkRead(r)
  PROVE  IInv'
<1>1. pc[r] = "chunk" /\ Start(r, "chunk") /\ UNCHANGED <<concurrent, got, stray, cutShort>>
  BY DEF ChunkRead, Completes
<1>2. /\ Moves(r, "chunk")
      /\ armed' \in [Connections -> BOOLEAN]
      /\ missed' \in [Requests -> BOOLEAN]
      /\ HoldsConnection' /\ ExclusiveConnection' /\ PoolBounded' /\ CallbackOnce'
  BY <1>1, StartStep DEF Pending
<1>3. TypeOK'
  BY <1>1, <1>2, MovesActive, BoundsAssumption DEF ChunkRead, Start, IInv, TypeOK
<1>4. SentSoFar'
  BY <1>1, <1>2, MovesActive, OthersSent DEF ChunkRead, Start, IInv, SentSoFar
<1>5. CleanStreams'
  BY <1>1, <1>2, SameStreams DEF Start, Pending
<1> QED
  BY <1>2, <1>3, <1>4, <1>5 DEF IInv

(* The request fails: the connection is not used again.                    *)
LEMMA FailStep ==
  ASSUME IInv, NEW r \in Active, Fail(r), UNCHANGED <<retries, late, concurrent, up>>,
         reconnect' = reconnect \/ reconnect' = [reconnect EXCEPT ![conn[r]] = TRUE],
         got' \in [Requests -> SUBSET Requests],
         \A q \in Requests \ {r} : got'[q] = got[q],
         cutShort = {} => got'[r] \subseteq {r}
  PROVE  IInv'
<1> DEFINE strays == [stray EXCEPT ![conn[r]] = @ \cup {r}]
<1>1. r \in Requests
  BY DEF Active
<1>2. strays \in Streams /\ \A c \in Connections : c # conn[r] => strays[c] = stray[c]
  BY <1>1 DEF IInv, TypeOK, Streams
<1>3. socket \in Sockets
  BY DEF IInv, TypeOK, Sockets
<1>4. Release(r, TRUE, socket, strays) /\ UNCHANGED cutShort
  BY DEF Fail
<1> HIDE DEF strays
<1> QED
  BY <1>2, <1>3, <1>4, ReleaseStep

(* The answer is read: without cutShort nothing of it is to come.          *)
LEMMA AnsweredStep ==
  ASSUME IInv, NEW r \in Active, NEW sockets \in Sockets, NEW strays \in Streams,
         Answered(r, sockets, strays), UNCHANGED <<retries, late, concurrent, up>>,
         reconnect' = reconnect \/ reconnect' = [reconnect EXCEPT ![conn[r]] = TRUE],
         got' \in [Requests -> SUBSET Requests],
         \A q \in Requests \ {r} : got'[q] = got[q],
         cutShort = {} => got'[r] = {r},
         \A c \in Connections : c # conn[r] => strays[c] = stray[c]
  PROVE  IInv'
<1>1. Release(r, FALSE, sockets, strays)
  BY DEF Answered
<1>2. /\ cutShort' = cutShort \/ cutShort' = cutShort \cup {r}
      /\ cutShort' = {} => strays[conn[r]] = {}
  BY DEF Answered
<1> QED
  BY <1>1, <1>2, ReleaseStep

LEMMA BrokenStep ==
  ASSUME IInv, NEW r \in Requests, Broken(r) \/ Aborted(r)
  PROVE  IInv'
<1>1. r \in Active
  BY DEF Broken, Aborted, Active, IInv, HoldsConnection
<1>2. cutShort = {} => got[r] \subseteq {r}
  BY DEF IInv, CleanStreams
<1>3. /\ Fail(r) /\ UNCHANGED <<got, retries, late, concurrent, up>>
      /\ reconnect' = [reconnect EXCEPT ![conn[r]] = TRUE]
  BY DEF Broken, Aborted
<1>4. got' \in [Requests -> SUBSET Requests] /\ \A q \in Requests \ {r} : got'[q] = got[q]
  BY <1>3 DEF IInv, TypeOK
<1> QED
  BY <1>1, <1>2, <1>3, <1>4, FailStep

LEMMA BodyReadStep ==
  ASSUME IInv, NEW r \in Requests, BodyRead(r)
  PROVE  IInv'
<1>1. pc[r] = "body" /\ r \in Active
  BY DEF BodyRead, Completes, Active, Pending
<1>2. cutShort = {} => got[r] = {r}
  BY <1>1 DEF IInv, CleanStreams
<1>3. socket \in Sockets /\ stray \in Streams
  BY DEF IInv, TypeOK, Sockets, Streams
<1>4. /\ Answered(r, socket, stray)
      /\ UNCHANGED <<got, retries, reconnect, late, concurrent, up>>
  BY DEF BodyRead
<1>5. got' \in [Requests -> SUBSET Requests] /\ \A q \in Requests \ {r} : got'[q] = got[q]
  BY <1>4 DEF IInv, TypeOK
<1> QED
  BY <1>1, <1>2, <1>3, <1>4, <1>5, AnsweredStep

LEMMA ClosedReadStep ==
  ASSUME IInv, NEW r \in Requests, ClosedRead(r)
  PROVE  IInv'
<1> DEFINE sockets == [socket EXCEPT ![conn[r]] = "peerClosed"]
           strays == [stray EXCEPT ![conn[r]] = {}]
<1>1. pc[r] = "untilClosed" /\ r \in Active
  BY DEF ClosedRead, Completes, Active, Pending
<1>2. /\ Answered(r, sockets, strays)
      /\ got' = [got EXCEPT ![r] = @ \cup stray[conn[r]]]
      /\ UNCHANGED <<retries, reconnect, late, concurrent, up>>
  BY DEF ClosedRead
<1>3. conn[r] \in Connections /\ got \in [Requests -> SUBSET Requests] /\ stray \in Streams
  BY <1>1 DEF IInv, ExclusiveConnection, TypeOK, Streams
<1>4. /\ sockets \in Sockets /\ strays \in Streams
      /\ \A c \in Connections : c # conn[r] => strays[c] = stray[c]
  BY DEF IInv, TypeOK, Sockets, Streams
<1>5. /\ got' \in [Requests -> SUBSET Requests]
      /\ got'[r] = got[r] \cup stray[conn[r]]
      /\ \A q \in Requests \ {r} : got'[q] = got[q]
  BY <1>2, <1>3 DEF Streams
<1>6. cutShort = {} => got'[r] = {r}
  BY <1>1, <1>5, OwnStream
<1> HIDE DEF sockets, strays
<1> QED
  BY <1>1, <1>2, <1>4, <1>5, <1>6, AnsweredStep

LEMMA ChunksEndStep ==
  ASSUME IInv, NEW r \in Requests, ChunksEnd(r)
  PROVE  IInv'
<1> DEFINE strays(more) == [stray EXCEPT ![conn[r]] = @ \cup more]
<1>1. pc[r] = "chunk" /\ r \in Active
  BY DEF ChunksEnd, Completes, Active, Pending
<1>2. cutShort = {} => got[r] = {r}
  BY <1>1 DEF IInv, CleanStreams
<1>3. socket \in Sockets
  BY DEF IInv, TypeOK, Sockets
<1>4. UNCHANGED <<got, retries, reconnect, late, concurrent, up>>
  BY DEF ChunksEnd
<1>5. got' \in [Requests -> SUBSET Requests] /\ \A q \in Requests \ {r} : got'[q] = got[q]
  BY <1>4 DEF IInv, TypeOK
<1>6. ASSUME NEW more \in SUBSET {r}, Answered(r, socket, strays(more))
      PROVE  IInv'
  <2>1. strays(more) \in Streams /\ \A c \in Connections : c # conn[r] => strays(more)[c] = stray[c]
    BY DEF IInv, TypeOK, Streams
  <2> HIDE DEF strays
  <2> QED
    BY <1>1, <1>2, <1>3, <1>4, <1>5, <1>6, <2>1, AnsweredStep
<1>7. CASE Fail(r)
  BY <1>1, <1>2, <1>4, <1>5, <1>7, FailStep
<1> QED
  BY <1>6, <1>7 DEF ChunksEnd

(* The header is there and the rest of the answer is read.                 *)
LEMMA ReadOnStep ==
  ASSUME IInv, NEW r \in Requests, NEW operation \in {"body", "chunk", "untilClosed"},
         pc[r] = "header", Start(r, operation),
         UNCHANGED <<socket, sent, chunks, retries, late, concurrent, up, cutShort>>,
         reconnect' = [reconnect EXCEPT ![conn[r]] = TRUE],
         got' \in [Requests -> SUBSET Requests],
         \A q \in Requests \ {r} : got'[q] = got[q],
         stray' \in Streams,
         \A c \in Connections : c # conn[r] => stray'[c] = stray[c],
         cutShort = {} => got'[r] = {r} /\ stray'[conn[r]] \subseteq {r}
  PROVE  IInv'
<1>1. operation \in Pending /\ pc[r] \in Pending /\ r \in Active
  BY DEF Pending, Active
<1>2. /\ Moves(r, operation)
      /\ armed' \in [Connections -> BOOLEAN]
      /\ missed' \in [Requests -> BOOLEAN]
      /\ HoldsConnection' /\ ExclusiveConnection' /\ PoolBounded' /\ CallbackOnce'
  BY <1>1, StartStep
<1>3. TypeOK'
  <2>1. reconnect' \in [Connections -> BOOLEAN]
    BY Zenon DEF IInv, TypeOK
  <2> QED
    BY <1>2, <2>1, MovesActive DEF Start, IInv, TypeOK, Streams
<1>4. SentSoFar'
  <2>1. sent[r] \in {1, 2}
    BY DEF IInv, SentSoFar
  <2>2. \A q \in Active \ {r} : reconnect'[conn[q]] = reconnect[conn[q]]
    BY <1>1 DEF IInv, TypeOK, ExclusiveConnection
  <2> QED
    BY <1>2, <2>1, <2>2, MovesActive, OthersSent DEF Start
<1>5. CleanStreams'
  <2>1. /\ pc'[r] = operation /\ \A q \in Requests \ {r} : pc'[q] = pc[q]
        /\ Active' = Active /\ UNCHANGED <<conn, failed>>
    BY <1>2, MovesActive DEF Start
  <2>2. ASSUME cutShort = {}, NEW c \in Connections, stray'[c] # {}
        PROVE  BeingRead(c)'
    <3>1. CASE c = conn[r]
      BY <1>1, <2>1, <2>2, <3>1 DEF BeingRead
    <3>2. CASE c # conn[r]
      <4>1. PICK q \in Active :
              conn[q] = c /\ pc[q] \in {"body", "chunk", "untilClosed"} /\ stray[c] = {q}
        BY <2>2, <3>2 DEF IInv, CleanStreams, BeingRead
      <4>2. q \in Requests \ {r}
        BY <3>2, <4>1 DEF Active
      <4> QED
        BY <2>1, <3>2, <4>1, <4>2 DEF BeingRead
    <3> QED
      BY <3>1, <3>2
  <2> QED
    BY <1>1, <1>2, <2>1, <2>2, StartStreams
<1> QED
  BY <1>2, <1>3, <1>4, <1>5 DEF IInv

LEMMA HeaderReadStep ==
  ASSUME IInv, NEW r \in Requests, HeaderRead(r)
  PROVE  IInv'
<1> DEFINE c == conn[r]
           Rest(bytes, more) == [stray EXCEPT ![c] = ((@ \cup {r}) \ bytes) \cup more]
<1>1. pc[r] = "header" /\ r \in Active
  BY DEF HeaderRead, Completes, Active, Pending
<1>2. c \in Connections
  BY <1>1 DEF IInv, ExclusiveConnection, TypeOK
<1>3. /\ reconnect' = [reconnect EXCEPT ![c] = TRUE]
      /\ UNCHANGED <<retries, late, concurrent, up>>
  BY DEF HeaderRead
<1>4. PICK bytes \in HeaderBytes(r) :
        /\ got' = [got EXCEPT ![r] = @ \cup bytes]
        /\ \/ \E framing \in Framings(r) : \E more \in LeftOver(r, framing, bytes) :
                \/ Answered(r, socket, Rest(bytes, more))
                \/ /\ framing \in DOMAIN Reading
                   /\ Start(r, Reading[framing])
                   /\ stray' = Rest(bytes, more)
                   /\ UNCHANGED <<socket, sent, chunks, cutShort>>
           \/ Fail(r)
  BY DEF HeaderRead
<1>5. bytes \in SUBSET Requests
  BY <1>2 DEF HeaderBytes, IInv, TypeOK
<1>6. /\ got' \in [Requests -> SUBSET Requests] /\ got'[r] = got[r] \cup bytes
      /\ \A q \in Requests \ {r} : got'[q] = got[q]
  BY <1>4, <1>5 DEF IInv, TypeOK
<1>7. socket \in Sockets
  BY DEF IInv, TypeOK, Sockets
<1>8. cutShort = {} => bytes = {r} /\ stray[c] = {} /\ got'[r] = {r}
  BY <1>1, <1>6, OwnStream DEF HeaderBytes
<1>9. ASSUME NEW framing, NEW more \in LeftOver(r, framing, bytes)
      PROVE  /\ Rest(bytes, more) \in Streams
             /\ \A d \in Connections : d # c => Rest(bytes, more)[d] = stray[d]
             /\ cutShort = {} => Rest(bytes, more)[c] \subseteq {r}
  <2>1. more \subseteq bytes
    BY DEF LeftOver
  <2>2. stray \in [Connections -> SUBSET Requests]
    BY DEF IInv, TypeOK
  <2> QED
    BY <1>2, <1>5, <1>8, <2>1, <2>2 DEF Streams
<1> HIDE DEF c, Rest
<1>10. ASSUME NEW framing \in Framings(r), NEW more \in LeftOver(r, framing, bytes),
              Answered(r, socket, Rest(bytes, more))
       PROVE  IInv'
  <2>1. /\ Rest(bytes, more) \in Streams
        /\ \A d \in Connections : d # conn[r] => Rest(bytes, more)[d] = stray[d]
    BY <1>9, <1>10 DEF c
  <2>2. reconnect' = [reconnect EXCEPT ![conn[r]] = TRUE] /\ (cutShort = {} => got'[r] = {r})
    BY <1>3, <1>8 DEF c
  <2> QED
    BY <1>1, <1>3, <1>6, <1>7, <1>10, <2>1, <2>2, AnsweredStep
<1>11. ASSUME NEW framing \in DOMAIN Reading, NEW more \in LeftOver(r, framing, bytes),
              Start(r, Reading[framing]), stray' = Rest(bytes, more),
              UNCHANGED <<socket, sent, chunks, cutShort>>
       PROVE  IInv'
  <2>1. Reading[framing] \in {"body", "chunk", "untilClosed"}
    BY <1>11 DEF Reading
  <2>2. /\ stray' \in Streams
        /\ \A d \in Connections : d # conn[r] => stray'[d] = stray[d]
        /\ cutShort = {} => stray'[conn[r]] \subseteq {r}
    BY <1>9, <1>11 DEF c
  <2>3. reconnect' = [reconnect EXCEPT ![conn[r]] = TRUE] /\ (cutShort = {} => got'[r] = {r})
    BY <1>3, <1>8 DEF c
  <2> QED
    BY <1>1, <1>3, <1>6, <1>11, <2>1, <2>2, <2>3, ReadOnStep
<1>12. CASE Fail(r)
  BY <1>1, <1>3, <1>6, <1>8, <1>12, FailStep DEF c
<1> QED
  BY <1>4, <1>10, <1>11, <1>12

LEMMA BadLengthStep ==
  ASSUME IInv, NEW r \in Requests, BadLength(r)
  PROVE  IInv'
<1>1. UNCHANGED <<pc, conn, failed, sent, got, chunks, aborted, missed, retries, pool, inUse, reconnect,
                  socket, armed, late, stray, concurrent, cutShort>> /\ up' = FALSE
  BY DEF BadLength, requestVars, connectionVars
<1>2. Active' = Active /\ CleanStreams'
  BY <1>1 DEF IInv, CleanStreams, BeingRead, Active
<1>3. TypeOK'
  BY <1>1 DEF IInv, TypeOK
<1> QED
  BY <1>1, <1>2, <1>3 DEF IInv, HoldsConnection, ExclusiveConnection, PoolBounded, SentSoFar,
    CallbackOnce, Idle

(* The connection breaks before the header has come: the new connection    *)
(* takes the place of the old one.                                         *)
LEMMA HeaderBrokenStep ==
  ASSUME IInv, NEW r \in Requests, HeaderBroken(r)
  PROVE  IInv'
<1> DEFINE c == conn[r]
<1>1. pc[r] = "header" /\ ~aborted[r] /\ r \in Active
  BY DEF HeaderBroken, Completes, Active, Pending
<1>2. c \in Connections /\ c \in pool
  BY <1>1 DEF IInv, ExclusiveConnection, TypeOK
<1>3. UNCHANGED <<retries, late, concurrent, up>>
  BY DEF HeaderBroken
<1>4. CASE reconnect[c]
  <2>1. PICK d \in NewConnection :
          /\ pool' = (pool \ {c}) \cup {d}
          /\ conn' = [conn EXCEPT ![r] = d]
          /\ reconnect' = [reconnect EXCEPT ![c] = TRUE, ![d] = SecondConnection.reconnect]
          /\ inUse' = [inUse EXCEPT ![c] = FALSE, ![d] = SecondConnection.inUse]
          /\ pc' = [pc EXCEPT ![r] = "resolve"]
          /\ armed' = [armed EXCEPT ![c] = FALSE, ![d] = TRUE]
    BY <1>2, <1>4 DEF HeaderBroken
  <2>2. PICK bytes \in {{}} \cup HeaderBytes(r) : got' = [got EXCEPT ![r] = @ \cup bytes]
    BY <1>2, <1>4 DEF HeaderBroken
  <2>3. /\ socket' = Kept(socket, "closed")
        /\ stray' = Kept(stray, {})
        /\ missed' = [missed EXCEPT ![r] = FALSE]
        /\ UNCHANGED <<failed, aborted, sent, chunks, cutShort>>
    BY <1>2, <1>4 DEF HeaderBroken
  <2>4. d \in Connections /\ d \notin pool /\ (\A q \in Requests : conn[q] # d) /\ d # c
    BY <1>2, NewConnectionUnused
  <2>5. /\ Moves(r, "resolve")
        /\ pc' \in [Requests -> Pending \cup {"new", "answered", "done"}]
        /\ pc'[r] = "resolve"
        /\ \A q \in Requests \ {r} : pc'[q] = pc[q]
        /\ Active' = Active /\ Waiting' = Waiting
    <3>1. Moves(r, "resolve")
      BY <1>1, <2>1 DEF Moves, Pending
    <3> QED
      BY <3>1, MovesActive
  <2>6. conn'[r] = d /\ \A q \in Requests \ {r} : conn'[q] = conn[q]
    BY <2>1 DEF IInv, TypeOK
  <2>7. /\ inUse' = [inUse EXCEPT ![c] = FALSE, ![d] = TRUE]
        /\ reconnect' = [reconnect EXCEPT ![c] = TRUE, ![d] = FALSE]
    BY <2>1 DEF SecondConnection
  <2>8. /\ inUse'[d] /\ ~reconnect'[d]
        /\ \A e \in Connections \ {c, d} : inUse'[e] = inUse[e] /\ reconnect'[e] = reconnect[e]
    BY <2>4, <2>7 DEF IInv, TypeOK
  <2>9. TypeOK'
    <3>1. inUse' \in [Connections -> BOOLEAN] /\ reconnect' \in [Connections -> BOOLEAN]
      BY <2>7, Zenon DEF IInv, TypeOK
    <3>2. armed' \in [Connections -> BOOLEAN]
      BY <2>1, Zenon DEF IInv, TypeOK
    <3>3. bytes \in SUBSET Requests
      BY <1>2, <2>2 DEF HeaderBytes, IInv, TypeOK
    <3>4. got' \in [Requests -> SUBSET Requests]
      BY <2>2, <3>3 DEF IInv, TypeOK
    <3>5. /\ socket' \in [Connections -> {"closed", "open", "peerClosed"}]
          /\ stray' \in [Connections -> SUBSET Requests]
      BY <2>3 DEF Kept, IInv, TypeOK
    <3>6. conn' \in [Requests -> Connections \cup {NoConnection}] /\ pool' \subseteq Connections
      BY <2>1, <2>4 DEF IInv, TypeOK
    <3>7. missed' \in [Requests -> BOOLEAN]
      BY <2>3, Zenon DEF IInv, TypeOK
    <3> QED
      BY <1>3, <2>3, <2>5, <3>1, <3>2, <3>4, <3>5, <3>6, <3>7 DEF IInv, TypeOK
  <2>10. HoldsConnection'
    <3>1. \A q \in Requests : missed'[q] => missed[q]
      BY <2>3 DEF IInv, TypeOK
    <3> QED
      BY <1>1, <2>3, <2>4, <2>5, <2>6, <3>1, ConnectionsAssumption DEF IInv, HoldsConnection
  <2>11. ExclusiveConnection'
    <3>1. Active \subseteq Requests /\ pool \subseteq Connections
      BY DEF Active, IInv, TypeOK
    <3>2. \A q \in Active \ {r} : conn[q] # c /\ conn[q] # d /\ conn[q] \in pool /\ inUse[conn[q]]
      BY <1>1, <2>4, <3>1 DEF IInv, ExclusiveConnection
    <3>3. ASSUME NEW q \in Active \ {r}
          PROVE  conn'[q] \in pool' /\ inUse'[conn'[q]] /\ conn'[q] # d
      <4>1. conn'[q] = conn[q]
        BY <2>6, <3>1
      <4>2. conn[q] \in Connections \ {c, d} /\ conn[q] \in pool /\ inUse[conn[q]]
        BY <3>1, <3>2
      <4>3. conn[q] \in pool' /\ inUse'[conn[q]]
        BY <2>1, <2>8, <4>2
      <4> QED
        BY <4>1, <4>2, <4>3
    <3>4. conn'[r] \in pool' /\ inUse'[conn'[r]]
      BY <2>1, <2>6, <2>8
    <3>5. \A q, p \in Active \ {r} : q # p => conn'[q] # conn'[p]
      BY <2>6, <3>1 DEF IInv, ExclusiveConnection
    <3> QED
      BY <2>5, <2>6, <3>3, <3>4, <3>5 DEF ExclusiveConnection
  <2>12. PoolBounded'
    <3>1. pool \subseteq Connections
      BY DEF IInv, TypeOK
    <3>2. Idle' \subseteq Idle
      BY <2>1, <2>8, <3>1 DEF Idle
    <3>3. ASSUME NEW e \in pool', e \notin Idle'
          PROVE  \E q \in Active' : conn'[q] = e
      <4>1. CASE e = d
        BY <1>1, <2>5, <2>6, <4>1
      <4>2. CASE e # d
        <5>1. e \in pool \ Idle /\ e # c
          BY <2>1, <2>8, <3>1, <3>3, <4>2 DEF Idle
        <5>2. PICK q \in Active : conn[q] = e
          BY <5>1 DEF IInv, PoolBounded
        <5> QED
          BY <2>5, <2>6, <5>1, <5>2 DEF Active
      <4> QED
        BY <4>1, <4>2
    <3> QED
      BY <3>2, <3>3 DEF IInv, PoolBounded
  <2>13. CallbackOnce'
    BY <1>3, <2>5, SameWaiting
  <2>14. SentSoFar'
    <3>1. \A q \in Active \ {r} : reconnect'[conn[q]] = reconnect[conn[q]]
      BY <1>1, <2>4, <2>8 DEF IInv, ExclusiveConnection, TypeOK, Active
    <3>2. sent[r] = 1
      BY <1>1, <1>4 DEF IInv, SentSoFar
    <3> QED
      BY <2>3, <2>5, <2>6, <2>8, <3>1, <3>2, OthersSent
  <2>15. CleanStreams'
    <3>1. ASSUME cutShort = {}, NEW e \in Connections, stray'[e] # {}
          PROVE  BeingRead(e)'
      <4>1. stray'[e] = stray[e] /\ e # c
        BY <2>1, <2>3, <2>4, <3>1 DEF Kept
      <4>2. PICK q \in Active :
              conn[q] = e /\ pc[q] \in {"body", "chunk", "untilClosed"} /\ stray[e] = {q}
        BY <3>1, <4>1 DEF IInv, CleanStreams, BeingRead
      <4>3. q \in Requests \ {r}
        BY <1>1, <4>2 DEF Active
      <4> QED
        BY <2>5, <2>6, <4>1, <4>2, <4>3 DEF BeingRead
    <3>2. cutShort = {} => got'[r] \subseteq {r}
      <4>1. got'[r] = got[r] \cup bytes
        BY <2>2 DEF IInv, TypeOK
      <4>2. cutShort = {} => got[r] \subseteq {r} /\ bytes \subseteq {r}
        BY <1>1, <2>2, OwnStream DEF HeaderBytes
      <4> QED
        BY <4>1, <4>2
    <3>3. \A q \in Requests \ {r} : got'[q] = got[q]
      BY <2>2 DEF IInv, TypeOK
    <3>4. "resolve" \in Pending /\ "resolve" \notin {"body", "chunk", "untilClosed"}
      BY DEF Pending
    <3> QED
      BY <1>3, <2>3, <2>5, <3>1, <3>2, <3>3, <3>4, StartStreams
  <2> QED
    BY <2>9, <2>10, <2>11, <2>12, <2>13, <2>14, <2>15 DEF IInv
<1>5. CASE ~reconnect[c]
  <2>1. Fail(r) /\ reconnect' = [reconnect EXCEPT ![c] = TRUE] /\ UNCHANGED got
    BY <1>5 DEF HeaderBroken
  <2>2. got' \in [Requests -> SUBSET Requests] /\ \A q \in Requests \ {r} : got'[q] = got[q]
    BY <2>1 DEF IInv, TypeOK
  <2>3. cutShort = {} => got'[r] \subseteq {r}
    BY <2>1 DEF IInv, CleanStreams
  <2> QED
    BY <1>1, <1>3, <2>1, <2>2, <2>3, FailStep
<1> QED
  BY <1>4, <1>5

LEMMA SendRequestStep ==
  ASSUME IInv, NEW r \in Requests, SendRequest(r)
  PROVE  IInv'
<1>1. pc[r] = "new" /\ r \notin Active /\ r \notin Waiting
  BY DEF SendRequest, Active, Pending, Waiting
<1>2. PICK c \in IF Idle # {} THEN Idle ELSE NewConnection :
        /\ conn' = [conn EXCEPT ![r] = c]
        /\ pool' = pool \cup {c}
        /\ reconnect' = [reconnect EXCEPT ![c] = TRUE]
        /\ inUse' = [inUse EXCEPT ![c] = TRUE]
        /\ pc' = [pc EXCEPT ![r] = FirstOperation(c)]
        /\ armed' = SetTimeout(c)
  BY DEF SendRequest
<1>3. /\ UNCHANGED <<failed, sent, got, chunks, aborted, missed, retries, socket, late, stray,
                     up, cutShort>>
      /\ concurrent' = concurrent + 1
  BY DEF SendRequest
<1>4. c \in Connections /\ \A q \in Active : conn[q] # c
  <2>1. CASE c \in Idle
    BY <2>1 DEF Idle, IInv, TypeOK, ExclusiveConnection
  <2>2. CASE c \in NewConnection
    BY <2>2, NewConnectionUnused DEF Active
  <2> QED
    BY <1>2, <2>1, <2>2
<1>5. FirstOperation(c) \in {"resolve", "write"}
  BY DEF FirstOperation
<1>6. pc'[r] = FirstOperation(c) /\ \A q \in Requests \ {r} : pc'[q] = pc[q]
  BY <1>2 DEF IInv, TypeOK
<1>7. conn'[r] = c /\ \A q \in Requests \ {r} : conn'[q] = conn[q]
  BY <1>2 DEF IInv, TypeOK
<1>8. /\ inUse'[c]
      /\ \A e \in Connections \ {c} : inUse'[e] = inUse[e] /\ reconnect'[e] = reconnect[e]
  BY <1>2, <1>4 DEF IInv, TypeOK
<1>9. Active' = Active \cup {r} /\ Waiting' = Waiting \cup {r}
  BY <1>1, <1>5, <1>6 DEF Active, Waiting, Pending
<1>10. Active \subseteq Requests /\ pool \subseteq Connections
  BY DEF Active, IInv, TypeOK
<1>11. TypeOK'
  <2>1. inUse' \in [Connections -> BOOLEAN] /\ reconnect' \in [Connections -> BOOLEAN]
    BY <1>2, Zenon DEF IInv, TypeOK
  <2>2. armed' \in [Connections -> BOOLEAN]
    BY <1>2, Zenon DEF SetTimeout, IInv, TypeOK
  <2>3. pc' \in [Requests -> Pending \cup {"new", "answered", "done"}]
    BY <1>2, <1>5 DEF IInv, TypeOK, Pending
  <2>4. conn' \in [Requests -> Connections \cup {NoConnection}] /\ pool' \subseteq Connections
    BY <1>2, <1>4, <1>10 DEF IInv, TypeOK
  <2> QED
    BY <1>3, <2>1, <2>2, <2>3, <2>4 DEF IInv, TypeOK
<1>12. HoldsConnection'
  BY <1>3, <1>4, <1>7, <1>9, ConnectionsAssumption DEF IInv, HoldsConnection
<1>13. ExclusiveConnection'
  <2>1. ASSUME NEW q \in Active
        PROVE  conn'[q] \in pool' /\ inUse'[conn'[q]] /\ conn'[q] # c
    <3>1. conn'[q] = conn[q]
      BY <1>1, <1>7, <1>10
    <3>2. conn[q] \in Connections \ {c} /\ conn[q] \in pool /\ inUse[conn[q]]
      BY <1>4, <1>10 DEF IInv, ExclusiveConnection
    <3>3. conn[q] \in pool' /\ inUse'[conn[q]]
      BY <1>2, <1>8, <3>2
    <3> QED
      BY <3>1, <3>2, <3>3
  <2>2. conn'[r] \in pool' /\ inUse'[conn'[r]]
    BY <1>2, <1>7, <1>8
  <2>3. \A q, p \in Active : q # p => conn'[q] # conn'[p]
    BY <1>1, <1>7, <1>10 DEF IInv, ExclusiveConnection
  <2> QED
    BY <1>7, <1>9, <2>1, <2>2, <2>3 DEF ExclusiveConnection
<1>14. PoolBounded'
  <2>1. Idle' \subseteq Idle
    BY <1>2, <1>8, <1>10 DEF Idle
  <2>2. ASSUME NEW e \in pool', e \notin Idle'
        PROVE  \E q \in Active' : conn'[q] = e
    <3>1. CASE e = c
      BY <1>7, <1>9, <3>1
    <3>2. CASE e # c
      <4>1. e \in pool \ Idle
        BY <1>2, <1>8, <1>10, <2>2, <3>2 DEF Idle
      <4>2. PICK q \in Active : conn[q] = e
        BY <4>1 DEF IInv, PoolBounded
      <4> QED
        BY <1>1, <1>7, <1>9, <1>10, <4>2
    <3> QED
      BY <3>1, <3>2
  <2> QED
    BY <2>1, <2>2 DEF IInv, PoolBounded
<1>15. CallbackOnce'
  <2>1. Cardinality(Waiting \cup {r}) = Cardinality(Waiting) + 1
    BY <1>1, WaitingFinite, FS_AddElement
  <2> QED
    BY <1>3, <1>9, <2>1 DEF IInv, CallbackOnce, Waiting
<1>16. SentSoFar'
  <2>1. \A q \in Active \ {r} : reconnect'[conn[q]] = reconnect[conn[q]]
    BY <1>4, <1>8, <1>10 DEF IInv, ExclusiveConnection
  <2>2. sent[r] = 0
    BY <1>1 DEF IInv, SentSoFar
  <2> QED
    BY <1>3, <1>5, <1>6, <1>7, <2>1, <2>2, OthersSent
<1>17. CleanStreams'
  <2>1. r \notin cutShort
    BY <1>1 DEF IInv, CleanStreams
  <2>2. \A q \in cutShort' : pc'[q] = "done" \/ (pc'[q] = "answered" /\ ~failed'[q])
    BY <1>3, <1>6, <2>1 DEF IInv, CleanStreams, TypeOK
  <2>3. ASSUME NEW q \in Requests, cutShort' \subseteq {q}
        PROVE  /\ got'[q] \subseteq {q}
               /\ pc'[q] \in {"body", "chunk", "untilClosed"} \/ (pc'[q] = "answered" /\ ~failed'[q])
                    => got'[q] = {q}
    <3>1. CASE q = r
      BY <1>3, <1>5, <1>6, <2>3, <3>1 DEF IInv, CleanStreams
    <3>2. CASE q # r
      BY <1>3, <1>6, <2>3, <3>2 DEF IInv, CleanStreams
    <3> QED
      BY <3>1, <3>2
  <2>4. ASSUME NEW e \in Connections, BeingRead(e)
        PROVE  BeingRead(e)'
    BY <1>1, <1>3, <1>6, <1>7, <1>9, <1>10, <2>4 DEF BeingRead
  <2> QED
    BY <1>3, <2>2, <2>3, <2>4 DEF IInv, CleanStreams
<1> QED
  BY <1>11, <1>12, <1>13, <1>14, <1>15, <1>16, <1>17 DEF IInv

LEMMA RequestCallbackStep ==
  ASSUME IInv, NEW r \in Requests, RequestCallback(r)
  PROVE  IInv'
<1>1. pc[r] = "answered" /\ r \notin Active /\ r \in Waiting
  BY DEF RequestCallback, Active, Pending, Waiting
<1>2. /\ concurrent' = concurrent - 1
      /\ failed' = [failed EXCEPT ![r] = FALSE]
      /\ got' = [got EXCEPT ![r] = {}]
      /\ UNCHANGED <<conn, sent, chunks, aborted, missed, pool, inUse, reconnect, socket, armed,
                     late, stray, up, cutShort>>
  BY DEF RequestCallback, CountCallback, connectionVars
<1>3. PICK place \in {"new", "done"} :
        /\ pc' = [pc EXCEPT ![r] = place]
        /\ place = "new" => failed[r]
  BY DEF RequestCallback, MayRetry
<1>4. retries' \in [Requests -> Nat] /\ \A q \in Requests : retries'[q] <= Retries[q]
  <2>1. CASE MayRetry(r)
    <3>1. retries' = [retries EXCEPT ![r] = retries[r] - 1] /\ retries[r] > 0
      BY <2>1 DEF MayRetry, RequestCallback
    <3>2. retries[r] - 1 \in Nat /\ r \in Requests /\ retries \in [Requests -> Nat]
      BY <3>1 DEF IInv, TypeOK
    <3>3. retries' \in [Requests -> Nat]
      BY <3>1, <3>2, Zenon
    <3>4. \A q \in Requests : retries'[q] = IF q = r THEN retries[r] - 1 ELSE retries[q]
      BY <3>1, <3>2
    <3>5. \A q \in Requests : retries[q] \in Nat /\ Retries[q] \in Nat /\ retries[q] <= Retries[q]
      BY BoundsAssumption DEF IInv, TypeOK
    <3>6. \A q \in Requests : retries'[q] <= Retries[q]
      BY <3>2, <3>4, <3>5
    <3> QED
      BY <3>3, <3>6
  <2>2. CASE ~MayRetry(r)
    BY <2>2 DEF RequestCallback, IInv, TypeOK
  <2> QED
    BY <2>1, <2>2
<1>5. /\ pc'[r] = place /\ ~failed'[r] /\ got'[r] = {}
      /\ \A q \in Requests \ {r} : pc'[q] = pc[q] /\ failed'[q] = failed[q] /\ got'[q] = got[q]
  BY <1>2, <1>3 DEF IInv, TypeOK
<1>6. Active' = Active /\ Waiting' = Waiting \ {r}
  BY <1>1, <1>5 DEF Active, Waiting, Pending
<1>7. /\ Cardinality(Waiting) \in Nat /\ Cardinality(Waiting) > 0
      /\ Cardinality(Waiting \ {r}) = Cardinality(Waiting) - 1
  BY <1>1, WaitingFinite, FS_RemoveElement, FS_CardinalityType, FS_EmptySet
<1>8. CallbackOnce' /\ concurrent' \in Nat
  <2>1. concurrent = Cardinality(Waiting)
    BY DEF IInv, CallbackOnce, Waiting
  <2>2. concurrent' = Cardinality(Waiting')
    BY <1>2, <1>6, <1>7, <2>1
  <2>3. CallbackOnce'
    BY <2>2 DEF CallbackOnce, Waiting
  <2> QED
    BY <1>2, <1>7, <2>1, <2>3
<1>9. TypeOK'
  <2>1. pc' \in [Requests -> Pending \cup {"new", "answered", "done"}]
    BY <1>3 DEF IInv, TypeOK
  <2>2. failed' \in [Requests -> BOOLEAN]
    BY <1>2, Zenon DEF IInv, TypeOK
  <2>3. got' \in [Requests -> SUBSET Requests]
    BY <1>2 DEF IInv, TypeOK
  <2> QED
    BY <1>2, <1>4, <1>8, <2>1, <2>2, <2>3 DEF IInv, TypeOK
<1>10. HoldsConnection' /\ ExclusiveConnection' /\ PoolBounded'
  BY <1>2, <1>6, SameHolders
<1>11. SentSoFar'
  <2>1. sent[r] = 0
    BY <1>1 DEF IInv, SentSoFar
  <2> QED
    BY <1>2, <1>5, <2>1, OthersSent
<1>12. CleanStreams'
  <2>1. \A q \in cutShort' : pc'[q] = "done" \/ (pc'[q] = "answered" /\ ~failed'[q])
    BY <1>1, <1>2, <1>3, <1>5 DEF IInv, CleanStreams, TypeOK
  <2>2. ASSUME NEW q \in Requests, cutShort' \subseteq {q}
        PROVE  /\ got'[q] \subseteq {q}
               /\ pc'[q] \in {"body", "chunk", "untilClosed"} \/ (pc'[q] = "answered" /\ ~failed'[q])
                    => got'[q] = {q}
    <3>1. CASE q = r
      BY <1>5, <3>1
    <3>2. CASE q # r
      BY <1>2, <1>5, <2>2, <3>2 DEF IInv, CleanStreams
    <3> QED
      BY <3>1, <3>2
  <2>3. ASSUME NEW c \in Connections, BeingRead(c)
        PROVE  BeingRead(c)'
    BY <1>1, <1>2, <1>5, <1>6, <2>3 DEF BeingRead, Active
  <2> QED
    BY <1>2, <2>1, <2>2, <2>3 DEF IInv, CleanStreams
<1> QED
  BY <1>8, <1>9, <1>10, <1>11, <1>12 DEF IInv

LEMMA TimerStep ==
  ASSUME IInv, NEW c \in Connections, TimerExpires(c) \/ TimerHandler(c) \/ ServerCloses(c)
  PROVE  IInv'
<1>1. UNCHANGED <<pc, conn, failed, sent, got, chunks, retries, pool, inUse, reconnect, stray,
                  concurrent, up, cutShort>>
  BY DEF TimerExpires, TimerHandler, ServerCloses, requestVars
<1>2. /\ aborted' \in [Requests -> BOOLEAN] /\ missed' \in [Requests -> BOOLEAN]
      /\ \A r \in Requests : aborted'[r] => aborted[r] \/ r \in Active
      /\ \A r \in Requests : missed'[r] => missed[r] \/ r \in Active
  <2>1. CASE TimerHandler(c)
    <3>1. PICK ended \in SUBSET Underway(c) :
            /\ aborted' = [r \in Requests |-> aborted[r] \/ r \in ended]
            /\ missed' = [r \in Requests |->
                            missed[r] \/ (~armed[c] /\ r \in Underway(c) \ ended)]
      BY <2>1 DEF TimerHandler
    <3>2. aborted' \in [Requests -> BOOLEAN] /\ missed' \in [Requests -> BOOLEAN]
      BY <3>1, Zenon
    <3>3. Underway(c) \subseteq Active
      BY DEF Underway, Active
    <3> QED
      BY <3>1, <3>2, <3>3
  <2>2. CASE UNCHANGED <<aborted, missed>>
    BY <2>2 DEF IInv, TypeOK
  <2> QED
    BY <2>1, <2>2 DEF TimerExpires, ServerCloses, requestVars
<1>3. armed' \in [Connections -> BOOLEAN] /\ late' \in [Connections -> 0 .. MaxLate]
  <2>1. CASE TimerExpires(c)
    <3>1. late[c] + 1 \in 0 .. MaxLate /\ late' = [late EXCEPT ![c] = late[c] + 1]
      BY <2>1, BoundsAssumption DEF TimerExpires, IInv, TypeOK
    <3>2. armed' = [armed EXCEPT ![c] = FALSE]
      BY <2>1 DEF TimerExpires
    <3> QED
      BY <3>1, <3>2, Zenon DEF IInv, TypeOK
  <2>2. CASE TimerHandler(c)
    <3>1. late[c] - 1 \in 0 .. MaxLate /\ late' = [late EXCEPT ![c] = late[c] - 1]
      BY <2>2, BoundsAssumption DEF TimerHandler, IInv, TypeOK
    <3>2. UNCHANGED armed
      BY <2>2 DEF TimerHandler
    <3> QED
      BY <3>1, <3>2, Zenon DEF IInv, TypeOK
  <2>3. CASE ServerCloses(c)
    BY <2>3 DEF ServerCloses, IInv, TypeOK
  <2> QED
    BY <2>1, <2>2, <2>3
<1>4. socket' \in [Connections -> {"closed", "open", "peerClosed"}]
  BY DEF TimerExpires, TimerHandler, ServerCloses, IInv, TypeOK
<1>5. TypeOK'
  BY <1>1, <1>2, <1>3, <1>4 DEF IInv, TypeOK
<1>6. Active' = Active /\ Waiting' = Waiting
  BY <1>1 DEF Active, Waiting
<1>7. HoldsConnection'
  BY <1>1, <1>2, <1>6 DEF IInv, HoldsConnection
<1>8. ExclusiveConnection' /\ PoolBounded' /\ SentSoFar' /\ CleanStreams'
  BY <1>1, <1>6 DEF IInv, ExclusiveConnection, PoolBounded, Idle, SentSoFar, CleanStreams,
    BeingRead
<1>9. CallbackOnce'
  BY <1>1, <1>6, SameWaiting
<1> QED
  BY <1>5, <1>7, <1>8, <1>9 DEF IInv

-----------------------------------------------------------------------------
(* IInv is an invariant, and what it says.                                 *)

LEMMA InitIInv == Init => IInv
<1> SUFFICES ASSUME Init PROVE IInv
  OBVIOUS
<1> USE DEF Init
<1>1. TypeOK
  BY BoundsAssumption DEF TypeOK
<1>2. HoldsConnection /\ ExclusiveConnection /\ PoolBounded
  BY DEF HoldsConnection, ExclusiveConnection, PoolBounded, Active, Pending, Idle
<1>3. SentSoFar /\ CleanStreams
  BY DEF SentSoFar, CleanStreams
<1>4. CallbackOnce
  <2>1. {r \in Requests : pc[r] \notin {"new", "done"}} = {}
    OBVIOUS
  <2> QED
    BY <2>1, FS_EmptySet DEF CallbackOnce
<1> QED
  BY <1>1, <1>2, <1>3, <1>4 DEF IInv

LEMMA NextIInv == IInv /\ [Next]_vars => IInv'
<1> SUFFICES ASSUME IInv, [Next]_vars PROVE IInv'
  OBVIOUS
<1>1. ASSUME NEW r \in Requests, Completion(r)
      PROVE  IInv'
  BY <1>1, ResolvedStep, ConnectedStep, WrittenStep, HeaderReadStep, BadLengthStep,
     HeaderBrokenStep, BodyReadStep, ChunkReadStep, ChunksEndStep, ClosedReadStep, BrokenStep
     DEF Completion
<1>2. ASSUME NEW r \in Requests, SendRequest(r) \/ Aborted(r) \/ RequestCallback(r)
      PROVE  IInv'
  BY <1>2, SendRequestStep, BrokenStep, RequestCallbackStep
<1>3. ASSUME NEW c \in Connections, TimerExpires(c) \/ TimerHandler(c) \/ ServerCloses(c)
      PROVE  IInv'
  BY <1>3, TimerStep
<1>4. CASE UNCHANGED vars
  BY <1>4 DEF vars, requestVars, connectionVars, IInv, TypeOK, HoldsConnection,
    ExclusiveConnection, PoolBounded, SentSoFar, CleanStreams, BeingRead, CallbackOnce, Active, Idle
<1> QED
  BY <1>1, <1>2, <1>3, <1>4 DEF Next

(* The inductive invariant holds in every behaviour of the client.         *)
THEOREM Invariance == Spec => []IInv
BY InitIInv, NextIInv, PTL DEF Spec

(* Every variable of the client keeps its type: no connection but one of   *)
(* the pool's is used, and the counters stay in their bounds.              *)
THEOREM TypeCorrect == Spec => []TypeOK
<1>1. IInv => TypeOK
  BY DEF IInv
<1> QED
  BY Invariance, <1>1, PTL

(* get_connection, the reconnect in read and the trimming in the callback  *)
(* never give two requests the same connection.                            *)
THEOREM NeverShared == Spec => []ExclusiveConnection
<1>1. IInv => ExclusiveConnection
  BY DEF IInv
<1> QED
  BY Invariance, <1>1, PTL

(* The callback of get_connection leaves at most one idle connection and   *)
(* never forgets one that nobody uses.                                     *)
THEOREM PoolStaysSmall == Spec => []PoolBounded
<1>1. IInv => PoolBounded
  BY DEF IInv
<1> QED
  BY Invariance, <1>1, PTL

(* attempt_reconnect bounds the times a request is written to two.         *)
THEOREM NeverSentThrice == Spec => []SentAtMostTwice
<1>1. IInv => SentAtMostTwice
  BY DEF IInv, TypeOK, SentSoFar, SentAtMostTwice, Pending
<1> QED
  BY Invariance, <1>1, PTL

(* A session is given the answer to its own request, whole or not, and     *)
(* nothing of another, until some answer was called back with success      *)
(* before all of it had been read.                                         *)
THEOREM AnswersMatch == Spec => []OwnAnswer
<1>1. IInv => OwnAnswer
  BY DEF IInv, CleanStreams, OwnAnswer
<1> QED
  BY Invariance, <1>1, PTL

(* concurrent_requests_ is the number of requests whose callback is still  *)
(* to run: every request is called back, and once.                         *)
THEOREM CalledBackOnce == Spec => []CallbackOnce
<1>1. IInv => CallbackOnce
  BY DEF IInv
<1> QED
  BY Invariance, <1>1, PTL

-----------------------------------------------------------------------------
(* Timers.                                                                 *)

(* What one request does leaves the timers of the others alone.            *)
LEMMA TimedStep ==
  ASSUME IInv, OperationsAreTimed, NEW r \in Requests, UNCHANGED late,
         \A q \in Requests \ {r} : /\ pc'[q] = pc[q] /\ conn'[q] = conn[q]
                                      /\ aborted'[q] = aborted[q] /\ missed'[q] = missed[q],
         \A q \in Active \ {r} : armed'[conn[q]] = armed[conn[q]],
         pc'[r] \in Pending => pc'[r] = "resolve" \/ armed'[conn'[r]]
  PROVE  OperationsAreTimed'
<1> SUFFICES ASSUME NEW q \in Active'
             PROVE  \/ aborted'[q] \/ missed'[q] \/ pc'[q] = "resolve"
                    \/ armed'[conn'[q]] \/ late'[conn'[q]] > 0
  BY DEF OperationsAreTimed
<1>1. CASE q = r
  BY <1>1 DEF Active
<1>2. CASE q # r
  <2>1. q \in Active \ {r}
    BY <1>2 DEF Active
  <2> QED
    BY <1>2, <2>1 DEF OperationsAreTimed, Active
<1> QED
  BY <1>1, <1>2

(* The connections of two requests that hold one are two.                  *)
LEMMA OwnTimer ==
  ASSUME IInv, NEW r \in Active
  PROVE  /\ conn[r] \in Connections
         /\ \A q \in Active \ {r} : conn[q] \in Connections /\ conn[q] # conn[r]
  BY DEF IInv, TypeOK, ExclusiveConnection

LEMMA StartTimed ==
  ASSUME IInv, OperationsAreTimed, NEW r \in Active, NEW operation,
         Start(r, operation), UNCHANGED late
  PROVE  OperationsAreTimed'
<1>1. /\ pc' = [pc EXCEPT ![r] = operation]
      /\ armed' = [armed EXCEPT ![conn[r]] = TRUE]
      /\ missed' = [missed EXCEPT ![r] = FALSE]
      /\ UNCHANGED <<conn, aborted>>
  BY DEF Start, SetTimeout
<1>2. /\ r \in Requests /\ armed \in [Connections -> BOOLEAN]
      /\ DOMAIN pc = Requests /\ DOMAIN missed = Requests
  BY DEF IInv, TypeOK, Active
<1>3. armed'[conn'[r]] /\ \A q \in Active \ {r} : armed'[conn[q]] = armed[conn[q]]
  BY <1>1, <1>2, OwnTimer
<1> QED
  BY <1>1, <1>2, <1>3, TimedStep

LEMMA ReleaseTimed ==
  ASSUME IInv, OperationsAreTimed, NEW r \in Active, NEW error, NEW sockets, NEW strays,
         Release(r, error, sockets, strays), UNCHANGED late
  PROVE  OperationsAreTimed'
<1>1. /\ pc' = [pc EXCEPT ![r] = "answered"]
      /\ conn' = [conn EXCEPT ![r] = NoConnection]
      /\ aborted' = [aborted EXCEPT ![r] = FALSE]
      /\ missed' = [missed EXCEPT ![r] = FALSE]
      /\ armed' = [armed EXCEPT ![conn[r]] = FALSE]
  BY DEF Release
<1>2. /\ r \in Requests /\ armed \in [Connections -> BOOLEAN]
      /\ DOMAIN pc = Requests /\ DOMAIN conn = Requests
      /\ DOMAIN aborted = Requests /\ DOMAIN missed = Requests
  BY DEF IInv, TypeOK, Active
<1>3. \A q \in Active \ {r} : armed'[conn[q]] = armed[conn[q]]
  BY <1>1, <1>2, OwnTimer
<1>4. pc'[r] \notin Pending
  BY <1>1, <1>2 DEF Pending
<1> QED
  BY <1>1, <1>2, <1>3, <1>4, TimedStep

LEMMA CompletionTimed ==
  ASSUME IInv, OperationsAreTimed, NEW r \in Requests, Completion(r) \/ Aborted(r)
  PROVE  OperationsAreTimed'
<1>1. r \in Active
  BY DEF Completion, Aborted, Resolved, Connected, Written, HeaderRead, BadLength, HeaderBroken,
         BodyRead, ChunkRead, ChunksEnd, ClosedRead, Broken, Completes, Active, Pending, IInv,
         HoldsConnection
<1>2. CASE Resolved(r) \/ Connected(r) \/ Written(r) \/ ChunkRead(r)
  <2>1. \E operation : Start(r, operation) /\ UNCHANGED late
    BY <1>2 DEF Resolved, Connected, Written, ChunkRead
  <2> QED
    BY <1>1, <2>1, StartTimed
<1>3. CASE BodyRead(r) \/ ChunksEnd(r) \/ ClosedRead(r) \/ Broken(r) \/ Aborted(r)
  <2>1. \E error, sockets, strays : Release(r, error, sockets, strays) /\ UNCHANGED late
    BY <1>3 DEF BodyRead, ChunksEnd, ClosedRead, Broken, Aborted, Answered, Fail
  <2> QED
    BY <1>1, <2>1, ReleaseTimed
<1>4. CASE HeaderRead(r)
  <2>1. \/ \E operation : Start(r, operation) /\ UNCHANGED late
        \/ \E error, sockets, strays : Release(r, error, sockets, strays) /\ UNCHANGED late
    BY <1>4 DEF HeaderRead, Answered, Fail
  <2> QED
    BY <1>1, <2>1, StartTimed, ReleaseTimed
<1>5. CASE BadLength(r)
  BY <1>5 DEF BadLength, requestVars, connectionVars, OperationsAreTimed, Active
<1>6. CASE HeaderBroken(r)
  <2>1. CASE Fail(r)
    BY <1>1, <1>6, <2>1, ReleaseTimed DEF HeaderBroken, Fail
  <2>2. CASE ~Fail(r)
    <3>1. PICK d \in NewConnection :
            /\ conn' = [conn EXCEPT ![r] = d]
            /\ pc' = [pc EXCEPT ![r] = "resolve"]
            /\ armed' = [armed EXCEPT ![conn[r]] = FALSE, ![d] = TRUE]
            /\ missed' = [missed EXCEPT ![r] = FALSE]
            /\ UNCHANGED <<aborted, late>>
      BY <1>6, <2>2 DEF HeaderBroken
    <3>2. /\ armed \in [Connections -> BOOLEAN]
          /\ DOMAIN pc = Requests /\ DOMAIN conn = Requests /\ DOMAIN missed = Requests
      BY DEF IInv, TypeOK
    <3>3. \A q \in Active : conn[q] # d
      BY NewConnectionUnused DEF Active
    <3>4. \A q \in Active \ {r} : armed'[conn[q]] = armed[conn[q]]
      BY <1>1, <3>1, <3>2, <3>3, OwnTimer
    <3>5. pc'[r] = "resolve"
      BY <3>1, <3>2
    <3> QED
      BY <3>1, <3>2, <3>4, <3>5, TimedStep
  <2> QED
    BY <2>1, <2>2
<1> QED
  BY <1>2, <1>3, <1>4, <1>5, <1>6 DEF Completion

LEMMA SendTimed ==
  ASSUME IInv, OperationsAreTimed, NEW r \in Requests, SendRequest(r)
  PROVE  OperationsAreTimed'
<1>1. PICK c \in IF Idle # {} THEN Idle ELSE NewConnection :
        /\ conn' = [conn EXCEPT ![r] = c]
        /\ pc' = [pc EXCEPT ![r] = FirstOperation(c)]
        /\ armed' = [armed EXCEPT ![c] = TRUE]
  BY DEF SendRequest, SetTimeout
<1>2. /\ armed \in [Connections -> BOOLEAN] /\ pool \subseteq Connections
      /\ DOMAIN pc = Requests /\ DOMAIN conn = Requests
  BY DEF IInv, TypeOK
<1>3. c \in Connections /\ \A q \in Active : conn[q] # c /\ conn[q] \in Connections
  <2>1. CASE c \in Idle
    BY <1>2, <2>1 DEF Idle, IInv, ExclusiveConnection
  <2>2. CASE c \in NewConnection
    BY <1>2, <2>2, NewConnectionUnused DEF Active, IInv, ExclusiveConnection
  <2> QED
    BY <2>1, <2>2
<1>4. armed'[conn'[r]] /\ \A q \in Active \ {r} : armed'[conn[q]] = armed[conn[q]]
  BY <1>1, <1>2, <1>3
<1>5. UNCHANGED <<aborted, missed, late>>
  BY DEF SendRequest
<1> QED
  BY <1>1, <1>2, <1>4, <1>5, TimedStep

LEMMA TimerTimed ==
  ASSUME IInv, OperationsAreTimed, NEW c \in Connections,
         TimerExpires(c) \/ TimerHandler(c) \/ ServerCloses(c)
  PROVE  OperationsAreTimed'
<1>1. UNCHANGED <<pc, conn>> /\ Active' = Active
  BY DEF TimerExpires, TimerHandler, ServerCloses, requestVars, Active
<1>2. Active \subseteq Requests /\ late \in [Connections -> 0 .. MaxLate]
  BY DEF Active, IInv, TypeOK
<1>3. \A q \in Active : conn[q] \in Connections
  BY DEF IInv, TypeOK, ExclusiveConnection
<1>4. CASE TimerExpires(c)
  <2>1. /\ armed' = [armed EXCEPT ![c] = FALSE] /\ late' = [late EXCEPT ![c] = @ + 1]
        /\ UNCHANGED <<aborted, missed>>
    BY <1>4 DEF TimerExpires, requestVars
  <2>2. late'[c] > 0 /\ \A d \in Connections : d # c => armed'[d] = armed[d] /\ late'[d] = late[d]
    BY <1>2, <2>1 DEF IInv, TypeOK
  <2> QED
    BY <1>1, <1>3, <2>1, <2>2 DEF OperationsAreTimed
<1>5. CASE TimerHandler(c)
  <2>1. PICK ended \in SUBSET Underway(c) :
          /\ UNCHANGED armed /\ late' = [late EXCEPT ![c] = @ - 1]
          /\ aborted' = [r \in Requests |-> aborted[r] \/ r \in ended]
          /\ missed' = [r \in Requests |->
                          missed[r] \/ (~armed[c] /\ r \in Underway(c) \ ended)]
    BY <1>5 DEF TimerHandler
  <2>2. \A d \in Connections : d # c => late'[d] = late[d]
    BY <2>1 DEF IInv, TypeOK
  <2>3. ASSUME NEW q \in Active
        PROVE  /\ aborted'[q] <=> aborted[q] \/ q \in ended
               /\ missed'[q] <=> missed[q] \/ (~armed[c] /\ q \in Underway(c) \ ended)
    BY <1>2, <2>1
  <2>4. \A q \in Active : conn[q] = c /\ pc[q] # "resolve" /\ ~aborted[q] => q \in Underway(c)
    BY <1>2 DEF Underway, Active
  <2>5. ASSUME NEW q \in Active
        PROVE  aborted'[q] \/ missed'[q] \/ pc'[q] = "resolve" \/ armed'[conn'[q]] \/ late'[conn'[q]] > 0
    <3>1. CASE conn[q] = c
      BY <1>1, <2>1, <2>3, <2>4, <3>1
    <3>2. CASE conn[q] # c
      BY <1>1, <1>3, <2>1, <2>2, <2>3, <3>2 DEF OperationsAreTimed
    <3> QED
      BY <3>1, <3>2
  <2> QED
    BY <1>1, <2>5 DEF OperationsAreTimed
<1>6. CASE ServerCloses(c)
  BY <1>1, <1>6 DEF ServerCloses, requestVars, OperationsAreTimed
<1> QED
  BY <1>4, <1>5, <1>6

LEMMA NextTimed ==
  ASSUME IInv, OperationsAreTimed, [Next]_vars
  PROVE  OperationsAreTimed'
<1>1. ASSUME NEW r \in Requests, RequestCallback(r)
      PROVE  OperationsAreTimed'
  <2>1. /\ pc' = [pc EXCEPT ![r] = "new"] \/ pc' = [pc EXCEPT ![r] = "done"]
        /\ UNCHANGED <<conn, aborted, missed, armed, late>>
    BY <1>1 DEF RequestCallback, connectionVars
  <2>2. pc'[r] \notin Pending /\ \A q \in Requests \ {r} : pc'[q] = pc[q]
    BY <2>1 DEF IInv, TypeOK, Pending
  <2> QED
    BY <2>1, <2>2, TimedStep
<1>2. CASE UNCHANGED vars
  BY <1>2 DEF vars, requestVars, connectionVars, OperationsAreTimed, Active
<1> QED
  BY <1>1, <1>2, CompletionTimed, SendTimed, TimerTimed DEF Next

(* Whatever server and network do, and however late a timer handler runs,  *)
(* an operation other than the lookup is left untimed only by a cancel     *)
(* that has come and missed it.                                            *)
THEOREM NothingHangsUntimed == Spec => []OperationsAreTimed
<1>1. Init => OperationsAreTimed
  BY DEF Init, OperationsAreTimed, Active, Pending
<1>2. IInv /\ OperationsAreTimed /\ [Next]_vars => OperationsAreTimed'
  BY NextTimed
<1> QED
  BY <1>1, <1>2, Invariance, PTL DEF Spec

-----------------------------------------------------------------------------
(* Where answers go astray: only no framing, chunks and a second attempt   *)
(* behind bytes of the first can cut an answer short.                      *)

OwnBytesInv ==
  /\ cutShort = {}
  /\ \A c \in Connections : stray[c] = {}
  /\ \A r \in Requests :
       /\ pc[r] # "chunk"
       /\ pc[r] \in {"new", "resolve", "connecting", "write", "header"} => got[r] = {}
       /\ pc[r] \in {"body", "untilClosed"} \/ (pc[r] = "answered" /\ ~failed[r])
            => got[r] = {r}

LEMMA CleanStart ==
  ASSUME IInv, OwnBytesInv, NEW r \in Requests, NEW operation \in Pending \ {"chunk"},
         Moves(r, operation), UNCHANGED <<failed, cutShort>>,
         \A q \in Requests \ {r} : got'[q] = got[q],
         \A c \in Connections : stray'[c] = {},
         IF operation \in {"body", "untilClosed"} THEN got'[r] = {r} ELSE got'[r] = {}
  PROVE  OwnBytesInv'
<1>1. pc'[r] = operation /\ \A q \in Requests \ {r} : pc'[q] = pc[q]
  BY MovesActive
<1> QED
  BY <1>1 DEF OwnBytesInv, Pending

LEMMA CleanRelease ==
  ASSUME IInv, OwnBytesInv, NEW r \in Active, NEW error \in BOOLEAN, NEW sockets \in Sockets,
         NEW strays \in Streams, Release(r, error, sockets, strays), UNCHANGED cutShort,
         \A q \in Requests \ {r} : got'[q] = got[q],
         ~error => got'[r] = {r},
         \A c \in Connections : c # conn[r] => strays[c] = {},
         ~error => strays[conn[r]] = {}
  PROVE  OwnBytesInv'
<1>1. /\ pc'[r] = "answered" /\ failed'[r] = error
      /\ \A q \in Requests \ {r} : pc'[q] = pc[q] /\ failed'[q] = failed[q]
  BY ReleaseRequest
<1>2. \A c \in Connections : stray'[c] = {}
  BY ReleaseConnection
<1> QED
  BY <1>1, <1>2 DEF OwnBytesInv

LEMMA CleanFail ==
  ASSUME IInv, OwnBytesInv, NEW r \in Active, Fail(r),
         \A q \in Requests \ {r} : got'[q] = got[q]
  PROVE  OwnBytesInv'
<1> DEFINE strays == [stray EXCEPT ![conn[r]] = @ \cup {r}]
<1>1. strays \in Streams /\ socket \in Sockets /\ r \in Requests
  BY DEF IInv, TypeOK, Streams, Sockets, Active
<1>2. \A c \in Connections : c # conn[r] => strays[c] = {}
  BY DEF OwnBytesInv, IInv, TypeOK
<1>3. Release(r, TRUE, socket, strays) /\ UNCHANGED cutShort
  BY DEF Fail
<1> HIDE DEF strays
<1> QED
  BY <1>1, <1>2, <1>3, CleanRelease

LEMMA CleanAnswered ==
  ASSUME IInv, OwnBytesInv, NEW r \in Active, NEW sockets \in Sockets, NEW strays \in Streams,
         Answered(r, sockets, strays),
         \A q \in Requests \ {r} : got'[q] = got[q],
         got'[r] = {r},
         \A c \in Connections : strays[c] = {}
  PROVE  OwnBytesInv'
<1>1. conn[r] \in Connections
  BY DEF IInv, TypeOK, ExclusiveConnection, Active
<1>2. Release(r, FALSE, sockets, strays) /\ UNCHANGED cutShort /\ strays[conn[r]] = {}
  BY <1>1 DEF Answered
<1>3. \A c \in Connections : c # conn[r] => strays[c] = {}
  OBVIOUS
<1> QED
  BY <1>2, <1>3, CleanRelease

LEMMA CleanHeader ==
  ASSUME {"unframed", "chunked"} \cap Answers = {}, IInv, OwnBytesInv, NEW r \in Requests, HeaderRead(r)
  PROVE  OwnBytesInv'
<1> DEFINE c == conn[r]
           rest == [stray EXCEPT ![c] = ((@ \cup {r}) \ {r}) \cup {}]
<1>1. pc[r] = "header" /\ r \in Active
  BY DEF HeaderRead, Completes, Active, Pending
<1>2. c \in Connections /\ stray \in [Connections -> SUBSET Requests]
  BY <1>1 DEF IInv, ExclusiveConnection, TypeOK
<1>3. stray[c] = {} /\ got[r] = {}
  BY <1>1, <1>2 DEF OwnBytesInv
<1>4. /\ HeaderBytes(r) = {{r}}
      /\ Framings(r) = Answers
      /\ \A framing \in Answers : LeftOver(r, framing, {r}) = {{}}
  BY <1>3 DEF HeaderBytes, Framings, Garbled, LeftOver
<1>5. /\ got' = [got EXCEPT ![r] = @ \cup {r}]
      /\ \/ Answered(r, socket, rest)
         \/ \E framing \in DOMAIN Reading \ {"chunked"} :
              /\ Start(r, Reading[framing])
              /\ stray' = rest
              /\ UNCHANGED cutShort
         \/ Fail(r)
  BY <1>4 DEF HeaderRead
<1>6. got'[r] = {r} /\ \A q \in Requests \ {r} : got'[q] = got[q]
  BY <1>3, <1>5 DEF IInv, TypeOK
<1>7. rest \in Streams /\ \A d \in Connections : rest[d] = {}
  BY <1>2, <1>3 DEF OwnBytesInv, Streams
<1>8. socket \in Sockets
  BY DEF IInv, TypeOK, Sockets
<1> HIDE DEF c, rest
<1>9. CASE Answered(r, socket, rest)
  BY <1>1, <1>6, <1>7, <1>8, <1>9, CleanAnswered
<1>10. ASSUME NEW framing \in DOMAIN Reading \ {"chunked"}, Start(r, Reading[framing]), stray' = rest,
              UNCHANGED cutShort
       PROVE  OwnBytesInv'
  <2>1. /\ Reading[framing] \in {"body", "untilClosed"}
        /\ Reading[framing] \in Pending \ {"chunk"} /\ "header" \in Pending
    BY <1>10 DEF Reading, Pending
  <2>2. Moves(r, Reading[framing]) /\ UNCHANGED <<failed, cutShort>>
    BY <1>1, <1>10, <2>1 DEF Start, Moves
  <2> QED
    BY <1>6, <1>7, <1>10, <2>1, <2>2, CleanStart
<1>11. CASE Fail(r)
  BY <1>1, <1>6, <1>11, CleanFail
<1> QED
  BY <1>5, <1>9, <1>10, <1>11

LEMMA CleanCompletion ==
  ASSUME {"unframed", "chunked"} \cap Answers = {}, IInv, OwnBytesInv, NEW r \in Requests,
         Completion(r) \/ Aborted(r), HeaderBroken(r) => got'[r] = got[r]
  PROVE  OwnBytesInv'
<1>1. r \in Active
  BY DEF Completion, Aborted, Resolved, Connected, Written, HeaderRead, BadLength, HeaderBroken,
         BodyRead, ChunkRead, ChunksEnd, ClosedRead, Broken, Completes, Active, Pending, IInv,
         HoldsConnection
<1>2. /\ conn[r] \in Connections /\ socket \in Sockets /\ stray \in Streams
      /\ got \in [Requests -> SUBSET Requests] /\ \A c \in Connections : stray[c] = {}
  BY <1>1 DEF IInv, ExclusiveConnection, TypeOK, Sockets, Streams, OwnBytesInv
<1>3. CASE Resolved(r) \/ Connected(r) \/ Written(r)
  <2>1. PICK operation \in {"connecting", "write", "header"} :
          /\ Start(r, operation) /\ UNCHANGED <<got, stray, cutShort>>
          /\ pc[r] \in {"resolve", "connecting", "write"}
    BY <1>3 DEF Resolved, Connected, Written, Completes
  <2>2. operation \in Pending \ {"chunk"} /\ Moves(r, operation) /\ UNCHANGED failed
    BY <1>1, <2>1 DEF Start, Moves, Active, Pending
  <2>3. got'[r] = {}
    BY <2>1 DEF OwnBytesInv
  <2> QED
    BY <1>2, <2>1, <2>2, <2>3, CleanStart
<1>4. CASE HeaderRead(r)
  BY <1>4, CleanHeader
<1>5. CASE BadLength(r)
  BY <1>5 DEF BadLength, requestVars, connectionVars, OwnBytesInv
<1>6. CASE BodyRead(r)
  <2>1. got[r] = {r} /\ UNCHANGED got /\ Answered(r, socket, stray)
    BY <1>6 DEF BodyRead, Completes, OwnBytesInv
  <2> QED
    BY <1>1, <1>2, <2>1, CleanAnswered
<1>7. CASE ClosedRead(r)
  <2> DEFINE sockets == [socket EXCEPT ![conn[r]] = "peerClosed"]
             strays == [stray EXCEPT ![conn[r]] = {}]
  <2>1. /\ Answered(r, sockets, strays)
        /\ got' = [got EXCEPT ![r] = @ \cup stray[conn[r]]]
    BY <1>7 DEF ClosedRead
  <2>2. got[r] = {r}
    BY <1>7 DEF ClosedRead, Completes, OwnBytesInv
  <2>3. got'[r] = {r} /\ \A q \in Requests \ {r} : got'[q] = got[q]
    BY <1>2, <2>1, <2>2
  <2>4. sockets \in Sockets /\ strays \in Streams /\ \A c \in Connections : strays[c] = {}
    BY <1>2 DEF Sockets, Streams
  <2> HIDE DEF sockets, strays
  <2> QED
    BY <1>1, <2>1, <2>3, <2>4, CleanAnswered
<1>8. CASE Broken(r) \/ Aborted(r)
  <2>1. Fail(r) /\ UNCHANGED got
    BY <1>8 DEF Broken, Aborted
  <2> QED
    BY <1>1, <2>1, CleanFail
<1>9. CASE HeaderBroken(r)
  <2>1. pc[r] = "header" /\ got'[r] = got[r] /\ got[r] = {}
    BY <1>9 DEF HeaderBroken, Completes, OwnBytesInv
  <2>2. \A q \in Requests \ {r} : got'[q] = got[q]
    <3>1. \E bytes : got' = [got EXCEPT ![r] = bytes] \/ got' = got
      BY <1>9 DEF HeaderBroken
    <3> QED
      BY <1>2, <3>1
  <2>3. CASE Fail(r)
    BY <1>1, <2>2, <2>3, CleanFail
  <2>4. CASE ~Fail(r)
    <3>1. /\ pc' = [pc EXCEPT ![r] = "resolve"]
          /\ stray' = Kept(stray, {})
          /\ UNCHANGED <<failed, cutShort>>
      BY <1>9, <2>4 DEF HeaderBroken
    <3>2. \A c \in Connections : stray'[c] = {}
      BY <1>2, <3>1 DEF Kept
    <3>3. Moves(r, "resolve") /\ "resolve" \in Pending \ {"chunk"}
      BY <2>1, <3>1 DEF Moves, Pending
    <3> QED
      BY <2>1, <2>2, <3>1, <3>2, <3>3, CleanStart
  <2> QED
    BY <2>3, <2>4
<1>10. ~ChunkRead(r) /\ ~ChunksEnd(r)
  BY DEF ChunkRead, ChunksEnd, Completes, OwnBytesInv
<1> QED
  BY <1>3, <1>4, <1>5, <1>6, <1>7, <1>8, <1>9, <1>10 DEF Completion

LEMMA CleanNext ==
  ASSUME {"unframed", "chunked"} \cap Answers = {}, IInv, OwnBytesInv, [Next]_vars,
         [\A r \in Requests : HeaderBroken(r) => got'[r] = got[r]]_vars
  PROVE  OwnBytesInv'
<1>1. CASE UNCHANGED vars
  BY <1>1 DEF vars, requestVars, connectionVars, OwnBytesInv
<1>2. ASSUME NEW r \in Requests, Completion(r) \/ Aborted(r), ~UNCHANGED vars
      PROVE  OwnBytesInv'
  BY <1>2, CleanCompletion
<1>3. ASSUME NEW r \in Requests, SendRequest(r)
      PROVE  OwnBytesInv'
  <2>1. /\ pc[r] = "new" /\ UNCHANGED <<got, stray, failed, cutShort>>
        /\ \E c : pc' = [pc EXCEPT ![r] = FirstOperation(c)]
    BY <1>3 DEF SendRequest
  <2>2. /\ pc'[r] \in {"resolve", "write"}
        /\ \A q \in Requests \ {r} : pc'[q] = pc[q]
    BY <2>1 DEF FirstOperation, IInv, TypeOK
  <2> QED
    BY <2>1, <2>2 DEF OwnBytesInv
<1>4. ASSUME NEW r \in Requests, RequestCallback(r)
      PROVE  OwnBytesInv'
  <2>1. /\ pc' = [pc EXCEPT ![r] = "new"] \/ pc' = [pc EXCEPT ![r] = "done"]
        /\ got' = [got EXCEPT ![r] = {}] /\ failed' = [failed EXCEPT ![r] = FALSE]
        /\ UNCHANGED <<stray, cutShort>>
    BY <1>4 DEF RequestCallback, connectionVars
  <2>2. /\ pc'[r] \in {"new", "done"} /\ got'[r] = {}
        /\ \A q \in Requests \ {r} : pc'[q] = pc[q] /\ got'[q] = got[q] /\ failed'[q] = failed[q]
    BY <2>1 DEF IInv, TypeOK
  <2> QED
    BY <2>1, <2>2 DEF OwnBytesInv
<1>5. ASSUME NEW c \in Connections, TimerExpires(c) \/ TimerHandler(c) \/ ServerCloses(c)
      PROVE  OwnBytesInv'
  <2>1. UNCHANGED <<pc, got, failed, stray, cutShort>>
    BY <1>5 DEF TimerExpires, TimerHandler, ServerCloses, requestVars
  <2> QED
    BY <2>1 DEF OwnBytesInv
<1> QED
  BY <1>1, <1>2, <1>3, <1>4, <1>5 DEF Next

(* If servers frame their answers otherwise than by chunks and no second   *)
(* attempt is made with bytes of the first in the response, no answer is   *)
(* ever cut short and every request that succeeds was given its own answer *)
(* and nothing else: there is no other cause, however requests, timers and *)
(* closing servers interleave.                                             *)
THEOREM NoOtherCause ==
  ASSUME {"unframed", "chunked"} \cap Answers = {}
  PROVE  Spec /\ CleanRetries => []OnlyOwnBytes
<1>1. Init => OwnBytesInv
  BY DEF Init, OwnBytesInv
<1>2. IInv /\ OwnBytesInv /\ [Next]_vars
        /\ [\A r \in Requests : HeaderBroken(r) => got'[r] = got[r]]_vars => OwnBytesInv'
  BY CleanNext
<1>3. OwnBytesInv => OnlyOwnBytes
  BY DEF OwnBytesInv, OnlyOwnBytes
<1> QED
  BY <1>1, <1>2, <1>3, Invariance, PTL DEF Spec, CleanRetries

=============================================================================
