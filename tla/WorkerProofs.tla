----------------------------- MODULE WorkerProofs -----------------------------
(***************************************************************************)
(* What holds of the worker queue for any number of sessions, workers and  *)
(* io threads and any max_task_num: IInv (module Worker) is inductive, and *)
(* it implies that the queue comes to a standstill only under overload.    *)
(***************************************************************************)
EXTENDS Worker, FiniteSetTheorems, FunctionTheorems, SequenceTheorems, TLAPS

LEMMA ThreadsFinite == IsFiniteSet(Threads)
<1>1. IsFiniteSet(Workers \cup IoThreads)
  BY FS_Union, WorkersAssumption, ThreadsAssumption
<1> QED
  BY <1>1, FS_AddElement DEF Threads

-----------------------------------------------------------------------------
(* Counting threads.                                                       *)

CountIn(at, place) == Cardinality({t \in Threads : at[t] = place})

LEMMA CountType ==
  ASSUME NEW at, NEW place
  PROVE  /\ CountIn(at, place) \in Nat
         /\ CountIn(at, place) = 0 <=> \A t \in Threads : at[t] # place
<1> DEFINE S == {t \in Threads : at[t] = place}
<1>1. IsFiniteSet(S)
  BY ThreadsFinite, FS_Subset
<1>2. Cardinality(S) \in Nat /\ (Cardinality(S) = 0 <=> S = {})
  BY <1>1, FS_CardinalityType, FS_EmptySet
<1> QED
  BY <1>2 DEF CountIn

(* A thread goes from one place to another.                                *)
Moves(at, t, a, b, new) ==
  /\ at \in [Threads -> Places]
  /\ t \in Threads
  /\ at[t] = a
  /\ b \in Places
  /\ a # b
  /\ new = [at EXCEPT ![t] = b]

LEMMA CountMove ==
  ASSUME NEW at, NEW t, NEW a, NEW b, NEW new, Moves(at, t, a, b, new)
  PROVE  /\ new \in [Threads -> Places]
         /\ CountIn(new, b) = CountIn(at, b) + 1
         /\ CountIn(new, a) = CountIn(at, a) - 1
         /\ \A p : p # b /\ p # a => CountIn(new, p) = CountIn(at, p)
<1> DEFINE S(f, p) == {u \in Threads : f[u] = p}
<1> USE DEF Moves
<1>1. new[t] = b /\ \A u \in Threads : u # t => new[u] = at[u]
  OBVIOUS
<1>2. S(new, b) = S(at, b) \cup {t} /\ t \notin S(at, b)
  BY <1>1
<1>3. S(new, a) = S(at, a) \ {t} /\ t \in S(at, a)
  BY <1>1
<1>4. \A p : p # b /\ p # a => S(new, p) = S(at, p)
  BY <1>1
<1>5. IsFiniteSet(S(at, b)) /\ IsFiniteSet(S(at, a))
  BY ThreadsFinite, FS_Subset
<1>6. Cardinality(S(new, b)) = Cardinality(S(at, b)) + 1
  BY <1>2, <1>5, FS_AddElement
<1>7. Cardinality(S(new, a)) = Cardinality(S(at, a)) - 1
  BY <1>3, <1>5, FS_RemoveElement
<1> QED
  BY <1>4, <1>6, <1>7 DEF CountIn

(* notify_one: nobody waits, or one thread moves.                          *)
LEMMA NotifyOneLemma ==
  ASSUME NEW at \in [Threads -> Places], NEW place \in Places, NEW try \in Places,
         place # try, NEW new \in NotifyOne(at, place, try)
  PROVE  /\ new \in [Threads -> Places]
         /\ \/ CountIn(at, place) = 0 /\ new = at
            \/ /\ \E t \in Threads : at[t] = place /\ new = [at EXCEPT ![t] = try]
               /\ CountIn(at, place) > 0
               /\ CountIn(new, place) = CountIn(at, place) - 1
               /\ CountIn(new, try) = CountIn(at, try) + 1
               /\ \A p : p # place /\ p # try => CountIn(new, p) = CountIn(at, p)
<1>1. CASE \A t \in Threads : at[t] # place
  BY <1>1, CountType DEF NotifyOne
<1>2. CASE \E t \in Threads : at[t] = place
  <2>1. PICK t \in Threads : at[t] = place /\ new = [at EXCEPT ![t] = try]
    BY <1>2 DEF NotifyOne
  <2>2. CountIn(at, place) > 0
    BY <2>1, CountType
  <2>3. Moves(at, t, place, try, new)
    BY <2>1 DEF Moves
  <2>4. /\ new \in [Threads -> Places]
        /\ CountIn(new, try) = CountIn(at, try) + 1
        /\ CountIn(new, place) = CountIn(at, place) - 1
        /\ \A p : p # try /\ p # place => CountIn(new, p) = CountIn(at, p)
    BY <2>3, CountMove
  <2> QED
    BY <2>1, <2>2, <2>4
<1> QED
  BY <1>1, <1>2

-----------------------------------------------------------------------------
(* The queue.                                                              *)

LEMMA AppendQueue ==
  ASSUME queue \in Seq(Sessions), NEW s \in Sessions, queue' = Append(queue, s)
  PROVE  /\ queue' \in Seq(Sessions)
         /\ Len(queue') = Len(queue) + 1
         /\ Queued' = Queued \cup {s}
         /\ \A i \in 1 .. Len(queue) : queue'[i] = queue[i]
         /\ queue'[Len(queue) + 1] = s
<1>1. /\ queue' \in Seq(Sessions)
      /\ Len(queue') = Len(queue) + 1
      /\ \A i \in 1 .. Len(queue) : queue'[i] = queue[i]
      /\ queue'[Len(queue) + 1] = s
  BY AppendProperties
<1>2. Len(queue) \in Nat
  BY LenProperties
<1>3. Queued' = Queued \cup {s}
  BY <1>1, <1>2 DEF Queued
<1> QED
  BY <1>1, <1>3

LEMMA TailQueue ==
  ASSUME queue \in Seq(Sessions), queue # <<>>, queue' = Tail(queue)
  PROVE  /\ queue' \in Seq(Sessions)
         /\ Len(queue) \in Nat \ {0}
         /\ Len(queue') = Len(queue) - 1
         /\ Head(queue) = queue[1] /\ Head(queue) \in Sessions
         /\ Queued = Queued' \cup {Head(queue)}
         /\ \A i \in 1 .. Len(queue') : queue'[i] = queue[i + 1]
<1>1. /\ queue' \in Seq(Sessions)
      /\ Len(queue') = Len(queue) - 1
      /\ \A i \in 1 .. Len(queue') : queue'[i] = queue[i + 1]
      /\ Head(queue) = queue[1] /\ Head(queue) \in Sessions
  BY HeadTailProperties
<1>2. Len(queue) \in Nat \ {0}
  BY LenProperties, EmptySeq
<1>3. Queued = Queued' \cup {Head(queue)}
  <2>1. ASSUME NEW i \in 1 .. Len(queue)
        PROVE  queue[i] \in Queued' \cup {Head(queue)}
    <3>1. CASE i = 1
      BY <3>1, <1>1
    <3>2. CASE i # 1
      <4>1. i - 1 \in 1 .. Len(queue') /\ queue'[i - 1] = queue[i]
        BY <3>2, <1>1, <1>2
      <4> QED
        BY <4>1 DEF Queued
    <3> QED
      BY <3>1, <3>2
  <2>2. ASSUME NEW i \in 1 .. Len(queue')
        PROVE  queue'[i] \in Queued
    BY <1>1, <1>2 DEF Queued
  <2>3. Head(queue) \in Queued
    BY <1>1, <1>2 DEF Queued
  <2> QED
    BY <2>1, <2>2, <2>3 DEF Queued
<1> QED
  BY <1>1, <1>2, <1>3

-----------------------------------------------------------------------------
(* The inductive invariant.                                                *)

WakeupsIn(at, n) ==
  /\ CountIn(at, "putWait") > 0 => MaxTask >= 0 /\ MaxTask - n <= CountIn(at, "put")
  /\ CountIn(at, "getWait") > 0 => n <= CountIn(at, "get")

LEMMA WakeupCounts ==
  /\ NoLostWakeup <=> WakeupsIn(pc, Len(queue))
  /\ NoLostWakeup' <=> WakeupsIn(pc', Len(queue'))
BY DEF NoLostWakeup, WakeupsIn, Count, CountIn

(* A step that touches neither the queue nor a wait set, and in which      *)
(* nobody leaves Put or Get.                                               *)
LEMMA WakeupKept ==
  ASSUME NoLostWakeup, queue \in Seq(Sessions), queue' = queue,
         NEW t, NEW a, NEW b, Moves(pc, t, a, b, pc'),
         a \notin {"put", "get"}, b \notin {"putWait", "getWait"}
  PROVE  NoLostWakeup'
<1>1. /\ CountIn(pc', b) = CountIn(pc, b) + 1
      /\ CountIn(pc', a) = CountIn(pc, a) - 1
      /\ \A p : p # b /\ p # a => CountIn(pc', p) = CountIn(pc, p)
  BY CountMove
<1>2. \A p : CountIn(pc, p) \in Nat /\ CountIn(pc', p) \in Nat
  BY CountType
<1>3. WakeupsIn(pc, Len(queue))
  BY WakeupCounts
<1>4. Len(queue) \in Nat
  BY LenProperties
<1>5. WakeupsIn(pc', Len(queue'))
  BY <1>1, <1>2, <1>3, <1>4, MaxTaskAssumption DEF WakeupsIn
<1> QED
  BY <1>5, WakeupCounts

LEMMA InitIInv == Init => IInv
<1> SUFFICES ASSUME Init PROVE IInv
  OBVIOUS
<1> USE SessionsAssumption, ThreadsAssumption, MaxPushesAssumption DEF Init
<1>1. queue \in Seq(Sessions) /\ Len(queue) = 0
  BY EmptySeq
<1>2. TypeOK
  BY <1>1 DEF TypeOK, Places, Rest
<1>3. ExclusiveSession
  BY <1>1 DEF ExclusiveSession, OnceQueued, HeldAlone, PlacesDisjoint, Held, Queued
<1>4. NoLostWakeup
  <2>1. \A t \in Threads : pc[t] # "putWait" /\ pc[t] # "getWait"
    BY DEF Rest
  <2>2. CountIn(pc, "putWait") = 0 /\ CountIn(pc, "getWait") = 0
    BY <2>1, CountType
  <2> QED
    BY <2>2, WakeupCounts DEF WakeupsIn
<1>5. NoneForgotten
  BY DEF NoneForgotten, Live
<1>6. Control
  BY DEF Control, Rest
<1> QED
  BY <1>2, <1>3, <1>4, <1>5, <1>6 DEF IInv

LEMMA PutItemStep ==
  ASSUME IInv, NEW t \in Threads, PutItem(t)
  PROVE  IInv'
<1> DEFINE s == item[t]
<1> DEFINE after == IF hand[t] = s THEN Rest(t) ELSE "run"
<1> USE DEF IInv
<1>1. s \in Sessions /\ hand[t] \in Sessions /\ pc[t] = "put"
  BY DEF Control, TypeOK, PutItem
<1>2. /\ queue' = Append(queue, s)
      /\ hand' = IF hand[t] = s THEN [hand EXCEPT ![t] = NoSession] ELSE hand
      /\ item' = [item EXCEPT ![t] = NoSession]
      /\ UNCHANGED <<inflight, fresh, finished, pushes>>
  BY DEF PutItem
<1>3. /\ queue' \in Seq(Sessions)
      /\ Len(queue') = Len(queue) + 1
      /\ Queued' = Queued \cup {s}
      /\ \A i \in 1 .. Len(queue) : queue'[i] = queue[i]
      /\ queue'[Len(queue) + 1] = s
  BY <1>1, <1>2, AppendQueue DEF TypeOK
<1>4. Len(queue) \in Nat
  BY LenProperties DEF TypeOK
<1>5. PICK mid : mid = [pc EXCEPT ![t] = after]
  OBVIOUS
<1>6. after \in {"get", "idle", "run"} /\ Moves(pc, t, "put", after, mid)
  BY <1>1, <1>5 DEF TypeOK, Moves, Places, Rest
<1>7. mid \in [Threads -> Places] /\ pc' \in NotifyOne(mid, "getWait", "get")
  BY <1>5, <1>6, CountMove DEF PutItem
<1>8. pc' \in [Threads -> Places]
  BY <1>7, NotifyOneLemma DEF Places
<1>9. TypeOK'
  <2>1. Room /\ queue \in Seq(Sessions)
    BY DEF PutItem, TypeOK
  <2>2. MaxTask >= 0 => Len(queue') <= MaxTask
    BY <1>3, <1>4, <2>1, MaxTaskAssumption DEF Room
  <2> QED
    BY <1>2, <1>3, <1>8, <2>2 DEF TypeOK
<1>10. ExclusiveSession'
  <2>1. s \notin Queued \cup inflight \cup fresh \cup finished
    BY <1>1 DEF ExclusiveSession, HeldAlone, Held
  <2>2. OnceQueued'
    <3> SUFFICES ASSUME NEW i \in 1 .. Len(queue'), NEW j \in 1 .. Len(queue'),
                        queue'[i] = queue'[j], i < j
                 PROVE  FALSE
      BY <1>3, <1>4 DEF OnceQueued
    <3>1. i \in 1 .. Len(queue)
      BY <1>3, <1>4
    <3>2. CASE j = Len(queue) + 1
      BY <1>3, <2>1, <3>1, <3>2 DEF Queued
    <3>3. CASE j # Len(queue) + 1
      <4>1. j \in 1 .. Len(queue)
        BY <1>3, <1>4, <3>3
      <4> QED
        BY <1>3, <1>4, <3>1, <4>1 DEF ExclusiveSession, OnceQueued
    <3> QED
      BY <3>2, <3>3
  <2>3. \A u \in Threads : Held(u)' = Held(u) \ {s}
    <3> SUFFICES ASSUME NEW u \in Threads PROVE Held(u)' = Held(u) \ {s}
      OBVIOUS
    <3>1. CASE u = t
      BY <3>1, <1>1, <1>2, SessionsAssumption DEF Held, TypeOK
    <3>2. CASE u # t
      BY <3>2, <1>1, <1>2 DEF Held, TypeOK, ExclusiveSession, HeldAlone
    <3> QED
      BY <3>1, <3>2
  <2> QED
    BY <1>2, <1>3, <2>1, <2>2, <2>3 DEF ExclusiveSession, HeldAlone, PlacesDisjoint
<1>11. NoLostWakeup'
  <2>1. /\ CountIn(mid, after) = CountIn(pc, after) + 1
        /\ CountIn(mid, "put") = CountIn(pc, "put") - 1
        /\ \A p : p # after /\ p # "put" => CountIn(mid, p) = CountIn(pc, p)
    BY <1>6, CountMove
  <2>2. /\ CountIn(mid, "putWait") = CountIn(pc, "putWait")
        /\ CountIn(mid, "getWait") = CountIn(pc, "getWait")
        /\ CountIn(mid, "get") >= CountIn(pc, "get")
    <3>1. CountIn(pc, "get") \in Nat
      BY CountType
    <3> QED
      BY <1>6, <2>1, <3>1
  <2>3. /\ CountIn(pc', "put") = CountIn(mid, "put")
        /\ CountIn(pc', "putWait") = CountIn(mid, "putWait")
        /\ \/ CountIn(mid, "getWait") = 0 /\ CountIn(pc', "getWait") = 0
           \/ CountIn(mid, "getWait") > 0 /\ CountIn(pc', "get") = CountIn(mid, "get") + 1
    BY <1>7, NotifyOneLemma DEF Places
  <2>4. \A p : CountIn(pc, p) \in Nat /\ CountIn(mid, p) \in Nat /\ CountIn(pc', p) \in Nat
    BY CountType
  <2>5. WakeupsIn(pc, Len(queue))
    BY WakeupCounts
  <2>6. WakeupsIn(pc', Len(queue) + 1)
    BY <1>4, <2>1, <2>2, <2>3, <2>4, <2>5, MaxTaskAssumption DEF WakeupsIn
  <2> QED
    BY <1>3, <2>6, WakeupCounts
<1>12. NoneForgotten'
  <2>1. \A u \in Threads : Held(u) \subseteq Held(u)' \cup {s}
    BY <1>1, <1>2 DEF Held, TypeOK
  <2> QED
    BY <1>2, <1>3, <2>1 DEF NoneForgotten, Live
<1>13. Control'
  <2>1. /\ mid[t] = after
        /\ \A u \in Threads : u # t => mid[u] = pc[u]
    BY <1>5 DEF TypeOK
  <2>2. \A u \in Threads : pc'[u] = mid[u] \/ (mid[u] = "getWait" /\ pc'[u] = "get")
    BY <1>7, NotifyOneLemma DEF Places
  <2>3. t \notin Workers => after # "get"
    BY DEF Rest
  <2>4. t \in Workers => after # "idle"
    BY DEF Rest
  <2>5. hand'[t] \in Sessions <=> after = "run"
    BY <1>1, <1>2, SessionsAssumption DEF TypeOK, Rest
  <2>6. item'[t] \notin Sessions
    BY <1>2, SessionsAssumption DEF TypeOK
  <2>7. \A u \in Threads : u # t => hand'[u] = hand[u] /\ item'[u] = item[u]
    BY <1>2 DEF TypeOK
  <2> QED
    BY <1>6, <2>1, <2>2, <2>3, <2>4, <2>5, <2>6, <2>7 DEF Control
<1> QED
  BY <1>9, <1>10, <1>11, <1>12, <1>13

LEMMA GetItemStep ==
  ASSUME IInv, NEW t \in Threads, GetItem(t)
  PROVE  IInv'
<1> DEFINE s == Head(queue)
<1> USE DEF IInv
<1>1. /\ queue # <<>>
      /\ queue' = Tail(queue)
      /\ hand' = [hand EXCEPT ![t] = s]
      /\ UNCHANGED <<item, inflight, fresh, finished, pushes>>
  BY DEF GetItem
<1>2. /\ queue' \in Seq(Sessions)
      /\ Len(queue) \in Nat \ {0}
      /\ Len(queue') = Len(queue) - 1
      /\ s = queue[1] /\ s \in Sessions
      /\ Queued = Queued' \cup {s}
      /\ \A i \in 1 .. Len(queue') : queue'[i] = queue[i + 1]
  BY <1>1, TailQueue DEF TypeOK
<1>3. pc[t] = "get" /\ t \in Workers /\ Held(t) = {}
  BY DEF Control, TypeOK, GetItem, Held
<1>4. PICK mid : mid = [pc EXCEPT ![t] = "run"]
  OBVIOUS
<1>5. Moves(pc, t, "get", "run", mid)
  BY <1>3, <1>4 DEF TypeOK, Moves, Places
<1>6. mid \in [Threads -> Places] /\ pc' \in NotifyOne(mid, "putWait", "put")
  BY <1>4, <1>5, CountMove DEF GetItem
<1>7. pc' \in [Threads -> Places]
  BY <1>6, NotifyOneLemma DEF Places
<1>8. TypeOK'
  <2>1. MaxTask >= 0 => Len(queue') <= MaxTask
    BY <1>2, MaxTaskAssumption DEF TypeOK
  <2> QED
    BY <1>1, <1>2, <1>7, <2>1 DEF TypeOK
<1>9. s \notin Queued'
  <2>1. ASSUME NEW i \in 1 .. Len(queue'), queue'[i] = s
        PROVE  FALSE
    <3>1. /\ 1 \in 1 .. Len(queue)
          /\ i + 1 \in 1 .. Len(queue)
          /\ queue[i + 1] = queue[1]
      BY <1>2, <2>1
    <3>2. i + 1 = 1
      BY <3>1 DEF ExclusiveSession, OnceQueued
    <3> QED
      BY <3>2
  <2> QED
    BY <2>1 DEF Queued
<1>10. \A u \in Threads : Held(u)' = IF u = t THEN {s} ELSE Held(u)
  BY <1>1, <1>2, <1>3 DEF Held, TypeOK
<1>11. ExclusiveSession'
  <2>1. s \in Queued
    BY <1>2
  <2>2. /\ s \notin inflight \cup fresh \cup finished
        /\ \A u \in Threads : s \notin Held(u)
    BY <2>1 DEF ExclusiveSession, HeldAlone, PlacesDisjoint
  <2>3. OnceQueued'
    <3> SUFFICES ASSUME NEW i \in 1 .. Len(queue'), NEW j \in 1 .. Len(queue'),
                        queue'[i] = queue'[j]
                 PROVE  i = j
      BY DEF OnceQueued
    <3>1. i + 1 \in 1 .. Len(queue) /\ j + 1 \in 1 .. Len(queue) /\ queue[i + 1] = queue[j + 1]
      BY <1>2
    <3>2. i + 1 = j + 1
      BY <3>1 DEF ExclusiveSession, OnceQueued
    <3> QED
      BY <3>2
  <2> QED
    BY <1>1, <1>2, <1>9, <1>10, <2>2, <2>3 DEF ExclusiveSession, HeldAlone, PlacesDisjoint
<1>12. NoLostWakeup'
  <2>1. /\ CountIn(mid, "get") = CountIn(pc, "get") - 1
        /\ CountIn(mid, "put") = CountIn(pc, "put")
        /\ CountIn(mid, "putWait") = CountIn(pc, "putWait")
        /\ CountIn(mid, "getWait") = CountIn(pc, "getWait")
    BY <1>5, CountMove
  <2>2. /\ CountIn(pc', "get") = CountIn(mid, "get")
        /\ CountIn(pc', "getWait") = CountIn(mid, "getWait")
        /\ \/ CountIn(mid, "putWait") = 0 /\ CountIn(pc', "putWait") = 0
           \/ CountIn(mid, "putWait") > 0 /\ CountIn(pc', "put") = CountIn(mid, "put") + 1
    BY <1>6, NotifyOneLemma DEF Places
  <2>3. \A p : CountIn(pc, p) \in Nat /\ CountIn(mid, p) \in Nat /\ CountIn(pc', p) \in Nat
    BY CountType
  <2>4. WakeupsIn(pc, Len(queue))
    BY WakeupCounts
  <2>5. WakeupsIn(pc', Len(queue) - 1)
    BY <1>2, <2>1, <2>2, <2>3, <2>4, MaxTaskAssumption DEF WakeupsIn
  <2> QED
    BY <1>2, <2>5, WakeupCounts
<1>13. NoneForgotten'
  BY <1>1, <1>2, <1>3, <1>10 DEF NoneForgotten, Live
<1>14. Control'
  <2>1. mid[t] = "run" /\ \A u \in Threads : u # t => mid[u] = pc[u]
    BY <1>4 DEF TypeOK
  <2>2. \A u \in Threads : pc'[u] = mid[u] \/ (mid[u] = "putWait" /\ pc'[u] = "put")
    BY <1>6, NotifyOneLemma DEF Places
  <2>3. hand'[t] \in Sessions /\ item'[t] \notin Sessions
    BY <1>1, <1>2, <1>3 DEF TypeOK, Held
  <2>4. \A u \in Threads : u # t => hand'[u] = hand[u] /\ item'[u] = item[u]
    BY <1>1 DEF TypeOK
  <2> QED
    BY <1>3, <2>1, <2>2, <2>3, <2>4 DEF Control
<1> QED
  BY <1>8, <1>11, <1>12, <1>13, <1>14

LEMMA BlockStep ==
  ASSUME IInv, NEW t \in Threads, PutBlocks(t) \/ GetBlocks(t)
  PROVE  IInv'
<1> USE DEF IInv
<1>1. PICK a \in {"put", "get"} :
        /\ Moves(pc, t, a, IF a = "put" THEN "putWait" ELSE "getWait", pc')
        /\ a = "put" => MaxTask >= 0 /\ Len(queue) >= MaxTask
        /\ a = "get" => Len(queue) = 0
  <2>1. Len(queue) \in Nat
    BY LenProperties DEF TypeOK
  <2>2. CASE PutBlocks(t)
    BY <2>1, <2>2, MaxTaskAssumption DEF PutBlocks, Room, Moves, TypeOK, Places
  <2>3. CASE GetBlocks(t)
    BY <2>3 DEF GetBlocks, Moves, TypeOK, Places
  <2> QED
    BY <2>2, <2>3
<1>2. UNCHANGED <<queue, hand, item, inflight, fresh, finished, pushes>>
  BY DEF PutBlocks, GetBlocks
<1>3. TypeOK'
  BY <1>1, <1>2 DEF TypeOK, Moves, Places
<1>4. ExclusiveSession' /\ NoneForgotten'
  BY <1>2 DEF ExclusiveSession, OnceQueued, HeldAlone, PlacesDisjoint, Held, Queued,
              NoneForgotten, Live
<1>5. NoLostWakeup'
  <2>1. \A p : CountIn(pc, p) \in Nat /\ CountIn(pc', p) \in Nat
    BY CountType
  <2>2. WakeupsIn(pc, Len(queue))
    BY WakeupCounts
  <2>3. Len(queue) \in Nat
    BY LenProperties DEF TypeOK
  <2>4. CASE a = "put"
    <3>1. Moves(pc, t, "put", "putWait", pc')
      BY <1>1, <2>4
    <3>2. /\ CountIn(pc', "getWait") = CountIn(pc, "getWait")
          /\ CountIn(pc', "get") = CountIn(pc, "get")
      BY <3>1, CountMove
    <3> QED
      BY <1>1, <1>2, <2>1, <2>2, <2>3, <2>4, <3>2, MaxTaskAssumption, WakeupCounts DEF WakeupsIn
  <2>5. CASE a = "get"
    <3>1. Moves(pc, t, "get", "getWait", pc')
      BY <1>1, <2>5
    <3>2. /\ CountIn(pc', "putWait") = CountIn(pc, "putWait")
          /\ CountIn(pc', "put") = CountIn(pc, "put")
      BY <3>1, CountMove
    <3> QED
      BY <1>1, <1>2, <2>1, <2>2, <2>3, <2>5, <3>2, MaxTaskAssumption, WakeupCounts DEF WakeupsIn
  <2> QED
    BY <2>4, <2>5
<1>6. Control'
  <2>1. /\ \A u \in Threads : u # t => pc'[u] = pc[u]
        /\ \/ pc[t] = "put" /\ pc'[t] = "putWait"
           \/ pc[t] = "get" /\ pc'[t] = "getWait"
    BY <1>1 DEF Moves
  <2> QED
    BY <1>2, <2>1 DEF Control
<1> QED
  BY <1>3, <1>4, <1>5, <1>6

(* The steps that leave the queue alone and in which nobody leaves Put or  *)
(* Get: what is left to look at is who holds which session.                *)
LEMMA QuietStep ==
  ASSUME IInv, queue' = queue, NEW t, NEW a, NEW b, Moves(pc, t, a, b, pc'),
         a \notin {"put", "get"}, b \notin {"putWait", "getWait"}
  PROVE  /\ pc' \in [Threads -> Places]
         /\ Queued' = Queued
         /\ OnceQueued'
         /\ NoLostWakeup'
         /\ pc'[t] = b
         /\ \A u \in Threads : u # t => pc'[u] = pc[u]
<1>1. NoLostWakeup'
  BY WakeupKept DEF IInv, TypeOK
<1> QED
  BY <1>1 DEF IInv, Moves, Queued, OnceQueued, ExclusiveSession

LEMMA SpuriousWakeupStep ==
  ASSUME IInv, NEW t \in Threads, SpuriousWakeup(t)
  PROVE  IInv'
<1> USE DEF IInv
<1>1. UNCHANGED <<queue, hand, item, inflight, fresh, finished, pushes>>
  BY DEF SpuriousWakeup
<1>2. PICK a \in {"putWait", "getWait"} :
        Moves(pc, t, a, IF a = "putWait" THEN "put" ELSE "get", pc')
  BY DEF SpuriousWakeup, Moves, TypeOK, Places
<1>3. /\ pc' \in [Threads -> Places]
      /\ NoLostWakeup'
      /\ pc'[t] = IF a = "putWait" THEN "put" ELSE "get"
      /\ \A u \in Threads : u # t => pc'[u] = pc[u]
  BY <1>1, <1>2, QuietStep
<1>4. TypeOK'
  BY <1>1, <1>3 DEF TypeOK
<1>5. ExclusiveSession' /\ NoneForgotten'
  BY <1>1 DEF ExclusiveSession, OnceQueued, HeldAlone, PlacesDisjoint, Held, Queued,
              NoneForgotten, Live
<1>6. Control'
  BY <1>1, <1>2, <1>3 DEF Control, Moves
<1> QED
  BY <1>3, <1>4, <1>5, <1>6

LEMMA NewSessionStep ==
  ASSUME IInv, NEW s \in Sessions, NewSession(s)
  PROVE  IInv'
<1> USE SessionsAssumption DEF IInv
<1>1. /\ UNCHANGED <<queue, inflight, finished, pushes>>
      /\ s \in fresh
      /\ fresh' = fresh \ {s}
      /\ hand' = [hand EXCEPT ![Consumer] = s]
      /\ item' = [item EXCEPT ![Consumer] = s]
  BY DEF NewSession
<1>2. Consumer \in Threads /\ Moves(pc, Consumer, "idle", "put", pc')
  BY DEF NewSession, Moves, TypeOK, Places, Threads
<1>3. /\ pc' \in [Threads -> Places]
      /\ Queued' = Queued /\ OnceQueued'
      /\ NoLostWakeup'
      /\ pc'[Consumer] = "put"
      /\ \A u \in Threads : u # Consumer => pc'[u] = pc[u]
  BY <1>1, <1>2, QuietStep
<1>4. TypeOK'
  BY <1>1, <1>3 DEF TypeOK
<1>5. pc[Consumer] = "idle" /\ Held(Consumer) = {}
  BY <1>2 DEF Control, Held, Moves
<1>6. \A u \in Threads : Held(u)' = IF u = Consumer THEN {s} ELSE Held(u)
  BY <1>1, <1>2 DEF Held, TypeOK
<1>7. /\ s \notin Queued \cup inflight \cup finished
      /\ \A u \in Threads : s \notin Held(u)
  BY <1>1 DEF ExclusiveSession, HeldAlone, PlacesDisjoint
<1>8. ExclusiveSession'
  BY <1>1, <1>3, <1>6, <1>7 DEF ExclusiveSession, HeldAlone, PlacesDisjoint
<1>9. NoneForgotten'
  BY <1>1, <1>2, <1>3, <1>5, <1>6 DEF NoneForgotten, Live
<1>10. Control'
  <2>1. /\ hand'[Consumer] = s /\ item'[Consumer] = s
        /\ \A u \in Threads : u # Consumer => hand'[u] = hand[u] /\ item'[u] = item[u]
    BY <1>1, <1>2 DEF TypeOK
  <2> QED
    BY <1>2, <1>3, <2>1, ThreadsAssumption DEF Control
<1> QED
  BY <1>3, <1>4, <1>8, <1>9, <1>10

LEMMA DispatchStep ==
  ASSUME IInv, NEW t \in Threads, NEW s \in Sessions, Dispatch(t, s)
  PROVE  IInv'
<1> USE SessionsAssumption DEF IInv
<1>1. /\ UNCHANGED <<queue, hand, inflight, finished, pushes>>
      /\ s \in fresh
      /\ fresh' = fresh \ {s}
      /\ item' = [item EXCEPT ![t] = s]
  BY DEF Dispatch
<1>2. Moves(pc, t, "run", "put", pc')
  BY DEF Dispatch, Moves, TypeOK, Places
<1>3. /\ pc' \in [Threads -> Places]
      /\ Queued' = Queued /\ OnceQueued'
      /\ NoLostWakeup'
      /\ pc'[t] = "put"
      /\ \A u \in Threads : u # t => pc'[u] = pc[u]
  BY <1>1, <1>2, QuietStep
<1>4. TypeOK'
  BY <1>1, <1>3 DEF TypeOK
<1>5. /\ pc[t] = "run"
      /\ hand[t] \in Sessions
      /\ item[t] \notin Sessions
  BY <1>2 DEF Control, Moves
<1>6. \A u \in Threads : Held(u)' = IF u = t THEN Held(u) \cup {s} ELSE Held(u)
  BY <1>1, <1>5 DEF Held, TypeOK
<1>7. /\ s \notin Queued \cup inflight \cup finished
      /\ \A u \in Threads : s \notin Held(u)
  BY <1>1 DEF ExclusiveSession, HeldAlone, PlacesDisjoint
<1>8. ExclusiveSession'
  <2>1. HeldAlone'
    BY <1>1, <1>3, <1>6, <1>7 DEF ExclusiveSession, HeldAlone
  <2> QED
    BY <1>1, <1>3, <1>7, <2>1 DEF ExclusiveSession, PlacesDisjoint
<1>9. NoneForgotten'
  BY <1>1, <1>3, <1>6 DEF NoneForgotten, Live
<1>10. Control'
  <2>1. /\ item'[t] = s
        /\ \A u \in Threads : u # t => item'[u] = item[u]
    BY <1>1 DEF TypeOK
  <2> QED
    BY <1>1, <1>3, <1>5, <2>1 DEF Control
<1> QED
  BY <1>3, <1>4, <1>8, <1>9, <1>10

LEMMA PushMsgStep ==
  ASSUME IInv, NEW t \in Threads, PushMsg(t)
  PROVE  IInv'
<1> USE SessionsAssumption DEF IInv
<1>1. /\ UNCHANGED <<queue, hand, inflight, fresh, finished>>
      /\ pushes[hand[t]] < MaxPushes
      /\ pushes' = [pushes EXCEPT ![hand[t]] = @ + 1]
      /\ item' = [item EXCEPT ![t] = hand[t]]
  BY DEF PushMsg
<1>2. Moves(pc, t, "run", "put", pc')
  BY DEF PushMsg, Moves, TypeOK, Places
<1>3. /\ pc' \in [Threads -> Places]
      /\ Queued' = Queued /\ OnceQueued'
      /\ NoLostWakeup'
      /\ pc'[t] = "put"
      /\ \A u \in Threads : u # t => pc'[u] = pc[u]
  BY <1>1, <1>2, QuietStep
<1>4. /\ pc[t] = "run"
      /\ hand[t] \in Sessions
      /\ item[t] \notin Sessions
  BY <1>2 DEF Control, Moves
<1>5. TypeOK'
  <2>1. pushes' \in [Sessions -> 0 .. MaxPushes]
    <3>1. pushes[hand[t]] + 1 \in 0 .. MaxPushes
      BY <1>1, <1>4, MaxPushesAssumption DEF TypeOK
    <3> QED
      BY <1>1, <3>1 DEF TypeOK
  <2> QED
    BY <1>1, <1>3, <1>4, <2>1 DEF TypeOK
<1>6. \A u \in Threads : Held(u)' = Held(u)
  BY <1>1, <1>4 DEF Held, TypeOK
<1>7. ExclusiveSession' /\ NoneForgotten'
  BY <1>1, <1>3, <1>6 DEF ExclusiveSession, HeldAlone, PlacesDisjoint, NoneForgotten, Live
<1>8. Control'
  <2>1. /\ item'[t] = hand[t]
        /\ \A u \in Threads : u # t => item'[u] = item[u]
    BY <1>1 DEF TypeOK
  <2> QED
    BY <1>1, <1>3, <1>4, <2>1 DEF Control
<1> QED
  BY <1>3, <1>5, <1>7, <1>8

(* Final and SendRequest: the thread lets go of its session.               *)
LEMMA LetGoStep ==
  ASSUME IInv, NEW t \in Threads, Final(t) \/ SendRequest(t)
  PROVE  IInv'
<1> DEFINE s == hand[t]
<1> USE SessionsAssumption DEF IInv
<1>1. /\ UNCHANGED <<queue, item, fresh, pushes>>
      /\ hand' = [hand EXCEPT ![t] = NoSession]
      /\ \/ finished' = finished \cup {s} /\ inflight' = inflight
         \/ finished' = finished /\ inflight' = inflight \cup {s}
  BY DEF Final, SendRequest
<1>2. Moves(pc, t, "run", Rest(t), pc')
  BY DEF Final, SendRequest, Moves, TypeOK, Places, Rest
<1>3. Rest(t) \in {"get", "idle"}
  BY DEF Rest
<1>4. /\ pc' \in [Threads -> Places]
      /\ Queued' = Queued /\ OnceQueued'
      /\ NoLostWakeup'
      /\ pc'[t] = Rest(t)
      /\ \A u \in Threads : u # t => pc'[u] = pc[u]
  BY <1>1, <1>2, <1>3, QuietStep
<1>5. pc[t] = "run" /\ s \in Sessions /\ item[t] \notin Sessions
  BY <1>2 DEF Control, Moves
<1>6. TypeOK'
  BY <1>1, <1>4, <1>5 DEF TypeOK
<1>7. \A u \in Threads : Held(u)' = IF u = t THEN {} ELSE Held(u)
  BY <1>1, <1>5 DEF Held, TypeOK
<1>8. Held(t) = {s}
  BY <1>5 DEF Held
<1>9. /\ s \notin Queued \cup inflight \cup fresh \cup finished
      /\ \A u \in Threads : u # t => s \notin Held(u)
  BY <1>8 DEF ExclusiveSession, HeldAlone
<1>10. ExclusiveSession'
  BY <1>1, <1>4, <1>7, <1>9 DEF ExclusiveSession, HeldAlone, PlacesDisjoint
<1>11. NoneForgotten'
  BY <1>1, <1>4, <1>7, <1>8 DEF NoneForgotten, Live
<1>12. Control'
  <2>1. /\ hand'[t] = NoSession
        /\ \A u \in Threads : u # t => hand'[u] = hand[u]
    BY <1>1 DEF TypeOK
  <2> QED
    BY <1>1, <1>4, <1>5, <2>1 DEF Control, Rest
<1> QED
  BY <1>4, <1>6, <1>10, <1>11, <1>12

LEMMA CallbackStep ==
  ASSUME IInv, NEW t \in IoThreads, NEW s \in Sessions, Callback(t, s)
  PROVE  IInv'
<1> USE SessionsAssumption DEF IInv
<1>1. /\ UNCHANGED <<queue, item, fresh, finished, pushes>>
      /\ s \in inflight
      /\ inflight' = inflight \ {s}
      /\ hand' = [hand EXCEPT ![t] = s]
  BY DEF Callback
<1>2. t \in Threads /\ Moves(pc, t, "idle", "run", pc')
  BY DEF Callback, Moves, TypeOK, Places, Threads
<1>3. /\ pc' \in [Threads -> Places]
      /\ Queued' = Queued /\ OnceQueued'
      /\ NoLostWakeup'
      /\ pc'[t] = "run"
      /\ \A u \in Threads : u # t => pc'[u] = pc[u]
  BY <1>1, <1>2, QuietStep
<1>4. TypeOK'
  BY <1>1, <1>3 DEF TypeOK
<1>5. pc[t] = "idle" /\ hand[t] \notin Sessions /\ item[t] \notin Sessions
  BY <1>2 DEF Control, Moves
<1>6. \A u \in Threads : Held(u)' = IF u = t THEN {s} ELSE Held(u)
  BY <1>1, <1>2, <1>5 DEF Held, TypeOK
<1>7. /\ s \notin Queued \cup fresh \cup finished
      /\ \A u \in Threads : s \notin Held(u)
      /\ Held(t) = {}
  BY <1>1, <1>5 DEF ExclusiveSession, HeldAlone, PlacesDisjoint, Held
<1>8. ExclusiveSession'
  BY <1>1, <1>3, <1>6, <1>7 DEF ExclusiveSession, HeldAlone, PlacesDisjoint
<1>9. NoneForgotten'
  BY <1>1, <1>2, <1>3, <1>6, <1>7 DEF NoneForgotten, Live
<1>10. Control'
  <2>1. /\ hand'[t] = s
        /\ \A u \in Threads : u # t => hand'[u] = hand[u]
    BY <1>1, <1>2 DEF TypeOK
  <2> QED
    BY <1>1, <1>2, <1>3, <1>5, <2>1 DEF Control
<1> QED
  BY <1>3, <1>4, <1>8, <1>9, <1>10

LEMMA NextIInv == IInv /\ [Next]_vars => IInv'
<1> SUFFICES ASSUME IInv, [Next]_vars PROVE IInv'
  OBVIOUS
<1>1. CASE \E t \in Threads : BufferStep(t) \/ SpuriousWakeup(t)
  BY <1>1, PutItemStep, GetItemStep, BlockStep, SpuriousWakeupStep DEF BufferStep
<1>2. CASE \E t \in Threads : SessionStep(t)
  BY <1>2, DispatchStep, PushMsgStep, LetGoStep DEF SessionStep
<1>3. CASE \E s \in Sessions : NewSession(s)
  BY <1>3, NewSessionStep
<1>4. CASE \E t \in IoThreads, s \in Sessions : Callback(t, s)
  BY <1>4, CallbackStep
<1>5. CASE UNCHANGED vars
  BY <1>5 DEF vars, IInv, TypeOK, ExclusiveSession, OnceQueued, HeldAlone, PlacesDisjoint, Held,
              Queued, NoLostWakeup, Count, NoneForgotten, Live, Control
<1> QED
  BY <1>1, <1>2, <1>3, <1>4, <1>5 DEF Next

(* IInv holds of every reachable state: whatever the interleaving of Put,  *)
(* Get, notifications and callbacks.                                       *)
THEOREM Invariance == Spec => []IInv
<1>1. Init => IInv
  BY InitIInv
<1>2. IInv /\ [Next]_vars => IInv'
  BY NextIInv
<1> QED
  BY <1>1, <1>2, PTL DEF Spec

(* The variables keep their types, for any number of threads and sessions. *)
THEOREM WorkerTypeCorrect == Spec => []TypeOK
<1>1. IInv => TypeOK
  BY DEF IInv
<1> QED
  BY <1>1, Invariance, PTL

(* A session is never in two places (session.h: "MultiThread Unsafe!!!").  *)
THEOREM SessionsStayExclusive == Spec => []ExclusiveSession
<1>1. IInv => ExclusiveSession
  BY DEF IInv
<1> QED
  BY <1>1, Invariance, PTL

(* No session that is not final falls out of the pipeline.                 *)
THEOREM SessionsStayAccountedFor == Spec => []NoneForgotten
<1>1. IInv => NoneForgotten
  BY DEF IInv
<1> QED
  BY <1>1, Invariance, PTL

(* The two condition variables of FIFOBuffer lose no wake-up.              *)
THEOREM WakeupsArriveInTime == Spec => []NoLostWakeup
<1>1. IInv => NoLostWakeup
  BY DEF IInv
<1> QED
  BY <1>1, Invariance, PTL

-----------------------------------------------------------------------------
(* A standstill needs MaxTask + Cardinality(Workers) live sessions.        *)

(* The sessions of the queue are as many as it is long.                    *)
LEMMA QueuedCardinality ==
  ASSUME TypeOK, OnceQueued
  PROVE  IsFiniteSet(Queued) /\ Cardinality(Queued) = Len(queue)
<1>1. Len(queue) \in Nat
  BY LenProperties DEF TypeOK
<1>2. IsFiniteSet(1 .. Len(queue)) /\ Cardinality(1 .. Len(queue)) = Len(queue)
  <2>1. IsFiniteSet(1 .. Len(queue))
    BY <1>1, FS_Interval
  <2>2. Cardinality(1 .. Len(queue)) = IF 1 > Len(queue) THEN 0 ELSE Len(queue) - 1 + 1
    BY <1>1, FS_Interval
  <2> QED
    BY ONLY <1>1, <2>1, <2>2
<1> DEFINE f == [i \in 1 .. Len(queue) |-> queue[i]]
<1>3. f \in [1 .. Len(queue) -> Queued]
  BY DEF Queued
<1>4. \A i, j \in 1 .. Len(queue) : f[i] = f[j] => i = j
  BY DEF OnceQueued
<1>5. \A s \in Queued : \E i \in 1 .. Len(queue) : f[i] = s
  BY DEF Queued
<1> HIDE DEF f
<1>6. f \in Bijection(1 .. Len(queue), Queued)
  BY <1>3, <1>4, <1>5, Fun_IsBij
<1> QED
  BY <1>2, <1>6, FS_Bijection DEF ExistsBijection

(* So are the sessions of workers that each have one.                      *)
LEMMA HandsCardinality ==
  ASSUME HeldAlone, \A w \in Workers : hand[w] \in Sessions
  PROVE  LET hands == {hand[w] : w \in Workers}
         IN  IsFiniteSet(hands) /\ Cardinality(hands) = Cardinality(Workers)
<1> DEFINE f == [w \in Workers |-> hand[w]]
<1> DEFINE hands == {hand[w] : w \in Workers}
<1>1. \A w, v \in Workers : hand[w] = hand[v] => w = v
  BY DEF HeldAlone, Held, Threads
<1>2. /\ f \in [Workers -> hands]
      /\ \A w, v \in Workers : f[w] = f[v] => w = v
      /\ \A s \in hands : \E w \in Workers : f[w] = s
  BY <1>1
<1> HIDE DEF f
<1>3. f \in Bijection(Workers, hands)
  BY <1>2, Fun_IsBij
<1> QED
  BY <1>3, WorkersAssumption, FS_Bijection DEF ExistsBijection

(* When all workers wait in Put, the queue is full and each has a session  *)
(* of its own.                                                             *)
LEMMA AllWorkersWaiting ==
  ASSUME IInv, \A t \in Threads : pc[t] \in {"idle", "getWait", "putWait"},
         \A w \in Workers : pc[w] = "putWait"
  PROVE  MaxTask >= 0 /\ Cardinality(Live) >= MaxTask + Cardinality(Workers)
<1> DEFINE hands == {hand[w] : w \in Workers}
<1> USE DEF IInv, ExclusiveSession
<1>1. CountIn(pc, "putWait") # 0 /\ CountIn(pc, "put") = 0 /\ CountIn(pc, "putWait") \in Nat
  BY CountType, WorkersAssumption DEF Threads
<1>2. Len(queue) \in Nat
  BY LenProperties DEF TypeOK
<1>3. MaxTask >= 0 /\ Len(queue) = MaxTask
  BY <1>1, <1>2, WakeupCounts, MaxTaskAssumption DEF WakeupsIn, TypeOK
<1>4. \A w \in Workers : hand[w] \in Sessions /\ w \in Threads
  BY DEF Control, Threads
<1>5. IsFiniteSet(Queued) /\ Cardinality(Queued) = MaxTask
  BY <1>3, QueuedCardinality
<1>6. IsFiniteSet(hands) /\ Cardinality(hands) = Cardinality(Workers)
  BY <1>4, HandsCardinality
<1>7. Queued \cap hands = {}
  BY <1>4 DEF HeldAlone, Held
<1>8. Queued \cup hands \subseteq Live
  <2>1. Queued \subseteq Live
    BY DEF PlacesDisjoint, Live, Queued, TypeOK
  <2>2. hands \subseteq Live
    BY <1>4 DEF HeldAlone, Held, Live
  <2> QED
    BY <2>1, <2>2
<1>9. IsFiniteSet(Live) /\ Cardinality(Live) \in Nat
  BY SessionsAssumption, FS_Subset, FS_CardinalityType DEF Live
<1>10. Cardinality(Queued \cup hands) = MaxTask + Cardinality(Workers)
  <2>1. Cardinality(Queued \cap hands) = 0
    BY <1>7, FS_EmptySet
  <2>2. Cardinality(Workers) \in Nat
    BY WorkersAssumption, FS_CardinalityType
  <2> QED
    <3> HIDE DEF hands
    <3>1. Cardinality(Queued \cup hands)
            = Cardinality(Queued) + Cardinality(hands) - Cardinality(Queued \cap hands)
      BY <1>5, <1>6, FS_Union
    <3> QED
      BY <1>5, <1>6, <2>1, <2>2, <3>1, MaxTaskAssumption
<1>11. Cardinality(Queued \cup hands) <= Cardinality(Live)
  BY <1>8, <1>9, FS_Subset
<1> QED
  BY <1>3, <1>9, <1>10, <1>11

LEMMA StandstillNeedsOverload ==
  ASSUME IInv
  PROVE  NoStandstill
<1> SUFFICES ASSUME Stuck, MaxTask # 0
             PROVE  MaxTask > 0 /\ Cardinality(Live) >= MaxTask + Cardinality(Workers)
  BY DEF NoStandstill
<1> USE DEF IInv
<1>1. \A t \in Threads : pc[t] \in {"idle", "getWait", "putWait"}
  BY DEF Stuck
<1>2. CountIn(pc, "put") = 0 /\ CountIn(pc, "get") = 0
  BY <1>1, CountType
<1>3. CountIn(pc, "getWait") \in Nat /\ CountIn(pc, "putWait") \in Nat
  BY CountType
<1>4. Len(queue) \in Nat
  BY LenProperties DEF TypeOK
<1>5. CASE \A w \in Workers : pc[w] = "putWait"
  BY <1>1, <1>5, AllWorkersWaiting, MaxTaskAssumption
<1>6. CASE \E w \in Workers : pc[w] = "getWait"
  <2>1. CountIn(pc, "getWait") > 0
    BY <1>3, <1>6, CountType DEF Threads
  <2>2. Len(queue) = 0
    BY <1>2, <1>4, <2>1, WakeupCounts DEF WakeupsIn
  <2>3. CountIn(pc, "putWait") = 0
    BY <1>2, <1>3, <2>2, WakeupCounts, MaxTaskAssumption DEF WakeupsIn
  <2>4. \A t \in Threads : pc[t] \in {"idle", "getWait"}
    BY <1>1, <2>3, CountType
  <2>5. \A t \in Threads : Held(t) = {}
    BY <2>4 DEF Control, Held
  <2>6. Queued = {}
    BY <2>2 DEF Queued
  <2>7. inflight # {}
    BY <2>5, <2>6 DEF Stuck, NoneForgotten
  <2>8. \A t \in IoThreads : pc[t] = "idle"
    BY <2>4, ThreadsAssumption DEF Control, Threads
  <2> QED
    BY <2>7, <2>8, ThreadsAssumption DEF Stuck
<1> QED
  BY <1>1, <1>5, <1>6 DEF Control, Threads

(* For every number of workers and every queue size: nobody can move only  *)
(* if there are as many live sessions as places in the queue and workers.  *)
THEOREM StandstillOnlyUnderOverload == Spec => []NoStandstill
<1>1. IInv => NoStandstill
  BY StandstillNeedsOverload
<1> QED
  BY <1>1, Invariance, PTL

=============================================================================
