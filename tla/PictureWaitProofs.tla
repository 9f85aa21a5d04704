--------------------------- MODULE PictureWaitProofs ---------------------------
(***************************************************************************)
(* Proofs about PictureWait: the lock excludes, a message goes on by one   *)
(* way, a parked message is kept until it is started, and the list in      *)
(* redis keeps the promise of Parking, for any sessions, faults and        *)
(* redeliveries.                                                           *)
(***************************************************************************)
EXTENDS PictureWait, TLAPS

-----------------------------------------------------------------------------
(* Lists.                                                                  *)

LEMMA ParkedEmpty == Parked(NoValue) = {} /\ Parked(TraceValue) = {}
  BY DEF Parked, NoValue, TraceValue

LEMMA ParkedList ==
  ASSUME NEW list, NEW b
  PROVE  b \in Parked(ParkedValue(list)) <=> \E i \in 1 .. Len(list) : list[i] = b
  BY DEF Parked, ParkedValue

LEMMA ParkedOne ==
  ASSUME NEW b, NEW c
  PROVE  c \in Parked(ParkedValue(<<b>>)) <=> c = b
<1>1. Len(<<b>>) = 1 /\ <<b>>[1] = b
  OBVIOUS
<1> QED
  BY <1>1, ParkedList

LEMMA ParkedAppend ==
  ASSUME NEW v, v.ptype = "Business", v.list \in Seq(Businesses), NEW b \in Businesses, NEW c
  PROVE  c \in Parked(ParkedValue(Append(v.list, b))) <=> c \in Parked(v) \/ c = b
<1> DEFINE l == v.list
           m == Append(l, b)
<1>1. Len(l) \in Nat /\ Len(m) = Len(l) + 1 /\ m[Len(m)] = b
  OBVIOUS
<1>2. \A i \in 1 .. Len(l) : m[i] = l[i]
  OBVIOUS
<1>3. c \in Parked(v) <=> \E i \in 1 .. Len(l) : l[i] = c
  BY DEF Parked
<1> HIDE DEF m, l
<1>4. (\E i \in 1 .. Len(m) : m[i] = c) <=> (\E i \in 1 .. Len(l) : l[i] = c) \/ c = b
  <2>1. 1 .. Len(m) = 1 .. Len(l) \cup {Len(m)}
    BY <1>1
  <2> QED
    BY <1>1, <1>2, <2>1
<1> QED
  BY <1>3, <1>4, ParkedList DEF m, l

LEMMA DistinctAppend ==
  ASSUME NEW l \in Seq(Businesses), NEW b \in Businesses, Distinct(l),
         \A i \in 1 .. Len(l) : l[i] # b
  PROVE  Distinct(Append(l, b))
  BY DEF Distinct

LEMMA TailElements ==
  ASSUME NEW l \in Seq(Businesses), l # <<>>
  PROVE  /\ Head(l) \in Businesses /\ Tail(l) \in Seq(Businesses)
         /\ Head(l) = l[1] /\ 1 \in 1 .. Len(l)
         /\ \A b : (\E i \in 1 .. Len(l) : l[i] = b)
                     <=> b = Head(l) \/ \E i \in 1 .. Len(Tail(l)) : Tail(l)[i] = b
         /\ Distinct(l) => Distinct(Tail(l)) /\ \A i \in 1 .. Len(Tail(l)) : Tail(l)[i] # Head(l)
         /\ \A i \in 1 .. Len(Tail(l)) : i + 1 \in 1 .. Len(l) /\ Tail(l)[i] = l[i + 1]
<1>1. Head(l) \in Businesses /\ Tail(l) \in Seq(Businesses) /\ Head(l) = l[1]
  OBVIOUS
<1>2. Len(l) \in Nat /\ Len(l) > 0 /\ Len(Tail(l)) = Len(l) - 1
  OBVIOUS
<1>3. \A i \in 1 .. Len(Tail(l)) : i + 1 \in 1 .. Len(l) /\ Tail(l)[i] = l[i + 1]
  BY <1>2
<1>4. \A i \in 1 .. Len(l) : i = 1 \/ (i - 1 \in 1 .. Len(Tail(l)) /\ l[i] = Tail(l)[i - 1])
  BY <1>2
<1> QED
  BY <1>1, <1>2, <1>3, <1>4 DEF Distinct

-----------------------------------------------------------------------------
(* Types.                                                                  *)

LEMMA ValueTypes ==
  ASSUME NEW b \in Businesses
  PROVE  /\ NoValue \in Values /\ TraceValue \in Values /\ ParkedValue(<<b>>) \in Values
         /\ \A v : v.ptype = "Business" /\ v.list \in Seq(Businesses)
                     => ParkedValue(Append(v.list, b)) \in Values
  BY DEF Values, NoValue, TraceValue, ParkedValue

LEMMA ListOf ==
  ASSUME NEW v \in Values
  PROVE  /\ v.ptype = "Business" => v.list \in Seq(Businesses) /\ v # NoValue /\ v # TraceValue
         /\ v.ptype # "Business" => Parked(v) = {}
  BY DEF Values, NoValue, TraceValue, Parked

LEMMA FaultsCount ==
  ASSUME TypeOK
  PROVE  /\ Fault => faults' \in 1 .. MaxFaults /\ faults' # 0
         /\ NoFault => faults' = faults
  BY BoundsAssumption DEF TypeOK, Fault, NoFault

LEMMA ParkedInBusinesses ==
  ASSUME NEW v, v \in Values
  PROVE  Parked(v) \subseteq Businesses
  BY DEF Values, Parked

(* Whatever SetValue is given, redis keeps a value, and history notes it.  *)
LEMMA SetValueType ==
  ASSUME TypeOK, NEW v, v \in Values, SetValue(v)
  PROVE  value' \in Values /\ parked' \subseteq Businesses /\ faults' \in 0 .. MaxFaults
  BY FaultsCount, ParkedInBusinesses, BoundsAssumption DEF TypeOK, SetValue

LEMMA TypeStep ==
  ASSUME TypeOK, [Next]_vars
  PROVE  TypeOK'
<1>0. (Fault => faults' \in 0 .. MaxFaults) /\ (NoFault => faults' \in 0 .. MaxFaults)
  BY BoundsAssumption DEF TypeOK, Fault, NoFault
<1>1. ASSUME NEW s \in Sessions, RedLock(s) \/ LockTimeout(s) \/ GetValueByKey(s)
      PROVE  TypeOK'
  <2>1. NoValue \in Values
    BY DEF Values, NoValue
  <2>2. CASE RedLock(s)
    BY <1>0, <2>2 DEF RedLock, TypeOK
  <2>3. CASE LockTimeout(s)
    BY <2>3 DEF LockTimeout, TypeOK
  <2>4. CASE GetValueByKey(s)
    BY <1>0, <2>1, <2>4 DEF GetValueByKey, TypeOK
  <2> QED
    BY <1>1, <2>2, <2>3, <2>4
<1>2. ASSUME NEW s \in Sessions, HandleWithoutKey(s)
      PROVE  TypeOK'
  <2>1. CASE s \in Businesses
    <3>1. SetValue(ParkedValue(<<s>>)) /\ ParkedValue(<<s>>) \in Values
      BY <1>2, <2>1, ValueTypes DEF HandleWithoutKey
    <3>2. value' \in Values /\ parked' \subseteq Businesses /\ faults' \in 0 .. MaxFaults
      BY <3>1, SetValueType
    <3> QED
      BY <1>2, <2>1, <3>2 DEF HandleWithoutKey, Return, TypeOK
  <2>2. CASE s \notin Businesses
    <3>1. SetValue(TraceValue) /\ TraceValue \in Values
      BY <1>2, <2>2 DEF HandleWithoutKey, Values, TraceValue
    <3>2. value' \in Values /\ parked' \subseteq Businesses /\ faults' \in 0 .. MaxFaults
      BY <3>1, SetValueType
    <3> QED
      BY <1>2, <2>2, <3>2 DEF HandleWithoutKey, Return, TypeOK
  <2> QED
    BY <2>1, <2>2
<1>3. ASSUME NEW s \in Sessions, ParkBehind(s)
      PROVE  TypeOK'
  <2>1. /\ s \in Businesses /\ seen[s].ptype = "Business" /\ seen[s] \in Values
        /\ SetValue(ParkedValue(Append(seen[s].list, s)))
    BY <1>3 DEF ParkBehind, TypeOK
  <2>2. ParkedValue(Append(seen[s].list, s)) \in Values
    BY <2>1, ListOf, ValueTypes
  <2>3. value' \in Values /\ parked' \subseteq Businesses /\ faults' \in 0 .. MaxFaults
    BY <2>1, <2>2, SetValueType
  <2> QED
    BY <1>3, <2>3 DEF ParkBehind, Return, TypeOK
<1>4. ASSUME NEW s \in Sessions, ResultPresent(s) \/ FindParked(s)
      PROVE  TypeOK'
  <2>1. CASE ResultPresent(s)
    BY <2>1 DEF ResultPresent, Return, TypeOK
  <2>2. CASE FindParked(s)
    <3>1. seen[s] \in Values /\ seen[s].ptype = "Business"
      BY <2>2 DEF FindParked, TypeOK
    <3> QED
      BY <2>2, <3>1, ListOf DEF FindParked, TypeOK
  <2> QED
    BY <1>4, <2>1, <2>2
<1>5. ASSUME NEW s \in Sessions, HandleFromRedis(s)
      PROVE  TypeOK'
  <2>1. Head(todo[s]) \in Businesses /\ Tail(todo[s]) \in Seq(Businesses)
    BY <1>5, TailElements DEF HandleFromRedis, TypeOK
  <2> QED
    BY <1>5, <2>1 DEF HandleFromRedis, TypeOK
<1>6. ASSUME NEW s \in Sessions, StoreResult(s)
      PROVE  TypeOK'
  <2>1. SetValue(TraceValue) /\ TraceValue \in Values
    BY <1>6 DEF StoreResult, Values, TraceValue
  <2>2. value' \in Values /\ parked' \subseteq Businesses /\ faults' \in 0 .. MaxFaults
    BY <2>1, SetValueType
  <2> QED
    BY <1>6, <2>2 DEF StoreResult, Return, TypeOK
<1>7. ASSUME NEW s \in Sessions, RedUnlock(s)
      PROVE  TypeOK'
  BY <1>0, <1>7 DEF RedUnlock, TypeOK
<1>8. ASSUME NEW s \in Sessions, Redeliver(s)
      PROVE  TypeOK'
  BY <1>8, BoundsAssumption DEF Redeliver, TypeOK, Values, NoValue
<1>9. CASE LeaseExpires
  BY <1>0, <1>9 DEF LeaseExpires, TypeOK
<1>10. CASE KeyExpires
  BY <1>0, <1>10 DEF KeyExpires, TypeOK, Values, NoValue
<1>11. CASE UNCHANGED vars
  BY <1>11 DEF vars, TypeOK
<1> QED
  BY <1>1, <1>2, <1>3, <1>4, <1>5, <1>6, <1>7, <1>8, <1>9, <1>10, <1>11 DEF Next, SessionStep

-----------------------------------------------------------------------------
(* The lock.                                                               *)

LEMMA FaultFree ==
  ASSUME TypeOK, [Next]_vars, faults' = 0
  PROVE  ~Fault /\ faults = 0
<1>1. ~Fault
  BY FaultsCount
<1>2. ASSUME NEW s \in Sessions, SessionStep(s) \/ Redeliver(s)
      PROVE  UNCHANGED faults
  BY <1>1, <1>2
  DEF SessionStep, RedLock, LockTimeout, GetValueByKey, HandleWithoutKey, ParkBehind,
      ResultPresent, FindParked, HandleFromRedis, StoreResult, RedUnlock, Redeliver,
      SetValue, NoFault
<1>3. CASE LeaseExpires \/ KeyExpires
  BY <1>1, <1>3 DEF LeaseExpires, KeyExpires, NoFault
<1> QED
  BY <1>1, <1>2, <1>3 DEF Next, vars

LEMMA LockStep ==
  ASSUME TypeOK, LockExcludes, [Next]_vars
  PROVE  LockExcludes'
<1> SUFFICES ASSUME faults' = 0, NEW t \in Sessions, Critical(t)'
             PROVE  lock' = t
  BY DEF LockExcludes
<1>1. ~Fault /\ faults = 0
  BY FaultFree
<1>2. \A s \in Sessions : Critical(s) => lock = s
  BY <1>1 DEF LockExcludes
<1>3. Free \notin Sessions
  BY SessionsAssumption DEF Sessions
<1>4. ASSUME NEW s \in Sessions, RedLock(s)
      PROVE  lock' = t
  BY <1>1, <1>2, <1>3, <1>4 DEF RedLock, Critical, TypeOK
<1>5. ASSUME NEW s \in Sessions, RedUnlock(s)
      PROVE  lock' = t
  BY <1>1, <1>2, <1>5 DEF RedUnlock, Critical, TypeOK
<1>6. ASSUME NEW s \in Sessions,
             \/ GetValueByKey(s) \/ HandleWithoutKey(s) \/ ParkBehind(s) \/ ResultPresent(s)
             \/ FindParked(s) \/ HandleFromRedis(s) \/ StoreResult(s)
      PROVE  lock' = t
  <2>1. Critical(s) /\ UNCHANGED lock
    BY <1>6
    DEF Critical, GetValueByKey, HandleWithoutKey, ParkBehind, ResultPresent, FindParked,
        HandleFromRedis, StoreResult
  <2>2. \A u \in Sessions \ {s} : pc'[u] = pc[u]
    BY <1>6
    DEF TypeOK, Return, GetValueByKey, HandleWithoutKey, ParkBehind, ResultPresent,
        FindParked, HandleFromRedis, StoreResult
  <2> QED
    BY <1>2, <2>1, <2>2 DEF Critical
<1>7. ASSUME NEW s \in Sessions, LockTimeout(s) \/ Redeliver(s)
      PROVE  lock' = t
  BY <1>2, <1>7 DEF LockTimeout, Redeliver, Critical, TypeOK
<1>8. CASE LeaseExpires
  BY <1>1, <1>2, <1>8 DEF LeaseExpires, Critical
<1>9. CASE KeyExpires
  BY <1>1, <1>9 DEF KeyExpires
<1>10. CASE UNCHANGED vars
  BY <1>2, <1>10 DEF vars, Critical
<1> QED
  BY <1>4, <1>5, <1>6, <1>7, <1>8, <1>9, <1>10 DEF Next, SessionStep

LEMMA SeenStep ==
  ASSUME TypeOK, LockExcludes, SeenIsValue, [Next]_vars
  PROVE  SeenIsValue'
<1> SUFFICES ASSUME faults' = 0, NEW t \in Sessions, pc'[t] \in {"handle", "dispatch"}
             PROVE  seen'[t] = value'
  BY DEF SeenIsValue
<1>1. ~Fault /\ faults = 0
  BY FaultFree
<1>2. \A s, u \in Sessions : Critical(s) /\ Critical(u) => s = u
  BY <1>1 DEF LockExcludes
<1>3. \A s \in Sessions : pc[s] \in {"handle", "dispatch"} => seen[s] = value
  BY <1>1 DEF SeenIsValue
<1>4. ASSUME NEW s \in Sessions, GetValueByKey(s)
      PROVE  seen'[t] = value'
  BY <1>1, <1>3, <1>4 DEF GetValueByKey, TypeOK
<1>5. ASSUME NEW s \in Sessions, HandleWithoutKey(s) \/ ParkBehind(s) \/ StoreResult(s)
      PROVE  seen'[t] = value'
  <2>1. Critical(s) /\ pc'[s] = "unlock" /\ \A u \in Sessions \ {s} : pc'[u] = pc[u]
    BY <1>5 DEF Critical, TypeOK, Return, HandleWithoutKey, ParkBehind, StoreResult
  <2>2. t # s /\ Critical(t)
    BY <2>1 DEF Critical
  <2> QED
    BY <1>2, <2>1, <2>2
<1>6. ASSUME NEW s \in Sessions,
             \/ RedLock(s) \/ LockTimeout(s) \/ ResultPresent(s) \/ FindParked(s)
             \/ HandleFromRedis(s) \/ RedUnlock(s)
      PROVE  seen'[t] = value'
  <2>1. UNCHANGED <<seen, value>> /\ (pc'[t] \in {"handle", "dispatch"} => pc[t] \in {"handle", "dispatch"})
    BY <1>6
    DEF TypeOK, Return, RedLock, LockTimeout, ResultPresent, FindParked, HandleFromRedis,
        RedUnlock
  <2> QED
    BY <1>3, <2>1
<1>7. ASSUME NEW s \in Sessions, Redeliver(s)
      PROVE  seen'[t] = value'
  BY <1>3, <1>7 DEF Redeliver, TypeOK
<1>8. CASE LeaseExpires
  BY <1>3, <1>8 DEF LeaseExpires
<1>9. CASE KeyExpires
  BY <1>1, <1>9 DEF KeyExpires
<1>10. CASE UNCHANGED vars
  BY <1>3, <1>10 DEF vars
<1> QED
  BY <1>4, <1>5, <1>6, <1>7, <1>8, <1>9, <1>10 DEF Next, SessionStep

LEMMA OutcomesStep ==
  ASSUME TypeOK, Outcomes, [Next]_vars
  PROVE  Outcomes'
<1> SUFFICES ASSUME NEW t \in Sessions
             PROVE  outcome'[t] = "none" \/ pc'[t] \in {"unlock", "done"}
  BY DEF Outcomes
<1>1. outcome[t] = "none" \/ pc[t] \in {"unlock", "done"}
  BY DEF Outcomes
<1>2. ASSUME NEW s \in Sessions, SessionStep(s) \/ Redeliver(s)
      PROVE  outcome'[t] = "none" \/ pc'[t] \in {"unlock", "done"}
  BY <1>1, <1>2
  DEF TypeOK, SessionStep, RedLock, LockTimeout, GetValueByKey, HandleWithoutKey, ParkBehind,
      ResultPresent, FindParked, HandleFromRedis, StoreResult, RedUnlock, Redeliver, Return
<1>3. CASE LeaseExpires \/ KeyExpires \/ UNCHANGED vars
  BY <1>1, <1>3 DEF LeaseExpires, KeyExpires, vars
<1> QED
  BY <1>2, <1>3 DEF Next

-----------------------------------------------------------------------------
(* Messages on their way through redis.                                    *)

LEMMA RedeliveryFree ==
  ASSUME TypeOK, [Next]_vars, redeliveries' = 0
  PROVE  redeliveries = 0 /\ \A s \in Sessions : ~Redeliver(s)
<1>1. \A s \in Sessions : ~Redeliver(s)
  BY DEF Redeliver, TypeOK
<1>2. ASSUME NEW s \in Sessions, SessionStep(s)
      PROVE  UNCHANGED redeliveries
  BY <1>2
  DEF SessionStep, RedLock, LockTimeout, GetValueByKey, HandleWithoutKey, ParkBehind,
      ResultPresent, FindParked, HandleFromRedis, StoreResult, RedUnlock
<1>3. CASE LeaseExpires \/ KeyExpires \/ UNCHANGED vars
  BY <1>1, <1>3 DEF LeaseExpires, KeyExpires, vars
<1> QED
  BY <1>1, <1>2, <1>3 DEF Next

(* What SetValue leaves in redis was there or is what it was given.        *)
LEMMA SetValueParked ==
  ASSUME NEW v, SetValue(v), NEW b
  PROVE  b \in Parked(value') => b \in Parked(value) \/ b \in Parked(v)
  BY DEF SetValue

(* Only the session of a message brings it to redis.                       *)
LEMMA CarriedFrom ==
  ASSUME TypeOK, [Next]_vars, NEW b \in Businesses, Carried(b)'
  PROVE  Carried(b) \/ HandleWithoutKey(b) \/ ParkBehind(b)
<1>1. /\ (b \in Parked(value') \/ taken'[b] > 0)
         \/ \E t \in Sessions : b \in Parked(seen'[t]) \/ \E i \in 1 .. Len(todo'[t]) : todo'[t][i] = b
  BY DEF Carried, InTodo
<1>2. ASSUME NEW s \in Sessions, RedLock(s) \/ LockTimeout(s) \/ ResultPresent(s) \/ RedUnlock(s)
      PROVE  Carried(b)
  BY <1>1, <1>2 DEF Carried, InTodo, RedLock, LockTimeout, ResultPresent, RedUnlock
<1>3. ASSUME NEW s \in Sessions, GetValueByKey(s)
      PROVE  Carried(b)
  <2>1. UNCHANGED <<value, taken, todo>>
    BY <1>3 DEF GetValueByKey
  <2>2. \A t \in Sessions : seen'[t] = seen[t] \/ seen'[t] = value \/ seen'[t] = NoValue
    BY <1>3 DEF GetValueByKey, TypeOK
  <2> QED
    BY <1>1, <2>1, <2>2, ParkedEmpty DEF Carried, InTodo
<1>4. ASSUME NEW s \in Sessions, HandleWithoutKey(s)
      PROVE  Carried(b) \/ HandleWithoutKey(b)
  <2>1. UNCHANGED <<seen, taken, todo>>
    BY <1>4 DEF HandleWithoutKey
  <2>2. b \in Parked(value') => b \in Parked(value) \/ s = b
    BY <1>4, SetValueParked, ParkedOne, ParkedEmpty DEF HandleWithoutKey
  <2> QED
    BY <1>1, <1>4, <2>1, <2>2 DEF Carried, InTodo
<1>5. ASSUME NEW s \in Sessions, ParkBehind(s)
      PROVE  Carried(b) \/ ParkBehind(b)
  <2>1. UNCHANGED <<seen, taken, todo>>
    BY <1>5 DEF ParkBehind
  <2>2. /\ s \in Businesses /\ seen[s] \in Values /\ seen[s].ptype = "Business"
        /\ SetValue(ParkedValue(Append(seen[s].list, s)))
    BY <1>5 DEF ParkBehind, TypeOK
  <2>3. b \in Parked(value') => b \in Parked(value) \/ b \in Parked(seen[s]) \/ s = b
    BY <2>2, SetValueParked, ListOf, ParkedAppend
  <2> QED
    BY <1>1, <1>5, <2>1, <2>3 DEF Carried, InTodo
<1>6. ASSUME NEW s \in Sessions, FindParked(s)
      PROVE  Carried(b)
  <2>1. UNCHANGED <<value, taken, seen>> /\ seen[s].ptype = "Business"
    BY <1>6 DEF FindParked
  <2>2. \A t \in Sessions : todo'[t] = todo[t] \/ (t = s /\ todo'[t] = seen[s].list)
    BY <1>6 DEF FindParked, TypeOK
  <2>3. \A i \in 1 .. Len(seen[s].list) : seen[s].list[i] \in Parked(seen[s])
    BY <2>1 DEF Parked
  <2>4. ASSUME NEW t \in Sessions, NEW i \in 1 .. Len(todo'[t]), todo'[t][i] = b
        PROVE  Carried(b)
    BY <2>2, <2>3, <2>4 DEF Carried, InTodo
  <2> QED
    BY <1>1, <2>1, <2>4 DEF Carried
<1>7. ASSUME NEW s \in Sessions, HandleFromRedis(s)
      PROVE  Carried(b)
  <2>1. /\ UNCHANGED <<value, seen>> /\ todo[s] # <<>> /\ todo[s] \in Seq(Businesses)
        /\ todo' = [todo EXCEPT ![s] = Tail(@)] /\ taken' = [taken EXCEPT ![Head(todo[s])] = @ + 1]
    BY <1>7 DEF HandleFromRedis, TypeOK
  <2>2. InTodo(Head(todo[s]), s)
    BY <2>1, TailElements DEF InTodo
  <2>3. taken'[b] > 0 => Carried(b)
    BY <2>1, <2>2 DEF Carried, TypeOK
  <2>4. ASSUME NEW t \in Sessions, NEW i \in 1 .. Len(todo'[t]), todo'[t][i] = b
        PROVE  InTodo(b, t)
    BY <2>1, <2>4, TailElements DEF InTodo, TypeOK
  <2> QED
    BY <1>1, <2>1, <2>3, <2>4 DEF Carried
<1>8. ASSUME NEW s \in Sessions, StoreResult(s)
      PROVE  Carried(b)
  <2>1. UNCHANGED <<seen, taken, todo>> /\ (b \in Parked(value') => b \in Parked(value))
    BY <1>8, SetValueParked, ParkedEmpty DEF StoreResult
  <2> QED
    BY <1>1, <2>1 DEF Carried, InTodo
<1>9. ASSUME NEW s \in Sessions, Redeliver(s)
      PROVE  Carried(b)
  <2>1. UNCHANGED <<value, taken>>
    BY <1>9 DEF Redeliver
  <2>2. \A t \in Sessions : /\ seen'[t] = seen[t] \/ seen'[t] = NoValue
                            /\ todo'[t] = todo[t] \/ todo'[t] = <<>>
    BY <1>9 DEF Redeliver, TypeOK
  <2>3. ASSUME NEW t \in Sessions, NEW i \in 1 .. Len(todo'[t]), todo'[t][i] = b
        PROVE  InTodo(b, t)
    BY <2>2, <2>3 DEF InTodo
  <2> QED
    BY <1>1, <2>1, <2>2, <2>3, ParkedEmpty DEF Carried
<1>10. CASE LeaseExpires \/ KeyExpires \/ UNCHANGED vars
  BY <1>1, <1>10, ParkedEmpty DEF LeaseExpires, KeyExpires, vars, Carried, InTodo
<1> QED
  BY <1>2, <1>3, <1>4, <1>5, <1>6, <1>7, <1>8, <1>9, <1>10 DEF Next, SessionStep

LEMMA CarriedStep ==
  ASSUME TypeOK, Outcomes, CarriedWaits, [Next]_vars
  PROVE  CarriedWaits'
<1> SUFFICES ASSUME redeliveries' = 0, NEW b \in Businesses, Carried(b)'
             PROVE  outcome'[b] = "wait"
  BY DEF CarriedWaits
<1>1. redeliveries = 0 /\ \A s \in Sessions : ~Redeliver(s)
  BY RedeliveryFree
<1>2. Carried(b) => outcome[b] = "wait"
  BY <1>1 DEF CarriedWaits
<1>3. b \in Sessions
  BY DEF Sessions
<1>4. CASE HandleWithoutKey(b) \/ ParkBehind(b)
  BY <1>3, <1>4 DEF HandleWithoutKey, ParkBehind, Return, TypeOK
<1>5. CASE outcome[b] = "wait" /\ ~HandleWithoutKey(b) /\ ~ParkBehind(b)
  <2>1. pc[b] \in {"unlock", "done"}
    BY <1>3, <1>5 DEF Outcomes
  <2>2. ASSUME NEW s \in Sessions, SessionStep(s)
        PROVE  outcome'[b] = "wait"
    <3>1. CASE HandleWithoutKey(s) \/ ParkBehind(s) \/ ResultPresent(s) \/ StoreResult(s)
      <4>1. s # b
        BY <2>1, <3>1 DEF HandleWithoutKey, ParkBehind, ResultPresent, StoreResult
      <4>2. \/ outcome' = [outcome EXCEPT ![s] = "wait"]
            \/ outcome' = [outcome EXCEPT ![s] = "pass"]
        BY <3>1 DEF HandleWithoutKey, ParkBehind, ResultPresent, StoreResult, Return
      <4> QED
        BY <1>3, <1>5, <4>1, <4>2 DEF TypeOK
    <3>2. CASE LockTimeout(s)
      BY <1>5, <2>1, <3>2 DEF TypeOK, LockTimeout
    <3>3. CASE \/ RedLock(s) \/ GetValueByKey(s) \/ FindParked(s) \/ HandleFromRedis(s)
               \/ RedUnlock(s)
      BY <1>5, <3>3 DEF RedLock, GetValueByKey, FindParked, HandleFromRedis, RedUnlock
    <3> QED
      BY <2>2, <3>1, <3>2, <3>3 DEF SessionStep
  <2>3. CASE LeaseExpires \/ KeyExpires \/ UNCHANGED vars
    BY <1>5, <2>3 DEF LeaseExpires, KeyExpires, vars
  <2> QED
    BY <1>1, <2>2, <2>3 DEF Next
<1> QED
  BY <1>2, <1>4, <1>5, CarriedFrom

LEMMA DispatchStep ==
  ASSUME TypeOK, Dispatching, [Next]_vars
  PROVE  Dispatching'
<1> DEFINE D(t) == IF pc[t] = "dispatch"
                   THEN /\ t \in Traces
                        /\ seen[t].ptype = "Business"
                        /\ \A i \in 1 .. Len(todo[t]) : todo[t][i] \in Parked(seen[t])
                        /\ \A b \in Parked(seen[t]) : taken[b] > 0 \/ InTodo(b, t)
                   ELSE todo[t] = <<>>
<1> SUFFICES ASSUME NEW t \in Sessions
             PROVE  D(t)'
  BY DEF Dispatching
<1>1. D(t)
  BY DEF Dispatching
<1> HIDE DEF D
<1>2. ASSUME pc'[t] = pc[t] \/ (pc[t] # "dispatch" /\ pc'[t] # "dispatch"),
             pc[t] = "dispatch" => seen'[t] = seen[t],
             UNCHANGED <<todo, taken>>
      PROVE  D(t)'
  BY <1>1, <1>2 DEF D, InTodo
<1>3. ASSUME NEW s \in Sessions,
             \/ RedLock(s) \/ LockTimeout(s) \/ GetValueByKey(s) \/ HandleWithoutKey(s)
             \/ ParkBehind(s) \/ ResultPresent(s) \/ RedUnlock(s)
      PROVE  D(t)'
  <2>1. /\ UNCHANGED <<todo, taken>>
        /\ pc[t] = "dispatch" => seen'[t] = seen[t]
    BY <1>3
    DEF TypeOK, RedLock, LockTimeout, GetValueByKey, HandleWithoutKey, ParkBehind,
        ResultPresent, RedUnlock
  <2>2. pc'[t] = pc[t] \/ (pc[t] # "dispatch" /\ pc'[t] # "dispatch")
    BY <1>3
    DEF TypeOK, Return, RedLock, LockTimeout, GetValueByKey, HandleWithoutKey, ParkBehind,
        ResultPresent, RedUnlock
  <2> QED
    BY <1>2, <2>1, <2>2
<1>4. ASSUME NEW s \in Sessions, FindParked(s)
      PROVE  D(t)'
  <2>1. CASE t = s
    <3>1. /\ t \in Traces /\ seen'[t] = seen[t] /\ seen[t].ptype = "Business"
          /\ pc'[t] = "dispatch" /\ todo'[t] = seen[t].list /\ UNCHANGED taken
      BY <1>4, <2>1 DEF FindParked, TypeOK
    <3>2. Parked(seen[t]) = {seen[t].list[i] : i \in 1 .. Len(seen[t].list)}
      BY <3>1 DEF Parked
    <3> QED
      BY <3>1, <3>2 DEF D, InTodo
  <2>2. CASE t # s
    BY <1>1, <1>4, <2>2 DEF FindParked, TypeOK, D, InTodo
  <2> QED
    BY <2>1, <2>2
<1>5. ASSUME NEW s \in Sessions, HandleFromRedis(s)
      PROVE  D(t)'
  <2>1. /\ UNCHANGED <<pc, seen>> /\ todo[s] # <<>> /\ todo[s] \in Seq(Businesses)
        /\ todo' = [todo EXCEPT ![s] = Tail(@)] /\ taken' = [taken EXCEPT ![Head(todo[s])] = @ + 1]
        /\ pc[s] = "dispatch"
    BY <1>5 DEF HandleFromRedis, TypeOK
  <2>2. taken'[Head(todo[s])] > 0 /\ \A b \in Businesses : taken[b] > 0 => taken'[b] > 0
    BY <2>1, TailElements DEF TypeOK
  <2>3. Parked(seen[t]) \subseteq Businesses
    BY ParkedInBusinesses DEF TypeOK
  <2>4. CASE t = s
    <3>1. todo'[t] = Tail(todo[t])
      BY <2>1, <2>4 DEF TypeOK
    <3>2. \A i \in 1 .. Len(todo'[t]) : todo'[t][i] \in Parked(seen[t])
      BY <1>1, <2>1, <2>4, <3>1, TailElements DEF D
    <3>3. ASSUME NEW b \in Parked(seen[t]), ~(taken'[b] > 0)
          PROVE  \E i \in 1 .. Len(todo'[t]) : todo'[t][i] = b
      <4>1. \E i \in 1 .. Len(todo[t]) : todo[t][i] = b
        BY <1>1, <2>1, <2>2, <2>3, <2>4, <3>3 DEF D, InTodo
      <4>2. b = Head(todo[s]) \/ \E i \in 1 .. Len(Tail(todo[s])) : Tail(todo[s])[i] = b
        BY <2>1, <2>4, <4>1, TailElements
      <4> QED
        BY <2>2, <2>4, <3>1, <3>3, <4>2
    <3> QED
      BY <1>1, <2>1, <2>4, <3>2, <3>3 DEF D, InTodo
  <2>5. CASE t # s
    <3>1. todo'[t] = todo[t]
      BY <2>1, <2>5 DEF TypeOK
    <3>2. \A b \in Parked(seen[t]) : taken[b] > 0 => taken'[b] > 0
      BY <2>2, <2>3
    <3>3. \A b : InTodo(b, t)' <=> InTodo(b, t)
      BY <3>1 DEF InTodo
    <3>4. pc'[t] = pc[t] /\ seen'[t] = seen[t]
      BY <2>1
    <3> QED
      BY <1>1, <3>1, <3>2, <3>3, <3>4 DEF D
  <2> QED
    BY <2>4, <2>5
<1>6. ASSUME NEW s \in Sessions, StoreResult(s)
      PROVE  D(t)'
  BY <1>1, <1>6 DEF StoreResult, Return, TypeOK, D, InTodo
<1>7. ASSUME NEW s \in Sessions, Redeliver(s)
      PROVE  D(t)'
  BY <1>1, <1>7 DEF Redeliver, TypeOK, D, InTodo
<1>8. CASE LeaseExpires \/ KeyExpires \/ UNCHANGED vars
  BY <1>2, <1>8 DEF LeaseExpires, KeyExpires, vars
<1> QED
  BY <1>3, <1>4, <1>5, <1>6, <1>7, <1>8 DEF Next, SessionStep

-----------------------------------------------------------------------------
(* Once.                                                                   *)

(* A session that is about to park its message is carried by nobody.       *)
LEMMA NotCarried ==
  ASSUME TypeOK, Outcomes, CarriedWaits, redeliveries = 0,
         NEW b \in Businesses, pc[b] = "handle"
  PROVE  taken[b] = 0 /\ b \notin Parked(value)
<1>1. outcome[b] = "none"
  BY DEF Outcomes, Sessions
<1>2. ~Carried(b)
  BY <1>1 DEF CarriedWaits
<1> QED
  BY <1>2 DEF Carried, TypeOK

LEMMA EachOnceStep ==
  ASSUME TypeOK, LockExcludes, SeenIsValue, Outcomes, CarriedWaits, Dispatching, EachOnce,
         TakenOnce, [Next]_vars
  PROVE  EachOnce' /\ TakenOnce'
<1> DEFINE E == /\ value.ptype = "Business" => Distinct(value.list)
                /\ (\A s \in Sessions : pc[s] # "dispatch")
                     => \A b \in Parked(value) : taken[b] = 0
           F(s) == Distinct(todo[s]) /\ \A i \in 1 .. Len(todo[s]) : taken[todo[s][i]] = 0
           G == \A b \in Businesses : taken[b] <= 1
<1> SUFFICES ASSUME faults' + redeliveries' = 0
             PROVE  E' /\ (\A s \in Sessions : F(s)') /\ G'
  BY DEF EachOnce, TakenOnce
<1>1. faults' = 0 /\ redeliveries' = 0
  BY TypeStep DEF TypeOK
<1>2. ~Fault /\ faults = 0 /\ redeliveries = 0 /\ \A s \in Sessions : ~Redeliver(s)
  BY <1>1, FaultFree, RedeliveryFree
<1>3. E /\ (\A s \in Sessions : F(s)) /\ G
  BY <1>2 DEF EachOnce, TakenOnce
<1>4. \A s, u \in Sessions : Critical(s) /\ Critical(u) => s = u
  BY <1>2 DEF LockExcludes
<1>5. \A s \in Sessions : pc[s] = "handle" => \A u \in Sessions : pc[u] # "dispatch"
  BY <1>4 DEF Critical
<1>6. \A s \in Sessions : pc[s] \in {"handle", "dispatch"} => seen[s] = value
  BY <1>2 DEF SeenIsValue
<1>7. \A v : SetValue(v) => value' = v
  BY <1>2 DEF SetValue
<1>8. ASSUME UNCHANGED <<todo, taken>>
      PROVE  (\A s \in Sessions : F(s)') /\ G'
  BY <1>3, <1>8
<1>9. ASSUME NEW s \in Sessions, RedLock(s) \/ LockTimeout(s) \/ GetValueByKey(s)
                                   \/ ResultPresent(s) \/ RedUnlock(s)
      PROVE  E' /\ (\A u \in Sessions : F(u)') /\ G'
  <2>1. /\ UNCHANGED <<value, todo, taken>>
        /\ \A u \in Sessions : pc'[u] # "dispatch" => pc[u] # "dispatch"
    BY <1>9
    DEF TypeOK, Return, RedLock, LockTimeout, GetValueByKey, ResultPresent, RedUnlock
  <2> QED
    BY <1>3, <1>8, <2>1
<1>10. ASSUME NEW s \in Sessions, HandleWithoutKey(s)
       PROVE  E' /\ (\A u \in Sessions : F(u)') /\ G'
  <2>1. UNCHANGED <<todo, taken>>
    BY <1>10 DEF HandleWithoutKey
  <2>2. CASE s \in Businesses
    <3>1. value' = ParkedValue(<<s>>) /\ taken[s] = 0
      BY <1>2, <1>7, <1>10, <2>2, NotCarried DEF HandleWithoutKey
    <3>2. \A b \in Parked(value') : b = s
      BY <3>1, ParkedOne
    <3>3. Distinct(value'.list)
      BY <3>1 DEF Distinct, ParkedValue
    <3> QED
      BY <1>8, <2>1, <3>1, <3>2, <3>3
  <2>3. CASE s \notin Businesses
    <3>1. value' = TraceValue
      BY <1>7, <1>10, <2>3 DEF HandleWithoutKey
    <3> QED
      BY <1>8, <2>1, <3>1, ParkedEmpty DEF TraceValue
  <2> QED
    BY <2>2, <2>3
<1>11. ASSUME NEW s \in Sessions, ParkBehind(s)
       PROVE  E' /\ (\A u \in Sessions : F(u)') /\ G'
  <2>1. /\ UNCHANGED <<todo, taken>> /\ s \in Businesses /\ value.ptype = "Business"
        /\ value' = ParkedValue(Append(value.list, s)) /\ pc[s] = "handle"
    BY <1>6, <1>7, <1>11 DEF ParkBehind
  <2>2. taken[s] = 0 /\ s \notin Parked(value)
    BY <1>2, <2>1, NotCarried
  <2>3. value.list \in Seq(Businesses)
    BY <2>1, ListOf DEF TypeOK
  <2>4. \A i \in 1 .. Len(value.list) : value.list[i] # s
    BY <2>1, <2>2 DEF Parked
  <2>5. Distinct(value'.list)
    BY <1>3, <2>1, <2>3, <2>4, DistinctAppend DEF ParkedValue
  <2>6. \A b \in Parked(value') : b \in Parked(value) \/ b = s
    BY <2>1, <2>3, ParkedAppend
  <2>7. \A b \in Parked(value') : taken'[b] = 0
    BY <1>3, <1>5, <2>1, <2>2, <2>6
  <2> QED
    BY <1>8, <2>1, <2>5, <2>7
<1>12. ASSUME NEW s \in Sessions, FindParked(s)
       PROVE  E' /\ (\A u \in Sessions : F(u)') /\ G'
  <2>1. /\ UNCHANGED <<value, taken>> /\ value.ptype = "Business" /\ pc[s] = "handle"
        /\ todo' = [todo EXCEPT ![s] = value.list] /\ pc'[s] = "dispatch"
    BY <1>6, <1>12 DEF FindParked, TypeOK
  <2>2. \A i \in 1 .. Len(value.list) : value.list[i] \in Parked(value)
    BY <2>1 DEF Parked
  <2>3. \A i \in 1 .. Len(value.list) : taken[value.list[i]] = 0
    BY <1>3, <1>5, <2>1, <2>2
  <2>4. E' /\ G'
    BY <1>3, <2>1
  <2>5. ASSUME NEW u \in Sessions
        PROVE  F(u)'
    <3>1. todo'[u] = todo[u] \/ todo'[u] = value.list
      BY <2>1 DEF TypeOK
    <3> QED
      BY <1>3, <2>1, <2>3, <3>1
  <2> QED
    BY <2>4, <2>5
<1>13. ASSUME NEW s \in Sessions, HandleFromRedis(s)
       PROVE  E' /\ (\A u \in Sessions : F(u)') /\ G'
  <2> DEFINE h == Head(todo[s])
  <2>1. /\ UNCHANGED <<pc, value>> /\ todo[s] # <<>> /\ todo[s] \in Seq(Businesses)
        /\ todo' = [todo EXCEPT ![s] = Tail(@)] /\ taken' = [taken EXCEPT ![h] = @ + 1]
        /\ pc[s] = "dispatch"
    BY <1>13 DEF HandleFromRedis, TypeOK
  <2>2. /\ h \in Businesses /\ Tail(todo[s]) \in Seq(Businesses)
        /\ h = todo[s][1] /\ 1 \in 1 .. Len(todo[s])
        /\ Distinct(Tail(todo[s])) /\ \A i \in 1 .. Len(Tail(todo[s])) : Tail(todo[s])[i] # h
        /\ \A i \in 1 .. Len(Tail(todo[s])) :
             i + 1 \in 1 .. Len(todo[s]) /\ Tail(todo[s])[i] = todo[s][i + 1]
    BY <1>3, <2>1, TailElements
  <2>3. taken[h] = 0 /\ \A i \in 1 .. Len(Tail(todo[s])) : taken[Tail(todo[s])[i]] = 0
    BY <1>3, <2>2
  <2>4. taken'[h] = 1 /\ \A b \in Businesses : b # h => taken'[b] = taken[b]
    BY <2>1, <2>2, <2>3 DEF TypeOK
  <2>5. G'
    BY <1>3, <2>4
  <2>6. E'
    BY <1>3, <2>1
  <2>7. ASSUME NEW u \in Sessions
        PROVE  F(u)'
    <3>1. CASE u = s
      <4>1. todo'[u] = Tail(todo[s])
        BY <2>1, <3>1 DEF TypeOK
      <4>2. \A i \in 1 .. Len(Tail(todo[s])) : Tail(todo[s])[i] \in Businesses
        BY <2>2
      <4> HIDE DEF h
      <4> QED
        BY <2>2, <2>3, <2>4, <4>1, <4>2
    <3>2. CASE u # s
      <4>1. pc[u] # "dispatch"
        BY <1>4, <2>1, <3>2 DEF Critical
      <4>2. todo'[u] = <<>>
        BY <2>1, <3>2, <4>1 DEF Dispatching, TypeOK
      <4> QED
        BY <4>2 DEF Distinct
    <3> QED
      BY <3>1, <3>2
  <2> QED
    BY <2>5, <2>6, <2>7
<1>14. ASSUME NEW s \in Sessions, StoreResult(s)
       PROVE  E' /\ (\A u \in Sessions : F(u)') /\ G'
  <2>1. UNCHANGED <<todo, taken>> /\ value' = TraceValue
    BY <1>7, <1>14 DEF StoreResult
  <2> QED
    BY <1>8, <2>1, ParkedEmpty DEF TraceValue
<1>15. CASE LeaseExpires \/ UNCHANGED vars
  <2>1. UNCHANGED <<value, todo, taken, pc>>
    BY <1>15 DEF LeaseExpires, vars
  <2> QED
    BY <1>3, <1>8, <2>1
<1>16. ~KeyExpires
  BY <1>2 DEF KeyExpires
<1> QED
  BY <1>2, <1>9, <1>10, <1>11, <1>12, <1>13, <1>14, <1>15, <1>16 DEF Next, SessionStep

-----------------------------------------------------------------------------
(* The theorems.                                                           *)

LEMMA InitIInv ==
  ASSUME Init
  PROVE  IInv
<1> USE DEF Init
<1>1. TypeOK
  BY BoundsAssumption DEF TypeOK, Values, NoValue
<1>2. LockExcludes /\ SeenIsValue /\ Outcomes /\ Dispatching
  BY DEF LockExcludes, Critical, SeenIsValue, Outcomes, Dispatching
<1>3. \A b \in Businesses : ~Carried(b)
  <2>1. \A s \in Sessions : seen[s] = NoValue /\ Len(todo[s]) = 0
    OBVIOUS
  <2> QED
    BY <2>1, ParkedEmpty DEF Carried, InTodo
<1>4. CarriedWaits
  BY <1>3 DEF CarriedWaits
<1>5. \A s \in Sessions : Len(todo[s]) = 0
  OBVIOUS
<1>6. EachOnce /\ TakenOnce
  BY <1>5, ParkedEmpty DEF EachOnce, TakenOnce, Distinct, NoValue
<1> QED
  BY <1>1, <1>2, <1>4, <1>6 DEF IInv

LEMMA NextIInv ==
  ASSUME IInv, [Next]_vars
  PROVE  IInv'
BY TypeStep, LockStep, SeenStep, OutcomesStep, CarriedStep, DispatchStep, EachOnceStep DEF IInv

(* The inductive invariant: who holds the lock has read what redis holds,  *)
(* and every message is where its session left it.                         *)
THEOREM Invariance == Spec => []IInv
<1>1. Init => IInv
  BY InitIInv
<1>2. IInv /\ [Next]_vars => IInv'
  BY NextIInv
<1> QED
  BY <1>1, <1>2, PTL DEF Spec

(* The variables keep their types; redis holds nothing, a list of messages *)
(* or a result.                                                            *)
THEOREM TypeCorrect == Spec => []TypeOK
<1>1. IInv => TypeOK
  BY DEF IInv
<1> QED
  BY <1>1, Invariance, PTL

(* One session at a time between RedLock and RedUnlock, for any number of  *)
(* sessions and of crashes, while redis answers and leases last.           *)
THEOREM LockIsExclusive == Spec => []LockExcludes
<1>1. IInv => LockExcludes
  BY DEF IInv
<1> QED
  BY <1>1, Invariance, PTL

(* No message is taken out of redis twice.                                 *)
THEOREM OnlyOnce == Spec => []TakenOnce
<1>1. IInv => TakenOnce
  BY DEF IInv
<1> QED
  BY <1>1, Invariance, PTL

(* A message does not go on in its own session and in one that a Trace     *)
(* session starts, whatever redis does.                                    *)
THEOREM OnlyOneWay == Spec => []OneWay
<1>1. IInv => OneWay
  BY DEF IInv, TypeOK, CarriedWaits, Carried, OneWay
<1> QED
  BY <1>1, Invariance, PTL

-----------------------------------------------------------------------------
(* The promise.                                                            *)

LEMMA PromiseInit == Init => Promise!Init
  BY ParkedEmpty DEF Init, Promise!Init, NoValue, TraceValue

LEMMA PromiseStep ==
  ASSUME IInv, [Next]_vars
  PROVE  [Promise!Next]_(Promise!vars)
<1> DEFINE W == {b \in Parked(value) : taken[b] = 0}
           H == {b \in Businesses : taken[b] > 0}
           R == (value = TraceValue)
           B == (faults > 0)
<1> USE DEF IInv
<1>1. ASSUME faults' # 0
      PROVE  Promise!Next
  <2>1. faults' > 0
    BY <1>1, TypeStep DEF TypeOK
  <2> QED
    BY <2>1 DEF Promise!Next
<1>2. ASSUME faults' = 0, UNCHANGED <<value, taken>>
      PROVE  UNCHANGED Promise!vars
  <2>1. faults = 0
    BY <1>2, FaultFree
  <2> QED
    BY <1>2, <2>1 DEF Promise!vars
<1>3. ASSUME faults' = 0
      PROVE  [Promise!Next]_(Promise!vars)
  <2>1. ~Fault /\ faults = 0 /\ ~B /\ ~B'
    BY <1>3, FaultFree
  <2>2. \A s, u \in Sessions : Critical(s) /\ Critical(u) => s = u
    BY <2>1 DEF LockExcludes
  <2>3. \A s \in Sessions : pc[s] \in {"handle", "dispatch"} => seen[s] = value
    BY <2>1 DEF SeenIsValue
  <2>4. \A v : SetValue(v) => value' = v
    BY <2>1 DEF SetValue
  <2>5. ASSUME NEW b \in Businesses, R = FALSE, W' \subseteq W \cup {b}, W \subseteq W', taken' = taken,
               R' = FALSE
        PROVE  [Promise!Next]_(Promise!vars)
    <3>1. CASE taken[b] = 0 /\ b \in W'
      <4>1. b \notin H /\ W' = W \cup {b} /\ H' = H
        BY <2>5, <3>1
      <4> QED
        BY <2>1, <2>5, <4>1 DEF Promise!Next, Promise!Park
    <3>2. CASE ~(taken[b] = 0 /\ b \in W')
      <4>1. W' = W /\ H' = H
        BY <2>5, <3>2
      <4> QED
        BY <2>1, <2>5, <4>1 DEF Promise!vars
    <3> QED
      BY <3>1, <3>2
  <2>6. ASSUME W = {}, value' = TraceValue, taken' = taken
        PROVE  [Promise!Next]_(Promise!vars)
    <3>1. W' = {} /\ H' = H /\ R' = TRUE
      BY <2>6, ParkedEmpty
    <3> QED
      BY <2>1, <2>6, <3>1 DEF Promise!Next, Promise!Publish
  <2>7. ASSUME NEW s \in Sessions, HandleWithoutKey(s)
        PROVE  [Promise!Next]_(Promise!vars)
    <3>1. value = NoValue /\ taken' = taken
      BY <2>3, <2>7 DEF HandleWithoutKey
    <3>2. W = {} /\ R = FALSE
      BY <3>1, ParkedEmpty DEF NoValue, TraceValue
    <3>3. CASE s \in Businesses
      <4>1. value' = ParkedValue(<<s>>)
        BY <2>4, <2>7, <3>3 DEF HandleWithoutKey
      <4>2. R' = FALSE /\ W' \subseteq W \cup {s}
        BY <4>1, ParkedOne DEF ParkedValue, TraceValue
      <4> QED
        BY <2>5, <3>1, <3>2, <3>3, <4>2
    <3>4. CASE s \notin Businesses
      <4>1. value' = TraceValue
        BY <2>4, <2>7, <3>4 DEF HandleWithoutKey
      <4> QED
        BY <2>6, <3>1, <3>2, <4>1
    <3> QED
      BY <3>3, <3>4
  <2>8. ASSUME NEW s \in Sessions, ParkBehind(s)
        PROVE  [Promise!Next]_(Promise!vars)
    <3>1. /\ s \in Businesses /\ value.ptype = "Business" /\ taken' = taken
          /\ value' = ParkedValue(Append(value.list, s))
      BY <2>3, <2>4, <2>8 DEF ParkBehind
    <3>2. value.list \in Seq(Businesses) /\ R = FALSE
      BY <3>1, ListOf DEF TypeOK
    <3>3. R' = FALSE
      BY <3>1 DEF ParkedValue, TraceValue
    <3>4. \A c : c \in Parked(value') <=> c \in Parked(value) \/ c = s
      BY <3>1, <3>2, ParkedAppend
    <3> QED
      BY <2>5, <3>1, <3>2, <3>3, <3>4
  <2>9. ASSUME NEW s \in Sessions, HandleFromRedis(s)
        PROVE  [Promise!Next]_(Promise!vars)
    <3> DEFINE h == Head(todo[s])
    <3>1. /\ UNCHANGED value /\ todo[s] # <<>> /\ todo[s] \in Seq(Businesses)
          /\ taken' = [taken EXCEPT ![h] = @ + 1] /\ pc[s] = "dispatch"
      BY <2>9 DEF HandleFromRedis, TypeOK
    <3>2. h \in Businesses /\ h = todo[s][1] /\ 1 \in 1 .. Len(todo[s])
      BY <3>1, TailElements
    <3>3. h \in Parked(value)
      BY <2>3, <3>1, <3>2 DEF Dispatching
    <3> HIDE DEF h
    <3>4. taken'[h] = taken[h] + 1 /\ taken[h] \in Nat
      BY <3>1, <3>2 DEF TypeOK
    <3>5. \A b \in Businesses : b # h => taken'[b] = taken[b]
      BY <3>1 DEF TypeOK
    <3>6. Parked(value) \subseteq Businesses
      BY ParkedInBusinesses DEF TypeOK
    <3>7. W' = W \ {h} /\ H' = H \cup {h} /\ R' = R
      BY <3>1, <3>2, <3>4, <3>5, <3>6
    <3>8. CASE taken[h] = 0
      <4>1. h \in W
        BY <3>3, <3>8
      <4> QED
        BY <2>1, <3>2, <3>7, <4>1 DEF Promise!Next, Promise!HandOver
    <3>9. CASE taken[h] # 0
      <4>1. h \notin W /\ h \in H
        BY <3>2, <3>4, <3>9
      <4> QED
        BY <2>1, <3>7, <4>1 DEF Promise!vars
    <3> QED
      BY <3>8, <3>9
  <2>10. ASSUME NEW s \in Sessions, StoreResult(s)
         PROVE  [Promise!Next]_(Promise!vars)
    <3>1. value' = TraceValue /\ taken' = taken /\ todo[s] = <<>> /\ pc[s] = "dispatch"
      BY <2>4, <2>10 DEF StoreResult
    <3>2. \A b \in Parked(value) : taken[b] > 0
      BY <2>3, <3>1 DEF Dispatching, InTodo
    <3>3. W = {}
      BY <3>2
    <3> QED
      BY <2>6, <3>1, <3>3
  <2>11. ASSUME NEW s \in Sessions,
                \/ RedLock(s) \/ LockTimeout(s) \/ GetValueByKey(s) \/ ResultPresent(s)
                \/ FindParked(s) \/ RedUnlock(s) \/ Redeliver(s)
         PROVE  [Promise!Next]_(Promise!vars)
    <3>1. UNCHANGED <<value, taken>>
      BY <2>11
      DEF RedLock, LockTimeout, GetValueByKey, ResultPresent, FindParked, RedUnlock, Redeliver
    <3> QED
      BY <1>2, <1>3, <3>1
  <2>12. CASE LeaseExpires \/ UNCHANGED vars
    <3>1. UNCHANGED <<value, taken>>
      BY <2>12 DEF LeaseExpires, vars
    <3> QED
      BY <1>2, <1>3, <3>1
  <2>13. ~KeyExpires
    BY <2>1 DEF KeyExpires
  <2> QED
    BY <2>7, <2>8, <2>9, <2>10, <2>11, <2>12, <2>13 DEF Next, SessionStep
<1> QED
  BY <1>1, <1>3

(* The sessions and redis implement Parking: a message that redis keeps is *)
(* handed to a Trace session before the result replaces it, and none is    *)
(* parked behind a result, until a command fails or a lease or a value     *)
(* expires.                                                                *)
THEOREM KeepsPromise == Spec => ParkingSpec
<1>1. Init => Promise!Init
  BY PromiseInit
<1>2. IInv /\ [Next]_vars => [Promise!Next]_(Promise!vars)
  BY PromiseStep
<1> QED
  BY <1>1, <1>2, Invariance, PTL DEF Spec, ParkingSpec, Promise!Spec

-----------------------------------------------------------------------------
(* What happens to a parked message.                                       *)

(* Only a failing SET leaves a session that waits without its message in   *)
(* redis.                                                                  *)
LEMMA WaitStep ==
  ASSUME TypeOK, [Next]_vars, NEW b \in Businesses, outcome[b] # "wait", outcome'[b] = "wait"
  PROVE  b \in Parked(value') \/ faults' > faults
<1>1. Fault => faults' > faults
  BY DEF Fault, TypeOK
<1>2. ASSUME NEW s \in Sessions, s # b, SessionStep(s) \/ Redeliver(s)
      PROVE  FALSE
  <2>1. outcome' = outcome \/ \E f : outcome' = [outcome EXCEPT ![s] = f]
    BY <1>2 DEF SessionStep, RedLock, LockTimeout, GetValueByKey, HandleWithoutKey, ParkBehind,
                ResultPresent, FindParked, HandleFromRedis, StoreResult, RedUnlock, Redeliver, Return
  <2> QED
    BY <1>2, <2>1 DEF TypeOK, Sessions
<1>6. ~(LockTimeout(b) \/ ResultPresent(b) \/ StoreResult(b) \/ Redeliver(b))
  <2>1. ASSUME NEW f, outcome' = [outcome EXCEPT ![b] = f], f # "wait"
        PROVE  FALSE
    BY <2>1 DEF TypeOK, Sessions
  <2> QED
    BY <2>1 DEF LockTimeout, ResultPresent, StoreResult, Redeliver, Return
<1>7. ~(RedLock(b) \/ GetValueByKey(b) \/ FindParked(b) \/ HandleFromRedis(b) \/ RedUnlock(b))
  BY DEF RedLock, GetValueByKey, FindParked, HandleFromRedis, RedUnlock
<1>3. CASE HandleWithoutKey(b)
  <2>1. SetValue(ParkedValue(<<b>>))
    BY <1>3 DEF HandleWithoutKey
  <2> QED
    BY <1>1, <2>1, ParkedOne DEF SetValue
<1>4. CASE ParkBehind(b)
  <2>1. SetValue(ParkedValue(Append(seen[b].list, b))) /\ seen[b].ptype = "Business"
    BY <1>4 DEF ParkBehind
  <2>2. seen[b].list \in Seq(Businesses)
    BY <2>1, ListOf DEF TypeOK, Sessions
  <2>3. b \in Parked(ParkedValue(Append(seen[b].list, b)))
    BY <2>1, <2>2, ParkedAppend
  <2> QED
    BY <1>1, <2>1, <2>3 DEF SetValue
<1>5. ~(LeaseExpires \/ KeyExpires \/ UNCHANGED vars)
  BY DEF LeaseExpires, KeyExpires, vars
<1> QED
  <2>1. PICK s \in Sessions : SessionStep(s) \/ Redeliver(s)
    BY <1>5 DEF Next
  <2>2. s = b
    BY <1>2, <2>1
  <2> QED
    BY <1>3, <1>4, <1>6, <1>7, <2>1, <2>2 DEF SessionStep

(* When PictureWaitModule tells a session to WAIT, its message is in redis *)
(* unless the SET failed in that very step: what picture_redis shows is    *)
(* the only way to wait for nothing.                                       *)
THEOREM WaitingIsCached == Spec => WaitMeansCachedOrFailed
<1>1. IInv /\ [Next]_vars =>
        [\A b \in Businesses :
           outcome[b] # "wait" /\ outcome'[b] = "wait" => b \in Parked(value') \/ faults' > faults]_vars
  BY WaitStep DEF IInv
<1> QED
  BY <1>1, Invariance, PTL DEF Spec, WaitMeansCachedOrFailed

LEMMA StillThereStep ==
  ASSUME IInv, StillThere, [Next]_vars
  PROVE  StillThere'
<1> SUFFICES ASSUME faults' = 0, NEW b \in parked'
             PROVE  b \in Parked(value') \/ taken'[b] > 0
  BY DEF StillThere
<1> USE DEF IInv
<1>1. ~Fault /\ faults = 0
  BY FaultFree
<1>2. parked \subseteq Businesses /\ taken \in [Businesses -> Nat]
  BY DEF TypeOK
<1>3. \A s \in Sessions : pc[s] \in {"handle", "dispatch"} => seen[s] = value
  BY <1>1 DEF SeenIsValue
<1>4. ASSUME NEW c \in parked
      PROVE  c \in Parked(value) \/ taken[c] > 0
  BY <1>1, <1>4 DEF StillThere
<1>5. \A v : SetValue(v) => value' = v /\ parked' = parked \cup Parked(v)
  BY <1>1 DEF SetValue
<1>6. CASE UNCHANGED <<value, taken, parked>>
  BY <1>4, <1>6
<1>7. ASSUME NEW s \in Sessions, HandleWithoutKey(s)
      PROVE  b \in Parked(value') \/ taken'[b] > 0
  <2>1. value = NoValue /\ taken' = taken /\ b \in parked \cup Parked(value')
    BY <1>3, <1>5, <1>7 DEF HandleWithoutKey
  <2> QED
    BY <1>4, <2>1, ParkedEmpty
<1>8. ASSUME NEW s \in Sessions, ParkBehind(s)
      PROVE  b \in Parked(value') \/ taken'[b] > 0
  <2>1. /\ s \in Businesses /\ value.ptype = "Business" /\ taken' = taken
        /\ value' = ParkedValue(Append(value.list, s)) /\ b \in parked \cup Parked(value')
    BY <1>3, <1>5, <1>8 DEF ParkBehind
  <2>2. value.list \in Seq(Businesses)
    BY <2>1, ListOf DEF TypeOK
  <2>3. Parked(value) \subseteq Parked(value')
    BY <2>1, <2>2, ParkedAppend
  <2> QED
    BY <1>4, <2>1, <2>3
<1>9. ASSUME NEW s \in Sessions, HandleFromRedis(s)
      PROVE  b \in Parked(value') \/ taken'[b] > 0
  <2>1. UNCHANGED <<value, parked>> /\ taken' = [taken EXCEPT ![Head(todo[s])] = @ + 1]
    BY <1>9 DEF HandleFromRedis
  <2>2. taken[b] > 0 => taken'[b] > 0
    BY <1>2, <2>1
  <2> QED
    BY <1>4, <2>1, <2>2
<1>10. ASSUME NEW s \in Sessions, StoreResult(s)
       PROVE  b \in Parked(value') \/ taken'[b] > 0
  <2>1. /\ value' = TraceValue /\ taken' = taken /\ parked' = parked \cup Parked(TraceValue)
        /\ todo[s] = <<>> /\ pc[s] = "dispatch"
    BY <1>5, <1>10 DEF StoreResult
  <2>2. \A c \in Parked(value) : taken[c] > 0
    BY <1>3, <2>1 DEF Dispatching, InTodo
  <2> QED
    BY <1>4, <2>1, <2>2, ParkedEmpty
<1>11. ASSUME NEW s \in Sessions,
              \/ RedLock(s) \/ LockTimeout(s) \/ GetValueByKey(s) \/ ResultPresent(s)
              \/ FindParked(s) \/ RedUnlock(s) \/ Redeliver(s)
       PROVE  UNCHANGED <<value, taken, parked>>
  BY <1>11
  DEF RedLock, LockTimeout, GetValueByKey, ResultPresent, FindParked, RedUnlock, Redeliver
<1>12. LeaseExpires \/ UNCHANGED vars => UNCHANGED <<value, taken, parked>>
  BY DEF LeaseExpires, vars
<1>13. ~KeyExpires
  BY <1>1 DEF KeyExpires
<1> QED
  BY <1>6, <1>7, <1>8, <1>9, <1>10, <1>11, <1>12, <1>13 DEF Next, SessionStep

LEMMA TakenIsStartedStep ==
  ASSUME TypeOK, TakenIsStarted, [Next]_vars
  PROVE  TakenIsStarted'
<1> SUFFICES ASSUME Unmatched = {}, NEW b \in Businesses, taken'[b] > 0
             PROVE  b \in started'
  BY DEF TakenIsStarted
<1>1. ASSUME NEW s \in Sessions, HandleFromRedis(s)
      PROVE  b \in started'
  <2>1. /\ taken' = [taken EXCEPT ![Head(todo[s])] = @ + 1]
        /\ started' = started \cup {Head(todo[s])}
    BY <1>1 DEF HandleFromRedis
  <2> QED
    BY <2>1 DEF TakenIsStarted, TypeOK
<1>2. CASE UNCHANGED <<taken, started>>
  BY <1>2 DEF TakenIsStarted
<1>3. ASSUME NEW s \in Sessions, ~HandleFromRedis(s), SessionStep(s) \/ Redeliver(s)
      PROVE  UNCHANGED <<taken, started>>
  BY <1>3
  DEF SessionStep, RedLock, LockTimeout, GetValueByKey, HandleWithoutKey, ParkBehind,
      ResultPresent, FindParked, StoreResult, RedUnlock, Redeliver
<1>4. LeaseExpires \/ KeyExpires \/ UNCHANGED vars => UNCHANGED <<taken, started>>
  BY DEF LeaseExpires, KeyExpires, vars
<1> QED
  BY <1>1, <1>2, <1>3, <1>4 DEF Next

(* A message that was parked stays in redis until handleFromRedis has      *)
(* started a session for it, unless a command fails, a lease or the value  *)
(* expires under somebody, or a result with error_code -10041 takes it.    *)
THEOREM ParkedMessagesAreKept == Spec => []NothingParkedIsLost
<1>1. Init => StillThere /\ TakenIsStarted
  BY DEF Init, StillThere, TakenIsStarted
<1>2. IInv /\ StillThere /\ TakenIsStarted /\ [Next]_vars => StillThere' /\ TakenIsStarted'
  BY StillThereStep, TakenIsStartedStep DEF IInv
<1>3. IInv /\ StillThere /\ TakenIsStarted => NothingParkedIsLost
  BY DEF IInv, TypeOK, StillThere, TakenIsStarted, NothingParkedIsLost
<1> QED
  BY <1>1, <1>2, <1>3, Invariance, PTL DEF Spec

=============================================================================
