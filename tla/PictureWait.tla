----------------------------- MODULE PictureWait -----------------------------
(***************************************************************************)
(* PictureWaitModule: Business messages that arrive before the trace       *)
(* result of their picture are parked in redis; the session with the trace *)
(* result (ptype Trace) takes them out and starts a session for each.      *)
(*                                                                         *)
(* The sessions here are all those, of every instance of the service,      *)
(* whose getPicWaitKey is the same: they share one redis value and one     *)
(* redis lock "lock_<key>", and no other key matters to them.  A session   *)
(* without a picture never gets here (its key is "").                      *)
(*                                                                         *)
(* The lock is SET NX with a time to live, taken and released by commands  *)
(* of their own; between them are a GET and a SET.  A command may fail,    *)
(* which includes an answer that comes after 5 s: then redis may or may    *)
(* not have executed it.                                                   *)
(***************************************************************************)
EXTENDS Integers, Sequences, FiniteSets

CONSTANTS
  Businesses,      \* sessions of ptype Business, one per message
  Traces,          \* sessions of ptype Trace
  Unmatched,       \* Traces answered with error_code -10041
  Free,            \* the value of the lock when nobody has it
  Impatient,       \* sessions for which RedLock may run into its 5 s
  MaxFaults,       \* bound: redis commands that fail, locks that expire under a
                   \* holder that is alive, values that outlive their 10 minutes
  MaxRedeliveries  \* bound: times a session is run again after a crash

Sessions == Businesses \cup Traces

ASSUME SessionsAssumption ==
  /\ Businesses \cap Traces = {}
  /\ Free \notin Businesses \cup Traces
  /\ Unmatched \subseteq Traces
ASSUME ImpatientAssumption == Impatient \subseteq Sessions
ASSUME BoundsAssumption == MaxFaults \in Nat /\ MaxRedeliveries \in Nat

VARIABLES
  lock,         \* redis: value of lock_<key>
  value,        \* redis: value of <key>
  pc,           \* place of each session
  seen,         \* get_data of each session
  todo,         \* message_list a Trace session has still to go through
  outcome,      \* ret_flag of each session
  parked,       \* history: messages that redis was told to keep, and did
  started,      \* history: messages for which handleFromRedis pushed a session
  taken,        \* history: how often a message was taken out of a list
  faults,       \* counter for MaxFaults
  redeliveries  \* counter for MaxRedeliveries

vars == <<lock, value, pc, seen, todo, outcome, parked, started, taken, faults, redeliveries>>

NoValue == [ptype |-> "none"]
ParkedValue(list) == [ptype |-> "Business", list |-> list]

(* Mistake: the ptype is not written.                                      *)
ValueWithoutType == [ptype |-> "null"]

TraceValue == [ptype |-> "Trace"]

Parked(v) ==
  IF v.ptype = "Business" THEN {v.list[i] : i \in 1 .. Len(v.list)} ELSE {}

Init ==
  /\ lock = Free
  /\ value = NoValue
  /\ pc = [s \in Sessions |-> "lock"]
  /\ seen = [s \in Sessions |-> NoValue]
  /\ todo = [s \in Sessions |-> <<>>]
  /\ outcome = [s \in Sessions |-> "none"]
  /\ parked = {}
  /\ started = {}
  /\ taken = [b \in Businesses |-> 0]
  /\ faults = 0
  /\ redeliveries = 0

Fault == faults < MaxFaults /\ faults' = faults + 1

NoFault == UNCHANGED faults

-----------------------------------------------------------------------------
(* RedLock: tries SET NX every 10 ms.  A try that seems to fail may have   *)
(* been executed; the next tries then find the session's own lock.         *)

(* Mistake: SET without NX.                                                *)
LockWithoutNX(s) ==
  /\ pc[s] = "lock"
  /\ lock' = s
  /\ \/ pc' = [pc EXCEPT ![s] = "get"] /\ NoFault
     \/ UNCHANGED pc /\ Fault
  /\ UNCHANGED <<value, seen, todo, outcome, parked, started, taken, redeliveries>>

RedLock(s) ==
  /\ pc[s] = "lock"
  /\ lock = Free
  /\ lock' = s
  /\ \/ pc' = [pc EXCEPT ![s] = "get"] /\ NoFault
     \/ UNCHANGED pc /\ Fault
  /\ UNCHANGED <<value, seen, todo, outcome, parked, started, taken, redeliveries>>

(* Five seconds are over: the session goes on without having looked.       *)
LockTimeout(s) ==
  /\ pc[s] = "lock"
  /\ s \in Impatient
  /\ pc' = [pc EXCEPT ![s] = "done"]
  /\ outcome' = [outcome EXCEPT ![s] = "pass"]
  /\ UNCHANGED <<lock, value, seen, todo, parked, started, taken, faults, redeliveries>>

(* A GET that fails is taken for a key that does not exist.                *)
GetValueByKey(s) ==
  /\ pc[s] = "get"
  /\ \/ seen' = [seen EXCEPT ![s] = value] /\ NoFault
     \/ seen' = [seen EXCEPT ![s] = NoValue] /\ Fault
  /\ pc' = [pc EXCEPT ![s] = "handle"]
  /\ UNCHANGED <<lock, value, todo, outcome, parked, started, taken, redeliveries>>

-----------------------------------------------------------------------------
(* handleWithoutKey and handleWithKey.                                     *)

(* SetAdvancedKeyValue: redis has the new value, or the command failed and *)
(* only a line in the log tells.                                           *)
SetValue(v) ==
  \/ value' = v /\ parked' = parked \cup Parked(v) /\ NoFault
  \/ UNCHANGED <<value, parked>> /\ Fault

Return(s, flag) ==
  /\ outcome' = [outcome EXCEPT ![s] = flag]
  /\ pc' = [pc EXCEPT ![s] = "unlock"]

(* Mistake: the parking session goes on as well.                           *)
ParkAndPass(s) ==
  /\ pc[s] = "handle"
  /\ seen[s] = NoValue
  /\ IF s \in Businesses
     THEN SetValue(ParkedValue(<<s>>)) /\ Return(s, "pass")
     ELSE SetValue(TraceValue) /\ Return(s, "pass")
  /\ UNCHANGED <<lock, seen, todo, started, taken, redeliveries>>

(* Nothing there: a Business session parks its message and ends, a Trace   *)
(* session leaves its result for the Business messages to come.            *)
HandleWithoutKey(s) ==
  /\ pc[s] = "handle"
  /\ seen[s] = NoValue
  /\ IF s \in Businesses
     THEN SetValue(ParkedValue(<<s>>)) /\ Return(s, "wait")
     ELSE SetValue(TraceValue) /\ Return(s, "pass")
  /\ UNCHANGED <<lock, seen, todo, started, taken, redeliveries>>

(* Mistake: the list is not carried over.                                  *)
ParkAlone(s) ==
  /\ pc[s] = "handle"
  /\ s \in Businesses
  /\ seen[s].ptype = "Business"
  /\ SetValue(ParkedValue(<<s>>))
  /\ Return(s, "wait")
  /\ UNCHANGED <<lock, seen, todo, started, taken, redeliveries>>

(* Others wait already: park behind them.                                  *)
ParkBehind(s) ==
  /\ pc[s] = "handle"
  /\ s \in Businesses
  /\ seen[s].ptype = "Business"
  /\ SetValue(ParkedValue(Append(seen[s].list, s)))
  /\ Return(s, "wait")
  /\ UNCHANGED <<lock, seen, todo, started, taken, redeliveries>>

(* The result is there: a Business session takes it, if it can be used,    *)
(* and goes on in any case; another Trace session does nothing.            *)
ResultPresent(s) ==
  /\ pc[s] = "handle"
  /\ seen[s] = TraceValue
  /\ Return(s, "pass")
  /\ UNCHANGED <<lock, value, seen, todo, parked, started, taken, faults, redeliveries>>

(* A Trace session finds parked messages: first a session for each ...     *)
FindParked(s) ==
  /\ pc[s] = "handle"
  /\ s \in Traces
  /\ seen[s].ptype = "Business"
  /\ todo' = [todo EXCEPT ![s] = seen[s].list]
  /\ pc' = [pc EXCEPT ![s] = "dispatch"]
  /\ UNCHANGED <<lock, value, seen, outcome, parked, started, taken, faults, redeliveries>>

(* ... which handleFromRedis makes and pushes, unless getPersonResult      *)
(* refuses the result: it wants error_code 0, where ProcTraceSpaceResponse *)
(* has also let -10041 through ...                                         *)
HandleFromRedis(s) ==
  /\ pc[s] = "dispatch"
  /\ todo[s] # <<>>
  /\ todo' = [todo EXCEPT ![s] = Tail(@)]
  /\ taken' = [taken EXCEPT ![Head(todo[s])] = @ + 1]
  /\ started' = IF s \in Unmatched THEN started ELSE started \cup {Head(todo[s])}
  /\ UNCHANGED <<lock, value, pc, seen, outcome, parked, faults, redeliveries>>

(* Mistake: the parked list stays in redis.                                *)
KeepParked(s) ==
  /\ pc[s] = "dispatch"
  /\ todo[s] = <<>>
  /\ Return(s, "pass")
  /\ UNCHANGED <<lock, value, seen, todo, parked, started, taken, faults, redeliveries>>

(* Mistake: only the first of the list is handled.                         *)
StoreTooEarly(s) ==
  /\ pc[s] = "dispatch"
  /\ Len(todo[s]) < Len(seen[s].list)
  /\ SetValue(TraceValue)
  /\ Return(s, "pass")
  /\ UNCHANGED <<lock, seen, todo, started, taken, redeliveries>>

(* ... then the result in place of the list.                               *)
StoreResult(s) ==
  /\ pc[s] = "dispatch"
  /\ todo[s] = <<>>
  /\ SetValue(TraceValue)
  /\ Return(s, "pass")
  /\ UNCHANGED <<lock, seen, todo, started, taken, redeliveries>>

-----------------------------------------------------------------------------

(* RedUnlock deletes the lock only if it holds the session's own uid.      *)
RedUnlock(s) ==
  /\ pc[s] = "unlock"
  /\ \/ lock' = (IF lock = s THEN Free ELSE lock) /\ NoFault
     \/ UNCHANGED lock /\ Fault
  /\ pc' = [pc EXCEPT ![s] = "done"]
  /\ UNCHANGED <<value, seen, todo, outcome, parked, started, taken, redeliveries>>

Critical(s) == pc[s] \in {"get", "handle", "dispatch", "unlock"}

(* The time to live of the lock is over.  That of a holder that is gone    *)
(* always ends; that 5 s are too short for one that is alive is a fault.   *)
LeaseExpires ==
  /\ lock # Free
  /\ IF Critical(lock) THEN Fault ELSE NoFault
  /\ lock' = Free
  /\ UNCHANGED <<value, pc, seen, todo, outcome, parked, started, taken, redeliveries>>

KeyExpires ==
  /\ Fault
  /\ value # NoValue
  /\ value' = NoValue
  /\ UNCHANGED <<lock, pc, seen, todo, outcome, parked, started, taken, redeliveries>>

(* The instance dies before the message is committed; the message is read  *)
(* again and has a new session with the same uid.                          *)
Redeliver(s) ==
  /\ redeliveries < MaxRedeliveries
  /\ redeliveries' = redeliveries + 1
  /\ pc' = [pc EXCEPT ![s] = "lock"]
  /\ seen' = [seen EXCEPT ![s] = NoValue]
  /\ todo' = [todo EXCEPT ![s] = <<>>]
  /\ outcome' = [outcome EXCEPT ![s] = "none"]
  /\ UNCHANGED <<lock, value, parked, started, taken, faults>>

-----------------------------------------------------------------------------

SessionStep(s) ==
  \/ RedLock(s)
  \/ LockTimeout(s)
  \/ GetValueByKey(s)
  \/ HandleWithoutKey(s)
  \/ ParkBehind(s)
  \/ ResultPresent(s)
  \/ FindParked(s)
  \/ HandleFromRedis(s)
  \/ StoreResult(s)
  \/ RedUnlock(s)

Next ==
  \/ \E s \in Sessions : SessionStep(s) \/ Redeliver(s)
  \/ LeaseExpires
  \/ KeyExpires

Spec == Init /\ [][Next]_vars

(* Fairness.  A worker thread carries its session through the module; each *)
(* try of RedLock is 10 ms after the last, and the lock of a dead session  *)
(* expires.                                                                *)
Fairness ==
  /\ \A s \in Sessions : WF_vars(SessionStep(s))
  /\ WF_vars(LeaseExpires)

FairSpec == Spec /\ Fairness

-----------------------------------------------------------------------------
(* Properties.                                                             *)

Values ==
  {[ptype |-> "none"], [ptype |-> "Trace"]}
    \cup [ptype : {"Business"}, list : Seq(Businesses)]

TypeOK ==
  /\ lock \in Sessions \cup {Free}
  /\ value \in Values
  /\ pc \in [Sessions -> {"lock", "get", "handle", "dispatch", "unlock", "done"}]
  /\ seen \in [Sessions -> Values]
  /\ todo \in [Sessions -> Seq(Businesses)]
  /\ outcome \in [Sessions -> {"none", "pass", "wait"}]
  /\ parked \subseteq Businesses
  /\ started \subseteq Businesses
  /\ taken \in [Businesses -> Nat]
  /\ faults \in 0 .. MaxFaults
  /\ redeliveries \in 0 .. MaxRedeliveries

(* While redis answers and no lease is shorter than its holder, one        *)
(* session at a time reads and writes the value, also when sessions die    *)
(* and come back with the same uid.                                        *)
LockExcludes == faults = 0 => \A s \in Sessions : Critical(s) => lock = s

(* Then no message is taken out of redis twice, unless a session was run  *)
(* again.                                                                  *)
TakenOnce == faults + redeliveries = 0 => \A b \in Businesses : taken[b] <= 1

(* A Business message goes on by one way only: its own session, or one     *)
(* that a Trace session starts for it.  This holds whatever redis, leases  *)
(* and keys do.                                                            *)
OneWay ==
  redeliveries = 0 =>
    \A b \in Businesses : outcome[b] = "pass" => b \notin Parked(value) /\ taken[b] = 0

(* WAIT (module_picture_waiting.h): the data is cached in redis by now.    *)
WaitMeansCached ==
  [][\A b \in Businesses :
       outcome[b] # "wait" /\ outcome'[b] = "wait" => b \in Parked(value')]_vars

(* WAIT, continued: the picture triggers the rest of the flow.  Every      *)
(* message that is parked gets a session in the end.                       *)
PictureTriggersFlow ==
  \A b \in Businesses : b \in parked ~> b \in started \/ faults > 0

(* The list in redis, read and written by sessions of several instances,   *)
(* and the loop over it keep the promise of Parking: what is parked is     *)
(* carried on by every later write until a Trace session has taken it out, *)
(* nobody parks behind a result, and the result is not written over a      *)
(* message that still waits.                                               *)
Promise == INSTANCE Parking WITH
  Messages <- Businesses,
  waiting <- {b \in Parked(value) : taken[b] = 0},
  handed <- {b \in Businesses : taken[b] > 0},
  result <- value = TraceValue,
  broken <- faults > 0

ParkingSpec == Promise!Spec

-----------------------------------------------------------------------------
(* The inductive invariant.                                                *)

(* What a session has read is still what redis holds.                      *)
SeenIsValue ==
  faults = 0 => \A s \in Sessions : pc[s] \in {"handle", "dispatch"} => seen[s] = value

Outcomes == \A s \in Sessions : outcome[s] = "none" \/ pc[s] \in {"unlock", "done"}

InTodo(b, s) == \E i \in 1 .. Len(todo[s]) : todo[s][i] = b

(* A message is on its way through redis, or was.                          *)
Carried(b) ==
  \/ b \in Parked(value)
  \/ taken[b] > 0
  \/ \E s \in Sessions : b \in Parked(seen[s]) \/ InTodo(b, s)

CarriedWaits ==
  redeliveries = 0 => \A b \in Businesses : Carried(b) => outcome[b] = "wait"

(* The loop over the list has taken out what it has not before it.         *)
Dispatching ==
  \A s \in Sessions :
    IF pc[s] = "dispatch"
    THEN /\ s \in Traces
         /\ seen[s].ptype = "Business"
         /\ \A i \in 1 .. Len(todo[s]) : todo[s][i] \in Parked(seen[s])
         /\ \A b \in Parked(seen[s]) : taken[b] > 0 \/ InTodo(b, s)
    ELSE todo[s] = <<>>

Distinct(list) == \A i, j \in 1 .. Len(list) : list[i] = list[j] => i = j

(* Nothing is in a list twice, and what is in it was not taken out yet.    *)
EachOnce ==
  faults + redeliveries = 0 =>
    /\ value.ptype = "Business" => Distinct(value.list)
    /\ (\A s \in Sessions : pc[s] # "dispatch") => \A b \in Parked(value) : taken[b] = 0
    /\ \A s \in Sessions :
         Distinct(todo[s]) /\ \A i \in 1 .. Len(todo[s]) : taken[todo[s][i]] = 0

IInv ==
  /\ TypeOK /\ LockExcludes /\ SeenIsValue /\ Outcomes
  /\ CarriedWaits /\ Dispatching /\ EachOnce /\ TakenOnce

-----------------------------------------------------------------------------
(* WAIT as it is: the message is in redis when its session says so, or the *)
(* SET has just failed (the module does not look at its result).           *)
WaitMeansCachedOrFailed ==
  [][\A b \in Businesses :
       outcome[b] # "wait" /\ outcome'[b] = "wait" => b \in Parked(value') \/ faults' > faults]_vars

(* Every later write carries on what was parked, and the loop of a Trace   *)
(* session leaves nobody out.                                              *)
StillThere == faults = 0 => \A b \in parked : b \in Parked(value) \/ taken[b] > 0

TakenIsStarted == Unmatched = {} => \A b \in Businesses : taken[b] > 0 => b \in started

(* The safe half of PictureTriggersFlow: a message that was parked waits   *)
(* in redis until a session was started for it.                            *)
NothingParkedIsLost ==
  Unmatched = {} /\ faults = 0 => \A b \in parked : b \in Parked(value) \/ b \in started

=============================================================================
