----------------------------- MODULE BusinessSave -----------------------------
(***************************************************************************)
(* BusinessSave: sessions, of every instance of the service, that save an  *)
(* event of the same device, track, app, space and direction.  They share  *)
(* one filter and should share one document; no other event matters to     *)
(* them.                                                                   *)
(*                                                                         *)
(* A message has a msg_type: 2 holds the face and the pictures, 1 only age *)
(* and gender, 0 neither; it may come from the replay tool.  A find_one    *)
(* decides whether there is anything to save, then update_one with upsert  *)
(* saves.  Between the two commands, and between the search and the insert *)
(* of an upsert, other sessions run; the program creates no unique index.  *)
(***************************************************************************)
EXTENDS Integers, Sequences, FiniteSets

CONSTANTS
  Sessions,        \* the sessions that save this event
  MongoMayFail,    \* may a command fail?
  MaxRedeliveries  \* bound: times a session is run again after a crash

ASSUME MongoMayFailAssumption == MongoMayFail \in BOOLEAN
ASSUME MaxRedeliveriesAssumption == MaxRedeliveries \in Nat

VARIABLES
  msgType,      \* saveMongoData_.msg_type_ of each session
  replay,       \* getReplay() = 1
  docs,         \* the documents the filter matches, in the order of insertion
  pc,           \* place of each session
  outcome,      \* what became of it
  overlapped,   \* history: did another session run at the same time?
  redeliveries  \* counter for MaxRedeliveries

message == <<msgType, replay>>
vars == <<message, docs, pc, outcome, overlapped, redeliveries>>

Active(s) == pc[s] \notin {"start", "done"}

Init ==
  /\ msgType \in [Sessions -> 0 .. 2]
  /\ replay \in [Sessions -> BOOLEAN]
  /\ docs = <<>>
  /\ pc = [s \in Sessions |-> "start"]
  /\ outcome = [s \in Sessions |-> "none"]
  /\ overlapped = [s \in Sessions |-> FALSE]
  /\ redeliveries = 0

-----------------------------------------------------------------------------

GoTo(s, place) == pc' = [pc EXCEPT ![s] = place] /\ UNCHANGED outcome

(* Final with kMongoFailed, or on with the chain: this module is done.     *)
End(s, how) ==
  /\ pc' = [pc EXCEPT ![s] = "done"]
  /\ outcome' = [outcome EXCEPT ![s] = how]

Fail(s) == MongoMayFail /\ End(s, "failed") /\ UNCHANGED docs

AfterBig(s) == IF replay[s] THEN "findNormal" ELSE "update"

(* SwitchFaceSetIdBySetName and the connection; neither writes anything.   *)
Begin(s) ==
  LET others == {t \in Sessions \ {s} : Active(t)}
  IN  /\ pc[s] = "start"
      /\ \/ GoTo(s, IF msgType[s] = 1 THEN "findBig" ELSE AfterBig(s))
         \/ MongoMayFail /\ End(s, "failed")
      /\ overlapped' = [t \in Sessions |->
                          overlapped[t] \/ (others # {} /\ t \in others \cup {s})]
      /\ UNCHANGED <<message, docs, redeliveries>>

(* Mistake: the search is for its own msg_type.                            *)
FindOwnType(s) ==
  /\ pc[s] = "findBig"
  /\ \/ /\ \E i \in 1 .. Len(docs) : docs[i].msgType = 1
        /\ End(s, "skipped")
     \/ /\ \A i \in 1 .. Len(docs) : docs[i].msgType # 1
        /\ GoTo(s, AfterBig(s))
  /\ UNCHANGED <<message, docs, overlapped, redeliveries>>

(* msg_type 1 is not saved over msg_type 2.                                *)
FindBig(s) ==
  /\ pc[s] = "findBig"
  /\ \/ /\ \E i \in 1 .. Len(docs) : docs[i].msgType = 2
        /\ End(s, "skipped")
     \/ /\ \A i \in 1 .. Len(docs) : docs[i].msgType # 2
        /\ GoTo(s, AfterBig(s))
     \/ Fail(s)
  /\ UNCHANGED <<message, docs, overlapped, redeliveries>>

(* Mistake: "$eq" for "$ne".                                               *)
FindReplayed(s) ==
  /\ pc[s] = "findNormal"
  /\ \/ /\ \E i \in 1 .. Len(docs) : docs[i].replay
        /\ End(s, "skipped")
     \/ /\ \A i \in 1 .. Len(docs) : ~docs[i].replay
        /\ GoTo(s, "update")
  /\ UNCHANGED <<message, docs, overlapped, redeliveries>>

(* A replayed message is not saved over a document that is not marked as   *)
(* replayed.                                                               *)
FindNormal(s) ==
  /\ pc[s] = "findNormal"
  /\ \/ /\ \E i \in 1 .. Len(docs) : ~docs[i].replay
        /\ End(s, "skipped")
     \/ /\ \A i \in 1 .. Len(docs) : docs[i].replay
        /\ GoTo(s, "update")
     \/ Fail(s)
  /\ UNCHANGED <<message, docs, overlapped, redeliveries>>

(* Mistake: plugin_.datatype is saved as the msg_type.                     *)
SetDatatype(d, s) ==
  [msgType |-> msgType[s] + 2, replay |-> d.replay \/ replay[s], event |-> s]

(* What $set leaves of document d: msg_type 0 sets none, and the mark of a *)
(* replay is set and never taken away.                                     *)
Set(d, s) ==
  [msgType |-> IF msgType[s] = 0 THEN d.msgType ELSE msgType[s],
   replay  |-> d.replay \/ replay[s],
   event   |-> s]

NoDocument(s) == [msgType |-> 0, replay |-> FALSE, event |-> s]

(* Mistake: insert_one for update_one with upsert.                         *)
InsertAlways(s) ==
  /\ pc[s] = "update"
  /\ GoTo(s, "insert")
  /\ UNCHANGED <<message, docs, overlapped, redeliveries>>

(* update_one changes the first document of the filter, or finds none.  A  *)
(* command may fail after it was executed.                                 *)
UpdateOne(s) ==
  /\ pc[s] = "update"
  /\ \/ /\ docs # <<>>
        /\ docs' = [docs EXCEPT ![1] = Set(@, s)]
        /\ End(s, "saved") \/ (MongoMayFail /\ End(s, "failed"))
     \/ /\ docs = <<>>
        /\ GoTo(s, "insert")
        /\ UNCHANGED docs
     \/ Fail(s)
  /\ UNCHANGED <<message, overlapped, redeliveries>>

Upsert(s) ==
  /\ pc[s] = "insert"
  /\ \/ /\ docs' = Append(docs, Set(NoDocument(s), s))
        /\ End(s, "saved") \/ (MongoMayFail /\ End(s, "failed"))
     \/ Fail(s)
  /\ UNCHANGED <<message, overlapped, redeliveries>>

(* The instance dies before the message is committed, and the message is   *)
(* read and saved again; a command that was sent has been executed or not. *)
Redeliver(s) ==
  /\ redeliveries < MaxRedeliveries
  /\ pc[s] # "start"
  /\ redeliveries' = redeliveries + 1
  /\ pc' = [pc EXCEPT ![s] = "start"]
  /\ outcome' = [outcome EXCEPT ![s] = "none"]
  /\ UNCHANGED <<message, docs, overlapped>>

-----------------------------------------------------------------------------

SaveBusinessMongo(s) ==
  \/ Begin(s)
  \/ FindBig(s)
  \/ FindNormal(s)
  \/ UpdateOne(s)
  \/ Upsert(s)

Next == \E s \in Sessions : SaveBusinessMongo(s) \/ Redeliver(s)

Spec == Init /\ [][Next]_vars

-----------------------------------------------------------------------------
(* Properties.                                                             *)

Document == [msgType : 0 .. 2, replay : BOOLEAN, event : Sessions]

TypeOK ==
  /\ msgType \in [Sessions -> 0 .. 2]
  /\ replay \in [Sessions -> BOOLEAN]
  /\ docs \in Seq(Document)
  /\ pc \in [Sessions -> {"start", "findBig", "findNormal", "update", "insert", "done"}]
  /\ outcome \in [Sessions -> {"none", "saved", "skipped", "failed"}]
  /\ overlapped \in [Sessions -> BOOLEAN]
  /\ redeliveries \in 0 .. MaxRedeliveries

(* The event of a document: who wrote it last.                             *)
Writer(i) == docs[i].event

(* The face and the pictures are not lost to a message without: a document *)
(* of msg_type 2 stays one, also when messages come late, again, or after  *)
(* a crash.  Only a session that ran at the same time as another, with its *)
(* search before and its update after the other's, can take it back to 1.  *)
BigStays ==
  [][\A i \in 1 .. Len(docs) :
       docs[i].msgType = 2 /\ docs'[i].msgType # 2 => overlapped[Writer(i)']]_docs

(* Replays do not replace the event of a normal message, unless the two    *)
(* ran at the same time, or the document had been marked by a replay       *)
(* before: the mark stays when a normal message is saved over it, and a    *)
(* later replay then does replace it.                                      *)
NormalStays ==
  [][\A i \in 1 .. Len(docs) :
       ~replay[Writer(i)] /\ replay[Writer(i)'] =>
         docs[i].replay \/ overlapped[Writer(i)']]_docs

(* One event, one document, whatever is delivered again: two come about    *)
(* only by two upserts at the same time.                                   *)
OneDocument == Len(docs) > 1 => \E s, t \in Sessions : s # t /\ overlapped[s] /\ overlapped[t]

=============================================================================
