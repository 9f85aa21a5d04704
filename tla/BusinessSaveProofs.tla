-------------------------- MODULE BusinessSaveProofs --------------------------
(***************************************************************************)
(* Proofs about BusinessSave, for any number of sessions and redeliveries. *)
(***************************************************************************)
EXTENDS BusinessSave, SequenceTheorems, TLAPS

(* Sessions that run at the same time are overlapped, and nobody is alone. *)
Overlaps ==
  /\ \A s, t \in Sessions : s # t /\ Active(s) /\ Active(t) => overlapped[s]
  /\ \A s \in Sessions : overlapped[s] => \E t \in Sessions \ {s} : overlapped[t]

(* What a session that is not overlapped found is still so.                *)
Found ==
  \A s \in Sessions : ~overlapped[s] =>
    /\ pc[s] \in {"findNormal", "update", "insert"} /\ msgType[s] = 1
         => \A i \in 1 .. Len(docs) : docs[i].msgType # 2
    /\ pc[s] \in {"update", "insert"} /\ replay[s]
         => \A i \in 1 .. Len(docs) : docs[i].replay
    /\ pc[s] = "insert" => docs = <<>>

IInv == TypeOK /\ Overlaps /\ Found /\ OneDocument

-----------------------------------------------------------------------------
(* Lemmas.                                                                 *)

LEMMA SetType ==
  ASSUME TypeOK, NEW d \in Document, NEW s \in Sessions
  PROVE  Set(d, s) \in Document
  BY DEF TypeOK, Document, Set

(* What the operations do to the documents.                                *)
LEMMA UpdatedDocs ==
  ASSUME TypeOK, NEW s \in Sessions, docs # <<>>, docs' = [docs EXCEPT ![1] = Set(@, s)]
  PROVE  /\ docs' \in Seq(Document) /\ Len(docs') = Len(docs) /\ 1 \in 1 .. Len(docs)
         /\ docs'[1] = Set(docs[1], s)
         /\ \A i \in 1 .. Len(docs) : i # 1 => docs'[i] = docs[i]
<1>1. docs \in Seq(Document) /\ Len(docs) \in Nat /\ Len(docs) # 0
  BY EmptySeq DEF TypeOK
<1>2. 1 \in 1 .. Len(docs)
  BY <1>1
<1>3. docs[1] \in Document
  BY <1>1, <1>2
<1>4. Set(docs[1], s) \in Document
  BY <1>3, SetType
<1>5. docs' \in Seq(Document) /\ Len(docs') = Len(docs)
  BY <1>1, <1>2, <1>4, ExceptSeq
<1>6. docs'[1] = Set(docs[1], s) /\ \A i \in 1 .. Len(docs) : i # 1 => docs'[i] = docs[i]
  BY <1>1, <1>2
<1> QED
  BY <1>2, <1>5, <1>6

LEMMA InsertedDocs ==
  ASSUME TypeOK, NEW s \in Sessions, docs' = Append(docs, Set(NoDocument(s), s))
  PROVE  /\ docs' \in Seq(Document) /\ Len(docs) \in Nat /\ Len(docs') = Len(docs) + 1
         /\ docs'[Len(docs) + 1] = Set(NoDocument(s), s)
         /\ \A i \in 1 .. Len(docs) : docs'[i] = docs[i]
<1>1. NoDocument(s) \in Document
  BY DEF NoDocument, Document
<1>2. Set(NoDocument(s), s) \in Document
  BY <1>1, SetType
<1> QED
  BY <1>2, AppendProperties DEF TypeOK

Steps(s) == SaveBusinessMongo(s) \/ Redeliver(s)

LEMMA PlacesStep ==
  ASSUME TypeOK, NEW s \in Sessions, Steps(s)
  PROVE  /\ UNCHANGED message
         /\ pc' \in [Sessions -> {"start", "findBig", "findNormal", "update", "insert", "done"}]
         /\ outcome' \in [Sessions -> {"none", "saved", "skipped", "failed"}]
         /\ \A t \in Sessions \ {s} : pc'[t] = pc[t]
         /\ redeliveries' \in 0 .. MaxRedeliveries
  BY MaxRedeliveriesAssumption
  DEF TypeOK, Steps, SaveBusinessMongo, Begin, FindBig, FindNormal, UpdateOne, Upsert, Redeliver,
      GoTo, End, Fail, AfterBig

(* The documents change by one session's update or insert.                 *)
DocsStep(s) ==
  \/ UNCHANGED docs
  \/ /\ pc[s] = "update" /\ pc'[s] = "done" /\ docs # <<>>
     /\ docs' = [docs EXCEPT ![1] = Set(@, s)]
  \/ /\ pc[s] = "insert" /\ pc'[s] = "done"
     /\ docs' = Append(docs, Set(NoDocument(s), s))

LEMMA DocsChange ==
  ASSUME TypeOK, NEW s \in Sessions, Steps(s)
  PROVE  DocsStep(s)
  BY DEF TypeOK, Steps, SaveBusinessMongo, Begin, FindBig, FindNormal, UpdateOne, Upsert, Redeliver,
      GoTo, End, Fail, DocsStep

LEMMA OverlapChange ==
  ASSUME TypeOK, NEW s \in Sessions, Steps(s)
  PROVE  \/ UNCHANGED overlapped /\ (Active(s)' => Active(s))
         \/ /\ pc[s] = "start"
            /\ \E others \in SUBSET (Sessions \ {s}) :
                 /\ others = {t \in Sessions \ {s} : Active(t)}
                 /\ overlapped' = [t \in Sessions |->
                      overlapped[t] \/ (others # {} /\ t \in others \cup {s})]
<1>1. CASE Begin(s)
  BY <1>1 DEF Begin
<1>2. CASE FindBig(s) \/ FindNormal(s) \/ UpdateOne(s) \/ Upsert(s) \/ Redeliver(s)
  BY <1>2 DEF FindBig, FindNormal, UpdateOne, Upsert, Redeliver, Active, TypeOK, End, Fail, GoTo
<1> QED
  BY <1>1, <1>2 DEF Steps, SaveBusinessMongo

-----------------------------------------------------------------------------
(* The inductive invariant.                                                *)

LEMMA TypeStep ==
  ASSUME TypeOK, NEW s \in Sessions, Steps(s)
  PROVE  TypeOK'
<1>1. docs' \in Seq(Document)
  BY DocsChange, UpdatedDocs, InsertedDocs DEF DocsStep, TypeOK
<1>2. overlapped' \in [Sessions -> BOOLEAN]
  BY OverlapChange DEF TypeOK
<1> QED
  BY <1>1, <1>2, PlacesStep DEF TypeOK, message

LEMMA OverlapsStep ==
  ASSUME TypeOK, Overlaps, NEW s \in Sessions, Steps(s)
  PROVE  Overlaps' /\ \A t \in Sessions : overlapped[t] => overlapped'[t]
<1>1. \A t \in Sessions \ {s} : Active(t)' <=> Active(t)
  BY PlacesStep DEF Active
<1>2. CASE UNCHANGED overlapped /\ (Active(s)' => Active(s))
  BY <1>1, <1>2 DEF Overlaps
<1>3. CASE /\ pc[s] = "start"
           /\ \E others \in SUBSET (Sessions \ {s}) :
                /\ others = {t \in Sessions \ {s} : Active(t)}
                /\ overlapped' = [t \in Sessions |->
                     overlapped[t] \/ (others # {} /\ t \in others \cup {s})]
  <2>1. PICK others \in SUBSET (Sessions \ {s}) :
          /\ others = {t \in Sessions \ {s} : Active(t)}
          /\ overlapped' = [t \in Sessions |->
               overlapped[t] \/ (others # {} /\ t \in others \cup {s})]
    BY <1>3
  <2>2. \A t \in Sessions : overlapped'[t] <=> overlapped[t] \/ (others # {} /\ t \in others \cup {s})
    BY <2>1
  <2>3. ASSUME NEW t \in Sessions, NEW u \in Sessions, t # u, Active(t)', Active(u)'
        PROVE  overlapped'[t]
    <3>1. CASE t # s /\ u # s
      BY <1>1, <2>2, <2>3, <3>1 DEF Overlaps
    <3>2. CASE t = s
      BY <1>1, <2>1, <2>2, <2>3, <3>2
    <3>3. CASE u = s
      BY <1>1, <2>1, <2>2, <2>3, <3>3
    <3> QED
      BY <3>1, <3>2, <3>3
  <2>4. ASSUME NEW t \in Sessions, overlapped'[t]
        PROVE  \E u \in Sessions \ {t} : overlapped'[u]
    <3>1. CASE overlapped[t]
      BY <2>2, <3>1 DEF Overlaps
    <3>2. CASE others # {}
      <4>1. PICK u \in others : TRUE
        BY <3>2
      <4>2. u # s /\ overlapped'[u] /\ overlapped'[s] /\ u \in Sessions
        BY <2>2, <3>2, <4>1
      <4> QED
        BY <4>2
    <3> QED
      BY <2>2, <2>4, <3>1, <3>2
  <2>5. \A t \in Sessions : overlapped[t] => overlapped'[t]
    BY <2>2
  <2> QED
    BY <2>3, <2>4, <2>5 DEF Overlaps
<1> QED
  BY <1>2, <1>3, OverlapChange

(* A session that ends alone leaves nobody who searched before it.         *)
LEMMA FoundStep ==
  ASSUME TypeOK, TypeOK', Overlaps, Found, NEW s \in Sessions, Steps(s)
  PROVE  Found'
<1> SUFFICES ASSUME NEW t \in Sessions, ~overlapped'[t]
             PROVE  /\ pc'[t] \in {"findNormal", "update", "insert"} /\ msgType[t] = 1
                         => \A i \in 1 .. Len(docs') : docs'[i].msgType # 2
                    /\ pc'[t] \in {"update", "insert"} /\ replay[t]
                         => \A i \in 1 .. Len(docs') : docs'[i].replay
                    /\ pc'[t] = "insert" => docs' = <<>>
  BY PlacesStep DEF Found, message
<1>1. ~overlapped[t]
  BY OverlapsStep
<1>2. CASE t # s
  <2>1. pc'[t] = pc[t]
    BY <1>2, PlacesStep
  <2>2. CASE ~Active(t)
    BY <2>1, <2>2 DEF Active
  <2>3. CASE Active(t)
    <3>1. ~Active(s)
      BY <1>1, <1>2, <2>3 DEF Overlaps
    <3>2. UNCHANGED docs
      BY <3>1, DocsChange DEF DocsStep, Active
    <3> QED
      BY <1>1, <2>1, <3>2 DEF Found
  <2> QED
    BY <2>2, <2>3
<1>3. CASE t = s
  <2>1. CASE Begin(s)
    <3>1. UNCHANGED docs /\ pc'[s] \in {"findBig", AfterBig(s), "done"}
            /\ (pc'[s] # "findBig" => pc'[s] = "done" \/ msgType[s] # 1)
      BY <2>1 DEF Begin, GoTo, End, TypeOK
    <3>2. AfterBig(s) = "update" => ~replay[s]
      BY DEF AfterBig
    <3>3. AfterBig(s) \in {"findNormal", "update"}
      BY DEF AfterBig
    <3> QED
      BY <1>3, <3>1, <3>2, <3>3
  <2>2. CASE FindBig(s)
    <3>1. \/ pc'[s] = "done"
          \/ /\ pc'[s] = AfterBig(s) /\ UNCHANGED docs
             /\ \A i \in 1 .. Len(docs) : docs[i].msgType # 2
      BY <2>2 DEF FindBig, GoTo, End, Fail, TypeOK
    <3>2. AfterBig(s) \in {"findNormal", "update"} /\ (AfterBig(s) = "update" => ~replay[s])
      BY DEF AfterBig
    <3> QED
      BY <1>3, <3>1, <3>2
  <2>3. CASE FindNormal(s)
    <3>1. pc[s] = "findNormal"
      BY <2>3 DEF FindNormal
    <3>2. \/ pc'[s] = "done"
          \/ /\ pc'[s] = "update" /\ UNCHANGED docs
             /\ \A i \in 1 .. Len(docs) : docs[i].replay
      BY <2>3 DEF FindNormal, GoTo, End, Fail, TypeOK
    <3> QED
      BY <1>1, <1>3, <3>1, <3>2 DEF Found
  <2>4. CASE UpdateOne(s)
    <3>1. pc[s] = "update"
      BY <2>4 DEF UpdateOne
    <3>2. pc'[s] = "done" \/ (pc'[s] = "insert" /\ UNCHANGED docs /\ docs = <<>>)
      BY <2>4 DEF UpdateOne, GoTo, End, Fail, TypeOK
    <3> QED
      BY <1>1, <1>3, <3>1, <3>2 DEF Found
  <2>5. CASE Upsert(s) \/ Redeliver(s)
    <3>1. pc'[s] \in {"done", "start"}
      BY <2>5 DEF Upsert, Redeliver, End, Fail, TypeOK
    <3> QED
      BY <1>3, <3>1
  <2> QED
    BY <2>1, <2>2, <2>3, <2>4, <2>5 DEF Steps, SaveBusinessMongo
<1> QED
  BY <1>2, <1>3

LEMMA OneDocumentStep ==
  ASSUME TypeOK, TypeOK', Overlaps, Found, OneDocument, NEW s \in Sessions, Steps(s)
  PROVE  OneDocument'
<1>1. \A t \in Sessions : overlapped[t] => overlapped'[t]
  BY OverlapsStep
<1>2. SUFFICES ASSUME Len(docs') > 1
               PROVE  \E t, u \in Sessions : t # u /\ overlapped[t] /\ overlapped[u]
  BY <1>1 DEF OneDocument
<1>3. CASE Len(docs') = Len(docs)
  BY <1>2, <1>3 DEF OneDocument
<1>4. CASE pc[s] = "insert" /\ docs' = Append(docs, Set(NoDocument(s), s))
  <2>1. Len(docs') = Len(docs) + 1 /\ Len(docs) \in Nat
    BY <1>4, InsertedDocs
  <2>2. docs # <<>>
    BY <1>2, <2>1
  <2>3. overlapped[s]
    BY <1>4, <2>2 DEF Found
  <2> QED
    BY <2>3 DEF Overlaps
<1> QED
  BY <1>3, <1>4, DocsChange, UpdatedDocs DEF DocsStep

(* The inductive invariant.                                                *)
THEOREM Invariance == Spec => []IInv
<1>1. Init => IInv
  <2>1. ASSUME Init
        PROVE  TypeOK /\ docs = <<>> /\ (\A s \in Sessions : pc[s] = "start" /\ ~overlapped[s])
    BY <2>1, MaxRedeliveriesAssumption DEF Init, TypeOK
  <2> QED
    BY <2>1 DEF IInv, Overlaps, Found, OneDocument, Active
<1>2. IInv /\ [Next]_vars => IInv'
  <2> SUFFICES ASSUME IInv, [Next]_vars
               PROVE  IInv'
    OBVIOUS
  <2>1. CASE UNCHANGED vars
    BY <2>1 DEF IInv, vars, message, TypeOK, Overlaps, Found, OneDocument, Active
  <2>2. CASE Next
    <3>1. PICK s \in Sessions : Steps(s)
      BY <2>2 DEF Next, Steps
    <3>2. TypeOK'
      BY <3>1, TypeStep DEF IInv
    <3>3. Overlaps' /\ Found' /\ OneDocument'
      BY <3>1, <3>2, OverlapsStep, FoundStep, OneDocumentStep DEF IInv
    <3> QED
      BY <3>2, <3>3 DEF IInv
  <2> QED
    BY <2>1, <2>2
<1> QED
  BY <1>1, <1>2, PTL DEF Spec

(* The documents and the sessions keep their types.                        *)
THEOREM TypeCorrect == Spec => []TypeOK
<1>1. IInv => TypeOK
  BY DEF IInv
<1> QED
  BY <1>1, Invariance, PTL

(* update_one with upsert makes a second document only when two sessions   *)
(* upsert at the same time, whatever is delivered again.                   *)
THEOREM OneDocumentEach == Spec => []OneDocument
<1>1. IInv => OneDocument
  BY DEF IInv
<1> QED
  BY <1>1, Invariance, PTL

(* SaveBusinessMongo takes a document of msg_type 2 back to 1 only in a    *)
(* session that ran at the same time as another.                           *)
THEOREM BigDocumentsStay == Spec => BigStays
<1>1. ASSUME IInv, Next, NEW i \in 1 .. Len(docs), docs[i].msgType = 2, docs'[i].msgType # 2
      PROVE  overlapped[Writer(i)']
  <2>1. PICK s \in Sessions : Steps(s)
    BY <1>1 DEF Next, Steps
  <2>2. /\ pc[s] = "update" /\ docs # <<>> /\ docs' = [docs EXCEPT ![1] = Set(@, s)] /\ i = 1
    BY <1>1, <2>1, DocsChange, UpdatedDocs, InsertedDocs DEF IInv, DocsStep
  <2>3. docs'[1] = Set(docs[1], s)
    BY <2>2, UpdatedDocs DEF IInv
  <2>4. msgType[s] = 1 /\ docs'[1].event = s
    BY <1>1, <2>2, <2>3 DEF Set, IInv, TypeOK
  <2>5. overlapped[s]
    BY <1>1, <2>2, <2>4 DEF IInv, Found
  <2> QED
    BY <2>2, <2>4, <2>5 DEF Writer
<1>2. IInv /\ [Next]_vars =>
        [\A i \in 1 .. Len(docs) :
           docs[i].msgType = 2 /\ docs'[i].msgType # 2 => overlapped[Writer(i)']]_docs
  BY <1>1 DEF vars
<1> QED
  BY <1>2, Invariance, PTL DEF Spec, BigStays

(* SaveBusinessMongo replaces a normal event by a replayed one only over a *)
(* document with the mark, or in a session that ran at the same time as    *)
(* another.                                                                *)
THEOREM NormalEventsStay == Spec => NormalStays
<1>1. ASSUME IInv, Next, NEW i \in 1 .. Len(docs), ~replay[Writer(i)], replay[Writer(i)']
      PROVE  docs[i].replay \/ overlapped[Writer(i)']
  <2>1. PICK s \in Sessions : Steps(s)
    BY <1>1 DEF Next, Steps
  <2>2. /\ pc[s] = "update" /\ docs # <<>> /\ docs' = [docs EXCEPT ![1] = Set(@, s)] /\ i = 1
    BY <1>1, <2>1, DocsChange, UpdatedDocs, InsertedDocs DEF IInv, DocsStep, Writer
  <2>3. docs'[1] = Set(docs[1], s)
    BY <2>2, UpdatedDocs DEF IInv
  <2>4. Writer(i)' = s
    BY <2>2, <2>3 DEF Set, Writer
  <2>5. docs[i].replay \/ overlapped[s]
    BY <1>1, <2>2, <2>4 DEF IInv, Found
  <2> QED
    BY <2>4, <2>5
<1>2. IInv /\ [Next]_vars =>
        [\A i \in 1 .. Len(docs) :
           ~replay[Writer(i)] /\ replay[Writer(i)'] => docs[i].replay \/ overlapped[Writer(i)']]_docs
  BY <1>1 DEF vars
<1> QED
  BY <1>2, Invariance, PTL DEF Spec, NormalStays

=============================================================================
