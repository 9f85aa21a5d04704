------------------------- MODULE PartitionManagerProofs -------------------------
(***************************************************************************)
(* What the list operations of CPartitionManager return, for every list.   *)
(***************************************************************************)
EXTENDS PartitionManager, SequenceTheorems, FiniteSetTheorems, WellFoundedInduction, TLAPS

(* Every nonempty set of naturals has a least element.                     *)
LEMMA LeastNatural ==
  ASSUME NEW T \in SUBSET Nat, T # {}
  PROVE  \E x \in T : \A y \in T : x <= y
<1>1. PICK x \in T : \A y \in T : ~ (<<y, x>> \in OpToRel(<, Nat))
  BY NatLessThanWellFounded, WFMin
<1>2. \A y \in T : ~ (y < x)
  BY <1>1 DEF OpToRel
<1>3. \A y \in T : x \in Nat /\ y \in Nat
  OBVIOUS
<1>4. \A y \in T : x <= y
  BY <1>2, <1>3
<1> QED
  BY <1>4

(* do_something's walk finds what it looks for: the entries in front of    *)
(* first_not_done_pos are DONE, and the one behind them, if any, is not.   *)
LEMMA FirstNotDonePosLemma ==
  ASSUME NEW L \in Seq(Entry)
  PROVE  /\ FirstNotDonePos(L) \in 0 .. Len(L)
         /\ AllDone(L, FirstNotDonePos(L))
         /\ FirstNotDonePos(L) < Len(L) => L[FirstNotDonePos(L) + 1].state # "DONE"
<1> DEFINE T == {i \in 1 .. Len(L) : L[i].state # "DONE"}
<1>0. Len(L) \in Nat
  BY LenProperties
<1>1. \E n \in 0 .. Len(L) :
        /\ AllDone(L, n)
        /\ n < Len(L) => L[n + 1].state # "DONE"
  <2>1. CASE T = {}
    <3>1. AllDone(L, Len(L))
      BY <2>1, <1>0 DEF AllDone
    <3> QED
      BY <3>1, <1>0
  <2>2. CASE T # {}
    <3>1. T \in SUBSET Nat
      BY <1>0
    <3>2. PICK x \in T : \A y \in T : x <= y
      BY <2>2, <3>1, LeastNatural
    <3>3. x - 1 \in 0 .. Len(L) /\ AllDone(L, x - 1) /\ L[(x - 1) + 1].state # "DONE"
      BY <3>2, <1>0 DEF AllDone
    <3> QED
      BY <3>3
  <2> QED
    BY <2>1, <2>2
<1> QED
  BY <1>1 DEF FirstNotDonePos

(* emplace_back leaves every entry where it is and puts the message last.  *)
LEMMA EmplaceBackLemma ==
  ASSUME NEW L \in Seq(Entry), NEW m \in Messages
  PROVE  /\ EmplaceBack(L, m) \in Seq(Entry)
         /\ Len(EmplaceBack(L, m)) = Len(L) + 1
         /\ \A i \in 1 .. Len(L) : EmplaceBack(L, m)[i] = L[i]
         /\ EmplaceBack(L, m)[Len(L) + 1] = Data(m)
<1>1. Data(m) \in Entry
  BY DEF Data, Entry, NodeState
<1> QED
  BY <1>1, AppendProperties DEF EmplaceBack

(* A change of state moves no entry and changes no message.                *)
LEMMA SetStateLemma ==
  ASSUME NEW L \in Seq(Entry), NEW i \in 1 .. Len(L), NEW s \in NodeState
  PROVE  /\ SetState(L, i, s) \in Seq(Entry)
         /\ Len(SetState(L, i, s)) = Len(L)
         /\ \A j \in 1 .. Len(L) : SetState(L, i, s)[j].msg = L[j].msg
         /\ \A j \in 1 .. Len(L) : j # i => SetState(L, i, s)[j] = L[j]
         /\ SetState(L, i, s)[i].state = s
<1> DEFINE e == [L[i] EXCEPT !.state = s]
<1>1. L[i] \in Entry
  BY ElementOfSeq
<1>2. e \in Entry /\ e.msg = L[i].msg /\ e.state = s
  BY <1>1 DEF Entry
<1>3. SetState(L, i, s) = [L EXCEPT ![i] = e]
  BY DEF SetState
<1> QED
  BY <1>2, <1>3, ExceptSeq

(* remove_from_head drops n entries and shifts the rest.                   *)
LEMMA RemoveFromHeadLemma ==
  ASSUME NEW L \in Seq(Entry), NEW n \in 0 .. Len(L)
  PROVE  /\ RemoveFromHead(L, n) \in Seq(Entry)
         /\ Len(RemoveFromHead(L, n)) = Len(L) - n
         /\ \A i \in 1 .. Len(L) - n : RemoveFromHead(L, n)[i] = L[i + n]
<1>0. Len(L) \in Nat
  BY LenProperties
<1>1. \A i \in n + 1 .. Len(L) : L[i] \in Entry
  BY <1>0, ElementOfSeq
<1>2. n + 1 \in Int /\ Len(L) \in Int
  BY <1>0
<1>3. /\ SubSeq(L, n + 1, Len(L)) \in Seq(Entry)
      /\ Len(SubSeq(L, n + 1, Len(L))) =
           IF n + 1 <= Len(L) THEN Len(L) - (n + 1) + 1 ELSE 0
      /\ \A i \in 1 .. Len(L) - (n + 1) + 1 :
           SubSeq(L, n + 1, Len(L))[i] = L[(n + 1) + i - 1]
  BY <1>1, <1>2, SubSeqProperties
<1>4. \A i \in 1 .. Len(L) - n :
        i \in 1 .. Len(L) - (n + 1) + 1 /\ (n + 1) + i - 1 = i + n
  BY <1>0
<1> QED
  BY <1>0, <1>3, <1>4 DEF RemoveFromHead

(* The count of a walk is a natural number.                                *)
LEMMA UnresolvedType ==
  ASSUME NEW L \in Seq(Entry)
  PROVE  Unresolved(L) \in Nat
<1> DEFINE U == {i \in 1 .. Len(L) : L[i].state # "DONE"}
<1>1. Len(L) \in Nat
  BY LenProperties
<1>2. U \subseteq 1 .. Len(L) /\ IsFiniteSet(1 .. Len(L))
  BY <1>1, FS_Interval
<1>3. IsFiniteSet(U)
  BY <1>2, FS_Subset
<1> QED
  BY <1>3, FS_CardinalityType DEF Unresolved

=============================================================================
