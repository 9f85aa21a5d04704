---------------------------- MODULE WorkflowProofs ----------------------------
(***************************************************************************)
(* Proofs about Workflow: what holds of a session whatever the servers,    *)
(* databases and brokers answer, for any number of pictures, topics and    *)
(* retries.                                                                *)
(***************************************************************************)
EXTENDS Workflow, SequenceTheorems, TLAPS

-----------------------------------------------------------------------------
(* The chains.                                                             *)

Repairable == {"BusinessFlow", "BusinessAttribute"}

RepairedRest == <<"BusinessSave", "OutputKafka">>

(* What the order of the modules in a chain, or its end, gives.            *)
WellOrdered(k, c) ==
  /\ \A i, j \in 1 .. Len(c) : c[i] = c[j] => i = j
  /\ \A i \in 1 .. Len(c) :
       /\ c[i] = "OutputKafka" => i = Len(c)
       /\ c[i] = "PicWait" => k # "ParkedCapture"
       /\ c[i] = "DownloadImage" => k \in Captures
       /\ c[i] = "TraceSpace" => k \in Captures
       /\ k \in Captures /\ c[i] \in {"TraceSpace", "BusinessSave", "OutputKafka"}
            => \E j \in 1 .. i - 1 : c[j] = "DownloadImage"

LEMMA ChainFacts ==
  ASSUME NEW k \in Kinds
  PROVE  /\ ProcessChain(k) \in Seq(Modules) /\ Len(ProcessChain(k)) >= 1
         /\ WellOrdered(k, ProcessChain(k))
         /\ k \in Repairable => ProcessChain(k) = <<"GetPlugin", "BusinessSave">>
         /\ k \in Captures => Among("DownloadImage", ProcessChain(k))
<1> DEFINE c == ProcessChain(k)
<1>1. CASE k = "Capture"
  <2>1. c = <<"GetPlugin", "DownloadImage", "TraceSpace", "PicWait", "GenerateUrl", "OutputKafka">>
    BY <1>1 DEF ProcessChain
  <2> HIDE DEF c
  <2>2. /\ Len(c) = 6 /\ c[1] = "GetPlugin" /\ c[2] = "DownloadImage" /\ c[3] = "TraceSpace"
        /\ c[4] = "PicWait" /\ c[5] = "GenerateUrl" /\ c[6] = "OutputKafka"
        /\ c \in Seq(Modules)
    BY <2>1 DEF Modules
  <2>3. \A i \in 1 .. Len(c) : i \in {1, 2, 3, 4, 5, 6}
    BY <2>2
  <2>4. WellOrdered(k, c)
    BY <1>1, <2>2, <2>3 DEF WellOrdered, Captures, Repairable
  <2> QED
    BY <1>1, <2>1, <2>2, <2>4 DEF Captures, Repairable, Among, c
<1>2. CASE k = "XiashunCapture"
  <2>1. c = <<"DownloadImage", "TraceSpace", "BusinessSave", "GenerateUrl", "OutputKafka">>
    BY <1>2 DEF ProcessChain, XiashunCaptureChain
  <2> HIDE DEF c
  <2>2. /\ Len(c) = 5 /\ c[1] = "DownloadImage" /\ c[2] = "TraceSpace"
        /\ c[3] = "BusinessSave" /\ c[4] = "GenerateUrl" /\ c[5] = "OutputKafka"
        /\ c \in Seq(Modules)
    BY <2>1 DEF Modules
  <2>3. \A i \in 1 .. Len(c) : i \in {1, 2, 3, 4, 5}
    BY <2>2
  <2>4. WellOrdered(k, c)
    BY <1>2, <2>2, <2>3 DEF WellOrdered, Captures, Repairable
  <2> QED
    BY <1>2, <2>1, <2>2, <2>4 DEF Captures, Repairable, Among, c
<1>3. CASE k = "XiashunBusiness"
  <2>1. c = <<"BusinessSave">>
    BY <1>3 DEF ProcessChain
  <2> HIDE DEF c
  <2>2. Len(c) = 1 /\ c[1] = "BusinessSave" /\ c \in Seq(Modules)
    BY <2>1 DEF Modules
  <2>3. \A i \in 1 .. Len(c) : i \in {1}
    BY <2>2
  <2>4. WellOrdered(k, c)
    BY <1>3, <2>2, <2>3 DEF WellOrdered, Captures, Repairable
  <2> QED
    BY <1>3, <2>1, <2>2, <2>4 DEF Captures, Repairable, Among, c
<1>4. CASE k = "Screenshot"
  <2>1. c = <<"OutputKafka">>
    BY <1>4 DEF ProcessChain
  <2> HIDE DEF c
  <2>2. Len(c) = 1 /\ c[1] = "OutputKafka" /\ c \in Seq(Modules)
    BY <2>1 DEF Modules
  <2>3. \A i \in 1 .. Len(c) : i \in {1}
    BY <2>2
  <2>4. WellOrdered(k, c)
    BY <1>4, <2>2, <2>3 DEF WellOrdered, Captures, Repairable
  <2> QED
    BY <1>4, <2>1, <2>2, <2>4 DEF Captures, Repairable, Among, c
<1>5. CASE k = "BusinessCapture"
  <2>1. c = <<"PicWait", "GetPlugin", "BusinessSave", "GenerateUrl", "OutputKafka">>
    BY <1>5 DEF ProcessChain, BusinessChain
  <2> HIDE DEF c
  <2>2. /\ Len(c) = 5 /\ c[1] = "PicWait" /\ c[2] = "GetPlugin" /\ c[3] = "BusinessSave"
        /\ c[4] = "GenerateUrl" /\ c[5] = "OutputKafka" /\ c \in Seq(Modules)
    BY <2>1 DEF Modules
  <2>3. \A i \in 1 .. Len(c) : i \in {1, 2, 3, 4, 5}
    BY <2>2
  <2>4. WellOrdered(k, c)
    BY <1>5, <2>2, <2>3 DEF WellOrdered, Captures, Repairable
  <2> QED
    BY <1>5, <2>1, <2>2, <2>4 DEF Captures, Repairable, Among, c
<1>6. CASE k = "ParkedCapture"
  <2>1. c = <<"GetPlugin", "BusinessSave", "GenerateUrl", "OutputKafka">>
    BY <1>6 DEF ProcessChain, BusinessChain
  <2> HIDE DEF c
  <2>2. /\ Len(c) = 4 /\ c[1] = "GetPlugin" /\ c[2] = "BusinessSave"
        /\ c[3] = "GenerateUrl" /\ c[4] = "OutputKafka" /\ c \in Seq(Modules)
    BY <2>1 DEF Modules
  <2>3. \A i \in 1 .. Len(c) : i \in {1, 2, 3, 4}
    BY <2>2
  <2>4. WellOrdered(k, c)
    BY <1>6, <2>2, <2>3 DEF WellOrdered, Captures, Repairable
  <2> QED
    BY <1>6, <2>1, <2>2, <2>4 DEF Captures, Repairable, Among, c
<1>7. CASE k \in Repairable
  <2>1. c = <<"GetPlugin", "BusinessSave">>
    BY <1>7 DEF ProcessChain, BusinessChain, Repairable
  <2> HIDE DEF c
  <2>2. Len(c) = 2 /\ c[1] = "GetPlugin" /\ c[2] = "BusinessSave" /\ c \in Seq(Modules)
    BY <2>1 DEF Modules
  <2>3. \A i \in 1 .. Len(c) : i \in {1, 2}
    BY <2>2
  <2>4. WellOrdered(k, c)
    BY <1>7, <2>2, <2>3 DEF WellOrdered, Captures, Repairable
  <2> QED
    BY <1>7, <2>1, <2>2, <2>4 DEF Captures, Repairable, Among, c
<1> QED
  BY <1>1, <1>2, <1>3, <1>4, <1>5, <1>6, <1>7 DEF Kinds, Repairable

LEMMA RepairedFacts ==
  /\ RepairedRest \in Seq(Modules) /\ Len(RepairedRest) = 2
  /\ RepairedRest[1] = "BusinessSave" /\ RepairedRest[2] = "OutputKafka"
  /\ \A k \in Repairable : WellOrdered(k, RepairedRest)
<1>1. /\ RepairedRest \in Seq(Modules) /\ Len(RepairedRest) = 2
      /\ RepairedRest[1] = "BusinessSave" /\ RepairedRest[2] = "OutputKafka"
  BY DEF RepairedRest, Modules
<1> QED
  BY <1>1 DEF WellOrdered, Repairable, Captures

(* What the head of an end of such a chain tells.                          *)
HeadTells(k, p) ==
  /\ ~Among(Head(p), Tail(p))
  /\ Head(p) = "OutputKafka" => Tail(p) = <<>>
  /\ Head(p) = "PicWait" => k # "ParkedCapture"
  /\ Head(p) \in {"DownloadImage", "TraceSpace"} => k \in Captures
  /\ k \in Captures /\ Head(p) \in {"TraceSpace", "BusinessSave", "OutputKafka"}
       => ~Among("DownloadImage", p)

LEMMA TailFacts ==
  ASSUME NEW p \in Seq(Modules), p # <<>>
  PROVE  /\ Head(p) \in Modules /\ Tail(p) \in Seq(Modules)
         /\ Len(p) \in Nat \ {0} /\ Len(Tail(p)) = Len(p) - 1
         /\ Head(p) = p[1] /\ \A i \in 1 .. Len(Tail(p)) : Tail(p)[i] = p[i + 1]
         /\ \A m : Among(m, p) <=> m = Head(p) \/ Among(m, Tail(p))
         /\ <<Head(p)>> \o Tail(p) = p
<1>1. /\ Head(p) \in Modules /\ Tail(p) \in Seq(Modules)
      /\ Len(p) \in Nat \ {0} /\ Len(Tail(p)) = Len(p) - 1
      /\ Head(p) = p[1] /\ \A i \in 1 .. Len(Tail(p)) : Tail(p)[i] = p[i + 1]
  OBVIOUS
<1>2. \A i \in 1 .. Len(p) : i = 1 \/ (i - 1 \in 1 .. Len(Tail(p)) /\ p[i] = Tail(p)[i - 1])
  BY <1>1
<1>3. \A i \in 1 .. Len(Tail(p)) : i + 1 \in 1 .. Len(p)
  BY <1>1
<1>4. \A m : Among(m, p) <=> m = Head(p) \/ Among(m, Tail(p))
  BY <1>1, <1>2, <1>3 DEF Among
<1>5. <<Head(p)>> \o Tail(p) = p
  <2> DEFINE q == <<Head(p)>> \o Tail(p)
  <2>1. <<Head(p)>> \in Seq(Modules) /\ Len(<<Head(p)>>) = 1 /\ <<Head(p)>>[1] = Head(p)
    BY <1>1
  <2>2. /\ q \in Seq(Modules) /\ Len(q) = Len(p)
        /\ \A i \in 1 .. Len(p) : q[i] = IF i = 1 THEN Head(p) ELSE Tail(p)[i - 1]
    BY <1>1, <2>1, ConcatProperties
  <2>3. \A i \in 1 .. Len(p) : q[i] = p[i]
    BY <1>1, <1>2, <2>2
  <2> HIDE DEF q
  <2> QED
    BY <2>2, <2>3, SeqEqual DEF q
<1> QED
  BY <1>1, <1>4, <1>5

LEMMA AppendFacts ==
  ASSUME NEW s \in Seq(Modules), NEW m \in Modules
  PROVE  /\ Append(s, m) \in Seq(Modules) /\ Append(s, m) # <<>>
         /\ Len(Append(s, m)) = Len(s) + 1 /\ Append(s, m)[Len(s) + 1] = m
         /\ \A i \in 1 .. Len(s) : Append(s, m)[i] = s[i]
  BY AppendProperties

LEMMA EndOfTail ==
  ASSUME NEW k \in Kinds, NEW w \in Seq(Modules), WellOrdered(k, w),
         NEW p \in Seq(Modules), p # <<>>, EndOf(p, w)
  PROVE  EndOf(Tail(p), w) /\ HeadTells(k, p)
<1> DEFINE h == Len(w) - Len(p) + 1
<1>1. /\ Len(p) \in Nat \ {0} /\ Len(w) \in Nat /\ Len(p) <= Len(w)
      /\ h \in 1 .. Len(w) /\ Head(p) = w[h]
  BY TailFacts DEF EndOf
<1>2. \A i \in 1 .. Len(p) : h + i - 1 \in h .. Len(w) /\ p[i] = w[h + i - 1]
  BY <1>1 DEF EndOf
<1>3. \A i \in 1 .. Len(Tail(p)) : h + i \in h + 1 .. Len(w) /\ Tail(p)[i] = w[h + i]
  BY <1>1, <1>2, TailFacts
<1>4. EndOf(Tail(p), w)
  BY <1>1, <1>3, TailFacts DEF EndOf
<1> HIDE DEF h
<1>5. ~Among(Head(p), Tail(p))
  BY <1>1, <1>3 DEF Among, WellOrdered
<1>6. ASSUME Head(p) = "OutputKafka"
      PROVE  Tail(p) = <<>>
  <2>1. h = Len(w)
    BY <1>1, <1>6 DEF WellOrdered
  <2>2. Len(p) = 1
    <3>1. \A a, b \in Nat : b - a + 1 = b => a = 1
      OBVIOUS
    <3>2. Len(p) \in Nat /\ Len(w) \in Nat /\ Len(w) - Len(p) + 1 = Len(w)
      BY <1>1, <2>1 DEF h
    <3> QED
      BY <3>1, <3>2
  <2>3. Tail(p) \in Seq(Modules) /\ Len(Tail(p)) = 0
    BY <2>2, TailFacts
  <2> QED
    BY <2>3, EmptySeq
<1>7. ASSUME k \in Captures, Head(p) \in {"TraceSpace", "BusinessSave", "OutputKafka"},
             NEW i \in 1 .. Len(p), p[i] = "DownloadImage"
      PROVE  FALSE
  <2>1. PICK j \in 1 .. h - 1 : w[j] = "DownloadImage"
    BY <1>1, <1>7 DEF WellOrdered
  <2>2. j \in 1 .. Len(w) /\ h + i - 1 \in 1 .. Len(w) /\ j # h + i - 1
    BY <1>1, <1>2, <2>1
  <2> QED
    BY <1>2, <1>7, <2>1, <2>2 DEF WellOrdered
<1>8. /\ Head(p) = "PicWait" => k # "ParkedCapture"
      /\ Head(p) \in {"DownloadImage", "TraceSpace"} => k \in Captures
  BY <1>1 DEF WellOrdered
<1> QED
  BY <1>4, <1>5, <1>6, <1>7, <1>8 DEF HeadTells, Among

(* An end of the chain of the session.                                     *)
InOrder(p) ==
  \/ EndOf(p, ProcessChain(kind))
  \/ kind \in Repairable /\ EndOf(p, RepairedRest)

LEMMA InOrderTail ==
  ASSUME kind \in Kinds, NEW p \in Seq(Modules), p # <<>>, InOrder(p)
  PROVE  /\ InOrder(Tail(p)) /\ HeadTells(kind, p)
         /\ EndOf(p, ProcessChain(kind)) => EndOf(Tail(p), ProcessChain(kind))
<1>1. CASE EndOf(p, ProcessChain(kind))
  BY <1>1, ChainFacts, EndOfTail DEF InOrder
<1>2. CASE kind \in Repairable /\ EndOf(p, RepairedRest)
  BY <1>2, ChainFacts, RepairedFacts, EndOfTail DEF InOrder
<1> QED
  BY <1>1, <1>2 DEF InOrder

(* repairProcChain finds the chain as it was made.                         *)
LEMMA InOrderRepaired ==
  ASSUME kind \in Repairable, NEW p \in Seq(Modules), p # <<>>, InOrder(p), Head(p) = "GetPlugin"
  PROVE  /\ EndOf(p, ProcessChain(kind)) /\ Len(p) = 2
         /\ InOrder(Append(Tail(p), "OutputKafka"))
         /\ ~EndOf(Append(Tail(p), "OutputKafka"), ProcessChain(kind))
<1> DEFINE c == ProcessChain(kind)
           q == Append(Tail(p), "OutputKafka")
<1>1. c = <<"GetPlugin", "BusinessSave">>
  BY ChainFacts DEF Kinds, Repairable
<1> HIDE DEF c
<1>2. Len(c) = 2 /\ c[1] = "GetPlugin" /\ c[2] = "BusinessSave"
  BY <1>1
<1>3. Len(p) \in Nat \ {0} /\ Len(Tail(p)) = Len(p) - 1 /\ Head(p) = p[1]
  BY TailFacts
<1>4. ~EndOf(p, RepairedRest)
  <2> SUFFICES ASSUME EndOf(p, RepairedRest)
               PROVE  FALSE
    OBVIOUS
  <2>1. Len(p) \in {1, 2} /\ p[1] = RepairedRest[2 - Len(p) + 1]
    BY <1>3, RepairedFacts DEF EndOf
  <2> QED
    BY <1>3, <2>1, RepairedFacts
<1>5. EndOf(p, c)
  BY <1>4 DEF InOrder, c
<1>6. Len(p) \in {1, 2} /\ p[1] = c[2 - Len(p) + 1]
  BY <1>2, <1>3, <1>5 DEF EndOf
<1>7. Len(p) = 2
  BY <1>2, <1>3, <1>6
<1>8. Tail(p) \in Seq(Modules) /\ Len(Tail(p)) = 1 /\ Tail(p)[1] = "BusinessSave"
  BY <1>2, <1>5, <1>7, TailFacts DEF EndOf
<1>9. Len(q) = 2 /\ q[1] = "BusinessSave" /\ q[2] = "OutputKafka"
  <2>1. "OutputKafka" \in Modules
    BY DEF Modules
  <2>2. /\ Len(q) = Len(Tail(p)) + 1 /\ q[Len(Tail(p)) + 1] = "OutputKafka"
        /\ \A i \in 1 .. Len(Tail(p)) : q[i] = Tail(p)[i]
    BY <1>8, <2>1, AppendFacts
  <2> HIDE DEF q
  <2>3. Len(Tail(p)) + 1 = 2 /\ 1 \in 1 .. Len(Tail(p))
    BY <1>8
  <2>4. q[2] = "OutputKafka" /\ Len(q) = 2
    BY <2>2, <2>3
  <2>5. q[1] = Tail(p)[1]
    BY <2>2, <2>3
  <2> QED
    BY <1>8, <2>4, <2>5
<1> HIDE DEF q
<1>10. EndOf(q, RepairedRest) /\ ~EndOf(q, c)
  BY <1>2, <1>9, RepairedFacts DEF EndOf
<1> QED
  BY <1>5, <1>7, <1>10 DEF InOrder, c, q

-----------------------------------------------------------------------------
(* Types.                                                                  *)

LEMMA ModuleNames ==
  /\ HttpModules \subseteq Modules
  /\ \A m \in {"GetPlugin", "DownloadImage", "TraceSpace", "PicWait", "BusinessSave",
               "GenerateUrl", "OutputKafka"} : m \in Modules
  BY DEF HttpModules, Modules

LEMMA PendingFacts ==
  ASSUME TypeOK
  PROVE  /\ Pending \in Seq(Modules)
         /\ place = "queue" => Pending = chain
         /\ place = "http" => Pending # <<>> /\ Head(Pending) = current /\ Tail(Pending) = chain
<1>1. CASE place = "http"
  <2>1. current \in Modules /\ chain \in Seq(Modules)
    BY <1>1, ModuleNames DEF TypeOK, HttpModules
  <2>2. <<current>> \in Seq(Modules) /\ Len(<<current>>) = 1 /\ <<current>>[1] = current
    BY <2>1
  <2>3. Pending = <<current>> \o chain
    BY <1>1 DEF Pending
  <2>4. /\ Pending \in Seq(Modules) /\ Len(Pending) = 1 + Len(chain)
        /\ \A j \in 1 .. 1 + Len(chain) :
             Pending[j] = IF j <= 1 THEN current ELSE chain[j - 1]
    BY <2>1, <2>2, <2>3, ConcatProperties
  <2> HIDE DEF Pending
  <2>5. Len(chain) \in Nat /\ Pending # <<>> /\ Pending[1] = current
    BY <2>1, <2>4
  <2>6. Head(Pending) = current
    BY <2>4, <2>5, TailFacts
  <2>7. /\ Tail(Pending) \in Seq(Modules) /\ Len(Tail(Pending)) = Len(chain)
        /\ \A j \in 1 .. Len(Tail(Pending)) : Tail(Pending)[j] = Pending[j + 1]
    BY <2>4, <2>5, TailFacts
  <2>8. \A j \in 1 .. Len(Tail(Pending)) : Tail(Pending)[j] = chain[j]
    BY <2>4, <2>5, <2>7
  <2>9. Tail(Pending) = chain
    BY <2>1, <2>7, <2>8, SeqEqual
  <2> QED
    BY <1>1, <2>4, <2>5, <2>6, <2>9
<1>2. CASE place # "http"
  BY <1>2 DEF Pending, TypeOK
<1> QED
  BY <1>1, <1>2

LEMMA TypeStep ==
  ASSUME TypeOK, Downloads, [Next]_vars
  PROVE  TypeOK'
<1> USE DEF message, output
<1>1. ASSUME NEW rest \in Seq(Modules), GoOn(rest)
      PROVE  /\ chain' \in Seq(Modules) /\ place' \in {"queue", "final"} /\ err' \in ErrCodes
             /\ (err' # "none" <=> place' = "final") \/ (err' = err /\ place' = "queue")
             /\ pushes' \in Nat /\ refused' = refused
  BY <1>1 DEF GoOn, PushMsg, Final, ErrCodes, TypeOK
<1>2. ASSUME NEW e \in ErrCodes \ {"none"}, Fail(e) \/ Refuse(e), place = "queue" => chain # <<>>
      PROVE  /\ chain' \in Seq(Modules) /\ place' = "final" /\ err' \in ErrCodes \ {"none"}
             /\ pushes' \in Nat /\ refused' \in BOOLEAN /\ done' = done
  BY <1>2, TailFacts DEF Fail, Refuse, Final, TypeOK
<1>3. {"Success", "ProcTerminate", "KafkaError", "DownloadError", "HttpConnError", "MongoFailed"}
        = ErrCodes \ {"none"}
  BY DEF ErrCodes
<1>4. CASE GetPlugin
  <2>1. place = "queue" /\ chain # <<>> /\ Tail(chain) \in Seq(Modules)
    BY <1>4, TailFacts DEF GetPlugin, NextProcessor, TypeOK
  <2>2. Repaired(Tail(chain)) \in Seq(Modules)
    BY <2>1, AppendFacts, ModuleNames DEF Repaired
  <2>3. CASE Refuse("MongoFailed") /\ UNCHANGED plugin
    BY <1>2, <1>3, <1>4, <2>1, <2>3 DEF GetPlugin, TypeOK
  <2>4. CASE Completed("GetPlugin") /\ GoOn(Tail(chain)) /\ plugin' \in Plugins
    BY <1>1, <1>4, <2>1, <2>4, ModuleNames DEF GetPlugin, TypeOK, Completed
  <2>5. CASE Completed("GetPlugin") /\ GoOn(Repaired(Tail(chain))) /\ plugin' \in Plugins
    BY <1>1, <1>4, <2>1, <2>2, <2>5, ModuleNames DEF GetPlugin, TypeOK, Completed
  <2>6. plugin \in Plugins
    BY DEF TypeOK
  <2> QED
    BY <1>4, <2>3, <2>4, <2>5, <2>6 DEF GetPlugin
<1>5. CASE DownloadRequest
  <2>1. place = "queue" /\ chain # <<>> /\ Tail(chain) \in Seq(Modules) /\ "DownloadImage" \in HttpModules
    BY <1>5, TailFacts DEF DownloadRequest, NextProcessor, TypeOK, HttpModules
  <2>2. urlIndex' \in 0 .. urls'
    BY <1>5, MaxUrlsAssumption DEF DownloadRequest, TypeOK
  <2>3. CASE Send("DownloadImage")
    BY <1>5, <2>1, <2>2, <2>3 DEF DownloadRequest, TypeOK, Send
  <2>4. CASE (Refuse("ProcTerminate") \/ Fail("ProcTerminate")) /\ UNCHANGED current
    BY <1>2, <1>3, <1>5, <2>1, <2>2, <2>4 DEF DownloadRequest, TypeOK
  <2> QED
    BY <1>5, <2>3, <2>4 DEF DownloadRequest
<1>6. CASE TraceSpaceRequest
  <2>1. place = "queue" /\ chain # <<>> /\ Tail(chain) \in Seq(Modules) /\ "TraceSpace" \in HttpModules
    BY <1>6, TailFacts DEF TraceSpaceRequest, NextProcessor, TypeOK, HttpModules
  <2>2. CASE Send("TraceSpace")
    BY <1>6, <2>1, <2>2 DEF TraceSpaceRequest, TypeOK, Send
  <2>3. CASE Fail("DownloadError") /\ UNCHANGED current
    BY <1>2, <1>3, <1>6, <2>1, <2>3 DEF TraceSpaceRequest, TypeOK
  <2> QED
    BY <1>6, <2>2, <2>3 DEF TraceSpaceRequest
<1>7. CASE GenerateUrlRequest
  <2>1. place = "queue" /\ chain # <<>> /\ Tail(chain) \in Seq(Modules) /\ "GenerateUrl" \in HttpModules
    BY <1>7, TailFacts DEF GenerateUrlRequest, NextProcessor, TypeOK, HttpModules
  <2>2. CASE Send("GenerateUrl")
    BY <1>7, <2>1, <2>2 DEF GenerateUrlRequest, TypeOK, Send
  <2>3. CASE Refuse("ProcTerminate") /\ UNCHANGED current
    BY <1>2, <1>3, <1>7, <2>1, <2>3 DEF GenerateUrlRequest, TypeOK
  <2> QED
    BY <1>7, <2>2, <2>3 DEF GenerateUrlRequest
<1>8. CASE PicWait
  <2>1. place = "queue" /\ chain # <<>> /\ Tail(chain) \in Seq(Modules)
    BY <1>8, TailFacts DEF PicWait, NextProcessor, TypeOK
  <2>2. CASE Final("Success") /\ waiting' = TRUE /\ chain' = Tail(chain) /\ UNCHANGED <<done, refused>>
    BY <1>8, <2>1, <2>2 DEF PicWait, TypeOK, Final, ErrCodes
  <2>3. CASE GoOn(Tail(chain)) /\ Completed("PicWait") /\ UNCHANGED waiting
    BY <1>1, <1>8, <2>1, <2>3, ModuleNames DEF PicWait, TypeOK, Completed
  <2> QED
    BY <1>8, <2>2, <2>3 DEF PicWait
<1>9. CASE BusinessSave
  <2>1. place = "queue" /\ chain # <<>> /\ Tail(chain) \in Seq(Modules)
    BY <1>9, TailFacts DEF BusinessSave, NextProcessor, TypeOK
  <2>2. CASE Refuse("MongoFailed")
    BY <1>2, <1>3, <1>9, <2>1, <2>2 DEF BusinessSave, TypeOK
  <2>3. CASE GoOn(Tail(chain)) /\ Completed("BusinessSave")
    BY <1>1, <1>9, <2>1, <2>3, ModuleNames DEF BusinessSave, TypeOK, Completed
  <2> QED
    BY <1>9, <2>2, <2>3 DEF BusinessSave
<1>10. CASE OutputKafka
  <2>1. place = "queue" /\ chain # <<>> /\ Tail(chain) \in Seq(Modules)
    BY <1>10, TailFacts DEF OutputKafka, NextProcessor, TypeOK
  <2>2. KafkaRequests \subseteq 0 .. MaxTopics + 1
    <3>1. CaptureRequests \subseteq 0 .. MaxTopics + 1
      BY MaxTopicsAssumption DEF CaptureRequests, TypeOK, Plugins
    <3>2. BusinessRequests \subseteq 0 .. MaxTopics + 1
      BY MaxTopicsAssumption DEF BusinessRequests, TypeOK, Plugins
    <3>3. XiashunCaptureRequests \subseteq 0 .. MaxTopics + 1
      BY MaxTopicsAssumption DEF XiashunCaptureRequests
    <3>4. ScreenshotRequests \subseteq 0 .. MaxTopics + 1
      BY MaxTopicsAssumption DEF ScreenshotRequests
    <3> QED
      BY <3>1, <3>2, <3>3, <3>4 DEF KafkaRequests
  <2>3. PICK n \in KafkaRequests :
          /\ expected' = n
          /\ \/ GoOn(Tail(chain)) /\ Completed("OutputKafka") /\ UNCHANGED produced
             \/ produced' = n /\ GoOn(Tail(chain)) /\ Completed("OutputKafka")
             \/ n > 0 /\ produced' \in 0 .. n - 1 /\ Refuse("KafkaError")
    BY <1>10 DEF OutputKafka
  <2>4. expected' \in 0 .. MaxTopics + 1 /\ produced' \in 0 .. MaxTopics + 1
    BY <2>2, <2>3, MaxTopicsAssumption DEF TypeOK
  <2>5. CASE GoOn(Tail(chain)) /\ Completed("OutputKafka")
    BY <1>1, <1>10, <2>1, <2>4, <2>5, ModuleNames DEF OutputKafka, TypeOK, Completed
  <2>6. CASE Refuse("KafkaError")
    BY <1>2, <1>3, <1>10, <2>1, <2>4, <2>6 DEF OutputKafka, TypeOK
  <2> QED
    BY <2>3, <2>5, <2>6
<1>11. CASE HttpErrorProcess
  <2>1. place = "http" /\ <<current>> \o chain \in Seq(Modules)
    BY <1>11, PendingFacts DEF HttpErrorProcess, Pending
  <2>2. urlIndex' \in 0 .. urls'
    BY <1>11, MaxUrlsAssumption DEF HttpErrorProcess, TypeOK, RetreatUrl
  <2>3. CASE retry > 0 /\ retry' = retry - 1 /\ GoOn(<<current>> \o chain)
    <3>1. retry' \in 0 .. RetryTime
      BY <2>3, RetryTimeAssumption DEF TypeOK
    <3> QED
      BY <1>1, <1>11, <2>1, <2>2, <2>3, <3>1 DEF HttpErrorProcess, TypeOK
  <2>4. CASE Refuse("HttpConnError") /\ UNCHANGED retry
    BY <1>2, <1>3, <1>11, <2>1, <2>2, <2>4 DEF HttpErrorProcess, TypeOK
  <2> QED
    BY <1>11, <2>3, <2>4 DEF HttpErrorProcess
<1>12. CASE ProcImageResponse
  <2>1. /\ place = "http" /\ current = "DownloadImage" /\ <<"DownloadImage">> \o chain \in Seq(Modules)
        /\ chain \in Seq(Modules)
    BY <1>12, PendingFacts DEF ProcImageResponse, Pending, TypeOK
  <2>2. urlIndex \in 1 .. MaxUrls
    BY <2>1, MaxUrlsAssumption DEF Downloads, Downloading, TypeOK
  <2>3. UNCHANGED <<message, retry, current, urlIndex, plugin, waiting, output, trace>>
    BY <1>12 DEF ProcImageResponse
  <2>4. CASE Refuse("ProcTerminate") /\ UNCHANGED <<images, answered>>
    BY <1>2, <1>3, <1>12, <2>1, <2>4 DEF ProcImageResponse, TypeOK
  <2>5. CASE /\ answered' = Append(answered, urlIndex)
             /\ images' \in {images, Append(images, urlIndex)}
             /\ GoOn(<<"DownloadImage">> \o chain) /\ UNCHANGED done
    <3>1. answered' \in Seq(1 .. MaxUrls) /\ images' \in Seq(1 .. MaxUrls)
      <4>1. \A s \in Seq(1 .. MaxUrls) : Append(s, urlIndex) \in Seq(1 .. MaxUrls)
        BY <2>2, AppendProperties
      <4> QED
        BY <2>5, <4>1 DEF TypeOK
    <3>2. /\ chain' \in Seq(Modules) /\ place' \in {"queue", "final"} /\ err' \in ErrCodes
          /\ err' # "none" <=> place' = "final"
          /\ pushes' \in Nat /\ refused' \in BOOLEAN
      BY <1>1, <2>1, <2>5 DEF TypeOK
    <3>3. done' \subseteq Modules
      BY <2>5, ModuleNames DEF Completed, TypeOK
    <3> QED
      BY <2>3, <3>1, <3>2, <3>3 DEF TypeOK
  <2>6. CASE /\ answered' = Append(answered, urlIndex)
             /\ images' \in {images, Append(images, urlIndex)}
             /\ GoOn(chain) /\ Completed("DownloadImage")
    <3>1. answered' \in Seq(1 .. MaxUrls) /\ images' \in Seq(1 .. MaxUrls)
      <4>1. \A s \in Seq(1 .. MaxUrls) : Append(s, urlIndex) \in Seq(1 .. MaxUrls)
        BY <2>2, AppendProperties
      <4> QED
        BY <2>6, <4>1 DEF TypeOK
    <3>2. /\ chain' \in Seq(Modules) /\ place' \in {"queue", "final"} /\ err' \in ErrCodes
          /\ err' # "none" <=> place' = "final"
          /\ pushes' \in Nat /\ refused' \in BOOLEAN
      BY <1>1, <2>1, <2>6 DEF TypeOK
    <3>3. done' \subseteq Modules
      BY <2>6, ModuleNames DEF Completed, TypeOK
    <3> QED
      BY <2>3, <3>1, <3>2, <3>3 DEF TypeOK
  <2> QED
    BY <1>12, <2>4, <2>5, <2>6 DEF ProcImageResponse
<1>13. ASSUME NEW m \in {"TraceSpace", "GenerateUrl"}, ProcResponse(m)
       PROVE  TypeOK'
  <2>1. place = "http" /\ chain \in Seq(Modules)
    BY <1>13 DEF ProcResponse, TypeOK
  <2>2. CASE Refuse("ProcTerminate")
    BY <1>2, <1>3, <1>13, <2>1, <2>2 DEF ProcResponse, TypeOK
  <2>3. CASE GoOn(chain) /\ Completed(m)
    BY <1>1, <1>13, <2>1, <2>3, ModuleNames DEF ProcResponse, TypeOK, Completed
  <2> QED
    BY <1>13, <2>2, <2>3 DEF ProcResponse
<1>14. CASE UNCHANGED vars
  BY <1>14 DEF vars, TypeOK
<1> QED
  BY <1>4, <1>5, <1>6, <1>7, <1>8, <1>9, <1>10, <1>11, <1>12, <1>13, <1>14
  DEF Next, Process, Callback, ProcTraceSpaceResponse, ProcGenerateUrlResponse

-----------------------------------------------------------------------------
(* What a step does to the chain.                                          *)

(* Pushes so far, and those that pictures and retries may still cause.     *)
Effort == pushes + (urls - Len(answered)) + retry

EffortIsInt == Len(answered) \in Nat /\ Effort \in Int

Shape ==
  /\ place # "final" /\ Pending # <<>> /\ UNCHANGED <<kind, urls, replay>> /\ done \subseteq done'
  /\ place' = "queue" => chain' # <<>>
  /\ \/ place' = "final" /\ pushes' = pushes
     \/ /\ place' # "final" /\ Pending' = Pending /\ Effort' <= Effort
     \/ /\ place' # "final" /\ Pending' = Tail(Pending) /\ Pending' # <<>>
        /\ Head(Pending) \in done' /\ Effort' <= Effort + 1
     \/ /\ place' # "final" /\ Pending' = Append(Tail(Pending), "OutputKafka")
        /\ Pending' # <<>> /\ kind \in Repairable
        /\ Head(Pending) = "GetPlugin" /\ "GetPlugin" \in done' /\ Effort' <= Effort + 1

LEMMA EffortType == TypeOK => EffortIsInt
  BY RetryTimeAssumption, MaxUrlsAssumption DEF TypeOK, EffortIsInt, Effort

LEMMA GoOnTo ==
  ASSUME TypeOK, NEW rest \in Seq(Modules), GoOn(rest), UNCHANGED urls
  PROVE  /\ place' = "queue" => chain' # <<>> /\ Pending' = rest /\ pushes' = pushes + 1
         /\ place' = "final" => pushes' = pushes
         /\ place' \in {"queue", "final"}
  BY DEF GoOn, PushMsg, Final, Pending

LEMMA SendTo ==
  ASSUME TypeOK, place = "queue", chain # <<>>, Send(Head(chain))
  PROVE  place' = "http" /\ Pending' = chain /\ pushes' = pushes /\ done' = done
<1>1. Pending' = <<Head(chain)>> \o Tail(chain)
  BY DEF Send, Pending
<1>2. chain \in Seq(Modules)
  BY DEF TypeOK
<1> QED
  BY <1>1, <1>2, TailFacts DEF Send

LEMMA NextShape ==
  ASSUME TypeOK, Next
  PROVE  Shape
<1> USE DEF message, output
<1>1. EffortIsInt
  BY EffortType
<1>2. ASSUME NEW rest \in Seq(Modules), GoOn(rest), UNCHANGED <<kind, urls, replay, answered, retry>>,
             place # "final", Pending # <<>>, rest = Tail(Pending), Completed(Head(Pending))
      PROVE  Shape
  <2>1. /\ place' = "queue" => chain' # <<>> /\ Pending' = rest /\ pushes' = pushes + 1
        /\ place' = "final" => pushes' = pushes
        /\ place' \in {"queue", "final"}
    BY <1>2, GoOnTo
  <2>2. place' = "queue" => Pending' # <<>>
    BY <1>2, <2>1 DEF GoOn
  <2>3. place' = "queue" => Effort' <= Effort + 1
    BY <1>1, <1>2, <2>1 DEF Effort, EffortIsInt, TypeOK
  <2>4. done \subseteq done' /\ Head(Pending) \in done'
    BY <1>2 DEF Completed
  <2> QED
    BY <1>2, <2>1, <2>2, <2>3, <2>4 DEF Shape
<1>3. ASSUME NEW e, Fail(e) \/ Refuse(e), UNCHANGED <<kind, urls, replay>>,
             place # "final", Pending # <<>>
      PROVE  Shape
  BY <1>3 DEF Fail, Refuse, Final, Shape
<1>4. ASSUME place = "queue", chain # <<>>, Send(Head(chain)),
             UNCHANGED <<kind, urls, replay, answered, retry>>
      PROVE  Shape
  BY <1>1, <1>4, SendTo, PendingFacts DEF Shape, Effort, EffortIsInt, TypeOK
<1>5. ASSUME place = "queue", chain # <<>>
      PROVE  /\ Pending = chain /\ Pending # <<>> /\ place # "final"
             /\ Tail(chain) \in Seq(Modules) /\ Tail(chain) = Tail(Pending)
  BY <1>5, PendingFacts, TailFacts DEF TypeOK
<1>6. ASSUME place = "http"
      PROVE  /\ Pending # <<>> /\ place # "final" /\ Head(Pending) = current /\ chain = Tail(Pending)
             /\ chain \in Seq(Modules) /\ <<current>> \o chain = Pending /\ Pending \in Seq(Modules)
  BY <1>6, PendingFacts DEF TypeOK, Pending
<1>7. CASE GetPlugin
  <2>1. /\ place = "queue" /\ chain # <<>> /\ Head(chain) = "GetPlugin"
        /\ UNCHANGED <<kind, urls, replay, answered, retry>>
    BY <1>7 DEF GetPlugin, NextProcessor
  <2>2. CASE Refuse("MongoFailed")
    BY <1>3, <1>5, <2>1, <2>2
  <2>3. CASE Completed("GetPlugin") /\ GoOn(Tail(chain))
    BY <1>2, <1>5, <2>1, <2>3
  <2>4. CASE /\ Completed("GetPlugin") /\ GoOn(Append(Tail(chain), "OutputKafka"))
             /\ kind \in Repairable
    <3>1. /\ Append(Tail(chain), "OutputKafka") \in Seq(Modules)
          /\ Append(Tail(chain), "OutputKafka") # <<>>
      BY <1>5, <2>1, AppendFacts, ModuleNames
    <3>2. place' = "queue" /\ Pending' = Append(Tail(Pending), "OutputKafka") /\ pushes' = pushes + 1
      BY <1>5, <2>1, <2>4, <3>1, GoOnTo DEF GoOn, PushMsg
    <3>3. Effort' <= Effort + 1
      BY <1>1, <2>1, <3>2 DEF Effort, EffortIsInt, TypeOK
    <3>4. chain' # <<>>
      BY <2>4, <3>1 DEF GoOn
    <3> QED
      BY <1>5, <2>1, <2>4, <3>1, <3>2, <3>3, <3>4 DEF Shape, Completed
  <2> QED
    BY <1>7, <2>2, <2>3, <2>4 DEF GetPlugin, Repaired, Repairable
<1>8. CASE DownloadRequest
  <2>1. /\ place = "queue" /\ chain # <<>> /\ Head(chain) = "DownloadImage"
        /\ UNCHANGED <<kind, urls, replay, answered, retry>>
        /\ Send("DownloadImage") \/ Refuse("ProcTerminate") \/ Fail("ProcTerminate")
    BY <1>8 DEF DownloadRequest, NextProcessor
  <2> QED
    BY <1>3, <1>4, <1>5, <2>1
<1>9. CASE TraceSpaceRequest
  <2>1. /\ place = "queue" /\ chain # <<>> /\ Head(chain) = "TraceSpace"
        /\ UNCHANGED <<kind, urls, replay, answered, retry>>
        /\ Send("TraceSpace") \/ Fail("DownloadError")
    BY <1>9 DEF TraceSpaceRequest, NextProcessor
  <2> QED
    BY <1>3, <1>4, <1>5, <2>1
<1>10. CASE GenerateUrlRequest
  <2>1. /\ place = "queue" /\ chain # <<>> /\ Head(chain) = "GenerateUrl"
        /\ UNCHANGED <<kind, urls, replay, answered, retry>>
        /\ Send("GenerateUrl") \/ Refuse("ProcTerminate")
    BY <1>10 DEF GenerateUrlRequest, NextProcessor
  <2> QED
    BY <1>3, <1>4, <1>5, <2>1
<1>11. CASE PicWait
  <2>1. /\ place = "queue" /\ chain # <<>> /\ Head(chain) = "PicWait"
        /\ UNCHANGED <<kind, urls, replay, answered, retry>>
    BY <1>11 DEF PicWait, NextProcessor
  <2>2. CASE Final("Success") /\ UNCHANGED done
    BY <1>5, <2>1, <2>2 DEF Final, Shape
  <2>3. CASE GoOn(Tail(chain)) /\ Completed("PicWait")
    BY <1>2, <1>5, <2>1, <2>3
  <2> QED
    BY <1>11, <2>2, <2>3 DEF PicWait
<1>12. CASE BusinessSave
  <2>1. /\ place = "queue" /\ chain # <<>> /\ Head(chain) = "BusinessSave"
        /\ UNCHANGED <<kind, urls, replay, answered, retry>>
        /\ Refuse("MongoFailed") \/ (GoOn(Tail(chain)) /\ Completed("BusinessSave"))
    BY <1>12 DEF BusinessSave, NextProcessor
  <2> QED
    BY <1>2, <1>3, <1>5, <2>1
<1>13. CASE OutputKafka
  <2>1. /\ place = "queue" /\ chain # <<>> /\ Head(chain) = "OutputKafka"
        /\ UNCHANGED <<kind, urls, replay, answered, retry>>
        /\ Refuse("KafkaError") \/ (GoOn(Tail(chain)) /\ Completed("OutputKafka"))
    BY <1>13 DEF OutputKafka, NextProcessor
  <2> QED
    BY <1>2, <1>3, <1>5, <2>1
<1>14. CASE HttpErrorProcess
  <2>1. place = "http" /\ UNCHANGED <<kind, urls, replay, answered, done>>
    BY <1>14 DEF HttpErrorProcess
  <2>2. CASE retry > 0 /\ retry' = retry - 1 /\ GoOn(<<current>> \o chain)
    <3>1. place' = "queue" /\ chain' # <<>> /\ Pending' = Pending /\ pushes' = pushes + 1
      BY <1>6, <2>1, <2>2, GoOnTo DEF GoOn, PushMsg
    <3>2. Effort' <= Effort
      BY <1>1, <2>1, <2>2, <3>1 DEF Effort, EffortIsInt, TypeOK
    <3> QED
      BY <1>6, <2>1, <3>1, <3>2 DEF Shape
  <2>3. CASE Refuse("HttpConnError")
    BY <1>3, <1>6, <2>1, <2>3
  <2> QED
    BY <1>14, <2>2, <2>3 DEF HttpErrorProcess
<1>15. CASE ProcImageResponse
  <2>1. /\ place = "http" /\ current = "DownloadImage" /\ UNCHANGED <<kind, urls, replay, retry>>
        /\ Head(Pending) = "DownloadImage"
    BY <1>6, <1>15 DEF ProcImageResponse
  <2>2. CASE Refuse("ProcTerminate")
    BY <1>3, <1>6, <2>1, <2>2
  <2>3. CASE answered' = Append(answered, urlIndex)
    <3>1. Len(answered') = Len(answered) + 1
      BY <1>1, <2>3 DEF EffortIsInt, TypeOK
    <3>2. CASE GoOn(<<"DownloadImage">> \o chain) /\ UNCHANGED done
      <4>1. place' = "queue" /\ chain' # <<>> /\ Pending' = Pending /\ pushes' = pushes + 1
        BY <1>6, <2>1, <3>2, GoOnTo DEF GoOn, PushMsg
      <4>2. Effort' <= Effort
        BY <1>1, <2>1, <3>1, <4>1 DEF Effort, EffortIsInt, TypeOK
      <4> QED
        BY <1>6, <2>1, <3>2, <4>1, <4>2 DEF Shape
    <3>3. CASE GoOn(chain) /\ Completed("DownloadImage")
      <4>1. /\ place' = "queue" => chain' # <<>> /\ Pending' = Tail(Pending) /\ pushes' = pushes + 1
            /\ place' = "final" => pushes' = pushes
            /\ place' \in {"queue", "final"}
        BY <1>6, <2>1, <3>3, GoOnTo
      <4>2. place' = "queue" => Pending' # <<>>
        BY <1>6, <2>1, <3>3, <4>1 DEF GoOn
      <4>3. Effort' <= Effort + 1
        BY <1>1, <2>1, <3>1, <4>1 DEF Effort, EffortIsInt, TypeOK
      <4> QED
        BY <1>6, <2>1, <3>3, <4>1, <4>2, <4>3 DEF Shape, Completed
    <3>4. CASE Refuse("ProcTerminate")
      BY <1>3, <1>6, <2>1, <3>4
    <3> QED
      BY <1>15, <3>2, <3>3, <3>4 DEF ProcImageResponse
  <2> QED
    BY <1>15, <2>2, <2>3 DEF ProcImageResponse
<1>16. ASSUME NEW m \in {"TraceSpace", "GenerateUrl"}, ProcResponse(m)
       PROVE  Shape
  <2>1. /\ place = "http" /\ current = m /\ UNCHANGED <<kind, urls, replay, answered, retry>>
        /\ Refuse("ProcTerminate") \/ (GoOn(chain) /\ Completed(m))
    BY <1>16 DEF ProcResponse
  <2> QED
    BY <1>2, <1>3, <1>6, <2>1
<1> QED
  BY <1>7, <1>8, <1>9, <1>10, <1>11, <1>12, <1>13, <1>14, <1>15, <1>16
  DEF Next, Process, Callback, ProcTraceSpaceResponse, ProcGenerateUrlResponse

-----------------------------------------------------------------------------
(* Order, pushes and what remains.                                         *)

LEMMA OrderIs ==
  /\ ChainInOrder <=> (place # "final" => InOrder(Pending))
  /\ ChainInOrder' <=> (place' # "final" => InOrder(Pending)')
  BY DEF ChainInOrder, InOrder, Repairable, RepairedRest

LEMMA HeadNow ==
  ASSUME TypeOK, ChainInOrder, place # "final", Pending # <<>>
  PROVE  HeadTells(kind, Pending)
  BY OrderIs, PendingFacts, InOrderTail DEF TypeOK

LEMMA OrderStep ==
  ASSUME TypeOK, ChainInOrder, Next
  PROVE  ChainInOrder'
<1>1. Shape /\ InOrder(Pending) /\ Pending \in Seq(Modules) /\ kind \in Kinds
  BY NextShape, OrderIs, PendingFacts DEF Shape, TypeOK
<1>2. \A p : InOrder(p)' <=> InOrder(p)
  BY <1>1 DEF InOrder, Shape
<1>3. CASE place' = "final"
  BY <1>3, OrderIs
<1>4. CASE Pending' = Pending
  BY <1>1, <1>2, <1>4, OrderIs
<1>5. CASE Pending' = Tail(Pending)
  BY <1>1, <1>2, <1>5, OrderIs, InOrderTail DEF Shape
<1>6. CASE /\ Pending' = Append(Tail(Pending), "OutputKafka") /\ kind \in Repairable
           /\ Head(Pending) = "GetPlugin"
  BY <1>1, <1>2, <1>6, OrderIs, InOrderRepaired DEF Shape
<1> QED
  BY <1>1, <1>3, <1>4, <1>5, <1>6 DEF Shape

(* repairProcChain adds a module once, with the GetPlugin module gone.     *)
Room == IF Among("GetPlugin", Pending) THEN 0 ELSE 1

LEMMA EffortStep ==
  ASSUME TypeOK, ChainInOrder, Next, place' # "final"
  PROVE  /\ Len(Pending) \in Nat \ {0} /\ Len(Pending') \in Nat \ {0}
         /\ Effort \in Int /\ Room \in {0, 1} /\ Room' \in {0, 1}
         /\ \E e \in Int : /\ Effort' <= Effort + e
                           /\ Len(Pending') + e - Room' <= Len(Pending) - Room
<1>1. Shape /\ Pending \in Seq(Modules) /\ Pending # <<>> /\ HeadTells(kind, Pending)
  BY NextShape, PendingFacts, HeadNow DEF Shape
<1>2. /\ Len(Pending) \in Nat \ {0} /\ Len(Tail(Pending)) = Len(Pending) - 1
      /\ Tail(Pending) \in Seq(Modules) /\ Effort \in Int /\ Room \in {0, 1} /\ Room' \in {0, 1}
      /\ Among("GetPlugin", Tail(Pending)) => Among("GetPlugin", Pending)
  BY <1>1, TailFacts, EffortType DEF EffortIsInt, Room
<1>3. Pending' \in Seq(Modules) /\ Pending' # <<>>
  BY <1>1, <1>2, AppendFacts, ModuleNames DEF Shape
<1>4. Len(Pending') \in Nat \ {0}
  BY <1>3, TailFacts
<1>5. CASE Pending' = Pending /\ Effort' <= Effort
  <2>1. Room' = Room
    BY <1>5 DEF Room
  <2>2. Effort' <= Effort + 0 /\ Len(Pending') + 0 - Room' <= Len(Pending) - Room
    BY <1>2, <1>5, <2>1
  <2> QED
    BY <1>2, <1>4, <2>2
<1>6. CASE Pending' = Tail(Pending) /\ Effort' <= Effort + 1
  <2>1. Room \in Int /\ Room' \in Int /\ Room <= Room'
    BY <1>2, <1>6 DEF Room
  <2>2. Len(Pending') = Len(Pending) - 1 /\ Len(Pending) \in Int
    BY <1>2, <1>6
  <2>3. Len(Pending') + 1 - Room' <= Len(Pending) - Room
    BY <2>1, <2>2
  <2> QED
    BY <1>2, <1>4, <1>6, <2>3
<1>7. CASE /\ Pending' = Append(Tail(Pending), "OutputKafka") /\ Effort' <= Effort + 1
           /\ Head(Pending) = "GetPlugin"
  <2>1. Room = 0
    BY <1>1, <1>7, TailFacts DEF Room
  <2>2. /\ Len(Pending') = Len(Tail(Pending)) + 1 /\ Pending'[Len(Tail(Pending)) + 1] = "OutputKafka"
        /\ \A i \in 1 .. Len(Tail(Pending)) : Pending'[i] = Tail(Pending)[i]
    BY <1>2, <1>7, AppendFacts, ModuleNames
  <2>3. ASSUME NEW i \in 1 .. Len(Pending'), Pending'[i] = "GetPlugin"
        PROVE  FALSE
    <3>1. Len(Tail(Pending)) \in Nat
      BY <1>2
    <3>2. i \in 1 .. Len(Tail(Pending)) \/ i = Len(Tail(Pending)) + 1
      BY <2>2, <3>1
    <3>3. ~Among("GetPlugin", Tail(Pending))
      BY <1>1, <1>7 DEF HeadTells
    <3> QED
      BY <2>2, <2>3, <3>2, <3>3 DEF Among
  <2>4. Room' = 1
    BY <2>3 DEF Room, Among
  <2>5. Len(Pending') = Len(Pending) /\ Len(Pending) \in Int
    BY <1>2, <2>2
  <2>6. Len(Pending') + 1 - Room' <= Len(Pending) - Room
    BY <2>1, <2>4, <2>5
  <2> QED
    BY <1>2, <1>4, <1>7, <2>6
<1> QED
  BY <1>1, <1>5, <1>6, <1>7 DEF Shape

LEMMA BoundType ==
  ASSUME TypeOK
  PROVE  PushBound \in Int
<1>1. Len(ProcessChain(kind)) \in Nat
  BY ChainFacts DEF TypeOK
<1> QED
  BY <1>1, MaxUrlsAssumption, RetryTimeAssumption DEF PushBound, TypeOK

LEMMA PushesStep ==
  ASSUME TypeOK, TypeOK', ChainInOrder, Downloads', PushesLeft, PushesBounded, Next
  PROVE  PushesLeft' /\ PushesBounded'
<1>1. Shape /\ PushBound \in Int
  BY NextShape, BoundType
<1>2. PushBound' = PushBound
  BY <1>1 DEF PushBound, Shape
<1>3. CASE place' = "final"
  BY <1>1, <1>2, <1>3 DEF PushesLeft, PushesBounded, Shape
<1>4. CASE place' # "final"
  <2>1. PICK e \in Int : /\ Effort' <= Effort + e
                         /\ Len(Pending') + e - Room' <= Len(Pending) - Room
    BY <1>4, EffortStep
  <2>2. /\ Len(Pending) \in Nat \ {0} /\ Len(Pending') \in Nat \ {0}
        /\ Effort \in Int /\ Room \in {0, 1} /\ Room' \in {0, 1}
    BY <1>4, EffortStep
  <2>3. /\ pushes \in Int /\ urls \in Int /\ retry \in Int /\ Len(answered) \in Int
        /\ pushes' \in Int /\ urls' \in Int /\ retry' \in Int /\ Len(answered') \in Int
        /\ retry' >= 0
    BY MaxUrlsAssumption, RetryTimeAssumption DEF TypeOK
  <2>4. Len(Pending) + Effort <= PushBound + Room
    <3>1. pushes + Len(Pending) + (urls - Len(answered)) + retry <= PushBound + Room
      BY <1>1 DEF PushesLeft, Room, Shape
    <3> QED
      BY <1>1, <2>2, <2>3, <3>1 DEF Effort
  <2>5. Effort' \in Int
    BY <2>3 DEF Effort
  <2>6. Len(Pending') + Effort' <= PushBound + Room'
    BY <1>1, <2>1, <2>2, <2>4, <2>5
  <2>7. PushesLeft'
    <3>1. \A a, b, c, d, l \in Int : a + b + (c - d) + l = b + (a + (c - d) + l)
      OBVIOUS
    <3>2. pushes' + Len(Pending') + (urls' - Len(answered')) + retry' = Len(Pending') + Effort'
      BY <2>2, <2>3, <3>1 DEF Effort
    <3>3. pushes' + Len(Pending') + (urls' - Len(answered')) + retry' <= PushBound + Room'
      BY <2>6, <3>2
    <3> QED
      BY <1>2, <3>3 DEF PushesLeft, Room
  <2>8. Len(answered') <= urls'
    <3>1. Len(answered') = urlIndex' \/ Len(answered') = urlIndex' - 1
      <4>1. Len(answered') = urlIndex' - (IF Downloading' THEN 1 ELSE 0)
        BY <1>4 DEF Downloads
      <4>2. urlIndex' \in Int
        BY MaxUrlsAssumption DEF TypeOK
      <4>3. Len(answered') = urlIndex' - 0 \/ Len(answered') = urlIndex' - 1
        BY <4>1, Zenon
      <4>4. \A a \in Int : a - 0 = a
        OBVIOUS
      <4> QED
        BY <4>2, <4>3, <4>4
    <3>2. urlIndex' \in Int /\ urlIndex' <= urls'
      BY MaxUrlsAssumption DEF TypeOK
    <3>3. \A a, b, c \in Int : (a = b \/ a = b - 1) /\ b <= c => a <= c
      OBVIOUS
    <3> QED
      BY <2>3, <3>1, <3>2, <3>3
  <2>9. pushes' <= Effort'
    <3>1. \A a, b, c, d \in Int : c <= b /\ d >= 0 => a <= a + (b - c) + d
      OBVIOUS
    <3>2. pushes' <= pushes' + (urls' - Len(answered')) + retry'
      BY <2>3, <2>8, <3>1
    <3> QED
      BY <3>2 DEF Effort
  <2>10. pushes' <= PushBound
    BY <1>1, <2>2, <2>3, <2>5, <2>6, <2>9
  <2> QED
    BY <1>2, <2>7, <2>10 DEF PushesBounded
<1> QED
  BY <1>3, <1>4

-----------------------------------------------------------------------------
(* Pictures.                                                               *)

(* What a step does to the pictures: at most one is asked for, given back  *)
(* or answered.                                                            *)
Passing ==
  /\ UNCHANGED <<answered, images>>
  /\ \/ place' = "final"
     \/ UNCHANGED urlIndex /\ Head(Pending) # "DownloadImage" /\ ~Downloading'
     \/ urlIndex' = urlIndex + 1 /\ place = "queue" /\ Downloading' /\ Pending' = Pending
     \/ urlIndex' = RetreatUrl(urlIndex) /\ Downloading /\ ~Downloading' /\ Pending' = Pending
  /\ "TraceSpace" \in done' => "TraceSpace" \in done \/ Head(Pending) = "TraceSpace"
  /\ trace' = trace \/ (Head(Pending) = "TraceSpace" /\ trace' = ImagesToTrace)

Answering ==
  /\ Downloading /\ UNCHANGED <<urlIndex, trace>>
  /\ answered' = Append(answered, urlIndex)
  /\ images' = images \/ images' = Append(images, urlIndex)
  /\ "TraceSpace" \in done' => "TraceSpace" \in done
  /\ place' # "http"
  /\ place' # "final" => Pending' = IF urlIndex < urls THEN Pending ELSE Tail(Pending)

LEMMA PictureShape ==
  ASSUME TypeOK, Next
  PROVE  Passing \/ Answering
<1> USE DEF message, output
<1>1. ASSUME place = "queue", chain # <<>>
      PROVE  Head(Pending) = Head(chain)
  BY <1>1, PendingFacts
<1>2. ASSUME place = "http"
      PROVE  /\ Head(Pending) = current /\ chain = Tail(Pending) /\ chain \in Seq(Modules)
             /\ <<current>> \o chain = Pending /\ Pending \in Seq(Modules)
  BY <1>2, PendingFacts DEF TypeOK, Pending
<1>3. ASSUME NEW rest, GoOn(rest)
      PROVE  place' \in {"queue", "final"} /\ ~Downloading'
  BY <1>3 DEF GoOn, PushMsg, Final, Downloading
<1>4. ASSUME NEW e, Fail(e) \/ Refuse(e)
      PROVE  place' = "final" /\ done' = done
  BY <1>4 DEF Fail, Refuse, Final
<1>5. CASE GetPlugin
  <2>1. /\ Head(Pending) = "GetPlugin" /\ UNCHANGED <<answered, images, urlIndex, trace>>
    BY <1>1, <1>5 DEF GetPlugin, NextProcessor
  <2>2. CASE Refuse("MongoFailed")
    BY <1>4, <2>1, <2>2 DEF Passing
  <2>3. CASE Completed("GetPlugin") /\ (GoOn(Tail(chain)) \/ GoOn(Repaired(Tail(chain))))
    BY <1>3, <2>1, <2>3 DEF Passing, Completed
  <2> QED
    BY <1>5, <2>2, <2>3 DEF GetPlugin
<1>6. CASE DownloadRequest
  <2>1. /\ place = "queue" /\ chain # <<>> /\ Head(chain) = "DownloadImage"
        /\ UNCHANGED <<answered, images, trace>>
    BY <1>6 DEF DownloadRequest, NextProcessor
  <2>2. CASE Refuse("ProcTerminate") \/ Fail("ProcTerminate")
    BY <1>4, <2>1, <2>2 DEF Passing
  <2>3. CASE Send("DownloadImage") /\ urlIndex' = urlIndex + 1
    <3>1. place' = "http" /\ Pending' = Pending /\ done' = done
      BY <2>1, <2>3, SendTo, PendingFacts
    <3>2. Downloading'
      BY <2>3, <3>1 DEF Downloading, Send
    <3> QED
      BY <2>1, <2>3, <3>1, <3>2 DEF Passing
  <2> QED
    BY <1>6, <2>2, <2>3 DEF DownloadRequest
<1>7. CASE TraceSpaceRequest
  <2>1. /\ place = "queue" /\ Head(Pending) = "TraceSpace" /\ UNCHANGED <<answered, images, urlIndex>>
    BY <1>1, <1>7 DEF TraceSpaceRequest, NextProcessor
  <2>2. CASE Fail("DownloadError") /\ UNCHANGED trace
    BY <1>4, <2>1, <2>2 DEF Passing
  <2>3. CASE Send("TraceSpace") /\ trace' = ImagesToTrace
    BY <2>1, <2>3 DEF Passing, Send, Downloading
  <2> QED
    BY <1>7, <2>2, <2>3 DEF TraceSpaceRequest
<1>8. CASE GenerateUrlRequest
  <2>1. /\ Head(Pending) = "GenerateUrl" /\ UNCHANGED <<answered, images, urlIndex, trace>>
    BY <1>1, <1>8 DEF GenerateUrlRequest, NextProcessor
  <2>2. CASE Refuse("ProcTerminate")
    BY <1>4, <2>1, <2>2 DEF Passing
  <2>3. CASE Send("GenerateUrl")
    BY <2>1, <2>3 DEF Passing, Send, Downloading
  <2> QED
    BY <1>8, <2>2, <2>3 DEF GenerateUrlRequest
<1>9. CASE PicWait
  <2>1. Head(Pending) = "PicWait" /\ UNCHANGED <<answered, images, urlIndex, trace>>
    BY <1>1, <1>9 DEF PicWait, NextProcessor
  <2>2. CASE Final("Success") /\ UNCHANGED done
    BY <2>1, <2>2 DEF Passing, Final
  <2>3. CASE GoOn(Tail(chain)) /\ Completed("PicWait")
    BY <1>3, <2>1, <2>3 DEF Passing, Completed
  <2> QED
    BY <1>9, <2>2, <2>3 DEF PicWait
<1>10. CASE BusinessSave
  <2>1. Head(Pending) = "BusinessSave" /\ UNCHANGED <<answered, images, urlIndex, trace>>
    BY <1>1, <1>10 DEF BusinessSave, NextProcessor
  <2>2. CASE Refuse("MongoFailed")
    BY <1>4, <2>1, <2>2 DEF Passing
  <2>3. CASE GoOn(Tail(chain)) /\ Completed("BusinessSave")
    BY <1>3, <2>1, <2>3 DEF Passing, Completed
  <2> QED
    BY <1>10, <2>2, <2>3 DEF BusinessSave
<1>11. CASE OutputKafka
  <2>1. Head(Pending) = "OutputKafka" /\ UNCHANGED <<answered, images, urlIndex, trace>>
    BY <1>1, <1>11 DEF OutputKafka, NextProcessor
  <2>2. CASE Refuse("KafkaError")
    BY <1>4, <2>1, <2>2 DEF Passing
  <2>3. CASE GoOn(Tail(chain)) /\ Completed("OutputKafka")
    BY <1>3, <2>1, <2>3 DEF Passing, Completed
  <2> QED
    BY <1>11, <2>2, <2>3 DEF OutputKafka
<1>12. CASE HttpErrorProcess
  <2>1. /\ place = "http" /\ UNCHANGED <<answered, images, trace, done>>
        /\ urlIndex' = IF current = "DownloadImage" THEN RetreatUrl(urlIndex) ELSE urlIndex
    BY <1>12 DEF HttpErrorProcess
  <2>2. CASE Refuse("HttpConnError")
    BY <1>4, <2>1, <2>2 DEF Passing
  <2>3. CASE GoOn(<<current>> \o chain) /\ UNCHANGED urls
    <3>1. place' = "queue" /\ Pending' = Pending
      BY <1>2, <2>1, <2>3, PendingFacts, GoOnTo DEF GoOn, PushMsg
    <3>2. CASE current = "DownloadImage"
      BY <1>3, <2>1, <2>3, <3>1, <3>2 DEF Passing, Downloading
    <3>3. CASE current # "DownloadImage"
      BY <1>2, <1>3, <2>1, <2>3, <3>3 DEF Passing
    <3> QED
      BY <3>2, <3>3
  <2> QED
    BY <1>12, <2>2, <2>3 DEF HttpErrorProcess
<1>13. CASE ProcImageResponse
  <2>1. Downloading /\ UNCHANGED <<urls, urlIndex, trace>>
    BY <1>13 DEF ProcImageResponse, Downloading
  <2>2. CASE Refuse("ProcTerminate") /\ UNCHANGED <<images, answered>>
    BY <1>4, <2>1, <2>2 DEF Passing
  <2>3. CASE /\ answered' = Append(answered, urlIndex)
             /\ images' \in {images, Append(images, urlIndex)}
             /\ urlIndex < urls /\ GoOn(<<"DownloadImage">> \o chain) /\ UNCHANGED done
    <3>1. Pending # <<>> /\ <<"DownloadImage">> \o chain = Pending /\ Pending \in Seq(Modules)
      BY <1>2, <2>1, PendingFacts DEF Downloading
    <3>2. place' = "queue" /\ Pending' = Pending
      BY <2>1, <2>3, <3>1, GoOnTo DEF GoOn, PushMsg
    <3> QED
      BY <2>1, <2>3, <3>2 DEF Answering
  <2>4. CASE /\ answered' = Append(answered, urlIndex)
             /\ images' \in {images, Append(images, urlIndex)}
             /\ ~(urlIndex < urls) /\ GoOn(chain) /\ Completed("DownloadImage")
    <3>1. chain \in Seq(Modules) /\ chain = Tail(Pending)
      BY <1>2, <2>1 DEF Downloading
    <3>2. place' \in {"queue", "final"} /\ (place' = "queue" => Pending' = Tail(Pending))
      BY <2>1, <2>4, <3>1, GoOnTo
    <3> QED
      BY <2>1, <2>4, <3>2 DEF Answering, Completed
  <2> QED
    BY <1>13, <2>2, <2>3, <2>4 DEF ProcImageResponse
<1>14. ASSUME NEW m \in {"TraceSpace", "GenerateUrl"}, ProcResponse(m)
       PROVE  Passing
  <2>1. Head(Pending) = m /\ UNCHANGED <<answered, images, urlIndex, trace>>
    BY <1>2, <1>14 DEF ProcResponse
  <2>2. CASE Refuse("ProcTerminate")
    BY <1>4, <2>1, <2>2 DEF Passing
  <2>3. CASE GoOn(chain) /\ Completed(m)
    BY <1>3, <2>1, <2>3 DEF Passing, Completed
  <2> QED
    BY <1>14, <2>2, <2>3 DEF ProcResponse
<1> QED
  BY <1>5, <1>6, <1>7, <1>8, <1>9, <1>10, <1>11, <1>12, <1>13, <1>14
  DEF Next, Process, Callback, ProcTraceSpaceResponse, ProcGenerateUrlResponse

(* Numbers, as the backends want them.                                     *)
LEMMA CountFacts ==
  ASSUME TypeOK
  PROVE  /\ Len(answered) \in Nat /\ Len(images) \in Nat /\ urlIndex \in Nat /\ urls \in Nat
         /\ urlIndex <= urls
         /\ \A i \in 1 .. Len(answered) : answered[i] \in 1 .. MaxUrls
         /\ \A i \in 1 .. Len(images) : images[i] \in 1 .. MaxUrls
  BY MaxUrlsAssumption DEF TypeOK

LEMMA AnsweredNow ==
  ASSUME TypeOK, Downloads, place # "final"
  PROVE  /\ Downloading => Len(answered) + 1 = urlIndex
         /\ ~Downloading => Len(answered) = urlIndex
<1>1. Len(answered) = urlIndex - (IF Downloading THEN 1 ELSE 0)
  BY DEF Downloads
<1>2. urlIndex \in Int /\ Len(answered) \in Int
  BY CountFacts
<1>3. CASE Downloading
  <2>1. Len(answered) = urlIndex - 1
    BY <1>1, <1>3, Zenon
  <2> QED
    BY <1>2, <1>3, <2>1
<1>4. CASE ~Downloading
  <2>1. Len(answered) = urlIndex - 0
    BY <1>1, <1>4, Zenon
  <2> QED
    BY <1>2, <1>4, <2>1
<1> QED
  BY <1>3, <1>4

LEMMA DownloadHead ==
  ASSUME TypeOK, Downloading
  PROVE  /\ place # "final" /\ Pending # <<>> /\ Pending \in Seq(Modules)
         /\ Head(Pending) = "DownloadImage" /\ Among("DownloadImage", Pending)
  BY PendingFacts, TailFacts DEF Downloading, TypeOK

(* The same, the other way round.                                          *)
LEMMA CountedAs ==
  ASSUME NEW n \in Int, NEW l \in Int,
         Downloading' => l = n - 1, ~Downloading' => l = n
  PROVE  l = n - (IF Downloading' THEN 1 ELSE 0)
<1>1. CASE Downloading'
  BY <1>1, Zenon
<1>2. CASE ~Downloading'
  <2>1. l = n - 0
    BY <1>2
  <2> QED
    BY <1>2, <2>1, Zenon
<1> QED
  BY <1>1, <1>2

LEMMA AmongStep ==
  ASSUME TypeOK, ChainInOrder, Next, place' # "final", Head(Pending) # "DownloadImage"
  PROVE  Among("DownloadImage", Pending') <=> Among("DownloadImage", Pending)
<1>1. Shape /\ Pending \in Seq(Modules) /\ Pending # <<>>
  BY NextShape, PendingFacts DEF Shape
<1>2. Among("DownloadImage", Pending) <=> Among("DownloadImage", Tail(Pending))
  BY <1>1, TailFacts
<1>3. Tail(Pending) \in Seq(Modules)
  BY <1>1, TailFacts
<1>4. CASE Pending' = Append(Tail(Pending), "OutputKafka")
  <2>1. /\ Len(Pending') = Len(Tail(Pending)) + 1 /\ Pending'[Len(Tail(Pending)) + 1] = "OutputKafka"
        /\ \A i \in 1 .. Len(Tail(Pending)) : Pending'[i] = Tail(Pending)[i]
    BY <1>3, <1>4, AppendFacts, ModuleNames
  <2>2. \A i \in 1 .. Len(Pending') : i \in 1 .. Len(Tail(Pending)) \/ i = Len(Tail(Pending)) + 1
    BY <1>3, <2>1
  <2>3. \A i \in 1 .. Len(Tail(Pending)) : i \in 1 .. Len(Pending')
    BY <1>3, <2>1
  <2> QED
    BY <1>2, <2>1, <2>2, <2>3 DEF Among
<1> QED
  BY <1>1, <1>2, <1>4 DEF Shape

LEMMA DownloadsStep ==
  ASSUME TypeOK, TypeOK', ChainInOrder, Downloads, Next
  PROVE  Downloads'
<1> SUFFICES ASSUME place' # "final"
             PROVE  /\ Len(answered') = urlIndex' - (IF Downloading' THEN 1 ELSE 0)
                    /\ kind \in Captures =>
                         IF Among("DownloadImage", Pending')
                         THEN Len(answered') < urls \/ urls = 0
                         ELSE Len(answered') = urls /\ urls > 0
  <2>1. kind' = kind /\ urls' = urls
    BY NextShape DEF Shape
  <2> QED
    BY <2>1 DEF Downloads
<1>1. Shape /\ place # "final" /\ Pending \in Seq(Modules) /\ Pending # <<>> /\ HeadTells(kind, Pending)
  BY NextShape, PendingFacts, HeadNow DEF Shape
<1>2. /\ Len(answered) \in Nat /\ urlIndex \in Nat /\ urls \in Nat /\ urlIndex <= urls
      /\ Len(answered') \in Nat /\ urlIndex' \in Nat
      /\ Downloading => Len(answered) + 1 = urlIndex
      /\ ~Downloading => Len(answered) = urlIndex
  <2>1. Len(answered') \in Nat /\ urlIndex' \in Nat
    BY MaxUrlsAssumption DEF TypeOK
  <2> QED
    BY <1>1, <2>1, CountFacts, AnsweredNow
<1>3. kind \in Captures =>
        IF Among("DownloadImage", Pending)
        THEN Len(answered) < urls \/ urls = 0
        ELSE Len(answered) = urls /\ urls > 0
  BY <1>1 DEF Downloads
<1>4. CASE Passing
  <2>1. answered' = answered
    BY <1>4 DEF Passing
  <2>2. CASE UNCHANGED urlIndex /\ Head(Pending) # "DownloadImage" /\ ~Downloading'
    <3>1. ~Downloading
      BY <2>2, DownloadHead
    <3>2. Len(answered') = urlIndex' - (IF Downloading' THEN 1 ELSE 0)
      BY <1>2, <2>1, <2>2, <3>1, CountedAs
    <3> QED
      BY <1>3, <2>1, <2>2, <3>2, AmongStep
  <2>3. CASE urlIndex' = urlIndex + 1 /\ place = "queue" /\ Downloading' /\ Pending' = Pending
    <3>1. ~Downloading
      BY <2>3 DEF Downloading
    <3>2. Len(answered') = urlIndex' - 1
      BY <1>2, <2>1, <2>3, <3>1
    <3>3. Len(answered') = urlIndex' - (IF Downloading' THEN 1 ELSE 0)
      BY <1>2, <2>3, <3>2, CountedAs
    <3> QED
      BY <1>3, <2>1, <2>3, <3>3
  <2>4. CASE urlIndex' = RetreatUrl(urlIndex) /\ Downloading /\ ~Downloading' /\ Pending' = Pending
    <3>1. Len(answered') = urlIndex'
      BY <1>2, <2>1, <2>4 DEF RetreatUrl
    <3>2. Len(answered') = urlIndex' - (IF Downloading' THEN 1 ELSE 0)
      BY <1>2, <2>4, <3>1, CountedAs
    <3> QED
      BY <1>3, <2>1, <2>4, <3>2
  <2> QED
    BY <1>4, <2>2, <2>3, <2>4 DEF Passing
<1>5. CASE Answering
  <2>1. /\ answered' = Append(answered, urlIndex) /\ urlIndex' = urlIndex
        /\ Downloading /\ ~Downloading'
    BY <1>5 DEF Answering, Downloading
  <2>2. Len(answered') = Len(answered) + 1
    BY <2>1 DEF TypeOK
  <2>3. Len(answered') = urlIndex /\ urlIndex > 0 /\ urls > 0
    BY <1>2, <2>1, <2>2
  <2>4. Len(answered') = urlIndex' - (IF Downloading' THEN 1 ELSE 0)
    BY <1>2, <2>1, <2>3, CountedAs
  <2>5. CASE urlIndex < urls
    <3>1. Pending' = Pending
      BY <1>5, <2>5 DEF Answering
    <3> QED
      BY <2>1, <2>3, <2>4, <2>5, <3>1, DownloadHead
  <2>6. CASE ~(urlIndex < urls)
    <3>1. Pending' = Tail(Pending) /\ ~Among("DownloadImage", Tail(Pending))
      BY <1>1, <1>5, <2>1, <2>6, DownloadHead DEF Answering, HeadTells
    <3>2. Len(answered') = urls
      BY <1>2, <2>3, <2>6
    <3> QED
      BY <2>3, <2>4, <3>1, <3>2
  <2> QED
    BY <2>5, <2>6
<1> QED
  BY <1>4, <1>5, PictureShape

(* When the chain is at TraceSpace, all pictures have been answered.       *)
LEMMA AllAnswered ==
  ASSUME TypeOK, ChainInOrder, Downloads, place # "final", Pending # <<>>, Head(Pending) = "TraceSpace"
  PROVE  kind \in Captures /\ Len(answered) = urls /\ urls > 0
<1>1. HeadTells(kind, Pending)
  BY HeadNow
<1>2. kind \in Captures /\ ~Among("DownloadImage", Pending)
  BY <1>1 DEF HeadTells
<1> QED
  BY <1>2 DEF Downloads

LEMMA FacesTraced ==
  ASSUME TypeOK, EveryPictureOnce, ImagesAnswered,
         NEW i \in 1 .. Len(ImagesToTrace),
         NEW face \in {ImagesToTrace[i].rect, ImagesToTrace[i].age} \ {0, ImagesToTrace[i].image}
  PROVE  \E j \in 1 .. Len(answered) :
            /\ answered[j] < ImagesToTrace[i].image
            /\ \A k \in 1 .. Len(images) : images[k] # answered[j]
<1>1. Len(images) \in Nat /\ Len(ImagesToTrace) = Len(images)
  BY CountFacts DEF ImagesToTrace
<1>2. /\ i \in 1 .. Len(images)
      /\ ImagesToTrace[i] = [image |-> images[i],
           rect |-> IF plugin.enable /\ ~plugin.deviceRect THEN 0 ELSE FaceByOrder(i),
           age |-> IF plugin.enable /\ ~plugin.deviceAttr THEN 0 ELSE FaceByOrder(i)]
  BY <1>1 DEF ImagesToTrace
<1>3. ImagesToTrace[i].image = images[i] /\ face \in {0, i}
  BY <1>2 DEF FaceByOrder
<1>4. images[i] # i
  BY <1>3
<1>5. PICK u \in 1 .. Len(answered) : u < images[i] /\ ~Among(u, images)
  BY <1>2, <1>4 DEF ImagesAnswered
<1>6. answered[u] = u
  BY DEF EveryPictureOnce
<1> QED
  BY <1>3, <1>5, <1>6 DEF Among

(* One more answer, with or without an image.                              *)
LEMMA AnswerStep ==
  ASSUME TypeOK, EveryPictureOnce, ImagesAnswered,
         urlIndex = Len(answered) + 1, urlIndex \in 1 .. MaxUrls,
         answered' = Append(answered, urlIndex),
         images' = images \/ images' = Append(images, urlIndex)
  PROVE  /\ \A i \in 1 .. Len(answered') : answered'[i] = i
         /\ \A i, j \in 1 .. Len(images') : i < j => images'[i] < images'[j]
         /\ ImagesAnswered'
<1> DEFINE n == Len(answered)
           m == Len(images)
<1>1. /\ n \in Nat /\ m \in Nat /\ urlIndex \in Nat
      /\ \A i \in 1 .. m : images[i] \in Nat /\ images[i] <= n
      /\ \A i \in 1 .. n : answered[i] = i
  BY CountFacts DEF ImagesAnswered, EveryPictureOnce
<1>2. /\ Len(answered') = n + 1 /\ answered'[n + 1] = urlIndex
      /\ \A i \in 1 .. n : answered'[i] = answered[i]
  BY AppendProperties DEF TypeOK
<1> HIDE DEF n, m
<1>3. \A i \in 1 .. n + 1 : i \in 1 .. n \/ i = n + 1
  BY <1>1
<1>4. \A i \in 1 .. Len(answered') : answered'[i] = i
  BY <1>1, <1>2, <1>3 DEF n
<1>5. urlIndex \in 1 .. Len(answered') /\ \A u \in 1 .. n : u \in 1 .. Len(answered') /\ u # urlIndex
  BY <1>1, <1>2 DEF n
<1>6. urlIndex = n + 1
  BY DEF n
<1>7. /\ \A i, j \in 1 .. m : i < j => images[i] < images[j]
      /\ m = n \/ \E u \in 1 .. n : ~Among(u, images)
      /\ \A i \in 1 .. m : images[i] = i \/ \E u \in 1 .. n : u < images[i] /\ ~Among(u, images)
  BY DEF EveryPictureOnce, ImagesAnswered, n, m
<1>8. ~Among(urlIndex, images)
  BY <1>1, <1>6 DEF Among, m
<1>9. CASE images' = images
  <2>1. \A i \in 1 .. m : images[i] <= Len(answered')
    BY <1>1, <1>2
  <2>2. \A i \in 1 .. m :
          images[i] = i \/ \E u \in 1 .. Len(answered') : u < images[i] /\ ~Among(u, images)
    BY <1>5, <1>7
  <2>3. \E u \in 1 .. Len(answered') : ~Among(u, images)
    BY <1>5, <1>8
  <2>4. \A u : Among(u, images)' <=> Among(u, images)
    BY <1>9 DEF Among
  <2>5. ImagesAnswered'
    BY <1>9, <2>1, <2>2, <2>3 DEF ImagesAnswered, m, Among
  <2> QED
    BY <1>4, <1>7, <1>9, <2>5 DEF m
<1>10. CASE images' = Append(images, urlIndex)
  <2>1. /\ Len(images') = m + 1 /\ images'[m + 1] = urlIndex
        /\ \A i \in 1 .. m : images'[i] = images[i]
    BY <1>10, AppendProperties DEF TypeOK, m
  <2>2. \A i \in 1 .. m + 1 : i \in 1 .. m \/ i = m + 1
    BY <1>1
  <2>3. \A i, j \in 1 .. Len(images') : i < j => images'[i] < images'[j]
    <3> SUFFICES ASSUME NEW i \in 1 .. m + 1, NEW j \in 1 .. m + 1, i < j
                 PROVE  images'[i] < images'[j]
      BY <2>1
    <3>1. i \in 1 .. m /\ images'[i] = images[i]
      BY <1>1, <2>1
    <3>2. CASE j \in 1 .. m
      BY <1>7, <2>1, <3>1, <3>2
    <3>3. CASE j = m + 1
      BY <1>1, <1>6, <2>1, <3>1, <3>3
    <3> QED
      BY <2>2, <3>2, <3>3
  <2>4. \A i \in 1 .. Len(images') : images'[i] <= Len(answered')
    <3>1. \A i \in 1 .. m : images'[i] <= Len(answered')
      BY <1>1, <1>2, <2>1
    <3>2. images'[m + 1] <= Len(answered')
      BY <1>1, <1>2, <1>6, <2>1
    <3> QED
      BY <2>1, <2>2, <3>1, <3>2
  <2>5. \A u \in 1 .. n : ~Among(u, images) => ~Among(u, images')
    BY <1>5, <2>1, <2>2 DEF Among, m
  <2>6. Len(images') = Len(answered') \/ \E u \in 1 .. Len(answered') : ~Among(u, images')
    <3>1. CASE m = n
      BY <1>2, <2>1, <3>1
    <3>2. CASE \E u \in 1 .. n : ~Among(u, images)
      BY <1>5, <2>5, <3>2
    <3> QED
      BY <1>7, <3>1, <3>2
  <2>7. \A i \in 1 .. Len(images') :
          images'[i] = i \/ \E u \in 1 .. Len(answered') : u < images'[i] /\ ~Among(u, images')
    <3>1. ASSUME NEW i \in 1 .. m
          PROVE  images'[i] = i \/ \E u \in 1 .. Len(answered') : u < images'[i] /\ ~Among(u, images')
      BY <1>5, <1>7, <2>1, <2>5
    <3>2. images'[m + 1] = m + 1
            \/ \E u \in 1 .. Len(answered') : u < images'[m + 1] /\ ~Among(u, images')
      <4>1. CASE m = n
        BY <1>6, <2>1, <4>1
      <4>2. CASE \E u \in 1 .. n : ~Among(u, images)
        <5>1. PICK u \in 1 .. n : ~Among(u, images)
          BY <4>2
        <5>2. u < urlIndex /\ u \in 1 .. Len(answered')
          BY <1>1, <1>5, <1>6
        <5> QED
          BY <2>1, <2>5, <5>1, <5>2
      <4> QED
        BY <1>7, <4>1, <4>2
    <3> QED
      BY <2>1, <2>2, <3>1, <3>2
  <2>8. ImagesAnswered'
    BY <2>4, <2>6, <2>7 DEF ImagesAnswered, Among
  <2> QED
    BY <1>4, <2>3, <2>8
<1> QED
  BY <1>9, <1>10

LEMMA PicturesStep ==
  ASSUME TypeOK, ChainInOrder, Downloads, EveryPictureOnce, ImagesAnswered, TraceOfAll,
         FaceOfItsImage, Next
  PROVE  EveryPictureOnce' /\ ImagesAnswered' /\ TraceOfAll' /\ FaceOfItsImage'
<1>1. Shape /\ place # "final" /\ Pending # <<>> /\ UNCHANGED <<kind, urls>>
  BY NextShape DEF Shape
<1>2. CASE Passing
  <2>1. UNCHANGED <<answered, images>>
    BY <1>2 DEF Passing
  <2>2. ImagesAnswered'
    BY <2>1 DEF ImagesAnswered, Among
  <2>3. "TraceSpace" \in done' => Len(answered) = urls
    BY <1>1, <1>2, AllAnswered DEF Passing, EveryPictureOnce
  <2>4. EveryPictureOnce'
    BY <1>1, <2>1, <2>3 DEF EveryPictureOnce
  <2>5. TraceOfAll'
    BY <1>1, <1>2, <2>1, AllAnswered DEF Passing, TraceOfAll
  <2>6. FaceOfItsImage'
    <3>1. CASE trace' = trace
      BY <2>1, <3>1 DEF FaceOfItsImage
    <3>2. CASE trace' = ImagesToTrace
      BY <2>1, <3>2, FacesTraced DEF FaceOfItsImage
    <3> QED
      BY <1>2, <3>1, <3>2 DEF Passing
  <2> QED
    BY <2>2, <2>4, <2>5, <2>6
<1>3. CASE Answering
  <2>1. Downloading /\ Len(answered) + 1 = urlIndex
    BY <1>1, <1>3, AnsweredNow DEF Answering
  <2>2. urlIndex = Len(answered) + 1 /\ urlIndex \in 1 .. MaxUrls /\ Len(answered) < urls
    BY <2>1, CountFacts, MaxUrlsAssumption DEF TypeOK
  <2>3. answered' = Append(answered, urlIndex) /\ (images' = images \/ images' = Append(images, urlIndex))
    BY <1>3 DEF Answering
  <2>4. /\ \A i \in 1 .. Len(answered') : answered'[i] = i
        /\ \A i, j \in 1 .. Len(images') : i < j => images'[i] < images'[j]
        /\ ImagesAnswered'
    BY <2>2, <2>3, AnswerStep
  <2>5. Len(answered) # urls
    BY <2>2, CountFacts
  <2>6. "TraceSpace" \notin done' /\ trace' = <<>>
    BY <1>3, <2>5 DEF Answering, EveryPictureOnce, TraceOfAll
  <2>7. FaceOfItsImage'
    <3>1. \A i \in 1 .. Len(trace') : FALSE
      BY <2>6
    <3> QED
      BY <3>1 DEF FaceOfItsImage
  <2> QED
    BY <2>4, <2>6, <2>7 DEF EveryPictureOnce, TraceOfAll
<1> QED
  BY <1>2, <1>3, PictureShape

-----------------------------------------------------------------------------
(* Ends.                                                                   *)

(* The ways a session ends: it is parked, its last module did its part,    *)
(* something refused, or there is nothing to go on with.                   *)
Parked == err' = "Success" /\ waiting'

Complete ==
  /\ err' = "Success" /\ Tail(Pending) = <<>> /\ done' = done \cup {Head(Pending)}
  /\ UNCHANGED output \/ Suppressed' \/ produced' = expected'

Refused == err' # "Success" /\ refused'

NoPicture == err' # "Success" /\ place = "queue" /\ Head(Pending) = "DownloadImage" /\ urlIndex >= urls

NoImage ==
  err' = "DownloadError" /\ Head(Pending) = "TraceSpace" /\ images' = <<>> /\ UNCHANGED answered

Ends ==
  /\ place' = "final" => Parked \/ Complete \/ Refused \/ NoPicture \/ NoImage
  /\ place' # "final" =>
       UNCHANGED output \/ (Head(Pending) = "OutputKafka" /\ Tail(Pending) # <<>>)

LEMMA EndShape ==
  ASSUME TypeOK, Next
  PROVE  Ends
<1>1. ASSUME place = "queue", chain # <<>>
      PROVE  Pending = chain /\ Tail(chain) \in Seq(Modules)
  BY <1>1, PendingFacts, TailFacts DEF TypeOK
<1>2. ASSUME place = "http"
      PROVE  /\ Head(Pending) = current /\ chain = Tail(Pending) /\ chain \in Seq(Modules)
             /\ <<current>> \o chain = Pending /\ Pending # <<>>
  BY <1>2, PendingFacts DEF TypeOK, Pending
<1>3. ASSUME NEW e \in {"ProcTerminate", "KafkaError", "DownloadError", "HttpConnError", "MongoFailed"},
             Refuse(e)
      PROVE  Ends
  BY <1>3 DEF Refuse, Final, Refused, Ends
<1>4. ASSUME GoOn(Tail(Pending)), Completed(Head(Pending)), UNCHANGED output
      PROVE  Ends
  BY <1>4 DEF GoOn, PushMsg, Final, Completed, Complete, Ends
<1>5. ASSUME NEW rest \in Seq(Modules), rest # <<>>, GoOn(rest), UNCHANGED output
      PROVE  Ends
  BY <1>5 DEF GoOn, PushMsg, Ends
<1>6. ASSUME NEW m, Send(m), UNCHANGED output
      PROVE  Ends
  BY <1>6 DEF Send, Ends
<1>7. CASE GetPlugin
  <2>1. place = "queue" /\ chain # <<>> /\ Head(chain) = "GetPlugin" /\ UNCHANGED output
    BY <1>7 DEF GetPlugin, NextProcessor
  <2>2. CASE Refuse("MongoFailed")
    BY <1>3, <2>2
  <2>3. CASE Completed("GetPlugin") /\ GoOn(Tail(chain))
    BY <1>1, <1>4, <2>1, <2>3
  <2>4. CASE GoOn(Append(Tail(chain), "OutputKafka"))
    <3>1. /\ Append(Tail(chain), "OutputKafka") \in Seq(Modules)
          /\ Append(Tail(chain), "OutputKafka") # <<>>
      BY <1>1, <2>1, AppendFacts, ModuleNames
    <3> QED
      BY <1>5, <2>1, <2>4, <3>1
  <2> QED
    BY <1>7, <2>2, <2>3, <2>4 DEF GetPlugin, Repaired
<1>8. CASE DownloadRequest
  <2>1. place = "queue" /\ chain # <<>> /\ Head(chain) = "DownloadImage" /\ UNCHANGED output
    BY <1>8 DEF DownloadRequest, NextProcessor
  <2>2. CASE Refuse("ProcTerminate")
    BY <1>3, <2>2
  <2>3. CASE Send("DownloadImage")
    BY <1>6, <2>1, <2>3
  <2>4. CASE ~(urlIndex < urls) /\ Fail("ProcTerminate")
    <3>1. urlIndex >= urls
      BY <2>4, CountFacts
    <3> QED
      BY <1>1, <2>1, <2>4, <3>1 DEF Fail, Final, NoPicture, Ends
  <2> QED
    BY <1>8, <2>2, <2>3, <2>4 DEF DownloadRequest
<1>9. CASE TraceSpaceRequest
  <2>1. /\ place = "queue" /\ chain # <<>> /\ Head(chain) = "TraceSpace"
        /\ UNCHANGED <<images, answered, output>>
    BY <1>9 DEF TraceSpaceRequest, NextProcessor
  <2>2. CASE Send("TraceSpace")
    BY <1>6, <2>1, <2>2
  <2>3. CASE images = <<>> /\ Fail("DownloadError")
    BY <1>1, <2>1, <2>3 DEF Fail, Final, NoImage, Ends
  <2> QED
    BY <1>9, <2>2, <2>3 DEF TraceSpaceRequest
<1>10. CASE GenerateUrlRequest
  <2>1. UNCHANGED output
    BY <1>10 DEF GenerateUrlRequest
  <2> QED
    BY <1>3, <1>6, <1>10, <2>1 DEF GenerateUrlRequest
<1>11. CASE PicWait
  <2>1. place = "queue" /\ chain # <<>> /\ Head(chain) = "PicWait" /\ UNCHANGED output
    BY <1>11 DEF PicWait, NextProcessor
  <2>2. CASE Final("Success") /\ waiting' = TRUE
    BY <2>2 DEF Final, Parked, Ends
  <2>3. CASE GoOn(Tail(chain)) /\ Completed("PicWait")
    BY <1>1, <1>4, <2>1, <2>3
  <2> QED
    BY <1>11, <2>2, <2>3 DEF PicWait
<1>12. CASE BusinessSave
  <2>1. place = "queue" /\ chain # <<>> /\ Head(chain) = "BusinessSave" /\ UNCHANGED output
    BY <1>12 DEF BusinessSave, NextProcessor
  <2> QED
    BY <1>1, <1>3, <1>4, <1>12, <2>1 DEF BusinessSave
<1>13. CASE OutputKafka
  <2>1. place = "queue" /\ chain # <<>> /\ Head(chain) = "OutputKafka" /\ UNCHANGED <<message, plugin>>
    BY <1>13 DEF OutputKafka, NextProcessor
  <2>2. CASE Refuse("KafkaError")
    BY <1>3, <2>2
  <2>3. CASE /\ GoOn(Tail(chain)) /\ Completed("OutputKafka")
             /\ Suppressed \/ produced' = expected'
    <3>1. Suppressed' <=> Suppressed
      BY <2>1 DEF Suppressed, message
    <3>2. Pending = chain
      BY <1>1, <2>1
    <3>3. CASE Tail(chain) = <<>>
      BY <2>1, <2>3, <3>1, <3>2, <3>3 DEF GoOn, Final, Completed, Complete, Ends
    <3>4. CASE Tail(chain) # <<>>
      BY <2>1, <2>3, <3>2, <3>4 DEF GoOn, PushMsg, Ends
    <3> QED
      BY <3>3, <3>4
  <2> QED
    BY <1>13, <2>2, <2>3 DEF OutputKafka
<1>14. CASE HttpErrorProcess
  <2>1. place = "http" /\ UNCHANGED output
    BY <1>14 DEF HttpErrorProcess
  <2>2. CASE Refuse("HttpConnError")
    BY <1>3, <2>2
  <2>3. CASE GoOn(<<current>> \o chain)
    <3>1. Pending \in Seq(Modules)
      BY PendingFacts
    <3> QED
      BY <1>2, <1>5, <2>1, <2>3, <3>1
  <2> QED
    BY <1>14, <2>2, <2>3 DEF HttpErrorProcess
<1>15. CASE ProcImageResponse
  <2>1. place = "http" /\ current = "DownloadImage" /\ UNCHANGED output
    BY <1>15 DEF ProcImageResponse
  <2>2. CASE Refuse("ProcTerminate")
    BY <1>3, <2>2
  <2>3. CASE GoOn(<<"DownloadImage">> \o chain)
    <3>1. Pending \in Seq(Modules)
      BY PendingFacts
    <3> QED
      BY <1>2, <1>5, <2>1, <2>3, <3>1
  <2>4. CASE GoOn(chain) /\ Completed("DownloadImage")
    BY <1>2, <1>4, <2>1, <2>4
  <2> QED
    BY <1>15, <2>2, <2>3, <2>4 DEF ProcImageResponse
<1>16. ASSUME NEW m \in {"TraceSpace", "GenerateUrl"}, ProcResponse(m)
       PROVE  Ends
  <2>1. place = "http" /\ current = m /\ UNCHANGED output
    BY <1>16 DEF ProcResponse
  <2> QED
    BY <1>2, <1>3, <1>4, <1>16, <2>1 DEF ProcResponse
<1> QED
  BY <1>7, <1>8, <1>9, <1>10, <1>11, <1>12, <1>13, <1>14, <1>15, <1>16
  DEF Next, Process, Callback, ProcTraceSpaceResponse, ProcGenerateUrlResponse

LEMMA RemainingStep ==
  ASSUME TypeOK, ChainInOrder, Remaining, Next
  PROVE  Remaining'
<1>1. Shape /\ place # "final" /\ Pending \in Seq(Modules) /\ Pending # <<>> /\ HeadTells(kind, Pending)
  BY NextShape, PendingFacts, HeadNow DEF Shape
<1>2. SUFFICES ASSUME place' # "final"
               PROVE  /\ \A m \in Planned(kind) : m \in done' \/ Among(m, Pending')
                      /\ produced' = 0 /\ expected' = 0
  BY <1>1 DEF Remaining, Shape
<1>3. produced' = 0 /\ expected' = 0
  BY <1>1, <1>2, EndShape DEF HeadTells, Remaining, output, Ends
<1>4. /\ done \subseteq done' /\ \A m \in Planned(kind) : m \in done \/ Among(m, Pending)
      /\ \A m : Among(m, Pending) <=> m = Head(Pending) \/ Among(m, Tail(Pending))
      /\ Tail(Pending) \in Seq(Modules)
  BY <1>1, TailFacts DEF Remaining, Shape
<1>5. CASE Pending' = Append(Tail(Pending), "OutputKafka") /\ Head(Pending) \in done'
  <2>1. /\ Len(Pending') = Len(Tail(Pending)) + 1
        /\ \A i \in 1 .. Len(Tail(Pending)) : Pending'[i] = Tail(Pending)[i]
    BY <1>4, <1>5, AppendFacts, ModuleNames
  <2>2. \A i \in 1 .. Len(Tail(Pending)) : i \in 1 .. Len(Pending')
    BY <1>4, <2>1
  <2>3. \A m : Among(m, Tail(Pending)) => Among(m, Pending')
    BY <2>1, <2>2 DEF Among
  <2> QED
    BY <1>3, <1>4, <1>5, <2>3
<1>6. CASE Pending' = Pending \/ (Pending' = Tail(Pending) /\ Head(Pending) \in done')
  BY <1>3, <1>4, <1>6
<1> QED
  BY <1>1, <1>2, <1>5, <1>6 DEF Shape

LEMMA EndsStep ==
  ASSUME TypeOK, TypeOK', ChainInOrder, Downloads, Remaining, Next
  PROVE  SuccessMeansDone' /\ FailureHasCause'
<1>1. Shape /\ place # "final" /\ Pending \in Seq(Modules) /\ Pending # <<>> /\ HeadTells(kind, Pending)
  BY NextShape, PendingFacts, HeadNow DEF Shape
<1>2. CASE place' # "final"
  <2>1. err' = "none"
    BY <1>2 DEF TypeOK
  <2> QED
    BY <2>1 DEF SuccessMeansDone, FailureHasCause
<1>3. CASE Parked
  BY <1>3 DEF Parked, SuccessMeansDone, FailureHasCause
<1>4. CASE Complete
  <2>1. \A m : Among(m, Pending) <=> m = Head(Pending)
    <3>1. \A m : ~Among(m, <<>>)
      BY DEF Among
    <3>2. Tail(Pending) = <<>>
      BY <1>4 DEF Complete
    <3> QED
      BY <1>1, <3>1, <3>2, TailFacts
  <2>2. Planned(kind) \subseteq done'
    BY <1>1, <1>4, <2>1 DEF Complete, Remaining
  <2>3. produced = 0 /\ expected = 0
    BY <1>1 DEF Remaining
  <2>4. Planned(kind') \subseteq done'
    BY <1>1, <2>2 DEF Shape
  <2> QED
    BY <1>4, <2>3, <2>4 DEF Complete, SuccessMeansDone, FailureHasCause, output
<1>5. CASE Refused
  BY <1>5 DEF Refused, SuccessMeansDone, FailureHasCause
<1>6. CASE NoPicture
  <2>1. kind \in Captures /\ Among("DownloadImage", Pending)
    BY <1>1, <1>6, TailFacts DEF NoPicture, HeadTells
  <2>2. Len(answered) = urlIndex
    BY <1>1, <1>6, AnsweredNow DEF NoPicture, Downloading
  <2>3. Len(answered) < urls \/ urls = 0
    BY <1>1, <2>1 DEF Downloads
  <2>4. urls = 0
    BY <1>6, <2>2, <2>3, CountFacts DEF NoPicture
  <2> QED
    BY <1>1, <1>6, <2>1, <2>4 DEF NoPicture, Shape, SuccessMeansDone, FailureHasCause
<1>7. CASE NoImage
  <2>1. Len(answered) = urls
    BY <1>1, <1>7, AllAnswered DEF NoImage
  <2> QED
    BY <1>1, <1>7, <2>1 DEF NoImage, Shape, SuccessMeansDone, FailureHasCause
<1> QED
  BY <1>2, <1>3, <1>4, <1>5, <1>6, <1>7, EndShape DEF Ends

-----------------------------------------------------------------------------
(* Theorems.                                                               *)

LEMMA InitInv ==
  ASSUME Init
  PROVE  IInv
<1> DEFINE c == ProcessChain(kind)
<1>1. kind \in Kinds /\ c \in Seq(Modules) /\ Len(c) >= 1 /\ Len(c) \in Nat
  BY ChainFacts DEF Init
<1>2. urls \in Nat /\ urls \in 0 .. MaxUrls /\ RetryTime \in Nat /\ retry = RetryTime
  BY MaxUrlsAssumption, RetryTimeAssumption DEF Init
<1>3. TypeOK
  <2>1. kind \in Kinds /\ urls \in 0 .. MaxUrls /\ replay \in BOOLEAN /\ chain \in Seq(Modules)
    BY <1>1 DEF Init
  <2>2. urlIndex \in 0 .. urls /\ retry \in 0 .. RetryTime
    BY <1>2 DEF Init
  <2>3. plugin \in Plugins
    BY MaxTopicsAssumption DEF Init, Plugins
  <2>4. produced \in 0 .. MaxTopics + 1 /\ expected \in 0 .. MaxTopics + 1 /\ pushes \in Nat
    BY MaxTopicsAssumption DEF Init
  <2>5. images \in Seq(1 .. MaxUrls) /\ answered \in Seq(1 .. MaxUrls)
    BY DEF Init
  <2>6. /\ place \in {"queue", "http", "final"} /\ current \in HttpModules \cup {"none"}
        /\ (place = "http" => current # "none") /\ err \in ErrCodes /\ (err # "none" <=> place = "final")
        /\ waiting \in BOOLEAN /\ done \subseteq Modules /\ refused \in BOOLEAN
    BY DEF Init, ErrCodes
  <2> QED
    BY <2>1, <2>2, <2>3, <2>4, <2>5, <2>6 DEF TypeOK
<1>4. place = "queue" /\ chain = c /\ Pending = c /\ Len(answered) = 0 /\ ~Downloading /\ pushes = 0
  BY DEF Init, Pending, Downloading
<1>5. c # <<>>
  BY <1>1
<1>6. NeverWithoutModule
  BY <1>4, <1>5 DEF NeverWithoutModule
<1>7. ChainInOrder
  <2>1. EndOf(c, c)
    BY <1>1 DEF EndOf
  <2> QED
    BY <1>4, <2>1 DEF ChainInOrder
<1>8. Downloads
  <2>1. urlIndex = 0 /\ 0 - 0 = 0
    BY DEF Init
  <2>2. Len(answered) = urlIndex - (IF Downloading THEN 1 ELSE 0)
    BY <1>4, <2>1, Zenon
  <2>3. kind \in Captures => Among("DownloadImage", c)
    BY <1>1, ChainFacts
  <2>4. Len(answered) < urls \/ urls = 0
    BY <1>2, <1>4
  <2> QED
    BY <1>4, <2>2, <2>3, <2>4 DEF Downloads
<1>9. EveryPictureOnce /\ ImagesAnswered /\ TraceOfAll /\ FaceOfItsImage
  BY DEF Init, EveryPictureOnce, ImagesAnswered, TraceOfAll, FaceOfItsImage
<1>10. Remaining
  BY <1>4 DEF Init, Remaining, Planned, Among
<1>11. SuccessMeansDone /\ FailureHasCause
  BY DEF Init, SuccessMeansDone, FailureHasCause
<1>12. PushesLeft /\ PushesBounded
  <2>1. PushBound = Len(c) + urls + RetryTime
    BY DEF PushBound
  <2>2. pushes + Len(Pending) + (urls - Len(answered)) + retry = PushBound /\ PushBound \in Nat
    BY <1>1, <1>2, <1>4, <2>1
  <2>3. Room \in {0, 1}
    BY DEF Room
  <2>4. PushBound <= PushBound + Room /\ pushes <= PushBound
    BY <1>4, <2>2, <2>3
  <2> QED
    BY <2>2, <2>4 DEF PushesLeft, PushesBounded, Room
<1> QED
  BY <1>3, <1>6, <1>7, <1>8, <1>9, <1>10, <1>11, <1>12 DEF IInv

LEMMA StepInv ==
  ASSUME IInv, [Next]_vars
  PROVE  IInv'
<1>1. TypeOK'
  BY TypeStep DEF IInv
<1>2. CASE Next
  <2>1. NeverWithoutModule'
    BY <1>2, NextShape DEF IInv, NeverWithoutModule, Shape
  <2>2. ChainInOrder'
    BY <1>2, OrderStep DEF IInv
  <2>3. Downloads'
    BY <1>1, <1>2, DownloadsStep DEF IInv
  <2>4. EveryPictureOnce' /\ ImagesAnswered' /\ TraceOfAll' /\ FaceOfItsImage'
    BY <1>2, PicturesStep DEF IInv
  <2>5. Remaining'
    BY <1>2, RemainingStep DEF IInv
  <2>6. SuccessMeansDone' /\ FailureHasCause'
    BY <1>1, <1>2, EndsStep DEF IInv
  <2>7. PushesLeft' /\ PushesBounded'
    BY <1>1, <1>2, <2>3, PushesStep DEF IInv
  <2> QED
    BY <1>1, <2>1, <2>2, <2>3, <2>4, <2>5, <2>6, <2>7 DEF IInv
<1>3. CASE UNCHANGED vars
  <2> USE DEF vars, message, output
  <2>1. NeverWithoutModule' /\ ChainInOrder' /\ Downloads'
    BY <1>3 DEF IInv, NeverWithoutModule, ChainInOrder, Downloads, Downloading, Pending, Among
  <2>2. EveryPictureOnce' /\ ImagesAnswered' /\ TraceOfAll' /\ FaceOfItsImage'
    BY <1>3 DEF IInv, EveryPictureOnce, ImagesAnswered, TraceOfAll, FaceOfItsImage, Among
  <2>3. Remaining' /\ SuccessMeansDone' /\ FailureHasCause'
    BY <1>3 DEF IInv, Remaining, SuccessMeansDone, FailureHasCause, Suppressed, Pending, Among
  <2>4. PushesLeft' /\ PushesBounded'
    BY <1>3 DEF IInv, PushesLeft, PushesBounded, PushBound, Pending, Among
  <2> QED
    BY <1>1, <2>1, <2>2, <2>3, <2>4 DEF IInv
<1> QED
  BY <1>2, <1>3

(* The inductive invariant.                                                *)
THEOREM Invariance == Spec => []IInv
<1>1. Init => IInv
  BY InitInv
<1>2. IInv /\ [Next]_vars => IInv'
  BY StepInv
<1> QED
  BY <1>1, <1>2, PTL DEF Spec

(* The variables keep their types.                                         *)
THEOREM TypeCorrect == Spec => []TypeOK
<1>1. IInv => TypeOK
  BY DEF IInv
<1> QED
  BY <1>1, Invariance, PTL

(* Session::Process always finds a module in the chain of a session that   *)
(* was pushed, whatever HttpErrorProcess, ProcImageResponse and            *)
(* repairProcChain did to it before.                                       *)
THEOREM AlwaysAModule == Spec => []NeverWithoutModule
<1>1. IInv => NeverWithoutModule
  BY DEF IInv
<1> QED
  BY <1>1, Invariance, PTL

(* GetNextUrl and RetreatUrl ask for the pictures one by one and for none  *)
(* twice, however many requests fail in between.                           *)
THEOREM EachPicture == Spec => []EveryPictureOnce
<1>1. IInv => EveryPictureOnce
  BY DEF IInv
<1> QED
  BY <1>1, Invariance, PTL

(* makeTraceSpaceRequest gives an image the rectangle and the age of       *)
(* another face only when an earlier answer had no body.                   *)
THEOREM FacesMatch == Spec => []FaceOfItsImage
<1>1. IInv => FaceOfItsImage
  BY DEF IInv
<1> QED
  BY <1>1, Invariance, PTL

(* No module is reached without the part of the message it reads: the      *)
(* first face, or the Kafka message that is parked.                        *)
THEOREM DataIsThere == Spec => []DataPresent
<1>1. ASSUME IInv
      PROVE  DataPresent
  <2>1. SUFFICES ASSUME chain # <<>>, place = "queue"
                 PROVE  /\ kind \in Captures /\ Head(chain) \in {"BusinessSave", "OutputKafka"} => urls > 0
                        /\ Head(chain) = "PicWait" => kind # "ParkedCapture"
    BY DEF DataPresent
  <2>2. Pending = chain /\ HeadTells(kind, Pending)
    BY <1>1, <2>1, PendingFacts, HeadNow DEF IInv
  <2> QED
    BY <1>1, <2>1, <2>2 DEF IInv, Downloads, HeadTells
<1> QED
  BY <1>1, Invariance, PTL

(* Final(kSuccess) is said of a session that is not parked only when each  *)
(* module of its chain did its part and its output is enqueued.            *)
THEOREM SuccessIsSuccess == Spec => []SuccessMeansDone
<1>1. IInv => SuccessMeansDone
  BY DEF IInv
<1> QED
  BY <1>1, Invariance, PTL

(* A session ends with an error only when something outside refused, it    *)
(* has no picture, or no answer held an image.                             *)
THEOREM FailuresHaveCauses == Spec => []FailureHasCause
<1>1. IInv => FailureHasCause
  BY DEF IInv
<1> QED
  BY <1>1, Invariance, PTL

(* The pushes of a session are bounded by its modules, pictures and        *)
(* retries, for any number of these.                                       *)
THEOREM BoundedPushes == Spec => []PushesBounded
<1>1. IInv => PushesBounded
  BY DEF IInv
<1> QED
  BY <1>1, Invariance, PTL

=============================================================================
