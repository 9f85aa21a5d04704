------------------------------- MODULE Workflow -------------------------------
(***************************************************************************)
(* The life of one Session: the chain of modules it goes through, what     *)
(* each module may do to the chain, the retries of HTTP requests and the   *)
(* code it ends with.  Worker says where sessions wait and on which thread *)
(* they run; a session is never in two places there, so one session is a   *)
(* sequential program and this module is that program.                     *)
(*                                                                         *)
(* A step is one call of Session::Process on a worker thread or one        *)
(* callback of an HTTP request on an io thread, up to PushMsg, Final or    *)
(* the next request.  The servers' answers, the databases' and the brokers'*)
(* are choices.                                                            *)
(***************************************************************************)
EXTENDS Integers, Sequences, FiniteSets

CONSTANTS
  MaxUrls,     \* bound: pictures in a message
  MaxTopics,   \* bound: topics of a plugin, tasks of a screenshot
  RetryTime    \* httpretrytime

ASSUME MaxUrlsAssumption == MaxUrls \in Nat
ASSUME MaxTopicsAssumption == MaxTopics \in Nat
ASSUME RetryTimeAssumption == RetryTime \in Nat

(* What a session is made for: the class ParseDataFactory chose, for       *)
(* Business with its msg_type (0 Flow, 1 Attribute, 2 Capture) and whether *)
(* the message came from Kafka or was parked in redis.                     *)
Kinds == {"Capture", "XiashunCapture", "BusinessCapture", "ParkedCapture",
          "BusinessFlow", "BusinessAttribute", "XiashunBusiness", "Screenshot"}

Captures == {"Capture", "XiashunCapture"}

Modules == {"GetPlugin", "DownloadImage", "TraceSpace", "PicWait", "BusinessSave",
            "GenerateUrl", "OutputKafka"}

HttpModules == {"DownloadImage", "TraceSpace", "GenerateUrl"}

(* Mistake: a parked message gets the chain of one from Kafka.             *)
ChainWithoutFrom(k) ==
  IF k \in {"BusinessCapture", "ParkedCapture"}
  THEN <<"PicWait", "GetPlugin", "BusinessSave", "GenerateUrl", "OutputKafka">>
  ELSE <<"GetPlugin", "BusinessSave">>

BusinessChain(k) ==
  CASE k = "BusinessCapture" ->
         <<"PicWait", "GetPlugin", "BusinessSave", "GenerateUrl", "OutputKafka">>
    [] k = "ParkedCapture" ->
         <<"GetPlugin", "BusinessSave", "GenerateUrl", "OutputKafka">>
    [] OTHER -> <<"GetPlugin", "BusinessSave">>

XiashunCaptureChain ==
  <<"DownloadImage", "TraceSpace", "BusinessSave", "GenerateUrl", "OutputKafka">>

(* makeProcessChain: the chain of the class, or the default one.           *)
ProcessChain(k) ==
  CASE k = "XiashunCapture" -> XiashunCaptureChain
    [] k = "XiashunBusiness" -> <<"BusinessSave">>
    [] k = "Screenshot" -> <<"OutputKafka">>
    [] k = "Capture" ->
         <<"GetPlugin", "DownloadImage", "TraceSpace", "PicWait", "GenerateUrl", "OutputKafka">>
    [] OTHER -> BusinessChain(k)

VARIABLES
  kind,      \* which of Kinds
  urls,      \* getUrlCount()
  replay,    \* getReplay() = 1
  chain,     \* proc_chain_
  place,     \* in the worker "queue", at an "http" server, or "final"
  current,   \* module whose request is under way
  urlIndex,  \* face_index_: pictures asked for
  images,    \* images_, by the number of their url
  retry,     \* http_retry_time_
  plugin,    \* KafkaData_->plugin_: enable, topiclist (its length), replay_push_flag,
             \* and whether face_rect_from and face_attr_from are 0, the device
  err,       \* code given to Final
  waiting,   \* did PicWait answer WAIT?
  done,      \* history: modules that did their part
  answered,  \* history: urls answered with status 200, in order
  produced,  \* history: messages enqueued for the output topics
  expected,  \* history: messages makeKafkaRequest asked for
  trace,     \* history: images and faces in the last request to trace space
  refused,   \* history: did anything outside the session end it?
  pushes     \* history: times the session was pushed after its creation

message == <<kind, urls, replay>>
output == <<produced, expected>>
vars == <<message, chain, place, current, urlIndex, images, retry, plugin, err,
          waiting, done, answered, output, trace, refused, pushes>>

Init ==
  /\ kind \in Kinds
  /\ urls \in 0 .. MaxUrls
  /\ replay \in IF kind = "Screenshot" THEN {FALSE} ELSE BOOLEAN
  /\ chain = ProcessChain(kind)
  /\ place = "queue"
  /\ current = "none"
  /\ urlIndex = 0
  /\ images = <<>>
  /\ retry = RetryTime
  /\ plugin = [enable |-> FALSE, topics |-> 0, replayPush |-> FALSE,
               deviceRect |-> TRUE, deviceAttr |-> TRUE]
  /\ err = "none"
  /\ waiting = FALSE
  /\ done = {}
  /\ answered = <<>>
  /\ produced = 0
  /\ expected = 0
  /\ trace = <<>>
  /\ refused = FALSE
  /\ pushes = 0

-----------------------------------------------------------------------------
(* Session.                                                                *)

(* Process: NextProcessor takes the next module off the chain.  (An empty  *)
(* chain would give no module and end the session; NeverWithoutModule says *)
(* that a session in the queue has one.)                                   *)
NextProcessor(m) ==
  /\ place = "queue"
  /\ chain # <<>>
  /\ Head(chain) = m

(* The session ends, whatever is left of the chain.                        *)
Final(e) ==
  /\ place' = "final"
  /\ err' = e
  /\ UNCHANGED pushes

PushMsg ==
  /\ place' = "queue"
  /\ pushes' = pushes + 1
  /\ UNCHANGED err

(* Mistake: HasNextProcessor() is not asked.                               *)
PushAnyway(rest) ==
  /\ chain' = rest
  /\ PushMsg
  /\ UNCHANGED refused

(* HasNextProcessor() decides between PushMsg and Final(kSuccess).         *)
GoOn(rest) ==
  /\ chain' = rest
  /\ IF rest # <<>> THEN PushMsg ELSE Final("Success")
  /\ UNCHANGED refused

Completed(m) == done' = done \cup {m}

(* The module cannot do its part, and that ends the session: because there *)
(* is nothing to do it with, or because a server, a database, a broker or  *)
(* the form of a url refuses.                                              *)
Fail(e) ==
  /\ Final(e)
  /\ chain' = IF place = "queue" THEN Tail(chain) ELSE chain
  /\ UNCHANGED <<done, refused>>

Refuse(e) ==
  /\ Final(e)
  /\ chain' = IF place = "queue" THEN Tail(chain) ELSE chain
  /\ refused' = TRUE
  /\ UNCHANGED done

-----------------------------------------------------------------------------
(* GetPlugin: looks the app up in adapter_model.                           *)

Plugins ==
  [enable : BOOLEAN, topics : 0 .. MaxTopics, replayPush : BOOLEAN,
   deviceRect : BOOLEAN, deviceAttr : BOOLEAN]

(* datatype in topic_channel: 1 for a capture, msg_type + 2 for Business.  *)
(* repairProcChain sends what has no output of its own to the plugin.      *)
Repaired(rest) ==
  IF kind \in {"BusinessFlow", "BusinessAttribute"} THEN Append(rest, "OutputKafka") ELSE rest

GetPlugin ==
  /\ NextProcessor("GetPlugin")
  /\ \/ Refuse("MongoFailed") /\ UNCHANGED plugin
     \/ Completed("GetPlugin") /\ GoOn(Tail(chain)) /\ UNCHANGED plugin
     \/ /\ Completed("GetPlugin")
        /\ plugin' \in Plugins
        /\ plugin'.enable
        /\ \/ plugin'.topics = 0 /\ GoOn(Tail(chain))
           \/ GoOn(Repaired(Tail(chain)))
  /\ UNCHANGED <<message, current, urlIndex, images, retry, waiting, answered, output, trace>>

-----------------------------------------------------------------------------
(* The HTTP modules.                                                       *)

Send(m) ==
  /\ place' = "http"
  /\ current' = m
  /\ chain' = Tail(chain)
  /\ UNCHANGED <<err, pushes, done, refused>>

(* Mistake: GetNextUrl does not look at the size.                          *)
DownloadUnchecked ==
  /\ NextProcessor("DownloadImage")
  /\ urlIndex' = urlIndex + 1
  /\ Send("DownloadImage")
  /\ UNCHANGED <<message, images, retry, plugin, waiting, answered, output, trace>>

(* makeDownloadRequest: no picture, none left, or a url that is not        *)
(* endpoint/bucket/key, ends the session.                                  *)
DownloadRequest ==
  /\ NextProcessor("DownloadImage")
  /\ IF urlIndex < urls
     THEN /\ urlIndex' = urlIndex + 1
          /\ Send("DownloadImage") \/ (Refuse("ProcTerminate") /\ UNCHANGED current)
     ELSE Fail("ProcTerminate") /\ UNCHANGED <<urlIndex, current>>
  /\ UNCHANGED <<message, images, retry, plugin, waiting, answered, output, trace>>

(* Mistake: a number from 1 is taken for one from 0.                       *)
FaceByNumber(i) == IF i < urls THEN i + 1 ELSE 0

(* getFaceRectByOrder, getFaceAgeByOrder: the face of that number; 0 stands *)
(* for none.                                                               *)
FaceByOrder(i) == IF i <= urls THEN i ELSE 0

(* The images of the request.  They have the rectangle and the age of the  *)
(* face with the number of the image, unless the plugin says that these do *)
(* not come from the device.                                               *)
ImagesToTrace ==
  [i \in 1 .. Len(images) |->
     [image |-> images[i],
      rect |-> IF plugin.enable /\ ~plugin.deviceRect THEN 0 ELSE FaceByOrder(i),
      age |-> IF plugin.enable /\ ~plugin.deviceAttr THEN 0 ELSE FaceByOrder(i)]]

(* makeTraceSpaceRequest ends a session without images itself; the Final   *)
(* that follows finds it finished and does nothing.                        *)
TraceSpaceRequest ==
  /\ NextProcessor("TraceSpace")
  /\ IF images = <<>>
     THEN Fail("DownloadError") /\ UNCHANGED <<current, trace>>
     ELSE Send("TraceSpace") /\ trace' = ImagesToTrace
  /\ UNCHANGED <<message, urlIndex, images, retry, plugin, waiting, answered, output>>

GenerateUrlRequest ==
  /\ NextProcessor("GenerateUrl")
  /\ Send("GenerateUrl") \/ (Refuse("ProcTerminate") /\ UNCHANGED current)
  /\ UNCHANGED <<message, urlIndex, images, retry, plugin, waiting, answered, output, trace>>

RetreatUrl(i) == IF i > 0 THEN i - 1 ELSE i

(* Mistake: the url is not given back before the retry.                    *)
ErrorWithoutRetreat ==
  /\ place = "http"
  /\ retry > 0
  /\ retry' = retry - 1
  /\ GoOn(<<current>> \o chain)
  /\ UNCHANGED <<message, current, urlIndex, images, plugin, waiting, done, answered, output, trace>>

(* Mistake: the budget is not used up.                                     *)
ErrorWithoutBudget ==
  /\ place = "http"
  /\ urlIndex' = IF current = "DownloadImage" THEN RetreatUrl(urlIndex) ELSE urlIndex
  /\ GoOn(<<current>> \o chain)
  /\ UNCHANGED <<message, current, retry, images, plugin, waiting, done, answered, output, trace>>

(* Mistake: the session is not pushed for the retry.                       *)
ErrorWithoutPush ==
  /\ place = "http"
  /\ retry > 0
  /\ retry' = retry - 1
  /\ place' = "nowhere"
  /\ UNCHANGED <<message, chain, current, urlIndex, images, plugin, err, waiting, done,
                 answered, output, trace, refused, pushes>>

(* HttpErrorProcess: no answer.  A download gives its url back; all        *)
(* requests of a session share one budget of retries.                      *)
HttpErrorProcess ==
  /\ place = "http"
  /\ urlIndex' = IF current = "DownloadImage" THEN RetreatUrl(urlIndex) ELSE urlIndex
  /\ IF retry > 0
     THEN retry' = retry - 1 /\ GoOn(<<current>> \o chain)
     ELSE Refuse("HttpConnError") /\ UNCHANGED retry
  /\ UNCHANGED <<message, current, images, plugin, waiting, done, answered, output, trace>>

(* Mistake: the next download is asked for by "<=".                        *)
ImageResponseOneMore ==
  /\ place = "http" /\ current = "DownloadImage"
  /\ answered' = Append(answered, urlIndex)
  /\ images' = Append(images, urlIndex)
  /\ IF urlIndex <= urls
     THEN GoOn(<<"DownloadImage">> \o chain) /\ UNCHANGED done
     ELSE GoOn(chain) /\ Completed("DownloadImage")
  /\ UNCHANGED <<message, retry, current, urlIndex, plugin, waiting, output, trace>>

(* ProcImageResponse: an answer other than 200 ends the session, one with  *)
(* an empty body is passed over; then the next url, if there is one.       *)
ProcImageResponse ==
  /\ place = "http" /\ current = "DownloadImage"
  /\ \/ Refuse("ProcTerminate") /\ UNCHANGED <<images, answered>>
     \/ /\ answered' = Append(answered, urlIndex)
        /\ images' \in {images, Append(images, urlIndex)}
        /\ IF urlIndex < urls
           THEN GoOn(<<"DownloadImage">> \o chain) /\ UNCHANGED done
           ELSE GoOn(chain) /\ Completed("DownloadImage")
  /\ UNCHANGED <<message, retry, current, urlIndex, plugin, waiting, output, trace>>

(* An answer that is used, or that does not have the expected form.        *)
ProcResponse(m) ==
  /\ place = "http" /\ current = m
  /\ \/ Refuse("ProcTerminate")
     \/ GoOn(chain) /\ Completed(m)
  /\ UNCHANGED <<message, retry, current, urlIndex, images, plugin, waiting, answered, output, trace>>

ProcTraceSpaceResponse == ProcResponse("TraceSpace")

ProcGenerateUrlResponse == ProcResponse("GenerateUrl")

-----------------------------------------------------------------------------
(* The other modules, each one call on a worker thread.                    *)

(* PictureWait says when the answer is WAIT: never for a Trace message,    *)
(* and never without a picture.                                            *)
PicWait ==
  /\ NextProcessor("PicWait")
  /\ \/ /\ kind = "BusinessCapture" /\ urls > 0
        /\ Final("Success")
        /\ waiting' = TRUE
        /\ chain' = Tail(chain)
        /\ UNCHANGED <<done, refused>>
     \/ GoOn(Tail(chain)) /\ Completed("PicWait") /\ UNCHANGED waiting
  /\ UNCHANGED <<message, current, urlIndex, images, retry, plugin, answered, output, trace>>

BusinessSave ==
  /\ NextProcessor("BusinessSave")
  /\ \/ Refuse("MongoFailed")
     \/ GoOn(Tail(chain)) /\ Completed("BusinessSave")
  /\ UNCHANGED <<message, current, urlIndex, images, retry, plugin, waiting, answered, output, trace>>

(* makeKafkaRequest of each class: how many messages it may ask for.  It   *)
(* never fails: the "return -1" of CaptureData, when the face set is not   *)
(* found, is true.                                                         *)
CaptureRequests ==
  {0} \cup (IF urls = 0 THEN {} ELSE IF plugin.enable THEN {plugin.topics} ELSE {1})

XiashunCaptureRequests == IF urls = 0 THEN {0} ELSE {1}

ScreenshotRequests == 0 .. MaxTopics

BusinessRequests ==
  IF kind \in {"BusinessCapture", "ParkedCapture"} /\ urls = 0
  THEN {0}
  ELSE {plugin.topics + 1}

KafkaRequests ==
  CASE kind = "Screenshot" -> ScreenshotRequests
    [] kind = "Capture" -> CaptureRequests
    [] kind = "XiashunCapture" -> XiashunCaptureRequests
    [] OTHER -> BusinessRequests

Suppressed == replay /\ ~plugin.replayPush

(* Mistake: a message that cannot be enqueued is passed over.              *)
OutputCarelessly ==
  /\ NextProcessor("OutputKafka")
  /\ \E n \in KafkaRequests :
       /\ expected' = n
       /\ produced' \in 0 .. n
  /\ GoOn(Tail(chain)) /\ Completed("OutputKafka")
  /\ UNCHANGED <<message, current, urlIndex, images, retry, plugin, waiting, answered, trace>>

(* The messages are enqueued one after the other; the first that librdkafka*)
(* refuses ends the session, with those before it enqueued.                *)
OutputKafka ==
  /\ NextProcessor("OutputKafka")
  /\ \E n \in KafkaRequests :
       /\ expected' = n
       /\ \/ /\ Suppressed
             /\ GoOn(Tail(chain)) /\ Completed("OutputKafka")
             /\ UNCHANGED produced
          \/ /\ ~Suppressed
             /\ produced' = n
             /\ GoOn(Tail(chain)) /\ Completed("OutputKafka")
          \/ /\ ~Suppressed
             /\ n > 0
             /\ produced' \in 0 .. n - 1
             /\ Refuse("KafkaError")
  /\ UNCHANGED <<message, current, urlIndex, images, retry, plugin, waiting, answered, trace>>

-----------------------------------------------------------------------------

Process ==
  \/ GetPlugin
  \/ DownloadRequest
  \/ TraceSpaceRequest
  \/ GenerateUrlRequest
  \/ PicWait
  \/ BusinessSave
  \/ OutputKafka

Callback ==
  \/ HttpErrorProcess
  \/ ProcImageResponse
  \/ ProcTraceSpaceResponse
  \/ ProcGenerateUrlResponse

Next == Process \/ Callback

Spec == Init /\ [][Next]_vars

(* Fairness.  A worker takes the session from the queue (Pipeline says     *)
(* when) and its modules return; and it is assumed that a request is       *)
(* answered or fails (HttpClient!EndsUnlessMissed: unless a cancel misses) *)
FairSpec == Spec /\ WF_vars(Process) /\ WF_vars(Callback)

-----------------------------------------------------------------------------
(* Properties.                                                             *)

ErrCodes == {"none", "Success", "ProcTerminate", "KafkaError", "DownloadError",
             "HttpConnError", "MongoFailed"}

TypeOK ==
  /\ kind \in Kinds /\ urls \in 0 .. MaxUrls /\ replay \in BOOLEAN
  /\ chain \in Seq(Modules)
  /\ place \in {"queue", "http", "final"}
  /\ current \in HttpModules \cup {"none"}
  /\ place = "http" => current # "none"
  /\ urlIndex \in 0 .. urls
  /\ images \in Seq(1 .. MaxUrls) /\ answered \in Seq(1 .. MaxUrls)
  /\ retry \in 0 .. RetryTime
  /\ plugin \in Plugins
  /\ err \in ErrCodes
  /\ err # "none" <=> place = "final"
  /\ waiting \in BOOLEAN
  /\ done \subseteq Modules
  /\ refused \in BOOLEAN
  /\ produced \in 0 .. MaxTopics + 1 /\ expected \in 0 .. MaxTopics + 1
  /\ pushes \in Nat

(* Session::Process always finds a module: whatever AddChain, retries and  *)
(* repairProcChain did to the chain, no session is pushed with an empty    *)
(* one, which getModule would answer with NULL.                            *)
NeverWithoutModule == place = "queue" => chain # <<>>

(* Pictures are answered one by one in their order, each once: no failed   *)
(* request, with its RetreatUrl and AddChain, makes a session pass one     *)
(* over or ask for one again, and trace space gets the images in the order *)
(* of the urls.                                                            *)
EveryPictureOnce ==
  /\ \A i \in 1 .. Len(answered) : answered[i] = i
  /\ \A i, j \in 1 .. Len(images) : i < j => images[i] < images[j]
  /\ "TraceSpace" \in done => Len(answered) = urls

(* Trace space gets with each image the rectangle and the age of its own   *)
(* face, after any retries, unless an earlier picture came without a body: *)
(* then the numbers of images_ are no longer those of the faces.           *)
FaceOfItsImage ==
  \A i \in 1 .. Len(trace) :
    \A face \in {trace[i].rect, trace[i].age} \ {0, trace[i].image} :
      \E j \in 1 .. Len(answered) :
        /\ answered[j] < trace[i].image
        /\ \A k \in 1 .. Len(images) : images[k] # answered[j]

(* faces_[0] is read by GetSaveMongoData and makeKafkaRequest of captures, *)
(* and the Kafka message, which a parked session does not have, by the     *)
(* wait module: no chain of calls gets there without them.                 *)
DataPresent ==
  /\ chain # <<>> /\ place = "queue" /\ kind \in Captures
       /\ Head(chain) \in {"BusinessSave", "OutputKafka"} => urls > 0
  /\ chain # <<>> /\ place = "queue" /\ Head(chain) = "PicWait" => kind # "ParkedCapture"

Planned(k) == {ProcessChain(k)[i] : i \in 1 .. Len(ProcessChain(k))}

(* kSuccess means success: a session that ends with it, and is not parked, *)
(* has been through every module of its chain, and every message that      *)
(* makeKafkaRequest asked for is enqueued, unless it replays and no plugin *)
(* of its class asked for replays.                                         *)
SuccessMeansDone ==
  err = "Success" /\ ~waiting =>
    /\ Planned(kind) \subseteq done
    /\ ~Suppressed => produced = expected

(* A session fails only for a cause: something outside refused it, its     *)
(* message has no picture and needs one, or all pictures were asked for    *)
(* and none of the answers held an image.                                  *)
FailureHasCause ==
  err \notin {"none", "Success"} =>
    \/ refused
    \/ kind \in Captures /\ urls = 0
    \/ err = "DownloadError" /\ images = <<>> /\ Len(answered) = urls

(* PushMsg is called a bounded number of times for a session: once for     *)
(* each module, each further picture and each retry.  It is what Worker    *)
(* assumes of sessions.                                                    *)
PushBound == Len(ProcessChain(kind)) + urls + RetryTime

PushesBounded == pushes <= PushBound

(* Every session ends.                                                     *)
SessionEnds == <>(place = "final")

-----------------------------------------------------------------------------
(* The inductive invariant.                                                *)

(* The modules still to go through, with the one whose request is under    *)
(* way.                                                                    *)
Pending == IF place = "http" THEN <<current>> \o chain ELSE chain

Among(m, list) == \E i \in 1 .. Len(list) : list[i] = m

EndOf(list, whole) ==
  /\ Len(list) <= Len(whole)
  /\ \A i \in 1 .. Len(list) : list[i] = whole[Len(whole) - Len(list) + i]

(* AddChain puts in front only what was just taken from there, and         *)
(* repairProcChain appends once.                                           *)
ChainInOrder ==
  place # "final" =>
    \/ EndOf(Pending, ProcessChain(kind))
    \/ /\ kind \in {"BusinessFlow", "BusinessAttribute"}
       /\ EndOf(Pending, <<"BusinessSave", "OutputKafka">>)

Downloading == place = "http" /\ current = "DownloadImage"

(* Urls asked for are answered, but for one under way; the module is in    *)
(* the chain while there are urls left.                                    *)
Downloads ==
  place # "final" =>
    /\ Len(answered) = urlIndex - (IF Downloading THEN 1 ELSE 0)
    /\ kind \in Captures =>
         IF Among("DownloadImage", Pending)
         THEN Len(answered) < urls \/ urls = 0
         ELSE Len(answered) = urls /\ urls > 0

(* The images are those of the answers, or some answer had none.           *)
ImagesAnswered ==
  /\ \A i \in 1 .. Len(images) : images[i] <= Len(answered)
  /\ Len(images) = Len(answered) \/ \E u \in 1 .. Len(answered) : ~Among(u, images)
  /\ \A i \in 1 .. Len(images) :
       images[i] = i \/ \E u \in 1 .. Len(answered) : u < images[i] /\ ~Among(u, images)

TraceOfAll == trace # <<>> => Len(answered) = urls

Remaining ==
  place # "final" =>
    /\ \A m \in Planned(kind) : m \in done \/ Among(m, Pending)
    /\ produced = 0 /\ expected = 0

(* Each push uses up a module, a picture or a retry.                       *)
PushesLeft ==
  place # "final" =>
    pushes + Len(Pending) + (urls - Len(answered)) + retry
      <= PushBound + (IF Among("GetPlugin", Pending) THEN 0 ELSE 1)

IInv ==
  /\ TypeOK /\ NeverWithoutModule /\ ChainInOrder /\ Downloads
  /\ EveryPictureOnce /\ ImagesAnswered /\ TraceOfAll /\ FaceOfItsImage
  /\ Remaining /\ SuccessMeansDone /\ FailureHasCause /\ PushesLeft /\ PushesBounded

=============================================================================
