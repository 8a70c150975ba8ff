------------------------ MODULE ExtractorJobs_proofs ------------------------
(* Proofs about ExtractorJobs, for any jobs and any bounds. *)
EXTENDS ExtractorJobs, TLAPS

\* A reply that was sent says something.
SentOK == \A m \in Replies : place[m] # "unsent" <=> form[m] # "unsent"

\* A coroutine handles a reply of a form that was parsed.
CoroutinesOK == \A d \in Deliveries : handler[d].pc # "idle" => form[ReplyOf(d)] \in ParsedForms

\* A listener that starts has a connection left.
ListenerOK == listener = "insert" => connection < MaxConnections

TypeInv == TypeOK /\ SentOK /\ CoroutinesOK /\ ListenerOK

LEMMA ReplyParts == \A m \in Replies :
    /\ JobOf(m) \in Jobs
    /\ TimeOf(m) \in 1 .. MaxReplies
    /\ m = <<JobOf(m), TimeOf(m)>>
  BY DEF Replies, JobOf, TimeOf

LEMMA DeliveryParts == \A d \in Deliveries :
    /\ ReplyOf(d) \in Replies
    /\ ConnectionOf(d) \in 1 .. MaxConnections
  BY DEF Deliveries, ReplyOf, ConnectionOf

LEMMA TypeInit == Init => TypeInv
  BY BoundsAssumption DEF Init, TypeInv, TypeOK, SentOK, CoroutinesOK, ListenerOK,
     Idle, Coroutine, Statuses, Ids

LEMMA TypeSubmit ==
  ASSUME TypeInv, NEW j \in Jobs, SubmitStep(j) PROVE TypeInv'
<1> USE DEF TypeInv, TypeOK, SentOK, CoroutinesOK, ListenerOK, jobVars, idVars, replyVars,
            listenerVars, Statuses, Ids
<1>1. CASE Submit(j)
  BY <1>1 DEF Submit
<1>2. CASE FindReplyQueue(j)
  BY <1>2 DEF FindReplyQueue
<1>3. CASE MakeReplyQueue(j)
  BY <1>3 DEF MakeReplyQueue, InsertId
<1>4. CASE Publish(j)
  BY <1>4 DEF Publish
<1>5. CASE SubmitDies(j)
  BY <1>5 DEF SubmitDies
<1> QED
  BY <1>1, <1>2, <1>3, <1>4, <1>5 DEF SubmitStep

LEMMA TypeExtractor ==
  ASSUME TypeInv, NEW j \in Jobs, ExtractorStep(j) PROVE TypeInv'
<1> USE DEF TypeInv, TypeOK, SentOK, CoroutinesOK, ListenerOK, jobVars, idVars, replyVars,
            listenerVars
<1>1. CASE Take(j)
  BY <1>1 DEF Take
<1>2. CASE Reply(j)
  <2>1. PICK m \in Replies, s \in Forms :
           /\ place[m] = "unsent"
           /\ form' = [form EXCEPT ![m] = s]
           /\ place' = [place EXCEPT ![m] = "queued"]
           /\ request' = [request EXCEPT ![j] = IF s \in Final THEN "answered" ELSE "working"]
    BY <1>2 DEF Reply
  <2>2. s # "unsent" /\ "unsent" \notin ParsedForms
    BY FormsAssumption DEF AllForms, ParsedForms, Final
  <2>3. CoroutinesOK'
    BY <1>2, <2>1, <2>2, DeliveryParts DEF Reply
  <2> QED
    BY <1>2, <2>1, <2>2, <2>3 DEF Reply
<1>3. CASE ExtractorDone(j)
  BY <1>3 DEF ExtractorDone
<1>4. CASE ExtractorDies(j)
  BY <1>4 DEF ExtractorDies
<1> QED
  BY <1>1, <1>2, <1>3, <1>4 DEF ExtractorStep

LEMMA TypeListener ==
  ASSUME TypeInv, StartListener \/ Interruption PROVE TypeInv'
<1> USE DEF TypeInv, TypeOK, SentOK, CoroutinesOK, ListenerOK, jobVars, idVars, replyVars,
            clientVars, Consume, InsertId, Ids
<1>0. \A c \in 0 .. MaxConnections : c < MaxConnections => c + 1 \in 0 .. MaxConnections
  BY BoundsAssumption
<1>1. CASE ListenerFindsId
  BY <1>0, <1>1 DEF ListenerFindsId
<1>2. CASE ListenerMakesId
  BY <1>0, <1>2 DEF ListenerMakesId
<1>3. CASE ListenerDies
  BY <1>3 DEF ListenerDies, Requeued, Idle, Coroutine, Statuses
<1>4. CASE ConnectionLost
  BY <1>0, <1>4 DEF ConnectionLost, Requeued
<1>5. CASE BrokerRestarts
  BY <1>0, <1>5 DEF BrokerRestarts, Requeued
<1> QED
  BY <1>1, <1>2, <1>3, <1>4, <1>5 DEF StartListener, Interruption

\* What a coroutine keeps of a reply it has taken
LEMMA TypeReceive ==
  ASSUME TypeInv, NEW m \in Replies, Receive(m) \/ ReceiveFails(m) PROVE TypeInv'
<1> USE ReplyParts DEF TypeInv, TypeOK, SentOK, CoroutinesOK, ListenerOK, jobVars, idVars,
            clientVars, listenerVars, Deliverable
<1>1. CASE ReadJob(m)
  <2>1. form[m] \in ParsedForms
    BY <1>1, FormsAssumption DEF ReadJob, ReadAs, AllForms
  <2>2. CASE status[JobOf(m)] = "none"
    BY <1>1, <2>2 DEF ReadJob, ReadAs
  <2>3. CASE status[JobOf(m)] # "none"
    <3>1. [pc |-> "set", read |-> status[JobOf(m)]] \in Coroutine
      BY <2>3 DEF Coroutine
    <3>2. /\ handler' = [handler EXCEPT ![<<m, connection>>] = [pc |-> "set", read |-> status[JobOf(m)]]]
          /\ place' = [place EXCEPT ![m] = "delivered"]
          /\ UNCHANGED <<form, listener, connection>>
      BY <1>1, <2>3 DEF ReadJob, ReadAs
    <3>3. CoroutinesOK'
      BY <2>1, <3>2 DEF ReplyOf
    <3> QED
      BY <1>1, <2>3, <3>1, <3>2, <3>3 DEF ReadJob, ReadAs
  <2> QED
    BY <2>2, <2>3
<1>2. CASE RejectUnknownForm(m) \/ ReceiveFails(m)
  BY <1>2 DEF RejectUnknownForm, ReceiveFails
<1> QED
  BY <1>1, <1>2 DEF Receive

LEMMA TypeCallback ==
  ASSUME TypeInv, NEW d \in Deliveries, Callback(d) \/ CallbackFails(d) PROVE TypeInv'
<1> USE ReplyParts, DeliveryParts DEF TypeInv, TypeOK, SentOK, CoroutinesOK, ListenerOK,
            jobVars, idVars, clientVars, replyVars, listenerVars
<1>1. \A pc \in {"set", "insert", "ack"} : [handler[d] EXCEPT !.pc = pc] \in Coroutine
  BY DEF Coroutine
<1>2. CASE SetJob(d)
  <2>1. NewStatus(handler[d].read, form[ReplyOf(d)]) \in Statuses
    BY <1>2 DEF SetJob, NewStatus, Statuses, Coroutine
  <2>2. TimeOf(ReplyOf(d)) \in 0 .. MaxReplies
    BY BoundsAssumption
  <2>3. FinishedAt(JobOf(ReplyOf(d)), ReplyOf(d), form[ReplyOf(d)]) \in 0 .. MaxReplies
    BY <2>2 DEF FinishedAt
  <2>4. stale' \subseteq Jobs
    BY <1>2 DEF SetJob
  <2> QED
    BY <1>1, <1>2, <2>1, <2>2, <2>3, <2>4 DEF SetJob
<1>3. CASE InsertUpdate(d)
  BY <1>1, <1>3 DEF InsertUpdate
<1>4. CASE \E where \in {"acked", "rejected"} : Settle(d, where) /\ handler[d].pc # "idle"
  <2>1. PICK where \in {"acked", "rejected"} : Settle(d, where) /\ handler[d].pc # "idle"
    BY <1>4
  <2>2. Idle \in Coroutine /\ Idle.pc = "idle"
    BY DEF Idle, Coroutine, Statuses
  <2>3. place[ReplyOf(d)] # "unsent"
    BY <2>1, FormsAssumption DEF ParsedForms, Final
  <2> QED
    BY <2>1, <2>2, <2>3 DEF Settle
<1> QED
  BY <1>2, <1>3, <1>4 DEF Callback, CallbackFails, Acknowledge

LEMMA TypeNext == TypeInv /\ [Next]_vars => TypeInv'
<1> SUFFICES ASSUME TypeInv, [Next]_vars PROVE TypeInv'
  OBVIOUS
<1>1. CASE Next
  BY <1>1, TypeSubmit, TypeExtractor, TypeListener, TypeReceive, TypeCallback DEF Next
<1>2. CASE UNCHANGED vars
  BY <1>2 DEF vars, jobVars, idVars, clientVars, replyVars, listenerVars, TypeInv, TypeOK,
     SentOK, CoroutinesOK, ListenerOK
<1> QED
  BY <1>1, <1>2

LEMMA TypeInvariant == Spec => []TypeInv
  BY TypeInit, TypeNext, PTL DEF Spec

\* Every variable keeps its type: whatever the coroutines of the listener write is a status
\* of a job, a time or a reply that exists.
THEOREM JobsTypeCorrect == Spec => []TypeOK
<1>1. TypeInv => TypeOK
  BY DEF TypeInv
<1> QED
  BY <1>1, TypeInvariant, PTL

-----------------------------------------------------------------------------
\* The document of a job comes first, then its request, then the replies to it.
KnownOK ==
    /\ \A j \in Jobs : /\ submitter[j] = "idle" <=> status[j] = "none"
                       /\ request[j] # "none" => submitter[j] # "idle"
    /\ ReplyFindsItsJob

\* A job a coroutine is about to set has been submitted.
LEMMA HandledIsKnown ==
  ASSUME TypeInv, KnownOK, NEW d \in Deliveries, handler[d].pc # "idle"
  PROVE  /\ submitter[JobOf(ReplyOf(d))] # "idle"
         /\ status[JobOf(ReplyOf(d))] # "none"
<1>1. form[ReplyOf(d)] # "unsent"
  BY DEF TypeInv, CoroutinesOK, ParsedForms, Final
<1>2. place[ReplyOf(d)] # "unsent"
  BY <1>1, DeliveryParts DEF TypeInv, SentOK
<1> QED
  BY <1>2, DeliveryParts, ReplyParts DEF KnownOK, ReplyFindsItsJob

LEMMA KnownInit == Init => KnownOK
  BY DEF Init, KnownOK, ReplyFindsItsJob

LEMMA KnownNext == TypeInv /\ KnownOK /\ [Next]_vars => KnownOK'
<1> SUFFICES ASSUME TypeInv, KnownOK, [Next]_vars PROVE KnownOK'
  OBVIOUS
<1> USE ReplyParts, DeliveryParts DEF TypeInv, TypeOK, KnownOK, ReplyFindsItsJob,
            jobVars, idVars, clientVars, replyVars, listenerVars
<1>1. ASSUME NEW j \in Jobs, SubmitStep(j) PROVE KnownOK'
  BY <1>1 DEF SubmitStep, Submit, FindReplyQueue, MakeReplyQueue, Publish, SubmitDies
<1>2. ASSUME NEW j \in Jobs, ExtractorStep(j) PROVE KnownOK'
  BY <1>2 DEF ExtractorStep, Take, Reply, ExtractorDone, ExtractorDies
<1>3. CASE StartListener \/ Interruption
  BY <1>3 DEF StartListener, Interruption, ListenerFindsId, ListenerMakesId, ListenerDies,
     ConnectionLost, BrokerRestarts, Requeued, Consume
<1>4. ASSUME NEW m \in Replies, Receive(m) \/ ReceiveFails(m) PROVE KnownOK'
  BY <1>4 DEF Receive, ReadJob, ReadAs, RejectUnknownForm, ReceiveFails, Deliverable
<1>5. ASSUME NEW d \in Deliveries, SetJob(d) PROVE KnownOK'
  <2>1. form[ReplyOf(d)] # "none" /\ handler[d].read # "none"
    BY <1>5 DEF SetJob, CoroutinesOK, ParsedForms, Final, Coroutine, Statuses
  <2>2. submitter[JobOf(ReplyOf(d))] # "idle"
    BY <1>5, HandledIsKnown DEF SetJob
  <2> QED
    BY <1>5, <2>1, <2>2 DEF SetJob, NewStatus
<1>6. ASSUME NEW d \in Deliveries, InsertUpdate(d) PROVE KnownOK'
  BY <1>6 DEF InsertUpdate
<1>7. ASSUME NEW d \in Deliveries, handler[d].pc # "idle",
             NEW where \in {"acked", "rejected"}, Settle(d, where)
      PROVE  KnownOK'
  <2>1. place[ReplyOf(d)] # "unsent"
    BY <1>7 DEF SentOK, CoroutinesOK, ParsedForms, Final
  <2> QED
    BY <1>7, <2>1 DEF Settle
<1>8. CASE UNCHANGED vars
  BY <1>8 DEF vars
<1> QED
  BY <1>1, <1>2, <1>3, <1>4, <1>5, <1>6, <1>7, <1>8
  DEF Next, Callback, CallbackFails, Acknowledge

\* The listener never gets a reply to a job it cannot find, whatever crashes and whatever
\* is delivered twice.
THEOREM RepliesFindTheirJobs == Spec => []ReplyFindsItsJob
<1>1. KnownOK => ReplyFindsItsJob
  BY DEF KnownOK
<1> QED
  BY <1>1, KnownInit, KnownNext, TypeInvariant, PTL DEF Spec

-----------------------------------------------------------------------------
\* A coroutine that is about to acknowledge has inserted the update.
RecordedOK ==
    /\ AckedIsRecorded
    /\ \A d \in Deliveries : handler[d].pc = "ack" => updates[ReplyOf(d)] > 0

LEMMA RecordedNext == TypeInv /\ KnownOK /\ RecordedOK /\ [Next]_vars => RecordedOK'
<1> SUFFICES ASSUME TypeInv, KnownOK, RecordedOK, [Next]_vars PROVE RecordedOK'
  OBVIOUS
<1> USE ReplyParts, DeliveryParts DEF TypeInv, TypeOK, RecordedOK, AckedIsRecorded,
            jobVars, idVars, clientVars, replyVars, listenerVars
<1>1. ASSUME NEW j \in Jobs, SubmitStep(j) PROVE RecordedOK'
  BY <1>1 DEF SubmitStep, Submit, FindReplyQueue, MakeReplyQueue, Publish, SubmitDies
<1>2. ASSUME NEW j \in Jobs, ExtractorStep(j) PROVE RecordedOK'
  BY <1>2 DEF ExtractorStep, Take, Reply, ExtractorDone, ExtractorDies
<1>3. CASE StartListener \/ Interruption
  BY <1>3 DEF StartListener, Interruption, ListenerFindsId, ListenerMakesId, ListenerDies,
     ConnectionLost, BrokerRestarts, Requeued, Consume, Idle
<1>4. ASSUME NEW m \in Replies, Receive(m) \/ ReceiveFails(m) PROVE RecordedOK'
  <2>1. status[JobOf(m)] # "none"
    BY <1>4 DEF KnownOK, ReplyFindsItsJob, Receive, ReadJob, ReadAs, RejectUnknownForm, ReceiveFails,
       Deliverable
  <2>2. CASE ReadJob(m)
    <3>1. /\ handler' = [handler EXCEPT ![<<m, connection>>] = [pc |-> "set", read |-> status[JobOf(m)]]]
          /\ place' = [place EXCEPT ![m] = "delivered"]
          /\ UNCHANGED updates
      BY <2>1, <2>2 DEF ReadJob, ReadAs
    <3>2. AckedIsRecorded'
      BY <3>1
    <3>3. ASSUME NEW d \in Deliveries, handler'[d].pc = "ack" PROVE updates[ReplyOf(d)] > 0
      <4>1. d # <<m, connection>>
        BY <3>1, <3>3
      <4> QED
        BY <3>1, <3>3, <4>1
    <3> QED
      BY <3>1, <3>2, <3>3
  <2>3. CASE RejectUnknownForm(m) \/ ReceiveFails(m)
    BY <2>1, <2>3 DEF RejectUnknownForm, ReceiveFails
  <2> QED
    BY <1>4, <2>2, <2>3 DEF Receive
<1>5. ASSUME NEW d \in Deliveries, SetJob(d) PROVE RecordedOK'
  BY <1>5 DEF SetJob
<1>6. ASSUME NEW d \in Deliveries, InsertUpdate(d) PROVE RecordedOK'
  BY <1>6 DEF InsertUpdate
<1>7. ASSUME NEW d \in Deliveries, Acknowledge(d) \/ CallbackFails(d) PROVE RecordedOK'
  BY <1>7 DEF Acknowledge, CallbackFails, Settle, Idle
<1>8. CASE UNCHANGED vars
  BY <1>8 DEF vars
<1> QED
  BY <1>1, <1>2, <1>3, <1>4, <1>5, <1>6, <1>7, <1>8 DEF Next, Callback

\* A reply the broker was told to forget is in the updates of its job: crashes, lost
\* connections and restarts of the broker may repeat a reply but lose none it still had.
THEOREM AckedRepliesAreRecorded == Spec => []AckedIsRecorded
<1>1. Init => RecordedOK
  BY DEF Init, RecordedOK, AckedIsRecorded, Idle
<1>2. RecordedOK => AckedIsRecorded
  BY DEF RecordedOK
<1> QED
  BY <1>1, <1>2, RecordedNext, KnownInit, KnownNext, TypeInvariant, PTL DEF Spec

-----------------------------------------------------------------------------
\* The time of the end of a job is that of a final reply.
TimedOK(j) == finished[j] # 0 /\ form[<<j, finished[j]>>] \in Final

FinishedOK ==
    /\ \A j \in Jobs : status[j] \in Final => TimedOK(j)
    /\ \A d \in Deliveries : handler[d].pc = "set" /\ handler[d].read \in Final =>
           TimedOK(JobOf(ReplyOf(d)))

LEMMA FinishedNext == TypeInv /\ FinishedOK /\ [Next]_vars => FinishedOK'
<1> SUFFICES ASSUME TypeInv, FinishedOK, [Next]_vars PROVE FinishedOK'
  OBVIOUS
<1> USE ReplyParts, DeliveryParts DEF TypeInv, TypeOK, FinishedOK, TimedOK,
            jobVars, idVars, clientVars, replyVars, listenerVars
<1>1. ASSUME NEW j \in Jobs, SubmitStep(j) PROVE FinishedOK'
  BY <1>1 DEF SubmitStep, Submit, FindReplyQueue, MakeReplyQueue, Publish, SubmitDies, Final
<1>2. ASSUME NEW j \in Jobs, ExtractorStep(j) PROVE FinishedOK'
  <2>1. CASE Reply(j)
    <3>1. PICK m \in Replies, s \in Forms :
             place[m] = "unsent" /\ form' = [form EXCEPT ![m] = s]
      BY <2>1 DEF Reply
    <3>2. form[m] \notin Final
      BY <3>1 DEF SentOK, Final
    <3>3. ASSUME NEW i \in Jobs, TimedOK(i) PROVE TimedOK(i)'
      <4> DEFINE n == <<i, finished[i]>>
      <4>1. n \in Replies
        BY <3>3 DEF Replies
      <4>2. n # m
        BY <3>2, <3>3
      <4>3. form'[n] = form[n]
        BY <3>1, <4>1, <4>2
      <4>4. finished' = finished
        BY <2>1 DEF Reply
      <4> QED
        BY <3>3, <4>3, <4>4
    <3> QED
      BY <2>1, <3>3 DEF Reply
  <2> QED
    BY <1>2, <2>1 DEF ExtractorStep, Take, ExtractorDone, ExtractorDies
<1>3. CASE StartListener \/ Interruption
  BY <1>3 DEF StartListener, Interruption, ListenerFindsId, ListenerMakesId, ListenerDies,
     ConnectionLost, BrokerRestarts, Consume, Idle
<1>4. ASSUME NEW m \in Replies, Receive(m) \/ ReceiveFails(m) PROVE FinishedOK'
  <2>1. CASE ReadJob(m) /\ handler' # handler
    <3>1. /\ handler' = [handler EXCEPT ![<<m, connection>>] = [pc |-> "set", read |-> status[JobOf(m)]]]
          /\ UNCHANGED <<status, finished, form>>
      BY <2>1 DEF ReadJob, ReadAs
    <3>2. ASSUME NEW d \in Deliveries, handler'[d].pc = "set", handler'[d].read \in Final
          PROVE  TimedOK(JobOf(ReplyOf(d)))
      <4>1. CASE d = <<m, connection>>
        BY <3>1, <3>2, <4>1 DEF ReplyOf
      <4>2. CASE d # <<m, connection>>
        BY <3>1, <3>2, <4>2
      <4> QED
        BY <4>1, <4>2
    <3> QED
      BY <3>1, <3>2
  <2> QED
    BY <1>4, <2>1 DEF Receive, ReadJob, ReadAs, RejectUnknownForm, ReceiveFails
<1>5. ASSUME NEW d \in Deliveries, SetJob(d) PROVE FinishedOK'
  <2> DEFINE m == ReplyOf(d)
             j == JobOf(m)
  <2>1. CASE form[m] \in Final
    <3>0. m \in Replies /\ j \in Jobs /\ m = <<j, TimeOf(m)>>
      OBVIOUS
    <3>2. TimeOf(m) # 0
      BY <3>0, BoundsAssumption
    <3>3. finished' = [finished EXCEPT ![j] = TimeOf(m)] /\ form' = form
      BY <1>5, <2>1 DEF SetJob, FinishedAt
    <3>4. form'[<<j, TimeOf(m)>>] \in Final
      BY <2>1, <3>0, <3>3
    <3>1. finished'[j] = TimeOf(m) /\ TimeOf(m) # 0 /\ form'[<<j, TimeOf(m)>>] \in Final
      BY <3>0, <3>2, <3>3, <3>4
    <3> QED
      BY <1>5, <3>1 DEF SetJob
  <2>2. CASE form[m] \notin Final
    <3>1. finished' = finished /\ form' = form
      BY <1>5, <2>2 DEF SetJob, FinishedAt
    <3>2. status'[j] \in Final => TimedOK(j)
      BY <1>5, <2>2 DEF SetJob, NewStatus
    <3>3. ASSUME NEW i \in Jobs, status'[i] \in Final PROVE TimedOK(i)'
      <4>1. CASE i = j
        BY <3>1, <3>2, <3>3, <4>1
      <4>2. CASE i # j
        BY <1>5, <3>1, <3>3, <4>2 DEF SetJob
      <4> QED
        BY <4>1, <4>2
    <3>4. ASSUME NEW e \in Deliveries, handler'[e].pc = "set", handler'[e].read \in Final
          PROVE  TimedOK(JobOf(ReplyOf(e)))'
      <4>1. e # d /\ handler'[e] = handler[e]
        BY <1>5, <3>4 DEF SetJob
      <4> QED
        BY <3>1, <3>4, <4>1
    <3> QED
      BY <3>3, <3>4
  <2> QED
    BY <2>1, <2>2
<1>6. ASSUME NEW d \in Deliveries, InsertUpdate(d) PROVE FinishedOK'
  BY <1>6 DEF InsertUpdate
<1>7. ASSUME NEW d \in Deliveries, Acknowledge(d) \/ CallbackFails(d) PROVE FinishedOK'
  BY <1>7 DEF Acknowledge, CallbackFails, Settle, Idle
<1>8. CASE UNCHANGED vars
  BY <1>8 DEF vars
<1> QED
  BY <1>1, <1>2, <1>3, <1>4, <1>5, <1>6, <1>7, <1>8 DEF Next, Callback

\* A job with a final status says when it ended, and a final reply said so, in whatever
\* order the coroutines store what they read.
THEOREM FinalJobsAreTimed == Spec => []FinalIsTimed
<1>1. Init => FinishedOK
  BY DEF Init, FinishedOK, Idle, Final
<1>2. FinishedOK => FinalIsTimed
  BY DEF FinishedOK, FinalIsTimed, TimedOK
<1> QED
  BY <1>1, <1>2, FinishedNext, TypeInvariant, PTL DEF Spec

-----------------------------------------------------------------------------
\* A coroutine that read a final status read the one the job still has, unless another
\* coroutine overwrote it with an older decision.
FreshOK == \A d \in Deliveries :
    handler[d].pc = "set" /\ handler[d].read \in Final =>
        JobOf(ReplyOf(d)) \in stale \/ status[JobOf(ReplyOf(d))] = handler[d].read

LEMMA FreshNext == TypeInv /\ KnownOK /\ FreshOK /\ [Next]_vars => FreshOK'
<1> SUFFICES ASSUME TypeInv, KnownOK, FreshOK, [Next]_vars PROVE FreshOK'
  OBVIOUS
<1> USE ReplyParts, DeliveryParts DEF TypeInv, TypeOK, FreshOK,
            jobVars, idVars, clientVars, replyVars, listenerVars
<1>1. ASSUME NEW j \in Jobs, SubmitStep(j) PROVE FreshOK'
  <2>1. CASE Submit(j)
    <3>1. ASSUME NEW d \in Deliveries, handler[d].pc = "set" PROVE JobOf(ReplyOf(d)) # j
      BY <2>1, <3>1, HandledIsKnown DEF Submit
    <3> QED
      BY <2>1, <3>1 DEF Submit
  <2> QED
    BY <1>1, <2>1 DEF SubmitStep, FindReplyQueue, MakeReplyQueue, Publish, SubmitDies
<1>2. ASSUME NEW j \in Jobs, ExtractorStep(j) PROVE FreshOK'
  BY <1>2 DEF ExtractorStep, Take, Reply, ExtractorDone, ExtractorDies
<1>3. CASE StartListener \/ Interruption
  BY <1>3 DEF StartListener, Interruption, ListenerFindsId, ListenerMakesId, ListenerDies,
     ConnectionLost, BrokerRestarts, Consume, Idle
<1>4. ASSUME NEW m \in Replies, Receive(m) \/ ReceiveFails(m) PROVE FreshOK'
  <2>1. CASE ReadJob(m) /\ handler' # handler
    <3>1. /\ handler' = [handler EXCEPT ![<<m, connection>>] = [pc |-> "set", read |-> status[JobOf(m)]]]
          /\ UNCHANGED <<status, stale>>
      BY <2>1 DEF ReadJob, ReadAs
    <3> QED
      BY <3>1 DEF ReplyOf
  <2> QED
    BY <1>4, <2>1 DEF Receive, ReadJob, ReadAs, RejectUnknownForm, ReceiveFails
<1>5. ASSUME NEW d \in Deliveries, SetJob(d) PROVE FreshOK'
  BY <1>5 DEF SetJob, NewStatus
<1>6. ASSUME NEW d \in Deliveries, InsertUpdate(d) PROVE FreshOK'
  BY <1>6 DEF InsertUpdate
<1>7. ASSUME NEW d \in Deliveries, Acknowledge(d) \/ CallbackFails(d) PROVE FreshOK'
  <2>1. /\ handler' = [handler EXCEPT ![d] = Idle]
        /\ UNCHANGED <<status, stale>>
    BY <1>7 DEF Acknowledge, CallbackFails, Settle
  <2>2. Idle.pc # "set"
    BY DEF Idle
  <2>3. ASSUME NEW e \in Deliveries, handler'[e].pc = "set"
        PROVE  handler'[e] = handler[e]
    BY <2>1, <2>2, <2>3
  <2> QED
    BY <2>1, <2>3
<1>8. CASE UNCHANGED vars
  BY <1>8 DEF vars
<1> QED
  BY <1>1, <1>2, <1>3, <1>4, <1>5, <1>6, <1>7, <1>8 DEF Next, Callback

\* A reply read after the final status was stored does not change it; only a coroutine
\* that had read an earlier status can.
THEOREM LateRepliesKeepStatus == Spec => LateReplyKeepsStatus
<1> DEFINE Kept(j) == status[j] \in Final /\ status'[j] # status[j] => j \in stale'
<1>1. Init => FreshOK
  BY DEF Init, FreshOK, Idle, Final
<1>2. ASSUME TypeInv, KnownOK, FreshOK, [Next]_vars, NEW j \in Jobs PROVE Kept(j)
  <2> USE ReplyParts, DeliveryParts DEF TypeInv, TypeOK, jobVars, idVars, clientVars,
              replyVars, listenerVars
  <2>1. ASSUME NEW d \in Deliveries, SetJob(d) PROVE Kept(j)
    BY <1>2, <2>1 DEF SetJob, NewStatus, FreshOK
  <2>2. ASSUME NEW i \in Jobs, Submit(i) PROVE Kept(j)
    <3>1. status[i] = "none"
      BY <1>2, <2>2 DEF Submit, KnownOK
    <3> QED
      BY <2>2, <3>1 DEF Submit, Final
  <2>3. CASE UNCHANGED status
    BY <2>3
  <2> QED
    BY <1>2, <2>1, <2>2, <2>3
    DEF Next, SubmitStep, FindReplyQueue, MakeReplyQueue, Publish, SubmitDies,
        ExtractorStep, Take, Reply, ExtractorDone, ExtractorDies, StartListener, Interruption,
        ListenerFindsId, ListenerMakesId, ListenerDies, ConnectionLost, BrokerRestarts,
        Receive, ReadJob, ReadAs, RejectUnknownForm, ReceiveFails, Callback, InsertUpdate,
        Acknowledge,
        CallbackFails, Settle, vars
<1>3. TypeInv /\ KnownOK /\ FreshOK /\ [Next]_vars => [\A j \in Jobs : Kept(j)]_vars
  BY <1>2
<1> QED
  BY <1>1, <1>3, FreshNext, KnownInit, KnownNext, TypeInvariant, PTL DEF Spec, LateReplyKeepsStatus

-----------------------------------------------------------------------------
\* A coroutine of this connection is there for each delivered reply and for no other, none of
\* a later connection; without a connection nothing is delivered.
HandledOK ==
    /\ listener = "up" => connection > 0
    /\ \A d \in Deliveries :
           /\ ConnectionOf(d) > connection => handler[d].pc = "idle"
           /\ ConnectionOf(d) = connection =>
                  (handler[d].pc # "idle" <=> place[ReplyOf(d)] = "delivered")
    /\ listener # "up" => \A m \in Replies : place[m] # "delivered"

LEMMA HandledNext == TypeInv /\ HandledOK /\ [Next]_vars => HandledOK'
<1> SUFFICES ASSUME TypeInv, HandledOK, [Next]_vars PROVE HandledOK'
  OBVIOUS
<1> USE ReplyParts, DeliveryParts DEF TypeInv, TypeOK, HandledOK, jobVars, idVars, clientVars,
            replyVars, listenerVars
<1>0. connection \in Nat /\ \A d \in Deliveries : ConnectionOf(d) \in Nat \ {0}
  BY BoundsAssumption
<1>1. ASSUME NEW j \in Jobs, SubmitStep(j) PROVE HandledOK'
  BY <1>1 DEF SubmitStep, Submit, FindReplyQueue, MakeReplyQueue, Publish, SubmitDies
<1>2. ASSUME NEW j \in Jobs, ExtractorStep(j) PROVE HandledOK'
  <2>1. CASE Reply(j)
    <3>1. PICK m \in Replies : place[m] = "unsent" /\ place' = [place EXCEPT ![m] = "queued"]
      BY <2>1 DEF Reply
    <3>2. \A n \in Replies : place'[n] = "delivered" <=> place[n] = "delivered"
      BY <3>1
    <3>3. UNCHANGED <<listener, connection, handler>>
      BY <2>1 DEF Reply
    <3> QED
      BY <3>2, <3>3
  <2> QED
    BY <1>2, <2>1 DEF ExtractorStep, Take, ExtractorDone, ExtractorDies
\* A new connection: no coroutine is its own yet, and nothing is delivered on it.
<1>3. ASSUME connection' = connection + 1,
             \A m \in Replies : place'[m] # "delivered",
             UNCHANGED handler
      PROVE  HandledOK'
  <2>1. \A d \in Deliveries : ConnectionOf(d) >= connection' => ConnectionOf(d) > connection
    BY <1>0, <1>3
  <2>2. \A d \in Deliveries : ConnectionOf(d) >= connection' => handler'[d].pc = "idle"
    BY <1>3, <2>1
  <2> QED
    BY <1>0, <1>3, <2>2
<1>4. \A m \in Replies : Requeued[m] # "delivered"
  BY DEF Requeued
<1>5. CASE StartListener
  <2>1. CASE listener' = "up"
    <3>1. connection' = connection + 1 /\ UNCHANGED <<place, handler>>
      BY <1>5, <2>1 DEF StartListener, ListenerFindsId, ListenerMakesId, Consume
    <3>2. \A m \in Replies : place'[m] # "delivered"
      BY <1>5, <3>1 DEF StartListener, ListenerFindsId, ListenerMakesId
    <3> QED
      BY <1>3, <3>1, <3>2
  <2>2. CASE listener' # "up"
    BY <1>5, <2>2 DEF StartListener, ListenerFindsId, ListenerMakesId, Consume
  <2> QED
    BY <2>1, <2>2
<1>6. CASE ListenerDies
  <2>1. \A d \in Deliveries : handler'[d].pc = "idle"
    BY <1>6 DEF ListenerDies, Idle
  <2>2. \A m \in Replies : place'[m] # "delivered"
    BY <1>4, <1>6 DEF ListenerDies
  <2>3. listener' = "down"
    BY <1>6 DEF ListenerDies
  <2> QED
    BY <2>1, <2>2, <2>3
<1>7. CASE ConnectionLost
  BY <1>3, <1>4, <1>7 DEF ConnectionLost
<1>8. CASE BrokerRestarts
  <2>1. PICK lost \in SUBSET Replies :
           place' = [m \in Replies |-> IF m \in lost THEN "lost" ELSE Requeued[m]]
    BY <1>8 DEF BrokerRestarts
  <2>2. \A m \in Replies : place'[m] # "delivered"
    BY <1>4, <2>1
  <2> QED
    BY <1>3, <1>8, <2>2 DEF BrokerRestarts
<1>9. ASSUME NEW m \in Replies, Receive(m) \/ ReceiveFails(m) PROVE HandledOK'
  <2>1. place[m] = "queued" /\ listener = "up" /\ UNCHANGED <<listener, connection>>
    BY <1>9 DEF Receive, ReadJob, ReadAs, RejectUnknownForm, ReceiveFails, Deliverable
  <2>2. CASE ReadJob(m) /\ status[JobOf(m)] # "none"
    <3>1. /\ handler' = [handler EXCEPT ![<<m, connection>>] =
                           [pc |-> "set", read |-> status[JobOf(m)]]]
          /\ place' = [place EXCEPT ![m] = "delivered"]
      BY <2>2 DEF ReadJob, ReadAs
    <3>2. ASSUME NEW d \in Deliveries, d # <<m, connection>>, ConnectionOf(d) = connection
          PROVE  ReplyOf(d) # m
      BY <3>2 DEF Deliveries, ReplyOf, ConnectionOf
    <3> QED
      BY <2>1, <3>1, <3>2 DEF ReplyOf, ConnectionOf
  <2>3. CASE RejectUnknownForm(m) \/ ReceiveFails(m) \/ status[JobOf(m)] = "none"
    <3>1. PICK where \in {"acked", "rejected"} : place' = [place EXCEPT ![m] = where]
      BY <1>9, <2>3 DEF Receive, ReadJob, ReadAs, RejectUnknownForm, ReceiveFails
    <3>2. handler' = handler
      BY <1>9, <2>3 DEF Receive, ReadJob, ReadAs, RejectUnknownForm, ReceiveFails
    <3> QED
      BY <2>1, <3>1, <3>2
  <2> QED
    BY <1>9, <2>2, <2>3 DEF Receive
<1>10. ASSUME NEW d \in Deliveries, SetJob(d) \/ InsertUpdate(d) PROVE HandledOK'
  <2>1. PICK pc \in {"insert", "ack"} : handler' = [handler EXCEPT ![d].pc = pc]
    BY <1>10 DEF SetJob, InsertUpdate
  <2>2. handler[d].pc # "idle" /\ UNCHANGED <<place, listener, connection>>
    BY <1>10 DEF SetJob, InsertUpdate
  <2>3. handler[d] \in Coroutine
    OBVIOUS
  <2>4. handler'[d].pc # "idle" /\ \A e \in Deliveries \ {d} : handler'[e] = handler[e]
    BY <2>1, <2>3 DEF Coroutine
  <2> QED
    BY <2>2, <2>4
<1>11. ASSUME NEW d \in Deliveries, handler[d].pc # "idle",
              NEW where \in {"acked", "rejected"}, Settle(d, where)
       PROVE  HandledOK'
  <2>1. /\ handler' = [handler EXCEPT ![d] = Idle]
        /\ UNCHANGED <<listener, connection>>
    BY <1>11 DEF Settle
  <2>2. handler'[d].pc = "idle" /\ \A e \in Deliveries \ {d} : handler'[e] = handler[e]
    BY <2>1 DEF Idle
  <2>3. CASE ConnectionOf(d) = connection
    <3>1. place' = [place EXCEPT ![ReplyOf(d)] = where]
      BY <1>11, <2>3 DEF Settle
    <3>2. ASSUME NEW e \in Deliveries \ {d}, ConnectionOf(e) = connection
          PROVE  ReplyOf(e) # ReplyOf(d)
      BY <2>3, <3>2 DEF Deliveries, ReplyOf, ConnectionOf
    <3>3. \A e \in Deliveries \ {d} : ConnectionOf(e) = connection =>
              (handler'[e].pc # "idle" <=> place'[ReplyOf(e)] = "delivered")
      BY <2>2, <3>1, <3>2
    <3>4. place'[ReplyOf(d)] # "delivered"
      BY <3>1
    <3>5. \A m \in Replies : place'[m] = "delivered" => place[m] = "delivered"
      BY <3>1
    <3> QED
      BY <2>1, <2>2, <3>3, <3>4, <3>5
  <2>4. CASE ConnectionOf(d) # connection
    <3>1. place' = place
      BY <1>11, <2>4 DEF Settle
    <3> QED
      BY <2>1, <2>2, <2>4, <3>1
  <2> QED
    BY <2>3, <2>4
<1>12. CASE UNCHANGED vars
  BY <1>12 DEF vars
<1> QED
  BY <1>1, <1>2, <1>5, <1>6, <1>7, <1>8, <1>9, <1>10, <1>11, <1>12
  DEF Next, Interruption, Callback, CallbackFails, Acknowledge

\* The broker waits for exactly what this connection's coroutines handle, for any number of
\* jobs, replies, lost connections and restarts.
THEOREM DeliveredRepliesAreHandled == Spec => []DeliveredIsHandled
<1>1. Init => HandledOK
  BY DeliveryParts DEF Init, HandledOK, Idle
<1>2. TypeInv /\ HandledOK => DeliveredIsHandled
  <2> SUFFICES ASSUME TypeInv, HandledOK, NEW m \in Replies
               PROVE  place[m] = "delivered" <=> connection > 0 /\ handler[<<m, connection>>].pc # "idle"
    BY DEF DeliveredIsHandled
  <2>1. connection \in 0 .. MaxConnections /\ (place[m] = "delivered" => connection > 0)
    BY DEF TypeInv, TypeOK, HandledOK
  <2>2. CASE connection > 0
    <3>1. <<m, connection>> \in Deliveries
      BY <2>1, <2>2, BoundsAssumption DEF Deliveries
    <3> QED
      BY <2>2, <3>1 DEF HandledOK, ReplyOf, ConnectionOf
  <2> QED
    BY <2>1, <2>2
<1> QED
  BY <1>1, <1>2, HandledNext, TypeInvariant, PTL DEF Spec

-----------------------------------------------------------------------------
\* The count-down of a reply.
Nearer(m) ==
    \/ place'[m] \in {"acked", "rejected", "lost"}
    \/ Remaining(m)' < Remaining(m)
    \/ /\ UNCHANGED <<place[m], listener, connection>>
       /\ place[m] = "delivered" => UNCHANGED handler[<<m, connection>>]

LEMMA StageType == \A m \in Replies : Stage(m) \in 1 .. 7 /\ Stage(m)' \in 1 .. 7
<1> TAKE m \in Replies
<1>1. Stage(m) \in 1 .. 7
  BY DEF Stage
<1>2. Stage(m)' \in 1 .. 7
  BY DEF Stage
<1> QED
  BY <1>1, <1>2

\* A connection more outweighs every stage.
LEMMA NextConnection ==
  ASSUME TypeInv, NEW m \in Replies, connection < MaxConnections, connection' = connection + 1
  PROVE  Nearer(m)
<1>1. Stage(m) \in 1 .. 7 /\ Stage(m)' \in 1 .. 7
  BY StageType
<1>2. connection \in Nat /\ MaxConnections \in Nat
  BY BoundsAssumption DEF TypeInv, TypeOK
<1>3. Remaining(m)' < Remaining(m)
  BY <1>1, <1>2 DEF Remaining
<1> QED
  BY <1>3 DEF Nearer

LEMMA SameConnection ==
  ASSUME TypeInv, NEW m \in Replies, connection' = connection, Stage(m)' < Stage(m)
  PROVE  Nearer(m)
<1>1. Stage(m) \in 1 .. 7 /\ Stage(m)' \in 1 .. 7
  BY StageType
<1>2. connection \in Nat /\ MaxConnections \in Nat
  BY BoundsAssumption DEF TypeInv, TypeOK
<1>3. Remaining(m)' < Remaining(m)
  BY <1>1, <1>2 DEF Remaining
<1> QED
  BY <1>3 DEF Nearer

\* The start of the listener, and what interrupts it.
LEMMA ListenerNearer ==
  ASSUME TypeInv, NEW m \in Replies, StartListener \/ Interruption PROVE Nearer(m)
<1>1. CASE ListenerFindsId /\ firstId = NoId
  <2>1. listener = "down" /\ listener' = "insert" /\ connection' = connection
    BY <1>1 DEF ListenerFindsId
  <2>2. Stage(m) = 2 /\ Stage(m)' = 1
    BY <2>1 DEF Stage
  <2> QED
    BY <2>1, <2>2, SameConnection
<1>2. CASE ListenerDies
  <2>1. listener = "up" /\ listener' = "down" /\ connection' = connection
    BY <1>2 DEF ListenerDies, listenerVars
  <2>2. Stage(m)' = 2
    BY <2>1 DEF Stage
  <2>3. Stage(m) > 2
    <3>1. CASE place[m] = "delivered"
      BY <2>1, <3>1 DEF Stage
    <3>2. CASE place[m] # "delivered"
      BY <2>1, <3>2 DEF Stage
    <3> QED
      BY <3>1, <3>2
  <2> QED
    BY <2>1, <2>2, <2>3, StageType, SameConnection
<1>3. CASE \/ ListenerFindsId /\ firstId # NoId
           \/ ListenerMakesId \/ ConnectionLost \/ BrokerRestarts
  <2>1. connection < MaxConnections /\ connection' = connection + 1
    BY <1>3 DEF ListenerFindsId, ListenerMakesId, Consume, ConnectionLost, BrokerRestarts,
       TypeInv, ListenerOK
  <2> QED
    BY <2>1, NextConnection
<1> QED
  BY <1>1, <1>2, <1>3 DEF StartListener, Interruption

LEMMA ReceiveNearer ==
  ASSUME TypeInv, HandledOK, NEW m \in Replies, NEW n \in Replies,
         Receive(n) \/ ReceiveFails(n)
  PROVE  Nearer(m)
<1>1. /\ place[n] = "queued" /\ listener = "up" /\ UNCHANGED <<listener, connection>>
      /\ connection \in 1 .. MaxConnections
  BY BoundsAssumption DEF Receive, ReadJob, ReadAs, RejectUnknownForm, ReceiveFails, Deliverable,
     listenerVars,
     TypeInv, TypeOK, HandledOK
<1>2. <<n, connection>> \in Deliveries
  BY <1>1 DEF Deliveries
<1>3. CASE ReadJob(n) /\ status[JobOf(n)] # "none"
  <2>1. /\ handler' = [handler EXCEPT ![<<n, connection>>] =
                         [pc |-> "set", read |-> status[JobOf(n)]]]
        /\ place' = [place EXCEPT ![n] = "delivered"]
    BY <1>3 DEF ReadJob, ReadAs
  <2>2. CASE m = n
    <3>1. place'[m] = "delivered" /\ handler'[<<m, connection'>>].pc = "set"
      BY <1>1, <1>2, <2>1, <2>2 DEF TypeInv, TypeOK
    <3>2. Stage(m) = 7
      BY <1>1, <2>2 DEF Stage
    <3>3. Stage(m)' = 6
      BY <1>1, <3>1 DEF Stage
    <3> QED
      BY <1>1, <3>2, <3>3, SameConnection
  <2>3. CASE m # n
    BY <1>1, <2>1, <2>3 DEF Nearer, TypeInv, TypeOK
  <2> QED
    BY <2>2, <2>3
<1>4. CASE RejectUnknownForm(n) \/ ReceiveFails(n) \/ status[JobOf(n)] = "none"
  <2>1. PICK where \in {"acked", "rejected"} : place' = [place EXCEPT ![n] = where]
    BY <1>4 DEF Receive, ReadJob, ReadAs, RejectUnknownForm, ReceiveFails
  <2>2. handler' = handler
    BY <1>4 DEF Receive, ReadJob, ReadAs, RejectUnknownForm, ReceiveFails
  <2> QED
    BY <1>1, <2>1, <2>2 DEF Nearer, TypeInv, TypeOK
<1> QED
  BY <1>3, <1>4 DEF Receive

\* A coroutine of another reply or of an earlier connection does nothing to a reply; the one that
\* has it goes on to the next store operation, or settles it.
LEMMA CallbackNearer ==
  ASSUME TypeInv, HandledOK, NEW m \in Replies, place[m] \in {"queued", "delivered"},
         NEW d \in Deliveries, Callback(d) \/ CallbackFails(d)
  PROVE  Nearer(m)
<1>1. handler[d].pc # "idle" /\ UNCHANGED <<listener, connection>>
  BY DEF Callback, CallbackFails, SetJob, InsertUpdate, Acknowledge, Settle, listenerVars
<1>2. /\ d = <<ReplyOf(d), ConnectionOf(d)>> /\ ReplyOf(d) \in Replies
      /\ ConnectionOf(d) \in 1 .. MaxConnections
  BY DEF Deliveries, ReplyOf, ConnectionOf
<1>3. CASE d = <<m, connection>>
  <2>1. ReplyOf(d) = m /\ ConnectionOf(d) = connection
    BY <1>3 DEF ReplyOf, ConnectionOf
  <2>2. place[m] = "delivered" /\ listener = "up"
    BY <1>1, <2>1 DEF HandledOK, TypeInv, TypeOK
  <2>3. CASE SetJob(d) \/ InsertUpdate(d)
    <3>1. /\ place' = place
          /\ \/ /\ handler[d].pc = "set" /\ handler' = [handler EXCEPT ![d].pc = "insert"]
             \/ /\ handler[d].pc = "insert" /\ handler' = [handler EXCEPT ![d].pc = "ack"]
      BY <2>3 DEF SetJob, InsertUpdate, replyVars
    <3>2. handler \in [Deliveries -> Coroutine] /\ handler[d] \in Coroutine
      BY DEF TypeInv, TypeOK
    <3>3. \/ handler[d].pc = "set" /\ handler'[d].pc = "insert"
          \/ handler[d].pc = "insert" /\ handler'[d].pc = "ack"
      BY <3>1, <3>2 DEF Coroutine
    <3>4. Stage(m) = IF handler[d].pc = "set" THEN 6 ELSE 5
      BY <1>3, <2>2, <3>3 DEF Stage
    <3>5. Stage(m)' = IF handler'[d].pc = "insert" THEN 5 ELSE 4
      BY <1>1, <1>3, <2>2, <3>1, <3>3 DEF Stage
    <3>6. Stage(m)' < Stage(m)
      BY <3>3, <3>4, <3>5
    <3> QED
      BY <1>1, <3>6, SameConnection
  <2>4. CASE Acknowledge(d) \/ CallbackFails(d)
    <3>1. PICK where \in {"acked", "rejected"} : Settle(d, where)
      BY <2>4 DEF Acknowledge, CallbackFails
    <3>2. place'[m] = where
      BY <2>1, <3>1 DEF Settle, TypeInv, TypeOK
    <3> QED
      BY <3>1, <3>2 DEF Nearer
  <2> QED
    BY <2>3, <2>4 DEF Callback
<1>4. CASE d # <<m, connection>>
  <2>1. place'[m] = place[m]
    <3>1. CASE SetJob(d) \/ InsertUpdate(d)
      BY <3>1 DEF SetJob, InsertUpdate, replyVars
    <3>2. CASE Acknowledge(d) \/ CallbackFails(d)
      <4>1. PICK where : Settle(d, where)
        BY <3>2 DEF Acknowledge, CallbackFails
      <4> QED
        BY <1>2, <1>4, <4>1 DEF Settle, TypeInv, TypeOK
    <3> QED
      BY <3>1, <3>2 DEF Callback
  <2>2. PICK h : handler' = [handler EXCEPT ![d] = h]
    BY DEF Callback, CallbackFails, SetJob, InsertUpdate, Acknowledge, Settle
  <2>3. handler'[<<m, connection>>] = handler[<<m, connection>>]
    BY <1>4, <2>2 DEF TypeInv, TypeOK
  <2> QED
    BY <1>1, <2>1, <2>3 DEF Nearer
<1> QED
  BY <1>3, <1>4

\* Each step of callback, of the listener's start and each interruption settles a reply of the queue
\* or lowers a natural number that bounds the steps left: within a connection nothing is delivered
\* twice (message_listener.py callback, message.process()).
THEOREM RepliesComeToAnEnd == Spec => RepliesCountDown
<1>1. TypeInv /\ HandledOK /\ [Next]_vars =>
        [\A m \in Replies : place[m] \in {"queued", "delivered"} => Nearer(m)]_vars
  <2> SUFFICES ASSUME TypeInv, HandledOK, Next,
                      NEW m \in Replies, place[m] \in {"queued", "delivered"}
               PROVE  Nearer(m)
    OBVIOUS
  <2>1. ASSUME NEW j \in Jobs, SubmitStep(j) PROVE Nearer(m)
    BY <2>1 DEF SubmitStep, Submit, FindReplyQueue, MakeReplyQueue, Publish, SubmitDies, Nearer,
       replyVars, listenerVars
  <2>2. ASSUME NEW j \in Jobs, ExtractorStep(j) PROVE Nearer(m)
    <3>1. CASE Reply(j)
      <4>1. PICK n \in Replies : place[n] = "unsent" /\ place' = [place EXCEPT ![n] = "queued"]
        BY <3>1 DEF Reply
      <4>2. place'[m] = place[m] /\ UNCHANGED <<listener, connection, handler>>
        BY <3>1, <4>1 DEF Reply, listenerVars, TypeInv, TypeOK
      <4> QED
        BY <4>2 DEF Nearer
    <3> QED
      BY <2>2, <3>1 DEF ExtractorStep, Take, ExtractorDone, ExtractorDies, Nearer, replyVars,
         listenerVars
  <2> QED
    BY <2>1, <2>2, ListenerNearer, ReceiveNearer, CallbackNearer DEF Next
<1>2. Init => HandledOK
  BY DeliveryParts DEF Init, HandledOK, Idle
<1>3. TypeInv /\ HandledOK /\ [Next]_vars =>
        [\A m \in Replies : place[m] \in {"queued", "delivered"} =>
            \/ place'[m] \in {"acked", "rejected", "lost"}
            \/ Remaining(m)' < Remaining(m)
            \/ /\ UNCHANGED <<place[m], listener, connection>>
               /\ place[m] = "delivered" => UNCHANGED handler[<<m, connection>>]]_vars
  BY <1>1 DEF Nearer
<1> QED
  BY <1>2, <1>3, HandledNext, TypeInvariant, PTL DEF Spec, RepliesCountDown

-----------------------------------------------------------------------------
\* Whoever names a queue names it after an id that is stored.
IdsOK ==
    /\ IF firstId = NoId THEN ids = {} ELSE firstId \in ids
    /\ \A j \in Jobs :
           /\ submitter[j] = "publish" => replyTo[j] \in ids
           /\ request[j] # "none" => submitter[j] = "done" /\ replyTo[j] \in ids
    /\ listener = "up" => listening \in ids

LEMMA IdsNext == TypeInv /\ IdsOK /\ [Next]_vars => IdsOK'
<1> SUFFICES ASSUME TypeInv, IdsOK, [Next]_vars PROVE IdsOK'
  OBVIOUS
<1> USE DEF TypeInv, TypeOK, IdsOK, jobVars, idVars, clientVars, replyVars, listenerVars
<1>1. ASSUME NEW j \in Jobs, SubmitStep(j) PROVE IdsOK'
  <2>1. CASE MakeReplyQueue(j)
    BY <2>1, IdsAssumption DEF MakeReplyQueue, InsertId
  <2> QED
    BY <1>1, <2>1 DEF SubmitStep, Submit, FindReplyQueue, Publish, SubmitDies
<1>2. ASSUME NEW j \in Jobs, ExtractorStep(j) PROVE IdsOK'
  BY <1>2 DEF ExtractorStep, Take, Reply, ExtractorDone, ExtractorDies, Final
<1>3. CASE StartListener
  BY <1>3, IdsAssumption DEF StartListener, ListenerFindsId, ListenerMakesId, InsertId, Consume
<1>4. CASE Interruption
  BY <1>4 DEF Interruption, ListenerDies, ConnectionLost, BrokerRestarts
<1>5. ASSUME NEW m \in Replies, Receive(m) \/ ReceiveFails(m) PROVE IdsOK'
  BY <1>5 DEF Receive, ReadJob, ReadAs, RejectUnknownForm, ReceiveFails
<1>6. ASSUME NEW d \in Deliveries, Callback(d) \/ CallbackFails(d) PROVE IdsOK'
  BY <1>6 DEF Callback, CallbackFails, SetJob, InsertUpdate, Acknowledge, Settle
<1>7. CASE UNCHANGED vars
  BY <1>7 DEF vars
<1> QED
  BY <1>1, <1>2, <1>3, <1>4, <1>5, <1>6, <1>7 DEF Next

\* While the instance has made no second id, the replies to every published request go to
\* the queue the listener consumes, whatever restarts in between.
THEOREM OneIdIsHeard == Spec => []RepliesAreHeard
<1>1. Init => IdsOK
  BY DEF Init, IdsOK
<1>2. IdsOK => RepliesAreHeard
  BY DEF IdsOK, RepliesAreHeard
<1> QED
  BY <1>1, <1>2, IdsNext, TypeInvariant, PTL DEF Spec

=============================================================================
