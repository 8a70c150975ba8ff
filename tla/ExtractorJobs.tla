--------------------------- MODULE ExtractorJobs ---------------------------
(***************************************************************************)
(* The jobs Clowder gives to extractors.  A worker of the API records a    *)
(* job and publishes a request; an extractor takes it and publishes        *)
(* replies; the message listener turns replies into the status and the     *)
(* updates of the job.                                                     *)
(*                                                                         *)
(* The listener sets no prefetch limit: every reply in its queue is handed *)
(* to a coroutine of its own, and these interleave at each store           *)
(* operation.  A reply that is not acknowledged is delivered again when    *)
(* the listener's connection or process is replaced.  Replies wait in a    *)
(* queue named after the instance id, which whoever needs it first makes.  *)
(***************************************************************************)
EXTENDS Naturals

CONSTANTS
    Jobs,            \* ids of EventListenerJobDB documents
    Forms,           \* the forms of replies that extractors send
    MaxReplies,      \* bound: replies to one job
    MaxConnections,  \* bound: connections of the listener to the broker
    Listener,        \* the message listener, as the maker of an instance id
    NoId             \* no instance id

Final == {"SUCCEEDED", "ERROR", "SKIPPED"}
\* What parse_message_status tells apart
ParsedForms == Final \cup {"STARTED", "PROCESSING", "RESUBMITTED"}
AllForms == ParsedForms \cup {"OTHER"}
Statuses == ParsedForms \cup {"CREATED"}

ASSUME FormsAssumption == Forms \subseteq AllForms
ASSUME BoundsAssumption == MaxReplies \in Nat /\ MaxConnections \in Nat
ASSUME IdsAssumption == Listener \notin Jobs /\ NoId \notin Jobs \cup {Listener}

VARIABLES
    status,      \* EventListenerJobDB.status, "none" before the document exists
    started,     \* the reply whose time is in EventListenerJobDB.started, 0 for None
    finished,    \* the reply whose time is in EventListenerJobDB.finished, 0 for None
    updates,     \* how many EventListenerJobUpdateDB documents a reply has left
    ids,         \* ConfigEntryDB documents with the key instance_id, by their makers
    firstId,     \* the one find_one gives: the first inserted
    submitter,   \* where submit_file_job or submit_dataset_job of a job is
    replyTo,     \* the instance id in the name of the queue replies of a job go to
    request,     \* what became of the request of a job
    form,        \* what each reply says, "unsent" before it is sent
    place,       \* what became of each reply
    listener,    \* where the listener's start is
    listening,   \* the instance id in the name of the queue it consumes
    connection,  \* how often it has connected
    handler,     \* its coroutines, one per delivery
    stale        \* history: jobs whose final status a coroutine overwrote that had not seen it

jobVars == <<status, started, finished, updates>>
idVars == <<ids, firstId>>
clientVars == <<submitter, replyTo, request>>
replyVars == <<form, place>>
listenerVars == <<listener, listening, connection>>
vars == <<jobVars, idVars, clientVars, replyVars, listenerVars, handler, stale>>

\* A reply is named by its job and its place among the replies to it, which is also the
\* time it carries.
Replies == Jobs \X (1 .. MaxReplies)
JobOf(m) == m[1]
TimeOf(m) == m[2]
Deliveries == Replies \X (1 .. MaxConnections)
ReplyOf(d) == d[1]
ConnectionOf(d) == d[2]
Ids == Jobs \cup {Listener}

\* A coroutine, and the status it read
Idle == [pc |-> "idle", read |-> "CREATED"]
Coroutine == [pc : {"idle", "set", "insert", "ack"}, read : Statuses]

Init ==
    /\ status = [j \in Jobs |-> "none"]
    /\ started = [j \in Jobs |-> 0]
    /\ finished = [j \in Jobs |-> 0]
    /\ updates = [m \in Replies |-> 0]
    /\ ids = {}
    /\ firstId = NoId
    /\ submitter = [j \in Jobs |-> "idle"]
    /\ replyTo = [j \in Jobs |-> NoId]
    /\ request = [j \in Jobs |-> "none"]
    /\ form = [m \in Replies |-> "unsent"]
    /\ place = [m \in Replies |-> "unsent"]
    /\ listener = "down"
    /\ listening = NoId
    /\ connection = 0
    /\ handler = [d \in Deliveries |-> Idle]
    /\ stale = {}

-----------------------------------------------------------------------------
(* submit_file_job and submit_dataset_job: insert the job, find or make    *)
(* the reply queue, publish the request.                                   *)

\* Seeded fault: the insert is not awaited and never runs.
SubmitUnrecorded(j) ==
    /\ submitter[j] = "idle"
    /\ submitter' = [submitter EXCEPT ![j] = "find"]
    /\ UNCHANGED <<jobVars, idVars, replyTo, request, replyVars, listenerVars, handler, stale>>

Submit(j) ==
    /\ submitter[j] = "idle"
    /\ status' = [status EXCEPT ![j] = "CREATED"]
    /\ submitter' = [submitter EXCEPT ![j] = "find"]
    /\ UNCHANGED <<started, finished, updates, idVars, replyTo, request, replyVars,
                   listenerVars, handler, stale>>

\* create_reply_queue
FindReplyQueue(j) ==
    /\ submitter[j] = "find"
    /\ submitter' = [submitter EXCEPT ![j] = IF firstId = NoId THEN "insert" ELSE "publish"]
    /\ replyTo' = [replyTo EXCEPT ![j] = firstId]
    /\ UNCHANGED <<jobVars, idVars, request, replyVars, listenerVars, handler, stale>>

InsertId(id) ==
    /\ ids' = ids \cup {id}
    /\ firstId' = IF firstId = NoId THEN id ELSE firstId

MakeReplyQueue(j) ==
    /\ submitter[j] = "insert"
    /\ InsertId(j)
    /\ submitter' = [submitter EXCEPT ![j] = "publish"]
    /\ replyTo' = [replyTo EXCEPT ![j] = j]
    /\ UNCHANGED <<jobVars, request, replyVars, listenerVars, handler, stale>>

Publish(j) ==
    /\ submitter[j] = "publish"
    /\ submitter' = [submitter EXCEPT ![j] = "done"]
    /\ request' = [request EXCEPT ![j] = "queued"]
    /\ UNCHANGED <<jobVars, idVars, replyTo, replyVars, listenerVars, handler, stale>>

\* The worker dies or a call raises: the job keeps the status CREATED.
SubmitDies(j) ==
    /\ submitter[j] \in {"find", "insert", "publish"}
    /\ submitter' = [submitter EXCEPT ![j] = "done"]
    /\ UNCHANGED <<jobVars, idVars, replyTo, request, replyVars, listenerVars, handler, stale>>

-----------------------------------------------------------------------------
(* The extractor: it says STARTED first, then anything, then one final     *)
(* status; it acknowledges the request when it is done, and gets it again  *)
(* when it dies before.                                                    *)
Take(j) ==
    /\ request[j] = "queued"
    /\ request' = [request EXCEPT ![j] = "taken"]
    /\ UNCHANGED <<jobVars, idVars, submitter, replyTo, replyVars, listenerVars, handler, stale>>

Reply(j) == \E m \in Replies, s \in Forms :
    /\ JobOf(m) = j
    /\ place[m] = "unsent"
    /\ \A n \in 1 .. TimeOf(m) - 1 : place[<<j, n>>] # "unsent"
    /\ request[j] = IF s = "STARTED" THEN "taken" ELSE "working"
    /\ form' = [form EXCEPT ![m] = s]
    /\ place' = [place EXCEPT ![m] = "queued"]
    /\ request' = [request EXCEPT ![j] = IF s \in Final THEN "answered" ELSE "working"]
    /\ UNCHANGED <<jobVars, idVars, submitter, replyTo, listenerVars, handler, stale>>

ExtractorDone(j) ==
    /\ request[j] = "answered"
    /\ request' = [request EXCEPT ![j] = "done"]
    /\ UNCHANGED <<jobVars, idVars, submitter, replyTo, replyVars, listenerVars, handler, stale>>

ExtractorDies(j) ==
    /\ request[j] \in {"taken", "working", "answered"}
    /\ request' = [request EXCEPT ![j] = "queued"]
    /\ UNCHANGED <<jobVars, idVars, submitter, replyTo, replyVars, listenerVars, handler, stale>>

-----------------------------------------------------------------------------
(* listen_for_messages: find or make the instance id, consume its queue.   *)
Consume(id) ==
    /\ listener' = "up"
    /\ listening' = id
    /\ connection' = connection + 1

ListenerFindsId ==
    /\ listener = "down"
    /\ connection < MaxConnections
    /\ IF firstId = NoId
       THEN listener' = "insert" /\ UNCHANGED <<listening, connection>>
       ELSE Consume(firstId)
    /\ UNCHANGED <<jobVars, idVars, clientVars, replyVars, handler, stale>>

\* Seeded fault: the instance id is generated and not stored.
ListenerKeepsId ==
    /\ listener = "insert"
    /\ Consume(Listener)
    /\ UNCHANGED <<jobVars, idVars, clientVars, replyVars, handler, stale>>

ListenerMakesId ==
    /\ listener = "insert"
    /\ InsertId(Listener)
    /\ Consume(Listener)
    /\ UNCHANGED <<jobVars, clientVars, replyVars, handler, stale>>

\* What the broker does when a connection ends: it delivers again what was not acknowledged.
Requeued == [m \in Replies |-> IF place[m] = "delivered" THEN "queued" ELSE place[m]]

\* The process dies, its coroutines with it; it is started again.
ListenerDies ==
    /\ listener = "up"
    /\ connection < MaxConnections
    /\ listener' = "down"
    /\ listening' = NoId
    /\ place' = Requeued
    /\ handler' = [d \in Deliveries |-> Idle]
    /\ UNCHANGED <<jobVars, idVars, clientVars, form, connection, stale>>

\* connect_robust connects again; the coroutines of the old connection go on
ConnectionLost ==
    /\ listener = "up"
    /\ connection < MaxConnections
    /\ connection' = connection + 1
    /\ place' = Requeued
    /\ UNCHANGED <<jobVars, idVars, clientVars, form, listener, listening, handler, stale>>

\* The broker restarts: requests are transient (delivery_mode = 1); which replies are is the
\* extractors' choice.
BrokerRestarts == \E lost \in SUBSET {m \in Replies : place[m] \in {"queued", "delivered"}} :
    /\ listener = "up"
    /\ connection < MaxConnections
    /\ connection' = connection + 1
    /\ place' = [m \in Replies |-> IF m \in lost THEN "lost" ELSE Requeued[m]]
    /\ request' = [j \in Jobs |-> IF request[j] = "queued" THEN "lost" ELSE request[j]]
    /\ UNCHANGED <<jobVars, idVars, submitter, replyTo, form, listener, listening, handler, stale>>

-----------------------------------------------------------------------------
(* callback: read the job, set the fields, insert the update, acknowledge. *)
Deliverable(m) ==
    /\ listener = "up"
    /\ place[m] = "queued"
    /\ replyTo[JobOf(m)] = listening

\* Seeded fault: a reply of another form is stored as it is.
ReadAnyForm(m, read, where) ==
    /\ Deliverable(m)
    /\ place' = [place EXCEPT ![m] = where]
    /\ handler' = [handler EXCEPT ![<<m, connection>>] = [pc |-> "set", read |-> read]]
    /\ UNCHANGED <<jobVars, idVars, clientVars, form, listenerVars, stale>>

\* The reply is taken out of the queue and the job is read; a job that is not found ends the
\* coroutine, and the reply is acknowledged.
ReadAs(m, read, where) ==
    /\ Deliverable(m)
    /\ form[m] # "OTHER"
    /\ IF status[JobOf(m)] = "none"
       THEN /\ place' = [place EXCEPT ![m] = "acked"]
            /\ UNCHANGED handler
       ELSE /\ place' = [place EXCEPT ![m] = where]
            /\ handler' = [handler EXCEPT ![<<m, connection>>] = [pc |-> "set", read |-> read]]
    /\ UNCHANGED <<jobVars, idVars, clientVars, form, listenerVars, stale>>

\* Seeded fault: no_ack, the broker takes a reply for acknowledged when it is delivered.
ReadUnacknowledged(m) == ReadAs(m, status[JobOf(m)], "acked")

ReadJob(m) == ReadAs(m, status[JobOf(m)], "delivered")

\* Seeded fault: a rejected reply goes back to the queue.
RejectAndRequeue(m) ==
    /\ Deliverable(m)
    /\ form[m] = "OTHER"
    /\ UNCHANGED vars

\* parse_message_status returns no dict for a reply of another form: the coroutine raises,
\* and message.process() rejects the reply.
RejectUnknownForm(m) ==
    /\ Deliverable(m)
    /\ form[m] = "OTHER"
    /\ place' = [place EXCEPT ![m] = IF status[JobOf(m)] = "none" THEN "acked" ELSE "rejected"]
    /\ UNCHANGED <<jobVars, idVars, clientVars, form, listenerVars, handler, stale>>

\* The body is no JSON, its time has another format or find_one raises: message.process()
\* rejects the reply, of which nothing has been read or written.
ReceiveFails(m) ==
    /\ Deliverable(m)
    /\ place' = [place EXCEPT ![m] = "rejected"]
    /\ UNCHANGED <<jobVars, idVars, clientVars, form, listenerVars, handler, stale>>

\* Seeded fault: the status of the job is not looked at.
NewStatusAlways(read, s) == s

\* "Don't override a finished status if a message comes in late"
NewStatus(read, s) == IF read \in Final THEN read ELSE s

\* Seeded fault: a job that is skipped does not count as finished.
FinishedBySuccessOrError(j, m, s) == IF s \in {"SUCCEEDED", "ERROR"} THEN TimeOf(m) ELSE finished[j]

FinishedAt(j, m, s) == IF s \in Final THEN TimeOf(m) ELSE finished[j]

SetJob(d) ==
    /\ handler[d].pc = "set"
    /\ LET m == ReplyOf(d)
           j == JobOf(m)
           s == form[m]
       IN /\ status' = [status EXCEPT ![j] = NewStatus(handler[d].read, s)]
          /\ started' = [started EXCEPT ![j] = IF s = "STARTED" THEN TimeOf(m) ELSE @]
          /\ finished' = [finished EXCEPT ![j] = FinishedAt(j, m, s)]
          /\ stale' = IF status[j] \in Final /\ handler[d].read \notin Final
                      THEN stale \cup {j} ELSE stale
    /\ handler' = [handler EXCEPT ![d].pc = "insert"]
    /\ UNCHANGED <<updates, idVars, clientVars, replyVars, listenerVars>>

InsertUpdate(d) ==
    /\ handler[d].pc = "insert"
    /\ updates' = [updates EXCEPT ![ReplyOf(d)] = @ + 1]
    /\ handler' = [handler EXCEPT ![d].pc = "ack"]
    /\ UNCHANGED <<status, started, finished, idVars, clientVars, replyVars, listenerVars, stale>>

\* An acknowledgement or a rejection on a connection that has been replaced is lost.
Settle(d, where) ==
    /\ place' = IF ConnectionOf(d) = connection
                THEN [place EXCEPT ![ReplyOf(d)] = where] ELSE place
    /\ handler' = [handler EXCEPT ![d] = Idle]
    /\ UNCHANGED <<jobVars, idVars, clientVars, form, listenerVars, stale>>

Acknowledge(d) == handler[d].pc = "ack" /\ Settle(d, "acked")

\* Seeded fault: the exception is caught and logged outside message.process().
CallbackFailsSilently(d) ==
    /\ handler[d].pc \in {"set", "insert"}
    /\ handler' = [handler EXCEPT ![d] = Idle]
    /\ UNCHANGED <<jobVars, idVars, clientVars, replyVars, listenerVars, stale>>

\* Seeded fault: message.process(requeue=True).
CallbackFailsRequeued(d) == handler[d].pc \in {"set", "insert"} /\ Settle(d, "queued")

\* save or insert raises: message.process() rejects the reply and does not requeue it.
CallbackFails(d) == handler[d].pc \in {"set", "insert"} /\ Settle(d, "rejected")

-----------------------------------------------------------------------------
SubmitStep(j) ==
    Submit(j) \/ FindReplyQueue(j) \/ MakeReplyQueue(j) \/ Publish(j) \/ SubmitDies(j)
ExtractorStep(j) == Take(j) \/ Reply(j) \/ ExtractorDone(j) \/ ExtractorDies(j)
StartListener == ListenerFindsId \/ ListenerMakesId
Interruption == ListenerDies \/ ConnectionLost \/ BrokerRestarts
Receive(m) == ReadJob(m) \/ RejectUnknownForm(m)
Callback(d) == SetJob(d) \/ InsertUpdate(d) \/ Acknowledge(d)

Next ==
    \/ \E j \in Jobs : SubmitStep(j) \/ ExtractorStep(j)
    \/ StartListener \/ Interruption
    \/ \E m \in Replies : Receive(m) \/ ReceiveFails(m)
    \/ \E d \in Deliveries : Callback(d) \/ CallbackFails(d)

Spec == Init /\ [][Next]_vars

\* The container of the listener is started again when it stops, its event loop runs every
\* coroutine whose store call has returned, and the broker delivers what waits in its queue.
FairSpec ==
    /\ Spec
    /\ WF_vars(StartListener)
    /\ \A m \in Replies : WF_vars(Receive(m))
    /\ \A d \in Deliveries : WF_vars(Callback(d))

-----------------------------------------------------------------------------
TypeOK ==
    /\ status \in [Jobs -> Statuses \cup {"none"}]
    /\ started \in [Jobs -> 0 .. MaxReplies]
    /\ finished \in [Jobs -> 0 .. MaxReplies]
    /\ updates \in [Replies -> Nat]
    /\ ids \subseteq Ids
    /\ firstId \in Ids \cup {NoId}
    /\ submitter \in [Jobs -> {"idle", "find", "insert", "publish", "done"}]
    /\ replyTo \in [Jobs -> Ids \cup {NoId}]
    /\ request \in [Jobs -> {"none", "queued", "taken", "working", "answered", "done", "lost"}]
    /\ form \in [Replies -> Forms \cup {"unsent"}]
    /\ place \in [Replies -> {"unsent", "queued", "delivered", "acked", "rejected", "lost"}]
    /\ listener \in {"down", "insert", "up"}
    /\ listening \in Ids \cup {NoId}
    /\ connection \in 0 .. MaxConnections
    /\ handler \in [Deliveries -> Coroutine]
    /\ stale \subseteq Jobs

\* No reply is lost to a crash: one the broker may forget has been recorded in the updates
\* of its job, and its job is known.
AckedIsRecorded == \A m \in Replies : place[m] = "acked" => updates[m] > 0

\* A job that has ended says when, and the reply that says so was a final one, in whatever
\* order its replies are handled.
FinalIsTimed == \A j \in Jobs : status[j] \in Final =>
    finished[j] # 0 /\ form[<<j, finished[j]>>] \in Final

\* Every reply finds the job it is about: the document comes before the request.
ReplyFindsItsJob == \A m \in Replies : place[m] # "unsent" => status[JobOf(m)] # "none"

\* A reply that is read after a final status was stored never changes it; only one that was
\* being handled already, and had read an earlier status, can.
LateReplyKeepsStatus ==
    [][\A j \in Jobs : status[j] \in Final /\ status'[j] # status[j] => j \in stale']_vars

\* The broker waits for an acknowledgement or a rejection of exactly the replies that a
\* coroutine of this connection is handling (async with message.process()): one nobody handles
\* would not be delivered again while the connection lasts, and settling one twice closes the
\* channel.  Coroutines of an earlier connection may be handling it, too.
DeliveredIsHandled == \A m \in Replies :
    place[m] = "delivered" <=> connection > 0 /\ handler[<<m, connection>>].pc # "idle"

\* As long as one instance id has been made, replies go where the listener listens.
RepliesAreHeard ==
    (\A a, b \in ids : a = b) =>
        \A j \in Jobs : request[j] # "none" /\ listener = "up" => replyTo[j] = listening

\* A reply in the listener's queue is acknowledged or rejected in the end (or lost by the
\* broker), however often the listener is interrupted meanwhile.
EveryReplyHandled == \A m \in Replies :
    place[m] = "queued" ~> \/ place[m] \in {"acked", "rejected", "lost"}
                           \/ listener = "up" /\ replyTo[JobOf(m)] # listening

\* How far a reply in the listener's queue is from being settled: the connections to come, and in
\* this one the store operations of its coroutine, or of the listener's start.
Stage(m) ==
    CASE listener = "down" -> 2
      [] listener = "insert" -> 1
      [] listener = "up" /\ place[m] = "delivered" ->
             CASE handler[<<m, connection>>].pc = "set" -> 6
               [] handler[<<m, connection>>].pc = "insert" -> 5
               [] handler[<<m, connection>>].pc = "ack" -> 4
               [] OTHER -> 7
      [] OTHER -> 7
Remaining(m) == 7 * (MaxConnections - connection) + Stage(m)

\* Whatever is done for a reply, or happens to the listener and its connection, settles the reply
\* or brings it nearer to that: callback does nothing twice within a connection, a reply whose
\* callback fails does not come back (message.process() without requeue), and only an
\* interruption has it delivered again.  This is what EveryReplyHandled rests on.
RepliesCountDown == [][\A m \in Replies : place[m] \in {"queued", "delivered"} =>
    \/ place'[m] \in {"acked", "rejected", "lost"}
    \/ Remaining(m)' < Remaining(m)
    \/ /\ UNCHANGED <<place[m], listener, connection>>
       /\ place[m] = "delivered" => UNCHANGED handler[<<m, connection>>]]_vars

\* What comments promise and the code does not keep.

\* "Don't override a finished status if a message comes in late"
FinalStatusKept ==
    [][\A j \in Jobs : status[j] \in Final => status'[j] = status[j]]_vars

=============================================================================
