--------------------------- MODULE OutboundQueue ---------------------------
(***************************************************************************)
(* The outbound message queue of the WhatsApp-n8n bridge: the REST         *)
(* handlers that queue and cancel a message (queue-controller.ts), the two *)
(* Redis sorted sets (queue-manager.ts), the MySQL rows                    *)
(* (message-repository.ts) and the polling worker (queue-worker.ts).       *)
(*                                                                         *)
(* Every await of the source is a place where another handler can run, so  *)
(* an action is the code from one await to the next.  The worker's         *)
(* setInterval does not wait for the previous invocation and several       *)
(* server instances may share the Redis, hence a set Workers of            *)
(* invocations of processNextMessage that may overlap; a singleton set is  *)
(* the case in which every invocation ends before the next one starts.     *)
(***************************************************************************)
EXTENDS Naturals, Sequences, FiniteSets

CONSTANTS
    Msgs,         \* message ids (UUIDs of whatsapp_messages.id)
    Cancellable,  \* the messages whose client may call DELETE /queue/:id
    Workers,      \* invocations of processNextMessage that may overlap
    MaxAttempts,  \* MAX_ATTEMPTS
    Backoff,      \* BACKOFF_DELAYS, in clock ticks
    Horizon,      \* bound: the clock, and every nextRetryAt, stop here
    MaxFaults,    \* bound: failing Redis, MySQL or provider calls
    MaxCrashes    \* bound: exits of the process

ASSUME ConstantsAssumption ==
    /\ Cancellable \subseteq Msgs
    /\ MaxAttempts \in Nat \ {0}
    /\ Backoff \in Seq(Nat)
    /\ Backoff # << >>
    /\ Horizon \in Nat
    /\ MaxFaults \in Nat
    /\ MaxCrashes \in Nat

VARIABLES
    now,         \* Date.now(), saturated at Horizon
    queue,       \* sorted set whatsapp:queue:messages; the score is nextRetryAt
    processing,  \* sorted set whatsapp:queue:processing; its order is left open
    status,      \* whatsapp_messages.status, "none" before the INSERT
    attempts,    \* whatsapp_message_attempts: the rows of each message by their id,
                 \* <<attemptNumber, status>> each; no key keeps two rows apart
    sender,      \* progress of POST /queue/send for each message
    canceller,   \* progress of DELETE /queue/:messageId for each message
    cancelFound, \* the entry that DELETE is about to zRem, if any
    acked,       \* messages whose POST was answered 200
    pc,          \* where each worker invocation awaits
    hand,        \* the entry an invocation works on, if any
    found,       \* the entry an invocation is about to zRem, if any
    scope,       \* which try block of processNextMessage the await is in
    ready,       \* getStatus(): connected and authenticated
    accepted,    \* times WhatsApp took the message (a history variable)
    faults,      \* calls that failed so far
    crashes      \* exits of the process so far

redis  == << queue, processing >>
mysql  == << status, attempts >>
client == << sender, canceller, cancelFound, acked >>
worker == << pc, hand, found, scope >>
env    == << ready, faults, crashes >>
vars   == << now, redis, mysql, client, worker, env, accepted >>

-----------------------------------------------------------------------------
(* Data *)

Smaller(a, b) == IF a <= b THEN a ELSE b

\* interface QueueEntry.  A message not sent after MaxAttempts attempts is
\* queued once more, with a number the worker answers by giving up.
AttemptNumber == 1 .. (MaxAttempts + 1)
Entry == [messageId : Msgs, attemptNumber : AttemptNumber, nextRetryAt : 0 .. Horizon]

Status == {"none", "pending", "sent", "failed", "cancelled"}
Attempt == AttemptNumber \X {"success", "retrying", "failed"}
AttemptRows == Seq(Attempt)

\* Where an invocation of processNextMessage can await.
Step == {"idle", "claim", "unqueue", "lookup", "send",
         "sent_status", "sent_record",
         "retry_read", "retry_rem", "retry_add", "retry_record",
         "fail_status", "fail_record", "mark_read", "mark_rem"}

\* "outer": only the outermost catch, which swallows the error, is around the
\* await; "try": the send's own try block; "catch": that block's handler.
Scope == {"outer", "try", "catch"}

CancelStep == {"idle", "queue_read", "queue_rem", "processing_read", "processing_rem"}

EntriesOf(S, m) == {e \in S : e.messageId = m}

\* The entries with the lowest score: Redis orders equal scores by value.
Earliest(S) == {e \in S : \A f \in S : e.nextRetryAt <= f.nextRetryAt}

\* zRangeByScore(queue, -inf, now).
Due == {e \in queue : e.nextRetryAt <= now}

\* BACKOFF_DELAYS[min(attemptNumber - 1, length - 1)] after the clock.
RetryTime(attemptNumber) ==
    Smaller(now + Backoff[Smaller(attemptNumber, Len(Backoff))], Horizon)

\* The attempt limit the worker looks at before it sends.
\* Mutant for TypeOK: an off-by-one.
ExhaustedLater(e) == e.attemptNumber > MaxAttempts + 1

Exhausted(e) == e.attemptNumber > MaxAttempts

\* Mutant for AuditTrail: the attempt number is not incremented.
RetrySameAttempt(e) == [e EXCEPT !.nextRetryAt = RetryTime(e.attemptNumber)]

RetryEntry(e) ==
    [messageId     |-> e.messageId,
     attemptNumber |-> e.attemptNumber + 1,
     nextRetryAt   |-> RetryTime(e.attemptNumber)]

RecordAttempt(e, outcome) ==
    attempts' = [attempts EXCEPT ![e.messageId] = Append(@, <<e.attemptNumber, outcome>>)]

Goto(w, step) == pc' = [pc EXCEPT ![w] = step]

\* Invocation w returns: its local variables are gone.
Return(w) ==
    /\ pc'    = [pc EXCEPT ![w] = "idle"]
    /\ hand'  = [hand EXCEPT ![w] = {}]
    /\ found' = [found EXCEPT ![w] = {}]
    /\ scope' = [scope EXCEPT ![w] = "outer"]

Init ==
    /\ now = 0
    /\ queue = {} /\ processing = {}
    /\ status = [m \in Msgs |-> "none"]
    /\ attempts = [m \in Msgs |-> << >>]
    /\ sender = [m \in Msgs |-> "idle"]
    /\ canceller = [m \in Msgs |-> "idle"]
    /\ cancelFound = [m \in Msgs |-> {}]
    /\ acked = {}
    /\ pc = [w \in Workers |-> "idle"]
    /\ hand = [w \in Workers |-> {}]
    /\ found = [w \in Workers |-> {}]
    /\ scope = [w \in Workers |-> "outer"]
    /\ ready = FALSE
    /\ accepted = [m \in Msgs |-> 0]
    /\ faults = 0 /\ crashes = 0

-----------------------------------------------------------------------------
(* POST /queue/send: INSERT the row, zAdd the entry, answer 200. *)

CreateMessage(m) ==
    /\ sender[m] = "idle"
    /\ status' = [status EXCEPT ![m] = "pending"]
    /\ sender' = [sender EXCEPT ![m] = "enqueue"]
    /\ UNCHANGED << now, redis, attempts, canceller, cancelFound, acked, worker, env, accepted >>

EnqueueMessage(m) ==
    /\ sender[m] = "enqueue"
    /\ queue' = queue \cup {[messageId |-> m, attemptNumber |-> 1, nextRetryAt |-> now]}
    /\ sender' = [sender EXCEPT ![m] = "done"]
    /\ acked' = acked \cup {m}
    /\ UNCHANGED << now, processing, mysql, canceller, cancelFound, worker, env, accepted >>

\* The zAdd fails: the client gets a 500 and the row stays pending.
EnqueueFault(m) ==
    /\ sender[m] = "enqueue"
    /\ faults < MaxFaults
    /\ faults' = faults + 1
    /\ sender' = [sender EXCEPT ![m] = "done"]
    /\ UNCHANGED << now, redis, mysql, canceller, cancelFound, acked, worker, ready, crashes, accepted >>

-----------------------------------------------------------------------------
(* DELETE /queue/:messageId: the row if it is still pending, then the first *)
(* entry of the message in the queue, then the first one in processing.    *)
(* A client knows the id from its POST's answer, or once the entry is in   *)
(* the queue, which GET /queue/pending lists.                              *)

\* Mutant for SentIsFinal: the UPDATE without its "AND status = ?".
CancelAnyStatus(m) ==
    /\ canceller[m] = "idle"
    /\ m \in acked \cap Cancellable
    /\ status' = [status EXCEPT ![m] = "cancelled"]
    /\ canceller' = [canceller EXCEPT ![m] = "queue_read"]
    /\ UNCHANGED << now, redis, attempts, sender, cancelFound, acked, worker, env, accepted >>

CancelInDatabase(m) ==
    /\ canceller[m] = "idle"
    /\ m \in acked \cap Cancellable
    /\ status' = [status EXCEPT ![m] = IF @ = "pending" THEN "cancelled" ELSE @]
    /\ canceller' = [canceller EXCEPT ![m] = "queue_read"]
    /\ UNCHANGED << now, redis, attempts, sender, cancelFound, acked, worker, env, accepted >>

RemoveReadQueue(m) ==
    /\ canceller[m] = "queue_read"
    /\ \/ /\ EntriesOf(queue, m) = {}
          /\ canceller' = [canceller EXCEPT ![m] = "processing_read"]
          /\ UNCHANGED cancelFound
       \/ \E e \in Earliest(EntriesOf(queue, m)) :
             /\ cancelFound' = [cancelFound EXCEPT ![m] = {e}]
             /\ canceller' = [canceller EXCEPT ![m] = "queue_rem"]
    /\ UNCHANGED << now, redis, mysql, sender, acked, worker, env, accepted >>

RemoveFromQueue(m) ==
    /\ canceller[m] = "queue_rem"
    /\ queue' = queue \ cancelFound[m]
    /\ cancelFound' = [cancelFound EXCEPT ![m] = {}]
    /\ canceller' = [canceller EXCEPT ![m] = "processing_read"]
    /\ UNCHANGED << now, processing, mysql, sender, acked, worker, env, accepted >>

RemoveReadProcessing(m) ==
    /\ canceller[m] = "processing_read"
    /\ \/ /\ EntriesOf(processing, m) = {}
          /\ canceller' = [canceller EXCEPT ![m] = "idle"]
          /\ UNCHANGED cancelFound
       \/ \E e \in EntriesOf(processing, m) :
             /\ cancelFound' = [cancelFound EXCEPT ![m] = {e}]
             /\ canceller' = [canceller EXCEPT ![m] = "processing_rem"]
    /\ UNCHANGED << now, redis, mysql, sender, acked, worker, env, accepted >>

RemoveFromProcessing(m) ==
    /\ canceller[m] = "processing_rem"
    /\ processing' = processing \ cancelFound[m]
    /\ cancelFound' = [cancelFound EXCEPT ![m] = {}]
    /\ canceller' = [canceller EXCEPT ![m] = "idle"]
    /\ UNCHANGED << now, queue, mysql, sender, acked, worker, env, accepted >>

\* A Redis call of DELETE fails: a 500, after the row was already cancelled.
CancelFault(m) ==
    /\ canceller[m] # "idle"
    /\ faults < MaxFaults
    /\ faults' = faults + 1
    /\ canceller' = [canceller EXCEPT ![m] = "idle"]
    /\ cancelFound' = [cancelFound EXCEPT ![m] = {}]
    /\ UNCHANGED << now, redis, mysql, sender, acked, worker, ready, crashes, accepted >>

-----------------------------------------------------------------------------
(* processNextMessage, one invocation w.  getNextMessage is three calls.   *)

Poll(w) ==
    /\ pc[w] = "idle"
    /\ \E e \in Earliest(Due) :
          /\ hand' = [hand EXCEPT ![w] = {e}]
          /\ Goto(w, "claim")
    /\ UNCHANGED << now, redis, mysql, client, found, scope, env, accepted >>

Claim(w) ==
    /\ pc[w] = "claim"
    /\ processing' = processing \cup hand[w]
    /\ Goto(w, "unqueue")
    /\ UNCHANGED << now, queue, mysql, client, hand, found, scope, env, accepted >>

\* Mutant for SendBudget: zRem is given a value that is not a member.
UnqueueMisses(w) ==
    /\ pc[w] = "unqueue"
    /\ Goto(w, "lookup")
    /\ UNCHANGED << now, redis, mysql, client, hand, found, scope, env, accepted >>

Unqueue(w) ==
    /\ pc[w] = "unqueue"
    /\ queue' = queue \ hand[w]
    /\ Goto(w, "lookup")
    /\ UNCHANGED << now, processing, mysql, client, hand, found, scope, env, accepted >>

\* The row is read and the code runs on to its next await: the attempt limit
\* and the provider's state are looked at, the row's status is not.  No code
\* deletes a row, so "Message not found in database" cannot be answered.
Lookup(w) ==
    /\ pc[w] = "lookup"
    /\ \E e \in hand[w] :
          \/ /\ Exhausted(e)
             /\ Goto(w, "fail_status")
             /\ UNCHANGED scope
          \/ /\ ~Exhausted(e)
             /\ scope' = [scope EXCEPT ![w] = "try"]
             /\ \/ ready /\ Goto(w, "send")
                \/ ~ready /\ Goto(w, "retry_read")
    /\ UNCHANGED << now, redis, mysql, client, hand, found, env, accepted >>

\* The handler of the send's try block: isRetryableError and the attempt
\* number decide between scheduleRetry and giving the message up.
Caught(w, retryable) ==
    /\ scope' = [scope EXCEPT ![w] = "catch"]
    /\ found' = [found EXCEPT ![w] = {}]
    /\ UNCHANGED hand
    /\ \E e \in hand[w] :
          \/ /\ retryable /\ e.attemptNumber < MaxAttempts
             /\ Goto(w, "retry_read")
          \/ /\ ~(retryable /\ e.attemptNumber < MaxAttempts)
             /\ Goto(w, "fail_status")

\* client.sendMessage resolves.
SendAccepted(w) ==
    /\ pc[w] = "send"
    /\ \E e \in hand[w] : accepted' = [accepted EXCEPT ![e.messageId] = @ + 1]
    /\ Goto(w, "sent_status")
    /\ UNCHANGED << now, redis, mysql, client, hand, found, scope, env >>

\* client.sendMessage rejects and WhatsApp did not take the message.
SendRejected(w) ==
    /\ pc[w] = "send"
    /\ \E retryable \in BOOLEAN : Caught(w, retryable)
    /\ UNCHANGED << now, redis, mysql, client, env, accepted >>

\* WhatsApp took the message, but the call rejects: the answer was lost.
SendAnswerLost(w) ==
    /\ pc[w] = "send"
    /\ faults < MaxFaults
    /\ faults' = faults + 1
    /\ \E e \in hand[w] : accepted' = [accepted EXCEPT ![e.messageId] = @ + 1]
    /\ Caught(w, TRUE)
    /\ UNCHANGED << now, redis, mysql, client, ready, crashes >>

\* updateMessageStatus(SENT), recordAttempt(SUCCESS), then markProcessed.
UpdateSent(w) ==
    /\ pc[w] = "sent_status"
    /\ \E e \in hand[w] : status' = [status EXCEPT ![e.messageId] = "sent"]
    /\ Goto(w, "sent_record")
    /\ UNCHANGED << now, redis, attempts, client, hand, found, scope, env, accepted >>

RecordSent(w) ==
    /\ pc[w] = "sent_record"
    /\ \E e \in hand[w] : RecordAttempt(e, "success")
    /\ Goto(w, "mark_read")
    /\ UNCHANGED << now, redis, status, client, hand, found, scope, env, accepted >>

\* updateMessageStatus(FAILED), recordAttempt(FAILED), then markProcessed:
\* MAX_ATTEMPTS_EXCEEDED and a permanently failed send alike.
\* Mutant for SentWasAccepted: the wrong status is written.
UpdateFailedAsSent(w) ==
    /\ pc[w] = "fail_status"
    /\ \E e \in hand[w] : status' = [status EXCEPT ![e.messageId] = "sent"]
    /\ Goto(w, "fail_record")
    /\ UNCHANGED << now, redis, attempts, client, hand, found, scope, env, accepted >>

\* Mutant for Resolved: the status is not written.
UpdateFailedNot(w) ==
    /\ pc[w] = "fail_status"
    /\ Goto(w, "fail_record")
    /\ UNCHANGED << now, redis, mysql, client, hand, found, scope, env, accepted >>

UpdateFailed(w) ==
    /\ pc[w] = "fail_status"
    /\ \E e \in hand[w] : status' = [status EXCEPT ![e.messageId] = "failed"]
    /\ Goto(w, "fail_record")
    /\ UNCHANGED << now, redis, attempts, client, hand, found, scope, env, accepted >>

RecordFailed(w) ==
    /\ pc[w] = "fail_record"
    /\ \E e \in hand[w] : RecordAttempt(e, "failed")
    /\ Goto(w, "mark_read")
    /\ UNCHANGED << now, redis, status, client, hand, found, scope, env, accepted >>

\* scheduleRetry: an entry of the message is searched in processing, removed,
\* and the next attempt is queued; then recordAttempt(RETRYING).
\* Mutant for NoLostMessage: nothing is queued when processing has no entry.
RetryIfProcessing(w) ==
    /\ pc[w] = "retry_read"
    /\ \E e \in hand[w] :
          \/ /\ EntriesOf(processing, e.messageId) = {}
             /\ Goto(w, "retry_record")
             /\ UNCHANGED found
          \/ \E f \in EntriesOf(processing, e.messageId) :
                /\ found' = [found EXCEPT ![w] = {f}]
                /\ Goto(w, "retry_rem")
    /\ UNCHANGED << now, redis, mysql, client, hand, scope, env, accepted >>

RetryRead(w) ==
    /\ pc[w] = "retry_read"
    /\ \E e \in hand[w] :
          \/ /\ EntriesOf(processing, e.messageId) = {}
             /\ Goto(w, "retry_add")
             /\ UNCHANGED found
          \/ \E f \in EntriesOf(processing, e.messageId) :
                /\ found' = [found EXCEPT ![w] = {f}]
                /\ Goto(w, "retry_rem")
    /\ UNCHANGED << now, redis, mysql, client, hand, scope, env, accepted >>

\* Mutant for QueueDrains: the entry is left in processing.
RetryKeepsProcessing(w) ==
    /\ pc[w] = "retry_rem"
    /\ found' = [found EXCEPT ![w] = {}]
    /\ Goto(w, "retry_add")
    /\ UNCHANGED << now, redis, mysql, client, hand, scope, env, accepted >>

RetryRemove(w) ==
    /\ pc[w] = "retry_rem"
    /\ processing' = processing \ found[w]
    /\ found' = [found EXCEPT ![w] = {}]
    /\ Goto(w, "retry_add")
    /\ UNCHANGED << now, queue, mysql, client, hand, scope, env, accepted >>

RetryAdd(w) ==
    /\ pc[w] = "retry_add"
    /\ \E e \in hand[w] : queue' = queue \cup {RetryEntry(e)}
    /\ Goto(w, "retry_record")
    /\ UNCHANGED << now, processing, mysql, client, hand, found, scope, env, accepted >>

RetryRecord(w) ==
    /\ pc[w] = "retry_record"
    /\ \E e \in hand[w] : RecordAttempt(e, "retrying")
    /\ Return(w)
    /\ UNCHANGED << now, redis, status, client, env, accepted >>

\* markProcessed: remove the first entry of the message from processing.
MarkRead(w) ==
    /\ pc[w] = "mark_read"
    /\ \E e \in hand[w] :
          \/ /\ EntriesOf(processing, e.messageId) = {}
             /\ Return(w)
          \/ \E f \in EntriesOf(processing, e.messageId) :
                /\ found' = [found EXCEPT ![w] = {f}]
                /\ Goto(w, "mark_rem")
                /\ UNCHANGED << hand, scope >>
    /\ UNCHANGED << now, redis, mysql, client, env, accepted >>

MarkRemove(w) ==
    /\ pc[w] = "mark_rem"
    /\ processing' = processing \ found[w]
    /\ Return(w)
    /\ UNCHANGED << now, queue, mysql, client, env, accepted >>

\* The Redis or MySQL call that w awaits throws.  In the send's try block the
\* error is handled as a failed, retryable send; elsewhere it is swallowed.
WorkerFault(w) ==
    /\ pc[w] \notin {"idle", "send"}
    /\ faults < MaxFaults
    /\ faults' = faults + 1
    /\ \/ scope[w] = "try" /\ Caught(w, TRUE)
       \/ scope[w] # "try" /\ Return(w)
    /\ UNCHANGED << now, redis, mysql, client, ready, crashes, accepted >>

-----------------------------------------------------------------------------
(* The environment *)

AdvanceClock ==
    /\ now < Horizon
    /\ now' = now + 1
    /\ UNCHANGED << redis, mysql, client, worker, env, accepted >>

\* The provider connects or disconnects (whatsapp-web-provider.ts).
ProviderChange ==
    /\ ready' = ~ready
    /\ UNCHANGED << now, redis, mysql, client, worker, faults, crashes, accepted >>

\* The process is killed and starts again: every handler in flight is gone,
\* Redis and MySQL are not.  start() looks at neither sorted set.  The orderly
\* exits of shutdown() are those of ServerLifecycle.
\* Mutant for KeepsPromise: start() puts back what is left in processing.
RestartRequeues ==
    /\ crashes < MaxCrashes
    /\ crashes' = crashes + 1
    /\ pc' = [w \in Workers |-> "idle"]
    /\ hand' = [w \in Workers |-> {}]
    /\ found' = [w \in Workers |-> {}]
    /\ scope' = [w \in Workers |-> "outer"]
    /\ sender' = [m \in Msgs |-> IF sender[m] = "enqueue" THEN "done" ELSE sender[m]]
    /\ canceller' = [m \in Msgs |-> "idle"]
    /\ cancelFound' = [m \in Msgs |-> {}]
    /\ ready' = FALSE
    /\ queue' = queue \cup processing
    /\ UNCHANGED << now, processing, mysql, acked, faults, accepted >>

Restart ==
    /\ crashes < MaxCrashes
    /\ crashes' = crashes + 1
    /\ pc' = [w \in Workers |-> "idle"]
    /\ hand' = [w \in Workers |-> {}]
    /\ found' = [w \in Workers |-> {}]
    /\ scope' = [w \in Workers |-> "outer"]
    /\ sender' = [m \in Msgs |-> IF sender[m] = "enqueue" THEN "done" ELSE sender[m]]
    /\ canceller' = [m \in Msgs |-> "idle"]
    /\ cancelFound' = [m \in Msgs |-> {}]
    /\ ready' = FALSE
    /\ UNCHANGED << now, redis, mysql, acked, faults, accepted >>

SenderNext(m) == CreateMessage(m) \/ EnqueueMessage(m) \/ EnqueueFault(m)

RemoveMessage(m) ==
    \/ RemoveReadQueue(m) \/ RemoveFromQueue(m)
    \/ RemoveReadProcessing(m) \/ RemoveFromProcessing(m)

CancelNext(m) == CancelInDatabase(m) \/ RemoveMessage(m) \/ CancelFault(m)

\* The steps of an invocation that always come when it awaits there.
WorkerStep(w) ==
    \/ Poll(w) \/ Claim(w) \/ Unqueue(w) \/ Lookup(w)
    \/ SendAccepted(w) \/ SendRejected(w)
    \/ UpdateSent(w) \/ RecordSent(w) \/ UpdateFailed(w) \/ RecordFailed(w)
    \/ RetryRead(w) \/ RetryRemove(w) \/ RetryAdd(w) \/ RetryRecord(w)
    \/ MarkRead(w) \/ MarkRemove(w)

WorkerNext(w) == WorkerStep(w) \/ SendAnswerLost(w) \/ WorkerFault(w)

Next ==
    \/ \E m \in Msgs : SenderNext(m) \/ CancelNext(m)
    \/ \E w \in Workers : WorkerNext(w)
    \/ AdvanceClock \/ ProviderChange \/ Restart

Spec == Init /\ [][Next]_vars

\* The interval timer keeps firing, every awaited call settles and time passes.
\* Clients, the provider's connection and the faults owe nothing.
Fairness ==
    /\ WF_vars(AdvanceClock)
    /\ \A w \in Workers : WF_vars(WorkerStep(w))
    /\ \A m \in Msgs : WF_vars(EnqueueMessage(m)) /\ WF_vars(RemoveMessage(m))

FairSpec == Spec /\ Fairness

-----------------------------------------------------------------------------
(* Properties *)

\* Every variable stays in its range; in particular no entry, anywhere, has an
\* attempt number beyond MaxAttempts + 1 (queue-worker.ts 85 and 170).
TypeOK ==
    /\ now \in 0 .. Horizon
    /\ queue \subseteq Entry /\ processing \subseteq Entry
    /\ status \in [Msgs -> Status]
    /\ attempts \in [Msgs -> AttemptRows]
    /\ sender \in [Msgs -> {"idle", "enqueue", "done"}]
    /\ canceller \in [Msgs -> CancelStep]
    /\ cancelFound \in [Msgs -> SUBSET Entry]
    /\ acked \subseteq Msgs
    /\ pc \in [Workers -> Step]
    /\ hand \in [Workers -> SUBSET Entry]
    /\ found \in [Workers -> SUBSET Entry]
    /\ scope \in [Workers -> Scope]
    /\ ready \in BOOLEAN
    /\ accepted \in [Msgs -> Nat]
    /\ faults \in 0 .. MaxFaults
    /\ crashes \in 0 .. MaxCrashes

Holds(w, m) == EntriesOf(hand[w], m) # {}

\* Steps at which an invocation still owes the message an outcome.
Owing == {"claim", "unqueue", "lookup", "send", "sent_status",
          "retry_read", "retry_rem", "retry_add", "fail_status"}

\* As long as no call failed and the process did not exit, a message whose
\* client was answered 200 and that is still pending is in the queue or with an
\* invocation that will settle or requeue it, however invocations and DELETE
\* requests interleave: moving an entry between the two sets loses nothing.
NoLostMessage ==
    (faults = 0 /\ crashes = 0) =>
        \A m \in acked : status[m] = "pending" =>
            \/ EntriesOf(queue, m) # {}
            \/ \E w \in Workers : Holds(w, m) /\ pc[w] \in Owing

\* A message reported as sent was taken by WhatsApp, whatever fails.
SentWasAccepted ==
    \A m \in Msgs : status[m] = "sent" => accepted[m] > 0

\* The copies of a message that may still be sent: its entries in the queue,
\* and what an invocation has in hand before the send is decided.
Copies(m) ==
    EntriesOf(queue, m) \cup
    UNION {EntriesOf(hand[w], m) : w \in {v \in Workers : pc[v] \in Owing \ {"sent_status"}}}

\* When invocations do not overlap (a singleton Workers), every further time
\* that WhatsApp takes a message, or may still take it, was paid for by a failed call: errors after
\* the send, and scheduling a retry twice, cost one duplicate each.
SendBudget ==
    \A m \in Msgs : accepted[m] + Cardinality(Copies(m)) <= 1 + faults

\* Without overlap, faults and restarts the audit trail of a message has one
\* row for each attempt, in their order: the i-th row is that of attempt i, and
\* every row but the last is a retrying one (nothing is recorded any more once
\* a success or a failure is).  The table has no key that would keep a second
\* row of an attempt out, and an overlap of invocations does write one.
AuditTrail ==
    (faults = 0 /\ crashes = 0) =>
        \A m \in Msgs : \A i \in 1 .. Len(attempts[m]) :
            /\ attempts[m][i][1] = i
            /\ i < Len(attempts[m]) => attempts[m][i][2] = "retrying"

\* Without overlap and faults a message reported as sent keeps that status: no
\* later attempt and no DELETE turns it into a failed or cancelled one.
SentIsFinal ==
    [][faults' = 0 => \A m \in Msgs : status[m] = "sent" => status'[m] = "sent"]_vars

\* A message whose client was answered 200 does not stay pending for ever,
\* provided no call fails and the process does not exit: the provider may stay
\* away, attempts then run out and the message is failed.
Resolved ==
    \A m \in Msgs : (m \in acked) ~> (status[m] # "pending")

\* Without overlap, faults and restarts an acknowledged message is eventually
\* out of both sorted sets for good: sent, failed or cancelled, no entry of it
\* comes back or stays behind.
QueueDrains ==
    \A m \in Msgs :
        (m \in acked) ~> [](faults + crashes > 0 \/ EntriesOf(queue \cup processing, m) = {})

\* When invocations do not overlap, the queue keeps the promise of
\* DeliveryPromise, whatever the interleaving of the client's DELETE with the
\* worker, of retries, exits and lost answers: DELETE withdraws only what is
\* pending, WhatsApp is the receiver and a failed call is what may break it.
Promise == INSTANCE DeliveryPromise WITH
    Items <- Msgs,
    Withdrawable <- {"pending"},
    stage <- [m \in Msgs |-> CASE status[m] = "sent"      -> "delivered"
                               [] status[m] = "cancelled" -> "withdrawn"
                               [] OTHER                   -> status[m]],
    taken <- accepted,
    faulty <- faults > 0

KeepsPromise == Promise!Spec

\* queue-manager.ts 77: "Move to processing set to prevent duplicate
\* processing": no two invocations are past the claim of the same message.
NoDuplicateProcessing ==
    \A v, w \in Workers : \A m \in Msgs :
        (v # w /\ Holds(v, m) /\ Holds(w, m)) =>
            "claim" \in {pc[v], pc[w]} \/ "unqueue" \in {pc[v], pc[w]}

=============================================================================
