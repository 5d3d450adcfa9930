-------------------------- MODULE WebhookDelivery --------------------------
(***************************************************************************)
(* Delivery of incoming messages to the registered webhooks: the fan-out   *)
(* and the attempts (webhook-dispatcher.ts), the polling retry worker      *)
(* (webhook-queue-worker.ts) and the rows they keep                        *)
(* (webhook-repository.ts, migrations/002).                                *)
(*                                                                         *)
(* An agent is one run of an asynchronous function: dispatchToOne, of      *)
(* which each webhook and message have at most one, or an invocation of    *)
(* pollAndRetry.  Invocations overlap when one takes longer than the       *)
(* worker's interval; a singleton Workers is the case in which they do     *)
(* not.  An action is the code from one await to the next.                 *)
(***************************************************************************)
EXTENDS Naturals, Sequences, FiniteSets

CONSTANTS
    Webhooks,    \* webhook_configs.id
    Messages,    \* ids of incoming messages
    Workers,     \* invocations of pollAndRetry that may overlap
    MaxRetries,  \* WEBHOOK_CONFIG.MAX_RETRIES
    RetryDelays, \* WEBHOOK_CONFIG.RETRY_DELAYS, in clock ticks
    Horizon,     \* bound: the clock, and every retry time, stop here
    MaxFaults,   \* bound: failing Redis or MySQL calls and lost answers
    MaxCrashes   \* bound: exits of the process

\* webhook_deliveries: one row, with its own id, per webhook and message.
Deliveries == Webhooks \X Messages
Agents == Deliveries \cup Workers

ASSUME DeliveryConstants ==
    /\ Workers \cap Deliveries = {}
    /\ MaxRetries \in Nat \ {0}
    /\ RetryDelays \in Seq(Nat)
    /\ RetryDelays # << >>
    /\ Horizon \in Nat /\ MaxFaults \in Nat /\ MaxCrashes \in Nat

VARIABLES
    now,        \* Date.now(), saturated at Horizon
    queue,      \* sorted set QUEUE_KEY: a member is a delivery id, its score a time
    processing, \* sorted set PROCESSING_SET_KEY; its scores are never read
    cached,     \* messages whose payload is in Redis
    configs,    \* rows of webhook_configs
    status,     \* webhook_deliveries.status, "none" where there is no row
    count,      \* webhook_deliveries.attempt_count
    attempts,   \* webhook_delivery_attempts: <<attempt_number, status>> in order
    fan,        \* progress of dispatch() for each message
    targets,    \* the webhooks dispatch() has selected
    pc,         \* where each agent awaits
    job,        \* what an agent works on, if anything
    posts,      \* POST requests made for a delivery (a history variable)
    received,   \* POST requests its endpoint answered 2xx (a history variable)
    faults,     \* calls that failed so far
    crashes     \* exits of the process so far

redis    == << queue, processing, cached >>
rows     == << status, count, attempts >>
dispatch == << fan, targets >>
agent    == << pc, job >>
history  == << posts, received >>
bounds   == << faults, crashes >>
vars     == << now, redis, configs, rows, dispatch, agent, history, bounds >>

-----------------------------------------------------------------------------
(* Data *)

Smaller(a, b) == IF a <= b THEN a ELSE b

QueueEntry == [id : Deliveries, at : 0 .. Horizon]

\* attempt is 0 until the worker has read the row.
Job == [id : Deliveries, attempt : Nat, retryAt : 0 .. Horizon]

\* "delivering" is declared by DeliveryStatus but never written.
DeliveryStatus == {"none", "pending", "success", "failed"}
AttemptStatus == {"success", "failed", "retrying"}

\* Where an agent can await.
Step == {"idle", "create",
         "claim", "unqueue", "load", "config", "payload", "gone_status", "drop", "cleanup",
         "post", "ok_record", "ok_status", "bad_record", "bad_status",
         "retry_record", "retry_status", "retry_add", "retry_incr",
         "give_record", "give_status"}

\* enqueueRetry's own try block swallows what fails in it.
InEnqueueRetry == {"retry_record", "retry_status", "retry_add", "retry_incr",
                   "give_record", "give_status"}

\* The awaits after fetch, in the try block whose catch calls enqueueRetry.
InFetch == {"ok_record", "ok_status", "bad_record", "bad_status"}

Due == {e \in queue : e.at <= now}
Earliest(S) == {e \in S : \A f \in S : e.at <= f.at}

\* RETRY_DELAYS[attemptNumber - 1], or the last of them.
RetryTime(attempt) ==
    Smaller(now + RetryDelays[Smaller(attempt, Len(RetryDelays))], Horizon)

\* Mutant for PostBudget: the last attempt is followed by one more.
ExhaustedLate(attempt) == attempt > MaxRetries

\* nextAttemptNumber > MAX_RETRIES.
Exhausted(attempt) == attempt + 1 > MaxRetries

Exists(d) == status[d] # "none"

\* updateDeliveryStatus changes nothing when the row is gone.
SetStatus(d, s) == status' = [status EXCEPT ![d] = IF Exists(d) THEN s ELSE @]

\* recordDeliveryAttempt: the foreign key needs the row.
RecordAttempt(j, outcome) ==
    /\ Exists(j.id)
    /\ attempts' = [attempts EXCEPT ![j.id] = Append(@, <<j.attempt, outcome>>)]

Goto(a, step) == pc' = [pc EXCEPT ![a] = step]

Idle(a) ==
    /\ pc' = [pc EXCEPT ![a] = "idle"]
    /\ job' = [job EXCEPT ![a] = {}]

\* attemptDelivery has returned: dispatchToOne is over, pollAndRetry goes on
\* to its finally block.
Finish(a) ==
    \/ a \in Workers /\ Goto(a, "cleanup") /\ UNCHANGED job
    \/ a \in Deliveries /\ Idle(a)

\* enqueueRetry up to its first await: give up, or fix the time of the retry.
EnqueueRetry(a) ==
    \E j \in job[a] :
        \/ /\ Exhausted(j.attempt)
           /\ Goto(a, "give_record")
           /\ UNCHANGED job
        \/ /\ ~Exhausted(j.attempt)
           /\ Goto(a, "retry_record")
           /\ job' = [job EXCEPT ![a] = {[j EXCEPT !.retryAt = RetryTime(j.attempt)]}]

Fail ==
    /\ faults < MaxFaults
    /\ faults' = faults + 1

Init ==
    /\ now = 0
    /\ queue = {} /\ processing = {} /\ cached = {}
    /\ configs = Webhooks
    /\ status = [d \in Deliveries |-> "none"]
    /\ count = [d \in Deliveries |-> 0]
    /\ attempts = [d \in Deliveries |-> << >>]
    /\ fan = [m \in Messages |-> "new"]
    /\ targets = [m \in Messages |-> {}]
    /\ pc = [a \in Agents |-> "idle"]
    /\ job = [a \in Agents |-> {}]
    /\ posts = [d \in Deliveries |-> 0]
    /\ received = [d \in Deliveries |-> 0]
    /\ faults = 0 /\ crashes = 0

-----------------------------------------------------------------------------
(* dispatch(message): the payload is cached before the filters are applied, *)
(* then one dispatchToOne per selected webhook starts.                     *)

\* listActiveWebhooks.  Which of the rows are active and match the message's
\* type, group and sender filters is left open.  The first alternative is also
\* the end of a dispatch whose read fails, by the pool or because a selected row
\* has a value in its column filters (MessageFlow's Dispatch): the catch of
\* dispatch() sends to nobody.
ListActive(m) ==
    /\ fan[m] = "new"
    /\ \/ fan' = [fan EXCEPT ![m] = "done"] /\ UNCHANGED targets
       \/ \E selected \in SUBSET configs :
             /\ configs # {}
             /\ targets' = [targets EXCEPT ![m] = selected]
             /\ fan' = [fan EXCEPT ![m] = "cache"]
    /\ UNCHANGED << now, redis, configs, rows, agent, history, bounds >>

CachePayload(m) ==
    /\ fan[m] = "cache"
    /\ cached' = cached \cup {m}
    /\ fan' = [fan EXCEPT ![m] = "done"]
    /\ pc' = [a \in Agents |-> IF a \in targets[m] \X {m} THEN "create" ELSE pc[a]]
    /\ UNCHANGED << now, queue, processing, configs, rows, targets, job, history, bounds >>

\* Either call fails: the message is dispatched to nobody.
DispatchFault(m) ==
    /\ fan[m] # "done"
    /\ Fail
    /\ fan' = [fan EXCEPT ![m] = "done"]
    /\ UNCHANGED << now, redis, configs, rows, targets, agent, history, crashes >>

\* createDelivery and the first lines of attemptDelivery.  The foreign key
\* fails, and dispatchToOne logs it, when the webhook was deleted meanwhile.
CreateDelivery(d) ==
    /\ pc[d] = "create"
    /\ \/ /\ d[1] \in configs
          /\ status' = [status EXCEPT ![d] = "pending"]
          /\ job' = [job EXCEPT ![d] = {[id |-> d, attempt |-> 1, retryAt |-> 0]}]
          /\ Goto(d, "post")
       \/ d[1] \notin configs /\ Idle(d) /\ UNCHANGED status
    /\ UNCHANGED << now, redis, configs, count, attempts, dispatch, history, bounds >>

-----------------------------------------------------------------------------
(* attemptDelivery, run by agent a. *)

Posted(a) == \E j \in job[a] : posts' = [posts EXCEPT ![j.id] = @ + 1]
Answered2xx(a) == \E j \in job[a] : received' = [received EXCEPT ![j.id] = @ + 1]

\* Mutant for KeepsPromise: a 2xx answer falls through to the retry.
PostAcceptedFallsThrough(a) ==
    /\ pc[a] = "post"
    /\ Posted(a)
    /\ Answered2xx(a)
    /\ EnqueueRetry(a)
    /\ UNCHANGED << now, redis, configs, rows, dispatch, bounds >>

PostAccepted(a) ==
    /\ pc[a] = "post"
    /\ Posted(a)
    /\ Answered2xx(a)
    /\ Goto(a, "ok_record")
    /\ UNCHANGED << now, redis, configs, rows, dispatch, job, bounds >>

\* Mutant for SuccessWasReceived: only a 5xx counts as a failure.
PostRejectedOk(a) ==
    /\ pc[a] = "post"
    /\ Posted(a)
    /\ Goto(a, "ok_record")
    /\ UNCHANGED << now, redis, configs, rows, dispatch, job, received, bounds >>

\* A 4xx answer, its body read: "likely a configuration error, fail permanently".
PostRejected(a) ==
    /\ pc[a] = "post"
    /\ Posted(a)
    /\ Goto(a, "bad_record")
    /\ UNCHANGED << now, redis, configs, rows, dispatch, job, received, bounds >>

\* A 5xx answer, or no connection.
PostFailed(a) ==
    /\ pc[a] = "post"
    /\ Posted(a)
    /\ EnqueueRetry(a)
    /\ UNCHANGED << now, redis, configs, rows, dispatch, received, bounds >>

\* The endpoint took the message, its answer was lost or came after
\* REQUEST_TIMEOUT.
PostAnswerLost(a) ==
    /\ pc[a] = "post"
    /\ Fail
    /\ Posted(a)
    /\ Answered2xx(a)
    /\ EnqueueRetry(a)
    /\ UNCHANGED << now, redis, configs, rows, dispatch, crashes >>

RecordOutcome(a) ==
    /\ \E j \in job[a] :
          \/ pc[a] = "ok_record" /\ RecordAttempt(j, "success") /\ Goto(a, "ok_status")
          \/ pc[a] = "bad_record" /\ RecordAttempt(j, "failed") /\ Goto(a, "bad_status")
    /\ UNCHANGED << now, redis, configs, status, count, dispatch, job, history, bounds >>

\* The row was deleted with its webhook: the INSERT fails inside the try block
\* of fetch, and the failure is handled as a failed connection.
RecordOrphan(a) ==
    /\ pc[a] \in {"ok_record", "bad_record"}
    /\ \E j \in job[a] : ~Exists(j.id)
    /\ EnqueueRetry(a)
    /\ UNCHANGED << now, redis, configs, rows, dispatch, history, bounds >>

UpdateOutcome(a) ==
    /\ \E j \in job[a] :
          \/ pc[a] = "ok_status" /\ SetStatus(j.id, "success")
          \/ pc[a] = "bad_status" /\ SetStatus(j.id, "failed")
    /\ Finish(a)
    /\ UNCHANGED << now, redis, configs, count, attempts, dispatch, history, bounds >>

-----------------------------------------------------------------------------
(* enqueueRetry: INSERT the attempt, UPDATE the status, zAdd, and only then *)
(* UPDATE attempt_count.                                                   *)

RetryRecord(a) ==
    /\ pc[a] = "retry_record"
    /\ \E j \in job[a] : RecordAttempt(j, "retrying")
    /\ Goto(a, "retry_status")
    /\ UNCHANGED << now, redis, configs, status, count, dispatch, job, history, bounds >>

RetryStatus(a) ==
    /\ pc[a] = "retry_status"
    /\ \E j \in job[a] : SetStatus(j.id, "pending")
    /\ Goto(a, "retry_add")
    /\ UNCHANGED << now, redis, configs, count, attempts, dispatch, job, history, bounds >>

\* Mutant for NoLostDelivery: the entry is never queued.
RetryAddNot(a) ==
    /\ pc[a] = "retry_add"
    /\ Goto(a, "retry_incr")
    /\ UNCHANGED << now, redis, configs, rows, dispatch, job, history, bounds >>

\* zAdd of a member that is there already changes its score.
RetryAdd(a) ==
    /\ pc[a] = "retry_add"
    /\ \E j \in job[a] :
          queue' = {e \in queue : e.id # j.id} \cup {[id |-> j.id, at |-> j.retryAt]}
    /\ Goto(a, "retry_incr")
    /\ UNCHANGED << now, processing, cached, configs, rows, dispatch, job, history, bounds >>

IncrementAttempt(a) ==
    /\ pc[a] = "retry_incr"
    /\ \E j \in job[a] : count' = [count EXCEPT ![j.id] = IF Exists(j.id) THEN @ + 1 ELSE @]
    /\ Finish(a)
    /\ UNCHANGED << now, redis, configs, status, attempts, dispatch, history, bounds >>

GiveUpRecord(a) ==
    /\ pc[a] = "give_record"
    /\ \E j \in job[a] : RecordAttempt(j, "failed")
    /\ Goto(a, "give_status")
    /\ UNCHANGED << now, redis, configs, status, count, dispatch, job, history, bounds >>

\* Mutant for Settled: the row is left pending.
GiveUpStatusNot(a) ==
    /\ pc[a] = "give_status"
    /\ Finish(a)
    /\ UNCHANGED << now, redis, configs, rows, dispatch, history, bounds >>

GiveUpStatus(a) ==
    /\ pc[a] = "give_status"
    /\ \E j \in job[a] : SetStatus(j.id, "failed")
    /\ Finish(a)
    /\ UNCHANGED << now, redis, configs, count, attempts, dispatch, history, bounds >>

\* enqueueRetry's INSERT fails because the row is gone; the error is swallowed.
RetryOrphan(a) ==
    /\ pc[a] \in {"retry_record", "give_record"}
    /\ \E j \in job[a] : ~Exists(j.id)
    /\ Finish(a)
    /\ UNCHANGED << now, redis, configs, rows, dispatch, history, bounds >>

\* An awaited Redis or MySQL call throws.
AttemptFault(a) ==
    /\ Fail
    /\ \/ pc[a] \in InFetch /\ EnqueueRetry(a)
       \/ pc[a] \in InEnqueueRetry \cup {"create"} /\ Finish(a)
    /\ UNCHANGED << now, redis, configs, rows, dispatch, history, crashes >>

-----------------------------------------------------------------------------
(* pollAndRetry, one invocation w. *)

Poll(w) ==
    /\ pc[w] = "idle"
    /\ \E e \in Earliest(Due) :
          job' = [job EXCEPT ![w] = {[id |-> e.id, attempt |-> 0, retryAt |-> 0]}]
    /\ Goto(w, "claim")
    /\ UNCHANGED << now, redis, configs, rows, dispatch, history, bounds >>

Claim(w) ==
    /\ pc[w] = "claim"
    /\ processing' = processing \cup {j.id : j \in job[w]}
    /\ Goto(w, "unqueue")
    /\ UNCHANGED << now, queue, cached, configs, rows, dispatch, job, history, bounds >>

\* zRem takes the delivery id, whatever score it has by now.
Unqueue(w) ==
    /\ pc[w] = "unqueue"
    /\ queue' = {e \in queue : \A j \in job[w] : e.id # j.id}
    /\ Goto(w, "load")
    /\ UNCHANGED << now, processing, cached, configs, rows, dispatch, job, history, bounds >>

\* getDeliveryById: attempt_count is used once the two next calls are over.
Load(w) ==
    /\ pc[w] = "load"
    /\ \E j \in job[w] :
          \/ ~Exists(j.id) /\ Goto(w, "drop") /\ UNCHANGED job
          \/ /\ Exists(j.id)
             /\ job' = [job EXCEPT ![w] = {[j EXCEPT !.attempt = count[j.id] + 1]}]
             /\ Goto(w, "config")
    /\ UNCHANGED << now, redis, configs, rows, dispatch, history, bounds >>

\* getWebhookById; whether the webhook is still active is not looked at.
GetWebhook(w) ==
    /\ pc[w] = "config"
    /\ \E j \in job[w] : Goto(w, IF j.id[1] \in configs THEN "payload" ELSE "gone_status")
    /\ UNCHANGED << now, redis, configs, rows, dispatch, job, history, bounds >>

\* getEx, then attemptDelivery starts.
GetPayload(w) ==
    /\ pc[w] = "payload"
    /\ \E j \in job[w] : Goto(w, IF j.id[2] \in cached THEN "post" ELSE "gone_status")
    /\ UNCHANGED << now, redis, configs, rows, dispatch, job, history, bounds >>

\* Mutant for TypeOK: a value the column's ENUM does not declare, which the
\* cast "as any" would let through.
FailGoneUndeclared(w) ==
    /\ pc[w] = "gone_status"
    /\ \E j \in job[w] : SetStatus(j.id, "deleted")
    /\ Goto(w, "drop")
    /\ UNCHANGED << now, redis, configs, count, attempts, dispatch, job, history, bounds >>

\* The webhook or the payload is gone.
FailGone(w) ==
    /\ pc[w] = "gone_status"
    /\ \E j \in job[w] : SetStatus(j.id, "failed")
    /\ Goto(w, "drop")
    /\ UNCHANGED << now, redis, configs, count, attempts, dispatch, job, history, bounds >>

\* zRem of an early return; the finally block follows.
Drop(w) ==
    /\ pc[w] = "drop"
    /\ processing' = processing \ {j.id : j \in job[w]}
    /\ Goto(w, "cleanup")
    /\ UNCHANGED << now, queue, cached, configs, rows, dispatch, job, history, bounds >>

Cleanup(w) ==
    /\ pc[w] = "cleanup"
    /\ processing' = processing \ {j.id : j \in job[w]}
    /\ Idle(w)
    /\ UNCHANGED << now, queue, cached, configs, rows, dispatch, history, bounds >>

\* Before the inner try block and in its finally block only the outer catch
\* is left; inside it the finally block runs.
PollFault(w) ==
    /\ Fail
    /\ \/ pc[w] \in {"claim", "unqueue", "cleanup"} /\ Idle(w)
       \/ /\ pc[w] \in {"load", "config", "payload", "gone_status", "drop"}
          /\ Goto(w, "cleanup")
          /\ UNCHANGED job
    /\ UNCHANGED << now, redis, configs, rows, dispatch, history, crashes >>

-----------------------------------------------------------------------------
(* The environment *)

\* DELETE /webhooks/:id; ON DELETE CASCADE takes the deliveries and attempts.
DeleteWebhook(h) ==
    /\ h \in configs
    /\ configs' = configs \ {h}
    /\ status' = [d \in Deliveries |-> IF d[1] = h THEN "none" ELSE status[d]]
    /\ count' = [d \in Deliveries |-> IF d[1] = h THEN 0 ELSE count[d]]
    /\ attempts' = [d \in Deliveries |-> IF d[1] = h THEN << >> ELSE attempts[d]]
    /\ UNCHANGED << now, redis, dispatch, agent, history, bounds >>

\* PAYLOAD_TTL has passed since the payload was written or last read.
ExpirePayload(m) ==
    /\ m \in cached
    /\ cached' = cached \ {m}
    /\ UNCHANGED << now, queue, processing, configs, rows, dispatch, agent, history, bounds >>

AdvanceClock ==
    /\ now < Horizon
    /\ now' = now + 1
    /\ UNCHANGED << redis, configs, rows, dispatch, agent, history, bounds >>

\* The process ends and starts again; stop() waits for no invocation either.
Restart ==
    /\ crashes < MaxCrashes
    /\ crashes' = crashes + 1
    /\ pc' = [a \in Agents |-> "idle"]
    /\ job' = [a \in Agents |-> {}]
    /\ fan' = [m \in Messages |-> IF fan[m] = "cache" THEN "done" ELSE fan[m]]
    /\ UNCHANGED << now, redis, configs, rows, targets, history, faults >>

AttemptStep(a) ==
    \/ PostAccepted(a) \/ PostRejected(a) \/ PostFailed(a)
    \/ RecordOutcome(a) \/ RecordOrphan(a) \/ UpdateOutcome(a)
    \/ RetryRecord(a) \/ RetryStatus(a) \/ RetryAdd(a) \/ IncrementAttempt(a)
    \/ GiveUpRecord(a) \/ GiveUpStatus(a) \/ RetryOrphan(a)

DispatchStep(d) == CreateDelivery(d) \/ AttemptStep(d)

WorkerStep(w) ==
    \/ Poll(w) \/ Claim(w) \/ Unqueue(w) \/ Load(w) \/ GetWebhook(w) \/ GetPayload(w)
    \/ FailGone(w) \/ Drop(w) \/ Cleanup(w) \/ AttemptStep(w)

Faulty ==
    \/ \E m \in Messages : DispatchFault(m)
    \/ \E a \in Agents : PostAnswerLost(a) \/ AttemptFault(a)
    \/ \E w \in Workers : PollFault(w)

Next ==
    \/ \E m \in Messages : ListActive(m) \/ CachePayload(m) \/ ExpirePayload(m)
    \/ \E d \in Deliveries : DispatchStep(d)
    \/ \E w \in Workers : WorkerStep(w)
    \/ \E h \in Webhooks : DeleteWebhook(h)
    \/ AdvanceClock \/ Restart \/ Faulty

Spec == Init /\ [][Next]_vars

\* The worker's interval keeps firing, every awaited call settles and time passes.
\* fetch has a timeout, but it is cleared before the body of a 4xx or 5xx answer
\* is read (165, 190): that a receiver finishes its body is assumed.
Fairness ==
    /\ WF_vars(AdvanceClock)
    /\ \A d \in Deliveries : WF_vars(DispatchStep(d))
    /\ \A w \in Workers : WF_vars(WorkerStep(w))

FairSpec == Spec /\ Fairness

-----------------------------------------------------------------------------
(* Properties *)

\* Every variable stays in its range; an agent has a job exactly where the
\* code has a delivery at hand, and a delivery is queued at most once.
TypeOK ==
    /\ now \in 0 .. Horizon
    /\ queue \subseteq QueueEntry
    /\ \A e, f \in queue : e.id = f.id => e = f
    /\ processing \subseteq Deliveries
    /\ cached \subseteq Messages
    /\ configs \subseteq Webhooks
    /\ status \in [Deliveries -> DeliveryStatus]
    /\ count \in [Deliveries -> Nat]
    /\ attempts \in [Deliveries -> Seq(Nat \X AttemptStatus)]
    /\ fan \in [Messages -> {"new", "cache", "done"}]
    /\ targets \in [Messages -> SUBSET Webhooks]
    /\ pc \in [Agents -> Step]
    /\ job \in [Agents -> SUBSET Job]
    /\ posts \in [Deliveries -> Nat]
    /\ received \in [Deliveries -> Nat]
    /\ faults \in 0 .. MaxFaults
    /\ crashes \in 0 .. MaxCrashes

WorksOn(a, d) == \E j \in job[a] : j.id = d

\* Steps after which an agent settles the delivery or queues it again.
Owing == {"claim", "unqueue", "load", "config", "payload", "gone_status",
          "post", "ok_record", "ok_status", "bad_record", "bad_status",
          "retry_record", "retry_status", "retry_add", "give_record", "give_status"}

\* A row says success only if the endpoint answered 2xx, whatever fails.
SuccessWasReceived ==
    \A d \in Deliveries : status[d] = "success" => received[d] > 0

\* When invocations do not overlap, a delivery is POSTed at most
\* MAX_RETRIES + 1 times: once more than the attempts the code counts, because
\* the worker can read attempt_count before dispatchToOne has incremented it.
\* Every POST beyond that was paid for by a failed call or an exit, each of
\* which can lose one increment.
PostBudget ==
    \A d \in Deliveries : posts[d] <= MaxRetries + 1 + faults + crashes

\* As long as no call failed and the process did not exit, a pending delivery
\* is queued or with an agent that will settle or queue it, even when two
\* invocations of the worker take the same entry and remove it by its id.
NoLostDelivery ==
    (faults = 0 /\ crashes = 0) =>
        \A d \in Deliveries : status[d] = "pending" =>
            \/ \E e \in queue : e.id = d
            \/ \E a \in Agents : WorksOn(a, d) /\ pc[a] \in Owing

\* When invocations of the worker do not overlap, a delivery keeps the promise
\* of DeliveryPromise beside the first attempt, retries, exits and a DELETE of
\* its webhook at any point: the endpoint is the receiver, deleting the webhook
\* withdraws its deliveries, and an attempt under way then writes nothing.
Promise == INSTANCE DeliveryPromise WITH
    Items <- Deliveries,
    Withdrawable <- {"none", "pending", "delivered", "failed"},
    stage <- [d \in Deliveries |-> CASE status[d] = "success" -> "delivered"
                                     [] status[d] = "none" /\ d[1] \notin configs -> "withdrawn"
                                     [] OTHER -> status[d]],
    taken <- received,
    faulty <- faults > 0

KeepsPromise == Promise!Spec

\* A pending delivery is eventually settled or deleted, provided no call fails
\* and the process does not exit, even if every POST fails.
Settled == \A d \in Deliveries : (status[d] = "pending") ~> (status[d] # "pending")

=============================================================================
