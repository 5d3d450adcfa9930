----------------------- MODULE WebhookDeliveryProofs -----------------------
(***************************************************************************)
(* Theorems about WebhookDelivery, for any webhooks, messages, invocations *)
(* of the worker, table of delays and numbers of faults and restarts.      *)
(***************************************************************************)
EXTENDS WebhookDelivery, SequenceTheorems, TLAPS

-----------------------------------------------------------------------------
(* Type correctness *)

\* Where an agent is in an attempt.
Attempting == {"config", "payload", "post", "ok_record", "ok_status", "bad_record", "bad_status"}

\* What an agent works on is one delivery.
OneJob == \A a \in Agents : \A i, j \in job[a] : i = j

\* The agents are well formed, and one that is in an attempt has a number for
\* it, so that the delay of its retry is in the table.
AgentInv ==
    /\ OneJob
    /\ pc \in [Agents -> Step]
    /\ job \in [Agents -> SUBSET Job]
    /\ \A a \in Agents : pc[a] \in Attempting => \A j \in job[a] : j.attempt >= 1

TypeInv == TypeOK /\ AgentInv

\* The delay enqueueRetry takes from RETRY_DELAYS is in the table.
LEMMA RetryTimeType ==
    ASSUME NEW n \in Nat, n >= 1, now \in 0 .. Horizon
    PROVE  RetryTime(n) \in 0 .. Horizon
<1>1. Len(RetryDelays) \in Nat \ {0}
  BY DeliveryConstants, EmptySeq, LenProperties
<1>2. Smaller(n, Len(RetryDelays)) \in 1 .. Len(RetryDelays)
  BY <1>1 DEF Smaller
<1>3. RetryDelays[Smaller(n, Len(RetryDelays))] \in Nat
  BY <1>2, DeliveryConstants, ElementOfSeq
<1>. QED
  BY <1>3, DeliveryConstants DEF RetryTime, Smaller

\* A change of pc and job in which agent a gets the step s and the jobs J.
LEMMA AgentStep ==
    ASSUME AgentInv, NEW a \in Agents, NEW s \in Step, NEW J \in SUBSET Job,
           \A i, j \in J : i = j, s \in Attempting => \A j \in J : j.attempt >= 1,
           pc' = [pc EXCEPT ![a] = s], job' = [job EXCEPT ![a] = J]
    PROVE  AgentInv'
<1>1. pc' \in [Agents -> Step] /\ job' \in [Agents -> SUBSET Job]
  BY DEF AgentInv
<1>2. ASSUME NEW b \in Agents, pc'[b] \in Attempting, NEW j \in job'[b] PROVE j.attempt >= 1
  <2>1. CASE b = a
    BY <1>2, <2>1 DEF AgentInv
  <2>2. CASE b # a
    BY <1>2, <2>2 DEF AgentInv
  <2>. QED
    BY <2>1, <2>2
<1>3. ASSUME NEW b \in Agents, NEW i \in job'[b], NEW j \in job'[b] PROVE i = j
  <2>1. CASE b = a
    BY <1>3, <2>1 DEF AgentInv
  <2>2. CASE b # a
    BY <1>3, <2>2 DEF AgentInv, OneJob
  <2>. QED
    BY <2>1, <2>2
<1>. QED
  BY <1>1, <1>2, <1>3 DEF AgentInv, OneJob

\* The agent awaits elsewhere with the job it had.
LEMMA GotoType ==
    ASSUME AgentInv, NEW a \in Agents, NEW s \in Step, Goto(a, s), UNCHANGED job,
           s \in Attempting => \A j \in job[a] : j.attempt >= 1
    PROVE  AgentInv'
<1>1. job[a] \in SUBSET Job /\ (\A i, j \in job[a] : i = j) /\ job' = [job EXCEPT ![a] = job[a]]
  BY DEF AgentInv, OneJob
<1>. QED
  BY <1>1, AgentStep DEF Goto

\* The agent is done: it has no job left.
LEMMA IdleType ==
    ASSUME AgentInv, NEW a \in Agents, Idle(a)
    PROVE  AgentInv'
<1>1. "idle" \in Step /\ "idle" \notin Attempting
  BY DEF Step, Attempting
<1>. QED
  BY <1>1, AgentStep, {} \in SUBSET Job DEF Idle

\* The end of attemptDelivery, for the dispatcher and for the worker.
LEMMA FinishType ==
    ASSUME AgentInv, NEW a \in Agents, Finish(a)
    PROVE  AgentInv'
<1>1. "cleanup" \in Step /\ "cleanup" \notin Attempting
  BY DEF Step, Attempting
<1>. QED
  BY <1>1, GotoType, IdleType DEF Finish

\* enqueueRetry up to its first await, from every step of an attempt.
LEMMA EnqueueRetryType ==
    ASSUME TypeOK, AgentInv, NEW a \in Agents, EnqueueRetry(a), pc[a] \in Attempting
    PROVE  AgentInv'
<1>1. PICK j \in job[a] :
          \/ Goto(a, "give_record") /\ UNCHANGED job
          \/ /\ Goto(a, "retry_record")
             /\ job' = [job EXCEPT ![a] = {[j EXCEPT !.retryAt = RetryTime(j.attempt)]}]
  BY Zenon DEF EnqueueRetry
<1>2. j \in Job /\ j.attempt \in Nat /\ j.attempt >= 1
  BY DEF AgentInv, Job
<1>3. RetryTime(j.attempt) \in 0 .. Horizon
  BY <1>2, RetryTimeType DEF TypeOK
<1>4. [j EXCEPT !.retryAt = RetryTime(j.attempt)] \in Job
  BY <1>2, <1>3 DEF Job
<1>5. {"give_record", "retry_record"} \subseteq Step \ Attempting
  BY DEF Step, Attempting
<1>6. CASE Goto(a, "give_record") /\ UNCHANGED job
  BY <1>5, <1>6, GotoType
<1>7. CASE /\ Goto(a, "retry_record")
           /\ job' = [job EXCEPT ![a] = {[j EXCEPT !.retryAt = RetryTime(j.attempt)]}]
  <2>1. {[j EXCEPT !.retryAt = RetryTime(j.attempt)]} \in SUBSET Job
    BY <1>4
  <2>. QED
    BY <1>5, <1>7, <2>1, AgentStep DEF Goto
<1>. QED
  BY <1>1, <1>6, <1>7

\* recordDeliveryAttempt appends a row of the right form.
LEMMA RecordType ==
    ASSUME TypeOK, NEW j \in Job, NEW outcome \in AttemptStatus, RecordAttempt(j, outcome)
    PROVE  attempts' \in [Deliveries -> Seq(Nat \X AttemptStatus)]
<1>1. <<j.attempt, outcome>> \in Nat \X AttemptStatus
  BY DEF Job
<1>2. ASSUME NEW d \in Deliveries PROVE Append(attempts[d], <<j.attempt, outcome>>) \in Seq(Nat \X AttemptStatus)
  BY <1>1, AppendProperties DEF TypeOK
<1>. QED
  BY <1>2 DEF TypeOK, RecordAttempt

\* The history variables count.
LEMMA PostedType ==
    ASSUME TypeOK, AgentInv, NEW a \in Agents, Posted(a)
    PROVE  posts' \in [Deliveries -> Nat]
<1>1. PICK j \in job[a] : posts' = [posts EXCEPT ![j.id] = @ + 1]
  BY DEF Posted
<1>2. j.id \in Deliveries
  BY DEF AgentInv, Job
<1>. QED
  BY <1>1, <1>2 DEF TypeOK

\* So does the count of 2xx answers.
LEMMA ReceivedType ==
    ASSUME TypeOK, AgentInv, NEW a \in Agents, Answered2xx(a)
    PROVE  received' \in [Deliveries -> Nat]
<1>1. PICK j \in job[a] : received' = [received EXCEPT ![j.id] = @ + 1]
  BY DEF Answered2xx
<1>2. j.id \in Deliveries
  BY DEF AgentInv, Job
<1>. QED
  BY <1>1, <1>2 DEF TypeOK

\* The number of faults stays within its bound.
LEMMA FailType ==
    ASSUME TypeOK, Fail
    PROVE  faults' \in 0 .. MaxFaults
  BY DeliveryConstants DEF TypeOK, Fail

\* The ids of what an agent has at hand.
LEMMA JobIds ==
    ASSUME AgentInv, NEW a \in Agents
    PROVE  {j.id : j \in job[a]} \subseteq Deliveries
  BY DEF AgentInv, Job

\* The initial state is well formed.
LEMMA DeliveryInit == Init => TypeInv
  BY DeliveryConstants, EmptySeq
  DEF Init, TypeInv, TypeOK, AgentInv, OneJob, Attempting, DeliveryStatus, Step

\* Every step keeps all variables and agents well formed.
LEMMA DeliveryTypeNext == TypeInv /\ [Next]_vars => TypeInv'
<1>. SUFFICES ASSUME TypeInv, [Next]_vars PROVE TypeInv'
  OBVIOUS
<1>1. ASSUME NEW m \in Messages, ListActive(m) PROVE TypeInv'
  BY <1>1 DEF TypeInv, TypeOK, AgentInv, OneJob, ListActive, redis, rows, agent, history, bounds
<1>2. ASSUME NEW m \in Messages, CachePayload(m) PROVE TypeInv'
  <2>1. AgentInv'
    BY <1>2 DEF TypeInv, AgentInv, OneJob, Step, Attempting, CachePayload
  <2>. QED
    BY <1>2, <2>1 DEF TypeInv, TypeOK, AgentInv, CachePayload, rows, history, bounds
<1>3. ASSUME NEW m \in Messages, ExpirePayload(m) PROVE TypeInv'
  BY <1>3
  DEF TypeInv, TypeOK, AgentInv, OneJob, ExpirePayload, rows, dispatch, agent, history, bounds
<1>4. ASSUME NEW m \in Messages, DispatchFault(m) PROVE TypeInv'
  BY <1>4, DeliveryConstants
  DEF TypeInv, TypeOK, AgentInv, OneJob, DispatchFault, Fail, redis, rows, agent, history
<1>5. ASSUME NEW d \in Deliveries, CreateDelivery(d) PROVE TypeInv'
  <2>2. CASE /\ status' = [status EXCEPT ![d] = "pending"]
             /\ job' = [job EXCEPT ![d] = {[id |-> d, attempt |-> 1, retryAt |-> 0]}]
             /\ Goto(d, "post")
    <3>. DEFINE J == {[id |-> d, attempt |-> 1, retryAt |-> 0]}
    <3>1. J \in SUBSET Job /\ (\A i, j \in J : i = j) /\ (\A j \in J : j.attempt >= 1)
      BY DeliveryConstants DEF Job
    <3>2. pc' = [pc EXCEPT ![d] = "post"] /\ job' = [job EXCEPT ![d] = J]
      BY <2>2 DEF Goto
    <3>3. "post" \in Step /\ d \in Agents
      BY DEF Step, Agents
    <3>. HIDE DEF J
    <3>4. AgentInv'
      BY <3>1, <3>2, <3>3, AgentStep DEF TypeInv
    <3>. QED
      BY <1>5, <2>2, <3>4
      DEF TypeInv, TypeOK, AgentInv, DeliveryStatus, CreateDelivery, redis, dispatch, history,
         bounds
  <2>3. CASE Idle(d) /\ UNCHANGED status
    <3>1. AgentInv'
      BY <2>3, IdleType DEF TypeInv, Agents
    <3>. QED
      BY <1>5, <2>3, <3>1
      DEF TypeInv, TypeOK, AgentInv, CreateDelivery, redis, dispatch, history, bounds
  <2>. QED
    BY <1>5, <2>2, <2>3 DEF CreateDelivery
<1>6. ASSUME NEW a \in Agents, PostAccepted(a) PROVE TypeInv'
  <2>1. AgentInv'
    BY <1>6, GotoType DEF TypeInv, AgentInv, Agents, Step, Attempting, PostAccepted
  <2>. QED
    BY <1>6, <2>1, PostedType, ReceivedType
    DEF TypeInv, TypeOK, AgentInv, PostAccepted, redis, rows, dispatch, bounds
<1>7. ASSUME NEW a \in Agents, PostRejected(a) PROVE TypeInv'
  <2>1. AgentInv'
    BY <1>7, GotoType DEF TypeInv, AgentInv, Agents, Step, Attempting, PostRejected
  <2>. QED
    BY <1>7, <2>1, PostedType
    DEF TypeInv, TypeOK, AgentInv, PostRejected, redis, rows, dispatch, bounds
<1>8. ASSUME NEW a \in Agents, PostFailed(a) PROVE TypeInv'
  <2>1. AgentInv'
    BY <1>8, EnqueueRetryType DEF TypeInv, Agents, Step, Attempting, PostFailed
  <2>. QED
    BY <1>8, <2>1, PostedType
    DEF TypeInv, TypeOK, AgentInv, PostFailed, redis, rows, dispatch, bounds
<1>9. ASSUME NEW a \in Agents, PostAnswerLost(a) PROVE TypeInv'
  <2>1. AgentInv'
    BY <1>9, EnqueueRetryType DEF TypeInv, Agents, Step, Attempting, PostAnswerLost
  <2>. QED
    BY <1>9, <2>1, PostedType, ReceivedType, FailType
    DEF TypeInv, TypeOK, AgentInv, PostAnswerLost, redis, rows, dispatch
<1>10. ASSUME NEW a \in Agents, RecordOutcome(a) PROVE TypeInv'
  <2>1. AgentInv'
    BY <1>10, GotoType DEF TypeInv, AgentInv, Agents, Step, Attempting, RecordOutcome
  <2>. QED
    BY <1>10, <2>1, RecordType
    DEF TypeInv, TypeOK, AgentInv, AttemptStatus, RecordOutcome, redis, dispatch, history, bounds
<1>11. ASSUME NEW a \in Agents, RecordOrphan(a) PROVE TypeInv'
  <2>1. AgentInv'
    BY <1>11, EnqueueRetryType DEF TypeInv, Agents, Step, Attempting, RecordOrphan
  <2>. QED
    BY <1>11, <2>1
    DEF TypeInv, TypeOK, AgentInv, RecordOrphan, redis, rows, dispatch, history, bounds
<1>12. ASSUME NEW a \in Agents, UpdateOutcome(a) PROVE TypeInv'
  <2>1. AgentInv'
    BY <1>12, FinishType DEF TypeInv, Agents, Step, Attempting, UpdateOutcome
  <2>. QED
    BY <1>12, <2>1
    DEF TypeInv, TypeOK, AgentInv, DeliveryStatus, UpdateOutcome, SetStatus, redis, dispatch,
       history, bounds
<1>13. ASSUME NEW a \in Agents, RetryRecord(a) PROVE TypeInv'
  <2>1. AgentInv'
    BY <1>13, GotoType DEF TypeInv, Agents, Step, Attempting, RetryRecord
  <2>. QED
    BY <1>13, <2>1, RecordType
    DEF TypeInv, TypeOK, AgentInv, AttemptStatus, RetryRecord, redis, dispatch, history, bounds
<1>14. ASSUME NEW a \in Agents, RetryStatus(a) PROVE TypeInv'
  <2>1. AgentInv'
    BY <1>14, GotoType DEF TypeInv, Agents, Step, Attempting, RetryStatus
  <2>. QED
    BY <1>14, <2>1
    DEF TypeInv, TypeOK, AgentInv, DeliveryStatus, RetryStatus, SetStatus, redis, dispatch,
       history, bounds
<1>15. ASSUME NEW a \in Agents, RetryAdd(a) PROVE TypeInv'
  <2>1. AgentInv'
    BY <1>15, GotoType DEF TypeInv, Agents, Step, Attempting, RetryAdd
  <2>2. PICK j \in job[a] :
            queue' = {e \in queue : e.id # j.id} \cup {[id |-> j.id, at |-> j.retryAt]}
    BY <1>15 DEF RetryAdd
  <2>3. [id |-> j.id, at |-> j.retryAt] \in QueueEntry
    BY DEF TypeInv, AgentInv, Job, QueueEntry
  <2>4. queue' \subseteq QueueEntry /\ \A e, f \in queue' : e.id = f.id => e = f
    BY <2>2, <2>3 DEF TypeInv, TypeOK
  <2>. QED
    BY <1>15, <2>1, <2>4 DEF TypeInv, TypeOK, AgentInv, RetryAdd, rows, dispatch, history, bounds
<1>16. ASSUME NEW a \in Agents, IncrementAttempt(a) PROVE TypeInv'
  <2>1. AgentInv'
    BY <1>16, FinishType DEF TypeInv, Agents, Step, Attempting, IncrementAttempt
  <2>2. PICK j \in job[a] : count' = [count EXCEPT ![j.id] = IF Exists(j.id) THEN @ + 1 ELSE @]
    BY <1>16 DEF IncrementAttempt
  <2>4. j.id \in Deliveries
    BY DEF TypeInv, AgentInv, Job
  <2>3. count' \in [Deliveries -> Nat]
    BY <2>2, <2>4 DEF TypeInv, TypeOK
  <2>. QED
    BY <1>16, <2>1, <2>3
    DEF TypeInv, TypeOK, AgentInv, IncrementAttempt, redis, dispatch, history, bounds
<1>17. ASSUME NEW a \in Agents, GiveUpRecord(a) PROVE TypeInv'
  <2>1. AgentInv'
    BY <1>17, GotoType DEF TypeInv, Agents, Step, Attempting, GiveUpRecord
  <2>. QED
    BY <1>17, <2>1, RecordType
    DEF TypeInv, TypeOK, AgentInv, AttemptStatus, GiveUpRecord, redis, dispatch, history, bounds
<1>18. ASSUME NEW a \in Agents, GiveUpStatus(a) PROVE TypeInv'
  <2>1. AgentInv'
    BY <1>18, FinishType DEF TypeInv, Agents, Step, Attempting, GiveUpStatus
  <2>. QED
    BY <1>18, <2>1
    DEF TypeInv, TypeOK, AgentInv, DeliveryStatus, GiveUpStatus, SetStatus, redis, dispatch,
       history, bounds
<1>19. ASSUME NEW a \in Agents, RetryOrphan(a) PROVE TypeInv'
  <2>1. AgentInv'
    BY <1>19, FinishType DEF TypeInv, Agents, Step, Attempting, RetryOrphan
  <2>. QED
    BY <1>19, <2>1
    DEF TypeInv, TypeOK, AgentInv, RetryOrphan, redis, rows, dispatch, history, bounds
<1>20. ASSUME NEW a \in Agents, AttemptFault(a) PROVE TypeInv'
  <2>1. AgentInv'
    BY <1>20, EnqueueRetryType, FinishType
    DEF TypeInv, Agents, Step, Attempting, AttemptFault, InFetch
  <2>. QED
    BY <1>20, <2>1, FailType
    DEF TypeInv, TypeOK, AgentInv, AttemptFault, redis, rows, dispatch, history
<1>21. ASSUME NEW w \in Workers, Poll(w) PROVE TypeInv'
  <2>2. PICK e \in Earliest(Due) :
            job' = [job EXCEPT ![w] = {[id |-> e.id, attempt |-> 0, retryAt |-> 0]}]
    BY <1>21 DEF Poll
  <2>3. {[id |-> e.id, attempt |-> 0, retryAt |-> 0]} \in SUBSET Job
    BY <2>2, DeliveryConstants DEF TypeInv, TypeOK, Earliest, Due, QueueEntry, Job
  <2>4. "claim" \in Step \ Attempting /\ w \in Agents
    BY DEF Step, Attempting, Agents
  <2>. DEFINE J == {[id |-> e.id, attempt |-> 0, retryAt |-> 0]}
  <2>5. J \in SUBSET Job /\ (\A i, k \in J : i = k)
    BY <2>3
  <2>6. pc' = [pc EXCEPT ![w] = "claim"] /\ job' = [job EXCEPT ![w] = J]
    BY <1>21, <2>2 DEF Poll, Goto
  <2>. HIDE DEF J
  <2>1. AgentInv'
    BY <2>4, <2>5, <2>6, AgentStep DEF TypeInv
  <2>. QED
    BY <1>21, <2>1 DEF TypeInv, TypeOK, AgentInv, Poll, redis, rows, dispatch, history, bounds
<1>22. ASSUME NEW w \in Workers, Claim(w) PROVE TypeInv'
  <2>1. AgentInv'
    BY <1>22, GotoType DEF TypeInv, Agents, Step, Attempting, Claim
  <2>2. w \in Agents
    BY DEF Agents
  <2>. QED
    BY <1>22, <2>1, <2>2, JobIds
    DEF TypeInv, TypeOK, AgentInv, Claim, rows, dispatch, history, bounds
<1>23. ASSUME NEW w \in Workers, Unqueue(w) PROVE TypeInv'
  <2>1. AgentInv'
    BY <1>23, GotoType DEF TypeInv, Agents, Step, Attempting, Unqueue
  <2>. QED
    BY <1>23, <2>1 DEF TypeInv, TypeOK, AgentInv, Unqueue, rows, dispatch, history, bounds
<1>24. ASSUME NEW w \in Workers, Load(w) PROVE TypeInv'
  <2>2. PICK j \in job[w] :
            \/ Goto(w, "drop") /\ UNCHANGED job
            \/ /\ job' = [job EXCEPT ![w] = {[j EXCEPT !.attempt = count[j.id] + 1]}]
               /\ Goto(w, "config")
    BY <1>24 DEF Load
  <2>3. {"drop", "config"} \subseteq Step /\ "drop" \notin Attempting /\ w \in Agents
    BY DEF Step, Attempting, Agents
  <2>4. j \in Job /\ j.id \in Deliveries /\ count[j.id] \in Nat
    BY <2>2, <2>3 DEF TypeInv, TypeOK, Job
  <2>5. [j EXCEPT !.attempt = count[j.id] + 1] \in Job
    BY <2>4 DEF Job
  <2>6. [j EXCEPT !.attempt = count[j.id] + 1].attempt >= 1
    BY <2>4 DEF Job
  <2>1. AgentInv'
    <3>1. CASE Goto(w, "drop") /\ UNCHANGED job
      BY <2>3, <3>1, GotoType DEF TypeInv
    <3>2. CASE /\ job' = [job EXCEPT ![w] = {[j EXCEPT !.attempt = count[j.id] + 1]}]
               /\ Goto(w, "config")
      <4>. DEFINE J == {[j EXCEPT !.attempt = count[j.id] + 1]}
      <4>1. J \in SUBSET Job /\ (\A i, k \in J : i = k) /\ (\A i \in J : i.attempt >= 1)
        BY <2>5, <2>6
      <4>2. pc' = [pc EXCEPT ![w] = "config"] /\ job' = [job EXCEPT ![w] = J]
        BY <3>2 DEF Goto
      <4>. HIDE DEF J
      <4>. QED
        BY <2>3, <4>1, <4>2, AgentStep DEF TypeInv
    <3>. QED
      BY <2>2, <3>1, <3>2
  <2>. QED
    BY <1>24, <2>1 DEF TypeInv, TypeOK, AgentInv, Load, redis, rows, dispatch, history, bounds
<1>25. ASSUME NEW w \in Workers, GetWebhook(w) PROVE TypeInv'
  <2>1. AgentInv'
    BY <1>25, GotoType DEF TypeInv, AgentInv, Agents, Step, Attempting, GetWebhook
  <2>. QED
    BY <1>25, <2>1
    DEF TypeInv, TypeOK, AgentInv, GetWebhook, redis, rows, dispatch, history, bounds
<1>26. ASSUME NEW w \in Workers, GetPayload(w) PROVE TypeInv'
  <2>1. AgentInv'
    BY <1>26, GotoType DEF TypeInv, AgentInv, Agents, Step, Attempting, GetPayload
  <2>. QED
    BY <1>26, <2>1
    DEF TypeInv, TypeOK, AgentInv, GetPayload, redis, rows, dispatch, history, bounds
<1>27. ASSUME NEW w \in Workers, FailGone(w) PROVE TypeInv'
  <2>1. AgentInv'
    BY <1>27, GotoType DEF TypeInv, Agents, Step, Attempting, FailGone
  <2>. QED
    BY <1>27, <2>1
    DEF TypeInv, TypeOK, AgentInv, DeliveryStatus, FailGone, SetStatus, redis, dispatch, history,
       bounds
<1>28. ASSUME NEW w \in Workers, Drop(w) PROVE TypeInv'
  <2>1. AgentInv'
    BY <1>28, GotoType DEF TypeInv, Agents, Step, Attempting, Drop
  <2>. QED
    BY <1>28, <2>1 DEF TypeInv, TypeOK, AgentInv, Drop, rows, dispatch, history, bounds
<1>29. ASSUME NEW w \in Workers, Cleanup(w) PROVE TypeInv'
  <2>1. AgentInv'
    BY <1>29, IdleType DEF TypeInv, Agents, Step, Attempting, Cleanup
  <2>. QED
    BY <1>29, <2>1 DEF TypeInv, TypeOK, AgentInv, Cleanup, rows, dispatch, history, bounds
<1>30. ASSUME NEW w \in Workers, PollFault(w) PROVE TypeInv'
  <2>1. AgentInv'
    BY <1>30, IdleType, GotoType DEF TypeInv, Agents, Step, Attempting, PollFault
  <2>. QED
    BY <1>30, <2>1, FailType
    DEF TypeInv, TypeOK, AgentInv, PollFault, redis, rows, dispatch, history
<1>31. ASSUME NEW h \in Webhooks, DeleteWebhook(h) PROVE TypeInv'
  BY <1>31
  DEF TypeInv, TypeOK, AgentInv, DeliveryStatus, OneJob, DeleteWebhook, redis, dispatch, agent,
     history, bounds
<1>32. CASE AdvanceClock
  BY <1>32, DeliveryConstants
  DEF TypeInv, TypeOK, AgentInv, OneJob, AdvanceClock, redis, rows, dispatch, agent, history,
     bounds
<1>33. CASE Restart
  <2>1. AgentInv'
    BY <1>33 DEF AgentInv, OneJob, Step, Attempting, Restart
  <2>. QED
    BY <1>33, <2>1, DeliveryConstants DEF TypeInv, TypeOK, AgentInv, Restart, redis, rows, history
<1>34. CASE UNCHANGED vars
  BY <1>34
  DEF TypeInv, TypeOK, AgentInv, OneJob, vars, redis, rows, dispatch, agent, history, bounds
<1>. QED
  BY <1>1, <1>2, <1>3, <1>4, <1>5, <1>6, <1>7, <1>8, <1>9, <1>10, <1>11, <1>12, <1>13, <1>14,
     <1>15, <1>16, <1>17, <1>18, <1>19, <1>20, <1>21, <1>22, <1>23, <1>24, <1>25, <1>26, <1>27,
     <1>28, <1>29, <1>30, <1>31, <1>32, <1>33, <1>34
  DEF Next, DispatchStep, WorkerStep, AttemptStep, Faulty, Agents

\* Every variable of the delivery keeps its type, attempt numbers and delays
\* included, whatever fails and however invocations of the worker overlap
\* (webhook-dispatcher.ts 252-305, webhook-queue-worker.ts 111-168).
THEOREM DeliveryTypeCorrect == Spec => []TypeOK
<1>1. Spec => []TypeInv
  BY DeliveryInit, DeliveryTypeNext, PTL DEF Spec
<1>. QED
  BY <1>1, PTL DEF TypeInv

-----------------------------------------------------------------------------
(* A row says success only if its endpoint answered 2xx.  Inductive with    *)
(* the agents that are about to write success.                             *)

Succeeding == {"ok_record", "ok_status"}

SuccessInv ==
    /\ SuccessWasReceived
    /\ \A a \in Agents : pc[a] \in Succeeding => \A j \in job[a] : received[j.id] > 0

\* A 2xx answer raises the count of the delivery at hand and lowers none.
LEMMA ReceivedGrows ==
    ASSUME TypeInv, NEW a \in Agents, Answered2xx(a)
    PROVE  /\ \A d \in Deliveries : received[d] > 0 => received'[d] > 0
           /\ \A j \in job[a] : j.id \in Deliveries /\ received'[j.id] > 0
           /\ \A b \in Agents : \A j \in job[b] : j.id \in Deliveries
<1>1. PICK j \in job[a] : received' = [received EXCEPT ![j.id] = @ + 1]
  BY DEF Answered2xx
<1>2. \A b \in Agents : \A i \in job[b] : i.id \in Deliveries
  BY DEF TypeInv, AgentInv, Job
<1>3. \A d \in Deliveries : received[d] \in Nat
  BY DEF TypeInv, TypeOK
<1>4. \A d \in Deliveries : received'[d] = IF d = j.id THEN received[d] + 1 ELSE received[d]
  BY <1>1, <1>2 DEF TypeInv, TypeOK
<1>5. \A i \in job[a] : i = j
  BY DEF TypeInv, AgentInv, OneJob
<1>. QED
  BY <1>2, <1>3, <1>4, <1>5

\* There is no delivery yet.
LEMMA SuccessInit == Init => SuccessInv
  BY DEF Init, SuccessInv, SuccessWasReceived, Succeeding

\* Only UpdateOutcome writes success, and only after PostAccepted.
LEMMA SuccessNext == TypeInv /\ SuccessInv /\ [Next]_vars => SuccessInv'
<1>. SUFFICES ASSUME TypeInv, SuccessInv, [Next]_vars PROVE SuccessInv'
  OBVIOUS
<1>1. ASSUME NEW m \in Messages, ListActive(m) PROVE SuccessInv'
  BY <1>1 DEF SuccessInv, SuccessWasReceived, Succeeding, ListActive, rows, agent, history
<1>2. ASSUME NEW m \in Messages, CachePayload(m) PROVE SuccessInv'
  BY <1>2 DEF SuccessInv, SuccessWasReceived, Succeeding, CachePayload, rows, history
<1>3. ASSUME NEW m \in Messages, ExpirePayload(m) PROVE SuccessInv'
  BY <1>3 DEF SuccessInv, SuccessWasReceived, Succeeding, ExpirePayload, rows, agent, history
<1>4. ASSUME NEW m \in Messages, DispatchFault(m) PROVE SuccessInv'
  BY <1>4
  DEF SuccessInv, SuccessWasReceived, Succeeding, DispatchFault, Fail, rows, agent, history
<1>5. ASSUME NEW d \in Deliveries, CreateDelivery(d) PROVE SuccessInv'
  BY <1>5
  DEF SuccessInv, SuccessWasReceived, Succeeding, TypeInv, TypeOK, CreateDelivery, Goto, Idle,
     history
<1>6. ASSUME NEW a \in Agents, PostAccepted(a) PROVE SuccessInv'
  <2>1. UNCHANGED <<status, job>> /\ pc' = [pc EXCEPT ![a] = "ok_record"]
    BY <1>6 DEF PostAccepted, rows, Goto
  <2>. QED
    BY <1>6, <2>1, ReceivedGrows DEF SuccessInv, SuccessWasReceived, Succeeding, PostAccepted
<1>7. ASSUME NEW a \in Agents, PostRejected(a) PROVE SuccessInv'
  BY <1>7 DEF SuccessInv, SuccessWasReceived, Succeeding, PostRejected, Goto, rows
<1>8. ASSUME NEW a \in Agents, PostFailed(a) PROVE SuccessInv'
  BY <1>8
  DEF SuccessInv, SuccessWasReceived, Succeeding, TypeInv, TypeOK, PostFailed, EnqueueRetry, Goto,
     rows
<1>9. ASSUME NEW a \in Agents, PostAnswerLost(a) PROVE SuccessInv'
  <2>1. UNCHANGED status
    BY <1>9 DEF PostAnswerLost, rows
  <2>2. PICK step \in {"give_record", "retry_record"} : pc' = [pc EXCEPT ![a] = step]
    BY <1>9 DEF PostAnswerLost, EnqueueRetry, Goto
  <2>3. PICK j \in job[a] : \E t \in {j.retryAt, RetryTime(j.attempt)} :
            UNCHANGED job \/ job' = [job EXCEPT ![a] = {[j EXCEPT !.retryAt = t]}]
    BY <1>9 DEF PostAnswerLost, EnqueueRetry
  <2>. QED
    BY <1>9, <2>1, <2>2, <2>3, ReceivedGrows
    DEF SuccessInv, SuccessWasReceived, Succeeding, TypeInv, AgentInv, PostAnswerLost
<1>10. ASSUME NEW a \in Agents, RecordOutcome(a) PROVE SuccessInv'
  BY <1>10
  DEF SuccessInv, SuccessWasReceived, Succeeding, TypeInv, TypeOK, RecordOutcome, Goto, history
<1>11. ASSUME NEW a \in Agents, RecordOrphan(a) PROVE SuccessInv'
  BY <1>11
  DEF SuccessInv, SuccessWasReceived, Succeeding, TypeInv, TypeOK, RecordOrphan, EnqueueRetry,
     Goto, rows, history
<1>12. ASSUME NEW a \in Agents, UpdateOutcome(a) PROVE SuccessInv'
  BY <1>12
  DEF SuccessInv, SuccessWasReceived, Succeeding, TypeInv, TypeOK, UpdateOutcome, Finish, Goto,
     Idle, SetStatus, history
<1>13. ASSUME NEW a \in Agents, RetryRecord(a) PROVE SuccessInv'
  BY <1>13 DEF SuccessInv, SuccessWasReceived, Succeeding, RetryRecord, Goto, history
<1>14. ASSUME NEW a \in Agents, RetryStatus(a) PROVE SuccessInv'
  BY <1>14 DEF SuccessInv, SuccessWasReceived, Succeeding, RetryStatus, Goto, SetStatus, history
<1>15. ASSUME NEW a \in Agents, RetryAdd(a) PROVE SuccessInv'
  BY <1>15 DEF SuccessInv, SuccessWasReceived, Succeeding, RetryAdd, Goto, rows, history
<1>16. ASSUME NEW a \in Agents, IncrementAttempt(a) PROVE SuccessInv'
  BY <1>16
  DEF SuccessInv, SuccessWasReceived, Succeeding, TypeInv, TypeOK, IncrementAttempt, Finish, Goto,
     Idle, history
<1>17. ASSUME NEW a \in Agents, GiveUpRecord(a) PROVE SuccessInv'
  BY <1>17 DEF SuccessInv, SuccessWasReceived, Succeeding, GiveUpRecord, Goto, history
<1>18. ASSUME NEW a \in Agents, GiveUpStatus(a) PROVE SuccessInv'
  BY <1>18
  DEF SuccessInv, SuccessWasReceived, Succeeding, TypeInv, TypeOK, GiveUpStatus, Finish, Goto,
     Idle, SetStatus, history
<1>19. ASSUME NEW a \in Agents, RetryOrphan(a) PROVE SuccessInv'
  BY <1>19
  DEF SuccessInv, SuccessWasReceived, Succeeding, TypeInv, TypeOK, RetryOrphan, Finish, Goto,
     Idle, rows, history
<1>20. ASSUME NEW a \in Agents, AttemptFault(a) PROVE SuccessInv'
  BY <1>20
  DEF SuccessInv, SuccessWasReceived, Succeeding, TypeInv, TypeOK, AttemptFault, Finish, Goto,
     Idle, EnqueueRetry, Fail, rows, history, InFetch, InEnqueueRetry
<1>21. ASSUME NEW w \in Workers, Poll(w) PROVE SuccessInv'
  BY <1>21 DEF SuccessInv, SuccessWasReceived, Succeeding, Poll, Goto, rows, history
<1>22. ASSUME NEW w \in Workers, Claim(w) PROVE SuccessInv'
  BY <1>22 DEF SuccessInv, SuccessWasReceived, Succeeding, Claim, Goto, rows, history
<1>23. ASSUME NEW w \in Workers, Unqueue(w) PROVE SuccessInv'
  BY <1>23 DEF SuccessInv, SuccessWasReceived, Succeeding, Unqueue, Goto, rows, history
<1>24. ASSUME NEW w \in Workers, Load(w) PROVE SuccessInv'
  BY <1>24
  DEF SuccessInv, SuccessWasReceived, Succeeding, TypeInv, TypeOK, Load, Goto, rows, history
<1>25. ASSUME NEW w \in Workers, GetWebhook(w) PROVE SuccessInv'
  BY <1>25 DEF SuccessInv, SuccessWasReceived, Succeeding, GetWebhook, Goto, rows, history
<1>26. ASSUME NEW w \in Workers, GetPayload(w) PROVE SuccessInv'
  BY <1>26 DEF SuccessInv, SuccessWasReceived, Succeeding, GetPayload, Goto, rows, history
<1>27. ASSUME NEW w \in Workers, FailGone(w) PROVE SuccessInv'
  BY <1>27 DEF SuccessInv, SuccessWasReceived, Succeeding, FailGone, Goto, SetStatus, history
<1>28. ASSUME NEW w \in Workers, Drop(w) PROVE SuccessInv'
  BY <1>28 DEF SuccessInv, SuccessWasReceived, Succeeding, Drop, Goto, rows, history
<1>29. ASSUME NEW w \in Workers, Cleanup(w) PROVE SuccessInv'
  BY <1>29 DEF SuccessInv, SuccessWasReceived, Succeeding, Cleanup, Idle, rows, history
<1>30. ASSUME NEW w \in Workers, PollFault(w) PROVE SuccessInv'
  BY <1>30
  DEF SuccessInv, SuccessWasReceived, Succeeding, TypeInv, TypeOK, PollFault, Goto, Idle, Fail,
     rows, history
<1>31. ASSUME NEW h \in Webhooks, DeleteWebhook(h) PROVE SuccessInv'
  BY <1>31 DEF SuccessInv, SuccessWasReceived, Succeeding, DeleteWebhook, agent, history
<1>32. CASE AdvanceClock
  BY <1>32 DEF SuccessInv, SuccessWasReceived, Succeeding, AdvanceClock, rows, agent, history
<1>33. CASE Restart
  BY <1>33 DEF SuccessInv, SuccessWasReceived, Succeeding, Restart, rows, history
<1>34. CASE UNCHANGED vars
  BY <1>34 DEF SuccessInv, SuccessWasReceived, Succeeding, vars, rows, agent, history
<1>. QED
  BY <1>1, <1>2, <1>3, <1>4, <1>5, <1>6, <1>7, <1>8, <1>9, <1>10, <1>11, <1>12, <1>13, <1>14,
     <1>15, <1>16, <1>17, <1>18, <1>19, <1>20, <1>21, <1>22, <1>23, <1>24, <1>25, <1>26, <1>27,
     <1>28, <1>29, <1>30, <1>31, <1>32, <1>33, <1>34
  DEF Next, DispatchStep, WorkerStep, AttemptStep, Faulty, Agents

\* status = success means that the endpoint answered 2xx at least once, for
\* any number of overlapping invocations, lost answers, failing calls, exits
\* and deleted webhooks (webhook-dispatcher.ts 141-187).
THEOREM SuccessReceived == Spec => []SuccessWasReceived
<1>1. Spec => []TypeInv
  BY DeliveryInit, DeliveryTypeNext, PTL DEF Spec
<1>2. Spec => []SuccessInv
  BY <1>1, SuccessInit, SuccessNext, PTL DEF Spec
<1>. QED
  BY <1>2, PTL DEF SuccessInv

-----------------------------------------------------------------------------
(* No delivery is lost.  Inductive with the fact that dispatchToOne has not  *)
(* started for a message that dispatch() has not cached yet.                *)

NotStarted ==
    \A m \in Messages : fan[m] # "done" => \A h \in Webhooks : pc[<<h, m>>] = "idle"

\* No agent has started.
LEMMA NotStartedInit == Init => NotStarted
  BY DEF Init, NotStarted, Agents, Deliveries

\* dispatchToOne starts only when its message is marked dispatched.
LEMMA NotStartedNext == TypeInv /\ NotStarted /\ [Next]_vars => NotStarted'
<1>. SUFFICES ASSUME TypeInv, NotStarted, [Next]_vars PROVE NotStarted'
  OBVIOUS
<1>1. ASSUME NEW m \in Messages, ListActive(m) PROVE NotStarted'
  BY <1>1 DEF NotStarted, TypeInv, TypeOK, Agents, Deliveries, ListActive, agent
<1>2. ASSUME NEW m \in Messages, CachePayload(m) PROVE NotStarted'
  BY <1>2 DEF NotStarted, TypeInv, TypeOK, Agents, Deliveries, CachePayload
<1>3. ASSUME NEW m \in Messages, ExpirePayload(m) PROVE NotStarted'
  BY <1>3 DEF NotStarted, Agents, Deliveries, ExpirePayload, dispatch, agent
<1>4. ASSUME NEW m \in Messages, DispatchFault(m) PROVE NotStarted'
  BY <1>4 DEF NotStarted, Agents, Deliveries, DispatchFault, Fail, agent
<1>5. ASSUME NEW d \in Deliveries, CreateDelivery(d) PROVE NotStarted'
  BY <1>5
  DEF NotStarted, TypeInv, TypeOK, Agents, Deliveries, CreateDelivery, Goto, Idle, dispatch
<1>6. ASSUME NEW a \in Agents, PostAccepted(a) PROVE NotStarted'
  BY <1>6 DEF NotStarted, Agents, Deliveries, PostAccepted, Goto, Answered2xx, dispatch
<1>7. ASSUME NEW a \in Agents, PostRejected(a) PROVE NotStarted'
  BY <1>7 DEF NotStarted, Agents, Deliveries, PostRejected, Goto, dispatch
<1>8. ASSUME NEW a \in Agents, PostFailed(a) PROVE NotStarted'
  BY <1>8
  DEF NotStarted, TypeInv, TypeOK, Agents, Deliveries, PostFailed, EnqueueRetry, Goto, dispatch
<1>9. ASSUME NEW a \in Agents, PostAnswerLost(a) PROVE NotStarted'
  BY <1>9
  DEF NotStarted, TypeInv, TypeOK, Agents, Deliveries, PostAnswerLost, EnqueueRetry, Goto, Fail,
     Answered2xx, dispatch
<1>10. ASSUME NEW a \in Agents, RecordOutcome(a) PROVE NotStarted'
  BY <1>10 DEF NotStarted, TypeInv, TypeOK, Agents, Deliveries, RecordOutcome, Goto, dispatch
<1>11. ASSUME NEW a \in Agents, RecordOrphan(a) PROVE NotStarted'
  BY <1>11
  DEF NotStarted, TypeInv, TypeOK, Agents, Deliveries, RecordOrphan, EnqueueRetry, Goto, dispatch
<1>12. ASSUME NEW a \in Agents, UpdateOutcome(a) PROVE NotStarted'
  BY <1>12
  DEF NotStarted, TypeInv, TypeOK, Agents, Deliveries, UpdateOutcome, Finish, Goto, Idle,
     dispatch
<1>13. ASSUME NEW a \in Agents, RetryRecord(a) PROVE NotStarted'
  BY <1>13 DEF NotStarted, Agents, Deliveries, RetryRecord, Goto, dispatch
<1>14. ASSUME NEW a \in Agents, RetryStatus(a) PROVE NotStarted'
  BY <1>14 DEF NotStarted, Agents, Deliveries, RetryStatus, Goto, dispatch
<1>15. ASSUME NEW a \in Agents, RetryAdd(a) PROVE NotStarted'
  BY <1>15 DEF NotStarted, Agents, Deliveries, RetryAdd, Goto, dispatch
<1>16. ASSUME NEW a \in Agents, IncrementAttempt(a) PROVE NotStarted'
  BY <1>16
  DEF NotStarted, TypeInv, TypeOK, Agents, Deliveries, IncrementAttempt, Finish, Goto, Idle,
     dispatch
<1>17. ASSUME NEW a \in Agents, GiveUpRecord(a) PROVE NotStarted'
  BY <1>17 DEF NotStarted, Agents, Deliveries, GiveUpRecord, Goto, dispatch
<1>18. ASSUME NEW a \in Agents, GiveUpStatus(a) PROVE NotStarted'
  BY <1>18
  DEF NotStarted, TypeInv, TypeOK, Agents, Deliveries, GiveUpStatus, Finish, Goto, Idle, dispatch
<1>19. ASSUME NEW a \in Agents, RetryOrphan(a) PROVE NotStarted'
  BY <1>19
  DEF NotStarted, TypeInv, TypeOK, Agents, Deliveries, RetryOrphan, Finish, Goto, Idle, dispatch
<1>20. ASSUME NEW a \in Agents, AttemptFault(a) PROVE NotStarted'
  BY <1>20
  DEF NotStarted, TypeInv, TypeOK, Agents, Deliveries, AttemptFault, Finish, Goto, Idle,
     EnqueueRetry, Fail, dispatch, InFetch, InEnqueueRetry
<1>21. ASSUME NEW w \in Workers, Poll(w) PROVE NotStarted'
  <2>1. \A m \in Messages : \A h \in Webhooks : <<h, m>> # w /\ <<h, m>> \in Agents
    BY DeliveryConstants DEF Deliveries, Agents
  <2>. QED
    BY <1>21, <2>1 DEF NotStarted, Poll, Goto, dispatch
<1>22. ASSUME NEW w \in Workers, Claim(w) PROVE NotStarted'
  BY <1>22 DEF NotStarted, Agents, Deliveries, Claim, Goto, dispatch
<1>23. ASSUME NEW w \in Workers, Unqueue(w) PROVE NotStarted'
  BY <1>23 DEF NotStarted, Agents, Deliveries, Unqueue, Goto, dispatch
<1>24. ASSUME NEW w \in Workers, Load(w) PROVE NotStarted'
  BY <1>24 DEF NotStarted, TypeInv, TypeOK, Agents, Deliveries, Load, Goto, dispatch
<1>25. ASSUME NEW w \in Workers, GetWebhook(w) PROVE NotStarted'
  BY <1>25 DEF NotStarted, Agents, Deliveries, GetWebhook, Goto, dispatch
<1>26. ASSUME NEW w \in Workers, GetPayload(w) PROVE NotStarted'
  BY <1>26 DEF NotStarted, Agents, Deliveries, GetPayload, Goto, dispatch
<1>27. ASSUME NEW w \in Workers, FailGone(w) PROVE NotStarted'
  BY <1>27 DEF NotStarted, Agents, Deliveries, FailGone, Goto, dispatch
<1>28. ASSUME NEW w \in Workers, Drop(w) PROVE NotStarted'
  BY <1>28 DEF NotStarted, Agents, Deliveries, Drop, Goto, dispatch
<1>29. ASSUME NEW w \in Workers, Cleanup(w) PROVE NotStarted'
  BY <1>29 DEF NotStarted, Agents, Deliveries, Cleanup, Idle, dispatch
<1>30. ASSUME NEW w \in Workers, PollFault(w) PROVE NotStarted'
  BY <1>30
  DEF NotStarted, TypeInv, TypeOK, Agents, Deliveries, PollFault, Goto, Idle, Fail, dispatch
<1>31. ASSUME NEW h \in Webhooks, DeleteWebhook(h) PROVE NotStarted'
  BY <1>31 DEF NotStarted, Agents, Deliveries, DeleteWebhook, dispatch, agent
<1>32. CASE AdvanceClock
  BY <1>32 DEF NotStarted, Agents, Deliveries, AdvanceClock, dispatch, agent
<1>33. CASE Restart
  BY <1>33 DEF NotStarted, Agents, Deliveries, Restart
<1>34. CASE UNCHANGED vars
  BY <1>34 DEF NotStarted, Agents, Deliveries, vars, dispatch, agent
<1>. QED
  BY <1>1, <1>2, <1>3, <1>4, <1>5, <1>6, <1>7, <1>8, <1>9, <1>10, <1>11, <1>12, <1>13, <1>14,
     <1>15, <1>16, <1>17, <1>18, <1>19, <1>20, <1>21, <1>22, <1>23, <1>24, <1>25, <1>26, <1>27,
     <1>28, <1>29, <1>30, <1>31, <1>32, <1>33, <1>34
  DEF Next, DispatchStep, WorkerStep, AttemptStep, Faulty, Agents
\* What a step of agent a has to show of a delivery d that is pending after
\* it: a owes it an outcome, it is queued, or it was safe without a before.
Kept(a, d) ==
    \/ WorksOn(a, d)' /\ pc'[a] \in Owing
    \/ \E e \in queue' : e.id = d
    \/ /\ status[d] = "pending"
       /\ pc[a] \in Owing => ~WorksOn(a, d)
       /\ (\E e \in queue : e.id = d) => (\E e \in queue' : e.id = d)

\* A step of one agent keeps every other delivery safe.
LEMMA OneAgentMoves ==
    ASSUME NoLostDelivery, NEW a \in Agents, UNCHANGED << faults, crashes >>,
           \A b \in Agents \ {a} : pc'[b] = pc[b] /\ job'[b] = job[b],
           \A d \in Deliveries : status'[d] = "pending" => Kept(a, d)
    PROVE  NoLostDelivery'
<1>. SUFFICES ASSUME faults = 0, crashes = 0, NEW d \in Deliveries, status'[d] = "pending"
              PROVE  \/ \E e \in queue' : e.id = d
                     \/ \E b \in Agents : WorksOn(b, d)' /\ pc'[b] \in Owing
  BY DEF NoLostDelivery
<1>1. CASE WorksOn(a, d)' /\ pc'[a] \in Owing
  BY <1>1
<1>2. CASE \E e \in queue' : e.id = d
  BY <1>2
<1>3. CASE /\ status[d] = "pending"
           /\ pc[a] \in Owing => ~WorksOn(a, d)
           /\ (\E e \in queue : e.id = d) => (\E e \in queue' : e.id = d)
  <2>1. CASE \E e \in queue : e.id = d
    BY <1>3, <2>1
  <2>2. ASSUME NEW b \in Agents, WorksOn(b, d), pc[b] \in Owing PROVE WorksOn(b, d)' /\ pc'[b] \in Owing
    BY <1>3, <2>2 DEF WorksOn
  <2>. QED
    BY <1>3, <2>1, <2>2 DEF NoLostDelivery
<1>. QED
  BY <1>1, <1>2, <1>3 DEF Kept

\* enqueueRetry goes on with the same delivery and owes it an outcome.
LEMMA EnqueueRetryKeeps ==
    ASSUME AgentInv, NEW a \in Agents, NEW d \in Deliveries, EnqueueRetry(a)
    PROVE  pc'[a] \in Owing /\ (WorksOn(a, d) => WorksOn(a, d)')
<1>1. PICK j \in job[a] :
          \/ Goto(a, "give_record") /\ UNCHANGED job
          \/ /\ Goto(a, "retry_record")
             /\ job' = [job EXCEPT ![a] = {[j EXCEPT !.retryAt = RetryTime(j.attempt)]}]
  BY Zenon DEF EnqueueRetry
<1>2. pc'[a] \in Owing
  BY <1>1 DEF Goto, Owing, AgentInv
<1>. DEFINE i == [j EXCEPT !.retryAt = RetryTime(j.attempt)]
<1>3. i.id = j.id
  BY DEF AgentInv, Job
<1>4. CASE UNCHANGED job
  BY <1>2, <1>4 DEF WorksOn
<1>5. CASE job' = [job EXCEPT ![a] = {i}]
  <2>1. i \in job'[a]
    BY <1>5 DEF AgentInv
  <2>. QED
    BY <1>2, <1>3, <2>1 DEF WorksOn, AgentInv, OneJob
<1>. QED
  BY <1>1, <1>4, <1>5

\* Every step keeps the pending deliveries safe.
LEMMA NoLostNext == TypeInv /\ NotStarted /\ NoLostDelivery /\ [Next]_vars => NoLostDelivery'
<1>. SUFFICES ASSUME TypeInv, NotStarted, NoLostDelivery, [Next]_vars PROVE NoLostDelivery'
  OBVIOUS
<1>1. ASSUME NEW m \in Messages, ListActive(m) PROVE NoLostDelivery'
  BY <1>1 DEF NoLostDelivery, WorksOn, Owing, ListActive, redis, rows, agent, bounds
<1>2. ASSUME NEW m \in Messages, CachePayload(m) PROVE NoLostDelivery'
  <2>1. \A a \in Agents : pc[a] \in Owing => pc'[a] = pc[a]
    <3>1. \A h \in targets[m] : pc[<<h, m>>] = "idle"
      BY <1>2 DEF CachePayload, NotStarted, TypeInv, TypeOK
    <3>. QED
      BY <1>2, <3>1 DEF CachePayload, Owing
  <2>. QED
    BY <1>2, <2>1 DEF CachePayload, NoLostDelivery, WorksOn, rows, bounds
<1>3. ASSUME NEW m \in Messages, ExpirePayload(m) PROVE NoLostDelivery'
  BY <1>3 DEF NoLostDelivery, WorksOn, Owing, ExpirePayload, rows, agent, bounds
<1>4. ASSUME NEW m \in Messages, DispatchFault(m) PROVE NoLostDelivery'
  BY <1>4 DEF NoLostDelivery, WorksOn, Owing, TypeInv, TypeOK, DispatchFault, Fail
<1>5. ASSUME NEW d \in Deliveries, CreateDelivery(d) PROVE NoLostDelivery'
  <2>0. d \in Agents
    BY DEF Agents
  <2>1. \A b \in Agents \ {d} : pc'[b] = pc[b] /\ job'[b] = job[b]
    BY <1>5, <2>0 DEF TypeInv, AgentInv, CreateDelivery, Goto, Idle
  <2>2. ASSUME NEW c \in Deliveries, status'[c] = "pending" PROVE Kept(d, c)
    <3>1. CASE c = d
      <4>1. CASE Idle(d) /\ UNCHANGED status
        BY <1>5, <2>2, <3>1, <4>1 DEF Kept, Owing, CreateDelivery, redis
      <4>2. CASE /\ job' = [job EXCEPT ![d] = {[id |-> d, attempt |-> 1, retryAt |-> 0]}]
                 /\ Goto(d, "post")
        <5>1. [id |-> d, attempt |-> 1, retryAt |-> 0] \in job'[d]
          BY <2>0, <4>2 DEF TypeInv, AgentInv
        <5>2. pc'[d] = "post"
          BY <2>0, <4>2 DEF TypeInv, AgentInv, Goto
        <5>. QED
          BY <3>1, <5>1, <5>2 DEF Kept, WorksOn, Owing
      <4>. QED
        BY <1>5, <4>1, <4>2 DEF CreateDelivery
    <3>2. CASE c # d
      BY <1>5, <2>2, <3>2 DEF Kept, Owing, TypeInv, TypeOK, CreateDelivery, redis
    <3>. QED
      BY <3>1, <3>2
  <2>. QED
    BY <1>5, <2>0, <2>1, <2>2, OneAgentMoves DEF CreateDelivery, bounds
<1>6. ASSUME NEW a \in Agents, PostAccepted(a) PROVE NoLostDelivery'
  BY <1>6 DEF NoLostDelivery, WorksOn, Owing, PostAccepted, Goto, Answered2xx, redis, rows, bounds
<1>7. ASSUME NEW a \in Agents, PostRejected(a) PROVE NoLostDelivery'
  BY <1>7 DEF NoLostDelivery, WorksOn, Owing, PostRejected, Goto, redis, rows, bounds
<1>8. ASSUME NEW a \in Agents, PostFailed(a) PROVE NoLostDelivery'
  <2>1. \A b \in Agents \ {a} : pc'[b] = pc[b] /\ job'[b] = job[b]
    BY <1>8 DEF TypeInv, AgentInv, PostFailed, Goto, EnqueueRetry
  <2>2. ASSUME NEW d \in Deliveries, status'[d] = "pending" PROVE Kept(a, d)
    <3>1. pc'[a] \in Owing /\ (WorksOn(a, d) => WorksOn(a, d)')
      BY <1>8, EnqueueRetryKeeps DEF TypeInv, PostFailed
    <3>. QED
      BY <1>8, <2>2, <3>1 DEF Kept, PostFailed, redis, rows
  <2>. QED
    BY <1>8, <2>1, <2>2, OneAgentMoves DEF PostFailed, bounds
<1>9. ASSUME NEW a \in Agents, PostAnswerLost(a) PROVE NoLostDelivery'
  BY <1>9
  DEF NoLostDelivery, WorksOn, Owing, TypeInv, TypeOK, PostAnswerLost, EnqueueRetry, Fail,
     Answered2xx
<1>10. ASSUME NEW a \in Agents, RecordOutcome(a) PROVE NoLostDelivery'
  <2>1. \A b \in Agents \ {a} : pc'[b] = pc[b] /\ job'[b] = job[b]
    BY <1>10 DEF TypeInv, AgentInv, RecordOutcome, Goto
  <2>2. ASSUME NEW d \in Deliveries, status'[d] = "pending" PROVE Kept(a, d)
    BY <1>10, <2>2 DEF Kept, WorksOn, Owing, TypeInv, TypeOK, RecordOutcome, Goto, redis
  <2>. QED
    BY <1>10, <2>1, <2>2, OneAgentMoves DEF RecordOutcome, bounds
<1>11. ASSUME NEW a \in Agents, RecordOrphan(a) PROVE NoLostDelivery'
  <2>1. \A b \in Agents \ {a} : pc'[b] = pc[b] /\ job'[b] = job[b]
    BY <1>11 DEF TypeInv, AgentInv, RecordOrphan, Goto, EnqueueRetry
  <2>2. ASSUME NEW d \in Deliveries, status'[d] = "pending" PROVE Kept(a, d)
    BY <1>11, <2>2
    DEF Kept, WorksOn, Owing, TypeInv, AgentInv, RecordOrphan, Exists, redis, rows, OneJob,
       EnqueueRetry
  <2>. QED
    BY <1>11, <2>1, <2>2, OneAgentMoves DEF RecordOrphan, bounds
<1>12. ASSUME NEW a \in Agents, UpdateOutcome(a) PROVE NoLostDelivery'
  <2>1. \A b \in Agents \ {a} : pc'[b] = pc[b] /\ job'[b] = job[b]
    BY <1>12 DEF TypeInv, AgentInv, UpdateOutcome, Finish, Goto, Idle
  <2>2. ASSUME NEW d \in Deliveries, status'[d] = "pending" PROVE Kept(a, d)
    BY <1>12, <2>2
    DEF Kept, WorksOn, Owing, TypeInv, TypeOK, AgentInv, UpdateOutcome, SetStatus, Exists, redis,
       OneJob
  <2>. QED
    BY <1>12, <2>1, <2>2, OneAgentMoves DEF UpdateOutcome, bounds
<1>13. ASSUME NEW a \in Agents, RetryRecord(a) PROVE NoLostDelivery'
  BY <1>13 DEF NoLostDelivery, WorksOn, Owing, RetryRecord, Goto, redis, bounds
<1>14. ASSUME NEW a \in Agents, RetryStatus(a) PROVE NoLostDelivery'
  <2>1. \A b \in Agents \ {a} : pc'[b] = pc[b] /\ job'[b] = job[b]
    BY <1>14 DEF RetryStatus, Goto
  <2>2. ASSUME NEW d \in Deliveries, status'[d] = "pending" PROVE Kept(a, d)
    BY <1>14, <2>2 DEF Kept, WorksOn, Owing, RetryStatus, Goto, SetStatus, redis
  <2>. QED
    BY <1>14, <2>1, <2>2, OneAgentMoves DEF RetryStatus, bounds
<1>15. ASSUME NEW a \in Agents, RetryAdd(a) PROVE NoLostDelivery'
  <2>1. \A b \in Agents \ {a} : pc'[b] = pc[b] /\ job'[b] = job[b]
    BY <1>15 DEF RetryAdd, Goto
  <2>2. ASSUME NEW d \in Deliveries, status'[d] = "pending" PROVE Kept(a, d)
    <3>1. PICK j \in job[a] :
              queue' = {e \in queue : e.id # j.id} \cup {[id |-> j.id, at |-> j.retryAt]}
      BY <1>15 DEF RetryAdd
    <3>2. CASE d = j.id
      <4>1. [id |-> j.id, at |-> j.retryAt] \in queue'
        BY <3>1
      <4>. QED
        BY <3>2, <4>1 DEF Kept
    <3>3. CASE d # j.id
      <4>1. ~WorksOn(a, d)
        BY <3>3 DEF WorksOn, TypeInv, AgentInv, OneJob
      <4>. QED
        BY <1>15, <2>2, <3>1, <3>3, <4>1 DEF Kept, RetryAdd, rows
    <3>. QED
      BY <3>2, <3>3
  <2>. QED
    BY <1>15, <2>1, <2>2, OneAgentMoves DEF RetryAdd, bounds
<1>16. ASSUME NEW a \in Agents, IncrementAttempt(a) PROVE NoLostDelivery'
  <2>1. \A b \in Agents \ {a} : pc'[b] = pc[b] /\ job'[b] = job[b]
    BY <1>16 DEF TypeInv, AgentInv, IncrementAttempt, Finish, Goto, Idle
  <2>2. ASSUME NEW d \in Deliveries, status'[d] = "pending" PROVE Kept(a, d)
    BY <1>16, <2>2 DEF Kept, WorksOn, Owing, IncrementAttempt, redis
  <2>. QED
    BY <1>16, <2>1, <2>2, OneAgentMoves DEF IncrementAttempt, bounds
<1>17. ASSUME NEW a \in Agents, GiveUpRecord(a) PROVE NoLostDelivery'
  BY <1>17 DEF NoLostDelivery, WorksOn, Owing, GiveUpRecord, Goto, redis, bounds
<1>18. ASSUME NEW a \in Agents, GiveUpStatus(a) PROVE NoLostDelivery'
  <2>1. \A b \in Agents \ {a} : pc'[b] = pc[b] /\ job'[b] = job[b]
    BY <1>18 DEF TypeInv, AgentInv, GiveUpStatus, Finish, Goto, Idle
  <2>2. ASSUME NEW d \in Deliveries, status'[d] = "pending" PROVE Kept(a, d)
    BY <1>18, <2>2
    DEF Kept, WorksOn, Owing, TypeInv, TypeOK, AgentInv, GiveUpStatus, SetStatus, Exists, redis,
       OneJob
  <2>. QED
    BY <1>18, <2>1, <2>2, OneAgentMoves DEF GiveUpStatus, bounds
<1>19. ASSUME NEW a \in Agents, RetryOrphan(a) PROVE NoLostDelivery'
  <2>1. \A b \in Agents \ {a} : pc'[b] = pc[b] /\ job'[b] = job[b]
    BY <1>19 DEF TypeInv, AgentInv, RetryOrphan, Finish, Goto, Idle
  <2>2. ASSUME NEW d \in Deliveries, status'[d] = "pending" PROVE Kept(a, d)
    BY <1>19, <2>2
    DEF Kept, WorksOn, Owing, TypeInv, AgentInv, RetryOrphan, Exists, redis, rows, OneJob
  <2>. QED
    BY <1>19, <2>1, <2>2, OneAgentMoves DEF RetryOrphan, bounds
<1>20. ASSUME NEW a \in Agents, AttemptFault(a) PROVE NoLostDelivery'
  BY <1>20
  DEF NoLostDelivery, WorksOn, Owing, TypeInv, TypeOK, AttemptFault, EnqueueRetry, Fail, InFetch,
     InEnqueueRetry
<1>21. ASSUME NEW w \in Workers, Poll(w) PROVE NoLostDelivery'
  <2>0. w \in Agents
    BY DEF Agents
  <2>1. \A b \in Agents \ {w} : pc'[b] = pc[b] /\ job'[b] = job[b]
    BY <1>21, <2>0 DEF Poll, Goto
  <2>2. ASSUME NEW d \in Deliveries, status'[d] = "pending" PROVE Kept(w, d)
    BY <1>21, <2>0, <2>2 DEF Kept, WorksOn, Owing, Poll, redis, rows
  <2>. QED
    BY <1>21, <2>0, <2>1, <2>2, OneAgentMoves DEF Poll, bounds
<1>22. ASSUME NEW w \in Workers, Claim(w) PROVE NoLostDelivery'
  BY <1>22 DEF NoLostDelivery, WorksOn, Owing, Claim, Goto, rows, bounds
<1>23. ASSUME NEW w \in Workers, Unqueue(w) PROVE NoLostDelivery'
  <2>0. w \in Agents
    BY DEF Agents
  <2>1. \A b \in Agents \ {w} : pc'[b] = pc[b] /\ job'[b] = job[b]
    BY <1>23, <2>0 DEF Unqueue, Goto
  <2>2. ASSUME NEW d \in Deliveries, status'[d] = "pending" PROVE Kept(w, d)
    BY <1>23, <2>0, <2>2 DEF Kept, WorksOn, Owing, Unqueue, Goto, rows
  <2>. QED
    BY <1>23, <2>0, <2>1, <2>2, OneAgentMoves DEF Unqueue, bounds
<1>24. ASSUME NEW w \in Workers, Load(w) PROVE NoLostDelivery'
  <2>0. w \in Agents
    BY DEF Agents
  <2>1. \A b \in Agents \ {w} : pc'[b] = pc[b] /\ job'[b] = job[b]
    BY <1>24, <2>0 DEF TypeInv, AgentInv, Load, Goto
  <2>2. ASSUME NEW d \in Deliveries, status'[d] = "pending" PROVE Kept(w, d)
    <3>1. PICK j \in job[w] :
              \/ ~Exists(j.id) /\ UNCHANGED job
              \/ /\ job' = [job EXCEPT ![w] = {[j EXCEPT !.attempt = count[j.id] + 1]}]
                 /\ Goto(w, "config")
      BY <1>24 DEF Load
    <3>2. CASE ~Exists(j.id)
      BY <1>24, <2>0, <2>2, <3>2
      DEF Kept, WorksOn, Exists, TypeInv, AgentInv, OneJob, Load, redis, rows
    <3>3. CASE /\ job' = [job EXCEPT ![w] = {[j EXCEPT !.attempt = count[j.id] + 1]}]
               /\ Goto(w, "config")
      <4>. DEFINE i == [j EXCEPT !.attempt = count[j.id] + 1]
      <4>1. j \in Job
        BY <2>0 DEF TypeInv, AgentInv
      <4>2. i.id = j.id
        BY <4>1 DEF Job
      <4>3. i \in job'[w] /\ pc'[w] = "config"
        BY <2>0, <3>3 DEF TypeInv, AgentInv, Goto
      <4>. HIDE DEF i
      <4>4. WorksOn(w, d) => WorksOn(w, d)'
        BY <2>0, <4>2, <4>3 DEF WorksOn, TypeInv, AgentInv, OneJob
      <4>. QED
        BY <1>24, <2>2, <4>3, <4>4 DEF Kept, Owing, Load, redis, rows
    <3>. QED
      BY <3>1, <3>2, <3>3
  <2>. QED
    BY <1>24, <2>0, <2>1, <2>2, OneAgentMoves DEF Load, bounds
<1>25. ASSUME NEW w \in Workers, GetWebhook(w) PROVE NoLostDelivery'
  <2>0. w \in Agents
    BY DEF Agents
  <2>1. \A b \in Agents \ {w} : pc'[b] = pc[b] /\ job'[b] = job[b]
    BY <1>25, <2>0 DEF GetWebhook, Goto
  <2>2. ASSUME NEW d \in Deliveries, status'[d] = "pending" PROVE Kept(w, d)
    BY <1>25, <2>0, <2>2 DEF Kept, WorksOn, Owing, GetWebhook, Goto, redis, rows
  <2>. QED
    BY <1>25, <2>0, <2>1, <2>2, OneAgentMoves DEF GetWebhook, bounds
<1>26. ASSUME NEW w \in Workers, GetPayload(w) PROVE NoLostDelivery'
  <2>0. w \in Agents
    BY DEF Agents
  <2>1. \A b \in Agents \ {w} : pc'[b] = pc[b] /\ job'[b] = job[b]
    BY <1>26, <2>0 DEF GetPayload, Goto
  <2>2. ASSUME NEW d \in Deliveries, status'[d] = "pending" PROVE Kept(w, d)
    BY <1>26, <2>0, <2>2 DEF Kept, WorksOn, Owing, GetPayload, Goto, redis, rows
  <2>. QED
    BY <1>26, <2>0, <2>1, <2>2, OneAgentMoves DEF GetPayload, bounds
<1>27. ASSUME NEW w \in Workers, FailGone(w) PROVE NoLostDelivery'
  <2>0. w \in Agents
    BY DEF Agents
  <2>1. \A b \in Agents \ {w} : pc'[b] = pc[b] /\ job'[b] = job[b]
    BY <1>27, <2>0 DEF FailGone, Goto
  <2>2. ASSUME NEW d \in Deliveries, status'[d] = "pending" PROVE Kept(w, d)
    BY <1>27, <2>0, <2>2
    DEF Kept, WorksOn, Owing, TypeInv, TypeOK, AgentInv, FailGone, SetStatus, Exists, redis,
       OneJob
  <2>. QED
    BY <1>27, <2>0, <2>1, <2>2, OneAgentMoves DEF FailGone, bounds
<1>28. ASSUME NEW w \in Workers, Drop(w) PROVE NoLostDelivery'
  BY <1>28 DEF NoLostDelivery, WorksOn, Owing, Drop, Goto, rows, bounds
<1>29. ASSUME NEW w \in Workers, Cleanup(w) PROVE NoLostDelivery'
  BY <1>29 DEF NoLostDelivery, WorksOn, Owing, Cleanup, Idle, rows, bounds
<1>30. ASSUME NEW w \in Workers, PollFault(w) PROVE NoLostDelivery'
  BY <1>30 DEF NoLostDelivery, WorksOn, Owing, TypeInv, TypeOK, PollFault, Fail
<1>31. ASSUME NEW h \in Webhooks, DeleteWebhook(h) PROVE NoLostDelivery'
  BY <1>31 DEF NoLostDelivery, WorksOn, Owing, DeleteWebhook, redis, agent, bounds
<1>32. CASE AdvanceClock
  BY <1>32 DEF NoLostDelivery, WorksOn, Owing, AdvanceClock, redis, rows, agent, bounds
<1>33. CASE Restart
  BY <1>33 DEF NoLostDelivery, WorksOn, Owing, TypeInv, TypeOK, Restart
<1>34. CASE UNCHANGED vars
  BY <1>34 DEF NoLostDelivery, WorksOn, Owing, vars, redis, rows, agent, bounds
<1>. QED
  BY <1>1, <1>2, <1>3, <1>4, <1>5, <1>6, <1>7, <1>8, <1>9, <1>10, <1>11, <1>12, <1>13, <1>14,
     <1>15, <1>16, <1>17, <1>18, <1>19, <1>20, <1>21, <1>22, <1>23, <1>24, <1>25, <1>26, <1>27,
     <1>28, <1>29, <1>30, <1>31, <1>32, <1>33, <1>34
  DEF Next, DispatchStep, WorkerStep, AttemptStep, Faulty, Agents

\* Without failing calls and exits a pending delivery is queued or with an
\* agent that will settle or queue it, for any number of overlapping
\* invocations of the worker (webhook-dispatcher.ts 252-305,
\* webhook-queue-worker.ts 104-172).
THEOREM NothingLost == Spec => []NoLostDelivery
<1>1. Spec => []TypeInv
  BY DeliveryInit, DeliveryTypeNext, PTL DEF Spec
<1>2. Spec => []NotStarted
  BY <1>1, NotStartedInit, NotStartedNext, PTL DEF Spec
<1>3. Init => NoLostDelivery
  BY DEF Init, NoLostDelivery
<1>. QED
  BY <1>1, <1>2, <1>3, NoLostNext, PTL DEF Spec

-----------------------------------------------------------------------------
(* What a step does to one delivery *)

Serial == \A v, w \in Workers : v = w

Queued(d) == \E e \in queue : e.id = d

\* An await of attemptDelivery settles or throws, and a goes on.
Attempt(a) == AttemptStep(a) \/ PostAnswerLost(a) \/ AttemptFault(a)

\* An await of pollAndRetry outside attemptDelivery does.
PollStep(w) ==
    \/ Poll(w) \/ Claim(w) \/ Unqueue(w) \/ Load(w) \/ GetWebhook(w) \/ GetPayload(w)
    \/ FailGone(w) \/ Drop(w) \/ Cleanup(w) \/ PollFault(w)

\* The step changes nothing that is kept of d.
Same(d) ==
    /\ posts'[d] = posts[d] /\ received'[d] = received[d]
    /\ count'[d] = count[d] /\ status'[d] = status[d]
    /\ Queued(d)' <=> Queued(d)

OnlyAgent(a) == \A b \in Agents \ {a} : pc'[b] = pc[b] /\ job'[b] = job[b]

\* No agent moves and no row or queue entry changes.
Calm ==
    /\ UNCHANGED << pc, job, queue, posts, received, count, status, configs, crashes >>
    /\ faults' \in {faults, faults + 1}
    /\ \A m \in Messages : fan'[m] # "done" => fan[m] # "done"

\* Every step is one of these.
LEMMA StepKinds ==
    ASSUME TypeInv, [Next]_vars
    PROVE  \/ Calm
           \/ \E m \in Messages : CachePayload(m)
           \/ \E d \in Deliveries : CreateDelivery(d)
           \/ \E a \in Agents : Attempt(a)
           \/ \E w \in Workers : PollStep(w)
           \/ \E h \in Webhooks : DeleteWebhook(h)
           \/ Restart
<1>1. ASSUME NEW m \in Messages, ListActive(m) PROVE Calm
  BY <1>1 DEF ListActive, Calm, redis, rows, agent, history, bounds, TypeInv, TypeOK
<1>2. ASSUME NEW m \in Messages, ExpirePayload(m) PROVE Calm
  BY <1>2 DEF ExpirePayload, Calm, rows, agent, history, bounds, dispatch
<1>3. ASSUME NEW m \in Messages, DispatchFault(m) PROVE Calm
  BY <1>3 DEF DispatchFault, Fail, Calm, redis, rows, agent, history, TypeInv, TypeOK
<1>4. CASE AdvanceClock \/ UNCHANGED vars
  BY <1>4 DEF AdvanceClock, Calm, vars, redis, rows, agent, history, bounds, dispatch
<1>. QED
  BY <1>1, <1>2, <1>3, <1>4
  DEF Next, DispatchStep, WorkerStep, Faulty, Attempt, PollStep, Agents

\* An attempt moves one agent and touches neither the webhooks nor dispatch().
LEMMA AttemptFrame ==
    ASSUME TypeInv, NEW a \in Agents, Attempt(a)
    PROVE  /\ OnlyAgent(a)
           /\ UNCHANGED << fan, configs, crashes >>
           /\ faults' \in {faults, faults + 1}
<1>1. CASE AttemptStep(a)
  <2>1. CASE PostAccepted(a) \/ PostRejected(a) \/ RecordOutcome(a) \/ RetryRecord(a)
             \/ RetryStatus(a) \/ RetryAdd(a) \/ GiveUpRecord(a)
    BY <2>1 DEF PostAccepted, PostRejected, RecordOutcome, RetryRecord, RetryStatus, RetryAdd,
                GiveUpRecord, OnlyAgent, Goto, TypeInv, AgentInv, dispatch, bounds
  <2>2. CASE PostFailed(a) \/ RecordOrphan(a)
    BY <2>2 DEF PostFailed, RecordOrphan, EnqueueRetry, OnlyAgent, Goto, TypeInv, AgentInv,
                dispatch, bounds
  <2>3. CASE UpdateOutcome(a) \/ IncrementAttempt(a) \/ GiveUpStatus(a) \/ RetryOrphan(a)
    BY <2>3 DEF UpdateOutcome, IncrementAttempt, GiveUpStatus, RetryOrphan, Finish, Idle,
                OnlyAgent, Goto, TypeInv, AgentInv, dispatch, bounds
  <2>. QED
    BY <1>1, <2>1, <2>2, <2>3 DEF AttemptStep
<1>2. CASE PostAnswerLost(a)
  BY <1>2 DEF PostAnswerLost, Fail, EnqueueRetry, OnlyAgent, Goto, TypeInv, AgentInv, dispatch
<1>3. CASE AttemptFault(a)
  BY <1>3 DEF AttemptFault, Fail, EnqueueRetry, Finish, Idle, OnlyAgent, Goto, TypeInv, AgentInv,
              dispatch
<1>. QED
  BY <1>1, <1>2, <1>3 DEF Attempt

\* What enqueueRetry does up to its first await.
LEMMA EnqueueRetryMove ==
    ASSUME TypeInv, NEW a \in Agents, EnqueueRetry(a)
    PROVE  /\ pc'[a] \in {"retry_record", "give_record"}
           /\ \A i \in job'[a] : \E j \in job[a] : i.id = j.id /\ i.attempt = j.attempt
           /\ pc'[a] = "retry_record" => \A i \in job'[a] : i.attempt + 1 <= MaxRetries
           /\ job[a] # {}
<1>1. PICK j \in job[a] :
          \/ Goto(a, "give_record") /\ UNCHANGED job
          \/ /\ ~Exhausted(j.attempt) /\ Goto(a, "retry_record")
             /\ job' = [job EXCEPT ![a] = {[j EXCEPT !.retryAt = RetryTime(j.attempt)]}]
  BY Zenon DEF EnqueueRetry
<1>2. j \in Job /\ j.attempt \in Nat
  BY DEF TypeInv, AgentInv, Job
<1>3. CASE Goto(a, "give_record") /\ UNCHANGED job
  BY <1>3 DEF Goto, TypeInv, AgentInv
<1>4. CASE /\ ~Exhausted(j.attempt) /\ Goto(a, "retry_record")
           /\ job' = [job EXCEPT ![a] = {[j EXCEPT !.retryAt = RetryTime(j.attempt)]}]
  <2>. DEFINE i == [j EXCEPT !.retryAt = RetryTime(j.attempt)]
  <2>1. i.id = j.id /\ i.attempt = j.attempt
    BY <1>2 DEF Job
  <2>2. pc'[a] = "retry_record" /\ job'[a] = {i}
    BY <1>4 DEF Goto, TypeInv, AgentInv
  <2>3. j.attempt + 1 <= MaxRetries
    BY <1>2, <1>4, DeliveryConstants DEF Exhausted
  <2>. HIDE DEF i
  <2>. QED
    BY <2>1, <2>2, <2>3
<1>. QED
  BY <1>1, <1>3, <1>4

\* An agent in an attempt goes on with the number it has, or lets go of it.
SameJob(a) ==
    /\ pc'[a] \notin {"create", "post"} /\ (pc'[a] = "idle" => job'[a] = {})
    /\ pc'[a] = "cleanup" => a \in Workers
    /\ pc'[a] = "retry_incr" => job[a] # {}
    /\ pc[a] \in {"idle", "retry_incr"} => pc'[a] \in {"idle", "cleanup"}
    /\ \A i \in job'[a] : \E j \in job[a] : i.id = j.id /\ i.attempt = j.attempt
    /\ pc'[a] = "retry_record" /\ pc[a] # "retry_record" =>
          \A i \in job'[a] : i.attempt + 1 <= MaxRetries

\* An attempt does not change its delivery or its number.
LEMMA AttemptJob ==
    ASSUME TypeInv, NEW a \in Agents, Attempt(a)
    PROVE  SameJob(a)
<1>1. CASE AttemptStep(a)
  <2>1. CASE PostAccepted(a) \/ PostRejected(a) \/ RecordOutcome(a) \/ RetryRecord(a)
             \/ RetryStatus(a) \/ RetryAdd(a) \/ GiveUpRecord(a)
    BY <2>1 DEF PostAccepted, PostRejected, RecordOutcome, RetryRecord, RetryStatus, RetryAdd,
                GiveUpRecord, SameJob, Goto, TypeInv, AgentInv
  <2>2. CASE PostFailed(a) \/ RecordOrphan(a)
    BY <2>2, EnqueueRetryMove DEF PostFailed, RecordOrphan, SameJob
  <2>3. CASE UpdateOutcome(a) \/ IncrementAttempt(a) \/ GiveUpStatus(a) \/ RetryOrphan(a)
    BY <2>3 DEF UpdateOutcome, IncrementAttempt, GiveUpStatus, RetryOrphan, Finish, Idle,
                SameJob, Goto, TypeInv, AgentInv
  <2>. QED
    BY <1>1, <2>1, <2>2, <2>3 DEF AttemptStep
<1>2. CASE PostAnswerLost(a)
  BY <1>2, EnqueueRetryMove DEF PostAnswerLost, SameJob
<1>3. CASE AttemptFault(a)
  <2>1. CASE EnqueueRetry(a)
    BY <1>3, <2>1, EnqueueRetryMove
    DEF SameJob, AttemptFault, InFetch, InEnqueueRetry, Finish, Idle, Goto, TypeInv, AgentInv
  <2>2. CASE Finish(a)
    BY <2>2 DEF Finish, Idle, SameJob, Goto, TypeInv, AgentInv
  <2>. QED
    BY <1>3, <2>1, <2>2 DEF AttemptFault
<1>. QED
  BY <1>1, <1>2, <1>3 DEF Attempt

\* What an attempt leaves of a delivery it is not about.
LEMMA AttemptOnOther ==
    ASSUME TypeInv, NEW a \in Agents, Attempt(a), NEW d \in Deliveries, ~WorksOn(a, d)
    PROVE  Same(d) /\ ~WorksOn(a, d)'
<1>1. ~WorksOn(a, d)'
  BY AttemptJob DEF SameJob, WorksOn
<1>2. \A j \in job[a] : j.id \in Deliveries /\ j.id # d
  BY DEF WorksOn, TypeInv, AgentInv, Job
<1>3. /\ posts'[d] = posts[d] /\ received'[d] = received[d]
      /\ count'[d] = count[d] /\ status'[d] = status[d]
  <2>1. CASE AttemptStep(a)
    <3>1. CASE PostAccepted(a) \/ PostRejected(a) \/ PostFailed(a)
      BY <1>2, <3>1 DEF PostAccepted, PostRejected, PostFailed, Posted, Answered2xx, rows,
                        TypeInv, TypeOK
    <3>2. CASE RecordOutcome(a) \/ RecordOrphan(a) \/ UpdateOutcome(a) \/ RetryRecord(a)
      BY <1>2, <3>2 DEF RecordOutcome, RecordOrphan, UpdateOutcome, RetryRecord, SetStatus, rows,
                        history, TypeInv, TypeOK
    <3>3. CASE RetryStatus(a) \/ RetryAdd(a) \/ IncrementAttempt(a)
      BY <1>2, <3>3 DEF RetryStatus, RetryAdd, IncrementAttempt, SetStatus, rows, history,
                        TypeInv, TypeOK
    <3>4. CASE GiveUpRecord(a) \/ GiveUpStatus(a) \/ RetryOrphan(a)
      BY <1>2, <3>4 DEF GiveUpRecord, GiveUpStatus, RetryOrphan, SetStatus, rows, history,
                        TypeInv, TypeOK
    <3>. QED
      BY <2>1, <3>1, <3>2, <3>3, <3>4 DEF AttemptStep
  <2>2. CASE PostAnswerLost(a)
    BY <1>2, <2>2 DEF PostAnswerLost, Posted, Answered2xx, rows, TypeInv, TypeOK
  <2>3. CASE AttemptFault(a)
    BY <2>3 DEF AttemptFault, rows, history
  <2>. QED
    BY <2>1, <2>2, <2>3 DEF Attempt
<1>4. Queued(d)' <=> Queued(d)
  <2>1. CASE RetryAdd(a)
    BY <1>2, <2>1 DEF RetryAdd, Queued
  <2>2. CASE ~RetryAdd(a)
    <3>1. queue' = queue
      BY <2>2 DEF Attempt, AttemptStep, PostAccepted, PostRejected, PostFailed, RecordOutcome,
                  RecordOrphan, UpdateOutcome, RetryRecord, RetryStatus, IncrementAttempt,
                  GiveUpRecord, GiveUpStatus, RetryOrphan, PostAnswerLost, AttemptFault, redis
    <3>. QED
      BY <3>1 DEF Queued
  <2>. QED
    BY <2>1, <2>2
<1>. QED
  BY <1>1, <1>3, <1>4 DEF Same

\* What an attempt of a does to the delivery d it is about.
Posting(a, d) ==
    /\ pc[a] = "post" /\ pc'[a] \in {"ok_record", "bad_record", "retry_record", "give_record"}
    /\ posts'[d] = posts[d] + 1
    /\ \/ received'[d] = received[d] /\ pc'[a] # "ok_record"
       \/ received'[d] = received[d] + 1 /\ (pc'[a] = "ok_record" \/ faults' = faults + 1)
    /\ count'[d] = count[d] /\ status'[d] = status[d]
    /\ Queued(d)' <=> Queued(d)

Recording(a, d) ==
    /\ \/ pc[a] = "ok_record" /\ pc'[a] = "ok_status"
       \/ pc[a] = "bad_record" /\ pc'[a] = "bad_status"
       \/ pc[a] \in InFetch /\ pc'[a] \in {"retry_record", "give_record"}
             /\ (~Exists(d) \/ faults' = faults + 1)
       \/ pc[a] = "retry_record" /\ pc'[a] = "retry_status" /\ Exists(d)
       \/ pc[a] = "give_record" /\ pc'[a] = "give_status" /\ Exists(d)
    /\ Same(d)

Reopening(a, d) ==
    /\ pc[a] = "retry_status" /\ pc'[a] = "retry_add" /\ faults' = faults
    /\ posts'[d] = posts[d] /\ received'[d] = received[d] /\ count'[d] = count[d]
    /\ status'[d] = IF Exists(d) THEN "pending" ELSE status[d]
    /\ Queued(d)' <=> Queued(d)

Adding(a, d) ==
    /\ pc[a] = "retry_add" /\ pc'[a] = "retry_incr" /\ job'[a] = job[a]
    /\ posts'[d] = posts[d] /\ received'[d] = received[d]
    /\ count'[d] = count[d] /\ status'[d] = status[d]

Counting(a, d) ==
    /\ pc[a] = "retry_incr" /\ pc'[a] \in {"idle", "cleanup"}
    /\ posts'[d] = posts[d] /\ received'[d] = received[d] /\ status'[d] = status[d]
    /\ count'[d] = IF Exists(d) THEN count[d] + 1 ELSE count[d]
    /\ Queued(d)' <=> Queued(d)

Ending(a, d) ==
    /\ pc[a] \in InFetch \cup InEnqueueRetry \cup {"create"} /\ pc'[a] \in {"idle", "cleanup"}
    /\ posts'[d] = posts[d] /\ received'[d] = received[d] /\ count'[d] = count[d]
    /\ \/ status'[d] = status[d]
       \/ pc[a] = "ok_status" /\ Exists(d) /\ status'[d] = "success" /\ faults' = faults
       \/ pc[a] \in {"bad_status", "give_status"} /\ Exists(d) /\ status'[d] = "failed"
             /\ faults' = faults
    /\ pc[a] = "retry_incr" => faults' = faults + 1
    /\ Queued(d)' <=> Queued(d)

\* After finish there is nothing at hand, or the invocation cleans up.
LEMMA FinishMove ==
    ASSUME TypeInv, NEW a \in Agents, Finish(a)
    PROVE  pc'[a] \in {"idle", "cleanup"}
  BY DEF Finish, Idle, Goto, TypeInv, AgentInv

\* These are all the things an attempt does to its delivery.
LEMMA AttemptOnOwn ==
    ASSUME TypeInv, NEW a \in Agents, Attempt(a), NEW d \in Deliveries, WorksOn(a, d)
    PROVE  \/ Posting(a, d) \/ Recording(a, d) \/ Reopening(a, d) \/ Adding(a, d)
           \/ Counting(a, d) \/ Ending(a, d)
<1>1. \A j \in job[a] : j.id = d
  BY DEF WorksOn, TypeInv, AgentInv, OneJob
<1>2. queue' = queue \/ RetryAdd(a)
  BY DEF Attempt, AttemptStep, PostAccepted, PostRejected, PostFailed, RecordOutcome,
         RecordOrphan, UpdateOutcome, RetryRecord, RetryStatus, IncrementAttempt,
         GiveUpRecord, GiveUpStatus, RetryOrphan, PostAnswerLost, AttemptFault, redis
<1>3. queue' = queue => (Queued(d)' <=> Queued(d))
  BY DEF Queued
<1>4. CASE PostAccepted(a) \/ PostRejected(a)
  <2>1. /\ posts'[d] = posts[d] + 1 /\ count' = count /\ status' = status /\ queue' = queue
        /\ pc[a] = "post"
        /\ \/ pc'[a] = "ok_record" /\ received'[d] = received[d] + 1
           \/ pc'[a] = "bad_record" /\ received'[d] = received[d]
    BY <1>1, <1>4 DEF PostAccepted, PostRejected, Posted, Answered2xx, Goto, rows, redis,
                      TypeInv, TypeOK
  <2>. QED
    BY <1>3, <2>1 DEF Posting
<1>5. CASE PostFailed(a)
  <2>1. /\ posts'[d] = posts[d] + 1 /\ count' = count /\ status' = status /\ queue' = queue
        /\ pc[a] = "post" /\ received' = received
    BY <1>1, <1>5 DEF PostFailed, Posted, rows, redis, TypeInv, TypeOK
  <2>2. pc'[a] \in {"retry_record", "give_record"}
    BY <1>5, EnqueueRetryMove DEF PostFailed
  <2>. QED
    BY <1>3, <2>1, <2>2 DEF Posting
<1>6. CASE PostAnswerLost(a)
  <2>1. /\ posts'[d] = posts[d] + 1 /\ count' = count /\ status' = status /\ queue' = queue
        /\ pc[a] = "post" /\ received'[d] = received[d] + 1 /\ faults' = faults + 1
    BY <1>1, <1>6 DEF PostAnswerLost, Fail, Posted, Answered2xx, rows, redis, TypeInv, TypeOK
  <2>2. pc'[a] \in {"retry_record", "give_record"}
    BY <1>6, EnqueueRetryMove DEF PostAnswerLost
  <2>. QED
    BY <1>3, <2>1, <2>2 DEF Posting
<1>7. CASE RecordOutcome(a)
  <2>1. /\ count' = count /\ status' = status /\ queue' = queue /\ UNCHANGED << posts, received >>
        /\ \/ pc[a] = "ok_record" /\ pc'[a] = "ok_status"
           \/ pc[a] = "bad_record" /\ pc'[a] = "bad_status"
    BY <1>7 DEF RecordOutcome, Goto, redis, history, TypeInv, AgentInv
  <2>. QED
    BY <1>3, <2>1 DEF Recording, Same
<1>8. CASE RecordOrphan(a)
  <2>1. /\ count' = count /\ status' = status /\ queue' = queue /\ UNCHANGED << posts, received >>
        /\ pc[a] \in InFetch /\ ~Exists(d)
    BY <1>1, <1>8 DEF RecordOrphan, redis, rows, history, InFetch
  <2>2. pc'[a] \in {"retry_record", "give_record"}
    BY <1>8, EnqueueRetryMove DEF RecordOrphan
  <2>. QED
    BY <1>3, <2>1, <2>2 DEF Recording, Same
<1>9. CASE RetryRecord(a) \/ GiveUpRecord(a)
  <2>1. /\ count' = count /\ status' = status /\ queue' = queue /\ UNCHANGED << posts, received >>
        /\ Exists(d)
        /\ \/ pc[a] = "retry_record" /\ pc'[a] = "retry_status"
           \/ pc[a] = "give_record" /\ pc'[a] = "give_status"
    BY <1>1, <1>9 DEF RetryRecord, GiveUpRecord, RecordAttempt, Goto, redis, history,
                      TypeInv, AgentInv
  <2>. QED
    BY <1>3, <2>1 DEF Recording, Same
<1>10. CASE RetryStatus(a)
  <2>1. /\ count' = count /\ queue' = queue /\ UNCHANGED << posts, received, faults >>
        /\ pc[a] = "retry_status" /\ pc'[a] = "retry_add"
        /\ status'[d] = IF Exists(d) THEN "pending" ELSE status[d]
    BY <1>1, <1>10 DEF RetryStatus, SetStatus, Goto, redis, history, bounds, TypeInv, TypeOK
  <2>. QED
    BY <1>3, <2>1 DEF Reopening
<1>11. CASE RetryAdd(a)
  BY <1>11 DEF RetryAdd, Adding, Goto, rows, history, TypeInv, AgentInv
<1>12. CASE IncrementAttempt(a)
  <2>1. /\ status' = status /\ queue' = queue /\ UNCHANGED << posts, received >>
        /\ pc[a] = "retry_incr"
        /\ count'[d] = IF Exists(d) THEN count[d] + 1 ELSE count[d]
    BY <1>1, <1>12 DEF IncrementAttempt, redis, history, TypeInv, TypeOK
  <2>2. pc'[a] \in {"idle", "cleanup"}
    BY <1>12, FinishMove DEF IncrementAttempt
  <2>. QED
    BY <1>3, <2>1, <2>2 DEF Counting
<1>13. CASE UpdateOutcome(a) \/ GiveUpStatus(a)
  <2>1. /\ count' = count /\ queue' = queue /\ UNCHANGED << posts, received, faults >>
        /\ pc[a] \in {"ok_status", "bad_status", "give_status"}
        /\ \/ status'[d] = status[d]
           \/ pc[a] = "ok_status" /\ Exists(d) /\ status'[d] = "success"
           \/ pc[a] \in {"bad_status", "give_status"} /\ Exists(d) /\ status'[d] = "failed"
    BY <1>1, <1>13 DEF UpdateOutcome, GiveUpStatus, SetStatus, redis, history, bounds, TypeInv, TypeOK
  <2>2. pc'[a] \in {"idle", "cleanup"}
    BY <1>13, FinishMove DEF UpdateOutcome, GiveUpStatus
  <2>. QED
    BY <1>3, <2>1, <2>2 DEF Ending, InFetch, InEnqueueRetry
<1>14. CASE RetryOrphan(a)
  <2>1. /\ count' = count /\ status' = status /\ queue' = queue /\ UNCHANGED << posts, received >>
        /\ pc[a] \in {"retry_record", "give_record"}
    BY <1>14 DEF RetryOrphan, redis, rows, history
  <2>2. pc'[a] \in {"idle", "cleanup"}
    BY <1>14, FinishMove DEF RetryOrphan
  <2>. QED
    BY <1>3, <2>1, <2>2 DEF Ending, InEnqueueRetry
<1>15. CASE AttemptFault(a)
  <2>1. /\ count' = count /\ status' = status /\ queue' = queue /\ UNCHANGED << posts, received >>
        /\ faults' = faults + 1
    BY <1>15 DEF AttemptFault, Fail, redis, rows, history
  <2>2. CASE pc[a] \in InFetch /\ EnqueueRetry(a)
    <3>1. pc'[a] \in {"retry_record", "give_record"}
      BY <2>2, EnqueueRetryMove
    <3>. QED
      BY <1>3, <2>1, <2>2, <3>1 DEF Recording, Same
  <2>3. CASE pc[a] \in InEnqueueRetry \cup {"create"} /\ Finish(a)
    <3>1. pc'[a] \in {"idle", "cleanup"}
      BY <2>3, FinishMove
    <3>. QED
      BY <1>3, <2>1, <2>3, <3>1 DEF Ending
  <2>. QED
    BY <1>15, <2>2, <2>3 DEF AttemptFault
<1>. QED
  BY <1>4, <1>5, <1>6, <1>7, <1>8, <1>9, <1>10, <1>11, <1>12, <1>13, <1>14, <1>15
  DEF Attempt, AttemptStep

\* What the rest of pollAndRetry does to a delivery d.
Taking(w, d) ==
    /\ pc[w] = "idle" /\ pc'[w] = "claim"
    /\ WorksOn(w, d)' => Queued(d)
    /\ Same(d)

Approaching(w, d) ==
    /\ \/ pc[w] = "claim" /\ pc'[w] = "unqueue"
       \/ pc[w] = "config" /\ pc'[w] \in {"payload", "gone_status"}
       \/ pc[w] = "payload" /\ pc'[w] \in {"post", "gone_status"}
    /\ job'[w] = job[w]
    /\ Same(d)

Removing(w, d) ==
    /\ pc[w] = "unqueue" /\ pc'[w] = "load" /\ job'[w] = job[w]
    /\ posts'[d] = posts[d] /\ received'[d] = received[d]
    /\ count'[d] = count[d] /\ status'[d] = status[d]
    /\ Queued(d)' => Queued(d)
    /\ WorksOn(w, d) => ~Queued(d)'

Loading(w, d) ==
    /\ pc[w] = "load" /\ pc'[w] = "config"
    /\ \A i \in job'[w] : \E j \in job[w] :
          i.id = j.id /\ Exists(j.id) /\ i.attempt = count[j.id] + 1
    /\ Same(d)

Leaving(w, d) ==
    /\ pc[w] \in {"claim", "unqueue", "load", "config", "payload", "gone_status", "drop", "cleanup"}
    /\ pc'[w] \in {"drop", "cleanup", "idle"}
    /\ pc'[w] = "drop" => pc[w] \in {"load", "gone_status"}
    /\ job'[w] = job[w] \/ job'[w] = {}
    /\ posts'[d] = posts[d] /\ received'[d] = received[d] /\ count'[d] = count[d]
    /\ \/ status'[d] = status[d]
       \/ pc[w] = "gone_status" /\ WorksOn(w, d) /\ Exists(d) /\ status'[d] = "failed"
             /\ faults' = faults
    /\ Queued(d)' <=> Queued(d)

\* pollAndRetry moves one agent and touches neither the webhooks nor dispatch().
LEMMA PollFrame ==
    ASSUME TypeInv, NEW w \in Workers, PollStep(w)
    PROVE  /\ OnlyAgent(w)
           /\ UNCHANGED << fan, configs, crashes >>
           /\ faults' \in {faults, faults + 1}
           /\ pc'[w] # "create" /\ (pc'[w] = "idle" => job'[w] = {})
<1>0. w \in Agents
  BY DEF Agents
<1>1. CASE Poll(w) \/ Claim(w) \/ Unqueue(w) \/ Load(w)
  BY <1>0, <1>1 DEF Poll, Claim, Unqueue, Load, OnlyAgent, Goto, TypeInv, AgentInv, dispatch, bounds
<1>2. CASE GetWebhook(w) \/ GetPayload(w) \/ FailGone(w) \/ Drop(w) \/ Cleanup(w)
  BY <1>0, <1>2 DEF GetWebhook, GetPayload, FailGone, Drop, Cleanup, OnlyAgent, Goto, Idle, dispatch,
              bounds, TypeInv, AgentInv
<1>3. CASE PollFault(w)
  BY <1>0, <1>3 DEF PollFault, Fail, OnlyAgent, Goto, Idle, TypeInv, AgentInv, dispatch
<1>. QED
  BY <1>1, <1>2, <1>3 DEF PollStep

\* These are all the things it does to a delivery.
LEMMA PollOnDelivery ==
    ASSUME TypeInv, NEW w \in Workers, PollStep(w), NEW d \in Deliveries
    PROVE  \/ Taking(w, d) \/ Approaching(w, d) \/ Removing(w, d) \/ Loading(w, d)
           \/ Leaving(w, d)
<1>0. w \in Agents /\ (queue' = queue => (Queued(d)' <=> Queued(d)))
  BY DEF Agents, Queued
<1>1. CASE Poll(w)
  <2>1. /\ pc[w] = "idle" /\ pc'[w] = "claim" /\ UNCHANGED << queue, posts, received, count, status >>
        /\ \E e \in Due : job'[w] = {[id |-> e.id, attempt |-> 0, retryAt |-> 0]}
    BY <1>0, <1>1 DEF Poll, Goto, Earliest, redis, rows, history, TypeInv, AgentInv
  <2>2. WorksOn(w, d)' => Queued(d)
    BY <2>1 DEF WorksOn, Queued, Due
  <2>. QED
    BY <1>0, <2>1, <2>2 DEF Taking, Same
<1>2. CASE Claim(w) \/ GetWebhook(w) \/ GetPayload(w)
  <2>1. /\ UNCHANGED << queue, posts, received, count, status, job >>
        /\ \/ pc[w] = "claim" /\ pc'[w] = "unqueue"
           \/ pc[w] = "config" /\ pc'[w] \in {"payload", "gone_status"}
           \/ pc[w] = "payload" /\ pc'[w] \in {"post", "gone_status"}
    BY <1>0, <1>2 DEF Claim, GetWebhook, GetPayload, Goto, redis, rows, history, TypeInv, AgentInv
  <2>. QED
    BY <1>0, <2>1 DEF Approaching, Same
<1>3. CASE Unqueue(w)
  <2>1. /\ UNCHANGED << posts, received, count, status, job >>
        /\ pc[w] = "unqueue" /\ pc'[w] = "load"
        /\ queue' = {e \in queue : \A j \in job[w] : e.id # j.id}
    BY <1>0, <1>3 DEF Unqueue, Goto, rows, history, TypeInv, AgentInv
  <2>2. (Queued(d)' => Queued(d)) /\ (WorksOn(w, d) => ~Queued(d)')
    BY <2>1 DEF Queued, WorksOn
  <2>. QED
    BY <2>1, <2>2 DEF Removing
<1>4. CASE Load(w)
  <2>0. PICK j \in job[w] :
            \/ ~Exists(j.id) /\ Goto(w, "drop") /\ UNCHANGED job
            \/ /\ Exists(j.id)
               /\ job' = [job EXCEPT ![w] = {[j EXCEPT !.attempt = count[j.id] + 1]}]
               /\ Goto(w, "config")
    BY <1>4 DEF Load
  <2>1. UNCHANGED << queue, posts, received, count, status >> /\ pc[w] = "load"
    BY <1>4 DEF Load, redis, rows, history
  <2>2. CASE Goto(w, "drop") /\ UNCHANGED job
    BY <1>0, <2>1, <2>2 DEF Leaving, Goto, TypeInv, AgentInv
  <2>3. CASE /\ Exists(j.id)
             /\ job' = [job EXCEPT ![w] = {[j EXCEPT !.attempt = count[j.id] + 1]}]
             /\ Goto(w, "config")
    <3>. DEFINE i == [j EXCEPT !.attempt = count[j.id] + 1]
    <3>1. j \in Job
      BY <1>0 DEF TypeInv, AgentInv
    <3>2. i.id = j.id /\ i.attempt = count[j.id] + 1
      BY <3>1 DEF Job
    <3>3. job'[w] = {i} /\ pc'[w] = "config"
      BY <1>0, <2>3 DEF Goto, TypeInv, AgentInv
    <3>. HIDE DEF i
    <3>. QED
      BY <1>0, <2>1, <2>3, <3>2, <3>3 DEF Loading, Same
  <2>. QED
    BY <2>0, <2>2, <2>3
<1>5. CASE FailGone(w)
  <2>1. /\ UNCHANGED << queue, posts, received, count, job, faults >>
        /\ pc[w] = "gone_status" /\ pc'[w] = "drop"
    BY <1>0, <1>5 DEF FailGone, Goto, redis, history, bounds, TypeInv, AgentInv
  <2>2. \/ status'[d] = status[d]
        \/ WorksOn(w, d) /\ Exists(d) /\ status'[d] = "failed"
    BY <1>0, <1>5 DEF FailGone, SetStatus, WorksOn, TypeInv, TypeOK
  <2>. QED
    BY <1>0, <2>1, <2>2 DEF Leaving
<1>6. CASE Drop(w) \/ Cleanup(w)
  BY <1>0, <1>6 DEF Drop, Cleanup, Leaving, Goto, Idle, rows, history, TypeInv, AgentInv
<1>7. CASE PollFault(w)
  BY <1>0, <1>7 DEF PollFault, Leaving, Goto, Idle, redis, rows, history, TypeInv, AgentInv
<1>. QED
  BY <1>1, <1>2, <1>3, <1>4, <1>5, <1>6, <1>7 DEF PollStep

\* An invocation takes up no delivery in the middle.
LEMMA PollJob ==
    ASSUME TypeInv, NEW w \in Workers, PollStep(w), NEW d \in Deliveries, WorksOn(w, d)'
    PROVE  WorksOn(w, d) \/ (Taking(w, d) /\ Queued(d))
  BY PollOnDelivery DEF Taking, Approaching, Removing, Loading, Leaving, WorksOn

-----------------------------------------------------------------------------
(* No worker has a delivery that dispatchToOne has not queued *)

\* dispatch() or dispatchToOne has not inserted the row.
Waiting(d) == fan[d[2]] # "done" \/ pc[d] = "create"

\* dispatchToOne has not queued it.
FirstTry(d) == pc[d] \notin {"idle", "retry_incr"}

\* An agent that is not under way has nothing at hand; dispatchToOne works on
\* its own delivery.
HandsInv ==
    /\ \A a \in Agents : pc[a] \in {"idle", "create"} => job[a] = {}
    /\ \A d \in Deliveries : \A j \in job[d] : j.id = d

\* What nobody has worked on yet, and what only dispatchToOne has.
Unseen(d) ==
    /\ Waiting(d) => ~Exists(d)
    /\ Waiting(d) \/ pc[d] = "post" => posts[d] = 0 /\ received[d] = 0
    /\ Waiting(d) \/ FirstTry(d) =>
          ~Queued(d) /\ count[d] = 0 /\ posts[d] <= 1 /\ \A w \in Workers : ~WorksOn(w, d)

\* Who works on a delivery finds its row, unless the webhook was deleted.
Rowed(d) == Queued(d) \/ (\E a \in Agents : WorksOn(a, d)) => Exists(d) \/ d[1] \notin configs

FreshInv == HandsInv /\ \A d \in Deliveries : Unseen(d) /\ Rowed(d)

\* Nothing has been dispatched.
LEMMA FreshInit == Init => FreshInv
  BY DEF Init, FreshInv, HandsInv, Unseen, Rowed, Waiting, FirstTry, Queued, WorksOn, Exists,
         Agents

\* A worker and a run of dispatchToOne are different agents.
LEMMA AgentsDiffer ==
    ASSUME NEW w \in Workers, NEW d \in Deliveries
    PROVE  w # d /\ w \in Agents /\ d \in Agents
  BY DeliveryConstants DEF Agents

\* Every step leaves an agent that is not under way with nothing at hand.
LEMMA HandsNext == TypeInv /\ NotStarted /\ HandsInv /\ [Next]_vars => HandsInv'
<1>. SUFFICES ASSUME TypeInv, NotStarted, HandsInv, [Next]_vars PROVE HandsInv'
  OBVIOUS
<1>1. CASE Calm
  BY <1>1 DEF Calm, HandsInv
<1>2. ASSUME NEW m \in Messages, CachePayload(m) PROVE HandsInv'
  <2>1. ASSUME NEW a \in targets[m] \X {m} PROVE a \in Agents /\ job[a] = {}
    <3>1. PICK h \in targets[m] : a = << h, m >>
      BY <2>1
    <3>2. h \in Webhooks
      BY DEF TypeInv, TypeOK
    <3>3. pc[<< h, m >>] = "idle" /\ << h, m >> \in Agents
      BY <1>2, <3>2 DEF CachePayload, NotStarted, Agents, Deliveries
    <3>. QED
      BY <3>1, <3>3 DEF HandsInv
  <2>2. \A a \in Agents : pc'[a] = IF a \in targets[m] \X {m} THEN "create" ELSE pc[a]
    BY <1>2 DEF CachePayload
  <2>. QED
    BY <1>2, <2>1, <2>2 DEF CachePayload, HandsInv
<1>3. ASSUME NEW d \in Deliveries, CreateDelivery(d) PROVE HandsInv'
  <2>1. CASE Idle(d)
    BY <2>1 DEF Idle, HandsInv, Agents, TypeInv, AgentInv
  <2>2. CASE job' = [job EXCEPT ![d] = {[id |-> d, attempt |-> 1, retryAt |-> 0]}] /\ Goto(d, "post")
    BY <2>2 DEF Goto, HandsInv, Agents, TypeInv, AgentInv
  <2>. QED
    BY <1>3, <2>1, <2>2 DEF CreateDelivery
<1>4. ASSUME NEW a \in Agents, Attempt(a) PROVE HandsInv'
  <2>1. OnlyAgent(a) /\ SameJob(a)
    BY <1>4, AttemptFrame, AttemptJob
  <2>. QED
    BY <2>1 DEF HandsInv, OnlyAgent, SameJob, Agents
<1>5. ASSUME NEW w \in Workers, PollStep(w) PROVE HandsInv'
  BY <1>5, PollFrame, AgentsDiffer DEF HandsInv, OnlyAgent
<1>6. ASSUME NEW h \in Webhooks, DeleteWebhook(h) PROVE HandsInv'
  BY <1>6 DEF DeleteWebhook, HandsInv, agent
<1>7. CASE Restart
  BY <1>7 DEF Restart, HandsInv, Agents
<1>. QED
  BY <1>1, <1>2, <1>3, <1>4, <1>5, <1>6, <1>7, StepKinds

\* What a step does to a delivery it is not about.
LEMMA UnseenStays ==
    ASSUME NEW d \in Deliveries, Unseen(d), Rowed(d), Same(d), UNCHANGED << fan, configs >>,
           pc'[d] \notin {"create", "post"} \/ pc'[d] = pc[d],
           pc[d] \in {"idle", "retry_incr"} => pc'[d] \in {"idle", "retry_incr"},
           \A a \in Agents : WorksOn(a, d)' => WorksOn(a, d) \/ Queued(d),
           \A w \in Workers : w \in Agents
    PROVE  Unseen(d)' /\ Rowed(d)'
  BY DEF Unseen, Rowed, Waiting, FirstTry, Same, Exists

\* Every step keeps what nobody has seen out of the queue and the workers' hands.
LEMMA FreshNext == TypeInv /\ NotStarted /\ FreshInv /\ [Next]_vars => FreshInv'
<1>. SUFFICES ASSUME TypeInv, NotStarted, FreshInv, [Next]_vars, NEW d \in Deliveries
              PROVE  Unseen(d)' /\ Rowed(d)'
  BY HandsNext DEF FreshInv
<1>0. /\ Unseen(d) /\ Rowed(d) /\ d \in Agents
      /\ \A w \in Workers : w # d /\ w \in Agents
      /\ fan[d[2]] # "done" => pc[d] = "idle"
      /\ \A c \in Deliveries : c # d => ~WorksOn(c, d)
  <2>1. fan[d[2]] # "done" => pc[d] = "idle"
    BY DEF NotStarted, Deliveries
  <2>. QED
    BY <2>1, AgentsDiffer DEF FreshInv, HandsInv, WorksOn, Agents
<1>1. CASE Calm
  <2>1. /\ UNCHANGED << pc, job, queue, posts, received, count, status, configs >>
        /\ Waiting(d)' => Waiting(d)
    BY <1>1 DEF Calm, Waiting, Deliveries
  <2>. QED
    BY <1>0, <2>1 DEF Unseen, Rowed, FirstTry, Exists, Queued, WorksOn
<1>2. ASSUME NEW m \in Messages, CachePayload(m) PROVE Unseen(d)' /\ Rowed(d)'
  <2>1. /\ UNCHANGED << queue, job, posts, received, count, status, configs >>
        /\ fan[m] = "cache"
        /\ d[2] # m => pc'[d] = pc[d] /\ fan'[d[2]] = fan[d[2]]
    BY <1>0, <1>2 DEF CachePayload, rows, history, Deliveries, TypeInv, TypeOK
  <2>2. CASE d[2] = m
    <3>1. Waiting(d)
      BY <2>1, <2>2 DEF Waiting
    <3>. QED
      BY <1>0, <2>1, <3>1 DEF Unseen, Rowed, Exists, Queued, WorksOn
  <2>3. CASE d[2] # m
    BY <1>0, <2>1, <2>3 DEF Unseen, Rowed, Waiting, FirstTry, Exists, Queued, WorksOn
  <2>. QED
    BY <2>2, <2>3
<1>3. ASSUME NEW c \in Deliveries, CreateDelivery(c) PROVE Unseen(d)' /\ Rowed(d)'
  <2>1. /\ UNCHANGED << queue, posts, received, count, configs, fan >>
        /\ \A a \in Agents : a # c => pc'[a] = pc[a] /\ job'[a] = job[a]
        /\ c # d => status'[d] = status[d]
        /\ pc'[c] \in {"post", "idle"} /\ c \in Agents
        /\ pc'[c] = "post" => status'[c] # "none"
        /\ pc'[c] = "idle" => job'[c] = {}
        /\ \A i \in job'[c] : i.id = c
    BY <1>3 DEF CreateDelivery, redis, history, dispatch, Goto, Idle, TypeInv, AgentInv, TypeOK,
                Agents
  <2>2. CASE c = d
    <3>1. Waiting(d) /\ ~Waiting(d)'
      BY <1>0, <1>3, <2>1, <2>2 DEF Waiting, CreateDelivery
    <3>2. \A a \in Agents : a # d => ~WorksOn(a, d)'
      BY <1>0, <2>1, <2>2, <3>1 DEF Unseen, WorksOn, Agents
    <3>. QED
      BY <1>0, <2>1, <2>2, <3>1, <3>2 DEF Unseen, Rowed, FirstTry, Queued, WorksOn, Exists
  <2>3. CASE c # d
    <3>1. Same(d)
      BY <2>1, <2>3 DEF Same, Queued
    <3>2. \A a \in Agents : WorksOn(a, d)' => WorksOn(a, d)
      BY <2>1, <2>3 DEF WorksOn
    <3>. QED
      BY <1>0, <2>1, <2>3, <3>1, <3>2, UnseenStays
  <2>. QED
    BY <2>2, <2>3
<1>4. ASSUME NEW a \in Agents, Attempt(a) PROVE Unseen(d)' /\ Rowed(d)'
  <2>1. /\ \A b \in Agents : b # a => pc'[b] = pc[b] /\ job'[b] = job[b]
        /\ UNCHANGED << fan, configs >> /\ SameJob(a)
        /\ \A b \in Agents : WorksOn(b, d)' => WorksOn(b, d)
    BY <1>4, AttemptFrame, AttemptJob DEF OnlyAgent, SameJob, WorksOn
  <2>2. /\ pc'[d] \notin {"create", "post"} \/ pc'[d] = pc[d]
        /\ pc[d] \in {"idle", "retry_incr"} => pc'[d] \in {"idle", "retry_incr"}
    BY <1>0, <2>1 DEF SameJob
  <2>3. CASE ~WorksOn(a, d)
    BY <1>0, <1>4, <2>1, <2>2, <2>3, AttemptOnOther, UnseenStays
  <2>4. CASE WorksOn(a, d)
    <3>1. \/ Posting(a, d) \/ Recording(a, d) \/ Reopening(a, d) \/ Adding(a, d)
          \/ Counting(a, d) \/ Ending(a, d)
      BY <1>4, <2>4, AttemptOnOwn
    <3>2. Exists(d)' <=> Exists(d)
      BY <3>1 DEF Posting, Recording, Reopening, Adding, Counting, Ending, Exists, Same
    <3>3. Rowed(d)'
      BY <1>0, <2>1, <2>4, <3>2 DEF Rowed
    <3>4. CASE a # d
      <4>1. ~Waiting(d) /\ ~FirstTry(d) /\ pc'[d] = pc[d]
        BY <1>0, <2>1, <2>4, <3>4 DEF Unseen, Agents
      <4>. QED
        BY <2>1, <3>3, <4>1 DEF Unseen, Waiting, FirstTry
    <3>5. CASE a = d
      <4>1. ~Waiting(d)' /\ pc'[d] # "post"
        BY <1>0, <2>1, <2>4, <3>5 DEF Waiting, SameJob, FreshInv, HandsInv, WorksOn
      <4>2. FirstTry(d)' => FirstTry(d)
        BY <2>2 DEF FirstTry
      <4>3. FirstTry(d)' => ~Queued(d)' /\ count'[d] = 0 /\ posts'[d] <= 1
        BY <1>0, <3>1, <3>5, <4>2
        DEF Posting, Recording, Reopening, Adding, Counting, Ending, Same, Unseen, FirstTry,
            Waiting, InFetch, InEnqueueRetry
      <4>4. FirstTry(d)' => \A w \in Workers : ~WorksOn(w, d)'
        BY <1>0, <2>1, <4>2 DEF Unseen
      <4>. QED
        BY <3>3, <4>1, <4>3, <4>4 DEF Unseen
    <3>. QED
      BY <3>4, <3>5
  <2>. QED
    BY <2>3, <2>4
<1>5. ASSUME NEW w \in Workers, PollStep(w) PROVE Unseen(d)' /\ Rowed(d)'
  <2>1. /\ pc'[d] = pc[d] /\ UNCHANGED << fan, configs >>
        /\ \A a \in Agents : a # w => job'[a] = job[a]
    BY <1>0, <1>5, PollFrame DEF OnlyAgent
  <2>2. \A a \in Agents : WorksOn(a, d)' => WorksOn(a, d) \/ Queued(d)
    BY <1>5, <2>1, PollJob DEF WorksOn
  <2>3. /\ posts'[d] = posts[d] /\ received'[d] = received[d] /\ count'[d] = count[d]
        /\ Queued(d)' => Queued(d)
        /\ Exists(d)' <=> Exists(d)
    BY <1>5, PollOnDelivery
    DEF Taking, Approaching, Removing, Loading, Leaving, Same, Exists
  <2>. QED
    BY <1>0, <2>1, <2>2, <2>3 DEF Unseen, Rowed, Waiting, FirstTry
<1>6. ASSUME NEW h \in Webhooks, DeleteWebhook(h) PROVE Unseen(d)' /\ Rowed(d)'
  <2>1. /\ UNCHANGED << queue, pc, job, fan, posts, received >>
        /\ status'[d] = IF d[1] = h THEN "none" ELSE status[d]
        /\ count'[d] = IF d[1] = h THEN 0 ELSE count[d]
        /\ configs' = configs \ {h}
    BY <1>6 DEF DeleteWebhook, redis, agent, dispatch, history
  <2>. QED
    BY <1>0, <2>1 DEF Unseen, Rowed, Waiting, FirstTry, Queued, WorksOn, Exists
<1>7. CASE Restart
  <2>1. /\ UNCHANGED << queue, configs, posts, received, count, status >>
        /\ \A a \in Agents : pc'[a] = "idle" /\ job'[a] = {}
        /\ fan'[d[2]] # "done" => fan[d[2]] # "done"
    BY <1>7 DEF Restart, redis, rows, history, Deliveries
  <2>. QED
    BY <1>0, <2>1 DEF Unseen, Rowed, Waiting, FirstTry, Queued, WorksOn, Exists
<1>. QED
  BY <1>1, <1>2, <1>3, <1>4, <1>5, <1>6, <1>7, StepKinds

-----------------------------------------------------------------------------
(* An invocation that has removed its entry finds no other in the queue *)

Held == Step \ {"idle", "create", "claim", "unqueue", "retry_incr", "cleanup"}

TakenInv == \A w \in Workers, d \in Deliveries : pc[w] \in Held /\ WorksOn(w, d) => ~Queued(d)

\* No invocation is under way.
LEMMA TakenInit == Init => TakenInv
  BY DEF Init, TakenInv, WorksOn, Agents

\* The entry comes back when the retry is added, and not before.
LEMMA TakenNext ==
    Serial /\ TypeInv /\ FreshInv /\ TakenInv /\ [Next]_vars => TakenInv'
<1>. SUFFICES ASSUME Serial, TypeInv, FreshInv, TakenInv, [Next]_vars, NEW w \in Workers,
                     NEW d \in Deliveries, pc'[w] \in Held, WorksOn(w, d)'
              PROVE  ~Queued(d)'
  BY DEF TakenInv, Held
<1>0. /\ w \in Agents /\ d \in Agents /\ w # d
      /\ \A c \in Deliveries : w # c /\ (c # d => ~WorksOn(c, d))
      /\ WorksOn(w, d) /\ pc[w] \in Held => ~Queued(d)
      /\ Unseen(d)
  BY AgentsDiffer DEF FreshInv, HandsInv, WorksOn, TakenInv
<1>1. CASE Calm
  BY <1>0, <1>1 DEF Calm, WorksOn, Queued
<1>2. ASSUME NEW m \in Messages, CachePayload(m) PROVE ~Queued(d)'
  <2>1. UNCHANGED << queue, job >> /\ pc'[w] = pc[w]
    <3>1. \A h \in targets[m] : << h, m >> \in Deliveries
      BY DEF TypeInv, TypeOK, Deliveries
    <3>2. w \notin targets[m] \X {m}
      BY <1>0, <3>1
    <3>. QED
      BY <1>0, <1>2, <3>2 DEF CachePayload
  <2>. QED
    BY <1>0, <2>1 DEF WorksOn, Queued
<1>3. ASSUME NEW c \in Deliveries, CreateDelivery(c) PROVE ~Queued(d)'
  <2>1. UNCHANGED queue /\ pc'[w] = pc[w] /\ job'[w] = job[w]
    BY <1>0, <1>3 DEF CreateDelivery, redis, Goto, Idle, TypeInv, AgentInv
  <2>. QED
    BY <1>0, <2>1 DEF WorksOn, Queued
<1>4. ASSUME NEW a \in Agents, Attempt(a) PROVE ~Queued(d)'
  <2>1. /\ a # w => pc'[w] = pc[w] /\ job'[w] = job[w]
        /\ WorksOn(w, d)
        /\ SameJob(a)
    BY <1>0, <1>4, AttemptFrame, AttemptJob DEF OnlyAgent, SameJob, WorksOn
  <2>2. CASE ~WorksOn(a, d)
    <3>1. Same(d) /\ a # w
      BY <1>4, <2>1, <2>2, AttemptOnOther
    <3>. QED
      BY <1>0, <2>1, <3>1 DEF Same
  <2>3. CASE WorksOn(a, d)
    <3>1. \/ Posting(a, d) \/ Recording(a, d) \/ Reopening(a, d) \/ Adding(a, d)
          \/ Counting(a, d) \/ Ending(a, d)
      BY <1>4, <2>3, AttemptOnOwn
    <3>2. CASE a = w
      BY <1>0, <2>1, <3>1, <3>2
      DEF Posting, Recording, Reopening, Adding, Counting, Ending, Same, Held, InFetch, Step
    <3>3. CASE a # w
      <4>1. a = d
        BY <1>0, <2>3, <3>3 DEF Serial, Agents
      <4>2. pc[d] \in {"idle", "retry_incr"}
        BY <1>0, <2>1 DEF Unseen, FirstTry
      <4>3. Queued(d)' <=> Queued(d)
        BY <3>1, <4>1, <4>2
        DEF Posting, Recording, Reopening, Adding, Counting, Ending, Same
      <4>. QED
        BY <1>0, <2>1, <3>3, <4>3
    <3>. QED
      BY <3>2, <3>3
  <2>. QED
    BY <2>2, <2>3
<1>5. ASSUME NEW v \in Workers, PollStep(v) PROVE ~Queued(d)'
  <2>1. v = w
    BY DEF Serial
  <2>2. \/ Taking(w, d) \/ Approaching(w, d) \/ Removing(w, d) \/ Loading(w, d) \/ Leaving(w, d)
    BY <1>5, <2>1, PollOnDelivery
  <2>3. ~Taking(w, d)
    BY DEF Taking, Held
  <2>4. WorksOn(w, d)
    BY <1>5, <2>1, <2>3, PollJob
  <2>. QED
    BY <1>0, <2>2, <2>3, <2>4 DEF Approaching, Removing, Loading, Leaving, Same, Held, Step
<1>6. ASSUME NEW h \in Webhooks, DeleteWebhook(h) PROVE ~Queued(d)'
  BY <1>0, <1>6 DEF DeleteWebhook, redis, agent, WorksOn, Queued
<1>7. CASE Restart
  BY <1>0, <1>7 DEF Restart, Held
<1>. QED
  BY <1>1, <1>2, <1>3, <1>4, <1>5, <1>6, <1>7, StepKinds

-----------------------------------------------------------------------------
(* Every POST is paid for *)

Before == {"claim", "unqueue", "load", "config", "payload", "post"}
Retry == {"retry_record", "retry_status", "retry_add", "retry_incr"}
Uncounted == InFetch \cup Retry
Numbered == {"config", "payload", "post"} \cup Uncounted

\* A worker has d and awaits at one of the steps S.
At(d, S) == \E w \in Workers : pc[w] \in S /\ WorksOn(w, d)

\* Only an attempt that is not the last is retried.
RetryNumber == \A a \in Agents : pc[a] \in Retry => \A j \in job[a] : j.attempt + 1 <= MaxRetries

Losses == faults + crashes

\* How many POSTs of d attempt_count and the losses account for.  u is 1 until
\* the increment of dispatchToOne has landed: the worker may have read
\* attempt_count without it.  A POST whose own increment is still to come is
\* one ahead.
Paid(d, u) ==
    /\ pc[d] = "retry_incr" => u = 1
    /\ count[d] + u <= MaxRetries
    /\ \A w \in Workers : pc[w] \in Numbered =>
          \A j \in job[w] : j.id = d => count[d] + u <= j.attempt
    /\ Exists(d) /\ At(d, Before) => posts[d] <= count[d] + u + Losses
    /\ Exists(d) /\ At(d, Uncounted) => posts[d] <= count[d] + u + Losses + 1
    /\ Exists(d) /\ Queued(d) /\ ~At(d, {"retry_incr"}) => posts[d] <= count[d] + u + Losses
    /\ At(d, {"config", "payload", "post"}) => posts[d] <= MaxRetries + Losses
    /\ posts[d] <= MaxRetries + 1 + Losses

PaidInv == \A d \in Deliveries : \E u \in {0, 1} : Paid(d, u)

\* Nothing has been posted.
LEMMA PaidInit == Init => RetryNumber /\ PaidInv
<1>. SUFFICES ASSUME Init PROVE RetryNumber /\ PaidInv
  OBVIOUS
<1>1. RetryNumber
  BY DEF Init, RetryNumber, Retry
<1>2. ASSUME NEW d \in Deliveries PROVE Paid(d, 1)
  <2>1. \A S : "idle" \notin S => ~At(d, S)
    BY AgentsDiffer DEF Init, At
  <2>. QED
    BY <2>1, AgentsDiffer, DeliveryConstants
    DEF Init, Paid, Losses, Before, Uncounted, Retry, Numbered, InFetch, Queued
<1>. QED
  BY <1>1, <1>2 DEF PaidInv

\* The numbers of retries are within the limit after every step.
LEMMA RetryNumberNext == TypeInv /\ RetryNumber /\ [Next]_vars => RetryNumber'
<1>. SUFFICES ASSUME TypeInv, RetryNumber, [Next]_vars, NEW b \in Agents, pc'[b] \in Retry,
                     NEW i \in job'[b]
              PROVE  i.attempt + 1 <= MaxRetries
  BY DEF RetryNumber, Retry
<1>1. CASE pc'[b] = pc[b] /\ job'[b] = job[b]
  BY <1>1 DEF RetryNumber
<1>2. CASE Calm
  BY <1>1, <1>2 DEF Calm
<1>3. ASSUME NEW m \in Messages, CachePayload(m) PROVE pc'[b] = pc[b] /\ job'[b] = job[b]
  BY <1>3 DEF CachePayload, Retry
<1>4. ASSUME NEW d \in Deliveries, CreateDelivery(d) PROVE pc'[b] = pc[b] /\ job'[b] = job[b]
  BY <1>4 DEF CreateDelivery, Goto, Idle, Retry, TypeInv, AgentInv
<1>5. ASSUME NEW a \in Agents, Attempt(a) PROVE i.attempt + 1 <= MaxRetries
  <2>1. CASE a # b
    BY <1>1, <1>5, <2>1, AttemptFrame DEF OnlyAgent
  <2>2. CASE a = b
    <3>1. SameJob(b)
      BY <1>5, <2>2, AttemptJob
    <3>2. PICK j \in job[b] : i.id = j.id /\ i.attempt = j.attempt
      BY <3>1 DEF SameJob
    <3>. DEFINE d == j.id
    <3>3. d \in Deliveries /\ WorksOn(b, d)
      BY DEF TypeInv, AgentInv, Job, WorksOn
    <3>. HIDE DEF d
    <3>4. \/ Posting(b, d) \/ Recording(b, d) \/ Reopening(b, d) \/ Adding(b, d)
          \/ Counting(b, d) \/ Ending(b, d)
      BY <1>5, <2>2, <3>3, AttemptOnOwn
    <3>5. (pc'[b] = "retry_record" /\ pc[b] # "retry_record") \/ pc[b] \in Retry
      BY <3>4 DEF Posting, Recording, Reopening, Adding, Counting, Ending, Retry, InFetch
    <3>. QED
      BY <3>1, <3>2, <3>5 DEF SameJob, RetryNumber
  <2>. QED
    BY <2>1, <2>2
<1>6. ASSUME NEW w \in Workers, PollStep(w) PROVE pc'[b] = pc[b] /\ job'[b] = job[b]
  <2>1. CASE b # w
    BY <1>6, <2>1, PollFrame DEF OnlyAgent
  <2>2. CASE b = w
    <3>1. pc'[w] \notin Retry
      BY <1>6, AgentsDiffer
      DEF PollStep, Poll, Claim, Unqueue, Load, GetWebhook, GetPayload, FailGone, Drop, Cleanup,
          PollFault, Goto, Idle, Retry, TypeInv, AgentInv
    <3>. QED
      BY <2>2, <3>1
  <2>. QED
    BY <2>1, <2>2
<1>7. ASSUME NEW h \in Webhooks, DeleteWebhook(h) PROVE pc'[b] = pc[b] /\ job'[b] = job[b]
  BY <1>7 DEF DeleteWebhook, agent
<1>8. CASE Restart
  BY <1>8 DEF Restart
<1>. QED
  BY <1>1, <1>2, <1>3, <1>4, <1>5, <1>6, <1>7, <1>8, StepKinds

\* The losses are counted.
LEMMA LossesType == (TypeInv => Losses \in Nat) /\ (TypeInv' => Losses' \in Nat)
<1>1. TypeInv => Losses \in Nat
  BY DeliveryConstants DEF TypeInv, TypeOK, Losses
<1>2. ASSUME TypeInv' PROVE Losses' \in Nat
  <2>1. faults' \in Nat /\ crashes' \in Nat
    BY <1>2, DeliveryConstants DEF TypeInv, TypeOK
  <2>2. \A m, n \in Nat : m + n \in Nat
    OBVIOUS
  <2>3. faults' + crashes' \in Nat
    BY <2>1, <2>2
  <2>. QED
    BY <2>3 DEF Losses
<1>. QED
  BY <1>1, <1>2

\* What a step that posts and counts nothing leaves paid.
LEMMA PaidStays ==
    ASSUME TypeInv, TypeInv', NEW d \in Deliveries, NEW u \in {0, 1}, Paid(d, u),
           pc'[d] = "retry_incr" => u = 1,
           posts'[d] = posts[d], Losses <= Losses',
           count'[d] = count[d] \/ (count'[d] = 0 /\ ~Exists(d)'),
           Exists(d)' => Exists(d), Queued(d)' => Queued(d),
           \A w \in Workers : WorksOn(w, d)' =>
              WorksOn(w, d) /\ pc'[w] = pc[w] /\ job'[w] = job[w],
           At(d, {"retry_incr"}) => At(d, {"retry_incr"})'
    PROVE  Paid(d, u)'
<1>1. \A S : At(d, S)' => At(d, S)
  BY DEF At
<1>2. /\ posts[d] \in Nat /\ count[d] \in Nat /\ count'[d] \in Nat /\ Losses \in Nat /\ Losses' \in Nat
      /\ count'[d] <= count[d]
  <2>1. posts[d] \in Nat /\ count[d] \in Nat /\ count'[d] \in Nat
    BY DEF TypeInv, TypeOK
  <2>2. count'[d] <= count[d]
    BY <2>1
  <2>. QED
    BY <2>1, <2>2, LossesType
<1>3. ASSUME NEW w \in Workers, pc'[w] \in Numbered, NEW j \in job'[w], j.id = d
      PROVE  count'[d] + u <= j.attempt
  <2>1. WorksOn(w, d)'
    BY <1>3 DEF WorksOn
  <2>2. count[d] + u <= j.attempt /\ j.attempt \in Nat
    BY <1>3, <2>1, AgentsDiffer DEF Paid, TypeInv, AgentInv, Job
  <2>. QED
    BY <1>2, <2>2
<1>4. count'[d] + u <= MaxRetries
  BY <1>2, DeliveryConstants DEF Paid
<1>5. posts'[d] <= MaxRetries + 1 + Losses'
  BY <1>2, DeliveryConstants DEF Paid
<1>6. At(d, {"config", "payload", "post"})' => posts'[d] <= MaxRetries + Losses'
  BY <1>1, <1>2, DeliveryConstants DEF Paid
<1>7. Exists(d)' /\ At(d, Before)' => posts'[d] <= count'[d] + u + Losses'
  BY <1>1, <1>2 DEF Paid
<1>8. Exists(d)' /\ At(d, Uncounted)' => posts'[d] <= count'[d] + u + Losses' + 1
  BY <1>1, <1>2 DEF Paid
<1>9. Exists(d)' /\ Queued(d)' /\ ~At(d, {"retry_incr"})' => posts'[d] <= count'[d] + u + Losses'
  BY <1>2 DEF Paid
<1>. QED
  BY <1>3, <1>4, <1>5, <1>6, <1>7, <1>8, <1>9 DEF Paid, Before, Uncounted, Retry, Numbered, InFetch

\* With one worker, d is where the worker is.
LEMMA AtSerial ==
    ASSUME Serial, NEW w \in Workers, NEW d \in Deliveries
    PROVE  \A S : /\ At(d, S) <=> (pc[w] \in S /\ WorksOn(w, d))
                  /\ At(d, S)' <=> (pc'[w] \in S /\ WorksOn(w, d)')
  BY DEF Serial, At

\* The arithmetic of Paid has its types.
LEMMA PaidTypes ==
    ASSUME TypeInv, TypeInv', [Next]_vars, NEW d \in Deliveries
    PROVE  /\ posts[d] \in Nat /\ count[d] \in Nat /\ posts'[d] \in Nat /\ count'[d] \in Nat
           /\ Losses \in Nat /\ Losses' \in Nat
           /\ MaxRetries \in Nat /\ MaxRetries >= 1
<1>1. posts[d] \in Nat /\ count[d] \in Nat /\ posts'[d] \in Nat /\ count'[d] \in Nat
  BY DEF TypeInv, TypeOK
<1>2. MaxRetries \in Nat /\ MaxRetries >= 1
  BY DeliveryConstants
<1>. QED
  BY <1>1, <1>2, LossesType

\* A failed call is one loss more.
LEMMA LossesGrow ==
    ASSUME TypeInv, TypeInv', [Next]_vars, crashes' = crashes, faults' \in {faults, faults + 1}
    PROVE  Losses <= Losses' /\ (faults' = faults + 1 => Losses' = Losses + 1)
<1>1. faults \in Nat /\ crashes \in Nat
  BY DeliveryConstants DEF TypeInv, TypeOK
<1>2. CASE faults' = faults
  <2>1. Losses' = Losses /\ Losses \in Nat
    BY <1>2, LossesType DEF Losses
  <2>. QED
    BY <1>1, <1>2, <2>1
<1>3. CASE faults' = faults + 1
  <2>1. Losses' = faults + 1 + crashes
    BY <1>3 DEF Losses
  <2>2. \A m, n \in Nat : m + 1 + n = m + n + 1
    OBVIOUS
  <2>3. Losses' = faults + crashes + 1
    BY <1>1, <2>1, <2>2
  <2>4. Losses' = Losses + 1
    BY <2>3 DEF Losses
  <2>. QED
    BY <2>4, LossesType
<1>. QED
  BY <1>2, <1>3

\* A step that moves the worker away from d, or leaves it without d, and
\* counts what it had posted or loses that.
LEMMA PaidAway ==
    ASSUME Serial, NEW w \in Workers, NEW d \in Deliveries, NEW u \in {0, 1}, Paid(d, u),
           TypeInv, TypeInv', [Next]_vars, pc'[d] = pc[d],
           ~WorksOn(w, d)' \/ pc'[w] \in {"idle", "cleanup", "drop", "gone_status"},
           posts'[d] = posts[d], count[d] <= count'[d], count'[d] + u <= MaxRetries,
           Losses <= Losses', Exists(d)' => Exists(d), Queued(d)' => Queued(d),
           At(d, {"retry_incr"}) /\ Exists(d) =>
               count'[d] + Losses' >= count[d] + Losses + 1
    PROVE  Paid(d, u)'
<1>1. \A S : S \cap {"idle", "cleanup", "drop", "gone_status"} = {} => ~At(d, S)'
  BY AtSerial
<1>2. /\ ~At(d, Before)' /\ ~At(d, Uncounted)' /\ ~At(d, {"config", "payload", "post"})'
      /\ \A v \in Workers : pc'[v] \in Numbered => ~WorksOn(v, d)'
  <2>1. ~At(d, Numbered)'
    BY <1>1 DEF Numbered, Uncounted, Retry, InFetch
  <2>. QED
    BY <1>1, <2>1 DEF Before, Uncounted, Retry, Numbered, InFetch, At
<1>3. \A v \in Workers : pc'[v] \in Numbered => \A j \in job'[v] : j.id # d
  BY <1>2 DEF WorksOn
<1>4. /\ posts[d] \in Nat /\ count[d] \in Nat /\ count'[d] \in Nat
      /\ Losses \in Nat /\ Losses' \in Nat /\ MaxRetries \in Nat
  BY PaidTypes
<1>5. Exists(d)' /\ Queued(d)' => posts'[d] <= count'[d] + u + Losses'
  <2>1. CASE At(d, {"retry_incr"})
    <3>1. At(d, Uncounted)
      BY <2>1 DEF At, Uncounted, Retry
    <3>2. Exists(d) => posts[d] <= count[d] + u + Losses + 1
      BY <3>1 DEF Paid
    <3>. QED
      BY <1>4, <2>1, <3>2
  <2>2. CASE ~At(d, {"retry_incr"})
    BY <1>4, <2>2 DEF Paid
  <2>. QED
    BY <2>1, <2>2
<1>6. posts'[d] <= MaxRetries + 1 + Losses'
  BY <1>4 DEF Paid
<1>. QED
  BY <1>2, <1>3, <1>5, <1>6 DEF Paid, Before, Uncounted, Retry, Numbered, InFetch

\* The worker goes on after a POST of d.
LEMMA PaidGoesOn ==
    ASSUME Serial, NEW w \in Workers, NEW d \in Deliveries, NEW u \in {0, 1}, Paid(d, u),
           TypeInv, TypeInv', [Next]_vars, pc'[d] = pc[d], SameJob(w), WorksOn(w, d),
           pc'[w] \in Uncounted \cup {"give_record", "give_status"},
           pc'[w] \in Uncounted => pc[w] \in Numbered,
           count'[d] = count[d], Exists(d)' => Exists(d),
           ~Queued(d)' \/ (pc'[w] = "retry_incr" /\ job'[w] = job[w]),
           posts'[d] <= MaxRetries + 1 + Losses',
           pc'[w] \in Uncounted /\ Exists(d) => posts'[d] <= count[d] + u + Losses' + 1
    PROVE  Paid(d, u)'
<1>1. ~At(d, Before)' /\ ~At(d, {"config", "payload", "post"})'
  BY AtSerial DEF Uncounted, Retry, InFetch, Before
<1>2. ASSUME NEW v \in Workers, pc'[v] \in Numbered, NEW i \in job'[v], i.id = d
      PROVE  count'[d] + u <= i.attempt
  <2>1. v = w
    BY DEF Serial
  <2>2. PICK j \in job[w] : i.id = j.id /\ i.attempt = j.attempt
    BY <1>2, <2>1 DEF SameJob
  <2>3. pc'[w] \in Uncounted
    BY <1>2, <2>1 DEF Numbered, Uncounted, Retry, InFetch
  <2>. QED
    BY <1>2, <2>2, <2>3 DEF Paid
<1>3. Exists(d)' /\ At(d, Uncounted)' => posts'[d] <= count'[d] + u + Losses' + 1
  BY AtSerial
<1>4. ~Queued(d)' \/ At(d, {"retry_incr"})'
  BY AtSerial DEF WorksOn
<1>5. (pc'[d] = "retry_incr" => u = 1) /\ count'[d] + u <= MaxRetries
  BY DEF Paid
<1>. QED
  BY <1>1, <1>2, <1>3, <1>4, <1>5 DEF Paid, Before, Uncounted, Retry, Numbered, InFetch

\* A step of the worker in an attempt.
LEMMA PaidWorker ==
    ASSUME Serial, TypeInv, TypeInv', FreshInv, TakenInv, RetryNumber, [Next]_vars,
           NEW w \in Workers, Attempt(w), NEW d \in Deliveries, NEW u \in {0, 1}, Paid(d, u)
    PROVE  Paid(d, u)'
<1>0. /\ w \in Agents /\ w # d /\ d \in Agents
      /\ SameJob(w) /\ pc'[d] = pc[d] /\ crashes' = crashes /\ faults' \in {faults, faults + 1}
  BY AgentsDiffer, AttemptFrame, AttemptJob DEF OnlyAgent
<1>1. /\ posts[d] \in Nat /\ count[d] \in Nat /\ posts'[d] \in Nat /\ count'[d] \in Nat
      /\ Losses \in Nat /\ Losses' \in Nat /\ MaxRetries \in Nat /\ MaxRetries >= 1
  BY PaidTypes
<1>2. Losses <= Losses' /\ (faults' = faults + 1 => Losses' = Losses + 1)
  BY <1>0, LossesGrow
<1>3. CASE ~WorksOn(w, d)
  <2>1. Same(d) /\ ~WorksOn(w, d)'
    BY <1>0, <1>3, AttemptOnOther
  <2>2. ~At(d, {"retry_incr"})
    BY <1>3, AtSerial
  <2>3. count[d] + u <= MaxRetries
    BY DEF Paid
  <2>. QED
    BY <1>0, <1>1, <1>2, <2>1, <2>2, <2>3, PaidAway DEF Same, Exists
<1>4. CASE WorksOn(w, d)
  <2>1. \/ Posting(w, d) \/ Recording(w, d) \/ Reopening(w, d) \/ Adding(w, d)
        \/ Counting(w, d) \/ Ending(w, d)
    BY <1>0, <1>4, AttemptOnOwn
  <2>2. pc[w] \in Held => ~Queued(d)
    BY <1>4 DEF TakenInv
  <2>3. Exists(d)' <=> Exists(d)
    BY <2>1 DEF Posting, Recording, Reopening, Adding, Counting, Ending, Exists, Same
  <2>4. pc[w] \in Numbered => \A j \in job[w] : count[d] + u <= j.attempt
    <3>1. \A j \in job[w] : j.id = d
      BY <1>0, <1>4 DEF WorksOn, TypeInv, AgentInv, OneJob
    <3>. QED
      BY <3>1 DEF Paid
  <2>5. \A S : pc[w] \in S => At(d, S)
    BY <1>4, AtSerial
  <2>6. CASE Posting(w, d)
    <3>1. pc[w] = "post" /\ pc[w] \in Numbered /\ pc[w] \in Held /\ At(d, {"config", "payload", "post"})
          /\ At(d, Before)
      BY <2>5, <2>6 DEF Posting, Numbered, Held, Before, Step
    <3>2. /\ posts[d] <= MaxRetries + Losses
          /\ Exists(d) => posts[d] <= count[d] + u + Losses
      BY <3>1 DEF Paid
    <3>3. /\ posts'[d] = posts[d] + 1 /\ count'[d] = count[d] /\ ~Queued(d)'
          /\ pc'[w] \in Uncounted \cup {"give_record", "give_status"}
      BY <2>2, <2>6, <3>1 DEF Posting, Uncounted, Retry, InFetch
    <3>4. posts'[d] <= MaxRetries + 1 + Losses'
      BY <1>1, <1>2, <3>2, <3>3
    <3>5. Exists(d) => posts'[d] <= count[d] + u + Losses' + 1
      BY <1>1, <1>2, <3>2, <3>3
    <3>. QED
      BY <1>0, <1>4, <2>3, <3>1, <3>3, <3>4, <3>5, PaidGoesOn
  <2>7. CASE Recording(w, d) \/ Reopening(w, d) \/ Adding(w, d)
    <3>1. /\ posts'[d] = posts[d] /\ count'[d] = count[d]
          /\ pc'[w] \in Uncounted \cup {"give_record", "give_status"}
          /\ pc'[w] \in Uncounted => pc[w] \in Uncounted
          /\ ~Queued(d)' \/ (pc'[w] = "retry_incr" /\ job'[w] = job[w])
      BY <2>2, <2>7
      DEF Recording, Reopening, Adding, Same, Uncounted, Retry, InFetch, Held, Step
    <3>2. posts'[d] <= MaxRetries + 1 + Losses'
      BY <1>1, <1>2, <3>1 DEF Paid
    <3>3. ASSUME pc'[w] \in Uncounted, Exists(d) PROVE posts'[d] <= count[d] + u + Losses' + 1
      <4>1. At(d, Uncounted)
        BY <2>5, <3>1, <3>3
      <4>2. posts[d] <= count[d] + u + Losses + 1
        BY <3>3, <4>1 DEF Paid
      <4>. QED
        BY <1>1, <1>2, <3>1, <4>2
    <3>. QED
      BY <1>0, <1>4, <2>3, <3>1, <3>2, <3>3, PaidGoesOn DEF Numbered
  <2>8. CASE Counting(w, d)
    <3>1. /\ pc[w] = "retry_incr" /\ pc'[w] \in {"idle", "cleanup"} /\ posts'[d] = posts[d]
          /\ count'[d] = IF Exists(d) THEN count[d] + 1 ELSE count[d]
          /\ Queued(d)' <=> Queued(d)
      BY <2>8 DEF Counting
    <3>2. PICK j \in job[w] : j.id = d
      BY <1>4 DEF WorksOn
    <3>3. count[d] + u <= j.attempt /\ j.attempt + 1 <= MaxRetries /\ j.attempt \in Nat
      BY <1>0, <2>4, <3>1 DEF RetryNumber, Retry, Numbered, Uncounted, TypeInv, AgentInv, Job
    <3>4. count'[d] + u <= MaxRetries /\ count[d] <= count'[d]
      BY <1>1, <3>1, <3>3
    <3>5. Exists(d) => count'[d] + Losses' >= count[d] + Losses + 1
      BY <1>1, <1>2, <3>1
    <3>. QED
      BY <1>0, <1>2, <2>3, <3>1, <3>4, <3>5, PaidAway
  <2>9. CASE Ending(w, d)
    <3>1. /\ pc'[w] \in {"idle", "cleanup"} /\ posts'[d] = posts[d] /\ count'[d] = count[d]
          /\ Queued(d)' <=> Queued(d)
          /\ pc[w] = "retry_incr" => faults' = faults + 1
      BY <2>9 DEF Ending
    <3>2. At(d, {"retry_incr"}) => count'[d] + Losses' >= count[d] + Losses + 1
      BY <1>1, <1>2, <3>1, AtSerial
    <3>3. count'[d] + u <= MaxRetries /\ count[d] <= count'[d]
      BY <1>1, <3>1 DEF Paid
    <3>. QED
      BY <1>0, <1>2, <2>3, <3>1, <3>2, <3>3, PaidAway
  <2>. QED
    BY <2>1, <2>6, <2>7, <2>8, <2>9
<1>. QED
  BY <1>3, <1>4

\* A step of the worker outside an attempt.
LEMMA PaidPoll ==
    ASSUME Serial, TypeInv, TypeInv', FreshInv, [Next]_vars,
           NEW w \in Workers, PollStep(w), NEW d \in Deliveries, NEW u \in {0, 1}, Paid(d, u)
    PROVE  Paid(d, u)'
<1>0. /\ w \in Agents /\ w # d /\ d \in Agents
      /\ pc'[d] = pc[d] /\ crashes' = crashes /\ faults' \in {faults, faults + 1}
  BY AgentsDiffer, PollFrame DEF OnlyAgent
<1>1. /\ posts[d] \in Nat /\ count[d] \in Nat /\ posts'[d] \in Nat /\ count'[d] \in Nat
      /\ Losses \in Nat /\ Losses' \in Nat /\ MaxRetries \in Nat /\ MaxRetries >= 1
  BY PaidTypes
<1>2. Losses <= Losses'
  BY <1>0, LossesGrow
<1>3. \/ Taking(w, d) \/ Approaching(w, d) \/ Removing(w, d) \/ Loading(w, d) \/ Leaving(w, d)
  BY PollOnDelivery
<1>4. /\ posts'[d] = posts[d] /\ count'[d] = count[d]
      /\ Queued(d)' => Queued(d)
      /\ Exists(d)' <=> Exists(d)
  BY <1>3 DEF Taking, Approaching, Removing, Loading, Leaving, Same, Exists
<1>5. count'[d] + u <= MaxRetries
  BY <1>4 DEF Paid
<1>6. pc[w] # "retry_incr" /\ ~At(d, {"retry_incr"})
  BY <1>3, AtSerial DEF Taking, Approaching, Removing, Loading, Leaving
<1>7. CASE Leaving(w, d) \/ ~WorksOn(w, d)'
  <2>1. ~WorksOn(w, d)' \/ pc'[w] \in {"idle", "cleanup", "drop", "gone_status"}
    BY <1>7 DEF Leaving
  <2>. QED
    BY <1>0, <1>1, <1>2, <1>4, <1>5, <1>6, <2>1, PaidAway
<1>8. CASE WorksOn(w, d)' /\ (Taking(w, d) \/ Approaching(w, d) \/ Removing(w, d) \/ Loading(w, d))
  <2>1. pc'[w] \in Before \cup {"gone_status"}
    BY <1>8 DEF Taking, Approaching, Removing, Loading, Before
  <2>2. ~At(d, Uncounted)'
    BY <2>1, AtSerial DEF Before, Uncounted, Retry, InFetch
  <2>3. Exists(d) /\ (At(d, Before) \/ (Queued(d) /\ ~At(d, {"retry_incr"}))) =>
            posts'[d] <= count'[d] + u + Losses'
    BY <1>1, <1>2, <1>4 DEF Paid
  <2>4. At(d, Before) \/ Queued(d)
    <3>1. CASE Taking(w, d)
      BY <1>8, <3>1 DEF Taking
    <3>2. CASE ~Taking(w, d)
      <4>1. WorksOn(w, d) /\ pc[w] \in Before
        BY <1>8, <3>2, PollJob DEF Approaching, Removing, Loading, Before
      <4>. QED
        BY <4>1, AtSerial
    <3>. QED
      BY <3>1, <3>2
  <2>5. Exists(d) => posts'[d] <= count'[d] + u + Losses'
    BY <1>6, <2>3, <2>4
  <2>6. CASE Taking(w, d) \/ Removing(w, d)
    <3>1. pc'[w] \notin Numbered
      BY <2>6 DEF Taking, Removing, Numbered, Uncounted, Retry, InFetch
    <3>2. ~At(d, Numbered)' /\ ~At(d, {"config", "payload", "post"})'
      BY <3>1, AtSerial DEF Numbered
    <3>3. \A v \in Workers : pc'[v] \in Numbered => \A i \in job'[v] : i.id # d
      BY <3>2 DEF At, WorksOn
    <3>4. posts'[d] <= MaxRetries + 1 + Losses'
      BY <1>1, <1>2, <1>4 DEF Paid
    <3>. QED
      BY <1>0, <1>4, <1>5, <2>2, <2>5, <3>2, <3>3, <3>4
      DEF Paid, Before, Uncounted, Retry, Numbered, InFetch
  <2>7. CASE Approaching(w, d)
    <3>1. WorksOn(w, d) /\ job'[w] = job[w]
      BY <1>8, <2>7, PollJob DEF Approaching, Taking
    <3>2. pc'[w] \in Numbered => pc[w] \in {"config", "payload"}
      BY <2>7 DEF Approaching, Numbered, Uncounted, Retry, InFetch
    <3>3. ASSUME NEW v \in Workers, pc'[v] \in Numbered, NEW i \in job'[v], i.id = d
          PROVE  count'[d] + u <= i.attempt
      <4>1. v = w /\ pc[w] \in Numbered /\ i \in job[w]
        BY <3>1, <3>2, <3>3 DEF Serial, Numbered
      <4>. QED
        BY <1>4, <3>3, <4>1 DEF Paid
    <3>4. At(d, {"config", "payload", "post"})' => posts'[d] <= MaxRetries + Losses'
      <4>1. At(d, {"config", "payload", "post"})' => At(d, {"config", "payload", "post"})
        BY <3>1, <3>2, AtSerial DEF Numbered
      <4>. QED
        BY <1>1, <1>2, <1>4, <4>1 DEF Paid
    <3>5. posts'[d] <= MaxRetries + 1 + Losses'
      BY <1>1, <1>2, <1>4 DEF Paid
    <3>. QED
      BY <1>0, <1>4, <1>5, <2>2, <2>5, <3>3, <3>4, <3>5
      DEF Paid, Before, Uncounted, Retry, Numbered, InFetch
  <2>8. CASE Loading(w, d)
    <3>1. \A i \in job'[w] : i.id = d => Exists(d) /\ i.attempt = count[d] + 1
      BY <2>8 DEF Loading
    <3>2. ASSUME NEW v \in Workers, pc'[v] \in Numbered, NEW i \in job'[v], i.id = d
          PROVE  count'[d] + u <= i.attempt
      <4>1. v = w
        BY DEF Serial
      <4>2. i.attempt = count[d] + 1
        BY <3>1, <3>2, <4>1
      <4>. QED
        BY <1>1, <1>4, <4>2
    <3>3. Exists(d)
      BY <1>8, <3>1 DEF WorksOn
    <3>4. posts'[d] <= MaxRetries + Losses'
      BY <1>1, <1>5, <2>5, <3>3
    <3>5. posts'[d] <= MaxRetries + 1 + Losses'
      BY <1>1, <3>4
    <3>. QED
      BY <1>0, <1>4, <1>5, <2>2, <2>5, <3>2, <3>4, <3>5
      DEF Paid, Before, Uncounted, Retry, Numbered, InFetch
  <2>. QED
    BY <1>8, <2>6, <2>7, <2>8
<1>. QED
  BY <1>3, <1>7, <1>8

\* A step of dispatchToOne.
LEMMA PaidDispatcher ==
    ASSUME Serial, TypeInv, TypeInv', FreshInv, [Next]_vars,
           NEW c \in Deliveries, Attempt(c), NEW d \in Deliveries, NEW u \in {0, 1}, Paid(d, u)
    PROVE  \E v \in {0, 1} : Paid(d, v)'
<1>0. /\ c \in Agents /\ d \in Agents /\ SameJob(c)
      /\ \A b \in Agents : b # c => pc'[b] = pc[b] /\ job'[b] = job[b]
      /\ \A w \in Workers : w \in Agents /\ w # c
      /\ crashes' = crashes /\ faults' \in {faults, faults + 1}
      /\ Unseen(d)
      /\ c # d => ~WorksOn(c, d)
  <2>1. c \in Agents /\ d \in Agents /\ \A w \in Workers : w \in Agents /\ w # c
    BY AgentsDiffer DEF Agents
  <2>2. Unseen(d) /\ (c # d => ~WorksOn(c, d))
    BY DEF FreshInv, HandsInv, WorksOn
  <2>. QED
    BY <2>1, <2>2, AttemptFrame, AttemptJob DEF OnlyAgent
<1>1. /\ posts[d] \in Nat /\ count[d] \in Nat /\ posts'[d] \in Nat /\ count'[d] \in Nat
      /\ Losses \in Nat /\ Losses' \in Nat /\ MaxRetries \in Nat /\ MaxRetries >= 1
  BY PaidTypes
<1>2. Losses <= Losses'
  BY <1>0, LossesGrow
<1>3. \A w \in Workers : /\ pc'[w] = pc[w] /\ job'[w] = job[w]
                         /\ WorksOn(w, d)' <=> WorksOn(w, d)
  BY <1>0 DEF WorksOn
<1>4. \A S : At(d, S)' <=> At(d, S)
  BY <1>3 DEF At
<1>5. ASSUME posts'[d] = posts[d], count'[d] = count[d], Exists(d)' <=> Exists(d),
             Queued(d)' <=> Queued(d), pc'[d] = "retry_incr" => u = 1
      PROVE  Paid(d, u)'
  BY <1>2, <1>3, <1>4, <1>5, PaidStays
<1>6. CASE ~WorksOn(c, d)
  <2>1. Same(d)
    BY <1>0, <1>6, AttemptOnOther
  <2>2. pc'[d] = "retry_incr" => u = 1
    <3>1. CASE c # d
      BY <1>0, <3>1 DEF Paid
    <3>2. CASE c = d
      BY <1>0, <1>6, <3>2 DEF SameJob, FreshInv, HandsInv, WorksOn
    <3>. QED
      BY <3>1, <3>2
  <2>. QED
    BY <1>5, <2>1, <2>2 DEF Same, Exists
<1>7. CASE WorksOn(c, d)
  <2>1. c = d
    BY <1>0, <1>7
  <2>2. \/ Posting(c, d) \/ Recording(c, d) \/ Reopening(c, d) \/ Adding(c, d)
        \/ Counting(c, d) \/ Ending(c, d)
    BY <1>0, <1>7, AttemptOnOwn
  <2>3. Exists(d)' <=> Exists(d)
    BY <2>2 DEF Posting, Recording, Reopening, Adding, Counting, Ending, Exists, Same
  <2>4. CASE Recording(c, d) \/ Reopening(c, d) \/ Ending(c, d)
    BY <1>5, <2>1, <2>3, <2>4 DEF Recording, Reopening, Ending, Same, InFetch
  <2>5. CASE Posting(c, d) \/ Adding(c, d)
    <3>1. /\ FirstTry(d) /\ count'[d] = count[d] /\ posts'[d] <= 1
          /\ Posting(c, d) => ~Queued(d)' /\ pc'[d] # "retry_incr"
      BY <1>0, <2>1, <2>5 DEF Posting, Adding, FirstTry, Unseen
    <3>2. count[d] = 0 /\ ~Queued(d) /\ \A w \in Workers : ~WorksOn(w, d)
      BY <1>0, <3>1 DEF Unseen
    <3>3. \A S : ~At(d, S)'
      BY <1>4, <3>2 DEF At
    <3>4. \A w \in Workers : \A j \in job'[w] : j.id # d
      BY <1>3, <3>2 DEF WorksOn
    <3>5. /\ posts'[d] <= count'[d] + 1 + Losses' /\ count'[d] + 1 <= MaxRetries
          /\ posts'[d] <= MaxRetries + 1 + Losses'
      BY <1>1, <3>1, <3>2
    <3>6. Paid(d, 1)'
      BY <3>3, <3>4, <3>5 DEF Paid, Before, Uncounted, Retry, Numbered, InFetch
    <3>. QED
      BY <3>6
  <2>6. CASE Counting(c, d)
    <3>1. /\ pc[d] = "retry_incr" /\ pc'[d] # "retry_incr" /\ posts'[d] = posts[d]
          /\ count'[d] = IF Exists(d) THEN count[d] + 1 ELSE count[d]
          /\ Queued(d)' <=> Queued(d)
      BY <2>1, <2>6 DEF Counting
    <3>2. CASE ~Exists(d)
      BY <1>5, <2>3, <3>1, <3>2
    <3>3. CASE Exists(d)
      <4>1. u = 1
        BY <3>1 DEF Paid
      <4>2. count'[d] = count[d] + 1 /\ count'[d] + 0 = count[d] + u
        BY <1>1, <3>1, <3>3, <4>1
      <4>3. \A w \in Workers : pc'[w] \in Numbered =>
                \A j \in job'[w] : j.id = d => count'[d] + 0 <= j.attempt
        BY <1>3, <4>2 DEF Paid
      <4>4. count'[d] + 0 <= MaxRetries
        BY <4>2 DEF Paid
      <4>5. At(d, Before)' => posts'[d] <= count'[d] + 0 + Losses'
        BY <1>1, <1>2, <1>4, <3>1, <3>3, <4>2 DEF Paid
      <4>6. At(d, Uncounted)' => posts'[d] <= count'[d] + 0 + Losses' + 1
        BY <1>1, <1>2, <1>4, <3>1, <3>3, <4>2 DEF Paid
      <4>7. Queued(d)' /\ ~At(d, {"retry_incr"})' => posts'[d] <= count'[d] + 0 + Losses'
        BY <1>1, <1>2, <1>4, <3>1, <3>3, <4>2 DEF Paid
      <4>8. At(d, {"config", "payload", "post"})' => posts'[d] <= MaxRetries + Losses'
        BY <1>1, <1>2, <1>4, <3>1 DEF Paid
      <4>9. posts'[d] <= MaxRetries + 1 + Losses'
        BY <1>1, <1>2, <3>1 DEF Paid
      <4>10. Paid(d, 0)'
        BY <3>1, <4>3, <4>4, <4>5, <4>6, <4>7, <4>8, <4>9
        DEF Paid, Before, Uncounted, Retry, Numbered, InFetch
      <4>. QED
        BY <4>10
    <3>. QED
      BY <3>2, <3>3
  <2>. QED
    BY <2>2, <2>4, <2>5, <2>6
<1>. QED
  BY <1>6, <1>7

\* Every step leaves every delivery paid for.
LEMMA PaidNext ==
    /\ Serial /\ TypeInv /\ TypeInv' /\ NotStarted /\ FreshInv /\ TakenInv /\ RetryNumber /\ PaidInv
    /\ [Next]_vars
    => PaidInv'
<1>. SUFFICES ASSUME Serial, TypeInv, TypeInv', NotStarted, FreshInv, TakenInv, RetryNumber, PaidInv,
                     [Next]_vars, NEW d \in Deliveries
              PROVE  \E u \in {0, 1} : Paid(d, u)'
  BY DEF PaidInv
<1>0. PICK u \in {0, 1} : Paid(d, u)
  BY DEF PaidInv
<1>1. d \in Agents /\ Unseen(d) /\ \A w \in Workers : w \in Agents /\ w # d
  BY AgentsDiffer DEF FreshInv, Agents
<1>2. CASE Calm
  <2>1. /\ UNCHANGED << pc, job, queue, posts, count, status >>
        /\ crashes' = crashes /\ faults' \in {faults, faults + 1}
    BY <1>2 DEF Calm
  <2>2. At(d, {"retry_incr"}) => At(d, {"retry_incr"})'
    BY <2>1 DEF At, WorksOn
  <2>3. Losses <= Losses'
    BY <2>1, LossesGrow
  <2>4. Paid(d, u)'
    BY <1>0, <2>1, <2>2, <2>3, PaidStays DEF Exists, Queued, WorksOn, Paid
  <2>. QED
    BY <2>4
<1>3. ASSUME NEW m \in Messages, CachePayload(m) PROVE \E v \in {0, 1} : Paid(d, v)'
  <2>1. /\ UNCHANGED << job, queue, posts, count, status, faults, crashes >>
        /\ pc'[d] \in {"create", pc[d]}
    BY <1>1, <1>3 DEF CachePayload, rows, history, bounds
  <2>2. \A w \in Workers : pc'[w] = pc[w]
    <3>1. targets[m] \X {m} \subseteq Deliveries
      BY DEF TypeInv, TypeOK, Deliveries
    <3>2. \A w \in Workers : w \notin targets[m] \X {m}
      BY <3>1, AgentsDiffer
    <3>. QED
      BY <1>1, <1>3, <3>2 DEF CachePayload
  <2>3. At(d, {"retry_incr"}) => At(d, {"retry_incr"})'
    BY <2>1, <2>2 DEF At, WorksOn
  <2>4. Losses <= Losses'
    BY <2>1, LossesGrow
  <2>5. Paid(d, u)'
    BY <1>0, <2>1, <2>2, <2>3, <2>4, PaidStays DEF Exists, Queued, WorksOn, Paid
  <2>. QED
    BY <2>5
<1>4. ASSUME NEW c \in Deliveries, CreateDelivery(c) PROVE \E v \in {0, 1} : Paid(d, v)'
  <2>1. /\ UNCHANGED << queue, posts, count, faults, crashes >>
        /\ \A w \in Workers : pc'[w] = pc[w] /\ job'[w] = job[w]
        /\ pc'[d] = "retry_incr" => pc[d] = "retry_incr"
        /\ c # d => status'[d] = status[d]
    BY <1>1, <1>4, AgentsDiffer
    DEF CreateDelivery, redis, history, bounds, Goto, Idle, TypeInv, AgentInv, TypeOK
  <2>2. At(d, {"retry_incr"}) <=> At(d, {"retry_incr"})'
    BY <2>1 DEF At, WorksOn
  <2>3. Losses' = Losses
    BY <2>1 DEF Losses
  <2>4. CASE c # d
    <3>1. Losses <= Losses'
      BY <2>3, LossesType
    <3>2. Paid(d, u)'
      BY <1>0, <2>1, <2>2, <2>4, <3>1, PaidStays DEF Exists, Queued, WorksOn, Paid
    <3>. QED
      BY <3>2
  <2>5. CASE c = d
    <3>1. ~Queued(d) /\ \A w \in Workers : ~WorksOn(w, d)
      BY <1>1, <1>4, <2>5 DEF CreateDelivery, Unseen, Waiting
    <3>2. ~Queued(d)' /\ \A w \in Workers : ~WorksOn(w, d)'
      BY <2>1, <3>1 DEF Queued, WorksOn
    <3>3. \A S : ~At(d, S)'
      BY <3>2 DEF At
    <3>4. \A w \in Workers : \A j \in job'[w] : j.id # d
      BY <3>2 DEF WorksOn
    <3>5. Paid(d, u)'
      BY <1>0, <2>1, <2>3, <3>2, <3>3, <3>4
      DEF Paid, Before, Uncounted, Retry, Numbered, InFetch
    <3>. QED
      BY <3>5
  <2>. QED
    BY <2>4, <2>5
<1>5. ASSUME NEW a \in Agents, Attempt(a) PROVE \E v \in {0, 1} : Paid(d, v)'
  BY <1>0, <1>5, PaidWorker, PaidDispatcher DEF Agents
<1>6. ASSUME NEW w \in Workers, PollStep(w) PROVE \E v \in {0, 1} : Paid(d, v)'
  BY <1>0, <1>6, PaidPoll
<1>7. ASSUME NEW h \in Webhooks, DeleteWebhook(h) PROVE \E v \in {0, 1} : Paid(d, v)'
  <2>1. /\ UNCHANGED << pc, job, queue, posts, faults, crashes >>
        /\ status'[d] = IF d[1] = h THEN "none" ELSE status[d]
        /\ count'[d] = IF d[1] = h THEN 0 ELSE count[d]
    BY <1>7 DEF DeleteWebhook, redis, agent, history, bounds
  <2>2. At(d, {"retry_incr"}) => At(d, {"retry_incr"})'
    BY <2>1 DEF At, WorksOn
  <2>3. Losses' = Losses /\ Losses <= Losses'
    BY <2>1, LossesType DEF Losses
  <2>4. /\ Exists(d)' => Exists(d)
        /\ count'[d] = count[d] \/ (count'[d] = 0 /\ ~Exists(d)')
        /\ Queued(d)' => Queued(d)
    BY <2>1 DEF Exists, Queued
  <2>5. Paid(d, u)'
    BY <1>0, <2>1, <2>2, <2>3, <2>4, PaidStays DEF WorksOn, Paid
  <2>. QED
    BY <2>5
<1>8. CASE Restart
  <2>1. /\ UNCHANGED << queue, posts, count, status, faults >> /\ crashes' = crashes + 1
        /\ \A a \in Agents : pc'[a] = "idle" /\ job'[a] = {}
    BY <1>8 DEF Restart, redis, rows, history
  <2>2. Losses' = Losses + 1
    <3>1. faults \in Nat /\ crashes \in Nat
      BY DeliveryConstants DEF TypeInv, TypeOK
    <3>2. \A m, n \in Nat : m + (n + 1) = m + n + 1
      OBVIOUS
    <3>3. Losses' = faults + (crashes + 1)
      BY <2>1 DEF Losses
    <3>. QED
      BY <3>1, <3>2, <3>3 DEF Losses
  <2>3. \A S : ~At(d, S)'
    BY <1>1, <2>1 DEF At, WorksOn
  <2>4. \A w \in Workers : \A j \in job'[w] : j.id # d
    BY <1>1, <2>1
  <2>5. /\ posts[d] \in Nat /\ count[d] \in Nat /\ Losses \in Nat /\ MaxRetries \in Nat
    BY PaidTypes
  <2>6. Exists(d) /\ Queued(d) => posts[d] <= count[d] + u + Losses + 1
    <3>1. CASE At(d, {"retry_incr"})
      <4>1. At(d, Uncounted)
        BY <3>1 DEF At, Uncounted, Retry
      <4>. QED
        BY <1>0, <4>1 DEF Paid
    <3>2. CASE ~At(d, {"retry_incr"})
      BY <1>0, <2>5, <3>2 DEF Paid
    <3>. QED
      BY <3>1, <3>2
  <2>7. Exists(d)' /\ Queued(d)' => posts'[d] <= count'[d] + u + Losses'
    BY <2>1, <2>2, <2>5, <2>6 DEF Exists, Queued
  <2>8. posts'[d] <= MaxRetries + 1 + Losses' /\ count'[d] + u <= MaxRetries
    BY <1>0, <2>1, <2>2, <2>5 DEF Paid
  <2>9. Paid(d, u)'
    BY <1>1, <2>1, <2>3, <2>4, <2>7, <2>8 DEF Paid, Before, Uncounted, Retry, Numbered, InFetch
  <2>. QED
    BY <2>9
<1>. QED
  BY <1>0, <1>2, <1>3, <1>4, <1>5, <1>6, <1>7, <1>8, StepKinds

\* When invocations of the worker do not overlap, a delivery is POSTed at most
\* MAX_RETRIES + 1 times plus once per failed call and exit, beside a first
\* attempt that has not incremented attempt_count when the worker reads it and
\* a DELETE of the webhook at any point (webhook-dispatcher.ts 252-305,
\* webhook-queue-worker.ts 111-168).
THEOREM PostsArePaidFor == Serial => (Spec => []PostBudget)
<1>. SUFFICES ASSUME Serial PROVE Spec => []PostBudget
  OBVIOUS
<1>. DEFINE Inv == NotStarted /\ FreshInv /\ TakenInv /\ RetryNumber /\ PaidInv
<1>1. Init => TypeInv /\ Inv
  BY DeliveryInit, NotStartedInit, FreshInit, TakenInit, PaidInit
<1>2. TypeInv /\ TypeInv' /\ Inv /\ [Next]_vars => Inv'
  BY NotStartedNext, FreshNext, TakenNext, RetryNumberNext, PaidNext
<1>3. TypeInv /\ Inv => PostBudget
  <2>. SUFFICES ASSUME TypeInv, PaidInv, NEW d \in Deliveries
                PROVE  posts[d] <= MaxRetries + 1 + faults + crashes
    BY DEF PostBudget
  <2>1. faults \in Nat /\ crashes \in Nat /\ MaxRetries \in Nat
    BY DeliveryConstants DEF TypeInv, TypeOK
  <2>2. posts[d] <= MaxRetries + 1 + (faults + crashes)
    BY DEF PaidInv, Paid, Losses
  <2>. QED
    BY <2>1, <2>2
<1>. QED
  BY <1>1, <1>2, <1>3, DeliveryTypeNext, PTL DEF Spec

-----------------------------------------------------------------------------
(* The deliveries keep the promise of DeliveryPromise *)

\* Steps of an agent that may still POST, or that follow an answer other than
\* 2xx.
Trying == Owing \ {"ok_record", "ok_status"}

\* Neither outcome is written to the row, or it is gone.
Unsettled(d) == status[d] \in {"pending", "none"}

\* The endpoint has not taken d; or it has, its webhook was deleted before the
\* attempt was recorded, and enqueueRetry is about to find that out.
Untaken(a, d) ==
    received[d] = 0 \/ (~Exists(d) /\ pc[a] \in {"retry_record", "give_record"})

\* While no call failed, what may still be posted or settled has not been
\* settled, and the endpoint has not taken what may still be posted.
Decided(d) ==
    /\ \A a \in Agents : WorksOn(a, d) =>
          /\ pc[a] \in Owing => Unsettled(d)
          /\ pc[a] \in Trying => Untaken(a, d)
    /\ Queued(d) => Unsettled(d) /\ received[d] = 0

DecidedInv == faults = 0 => \A d \in Deliveries : Decided(d)

\* There is no delivery yet.
LEMMA DecidedInit == Init => DecidedInv
  BY DEF Init, DecidedInv, Decided, Queued, WorksOn

\* Where a's delivery is with another agent too, a is a worker with it and the
\* other is dispatchToOne about to increment attempt_count, or the reverse.
LEMMA TwoAgents ==
    ASSUME Serial, TypeInv, FreshInv, NEW d \in Deliveries, NEW a \in Agents, NEW b \in Agents,
           a # b, WorksOn(a, d), WorksOn(b, d)
    PROVE  \/ a = d /\ b \in Workers /\ pc[a] = "retry_incr"
           \/ b = d /\ a \in Workers /\ pc[b] = "retry_incr"
<1>1. Unseen(d) /\ HandsInv
  BY DEF FreshInv
<1>2. \A c \in Agents : WorksOn(c, d) => c = d \/ c \in Workers
  BY <1>1 DEF HandsInv, WorksOn, Agents
<1>3. \A v, w \in Workers : v = w
  BY DEF Serial
<1>4. (a = d /\ b \in Workers) \/ (b = d /\ a \in Workers)
  BY <1>2, <1>3, AgentsDiffer
<1>5. pc[d] \in {"idle", "retry_incr"}
  BY <1>1, <1>4 DEF Unseen, FirstTry
<1>6. WorksOn(d, d) => pc[d] # "idle"
  BY <1>1 DEF HandsInv, WorksOn, Agents
<1>. QED
  BY <1>4, <1>5, <1>6

\* A delivery in the middle of an attempt is not queued.
LEMMA OwingNotQueued ==
    ASSUME TypeInv, FreshInv, TakenInv, NEW a \in Agents, NEW d \in Deliveries, WorksOn(a, d),
           pc[a] \in Held
    PROVE  ~Queued(d)
<1>1. CASE a \in Workers
  BY <1>1 DEF TakenInv
<1>2. CASE a \notin Workers
  <2>1. a = d
    BY <1>2 DEF FreshInv, HandsInv, WorksOn, Agents
  <2>2. FirstTry(d)
    BY <2>1 DEF FirstTry, Held
  <2>. QED
    BY <2>2 DEF FreshInv, Unseen
<1>. QED
  BY <1>1, <1>2

\* An attempt leaves its delivery as decided as it was.
LEMMA DecidedAttempt ==
    ASSUME Serial, TypeInv, FreshInv, TakenInv, NEW d \in Deliveries, Decided(d), faults' = faults,
           NEW a \in Agents, Attempt(a), faults = 0
    PROVE  Decided(d)'
<1>1. /\ \A b \in Agents \ {a} : pc'[b] = pc[b] /\ job'[b] = job[b]
      /\ SameJob(a)
  BY AttemptFrame, AttemptJob DEF OnlyAgent
<1>2. \A b \in Agents : WorksOn(b, d)' => WorksOn(b, d)
  BY <1>1 DEF SameJob, WorksOn
<1>3. CASE ~WorksOn(a, d)
  <2>1. Same(d) /\ ~WorksOn(a, d)'
    BY <1>3, AttemptOnOther
  <2>. QED
    BY <1>1, <1>2, <2>1 DEF Decided, Unsettled, Untaken, Same, Exists, Trying
<1>4. CASE WorksOn(a, d)
  <2>1. \/ Posting(a, d) \/ Recording(a, d) \/ Reopening(a, d) \/ Adding(a, d)
        \/ Counting(a, d) \/ Ending(a, d)
    BY <1>4, AttemptOnOwn
  <2>2. pc[a] \in Held => ~Queued(d)
    BY <1>4, OwingNotQueued
  <2>3. /\ pc[a] \in Owing => Unsettled(d)
        /\ pc[a] \in Trying => Untaken(a, d)
        /\ Queued(d) => Unsettled(d) /\ received[d] = 0
    BY <1>4 DEF Decided
  <2>4. (pc'[a] \in Owing => Unsettled(d)') /\ (pc'[a] \in Trying => Untaken(a, d)')
    <3>1. CASE Posting(a, d)
      BY <2>3, <3>1 DEF Posting, Owing, Trying, Unsettled, Untaken
    <3>2. CASE Recording(a, d)
      BY <2>3, <3>2 DEF Recording, Same, Owing, Trying, Unsettled, Untaken, InFetch, Exists
    <3>3. CASE Reopening(a, d)
      BY <2>3, <3>3 DEF Reopening, Owing, Trying, Unsettled, Untaken, Exists
    <3>4. CASE Adding(a, d) \/ Counting(a, d) \/ Ending(a, d)
      BY <3>4 DEF Adding, Counting, Ending, Owing, Trying
    <3>. QED
      BY <2>1, <3>1, <3>2, <3>3, <3>4
  <2>5. Queued(d)' => Unsettled(d)' /\ received'[d] = 0
    <3>1. CASE Posting(a, d) \/ Recording(a, d) \/ Reopening(a, d)
      BY <2>2, <3>1 DEF Posting, Recording, Reopening, Same, Held, InFetch, Step
    <3>2. CASE Adding(a, d)
      BY <2>3, <3>2 DEF Adding, Owing, Trying, Unsettled, Untaken
    <3>3. CASE Counting(a, d)
      BY <2>3, <3>3 DEF Counting, Unsettled
    <3>4. CASE Ending(a, d)
      BY <2>2, <2>3, <3>4 DEF Ending, Held, Step, Unsettled
    <3>. QED
      BY <2>1, <3>1, <3>2, <3>3, <3>4
  <2>6. ASSUME NEW b \in Agents, b # a, WorksOn(b, d)', pc'[b] \in Owing
        PROVE  Unsettled(d)' /\ (pc'[b] \in Trying => Untaken(b, d)')
    <3>1. WorksOn(b, d) /\ pc'[b] = pc[b]
      BY <1>1, <1>2, <2>6
    <3>2. pc[a] = "retry_incr"
      BY <1>4, <2>6, <3>1, TwoAgents DEF Owing
    <3>3. status'[d] = status[d] /\ received'[d] = received[d]
      BY <2>1, <3>2 DEF Posting, Recording, Reopening, Adding, Counting, Ending, InFetch
    <3>. QED
      BY <2>6, <3>1, <3>3 DEF Decided, Unsettled, Untaken, Exists
  <2>. QED
    BY <2>4, <2>5, <2>6 DEF Decided, Trying
<1>. QED
  BY <1>3, <1>4

\* So does the rest of pollAndRetry.
LEMMA DecidedPoll ==
    ASSUME Serial, TypeInv, FreshInv, TakenInv, NEW d \in Deliveries, Decided(d),
           NEW w \in Workers, PollStep(w)
    PROVE  Decided(d)'
<1>0. w \in Agents /\ \A b \in Agents \ {w} : pc'[b] = pc[b] /\ job'[b] = job[b]
  BY PollFrame DEF OnlyAgent, Agents
<1>1. \/ Taking(w, d) \/ Approaching(w, d) \/ Removing(w, d) \/ Loading(w, d) \/ Leaving(w, d)
  BY PollOnDelivery
<1>2. received'[d] = received[d] /\ (Queued(d)' => Queued(d))
  BY <1>1 DEF Taking, Approaching, Removing, Loading, Leaving, Same
<1>3. Queued(d) => Unsettled(d) /\ received[d] = 0
  BY DEF Decided
<1>4. CASE status'[d] = status[d]
  <2>1. ASSUME WorksOn(w, d)', pc'[w] \in Owing
        PROVE  (Unsettled(d) /\ received[d] = 0) \/ (WorksOn(w, d) /\ pc[w] \in Trying)
    <3>1. CASE Taking(w, d)
      BY <1>3, <2>1, <3>1 DEF Taking
    <3>2. CASE ~Taking(w, d)
      <4>1. WorksOn(w, d)
        BY <2>1, <3>2, PollJob
      <4>2. pc[w] \in Trying
        BY <1>1, <2>1, <3>2 DEF Approaching, Removing, Loading, Leaving, Owing, Trying
      <4>. QED
        BY <4>1, <4>2
    <3>. QED
      BY <3>1, <3>2
  <2>2. WorksOn(w, d)' /\ pc'[w] \in Owing => Unsettled(d) /\ Untaken(w, d)
    BY <1>0, <2>1 DEF Decided, Trying, Untaken
  <2>3. pc'[w] \in Owing => pc[w] \notin {"retry_record", "give_record"}
    BY <1>1 DEF Taking, Approaching, Removing, Loading, Leaving
  <2>4. Unsettled(d)' = Unsettled(d) /\ (Exists(d)' <=> Exists(d))
    BY <1>4 DEF Unsettled, Exists
  <2>5. WorksOn(w, d)' /\ pc'[w] \in Owing => Unsettled(d)' /\ received'[d] = 0
    BY <1>2, <1>4, <2>2, <2>3 DEF Untaken, Unsettled
  <2>6. ASSUME NEW b \in Agents, b # w, WorksOn(b, d)', pc'[b] \in Owing
        PROVE  Unsettled(d)' /\ (pc'[b] \in Trying => Untaken(b, d)')
    <3>1. WorksOn(b, d) /\ pc'[b] = pc[b]
      BY <1>0, <2>6 DEF WorksOn
    <3>. QED
      BY <1>2, <1>4, <2>6, <3>1 DEF Decided, Untaken, Unsettled, Exists
  <2>7. Queued(d)' => Unsettled(d)' /\ received'[d] = 0
    BY <1>2, <1>3, <1>4 DEF Unsettled
  <2>. QED
    BY <2>5, <2>6, <2>7 DEF Decided, Untaken, Trying
<1>5. CASE status'[d] # status[d]
  <2>1. pc[w] = "gone_status" /\ WorksOn(w, d) /\ pc'[w] \notin Owing
    BY <1>1, <1>5 DEF Taking, Approaching, Removing, Loading, Leaving, Same, Owing
  <2>2. ~Queued(d)
    BY <1>0, <2>1, OwingNotQueued DEF Held, Step
  <2>3. ASSUME NEW b \in Agents, b # w, WorksOn(b, d)', pc'[b] \in Owing PROVE FALSE
    <3>1. WorksOn(b, d) /\ pc'[b] = pc[b]
      BY <1>0, <2>3 DEF WorksOn
    <3>2. w # d
      BY AgentsDiffer
    <3>3. pc[b] = "retry_incr"
      BY <1>0, <2>1, <2>3, <3>1, <3>2, TwoAgents
    <3>. QED
      BY <2>3, <3>1, <3>3 DEF Owing
  <2>. QED
    BY <1>2, <2>1, <2>2, <2>3 DEF Decided, Trying
<1>. QED
  BY <1>4, <1>5

\* Every step does, until a call fails.
LEMMA DecidedNext ==
    /\ Serial /\ TypeInv /\ NotStarted /\ FreshInv /\ TakenInv /\ DecidedInv /\ [Next]_vars
    => DecidedInv'
<1>. SUFFICES ASSUME Serial, TypeInv, NotStarted, FreshInv, TakenInv, DecidedInv, [Next]_vars,
                     faults' = 0, NEW d \in Deliveries
              PROVE  Decided(d)'
  BY DEF DecidedInv
<1>0. faults \in Nat /\ d \in Agents /\ Unseen(d) /\ HandsInv
  BY DeliveryConstants DEF TypeInv, TypeOK, FreshInv, Agents
<1>1. ASSUME faults' \in {faults, faults + 1} PROVE faults = 0 /\ Decided(d)
  BY <1>0, <1>1 DEF DecidedInv
<1>2. CASE Calm
  <2>1. UNCHANGED << pc, job, queue, status, received >> /\ Decided(d)
    BY <1>1, <1>2 DEF Calm
  <2>. QED
    BY <2>1 DEF Decided, Unsettled, Untaken, Queued, WorksOn, Exists
<1>3. ASSUME NEW m \in Messages, CachePayload(m) PROVE Decided(d)'
  <2>1. UNCHANGED << job, queue, status, received >> /\ Decided(d)
    BY <1>1, <1>3 DEF CachePayload, rows, history, bounds
  <2>2. \A a \in Agents : pc'[a] \in Owing => pc'[a] = pc[a]
    BY <1>3 DEF CachePayload, Owing
  <2>. QED
    BY <2>1, <2>2 DEF Decided, Unsettled, Untaken, Queued, WorksOn, Exists, Trying
<1>4. ASSUME NEW c \in Deliveries, CreateDelivery(c) PROVE Decided(d)'
  <2>1. /\ UNCHANGED << queue, received >> /\ Decided(d) /\ c \in Agents
        /\ \A a \in Agents : a # c => pc'[a] = pc[a] /\ job'[a] = job[a]
        /\ c # d => status'[d] = status[d]
        /\ status'[c] \in {"pending", status[c]}
        /\ pc[c] = "create" /\ pc'[c] \in {"post", "idle"}
        /\ \A i \in job'[c] : i.id = c
    BY <1>1, <1>4
    DEF CreateDelivery, redis, history, bounds, Goto, Idle, TypeInv, AgentInv, TypeOK, Agents
  <2>2. CASE c # d
    <3>1. \A a \in Agents : WorksOn(a, d)' => WorksOn(a, d) /\ pc'[a] = pc[a]
      BY <2>1, <2>2 DEF WorksOn
    <3>. QED
      BY <2>1, <2>2, <3>1 DEF Decided, Unsettled, Untaken, Queued, Exists, Trying
  <2>3. CASE c = d
    <3>1. Waiting(d)
      BY <2>1, <2>3 DEF Waiting
    <3>2. ~Exists(d) /\ received[d] = 0 /\ ~Queued(d)
      BY <1>0, <3>1 DEF Unseen
    <3>3. Unsettled(d)' /\ received'[d] = 0 /\ ~Queued(d)'
      BY <2>1, <2>3, <3>2 DEF Unsettled, Exists, Queued
    <3>. QED
      BY <3>3 DEF Decided, Untaken
  <2>. QED
    BY <2>2, <2>3
<1>5. ASSUME NEW a \in Agents, Attempt(a) PROVE Decided(d)'
  <2>1. faults = 0 /\ Decided(d)
    BY <1>1, <1>5, AttemptFrame
  <2>. QED
    BY <1>5, <2>1, DecidedAttempt
<1>6. ASSUME NEW w \in Workers, PollStep(w) PROVE Decided(d)'
  <2>1. Decided(d)
    BY <1>1, <1>6, PollFrame
  <2>. QED
    BY <1>6, <2>1, DecidedPoll
<1>7. ASSUME NEW h \in Webhooks, DeleteWebhook(h) PROVE Decided(d)'
  <2>1. /\ UNCHANGED << pc, job, queue, received >> /\ Decided(d)
        /\ status'[d] = IF d[1] = h THEN "none" ELSE status[d]
    BY <1>1, <1>7 DEF DeleteWebhook, redis, agent, history, bounds
  <2>. QED
    BY <2>1 DEF Decided, Unsettled, Untaken, Queued, WorksOn, Exists
<1>8. CASE Restart
  <2>1. /\ UNCHANGED << queue, status, received >> /\ Decided(d)
        /\ \A a \in Agents : job'[a] = {}
    BY <1>1, <1>8 DEF Restart, redis, rows, history
  <2>. QED
    BY <2>1 DEF Decided, Unsettled, Queued, WorksOn
<1>. QED
  BY <1>2, <1>3, <1>4, <1>5, <1>6, <1>7, <1>8, StepKinds

\* The stages of all deliveries, as DeliveryPromise sees the rows.
Stage == [d \in Deliveries |-> CASE status[d] = "success" -> "delivered"
                                 [] status[d] = "none" /\ d[1] \notin configs -> "withdrawn"
                                 [] OTHER -> status[d]]

\* What each row says, before and after a step.
LEMMA StageOfRow ==
    ASSUME NEW d \in Deliveries
    PROVE  /\ status[d] = "success" => Stage[d] = "delivered"
           /\ status[d] = "none" /\ d[1] \notin configs => Stage[d] = "withdrawn"
           /\ status[d] = "none" /\ d[1] \in configs => Stage[d] = "none"
           /\ status[d] \in {"pending", "failed"} => Stage[d] = status[d]
           /\ status'[d] = "success" => Stage'[d] = "delivered"
           /\ status'[d] = "none" /\ d[1] \notin configs' => Stage'[d] = "withdrawn"
           /\ status'[d] \in {"pending", "failed"} => Stage'[d] = status'[d]
           /\ status'[d] = status[d] /\ (d[1] \in configs' <=> d[1] \in configs) =>
                  Stage'[d] = Stage[d]
  BY DEF Stage

\* A step that changes one delivery at most.
LEMMA OneChanges ==
    ASSUME TypeInv, TypeInv', NEW d \in Deliveries, configs' = configs,
           \A c \in Deliveries : c # d => status'[c] = status[c] /\ received'[c] = received[c]
    PROVE  /\ Stage' = [Stage EXCEPT ![d] = Stage'[d]]
           /\ received' = [received EXCEPT ![d] = received'[d]]
           /\ received'[d] = received[d] => received' = received
           /\ Stage'[d] = Stage[d] => Stage' = Stage
<1>1. \A c \in Deliveries : c # d => Stage'[c] = Stage[c]
  BY StageOfRow
<1>2. Stage = [c \in Deliveries |-> Stage[c]] /\ Stage' = [c \in Deliveries |-> Stage'[c]]
  BY DEF Stage
<1>3. received \in [Deliveries -> Nat] /\ received' \in [Deliveries -> Nat]
  BY DEF TypeInv, TypeOK
<1>4. Stage' = [Stage EXCEPT ![d] = Stage'[d]]
  BY <1>1, <1>2
<1>5. Stage'[d] = Stage[d] => Stage' = Stage
  BY <1>1, <1>2
<1>. QED
  BY <1>3, <1>4, <1>5

\* No delivery is under way, and no call has failed.
LEMMA PromiseInit == Init => Promise!Init
<1>. SUFFICES ASSUME Init PROVE Promise!Init
  OBVIOUS
<1>1. Stage = [d \in Deliveries |-> "none"]
  <2>1. \A d \in Deliveries : d[1] \in configs
    BY DEF Init, Deliveries
  <2>. QED
    BY <2>1 DEF Init, Stage
<1>2. (faults > 0) = FALSE
  BY DEF Init
<1>. QED
  BY <1>1, <1>2 DEF Init, Promise!Init, Stage

\* What the abstract step looks like in the variables of the deliveries.
LEMMA PromiseSteps ==
    ASSUME NEW d \in Deliveries
    PROVE  /\ /\ Stage[d] = "none" /\ Stage' = [Stage EXCEPT ![d] = "pending"]
              /\ UNCHANGED << received, faults >>
              => Promise!Submit(d)
           /\ /\ Stage[d] \in {"pending", "withdrawn"} \/ faults > 0
              /\ received[d] > 0
              /\ Stage' = [Stage EXCEPT ![d] = "delivered"] /\ UNCHANGED << received, faults >>
              => Promise!Confirm(d)
           /\ /\ (Stage[d] \in {"pending", "withdrawn"} /\ received[d] = 0) \/ faults > 0
              /\ Stage' = [Stage EXCEPT ![d] = "failed"] /\ UNCHANGED << received, faults >>
              => Promise!GiveUp(d)
           /\ /\ faults > 0
              /\ Stage' = [Stage EXCEPT ![d] = "pending"] /\ UNCHANGED << received, faults >>
              => Promise!Reopen(d)
  BY DEF Stage, Promise!Submit, Promise!Confirm, Promise!GiveUp, Promise!Reopen, Promise!SetStage,
         Promise!Undecided

\* A failed call is one for good.
LEMMA FaultyGrows ==
    ASSUME faults \in Nat, faults' \in {faults, faults + 1}
    PROVE  /\ (faults > 0)' \in {faults > 0, TRUE}
           /\ faults' = faults + 1 => (faults > 0)' = TRUE
<1>1. CASE faults' = faults
  <2>1. (faults > 0)' = (faults > 0) /\ faults' # faults + 1
    BY <1>1
  <2>. QED
    BY <2>1, Zenon
<1>2. CASE faults' = faults + 1
  <2>1. (faults > 0)' = TRUE
    BY <1>2
  <2>. QED
    BY <2>1, Zenon
<1>. QED
  BY <1>1, <1>2

\* A step that changes no row and posts nothing.
LEMMA RowsStay ==
    ASSUME faults \in Nat, faults' \in {faults, faults + 1}, Stage' = Stage, received' = received
    PROVE  Promise!Next \/ UNCHANGED << Stage, received, faults > 0 >>
<1>1. CASE faults' = faults
  BY <1>1
<1>2. CASE faults' = faults + 1
  <2>1. (faults > 0)' = TRUE
    BY <1>2, FaultyGrows
  <2>2. Promise!Fail
    BY <2>1 DEF Promise!Fail, Stage
  <2>. QED
    BY <2>2 DEF Promise!Next
<1>. QED
  BY <1>1, <1>2

\* What an agent still has to settle is undecided, until a call fails.
LEMMA OwedUndecided ==
    ASSUME TypeInv, FreshInv, DecidedInv, NEW a \in Agents, NEW d \in Deliveries, WorksOn(a, d),
           pc[a] \in Owing
    PROVE  \/ faults > 0
           \/ /\ Unsettled(d) /\ Stage[d] \in {"pending", "withdrawn"}
              /\ pc[a] \in Trying => Untaken(a, d)
<1>. SUFFICES ASSUME ~(faults > 0)
              PROVE  /\ Unsettled(d) /\ Stage[d] \in {"pending", "withdrawn"}
                     /\ pc[a] \in Trying => Untaken(a, d)
  OBVIOUS
<1>1. faults = 0
  BY DeliveryConstants DEF TypeInv, TypeOK
<1>2. Unsettled(d) /\ (pc[a] \in Trying => Untaken(a, d))
  BY <1>1 DEF DecidedInv, Decided
<1>3. Exists(d) \/ d[1] \notin configs
  BY DEF FreshInv, Rowed
<1>. QED
  BY <1>2, <1>3, StageOfRow DEF Unsettled, Exists

\* An attempt is a step of the promise for its delivery, or none.
LEMMA PromiseAttempt ==
    ASSUME TypeInv, TypeInv', FreshInv, SuccessInv, DecidedInv, NEW a \in Agents, Attempt(a)
    PROVE  Promise!Next \/ UNCHANGED << Stage, received, faults > 0 >>
<1>0. faults \in Nat /\ configs' = configs /\ faults' \in {faults, faults + 1}
  BY AttemptFrame, DeliveryConstants DEF TypeInv, TypeOK
<1>1. CASE \A d \in Deliveries : ~WorksOn(a, d)
  <2>1. \A d \in Deliveries : Same(d)
    BY <1>1, AttemptOnOther
  <2>2. status' = status /\ received' = received
    BY <2>1 DEF Same, TypeInv, TypeOK
  <2>3. Stage' = Stage
    BY <1>0, <2>2 DEF Stage
  <2>. QED
    BY <1>0, <2>2, <2>3, RowsStay
<1>2. ASSUME NEW d \in Deliveries, WorksOn(a, d)
      PROVE  Promise!Next \/ UNCHANGED << Stage, received, faults > 0 >>
  <2>1. \A c \in Deliveries : c # d => status'[c] = status[c] /\ received'[c] = received[c]
    <3>1. \A c \in Deliveries : c # d => ~WorksOn(a, c)
      BY <1>2 DEF WorksOn, TypeInv, AgentInv, OneJob
    <3>2. \A c \in Deliveries : c # d => Same(c)
      BY <3>1, AttemptOnOther
    <3>. QED
      BY <3>2 DEF Same
  <2>2. \/ Posting(a, d) \/ Recording(a, d) \/ Reopening(a, d) \/ Adding(a, d)
        \/ Counting(a, d) \/ Ending(a, d)
    BY <1>2, AttemptOnOwn
  <2>3. /\ Stage' = [Stage EXCEPT ![d] = Stage'[d]]
        /\ received' = [received EXCEPT ![d] = received'[d]]
        /\ received'[d] = received[d] => received' = received
        /\ Stage'[d] = Stage[d] => Stage' = Stage
    BY <1>0, <2>1, OneChanges
  <2>4. status'[d] = status[d] => Stage' = Stage
    BY <1>0, <2>3, StageOfRow
  <2>5. pc[a] \in Owing => \/ faults > 0
                           \/ /\ Unsettled(d) /\ Stage[d] \in {"pending", "withdrawn"}
                              /\ pc[a] \in Trying => Untaken(a, d)
    BY <1>2, OwedUndecided
  <2>6. received[d] \in Nat
    BY DEF TypeInv, TypeOK
  <2>7. CASE status'[d] = status[d] /\ received'[d] = received[d]
    BY <1>0, <2>3, <2>4, <2>7, RowsStay
  <2>8. CASE received'[d] # received[d]
    <3>1. /\ pc[a] = "post" /\ received'[d] = received[d] + 1 /\ status'[d] = status[d]
      BY <2>2, <2>8
      DEF Posting, Recording, Reopening, Adding, Counting, Ending, Same
    <3>2. faults > 0 \/ (Stage[d] \in {"pending", "withdrawn"} /\ received[d] = 0)
      BY <2>5, <3>1 DEF Owing, Trying, Untaken
    <3>3. (faults > 0)' \in {faults > 0, TRUE} /\ (faults > 0 => (faults > 0)')
      <4>1. faults > 0 => faults' > 0
        BY <1>0
      <4>. QED
        BY <1>0, <4>1, FaultyGrows
    <3>4. (Stage[d] \in {"pending", "withdrawn"} /\ received[d] = 0) \/ (faults > 0)'
      BY <3>2, <3>3
    <3>5. received' = [received EXCEPT ![d] = @ + 1] /\ Stage' = Stage
      BY <2>3, <2>4, <3>1
    <3>6. Promise!Take(d)
      BY <3>3, <3>4, <3>5 DEF Promise!Take, Promise!Undecided, Stage
    <3>. QED
      BY <3>6 DEF Promise!Next
  <2>9. CASE status'[d] # status[d]
    <3>1. faults' = faults /\ received' = received
      BY <2>2, <2>3, <2>9 DEF Posting, Recording, Reopening, Adding, Counting, Ending, Same
    <3>2. CASE Reopening(a, d)
      <4>1. pc[a] = "retry_status" /\ status'[d] = "pending" /\ ~Unsettled(d)
        BY <2>9, <3>2 DEF Reopening, Unsettled, Exists
      <4>2. faults > 0 /\ Stage' = [Stage EXCEPT ![d] = "pending"]
        BY <2>3, <2>5, <4>1, StageOfRow DEF Owing
      <4>3. Promise!Reopen(d)
        BY <3>1, <4>2, PromiseSteps
      <4>. QED
        BY <4>3 DEF Promise!Next
    <3>3. CASE pc[a] = "ok_status" /\ status'[d] = "success"
      <4>1. received[d] > 0
        BY <1>2, <3>3 DEF SuccessInv, Succeeding, WorksOn
      <4>2. Stage[d] \in {"pending", "withdrawn"} \/ faults > 0
        BY <2>5, <3>3 DEF Owing
      <4>3. Stage' = [Stage EXCEPT ![d] = "delivered"]
        BY <2>3, <3>3, StageOfRow
      <4>4. Promise!Confirm(d)
        BY <3>1, <4>1, <4>2, <4>3, PromiseSteps
      <4>. QED
        BY <4>4 DEF Promise!Next
    <3>4. CASE pc[a] \in {"bad_status", "give_status"} /\ status'[d] = "failed"
      <4>1. (Stage[d] \in {"pending", "withdrawn"} /\ received[d] = 0) \/ faults > 0
        BY <2>5, <3>4 DEF Owing, Trying, Untaken
      <4>2. Stage' = [Stage EXCEPT ![d] = "failed"]
        BY <2>3, <3>4, StageOfRow
      <4>3. Promise!GiveUp(d)
        BY <3>1, <4>1, <4>2, PromiseSteps
      <4>. QED
        BY <4>3 DEF Promise!Next
    <3>. QED
      BY <2>2, <2>9, <3>2, <3>3, <3>4
      DEF Posting, Recording, Reopening, Adding, Counting, Ending, Same
  <2>. QED
    BY <2>7, <2>8, <2>9
<1>. QED
  BY <1>1, <1>2

\* The rest of pollAndRetry gives a delivery up, or leaves the promise alone.
LEMMA PromisePoll ==
    ASSUME TypeInv, TypeInv', FreshInv, DecidedInv, NEW w \in Workers, PollStep(w)
    PROVE  Promise!Next \/ UNCHANGED << Stage, received, faults > 0 >>
<1>0. /\ faults \in Nat /\ configs' = configs /\ faults' \in {faults, faults + 1}
      /\ w \in Agents
  BY PollFrame, DeliveryConstants DEF TypeInv, TypeOK, Agents
<1>1. ASSUME NEW d \in Deliveries
      PROVE  /\ received'[d] = received[d]
             /\ \/ status'[d] = status[d]
                \/ pc[w] = "gone_status" /\ WorksOn(w, d) /\ status'[d] = "failed" /\ faults' = faults
  BY PollOnDelivery DEF Taking, Approaching, Removing, Loading, Leaving, Same
<1>2. CASE \A d \in Deliveries : status'[d] = status[d]
  <2>1. status' = status /\ received' = received
    BY <1>1, <1>2 DEF TypeInv, TypeOK
  <2>2. Stage' = Stage
    BY <1>0, <2>1 DEF Stage
  <2>. QED
    BY <1>0, <2>1, <2>2, RowsStay
<1>3. ASSUME NEW d \in Deliveries, status'[d] # status[d] PROVE Promise!Next
  <2>1. pc[w] = "gone_status" /\ WorksOn(w, d) /\ status'[d] = "failed" /\ faults' = faults
    BY <1>1, <1>3
  <2>2. \A c \in Deliveries : c # d => ~WorksOn(w, c)
    BY <1>0, <2>1 DEF WorksOn, TypeInv, AgentInv, OneJob
  <2>3. \A c \in Deliveries : c # d => status'[c] = status[c] /\ received'[c] = received[c]
    BY <1>1, <2>2
  <2>4. Stage' = [Stage EXCEPT ![d] = "failed"] /\ received' = received
    BY <1>0, <1>1, <2>1, <2>3, OneChanges, StageOfRow
  <2>5. (Stage[d] \in {"pending", "withdrawn"} /\ received[d] = 0) \/ faults > 0
    BY <1>0, <2>1, OwedUndecided DEF Owing, Trying, Untaken
  <2>6. Promise!GiveUp(d)
    BY <2>1, <2>4, <2>5, PromiseSteps
  <2>. QED
    BY <2>6 DEF Promise!Next
<1>. QED
  BY <1>2, <1>3

\* Deleting a webhook withdraws its deliveries.
LEMMA PromiseDelete ==
    ASSUME TypeInv, NEW h \in Webhooks, DeleteWebhook(h)
    PROVE  Promise!Next
<1>. DEFINE I == {d \in Deliveries : d[1] = h}
<1>1. /\ h \in configs /\ configs' = configs \ {h} /\ UNCHANGED << received, faults >>
      /\ \A d \in Deliveries : status'[d] = IF d[1] = h THEN "none" ELSE status[d]
  BY DEF DeleteWebhook, history, bounds
<1>2. \A d \in Deliveries : Stage'[d] = IF d \in I THEN "withdrawn" ELSE Stage[d]
  BY <1>1, StageOfRow
<1>3. Stage' = [d \in Deliveries |-> IF d \in I THEN "withdrawn" ELSE Stage[d]]
  BY <1>2 DEF Stage
<1>4. ASSUME NEW d \in I PROVE Stage[d] \in {"none", "pending", "delivered", "failed"}
  <2>1. d \in Deliveries /\ d[1] \in configs
    BY <1>1
  <2>2. status[d] \in {"none", "pending", "success", "failed"}
    BY <2>1 DEF TypeInv, TypeOK, DeliveryStatus
  <2>. QED
    BY <2>1, <2>2, StageOfRow
<1>5. I \in SUBSET Deliveries
  OBVIOUS
<1>6. (faults > 0)' = (faults > 0)
  BY <1>1
<1>. HIDE DEF I
<1>7. Promise!Withdraw(I)
  BY <1>1, <1>3, <1>4, <1>6 DEF Promise!Withdraw, Stage
<1>. QED
  BY <1>5, <1>7 DEF Promise!Next

\* Every step of the deliveries is a step of the promise, or leaves it alone.
LEMMA PromiseNext ==
    TypeInv /\ TypeInv' /\ FreshInv /\ SuccessInv /\ DecidedInv /\ [Next]_vars =>
        [Promise!Next]_(Promise!vars)
<1>. SUFFICES ASSUME TypeInv, TypeInv', FreshInv, SuccessInv, DecidedInv, [Next]_vars
              PROVE  Promise!Next \/ UNCHANGED << Stage, received, faults > 0 >>
  BY DEF Promise!vars, Stage
<1>0. faults \in Nat
  BY DeliveryConstants DEF TypeInv, TypeOK
<1>1. CASE UNCHANGED << status, configs, received >> /\ faults' \in {faults, faults + 1}
  <2>1. Stage' = Stage
    BY <1>1 DEF Stage
  <2>. QED
    BY <1>0, <1>1, <2>1, RowsStay
<1>2. Calm \/ (\E m \in Messages : CachePayload(m)) \/ Restart =>
          UNCHANGED << status, configs, received >> /\ faults' \in {faults, faults + 1}
  BY DEF Calm, CachePayload, Restart, rows, history, bounds
<1>3. ASSUME NEW d \in Deliveries, CreateDelivery(d)
      PROVE  Promise!Next \/ UNCHANGED << Stage, received, faults > 0 >>
  <2>1. UNCHANGED << configs, received, faults >> /\ pc[d] = "create"
    BY <1>3 DEF CreateDelivery, history, bounds
  <2>2. CASE status' = status
    BY <1>1, <2>1, <2>2
  <2>3. CASE d[1] \in configs /\ status' = [status EXCEPT ![d] = "pending"]
    <3>1. status[d] = "none"
      BY <2>1 DEF FreshInv, Unseen, Waiting, Exists
    <3>2. /\ status'[d] = "pending"
          /\ \A c \in Deliveries : c # d => status'[c] = status[c] /\ received'[c] = received[c]
      BY <2>1, <2>3 DEF TypeInv, TypeOK
    <3>3. Stage[d] = "none" /\ Stage' = [Stage EXCEPT ![d] = "pending"]
      BY <2>1, <2>3, <3>1, <3>2, OneChanges, StageOfRow
    <3>4. Promise!Submit(d)
      BY <2>1, <3>3, PromiseSteps
    <3>. QED
      BY <3>4 DEF Promise!Next
  <2>. QED
    BY <1>3, <2>2, <2>3 DEF CreateDelivery
<1>. QED
  BY <1>1, <1>2, <1>3, StepKinds, PromiseAttempt, PromisePoll, PromiseDelete

\* When invocations of the worker do not overlap, deliveries implement
\* DeliveryPromise: until a call fails an endpoint takes a message at most once
\* and its row says what became of it, and success is never reported without a
\* 2xx answer, for any interleaving of the first attempts, retries, DELETEs of
\* webhooks and exits (webhook-dispatcher.ts, webhook-queue-worker.ts).
THEOREM DeliveriesKeepPromise == Serial => (Spec => KeepsPromise)
<1>. SUFFICES ASSUME Serial PROVE Spec => KeepsPromise
  OBVIOUS
<1>. DEFINE Inv == NotStarted /\ FreshInv /\ TakenInv /\ SuccessInv /\ DecidedInv
<1>1. Init => TypeInv /\ Inv
  BY DeliveryInit, NotStartedInit, FreshInit, TakenInit, SuccessInit, DecidedInit
<1>2. TypeInv /\ TypeInv' /\ Inv /\ [Next]_vars => Inv'
  BY NotStartedNext, FreshNext, TakenNext, SuccessNext, DecidedNext
<1>3. TypeInv /\ TypeInv' /\ Inv /\ [Next]_vars => [Promise!Next]_(Promise!vars)
  BY PromiseNext
<1>. QED
  BY <1>1, <1>2, <1>3, PromiseInit, DeliveryTypeNext, PTL DEF Spec, KeepsPromise, Promise!Spec

=============================================================================
