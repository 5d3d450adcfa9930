------------------------ MODULE OutboundQueueProofs ------------------------
(***************************************************************************)
(* Theorems about OutboundQueue, for any messages, invocations, backoff    *)
(* table, attempt limit and numbers of faults and restarts.                *)
(***************************************************************************)
EXTENDS OutboundQueue, SequenceTheorems, FiniteSetTheorems, TLAPS

-----------------------------------------------------------------------------
(* Type correctness *)

\* An invocation has at most one entry, and is in the send's try block, or its handler, from the attempt
\* check on, and there its entry is within the attempt limit: the retry it may
\* queue has a number the worker still knows how to answer.
ScopeInv ==
    \A w \in Workers :
        /\ \A e, f \in hand[w] : e = f
        /\ pc[w] = "idle" => scope[w] = "outer"
        /\ pc[w] \in {"send", "retry_read", "retry_rem", "retry_add", "retry_record"} =>
              scope[w] # "outer"
        /\ scope[w] # "outer" => \A e \in hand[w] : e.attemptNumber <= MaxAttempts

TypeInv == TypeOK /\ ScopeInv

\* The delay scheduleRetry takes from BACKOFF_DELAYS is in the table, so the
\* entry it queues is a well-formed one.
LEMMA RetryEntryType ==
    ASSUME NEW e \in Entry, e.attemptNumber <= MaxAttempts, now \in 0 .. Horizon
    PROVE  RetryEntry(e) \in Entry
<1>1. Len(Backoff) \in Nat \ {0}
  BY ConstantsAssumption, EmptySeq, LenProperties
<1>2. e.attemptNumber \in Nat \ {0}
  BY ConstantsAssumption DEF Entry, AttemptNumber
<1>3. Smaller(e.attemptNumber, Len(Backoff)) \in 1 .. Len(Backoff)
  BY <1>1, <1>2 DEF Smaller
<1>4. Backoff[Smaller(e.attemptNumber, Len(Backoff))] \in Nat
  BY <1>3, ConstantsAssumption, ElementOfSeq
<1>5. RetryTime(e.attemptNumber) \in 0 .. Horizon
  BY <1>4, ConstantsAssumption DEF RetryTime, Smaller
<1>6. e.attemptNumber + 1 \in AttemptNumber
  BY <1>2, ConstantsAssumption DEF AttemptNumber
<1>. QED
  BY <1>5, <1>6 DEF RetryEntry, Entry

\* recordAttempt adds one well-formed row.
LEMMA AttemptsType ==
    ASSUME NEW e, NEW outcome, RecordAttempt(e, outcome), e.messageId \in Msgs,
           <<e.attemptNumber, outcome>> \in Attempt, attempts \in [Msgs -> AttemptRows]
    PROVE  attempts' \in [Msgs -> AttemptRows]
<1>1. Append(attempts[e.messageId], <<e.attemptNumber, outcome>>) \in AttemptRows
  BY AppendProperties DEF AttemptRows
<1>. QED
  BY <1>1 DEF RecordAttempt

\* The initial state is well formed.
LEMMA TypeInit == Init => TypeInv
<1>. SUFFICES ASSUME Init PROVE TypeOK /\ ScopeInv
  BY DEF TypeInv
<1>1. ready \in BOOLEAN
  BY Zenon DEF Init
<1>2. TypeOK
  BY <1>1, ConstantsAssumption DEF Init, TypeOK, AttemptRows, Status, CancelStep, Step, Scope
<1>3. ScopeInv
  BY DEF Init, ScopeInv
<1>. QED
  BY <1>2, <1>3

\* The error handler of the send keeps an invocation well formed; it is reached
\* from the send and from every other await of its try block.
LEMMA CaughtType ==
    ASSUME TypeInv, NEW w \in Workers, NEW retryable \in BOOLEAN, Caught(w, retryable),
           pc[w] # "idle", scope[w] # "outer"
    PROVE  /\ pc' \in [Workers -> Step]
           /\ hand' \in [Workers -> SUBSET Entry]
           /\ found' \in [Workers -> SUBSET Entry]
           /\ scope' \in [Workers -> Scope]
           /\ ScopeInv'
<1>1. PICK step \in {"retry_read", "fail_status"} : Goto(w, step)
  BY DEF Caught
<1>2. /\ pc' \in [Workers -> Step]
      /\ hand' \in [Workers -> SUBSET Entry]
      /\ found' \in [Workers -> SUBSET Entry]
      /\ scope' \in [Workers -> Scope]
  BY <1>1 DEF TypeInv, TypeOK, Caught, Goto, Step, Scope
<1>3. ScopeInv'
  BY <1>1 DEF TypeInv, TypeOK, ScopeInv, Caught, Goto, Step, Scope
<1>. QED
  BY <1>2, <1>3

\* Every step keeps every variable in its range.
LEMMA TypeNext == TypeInv /\ [Next]_vars => TypeInv'
<1>. SUFFICES ASSUME TypeInv, [Next]_vars PROVE TypeInv'
  OBVIOUS
<1>1. ASSUME NEW m \in Msgs, CreateMessage(m) PROVE TypeInv'
  BY <1>1, ConstantsAssumption
  DEF TypeInv, TypeOK, ScopeInv, CreateMessage, redis, worker, env, Status
<1>2. ASSUME NEW m \in Msgs, EnqueueMessage(m) PROVE TypeInv'
  <2>1. [messageId |-> m, attemptNumber |-> 1, nextRetryAt |-> now] \in Entry
    BY ConstantsAssumption DEF TypeInv, TypeOK, Entry, AttemptNumber
  <2>. QED
    BY <1>2, <2>1 DEF TypeInv, TypeOK, ScopeInv, EnqueueMessage, mysql, worker, env
<1>3. ASSUME NEW m \in Msgs, EnqueueFault(m) PROVE TypeInv'
  BY <1>3, ConstantsAssumption DEF TypeInv, TypeOK, ScopeInv, EnqueueFault, redis, mysql, worker
<1>4. ASSUME NEW m \in Msgs, CancelInDatabase(m) PROVE TypeInv'
  BY <1>4, ConstantsAssumption
  DEF TypeInv, TypeOK, ScopeInv, CancelInDatabase, redis, worker, env, Status, CancelStep
<1>5. ASSUME NEW m \in Msgs, RemoveReadQueue(m) PROVE TypeInv'
  <2>1. Earliest(EntriesOf(queue, m)) \subseteq Entry
    BY DEF TypeInv, TypeOK, Earliest, EntriesOf
  <2>2. cancelFound' \in [Msgs -> SUBSET Entry] /\ canceller' \in [Msgs -> CancelStep]
    BY <1>5, <2>1 DEF TypeInv, TypeOK, RemoveReadQueue, CancelStep
  <2>. QED
    BY <1>5, <2>2 DEF TypeInv, TypeOK, ScopeInv, RemoveReadQueue, redis, mysql, worker, env
<1>6. ASSUME NEW m \in Msgs, RemoveFromQueue(m) PROVE TypeInv'
  BY <1>6, ConstantsAssumption
  DEF TypeInv, TypeOK, ScopeInv, RemoveFromQueue, mysql, worker, env, CancelStep
<1>7. ASSUME NEW m \in Msgs, RemoveReadProcessing(m) PROVE TypeInv'
  <2>1. EntriesOf(processing, m) \subseteq Entry
    BY DEF TypeInv, TypeOK, Earliest, EntriesOf
  <2>2. cancelFound' \in [Msgs -> SUBSET Entry] /\ canceller' \in [Msgs -> CancelStep]
    BY <1>7, <2>1 DEF TypeInv, TypeOK, RemoveReadProcessing, CancelStep
  <2>. QED
    BY <1>7, <2>2 DEF TypeInv, TypeOK, ScopeInv, RemoveReadProcessing, redis, mysql, worker, env
<1>8. ASSUME NEW m \in Msgs, RemoveFromProcessing(m) PROVE TypeInv'
  BY <1>8, ConstantsAssumption
  DEF TypeInv, TypeOK, ScopeInv, RemoveFromProcessing, mysql, worker, env, CancelStep
<1>9. ASSUME NEW m \in Msgs, CancelFault(m) PROVE TypeInv'
  BY <1>9, ConstantsAssumption
  DEF TypeInv, TypeOK, ScopeInv, CancelFault, redis, mysql, worker, CancelStep
<1>10. ASSUME NEW w \in Workers, Poll(w) PROVE TypeInv'
  BY <1>10, ConstantsAssumption
  DEF TypeInv, TypeOK, ScopeInv, Poll, Goto, Earliest, Due, redis, mysql, client, env, Step,
     Scope
<1>11. ASSUME NEW w \in Workers, Claim(w) PROVE TypeInv'
  BY <1>11, ConstantsAssumption
  DEF TypeInv, TypeOK, ScopeInv, Claim, Goto, mysql, client, env, Step, Scope
<1>12. ASSUME NEW w \in Workers, Unqueue(w) PROVE TypeInv'
  BY <1>12, ConstantsAssumption
  DEF TypeInv, TypeOK, ScopeInv, Unqueue, Goto, mysql, client, env, Step, Scope
<1>13. ASSUME NEW w \in Workers, Lookup(w) PROVE TypeInv'
  <2>1. PICK e \in hand[w] :
             \/ Exhausted(e) /\ Goto(w, "fail_status") /\ UNCHANGED scope
             \/ /\ ~Exhausted(e)
                /\ scope' = [scope EXCEPT ![w] = "try"]
                /\ Goto(w, "send") \/ Goto(w, "retry_read")
    BY <1>13 DEF Lookup
  <2>2. e \in Entry /\ e.attemptNumber \in Nat
    BY ConstantsAssumption DEF TypeInv, TypeOK, Entry, AttemptNumber
  <2>8. TypeOK'
    BY <1>13, <2>1 DEF TypeInv, TypeOK, Lookup, Goto, redis, mysql, client, env, Step, Scope
  <2>3. CASE Exhausted(e)
    BY <1>13, <2>1, <2>3, <2>8 DEF TypeInv, TypeOK, ScopeInv, Lookup, Goto
  <2>4. CASE ~Exhausted(e)
    <3>1. \A f \in hand[w] : f.attemptNumber <= MaxAttempts
      BY <2>2, <2>4, ConstantsAssumption DEF TypeInv, ScopeInv, Exhausted
    <3>2. ScopeInv'
      BY <1>13, <2>1, <2>4, <3>1 DEF TypeInv, TypeOK, ScopeInv, Lookup, Goto
    <3>. QED
      BY <2>8, <3>2 DEF TypeInv
  <2>. QED
    BY <2>3, <2>4, <2>8 DEF TypeInv
<1>14. ASSUME NEW w \in Workers, SendAccepted(w) PROVE TypeInv'
  <2>1. PICK e \in hand[w] : accepted' = [accepted EXCEPT ![e.messageId] = @ + 1]
    BY <1>14 DEF SendAccepted
  <2>2. accepted' \in [Msgs -> Nat]
    BY <2>1 DEF TypeInv, TypeOK, Entry
  <2>8. TypeOK'
    BY <1>14, <2>2 DEF TypeInv, TypeOK, SendAccepted, Goto, redis, mysql, client, env, Step, Scope
  <2>9. ScopeInv'
    BY <1>14
    DEF TypeInv, TypeOK, ScopeInv, SendAccepted, Goto, redis, mysql, client, env, Step, Scope
  <2>. QED
    BY <2>8, <2>9 DEF TypeInv
<1>15. ASSUME NEW w \in Workers, SendRejected(w) PROVE TypeInv'
  <2>1. PICK retryable \in BOOLEAN : Caught(w, retryable)
    BY <1>15 DEF SendRejected
  <2>2. pc[w] # "idle" /\ scope[w] # "outer"
    BY <1>15 DEF SendRejected, TypeInv, ScopeInv
  <2>3. /\ pc' \in [Workers -> Step] /\ hand' \in [Workers -> SUBSET Entry]
        /\ found' \in [Workers -> SUBSET Entry] /\ scope' \in [Workers -> Scope]
        /\ ScopeInv'
    BY <2>1, <2>2, CaughtType
  <2>. QED
    BY <1>15, <2>3 DEF TypeInv, TypeOK, SendRejected, redis, mysql, client, env
<1>16. ASSUME NEW w \in Workers, UpdateSent(w) PROVE TypeInv'
  BY <1>16, ConstantsAssumption
  DEF TypeInv, TypeOK, ScopeInv, UpdateSent, Goto, redis, client, env, Step, Scope, Status
<1>17. ASSUME NEW w \in Workers, RecordSent(w) PROVE TypeInv'
  <2>1. PICK e \in hand[w] : RecordAttempt(e, "success")
    BY <1>17 DEF RecordSent
  <2>2. e \in Entry /\ e.messageId \in Msgs /\ <<e.attemptNumber, "success">> \in Attempt
    BY DEF TypeInv, TypeOK, Entry, Attempt
  <2>3. attempts' \in [Msgs -> AttemptRows]
    BY <2>1, <2>2, AttemptsType DEF TypeInv, TypeOK
  <2>8. TypeOK'
    BY <1>17, <2>3 DEF TypeInv, TypeOK, RecordSent, Goto, redis, client, env, Step, Scope
  <2>9. ScopeInv'
    BY <1>17 DEF TypeInv, TypeOK, ScopeInv, RecordSent, Goto, redis, client, env, Step, Scope
  <2>. QED
    BY <2>8, <2>9 DEF TypeInv
<1>18. ASSUME NEW w \in Workers, UpdateFailed(w) PROVE TypeInv'
  BY <1>18, ConstantsAssumption
  DEF TypeInv, TypeOK, ScopeInv, UpdateFailed, Goto, redis, client, env, Step, Scope, Status
<1>19. ASSUME NEW w \in Workers, RecordFailed(w) PROVE TypeInv'
  <2>1. PICK e \in hand[w] : RecordAttempt(e, "failed")
    BY <1>19 DEF RecordFailed
  <2>2. e \in Entry /\ e.messageId \in Msgs /\ <<e.attemptNumber, "failed">> \in Attempt
    BY DEF TypeInv, TypeOK, Entry, Attempt
  <2>3. attempts' \in [Msgs -> AttemptRows]
    BY <2>1, <2>2, AttemptsType DEF TypeInv, TypeOK
  <2>8. TypeOK'
    BY <1>19, <2>3 DEF TypeInv, TypeOK, RecordFailed, Goto, redis, client, env, Step, Scope
  <2>9. ScopeInv'
    BY <1>19 DEF TypeInv, TypeOK, ScopeInv, RecordFailed, Goto, redis, client, env, Step, Scope
  <2>. QED
    BY <2>8, <2>9 DEF TypeInv
<1>20. ASSUME NEW w \in Workers, RetryRead(w) PROVE TypeInv'
  <2>8. TypeOK'
    BY <1>20
    DEF TypeInv, TypeOK, RetryRead, Goto, EntriesOf, redis, mysql, client, env, Step, Scope
  <2>9. ScopeInv'
    BY <1>20
    DEF TypeInv, TypeOK, ScopeInv, RetryRead, Goto, EntriesOf, redis, mysql, client, env, Step,
       Scope
  <2>. QED
    BY <2>8, <2>9 DEF TypeInv
<1>21. ASSUME NEW w \in Workers, RetryRemove(w) PROVE TypeInv'
  BY <1>21, ConstantsAssumption
  DEF TypeInv, TypeOK, ScopeInv, RetryRemove, Goto, mysql, client, env, Step, Scope
<1>22. ASSUME NEW w \in Workers, RetryAdd(w) PROVE TypeInv'
  <2>1. PICK e \in hand[w] : queue' = queue \cup {RetryEntry(e)}
    BY <1>22 DEF RetryAdd
  <2>2. e \in Entry /\ e.attemptNumber <= MaxAttempts /\ now \in 0 .. Horizon
    BY <1>22 DEF RetryAdd, TypeInv, TypeOK, ScopeInv
  <2>3. queue' \subseteq Entry
    BY <2>1, <2>2, RetryEntryType DEF TypeInv, TypeOK
  <2>8. TypeOK'
    BY <1>22, <2>3 DEF TypeInv, TypeOK, RetryAdd, Goto, mysql, client, env, Step, Scope
  <2>9. ScopeInv'
    BY <1>22 DEF TypeInv, TypeOK, ScopeInv, RetryAdd, Goto, Step
  <2>. QED
    BY <2>8, <2>9 DEF TypeInv
<1>23. ASSUME NEW w \in Workers, RetryRecord(w) PROVE TypeInv'
  <2>1. PICK e \in hand[w] : RecordAttempt(e, "retrying")
    BY <1>23 DEF RetryRecord
  <2>2. e \in Entry /\ e.messageId \in Msgs /\ <<e.attemptNumber, "retrying">> \in Attempt
    BY DEF TypeInv, TypeOK, Entry, Attempt
  <2>3. attempts' \in [Msgs -> AttemptRows]
    BY <2>1, <2>2, AttemptsType DEF TypeInv, TypeOK
  <2>8. TypeOK'
    BY <1>23, <2>3 DEF TypeInv, TypeOK, RetryRecord, Return, redis, client, env, Step, Scope
  <2>9. ScopeInv'
    BY <1>23 DEF TypeInv, TypeOK, ScopeInv, RetryRecord, Return, redis, client, env, Step, Scope
  <2>. QED
    BY <2>8, <2>9 DEF TypeInv
<1>24. ASSUME NEW w \in Workers, MarkRead(w) PROVE TypeInv'
  <2>8. TypeOK'
    BY <1>24
    DEF TypeInv, TypeOK, MarkRead, Goto, Return, EntriesOf, redis, mysql, client, env, Step,
       Scope
  <2>9. ScopeInv'
    BY <1>24
    DEF TypeInv, TypeOK, ScopeInv, MarkRead, Goto, Return, EntriesOf, redis, mysql, client, env,
       Step, Scope
  <2>. QED
    BY <2>8, <2>9 DEF TypeInv
<1>25. ASSUME NEW w \in Workers, MarkRemove(w) PROVE TypeInv'
  BY <1>25, ConstantsAssumption
  DEF TypeInv, TypeOK, ScopeInv, MarkRemove, Return, mysql, client, env, Step, Scope
<1>26. ASSUME NEW w \in Workers, SendAnswerLost(w) PROVE TypeInv'
  <2>1. PICK e \in hand[w] : accepted' = [accepted EXCEPT ![e.messageId] = @ + 1]
    BY <1>26 DEF SendAnswerLost
  <2>2. accepted' \in [Msgs -> Nat]
    BY <2>1 DEF TypeInv, TypeOK, Entry
  <2>3. faults' \in 0 .. MaxFaults
    BY <1>26, ConstantsAssumption DEF TypeInv, TypeOK, SendAnswerLost
  <2>4. pc[w] # "idle" /\ scope[w] # "outer" /\ Caught(w, TRUE)
    BY <1>26 DEF SendAnswerLost, TypeInv, ScopeInv
  <2>5. /\ pc' \in [Workers -> Step] /\ hand' \in [Workers -> SUBSET Entry]
        /\ found' \in [Workers -> SUBSET Entry] /\ scope' \in [Workers -> Scope]
        /\ ScopeInv'
    BY <2>4, CaughtType
  <2>. QED
    BY <1>26, <2>2, <2>3, <2>5 DEF TypeInv, TypeOK, SendAnswerLost, redis, mysql, client
<1>27. ASSUME NEW w \in Workers, WorkerFault(w) PROVE TypeInv'
  <2>1. faults' \in 0 .. MaxFaults
    BY <1>27, ConstantsAssumption DEF TypeInv, TypeOK, WorkerFault
  <2>2. CASE scope[w] = "try" /\ Caught(w, TRUE)
    BY <1>27, <2>1, <2>2, CaughtType
    DEF TypeInv, TypeOK, WorkerFault, redis, mysql, client
  <2>3. CASE Return(w)
    BY <1>27, <2>1, <2>3
    DEF TypeInv, TypeOK, ScopeInv, WorkerFault, Return, redis, mysql, client, Step, Scope
  <2>. QED
    BY <1>27, <2>2, <2>3 DEF WorkerFault
<1>28. CASE AdvanceClock
  BY <1>28, ConstantsAssumption
  DEF TypeInv, TypeOK, ScopeInv, AdvanceClock, redis, mysql, client, worker, env
<1>29. CASE ProviderChange
  BY <1>29, ConstantsAssumption
  DEF TypeInv, TypeOK, ScopeInv, ProviderChange, redis, mysql, client, worker
<1>30. CASE Restart
  <2>1. ready' \in BOOLEAN
    BY <1>30, Zenon DEF Restart
  <2>2. crashes' \in 0 .. MaxCrashes
    BY <1>30, ConstantsAssumption DEF TypeInv, TypeOK, Restart
  <2>8. TypeOK'
    BY <1>30, <2>1, <2>2 DEF TypeInv, TypeOK, Restart, redis, mysql, Step, Scope, CancelStep
  <2>9. ScopeInv'
    BY <1>30 DEF ScopeInv, Restart
  <2>. QED
    BY <2>8, <2>9 DEF TypeInv
<1>31. CASE UNCHANGED vars
  BY <1>31 DEF TypeInv, TypeOK, ScopeInv, vars, redis, mysql, client, worker, env
<1>. QED
  BY <1>1, <1>2, <1>3, <1>4, <1>5, <1>6, <1>7, <1>8, <1>9, <1>10, <1>11, <1>12, <1>13, <1>14,
     <1>15, <1>16, <1>17, <1>18, <1>19, <1>20, <1>21, <1>22, <1>23, <1>24, <1>25, <1>26, <1>27,
     <1>28, <1>29, <1>30, <1>31
  DEF Next, SenderNext, CancelNext, RemoveMessage, WorkerNext, WorkerStep

\* Well-formedness is an invariant.
LEMMA TypeInvariant == Spec => []TypeInv
<1>1. Init => TypeInv
  BY TypeInit
<1>2. TypeInv /\ [Next]_vars => TypeInv'
  BY TypeNext
<1>. QED
  BY <1>1, <1>2, PTL DEF Spec

\* Type correctness: whatever fails, every variable keeps its type; no entry
\* is ever queued with an attempt number beyond MaxAttempts + 1.
THEOREM TypeCorrect == Spec => []TypeOK
<1>1. TypeInv => TypeOK
  BY DEF TypeInv
<1>. QED
  BY <1>1, TypeInvariant, PTL

-----------------------------------------------------------------------------
(* What is reported as sent was accepted *)

\* Between the provider's answer and the UPDATE the acceptance is on record.
SentInv ==
    /\ SentWasAccepted
    /\ \A w \in Workers : pc[w] = "sent_status" =>
           \A e \in hand[w] : accepted[e.messageId] > 0

\* Nothing has been sent yet.
LEMMA SentInit == Init => SentInv
  BY DEF Init, SentInv, SentWasAccepted

\* Only SendAccepted and SendAnswerLost count, and sent is written after the first.
LEMMA SentNext == TypeInv /\ SentInv /\ [Next]_vars => SentInv'
<1>. SUFFICES ASSUME TypeInv, SentInv, [Next]_vars PROVE SentInv'
  OBVIOUS
<1>1. ASSUME NEW m \in Msgs, CreateMessage(m) PROVE SentInv'
  BY <1>1
  DEF TypeInv, TypeOK, ScopeInv, SentInv, SentWasAccepted, CreateMessage, redis, worker, env
<1>2. ASSUME NEW m \in Msgs, EnqueueMessage(m) PROVE SentInv'
  BY <1>2
  DEF TypeInv, TypeOK, ScopeInv, SentInv, SentWasAccepted, EnqueueMessage, mysql, worker, env
<1>3. ASSUME NEW m \in Msgs, EnqueueFault(m) PROVE SentInv'
  BY <1>3
  DEF TypeInv, TypeOK, ScopeInv, SentInv, SentWasAccepted, EnqueueFault, redis, mysql, worker
<1>4. ASSUME NEW m \in Msgs, CancelInDatabase(m) PROVE SentInv'
  BY <1>4
  DEF TypeInv, TypeOK, ScopeInv, SentInv, SentWasAccepted, CancelInDatabase, redis, worker, env
<1>5. ASSUME NEW m \in Msgs, RemoveReadQueue(m) PROVE SentInv'
  BY <1>5
  DEF TypeInv, TypeOK, ScopeInv, SentInv, SentWasAccepted, RemoveReadQueue, EntriesOf, Earliest,
     redis, mysql, worker, env
<1>6. ASSUME NEW m \in Msgs, RemoveFromQueue(m) PROVE SentInv'
  BY <1>6
  DEF TypeInv, TypeOK, ScopeInv, SentInv, SentWasAccepted, RemoveFromQueue, mysql, worker, env
<1>7. ASSUME NEW m \in Msgs, RemoveReadProcessing(m) PROVE SentInv'
  BY <1>7
  DEF TypeInv, TypeOK, ScopeInv, SentInv, SentWasAccepted, RemoveReadProcessing, EntriesOf, redis,
     mysql, worker, env
<1>8. ASSUME NEW m \in Msgs, RemoveFromProcessing(m) PROVE SentInv'
  BY <1>8
  DEF TypeInv, TypeOK, ScopeInv, SentInv, SentWasAccepted, RemoveFromProcessing, mysql, worker,
     env
<1>9. ASSUME NEW m \in Msgs, CancelFault(m) PROVE SentInv'
  BY <1>9
  DEF TypeInv, TypeOK, ScopeInv, SentInv, SentWasAccepted, CancelFault, redis, mysql, worker
<1>10. ASSUME NEW w \in Workers, Poll(w) PROVE SentInv'
  BY <1>10
  DEF TypeInv, TypeOK, ScopeInv, SentInv, SentWasAccepted, Poll, Goto, Earliest, Due, redis,
     mysql, client, env
<1>11. ASSUME NEW w \in Workers, Claim(w) PROVE SentInv'
  BY <1>11
  DEF TypeInv, TypeOK, ScopeInv, SentInv, SentWasAccepted, Claim, Goto, mysql, client, env
<1>12. ASSUME NEW w \in Workers, Unqueue(w) PROVE SentInv'
  BY <1>12
  DEF TypeInv, TypeOK, ScopeInv, SentInv, SentWasAccepted, Unqueue, Goto, mysql, client, env
<1>13. ASSUME NEW w \in Workers, Lookup(w) PROVE SentInv'
  BY <1>13
  DEF TypeInv, TypeOK, ScopeInv, SentInv, SentWasAccepted, Lookup, Goto, Exhausted, redis, mysql,
     client, env
<1>14. ASSUME NEW w \in Workers, SendAccepted(w) PROVE SentInv'
  BY <1>14
  DEF TypeInv, TypeOK, ScopeInv, SentInv, SentWasAccepted, SendAccepted, Goto, redis, mysql,
     client, env, Entry
<1>15. ASSUME NEW w \in Workers, SendRejected(w) PROVE SentInv'
  BY <1>15
  DEF TypeInv, TypeOK, ScopeInv, SentInv, SentWasAccepted, SendRejected, Caught, Goto, redis,
     mysql, client, env
<1>16. ASSUME NEW w \in Workers, UpdateSent(w) PROVE SentInv'
  BY <1>16
  DEF TypeInv, TypeOK, ScopeInv, SentInv, SentWasAccepted, UpdateSent, Goto, redis, client, env,
     Entry
<1>17. ASSUME NEW w \in Workers, RecordSent(w) PROVE SentInv'
  BY <1>17
  DEF TypeInv, TypeOK, ScopeInv, SentInv, SentWasAccepted, RecordSent, Goto, RecordAttempt, redis,
     client, env
<1>18. ASSUME NEW w \in Workers, UpdateFailed(w) PROVE SentInv'
  BY <1>18
  DEF TypeInv, TypeOK, ScopeInv, SentInv, SentWasAccepted, UpdateFailed, Goto, redis, client, env,
     Entry
<1>19. ASSUME NEW w \in Workers, RecordFailed(w) PROVE SentInv'
  BY <1>19
  DEF TypeInv, TypeOK, ScopeInv, SentInv, SentWasAccepted, RecordFailed, Goto, RecordAttempt,
     redis, client, env
<1>20. ASSUME NEW w \in Workers, RetryRead(w) PROVE SentInv'
  BY <1>20
  DEF TypeInv, TypeOK, ScopeInv, SentInv, SentWasAccepted, RetryRead, Goto, EntriesOf, redis,
     mysql, client, env
<1>21. ASSUME NEW w \in Workers, RetryRemove(w) PROVE SentInv'
  BY <1>21
  DEF TypeInv, TypeOK, ScopeInv, SentInv, SentWasAccepted, RetryRemove, Goto, mysql, client, env
<1>22. ASSUME NEW w \in Workers, RetryAdd(w) PROVE SentInv'
  BY <1>22
  DEF TypeInv, TypeOK, ScopeInv, SentInv, SentWasAccepted, RetryAdd, Goto, mysql, client, env
<1>23. ASSUME NEW w \in Workers, RetryRecord(w) PROVE SentInv'
  BY <1>23
  DEF TypeInv, TypeOK, ScopeInv, SentInv, SentWasAccepted, RetryRecord, Return, RecordAttempt,
     redis, client, env
<1>24. ASSUME NEW w \in Workers, MarkRead(w) PROVE SentInv'
  BY <1>24
  DEF TypeInv, TypeOK, ScopeInv, SentInv, SentWasAccepted, MarkRead, Goto, Return, EntriesOf,
     redis, mysql, client, env
<1>25. ASSUME NEW w \in Workers, MarkRemove(w) PROVE SentInv'
  BY <1>25
  DEF TypeInv, TypeOK, ScopeInv, SentInv, SentWasAccepted, MarkRemove, Return, mysql, client, env
<1>26. ASSUME NEW w \in Workers, SendAnswerLost(w) PROVE SentInv'
  BY <1>26
  DEF TypeInv, TypeOK, ScopeInv, SentInv, SentWasAccepted, SendAnswerLost, Caught, Goto, redis,
     mysql, client, Entry
<1>27. ASSUME NEW w \in Workers, WorkerFault(w) PROVE SentInv'
  BY <1>27
  DEF TypeInv, TypeOK, ScopeInv, SentInv, SentWasAccepted, WorkerFault, Return, Caught, Goto,
     redis, mysql, client
<1>28. CASE AdvanceClock
  BY <1>28
  DEF TypeInv, TypeOK, ScopeInv, SentInv, SentWasAccepted, AdvanceClock, redis, mysql, client,
     worker, env
<1>29. CASE ProviderChange
  BY <1>29
  DEF TypeInv, TypeOK, ScopeInv, SentInv, SentWasAccepted, ProviderChange, redis, mysql, client,
     worker
<1>30. CASE Restart
  BY <1>30 DEF TypeInv, TypeOK, ScopeInv, SentInv, SentWasAccepted, Restart, redis, mysql
<1>31. CASE UNCHANGED vars
  BY <1>31
  DEF TypeInv, TypeOK, ScopeInv, SentInv, SentWasAccepted, vars, redis, mysql, client, worker,
     env
<1>. QED
  BY <1>1, <1>2, <1>3, <1>4, <1>5, <1>6, <1>7, <1>8, <1>9, <1>10, <1>11, <1>12, <1>13, <1>14,
     <1>15, <1>16, <1>17, <1>18, <1>19, <1>20, <1>21, <1>22, <1>23, <1>24, <1>25, <1>26, <1>27,
     <1>28, <1>29, <1>30, <1>31
  DEF Next, SenderNext, CancelNext, RemoveMessage, WorkerNext, WorkerStep

\* A message whose row says "sent" was taken by WhatsApp, whatever calls fail
\* and whenever the process is restarted (queue-worker.ts 141-151).
THEOREM SentAccepted == Spec => []SentWasAccepted
<1>1. Init => SentInv
  BY SentInit
<1>2. TypeInv /\ SentInv /\ [Next]_vars => SentInv'
  BY SentNext
<1>3. SentInv => SentWasAccepted
  BY DEF SentInv
<1>. QED
  BY <1>1, <1>2, <1>3, TypeInvariant, PTL DEF Spec

-----------------------------------------------------------------------------
(* No acknowledged message is lost *)

\* What the handlers know: only acknowledged messages are cancelled, DELETE
\* goes to Redis after the row has left "pending" and removes only entries of
\* its own message, and an invocation has an entry until it returns.
ClientInv ==
    /\ \A m \in acked : sender[m] = "done"
    /\ \A m \in Msgs : canceller[m] # "idle" => m \in acked /\ status[m] # "pending"
    /\ \A m \in Msgs : \A e \in cancelFound[m] : e.messageId = m

HandInv == \A w \in Workers : pc[w] # "idle" => hand[w] # {}

LossInv == ClientInv /\ HandInv /\ NoLostMessage

\* No message has been queued yet.
LEMMA LossInit == Init => LossInv
  BY DEF Init, LossInv, ClientInv, HandInv, NoLostMessage

\* Every step keeps the progress of POST and DELETE consistent with the rows.
LEMMA ClientNext == TypeInv /\ ClientInv /\ [Next]_vars => ClientInv'
<1>. SUFFICES ASSUME TypeInv, ClientInv, [Next]_vars PROVE ClientInv'
  OBVIOUS
<1>1. ASSUME NEW m \in Msgs, CreateMessage(m) PROVE ClientInv'
  BY <1>1 DEF TypeInv, TypeOK, ClientInv, CreateMessage, redis, worker, env
<1>2. ASSUME NEW m \in Msgs, EnqueueMessage(m) PROVE ClientInv'
  BY <1>2 DEF TypeInv, TypeOK, ClientInv, EnqueueMessage, mysql, worker, env
<1>3. ASSUME NEW m \in Msgs, EnqueueFault(m) PROVE ClientInv'
  BY <1>3 DEF TypeInv, TypeOK, ClientInv, EnqueueFault, redis, mysql, worker
<1>4. ASSUME NEW m \in Msgs, CancelInDatabase(m) PROVE ClientInv'
  BY <1>4 DEF TypeInv, TypeOK, ClientInv, CancelInDatabase, redis, worker, env
<1>5. ASSUME NEW m \in Msgs, RemoveReadQueue(m) PROVE ClientInv'
  BY <1>5
  DEF TypeInv, TypeOK, ClientInv, RemoveReadQueue, EntriesOf, Earliest, redis, mysql, worker, env
<1>6. ASSUME NEW m \in Msgs, RemoveFromQueue(m) PROVE ClientInv'
  BY <1>6 DEF TypeInv, TypeOK, ClientInv, RemoveFromQueue, mysql, worker, env
<1>7. ASSUME NEW m \in Msgs, RemoveReadProcessing(m) PROVE ClientInv'
  BY <1>7
  DEF TypeInv, TypeOK, ClientInv, RemoveReadProcessing, EntriesOf, redis, mysql, worker, env
<1>8. ASSUME NEW m \in Msgs, RemoveFromProcessing(m) PROVE ClientInv'
  BY <1>8 DEF TypeInv, TypeOK, ClientInv, RemoveFromProcessing, mysql, worker, env
<1>9. ASSUME NEW m \in Msgs, CancelFault(m) PROVE ClientInv'
  BY <1>9 DEF TypeInv, TypeOK, ClientInv, CancelFault, redis, mysql, worker
<1>10. ASSUME NEW w \in Workers, Poll(w) PROVE ClientInv'
  BY <1>10 DEF TypeInv, TypeOK, ClientInv, Poll, Goto, Earliest, Due, redis, mysql, client, env
<1>11. ASSUME NEW w \in Workers, Claim(w) PROVE ClientInv'
  BY <1>11 DEF TypeInv, TypeOK, ClientInv, Claim, Goto, mysql, client, env
<1>12. ASSUME NEW w \in Workers, Unqueue(w) PROVE ClientInv'
  BY <1>12 DEF TypeInv, TypeOK, ClientInv, Unqueue, Goto, mysql, client, env
<1>13. ASSUME NEW w \in Workers, Lookup(w) PROVE ClientInv'
  BY <1>13 DEF TypeInv, TypeOK, ClientInv, Lookup, Goto, Exhausted, redis, mysql, client, env
<1>14. ASSUME NEW w \in Workers, SendAccepted(w) PROVE ClientInv'
  BY <1>14 DEF TypeInv, TypeOK, ClientInv, SendAccepted, Goto, redis, mysql, client, env
<1>15. ASSUME NEW w \in Workers, SendRejected(w) PROVE ClientInv'
  BY <1>15 DEF TypeInv, TypeOK, ClientInv, SendRejected, Caught, Goto, redis, mysql, client, env
<1>16. ASSUME NEW w \in Workers, UpdateSent(w) PROVE ClientInv'
  BY <1>16 DEF TypeInv, TypeOK, ClientInv, UpdateSent, Goto, redis, client, env
<1>17. ASSUME NEW w \in Workers, RecordSent(w) PROVE ClientInv'
  BY <1>17 DEF TypeInv, TypeOK, ClientInv, RecordSent, Goto, RecordAttempt, redis, client, env
<1>18. ASSUME NEW w \in Workers, UpdateFailed(w) PROVE ClientInv'
  BY <1>18 DEF TypeInv, TypeOK, ClientInv, UpdateFailed, Goto, redis, client, env
<1>19. ASSUME NEW w \in Workers, RecordFailed(w) PROVE ClientInv'
  BY <1>19 DEF TypeInv, TypeOK, ClientInv, RecordFailed, Goto, RecordAttempt, redis, client, env
<1>20. ASSUME NEW w \in Workers, RetryRead(w) PROVE ClientInv'
  BY <1>20 DEF TypeInv, TypeOK, ClientInv, RetryRead, Goto, EntriesOf, redis, mysql, client, env
<1>21. ASSUME NEW w \in Workers, RetryRemove(w) PROVE ClientInv'
  BY <1>21 DEF TypeInv, TypeOK, ClientInv, RetryRemove, Goto, mysql, client, env
<1>22. ASSUME NEW w \in Workers, RetryAdd(w) PROVE ClientInv'
  BY <1>22 DEF TypeInv, TypeOK, ClientInv, RetryAdd, Goto, mysql, client, env
<1>23. ASSUME NEW w \in Workers, RetryRecord(w) PROVE ClientInv'
  BY <1>23 DEF TypeInv, TypeOK, ClientInv, RetryRecord, Return, RecordAttempt, redis, client, env
<1>24. ASSUME NEW w \in Workers, MarkRead(w) PROVE ClientInv'
  BY <1>24
  DEF TypeInv, TypeOK, ClientInv, MarkRead, Goto, Return, EntriesOf, redis, mysql, client, env
<1>25. ASSUME NEW w \in Workers, MarkRemove(w) PROVE ClientInv'
  BY <1>25 DEF TypeInv, TypeOK, ClientInv, MarkRemove, Return, mysql, client, env
<1>26. ASSUME NEW w \in Workers, SendAnswerLost(w) PROVE ClientInv'
  BY <1>26 DEF TypeInv, TypeOK, ClientInv, SendAnswerLost, Caught, Goto, redis, mysql, client
<1>27. ASSUME NEW w \in Workers, WorkerFault(w) PROVE ClientInv'
  BY <1>27 DEF TypeInv, TypeOK, ClientInv, WorkerFault, Return, Caught, Goto, redis, mysql, client
<1>28. CASE AdvanceClock
  BY <1>28 DEF TypeInv, TypeOK, ClientInv, AdvanceClock, redis, mysql, client, worker, env
<1>29. CASE ProviderChange
  BY <1>29 DEF TypeInv, TypeOK, ClientInv, ProviderChange, redis, mysql, client, worker
<1>30. CASE Restart
  BY <1>30 DEF TypeInv, TypeOK, ClientInv, Restart, redis, mysql
<1>31. CASE UNCHANGED vars
  BY <1>31 DEF TypeInv, TypeOK, ClientInv, vars, redis, mysql, client, worker, env
<1>. QED
  BY <1>1, <1>2, <1>3, <1>4, <1>5, <1>6, <1>7, <1>8, <1>9, <1>10, <1>11, <1>12, <1>13, <1>14,
     <1>15, <1>16, <1>17, <1>18, <1>19, <1>20, <1>21, <1>22, <1>23, <1>24, <1>25, <1>26, <1>27,
     <1>28, <1>29, <1>30, <1>31
  DEF Next, SenderNext, CancelNext, RemoveMessage, WorkerNext, WorkerStep

\* Every step keeps what the invocations have in hand consistent with where they await.
LEMMA HandNext == TypeInv /\ HandInv /\ [Next]_vars => HandInv'
<1>. SUFFICES ASSUME TypeInv, HandInv, [Next]_vars PROVE HandInv'
  OBVIOUS
<1>1. ASSUME NEW m \in Msgs, CreateMessage(m) PROVE HandInv'
  BY <1>1 DEF TypeInv, TypeOK, HandInv, CreateMessage, redis, worker, env
<1>2. ASSUME NEW m \in Msgs, EnqueueMessage(m) PROVE HandInv'
  BY <1>2 DEF TypeInv, TypeOK, HandInv, EnqueueMessage, mysql, worker, env
<1>3. ASSUME NEW m \in Msgs, EnqueueFault(m) PROVE HandInv'
  BY <1>3 DEF TypeInv, TypeOK, HandInv, EnqueueFault, redis, mysql, worker
<1>4. ASSUME NEW m \in Msgs, CancelInDatabase(m) PROVE HandInv'
  BY <1>4 DEF TypeInv, TypeOK, HandInv, CancelInDatabase, redis, worker, env
<1>5. ASSUME NEW m \in Msgs, RemoveReadQueue(m) PROVE HandInv'
  BY <1>5
  DEF TypeInv, TypeOK, HandInv, RemoveReadQueue, EntriesOf, Earliest, redis, mysql, worker, env
<1>6. ASSUME NEW m \in Msgs, RemoveFromQueue(m) PROVE HandInv'
  BY <1>6 DEF TypeInv, TypeOK, HandInv, RemoveFromQueue, mysql, worker, env
<1>7. ASSUME NEW m \in Msgs, RemoveReadProcessing(m) PROVE HandInv'
  BY <1>7 DEF TypeInv, TypeOK, HandInv, RemoveReadProcessing, EntriesOf, redis, mysql, worker, env
<1>8. ASSUME NEW m \in Msgs, RemoveFromProcessing(m) PROVE HandInv'
  BY <1>8 DEF TypeInv, TypeOK, HandInv, RemoveFromProcessing, mysql, worker, env
<1>9. ASSUME NEW m \in Msgs, CancelFault(m) PROVE HandInv'
  BY <1>9 DEF TypeInv, TypeOK, HandInv, CancelFault, redis, mysql, worker
<1>10. ASSUME NEW w \in Workers, Poll(w) PROVE HandInv'
  BY <1>10 DEF TypeInv, TypeOK, HandInv, Poll, Goto, Earliest, Due, redis, mysql, client, env
<1>11. ASSUME NEW w \in Workers, Claim(w) PROVE HandInv'
  BY <1>11 DEF TypeInv, TypeOK, HandInv, Claim, Goto, mysql, client, env
<1>12. ASSUME NEW w \in Workers, Unqueue(w) PROVE HandInv'
  BY <1>12 DEF TypeInv, TypeOK, HandInv, Unqueue, Goto, mysql, client, env
<1>13. ASSUME NEW w \in Workers, Lookup(w) PROVE HandInv'
  BY <1>13 DEF TypeInv, TypeOK, HandInv, Lookup, Goto, Exhausted, redis, mysql, client, env
<1>14. ASSUME NEW w \in Workers, SendAccepted(w) PROVE HandInv'
  BY <1>14 DEF TypeInv, TypeOK, HandInv, SendAccepted, Goto, redis, mysql, client, env
<1>15. ASSUME NEW w \in Workers, SendRejected(w) PROVE HandInv'
  BY <1>15 DEF TypeInv, TypeOK, HandInv, SendRejected, Caught, Goto, redis, mysql, client, env
<1>16. ASSUME NEW w \in Workers, UpdateSent(w) PROVE HandInv'
  BY <1>16 DEF TypeInv, TypeOK, HandInv, UpdateSent, Goto, redis, client, env
<1>17. ASSUME NEW w \in Workers, RecordSent(w) PROVE HandInv'
  BY <1>17 DEF TypeInv, TypeOK, HandInv, RecordSent, Goto, RecordAttempt, redis, client, env
<1>18. ASSUME NEW w \in Workers, UpdateFailed(w) PROVE HandInv'
  BY <1>18 DEF TypeInv, TypeOK, HandInv, UpdateFailed, Goto, redis, client, env
<1>19. ASSUME NEW w \in Workers, RecordFailed(w) PROVE HandInv'
  BY <1>19 DEF TypeInv, TypeOK, HandInv, RecordFailed, Goto, RecordAttempt, redis, client, env
<1>20. ASSUME NEW w \in Workers, RetryRead(w) PROVE HandInv'
  BY <1>20 DEF TypeInv, TypeOK, HandInv, RetryRead, Goto, EntriesOf, redis, mysql, client, env
<1>21. ASSUME NEW w \in Workers, RetryRemove(w) PROVE HandInv'
  BY <1>21 DEF TypeInv, TypeOK, HandInv, RetryRemove, Goto, mysql, client, env
<1>22. ASSUME NEW w \in Workers, RetryAdd(w) PROVE HandInv'
  BY <1>22 DEF TypeInv, TypeOK, HandInv, RetryAdd, Goto, mysql, client, env
<1>23. ASSUME NEW w \in Workers, RetryRecord(w) PROVE HandInv'
  BY <1>23 DEF TypeInv, TypeOK, HandInv, RetryRecord, Return, RecordAttempt, redis, client, env
<1>24. ASSUME NEW w \in Workers, MarkRead(w) PROVE HandInv'
  BY <1>24
  DEF TypeInv, TypeOK, HandInv, MarkRead, Goto, Return, EntriesOf, redis, mysql, client, env
<1>25. ASSUME NEW w \in Workers, MarkRemove(w) PROVE HandInv'
  BY <1>25 DEF TypeInv, TypeOK, HandInv, MarkRemove, Return, mysql, client, env
<1>26. ASSUME NEW w \in Workers, SendAnswerLost(w) PROVE HandInv'
  BY <1>26 DEF TypeInv, TypeOK, HandInv, SendAnswerLost, Caught, Goto, redis, mysql, client
<1>27. ASSUME NEW w \in Workers, WorkerFault(w) PROVE HandInv'
  BY <1>27 DEF TypeInv, TypeOK, HandInv, WorkerFault, Return, Caught, Goto, redis, mysql, client
<1>28. CASE AdvanceClock
  BY <1>28 DEF TypeInv, TypeOK, HandInv, AdvanceClock, redis, mysql, client, worker, env
<1>29. CASE ProviderChange
  BY <1>29 DEF TypeInv, TypeOK, HandInv, ProviderChange, redis, mysql, client, worker
<1>30. CASE Restart
  BY <1>30 DEF TypeInv, TypeOK, HandInv, Restart, redis, mysql
<1>31. CASE UNCHANGED vars
  BY <1>31 DEF TypeInv, TypeOK, HandInv, vars, redis, mysql, client, worker, env
<1>. QED
  BY <1>1, <1>2, <1>3, <1>4, <1>5, <1>6, <1>7, <1>8, <1>9, <1>10, <1>11, <1>12, <1>13, <1>14,
     <1>15, <1>16, <1>17, <1>18, <1>19, <1>20, <1>21, <1>22, <1>23, <1>24, <1>25, <1>26, <1>27,
     <1>28, <1>29, <1>30, <1>31
  DEF Next, SenderNext, CancelNext, RemoveMessage, WorkerNext, WorkerStep

\* Every step keeps the acknowledged pending messages.
LEMMA LossNext == TypeInv /\ LossInv /\ [Next]_vars => NoLostMessage'
<1>. SUFFICES ASSUME TypeInv, LossInv, [Next]_vars PROVE NoLostMessage'
  OBVIOUS
<1>1. ASSUME NEW m \in Msgs, CreateMessage(m) PROVE NoLostMessage'
  BY <1>1
  DEF TypeInv, TypeOK, LossInv, ClientInv, HandInv, NoLostMessage, Holds, Owing, EntriesOf, Entry,
     CreateMessage, redis, worker, env
<1>2. ASSUME NEW m \in Msgs, EnqueueMessage(m) PROVE NoLostMessage'
  <2>1. SUFFICES ASSUME NEW n \in acked', faults' = 0, crashes' = 0, status'[n] = "pending"
                 PROVE  \/ EntriesOf(queue', n) # {}
                        \/ \E w \in Workers : EntriesOf(hand'[w], n) # {} /\ pc'[w] \in Owing
    BY DEF NoLostMessage, Holds, EntriesOf
  <2>2. CASE n = m
    <3>1. [messageId |-> m, attemptNumber |-> 1, nextRetryAt |-> now] \in EntriesOf(queue', m)
      BY <1>2, <2>2 DEF EnqueueMessage, EntriesOf
    <3>. QED
      BY <2>2, <3>1
  <2>3. CASE n # m
    BY <1>2, <2>1, <2>3
    DEF LossInv, NoLostMessage, Holds, EntriesOf, EnqueueMessage, mysql, worker, env
  <2>. QED
    BY <2>2, <2>3
<1>3. ASSUME NEW m \in Msgs, EnqueueFault(m) PROVE NoLostMessage'
  BY <1>3
  DEF TypeInv, TypeOK, LossInv, ClientInv, HandInv, NoLostMessage, Holds, Owing, EntriesOf, Entry,
     EnqueueFault, redis, mysql, worker
<1>4. ASSUME NEW m \in Msgs, CancelInDatabase(m) PROVE NoLostMessage'
  BY <1>4
  DEF TypeInv, TypeOK, LossInv, ClientInv, HandInv, NoLostMessage, Holds, Owing, EntriesOf, Entry,
     CancelInDatabase, redis, worker, env
<1>5. ASSUME NEW m \in Msgs, RemoveReadQueue(m) PROVE NoLostMessage'
  BY <1>5
  DEF TypeInv, TypeOK, LossInv, ClientInv, HandInv, NoLostMessage, Holds, Owing, EntriesOf, Entry,
     RemoveReadQueue, Earliest, redis, mysql, worker, env
<1>6. ASSUME NEW m \in Msgs, RemoveFromQueue(m) PROVE NoLostMessage'
  BY <1>6
  DEF TypeInv, TypeOK, LossInv, ClientInv, HandInv, NoLostMessage, Holds, Owing, EntriesOf, Entry,
     RemoveFromQueue, mysql, worker, env
<1>7. ASSUME NEW m \in Msgs, RemoveReadProcessing(m) PROVE NoLostMessage'
  BY <1>7
  DEF TypeInv, TypeOK, LossInv, ClientInv, HandInv, NoLostMessage, Holds, Owing, EntriesOf, Entry,
     RemoveReadProcessing, redis, mysql, worker, env
<1>8. ASSUME NEW m \in Msgs, RemoveFromProcessing(m) PROVE NoLostMessage'
  BY <1>8
  DEF TypeInv, TypeOK, LossInv, ClientInv, HandInv, NoLostMessage, Holds, Owing, EntriesOf, Entry,
     RemoveFromProcessing, mysql, worker, env
<1>9. ASSUME NEW m \in Msgs, CancelFault(m) PROVE NoLostMessage'
  BY <1>9
  DEF TypeInv, TypeOK, LossInv, ClientInv, HandInv, NoLostMessage, Holds, Owing, EntriesOf, Entry,
     CancelFault, redis, mysql, worker
<1>10. ASSUME NEW w \in Workers, Poll(w) PROVE NoLostMessage'
  BY <1>10
  DEF TypeInv, TypeOK, LossInv, ClientInv, HandInv, NoLostMessage, Holds, Owing, EntriesOf, Entry,
     Poll, Goto, Earliest, Due, redis, mysql, client, env
<1>11. ASSUME NEW w \in Workers, Claim(w) PROVE NoLostMessage'
  BY <1>11
  DEF TypeInv, TypeOK, LossInv, ClientInv, HandInv, NoLostMessage, Holds, Owing, EntriesOf, Entry,
     Claim, Goto, mysql, client, env
<1>12. ASSUME NEW w \in Workers, Unqueue(w) PROVE NoLostMessage'
  BY <1>12
  DEF TypeInv, TypeOK, LossInv, ClientInv, HandInv, NoLostMessage, Holds, Owing, EntriesOf, Entry,
     Unqueue, Goto, mysql, client, env
<1>13. ASSUME NEW w \in Workers, Lookup(w) PROVE NoLostMessage'
  BY <1>13
  DEF TypeInv, TypeOK, LossInv, ClientInv, HandInv, NoLostMessage, Holds, Owing, EntriesOf, Entry,
     Lookup, Goto, Exhausted, redis, mysql, client, env
<1>14. ASSUME NEW w \in Workers, SendAccepted(w) PROVE NoLostMessage'
  BY <1>14
  DEF TypeInv, TypeOK, LossInv, ClientInv, HandInv, NoLostMessage, Holds, Owing, EntriesOf, Entry,
     SendAccepted, Goto, redis, mysql, client, env
<1>15. ASSUME NEW w \in Workers, SendRejected(w) PROVE NoLostMessage'
  BY <1>15
  DEF TypeInv, TypeOK, LossInv, ClientInv, HandInv, NoLostMessage, Holds, Owing, EntriesOf, Entry,
     SendRejected, Caught, Goto, redis, mysql, client, env
<1>16. ASSUME NEW w \in Workers, UpdateSent(w) PROVE NoLostMessage'
  <2>1. PICK e \in hand[w] : status' = [status EXCEPT ![e.messageId] = "sent"]
    BY <1>16 DEF UpdateSent
  <2>2. SUFFICES ASSUME NEW m \in acked', faults' = 0, crashes' = 0, status'[m] = "pending"
                 PROVE  \/ EntriesOf(queue', m) # {}
                        \/ \E v \in Workers : EntriesOf(hand'[v], m) # {} /\ pc'[v] \in Owing
    BY DEF NoLostMessage, Holds, EntriesOf
  <2>3. m # e.messageId /\ status[m] = "pending"
    BY <2>1, <2>2 DEF TypeInv, TypeOK, Entry
  <2>4. EntriesOf(hand[w], m) = {}
    BY <2>3 DEF TypeInv, ScopeInv, EntriesOf
  <2>5. \/ EntriesOf(queue, m) # {}
        \/ \E v \in Workers \ {w} : EntriesOf(hand[v], m) # {} /\ pc[v] \in Owing
    BY <1>16, <2>2, <2>3, <2>4 DEF LossInv, NoLostMessage, Holds, UpdateSent, env, client
  <2>. QED
    BY <1>16, <2>5 DEF TypeInv, TypeOK, UpdateSent, Goto, redis
<1>17. ASSUME NEW w \in Workers, RecordSent(w) PROVE NoLostMessage'
  BY <1>17
  DEF TypeInv, TypeOK, LossInv, ClientInv, HandInv, NoLostMessage, Holds, Owing, EntriesOf, Entry,
     RecordSent, Goto, RecordAttempt, redis, client, env
<1>18. ASSUME NEW w \in Workers, UpdateFailed(w) PROVE NoLostMessage'
  <2>1. PICK e \in hand[w] : status' = [status EXCEPT ![e.messageId] = "failed"]
    BY <1>18 DEF UpdateFailed
  <2>2. SUFFICES ASSUME NEW m \in acked', faults' = 0, crashes' = 0, status'[m] = "pending"
                 PROVE  \/ EntriesOf(queue', m) # {}
                        \/ \E v \in Workers : EntriesOf(hand'[v], m) # {} /\ pc'[v] \in Owing
    BY DEF NoLostMessage, Holds, EntriesOf
  <2>3. m # e.messageId /\ status[m] = "pending"
    BY <2>1, <2>2 DEF TypeInv, TypeOK, Entry
  <2>4. EntriesOf(hand[w], m) = {}
    BY <2>3 DEF TypeInv, ScopeInv, EntriesOf
  <2>5. \/ EntriesOf(queue, m) # {}
        \/ \E v \in Workers \ {w} : EntriesOf(hand[v], m) # {} /\ pc[v] \in Owing
    BY <1>18, <2>2, <2>3, <2>4 DEF LossInv, NoLostMessage, Holds, UpdateFailed, env, client
  <2>. QED
    BY <1>18, <2>5 DEF TypeInv, TypeOK, UpdateFailed, Goto, redis
<1>19. ASSUME NEW w \in Workers, RecordFailed(w) PROVE NoLostMessage'
  BY <1>19
  DEF TypeInv, TypeOK, LossInv, ClientInv, HandInv, NoLostMessage, Holds, Owing, EntriesOf, Entry,
     RecordFailed, Goto, RecordAttempt, redis, client, env
<1>20. ASSUME NEW w \in Workers, RetryRead(w) PROVE NoLostMessage'
  BY <1>20
  DEF TypeInv, TypeOK, LossInv, ClientInv, HandInv, NoLostMessage, Holds, Owing, EntriesOf, Entry,
     RetryRead, Goto, redis, mysql, client, env
<1>21. ASSUME NEW w \in Workers, RetryRemove(w) PROVE NoLostMessage'
  BY <1>21
  DEF TypeInv, TypeOK, LossInv, ClientInv, HandInv, NoLostMessage, Holds, Owing, EntriesOf, Entry,
     RetryRemove, Goto, mysql, client, env
<1>22. ASSUME NEW w \in Workers, RetryAdd(w) PROVE NoLostMessage'
  <2>1. PICK e \in hand[w] : queue' = queue \cup {RetryEntry(e)}
    BY <1>22 DEF RetryAdd
  <2>2. SUFFICES ASSUME NEW m \in acked', faults' = 0, crashes' = 0, status'[m] = "pending"
                 PROVE  \/ EntriesOf(queue', m) # {}
                        \/ \E v \in Workers : EntriesOf(hand'[v], m) # {} /\ pc'[v] \in Owing
    BY DEF NoLostMessage, Holds, EntriesOf
  <2>3. CASE m = e.messageId
    <3>1. RetryEntry(e) \in EntriesOf(queue', m)
      BY <2>1, <2>3 DEF EntriesOf, RetryEntry
    <3>. QED
      BY <3>1
  <2>4. CASE m # e.messageId
    <3>1. EntriesOf(hand[w], m) = {}
      BY <2>4 DEF TypeInv, ScopeInv, EntriesOf
    <3>2. \/ EntriesOf(queue, m) # {}
          \/ \E v \in Workers \ {w} : EntriesOf(hand[v], m) # {} /\ pc[v] \in Owing
      BY <1>22, <2>2, <3>1 DEF LossInv, NoLostMessage, Holds, RetryAdd, mysql, client, env
    <3>. QED
      BY <1>22, <2>1, <3>2 DEF TypeInv, TypeOK, RetryAdd, Goto, EntriesOf
  <2>. QED
    BY <2>3, <2>4
<1>23. ASSUME NEW w \in Workers, RetryRecord(w) PROVE NoLostMessage'
  BY <1>23
  DEF TypeInv, TypeOK, LossInv, ClientInv, HandInv, NoLostMessage, Holds, Owing, EntriesOf, Entry,
     RetryRecord, Return, RecordAttempt, redis, client, env
<1>24. ASSUME NEW w \in Workers, MarkRead(w) PROVE NoLostMessage'
  BY <1>24
  DEF TypeInv, TypeOK, LossInv, ClientInv, HandInv, NoLostMessage, Holds, Owing, EntriesOf, Entry,
     MarkRead, Goto, Return, redis, mysql, client, env
<1>25. ASSUME NEW w \in Workers, MarkRemove(w) PROVE NoLostMessage'
  BY <1>25
  DEF TypeInv, TypeOK, LossInv, ClientInv, HandInv, NoLostMessage, Holds, Owing, EntriesOf, Entry,
     MarkRemove, Return, mysql, client, env
<1>26. ASSUME NEW w \in Workers, SendAnswerLost(w) PROVE NoLostMessage'
  BY <1>26
  DEF TypeInv, TypeOK, LossInv, ClientInv, HandInv, NoLostMessage, Holds, Owing, EntriesOf, Entry,
     SendAnswerLost, Caught, Goto, redis, mysql, client
<1>27. ASSUME NEW w \in Workers, WorkerFault(w) PROVE NoLostMessage'
  BY <1>27
  DEF TypeInv, TypeOK, LossInv, ClientInv, HandInv, NoLostMessage, Holds, Owing, EntriesOf, Entry,
     WorkerFault, Return, Caught, Goto, redis, mysql, client
<1>28. CASE AdvanceClock
  BY <1>28
  DEF TypeInv, TypeOK, LossInv, ClientInv, HandInv, NoLostMessage, Holds, Owing, EntriesOf, Entry,
     AdvanceClock, redis, mysql, client, worker, env
<1>29. CASE ProviderChange
  BY <1>29
  DEF TypeInv, TypeOK, LossInv, ClientInv, HandInv, NoLostMessage, Holds, Owing, EntriesOf, Entry,
     ProviderChange, redis, mysql, client, worker
<1>30. CASE Restart
  BY <1>30
  DEF TypeInv, TypeOK, LossInv, ClientInv, HandInv, NoLostMessage, Holds, Owing, EntriesOf, Entry,
     Restart, redis, mysql
<1>31. CASE UNCHANGED vars
  BY <1>31 DEF LossInv, NoLostMessage, Holds, EntriesOf, vars, redis, mysql, client, worker, env
<1>. QED
  BY <1>1, <1>2, <1>3, <1>4, <1>5, <1>6, <1>7, <1>8, <1>9, <1>10, <1>11, <1>12, <1>13, <1>14,
     <1>15, <1>16, <1>17, <1>18, <1>19, <1>20, <1>21, <1>22, <1>23, <1>24, <1>25, <1>26, <1>27,
     <1>28, <1>29, <1>30, <1>31
  DEF Next, SenderNext, CancelNext, RemoveMessage, WorkerNext, WorkerStep

\* While no call fails and the process does not exit, an acknowledged message
\* that is still pending is in the queue or with an invocation that will settle
\* or requeue it, for any number of overlapping invocations and cancellations.
THEOREM NothingLost == Spec => []NoLostMessage
<1>1. Init => LossInv
  BY LossInit
<1>2. TypeInv /\ LossInv /\ [Next]_vars => LossInv'
  BY ClientNext, HandNext, LossNext DEF LossInv
<1>3. LossInv => NoLostMessage
  BY DEF LossInv
<1>. QED
  BY <1>1, <1>2, <1>3, TypeInvariant, PTL DEF Spec

-----------------------------------------------------------------------------
(* One send per message when invocations do not overlap *)

\* Every invocation ends before the next one starts.
Serial == \A v, w \in Workers : v = w

\* An entry has left the queue before its message is looked up, so a message
\* has one copy to work on, and none once WhatsApp took it.  A message that is
\* not queued yet has none either.
OnceInv ==
    faults = 0 =>
        \A m \in Msgs :
            /\ accepted[m] <= 1
            /\ Copies(m) # {} => accepted[m] = 0
            /\ \A e, f \in Copies(m) : e = f
            /\ \A w \in Workers :
                  pc[w] \in Owing \ {"claim", "unqueue"} /\ EntriesOf(hand[w], m) # {} =>
                      EntriesOf(queue, m) = {}
            /\ sender[m] \in {"idle", "enqueue"} =>
                  /\ accepted[m] = 0
                  /\ EntriesOf(queue, m) = {}
                  /\ \A w \in Workers : EntriesOf(hand[w], m) = {}

\* There is no copy of any message yet.
LEMMA OnceInit == Init => OnceInv
  BY DEF Init, OnceInv, Copies, EntriesOf

\* Every step of a single invocation, and of the clients, keeps the copies of a message unique.
LEMMA OnceNext == Serial /\ TypeInv /\ OnceInv /\ [Next]_vars => OnceInv'
<1>. SUFFICES ASSUME Serial, TypeInv, OnceInv, [Next]_vars PROVE OnceInv'
  OBVIOUS
<1>1. ASSUME NEW m \in Msgs, CreateMessage(m) PROVE OnceInv'
  BY <1>1
  DEF Serial, TypeInv, TypeOK, ScopeInv, OnceInv, Copies, Owing, EntriesOf, Entry, CreateMessage,
     redis, worker, env
<1>2. ASSUME NEW m \in Msgs, EnqueueMessage(m) PROVE OnceInv'
  BY <1>2
  DEF Serial, TypeInv, TypeOK, ScopeInv, OnceInv, Copies, Owing, EntriesOf, Entry, EnqueueMessage,
     mysql, worker, env
<1>3. ASSUME NEW m \in Msgs, EnqueueFault(m) PROVE OnceInv'
  BY <1>3
  DEF Serial, TypeInv, TypeOK, ScopeInv, OnceInv, Copies, Owing, EntriesOf, Entry, EnqueueFault,
     redis, mysql, worker
<1>4. ASSUME NEW m \in Msgs, CancelInDatabase(m) PROVE OnceInv'
  BY <1>4
  DEF Serial, TypeInv, TypeOK, ScopeInv, OnceInv, Copies, Owing, EntriesOf, Entry,
     CancelInDatabase, redis, worker, env
<1>5. ASSUME NEW m \in Msgs, RemoveReadQueue(m) PROVE OnceInv'
  BY <1>5
  DEF Serial, TypeInv, TypeOK, ScopeInv, OnceInv, Copies, Owing, EntriesOf, Entry,
     RemoveReadQueue, Earliest, redis, mysql, worker, env
<1>6. ASSUME NEW m \in Msgs, RemoveFromQueue(m) PROVE OnceInv'
  BY <1>6
  DEF Serial, TypeInv, TypeOK, ScopeInv, OnceInv, Copies, Owing, EntriesOf, Entry,
     RemoveFromQueue, mysql, worker, env
<1>7. ASSUME NEW m \in Msgs, RemoveReadProcessing(m) PROVE OnceInv'
  BY <1>7
  DEF Serial, TypeInv, TypeOK, ScopeInv, OnceInv, Copies, Owing, EntriesOf, Entry,
     RemoveReadProcessing, redis, mysql, worker, env
<1>8. ASSUME NEW m \in Msgs, RemoveFromProcessing(m) PROVE OnceInv'
  BY <1>8
  DEF Serial, TypeInv, TypeOK, ScopeInv, OnceInv, Copies, Owing, EntriesOf, Entry,
     RemoveFromProcessing, mysql, worker, env
<1>9. ASSUME NEW m \in Msgs, CancelFault(m) PROVE OnceInv'
  BY <1>9
  DEF Serial, TypeInv, TypeOK, ScopeInv, OnceInv, Copies, Owing, EntriesOf, Entry, CancelFault,
     redis, mysql, worker
<1>10. ASSUME NEW w \in Workers, Poll(w) PROVE OnceInv'
  BY <1>10
  DEF Serial, TypeInv, TypeOK, ScopeInv, OnceInv, Copies, Owing, EntriesOf, Entry, Poll, Goto,
     Earliest, Due, redis, mysql, client, env
<1>11. ASSUME NEW w \in Workers, Claim(w) PROVE OnceInv'
  BY <1>11
  DEF Serial, TypeInv, TypeOK, ScopeInv, OnceInv, Copies, Owing, EntriesOf, Entry, Claim, Goto,
     mysql, client, env
<1>12. ASSUME NEW w \in Workers, Unqueue(w) PROVE OnceInv'
  BY <1>12
  DEF Serial, TypeInv, TypeOK, ScopeInv, OnceInv, Copies, Owing, EntriesOf, Entry, Unqueue, Goto,
     mysql, client, env
<1>13. ASSUME NEW w \in Workers, Lookup(w) PROVE OnceInv'
  BY <1>13
  DEF Serial, TypeInv, TypeOK, ScopeInv, OnceInv, Copies, Owing, EntriesOf, Entry, Lookup, Goto,
     Exhausted, redis, mysql, client, env
<1>14. ASSUME NEW w \in Workers, SendAccepted(w) PROVE OnceInv'
  BY <1>14
  DEF Serial, TypeInv, TypeOK, ScopeInv, OnceInv, Copies, Owing, EntriesOf, Entry, SendAccepted,
     Goto, redis, mysql, client, env
<1>15. ASSUME NEW w \in Workers, SendRejected(w) PROVE OnceInv'
  <2>1. PICK step \in {"retry_read", "fail_status"} : Goto(w, step)
    BY <1>15 DEF SendRejected, Caught
  <2>2. /\ pc[w] = "send" /\ hand' = hand
        /\ UNCHANGED << queue, sender, faults, accepted >>
    BY <1>15 DEF SendRejected, Caught, redis, client, env
  <2>. QED
    BY <2>1, <2>2 DEF TypeInv, TypeOK, OnceInv, Copies, Owing, EntriesOf, Goto
<1>16. ASSUME NEW w \in Workers, UpdateSent(w) PROVE OnceInv'
  BY <1>16
  DEF Serial, TypeInv, TypeOK, ScopeInv, OnceInv, Copies, Owing, EntriesOf, Entry, UpdateSent,
     Goto, redis, client, env
<1>17. ASSUME NEW w \in Workers, RecordSent(w) PROVE OnceInv'
  BY <1>17
  DEF Serial, TypeInv, TypeOK, ScopeInv, OnceInv, Copies, Owing, EntriesOf, Entry, RecordSent,
     Goto, RecordAttempt, redis, client, env
<1>18. ASSUME NEW w \in Workers, UpdateFailed(w) PROVE OnceInv'
  BY <1>18
  DEF Serial, TypeInv, TypeOK, ScopeInv, OnceInv, Copies, Owing, EntriesOf, Entry, UpdateFailed,
     Goto, redis, client, env
<1>19. ASSUME NEW w \in Workers, RecordFailed(w) PROVE OnceInv'
  BY <1>19
  DEF Serial, TypeInv, TypeOK, ScopeInv, OnceInv, Copies, Owing, EntriesOf, Entry, RecordFailed,
     Goto, RecordAttempt, redis, client, env
<1>20. ASSUME NEW w \in Workers, RetryRead(w) PROVE OnceInv'
  BY <1>20
  DEF Serial, TypeInv, TypeOK, ScopeInv, OnceInv, Copies, Owing, EntriesOf, Entry, RetryRead,
     Goto, redis, mysql, client, env
<1>21. ASSUME NEW w \in Workers, RetryRemove(w) PROVE OnceInv'
  BY <1>21
  DEF Serial, TypeInv, TypeOK, ScopeInv, OnceInv, Copies, Owing, EntriesOf, Entry, RetryRemove,
     Goto, mysql, client, env
<1>22. ASSUME NEW w \in Workers, RetryAdd(w) PROVE OnceInv'
  <2>1. PICK e \in hand[w] : queue' = queue \cup {RetryEntry(e)}
    BY <1>22 DEF RetryAdd
  <2>2. /\ pc[w] = "retry_add" /\ hand' = hand /\ pc' = [pc EXCEPT ![w] = "retry_record"]
        /\ UNCHANGED << sender, faults, accepted >>
    BY <1>22 DEF RetryAdd, Goto, client, env
  <2>3. e.messageId \in Msgs /\ RetryEntry(e).messageId = e.messageId
    BY DEF TypeInv, TypeOK, Entry, RetryEntry
  <2>4. SUFFICES ASSUME faults = 0, NEW m \in Msgs
                 PROVE  /\ accepted[m] <= 1
                        /\ Copies(m)' # {} => accepted[m] = 0
                        /\ \A f, g \in Copies(m)' : f = g
                        /\ EntriesOf(hand[w], m) # {} => sender[m] \notin {"idle", "enqueue"}
                        /\ sender[m] \in {"idle", "enqueue"} =>
                              accepted[m] = 0 /\ EntriesOf(queue', m) = {}
    BY <2>2 DEF OnceInv, Serial, TypeInv, TypeOK, Owing, EntriesOf
  <2>5. Copies(m)' = EntriesOf(queue', m)
    BY <2>2 DEF Copies, Owing, Serial, TypeInv, TypeOK, EntriesOf
  <2>6. CASE m = e.messageId
    <3>1. e \in EntriesOf(hand[w], m)
      BY <2>6 DEF EntriesOf
    <3>2. EntriesOf(queue, m) = {} /\ sender[m] \notin {"idle", "enqueue"}
      BY <2>2, <2>4, <3>1 DEF OnceInv, Owing
    <3>3. e \in Copies(m)
      BY <2>2, <3>1 DEF Copies, Owing
    <3>4. EntriesOf(queue', m) = {RetryEntry(e)}
      BY <2>1, <2>3, <2>6, <3>2 DEF EntriesOf
    <3>. QED
      BY <2>4, <2>5, <3>2, <3>3, <3>4 DEF OnceInv
  <2>7. CASE m # e.messageId
    <3>1. EntriesOf(queue', m) = EntriesOf(queue, m)
      BY <2>1, <2>3, <2>7 DEF EntriesOf
    <3>2. EntriesOf(queue, m) \subseteq Copies(m)
      BY DEF Copies
    <3>3. EntriesOf(hand[w], m) = {}
      BY <2>7 DEF EntriesOf, TypeInv, ScopeInv
    <3>. QED
      BY <2>4, <2>5, <3>1, <3>2, <3>3 DEF OnceInv
  <2>. QED
    BY <2>6, <2>7
<1>23. ASSUME NEW w \in Workers, RetryRecord(w) PROVE OnceInv'
  BY <1>23
  DEF Serial, TypeInv, TypeOK, ScopeInv, OnceInv, Copies, Owing, EntriesOf, Entry, RetryRecord,
     Return, RecordAttempt, redis, client, env
<1>24. ASSUME NEW w \in Workers, MarkRead(w) PROVE OnceInv'
  BY <1>24
  DEF Serial, TypeInv, TypeOK, ScopeInv, OnceInv, Copies, Owing, EntriesOf, Entry, MarkRead, Goto,
     Return, redis, mysql, client, env
<1>25. ASSUME NEW w \in Workers, MarkRemove(w) PROVE OnceInv'
  BY <1>25
  DEF Serial, TypeInv, TypeOK, ScopeInv, OnceInv, Copies, Owing, EntriesOf, Entry, MarkRemove,
     Return, mysql, client, env
<1>26. ASSUME NEW w \in Workers, SendAnswerLost(w) PROVE OnceInv'
  BY <1>26
  DEF Serial, TypeInv, TypeOK, ScopeInv, OnceInv, Copies, Owing, EntriesOf, Entry, SendAnswerLost,
     Caught, Goto, redis, mysql, client
<1>27. ASSUME NEW w \in Workers, WorkerFault(w) PROVE OnceInv'
  BY <1>27
  DEF Serial, TypeInv, TypeOK, ScopeInv, OnceInv, Copies, Owing, EntriesOf, Entry, WorkerFault,
     Return, Caught, Goto, redis, mysql, client
<1>28. CASE AdvanceClock
  BY <1>28
  DEF Serial, TypeInv, TypeOK, ScopeInv, OnceInv, Copies, Owing, EntriesOf, Entry, AdvanceClock,
     redis, mysql, client, worker, env
<1>29. CASE ProviderChange
  BY <1>29
  DEF Serial, TypeInv, TypeOK, ScopeInv, OnceInv, Copies, Owing, EntriesOf, Entry, ProviderChange,
     redis, mysql, client, worker
<1>30. CASE Restart
  BY <1>30
  DEF Serial, TypeInv, TypeOK, ScopeInv, OnceInv, Copies, Owing, EntriesOf, Entry, Restart, redis,
     mysql
<1>31. CASE UNCHANGED vars
  BY <1>31 DEF OnceInv, Copies, EntriesOf, vars, redis, mysql, client, worker, env
<1>. QED
  BY <1>1, <1>2, <1>3, <1>4, <1>5, <1>6, <1>7, <1>8, <1>9, <1>10, <1>11, <1>12, <1>13, <1>14,
     <1>15, <1>16, <1>17, <1>18, <1>19, <1>20, <1>21, <1>22, <1>23, <1>24, <1>25, <1>26, <1>27,
     <1>28, <1>29, <1>30, <1>31
  DEF Next, SenderNext, CancelNext, RemoveMessage, WorkerNext, WorkerStep

\* A step of the queue leaves a "sent" row alone, given that a sent message was
\* accepted and that an accepted one has no copy left to fail.
LEMMA SentStep ==
    TypeInv /\ SentInv /\ OnceInv /\ [Next]_vars =>
        (faults' = 0 => \A m \in Msgs : status[m] = "sent" => status'[m] = "sent")
<1>. SUFFICES ASSUME TypeInv, SentInv, OnceInv, [Next]_vars, faults' = 0,
                     NEW m \in Msgs, status[m] = "sent"
              PROVE  status'[m] = "sent"
  OBVIOUS
<1>1. accepted[m] > 0
  BY DEF SentInv, SentWasAccepted
<1>2. faults = 0 => Copies(m) = {} /\ sender[m] \notin {"idle", "enqueue"}
  BY <1>1 DEF TypeInv, TypeOK, OnceInv
<1>3. ASSUME NEW n \in Msgs, CreateMessage(n) PROVE status'[m] = "sent"
  BY <1>2, <1>3 DEF CreateMessage, env, TypeInv, TypeOK
<1>4. ASSUME NEW n \in Msgs, CancelInDatabase(n) PROVE status'[m] = "sent"
  BY <1>4 DEF CancelInDatabase, TypeInv, TypeOK
<1>5. ASSUME NEW w \in Workers, UpdateSent(w) PROVE status'[m] = "sent"
  BY <1>5 DEF UpdateSent, TypeInv, TypeOK
<1>6. ASSUME NEW w \in Workers, UpdateFailed(w) PROVE status'[m] = "sent"
  <2>1. PICK e \in hand[w] : status' = [status EXCEPT ![e.messageId] = "failed"]
    BY <1>6 DEF UpdateFailed
  <2>2. faults = 0 /\ pc[w] = "fail_status"
    BY <1>6 DEF UpdateFailed, env
  <2>3. e.messageId # m
    BY <1>2, <2>2 DEF Copies, Owing, EntriesOf
  <2>. QED
    BY <2>1, <2>3 DEF TypeInv, TypeOK
<1>7. CASE UNCHANGED status
  BY <1>7
<1>. QED
  BY <1>3, <1>4, <1>5, <1>6, <1>7
  DEF Next, SenderNext, CancelNext, RemoveMessage, WorkerNext, WorkerStep, vars, mysql,
     EnqueueMessage, EnqueueFault, RemoveReadQueue, RemoveFromQueue, RemoveReadProcessing,
     RemoveFromProcessing,
      CancelFault, Poll, Claim, Unqueue, Lookup, SendAccepted,
      SendRejected, RecordSent, RecordFailed, RetryRead, RetryRemove, RetryAdd,
      RetryRecord, MarkRead, MarkRemove, SendAnswerLost, WorkerFault, AdvanceClock,
      ProviderChange, Restart

\* When invocations do not overlap and no call fails, a message reported as sent
\* stays so: neither a later attempt nor a DELETE changes its row.
THEOREM SentStaysSent == Serial => (Spec => SentIsFinal)
<1>. SUFFICES ASSUME Serial PROVE Spec => SentIsFinal
  OBVIOUS
<1>1. Init => SentInv /\ OnceInv
  BY SentInit, OnceInit
<1>2. TypeInv /\ SentInv /\ OnceInv /\ [Next]_vars => (SentInv /\ OnceInv)'
  BY SentNext, OnceNext
<1>3. TypeInv /\ SentInv /\ OnceInv /\ [Next]_vars =>
         [faults' = 0 => \A m \in Msgs : status[m] = "sent" => status'[m] = "sent"]_vars
  BY SentStep
<1>. QED
  BY <1>1, <1>2, <1>3, TypeInvariant, PTL DEF Spec, SentIsFinal

-----------------------------------------------------------------------------
(* Messages that are not queued yet, and entries that were taken *)

\* Nothing but its row knows a message whose POST has not queued it.
FreshInv ==
    \A m \in Msgs :
        /\ sender[m] = "idle" => status[m] = "none"
        /\ sender[m] = "enqueue" => status[m] = "pending"
        /\ sender[m] # "done" =>
              /\ accepted[m] = 0 /\ attempts[m] = << >> /\ EntriesOf(queue, m) = {}
              /\ \A w \in Workers : EntriesOf(hand[w], m) = {}

\* An entry in hand is of a message that was queued.
LEMMA HandIsQueued ==
    ASSUME TypeInv, FreshInv, NEW w \in Workers, NEW e \in hand[w]
    PROVE  e.messageId \in Msgs /\ sender[e.messageId] = "done"
  BY DEF TypeInv, TypeOK, FreshInv, EntriesOf, Entry

\* No message has been queued.
LEMMA FreshInit == Init => FreshInv
  BY DEF Init, FreshInv, EntriesOf

\* Only the handlers of POST do anything about such a message.
LEMMA FreshNext == TypeInv /\ ClientInv /\ FreshInv /\ [Next]_vars => FreshInv'
<1>. SUFFICES ASSUME TypeInv, ClientInv, FreshInv, [Next]_vars PROVE FreshInv'
  OBVIOUS
<1>1. ASSUME NEW m \in Msgs, CreateMessage(m) PROVE FreshInv'
  BY <1>1 DEF TypeInv, TypeOK, FreshInv, EntriesOf, CreateMessage, redis, worker, env
<1>2. ASSUME NEW m \in Msgs, EnqueueMessage(m) PROVE FreshInv'
  BY <1>2 DEF TypeInv, TypeOK, FreshInv, EntriesOf, EnqueueMessage, mysql, worker, env
<1>3. ASSUME NEW m \in Msgs, EnqueueFault(m) PROVE FreshInv'
  BY <1>3 DEF TypeInv, TypeOK, FreshInv, EntriesOf, EnqueueFault, redis, mysql, worker
<1>4. ASSUME NEW m \in Msgs, CancelInDatabase(m) PROVE FreshInv'
  BY <1>4 DEF TypeInv, TypeOK, ClientInv, FreshInv, EntriesOf, CancelInDatabase, redis, worker, env
<1>5. ASSUME NEW m \in Msgs, RemoveMessage(m) \/ CancelFault(m) PROVE FreshInv'
  <2>1. queue' \subseteq queue /\ UNCHANGED << status, attempts, sender, accepted, hand >>
    BY <1>5 DEF RemoveMessage, RemoveReadQueue, RemoveFromQueue, RemoveReadProcessing,
                RemoveFromProcessing, CancelFault, redis, mysql, worker
  <2>. QED
    BY <2>1 DEF FreshInv, EntriesOf
<1>6. ASSUME NEW w \in Workers, Poll(w) PROVE FreshInv'
  <2>1. PICK e \in queue : hand' = [hand EXCEPT ![w] = {e}]
    BY <1>6 DEF Poll, Earliest, Due
  <2>2. UNCHANGED << queue, status, attempts, sender, accepted >>
    BY <1>6 DEF Poll, redis, mysql, client
  <2>. QED
    BY <2>1, <2>2 DEF TypeInv, TypeOK, FreshInv, EntriesOf
<1>7. ASSUME NEW w \in Workers, Claim(w) \/ Unqueue(w) \/ Lookup(w) \/ SendRejected(w) \/ RetryRead(w) \/ RetryRemove(w)
      PROVE FreshInv'
  <2>1. queue' \subseteq queue /\ UNCHANGED << status, attempts, sender, accepted, hand >>
    BY <1>7 DEF Claim, Unqueue, Lookup, SendRejected, Caught, RetryRead, RetryRemove, redis, mysql, client
  <2>. QED
    BY <2>1 DEF FreshInv, EntriesOf
<1>8. ASSUME NEW w \in Workers, SendAccepted(w) \/ SendAnswerLost(w) PROVE FreshInv'
  <2>1. PICK e \in hand[w] : accepted' = [accepted EXCEPT ![e.messageId] = @ + 1]
    BY <1>8 DEF SendAccepted, SendAnswerLost
  <2>2. UNCHANGED << queue, status, attempts, sender, hand >>
    BY <1>8 DEF SendAccepted, SendAnswerLost, Caught, redis, mysql, client
  <2>. QED
    BY <2>1, <2>2, HandIsQueued DEF TypeInv, TypeOK, FreshInv
<1>9. ASSUME NEW w \in Workers, UpdateSent(w) \/ UpdateFailed(w) PROVE FreshInv'
  <2>1. PICK e \in hand[w], s \in Status : status' = [status EXCEPT ![e.messageId] = s]
    BY <1>9 DEF UpdateSent, UpdateFailed, Status
  <2>2. UNCHANGED << queue, attempts, sender, accepted, hand >>
    BY <1>9 DEF UpdateSent, UpdateFailed, redis, client
  <2>. QED
    BY <2>1, <2>2, HandIsQueued DEF TypeInv, TypeOK, FreshInv
<1>10. ASSUME NEW w \in Workers, RecordSent(w) \/ RecordFailed(w) \/ RetryRecord(w) PROVE FreshInv'
  <2>1. PICK e \in hand[w] : \E outcome : RecordAttempt(e, outcome)
    BY <1>10 DEF RecordSent, RecordFailed, RetryRecord
  <2>2. \A m \in Msgs : m # e.messageId => attempts'[m] = attempts[m]
    BY <2>1 DEF RecordAttempt, TypeInv, TypeOK
  <2>3. /\ UNCHANGED << queue, status, sender, accepted >>
        /\ \A v \in Workers : hand'[v] \subseteq hand[v]
    BY <1>10 DEF RecordSent, RecordFailed, RetryRecord, Return, redis, client, TypeInv, TypeOK
  <2>. QED
    BY <2>2, <2>3, HandIsQueued DEF FreshInv, EntriesOf
<1>11. ASSUME NEW w \in Workers, RetryAdd(w) PROVE FreshInv'
  <2>1. PICK e \in hand[w] : queue' = queue \cup {RetryEntry(e)}
    BY <1>11 DEF RetryAdd
  <2>2. UNCHANGED << status, attempts, sender, accepted, hand >>
    BY <1>11 DEF RetryAdd, mysql, client
  <2>. QED
    BY <2>1, <2>2, HandIsQueued DEF FreshInv, EntriesOf, RetryEntry
<1>12. ASSUME NEW w \in Workers, MarkRead(w) \/ MarkRemove(w) \/ WorkerFault(w) PROVE FreshInv'
  <2>1. /\ UNCHANGED << queue, status, attempts, sender, accepted >>
        /\ \A v \in Workers : hand'[v] \subseteq hand[v]
    BY <1>12 DEF MarkRead, MarkRemove, WorkerFault, Caught, Return, redis, mysql, client, TypeInv, TypeOK
  <2>. QED
    BY <2>1 DEF FreshInv, EntriesOf
<1>13. CASE AdvanceClock \/ ProviderChange \/ UNCHANGED vars
  <2>1. UNCHANGED << queue, status, attempts, sender, accepted, hand >>
    BY <1>13 DEF AdvanceClock, ProviderChange, vars, redis, mysql, client, worker
  <2>. QED
    BY <2>1 DEF FreshInv
<1>14. CASE Restart
  <2>1. /\ UNCHANGED << queue, status, attempts, accepted >>
        /\ \A w \in Workers : hand'[w] = {}
        /\ \A m \in Msgs : sender'[m] = IF sender[m] = "enqueue" THEN "done" ELSE sender[m]
    BY <1>14 DEF Restart, redis, mysql
  <2>. QED
    BY <2>1 DEF FreshInv, EntriesOf
<1>. QED
  BY <1>1, <1>2, <1>3, <1>4, <1>5, <1>6, <1>7, <1>8, <1>9, <1>10, <1>11, <1>12, <1>13, <1>14
  DEF Next, SenderNext, CancelNext, WorkerNext, WorkerStep

\* When invocations do not overlap, an entry that left the queue does not come
\* back while an invocation works on it, and the queue is finite.
TakenInv ==
    /\ IsFiniteSet(queue)
    /\ \A w \in Workers :
          /\ pc[w] \in {"claim", "unqueue"} => scope[w] = "outer"
          /\ pc[w] \notin {"idle", "claim", "unqueue"} => hand[w] \cap queue = {}

\* No invocation has an entry.
LEMMA TakenInit == Init => TakenInv
  BY FS_EmptySet DEF Init, TakenInv

\* A retry has another attempt number, and a message is queued by its POST once.
LEMMA TakenNext == Serial /\ TypeInv /\ FreshInv /\ TakenInv /\ [Next]_vars => TakenInv'
<1>. SUFFICES ASSUME Serial, TypeInv, FreshInv, TakenInv, [Next]_vars PROVE TakenInv'
  OBVIOUS
<1>1. ASSUME NEW m \in Msgs, CreateMessage(m) \/ EnqueueFault(m) \/ CancelInDatabase(m) \/ CancelFault(m)
      PROVE  TakenInv'
  BY <1>1 DEF TakenInv, CreateMessage, EnqueueFault, CancelInDatabase, CancelFault, redis, worker
<1>2. ASSUME NEW m \in Msgs, EnqueueMessage(m) PROVE TakenInv'
  <2>. DEFINE e == [messageId |-> m, attemptNumber |-> 1, nextRetryAt |-> now]
  <2>1. queue' = queue \cup {e} /\ e.messageId = m /\ UNCHANGED << pc, scope, hand >>
    BY <1>2 DEF EnqueueMessage, worker
  <2>. HIDE DEF e
  <2>2. \A w \in Workers : e \notin hand[w]
    BY <1>2, <2>1, HandIsQueued DEF EnqueueMessage
  <2>3. IsFiniteSet(queue')
    BY <2>1, FS_AddElement DEF TakenInv
  <2>. QED
    BY <2>1, <2>2, <2>3 DEF TakenInv
<1>3. ASSUME NEW m \in Msgs, RemoveMessage(m) PROVE TakenInv'
  <2>1. queue' \subseteq queue /\ UNCHANGED << pc, scope, hand >>
    BY <1>3 DEF RemoveMessage, RemoveReadQueue, RemoveFromQueue, RemoveReadProcessing,
                RemoveFromProcessing, redis, worker
  <2>2. IsFiniteSet(queue')
    BY <2>1, FS_Subset DEF TakenInv
  <2>. QED
    BY <2>1, <2>2 DEF TakenInv
<1>4. ASSUME NEW w \in Workers, Poll(w) \/ Claim(w) PROVE TakenInv'
  <2>1. /\ UNCHANGED << queue, scope >>
        /\ pc'[w] \in {"claim", "unqueue"} /\ scope[w] = "outer"
    BY <1>4 DEF Poll, Claim, Goto, redis, TypeInv, TypeOK, ScopeInv, TakenInv
  <2>. QED
    BY <2>1 DEF Serial, TakenInv
<1>5. ASSUME NEW w \in Workers, Unqueue(w) PROVE TakenInv'
  <2>1. queue' = queue \ hand[w] /\ UNCHANGED << hand, scope >> /\ pc'[w] = "lookup"
    BY <1>5 DEF Unqueue, Goto, TypeInv, TypeOK
  <2>2. IsFiniteSet(queue')
    BY <2>1, FS_Subset DEF TakenInv
  <2>. QED
    BY <2>1, <2>2 DEF Serial, TakenInv
<1>6. ASSUME NEW w \in Workers,
             \/ Lookup(w) \/ SendAccepted(w) \/ UpdateSent(w) \/ RecordSent(w) \/ UpdateFailed(w)
             \/ RecordFailed(w) \/ RetryRead(w) \/ RetryRemove(w)
      PROVE  TakenInv'
  <2>1. /\ UNCHANGED << queue, hand >>
        /\ pc[w] \notin {"idle", "claim", "unqueue"} /\ pc'[w] \notin {"claim", "unqueue"}
    BY <1>6 DEF Lookup, SendAccepted, UpdateSent, RecordSent, UpdateFailed, RecordFailed, RetryRead,
                RetryRemove, Goto, redis, TypeInv, TypeOK
  <2>. QED
    BY <2>1 DEF Serial, TakenInv
<1>7. ASSUME NEW w \in Workers, RetryAdd(w) PROVE TakenInv'
  <2>1. PICK e \in hand[w] : queue' = queue \cup {RetryEntry(e)}
    BY <1>7 DEF RetryAdd
  <2>2. pc[w] = "retry_add" /\ pc'[w] = "retry_record" /\ UNCHANGED hand
    BY <1>7 DEF RetryAdd, Goto, TypeInv, TypeOK
  <2>3. RetryEntry(e) \notin hand[w]
    <3>1. e.attemptNumber \in Nat /\ hand[w] = {e}
      BY ConstantsAssumption DEF TypeInv, TypeOK, ScopeInv, Entry, AttemptNumber
    <3>2. RetryEntry(e).attemptNumber # e.attemptNumber
      BY <3>1 DEF RetryEntry
    <3>. QED
      BY <3>1, <3>2
  <2>4. IsFiniteSet(queue')
    BY <2>1, FS_AddElement DEF TakenInv
  <2>. QED
    BY <2>1, <2>2, <2>3, <2>4 DEF Serial, TakenInv
<1>8. ASSUME NEW w \in Workers, Return(w), UNCHANGED queue PROVE TakenInv'
  <2>1. pc'[w] = "idle"
    BY <1>8 DEF Return, TypeInv, TypeOK
  <2>. QED
    BY <1>8, <2>1 DEF Serial, TakenInv
<1>9. ASSUME NEW w \in Workers, NEW retryable, Caught(w, retryable), UNCHANGED queue,
             pc[w] \notin {"idle", "claim", "unqueue"}
      PROVE  TakenInv'
  <2>1. pc'[w] \in {"retry_read", "fail_status"} /\ UNCHANGED hand
    BY <1>9 DEF Caught, Goto, TypeInv, TypeOK
  <2>. QED
    BY <1>9, <2>1 DEF Serial, TakenInv
<1>10. ASSUME NEW w \in Workers, RetryRecord(w) \/ MarkRemove(w) PROVE TakenInv'
  BY <1>8, <1>10 DEF RetryRecord, MarkRemove, redis
<1>11. ASSUME NEW w \in Workers, MarkRead(w) PROVE TakenInv'
  <2>1. CASE Return(w)
    BY <1>8, <1>11, <2>1 DEF MarkRead, redis
  <2>2. CASE Goto(w, "mark_rem") /\ UNCHANGED << hand, scope >>
    <3>1. pc[w] = "mark_read" /\ pc'[w] = "mark_rem" /\ UNCHANGED << queue, hand >>
      BY <1>11, <2>2 DEF MarkRead, Goto, redis, TypeInv, TypeOK
    <3>. QED
      BY <3>1 DEF Serial, TakenInv
  <2>. QED
    BY <1>11, <2>1, <2>2 DEF MarkRead
<1>12. ASSUME NEW w \in Workers, SendRejected(w) \/ SendAnswerLost(w) PROVE TakenInv'
  <2>1. PICK retryable : Caught(w, retryable)
    BY <1>12 DEF SendRejected, SendAnswerLost
  <2>2. pc[w] = "send" /\ UNCHANGED queue
    BY <1>12 DEF SendRejected, SendAnswerLost, redis
  <2>. QED
    BY <1>9, <2>1, <2>2
<1>13. ASSUME NEW w \in Workers, WorkerFault(w) PROVE TakenInv'
  <2>1. UNCHANGED queue /\ pc[w] # "idle"
    BY <1>13 DEF WorkerFault, redis
  <2>2. CASE scope[w] = "try" /\ Caught(w, TRUE)
    <3>1. pc[w] \notin {"claim", "unqueue"}
      BY <2>2 DEF TakenInv
    <3>. QED
      BY <1>9, <2>1, <2>2, <3>1
  <2>. QED
    BY <1>8, <1>13, <2>1, <2>2 DEF WorkerFault
<1>14. CASE AdvanceClock \/ ProviderChange \/ UNCHANGED vars
  BY <1>14 DEF TakenInv, AdvanceClock, ProviderChange, vars, redis, worker
<1>15. CASE Restart
  BY <1>15 DEF TakenInv, Restart, redis
<1>. QED
  BY <1>1, <1>2, <1>3, <1>4, <1>5, <1>6, <1>7, <1>10, <1>11, <1>12, <1>13, <1>14, <1>15
  DEF Next, SenderNext, CancelNext, WorkerNext, WorkerStep

-----------------------------------------------------------------------------
(* Every further send was paid for by a failed call *)

\* How often WhatsApp has taken m, or may still take it.
Load(m) == accepted[m] + Cardinality(Copies(m))

\* The steps at which what is in hand counts as a copy.
Sendable == Owing \ {"sent_status"}

\* The copies of a message, for a single invocation.
LEMMA SerialCopies ==
    ASSUME Serial, NEW w \in Workers, NEW m
    PROVE  /\ Copies(m) = EntriesOf(queue, m) \cup {e \in EntriesOf(hand[w], m) : pc[w] \in Sendable}
           /\ Copies(m)' = EntriesOf(queue', m) \cup {e \in EntriesOf(hand'[w], m) : pc'[w] \in Sendable}
<1>1. Workers = {w}
  BY DEF Serial
<1>. QED
  BY <1>1 DEF Copies, Sendable

\* A message has finitely many copies.
LEMMA CopiesAreFinite ==
    ASSUME Serial, TypeInv, IsFiniteSet(queue), NEW m \in Msgs
    PROVE  IsFiniteSet(Copies(m)) /\ Cardinality(Copies(m)) \in Nat
<1>1. IsFiniteSet(EntriesOf(queue, m))
  BY FS_Subset DEF EntriesOf
<1>2. IsFiniteSet(Copies(m))
  <2>1. CASE Workers = {}
    BY <1>1, <2>1 DEF Copies
  <2>2. ASSUME NEW w \in Workers PROVE IsFiniteSet(Copies(m))
    <3>. DEFINE held == {e \in EntriesOf(hand[w], m) : pc[w] \in Sendable}
    <3>1. \A e, f \in held : e = f
      BY DEF EntriesOf, TypeInv, ScopeInv
    <3>2. Copies(m) = EntriesOf(queue, m) \cup held
      BY SerialCopies
    <3>. HIDE DEF held
    <3>3. held = {} \/ \E e \in held : held = {e}
      BY <3>1
    <3>4. IsFiniteSet(held)
      BY <3>3, FS_EmptySet, FS_Singleton
    <3>. QED
      BY <1>1, <3>2, <3>4, FS_Union
  <2>. QED
    BY <2>1, <2>2
<1>. QED
  BY <1>2, FS_CardinalityType

\* What a step can do to the copies of m: leave or remove them, queue the
\* first, send one, replace one by a retry, or fail after a send.
CopyStep(m) ==
    \/ accepted'[m] = accepted[m] /\ Copies(m)' \subseteq Copies(m) /\ faults' >= faults
    \/ /\ sender[m] = "enqueue" /\ accepted'[m] = accepted[m] /\ faults' = faults
       /\ \E e : Copies(m)' \subseteq {e}
    \/ /\ accepted'[m] = accepted[m] + 1 /\ faults' = faults
       /\ \E e \in Copies(m) : Copies(m)' \subseteq Copies(m) \ {e}
    \/ /\ accepted'[m] = accepted[m] /\ faults' = faults
       /\ \E e \in Copies(m) : \E f : Copies(m)' \subseteq (Copies(m) \ {e}) \cup {f}
    \/ /\ accepted'[m] = accepted[m] + 1 /\ faults' = faults + 1
       /\ Copies(m)' \subseteq Copies(m)
    \/ /\ accepted'[m] = accepted[m] /\ faults' = faults + 1
       /\ \E e : Copies(m)' \subseteq Copies(m) \cup {e}

\* The steps that leave the copies of every message alone, or remove some.
LEMMA CopiesShrink ==
    ASSUME TypeInv, NEW m \in Msgs, queue' \subseteq queue, UNCHANGED << pc, hand, accepted >>,
           faults' \in {faults, faults + 1}
    PROVE  CopyStep(m)
<1>1. Copies(m)' \subseteq Copies(m)
  BY DEF Copies, EntriesOf
<1>. QED
  BY <1>1 DEF CopyStep, TypeInv, TypeOK

\* An invocation that goes on without a send, or returns.
LEMMA CopiesGoOn ==
    ASSUME Serial, TypeInv, NEW w \in Workers, NEW m \in Msgs,
           UNCHANGED << queue, accepted, faults >>, hand'[w] \subseteq hand[w],
           pc'[w] \in Sendable => pc[w] \in Sendable
    PROVE  CopyStep(m)
<1>1. Copies(m)' \subseteq Copies(m)
  BY SerialCopies DEF EntriesOf
<1>. QED
  BY <1>1 DEF CopyStep, TypeInv, TypeOK

\* The handler of the send's error may make what is in hand a copy again.
LEMMA CopiesCaught ==
    ASSUME Serial, TypeInv, NEW w \in Workers, NEW m \in Msgs, NEW retryable, Caught(w, retryable),
           UNCHANGED queue
    PROVE  /\ \E e : Copies(m)' \subseteq Copies(m) \cup {e}
           /\ pc[w] \in Sendable => Copies(m)' \subseteq Copies(m)
<1>1. hand' = hand /\ \A e, f \in hand[w] : e = f
  BY DEF Caught, TypeInv, ScopeInv
<1>2. \E e : EntriesOf(hand[w], m) \subseteq {e}
  BY <1>1 DEF EntriesOf
<1>. QED
  BY <1>1, <1>2, SerialCopies

\* Every step is one of these to every message.
LEMMA EveryCopyStep ==
    ASSUME Serial, TypeInv, FreshInv, TakenInv, [Next]_vars, NEW m \in Msgs
    PROVE  CopyStep(m)
<1>. USE DEF Sendable, Owing
<1>1. ASSUME NEW n \in Msgs, CreateMessage(n) \/ EnqueueFault(n) \/ CancelNext(n) PROVE CopyStep(m)
  <2>1. /\ queue' \subseteq queue /\ UNCHANGED << pc, hand, accepted >>
        /\ faults' \in {faults, faults + 1}
    BY <1>1 DEF CreateMessage, EnqueueFault, CancelNext, CancelInDatabase, CancelFault, RemoveMessage,
                RemoveReadQueue, RemoveFromQueue, RemoveReadProcessing, RemoveFromProcessing,
                redis, worker, env
  <2>. QED
    BY <2>1, CopiesShrink
<1>2. ASSUME NEW n \in Msgs, EnqueueMessage(n) PROVE CopyStep(m)
  <2>1. /\ queue' = queue \cup {[messageId |-> n, attemptNumber |-> 1, nextRetryAt |-> now]}
        /\ UNCHANGED << pc, hand, accepted, faults >> /\ sender[n] = "enqueue"
    BY <1>2 DEF EnqueueMessage, worker, env
  <2>2. CASE m = n
    <3>1. EntriesOf(queue, m) = {} /\ \A w \in Workers : EntriesOf(hand[w], m) = {}
      BY <2>1, <2>2 DEF FreshInv
    <3>2. Copies(m)' \subseteq {[messageId |-> n, attemptNumber |-> 1, nextRetryAt |-> now]}
      BY <2>1, <3>1 DEF Copies, EntriesOf
    <3>. QED
      BY <2>1, <2>2, <3>2 DEF CopyStep
  <2>3. CASE m # n
    <3>1. EntriesOf(queue', m) = EntriesOf(queue, m)
      BY <2>1, <2>3 DEF EntriesOf
    <3>2. Copies(m)' = Copies(m)
      BY <2>1, <3>1 DEF Copies
    <3>. QED
      BY <2>1, <3>2 DEF CopyStep, TypeInv, TypeOK
  <2>. QED
    BY <2>2, <2>3
<1>3. ASSUME NEW w \in Workers, Poll(w) PROVE CopyStep(m)
  <2>1. PICK e \in queue : hand' = [hand EXCEPT ![w] = {e}]
    BY <1>3 DEF Poll, Earliest, Due
  <2>2. UNCHANGED << queue, accepted, faults >>
    BY <1>3 DEF Poll, redis, env
  <2>3. Copies(m)' \subseteq Copies(m)
    BY <2>1, <2>2, SerialCopies DEF EntriesOf, TypeInv, TypeOK
  <2>. QED
    BY <2>2, <2>3 DEF CopyStep, TypeInv, TypeOK
<1>4. ASSUME NEW w \in Workers,
             \/ Claim(w) \/ Lookup(w) \/ UpdateSent(w) \/ RecordSent(w) \/ UpdateFailed(w)
             \/ RecordFailed(w) \/ RetryRead(w) \/ RetryRemove(w)
      PROVE  CopyStep(m)
  <2>1. /\ UNCHANGED << queue, accepted, faults >> /\ hand'[w] \subseteq hand[w]
        /\ pc'[w] \in Sendable => pc[w] \in Sendable
    BY <1>4 DEF Claim, Lookup, UpdateSent, RecordSent, UpdateFailed, RecordFailed, RetryRead,
                RetryRemove, Goto, redis, env, TypeInv, TypeOK
  <2>. QED
    BY <2>1, CopiesGoOn
<1>5. ASSUME NEW w \in Workers, RetryRecord(w) \/ MarkRead(w) \/ MarkRemove(w) PROVE CopyStep(m)
  <2>1. /\ UNCHANGED << queue, accepted, faults >> /\ hand'[w] \subseteq hand[w]
        /\ pc'[w] \notin Sendable
    BY <1>5 DEF RetryRecord, MarkRead, MarkRemove, Goto, Return, redis, env, TypeInv, TypeOK
  <2>. QED
    BY <2>1, CopiesGoOn
<1>6. ASSUME NEW w \in Workers, Unqueue(w) PROVE CopyStep(m)
  <2>1. queue' = queue \ hand[w] /\ UNCHANGED << hand, accepted, faults >> /\ pc[w] = "unqueue"
    BY <1>6 DEF Unqueue, env
  <2>2. Copies(m)' \subseteq Copies(m)
    BY <2>1, SerialCopies DEF EntriesOf
  <2>. QED
    BY <2>1, <2>2 DEF CopyStep, TypeInv, TypeOK
<1>7. ASSUME NEW w \in Workers, SendAccepted(w) PROVE CopyStep(m)
  <2>1. PICK e \in hand[w] : accepted' = [accepted EXCEPT ![e.messageId] = @ + 1]
    BY <1>7 DEF SendAccepted
  <2>2. /\ pc[w] = "send" /\ pc'[w] = "sent_status" /\ UNCHANGED << queue, hand, faults >>
        /\ e \notin queue
    BY <1>7 DEF SendAccepted, Goto, redis, env, TypeInv, TypeOK, TakenInv
  <2>3. Copies(m)' = EntriesOf(queue, m)
    <3>1. pc'[w] \notin Sendable /\ queue' = queue
      BY <2>2
    <3>. QED
      BY <3>1, SerialCopies, Zenon
  <2>4. Copies(m) = EntriesOf(queue, m) \cup EntriesOf(hand[w], m)
    BY <2>2, SerialCopies
  <2>5. CASE m = e.messageId
    <3>1. accepted'[m] = accepted[m] + 1
      BY <2>1, <2>5 DEF TypeInv, TypeOK
    <3>2. e \in Copies(m) /\ Copies(m)' \subseteq Copies(m) \ {e}
      BY <2>2, <2>3, <2>4, <2>5 DEF EntriesOf
    <3>. QED
      BY <2>2, <3>1, <3>2 DEF CopyStep
  <2>6. CASE m # e.messageId
    <3>1. accepted'[m] = accepted[m]
      BY <2>1, <2>6 DEF TypeInv, TypeOK
    <3>. QED
      BY <2>2, <2>3, <2>4, <3>1 DEF CopyStep, TypeInv, TypeOK
  <2>. QED
    BY <2>5, <2>6
<1>8. ASSUME NEW w \in Workers, SendRejected(w) PROVE CopyStep(m)
  <2>1. /\ pc[w] = "send" /\ UNCHANGED << queue, accepted, faults >>
        /\ \E retryable \in BOOLEAN : Caught(w, retryable)
    BY <1>8 DEF SendRejected, redis, env
  <2>2. Copies(m)' \subseteq Copies(m)
    BY <2>1, CopiesCaught
  <2>. QED
    BY <2>1, <2>2 DEF CopyStep, TypeInv, TypeOK
<1>9. ASSUME NEW w \in Workers, SendAnswerLost(w) PROVE CopyStep(m)
  <2>1. PICK e \in hand[w] : accepted' = [accepted EXCEPT ![e.messageId] = @ + 1]
    BY <1>9 DEF SendAnswerLost
  <2>2. pc[w] = "send" /\ UNCHANGED queue /\ faults' = faults + 1 /\ Caught(w, TRUE)
    BY <1>9 DEF SendAnswerLost, redis
  <2>3. Copies(m)' \subseteq Copies(m)
    BY <2>2, CopiesCaught
  <2>4. accepted'[m] \in {accepted[m], accepted[m] + 1}
    BY <2>1 DEF TypeInv, TypeOK
  <2>. QED
    BY <2>2, <2>3, <2>4 DEF CopyStep, TypeInv, TypeOK
<1>10. ASSUME NEW w \in Workers, RetryAdd(w) PROVE CopyStep(m)
  <2>1. PICK e \in hand[w] : queue' = queue \cup {RetryEntry(e)}
    BY <1>10 DEF RetryAdd
  <2>2. /\ pc[w] = "retry_add" /\ pc'[w] = "retry_record" /\ UNCHANGED << hand, accepted, faults >>
        /\ e \notin queue
    BY <1>10 DEF RetryAdd, Goto, env, TypeInv, TypeOK, TakenInv
  <2>3. Copies(m)' = EntriesOf(queue', m)
    <3>1. pc'[w] \notin Sendable
      BY <2>2
    <3>. QED
      BY <3>1, SerialCopies, Zenon
  <2>4. Copies(m) = EntriesOf(queue, m) \cup EntriesOf(hand[w], m)
    BY <2>2, SerialCopies
  <2>5. RetryEntry(e).messageId = e.messageId
    BY DEF RetryEntry
  <2>6. CASE m = e.messageId
    <3>1. e \in Copies(m) /\ Copies(m)' \subseteq (Copies(m) \ {e}) \cup {RetryEntry(e)}
      BY <2>1, <2>2, <2>3, <2>4, <2>6 DEF EntriesOf
    <3>. QED
      BY <2>2, <3>1 DEF CopyStep
  <2>7. CASE m # e.messageId
    <3>1. Copies(m)' \subseteq Copies(m)
      BY <2>1, <2>3, <2>4, <2>5, <2>7 DEF EntriesOf
    <3>. QED
      BY <2>2, <3>1 DEF CopyStep, TypeInv, TypeOK
  <2>. QED
    BY <2>6, <2>7
<1>11. ASSUME NEW w \in Workers, WorkerFault(w) PROVE CopyStep(m)
  <2>1. UNCHANGED << queue, accepted >> /\ faults' = faults + 1
    BY <1>11 DEF WorkerFault, redis
  <2>2. CASE Caught(w, TRUE)
    BY <2>1, <2>2, CopiesCaught DEF CopyStep
  <2>3. CASE Return(w)
    <3>1. hand'[w] = {}
      BY <2>3 DEF Return, TypeInv, TypeOK
    <3>2. Copies(m)' \subseteq Copies(m)
      BY <2>1, <3>1, SerialCopies DEF EntriesOf
    <3>. QED
      BY <2>1, <3>2 DEF CopyStep, TypeInv, TypeOK
  <2>. QED
    BY <1>11, <2>2, <2>3 DEF WorkerFault
<1>12. CASE AdvanceClock \/ ProviderChange \/ UNCHANGED vars
  <2>1. UNCHANGED << queue, pc, hand, accepted, faults >>
    BY <1>12 DEF AdvanceClock, ProviderChange, vars, redis, worker, env
  <2>. QED
    BY <2>1, CopiesShrink
<1>13. CASE Restart
  <2>1. UNCHANGED << queue, accepted, faults >> /\ \A w \in Workers : hand'[w] = {}
    BY <1>13 DEF Restart, redis
  <2>2. Copies(m)' \subseteq Copies(m)
    BY <2>1 DEF Copies, EntriesOf
  <2>. QED
    BY <2>1, <2>2 DEF CopyStep, TypeInv, TypeOK
<1>. QED
  BY <1>1, <1>2, <1>3, <1>4, <1>5, <1>6, <1>7, <1>8, <1>9, <1>10, <1>11, <1>12, <1>13
  DEF Next, SenderNext, WorkerNext, WorkerStep

\* What such a step costs: nothing that a failed call did not pay for, except
\* that a message is queued for the first time.
LEMMA LoadStep ==
    ASSUME NEW m \in Msgs, IsFiniteSet(Copies(m)), CopyStep(m), FreshInv,
           accepted[m] \in Nat, accepted'[m] \in Nat, faults \in Nat, faults' \in Nat
    PROVE  /\ IsFiniteSet(Copies(m)')
           /\ Load(m)' <= 1 \/ Load(m)' + faults <= Load(m) + faults'
<1>. DEFINE C == Copies(m)
            D == Copies(m)'
<1>1. Load(m) = accepted[m] + Cardinality(C) /\ Load(m)' = accepted'[m] + Cardinality(D)
  BY DEF Load
<1>2. CASE accepted'[m] = accepted[m] /\ D \subseteq C /\ faults' >= faults
  <2>. HIDE DEF C, D
  <2>1. IsFiniteSet(D) /\ Cardinality(D) <= Cardinality(C)
    BY <1>2, FS_Subset DEF C
  <2>2. Cardinality(C) \in Nat /\ Cardinality(D) \in Nat
    BY <2>1, FS_CardinalityType DEF C
  <2>. QED
    BY <1>1, <1>2, <2>1, <2>2 DEF D
<1>3. CASE sender[m] = "enqueue" /\ accepted'[m] = accepted[m] /\ \E e : D \subseteq {e}
  <2>1. PICK e : D \subseteq {e}
    BY <1>3
  <2>. HIDE DEF C, D
  <2>2. IsFiniteSet({e}) /\ Cardinality({e}) = 1
    BY FS_Singleton
  <2>3. IsFiniteSet(D) /\ Cardinality(D) <= 1
    BY <2>1, <2>2, FS_Subset
  <2>4. Cardinality(D) \in Nat
    BY <2>3, FS_CardinalityType
  <2>5. accepted[m] = 0
    BY <1>3 DEF FreshInv
  <2>. QED
    BY <1>1, <1>3, <2>3, <2>4, <2>5 DEF D
<1>4. CASE accepted'[m] = accepted[m] + 1 /\ faults' = faults /\ \E e \in C : D \subseteq C \ {e}
  <2>1. PICK e \in C : D \subseteq C \ {e}
    BY <1>4
  <2>. HIDE DEF C, D
  <2>2. IsFiniteSet(C \ {e}) /\ Cardinality(C \ {e}) = Cardinality(C) - 1
    BY <2>1, FS_RemoveElement DEF C
  <2>3. IsFiniteSet(D) /\ Cardinality(D) <= Cardinality(C \ {e})
    BY <2>1, <2>2, FS_Subset
  <2>4. Cardinality(C) \in Nat /\ Cardinality(D) \in Nat
    BY <2>3, FS_CardinalityType DEF C
  <2>. QED
    BY <1>1, <1>4, <2>2, <2>3, <2>4 DEF D
<1>5. CASE /\ accepted'[m] = accepted[m] /\ faults' = faults
           /\ \E e \in C : \E f : D \subseteq (C \ {e}) \cup {f}
  <2>1. PICK e \in C : \E f : D \subseteq (C \ {e}) \cup {f}
    BY <1>5
  <2>2. PICK f : D \subseteq (C \ {e}) \cup {f}
    BY <2>1
  <2>. HIDE DEF C, D
  <2>3. IsFiniteSet(C \ {e}) /\ Cardinality(C \ {e}) = Cardinality(C) - 1
    BY <2>1, FS_RemoveElement DEF C
  <2>4. Cardinality(C) \in Nat
    BY FS_CardinalityType DEF C
  <2>5. /\ IsFiniteSet((C \ {e}) \cup {f})
        /\ Cardinality((C \ {e}) \cup {f}) <= Cardinality(C)
    <3>. DEFINE R == C \ {e}
    <3>1. IsFiniteSet(R) /\ Cardinality(R) = Cardinality(C) - 1
      BY <2>3
    <3>. HIDE DEF R
    <3>2. IsFiniteSet(R \cup {f}) /\ Cardinality(R \cup {f}) \in {Cardinality(R), Cardinality(R) + 1}
      BY <3>1, FS_AddElement
    <3>3. IsFiniteSet(R \cup {f}) /\ Cardinality(R \cup {f}) <= Cardinality(C)
      BY <2>4, <3>1, <3>2
    <3>. QED
      BY <3>3 DEF R
  <2>6. IsFiniteSet(D) /\ Cardinality(D) <= Cardinality((C \ {e}) \cup {f})
    BY <2>2, <2>5, FS_Subset
  <2>7. Cardinality(D) \in Nat /\ Cardinality((C \ {e}) \cup {f}) \in Nat
    BY <2>5, <2>6, FS_CardinalityType
  <2>. QED
    BY <1>1, <1>5, <2>4, <2>5, <2>6, <2>7 DEF D
<1>6. CASE accepted'[m] = accepted[m] + 1 /\ faults' = faults + 1 /\ D \subseteq C
  <2>. HIDE DEF C, D
  <2>1. IsFiniteSet(D) /\ Cardinality(D) <= Cardinality(C)
    BY <1>6, FS_Subset DEF C
  <2>2. Cardinality(C) \in Nat /\ Cardinality(D) \in Nat
    BY <2>1, FS_CardinalityType DEF C
  <2>. QED
    BY <1>1, <1>6, <2>1, <2>2 DEF D
<1>7. CASE accepted'[m] = accepted[m] /\ faults' = faults + 1 /\ \E e : D \subseteq C \cup {e}
  <2>1. PICK e : D \subseteq C \cup {e}
    BY <1>7
  <2>. HIDE DEF C, D
  <2>2. Cardinality(C) \in Nat
    BY FS_CardinalityType DEF C
  <2>3. IsFiniteSet(C \cup {e}) /\ Cardinality(C \cup {e}) <= Cardinality(C) + 1
    <3>1. IsFiniteSet(C)
      BY DEF C
    <3>2. IsFiniteSet(C \cup {e}) /\ Cardinality(C \cup {e}) \in {Cardinality(C), Cardinality(C) + 1}
      BY <3>1, FS_AddElement
    <3>. QED
      BY <2>2, <3>2
  <2>4. IsFiniteSet(D) /\ Cardinality(D) <= Cardinality(C \cup {e})
    BY <2>1, <2>3, FS_Subset
  <2>5. Cardinality(D) \in Nat /\ Cardinality(C \cup {e}) \in Nat
    BY <2>3, <2>4, FS_CardinalityType
  <2>. QED
    BY <1>1, <1>7, <2>2, <2>3, <2>4, <2>5 DEF D
<1>. QED
  BY <1>2, <1>3, <1>4, <1>5, <1>6, <1>7 DEF CopyStep

\* Each message starts without a copy.
LEMMA BudgetInit == Init => SendBudget
<1>. SUFFICES ASSUME Init, NEW m \in Msgs PROVE accepted[m] + Cardinality(Copies(m)) <= 1 + faults
  BY DEF SendBudget
<1>1. Copies(m) = {} /\ accepted[m] = 0 /\ faults = 0
  BY DEF Init, Copies, EntriesOf
<1>. QED
  BY <1>1, FS_EmptySet

\* Every step keeps within the budget.
LEMMA BudgetNext ==
    Serial /\ TypeInv /\ TypeInv' /\ FreshInv /\ TakenInv /\ SendBudget /\ [Next]_vars => SendBudget'
<1>. SUFFICES ASSUME Serial, TypeInv, TypeInv', FreshInv, TakenInv, SendBudget, [Next]_vars,
                     NEW m \in Msgs
              PROVE  (Load(m) <= 1 + faults)'
  BY DEF SendBudget, Load
<1>1. IsFiniteSet(Copies(m)) /\ CopyStep(m)
  BY CopiesAreFinite, EveryCopyStep DEF TakenInv
<1>2. /\ accepted[m] \in Nat /\ accepted'[m] \in Nat /\ faults \in Nat /\ faults' \in Nat
  BY ConstantsAssumption DEF TypeInv, TypeOK
<1>3. IsFiniteSet(Copies(m)') /\ (Load(m)' <= 1 \/ Load(m)' + faults <= Load(m) + faults')
  BY <1>1, <1>2, LoadStep
<1>4. Load(m) \in Nat /\ Load(m)' \in Nat
  BY <1>1, <1>2, <1>3, FS_CardinalityType DEF Load
<1>5. Load(m) <= 1 + faults
  BY DEF SendBudget, Load
<1>. QED
  BY <1>2, <1>3, <1>4, <1>5

\* When invocations do not overlap, every further time that WhatsApp takes a
\* message, or may still take it, was paid for by a failed call.
THEOREM SendsArePaidFor == Serial => (Spec => []SendBudget)
<1>. SUFFICES ASSUME Serial PROVE Spec => []SendBudget
  OBVIOUS
<1>. DEFINE Inv == ClientInv /\ FreshInv /\ TakenInv /\ SendBudget
<1>1. Init => Inv
  BY LossInit, FreshInit, TakenInit, BudgetInit DEF LossInv
<1>2. TypeInv /\ TypeInv' /\ Inv /\ [Next]_vars => Inv'
  BY ClientNext, FreshNext, TakenNext, BudgetNext
<1>3. Inv => SendBudget
  OBVIOUS
<1>. QED
  BY <1>1, <1>2, <1>3, TypeInvariant, PTL DEF Spec

-----------------------------------------------------------------------------
(* The queue keeps the promise of DeliveryPromise *)

Unsettled == {"pending", "cancelled"}

\* While no call failed, a message that may still be sent, or was sent and not
\* recorded yet, has a row that neither outcome was written to.
DecidedInv ==
    faults = 0 =>
        \A m \in Msgs :
            /\ Copies(m) # {} => status[m] \in Unsettled
            /\ \A w \in Workers : pc[w] = "sent_status" /\ Holds(w, m) => status[m] \in Unsettled

\* There is nothing to send yet.
LEMMA DecidedInit == Init => DecidedInv
  BY DEF Init, DecidedInv, Copies, Holds, EntriesOf

\* An invocation records a send after it, with the same entry in hand.
LEMMA SentStatusAfterSend ==
    ASSUME TypeInv, [Next]_vars, NEW w \in Workers, pc'[w] = "sent_status"
    PROVE  pc[w] \in {"send", "sent_status"} /\ hand'[w] = hand[w]
<1>1. ASSUME NEW m \in Msgs, SenderNext(m) \/ CancelNext(m)
      PROVE  pc[w] \in {"send", "sent_status"} /\ hand'[w] = hand[w]
  BY <1>1 DEF SenderNext, CreateMessage, EnqueueMessage, EnqueueFault, CancelNext, CancelInDatabase,
              CancelFault, RemoveMessage, RemoveReadQueue, RemoveFromQueue, RemoveReadProcessing,
              RemoveFromProcessing, worker
<1>2. ASSUME NEW v \in Workers, WorkerNext(v)
      PROVE  pc[w] \in {"send", "sent_status"} /\ hand'[w] = hand[w]
  <2>1. CASE Poll(v) \/ Claim(v) \/ Unqueue(v) \/ Lookup(v) \/ UpdateSent(v) \/ RecordSent(v)
    BY <2>1 DEF Poll, Claim, Unqueue, Lookup, UpdateSent, RecordSent, Goto, TypeInv, TypeOK
  <2>2. CASE UpdateFailed(v) \/ RecordFailed(v) \/ RetryRead(v) \/ RetryRemove(v) \/ RetryAdd(v)
    BY <2>2 DEF UpdateFailed, RecordFailed, RetryRead, RetryRemove, RetryAdd, Goto, TypeInv, TypeOK
  <2>3. CASE RetryRecord(v) \/ MarkRead(v) \/ MarkRemove(v) \/ WorkerFault(v)
    BY <2>3 DEF RetryRecord, MarkRead, MarkRemove, WorkerFault, Caught, Return, Goto, TypeInv, TypeOK
  <2>4. CASE SendAccepted(v)
    BY <2>4 DEF SendAccepted, Goto, TypeInv, TypeOK
  <2>5. CASE SendRejected(v) \/ SendAnswerLost(v)
    BY <2>5 DEF SendRejected, SendAnswerLost, Caught, Goto, TypeInv, TypeOK
  <2>. QED
    BY <1>2, <2>1, <2>2, <2>3, <2>4, <2>5 DEF WorkerNext, WorkerStep
<1>3. CASE AdvanceClock \/ ProviderChange \/ UNCHANGED vars
  BY <1>3 DEF AdvanceClock, ProviderChange, vars, worker
<1>4. CASE Restart
  BY <1>4 DEF Restart
<1>. QED
  BY <1>1, <1>2, <1>3, <1>4 DEF Next

\* What a step can do to the rows.
LEMMA StatusStep ==
    ASSUME [Next]_vars
    PROVE  \/ UNCHANGED status
           \/ \E m \in Msgs : CreateMessage(m) \/ CancelInDatabase(m)
           \/ \E w \in Workers : UpdateSent(w) \/ UpdateFailed(w)
<1>1. ASSUME NEW m \in Msgs, SenderNext(m) \/ CancelNext(m)
      PROVE  UNCHANGED status \/ CreateMessage(m) \/ CancelInDatabase(m)
  BY <1>1 DEF SenderNext, EnqueueMessage, EnqueueFault, CancelNext, CancelFault, RemoveMessage,
              RemoveReadQueue, RemoveFromQueue, RemoveReadProcessing, RemoveFromProcessing, mysql
<1>2. ASSUME NEW w \in Workers, WorkerNext(w)
      PROVE  UNCHANGED status \/ UpdateSent(w) \/ UpdateFailed(w)
  BY <1>2 DEF WorkerNext, WorkerStep, Poll, Claim, Unqueue, Lookup, SendAccepted, SendRejected,
              SendAnswerLost, RecordSent, RecordFailed, RetryRead, RetryRemove, RetryAdd,
              RetryRecord, MarkRead, MarkRemove, WorkerFault, mysql
<1>3. CASE AdvanceClock \/ ProviderChange \/ Restart \/ UNCHANGED vars
  BY <1>3 DEF AdvanceClock, ProviderChange, Restart, vars, mysql
<1>. QED
  BY <1>1, <1>2, <1>3 DEF Next

\* An outcome is written when no other copy of the message is left.
LEMMA DecidedNext ==
    Serial /\ TypeInv /\ SentInv /\ OnceInv /\ FreshInv /\ TakenInv /\ DecidedInv /\ [Next]_vars =>
        DecidedInv'
<1>. SUFFICES ASSUME Serial, TypeInv, SentInv, OnceInv, FreshInv, TakenInv, DecidedInv, [Next]_vars,
                     faults' = 0, NEW m \in Msgs
              PROVE  /\ Copies(m)' # {} => status'[m] \in Unsettled
                     /\ \A w \in Workers : pc'[w] = "sent_status" /\ EntriesOf(hand'[w], m) # {} =>
                           status'[m] \in Unsettled
  BY DEF DecidedInv, Holds, EntriesOf
<1>1. CopyStep(m) /\ faults \in Nat
  BY EveryCopyStep, ConstantsAssumption DEF TypeInv, TypeOK
<1>2. faults = 0
  BY <1>1 DEF CopyStep
<1>3. Copies(m)' # {} => Copies(m) # {} \/ sender[m] = "enqueue"
  BY <1>1, <1>2 DEF CopyStep
<1>4. Copies(m)' # {} => status[m] \in Unsettled
  BY <1>2, <1>3 DEF DecidedInv, FreshInv, Unsettled
<1>5. ASSUME NEW w \in Workers, pc'[w] = "sent_status", EntriesOf(hand'[w], m) # {}
      PROVE  status[m] \in Unsettled
  <2>1. pc[w] \in {"send", "sent_status"} /\ EntriesOf(hand[w], m) # {}
    BY <1>5, SentStatusAfterSend
  <2>2. pc[w] = "send" => Copies(m) # {}
    BY <2>1 DEF Copies, Owing
  <2>. QED
    BY <1>2, <2>1, <2>2 DEF DecidedInv, Holds
<1>6. CASE status'[m] = status[m]
  BY <1>4, <1>5, <1>6
<1>7. ASSUME NEW n \in Msgs, CreateMessage(n) \/ CancelInDatabase(n)
      PROVE  status'[m] \in {status[m], "pending", "cancelled"}
  BY <1>7 DEF CreateMessage, CancelInDatabase, TypeInv, TypeOK
<1>8. ASSUME NEW w \in Workers, UpdateSent(w), status'[m] # status[m]
      PROVE  Copies(m)' = {} /\ \A v \in Workers : pc'[v] # "sent_status"
  <2>1. PICK e \in hand[w] : status' = [status EXCEPT ![e.messageId] = "sent"]
    BY <1>8 DEF UpdateSent
  <2>2. m = e.messageId
    BY <1>8, <2>1 DEF TypeInv, TypeOK
  <2>3. pc[w] = "sent_status" /\ pc'[w] = "sent_record"
    BY <1>8 DEF UpdateSent, Goto, TypeInv, TypeOK
  <2>4. accepted[m] > 0
    BY <2>2, <2>3 DEF SentInv
  <2>5. Copies(m) = {}
    BY <1>2, <2>4 DEF OnceInv, TypeInv, TypeOK
  <2>6. sender[m] = "done"
    BY <2>2, HandIsQueued
  <2>. QED
    BY <1>3, <2>3, <2>5, <2>6 DEF Serial
<1>9. ASSUME NEW w \in Workers, UpdateFailed(w), status'[m] # status[m]
      PROVE  Copies(m)' = {} /\ \A v \in Workers : pc'[v] # "sent_status"
  <2>1. PICK e \in hand[w] : status' = [status EXCEPT ![e.messageId] = "failed"]
    BY <1>9 DEF UpdateFailed
  <2>2. m = e.messageId
    BY <1>9, <2>1 DEF TypeInv, TypeOK
  <2>3. pc[w] = "fail_status" /\ pc'[w] = "fail_record" /\ queue' = queue
    BY <1>9 DEF UpdateFailed, Goto, redis, TypeInv, TypeOK
  <2>4. EntriesOf(hand[w], m) # {}
    BY <2>2 DEF EntriesOf
  <2>5. EntriesOf(queue, m) = {}
    BY <1>2, <2>3, <2>4 DEF OnceInv, Owing
  <2>6. pc'[w] \notin Sendable
    BY <2>3 DEF Sendable, Owing
  <2>7. Copies(m)' = {}
    BY <2>3, <2>5, <2>6, SerialCopies
  <2>. QED
    BY <2>3, <2>7 DEF Serial
<1>. QED
  BY <1>4, <1>5, <1>6, <1>7, <1>8, <1>9, StatusStep DEF Unsettled

\* The stages of all messages, as DeliveryPromise sees the rows.
Stage == [m \in Msgs |-> CASE status[m] = "sent"      -> "delivered"
                           [] status[m] = "cancelled" -> "withdrawn"
                           [] OTHER                   -> status[m]]

\* What a row that is not "sent" or "cancelled" says, and what those say.
LEMMA StageOfRow ==
    ASSUME NEW m \in Msgs
    PROVE  /\ status[m] = "sent" => Stage[m] = "delivered"
           /\ status[m] = "cancelled" => Stage[m] = "withdrawn"
           /\ status[m] \notin {"sent", "cancelled"} => Stage[m] = status[m]
  BY DEF Stage

\* A changed row changes its stage.
LEMMA StageChange ==
    ASSUME TypeOK, NEW m \in Msgs, NEW s \in Status, status' = [status EXCEPT ![m] = s]
    PROVE  /\ s = "sent" => Stage' = [Stage EXCEPT ![m] = "delivered"]
           /\ s = "cancelled" => Stage' = [Stage EXCEPT ![m] = "withdrawn"]
           /\ s \in {"pending", "failed"} => Stage' = [Stage EXCEPT ![m] = s]
<1>1. \A n \in Msgs : status'[n] = IF n = m THEN s ELSE status[n]
  BY DEF TypeOK
<1>. QED
  BY <1>1 DEF Stage

\* The queue starts as the promise does.
LEMMA PromiseInit == Init => Promise!Init
<1>. SUFFICES ASSUME Init PROVE Promise!Init
  OBVIOUS
<1>1. Stage = [m \in Msgs |-> "none"]
  BY DEF Init, Stage
<1>2. (faults > 0) = FALSE
  BY DEF Init
<1>. QED
  BY <1>1, <1>2 DEF Init, Promise!Init, Stage

\* What the abstract step looks like in the queue's variables.
LEMMA PromiseSteps ==
    ASSUME NEW m \in Msgs
    PROVE  /\ /\ Stage[m] = "none" /\ Stage' = [Stage EXCEPT ![m] = "pending"]
              /\ UNCHANGED << accepted, faults >>
              => Promise!Submit(m)
           /\ /\ Stage[m] \in {"pending", "withdrawn"} \/ faults > 0
              /\ accepted[m] > 0
              /\ Stage' = [Stage EXCEPT ![m] = "delivered"] /\ UNCHANGED << accepted, faults >>
              => Promise!Confirm(m)
           /\ /\ (Stage[m] \in {"pending", "withdrawn"} /\ accepted[m] = 0) \/ faults > 0
              /\ Stage' = [Stage EXCEPT ![m] = "failed"] /\ UNCHANGED << accepted, faults >>
              => Promise!GiveUp(m)
           /\ /\ Stage[m] = "pending"
              /\ Stage' = [Stage EXCEPT ![m] = "withdrawn"] /\ UNCHANGED << accepted, faults >>
              => Promise!Withdraw({m})
  BY DEF Stage, Promise!Submit, Promise!Confirm, Promise!GiveUp, Promise!Withdraw, Promise!SetStage,
         Promise!Undecided

\* The steps that change neither a row nor what WhatsApp took.
LEMMA OtherSteps ==
    ASSUME [Next]_vars
    PROVE  \/ UNCHANGED << status, accepted >> /\ faults' \in {faults, faults + 1}
           \/ \E m \in Msgs : CreateMessage(m) \/ CancelInDatabase(m)
           \/ \E w \in Workers : UpdateSent(w) \/ UpdateFailed(w) \/ SendAccepted(w) \/ SendAnswerLost(w)
<1>. DEFINE Other == UNCHANGED << status, accepted >> /\ faults' \in {faults, faults + 1}
<1>1. ASSUME NEW m \in Msgs, SenderNext(m) \/ CancelNext(m)
      PROVE  Other \/ CreateMessage(m) \/ CancelInDatabase(m)
  BY <1>1 DEF SenderNext, EnqueueMessage, EnqueueFault, CancelNext, CancelFault, RemoveMessage,
              RemoveReadQueue, RemoveFromQueue, RemoveReadProcessing, RemoveFromProcessing, mysql, env
<1>2. ASSUME NEW w \in Workers, WorkerNext(w)
      PROVE  Other \/ UpdateSent(w) \/ UpdateFailed(w) \/ SendAccepted(w) \/ SendAnswerLost(w)
  BY <1>2 DEF WorkerNext, WorkerStep, Poll, Claim, Unqueue, Lookup, SendRejected,
              RecordSent, RecordFailed, RetryRead, RetryRemove, RetryAdd,
              RetryRecord, MarkRead, MarkRemove, WorkerFault, mysql, env
<1>3. CASE AdvanceClock \/ ProviderChange \/ Restart \/ UNCHANGED vars
  BY <1>3 DEF AdvanceClock, ProviderChange, Restart, vars, mysql, env
<1>. QED
  BY <1>1, <1>2, <1>3 DEF Next

\* Every step of the queue is a step of the promise, or leaves it alone.
LEMMA PromiseNext ==
    Serial /\ TypeInv /\ SentInv /\ OnceInv /\ FreshInv /\ DecidedInv /\ [Next]_vars =>
        [Promise!Next]_(Promise!vars)
<1>. SUFFICES ASSUME Serial, TypeInv, SentInv, OnceInv, FreshInv, DecidedInv, [Next]_vars
              PROVE  Promise!Next \/ UNCHANGED << Stage, accepted, faults > 0 >>
  BY DEF Promise!vars, Stage
<1>0. faults \in Nat
  BY ConstantsAssumption DEF TypeInv, TypeOK
<1>1. ASSUME NEW m \in Msgs, CreateMessage(m) PROVE Promise!Next
  <2>1. status[m] = "none" /\ status' = [status EXCEPT ![m] = "pending"] /\ UNCHANGED << accepted, faults >>
    BY <1>1 DEF CreateMessage, FreshInv, env
  <2>2. Stage[m] = "none" /\ Stage' = [Stage EXCEPT ![m] = "pending"]
    BY <2>1, StageOfRow, StageChange DEF TypeInv, Status
  <2>3. Promise!Submit(m)
    BY <2>1, <2>2, PromiseSteps
  <2>. QED
    BY <2>3 DEF Promise!Next
<1>2. ASSUME NEW m \in Msgs, CancelInDatabase(m)
      PROVE  Promise!Next \/ UNCHANGED << Stage, accepted, faults > 0 >>
  <2>1. /\ status' = [status EXCEPT ![m] = IF status[m] = "pending" THEN "cancelled" ELSE status[m]]
        /\ UNCHANGED << accepted, faults >>
    BY <1>2 DEF CancelInDatabase, env
  <2>2. CASE status[m] = "pending"
    <3>1. status' = [status EXCEPT ![m] = "cancelled"]
      BY <2>1, <2>2
    <3>2. Stage[m] = "pending" /\ Stage' = [Stage EXCEPT ![m] = "withdrawn"]
      BY <2>2, <3>1, StageOfRow, StageChange DEF TypeInv, Status
    <3>3. Promise!Withdraw({m}) /\ {m} \in SUBSET Msgs
      BY <2>1, <3>2, PromiseSteps
    <3>. QED
      BY <3>3 DEF Promise!Next
  <2>3. CASE status[m] # "pending"
    <3>1. status' = status
      BY <2>1, <2>3 DEF TypeInv, TypeOK
    <3>. QED
      BY <2>1, <3>1 DEF Stage
  <2>. QED
    BY <2>2, <2>3
<1>3. ASSUME NEW w \in Workers, UpdateSent(w) PROVE Promise!Next
  <2>1. PICK e \in hand[w] : status' = [status EXCEPT ![e.messageId] = "sent"]
    BY <1>3 DEF UpdateSent
  <2>. DEFINE m == e.messageId
  <2>2. pc[w] = "sent_status" /\ UNCHANGED << accepted, faults >> /\ m \in Msgs
    BY <1>3, HandIsQueued DEF UpdateSent, env
  <2>3. EntriesOf(hand[w], m) # {}
    BY DEF EntriesOf
  <2>. HIDE DEF m
  <2>4. accepted[m] > 0
    BY <2>2 DEF SentInv, m
  <2>5. status[m] \in Unsettled \/ faults > 0
    BY <1>0, <2>2, <2>3 DEF DecidedInv, Holds
  <2>6. Stage[m] \in {"pending", "withdrawn"} \/ faults > 0
    BY <2>2, <2>5, StageOfRow DEF Unsettled
  <2>7. Stage' = [Stage EXCEPT ![m] = "delivered"]
    BY <2>1, <2>2, StageChange DEF TypeInv, Status, m
  <2>8. Promise!Confirm(m)
    BY <2>2, <2>4, <2>6, <2>7, PromiseSteps
  <2>. QED
    BY <2>2, <2>8 DEF Promise!Next
<1>4. ASSUME NEW w \in Workers, UpdateFailed(w) PROVE Promise!Next
  <2>1. PICK e \in hand[w] : status' = [status EXCEPT ![e.messageId] = "failed"]
    BY <1>4 DEF UpdateFailed
  <2>. DEFINE m == e.messageId
  <2>2. pc[w] = "fail_status" /\ UNCHANGED << accepted, faults >> /\ m \in Msgs
    BY <1>4, HandIsQueued DEF UpdateFailed, env
  <2>3. Copies(m) # {}
    BY <2>2 DEF Copies, Owing, EntriesOf
  <2>. HIDE DEF m
  <2>4. (status[m] \in Unsettled /\ accepted[m] = 0) \/ faults > 0
    BY <1>0, <2>2, <2>3 DEF DecidedInv, OnceInv
  <2>5. (Stage[m] \in {"pending", "withdrawn"} /\ accepted[m] = 0) \/ faults > 0
    BY <2>2, <2>4, StageOfRow DEF Unsettled
  <2>6. Stage' = [Stage EXCEPT ![m] = "failed"]
    BY <2>1, <2>2, StageChange DEF TypeInv, Status, m
  <2>7. Promise!GiveUp(m)
    BY <2>2, <2>5, <2>6, PromiseSteps
  <2>. QED
    BY <2>2, <2>7 DEF Promise!Next
<1>5. ASSUME NEW w \in Workers, SendAccepted(w) \/ SendAnswerLost(w) PROVE Promise!Next
  <2>1. PICK e \in hand[w] : accepted' = [accepted EXCEPT ![e.messageId] = @ + 1]
    BY <1>5 DEF SendAccepted, SendAnswerLost
  <2>. DEFINE m == e.messageId
  <2>2. /\ pc[w] = "send" /\ UNCHANGED status /\ m \in Msgs
        /\ faults' = faults \/ faults' = faults + 1
    BY <1>5, HandIsQueued DEF SendAccepted, SendAnswerLost, mysql, env
  <2>3. Copies(m) # {}
    BY <2>2 DEF Copies, Owing, EntriesOf
  <2>. HIDE DEF m
  <2>4. (status[m] \in Unsettled /\ accepted[m] = 0) \/ faults > 0
    BY <1>0, <2>2, <2>3 DEF DecidedInv, OnceInv
  <2>5. (Stage[m] \in {"pending", "withdrawn"} /\ accepted[m] = 0) \/ faults' > 0
    BY <1>0, <2>2, <2>4, StageOfRow DEF Unsettled
  <2>6. Stage' = Stage
    BY <2>2 DEF Stage
  <2>7. (faults > 0)' \in {faults > 0, TRUE}
    <3>1. CASE faults' = faults
      <4>1. (faults > 0)' = (faults > 0)
        BY <3>1
      <4>. QED
        BY <4>1, Zenon
    <3>2. CASE faults' = faults + 1
      <4>1. (faults > 0)' = TRUE
        BY <1>0, <3>2
      <4>. QED
        BY <4>1, Zenon
    <3>. QED
      BY <2>2, <3>1, <3>2
  <2>8. Promise!Take(m)
    BY <2>1, <2>5, <2>6, <2>7 DEF Promise!Take, Promise!Undecided, Stage, m
  <2>. QED
    BY <2>2, <2>8 DEF Promise!Next
<1>6. CASE UNCHANGED << status, accepted >> /\ faults' \in {faults, faults + 1}
  <2>1. Stage' = Stage
    BY <1>6 DEF Stage
  <2>2. CASE faults' = faults
    BY <1>6, <2>1, <2>2
  <2>3. CASE faults' = faults + 1
    <3>1. (faults > 0)' = TRUE
      BY <1>0, <2>3
    <3>2. Promise!Fail
      BY <1>6, <2>1, <3>1 DEF Promise!Fail, Stage
    <3>. QED
      BY <3>2 DEF Promise!Next
  <2>. QED
    BY <1>6, <2>2, <2>3
<1>. QED
  BY <1>1, <1>2, <1>3, <1>4, <1>5, <1>6, OtherSteps

\* When invocations do not overlap, the queue implements DeliveryPromise: until
\* a call fails WhatsApp takes a message at most once and the row says what
\* became of it, and nothing is ever reported as sent that was not, for any
\* interleaving of DELETE requests, retries and restarts.
THEOREM QueueKeepsPromise == Serial => (Spec => KeepsPromise)
<1>. SUFFICES ASSUME Serial PROVE Spec => KeepsPromise
  OBVIOUS
<1>. DEFINE Inv == ClientInv /\ FreshInv /\ TakenInv /\ SentInv /\ OnceInv /\ DecidedInv
<1>1. Init => Inv
  BY LossInit, FreshInit, TakenInit, SentInit, OnceInit, DecidedInit DEF LossInv
<1>2. TypeInv /\ Inv /\ [Next]_vars => Inv'
  BY ClientNext, FreshNext, TakenNext, SentNext, OnceNext, DecidedNext
<1>3. TypeInv /\ Inv /\ [Next]_vars => [Promise!Next]_(Promise!vars)
  BY PromiseNext
<1>. QED
  BY <1>1, <1>2, <1>3, PromiseInit, TypeInvariant, PTL DEF Spec, KeepsPromise, Promise!Spec

-----------------------------------------------------------------------------
(* The audit trail *)

\* The rows of the attempts before the k-th.
Retried(k) == [i \in 1 .. (k - 1) |-> <<i, "retrying">>]

\* A trail without holes, with one row per attempt.
Trail(T) ==
    \A i \in 1 .. Len(T) : T[i][1] = i /\ (i < Len(T) => T[i][2] = "retrying")

\* The steps at which the attempt of the entry in hand has no row yet.
Recording == Step \ {"idle", "mark_read", "mark_rem"}

\* The number of an entry, in the queue or in hand, is the number of rows of its
\* message plus one, except while a retry is queued and not recorded yet; what
\* was sent or given up has left the queue when that is recorded.
AuditInv ==
    (faults = 0 /\ crashes = 0) =>
        /\ \A m \in Msgs : Trail(attempts[m])
        /\ \A w \in Workers : pc[w] \in Recording =>
              \A e \in hand[w] : attempts[e.messageId] = Retried(e.attemptNumber)
        /\ \A w \in Workers : pc[w] \in {"sent_record", "fail_record"} =>
              \A e \in hand[w] : EntriesOf(queue, e.messageId) = {}
        /\ \A w \in Workers : pc[w] = "retry_record" =>
              \A f \in hand[w] : \A e \in EntriesOf(queue, f.messageId) :
                  e.attemptNumber = f.attemptNumber + 1
        /\ \A e \in queue :
              (\A w \in Workers : pc[w] = "retry_record" => EntriesOf(hand[w], e.messageId) = {})
                  => attempts[e.messageId] = Retried(e.attemptNumber)

\* The next row keeps the trail, and a "retrying" one makes room for one more.
LEMMA RetriedGrows ==
    ASSUME NEW k \in Nat \ {0}, NEW outcome
    PROVE  /\ Trail(Append(Retried(k), <<k, outcome>>))
           /\ Append(Retried(k), <<k, "retrying">>) = Retried(k + 1)
<1>. DEFINE T == Append(Retried(k), <<k, outcome>>)
            R == Append(Retried(k), <<k, "retrying">>)
<1>1. Retried(k) \in Seq(Nat \X {"retrying"}) /\ Len(Retried(k)) = k - 1
  BY DEF Retried
<1>2. /\ Len(T) = k /\ T[k] = <<k, outcome>>
      /\ \A i \in 1 .. (k - 1) : T[i] = <<i, "retrying">>
  BY <1>1 DEF Retried
<1>3. Trail(T)
  BY <1>2 DEF Trail
<1>4. R = Retried(k + 1)
  BY <1>1 DEF Retried
<1>. QED
  BY <1>3, <1>4

\* There are no rows, and no entries.
LEMMA AuditInit == Init => AuditInv
  BY DEF Init, AuditInv, Trail, Recording

\* As long as no call fails and the process does not exit, these are the steps.
LEMMA FaultFreeSteps ==
    ASSUME TypeInv, [Next]_vars, faults' = 0, crashes' = 0
    PROVE  /\ faults = 0 /\ crashes = 0
           /\ \/ \E m \in Msgs :
                    CreateMessage(m) \/ EnqueueMessage(m) \/ CancelInDatabase(m) \/ RemoveMessage(m)
              \/ \E w \in Workers : WorkerStep(w)
              \/ AdvanceClock \/ ProviderChange \/ UNCHANGED vars
<1>0. faults \in Nat /\ crashes \in Nat
  BY ConstantsAssumption DEF TypeInv, TypeOK
<1>1. ASSUME NEW m \in Msgs, SenderNext(m) \/ CancelNext(m)
      PROVE  /\ faults = 0 /\ crashes = 0
             /\ CreateMessage(m) \/ EnqueueMessage(m) \/ CancelInDatabase(m) \/ RemoveMessage(m)
  BY <1>0, <1>1 DEF SenderNext, CreateMessage, EnqueueMessage, EnqueueFault, CancelNext, CancelInDatabase,
              CancelFault, RemoveMessage, RemoveReadQueue, RemoveFromQueue, RemoveReadProcessing,
              RemoveFromProcessing, env
<1>2. ASSUME NEW w \in Workers, WorkerNext(w)
      PROVE  faults = 0 /\ crashes = 0 /\ WorkerStep(w)
  <2>1. faults' # faults + 1
    BY <1>0
  <2>2. ~SendAnswerLost(w) /\ ~WorkerFault(w)
    BY <2>1, Zenon DEF SendAnswerLost, WorkerFault
  <2>3. WorkerStep(w)
    BY <1>2, <2>2 DEF WorkerNext
  <2>. QED
    BY <2>3 DEF WorkerStep, Poll, Claim, Unqueue, Lookup, SendAccepted, SendRejected, UpdateSent,
                RecordSent, UpdateFailed, RecordFailed, RetryRead, RetryRemove, RetryAdd, RetryRecord,
                MarkRead, MarkRemove, env
<1>3. CASE AdvanceClock \/ ProviderChange \/ UNCHANGED vars
  BY <1>3 DEF AdvanceClock, ProviderChange, vars, env
<1>4. ~Restart
  BY <1>0 DEF Restart
<1>. QED
  BY <1>1, <1>2, <1>3, <1>4 DEF Next

\* Every step of a single invocation, and of the clients, keeps the trail.
LEMMA AuditNext == Serial /\ TypeInv /\ OnceInv /\ FreshInv /\ AuditInv /\ [Next]_vars => AuditInv'
<1>. SUFFICES ASSUME Serial, TypeInv, OnceInv, FreshInv, AuditInv, [Next]_vars, faults' = 0, crashes' = 0
              PROVE  AuditInv'
  BY DEF AuditInv
<1>0. faults = 0 /\ crashes = 0
  BY FaultFreeSteps
<1>1. CASE UNCHANGED << attempts, pc, hand >> /\ queue' \subseteq queue
  BY <1>0, <1>1 DEF AuditInv, EntriesOf
<1>2. ASSUME NEW m \in Msgs, EnqueueMessage(m) PROVE AuditInv'
  <2>. DEFINE e == [messageId |-> m, attemptNumber |-> 1, nextRetryAt |-> now]
  <2>1. /\ queue' = queue \cup {e} /\ e.messageId = m /\ e.attemptNumber = 1
        /\ UNCHANGED << attempts, pc, hand >> /\ sender[m] = "enqueue"
    BY <1>2 DEF EnqueueMessage, mysql, worker
  <2>. HIDE DEF e
  <2>2. attempts[m] = << >> /\ \A w \in Workers : \A f \in hand[w] : f.messageId # m
    BY <2>1, HandIsQueued DEF FreshInv
  <2>3. Retried(1) = << >>
    BY DEF Retried
  <2>. QED
    BY <1>0, <2>1, <2>2, <2>3 DEF AuditInv, EntriesOf
<1>3. ASSUME NEW w \in Workers, Poll(w) PROVE AuditInv'
  <2>1. PICK e \in queue : hand' = [hand EXCEPT ![w] = {e}]
    BY <1>3 DEF Poll, Earliest, Due
  <2>2. pc[w] = "idle" /\ pc'[w] = "claim" /\ UNCHANGED << queue, attempts >> /\ hand'[w] = {e}
    BY <1>3, <2>1 DEF Poll, Goto, redis, mysql, TypeInv, TypeOK
  <2>3. \A f \in queue : attempts[f.messageId] = Retried(f.attemptNumber)
    BY <1>0, <2>2 DEF AuditInv, Serial
  <2>. QED
    BY <1>0, <2>2, <2>3 DEF AuditInv, Serial
<1>4. ASSUME NEW w \in Workers,
             \/ Claim(w) \/ Unqueue(w) \/ Lookup(w) \/ SendAccepted(w) \/ SendRejected(w)
             \/ RetryRead(w) \/ RetryRemove(w)
      PROVE  AuditInv'
  <2>1. /\ queue' \subseteq queue /\ UNCHANGED << attempts, hand >>
        /\ pc[w] \in Recording /\ pc[w] # "retry_record"
        /\ pc'[w] \notin {"sent_record", "fail_record", "retry_record"}
    BY <1>4 DEF Claim, Unqueue, Lookup, SendAccepted, SendRejected, Caught, RetryRead, RetryRemove,
                Goto, redis, mysql, TypeInv, TypeOK, Recording, Step
  <2>. QED
    BY <1>0, <2>1 DEF AuditInv, Serial
<1>5. ASSUME NEW w \in Workers, UpdateSent(w) \/ UpdateFailed(w) PROVE AuditInv'
  <2>1. /\ UNCHANGED << queue, attempts, hand >>
        /\ pc[w] \in {"sent_status", "fail_status"} /\ pc'[w] \in {"sent_record", "fail_record"}
    BY <1>5 DEF UpdateSent, UpdateFailed, Goto, redis, TypeInv, TypeOK
  <2>2. ASSUME NEW e \in hand[w] PROVE EntriesOf(queue, e.messageId) = {}
    <3>1. e.messageId \in Msgs /\ EntriesOf(hand[w], e.messageId) # {}
      BY DEF TypeInv, TypeOK, Entry, EntriesOf
    <3>. QED
      BY <1>0, <2>1, <3>1 DEF OnceInv, Owing
  <2>3. pc[w] \in Recording
    BY <2>1 DEF Recording, Step
  <2>. QED
    BY <1>0, <2>1, <2>2, <2>3 DEF AuditInv, Serial
<1>6. ASSUME NEW w \in Workers, RecordSent(w) \/ RecordFailed(w) PROVE AuditInv'
  <2>1. PICK e \in hand[w] : \E outcome : RecordAttempt(e, outcome)
    BY <1>6 DEF RecordSent, RecordFailed
  <2>2. PICK outcome : RecordAttempt(e, outcome)
    BY <2>1
  <2>3. /\ pc[w] \in {"sent_record", "fail_record"} /\ pc'[w] = "mark_read" /\ UNCHANGED << queue, hand >>
    BY <1>6 DEF RecordSent, RecordFailed, Goto, redis, TypeInv, TypeOK
  <2>4. e.messageId \in Msgs /\ e.attemptNumber \in Nat \ {0}
    BY ConstantsAssumption DEF TypeInv, TypeOK, Entry, AttemptNumber
  <2>5. /\ attempts[e.messageId] = Retried(e.attemptNumber)
        /\ EntriesOf(queue, e.messageId) = {}
    BY <1>0, <2>3 DEF AuditInv, Recording, Step
  <2>6. /\ attempts'[e.messageId] = Append(Retried(e.attemptNumber), <<e.attemptNumber, outcome>>)
        /\ \A m \in Msgs : m # e.messageId => attempts'[m] = attempts[m]
    BY <2>2, <2>4, <2>5 DEF RecordAttempt, TypeInv, TypeOK
  <2>7. \A m \in Msgs : Trail(attempts'[m])
    <3>1. Trail(attempts'[e.messageId])
      <4>. DEFINE k == e.attemptNumber
      <4>1. k \in Nat \ {0} /\ attempts'[e.messageId] = Append(Retried(k), <<k, outcome>>)
        BY <2>4, <2>6
      <4>. HIDE DEF k
      <4>2. Trail(Append(Retried(k), <<k, outcome>>))
        BY <4>1, RetriedGrows
      <4>. QED
        BY <4>1, <4>2, Zenon
    <3>2. \A m \in Msgs : Trail(attempts[m])
      BY <1>0 DEF AuditInv
    <3>. QED
      BY <2>6, <3>1, <3>2
  <2>8. \A f \in queue : f.messageId \in Msgs /\ f.messageId # e.messageId
    BY <2>5 DEF EntriesOf, TypeInv, TypeOK, Entry
  <2>9. \A f \in queue : attempts'[f.messageId] = Retried(f.attemptNumber)
    BY <1>0, <2>3, <2>6, <2>8 DEF AuditInv, Serial
  <2>10. pc'[w] \notin Recording
    BY <2>3 DEF Recording
  <2>. QED
    BY <2>3, <2>7, <2>9, <2>10 DEF AuditInv, Serial
<1>7. ASSUME NEW w \in Workers, RetryAdd(w) PROVE AuditInv'
  <2>1. PICK e \in hand[w] : queue' = queue \cup {RetryEntry(e)}
    BY <1>7 DEF RetryAdd
  <2>2. /\ pc[w] = "retry_add" /\ pc'[w] = "retry_record" /\ UNCHANGED << attempts, hand >>
        /\ hand[w] = {e}
    BY <1>7 DEF RetryAdd, Goto, mysql, TypeInv, TypeOK, ScopeInv
  <2>3. e.messageId \in Msgs /\ EntriesOf(hand[w], e.messageId) = {e}
    BY <2>2 DEF TypeInv, TypeOK, Entry, EntriesOf
  <2>4. EntriesOf(queue, e.messageId) = {}
    BY <1>0, <2>2, <2>3 DEF OnceInv, Owing
  <2>5. RetryEntry(e).messageId = e.messageId /\ RetryEntry(e).attemptNumber = e.attemptNumber + 1
    BY DEF RetryEntry
  <2>6. \A f \in EntriesOf(queue', e.messageId) : f.attemptNumber = e.attemptNumber + 1
    BY <2>1, <2>4, <2>5 DEF EntriesOf
  <2>7. attempts[e.messageId] = Retried(e.attemptNumber)
    BY <1>0, <2>2 DEF AuditInv, Recording, Step
  <2>8. \A f \in queue : attempts[f.messageId] = Retried(f.attemptNumber)
    BY <1>0, <2>2 DEF AuditInv, Serial
  <2>9. \A f \in queue' : EntriesOf(hand[w], f.messageId) = {} =>
            attempts[f.messageId] = Retried(f.attemptNumber)
    BY <2>1, <2>3, <2>5, <2>8
  <2>. QED
    BY <1>0, <2>2, <2>6, <2>7, <2>9 DEF AuditInv, Serial
<1>8. ASSUME NEW w \in Workers, RetryRecord(w) PROVE AuditInv'
  <2>1. PICK e \in hand[w] : RecordAttempt(e, "retrying")
    BY <1>8 DEF RetryRecord
  <2>2. pc[w] = "retry_record" /\ pc'[w] = "idle" /\ UNCHANGED queue
    BY <1>8 DEF RetryRecord, Return, redis, TypeInv, TypeOK
  <2>3. e.messageId \in Msgs /\ e.attemptNumber \in Nat \ {0} /\ hand[w] = {e}
    BY ConstantsAssumption DEF TypeInv, TypeOK, ScopeInv, Entry, AttemptNumber
  <2>4. attempts[e.messageId] = Retried(e.attemptNumber)
    BY <1>0, <2>2 DEF AuditInv, Recording, Step
  <2>5. /\ attempts'[e.messageId] = Append(Retried(e.attemptNumber), <<e.attemptNumber, "retrying">>)
        /\ \A m \in Msgs : m # e.messageId => attempts'[m] = attempts[m]
    BY <2>1, <2>3, <2>4 DEF RecordAttempt, TypeInv, TypeOK
  <2>6. \A m \in Msgs : Trail(attempts'[m])
    <3>1. Trail(attempts'[e.messageId])
      <4>. DEFINE k == e.attemptNumber
      <4>1. k \in Nat \ {0} /\ attempts'[e.messageId] = Append(Retried(k), <<k, "retrying">>)
        BY <2>3, <2>5
      <4>. HIDE DEF k
      <4>2. Trail(Append(Retried(k), <<k, "retrying">>))
        BY <4>1, RetriedGrows
      <4>. QED
        BY <4>1, <4>2, Zenon
    <3>2. \A m \in Msgs : Trail(attempts[m])
      BY <1>0 DEF AuditInv
    <3>. QED
      BY <2>5, <3>1, <3>2
  <2>7. attempts'[e.messageId] = Retried(e.attemptNumber + 1)
    BY <2>3, <2>5, RetriedGrows
  <2>8. ASSUME NEW f \in queue PROVE attempts'[f.messageId] = Retried(f.attemptNumber)
    <3>1. f.messageId \in Msgs
      BY DEF TypeInv, TypeOK, Entry
    <3>2. CASE f.messageId = e.messageId
      BY <1>0, <2>2, <2>7, <3>2 DEF AuditInv, EntriesOf
    <3>3. CASE f.messageId # e.messageId
      <4>1. EntriesOf(hand[w], f.messageId) = {}
        BY <2>3, <3>3 DEF EntriesOf
      <4>2. attempts[f.messageId] = Retried(f.attemptNumber)
        BY <1>0, <4>1 DEF AuditInv, Serial
      <4>. QED
        BY <2>5, <3>1, <3>3, <4>2
    <3>. QED
      BY <3>2, <3>3
  <2>. QED
    BY <2>2, <2>6, <2>8 DEF AuditInv, Serial, Recording
<1>9. ASSUME NEW w \in Workers, MarkRead(w) \/ MarkRemove(w) PROVE AuditInv'
  <2>1. /\ UNCHANGED << queue, attempts >> /\ pc[w] \in {"mark_read", "mark_rem"}
        /\ pc'[w] \in {"idle", "mark_rem"}
    BY <1>9 DEF MarkRead, MarkRemove, Goto, Return, redis, mysql, TypeInv, TypeOK
  <2>2. pc'[w] \notin Recording
    BY <2>1 DEF Recording
  <2>. QED
    BY <1>0, <2>1, <2>2 DEF AuditInv, Serial
<1>10. ASSUME NEW m \in Msgs, CreateMessage(m) \/ CancelInDatabase(m) \/ RemoveMessage(m) PROVE AuditInv'
  <2>1. UNCHANGED << attempts, pc, hand >> /\ queue' \subseteq queue
    BY <1>10 DEF CreateMessage, CancelInDatabase, RemoveMessage, RemoveReadQueue, RemoveFromQueue,
                 RemoveReadProcessing, RemoveFromProcessing, redis, mysql, worker
  <2>. QED
    BY <1>1, <2>1
<1>11. CASE AdvanceClock \/ ProviderChange \/ UNCHANGED vars
  <2>1. UNCHANGED << queue, attempts, pc, hand >>
    BY <1>11 DEF AdvanceClock, ProviderChange, vars, redis, mysql, worker
  <2>. QED
    BY <1>1, <2>1
<1>. QED
  BY <1>2, <1>3, <1>4, <1>5, <1>6, <1>7, <1>8, <1>9, <1>10, <1>11, FaultFreeSteps DEF WorkerStep

\* Without overlap, faults and restarts the audit trail of a message is one row
\* for each attempt, in their order, all but the last "retrying": no attempt is
\* skipped and none is recorded twice (message-repository.ts recordAttempt).
THEOREM TrailHasNoHoles == Serial => (Spec => []AuditTrail)
<1>. SUFFICES ASSUME Serial PROVE Spec => []AuditTrail
  OBVIOUS
<1>. DEFINE Inv == ClientInv /\ FreshInv /\ OnceInv /\ AuditInv
<1>1. Init => Inv
  BY LossInit, FreshInit, OnceInit, AuditInit DEF LossInv
<1>2. TypeInv /\ Inv /\ [Next]_vars => Inv'
  BY ClientNext, FreshNext, OnceNext, AuditNext
<1>3. Inv => AuditTrail
  BY DEF AuditInv, AuditTrail, Trail
<1>. QED
  BY <1>1, <1>2, <1>3, TypeInvariant, PTL DEF Spec

=============================================================================
