----------------------- MODULE ServerLifecycleProofs -----------------------
(***************************************************************************)
(* Theorems about ServerLifecycle, for any signals, messages and numbers   *)
(* of faults and exits: what a request finds while signals arrive, and     *)
(* what the shutdowns of the process may cost a message.                   *)
(***************************************************************************)
EXTENDS ServerLifecycle, OutboundQueueProofs

-----------------------------------------------------------------------------
(* Handlers have their resources *)

\* Signals are handled only once start() has registered them, shutdown() goes
\* past server.close() only when no request is left, and from then on no new
\* one is taken.
StopInv ==
    /\ shut \in [Signals -> ShutStep]
    /\ boot = "up" \/ \A s \in Signals : shut[s] = "idle"
    /\ \A s \in Signals : shut[s] \in {"http", "whatsapp", "database", "redis"} => http = "closing"
    /\ \A s \in Signals : shut[s] \in {"whatsapp", "database", "redis"} => requests = {}

\* No signal has arrived.
LEMMA StopInit == ServerInit => StopInv
  BY DEF ServerInit, StopInv, ShutStep

\* A shutdown goes on to its next await.
LEMMA ProceedStops ==
    ASSUME StopInv, NEW s \in Signals, NEW from \in ShutStep, NEW to \in ShutStep, Proceed(s, from, to),
           << from, to >> \in {<<"whatsapp", "database">>, <<"database", "redis">>}
               \/ (from = "http" /\ to = "whatsapp" /\ requests = {})
    PROVE  StopInv'
<1>1. /\ shut[s] = from /\ UNCHANGED << boot, http, requests >>
      /\ \A t \in Signals : shut'[t] = IF t = s THEN to ELSE shut[t]
      /\ shut' \in [Signals -> ShutStep]
  BY DEF StopInv, Proceed
<1>. QED
  BY <1>1 DEF StopInv

\* The process ended and starts again.
LEMMA ExitStops == Exit => StopInv'
  BY DEF Exit, StopInv, ShutStep

\* Every step keeps the order of the shutdown.
LEMMA StopNext == StopInv /\ [ServerNext]_serverVars => StopInv'
<1>. SUFFICES ASSUME StopInv, [ServerNext]_serverVars PROVE StopInv'
  OBVIOUS
<1>1. CASE Boots
  <2>1. CASE DatabaseStarted \/ RedisStarted
    BY <2>1 DEF StopInv, DatabaseStarted, RedisStarted, Started
  <2>2. CASE ProviderStarted
    BY <2>2 DEF StopInv, ProviderStarted
  <2>. QED
    BY <1>1, <2>1, <2>2 DEF Boots
<1>2. CASE StartFails \/ Kill
  BY <1>2, ExitStops DEF StartFails, Kill
<1>3. ASSUME NEW s \in Signals, Signal(s) PROVE StopInv'
  <2>1. \E to \in {"http", "http_error"} :
           /\ shut' = [shut EXCEPT ![s] = to]
           /\ http' = IF to = "http" THEN "closing" ELSE http
           /\ to = "http" => http = "listening"
    BY <1>3 DEF Signal
  <2>2. boot = "up" /\ UNCHANGED << boot, requests >> /\ shut[s] = "idle"
    BY <1>3 DEF Signal
  <2>. QED
    BY <2>1, <2>2 DEF StopInv, ShutStep
<1>4. ASSUME NEW s \in Signals, ShutdownStep(s) PROVE StopInv'
  <2>1. CASE HttpCloseFails(s) \/ CloseFails(s) \/ ResourcesClosed(s)
    BY <2>1, ExitStops DEF HttpCloseFails, CloseFails, ResourcesClosed
  <2>2. CASE HttpClosed(s)
    BY <2>2, ProceedStops DEF HttpClosed, ShutStep
  <2>3. CASE ProviderDisconnected(s)
    BY <2>3, ProceedStops DEF ProviderDisconnected, ShutStep
  <2>4. CASE DatabaseEnded(s)
    BY <2>4, ProceedStops DEF DatabaseEnded, ShutStep
  <2>. QED
    BY <1>4, <2>1, <2>2, <2>3, <2>4 DEF ShutdownStep
<1>5. ASSUME NEW r \in Request, Arrive(r) PROVE StopInv'
  BY <1>5 DEF StopInv, Arrive
<1>6. ASSUME NEW r \in Request, Handle(r) PROVE StopInv'
  <2>1. requests' \subseteq requests /\ UNCHANGED << boot, http, shut >>
    BY <1>6 DEF Handle
  <2>. QED
    BY <2>1 DEF StopInv
<1>7. ASSUME NEW w \in Workers, Takes(w) \/ Works(w) \/ Refused(w) \/ SendSevered(w) PROVE StopInv'
  BY <1>7 DEF StopInv, Takes, Works, Refused, SendSevered, life
<1>8. CASE Environment \/ UNCHANGED serverVars
  BY <1>8 DEF StopInv, Environment, serverVars, life
<1>. QED
  BY <1>1, <1>2, <1>3, <1>4, <1>5, <1>6, <1>7, <1>8 DEF ServerNext

\* A handler that is answering a request never finds the pool or the Redis
\* client closed, whichever signals arrive and whatever fails (server.ts 117-144).
THEOREM HandlersKeepTheirResources == ServerSpec => []HandlersHaveResources
<1>1. StopInv => HandlersHaveResources
  BY DEF StopInv, HandlersHaveResources, DatabaseCloses, RedisCloses, ShutdownAwaits
<1>. QED
  BY <1>1, StopInit, StopNext, PTL DEF ServerSpec

-----------------------------------------------------------------------------
(* The queue's invariants in the process *)

\* Every step of the process is a step of the queue or leaves it alone, except
\* that a closing resource may tear an entry from an invocation.
LEMMA QueueOrTorn ==
    ASSUME TypeInv, [ServerNext]_serverVars
    PROVE  [Next]_vars \/ \E w \in Workers : Refused(w) \/ SendSevered(w)
<1>1. CASE Boots
  BY <1>1 DEF Boots, DatabaseStarted, RedisStarted, Started, ProviderStarted
<1>2. Exit => Next
  BY DEF Exit, Next
<1>3. CASE StartFails \/ Kill
  BY <1>2, <1>3 DEF StartFails, Kill
<1>4. ASSUME NEW s \in Signals, Signal(s) PROVE UNCHANGED vars
  BY <1>4 DEF Signal
<1>5. ASSUME NEW s \in Signals, ShutdownStep(s) PROVE [Next]_vars
  <2>1. CASE HttpCloseFails(s) \/ CloseFails(s) \/ ResourcesClosed(s)
    BY <1>2, <2>1 DEF HttpCloseFails, CloseFails, ResourcesClosed
  <2>2. CASE HttpClosed(s) \/ DatabaseEnded(s)
    BY <2>2 DEF HttpClosed, DatabaseEnded
  <2>3. CASE ProviderDisconnected(s)
    <3>1. /\ ready' = FALSE
          /\ UNCHANGED << now, redis, mysql, client, worker, faults, crashes, accepted >>
      BY <2>3 DEF ProviderDisconnected
    <3>2. CASE ready = TRUE
      <4>1. ready' = ~ready
        BY <3>1, <3>2, Zenon
      <4>2. ProviderChange
        BY <3>1, <4>1 DEF ProviderChange
      <4>. QED
        BY <4>2 DEF Next
    <3>3. CASE ready = FALSE
      <4>1. ready' = ready
        BY <3>1, <3>3, Zenon
      <4>. QED
        BY <3>1, <4>1 DEF vars, env
    <3>4. ready = TRUE \/ ready = FALSE
      BY Zenon DEF TypeInv, TypeOK
    <3>. QED
      BY <3>2, <3>3, <3>4
  <2>. QED
    BY <1>5, <2>1, <2>2, <2>3 DEF ShutdownStep
<1>6. ASSUME NEW r \in Request, Arrive(r) \/ Handle(r) PROVE [Next]_vars
  <2>1. r[2] \in Msgs
    BY DEF Request
  <2>. QED
    BY <1>6, <2>1 DEF Arrive, Handle, Next
<1>7. ASSUME NEW w \in Workers, Takes(w) \/ Works(w) PROVE Next
  BY <1>7 DEF Takes, Works, Next, WorkerNext, WorkerStep
<1>8. CASE Environment \/ UNCHANGED serverVars
  BY <1>8 DEF Environment, serverVars, Next
<1>. QED
  BY <1>1, <1>3, <1>4, <1>5, <1>6, <1>7, <1>8 DEF ServerNext

\* What tearing does: the invocation is in the handler of the send's error, or
\* has returned, and only a severed send is counted.
LEMMA TornStep ==
    ASSUME TypeInv, NEW w \in Workers, Refused(w) \/ SendSevered(w)
    PROVE  /\ pc[w] # "idle" /\ Stopping
           /\ UNCHANGED << queue, status, attempts, sender, canceller, cancelFound, acked, faults >>
           /\ UNCHANGED << life, orderly >>
           /\ \/ scope[w] # "outer" /\ Caught(w, TRUE)
              \/ scope[w] # "try" /\ Return(w)
           /\ \/ UNCHANGED accepted
              \/ /\ pc[w] = "send" /\ Caught(w, TRUE)
                 /\ \E e \in hand[w] : accepted' = [accepted EXCEPT ![e.messageId] = @ + 1]
<1>1. CASE Refused(w)
  BY <1>1 DEF Refused, DatabaseCall, RedisCall, DatabaseCloses, RedisCloses, ShutdownAwaits, Stopping, ShutStep,
              redis, mysql, client, env
<1>2. CASE SendSevered(w)
  BY <1>2 DEF SendSevered, ShutdownAwaits, Stopping, ShutStep, redis, mysql, client, env, TypeInv, ScopeInv
<1>. QED
  BY <1>1, <1>2

\* The invariants of the queue survive it.
LEMMA TornKeeps ==
    ASSUME Serial, TypeInv, ClientInv, FreshInv, TakenInv,
           NEW w \in Workers, Refused(w) \/ SendSevered(w)
    PROVE  TypeInv' /\ ClientInv' /\ FreshInv' /\ TakenInv'
<1>1. /\ pc[w] # "idle"
      /\ UNCHANGED << queue, status, attempts, sender, canceller, cancelFound, acked, faults >>
      /\ \/ scope[w] # "outer" /\ Caught(w, TRUE)
         \/ scope[w] # "try" /\ Return(w)
      /\ \/ UNCHANGED accepted
         \/ \E e \in hand[w] : accepted' = [accepted EXCEPT ![e.messageId] = @ + 1]
  BY TornStep
<1>2. UNCHANGED << now, processing, ready, crashes >>
  BY DEF Refused, SendSevered, redis, env
<1>3. /\ pc' \in [Workers -> Step] /\ hand' \in [Workers -> SUBSET Entry]
      /\ found' \in [Workers -> SUBSET Entry] /\ scope' \in [Workers -> Scope]
      /\ ScopeInv'
  <2>1. CASE scope[w] # "outer" /\ Caught(w, TRUE)
    BY <1>1, <2>1, CaughtType
  <2>2. CASE Return(w)
    BY <2>2 DEF Return, TypeInv, TypeOK, ScopeInv, Step, Scope
  <2>. QED
    BY <1>1, <2>1, <2>2
<1>4. accepted' \in [Msgs -> Nat]
  BY <1>1 DEF TypeInv, TypeOK, Entry
<1>5. TypeInv'
  BY <1>1, <1>2, <1>3, <1>4 DEF TypeInv, TypeOK
<1>6. ClientInv'
  BY <1>1 DEF ClientInv
<1>7. \A v \in Workers : hand'[v] \subseteq hand[v]
  BY <1>1 DEF Caught, Return, TypeInv, TypeOK
<1>8. \A m \in Msgs : sender[m] # "done" => accepted'[m] = accepted[m]
  BY <1>1, HandIsQueued DEF TypeInv, TypeOK
<1>9. FreshInv'
  BY <1>1, <1>7, <1>8 DEF FreshInv, EntriesOf
<1>10. TakenInv'
  <2>1. CASE Return(w)
    <3>1. pc'[w] = "idle"
      BY <2>1 DEF Return, TypeInv, TypeOK
    <3>. QED
      BY <1>1, <3>1 DEF Serial, TakenInv
  <2>2. CASE scope[w] # "outer" /\ Caught(w, TRUE)
    <3>1. pc'[w] \in {"retry_read", "fail_status"} /\ UNCHANGED hand
      BY <2>2 DEF Caught, Goto, TypeInv, TypeOK
    <3>2. pc[w] \notin {"idle", "claim", "unqueue"}
      BY <1>1, <2>2 DEF TakenInv
    <3>. QED
      BY <1>1, <3>1, <3>2 DEF Serial, TakenInv
  <2>. QED
    BY <1>1, <2>1, <2>2
<1>. QED
  BY <1>5, <1>6, <1>9, <1>10

QueueInv == TypeInv /\ ClientInv /\ FreshInv /\ TakenInv

\* A process whose invocations do not overlap starts with them and keeps them.
LEMMA QueueInvInit == ServerInit => QueueInv
  BY TypeInit, LossInit, FreshInit, TakenInit DEF ServerInit, QueueInv, LossInv

\* Every step of the process keeps them.
LEMMA QueueInvNext == Serial /\ QueueInv /\ [ServerNext]_serverVars => QueueInv'
<1>. SUFFICES ASSUME Serial, QueueInv, [ServerNext]_serverVars PROVE QueueInv'
  OBVIOUS
<1>1. CASE [Next]_vars
  BY <1>1, TypeNext, ClientNext, FreshNext, TakenNext DEF QueueInv
<1>2. ASSUME NEW w \in Workers, Refused(w) \/ SendSevered(w) PROVE QueueInv'
  BY <1>2, TornKeeps DEF QueueInv
<1>. QED
  BY <1>1, <1>2, QueueOrTorn DEF QueueInv

-----------------------------------------------------------------------------
(* What the shutdowns may cost *)

\* Where an invocation can await once the send's error was handled: it sends no
\* more, and an error is swallowed.
CatchSteps == {"retry_read", "retry_rem", "retry_add", "retry_record",
               "fail_status", "fail_record", "mark_read", "mark_rem"}

CatchInv == \A w \in Workers : scope[w] = "catch" => pc[w] \in CatchSteps

\* Nothing has failed yet.
LEMMA CatchInit == Init => CatchInv
  BY DEF Init, CatchInv

\* Every step of the queue keeps the handler from sending.
LEMMA CatchNext == TypeInv /\ CatchInv /\ [Next]_vars => CatchInv'
<1>. SUFFICES ASSUME TypeInv, CatchInv, [Next]_vars PROVE CatchInv'
  OBVIOUS
<1>. USE DEF CatchSteps
<1>1. CASE UNCHANGED << pc, scope >>
  BY <1>1 DEF CatchInv
<1>2. ASSUME NEW w \in Workers, Poll(w) \/ Claim(w) \/ Unqueue(w) \/ Lookup(w) \/ SendAccepted(w) PROVE CatchInv'
  <2>1. /\ pc[w] \notin CatchSteps /\ \A v \in Workers \ {w} : pc'[v] = pc[v] /\ scope'[v] = scope[v]
        /\ scope'[w] \in {scope[w], "try"}
    BY <1>2 DEF Poll, Claim, Unqueue, Lookup, SendAccepted, Goto, TypeInv, TypeOK
  <2>. QED
    BY <2>1 DEF CatchInv
<1>3. ASSUME NEW w \in Workers,
             \/ UpdateSent(w) \/ RecordSent(w) \/ UpdateFailed(w) \/ RecordFailed(w)
             \/ RetryRead(w) \/ RetryRemove(w) \/ RetryAdd(w)
      PROVE  CatchInv'
  <2>1. /\ scope' = scope /\ \A v \in Workers \ {w} : pc'[v] = pc[v]
        /\ pc'[w] \in CatchSteps \cup {"sent_record"} /\ (pc'[w] = "sent_record" => pc[w] = "sent_status")
    BY <1>3 DEF UpdateSent, RecordSent, UpdateFailed, RecordFailed, RetryRead, RetryRemove, RetryAdd,
                Goto, TypeInv, TypeOK
  <2>. QED
    BY <2>1 DEF CatchInv
<1>4. ASSUME NEW w \in Workers, Return(w) PROVE CatchInv'
  BY <1>4 DEF CatchInv, Return, TypeInv, TypeOK
<1>5. ASSUME NEW w \in Workers, NEW retryable, Caught(w, retryable) PROVE CatchInv'
  BY <1>5 DEF CatchInv, Caught, Goto, TypeInv, TypeOK
<1>6. ASSUME NEW w \in Workers, RetryRecord(w) \/ MarkRead(w) \/ MarkRemove(w) PROVE CatchInv'
  <2>1. CASE MarkRead(w) /\ Goto(w, "mark_rem") /\ UNCHANGED << hand, scope >>
    BY <2>1 DEF CatchInv, MarkRead, Goto, TypeInv, TypeOK
  <2>. QED
    BY <1>4, <1>6, <2>1 DEF RetryRecord, MarkRead, MarkRemove
<1>7. ASSUME NEW w \in Workers, SendRejected(w) \/ SendAnswerLost(w) \/ WorkerFault(w) PROVE CatchInv'
  BY <1>4, <1>5, <1>7 DEF SendRejected, SendAnswerLost, WorkerFault
<1>8. ASSUME NEW m \in Msgs, SenderNext(m) \/ CancelNext(m) PROVE CatchInv'
  <2>1. UNCHANGED << pc, scope >>
    BY <1>8 DEF SenderNext, CreateMessage, EnqueueMessage, EnqueueFault, CancelNext, CancelInDatabase,
                CancelFault, RemoveMessage, RemoveReadQueue, RemoveFromQueue, RemoveReadProcessing,
                RemoveFromProcessing, worker
  <2>. QED
    BY <1>1, <2>1
<1>9. CASE AdvanceClock \/ ProviderChange \/ UNCHANGED vars
  <2>1. UNCHANGED << pc, scope >>
    BY <1>9 DEF AdvanceClock, ProviderChange, vars, worker
  <2>. QED
    BY <1>1, <2>1
<1>10. CASE Restart
  BY <1>10 DEF CatchInv, Restart
<1>. QED
  BY <1>2, <1>3, <1>6, <1>7, <1>8, <1>9, <1>10 DEF Next, WorkerNext, WorkerStep

\* Once caught, an invocation stays so until it returns.
LEMMA CaughtStays ==
    ASSUME TypeInv, CatchInv, NEW w \in Workers, WorkerNext(w), pc[w] # "idle", scope[w] = "catch"
    PROVE  pc'[w] = "idle" \/ scope'[w] = "catch"
<1>1. ~Lookup(w)
  BY DEF Lookup, CatchInv, CatchSteps
<1>2. CASE UNCHANGED scope
  BY <1>2
<1>3. CASE Return(w)
  BY <1>3 DEF Return, TypeInv, TypeOK
<1>4. ASSUME NEW retryable, Caught(w, retryable) PROVE scope'[w] = "catch"
  BY <1>4 DEF Caught, TypeInv, TypeOK
<1>. QED
  BY <1>1, <1>2, <1>3, <1>4 DEF WorkerNext, WorkerStep, Poll, Claim, Unqueue, SendAccepted, SendRejected,
     SendAnswerLost, UpdateSent, RecordSent, UpdateFailed, RecordFailed, RetryRead, RetryRemove, RetryAdd,
     RetryRecord, MarkRead, MarkRemove, WorkerFault

\* Nor does a closing resource make it send again.
LEMMA CatchServerNext == TypeInv /\ CatchInv /\ [ServerNext]_serverVars => CatchInv'
<1>. SUFFICES ASSUME TypeInv, CatchInv, [ServerNext]_serverVars PROVE CatchInv'
  OBVIOUS
<1>1. ASSUME NEW w \in Workers, Refused(w) \/ SendSevered(w) PROVE CatchInv'
  <2>1. Caught(w, TRUE) \/ Return(w)
    BY <1>1, TornStep
  <2>2. /\ \A v \in Workers \ {w} : pc'[v] = pc[v] /\ scope'[v] = scope[v]
        /\ scope'[w] = "outer" \/ pc'[w] \in {"retry_read", "fail_status"}
    BY <2>1 DEF Caught, Return, Goto, TypeInv, TypeOK
  <2>. QED
    BY <2>2 DEF CatchInv, CatchSteps
<1>. QED
  BY <1>1, QueueOrTorn, CatchNext

\* An invocation from which a closing resource may still tear its entry: one
\* that the timer has started, or that works and was not caught yet.
MayBeTorn(w) == w \in polling \/ (pc[w] # "idle" /\ scope[w] # "catch")

\* What the shutdown under way may still cost.
Reserve == IF Stopping /\ \E w \in Workers : MayBeTorn(w) THEN 1 ELSE 0

\* Only an invocation that had not taken an entry when the interval was cleared
\* may still take one.
TimerInv ==
    /\ polling \subseteq Workers
    /\ Stopping => \A w \in polling : pc[w] = "idle"

ReserveInv ==
    /\ orderly \in Nat /\ Reserve <= orderly
    /\ \A m \in Msgs : Load(m) <= 1 + faults + (orderly - Reserve)

\* The worker's timer is off, and no shutdown has begun.
LEMMA TimerInit == ServerInit => TimerInv
  BY DEF ServerInit, TimerInv

\* A shutdown begins with a signal.
LEMMA StoppingStep ==
    ASSUME StopInv, [ServerNext]_serverVars, Stopping'
    PROVE  Stopping \/ \E s \in Signals : Signal(s)
<1>0. PICK s \in Signals : shut'[s] \in ShutStep \ {"idle"}
  BY DEF Stopping, ShutdownAwaits
<1>1. Exit => FALSE
  BY <1>0 DEF Exit
<1>2. CASE UNCHANGED shut
  BY <1>0, <1>2 DEF Stopping, ShutdownAwaits
<1>3. ASSUME NEW t \in Signals, ShutdownStep(t) PROVE Stopping
  <2>1. shut[t] \in ShutStep \ {"idle"}
    BY <1>1, <1>3 DEF ShutdownStep, HttpClosed, HttpCloseFails, ProviderDisconnected, DatabaseEnded,
                      CloseFails, ResourcesClosed, Proceed, ShutStep
  <2>. QED
    BY <2>1 DEF Stopping, ShutdownAwaits
<1>. QED
  BY <1>1, <1>2, <1>3 DEF ServerNext, Boots, DatabaseStarted, RedisStarted, Started, ProviderStarted,
     StartFails, Kill, Arrive, Handle, Takes, Works, Refused, SendSevered, Environment, serverVars, life

\* What the steps of the process do to the invocations while it stops.
LEMMA StepsWhileStopping ==
    ASSUME StopInv, TimerInv, [ServerNext]_serverVars, Stopping'
    PROVE  \/ \E s \in Signals : Signal(s)
           \/ Stopping /\ UNCHANGED << pc, scope, polling >>
           \/ Stopping /\ \E w \in Workers : Takes(w) \/ Works(w) \/ Refused(w) \/ SendSevered(w)
<1>0. SUFFICES ASSUME ~\E s \in Signals : Signal(s), Stopping
               PROVE  \/ UNCHANGED << pc, scope, polling >>
                      \/ \E w \in Workers : Takes(w) \/ Works(w) \/ Refused(w) \/ SendSevered(w)
  BY StoppingStep
<1>1. ~Boots
  BY <1>0 DEF StopInv, Stopping, ShutdownAwaits, Boots, DatabaseStarted, RedisStarted, Started, ProviderStarted
<1>2. ~Exit
  BY DEF Exit, Stopping, ShutdownAwaits
<1>3. ASSUME NEW s \in Signals, ShutdownStep(s) PROVE UNCHANGED << pc, scope, polling >>
  BY <1>2, <1>3 DEF ShutdownStep, HttpClosed, HttpCloseFails, ProviderDisconnected, DatabaseEnded,
                    CloseFails, ResourcesClosed, Proceed, vars, worker
<1>4. ASSUME NEW r \in Request, Arrive(r) \/ Handle(r) PROVE UNCHANGED << pc, scope, polling >>
  BY <1>4 DEF Arrive, Handle, SenderNext, CreateMessage, EnqueueMessage, EnqueueFault, CancelNext,
              CancelInDatabase, CancelFault, RemoveMessage, RemoveReadQueue, RemoveFromQueue,
              RemoveReadProcessing, RemoveFromProcessing, vars, worker
<1>5. CASE Environment \/ UNCHANGED serverVars
  BY <1>5 DEF Environment, AdvanceClock, ProviderChange, serverVars, vars, worker, life
<1>. QED
  BY <1>0, <1>1, <1>2, <1>3, <1>4, <1>5 DEF ServerNext, StartFails, Kill

\* A working invocation that stops being idle, or uncaught, had not been caught
\* before; without overlap it is the only one.
LEMMA MayBeTornStep ==
    ASSUME Serial, TypeInv, CatchInv, TimerInv, NEW v \in Workers, Stopping,
           Takes(v) \/ Works(v) \/ Refused(v) \/ SendSevered(v), NEW w \in Workers, MayBeTorn(w)'
    PROVE  MayBeTorn(w)
<1>0. v = w
  BY DEF Serial
<1>1. CASE Takes(v)
  BY <1>0, <1>1 DEF Takes, MayBeTorn
<1>2. CASE Works(v)
  <2>1. pc[w] # "idle" /\ WorkerNext(w) /\ polling' = polling
    BY <1>0, <1>2 DEF Works, life
  <2>. QED
    BY <2>1, CaughtStays DEF MayBeTorn
<1>3. CASE Refused(v) \/ SendSevered(v)
  <2>1. /\ polling' = polling /\ pc[w] # "idle"
        /\ Caught(w, TRUE) \/ Return(w)
    BY <1>0, <1>3, TornStep DEF life
  <2>2. scope'[w] = "catch" \/ pc'[w] = "idle"
    BY <2>1 DEF Caught, Return, TypeInv, TypeOK
  <2>. QED
    BY <2>1, <2>2 DEF MayBeTorn, TimerInv
<1>. QED
  BY <1>1, <1>2, <1>3

\* Every step keeps the timer's invocations idle while the process stops.
LEMMA TimerNext ==
    Serial /\ TypeInv /\ StopInv /\ TimerInv /\ [ServerNext]_serverVars => TimerInv'
<1>. SUFFICES ASSUME Serial, TypeInv, StopInv, TimerInv, [ServerNext]_serverVars PROVE TimerInv'
  OBVIOUS
<1>1. polling' \subseteq Workers
  BY DEF TimerInv, ServerNext, Boots, DatabaseStarted, RedisStarted, Started, ProviderStarted, StartFails,
         Kill, Exit, Signal, ShutdownStep, HttpClosed, HttpCloseFails, ProviderDisconnected, DatabaseEnded,
         CloseFails, ResourcesClosed, Proceed, Arrive, Handle, Takes, Works, Refused, SendSevered,
         Environment, serverVars, life
<1>2. ASSUME Stopping', NEW w \in polling' PROVE pc'[w] = "idle"
  <2>1. CASE \E s \in Signals : Signal(s)
    BY <1>2, <2>1 DEF Signal, vars, worker
  <2>2. CASE Stopping /\ UNCHANGED << pc, scope, polling >>
    BY <1>2, <2>2 DEF TimerInv
  <2>3. ASSUME NEW v \in Workers, Stopping, Takes(v) \/ Works(v) \/ Refused(v) \/ SendSevered(v) PROVE FALSE
    <3>1. v = w
      BY <1>1, <1>2 DEF Serial
    <3>2. pc[v] # "idle" => v \notin polling
      BY <2>3 DEF TimerInv
    <3>3. CASE Takes(v)
      BY <1>2, <2>3, <3>1, <3>3 DEF Takes
    <3>4. CASE Works(v)
      BY <1>2, <3>1, <3>2, <3>4 DEF Works, life
    <3>5. CASE Refused(v) \/ SendSevered(v)
      BY <1>2, <3>1, <3>2, <3>5, TornStep DEF life
    <3>. QED
      BY <2>3, <3>3, <3>4, <3>5
  <2>. QED
    BY <1>2, <2>1, <2>2, <2>3, StepsWhileStopping
<1>. QED
  BY <1>1, <1>2 DEF TimerInv

\* What is in reserve is never more than what the shutdowns have paid for, and
\* what they have paid for already never becomes less.
LEMMA ReserveStep ==
    ASSUME Serial, TypeInv, CatchInv, StopInv, TimerInv, orderly \in Nat, Reserve <= orderly,
           [ServerNext]_serverVars
    PROVE  /\ orderly' \in Nat /\ Reserve \in {0, 1} /\ Reserve' \in {0, 1} /\ Reserve' <= orderly'
           /\ orderly - Reserve <= orderly' - Reserve'
<1>0. Reserve \in {0, 1} /\ Reserve' \in {0, 1}
  BY DEF Reserve
<1>1. ASSUME NEW s \in Signals, Signal(s)
      PROVE  \/ orderly' = orderly + 1 /\ Reserve = 0
             \/ orderly' = orderly /\ Reserve' <= Reserve
  <2>1. CASE ~Stopping
    <3>1. Reserve = 0
      BY <2>1 DEF Reserve
    <3>2. orderly' = orderly + 1
      BY <1>1, <2>1, Zenon DEF Signal
    <3>. QED
      BY <3>1, <3>2
  <2>2. CASE Stopping
    <3>1. orderly' = orderly /\ UNCHANGED << pc, scope >> /\ polling' \subseteq polling
      BY <1>1, <2>2 DEF Signal, vars, worker
    <3>2. \A w \in Workers : MayBeTorn(w)' => MayBeTorn(w)
      BY <3>1 DEF MayBeTorn
    <3>. QED
      BY <2>2, <3>1, <3>2 DEF Reserve
  <2>. QED
    BY <2>1, <2>2
<1>2. ASSUME ~\E s \in Signals : Signal(s) PROVE orderly' = orderly /\ Reserve' <= Reserve
  <2>1. orderly' = orderly
    BY <1>2 DEF ServerNext, Boots, DatabaseStarted, RedisStarted, Started, ProviderStarted, StartFails,
         Kill, Exit, ShutdownStep, HttpClosed, HttpCloseFails, ProviderDisconnected, DatabaseEnded,
         CloseFails, ResourcesClosed, Proceed, Arrive, Handle, Takes, Works, Refused, SendSevered,
         Environment, serverVars
  <2>2. ASSUME Stopping', NEW w \in Workers, MayBeTorn(w)' PROVE Stopping /\ MayBeTorn(w)
    <3>1. CASE Stopping /\ UNCHANGED << pc, scope, polling >>
      BY <2>2, <3>1 DEF MayBeTorn
    <3>. QED
      BY <1>2, <2>2, <3>1, StepsWhileStopping, MayBeTornStep
  <2>3. Reserve' <= Reserve
    BY <2>2 DEF Reserve
  <2>. QED
    BY <2>1, <2>3
<1>. QED
  BY <1>0, <1>1, <1>2

\* A torn invocation costs at most one: its message was sent and is tried again.
LEMMA LoadOfTorn ==
    ASSUME Serial, TypeInv, NEW w \in Workers, Refused(w) \/ SendSevered(w), NEW m \in Msgs,
           IsFiniteSet(Copies(m)), accepted'[m] \in Nat
    PROVE  /\ IsFiniteSet(Copies(m)') /\ Load(m) \in Nat /\ Load(m)' \in Nat
           /\ Load(m)' <= Load(m) + 1
           /\ ~Caught(w, TRUE) => Load(m)' <= Load(m)
<1>. DEFINE C == Copies(m)
            D == Copies(m)'
<1>1. /\ UNCHANGED queue
      /\ Caught(w, TRUE) \/ Return(w)
      /\ \/ UNCHANGED accepted
         \/ /\ pc[w] = "send" /\ Caught(w, TRUE)
            /\ \E e \in hand[w] : accepted' = [accepted EXCEPT ![e.messageId] = @ + 1]
  BY TornStep
<1>2. \/ accepted'[m] = accepted[m] /\ D \subseteq C
      \/ Caught(w, TRUE) /\ accepted'[m] = accepted[m] /\ \E e : D \subseteq C \cup {e}
      \/ Caught(w, TRUE) /\ accepted'[m] = accepted[m] + 1 /\ D \subseteq C
  <2>1. CASE Return(w) /\ UNCHANGED accepted
    <3>1. hand'[w] = {}
      BY <2>1 DEF Return, TypeInv, TypeOK
    <3>2. D \subseteq C
      BY <1>1, <3>1, SerialCopies DEF EntriesOf
    <3>. QED
      BY <2>1, <3>2
  <2>2. CASE Caught(w, TRUE) /\ UNCHANGED accepted
    <3>1. \E e : D \subseteq C \cup {e}
      BY <1>1, <2>2, CopiesCaught
    <3>. QED
      BY <2>2, <3>1
  <2>3. CASE /\ pc[w] = "send" /\ Caught(w, TRUE)
             /\ \E e \in hand[w] : accepted' = [accepted EXCEPT ![e.messageId] = @ + 1]
    <3>1. pc[w] \in Sendable
      BY <2>3 DEF Sendable, Owing
    <3>2. D \subseteq C
      BY <1>1, <2>3, <3>1, CopiesCaught
    <3>3. accepted'[m] \in {accepted[m], accepted[m] + 1}
      BY <2>3 DEF TypeInv, TypeOK
    <3>. QED
      BY <2>3, <3>2, <3>3
  <2>. QED
    BY <1>1, <2>1, <2>2, <2>3
<1>3. accepted[m] \in Nat
  BY DEF TypeInv, TypeOK
<1>4. /\ IsFiniteSet(D) /\ Cardinality(C) \in Nat /\ Cardinality(D) \in Nat
      /\ D \subseteq C => Cardinality(D) <= Cardinality(C)
      /\ Cardinality(D) <= Cardinality(C) + 1
  <2>1. PICK e : D \subseteq C \cup {e}
    BY <1>2
  <2>. HIDE DEF C, D
  <2>2. IsFiniteSet(C) /\ Cardinality(C) \in Nat
    BY FS_CardinalityType DEF C
  <2>3. IsFiniteSet(C \cup {e}) /\ Cardinality(C \cup {e}) \in {Cardinality(C), Cardinality(C) + 1}
    BY <2>2, FS_AddElement
  <2>4. IsFiniteSet(D) /\ Cardinality(D) <= Cardinality(C \cup {e})
    BY <2>1, <2>3, FS_Subset
  <2>5. Cardinality(D) \in Nat /\ Cardinality(C \cup {e}) \in Nat
    BY <2>3, <2>4, FS_CardinalityType
  <2>6. D \subseteq C => Cardinality(D) <= Cardinality(C)
    BY <2>2, FS_Subset
  <2>. QED
    BY <2>2, <2>3, <2>4, <2>5, <2>6
<1>5. Load(m) = accepted[m] + Cardinality(C) /\ Load(m)' = accepted'[m] + Cardinality(D)
  BY DEF Load
<1>. HIDE DEF C, D
<1>6. Load(m) \in Nat /\ Load(m)' \in Nat /\ IsFiniteSet(D)
  BY <1>3, <1>4, <1>5
<1>7. Load(m)' <= Load(m) + 1 /\ (~Caught(w, TRUE) => Load(m)' <= Load(m))
  <2>1. CASE accepted'[m] = accepted[m] /\ D \subseteq C
    <3>1. Load(m)' <= Load(m)
      BY <2>1, <1>3, <1>4, <1>5
    <3>2. Load(m)' <= Load(m) + 1
      BY <3>1, <1>6
    <3>. QED
      BY <3>1, <3>2
  <2>2. CASE Caught(w, TRUE) /\ accepted'[m] = accepted[m] /\ \E e : D \subseteq C \cup {e}
    <3>1. accepted'[m] = accepted[m]
      BY <2>2
    <3>2. Load(m)' <= Load(m) + 1
      BY <3>1, <1>3, <1>4, <1>5
    <3>. QED
      BY <2>2, <3>2
  <2>3. CASE Caught(w, TRUE) /\ accepted'[m] = accepted[m] + 1 /\ D \subseteq C
    <3>1. Load(m)' <= Load(m) + 1
      BY <2>3, <1>3, <1>4, <1>5
    <3>. QED
      BY <2>3, <3>1
  <2>. QED
    BY <1>2, <2>1, <2>2, <2>3
<1>. QED
  BY <1>6, <1>7 DEF D

\* Tearing spends the reserve of the shutdown.
LEMMA TornSpendsReserve ==
    ASSUME Serial, TypeInv, CatchInv, TimerInv, NEW w \in Workers, Refused(w) \/ SendSevered(w),
           Caught(w, TRUE)
    PROVE  Reserve = 1 /\ Reserve' = 0
<1>1. pc[w] # "idle" /\ Stopping /\ UNCHANGED << shut, polling >>
  BY TornStep DEF life
<1>2. scope[w] # "catch"
  <2>1. CASE Refused(w)
    <3>1. ~Return(w)
      BY DEF Caught, Return, Goto, TypeInv, TypeOK
    <3>. QED
      BY <2>1, <3>1 DEF Refused
  <2>2. CASE SendSevered(w)
    BY <2>2 DEF SendSevered, CatchInv, CatchSteps
  <2>. QED
    BY <2>1, <2>2
<1>3. MayBeTorn(w)
  BY <1>1, <1>2 DEF MayBeTorn
<1>4. w \notin polling' /\ scope'[w] = "catch"
  BY <1>1 DEF TimerInv, Caught, TypeInv, TypeOK
<1>5. \A v \in Workers : ~MayBeTorn(v)'
  BY <1>4 DEF MayBeTorn, Serial
<1>6. Reserve' = 0
  BY <1>5 DEF Reserve
<1>. QED
  BY <1>1, <1>3, <1>6 DEF Reserve

\* Nothing was sent, and no shutdown has begun.
LEMMA ReserveInit == ServerInit => ReserveInv
<1>. SUFFICES ASSUME ServerInit PROVE ReserveInv
  OBVIOUS
<1>1. Reserve = 0 /\ orderly = 0 /\ faults = 0
  BY DEF ServerInit, Init, Reserve, Stopping, ShutdownAwaits
<1>2. SendBudget
  BY BudgetInit DEF ServerInit
<1>3. ASSUME NEW m \in Msgs PROVE Load(m) <= 1 + faults + (orderly - Reserve)
  <2>1. Load(m) <= 1 + faults
    BY <1>2 DEF SendBudget, Load
  <2>. QED
    BY <1>1, <2>1
<1>. QED
  BY <1>1, <1>3 DEF ReserveInv

\* The sum behind the budget: what a step adds to a load b is paid for by a
\* fault, or the load is one at most, and no step takes from the reserve.
LEMMA StepWithinBudget ==
    ASSUME NEW a \in Nat, NEW b \in Nat, NEW f \in Nat, NEW g \in Nat,
           NEW l \in Nat, NEW k \in Nat, l <= k, a <= 1 + f + l,
           b <= 1 \/ b + f <= a + g
    PROVE  b <= 1 + g + k
OBVIOUS

\* Every step of the process keeps within the budget that is left.
LEMMA ReserveNext ==
    /\ Serial /\ QueueInv /\ QueueInv' /\ CatchInv /\ StopInv /\ TimerInv /\ ReserveInv
    /\ [ServerNext]_serverVars
    => ReserveInv'
<1>. SUFFICES ASSUME Serial, QueueInv, QueueInv', CatchInv, StopInv, TimerInv, ReserveInv,
                     [ServerNext]_serverVars
              PROVE  ReserveInv'
  OBVIOUS
<1>1. /\ orderly' \in Nat /\ Reserve \in {0, 1} /\ Reserve' \in {0, 1} /\ Reserve' <= orderly'
      /\ orderly - Reserve <= orderly' - Reserve'
  BY ReserveStep DEF QueueInv, ReserveInv
<1>2. orderly \in Nat /\ Reserve <= orderly
  BY DEF ReserveInv
<1>3. faults \in Nat /\ faults' \in Nat
  BY ConstantsAssumption DEF QueueInv, TypeInv, TypeOK
<1>. DEFINE l == orderly - Reserve
<1>5. l \in Nat /\ l' \in Nat /\ l <= l'
  <2>1. orderly - Reserve \in Nat
    BY <1>1, <1>2
  <2>2. orderly' - Reserve' \in Nat
    <3>1. PICK o, r : o = orderly' /\ r = Reserve'
      OBVIOUS
    <3>2. o \in Nat /\ r \in {0, 1} /\ r <= o
      BY <1>1, <3>1
    <3>3. o - r \in Nat
      BY <3>2
    <3>. QED
      BY <3>1, <3>3
  <2>. QED
    BY <1>1, <2>1, <2>2
<1>4. ASSUME NEW m \in Msgs PROVE Load(m)' <= 1 + faults' + (orderly' - Reserve')
  <2>1. accepted[m] \in Nat /\ accepted'[m] \in Nat
    BY DEF QueueInv, TypeInv, TypeOK
  <2>2. IsFiniteSet(Copies(m))
    BY CopiesAreFinite DEF QueueInv, TakenInv
  <2>3. Load(m) \in Nat /\ Load(m) <= 1 + faults + (orderly - Reserve)
    BY <2>1, <2>2, FS_CardinalityType DEF ReserveInv, Load
  <2>4. CASE [Next]_vars
    <3>1. CopyStep(m)
      BY <2>4, EveryCopyStep DEF QueueInv
    <3>2. IsFiniteSet(Copies(m)') /\ (Load(m)' <= 1 \/ Load(m)' + faults <= Load(m) + faults')
      BY <1>3, <2>1, <2>2, <3>1, LoadStep DEF QueueInv
    <3>3. Load(m)' \in Nat
      BY <2>1, <3>2, FS_CardinalityType DEF Load
    <3>. QED
      <4>1. Load(m) <= 1 + faults + l
        BY <2>3
      <4>. HIDE DEF l
      <4>2. Load(m)' <= 1 + faults' + l'
        BY <1>3, <1>5, <2>3, <3>2, <3>3, <4>1, StepWithinBudget
      <4>. QED
        BY <4>2 DEF l
  <2>5. ASSUME NEW w \in Workers, Refused(w) \/ SendSevered(w)
        PROVE  Load(m)' <= 1 + faults' + (orderly' - Reserve')
    <3>1. UNCHANGED << faults, orderly >>
      BY <2>5, TornStep DEF QueueInv
    <3>2. /\ Load(m)' \in Nat /\ Load(m)' <= Load(m) + 1
          /\ ~Caught(w, TRUE) => Load(m)' <= Load(m)
      BY <2>1, <2>2, <2>5, LoadOfTorn DEF QueueInv
    <3>3. CASE Caught(w, TRUE)
      <4>1. Reserve = 1 /\ Reserve' = 0
        BY <2>5, <3>3, TornSpendsReserve DEF QueueInv
      <4>. QED
        BY <1>2, <1>3, <2>3, <3>1, <3>2, <4>1
    <3>4. CASE ~Caught(w, TRUE)
      <4>1. Load(m)' + faults <= Load(m) + faults'
        BY <1>3, <2>3, <3>1, <3>2, <3>4
      <4>2. Load(m) <= 1 + faults + l
        BY <2>3
      <4>. HIDE DEF l
      <4>3. Load(m)' <= 1 + faults' + l'
        BY <1>3, <1>5, <2>3, <3>2, <4>1, <4>2, StepWithinBudget
      <4>. QED
        BY <4>3 DEF l
    <3>. QED
      BY <3>3, <3>4
  <2>. QED
    BY <2>4, <2>5, QueueOrTorn DEF QueueInv
<1>. QED
  BY <1>1, <1>4 DEF ReserveInv

\* What is kept in reserve is within what the shutdowns allow.
LEMMA ReserveFollows == QueueInv /\ ReserveInv /\ Serial => ExitBudget
<1>. SUFFICES ASSUME QueueInv, ReserveInv, Serial, NEW m \in Msgs
              PROVE  Load(m) <= 1 + faults + orderly
  BY DEF ExitBudget, Load
<1>1. Load(m) \in Nat
  BY CopiesAreFinite DEF QueueInv, TakenInv, TypeInv, TypeOK, Load
<1>2. Reserve \in {0, 1} /\ orderly \in Nat /\ Reserve <= orderly /\ faults \in Nat
  BY ConstantsAssumption DEF Reserve, ReserveInv, QueueInv, TypeInv, TypeOK
<1>3. Load(m) <= 1 + faults + (orderly - Reserve)
  BY DEF ReserveInv
<1>. QED
  BY <1>1, <1>2, <1>3

\* shutdown() waits for no invocation, so it may close the pool between a send
\* and the UPDATE that records it: each shutdown costs at most one further send
\* of a message, however many signals come and whatever else fails, and a kill
\* or a failed start costs none.
THEOREM ShutdownsArePaidFor == Serial => (ServerSpec => []ExitBudget)
<1>. SUFFICES ASSUME Serial PROVE ServerSpec => []ExitBudget
  OBVIOUS
<1>. DEFINE Inv == CatchInv /\ StopInv /\ TimerInv /\ ReserveInv
<1>1. ServerInit => QueueInv /\ Inv
  BY QueueInvInit, CatchInit, StopInit, TimerInit, ReserveInit DEF ServerInit
<1>2. QueueInv /\ [ServerNext]_serverVars => QueueInv'
  BY QueueInvNext
<1>3. QueueInv /\ QueueInv' /\ Inv /\ [ServerNext]_serverVars => Inv'
  BY CatchServerNext, StopNext, TimerNext, ReserveNext DEF QueueInv
<1>4. QueueInv /\ Inv => ExitBudget
  BY ReserveFollows
<1>. QED
  BY <1>1, <1>2, <1>3, <1>4, PTL DEF ServerSpec

=============================================================================
