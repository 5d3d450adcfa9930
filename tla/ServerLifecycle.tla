-------------------------- MODULE ServerLifecycle --------------------------
(***************************************************************************)
(* The life of the server process (server.ts) around the outbound queue:   *)
(* start() opens MySQL and Redis, starts the provider, the worker and the  *)
(* HTTP server, and registers the signal handlers last; shutdown() stops   *)
(* the worker's timer, closes the HTTP server and then the resources that  *)
(* an invocation of the worker may still be using.                         *)
(*                                                                         *)
(* The steps of the queue are those of OutboundQueue, each under the       *)
(* conditions the process is in.  A process that ended is started again    *)
(* (compose.yaml, restart: unless-stopped), so an exit and the next start  *)
(* are one step.  Node's http server and signals are external: close()     *)
(* takes no new request, waits for those in flight, and is an error for a  *)
(* server that does not listen.                                            *)
(***************************************************************************)
EXTENDS OutboundQueue

CONSTANTS
    Signals,  \* SIGTERM and SIGINT: each handler runs once in a process
    Killable  \* TRUE: the process may also be killed

ASSUME LifecycleAssumption == Killable \in BOOLEAN

VARIABLES
    boot,      \* what start() awaits, or "up" once the signal handlers are registered
    http,      \* the HTTP server: "off", "listening", "closing", or "failed" to listen
    requests,  \* the POST and DELETE requests in flight
    polling,   \* invocations that the interval has started, or can still start
    shut,      \* what the shutdown() of each signal awaits
    orderly,   \* shutdowns begun (a history variable)
    cut        \* messages an exit or a closing resource tore from an invocation (history)

life       == << boot, http, requests, polling, shut >>
serverVars == << vars, life, orderly, cut >>

ShutStep == {"idle", "http", "http_error", "whatsapp", "database", "redis"}

Request == {"POST", "DELETE"} \X Msgs
Answered(r) == IF r[1] = "POST" THEN sender[r[2]] = "done" ELSE canceller[r[2]] = "idle"

ShutdownAwaits(steps) == \E s \in Signals : shut[s] \in steps
Stopping == ShutdownAwaits(ShutStep \ {"idle"})

\* Between its call and its answer a resource's close lets calls that were made
\* before it finish and refuses the later ones.
DatabaseCloses == ShutdownAwaits({"database", "redis"})
DatabaseClosed == ShutdownAwaits({"redis"})
RedisCloses    == ShutdownAwaits({"redis"})

DatabaseCall == {"lookup", "sent_status", "sent_record", "retry_record", "fail_status", "fail_record"}
RedisCall    == Step \ (DatabaseCall \cup {"idle", "send"})

InHand(w) == {e.messageId : e \in hand[w]}

ServerInit ==
    /\ Init
    /\ boot = "database" /\ http = "off" /\ requests = {} /\ polling = {}
    /\ shut = [s \in Signals |-> "idle"]
    /\ orderly = 0 /\ cut = {}

-----------------------------------------------------------------------------
(* start() *)

\* initDatabase(), initRedis() and the provider's initialize() settle in turn;
\* an error of the provider is caught and start() goes on.
Started(from, to) ==
    /\ boot = from
    /\ boot' = to
    /\ UNCHANGED << vars, http, requests, polling, shut, orderly, cut >>

DatabaseStarted == Started("database", "redis")
RedisStarted    == Started("redis", "whatsapp")

\* From the provider's initialize() on there is no await: the worker's interval
\* is set, listen() is called and the signal handlers are registered.  A listen
\* error is an event that the uncaughtException handler swallows.
\* Mutant for ExitBudget: start() puts back what is left in processing.
ProviderStartedRequeues ==
    /\ boot = "whatsapp"
    /\ boot' = "up"
    /\ polling' = Workers
    /\ http' \in {"listening", "failed"}
    /\ queue' = queue \cup processing
    /\ UNCHANGED << now, processing, mysql, client, worker, env, accepted, requests, shut, orderly, cut >>

\* Mutant for SurvivesRestart: start() begins with an empty queue.
ProviderStartedFlushes ==
    /\ boot = "whatsapp"
    /\ boot' = "up"
    /\ polling' = Workers
    /\ http' \in {"listening", "failed"}
    /\ queue' = {}
    /\ UNCHANGED << now, processing, mysql, client, worker, env, accepted, requests, shut, orderly, cut >>

ProviderStarted ==
    /\ boot = "whatsapp"
    /\ boot' = "up"
    /\ polling' = Workers
    /\ http' \in {"listening", "failed"}
    /\ UNCHANGED << vars, requests, shut, orderly, cut >>

\* The process ends, whatever its invocations and requests are doing, and the
\* next one starts.
Exit ==
    /\ Restart
    /\ boot' = "database" /\ http' = "off" /\ requests' = {} /\ polling' = {}
    /\ shut' = [s \in Signals |-> "idle"]
    /\ cut' = cut \cup UNION {InHand(w) : w \in Workers}
    /\ UNCHANGED orderly

\* A failing initDatabase() or initRedis() makes start() call exit(1).  At any
\* time the process may be killed, as by a signal that has no handler yet.
StartFails == boot \in {"database", "redis"} /\ Exit
Kill       == Killable /\ Exit

-----------------------------------------------------------------------------
(* shutdown() *)

\* The interval is cleared and server.close() called without an await between:
\* no invocation is waited for.
Signal(s) ==
    /\ boot = "up" /\ shut[s] = "idle"
    /\ crashes < MaxCrashes
    /\ \/ http = "listening" /\ http' = "closing" /\ shut' = [shut EXCEPT ![s] = "http"]
       \/ http # "listening" /\ UNCHANGED http /\ shut' = [shut EXCEPT ![s] = "http_error"]
    /\ polling' = {w \in polling : pc[w] = "idle"}
    /\ orderly' = IF Stopping THEN orderly ELSE orderly + 1
    /\ UNCHANGED << vars, boot, requests, cut >>

Proceed(s, from, to) ==
    /\ shut[s] = from
    /\ shut' = [shut EXCEPT ![s] = to]
    /\ UNCHANGED << boot, http, requests, polling, orderly, cut >>

\* Mutant for HandlersHaveResources: the close is not awaited.
HttpClosedAtOnce(s) == Proceed(s, "http", "whatsapp") /\ UNCHANGED vars

\* server.close() waits for the open connections.  A request is in `requests` as
\* long as its connection is open and its handler runs: a client that gives up
\* earlier frees the connection and leaves the handler behind, which no action
\* here follows.
HttpClosed(s) ==
    /\ requests = {}
    /\ Proceed(s, "http", "whatsapp")
    /\ UNCHANGED vars

\* ERR_SERVER_NOT_RUNNING for the second signal, or after a listen error: the
\* rejection leads to exit(1), with the resources closed or not.
\* Mutant for Stops: the callback's error is not passed on.
HttpCloseNeverFails(s) == FALSE /\ shut[s] = "http_error" /\ Exit

HttpCloseFails(s) ==
    /\ requests = {}
    /\ shut[s] = "http_error"
    /\ Exit

ProviderDisconnected(s) ==
    /\ Proceed(s, "whatsapp", "database")
    /\ ready' = FALSE
    /\ UNCHANGED << now, redis, mysql, client, worker, faults, crashes, accepted >>

DatabaseEnded(s) == Proceed(s, "database", "redis") /\ UNCHANGED vars

\* quit() settles and exit(0) follows, or a close fails and exit(1) does.
ResourcesClosed(s) == shut[s] = "redis" /\ Exit
CloseFails(s)      == shut[s] = "database" /\ Exit

-----------------------------------------------------------------------------
(* The queue's steps in this process *)

Arrive(r) ==
    /\ http = "listening"
    /\ r \notin requests
    /\ IF r[1] = "POST" THEN sender[r[2]] = "idle" ELSE r[2] \in acked \cap Cancellable
    /\ requests' = requests \cup {r}
    /\ UNCHANGED << vars, boot, http, polling, shut, orderly, cut >>

\* A request leaves when its handler answers.
Handle(r) ==
    /\ r \in requests
    /\ IF r[1] = "POST" THEN SenderNext(r[2]) ELSE CancelNext(r[2])
    /\ requests' = IF Answered(r)' THEN requests \ {r} ELSE requests
    /\ UNCHANGED << boot, http, polling, shut, orderly, cut >>

\* Once the interval is cleared only an invocation that it had started can go on
\* to take an entry.
Takes(w) ==
    /\ w \in polling /\ ~RedisCloses
    /\ Poll(w)
    /\ polling' = IF Stopping THEN polling \ {w} ELSE polling
    /\ UNCHANGED << boot, http, requests, shut, orderly, cut >>

Works(w) ==
    /\ pc[w] # "idle"
    /\ ~(pc[w] \in DatabaseCall /\ DatabaseClosed)
    /\ WorkerNext(w)
    /\ UNCHANGED << life, orderly, cut >>

\* "Pool is closed", or a client that has quit: an error like any other to
\* processNextMessage.
Refused(w) ==
    /\ \/ pc[w] \in DatabaseCall /\ DatabaseCloses
       \/ pc[w] \in RedisCall /\ RedisCloses
    /\ \/ scope[w] = "try" /\ Caught(w, TRUE)
       \/ scope[w] # "try" /\ Return(w)
    /\ cut' = cut \cup InHand(w)
    /\ UNCHANGED << now, redis, mysql, client, env, accepted, life, orderly >>

\* disconnect() destroys the client under a send that WhatsApp has taken.
SendSevered(w) ==
    /\ pc[w] = "send" /\ ShutdownAwaits({"whatsapp", "database", "redis"})
    /\ \E e \in hand[w] : accepted' = [accepted EXCEPT ![e.messageId] = @ + 1]
    /\ Caught(w, TRUE)
    /\ cut' = cut \cup InHand(w)
    /\ UNCHANGED << now, redis, mysql, client, env, life, orderly >>

Environment ==
    /\ AdvanceClock \/ (boot \notin {"database", "redis"} /\ ~DatabaseCloses /\ ProviderChange)
    /\ UNCHANGED << life, orderly, cut >>

Boots == DatabaseStarted \/ RedisStarted \/ ProviderStarted

ShutdownStep(s) ==
    \/ HttpClosed(s) \/ HttpCloseFails(s) \/ ProviderDisconnected(s)
    \/ DatabaseEnded(s) \/ CloseFails(s) \/ ResourcesClosed(s)

ServerNext ==
    \/ Boots \/ StartFails \/ Kill
    \/ \E s \in Signals : Signal(s) \/ ShutdownStep(s)
    \/ \E r \in Request : Arrive(r) \/ Handle(r)
    \/ \E w \in Workers : Takes(w) \/ Works(w) \/ Refused(w) \/ SendSevered(w)
    \/ Environment

ServerSpec == ServerInit /\ [][ServerNext]_serverVars

\* Awaited calls settle, the interval fires and time passes.  Signals, kills,
\* failing calls and clients owe nothing.
ServerFairSpec ==
    /\ ServerSpec
    /\ WF_serverVars(Boots)
    /\ WF_serverVars(AdvanceClock /\ Environment)
    /\ \A s \in Signals : WF_serverVars(ShutdownStep(s))
    /\ \A r \in Request : WF_serverVars(Handle(r))
    /\ \A w \in Workers : WF_serverVars(Takes(w) \/ Works(w) \/ Refused(w))

-----------------------------------------------------------------------------
(* Properties *)

\* server.ts 117-144: a handler whose client still waits for the answer never
\* finds the pool or the Redis client closed, whichever signals arrive while it
\* runs.
HandlersHaveResources ==
    requests # {} => ~DatabaseCloses /\ ~RedisCloses

\* shutdown() waits for no invocation of the worker, so it may close the pool
\* between a send and the UPDATE that records it: every shutdown may cost one
\* duplicate of a message, as a failed call does, and no more than one; a kill
\* or a failed start costs none.
ExitBudget ==
    \A m \in Msgs : accepted[m] + Cardinality(Copies(m)) <= 1 + faults + orderly

\* A signal that is handled ends the process, even after a listen error, when
\* both signals come, or while requests and invocations are under way.
Stops == Stopping ~> ~Stopping

\* Exits, failed starts and restarts lose no message whose client was answered
\* 200, except those torn from an invocation: the others are taken up again.
SurvivesRestart ==
    \A m \in Msgs : (m \in acked) ~> (status[m] # "pending" \/ m \in cut \/ faults > 0)

\* MASTER_PLAN.md 333: "No messages lost during shutdown": a pending message
\* whose client was answered 200 is in the queue or with a running invocation.
NoneLostByShutdown ==
    \A m \in acked : status[m] = "pending" =>
        \/ EntriesOf(queue, m) # {}
        \/ \E w \in Workers : Holds(w, m)

=============================================================================
