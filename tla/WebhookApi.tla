----------------------------- MODULE WebhookApi -----------------------------
(***************************************************************************)
(* The REST handlers under /webhooks (webhook-controller.ts) on the table  *)
(* webhook_configs and the MySQL connection pool (webhook-repository.ts,   *)
(* config/database.ts).                                                    *)
(*                                                                         *)
(* A handler is a sequence of repository calls; each call takes a          *)
(* connection, runs one statement and releases the connection in a finally *)
(* block.  Every request is served once, so the row that a POST creates is *)
(* named after its request: a UUID is never used twice.                    *)
(***************************************************************************)
EXTENDS Naturals, Sequences, FiniteSets

CONSTANTS
    Requests,  \* HTTP requests, at most one handler run each
    Existing,  \* ids of rows there may be before the first request
    Urls,      \* values of webhook_configs.url
    EmptyUrl,  \* "", which a PATCH may write and no other request
    NoUrl,     \* a request that names no url
    Wanted,    \* bound: the requests that clients make
    PoolSize,  \* connectionLimit
    MaxFaults  \* bound: failing statements and failing getConnection calls

ASSUME ApiConstants ==
    /\ Requests \cap Existing = {}
    /\ EmptyUrl \in Urls
    /\ NoUrl \notin Urls
    /\ PoolSize \in Nat \ {0}
    /\ MaxFaults \in Nat

VARIABLES
    rows,     \* webhook_configs
    filtered, \* ids of the rows whose column filters has a value
    req,      \* the request of each handler, {} before it comes
    pc,       \* where each handler awaits
    call,     \* the repository call it is in, or is about to make
    held,     \* connections a handler holds
    free,     \* connections the pool can still give
    waiters,  \* the pool's queue of getConnection calls
    answer,   \* what the client was answered
    faults    \* calls that failed so far

pool == << held, free, waiters >>
vars == << rows, filtered, req, pc, call, pool, answer, faults >>

Ids == Requests \cup Existing
Row == [id : Ids, url : Urls]
Request ==
    [op : {"create"}, id : Ids, url : Urls \ {EmptyUrl}, filters : {"absent", "set"}]
        \cup [op : {"patch"}, id : Ids, url : Urls \cup {NoUrl}, filters : {"absent", "set", "null"}]
        \cup [op : {"delete", "get", "list"}, id : Ids, url : {NoUrl}, filters : {"absent"}]

ASSUME WantedAssumption == Wanted \subseteq Request

Call == {"byUrl", "insert", "update", "byId", "delete", "list"}
Answer == {"none", "ok", "created", "deleted", "invalid", "duplicate", "not found", "error"}

\* The constraint uc_webhook_url, which is assumed: init-db.sql and migration
\* 002 declare it on a VARCHAR(2048), whose utf8mb4 key is longer than InnoDB takes.
UrlsDiffer(table) == \A a, b \in table : a.url = b.url => a = b
IdsDiffer(table) == \A a, b \in table : a.id = b.id => a = b

\* The rows that another webhook than `id` has for `url`.
Others(id, url) == {row \in rows : row.url = url /\ row.id # id}
RowsOf(id) == {row \in rows : row.id = id}

\* mapRowToWebhook on what a SELECT found: for a column of MySQL's type JSON the
\* driver gives the parsed value, and JSON.parse of an object throws.
MappingThrows(found) == \E row \in found : row.id \in filtered

\* The column filters after a statement that writes the row of q.
Filtered(q) ==
    [absent |-> filtered, set |-> filtered \cup {q.id}, null |-> filtered \ {q.id}][q.filters]

\* A PATCH with an empty url skips the look for a duplicate.
FirstCall(q) ==
    IF q.url \notin {NoUrl, EmptyUrl} THEN "byUrl"
    ELSE [patch |-> "update", delete |-> "delete", get |-> "byId", list |-> "list"][q.op]

Init ==
    /\ rows \in {table \in SUBSET [id : Existing, url : Urls] : UrlsDiffer(table) /\ IdsDiffer(table)}
    /\ filtered \in SUBSET {row.id : row \in rows}
    /\ req = [r \in Requests |-> {}]
    /\ pc = [r \in Requests |-> "idle"]
    /\ call = [r \in Requests |-> "list"]
    /\ held = [r \in Requests |-> 0]
    /\ free = PoolSize
    /\ waiters = << >>
    /\ answer = [r \in Requests |-> "none"]
    /\ faults = 0

-----------------------------------------------------------------------------
(* A request comes in. *)

\* The body passes the checks on name and url (or there is no body).
Begin(r, q) ==
    /\ pc[r] = "idle"
    /\ q.op = "create" => q.id = r
    /\ q.op # "create" => q.id # r
    /\ req' = [req EXCEPT ![r] = {q}]
    /\ pc' = [pc EXCEPT ![r] = "want"]
    /\ call' = [call EXCEPT ![r] = FirstCall(q)]
    /\ UNCHANGED << rows, filtered, pool, answer, faults >>

\* Name or url missing or malformed: answered 400 before any await.  The name of
\* a PATCH with a url is looked at in FindByUrl.
Invalid(r) ==
    /\ pc[r] = "idle"
    /\ pc' = [pc EXCEPT ![r] = "done"]
    /\ answer' = [answer EXCEPT ![r] = "invalid"]
    /\ UNCHANGED << rows, filtered, req, call, pool, faults >>

-----------------------------------------------------------------------------
(* The pool: getConnection and release. *)

GetConnection(r) ==
    /\ pc[r] = "want"
    /\ \/ /\ free > 0
          /\ free' = free - 1
          /\ held' = [held EXCEPT ![r] = @ + 1]
          /\ pc' = [pc EXCEPT ![r] = "execute"]
          /\ UNCHANGED waiters
       \/ /\ free = 0
          /\ waiters' = Append(waiters, r)
          /\ pc' = [pc EXCEPT ![r] = "wait"]
          /\ UNCHANGED << free, held >>
    /\ UNCHANGED << rows, filtered, req, call, answer, faults >>

\* r releases what it holds, which goes to the first waiter if there is one,
\* and goes on to step `next`.
Release(r, next) ==
    \/ /\ waiters = << >>
       /\ free' = free + held[r]
       /\ held' = [held EXCEPT ![r] = 0]
       /\ pc' = [pc EXCEPT ![r] = next]
       /\ UNCHANGED waiters
    \/ /\ waiters # << >>
       /\ waiters' = Tail(waiters)
       /\ free' = free + held[r] - 1
       /\ held' = [held EXCEPT ![r] = 0, ![Head(waiters)] = @ + 1]
       /\ pc' = [pc EXCEPT ![r] = next, ![Head(waiters)] = "execute"]

Reply(r, a) ==
    /\ Release(r, "done")
    /\ answer' = [answer EXCEPT ![r] = a]
    /\ UNCHANGED << req, call >>

Continue(r, nextCall) ==
    /\ Release(r, "want")
    /\ call' = [call EXCEPT ![r] = nextCall]
    /\ UNCHANGED << req, answer >>

Executes(r, c) == pc[r] = "execute" /\ call[r] = c

-----------------------------------------------------------------------------
(* The statements. *)

\* getWebhookByUrl: a POST is refused for any row with its url, a PATCH for a
\* row of another webhook.  A PATCH has its name checked afterwards.
FindByUrl(r) ==
    /\ Executes(r, "byUrl")
    /\ \E q \in req[r] :
          LET found == {row \in rows : row.url = q.url}
          IN  \/ MappingThrows(found) /\ Reply(r, "error")
              \/ ~MappingThrows(found) /\ Others(q.id, q.url) # {} /\ Reply(r, "duplicate")
              \/ /\ ~MappingThrows(found) /\ Others(q.id, q.url) = {}
                 /\ \/ Continue(r, IF q.op = "create" THEN "insert" ELSE "update")
                    \/ q.op = "patch" /\ Reply(r, "invalid")
    /\ UNCHANGED << rows, filtered, faults >>

\* Mutant for TypeOK: the row gets the id that the client names.
InsertClientId(r) ==
    /\ Executes(r, "insert")
    /\ \E q \in req[r] : \E id \in Ids :
          /\ rows' = rows \cup {[id |-> id, url |-> q.url]}
          /\ filtered' = Filtered(q)
          /\ Reply(r, "created")
    /\ UNCHANGED faults

Insert(r) ==
    /\ Executes(r, "insert")
    /\ \E q \in req[r] :
          \/ /\ Others(q.id, q.url) = {}
             /\ rows' = rows \cup {[id |-> q.id, url |-> q.url]}
             /\ filtered' = Filtered(q)
             /\ Reply(r, "created")
          \/ Others(q.id, q.url) # {} /\ Reply(r, "error") /\ UNCHANGED << rows, filtered >>
    /\ UNCHANGED faults

\* The UPDATE finds no row, changes other columns, or changes the url.  A PATCH
\* without any field makes none and leaves the row as it is.
Updated(q) ==
    IF q.url = NoUrl \/ RowsOf(q.id) = {} THEN rows
    ELSE (rows \ RowsOf(q.id)) \cup {[id |-> q.id, url |-> q.url]}

\* Mutant for Answered: `return await`, which keeps the connection until
\* getWebhookById has got another one.
UpdateAwaits(r) ==
    /\ Executes(r, "update")
    /\ \E q \in req[r] :
          \/ /\ UrlsDiffer(Updated(q))
             /\ rows' = Updated(q)
             /\ filtered' = IF RowsOf(q.id) = {} THEN filtered ELSE Filtered(q)
             /\ call' = [call EXCEPT ![r] = "byId"]
             /\ pc' = [pc EXCEPT ![r] = "want"]
             /\ UNCHANGED << req, pool, answer >>
          \/ ~UrlsDiffer(Updated(q)) /\ Reply(r, "error") /\ UNCHANGED << rows, filtered >>
    /\ UNCHANGED faults

\* `return this.getWebhookById(webhookId)` asks the pool for its connection
\* first and then, without waiting for it, the finally block releases this one:
\* r gets it back unless others are waiting.
Update(r) ==
    /\ Executes(r, "update")
    /\ \E q \in req[r] :
          \/ /\ UrlsDiffer(Updated(q))
             /\ rows' = Updated(q)
             /\ filtered' = IF RowsOf(q.id) = {} THEN filtered ELSE Filtered(q)
             /\ call' = [call EXCEPT ![r] = "byId"]
             /\ \/ waiters = << >> /\ UNCHANGED << pc, pool >>
                \/ /\ waiters # << >>
                   /\ waiters' = Append(Tail(waiters), r)
                   /\ held' = [held EXCEPT ![r] = 0, ![Head(waiters)] = 1]
                   /\ pc' = [pc EXCEPT ![r] = "wait", ![Head(waiters)] = "execute"]
                   /\ UNCHANGED free
             /\ UNCHANGED << req, answer >>
          \/ ~UrlsDiffer(Updated(q)) /\ Reply(r, "error") /\ UNCHANGED << rows, filtered >>
    /\ UNCHANGED faults

\* getWebhookById.  A PATCH comes here after its UPDATE: the 500 of a row with
\* filters does not take the change back.
FindById(r) ==
    /\ Executes(r, "byId")
    /\ \E q \in req[r] :
          Reply(r, IF MappingThrows(RowsOf(q.id)) THEN "error"
                   ELSE IF RowsOf(q.id) = {} THEN "not found" ELSE "ok")
    /\ UNCHANGED << rows, filtered, faults >>

\* Mutant for AnswersTrue: affectedRows is not looked at.
DeleteBlindly(r) ==
    /\ Executes(r, "delete")
    /\ \E q \in req[r] :
          /\ rows' = rows \ RowsOf(q.id)
          /\ filtered' = filtered \ {q.id}
          /\ Reply(r, "deleted")
    /\ UNCHANGED faults

Delete(r) ==
    /\ Executes(r, "delete")
    /\ \E q \in req[r] :
          /\ rows' = rows \ RowsOf(q.id)
          /\ filtered' = filtered \ {q.id}
          /\ Reply(r, IF RowsOf(q.id) = {} THEN "not found" ELSE "deleted")
    /\ UNCHANGED faults

List(r) ==
    /\ Executes(r, "list")
    /\ Reply(r, IF MappingThrows(rows) THEN "error" ELSE "ok")
    /\ UNCHANGED << rows, filtered, faults >>

\* Mutant for PoolExact: an error path around the finally block.
StatementFaultLeaks(r) ==
    /\ pc[r] = "execute"
    /\ faults < MaxFaults
    /\ faults' = faults + 1
    /\ pc' = [pc EXCEPT ![r] = "done"]
    /\ answer' = [answer EXCEPT ![r] = "error"]
    /\ UNCHANGED << rows, filtered, req, call, pool >>

\* The statement fails: the connection is released and the client gets a 500.
StatementFault(r) ==
    /\ pc[r] = "execute"
    /\ faults < MaxFaults
    /\ faults' = faults + 1
    /\ Reply(r, "error")
    /\ UNCHANGED << rows, filtered >>

\* getConnection rejects: there is nothing to release.
ConnectFault(r) ==
    /\ pc[r] = "want"
    /\ faults < MaxFaults
    /\ faults' = faults + 1
    /\ pc' = [pc EXCEPT ![r] = "done"]
    /\ answer' = [answer EXCEPT ![r] = "error"]
    /\ UNCHANGED << rows, filtered, req, call, pool >>

Serve(r) ==
    \/ GetConnection(r) \/ FindByUrl(r) \/ Insert(r) \/ Update(r)
    \/ FindById(r) \/ Delete(r) \/ List(r)

Handle(r) == Serve(r) \/ StatementFault(r) \/ ConnectFault(r)

Next ==
    \/ \E r \in Requests : Invalid(r) \/ Handle(r)
    \/ \E r \in Requests : \E q \in Wanted : Begin(r, q)

Spec == Init /\ [][Next]_vars

-----------------------------------------------------------------------------
(* Properties *)

\* Every variable stays in its range and no row has two values.
TypeOK ==
    /\ rows \subseteq Row
    /\ IdsDiffer(rows)
    /\ filtered \subseteq {row.id : row \in rows}
    /\ req \in [Requests -> SUBSET Request]
    /\ pc \in [Requests -> {"idle", "want", "wait", "execute", "done"}]
    /\ call \in [Requests -> Call]
    /\ held \in [Requests -> 0 .. PoolSize]
    /\ free \in 0 .. PoolSize
    /\ waiters \in Seq(Requests)
    /\ answer \in [Requests -> Answer]
    /\ faults \in 0 .. MaxFaults

\* The pool neither leaks a connection nor hands one out twice: a handler holds
\* one while its statement runs and none while it waits, also when a statement
\* fails and when a PATCH passes its connection on.
PoolExact ==
    /\ \A r \in Requests : held[r] = IF pc[r] = "execute" THEN 1 ELSE 0
    /\ free + Cardinality({r \in Requests : pc[r] = "execute"}) = PoolSize
    /\ waiters # << >> => free = 0

\* A webhook whose POST was answered 201 is in the table until one DELETE of
\* it, and no second one, is answered 204.
AnswersTrue ==
    \A id \in Ids :
        LET deleters == {d \in Requests : answer[d] = "deleted" /\ \E q \in req[d] : q.id = id}
        IN  /\ Cardinality(deleters) <= 1
            /\ (id \in Requests /\ answer[id] = "created") =>
                   (RowsOf(id) = {} <=> deleters # {})

\* Every request is answered, even when more PATCH requests are in progress
\* than the pool has connections: none holds one while it waits for another.
Answered == \A r \in Requests : (pc[r] = "want") ~> (answer[r] # "none")

=============================================================================
