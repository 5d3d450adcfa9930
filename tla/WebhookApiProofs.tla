-------------------------- MODULE WebhookApiProofs --------------------------
(***************************************************************************)
(* Theorems about WebhookApi, for any requests, urls, pool size and number *)
(* of failing calls.                                                       *)
(***************************************************************************)
EXTENDS WebhookApi, FiniteSetTheorems, SequenceTheorems, TLAPS

Executing == {r \in Requests : pc[r] = "execute"}

\* The queue of the pool holds requests that wait, each of them once, so that
\* a connection handed over is one more request that executes.
PoolInv ==
    /\ pc \in [Requests -> {"idle", "want", "wait", "execute", "done"}]
    /\ held \in [Requests -> 0 .. PoolSize]
    /\ free \in 0 .. PoolSize
    /\ waiters \in Seq(Requests)
    /\ \A r \in Requests : held[r] = IF pc[r] = "execute" THEN 1 ELSE 0
    /\ IsFiniteSet(Executing)
    /\ free + Cardinality(Executing) = PoolSize
    /\ waiters # << >> => free = 0
    /\ \A i \in 1 .. Len(waiters) : pc[waiters[i]] = "wait"
    /\ \A i, j \in 1 .. Len(waiters) : waiters[i] = waiters[j] => i = j

\* The repository call that a handler is in belongs to its request.
Serves(c, q) ==
    /\ c = "byUrl" => q.op \in {"create", "patch"} /\ q.url # NoUrl
    /\ c = "insert" => q.op = "create"
    /\ c = "update" => q.op = "patch"
    /\ c = "delete" => q.op = "delete"

HandlerInv(r) ==
    /\ \A p, q \in req[r] : p = q
    /\ pc[r] = "idle" => req[r] = {}
    /\ (pc[r] = "done") = (answer[r] # "none")
    /\ \A q \in req[r] : (q.op = "create") = (q.id = r)
    /\ pc[r] \in {"want", "wait", "execute"} => \E q \in req[r] : Serves(call[r], q)

HandlersInv ==
    /\ req \in [Requests -> SUBSET Request]
    /\ call \in [Requests -> Call]
    /\ answer \in [Requests -> Answer]
    /\ faults \in 0 .. MaxFaults
    /\ \A r \in Requests : HandlerInv(r)

\* d has been told that it deleted the webhook `id`.
Deleted(d, id) == answer[d] = "deleted" /\ \E q \in req[d] : q.id = id

\* A row comes from a POST that was answered 201 or was there before, and what
\* a DELETE has deleted does not come back.
TableInv ==
    /\ rows \subseteq Row
    /\ filtered \subseteq {row.id : row \in rows}
    /\ IdsDiffer(rows)
    /\ UrlsDiffer(rows)
    /\ \A row \in rows : row.id \in Requests => answer[row.id] = "created"
    /\ \A d \in Requests, id \in Ids : Deleted(d, id) =>
          RowsOf(id) = {} /\ (id \in Requests => answer[id] = "created")
    /\ \A d, e \in Requests, id \in Ids : Deleted(d, id) /\ Deleted(e, id) => d = e
    /\ \A r \in Requests : (answer[r] = "created" /\ RowsOf(r) = {}) =>
          \E d \in Requests : Deleted(d, r)

ApiInv == PoolInv /\ HandlersInv /\ TableInv

-----------------------------------------------------------------------------
(* The pool *)

\* A step of handler r: it goes on to `next`, and at most the first waiter gets
\* a connection.
Moves(r, next) ==
    /\ pc'[r] = next
    /\ \A s \in Requests \ {r} : pc'[s] = pc[s] \/ (pc[s] = "wait" /\ pc'[s] = "execute")

\* The first waiter is not one of the others, which wait in the same order.
LEMMA FirstWaiter ==
    ASSUME PoolInv, waiters # << >>
    PROVE  /\ Head(waiters) \in Requests
           /\ pc[Head(waiters)] = "wait"
           /\ Tail(waiters) \in Seq(Requests)
           /\ Len(Tail(waiters)) = Len(waiters) - 1
           /\ \A i \in 1 .. Len(Tail(waiters)) :
                 Tail(waiters)[i] = waiters[i + 1] /\ Tail(waiters)[i] # Head(waiters)
<1>1. waiters \in Seq(Requests) /\ Len(waiters) \in Nat /\ Len(waiters) > 0
  BY EmptySeq, LenProperties DEF PoolInv
<1>2. Head(waiters) = waiters[1]
  BY <1>1
<1>3. /\ Head(waiters) \in Requests /\ Tail(waiters) \in Seq(Requests)
      /\ Len(Tail(waiters)) = Len(waiters) - 1
      /\ \A i \in 1 .. Len(Tail(waiters)) : Tail(waiters)[i] = waiters[i + 1]
  BY <1>1, HeadTailProperties
<1>4. pc[waiters[1]] = "wait"
  BY <1>1 DEF PoolInv
<1>5. ASSUME NEW i \in 1 .. Len(Tail(waiters)) PROVE Tail(waiters)[i] # Head(waiters)
  <2>1. i + 1 \in 1 .. Len(waiters) /\ 1 \in 1 .. Len(waiters) /\ i + 1 # 1
    BY <1>1, <1>3
  <2>2. waiters[i + 1] # waiters[1]
    BY <2>1 DEF PoolInv
  <2>. QED
    BY <2>2, <1>2, <1>3
<1>. QED
  BY <1>2, <1>3, <1>4, <1>5

\* Releasing a connection keeps the pool exact, waiters or not.
LEMMA ReleaseKeepsPool ==
    ASSUME PoolInv, NEW r \in Requests, pc[r] = "execute",
           NEW next \in {"want", "done"}, Release(r, next)
    PROVE  PoolInv' /\ Moves(r, next)
<1>0. held[r] = 1 /\ PoolSize \in Nat /\ free \in Nat /\ free <= PoolSize
  BY ApiConstants DEF PoolInv
<1>1. IsFiniteSet(Executing \ {r}) /\ Cardinality(Executing \ {r}) = Cardinality(Executing) - 1
  BY FS_RemoveElement DEF PoolInv, Executing
<1>2. Cardinality(Executing) \in Nat
  BY FS_CardinalityType DEF PoolInv
<1>3. Cardinality(Executing \ {r}) \in Nat
  BY <1>1, FS_CardinalityType
<1>4. CASE /\ waiters = << >>
           /\ free' = free + held[r]
           /\ held' = [held EXCEPT ![r] = 0]
           /\ pc' = [pc EXCEPT ![r] = next]
           /\ UNCHANGED waiters
  <2>1. Executing' = Executing \ {r}
    BY <1>4 DEF PoolInv, Executing
  <2>2. free' + Cardinality(Executing') = PoolSize /\ free' \in 0 .. PoolSize
    BY <2>1, <1>0, <1>1, <1>2, <1>3, <1>4 DEF PoolInv
  <2>3. Moves(r, next)
    BY <1>4 DEF Moves, PoolInv
  <2>4. /\ pc' \in [Requests -> {"idle", "want", "wait", "execute", "done"}]
        /\ held' \in [Requests -> 0 .. PoolSize]
        /\ \A s \in Requests : held'[s] = IF pc'[s] = "execute" THEN 1 ELSE 0
    BY <1>0, <1>4 DEF PoolInv
  <2>5. Len(waiters) = 0
    BY <1>4
  <2>. QED
    BY <1>1, <1>4, <2>1, <2>2, <2>3, <2>4, <2>5 DEF PoolInv
<1>5. CASE /\ waiters # << >>
           /\ waiters' = Tail(waiters)
           /\ free' = free + held[r] - 1
           /\ held' = [held EXCEPT ![r] = 0, ![Head(waiters)] = @ + 1]
           /\ pc' = [pc EXCEPT ![r] = next, ![Head(waiters)] = "execute"]
  <2>. DEFINE h == Head(waiters)
  <2>1. h \in Requests /\ pc[h] = "wait" /\ h # r /\ held[h] = 0
    BY <1>5, FirstWaiter DEF PoolInv
  <2>2. Executing' = (Executing \ {r}) \cup {h} /\ h \notin Executing \ {r}
    BY <1>5, <2>1 DEF PoolInv, Executing
  <2>3. IsFiniteSet(Executing') /\ Cardinality(Executing') = Cardinality(Executing)
    BY <2>2, <1>1, <1>2, <1>3, FS_AddElement
  <2>4. free' = free
    BY <1>0, <1>5
  <2>5. Moves(r, next)
    BY <1>5, <2>1 DEF Moves, PoolInv
  <2>6. /\ pc' \in [Requests -> {"idle", "want", "wait", "execute", "done"}]
        /\ held' \in [Requests -> 0 .. PoolSize]
        /\ \A s \in Requests : held'[s] = IF pc'[s] = "execute" THEN 1 ELSE 0
    <3>. DEFINE freed == [held EXCEPT ![r] = 0]
    <3>1. freed \in [Requests -> 0 .. PoolSize] /\ freed[h] = 0
      BY <1>0, <2>1 DEF PoolInv
    <3>2. held' = [freed EXCEPT ![h] = 1]
      BY <1>5, <2>1, <3>1
    <3>3. 1 \in 0 .. PoolSize
      BY ApiConstants
    <3>4. held' \in [Requests -> 0 .. PoolSize]
      BY <3>1, <3>2, <3>3
    <3>5. pc' \in [Requests -> {"idle", "want", "wait", "execute", "done"}]
      BY <1>5 DEF PoolInv
    <3>6. ASSUME NEW s \in Requests PROVE held'[s] = IF pc'[s] = "execute" THEN 1 ELSE 0
      <4>1. CASE s = r
        BY <4>1, <1>5, <2>1, <3>1, <3>2 DEF PoolInv
      <4>2. CASE s = h
        BY <4>2, <1>5, <2>1, <3>1, <3>2 DEF PoolInv
      <4>3. CASE s # r /\ s # h
        BY <4>3, <1>5, <2>1, <3>1, <3>2 DEF PoolInv
      <4>. QED
        BY <4>1, <4>2, <4>3
    <3>. QED
      BY <3>4, <3>5, <3>6
  <2>7. ASSUME NEW i \in 1 .. Len(waiters')
        PROVE  pc'[waiters'[i]] = "wait" /\ i + 1 \in 1 .. Len(waiters) /\ waiters'[i] = waiters[i + 1]
    <3>1. i + 1 \in 1 .. Len(waiters) /\ waiters'[i] = waiters[i + 1] /\ waiters'[i] # h
      <4>1. Len(waiters) \in Nat
        BY LenProperties DEF PoolInv
      <4>. QED
        BY <1>5, <4>1, FirstWaiter
    <3>2. pc[waiters'[i]] = "wait" /\ waiters'[i] \in Requests /\ waiters'[i] # r
      BY <3>1, ElementOfSeq DEF PoolInv
    <3>. QED
      BY <1>5, <3>1, <3>2 DEF PoolInv
  <2>8. \A i, j \in 1 .. Len(waiters') : waiters'[i] = waiters'[j] => i = j
    <3>1. SUFFICES ASSUME NEW i \in 1 .. Len(waiters'), NEW j \in 1 .. Len(waiters'),
                          waiters'[i] = waiters'[j]
                   PROVE  i = j
      OBVIOUS
    <3>2. waiters[i + 1] = waiters[j + 1] /\ i + 1 \in 1 .. Len(waiters) /\ j + 1 \in 1 .. Len(waiters)
      BY <2>7, <3>1
    <3>3. i + 1 = j + 1
      BY <3>2 DEF PoolInv
    <3>. QED
      BY <3>3
  <2>9. waiters' \in Seq(Requests)
    BY <1>5, FirstWaiter
  <2>. QED
    BY <1>5, <2>3, <2>4, <2>5, <2>6, <2>7, <2>8, <2>9 DEF PoolInv
<1>. QED
  BY <1>4, <1>5 DEF Release

\* A handler that has nothing to do with the pool leaves it exact.
LEMMA PcKeepsPool ==
    ASSUME PoolInv, NEW r \in Requests, pc[r] \in {"idle", "want"}, NEW next \in {"want", "done"},
           pc' = [pc EXCEPT ![r] = next], UNCHANGED pool
    PROVE  PoolInv' /\ Moves(r, next)
<1>1. Executing' = Executing
  BY DEF PoolInv, Executing
<1>2. UNCHANGED << held, free, waiters >>
  BY DEF pool
<1>3. \A i \in 1 .. Len(waiters) : waiters[i] \in Requests
  BY ElementOfSeq DEF PoolInv
<1>4. \A i \in 1 .. Len(waiters) : pc'[waiters[i]] = "wait"
  BY <1>3 DEF PoolInv
<1>. QED
  BY <1>1, <1>2, <1>4 DEF PoolInv, Moves

\* A queue of waiters with a request at its end that was not in it.
LEMMA QueuedLast ==
    ASSUME NEW q \in Seq(Requests), NEW r \in Requests,
           \A i \in 1 .. Len(q) : q[i] # r,
           \A i, j \in 1 .. Len(q) : q[i] = q[j] => i = j
    PROVE  LET longer == Append(q, r)
           IN  /\ longer \in Seq(Requests)
               /\ \A i \in 1 .. Len(longer) : longer[i] = r \/ \E k \in 1 .. Len(q) : longer[i] = q[k]
               /\ \A i, j \in 1 .. Len(longer) : longer[i] = longer[j] => i = j
<1>. DEFINE longer == Append(q, r)
<1>1. /\ longer \in Seq(Requests) /\ Len(longer) = Len(q) + 1
      /\ \A i \in 1 .. Len(q) : longer[i] = q[i]
      /\ longer[Len(q) + 1] = r
  BY AppendProperties
<1>2. Len(q) \in Nat
  BY LenProperties
<1>. HIDE DEF longer
<1>3. \A i \in 1 .. Len(longer) : i \in 1 .. Len(q) \/ i = Len(q) + 1
  BY <1>1, <1>2
<1>4. \A i, j \in 1 .. Len(longer) : longer[i] = longer[j] => i = j
  <2>. SUFFICES ASSUME NEW i \in 1 .. Len(longer), NEW j \in 1 .. Len(longer), longer[i] = longer[j]
                PROVE  i = j
    OBVIOUS
  <2>1. CASE i \in 1 .. Len(q) /\ j \in 1 .. Len(q)
    BY <1>1, <2>1
  <2>2. CASE i = Len(q) + 1
    BY <1>1, <1>3, <2>2
  <2>3. CASE j = Len(q) + 1
    BY <1>1, <1>3, <2>3
  <2>. QED
    BY <1>3, <2>1, <2>2, <2>3
<1>5. \A i \in 1 .. Len(longer) : longer[i] = r \/ \E k \in 1 .. Len(q) : longer[i] = q[k]
  BY <1>1, <1>3
<1>. QED
  BY <1>1, <1>4, <1>5 DEF longer

\* Asking for a connection takes one that is free or queues up for it.
LEMMA GetConnectionKeepsPool ==
    ASSUME PoolInv, NEW r \in Requests, GetConnection(r)
    PROVE  PoolInv' /\ (Moves(r, "execute") \/ Moves(r, "wait"))
<1>1. \A i \in 1 .. Len(waiters) : waiters[i] \in Requests /\ pc[waiters[i]] = "wait"
  BY ElementOfSeq DEF PoolInv
<1>2. PoolSize \in Nat /\ PoolSize > 0
  BY ApiConstants
<1>3. CASE /\ free > 0
           /\ free' = free - 1
           /\ held' = [held EXCEPT ![r] = @ + 1]
           /\ pc' = [pc EXCEPT ![r] = "execute"]
           /\ UNCHANGED waiters
  <2>1. Executing' = Executing \cup {r} /\ r \notin Executing
    BY <1>3 DEF GetConnection, PoolInv, Executing
  <2>2. IsFiniteSet(Executing') /\ Cardinality(Executing') = Cardinality(Executing) + 1
    BY <2>1, FS_AddElement DEF PoolInv
  <2>3. Cardinality(Executing) \in Nat
    BY FS_CardinalityType DEF PoolInv
  <2>4. free' \in 0 .. PoolSize /\ free' + Cardinality(Executing') = PoolSize
    BY <1>2, <1>3, <2>2, <2>3 DEF PoolInv
  <2>5. held[r] = 0
    BY <1>3 DEF GetConnection, PoolInv
  <2>6. /\ held' \in [Requests -> 0 .. PoolSize]
        /\ pc' \in [Requests -> {"idle", "want", "wait", "execute", "done"}]
        /\ \A s \in Requests : held'[s] = IF pc'[s] = "execute" THEN 1 ELSE 0
    BY <1>2, <1>3, <2>5 DEF PoolInv
  <2>7. waiters = << >>
    BY <1>3 DEF PoolInv
  <2>8. Len(waiters) = 0
    BY <2>7
  <2>9. Moves(r, "execute")
    BY <1>3 DEF Moves, PoolInv
  <2>. QED
    BY <1>3, <2>2, <2>4, <2>6, <2>7, <2>8, <2>9 DEF PoolInv
<1>4. CASE /\ free = 0
           /\ waiters' = Append(waiters, r)
           /\ pc' = [pc EXCEPT ![r] = "wait"]
           /\ UNCHANGED << free, held >>
  <2>1. pc[r] = "want"
    BY DEF GetConnection
  <2>2. Executing' = Executing
    BY <1>4, <2>1 DEF PoolInv, Executing
  <2>3. \A i \in 1 .. Len(waiters) : waiters[i] # r
    BY <1>1, <2>1
  <2>4. /\ waiters' \in Seq(Requests)
        /\ \A i \in 1 .. Len(waiters') : waiters'[i] = r \/ \E k \in 1 .. Len(waiters) : waiters'[i] = waiters[k]
        /\ \A i, j \in 1 .. Len(waiters') : waiters'[i] = waiters'[j] => i = j
    BY <1>4, <2>3, QueuedLast DEF PoolInv
  <2>5. \A i \in 1 .. Len(waiters') : pc'[waiters'[i]] = "wait"
    BY <1>1, <1>4, <2>4 DEF PoolInv
  <2>6. Moves(r, "wait")
    BY <1>4 DEF Moves, PoolInv
  <2>. QED
    BY <1>4, <2>1, <2>2, <2>4, <2>5, <2>6 DEF PoolInv
<1>. QED
  BY <1>3, <1>4 DEF GetConnection

\* The UPDATE that goes through: a PATCH keeps its connection, or passes it on
\* and queues up for another one.
LEMMA UpdateKeepsPool ==
    ASSUME PoolInv, NEW r \in Requests, pc[r] = "execute",
           \/ waiters = << >> /\ UNCHANGED << pc, pool >>
           \/ /\ waiters # << >>
              /\ waiters' = Append(Tail(waiters), r)
              /\ held' = [held EXCEPT ![r] = 0, ![Head(waiters)] = 1]
              /\ pc' = [pc EXCEPT ![r] = "wait", ![Head(waiters)] = "execute"]
              /\ UNCHANGED free
    PROVE  PoolInv' /\ (Moves(r, "execute") \/ Moves(r, "wait"))
<1>1. CASE waiters = << >> /\ UNCHANGED << pc, pool >>
  <2>1. UNCHANGED << pc, held, free, waiters, Executing >>
    BY <1>1 DEF pool, Executing
  <2>. QED
    BY <2>1 DEF PoolInv, Moves
<1>2. CASE /\ waiters # << >>
           /\ waiters' = Append(Tail(waiters), r)
           /\ held' = [held EXCEPT ![r] = 0, ![Head(waiters)] = 1]
           /\ pc' = [pc EXCEPT ![r] = "wait", ![Head(waiters)] = "execute"]
           /\ UNCHANGED free
  <2>. DEFINE h == Head(waiters)
              rest == Tail(waiters)
  <2>1. h \in Requests /\ pc[h] = "wait" /\ h # r
    BY <1>2, FirstWaiter
  <2>2. rest \in Seq(Requests) /\ Len(waiters) \in Nat /\ Len(rest) = Len(waiters) - 1
    BY <1>2, FirstWaiter, LenProperties DEF PoolInv
  <2>3. ASSUME NEW i \in 1 .. Len(rest)
        PROVE  /\ i + 1 \in 1 .. Len(waiters) /\ rest[i] = waiters[i + 1] /\ rest[i] # h
               /\ rest[i] \in Requests /\ pc[rest[i]] = "wait" /\ rest[i] # r
    <3>1. i + 1 \in 1 .. Len(waiters) /\ rest[i] = waiters[i + 1] /\ rest[i] # h
      BY <1>2, <2>2, FirstWaiter
    <3>. QED
      BY <3>1, <2>2, ElementOfSeq DEF PoolInv
  <2>4. \A i, j \in 1 .. Len(rest) : rest[i] = rest[j] => i = j
    <3>. SUFFICES ASSUME NEW i \in 1 .. Len(rest), NEW j \in 1 .. Len(rest), rest[i] = rest[j]
                  PROVE  i = j
      OBVIOUS
    <3>1. i + 1 = j + 1
      BY <2>3 DEF PoolInv
    <3>. QED
      BY <3>1, <2>2
  <2>5. /\ waiters' \in Seq(Requests)
        /\ \A i \in 1 .. Len(waiters') : waiters'[i] = r \/ \E k \in 1 .. Len(rest) : waiters'[i] = rest[k]
        /\ \A i, j \in 1 .. Len(waiters') : waiters'[i] = waiters'[j] => i = j
    <3>1. waiters' = Append(rest, r)
      BY <1>2
    <3>2. rest \in Seq(Requests) /\ \A i \in 1 .. Len(rest) : rest[i] # r
      BY <2>2, <2>3
    <3>. HIDE DEF rest
    <3>. QED
      BY <3>1, <3>2, <2>4, QueuedLast
  <2>6. \A i \in 1 .. Len(waiters') : pc'[waiters'[i]] = "wait"
    <3>1. pc'[r] = "wait"
      BY <1>2, <2>1 DEF PoolInv
    <3>2. \A k \in 1 .. Len(rest) : pc'[rest[k]] = "wait"
      BY <1>2, <2>3 DEF PoolInv
    <3>. QED
      BY <2>5, <3>1, <3>2
  <2>7. Executing' = (Executing \ {r}) \cup {h} /\ h \notin Executing \ {r} /\ r \in Executing
    BY <1>2, <2>1 DEF PoolInv, Executing
  <2>8. IsFiniteSet(Executing') /\ Cardinality(Executing') = Cardinality(Executing)
    <3>1. /\ IsFiniteSet(Executing \ {r}) /\ Cardinality(Executing \ {r}) = Cardinality(Executing) - 1
          /\ Cardinality(Executing) \in Nat
      BY <2>7, FS_RemoveElement, FS_CardinalityType DEF PoolInv
    <3>2. Cardinality(Executing \ {r}) \in Nat
      BY <3>1, FS_CardinalityType
    <3>3. /\ IsFiniteSet((Executing \ {r}) \cup {h})
          /\ Cardinality((Executing \ {r}) \cup {h}) = Cardinality(Executing \ {r}) + 1
      BY <2>7, <3>1, FS_AddElement
    <3>. QED
      BY <2>7, <3>1, <3>2, <3>3
  <2>9. /\ pc' \in [Requests -> {"idle", "want", "wait", "execute", "done"}]
        /\ held' \in [Requests -> 0 .. PoolSize]
        /\ \A s \in Requests : held'[s] = IF pc'[s] = "execute" THEN 1 ELSE 0
    BY <1>2, <2>1, ApiConstants DEF PoolInv
  <2>10. waiters' # << >> => free' = 0
    BY <1>2 DEF PoolInv
  <2>11. Moves(r, "wait")
    BY <1>2, <2>1 DEF Moves, PoolInv
  <2>. QED
    BY <1>2, <2>5, <2>6, <2>8, <2>9, <2>10, <2>11 DEF PoolInv
<1>. QED
  BY <1>1, <1>2

-----------------------------------------------------------------------------
(* The handlers *)

\* A handler that is at work has one request and no answer yet.
LEMMA AtWork ==
    ASSUME HandlersInv, NEW r \in Requests, pc[r] \in {"want", "wait", "execute"}
    PROVE  answer[r] = "none" /\ \E q \in req[r] : req[r] = {q} /\ q \in Request /\ Serves(call[r], q)
<1>1. HandlerInv(r) /\ req[r] \subseteq Request
  BY DEF HandlersInv
<1>2. answer[r] = "none"
  BY <1>1, Zenon DEF HandlerInv
<1>3. PICK q \in req[r] : Serves(call[r], q)
  BY <1>1 DEF HandlerInv
<1>4. req[r] = {q}
  BY <1>1, <1>3 DEF HandlerInv
<1>. QED
  BY <1>1, <1>2, <1>3, <1>4

\* A step of r leaves the other handlers as they are, or gives one of them the
\* connection that it waits for.
LEMMA OthersKept ==
    ASSUME HandlersInv, NEW r \in Requests, NEW next, Moves(r, next),
           \A s \in Requests \ {r} : req'[s] = req[s] /\ call'[s] = call[s] /\ answer'[s] = answer[s]
    PROVE  \A s \in Requests \ {r} : HandlerInv(s)'
<1>. SUFFICES ASSUME NEW s \in Requests \ {r} PROVE HandlerInv(s)'
  OBVIOUS
<1>1. HandlerInv(s) /\ req'[s] = req[s] /\ call'[s] = call[s] /\ answer'[s] = answer[s]
  BY DEF HandlersInv
<1>2. pc'[s] = pc[s] \/ (pc[s] = "wait" /\ pc'[s] = "execute")
  BY DEF Moves
<1>3. (pc'[s] = "done") = (answer'[s] # "none")
  BY <1>1, <1>2 DEF HandlerInv
<1>. QED
  BY <1>1, <1>2, <1>3 DEF HandlerInv

\* An answered request is done, and it keeps its request.
LEMMA ReplyKeepsHandlers ==
    ASSUME PoolInv, HandlersInv, NEW r \in Requests, pc[r] = "execute",
           NEW a \in Answer, a # "none", Reply(r, a), faults' \in 0 .. MaxFaults
    PROVE  PoolInv' /\ HandlersInv'
<1>1. PoolInv' /\ Moves(r, "done")
  BY ReleaseKeepsPool DEF Reply
<1>2. /\ req' \in [Requests -> SUBSET Request] /\ call' \in [Requests -> Call]
      /\ answer' \in [Requests -> Answer]
      /\ req' = req /\ answer'[r] = a
      /\ \A s \in Requests \ {r} : req'[s] = req[s] /\ call'[s] = call[s] /\ answer'[s] = answer[s]
  BY DEF Reply, HandlersInv
<1>3. \A s \in Requests \ {r} : HandlerInv(s)'
  BY <1>1, <1>2, OthersKept
<1>4. HandlerInv(r)'
  <2>1. HandlerInv(r) /\ pc'[r] = "done"
    BY <1>1 DEF HandlersInv, Moves
  <2>2. (pc'[r] = "done") = (answer'[r] # "none")
    BY <2>1, <1>2
  <2>. QED
    BY <1>2, <2>1, <2>2 DEF HandlerInv
<1>. QED
  BY <1>1, <1>2, <1>3, <1>4 DEF HandlersInv

\* A handler that goes on, with the same call or the next one of its request.
LEMMA GoesOnKeepsHandlers ==
    ASSUME HandlersInv, NEW r \in Requests, pc[r] \in {"want", "execute"},
           NEW next \in {"want", "wait", "execute"}, Moves(r, next),
           NEW c \in Call, \E q \in req[r] : Serves(c, q),
           call' = [call EXCEPT ![r] = c], UNCHANGED << req, answer, faults >>
    PROVE  HandlersInv'
<1>1. /\ req' \in [Requests -> SUBSET Request] /\ call' \in [Requests -> Call]
      /\ answer' \in [Requests -> Answer] /\ faults' \in 0 .. MaxFaults
      /\ call'[r] = c
      /\ \A s \in Requests \ {r} : req'[s] = req[s] /\ call'[s] = call[s] /\ answer'[s] = answer[s]
  BY DEF HandlersInv
<1>2. \A s \in Requests \ {r} : HandlerInv(s)'
  BY <1>1, OthersKept
<1>3. HandlerInv(r)'
  <2>1. HandlerInv(r) /\ pc'[r] = next /\ answer[r] = "none"
    BY AtWork DEF HandlersInv, Moves
  <2>2. (pc'[r] = "done") = (answer'[r] # "none")
    BY <2>1
  <2>. QED
    BY <1>1, <2>1, <2>2 DEF HandlerInv
<1>. QED
  BY <1>1, <1>2, <1>3 DEF HandlersInv

-----------------------------------------------------------------------------
(* The table *)

\* An answer that creates and deletes nothing, and a request that comes, say
\* nothing about the table.
LEMMA QuietKeepsTable ==
    ASSUME TableInv, NEW r \in Requests, answer[r] = "none", answer'[r] \notin {"created", "deleted"},
           \A s \in Requests \ {r} : req'[s] = req[s] /\ answer'[s] = answer[s],
           UNCHANGED << rows, filtered >>
    PROVE  TableInv'
<1>1. \A d \in Requests : answer'[d] = "created" <=> answer[d] = "created"
  OBVIOUS
<1>2. \A d \in Requests, id \in Ids : Deleted(d, id)' <=> Deleted(d, id)
  <2>. SUFFICES ASSUME NEW d \in Requests, NEW id \in Ids PROVE Deleted(d, id)' <=> Deleted(d, id)
    OBVIOUS
  <2>1. CASE d = r
    BY <2>1 DEF Deleted
  <2>2. CASE d # r
    BY <2>2 DEF Deleted
  <2>. QED
    BY <2>1, <2>2
<1>3. \A id : RowsOf(id)' = RowsOf(id)
  BY DEF RowsOf
<1>4. Requests \subseteq Ids /\ \A row \in rows : row.id \in Ids
  BY DEF Ids, TableInv, Row
<1>. HIDE DEF Ids
<1>5. /\ rows' \subseteq Row /\ IdsDiffer(rows)' /\ UrlsDiffer(rows)'
      /\ filtered' \subseteq {row.id : row \in rows'}
      /\ \A row \in rows' : row.id \in Requests => answer'[row.id] = "created"
  BY <1>1 DEF TableInv
<1>6. \A d \in Requests, id \in Ids : Deleted(d, id)' =>
          RowsOf(id)' = {} /\ (id \in Requests => answer'[id] = "created")
  BY <1>1, <1>2, <1>3 DEF TableInv
<1>7. \A d, e \in Requests, id \in Ids : Deleted(d, id)' /\ Deleted(e, id)' => d = e
  BY <1>2 DEF TableInv
<1>8. \A s \in Requests : (answer'[s] = "created" /\ RowsOf(s)' = {}) => \E d \in Requests : Deleted(d, s)'
  BY <1>1, <1>2, <1>3, <1>4 DEF TableInv
<1>. QED
  BY <1>5, <1>6, <1>7, <1>8 DEF TableInv

\* A statement writes the column filters of its own row.
LEMMA FilteredBound ==
    ASSUME NEW q \in Request
    PROVE  Filtered(q) \subseteq filtered \cup {q.id}
<1>1. q.filters \in {"absent", "set", "null"}
  BY DEF Request
<1>. QED
  BY <1>1 DEF Filtered

\* The rows after an INSERT that uc_webhook_url lets through.
LEMMA InsertKeepsTable ==
    ASSUME PoolInv, HandlersInv, TableInv, NEW r \in Requests, pc[r] = "execute",
           NEW q \in req[r], q.op = "create", q.url \in Urls, Others(q.id, q.url) = {},
           rows' = rows \cup {[id |-> q.id, url |-> q.url]},
           filtered' \subseteq filtered \cup {q.id}, Reply(r, "created")
    PROVE  TableInv'
<1>1. q.id = r /\ answer[r] = "none" /\ r \in Ids
  BY AtWork DEF HandlersInv, HandlerInv, Ids
<1>2. /\ req' = req /\ answer'[r] = "created"
      /\ \A s \in Requests \ {r} : answer'[s] = answer[s]
  BY DEF Reply, HandlersInv
<1>3. DEFINE new == [id |-> r, url |-> q.url]
<1>4. new \in Row /\ new.id = r /\ new.url = q.url /\ rows' = rows \cup {new}
  BY <1>1 DEF Row
<1>5. RowsOf(r) = {} /\ \A row \in rows : row.id # r
  BY <1>1 DEF TableInv, RowsOf
<1>6. \A row \in rows : row.url # q.url
  BY <1>1, <1>5 DEF Others
<1>. HIDE DEF new
<1>7. /\ rows' \subseteq Row /\ IdsDiffer(rows)' /\ UrlsDiffer(rows)'
      /\ \A row \in rows' : row.id \in Requests => answer'[row.id] = "created"
  <2>1. rows' \subseteq Row
    BY <1>4 DEF TableInv
  <2>2. IdsDiffer(rows)'
    BY <1>4, <1>5 DEF TableInv, IdsDiffer
  <2>3. UrlsDiffer(rows)'
    BY <1>4, <1>6 DEF TableInv, UrlsDiffer
  <2>4. \A row \in rows' : row.id \in Requests => answer'[row.id] = "created"
    BY <1>2, <1>4 DEF TableInv
  <2>. QED
    BY <2>1, <2>2, <2>3, <2>4
<1>15. filtered' \subseteq {row.id : row \in rows'}
  BY <1>1, <1>4 DEF TableInv
<1>8. \A d \in Requests, id \in Ids : Deleted(d, id)' <=> Deleted(d, id)
  BY <1>1, <1>2 DEF Deleted
<1>9. \A id \in Ids : id # r => RowsOf(id)' = RowsOf(id)
  BY <1>4 DEF RowsOf
<1>10. \A d \in Requests : ~Deleted(d, r)
  BY <1>1 DEF TableInv
<1>11. RowsOf(r)' # {}
  BY <1>4 DEF RowsOf
<1>12. ASSUME NEW d \in Requests, NEW id \in Ids, Deleted(d, id)'
       PROVE  RowsOf(id)' = {} /\ (id \in Requests => answer'[id] = "created")
  <2>1. Deleted(d, id) /\ id # r
    BY <1>8, <1>10, <1>12
  <2>. QED
    BY <1>2, <1>9, <2>1 DEF TableInv
<1>13. \A d, e \in Requests, id \in Ids : Deleted(d, id)' /\ Deleted(e, id)' => d = e
  BY <1>8 DEF TableInv
<1>14. ASSUME NEW s \in Requests, answer'[s] = "created", RowsOf(s)' = {}
       PROVE  \E d \in Requests : Deleted(d, s)'
  <2>1. s # r /\ s \in Ids
    BY <1>11, <1>14 DEF Ids
  <2>2. answer[s] = "created" /\ RowsOf(s) = {}
    BY <1>2, <1>9, <1>14, <2>1
  <2>. QED
    BY <1>8, <2>1, <2>2 DEF TableInv
<1>. QED
  BY <1>7, <1>12, <1>13, <1>14, <1>15 DEF TableInv

\* An UPDATE neither makes nor removes a row.
LEMMA UpdateKeepsTable ==
    ASSUME TableInv, NEW q \in Request, q.op = "patch",
           UrlsDiffer(Updated(q)), rows' = Updated(q), UNCHANGED << req, answer >>,
           filtered' \subseteq IF RowsOf(q.id) = {} THEN filtered ELSE filtered \cup {q.id}
    PROVE  TableInv'
<1>0. filtered' \subseteq {row.id : row \in rows'}
  <2>1. ASSUME NEW row \in rows PROVE \E new \in rows' : new.id = row.id
    <3>1. CASE row \in rows'
      BY <3>1
    <3>2. CASE row \notin rows'
      <4>. DEFINE new == [id |-> q.id, url |-> q.url]
      <4>1. row \in RowsOf(q.id) /\ new \in rows'
        BY <3>2 DEF Updated
      <4>2. new.id = row.id
        BY <4>1 DEF RowsOf
      <4>. QED
        BY <4>1, <4>2
    <3>. QED
      BY <3>1, <3>2
  <2>2. RowsOf(q.id) # {} => q.id \in {row.id : row \in rows}
    BY DEF RowsOf
  <2>3. filtered' \subseteq {row.id : row \in rows}
    BY <2>2 DEF TableInv
  <2>. QED
    BY <2>1, <2>3
<1>1. CASE rows' = rows
  <2>1. \A d, id : Deleted(d, id)' = Deleted(d, id)
    BY DEF Deleted
  <2>2. \A id : RowsOf(id)' = RowsOf(id)
    BY <1>1 DEF RowsOf
  <2>. QED
    BY <1>0, <1>1, <2>1, <2>2 DEF TableInv, IdsDiffer, UrlsDiffer
<1>2. CASE q.url # NoUrl /\ RowsOf(q.id) # {}
  <2>. DEFINE new == [id |-> q.id, url |-> q.url]
  <2>1. q.id \in Ids /\ q.url \in Urls
    BY <1>2 DEF Request
  <2>2. /\ new \in Row /\ new.id = q.id
        /\ rows' = (rows \ RowsOf(q.id)) \cup {new}
    BY <1>2, <2>1 DEF Row, Updated
  <2>. HIDE DEF new
  <2>3. rows' \subseteq Row /\ UrlsDiffer(rows)'
    BY <2>2 DEF TableInv, UrlsDiffer
  <2>4. IdsDiffer(rows)'
    BY <2>2 DEF TableInv, IdsDiffer, RowsOf
  <2>5. \A id \in Ids : RowsOf(id)' = {} <=> RowsOf(id) = {}
    <3>. SUFFICES ASSUME NEW id \in Ids PROVE RowsOf(id)' = {} <=> RowsOf(id) = {}
      OBVIOUS
    <3>1. CASE id = q.id
      BY <1>2, <2>2, <3>1 DEF RowsOf
    <3>2. CASE id # q.id
      BY <2>2, <3>2 DEF RowsOf
    <3>. QED
      BY <3>1, <3>2
  <2>6. \A row \in rows' : row.id \in Requests => answer'[row.id] = "created"
    BY <1>2, <2>2 DEF TableInv, RowsOf
  <2>7. \A d, id : Deleted(d, id)' = Deleted(d, id)
    BY DEF Deleted
  <2>8. Requests \subseteq Ids
    BY DEF Ids
  <2>9. \A d \in Requests, id \in Ids : Deleted(d, id)' =>
           RowsOf(id)' = {} /\ (id \in Requests => answer'[id] = "created")
    BY <2>5, <2>7 DEF TableInv
  <2>10. \A s \in Requests : (answer'[s] = "created" /\ RowsOf(s)' = {}) => \E d \in Requests : Deleted(d, s)'
    BY <2>5, <2>7, <2>8 DEF TableInv
  <2>11. \A d, e \in Requests, id \in Ids : Deleted(d, id)' /\ Deleted(e, id)' => d = e
    BY <2>7 DEF TableInv
  <2>. QED
    BY <1>0, <2>3, <2>4, <2>6, <2>9, <2>10, <2>11 DEF TableInv
<1>. QED
  BY <1>1, <1>2 DEF Updated

\* A DELETE that finds its row removes it and is the first to do so.
LEMMA DeleteKeepsTable ==
    ASSUME PoolInv, HandlersInv, TableInv, NEW r \in Requests, pc[r] = "execute",
           NEW q \in req[r], q.op = "delete", RowsOf(q.id) # {},
           rows' = rows \ RowsOf(q.id), filtered' = filtered \ {q.id}, Reply(r, "deleted")
    PROVE  TableInv'
<1>1. q.id # r /\ answer[r] = "none" /\ req[r] = {q} /\ q.id \in Ids
  BY AtWork DEF HandlersInv, HandlerInv, Request
<1>2. /\ req' = req /\ answer'[r] = "deleted"
      /\ \A s \in Requests \ {r} : answer'[s] = answer[s]
  BY DEF Reply, HandlersInv
<1>3. q.id \in Requests => answer'[q.id] = "created"
  BY <1>1, <1>2 DEF TableInv, RowsOf
<1>4. RowsOf(q.id)' = {}
  BY DEF RowsOf
<1>5. \A id \in Ids : id # q.id => RowsOf(id)' = RowsOf(id)
  BY DEF RowsOf
<1>6. \A d \in Requests : ~Deleted(d, q.id)
  BY <1>1 DEF TableInv
<1>7. \A d \in Requests, id \in Ids : Deleted(d, id)' <=> (Deleted(d, id) \/ (d = r /\ id = q.id))
  <2>. SUFFICES ASSUME NEW d \in Requests, NEW id \in Ids
                PROVE  Deleted(d, id)' <=> (Deleted(d, id) \/ (d = r /\ id = q.id))
    OBVIOUS
  <2>1. CASE d = r
    BY <1>1, <1>2, <2>1 DEF Deleted
  <2>2. CASE d # r
    BY <1>2, <2>2 DEF Deleted
  <2>. QED
    BY <2>1, <2>2
<1>8. /\ rows' \subseteq Row /\ IdsDiffer(rows)' /\ UrlsDiffer(rows)'
      /\ \A row \in rows' : row.id \in Requests => answer'[row.id] = "created"
  BY <1>1, <1>2 DEF TableInv, IdsDiffer, UrlsDiffer
<1>12. filtered' \subseteq {row.id : row \in rows'}
  BY DEF TableInv, RowsOf
<1>9. ASSUME NEW d \in Requests, NEW id \in Ids, Deleted(d, id)'
      PROVE  RowsOf(id)' = {} /\ (id \in Requests => answer'[id] = "created")
  <2>1. CASE id = q.id
    BY <1>3, <1>4, <2>1
  <2>2. CASE id # q.id
    <3>1. RowsOf(id) = {} /\ (id \in Requests => answer[id] = "created")
      BY <1>7, <1>9, <2>2 DEF TableInv
    <3>. QED
      BY <1>1, <1>2, <1>5, <2>2, <3>1
  <2>. QED
    BY <2>1, <2>2
<1>10. \A d, e \in Requests, id \in Ids : Deleted(d, id)' /\ Deleted(e, id)' => d = e
  BY <1>6, <1>7 DEF TableInv
<1>11. ASSUME NEW s \in Requests, answer'[s] = "created", RowsOf(s)' = {}
       PROVE  \E d \in Requests : Deleted(d, s)'
  <2>1. s \in Ids /\ answer[s] = "created"
    BY <1>1, <1>2, <1>11 DEF Ids
  <2>2. CASE s = q.id
    BY <1>7, <2>1, <2>2
  <2>3. CASE s # q.id
    BY <1>5, <1>7, <1>11, <2>1, <2>3 DEF TableInv
  <2>. QED
    BY <2>2, <2>3
<1>. QED
  BY <1>8, <1>9, <1>10, <1>11, <1>12 DEF TableInv

-----------------------------------------------------------------------------
(* The steps *)

\* An answer that says nothing about the table.
LEMMA QuietReply ==
    ASSUME ApiInv, NEW r \in Requests, pc[r] = "execute",
           NEW a \in Answer, a \notin {"none", "created", "deleted"}, Reply(r, a),
           UNCHANGED << rows, filtered >>, faults' \in 0 .. MaxFaults
    PROVE  ApiInv'
<1>1. PoolInv' /\ HandlersInv'
  BY ReplyKeepsHandlers DEF ApiInv
<1>2. /\ req' = req /\ answer'[r] = a /\ answer[r] = "none"
      /\ \A s \in Requests \ {r} : answer'[s] = answer[s]
  BY AtWork DEF Reply, HandlersInv, ApiInv
<1>3. TableInv'
  BY <1>2, QuietKeepsTable DEF ApiInv
<1>. QED
  BY <1>1, <1>3 DEF ApiInv

\* A request that comes in.
LEMMA BeginKeeps ==
    ASSUME ApiInv, NEW r \in Requests, NEW q \in Request, Begin(r, q)
    PROVE  ApiInv'
<1>1. PoolInv' /\ Moves(r, "want")
  BY PcKeepsPool DEF Begin, ApiInv
<1>2. FirstCall(q) \in Call /\ Serves(FirstCall(q), q)
  <2>1. CASE q.url \notin {NoUrl, EmptyUrl}
    BY <2>1 DEF FirstCall, Call, Serves, Request
  <2>2. CASE q.url \in {NoUrl, EmptyUrl}
    <3>1. q.op \in {"patch", "delete", "get", "list"}
      BY <2>2, ApiConstants DEF Request
    <3>. QED
      BY <2>2, <3>1 DEF FirstCall, Call, Serves
  <2>. QED
    BY <2>1, <2>2
<1>3. HandlerInv(r) /\ pc[r] = "idle"
  BY DEF ApiInv, HandlersInv, Begin
<1>4. /\ req' \in [Requests -> SUBSET Request] /\ call' \in [Requests -> Call]
      /\ answer' \in [Requests -> Answer] /\ faults' \in 0 .. MaxFaults
      /\ req'[r] = {q} /\ call'[r] = FirstCall(q) /\ answer' = answer
      /\ \A s \in Requests \ {r} : req'[s] = req[s] /\ call'[s] = call[s] /\ answer'[s] = answer[s]
  BY <1>2 DEF ApiInv, HandlersInv, Begin
<1>5. answer[r] = "none"
  BY <1>3, Zenon DEF HandlerInv
<1>6. HandlersInv'
  <2>1. \A s \in Requests \ {r} : HandlerInv(s)'
    BY <1>1, <1>4, OthersKept DEF ApiInv
  <2>2. HandlerInv(r)'
    <3>1. pc'[r] = "want"
      BY <1>1 DEF Moves
    <3>2. (q.op = "create") = (q.id = r)
      BY DEF Begin
    <3>. QED
      BY <1>2, <1>4, <1>5, <3>1, <3>2 DEF HandlerInv
  <2>. QED
    BY <1>4, <2>1, <2>2 DEF HandlersInv
<1>7. TableInv'
  BY <1>4, <1>5, QuietKeepsTable DEF ApiInv, Begin
<1>. QED
  BY <1>1, <1>6, <1>7 DEF ApiInv

\* A request that is answered without a connection.
LEMMA AnswerKeeps ==
    ASSUME ApiInv, NEW r \in Requests, pc[r] \in {"idle", "want"},
           NEW a \in {"invalid", "error"},
           pc' = [pc EXCEPT ![r] = "done"], answer' = [answer EXCEPT ![r] = a],
           UNCHANGED << rows, filtered, req, call, pool >>, faults' \in 0 .. MaxFaults
    PROVE  ApiInv'
<1>1. PoolInv' /\ Moves(r, "done")
  BY PcKeepsPool DEF ApiInv
<1>2. HandlerInv(r)
  BY DEF ApiInv, HandlersInv
<1>3. answer[r] = "none"
  BY <1>2, Zenon DEF HandlerInv
<1>4. /\ req' \in [Requests -> SUBSET Request] /\ call' \in [Requests -> Call]
      /\ answer' \in [Requests -> Answer] /\ answer'[r] = a
      /\ \A s \in Requests \ {r} : req'[s] = req[s] /\ call'[s] = call[s] /\ answer'[s] = answer[s]
  BY DEF ApiInv, HandlersInv, Answer
<1>5. HandlersInv'
  <2>1. \A s \in Requests \ {r} : HandlerInv(s)'
    BY <1>1, <1>4, OthersKept DEF ApiInv
  <2>2. HandlerInv(r)'
    <3>1. pc'[r] = "done"
      BY <1>1 DEF Moves
    <3>2. (pc'[r] = "done") = (answer'[r] # "none")
      BY <1>4, <3>1
    <3>. QED
      BY <1>2, <3>1, <3>2 DEF HandlerInv
  <2>. QED
    BY <1>4, <2>1, <2>2 DEF HandlersInv
<1>6. TableInv'
  BY <1>3, <1>4, QuietKeepsTable DEF ApiInv
<1>. QED
  BY <1>1, <1>5, <1>6 DEF ApiInv

\* A handler gets a connection or waits for one.
LEMMA GetConnectionKeeps ==
    ASSUME ApiInv, NEW r \in Requests, GetConnection(r)
    PROVE  ApiInv'
<1>1. PoolInv' /\ (Moves(r, "execute") \/ Moves(r, "wait"))
  BY GetConnectionKeepsPool DEF ApiInv
<1>2. answer[r] = "none" /\ \E q \in req[r] : Serves(call[r], q)
  BY AtWork DEF ApiInv, GetConnection
<1>3. call' = [call EXCEPT ![r] = call[r]] /\ call[r] \in Call
  BY DEF GetConnection, ApiInv, HandlersInv
<1>4. pc[r] = "want" /\ UNCHANGED << rows, filtered, req, answer, faults >>
  BY DEF GetConnection
<1>5. HandlersInv'
  BY <1>1, <1>2, <1>3, <1>4, GoesOnKeepsHandlers DEF ApiInv
<1>6. TableInv'
  BY <1>2, <1>4, QuietKeepsTable DEF ApiInv
<1>. QED
  BY <1>1, <1>5, <1>6 DEF ApiInv

\* The look for a duplicate is answered, or the handler goes on to the write.
LEMMA FindByUrlKeeps ==
    ASSUME ApiInv, NEW r \in Requests, FindByUrl(r)
    PROVE  ApiInv'
<1>1. pc[r] = "execute" /\ call[r] = "byUrl" /\ UNCHANGED << rows, filtered, faults >>
  BY DEF FindByUrl, Executes
<1>2. PICK q \in req[r] :
          \/ \E a \in {"error", "duplicate", "invalid"} : Reply(r, a)
          \/ Continue(r, IF q.op = "create" THEN "insert" ELSE "update")
  BY DEF FindByUrl
<1>3. CASE \E a \in {"error", "duplicate", "invalid"} : Reply(r, a)
  <2>1. faults' \in 0 .. MaxFaults
    BY <1>1 DEF ApiInv, HandlersInv
  <2>. QED
    BY <1>1, <1>3, <2>1, QuietReply DEF Answer
<1>4. CASE Continue(r, IF q.op = "create" THEN "insert" ELSE "update")
  <2>. DEFINE c == IF q.op = "create" THEN "insert" ELSE "update"
  <2>1. q.op \in {"create", "patch"} /\ answer[r] = "none"
    BY <1>1, AtWork DEF ApiInv, Serves
  <2>2. c \in Call /\ \E p \in req[r] : Serves(c, p)
    BY <2>1 DEF Call, Serves
  <2>3. Release(r, "want") /\ call' = [call EXCEPT ![r] = c] /\ UNCHANGED << req, answer >>
    BY <1>4 DEF Continue
  <2>. HIDE DEF c
  <2>4. PoolInv' /\ Moves(r, "want")
    BY <1>1, <2>3, ReleaseKeepsPool DEF ApiInv
  <2>5. HandlersInv'
    BY <1>1, <2>2, <2>3, <2>4, GoesOnKeepsHandlers DEF ApiInv
  <2>6. TableInv'
    BY <1>1, <2>1, <2>3, QuietKeepsTable DEF ApiInv
  <2>. QED
    BY <2>4, <2>5, <2>6 DEF ApiInv
<1>. QED
  BY <1>2, <1>3, <1>4

\* The INSERT: a new row, or the 500 for a url that another row has by now.
LEMMA InsertKeeps ==
    ASSUME ApiInv, NEW r \in Requests, Insert(r)
    PROVE  ApiInv'
<1>1. pc[r] = "execute" /\ call[r] = "insert" /\ UNCHANGED faults /\ faults' \in 0 .. MaxFaults
  BY DEF Insert, Executes, ApiInv, HandlersInv
<1>2. PICK q \in req[r] :
          \/ /\ Others(q.id, q.url) = {}
             /\ rows' = rows \cup {[id |-> q.id, url |-> q.url]}
             /\ filtered' = Filtered(q)
             /\ Reply(r, "created")
          \/ Others(q.id, q.url) # {} /\ Reply(r, "error") /\ UNCHANGED << rows, filtered >>
  BY DEF Insert
<1>3. CASE /\ Others(q.id, q.url) = {}
           /\ rows' = rows \cup {[id |-> q.id, url |-> q.url]}
           /\ filtered' = Filtered(q)
           /\ Reply(r, "created")
  <2>1. q.op = "create" /\ q \in Request
    BY <1>1, AtWork DEF ApiInv, Serves
  <2>2. q.url \in Urls
    BY <2>1 DEF Request
  <2>3. PoolInv' /\ HandlersInv'
    BY <1>1, <1>3, ReplyKeepsHandlers DEF ApiInv, Answer
  <2>4. TableInv'
    BY <1>1, <1>3, <2>1, <2>2, FilteredBound, InsertKeepsTable DEF ApiInv
  <2>. QED
    BY <2>3, <2>4 DEF ApiInv
<1>4. CASE Reply(r, "error") /\ UNCHANGED << rows, filtered >>
  BY <1>1, <1>4, QuietReply DEF Answer
<1>. QED
  BY <1>2, <1>3, <1>4

\* The UPDATE goes on to read the row back, or fails on a url that another row has.
LEMMA UpdateKeeps ==
    ASSUME ApiInv, NEW r \in Requests, Update(r)
    PROVE  ApiInv'
<1>1. pc[r] = "execute" /\ call[r] = "update" /\ UNCHANGED faults /\ faults' \in 0 .. MaxFaults
  BY DEF Update, Executes, ApiInv, HandlersInv
<1>2. PICK q \in req[r] :
          \/ /\ UrlsDiffer(Updated(q))
             /\ rows' = Updated(q)
             /\ filtered' = IF RowsOf(q.id) = {} THEN filtered ELSE Filtered(q)
             /\ call' = [call EXCEPT ![r] = "byId"]
             /\ \/ waiters = << >> /\ UNCHANGED << pc, pool >>
                \/ /\ waiters # << >>
                   /\ waiters' = Append(Tail(waiters), r)
                   /\ held' = [held EXCEPT ![r] = 0, ![Head(waiters)] = 1]
                   /\ pc' = [pc EXCEPT ![r] = "wait", ![Head(waiters)] = "execute"]
                   /\ UNCHANGED free
             /\ UNCHANGED << req, answer >>
          \/ ~UrlsDiffer(Updated(q)) /\ Reply(r, "error") /\ UNCHANGED << rows, filtered >>
  BY DEF Update
<1>3. CASE /\ UrlsDiffer(Updated(q))
           /\ rows' = Updated(q)
           /\ filtered' = IF RowsOf(q.id) = {} THEN filtered ELSE Filtered(q)
           /\ call' = [call EXCEPT ![r] = "byId"]
           /\ \/ waiters = << >> /\ UNCHANGED << pc, pool >>
              \/ /\ waiters # << >>
                 /\ waiters' = Append(Tail(waiters), r)
                 /\ held' = [held EXCEPT ![r] = 0, ![Head(waiters)] = 1]
                 /\ pc' = [pc EXCEPT ![r] = "wait", ![Head(waiters)] = "execute"]
                 /\ UNCHANGED free
           /\ UNCHANGED << req, answer >>
  <2>1. q \in Request /\ q.op = "patch"
    BY <1>1, AtWork DEF ApiInv, Serves
  <2>2. PoolInv' /\ (Moves(r, "execute") \/ Moves(r, "wait"))
    BY <1>1, <1>3, UpdateKeepsPool DEF ApiInv
  <2>3. "byId" \in Call /\ Serves("byId", q)
    BY DEF Call, Serves
  <2>4. HandlersInv'
    BY <1>1, <1>3, <2>2, <2>3, GoesOnKeepsHandlers DEF ApiInv
  <2>5. TableInv'
    BY <1>3, <2>1, FilteredBound, UpdateKeepsTable DEF ApiInv
  <2>. QED
    BY <2>2, <2>4, <2>5 DEF ApiInv
<1>4. CASE Reply(r, "error") /\ UNCHANGED << rows, filtered >>
  BY <1>1, <1>4, QuietReply DEF Answer
<1>. QED
  BY <1>2, <1>3, <1>4

\* The DELETE: 204 with its row, 404 without.
LEMMA DeleteKeeps ==
    ASSUME ApiInv, NEW r \in Requests, Delete(r)
    PROVE  ApiInv'
<1>1. pc[r] = "execute" /\ call[r] = "delete" /\ UNCHANGED faults /\ faults' \in 0 .. MaxFaults
  BY DEF Delete, Executes, ApiInv, HandlersInv
<1>2. PICK q \in req[r] :
          /\ rows' = rows \ RowsOf(q.id)
          /\ filtered' = filtered \ {q.id}
          /\ Reply(r, IF RowsOf(q.id) = {} THEN "not found" ELSE "deleted")
  BY DEF Delete
<1>3. q.op = "delete"
  BY <1>1, AtWork DEF ApiInv, Serves
<1>4. CASE RowsOf(q.id) = {}
  <2>1. UNCHANGED << rows, filtered >> /\ Reply(r, "not found")
    <3>1. q.id \notin {row.id : row \in rows}
      BY <1>4 DEF RowsOf
    <3>2. q.id \notin filtered
      BY <3>1 DEF ApiInv, TableInv
    <3>. QED
      BY <1>2, <1>4, <3>2
  <2>. QED
    BY <1>1, <2>1, QuietReply DEF Answer
<1>5. CASE RowsOf(q.id) # {}
  <2>1. Reply(r, "deleted")
    BY <1>2, <1>5
  <2>2. PoolInv' /\ HandlersInv'
    BY <1>1, <2>1, ReplyKeepsHandlers DEF ApiInv, Answer
  <2>3. TableInv'
    BY <1>1, <1>2, <1>3, <1>5, <2>1, DeleteKeepsTable DEF ApiInv
  <2>. QED
    BY <2>2, <2>3 DEF ApiInv
<1>. QED
  BY <1>4, <1>5

\* The statements that only read, and the calls that fail.
LEMMA ReadOrFaultKeeps ==
    ASSUME ApiInv, NEW r \in Requests,
           FindById(r) \/ List(r) \/ StatementFault(r) \/ ConnectFault(r) \/ Invalid(r)
    PROVE  ApiInv'
<1>. faults \in 0 .. MaxFaults /\ MaxFaults \in Nat
  BY ApiConstants DEF ApiInv, HandlersInv
<1>1. CASE FindById(r)
  <2>1. pc[r] = "execute" /\ UNCHANGED << rows, filtered, faults >>
    BY <1>1 DEF FindById, Executes
  <2>2. PICK a \in {"not found", "ok", "error"} : Reply(r, a)
    BY <1>1 DEF FindById
  <2>. QED
    BY <2>1, <2>2, QuietReply DEF Answer
<1>2. CASE List(r)
  <2>1. pc[r] = "execute" /\ UNCHANGED << rows, filtered, faults >>
    BY <1>2 DEF List, Executes
  <2>2. PICK a \in {"ok", "error"} : Reply(r, a)
    BY <1>2 DEF List
  <2>. QED
    BY <2>1, <2>2, QuietReply DEF Answer
<1>3. CASE StatementFault(r)
  <2>1. faults' \in 0 .. MaxFaults
    BY <1>3 DEF StatementFault
  <2>. QED
    BY <1>3, <2>1, QuietReply DEF StatementFault, Answer
<1>4. CASE ConnectFault(r)
  <2>1. faults' \in 0 .. MaxFaults
    BY <1>4 DEF ConnectFault
  <2>. QED
    BY <1>4, <2>1, AnswerKeeps DEF ConnectFault
<1>5. CASE Invalid(r)
  BY <1>5, AnswerKeeps DEF Invalid
<1>. QED
  BY <1>1, <1>2, <1>3, <1>4, <1>5

\* A step that changes nothing of this module.
LEMMA StutterKeeps ==
    ASSUME ApiInv, UNCHANGED vars
    PROVE  ApiInv'
<1>1. UNCHANGED << rows, filtered, req, pc, call, held, free, waiters, answer, faults >>
  BY DEF vars, pool
<1>2. Executing' = Executing
  BY <1>1 DEF Executing
<1>3. PoolInv'
  BY <1>1, <1>2 DEF ApiInv, PoolInv
<1>4. HandlersInv'
  BY <1>1 DEF ApiInv, HandlersInv, HandlerInv
<1>5. TableInv'
  BY <1>1 DEF ApiInv, TableInv, IdsDiffer, UrlsDiffer, RowsOf, Deleted
<1>. QED
  BY <1>3, <1>4, <1>5 DEF ApiInv

\* Before the first request.
LEMMA InitHolds == Init => ApiInv
<1>. SUFFICES ASSUME Init PROVE ApiInv
  OBVIOUS
<1>1. PoolInv
  <2>1. Executing = {}
    BY DEF Init, Executing
  <2>2. IsFiniteSet(Executing) /\ Cardinality(Executing) = 0
    BY <2>1, FS_EmptySet
  <2>3. PoolSize \in Nat /\ PoolSize > 0
    BY ApiConstants
  <2>4. Len(waiters) = 0 /\ waiters \in Seq(Requests)
    BY DEF Init
  <2>. QED
    BY <2>2, <2>3, <2>4 DEF Init, PoolInv
<1>2. HandlersInv
  <2>1. \A r \in Requests : HandlerInv(r)
    BY DEF Init, HandlerInv
  <2>2. /\ req \in [Requests -> SUBSET Request] /\ call \in [Requests -> Call]
        /\ answer \in [Requests -> Answer] /\ faults \in 0 .. MaxFaults
    BY ApiConstants DEF Init, Call, Answer
  <2>. QED
    BY <2>1, <2>2 DEF HandlersInv
<1>3. TableInv
  <2>1. /\ rows \subseteq [id : Existing, url : Urls] /\ IdsDiffer(rows) /\ UrlsDiffer(rows)
        /\ filtered \subseteq {row.id : row \in rows}
    BY DEF Init
  <2>2. rows \subseteq Row /\ \A row \in rows : row.id \notin Requests
    BY <2>1, ApiConstants DEF Row, Ids
  <2>3. \A r \in Requests : answer[r] = "none"
    BY DEF Init
  <2>. QED
    BY <2>1, <2>2, <2>3 DEF TableInv, Deleted
<1>. QED
  BY <1>1, <1>2, <1>3 DEF ApiInv

\* The invariant is inductive.
LEMMA StepKeeps == ApiInv /\ [Next]_vars => ApiInv'
<1>. SUFFICES ASSUME ApiInv, [Next]_vars PROVE ApiInv'
  OBVIOUS
<1>1. CASE UNCHANGED vars
  BY <1>1, StutterKeeps
<1>2. ASSUME NEW r \in Requests, Invalid(r) \/ Handle(r) PROVE ApiInv'
  BY <1>2, GetConnectionKeeps, FindByUrlKeeps, InsertKeeps, UpdateKeeps, DeleteKeeps, ReadOrFaultKeeps
     DEF Handle, Serve
<1>3. ASSUME NEW r \in Requests, NEW q \in Wanted, Begin(r, q) PROVE ApiInv'
  BY <1>3, WantedAssumption, BeginKeeps
<1>. QED
  BY <1>1, <1>2, <1>3 DEF Next

\* Every reachable state of the handlers, the pool and the table is consistent.
THEOREM ApiInvHolds == Spec => []ApiInv
<1>. QED
  BY InitHolds, StepKeeps, PTL DEF Spec

-----------------------------------------------------------------------------
(* The properties *)

\* What the invariant says about the answers: the deletions of a webhook.
LEMMA AnswersFollow == ApiInv => AnswersTrue
<1>. SUFFICES ASSUME ApiInv, NEW id \in Ids
              PROVE  LET deleters == {d \in Requests : answer[d] = "deleted" /\ \E q \in req[d] : q.id = id}
                     IN  /\ Cardinality(deleters) <= 1
                         /\ (id \in Requests /\ answer[id] = "created") =>
                                (RowsOf(id) = {} <=> deleters # {})
  BY DEF AnswersTrue
<1>. DEFINE deleters == {d \in Requests : answer[d] = "deleted" /\ \E q \in req[d] : q.id = id}
<1>1. \A d \in Requests : d \in deleters <=> Deleted(d, id)
  BY DEF Deleted
<1>2. deleters \subseteq Requests
  OBVIOUS
<1>. HIDE DEF deleters
<1>3. \A d, e \in deleters : d = e
  BY <1>1, <1>2 DEF ApiInv, TableInv
<1>4. deleters = {} \/ \E d \in deleters : deleters = {d}
  BY <1>3
<1>5. Cardinality(deleters) <= 1
  <2>1. CASE deleters = {}
    BY <2>1, FS_EmptySet
  <2>2. ASSUME NEW d \in deleters, deleters = {d} PROVE Cardinality(deleters) <= 1
    <3>1. Cardinality({d}) = 1
      BY FS_Singleton
    <3>. QED
      BY <2>2, <3>1
  <2>. QED
    BY <1>4, <2>1, <2>2
<1>6. (id \in Requests /\ answer[id] = "created") => (RowsOf(id) = {} <=> deleters # {})
  BY <1>1, <1>2 DEF ApiInv, TableInv
<1>. QED
  BY <1>5, <1>6 DEF deleters

\* Every variable of the webhook handlers stays in its range, however the
\* requests interleave and whichever calls fail.
THEOREM Types == Spec => []TypeOK
<1>1. ApiInv => TypeOK
  BY DEF ApiInv, PoolInv, HandlersInv, TableInv, TypeOK
<1>. QED
  BY <1>1, ApiInvHolds, PTL

\* No connection of the pool is lost or given twice, for any pool size, any
\* number of handlers and any number of failing statements.
THEOREM PoolStaysExact == Spec => []PoolExact
<1>1. ApiInv => PoolExact
  BY DEF ApiInv, PoolInv, PoolExact, Executing
<1>. QED
  BY <1>1, ApiInvHolds, PTL

\* A webhook whose POST was answered 201 is in the table until exactly one
\* DELETE of it is answered 204.
THEOREM AnswersStayTrue == Spec => []AnswersTrue
<1>. QED
  BY AnswersFollow, ApiInvHolds, PTL

=============================================================================
