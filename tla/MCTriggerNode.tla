--------------------------- MODULE MCTriggerNode ---------------------------
(***************************************************************************)
(* A small instance of TriggerNode for TLC.                                *)
(***************************************************************************)
EXTENDS TriggerNode, TLC

CONSTANTS r1, r2, r3, e1, u1, u2

\* Every kind of request.  A PATCH changes the url or the filters, not both
\* ("null" where there are none changes neither); one webhook is read by id, and
\* the id in a request for the list means nothing.
MCWanted == {q \in Request :
    /\ q.op = "patch" => (q.url = NoUrl) = (q.filters # "absent")
    /\ q.op \in {"get", "list"} => q.id = r1}

\* One url has a node and the other has not: only requests are interchangeable.
MCSymmetry == Permutations(Requests)

=============================================================================
