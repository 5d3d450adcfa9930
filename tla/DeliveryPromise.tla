-------------------------- MODULE DeliveryPromise --------------------------
(***************************************************************************)
(* What both delivery paths of the bridge promise about an item: an        *)
(* outgoing message on its way to WhatsApp (models/queue-message.ts), an   *)
(* incoming one on its way to a webhook (models/webhook.ts).  The receiver *)
(* takes an item at most once, and a row that says "delivered" or "failed" *)
(* is right and final, until a call of the bridge fails; even then nothing *)
(* is reported as delivered that the receiver has not taken.               *)
(***************************************************************************)
EXTENDS Naturals

CONSTANTS
    Items,
    Withdrawable  \* stages from which a client can withdraw an item

VARIABLES
    stage,   \* what the row of an item says
    taken,   \* how often the receiver has taken an item
    faulty   \* a call of the bridge has failed

vars == << stage, taken, faulty >>

Stages == {"none", "pending", "delivered", "failed", "withdrawn"}

\* A withdrawal may come too late for an attempt that is under way, which then
\* still ends in one of the two outcomes.
Undecided(i) == stage[i] \in {"pending", "withdrawn"}

SetStage(i, s) == stage' = [stage EXCEPT ![i] = s]

Init ==
    /\ stage = [i \in Items |-> "none"]
    /\ taken = [i \in Items |-> 0]
    /\ faulty = FALSE

Submit(i) == stage[i] = "none" /\ SetStage(i, "pending") /\ UNCHANGED << taken, faulty >>

Withdraw(I) ==
    /\ \A i \in I : stage[i] \in Withdrawable
    /\ stage' = [i \in Items |-> IF i \in I THEN "withdrawn" ELSE stage[i]]
    /\ UNCHANGED << taken, faulty >>

\* The answer to the bridge may be lost, which is a failed call.
Take(i) ==
    /\ (Undecided(i) /\ taken[i] = 0) \/ faulty'
    /\ taken' = [taken EXCEPT ![i] = @ + 1]
    /\ faulty' \in {faulty, TRUE}
    /\ UNCHANGED stage

Confirm(i) ==
    /\ Undecided(i) \/ faulty
    /\ taken[i] > 0
    /\ SetStage(i, "delivered")
    /\ UNCHANGED << taken, faulty >>

GiveUp(i) ==
    /\ (Undecided(i) /\ taken[i] = 0) \/ faulty
    /\ SetStage(i, "failed")
    /\ UNCHANGED << taken, faulty >>

\* A failed call may make the bridge try again what it had settled.
Reopen(i) ==
    /\ faulty
    /\ SetStage(i, "pending")
    /\ UNCHANGED << taken, faulty >>

Fail == faulty' = TRUE /\ UNCHANGED << stage, taken >>

Next ==
    \/ \E i \in Items : Submit(i) \/ Take(i) \/ Confirm(i) \/ GiveUp(i) \/ Reopen(i)
    \/ \E I \in SUBSET Items : Withdraw(I)
    \/ Fail

Spec == Init /\ [][Next]_vars

=============================================================================
