------------------------- MODULE TriggerNodeProofs -------------------------
(***************************************************************************)
(* Theorems about TriggerNode, for any number of trigger nodes and other   *)
(* clients of the API.                                                     *)
(***************************************************************************)
EXTENDS TriggerNode, WebhookApiProofs

\* Some client has taken `url` from the webhook `id`.
Touched(id, url) == \E d \in Requests : Took(d, id, url)

\* What a node knows about the table: each POST it made that was answered 201
\* has left a row with the node's url, unless a client touched that row.
NodeInv ==
    /\ workflow \in [Nodes -> {"inactive", "activating", "active"}]
    /\ awaited \in [Nodes -> SUBSET Requests]
    /\ made \in [Nodes -> SUBSET Requests]
    /\ \A n \in Nodes : \A r \in made[n] : req[r] = {Post(n, r)}
    /\ \A n \in Nodes : awaited[n] \subseteq made[n] /\ (awaited[n] # {} => workflow[n] = "activating")
    /\ \A n \in Nodes : workflow[n] = "active" => \E r \in made[n] : answer[r] = "created"
    /\ \A n \in Nodes : \A r \in made[n] :
          answer[r] = "created" => [id |-> r, url |-> n] \in rows \/ Touched(r, n)

-----------------------------------------------------------------------------
(* What a step of the API does to requests, answers and rows *)

\* A step is one handler's, which has not answered yet.
LEMMA OneHandler ==
    ASSUME ApiInv, Next
    PROVE  \E s \in Requests : /\ answer[s] = "none"
                               /\ req[s] # {} => req'[s] = req[s]
                               /\ req[s] # {} /\ call[s] = "byId" => call'[s] = "byId"
                               /\ \A t \in Requests \ {s} : call'[t] = call[t]
                               /\ \A t \in Requests \ {s} : req'[t] = req[t] /\ answer'[t] = answer[t]
<1>. USE DEF ApiInv, HandlersInv
<1>1. ASSUME NEW s \in Requests, pc[s] # "done" PROVE answer[s] = "none"
  <2>1. HandlerInv(s)
    OBVIOUS
  <2>. QED
    BY <1>1, <2>1, Zenon DEF HandlerInv
<1>2. ASSUME NEW s \in Requests, Invalid(s)
      PROVE  /\ pc[s] # "done" /\ req' = req
             /\ call[s] = "byId" => call'[s] = "byId"
             /\ \A t \in Requests \ {s} : answer'[t] = answer[t] /\ call'[t] = call[t]
  BY <1>2 DEF Invalid
<1>3. ASSUME NEW s \in Requests, Handle(s)
      PROVE  /\ pc[s] # "done" /\ req' = req
             /\ call[s] = "byId" => call'[s] = "byId"
             /\ \A t \in Requests \ {s} : answer'[t] = answer[t] /\ call'[t] = call[t]
  <2>1. CASE GetConnection(s) \/ ConnectFault(s)
    BY <2>1 DEF GetConnection, ConnectFault
  <2>2. CASE FindByUrl(s)
    BY <2>2 DEF FindByUrl, Executes, Reply, Continue
  <2>3. CASE Insert(s) \/ Delete(s)
    BY <2>3 DEF Insert, Delete, Executes, Reply
  <2>4. CASE Update(s)
    BY <2>4 DEF Update, Executes, Reply
  <2>5. CASE FindById(s) \/ List(s) \/ StatementFault(s)
    BY <2>5 DEF FindById, List, StatementFault, Executes, Reply
  <2>. QED
    BY <1>3, <2>1, <2>2, <2>3, <2>4, <2>5 DEF Handle, Serve
<1>4. ASSUME NEW s \in Requests, NEW q \in Wanted, Begin(s, q)
      PROVE  /\ pc[s] # "done" /\ req[s] = {} /\ answer' = answer
             /\ \A t \in Requests \ {s} : req'[t] = req[t] /\ call'[t] = call[t]
  <2>1. HandlerInv(s)
    OBVIOUS
  <2>. QED
    BY <1>4, <2>1 DEF Begin, HandlerInv
<1>. QED
  BY <1>1, <1>2, <1>3, <1>4 DEF Next

\* An answer is final, and so is the request of a handler.
LEMMA RequestsAreFinal ==
    ASSUME ApiInv, [Next]_vars, NEW r \in Requests
    PROVE  /\ req[r] # {} => req'[r] = req[r]
           /\ answer[r] # "none" => answer'[r] = answer[r]
           /\ req[r] # {} /\ call[r] = "byId" => call'[r] = "byId"
<1>1. CASE Next
  BY <1>1, OneHandler
<1>2. CASE UNCHANGED vars
  BY <1>2 DEF vars
<1>. QED
  BY <1>1, <1>2

\* A row goes, or gets another url, in the step of the PATCH or DELETE that takes it.
LEMMA RowsGo ==
    ASSUME ApiInv, [Next]_vars, NEW row \in rows, row \notin rows'
    PROVE  Touched(row.id, row.url)'
<1>1. PICK s \in Requests : Invalid(s) \/ Handle(s) \/ \E q \in Wanted : Begin(s, q)
  BY DEF Next, vars
<1>2. ~UNCHANGED rows
  OBVIOUS
<1>3. Insert(s) \/ Update(s) \/ Delete(s)
  BY <1>1, <1>2 DEF Invalid, Begin, Handle, Serve, GetConnection, FindByUrl, FindById, List,
                    StatementFault, ConnectFault
<1>4. CASE Insert(s)
  BY <1>4 DEF Insert
<1>5. CASE Update(s)
  <2>1. PICK q \in req[s] : rows' = Updated(q) /\ call'[s] = "byId" /\ req' = req
    BY <1>2, <1>5 DEF Update, ApiInv, HandlersInv
  <2>2. q.op = "patch"
    BY <1>5, AtWork DEF ApiInv, Update, Executes, Serves
  <2>3. row.id = q.id /\ q.url # NoUrl /\ [id |-> q.id, url |-> q.url] \in rows'
    BY <2>1 DEF Updated, RowsOf
  <2>4. q.url # row.url
    <3>1. row = [id |-> row.id, url |-> row.url]
      BY DEF ApiInv, TableInv, Row
    <3>. QED
      BY <2>3, <3>1
  <2>5. Took(s, row.id, row.url)'
    BY <2>1, <2>2, <2>3, <2>4 DEF Took
  <2>. QED
    BY <2>5 DEF Touched
<1>6. CASE Delete(s)
  <2>1. PICK q \in req[s] :
            /\ rows' = rows \ RowsOf(q.id)
            /\ Reply(s, IF RowsOf(q.id) = {} THEN "not found" ELSE "deleted")
    BY <1>6 DEF Delete
  <2>2. q.op = "delete"
    BY <1>6, AtWork DEF ApiInv, Delete, Executes, Serves
  <2>3. row.id = q.id /\ row \in RowsOf(q.id)
    BY <2>1 DEF RowsOf
  <2>4. answer'[s] = "deleted" /\ req' = req
    BY <2>1, <2>3 DEF Reply, ApiInv, HandlersInv
  <2>5. Took(s, row.id, row.url)'
    BY <2>2, <2>3, <2>4 DEF Took
  <2>. QED
    BY <2>5 DEF Touched
<1>. QED
  BY <1>3, <1>4, <1>5, <1>6

\* A POST is answered 201 in the step that inserts its row.
LEMMA RowsCome ==
    ASSUME ApiInv, [Next]_vars, NEW r \in Requests, answer[r] # "created", answer'[r] = "created"
    PROVE  \E q \in req[r] : [id |-> q.id, url |-> q.url] \in rows'
<1>1. PICK s \in Requests : Invalid(s) \/ Handle(s) \/ \E q \in Wanted : Begin(s, q)
  BY DEF Next, vars
<1>2. answer \in [Requests -> Answer]
  BY DEF ApiInv, HandlersInv
<1>3. Insert(s)
  <2>1. CASE Invalid(s) \/ ConnectFault(s)
    BY <1>2, <2>1 DEF Invalid, ConnectFault
  <2>2. CASE GetConnection(s) \/ \E q \in Wanted : Begin(s, q)
    BY <2>2 DEF GetConnection, Begin
  <2>3. CASE FindByUrl(s)
    BY <1>2, <2>3 DEF FindByUrl, Reply, Continue
  <2>4. CASE Update(s)
    BY <1>2, <2>4 DEF Update, Reply
  <2>5. CASE FindById(s) \/ List(s) \/ StatementFault(s)
    BY <1>2, <2>5 DEF FindById, List, StatementFault, Reply
  <2>6. CASE Delete(s)
    BY <1>2, <2>6 DEF Delete, Reply
  <2>. QED
    BY <1>1, <2>1, <2>2, <2>3, <2>4, <2>5, <2>6 DEF Handle, Serve
<1>4. PICK q \in req[s] :
          \/ rows' = rows \cup {[id |-> q.id, url |-> q.url]} /\ Reply(s, "created")
          \/ Reply(s, "error")
  BY <1>3 DEF Insert
<1>5. Reply(s, "created") /\ s = r
  BY <1>2, <1>4 DEF Reply
<1>6. ~Reply(s, "error")
  BY <1>2, <1>5 DEF Reply
<1>. QED
  BY <1>4, <1>5, <1>6

-----------------------------------------------------------------------------
(* The nodes *)

\* The nodes use the API as any client does.
LEMMA NodeStepIsApiStep == [NodeNext]_allVars => [Next]_vars
<1>. SUFFICES ASSUME [NodeNext]_allVars PROVE [Next]_vars
  OBVIOUS
<1>1. ASSUME NEW n \in Nodes, Activate(n) PROVE Next
  <2>1. PICK r \in Requests : Begin(r, Post(n, r))
    BY <1>1 DEF Activate
  <2>2. Post(n, r) \in Wanted
    BY NodesAssumption
  <2>. QED
    BY <2>1, <2>2 DEF Next
<1>2. ASSUME NEW n \in Nodes, Registered(n) \/ Refused(n) \/ Deactivate(n) PROVE UNCHANGED vars
  BY <1>2 DEF Registered, Refused, Deactivate
<1>3. CASE UNCHANGED allVars
  BY <1>3 DEF allVars
<1>. QED
  BY <1>1, <1>2, <1>3 DEF NodeNext

\* The bridge keeps its own promises when its clients are trigger nodes.
THEOREM NodesUseTheApi == NodeSpec => Spec
<1>1. NodeInit => Init
  BY DEF NodeInit
<1>. QED
  BY <1>1, NodeStepIsApiStep, PTL DEF NodeSpec, Spec

\* A step of the API, or one that only answers, keeps what the nodes know.
LEMMA RowsStayKnown ==
    ASSUME ApiInv, NodeInv, [Next]_vars, NEW n \in Nodes, NEW r \in made[n]
    PROVE  /\ req'[r] = {Post(n, r)}
           /\ answer[r] = "created" => answer'[r] = "created"
           /\ answer'[r] = "created" => [id |-> r, url |-> n] \in rows' \/ Touched(r, n)'
<1>1. r \in Requests /\ req[r] = {Post(n, r)}
  BY DEF NodeInv
<1>2. req'[r] = {Post(n, r)} /\ (answer[r] = "created" => answer'[r] = "created")
  BY <1>1, RequestsAreFinal
<1>3. Touched(r, n) => Touched(r, n)'
  <2>1. SUFFICES ASSUME NEW d \in Requests, Took(d, r, n) PROVE Took(d, r, n)'
    BY DEF Touched
  <2>2. /\ req[d] # {} => req'[d] = req[d]
        /\ answer[d] # "none" => answer'[d] = answer[d]
        /\ req[d] # {} /\ call[d] = "byId" => call'[d] = "byId"
    BY RequestsAreFinal
  <2>. QED
    BY <2>1, <2>2 DEF Took
<1>4. ASSUME answer'[r] = "created" PROVE [id |-> r, url |-> n] \in rows' \/ Touched(r, n)'
  <2>1. CASE answer[r] = "created"
    <3>1. [id |-> r, url |-> n] \in rows \/ Touched(r, n)
      BY <2>1 DEF NodeInv
    <3>2. [id |-> r, url |-> n] \in rows => [id |-> r, url |-> n] \in rows' \/ Touched(r, n)'
      <4>. DEFINE row == [id |-> r, url |-> n]
      <4>1. row.id = r /\ row.url = n
        OBVIOUS
      <4>. HIDE DEF row
      <4>2. row \in rows => row \in rows' \/ Touched(row.id, row.url)'
        BY RowsGo
      <4>3. row \in rows => row \in rows' \/ Touched(r, n)'
        BY <4>1, <4>2 DEF Touched, Took
      <4>. QED
        BY <4>3 DEF row
    <3>. QED
      BY <1>3, <3>1, <3>2
  <2>2. CASE answer[r] # "created"
    <3>1. PICK q \in req[r] : [id |-> q.id, url |-> q.url] \in rows'
      BY <1>1, <1>4, <2>2, RowsCome
    <3>2. q.id = r /\ q.url = n
      BY <1>1 DEF Post
    <3>. QED
      BY <3>1, <3>2
  <2>. QED
    BY <2>1, <2>2
<1>. QED
  BY <1>2, <1>4

\* Before the first activation.
LEMMA NodesStart == NodeInit => NodeInv
BY DEF NodeInit, NodeInv

\* n8n activates a workflow: create() makes its POST.
LEMMA ActivateKeeps ==
    ASSUME ApiInv, NodeInv, NEW n \in Nodes, Activate(n), [Next]_vars
    PROVE  NodeInv'
<1>1. PICK r \in Requests :
          /\ Begin(r, Post(n, r))
          /\ awaited' = [awaited EXCEPT ![n] = {r}]
          /\ made' = [made EXCEPT ![n] = @ \cup {r}]
  BY DEF Activate
<1>2. workflow[n] = "inactive" /\ workflow' = [workflow EXCEPT ![n] = "activating"]
  BY DEF Activate
<1>3. HandlerInv(r) /\ pc[r] = "idle"
  BY <1>1 DEF ApiInv, HandlersInv, Begin
<1>4. answer[r] = "none"
  BY <1>3, Zenon DEF HandlerInv
<1>5. req'[r] = {Post(n, r)} /\ answer' = answer /\ rows' = rows
  BY <1>1 DEF Begin, ApiInv, HandlersInv
<1>6. /\ workflow' \in [Nodes -> {"inactive", "activating", "active"}]
      /\ awaited' \in [Nodes -> SUBSET Requests] /\ made' \in [Nodes -> SUBSET Requests]
  BY <1>1, <1>2 DEF NodeInv
<1>7. \A m \in Nodes : \A s \in made'[m] : s \in made[m] \/ (m = n /\ s = r)
  BY <1>1 DEF NodeInv
<1>8. \A m \in Nodes : \A s \in made'[m] :
          /\ req'[s] = {Post(m, s)}
          /\ answer'[s] = "created" => [id |-> s, url |-> m] \in rows' \/ Touched(s, m)'
  BY <1>4, <1>5, <1>7, RowsStayKnown
<1>9. \A m \in Nodes : awaited'[m] \subseteq made'[m] /\ (awaited'[m] # {} => workflow'[m] = "activating")
  BY <1>1, <1>2 DEF NodeInv
<1>10. \A m \in Nodes : workflow'[m] = "active" => \E s \in made'[m] : answer'[s] = "created"
  BY <1>1, <1>2, <1>5 DEF NodeInv
<1>. QED
  BY <1>6, <1>8, <1>9, <1>10 DEF NodeInv

\* The answer arrives, or n8n deactivates the workflow.
LEMMA AnswerOrDeactivateKeeps ==
    ASSUME NodeInv, NEW n \in Nodes, Registered(n) \/ Refused(n) \/ Deactivate(n)
    PROVE  NodeInv'
<1>1. UNCHANGED << rows, req, call, answer, made >>
  BY DEF Registered, Refused, Deactivate, vars
<1>2. \A id, url : Touched(id, url)' <=> Touched(id, url)
  BY <1>1 DEF Touched, Took
<1>3. CASE Registered(n)
  <2>1. \E r \in awaited[n] : answer[r] = "created"
    BY <1>3 DEF Registered
  <2>2. workflow' = [workflow EXCEPT ![n] = "active"] /\ awaited' = [awaited EXCEPT ![n] = {}]
    BY <1>3 DEF Registered
  <2>. QED
    BY <1>1, <1>2, <2>1, <2>2 DEF NodeInv
<1>4. CASE Refused(n)
  <2>1. workflow' = [workflow EXCEPT ![n] = "inactive"] /\ awaited' = [awaited EXCEPT ![n] = {}]
    BY <1>4 DEF Refused
  <2>. QED
    BY <1>1, <1>2, <2>1 DEF NodeInv
<1>5. CASE Deactivate(n)
  <2>1. workflow[n] = "active" /\ workflow' = [workflow EXCEPT ![n] = "inactive"] /\ awaited' = awaited
    BY <1>5 DEF Deactivate
  <2>. QED
    BY <1>1, <1>2, <2>1 DEF NodeInv
<1>. QED
  BY <1>3, <1>4, <1>5

\* A step of the API between the nodes' own.
LEMMA ApiStepKeepsNodes ==
    ASSUME ApiInv, NodeInv, [Next]_vars, UNCHANGED nodeVars
    PROVE  NodeInv'
<1>1. UNCHANGED << workflow, awaited, made >>
  BY DEF nodeVars
<1>2. \A n \in Nodes : \A r \in made[n] :
          /\ req'[r] = {Post(n, r)}
          /\ answer[r] = "created" => answer'[r] = "created"
          /\ answer'[r] = "created" => [id |-> r, url |-> n] \in rows' \/ Touched(r, n)'
  BY RowsStayKnown
<1>. QED
  BY <1>1, <1>2 DEF NodeInv

\* The invariant is inductive, given what the API guarantees.
LEMMA NodeStepKeeps == ApiInv /\ NodeInv /\ [NodeNext]_allVars => NodeInv'
<1>. SUFFICES ASSUME ApiInv, NodeInv, [NodeNext]_allVars PROVE NodeInv'
  OBVIOUS
<1>1. [Next]_vars
  BY NodeStepIsApiStep
<1>2. ASSUME NEW n \in Nodes, Activate(n) PROVE NodeInv'
  BY <1>1, <1>2, ActivateKeeps
<1>3. ASSUME NEW n \in Nodes, Registered(n) \/ Refused(n) \/ Deactivate(n) PROVE NodeInv'
  BY <1>3, AnswerOrDeactivateKeeps
<1>4. CASE UNCHANGED nodeVars
  BY <1>1, <1>4, ApiStepKeepsNodes
<1>. QED
  BY <1>2, <1>3, <1>4 DEF NodeNext, allVars

\* What the invariant says about an active workflow: nodes send no PATCH and no
\* DELETE, so it was another client.
LEMMA ActiveFollows == NodeInv => ActiveIsRegistered
<1>. SUFFICES ASSUME NodeInv, NEW n \in Nodes, workflow[n] = "active"
              PROVE  \E r \in made[n] :
                         [id |-> r, url |-> n] \in rows \/ \E d \in Foreign : Took(d, r, n)
  BY DEF ActiveIsRegistered
<1>1. PICK r \in made[n] : answer[r] = "created"
  BY DEF NodeInv
<1>2. CASE [id |-> r, url |-> n] \in rows
  BY <1>2
<1>3. CASE Touched(r, n)
  <2>1. PICK d \in Requests : Took(d, r, n)
    BY <1>3 DEF Touched
  <2>2. ASSUME NEW m \in Nodes, d \in made[m] PROVE FALSE
    BY <2>1, <2>2 DEF NodeInv, Post, Took
  <2>3. d \in Foreign
    BY <2>1, <2>2 DEF Foreign
  <2>. QED
    BY <2>1, <2>3
<1>. QED
  BY <1>1, <1>2, <1>3 DEF NodeInv

\* A workflow that n8n shows as active is registered with the bridge, for any
\* number of nodes and however other clients race for the same url.
THEOREM ActiveStaysRegistered == NodeSpec => []ActiveIsRegistered
<1>1. NodeSpec => []ApiInv
  BY NodesUseTheApi, ApiInvHolds, PTL
<1>2. NodeSpec => []NodeInv
  BY <1>1, NodesStart, NodeStepKeeps, PTL DEF NodeSpec
<1>. QED
  BY <1>2, ActiveFollows, PTL

=============================================================================
