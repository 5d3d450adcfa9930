---------------------------- MODULE TriggerNode ----------------------------
(***************************************************************************)
(* The n8n trigger node (WhatsAppBridgeTrigger.node.ts) as a client of the *)
(* webhook API: n8n calls checkExists and create when a workflow is        *)
(* activated and delete when it is deactivated, and keeps the node's       *)
(* static data in between.  The bridge is WebhookApi; other clients of the *)
(* API send requests of their own.  A node has one url, getNodeWebhookUrl. *)
(***************************************************************************)
EXTENDS WebhookApi

CONSTANT Nodes  \* the urls that belong to a trigger node

\* The body of create()'s POST: a name, the node's url and a secret.
Post(n, r) == [op |-> "create", id |-> r, url |-> n, filters |-> "absent"]

ASSUME NodesAssumption ==
    Nodes \subseteq Urls /\ \A n \in Nodes, r \in Requests : Post(n, r) \in Wanted

VARIABLES
    workflow,   \* the workflow of each node, as n8n sees it
    webhookId,  \* staticData.webhookId, {} while it is undefined
    awaited,    \* the request whose answer create() awaits, if any
    made        \* the requests create() has made (a history variable)

nodeVars == << workflow, webhookId, awaited, made >>
allVars == << vars, nodeVars >>

\* Requests of other clients.
Foreign == Requests \ UNION {made[n] : n \in Nodes}

\* response.id: the bridge answers {success, data: {id, ...}, timestamp} and
\* whatsappBridgeApiRequest returns that object as it is, so it has no id.
IdIn(r) == {}

NodeInit ==
    /\ Init
    /\ workflow = [n \in Nodes |-> "inactive"]
    /\ webhookId = [n \in Nodes |-> {}]
    /\ awaited = [n \in Nodes |-> {}]
    /\ made = [n \in Nodes |-> {}]

\* checkExists answers FALSE, so n8n calls create(), which POSTs /webhooks.  That
\* getNodeWebhookUrl gives a url is assumed: without one create() throws before
\* the POST and the workflow stays inactive.  (The node's description declares no
\* webhook; which url n8n then gives is n8n's business.)
Activate(n) ==
    /\ workflow[n] = "inactive"
    /\ webhookId[n] = {}
    /\ \E r \in Requests :
          /\ Begin(r, Post(n, r))
          /\ awaited' = [awaited EXCEPT ![n] = {r}]
          /\ made' = [made EXCEPT ![n] = @ \cup {r}]
    /\ workflow' = [workflow EXCEPT ![n] = "activating"]
    /\ UNCHANGED webhookId

Registered(n) ==
    /\ \E r \in awaited[n] :
          /\ answer[r] = "created"
          /\ webhookId' = [webhookId EXCEPT ![n] = IdIn(r)]
    /\ workflow' = [workflow EXCEPT ![n] = "active"]
    /\ awaited' = [awaited EXCEPT ![n] = {}]
    /\ UNCHANGED << vars, made >>

\* Mutant for ActiveIsRegistered: create() swallows the error.
RefusedSilently(n) ==
    /\ \E r \in awaited[n] : answer[r] \notin {"none", "created"}
    /\ workflow' = [workflow EXCEPT ![n] = "active"]
    /\ awaited' = [awaited EXCEPT ![n] = {}]
    /\ UNCHANGED << vars, webhookId, made >>

\* create() throws and n8n does not activate the workflow.
Refused(n) ==
    /\ \E r \in awaited[n] : answer[r] \notin {"none", "created"}
    /\ workflow' = [workflow EXCEPT ![n] = "inactive"]
    /\ awaited' = [awaited EXCEPT ![n] = {}]
    /\ UNCHANGED << vars, webhookId, made >>

\* delete() without a webhookId returns TRUE and sends nothing.  Its other
\* branch, DELETE /webhooks/:id, needs an id that create() never stores.
Deactivate(n) ==
    /\ workflow[n] = "active"
    /\ webhookId[n] = {}
    /\ workflow' = [workflow EXCEPT ![n] = "inactive"]
    /\ UNCHANGED << vars, webhookId, awaited, made >>

NodeNext ==
    \/ \E n \in Nodes : Activate(n) \/ Registered(n) \/ Refused(n) \/ Deactivate(n)
    \/ Next /\ UNCHANGED nodeVars

NodeSpec == NodeInit /\ [][NodeNext]_allVars

\* Every getConnection and every statement settles, whoever sent the request.
NodeFairSpec ==
    NodeSpec /\ \A r \in Requests : WF_allVars(Serve(r) /\ UNCHANGED nodeVars)

-----------------------------------------------------------------------------
(* Properties *)

\* d has taken the url of a webhook from its row: a DELETE that was answered 204,
\* or a PATCH of the url whose UPDATE went through.
Took(d, id, url) ==
    \E q \in req[d] :
        /\ q.id = id
        /\ \/ q.op = "delete" /\ answer[d] = "deleted"
           \/ q.op = "patch" /\ q.url \notin {NoUrl, url} /\ call[d] = "byId"

\* A workflow that n8n shows as active has a row of its own with its url,
\* unless another client has deleted that row or given it another url, however
\* other clients race for the same url and whatever fails.
ActiveIsRegistered ==
    \A n \in Nodes : workflow[n] = "active" =>
        \E r \in made[n] : [id |-> r, url |-> n] \in rows \/ \E d \in Foreign : Took(d, r, n)

\* CHANGELOG.md 23: "Automatic webhook cleanup on workflow deactivation": an
\* inactive workflow has no row that its node registered.
CleanedUp ==
    \A n \in Nodes : workflow[n] = "inactive" => \A r \in made[n] : RowsOf(r) = {}

=============================================================================
