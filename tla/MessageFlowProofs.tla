------------------------- MODULE MessageFlowProofs -------------------------
(***************************************************************************)
(* Theorems about MessageFlow, for all limits, lengths, addresses and      *)
(* texts.                                                                  *)
(***************************************************************************)
EXTENDS MessageFlow, TLAPS

\* What stands in the variables between two steps: the payload is the library's
\* message as the parser reads it, the request is to the sender, to a field that
\* the payload lacks or to a typed address, and no chat is chosen before the request is handled.
FlowInv ==
    /\ raw \in Raw /\ filtered \in BOOLEAN
    /\ payload = {} \/ payload = {BuildPayload(raw)}
    /\ \/ request = {}
       \/ /\ payload # {}
          /\ \E operation \in {"sendMessage", "queueMessage"}, p \in payload, text \in Texts :
                \E to \in {p.sender, Undefined} \cup {{a} : a \in Typed} :
                   request = {[operation |-> operation, to |-> to, text |-> text]}
    /\ stage # "answered" => chat = {}
    /\ request # {} => stage \in {"requested", "answered"}

\* A JID that the library gives has no "+" of its own: what the payload calls
\* its sender has the same user, a "+", no blanks and no server.
LEMMA Sender ==
    ASSUME NEW r \in Raw
    PROVE  LET sender == BuildPayload(r).sender
           IN  /\ r.remoteJid = {} => sender = {}
               /\ \A j \in r.remoteJid :
                     /\ j \in Jid /\ r.remoteJid = {j}
                     /\ \E s \in Address :
                           /\ sender = {s} /\ s.user = j.user
                           /\ s.plus = TRUE /\ s.blanks = "none" /\ s.server = {}
<1>1. BuildPayload(r).sender = convertJIDToPhoneNumber(r.remoteJid)
  BY DEF BuildPayload
<1>2. r.remoteJid \in Optional(Jid)
  BY DEF Raw
<1>3. CASE r.remoteJid = {}
  BY <1>1, <1>3 DEF convertJIDToPhoneNumber
<1>4. ASSUME NEW j \in Jid, r.remoteJid = {j}
      PROVE  \E s \in Address :
                /\ convertJIDToPhoneNumber(r.remoteJid) = {s} /\ s.user = j.user
                /\ s.plus = TRUE /\ s.blanks = "none" /\ s.server = {}
  <2>. DEFINE s == [plus |-> TRUE, blanks |-> "none", user |-> j.user, server |-> {}]
  <2>1. j.plus = FALSE /\ j.blanks = "none" /\ j.user \in Users
    BY DEF Jid
  <2>3. s \in Address
    BY <2>1 DEF Address, Optional
  <2>4. convertJIDToPhoneNumber(r.remoteJid) = {s}
    BY <1>4, <2>1 DEF convertJIDToPhoneNumber
  <2>. QED
    BY <2>3, <2>4
<1>. QED
  BY <1>1, <1>2, <1>3, <1>4 DEF Optional

\* The request asks for one address at most.
LEMMA OneAddress ==
    ASSUME FlowInv, NEW r \in request
    PROVE  /\ request = {r}
           /\ r.operation \in {"sendMessage", "queueMessage"} /\ r.text \in Texts
           /\ r.to = {} \/ \E a \in Address : r.to = {a}
<1>0. PICK operation \in {"sendMessage", "queueMessage"}, p \in payload, text \in Texts :
           \E to \in {p.sender, Undefined} \cup {{a} : a \in Typed} :
              request = {[operation |-> operation, to |-> to, text |-> text]}
  BY DEF FlowInv
<1>1. PICK to \in {p.sender, Undefined} \cup {{a} : a \in Typed} :
           request = {[operation |-> operation, to |-> to, text |-> text]}
  BY <1>0
<1>2. r = [operation |-> operation, to |-> to, text |-> text] /\ request = {r}
  BY <1>1
<1>3. p = BuildPayload(raw)
  BY DEF FlowInv
<1>4. p.sender = {} \/ \E s \in Address : p.sender = {s}
  <2>1. raw \in Raw
    BY DEF FlowInv
  <2>. QED
    BY <1>3, <2>1, Sender
<1>5. to = {} \/ \E a \in Address : to = {a}
  BY <1>4, TypedAssumption DEF Undefined
<1>. QED
  BY <1>2, <1>5

\* Nothing has been parsed.
LEMMA FlowInit == Init => FlowInv
  BY DEF Init, FlowInv

\* Every step of the flow keeps it.
LEMMA FlowNext == FlowInv /\ [Next]_vars => FlowInv'
<1>. SUFFICES ASSUME FlowInv, [Next]_vars PROVE FlowInv'
  OBVIOUS
<1>1. CASE Parse
  BY <1>1 DEF FlowInv, Parse
<1>2. CASE Dispatch
  BY <1>2 DEF FlowInv, Dispatch
<1>3. CASE Receive
  BY <1>3 DEF FlowInv, Receive
<1>4. CASE Execute
  BY <1>4 DEF FlowInv, Execute
<1>5. CASE Handle
  BY <1>5 DEF FlowInv, Handle
<1>6. CASE UNCHANGED vars
  BY <1>6 DEF FlowInv, vars
<1>. QED
  BY <1>1, <1>2, <1>3, <1>4, <1>5, <1>6 DEF Next

\* It holds throughout.
LEMMA FlowInvariant == Spec => []FlowInv
  BY FlowInit, FlowNext, PTL DEF Spec

\* The chat of an address without a server.
LEMMA Chat ==
    ASSUME NEW a \in Address, a.server = {}
    PROVE  ChatOf(a) = [plus |-> a.plus, blanks |-> a.blanks, user |-> a.user, server |-> {"c.us"}]
  BY DEF ChatOf, Address

\* What an accepted request has been checked for.
LEMMA Accepted ==
    ASSUME FlowInv, Handle, NEW c \in chat'
    PROVE  \E r \in request : \E a \in Address :
              /\ r.to = {a} /\ a.server = {} /\ Reachable(a)
              /\ chat' = {ChatOf(a)} /\ c = ChatOf(a)
<1>1. chat = {}
  BY DEF FlowInv, Handle
<1>2. PICK r \in request :
          validatePhoneNumber(r.to) /\ chat' = {ChatOf(a) : a \in r.to}
  BY <1>1 DEF Handle, Refuse
<1>3. PICK a \in Address : r.to = {a}
  BY <1>2, OneAddress DEF validatePhoneNumber
<1>. QED
  BY <1>2, <1>3 DEF validatePhoneNumber, Reachable

\* No accepted request reaches a group, a LID or an impossible number,
\* whatever address a workflow's author typed.
THEOREM OnlyPersonalChats == Spec => []AcceptedIsPersonal
<1>1. Init => AcceptedIsPersonal
  BY DEF Init, AcceptedIsPersonal
<1>2. FlowInv /\ AcceptedIsPersonal /\ [Next]_vars => AcceptedIsPersonal'
  <2>. SUFFICES ASSUME FlowInv, AcceptedIsPersonal, [Next]_vars PROVE AcceptedIsPersonal'
    OBVIOUS
  <2>1. CASE Handle
    <3>1. ASSUME NEW c \in chat' PROVE c.server = {"c.us"} /\ Reachable(c)
      BY <2>1, <3>1, Accepted, Chat DEF Reachable
    <3>. QED
      BY <3>1 DEF AcceptedIsPersonal, Reachable
  <2>2. CASE UNCHANGED chat
    BY <2>2 DEF AcceptedIsPersonal, Reachable
  <2>. QED
    BY <2>1, <2>2 DEF Next, Parse, Dispatch, Receive, Execute, vars
<1>. QED
  BY <1>1, <1>2, FlowInvariant, PTL DEF Spec

\* What a workflow that answers the sender asks for.
LEMMA Reply ==
    ASSUME FlowInv, NEW p \in payload, NEW r \in request, NEW j \in raw.remoteJid,
           r.to = p.sender
    PROVE  /\ request = {r} /\ payload = {p} /\ raw.remoteJid = {j} /\ j \in Jid
           /\ \E a \in Address :
                 /\ r.to = {a} /\ a.user = j.user
                 /\ a.plus = TRUE /\ a.blanks = "none" /\ a.server = {}
<1>2. p = BuildPayload(raw) /\ payload = {p} /\ raw \in Raw
  BY DEF FlowInv
<1>3. j \in Jid /\ raw.remoteJid = {j}
  BY <1>2, Sender
<1>4. \E a \in Address :
          /\ p.sender = {a} /\ a.user = j.user
          /\ a.plus = TRUE /\ a.blanks = "none" /\ a.server = {}
  BY <1>2, Sender
<1>. QED
  BY <1>2, <1>3, <1>4, OneAddress

\* The step that answers such a request.
LEMMA ReplyHandled ==
    ASSUME FlowInv, Handle, NEW p \in payload, NEW r \in request, NEW j \in raw.remoteJid,
           r.to = p.sender
    PROVE  \/ \E c \in chat' : c = [plus |-> TRUE, blanks |-> "none", user |-> j.user, server |-> {"c.us"}]
           \/ /\ chat' = {}
              /\ \/ ~Reachable(j) \/ ~validateMessageText(r.text)
                 \/ r.operation = "queueMessage" /\ j.user.length >= Column
<1>1. request = {r} /\ j \in Jid
  BY Reply
<1>2. PICK a \in Address :
          /\ r.to = {a} /\ a.user = j.user
          /\ a.plus = TRUE /\ a.blanks = "none" /\ a.server = {}
  BY Reply
<1>3. chat = {}
  BY DEF FlowInv, Handle
<1>4. CASE ~validatePhoneNumber(r.to) /\ chat' = chat
  <2>1. ~Reachable(j)
    BY <1>2, <1>4 DEF validatePhoneNumber, Reachable
  <2>. QED
    BY <1>3, <1>4, <2>1
<1>5. CASE ~validateMessageText(r.text) /\ chat' = chat
  BY <1>3, <1>5
<1>6. CASE createMessageFails(r) /\ chat' = chat
  <2>1. r.operation = "queueMessage" /\ Width(a) > Column
    BY <1>2, <1>6 DEF createMessageFails
  <2>2. Width(a) = j.user.length + 1 + 0
    BY <1>2 DEF Width
  <2>3. j.user.length \in Nat /\ Column \in Nat
    BY <1>1, FlowAssumption DEF Jid, Users
  <2>4. j.user.length >= Column
    BY <2>1, <2>2, <2>3
  <2>. QED
    BY <1>3, <1>6, <2>1, <2>4
<1>7. CASE chat' = {ChatOf(x) : x \in r.to}
  <2>1. ChatOf(a) \in chat'
    BY <1>2, <1>7
  <2>2. ChatOf(a) = [plus |-> TRUE, blanks |-> "none", user |-> j.user, server |-> {"c.us"}]
    BY <1>2, Chat
  <2>. QED
    BY <2>1, <2>2, Zenon
<1>. QED
  BY <1>1, <1>4, <1>5, <1>6, <1>7 DEF Handle, Refuse

\* A request without an address is refused.
LEMMA NoAddress ==
    ASSUME FlowInv, Handle, NEW r \in request, r.to = Undefined
    PROVE  answer' = "INVALID_PHONE_NUMBER"
<1>1. request = {r}
  BY OneAddress
<1>2. ~validatePhoneNumber(r.to)
  BY DEF validatePhoneNumber, Undefined
<1>. QED
  BY <1>1, <1>2 DEF Handle, Refuse

\* A workflow that answers `sender` reaches the number made of the digits of the
\* message's JID, "+" kept, whatever kind of chat that JID is, or is refused for
\* one of three reasons; one that answers `from` is always refused.
THEOREM RepliesAreAddressed == Spec => []RepliesFollowTheJid
<1>1. Init => RepliesFollowTheJid
  BY DEF Init, RepliesFollowTheJid
<1>2. FlowInv /\ RepliesFollowTheJid /\ [Next]_vars => RepliesFollowTheJid'
  <2>. SUFFICES ASSUME FlowInv, RepliesFollowTheJid, [Next]_vars
                PROVE  RepliesFollowTheJid'
    OBVIOUS
  <2>1. CASE Handle
    <3>1. UNCHANGED << raw, payload, request >>
      BY <2>1 DEF Handle
    <3>. QED
      BY <2>1, <3>1, ReplyHandled, NoAddress DEF RepliesFollowTheJid, Reachable, validateMessageText
  <2>2. CASE UNCHANGED vars
    BY <2>2 DEF RepliesFollowTheJid, Reachable, validateMessageText, vars
  <2>3. CASE stage' # "answered"
    BY <2>3 DEF RepliesFollowTheJid
  <2>. QED
    BY <2>1, <2>2, <2>3 DEF Next, Parse, Dispatch, Receive, Execute
<1>. QED
  BY <1>1, <1>2, FlowInvariant, PTL DEF Spec

-----------------------------------------------------------------------------
(* The types *)

\* What the parser makes of a message is a payload with one sender at most.
LEMMA PayloadType ==
    ASSUME NEW r \in Raw
    PROVE  /\ BuildPayload(r) \in
                 [sender : SUBSET Address]
           /\ AtMostOne(BuildPayload(r).sender, Address)
<1>. DEFINE p == BuildPayload(r)
<1>1. p.sender = {} \/ \E a \in Address : p.sender = {a}
  <2>1. r.remoteJid = {} \/ \E j \in r.remoteJid : TRUE
    OBVIOUS
  <2>2. CASE r.remoteJid = {}
    BY <2>2, Sender
  <2>3. ASSUME NEW j \in r.remoteJid PROVE \E a \in Address : p.sender = {a}
    BY Sender
  <2>. QED
    BY <2>1, <2>2, <2>3
<1>5. p = [sender |-> convertJIDToPhoneNumber(r.remoteJid)]
  BY DEF BuildPayload
<1>6. convertJIDToPhoneNumber(r.remoteJid) = p.sender /\ p.sender \subseteq Address
  BY <1>1, <1>5
<1>7. AtMostOne(p.sender, Address)
  BY <1>1 DEF AtMostOne
<1>. HIDE DEF p
<1>8. p \in [sender : SUBSET Address]
  BY <1>5, <1>6
<1>. QED
  BY <1>7, <1>8 DEF p

\* A chat is an address.
LEMMA ChatType ==
    ASSUME NEW a \in Address
    PROVE  ChatOf(a) \in Address
<1>1. a.plus \in BOOLEAN /\ a.blanks \in {"none", "before", "after"} /\ a.user \in Users /\ a.server \in Optional(Servers)
  BY DEF Address
<1>2. CASE a.server = {}
  <2>1. ChatOf(a) = [plus |-> a.plus, blanks |-> a.blanks, user |-> a.user, server |-> {"c.us"}]
    BY <1>2 DEF ChatOf, Address
  <2>2. {"c.us"} \in Optional(Servers)
    BY DEF Optional, Servers
  <2>. QED
    BY <1>1, <2>1, <2>2 DEF Address
<1>3. CASE a.server # {}
  BY <1>3 DEF ChatOf, Address
<1>. QED
  BY <1>2, <1>3

\* The payload and the request have their types by what FlowInv says of them.
LEMMA FlowTypes ==
    ASSUME FlowInv
    PROVE  /\ AtMostOne(payload, [sender : SUBSET Address])
           /\ AtMostOne(request, [operation : {"sendMessage", "queueMessage"},
                                  to : SUBSET Address, text : Texts])
           /\ \A p \in payload : AtMostOne(p.sender, Address)
           /\ \A r \in request : AtMostOne(r.to, Address)
<1>. DEFINE Payload == [sender : SUBSET Address]
<1>1. \A p \in payload : /\ payload = {p} /\ p \in Payload
                         /\ AtMostOne(p.sender, Address)
  <2>. SUFFICES ASSUME NEW p \in payload
                PROVE  payload = {p} /\ p \in Payload /\ AtMostOne(p.sender, Address)
    OBVIOUS
  <2>1. payload = {BuildPayload(raw)}
    BY DEF FlowInv
  <2>2. raw \in Raw /\ p = BuildPayload(raw)
    BY <2>1 DEF FlowInv
  <2>. HIDE DEF Payload
  <2>3. BuildPayload(raw) \in Payload /\ AtMostOne(BuildPayload(raw).sender, Address)
    BY <2>2, PayloadType DEF Payload
  <2>. QED
    BY <2>1, <2>2, <2>3
<1>. HIDE DEF Payload
<1>2. AtMostOne(payload, Payload)
  BY <1>1 DEF AtMostOne
<1>3. ASSUME NEW r \in request
      PROVE  /\ request = {r} /\ AtMostOne(r.to, Address)
             /\ r \in [operation : {"sendMessage", "queueMessage"}, to : SUBSET Address, text : Texts]
  <2>1. /\ request = {r} /\ r.operation \in {"sendMessage", "queueMessage"} /\ r.text \in Texts
        /\ r.to = {} \/ \E a \in Address : r.to = {a}
    BY OneAddress
  <2>2. \E operation, to, text : r = [operation |-> operation, to |-> to, text |-> text]
    BY DEF FlowInv
  <2>3. r = [operation |-> r.operation, to |-> r.to, text |-> r.text]
    BY <2>2
  <2>. QED
    BY <2>1, <2>3 DEF AtMostOne
<1>4. AtMostOne(request, [operation : {"sendMessage", "queueMessage"}, to : SUBSET Address, text : Texts])
  BY <1>3 DEF AtMostOne
<1>. QED
  BY <1>1, <1>2, <1>3, <1>4 DEF Payload

\* What a message is at each stage: the part of TypeOK that FlowInv leaves open.
Stages ==
    /\ AtMostOne(chat, Address)
    /\ stage \in {"raw", "dropped", "parsed", "unsent", "posted", "workflow",
                 "requested", "answered"}
    /\ (payload = {}) = (stage \in {"raw", "dropped"})
    /\ (request # {}) = (stage \in {"requested", "answered"})
    /\ (chat # {}) = (answer = "accepted")

\* A handled request has a chat exactly if it was accepted.
LEMMA HandleStages ==
    ASSUME FlowInv, Stages, Handle
    PROVE  Stages'
<1>1. chat = {} /\ UNCHANGED << payload, request >> /\ stage = "requested" /\ stage' = "answered"
  BY DEF FlowInv, Handle
<1>2. PICK r \in request :
          \/ /\ chat' = chat
             /\ answer' \in {"INVALID_PHONE_NUMBER", "MESSAGE_TOO_LONG", "EMPTY_MESSAGE", "QUEUE_ERROR"}
          \/ /\ validatePhoneNumber(r.to) /\ answer' = "accepted"
             /\ chat' = {ChatOf(a) : a \in r.to}
  BY DEF Handle, Refuse
<1>3. AtMostOne(chat', Address) /\ ((chat' # {}) = (answer' = "accepted"))
  <2>1. CASE /\ chat' = chat
             /\ answer' \in {"INVALID_PHONE_NUMBER", "MESSAGE_TOO_LONG", "EMPTY_MESSAGE", "QUEUE_ERROR"}
    BY <1>1, <2>1 DEF AtMostOne
  <2>2. CASE /\ validatePhoneNumber(r.to) /\ answer' = "accepted"
             /\ chat' = {ChatOf(a) : a \in r.to}
    <3>1. PICK a \in Address : r.to = {a}
      BY <2>2, OneAddress DEF validatePhoneNumber
    <3>2. chat' = {ChatOf(a)}
      BY <2>2, <3>1
    <3>. QED
      BY <2>2, <3>2, ChatType DEF AtMostOne
  <2>. QED
    BY <1>2, <2>1, <2>2
<1>4. /\ (payload' = {}) = (stage' \in {"raw", "dropped"})
      /\ (request' # {}) = (stage' \in {"requested", "answered"})
  BY <1>1 DEF Stages
<1>. QED
  BY <1>1, <1>3, <1>4 DEF Stages

\* The other steps choose no chat.
LEMMA StepStages ==
    ASSUME FlowInv, Stages, Parse \/ Dispatch \/ Receive \/ Execute \/ UNCHANGED vars
    PROVE  Stages'
<1>1. UNCHANGED << chat, answer >>
  BY DEF Parse, Dispatch, Receive, Execute, vars
<1>2. CASE Parse
  <2>1. stage = "raw" /\ payload = {} /\ request = {} /\ UNCHANGED request
    BY <1>2, Zenon DEF Parse, Stages
  <2>2. \/ stage' = "dropped" /\ payload' = {}
        \/ stage' = "parsed" /\ payload' # {}
    BY <1>2, <2>1 DEF Parse
  <2>. QED
    BY <1>1, <2>1, <2>2 DEF Stages
<1>3. CASE Dispatch
  <2>1. stage = "parsed" /\ stage' \in {"posted", "unsent"} /\ UNCHANGED << payload, request >>
    BY <1>3 DEF Dispatch
  <2>. QED
    BY <1>1, <2>1 DEF Stages
<1>4. CASE Receive
  <2>1. stage = "posted" /\ stage' = "workflow" /\ UNCHANGED << payload, request >>
    BY <1>4 DEF Receive
  <2>. QED
    BY <1>1, <2>1 DEF Stages
<1>5. CASE Execute
  <2>1. stage = "workflow" /\ stage' = "requested" /\ UNCHANGED payload /\ request' # {}
    BY <1>5 DEF Execute
  <2>. QED
    BY <1>1, <2>1 DEF Stages
<1>6. CASE UNCHANGED vars
  BY <1>6 DEF Stages, vars
<1>. QED
  BY <1>2, <1>3, <1>4, <1>5, <1>6

\* Payload, request, chat and answer have a value of their type exactly at the
\* stages where the code has one, whatever the library and the authors write.
THEOREM FlowStaysTyped == Spec => []TypeOK
<1>1. Init => Stages
  BY DEF Init, Stages, AtMostOne
<1>2. FlowInv /\ Stages /\ [Next]_vars => Stages'
  BY HandleStages, StepStages DEF Next
<1>3. FlowInv /\ Stages => TypeOK
  BY FlowTypes DEF Stages, TypeOK
<1>. QED
  BY <1>1, <1>2, <1>3, FlowInvariant, PTL DEF Spec

=============================================================================
