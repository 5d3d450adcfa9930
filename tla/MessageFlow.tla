---------------------------- MODULE MessageFlow ----------------------------
(***************************************************************************)
(* Where a message's address goes on its way through the bridge: the       *)
(* library's message is parsed, dispatched to a webhook, handed to an n8n  *)
(* workflow by the trigger node, and the workflow's action node requests a *)
(* message in return, which is validated and addressed.  server.ts does    *)
(* not join the parser and the dispatcher at this commit; their types do,  *)
(* and the chain is modelled as they fit together.                         *)
(*                                                                         *)
(* An address (a JID or what a client typed) is told apart by what the     *)
(* code looks at: a "+" and blanks around it, the part before "@" and the  *)
(* server after it.  A part that may be undefined is a set of at most one. *)
(***************************************************************************)
EXTENDS Naturals

CONSTANTS
    MaxDigits,  \* PHONE_PATTERN: digits of a number, at least two
    MaxLength,  \* MESSAGE_VALIDATION.MAX_LENGTH
    Column,     \* to_phone_number VARCHAR(15)
    Lengths,    \* bound: lengths of the part before "@"
    Typed,      \* bound: addresses that a workflow's author typed
    Texts       \* bound: texts, [length, blank], of the workflow's messages

ASSUME FlowAssumption ==
    MaxDigits \in Nat /\ MaxLength \in Nat /\ Column \in Nat /\ Lengths \subseteq Nat

Optional(S) == {{}} \cup {{s} : s \in S}
AtMostOne(part, S) == part \subseteq S /\ \A x, y \in part : x = y

Users == [kind : {"number", "leading zero", "name"}, length : Lengths]
Servers == {"s.whatsapp.net", "c.us", "g.us", "lid"}
Address == [plus : BOOLEAN, blanks : {"none", "before", "after"}, user : Users, server : Optional(Servers)]

ASSUME TypedAssumption ==
    Typed \subseteq Address /\ Texts \subseteq [length : Nat, blank : BOOLEAN]

Jid == [plus : {FALSE}, blanks : {"none"}, user : Users, server : {{s} : s \in Servers}]

\* The parser is written for Baileys' {key, message}.  What the provider of this
\* commit emits (whatsapp-web-provider.ts 128) has neither.
Raw == [key : BOOLEAN, message : BOOLEAN, remoteJid : Optional(Jid)]

VARIABLES
    raw,      \* the library's message
    filtered, \* whether the column filters of some active webhook has a value
    stage,    \* how far the message has come
    payload,  \* data of the webhook's payload, once the message is parsed
    request,  \* the workflow's request: operation, to, text
    answer,   \* the bridge's answer to it
    chat      \* the chat that the library is asked to send to

vars == << raw, filtered, stage, payload, request, answer, chat >>

-----------------------------------------------------------------------------
(* jid-converter.ts and message-parser.ts *)

\* Mutant for RepliesFollowTheJid: the server is kept.
ConvertKeepsServer(jid) == {[a EXCEPT !.plus = TRUE] : a \in jid}

\* No JID becomes "unknown", here the empty set; a "+" is put before the part
\* before "@" unless there is one.
convertJIDToPhoneNumber(jid) ==
    {IF a.plus THEN a
     ELSE [plus |-> TRUE, blanks |-> a.blanks, user |-> a.user, server |-> {}] : a \in jid}

\* parseMessage, toWhatsAppMessage and buildPayload, on a message with a key.  Of
\* the payload only the address matters here.
BuildPayload(r) == [sender |-> convertJIDToPhoneNumber(r.remoteJid)]

Parse ==
    /\ stage = "raw"
    /\ \/ /\ ~raw.key \/ ~raw.message
          /\ stage' = "dropped"
          /\ UNCHANGED payload
       \/ /\ raw.key /\ raw.message
          /\ payload' = {BuildPayload(raw)}
          /\ stage' = "parsed"
    /\ UNCHANGED << raw, filtered, request, answer, chat >>

\* listActiveWebhooks maps every active row, and mapRowToWebhook calls JSON.parse
\* on filters that the driver has parsed already (the column's type is JSON): it
\* throws, and dispatch's catch sends the message to nobody.  Without filters
\* matchesFilters lets every message pass.
Dispatch ==
    /\ stage = "parsed"
    /\ stage' = IF filtered THEN "unsent" ELSE "posted"
    /\ UNCHANGED << raw, filtered, payload, request, answer, chat >>

\* webhook() of the trigger node: the POST is signed with the secret that
\* create() registered, and its data has no field `from`, so the conversion of
\* the node never runs and the workflow gets the data as they are.
Receive ==
    /\ stage = "posted"
    /\ stage' = "workflow"
    /\ UNCHANGED << raw, filtered, payload, request, answer, chat >>

-----------------------------------------------------------------------------
(* The action node and the two handlers that send *)

\* {{ $json.from }}, to which the auto-reply of the node's README writes
\* (n8n-nodes-whatsapp-bridge/README.md 169-182): no field of the payload.
Undefined == {}

\* execute(): the workflow writes to {{ $json.sender }}, to {{ $json.from }} or to
\* an address that its author typed.
Execute ==
    /\ stage = "workflow"
    /\ \E operation \in {"sendMessage", "queueMessage"}, p \in payload, text \in Texts :
          \E to \in {p.sender, Undefined} \cup {{a} : a \in Typed} :
             request' = {[operation |-> operation, to |-> to, text |-> text]}
    /\ stage' = "requested"
    /\ UNCHANGED << raw, filtered, payload, answer, chat >>

\* Mutant for AcceptedIsPersonal: the pattern is not anchored at its end.
PhoneUnanchored(to) ==
    \E a \in to : a.user.kind = "number" /\ a.user.length >= 2

\* PHONE_PATTERN on the trimmed string.  "unknown" is no number.
validatePhoneNumber(to) ==
    \E a \in to :
        /\ a.server = {}
        /\ a.user.kind = "number" /\ a.user.length \in 2 .. MaxDigits

\* The limit is on the text as it is, blanks around it included.
validateMessageText(text) == ~text.blank /\ text.length \in 1 .. MaxLength

\* Characters of an address that passed the validation.  Blanks after it do not
\* count: MySQL cuts off those that do not fit.
Width(a) ==
    a.user.length + (IF a.plus THEN 1 ELSE 0) + (IF a.blanks = "before" THEN 1 ELSE 0)

\* A queued message is written to its row first, where the number has to fit;
\* what is sent later is what the row says.
createMessageFails(r) == r.operation = "queueMessage" /\ \E a \in r.to : Width(a) > Column

\* sendMessage() of the provider adds the server unless there is one.
ChatOf(a) == [a EXCEPT !.server = IF @ = {} THEN {"c.us"} ELSE @]

\* Mutant for TypeOK: no return after the 400.
RefuseContinues(code) ==
    answer' = code /\ \E r \in request : chat' = {ChatOf(a) : a \in r.to}

Refuse(code) == answer' = code /\ UNCHANGED chat

\* The number is checked before the text, and neither is trimmed afterwards.
Handle ==
    /\ stage = "requested"
    /\ \E r \in request :
          \/ ~validatePhoneNumber(r.to) /\ Refuse("INVALID_PHONE_NUMBER")
          \/ /\ validatePhoneNumber(r.to) /\ ~validateMessageText(r.text)
             /\ Refuse(IF r.text.length > MaxLength /\ ~r.text.blank
                       THEN "MESSAGE_TOO_LONG" ELSE "EMPTY_MESSAGE")
          \/ /\ validatePhoneNumber(r.to) /\ validateMessageText(r.text)
             /\ createMessageFails(r)
             /\ Refuse("QUEUE_ERROR")
          \/ /\ validatePhoneNumber(r.to) /\ validateMessageText(r.text)
             /\ ~createMessageFails(r)
             /\ answer' = "accepted"
             /\ chat' = {ChatOf(a) : a \in r.to}
    /\ stage' = "answered"
    /\ UNCHANGED << raw, filtered, payload, request >>

Init ==
    /\ raw \in Raw
    /\ filtered \in BOOLEAN
    /\ stage = "raw"
    /\ payload = {} /\ request = {} /\ chat = {}
    /\ answer = "none"

Next == Parse \/ Dispatch \/ Receive \/ Execute \/ Handle

Spec == Init /\ [][Next]_vars

-----------------------------------------------------------------------------
(* Properties *)

\* Every variable stays in its range, and each has a value exactly at the
\* stages where the code has one.
TypeOK ==
    /\ AtMostOne(payload, [sender : SUBSET Address])
    /\ AtMostOne(request, [operation : {"sendMessage", "queueMessage"},
                           to : SUBSET Address, text : Texts])
    /\ AtMostOne(chat, Address)
    /\ \A p \in payload : AtMostOne(p.sender, Address)
    /\ \A r \in request : AtMostOne(r.to, Address)
    /\ stage \in {"raw", "dropped", "parsed", "unsent", "posted", "workflow",
                 "requested", "answered"}
    /\ (payload = {}) = (stage \in {"raw", "dropped"})
    /\ (request # {}) = (stage \in {"requested", "answered"})
    /\ (chat # {}) = (answer = "accepted")

\* A number that can be addressed: two to MaxDigits digits, no leading zero.
Reachable(a) == a.user.kind = "number" /\ a.user.length \in 2 .. MaxDigits

\* A workflow that answers `sender` writes to the phone number whose digits stand
\* before the "@" of the message's JID, and to no other chat.  That is the sender
\* of a message from c.us or s.whatsapp.net; the digits of a LID, a personal chat
\* too, and of a group are taken for the phone number of somebody else.  The
\* number keeps its "+", which the library has to bear ("+351...@c.us").  The
\* request is refused only if the digits are no possible number, for the text, or
\* by the queue because "+" and digits do not fit into to_phone_number.  A workflow
\* that answers `from`, as the README has it, is refused always.
RepliesFollowTheJid ==
    \A p \in payload, r \in request : stage = "answered" =>
        /\ \A j \in raw.remoteJid : r.to = p.sender =>
              \/ \E c \in chat : c = [plus |-> TRUE, blanks |-> "none", user |-> j.user, server |-> {"c.us"}]
              \/ /\ chat = {}
                 /\ \/ ~Reachable(j) \/ ~validateMessageText(r.text)
                    \/ r.operation = "queueMessage" /\ j.user.length >= Column
        /\ r.to = Undefined => answer = "INVALID_PHONE_NUMBER"

\* Whatever a workflow writes to, an accepted request goes to a personal chat
\* of a number that can exist: the validation leaves no address with a server,
\* which the provider would take as it is (whatsapp-web-provider.ts 196).
AcceptedIsPersonal ==
    \A c \in chat : c.server = {"c.us"} /\ Reachable(c)

=============================================================================
