---------------------------- MODULE WhatsAppApi ----------------------------
(***************************************************************************)
(* The handlers of /api/whatsapp (whatsapp-controller.ts) on the provider,  *)
(* and the shutdown that waits for them: server.close() takes no new       *)
(* request and disconnect() comes after the last answer.  A handler awaits *)
(* the drawing of a QR code, the library's logout() or its sendMessage().  *)
(***************************************************************************)
EXTENDS WhatsAppProvider

CONSTANT Requests  \* requests; a POST /logout is a logout() call of its own

ASSUME ApiAssumption == Requests \subseteq Logouts

VARIABLES
    handler,  \* "new", what each request's handler awaits, or "done"
    subject,  \* the client whose code is drawn, or that sends, or None
    answer,   \* "none", "200" or the API_ERRORS code that was answered
    closing   \* server.close() was called

api     == << handler, subject, answer, closing >>
apiVars == << vars, api >>

ApiInit ==
    /\ Init
    /\ handler = [r \in Requests |-> "new"]
    /\ subject = [r \in Requests |-> None]
    /\ answer = [r \in Requests |-> "none"]
    /\ closing = FALSE

-----------------------------------------------------------------------------

Arrives(r) == handler[r] = "new" /\ ~closing

Reply(r, a) ==
    /\ handler' = [handler EXCEPT ![r] = "done"]
    /\ answer' = [answer EXCEPT ![r] = a]
    /\ UNCHANGED << subject, closing >>

AwaitFor(r, step, c) ==
    /\ handler' = [handler EXCEPT ![r] = step]
    /\ subject' = [subject EXCEPT ![r] = c]
    /\ UNCHANGED << answer, closing >>

GetQRCode(r) ==
    /\ Arrives(r)
    /\ \/ currentQR = None /\ Reply(r, "NO_QR_CODE")
       \/ currentQR # None /\ AwaitFor(r, "qr", currentQR)
    /\ UNCHANGED vars

QRCodeDrawn(r) ==
    /\ handler[r] = "qr"
    /\ \E a \in {"200", "QR_CODE_ERROR"} : Reply(r, a)
    /\ UNCHANGED vars

GetStatus(r) ==
    /\ Arrives(r)
    /\ Reply(r, "200")
    /\ UNCHANGED vars

PostLogout(r) ==
    /\ Arrives(r)
    /\ Logout(r)
    /\ \/ client = None /\ Reply(r, "200")
       \/ client # None /\ AwaitFor(r, "logout", client)

\* Mutant for StopsWithRequests: a rejected logout is not answered.
LogoutAnsweredIfResolved(r) ==
    /\ handler[r] = "logout"
    /\ \/ LogoutResolved(r) /\ Reply(r, "200")
       \/ LogoutRejected(r) /\ UNCHANGED api

\* logout() swallows the library's error, so the answer is 200 either way.
LogoutAnswered(r) ==
    /\ handler[r] = "logout"
    /\ LogoutSettles(r)
    /\ Reply(r, "200")

\* The body is validated, the controller looks at status.authenticated and
\* sendMessage() at the client as well.
PostSend(r) ==
    /\ Arrives(r)
    /\ \/ Reply(r, "INVALID")
       \/ ~authenticated /\ Reply(r, "PROVIDER_NOT_AUTHENTICATED")
       \/ authenticated /\ ~Connected /\ Reply(r, "SEND_FAILED")
       \/ Connected /\ AwaitFor(r, "send", client)
    /\ UNCHANGED vars

\* The library rejects at any time; a client that is gone never resolves.
SendSettles(r) ==
    /\ handler[r] = "send"
    /\ \/ lib[subject[r]] = "paired" /\ Reply(r, "200")
       \/ Reply(r, "SEND_FAILED")
    /\ UNCHANGED vars

Settles(r) == QRCodeDrawn(r) \/ LogoutAnswered(r) \/ SendSettles(r)

Close ==
    /\ closing' = TRUE
    /\ UNCHANGED << vars, handler, subject, answer >>

Closed == closing /\ \A r \in Requests : handler[r] \in {"new", "done"}

\* Every step of the provider that no request takes; "auth_failure" makes
\* logout() calls of its own.
ProviderStep ==
    /\ \/ \E c \in Clients :
             Qr(c) \/ Authenticated(c) \/ ConnectionLost(c) \/ LoggedOutRemotely(c)
       \/ \E c \in Clients, l \in Logouts \ Requests : lib[c] = "open" /\ Logout(l)
       \/ \E l \in Logouts \ Requests : LogoutSettles(l)
       \/ InitSettles \/ TimerFires
       \/ (Closed /\ Disconnect) \/ Destroyed
    /\ UNCHANGED api

ApiNext ==
    \/ \E r \in Requests :
          GetQRCode(r) \/ GetStatus(r) \/ PostLogout(r) \/ PostSend(r) \/ Settles(r)
    \/ Close \/ ProviderStep

ApiSpec == ApiInit /\ [][ApiNext]_apiVars

\* The fairness of the provider, and every awaited call of a handler settles.
ApiFairSpec ==
    /\ ApiSpec
    /\ WF_apiVars(TimerFires /\ UNCHANGED api)
    /\ WF_apiVars(InitSettles /\ UNCHANGED api)
    /\ WF_apiVars((Destroyed \/ (Closed /\ Disconnect)) /\ UNCHANGED api)
    /\ \A l \in Logouts \ Requests : WF_apiVars(LogoutSettles(l) /\ UNCHANGED api)
    /\ \A c \in Clients : WF_apiVars(Qr(c) /\ UNCHANGED api)
    /\ \A r \in Requests : WF_apiVars(Settles(r))

-----------------------------------------------------------------------------
(* Properties *)

\* whatsapp-controller.ts 180 looks only at status.authenticated before it calls
\* sendMessage(), which also wants a client (whatsapp-web-provider.ts 191): the
\* two checks differ only after a logout() that ended late, when a reconnection
\* had already replaced the client it was called for, and during the shutdown.
ChecksAgree ==
    authenticated => Connected \/ outcome = "orphaned" \/ stopping # "no"

\* Requests that wait for the library, a rejected logout included, do not keep
\* server.close() from returning: a shutdown gets to the provider.
StopsWithRequests == closing ~> (stopping = "down")

=============================================================================
