-------------------------- MODULE WhatsAppProvider -------------------------
(***************************************************************************)
(* The connection to WhatsApp: WhatsAppWebProvider, behind the singleton   *)
(* WhatsAppService, with POST /whatsapp/logout and shutdown() as callers.  *)
(*                                                                         *)
(* Each `new Client` of whatsapp-web.js gets the next number.  The library *)
(* is external: a client is open from its creation, paired once it emits   *)
(* "authenticated", and closed by a disconnection, a failed initialize(),  *)
(* a logout or destroy(); a closed client emits nothing more.              *)
(***************************************************************************)
EXTENDS Naturals, FiniteSets

CONSTANTS
    MaxReconnects,    \* RECONNECT_DELAYS.length
    Logouts,          \* calls of logout() that may overlap
    MaxPairings,      \* bound: "authenticated" events
    MaxInitFailures   \* bound: rejected initialize() calls

ASSUME ProviderAssumption ==
    /\ MaxReconnects \in Nat \ {0}
    /\ MaxPairings \in Nat
    /\ MaxInitFailures \in Nat

\* Enough numbers for the first client and every reconnection.
Clients == 1 .. (1 + MaxReconnects * (MaxPairings + 1))
None == 0

VARIABLES
    client,        \* this.client, or None
    initializing,  \* the client whose initialize() is awaited (isInitializing), or None
    authenticated, \* this.isAuthenticated
    currentQR,     \* the client that issued this.currentQR, or None
    attempts,      \* this.reconnectAttempts
    timer,         \* this.reconnectTimer is armed
    logout,        \* the client whose logout() each call awaits, or None
    stopping,      \* disconnect(): "no", "destroying" or "down"
    destroying,    \* the client whose destroy() disconnect() awaits, or None
    lib,           \* the state of each client in the library
    created,       \* clients created so far
    retried,       \* clients created by the timer since the last pairing
    pairings,      \* "authenticated" events so far
    initFailures,  \* rejected initialize() calls so far
    missed,        \* a reconnect delay passed while initialize() was still awaited
    outcome        \* what became of the connection: "wanted", "given up", "logged out",
                   \* "unlinked" on the phone, or "orphaned" (a client lives on, but the
                   \* logout() of another one took it from the provider)

fields   == << client, initializing, authenticated, currentQR, attempts, timer >>
calls    == << logout, stopping, destroying >>
history  == << created, retried, pairings, initFailures, missed, outcome >>
vars     == << fields, calls, lib, history >>

Live(c) == lib[c] \in {"open", "paired"}
Running == stopping # "down"

\* getStatus().connected
Connected == client # None /\ authenticated

-----------------------------------------------------------------------------

\* initialize() up to its await: nothing if a client exists or is initializing.
Initialize ==
    IF client = None /\ initializing = None
    THEN /\ created' = created + 1
         /\ client' = created + 1
         /\ initializing' = created + 1
         /\ lib' = [lib EXCEPT ![created + 1] = "open"]
         /\ retried' = retried + 1
         /\ outcome' = "wanted"
    ELSE UNCHANGED << created, client, initializing, lib, retried, outcome >>

\* server.ts start() has called initialize(), which awaits the first client.
Init ==
    /\ client = 1 /\ initializing = 1
    /\ authenticated = FALSE
    /\ currentQR = None
    /\ attempts = 0
    /\ timer = FALSE
    /\ logout = [l \in Logouts |-> None]
    /\ stopping = "no" /\ destroying = None
    /\ lib = [c \in Clients |-> IF c = 1 THEN "open" ELSE "new"]
    /\ created = 1
    /\ retried = 0 /\ pairings = 0 /\ initFailures = 0 /\ missed = FALSE
    /\ outcome = "wanted"

InitResolved ==
    /\ Running /\ initializing # None
    /\ Live(initializing)
    /\ initializing' = None
    /\ UNCHANGED << client, authenticated, currentQR, attempts, timer, calls, lib, history >>

\* The error is logged and rethrown to a caller that only logs it; this.client
\* is left as it is.
InitRejected ==
    /\ Running /\ initializing # None
    /\ ~Live(initializing) \/ initFailures < MaxInitFailures
    /\ initFailures' = IF Live(initializing) THEN initFailures + 1 ELSE initFailures
    /\ lib' = [lib EXCEPT ![initializing] = "closed"]
    /\ initializing' = None
    /\ UNCHANGED << client, authenticated, currentQR, attempts, timer, calls,
                    created, retried, pairings, missed, outcome >>

\* Mutant for OneLiveClient: setInterval instead of setTimeout.
TimerRepeats ==
    /\ Running /\ timer
    /\ missed' = (missed \/ initializing # None)
    /\ Initialize
    /\ UNCHANGED << authenticated, currentQR, attempts, timer, calls, pairings, initFailures >>

TimerFires ==
    /\ Running /\ timer
    /\ missed' = (missed \/ initializing # None)
    /\ timer' = FALSE
    /\ Initialize
    /\ UNCHANGED << authenticated, currentQR, attempts, calls, pairings, initFailures >>

\* Mutant for TypeOK: one attempt more than there are delays.
ScheduleOneMore ==
    IF attempts > MaxReconnects
    THEN timer' = FALSE /\ outcome' = "given up" /\ UNCHANGED attempts
    ELSE timer' = TRUE /\ attempts' = attempts + 1 /\ UNCHANGED outcome

\* scheduleReconnect(): clears the timer, then gives up or arms it.
ScheduleReconnect ==
    IF attempts >= MaxReconnects
    THEN timer' = FALSE /\ outcome' = "given up" /\ UNCHANGED attempts
    ELSE timer' = TRUE /\ attempts' = attempts + 1 /\ UNCHANGED outcome

-----------------------------------------------------------------------------
(* Events of client c *)

\* Mutant for StaleCodeReplaced: a code that is there is kept.
QrOnce(c) ==
    /\ Running /\ lib[c] = "open"
    /\ currentQR = None
    /\ currentQR' = c
    /\ UNCHANGED << client, initializing, authenticated, attempts, timer, calls, lib, history >>

Qr(c) ==
    /\ Running /\ lib[c] = "open"
    /\ currentQR' = c
    /\ UNCHANGED << client, initializing, authenticated, attempts, timer, calls, lib, history >>

\* Mutant for NoCodeWhenPaired: the code is kept.
AuthenticatedKeepsQR(c) ==
    /\ Running /\ lib[c] = "open"
    /\ pairings < MaxPairings
    /\ pairings' = pairings + 1
    /\ lib' = [lib EXCEPT ![c] = "paired"]
    /\ authenticated' = TRUE
    /\ attempts' = 0
    /\ retried' = 0
    /\ UNCHANGED << currentQR, client, initializing, timer, calls, created, initFailures, missed, outcome >>

Authenticated(c) ==
    /\ Running /\ lib[c] = "open"
    /\ pairings < MaxPairings
    /\ pairings' = pairings + 1
    /\ lib' = [lib EXCEPT ![c] = "paired"]
    /\ authenticated' = TRUE
    /\ currentQR' = None
    /\ attempts' = 0
    /\ retried' = 0
    /\ UNCHANGED << client, initializing, timer, calls, created, initFailures, missed, outcome >>

\* Mutant for ReconnectBudget: the attempt is not counted.
ConnectionLostUncounted(c) ==
    /\ Running /\ Live(c)
    /\ lib' = [lib EXCEPT ![c] = "closed"]
    /\ authenticated' = FALSE
    /\ client' = None
    /\ timer' = TRUE
    /\ UNCHANGED << initializing, currentQR, attempts, calls, history >>

\* Mutant for ConnectedIsPaired: isAuthenticated and the client are kept.
ConnectionLostKeepsState(c) ==
    /\ Running /\ Live(c)
    /\ lib' = [lib EXCEPT ![c] = "closed"]
    /\ ScheduleReconnect
    /\ UNCHANGED << client, authenticated, initializing, currentQR, calls,
                    created, retried, pairings, initFailures, missed >>

\* Mutant for Reconnects: this.client is kept, so initialize() does nothing.
ConnectionLostKeepsClient(c) ==
    /\ Running /\ Live(c)
    /\ lib' = [lib EXCEPT ![c] = "closed"]
    /\ authenticated' = FALSE
    /\ ScheduleReconnect
    /\ UNCHANGED << client, initializing, currentQR, calls,
                    created, retried, pairings, initFailures, missed >>

\* Mutant for ChecksAgree: isAuthenticated is kept.
ConnectionLostStaysAuthenticated(c) ==
    /\ Running /\ Live(c)
    /\ lib' = [lib EXCEPT ![c] = "closed"]
    /\ client' = None
    /\ ScheduleReconnect
    /\ UNCHANGED << authenticated, initializing, currentQR, calls, created, retried, pairings, initFailures, missed >>

\* "disconnected" for another reason than LOGOUT.
ConnectionLost(c) ==
    /\ Running /\ Live(c)
    /\ lib' = [lib EXCEPT ![c] = "closed"]
    /\ authenticated' = FALSE
    /\ client' = None
    /\ ScheduleReconnect
    /\ UNCHANGED << initializing, currentQR, calls, created, retried, pairings, initFailures, missed >>

\* "disconnected" because the user logged out on the phone.
LoggedOutRemotely(c) ==
    /\ Running /\ Live(c)
    /\ lib' = [lib EXCEPT ![c] = "closed"]
    /\ authenticated' = FALSE
    /\ client' = None
    /\ outcome' = "unlinked"
    /\ UNCHANGED << initializing, currentQR, attempts, timer, calls,
                    created, retried, pairings, initFailures, missed >>

-----------------------------------------------------------------------------
(* logout(): called by POST /whatsapp/logout, and on "auth_failure" *)

\* What a logout() that sets this.client to null leaves behind.
AfterLogout(live) == IF live = {} THEN "logged out" ELSE "orphaned"

Logout(l) ==
    /\ Running /\ logout[l] = None
    /\ \/ /\ client # None
          /\ logout' = [logout EXCEPT ![l] = client]
          /\ UNCHANGED << authenticated, currentQR, outcome >>
       \/ /\ client = None
          /\ authenticated' = FALSE
          /\ currentQR' = None
          /\ outcome' = AfterLogout({c \in Clients : Live(c)})
          /\ UNCHANGED logout
    /\ UNCHANGED << client, initializing, attempts, timer, stopping, destroying, lib,
                    created, retried, pairings, initFailures, missed >>

AuthFailure(c) ==
    /\ lib[c] = "open"
    /\ \E l \in Logouts : Logout(l)

\* Mutant for PairedIsConnected: the client is dropped after an error too.
LogoutRejectedClears(l) ==
    /\ Running /\ logout[l] # None
    /\ logout' = [logout EXCEPT ![l] = None]
    /\ client' = None
    /\ UNCHANGED << initializing, authenticated, currentQR, attempts, timer, stopping, destroying, lib, history >>

\* Whichever client logout() was called for, the fields of the one that is
\* there now are cleared: after the await the code says this.client again.
LogoutResolved(l) ==
    /\ Running /\ logout[l] # None
    /\ lib' = [lib EXCEPT ![logout[l]] = "closed"]
    /\ logout' = [logout EXCEPT ![l] = None]
    /\ client' = None
    /\ authenticated' = FALSE
    /\ currentQR' = None
    /\ outcome' = AfterLogout({c \in Clients \ {logout[l]} : Live(c)})
    /\ UNCHANGED << initializing, attempts, timer, stopping, destroying,
                    created, retried, pairings, initFailures, missed >>

\* The error is logged and nothing else is done.
LogoutRejected(l) ==
    /\ Running /\ logout[l] # None
    /\ logout' = [logout EXCEPT ![l] = None]
    /\ UNCHANGED << fields, stopping, destroying, lib, history >>

\* disconnect(), called by shutdown() just before the process exits.
Disconnect ==
    /\ stopping = "no"
    /\ timer' = FALSE
    /\ destroying' = client
    /\ \/ client # None /\ stopping' = "destroying" /\ UNCHANGED authenticated
       \/ client = None /\ stopping' = "down" /\ authenticated' = FALSE
    /\ UNCHANGED << client, initializing, currentQR, attempts, logout, lib, history >>

\* client.destroy() settles; its error is only logged.
Destroyed ==
    /\ stopping = "destroying"
    /\ stopping' = "down"
    /\ lib' = [lib EXCEPT ![destroying] = "closed"]
    /\ destroying' = None
    /\ client' = None
    /\ authenticated' = FALSE
    /\ UNCHANGED << initializing, currentQR, attempts, timer, logout, history >>

ClientEvent(c) ==
    Qr(c) \/ Authenticated(c) \/ ConnectionLost(c) \/ LoggedOutRemotely(c) \/ AuthFailure(c)

InitSettles == InitResolved \/ InitRejected
LogoutSettles(l) == LogoutResolved(l) \/ LogoutRejected(l)

Next ==
    \/ \E c \in Clients : ClientEvent(c)
    \/ \E l \in Logouts : Logout(l) \/ LogoutSettles(l)
    \/ InitSettles \/ TimerFires
    \/ Disconnect \/ Destroyed

Spec == Init /\ [][Next]_vars

\* Timers fire, awaited calls settle, and a client that waits for its user
\* shows a QR code.
Fairness ==
    /\ WF_vars(TimerFires)
    /\ WF_vars(InitSettles)
    /\ WF_vars(Destroyed)
    /\ \A l \in Logouts : WF_vars(LogoutSettles(l))
    /\ \A c \in Clients : WF_vars(Qr(c))

FairSpec == Spec /\ Fairness

-----------------------------------------------------------------------------
(* Properties *)

\* Every variable stays in its range; there is a number for every client.
TypeOK ==
    /\ client \in Clients \cup {None} /\ initializing \in Clients \cup {None}
    /\ authenticated \in BOOLEAN
    /\ currentQR \in Clients \cup {None}
    /\ attempts \in 0 .. MaxReconnects
    /\ timer \in BOOLEAN
    /\ logout \in [Logouts -> Clients \cup {None}]
    /\ stopping \in {"no", "destroying", "down"}
    /\ destroying \in Clients \cup {None}
    /\ (stopping = "destroying") = (destroying # None)
    /\ lib \in [Clients -> {"new", "open", "paired", "closed"}]
    /\ created \in Clients
    /\ retried \in 0 .. MaxReconnects
    /\ pairings \in 0 .. MaxPairings
    /\ initFailures \in 0 .. MaxInitFailures
    /\ missed \in BOOLEAN
    /\ outcome \in {"wanted", "given up", "logged out", "unlinked", "orphaned"}

\* At most one client, hence one browser on the session's directory, is alive,
\* and a reconnection waits only while none is: the timer, overlapping logouts,
\* a failed initialize() and the shutdown start no second one.
OneLiveClient ==
    \A c, d \in Clients : Live(c) /\ Live(d) => c = d /\ ~timer

\* Since the last pairing the timer has started at most as many clients as
\* there are entries in RECONNECT_DELAYS, the one it is waiting for included.
ReconnectBudget ==
    retried + (IF timer THEN 1 ELSE 0) <= attempts

\* As long as no initialize() was rejected, the status reports "connected" only
\* for a client that is paired: queue-worker.ts sends through no dead client.
ConnectedIsPaired ==
    initFailures = 0 /\ Connected => lib[client] = "paired"

\* A paired client is the one that is reported and sent through: no event of
\* another client, no timer, no rejected initialize() or logout() takes the
\* provider's state from it.  One thing does, and is excused by name: a logout()
\* that ends after a reconnection replaced its client sets the new this.client
\* to null (whatsapp-web-provider.ts 240-241), and that client stays linked to
\* the phone without being used.
PairedIsConnected ==
    \A c \in Clients : lib[c] = "paired" =>
        (client = c /\ authenticated) \/ outcome = "orphaned" \/ stopping # "no"

\* GET /whatsapp/qr offers no code while a phone is linked: no client shows a
\* code that a later step could leave behind when another one is paired.
NoCodeWhenPaired ==
    currentQR # None => ~authenticated /\ \A c \in Clients : lib[c] # "paired"

\* The ends of the attempts to reconnect that are meant: reconnect_failed after
\* the last delay, a logout here or on the phone, the shutdown.
Ended == outcome \in {"given up", "logged out", "unlinked"} \/ stopping # "no"

\* The two ways in which the code stops reconnecting without an end of that
\* kind, both for ever: an initialize() was rejected, which emits no event, and
\* left this.client at the dead client (or killed a client that a late logout()
\* had taken away before); or a delay passed while the earlier initialize() was
\* still awaited.  No timer is armed after either.
Trapped ==
    /\ ~timer /\ \A c \in Clients : ~Live(c)
    /\ missed \/ (initFailures > 0 /\ (client # None \/ outcome = "orphaned"))

\* docs/WHATSAPP_SETUP.md 359-365 and MASTER_PLAN.md 208 promise a reconnection
\* after every error or, after the last attempt, reconnect_failed.  The code
\* falls short of it in the two states of Trapped.  They are the only ones:
\* whenever no client lives a new one comes, also after an initialize() that
\* was rejected, unless the connection is in one of them or was ended.
Reconnects ==
    (\A c \in Clients : ~Live(c)) ~> ((\E c \in Clients : Live(c)) \/ Ended \/ Trapped)

\* The code of a client that is gone (no event of the library clears it) is
\* replaced by that of a new client or cleared by a pairing, as long as the
\* provider still reconnects.  Once that has ended, or is trapped, nothing
\* clears it and GET /whatsapp/qr offers the dead code for ever.
StaleCodeReplaced ==
    (currentQR # None /\ ~Live(currentQR)) ~>
        (currentQR = None \/ Live(currentQR) \/ Ended \/ Trapped)

\* docs/WHATSAPP_SETUP.md 304: "Use POST /whatsapp/logout to clear session, then
\* GET /whatsapp/qr for new QR": after a logout there is a QR code again.
QRAfterLogout ==
    (outcome = "logged out") ~> (currentQR # None \/ stopping # "no")

=============================================================================
