---------------------- MODULE WhatsAppProviderProofs -----------------------
(***************************************************************************)
(* Theorems about WhatsAppProvider, for any number of delays, overlapping  *)
(* logouts, pairings and failures of initialize().                         *)
(***************************************************************************)
EXTENDS WhatsAppProvider, TLAPS

\* A client that waits for its reconnection counts as one.
Waiting == IF timer THEN 1 ELSE 0

\* What the fields keep true.  The clients created so far are paid for by the
\* first one, by full tables of delays before each pairing, and by the attempts
\* since: this is why there is always a number for the next client.
ProviderInv ==
    /\ TypeOK
    /\ \A c \in Clients : Live(c) => c <= created
    /\ OneLiveClient
    /\ timer => \A c \in Clients : ~Live(c)
    /\ ReconnectBudget
    /\ created + Waiting <= 1 + MaxReconnects * pairings + attempts

\* The products that bound the number of clients, for a prover of linear arithmetic.
LEMMA Products ==
    ASSUME NEW k \in Nat, NEW p \in Nat
    PROVE  k * p \in Nat /\ k * (p + 1) = k * p + k /\ k * 0 = 0
  OBVIOUS

\* There is a number for every client the timer may still create.
LEMMA ClientNumbers ==
    ASSUME NEW n \in Nat, NEW p \in 0 .. MaxPairings, NEW a \in 0 .. MaxReconnects,
           n <= 1 + MaxReconnects * p + a, n >= 1
    PROVE  n \in Clients
<1>. DEFINE K == MaxReconnects
<1>1. K \in Nat /\ MaxPairings \in Nat /\ p \in Nat
  BY ProviderAssumption
<1>2. MaxPairings - p \in Nat
  BY <1>1
<1>3. K * (MaxPairings - p) \in Nat
  BY <1>1, <1>2, SMT
<1>4. K * (MaxPairings + 1) = K * p + K * (MaxPairings - p) + K
  BY <1>1, SMT
<1>. QED
  BY <1>1, <1>3, <1>4, SMT DEF Clients

\* The counters are numbers within their bounds.
LEMMA Numbers ==
    ASSUME ProviderInv
    PROVE  /\ MaxReconnects \in Nat \ {0} /\ MaxInitFailures \in Nat
           /\ created \in Nat \ {0}
           /\ retried \in Nat /\ attempts \in Nat /\ attempts <= MaxReconnects
           /\ pairings \in Nat /\ pairings <= MaxPairings
           /\ MaxReconnects * pairings \in Nat
           /\ MaxReconnects * (pairings + 1) = MaxReconnects * pairings + MaxReconnects
           /\ Waiting \in {0, 1}
<1>1. /\ created \in Clients /\ retried \in 0 .. MaxReconnects
      /\ attempts \in 0 .. MaxReconnects /\ pairings \in 0 .. MaxPairings
  BY DEF ProviderInv, TypeOK
<1>2. MaxReconnects \in Nat \ {0} /\ MaxPairings \in Nat /\ MaxInitFailures \in Nat
  BY ProviderAssumption
<1>3. pairings \in Nat /\ pairings <= MaxPairings
  BY <1>1, <1>2
<1>4. /\ MaxReconnects * pairings \in Nat
      /\ MaxReconnects * (pairings + 1) = MaxReconnects * pairings + MaxReconnects
  BY <1>2, <1>3, Products
<1>5. created \in Nat \ {0}
  BY <1>1 DEF Clients
<1>6. Waiting \in {0, 1}
  BY DEF Waiting
<1>. QED
  BY <1>1, <1>2, <1>3, <1>4, <1>5, <1>6

\* Every step keeps the invariant.
LEMMA ProviderNext == ProviderInv /\ [Next]_vars => ProviderInv'
<1>. SUFFICES ASSUME ProviderInv, [Next]_vars PROVE ProviderInv'
  OBVIOUS
<1>1. ASSUME NEW c \in Clients, Qr(c) PROVE ProviderInv'
  BY <1>1, ProviderAssumption
  DEF ProviderInv, TypeOK, OneLiveClient, ReconnectBudget, Waiting, Live, None, Qr, calls,
     history
<1>2. ASSUME NEW c \in Clients, Authenticated(c) PROVE ProviderInv'
  <2>1. ~timer /\ Waiting' = 0 /\ Waiting = 0
    BY <1>2 DEF ProviderInv, Live, Authenticated, Waiting
  <2>2. MaxReconnects * (pairings + 1) = MaxReconnects * pairings + MaxReconnects
    BY Numbers
  <2>3. created' + Waiting' <= 1 + MaxReconnects * pairings' + attempts'
    <3>1. pairings' = pairings + 1 /\ attempts' = 0 /\ created' = created
      BY <1>2 DEF Authenticated
    <3>2. MaxReconnects * pairings \in Nat /\ created \in Nat
      BY Numbers
    <3>3. created <= 1 + MaxReconnects * pairings + attempts
      BY <2>1, <3>2, Numbers DEF ProviderInv
    <3>. QED
      BY <2>1, <2>2, <3>1, <3>2, <3>3, Numbers
  <2>4. TypeOK'
    <3>1. authenticated' \in BOOLEAN
      BY <1>2, Zenon DEF Authenticated
    <3>2. pairings' \in 0 .. MaxPairings /\ retried' = 0 /\ attempts' = 0
      BY <1>2, Numbers, ProviderAssumption DEF Authenticated
    <3>3. lib' \in [Clients -> {"new", "open", "paired", "closed"}]
      BY <1>2 DEF ProviderInv, TypeOK, Authenticated
    <3>4. 0 \in 0 .. MaxReconnects
      BY ProviderAssumption
    <3>. QED
      BY <1>2, <3>1, <3>2, <3>3, <3>4 DEF ProviderInv, TypeOK, Authenticated, calls, None
  <2>5. OneLiveClient' /\ (\A d \in Clients : Live(d) => d <= created)'
    BY <1>2 DEF ProviderInv, TypeOK, OneLiveClient, Live, Authenticated
  <2>6. ReconnectBudget'
    BY <1>2, <2>1 DEF ReconnectBudget, Authenticated
  <2>. QED
    BY <1>2, <2>1, <2>3, <2>4, <2>5, <2>6 DEF ProviderInv, Authenticated
<1>3. ASSUME NEW c \in Clients, ConnectionLost(c) PROVE ProviderInv'
  <2>1. ~timer /\ (\A d \in Clients : ~Live(d))'
    BY <1>3 DEF ProviderInv, TypeOK, OneLiveClient, Live, ConnectionLost
  <2>2. MaxReconnects * pairings \in Nat /\ created \in Nat /\ attempts \in Nat
    BY Numbers
  <2>3. \/ attempts >= MaxReconnects /\ timer' = FALSE /\ attempts' = attempts
        \/ attempts < MaxReconnects /\ timer' = TRUE /\ attempts' = attempts + 1
    <3>1. ScheduleReconnect
      BY <1>3 DEF ConnectionLost
    <3>2. attempts >= MaxReconnects \/ attempts < MaxReconnects
      BY Numbers
    <3>. QED
      BY <3>1, <3>2 DEF ScheduleReconnect
  <2>4. created' + Waiting' <= 1 + MaxReconnects * pairings' + attempts' /\ ReconnectBudget'
    <3>1. created <= 1 + MaxReconnects * pairings + attempts /\ retried <= attempts
      BY <2>1, <2>2, Numbers DEF ProviderInv, ReconnectBudget, Waiting
    <3>2. UNCHANGED << created, retried, pairings >>
      BY <1>3 DEF ConnectionLost
    <3>. QED
      BY <2>2, <2>3, <3>1, <3>2, Numbers DEF ReconnectBudget, Waiting
  <2>5. TypeOK'
    <3>1. authenticated' \in BOOLEAN /\ timer' \in BOOLEAN
      BY <1>3, <2>3, Zenon DEF ConnectionLost
    <3>2. outcome' \in {"wanted", "given up", "logged out", "unlinked", "orphaned"}
      BY <1>3 DEF ProviderInv, TypeOK, ConnectionLost, ScheduleReconnect
    <3>3. attempts' \in 0 .. MaxReconnects
      BY <2>3, Numbers
    <3>. QED
      BY <1>3, <3>1, <3>2, <3>3 DEF ProviderInv, TypeOK, ConnectionLost, calls, None
  <2>. QED
    BY <2>1, <2>4, <2>5 DEF ProviderInv, OneLiveClient
<1>4. ASSUME NEW c \in Clients, LoggedOutRemotely(c) PROVE ProviderInv'
  BY <1>4, ProviderAssumption
  DEF ProviderInv, TypeOK, OneLiveClient, ReconnectBudget, Waiting, Live, None, LoggedOutRemotely,
     calls
<1>5. ASSUME NEW c \in Clients, AuthFailure(c) PROVE ProviderInv'
  BY <1>5, ProviderAssumption
  DEF ProviderInv, TypeOK, OneLiveClient, ReconnectBudget, Waiting, Live, None, AuthFailure,
     Logout, AfterLogout
<1>6. ASSUME NEW l \in Logouts, Logout(l) PROVE ProviderInv'
  BY <1>6, ProviderAssumption
  DEF ProviderInv, TypeOK, OneLiveClient, ReconnectBudget, Waiting, Live, None, Logout,
     AfterLogout
<1>7. ASSUME NEW l \in Logouts, LogoutResolved(l) PROVE ProviderInv'
  BY <1>7, ProviderAssumption
  DEF ProviderInv, TypeOK, OneLiveClient, ReconnectBudget, Waiting, Live, None, LogoutResolved,
     AfterLogout
<1>8. ASSUME NEW l \in Logouts, LogoutRejected(l) PROVE ProviderInv'
  BY <1>8, ProviderAssumption
  DEF ProviderInv, TypeOK, OneLiveClient, ReconnectBudget, Waiting, Live, None, LogoutRejected,
     fields, history
<1>9. CASE InitResolved
  BY <1>9, ProviderAssumption
  DEF ProviderInv, TypeOK, OneLiveClient, ReconnectBudget, Waiting, Live, None, InitResolved,
     calls, history
<1>10. CASE InitRejected
  <2>1. TypeOK'
    <3>1. initFailures' \in 0 .. MaxInitFailures
      <4>1. initFailures \in 0 .. MaxInitFailures /\ MaxInitFailures \in Nat
        BY ProviderAssumption DEF ProviderInv, TypeOK
      <4>2. \/ initFailures' = initFailures
            \/ initFailures' = initFailures + 1 /\ initFailures < MaxInitFailures
        BY <1>10 DEF InitRejected
      <4>. QED
        BY <4>1, <4>2
    <3>2. lib' \in [Clients -> {"new", "open", "paired", "closed"}]
      BY <1>10 DEF ProviderInv, TypeOK, InitRejected
    <3>. QED
      BY <1>10, <3>1, <3>2 DEF ProviderInv, TypeOK, InitRejected, calls, None
  <2>2. \A d \in Clients : Live(d)' => Live(d)
    BY <1>10 DEF ProviderInv, TypeOK, Live, InitRejected
  <2>. QED
    BY <1>10, <2>1, <2>2
    DEF ProviderInv, OneLiveClient, ReconnectBudget, Waiting, InitRejected
<1>11. CASE TimerFires
  <2>1. /\ timer /\ \A d \in Clients : ~Live(d)
        /\ timer' = FALSE /\ Waiting = 1 /\ Waiting' = 0
    BY <1>11 DEF ProviderInv, TimerFires, Waiting
  <2>2. created \in Nat /\ retried \in Nat /\ attempts \in Nat /\ MaxReconnects * pairings \in Nat
    BY Numbers
  <2>3. UNCHANGED << authenticated, currentQR, attempts, logout, stopping, destroying, pairings, initFailures >>
    BY <1>11 DEF TimerFires, calls
  <2>6. timer' \in BOOLEAN /\ missed' \in BOOLEAN
    <3>1. missed' = (missed \/ initializing # None)
      BY <1>11 DEF TimerFires
    <3>. QED
      BY <2>1, <3>1, Zenon
  <2>4. CASE client = None /\ initializing = None
    <3>1. /\ created' = created + 1 /\ client' = created + 1 /\ initializing' = created + 1
          /\ lib' = [lib EXCEPT ![created + 1] = "open"]
          /\ retried' = retried + 1 /\ outcome' = "wanted"
      BY <1>11, <2>4 DEF TimerFires, Initialize
    <3>2. created + 1 <= 1 + MaxReconnects * pairings + attempts /\ retried + 1 <= attempts
      BY <2>1 DEF ProviderInv, ReconnectBudget
    <3>3. created + 1 \in Clients
      BY <3>2, Numbers, ClientNumbers
    <3>4. TypeOK'
      <4>1. retried + 1 \in 0 .. MaxReconnects
        BY <3>2, Numbers
      <4>. QED
        BY <2>3, <2>6, <3>1, <3>3, <4>1 DEF ProviderInv, TypeOK
    <3>5. \A d \in Clients : Live(d)' => d = created + 1
      BY <2>1, <3>1, <3>3 DEF ProviderInv, TypeOK, Live
    <3>. QED
      BY <2>1, <2>2, <2>3, <3>1, <3>2, <3>4, <3>5 DEF ProviderInv, OneLiveClient, ReconnectBudget
  <2>5. CASE ~(client = None /\ initializing = None)
    <3>1. UNCHANGED << created, client, initializing, lib, retried, outcome >>
      BY <1>11, <2>5 DEF TimerFires, Initialize
    <3>2. TypeOK'
      BY <2>3, <2>6, <3>1 DEF ProviderInv, TypeOK
    <3>. QED
      BY <2>1, <2>2, <2>3, <3>1, <3>2 DEF ProviderInv, OneLiveClient, ReconnectBudget, Live
  <2>. QED
    BY <2>4, <2>5
<1>12. CASE Disconnect
  <2>1. /\ timer' = FALSE /\ Waiting' = 0 /\ UNCHANGED << client, initializing, currentQR, attempts, logout, lib >>
        /\ UNCHANGED << created, retried, pairings, initFailures, missed, outcome >>
    BY <1>12 DEF Disconnect, Waiting, history
  <2>2. TypeOK'
    <3>1. authenticated' \in BOOLEAN /\ timer' \in BOOLEAN
      BY <1>12, Zenon DEF Disconnect, ProviderInv, TypeOK
    <3>2. destroying' = client /\ stopping' \in {"destroying", "down"} /\ (stopping' = "destroying" <=> client # None)
      BY <1>12 DEF Disconnect
    <3>. QED
      BY <2>1, <3>1, <3>2 DEF ProviderInv, TypeOK
  <2>3. /\ created \in Nat /\ retried \in Nat /\ attempts \in Nat /\ MaxReconnects * pairings \in Nat
        /\ Waiting \in {0, 1}
    BY Numbers
  <2>. QED
    BY <2>1, <2>2, <2>3 DEF ProviderInv, OneLiveClient, ReconnectBudget, Live, Waiting
<1>13. CASE Destroyed
  BY <1>13, ProviderAssumption
  DEF ProviderInv, TypeOK, OneLiveClient, ReconnectBudget, Waiting, Live, None, Destroyed,
     history
<1>14. CASE UNCHANGED vars
  BY <1>14
  DEF ProviderInv, TypeOK, OneLiveClient, ReconnectBudget, Waiting, Live, vars, fields, calls,
     history
<1>. QED
  BY <1>1, <1>2, <1>3, <1>4, <1>5, <1>6, <1>7, <1>8, <1>9, <1>10, <1>11, <1>12, <1>13, <1>14
  DEF Next, ClientEvent, InitSettles, LogoutSettles

\* The state after start() satisfies the invariant.
LEMMA ProviderInit == Init => ProviderInv
<1>. SUFFICES ASSUME Init PROVE ProviderInv
  OBVIOUS
<1>1. MaxReconnects * 0 = 0
  BY Products, ProviderAssumption
<1>4. 1 \in Clients
  <2>1. 0 \in 0 .. MaxPairings /\ 0 \in 0 .. MaxReconnects /\ 1 \in Nat
    BY ProviderAssumption
  <2>2. 1 <= 1 + MaxReconnects * 0 + 0
    BY <1>1
  <2>. QED
    BY <2>1, <2>2, ClientNumbers
<1>2. authenticated \in BOOLEAN /\ timer \in BOOLEAN /\ missed \in BOOLEAN
  BY Zenon DEF Init
<1>3. TypeOK
  BY <1>2, <1>4, ProviderAssumption DEF Init, TypeOK, None
<1>. QED
  BY <1>1, <1>3 DEF Init, ProviderInv, OneLiveClient, ReconnectBudget, Waiting, Live

\* ProviderInv is an invariant.
LEMMA ProviderInvariant == Spec => []ProviderInv
  BY ProviderInit, ProviderNext, PTL DEF Spec

\* The provider's own state follows client c, or a late logout() took it away.
Follows(c) ==
    \/ client = c /\ (lib[c] = "paired" => authenticated)
    \/ outcome = "orphaned" \/ stopping # "no"

\* What relates isAuthenticated, the QR code and this.client to the library's
\* clients.  A client is paired only out of a state without authentication,
\* because the timer is armed only by steps that take it away; and only a
\* logout() that ended late leaves a live client without this.client.
StateInv ==
    /\ timer => ~authenticated
    /\ \A c \in Clients : lib[c] = "open" => ~authenticated
    /\ NoCodeWhenPaired
    /\ initFailures = 0 /\ client # None => Live(client)
    /\ \A c \in Clients : Live(c) => Follows(c)
    /\ authenticated => Connected \/ outcome = "orphaned" \/ stopping # "no"
    /\ ConnectedIsPaired

\* The next instance of the client has a positive number.
LEMMA Successor == \A n \in Nat : n + 1 > 0 /\ n + 1 # 0
  OBVIOUS

\* The code and the client "null" are no instance of the client.
LEMMA NoneIsNoClient == None \notin Clients
<1>1. \A n : 0 \notin 1 .. n
  OBVIOUS
<1>. QED
  BY <1>1 DEF Clients, None

\* Facts of ProviderInv in the form that StateNext uses.
LEMMA StateFacts ==
    ASSUME ProviderInv
    PROVE  /\ lib \in [Clients -> {"new", "open", "paired", "closed"}]
           /\ client \in Clients \cup {None}
           /\ \A c, d \in Clients : Live(c) /\ Live(d) => c = d /\ ~timer
           /\ initFailures \in Nat
           /\ timer => created + 1 \in Clients
<1>1. initFailures \in 0 .. MaxInitFailures /\ MaxInitFailures \in Nat
  BY ProviderAssumption DEF ProviderInv, TypeOK
<1>2. ASSUME timer PROVE created + 1 \in Clients
  <2>1. created + 1 <= 1 + MaxReconnects * pairings + attempts
    BY <1>2 DEF ProviderInv, Waiting
  <2>. QED
    BY <2>1, Numbers, ClientNumbers
<1>3. initFailures \in Nat
  BY <1>1
<1>4. /\ lib \in [Clients -> {"new", "open", "paired", "closed"}]
      /\ client \in Clients \cup {None}
      /\ \A c, d \in Clients : Live(c) /\ Live(d) => c = d /\ ~timer
  BY DEF ProviderInv, TypeOK, OneLiveClient
<1>. QED
  BY <1>2, <1>3, <1>4, Zenon

\* Every step keeps StateInv, next to ProviderInv.
LEMMA StateNext == ProviderInv /\ StateInv /\ [Next]_vars => StateInv'
<1>. SUFFICES ASSUME ProviderInv, StateInv, [Next]_vars PROVE StateInv'
  OBVIOUS
<1>. USE DEF StateInv, NoCodeWhenPaired, ConnectedIsPaired, Connected, Follows, Live
<1>0. /\ lib \in [Clients -> {"new", "open", "paired", "closed"}]
      /\ client \in Clients \cup {None} /\ None \notin Clients
      /\ \A c, d \in Clients : Live(c) /\ Live(d) => c = d /\ ~timer
  BY StateFacts, NoneIsNoClient
<1>1. ASSUME NEW c \in Clients, Qr(c) PROVE StateInv'
  BY <1>0, <1>1 DEF Qr, calls, history
<1>2. ASSUME NEW c \in Clients, Authenticated(c) PROVE StateInv'
  BY <1>0, <1>2 DEF Authenticated, calls
<1>3. ASSUME NEW c \in Clients, ConnectionLost(c) PROVE StateInv'
  BY <1>0, <1>3 DEF ConnectionLost, calls
<1>4. ASSUME NEW c \in Clients, LoggedOutRemotely(c) PROVE StateInv'
  BY <1>0, <1>4 DEF LoggedOutRemotely, calls
<1>5. ASSUME NEW l \in Logouts, Logout(l) PROVE StateInv'
  <2>1. UNCHANGED << client, initializing, timer, stopping, lib, initFailures >>
    BY <1>5 DEF Logout
  <2>2. CASE UNCHANGED << authenticated, currentQR, outcome >>
    BY <2>1, <2>2
  <2>3. CASE client = None /\ authenticated' = FALSE /\ currentQR' = None
             /\ outcome' = AfterLogout({c \in Clients : Live(c)})
    BY <1>0, <2>1, <2>3 DEF AfterLogout
  <2>. QED
    BY <1>5, <2>2, <2>3 DEF Logout
<1>6. ASSUME NEW c \in Clients, AuthFailure(c) PROVE StateInv'
  BY <1>5, <1>6 DEF AuthFailure
<1>7. ASSUME NEW l \in Logouts, LogoutResolved(l) PROVE StateInv'
  BY <1>0, <1>7 DEF LogoutResolved, AfterLogout
<1>8. ASSUME NEW l \in Logouts, LogoutRejected(l) PROVE StateInv'
  BY <1>0, <1>8 DEF LogoutRejected, fields, history
<1>9. CASE InitResolved
  BY <1>0, <1>9 DEF InitResolved, calls, history
<1>10. CASE InitRejected
  <2>1. initFailures \in Nat
    BY StateFacts
  <2>2. /\ lib' = [lib EXCEPT ![initializing] = "closed"]
        /\ UNCHANGED << client, authenticated, currentQR, timer, stopping, outcome >>
    BY <1>10 DEF InitRejected, calls
  <2>3. CASE Live(initializing)
    <3>1. initFailures' = initFailures + 1
      BY <1>10, <2>3 DEF InitRejected
    <3>2. initFailures' > 0 /\ initFailures' # 0
      BY <2>1, <3>1, Successor
    <3>. QED
      BY <1>0, <2>2, <3>2
  <2>4. CASE ~Live(initializing)
    <3>1. initFailures' = initFailures /\ \A c \in Clients : Live(c)' <=> Live(c)
      BY <1>0, <1>10, <2>2, <2>4 DEF InitRejected
    <3>. QED
      BY <1>0, <2>2, <2>4, <3>1
  <2>. QED
    BY <2>3, <2>4
<1>11. CASE TimerFires
  <2>1. /\ timer /\ timer' = FALSE /\ ~authenticated
        /\ UNCHANGED << authenticated, currentQR, stopping, initFailures >>
        /\ \A c \in Clients : ~Live(c)
    BY <1>0, <1>11 DEF TimerFires, calls
  <2>2. CASE client = None /\ initializing = None
    <3>1. client' = created + 1 /\ lib' = [lib EXCEPT ![created + 1] = "open"]
      BY <1>11, <2>2 DEF TimerFires, Initialize
    <3>2. created + 1 \in Clients
      BY <2>1, StateFacts
    <3>3. \A c \in Clients : Live(c)' => c = client' /\ lib'[c] = "open"
      BY <1>0, <2>1, <3>1
    <3>. QED
      BY <1>0, <2>1, <3>1, <3>2, <3>3
  <2>3. CASE ~(client = None /\ initializing = None)
    <3>1. UNCHANGED << client, lib, outcome >>
      BY <1>11, <2>3 DEF TimerFires, Initialize
    <3>. QED
      BY <2>1, <3>1
  <2>. QED
    BY <2>2, <2>3
<1>12. CASE Disconnect
  <2>1. /\ timer' = FALSE /\ UNCHANGED << client, currentQR, lib, initFailures, outcome >>
    BY <1>12 DEF Disconnect, history
  <2>2. CASE stopping' = "destroying" /\ UNCHANGED authenticated
    BY <1>0, <2>1, <2>2
  <2>3. CASE stopping' = "down" /\ authenticated' = FALSE
    BY <1>0, <2>1, <2>3
  <2>. QED
    BY <1>12, <2>2, <2>3 DEF Disconnect
<1>13. CASE Destroyed
  BY <1>0, <1>13 DEF Destroyed, history
<1>14. CASE UNCHANGED vars
  BY <1>14 DEF vars, fields, calls, history
<1>. QED
  BY <1>1, <1>2, <1>3, <1>4, <1>6, <1>5, <1>7, <1>8, <1>9, <1>10, <1>11, <1>12, <1>13, <1>14
  DEF Next, ClientEvent, InitSettles, LogoutSettles

\* initialize() starts without a code, a timer or a session.
LEMMA StateInit == Init => StateInv
<1>. SUFFICES ASSUME Init PROVE StateInv
  OBVIOUS
<1>1. ~timer /\ ~authenticated /\ currentQR = None
  BY DEF Init
<1>2. client = 1 /\ 1 \in Clients /\ Live(1)
  BY ProviderInit DEF Init, ProviderInv, TypeOK, Live
<1>3. \A c \in Clients : Live(c) => c = client
  BY DEF Init, Live
<1>4. \A c \in Clients : lib[c] # "paired"
  BY DEF Init
<1>. QED
  BY <1>1, <1>2, <1>3, <1>4, NoneIsNoClient
  DEF StateInv, NoCodeWhenPaired, ConnectedIsPaired, Connected, Follows

\* The states of the provider agree with each other throughout.
LEMMA StateInvariant == Spec => []StateInv
  BY ProviderInvariant, StateInit, StateNext, PTL DEF Spec

\* Type correctness; in particular there is never a reconnection beyond the
\* table of delays.
THEOREM ProviderTypeCorrect == Spec => []TypeOK
<1>1. ProviderInv => TypeOK
  BY DEF ProviderInv
<1>. QED
  BY <1>1, ProviderInvariant, PTL

\* No interleaving of events, timers, logouts, failures of initialize() and the
\* shutdown has two live clients, or a live one beside an armed timer.
THEOREM NeverTwoClients == Spec => []OneLiveClient
<1>1. ProviderInv => OneLiveClient
  BY DEF ProviderInv
<1>. QED
  BY <1>1, ProviderInvariant, PTL

\* Between two pairings the timer starts at most one client per delay.
THEOREM ReconnectsBounded == Spec => []ReconnectBudget
<1>1. ProviderInv => ReconnectBudget
  BY DEF ProviderInv
<1>. QED
  BY <1>1, ProviderInvariant, PTL

\* Unless an initialize() was rejected, "connected" is reported only for a
\* client that is paired, however late a logout() or an event comes.
THEOREM ConnectedTruly == Spec => []ConnectedIsPaired
<1>1. StateInv => ConnectedIsPaired
  BY DEF StateInv
<1>. QED
  BY <1>1, StateInvariant, PTL

\* A paired client is the one that is reported and sent through, unless a
\* logout() that ended late took the provider's state from it or the process is
\* stopping (whatsapp-web-provider.ts 237-252).
THEOREM PairedTruly == Spec => []PairedIsConnected
<1>1. StateInv => PairedIsConnected
  BY DEF StateInv, Follows, PairedIsConnected, Live
<1>. QED
  BY <1>1, StateInvariant, PTL

\* No QR code is offered while a phone is linked.
THEOREM NoDeadCode == Spec => []NoCodeWhenPaired
<1>1. StateInv => NoCodeWhenPaired
  BY DEF StateInv
<1>. QED
  BY <1>1, StateInvariant, PTL

=============================================================================
