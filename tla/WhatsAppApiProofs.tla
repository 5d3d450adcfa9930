------------------------- MODULE WhatsAppApiProofs -------------------------
(***************************************************************************)
(* The handlers of /api/whatsapp drive the provider as WhatsAppProvider    *)
(* says: what is proved of the provider holds beneath any requests.        *)
(***************************************************************************)
EXTENDS WhatsAppApi, WhatsAppProviderProofs

\* Every step of a handler is a step of the provider or leaves it alone.
LEMMA ApiStep == [ApiNext]_apiVars => [Next]_vars
<1>. SUFFICES ASSUME [ApiNext]_apiVars PROVE [Next]_vars
  OBVIOUS
<1>1. ASSUME NEW r \in Requests,
             GetQRCode(r) \/ GetStatus(r) \/ PostSend(r) \/ QRCodeDrawn(r) \/ SendSettles(r)
      PROVE  [Next]_vars
  BY <1>1 DEF GetQRCode, GetStatus, PostSend, QRCodeDrawn, SendSettles
<1>2. ASSUME NEW r \in Requests, PostLogout(r) PROVE [Next]_vars
  BY <1>2, ApiAssumption DEF PostLogout, Next
<1>3. ASSUME NEW r \in Requests, LogoutAnswered(r) PROVE [Next]_vars
  BY <1>3, ApiAssumption DEF LogoutAnswered, Next
<1>4. CASE Close
  BY <1>4 DEF Close
<1>5. CASE ProviderStep
  BY <1>5 DEF ProviderStep, Next, ClientEvent
<1>6. CASE UNCHANGED apiVars
  BY <1>6 DEF apiVars
<1>. QED
  BY <1>1, <1>2, <1>3, <1>4, <1>5, <1>6 DEF ApiNext, Settles

\* The provider beneath its handlers is the provider of WhatsAppProvider.
THEOREM ApiImplementsProvider == ApiSpec => Spec
<1>1. ApiInit => Init
  BY DEF ApiInit
<1>. QED
  BY <1>1, ApiStep, PTL DEF ApiSpec, Spec

\* status.authenticated, which POST /whatsapp/send looks at, says what
\* sendMessage() will find, unless a logout() ended late or the process stops.
THEOREM ChecksAlwaysAgree == ApiSpec => []ChecksAgree
<1>1. StateInv => ChecksAgree
  BY DEF StateInv, ChecksAgree
<1>. QED
  BY <1>1, ApiImplementsProvider, StateInvariant, PTL

=============================================================================
