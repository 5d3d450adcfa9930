--------------------------- MODULE MCWhatsAppApi ---------------------------
(***************************************************************************)
(* Small instances of WhatsAppApi for TLC: requests, and one logout() call *)
(* that an "auth_failure" makes.                                           *)
(***************************************************************************)
EXTENDS WhatsAppApi, TLC

CONSTANTS r1, a1

=============================================================================
