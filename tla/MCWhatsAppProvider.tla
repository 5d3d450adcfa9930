------------------------ MODULE MCWhatsAppProvider -------------------------
(***************************************************************************)
(* Small instances of WhatsAppProvider for TLC.                            *)
(***************************************************************************)
EXTENDS WhatsAppProvider, TLC

CONSTANTS l1, l2

=============================================================================
