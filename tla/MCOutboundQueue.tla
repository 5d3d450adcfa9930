-------------------------- MODULE MCOutboundQueue --------------------------
(***************************************************************************)
(* Small instances of OutboundQueue for TLC.  The messages and the          *)
(* invocations are model values; the configurations choose how many.       *)
(***************************************************************************)
EXTENDS OutboundQueue, TLC

CONSTANTS m1, m2, w1, w2

\* One tick is enough to separate "due now" from "due later".
MCBackoff == << 1, 1 >>

=============================================================================
