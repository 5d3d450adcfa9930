------------------------ MODULE MCServerLifecycle --------------------------
(***************************************************************************)
(* Small instances of ServerLifecycle for TLC: one message and a worker     *)
(* whose invocations do not overlap.                                       *)
(***************************************************************************)
EXTENDS ServerLifecycle, TLC

CONSTANTS m1, w1, term, int

MCBackoff == << 1, 1 >>

=============================================================================
