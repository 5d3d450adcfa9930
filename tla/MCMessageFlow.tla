--------------------------- MODULE MCMessageFlow ---------------------------
(***************************************************************************)
(* A small instance of MessageFlow for TLC: the lengths and texts on both  *)
(* sides of every limit, and one address of each kind that may be typed.   *)
(***************************************************************************)
EXTENDS MessageFlow

MCTyped ==
    {[plus |-> p, blanks |-> b, user |-> [kind |-> k, length |-> n], server |-> s] :
        p \in {FALSE}, b \in {"none", "before", "after"}, k \in {"number", "leading zero"}, n \in {2, MaxDigits},
        s \in {{}, {"g.us"}}}

MCTexts ==
    {[length |-> n, blank |-> FALSE] : n \in {1, MaxLength, MaxLength + 1}}
    \cup {[length |-> 0, blank |-> TRUE]}

=============================================================================
