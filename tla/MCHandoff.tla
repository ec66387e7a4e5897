------------------------------ MODULE MCHandoff -----------------------------
(* Small instances of Handoff for TLC.                                     *)
EXTENDS Handoff

\* Three cars, two of them equally far from their KBB price.
MCItem == {1, 2, 3}
MCPercent == [i \in MCItem |-> IF i = 1 THEN 15 ELSE -19]

=============================================================================
