----------------------------- MODULE MCFlowView -----------------------------
(* An instance of FlowView for TLC: two accounts that pay each other. *)
EXTENDS FlowView
CONSTANTS a, b, f, g
MCFlow == {<<a, b>>, <<b, a>>}
\* A patient user has a row with two columns, so that work may be two columns away.
MCRestored == [p \in BOOLEAN |-> IF p THEN <<{a}, {b}>> ELSE <<{a}>>]
=============================================================================
