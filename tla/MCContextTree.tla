---------------------------- MODULE MCContextTree ----------------------------
(* Small instances of ContextTree for TLC. *)
EXTENDS ContextTree, TLC

CONSTANTS f1, f2, a1, a2, a3, a4, a5, a6, a7

MCOwnClusters == [k \in Contexts |-> {k}]
MCAllClusters == [k \in Contexts |-> Contexts]
MCSinglesAndAll == {Entities} \cup {{x} : x \in Entities}
\* All accounts, some of them, or one more in a bucket that has others already.
MCBatches == {Entities, {a1, a2, a3}, {a4}, {a7}}
\* The first stage sets a7 apart, the second a1.
MCKey == [s \in 0..1 |-> [x \in Entities |-> IF x = (IF s = 0 THEN a7 ELSE a1) THEN 2 ELSE 1]]
MCOneKey == [s \in 0..0 |-> [x \in Entities |-> 1]]
=============================================================================
