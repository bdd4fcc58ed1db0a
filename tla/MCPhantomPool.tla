---------------------------- MODULE MCPhantomPool ----------------------------
(* Instances of PhantomPool for TLC. *)
EXTENDS PhantomPool, TLC

CONSTANTS x, y, c1, c2, c3, w1, w2

\* Inline captures of x and y, and stored ones of x that insist on a fresh page.
MCJobs == {j \in Job : j.stored = j.reload /\ (j.stored => j.source = x)}
MCInline == {j \in Job : ~j.stored /\ ~j.reload}
MCClientsAlike == Permutations(Clients)
=============================================================================
