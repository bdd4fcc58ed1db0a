--------------------------- MODULE SerialRequests ---------------------------
(***************************************************************************)
(* What infRest promises the views about requests that wait: those of one  *)
(* context are served one at a time and in the order they were made, and   *)
(* each is served unless the callback of an earlier one broke its context. *)
(***************************************************************************)
EXTENDS Naturals

CONSTANTS Contexts, Numbers, None

VARIABLES
  last,      \* the number of the latest request: they grow
  waiting,   \* context -> the requests that wait
  serving,   \* context -> the request that is being served
  broken     \* contexts that serve no more

vars == <<last, waiting, serving, broken>>

Init ==
  /\ last = 0
  /\ waiting = [c \in Contexts |-> {}]
  /\ serving = [c \in Contexts |-> None]
  /\ broken = {}

\* A request is made, by a view or by a callback; it waits in a context or, being of
\* another kind, does not concern us.
Ask ==
  /\ last' \in {n \in Numbers : n > last}
  /\ \/ UNCHANGED waiting
     \/ \E c \in Contexts : waiting' = [waiting EXCEPT ![c] = @ \cup {last'}]
MayAsk == Ask \/ UNCHANGED <<last, waiting>>

\* Of each context in "ready" the request that was made first is served.
Ready == {c \in Contexts : serving[c] = None /\ waiting[c] # {}}
Earliest(c) == CHOOSE n \in waiting[c] : \A m \in waiting[c] : n <= m
Start(ready) ==
  /\ ready # {} /\ ready \subseteq Ready
  /\ serving' = [c \in Contexts |-> IF c \in ready THEN Earliest(c) ELSE serving[c]]
  /\ waiting' = [c \in Contexts |->
       IF c \in ready THEN waiting[c] \ {Earliest(c)} ELSE waiting[c]]
  /\ UNCHANGED <<last, broken>>

Finish(c) ==
  /\ serving[c] # None /\ c \notin broken
  /\ serving' = [serving EXCEPT ![c] = None]
  /\ MayAsk
  /\ UNCHANGED broken

Break(c) ==
  /\ serving[c] # None /\ c \notin broken
  /\ broken' = broken \cup {c}
  /\ MayAsk
  /\ UNCHANGED serving

Next ==
  \/ Ask /\ UNCHANGED <<serving, broken>>
  \/ \E ready \in SUBSET Contexts : Start(ready)
  \/ \E c \in Contexts : Finish(c) \/ Break(c)

Spec ==
  /\ Init /\ [][Next]_vars
  /\ \A c \in Contexts :
       /\ WF_vars(\E ready \in SUBSET Contexts : c \in ready /\ Start(ready))
       /\ WF_vars(Finish(c) \/ Break(c))
=============================================================================
