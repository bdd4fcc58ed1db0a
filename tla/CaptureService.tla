--------------------------- MODULE CaptureService ---------------------------
(***************************************************************************)
(* What the pool of capture processes promises a capture request           *)
(* (PhantomRendererPool.storedImageRender, inlineImageRender): it is       *)
(* served as soon as one of the pool's renderers is free, and it is        *)
(* answered with an image of what it asked for, or with none.              *)
(***************************************************************************)
EXTENDS Naturals, FiniteSets

CONSTANTS Clients, PoolSize, None

VARIABLES
  state,   \* client -> how far it is
  wanted,  \* client -> the source it wants an image of
  image    \* client -> its answer

vars == <<state, wanted, image>>

Busy == {c \in Clients : state[c] \in {"serving", "answered"}}
To(c, from, next) == state[c] = from /\ state' = [state EXCEPT ![c] = next]

Serve(c) ==
  /\ To(c, "waiting", "serving")
  /\ Cardinality(Busy) < PoolSize
  /\ UNCHANGED <<wanted, image>>

Answer(c) ==
  /\ To(c, "serving", "answered")
  /\ \E i \in {wanted[c], None} : image' = [image EXCEPT ![c] = i]
  /\ UNCHANGED wanted

Release(c) == To(c, "answered", "done") /\ UNCHANGED <<wanted, image>>

Init ==
  /\ state = [c \in Clients |-> "waiting"]
  /\ image = [c \in Clients |-> None]

Next == \E c \in Clients : Serve(c) \/ Answer(c) \/ Release(c)

Spec == Init /\ [][Next]_vars
LiveSpec == Spec /\ \A c \in Clients : WF_vars(Serve(c)) /\ WF_vars(Answer(c)) /\ WF_vars(Release(c))
=============================================================================
