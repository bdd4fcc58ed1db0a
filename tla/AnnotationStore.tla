--------------------------- MODULE AnnotationStore ---------------------------
(***************************************************************************)
(* What the annotation service promises its clients, with no tiles in      *)
(* sight: a store of annotations in which every request takes effect at    *)
(* once, between being made and being answered.  A change is accepted      *)
(* exactly when its certificate is the annotation's, and a tile shows      *)
(* exactly the annotations that lie in it.  After a storage failure in the *)
(* middle of a change the store is unsure of that one annotation.          *)
(***************************************************************************)
CONSTANTS Clients, Uuids, Requests, Stamps, None, Annotation(_, _), Lies(_, _)

VARIABLES
  store,    \* uuid -> its annotation, or None
  unsure,   \* the uuids of changes that a storage failure interrupted
  op,       \* client -> its request, or None
  answer    \* client -> the answer it has not taken yet, or None

vars == <<store, unsure, op, answer>>

Init ==
  /\ store = [u \in Uuids |-> None]
  /\ unsure = {}
  /\ op = [c \in Clients |-> None]
  /\ answer = [c \in Clients |-> None]

Waits(c) == op[c] # None /\ answer[c] = None
Reply(c, is, found) == answer' = [answer EXCEPT ![c] = [is |-> is, found |-> found]]
Certificate(a) == [uuid |-> a.uuid, stamp |-> a.stamp]

Ask(c) ==
  /\ op[c] = None
  /\ op' \in {[op EXCEPT ![c] = r] : r \in Requests}
  /\ UNCHANGED <<store, unsure, answer>>

\* A write needs a free uuid, a change the certificate of what is stored.
Admissible(r) ==
  IF r.kind = "write" THEN store[r.uuid] = None
  ELSE store[r.uuid] # None /\ store[r.uuid].stamp = r.stamp
Changes(c) == Waits(c) /\ op[c].kind # "read"

Refuse(c) ==
  /\ Changes(c)
  /\ ~Admissible(op[c]) \/ op[c].uuid \in unsure
  /\ Reply(c, "refused", {})
  /\ UNCHANGED <<store, unsure, op>>

Put(c) ==
  /\ Changes(c) /\ Admissible(op[c]) /\ op[c].kind # "remove"
  /\ \E s \in Stamps :
       /\ op[c].kind = "write" => s = op[c].stamp
       /\ store' = [store EXCEPT ![op[c].uuid] = Annotation(op[c], s)]
       /\ Reply(c, "done", {Certificate(Annotation(op[c], s))})
  /\ UNCHANGED <<unsure, op>>

Remove(c) ==
  /\ Changes(c) /\ Admissible(op[c]) /\ op[c].kind = "remove"
  /\ store' = [store EXCEPT ![op[c].uuid] = None]
  /\ Reply(c, "done", {})
  /\ UNCHANGED <<unsure, op>>

\* What the tile of request r may show: "seen" are the uuids found there.
Shows(seen, r) ==
  \A u \in Uuids \ unsure : u \in seen <=> store[u] # None /\ Lies(store[u], r.tile)
Look(c) ==
  /\ Waits(c) /\ op[c].kind = "read"
  /\ \E seen \in SUBSET Uuids :
       /\ Shows(seen, op[c])
       /\ Reply(c, "done", {store[u] : u \in {v \in seen : store[v] # None}})
  /\ UNCHANGED <<store, unsure, op>>

\* The storage fails: the change took place or not, and this one annotation is unsure.
Break(c) ==
  /\ Changes(c) /\ Admissible(op[c])
  /\ unsure' = unsure \cup {op[c].uuid}
  /\ \/ UNCHANGED store
     \/ \E s \in Stamps : /\ op[c].kind # "remove"
                          /\ store' = [store EXCEPT ![op[c].uuid] = Annotation(op[c], s)]
  /\ \/ UNCHANGED answer
     \/ Reply(c, "failed", {})
     \/ op[c].kind = "remove" /\ Reply(c, "done", {})
  /\ UNCHANGED op

GiveUp(c) == Waits(c) /\ Reply(c, "failed", {}) /\ UNCHANGED <<store, unsure, op>>

Take(c) ==
  /\ answer[c] # None
  /\ op' = [op EXCEPT ![c] = None]
  /\ answer' = [answer EXCEPT ![c] = None]
  /\ UNCHANGED <<store, unsure>>

Next == \E c \in Clients :
  Ask(c) \/ Refuse(c) \/ Put(c) \/ Remove(c) \/ Look(c) \/ Break(c) \/ GiveUp(c) \/ Take(c)

Spec == Init /\ [][Next]_vars
=============================================================================
