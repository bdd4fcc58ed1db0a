-------------------------- MODULE AnnotationService --------------------------
(***************************************************************************)
(* The annotation service of one layer.  An annotation is kept twice: its  *)
(* data in a file named by its uuid, and its certificate (uuid and time    *)
(* stamp) in a bin of every tile it lies in, so that a tile can be read    *)
(* without reading the annotations.  The two are written one after the     *)
(* other, under one read/write lock.                                       *)
(*                                                                         *)
(* A place stands for the coordinates and levels of an annotation, and     *)
(* Cover[p] for the tiles and bins the indexer finds for it.  A tile file  *)
(* is the set of its entries; a tile without entries has no file.          *)
(***************************************************************************)
EXTENDS Naturals

CONSTANTS
  Clients, Uuids, Groups, Places, Tiles, Bins, None,
  Cover,         \* place -> pairs of a tile and a bin
  MaxTime,       \* bound: the last reading of the clock
  MaxFailures    \* bound: failures of the storage

Stamps == 0 .. MaxTime
Requests ==
  [kind : {"write", "modify"}, uuid : Uuids, place : Places, group : Groups, stamp : Stamps]
    \cup [kind : {"remove"}, uuid : Uuids, stamp : Stamps]
    \cup [kind : {"read"}, tile : Tiles]

Annotations == [uuid : Uuids, place : Places, group : Groups, stamp : Stamps]
Answers == [is : {"done", "refused", "failed"},
            found : SUBSET (Annotations \cup [uuid : Uuids, stamp : Stamps])]

ASSUME CoverAssumption ==
  /\ Cover \in [Places -> SUBSET (Tiles \X Bins)]
  /\ \A p \in Places : \A x, y \in Cover[p] : x[1] = y[1] => x = y
ASSUME NoneAssumption ==
  /\ None \notin Requests /\ None \notin Annotations /\ None \notin Answers
ASSUME BoundAssumption == MaxTime \in Nat /\ MaxFailures \in Nat

VARIABLES
  data,       \* uuid -> the annotation in its file, or None
  entries,    \* the certificates in the tile files
  op,         \* client -> its request, or None
  pc,         \* client -> what its thread does next
  fresh,      \* client -> the stamp its annotation is written with
  seen,       \* client -> the uuids a read found in the tile
  answer,     \* client -> what it was answered and has not taken yet, or None
  now,        \* the clock
  broken,     \* history: the uuids of changes that a failure interrupted
  failures    \* how many failures there were

store == <<data, entries>>
vars == <<store, op, pc, fresh, seen, answer, now, broken, failures>>

Annotation(r, s) == [uuid |-> r.uuid, place |-> r.place, group |-> r.group, stamp |-> s]
Certificate(a) == [uuid |-> a.uuid, stamp |-> a.stamp]
Lies(a, t) == \E x \in Cover[a.place] : x[1] = t

\* The entries of annotation a in the tiles it lies in.
Entries(a) ==
  {[tile |-> x[1], bin |-> x[2], group |-> a.group, uuid |-> a.uuid, stamp |-> a.stamp] :
     x \in Cover[a.place]}

\* A tile is saved as JSON, bin -> group -> uuid -> stamp, from lists with the newest
\* certificate first: of two certificates of one uuid the last put stays, the oldest.
SameKey(e, f) == e.tile = f.tile /\ e.bin = f.bin /\ e.group = f.group /\ e.uuid = f.uuid
Saved(S) == {e \in S : \A f \in S : SameKey(e, f) => e.stamp <= f.stamp}

Init ==
  /\ data = [u \in Uuids |-> None]
  /\ entries = {}
  /\ op = [c \in Clients |-> None]
  /\ pc = [c \in Clients |-> "idle"]
  /\ fresh = [c \in Clients |-> None]
  /\ seen = [c \in Clients |-> {}]
  /\ answer = [c \in Clients |-> None]
  /\ now = 0
  /\ broken = {}
  /\ failures = 0

Tick == now < MaxTime /\ now' = now + 1
        /\ UNCHANGED <<store, op, pc, fresh, seen, answer, broken, failures>>

Go(c, place) == pc' = [pc EXCEPT ![c] = place]

\* The lock is left in the finally block, and the request answered.
Answer(c, is, found) ==
  /\ answer' = [answer EXCEPT ![c] = [is |-> is, found |-> found]]
  /\ fresh' = [fresh EXCEPT ![c] = None]
  /\ seen' = [seen EXCEPT ![c] = {}]
  /\ Go(c, "answered")

\* A client writes with a stamp of its own only if it has one, from the past or now.
Request(c, r) ==
  /\ pc[c] = "idle"
  /\ r.kind # "read" => r.stamp <= now
  /\ op' = [op EXCEPT ![c] = r]
  /\ Go(c, "wait")
  /\ UNCHANGED <<store, fresh, seen, answer, now, broken, failures>>

Take(c) ==
  /\ pc[c] = "answered"
  /\ op' = [op EXCEPT ![c] = None]
  /\ answer' = [answer EXCEPT ![c] = None]
  /\ Go(c, "idle")
  /\ UNCHANGED <<store, fresh, seen, now, broken, failures>>

(***************************************************************************)
(* The lock: one writer, or readers.                                       *)
(***************************************************************************)
Reads(c) == op[c] # None /\ op[c].kind = "read"
Holds(c) == pc[c] \notin {"idle", "wait", "answered"}
\* Mutant: reads take no lock.
MayLockUnread(c) == Reads(c) \/ \A d \in Clients : Holds(d) => Reads(d)
MayLock(c) == \A d \in Clients : Holds(d) => Reads(c) /\ Reads(d)

Lock(c) ==
  /\ pc[c] = "wait" /\ MayLock(c)
  /\ Go(c, IF Reads(c) THEN "look" ELSE "check")
  /\ UNCHANGED <<store, op, fresh, seen, answer, now, broken, failures>>

(***************************************************************************)
(* A change is checked: a write against the uuids in use, others against   *)
(* the stamp of what is stored.                                            *)
(***************************************************************************)
Stored(c) == data[op[c].uuid]
Collision(c) == Stored(c) # None
OutOfDate(c) == Stored(c) = None \/ Stored(c).stamp # op[c].stamp
Refused(c) == IF op[c].kind = "write" THEN Collision(c) ELSE OutOfDate(c)

Check(c) ==
  /\ pc[c] = "check"
  /\ IF Refused(c) THEN Answer(c, "refused", {})
     ELSE /\ Go(c, IF op[c].kind = "write" THEN "add" ELSE "strip")
          /\ UNCHANGED <<fresh, seen, answer>>
  /\ UNCHANGED <<store, op, now, broken, failures>>

(***************************************************************************)
(* The stored annotation is taken out of its tiles: those with entries     *)
(* left are written, then the others are deleted.  A tile that is there    *)
(* but has nothing in the annotation's bin is a null pointer, before       *)
(* anything was written.                                                   *)
(***************************************************************************)
InTile(t) == {e \in entries : e.tile = t}
\* Mutant: a modification is taken out of the tiles of its new place.
OldPlace(c) == Entries(IF op[c].kind = "modify" THEN Annotation(op[c], op[c].stamp) ELSE Stored(c))
Old(c) == Entries(Stored(c))
NoBin(c) == \E x \in Cover[Stored(c).place] :
  InTile(x[1]) # {} /\ \A e \in InTile(x[1]) : e.bin # x[2]
Touched(c) == {t \in Tiles : InTile(t) # {} /\ Lies(Stored(c), t)}
Emptied(c) == {t \in Touched(c) : InTile(t) \subseteq Old(c)}
OldIn(c, T) == {e \in Old(c) : e.tile \in T}

Strip(c) ==
  /\ pc[c] = "strip"
  /\ IF NoBin(c) THEN Answer(c, "refused", {}) /\ UNCHANGED store
     ELSE /\ entries' = entries \ OldIn(c, Touched(c) \ Emptied(c))
          /\ Go(c, "drop")
          /\ UNCHANGED <<data, fresh, seen, answer>>
  /\ UNCHANGED <<op, now, broken, failures>>

AfterDrop(c) == IF op[c].kind = "remove" THEN "erase" ELSE "add"
Drop(c) ==
  /\ pc[c] = "drop"
  /\ entries' = entries \ OldIn(c, Emptied(c))
  /\ Go(c, AfterDrop(c))
  /\ UNCHANGED <<data, op, fresh, seen, answer, now, broken, failures>>

(***************************************************************************)
(* The new annotation, with the stamp of its certificate or of a new one,  *)
(* is added to its tiles; then its data are written.                       *)
(***************************************************************************)
NewStamp(c) == IF op[c].kind = "write" THEN op[c].stamp ELSE now
Added(c) == Entries(Annotation(op[c], NewStamp(c)))

Add(c) ==
  /\ pc[c] = "add"
  /\ entries' = Saved(entries \cup Added(c))
  /\ fresh' = [fresh EXCEPT ![c] = NewStamp(c)]
  /\ Go(c, "put")
  /\ UNCHANGED <<data, op, seen, answer, now, broken, failures>>

New(c) == Annotation(op[c], fresh[c])
Put(c) ==
  /\ pc[c] = "put"
  /\ data' = [data EXCEPT ![op[c].uuid] = New(c)]
  /\ Answer(c, "done", {Certificate(New(c))})
  /\ UNCHANGED <<entries, op, now, broken, failures>>

Erase(c) ==
  /\ pc[c] = "erase"
  /\ data' = [data EXCEPT ![op[c].uuid] = None]
  /\ Answer(c, "done", {})
  /\ UNCHANGED <<entries, op, now, broken, failures>>

(***************************************************************************)
(* A read: the certificates of the tile, then the data of each that has    *)
(* any.                                                                    *)
(***************************************************************************)
Look(c) ==
  /\ pc[c] = "look"
  /\ seen' = [seen EXCEPT ![c] = {e.uuid : e \in InTile(op[c].tile)}]
  /\ Go(c, "fetch")
  /\ UNCHANGED <<store, op, fresh, answer, now, broken, failures>>

Fetch(c) ==
  /\ pc[c] = "fetch"
  /\ Answer(c, "done", {data[u] : u \in {v \in seen[c] : data[v] # None}})
  /\ UNCHANGED <<store, op, now, broken, failures>>

(***************************************************************************)
(* The storage fails.  An exception ends the request where it is; of the   *)
(* files of its step some are written.  A file that cannot be deleted is   *)
(* no exception: the request goes on.                                      *)
(***************************************************************************)
Failing == failures < MaxFailures /\ failures' = failures + 1

FailsUnchanged(c) ==
  /\ pc[c] \in {"check", "look", "fetch"}
  /\ Failing
  /\ Answer(c, "failed", {})
  /\ UNCHANGED <<store, op, now, broken>>

PartOf(c) == \E T \in SUBSET Tiles :
  \/ pc[c] = "strip" /\ ~NoBin(c) /\ entries' = entries \ OldIn(c, T \ Emptied(c)) /\ UNCHANGED data
  \/ pc[c] = "drop" /\ entries' = entries \ OldIn(c, T \cap Emptied(c)) /\ UNCHANGED data
  \/ /\ pc[c] = "add"
     /\ entries' = Saved(entries \cup {e \in Added(c) : e.tile \in T})
     /\ UNCHANGED data
  \/ pc[c] = "put" /\ UNCHANGED store
  \/ pc[c] = "erase" /\ UNCHANGED store

Fails(c) ==
  /\ Failing
  /\ PartOf(c)
  /\ broken' = broken \cup {op[c].uuid}
  /\ Answer(c, "failed", {})
  /\ UNCHANGED <<op, now>>

NotDropped(c) ==
  /\ pc[c] = "drop"
  /\ Failing
  /\ \E T \in SUBSET Emptied(c) : entries' = entries \ OldIn(c, T)
  /\ broken' = broken \cup {op[c].uuid}
  /\ Go(c, AfterDrop(c))
  /\ UNCHANGED <<data, op, fresh, seen, answer, now>>

NotErased(c) ==
  /\ pc[c] = "erase"
  /\ Failing
  /\ broken' = broken \cup {op[c].uuid}
  /\ Answer(c, "done", {})
  /\ UNCHANGED <<store, op, now>>

Step(c) ==
  \/ \E r \in Requests : Request(c, r)
  \/ Take(c) \/ Lock(c) \/ Check(c) \/ Strip(c) \/ Drop(c) \/ Add(c) \/ Put(c) \/ Erase(c)
  \/ Look(c) \/ Fetch(c)
  \/ FailsUnchanged(c) \/ Fails(c) \/ NotDropped(c) \/ NotErased(c)

Next == Tick \/ \E c \in Clients : Step(c)

Spec == Init /\ [][Next]_vars

(***************************************************************************)
(* What has to hold.                                                       *)
(***************************************************************************)
\* The tiles and the data agree: the entries of an annotation are exactly those of its data,
\* in every tile and with its stamp, unless a change of it is under way or was interrupted
\* (addDataToTiles, removeDataFromTiles).
Changing(u) == \E c \in Clients : Holds(c) /\ ~Reads(c) /\ op[c].uuid = u
EntriesOf(u) == {e \in entries : e.uuid = u}
Coherent == \A u \in Uuids \ broken :
  ~Changing(u) => EntriesOf(u) = IF data[u] = None THEN {} ELSE Entries(data[u])

\* To its clients the service is a store without tiles: a change is refused exactly when its
\* certificate is not that of the annotation, takes effect at once, and a tile shows exactly
\* the annotations that lie in it, at one moment between the request and its answer.
Store == INSTANCE AnnotationStore WITH store <- data, unsure <- broken
ImplementsStore == Store!Spec
=============================================================================
