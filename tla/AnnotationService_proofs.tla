---------------------- MODULE AnnotationService_proofs ----------------------
(***************************************************************************)
(* Tiles and data of the annotation service agree, and the service         *)
(* implements a store without tiles, for any clients, annotations, tiles   *)
(* and covers, any clock and any number of failures.                       *)
(***************************************************************************)
EXTENDS AnnotationService, TLAPS

(***************************************************************************)
(* The invariant: types; what a thread at each place has in hand; one      *)
(* writer or readers; the check of a change stands until it takes effect;  *)
(* what is in the tiles, by how far the change of an annotation has come;  *)
(* and what a reader has found there.                                      *)
(***************************************************************************)
Writing == {"check", "strip", "drop", "add", "put", "erase"}
Reading == {"look", "fetch"}
Points == {"idle", "wait", "answered"} \cup Writing \cup Reading
Certificates == [uuid : Uuids, stamp : Stamps]

Types ==
  /\ data \in [Uuids -> Annotations \cup {None}]
  /\ \A u \in Uuids : data[u] # None => data[u].uuid = u
  /\ op \in [Clients -> Requests \cup {None}]
  /\ pc \in [Clients -> Points]
  /\ fresh \in [Clients -> Stamps \cup {None}]
  /\ seen \in [Clients -> SUBSET Uuids]
  /\ answer \in [Clients -> Answers \cup {None}]
  /\ now \in Stamps
  /\ broken \subseteq Uuids
  /\ \A e \in entries : e.uuid \in Uuids

Hand(c) ==
  /\ op[c] = None <=> pc[c] = "idle"
  /\ answer[c] # None <=> pc[c] = "answered"
  /\ pc[c] \in Reading => op[c].kind = "read"
  /\ pc[c] \in Writing => op[c].kind # "read"
  /\ pc[c] \in {"strip", "drop"} => op[c].kind \in {"modify", "remove"}
  /\ pc[c] = "erase" => op[c].kind = "remove"
  /\ pc[c] \in {"add", "put"} => op[c].kind \in {"write", "modify"}
  /\ pc[c] = "put" => /\ fresh[c] \in Stamps
                      /\ op[c].kind = "write" => fresh[c] = op[c].stamp
Hands == \A c \in Clients : Hand(c)

OneWriter == \A c, d \in Clients : pc[c] \in Writing /\ pc[d] \in Writing \cup Reading => c = d

Accepted == \A c \in Clients : pc[c] \in Writing \ {"check"} => ~Refused(c)

Expected(u) == IF data[u] = None THEN {} ELSE Entries(data[u])
Mid == {"drop", "add", "put", "erase"}
\* The change of c has come so far.
Dropping(c) == \A e \in EntriesOf(op[c].uuid) : e \in Old(c) /\ InTile(e.tile) \subseteq Old(c)
Halfway(c) ==
  /\ pc[c] = "drop" => Dropping(c)
  /\ pc[c] \in {"add", "erase"} => EntriesOf(op[c].uuid) = {}
  /\ pc[c] = "put" => EntriesOf(op[c].uuid) = Entries(New(c))
AtRest(u) == \A c \in Clients : pc[c] \in Mid => op[c].uuid # u
Tidy(u) ==
  /\ AtRest(u) => EntriesOf(u) = Expected(u)
  /\ \A c \in Clients : pc[c] \in Mid /\ op[c].uuid = u => Halfway(c)
AllTidy == \A u \in Uuids \ broken : Tidy(u)

Found == \A c \in Clients : pc[c] = "fetch" =>
  \A u \in Uuids \ broken : u \in seen[c] <=> data[u] # None /\ Lies(data[u], op[c].tile)

StoreInv == Types /\ Hands /\ OneWriter /\ Accepted /\ AllTidy /\ Found

(***************************************************************************)
(* Facts about requests, annotations and their entries.                    *)
(***************************************************************************)
LEMMA EntryFields ==
  ASSUME NEW a, NEW e \in Entries(a)
  PROVE  /\ e.uuid = a.uuid /\ e.stamp = a.stamp /\ e.group = a.group
         /\ \E x \in Cover[a.place] : x[1] = e.tile /\ x[2] = e.bin
  BY DEF Entries

LEMMA EntryOf ==
  ASSUME NEW a, NEW x \in Cover[a.place]
  PROVE  \E e \in Entries(a) : e.tile = x[1] /\ e.bin = x[2]
<1> DEFINE e == [tile |-> x[1], bin |-> x[2], group |-> a.group, uuid |-> a.uuid,
                 stamp |-> a.stamp]
<1>1. e \in Entries(a)
  BY DEF Entries
<1>2. e.tile = x[1] /\ e.bin = x[2]
  OBVIOUS
<1>3. QED
  BY <1>1, <1>2

LEMMA SameEntry ==
  ASSUME NEW a, NEW e \in Entries(a), NEW f \in Entries(a), SameKey(e, f)
  PROVE  e.stamp = f.stamp
  BY EntryFields

LEMMA RequestFields ==
  ASSUME Types, NEW c \in Clients, op[c] # None
  PROVE  /\ op[c] \in Requests
         /\ op[c].kind \in {"write", "modify", "remove", "read"}
         /\ op[c].kind # "read" => op[c].uuid \in Uuids /\ op[c].stamp \in Stamps
         /\ op[c].kind = "read" => op[c].tile \in Tiles
         /\ op[c].kind \in {"write", "modify"} => op[c].place \in Places /\ op[c].group \in Groups
<1>1. op[c] \in Requests
  BY DEF Types
<1>2. CASE op[c] \in [kind : {"write", "modify"}, uuid : Uuids, place : Places,
                       group : Groups, stamp : Stamps]
  BY <1>1, <1>2
<1>3. CASE op[c] \in [kind : {"remove"}, uuid : Uuids, stamp : Stamps]
  BY <1>1, <1>3
<1>4. CASE op[c] \in [kind : {"read"}, tile : Tiles]
  BY <1>1, <1>4
<1>5. QED
  BY <1>1, <1>2, <1>3, <1>4 DEF Requests

LEMMA AnnotationType ==
  ASSUME Types, NEW c \in Clients, op[c] # None, op[c].kind \in {"write", "modify"},
         NEW s \in Stamps
  PROVE  /\ Annotation(op[c], s) \in Annotations /\ Annotation(op[c], s) # None
         /\ Annotation(op[c], s).uuid = op[c].uuid
<1>1. op[c].uuid \in Uuids /\ op[c].place \in Places /\ op[c].group \in Groups
  BY RequestFields
<1>2. Annotation(op[c], s) \in Annotations
  BY <1>1 DEF Annotation, Annotations
<1>3. Annotation(op[c], s).uuid = op[c].uuid
  BY DEF Annotation
<1>4. QED
  BY <1>2, <1>3, NoneAssumption

LEMMA StoredType ==
  ASSUME Types, NEW u \in Uuids, data[u] # None
  PROVE  data[u] \in Annotations /\ data[u].uuid = u /\ data[u].stamp \in Stamps
<1>1. data[u] \in Annotations /\ data[u].uuid = u
  BY DEF Types
<1>2. QED
  BY <1>1 DEF Annotations


(***************************************************************************)
(* Types.                                                                  *)
(***************************************************************************)
LEMMA AnswerTyped ==
  ASSUME Types, NEW c \in Clients, NEW is \in {"done", "refused", "failed"},
         NEW found \in SUBSET (Annotations \cup Certificates), Answer(c, is, found)
  PROVE  /\ answer' \in [Clients -> Answers \cup {None}]
         /\ fresh' \in [Clients -> Stamps \cup {None}]
         /\ seen' \in [Clients -> SUBSET Uuids]
         /\ pc' \in [Clients -> Points]
         /\ answer'[c] # None
<1>1. [is |-> is, found |-> found] \in Answers
  BY DEF Answers, Certificates
<1>2. answer' = [answer EXCEPT ![c] = [is |-> is, found |-> found]]
  BY DEF Answer
<1>3. answer' \in [Clients -> Answers \cup {None}] /\ answer'[c] # None
  BY <1>1, <1>2, NoneAssumption DEF Types
<1>4. fresh' \in [Clients -> Stamps \cup {None}] /\ seen' \in [Clients -> SUBSET Uuids]
  BY DEF Answer, Types
<1>5. pc' \in [Clients -> Points]
  BY DEF Answer, Go, Types, Points
<1>6. QED
  BY <1>3, <1>4, <1>5

LEMMA WrittenTyped ==
  ASSUME Types, NEW u \in Uuids, NEW a \in Annotations \cup {None}, a # None => a.uuid = u,
         data' = [data EXCEPT ![u] = a]
  PROVE  /\ data' \in [Uuids -> Annotations \cup {None}]
         /\ \A v \in Uuids : data'[v] # None => data'[v].uuid = v
  BY DEF Types

LEMMA GoTyped ==
  ASSUME Types, NEW c \in Clients, NEW p \in Points, Go(c, p)
  PROVE  pc' \in [Clients -> Points]
  BY DEF Types, Go

\* What the places of a thread say of its request.
LEMMA InHand ==
  ASSUME Types, Hands, NEW c \in Clients
  PROVE  /\ pc[c] \in Writing => /\ op[c] # None /\ op[c].kind # "read"
                                 /\ op[c].kind \in {"write", "modify", "remove"}
                                 /\ op[c].uuid \in Uuids /\ op[c].stamp \in Stamps
                                 /\ answer[c] = None
         /\ pc[c] \in Reading => /\ op[c] # None /\ op[c].kind = "read" /\ op[c].tile \in Tiles
                                 /\ answer[c] = None
<1>1. Hand(c)
  BY DEF Hands
<1>2. CASE pc[c] \in Writing
  <2>1. op[c] # None /\ op[c].kind # "read" /\ answer[c] = None
    BY <1>1, <1>2 DEF Hand, Writing
  <2>2. QED
    BY <1>2, <2>1, RequestFields DEF Writing, Reading
<1>3. CASE pc[c] \in Reading
  <2>1. op[c] # None /\ op[c].kind = "read" /\ answer[c] = None
    BY <1>1, <1>3 DEF Hand, Reading
  <2>2. QED
    BY <1>3, <2>1, RequestFields DEF Writing, Reading
<1>4. QED
  BY <1>2, <1>3

\* An annotation that is added or written has its type.
LEMMA AddedTyped ==
  ASSUME Types, Hands, NEW c \in Clients, pc[c] = "add"
  PROVE  /\ NewStamp(c) \in Stamps
         /\ \A e \in Added(c) : e.uuid = op[c].uuid /\ e.uuid \in Uuids
<1>1. op[c].uuid \in Uuids /\ op[c].stamp \in Stamps
  BY InHand DEF Writing
<1>2. NewStamp(c) \in Stamps
  BY <1>1 DEF NewStamp, Types
<1>3. Annotation(op[c], NewStamp(c)).uuid = op[c].uuid
  BY DEF Annotation
<1>4. QED
  BY <1>1, <1>2, <1>3, EntryFields DEF Added

LEMMA NewTyped ==
  ASSUME Types, Hands, NEW c \in Clients, pc[c] = "put"
  PROVE  /\ op[c].uuid \in Uuids /\ fresh[c] \in Stamps
         /\ New(c) \in Annotations /\ New(c) # None /\ New(c).uuid = op[c].uuid
         /\ New(c).stamp = fresh[c]
         /\ {Certificate(New(c))} \subseteq Certificates
<1>1. Hand(c)
  BY DEF Hands
<1>2. op[c] # None /\ op[c].kind \in {"write", "modify"} /\ fresh[c] \in Stamps
  BY <1>1 DEF Hand
<1>3. op[c].uuid \in Uuids
  BY <1>2, RequestFields
<1>4. New(c) \in Annotations /\ New(c) # None /\ New(c).uuid = op[c].uuid
  BY <1>2, AnnotationType DEF New
<1>5. New(c).stamp = fresh[c]
  BY DEF New, Annotation
<1>6. QED
  BY <1>2, <1>3, <1>4, <1>5 DEF Certificate, Certificates

LEMMA TypesStep == Types /\ Hands /\ [Next]_vars => Types'
<1> SUFFICES ASSUME Types, Hands, [Next]_vars PROVE Types'
  OBVIOUS
<1>1. CASE UNCHANGED vars
  BY <1>1 DEF Types, vars, store
<1>2. CASE Tick
  BY <1>2, BoundAssumption DEF Types, Tick, Stamps, store
<1>3. ASSUME NEW c \in Clients, Step(c)
      PROVE  Types'
  <2>1. ASSUME NEW r \in Requests, Request(c, r)
        PROVE  Types'
    <3>1. op' \in [Clients -> Requests \cup {None}]
      BY <2>1 DEF Request, Types
    <3>2. pc' \in [Clients -> Points]
      BY <2>1, GoTyped DEF Request, Points
    <3>3. QED
      BY <2>1, <3>1, <3>2 DEF Request, Types, store
  <2>2. CASE Take(c)
    <3>1. /\ op' \in [Clients -> Requests \cup {None}]
          /\ answer' \in [Clients -> Answers \cup {None}]
      BY <2>2 DEF Take, Types
    <3>2. pc' \in [Clients -> Points]
      BY <2>2, GoTyped DEF Take, Points
    <3>3. QED
      BY <2>2, <3>1, <3>2 DEF Take, Types, store
  <2>3. CASE Lock(c)
    <3>1. pc' \in [Clients -> Points]
      BY <2>3, GoTyped DEF Lock, Points, Reading, Writing
    <3>2. QED
      BY <2>3, <3>1 DEF Lock, Types, store
  <2>4. CASE Check(c)
    <3>1. CASE Refused(c)
      <4>1. Answer(c, "refused", {})
        BY <2>4, <3>1 DEF Check
      <4>2. QED
        BY <2>4, <4>1, AnswerTyped DEF Check, Types, store
    <3>2. CASE ~Refused(c)
      <4>1. pc' \in [Clients -> Points]
        BY <2>4, <3>2, GoTyped DEF Check, Points, Writing
      <4>2. QED
        BY <2>4, <3>2, <4>1 DEF Check, Types, store
    <3>3. QED
      BY <3>1, <3>2
  <2>5. CASE Strip(c)
    <3>1. CASE NoBin(c)
      <4>1. Answer(c, "refused", {})
        BY <2>5, <3>1 DEF Strip
      <4>2. QED
        BY <2>5, <3>1, <4>1, AnswerTyped DEF Strip, Types, store
    <3>2. CASE ~NoBin(c)
      <4>1. pc' \in [Clients -> Points]
        BY <2>5, <3>2, GoTyped DEF Strip, Points, Writing
      <4>2. entries' \subseteq entries
        BY <2>5, <3>2 DEF Strip
      <4>3. QED
        BY <2>5, <3>2, <4>1, <4>2 DEF Strip, Types
    <3>3. QED
      BY <3>1, <3>2
  <2>6. CASE Drop(c)
    <3>1. pc' \in [Clients -> Points]
      BY <2>6, GoTyped DEF Drop, AfterDrop, Points, Writing
    <3>2. entries' \subseteq entries
      BY <2>6 DEF Drop
    <3>3. QED
      BY <2>6, <3>1, <3>2 DEF Drop, Types
  <2>7. CASE Add(c)
    <3>1. pc' \in [Clients -> Points]
      BY <2>7, GoTyped DEF Add, Points, Writing
    <3>2. entries' \subseteq entries \cup Added(c)
      BY <2>7 DEF Add, Saved
    <3>3. NewStamp(c) \in Stamps /\ \A e \in Added(c) : e.uuid \in Uuids
      BY <2>7, AddedTyped DEF Add
    <3>4. fresh' \in [Clients -> Stamps \cup {None}]
      BY <2>7, <3>3 DEF Add, Types
    <3>5. \A e \in entries' : e.uuid \in Uuids
      BY <3>2, <3>3 DEF Types
    <3>6. QED
      BY <2>7, <3>1, <3>4, <3>5 DEF Add, Types
  <2>8. CASE Put(c)
    <3>1. /\ op[c].uuid \in Uuids /\ New(c) \in Annotations /\ New(c).uuid = op[c].uuid
          /\ {Certificate(New(c))} \subseteq Certificates
      BY <2>8, NewTyped DEF Put
    <3>2. /\ data' \in [Uuids -> Annotations \cup {None}]
          /\ \A v \in Uuids : data'[v] # None => data'[v].uuid = v
      BY <2>8, <3>1, WrittenTyped DEF Put
    <3>3. Answer(c, "done", {Certificate(New(c))})
      BY <2>8 DEF Put
    <3>4. QED
      BY <2>8, <3>1, <3>2, <3>3, AnswerTyped DEF Put, Types
  <2>9. CASE Erase(c)
    <3>1. op[c].uuid \in Uuids
      BY <2>9, InHand DEF Erase, Writing
    <3>2. /\ data' \in [Uuids -> Annotations \cup {None}]
          /\ \A v \in Uuids : data'[v] # None => data'[v].uuid = v
      BY <2>9, <3>1, WrittenTyped DEF Erase
    <3>3. Answer(c, "done", {})
      BY <2>9 DEF Erase
    <3>4. QED
      BY <2>9, <3>2, <3>3, AnswerTyped DEF Erase, Types
  <2>10. CASE Look(c)
    <3>1. pc' \in [Clients -> Points]
      BY <2>10, GoTyped DEF Look, Points, Reading
    <3>2. {e.uuid : e \in InTile(op[c].tile)} \subseteq Uuids
      BY DEF Types, InTile
    <3>3. seen' \in [Clients -> SUBSET Uuids]
      BY <2>10, <3>2 DEF Look, Types
    <3>4. QED
      BY <2>10, <3>1, <3>3 DEF Look, Types, store
  <2>11. CASE Fetch(c)
    <3>1. {data[u] : u \in {v \in seen[c] : data[v] # None}} \subseteq Annotations
      BY DEF Types
    <3>2. Answer(c, "done", {data[u] : u \in {v \in seen[c] : data[v] # None}})
      BY <2>11 DEF Fetch
    <3>3. QED
      BY <2>11, <3>1, <3>2, AnswerTyped DEF Fetch, Types, store
  <2>12. CASE FailsUnchanged(c)
    <3>1. Answer(c, "failed", {})
      BY <2>12 DEF FailsUnchanged
    <3>2. QED
      BY <2>12, <3>1, AnswerTyped DEF FailsUnchanged, Types, store
  <2>13. CASE Fails(c)
    <3>1. Answer(c, "failed", {})
      BY <2>13 DEF Fails
    <3>2. UNCHANGED data /\ pc[c] \in Writing
      BY <2>13 DEF Fails, PartOf, store, Writing
    <3>3. \A e \in entries' : e.uuid \in Uuids
      <4>1. CASE pc[c] = "add"
        <5>1. entries' \subseteq entries \cup Added(c)
          BY <2>13, <4>1 DEF Fails, PartOf, Saved
        <5>2. QED
          BY <4>1, <5>1, AddedTyped DEF Types
      <4>2. CASE pc[c] # "add"
        <5>1. entries' \subseteq entries
          BY <2>13, <4>2 DEF Fails, PartOf, store
        <5>2. QED
          BY <5>1 DEF Types
      <4>3. QED
        BY <4>1, <4>2
    <3>4. broken' \subseteq Uuids
      BY <2>13, <3>2, InHand DEF Fails, Types
    <3>5. QED
      BY <2>13, <3>1, <3>2, <3>3, <3>4, AnswerTyped DEF Fails, Types
  <2>14. CASE NotDropped(c)
    <3>1. pc' \in [Clients -> Points]
      BY <2>14, GoTyped DEF NotDropped, AfterDrop, Points, Writing
    <3>2. entries' \subseteq entries
      BY <2>14 DEF NotDropped
    <3>3. broken' \subseteq Uuids
      BY <2>14, InHand DEF NotDropped, Types, Writing
    <3>4. QED
      BY <2>14, <3>1, <3>2, <3>3 DEF NotDropped, Types
  <2>15. CASE NotErased(c)
    <3>1. Answer(c, "done", {})
      BY <2>15 DEF NotErased
    <3>2. broken' \subseteq Uuids
      BY <2>15, InHand DEF NotErased, Types, Writing
    <3>3. QED
      BY <2>15, <3>1, <3>2, AnswerTyped DEF NotErased, Types, store
  <2>16. QED
    BY <1>3, <2>1, <2>2, <2>3, <2>4, <2>5, <2>6, <2>7, <2>8, <2>9, <2>10, <2>11, <2>12,
       <2>13, <2>14, <2>15 DEF Step
<1>4. QED
  BY <1>1, <1>2, <1>3 DEF Next

(***************************************************************************)
(* What a thread has in hand, one writer, and the check.                   *)
(***************************************************************************)
LEMMA HandElsewhere ==
  ASSUME NEW d \in Clients, Hand(d), pc'[d] = pc[d], op'[d] = op[d],
         answer'[d] = answer[d], fresh'[d] = fresh[d]
  PROVE  Hand(d)'
  BY DEF Hand

\* A step of c leaves the hands of the others alone.
Others(c) == \A d \in Clients \ {c} :
  pc'[d] = pc[d] /\ op'[d] = op[d] /\ answer'[d] = answer[d] /\ fresh'[d] = fresh[d]

LEMMA Answered ==
  ASSUME Types, NEW c \in Clients, NEW is \in {"done", "refused", "failed"},
         NEW found \in SUBSET (Annotations \cup Certificates), Answer(c, is, found),
         UNCHANGED op, op[c] # None
  PROVE  Hand(c)' /\ pc'[c] = "answered" /\ Others(c)
<1>1. pc'[c] = "answered"
  BY DEF Answer, Go, Types
<1>2. answer'[c] # None
  BY AnswerTyped
<1>3. Others(c)
  BY DEF Others, Answer, Go, Types
<1>4. QED
  BY <1>1, <1>2, <1>3 DEF Hand, Writing, Reading

\* Where a step of c takes it, and that its hand is right there.
Moves(c) ==
  /\ Hand(c)' /\ Others(c)
  /\ \/ pc'[c] \in {"idle", "wait", "answered"}
     \/ pc[c] \in Writing /\ pc'[c] \in Writing
     \/ pc[c] \in Reading /\ pc'[c] \in Reading
     \/ Lock(c)

LEMMA GoOn ==
  ASSUME Types, Hands, NEW c \in Clients, NEW p \in Points, Go(c, p),
         UNCHANGED <<op, answer, fresh>>,
         \/ pc[c] \in Writing \ {"put", "erase"} /\ p \in {"strip", "drop", "add", "erase"}
         \/ pc[c] = "look" /\ p = "fetch",
         p \in {"strip", "drop"} => op[c].kind \in {"modify", "remove"},
         p = "erase" => op[c].kind = "remove",
         p = "add" => op[c].kind \in {"write", "modify"}
  PROVE  Moves(c) /\ pc'[c] = p
<1>1. pc'[c] = p /\ Others(c)
  BY DEF Go, Types, Others
<1>2. Hand(c)
  BY DEF Hands
<1>3. Hand(c)'
  BY <1>1, <1>2 DEF Hand, Writing, Reading
<1>4. QED
  BY <1>1, <1>3 DEF Moves, Writing, Reading

LEMMA EachMoves ==
  ASSUME Types, Hands, NEW c \in Clients, Step(c)
  PROVE  Moves(c)
<1>0. Hand(c)
  BY DEF Hands
<1>e. {} \in SUBSET (Annotations \cup Certificates)
  OBVIOUS
<1>w. ASSUME pc[c] \in Writing, NEW is \in {"done", "refused", "failed"},
             NEW found \in SUBSET (Annotations \cup Certificates), Answer(c, is, found),
             UNCHANGED op
      PROVE  Moves(c)
  BY <1>w, InHand, Answered DEF Moves
<1>r. ASSUME pc[c] \in Reading, NEW is \in {"done", "refused", "failed"},
             NEW found \in SUBSET (Annotations \cup Certificates), Answer(c, is, found),
             UNCHANGED op
      PROVE  Moves(c)
  BY <1>r, InHand, Answered DEF Moves
<1>1. ASSUME NEW r \in Requests, Request(c, r)
      PROVE  Moves(c)
  <2>1. pc'[c] = "wait" /\ op'[c] = r /\ Others(c) /\ UNCHANGED <<answer, fresh>>
    BY <1>1 DEF Request, Go, Types, Others
  <2>2. Hand(c)'
    BY <1>0, <1>1, <2>1, NoneAssumption DEF Hand, Request, Writing, Reading
  <2>3. QED
    BY <2>1, <2>2 DEF Moves
<1>2. CASE Take(c)
  <2>1. pc'[c] = "idle" /\ op'[c] = None /\ answer'[c] = None /\ Others(c)
    BY <1>2 DEF Take, Go, Types, Others
  <2>2. Hand(c)'
    BY <2>1 DEF Hand, Writing, Reading
  <2>3. QED
    BY <2>1, <2>2 DEF Moves
<1>3. CASE Lock(c)
  <2>1. pc'[c] = (IF Reads(c) THEN "look" ELSE "check") /\ Others(c) /\ UNCHANGED <<op, answer, fresh>>
    BY <1>3 DEF Lock, Go, Types, Others
  <2>2. op[c] # None /\ answer[c] = None
    BY <1>0, <1>3 DEF Hand, Lock
  <2>3. Hand(c)'
    BY <2>1, <2>2 DEF Hand, Writing, Reading, Reads
  <2>4. QED
    BY <1>3, <2>1, <2>3 DEF Moves
<1>4. CASE Check(c)
  <2>1. CASE Refused(c)
    BY <1>4, <1>e, <1>w, <2>1 DEF Check, Writing
  <2>2. CASE ~Refused(c)
    <3> DEFINE p == IF op[c].kind = "write" THEN "add" ELSE "strip"
    <3>1. Go(c, p) /\ UNCHANGED <<op, answer, fresh>> /\ pc[c] \in Writing \ {"put", "erase"}
      BY <1>4, <2>2 DEF Check, Writing
    <3>2. op[c].kind \in {"write", "modify", "remove"}
      BY <3>1, InHand
    <3>3. p \in Points /\ p \in {"strip", "add"}
      BY DEF Points, Writing
    <3>4. QED
      BY <3>1, <3>2, <3>3, GoOn
  <2>3. QED
    BY <2>1, <2>2
<1>5. CASE Strip(c)
  <2>1. CASE NoBin(c)
    BY <1>5, <1>e, <1>w, <2>1 DEF Strip, Writing
  <2>2. CASE ~NoBin(c)
    BY <1>0, <1>5, <2>2, GoOn DEF Strip, Hand, Points, Writing
  <2>3. QED
    BY <2>1, <2>2
<1>6. ASSUME pc[c] = "drop", Go(c, AfterDrop(c)), UNCHANGED <<op, answer, fresh>>
      PROVE  Moves(c)
  <2>1. op[c].kind \in {"modify", "remove"}
    BY <1>0, <1>6 DEF Hand
  <2>2. AfterDrop(c) \in {"add", "erase"} /\ AfterDrop(c) \in Points
    BY DEF AfterDrop, Points, Writing
  <2>3. AfterDrop(c) = "erase" => op[c].kind = "remove"
    BY DEF AfterDrop
  <2>4. AfterDrop(c) = "add" => op[c].kind \in {"write", "modify"}
    BY <2>1 DEF AfterDrop
  <2>5. QED
    BY <1>6, <2>2, <2>3, <2>4, GoOn DEF Writing
<1>7. CASE Add(c)
  <2>1. pc'[c] = "put" /\ fresh'[c] = NewStamp(c) /\ Others(c) /\ UNCHANGED <<op, answer>>
    BY <1>7 DEF Add, Go, Types, Others
  <2>2. NewStamp(c) \in Stamps
    BY <1>7, AddedTyped DEF Add
  <2>3. Hand(c)'
    BY <1>0, <1>7, <2>1, <2>2 DEF Add, Hand, NewStamp, Writing, Reading
  <2>4. QED
    BY <1>7, <2>1, <2>3 DEF Moves, Add, Writing
<1>8. CASE Put(c)
  BY <1>8, <1>w, NewTyped DEF Put, Writing
<1>9. CASE Erase(c)
  BY <1>9, <1>e, <1>w DEF Erase, Writing
<1>10. CASE Look(c)
  BY <1>10, GoOn DEF Look, Points, Reading
<1>11. CASE Fetch(c)
  <2>1. {data[u] : u \in {v \in seen[c] : data[v] # None}} \subseteq Annotations
    BY DEF Types
  <2>2. QED
    BY <1>11, <1>r, <2>1 DEF Fetch, Reading
<1>12. CASE FailsUnchanged(c)
  BY <1>12, <1>e, <1>w, <1>r DEF FailsUnchanged, Writing, Reading
<1>13. CASE Fails(c)
  BY <1>13, <1>e, <1>w DEF Fails, PartOf, Writing
<1>14. CASE NotErased(c)
  BY <1>14, <1>e, <1>w DEF NotErased, Writing
<1>15. QED
  BY <1>1, <1>2, <1>3, <1>4, <1>5, <1>6, <1>7, <1>8, <1>9, <1>10, <1>11, <1>12, <1>13, <1>14
     DEF Step, Drop, NotDropped

LEMMA HandsStep ==
  ASSUME Types, Hands, [Next]_vars
  PROVE  Hands'
<1>1. CASE UNCHANGED vars
  BY <1>1 DEF vars, store, Hands, Hand
<1>2. CASE Tick
  BY <1>2 DEF Tick, store, Hands, Hand
<1>3. ASSUME NEW c \in Clients, Step(c)
      PROVE  Hands'
  <2>1. Moves(c)
    BY <1>3, EachMoves
  <2>2. ASSUME NEW d \in Clients, d # c
        PROVE  Hand(d)'
    BY <2>1, <2>2, HandElsewhere DEF Moves, Others, Hands
  <2>3. QED
    BY <2>1, <2>2 DEF Moves, Hands
<1>4. QED
  BY <1>1, <1>2, <1>3 DEF Next

LEMMA OneWriterStep ==
  ASSUME Types, Hands, OneWriter, [Next]_vars
  PROVE  OneWriter'
<1>1. CASE UNCHANGED vars \/ Tick
  BY <1>1 DEF vars, store, Tick, OneWriter
<1>2. ASSUME NEW c \in Clients, Step(c)
      PROVE  OneWriter'
  <2>1. Moves(c)
    BY <1>2, EachMoves
  <2>2. CASE Lock(c)
    <3>1. \A d \in Clients : pc[d] \in Writing \cup Reading => Reads(c) /\ Reads(d)
      BY <2>2 DEF Lock, MayLock, Holds, Writing, Reading
    <3>2. \A d \in Clients : pc[d] \in Writing => ~Reads(d)
      BY InHand DEF Reads
    <3>3. pc'[c] \in Writing => ~Reads(c)
      BY <2>2 DEF Lock, Go, Types, Writing
    <3>4. QED
      BY <2>1, <3>1, <3>2, <3>3 DEF Moves, Others, OneWriter
  <2>3. CASE ~Lock(c)
    BY <2>1, <2>3 DEF Moves, Others, OneWriter, Writing, Reading
  <2>4. QED
    BY <2>2, <2>3
<1>3. QED
  BY <1>1, <1>2 DEF Next

LEMMA StoreStays ==
  ASSUME NEW c \in Clients, Step(c)
  PROVE  /\ pc[c] \in Writing => UNCHANGED op
         /\ pc[c] \notin Writing => UNCHANGED <<store, broken>>
         /\ pc[c] \notin {"put", "erase"} => UNCHANGED data
         /\ broken \subseteq broken'
<1>1. CASE \/ \E r \in Requests : Request(c, r)
           \/ Take(c) \/ Lock(c) \/ Look(c) \/ Fetch(c)
  BY <1>1 DEF Request, Take, Lock, Look, Fetch, store, Writing
<1>2. CASE Check(c) \/ Strip(c) \/ Drop(c) \/ Add(c) \/ Put(c) \/ Erase(c)
  BY <1>2 DEF Check, Strip, Drop, Add, Put, Erase, store, Writing
<1>3. CASE FailsUnchanged(c) \/ Fails(c) \/ NotDropped(c) \/ NotErased(c)
  BY <1>3 DEF FailsUnchanged, Fails, PartOf, NotDropped, NotErased, store, Writing
<1>4. QED
  BY <1>1, <1>2, <1>3 DEF Step

LEMMA DataElsewhere ==
  ASSUME Types, NEW c \in Clients, Step(c), NEW u \in Uuids, pc[c] \in Writing => op[c].uuid # u
  PROVE  data'[u] = data[u]
<1>1. CASE Put(c) \/ Erase(c)
  BY <1>1 DEF Put, Erase, Types, Writing
<1>2. CASE ~(Put(c) \/ Erase(c))
  BY <1>2 DEF Step, Request, Take, Lock, Look, Fetch, Check, Strip, Drop, Add, FailsUnchanged,
              Fails, PartOf, NotDropped, NotErased, store
<1>3. QED
  BY <1>1, <1>2

LEMMA AcceptedStep ==
  ASSUME Types, Hands, OneWriter, Accepted, [Next]_vars
  PROVE  Accepted'
<1>1. CASE UNCHANGED vars \/ Tick
  BY <1>1 DEF vars, store, Tick, Accepted, Refused, Collision, OutOfDate, Stored
<1>2. ASSUME NEW c \in Clients, Step(c), NEW d \in Clients, pc'[d] \in Writing \ {"check"}
      PROVE  ~Refused(d)'
  <2>1. Moves(c)
    BY <1>2, EachMoves
  <2>2. CASE d = c
    <3>1. pc[c] \in Writing
      BY <1>2, <2>1, <2>2 DEF Moves, Lock, Go, Types, Writing, Reading
    <3>2. pc[c] \notin {"put", "erase"}
      BY <1>2, <2>2 DEF Step, Request, Take, Lock, Look, Fetch, Check, Strip, Drop, Add, Put,
         Erase, FailsUnchanged, Fails, NotDropped, NotErased, Answer, Go, Types, Writing
    <3>3. UNCHANGED op /\ UNCHANGED data
      BY <1>2, <3>1, <3>2, StoreStays
    <3>4. ~Refused(c)
      <4>1. CASE pc[c] = "check"
        <5>1. Check(c) \/ FailsUnchanged(c)
          BY <1>2, <4>1 DEF Step, Request, Take, Lock, Look, Fetch, Strip, Drop, Add, Put,
             Erase, Fails, PartOf, NotDropped, NotErased
        <5>2. pc'[c] # "answered"
          BY <1>2, <2>2 DEF Writing
        <5>3. QED
          BY <5>1, <5>2 DEF Check, FailsUnchanged, Answer, Go, Types
      <4>2. QED
        BY <3>1, <4>1 DEF Accepted
    <3>5. QED
      BY <2>2, <3>3, <3>4 DEF Refused, Collision, OutOfDate, Stored
  <2>3. CASE d # c
    <3>1. pc[d] = pc'[d] /\ op'[d] = op[d]
      BY <2>1, <2>3 DEF Moves, Others
    <3>2. pc[c] \notin Writing
      BY <1>2, <2>3, <3>1 DEF OneWriter
    <3>3. UNCHANGED data
      BY <1>2, <3>2, StoreStays DEF store
    <3>4. ~Refused(d)
      BY <1>2, <3>1 DEF Accepted
    <3>5. QED
      BY <3>1, <3>3, <3>4 DEF Refused, Collision, OutOfDate, Stored
  <2>4. QED
    BY <2>2, <2>3
<1>3. QED
  BY <1>1, <1>2 DEF Next, Accepted

(***************************************************************************)
(* Tiles.                                                                  *)
(***************************************************************************)
\* What is taken out or put in for one annotation leaves the entries of another alone.
LEMMA Removed ==
  ASSUME NEW u, NEW X, \A e \in X : e.uuid # u, entries' = entries \ X
  PROVE  EntriesOf(u)' = EntriesOf(u)
  BY DEF EntriesOf

LEMMA SavedElsewhere ==
  ASSUME NEW u, NEW a, EntriesOf(u) \subseteq Entries(a), NEW N, \A e \in N : e.uuid # u,
         EntriesOf(u) # {} => a.stamp \in Stamps, entries' = Saved(entries \cup N)
  PROVE  EntriesOf(u)' = EntriesOf(u)
<1>1. EntriesOf(u)' \subseteq EntriesOf(u)
  BY DEF EntriesOf, Saved
<1>2. ASSUME NEW e \in EntriesOf(u)
      PROVE  e \in entries'
  <2>1. e \in entries /\ e.uuid = u /\ e \in Entries(a) /\ e.stamp = a.stamp
    BY <1>2, EntryFields DEF EntriesOf
  <2>2. ASSUME NEW f \in entries \cup N, SameKey(e, f)
        PROVE  e.stamp <= f.stamp
    <3>1. f.uuid = u
      BY <2>1, <2>2 DEF SameKey
    <3>2. f \in EntriesOf(u)
      BY <2>2, <3>1 DEF EntriesOf
    <3>3. f.stamp = a.stamp
      BY <3>2, EntryFields
    <3>4. QED
      BY <1>2, <2>1, <3>3, BoundAssumption DEF Stamps
  <2>3. QED
    BY <2>1, <2>2 DEF Saved
<1>3. QED
  BY <1>1, <1>2 DEF EntriesOf

\* An annotation without entries gets exactly those that are added.
LEMMA SavedNew ==
  ASSUME NEW u, NEW a, a.uuid = u, a.stamp \in Stamps, EntriesOf(u) = {},
         entries' = Saved(entries \cup Entries(a))
  PROVE  EntriesOf(u)' = Entries(a)
<1>1. ASSUME NEW e \in EntriesOf(u)'
      PROVE  e \in Entries(a)
  BY <1>1 DEF EntriesOf, Saved
<1>2. ASSUME NEW e \in Entries(a)
      PROVE  e \in EntriesOf(u)'
  <2>1. e.uuid = u /\ e.stamp = a.stamp
    BY <1>2, EntryFields
  <2>2. ASSUME NEW f \in entries \cup Entries(a), SameKey(e, f)
        PROVE  e.stamp <= f.stamp
    <3>1. f \in Entries(a)
      BY <2>1, <2>2 DEF SameKey, EntriesOf
    <3>2. f.stamp = a.stamp
      BY <3>1, EntryFields
    <3>3. QED
      BY <2>1, <3>2, BoundAssumption DEF Stamps
  <2>3. QED
    BY <1>2, <2>1, <2>2 DEF Saved, EntriesOf
<1>3. QED
  BY <1>1, <1>2

\* Nothing that Tidy reads of annotation u changed, and no change of it is half way.
LEMMA StillTidy ==
  ASSUME NEW u \in Uuids, Tidy(u), AtRest(u), AtRest(u)', data'[u] = data[u],
         EntriesOf(u)' = EntriesOf(u)
  PROVE  Tidy(u)'
<1>1. Expected(u)' = Expected(u)
  BY DEF Expected
<1>2. EntriesOf(u)' = Expected(u)'
  BY <1>1 DEF Tidy
<1>3. \A c \in Clients : ~(pc'[c] \in Mid /\ op'[c].uuid = u)
  BY DEF AtRest
<1>4. QED
  BY <1>2, <1>3 DEF Tidy

\* Steps that write nothing.
LEMMA TidyUnwritten ==
  ASSUME Types, Hands, NEW c \in Clients, Step(c), pc[c] \notin Writing, NEW u \in Uuids, Tidy(u)
  PROVE  Tidy(u)'
<1>1. Moves(c) /\ UNCHANGED <<data, entries>>
  BY EachMoves, StoreStays DEF store
<1>2. pc[c] \notin Mid /\ pc'[c] \notin Mid
  <2>1. CASE Lock(c)
    BY <2>1 DEF Lock, Go, Types, Writing, Mid
  <2>2. QED
    BY <1>1, <2>1 DEF Moves, Mid, Writing, Reading
<1>3. \A d \in Clients : pc'[d] \in Mid <=> pc[d] \in Mid
  BY <1>1, <1>2 DEF Moves, Others
<1>4. \A d \in Clients : pc[d] \in Mid => pc'[d] = pc[d] /\ op'[d] = op[d] /\ fresh'[d] = fresh[d]
  BY <1>1, <1>2 DEF Moves, Others
<1>5. ASSUME NEW d \in Clients, pc'[d] \in Mid, op'[d].uuid = u
      PROVE  Halfway(d)'
  <2>1. Halfway(d) /\ pc'[d] = pc[d] /\ op'[d] = op[d] /\ fresh'[d] = fresh[d]
    BY <1>3, <1>4, <1>5 DEF Tidy
  <2>2. QED
    BY <1>1, <2>1 DEF Halfway, Dropping, EntriesOf, InTile, Old, Stored, New
<1>6. AtRest(u)' => AtRest(u)
  BY <1>3, <1>4 DEF AtRest
<1>7. QED
  BY <1>1, <1>5, <1>6 DEF Tidy, EntriesOf, Expected

\* A change of one annotation does not touch the entries of another.
LEMMA OldUuid ==
  ASSUME Types, Hands, Accepted, NEW c \in Clients, pc[c] \in {"strip", "drop"}
  PROVE  /\ Stored(c) # None /\ Stored(c).uuid = op[c].uuid
         /\ \A e \in Old(c) : e.uuid = op[c].uuid
<1>1. op[c].kind \in {"modify", "remove"} /\ op[c].uuid \in Uuids /\ ~Refused(c)
  BY InHand DEF Hands, Hand, Accepted, Writing
<1>2. Stored(c) # None
  BY <1>1 DEF Refused, OutOfDate
<1>3. Stored(c).uuid = op[c].uuid
  BY <1>1, <1>2, StoredType DEF Stored
<1>4. QED
  BY <1>2, <1>3, EntryFields DEF Old

LEMMA EntriesElsewhere ==
  ASSUME Types, Hands, OneWriter, Accepted, NEW c \in Clients, Step(c), pc[c] \in Writing,
         NEW u \in Uuids, u # op[c].uuid, EntriesOf(u) = Expected(u)
  PROVE  EntriesOf(u)' = EntriesOf(u)
<1>1. CASE UNCHANGED entries
  BY <1>1 DEF EntriesOf
<1>2. ASSUME pc[c] \in {"strip", "drop"}, NEW T, entries' = entries \ OldIn(c, T)
      PROVE  EntriesOf(u)' = EntriesOf(u)
  <2>1. \A e \in OldIn(c, T) : e.uuid # u
    BY <1>2, OldUuid DEF OldIn
  <2>2. QED
    BY <1>2, <2>1, Removed
<1>3. ASSUME pc[c] = "add", NEW N \in SUBSET Added(c), entries' = Saved(entries \cup N)
      PROVE  EntriesOf(u)' = EntriesOf(u)
  <2>1. \A e \in N : e.uuid # u
    BY <1>3, AddedTyped
  <2>2. EntriesOf(u) \subseteq Entries(data[u])
    BY DEF Expected
  <2>3. EntriesOf(u) # {} => data[u].stamp \in Stamps
    BY StoredType DEF Expected
  <2>4. QED
    BY <1>3, <2>1, <2>2, <2>3, SavedElsewhere
<1>4. CASE Check(c) \/ Put(c) \/ Erase(c) \/ FailsUnchanged(c) \/ NotErased(c)
  BY <1>1, <1>4 DEF Check, Put, Erase, FailsUnchanged, NotErased, store
<1>5. CASE Strip(c)
  BY <1>1, <1>2, <1>5 DEF Strip, store
<1>6. CASE Drop(c) \/ NotDropped(c)
  BY <1>2, <1>6 DEF Drop, NotDropped
<1>7. CASE Add(c)
  BY <1>3, <1>7 DEF Add
<1>8. CASE Fails(c)
  <2>1. CASE UNCHANGED entries
    BY <1>1, <2>1
  <2>2. CASE pc[c] \in {"strip", "drop"}
    <3>1. PICK T : entries' = entries \ OldIn(c, T)
      BY <1>8, <2>2 DEF Fails, PartOf
    <3>2. QED
      BY <1>2, <2>2, <3>1
  <2>3. CASE pc[c] = "add"
    <3>1. PICK T \in SUBSET Tiles : entries' = Saved(entries \cup {e \in Added(c) : e.tile \in T})
      BY <1>8, <2>3 DEF Fails, PartOf
    <3>2. QED
      BY <1>3, <2>3, <3>1
  <2>4. QED
    BY <1>8, <2>1, <2>2, <2>3 DEF Fails, PartOf, store
<1>9. QED
  BY <1>4, <1>5, <1>6, <1>7, <1>8 DEF Step, Request, Take, Lock, Look, Fetch, Writing

LEMMA TidyElsewhere ==
  ASSUME Types, Hands, OneWriter, Accepted, NEW c \in Clients, Step(c), pc[c] \in Writing,
         NEW u \in Uuids, u # op[c].uuid, Tidy(u)
  PROVE  Tidy(u)'
<1>1. Moves(c) /\ op' = op
  BY EachMoves, StoreStays
<1>2. \A d \in Clients : d # c => pc[d] \notin Mid /\ pc'[d] \notin Mid
  BY <1>1 DEF OneWriter, Moves, Others, Mid, Writing
<1>3. AtRest(u) /\ AtRest(u)'
  BY <1>1, <1>2 DEF AtRest
<1>4. EntriesOf(u)' = EntriesOf(u)
  BY <1>3, EntriesElsewhere DEF Tidy
<1>5. data'[u] = data[u]
  BY DataElsewhere
<1>6. QED
  BY <1>3, <1>4, <1>5, StillTidy

\* The annotation that is being changed.
LEMMA TidyOwn ==
  ASSUME Types, Hands, OneWriter, Accepted, NEW c \in Clients, Step(c), pc[c] \in Writing,
         op[c].uuid \notin broken', Tidy(op[c].uuid)
  PROVE  Tidy(op[c].uuid)'
<1> DEFINE u == op[c].uuid
<1>1. Moves(c) /\ op' = op /\ u \in Uuids /\ op' [c] = op[c]
  BY EachMoves, StoreStays, InHand
<1>2. \A d \in Clients : d # c => pc[d] \notin Mid /\ pc'[d] \notin Mid
  BY <1>1 DEF OneWriter, Moves, Others, Mid, Writing
<1>3. ASSUME pc'[c] \in Mid, Halfway(c)'
      PROVE  Tidy(op[c].uuid)'
  BY <1>1, <1>2, <1>3 DEF Tidy, AtRest
<1>4. ASSUME EntriesOf(u)' = Expected(u)', pc'[c] \notin Mid
      PROVE  Tidy(op[c].uuid)'
  BY <1>1, <1>2, <1>4 DEF Tidy
<1>5. pc[c] \notin Mid => EntriesOf(u) = Expected(u)
  BY <1>2 DEF Tidy, AtRest
<1>6. pc[c] \in Mid => Halfway(c)
  BY DEF Tidy
<1>7. ASSUME UNCHANGED <<data, entries>>
      PROVE  EntriesOf(u)' = EntriesOf(u) /\ Expected(u)' = Expected(u)
  BY <1>1, <1>7 DEF EntriesOf, Expected
<1>8. CASE Check(c)
  <2>1. pc[c] = "check" /\ pc[c] \notin Mid /\ UNCHANGED <<data, entries>>
    BY <1>8 DEF Check, store, Mid
  <2>2. EntriesOf(u)' = Expected(u)' /\ EntriesOf(u)' = Expected(u)
    BY <1>5, <1>7, <2>1
  <2>3. CASE pc'[c] = "add"
    <3>1. data[u] = None
      BY <1>8, <2>3 DEF Check, Answer, Go, Types, Refused, Collision, Stored
    <3>2. EntriesOf(op[c].uuid)' = {}
      BY <1>1, <2>2, <3>1 DEF Expected
    <3>3. QED
      BY <1>3, <2>3, <3>2 DEF Halfway, Mid
  <2>4. CASE pc'[c] # "add"
    <3>1. pc'[c] \notin Mid
      BY <1>8, <2>4 DEF Check, Answer, Go, Types, Mid
    <3>2. QED
      BY <1>4, <2>2, <3>1
  <2>5. QED
    BY <2>3, <2>4
<1>9. CASE Strip(c)
  <2>1. pc[c] = "strip" /\ pc[c] \notin Mid
    BY <1>9 DEF Strip, Mid
  <2>2. CASE NoBin(c)
    <3>1. UNCHANGED <<data, entries>> /\ pc'[c] = "answered"
      BY <1>9, <2>2 DEF Strip, store, Answer, Go, Types
    <3>2. QED
      BY <1>4, <1>5, <1>7, <2>1, <3>1 DEF Mid
  <2>3. CASE ~NoBin(c)
    <3>1. /\ pc'[c] = "drop" /\ UNCHANGED data
          /\ entries' = entries \ OldIn(c, Touched(c) \ Emptied(c))
      BY <1>9, <2>3 DEF Strip, Go, Types
    <3>2. Stored(c) = data[u] /\ data[u] # None /\ EntriesOf(u) = Old(c)
      BY <1>5, <2>1, OldUuid DEF Expected, Old, Stored
    <3>3. Old(c)' = Old(c)
      BY <1>1, <3>1 DEF Old, Stored
    <3>4. ASSUME NEW e \in EntriesOf(u)'
          PROVE  e \in Old(c) /\ InTile(e.tile)' \subseteq Old(c)
      <4>1. e \in entries /\ e \notin OldIn(c, Touched(c) \ Emptied(c)) /\ e \in Old(c)
        BY <1>1, <3>1, <3>2, <3>4 DEF EntriesOf
      <4>2. e \in InTile(e.tile) /\ Lies(Stored(c), e.tile)
        BY <4>1, EntryFields DEF InTile, Lies, Old
      <4>3. e.tile \in Tiles
        <5>1. data[u] \in Annotations
          BY <1>1, <3>2, StoredType
        <5>2. Cover[Stored(c).place] \subseteq Tiles \X Bins
          BY <3>2, <5>1, CoverAssumption DEF Annotations
        <5>3. QED
          BY <4>2, <5>2 DEF Lies
      <4>4. e.tile \in Touched(c)
        BY <4>2, <4>3 DEF Touched
      <4>5. e.tile \in Emptied(c)
        BY <4>1, <4>4 DEF OldIn
      <4>6. InTile(e.tile) \subseteq Old(c) /\ InTile(e.tile)' \subseteq InTile(e.tile)
        BY <3>1, <4>5 DEF Emptied, InTile
      <4>7. QED
        BY <4>1, <4>6
    <3>5. Dropping(c)'
      BY <1>1, <3>3, <3>4 DEF Dropping
    <3>6. QED
      BY <1>3, <3>1, <3>5 DEF Halfway, Mid
  <2>4. QED
    BY <2>2, <2>3
<1>10. CASE Drop(c)
  <2>1. pc[c] = "drop" /\ entries' = entries \ OldIn(c, Emptied(c)) /\ pc'[c] = AfterDrop(c)
    BY <1>10 DEF Drop, Go, Types
  <2>2. Dropping(c)
    BY <1>6, <2>1 DEF Halfway, Mid
  <2>3. Stored(c) = data[u] /\ data[u] # None /\ data[u] \in Annotations
    BY <1>1, <2>1, OldUuid, StoredType DEF Stored
  <2>4. ASSUME NEW e \in EntriesOf(u)
        PROVE  e \notin entries'
    <3>1. e \in Old(c) /\ InTile(e.tile) \subseteq Old(c) /\ e \in InTile(e.tile)
      BY <2>2, <2>4 DEF Dropping, EntriesOf, InTile
    <3>2. Lies(Stored(c), e.tile)
      BY <3>1, EntryFields DEF Lies, Old
    <3>3. Cover[Stored(c).place] \subseteq Tiles \X Bins
      BY <2>3, CoverAssumption DEF Annotations
    <3>4. e.tile \in Emptied(c)
      BY <3>1, <3>2, <3>3 DEF Emptied, Touched, Lies
    <3>5. QED
      BY <2>1, <3>1, <3>4 DEF OldIn
  <2>5. EntriesOf(op[c].uuid)' = {}
    BY <1>1, <2>1, <2>4 DEF EntriesOf
  <2>6. QED
    BY <1>3, <2>1, <2>5 DEF Halfway, Mid, AfterDrop
<1>11. CASE Add(c)
  <2>1. pc[c] = "add" /\ pc'[c] = "put" /\ fresh'[c] = NewStamp(c)
        /\ entries' = Saved(entries \cup Added(c))
    BY <1>11 DEF Add, Go, Types
  <2>2. EntriesOf(u) = {}
    BY <1>6, <2>1 DEF Halfway, Mid
  <2>3. PICK a : a = Annotation(op[c], NewStamp(c))
    OBVIOUS
  <2>4. a.uuid = u /\ a.stamp \in Stamps /\ Added(c) = Entries(a)
    BY <2>1, <2>3, AddedTyped DEF Annotation, Added
  <2>5. EntriesOf(u)' = Entries(a)
    <3>1. PICK v : v = op[c].uuid
      OBVIOUS
    <3>2. EntriesOf(v)' = Entries(a)
      BY <2>1, <2>2, <2>4, <3>1, SavedNew
    <3>3. QED
      BY <1>1, <3>1, <3>2 DEF EntriesOf
  <2>6. New(c)' = a
    BY <1>1, <2>1, <2>3 DEF New
  <2>7. EntriesOf(op[c].uuid)' = Entries(New(c))'
    BY <1>1, <2>5, <2>6
  <2>8. QED
    BY <1>3, <2>1, <2>7 DEF Halfway, Mid
<1>12. CASE Put(c)
  <2>1. pc[c] = "put" /\ pc'[c] = "answered" /\ data' = [data EXCEPT ![u] = New(c)]
        /\ UNCHANGED entries
    BY <1>12 DEF Put, Answer, Go, Types
  <2>2. EntriesOf(u) = Entries(New(c))
    BY <1>6, <2>1 DEF Halfway, Mid
  <2>3. data'[u] = New(c) /\ New(c) # None
    BY <1>1, <2>1, NewTyped DEF Types
  <2>4. Expected(u)' = Entries(New(c))
    BY <1>1, <2>3 DEF Expected
  <2>5. EntriesOf(u)' = Expected(u)'
    BY <1>1, <2>1, <2>2, <2>4 DEF EntriesOf
  <2>6. QED
    BY <1>4, <2>1, <2>5 DEF Mid
<1>13. CASE Erase(c)
  <2>1. pc[c] = "erase" /\ pc'[c] = "answered" /\ data' = [data EXCEPT ![u] = None]
        /\ UNCHANGED entries
    BY <1>13 DEF Erase, Answer, Go, Types
  <2>2. EntriesOf(u) = {}
    BY <1>6, <2>1 DEF Halfway, Mid
  <2>3. Expected(u)' = {}
    BY <1>1, <2>1 DEF Expected, Types
  <2>4. EntriesOf(u)' = Expected(u)'
    BY <1>1, <2>1, <2>2, <2>3 DEF EntriesOf
  <2>5. QED
    BY <1>4, <2>1, <2>4 DEF Mid
<1>14. CASE FailsUnchanged(c)
  <2>1. pc[c] \notin Mid /\ pc'[c] = "answered" /\ UNCHANGED <<data, entries>>
    BY <1>14 DEF FailsUnchanged, Answer, Go, Types, store, Mid
  <2>2. QED
    BY <1>4, <1>5, <1>7, <2>1 DEF Mid
<1>15. CASE Fails(c) \/ NotDropped(c) \/ NotErased(c)
  BY <1>15 DEF Fails, NotDropped, NotErased
<1>16. QED
  BY <1>8, <1>9, <1>10, <1>11, <1>12, <1>13, <1>14, <1>15
     DEF Step, Request, Take, Lock, Look, Fetch, Writing

LEMMA TidyStep ==
  ASSUME Types, Hands, OneWriter, Accepted, AllTidy, [Next]_vars
  PROVE  AllTidy'
<1>1. CASE UNCHANGED vars \/ Tick
  BY <1>1 DEF vars, store, Tick, AllTidy, Tidy, AtRest, EntriesOf, Expected, Halfway, Dropping,
              InTile, Old, Stored, New
<1>2. ASSUME NEW c \in Clients, Step(c), NEW u \in Uuids \ broken'
      PROVE  Tidy(u)'
  <2>1. u \notin broken /\ Tidy(u)
    BY <1>2, StoreStays DEF AllTidy
  <2>2. CASE pc[c] \notin Writing
    BY <1>2, <2>1, <2>2, TidyUnwritten
  <2>3. CASE pc[c] \in Writing /\ u # op[c].uuid
    BY <1>2, <2>1, <2>3, TidyElsewhere
  <2>4. CASE pc[c] \in Writing /\ u = op[c].uuid
    <3>1. op[c].uuid \notin broken' /\ Tidy(op[c].uuid)
      BY <1>2, <2>1, <2>4
    <3>2. Tidy(op[c].uuid)'
      BY <1>2, <2>4, <3>1, TidyOwn
    <3>3. op' = op
      BY <1>2, <2>4, StoreStays
    <3>4. QED
      BY <2>4, <3>2, <3>3
  <2>5. QED
    BY <2>2, <2>3, <2>4
<1>3. QED
  BY <1>1, <1>2 DEF Next, AllTidy

(***************************************************************************)
(* What a reader has found.                                                *)
(***************************************************************************)
LEMMA ShownInTile ==
  ASSUME Types, NEW u \in Uuids, EntriesOf(u) = Expected(u), NEW t
  PROVE  u \in {e.uuid : e \in InTile(t)} <=> data[u] # None /\ Lies(data[u], t)
<1>1. ASSUME NEW e \in InTile(t), e.uuid = u
      PROVE  data[u] # None /\ Lies(data[u], t)
  <2>1. e \in EntriesOf(u) /\ e.tile = t
    BY <1>1 DEF InTile, EntriesOf
  <2>2. data[u] # None /\ e \in Entries(data[u])
    BY <2>1 DEF Expected
  <2>3. QED
    BY <2>1, <2>2, EntryFields DEF Lies
<1>2. ASSUME data[u] # None, Lies(data[u], t)
      PROVE  \E e \in InTile(t) : e.uuid = u
  <2>1. PICK e \in Entries(data[u]) : e.tile = t
    BY <1>2, EntryOf DEF Lies
  <2>2. e \in entries /\ e.uuid = u
    BY <1>2, <2>1 DEF Expected, EntriesOf
  <2>3. QED
    BY <2>1, <2>2 DEF InTile
<1>3. QED
  BY <1>1, <1>2

LEMMA FoundStep ==
  ASSUME Types, Hands, OneWriter, AllTidy, Found, [Next]_vars
  PROVE  Found'
<1>1. CASE UNCHANGED vars \/ Tick
  BY <1>1 DEF vars, store, Tick, Found, Lies
<1>2. ASSUME NEW c \in Clients, Step(c), NEW d \in Clients, pc'[d] = "fetch",
             NEW u \in Uuids \ broken'
      PROVE  u \in seen'[d] <=> data'[u] # None /\ Lies(data'[u], op'[d].tile)
  <2>1. Moves(c)
    BY <1>2, EachMoves
  <2>2. CASE d = c
    <3>1. Look(c)
      BY <1>2, <2>2 DEF Step, Request, Take, Lock, Check, Strip, Drop, AfterDrop, Add, Put, Erase,
         Fetch, FailsUnchanged, Fails, NotDropped, NotErased, Answer, Go, Types
    <3>2. /\ seen'[c] = {e.uuid : e \in InTile(op[c].tile)}
          /\ UNCHANGED <<data, op, broken>> /\ pc[c] \in Reading
      BY <3>1 DEF Look, store, Reading, Types
    <3>3. AtRest(u)
      BY <3>2 DEF OneWriter, AtRest, Mid, Writing, Reading
    <3>4. EntriesOf(u) = Expected(u)
      BY <1>2, <3>2, <3>3 DEF AllTidy, Tidy
    <3>5. QED
      BY <2>2, <3>2, <3>4, ShownInTile
  <2>3. CASE d # c
    <3>1. pc[d] = "fetch" /\ op'[d] = op[d]
      BY <1>2, <2>1, <2>3 DEF Moves, Others
    <3>2. pc[c] \notin Writing
      BY <2>3, <3>1 DEF OneWriter, Reading
    <3>3. UNCHANGED <<data, broken>>
      BY <1>2, <3>2, StoreStays DEF store
    <3>4. seen'[d] = seen[d]
      BY <1>2, <2>3 DEF Step, Request, Take, Lock, Check, Strip, Drop, Add, Put, Erase, Look,
         Fetch, FailsUnchanged, Fails, NotDropped, NotErased, Answer, Types
    <3>5. QED
      BY <1>2, <3>1, <3>3, <3>4 DEF Found
  <2>4. QED
    BY <2>2, <2>3
<1>3. QED
  BY <1>1, <1>2 DEF Next, Found

(***************************************************************************)
(* The invariant.                                                          *)
(***************************************************************************)
LEMMA StoreInit == Init => StoreInv
<1> SUFFICES ASSUME Init PROVE StoreInv
  OBVIOUS
<1>1. Types
  BY BoundAssumption DEF Init, Types, Stamps, Points
<1>2. Hands
  BY DEF Init, Hands, Hand, Writing, Reading
<1>3. OneWriter /\ Accepted /\ Found
  BY DEF Init, OneWriter, Accepted, Found, Writing
<1>4. AllTidy
  BY DEF Init, AllTidy, Tidy, EntriesOf, Expected, Mid
<1>5. QED
  BY <1>1, <1>2, <1>3, <1>4 DEF StoreInv

THEOREM StoreInvariant == Spec => []StoreInv
<1>1. StoreInv /\ [Next]_vars => StoreInv'
  BY TypesStep, HandsStep, OneWriterStep, AcceptedStep, TidyStep, FoundStep DEF StoreInv
<1>2. QED
  BY <1>1, StoreInit, PTL DEF Spec

\* Tiles and data of an annotation agree whenever no change of it is under way and none was
\* interrupted (AnnotationServiceImpl: addDataToTiles, removeDataFromTiles).
THEOREM TilesCohere == Spec => []Coherent
<1>1. StoreInv => Coherent
  <2> SUFFICES ASSUME StoreInv, NEW u \in Uuids \ broken, ~Changing(u)
               PROVE  EntriesOf(u) = Expected(u)
    BY DEF Coherent, Expected
  <2>1. Types /\ Hands /\ Tidy(u)
    BY DEF StoreInv, AllTidy
  <2>2. \A c \in Clients : pc[c] \in Mid => Holds(c) /\ ~Reads(c)
    BY <2>1, InHand DEF Holds, Reads, Mid, Writing
  <2>3. AtRest(u)
    BY <2>2 DEF AtRest, Changing
  <2>4. QED
    BY <2>1, <2>3 DEF Tidy
<1>2. QED
  BY <1>1, StoreInvariant, PTL

(***************************************************************************)
(* The refinement.  A request takes effect when it is answered: a change   *)
(* when its data are written or erased, a read when it fetches the data.   *)
(***************************************************************************)
\* A change that a thread works on is one the store would accept.
LEMMA StillAdmissible ==
  ASSUME Types, Hands, Accepted, NEW c \in Clients, pc[c] \in Writing \ {"check"}
  PROVE  Store!Changes(c) /\ Store!Admissible(op[c])
<1>1. ~Refused(c) /\ op[c] # None /\ op[c].kind # "read" /\ answer[c] = None
  BY InHand DEF Accepted
<1>2. QED
  BY <1>1 DEF Refused, Collision, OutOfDate, Stored, Store!Changes, Store!Waits, Store!Admissible

\* A null bin is met only where an earlier change was interrupted.
LEMMA BinsFound ==
  ASSUME Types, Hands, OneWriter, Accepted, AllTidy, NEW c \in Clients, pc[c] = "strip", NoBin(c)
  PROVE  op[c].uuid \in broken
<1> SUFFICES ASSUME op[c].uuid \notin broken PROVE FALSE
  OBVIOUS
<1>1. op[c].uuid \in Uuids /\ Stored(c) # None
  BY InHand, OldUuid DEF Writing
<1>2. AtRest(op[c].uuid)
  BY DEF OneWriter, AtRest, Mid, Writing
<1>3. EntriesOf(op[c].uuid) = Old(c)
  BY <1>1, <1>2 DEF AllTidy, Tidy, Expected, Old, Stored
<1>4. PICK x \in Cover[Stored(c).place] : \A e \in InTile(x[1]) : e.bin # x[2]
  BY DEF NoBin
<1>5. PICK e \in Old(c) : e.tile = x[1] /\ e.bin = x[2]
  BY EntryOf DEF Old
<1>6. e \in InTile(x[1])
  BY <1>3, <1>5 DEF EntriesOf, InTile
<1>7. QED
  BY <1>4, <1>5, <1>6

LEMMA StoreStarts == Init => Store!Init
  BY DEF Init, Store!Init

LEMMA StoreSteps ==
  ASSUME StoreInv, NEW c \in Clients, Step(c)
  PROVE  Store!Next \/ UNCHANGED Store!vars
<1>0. Types /\ Hands /\ OneWriter /\ Accepted /\ AllTidy /\ Found
  BY DEF StoreInv
<1>h. Hand(c)
  BY <1>0 DEF Hands
<1>1. ASSUME NEW r \in Requests, Request(c, r)
      PROVE  Store!Ask(c)
  BY <1>h, <1>1 DEF Request, store, Hand, Store!Ask
<1>2. CASE Take(c)
  <2>1. Store!Take(c)
    BY <1>h, <1>2 DEF Take, store, Hand, Store!Take
  <2>2. QED
    BY <2>1 DEF Store!Next
<1>3. CASE Lock(c) \/ Look(c) \/ Drop(c) \/ Add(c)
  BY <1>3 DEF Lock, Look, Drop, Add, store, Store!vars
<1>4. CASE Check(c)
  <2>1. CASE Refused(c)
    <3>1. op[c] # None /\ op[c].kind # "read" /\ answer[c] = None
      BY <1>0, <1>4, InHand DEF Check, Writing
    <3>2. Store!Reply(c, "refused", {}) /\ UNCHANGED <<data, broken, op>>
      BY <1>4, <2>1 DEF Check, Answer, store, Store!Reply
    <3>3. ~Store!Admissible(op[c])
      BY <2>1 DEF Refused, Collision, OutOfDate, Stored, Store!Admissible
    <3>4. Store!Refuse(c)
      BY <3>1, <3>2, <3>3 DEF Store!Refuse, Store!Changes, Store!Waits
    <3>5. QED
      BY <3>4 DEF Store!Next
  <2>2. CASE ~Refused(c)
    BY <1>4, <2>2 DEF Check, store, Store!vars
  <2>3. QED
    BY <2>1, <2>2
<1>5. CASE Strip(c)
  <2>1. CASE NoBin(c)
    <3>1. Store!Changes(c) /\ op[c].uuid \in broken
      BY <1>0, <1>5, <2>1, StillAdmissible, BinsFound DEF Strip, Writing
    <3>2. Store!Reply(c, "refused", {}) /\ UNCHANGED <<data, broken, op>>
      BY <1>5, <2>1 DEF Strip, Answer, store, Store!Reply
    <3>3. Store!Refuse(c)
      BY <3>1, <3>2 DEF Store!Refuse
    <3>4. QED
      BY <3>3 DEF Store!Next
  <2>2. CASE ~NoBin(c)
    BY <1>5, <2>2 DEF Strip, Store!vars
  <2>3. QED
    BY <2>1, <2>2
<1>6. CASE Put(c)
  <2>1. pc[c] = "put" /\ Store!Changes(c) /\ Store!Admissible(op[c])
    BY <1>0, <1>6, StillAdmissible DEF Put, Writing
  <2>2. /\ op[c].kind # "remove" /\ fresh[c] \in Stamps
        /\ op[c].kind = "write" => fresh[c] = op[c].stamp
    BY <1>h, <2>1 DEF Hand
  <2>3. /\ data' = [data EXCEPT ![op[c].uuid] = Annotation(op[c], fresh[c])]
        /\ Store!Reply(c, "done", {Store!Certificate(Annotation(op[c], fresh[c]))})
        /\ UNCHANGED <<broken, op>>
    BY <1>6 DEF Put, Answer, New, Certificate, Store!Certificate, Store!Reply
  <2>4. Store!Put(c)
    BY <2>1, <2>2, <2>3 DEF Store!Put
  <2>5. QED
    BY <2>4 DEF Store!Next
<1>7. CASE Erase(c)
  <2>1. pc[c] = "erase" /\ Store!Changes(c) /\ Store!Admissible(op[c])
    BY <1>0, <1>7, StillAdmissible DEF Erase, Writing
  <2>2. op[c].kind = "remove"
    BY <1>h, <2>1 DEF Hand
  <2>3. Store!Remove(c)
    BY <1>7, <2>1, <2>2 DEF Erase, Answer, Store!Remove, Store!Reply
  <2>4. QED
    BY <2>3 DEF Store!Next
<1>8. CASE Fetch(c)
  <2>1. op[c] # None /\ op[c].kind = "read" /\ answer[c] = None
    BY <1>0, <1>8, InHand DEF Fetch, Reading
  <2>2. seen[c] \in SUBSET Uuids
    BY <1>0 DEF Types
  <2>3. Store!Shows(seen[c], op[c])
    BY <1>0, <1>8 DEF Fetch, Found, Store!Shows
  <2>4. /\ Store!Reply(c, "done", {data[u] : u \in {v \in seen[c] : data[v] # None}})
        /\ UNCHANGED <<data, broken, op>>
    BY <1>8 DEF Fetch, Answer, store, Store!Reply
  <2>5. Store!Look(c)
    BY <2>1, <2>2, <2>3, <2>4 DEF Store!Look, Store!Waits
  <2>6. QED
    BY <2>5 DEF Store!Next
<1>9. CASE FailsUnchanged(c)
  <2>1. op[c] # None /\ answer[c] = None
    BY <1>0, <1>9, InHand DEF FailsUnchanged, Writing, Reading
  <2>2. Store!GiveUp(c)
    BY <1>9, <2>1 DEF FailsUnchanged, Answer, store, Store!GiveUp, Store!Waits, Store!Reply
  <2>3. QED
    BY <2>2 DEF Store!Next
<1>10. CASE Fails(c)
  <2>1. pc[c] \in Writing \ {"check"} /\ UNCHANGED data
    BY <1>10 DEF Fails, PartOf, store, Writing
  <2>2. Store!Changes(c) /\ Store!Admissible(op[c])
    BY <1>0, <2>1, StillAdmissible
  <2>3. Store!Break(c)
    BY <1>10, <2>1, <2>2 DEF Fails, Answer, Store!Break, Store!Reply
  <2>4. QED
    BY <2>3 DEF Store!Next
<1>11. CASE NotDropped(c)
  <2>1. Store!Changes(c) /\ Store!Admissible(op[c])
    BY <1>0, <1>11, StillAdmissible DEF NotDropped, Writing
  <2>2. Store!Break(c)
    BY <1>11, <2>1 DEF NotDropped, Store!Break
  <2>3. QED
    BY <2>2 DEF Store!Next
<1>12. CASE NotErased(c)
  <2>1. pc[c] = "erase" /\ Store!Changes(c) /\ Store!Admissible(op[c])
    BY <1>0, <1>12, StillAdmissible DEF NotErased, Writing
  <2>2. op[c].kind = "remove"
    BY <1>h, <2>1 DEF Hand
  <2>3. Store!Break(c)
    BY <1>12, <2>1, <2>2 DEF NotErased, Answer, store, Store!Break, Store!Reply
  <2>4. QED
    BY <2>3 DEF Store!Next
<1>13. CASE \E r \in Requests : Request(c, r)
  BY <1>1, <1>13 DEF Store!Next
<1>14. QED
  BY <1>2, <1>3, <1>4, <1>5, <1>6, <1>7, <1>8, <1>9, <1>10, <1>11, <1>12, <1>13 DEF Step

\* To its clients the service is a store without tiles: changes are refused exactly when their
\* certificate is out of date, take effect at once, and a tile shows what lies in it.
THEOREM ImplementsTheStore == Spec => ImplementsStore
<1>1. StoreInv /\ [Next]_vars => [Store!Next]_(Store!vars)
  <2> SUFFICES ASSUME StoreInv, [Next]_vars PROVE [Store!Next]_(Store!vars)
    OBVIOUS
  <2>1. CASE UNCHANGED vars \/ Tick
    BY <2>1 DEF vars, store, Tick, Store!vars
  <2>2. CASE \E c \in Clients : Step(c)
    BY <2>2, StoreSteps
  <2>3. QED
    BY <2>1, <2>2 DEF Next
<1>2. QED
  BY <1>1, StoreStarts, StoreInvariant, PTL DEF Spec, ImplementsStore, Store!Spec

=============================================================================
