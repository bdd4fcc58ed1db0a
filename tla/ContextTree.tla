----------------------------- MODULE ContextTree -----------------------------
(* The cluster hierarchies of Influent's contexts: how a request that inserts   *)
(* accounts into a context or removes them from it (ModifyContextResource) has  *)
(* them clustered (DynamicClustering, GeneralEntityClusterer and its stages),   *)
(* and how the hierarchy is simplified for the client (ContextCollapser).       *)
(*                                                                              *)
(* A request works on its context alone, under a write permit (ContextCache);   *)
(* its steps are taken one at a time because the code goes through hash maps,   *)
(* whose order is arbitrary.  The accounts themselves are objects that two      *)
(* contexts may share.                                                          *)
EXTENDS Naturals, FiniteSets, Sequences, SequencesExt

CONSTANTS
  Contexts,  \* file contexts
  Sources,   \* Sources[k]: contexts whose clusters are inserted into k
  Entities,  \* accounts
  Batches,   \* sets of accounts that one request inserts
  Ids,       \* bound: ids of clusters in use at the same time
  Key,       \* Key[s][e]: the bucket of account e in the bucketing stage s
  MaxSize,   \* entity.clusterer.maxclustersize
  MaxRequests,  \* bound: requests of a behaviour
  None, File

\* The bucketing stages are the first of the list of stages, the last one splits
\* by size.
Buckets == DOMAIN Key
LastStage == Cardinality(Buckets)

Objects == 1..Cardinality(Contexts)
\* Lists of members and of subclusters hold an id once.
Cluster == [parent : Ids \cup {None, File}, root : Ids \cup {None},
            members : SUBSET Entities, subs : SUBSET Ids]

ASSUME ContextTreeAssumption ==
  /\ IsFiniteSet(Contexts) /\ IsFiniteSet(Entities) /\ IsFiniteSet(Ids)
  /\ Ids \subseteq Nat
  /\ Sources \in [Contexts -> SUBSET Contexts]
  /\ Batches \subseteq SUBSET Entities
  /\ IsFiniteSet(Buckets) /\ Buckets = 0..(LastStage - 1) /\ Buckets # {}
  /\ \A s \in Buckets : DOMAIN Key[s] = Entities
  /\ MaxSize \in Nat /\ MaxSize >= 2
  /\ MaxRequests \in Nat
  /\ None \notin Ids \cup Entities /\ File \notin Ids \cup Entities \cup {None}
  /\ Ids \cap Entities = {}
  /\ None \notin Objects /\ None \notin Cluster

Childless == [parent |-> None, root |-> None, members |-> {}, subs |-> {}]

VARIABLES
  object,    \* object[k][e]: the FL_Entity of e in the raw context of k, or None
  home,      \* home[e][o]: its CLUSTER property
  cluster,   \* cluster[k]: the clusters of the raw context
  roots,     \* roots[k]: the keys of its map of roots
  view,      \* view[k]: the clusters of the simplified context
  pc,        \* the step of the request
  target,    \* the context it modifies
  requests,  \* requests so far
  removes,   \* whether it removes
  stage,     \* index of the clustering stage
  modified,  \* roots that the first stage changed
  toSplit, results,            \* clustersToSplit, stageResults
  splitting, rest, moved,      \* the cluster being split by size, what is left of
                               \*   its members, and where the others went
  notFull, full, candidate,    \* nonFullClusters, fullClusters, candidateCluster
  todo,      \* ids to remove, or copied clusters to visit
  lost,      \* the cluster that has lost a child, or None
  ancestors, \* ancestorIds
  entities   \* accounts at the top of the simplified hierarchy

dataVars == <<object, home, cluster, roots, view>>
stageVars == <<stage, modified, toSplit, results>>
fillVars == <<splitting, rest, moved, notFull, full, candidate>>
walkVars == <<todo, lost, ancestors, entities>>
requestVars == <<target, requests, removes>>
vars == <<dataVars, pc, requestVars, stageVars, fillVars, walkVars>>

-----------------------------------------------------------------------------
Live(c) == {i \in DOMAIN c : c[i] # None}
Present(k) == {e \in Entities : object[k][e] # None}

\* The clusters of S that lead from x, each y to those in near[y].
Reached(S, x, near) ==
  LET f[n \in 0..Cardinality(Ids)] ==
        IF n = 0 THEN {x} \cap S
        ELSE (UNION {{y} \cup near[y] : y \in f[n-1]}) \cap S
  IN f[Cardinality(Ids)]
\* The clusters below and including x, and those above and including it.
Below(c, x) == Reached(Live(c), x, [y \in Live(c) |-> c[y].subs])
ParentOnly(c, x) == {x} \cap Live(c)
Above(c, x) == Reached(Live(c), x, [y \in Live(c) |-> {c[y].parent}])
AccountsBelow(c, x) == UNION {c[y].members : y \in Below(c, x)}

\* idGenerator never gives an id twice: nothing refers to a fresh one.
Mentioned(c) == UNION {{i, c[i].parent, c[i].root} \cup c[i].subs : i \in Live(c)}
Unused == Ids \ ((UNION {Mentioned(cluster[k]) \cup Mentioned(view[k]) : k \in Contexts})
                 \cup {home[e][o] : e \in Entities, o \in Objects} \cup ancestors)
\* Bound: there are enough of them.
CanMake(S) == \E f \in [S -> Unused] : IsInjective(f)
FreshFor(S) == CHOOSE f \in [S -> Unused] : IsInjective(f)

\* A cluster's own bucket is that of an account in it.
KeysOf(c, s, x) == {Key[s][e] : e \in AccountsBelow(c, x)}

\* Where each bucket of the accounts E goes: an earlier cluster with that key, or
\* a new one.
Destinations(c, s, E, earlier) ==
  LET keys == {Key[s][e] : e \in E}
      match == [v \in keys |-> {x \in earlier : v \in KeysOf(c, s, x)}]
      unmatched == {v \in keys : match[v] = {}}
      enough == CanMake(unmatched)
      made == FreshFor(unmatched)
  IN {d \in [keys -> Ids] :
        /\ enough
        /\ \A v \in keys : IF match[v] = {} THEN d[v] = made[v] ELSE d[v] \in match[v]}

\* E, as members of the clusters they go to.
Joined(c, to) ==
  [i \in Ids |->
     LET new == {e \in DOMAIN to : to[e] = i} IN
     CASE new = {} -> c[i]
       [] new # {} /\ c[i] = None -> [Childless EXCEPT !.members = new]
       [] OTHER -> [c[i] EXCEPT !.members = @ \cup new]]
Rehomed(k, to) ==
  [e \in Entities |-> [o \in Objects |->
     IF e \in DOMAIN to /\ object'[k][e] = o THEN to[e] ELSE home[e][o]]]

\* The clusters in S become children of x.
AdoptedUnderParent(c, x, S) ==
  [i \in Ids |->
     CASE i \in S -> [c[i] EXCEPT !.parent = x, !.root = x]
       [] i = x -> [c[i] EXCEPT !.members = {}, !.subs = @ \cup S]
       [] OTHER -> c[i]]
Adopted(c, x, S) ==
  LET top == IF c[x].root = None THEN x ELSE c[x].root IN
  [i \in Ids |->
     CASE i \in S -> [c[i] EXCEPT !.parent = x, !.root = top]
       [] i = x -> [c[i] EXCEPT !.members = {}, !.subs = @ \cup S]
       [] OTHER -> c[i]]

TooLarge(x) == Cardinality(x.members) > MaxSize
NonLeaf(x) == x.members # {} /\ x.subs # {}
IsCandidate(x) == TooLarge(x) \/ NonLeaf(x)

\* The clusters that are left to be split in this stage, and the stage after it.
KeptToSplit(x) == toSplit
LeftToSplit(x) == toSplit \ {x}
StageAfterLast == stage + 1
StageAfter == IF stage = LastStage THEN stage ELSE stage + 1

\* What is not present any more leaves the clusters below S.
UpdatedSubs(c, S, present) ==
  LET reached == UNION {Below(c, x) : x \in S} IN
  [i \in Ids |-> IF i \in reached THEN [c[i] EXCEPT !.subs = @ \cap Live(c)] ELSE c[i]]
Updated(c, S, present) ==
  LET reached == UNION {Below(c, x) : x \in S} IN
  [i \in Ids |->
     IF i \in reached
     THEN [c[i] EXCEPT !.members = @ \cap present, !.subs = @ \cap Live(c)]
     ELSE c[i]]

Go(step) == pc' = step
Here == cluster[target]

\* A request begins.
Request(k, remove) ==
  /\ pc = "idle" /\ requests < MaxRequests
  /\ requests' = requests + 1
  /\ target' = k /\ removes' = remove

\* Whatever a request does to the raw context is followed by the collapse, which
\* works on copies.
StartCollapse(k, c) ==
  /\ Go("collapse")
  /\ cluster' = [cluster EXCEPT ![k] = c]
  /\ view' = [view EXCEPT ![k] = [i \in Ids \cup {File} |-> IF i = File THEN None ELSE c[i]]]
  /\ todo' = Live(c)
  /\ entities' = {}

-----------------------------------------------------------------------------
(* Inserting                                                               *)

\* filterExistingEntities
NewTo(k, E) == E \ Present(k)

\* The first stage puts new accounts into roots.  objects says which FL_Entity
\* each of the accounts comes as.
Insert(k, objects) ==
  LET new == NewTo(k, DOMAIN objects)
      old == cluster[k] IN
  /\ Request(k, FALSE)
  /\ ancestors' = {}
  /\ object' = [object EXCEPT ![k] = [e \in Entities |-> IF e \in new THEN objects[e] ELSE @[e]]]
  /\ \/ /\ new = {}
        /\ StartCollapse(k, old)
        /\ UNCHANGED <<home, roots, stageVars>>
     \/ /\ new # {}
        /\ \E d \in Destinations(old, 0, new, roots[k]) :
             LET to == [e \in new |-> d[Key[0][e]]]
                 made == Range(d) IN
             /\ cluster' = [cluster EXCEPT ![k] = Joined(old, to)]
             /\ home' = Rehomed(k, to)
             /\ roots' = [roots EXCEPT ![k] = @ \cup made]
             /\ modified' = made /\ results' = made
        /\ stage' = 0 /\ toSplit' = {}
        /\ Go("split")
        /\ UNCHANGED <<view, todo, entities>>
  /\ UNCHANGED <<lost, fillVars>>

\* Accounts read from the database come as new objects, those below a cluster of
\* another context as that context's own.
InsertAccounts(k, E) ==
  \E o \in [E -> Objects] :
    /\ \A e \in E : o[e] = Min(Objects \ {object[j][e] : j \in Contexts \ {k}})
    /\ Insert(k, o)
InsertCluster(k, j, x) ==
  /\ x \in Live(view[j])
  /\ Insert(k, [e \in AccountsBelow(view[j], x) \cap Present(j) |-> object[j][e]])

\* A stage that buckets splits a cluster into its subclusters.
Split(x) ==
  LET c == Here IN
  /\ pc = "split" /\ x \in toSplit /\ stage < LastStage
  /\ UNCHANGED object
  /\ \E d \in Destinations(c, stage, c[x].members, c[x].subs) :
       LET to == [e \in c[x].members |-> d[Key[stage][e]]] IN
       /\ cluster' = [cluster EXCEPT ![target] = Adopted(Joined(c, to), x, Range(d))]
       /\ home' = Rehomed(target, to)
       /\ results' = results \cup Range(d)
  /\ toSplit' = LeftToSplit(x)
  /\ UNCHANGED <<roots, view, pc, requestVars, stage, modified, fillVars, walkVars>>

\* The last stage moves the members one by one into subclusters that have room.
IsFull(c, x) == Cardinality(c[x].members) >= MaxSize
StartFill(x) ==
  LET c == Here IN
  /\ pc = "split" /\ x \in toSplit /\ stage = LastStage
  /\ splitting' = x /\ rest' = c[x].members /\ moved' = {} /\ candidate' = 1
  /\ notFull' \in SetToSeqs({y \in c[x].subs : ~IsFull(c, y)})
  /\ full' \in SetToSeqs({y \in c[x].subs : IsFull(c, y)})
  /\ toSplit' = LeftToSplit(x)
  /\ Go("fill")
  /\ UNCHANGED <<dataVars, requestVars, stage, modified, results, walkVars>>

\* Account e moves into cluster y.
Move(e, y) ==
  /\ pc = "fill" /\ e \in rest
  /\ UNCHANGED object
  /\ cluster' = [cluster EXCEPT ![target] = Joined(Here, [a \in {e} |-> y])]
  /\ home' = Rehomed(target, [a \in {e} |-> y])
  /\ rest' = rest \ {e} /\ moved' = moved \cup {y}
  /\ UNCHANGED <<roots, view, pc, requestVars, stageVars, splitting, walkVars>>

FillFirst(e) ==
  /\ notFull # <<>>
  /\ Move(e, Head(notFull))
  /\ IF Cardinality(Here[Head(notFull)].members) + 1 >= MaxSize
     THEN notFull' = Tail(notFull) /\ full' = Append(full, Head(notFull))
     ELSE UNCHANGED <<notFull, full>>
  /\ UNCHANGED candidate
FillNew(e) ==
  LET y == FreshFor({e})[e] IN
  /\ notFull = <<>> /\ Len(full) < MaxSize
  /\ CanMake({e})
  /\ Move(e, y)
  /\ notFull' = <<y>>
  /\ UNCHANGED <<full, candidate>>
FillOverflow(e) ==
  /\ notFull = <<>> /\ Len(full) >= MaxSize
  /\ Move(e, full[candidate])
  /\ candidate' = (candidate % MaxSize) + 1
  /\ UNCHANGED <<notFull, full>>
EndFill ==
  /\ pc = "fill" /\ rest = {}
  /\ cluster' = [cluster EXCEPT ![target] = Adopted(Here, splitting, moved)]
  /\ results' = results \cup moved
  /\ splitting' = None /\ moved' = {} /\ notFull' = <<>> /\ full' = <<>>
  /\ Go("split")
  /\ UNCHANGED <<object, home, roots, view, requestVars, stage, modified, toSplit,
                 rest, candidate, walkVars>>

ToSplitNext == {x \in results : IsCandidate(Here[x])}
NextStage ==
  /\ pc = "split" /\ toSplit = {} /\ ToSplitNext # {}
  /\ toSplit' = ToSplitNext
  /\ results' = {}
  /\ stage' = StageAfter
  /\ UNCHANGED <<dataVars, pc, requestVars, modified, fillVars, walkVars>>
EndSplit ==
  /\ pc = "split" /\ toSplit = {} /\ ToSplitNext = {}
  /\ StartCollapse(target, Updated(Here, modified, Present(target)))
  /\ results' = {} /\ modified' = {} /\ stage' = 0
  /\ UNCHANGED <<object, home, roots, requestVars, toSplit, fillVars, lost, ancestors>>

-----------------------------------------------------------------------------
(* Removing                                                                *)

\* findAncestorIds: an account's parent is the one its own property names.
ParentOf(k, d) ==
  IF d \in Entities
  THEN IF object[k][d] = None THEN None ELSE home[d][object[k][d]]
  ELSE IF cluster[k][d] = None THEN None ELSE cluster[k][d].parent
AncestorsOf(k, D) == UNION {Above(cluster[k], ParentOf(k, d)) : d \in D}

\* A cluster in the map loses a child, and may be empty then.
NoneAffected(c, p) == None
Affected(c, p) == IF p \in Live(c) THEN p ELSE None

\* The client names things it shows; the file's own cluster stands for all roots.
Shown(k) == Live(view[k]) \cup UNION {view[k][i].members : i \in Live(view[k])}
RemoveMembers(k, d) ==
  LET D == IF d = File THEN roots[k] ELSE {d} IN
  /\ Request(k, TRUE)
  /\ d \in Shown(k)
  /\ ancestors' = AncestorsOf(k, D)
  /\ todo' = D
  /\ Go("remove")
  /\ UNCHANGED <<dataVars, stageVars, fillVars, lost, entities>>

RemoveAccount(e) ==
  LET c == Here
      p == ParentOf(target, e) IN
  /\ pc = "remove" /\ lost = None /\ e \in todo \cap Entities
  /\ todo' = todo \ {e}
  /\ object' = [object EXCEPT ![target][e] = None]
  /\ cluster' = IF p \in Live(c)
                THEN [cluster EXCEPT ![target][p].members = @ \ {e}] ELSE cluster
  /\ lost' = Affected(c, p)
  /\ UNCHANGED <<home, roots, view, pc, requestVars, stageVars, fillVars, ancestors, entities>>

\* The clusters without those in gone, x and what is below it.
Without(c, gone, x) ==
  [i \in Ids |-> IF i \in gone THEN None
                 ELSE IF i = c[x].parent THEN [c[i] EXCEPT !.subs = @ \ {x}] ELSE c[i]]

\* A cluster goes with everything below it.
RemoveCluster(x) ==
  LET c == Here
      gone == Below(c, x)
      p == c[x].parent IN
  /\ pc = "remove" /\ lost = None /\ x \in todo \cap Live(c)
  /\ todo' = todo \ {x}
  /\ object' = [object EXCEPT ![target] =
                  [e \in Entities |-> IF e \in AccountsBelow(c, x) THEN None ELSE @[e]]]
  /\ cluster' = [cluster EXCEPT ![target] = Without(c, gone, x)]
  /\ roots' = [roots EXCEPT ![target] = IF p = None THEN @ \ {x} ELSE @]
  /\ lost' = Affected(c, p)
  /\ UNCHANGED <<home, view, pc, requestVars, stageVars, fillVars, ancestors, entities>>

\* removeFromAncestor: a cluster without children is removed from its parent.
Empty(x) == x.members = {} /\ x.subs = {}
PruneEmpty ==
  LET c == Here
      p == c[lost].parent IN
  /\ pc = "remove" /\ lost # None
  /\ Empty(c[lost])
  /\ cluster' = [cluster EXCEPT ![target] = Without(c, {lost}, lost)]
  /\ roots' = [roots EXCEPT ![target] = IF p = None THEN @ \ {lost} ELSE @]
  /\ lost' = Affected(c, p)
  /\ UNCHANGED <<object, home, view, pc, requestVars, stageVars, fillVars, todo, ancestors, entities>>
PruneEnds ==
  /\ pc = "remove" /\ lost # None
  /\ ~Empty(Here[lost])
  /\ lost' = None
  /\ UNCHANGED <<dataVars, pc, requestVars, stageVars, fillVars, todo, ancestors, entities>>

EndRemove ==
  /\ pc = "remove" /\ lost = None /\ todo = {}
  /\ StartCollapse(target, Updated(Here, roots[target], Present(target)))
  /\ UNCHANGED <<object, home, roots, requestVars, stageVars, fillVars, lost, ancestors>>

-----------------------------------------------------------------------------
(* Simplifying                                                             *)

Copy == view[target]
HasOneSub(x) == Cardinality(x.subs) = 1
IsChain(x) == x.members = {} /\ Cardinality(x.subs) = 1
IsSingleton(x) == Cardinality(x.members) = 1 /\ x.subs = {}

\* Cluster x is visited, and the copies are c afterwards.
MayVisit(x) == pc = "collapse" /\ x \in todo
Visit(x, c) ==
  /\ view' = [view EXCEPT ![target] = c]
  /\ todo' = todo \ {x}
  /\ UNCHANGED <<object, home, cluster, roots, pc, requestVars, stageVars, fillVars,
                 lost, ancestors>>

\* setNewRoot
OldRootReplaced(c, x, s) ==
  LET To(y) == IF y = x THEN s ELSE y IN
  [i \in DOMAIN c |->
     IF i = x \/ c[i] = None THEN None
     ELSE [c[i] EXCEPT !.parent = To(@), !.root = To(@)]]
NewRoot(c, x, s) ==
  LET To(y) == IF y = x THEN s ELSE y IN
  [i \in DOMAIN c |->
     CASE i = x \/ c[i] = None -> None
       [] i = s -> [c[i] EXCEPT !.parent = None, !.root = None]
       [] OTHER -> [c[i] EXCEPT !.parent = To(@), !.root = To(@)]]
DropChainRoot(x) ==
  LET c == Copy
      s == CHOOSE y \in c[x].subs : TRUE IN
  /\ MayVisit(x) /\ IsChain(c[x]) /\ c[x].parent = None
  /\ Visit(x, NewRoot(c, x, s))
  /\ UNCHANGED entities
DropChain(x) ==
  LET c == Copy
      s == CHOOSE y \in c[x].subs : TRUE
      p == c[x].parent IN
  /\ MayVisit(x) /\ IsChain(c[x]) /\ p # None
  /\ Visit(x, [c EXCEPT ![x] = None, ![s].parent = p, ![s].root = c[x].root,
                        ![p].subs = (@ \ {x}) \cup {s}])
  /\ UNCHANGED entities
DropSingletonRoot(x) ==
  LET c == Copy IN
  /\ MayVisit(x) /\ IsSingleton(c[x]) /\ c[x].parent = None
  /\ Visit(x, [c EXCEPT ![x] = None])
  /\ entities' = entities \cup c[x].members
DropSingleton(x) ==
  LET c == Copy
      p == c[x].parent IN
  /\ MayVisit(x) /\ IsSingleton(c[x]) /\ p # None
  /\ Visit(x, IF c[p] = None THEN [c EXCEPT ![x] = None]
              ELSE [c EXCEPT ![x] = None, ![p].subs = @ \ {x},
                             ![p].members = @ \cup c[x].members])
  /\ UNCHANGED entities
Keep(x) ==
  /\ MayVisit(x) /\ ~IsChain(Copy[x]) /\ ~IsSingleton(Copy[x])
  /\ Visit(x, Copy)
  /\ UNCHANGED entities

\* The file's own cluster gets what has no parent; a removal makes none if there
\* is nothing.
EndCollapse ==
  LET c == Copy
      top == {i \in Live(c) : c[i].parent = None}
      shown == entities \cap Present(target) IN
  /\ pc = "collapse" /\ todo = {}
  /\ view' = [view EXCEPT ![target] =
       IF removes /\ shown = {} /\ top = {} THEN c
       ELSE [i \in DOMAIN c |->
               CASE i = File -> [Childless EXCEPT !.members = shown, !.subs = top]
                 [] i \in top -> [c[i] EXCEPT !.parent = File]
                 [] OTHER -> c[i]]]
  /\ ancestors' = {} /\ entities' = {}
  /\ Go("idle")
  /\ UNCHANGED <<object, home, cluster, roots, requestVars, stageVars, fillVars, todo, lost>>

-----------------------------------------------------------------------------
NoClusters == [i \in Ids |-> None]
Init ==
  /\ object = [k \in Contexts |-> [e \in Entities |-> None]]
  /\ home = [e \in Entities |-> [o \in Objects |-> None]]
  /\ cluster = [k \in Contexts |-> NoClusters]
  /\ roots = [k \in Contexts |-> {}]
  /\ view = [k \in Contexts |-> [i \in Ids \cup {File} |-> None]]
  /\ pc = "idle" /\ target \in Contexts /\ requests = 0 /\ removes = FALSE
  /\ stage = 0 /\ modified = {} /\ toSplit = {} /\ results = {}
  /\ splitting = None /\ rest = {} /\ moved = {}
  /\ notFull = <<>> /\ full = <<>> /\ candidate = 1
  /\ todo = {} /\ lost = None /\ ancestors = {} /\ entities = {}

Begin(k) ==
  \/ \E E \in Batches : InsertAccounts(k, E)
  \/ \E j \in Sources[k] : \E x \in Ids \cup {File} : InsertCluster(k, j, x)
  \/ \E d \in Shown(k) : RemoveMembers(k, d)
Work ==
  \/ \E x \in Ids : Split(x) \/ StartFill(x) \/ RemoveCluster(x)
  \/ \E e \in Entities : FillFirst(e) \/ FillNew(e) \/ FillOverflow(e) \/ RemoveAccount(e)
  \/ EndFill \/ NextStage \/ EndSplit \/ PruneEmpty \/ PruneEnds \/ EndRemove
  \/ \E x \in todo : DropChainRoot(x) \/ DropChain(x) \/ DropSingletonRoot(x)
                     \/ DropSingleton(x) \/ Keep(x)
  \/ EndCollapse
Next == Work \/ \E k \in Contexts : Begin(k)

Spec == Init /\ [][Next]_vars
\* A request that has begun runs on.
LiveSpec == Spec /\ WF_vars(Work)
-----------------------------------------------------------------------------
(* Properties                                                              *)

Steps == {"idle", "split", "fill", "remove", "collapse"}

\* Every variable stays in its type.
TypeOK ==
  /\ object \in [Contexts -> [Entities -> Objects \cup {None}]]
  /\ home \in [Entities -> [Objects -> Ids \cup {None}]]
  /\ cluster \in [Contexts -> [Ids -> Cluster \cup {None}]]
  /\ roots \in [Contexts -> SUBSET Ids]
  /\ view \in [Contexts -> [Ids \cup {File} -> Cluster \cup {None}]]
  /\ pc \in Steps /\ target \in Contexts /\ requests \in 0..MaxRequests /\ removes \in BOOLEAN
  /\ stage \in 0..LastStage
  /\ modified \subseteq Ids /\ toSplit \subseteq Ids /\ results \subseteq Ids
  /\ splitting \in Ids \cup {None} /\ rest \subseteq Entities /\ moved \subseteq Ids
  /\ notFull \in Seq(Ids) /\ full \in Seq(Ids) /\ candidate \in 1..MaxSize
  /\ todo \subseteq Ids \cup Entities /\ lost \in Ids \cup {None}
  /\ ancestors \subseteq Ids /\ entities \subseteq Entities

\* Parents and subclusters name each other, and no cluster is below itself.
Linked(c, top) ==
  /\ \A i \in Live(c) : \A j \in c[i].subs : j \in Live(c) /\ c[j].parent = i
  /\ \A i \in Live(c) : c[i].parent # top =>
       c[i].parent \in Live(c) /\ i \in c[c[i].parent].subs
  /\ \A i \in Live(c) : \E r \in Live(c) : c[r].parent = top /\ i \in Below(c, r)

\* Between requests, the clusters of a context are trees whose roots are in the
\* map of roots and known to all clusters below them.
Forest ==
  pc = "idle" => \A k \in Contexts :
    LET c == cluster[k] IN
    /\ Linked(c, None)
    /\ roots[k] = {i \in Live(c) : c[i].parent = None}
    /\ \A r \in roots[k] : \A i \in Below(c, r) : c[i].root = IF i = r THEN None ELSE r

\* Every account of a context is a member of one of its clusters and of no other,
\* whoever shares the account.
AccountsPlaced ==
  pc = "idle" => \A k \in Contexts :
    LET c == cluster[k] IN
    /\ \A e \in Present(k) : Cardinality({i \in Live(c) : e \in c[i].members}) = 1
    /\ \A i \in Live(c) : c[i].members \subseteq Present(k)

\* No cluster is without accounts, in a context or in what is shown of it.
NoEmptyCluster ==
  pc = "idle" => \A k \in Contexts :
    /\ \A i \in Live(cluster[k]) : AccountsBelow(cluster[k], i) # {}
    /\ \A i \in Live(view[k]) : AccountsBelow(view[k], i) # {}

\* After clustering no cluster is larger than the limit, and only leaves have
\* members.
LeavesBounded ==
  pc = "idle" => \A k \in Contexts : \A i \in Live(cluster[k]) :
    LET x == cluster[k][i] IN
    Cardinality(x.members) <= MaxSize /\ (x.members = {} \/ x.subs = {})

\* In whatever order the clusters are visited, the links of the copies lead to
\* copies.
LinksResolve == pc = "collapse" => Linked([i \in Ids |-> Copy[i]], None)

\* The simplified context shows each account once, below the file's cluster, and
\* no cluster in it has one child only.
Simplified ==
  pc = "idle" => \A k \in Contexts :
    LET v == view[k]
        shown == Live(v) \ {File} IN
    /\ \A e \in Present(k) : Cardinality({i \in Live(v) : e \in v[i].members}) = 1
    /\ Live(v) # {} => v[File] # None /\ Linked(v, None)
    /\ \A i \in shown : ~IsChain(v[i]) /\ ~IsSingleton(v[i])

\* The clusters that a removal reports as changed are those that had what is
\* removed below them.
AncestorsFound ==
  [][pc = "idle" /\ pc' = "remove" =>
       ancestors' = {i \in Live(cluster[target']) :
                       \E d \in todo' : d \in AccountsBelow(cluster[target'], i)
                                              \cup (Below(cluster[target'], i) \ {i})}]_vars

\* Every request ends: clusters are not split for ever.
RequestEnds == pc # "idle" ~> pc = "idle"
=============================================================================
