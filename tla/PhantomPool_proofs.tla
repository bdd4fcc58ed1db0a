-------------------------- MODULE PhantomPool_proofs --------------------------
(***************************************************************************)
(* For any number of clients, renderers and pools: a renderer is in one    *)
(* place; a task is in one place between the client that waits for it and  *)
(* the thread that answers it, so that a renderer in the pool is idle and  *)
(* a client gets its own image; and the pool is a capture service.         *)
(***************************************************************************)
EXTENDS PhantomPool, FiniteSetTheorems, SequenceTheorems, TLAPS

-----------------------------------------------------------------------------
(* Sequences                                                               *)

\* The sequence made of a finite set has each of its members once.
LEMMA SetToSeqOnce ==
  ASSUME NEW S, IsFiniteSet(S)
  PROVE  /\ SetToSeq(S) \in Seq(S)
         /\ \A i, k \in DOMAIN SetToSeq(S) : SetToSeq(S)[i] = SetToSeq(S)[k] => i = k
<1> DEFINE n == Cardinality(S)
<1>1. n \in Nat /\ ExistsBijection(1..n, S)
  BY FS_CardinalityType
<1>2. PICK f : f \in [1..n -> S] /\ IsInjective(f)
  BY <1>1 DEF ExistsBijection, Bijection, Injection, Surjection
<1>3. SetToSeq(S) \in [1..n -> S] /\ IsInjective(SetToSeq(S))
  BY <1>2 DEF SetToSeq
<1>4. SetToSeq(S) \in Seq(S)
  BY <1>1, <1>3
<1> QED
  BY <1>3, <1>4 DEF IsInjective

\* Removing the only occurrence of a member.
LEMMA RemoveOnce ==
  ASSUME NEW S, NEW s \in Seq(S), NEW r, NEW k \in 1..Len(s), s[k] = r,
         \A i \in 1..Len(s) : s[i] = r => i = k
  PROVE  RemoveFirst(s, r) = SubSeq(s, 1, k - 1) \o SubSeq(s, k + 1, Len(s))
<1>1. SelectInSeq(s, LAMBDA v : v = r) = k
  <2> DEFINE I == {i \in 1..Len(s) : s[i] = r}
  <2>1. I = {k}
    OBVIOUS
  <2>2. (CHOOSE x \in I : \A y \in I : x =< y) = k
    BY <2>1, LenProperties
  <2> QED
    BY <2>1, <2>2 DEF SelectInSeq, Min
<1> QED
  BY <1>1 DEF RemoveFirst, RemoveAt

\* What is left after the removal, and where it is.
LEMMA RemovedOnce ==
  ASSUME NEW S, NEW s \in Seq(S), NEW r,
         \A i, k \in 1..Len(s) : s[i] = s[k] => i = k
  PROVE  /\ RemoveFirst(s, r) \in Seq(S)
         /\ Len(RemoveFirst(s, r)) \in Nat /\ Len(RemoveFirst(s, r)) <= Len(s)
         /\ \A i \in 1..Len(RemoveFirst(s, r)) :
              \E k \in 1..Len(s) : k \in {i, i + 1} /\ RemoveFirst(s, r)[i] = s[k]
         /\ \A i, k \in 1..Len(RemoveFirst(s, r)) :
              RemoveFirst(s, r)[i] = RemoveFirst(s, r)[k] => i = k
<1>0. Len(s) \in Nat
  BY LenProperties
<1>1. CASE ~\E k \in 1..Len(s) : s[k] = r
  <2>1. RemoveFirst(s, r) = s
    BY <1>1 DEF RemoveFirst
  <2> QED
    BY <1>0, <2>1
<1>2. CASE \E k \in 1..Len(s) : s[k] = r
  <2>1. PICK k \in 1..Len(s) : s[k] = r
    BY <1>2
  <2> DEFINE a == SubSeq(s, 1, k - 1)
             b == SubSeq(s, k + 1, Len(s))
  <2>2. RemoveFirst(s, r) = a \o b
    BY <2>1, RemoveOnce
  <2>0. \A i \in 1..Len(s) : s[i] \in S
    BY ElementOfSeq
  <2>3. /\ a \in Seq(S) /\ Len(a) = k - 1
        /\ \A i \in 1..(k - 1) : a[i] = s[i]
    BY <1>0, <2>0, SubSeqProperties
  <2>4. /\ b \in Seq(S) /\ Len(b) = Len(s) - k
        /\ \A i \in 1..(Len(s) - k) : b[i] = s[k + i]
    BY <1>0, <2>0, SubSeqProperties
  <2> HIDE DEF a, b
  <2>5. PICK t : t = a \o b
    OBVIOUS
  <2>6. /\ t \in Seq(S) /\ Len(t) = Len(a) + Len(b)
        /\ \A i \in 1..(Len(a) + Len(b)) :
             t[i] = IF i <= Len(a) THEN a[i] ELSE b[i - Len(a)]
    <3>1. a \in Seq(S) /\ b \in Seq(S)
      BY <2>3, <2>4
    <3> QED
      BY <2>5, <3>1, ConcatProperties
  <2>7. t \in Seq(S) /\ Len(t) = Len(s) - 1
    BY <1>0, <2>3, <2>4, <2>6
  <2>8. ASSUME NEW i \in 1..Len(t)
        PROVE  t[i] = IF i < k THEN s[i] ELSE s[i + 1]
    <3>1. CASE i < k
      BY <1>0, <2>1, <2>3, <2>4, <2>6, <2>7, <3>1
    <3>2. CASE ~(i < k)
      <4>1. t[i] = b[i - (k - 1)] /\ i - (k - 1) \in 1..(Len(s) - k)
        BY <1>0, <2>1, <2>3, <2>4, <2>6, <2>7, <3>2
      <4>2. b[i - (k - 1)] = s[k + (i - (k - 1))] /\ k + (i - (k - 1)) = i + 1
        BY <1>0, <2>1, <2>4, <4>1
      <4> QED
        BY <3>2, <4>1, <4>2
    <3> QED
      BY <3>1, <3>2
  <2>9. RemoveFirst(s, r) = t
    BY <2>2, <2>5
  <2>10. \A i \in 1..Len(t) :
           \E m \in 1..Len(s) : m \in {i, i + 1} /\ t[i] = s[m]
    BY <1>0, <2>1, <2>7, <2>8
  <2>11. \A i, m \in 1..Len(t) : t[i] = t[m] => i = m
    BY <1>0, <2>1, <2>7, <2>8
  <2>12. Len(t) \in Nat /\ Len(t) <= Len(s)
    BY <1>0, <2>1, <2>7
  <2> HIDE DEF a, b
  <2> QED
    BY <2>7, <2>9, <2>10, <2>11, <2>12
<1> QED
  BY <1>1, <1>2

-----------------------------------------------------------------------------
(* The invariant                                                           *)

\* Where a client's field names a renderer that it may use, and where it holds
\* one that is in no queue.
Naming == {"listen", "add", "list", "reset", "offer", "await", "return", "put"}
Keeping == Naming \ {"list"}
Places == Naming \cup {"init", "make", "check", "take", "done", "failed"}
Has(c, r) == pc[c] \in Keeping /\ renderer[c] = r

Types ==
  /\ available \in Nat
  /\ queue \in [Pools -> Seq(Renderers)]
  /\ pc \in [Clients -> Places]
  /\ pool \in [Clients -> Pools]
  /\ renderer \in [Clients -> Renderers \cup {None}]
  /\ proc \in [Renderers -> {"new", "up", "down"}]
  /\ \A c \in Clients : pc[c] \in Naming => renderer[c] \in Renderers

\* A pool is made by a client that has left init, and but for the one on startup
\* each client makes one at most.
Beyond == {c \in Clients : pc[c] # "init"}
PoolsCounted == available <= Cardinality(Beyond) + 1

OneHolder == \A c, d \in Clients : \A r \in Renderers : Has(c, r) /\ Has(d, r) => c = d
OneSpot ==
  \A p, q \in Pools : \A i \in 1..Len(queue[p]) : \A k \in 1..Len(queue[q]) :
    queue[p][i] = queue[q][k] => p = q /\ i = k
NotBoth ==
  \A c \in Clients : \A p \in Pools : \A i \in 1..Len(queue[p]) : ~Has(c, queue[p][i])
Fresh ==
  \A r \in Renderers : proc[r] = "new" =>
    /\ \A c \in Clients : ~Has(c, r)
    /\ \A p \in Pools : \A i \in 1..Len(queue[p]) : queue[p][i] # r

PlaceInv == Types /\ PoolsCounted /\ OneHolder /\ OneSpot /\ NotBoth /\ Fresh

\* The pool in use is one of the pools.
LEMMA InUse ==
  ASSUME Types, PoolsCounted PROVE available \in Pools
<1>1. Beyond \in SUBSET Clients
  BY DEF Beyond
<1>2. /\ Cardinality(Beyond) \in Nat /\ Cardinality(Clients) \in Nat
      /\ Cardinality(Beyond) <= Cardinality(Clients)
  BY <1>1, PoolAssumption, FS_Subset, FS_CardinalityType
<1> QED
  BY <1>2 DEF Types, PoolsCounted, Pools

\* More clients beyond init count for more.
LEMMA BeyondGrows ==
  ASSUME NEW A \in SUBSET Clients, NEW B \in SUBSET A
  PROVE  Cardinality(A) \in Nat /\ Cardinality(B) \in Nat /\ Cardinality(B) <= Cardinality(A)
<1>1. IsFiniteSet(A)
  BY PoolAssumption, FS_Subset
<1> QED
  BY <1>1, FS_Subset, FS_CardinalityType

LEMMA PlaceInit == Init => PlaceInv
<1> SUFFICES ASSUME Init PROVE PlaceInv
  OBVIOUS
<1>1. IsFiniteSet(Started) /\ Started \subseteq Renderers
  BY PoolAssumption, FS_Subset
<1>2. PICK s : s = SetToSeq(Started)
  OBVIOUS
<1>3. s \in Seq(Started) /\ \A i, k \in DOMAIN s : s[i] = s[k] => i = k
  BY <1>1, <1>2, SetToSeqOnce
<1>4. s \in Seq(Renderers) /\ DOMAIN s = 1..Len(s) /\ \A i \in 1..Len(s) : s[i] \in Started
  BY <1>1, <1>3
<1>5. queue = [p \in Pools |-> IF p = 1 THEN s ELSE <<>>]
  BY <1>2 DEF Init
<1>6. \A p \in Pools : queue[p] = IF p = 1 THEN s ELSE <<>>
  BY <1>5
<1>7. queue \in [Pools -> Seq(Renderers)]
  BY <1>4, <1>5
<1>8. Cardinality(Clients) \in Nat
  BY PoolAssumption, FS_CardinalityType
<1>9. Types
  <2>1. available \in Nat
    BY DEF Init
  <2>2. pc \in [Clients -> Places] /\ renderer \in [Clients -> Renderers \cup {None}]
    BY DEF Init, Places
  <2>3. pool \in [Clients -> Pools]
    BY <1>8 DEF Init, Pools
  <2>4. proc \in [Renderers -> {"new", "up", "down"}]
    BY DEF Init
  <2>5. \A c \in Clients : pc[c] \notin Naming
    BY DEF Init, Naming
  <2> QED
    BY <1>7, <2>1, <2>2, <2>3, <2>4, <2>5 DEF Types
<1>10. PoolsCounted
  <2>1. Beyond = {}
    BY DEF Init, Beyond
  <2> QED
    BY <2>1, FS_EmptySet DEF Init, PoolsCounted
<1>11. OneHolder
  BY DEF Init, OneHolder, Has, Keeping, Naming
<1>12. OneSpot
  BY <1>3, <1>4, <1>6 DEF OneSpot
<1>13. NotBoth
  BY DEF Init, NotBoth, Has, Keeping, Naming
<1>14. Fresh
  <2>1. \A c \in Clients : \A r \in Renderers : ~Has(c, r)
    BY DEF Init, Has, Keeping, Naming
  <2>2. \A r \in Renderers : proc[r] = "new" => r \notin Started
    BY DEF Init
  <2>3. \A p \in Pools : \A i \in 1..Len(queue[p]) : queue[p][i] \in Started
    BY <1>4, <1>6
  <2> QED
    BY <2>1, <2>2, <2>3 DEF Fresh
<1> QED
  BY <1>9, <1>10, <1>11, <1>12, <1>13, <1>14 DEF PlaceInv

-----------------------------------------------------------------------------
(* The kinds of steps                                                      *)

\* What is left to show of a step once the count of pools is.
Rest ==
  /\ queue \in [Pools -> Seq(Renderers)]
  /\ pc \in [Clients -> Places]
  /\ pool \in [Clients -> Pools]
  /\ renderer \in [Clients -> Renderers \cup {None}]
  /\ proc \in [Renderers -> {"new", "up", "down"}]
  /\ \A c \in Clients : pc[c] \in Naming => renderer[c] \in Renderers
  /\ OneHolder /\ OneSpot /\ NotBoth /\ Fresh

\* Queues and fields stay; nobody comes to hold anything, and nothing becomes new.
LEMMA Passing ==
  ASSUME PlaceInv,
         queue' = queue, renderer' = renderer,
         pc' \in [Clients -> Places], pool' \in [Clients -> Pools],
         proc' \in [Renderers -> {"new", "up", "down"}],
         \A c \in Clients : pc'[c] \in Keeping => pc[c] \in Keeping,
         \A c \in Clients : pc'[c] \in Naming => pc[c] \in Naming,
         \A r \in Renderers : proc'[r] = "new" => proc[r] = "new"
  PROVE  Rest'
<1>1. \A c \in Clients : \A r \in Renderers : Has(c, r)' => Has(c, r)
  BY DEF Has
<1>2. \A p \in Pools : queue[p] \in Seq(Renderers) /\ \A i \in 1..Len(queue[p]) : queue[p][i] \in Renderers
  BY DEF PlaceInv, Types
<1>3. OneHolder'
  BY <1>1 DEF PlaceInv, OneHolder
<1>4. OneSpot'
  BY DEF PlaceInv, OneSpot
<1>5. NotBoth'
  BY <1>1, <1>2 DEF PlaceInv, NotBoth
<1>6. Fresh'
  BY <1>1 DEF PlaceInv, Fresh
<1> QED
  BY <1>3, <1>4, <1>5, <1>6 DEF Rest, PlaceInv, Types

\* A client appends the renderer it holds to a queue, and holds it no longer.
LEMMA Appended ==
  ASSUME PlaceInv, NEW c \in Clients, NEW p \in Pools, NEW place \in Places \ Keeping,
         pc[c] \in Keeping,
         place \in Naming => renderer' = renderer,
         queue' = [queue EXCEPT ![p] = Append(queue[p], renderer[c])],
         pc' = [pc EXCEPT ![c] = place],
         renderer' \in [Clients -> Renderers \cup {None}],
         \A d \in Clients \ {c} : renderer'[d] = renderer[d],
         pool' = pool, proc' = proc
  PROVE  Rest'
<1>1. PICK r \in Renderers : r = renderer[c] /\ Has(c, r)
  BY DEF PlaceInv, Types, Has, Keeping
<1>2. \A d \in Clients : \A x \in Renderers : Has(d, x)' => d # c /\ Has(d, x)
  BY DEF Has, PlaceInv, Types
<1>3. \A d \in Clients \ {c} : ~Has(d, r)
  BY <1>1 DEF PlaceInv, OneHolder
<1>4. PICK s : s = queue[p]
  OBVIOUS
<1>5. s \in Seq(Renderers) /\ \A i \in 1..Len(s) : s[i] \in Renderers
  BY <1>4 DEF PlaceInv, Types
<1>6. PICK t : t = Append(s, r)
  OBVIOUS
<1>7. /\ t \in Seq(Renderers) /\ Len(s) \in Nat /\ Len(t) = Len(s) + 1
      /\ \A i \in 1..Len(s) : t[i] = s[i]
      /\ t[Len(s) + 1] = r
  BY <1>5, <1>6, AppendProperties, LenProperties
<1>8. queue' = [queue EXCEPT ![p] = t]
  BY <1>1, <1>4, <1>6
<1>9. /\ queue' \in [Pools -> Seq(Renderers)]
      /\ queue'[p] = t /\ \A q \in Pools \ {p} : queue'[q] = queue[q]
  BY <1>7, <1>8 DEF PlaceInv, Types
<1>10. \A q \in Pools : \A i \in 1..Len(queue[q]) : queue[q][i] # r /\ queue[q][i] \in Renderers
  BY <1>1 DEF PlaceInv, NotBoth, Types
\* a place of a queue is one it had, or the new one
<1>11. ASSUME NEW q \in Pools, NEW i \in 1..Len(queue'[q])
       PROVE  \/ i \in 1..Len(queue[q]) /\ queue'[q][i] = queue[q][i]
              \/ q = p /\ i = Len(s) + 1 /\ queue'[q][i] = r
  BY <1>4, <1>7, <1>9
<1>12. OneSpot'
  <2> SUFFICES ASSUME NEW q \in Pools, NEW q2 \in Pools,
                      NEW i \in 1..Len(queue'[q]), NEW k \in 1..Len(queue'[q2]),
                      queue'[q][i] = queue'[q2][k]
               PROVE  q = q2 /\ i = k
    BY DEF OneSpot
  <2>1. CASE i \in 1..Len(queue[q]) /\ queue'[q][i] = queue[q][i]
    <3>1. k \in 1..Len(queue[q2]) /\ queue'[q2][k] = queue[q2][k]
      BY <1>10, <1>11, <2>1
    <3> QED
      BY <2>1, <3>1 DEF PlaceInv, OneSpot
  <2>2. CASE q = p /\ i = Len(s) + 1 /\ queue'[q][i] = r
    <3>1. q2 = p /\ k = Len(s) + 1
      BY <1>10, <1>11, <2>2
    <3> QED
      BY <2>2, <3>1
  <2> QED
    BY <1>11, <2>1, <2>2
<1>13. NotBoth'
  <2> SUFFICES ASSUME NEW d \in Clients, NEW q \in Pools, NEW i \in 1..Len(queue'[q]),
                      Has(d, queue[q][i])'
               PROVE  FALSE
    BY DEF NotBoth
  <2>1. queue'[q][i] \in Renderers
    BY <1>1, <1>10, <1>11
  <2>2. d # c /\ Has(d, queue'[q][i])
    BY <1>2, <2>1 DEF Has
  <2>3. queue'[q][i] # r
    BY <1>3, <2>2
  <2>4. i \in 1..Len(queue[q]) /\ queue'[q][i] = queue[q][i]
    BY <1>11, <2>3
  <2> QED
    BY <2>2, <2>4 DEF PlaceInv, NotBoth
<1>14. OneHolder'
  <2> SUFFICES ASSUME NEW d \in Clients, NEW e \in Clients, NEW x \in Renderers,
                      Has(d, x)', Has(e, x)'
               PROVE  d = e
    BY DEF OneHolder
  <2>1. Has(d, x) /\ Has(e, x)
    BY <1>2
  <2> QED
    BY <2>1 DEF PlaceInv, OneHolder
<1>15. Fresh'
  <2>1. proc[r] # "new"
    BY <1>1 DEF PlaceInv, Fresh
  <2> SUFFICES ASSUME NEW x \in Renderers, proc[x] = "new"
               PROVE  /\ \A d \in Clients : ~Has(d, x)'
                      /\ \A q \in Pools : \A i \in 1..Len(queue'[q]) : queue'[q][i] # x
    BY DEF Fresh
  <2>2. \A d \in Clients : ~Has(d, x)'
    BY <1>2 DEF PlaceInv, Fresh
  <2>3. \A q \in Pools : \A i \in 1..Len(queue'[q]) : queue'[q][i] # x
    BY <1>11, <2>1 DEF PlaceInv, Fresh
  <2> QED
    BY <2>2, <2>3
<1>16. pc' \in [Clients -> Places]
  BY DEF PlaceInv, Types
<1>17. \A d \in Clients : pc'[d] \in Naming => renderer'[d] \in Renderers
  <2>1. pc \in [Clients -> Places] /\ \A d \in Clients : pc[d] \in Naming => renderer[d] \in Renderers
    BY DEF PlaceInv, Types
  <2>2. pc[c] \in Naming
    BY DEF Keeping
  <2> QED
    BY <2>1, <2>2
<1> QED
  BY <1>9, <1>12, <1>13, <1>14, <1>15, <1>16, <1>17 DEF Rest, PlaceInv, Types

\* A queue that has lost some renderers.
LEMMA Shortened ==
  ASSUME PlaceInv, NEW p \in Pools, NEW t \in Seq(Renderers),
         \A i \in 1..Len(t) : \E k \in 1..Len(queue[p]) : t[i] = queue[p][k],
         \A i, k \in 1..Len(t) : t[i] = t[k] => i = k,
         queue' = [queue EXCEPT ![p] = t]
  PROVE  /\ queue' \in [Pools -> Seq(Renderers)]
         /\ queue'[p] = t /\ \A q \in Pools \ {p} : queue'[q] = queue[q]
         /\ \A q \in Pools : \A i \in 1..Len(queue'[q]) :
              \E k \in 1..Len(queue[q]) : queue'[q][i] = queue[q][k]
         /\ OneSpot'
<1>1. /\ queue' \in [Pools -> Seq(Renderers)]
      /\ queue'[p] = t /\ \A q \in Pools \ {p} : queue'[q] = queue[q]
  BY DEF PlaceInv, Types
<1>2. \A q \in Pools : \A i \in 1..Len(queue'[q]) :
        \E k \in 1..Len(queue[q]) : queue'[q][i] = queue[q][k]
  BY <1>1
<1>3. OneSpot'
  <2> SUFFICES ASSUME NEW q \in Pools, NEW q2 \in Pools,
                      NEW i \in 1..Len(queue'[q]), NEW k \in 1..Len(queue'[q2]),
                      queue'[q][i] = queue'[q2][k]
               PROVE  q = q2 /\ i = k
    BY DEF OneSpot
  <2>1. q = q2
    BY <1>2 DEF PlaceInv, OneSpot
  <2>2. CASE q = p
    BY <1>1, <2>1, <2>2
  <2>3. CASE q # p
    BY <1>1, <2>1, <2>3 DEF PlaceInv, OneSpot
  <2> QED
    BY <2>1, <2>2, <2>3
<1> QED
  BY <1>1, <1>2, <1>3

LEMMA RestOfMakeRenderer ==
  ASSUME PlaceInv, NEW c \in Clients, NEW r \in Renderers, MakeRenderer(c, r) PROVE Rest'
<1>1. /\ pc' = [pc EXCEPT ![c] = "listen"] /\ renderer' = [renderer EXCEPT ![c] = r]
      /\ proc' = [proc EXCEPT ![r] = "up"] /\ proc[r] = "new"
      /\ queue' = queue /\ pool' = pool
  BY DEF MakeRenderer, Go, poolVars
<1>2. /\ pc' \in [Clients -> Places] /\ renderer' \in [Clients -> Renderers \cup {None}]
      /\ proc' \in [Renderers -> {"new", "up", "down"}]
      /\ \A d \in Clients : pc'[d] \in Naming => renderer'[d] \in Renderers
  BY <1>1 DEF PlaceInv, Types, Places, Naming
<1>3. \A d \in Clients : \A x \in Renderers : Has(d, x)' => Has(d, x) \/ (d = c /\ x = r)
  BY <1>1 DEF Has, PlaceInv, Types
<1>4. /\ \A d \in Clients : ~Has(d, r)
      /\ \A p \in Pools : \A i \in 1..Len(queue[p]) : queue[p][i] # r
  BY <1>1 DEF PlaceInv, Fresh
<1>5. OneHolder'
  <2> SUFFICES ASSUME NEW d \in Clients, NEW e \in Clients, NEW x \in Renderers,
                      Has(d, x)', Has(e, x)'
               PROVE  d = e
    BY DEF OneHolder
  <2> QED
    BY <1>3, <1>4 DEF PlaceInv, OneHolder
<1>6. OneSpot'
  BY <1>1 DEF PlaceInv, OneSpot
<1>7. NotBoth'
  <2> SUFFICES ASSUME NEW d \in Clients, NEW q \in Pools, NEW i \in 1..Len(queue[q]),
                      Has(d, queue[q][i])'
               PROVE  FALSE
    BY <1>1 DEF NotBoth
  <2>1. queue[q][i] \in Renderers
    BY DEF PlaceInv, Types
  <2>2. Has(d, queue[q][i])
    BY <1>1, <1>3, <1>4, <2>1 DEF Has
  <2> QED
    BY <2>2 DEF PlaceInv, NotBoth
<1>8. Fresh'
  <2> SUFFICES ASSUME NEW x \in Renderers, proc'[x] = "new"
               PROVE  /\ \A d \in Clients : ~Has(d, x)'
                      /\ \A q \in Pools : \A i \in 1..Len(queue[q]) : queue[q][i] # x
    BY <1>1 DEF Fresh
  <2>1. x # r /\ proc[x] = "new"
    BY <1>1 DEF PlaceInv, Types
  <2> QED
    BY <1>3, <2>1 DEF PlaceInv, Fresh
<1> QED
  BY <1>1, <1>2, <1>5, <1>6, <1>7, <1>8 DEF Rest, PlaceInv, Types

LEMMA RestOfAddRenderer ==
  ASSUME PlaceInv, NEW c \in Clients, AddRenderer(c) PROVE Rest'
<1>1. /\ pc[c] = "add" /\ pool' = pool /\ renderer' = renderer /\ proc' = proc
      /\ available \in Pools
  BY InUse DEF AddRenderer, At, procVars, PlaceInv
<1>2. CASE Len(queue[available]) < PoolSize
  <2>1. /\ queue' = [queue EXCEPT ![available] = Append(queue[available], renderer[c])]
        /\ pc' = [pc EXCEPT ![c] = "list"]
    BY <1>2 DEF AddRenderer, Go
  <2>2. "list" \in Places \ Keeping /\ pc[c] \in Keeping
    BY <1>1 DEF Places, Keeping, Naming
  <2>3. renderer' \in [Clients -> Renderers \cup {None}]
    BY <1>1 DEF PlaceInv, Types
  <2> QED
    BY <1>1, <2>1, <2>2, <2>3, Appended
<1>3. CASE ~(Len(queue[available]) < PoolSize)
  <2>1. queue' = queue /\ pc' = [pc EXCEPT ![c] = "failed"]
    BY <1>3 DEF AddRenderer, Go
  <2>2. "failed" \in Places /\ "failed" \notin Naming /\ "failed" \notin Keeping
    BY DEF Places, Keeping, Naming
  <2> QED
    BY <1>1, <2>1, <2>2, Passing DEF PlaceInv, Types
<1> QED
  BY <1>2, <1>3

LEMMA RestOfPutBack ==
  ASSUME PlaceInv, NEW c \in Clients, PutBack(c) PROVE Rest'
<1>1. /\ pc[c] = "put" /\ pool' = pool /\ proc' = proc
      /\ renderer' = [renderer EXCEPT ![c] = None] /\ pc' = [pc EXCEPT ![c] = "done"]
      /\ queue' = [queue EXCEPT ![pool[c]] = Append(queue[pool[c]], renderer[c])]
  BY DEF PutBack, At, Go, procVars
<1>2. "done" \in Places \ Keeping /\ "done" \notin Naming /\ pc[c] \in Keeping
  BY <1>1 DEF Places, Keeping, Naming
<1>3. /\ renderer' \in [Clients -> Renderers \cup {None}] /\ pool[c] \in Pools
      /\ \A d \in Clients \ {c} : renderer'[d] = renderer[d]
  BY <1>1 DEF PlaceInv, Types
<1> QED
  BY <1>1, <1>2, <1>3, Appended

LEMMA RestOfListRenderer ==
  ASSUME PlaceInv, NEW c \in Clients, ListRenderer(c) PROVE Rest'
<1>1. /\ queue' = queue /\ pool' = pool /\ proc' = proc
      /\ renderer' = [renderer EXCEPT ![c] = None] /\ pc' = [pc EXCEPT ![c] = "make"]
  BY DEF ListRenderer, Go, procVars
<1>2. "make" \in Places /\ "make" \notin Naming /\ "make" \notin Keeping
  BY DEF Places, Keeping, Naming
<1>3. /\ pc' \in [Clients -> Places] /\ renderer' \in [Clients -> Renderers \cup {None}]
      /\ \A d \in Clients : pc'[d] \in Naming => renderer'[d] \in Renderers
  BY <1>1, <1>2 DEF PlaceInv, Types
<1>4. \A d \in Clients : \A x : Has(d, x)' => Has(d, x)
  BY <1>1, <1>2 DEF Has, PlaceInv, Types
<1>5. OneHolder'
  <2> SUFFICES ASSUME NEW d \in Clients, NEW e \in Clients, NEW x \in Renderers,
                      Has(d, x)', Has(e, x)'
               PROVE  d = e
    BY DEF OneHolder
  <2> QED
    BY <1>4 DEF PlaceInv, OneHolder
<1>6. OneSpot'
  BY <1>1 DEF PlaceInv, OneSpot
<1>7. NotBoth'
  BY <1>1, <1>4 DEF PlaceInv, NotBoth, Has
<1>8. Fresh'
  BY <1>1, <1>4 DEF PlaceInv, Fresh
<1> QED
  BY <1>1, <1>3, <1>5, <1>6, <1>7, <1>8 DEF Rest, PlaceInv, Types

LEMMA RestOfTakeRenderer ==
  ASSUME PlaceInv, NEW c \in Clients, TakeRenderer(c) PROVE Rest'
<1>1. PICK s : s = queue[pool[c]]
  OBVIOUS
<1>2. PICK r : r = Head(s)
  OBVIOUS
<1>3. PICK place \in {"reset", "offer"} : pc' = [pc EXCEPT ![c] = place]
  BY DEF TakeRenderer, Go
<1>4. /\ s # <<>> /\ pool' = pool /\ proc' = proc
      /\ queue' = [queue EXCEPT ![pool[c]] = Tail(s)]
      /\ renderer' = [renderer EXCEPT ![c] = r]
  BY <1>1, <1>2 DEF TakeRenderer, procVars
<1>5. pool[c] \in Pools /\ s \in Seq(Renderers)
  BY <1>1 DEF PlaceInv, Types
<1>6. /\ Len(s) \in Nat /\ Len(s) >= 1 /\ r = s[1] /\ r \in Renderers
  BY <1>2, <1>4, <1>5
<1>7. PICK t : t = Tail(s)
  OBVIOUS
<1>8. /\ t \in Seq(Renderers) /\ Len(t) = Len(s) - 1
      /\ \A i \in 1..Len(t) : t[i] = s[i + 1]
  <2>1. t \in Seq(Renderers) /\ Len(t) = Len(s) - 1
    BY <1>4, <1>5, <1>7
  <2>2. \A i \in 1..Len(Tail(s)) : Tail(s)[i] = s[i + 1]
    BY <1>4, <1>5
  <2> QED
    BY <1>7, <2>1, <2>2
<1>9. \A i, k \in 1..Len(s) : s[i] = s[k] => i = k
  BY <1>1, <1>5 DEF PlaceInv, OneSpot
<1>10. /\ \A i \in 1..Len(t) : \E k \in 1..Len(s) : t[i] = s[k]
       /\ \A i, k \in 1..Len(t) : t[i] = t[k] => i = k
       /\ \A i \in 1..Len(t) : t[i] # r
  BY <1>6, <1>8, <1>9
<1>11. queue' = [queue EXCEPT ![pool[c]] = t]
  BY <1>4, <1>7
<1>12. /\ queue' \in [Pools -> Seq(Renderers)]
       /\ queue'[pool[c]] = t /\ \A q \in Pools \ {pool[c]} : queue'[q] = queue[q]
       /\ \A q \in Pools : \A i \in 1..Len(queue'[q]) :
            \E k \in 1..Len(queue[q]) : queue'[q][i] = queue[q][k]
       /\ OneSpot'
  <2>1. PICK p \in Pools : p = pool[c]
    BY <1>5
  <2>2. /\ \A i \in 1..Len(t) : \E k \in 1..Len(queue[p]) : t[i] = queue[p][k]
        /\ queue' = [queue EXCEPT ![p] = t]
    BY <1>1, <1>10, <1>11, <2>1
  <2>3. /\ queue' \in [Pools -> Seq(Renderers)]
        /\ queue'[p] = t /\ \A q \in Pools \ {p} : queue'[q] = queue[q]
        /\ \A q \in Pools : \A i \in 1..Len(queue'[q]) :
             \E k \in 1..Len(queue[q]) : queue'[q][i] = queue[q][k]
        /\ OneSpot'
    BY <1>8, <1>10, <2>2, Shortened
  <2> QED
    BY <2>1, <2>3
<1>13. /\ place \in Places
       /\ pc' \in [Clients -> Places] /\ renderer' \in [Clients -> Renderers \cup {None}]
       /\ \A d \in Clients : pc'[d] \in Naming => renderer'[d] \in Renderers
  BY <1>3, <1>4, <1>6 DEF PlaceInv, Types, Places, Naming
<1>14. \A d \in Clients : \A x : Has(d, x)' => Has(d, x) \/ (d = c /\ x = r)
  BY <1>3, <1>4 DEF Has, PlaceInv, Types
<1>15. \A d \in Clients : ~Has(d, r)
  BY <1>1, <1>5, <1>6 DEF PlaceInv, NotBoth
<1>16. OneHolder'
  <2> SUFFICES ASSUME NEW d \in Clients, NEW e \in Clients, NEW x \in Renderers,
                      Has(d, x)', Has(e, x)'
               PROVE  d = e
    BY DEF OneHolder
  <2> QED
    BY <1>14, <1>15 DEF PlaceInv, OneHolder
\* the renderer taken is in no queue any more
<1>17. ASSUME NEW q \in Pools, NEW i \in 1..Len(queue'[q]) PROVE queue'[q][i] # r
  <2>1. CASE q = pool[c]
    BY <1>10, <1>12, <2>1
  <2>2. CASE q # pool[c]
    <3>1. queue'[q] = queue[q]
      BY <1>12, <2>2
    <3>2. ~(queue[q][i] = queue[pool[c]][1])
      BY <1>1, <1>5, <1>6, <2>2, <3>1 DEF PlaceInv, OneSpot
    <3> QED
      BY <1>1, <1>6, <3>1, <3>2
  <2> QED
    BY <2>1, <2>2
<1>18. NotBoth'
  <2> SUFFICES ASSUME NEW d \in Clients, NEW q \in Pools, NEW i \in 1..Len(queue'[q]),
                      Has(d, queue[q][i])'
               PROVE  FALSE
    BY DEF NotBoth
  <2>1. PICK x : x = queue'[q][i]
    OBVIOUS
  <2>2. Has(d, x)' /\ x # r
    BY <1>17, <2>1 DEF Has
  <2>3. Has(d, x)
    BY <1>14, <2>2
  <2>4. PICK k \in 1..Len(queue[q]) : x = queue[q][k]
    BY <1>12, <2>1
  <2> QED
    BY <2>3, <2>4 DEF PlaceInv, NotBoth
<1>19. Fresh'
  <2> SUFFICES ASSUME NEW x \in Renderers, proc[x] = "new"
               PROVE  /\ \A d \in Clients : ~Has(d, x)'
                      /\ \A q \in Pools : \A i \in 1..Len(queue'[q]) : queue'[q][i] # x
    BY <1>4 DEF Fresh
  <2>1. x # r
    BY <1>1, <1>5, <1>6 DEF PlaceInv, Fresh
  <2>2. \A d \in Clients : ~Has(d, x)'
    BY <1>14, <2>1 DEF PlaceInv, Fresh
  <2>3. \A q \in Pools : \A i \in 1..Len(queue'[q]) : queue'[q][i] # x
    BY <1>12 DEF PlaceInv, Fresh
  <2> QED
    BY <2>2, <2>3
<1> QED
  BY <1>4, <1>12, <1>13, <1>16, <1>18, <1>19 DEF Rest, PlaceInv, Types

LEMMA RestOfReadShutdown ==
  ASSUME PlaceInv, NEW r \in Renderers, ReadShutdown(r) PROVE Rest'
<1>1. /\ pc' = pc /\ pool' = pool /\ renderer' = renderer /\ proc' = proc
      /\ available \in Pools
  BY InUse DEF ReadShutdown, clientVars, PlaceInv
<1>2. CASE r \notin listening
  <2>1. queue' = queue
    BY <1>2 DEF ReadShutdown
  <2> QED
    BY <1>1, <2>1, Passing DEF PlaceInv, Types
<1>3. CASE r \in listening
  <2>1. PICK s : s = queue[available]
    OBVIOUS
  <2>2. PICK t : t = RemoveFirst(s, r)
    OBVIOUS
  <2>3. queue' = [queue EXCEPT ![available] = t]
    BY <1>3, <2>1, <2>2 DEF ReadShutdown
  <2>4. s \in Seq(Renderers) /\ \A i, k \in 1..Len(s) : s[i] = s[k] => i = k
    BY <1>1, <2>1 DEF PlaceInv, Types, OneSpot
  <2>5. /\ t \in Seq(Renderers)
        /\ \A i \in 1..Len(t) : \E k \in 1..Len(s) : t[i] = s[k]
        /\ \A i, k \in 1..Len(t) : t[i] = t[k] => i = k
    BY <2>2, <2>4, RemovedOnce
  <2>6. /\ queue' \in [Pools -> Seq(Renderers)]
        /\ \A q \in Pools : \A i \in 1..Len(queue'[q]) :
             \E k \in 1..Len(queue[q]) : queue'[q][i] = queue[q][k]
        /\ OneSpot'
    BY <1>1, <2>1, <2>3, <2>5, Shortened
  <2>7. \A d \in Clients : \A x : Has(d, x)' <=> Has(d, x)
    BY <1>1 DEF Has
  <2>8. OneHolder'
    BY <1>1 DEF PlaceInv, OneHolder, Has
  <2>9. NotBoth'
    <3> SUFFICES ASSUME NEW d \in Clients, NEW q \in Pools, NEW i \in 1..Len(queue'[q]),
                        Has(d, queue[q][i])'
                 PROVE  FALSE
      BY DEF NotBoth
    <3>1. PICK k \in 1..Len(queue[q]) : queue'[q][i] = queue[q][k]
      BY <2>6
    <3>2. Has(d, queue[q][k])
      BY <1>1, <3>1 DEF Has
    <3> QED
      BY <3>2 DEF PlaceInv, NotBoth
  <2>10. Fresh'
    BY <1>1, <2>6, <2>7 DEF PlaceInv, Fresh
  <2> QED
    BY <1>1, <2>6, <2>8, <2>9, <2>10 DEF Rest, PlaceInv, Types
<1> QED
  BY <1>2, <1>3

\* A client goes on without a change of what it holds.
LEMMA RestOfMove ==
  ASSUME PlaceInv, NEW c \in Clients, NEW place \in Places,
         place \in Keeping => pc[c] \in Keeping, place \in Naming => pc[c] \in Naming,
         pc' = [pc EXCEPT ![c] = place],
         queue' = queue, renderer' = renderer, proc' = proc,
         pool' \in {pool, [pool EXCEPT ![c] = available]}
  PROVE  Rest'
<1>1. pc' \in [Clients -> Places] /\ pool' \in [Clients -> Pools]
  BY InUse DEF PlaceInv, Types
<1>2. \A d \in Clients : /\ pc'[d] \in Keeping => pc[d] \in Keeping
                         /\ pc'[d] \in Naming => pc[d] \in Naming
  BY DEF PlaceInv, Types
<1> QED
  BY <1>1, <1>2, Passing DEF PlaceInv, Types

LEMMA RestOfClient ==
  ASSUME PlaceInv, NEW c \in Clients,
         \/ AlreadyInitialized(c) \/ StartPool(c) \/ Listen(c) \/ PoolMade(c)
         \/ CheckPool(c) \/ ReadQueue(c)
  PROVE  Rest'
<1>1. CASE AlreadyInitialized(c)
  BY <1>1, RestOfMove DEF AlreadyInitialized, Go, poolVars, procVars, Places, Keeping, Naming
<1>2. CASE StartPool(c)
  BY <1>2, RestOfMove DEF StartPool, Go, procVars, Places, Keeping, Naming
<1>3. CASE Listen(c)
  BY <1>3, RestOfMove DEF Listen, At, Go, procVars, Places, Keeping, Naming
<1>4. CASE PoolMade(c)
  BY <1>4, RestOfMove DEF PoolMade, Go, poolVars, procVars, Places, Keeping, Naming
<1>5. CASE CheckPool(c)
  <2>1. CASE lookup = {}
    BY <1>5, <2>1, RestOfMove DEF CheckPool, Go, poolVars, procVars, Places, Keeping, Naming
  <2>2. CASE lookup # {}
    BY <1>5, <2>2, RestOfMove DEF CheckPool, Go, poolVars, procVars, Places, Keeping, Naming
  <2> QED
    BY <2>1, <2>2
<1>6. CASE ReadQueue(c)
  BY <1>6, RestOfMove DEF ReadQueue, At, Go, poolVars, procVars, Places, Keeping, Naming
<1> QED
  BY <1>1, <1>2, <1>3, <1>4, <1>5, <1>6

\* A client hands its task over, or gets its result.
LEMMA RestOfExchange ==
  ASSUME PlaceInv, NEW c \in Clients, NEW r \in Renderers, PollTask(r, c) \/ Deliver(r, c)
  PROVE  Rest'
<1>1. CASE PollTask(r, c)
  <2>1. /\ queue' = queue /\ renderer' = renderer /\ proc' = proc /\ pool' = pool
        /\ pc[c] \in {"reset", "offer"}
        /\ \E place \in {"offer", "await"} : pc' = [pc EXCEPT ![c] = place]
    BY <1>1 DEF PollTask, Offering, Go, poolVars, procVars
  <2> QED
    BY <2>1, RestOfMove DEF Places, Keeping, Naming
<1>2. CASE Deliver(r, c)
  BY <1>2, RestOfMove DEF Deliver, At, Go, poolVars, procVars, Places, Keeping, Naming
<1> QED
  BY <1>1, <1>2

\* The threads of a task request and of the output, and the process, move no renderer.
Elsewhere == queue' = queue /\ pc' = pc /\ pool' = pool /\ renderer' = renderer

LEMMA RestElsewhere ==
  ASSUME PlaceInv, Elsewhere,
         proc' = proc \/ \E r \in Renderers : proc' = [proc EXCEPT ![r] = "down"]
  PROVE  Rest'
<1>1. /\ proc' \in [Renderers -> {"new", "up", "down"}]
      /\ \A r \in Renderers : proc'[r] = "new" => proc[r] = "new"
  BY DEF PlaceInv, Types
<1> QED
  BY <1>1, Passing DEF Elsewhere, PlaceInv, Types

LEMMA RestOfRenderer ==
  ASSUME PlaceInv, NEW r \in Renderers,
         \/ PollTimeout(r) \/ SetInProgress(r) \/ Write(r) \/ WriteFails(r) \/ Work(r)
         \/ ReadLine(r) \/ OutputEnds(r) \/ ClearInProgress(r) \/ Respond(r) \/ RespondNone(r)
         \/ Fault(r)
  PROVE  Rest'
<1>1. CASE PollTimeout(r) \/ SetInProgress(r) \/ Write(r) \/ WriteFails(r)
  <2>1. Elsewhere /\ proc' = proc
    BY <1>1 DEF PollTimeout, SetInProgress, Write, WriteFails, Elsewhere, poolVars, clientVars,
       procVars
  <2> QED
    BY <2>1, RestElsewhere
<1>2. CASE ReadLine(r) \/ OutputEnds(r) \/ ClearInProgress(r) \/ Respond(r) \/ RespondNone(r)
  <2>1. Elsewhere /\ proc' = proc
    BY <1>2 DEF ReadLine, OutputEnds, ClearInProgress, Respond, RespondNone, Responding, Elsewhere,
                poolVars, clientVars, procVars
  <2> QED
    BY <2>1, RestElsewhere
<1>3. CASE Work(r)
  <2>1. CASE Ask(r)
    <3>1. Elsewhere /\ (proc' = proc \/ proc' = [proc EXCEPT ![r] = "down"])
      BY <2>1 DEF Ask, Elsewhere, poolVars, clientVars
    <3> QED
      BY <3>1, RestElsewhere
  <2>2. CASE ShutDown(r)
    <3>1. Elsewhere /\ proc' = [proc EXCEPT ![r] = "down"]
      BY <2>2 DEF ShutDown, Elsewhere, poolVars, clientVars
    <3> QED
      BY <3>1, RestElsewhere
  <2>3. CASE ReadReconnect(r) \/ Loaded(r) \/ LoadFailed(r)
    <3>1. Elsewhere /\ proc' = proc
      BY <2>3 DEF ReadReconnect, Loaded, LoadFailed, Elsewhere, poolVars, clientVars
    <3> QED
      BY <3>1, RestElsewhere
  <2>4. CASE \E c \in Clients : ReadTask(r, c)
    <3>1. Elsewhere /\ proc' = proc
      BY <2>4 DEF ReadTask, Elsewhere, poolVars, clientVars
    <3> QED
      BY <3>1, RestElsewhere
  <2>5. CASE \E k \in {"current", "stray"} : TimerFires(r, k)
    <3>1. Elsewhere /\ proc' = proc
      BY <2>5 DEF TimerFires, Elsewhere, poolVars, clientVars
    <3> QED
      BY <3>1, RestElsewhere
  <2> QED
    BY <1>3, <2>1, <2>2, <2>3, <2>4, <2>5 DEF Work
<1>4. CASE Fault(r)
  <2>1. CASE PageCalls(r) \/ ConnectionLost(r)
    <3>1. Elsewhere /\ proc' = proc
      BY <2>1 DEF PageCalls, ConnectionLost, Elsewhere, poolVars, clientVars
    <3> QED
      BY <3>1, RestElsewhere
  <2>2. CASE ProcessExits(r)
    <3>1. Elsewhere /\ proc' = [proc EXCEPT ![r] = "down"]
      BY <2>2 DEF ProcessExits, Elsewhere, poolVars, clientVars
    <3> QED
      BY <3>1, RestElsewhere
  <2> QED
    BY <1>4, <2>1, <2>2 DEF Fault
<1> QED
  BY <1>1, <1>2, <1>3, <1>4

\* A step that makes no pool.
LEMMA SamePool ==
  ASSUME PlaceInv, available' = available,
         \A c \in Clients : pc[c] # "init" => pc'[c] # "init"
  PROVE  available' \in Nat /\ PoolsCounted'
<1>1. Beyond \in SUBSET Beyond' /\ Beyond' \in SUBSET Clients
  BY DEF Beyond
<1>2. /\ Cardinality(Beyond') \in Nat /\ Cardinality(Beyond) \in Nat
      /\ Cardinality(Beyond) <= Cardinality(Beyond')
  BY <1>1, BeyondGrows
<1> QED
  BY <1>2 DEF PlaceInv, Types, PoolsCounted

\* The client that makes one leaves init.
LEMMA NewPool ==
  ASSUME PlaceInv, NEW c \in Clients, StartPool(c)
  PROVE  available' \in Nat /\ PoolsCounted'
<1>1. available' = available + 1 /\ pc[c] = "init" /\ pc' = [pc EXCEPT ![c] = "make"]
  BY DEF StartPool, At, Go
<1>2. Beyond' = Beyond \cup {c} /\ c \notin Beyond /\ Beyond \in SUBSET Clients
  BY <1>1 DEF Beyond, PlaceInv, Types
<1>3. IsFiniteSet(Beyond)
  BY <1>2, PoolAssumption, FS_Subset
<1>4. Cardinality(Beyond') = Cardinality(Beyond) + 1 /\ Cardinality(Beyond) \in Nat
  BY <1>2, <1>3, FS_AddElement, FS_CardinalityType
<1> QED
  BY <1>1, <1>4 DEF PlaceInv, Types, PoolsCounted

\* Nobody comes back to init, and only StartPool makes a pool.
LEMMA PoolsStep == PlaceInv /\ Next => available' \in Nat /\ PoolsCounted'
<1> SUFFICES ASSUME PlaceInv, Next PROVE available' \in Nat /\ PoolsCounted'
  OBVIOUS
<1>1. ASSUME NEW c \in Clients, NEW place \in Places \ {"init"}, Go(c, place), available' = available
      PROVE  available' \in Nat /\ PoolsCounted'
  <2>1. \A d \in Clients : pc[d] # "init" => pc'[d] # "init"
    BY <1>1 DEF Go, PlaceInv, Types
  <2> QED
    BY <1>1, <2>1, SamePool
<1>2. ASSUME pc' = pc, available' = available PROVE available' \in Nat /\ PoolsCounted'
  BY <1>2, SamePool
<1>3. ASSUME NEW c \in Clients, Client(c) PROVE available' \in Nat /\ PoolsCounted'
  <2>1. CASE StartPool(c)
    BY <2>1, NewPool
  <2>2. CASE AlreadyInitialized(c) \/ (\E r \in Renderers : MakeRenderer(c, r)) \/ Listen(c)
    BY <1>1, <2>2 DEF AlreadyInitialized, MakeRenderer, Listen, poolVars, Places, Naming
  <2>3. CASE ListRenderer(c) \/ PoolMade(c) \/ ReadQueue(c) \/ PutBack(c)
    BY <1>1, <2>3 DEF ListRenderer, PoolMade, ReadQueue, PutBack, poolVars, Places, Naming
  <2>4. CASE AddRenderer(c)
    <3>1. available' = available /\ (Go(c, "list") \/ Go(c, "failed"))
      BY <2>4 DEF AddRenderer
    <3> QED
      BY <1>1, <3>1 DEF Places, Naming
  <2>5. CASE CheckPool(c)
    <3>1. available' = available /\ (Go(c, "take") \/ Go(c, "failed"))
      BY <2>5 DEF CheckPool, poolVars
    <3> QED
      BY <1>1, <3>1 DEF Places, Naming
  <2>6. CASE TakeRenderer(c)
    <3>1. available' = available /\ (Go(c, "reset") \/ Go(c, "offer"))
      BY <2>6 DEF TakeRenderer
    <3> QED
      BY <1>1, <3>1 DEF Places, Naming
  <2> QED
    BY <1>3, <2>1, <2>2, <2>3, <2>4, <2>5, <2>6 DEF Client
<1>4. ASSUME NEW r \in Renderers, Poll(r) PROVE available' \in Nat /\ PoolsCounted'
  <2>1. ASSUME NEW c \in Clients, PollTask(r, c) PROVE available' \in Nat /\ PoolsCounted'
    <3>1. available' = available /\ (Go(c, "offer") \/ Go(c, "await"))
      BY <2>1 DEF PollTask, poolVars
    <3> QED
      BY <1>1, <3>1 DEF Places, Naming
  <2>2. CASE PollTimeout(r) \/ SetInProgress(r) \/ Write(r) \/ WriteFails(r)
    BY <1>2, <2>2 DEF PollTimeout, SetInProgress, Write, WriteFails, poolVars, clientVars
  <2> QED
    BY <1>4, <2>1, <2>2 DEF Poll
<1>5. ASSUME NEW r \in Renderers, Work(r) PROVE available' \in Nat /\ PoolsCounted'
  <2>1. CASE Ask(r) \/ ReadReconnect(r) \/ (\E c \in Clients : ReadTask(r, c))
    BY <1>2, <2>1 DEF Ask, ReadReconnect, ReadTask, poolVars, clientVars
  <2>2. CASE Loaded(r) \/ LoadFailed(r) \/ ShutDown(r)
    BY <1>2, <2>2 DEF Loaded, LoadFailed, ShutDown, poolVars, clientVars
  <2>3. CASE \E k \in {"current", "stray"} : TimerFires(r, k)
    BY <1>2, <2>3 DEF TimerFires, poolVars, clientVars
  <2> QED
    BY <1>5, <2>1, <2>2, <2>3 DEF Work
<1>6. ASSUME NEW r \in Renderers, Gobble(r) PROVE available' \in Nat /\ PoolsCounted'
  <2>1. ASSUME NEW c \in Clients, Deliver(r, c) PROVE available' \in Nat /\ PoolsCounted'
    BY <1>1, <2>1 DEF Deliver, poolVars, Places, Naming
  <2>2. CASE ReadLine(r) \/ ReadShutdown(r) \/ OutputEnds(r) \/ ClearInProgress(r)
    BY <1>2, <2>2 DEF ReadLine, ReadShutdown, OutputEnds, ClearInProgress, poolVars, clientVars
  <2>3. CASE Respond(r) \/ RespondNone(r)
    BY <1>2, <2>3 DEF Respond, RespondNone, Responding, poolVars, clientVars
  <2> QED
    BY <1>6, <2>1, <2>2, <2>3 DEF Gobble
<1>7. ASSUME NEW r \in Renderers, Fault(r) PROVE available' \in Nat /\ PoolsCounted'
  BY <1>2, <1>7 DEF Fault, PageCalls, ConnectionLost, ProcessExits, poolVars, clientVars
<1> QED
  BY <1>3, <1>4, <1>5, <1>6, <1>7 DEF Next

LEMMA RestStep == PlaceInv /\ Next => Rest'
<1> SUFFICES ASSUME PlaceInv, Next PROVE Rest'
  OBVIOUS
<1>1. ASSUME NEW c \in Clients, Client(c) PROVE Rest'
  <2>1. CASE AlreadyInitialized(c) \/ StartPool(c) \/ Listen(c) \/ PoolMade(c) \/ CheckPool(c) \/ ReadQueue(c)
    BY <2>1, RestOfClient
  <2>2. CASE \E r \in Renderers : MakeRenderer(c, r)
    BY <2>2, RestOfMakeRenderer
  <2>3. CASE AddRenderer(c)
    BY <2>3, RestOfAddRenderer
  <2>4. CASE ListRenderer(c)
    BY <2>4, RestOfListRenderer
  <2>5. CASE TakeRenderer(c)
    BY <2>5, RestOfTakeRenderer
  <2>6. CASE PutBack(c)
    BY <2>6, RestOfPutBack
  <2> QED
    BY <1>1, <2>1, <2>2, <2>3, <2>4, <2>5, <2>6 DEF Client
<1>2. ASSUME NEW r \in Renderers, Poll(r) \/ Work(r) \/ Gobble(r) \/ Fault(r) PROVE Rest'
  <2>1. CASE \E c \in Clients : PollTask(r, c) \/ Deliver(r, c)
    BY <2>1, RestOfExchange
  <2>2. CASE ReadShutdown(r)
    BY <2>2, RestOfReadShutdown
  <2> QED
    BY <1>2, <2>1, <2>2, RestOfRenderer DEF Poll, Gobble
<1> QED
  BY <1>1, <1>2 DEF Next

LEMMA PlaceStep == PlaceInv /\ [Next]_vars => PlaceInv'
<1>1. ASSUME PlaceInv, Next PROVE PlaceInv'
  BY <1>1, PoolsStep, RestStep DEF PlaceInv, Types, Rest
<1>2. ASSUME PlaceInv, UNCHANGED vars PROVE PlaceInv'
  <2>1. /\ available' = available /\ queue' = queue /\ pc' = pc /\ pool' = pool
        /\ renderer' = renderer /\ proc' = proc
    BY <1>2 DEF vars, poolVars, clientVars, procVars
  <2>2. Rest' /\ available' \in Nat /\ PoolsCounted'
    BY <1>2, <2>1, RestElsewhere, SamePool DEF Elsewhere
  <2> QED
    BY <2>2 DEF PlaceInv, Types, Rest
<1> QED
  BY <1>1, <1>2

-----------------------------------------------------------------------------
(* The theorem                                                             *)

\* At most one of two sets of at most one has a member.
LEMMA OneOfTwo ==
  ASSUME NEW A, NEW B,
         \A x, y \in A : x = y, \A x, y \in B : x = y, A = {} \/ B = {}
  PROVE  Cardinality(A) + Cardinality(B) <= 1
<1>1. Cardinality(A) \in {0, 1} /\ (A = {} => Cardinality(A) = 0)
  <2>1. CASE A = {}
    BY <2>1, FS_EmptySet
  <2>2. CASE A # {}
    <3>1. PICK x : A = {x}
      BY <2>2
    <3> QED
      BY <2>2, <3>1, FS_Singleton
  <2> QED
    BY <2>1, <2>2
<1>2. Cardinality(B) \in {0, 1} /\ (B = {} => Cardinality(B) = 0)
  <2>1. CASE B = {}
    BY <2>1, FS_EmptySet
  <2>2. CASE B # {}
    <3>1. PICK x : B = {x}
      BY <2>2
    <3> QED
      BY <2>2, <3>1, FS_Singleton
  <2> QED
    BY <2>1, <2>2
<1> QED
  BY <1>1, <1>2

LEMMA PlaceOne == PlaceInv => OnePlace
<1> SUFFICES ASSUME PlaceInv, NEW r \in Renderers
             PROVE  Cardinality({c \in Clients : Holds(c, r)})
                      + Cardinality({e \in Pools \X (1..PoolSize) : e[2] <= Len(queue[e[1]])
                                                          /\ queue[e[1]][e[2]] = r}) <= 1
  BY DEF OnePlace
<1> DEFINE A == {c \in Clients : Holds(c, r)}
           B == {e \in Pools \X (1..PoolSize) : e[2] <= Len(queue[e[1]])
                                              /\ queue[e[1]][e[2]] = r}
<1>1. \A c \in A : c \in Clients /\ Has(c, r)
  BY DEF Holds, Has, Keeping, Naming
<1>2. \A e \in B : /\ e[1] \in Pools /\ e[2] \in 1..Len(queue[e[1]])
                   /\ queue[e[1]][e[2]] = r /\ e = <<e[1], e[2]>>
  BY PoolAssumption, LenProperties DEF PlaceInv, Types
<1> HIDE DEF A, B
<1>3. \A x, y \in A : x = y
  BY <1>1 DEF PlaceInv, OneHolder
<1>4. \A x, y \in B : x = y
  <2> SUFFICES ASSUME NEW x \in B, NEW y \in B PROVE x = y
    OBVIOUS
  <2>1. x[1] = y[1] /\ x[2] = y[2]
    BY <1>2 DEF PlaceInv, OneSpot
  <2> QED
    BY <1>2, <2>1
<1>5. A = {} \/ B = {}
  BY <1>1, <1>2 DEF PlaceInv, NotBoth
<1>6. Cardinality(A) + Cardinality(B) <= 1
  BY <1>3, <1>4, <1>5, OneOfTwo
<1> QED
  BY <1>6 DEF A, B

\* A renderer is in one queue, once, or held by one client, whatever pools are
\* made and whatever processes end (init, storedImageRender, inlineImageRender
\* and the shutdown listener of PhantomRendererPool).
THEOREM RendererInOnePlace == Spec => []OnePlace
<1>1. Spec => []PlaceInv
  BY PlaceInit, PlaceStep, PTL DEF Spec
<1> QED
  BY <1>1, PlaceOne, PTL

-----------------------------------------------------------------------------
(* Where the task of a waiting client is                                   *)

\* All of a sequence is v; all of it is v but for one place, which is e.
Only(s, v) == \A i \in 1..Len(s) : s[i] = v
Once(s, e, v) == \E k \in 1..Len(s) : s[k] = e /\ \A i \in 1..Len(s) : i # k => s[i] = v

LEMMA OnlyOnce ==
  ASSUME NEW S, NEW s \in Seq(S), NEW v \in S, NEW e \in S
  PROVE  /\ Only(<<>>, v)
         /\ Only(s, v) => Only(Append(s, v), v) /\ Once(Append(s, e), e, v)
         /\ Once(s, e, v) => Once(Append(s, v), e, v)
         /\ s # <<>> /\ Only(s, v) => Head(s) = v /\ Only(Tail(s), v)
         /\ s # <<>> /\ Once(s, e, v) => \/ Head(s) = v /\ Once(Tail(s), e, v)
                                         \/ Head(s) = e /\ Only(Tail(s), v)
<1>1. Len(s) \in Nat /\ \A x \in S : /\ Len(Append(s, x)) = Len(s) + 1
                                     /\ Append(s, x)[Len(s) + 1] = x
                                     /\ \A i \in 1..Len(s) : Append(s, x)[i] = s[i]
  BY AppendProperties, LenProperties
<1>2. Only(<<>>, v)
  BY DEF Only
<1>3. ASSUME Only(s, v) PROVE Only(Append(s, v), v) /\ Once(Append(s, e), e, v)
  <2>1. Only(Append(s, v), v)
    BY <1>1, <1>3 DEF Only
  <2>2. /\ Len(s) + 1 \in 1..Len(Append(s, e)) /\ Append(s, e)[Len(s) + 1] = e
        /\ \A i \in 1..Len(Append(s, e)) : i # Len(s) + 1 => Append(s, e)[i] = v
    BY <1>1, <1>3 DEF Only
  <2> QED
    BY <2>1, <2>2 DEF Once
<1>4. ASSUME Once(s, e, v) PROVE Once(Append(s, v), e, v)
  <2>1. PICK k \in 1..Len(s) : s[k] = e /\ \A i \in 1..Len(s) : i # k => s[i] = v
    BY <1>4 DEF Once
  <2>2. /\ k \in 1..Len(Append(s, v)) /\ Append(s, v)[k] = e
        /\ \A i \in 1..Len(Append(s, v)) : i # k => Append(s, v)[i] = v
    BY <1>1, <2>1
  <2> QED
    BY <2>2 DEF Once
<1>5. ASSUME s # <<>>
      PROVE  /\ Len(s) >= 1 /\ Head(s) = s[1] /\ Len(Tail(s)) = Len(s) - 1
             /\ \A i \in 1..Len(Tail(s)) : Tail(s)[i] = s[i + 1]
  BY <1>5
<1>6. ASSUME s # <<>>, Only(s, v) PROVE Head(s) = v /\ Only(Tail(s), v)
  BY <1>1, <1>5, <1>6 DEF Only
<1>7. ASSUME s # <<>>, Once(s, e, v)
      PROVE  \/ Head(s) = v /\ Once(Tail(s), e, v)
             \/ Head(s) = e /\ Only(Tail(s), v)
  <2>1. PICK k \in 1..Len(s) : s[k] = e /\ \A i \in 1..Len(s) : i # k => s[i] = v
    BY <1>7 DEF Once
  <2>2. CASE k = 1
    BY <1>1, <1>5, <1>7, <2>1, <2>2 DEF Only
  <2>3. CASE k # 1
    <3>1. /\ k - 1 \in 1..Len(Tail(s)) /\ Tail(s)[k - 1] = e
          /\ \A i \in 1..Len(Tail(s)) : i # k - 1 => Tail(s)[i] = v
      BY <1>1, <1>5, <1>7, <2>1, <2>3
    <3>2. Head(s) = v
      BY <1>1, <1>5, <1>7, <2>1, <2>3
    <3> QED
      BY <3>1, <3>2 DEF Once
  <2> QED
    BY <2>2, <2>3
<1> QED
  BY <1>2, <1>3, <1>4, <1>6, <1>7

Line == {"success", "error", "shutdown"}
FlowTypes ==
  /\ job \in [Clients -> Job]
  /\ got \in [Clients -> Sources \cup {None}]
  /\ file \in [Clients -> Image]
  /\ poller \in [Renderers -> {"none", "wait", "now", "took", "write", "reoffer"}]
  /\ message \in [Renderers -> Clients \cup {None, Reconnect}]
  /\ inProgress \in [Renderers -> Clients \cup {None, Reconnect}]
  /\ stream \in [Renderers -> Seq(Clients \cup {Reconnect})]
  /\ page \in [Renderers -> Page]
  /\ out \in [Renderers -> Seq(Line)]
  /\ gobbler \in [Renderers -> Gobbler]

Awaits(c, r) == pc[c] = "await" /\ renderer[c] = r
Source(c) == job[c].source

\* Without calls of callPhantom, the page shows what it was loaded from.
PageFits(r) == ~page[r].calls /\ (page[r].shows \in Sources => page[r].url = page[r].shows)

\* No task is being written, in progress, on its way, on the page, or answered.
NotWriting(r) == poller[r] \in {"took", "write"} => message[r] = Reconnect
Cleared(r) == inProgress[r] \in {None, Reconnect}
NothingSent(r) == Only(stream[r], Reconnect)
PageRests(r) == page[r].shows # Blank /\ page[r].timers = {}
NothingSaid(r) == Only(out[r], "shutdown")
Listens(r) == gobbler[r].at \in {"read", "ended"}
Resting(r) ==
  NotWriting(r) /\ Cleared(r) /\ NothingSent(r) /\ PageRests(r) /\ NothingSaid(r) /\ Listens(r)

\* The task of client c is in one of these places, and nowhere else; or it was
\* lost with the connection or the process.
Working(r, c) == poller[r] # "took" /\ inProgress[r] = c
Took(r, c) ==
  /\ poller[r] = "took" /\ message[r] = c
  /\ Cleared(r) /\ NothingSent(r) /\ PageRests(r) /\ NothingSaid(r) /\ Listens(r)
Writing(r, c) ==
  /\ poller[r] = "write" /\ message[r] = c /\ inProgress[r] = c
  /\ NothingSent(r) /\ PageRests(r) /\ NothingSaid(r) /\ Listens(r)
OnStream(r, c) ==
  /\ Once(stream[r], c, Reconnect)
  /\ Working(r, c) /\ NotWriting(r) /\ PageRests(r) /\ NothingSaid(r) /\ Listens(r)
OnPage(r, c) ==
  /\ page[r].task = c
  /\ \/ page[r].shows = Blank /\ page[r].timers = {}
     \/ page[r].shows = Source(c) /\ page[r].timers = {"current"}
  /\ Working(r, c) /\ NotWriting(r) /\ NothingSent(r) /\ NothingSaid(r) /\ Listens(r)
Said(r, c) ==
  /\ \/ Once(out[r], "success", "shutdown") /\ file[c] = Source(c)
     \/ Once(out[r], "error", "shutdown")
  /\ Working(r, c) /\ NotWriting(r) /\ NothingSent(r) /\ PageRests(r) /\ Listens(r)
Heard(r, c) ==
  /\ gobbler[r].at = "clear" /\ gobbler[r].task = c /\ (gobbler[r].ok => file[c] = Source(c))
  /\ Working(r, c) /\ NotWriting(r) /\ NothingSent(r) /\ PageRests(r) /\ NothingSaid(r)
Answering(r, c) ==
  /\ gobbler[r].task = c
  /\ \/ gobbler[r].at = "respond" /\ (gobbler[r].ok => file[c] = Source(c))
     \/ gobbler[r].at = "put" /\ gobbler[r].result \in {Source(c), None}
  /\ poller[r] # "took" /\ NotWriting(r) /\ Cleared(r) /\ NothingSent(r) /\ PageRests(r)
  /\ NothingSaid(r)
Lost(r, c) ==
  /\ Working(r, c)
  /\ NotWriting(r) /\ NothingSent(r) /\ PageRests(r) /\ NothingSaid(r) /\ Listens(r)
Served(r, c) ==
  \/ Took(r, c) \/ Writing(r, c) \/ OnStream(r, c) \/ OnPage(r, c)
  \/ Said(r, c) \/ Heard(r, c) \/ Answering(r, c) \/ Lost(r, c)

Flow(r) ==
  /\ PageFits(r)
  /\ \A c \in Clients : Awaits(c, r) => Served(r, c)
  /\ (\A c \in Clients : ~Awaits(c, r)) => Resting(r)
FlowInv ==
  /\ FlowTypes
  /\ \A r \in Renderers : Flow(r)
  /\ OwnImage

\* One client at most waits at a renderer; one that has still to hand over its
\* task there is the only one that holds it.
LEMMA OneWaits ==
  ASSUME PlaceInv, NEW r \in Renderers, NEW c \in Clients, NEW d \in Clients,
         Has(c, r), Awaits(d, r)
  PROVE  d = c
BY DEF PlaceInv, OneHolder, Has, Awaits, Keeping, Naming

\* What a client waits for elsewhere stays.
Local(x) == <<poller[x], message[x], inProgress[x], stream[x], page[x], out[x], gobbler[x]>>

LEMMA FlowKept ==
  ASSUME NEW x \in Renderers, Flow(x), Local(x)' = Local(x), job' = job,
         \A c \in Clients : Awaits(c, x)' <=> Awaits(c, x),
         \A c \in Clients : Awaits(c, x) => file'[c] = file[c]
  PROVE  Flow(x)'
<1>1. /\ poller'[x] = poller[x] /\ message'[x] = message[x] /\ inProgress'[x] = inProgress[x]
      /\ stream'[x] = stream[x] /\ page'[x] = page[x] /\ out'[x] = out[x] /\ gobbler'[x] = gobbler[x]
  BY DEF Local
<1>2. /\ NotWriting(x)' <=> NotWriting(x)
      /\ Cleared(x)' <=> Cleared(x)
      /\ NothingSent(x)' <=> NothingSent(x)
      /\ PageRests(x)' <=> PageRests(x)
      /\ NothingSaid(x)' <=> NothingSaid(x)
      /\ Listens(x)' <=> Listens(x)
      /\ PageFits(x)' <=> PageFits(x)
      /\ \A c \in Clients : Source(c)' = Source(c)
      /\ \A c \in Clients : Working(x, c)' <=> Working(x, c)
  BY <1>1 DEF NotWriting, Cleared, NothingSent, PageRests, NothingSaid, Listens, PageFits, Source,
              Working
<1>3. ASSUME NEW c \in Clients, Awaits(c, x), Served(x, c) PROVE Served(x, c)'
  <2>1. Took(x, c) \/ Writing(x, c) \/ OnStream(x, c) \/ Lost(x, c) => Served(x, c)'
    BY <1>1, <1>2 DEF Took, Writing, OnStream, Lost, Served
  <2>2. OnPage(x, c) => OnPage(x, c)'
    BY <1>1, <1>2 DEF OnPage
  <2>3. Said(x, c) => Said(x, c)'
    BY <1>1, <1>2, <1>3 DEF Said
  <2>4. Heard(x, c) => Heard(x, c)'
    BY <1>1, <1>2, <1>3 DEF Heard
  <2>5. Answering(x, c) => Answering(x, c)'
    BY <1>1, <1>2, <1>3 DEF Answering
  <2> QED
    BY <1>3, <2>1, <2>2, <2>3, <2>4, <2>5 DEF Served
<1>4. Resting(x)' <=> Resting(x)
  BY <1>2 DEF Resting
<1> QED
  BY <1>2, <1>3, <1>4 DEF Flow

\* A step of one renderer's threads or process.
LEMMA FlowOne ==
  ASSUME PlaceInv, FlowInv, NEW r \in Renderers, FlowTypes', got' = got,
         job' = job, pc' = pc, renderer' = renderer,
         \A x \in Renderers \ {r} : Local(x)' = Local(x),
         \A c \in Clients : Awaits(c, r) \/ file'[c] = file[c],
         PageFits(r)',
         \A c \in Clients : Awaits(c, r) /\ Served(r, c) => Served(r, c)',
         Resting(r) => Resting(r)'
  PROVE  FlowInv'
<1>1. \A x \in Renderers : \A c \in Clients : Awaits(c, x)' <=> Awaits(c, x)
  BY DEF Awaits
<1>2. ASSUME NEW x \in Renderers PROVE Flow(x)'
  <2>1. CASE x = r
    BY <1>1, <2>1 DEF FlowInv, Flow
  <2>2. CASE x # r
    <3>1. \A c \in Clients : Awaits(c, x) => file'[c] = file[c]
      BY <2>2 DEF Awaits
    <3> QED
      BY <1>1, <2>2, <3>1, FlowKept DEF FlowInv
  <2> QED
    BY <2>1, <2>2
<1>3. OwnImage'
  BY DEF FlowInv, OwnImage
<1> QED
  BY <1>2, <1>3 DEF FlowInv

LEMMA FlowOfPollTimeout ==
  ASSUME PlaceInv, FlowInv, NEW r \in Renderers, PollTimeout(r) PROVE FlowInv'
<1>1. /\ UNCHANGED <<job, got, pc, renderer, file, inProgress, stream, page, out, gobbler>>
      /\ poller' = [poller EXCEPT ![r] = "write"] /\ message' = [message EXCEPT ![r] = Reconnect]
      /\ poller[r] \in {"wait", "now"}
  BY DEF PollTimeout, Polling, clientVars, procVars
<1>2. FlowTypes' /\ poller'[r] = "write" /\ message'[r] = Reconnect
  BY <1>1 DEF FlowInv, FlowTypes
<1>3. \A x \in Renderers \ {r} : Local(x)' = Local(x)
  BY <1>1 DEF FlowInv, FlowTypes, Local
<1>4. PageFits(r)' /\ (Resting(r) => Resting(r)')
  BY <1>1, <1>2 DEF FlowInv, Flow, PageFits, Resting, NotWriting, Cleared, NothingSent, PageRests,
     NothingSaid, Listens
<1>5. ASSUME NEW c \in Clients, Served(r, c) PROVE Served(r, c)'
  BY <1>1, <1>2, <1>5 DEF Served, Took, Writing, OnStream, OnPage, Said, Heard, Answering, Lost,
     Working, NotWriting, Cleared, NothingSent, PageRests, NothingSaid, Listens, Source
<1> QED
  BY <1>1, <1>2, <1>3, <1>4, <1>5, FlowOne

LEMMA FlowOfSetInProgress ==
  ASSUME PlaceInv, FlowInv, NEW r \in Renderers, SetInProgress(r) PROVE FlowInv'
<1>1. /\ UNCHANGED <<job, got, pc, renderer, file, message, stream, page, out, gobbler>>
      /\ poller[r] = "took" /\ poller' = [poller EXCEPT ![r] = "write"]
      /\ inProgress' = [inProgress EXCEPT ![r] = message[r]]
  BY DEF SetInProgress, clientVars, procVars
<1>2. FlowTypes' /\ poller'[r] = "write" /\ inProgress'[r] = message[r]
  BY <1>1 DEF FlowInv, FlowTypes
<1>3. \A x \in Renderers \ {r} : Local(x)' = Local(x)
  BY <1>1 DEF FlowInv, FlowTypes, Local
<1>4. PageFits(r)' /\ (Resting(r) => Resting(r)')
  BY <1>1, <1>2 DEF FlowInv, Flow, Served, Took, Writing, OnStream, OnPage, Said, Heard,
     Answering, Lost, Working, Resting, NotWriting, Cleared, NothingSent, PageRests, NothingSaid,
     Listens, PageFits, Source
<1>5. ASSUME NEW c \in Clients, Served(r, c) PROVE Served(r, c)'
  <2>1. Took(r, c)
    BY <1>1, <1>5 DEF Served, Took, Writing, OnStream, OnPage, Said, Heard, Answering, Lost,
       Working, Resting, NotWriting, Cleared, NothingSent, PageRests, NothingSaid, Listens,
       PageFits, Source
  <2>2. Writing(r, c)'
    BY <1>1, <1>2, <2>1 DEF Served, Took, Writing, OnStream, OnPage, Said, Heard, Answering, Lost,
       Working, Resting, NotWriting, Cleared, NothingSent, PageRests, NothingSaid, Listens,
       PageFits, Source
  <2> QED
    BY <2>2 DEF Served
<1> QED
  BY <1>1, <1>2, <1>3, <1>4, <1>5, FlowOne

\* What is sent is tasks and reconnect messages.
LEMMA Sent ==
  ASSUME NEW s \in Seq(Clients \cup {Reconnect})
  PROVE  /\ Only(s, Reconnect) => Only(Append(s, Reconnect), Reconnect)
         /\ \A c \in Clients : Only(s, Reconnect) => Once(Append(s, c), c, Reconnect)
         /\ \A c \in Clients : Once(s, c, Reconnect) => Once(Append(s, Reconnect), c, Reconnect)
<1>1. Only(s, Reconnect) => Only(Append(s, Reconnect), Reconnect)
  BY OnlyOnce
<1>2. ASSUME NEW c \in Clients
      PROVE  /\ Only(s, Reconnect) => Once(Append(s, c), c, Reconnect)
             /\ Once(s, c, Reconnect) => Once(Append(s, Reconnect), c, Reconnect)
  <2>1. c \in Clients \cup {Reconnect} /\ Reconnect \in Clients \cup {Reconnect}
    OBVIOUS
  <2> QED
    BY <2>1, OnlyOnce
<1> QED
  BY <1>1, <1>2

LEMMA FlowOfWrite ==
  ASSUME PlaceInv, FlowInv, NEW r \in Renderers, Write(r) PROVE FlowInv'
<1>1. /\ UNCHANGED <<job, got, pc, renderer, file, inProgress, page, out, gobbler>>
      /\ poller[r] = "write"
      /\ poller' = [poller EXCEPT ![r] = IF message[r] = Reconnect THEN "none" ELSE "now"]
      /\ message' = [message EXCEPT ![r] = None]
      /\ \/ stream' = [stream EXCEPT ![r] = Append(stream[r], message[r])]
         \/ stream' = [stream EXCEPT ![r] = stream[r]]
  BY DEF Write, clientVars
<1>2. message[r] # None
  <2>1. CASE \E c \in Clients : Awaits(c, r)
    <3>1. PICK c \in Clients : Served(r, c)
      BY <2>1 DEF FlowInv, Flow
    <3>2. message[r] \in {c, Reconnect}
      BY <1>1, <3>1 DEF Served, Took, Writing, OnStream, OnPage, Said, Heard, Answering, Lost,
         NotWriting
    <3> QED
      BY <3>2, PoolAssumption
  <2>2. CASE \A c \in Clients : ~Awaits(c, r)
    BY <1>1, <2>2, PoolAssumption DEF FlowInv, Flow, Resting, NotWriting
  <2> QED
    BY <2>1, <2>2
<1>3. /\ FlowTypes' /\ poller'[r] \in {"none", "now"}
      /\ stream'[r] = stream[r] \/ stream'[r] = Append(stream[r], message[r])
  <2>1. message[r] \in Clients \cup {Reconnect} /\ stream[r] \in Seq(Clients \cup {Reconnect})
    BY <1>2 DEF FlowInv, FlowTypes
  <2>2. Append(stream[r], message[r]) \in Seq(Clients \cup {Reconnect})
    BY <2>1
  <2>3. /\ stream' \in [Renderers -> Seq(Clients \cup {Reconnect})]
        /\ stream'[r] = stream[r] \/ stream'[r] = Append(stream[r], message[r])
    BY <1>1, <2>1, <2>2 DEF FlowInv, FlowTypes
  <2> QED
    BY <1>1, <2>3 DEF FlowInv, FlowTypes
<1>4. \A x \in Renderers \ {r} : Local(x)' = Local(x)
  BY <1>1 DEF FlowInv, FlowTypes, Local
<1>5. stream[r] \in Seq(Clients \cup {Reconnect})
  BY DEF FlowInv, FlowTypes
<1>6. ASSUME message[r] = Reconnect
      PROVE  /\ NothingSent(r) => NothingSent(r)'
             /\ \A c \in Clients : OnStream(r, c) => Once(stream'[r], c, Reconnect)
  <2>1. stream'[r] = stream[r] \/ stream'[r] = Append(stream[r], Reconnect)
    BY <1>3, <1>6
  <2>2. NothingSent(r) => NothingSent(r)'
    BY <1>5, <2>1, Sent DEF NothingSent
  <2>3. ASSUME NEW c \in Clients, OnStream(r, c) PROVE Once(stream'[r], c, Reconnect)
    BY <1>5, <2>1, <2>3, Sent DEF OnStream
  <2> QED
    BY <2>2, <2>3
<1>7. PageFits(r)' /\ (Resting(r) => Resting(r)')
  BY <1>1, <1>3, <1>6 DEF FlowInv, Flow, Served, Took, Writing, OnStream, OnPage, Said, Heard,
     Answering, Lost, Working, Resting, NotWriting, Cleared, NothingSent, PageRests, NothingSaid,
     Listens, PageFits, Source
<1>8. ASSUME NEW c \in Clients, Served(r, c) PROVE Served(r, c)'
  <2>0. c # Reconnect
    BY PoolAssumption
  <2>1. CASE Writing(r, c)
    <3>1. NothingSent(r)' \/ Once(stream'[r], c, Reconnect)
      BY <1>3, <1>5, <2>0, <2>1, Sent DEF Writing, NothingSent
    <3>2. Lost(r, c)' \/ OnStream(r, c)'
      BY <1>1, <1>3, <2>1, <3>1 DEF Served, Took, Writing, OnStream, OnPage, Said, Heard,
         Answering, Lost, Working, Resting, NotWriting, Cleared, NothingSent, PageRests,
         NothingSaid, Listens, PageFits, Source
    <3> QED
      BY <3>2 DEF Served
  <2>2. CASE ~Writing(r, c)
    <3>1. message[r] = Reconnect
      BY <1>1, <1>8, <2>2 DEF Served, Took, Writing, OnStream, OnPage, Said, Heard, Answering,
         Lost, Working, Resting, NotWriting, Cleared, NothingSent, PageRests, NothingSaid,
         Listens, PageFits, Source
    <3> QED
      BY <1>1, <1>3, <1>6, <1>8, <2>2, <3>1 DEF Served, Took, Writing, OnStream, OnPage, Said,
         Heard, Answering, Lost, Working, Resting, NotWriting, Cleared, NothingSent, PageRests,
         NothingSaid, Listens, PageFits, Source
  <2> QED
    BY <2>1, <2>2
<1> QED
  BY <1>1, <1>3, <1>4, <1>7, <1>8, FlowOne

LEMMA FlowOfWriteFails ==
  ASSUME PlaceInv, FlowInv, NEW r \in Renderers, WriteFails(r) PROVE FlowInv'
<1>1. /\ UNCHANGED <<job, got, pc, renderer, file, inProgress, stream, page, out, gobbler>>
      /\ poller[r] = "write" /\ message' = [message EXCEPT ![r] = None]
      /\ poller' = [poller EXCEPT ![r] = IF inProgress[r] = None THEN "none" ELSE "reoffer"]
  BY DEF WriteFails, clientVars, procVars
<1>2. FlowTypes' /\ poller'[r] \in {"none", "reoffer"}
  BY <1>1 DEF FlowInv, FlowTypes
<1>3. \A x \in Renderers \ {r} : Local(x)' = Local(x)
  BY <1>1 DEF FlowInv, FlowTypes, Local
<1>4. PageFits(r)' /\ (Resting(r) => Resting(r)')
  BY <1>1, <1>2 DEF FlowInv, Flow, Served, Took, Writing, OnStream, OnPage, Said, Heard,
     Answering, Lost, Working, Resting, NotWriting, Cleared, NothingSent, PageRests, NothingSaid,
     Listens, PageFits, Source
<1>5. ASSUME NEW c \in Clients, Served(r, c) PROVE Served(r, c)'
  BY <1>1, <1>2, <1>5 DEF Served, Took, Writing, OnStream, OnPage, Said, Heard, Answering, Lost,
     Working, Resting, NotWriting, Cleared, NothingSent, PageRests, NothingSaid, Listens,
     PageFits, Source
<1> QED
  BY <1>1, <1>2, <1>3, <1>4, <1>5, FlowOne

\* A line that says that the process ends.
LEMMA FlowOfShutdown ==
  ASSUME PlaceInv, FlowInv, NEW r \in Renderers, 
         UNCHANGED <<job, got, pc, renderer, file, message, inProgress, stream, page, gobbler>>,
         poller' = poller, out' = [out EXCEPT ![r] = Append(out[r], "shutdown")]
  PROVE  FlowInv'
<1>1. /\ FlowTypes' /\ out'[r] = Append(out[r], "shutdown")
      /\ out[r] \in Seq(Line) /\ "shutdown" \in Line /\ "success" \in Line /\ "error" \in Line
  BY DEF FlowInv, FlowTypes, Line
<1>2. \A x \in Renderers \ {r} : Local(x)' = Local(x)
  BY DEF FlowInv, FlowTypes, Local
<1>3. /\ NothingSaid(r) => NothingSaid(r)'
      /\ \A line \in {"success", "error"} :
           Once(out[r], line, "shutdown") => Once(out'[r], line, "shutdown")
  BY <1>1, OnlyOnce DEF NothingSaid
<1>4. PageFits(r)' /\ (Resting(r) => Resting(r)')
  BY <1>1, <1>3 DEF FlowInv, Flow, Served, Took, Writing, OnStream, OnPage, Said, Heard,
     Answering, Lost, Working, Resting, NotWriting, Cleared, NothingSent, PageRests, NothingSaid,
     Listens, PageFits, Source
<1>5. ASSUME NEW c \in Clients, Served(r, c) PROVE Served(r, c)'
  BY <1>1, <1>3, <1>5 DEF Served, Took, Writing, OnStream, OnPage, Said, Heard, Answering, Lost,
     Working, Resting, NotWriting, Cleared, NothingSent, PageRests, NothingSaid, Listens,
     PageFits, Source
<1> QED
  BY <1>1, <1>2, <1>4, <1>5, FlowOne

LEMMA FlowOfAsk ==
  ASSUME PlaceInv, FlowInv, NEW r \in Renderers, Ask(r) PROVE FlowInv'
<1>1. /\ UNCHANGED <<job, got, pc, renderer, file, message, inProgress, stream, page, gobbler>>
      /\ poller[r] = "none"
  BY DEF Ask, clientVars
<1>2. CASE r \in lookup
  <2>1. poller' = [poller EXCEPT ![r] = "wait"] /\ out' = out
    BY <1>2 DEF Ask
  <2>2. FlowTypes' /\ poller'[r] = "wait"
    BY <1>1, <2>1 DEF FlowInv, FlowTypes
  <2>3. \A x \in Renderers \ {r} : Local(x)' = Local(x)
    BY <1>1, <2>1 DEF FlowInv, FlowTypes, Local
  <2>4. PageFits(r)' /\ (Resting(r) => Resting(r)')
    BY <1>1, <2>1, <2>2 DEF FlowInv, Flow, Served, Took, Writing, OnStream, OnPage, Said, Heard,
       Answering, Lost, Working, Resting, NotWriting, Cleared, NothingSent, PageRests,
       NothingSaid, Listens, PageFits, Source
  <2>5. ASSUME NEW c \in Clients, Served(r, c) PROVE Served(r, c)'
    BY <1>1, <2>1, <2>2, <2>5 DEF Served, Took, Writing, OnStream, OnPage, Said, Heard, Answering,
       Lost, Working, Resting, NotWriting, Cleared, NothingSent, PageRests, NothingSaid, Listens,
       PageFits, Source
  <2> QED
    BY <1>1, <2>2, <2>3, <2>4, <2>5, FlowOne
<1>3. CASE r \notin lookup
  <2>1. poller' = poller /\ out' = [out EXCEPT ![r] = Append(out[r], "shutdown")]
    BY <1>3 DEF Ask
  <2> QED
    BY <1>1, <2>1, FlowOfShutdown
<1> QED
  BY <1>2, <1>3

LEMMA FlowOfShutDown ==
  ASSUME PlaceInv, FlowInv, NEW r \in Renderers, ShutDown(r) PROVE FlowInv'
<1>1. /\ UNCHANGED <<job, got, pc, renderer, file, message, inProgress, stream, page, gobbler>>
      /\ poller' = poller /\ out' = [out EXCEPT ![r] = Append(out[r], "shutdown")]
  BY DEF ShutDown, Says, clientVars, pollVars
<1> QED
  BY <1>1, FlowOfShutdown

\* What was sent is lost.
LEMMA FlowOfLoss ==
  ASSUME PlaceInv, FlowInv, NEW r \in Renderers, ConnectionLost(r) \/ ProcessExits(r)
  PROVE  FlowInv'
<1>1. /\ UNCHANGED <<job, got, pc, renderer, file, poller, message, inProgress, page, out, gobbler>>
      /\ stream' = [stream EXCEPT ![r] = <<>>]
  BY DEF ConnectionLost, ProcessExits, clientVars, pollVars
<1>2. FlowTypes' /\ stream'[r] = <<>>
  BY <1>1 DEF FlowInv, FlowTypes
<1>3. \A x \in Renderers \ {r} : Local(x)' = Local(x)
  BY <1>1 DEF FlowInv, FlowTypes, Local
<1>4. NothingSent(r)'
  BY <1>2 DEF NothingSent, Only
<1>5. PageFits(r)' /\ (Resting(r) => Resting(r)')
  BY <1>1, <1>4 DEF FlowInv, Flow, Served, Took, Writing, OnStream, OnPage, Said, Heard,
     Answering, Lost, Working, Resting, NotWriting, Cleared, NothingSent, PageRests, NothingSaid,
     Listens, PageFits, Source
<1>6. ASSUME NEW c \in Clients, Served(r, c) PROVE Served(r, c)'
  BY <1>1, <1>4, <1>6 DEF Served, Took, Writing, OnStream, OnPage, Said, Heard, Answering, Lost,
     Working, Resting, NotWriting, Cleared, NothingSent, PageRests, NothingSaid, Listens,
     PageFits, Source
<1> QED
  BY <1>1, <1>2, <1>3, <1>5, <1>6, FlowOne

LEMMA FlowOfReadReconnect ==
  ASSUME PlaceInv, FlowInv, NEW r \in Renderers, ReadReconnect(r) PROVE FlowInv'
<1>1. /\ UNCHANGED <<job, got, pc, renderer, file, poller, message, inProgress, page, out, gobbler>>
      /\ stream' = [stream EXCEPT ![r] = Tail(stream[r])]
      /\ stream[r] # <<>> /\ Head(stream[r]) = Reconnect
  BY DEF ReadReconnect, Heads, clientVars, pollVars
<1>2. stream[r] \in Seq(Clients \cup {Reconnect})
  BY DEF FlowInv, FlowTypes
<1>3. Tail(stream[r]) \in Seq(Clients \cup {Reconnect})
  BY <1>1, <1>2
<1>4. FlowTypes' /\ stream'[r] = Tail(stream[r])
  BY <1>1, <1>3 DEF FlowInv, FlowTypes
<1>5. \A x \in Renderers \ {r} : Local(x)' = Local(x)
  BY <1>1 DEF FlowInv, FlowTypes, Local
<1>6. \A c \in Clients : OnStream(r, c) => Once(stream'[r], c, Reconnect)
  BY <1>1, <1>2, <1>4, OnlyOnce, PoolAssumption DEF OnStream
<1>7. NothingSent(r) => NothingSent(r)'
  BY <1>1, <1>2, <1>4, OnlyOnce DEF NothingSent
<1>8. PageFits(r)' /\ (Resting(r) => Resting(r)')
  BY <1>1, <1>7 DEF FlowInv, Flow, Served, Took, Writing, OnStream, OnPage, Said, Heard,
     Answering, Lost, Working, Resting, NotWriting, Cleared, NothingSent, PageRests, NothingSaid,
     Listens, PageFits, Source
<1>9. ASSUME NEW c \in Clients, Served(r, c) PROVE Served(r, c)'
  BY <1>1, <1>6, <1>7, <1>9 DEF Served, Took, Writing, OnStream, OnPage, Said, Heard, Answering,
     Lost, Working, Resting, NotWriting, Cleared, NothingSent, PageRests, NothingSaid, Listens,
     PageFits, Source
<1> QED
  BY <1>1, <1>4, <1>5, <1>8, <1>9, FlowOne

\* What is said ends in a capture, a failure, or the end of the process.
LEMMA Spoken ==
  ASSUME NEW s \in Seq(Line), NEW line \in {"success", "error"}
  PROVE  /\ Append(s, line) \in Seq(Line)
         /\ Only(s, "shutdown") => Once(Append(s, line), line, "shutdown")
         /\ s # <<>> /\ Only(s, "shutdown") => Head(s) = "shutdown" /\ Only(Tail(s), "shutdown")
         /\ s # <<>> /\ Once(s, line, "shutdown") =>
              \/ Head(s) = "shutdown" /\ Once(Tail(s), line, "shutdown")
              \/ Head(s) = line /\ Only(Tail(s), "shutdown")
<1>1. line \in Line /\ "shutdown" \in Line
  BY DEF Line
<1>2. Append(s, line) \in Seq(Line)
  BY <1>1
<1> QED
  BY <1>1, <1>2, OnlyOnce

\* An image is written to the file of the task on the page, and reported.
LEMMA FlowOfRendered ==
  ASSUME PlaceInv, FlowInv, NEW r \in Renderers, NEW c \in Clients, NEW p \in Page,
         Awaits(c, r), Working(r, c), NotWriting(r), NothingSent(r)', NothingSaid(r), Listens(r),
         p.task = c, p.shows = Source(c), p.url = p.shows, ~p.calls, p.timers \ {"current"} = {},
         UNCHANGED <<job, got, pc, renderer, poller, message, inProgress, gobbler>>,
         stream' \in [Renderers -> Seq(Clients \cup {Reconnect})],
         \A x \in Renderers \ {r} : stream'[x] = stream[x],
         Rendered(r, p)
  PROVE  FlowInv'
<1>1. Source(c) \in Sources /\ Source(c) # Blank
  BY PoolAssumption DEF FlowInv, FlowTypes, Source, Job
<1>2. PICK q : q = [p EXCEPT !.timers = p.timers \ {"current"}]
  OBVIOUS
<1>3. q \in Page /\ q.timers = {} /\ q.shows = Source(c) /\ q.url = q.shows /\ ~q.calls
  BY <1>2 DEF Page
<1>4. /\ file' = [file EXCEPT ![c] = Source(c)]
      /\ page' = [page EXCEPT ![r] = q]
      /\ out' = [out EXCEPT ![r] = Append(out[r], "success")]
  BY <1>2 DEF Rendered, Says
<1>5. out[r] \in Seq(Line) /\ Append(out[r], "success") \in Seq(Line)
  BY Spoken DEF FlowInv, FlowTypes
<1>6. FlowTypes' /\ file'[c] = Source(c) /\ page'[r] = q /\ out'[r] = Append(out[r], "success")
  BY <1>1, <1>3, <1>4, <1>5 DEF FlowInv, FlowTypes, Image
<1>7. \A x \in Renderers \ {r} : Local(x)' = Local(x)
  BY <1>4 DEF FlowInv, FlowTypes, Local
<1>8. \A d \in Clients : Awaits(d, r) \/ file'[d] = file[d]
  BY <1>4 DEF FlowInv, FlowTypes
<1>9. Once(out'[r], "success", "shutdown")
  BY <1>5, <1>6, Spoken DEF NothingSaid
<1>10. PageFits(r)' /\ PageRests(r)'
  BY <1>1, <1>3, <1>6 DEF PageFits, PageRests
<1>11. Said(r, c)'
  BY <1>6, <1>9, <1>10 DEF Said, Working, NotWriting, Listens, Source
<1>12. \A d \in Clients : Awaits(d, r) => d = c
  BY OneWaits DEF Awaits, Has, Keeping, Naming
<1>13. \A d \in Clients : Awaits(d, r) /\ Served(r, d) => Served(r, d)'
  BY <1>11, <1>12 DEF Served
<1>14. ~Resting(r)
  BY PoolAssumption DEF Resting, Working, Cleared
<1> QED
  BY <1>6, <1>7, <1>8, <1>10, <1>13, <1>14, FlowOne

\* The page has a task only while its client waits.
LEMMA PageOfTask ==
  ASSUME FlowInv, NEW r \in Renderers,
         page[r].shows = Blank \/ page[r].timers # {}
  PROVE  \E c \in Clients : Awaits(c, r) /\ OnPage(r, c)
<1>1. PICK c \in Clients : Awaits(c, r)
  BY DEF FlowInv, Flow, Resting, PageRests
<1>2. Served(r, c) /\ ~PageRests(r)
  BY <1>1 DEF FlowInv, Flow, PageRests
<1>3. OnPage(r, c)
  BY <1>2 DEF Served, Took, Writing, OnStream, Said, Heard, Answering, Lost
<1> QED
  BY <1>1, <1>3

LEMMA FlowOfTimerFires ==
  ASSUME PlaceInv, FlowInv, NEW r \in Renderers, NEW k \in {"current", "stray"}, TimerFires(r, k)
  PROVE  FlowInv'
<1>1. PICK c \in Clients : Awaits(c, r) /\ OnPage(r, c)
  BY PageOfTask DEF TimerFires
<1>2. PICK p : p = [page[r] EXCEPT !.timers = page[r].timers \ {k}]
  OBVIOUS
<1>3. /\ page[r] \in Page /\ page[r].task = c /\ page[r].timers = {"current"} /\ k = "current"
      /\ page[r].shows = Source(c)
  BY <1>1 DEF TimerFires, OnPage, FlowInv, FlowTypes
<1>4. Source(c) \in Sources /\ Source(c) # None
  BY PoolAssumption DEF FlowInv, FlowTypes, Source, Job
<1>5. p \in Page /\ p.task = c /\ p.timers = {} /\ p.shows = Source(c) /\ p.url = p.shows /\ ~p.calls
  BY <1>2, <1>3, <1>4 DEF Page, FlowInv, Flow, PageFits
<1>6. Rendered(r, p)
  BY <1>2, <1>4, <1>5 DEF TimerFires
<1>7. /\ UNCHANGED <<job, got, pc, renderer, poller, message, inProgress, gobbler, stream>>
  BY DEF TimerFires, clientVars, pollVars
<1>8. /\ Working(r, c) /\ NotWriting(r) /\ NothingSent(r)' /\ NothingSaid(r) /\ Listens(r)
      /\ stream' \in [Renderers -> Seq(Clients \cup {Reconnect})]
  BY <1>1, <1>7 DEF OnPage, NothingSent, FlowInv, FlowTypes
<1> QED
  BY <1>1, <1>5, <1>6, <1>7, <1>8, FlowOfRendered

LEMMA FlowOfReadTask ==
  ASSUME PlaceInv, FlowInv, NEW r \in Renderers, NEW c \in Clients, ReadTask(r, c)
  PROVE  FlowInv'
<1>1. /\ UNCHANGED <<job, got, pc, renderer, poller, message, inProgress, gobbler>>
      /\ stream' = [stream EXCEPT ![r] = Tail(stream[r])]
      /\ stream[r] # <<>> /\ Head(stream[r]) = c
  BY DEF ReadTask, Heads, clientVars, pollVars
<1>2. stream[r] \in Seq(Clients \cup {Reconnect}) /\ c # Reconnect
  BY PoolAssumption DEF FlowInv, FlowTypes
<1>3. Tail(stream[r]) \in Seq(Clients \cup {Reconnect})
  BY <1>1, <1>2
<1>4. /\ stream' \in [Renderers -> Seq(Clients \cup {Reconnect})]
      /\ stream'[r] = Tail(stream[r])
      /\ \A x \in Renderers \ {r} : stream'[x] = stream[x]
  BY <1>1, <1>3 DEF FlowInv, FlowTypes
<1>5. ~NothingSent(r)
  BY <1>1, <1>2, OnlyOnce DEF NothingSent
<1>6. PICK d \in Clients : Awaits(d, r)
  BY <1>5 DEF FlowInv, Flow, Resting
<1>7. OnStream(r, d)
  BY <1>5, <1>6 DEF FlowInv, Flow, Served, Took, Writing, OnPage, Said, Heard, Answering, Lost
<1>8. d = c /\ NothingSent(r)'
  <2>1. \/ Head(stream[r]) = Reconnect
        \/ Head(stream[r]) = d /\ Only(Tail(stream[r]), Reconnect)
    BY <1>1, <1>2, <1>7, OnlyOnce DEF OnStream
  <2> QED
    BY <1>1, <1>2, <1>4, <2>1 DEF NothingSent
<1>9. /\ Awaits(c, r) /\ Working(r, c) /\ NotWriting(r) /\ PageRests(r) /\ NothingSaid(r) /\ Listens(r)
  BY <1>6, <1>7, <1>8 DEF OnStream
<1>10. Source(c) \in Sources /\ Source(c) \notin {Blank, None} /\ page[r] \in Page
  BY PoolAssumption DEF FlowInv, FlowTypes, Source, Job
<1>11. CASE Reusable(r, c)
  <2>1. PICK p : p = [page[r] EXCEPT !.task = c]
    OBVIOUS
  <2>2. Rendered(r, p)
    BY <1>11, <2>1 DEF ReadTask
  <2>3. page[r].shows \in Sources
    BY <1>9, <1>10, <1>11 DEF Reusable, PageRests, Page, Image
  <2>4. /\ p \in Page /\ p.task = c /\ p.timers \ {"current"} = {} /\ p.shows = Source(c)
        /\ p.url = p.shows /\ ~p.calls
    BY <1>9, <1>10, <1>11, <2>1, <2>3 DEF Reusable, PageRests, Page, Source, FlowInv, Flow,
       PageFits
  <2> QED
    BY <1>1, <1>4, <1>8, <1>9, <2>2, <2>4, FlowOfRendered
<1>12. CASE ~Reusable(r, c)
  <2>1. PICK p : p = [NoPage EXCEPT !.shows = Blank, !.task = c, !.timers = page[r].timers]
    OBVIOUS
  <2>2. /\ p \in Page /\ p.task = c /\ p.shows = Blank /\ p.timers = {} /\ ~p.calls
    BY <1>9, <2>1 DEF NoPage, Page, Image, PageRests
  <2>3. page' = [page EXCEPT ![r] = p] /\ file' = file /\ out' = out
    BY <1>12, <2>1 DEF ReadTask
  <2>4. FlowTypes' /\ page'[r] = p
    BY <1>1, <1>4, <2>2, <2>3 DEF FlowInv, FlowTypes
  <2>5. \A x \in Renderers \ {r} : Local(x)' = Local(x)
    BY <1>1, <1>4, <2>3 DEF FlowInv, FlowTypes, Local
  <2>6. PageFits(r)'
    BY <2>2, <2>4, PoolAssumption DEF PageFits
  <2>7. OnPage(r, c)'
    BY <1>1, <1>8, <1>9, <2>2, <2>3, <2>4 DEF OnPage, Working, NotWriting, NothingSaid, Listens
  <2>8. \A e \in Clients : Awaits(e, r) => e = c
    BY <1>9, OneWaits DEF Awaits, Has, Keeping, Naming
  <2>9. \A e \in Clients : Awaits(e, r) /\ Served(r, e) => Served(r, e)'
    BY <2>7, <2>8 DEF Served
  <2> QED
    BY <1>1, <1>5, <2>3, <2>4, <2>5, <2>6, <2>9, FlowOne DEF Resting
<1> QED
  BY <1>11, <1>12

LEMMA FlowOfLoaded ==
  ASSUME PlaceInv, FlowInv, Calling = {}, NEW r \in Renderers, Loaded(r) PROVE FlowInv'
<1>1. PICK c \in Clients : Awaits(c, r) /\ OnPage(r, c)
  BY PageOfTask DEF Loaded, Loading
<1>2. Source(c) \in Sources /\ Source(c) \notin {Blank, None} /\ page[r] \in Page
  BY PoolAssumption DEF FlowInv, FlowTypes, Source, Job
<1>3. page[r].shows = Blank /\ page[r].task = c /\ page[r].timers = {}
  BY <1>1, <1>2 DEF OnPage, Loaded, Loading
<1>4. PICK p : p = [page[r] EXCEPT
         !.shows = job[page[r].task].source, !.url = job[page[r].task].source,
         !.calls = job[page[r].task].source \in Calling,
         !.timers = {"current"} \cup (IF page[r].timers = {} THEN {} ELSE {"stray"})]
  OBVIOUS
<1>5. /\ p \in Page /\ p.task = c /\ p.shows = Source(c) /\ p.url = Source(c) /\ ~p.calls
      /\ p.timers = {"current"}
  <2>1. job[page[r].task].source = Source(c) /\ (Source(c) \in Calling) = FALSE
    BY <1>3 DEF Source
  <2> QED
    BY <1>2, <1>3, <1>4, <2>1 DEF Page, Image
<1>6. page' = [page EXCEPT ![r] = p]
  BY <1>4 DEF Loaded
<1>7. UNCHANGED <<job, got, pc, renderer, poller, message, inProgress, gobbler, stream, out, file>>
  BY DEF Loaded, clientVars, pollVars
<1>8. FlowTypes' /\ page'[r] = p
  BY <1>5, <1>6, <1>7 DEF FlowInv, FlowTypes
<1>9. \A x \in Renderers \ {r} : Local(x)' = Local(x)
  BY <1>6, <1>7 DEF FlowInv, FlowTypes, Local
<1>10. PageFits(r)' /\ OnPage(r, c)'
  BY <1>1, <1>5, <1>7, <1>8 DEF PageFits, OnPage, Working, NotWriting, NothingSent, NothingSaid,
     Listens, Source
<1>11. \A e \in Clients : Awaits(e, r) => e = c
  BY <1>1, OneWaits DEF Awaits, Has, Keeping, Naming
<1>12. \A e \in Clients : Awaits(e, r) /\ Served(r, e) => Served(r, e)'
  BY <1>10, <1>11 DEF Served
<1>13. ~Resting(r)
  BY <1>3 DEF Resting, PageRests
<1> QED
  BY <1>7, <1>8, <1>9, <1>10, <1>12, <1>13, FlowOne

LEMMA FlowOfLoadFailed ==
  ASSUME PlaceInv, FlowInv, NEW r \in Renderers, LoadFailed(r) PROVE FlowInv'
<1>1. PICK c \in Clients : Awaits(c, r) /\ OnPage(r, c)
  BY PageOfTask DEF LoadFailed, Loading
<1>2. Source(c) \in Sources /\ Source(c) \notin {Blank, None} /\ page[r] \in Page
  BY PoolAssumption DEF FlowInv, FlowTypes, Source, Job
<1>3. page[r].shows = Blank /\ page[r].task = c /\ page[r].timers = {}
  BY <1>1, <1>2 DEF OnPage, LoadFailed, Loading
<1>4. PICK p : p = [page[r] EXCEPT !.shows = None]
  OBVIOUS
<1>5. p \in Page /\ p.shows = None /\ p.timers = {} /\ ~p.calls
  BY <1>2, <1>3, <1>4 DEF Page, FlowInv, Flow, PageFits
<1>6. page' = [page EXCEPT ![r] = p] /\ out' = [out EXCEPT ![r] = Append(out[r], "error")]
  BY <1>4 DEF LoadFailed, Says
<1>7. UNCHANGED <<job, got, pc, renderer, poller, message, inProgress, gobbler, stream, file>>
  BY DEF LoadFailed, clientVars, pollVars
<1>8. out[r] \in Seq(Line) /\ Append(out[r], "error") \in Seq(Line)
  BY Spoken DEF FlowInv, FlowTypes
<1>9. FlowTypes' /\ page'[r] = p /\ out'[r] = Append(out[r], "error")
  BY <1>5, <1>6, <1>7, <1>8 DEF FlowInv, FlowTypes
<1>10. \A x \in Renderers \ {r} : Local(x)' = Local(x)
  BY <1>6, <1>7 DEF FlowInv, FlowTypes, Local
<1>11. Once(out'[r], "error", "shutdown")
  BY <1>1, <1>8, <1>9, Spoken DEF OnPage, NothingSaid
<1>12. PageFits(r)' /\ PageRests(r)'
  BY <1>5, <1>9, PoolAssumption DEF PageFits, PageRests
<1>13. Said(r, c)'
  BY <1>1, <1>7, <1>11, <1>12 DEF OnPage, Said, Working, NotWriting, NothingSent, Listens
<1>14. \A e \in Clients : Awaits(e, r) => e = c
  BY <1>1, OneWaits DEF Awaits, Has, Keeping, Naming
<1>15. \A e \in Clients : Awaits(e, r) /\ Served(r, e) => Served(r, e)'
  BY <1>13, <1>14 DEF Served
<1>16. ~Resting(r)
  BY <1>3 DEF Resting, PageRests
<1> QED
  BY <1>7, <1>9, <1>10, <1>12, <1>15, <1>16, FlowOne

LEMMA FlowOfReadLine ==
  ASSUME PlaceInv, FlowInv, NEW r \in Renderers, ReadLine(r) PROVE FlowInv'
<1>1. /\ UNCHANGED <<job, got, pc, renderer, poller, message, inProgress, stream, page, file>>
      /\ gobbler[r].at = "read" /\ out[r] # <<>> /\ Head(out[r]) # "shutdown"
      /\ out' = [out EXCEPT ![r] = Tail(out[r])]
      /\ gobbler' = [gobbler EXCEPT ![r] = [at |-> "clear", task |-> inProgress[r],
                                            ok |-> Head(out[r]) = "success", result |-> None]]
  BY DEF ReadLine, clientVars, pollVars
<1>2. out[r] \in Seq(Line) /\ Tail(out[r]) \in Seq(Line)
  BY <1>1 DEF FlowInv, FlowTypes
<1>3. ~NothingSaid(r)
  BY <1>1, <1>2, Spoken DEF NothingSaid
<1>4. PICK c \in Clients : Awaits(c, r) /\ Said(r, c)
  <2>1. PICK c \in Clients : Awaits(c, r)
    BY <1>3 DEF FlowInv, Flow, Resting
  <2>2. Said(r, c)
    BY <1>3, <2>1 DEF FlowInv, Flow, Served, Took, Writing, OnStream, OnPage, Heard, Answering,
       Lost
  <2> QED
    BY <2>1, <2>2
<1>5. /\ Only(Tail(out[r]), "shutdown")
      /\ Head(out[r]) = "success" => file[c] = Source(c)
  <2>1. CASE Once(out[r], "success", "shutdown") /\ file[c] = Source(c)
    BY <1>1, <1>2, <2>1, Spoken
  <2>2. CASE Once(out[r], "error", "shutdown")
    BY <1>1, <1>2, <2>2, Spoken
  <2> QED
    BY <1>4, <2>1, <2>2 DEF Said
<1>6. /\ inProgress[r] = c
      /\ gobbler'[r].at = "clear" /\ gobbler'[r].task = c
      /\ gobbler'[r].ok => file[c] = Source(c)
      /\ out'[r] = Tail(out[r])
  BY <1>1, <1>4, <1>5 DEF Said, Working, FlowInv, FlowTypes
<1>7. FlowTypes'
  <2>1. [at |-> "clear", task |-> inProgress[r], ok |-> Head(out[r]) = "success", result |-> None]
          \in Gobbler
    BY DEF Gobbler, FlowInv, FlowTypes
  <2>2. gobbler' \in [Renderers -> Gobbler] /\ out' \in [Renderers -> Seq(Line)]
    BY <1>1, <1>2, <2>1 DEF FlowInv, FlowTypes
  <2> QED
    BY <1>1, <2>2 DEF FlowInv, FlowTypes
<1>8. \A x \in Renderers \ {r} : Local(x)' = Local(x)
  BY <1>1 DEF FlowInv, FlowTypes, Local
<1>9. PageFits(r)'
  BY <1>1 DEF FlowInv, Flow, PageFits
<1>10. Heard(r, c)'
  BY <1>1, <1>4, <1>5, <1>6 DEF Said, Heard, Working, NotWriting, NothingSent, PageRests,
     NothingSaid, Source
<1>11. \A e \in Clients : Awaits(e, r) => e = c
  BY <1>4, OneWaits DEF Awaits, Has, Keeping, Naming
<1>12. \A e \in Clients : Awaits(e, r) /\ Served(r, e) => Served(r, e)'
  BY <1>10, <1>11 DEF Served
<1> QED
  BY <1>1, <1>3, <1>7, <1>8, <1>9, <1>12, FlowOne DEF Resting

LEMMA FlowOfReadShutdown ==
  ASSUME PlaceInv, FlowInv, NEW r \in Renderers, ReadShutdown(r) PROVE FlowInv'
<1>1. /\ UNCHANGED <<job, got, pc, renderer, poller, message, inProgress, stream, page, file>>
      /\ gobbler[r].at = "read" /\ out[r] # <<>> /\ Head(out[r]) = "shutdown"
      /\ out' = [out EXCEPT ![r] = Tail(out[r])]
      /\ gobbler' = [gobbler EXCEPT ![r].at = "ended"]
  BY DEF ReadShutdown, clientVars, pollVars
<1>2. out[r] \in Seq(Line) /\ Tail(out[r]) \in Seq(Line)
  BY <1>1 DEF FlowInv, FlowTypes
<1>3. FlowTypes' /\ out'[r] = Tail(out[r]) /\ gobbler'[r].at = "ended"
  <2>1. PICK g : g = [gobbler[r] EXCEPT !.at = "ended"]
    OBVIOUS
  <2>2. g \in Gobbler /\ g.at = "ended"
    BY <2>1 DEF FlowInv, FlowTypes, Gobbler
  <2>3. gobbler' = [gobbler EXCEPT ![r] = g]
    BY <1>1, <2>1
  <2> QED
    BY <1>1, <1>2, <2>2, <2>3 DEF FlowInv, FlowTypes
<1>4. \A x \in Renderers \ {r} : Local(x)' = Local(x)
  BY <1>1 DEF FlowInv, FlowTypes, Local
<1>5. /\ NothingSaid(r) => NothingSaid(r)'
      /\ \A line \in {"success", "error"} :
           Once(out[r], line, "shutdown") => Once(out'[r], line, "shutdown")
  BY <1>1, <1>2, <1>3, Spoken DEF NothingSaid
<1>6. PageFits(r)' /\ (Resting(r) => Resting(r)')
  BY <1>1, <1>3, <1>5 DEF FlowInv, Flow, Served, Took, Writing, OnStream, OnPage, Said, Heard,
     Answering, Lost, Working, Resting, NotWriting, Cleared, NothingSent, PageRests, NothingSaid,
     Listens, PageFits, Source
<1>7. ASSUME NEW c \in Clients, Served(r, c) PROVE Served(r, c)'
  BY <1>1, <1>3, <1>5, <1>7 DEF Served, Took, Writing, OnStream, OnPage, Said, Heard, Answering,
     Lost, Working, Resting, NotWriting, Cleared, NothingSent, PageRests, NothingSaid, Listens,
     PageFits, Source
<1> QED
  BY <1>1, <1>3, <1>4, <1>6, <1>7, FlowOne

LEMMA FlowOfOutputEnds ==
  ASSUME PlaceInv, FlowInv, NEW r \in Renderers, OutputEnds(r) PROVE FlowInv'
<1>1. /\ UNCHANGED <<job, got, pc, renderer, poller, message, inProgress, stream, page, file, out>>
      /\ gobbler[r].at = "read" /\ gobbler' = [gobbler EXCEPT ![r].at = "ended"]
  BY DEF OutputEnds, clientVars, pollVars, procVars
<1>2. FlowTypes' /\ gobbler'[r].at = "ended"
  <2>1. PICK g : g = [gobbler[r] EXCEPT !.at = "ended"]
    OBVIOUS
  <2>2. g \in Gobbler /\ g.at = "ended"
    BY <2>1 DEF FlowInv, FlowTypes, Gobbler
  <2>3. gobbler' = [gobbler EXCEPT ![r] = g]
    BY <1>1, <2>1
  <2> QED
    BY <1>1, <2>2, <2>3 DEF FlowInv, FlowTypes
<1>3. \A x \in Renderers \ {r} : Local(x)' = Local(x)
  BY <1>1 DEF FlowInv, FlowTypes, Local
<1>4. PageFits(r)' /\ (Resting(r) => Resting(r)')
  BY <1>1, <1>2 DEF FlowInv, Flow, Served, Took, Writing, OnStream, OnPage, Said, Heard,
     Answering, Lost, Working, Resting, NotWriting, Cleared, NothingSent, PageRests, NothingSaid,
     Listens, PageFits, Source
<1>5. ASSUME NEW c \in Clients, Served(r, c) PROVE Served(r, c)'
  BY <1>1, <1>2, <1>5 DEF Served, Took, Writing, OnStream, OnPage, Said, Heard, Answering, Lost,
     Working, Resting, NotWriting, Cleared, NothingSent, PageRests, NothingSaid, Listens,
     PageFits, Source
<1> QED
  BY <1>1, <1>2, <1>3, <1>4, <1>5, FlowOne

\* The output thread has heard of a task, or answers it, only while its client waits.
LEMMA HeardOfTask ==
  ASSUME FlowInv, NEW r \in Renderers, gobbler[r].at \notin {"read", "ended"}
  PROVE  \E c \in Clients : Awaits(c, r) /\ (Heard(r, c) \/ Answering(r, c))
<1>1. PICK c \in Clients : Awaits(c, r)
  BY DEF FlowInv, Flow, Resting, Listens
<1>2. Served(r, c) /\ ~Listens(r)
  BY <1>1 DEF FlowInv, Flow, Listens
<1> QED
  BY <1>1, <1>2 DEF Served, Took, Writing, OnStream, OnPage, Said, Lost

LEMMA FlowOfClear ==
  ASSUME PlaceInv, FlowInv, NEW r \in Renderers, ClearInProgress(r) PROVE FlowInv'
<1>1. PICK c \in Clients : Awaits(c, r) /\ Heard(r, c)
  BY HeardOfTask DEF ClearInProgress, Answering
<1>2. c # None /\ c # Reconnect
  BY PoolAssumption
<1>3. /\ UNCHANGED <<job, got, pc, renderer, poller, message, stream, page, file, out>>
      /\ inProgress' = [inProgress EXCEPT ![r] = None]
      /\ gobbler' = [gobbler EXCEPT ![r].at = "respond"]
  BY <1>1, <1>2 DEF ClearInProgress, Heard, clientVars, procVars
<1>4. /\ FlowTypes' /\ inProgress'[r] = None
      /\ gobbler'[r].at = "respond" /\ gobbler'[r].task = c /\ gobbler'[r].ok = gobbler[r].ok
  <2>1. PICK g : g = [gobbler[r] EXCEPT !.at = "respond"]
    OBVIOUS
  <2>2. gobbler[r] \in Gobbler /\ gobbler[r].task = c
    BY <1>1 DEF Heard, FlowInv, FlowTypes
  <2>3. g \in Gobbler
    BY <2>1, <2>2 DEF Gobbler
  <2>4. g.at = "respond" /\ g.task = c /\ g.ok = gobbler[r].ok
    BY <2>1, <2>2 DEF Gobbler
  <2>5. gobbler' = [gobbler EXCEPT ![r] = g]
    BY <1>3, <2>1
  <2>6. gobbler' \in [Renderers -> Gobbler] /\ gobbler'[r] = g
    BY <2>3, <2>5 DEF FlowInv, FlowTypes
  <2>7. inProgress' \in [Renderers -> Clients \cup {None, Reconnect}] /\ inProgress'[r] = None
    BY <1>3 DEF FlowInv, FlowTypes
  <2>8. FlowTypes'
    BY <1>3, <2>6, <2>7 DEF FlowInv, FlowTypes
  <2> QED
    BY <2>4, <2>6, <2>7, <2>8
<1>5. \A x \in Renderers \ {r} : Local(x)' = Local(x)
  BY <1>3 DEF FlowInv, FlowTypes, Local
<1>6. PageFits(r)'
  BY <1>3 DEF FlowInv, Flow, PageFits
<1>7. Answering(r, c)'
  BY <1>1, <1>3, <1>4 DEF Heard, Answering, Working, NotWriting, Cleared, NothingSent, PageRests,
                          NothingSaid, Source
<1>8. \A e \in Clients : Awaits(e, r) => e = c
  BY <1>1, OneWaits DEF Awaits, Has, Keeping, Naming
<1>9. \A e \in Clients : Awaits(e, r) /\ Served(r, e) => Served(r, e)'
  BY <1>7, <1>8 DEF Served
<1>10. ~Resting(r)
  BY <1>1 DEF Heard, Resting, Listens
<1> QED
  BY <1>3, <1>4, <1>5, <1>6, <1>9, <1>10, FlowOne

LEMMA FlowOfRespond ==
  ASSUME PlaceInv, FlowInv, NEW r \in Renderers, Respond(r) \/ RespondNone(r) PROVE FlowInv'
<1>1. PICK c \in Clients : Awaits(c, r) /\ Answering(r, c)
  BY HeardOfTask DEF Respond, RespondNone, Heard
<1>2. Source(c) \in Sources
  BY DEF FlowInv, FlowTypes, Source, Job
<1>3. PICK result \in {Source(c), None} :
         gobbler' = [gobbler EXCEPT ![r] = [gobbler[r] EXCEPT !.at = "put", !.result = result]]
  <2>1. gobbler[r].task = c /\ (gobbler[r].ok => file[c] = Source(c))
    BY <1>1 DEF Answering, Respond, RespondNone
  <2> QED
    BY <2>1 DEF Respond, RespondNone, Responding
<1>4. UNCHANGED <<job, got, pc, renderer, poller, message, inProgress, stream, page, out>>
  BY DEF Respond, RespondNone, Responding, clientVars, pollVars, procVars
<1>5. /\ gobbler[r].task = c
      /\ file' = file \/ file' = [file EXCEPT ![c] = Blank]
  BY <1>1 DEF Answering, Respond, RespondNone
<1>6. /\ gobbler' \in [Renderers -> Gobbler]
      /\ gobbler'[r].at = "put" /\ gobbler'[r].result = result /\ gobbler'[r].task = c
  <2>1. PICK g : g = [gobbler[r] EXCEPT !.at = "put", !.result = result]
    OBVIOUS
  <2>2. g \in Gobbler /\ g.at = "put" /\ g.result = result /\ g.task = c
    <3>1. gobbler[r] \in Gobbler /\ result \in Image \cup {None}
      BY <1>2 DEF FlowInv, FlowTypes, Image
    <3> QED
      BY <1>5, <2>1, <3>1 DEF Gobbler
  <2>3. gobbler' = [gobbler EXCEPT ![r] = g]
    BY <1>3, <2>1
  <2> QED
    BY <2>2, <2>3 DEF FlowInv, FlowTypes
<1>7. FlowTypes'
  BY <1>4, <1>5, <1>6 DEF FlowInv, FlowTypes, Image
<1>8. \A x \in Renderers \ {r} : Local(x)' = Local(x)
  BY <1>3, <1>4 DEF FlowInv, FlowTypes, Local
<1>9. \A d \in Clients : Awaits(d, r) \/ file'[d] = file[d]
  BY <1>1, <1>5 DEF FlowInv, FlowTypes
<1>10. PageFits(r)'
  BY <1>4 DEF FlowInv, Flow, PageFits
<1>11. Answering(r, c)'
  BY <1>1, <1>4, <1>6 DEF Answering, NotWriting, Cleared, NothingSent, PageRests, NothingSaid,
     Source
<1>12. \A e \in Clients : Awaits(e, r) => e = c
  BY <1>1, OneWaits DEF Awaits, Has, Keeping, Naming
<1>13. \A e \in Clients : Awaits(e, r) /\ Served(r, e) => Served(r, e)'
  BY <1>11, <1>12 DEF Served
<1>14. ~Resting(r)
  BY <1>1 DEF Answering, Resting, Listens
<1> QED
  BY <1>4, <1>7, <1>8, <1>9, <1>10, <1>13, <1>14, FlowOne

\* A client hands over its task, or gets its answer.
LEMMA FlowExchange ==
  ASSUME PlaceInv, FlowInv, NEW r \in Renderers, NEW c \in Clients, NEW place \in Places,
         renderer[c] = r, pc' = [pc EXCEPT ![c] = place], renderer' = renderer, job' = job,
         file' = file, FlowTypes', OwnImage', Flow(r)',
         \A x \in Renderers \ {r} : Local(x)' = Local(x)
  PROVE  FlowInv'
<1>1. ASSUME NEW x \in Renderers \ {r} PROVE Flow(x)'
  <2>1. \A d \in Clients : Awaits(d, x)' <=> Awaits(d, x)
    BY DEF Awaits, PlaceInv, Types
  <2> QED
    BY <2>1, FlowKept DEF FlowInv
<1> QED
  BY <1>1 DEF FlowInv

LEMMA FlowOfPollTask ==
  ASSUME PlaceInv, FlowInv, NEW r \in Renderers, NEW c \in Clients, PollTask(r, c) PROVE FlowInv'
<1>1. /\ UNCHANGED <<job, got, renderer, inProgress, stream, page, file, out, gobbler>>
      /\ renderer[c] = r /\ pc[c] \in {"reset", "offer"} /\ poller[r] \in {"wait", "now"}
      /\ poller' = [poller EXCEPT ![r] = "took"]
      /\ message' = [message EXCEPT ![r] = IF pc[c] = "reset" THEN Reconnect ELSE c]
      /\ pc' = [pc EXCEPT ![c] = IF pc[c] = "reset" THEN "offer" ELSE "await"]
  BY DEF PollTask, Polling, Offering, At, Go, procVars
<1>2. \A d \in Clients : ~Awaits(d, r)
  BY <1>1, OneWaits DEF Awaits, Has, Keeping, Naming
<1>3. Resting(r)
  BY <1>2 DEF FlowInv, Flow
<1>4. FlowTypes' /\ poller'[r] = "took" /\ message'[r] = IF pc[c] = "reset" THEN Reconnect ELSE c
  BY <1>1 DEF FlowInv, FlowTypes
<1>5. \A x \in Renderers \ {r} : Local(x)' = Local(x)
  BY <1>1 DEF FlowInv, FlowTypes, Local
<1>6. OwnImage'
  BY <1>1 DEF FlowInv, OwnImage
<1>7. PageFits(r)'
  BY <1>1 DEF FlowInv, Flow, PageFits
<1>8. CASE pc[c] = "reset"
  <2>1. \A d \in Clients : ~Awaits(d, r)'
    BY <1>1, <1>2, <1>8 DEF Awaits, PlaceInv, Types
  <2>2. Resting(r)'
    BY <1>1, <1>3, <1>4, <1>8 DEF Resting, NotWriting, Cleared, NothingSent, PageRests,
       NothingSaid, Listens
  <2>3. Flow(r)'
    BY <1>7, <2>1, <2>2 DEF Flow
  <2>4. "offer" \in Places /\ pc' = [pc EXCEPT ![c] = "offer"]
    BY <1>1, <1>8 DEF Places, Naming
  <2> QED
    BY <1>1, <1>4, <1>5, <1>6, <2>3, <2>4, FlowExchange
<1>9. CASE pc[c] = "offer"
  <2>1. \A d \in Clients : Awaits(d, r)' <=> d = c
    BY <1>1, <1>2, <1>9 DEF Awaits, PlaceInv, Types
  <2>2. Took(r, c)'
    BY <1>1, <1>3, <1>4, <1>9 DEF Resting, Took, Cleared, NothingSent, PageRests, NothingSaid,
       Listens
  <2>3. Flow(r)'
    BY <1>7, <2>1, <2>2 DEF Flow, Served
  <2>4. "await" \in Places /\ pc' = [pc EXCEPT ![c] = "await"]
    BY <1>1, <1>9 DEF Places, Naming
  <2> QED
    BY <1>1, <1>4, <1>5, <1>6, <2>3, <2>4, FlowExchange
<1> QED
  BY <1>1, <1>8, <1>9

LEMMA FlowOfDeliver ==
  ASSUME PlaceInv, FlowInv, NEW r \in Renderers, NEW c \in Clients, Deliver(r, c) PROVE FlowInv'
<1>1. /\ UNCHANGED <<job, renderer, poller, message, inProgress, stream, page, file, out>>
      /\ renderer[c] = r /\ pc[c] = "await" /\ gobbler[r].at = "put"
      /\ got' = [got EXCEPT ![c] = gobbler[r].result]
      /\ gobbler' = [gobbler EXCEPT ![r] = Reading]
      /\ pc' = [pc EXCEPT ![c] = "return"]
  BY DEF Deliver, At, Go, pollVars, procVars
<1>2. \A d \in Clients : Awaits(d, r) => d = c
  BY <1>1, OneWaits DEF Awaits, Has, Keeping, Naming
<1>3. Answering(r, c)
  BY <1>1, <1>2, HeardOfTask DEF Heard
<1>4. gobbler[r].result \in {Source(c), None} /\ Source(c) \in Sources
  BY <1>1, <1>3 DEF Answering, FlowInv, FlowTypes, Source, Job
<1>5. FlowTypes' /\ gobbler'[r].at = "read"
  <2>1. Reading \in Gobbler
    BY DEF Reading, Gobbler
  <2>2. Reading.at = "read"
    BY DEF Reading
  <2> QED
    BY <1>1, <1>4, <2>1, <2>2 DEF FlowInv, FlowTypes
<1>6. \A x \in Renderers \ {r} : Local(x)' = Local(x)
  BY <1>1 DEF FlowInv, FlowTypes, Local
<1>7. OwnImage'
  <2>1. \A d \in Clients : got'[d] \in {job[d].source, None}
    BY <1>1, <1>4 DEF FlowInv, FlowTypes, OwnImage, Source
  <2> QED
    BY <1>1, <2>1 DEF OwnImage
<1>8. PageFits(r)'
  BY <1>1 DEF FlowInv, Flow, PageFits
<1>9. \A d \in Clients : ~Awaits(d, r)'
  BY <1>1, <1>2 DEF Awaits, PlaceInv, Types
<1>10. Resting(r)'
  BY <1>1, <1>3, <1>5 DEF Answering, Resting, NotWriting, Cleared, NothingSent, PageRests,
     NothingSaid, Listens
<1>11. Flow(r)'
  BY <1>8, <1>9, <1>10 DEF Flow
<1>12. "return" \in Places
  BY DEF Places, Naming
<1> QED
  BY <1>1, <1>5, <1>6, <1>7, <1>11, <1>12, FlowExchange

\* A client that neither waits for an answer nor comes to wait for one.
LEMMA FlowElsewhere ==
  ASSUME PlaceInv, FlowInv,
         UNCHANGED <<job, got, file, poller, message, inProgress, stream, page, out, gobbler>>,
         \A c \in Clients : \A x \in Renderers : Awaits(c, x)' <=> Awaits(c, x)
  PROVE  FlowInv'
<1>1. FlowTypes' /\ OwnImage'
  BY DEF FlowInv, FlowTypes, OwnImage
<1>2. \A x \in Renderers : Local(x)' = Local(x)
  BY DEF Local
<1>3. \A x \in Renderers : Flow(x)'
  BY <1>2, FlowKept DEF FlowInv
<1> QED
  BY <1>1, <1>3 DEF FlowInv

LEMMA FlowOfClient ==
  ASSUME PlaceInv, FlowInv, NEW c \in Clients, Client(c) PROVE FlowInv'
<1>1. UNCHANGED <<job, got, file, poller, message, inProgress, stream, page, out, gobbler>>
  BY DEF Client, AlreadyInitialized, StartPool, MakeRenderer, Listen, AddRenderer, ListRenderer,
         PoolMade, CheckPool, TakeRenderer, ReadQueue, PutBack, pollVars, procVars
<1>2. /\ pc[c] # "await"
      /\ \E place \in Places \ {"await"} : pc' = [pc EXCEPT ![c] = place]
      /\ \A d \in Clients \ {c} : renderer'[d] = renderer[d]
  <2>1. CASE AlreadyInitialized(c) \/ StartPool(c) \/ Listen(c) \/ AddRenderer(c)
    BY <2>1 DEF AlreadyInitialized, StartPool, Listen, AddRenderer, At, Go, poolVars, Places,
       Naming
  <2>2. CASE PoolMade(c) \/ CheckPool(c) \/ ReadQueue(c)
    BY <2>2 DEF PoolMade, CheckPool, ReadQueue, At, Go, poolVars, Places, Naming
  <2>3. CASE (\E r \in Renderers : MakeRenderer(c, r)) \/ ListRenderer(c) \/ PutBack(c)
    BY <2>3 DEF MakeRenderer, ListRenderer, PutBack, At, Go, Places, Naming, PlaceInv, Types
  <2>4. CASE TakeRenderer(c)
    <3>1. pc[c] = "take" /\ \E place \in {"reset", "offer"} : pc' = [pc EXCEPT ![c] = place]
      BY <2>4 DEF TakeRenderer, At, Go
    <3>2. \A d \in Clients \ {c} : renderer'[d] = renderer[d]
      BY <2>4 DEF TakeRenderer, PlaceInv, Types
    <3> QED
      BY <3>1, <3>2 DEF Places, Naming
  <2> QED
    BY <2>1, <2>2, <2>3, <2>4 DEF Client
<1>3. \A d \in Clients : \A x \in Renderers : Awaits(d, x)' <=> Awaits(d, x)
  BY <1>2 DEF Awaits, PlaceInv, Types
<1> QED
  BY <1>1, <1>3, FlowElsewhere

LEMMA FlowStep == Calling = {} /\ PlaceInv /\ FlowInv /\ [Next]_vars => FlowInv'
<1> SUFFICES ASSUME Calling = {}, PlaceInv, FlowInv, [Next]_vars PROVE FlowInv'
  OBVIOUS
<1>1. ASSUME NEW r \in Renderers, Poll(r) PROVE FlowInv'
  BY <1>1, FlowOfPollTask, FlowOfPollTimeout, FlowOfSetInProgress, FlowOfWrite, FlowOfWriteFails
     DEF Poll
<1>2. ASSUME NEW r \in Renderers, Work(r) PROVE FlowInv'
  BY <1>2, FlowOfAsk, FlowOfReadReconnect, FlowOfReadTask, FlowOfLoaded, FlowOfLoadFailed,
     FlowOfShutDown, FlowOfTimerFires DEF Work
<1>3. ASSUME NEW r \in Renderers, Gobble(r) PROVE FlowInv'
  BY <1>3, FlowOfReadLine, FlowOfReadShutdown, FlowOfOutputEnds, FlowOfClear, FlowOfRespond,
     FlowOfDeliver DEF Gobble
<1>4. ASSUME NEW r \in Renderers, Fault(r) PROVE FlowInv'
  BY <1>4, FlowOfLoss DEF Fault, PageCalls, FlowInv, Flow, PageFits
<1>5. CASE UNCHANGED vars
  BY <1>5, FlowElsewhere DEF vars, poolVars, clientVars, pollVars, procVars, Awaits
<1> QED
  BY <1>1, <1>2, <1>3, <1>4, <1>5, FlowOfClient DEF Next

LEMMA FlowInit == Init => FlowInv
<1> SUFFICES ASSUME Init PROVE FlowInv
  OBVIOUS
<1>1. FlowTypes
  <2>1. Reading \in Gobbler /\ NoPage \in Page
    BY DEF Reading, Gobbler, NoPage, Page
  <2>2. \A S : <<>> \in Seq(S)
    OBVIOUS
  <2>3. job \in [Clients -> Job]
    BY PoolAssumption DEF Init
  <2> QED
    BY <2>1, <2>2, <2>3 DEF Init, FlowTypes, Image
<1>2. ASSUME NEW r \in Renderers PROVE Flow(r)
  <2>1. \A c \in Clients : ~Awaits(c, r)
    BY DEF Init, Awaits
  <2>2. /\ poller[r] = "none" /\ inProgress[r] = None /\ stream[r] = <<>> /\ out[r] = <<>>
        /\ page[r].shows = None /\ page[r].timers = {} /\ page[r].calls = FALSE
        /\ gobbler[r].at = "read"
    BY DEF Init, NoPage, Reading
  <2>3. PageFits(r)
    BY <2>2, PoolAssumption DEF PageFits
  <2>4. Resting(r)
    BY <2>2, PoolAssumption DEF Resting, NotWriting, Cleared, NothingSent, PageRests, NothingSaid,
       Listens, Only
  <2> QED
    BY <2>1, <2>3, <2>4 DEF Flow
<1>3. OwnImage
  BY DEF Init, OwnImage
<1> QED
  BY <1>1, <1>2, <1>3 DEF FlowInv

LEMMA FlowAlways == ASSUME Calling = {} PROVE Spec => [](PlaceInv /\ FlowInv)
<1>1. Init => PlaceInv /\ FlowInv
  BY PlaceInit, FlowInit
<1>2. (PlaceInv /\ FlowInv) /\ [Next]_vars => (PlaceInv /\ FlowInv)'
  BY PlaceStep, FlowStep
<1> QED
  BY <1>1, <1>2, PTL DEF Spec

LEMMA FlowIdle == PlaceInv /\ FlowInv => IdleInPool
<1> SUFFICES ASSUME PlaceInv, FlowInv, NEW p \in Pools, NEW r \in ToSet(queue[p])
             PROVE  /\ inProgress[r] \in {None, Reconnect} /\ ToSet(stream[r]) \cap Clients = {}
                    /\ page[r].shows # Blank /\ page[r].timers = {}
                    /\ gobbler[r].at \in {"read", "ended"}
                    /\ ToSet(out[r]) \subseteq {"shutdown"}
  BY DEF IdleInPool
<1>1. PICK i \in 1..Len(queue[p]) : queue[p][i] = r
  BY DEF ToSet, PlaceInv, Types
<1>2. r \in Renderers
  BY <1>1 DEF PlaceInv, Types
<1>3. \A c \in Clients : ~Awaits(c, r)
  BY <1>1 DEF PlaceInv, NotBoth, Has, Awaits, Keeping, Naming
<1>4. Resting(r)
  BY <1>2, <1>3 DEF FlowInv, Flow
<1>5. stream[r] \in Seq(Clients \cup {Reconnect}) /\ out[r] \in Seq(Line)
  BY <1>2 DEF FlowInv, FlowTypes
<1>6. ToSet(stream[r]) \subseteq {Reconnect} /\ ToSet(out[r]) \subseteq {"shutdown"}
  BY <1>4, <1>5 DEF ToSet, Resting, NothingSent, NothingSaid, Only
<1> QED
  BY <1>4, <1>6, PoolAssumption DEF Resting, Cleared, PageRests, Listens

LEMMA FlowAwaited == FlowInv => AnswerAwaited
<1> SUFFICES ASSUME FlowInv, NEW r \in Renderers, NEW c \in Clients,
                    inProgress[r] = c \/ (gobbler[r].at \in {"respond", "put"} /\ gobbler[r].task = c)
             PROVE  pc[c] = "await" /\ renderer[c] = r
  BY DEF AnswerAwaited, At
<1>1. ~Resting(r)
  BY PoolAssumption DEF Resting, Cleared, Listens
<1>2. PICK d \in Clients : Awaits(d, r) /\ Served(r, d)
  BY <1>1 DEF FlowInv, Flow
<1>3. d = c
  BY <1>2, PoolAssumption DEF Served, Took, Writing, OnStream, OnPage, Said, Heard, Answering,
     Lost, Working, Cleared, Listens
<1> QED
  BY <1>2, <1>3 DEF Awaits

\* A renderer in the pool is done with what it was used for, also after lost connections
\* and processes that ended (putResponse and the shutdown listener): where no page calls
\* callPhantom, which renders a second time.
THEOREM PoolIsIdle == ASSUME Calling = {} PROVE Spec => []IdleInPool
BY FlowAlways, FlowIdle, PTL

\* The task in progress and the result on its way are those of the client that waits
\* there (nextTask, putResponse).
THEOREM TaskIsAwaited == ASSUME Calling = {} PROVE Spec => []AnswerAwaited
BY FlowAlways, FlowAwaited, PTL

\* A client gets an image of what it asked for, or none (inlineImageRender,
\* storedImageRender of PhantomRenderer, exportPage of rasterize.js).
THEOREM ImageIsOwn == ASSUME Calling = {} PROVE Spec => []OwnImage
<1>1. FlowInv => OwnImage
  BY DEF FlowInv
<1> QED
  BY <1>1, FlowAlways, PTL

-----------------------------------------------------------------------------
(* The pool as a capture service                                           *)

\* Where the pool is made on startup and no connection is lost, it stays what it was.
StartInv ==
  /\ lookup = Started
  /\ available \in Pools
  /\ \A c \in Clients : pc[c] \notin {"make", "listen", "add", "list"}
  /\ \A p \in Pools : \A i \in 1..Len(queue[p]) : queue[p][i] \in Started
  /\ \A c \in Clients : Has(c, renderer[c]) => renderer[c] \in Started
  /\ \A r \in Renderers : proc[r] = "up" => r \in Started
  /\ conn \in [Renderers -> {"open", "closed", "lost"}]
  /\ \A r \in Renderers : conn[r] = "lost" => proc[r] = "down"
  /\ \A r \in Renderers : \A i \in 1..Len(out[r]) : out[r][i] # "shutdown"

LEMMA StartInit == Started # {} /\ Init => StartInv
<1> SUFFICES ASSUME Started # {}, Init PROVE StartInv
  OBVIOUS
<1>1. IsFiniteSet(Started)
  BY PoolAssumption, FS_Subset
<1>2. PICK s : s = SetToSeq(Started)
  OBVIOUS
<1>3. s \in Seq(Started)
  BY <1>1, <1>2, SetToSeqOnce
<1>4. \A p \in Pools : queue[p] = IF p = 1 THEN s ELSE <<>>
  BY <1>2 DEF Init
<1>5. \A p \in Pools : \A i \in 1..Len(queue[p]) : queue[p][i] \in Started
  BY <1>3, <1>4
<1>6. available \in Pools
  <2>1. Cardinality(Clients) \in Nat
    BY PoolAssumption, FS_CardinalityType
  <2> QED
    BY <2>1 DEF Init, Pools
<1>7. \A r \in Renderers : \A i \in 1..Len(out[r]) : out[r][i] # "shutdown"
  BY DEF Init
<1> QED
  BY <1>5, <1>6, <1>7 DEF Init, StartInv, Has, Keeping, Naming

\* Steps that keep the pool as it is.
LEMMA StartKept ==
  ASSUME StartInv, PlaceInv, lookup' = lookup, available' = available,
         queue' = queue, proc' = proc, renderer' = renderer, conn' = conn, out' = out,
         \A c \in Clients : pc'[c] \notin {"make", "listen", "add", "list"},
         \A c \in Clients : pc'[c] \in Keeping => pc[c] \in Keeping
  PROVE  StartInv'
BY DEF StartInv, Has

LEMMA StartOfClient ==
  ASSUME Started # {}, StartInv, PlaceInv, NEW c \in Clients, Client(c)
  PROVE  StartInv'
<1>1. CASE AlreadyInitialized(c) \/ PoolMade(c) \/ CheckPool(c) \/ ReadQueue(c)
  <2>1. /\ lookup' = lookup /\ available' = available
        /\ queue' = queue /\ proc' = proc /\ renderer' = renderer /\ conn' = conn /\ out' = out
    BY <1>1 DEF AlreadyInitialized, PoolMade, CheckPool, ReadQueue, poolVars, procVars
  <2>2. \/ \E place \in {"check", "failed", "take"} : pc' = [pc EXCEPT ![c] = place]
        \/ pc[c] = "return" /\ pc' = [pc EXCEPT ![c] = "put"]
    BY <1>1 DEF AlreadyInitialized, PoolMade, CheckPool, ReadQueue, At, Go
  <2>3. /\ \A d \in Clients : pc'[d] \notin {"make", "listen", "add", "list"}
        /\ \A d \in Clients : pc'[d] \in Keeping => pc[d] \in Keeping
    BY <2>2 DEF StartInv, PlaceInv, Types, Keeping, Naming
  <2> QED
    BY <2>1, <2>3, StartKept
<1>2. CASE TakeRenderer(c)
  <2>1. PICK s : s = queue[pool[c]]
    OBVIOUS
  <2>2. PICK place \in {"reset", "offer"} : pc' = [pc EXCEPT ![c] = place]
    BY <1>2 DEF TakeRenderer, Go
  <2>3. /\ s # <<>> /\ queue' = [queue EXCEPT ![pool[c]] = Tail(s)]
        /\ renderer' = [renderer EXCEPT ![c] = Head(s)]
        /\ UNCHANGED <<lookup, available, proc, conn, out>>
    BY <1>2, <2>1 DEF TakeRenderer, procVars
  <2>4. pool[c] \in Pools /\ s \in Seq(Renderers) /\ \A i \in 1..Len(s) : s[i] \in Started
    BY <2>1 DEF PlaceInv, Types, StartInv
  <2>5. PICK t : t = Tail(s)
    OBVIOUS
  <2>6. Head(s) \in Started /\ \A i \in 1..Len(t) : t[i] \in Started
    BY <2>3, <2>4, <2>5
  <2>7. \A p \in Pools : \A i \in 1..Len(queue'[p]) : queue'[p][i] \in Started
    BY <2>3, <2>4, <2>5, <2>6 DEF PlaceInv, Types, StartInv
  <2>8. \A d \in Clients : Has(d, renderer[d])' => renderer'[d] \in Started
    BY <2>2, <2>3, <2>6 DEF StartInv, Has, PlaceInv, Types
  <2>9. \A d \in Clients : pc'[d] \notin {"make", "listen", "add", "list"}
    BY <2>2 DEF StartInv, PlaceInv, Types
  <2> QED
    BY <2>3, <2>7, <2>8, <2>9 DEF StartInv
<1>3. CASE PutBack(c)
  <2>1. /\ pc[c] = "put" /\ pc' = [pc EXCEPT ![c] = "done"]
        /\ queue' = [queue EXCEPT ![pool[c]] = Append(queue[pool[c]], renderer[c])]
        /\ renderer' = [renderer EXCEPT ![c] = None]
        /\ UNCHANGED <<lookup, available, proc, conn, out>>
    BY <1>3 DEF PutBack, At, Go, procVars
  <2>2. PICK s : s = queue[pool[c]]
    OBVIOUS
  <2>3. PICK t : t = Append(s, renderer[c])
    OBVIOUS
  <2>4. /\ pool[c] \in Pools /\ s \in Seq(Renderers) /\ \A i \in 1..Len(s) : s[i] \in Started
        /\ renderer[c] \in Started
    BY <2>1, <2>2 DEF PlaceInv, Types, StartInv, Has, Keeping, Naming
  <2>5. \A i \in 1..Len(t) : t[i] \in Started
    BY <2>3, <2>4, AppendProperties
  <2>6. queue' = [queue EXCEPT ![pool[c]] = t]
    BY <2>1, <2>2, <2>3
  <2>7. \A p \in Pools : \A i \in 1..Len(queue'[p]) : queue'[p][i] \in Started
    BY <2>4, <2>5, <2>6 DEF PlaceInv, Types, StartInv
  <2>8. \A d \in Clients : Has(d, renderer[d])' => renderer'[d] \in Started
    BY <2>1 DEF StartInv, Has, PlaceInv, Types, Keeping, Naming
  <2>9. \A d \in Clients : pc'[d] \notin {"make", "listen", "add", "list"}
    BY <2>1 DEF StartInv, PlaceInv, Types
  <2> QED
    BY <2>1, <2>7, <2>8, <2>9 DEF StartInv
<1>4. ~(StartPool(c) \/ (\E r \in Renderers : MakeRenderer(c, r)) \/ Listen(c) \/ AddRenderer(c)
        \/ ListRenderer(c))
  BY DEF StartInv, StartPool, MakeRenderer, Listen, AddRenderer, ListRenderer, At
<1> QED
  BY <1>1, <1>2, <1>3, <1>4 DEF Client

\* A line other than shutdown, if any.
LEMMA StartOfRenderer ==
  ASSUME Lossy = {}, StartInv, PlaceInv, FlowTypes, NEW r \in Renderers,
         Poll(r) \/ Work(r) \/ Gobble(r) \/ Fault(r)
  PROVE  StartInv'
<1>1. ASSUME lookup' = lookup, available' = available, queue' = queue, proc' = proc,
             renderer' = renderer, conn' = conn,
             \/ out' = out
             \/ \E line \in {"success", "error"} : out' = [out EXCEPT ![r] = Append(out[r], line)]
             \/ out[r] # <<>> /\ out' = [out EXCEPT ![r] = Tail(out[r])],
             pc' = pc \/ \E c \in Clients : \E place \in {"offer", "await", "return"} :
                           pc[c] \in Keeping /\ pc' = [pc EXCEPT ![c] = place]
      PROVE  StartInv'
  <2>1. /\ \A c \in Clients : pc'[c] \notin {"make", "listen", "add", "list"}
        /\ \A c \in Clients : pc'[c] \in Keeping => pc[c] \in Keeping
    BY <1>1 DEF StartInv, PlaceInv, Types
  <2>2. out[r] \in Seq(Line)
    BY DEF FlowTypes
  <2>3. ASSUME NEW t, t = out'[r] PROVE \A i \in 1..Len(t) : t[i] # "shutdown"
    <3>1. \A i \in 1..Len(out[r]) : out[r][i] # "shutdown"
      BY DEF StartInv
    <3>2. CASE out' = out
      BY <2>3, <3>1, <3>2
    <3>3. ASSUME NEW line \in {"success", "error"}, out' = [out EXCEPT ![r] = Append(out[r], line)]
          PROVE  \A i \in 1..Len(t) : t[i] # "shutdown"
      <4>1. t = Append(out[r], line) /\ line \in Line
        BY <2>3, <3>3 DEF FlowTypes, Line
      <4> QED
        BY <2>2, <3>1, <4>1, AppendProperties
    <3>4. CASE out[r] # <<>> /\ out' = [out EXCEPT ![r] = Tail(out[r])]
      <4>1. t = Tail(out[r])
        BY <2>3, <3>4 DEF FlowTypes
      <4> QED
        BY <2>2, <3>1, <3>4, <4>1
    <3> QED
      BY <1>1, <3>2, <3>3, <3>4
  <2>4. \A x \in Renderers \ {r} : out'[x] = out[x]
    BY <1>1 DEF FlowTypes
  <2>5. \A x \in Renderers : \A i \in 1..Len(out'[x]) : out'[x][i] # "shutdown"
    BY <2>3, <2>4 DEF StartInv
  <2> QED
    BY <1>1, <2>1, <2>5 DEF StartInv, Has
<1>2. CASE Poll(r)
  <2>1. ASSUME NEW c \in Clients, PollTask(r, c) PROVE StartInv'
    <3>1. /\ pc[c] \in Keeping /\ \E place \in {"offer", "await"} : pc' = [pc EXCEPT ![c] = place]
          /\ UNCHANGED <<lookup, available, queue, proc, renderer, conn, out>>
      BY <2>1 DEF PollTask, Offering, Go, poolVars, procVars, Keeping, Naming
    <3> QED
      BY <1>1, <3>1
  <2>2. CASE PollTimeout(r) \/ SetInProgress(r) \/ Write(r) \/ WriteFails(r)
    BY <1>1, <2>2 DEF PollTimeout, SetInProgress, Write, WriteFails, poolVars, clientVars, procVars
  <2> QED
    BY <1>2, <2>1, <2>2 DEF Poll
<1>3. CASE Work(r)
  <2>1. CASE Ask(r)
    <3>1. /\ lookup' = lookup /\ available' = available /\ queue' = queue /\ proc' = proc
          /\ renderer' = renderer /\ conn' = [conn EXCEPT ![r] = "open"] /\ out' = out /\ pc' = pc
      BY <2>1 DEF Ask, StartInv, poolVars, clientVars
    <3>2. /\ conn' \in [Renderers -> {"open", "closed", "lost"}]
          /\ \A x \in Renderers : conn'[x] = "lost" => proc[x] = "down"
      BY <3>1 DEF StartInv
    <3> QED
      BY <3>1, <3>2 DEF StartInv, Has
  <2>2. CASE ReadReconnect(r)
    <3>1. /\ lookup' = lookup /\ available' = available /\ queue' = queue /\ proc' = proc
          /\ renderer' = renderer /\ conn' = [conn EXCEPT ![r] = "closed"] /\ out' = out /\ pc' = pc
      BY <2>2 DEF ReadReconnect, poolVars, clientVars
    <3>2. /\ conn' \in [Renderers -> {"open", "closed", "lost"}]
          /\ \A x \in Renderers : conn'[x] = "lost" => proc[x] = "down"
      BY <3>1 DEF StartInv
    <3> QED
      BY <3>1, <3>2 DEF StartInv, Has
  <2>3. ~ShutDown(r)
    BY DEF StartInv, ShutDown
  <2>4. ASSUME NEW c \in Clients, ReadTask(r, c) PROVE StartInv'
    BY <1>1, <2>4 DEF ReadTask, Rendered, Says, poolVars, clientVars
  <2>5. CASE Loaded(r) \/ LoadFailed(r)
    BY <1>1, <2>5 DEF Loaded, LoadFailed, Says, poolVars, clientVars
  <2>6. ASSUME NEW k \in {"current", "stray"}, TimerFires(r, k) PROVE StartInv'
    BY <1>1, <2>6 DEF TimerFires, Rendered, Says, poolVars, clientVars
  <2> QED
    BY <1>3, <2>1, <2>2, <2>3, <2>4, <2>5, <2>6 DEF Work
<1>4. CASE Gobble(r)
  <2>1. CASE ReadLine(r)
    BY <1>1, <2>1 DEF ReadLine, poolVars, clientVars
  <2>2. ~ReadShutdown(r)
    <3>1. out[r] \in Seq(Line)
      BY DEF FlowTypes
    <3>2. out[r] # <<>> => 1 \in 1..Len(out[r]) /\ Head(out[r]) = out[r][1]
      BY <3>1
    <3> QED
      BY <3>2 DEF StartInv, ReadShutdown
  <2>3. CASE OutputEnds(r) \/ ClearInProgress(r) \/ Respond(r) \/ RespondNone(r)
    BY <1>1, <2>3 DEF OutputEnds, ClearInProgress, Respond, RespondNone, Responding, poolVars,
                      clientVars, procVars
  <2>4. ASSUME NEW c \in Clients, Deliver(r, c) PROVE StartInv'
    BY <1>1, <2>4 DEF Deliver, At, Go, poolVars, procVars, Keeping, Naming
  <2> QED
    BY <1>4, <2>1, <2>2, <2>3, <2>4 DEF Gobble
<1>5. CASE Fault(r)
  <2>1. CASE PageCalls(r)
    BY <1>1, <2>1 DEF PageCalls, Rendered, Says, poolVars, clientVars
  <2>2. ~ConnectionLost(r)
    BY DEF ConnectionLost
  <2>3. CASE ProcessExits(r)
    <3>1. /\ lookup' = lookup /\ available' = available /\ queue' = queue /\ out' = out
          /\ renderer' = renderer /\ pc' = pc /\ proc' = [proc EXCEPT ![r] = "down"]
          /\ conn' = [conn EXCEPT ![r] = IF conn[r] = "open" THEN "lost" ELSE conn[r]]
      BY <2>3 DEF ProcessExits, poolVars, clientVars
    <3>2. /\ conn' \in [Renderers -> {"open", "closed", "lost"}]
          /\ \A x \in Renderers : /\ proc'[x] = "up" => proc[x] = "up"
                                 /\ conn'[x] = "lost" => proc'[x] = "down"
      BY <3>1 DEF StartInv, PlaceInv, Types
    <3> QED
      BY <3>1, <3>2 DEF StartInv, Has
  <2> QED
    BY <1>5, <2>1, <2>2, <2>3 DEF Fault
<1> QED
  BY <1>2, <1>3, <1>4, <1>5

LEMMA StartStep ==
  Started # {} /\ Lossy = {} /\ StartInv /\ PlaceInv /\ FlowTypes /\ [Next]_vars => StartInv'
<1> SUFFICES ASSUME Started # {}, Lossy = {}, StartInv, PlaceInv, FlowTypes, [Next]_vars
             PROVE  StartInv'
  OBVIOUS
<1>1. CASE UNCHANGED vars
  BY <1>1 DEF vars, poolVars, clientVars, procVars, StartInv, Has
<1> QED
  BY <1>1, StartOfClient, StartOfRenderer DEF Next

\* What the service sees of a client changes only where it takes a renderer, gets
\* its answer and puts the renderer back.
LEMMA ServiceSame ==
  ASSUME job' = job, got' = got, \A c \in Clients : Progress(c)' = Progress(c)
  PROVE  [Service!Next]_(Service!vars)
<1>1. /\ [c \in Clients |-> Progress(c)]' = [c \in Clients |-> Progress(c)]
      /\ [c \in Clients |-> job[c].source]' = [c \in Clients |-> job[c].source]
  OBVIOUS
<1> QED
  BY <1>1 DEF Service!vars

\* A client moves without the service seeing it.
LEMMA ServiceMove ==
  ASSUME PlaceInv, job' = job, got' = got, NEW c \in Clients, NEW place \in Places,
         pc' = [pc EXCEPT ![c] = place],
         \/ {pc[c], place} \subseteq {"reset", "offer", "await"}
         \/ {pc[c], place} \subseteq {"return", "put"}
         \/ {pc[c], place} \cap {"reset", "offer", "await", "return", "put", "done"} = {}
  PROVE  [Service!Next]_(Service!vars)
<1>1. \A d \in Clients : pc'[d] = IF d = c THEN place ELSE pc[d]
  BY DEF PlaceInv, Types
<1>2. Progress(c)' = Progress(c)
  BY <1>1 DEF Progress
<1>3. \A d \in Clients \ {c} : Progress(d)' = Progress(d)
  BY <1>1 DEF Progress
<1> QED
  BY <1>2, <1>3, ServiceSame

\* Its progress is of the client that makes the step alone.
LEMMA ServiceTo ==
  ASSUME PlaceInv, NEW c \in Clients, NEW place \in Places, pc' = [pc EXCEPT ![c] = place],
         NEW from, NEW next, Progress(c) = from, Progress(c)' = next
  PROVE  Service!To(c, from, next)
<1>1. \A d \in Clients \ {c} : Progress(d)' = Progress(d)
  BY DEF Progress, PlaceInv, Types
<1>2. [d \in Clients |-> Progress(d)]' = [[d \in Clients |-> Progress(d)] EXCEPT ![c] = next]
  BY <1>1
<1> QED
  BY <1>2 DEF Service!To

\* A client that takes a renderer finds one of the pool's free: each that is being
\* served or answered holds another.
LEMMA ServiceFree ==
  ASSUME Started # {}, StartInv, PlaceInv, NEW c \in Clients, TakeRenderer(c)
  PROVE  Cardinality(Service!Busy) < PoolSize
<1>1. PICK r : r = Head(queue[pool[c]])
  OBVIOUS
<1>2. /\ pool[c] \in Pools /\ queue[pool[c]] \in Seq(Renderers) /\ queue[pool[c]] # <<>>
  BY DEF PlaceInv, Types, TakeRenderer
<1>3. 1 \in 1..Len(queue[pool[c]]) /\ r = queue[pool[c]][1]
  BY <1>1, <1>2
<1>4. r \in Started /\ \A d \in Clients : ~Has(d, r)
  BY <1>2, <1>3 DEF StartInv, PlaceInv, NotBoth
<1>5. PICK B : B = Service!Busy
  OBVIOUS
<1>6. B \subseteq Clients /\ \A d \in B : Has(d, renderer[d])
  <2>1. \A d \in B : d \in Clients /\ Progress(d) \in {"serving", "answered"}
    BY <1>5 DEF Service!Busy
  <2>2. \A d \in B : pc[d] \in {"reset", "offer", "await", "return", "put"}
    BY <2>1 DEF Progress
  <2> QED
    BY <2>1, <2>2 DEF Has, Keeping, Naming
<1>7. PICK T : T = Started \ {r}
  OBVIOUS
<1>8. IsFiniteSet(Started) /\ IsFiniteSet(T) /\ IsFiniteSet(B)
  BY <1>6, <1>7, PoolAssumption, FS_Subset
<1>9. Cardinality(T) = PoolSize - 1
  <2>1. Cardinality(Started) # 0
    BY <1>8, FS_EmptySet
  <2>2. Cardinality(Started) = PoolSize
    BY <2>1, PoolAssumption
  <2> QED
    BY <1>4, <1>7, <1>8, <2>2, FS_RemoveElement
<1>10. PICK f : f = [d \in B |-> renderer[d]]
  OBVIOUS
<1>11. f \in Injection(B, T)
  <2>1. \A d \in B : renderer[d] \in T
    BY <1>4, <1>6, <1>7 DEF StartInv
  <2>2. f \in [B -> T]
    BY <1>10, <2>1
  <2>3. \A d, e \in B : f[d] = f[e] => d = e
    <3>1. \A d, e \in B : renderer[d] \in Renderers /\ (renderer[d] = renderer[e] => d = e)
      BY <1>6 DEF PlaceInv, OneHolder, Types, Has, Keeping
    <3> QED
      BY <1>10, <3>1
  <2> QED
    BY <2>2, <2>3 DEF Injection, IsInjective
<1>12. Cardinality(B) <= Cardinality(T)
  BY <1>8, <1>11, FS_Injection DEF ExistsInjection
<1>13. Cardinality(B) \in Nat /\ PoolSize \in Nat
  BY <1>8, PoolAssumption, FS_CardinalityType
<1> QED
  BY <1>5, <1>9, <1>12, <1>13

LEMMA ServiceOfClient ==
  ASSUME Started # {}, StartInv, PlaceInv, NEW c \in Clients, Client(c)
  PROVE  [Service!Next]_(Service!vars)
<1>1. job' = job /\ got' = got
  BY DEF Client, AlreadyInitialized, StartPool, MakeRenderer, Listen, AddRenderer, ListRenderer,
         PoolMade, CheckPool, TakeRenderer, ReadQueue, PutBack
<1>2. CASE \/ AlreadyInitialized(c) \/ StartPool(c) \/ Listen(c)
           \/ \E r \in Renderers : MakeRenderer(c, r)
  BY <1>1, <1>2, ServiceMove
     DEF AlreadyInitialized, StartPool, MakeRenderer, Listen, At, Go, Places, Naming
<1>3. CASE AddRenderer(c) \/ ListRenderer(c) \/ PoolMade(c) \/ CheckPool(c)
  <2>1. /\ pc[c] \in {"add", "list", "make", "check"}
        /\ \E place \in {"list", "failed", "make", "check", "take"} : pc' = [pc EXCEPT ![c] = place]
    BY <1>3 DEF AddRenderer, ListRenderer, PoolMade, CheckPool, At, Go
  <2> QED
    BY <1>1, <2>1, ServiceMove DEF Places, Naming
<1>4. CASE ReadQueue(c)
  BY <1>1, <1>4, ServiceMove DEF ReadQueue, At, Go, Places, Naming
<1>5. CASE TakeRenderer(c)
  <2>1. PICK place \in {"reset", "offer"} : pc' = [pc EXCEPT ![c] = place]
    BY <1>5 DEF TakeRenderer, Go
  <2>2. Progress(c) = "waiting" /\ Progress(c)' = "serving" /\ place \in Places
    BY <1>5, <2>1 DEF TakeRenderer, At, Progress, PlaceInv, Types, Places, Naming
  <2>3. Service!To(c, "waiting", "serving")
    BY <2>1, <2>2, ServiceTo
  <2>4. Cardinality(Service!Busy) < PoolSize
    BY <1>5, ServiceFree
  <2>5. UNCHANGED <<[d \in Clients |-> job[d].source], got>>
    BY <1>1
  <2>6. Service!Serve(c)
    BY <2>3, <2>4, <2>5 DEF Service!Serve, Service!Cardinality, Cardinality
  <2> QED
    BY <2>6 DEF Service!Next
<1>6. CASE PutBack(c)
  <2>1. pc[c] = "put" /\ pc' = [pc EXCEPT ![c] = "done"]
    BY <1>6 DEF PutBack, At, Go
  <2>2. Progress(c) = "answered" /\ Progress(c)' = "done" /\ "done" \in Places
    BY <2>1 DEF Progress, PlaceInv, Types, Places
  <2>3. Service!To(c, "answered", "done")
    BY <2>1, <2>2, ServiceTo
  <2>4. UNCHANGED <<[d \in Clients |-> job[d].source], got>>
    BY <1>1
  <2> QED
    BY <2>3, <2>4 DEF Service!Next, Service!Release
<1> QED
  BY <1>2, <1>3, <1>4, <1>5, <1>6 DEF Client

LEMMA ServiceOfRenderer ==
  ASSUME PlaceInv, FlowInv, NEW r \in Renderers, Poll(r) \/ Work(r) \/ Gobble(r) \/ Fault(r)
  PROVE  [Service!Next]_(Service!vars)
<1>1. ASSUME pc' = pc, job' = job, got' = got PROVE [Service!Next]_(Service!vars)
  BY <1>1, ServiceSame DEF Progress
<1>2. CASE Poll(r)
  <2>1. ASSUME NEW c \in Clients, PollTask(r, c) PROVE [Service!Next]_(Service!vars)
    <3>1. /\ pc[c] \in {"reset", "offer"} /\ job' = job /\ got' = got
          /\ \E place \in {"offer", "await"} : pc' = [pc EXCEPT ![c] = place]
      BY <2>1 DEF PollTask, Offering, Go
    <3> QED
      BY <3>1, ServiceMove DEF Places, Naming
  <2>2. CASE PollTimeout(r) \/ SetInProgress(r) \/ Write(r) \/ WriteFails(r)
    BY <1>1, <2>2 DEF PollTimeout, SetInProgress, Write, WriteFails, clientVars
  <2> QED
    BY <1>2, <2>1, <2>2 DEF Poll
<1>3. CASE Work(r)
  BY <1>1, <1>3 DEF Work, Ask, ReadReconnect, ReadTask, Loaded, LoadFailed, ShutDown, TimerFires,
     clientVars
<1>4. CASE Gobble(r)
  <2>1. ASSUME NEW c \in Clients, Deliver(r, c) PROVE [Service!Next]_(Service!vars)
    <3>1. /\ renderer[c] = r /\ pc[c] = "await" /\ gobbler[r].at = "put"
          /\ got' = [got EXCEPT ![c] = gobbler[r].result]
          /\ pc' = [pc EXCEPT ![c] = "return"] /\ job' = job
      BY <2>1 DEF Deliver, At, Go
    <3>2. gobbler[r].result \in {job[c].source, None}
      <4>1. \A d \in Clients : Awaits(d, r) => d = c
        BY <3>1, OneWaits DEF Awaits, Has, Keeping, Naming
      <4>2. Answering(r, c)
        BY <3>1, <4>1, HeardOfTask DEF Heard
      <4> QED
        BY <3>1, <4>2 DEF Answering, Source
    <3>3. Progress(c) = "serving" /\ Progress(c)' = "answered" /\ "return" \in Places
      BY <3>1 DEF Progress, PlaceInv, Types, Places, Naming
    <3>4. Service!To(c, "serving", "answered")
      BY <3>1, <3>3, ServiceTo
    <3>5. UNCHANGED [d \in Clients |-> job[d].source]
      BY <3>1
    <3>6. \E i \in {[d \in Clients |-> job[d].source][c], None} : got' = [got EXCEPT ![c] = i]
      BY <3>1, <3>2
    <3> QED
      BY <3>4, <3>5, <3>6 DEF Service!Next, Service!Answer
  <2>2. CASE \/ ReadLine(r) \/ ReadShutdown(r) \/ OutputEnds(r)
             \/ ClearInProgress(r) \/ Respond(r) \/ RespondNone(r)
    BY <1>1, <2>2 DEF ReadLine, ReadShutdown, OutputEnds, ClearInProgress, Respond, RespondNone,
                      Responding, clientVars
  <2> QED
    BY <1>4, <2>1, <2>2 DEF Gobble
<1>5. CASE Fault(r)
  BY <1>1, <1>5 DEF Fault, PageCalls, ConnectionLost, ProcessExits, clientVars
<1> QED
  BY <1>2, <1>3, <1>4, <1>5

LEMMA ServiceStarts == Init => Service!Init
<1> SUFFICES ASSUME Init PROVE Service!Init
  OBVIOUS
<1>1. \A c \in Clients : Progress(c) = "waiting"
  BY DEF Init, Progress
<1> QED
  BY <1>1 DEF Init, Service!Init

LEMMA ServiceSteps ==
  Started # {} /\ StartInv /\ PlaceInv /\ FlowInv /\ [Next]_vars => [Service!Next]_(Service!vars)
<1> SUFFICES ASSUME Started # {}, StartInv, PlaceInv, FlowInv, [Next]_vars
             PROVE  [Service!Next]_(Service!vars)
  OBVIOUS
<1>1. CASE UNCHANGED vars
  BY <1>1, ServiceSame DEF vars, clientVars, Progress
<1> QED
  BY <1>1, ServiceOfClient, ServiceOfRenderer DEF Next

\* A pool made on startup that loses no connection serves as CaptureService allows: the
\* safety half of ImplementsService.
THEOREM PoolServes ==
  ASSUME Started # {}, Lossy = {}, Calling = {} PROVE Spec => Service!Spec
<1>1. Init => StartInv /\ PlaceInv /\ FlowInv
  BY StartInit, PlaceInit, FlowInit
<1>2. (StartInv /\ PlaceInv /\ FlowInv) /\ [Next]_vars => (StartInv /\ PlaceInv /\ FlowInv)'
  BY StartStep, PlaceStep, FlowStep DEF FlowInv
<1>3. (StartInv /\ PlaceInv /\ FlowInv) /\ [Next]_vars => [Service!Next]_(Service!vars)
  BY ServiceSteps
<1> QED
  BY <1>1, <1>2, <1>3, ServiceStarts, PTL DEF Spec, Service!Spec

=============================================================================
