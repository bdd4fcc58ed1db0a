-------------------------- MODULE ContextTree_proofs --------------------------
(* The hierarchies of contexts for any contexts, accounts, buckets and limit, *)
(* however many requests there are: clusters form trees whose roots are those *)
(* of the context, the copies that are simplified link to each other in every *)
(* order of visits, no cluster between requests is too large or has both      *)
(* members and subclusters, and every account is in one cluster.  What is     *)
(* shown has no chain and no cluster of one.  With no shared accounts a       *)
(* removal reports what it changes, and no cluster is left empty.             *)
(*                                                                            *)
(* Below and Above walk along links.  The proofs use what they find only as a *)
(* least set that is closed under them, and what they promise, that every     *)
(* cluster is below a root, as the absence of circles among the parents:      *)
(* steps of a request change a few links, and it is easy to say that these    *)
(* close no circle.                                                           *)
EXTENDS ContextTree, FiniteSetTheorems, SequenceTheorems, WellFoundedInduction, TLAPS

-----------------------------------------------------------------------------
(* What can be reached.  Reached walks Cardinality(Ids) steps: enough,     *)
(* because each step that is not the last of use adds an element.          *)

\* A set of natural numbers has a least element.
LEMMA LeastOf ==
  ASSUME NEW T \in SUBSET Nat, T # {}
  PROVE  \E n \in T : \A m \in T : n <= m
<1>1. PICK n \in T : \A m \in T : <<m, n>> \notin OpToRel(<, Nat)
  BY WFMin, NatLessThanWellFounded, Zenon
<1>2. \A m \in T : m \in Nat /\ n \in Nat /\ ~(m < n)
  BY <1>1 DEF OpToRel
<1> QED
  BY <1>2

\* One step further from T, and nowhere further.
Grown(T, S, near) == (UNION {{y} \cup near[y] : y \in T}) \cap S
Closed(T, S, near) == \A y \in T : \A z \in near[y] : z \in S => z \in T

LEMMA GrownIs ==
  ASSUME NEW S, IsFiniteSet(S), NEW near, NEW T \in SUBSET S
  PROVE  /\ T \subseteq Grown(T, S, near) /\ Grown(T, S, near) \subseteq S
         /\ Closed(T, S, near) => Grown(T, S, near) = T
         /\ Cardinality(T) \in Nat /\ Cardinality(Grown(T, S, near)) \in Nat
         /\ ~Closed(T, S, near) => Cardinality(Grown(T, S, near)) >= Cardinality(T) + 1
<1> DEFINE G == Grown(T, S, near)
<1>1. T \subseteq G /\ G \subseteq S
  BY DEF Grown
<1>2. Closed(T, S, near) => G = T
  BY <1>1 DEF Grown, Closed
<1>3. ~Closed(T, S, near) => G # T
  BY DEF Grown, Closed
<1> HIDE DEF G
<1>4. IsFiniteSet(G) /\ IsFiniteSet(T)
  BY <1>1, FS_Subset
<1>5. Cardinality(T) \in Nat /\ Cardinality(G) \in Nat
  BY <1>4, FS_CardinalityType
<1>6. Cardinality(T) <= Cardinality(G) /\ (Cardinality(G) = Cardinality(T) => G = T)
  BY <1>1, <1>4, FS_Subset
<1>7. ~Closed(T, S, near) => Cardinality(G) >= Cardinality(T) + 1
  BY <1>3, <1>5, <1>6
<1> QED
  BY <1>1, <1>2, <1>5, <1>7 DEF G

\* f is the function that Reached computes, up to n.
IsReach(f, S, x, near, n) ==
  f = [i \in 0..n |-> IF i = 0 THEN {x} \cap S ELSE Grown(f[i-1], S, near)]

LEMMA ReachExists ==
  ASSUME NEW S, NEW x, NEW near, NEW n \in Nat
  PROVE  \E f : IsReach(f, S, x, near, n)
<1> DEFINE T == {m \in Nat : ~ \E f : IsReach(f, S, x, near, m)}
<1>1. SUFFICES ASSUME T # {}
               PROVE  FALSE
  OBVIOUS
<1>2. PICK m \in T : \A k \in T : m <= k
  BY <1>1, LeastOf
<1>3. CASE m = 0
  <2> DEFINE f == [i \in 0..0 |-> {x} \cap S]
  <2>1. IsReach(f, S, x, near, 0)
    BY DEF IsReach
  <2> QED
    BY <1>3, <2>1
<1>4. CASE m # 0
  <2>1. m - 1 \in Nat /\ m - 1 \notin T
    BY <1>2, <1>4
  <2>2. PICK g : IsReach(g, S, x, near, m - 1)
    BY <2>1
  <2> DEFINE f == [i \in 0..m |-> IF i = m THEN Grown(g[m-1], S, near) ELSE g[i]]
  <2>3. ASSUME NEW i \in 0..m
        PROVE  f[i] = IF i = 0 THEN {x} \cap S ELSE Grown(f[i-1], S, near)
    <3>1. CASE i = m
      BY <3>1, <1>4
    <3>2. CASE i # m
      <4>1. i \in 0..(m - 1) /\ (i # 0 => i - 1 \in 0..m /\ i - 1 # m)
        BY <3>2, <2>1
      <4>2. g[i] = IF i = 0 THEN {x} \cap S ELSE Grown(g[i-1], S, near)
        BY <4>1, <2>2 DEF IsReach
      <4>3. f[i] = g[i] /\ (i # 0 => f[i-1] = g[i-1])
        BY <4>1, <3>2
      <4> HIDE DEF f
      <4> QED
        BY <4>2, <4>3
    <3> QED
      BY <3>1, <3>2
  <2>4. IsReach(f, S, x, near, m)
    BY <2>3 DEF IsReach
  <2> QED
    BY <2>4
<1> QED
  BY <1>3, <1>4

\* Each step keeps what was reached, stays in every closed set that x is in, and adds
\* an element until nothing is left to add.
Reaching(U, S, x, near, n) ==
  /\ U \subseteq S /\ (x \in S => x \in U)
  /\ \A T \in SUBSET S : (x \in S => x \in T) /\ Closed(T, S, near) => U \subseteq T
  /\ Closed(U, S, near) \/ Cardinality(U) >= n + 1

LEMMA ReachGrows ==
  ASSUME NEW S, IsFiniteSet(S), NEW x, NEW near, NEW N \in Nat, NEW f, IsReach(f, S, x, near, N),
         NEW n \in 0..N
  PROVE  Reaching(f[n], S, x, near, n)
<1> DEFINE B == {m \in 0..N : ~Reaching(f[m], S, x, near, m)}
<1>1. SUFFICES ASSUME B # {}
               PROVE  FALSE
  OBVIOUS
<1>2. PICK m \in B : \A k \in B : m <= k
  <2>1. B \in SUBSET Nat
    OBVIOUS
  <2> HIDE DEF B
  <2> QED
    BY <1>1, <2>1, LeastOf
<1>3. m \in 0..N /\ ~Reaching(f[m], S, x, near, m)
  BY <1>2
<1>4. f[m] = IF m = 0 THEN {x} \cap S ELSE Grown(f[m-1], S, near)
  BY <1>3 DEF IsReach
<1>5. CASE m = 0
  <2>1. f[0] = {x} \cap S
    BY <1>4, <1>5
  <2>2. x \in S => f[0] = {x} /\ Cardinality({x}) = 1
    BY <2>1, FS_Singleton
  <2>3. x \notin S => f[0] = {}
    BY <2>1
  <2>4. Closed(f[0], S, near) \/ Cardinality(f[0]) >= 0 + 1
    BY <2>2, <2>3 DEF Closed
  <2>5. Reaching(f[0], S, x, near, 0)
    BY <2>1, <2>4 DEF Reaching
  <2> QED
    BY <1>3, <1>5, <2>5
<1>6. CASE m # 0
  <2> DEFINE U == f[m-1]
  <2>1. m - 1 \in 0..N /\ m - 1 \notin B /\ m - 1 + 1 = m /\ m \in Nat
    BY <1>2, <1>3, <1>6
  <2>2. Reaching(U, S, x, near, m - 1)
    BY <2>1
  <2>3. f[m] = Grown(U, S, near)
    BY <1>4, <1>6
  <2> HIDE DEF U
  <2>4. U \in SUBSET S
    BY <2>2 DEF Reaching
  <2>5. /\ U \subseteq f[m] /\ f[m] \subseteq S /\ (Closed(U, S, near) => f[m] = U)
        /\ Cardinality(U) \in Nat /\ Cardinality(f[m]) \in Nat
        /\ ~Closed(U, S, near) => Cardinality(f[m]) >= Cardinality(U) + 1
    BY <2>3, <2>4, GrownIs
  <2>6. ASSUME NEW T \in SUBSET S, x \in S => x \in T, Closed(T, S, near)
        PROVE  f[m] \subseteq T
    <3>1. U \subseteq T
      BY <2>2, <2>6 DEF Reaching
    <3> QED
      BY <2>3, <2>6, <3>1 DEF Grown, Closed
  <2>7. ~Closed(U, S, near) => Cardinality(U) >= m
    BY <2>1, <2>2 DEF Reaching
  <2>8. ~Closed(U, S, near) => Cardinality(f[m]) >= m + 1
    BY <2>1, <2>5, <2>7
  <2>9. Closed(f[m], S, near) \/ Cardinality(f[m]) >= m + 1
    BY <2>5, <2>8
  <2>10. x \in S => x \in f[m]
    BY <2>2, <2>5 DEF Reaching
  <2>11. Reaching(f[m], S, x, near, m)
    BY <2>5, <2>6, <2>9, <2>10 DEF Reaching
  <2> QED
    BY <1>3, <2>11
<1> QED
  BY <1>5, <1>6

\* What is reached is the least set that x is in and nothing leads out of, if there is
\* one element more than ids at most.
LEMMA ReachedIs ==
  ASSUME NEW S, IsFiniteSet(S), Cardinality(S) <= Cardinality(Ids) + 1, NEW x, NEW near
  PROVE  LET R == Reached(S, x, near) IN
         /\ R \subseteq S /\ (x \in S => x \in R) /\ Closed(R, S, near)
         /\ \A T \in SUBSET S : (x \in S => x \in T) /\ Closed(T, S, near) => R \subseteq T
<1> DEFINE N == Cardinality(Ids)
           f == CHOOSE g : IsReach(g, S, x, near, N)
           R == Reached(S, x, near)
<1>1. N \in Nat
  BY FS_CardinalityType, ContextTreeAssumption
<1>2. R = f[N]
  BY DEF Reached, IsReach, Grown
<1> HIDE DEF N, R
<1>3. IsReach(f, S, x, near, N)
  BY <1>1, ReachExists
<1> HIDE DEF f
<1>4. Reaching(R, S, x, near, N)
  <2>1. N \in 0..N
    BY <1>1
  <2> QED
    BY <1>1, <1>2, <1>3, <2>1, ReachGrows
<1>5. Closed(R, S, near)
  <2>1. R \in SUBSET S
    BY <1>4 DEF Reaching
  <2>2. Cardinality(R) \in Nat /\ Cardinality(S) \in Nat /\ Cardinality(R) <= Cardinality(S)
    BY <2>1, FS_Subset, FS_CardinalityType
  <2>3. Cardinality(S) <= N + 1
    BY DEF N
  <2>4. Cardinality(R) >= N + 1 => Cardinality(S) = Cardinality(R)
    BY <1>1, <2>2, <2>3
  <2>5. Cardinality(R) >= N + 1 => R = S
    BY <2>1, <2>4, FS_Subset
  <2>6. R = S => Closed(R, S, near)
    BY DEF Closed
  <2> QED
    BY <1>4, <2>5, <2>6 DEF Reaching
<1> QED
  BY <1>4, <1>5 DEF Reaching, R

-----------------------------------------------------------------------------
(* Trees                                                                   *)

\* The clusters of a context, or of its simplified copy.
Named(D) == D = Ids \/ D = Ids \cup {File}
Clusters(c, D) == Named(D) /\ c \in [D -> Cluster \cup {None}]

Links(c) ==
  \A i \in Live(c) :
    /\ \A j \in c[i].subs : j \in Live(c) /\ c[j].parent = i
    /\ c[i].parent # None => c[i].parent \in Live(c) /\ i \in c[c[i].parent].subs
\* Parents do not go in circles.
Grounded(c) == \A U \in SUBSET Live(c) : U # {} => \E i \in U : c[i].parent \notin U
Tree(c) == Links(c) /\ Grounded(c)
Tops(c) == {i \in Live(c) : c[i].parent = None}
RootKnown(c) ==
  \A i \in Live(c) :
    LET p == c[i].parent IN
    c[i].root = IF p = None THEN None ELSE IF c[p].root = None THEN p ELSE c[p].root

LEMMA LiveIs ==
  ASSUME NEW D, NEW c, Clusters(c, D)
  PROVE  /\ Live(c) \subseteq D /\ IsFiniteSet(Live(c)) /\ Cardinality(Live(c)) <= Cardinality(Ids) + 1
         /\ \A i \in Live(c) : c[i] \in Cluster /\ c[i].subs \subseteq Ids
<1>1. IsFiniteSet(Ids) /\ File \notin Ids
  BY ContextTreeAssumption
<1>2. IsFiniteSet(D) /\ Cardinality(D) <= Cardinality(Ids) + 1 /\ Cardinality(D) \in Nat
  <2>1. Cardinality(Ids) \in Nat
    BY <1>1, FS_CardinalityType
  <2>2. /\ IsFiniteSet(Ids \cup {File})
        /\ Cardinality(Ids \cup {File}) = Cardinality(Ids) + 1
    BY <1>1, FS_AddElement
  <2>3. CASE D = Ids
    BY <1>1, <2>1, <2>3
  <2>4. CASE D = Ids \cup {File}
    BY <2>1, <2>2, <2>4
  <2> QED
    BY <2>3, <2>4 DEF Clusters, Named
<1>3. Live(c) \subseteq D
  BY DEF Clusters, Live
<1>4. IsFiniteSet(Live(c)) /\ Cardinality(Live(c)) <= Cardinality(D) /\ Cardinality(Live(c)) \in Nat
  BY <1>2, <1>3, FS_Subset, FS_CardinalityType
<1>5. ASSUME NEW i \in Live(c)
      PROVE  c[i] \in Cluster /\ c[i].subs \subseteq Ids
  BY DEF Clusters, Live, Cluster
<1>6. Cardinality(Live(c)) <= Cardinality(Ids) + 1
  BY <1>1, <1>2, <1>4, FS_CardinalityType
<1> QED
  BY <1>3, <1>4, <1>5, <1>6

LEMMA BelowIs ==
  ASSUME NEW D, NEW c, Clusters(c, D), NEW x
  PROVE  /\ Below(c, x) \subseteq Live(c) /\ (x \in Live(c) => x \in Below(c, x))
         /\ \A y \in Below(c, x) : \A z \in c[y].subs : z \in Live(c) => z \in Below(c, x)
         /\ \A T \in SUBSET Live(c) :
              /\ x \in Live(c) => x \in T
              /\ \A y \in T : \A z \in c[y].subs : z \in Live(c) => z \in T
              => Below(c, x) \subseteq T
<1> DEFINE near == [y \in Live(c) |-> c[y].subs]
           S == Live(c)
           R == Reached(S, x, near)
<1>1. IsFiniteSet(S) /\ Cardinality(S) <= Cardinality(Ids) + 1
  BY LiveIs
<1>2. \A y \in S : near[y] = c[y].subs
  OBVIOUS
<1>3. Below(c, x) = R
  BY DEF Below
<1> HIDE DEF near, S, R
<1>4. /\ R \subseteq S /\ (x \in S => x \in R) /\ Closed(R, S, near)
      /\ \A T \in SUBSET S : (x \in S => x \in T) /\ Closed(T, S, near) => R \subseteq T
  BY <1>1, ReachedIs DEF R
<1>5. \A T \in SUBSET S : (\A y \in T : \A z \in c[y].subs : z \in S => z \in T) <=> Closed(T, S, near)
  BY <1>2 DEF Closed
<1>6. \A y \in R : \A z \in c[y].subs : z \in S => z \in R
  BY <1>4, <1>5
<1>7. /\ R \subseteq S /\ (x \in S => x \in R)
      /\ \A y \in R : \A z \in c[y].subs : z \in S => z \in R
      /\ \A T \in SUBSET S :
           /\ x \in S => x \in T
           /\ \A y \in T : \A z \in c[y].subs : z \in S => z \in T
           => R \subseteq T
  BY <1>4, <1>5, <1>6
<1> QED
  BY <1>3, <1>7 DEF S

LEMMA AboveIs ==
  ASSUME NEW D, NEW c, Clusters(c, D), NEW x
  PROVE  /\ Above(c, x) \subseteq Live(c) /\ (x \in Live(c) => x \in Above(c, x))
         /\ \A y \in Above(c, x) : c[y].parent \in Live(c) => c[y].parent \in Above(c, x)
         /\ \A T \in SUBSET Live(c) :
              /\ x \in Live(c) => x \in T
              /\ \A y \in T : c[y].parent \in Live(c) => c[y].parent \in T
              => Above(c, x) \subseteq T
<1> DEFINE near == [y \in Live(c) |-> {c[y].parent}]
           S == Live(c)
           R == Reached(S, x, near)
<1>1. IsFiniteSet(S) /\ Cardinality(S) <= Cardinality(Ids) + 1
  BY LiveIs
<1>2. \A y \in S : near[y] = {c[y].parent}
  OBVIOUS
<1>3. Above(c, x) = R
  BY DEF Above
<1> HIDE DEF near, S, R
<1>4. /\ R \subseteq S /\ (x \in S => x \in R) /\ Closed(R, S, near)
      /\ \A T \in SUBSET S : (x \in S => x \in T) /\ Closed(T, S, near) => R \subseteq T
  BY <1>1, ReachedIs DEF R
<1>5. \A T \in SUBSET S : (\A y \in T : c[y].parent \in S => c[y].parent \in T) <=> Closed(T, S, near)
  BY <1>2 DEF Closed
<1>6. \A y \in R : c[y].parent \in S => c[y].parent \in R
  BY <1>4, <1>5
<1>7. /\ R \subseteq S /\ (x \in S => x \in R)
      /\ \A y \in R : c[y].parent \in S => c[y].parent \in R
      /\ \A T \in SUBSET S :
           /\ x \in S => x \in T
           /\ \A y \in T : c[y].parent \in S => c[y].parent \in T
           => R \subseteq T
  BY <1>4, <1>5, <1>6
<1> QED
  BY <1>3, <1>7 DEF S

\* Every cluster is below one without a parent.
LEMMA TreeLinked ==
  ASSUME NEW D, NEW c, Clusters(c, D), Tree(c)
  PROVE  Linked(c, None)
<1>1. ASSUME NEW i \in Live(c)
      PROVE  \E r \in Live(c) : c[r].parent = None /\ i \in Below(c, r)
  <2> DEFINE U == {j \in Live(c) : \A r \in Live(c) : c[r].parent = None => j \notin Below(c, r)}
  <2>1. SUFFICES ASSUME i \in U PROVE FALSE
    OBVIOUS
  <2>2. PICK j \in U : c[j].parent \notin U
    BY <2>1 DEF Tree, Grounded
  <2>3. j \in Live(c)
    OBVIOUS
  <2>4. c[j].parent # None
    BY <2>2, <2>3, BelowIs
  <2>5. c[j].parent \in Live(c) /\ j \in c[c[j].parent].subs
    BY <2>3, <2>4 DEF Tree, Links
  <2>6. PICK r \in Live(c) : c[r].parent = None /\ c[j].parent \in Below(c, r)
    BY <2>2, <2>5
  <2>7. j \in Below(c, r)
    BY <2>3, <2>5, <2>6, BelowIs
  <2> QED
    BY <2>2, <2>6, <2>7
<1> QED
  BY <1>1 DEF Linked, Tree, Links

\* Whatever is below x has its parent there too, and x has not.
LEMMA BelowHasParent ==
  ASSUME NEW D, NEW c, Clusters(c, D), Tree(c), NEW x \in Live(c)
  PROVE  /\ \A y \in Below(c, x) : y = x \/ c[y].parent \in Below(c, x)
         /\ c[x].parent \notin Below(c, x)
<1> DEFINE B == Below(c, x)
           T == {y \in B : y = x \/ c[y].parent \in B}
<1>1. /\ B \subseteq Live(c) /\ x \in B
      /\ \A y \in B : \A z \in c[y].subs : z \in Live(c) => z \in B
      /\ \A S \in SUBSET Live(c) :
           /\ x \in Live(c) => x \in S
           /\ \A y \in S : \A z \in c[y].subs : z \in Live(c) => z \in S
           => B \subseteq S
  BY BelowIs
<1> HIDE DEF B
<1>2. T \in SUBSET Live(c) /\ x \in T
  BY <1>1
<1>3. \A y \in T : \A z \in c[y].subs : z \in Live(c) => z \in T
  BY <1>1 DEF Tree, Links
<1>4. B \subseteq T
  BY <1>1, <1>2, <1>3
<1>5. ASSUME c[x].parent \in B
      PROVE  FALSE
  <2>1. \A y \in B : c[y].parent \in B
    BY <1>4, <1>5
  <2>2. B \in SUBSET Live(c) /\ B # {}
    BY <1>1
  <2> QED
    BY <2>1, <2>2 DEF Tree, Grounded
<1> QED
  BY <1>4, <1>5 DEF B

\* No cluster is its own parent.
LEMMA NotOwnParent ==
  ASSUME NEW c, Tree(c), NEW x \in Live(c)
  PROVE  c[x].parent # x /\ x \notin c[x].subs
<1>1. {x} \in SUBSET Live(c) /\ {x} # {}
  OBVIOUS
<1>2. PICK i \in {x} : c[i].parent \notin {x}
  BY <1>1 DEF Tree, Grounded
<1> QED
  BY <1>2 DEF Tree, Links

\* All clusters below one without a parent have it for their root.
LEMMA RootOfAll ==
  ASSUME NEW D, NEW c, Clusters(c, D), Tree(c), RootKnown(c), NEW r \in Tops(c)
  PROVE  \A i \in Below(c, r) : c[i].root = IF i = r THEN None ELSE r
<1> DEFINE T == {i \in Live(c) : c[i].root = IF i = r THEN None ELSE r}
<1>0. r \in Live(c) /\ c[r].parent = None /\ r # None
  BY LiveIs, ContextTreeAssumption DEF Tops, Clusters, Named
<1>1. r \in T
  BY <1>0 DEF RootKnown
<1>2. ASSUME NEW y \in T, NEW z \in c[y].subs, z \in Live(c)
      PROVE  z \in T
  <2>1. c[z].parent = y /\ y # None /\ y \in Live(c)
    BY <1>2, LiveIs, ContextTreeAssumption DEF Tree, Links, Clusters, Named
  <2>2. z # r
    BY <2>1, <1>0
  <2>3. c[z].root = IF c[y].root = None THEN y ELSE c[y].root
    BY <1>2, <2>1 DEF RootKnown
  <2> QED
    BY <1>0, <1>2, <2>2, <2>3
<1>3. T \in SUBSET Live(c)
  OBVIOUS
<1> HIDE DEF T
<1>4. Below(c, r) \subseteq T
  BY <1>1, <1>2, <1>3, BelowIs
<1> QED
  BY <1>4 DEF T

-----------------------------------------------------------------------------
(* What clustering makes of a tree                                         *)

\* The accounts that join cluster i.
Joining(to, i) == {e \in DOMAIN to : to[e] = i}

LEMMA JoinedIs ==
  ASSUME NEW c, Clusters(c, Ids), NEW E \in SUBSET Entities, NEW to \in [E -> Ids]
  PROVE  LET d == Joined(c, to) IN
         /\ Clusters(d, Ids) /\ Live(d) = Live(c) \cup Range(to)
         /\ \A i \in Live(c) :
              /\ d[i].parent = c[i].parent /\ d[i].root = c[i].root /\ d[i].subs = c[i].subs
              /\ d[i].members = c[i].members \cup Joining(to, i)
         /\ \A i \in Live(d) \ Live(c) :
              /\ d[i].parent = None /\ d[i].root = None /\ d[i].subs = {}
              /\ d[i].members = Joining(to, i)
<1> DEFINE d == Joined(c, to)
<1>1. /\ d = [i \in Ids |-> CASE Joining(to, i) = {} -> c[i]
                               [] Joining(to, i) # {} /\ c[i] = None ->
                                    [Childless EXCEPT !.members = Joining(to, i)]
                               [] OTHER -> [c[i] EXCEPT !.members = @ \cup Joining(to, i)]]
      /\ \A i \in Ids : Joining(to, i) \in SUBSET Entities
      /\ \A i \in Ids : Joining(to, i) # {} <=> i \in Range(to)
      /\ Range(to) \subseteq Ids
  BY DEF Joined, Joining, Range
<1>0. \A i \in Ids : Joining(to, i) = {} => d[i] = c[i]
  BY DEF Joined, Joining
<1>2. c \in [Ids -> Cluster \cup {None}] /\ None \notin Cluster
  BY ContextTreeAssumption DEF Clusters
<1> HIDE DEF d
<1>3. ASSUME NEW i \in Ids
      PROVE  /\ d[i] \in Cluster \cup {None}
             /\ d[i] # None <=> c[i] # None \/ Joining(to, i) # {}
             /\ c[i] # None =>
                  /\ d[i].parent = c[i].parent /\ d[i].root = c[i].root /\ d[i].subs = c[i].subs
                  /\ d[i].members = c[i].members \cup Joining(to, i)
             /\ c[i] = None /\ Joining(to, i) # {} =>
                  /\ d[i].parent = None /\ d[i].root = None /\ d[i].subs = {}
                  /\ d[i].members = Joining(to, i)
  <2>1. CASE Joining(to, i) = {}
    <3>1. d[i] = c[i]
      BY <1>0, <2>1
    <3>2. c[i] # None => c[i].members \cup Joining(to, i) = c[i].members
      BY <2>1
    <3> QED
      BY <1>2, <2>1, <3>1, <3>2
  <2>2. CASE Joining(to, i) # {} /\ c[i] = None
    <3>1. d[i] = [Childless EXCEPT !.members = Joining(to, i)]
      BY <1>1, <2>2
    <3>2. d[i] = [parent |-> None, root |-> None, members |-> Joining(to, i), subs |-> {}]
      BY <3>1 DEF Childless
    <3>3. d[i] \in Cluster
      BY <1>1, <3>2 DEF Cluster
    <3> QED
      BY <1>2, <2>2, <3>2, <3>3
  <2>3. CASE Joining(to, i) # {} /\ c[i] # None
    <3>1. d[i] = [c[i] EXCEPT !.members = @ \cup Joining(to, i)] /\ c[i] \in Cluster
      BY <1>1, <1>2, <2>3
    <3>2. d[i] \in Cluster
      BY <1>1, <3>1 DEF Cluster
    <3>3. /\ d[i].parent = c[i].parent /\ d[i].root = c[i].root /\ d[i].subs = c[i].subs
          /\ d[i].members = c[i].members \cup Joining(to, i)
      BY <3>1 DEF Cluster
    <3> QED
      BY <1>2, <2>3, <3>2, <3>3
  <2> QED
    BY <2>1, <2>2, <2>3
<1>4. d \in [Ids -> Cluster \cup {None}]
  BY <1>1, <1>3
<1>5. Clusters(d, Ids)
  BY <1>4 DEF Clusters, Named
<1>6. /\ Live(d) = {i \in Ids : d[i] # None} /\ Live(c) = {i \in Ids : c[i] # None}
  BY <1>2, <1>4 DEF Live
<1>7. Live(d) = Live(c) \cup Range(to)
  <2>1. \A i \in Ids : i \in Live(d) <=> i \in Live(c) \/ i \in Range(to)
    BY <1>1, <1>3, <1>6
  <2>2. Live(d) \subseteq Ids /\ Live(c) \subseteq Ids
    BY <1>6
  <2> QED
    BY <1>1, <2>1, <2>2
<1>8. ASSUME NEW i \in Live(c)
      PROVE  /\ d[i].parent = c[i].parent /\ d[i].root = c[i].root /\ d[i].subs = c[i].subs
             /\ d[i].members = c[i].members \cup Joining(to, i)
  BY <1>3, <1>6
<1>9. ASSUME NEW i \in Live(d) \ Live(c)
      PROVE  /\ d[i].parent = None /\ d[i].root = None /\ d[i].subs = {}
             /\ d[i].members = Joining(to, i)
  BY <1>3, <1>6
<1> QED
  BY <1>5, <1>7, <1>8, <1>9 DEF d

\* New clusters are trees of their own.
LEMMA JoinedTree ==
  ASSUME NEW c, Clusters(c, Ids), Tree(c), RootKnown(c),
         NEW E \in SUBSET Entities, NEW to \in [E -> Ids]
  PROVE  LET d == Joined(c, to) IN
         Tree(d) /\ RootKnown(d) /\ Tops(d) = Tops(c) \cup (Range(to) \ Live(c))
<1> DEFINE d == Joined(c, to)
<1>1. /\ Live(c) \subseteq Live(d) /\ Live(d) = Live(c) \cup Range(to)
      /\ \A i \in Live(c) : d[i].parent = c[i].parent /\ d[i].root = c[i].root /\ d[i].subs = c[i].subs
      /\ \A i \in Live(d) \ Live(c) : d[i].parent = None /\ d[i].root = None /\ d[i].subs = {}
      /\ Clusters(d, Ids)
  BY JoinedIs
<1>2. None \notin Live(d)
  BY <1>1, LiveIs, ContextTreeAssumption
<1> HIDE DEF d
<1>3. Links(d)
  BY <1>1 DEF Tree, Links
<1>4. ASSUME NEW U \in SUBSET Live(d), U # {}
      PROVE  \E i \in U : d[i].parent \notin U
  <2>1. CASE U \cap Live(c) # {}
    <3>1. U \cap Live(c) \in SUBSET Live(c)
      OBVIOUS
    <3>2. PICK i \in U \cap Live(c) : c[i].parent \notin U \cap Live(c)
      BY <2>1, <3>1 DEF Tree, Grounded
    <3>3. d[i].parent \notin U
      BY <1>1, <1>2, <3>2 DEF Tree, Links
    <3> QED
      BY <3>2, <3>3
  <2>2. CASE U \cap Live(c) = {}
    BY <1>1, <1>2, <1>4, <2>2
  <2> QED
    BY <2>1, <2>2
<1>5. RootKnown(d)
  BY <1>1 DEF RootKnown, Tree, Links
<1>6. Tops(d) = Tops(c) \cup (Range(to) \ Live(c))
  BY <1>1 DEF Tops
<1>7. Tree(d)
  BY <1>3, <1>4 DEF Tree, Grounded
<1> QED
  BY <1>5, <1>6, <1>7 DEF d

LEMMA AdoptedIs ==
  ASSUME NEW c, Clusters(c, Ids), NEW x \in Live(c), NEW S \in SUBSET Live(c), x \notin S
  PROVE  LET d == Adopted(c, x, S) IN
         /\ Clusters(d, Ids) /\ Live(d) = Live(c)
         /\ \A i \in S :
              /\ d[i].parent = x /\ d[i].root = IF c[x].root = None THEN x ELSE c[x].root
              /\ d[i].members = c[i].members /\ d[i].subs = c[i].subs
         /\ d[x].parent = c[x].parent /\ d[x].root = c[x].root
         /\ d[x].members = {} /\ d[x].subs = c[x].subs \cup S
         /\ \A i \in Live(c) \ (S \cup {x}) : d[i] = c[i]
<1> DEFINE d == Adopted(c, x, S)
           top == IF c[x].root = None THEN x ELSE c[x].root
<1>1. d = [i \in Ids |-> CASE i \in S -> [c[i] EXCEPT !.parent = x, !.root = top]
                          [] i = x -> [c[i] EXCEPT !.members = {}, !.subs = @ \cup S]
                          [] OTHER -> c[i]]
  BY DEF Adopted
<1>2. c \in [Ids -> Cluster \cup {None}] /\ None \notin Cluster
  BY ContextTreeAssumption DEF Clusters
<1>3. /\ Live(c) \subseteq Ids /\ Live(c) = {i \in Ids : c[i] # None}
      /\ \A i \in Live(c) : c[i] \in Cluster
  BY <1>2, LiveIs DEF Live
<1>4. top \in Ids \cup {None}
  BY <1>3 DEF Cluster
<1> HIDE DEF d, top
<1>5. ASSUME NEW i \in S
      PROVE  /\ d[i] \in Cluster /\ d[i].parent = x /\ d[i].root = top
             /\ d[i].members = c[i].members /\ d[i].subs = c[i].subs
  <2>1. d[i] = [c[i] EXCEPT !.parent = x, !.root = top] /\ c[i] \in Cluster /\ x \in Ids
    BY <1>1, <1>3
  <2> QED
    BY <2>1, <1>4 DEF Cluster
<1>6. /\ d[x] \in Cluster /\ d[x].parent = c[x].parent /\ d[x].root = c[x].root
      /\ d[x].members = {} /\ d[x].subs = c[x].subs \cup S
  <2>1. d[x] = [c[x] EXCEPT !.members = {}, !.subs = @ \cup S] /\ c[x] \in Cluster /\ S \subseteq Ids
    BY <1>1, <1>3
  <2> QED
    BY <2>1 DEF Cluster
<1>7. \A i \in Ids \ (S \cup {x}) : d[i] = c[i]
  BY <1>1
<1>8. ASSUME NEW i \in Ids
      PROVE  d[i] \in Cluster \cup {None} /\ (d[i] # None <=> c[i] # None)
  BY <1>2, <1>3, <1>5, <1>6, <1>7
<1>9. d \in [Ids -> Cluster \cup {None}] /\ Live(d) = Live(c)
  <2>1. d \in [Ids -> Cluster \cup {None}]
    BY <1>1, <1>8
  <2> QED
    BY <2>1, <1>3, <1>8 DEF Live
<1>10. Clusters(d, Ids)
  BY <1>9 DEF Clusters, Named
<1> QED
  BY <1>3, <1>5, <1>6, <1>7, <1>9, <1>10 DEF d, top

\* Children of x, or trees of one cluster, become children of x.
LEMMA AdoptedTree ==
  ASSUME NEW c, Clusters(c, Ids), Tree(c), RootKnown(c),
         NEW x \in Live(c), NEW S \in SUBSET Live(c), x \notin S,
         \A y \in S : y \in c[x].subs \/ (c[y].parent = None /\ c[y].subs = {})
  PROVE  LET d == Adopted(c, x, S) IN
         Tree(d) /\ RootKnown(d) /\ Tops(d) = Tops(c) \ S
<1> DEFINE d == Adopted(c, x, S)
<1>1. /\ Clusters(d, Ids) /\ Live(d) = Live(c)
      /\ \A i \in S : d[i].parent = x /\ d[i].root = (IF c[x].root = None THEN x ELSE c[x].root)
      /\ \A i \in S : d[i].subs = c[i].subs
      /\ d[x].parent = c[x].parent /\ d[x].root = c[x].root
      /\ d[x].subs = c[x].subs \cup S
      /\ \A i \in Live(c) \ (S \cup {x}) : d[i] = c[i]
  BY AdoptedIs
<1>2. x # None
  BY LiveIs, ContextTreeAssumption
<1> HIDE DEF d
<1>3. \A i \in Live(c) \ S :
        d[i].parent = c[i].parent /\ d[i].root = c[i].root
  BY <1>1
<1>4. \A i \in Live(c) : c[i].parent \notin S \/ c[i].parent \in c[x].subs
  <2>1. \A i \in Live(c) : c[i].parent # None => c[i].parent \in Live(c) /\ i \in c[c[i].parent].subs
    BY DEF Tree, Links
  <2>2. \A y \in S : y \in c[x].subs \/ c[y].subs = {}
    OBVIOUS
  <2>3. None \notin S
    BY LiveIs, ContextTreeAssumption
  <2> QED
    BY <2>1, <2>2, <2>3
<1>5. \A i \in c[x].subs : i \in Live(c) /\ c[i].parent = x
                          /\ c[i].root = IF c[x].root = None THEN x ELSE c[x].root
  BY <1>2 DEF Tree, Links, RootKnown
<1>6. Links(d)
  <2>1. ASSUME NEW i \in Live(d), NEW j \in d[i].subs
        PROVE  j \in Live(d) /\ d[j].parent = i
    <3>1. CASE i = x
      BY <1>1, <1>5, <2>1, <3>1
    <3>2. CASE i # x
      <4>1. i \in Live(c) /\ j \in c[i].subs /\ j \in Live(c) /\ c[j].parent = i
        BY <1>1, <2>1, <3>2 DEF Tree, Links
      <4>2. j \notin S
        BY <1>2, <3>2, <4>1, <1>5, LiveIs, ContextTreeAssumption
      <4> QED
        BY <1>1, <1>3, <4>1, <4>2
    <3> QED
      BY <3>1, <3>2
  <2>2. ASSUME NEW i \in Live(d), d[i].parent # None
        PROVE  d[i].parent \in Live(d) /\ i \in d[d[i].parent].subs
    BY <1>1, <1>3, <2>2 DEF Tree, Links
  <2> QED
    BY <2>1, <2>2 DEF Links
<1>7. ASSUME NEW U \in SUBSET Live(d), U # {}
      PROVE  \E i \in U : d[i].parent \notin U
  <2> DEFINE O == {y \in S : y \notin c[x].subs}
             V == U \ O
  <2>1. V \in SUBSET Live(c)
    BY <1>1
  <2>2. \A i \in Live(c) \ O : d[i].parent = c[i].parent
    BY <1>1, <1>3, <1>5
  <2>3. \A i \in O : d[i].parent = x
    BY <1>1
  <2>4. \A i \in Live(c) : c[i].parent \notin O
    BY <1>4
  <2> HIDE DEF O
  <2>5. CASE V = {}
    <3>1. x \notin O
      BY DEF O
    <3> QED
      BY <1>7, <2>3, <2>5, <3>1
  <2>6. CASE V # {}
    <3>1. PICK i \in V : c[i].parent \notin V
      BY <2>1, <2>6 DEF Tree, Grounded
    <3> QED
      BY <2>1, <2>2, <2>4, <3>1
  <2> QED
    BY <2>5, <2>6
<1>8. RootKnown(d)
  <2>1. ASSUME NEW i \in Live(d)
        PROVE  d[i].root = IF d[i].parent = None THEN None
                           ELSE IF d[d[i].parent].root = None THEN d[i].parent ELSE d[d[i].parent].root
    <3>1. CASE i \in S
      BY <1>1, <1>2, <3>1
    <3>2. CASE i \notin S
      <4> DEFINE p == c[i].parent
      <4>1. d[i].parent = p /\ d[i].root = c[i].root /\ i \in Live(c)
        BY <1>1, <1>3, <3>2
      <4>2. p # None => p \in Live(c) /\ d[p].root = c[p].root
        BY <1>1, <1>3, <1>4, <1>5, <4>1 DEF Tree, Links
      <4>3. c[i].root = IF p = None THEN None ELSE IF c[p].root = None THEN p ELSE c[p].root
        BY <4>1 DEF RootKnown
      <4> HIDE DEF p
      <4> QED
        BY <4>1, <4>2, <4>3
    <3> QED
      BY <3>1, <3>2
  <2> QED
    BY <2>1 DEF RootKnown
<1>9. Tops(d) = Tops(c) \ S
  BY <1>1, <1>2, <1>3 DEF Tops
<1>10. Tree(d)
  BY <1>6, <1>7 DEF Tree, Grounded
<1> QED
  BY <1>8, <1>9, <1>10 DEF d

\* Trees of the same shape.
LEMMA SameTree ==
  ASSUME NEW c, NEW d, Live(d) = Live(c),
         \A i \in Live(c) : d[i].parent = c[i].parent /\ d[i].root = c[i].root /\ d[i].subs = c[i].subs
  PROVE  /\ Links(c) => Links(d)
         /\ Grounded(c) => Grounded(d)
         /\ Links(c) /\ RootKnown(c) => RootKnown(d)
         /\ Tops(d) = Tops(c)
<1>1. Links(c) => Links(d)
  BY DEF Links
<1>2. ASSUME Grounded(c), NEW U \in SUBSET Live(d), U # {}
      PROVE  \E i \in U : d[i].parent \notin U
  <2>1. PICK i \in U : c[i].parent \notin U
    BY <1>2 DEF Grounded
  <2>2. d[i].parent = c[i].parent
    OBVIOUS
  <2> QED
    BY <2>1, <2>2
<1>3. Links(c) /\ RootKnown(c) => RootKnown(d)
  BY DEF Links, RootKnown
<1>4. Tops(d) = Tops(c)
  BY DEF Tops
<1> QED
  BY <1>1, <1>2, <1>3, <1>4 DEF Grounded

Under(c, S) == UNION {Below(c, x) : x \in S}

LEMMA UpdatedIs ==
  ASSUME NEW c, Clusters(c, Ids), Links(c), NEW S, NEW present
  PROVE  LET d == Updated(c, S, present) IN
         /\ Clusters(d, Ids) /\ Live(d) = Live(c)
         /\ \A i \in Live(c) :
              /\ d[i].parent = c[i].parent /\ d[i].root = c[i].root /\ d[i].subs = c[i].subs
              /\ d[i].members = IF i \in Under(c, S)
                                THEN c[i].members \cap present ELSE c[i].members
<1> DEFINE d == Updated(c, S, present)
           near == Under(c, S)
<1>1. d = [i \in Ids |->
             IF i \in near
             THEN [c[i] EXCEPT !.members = @ \cap present, !.subs = @ \cap Live(c)]
             ELSE c[i]]
  BY DEF Updated, Under
<1>2. c \in [Ids -> Cluster \cup {None}] /\ None \notin Cluster
  BY ContextTreeAssumption DEF Clusters
<1>3. /\ Live(c) \subseteq Ids /\ Live(c) = {i \in Ids : c[i] # None}
      /\ \A i \in Live(c) : c[i] \in Cluster /\ c[i].subs \cap Live(c) = c[i].subs
  <2>1. Live(c) = {i \in Ids : c[i] # None}
    BY <1>2 DEF Live
  <2>2. \A i \in Live(c) : c[i].subs \cap Live(c) = c[i].subs
    BY DEF Links
  <2> QED
    BY <2>1, <2>2, LiveIs
<1>4. near \subseteq Live(c)
  BY BelowIs DEF Under
<1> HIDE DEF d, near
<1>5. ASSUME NEW i \in near
      PROVE  /\ d[i] \in Cluster
             /\ d[i].parent = c[i].parent /\ d[i].root = c[i].root /\ d[i].subs = c[i].subs
             /\ d[i].members = c[i].members \cap present
  <2>1. /\ d[i] = [c[i] EXCEPT !.members = @ \cap present, !.subs = @ \cap Live(c)]
        /\ c[i] \in Cluster /\ c[i].subs \cap Live(c) = c[i].subs
    BY <1>1, <1>3, <1>4
  <2> QED
    BY <2>1 DEF Cluster
<1>6. \A i \in Ids : i \notin near => d[i] = c[i]
  BY <1>1
<1>7. ASSUME NEW i \in Ids
      PROVE  d[i] \in Cluster \cup {None} /\ (d[i] # None <=> c[i] # None)
  BY <1>2, <1>3, <1>4, <1>5, <1>6
<1>8. d \in [Ids -> Cluster \cup {None}] /\ Live(d) = Live(c)
  <2>1. d \in [Ids -> Cluster \cup {None}]
    BY <1>1, <1>7
  <2> QED
    BY <2>1, <1>3, <1>7 DEF Live
<1>9. ASSUME NEW i \in Live(c)
      PROVE  /\ d[i].parent = c[i].parent /\ d[i].root = c[i].root /\ d[i].subs = c[i].subs
             /\ d[i].members = IF i \in near THEN c[i].members \cap present ELSE c[i].members
  BY <1>3, <1>5, <1>6
<1>10. Clusters(d, Ids)
  BY <1>8 DEF Clusters, Named
<1> QED
  BY <1>8, <1>9, <1>10 DEF d, near

LEMMA UpdatedFewer ==
  ASSUME NEW c, Clusters(c, Ids), Links(c), NEW S, NEW present
  PROVE  LET d == Updated(c, S, present) IN
         /\ Clusters(d, Ids) /\ Live(d) = Live(c)
         /\ \A i \in Live(c) : d[i].members \subseteq c[i].members /\ d[i].subs = c[i].subs
<1> DEFINE d == Updated(c, S, present)
<1>1. /\ Clusters(d, Ids) /\ Live(d) = Live(c)
      /\ \A i \in Live(c) :
           /\ d[i].parent = c[i].parent /\ d[i].root = c[i].root /\ d[i].subs = c[i].subs
           /\ d[i].members = IF i \in Under(c, S)
                             THEN c[i].members \cap present ELSE c[i].members
  BY UpdatedIs
<1> HIDE DEF d
<1>2. \A i \in Live(c) : d[i].members \subseteq c[i].members
  BY <1>1
<1> QED
  BY <1>1, <1>2 DEF d

LEMMA WithoutIs ==
  ASSUME NEW c, Clusters(c, Ids), Links(c), NEW x \in Live(c), NEW G \in SUBSET Live(c), x \in G
  PROVE  LET d == Without(c, G, x) IN
         /\ Clusters(d, Ids) /\ Live(d) = Live(c) \ G
         /\ \A i \in Live(c) \ G :
              /\ d[i].parent = c[i].parent /\ d[i].root = c[i].root /\ d[i].members = c[i].members
              /\ d[i].subs = c[i].subs \ {x}
<1> DEFINE d == Without(c, G, x)
           p == c[x].parent
<1>1. d = [i \in Ids |-> IF i \in G THEN None
                        ELSE IF i = p THEN [c[i] EXCEPT !.subs = @ \ {x}] ELSE c[i]]
  BY DEF Without
<1>2. c \in [Ids -> Cluster \cup {None}] /\ None \notin Cluster
  BY ContextTreeAssumption DEF Clusters
<1>3. /\ Live(c) \subseteq Ids /\ Live(c) = {i \in Ids : c[i] # None}
      /\ \A i \in Live(c) : c[i] \in Cluster
      /\ p \in Ids => p \in Live(c)
  <2>1. Live(c) = {i \in Ids : c[i] # None}
    BY <1>2 DEF Live
  <2>2. p \in Ids => p \in Live(c)
    BY ContextTreeAssumption DEF Links
  <2> QED
    BY <2>1, <2>2, LiveIs
<1> HIDE DEF d, p
<1>4. ASSUME NEW i \in Live(c) \ G
      PROVE  /\ d[i] \in Cluster
             /\ d[i].parent = c[i].parent /\ d[i].root = c[i].root /\ d[i].members = c[i].members
             /\ d[i].subs = c[i].subs \ {x}
  <2>1. CASE i = p
    <3>1. d[i] = [c[i] EXCEPT !.subs = @ \ {x}] /\ c[i] \in Cluster
      BY <1>1, <1>3, <2>1
    <3> QED
      BY <2>1, <3>1 DEF Cluster
  <2>2. CASE i # p
    <3>1. x \notin c[i].subs
      BY <2>2 DEF Links, p
    <3>2. d[i] = c[i] /\ c[i].subs \ {x} = c[i].subs
      BY <1>1, <1>3, <2>2, <3>1
    <3> QED
      BY <1>3, <3>2
  <2> QED
    BY <2>1, <2>2
<1>5. ASSUME NEW i \in Ids
      PROVE  d[i] \in Cluster \cup {None} /\ (d[i] # None <=> i \in Live(c) \ G)
  <2>1. CASE i \in Live(c) \ G
    BY <1>2, <1>4, <2>1
  <2>2. CASE i \in G
    BY <1>1, <2>2
  <2>3. CASE i \notin Live(c)
    BY <1>1, <1>3, <2>3
  <2> QED
    BY <2>1, <2>2, <2>3
<1>6. d \in [Ids -> Cluster \cup {None}] /\ Live(d) = Live(c) \ G
  <2>1. d \in [Ids -> Cluster \cup {None}]
    BY <1>1, <1>5
  <2> QED
    BY <2>1, <1>3, <1>5 DEF Live
<1>7. Clusters(d, Ids)
  BY <1>6 DEF Clusters, Named
<1> QED
  BY <1>4, <1>6, <1>7 DEF d, p

\* What is left when x goes with everything below it.
LEMMA WithoutTree ==
  ASSUME NEW c, Clusters(c, Ids), Tree(c), RootKnown(c),
         NEW x \in Live(c), NEW G \in SUBSET Live(c), x \in G,
         \A y \in G : c[y].subs \subseteq G /\ (y = x \/ c[y].parent \in G)
  PROVE  LET d == Without(c, G, x) IN
         Tree(d) /\ RootKnown(d) /\ Tops(d) = Tops(c) \ G
<1> DEFINE d == Without(c, G, x)
<1>1. /\ Clusters(d, Ids) /\ Live(d) = Live(c) \ G
      /\ \A i \in Live(c) \ G :
           /\ d[i].parent = c[i].parent /\ d[i].root = c[i].root
           /\ d[i].subs = c[i].subs \ {x}
  <2>1. Links(c)
    BY DEF Tree
  <2> QED
    BY <2>1, WithoutIs
<1> HIDE DEF d
<1>9. \A i \in Live(d) : i \in Live(c) /\ i \notin G /\ d[i].parent = c[i].parent /\ d[i].root = c[i].root
  BY <1>1
<1>2. \A i \in Live(c) \ G : c[i].parent # None => c[i].parent \in Live(c) \ G
  BY DEF Tree, Links
<1>3. ASSUME NEW i \in Live(d), NEW j \in d[i].subs
      PROVE  j \in Live(d) /\ d[j].parent = i
  <2>1. i \in Live(c) /\ i \notin G /\ j \in c[i].subs
    BY <1>1, <1>3
  <2>2. j \in Live(c) /\ c[j].parent = i
    BY <2>1 DEF Tree, Links
  <2>3. j \notin G
    BY <1>1, <1>3, <2>1, <2>2
  <2> QED
    BY <1>1, <2>2, <2>3
<1>4. ASSUME NEW i \in Live(d), d[i].parent # None
      PROVE  d[i].parent \in Live(d) /\ i \in d[d[i].parent].subs
  <2>1. i \in Live(c) /\ i \notin G /\ i # x /\ d[i].parent = c[i].parent
    BY <1>1
  <2>2. i \in c[c[i].parent].subs /\ c[i].parent \in Live(c) \ G
    BY <1>2, <1>4, <2>1 DEF Tree, Links
  <2> QED
    BY <1>1, <2>1, <2>2
<1>5. ASSUME NEW U \in SUBSET Live(d), U # {}
      PROVE  \E i \in U : d[i].parent \notin U
  <2>1. U \in SUBSET Live(c)
    BY <1>1
  <2>2. PICK i \in U : c[i].parent \notin U
    BY <1>5, <2>1 DEF Tree, Grounded
  <2> QED
    BY <1>9, <2>2
<1>6. RootKnown(d)
  <2>1. ASSUME NEW i \in Live(d)
        PROVE  d[i].root = IF d[i].parent = None THEN None
                           ELSE IF d[d[i].parent].root = None THEN d[i].parent ELSE d[d[i].parent].root
    <3>1. c[i].root = IF c[i].parent = None THEN None
                      ELSE IF c[c[i].parent].root = None THEN c[i].parent ELSE c[c[i].parent].root
      BY <1>9 DEF RootKnown
    <3>2. d[i].parent = c[i].parent /\ d[i].root = c[i].root
      BY <1>9
    <3>3. c[i].parent # None => d[c[i].parent].root = c[c[i].parent].root
      BY <1>1, <1>2, <1>9
    <3> QED
      BY <3>1, <3>2, <3>3
  <2> QED
    BY <2>1 DEF RootKnown
<1>7. Tops(d) = Tops(c) \ G
  <2>1. \A i : i \in Live(d) <=> i \in Live(c) /\ i \notin G
    BY <1>1
  <2> QED
    BY <1>9, <2>1 DEF Tops
<1>8. Tree(d)
  BY <1>3, <1>4, <1>5 DEF Tree, Links, Grounded
<1> QED
  BY <1>6, <1>7, <1>8 DEF d

\* Where every cluster has accounts or subclusters, every one has accounts below it.
LEMMA AccountsFound ==
  ASSUME NEW D, NEW c, Clusters(c, D), Tree(c),
         \A i \in Live(c) : c[i].members # {} \/ c[i].subs # {},
         NEW x \in Live(c)
  PROVE  AccountsBelow(c, x) # {}
<1> DEFINE B == Below(c, x)
           f == [y \in B |-> CHOOSE z \in c[y].subs : TRUE]
<1>1. SUFFICES ASSUME \A y \in B : c[y].members = {}
               PROVE  FALSE
  BY DEF AccountsBelow
<1>2. /\ B \subseteq Live(c) /\ x \in B
      /\ \A y \in B : \A z \in c[y].subs : z \in Live(c) => z \in B
  BY BelowIs
<1>3. ASSUME NEW y \in B
      PROVE  f[y] \in B /\ c[f[y]].parent = y
  <2>1. c[y].subs # {}
    BY <1>1, <1>2
  <2>2. f[y] \in c[y].subs
    BY <2>1
  <2> HIDE DEF f
  <2> QED
    BY <1>2, <2>2 DEF Tree, Links
<1>4. f \in [B -> B]
  BY <1>3
<1> HIDE DEF f, B
<1>5. \A y, z \in B : f[y] = f[z] => y = z
  BY <1>3
<1>6. f \in Injection(B, B)
  BY <1>4, <1>5 DEF Injection, IsInjective
<1>7. IsFiniteSet(B)
  BY <1>2, LiveIs, FS_Subset
<1>8. f \in Surjection(B, B)
  BY <1>6, <1>7, FS_Injection
<1>9. \A z \in B : \E y \in B : f[y] = z
  BY <1>8 DEF Surjection
<1>10. \A z \in B : c[z].parent \in B
  BY <1>3, <1>9
<1> QED
  BY <1>2, <1>10 DEF Tree, Grounded

-----------------------------------------------------------------------------
(* What simplifying makes of a tree                                        *)

Copied == Ids \cup {File}
\* The copies before the file's own cluster is made.
Copies(c) == Clusters(c, Copied) /\ c[File] = None

LEMMA CopiesAre ==
  ASSUME NEW c, Copies(c)
  PROVE  /\ c \in [Copied -> Cluster \cup {None}] /\ None \notin Cluster /\ File \notin Live(c)
         /\ Live(c) \subseteq Ids /\ Live(c) = {i \in Copied : c[i] # None}
         /\ \A i \in Live(c) : c[i] \in Cluster
         /\ None \notin Ids /\ None # File
<1>1. c \in [Copied -> Cluster \cup {None}] /\ None \notin Cluster /\ c[File] = None
  BY ContextTreeAssumption DEF Copies, Clusters
<1>2. Live(c) = {i \in Copied : c[i] # None}
  BY <1>1 DEF Live
<1> QED
  BY <1>1, <1>2, ContextTreeAssumption DEF Copied

\* A chain without a parent goes: its subcluster s has none then.
LEMMA NewRootIs ==
  ASSUME NEW c, Copies(c), Tree(c), NEW x \in Live(c), NEW s, c[x].subs = {s}, c[x].parent = None
  PROVE  LET d == NewRoot(c, x, s) IN
         /\ Copies(d) /\ Tree(d) /\ Live(d) = Live(c) \ {x}
         /\ \A i \in Live(d) : d[i].members = c[i].members /\ d[i].subs = c[i].subs
<1> DEFINE d == NewRoot(c, x, s)
           To(y) == IF y = x THEN s ELSE y
<1>1. /\ c \in [Copied -> Cluster \cup {None}] /\ None \notin Cluster /\ File \notin Live(c)
      /\ Live(c) \subseteq Ids /\ Live(c) = {i \in Copied : c[i] # None}
      /\ \A i \in Live(c) : c[i] \in Cluster
      /\ None \notin Ids /\ None # File
  BY CopiesAre
<1>2. s \in Live(c) /\ c[s].parent = x /\ s # x /\ c[s] # None
  BY <1>1, NotOwnParent DEF Tree, Links
<1>3. \A i \in Live(c) : c[i].parent = x => i = s
  BY <1>1 DEF Tree, Links
<1>4. d = [i \in Copied |->
             CASE i = x \/ c[i] = None -> None
               [] i = s -> [c[i] EXCEPT !.parent = None, !.root = None]
               [] OTHER -> [c[i] EXCEPT !.parent = To(@), !.root = To(@)]]
  BY <1>1 DEF NewRoot
<1> HIDE DEF d
<1>5. /\ d[s] \in Cluster /\ d[s].parent = None
      /\ d[s].members = c[s].members /\ d[s].subs = c[s].subs
  <2>1. d[s] = [c[s] EXCEPT !.parent = None, !.root = None] /\ c[s] \in Cluster
    BY <1>1, <1>2, <1>4
  <2> QED
    BY <2>1 DEF Cluster
<1>6. ASSUME NEW i \in Live(c), i # x, i # s
      PROVE  /\ d[i] \in Cluster /\ d[i].parent = c[i].parent
             /\ d[i].members = c[i].members /\ d[i].subs = c[i].subs
  <2>1. d[i] = [c[i] EXCEPT !.parent = To(@), !.root = To(@)] /\ c[i] \in Cluster
    BY <1>1, <1>4, <1>6
  <2>2. To(c[i].parent) = c[i].parent /\ To(c[i].root) \in Ids \cup {None}
    BY <1>1, <1>2, <1>3, <1>6, <2>1 DEF Cluster
  <2> HIDE DEF To
  <2> QED
    BY <2>1, <2>2 DEF Cluster
<1>7. \A i \in Copied : i = x \/ c[i] = None => d[i] = None
  BY <1>2, <1>4
<1>8. ASSUME NEW i \in Copied
      PROVE  d[i] \in Cluster \cup {None} /\ (d[i] # None <=> i \in Live(c) \ {x})
  <2>1. CASE i \in Live(c) /\ i # x
    BY <1>1, <1>5, <1>6, <2>1
  <2>2. CASE ~(i \in Live(c) /\ i # x)
    BY <1>1, <1>7, <2>2
  <2> QED
    BY <2>1, <2>2
<1>9. d \in [Copied -> Cluster \cup {None}] /\ Live(d) = Live(c) \ {x}
  <2>1. d \in [Copied -> Cluster \cup {None}]
    BY <1>4, <1>8
  <2> QED
    BY <2>1, <1>1, <1>8 DEF Live
<1>10. Copies(d)
  <2>1. File \in Copied
    BY DEF Copied
  <2> QED
    BY <2>1, <1>1, <1>8, <1>9 DEF Copies, Clusters, Named, Copied
<1>11. \A i \in Live(d) : d[i].members = c[i].members /\ d[i].subs = c[i].subs
  BY <1>5, <1>6, <1>9
<1>12. \A i \in Live(d) : i # s => d[i].parent = c[i].parent
  BY <1>6, <1>9
<1>13. Links(d)
  <2>1. ASSUME NEW i \in Live(d), NEW j \in d[i].subs
        PROVE  j \in Live(d) /\ d[j].parent = i
    <3>1. i \in Live(c) /\ i # x /\ j \in c[i].subs
      BY <1>9, <1>11
    <3>2. j \in Live(c) /\ c[j].parent = i
      BY <3>1 DEF Tree, Links
    <3>3. j # x /\ j # s
      BY <1>1, <1>2, <3>1, <3>2
    <3> QED
      BY <1>6, <1>9, <3>2, <3>3
  <2>2. ASSUME NEW i \in Live(d), d[i].parent # None
        PROVE  d[i].parent \in Live(d) /\ i \in d[d[i].parent].subs
    <3>1. i \in Live(c) /\ i # x /\ i # s /\ d[i].parent = c[i].parent
      BY <1>5, <1>9, <1>12, <2>2
    <3>2. c[i].parent \in Live(c) /\ i \in c[c[i].parent].subs /\ c[i].parent # x
      BY <1>3, <2>2, <3>1 DEF Tree, Links
    <3> QED
      BY <1>9, <1>11, <3>1, <3>2
  <2> QED
    BY <2>1, <2>2 DEF Links
<1>14. ASSUME NEW U \in SUBSET Live(d), U # {}
       PROVE  \E i \in U : d[i].parent \notin U
  <2>1. U \in SUBSET Live(c) /\ None \notin U
    BY <1>1, <1>9
  <2>2. PICK i \in U : c[i].parent \notin U
    BY <1>14, <2>1 DEF Tree, Grounded
  <2> QED
    BY <1>5, <1>12, <2>1, <2>2
<1>15. Tree(d)
  BY <1>13, <1>14 DEF Tree, Grounded
<1> QED
  BY <1>9, <1>10, <1>11, <1>15 DEF d

\* A chain below p goes: its subcluster s is p's then.
ChainOut(c, x, s, p) ==
  [c EXCEPT ![x] = None, ![s].parent = p, ![s].root = c[x].root, ![p].subs = (@ \ {x}) \cup {s}]

OutOfChain(c, d, x, s, p) ==
  /\ \A i \in Live(d) :
       /\ d[i].members = c[i].members
       /\ d[i].subs = IF i = p THEN (c[p].subs \ {x}) \cup {s} ELSE c[i].subs
  /\ p \in Live(d) /\ x \in c[p].subs /\ s \notin c[p].subs

LEMMA ChainDropped ==
  ASSUME NEW c, Copies(c), Tree(c), NEW x \in Live(c), NEW s, c[x].subs = {s},
         NEW p, c[x].parent = p, p # None
  PROVE  LET d == ChainOut(c, x, s, p) IN
         /\ Copies(d) /\ Tree(d) /\ Live(d) = Live(c) \ {x} /\ OutOfChain(c, d, x, s, p)
<1> DEFINE d == ChainOut(c, x, s, p)
<1>1. /\ c \in [Copied -> Cluster \cup {None}] /\ None \notin Cluster /\ File \notin Live(c)
      /\ Live(c) \subseteq Ids /\ Live(c) = {i \in Copied : c[i] # None}
      /\ \A i \in Live(c) : c[i] \in Cluster
      /\ None \notin Ids /\ None # File
  BY CopiesAre
<1>2. /\ s \in Live(c) /\ c[s].parent = x /\ s # x
      /\ p \in Live(c) /\ x \in c[p].subs /\ p # x
  BY <1>1, NotOwnParent DEF Tree, Links
<1>3. s \notin c[p].subs
  BY <1>2 DEF Tree, Links
<1>4. p # s
  <2>1. {x, s} \in SUBSET Live(c) /\ {x, s} # {}
    BY <1>2
  <2>2. PICK i \in {x, s} : c[i].parent \notin {x, s}
    BY <2>1 DEF Tree, Grounded
  <2> QED
    BY <2>2, <1>2
<1>5. x \in Copied /\ s \in Copied /\ p \in Copied
  BY <1>1, <1>2
<1>6. /\ d[x] = None
      /\ d[s] = [c[s] EXCEPT !.parent = p, !.root = c[x].root]
      /\ d[p] = [c[p] EXCEPT !.subs = (@ \ {x}) \cup {s}]
      /\ \A i \in Copied \ {x, s, p} : d[i] = c[i]
      /\ DOMAIN d = Copied
  <2>1. DOMAIN c = Copied
    BY <1>1
  <2>2. c[s] \in Cluster /\ c[p] \in Cluster
    BY <1>1, <1>2
  <2>3. [[c[s] EXCEPT !.parent = p] EXCEPT !.root = c[x].root] = [c[s] EXCEPT !.parent = p, !.root = c[x].root]
    OBVIOUS
  <2> QED
    BY <1>2, <1>4, <1>5, <2>1, <2>2, <2>3 DEF ChainOut
<1>7. d = [i \in Copied |-> d[i]]
  BY <1>1 DEF ChainOut
<1> HIDE DEF d
<1>8. /\ d[s] \in Cluster /\ d[s].parent = p
      /\ d[s].members = c[s].members /\ d[s].subs = c[s].subs
  <2>1. c[s] \in Cluster /\ c[x].root \in Ids \cup {None} /\ p \in Ids
    BY <1>1, <1>2 DEF Cluster
  <2>2. d[s] = [c[s] EXCEPT !.parent = p, !.root = c[x].root]
    BY <1>6
  <2> QED
    BY <2>1, <2>2 DEF Cluster
<1>9. /\ d[p] \in Cluster /\ d[p].parent = c[p].parent
      /\ d[p].members = c[p].members /\ d[p].subs = (c[p].subs \ {x}) \cup {s}
  BY <1>1, <1>2, <1>6 DEF Cluster
<1>10. ASSUME NEW i \in Copied
       PROVE  d[i] \in Cluster \cup {None} /\ (d[i] # None <=> i \in Live(c) \ {x})
  <2>1. CASE i = x
    BY <1>6, <2>1
  <2>2. CASE i = s \/ i = p
    BY <1>1, <1>2, <1>4, <1>8, <1>9, <2>2
  <2>3. CASE i \notin {x, s, p}
    BY <1>1, <1>6, <2>3
  <2> QED
    BY <2>1, <2>2, <2>3
<1>11. d \in [Copied -> Cluster \cup {None}] /\ Live(d) = Live(c) \ {x}
  <2>1. d \in [Copied -> Cluster \cup {None}]
    BY <1>7, <1>10
  <2> QED
    BY <2>1, <1>1, <1>10 DEF Live
<1>12. Copies(d)
  <2>1. File \in Copied
    BY DEF Copied
  <2> QED
    BY <2>1, <1>1, <1>10, <1>11 DEF Copies, Clusters, Named, Copied
<1>13. ASSUME NEW i \in Live(d)
       PROVE  /\ i \in Live(c) /\ i # x /\ d[i].members = c[i].members
              /\ d[i].subs = IF i = p THEN (c[p].subs \ {x}) \cup {s} ELSE c[i].subs
              /\ d[i].parent = IF i = s THEN p ELSE c[i].parent
  <2>1. i \in Live(c) /\ i # x /\ i \in Copied
    BY <1>1, <1>11
  <2>2. CASE i = s
    BY <1>4, <1>8, <2>1, <2>2
  <2>3. CASE i = p
    BY <1>4, <1>9, <2>1, <2>3
  <2>4. CASE i # s /\ i # p
    BY <1>6, <2>1, <2>4
  <2> QED
    BY <2>2, <2>3, <2>4
<1>14. Links(d)
  <2>1. ASSUME NEW i \in Live(d), NEW j \in d[i].subs
        PROVE  j \in Live(d) /\ d[j].parent = i
    <3>1. CASE i = p /\ j = s
      BY <1>2, <1>8, <1>11, <3>1
    <3>2. CASE j \in c[i].subs /\ j # x /\ i # x
      <4>1. j \in Live(c) /\ c[j].parent = i
        BY <1>13, <2>1, <3>2 DEF Tree, Links
      <4>2. j # s
        BY <1>2, <3>2, <4>1
      <4> QED
        BY <1>11, <1>13, <3>2, <4>1, <4>2
    <3>3. i = p \/ j # x
      BY <1>13, <2>1 DEF Tree, Links
    <3> QED
      BY <1>13, <2>1, <3>1, <3>2, <3>3
  <2>2. ASSUME NEW i \in Live(d), d[i].parent # None
        PROVE  d[i].parent \in Live(d) /\ i \in d[d[i].parent].subs
    <3>1. CASE i = s
      BY <1>2, <1>8, <1>9, <1>11, <3>1
    <3>2. CASE i # s
      <4>1. i \in Live(c) /\ i # x /\ d[i].parent = c[i].parent
        BY <1>13, <3>2
      <4>2. c[i].parent \in Live(c) /\ i \in c[c[i].parent].subs
        BY <2>2, <4>1 DEF Tree, Links
      <4>3. c[i].parent # x
        BY <3>2, <4>2
      <4> QED
        BY <1>11, <1>13, <4>1, <4>2, <4>3
    <3> QED
      BY <3>1, <3>2
  <2> QED
    BY <2>1, <2>2 DEF Links
<1>15. ASSUME NEW U \in SUBSET Live(d), U # {}
       PROVE  \E i \in U : d[i].parent \notin U
  <2> DEFINE V == IF s \in U THEN U \cup {x} ELSE U
  <2>1. V \in SUBSET Live(c) /\ V # {} /\ U \subseteq V
    BY <1>11, <1>15
  <2>2. PICK i \in V : c[i].parent \notin V
    BY <2>1 DEF Tree, Grounded
  <2>3. CASE i = x
    <3>1. s \in U /\ p \notin U
      BY <1>11, <2>1, <2>2, <2>3
    <3> QED
      BY <1>8, <3>1
  <2>4. CASE i # x
    <3>1. i \in U /\ c[i].parent \notin U
      BY <2>2, <2>4
    <3>2. i # s
      BY <1>2, <2>2, <3>1
    <3> QED
      BY <1>13, <3>1, <3>2
  <2> QED
    BY <2>3, <2>4
<1>16. Tree(d)
  BY <1>14, <1>15 DEF Tree, Grounded
<1>17. p \in Live(d)
  BY <1>2, <1>11
<1> QED
  BY <1>2, <1>3, <1>11, <1>12, <1>13, <1>16, <1>17 DEF d, OutOfChain

\* A cluster without subclusters goes, from its parent too if it has one.
LEMMA LeafDropped ==
  ASSUME NEW c, Copies(c), Tree(c), NEW x \in Live(c), c[x].subs = {}, NEW d,
         Copies(d), Live(d) = Live(c) \ {x},
         \A i \in Live(d) : d[i].parent = c[i].parent /\ d[i].subs = c[i].subs \ {x}
  PROVE  Tree(d)
<1>1. Links(d)
  BY DEF Tree, Links
<1>2. ASSUME NEW U \in SUBSET Live(d), U # {}
      PROVE  \E i \in U : d[i].parent \notin U
  <2>1. U \in SUBSET Live(c)
    OBVIOUS
  <2>2. PICK i \in U : c[i].parent \notin U
    BY <1>2, <2>1 DEF Tree, Grounded
  <2> QED
    BY <2>2
<1> QED
  BY <1>1, <1>2 DEF Tree, Grounded

LEMMA SingletonRootDropped ==
  ASSUME NEW c, Copies(c), Tree(c), NEW x \in Live(c), c[x].subs = {}, c[x].parent = None
  PROVE  LET d == [c EXCEPT ![x] = None] IN
         /\ Copies(d) /\ Tree(d) /\ Live(d) = Live(c) \ {x}
         /\ \A i \in Live(d) : d[i] = c[i]
<1> DEFINE d == [c EXCEPT ![x] = None]
<1>1. /\ c \in [Copied -> Cluster \cup {None}] /\ None \notin Cluster /\ File \notin Live(c)
      /\ Live(c) \subseteq Ids /\ Live(c) = {i \in Copied : c[i] # None}
      /\ \A i \in Live(c) : c[i] \in Cluster
      /\ None \notin Ids /\ None # File
  BY CopiesAre
<1>2. d \in [Copied -> Cluster \cup {None}] /\ \A i \in Copied : d[i] = IF i = x THEN None ELSE c[i]
  BY <1>1
<1> HIDE DEF d
<1>3. Live(d) = Live(c) \ {x}
  BY <1>1, <1>2 DEF Live
<1>4. Copies(d)
  <2>1. File \in Copied
    BY DEF Copied
  <2> QED
    BY <2>1, <1>1, <1>2 DEF Copies, Clusters, Named, Copied
<1>5. \A i \in Live(d) : d[i] = c[i]
  BY <1>1, <1>2, <1>3
<1>6. \A i \in Live(d) : c[i].subs = c[i].subs \ {x}
  BY <1>1, <1>3 DEF Tree, Links
<1>7. \A i \in Live(d) : d[i].parent = c[i].parent /\ d[i].subs = c[i].subs \ {x}
  BY <1>5, <1>6
<1>8. Tree(d)
  BY <1>3, <1>4, <1>7, LeafDropped
<1> QED
  BY <1>3, <1>4, <1>5, <1>8 DEF d

\* A cluster of one account below p goes: the account is p's then.
SingletonOut(c, x, p) ==
  [c EXCEPT ![x] = None, ![p].subs = @ \ {x}, ![p].members = @ \cup c[x].members]

OutOfSingleton(c, d, x, p) ==
  /\ \A i \in Live(d) :
       /\ d[i].subs = c[i].subs \ {x}
       /\ d[i].members = IF i = p THEN c[p].members \cup c[x].members ELSE c[i].members
  /\ p \in Live(d) /\ x \in c[p].subs

LEMMA SingletonDropped ==
  ASSUME NEW c, Copies(c), Tree(c), NEW x \in Live(c), c[x].subs = {},
         NEW p, c[x].parent = p, p # None
  PROVE  LET d == SingletonOut(c, x, p) IN
         /\ c[p] # None /\ Copies(d) /\ Tree(d) /\ Live(d) = Live(c) \ {x}
         /\ OutOfSingleton(c, d, x, p)
<1> DEFINE d == SingletonOut(c, x, p)
<1>1. /\ c \in [Copied -> Cluster \cup {None}] /\ None \notin Cluster /\ File \notin Live(c)
      /\ Live(c) \subseteq Ids /\ Live(c) = {i \in Copied : c[i] # None}
      /\ \A i \in Live(c) : c[i] \in Cluster
      /\ None \notin Ids /\ None # File
  BY CopiesAre
<1>2. p \in Live(c) /\ x \in c[p].subs /\ p # x /\ c[p] # None
  BY <1>1, NotOwnParent DEF Tree, Links
<1>3. c[p] \in Cluster /\ c[x] \in Cluster /\ x \in Copied /\ p \in Copied
  BY <1>1, <1>2
<1>4. /\ d[x] = None
      /\ d[p] = [c[p] EXCEPT !.subs = @ \ {x}, !.members = @ \cup c[x].members]
      /\ \A i \in Copied \ {x, p} : d[i] = c[i]
      /\ d = [i \in Copied |-> d[i]]
  BY <1>1, <1>2, <1>3 DEF SingletonOut
<1> HIDE DEF d
<1>5. /\ d[p] \in Cluster /\ d[p].parent = c[p].parent
      /\ d[p].members = c[p].members \cup c[x].members /\ d[p].subs = c[p].subs \ {x}
  <2>1. /\ c[p] \in Cluster
        /\ c[p].members \cup c[x].members \in SUBSET Entities /\ c[p].subs \ {x} \in SUBSET Ids
    BY <1>3 DEF Cluster
  <2>2. d[p] = [c[p] EXCEPT !.subs = @ \ {x}, !.members = @ \cup c[x].members]
    BY <1>4
  <2> QED
    BY <2>1, <2>2 DEF Cluster
<1>6. ASSUME NEW i \in Copied
      PROVE  d[i] \in Cluster \cup {None} /\ (d[i] # None <=> i \in Live(c) \ {x})
  <2>1. CASE i = x
    BY <1>4, <2>1
  <2>2. CASE i = p
    BY <1>1, <1>2, <1>5, <2>2
  <2>3. CASE i \notin {x, p}
    BY <1>1, <1>4, <2>3
  <2> QED
    BY <2>1, <2>2, <2>3
<1>7. d \in [Copied -> Cluster \cup {None}] /\ Live(d) = Live(c) \ {x}
  <2>1. d \in [Copied -> Cluster \cup {None}]
    BY <1>4, <1>6
  <2> QED
    BY <2>1, <1>1, <1>6 DEF Live
<1>8. Copies(d)
  <2>1. File \in Copied
    BY DEF Copied
  <2> QED
    BY <2>1, <1>1, <1>6, <1>7 DEF Copies, Clusters, Named, Copied
<1>9. ASSUME NEW i \in Live(d)
      PROVE  /\ d[i].subs = c[i].subs \ {x} /\ d[i].parent = c[i].parent
             /\ d[i].members = IF i = p THEN c[p].members \cup c[x].members ELSE c[i].members
  <2>1. i \in Live(c) /\ i # x /\ i \in Copied
    BY <1>1, <1>7
  <2>2. CASE i = p
    BY <1>5, <2>2
  <2>3. CASE i # p
    <3>1. x \notin c[i].subs
      BY <2>1, <2>3 DEF Tree, Links
    <3>2. d[i] = c[i] /\ c[i].subs \ {x} = c[i].subs
      BY <1>4, <2>1, <2>3, <3>1
    <3> QED
      BY <2>3, <3>2
  <2> QED
    BY <2>2, <2>3
<1>10. Tree(d)
  BY <1>7, <1>8, <1>9, LeafDropped
<1>11. p \in Live(d)
  BY <1>2, <1>7
<1> QED
  BY <1>2, <1>7, <1>8, <1>9, <1>10, <1>11 DEF d, OutOfSingleton

\* The file's own cluster gets what has no parent.
Gathered(c, shown) ==
  LET top == {i \in Live(c) : c[i].parent = None} IN
  [i \in DOMAIN c |->
     CASE i = File -> [Childless EXCEPT !.members = shown, !.subs = top]
       [] i \in top -> [c[i] EXCEPT !.parent = File]
       [] OTHER -> c[i]]

LEMMA GatheredIs ==
  ASSUME NEW c, Copies(c), Tree(c), NEW shown \in SUBSET Entities
  PROVE  LET d == Gathered(c, shown) IN
         /\ Clusters(d, Copied) /\ Tree(d) /\ Live(d) = Live(c) \cup {File}
         /\ d[File].parent = None /\ d[File].members = shown /\ d[File].subs = Tops(c)
         /\ \A i \in Live(c) : d[i].members = c[i].members /\ d[i].subs = c[i].subs
<1> DEFINE d == Gathered(c, shown)
           top == {i \in Live(c) : c[i].parent = None}
<1>1. /\ c \in [Copied -> Cluster \cup {None}] /\ None \notin Cluster /\ File \notin Live(c)
      /\ Live(c) \subseteq Ids /\ Live(c) = {i \in Copied : c[i] # None}
      /\ \A i \in Live(c) : c[i] \in Cluster
      /\ None \notin Ids /\ None # File
  BY CopiesAre
<1>2. File \in Copied /\ Ids \subseteq Copied /\ \A i \in Copied : i = File \/ i \in Ids
  BY DEF Copied
<1>3. top \subseteq Live(c) /\ top = Tops(c) /\ File \notin top
  BY <1>1 DEF Tops
<1>4. d = [i \in Copied |->
             CASE i = File -> [Childless EXCEPT !.members = shown, !.subs = top]
               [] i \in top -> [c[i] EXCEPT !.parent = File]
               [] OTHER -> c[i]]
  BY <1>1 DEF Gathered
<1>5. \A i \in top : c[i].parent = None
  OBVIOUS
<1>6. \A i \in Live(c) : i \notin top => c[i].parent # None
  OBVIOUS
<1> HIDE DEF d, top
<1>7. /\ d[File] \in Cluster /\ d[File].parent = None
      /\ d[File].members = shown /\ d[File].subs = top
  <2>1. d[File] = [Childless EXCEPT !.members = shown, !.subs = top]
    BY <1>2, <1>3, <1>4
  <2>2. d[File] = [parent |-> None, root |-> None, members |-> shown, subs |-> top]
    BY <2>1 DEF Childless
  <2> QED
    BY <1>1, <1>3, <2>2 DEF Cluster
<1>8. ASSUME NEW i \in top
      PROVE  /\ d[i] \in Cluster /\ d[i].parent = File
             /\ d[i].members = c[i].members /\ d[i].subs = c[i].subs
  <2>1. i \in Copied /\ i # File /\ c[i] \in Cluster
    BY <1>1, <1>3
  <2>2. d[i] = [c[i] EXCEPT !.parent = File]
    BY <1>4, <2>1
  <2> QED
    BY <2>1, <2>2 DEF Cluster
<1>9. \A i \in Copied : i # File /\ i \notin top => d[i] = c[i]
  BY <1>4
<1>10. ASSUME NEW i \in Copied
       PROVE  d[i] \in Cluster \cup {None} /\ (d[i] # None <=> i \in Live(c) \cup {File})
  <2>1. CASE i = File
    BY <1>1, <1>7, <2>1
  <2>2. CASE i \in top
    BY <1>1, <1>3, <1>8, <2>2
  <2>3. CASE i # File /\ i \notin top
    BY <1>1, <1>9, <2>3
  <2> QED
    BY <2>1, <2>2, <2>3
<1>11. d \in [Copied -> Cluster \cup {None}] /\ Live(d) = Live(c) \cup {File}
  <2>1. d \in [Copied -> Cluster \cup {None}]
    BY <1>4, <1>10
  <2> QED
    BY <2>1, <1>1, <1>2, <1>10 DEF Live
<1>12. Clusters(d, Copied)
  BY <1>11 DEF Clusters, Named, Copied
<1>13. ASSUME NEW i \in Live(c)
       PROVE  /\ d[i].members = c[i].members /\ d[i].subs = c[i].subs
              /\ d[i].parent = IF i \in top THEN File ELSE c[i].parent
  BY <1>1, <1>8, <1>9
<1>14. Links(d)
  <2>1. ASSUME NEW i \in Live(d), NEW j \in d[i].subs
        PROVE  j \in Live(d) /\ d[j].parent = i
    <3>1. CASE i = File
      BY <1>3, <1>7, <1>8, <1>11, <2>1, <3>1
    <3>2. CASE i # File
      <4>1. i \in Live(c) /\ j \in c[i].subs
        BY <1>11, <1>13, <2>1, <3>2
      <4>2. j \in Live(c) /\ c[j].parent = i
        BY <4>1 DEF Tree, Links
      <4>3. j \notin top
        BY <1>1, <1>5, <4>1, <4>2
      <4> QED
        BY <1>11, <1>13, <4>2, <4>3
    <3> QED
      BY <3>1, <3>2
  <2>2. ASSUME NEW i \in Live(d), d[i].parent # None
        PROVE  d[i].parent \in Live(d) /\ i \in d[d[i].parent].subs
    <3>1. i \in Live(c)
      BY <1>7, <1>11, <2>2
    <3>2. CASE i \in top
      BY <1>7, <1>8, <1>11, <3>2
    <3>3. CASE i \notin top
      <4>1. c[i].parent \in Live(c) /\ i \in c[c[i].parent].subs /\ d[i].parent = c[i].parent
        BY <1>6, <1>13, <3>1, <3>3 DEF Tree, Links
      <4> QED
        BY <1>11, <1>13, <4>1
    <3> QED
      BY <3>2, <3>3
  <2> QED
    BY <2>1, <2>2 DEF Links
<1>15. ASSUME NEW U \in SUBSET Live(d), U # {}
       PROVE  \E i \in U : d[i].parent \notin U
  <2>1. None \notin U
    BY <1>1, <1>11
  <2>2. CASE File \in U
    BY <1>7, <2>1, <2>2
  <2>3. CASE File \notin U
    <3>1. U \in SUBSET Live(c)
      BY <1>11, <2>3
    <3>2. PICK i \in U : c[i].parent \notin U
      BY <1>15, <3>1 DEF Tree, Grounded
    <3> QED
      BY <1>13, <2>3, <3>1, <3>2
  <2> QED
    BY <2>2, <2>3
<1>16. Tree(d)
  BY <1>14, <1>15 DEF Tree, Grounded
<1> QED
  BY <1>3, <1>7, <1>11, <1>12, <1>13, <1>16 DEF d

-----------------------------------------------------------------------------
(* The trees of all contexts, at every step of a request                   *)

Moved(k) == IF k = target THEN moved ELSE {}
\* New subclusters have no parent until their cluster is filled.
TreesOK ==
  \A k \in Contexts :
    /\ Tree(cluster[k]) /\ RootKnown(cluster[k])
    /\ roots[k] = Tops(cluster[k]) \ Moved(k)
FillOK ==
  IF pc = "fill"
  THEN /\ splitting \in Live(Here)
       /\ \A y \in moved :
            /\ y \in Live(Here) /\ y # splitting
            /\ y \in Here[splitting].subs \/ (Here[y].parent = None /\ Here[y].subs = {})
       /\ Range(notFull) \cup Range(full) \subseteq Here[splitting].subs \cup moved
  ELSE splitting = None /\ moved = {}
StagesOK ==
  IF pc \in {"split", "fill"} THEN toSplit \cup results \subseteq Live(Here)
  ELSE toSplit = {} /\ results = {}
RemoveOK == IF pc = "remove" THEN lost \in Live(Here) \cup {None} ELSE lost = None
CopyOK == pc = "collapse" => Copies(Copy) /\ Tree(Copy) /\ todo \subseteq Live(Copy)

TreeInv == TypeOK /\ TreesOK /\ FillOK /\ StagesOK /\ RemoveOK /\ CopyOK

LEMMA HereIs ==
  ASSUME TypeOK, NEW k \in Contexts
  PROVE  /\ Clusters(cluster[k], Ids) /\ Clusters(view[k], Copied)
         /\ cluster[k] \in [Ids -> Cluster \cup {None}]
         /\ Live(cluster[k]) \subseteq Ids /\ None \notin Live(cluster[k])
         /\ \A i \in Live(cluster[k]) :
              /\ cluster[k][i] \in Cluster
              /\ cluster[k][i].members \subseteq Entities /\ cluster[k][i].subs \subseteq Ids
<1>1. Clusters(cluster[k], Ids) /\ Clusters(view[k], Copied)
  BY DEF TypeOK, Clusters, Named, Copied
<1>2. /\ Live(cluster[k]) \subseteq Ids
      /\ \A i \in Live(cluster[k]) : cluster[k][i] \in Cluster
  BY <1>1, LiveIs
<1> QED
  BY <1>1, <1>2, ContextTreeAssumption DEF Clusters, Cluster

\* Fresh ids are no cluster's.
LEMMA UnusedIs ==
  /\ Unused \subseteq Ids
  /\ \A k \in Contexts : Unused \cap Live(cluster[k]) = {}
<1> DEFINE used(k) == Mentioned(cluster[k]) \cup Mentioned(view[k])
           W == UNION {used(k) : k \in Contexts}
           rest1 == {home[e][o] : e \in Entities, o \in Objects}
<1>1. \A k \in Contexts : \A i \in Live(cluster[k]) : i \in used(k)
  BY DEF Mentioned
<1>2. Unused = Ids \ (W \cup rest1 \cup ancestors)
  BY DEF Unused
<1> HIDE DEF used, rest1
<1>3. \A k \in Contexts : \A i \in Live(cluster[k]) : i \in W
  BY <1>1
<1> HIDE DEF W
<1> QED
  BY <1>2, <1>3

LEMMA FreshIs ==
  ASSUME NEW S, CanMake(S)
  PROVE  FreshFor(S) \in [S -> Unused]
BY DEF CanMake, FreshFor

LEMMA DestinationsAre ==
  ASSUME NEW c, NEW s, NEW E, NEW earlier, NEW d \in Destinations(c, s, E, earlier)
  PROVE  LET keys == {Key[s][e] : e \in E} IN
         d \in [keys -> Ids] /\ \A v \in keys : d[v] \in earlier \cup Unused
<1> DEFINE keys == {Key[s][e] : e \in E}
           match == [v \in keys |-> {x \in earlier : v \in KeysOf(c, s, x)}]
           unmatched == {v \in keys : match[v] = {}}
           made == FreshFor(unmatched)
<1>1. /\ d \in [keys -> Ids] /\ CanMake(unmatched)
      /\ \A v \in keys : IF match[v] = {} THEN d[v] = made[v] ELSE d[v] \in match[v]
  BY DEF Destinations
<1>2. \A v \in keys : match[v] \subseteq earlier
  OBVIOUS
<1>3. \A v \in keys : match[v] = {} <=> v \in unmatched
  OBVIOUS
<1> HIDE DEF match, unmatched, made
<1>4. made \in [unmatched -> Unused]
  BY <1>1, FreshIs DEF made
<1> QED
  BY <1>1, <1>2, <1>3, <1>4

\* Where the accounts E go, by their buckets.
LEMMA GoingTo ==
  ASSUME NEW c, NEW s, NEW E, NEW earlier, NEW d \in Destinations(c, s, E, earlier)
  PROVE  LET to == [e \in E |-> d[Key[s][e]]] IN
         to \in [E -> Ids] /\ Range(to) = Range(d) /\ Range(to) \subseteq earlier \cup Unused
<1> DEFINE keys == {Key[s][e] : e \in E}
           to == [e \in E |-> d[Key[s][e]]]
<1>1. d \in [keys -> Ids] /\ \A v \in keys : d[v] \in earlier \cup Unused
  BY DestinationsAre
<1>2. \A e \in E : Key[s][e] \in keys
  OBVIOUS
<1>3. \A v \in keys : \E e \in E : v = Key[s][e]
  OBVIOUS
<1> HIDE DEF keys
<1> QED
  BY <1>1, <1>2, <1>3 DEF Range

LEMMA CopyIs ==
  ASSUME NEW c, Clusters(c, Ids)
  PROVE  LET d == [i \in Ids \cup {File} |-> IF i = File THEN None ELSE c[i]] IN
         /\ Copies(d) /\ Live(d) = Live(c) /\ (\A i \in Live(c) : d[i] = c[i])
         /\ Tree(c) => Tree(d)
<1> DEFINE d == [i \in Ids \cup {File} |-> IF i = File THEN None ELSE c[i]]
<1>1. c \in [Ids -> Cluster \cup {None}] /\ File \notin Ids /\ File \in Ids \cup {File}
  BY ContextTreeAssumption DEF Clusters
<1>2. d \in [Copied -> Cluster \cup {None}] /\ d[File] = None /\ \A i \in Ids : d[i] = c[i]
  BY <1>1 DEF Copied
<1> HIDE DEF d
<1>3. Copies(d)
  BY <1>2 DEF Copies, Clusters, Named, Copied
<1>4. Live(d) = Live(c)
  BY <1>1, <1>2 DEF Live, Copied
<1>5. \A i \in Live(c) : d[i] = c[i]
  BY <1>1, <1>2 DEF Live
<1>6. Tree(c) => Tree(d)
  BY <1>4, <1>5, SameTree DEF Tree
<1> QED
  BY <1>3, <1>4, <1>5, <1>6 DEF d

LEMMA InitStages == LastStage \in Nat
BY ContextTreeAssumption, FS_CardinalityType DEF LastStage

LEMMA InitTree == Init => TreeInv
<1> SUFFICES ASSUME Init
             PROVE  TreeInv
  OBVIOUS
<1>1. \A k \in Contexts : Live(cluster[k]) = {} /\ roots[k] = {}
  BY DEF Init, NoClusters, Live
<1>2. TreesOK
  BY <1>1 DEF TreesOK, Tree, Links, Grounded, RootKnown, Tops
<1>3. FillOK /\ StagesOK /\ RemoveOK /\ CopyOK
  BY DEF Init, FillOK, StagesOK, RemoveOK, CopyOK
<1>4. TypeOK
  <2>1. /\ object \in [Contexts -> [Entities -> Objects \cup {None}]]
        /\ home \in [Entities -> [Objects -> Ids \cup {None}]]
        /\ cluster \in [Contexts -> [Ids -> Cluster \cup {None}]]
        /\ roots \in [Contexts -> SUBSET Ids]
        /\ view \in [Contexts -> [Ids \cup {File} -> Cluster \cup {None}]]
    BY DEF Init, NoClusters
  <2>2. LastStage \in Nat
    BY InitStages
  <2>3. stage \in 0..LastStage /\ candidate \in 1..MaxSize /\ requests \in 0..MaxRequests
    BY <2>2, ContextTreeAssumption DEF Init
  <2>4. notFull \in Seq(Ids) /\ full \in Seq(Ids)
    BY DEF Init
  <2>5. /\ pc \in Steps /\ target \in Contexts /\ removes \in BOOLEAN
        /\ modified \subseteq Ids /\ toSplit \subseteq Ids /\ results \subseteq Ids
        /\ splitting \in Ids \cup {None} /\ rest \subseteq Entities /\ moved \subseteq Ids
        /\ todo \subseteq Ids \cup Entities /\ lost \in Ids \cup {None}
        /\ ancestors \subseteq Ids /\ entities \subseteq Entities
    BY DEF Init, Steps
  <2> QED
    BY <2>1, <2>3, <2>4, <2>5 DEF TypeOK
<1> QED
  BY <1>2, <1>3, <1>4 DEF TreeInv

\* A step that changes no cluster.
LEMMA TreesKept ==
  ASSUME TypeOK, TreesOK, cluster' = cluster, roots' = roots,
         moved = {}, moved' = {} \/ (target' = target /\ moved' = moved)
  PROVE  TreesOK'
<1>1. \A k \in Contexts : Moved(k) = {} /\ Moved(k)' = {}
  BY DEF Moved
<1> QED
  BY <1>1 DEF TreesOK

\* The clusters of one context change.
LEMMA ClusterChanged ==
  ASSUME TypeOK, NEW k \in Contexts, NEW c, Clusters(c, Ids), cluster' = [cluster EXCEPT ![k] = c]
  PROVE  /\ cluster' \in [Contexts -> [Ids -> Cluster \cup {None}]]
         /\ cluster'[k] = c /\ \A j \in Contexts \ {k} : cluster'[j] = cluster[j]
BY DEF TypeOK, Clusters

LEMMA TreesChanged ==
  ASSUME TypeOK, TreesOK, NEW k \in Contexts, NEW c, Clusters(c, Ids), NEW R,
         cluster' = [cluster EXCEPT ![k] = c], roots' = [roots EXCEPT ![k] = R],
         target' = k, target = k \/ moved = {},
         Tree(c), RootKnown(c), R = Tops(c) \ moved'
  PROVE  TreesOK'
<1>1. cluster'[k] = c /\ \A j \in Contexts \ {k} : cluster'[j] = cluster[j]
  BY ClusterChanged
<1>2. roots'[k] = R /\ \A j \in Contexts \ {k} : roots'[j] = roots[j]
  BY DEF TypeOK
<1>3. Moved(k)' = moved' /\ \A j \in Contexts \ {k} : Moved(j) = {} /\ Moved(j)' = {}
  BY DEF Moved
<1>4. ASSUME NEW j \in Contexts
      PROVE  Tree(cluster'[j]) /\ RootKnown(cluster'[j]) /\ roots'[j] = Tops(cluster'[j]) \ Moved(j)'
  <2>1. CASE j = k
    BY <1>1, <1>2, <1>3, <2>1
  <2>2. CASE j # k
    <3>1. cluster'[j] = cluster[j] /\ roots'[j] = roots[j] /\ Moved(j) = {} /\ Moved(j)' = {}
      BY <1>1, <1>2, <1>3, <2>2
    <3>2. Tree(cluster[j]) /\ RootKnown(cluster[j]) /\ roots[j] = Tops(cluster[j]) \ Moved(j)
      BY DEF TreesOK
    <3> QED
      BY <3>1, <3>2
  <2> QED
    BY <2>1, <2>2
<1> QED
  BY <1>4 DEF TreesOK

\* A request goes on to the collapse.
LEMMA CollapseStarts ==
  ASSUME TypeOK, NEW k \in Contexts, NEW c, Clusters(c, Ids), Tree(c), StartCollapse(k, c), target' = k
  PROVE  /\ cluster' = [cluster EXCEPT ![k] = c]
         /\ cluster' \in [Contexts -> [Ids -> Cluster \cup {None}]]
         /\ view' \in [Contexts -> [Ids \cup {File} -> Cluster \cup {None}]]
         /\ pc' = "collapse" /\ todo' = Live(c) /\ todo' \subseteq Ids /\ entities' = {}
         /\ CopyOK'
<1> DEFINE d == [i \in Ids \cup {File} |-> IF i = File THEN None ELSE c[i]]
<1>1. /\ cluster' = [cluster EXCEPT ![k] = c] /\ view' = [view EXCEPT ![k] = d]
      /\ pc' = "collapse" /\ todo' = Live(c) /\ entities' = {}
  BY DEF StartCollapse, Go
<1>2. Copies(d) /\ Live(d) = Live(c) /\ Tree(d)
  BY CopyIs
<1> HIDE DEF d
<1>3. d \in [Ids \cup {File} -> Cluster \cup {None}]
  BY <1>2 DEF Copies, Clusters, Copied
<1>4. view' \in [Contexts -> [Ids \cup {File} -> Cluster \cup {None}]] /\ view'[k] = d
  BY <1>1, <1>3 DEF TypeOK
<1>5. cluster' \in [Contexts -> [Ids -> Cluster \cup {None}]]
  BY <1>1, ClusterChanged
<1>6. Live(c) \subseteq Ids
  BY LiveIs
<1>7. Copy' = d
  BY <1>4 DEF Copy
<1>8. CopyOK'
  BY <1>1, <1>2, <1>7 DEF CopyOK
<1> QED
  BY <1>1, <1>4, <1>5, <1>6, <1>8

LEMMA RehomedIs ==
  ASSUME TypeOK, NEW k, NEW E, NEW to \in [E -> Ids], home' = Rehomed(k, to)
  PROVE  home' \in [Entities -> [Objects -> Ids \cup {None}]]
BY DEF TypeOK, Rehomed

LEMMA RootsUnchanged ==
  ASSUME TypeOK, NEW k \in Contexts, UNCHANGED roots
  PROVE  roots' = [roots EXCEPT ![k] = roots[k]]
BY DEF TypeOK

-----------------------------------------------------------------------------
(* The steps of an insertion                                               *)

LEMMA InsertTree ==
  ASSUME TreeInv, NEW k \in Contexts, NEW E \in SUBSET Entities, NEW objects \in [E -> Objects],
         Insert(k, objects)
  PROVE  TreeInv'
<1> DEFINE new == NewTo(k, E)
           old == cluster[k]
<1>1. /\ pc = "idle" /\ requests' \in 0..MaxRequests /\ target' = k /\ removes' = FALSE
      /\ splitting = None /\ moved = {} /\ toSplit = {} /\ results = {} /\ lost = None
  <2>1. pc = "idle" /\ target' = k /\ removes' = FALSE /\ requests' = requests + 1 /\ requests < MaxRequests
    BY DEF Insert, Request
  <2>2. MaxRequests \in Nat /\ requests \in 0..MaxRequests
    BY ContextTreeAssumption DEF TreeInv, TypeOK
  <2> QED
    BY <2>1, <2>2 DEF TreeInv, FillOK, StagesOK, RemoveOK
<1>2. /\ TypeOK /\ TreesOK /\ Clusters(old, Ids) /\ Tree(old) /\ RootKnown(old)
      /\ roots[k] = Tops(old)
  <2>1. Moved(k) = {}
    BY <1>1 DEF Moved
  <2> QED
    BY <2>1, HereIs DEF TreeInv, TreesOK
<1>3. object' \in [Contexts -> [Entities -> Objects \cup {None}]]
  <2>1. DOMAIN objects = E /\ new \subseteq E
    BY DEF NewTo
  <2>2. object' = [object EXCEPT ![k] = [e \in Entities |-> IF e \in new THEN objects[e] ELSE @[e]]]
    BY <2>1 DEF Insert
  <2>3. [e \in Entities |-> IF e \in new THEN objects[e] ELSE object[k][e]]
          \in [Entities -> Objects \cup {None}]
    BY <1>2, <2>1 DEF TypeOK
  <2> QED
    BY <1>2, <2>2, <2>3 DEF TypeOK
<1>4. ancestors' = {} /\ UNCHANGED <<lost, fillVars>> /\ DOMAIN objects = E
  BY DEF Insert
<1>5. ASSUME StartCollapse(k, old), UNCHANGED <<home, roots, stageVars>>
      PROVE  TreeInv'
  <2>1. /\ cluster' = [cluster EXCEPT ![k] = old]
        /\ cluster' \in [Contexts -> [Ids -> Cluster \cup {None}]]
        /\ view' \in [Contexts -> [Ids \cup {File} -> Cluster \cup {None}]]
        /\ pc' = "collapse" /\ todo' \subseteq Ids /\ entities' = {}
        /\ CopyOK'
    BY <1>1, <1>2, <1>5, CollapseStarts
  <2>2. cluster' = cluster
    BY <1>2, <2>1 DEF TypeOK
  <2>3. TypeOK'
    BY <1>1, <1>2, <1>3, <1>4, <1>5, <2>1 DEF TypeOK, Steps, stageVars, fillVars
  <2>4. TreesOK'
    BY <1>1, <1>2, <1>4, <1>5, <2>2, TreesKept DEF fillVars
  <2>5. FillOK' /\ StagesOK' /\ RemoveOK'
    BY <1>1, <1>4, <1>5, <2>1 DEF FillOK, StagesOK, RemoveOK, stageVars, fillVars
  <2> QED
    BY <2>1, <2>3, <2>4, <2>5 DEF TreeInv
<1>6. ASSUME NEW d \in Destinations(old, 0, new, roots[k]),
             cluster' = [cluster EXCEPT ![k] = Joined(old, [e \in new |-> d[Key[0][e]]])],
             home' = Rehomed(k, [e \in new |-> d[Key[0][e]]]),
             roots' = [roots EXCEPT ![k] = @ \cup Range(d)],
             modified' = Range(d), results' = Range(d), stage' = 0, toSplit' = {}, pc' = "split",
             UNCHANGED <<view, todo, entities>>
      PROVE  TreeInv'
  <2> DEFINE to == [e \in new |-> d[Key[0][e]]]
             c == Joined(old, to)
  <2>1. to \in [new -> Ids] /\ Range(to) = Range(d) /\ Range(to) \subseteq roots[k] \cup Unused
    BY GoingTo
  <2>2. new \in SUBSET Entities
    BY DEF NewTo
  <2>3. cluster' = [cluster EXCEPT ![k] = c] /\ home' = Rehomed(k, to)
    BY <1>6
  <2> HIDE DEF to, new, old
  <2>4. Clusters(c, Ids) /\ Live(c) = Live(old) \cup Range(to)
    BY <1>2, <2>1, <2>2, JoinedIs
  <2>5. Tree(c) /\ RootKnown(c) /\ Tops(c) = Tops(old) \cup (Range(to) \ Live(old))
    BY <1>2, <2>1, <2>2, JoinedTree
  <2> HIDE DEF c
  <2>6. cluster' \in [Contexts -> [Ids -> Cluster \cup {None}]] /\ cluster'[k] = c
    BY <1>2, <2>3, <2>4, ClusterChanged
  <2>7. home' \in [Entities -> [Objects -> Ids \cup {None}]]
    BY <1>2, <2>1, <2>3, RehomedIs
  <2>8. Range(d) \subseteq Ids /\ Range(d) \subseteq Live(c)
    BY <2>1, <2>4 DEF Range
  <2>9. roots[k] \cup Range(d) = Tops(c) \ moved'
    <3>1. Unused \cap Live(old) = {}
      BY UnusedIs DEF old
    <3> QED
      BY <1>1, <1>2, <1>4, <2>1, <2>5, <3>1 DEF fillVars, Tops
  <2>10. roots' = [roots EXCEPT ![k] = roots[k] \cup Range(d)]
    BY <1>6
  <2>11. TypeOK'
    <3>1. roots' \in [Contexts -> SUBSET Ids]
      BY <1>2, <2>8, <2>10 DEF TypeOK
    <3>2. 0 \in 0..LastStage
      BY InitStages
    <3> QED
      BY <1>1, <1>2, <1>3, <1>4, <1>6, <2>6, <2>7, <2>8, <3>1, <3>2
      DEF TypeOK, Steps, fillVars
  <2>12. TreesOK'
    BY <1>1, <1>2, <1>4, <2>3, <2>4, <2>5, <2>9, <2>10, TreesChanged
  <2>13. FillOK' /\ StagesOK' /\ RemoveOK' /\ CopyOK'
    BY <1>1, <1>4, <1>6, <2>6, <2>8 DEF FillOK, StagesOK, RemoveOK, CopyOK, Here, fillVars
  <2> QED
    BY <2>11, <2>12, <2>13 DEF TreeInv
<1> QED
  BY <1>4, <1>5, <1>6 DEF Insert, Go

LEMMA InsertAccountsTree ==
  ASSUME TreeInv, NEW k \in Contexts, NEW E \in Batches, InsertAccounts(k, E)
  PROVE  TreeInv'
<1>1. PICK o \in [E -> Objects] : Insert(k, o)
  BY DEF InsertAccounts
<1>2. E \in SUBSET Entities
  BY ContextTreeAssumption
<1> QED
  BY <1>1, <1>2, InsertTree

\* Inserting a cluster inserts accounts.
LEMMA ClusterInserted ==
  ASSUME TreeInv, NEW k \in Contexts, NEW j \in Sources[k], NEW x, InsertCluster(k, j, x)
  PROVE  \E E \in SUBSET Entities : \E o \in [E -> Objects] : Insert(k, o)
<1> DEFINE E == AccountsBelow(view[j], x) \cap Present(j)
<1>1. j \in Contexts
  BY ContextTreeAssumption
<1>2. E \in SUBSET Entities /\ \A e \in E : object[j][e] \in Objects
  BY <1>1 DEF Present, TreeInv, TypeOK
<1>3. Insert(k, [e \in E |-> object[j][e]])
  BY DEF InsertCluster
<1> HIDE DEF E
<1>4. [e \in E |-> object[j][e]] \in [E -> Objects]
  BY <1>2
<1> QED
  BY <1>2, <1>3, <1>4

LEMMA InsertClusterTree ==
  ASSUME TreeInv, NEW k \in Contexts, NEW j \in Sources[k], NEW x, InsertCluster(k, j, x)
  PROVE  TreeInv'
BY ClusterInserted, InsertTree

\* While a stage splits clusters, none is being filled.
LEMMA SplittingIs ==
  ASSUME TreeInv, pc = "split"
  PROVE  /\ TypeOK /\ TreesOK /\ target \in Contexts
         /\ splitting = None /\ moved = {} /\ lost = None /\ toSplit \cup results \subseteq Live(Here)
         /\ Clusters(Here, Ids) /\ Tree(Here) /\ RootKnown(Here) /\ roots[target] = Tops(Here)
<1>1. TypeOK /\ TreesOK /\ target \in Contexts
  BY DEF TreeInv, TypeOK
<1>2. splitting = None /\ moved = {} /\ lost = None /\ toSplit \cup results \subseteq Live(Here)
  BY DEF TreeInv, FillOK, StagesOK, RemoveOK
<1>3. Clusters(Here, Ids)
  BY <1>1, HereIs DEF Here
<1>4. Tree(Here) /\ RootKnown(Here) /\ roots[target] = Tops(Here)
  <2>1. Moved(target) = {}
    BY <1>2 DEF Moved
  <2> QED
    BY <1>1, <2>1 DEF TreesOK, Here
<1> QED
  BY <1>1, <1>2, <1>3, <1>4

\* What splitting x by the buckets of its members makes of a tree.
LEMMA SplitIs ==
  ASSUME NEW c, Clusters(c, Ids), Tree(c), RootKnown(c), NEW x \in Live(c), x \notin Unused,
         Unused \cap Live(c) = {},
         NEW E \in SUBSET Entities, NEW to \in [E -> Ids], Range(to) \subseteq c[x].subs \cup Unused
  PROVE  LET d == Adopted(Joined(c, to), x, Range(to)) IN
         /\ Clusters(d, Ids) /\ Live(d) = Live(c) \cup Range(to)
         /\ Tree(d) /\ RootKnown(d) /\ Tops(d) = Tops(c)
<1> DEFINE j == Joined(c, to)
           S == Range(to)
           d == Adopted(j, x, S)
<1>1. /\ Clusters(j, Ids) /\ Live(j) = Live(c) \cup S /\ j[x].subs = c[x].subs
      /\ \A i \in Live(j) \ Live(c) : j[i].parent = None /\ j[i].subs = {}
  BY JoinedIs
<1>2. Tree(j) /\ RootKnown(j) /\ Tops(j) = Tops(c) \cup (S \ Live(c))
  BY JoinedTree
<1>3. x \notin c[x].subs
  BY NotOwnParent
<1>4. \A y \in c[x].subs : y \in Live(c) /\ c[y].parent = x
  BY DEF Tree, Links
<1>5. x # None
  BY LiveIs, ContextTreeAssumption
<1> HIDE DEF j, S
<1>6. S \subseteq c[x].subs \cup Unused
  BY DEF S
<1>7. x \in Live(j) /\ S \in SUBSET Live(j) /\ x \notin S
  BY <1>1, <1>3, <1>6
<1>8. \A y \in S : y \in j[x].subs \/ (j[y].parent = None /\ j[y].subs = {})
  BY <1>1, <1>6
<1>9. Clusters(d, Ids) /\ Live(d) = Live(j)
  BY <1>1, <1>7, AdoptedIs
<1>10. Tree(d) /\ RootKnown(d) /\ Tops(d) = Tops(j) \ S
  BY <1>1, <1>2, <1>7, <1>8, AdoptedTree
<1>11. Tops(c) \cap S = {}
  BY <1>4, <1>5, <1>6 DEF Tops
<1>12. Tops(d) = Tops(c)
  BY <1>2, <1>10, <1>11
<1> QED
  BY <1>1, <1>9, <1>10, <1>12 DEF d, j, S

LEMMA SplitTree ==
  ASSUME TreeInv, NEW x \in Ids, Split(x)
  PROVE  TreeInv'
<1> DEFINE E == Here[x].members
<1>1. /\ pc = "split" /\ x \in toSplit /\ toSplit' = LeftToSplit(x)
      /\ UNCHANGED <<object, roots, view, pc, requestVars, stage, modified, fillVars, walkVars>>
  BY DEF Split
<1>2. PICK d \in Destinations(Here, stage, E, Here[x].subs) :
        LET to == [e \in E |-> d[Key[stage][e]]] IN
        /\ cluster' = [cluster EXCEPT ![target] = Adopted(Joined(Here, to), x, Range(d))]
        /\ home' = Rehomed(target, to)
        /\ results' = results \cup Range(d)
  BY DEF Split
<1> DEFINE to == [e \in E |-> d[Key[stage][e]]]
           S == Range(to)
           c == Adopted(Joined(Here, to), x, S)
<1>3. to \in [E -> Ids] /\ S = Range(d) /\ S \subseteq Here[x].subs \cup Unused
  BY GoingTo
<1>4. cluster' = [cluster EXCEPT ![target] = c] /\ home' = Rehomed(target, to) /\ results' = results \cup S
  BY <1>2, <1>3
<1> HIDE DEF to
<1>5. /\ TypeOK /\ TreesOK /\ target \in Contexts
      /\ splitting = None /\ moved = {} /\ lost = None /\ toSplit \cup results \subseteq Live(Here)
      /\ Clusters(Here, Ids) /\ Tree(Here) /\ RootKnown(Here) /\ roots[target] = Tops(Here)
  BY <1>1, SplittingIs
<1>6. x \in Live(Here) /\ E \in SUBSET Entities
  BY <1>1, <1>5, HereIs DEF Here
<1>7. x \notin Unused /\ Unused \cap Live(Here) = {}
  BY <1>5, <1>6, UnusedIs DEF Here
<1> HIDE DEF E
<1>8. /\ Clusters(c, Ids) /\ Live(c) = Live(Here) \cup S
      /\ Tree(c) /\ RootKnown(c) /\ Tops(c) = Tops(Here)
  BY <1>3, <1>5, <1>6, <1>7, SplitIs
<1>9. S \subseteq Ids
  BY <1>3 DEF Range
<1> HIDE DEF S, c
<1>10. cluster' \in [Contexts -> [Ids -> Cluster \cup {None}]] /\ cluster'[target] = c
  BY <1>4, <1>5, <1>8, ClusterChanged
<1>11. home' \in [Entities -> [Objects -> Ids \cup {None}]]
  BY <1>3, <1>4, <1>5, RehomedIs
<1>12. TypeOK'
  BY <1>1, <1>4, <1>5, <1>9, <1>10, <1>11
  DEF TypeOK, LeftToSplit, requestVars, fillVars, walkVars
<1>13. TreesOK'
  <2>1. roots' = [roots EXCEPT ![target] = roots[target]]
    BY <1>1, <1>5, RootsUnchanged
  <2>2. roots[target] = Tops(c) \ moved'
    BY <1>1, <1>5, <1>8 DEF fillVars
  <2>3. target' = target
    BY <1>1 DEF requestVars
  <2> QED
    BY <1>4, <1>5, <1>8, <2>1, <2>2, <2>3, TreesChanged
<1>14. Here' = c
  BY <1>1, <1>10 DEF Here, requestVars
<1>15. FillOK' /\ StagesOK' /\ RemoveOK' /\ CopyOK'
  BY <1>1, <1>4, <1>5, <1>8, <1>14
  DEF FillOK, StagesOK, RemoveOK, CopyOK, LeftToSplit, fillVars, walkVars
<1> QED
  BY <1>12, <1>13, <1>15 DEF TreeInv

\* A list of the elements of a set of ids.
LEMMA ListIs ==
  ASSUME NEW S \in SUBSET Ids, NEW q \in SetToSeqs(S)
  PROVE  q \in Seq(Ids) /\ Range(q) \subseteq S
<1>1. IsFiniteSet(S) /\ Cardinality(S) \in Nat
  BY ContextTreeAssumption, FS_Subset, FS_CardinalityType
<1>2. q \in [1..Cardinality(S) -> S]
  BY DEF SetToSeqs
<1>3. q \in Seq(S)
  BY <1>1, <1>2
<1>4. q \in Seq(Ids)
  BY <1>3
<1> QED
  BY <1>2, <1>4 DEF Range

LEMMA StartFillTree ==
  ASSUME TreeInv, NEW x \in Ids, StartFill(x)
  PROVE  TreeInv'
<1> DEFINE N == {y \in Here[x].subs : ~IsFull(Here, y)}
           F == {y \in Here[x].subs : IsFull(Here, y)}
<1>1. /\ pc = "split" /\ x \in toSplit /\ toSplit' = LeftToSplit(x) /\ pc' = "fill"
      /\ splitting' = x /\ rest' = Here[x].members /\ moved' = {} /\ candidate' = 1
      /\ notFull' \in SetToSeqs(N) /\ full' \in SetToSeqs(F)
      /\ UNCHANGED <<dataVars, requestVars, stage, modified, results, walkVars>>
  BY DEF StartFill, Go
<1>2. /\ TypeOK /\ TreesOK /\ target \in Contexts
      /\ splitting = None /\ moved = {} /\ lost = None /\ toSplit \cup results \subseteq Live(Here)
      /\ Clusters(Here, Ids)
  BY <1>1, SplittingIs
<1>3. x \in Live(Here) /\ Here[x].members \subseteq Entities /\ Here[x].subs \subseteq Ids
  BY <1>1, <1>2, HereIs DEF Here
<1>4. N \in SUBSET Ids /\ F \in SUBSET Ids /\ N \subseteq Here[x].subs /\ F \subseteq Here[x].subs
  BY <1>3
<1> HIDE DEF N, F
<1>5. /\ notFull' \in Seq(Ids) /\ Range(notFull') \subseteq N
      /\ full' \in Seq(Ids) /\ Range(full') \subseteq F
  BY <1>1, <1>4, ListIs
<1>6. TypeOK'
  <2>1. candidate' \in 1..MaxSize
    BY <1>1, ContextTreeAssumption
  <2> QED
    BY <1>1, <1>2, <1>3, <1>5, <2>1
    DEF TypeOK, Steps, LeftToSplit, dataVars, requestVars, walkVars
<1>7. TreesOK'
  BY <1>1, <1>2, TreesKept DEF dataVars
<1>8. Here' = Here
  BY <1>1 DEF Here, dataVars, requestVars
<1>9. FillOK' /\ StagesOK' /\ RemoveOK' /\ CopyOK'
  <2>1. /\ toSplit' \cup results' \subseteq Live(Here) /\ lost' = None
        /\ Range(notFull') \cup Range(full') \subseteq Here[x].subs
    BY <1>1, <1>2, <1>4, <1>5 DEF LeftToSplit, walkVars
  <2> QED
    BY <1>1, <1>3, <1>8, <2>1 DEF FillOK, StagesOK, RemoveOK, CopyOK
<1> QED
  BY <1>6, <1>7, <1>9 DEF TreeInv

\* While a cluster is filled.
LEMMA FillingIs ==
  ASSUME TreeInv, pc = "fill"
  PROVE  /\ TypeOK /\ TreesOK /\ target \in Contexts
         /\ lost = None /\ toSplit \cup results \subseteq Live(Here)
         /\ splitting \in Live(Here) /\ moved \subseteq Live(Here) /\ splitting \notin moved
         /\ \A y \in moved : y \in Here[splitting].subs \/ (Here[y].parent = None /\ Here[y].subs = {})
         /\ Range(notFull) \cup Range(full) \subseteq Here[splitting].subs \cup moved
         /\ Clusters(Here, Ids) /\ Tree(Here) /\ RootKnown(Here)
         /\ roots[target] = Tops(Here) \ moved
<1>1. TypeOK /\ TreesOK /\ target \in Contexts
  BY DEF TreeInv, TypeOK
<1>2. lost = None /\ toSplit \cup results \subseteq Live(Here)
  BY DEF TreeInv, StagesOK, RemoveOK
<1>3. /\ splitting \in Live(Here) /\ moved \subseteq Live(Here) /\ splitting \notin moved
      /\ \A y \in moved : y \in Here[splitting].subs \/ (Here[y].parent = None /\ Here[y].subs = {})
      /\ Range(notFull) \cup Range(full) \subseteq Here[splitting].subs \cup moved
  BY DEF TreeInv, FillOK
<1>4. Clusters(Here, Ids)
  BY <1>1, HereIs DEF Here
<1>5. Tree(Here) /\ RootKnown(Here) /\ roots[target] = Tops(Here) \ moved
  BY <1>1 DEF TreesOK, Here, Moved
<1> QED
  BY <1>1, <1>2, <1>3, <1>4, <1>5

LEMMA MoveTree ==
  ASSUME TreeInv, NEW e \in Entities, NEW y \in Here[splitting].subs \cup moved \cup Unused,
         Move(e, y),
         notFull' \in Seq(Ids), full' \in Seq(Ids), candidate' \in 1..MaxSize,
         Range(notFull') \cup Range(full') \subseteq Here[splitting].subs \cup moved \cup {y}
  PROVE  TreeInv'
<1> DEFINE to == [a \in {e} |-> y]
           c == Joined(Here, to)
<1>1. /\ pc = "fill" /\ rest' = rest \ {e} /\ moved' = moved \cup {y}
      /\ cluster' = [cluster EXCEPT ![target] = c] /\ home' = Rehomed(target, to)
      /\ UNCHANGED <<object, roots, view, pc, requestVars, stageVars, splitting, walkVars>>
  BY DEF Move
<1>2. /\ TypeOK /\ TreesOK /\ target \in Contexts
      /\ lost = None /\ toSplit \cup results \subseteq Live(Here)
      /\ splitting \in Live(Here) /\ moved \subseteq Live(Here) /\ splitting \notin moved
      /\ \A z \in moved : z \in Here[splitting].subs \/ (Here[z].parent = None /\ Here[z].subs = {})
      /\ Clusters(Here, Ids) /\ Tree(Here) /\ RootKnown(Here)
      /\ roots[target] = Tops(Here) \ moved
  BY <1>1, FillingIs
<1>3. /\ Here[splitting].subs \subseteq Live(Here) /\ splitting \notin Here[splitting].subs
      /\ \A z \in Here[splitting].subs : Here[z].parent = splitting
      /\ splitting # None
  BY <1>2, NotOwnParent, HereIs DEF Tree, Links, Here
<1>4. Unused \cap Live(Here) = {} /\ Live(Here) \subseteq Ids /\ Unused \subseteq Ids
  BY <1>2, UnusedIs, HereIs DEF Here
<1>5. to \in [{e} -> Ids] /\ Range(to) = {y} /\ {e} \in SUBSET Entities /\ y \in Ids /\ y # splitting
  BY <1>2, <1>3, <1>4 DEF Range
<1> HIDE DEF to
<1>6. /\ Clusters(c, Ids) /\ Live(c) = Live(Here) \cup {y}
      /\ \A i \in Live(Here) : c[i].parent = Here[i].parent /\ c[i].subs = Here[i].subs
      /\ \A i \in Live(c) \ Live(Here) : c[i].parent = None /\ c[i].subs = {}
  BY <1>2, <1>5, JoinedIs
<1>7. Tree(c) /\ RootKnown(c) /\ Tops(c) = Tops(Here) \cup ({y} \ Live(Here))
  BY <1>2, <1>5, JoinedTree
<1> HIDE DEF c
<1>8. cluster' \in [Contexts -> [Ids -> Cluster \cup {None}]] /\ cluster'[target] = c
  BY <1>1, <1>2, <1>6, ClusterChanged
<1>9. home' \in [Entities -> [Objects -> Ids \cup {None}]]
  BY <1>1, <1>2, <1>5, RehomedIs
<1>10. TypeOK'
  BY <1>1, <1>2, <1>5, <1>8, <1>9 DEF TypeOK, requestVars, stageVars, walkVars
<1>11. TreesOK'
  <2>1. roots' = [roots EXCEPT ![target] = roots[target]]
    BY <1>1, <1>2, RootsUnchanged
  <2>2. y \notin Tops(Here) \ moved
    BY <1>3, <1>4 DEF Tops
  <2>3. roots[target] = Tops(c) \ moved'
    BY <1>1, <1>2, <1>7, <2>2
  <2>4. target' = target
    BY <1>1 DEF requestVars
  <2> QED
    BY <1>1, <1>2, <1>6, <1>7, <2>1, <2>3, <2>4, TreesChanged
<1>12. Here' = c
  BY <1>1, <1>8 DEF Here, requestVars
<1>13. FillOK'
  <2>1. splitting' = splitting /\ pc' = "fill" /\ c[splitting].subs = Here[splitting].subs
    BY <1>1, <1>2, <1>6
  <2>2. ASSUME NEW z \in moved'
        PROVE  /\ z \in Live(c) /\ z # splitting
               /\ z \in c[splitting].subs \/ (c[z].parent = None /\ c[z].subs = {})
    <3>1. CASE z \in Live(Here)
      <4>1. z \in Here[splitting].subs \cup moved
        BY <1>1, <1>4, <2>2, <3>1
      <4> QED
        BY <1>2, <1>3, <1>6, <2>1, <3>1, <4>1
    <3>2. CASE z \notin Live(Here)
      BY <1>1, <1>2, <1>5, <1>6, <2>2, <3>2
    <3> QED
      BY <3>1, <3>2
  <2> QED
    BY <1>1, <1>2, <1>6, <1>12, <2>1, <2>2 DEF FillOK
<1>14. StagesOK' /\ RemoveOK' /\ CopyOK'
  BY <1>1, <1>2, <1>6, <1>12 DEF StagesOK, RemoveOK, CopyOK, stageVars, walkVars
<1> QED
  BY <1>10, <1>11, <1>13, <1>14 DEF TreeInv

LEMMA FillFirstTree ==
  ASSUME TreeInv, NEW e \in Entities, FillFirst(e)
  PROVE  TreeInv'
<1> DEFINE y == Head(notFull)
<1>1. notFull # <<>> /\ Move(e, y) /\ candidate' = candidate
  BY DEF FillFirst
<1>2. \/ notFull' = Tail(notFull) /\ full' = Append(full, y)
      \/ notFull' = notFull /\ full' = full
  BY DEF FillFirst
<1>3. pc = "fill"
  BY <1>1 DEF Move
<1>4. /\ notFull \in Seq(Ids) /\ full \in Seq(Ids) /\ candidate \in 1..MaxSize
      /\ Range(notFull) \cup Range(full) \subseteq Here[splitting].subs \cup moved
  BY <1>3, FillingIs DEF TypeOK
<1>5. y \in Range(notFull) /\ y \in Ids
  BY <1>1, <1>4 DEF Range
<1>6. Tail(notFull) \in Seq(Ids) /\ Range(Tail(notFull)) \subseteq Range(notFull)
  BY <1>1, <1>4 DEF Range
<1>7. Append(full, y) \in Seq(Ids) /\ Range(Append(full, y)) \subseteq Range(full) \cup {y}
  BY <1>4, <1>5 DEF Range
<1>8. /\ notFull' \in Seq(Ids) /\ full' \in Seq(Ids) /\ candidate' \in 1..MaxSize
      /\ Range(notFull') \cup Range(full') \subseteq Here[splitting].subs \cup moved \cup {y}
      /\ y \in Here[splitting].subs \cup moved \cup Unused
  BY <1>1, <1>2, <1>4, <1>5, <1>6, <1>7
<1> HIDE DEF y
<1> QED
  BY <1>1, <1>8, MoveTree

LEMMA FillNewTree ==
  ASSUME TreeInv, NEW e \in Entities, FillNew(e)
  PROVE  TreeInv'
<1> DEFINE y == FreshFor({e})[e]
<1>1. CanMake({e}) /\ Move(e, y) /\ notFull' = <<y>> /\ full' = full /\ candidate' = candidate
  BY DEF FillNew
<1>2. pc = "fill"
  BY <1>1 DEF Move
<1>3. /\ full \in Seq(Ids) /\ candidate \in 1..MaxSize
      /\ Range(full) \subseteq Here[splitting].subs \cup moved
  BY <1>2, FillingIs DEF TypeOK
<1>4. y \in Unused /\ y \in Ids
  BY <1>1, FreshIs, UnusedIs
<1>5. notFull' \in Seq(Ids) /\ Range(notFull') \subseteq {y}
  BY <1>1, <1>4 DEF Range
<1>6. y \in Here[splitting].subs \cup moved \cup Unused
  BY <1>4
<1>7. Range(notFull') \cup Range(full') \subseteq Here[splitting].subs \cup moved \cup {y}
  BY <1>1, <1>3, <1>5
<1> HIDE DEF y
<1> QED
  BY <1>1, <1>3, <1>5, <1>6, <1>7, MoveTree

LEMMA FillOverflowTree ==
  ASSUME TreeInv, NEW e \in Entities, FillOverflow(e)
  PROVE  TreeInv'
<1> DEFINE y == full[candidate]
<1>1. /\ Len(full) >= MaxSize /\ Move(e, y) /\ candidate' = (candidate % MaxSize) + 1
      /\ notFull' = notFull /\ full' = full
  BY DEF FillOverflow
<1>2. pc = "fill"
  BY <1>1 DEF Move
<1>3. /\ notFull \in Seq(Ids) /\ full \in Seq(Ids) /\ candidate \in 1..MaxSize
      /\ Range(notFull) \cup Range(full) \subseteq Here[splitting].subs \cup moved
  BY <1>2, FillingIs DEF TypeOK
<1>4. MaxSize \in Nat /\ MaxSize >= 2
  BY ContextTreeAssumption
<1>5. candidate \in 1..Len(full)
  BY <1>1, <1>3, <1>4
<1>6. y \in Range(full)
  BY <1>3, <1>5 DEF Range
<1>7. candidate' \in 1..MaxSize
  BY <1>1, <1>3, <1>4
<1>8. y \in Here[splitting].subs \cup moved \cup Unused
  BY <1>3, <1>6
<1>9. Range(notFull') \cup Range(full') \subseteq Here[splitting].subs \cup moved \cup {y}
  BY <1>1, <1>3
<1> HIDE DEF y
<1> QED
  BY <1>1, <1>3, <1>7, <1>8, <1>9, MoveTree

LEMMA EndFillTree ==
  ASSUME TreeInv, EndFill
  PROVE  TreeInv'
<1> DEFINE c == Adopted(Here, splitting, moved)
<1>1. /\ pc = "fill" /\ rest = {} /\ cluster' = [cluster EXCEPT ![target] = c]
      /\ results' = results \cup moved
      /\ splitting' = None /\ moved' = {} /\ notFull' = <<>> /\ full' = <<>> /\ pc' = "split"
      /\ UNCHANGED <<object, home, roots, view, requestVars, stage, modified, toSplit,
                     rest, candidate, walkVars>>
  BY DEF EndFill, Go
<1>2. /\ TypeOK /\ TreesOK /\ target \in Contexts
      /\ lost = None /\ toSplit \cup results \subseteq Live(Here)
      /\ splitting \in Live(Here) /\ moved \subseteq Live(Here) /\ splitting \notin moved
      /\ \A z \in moved : z \in Here[splitting].subs \/ (Here[z].parent = None /\ Here[z].subs = {})
      /\ Clusters(Here, Ids) /\ Tree(Here) /\ RootKnown(Here)
      /\ roots[target] = Tops(Here) \ moved
  BY <1>1, FillingIs
<1>3. Clusters(c, Ids) /\ Live(c) = Live(Here)
  BY <1>2, AdoptedIs
<1>4. Tree(c) /\ RootKnown(c) /\ Tops(c) = Tops(Here) \ moved
  BY <1>2, AdoptedTree
<1> HIDE DEF c
<1>5. cluster' \in [Contexts -> [Ids -> Cluster \cup {None}]] /\ cluster'[target] = c
  BY <1>1, <1>2, <1>3, ClusterChanged
<1>6. TypeOK'
  <2>1. notFull' \in Seq(Ids) /\ full' \in Seq(Ids) /\ moved \subseteq Ids
    BY <1>1, <1>2 DEF TypeOK
  <2> QED
    BY <1>1, <1>2, <1>5, <2>1 DEF TypeOK, Steps, requestVars, walkVars
<1>7. TreesOK'
  <2>1. roots' = [roots EXCEPT ![target] = roots[target]]
    BY <1>1, <1>2, RootsUnchanged
  <2>2. roots[target] = Tops(c) \ moved'
    BY <1>1, <1>2, <1>4
  <2>3. target' = target
    BY <1>1 DEF requestVars
  <2> QED
    BY <1>1, <1>2, <1>3, <1>4, <2>1, <2>2, <2>3, TreesChanged
<1>8. Here' = c
  BY <1>1, <1>5 DEF Here, requestVars
<1>9. FillOK' /\ StagesOK' /\ RemoveOK' /\ CopyOK'
  BY <1>1, <1>2, <1>3, <1>8 DEF FillOK, StagesOK, RemoveOK, CopyOK, walkVars
<1> QED
  BY <1>6, <1>7, <1>9 DEF TreeInv

LEMMA NextStageTree ==
  ASSUME TreeInv, NextStage
  PROVE  TreeInv'
<1>1. /\ pc = "split" /\ toSplit' = ToSplitNext /\ results' = {} /\ stage' = StageAfter
      /\ UNCHANGED <<dataVars, pc, requestVars, modified, fillVars, walkVars>>
  BY DEF NextStage
<1>2. /\ TypeOK /\ TreesOK /\ target \in Contexts
      /\ splitting = None /\ moved = {} /\ lost = None /\ toSplit \cup results \subseteq Live(Here)
  BY <1>1, SplittingIs
<1>3. ToSplitNext \subseteq results
  BY DEF ToSplitNext
<1>4. stage' \in 0..LastStage
  BY <1>1, <1>2, InitStages DEF StageAfter, TypeOK
<1>5. results \subseteq Ids
  BY <1>2 DEF TypeOK
<1> HIDE DEF ToSplitNext
<1>6. TypeOK'
  BY <1>1, <1>2, <1>3, <1>4, <1>5 DEF TypeOK, dataVars, requestVars, fillVars, walkVars
<1>7. TreesOK'
  BY <1>1, <1>2, TreesKept DEF dataVars, fillVars
<1>8. Here' = Here
  BY <1>1 DEF Here, dataVars, requestVars
<1>9. FillOK' /\ StagesOK' /\ RemoveOK' /\ CopyOK'
  BY <1>1, <1>2, <1>3, <1>8 DEF FillOK, StagesOK, RemoveOK, CopyOK, fillVars, walkVars
<1> QED
  BY <1>6, <1>7, <1>9 DEF TreeInv

\* The roots of the tree are updated, and the collapse begins.
LEMMA UpdateTree ==
  ASSUME TypeOK, TreesOK, NEW S, NEW present,
         StartCollapse(target, Updated(Here, S, present)),
         moved = {}, splitting = None, lost = None,
         UNCHANGED <<object, home, roots, requestVars, fillVars, lost, ancestors>>,
         modified' \subseteq Ids, stage' \in 0..LastStage, toSplit' = {}, results' = {}
  PROVE  TreeInv'
<1> DEFINE c == Updated(Here, S, present)
<1>1. target \in Contexts /\ target' = target /\ moved' = {} /\ splitting' = None /\ lost' = None
  BY DEF TypeOK, requestVars, fillVars
<1>2. Clusters(Here, Ids) /\ Tree(Here) /\ RootKnown(Here) /\ roots[target] = Tops(Here)
  BY <1>1, HereIs DEF Here, TreesOK, Moved
<1>3. Links(Here)
  BY <1>2 DEF Tree
<1>4. /\ Clusters(c, Ids) /\ Live(c) = Live(Here)
      /\ \A i \in Live(Here) : c[i].parent = Here[i].parent /\ c[i].root = Here[i].root
                               /\ c[i].subs = Here[i].subs
  <2>1. /\ Clusters(c, Ids) /\ Live(c) = Live(Here)
        /\ \A i \in Live(Here) :
             /\ c[i].parent = Here[i].parent /\ c[i].root = Here[i].root /\ c[i].subs = Here[i].subs
             /\ c[i].members = IF i \in Under(Here, S)
                               THEN Here[i].members \cap present ELSE Here[i].members
    BY <1>2, <1>3, UpdatedIs
  <2> QED
    BY <2>1
<1> HIDE DEF c
<1>5. Tree(c) /\ RootKnown(c) /\ Tops(c) = Tops(Here)
  BY <1>2, <1>4, SameTree DEF Tree
<1>6. /\ cluster' = [cluster EXCEPT ![target] = c]
      /\ cluster' \in [Contexts -> [Ids -> Cluster \cup {None}]]
      /\ view' \in [Contexts -> [Ids \cup {File} -> Cluster \cup {None}]]
      /\ pc' = "collapse" /\ todo' \subseteq Ids /\ entities' = {}
      /\ CopyOK'
  BY <1>1, <1>4, <1>5, CollapseStarts DEF c
<1>7. TypeOK'
  BY <1>1, <1>6 DEF TypeOK, Steps, requestVars, fillVars
<1>8. TreesOK'
  <2>1. roots' = [roots EXCEPT ![target] = roots[target]]
    BY <1>1, RootsUnchanged
  <2>2. roots[target] = Tops(c) \ moved'
    BY <1>1, <1>2, <1>5
  <2> QED
    BY <1>1, <1>4, <1>5, <1>6, <2>1, <2>2, TreesChanged
<1>9. FillOK' /\ StagesOK' /\ RemoveOK'
  BY <1>1, <1>6 DEF FillOK, StagesOK, RemoveOK
<1> QED
  BY <1>6, <1>7, <1>8, <1>9 DEF TreeInv

LEMMA EndSplitTree ==
  ASSUME TreeInv, EndSplit
  PROVE  TreeInv'
<1>1. /\ pc = "split" /\ toSplit = {}
      /\ StartCollapse(target, Updated(Here, modified, Present(target)))
      /\ results' = {} /\ modified' = {} /\ stage' = 0
      /\ UNCHANGED <<object, home, roots, requestVars, toSplit, fillVars, lost, ancestors>>
  BY DEF EndSplit
<1>2. TypeOK /\ TreesOK /\ splitting = None /\ moved = {} /\ lost = None
  BY <1>1, SplittingIs
<1>3. 0 \in 0..LastStage
  BY InitStages
<1> QED
  BY <1>1, <1>2, <1>3, UpdateTree

-----------------------------------------------------------------------------
(* The steps of a removal                                                  *)

LEMMA RemoveMembersTree ==
  ASSUME TreeInv, NEW k \in Contexts, NEW d, RemoveMembers(k, d)
  PROVE  TreeInv'
<1> DEFINE D == IF d = File THEN roots[k] ELSE {d}
<1>1. /\ pc = "idle" /\ requests' = requests + 1 /\ requests < MaxRequests
      /\ target' = k /\ removes' = TRUE /\ pc' = "remove"
      /\ d \in Shown(k) /\ ancestors' = AncestorsOf(k, D) /\ todo' = D
      /\ UNCHANGED <<dataVars, stageVars, fillVars, lost, entities>>
  BY DEF RemoveMembers, Request, Go
<1>2. TypeOK /\ TreesOK /\ splitting = None /\ moved = {} /\ lost = None /\ toSplit = {} /\ results = {}
  BY <1>1 DEF TreeInv, FillOK, StagesOK, RemoveOK
<1>3. D \subseteq Ids \cup Entities
  <2>1. /\ Clusters(view[k], Copied) /\ roots[k] \subseteq Ids
    BY <1>2, HereIs DEF TypeOK
  <2>2. /\ Live(view[k]) \subseteq Copied
        /\ \A i \in Live(view[k]) : view[k][i].members \subseteq Entities
    BY <2>1, LiveIs DEF Cluster
  <2>3. d \in Copied \cup Entities
    BY <1>1, <2>2 DEF Shown
  <2> QED
    BY <2>1, <2>3 DEF Copied
<1>4. ancestors' \subseteq Ids
  <2>1. Clusters(cluster[k], Ids) /\ Live(cluster[k]) \subseteq Ids
    BY <1>2, HereIs
  <2>2. \A x : Above(cluster[k], x) \subseteq Ids
    BY <2>1, AboveIs
  <2> HIDE DEF D
  <2> QED
    BY <1>1, <2>2 DEF AncestorsOf
<1> HIDE DEF D
<1>5. requests' \in 0..MaxRequests
  BY <1>1, <1>2, ContextTreeAssumption DEF TypeOK
<1>6. TypeOK'
  BY <1>1, <1>2, <1>3, <1>4, <1>5 DEF TypeOK, Steps, dataVars, stageVars, fillVars
<1>7. TreesOK'
  BY <1>1, <1>2, TreesKept DEF dataVars, fillVars
<1>8. FillOK' /\ StagesOK' /\ RemoveOK' /\ CopyOK'
  BY <1>1, <1>2 DEF FillOK, StagesOK, RemoveOK, CopyOK, stageVars, fillVars
<1> QED
  BY <1>6, <1>7, <1>8 DEF TreeInv

\* While a request removes.
LEMMA RemovingIs ==
  ASSUME TreeInv, pc = "remove"
  PROVE  /\ TypeOK /\ TreesOK /\ target \in Contexts
         /\ splitting = None /\ moved = {} /\ lost \in Live(Here) \cup {None}
         /\ toSplit = {} /\ results = {}
         /\ Clusters(Here, Ids) /\ Tree(Here) /\ RootKnown(Here) /\ roots[target] = Tops(Here)
<1>1. TypeOK /\ TreesOK /\ target \in Contexts
  BY DEF TreeInv, TypeOK
<1>2. /\ splitting = None /\ moved = {} /\ lost \in Live(Here) \cup {None}
      /\ toSplit = {} /\ results = {}
  BY DEF TreeInv, FillOK, StagesOK, RemoveOK
<1>3. Clusters(Here, Ids)
  BY <1>1, HereIs DEF Here
<1>4. Tree(Here) /\ RootKnown(Here) /\ roots[target] = Tops(Here)
  <2>1. Moved(target) = {}
    BY <1>2 DEF Moved
  <2> QED
    BY <1>1, <2>1 DEF TreesOK, Here
<1> QED
  BY <1>1, <1>2, <1>3, <1>4

\* A step of a removal, that makes the clusters c.
LEMMA RemovalStep ==
  ASSUME TreeInv, pc = "remove", NEW c, Clusters(c, Ids), Tree(c), RootKnown(c), NEW R, R = Tops(c),
         cluster' = [cluster EXCEPT ![target] = c], roots' = [roots EXCEPT ![target] = R],
         object' \in [Contexts -> [Entities -> Objects \cup {None}]],
         lost' \in Live(c) \cup {None}, todo' \subseteq todo,
         UNCHANGED <<home, view, pc, requestVars, stageVars, fillVars, ancestors, entities>>
  PROVE  TreeInv'
<1>1. /\ TypeOK /\ TreesOK /\ target \in Contexts
      /\ splitting = None /\ moved = {} /\ toSplit = {} /\ results = {}
  BY RemovingIs
<1>2. cluster' \in [Contexts -> [Ids -> Cluster \cup {None}]] /\ cluster'[target] = c
  BY <1>1, ClusterChanged
<1>3. Live(c) \subseteq Ids
  BY LiveIs
<1>4. roots' \in [Contexts -> SUBSET Ids]
  BY <1>1, <1>3 DEF TypeOK, Tops
<1>5. TypeOK'
  BY <1>1, <1>2, <1>3, <1>4 DEF TypeOK, requestVars, stageVars, fillVars
<1>6. TreesOK'
  BY <1>1, TreesChanged DEF requestVars, fillVars
<1>7. Here' = c
  BY <1>2 DEF Here, requestVars
<1>8. FillOK' /\ StagesOK' /\ RemoveOK' /\ CopyOK'
  BY <1>1, <1>7 DEF FillOK, StagesOK, RemoveOK, CopyOK, stageVars, fillVars
<1> QED
  BY <1>5, <1>6, <1>8 DEF TreeInv

\* The clusters after e has been taken out of p, where there is such a cluster.
AccountOut(c, e, p, d) ==
  /\ Clusters(d, Ids) /\ Live(d) = Live(c)
  /\ \A i \in Live(c) :
       /\ d[i].parent = c[i].parent /\ d[i].root = c[i].root /\ d[i].subs = c[i].subs
       /\ d[i].members = IF i = p THEN c[i].members \ {e} ELSE c[i].members

LEMMA AccountOutIs ==
  ASSUME NEW c, Clusters(c, Ids), NEW e, NEW p
  PROVE  AccountOut(c, e, p, IF p \in Live(c) THEN [c EXCEPT ![p].members = @ \ {e}] ELSE c)
<1> DEFINE d == IF p \in Live(c) THEN [c EXCEPT ![p].members = @ \ {e}] ELSE c
<1>1. CASE p \notin Live(c)
  BY <1>1 DEF AccountOut
<1>2. CASE p \in Live(c)
  <2>1. c \in [Ids -> Cluster \cup {None}] /\ None \notin Cluster
    BY ContextTreeAssumption DEF Clusters
  <2>2. p \in Ids /\ c[p] \in Cluster /\ \A i \in Live(c) : i \in Ids
    BY <1>2, LiveIs
  <2>3. d[p] = [c[p] EXCEPT !.members = @ \ {e}] /\ \A i \in Ids \ {p} : d[i] = c[i]
    BY <1>2, <2>1, <2>2
  <2>4. d = [i \in Ids |-> d[i]]
    BY <1>2, <2>1, <2>2
  <2> HIDE DEF d
  <2>5. /\ d[p] \in Cluster /\ d[p].parent = c[p].parent /\ d[p].root = c[p].root
        /\ d[p].subs = c[p].subs /\ d[p].members = c[p].members \ {e}
    BY <2>2, <2>3 DEF Cluster
  <2>6. \A i \in Ids : d[i] \in Cluster \cup {None} /\ (d[i] # None <=> c[i] # None)
    BY <1>2, <2>1, <2>2, <2>3, <2>5 DEF Live
  <2>7. d \in [Ids -> Cluster \cup {None}]
    BY <2>4, <2>6
  <2>8. Live(d) = Live(c)
    BY <2>1, <2>6, <2>7 DEF Live
  <2>9. \A i \in Live(c) :
          /\ d[i].parent = c[i].parent /\ d[i].root = c[i].root /\ d[i].subs = c[i].subs
          /\ d[i].members = IF i = p THEN c[i].members \ {e} ELSE c[i].members
    BY <2>2, <2>3, <2>5
  <2>10. Clusters(d, Ids)
    BY <2>7 DEF Clusters, Named
  <2>11. AccountOut(c, e, p, d)
    BY <2>8, <2>9, <2>10 DEF AccountOut
  <2> QED
    BY <2>11 DEF d
<1> QED
  BY <1>1, <1>2

LEMMA RemoveAccountTree ==
  ASSUME TreeInv, NEW e \in Entities, RemoveAccount(e)
  PROVE  TreeInv'
<1> DEFINE p == ParentOf(target, e)
           c == IF p \in Live(Here) THEN [Here EXCEPT ![p].members = @ \ {e}] ELSE Here
<1>1. /\ pc = "remove" /\ todo' = todo \ {e}
      /\ object' = [object EXCEPT ![target][e] = None]
      /\ cluster' = IF p \in Live(Here)
                    THEN [cluster EXCEPT ![target][p].members = @ \ {e}] ELSE cluster
      /\ lost' = Affected(Here, p)
      /\ UNCHANGED <<home, roots, view, pc, requestVars, stageVars, fillVars, ancestors, entities>>
  BY DEF RemoveAccount
<1>2. /\ TypeOK /\ target \in Contexts /\ Clusters(Here, Ids) /\ Tree(Here) /\ RootKnown(Here)
      /\ roots[target] = Tops(Here)
  BY <1>1, RemovingIs
<1>3. /\ cluster' = [cluster EXCEPT ![target] = c]
  BY <1>1, <1>2 DEF Here, TypeOK
<1> HIDE DEF p
<1>4. AccountOut(Here, e, p, c)
  BY <1>2, AccountOutIs
<1>5. object' \in [Contexts -> [Entities -> Objects \cup {None}]]
  BY <1>1, <1>2 DEF TypeOK
<1>6. lost' \in Live(Here) \cup {None} /\ todo' \subseteq todo
  BY <1>1 DEF Affected
<1>7. roots' = [roots EXCEPT ![target] = roots[target]]
  BY <1>1, <1>2, RootsUnchanged
<1> HIDE DEF c
<1>8. /\ Clusters(c, Ids) /\ Live(c) = Live(Here)
      /\ \A i \in Live(Here) : c[i].parent = Here[i].parent /\ c[i].root = Here[i].root
                               /\ c[i].subs = Here[i].subs
  BY <1>4 DEF AccountOut
<1>9. Tree(c) /\ RootKnown(c) /\ Tops(c) = Tops(Here)
  BY <1>2, <1>8, SameTree DEF Tree
<1> QED
  BY <1>1, <1>2, <1>3, <1>8, <1>5, <1>6, <1>7, <1>9, RemovalStep

LEMMA RemoveClusterTree ==
  ASSUME TreeInv, NEW x \in Ids, RemoveCluster(x)
  PROVE  TreeInv'
<1> DEFINE gone == Below(Here, x)
           p == Here[x].parent
           c == Without(Here, gone, x)
           R == IF p = None THEN roots[target] \ {x} ELSE roots[target]
<1>1. /\ pc = "remove" /\ x \in Live(Here) /\ todo' = todo \ {x}
      /\ object' = [object EXCEPT ![target] =
                      [e \in Entities |-> IF e \in AccountsBelow(Here, x) THEN None ELSE @[e]]]
      /\ cluster' = [cluster EXCEPT ![target] = c]
      /\ roots' = [roots EXCEPT ![target] = IF p = None THEN @ \ {x} ELSE @]
      /\ lost' = Affected(Here, p)
      /\ UNCHANGED <<home, view, pc, requestVars, stageVars, fillVars, ancestors, entities>>
  BY DEF RemoveCluster
<1>2. /\ TypeOK /\ target \in Contexts /\ Clusters(Here, Ids) /\ Tree(Here) /\ RootKnown(Here)
      /\ roots[target] = Tops(Here)
  BY <1>1, RemovingIs
<1>3. Links(Here)
  BY <1>2 DEF Tree
<1>4. /\ gone \in SUBSET Live(Here) /\ x \in gone
      /\ \A y \in gone : \A z \in Here[y].subs : z \in Live(Here) => z \in gone
  BY <1>1, <1>2, BelowIs
<1>5. /\ \A y \in gone : y = x \/ Here[y].parent \in gone
      /\ p \notin gone
  BY <1>1, <1>2, BelowHasParent
<1> HIDE DEF gone, c
<1>6. \A y \in gone : Here[y].subs \subseteq gone /\ (y = x \/ Here[y].parent \in gone)
  BY <1>3, <1>4, <1>5 DEF Links
<1>7. Clusters(c, Ids) /\ Live(c) = Live(Here) \ gone
  BY <1>1, <1>2, <1>3, <1>4, WithoutIs DEF c
<1>8. Tree(c) /\ RootKnown(c) /\ Tops(c) = Tops(Here) \ gone
  BY <1>1, <1>2, <1>4, <1>6, WithoutTree DEF c
<1>9. R = Tops(c)
  <2>1. \A y \in gone \ {x} : y \notin Tops(Here)
    BY <1>4, <1>6, HereIs, <1>2 DEF Tops, Here
  <2>2. x \in Tops(Here) <=> p = None
    BY <1>1 DEF Tops
  <2> QED
    BY <1>2, <1>4, <1>8, <2>1, <2>2
<1>10. lost' \in Live(c) \cup {None} /\ todo' \subseteq todo
  BY <1>1, <1>5, <1>7 DEF Affected
<1>11. roots' = [roots EXCEPT ![target] = R]
  BY <1>1, <1>2 DEF TypeOK
<1>12. object' \in [Contexts -> [Entities -> Objects \cup {None}]]
  <2>1. [e \in Entities |-> IF e \in AccountsBelow(Here, x) THEN None ELSE object[target][e]]
          \in [Entities -> Objects \cup {None}]
    BY <1>2 DEF TypeOK
  <2> QED
    BY <1>1, <1>2, <2>1 DEF TypeOK
<1> HIDE DEF R, p
<1> QED
  BY <1>1, <1>7, <1>8, <1>9, <1>10, <1>11, <1>12, RemovalStep

LEMMA PruneEmptyTree ==
  ASSUME TreeInv, PruneEmpty
  PROVE  TreeInv'
<1> DEFINE p == Here[lost].parent
           c == Without(Here, {lost}, lost)
           R == IF p = None THEN roots[target] \ {lost} ELSE roots[target]
<1>1. /\ pc = "remove" /\ lost # None /\ Empty(Here[lost])
      /\ cluster' = [cluster EXCEPT ![target] = c]
      /\ roots' = [roots EXCEPT ![target] = IF p = None THEN @ \ {lost} ELSE @]
      /\ lost' = Affected(Here, p)
      /\ UNCHANGED <<object, home, view, pc, requestVars, stageVars, fillVars, todo, ancestors, entities>>
  BY DEF PruneEmpty
<1>2. /\ TypeOK /\ target \in Contexts /\ Clusters(Here, Ids) /\ Tree(Here) /\ RootKnown(Here)
      /\ roots[target] = Tops(Here) /\ lost \in Live(Here)
  BY <1>1, RemovingIs
<1>3. Links(Here) /\ p # lost
  BY <1>2, NotOwnParent DEF Tree
<1>4. {lost} \in SUBSET Live(Here) /\ Here[lost].subs = {}
  BY <1>1, <1>2 DEF Empty
<1> HIDE DEF c
<1>5. Clusters(c, Ids) /\ Live(c) = Live(Here) \ {lost}
  BY <1>2, <1>3, <1>4, WithoutIs DEF c
<1>6. Tree(c) /\ RootKnown(c) /\ Tops(c) = Tops(Here) \ {lost}
  <2>1. \A y \in {lost} : Here[y].subs \subseteq {lost} /\ (y = lost \/ Here[y].parent \in {lost})
    BY <1>4
  <2>2. lost \in {lost}
    OBVIOUS
  <2> QED
    BY <1>2, <1>4, <2>1, <2>2, WithoutTree DEF c
<1>7. R = Tops(c)
  BY <1>2, <1>6 DEF Tops
<1>8. lost' \in Live(c) \cup {None}
  BY <1>1, <1>3, <1>5 DEF Affected
<1>9. roots' = [roots EXCEPT ![target] = R]
  BY <1>1, <1>2 DEF TypeOK
<1>10. object' \in [Contexts -> [Entities -> Objects \cup {None}]] /\ todo' \subseteq todo
  BY <1>1, <1>2 DEF TypeOK
<1> HIDE DEF R, p
<1> QED
  BY <1>1, <1>5, <1>6, <1>7, <1>8, <1>9, <1>10, RemovalStep

LEMMA PruneEndsTree ==
  ASSUME TreeInv, PruneEnds
  PROVE  TreeInv'
<1>1. /\ pc = "remove" /\ lost' = None
      /\ UNCHANGED <<dataVars, pc, requestVars, stageVars, fillVars, todo, ancestors, entities>>
  BY DEF PruneEnds
<1>2. TypeOK /\ TreesOK /\ splitting = None /\ moved = {} /\ toSplit = {} /\ results = {}
  BY <1>1, RemovingIs
<1>3. TypeOK'
  BY <1>1, <1>2 DEF TypeOK, dataVars, requestVars, stageVars, fillVars
<1>4. TreesOK'
  BY <1>1, <1>2, TreesKept DEF dataVars, fillVars
<1>5. FillOK' /\ StagesOK' /\ RemoveOK' /\ CopyOK'
  BY <1>1, <1>2 DEF FillOK, StagesOK, RemoveOK, CopyOK, stageVars, fillVars
<1> QED
  BY <1>3, <1>4, <1>5 DEF TreeInv

LEMMA EndRemoveTree ==
  ASSUME TreeInv, EndRemove
  PROVE  TreeInv'
<1>1. /\ pc = "remove" /\ lost = None
      /\ StartCollapse(target, Updated(Here, roots[target], Present(target)))
      /\ UNCHANGED <<object, home, roots, requestVars, stageVars, fillVars, lost, ancestors>>
  BY DEF EndRemove
<1>2. TypeOK /\ TreesOK /\ splitting = None /\ moved = {} /\ toSplit = {} /\ results = {}
  BY <1>1, RemovingIs
<1>3. modified' \subseteq Ids /\ stage' \in 0..LastStage /\ toSplit' = {} /\ results' = {}
  BY <1>1, <1>2 DEF TypeOK, stageVars
<1> QED
  BY <1>1, <1>2, <1>3, UpdateTree

-----------------------------------------------------------------------------
(* The steps of the collapse                                               *)

\* While a context is simplified.
LEMMA CollapsingIs ==
  ASSUME TreeInv, pc = "collapse"
  PROVE  /\ TypeOK /\ TreesOK /\ target \in Contexts
         /\ splitting = None /\ moved = {} /\ toSplit = {} /\ results = {} /\ lost = None
         /\ Copies(Copy) /\ Tree(Copy) /\ todo \subseteq Live(Copy)
BY DEF TreeInv, TypeOK, FillOK, StagesOK, RemoveOK, CopyOK

\* A visit that makes the copies c.
LEMMA VisitTree ==
  ASSUME TreeInv, pc = "collapse", NEW x, NEW c, Copies(c), Tree(c), todo \ {x} \subseteq Live(c),
         Visit(x, c), entities' \subseteq Entities
  PROVE  TreeInv'
<1>1. /\ TypeOK /\ TreesOK /\ target \in Contexts
      /\ splitting = None /\ moved = {} /\ toSplit = {} /\ results = {} /\ lost = None
  BY CollapsingIs
<1>2. /\ view' = [view EXCEPT ![target] = c] /\ todo' = todo \ {x}
      /\ UNCHANGED <<object, home, cluster, roots, pc, requestVars, stageVars, fillVars,
                     lost, ancestors>>
  BY DEF Visit
<1>3. c \in [Ids \cup {File} -> Cluster \cup {None}]
  BY DEF Copies, Clusters, Copied
<1>4. view' \in [Contexts -> [Ids \cup {File} -> Cluster \cup {None}]] /\ view'[target] = c
  BY <1>1, <1>2, <1>3 DEF TypeOK
<1>5. Copy' = c
  BY <1>2, <1>4 DEF Copy, requestVars
<1>6. TypeOK'
  BY <1>1, <1>2, <1>4 DEF TypeOK, requestVars, stageVars, fillVars
<1>7. TreesOK'
  BY <1>1, <1>2, TreesKept DEF fillVars
<1>8. FillOK' /\ StagesOK' /\ RemoveOK' /\ CopyOK'
  BY <1>1, <1>2, <1>5 DEF FillOK, StagesOK, RemoveOK, CopyOK, stageVars, fillVars
<1> QED
  BY <1>6, <1>7, <1>8 DEF TreeInv

\* What a chain leads to.
LEMMA ChainIs ==
  ASSUME NEW x, IsFiniteSet(x.subs), IsChain(x)
  PROVE  /\ x.members = {}
         /\ x.subs = {CHOOSE y \in x.subs : TRUE}
<1>1. x.members = {} /\ Cardinality(x.subs) = 1
  BY DEF IsChain
<1>2. \E y : x.subs = {y}
  BY <1>1, FS_Singleton
<1> QED
  BY <1>1, <1>2

LEMMA VisitedIs ==
  ASSUME TreeInv, NEW x, MayVisit(x)
  PROVE  /\ pc = "collapse" /\ x \in Live(Copy)
         /\ Copies(Copy) /\ Tree(Copy) /\ todo \subseteq Live(Copy) /\ entities \subseteq Entities
         /\ Copy[x].members \subseteq Entities /\ IsFiniteSet(Copy[x].subs)
<1>1. /\ pc = "collapse" /\ x \in Live(Copy)
      /\ Copies(Copy) /\ Tree(Copy) /\ todo \subseteq Live(Copy) /\ TypeOK
  BY CollapsingIs DEF MayVisit
<1>2. Copy[x] \in Cluster
  BY <1>1, CopiesAre
<1>3. IsFiniteSet(Copy[x].subs)
  BY <1>2, ContextTreeAssumption, FS_Subset DEF Cluster
<1> QED
  BY <1>1, <1>2, <1>3 DEF Cluster, TypeOK

LEMMA DropChainRootTree ==
  ASSUME TreeInv, NEW x \in todo, DropChainRoot(x)
  PROVE  TreeInv'
<1> DEFINE s == CHOOSE y \in Copy[x].subs : TRUE
           c == NewRoot(Copy, x, s)
<1>1. /\ MayVisit(x) /\ IsChain(Copy[x]) /\ Copy[x].parent = None
      /\ Visit(x, c) /\ entities' = entities
  BY DEF DropChainRoot
<1>2. /\ pc = "collapse" /\ x \in Live(Copy)
      /\ Copies(Copy) /\ Tree(Copy) /\ todo \subseteq Live(Copy) /\ entities \subseteq Entities
      /\ IsFiniteSet(Copy[x].subs)
  BY <1>1, VisitedIs
<1>3. Copy[x].subs = {s}
  BY <1>1, <1>2, ChainIs
<1> HIDE DEF s, c
<1>4. Copies(c) /\ Tree(c) /\ Live(c) = Live(Copy) \ {x}
  BY <1>1, <1>2, <1>3, NewRootIs DEF c
<1> QED
  BY <1>1, <1>2, <1>4, VisitTree

LEMMA DropChainTree ==
  ASSUME TreeInv, NEW x \in todo, DropChain(x)
  PROVE  TreeInv'
<1> DEFINE s == CHOOSE y \in Copy[x].subs : TRUE
           p == Copy[x].parent
           c == ChainOut(Copy, x, s, p)
<1>1. /\ MayVisit(x) /\ IsChain(Copy[x]) /\ p # None
      /\ Visit(x, c) /\ entities' = entities
  BY DEF DropChain, ChainOut
<1>2. /\ pc = "collapse" /\ x \in Live(Copy)
      /\ Copies(Copy) /\ Tree(Copy) /\ todo \subseteq Live(Copy) /\ entities \subseteq Entities
      /\ IsFiniteSet(Copy[x].subs)
  BY <1>1, VisitedIs
<1>3. Copy[x].subs = {s}
  BY <1>1, <1>2, ChainIs
<1>4. Copy[x].parent = p
  OBVIOUS
<1> HIDE DEF s, p
<1> HIDE DEF c
<1>5. Copies(c) /\ Tree(c) /\ Live(c) = Live(Copy) \ {x}
  <2> DEFINE d == ChainOut(Copy, x, s, p)
  <2>1. /\ p # None /\ Copies(Copy) /\ Tree(Copy) /\ x \in Live(Copy)
        /\ Copy[x].subs = {s} /\ Copy[x].parent = p
    BY <1>1, <1>2, <1>3, <1>4
  <2>2. Copies(d) /\ Tree(d) /\ Live(d) = Live(Copy) \ {x}
    BY <2>1, ChainDropped
  <2> QED
    BY <2>2 DEF c
<1> QED
  BY <1>1, <1>2, <1>5, VisitTree

LEMMA DropSingletonRootTree ==
  ASSUME TreeInv, NEW x \in todo, DropSingletonRoot(x)
  PROVE  TreeInv'
<1> DEFINE c == [Copy EXCEPT ![x] = None]
<1>1. /\ MayVisit(x) /\ Copy[x].subs = {} /\ Copy[x].parent = None
      /\ Visit(x, c) /\ entities' = entities \cup Copy[x].members
  BY DEF DropSingletonRoot, IsSingleton
<1>2. /\ pc = "collapse" /\ x \in Live(Copy)
      /\ Copies(Copy) /\ Tree(Copy) /\ todo \subseteq Live(Copy) /\ entities \subseteq Entities
      /\ Copy[x].members \subseteq Entities
  BY <1>1, VisitedIs
<1>3. Copies(c) /\ Tree(c) /\ Live(c) = Live(Copy) \ {x}
  BY <1>1, <1>2, SingletonRootDropped
<1> HIDE DEF c
<1> QED
  BY <1>1, <1>2, <1>3, VisitTree

LEMMA DropSingletonTree ==
  ASSUME TreeInv, NEW x \in todo, DropSingleton(x)
  PROVE  TreeInv'
<1> DEFINE p == Copy[x].parent
           c == SingletonOut(Copy, x, p)
<1>1. /\ MayVisit(x) /\ Copy[x].subs = {} /\ p # None /\ entities' = entities
      /\ Visit(x, IF Copy[p] = None THEN [Copy EXCEPT ![x] = None] ELSE c)
  BY DEF DropSingleton, IsSingleton, SingletonOut
<1>2. /\ pc = "collapse" /\ x \in Live(Copy)
      /\ Copies(Copy) /\ Tree(Copy) /\ todo \subseteq Live(Copy) /\ entities \subseteq Entities
  BY <1>1, VisitedIs
<1>3. Copy[x].parent = p
  OBVIOUS
<1> HIDE DEF p
<1> HIDE DEF c
<1>4. Copies(c) /\ Tree(c) /\ Live(c) = Live(Copy) \ {x} /\ Copy[p] # None
  <2> DEFINE d == SingletonOut(Copy, x, p)
  <2>1. /\ p # None /\ Copies(Copy) /\ Tree(Copy) /\ x \in Live(Copy)
        /\ Copy[x].subs = {} /\ Copy[x].parent = p
    BY <1>1, <1>2, <1>3
  <2>2. Copies(d) /\ Tree(d) /\ Live(d) = Live(Copy) \ {x} /\ Copy[p] # None
    BY <2>1, SingletonDropped
  <2> QED
    BY <2>2 DEF c
<1>5. Visit(x, c)
  BY <1>1, <1>4
<1> QED
  BY <1>1, <1>2, <1>4, <1>5, VisitTree

LEMMA KeepTree ==
  ASSUME TreeInv, NEW x \in todo, Keep(x)
  PROVE  TreeInv'
<1>1. MayVisit(x) /\ Visit(x, Copy) /\ entities' = entities
  BY DEF Keep
<1>2. /\ pc = "collapse"
      /\ Copies(Copy) /\ Tree(Copy) /\ todo \subseteq Live(Copy) /\ entities \subseteq Entities
  BY <1>1, VisitedIs
<1>3. todo \ {x} \subseteq Live(Copy)
  BY <1>2
<1> QED
  BY <1>1, <1>2, <1>3, VisitTree

\* What the simplified context is in the end.
LEMMA CollapsedIs ==
  ASSUME EndCollapse, TypeOK, target \in Contexts
  PROVE  view' = [view EXCEPT ![target] =
                    IF removes /\ entities \cap Present(target) = {} /\ Tops(Copy) = {}
                    THEN Copy ELSE Gathered(Copy, entities \cap Present(target))]
BY DEF EndCollapse, Gathered, Tops

LEMMA EndCollapseTree ==
  ASSUME TreeInv, EndCollapse
  PROVE  TreeInv'
<1> DEFINE shown == entities \cap Present(target)
           c == IF removes /\ shown = {} /\ Tops(Copy) = {} THEN Copy ELSE Gathered(Copy, shown)
<1>1. /\ pc = "collapse" /\ todo = {} /\ ancestors' = {} /\ entities' = {} /\ pc' = "idle"
      /\ UNCHANGED <<object, home, cluster, roots, requestVars, stageVars, fillVars, todo, lost>>
  BY DEF EndCollapse, Go
<1>2. /\ TypeOK /\ TreesOK /\ target \in Contexts
      /\ splitting = None /\ moved = {} /\ toSplit = {} /\ results = {} /\ lost = None
      /\ Copies(Copy) /\ Tree(Copy)
  BY <1>1, CollapsingIs
<1>3. view' = [view EXCEPT ![target] = c]
  BY <1>2, CollapsedIs
<1>4. shown \in SUBSET Entities
  BY <1>2 DEF TypeOK
<1> HIDE DEF shown
<1>5. Clusters(Gathered(Copy, shown), Copied) /\ Clusters(Copy, Copied)
  BY <1>2, <1>4, GatheredIs DEF Copies
<1>6. c \in [Ids \cup {File} -> Cluster \cup {None}]
  BY <1>5 DEF Clusters, Copied
<1> HIDE DEF c
<1>7. view' \in [Contexts -> [Ids \cup {File} -> Cluster \cup {None}]]
  BY <1>2, <1>3, <1>6 DEF TypeOK
<1>8. TypeOK'
  BY <1>1, <1>2, <1>7 DEF TypeOK, Steps, requestVars, stageVars, fillVars
<1>9. TreesOK'
  BY <1>1, <1>2, TreesKept DEF fillVars
<1>10. FillOK' /\ StagesOK' /\ RemoveOK' /\ CopyOK'
  BY <1>1, <1>2 DEF FillOK, StagesOK, RemoveOK, CopyOK, stageVars, fillVars
<1> QED
  BY <1>8, <1>9, <1>10 DEF TreeInv

LEMMA StutterTree == TreeInv /\ UNCHANGED vars => TreeInv'
BY DEF TreeInv, TypeOK, TreesOK, Moved, FillOK, StagesOK, RemoveOK, CopyOK, Here, Copy,
       vars, dataVars, stageVars, fillVars, walkVars, requestVars

LEMMA NextTree == TreeInv /\ [Next]_vars => TreeInv'
<1> SUFFICES ASSUME TreeInv, [Next]_vars
             PROVE  TreeInv'
  OBVIOUS
<1>1. CASE UNCHANGED vars
  BY <1>1, StutterTree
<1>2. ASSUME NEW k \in Contexts, Begin(k)
      PROVE  TreeInv'
  BY <1>2, InsertAccountsTree, InsertClusterTree, RemoveMembersTree DEF Begin
<1>3. CASE Work
  <2>1. ASSUME NEW x \in Ids, Split(x) \/ StartFill(x) \/ RemoveCluster(x)
        PROVE  TreeInv'
    BY <2>1, SplitTree, StartFillTree, RemoveClusterTree
  <2>2. ASSUME NEW e \in Entities, FillFirst(e) \/ FillNew(e) \/ FillOverflow(e) \/ RemoveAccount(e)
        PROVE  TreeInv'
    BY <2>2, FillFirstTree, FillNewTree, FillOverflowTree, RemoveAccountTree
  <2>3. CASE EndFill \/ NextStage \/ EndSplit \/ PruneEmpty \/ PruneEnds \/ EndRemove
    BY <2>3, EndFillTree, NextStageTree, EndSplitTree, PruneEmptyTree, PruneEndsTree, EndRemoveTree
  <2>4. ASSUME NEW x \in todo, DropChainRoot(x) \/ DropChain(x) \/ DropSingletonRoot(x)
                               \/ DropSingleton(x) \/ Keep(x)
        PROVE  TreeInv'
    BY <2>4, DropChainRootTree, DropChainTree, DropSingletonRootTree, DropSingletonTree, KeepTree
  <2> QED
    BY <1>3, <2>1, <2>2, <2>3, <2>4, EndCollapseTree DEF Work
<1> QED
  BY <1>1, <1>2, <1>3 DEF Next

\* The inductive invariant: at every step of a request the clusters are trees, up
\* to those that GeneralEntityClusterer or MaxSizeEntityClusterer is just making,
\* and the copies of ContextCollapser are trees of their own.
THEOREM TreesInvariant == Spec => []TreeInv
<1> QED
  BY InitTree, NextTree, PTL DEF Spec

\* Every variable keeps its type: what DynamicClustering and the stages create,
\* move and remove are clusters with known parents, roots, members and children.
THEOREM TypesKept == Spec => []TypeOK
<1>1. TreeInv => TypeOK
  BY DEF TreeInv
<1> QED
  BY <1>1, TreesInvariant, PTL

\* Between requests the clusters of a context are trees whose roots are those in
\* its map of roots, and every cluster knows its root: whatever
\* updateClusterReferences, removeMembers and removeFromAncestor did.
THEOREM ContextsAreForests == Spec => []Forest
<1>1. ASSUME TreeInv, pc = "idle", NEW k \in Contexts
      PROVE  LET c == cluster[k] IN
             /\ Linked(c, None)
             /\ roots[k] = {i \in Live(c) : c[i].parent = None}
             /\ \A r \in roots[k] : \A i \in Below(c, r) : c[i].root = IF i = r THEN None ELSE r
  <2> DEFINE c == cluster[k]
  <2>1. Clusters(c, Ids)
    BY <1>1, HereIs DEF TreeInv
  <2>2. moved = {}
    BY <1>1 DEF TreeInv, FillOK
  <2>3. Tree(c) /\ RootKnown(c) /\ roots[k] = Tops(c)
    BY <1>1, <2>2 DEF TreeInv, TreesOK, Moved
  <2> HIDE DEF c
  <2>4. Linked(c, None)
    BY <2>1, <2>3, TreeLinked
  <2>5. \A r \in Tops(c) : \A i \in Below(c, r) : c[i].root = IF i = r THEN None ELSE r
    BY <2>1, <2>3, RootOfAll
  <2> QED
    BY <2>3, <2>4, <2>5 DEF Tops, c
<1>2. TreeInv => Forest
  BY <1>1 DEF Forest
<1> QED
  BY <1>2, TreesInvariant, PTL

\* In whatever order ContextCollapser visits the copies, their links lead to
\* copies, and each copy is below a root.
THEOREM CopiesAreLinked == Spec => []LinksResolve
<1>1. ASSUME TreeInv, pc = "collapse"
      PROVE  Linked([i \in Ids |-> Copy[i]], None)
  <2> DEFINE d == [i \in Ids |-> Copy[i]]
  <2>1. Copies(Copy) /\ Tree(Copy)
    BY <1>1, CollapsingIs
  <2>2. /\ Copy \in [Copied -> Cluster \cup {None}] /\ File \notin Live(Copy)
        /\ Live(Copy) \subseteq Ids /\ Live(Copy) = {i \in Copied : Copy[i] # None}
    BY <2>1, CopiesAre
  <2>3. d \in [Ids -> Cluster \cup {None}] /\ \A i \in Ids : d[i] = Copy[i]
    BY <2>2 DEF Copied
  <2> HIDE DEF d
  <2>4. Clusters(d, Ids) /\ Live(d) = Live(Copy)
    BY <2>2, <2>3 DEF Clusters, Named, Live, Copied
  <2>5. Tree(d)
    BY <2>1, <2>2, <2>3, <2>4, SameTree DEF Tree
  <2> QED
    BY <2>4, <2>5, TreeLinked DEF d
<1>2. TreeInv => LinksResolve
  BY <1>1 DEF LinksResolve
<1> QED
  BY <1>2, TreesInvariant, PTL

-----------------------------------------------------------------------------
(* What the steps do to the members of clusters                            *)

LEMMA InsertTo ==
  ASSUME NEW k \in Contexts, NEW E \in SUBSET Entities, NEW objects \in [E -> Objects],
         Insert(k, objects)
  PROVE  \/ NewTo(k, E) = {} /\ StartCollapse(k, cluster[k]) /\ UNCHANGED <<home, roots, stageVars>>
         \/ /\ NewTo(k, E) # {} /\ pc' = "split" /\ toSplit' = {}
            /\ UNCHANGED <<view, todo, entities>>
            /\ \E to \in [NewTo(k, E) -> Ids] :
                 /\ cluster' = [cluster EXCEPT ![k] = Joined(cluster[k], to)]
                 /\ home' = Rehomed(k, to) /\ results' = Range(to)
<1> DEFINE new == NewTo(k, E)
           old == cluster[k]
<1>1. DOMAIN objects = E
  OBVIOUS
<1>2. ASSUME new # {}, NEW d \in Destinations(old, 0, new, roots[k]),
             cluster' = [cluster EXCEPT ![k] = Joined(old, [e \in new |-> d[Key[0][e]]])],
             home' = Rehomed(k, [e \in new |-> d[Key[0][e]]]), results' = Range(d)
      PROVE  \E to \in [new -> Ids] :
               /\ cluster' = [cluster EXCEPT ![k] = Joined(old, to)]
               /\ home' = Rehomed(k, to) /\ results' = Range(to)
  <2> DEFINE to == [e \in new |-> d[Key[0][e]]]
  <2>1. to \in [new -> Ids] /\ Range(to) = Range(d)
    BY GoingTo
  <2>2. /\ cluster' = [cluster EXCEPT ![k] = Joined(old, to)]
        /\ home' = Rehomed(k, to) /\ results' = Range(to)
    BY <1>2, <2>1
  <2> HIDE DEF to, new, old
  <2> QED
    BY <2>1, <2>2
<1>3. CASE new = {} /\ StartCollapse(k, old) /\ UNCHANGED <<home, roots, stageVars>>
  BY <1>3
<1>4. ASSUME new # {}, NEW d \in Destinations(old, 0, new, roots[k]),
             cluster' = [cluster EXCEPT ![k] = Joined(old, [e \in new |-> d[Key[0][e]]])],
             home' = Rehomed(k, [e \in new |-> d[Key[0][e]]]),
             results' = Range(d), toSplit' = {}, pc' = "split", UNCHANGED <<view, todo, entities>>
      PROVE  /\ new # {} /\ pc' = "split" /\ toSplit' = {}
             /\ UNCHANGED <<view, todo, entities>>
             /\ \E to \in [new -> Ids] :
                  /\ cluster' = [cluster EXCEPT ![k] = Joined(old, to)]
                  /\ home' = Rehomed(k, to) /\ results' = Range(to)
  BY <1>2, <1>4
<1> QED
  BY <1>1, <1>3, <1>4 DEF Insert, Go

LEMMA SplitTo ==
  ASSUME TreeInv, NEW x \in Ids, Split(x)
  PROVE  /\ pc = "split" /\ x \in toSplit /\ toSplit' = toSplit \ {x}
         /\ x \in Live(Here) /\ x \notin Unused /\ Unused \cap Live(Here) = {}
         /\ Here[x].members \in SUBSET Entities
         /\ UNCHANGED <<object, roots, view, pc, requestVars, stage, modified, fillVars, walkVars>>
         /\ \E to \in [Here[x].members -> Ids] :
              /\ Range(to) \subseteq Here[x].subs \cup Unused
              /\ cluster' = [cluster EXCEPT ![target] = Adopted(Joined(Here, to), x, Range(to))]
              /\ home' = Rehomed(target, to) /\ results' = results \cup Range(to)
<1> DEFINE E == Here[x].members
<1>1. /\ pc = "split" /\ x \in toSplit /\ toSplit' = toSplit \ {x}
      /\ UNCHANGED <<object, roots, view, pc, requestVars, stage, modified, fillVars, walkVars>>
  BY DEF Split, LeftToSplit
<1>2. PICK d \in Destinations(Here, stage, E, Here[x].subs) :
        LET to == [e \in E |-> d[Key[stage][e]]] IN
        /\ cluster' = [cluster EXCEPT ![target] = Adopted(Joined(Here, to), x, Range(d))]
        /\ home' = Rehomed(target, to)
        /\ results' = results \cup Range(d)
  BY DEF Split
<1> DEFINE to == [e \in E |-> d[Key[stage][e]]]
<1>3. to \in [E -> Ids] /\ Range(to) = Range(d) /\ Range(to) \subseteq Here[x].subs \cup Unused
  BY GoingTo
<1>4. /\ cluster' = [cluster EXCEPT ![target] = Adopted(Joined(Here, to), x, Range(to))]
      /\ home' = Rehomed(target, to) /\ results' = results \cup Range(to)
  BY <1>2, <1>3
<1>5. TypeOK /\ target \in Contexts /\ x \in Live(Here)
  BY <1>1, SplittingIs
<1>6. /\ x \notin Unused /\ Unused \cap Live(Here) = {}
      /\ Here[x].members \in SUBSET Entities
  BY <1>5, UnusedIs, HereIs DEF Here
<1> HIDE DEF to
<1> QED
  BY <1>1, <1>3, <1>4, <1>5, <1>6

\* The members and subclusters after a split.
SplitInto(c, x, to, d) ==
  /\ Live(d) = Live(c) \cup Range(to)
  /\ d[x].members = {} /\ d[x].subs = c[x].subs \cup Range(to)
  /\ \A i \in Live(c) \ {x} :
       d[i].members = c[i].members \cup Joining(to, i) /\ d[i].subs = c[i].subs
  /\ \A i \in Live(d) \ Live(c) : d[i].members = Joining(to, i) /\ d[i].subs = {}

LEMMA SplitMembers ==
  ASSUME NEW c, Clusters(c, Ids), Tree(c), NEW x \in Live(c), x \notin Unused,
         NEW E \in SUBSET Entities, NEW to \in [E -> Ids], Range(to) \subseteq c[x].subs \cup Unused
  PROVE  SplitInto(c, x, to, Adopted(Joined(c, to), x, Range(to)))
<1> DEFINE j == Joined(c, to)
           S == Range(to)
           d == Adopted(j, x, S)
<1>1. /\ Clusters(j, Ids) /\ Live(j) = Live(c) \cup S
      /\ \A i \in Live(c) : j[i].subs = c[i].subs /\ j[i].members = c[i].members \cup Joining(to, i)
      /\ \A i \in Live(j) \ Live(c) : j[i].subs = {} /\ j[i].members = Joining(to, i)
  BY JoinedIs
<1>2. x \notin S
  BY NotOwnParent
<1> HIDE DEF j, S
<1>3. x \in Live(j) /\ S \in SUBSET Live(j)
  BY <1>1
<1>4. /\ Live(d) = Live(j)
      /\ d[x].members = {} /\ d[x].subs = j[x].subs \cup S
      /\ \A i \in S : d[i].members = j[i].members /\ d[i].subs = j[i].subs
      /\ \A i \in Live(j) \ (S \cup {x}) : d[i] = j[i]
  BY <1>1, <1>2, <1>3, AdoptedIs
<1>5. \A i \in Live(j) \ {x} : d[i].members = j[i].members /\ d[i].subs = j[i].subs
  BY <1>4
<1> HIDE DEF d
<1>6. SplitInto(c, x, to, d)
  BY <1>1, <1>4, <1>5 DEF SplitInto, S
<1> QED
  BY <1>6 DEF d, j, S

\* The members and subclusters after e has moved to y.
MovedInto(c, e, y, d) ==
  /\ Live(d) = Live(c) \cup {y}
  /\ \A i \in Live(c) : /\ d[i].members = IF i = y THEN c[i].members \cup {e} ELSE c[i].members
                        /\ d[i].subs = c[i].subs
  /\ y \notin Live(c) => d[y].members = {e} /\ d[y].subs = {}

LEMMA MoveMembers ==
  ASSUME NEW c, Clusters(c, Ids), NEW e \in Entities, NEW y \in Ids
  PROVE  MovedInto(c, e, y, Joined(c, [a \in {e} |-> y]))
<1> DEFINE to == [a \in {e} |-> y]
           d == Joined(c, to)
<1>1. to \in [{e} -> Ids] /\ {e} \in SUBSET Entities /\ Range(to) = {y}
  BY DEF Range
<1>2. \A i : Joining(to, i) = IF i = y THEN {e} ELSE {}
  BY DEF Joining
<1> HIDE DEF to
<1>3. /\ Live(d) = Live(c) \cup Range(to)
      /\ \A i \in Live(c) : d[i].subs = c[i].subs /\ d[i].members = c[i].members \cup Joining(to, i)
      /\ \A i \in Live(d) \ Live(c) : d[i].subs = {} /\ d[i].members = Joining(to, i)
  BY <1>1, JoinedIs
<1> HIDE DEF d
<1>4. \A i \in Live(c) : /\ d[i].members = IF i = y THEN c[i].members \cup {e} ELSE c[i].members
                         /\ d[i].subs = c[i].subs
  BY <1>2, <1>3
<1>5. y \notin Live(c) => d[y].members = {e} /\ d[y].subs = {}
  BY <1>1, <1>2, <1>3
<1>6. MovedInto(c, e, y, d)
  BY <1>1, <1>3, <1>4, <1>5 DEF MovedInto
<1> QED
  BY <1>6 DEF d, to

LEMMA MoveTo ==
  ASSUME TreeInv, NEW e \in Entities, FillFirst(e) \/ FillNew(e) \/ FillOverflow(e)
  PROVE  \E y \in Here[splitting].subs \cup moved \cup Unused : Move(e, y)
<1>1. pc = "fill"
  BY DEF FillFirst, FillNew, FillOverflow, Move
<1>2. /\ notFull \in Seq(Ids) /\ full \in Seq(Ids) /\ candidate \in 1..MaxSize
      /\ Range(notFull) \cup Range(full) \subseteq Here[splitting].subs \cup moved
  BY <1>1, FillingIs DEF TypeOK
<1>3. CASE FillFirst(e)
  <2>1. notFull # <<>> /\ Move(e, Head(notFull))
    BY <1>3 DEF FillFirst
  <2>2. Head(notFull) \in Range(notFull)
    BY <1>2, <2>1 DEF Range
  <2> QED
    BY <1>2, <2>1, <2>2
<1>4. CASE FillNew(e)
  <2>1. CanMake({e}) /\ Move(e, FreshFor({e})[e])
    BY <1>4 DEF FillNew
  <2>2. FreshFor({e})[e] \in Unused
    BY <2>1, FreshIs
  <2> QED
    BY <2>1, <2>2
<1>5. CASE FillOverflow(e)
  <2>1. Len(full) >= MaxSize /\ Move(e, full[candidate])
    BY <1>5 DEF FillOverflow
  <2>2. candidate \in 1..Len(full)
    BY <1>2, <2>1, ContextTreeAssumption
  <2>3. full[candidate] \in Range(full)
    BY <1>2, <2>2 DEF Range
  <2> QED
    BY <1>2, <2>1, <2>3
<1> QED
  BY <1>3, <1>4, <1>5

\* What a move changes, and what it moves into.
LEMMA MoveIs ==
  ASSUME TreeInv, NEW e \in Entities, NEW y \in Here[splitting].subs \cup moved \cup Unused, Move(e, y)
  PROVE  /\ pc = "fill" /\ e \in rest /\ rest' = rest \ {e} /\ moved' = moved \cup {y}
         /\ y \in Ids /\ y # splitting
         /\ cluster' = [cluster EXCEPT ![target] = Joined(Here, [a \in {e} |-> y])]
         /\ Clusters(Joined(Here, [a \in {e} |-> y]), Ids)
         /\ MovedInto(Here, e, y, Joined(Here, [a \in {e} |-> y]))
         /\ home' = Rehomed(target, [a \in {e} |-> y])
         /\ UNCHANGED <<object, roots, view, pc, requestVars, stageVars, splitting, walkVars>>
<1>1. /\ pc = "fill" /\ e \in rest /\ rest' = rest \ {e} /\ moved' = moved \cup {y}
      /\ cluster' = [cluster EXCEPT ![target] = Joined(Here, [a \in {e} |-> y])]
      /\ home' = Rehomed(target, [a \in {e} |-> y])
      /\ UNCHANGED <<object, roots, view, pc, requestVars, stageVars, splitting, walkVars>>
  BY DEF Move
<1>2. /\ TypeOK /\ target \in Contexts /\ Clusters(Here, Ids) /\ Tree(Here)
      /\ splitting \in Live(Here) /\ moved \subseteq Live(Here) /\ splitting \notin moved
  BY <1>1, FillingIs
<1>3. y \in Ids /\ y # splitting
  <2>1. Here[splitting].subs \subseteq Live(Here) /\ splitting \notin Here[splitting].subs
    BY <1>2, NotOwnParent DEF Tree, Links
  <2>2. Unused \cap Live(Here) = {} /\ Live(Here) \subseteq Ids /\ Unused \subseteq Ids
    BY <1>2, UnusedIs, HereIs DEF Here
  <2> QED
    BY <1>2, <2>1, <2>2
<1>4. MovedInto(Here, e, y, Joined(Here, [a \in {e} |-> y]))
  BY <1>2, <1>3, MoveMembers
<1>5. Clusters(Joined(Here, [a \in {e} |-> y]), Ids)
  <2> DEFINE to == [a \in {e} |-> y]
  <2>1. to \in [{e} -> Ids] /\ {e} \in SUBSET Entities
    BY <1>3
  <2> HIDE DEF to
  <2>2. Clusters(Joined(Here, to), Ids)
    BY <1>2, <2>1, JoinedIs
  <2> QED
    BY <2>2 DEF to
<1> QED
  BY <1>1, <1>3, <1>4, <1>5

-----------------------------------------------------------------------------
(* Clusters that are too large, or that have members beside subclusters    *)

\* They are clusters of the request's context that it will still split.
Pending == toSplit \cup results \cup moved \cup {splitting}
BoundOK ==
  \A k \in Contexts : \A i \in Live(cluster[k]) :
    IsCandidate(cluster[k][i]) => k = target /\ i \in Pending
BoundInv == TreeInv /\ BoundOK

LEMMA CandidateIs ==
  ASSUME NEW x \in Cluster, NEW y \in Cluster, x.members \subseteq y.members, x.subs \subseteq y.subs,
         IsCandidate(x)
  PROVE  IsCandidate(y)
<1>1. IsFiniteSet(y.members)
  BY ContextTreeAssumption, FS_Subset DEF Cluster
<1>2. IsFiniteSet(x.members) /\ Cardinality(x.members) <= Cardinality(y.members)
  BY <1>1, FS_Subset
<1>3. Cardinality(x.members) \in Nat /\ Cardinality(y.members) \in Nat
  BY <1>1, <1>2, FS_CardinalityType
<1>4. TooLarge(x) => TooLarge(y)
  BY <1>2, <1>3, ContextTreeAssumption DEF TooLarge
<1>5. NonLeaf(x) => NonLeaf(y)
  BY DEF NonLeaf
<1> QED
  BY <1>4, <1>5 DEF IsCandidate

LEMMA NoCandidateIs ==
  ASSUME NEW x \in Cluster, x.members = {}
  PROVE  ~IsCandidate(x)
<1>1. Cardinality(x.members) = 0
  BY FS_EmptySet
<1> QED
  BY <1>1, ContextTreeAssumption DEF IsCandidate, TooLarge, NonLeaf

LEMMA BoundChanged ==
  ASSUME TypeOK, BoundOK, NEW k \in Contexts, NEW c, Clusters(c, Ids),
         cluster' = [cluster EXCEPT ![k] = c], target' = k,
         target = k \/ Pending = {None},
         \A i \in Live(c) : IsCandidate(c[i]) => i \in Pending'
  PROVE  BoundOK'
<1>1. cluster'[k] = c /\ \A j \in Contexts \ {k} : cluster'[j] = cluster[j]
  BY ClusterChanged
<1>2. \A j \in Contexts \ {k} : \A i \in Live(cluster[j]) : ~IsCandidate(cluster[j][i])
  BY HereIs DEF BoundOK
<1>3. ASSUME NEW j \in Contexts, NEW i \in Live(cluster'[j]), IsCandidate(cluster'[j][i])
      PROVE  j = target' /\ i \in Pending'
  BY <1>1, <1>2, <1>3
<1> QED
  BY <1>3 DEF BoundOK

\* A step that leaves less of the clusters, while none is to be split.
LEMMA BoundShrunk ==
  ASSUME TypeOK, BoundOK, Pending = {None}, target \in Contexts, NEW c, Clusters(c, Ids),
         cluster' = [cluster EXCEPT ![target] = c], target' = target,
         Live(c) \subseteq Live(Here),
         \A i \in Live(c) : c[i].members \subseteq Here[i].members /\ c[i].subs \subseteq Here[i].subs
  PROVE  BoundOK'
<1>1. ASSUME NEW i \in Live(c), IsCandidate(c[i])
      PROVE  FALSE
  <2>1. i \in Live(Here) /\ Clusters(Here, Ids)
    BY HereIs DEF Here
  <2>2. c[i] \in Cluster /\ Here[i] \in Cluster
    BY <2>1, LiveIs
  <2>3. IsCandidate(Here[i])
    BY <1>1, <2>2, CandidateIs
  <2>4. i \in Pending
    BY <2>1, <2>3 DEF BoundOK, Here
  <2> QED
    BY <2>1, <2>4, HereIs DEF Here
<1> QED
  BY <1>1, BoundChanged

\* A step that changes no cluster and leaves all that is to be split.
LEMMA BoundKept ==
  ASSUME BoundOK, cluster' = cluster, Pending = {None} \/ (target' = target /\ Pending \subseteq Pending'),
         TypeOK
  PROVE  BoundOK'
<1>1. \A k \in Contexts : None \notin Live(cluster[k])
  BY HereIs
<1> QED
  BY <1>1 DEF BoundOK

LEMMA InsertBound ==
  ASSUME BoundInv, NEW k \in Contexts, NEW E \in SUBSET Entities, NEW objects \in [E -> Objects],
         Insert(k, objects)
  PROVE  BoundOK'
<1>1. /\ pc = "idle" /\ target' = k /\ UNCHANGED fillVars
  BY DEF Insert, Request
<1>2. TypeOK /\ BoundOK /\ Pending = {None} /\ splitting = None /\ moved = {}
  BY <1>1 DEF BoundInv, TreeInv, FillOK, StagesOK, Pending
<1>3. Clusters(cluster[k], Ids)
  BY <1>2, HereIs
<1>4. CASE StartCollapse(k, cluster[k])
  <2>1. cluster' = cluster
    BY <1>2, <1>4 DEF StartCollapse, TypeOK
  <2> QED
    BY <1>2, <2>1, BoundKept
<1>5. ASSUME NEW to \in [NewTo(k, E) -> Ids], cluster' = [cluster EXCEPT ![k] = Joined(cluster[k], to)],
             results' = Range(to)
      PROVE  BoundOK'
  <2> DEFINE c == Joined(cluster[k], to)
  <2>1. NewTo(k, E) \in SUBSET Entities
    BY DEF NewTo
  <2>2. /\ Clusters(c, Ids) /\ Live(c) = Live(cluster[k]) \cup Range(to)
        /\ \A i \in Live(cluster[k]) :
             /\ c[i].subs = cluster[k][i].subs
             /\ c[i].members = cluster[k][i].members \cup Joining(to, i)
    BY <1>3, <2>1, JoinedIs
  <2> HIDE DEF c
  <2>3. ASSUME NEW i \in Live(c), IsCandidate(c[i])
        PROVE  i \in Range(to)
    <3>1. SUFFICES ASSUME i \notin Range(to) PROVE FALSE
      OBVIOUS
    <3>2. i \in Live(cluster[k]) /\ Joining(to, i) = {}
      BY <2>2, <3>1 DEF Joining, Range
    <3>3. c[i] \in Cluster /\ cluster[k][i] \in Cluster
      BY <1>3, <2>2, <3>2, LiveIs
    <3>4. c[i].members \subseteq cluster[k][i].members /\ c[i].subs \subseteq cluster[k][i].subs
      BY <2>2, <3>2
    <3>5. IsCandidate(cluster[k][i])
      BY <2>3, <3>3, <3>4, CandidateIs
    <3>6. i \in Pending
      BY <1>2, <3>2, <3>5 DEF BoundOK
    <3> QED
      BY <1>2, <3>2, <3>6, HereIs
  <2>4. \A i \in Live(c) : IsCandidate(c[i]) => i \in Pending'
    BY <1>5, <2>3 DEF Pending
  <2>5. cluster' = [cluster EXCEPT ![k] = c]
    BY <1>5 DEF c
  <2> QED
    BY <1>1, <1>2, <2>2, <2>4, <2>5, BoundChanged
<1> QED
  BY <1>4, <1>5, InsertTo

LEMMA SplitBound ==
  ASSUME BoundInv, NEW x \in Ids, Split(x)
  PROVE  BoundOK'
<1>1. /\ pc = "split" /\ toSplit' = toSplit \ {x}
      /\ x \in Live(Here) /\ x \notin Unused /\ Here[x].members \in SUBSET Entities
      /\ UNCHANGED <<object, roots, view, pc, requestVars, stage, modified, fillVars, walkVars>>
  BY SplitTo DEF BoundInv
<1>2. PICK to \in [Here[x].members -> Ids] :
        /\ Range(to) \subseteq Here[x].subs \cup Unused
        /\ cluster' = [cluster EXCEPT ![target] = Adopted(Joined(Here, to), x, Range(to))]
        /\ results' = results \cup Range(to)
  BY SplitTo DEF BoundInv
<1> DEFINE c == Adopted(Joined(Here, to), x, Range(to))
<1>3. /\ TypeOK /\ target \in Contexts /\ Clusters(Here, Ids) /\ Tree(Here) /\ RootKnown(Here)
      /\ splitting = None /\ moved = {} /\ BoundOK
  BY <1>1, SplittingIs DEF BoundInv
<1>4. Unused \cap Live(Here) = {}
  BY <1>3, UnusedIs DEF Here
<1>5. Clusters(c, Ids)
  BY <1>1, <1>2, <1>3, <1>4, SplitIs
<1>6. SplitInto(Here, x, to, c)
  BY <1>1, <1>2, <1>3, SplitMembers
<1>7. cluster' = [cluster EXCEPT ![target] = c]
  BY <1>2
<1> HIDE DEF c
<1>8. ASSUME NEW i \in Live(c), IsCandidate(c[i])
      PROVE  i \in Pending'
  <2>1. c[i] \in Cluster
    BY <1>5, LiveIs
  <2>2. i # x
    BY <1>6, <1>8, <2>1, NoCandidateIs DEF SplitInto
  <2>3. CASE i \in Range(to)
    BY <1>2, <2>3 DEF Pending
  <2>4. CASE i \notin Range(to)
    <3>1. i \in Live(Here) /\ Joining(to, i) = {}
      BY <1>6, <2>4 DEF SplitInto, Joining, Range
    <3>2. c[i].members \subseteq Here[i].members /\ c[i].subs \subseteq Here[i].subs
      BY <1>6, <2>2, <3>1 DEF SplitInto
    <3>3. Here[i] \in Cluster
      BY <1>3, <3>1, LiveIs
    <3>4. IsCandidate(Here[i])
      BY <1>8, <2>1, <3>2, <3>3, CandidateIs
    <3>5. i \in Pending
      BY <1>3, <3>1, <3>4 DEF BoundOK, Here
    <3> QED
      BY <1>1, <1>2, <2>2, <3>5 DEF Pending, fillVars
  <2> QED
    BY <2>3, <2>4
<1>9. target' = target
  BY <1>1 DEF requestVars
<1> QED
  BY <1>3, <1>5, <1>7, <1>8, <1>9, BoundChanged

LEMMA StartFillBound ==
  ASSUME BoundInv, NEW x \in Ids, StartFill(x)
  PROVE  BoundOK'
<1>1. /\ pc = "split" /\ toSplit' = toSplit \ {x} /\ splitting' = x /\ moved' = {}
      /\ results' = results /\ cluster' = cluster /\ target' = target
  BY DEF StartFill, LeftToSplit, dataVars, requestVars
<1>2. splitting = None /\ moved = {} /\ TypeOK /\ BoundOK
  BY <1>1, SplittingIs DEF BoundInv
<1>3. Pending \subseteq Pending' \cup {None}
  BY <1>1, <1>2 DEF Pending
<1>4. \A k \in Contexts : None \notin Live(cluster[k])
  BY <1>2, HereIs
<1> QED
  BY <1>1, <1>2, <1>3, <1>4 DEF BoundOK

LEMMA MoveBound ==
  ASSUME BoundInv, NEW e \in Entities, NEW y \in Here[splitting].subs \cup moved \cup Unused, Move(e, y)
  PROVE  BoundOK'
<1> DEFINE c == Joined(Here, [a \in {e} |-> y])
<1>1. /\ pc = "fill" /\ moved' = moved \cup {y}
      /\ cluster' = [cluster EXCEPT ![target] = c] /\ Clusters(c, Ids)
      /\ MovedInto(Here, e, y, c)
      /\ UNCHANGED <<requestVars, stageVars, splitting>>
  BY MoveIs DEF BoundInv
<1>2. TypeOK /\ target \in Contexts /\ Clusters(Here, Ids) /\ BoundOK
  BY <1>1, FillingIs DEF BoundInv
<1> HIDE DEF c
<1>3. ASSUME NEW i \in Live(c), IsCandidate(c[i])
      PROVE  i \in Pending'
  <2>1. CASE i = y
    BY <1>1, <2>1 DEF Pending
  <2>2. CASE i # y
    <3>1. /\ i \in Live(Here)
          /\ c[i].members \subseteq Here[i].members /\ c[i].subs \subseteq Here[i].subs
      BY <1>1, <2>2 DEF MovedInto
    <3>2. Here[i] \in Cluster /\ c[i] \in Cluster
      BY <1>1, <1>2, <3>1, LiveIs
    <3>3. IsCandidate(Here[i])
      BY <1>3, <3>1, <3>2, CandidateIs
    <3>4. i \in Pending
      BY <1>2, <3>1, <3>3 DEF BoundOK, Here
    <3> QED
      BY <1>1, <3>4 DEF Pending, stageVars
  <2> QED
    BY <2>1, <2>2
<1>4. target' = target
  BY <1>1 DEF requestVars
<1> QED
  BY <1>1, <1>2, <1>3, <1>4, BoundChanged

LEMMA EndFillBound ==
  ASSUME BoundInv, EndFill
  PROVE  BoundOK'
<1> DEFINE c == Adopted(Here, splitting, moved)
<1>1. /\ pc = "fill" /\ cluster' = [cluster EXCEPT ![target] = c]
      /\ results' = results \cup moved /\ toSplit' = toSplit /\ target' = target
  BY DEF EndFill, requestVars
<1>2. /\ TypeOK /\ target \in Contexts /\ Clusters(Here, Ids) /\ BoundOK
      /\ splitting \in Live(Here) /\ moved \subseteq Live(Here) /\ splitting \notin moved
  BY <1>1, FillingIs DEF BoundInv
<1>3. /\ Clusters(c, Ids) /\ Live(c) = Live(Here) /\ c[splitting].members = {}
      /\ \A i \in moved : c[i].members = Here[i].members /\ c[i].subs = Here[i].subs
      /\ \A i \in Live(Here) \ (moved \cup {splitting}) : c[i] = Here[i]
  BY <1>2, AdoptedIs
<1> HIDE DEF c
<1>4. ASSUME NEW i \in Live(c), IsCandidate(c[i])
      PROVE  i \in Pending'
  <2>1. c[i] \in Cluster
    BY <1>3, LiveIs
  <2>2. i # splitting
    BY <1>3, <1>4, <2>1, NoCandidateIs
  <2>3. CASE i \in moved
    BY <1>1, <2>3 DEF Pending
  <2>4. CASE i \notin moved
    <3>1. i \in Pending
      BY <1>2, <1>3, <1>4, <2>2, <2>4 DEF BoundOK, Here
    <3> QED
      BY <1>1, <2>2, <2>4, <3>1 DEF Pending
  <2> QED
    BY <2>3, <2>4
<1> QED
  BY <1>1, <1>2, <1>3, <1>4, BoundChanged

LEMMA NextStageBound ==
  ASSUME BoundInv, NextStage
  PROVE  BoundOK'
<1>1. /\ pc = "split" /\ toSplit = {} /\ toSplit' = ToSplitNext
      /\ cluster' = cluster /\ target' = target
  BY DEF NextStage, dataVars, requestVars
<1>2. splitting = None /\ moved = {} /\ TypeOK /\ BoundOK
  BY <1>1, SplittingIs DEF BoundInv
<1>3. \A k \in Contexts : None \notin Live(cluster[k])
  BY <1>2, HereIs
<1>4. ASSUME NEW k \in Contexts, NEW i \in Live(cluster[k]), IsCandidate(cluster[k][i])
      PROVE  k = target /\ i \in ToSplitNext
  <2>1. k = target /\ i \in Pending
    BY <1>2, <1>4 DEF BoundOK
  <2>2. i \in results
    BY <1>1, <1>2, <1>3, <2>1 DEF Pending
  <2> QED
    BY <1>4, <2>1, <2>2 DEF ToSplitNext, Here
<1> QED
  BY <1>1, <1>4 DEF BoundOK, Pending

LEMMA EndSplitBound ==
  ASSUME BoundInv, EndSplit
  PROVE  BoundOK'
<1> DEFINE c == Updated(Here, modified, Present(target))
<1>1. /\ pc = "split" /\ toSplit = {} /\ ToSplitNext = {} /\ target' = target
      /\ cluster' = [cluster EXCEPT ![target] = c]
  BY DEF EndSplit, requestVars, StartCollapse
<1>2. /\ splitting = None /\ moved = {} /\ TypeOK /\ BoundOK
      /\ target \in Contexts /\ Clusters(Here, Ids) /\ Tree(Here)
  BY <1>1, SplittingIs DEF BoundInv
<1>3. \A i \in Live(Here) : ~IsCandidate(Here[i])
  <2>1. None \notin Live(Here)
    BY <1>2, HereIs DEF Here
  <2>2. ASSUME NEW i \in Live(Here), IsCandidate(Here[i])
        PROVE  i \in results
    BY <1>1, <1>2, <2>1, <2>2 DEF BoundOK, Pending, Here
  <2> QED
    BY <1>1, <2>2 DEF ToSplitNext
<1>4. /\ Clusters(c, Ids) /\ Live(c) = Live(Here)
      /\ \A i \in Live(Here) :
           c[i].members \subseteq Here[i].members /\ c[i].subs = Here[i].subs
  <2>1. Links(Here)
    BY <1>2 DEF Tree
  <2> QED
    BY <1>2, <2>1, UpdatedFewer
<1> HIDE DEF c
<1>5. ASSUME NEW i \in Live(c)
      PROVE  ~IsCandidate(c[i])
  <2>1. c[i] \in Cluster /\ Here[i] \in Cluster /\ i \in Live(Here)
    BY <1>2, <1>4, LiveIs
  <2> QED
    BY <1>3, <1>4, <2>1, CandidateIs
<1> QED
  BY <1>1, <1>2, <1>4, <1>5, BoundChanged

LEMMA RemovingBound ==
  ASSUME BoundInv, pc = "remove"
  PROVE  TypeOK /\ BoundOK /\ Pending = {None} /\ target \in Contexts /\ Clusters(Here, Ids) /\ Links(Here)
BY RemovingIs DEF BoundInv, Pending, Tree

LEMMA RemoveAccountBound ==
  ASSUME BoundInv, NEW e \in Entities, RemoveAccount(e)
  PROVE  BoundOK'
<1> DEFINE p == ParentOf(target, e)
           c == IF p \in Live(Here) THEN [Here EXCEPT ![p].members = @ \ {e}] ELSE Here
<1>1. /\ pc = "remove" /\ target' = target
      /\ cluster' = IF p \in Live(Here)
                    THEN [cluster EXCEPT ![target][p].members = @ \ {e}] ELSE cluster
  BY DEF RemoveAccount, requestVars
<1>2. TypeOK /\ BoundOK /\ Pending = {None} /\ target \in Contexts /\ Clusters(Here, Ids)
  BY <1>1, RemovingBound
<1>3. cluster' = [cluster EXCEPT ![target] = c]
  BY <1>1, <1>2 DEF Here, TypeOK
<1> HIDE DEF p
<1>4. AccountOut(Here, e, p, c)
  BY <1>2, AccountOutIs
<1> HIDE DEF c
<1>5. /\ Clusters(c, Ids) /\ Live(c) \subseteq Live(Here)
      /\ \A i \in Live(c) : c[i].members \subseteq Here[i].members /\ c[i].subs \subseteq Here[i].subs
  BY <1>4 DEF AccountOut
<1> QED
  BY <1>1, <1>2, <1>3, <1>5, BoundShrunk

LEMMA RemoveClusterBound ==
  ASSUME BoundInv, NEW x \in Ids, RemoveCluster(x)
  PROVE  BoundOK'
<1> DEFINE gone == Below(Here, x)
           c == Without(Here, gone, x)
<1>1. /\ pc = "remove" /\ x \in Live(Here) /\ target' = target
      /\ cluster' = [cluster EXCEPT ![target] = c]
  BY DEF RemoveCluster, requestVars
<1>2. TypeOK /\ BoundOK /\ Pending = {None} /\ target \in Contexts /\ Clusters(Here, Ids) /\ Links(Here)
  BY <1>1, RemovingBound
<1>3. gone \in SUBSET Live(Here) /\ x \in gone
  BY <1>1, <1>2, BelowIs
<1> HIDE DEF gone
<1>4. /\ Clusters(c, Ids) /\ Live(c) = Live(Here) \ gone
      /\ \A i \in Live(Here) \ gone : c[i].members = Here[i].members /\ c[i].subs = Here[i].subs \ {x}
  BY <1>1, <1>2, <1>3, WithoutIs
<1> HIDE DEF c
<1>5. /\ Live(c) \subseteq Live(Here)
      /\ \A i \in Live(c) : c[i].members \subseteq Here[i].members /\ c[i].subs \subseteq Here[i].subs
  BY <1>4
<1> QED
  BY <1>1, <1>2, <1>4, <1>5, BoundShrunk

LEMMA PruneEmptyBound ==
  ASSUME BoundInv, PruneEmpty
  PROVE  BoundOK'
<1> DEFINE c == Without(Here, {lost}, lost)
<1>1. /\ pc = "remove" /\ lost # None /\ target' = target
      /\ cluster' = [cluster EXCEPT ![target] = c]
  BY DEF PruneEmpty, requestVars
<1>2. TypeOK /\ BoundOK /\ Pending = {None} /\ target \in Contexts /\ Clusters(Here, Ids) /\ Links(Here)
  BY <1>1, RemovingBound
<1>3. lost \in Live(Here) /\ {lost} \in SUBSET Live(Here) /\ lost \in {lost}
  BY <1>1, RemovingIs DEF BoundInv
<1>4. /\ Clusters(c, Ids) /\ Live(c) = Live(Here) \ {lost}
      /\ \A i \in Live(Here) \ {lost} : c[i].members = Here[i].members /\ c[i].subs = Here[i].subs \ {lost}
  BY <1>2, <1>3, WithoutIs
<1> HIDE DEF c
<1>5. /\ Live(c) \subseteq Live(Here)
      /\ \A i \in Live(c) : c[i].members \subseteq Here[i].members /\ c[i].subs \subseteq Here[i].subs
  BY <1>4
<1> QED
  BY <1>1, <1>2, <1>4, <1>5, BoundShrunk

LEMMA EndRemoveBound ==
  ASSUME BoundInv, EndRemove
  PROVE  BoundOK'
<1> DEFINE c == Updated(Here, roots[target], Present(target))
<1>1. pc = "remove" /\ target' = target /\ cluster' = [cluster EXCEPT ![target] = c]
  BY DEF EndRemove, requestVars, StartCollapse
<1>2. TypeOK /\ BoundOK /\ Pending = {None} /\ target \in Contexts /\ Clusters(Here, Ids) /\ Links(Here)
  BY <1>1, RemovingBound
<1>3. /\ Clusters(c, Ids) /\ Live(c) = Live(Here)
      /\ \A i \in Live(Here) :
           c[i].members \subseteq Here[i].members /\ c[i].subs = Here[i].subs
  BY <1>2, UpdatedFewer
<1> HIDE DEF c
<1>4. /\ Live(c) \subseteq Live(Here)
      /\ \A i \in Live(c) : c[i].members \subseteq Here[i].members /\ c[i].subs \subseteq Here[i].subs
  BY <1>3
<1> QED
  BY <1>1, <1>2, <1>3, <1>4, BoundShrunk

\* The steps that change no cluster and that find nothing to be split.
LEMMA OtherBound ==
  ASSUME BoundInv, cluster' = cluster, pc \notin {"split", "fill"}
  PROVE  BoundOK'
<1>1. TypeOK /\ BoundOK /\ Pending = {None}
  BY DEF BoundInv, TreeInv, FillOK, StagesOK, Pending
<1> QED
  BY <1>1, BoundKept

LEMMA NextBound == BoundInv /\ [Next]_vars => BoundOK'
<1> SUFFICES ASSUME BoundInv, [Next]_vars
             PROVE  BoundOK'
  OBVIOUS
<1>1. CASE UNCHANGED vars
  BY <1>1, BoundKept DEF BoundInv, TreeInv, vars, dataVars, requestVars, stageVars, fillVars, Pending
<1>2. ASSUME NEW k \in Contexts, Begin(k)
      PROVE  BoundOK'
  <2>1. ASSUME NEW E \in Batches, InsertAccounts(k, E)
        PROVE  BoundOK'
    <3>1. PICK o \in [E -> Objects] : Insert(k, o)
      BY <2>1 DEF InsertAccounts
    <3>2. E \in SUBSET Entities
      BY ContextTreeAssumption
    <3> QED
      BY <3>1, <3>2, InsertBound
  <2>2. ASSUME NEW j \in Sources[k], NEW x, InsertCluster(k, j, x)
        PROVE  BoundOK'
    <3>1. PICK E \in SUBSET Entities : \E o \in [E -> Objects] : Insert(k, o)
      BY <2>2, ClusterInserted DEF BoundInv
    <3> QED
      BY <3>1, InsertBound
  <2>3. ASSUME NEW d, RemoveMembers(k, d)
        PROVE  BoundOK'
    BY <2>3, OtherBound DEF RemoveMembers, Request, dataVars
  <2> QED
    BY <1>2, <2>1, <2>2, <2>3 DEF Begin
<1>3. CASE Work
  <2>1. ASSUME NEW x \in Ids, Split(x) \/ StartFill(x) \/ RemoveCluster(x)
        PROVE  BoundOK'
    BY <2>1, SplitBound, StartFillBound, RemoveClusterBound
  <2>2. ASSUME NEW e \in Entities, FillFirst(e) \/ FillNew(e) \/ FillOverflow(e)
        PROVE  BoundOK'
    BY <2>2, MoveTo, MoveBound DEF BoundInv
  <2>3. ASSUME NEW e \in Entities, RemoveAccount(e)
        PROVE  BoundOK'
    BY <2>3, RemoveAccountBound
  <2>4. CASE EndFill \/ NextStage \/ EndSplit \/ PruneEmpty \/ EndRemove
    BY <2>4, EndFillBound, NextStageBound, EndSplitBound, PruneEmptyBound, EndRemoveBound
  <2>5. CASE PruneEnds
    BY <2>5, OtherBound DEF PruneEnds, dataVars
  <2>6. ASSUME NEW x \in todo, DropChainRoot(x) \/ DropChain(x) \/ DropSingletonRoot(x)
                               \/ DropSingleton(x) \/ Keep(x)
        PROVE  BoundOK'
    <3>1. pc = "collapse" /\ cluster' = cluster
      BY <2>6 DEF DropChainRoot, DropChain, DropSingletonRoot, DropSingleton, Keep, MayVisit, Visit
    <3> QED
      BY <3>1, OtherBound
  <2>7. CASE EndCollapse
    BY <2>7, OtherBound DEF EndCollapse
  <2> QED
    BY <1>3, <2>1, <2>2, <2>3, <2>4, <2>5, <2>6, <2>7 DEF Work
<1> QED
  BY <1>1, <1>2, <1>3 DEF Next

\* GeneralEntityClusterer.clusterEntities leaves no cluster that is larger than
\* the limit or has members beside subclusters: each of them is one that it is
\* still to split.
THEOREM ClustersBounded == Spec => []LeavesBounded
<1>1. Init => BoundOK
  BY DEF Init, NoClusters, BoundOK, Live
<1>2. BoundInv /\ [Next]_vars => BoundInv'
  BY NextTree, NextBound DEF BoundInv
<1>3. ASSUME BoundInv, pc = "idle", NEW k \in Contexts, NEW i \in Live(cluster[k])
      PROVE  LET x == cluster[k][i] IN
             Cardinality(x.members) <= MaxSize /\ (x.members = {} \/ x.subs = {})
  <2> DEFINE x == cluster[k][i]
  <2>1. TypeOK /\ BoundOK /\ Pending = {None}
    BY <1>3 DEF BoundInv, TreeInv, FillOK, StagesOK, Pending
  <2>2. i # None /\ x \in Cluster
    BY <2>1, HereIs
  <2>3. ~IsCandidate(x)
    BY <2>1, <2>2 DEF BoundOK
  <2>4. Cardinality(x.members) \in Nat
    BY <2>2, ContextTreeAssumption, FS_Subset, FS_CardinalityType DEF Cluster
  <2> HIDE DEF x
  <2> QED
    BY <2>3, <2>4, ContextTreeAssumption DEF IsCandidate, TooLarge, NonLeaf, x
<1>4. BoundInv => LeavesBounded
  BY <1>3 DEF LeavesBounded
<1> QED
  BY <1>1, <1>2, <1>4, InitTree, PTL DEF Spec, BoundInv

-----------------------------------------------------------------------------
(* Where accounts are                                                      *)

\* While a cluster is split by size, those of its members that have moved are in
\* two places, and the rest of them counts.
Held(c, x, left, i) == IF i = x THEN left ELSE c[i].members
\* The accounts P are each in one cluster; and no other account is in any.
Placed(c, x, left, P) ==
  /\ \A e \in P : \E i \in Live(c) : e \in Held(c, x, left, i)
  /\ \A e \in P : \A i, j \in Live(c) :
       e \in Held(c, x, left, i) /\ e \in Held(c, x, left, j) => i = j
Within(c, x, left, P) == \A i \in Live(c) : Held(c, x, left, i) \subseteq P

InHand(k) == IF k = target THEN splitting ELSE None
PlacedOK ==
  \A k \in Contexts :
    /\ Placed(cluster[k], InHand(k), rest, Present(k))
    /\ (pc = "remove" /\ k = target) \/ Within(cluster[k], InHand(k), rest, Present(k))
PlacedInv == TreeInv /\ PlacedOK

LEMMA PlacedChanged ==
  ASSUME TypeOK, PlacedOK, NEW k \in Contexts, NEW c, Clusters(c, Ids),
         cluster' = [cluster EXCEPT ![k] = c], target' = k,
         target = k \/ (splitting = None /\ pc # "remove"),
         splitting' = None \/ target = k,
         \A j \in Contexts \ {k} : object'[j] = object[j],
         Placed(c, splitting', rest', Present(k)'),
         pc' = "remove" \/ Within(c, splitting', rest', Present(k)')
  PROVE  PlacedOK'
<1>1. cluster'[k] = c /\ \A j \in Contexts \ {k} : cluster'[j] = cluster[j]
  BY ClusterChanged
<1>2. /\ Placed(cluster'[k], InHand(k)', rest', Present(k)')
      /\ (pc' = "remove" /\ k = target') \/ Within(cluster'[k], InHand(k)', rest', Present(k)')
  BY <1>1 DEF InHand
<1>3. ASSUME NEW j \in Contexts \ {k}
      PROVE  /\ Placed(cluster'[j], InHand(j)', rest', Present(j)')
             /\ Within(cluster'[j], InHand(j)', rest', Present(j)')
  <2>1. InHand(j)' = None /\ InHand(j) = None
    BY DEF InHand
  <2>2. Present(j)' = Present(j) /\ cluster'[j] = cluster[j]
    BY <1>1 DEF Present
  <2>3. Placed(cluster[j], None, rest, Present(j)) /\ Within(cluster[j], None, rest, Present(j))
    BY <2>1 DEF PlacedOK
  <2>4. \A i \in Live(cluster[j]) :
          Held(cluster[j], None, rest, i) = Held(cluster[j], None, rest', i)
    BY HereIs DEF Held
  <2>5. Placed(cluster[j], None, rest', Present(j)) /\ Within(cluster[j], None, rest', Present(j))
    BY <2>3, <2>4 DEF Placed, Within
  <2> QED
    BY <2>1, <2>2, <2>5
<1> QED
  BY <1>2, <1>3 DEF PlacedOK

\* Clusters that stay, with what is in hand.
LEMMA PlacedStays ==
  ASSUME TypeOK, PlacedOK, cluster' = cluster, object' = object,
         splitting = None, splitting' = None,
         pc = "remove" => target' = target /\ pc' = "remove"
  PROVE  PlacedOK'
<1> SUFFICES ASSUME NEW k \in Contexts
             PROVE  /\ Placed(cluster[k], None, rest', Present(k))
                    /\ (pc' = "remove" /\ k = target') \/ Within(cluster[k], None, rest', Present(k))
  BY DEF PlacedOK, InHand, Present
<1>1. \A i \in Live(cluster[k]) : Held(cluster[k], None, rest, i) = Held(cluster[k], None, rest', i)
  BY HereIs DEF Held
<1>2. /\ Placed(cluster[k], None, rest, Present(k))
      /\ (pc = "remove" /\ k = target) \/ Within(cluster[k], None, rest, Present(k))
  BY DEF PlacedOK, InHand
<1>3. Placed(cluster[k], None, rest', Present(k))
  BY <1>1, <1>2 DEF Placed
<1>4. Within(cluster[k], None, rest, Present(k)) => Within(cluster[k], None, rest', Present(k))
  BY <1>1 DEF Within
<1> QED
  BY <1>2, <1>3, <1>4

\* Accounts that are new to the clusters join them.
LEMMA JoinedPlaced ==
  ASSUME NEW c, Clusters(c, Ids), NEW P, NEW left, NEW new \in SUBSET Entities, NEW to \in [new -> Ids],
         new \cap P = {}, Placed(c, None, left, P), Within(c, None, left, P), None \notin Ids
  PROVE  /\ Placed(Joined(c, to), None, left, P \cup new)
         /\ Within(Joined(c, to), None, left, P \cup new)
<1> DEFINE d == Joined(c, to)
<1>1. /\ Clusters(d, Ids) /\ Live(d) = Live(c) \cup Range(to)
      /\ \A i \in Live(c) : d[i].members = c[i].members \cup Joining(to, i)
      /\ \A i \in Live(d) \ Live(c) : d[i].members = Joining(to, i)
  BY JoinedIs
<1> HIDE DEF d
<1>2. None \notin Live(c) /\ None \notin Live(d)
  BY <1>1, LiveIs
<1>3. \A e : \A i \in Live(d) : e \in Held(d, None, left, i) =>
        \/ i \in Live(c) /\ e \in Held(c, None, left, i) /\ e \in P
        \/ e \in new /\ to[e] = i /\ e \notin P
  BY <1>1, <1>2 DEF Held, Joining, Within
<1>4. \A e \in P : \A i \in Live(c) : e \in Held(c, None, left, i) => e \in Held(d, None, left, i)
  BY <1>1, <1>2 DEF Held
<1>5. \A e \in new : to[e] \in Live(d) /\ e \in Held(d, None, left, to[e])
  <2> TAKE e \in new
  <2>1. to[e] \in Range(to) /\ e \in Joining(to, to[e])
    BY DEF Range, Joining
  <2> QED
    BY <1>1, <1>2, <2>1 DEF Held
<1>6. \A e \in P \cup new : \E i \in Live(d) : e \in Held(d, None, left, i)
  BY <1>1, <1>4, <1>5 DEF Placed
<1>7. \A e \in P \cup new : \A i, j \in Live(d) :
        e \in Held(d, None, left, i) /\ e \in Held(d, None, left, j) => i = j
  BY <1>3 DEF Placed
<1>8. Within(d, None, left, P \cup new)
  BY <1>3 DEF Within
<1>9. Placed(d, None, left, P \cup new)
  BY <1>6, <1>7 DEF Placed
<1> QED
  BY <1>8, <1>9 DEF d

LEMMA InsertPlaced ==
  ASSUME PlacedInv, NEW k \in Contexts, NEW E \in SUBSET Entities, NEW objects \in [E -> Objects],
         Insert(k, objects)
  PROVE  PlacedOK'
<1> DEFINE new == NewTo(k, E)
<1>1. /\ pc = "idle" /\ target' = k /\ UNCHANGED fillVars
      /\ object' = [object EXCEPT ![k] = [e \in Entities |-> IF e \in new THEN objects[e] ELSE @[e]]]
  <2>1. DOMAIN objects = E
    OBVIOUS
  <2> QED
    BY <2>1 DEF Insert, Request
<1>2. TypeOK /\ PlacedOK /\ splitting = None /\ splitting' = None
  BY <1>1 DEF PlacedInv, TreeInv, FillOK, fillVars
<1>3. Clusters(cluster[k], Ids) /\ None \notin Ids
  BY <1>2, HereIs, ContextTreeAssumption
<1>4. /\ Placed(cluster[k], None, rest, Present(k)) /\ Within(cluster[k], None, rest, Present(k))
      /\ rest' = rest
  BY <1>1, <1>2 DEF PlacedOK, InHand, fillVars
<1>5. new \in SUBSET Entities /\ new \cap Present(k) = {}
  BY DEF NewTo
<1>6. Present(k)' = Present(k) \cup new /\ \A j \in Contexts \ {k} : object'[j] = object[j]
  <2>1. /\ object'[k] = [e \in Entities |-> IF e \in new THEN objects[e] ELSE object[k][e]]
        /\ \A j \in Contexts \ {k} : object'[j] = object[j]
    BY <1>1, <1>2 DEF TypeOK
  <2>2. \A e \in new : objects[e] \in Objects /\ objects[e] # None
    BY ContextTreeAssumption DEF NewTo
  <2> QED
    BY <2>1, <2>2, <1>5 DEF Present
<1>7. CASE new = {} /\ StartCollapse(k, cluster[k])
  <2>1. cluster' = [cluster EXCEPT ![k] = cluster[k]]
    BY <1>7 DEF StartCollapse
  <2>2. Present(k)' = Present(k)
    BY <1>6, <1>7
  <2> QED
    BY <1>1, <1>2, <1>3, <1>4, <1>6, <2>1, <2>2, PlacedChanged
<1>8. ASSUME NEW to \in [new -> Ids], cluster' = [cluster EXCEPT ![k] = Joined(cluster[k], to)]
      PROVE  PlacedOK'
  <2> DEFINE c == Joined(cluster[k], to)
  <2>1. /\ Placed(c, None, rest, Present(k) \cup new)
        /\ Within(c, None, rest, Present(k) \cup new)
    BY <1>3, <1>4, <1>5, JoinedPlaced
  <2>2. Clusters(c, Ids)
    BY <1>3, <1>5, JoinedIs
  <2>3. cluster' = [cluster EXCEPT ![k] = c]
    BY <1>8
  <2> HIDE DEF c, new
  <2> QED
    BY <1>1, <1>2, <1>4, <1>6, <2>1, <2>2, <2>3, PlacedChanged
<1> QED
  BY <1>7, <1>8, InsertTo

\* The context a request works on.
LEMMA PlacedHere ==
  ASSUME PlacedInv
  PROVE  /\ TypeOK /\ PlacedOK /\ target \in Contexts /\ Clusters(Here, Ids)
         /\ None \notin Live(Here)
         /\ Placed(Here, splitting, rest, Present(target))
         /\ pc # "remove" => Within(Here, splitting, rest, Present(target))
<1>1. TypeOK /\ PlacedOK /\ target \in Contexts
  BY DEF PlacedInv, TreeInv, TypeOK
<1> QED
  BY <1>1, HereIs DEF PlacedOK, InHand, Here

LEMMA SplitPlaced ==
  ASSUME PlacedInv, NEW x \in Ids, Split(x)
  PROVE  PlacedOK'
<1>1. /\ pc = "split" /\ x \in Live(Here) /\ x \notin Unused /\ Unused \cap Live(Here) = {}
      /\ Here[x].members \in SUBSET Entities
      /\ UNCHANGED <<object, roots, view, pc, requestVars, stage, modified, fillVars, walkVars>>
  BY SplitTo DEF PlacedInv
<1>2. PICK to \in [Here[x].members -> Ids] :
        /\ Range(to) \subseteq Here[x].subs \cup Unused
        /\ cluster' = [cluster EXCEPT ![target] = Adopted(Joined(Here, to), x, Range(to))]
  BY SplitTo DEF PlacedInv
<1> DEFINE c == Adopted(Joined(Here, to), x, Range(to))
<1>3. /\ TypeOK /\ Clusters(Here, Ids) /\ Tree(Here) /\ RootKnown(Here) /\ splitting = None
      /\ splitting' = None /\ rest' = rest
  BY <1>1, SplittingIs DEF PlacedInv, fillVars
<1>4. Clusters(c, Ids) /\ SplitInto(Here, x, to, c)
  BY <1>1, <1>2, <1>3, SplitIs, SplitMembers
<1>5. cluster' = [cluster EXCEPT ![target] = c]
  BY <1>2
<1> HIDE DEF c
<1> DEFINE P == Present(target)
<1>6. /\ Placed(Here, None, rest, P) /\ Within(Here, None, rest, P) /\ None \notin Live(Here)
      /\ PlacedOK /\ target \in Contexts
  BY <1>1, <1>3, PlacedHere
<1>7. None \notin Live(c) /\ x \notin Range(to)
  <2>1. x \notin Here[x].subs
    BY <1>1, <1>3, NotOwnParent
  <2>2. Live(c) \subseteq Ids
    BY <1>4, LiveIs
  <2> QED
    BY <1>1, <1>2, <2>1, <2>2, ContextTreeAssumption
<1>8. \A e : \A i \in Live(c) : e \in Held(c, None, rest, i) =>
        \/ i \in Live(Here) /\ i # x /\ e \in Held(Here, None, rest, i)
        \/ e \in Held(Here, None, rest, x) /\ to[e] = i
  BY <1>1, <1>4, <1>6, <1>7 DEF Held, SplitInto, Joining
<1>9. \A e : \A i \in Live(Here) \ {x} :
        e \in Held(Here, None, rest, i) => e \in Held(c, None, rest, i) /\ i \in Live(c)
  BY <1>4, <1>6, <1>7 DEF Held, SplitInto
<1>10. \A e \in Held(Here, None, rest, x) : to[e] \in Live(c) /\ e \in Held(c, None, rest, to[e])
  <2> TAKE e \in Held(Here, None, rest, x)
  <2>1. e \in Here[x].members
    BY <1>1, <1>6 DEF Held
  <2>2. to[e] \in Range(to) /\ e \in Joining(to, to[e])
    BY <2>1 DEF Range, Joining
  <2> QED
    BY <1>4, <1>7, <2>2 DEF Held, SplitInto
<1>11. \A e \in P : \E i \in Live(c) : e \in Held(c, None, rest, i)
  BY <1>6, <1>9, <1>10 DEF Placed
<1>12. \A e \in P : \A i, j \in Live(c) :
         e \in Held(c, None, rest, i) /\ e \in Held(c, None, rest, j) => i = j
  BY <1>1, <1>6, <1>8 DEF Placed
<1>13. Within(c, None, rest, P)
  BY <1>1, <1>6, <1>8 DEF Within
<1>14. Placed(c, None, rest, P)
  BY <1>11, <1>12 DEF Placed
<1>15. P' = P /\ target' = target /\ \A j \in Contexts \ {target} : object'[j] = object[j]
  BY <1>1 DEF Present, requestVars
<1> HIDE DEF P
<1>16. Placed(c, splitting', rest', P') /\ Within(c, splitting', rest', P')
  BY <1>3, <1>13, <1>14, <1>15
<1> QED
  BY <1>3, <1>4, <1>5, <1>6, <1>15, <1>16, PlacedChanged DEF P

LEMMA StartFillPlaced ==
  ASSUME PlacedInv, NEW x \in Ids, StartFill(x)
  PROVE  PlacedOK'
<1>1. /\ pc = "split" /\ splitting' = x /\ rest' = Here[x].members /\ pc' = "fill"
      /\ object' = object /\ cluster' = cluster /\ target' = target
  BY DEF StartFill, Go, dataVars, requestVars
<1>2. splitting = None
  BY <1>1, SplittingIs DEF PlacedInv
<1>3. /\ TypeOK /\ PlacedOK /\ target \in Contexts /\ Clusters(Here, Ids) /\ None \notin Live(Here)
      /\ Placed(Here, None, rest, Present(target)) /\ Within(Here, None, rest, Present(target))
  BY <1>1, <1>2, PlacedHere
<1>4. \A i \in Live(Here) : Held(Here, None, rest, i) = Held(Here, splitting', rest', i)
  BY <1>1, <1>3 DEF Held
<1>5. /\ Placed(Here, splitting', rest', Present(target))
      /\ Within(Here, splitting', rest', Present(target))
  BY <1>3, <1>4 DEF Placed, Within
<1>6. Present(target)' = Present(target)
  BY <1>1 DEF Present
<1>7. cluster' = [cluster EXCEPT ![target] = Here]
  BY <1>1, <1>3 DEF Here, TypeOK
<1>8. Placed(Here, splitting', rest', Present(target)') /\ Within(Here, splitting', rest', Present(target)')
  BY <1>5, <1>6
<1> QED
  BY <1>1, <1>3, <1>7, <1>8, PlacedChanged

LEMMA MovePlaced ==
  ASSUME PlacedInv, NEW e \in Entities, NEW y \in Here[splitting].subs \cup moved \cup Unused, Move(e, y)
  PROVE  PlacedOK'
<1> DEFINE c == Joined(Here, [a \in {e} |-> y])
           P == Present(target)
<1>1. /\ pc = "fill" /\ e \in rest /\ rest' = rest \ {e}
      /\ y \in Ids /\ y # splitting
      /\ cluster' = [cluster EXCEPT ![target] = c] /\ Clusters(c, Ids)
      /\ MovedInto(Here, e, y, c)
      /\ UNCHANGED <<object, roots, view, pc, requestVars, stageVars, splitting, walkVars>>
  BY MoveIs DEF PlacedInv
<1>2. splitting \in Live(Here)
  BY <1>1, FillingIs DEF PlacedInv
<1>3. /\ TypeOK /\ PlacedOK /\ target \in Contexts
      /\ Placed(Here, splitting, rest, P) /\ Within(Here, splitting, rest, P)
  BY <1>1, PlacedHere
<1> HIDE DEF c
<1>4. \A a : \A i \in Live(c) : a \in Held(c, splitting, rest', i) =>
        \/ a = e /\ i = y
        \/ a # e /\ i \in Live(Here) /\ a \in Held(Here, splitting, rest, i)
        \/ a = e /\ i # splitting /\ i \in Live(Here) /\ a \in Held(Here, splitting, rest, i)
  BY <1>1, <1>2 DEF Held, MovedInto
<1>5. \A a : \A i \in Live(Here) :
        a # e /\ a \in Held(Here, splitting, rest, i) => i \in Live(c) /\ a \in Held(c, splitting, rest', i)
  BY <1>1, <1>2 DEF Held, MovedInto
<1>6. y \in Live(c) /\ e \in Held(c, splitting, rest', y)
  BY <1>1, <1>2 DEF Held, MovedInto
<1>7. e \in P /\ \A i \in Live(Here) : e \in Held(Here, splitting, rest, i) => i = splitting
  BY <1>1, <1>2, <1>3 DEF Held, Placed, Within
<1>8. \A a \in P : \E i \in Live(c) : a \in Held(c, splitting, rest', i)
  BY <1>3, <1>5, <1>6 DEF Placed
<1>9. \A a \in P : \A i, j \in Live(c) :
        a \in Held(c, splitting, rest', i) /\ a \in Held(c, splitting, rest', j) => i = j
  BY <1>3, <1>4, <1>7 DEF Placed
<1>10. Within(c, splitting, rest', P)
  BY <1>3, <1>4, <1>7 DEF Within
<1>11. Placed(c, splitting, rest', P)
  BY <1>8, <1>9 DEF Placed
<1>12. P' = P /\ target' = target /\ splitting' = splitting /\ object' = object
  BY <1>1 DEF Present, requestVars
<1> HIDE DEF P
<1>13. Placed(c, splitting', rest', P') /\ Within(c, splitting', rest', P')
  BY <1>10, <1>11, <1>12
<1> QED
  BY <1>1, <1>3, <1>12, <1>13, PlacedChanged DEF P

LEMMA EndFillPlaced ==
  ASSUME PlacedInv, EndFill
  PROVE  PlacedOK'
<1> DEFINE c == Adopted(Here, splitting, moved)
           P == Present(target)
<1>1. /\ pc = "fill" /\ rest = {} /\ rest' = rest /\ cluster' = [cluster EXCEPT ![target] = c]
      /\ splitting' = None /\ object' = object /\ target' = target
  BY DEF EndFill, requestVars
<1>2. splitting \in Live(Here) /\ moved \subseteq Live(Here) /\ splitting \notin moved
  BY <1>1, FillingIs DEF PlacedInv
<1>3. /\ TypeOK /\ PlacedOK /\ target \in Contexts /\ Clusters(Here, Ids)  /\ None \notin Live(Here)
      /\ Placed(Here, splitting, rest, P) /\ Within(Here, splitting, rest, P)
  BY <1>1, PlacedHere
<1>4. /\ Clusters(c, Ids) /\ Live(c) = Live(Here) /\ c[splitting].members = {}
      /\ \A i \in moved : c[i].members = Here[i].members
      /\ \A i \in Live(Here) \ (moved \cup {splitting}) : c[i] = Here[i]
  BY <1>2, <1>3, AdoptedIs
<1> HIDE DEF c
<1>5. \A i \in Live(Here) : Held(c, None, rest, i) = Held(Here, splitting, rest, i)
  BY <1>1, <1>3, <1>4 DEF Held
<1>6. Placed(c, None, rest, P) /\ Within(c, None, rest, P)
  BY <1>3, <1>4, <1>5 DEF Placed, Within
<1>7. P' = P
  BY <1>1 DEF Present
<1> HIDE DEF P
<1>8. Placed(c, splitting', rest', P') /\ Within(c, splitting', rest', P')
  BY <1>1, <1>6, <1>7
<1> QED
  BY <1>1, <1>3, <1>4, <1>8, PlacedChanged DEF P

\* The accounts that are present are what Updated leaves in the clusters.
LEMMA UpdatedPlaced ==
  ASSUME NEW c, Clusters(c, Ids), Links(c), NEW left, NEW S, NEW P,
         Placed(c, None, left, P), None \notin Live(c),
         Live(c) \subseteq Under(c, S) \/ Within(c, None, left, P)
  PROVE  /\ Placed(Updated(c, S, P), None, left, P)
         /\ Within(Updated(c, S, P), None, left, P)
<1> DEFINE d == Updated(c, S, P)
<1>1. /\ Clusters(d, Ids) /\ Live(d) = Live(c)
      /\ \A i \in Live(c) :
           /\ d[i].parent = c[i].parent /\ d[i].root = c[i].root /\ d[i].subs = c[i].subs
           /\ d[i].members = IF i \in Under(c, S) THEN c[i].members \cap P ELSE c[i].members
  BY UpdatedIs
<1> HIDE DEF d
<1>2. \A i \in Live(c) : d[i].members = c[i].members \cap P
  BY <1>1 DEF Within, Held
<1>3. \A i \in Live(c) : Held(d, None, left, i) = Held(c, None, left, i) \cap P
  BY <1>2 DEF Held
<1>4. Placed(d, None, left, P)
  BY <1>1, <1>3 DEF Placed
<1>5. Within(d, None, left, P)
  BY <1>1, <1>3 DEF Within
<1> QED
  BY <1>4, <1>5 DEF d

LEMMA EndSplitPlaced ==
  ASSUME PlacedInv, EndSplit
  PROVE  PlacedOK'
<1> DEFINE P == Present(target)
           c == Updated(Here, modified, P)
<1>1. /\ pc = "split" /\ target' = target /\ object' = object
      /\ cluster' = [cluster EXCEPT ![target] = c] /\ UNCHANGED fillVars
  BY DEF EndSplit, requestVars, StartCollapse
<1>2. splitting = None /\ splitting' = None /\ rest' = rest /\ Tree(Here)
  BY <1>1, SplittingIs DEF PlacedInv, fillVars
<1>3. /\ TypeOK /\ PlacedOK /\ target \in Contexts /\ Clusters(Here, Ids) /\ None \notin Live(Here)
      /\ Placed(Here, None, rest, P) /\ Within(Here, None, rest, P)
  BY <1>1, <1>2, PlacedHere
<1>4. Links(Here)
  BY <1>2 DEF Tree
<1>5. P' = P
  BY <1>1 DEF Present
<1> HIDE DEF P
<1>6. Clusters(c, Ids) /\ Placed(c, None, rest, P) /\ Within(c, None, rest, P)
  BY <1>3, <1>4, UpdatedFewer, UpdatedPlaced
<1>7. Placed(c, splitting', rest', P') /\ Within(c, splitting', rest', P')
  BY <1>2, <1>5, <1>6
<1> HIDE DEF c
<1> QED
  BY <1>1, <1>2, <1>3, <1>6, <1>7, PlacedChanged DEF P

\* While accounts and clusters are removed.
LEMMA RemovingPlaced ==
  ASSUME PlacedInv, pc = "remove"
  PROVE  /\ TypeOK /\ PlacedOK /\ target \in Contexts /\ Clusters(Here, Ids) /\ None \notin Live(Here)
         /\ splitting = None /\ Tree(Here) /\ Links(Here) /\ roots[target] = Tops(Here)
         /\ Placed(Here, None, rest, Present(target))
<1>1. splitting = None /\ Tree(Here) /\ roots[target] = Tops(Here)
  BY RemovingIs DEF PlacedInv
<1> QED
  BY <1>1, PlacedHere DEF Tree

\* A step of a removal takes clusters away in which nothing is that stays present,
\* and accounts that do not.
LEMMA RemovedPlaced ==
  ASSUME PlacedInv, pc = "remove", pc' = "remove", NEW c, Clusters(c, Ids),
         cluster' = [cluster EXCEPT ![target] = c], target' = target,
         splitting' = None, rest' = rest, Live(c) \subseteq Live(Here),
         \A j \in Contexts \ {target} : object'[j] = object[j],
         Present(target)' \subseteq Present(target),
         \A i \in Live(c) : c[i].members \subseteq Here[i].members,
         \A e \in Present(target)' : \A i \in Live(Here) :
           e \in Here[i].members => i \in Live(c) /\ e \in c[i].members
  PROVE  PlacedOK'
<1>1. /\ TypeOK /\ PlacedOK /\ target \in Contexts /\ None \notin Live(Here)
      /\ splitting = None /\ Placed(Here, None, rest, Present(target))
  BY RemovingPlaced
<1> DEFINE Q == Present(target)'
<1> HIDE DEF Q
<1>2. Q \subseteq Present(target)
  BY DEF Q
<1>3. \A i \in Live(c) : Held(c, None, rest, i) \subseteq Held(Here, None, rest, i)
  BY <1>1 DEF Held
<1>4. \A e \in Q : \A i \in Live(Here) :
        e \in Held(Here, None, rest, i) => i \in Live(c) /\ e \in Held(c, None, rest, i)
  BY <1>1 DEF Held, Q
<1>5. Placed(c, None, rest, Q)
  BY <1>1, <1>2, <1>3, <1>4 DEF Placed
<1>6. Placed(c, splitting', rest', Present(target)')
  BY <1>5 DEF Q
<1> QED
  BY <1>1, <1>6, PlacedChanged

LEMMA RemoveAccountPlaced ==
  ASSUME PlacedInv, NEW e \in Entities, RemoveAccount(e)
  PROVE  PlacedOK'
<1> DEFINE p == ParentOf(target, e)
           c == IF p \in Live(Here) THEN [Here EXCEPT ![p].members = @ \ {e}] ELSE Here
<1>1. /\ pc = "remove" /\ pc' = "remove" /\ target' = target /\ UNCHANGED fillVars
      /\ object' = [object EXCEPT ![target][e] = None]
      /\ cluster' = IF p \in Live(Here)
                    THEN [cluster EXCEPT ![target][p].members = @ \ {e}] ELSE cluster
  BY DEF RemoveAccount, requestVars
<1>2. /\ TypeOK /\ target \in Contexts /\ Clusters(Here, Ids) /\ splitting' = None /\ rest' = rest
  BY <1>1, RemovingPlaced DEF fillVars
<1>3. cluster' = [cluster EXCEPT ![target] = c]
  BY <1>1, <1>2 DEF Here, TypeOK
<1> HIDE DEF p
<1>4. AccountOut(Here, e, p, c)
  BY <1>2, AccountOutIs
<1> HIDE DEF c
<1>5. /\ Clusters(c, Ids) /\ Live(c) = Live(Here)
      /\ \A i \in Live(c) : c[i].members \subseteq Here[i].members
      /\ \A a : \A i \in Live(Here) : a # e /\ a \in Here[i].members => a \in c[i].members
  BY <1>4 DEF AccountOut
<1>6. \A j \in Contexts \ {target} : object'[j] = object[j]
  BY <1>1, <1>2 DEF TypeOK
<1>7. Present(target)' = Present(target) \ {e}
  <2>1. object'[target] = [object[target] EXCEPT ![e] = None]
    BY <1>1, <1>2 DEF TypeOK
  <2>2. object[target] \in [Entities -> Objects \cup {None}]
    BY <1>2 DEF TypeOK
  <2> QED
    BY <1>1, <2>1, <2>2 DEF Present
<1> QED
  BY <1>1, <1>2, <1>3, <1>5, <1>6, <1>7, RemovedPlaced

LEMMA RemoveClusterPlaced ==
  ASSUME PlacedInv, NEW x \in Ids, RemoveCluster(x)
  PROVE  PlacedOK'
<1> DEFINE gone == Below(Here, x)
           c == Without(Here, gone, x)
<1>1. /\ pc = "remove" /\ pc' = "remove" /\ x \in Live(Here) /\ target' = target /\ UNCHANGED fillVars
      /\ object' = [object EXCEPT ![target] =
                      [e \in Entities |-> IF e \in AccountsBelow(Here, x) THEN None ELSE @[e]]]
      /\ cluster' = [cluster EXCEPT ![target] = c]
  BY DEF RemoveCluster, requestVars
<1>2. /\ TypeOK /\ target \in Contexts /\ Clusters(Here, Ids) /\ Links(Here)
      /\ splitting' = None /\ rest' = rest
  BY <1>1, RemovingPlaced DEF fillVars
<1>3. gone \in SUBSET Live(Here) /\ x \in gone
  BY <1>1, <1>2, BelowIs
<1>4. \A i \in gone : \A e \in Here[i].members : e \in AccountsBelow(Here, x)
  BY DEF AccountsBelow
<1> HIDE DEF gone
<1>5. /\ Clusters(c, Ids) /\ Live(c) = Live(Here) \ gone
      /\ \A i \in Live(Here) \ gone : c[i].members = Here[i].members /\ c[i].subs = Here[i].subs \ {x}
  BY <1>1, <1>2, <1>3, WithoutIs
<1> HIDE DEF c
<1>6. /\ \A j \in Contexts \ {target} : object'[j] = object[j]
      /\ object'[target] =
           [e \in Entities |-> IF e \in AccountsBelow(Here, x) THEN None ELSE object[target][e]]
  BY <1>1, <1>2 DEF TypeOK
<1>7. /\ Present(target)' \subseteq Present(target)
      /\ \A e \in Present(target)' : e \notin AccountsBelow(Here, x)
  BY <1>1, <1>6 DEF Present
<1>8. /\ Live(c) \subseteq Live(Here)
      /\ \A i \in Live(c) : c[i].members \subseteq Here[i].members
      /\ \A e \in Present(target)' : \A i \in Live(Here) :
           e \in Here[i].members => i \in Live(c) /\ e \in c[i].members
  BY <1>4, <1>5, <1>7
<1> QED
  BY <1>1, <1>2, <1>5, <1>6, <1>7, <1>8, RemovedPlaced

LEMMA PruneEmptyPlaced ==
  ASSUME PlacedInv, PruneEmpty
  PROVE  PlacedOK'
<1> DEFINE c == Without(Here, {lost}, lost)
<1>1. /\ pc = "remove" /\ pc' = "remove" /\ lost # None /\ target' = target /\ UNCHANGED fillVars
      /\ Here[lost].members = {} /\ object' = object
      /\ cluster' = [cluster EXCEPT ![target] = c]
  BY DEF PruneEmpty, Empty, requestVars
<1>2. /\ TypeOK /\ target \in Contexts /\ Clusters(Here, Ids) /\ Links(Here)
      /\ splitting' = None /\ rest' = rest
  BY <1>1, RemovingPlaced DEF fillVars
<1>3. lost \in Live(Here) /\ {lost} \in SUBSET Live(Here) /\ lost \in {lost}
  BY <1>1, RemovingIs DEF PlacedInv
<1>4. /\ Clusters(c, Ids) /\ Live(c) = Live(Here) \ {lost}
      /\ \A i \in Live(Here) \ {lost} : c[i].members = Here[i].members /\ c[i].subs = Here[i].subs \ {lost}
  BY <1>2, <1>3, WithoutIs
<1> HIDE DEF c
<1>5. /\ Live(c) \subseteq Live(Here)
      /\ \A i \in Live(c) : c[i].members \subseteq Here[i].members
      /\ \A e \in Present(target)' : \A i \in Live(Here) :
           e \in Here[i].members => i \in Live(c) /\ e \in c[i].members
  BY <1>1, <1>4
<1>6. Present(target)' = Present(target) /\ \A j \in Contexts \ {target} : object'[j] = object[j]
  BY <1>1 DEF Present
<1> QED
  BY <1>1, <1>2, <1>4, <1>5, <1>6, RemovedPlaced

LEMMA EndRemovePlaced ==
  ASSUME PlacedInv, EndRemove
  PROVE  PlacedOK'
<1> DEFINE P == Present(target)
           c == Updated(Here, roots[target], P)
<1>1. /\ pc = "remove" /\ target' = target /\ object' = object
      /\ cluster' = [cluster EXCEPT ![target] = c] /\ UNCHANGED fillVars
  BY DEF EndRemove, requestVars, StartCollapse
<1>2. /\ TypeOK /\ PlacedOK /\ target \in Contexts /\ Clusters(Here, Ids) /\ None \notin Live(Here)
      /\ splitting = None /\ splitting' = None /\ rest' = rest
      /\ Tree(Here) /\ Links(Here) /\ roots[target] = Tops(Here) /\ Placed(Here, None, rest, P)
  BY <1>1, RemovingPlaced DEF fillVars
<1>3. Live(Here) \subseteq Under(Here, roots[target])
  BY <1>2, TreeLinked DEF Linked, Tops, Under
<1>4. P' = P
  BY <1>1 DEF Present
<1> HIDE DEF P
<1>5. Clusters(c, Ids) /\ Placed(c, None, rest, P) /\ Within(c, None, rest, P)
  BY <1>2, <1>3, UpdatedFewer, UpdatedPlaced
<1>6. Placed(c, splitting', rest', P') /\ Within(c, splitting', rest', P')
  BY <1>2, <1>4, <1>5
<1> HIDE DEF c
<1> QED
  BY <1>1, <1>2, <1>5, <1>6, PlacedChanged DEF P

\* The steps that change neither clusters nor accounts.
LEMMA OtherPlaced ==
  ASSUME PlacedInv, cluster' = cluster, object' = object, UNCHANGED fillVars, pc # "fill",
         pc = "remove" => target' = target /\ pc' = "remove"
  PROVE  PlacedOK'
<1>1. TypeOK /\ PlacedOK /\ splitting = None /\ splitting' = None
  BY DEF PlacedInv, TreeInv, FillOK, fillVars
<1> QED
  BY <1>1, PlacedStays

LEMMA NextPlaced == PlacedInv /\ [Next]_vars => PlacedOK'
<1> SUFFICES ASSUME PlacedInv, [Next]_vars
             PROVE  PlacedOK'
  OBVIOUS
<1>1. CASE UNCHANGED vars
  BY <1>1 DEF PlacedInv, PlacedOK, vars, dataVars, requestVars, fillVars, InHand, Present
<1>2. ASSUME NEW k \in Contexts, Begin(k)
      PROVE  PlacedOK'
  <2>1. ASSUME NEW E \in Batches, InsertAccounts(k, E)
        PROVE  PlacedOK'
    <3>1. PICK o \in [E -> Objects] : Insert(k, o)
      BY <2>1 DEF InsertAccounts
    <3>2. E \in SUBSET Entities
      BY ContextTreeAssumption
    <3> QED
      BY <3>1, <3>2, InsertPlaced
  <2>2. ASSUME NEW j \in Sources[k], NEW x, InsertCluster(k, j, x)
        PROVE  PlacedOK'
    <3>1. PICK E \in SUBSET Entities : \E o \in [E -> Objects] : Insert(k, o)
      BY <2>2, ClusterInserted DEF PlacedInv
    <3> QED
      BY <3>1, InsertPlaced
  <2>3. ASSUME NEW d, RemoveMembers(k, d)
        PROVE  PlacedOK'
    BY <2>3, OtherPlaced DEF RemoveMembers, Request, dataVars
  <2> QED
    BY <1>2, <2>1, <2>2, <2>3 DEF Begin
<1>3. CASE Work
  <2>1. ASSUME NEW x \in Ids, Split(x) \/ StartFill(x) \/ RemoveCluster(x)
        PROVE  PlacedOK'
    BY <2>1, SplitPlaced, StartFillPlaced, RemoveClusterPlaced
  <2>2. ASSUME NEW e \in Entities, FillFirst(e) \/ FillNew(e) \/ FillOverflow(e)
        PROVE  PlacedOK'
    BY <2>2, MoveTo, MovePlaced DEF PlacedInv
  <2>3. ASSUME NEW e \in Entities, RemoveAccount(e)
        PROVE  PlacedOK'
    BY <2>3, RemoveAccountPlaced
  <2>4. CASE EndFill \/ EndSplit \/ PruneEmpty \/ EndRemove
    BY <2>4, EndFillPlaced, EndSplitPlaced, PruneEmptyPlaced, EndRemovePlaced
  <2>5. CASE NextStage
    BY <2>5, OtherPlaced DEF NextStage, dataVars
  <2>6. CASE PruneEnds
    BY <2>6, OtherPlaced DEF PruneEnds, dataVars, requestVars
  <2>7. ASSUME NEW x \in todo, DropChainRoot(x) \/ DropChain(x) \/ DropSingletonRoot(x)
                               \/ DropSingleton(x) \/ Keep(x)
        PROVE  PlacedOK'
    <3>1. pc = "collapse" /\ cluster' = cluster /\ object' = object /\ UNCHANGED fillVars
      BY <2>7 DEF DropChainRoot, DropChain, DropSingletonRoot, DropSingleton, Keep, MayVisit, Visit
    <3> QED
      BY <3>1, OtherPlaced
  <2>8. CASE EndCollapse
    BY <2>8, OtherPlaced DEF EndCollapse
  <2> QED
    BY <1>3, <2>1, <2>2, <2>3, <2>4, <2>5, <2>6, <2>7, <2>8 DEF Work
<1> QED
  BY <1>1, <1>2, <1>3 DEF Next

LEMMA InitPlaced == Init => PlacedOK
<1> SUFFICES ASSUME Init
             PROVE  PlacedOK
  OBVIOUS
<1>1. \A k \in Contexts : Live(cluster[k]) = {} /\ Present(k) = {}
  BY DEF Init, NoClusters, Live, Present
<1> QED
  BY <1>1 DEF PlacedOK, Placed, Within

LEMMA PlacedAlways == Spec => []PlacedInv
<1>1. PlacedInv /\ [Next]_vars => PlacedInv'
  BY NextTree, NextPlaced DEF PlacedInv
<1> QED
  BY <1>1, InitTree, InitPlaced, PTL DEF Spec, PlacedInv

\* Every account of a context is a member of one of its clusters and of no other,
\* although contexts share account objects and an account names only the cluster
\* that setEntityCluster put it in last: what removeMembers then leaves behind,
\* updateClusterProperties takes away.
THEOREM AccountsInOneCluster == Spec => []AccountsPlaced
<1>1. ASSUME PlacedInv, pc = "idle", NEW k \in Contexts
      PROVE  LET c == cluster[k] IN
             /\ \A e \in Present(k) : Cardinality({i \in Live(c) : e \in c[i].members}) = 1
             /\ \A i \in Live(c) : c[i].members \subseteq Present(k)
  <2> DEFINE c == cluster[k]
  <2>1. TypeOK /\ PlacedOK /\ splitting = None
    BY <1>1 DEF PlacedInv, TreeInv, FillOK
  <2>2. None \notin Live(c)
    BY <2>1, HereIs
  <2>3. Placed(c, None, rest, Present(k)) /\ Within(c, None, rest, Present(k))
    BY <1>1, <2>1 DEF PlacedOK, InHand
  <2> HIDE DEF c
  <2>4. \A i \in Live(c) : Held(c, None, rest, i) = c[i].members
    BY <2>2 DEF Held
  <2>5. ASSUME NEW e \in Present(k)
        PROVE  Cardinality({i \in Live(c) : e \in c[i].members}) = 1
    <3>1. PICK i \in Live(c) : e \in c[i].members
      BY <2>3, <2>4, <2>5 DEF Placed
    <3>2. {j \in Live(c) : e \in c[j].members} = {i}
      BY <2>3, <2>4, <2>5, <3>1 DEF Placed
    <3> QED
      BY <3>2, FS_Singleton
  <2>6. \A i \in Live(c) : c[i].members \subseteq Present(k)
    BY <2>3, <2>4 DEF Within
  <2> QED
    BY <2>5, <2>6 DEF c
<1>2. PlacedInv => AccountsPlaced
  BY <1>1 DEF AccountsPlaced
<1> QED
  BY <1>2, PlacedAlways, PTL

-----------------------------------------------------------------------------
(* What the simplified context shows                                       *)

\* The accounts P, and no others, are each in one of the clusters.
Spread(c, P) ==
  /\ \A e \in P : \E i \in Live(c) : e \in c[i].members
  /\ \A i, j \in Live(c) : \A e \in c[i].members : e \in c[j].members => i = j
  /\ \A i \in Live(c) : c[i].members \subseteq P
Untidy(x) == IsChain(x) \/ IsSingleton(x)
Tidy(v, P) ==
  /\ Spread(v, P) /\ Tree(v)
  /\ Live(v) # {} => v[File] # None
  /\ \A i \in Live(v) \ {File} : ~Untidy(v[i])
ViewOK == \A k \in Contexts : (k # target \/ pc = "idle") => Tidy(view[k], Present(k))
\* A copy that has been visited is no chain and no singleton any more, also when
\* those next to it are visited; what has gone up to the file is in no copy.
CollapseOK ==
  pc = "collapse" =>
    /\ entities \subseteq Present(target)
    /\ Spread(Copy, Present(target) \ entities)
    /\ \A i \in Live(Copy) \ todo : ~Untidy(Copy[i])
ShownInv == PlacedInv /\ ViewOK /\ CollapseOK

LEMMA OneElement ==
  ASSUME NEW S, IsFiniteSet(S), Cardinality(S) = 1
  PROVE  \E a : S = {a}
BY FS_Singleton

\* A cluster goes whose members are in no other.
LEMMA SpreadWithout ==
  ASSUME NEW c, NEW d, NEW P, Spread(c, P), NEW x \in Live(c), Live(d) = Live(c) \ {x},
         \A i \in Live(d) : d[i].members = c[i].members
  PROVE  Spread(d, P \ c[x].members)
<1>1. \A e \in P \ c[x].members : \E i \in Live(d) : e \in d[i].members
  BY DEF Spread
<1>2. \A i, j \in Live(d) : \A e \in d[i].members : e \in d[j].members => i = j
  BY DEF Spread
<1>3. \A i \in Live(d) : d[i].members \subseteq P \ c[x].members
  BY DEF Spread
<1> QED
  BY <1>1, <1>2, <1>3 DEF Spread

\* Its members go to its parent.
LEMMA SpreadUp ==
  ASSUME NEW c, NEW d, NEW P, Spread(c, P), NEW x \in Live(c), NEW p \in Live(d),
         Live(d) = Live(c) \ {x}, d[p].members = c[p].members \cup c[x].members,
         \A i \in Live(d) \ {p} : d[i].members = c[i].members
  PROVE  Spread(d, P)
<1>1. \A e \in P : \E i \in Live(d) : e \in d[i].members
  BY DEF Spread
<1>2. \A i, j \in Live(d) : \A e \in d[i].members : e \in d[j].members => i = j
  BY DEF Spread
<1>3. \A i \in Live(d) : d[i].members \subseteq P
  BY DEF Spread
<1> QED
  BY <1>1, <1>2, <1>3 DEF Spread

LEMMA ViewsKept ==
  ASSUME ViewOK, NEW k \in Contexts, target' = k, target = k \/ pc = "idle",
         \A j \in Contexts \ {k} : view'[j] = view[j] /\ object'[j] = object[j],
         pc' # "idle" \/ Tidy(view'[k], Present(k)')
  PROVE  ViewOK'
<1>1. ASSUME NEW j \in Contexts \ {k}
      PROVE  Tidy(view'[j], Present(j)')
  <2>1. view'[j] = view[j] /\ Present(j)' = Present(j)
    BY DEF Present
  <2>2. Tidy(view[j], Present(j))
    BY DEF ViewOK
  <2> QED
    BY <2>1, <2>2
<1> QED
  BY <1>1 DEF ViewOK

\* A collapse starts from clusters in which the accounts are placed.
LEMMA CollapseShown ==
  ASSUME ShownInv, TreeInv', PlacedOK', NEW k \in Contexts, NEW c, Clusters(c, Ids),
         StartCollapse(k, c), target' = k, target = k \/ pc = "idle",
         \A j \in Contexts \ {k} : object'[j] = object[j]
  PROVE  ViewOK' /\ CollapseOK'
<1> DEFINE d == [i \in Ids \cup {File} |-> IF i = File THEN None ELSE c[i]]
           P == Present(k)'
<1>1. /\ pc' = "collapse" /\ entities' = {} /\ todo' = Live(c)
      /\ cluster' = [cluster EXCEPT ![k] = c] /\ view' = [view EXCEPT ![k] = d]
  BY DEF StartCollapse, Go
<1>2. TypeOK /\ ViewOK
  BY DEF ShownInv, PlacedInv, TreeInv
<1>3. view'[k] = d /\ (\A j \in Contexts \ {k} : view'[j] = view[j]) /\ cluster'[k] = c
  BY <1>1, <1>2 DEF TypeOK
<1>4. Live(d) = Live(c) /\ \A i \in Live(c) : d[i] = c[i]
  BY CopyIs
<1>5. splitting' = None
  BY <1>1 DEF TreeInv, FillOK
<1>6. Placed(c, None, rest', P) /\ Within(c, None, rest', P)
  BY <1>1, <1>3, <1>5 DEF PlacedOK, InHand
<1>7. None \notin Live(c)
  BY LiveIs, ContextTreeAssumption
<1> HIDE DEF d, P
<1>8. \A i \in Live(c) : Held(c, None, rest', i) = d[i].members
  BY <1>4, <1>7 DEF Held
<1>9. Spread(d, P)
  BY <1>4, <1>6, <1>8 DEF Placed, Within, Spread
<1>10. ViewOK'
  BY <1>1, <1>2, <1>3, ViewsKept
<1>11. Spread(Copy', Present(target)' \ entities')
  BY <1>1, <1>3, <1>9 DEF Copy, P
<1>12. Live(Copy') \ todo' = {}
  BY <1>1, <1>3, <1>4 DEF Copy
<1>13. CollapseOK'
  BY <1>1, <1>11, <1>12 DEF CollapseOK
<1> QED
  BY <1>10, <1>13

\* The other steps of a request before it collapses.
LEMMA WorkShown ==
  ASSUME ShownInv, NEW k \in Contexts, target' = k, target = k \/ pc = "idle",
         \A j \in Contexts \ {k} : object'[j] = object[j], view' = view,
         pc' \notin {"collapse", "idle"}
  PROVE  ViewOK' /\ CollapseOK'
<1>1. ViewOK'
  BY ViewsKept DEF ShownInv
<1> QED
  BY <1>1 DEF CollapseOK

\* A visit that makes the copies c.
LEMMA VisitShown ==
  ASSUME ShownInv, pc = "collapse", NEW x, NEW c, Visit(x, c),
         entities' \subseteq Present(target), Spread(c, Present(target) \ entities'),
         \A i \in Live(c) \ todo' : ~Untidy(c[i])
  PROVE  ViewOK' /\ CollapseOK'
<1>1. TypeOK /\ ViewOK /\ target \in Contexts
  BY DEF ShownInv, PlacedInv, TreeInv, TypeOK
<1>2. /\ view' = [view EXCEPT ![target] = c] /\ target' = target /\ object' = object /\ pc' = pc
  BY DEF Visit, requestVars
<1>3. view'[target] = c /\ \A j \in Contexts \ {target} : view'[j] = view[j]
  BY <1>1, <1>2 DEF TypeOK
<1>4. ViewOK'
  BY <1>1, <1>2, <1>3, ViewsKept
<1>5. Present(target)' = Present(target) /\ Copy' = c
  BY <1>2, <1>3 DEF Present, Copy
<1>6. CollapseOK'
  BY <1>2, <1>5 DEF CollapseOK
<1> QED
  BY <1>4, <1>6

\* What is known of the copies when one is visited.
LEMMA CollapsingShown ==
  ASSUME ShownInv, NEW x, MayVisit(x)
  PROVE  /\ pc = "collapse" /\ x \in Live(Copy) /\ x \in todo
         /\ Copies(Copy) /\ Tree(Copy) /\ todo \subseteq Live(Copy)
         /\ IsFiniteSet(Copy[x].subs) /\ IsFiniteSet(Copy[x].members)
         /\ entities \subseteq Present(target)
         /\ Spread(Copy, Present(target) \ entities)
         /\ \A i \in Live(Copy) \ todo : ~Untidy(Copy[i])
<1>1. /\ pc = "collapse" /\ x \in Live(Copy) /\ x \in todo
      /\ Copies(Copy) /\ Tree(Copy) /\ todo \subseteq Live(Copy)
      /\ IsFiniteSet(Copy[x].subs) /\ Copy[x].members \subseteq Entities
  BY VisitedIs DEF ShownInv, PlacedInv, MayVisit
<1>2. IsFiniteSet(Copy[x].members)
  BY <1>1, ContextTreeAssumption, FS_Subset
<1> QED
  BY <1>1, <1>2 DEF ShownInv, CollapseOK

LEMMA DropChainRootShown ==
  ASSUME ShownInv, NEW x \in todo, DropChainRoot(x)
  PROVE  ViewOK' /\ CollapseOK'
<1> DEFINE s == CHOOSE y \in Copy[x].subs : TRUE
           c == NewRoot(Copy, x, s)
           P == Present(target) \ entities
<1>1. /\ MayVisit(x) /\ IsChain(Copy[x]) /\ Copy[x].parent = None
      /\ Visit(x, c) /\ entities' = entities
  BY DEF DropChainRoot
<1>2. /\ pc = "collapse" /\ x \in Live(Copy) /\ Copies(Copy) /\ Tree(Copy)
      /\ IsFiniteSet(Copy[x].subs) /\ entities \subseteq Present(target) /\ Spread(Copy, P)
      /\ \A i \in Live(Copy) \ todo : ~Untidy(Copy[i])
  BY <1>1, CollapsingShown
<1>3. Copy[x].subs = {s} /\ Copy[x].members = {}
  BY <1>1, <1>2, ChainIs
<1> HIDE DEF s, c, P
<1>4. /\ Live(c) = Live(Copy) \ {x}
      /\ \A i \in Live(c) : c[i].members = Copy[i].members /\ c[i].subs = Copy[i].subs
  BY <1>1, <1>2, <1>3, NewRootIs DEF c
<1>5. Spread(c, P \ Copy[x].members) /\ P \ Copy[x].members = P
  BY <1>2, <1>3, <1>4, SpreadWithout
<1>6. \A i \in Live(c) \ todo' : ~Untidy(c[i])
  BY <1>1, <1>2, <1>4 DEF Visit, Untidy, IsChain, IsSingleton
<1>7. Spread(c, Present(target) \ entities') /\ entities' \subseteq Present(target)
  BY <1>1, <1>2, <1>5 DEF P
<1> QED
  BY <1>1, <1>2, <1>6, <1>7, VisitShown

LEMMA DropChainShown ==
  ASSUME ShownInv, NEW x \in todo, DropChain(x)
  PROVE  ViewOK' /\ CollapseOK'
<1> DEFINE s == CHOOSE y \in Copy[x].subs : TRUE
           p == Copy[x].parent
           c == ChainOut(Copy, x, s, p)
           P == Present(target) \ entities
<1>1. /\ MayVisit(x) /\ IsChain(Copy[x]) /\ p # None
      /\ Visit(x, c) /\ entities' = entities
  BY DEF DropChain, ChainOut
<1>2. /\ pc = "collapse" /\ x \in Live(Copy) /\ Copies(Copy) /\ Tree(Copy)
      /\ IsFiniteSet(Copy[x].subs) /\ entities \subseteq Present(target) /\ Spread(Copy, P)
      /\ \A i \in Live(Copy) \ todo : ~Untidy(Copy[i])
  BY <1>1, CollapsingShown
<1>3. Copy[x].subs = {s} /\ Copy[x].members = {}
  BY <1>1, <1>2, ChainIs
<1>4. Copy[x].parent = p
  OBVIOUS
<1> HIDE DEF s, p, P
<1> HIDE DEF c
<1>5. Copies(c) /\ Live(c) = Live(Copy) \ {x} /\ OutOfChain(Copy, c, x, s, p)
  <2> DEFINE d == ChainOut(Copy, x, s, p)
  <2>1. /\ p # None /\ Copies(Copy) /\ Tree(Copy) /\ x \in Live(Copy)
        /\ Copy[x].subs = {s} /\ Copy[x].parent = p
    BY <1>1, <1>2, <1>3, <1>4
  <2>2. Copies(d) /\ Live(d) = Live(Copy) \ {x} /\ OutOfChain(Copy, d, x, s, p)
    BY <2>1, ChainDropped
  <2> QED
    BY <2>2 DEF c
<1>6. \A i \in Live(c) : c[i].members = Copy[i].members
  BY <1>5 DEF OutOfChain
<1>7. Spread(c, P \ Copy[x].members) /\ P \ Copy[x].members = P
  BY <1>2, <1>3, <1>5, <1>6, SpreadWithout
<1>8. ASSUME NEW i \in Live(c) \ todo'
      PROVE  ~Untidy(c[i])
  <2>1. i \in Live(Copy) \ todo /\ ~Untidy(Copy[i])
    BY <1>1, <1>2, <1>5, <1>8 DEF Visit
  <2>2. CASE i # p
    <3>1. c[i].members = Copy[i].members /\ c[i].subs = Copy[i].subs
      BY <1>5, <2>2 DEF OutOfChain
    <3> QED
      BY <2>1, <3>1 DEF Untidy, IsChain, IsSingleton
  <2>3. CASE i = p
    <3>1. /\ c[p].members = Copy[p].members /\ c[p].subs = (Copy[p].subs \ {x}) \cup {s}
          /\ x \in Copy[p].subs /\ s \notin Copy[p].subs
      BY <1>5 DEF OutOfChain
    <3>2. ~IsSingleton(c[i])
      BY <2>3, <3>1 DEF IsSingleton
    <3>3. ASSUME IsChain(c[i])
          PROVE  FALSE
      <4>1. c[p] \in Cluster
        BY <1>5, <2>3, <1>8, CopiesAre
      <4>2. IsFiniteSet(c[p].subs)
        BY <4>1, ContextTreeAssumption, FS_Subset DEF Cluster
      <4>3. PICK a : c[p].subs = {a}
        BY <2>3, <3>3, <4>2, OneElement DEF IsChain
      <4>4. Copy[p].subs = {x}
        BY <3>1, <4>3
      <4>5. Cardinality(Copy[p].subs) = 1
        BY <4>4, FS_Singleton
      <4> QED
        BY <2>1, <2>3, <3>1, <3>3, <4>5 DEF Untidy, IsChain
    <3> QED
      BY <3>2, <3>3 DEF Untidy
  <2> QED
    BY <2>2, <2>3
<1>9. Spread(c, Present(target) \ entities') /\ entities' \subseteq Present(target)
  BY <1>1, <1>2, <1>7 DEF P
<1> QED
  BY <1>1, <1>2, <1>8, <1>9, VisitShown

LEMMA DropSingletonRootShown ==
  ASSUME ShownInv, NEW x \in todo, DropSingletonRoot(x)
  PROVE  ViewOK' /\ CollapseOK'
<1> DEFINE c == [Copy EXCEPT ![x] = None]
           P == Present(target) \ entities
<1>1. /\ MayVisit(x) /\ Copy[x].subs = {} /\ Copy[x].parent = None
      /\ Visit(x, c) /\ entities' = entities \cup Copy[x].members
  BY DEF DropSingletonRoot, IsSingleton
<1>2. /\ pc = "collapse" /\ x \in Live(Copy) /\ Copies(Copy) /\ Tree(Copy)
      /\ entities \subseteq Present(target) /\ Spread(Copy, P)
      /\ \A i \in Live(Copy) \ todo : ~Untidy(Copy[i])
  BY <1>1, CollapsingShown
<1>3. Live(c) = Live(Copy) \ {x} /\ \A i \in Live(c) : c[i] = Copy[i]
  BY <1>1, <1>2, SingletonRootDropped
<1> HIDE DEF c
<1>4. Spread(c, P \ Copy[x].members)
  BY <1>2, <1>3, SpreadWithout
<1>5. P \ Copy[x].members = Present(target) \ entities'
  BY <1>1
<1>6. entities' \subseteq Present(target)
  BY <1>1, <1>2 DEF Spread
<1>7. \A i \in Live(c) \ todo' : ~Untidy(c[i])
  BY <1>1, <1>2, <1>3 DEF Visit
<1>8. Spread(c, Present(target) \ entities')
  BY <1>4, <1>5
<1> QED
  BY <1>1, <1>2, <1>6, <1>7, <1>8, VisitShown

LEMMA DropSingletonShown ==
  ASSUME ShownInv, NEW x \in todo, DropSingleton(x)
  PROVE  ViewOK' /\ CollapseOK'
<1> DEFINE p == Copy[x].parent
           c == SingletonOut(Copy, x, p)
           P == Present(target) \ entities
<1>1. /\ MayVisit(x) /\ Copy[x].subs = {} /\ p # None /\ entities' = entities
      /\ Cardinality(Copy[x].members) = 1
      /\ Visit(x, IF Copy[p] = None THEN [Copy EXCEPT ![x] = None] ELSE c)
  BY DEF DropSingleton, IsSingleton, SingletonOut
<1>2. /\ pc = "collapse" /\ x \in Live(Copy) /\ Copies(Copy) /\ Tree(Copy)
      /\ IsFiniteSet(Copy[x].members)
      /\ entities \subseteq Present(target) /\ Spread(Copy, P)
      /\ \A i \in Live(Copy) \ todo : ~Untidy(Copy[i])
  BY <1>1, CollapsingShown
<1>3. Copy[x].parent = p
  OBVIOUS
<1> HIDE DEF p, P
<1> HIDE DEF c
<1>4. /\ Copies(c) /\ Live(c) = Live(Copy) \ {x} /\ Copy[p] # None
      /\ OutOfSingleton(Copy, c, x, p)
  <2> DEFINE d == SingletonOut(Copy, x, p)
  <2>1. /\ p # None /\ Copies(Copy) /\ Tree(Copy) /\ x \in Live(Copy)
        /\ Copy[x].subs = {} /\ Copy[x].parent = p
    BY <1>1, <1>2, <1>3
  <2>2. /\ Copies(d) /\ Live(d) = Live(Copy) \ {x} /\ Copy[p] # None
        /\ OutOfSingleton(Copy, d, x, p)
    BY <2>1, SingletonDropped
  <2> QED
    BY <2>2 DEF c
<1>5. Visit(x, c)
  BY <1>1, <1>4
<1>6. /\ p \in Live(c) /\ x \in Copy[p].subs
      /\ c[p].members = Copy[p].members \cup Copy[x].members /\ c[p].subs = Copy[p].subs \ {x}
      /\ \A i \in Live(c) \ {p} : c[i].members = Copy[i].members /\ c[i].subs = Copy[i].subs \ {x}
  BY <1>4 DEF OutOfSingleton
<1>7. Spread(c, P)
  BY <1>2, <1>4, <1>6, SpreadUp
<1>8. PICK a : Copy[x].members = {a}
  BY <1>1, <1>2, OneElement
<1>9. ASSUME NEW i \in Live(c) \ todo'
      PROVE  ~Untidy(c[i])
  <2>1. i \in Live(Copy) \ todo /\ i # x /\ ~Untidy(Copy[i])
    BY <1>2, <1>4, <1>5, <1>9 DEF Visit
  <2>2. CASE i # p
    <3>1. x \notin Copy[i].subs
      BY <1>2, <1>3, <2>1, <2>2 DEF Tree, Links
    <3>2. c[i].members = Copy[i].members /\ c[i].subs = Copy[i].subs
      <4>1. i \in Live(c) \ {p}
        BY <1>9, <2>2
      <4>2. c[i].members = Copy[i].members /\ c[i].subs = Copy[i].subs \ {x}
        BY <1>6, <4>1
      <4> QED
        BY <3>1, <4>2
    <3> QED
      BY <2>1, <3>2 DEF Untidy, IsChain, IsSingleton
  <2>3. CASE i = p
    <3>1. ~IsChain(c[i])
      BY <1>6, <1>8, <2>3 DEF IsChain
    <3>2. ASSUME IsSingleton(c[i])
          PROVE  FALSE
      <4>1. c[p] \in Cluster
        BY <1>4, <1>6, CopiesAre
      <4>2. IsFiniteSet(c[p].members)
        BY <4>1, ContextTreeAssumption, FS_Subset DEF Cluster
      <4>3. PICK b : c[p].members = {b}
        BY <2>3, <3>2, <4>2, OneElement DEF IsSingleton
      <4>4. a \notin Copy[p].members
        BY <1>2, <1>8, <2>1, <2>3 DEF Spread
      <4>5. Copy[p].members = {}
        BY <1>6, <1>8, <4>3, <4>4
      <4>6. Copy[p].subs = {x}
        BY <1>6, <2>3, <3>2 DEF IsSingleton
      <4>7. Cardinality(Copy[p].subs) = 1
        BY <4>6, FS_Singleton
      <4> QED
        BY <2>1, <2>3, <4>5, <4>7 DEF Untidy, IsChain
    <3> QED
      BY <3>1, <3>2 DEF Untidy
  <2> QED
    BY <2>2, <2>3
<1>10. Spread(c, Present(target) \ entities') /\ entities' \subseteq Present(target)
  BY <1>1, <1>2, <1>7 DEF P
<1> QED
  BY <1>2, <1>5, <1>9, <1>10, VisitShown

LEMMA KeepShown ==
  ASSUME ShownInv, NEW x \in todo, Keep(x)
  PROVE  ViewOK' /\ CollapseOK'
<1>1. MayVisit(x) /\ Visit(x, Copy) /\ entities' = entities /\ ~Untidy(Copy[x])
  BY DEF Keep, Untidy
<1>2. /\ pc = "collapse" /\ entities \subseteq Present(target)
      /\ Spread(Copy, Present(target) \ entities)
      /\ \A i \in Live(Copy) \ todo : ~Untidy(Copy[i])
  BY <1>1, CollapsingShown
<1>3. \A i \in Live(Copy) \ todo' : ~Untidy(Copy[i])
  BY <1>1, <1>2 DEF Visit
<1> QED
  BY <1>1, <1>2, <1>3, VisitShown

LEMMA EndCollapseShown ==
  ASSUME ShownInv, EndCollapse
  PROVE  ViewOK' /\ CollapseOK'
<1> DEFINE shown == entities \cap Present(target)
           P == Present(target)
           c == IF removes /\ shown = {} /\ Tops(Copy) = {} THEN Copy ELSE Gathered(Copy, shown)
<1>1. /\ pc = "collapse" /\ todo = {} /\ pc' = "idle" /\ object' = object /\ target' = target
  BY DEF EndCollapse, Go, requestVars
<1>2. TypeOK /\ target \in Contexts /\ Copies(Copy) /\ Tree(Copy) /\ ViewOK
  BY <1>1, CollapsingIs DEF ShownInv, PlacedInv
<1>3. view' = [view EXCEPT ![target] = c]
  BY <1>2, CollapsedIs
<1>4. /\ entities \subseteq P /\ shown = entities /\ Spread(Copy, P \ entities)
      /\ \A i \in Live(Copy) : ~Untidy(Copy[i])
  BY <1>1 DEF ShownInv, CollapseOK
<1>5. shown \in SUBSET Entities
  BY <1>2 DEF TypeOK
<1>6. view'[target] = c /\ \A j \in Contexts \ {target} : view'[j] = view[j]
  BY <1>2, <1>3 DEF TypeOK
<1> HIDE DEF shown, P
<1>7. ASSUME c = Copy, shown = {}, Tops(Copy) = {}
      PROVE  Tidy(c, P)
  <2>1. Live(Copy) = {}
    BY <1>2, <1>7, TreeLinked DEF Linked, Tops, Copies
  <2>2. P \ entities = P
    BY <1>4, <1>7
  <2> QED
    BY <1>2, <1>4, <1>7, <2>1, <2>2 DEF Tidy, Copies
<1>8. ASSUME c = Gathered(Copy, shown)
      PROVE  Tidy(c, P)
  <2>1. /\ Clusters(c, Copied) /\ Tree(c) /\ Live(c) = Live(Copy) \cup {File}
        /\ c[File].members = shown
        /\ \A i \in Live(Copy) : c[i].members = Copy[i].members /\ c[i].subs = Copy[i].subs
    BY <1>2, <1>5, <1>8, GatheredIs
  <2>2. File \notin Live(Copy)
    BY <1>2, CopiesAre
  <2> HIDE DEF c
  <2>3. \A e \in P : \E i \in Live(c) : e \in c[i].members
    BY <1>4, <2>1 DEF Spread
  <2>4. \A i, j \in Live(c) : \A e \in c[i].members : e \in c[j].members => i = j
    BY <1>4, <2>1, <2>2 DEF Spread
  <2>5. \A i \in Live(c) : c[i].members \subseteq P
    BY <1>4, <2>1 DEF Spread
  <2>6. Spread(c, P)
    BY <2>3, <2>4, <2>5 DEF Spread
  <2>7. c[File] # None
    BY <2>1 DEF Live
  <2>8. \A i \in Live(c) \ {File} : ~Untidy(c[i])
    BY <1>4, <2>1 DEF Untidy, IsChain, IsSingleton
  <2> QED
    BY <2>1, <2>6, <2>7, <2>8 DEF Tidy
<1>9. Tidy(c, P)
  BY <1>7, <1>8
<1> HIDE DEF c
<1>10. Present(target)' = P
  BY <1>1 DEF Present, P
<1>11. Tidy(view'[target], Present(target)')
  BY <1>6, <1>9, <1>10
<1>12. ViewOK'
  BY <1>1, <1>2, <1>6, <1>11, ViewsKept
<1> QED
  BY <1>1, <1>12 DEF CollapseOK

LEMMA InsertShown ==
  ASSUME ShownInv, TreeInv', PlacedOK', NEW k \in Contexts, NEW E \in SUBSET Entities,
         NEW objects \in [E -> Objects], Insert(k, objects)
  PROVE  ViewOK' /\ CollapseOK'
<1>1. /\ pc = "idle" /\ target' = k
      /\ object' = [object EXCEPT ![k] =
                      [e \in Entities |-> IF e \in NewTo(k, DOMAIN objects) THEN objects[e] ELSE @[e]]]
  BY DEF Insert, Request
<1>2. TypeOK
  BY DEF ShownInv, PlacedInv, TreeInv
<1>3. \A j \in Contexts \ {k} : object'[j] = object[j]
  BY <1>1, <1>2 DEF TypeOK
<1>4. CASE StartCollapse(k, cluster[k])
  BY <1>1, <1>2, <1>3, <1>4, HereIs, CollapseShown
<1>5. CASE pc' = "split" /\ view' = view
  BY <1>1, <1>3, <1>5, WorkShown
<1> QED
  BY <1>4, <1>5, InsertTo

\* A step of an insertion or a removal before the collapse.
LEMMA StepShown ==
  ASSUME ShownInv, view' = view, target' = target, pc' \in {"split", "fill", "remove"},
         \A j \in Contexts \ {target} : object'[j] = object[j]
  PROVE  ViewOK' /\ CollapseOK'
BY WorkShown DEF ShownInv, PlacedInv, TreeInv, TypeOK

LEMMA RemovalShown ==
  ASSUME ShownInv, pc = "remove", NEW o, object' = [object EXCEPT ![target] = o],
         UNCHANGED <<view, pc, requestVars>>
  PROVE  ViewOK' /\ CollapseOK'
<1>1. \A j \in Contexts \ {target} : object'[j] = object[j]
  BY DEF ShownInv, PlacedInv, TreeInv, TypeOK
<1> QED
  BY <1>1, StepShown DEF requestVars

LEMMA EndSplitShown ==
  ASSUME ShownInv, TreeInv', PlacedOK', EndSplit
  PROVE  ViewOK' /\ CollapseOK'
<1> DEFINE c == Updated(Here, modified, Present(target))
<1>1. /\ pc = "split" /\ target' = target /\ object' = object /\ StartCollapse(target, c)
  BY DEF EndSplit, requestVars
<1>2. target \in Contexts /\ Clusters(Here, Ids) /\ Tree(Here)
  BY <1>1, SplittingIs DEF ShownInv, PlacedInv
<1>3. Links(Here)
  BY <1>2 DEF Tree
<1>4. Clusters(c, Ids)
  BY <1>2, <1>3, UpdatedFewer
<1> HIDE DEF c
<1> QED
  BY <1>1, <1>2, <1>4, CollapseShown

LEMMA EndRemoveShown ==
  ASSUME ShownInv, TreeInv', PlacedOK', EndRemove
  PROVE  ViewOK' /\ CollapseOK'
<1> DEFINE c == Updated(Here, roots[target], Present(target))
<1>1. /\ pc = "remove" /\ target' = target /\ object' = object /\ StartCollapse(target, c)
  BY DEF EndRemove, requestVars
<1>2. target \in Contexts /\ Clusters(Here, Ids) /\ Links(Here)
  BY <1>1, RemovingPlaced DEF ShownInv
<1>3. Clusters(c, Ids)
  BY <1>2, UpdatedFewer
<1> HIDE DEF c
<1> QED
  BY <1>1, <1>2, <1>3, CollapseShown

LEMMA NextShown == ShownInv /\ [Next]_vars => ViewOK' /\ CollapseOK'
<1> SUFFICES ASSUME ShownInv, [Next]_vars
             PROVE  ViewOK' /\ CollapseOK'
  OBVIOUS
<1>1. TreeInv' /\ PlacedOK'
  BY NextTree, NextPlaced DEF ShownInv, PlacedInv
<1>2. CASE UNCHANGED vars
  BY <1>2 DEF ShownInv, ViewOK, CollapseOK, vars, dataVars, requestVars, walkVars, Present, Copy
<1>3. ASSUME NEW k \in Contexts, Begin(k)
      PROVE  ViewOK' /\ CollapseOK'
  <2>1. ASSUME NEW E \in Batches, InsertAccounts(k, E)
        PROVE  ViewOK' /\ CollapseOK'
    <3>1. PICK o \in [E -> Objects] : Insert(k, o)
      BY <2>1 DEF InsertAccounts
    <3>2. E \in SUBSET Entities
      BY ContextTreeAssumption
    <3> QED
      BY <1>1, <3>1, <3>2, InsertShown
  <2>2. ASSUME NEW j \in Sources[k], NEW x, InsertCluster(k, j, x)
        PROVE  ViewOK' /\ CollapseOK'
    <3>1. PICK E \in SUBSET Entities : \E o \in [E -> Objects] : Insert(k, o)
      BY <2>2, ClusterInserted DEF ShownInv, PlacedInv
    <3> QED
      BY <1>1, <3>1, InsertShown
  <2>3. ASSUME NEW d, RemoveMembers(k, d)
        PROVE  ViewOK' /\ CollapseOK'
    BY <2>3, WorkShown DEF RemoveMembers, Request, Go, dataVars
  <2> QED
    BY <1>3, <2>1, <2>2, <2>3 DEF Begin
<1>4. CASE Work
  <2>1. ASSUME NEW x \in Ids, Split(x) \/ StartFill(x)
        PROVE  ViewOK' /\ CollapseOK'
    BY <2>1, StepShown DEF Split, StartFill, Go, dataVars, requestVars
  <2>2. ASSUME NEW x \in Ids, RemoveCluster(x)
        PROVE  ViewOK' /\ CollapseOK'
    BY <2>2, RemovalShown DEF RemoveCluster
  <2>3. ASSUME NEW e \in Entities, FillFirst(e) \/ FillNew(e) \/ FillOverflow(e)
        PROVE  ViewOK' /\ CollapseOK'
    <3>1. pc' = "fill" /\ object' = object /\ view' = view /\ target' = target
      BY <2>3 DEF FillFirst, FillNew, FillOverflow, Move, requestVars
    <3> QED
      BY <3>1, StepShown
  <2>4. ASSUME NEW e \in Entities, RemoveAccount(e)
        PROVE  ViewOK' /\ CollapseOK'
    <3>1. /\ pc = "remove" /\ object' = [object EXCEPT ![target] = [@ EXCEPT ![e] = None]]
          /\ UNCHANGED <<view, pc, requestVars>>
      BY <2>4 DEF RemoveAccount
    <3> QED
      BY <3>1, RemovalShown
  <2>5. CASE EndFill \/ NextStage
    BY <2>5, StepShown DEF EndFill, NextStage, Go, dataVars, requestVars
  <2>6. CASE PruneEmpty \/ PruneEnds
    BY <2>6, StepShown DEF PruneEmpty, PruneEnds, dataVars, requestVars
  <2>7. CASE EndSplit \/ EndRemove
    BY <1>1, <2>7, EndSplitShown, EndRemoveShown
  <2>8. ASSUME NEW x \in todo, DropChainRoot(x) \/ DropChain(x) \/ DropSingletonRoot(x)
                               \/ DropSingleton(x) \/ Keep(x)
        PROVE  ViewOK' /\ CollapseOK'
    BY <2>8, DropChainRootShown, DropChainShown, DropSingletonRootShown, DropSingletonShown, KeepShown
  <2>9. CASE EndCollapse
    BY <2>9, EndCollapseShown
  <2> QED
    BY <1>4, <2>1, <2>2, <2>3, <2>4, <2>5, <2>6, <2>7, <2>8, <2>9 DEF Work
<1> QED
  BY <1>2, <1>3, <1>4 DEF Next

LEMMA InitShown == Init => ViewOK /\ CollapseOK
<1> SUFFICES ASSUME Init
             PROVE  ViewOK /\ CollapseOK
  OBVIOUS
<1>1. \A k \in Contexts : Live(view[k]) = {} /\ Present(k) = {}
  BY DEF Init, Live, Present
<1>2. \A k \in Contexts : Tidy(view[k], Present(k))
  BY <1>1 DEF Tidy, Spread, Tree, Links, Grounded
<1> QED
  BY <1>2 DEF Init, ViewOK, CollapseOK

LEMMA ShownAlways == Spec => []ShownInv
<1>1. ShownInv /\ [Next]_vars => ShownInv'
  BY NextTree, NextPlaced, NextShown DEF ShownInv, PlacedInv
<1> QED
  BY <1>1, InitTree, InitPlaced, InitShown, PTL DEF Spec, PlacedInv, ShownInv

\* In whatever order ContextCollapser visits the copies, the simplified context
\* shows each account of the context once, below the file's cluster, and none of
\* its clusters has one account or one subcluster for its only child.
THEOREM ViewsAreSimple == Spec => []Simplified
<1>1. ASSUME ShownInv, pc = "idle", NEW k \in Contexts
      PROVE  LET v == view[k]
                 shown == Live(v) \ {File} IN
             /\ \A e \in Present(k) : Cardinality({i \in Live(v) : e \in v[i].members}) = 1
             /\ Live(v) # {} => v[File] # None /\ Linked(v, None)
             /\ \A i \in shown : ~IsChain(v[i]) /\ ~IsSingleton(v[i])
  <2> DEFINE v == view[k]
  <2>1. Tidy(v, Present(k)) /\ Clusters(v, Copied)
    BY <1>1, HereIs DEF ShownInv, ViewOK, PlacedInv, TreeInv
  <2> HIDE DEF v
  <2>2. Linked(v, None)
    BY <2>1, TreeLinked DEF Tidy
  <2>3. ASSUME NEW e \in Present(k)
        PROVE  Cardinality({i \in Live(v) : e \in v[i].members}) = 1
    <3>1. PICK i \in Live(v) : e \in v[i].members
      BY <2>1, <2>3 DEF Tidy, Spread
    <3>2. {j \in Live(v) : e \in v[j].members} = {i}
      BY <2>1, <2>3, <3>1 DEF Tidy, Spread
    <3> QED
      BY <3>2, FS_Singleton
  <2> QED
    BY <2>1, <2>2, <2>3 DEF v, Tidy, Untidy
<1>2. ShownInv => Simplified
  BY <1>1 DEF Simplified
<1> QED
  BY <1>2, ShownAlways, PTL

-----------------------------------------------------------------------------
(* Contexts that share no account objects                                  *)

\* When no cluster of one context is inserted into another, an account of two
\* contexts is an object of its own in each.
Apart ==
  \A j, k \in Contexts : j # k =>
    \A e \in Entities : object[j][e] = None \/ object[j][e] # object[k][e]
\* It names the cluster it is in, so that a removal finds it there.
HomeOK ==
  \A k \in Contexts : \A i \in Live(cluster[k]) :
    \A e \in Held(cluster[k], InHand(k), rest, i) : e \in Present(k) => home[e][object[k][e]] = i
\* The clusters of a context have only accounts of that context.
WithinOK == \A k \in Contexts : Within(cluster[k], InHand(k), rest, Present(k))
OwnInv == PlacedInv /\ Apart /\ HomeOK /\ WithinOK

\* The hypothesis of what follows: files insert no clusters of each other, so no
\* account object is in two contexts.
Separate == \A k \in Contexts : Sources[k] \subseteq {k}

LEMMA RehomedApart ==
  ASSUME NEW k \in Contexts, NEW new \in SUBSET Entities, NEW to \in [new -> Ids], home' = Rehomed(k, to),
         object' \in [Contexts -> [Entities -> Objects \cup {None}]]
  PROVE  /\ \A e \in new : object'[k][e] # None => home'[e][object'[k][e]] = to[e]
         /\ \A e \in Entities \ new : \A o \in Objects : home'[e][o] = home[e][o]
         /\ \A e \in Entities : \A o \in Objects : o # object'[k][e] => home'[e][o] = home[e][o]
<1>1. home' = [e \in Entities |-> [o \in Objects |->
                 IF e \in new /\ object'[k][e] = o THEN to[e] ELSE home[e][o]]]
  BY DEF Rehomed
<1>2. \A e \in Entities : object'[k][e] # None => object'[k][e] \in Objects
  OBVIOUS
<1> QED
  BY <1>1, <1>2

\* The other contexts are as before.
LEMMA HomeChanged ==
  ASSUME TypeOK, HomeOK, NEW k \in Contexts, NEW c, Clusters(c, Ids),
         cluster' = [cluster EXCEPT ![k] = c], target' = k,
         target = k \/ splitting = None,
         \A j \in Contexts \ {k} : object'[j] = object[j],
         \A j \in Contexts \ {k} : \A e \in Present(j) : home'[e][object[j][e]] = home[e][object[j][e]],
         \A i \in Live(c) : \A e \in Held(c, splitting', rest', i) :
           e \in Present(k)' => home'[e][object'[k][e]] = i
  PROVE  HomeOK'
<1>1. cluster'[k] = c /\ \A j \in Contexts \ {k} : cluster'[j] = cluster[j]
  BY ClusterChanged
<1>2. \A i \in Live(cluster'[k]) : \A e \in Held(cluster'[k], InHand(k)', rest', i) :
        e \in Present(k)' => home'[e][object'[k][e]] = i
  BY <1>1 DEF InHand
<1>3. ASSUME NEW j \in Contexts \ {k}, NEW i \in Live(cluster'[j]),
             NEW e \in Held(cluster'[j], InHand(j)', rest', i), e \in Present(j)'
      PROVE  home'[e][object'[j][e]] = i
  <2>1. InHand(j)' = None /\ InHand(j) = None
    BY DEF InHand
  <2>2. e \in Present(j) /\ cluster'[j] = cluster[j] /\ object'[j] = object[j]
    BY <1>1, <1>3 DEF Present
  <2>3. i \in Live(cluster[j]) /\ i # None
    BY <2>2, HereIs
  <2>4. e \in Held(cluster[j], InHand(j), rest, i)
    BY <1>3, <2>1, <2>2, <2>3 DEF Held
  <2>5. home[e][object[j][e]] = i
    BY <2>2, <2>3, <2>4 DEF HomeOK
  <2> QED
    BY <2>2, <2>5
<1> QED
  BY <1>2, <1>3 DEF HomeOK

\* Accounts of the context go to other clusters of it.
LEMMA HomesMoved ==
  ASSUME OwnInv, NEW new \in SUBSET Entities, NEW to \in [new -> Ids], NEW c, Clusters(c, Ids),
         home' = Rehomed(target, to), object' = object, target' = target,
         cluster' = [cluster EXCEPT ![target] = c],
         \A i \in Live(c) : \A e \in Held(c, splitting', rest', i) :
           \/ e \in new /\ to[e] = i
           \/ e \notin new /\ i \in Live(Here) /\ e \in Held(Here, splitting, rest, i)
  PROVE  Apart' /\ HomeOK'
<1>1. TypeOK /\ target \in Contexts /\ Apart /\ HomeOK
  BY DEF OwnInv, PlacedInv, TreeInv, TypeOK
<1>2. object \in [Contexts -> [Entities -> Objects \cup {None}]]
  BY <1>1 DEF TypeOK
<1>3. /\ \A e \in new : object[target][e] # None => home'[e][object[target][e]] = to[e]
      /\ \A e \in Entities \ new : \A o \in Objects : home'[e][o] = home[e][o]
      /\ \A e \in Entities : \A o \in Objects : o # object[target][e] => home'[e][o] = home[e][o]
  <2>1. object' \in [Contexts -> [Entities -> Objects \cup {None}]] /\ object'[target] = object[target]
    BY <1>2
  <2>2. /\ \A e \in new : object'[target][e] # None => home'[e][object'[target][e]] = to[e]
        /\ \A e \in Entities \ new : \A o \in Objects : home'[e][o] = home[e][o]
        /\ \A e \in Entities : \A o \in Objects : o # object'[target][e] => home'[e][o] = home[e][o]
    BY <1>1, <2>1, RehomedApart
  <2> QED
    BY <2>1, <2>2
<1>4. \A j \in Contexts \ {target} : \A e \in Present(j) : home'[e][object[j][e]] = home[e][object[j][e]]
  <2> TAKE j \in Contexts \ {target}
  <2> TAKE e \in Present(j)
  <2>1. e \in Entities /\ object[j][e] \in Objects /\ object[j][e] # object[target][e]
    BY <1>1, <1>2 DEF Present, Apart
  <2> QED
    BY <1>3, <2>1
<1>5. ASSUME NEW i \in Live(c), NEW e \in Held(c, splitting', rest', i), e \in Present(target)'
      PROVE  home'[e][object'[target][e]] = i
  <2>1. /\ e \in Entities /\ object[target][e] \in Objects /\ e \in Present(target)
        /\ object[target][e] # None
    BY <1>1, <1>2, <1>5 DEF Present
  <2>2. CASE e \in new
    BY <1>3, <2>1, <2>2, <1>5
  <2>3. CASE e \notin new
    <3>1. i \in Live(Here) /\ e \in Held(Here, splitting, rest, i)
      BY <1>5, <2>3
    <3>2. home[e][object[target][e]] = i
      BY <1>1, <2>1, <3>1 DEF HomeOK, Here, InHand
    <3> QED
      BY <1>3, <2>1, <2>3, <3>2
  <2> QED
    BY <2>2, <2>3
<1>6. HomeOK'
  BY <1>1, <1>4, <1>5, HomeChanged DEF OwnInv, PlacedInv, TreeInv, FillOK
<1> QED
  BY <1>1, <1>6 DEF Apart

LEMMA InsertHome ==
  ASSUME OwnInv, NEW k \in Contexts, NEW E \in SUBSET Entities, NEW objects \in [E -> Objects],
         Insert(k, objects),
         \A e \in NewTo(k, E) : \A j \in Contexts \ {k} : object[j][e] # objects[e]
  PROVE  Apart' /\ HomeOK'
<1> DEFINE new == NewTo(k, E)
<1>1. /\ pc = "idle" /\ target' = k /\ UNCHANGED fillVars
      /\ object' = [object EXCEPT ![k] = [e \in Entities |-> IF e \in new THEN objects[e] ELSE @[e]]]
  <2>1. DOMAIN objects = E
    OBVIOUS
  <2> QED
    BY <2>1 DEF Insert, Request
<1>2. TypeOK /\ PlacedOK /\ Apart /\ HomeOK /\ splitting = None /\ splitting' = None /\ rest' = rest
  BY <1>1 DEF OwnInv, PlacedInv, TreeInv, FillOK, fillVars
<1>3. /\ new \in SUBSET Entities /\ new \cap Present(k) = {}
      /\ \A e \in new : objects[e] \in Objects /\ objects[e] # None
  BY ContextTreeAssumption DEF NewTo
<1>4. /\ object'[k] = [e \in Entities |-> IF e \in new THEN objects[e] ELSE object[k][e]]
      /\ \A j \in Contexts \ {k} : object'[j] = object[j]
      /\ object \in [Contexts -> [Entities -> Objects \cup {None}]]
  BY <1>1, <1>2 DEF TypeOK
<1>5. object' \in [Contexts -> [Entities -> Objects \cup {None}]]
  <2>1. object'[k] \in [Entities -> Objects \cup {None}]
    BY <1>3, <1>4
  <2> QED
    BY <1>1, <1>4, <2>1
<1>6. Apart'
  <2> SUFFICES ASSUME NEW i \in Contexts, NEW j \in Contexts, i # j, NEW e \in Entities
               PROVE  object'[i][e] = None \/ object'[i][e] # object'[j][e]
    BY DEF Apart
  <2>1. object[i][e] = None \/ object[i][e] # object[j][e]
    BY <1>2 DEF Apart
  <2>2. CASE e \notin new
    BY <1>4, <2>1, <2>2
  <2>3. CASE e \in new
    BY <1>4, <2>1, <2>3
  <2> QED
    BY <2>2, <2>3
<1>7. CASE new = {} /\ StartCollapse(k, cluster[k]) /\ UNCHANGED <<home, roots, stageVars>>
  <2>1. cluster' = cluster /\ home' = home
    BY <1>2, <1>7 DEF StartCollapse, TypeOK
  <2>2. object' = object
    <3>1. object'[k] = object[k]
      BY <1>4, <1>7
    <3> QED
      BY <1>4, <1>5, <3>1
  <2>3. \A j \in Contexts : InHand(j)' = InHand(j)
    BY <1>2 DEF InHand
  <2>4. HomeOK'
    BY <1>2, <2>1, <2>2, <2>3 DEF HomeOK, Present
  <2> QED
    BY <1>6, <2>4
<1>8. ASSUME NEW to \in [new -> Ids], cluster' = [cluster EXCEPT ![k] = Joined(cluster[k], to)],
             home' = Rehomed(k, to)
      PROVE  HomeOK'
  <2> DEFINE c == Joined(cluster[k], to)
  <2>1. Clusters(cluster[k], Ids) /\ None \notin Ids
    BY <1>2, HereIs, ContextTreeAssumption
  <2>2. /\ Clusters(c, Ids) /\ Live(c) = Live(cluster[k]) \cup Range(to)
        /\ \A i \in Live(cluster[k]) : c[i].members = cluster[k][i].members \cup Joining(to, i)
        /\ \A i \in Live(c) \ Live(cluster[k]) : c[i].members = Joining(to, i)
    BY <1>3, <2>1, JoinedIs
  <2>3. cluster' = [cluster EXCEPT ![k] = c]
    BY <1>8
  <2> HIDE DEF c, new
  <2>4. None \notin Live(c) /\ None \notin Live(cluster[k])
    BY <2>1, <2>2, LiveIs
  <2>5. /\ \A e \in new : object'[k][e] # None => home'[e][object'[k][e]] = to[e]
        /\ \A e \in Entities \ new : \A o \in Objects : home'[e][o] = home[e][o]
        /\ \A e \in Entities : \A o \in Objects : o # object'[k][e] => home'[e][o] = home[e][o]
    BY <1>3, <1>5, <1>8, RehomedApart
  <2>6. \A j \in Contexts \ {k} : \A e \in Present(j) : home'[e][object[j][e]] = home[e][object[j][e]]
    <3> TAKE j \in Contexts \ {k}
    <3> TAKE e \in Present(j)
    <3>1. e \in Entities /\ object[j][e] \in Objects
      BY <1>4 DEF Present
    <3>2. object[j][e] # object'[k][e]
      BY <1>4, <1>6, <3>1, ContextTreeAssumption DEF Apart
    <3> QED
      BY <2>5, <3>1, <3>2
  <2>7. ASSUME NEW i \in Live(c), NEW e \in Held(c, splitting', rest', i), e \in Present(k)'
        PROVE  home'[e][object'[k][e]] = i
    <3>1. e \in c[i].members /\ e \in Entities
      BY <1>2, <2>4, <2>7 DEF Held, Present
    <3>2. CASE e \in Joining(to, i)
      BY <2>5, <2>7, <3>2 DEF Joining, Present
    <3>3. CASE e \notin Joining(to, i)
      <4>1. i \in Live(cluster[k]) /\ e \in cluster[k][i].members
        BY <2>2, <3>1, <3>3
      <4>2. e \in Held(cluster[k], InHand(k), rest, i)
        BY <1>2, <2>4, <4>1 DEF Held, InHand
      <4>3. e \in Present(k)
        BY <1>1, <1>2, <4>1, <4>2 DEF PlacedOK, Within
      <4>4. home[e][object[k][e]] = i /\ e \notin new /\ object'[k][e] = object[k][e]
            /\ object[k][e] \in Objects
        <5>1. home[e][object[k][e]] = i
          BY <1>2, <4>1, <4>2, <4>3 DEF HomeOK
        <5>2. e \notin new
          BY <1>3, <4>3
        <5>3. object'[k][e] = object[k][e] /\ object[k][e] \in Objects
          BY <1>4, <4>3, <5>2 DEF Present
        <5> QED
          BY <5>1, <5>2, <5>3
      <4> QED
        BY <2>5, <3>1, <4>4
    <3> QED
      BY <3>2, <3>3
  <2> QED
    BY <1>1, <1>2, <1>4, <2>2, <2>3, <2>6, <2>7, HomeChanged
<1> QED
  BY <1>6, <1>7, <1>8, InsertTo

\* Accounts that are read from the database come as objects of their own.
LEMMA ObjectLeft ==
  ASSUME NEW k \in Contexts, NEW e
  PROVE  LET free == Objects \ {object[j][e] : j \in Contexts \ {k}} IN Min(free) \in free
<1> DEFINE J == Contexts \ {k}
           T == {object[j][e] : j \in J}
           f == [j \in J |-> object[j][e]]
           n == Cardinality(Contexts)
<1>1. IsFiniteSet(Contexts) /\ n \in Nat
  BY ContextTreeAssumption, FS_CardinalityType
<1>2. IsFiniteSet(J) /\ Cardinality(J) = n - 1
  BY <1>1, FS_RemoveElement
<1>3. f \in Surjection(J, T)
  BY DEF Surjection
<1> HIDE DEF f, J, T
<1>4. IsFiniteSet(T) /\ Cardinality(T) <= Cardinality(J)
  BY <1>2, <1>3, FS_Surjection
<1> HIDE DEF n
<1>5. Objects = 1..n
  BY DEF Objects, n
<1>6. Cardinality(Objects) = n
  BY <1>1, <1>5, FS_Interval
<1>7. ~(Objects \subseteq T)
  <2>1. Objects \in SUBSET T => Cardinality(Objects) <= Cardinality(T)
    BY <1>4, FS_Subset
  <2>2. Cardinality(T) \in Nat
    BY <1>4, FS_CardinalityType
  <2> QED
    BY <1>1, <1>2, <1>4, <1>6, <2>1, <2>2
<1> DEFINE free == Objects \ T
<1>8. free \in SUBSET Nat /\ free # {}
  BY <1>5, <1>7
<1> HIDE DEF free
<1>9. \E m \in free : \A y \in free : m <= y
  BY <1>8, LeastOf
<1>10. Min(free) \in free
  BY <1>9 DEF Min
<1> QED
  BY <1>10 DEF free, T, J

\* Clusters of the context lose members, or accounts leave it.
LEMMA HomesKept ==
  ASSUME OwnInv, NEW c, Clusters(c, Ids), cluster' = [cluster EXCEPT ![target] = c],
         target' = target, home' = home,
         \A j \in Contexts \ {target} : object'[j] = object[j],
         \A e \in Entities : object'[target][e] \in {object[target][e], None},
         \A i \in Live(c) :
           i \in Live(Here) /\ Held(c, splitting', rest', i) \subseteq Held(Here, splitting, rest, i)
  PROVE  Apart' /\ HomeOK'
<1>1. TypeOK /\ target \in Contexts /\ Apart /\ HomeOK
  BY DEF OwnInv, PlacedInv, TreeInv, TypeOK
<1>2. ASSUME NEW i \in Live(c), NEW e \in Held(c, splitting', rest', i), e \in Present(target)'
      PROVE  home'[e][object'[target][e]] = i
  <2>1. e \in Present(target) /\ object'[target][e] = object[target][e]
    BY <1>1, <1>2 DEF Present
  <2>2. i \in Live(cluster[target]) /\ e \in Held(cluster[target], InHand(target), rest, i)
    BY <1>2 DEF Here, InHand
  <2> QED
    BY <1>1, <2>1, <2>2 DEF HomeOK
<1>3. HomeOK'
  BY <1>1, <1>2, HomeChanged
<1>4. Apart'
  <2> SUFFICES ASSUME NEW i \in Contexts, NEW j \in Contexts, i # j, NEW e \in Entities
               PROVE  object'[i][e] = None \/ object'[i][e] # object'[j][e]
    BY DEF Apart
  <2>1. object[i][e] = None \/ object[i][e] # object[j][e]
    BY <1>1 DEF Apart
  <2>2. object'[i][e] \in {object[i][e], None} /\ object'[j][e] \in {object[j][e], None}
    OBVIOUS
  <2> QED
    BY <2>1, <2>2
<1> QED
  BY <1>3, <1>4

\* A step that changes neither clusters nor accounts.
LEMMA OtherHome ==
  ASSUME OwnInv, UNCHANGED <<cluster, object, home, splitting, rest>>,
         target' = target \/ splitting = None
  PROVE  Apart' /\ HomeOK'
<1>1. \A k : InHand(k)' = InHand(k) /\ Present(k)' = Present(k)
  BY DEF InHand, Present
<1> QED
  BY <1>1 DEF OwnInv, Apart, HomeOK

LEMMA SplitHome ==
  ASSUME OwnInv, NEW x \in Ids, Split(x)
  PROVE  Apart' /\ HomeOK'
<1>1. /\ pc = "split" /\ x \in Live(Here) /\ x \notin Unused /\ Unused \cap Live(Here) = {}
      /\ Here[x].members \in SUBSET Entities
      /\ UNCHANGED <<object, roots, view, pc, requestVars, stage, modified, fillVars, walkVars>>
  BY SplitTo DEF OwnInv, PlacedInv
<1>2. PICK to \in [Here[x].members -> Ids] :
        /\ Range(to) \subseteq Here[x].subs \cup Unused
        /\ cluster' = [cluster EXCEPT ![target] = Adopted(Joined(Here, to), x, Range(to))]
        /\ home' = Rehomed(target, to)
  BY SplitTo DEF OwnInv, PlacedInv
<1> DEFINE c == Adopted(Joined(Here, to), x, Range(to))
           new == Here[x].members
<1>3. /\ TypeOK /\ Clusters(Here, Ids) /\ Tree(Here) /\ RootKnown(Here) /\ splitting = None
      /\ splitting' = None /\ rest' = rest
  BY <1>1, SplittingIs DEF OwnInv, PlacedInv, fillVars
<1>4. Clusters(c, Ids) /\ SplitInto(Here, x, to, c)
  BY <1>1, <1>2, <1>3, SplitIs, SplitMembers
<1>5. cluster' = [cluster EXCEPT ![target] = c]
  BY <1>2
<1> HIDE DEF c
<1>6. /\ Placed(Here, None, rest, Present(target)) /\ Within(Here, None, rest, Present(target))
      /\ None \notin Live(Here)
  BY <1>1, <1>3, PlacedHere DEF OwnInv
<1>7. None \notin Live(c)
  BY <1>4, LiveIs, ContextTreeAssumption
<1>8. ASSUME NEW i \in Live(c), NEW e \in Held(c, splitting', rest', i)
      PROVE  \/ e \in new /\ to[e] = i
             \/ e \notin new /\ i \in Live(Here) /\ e \in Held(Here, splitting, rest, i)
  <2>1. e \in c[i].members
    BY <1>3, <1>7, <1>8 DEF Held
  <2>2. CASE e \in Joining(to, i)
    BY <2>2 DEF Joining
  <2>3. CASE e \notin Joining(to, i)
    <3>1. i \in Live(Here) /\ i # x /\ e \in Here[i].members
      BY <1>1, <1>4, <2>1, <2>3 DEF SplitInto
    <3>2. e \in Held(Here, None, rest, i) /\ e \in Present(target)
      BY <1>6, <3>1 DEF Held, Within
    <3>3. e \notin new
      BY <1>1, <1>6, <3>1, <3>2 DEF Held, Placed
    <3> QED
      BY <1>3, <3>1, <3>2, <3>3
  <2> QED
    BY <2>2, <2>3
<1>9. object' = object /\ target' = target
  BY <1>1 DEF requestVars
<1> QED
  BY <1>1, <1>2, <1>4, <1>5, <1>8, <1>9, HomesMoved

LEMMA StartFillHome ==
  ASSUME OwnInv, NEW x \in Ids, StartFill(x)
  PROVE  Apart' /\ HomeOK'
<1>1. /\ pc = "split" /\ splitting' = x /\ rest' = Here[x].members
      /\ object' = object /\ home' = home /\ cluster' = cluster /\ target' = target
  BY DEF StartFill, dataVars, requestVars
<1>2. splitting = None /\ TypeOK /\ target \in Contexts /\ Clusters(Here, Ids) /\ None \notin Live(Here)
  BY <1>1, SplittingIs, PlacedHere DEF OwnInv, PlacedInv
<1>3. \A i \in Live(Here) : Held(Here, splitting', rest', i) = Held(Here, splitting, rest, i)
  BY <1>1, <1>2 DEF Held
<1>4. cluster' = [cluster EXCEPT ![target] = Here]
  BY <1>1, <1>2 DEF Here, TypeOK
<1> QED
  BY <1>1, <1>2, <1>3, <1>4, HomesKept

LEMMA MoveHome ==
  ASSUME OwnInv, NEW e \in Entities, NEW y \in Here[splitting].subs \cup moved \cup Unused, Move(e, y)
  PROVE  Apart' /\ HomeOK'
<1> DEFINE to == [a \in {e} |-> y]
           c == Joined(Here, to)
<1>1. /\ pc = "fill" /\ e \in rest /\ rest' = rest \ {e}
      /\ y \in Ids /\ y # splitting
      /\ cluster' = [cluster EXCEPT ![target] = c] /\ Clusters(c, Ids)
      /\ MovedInto(Here, e, y, c) /\ home' = Rehomed(target, to)
      /\ UNCHANGED <<object, roots, view, pc, requestVars, stageVars, splitting, walkVars>>
  BY MoveIs DEF OwnInv, PlacedInv
<1>2. splitting \in Live(Here)
  BY <1>1, FillingIs DEF OwnInv, PlacedInv
<1>3. to \in [{e} -> Ids] /\ to[e] = y
  BY <1>1
<1> HIDE DEF c, to
<1>4. \A a : \A i \in Live(c) : a \in Held(c, splitting, rest', i) =>
        \/ a = e /\ i = y
        \/ a # e /\ i \in Live(Here) /\ a \in Held(Here, splitting, rest, i)
        \/ a = e /\ i # splitting /\ i \in Live(Here) /\ a \in Held(Here, splitting, rest, i)
  BY <1>1, <1>2 DEF Held, MovedInto
<1>5. \A i \in Live(Here) : e \in Held(Here, splitting, rest, i) => i = splitting
  <2>1. Placed(Here, splitting, rest, Present(target)) /\ Within(Here, splitting, rest, Present(target))
    BY <1>1, PlacedHere DEF OwnInv
  <2>2. e \in Held(Here, splitting, rest, splitting)
    BY <1>1 DEF Held
  <2> QED
    BY <1>2, <2>1, <2>2 DEF Placed, Within
<1>6. \A i \in Live(c) : \A a \in Held(c, splitting', rest', i) :
        \/ a \in {e} /\ to[a] = i
        \/ a \notin {e} /\ i \in Live(Here) /\ a \in Held(Here, splitting, rest, i)
  BY <1>1, <1>3, <1>4, <1>5
<1>7. object' = object /\ target' = target /\ {e} \in SUBSET Entities
  BY <1>1 DEF requestVars
<1> QED
  BY <1>1, <1>3, <1>6, <1>7, HomesMoved

LEMMA EndFillHome ==
  ASSUME OwnInv, EndFill
  PROVE  Apart' /\ HomeOK'
<1> DEFINE c == Adopted(Here, splitting, moved)
<1>1. /\ pc = "fill" /\ rest = {} /\ rest' = rest /\ cluster' = [cluster EXCEPT ![target] = c]
      /\ splitting' = None /\ object' = object /\ home' = home /\ target' = target
  BY DEF EndFill, requestVars
<1>2. splitting \in Live(Here) /\ moved \subseteq Live(Here) /\ splitting \notin moved
  BY <1>1, FillingIs DEF OwnInv, PlacedInv
<1>3. Clusters(Here, Ids)  /\ None \notin Live(Here)
  BY <1>1, PlacedHere DEF OwnInv
<1>4. /\ Clusters(c, Ids) /\ Live(c) = Live(Here) /\ c[splitting].members = {}
      /\ \A i \in moved : c[i].members = Here[i].members
      /\ \A i \in Live(Here) \ (moved \cup {splitting}) : c[i] = Here[i]
  BY <1>2, <1>3, AdoptedIs
<1> HIDE DEF c
<1>5. \A i \in Live(Here) : Held(c, splitting', rest', i) = Held(Here, splitting, rest, i)
  BY <1>1, <1>3, <1>4 DEF Held
<1> QED
  BY <1>1, <1>4, <1>5, HomesKept

\* The clusters lose members while none is split by size.
LEMMA HomesFewer ==
  ASSUME OwnInv, splitting = None, UNCHANGED fillVars,
         NEW c, Clusters(c, Ids), cluster' = [cluster EXCEPT ![target] = c],
         target' = target, home' = home,
         \A j \in Contexts \ {target} : object'[j] = object[j],
         \A e \in Entities : object'[target][e] \in {object[target][e], None},
         Live(c) \subseteq Live(Here),
         \A i \in Live(c) : c[i].members \subseteq Here[i].members
  PROVE  Apart' /\ HomeOK'
<1>1. splitting' = None /\ rest' = rest
  BY DEF fillVars
<1>2. None \notin Live(Here)
  BY PlacedHere DEF OwnInv
<1>3. \A i \in Live(c) :
        i \in Live(Here) /\ Held(c, splitting', rest', i) \subseteq Held(Here, splitting, rest, i)
  BY <1>1, <1>2 DEF Held
<1> QED
  BY <1>3, HomesKept

LEMMA EndSplitHome ==
  ASSUME OwnInv, EndSplit
  PROVE  Apart' /\ HomeOK'
<1> DEFINE c == Updated(Here, modified, Present(target))
<1>1. /\ pc = "split" /\ target' = target /\ object' = object /\ home' = home
      /\ cluster' = [cluster EXCEPT ![target] = c] /\ UNCHANGED fillVars
  BY DEF EndSplit, requestVars, StartCollapse
<1>2. splitting = None /\ Tree(Here) /\ Clusters(Here, Ids)
  BY <1>1, SplittingIs DEF OwnInv, PlacedInv
<1>3. Links(Here)
  BY <1>2 DEF Tree
<1>4. /\ Clusters(c, Ids) /\ Live(c) \subseteq Live(Here)
      /\ \A i \in Live(c) : c[i].members \subseteq Here[i].members
  BY <1>2, <1>3, UpdatedFewer
<1> HIDE DEF c
<1> QED
  BY <1>1, <1>2, <1>4, HomesFewer

LEMMA EndRemoveHome ==
  ASSUME OwnInv, EndRemove
  PROVE  Apart' /\ HomeOK'
<1> DEFINE c == Updated(Here, roots[target], Present(target))
<1>1. /\ pc = "remove" /\ target' = target /\ object' = object /\ home' = home
      /\ cluster' = [cluster EXCEPT ![target] = c] /\ UNCHANGED fillVars
  BY DEF EndRemove, requestVars, StartCollapse
<1>2. splitting = None /\ Links(Here) /\ Clusters(Here, Ids)
  BY <1>1, RemovingPlaced DEF OwnInv
<1>3. /\ Clusters(c, Ids) /\ Live(c) \subseteq Live(Here)
      /\ \A i \in Live(c) : c[i].members \subseteq Here[i].members
  BY <1>2, UpdatedFewer
<1> HIDE DEF c
<1> QED
  BY <1>1, <1>2, <1>3, HomesFewer

\* A removal leaves only accounts that are present in the clusters.
LEMMA RemovalOwn ==
  ASSUME OwnInv, pc = "remove", UNCHANGED fillVars,
         NEW c, Clusters(c, Ids), cluster' = [cluster EXCEPT ![target] = c],
         target' = target, home' = home,
         \A j \in Contexts \ {target} : object'[j] = object[j],
         \A e \in Entities : object'[target][e] \in {object[target][e], None},
         Live(c) \subseteq Live(Here),
         \A i \in Live(c) : c[i].members \subseteq Here[i].members,
         \A i \in Live(c) : \A e \in c[i].members : object'[target][e] # None
  PROVE  Apart' /\ HomeOK' /\ WithinOK'
<1>1. /\ TypeOK /\ target \in Contexts /\ splitting = None /\ splitting' = None /\ rest' = rest
      /\ None \notin Live(Here) /\ \A i \in Live(Here) : Here[i].members \subseteq Entities
  BY RemovingPlaced, HereIs DEF OwnInv, fillVars, Here
<1>2. Apart' /\ HomeOK'
  BY <1>1, HomesFewer
<1>3. cluster'[target] = c /\ \A j \in Contexts \ {target} : cluster'[j] = cluster[j]
  BY <1>1, ClusterChanged
<1>4. Within(cluster'[target], None, rest', Present(target)')
  BY <1>1, <1>3 DEF Within, Held, Present
<1>5. ASSUME NEW j \in Contexts \ {target}
      PROVE  Within(cluster'[j], None, rest', Present(j)')
  <2>1. Within(cluster[j], InHand(j), rest, Present(j)) /\ InHand(j) = None
    BY <1>1 DEF OwnInv, WithinOK, InHand
  <2>2. Present(j)' = Present(j)
    BY DEF Present
  <2> QED
    BY <1>1, <1>3, <2>1, <2>2
<1>6. \A j \in Contexts : InHand(j)' = None
  BY <1>1 DEF InHand
<1> QED
  BY <1>2, <1>4, <1>5, <1>6 DEF WithinOK

\* While accounts and clusters are removed, each is where it says it is.
LEMMA RemovingOwn ==
  ASSUME OwnInv, pc = "remove"
  PROVE  /\ TypeOK /\ target \in Contexts /\ Clusters(Here, Ids) /\ Tree(Here) /\ Links(Here)
         /\ \A i \in Live(Here) : \A e \in Here[i].members :
              e \in Present(target) /\ home[e][object[target][e]] = i
         /\ \A i, j \in Live(Here) : \A e \in Here[i].members : e \in Here[j].members => i = j
<1>1. /\ TypeOK /\ target \in Contexts /\ splitting = None /\ None \notin Live(Here)
      /\ Placed(Here, None, rest, Present(target))
      /\ Clusters(Here, Ids) /\ Tree(Here) /\ Links(Here)
  BY RemovingPlaced DEF OwnInv
<1>2. InHand(target) = None /\ Here = cluster[target] /\ WithinOK /\ HomeOK
  BY <1>1 DEF InHand, Here, OwnInv
<1>3. \A i \in Live(Here) : Held(Here, None, rest, i) = Here[i].members
  BY <1>1 DEF Held
<1>4. \A i \in Live(Here) : \A e \in Here[i].members :
        e \in Present(target) /\ home[e][object[target][e]] = i
  BY <1>1, <1>2, <1>3 DEF WithinOK, HomeOK, Within
<1>5. \A i, j \in Live(Here) : \A e \in Here[i].members : e \in Here[j].members => i = j
  BY <1>1, <1>3, <1>4 DEF Placed
<1> QED
  BY <1>1, <1>4, <1>5

LEMMA RemoveAccountOwn ==
  ASSUME OwnInv, NEW e \in Entities, RemoveAccount(e)
  PROVE  Apart' /\ HomeOK' /\ WithinOK'
<1> DEFINE p == ParentOf(target, e)
           c == IF p \in Live(Here) THEN [Here EXCEPT ![p].members = @ \ {e}] ELSE Here
<1>1. /\ pc = "remove" /\ target' = target /\ home' = home /\ UNCHANGED fillVars
      /\ object' = [object EXCEPT ![target][e] = None]
      /\ cluster' = IF p \in Live(Here)
                    THEN [cluster EXCEPT ![target][p].members = @ \ {e}] ELSE cluster
  BY DEF RemoveAccount, requestVars
<1>2. /\ TypeOK /\ target \in Contexts /\ Clusters(Here, Ids)
      /\ \A i \in Live(Here) : \A a \in Here[i].members :
           a \in Present(target) /\ home[a][object[target][a]] = i
  BY <1>1, RemovingOwn
<1>3. cluster' = [cluster EXCEPT ![target] = c]
  BY <1>1, <1>2 DEF Here, TypeOK
<1>4. p = IF object[target][e] = None THEN None ELSE home[e][object[target][e]]
  BY DEF ParentOf
<1> HIDE DEF p
<1>5. AccountOut(Here, e, p, c)
  BY <1>2, AccountOutIs
<1> HIDE DEF c
<1>6. /\ Clusters(c, Ids) /\ Live(c) = Live(Here)
      /\ \A i \in Live(c) : c[i].members \subseteq Here[i].members
      /\ \A i \in Live(c) : i = p => e \notin c[i].members
  BY <1>5 DEF AccountOut
<1>7. /\ \A j \in Contexts \ {target} : object'[j] = object[j]
      /\ \A a \in Entities : object'[target][a] = IF a = e THEN None ELSE object[target][a]
  BY <1>1, <1>2 DEF TypeOK
<1>8. \A i \in Live(c) : \A a \in c[i].members :
        a \in Entities /\ object[target][a] # None /\ a # e
  <2> TAKE i \in Live(c)
  <2> TAKE a \in c[i].members
  <2>1. i \in Live(Here) /\ a \in Here[i].members
    BY <1>6
  <2>2. a \in Present(target) /\ home[a][object[target][a]] = i
    BY <1>2, <2>1
  <2>3. a = e => i = p
    BY <1>4, <2>2 DEF Present
  <2> QED
    BY <1>6, <2>2, <2>3 DEF Present
<1>9. \A i \in Live(c) : \A a \in c[i].members : object'[target][a] # None
  BY <1>7, <1>8
<1>10. \A a \in Entities : object'[target][a] \in {object[target][a], None}
  BY <1>7
<1> QED
  BY <1>1, <1>3, <1>6, <1>7, <1>9, <1>10, RemovalOwn

LEMMA RemoveClusterOwn ==
  ASSUME OwnInv, NEW x \in Ids, RemoveCluster(x)
  PROVE  Apart' /\ HomeOK' /\ WithinOK'
<1> DEFINE gone == Below(Here, x)
           c == Without(Here, gone, x)
<1>1. /\ pc = "remove" /\ x \in Live(Here) /\ target' = target /\ home' = home /\ UNCHANGED fillVars
      /\ object' = [object EXCEPT ![target] =
                      [e \in Entities |-> IF e \in AccountsBelow(Here, x) THEN None ELSE @[e]]]
      /\ cluster' = [cluster EXCEPT ![target] = c]
  BY DEF RemoveCluster, requestVars
<1>2. /\ TypeOK /\ target \in Contexts /\ Clusters(Here, Ids) /\ Links(Here)
      /\ \A i \in Live(Here) : \A e \in Here[i].members : e \in Present(target)
      /\ \A i, j \in Live(Here) : \A e \in Here[i].members : e \in Here[j].members => i = j
  BY <1>1, RemovingOwn
<1>3. gone \in SUBSET Live(Here) /\ x \in gone
  BY <1>1, <1>2, BelowIs
<1>4. \A e : e \in AccountsBelow(Here, x) => \E i \in gone : e \in Here[i].members
  BY DEF AccountsBelow
<1> HIDE DEF gone
<1>5. /\ Clusters(c, Ids) /\ Live(c) = Live(Here) \ gone
      /\ \A i \in Live(Here) \ gone : c[i].members = Here[i].members /\ c[i].subs = Here[i].subs \ {x}
  BY <1>1, <1>2, <1>3, WithoutIs
<1> HIDE DEF c
<1>6. /\ \A j \in Contexts \ {target} : object'[j] = object[j]
      /\ \A e \in Entities :
           object'[target][e] = IF e \in AccountsBelow(Here, x) THEN None ELSE object[target][e]
  BY <1>1, <1>2 DEF TypeOK
<1>7. \A i \in Live(c) : \A e \in c[i].members : object'[target][e] # None
  <2> TAKE i \in Live(c)
  <2> TAKE e \in c[i].members
  <2>1. i \in Live(Here) /\ i \notin gone /\ e \in Here[i].members
    BY <1>5
  <2>2. e \in Present(target)
    BY <1>2, <2>1
  <2>3. e \notin AccountsBelow(Here, x)
    BY <1>2, <1>3, <1>4, <2>1
  <2> QED
    BY <1>6, <2>2, <2>3 DEF Present
<1>8. \A e \in Entities : object'[target][e] \in {object[target][e], None}
  BY <1>6
<1> QED
  BY <1>1, <1>5, <1>6, <1>7, <1>8, RemovalOwn

LEMMA PruneEmptyOwn ==
  ASSUME OwnInv, PruneEmpty
  PROVE  Apart' /\ HomeOK' /\ WithinOK'
<1> DEFINE c == Without(Here, {lost}, lost)
<1>1. /\ pc = "remove" /\ lost # None /\ target' = target /\ home' = home /\ UNCHANGED fillVars
      /\ object' = object /\ cluster' = [cluster EXCEPT ![target] = c]
  BY DEF PruneEmpty, requestVars
<1>2. /\ Clusters(Here, Ids) /\ Links(Here)
      /\ \A i \in Live(Here) : \A e \in Here[i].members : e \in Present(target)
  BY <1>1, RemovingOwn
<1>3. lost \in Live(Here) /\ {lost} \in SUBSET Live(Here) /\ lost \in {lost}
  BY <1>1, RemovingIs DEF OwnInv, PlacedInv
<1>4. /\ Clusters(c, Ids) /\ Live(c) = Live(Here) \ {lost}
      /\ \A i \in Live(Here) \ {lost} : c[i].members = Here[i].members /\ c[i].subs = Here[i].subs \ {lost}
  BY <1>2, <1>3, WithoutIs
<1> HIDE DEF c
<1>5. \A i \in Live(c) : \A e \in c[i].members : object'[target][e] # None
  BY <1>1, <1>2, <1>4 DEF Present
<1> QED
  BY <1>1, <1>4, <1>5, RemovalOwn

\* New accounts are objects of their own, unless a cluster of another context is
\* inserted.
LEMMA InsertAccountsHome ==
  ASSUME OwnInv, NEW k \in Contexts, NEW E \in Batches, InsertAccounts(k, E)
  PROVE  Apart' /\ HomeOK'
<1>1. PICK o \in [E -> Objects] :
        /\ \A e \in E : o[e] = Min(Objects \ {object[j][e] : j \in Contexts \ {k}})
        /\ Insert(k, o)
  BY DEF InsertAccounts
<1>2. E \in SUBSET Entities
  BY ContextTreeAssumption
<1>3. \A e \in NewTo(k, E) : \A j \in Contexts \ {k} : object[j][e] # o[e]
  <2> TAKE e \in NewTo(k, E)
  <2> TAKE j \in Contexts \ {k}
  <2>1. o[e] = Min(Objects \ {object[i][e] : i \in Contexts \ {k}})
    BY <1>1 DEF NewTo
  <2>2. o[e] \in Objects \ {object[i][e] : i \in Contexts \ {k}}
    BY <2>1, ObjectLeft
  <2> QED
    BY <2>2
<1> QED
  BY <1>1, <1>2, <1>3, InsertHome

LEMMA InsertClusterHome ==
  ASSUME OwnInv, Separate, NEW k \in Contexts, NEW j \in Sources[k], NEW x, InsertCluster(k, j, x)
  PROVE  /\ Apart' /\ HomeOK'
         /\ StartCollapse(k, cluster[k]) /\ UNCHANGED <<object, home, roots, stageVars>>
<1> DEFINE E == AccountsBelow(view[k], x) \cap Present(k)
           o == [e \in E |-> object[k][e]]
<1>1. j = k /\ TypeOK
  BY DEF Separate, OwnInv, PlacedInv, TreeInv
<1>2. E \in SUBSET Entities /\ \A e \in E : object[k][e] \in Objects
  BY <1>1 DEF Present, TypeOK
<1>3. Insert(k, o)
  BY <1>1 DEF InsertCluster
<1>4. NewTo(k, E) = {}
  BY DEF NewTo
<1> HIDE DEF E
<1>5. o \in [E -> Objects]
  BY <1>2
<1> HIDE DEF o
<1>6. Apart' /\ HomeOK'
  BY <1>2, <1>3, <1>4, <1>5, InsertHome
<1>7. StartCollapse(k, cluster[k]) /\ UNCHANGED <<home, roots, stageVars>>
  BY <1>2, <1>3, <1>4, <1>5, InsertTo
<1>8. object' = [object EXCEPT ![k] = [e \in Entities |-> object[k][e]]]
  <2>1. DOMAIN o = E
    BY <1>5
  <2> QED
    BY <1>3, <1>4, <2>1 DEF Insert
<1>9. object' = object
  BY <1>1, <1>8 DEF TypeOK
<1> QED
  BY <1>6, <1>7, <1>9

LEMMA NextOwn == Separate /\ OwnInv /\ [Next]_vars => OwnInv'
<1> SUFFICES ASSUME Separate, OwnInv, [Next]_vars
             PROVE  OwnInv'
  OBVIOUS
<1>1. PlacedInv'
  BY NextTree, NextPlaced DEF OwnInv, PlacedInv
<1>2. pc' # "remove" => WithinOK'
  BY <1>1 DEF PlacedInv, PlacedOK, WithinOK
<1>3. CASE UNCHANGED vars
  BY <1>1, <1>3 DEF OwnInv, Apart, HomeOK, WithinOK, vars, dataVars, requestVars, fillVars,
                    InHand, Present
<1>4. ASSUME NEW k \in Contexts, Begin(k)
      PROVE  Apart' /\ HomeOK' /\ WithinOK'
  <2>1. ASSUME NEW E \in Batches, InsertAccounts(k, E)
        PROVE  Apart' /\ HomeOK' /\ WithinOK'
    <3>1. Apart' /\ HomeOK'
      BY <2>1, InsertAccountsHome
    <3>2. pc' # "remove"
      BY <2>1 DEF InsertAccounts, Insert, StartCollapse, Go
    <3> QED
      BY <1>2, <3>1, <3>2
  <2>2. ASSUME NEW j \in Sources[k], NEW x, InsertCluster(k, j, x)
        PROVE  Apart' /\ HomeOK' /\ WithinOK'
    <3>1. Apart' /\ HomeOK' /\ StartCollapse(k, cluster[k])
      BY <2>2, InsertClusterHome
    <3> QED
      BY <1>2, <3>1 DEF StartCollapse, Go
  <2>3. ASSUME NEW d, RemoveMembers(k, d)
        PROVE  Apart' /\ HomeOK' /\ WithinOK'
    <3>1. /\ pc = "idle" /\ cluster' = cluster /\ object' = object /\ home' = home
          /\ splitting' = splitting /\ rest' = rest
      BY <2>3 DEF RemoveMembers, Request, dataVars, fillVars
    <3>2. splitting = None
      BY <3>1 DEF OwnInv, PlacedInv, TreeInv, FillOK
    <3>3. \A j : InHand(j)' = InHand(j) /\ Present(j)' = Present(j)
      BY <3>1, <3>2 DEF InHand, Present
    <3> QED
      BY <3>1, <3>2, <3>3, OtherHome DEF OwnInv, WithinOK
  <2> QED
    BY <1>4, <2>1, <2>2, <2>3 DEF Begin
<1>5. ASSUME Work
      PROVE  Apart' /\ HomeOK' /\ WithinOK'
  <2>1. ASSUME NEW x \in Ids, Split(x) \/ StartFill(x)
        PROVE  Apart' /\ HomeOK' /\ WithinOK'
    <3>1. pc' # "remove"
      BY <2>1 DEF Split, StartFill, Go
    <3> QED
      BY <1>2, <2>1, <3>1, SplitHome, StartFillHome
  <2>2. ASSUME NEW e \in Entities, FillFirst(e) \/ FillNew(e) \/ FillOverflow(e)
        PROVE  Apart' /\ HomeOK' /\ WithinOK'
    <3>1. PICK y \in Here[splitting].subs \cup moved \cup Unused : Move(e, y)
      BY <2>2, MoveTo DEF OwnInv, PlacedInv
    <3>2. pc' # "remove"
      BY <3>1 DEF Move
    <3> QED
      BY <1>2, <3>1, <3>2, MoveHome
  <2>3. ASSUME EndFill \/ EndSplit \/ EndRemove
        PROVE  Apart' /\ HomeOK' /\ WithinOK'
    <3>1. pc' # "remove"
      BY <2>3 DEF EndFill, EndSplit, EndRemove, StartCollapse, Go
    <3> QED
      BY <1>2, <2>3, <3>1, EndFillHome, EndSplitHome, EndRemoveHome
  <2>4. ASSUME NEW x \in Ids, RemoveCluster(x)
        PROVE  Apart' /\ HomeOK' /\ WithinOK'
    BY <2>4, RemoveClusterOwn
  <2>5. ASSUME NEW e \in Entities, RemoveAccount(e)
        PROVE  Apart' /\ HomeOK' /\ WithinOK'
    BY <2>5, RemoveAccountOwn
  <2>6. ASSUME PruneEmpty
        PROVE  Apart' /\ HomeOK' /\ WithinOK'
    BY <2>6, PruneEmptyOwn
  <2>7. ASSUME PruneEnds
        PROVE  Apart' /\ HomeOK' /\ WithinOK'
    <3>1. UNCHANGED <<cluster, object, home, splitting, rest, target>>
      BY <2>7 DEF PruneEnds, dataVars, fillVars, requestVars
    <3>2. \A j : InHand(j)' = InHand(j) /\ Present(j)' = Present(j)
      BY <3>1 DEF InHand, Present
    <3> QED
      BY <3>1, <3>2, OtherHome DEF OwnInv, WithinOK
  <2>8. ASSUME NextStage
        PROVE  Apart' /\ HomeOK' /\ WithinOK'
    <3>1. UNCHANGED <<cluster, object, home, splitting, rest, target, pc>> /\ pc = "split"
      BY <2>8 DEF NextStage, dataVars, fillVars, requestVars
    <3> QED
      BY <1>2, <3>1, OtherHome
  <2>9. ASSUME NEW x \in todo, DropChainRoot(x) \/ DropChain(x) \/ DropSingletonRoot(x)
                               \/ DropSingleton(x) \/ Keep(x)
        PROVE  Apart' /\ HomeOK' /\ WithinOK'
    <3>1. /\ UNCHANGED <<cluster, object, home, fillVars, requestVars, pc>> /\ pc = "collapse"
      BY <2>9 DEF DropChainRoot, DropChain, DropSingletonRoot, DropSingleton, Keep, MayVisit, Visit
    <3>2. UNCHANGED <<cluster, object, home, splitting, rest, target>>
      BY <3>1 DEF fillVars, requestVars
    <3> QED
      BY <1>2, <3>1, <3>2, OtherHome
  <2>10. ASSUME EndCollapse
        PROVE  Apart' /\ HomeOK' /\ WithinOK'
    <3>1. UNCHANGED <<cluster, object, home, splitting, rest, target>> /\ pc' = "idle"
      BY <2>10 DEF EndCollapse, fillVars, requestVars, Go
    <3> QED
      BY <1>2, <3>1, OtherHome
  <2> QED
    BY <1>5, <2>1, <2>2, <2>3, <2>4, <2>5, <2>6, <2>7, <2>8, <2>9, <2>10 DEF Work
<1> QED
  BY <1>1, <1>3, <1>4, <1>5 DEF Next, OwnInv

LEMMA InitOwn == Init => OwnInv
<1> SUFFICES ASSUME Init
             PROVE  OwnInv
  OBVIOUS
<1>1. \A k \in Contexts : Live(cluster[k]) = {} /\ \A e \in Entities : object[k][e] = None
  BY DEF Init, NoClusters, Live
<1>2. Apart /\ HomeOK /\ WithinOK
  BY <1>1 DEF Apart, HomeOK, WithinOK, Within
<1> QED
  BY <1>2, InitTree, InitPlaced DEF OwnInv, PlacedInv

LEMMA OwnAlways ==
  ASSUME Separate
  PROVE  Spec => []OwnInv
<1>1. OwnInv /\ [Next]_vars => OwnInv'
  BY NextOwn
<1> QED
  BY <1>1, InitOwn, PTL DEF Spec

-----------------------------------------------------------------------------
(* What a removal reports as changed                                       *)

\* A cluster is above those that are below it.
LEMMA AboveIsBelow ==
  ASSUME NEW c, Clusters(c, Ids), Tree(c), NEW y
  PROVE  \A i : i \in Above(c, y) <=> i \in Live(c) /\ y \in Below(c, i)
<1>1. CASE y \notin Live(c)
  <2>1. Above(c, y) \subseteq {}
    <3> DEFINE T == {}
    <3>1. T \in SUBSET Live(c) /\ \A z \in T : c[z].parent \in Live(c) => c[z].parent \in T
      OBVIOUS
    <3>2. Above(c, y) \subseteq T
      BY <1>1, <3>1, AboveIs
    <3> QED
      BY <3>2
  <2> QED
    BY <1>1, <2>1, BelowIs
<1>2. CASE y \in Live(c)
  <2>1. Above(c, y) \subseteq {i \in Live(c) : y \in Below(c, i)}
    <3> DEFINE T == {i \in Live(c) : y \in Below(c, i)}
    <3>1. y \in T
      BY <1>2, BelowIs
    <3>2. ASSUME NEW i \in T, c[i].parent \in Live(c)
          PROVE  c[i].parent \in T
      <4> DEFINE p == c[i].parent
      <4>1. p \in Live(c) /\ i \in Live(c) /\ p # None /\ i \in c[p].subs
        BY <3>2, LiveIs, ContextTreeAssumption DEF Tree, Links
      <4>2. i \in Below(c, p)
        BY <4>1, BelowIs
      <4>3. /\ Below(c, p) \in SUBSET Live(c)
            /\ \A u \in Below(c, p) : \A z \in c[u].subs : z \in Live(c) => z \in Below(c, p)
        BY BelowIs
      <4>4. Below(c, i) \subseteq Below(c, p)
        BY <4>2, <4>3, BelowIs
      <4> QED
        BY <4>1, <4>4
    <3> HIDE DEF T
    <3>3. T \in SUBSET Live(c)
      BY DEF T
    <3>4. Above(c, y) \subseteq T
      BY <3>1, <3>2, <3>3, AboveIs
    <3> QED
      BY <3>4 DEF T
  <2>2. ASSUME NEW i \in Live(c)
        PROVE  Below(c, i) \subseteq {z \in Live(c) : i \in Above(c, z)}
    <3> DEFINE T == {z \in Live(c) : i \in Above(c, z)}
    <3>1. i \in T
      BY AboveIs
    <3>2. ASSUME NEW u \in T, NEW z \in c[u].subs, z \in Live(c)
          PROVE  z \in T
      <4>1. u \in Live(c) /\ c[z].parent = u
        BY <3>2 DEF Tree, Links
      <4>2. u \in Above(c, z)
        BY <3>2, <4>1, AboveIs
      <4>3. /\ Above(c, z) \in SUBSET Live(c)
            /\ \A w \in Above(c, z) : c[w].parent \in Live(c) => c[w].parent \in Above(c, z)
        BY AboveIs
      <4>4. Above(c, u) \subseteq Above(c, z)
        BY <4>2, <4>3, AboveIs
      <4> QED
        BY <3>2, <4>4
    <3> HIDE DEF T
    <3>3. T \in SUBSET Live(c)
      BY DEF T
    <3>4. Below(c, i) \subseteq T
      BY <3>1, <3>2, <3>3, BelowIs
    <3> QED
      BY <3>4 DEF T
  <2>3. Above(c, y) \subseteq Live(c)
    BY AboveIs
  <2> QED
    BY <2>1, <2>2, <2>3
<1> QED
  BY <1>1, <1>2

\* Of an account.
LEMMA AccountAncestors ==
  ASSUME OwnInv, pc = "idle", NEW k \in Contexts, NEW d \in Entities, NEW i
  PROVE  i \in Above(cluster[k], ParentOf(k, d)) <=>
           i \in Live(cluster[k]) /\ d \in AccountsBelow(cluster[k], i)
<1> DEFINE c == cluster[k]
           p == ParentOf(k, d)
<1>1. TypeOK /\ splitting = None /\ PlacedOK /\ HomeOK
  BY DEF OwnInv, PlacedInv, TreeInv, FillOK
<1>2. Clusters(c, Ids) /\ None \notin Live(c) /\ Tree(c)
  BY <1>1, HereIs DEF OwnInv, PlacedInv, TreeInv, TreesOK
<1>3. InHand(k) = None /\ \A j \in Live(c) : Held(c, InHand(k), rest, j) = c[j].members
  BY <1>1, <1>2 DEF InHand, Held
<1>4. \A j \in Live(c) : d \in c[j].members =>
        d \in Present(k) /\ home[d][object[k][d]] = j
  <2> TAKE j \in Live(c)
  <2> HAVE d \in c[j].members
  <2>1. d \in Held(c, InHand(k), rest, j)
    BY <1>3
  <2>2. d \in Present(k)
    BY <1>1, <1>3, <2>1 DEF PlacedOK, Within
  <2> QED
    BY <1>1, <2>1, <2>2 DEF HomeOK
<1>5. p = IF object[k][d] = None THEN None ELSE home[d][object[k][d]]
  BY DEF ParentOf
<1>6. d \in Present(k) => p \in Live(c) /\ d \in c[p].members
  <2> HAVE d \in Present(k)
  <2>1. PICK j \in Live(c) : d \in Held(c, InHand(k), rest, j)
    BY <1>1 DEF PlacedOK, Placed
  <2>2. d \in c[j].members
    BY <1>3, <2>1
  <2>3. p = j
    BY <1>4, <1>5, <2>2 DEF Present
  <2> QED
    BY <2>1, <2>2, <2>3
<1>7. d \notin Present(k) => p = None
  BY <1>5 DEF Present
<1> HIDE DEF c, p
<1>8. \A j \in Live(c) : p \in Below(c, j) <=> d \in AccountsBelow(c, j)
  <2> TAKE j \in Live(c)
  <2>1. Below(c, j) \subseteq Live(c)
    BY <1>2, BelowIs
  <2>2. d \in AccountsBelow(c, j) <=> \E y \in Below(c, j) : d \in c[y].members
    BY DEF AccountsBelow
  <2>3. \A y \in Below(c, j) : d \in c[y].members => y = p
    BY <1>4, <1>5, <2>1 DEF Present
  <2>4. p \in Below(c, j) => d \in c[p].members
    BY <1>2, <1>6, <1>7, <2>1
  <2> QED
    BY <2>2, <2>3, <2>4
<1>9. i \in Above(c, p) <=> i \in Live(c) /\ p \in Below(c, i)
  BY <1>2, AboveIsBelow
<1> QED
  BY <1>8, <1>9 DEF c, p

\* Of a cluster.
LEMMA ClusterAncestors ==
  ASSUME OwnInv, pc = "idle", NEW k \in Contexts, NEW d \in Ids, NEW i
  PROVE  i \in Above(cluster[k], ParentOf(k, d)) <=>
           i \in Live(cluster[k]) /\ d \in Below(cluster[k], i) \ {i}
<1> DEFINE c == cluster[k]
           p == ParentOf(k, d)
<1>1. Clusters(c, Ids) /\ None \notin Live(c) /\ Tree(c) /\ c \in [Ids -> Cluster \cup {None}]
  BY HereIs DEF OwnInv, PlacedInv, TreeInv, TreesOK
<1>2. p = IF d \in Live(c) THEN c[d].parent ELSE None
  BY <1>1, ContextTreeAssumption DEF ParentOf, Live
<1> HIDE DEF c, p
<1>3. ASSUME NEW j \in Live(c)
      PROVE  p \in Below(c, j) <=> d \in Below(c, j) \ {j}
  <2>1. /\ Below(c, j) \subseteq Live(c)
        /\ \A y \in Below(c, j) : \A z \in c[y].subs : z \in Live(c) => z \in Below(c, j)
    BY <1>1, BelowIs
  <2>2. /\ \A y \in Below(c, j) : y = j \/ c[y].parent \in Below(c, j)
        /\ c[j].parent \notin Below(c, j)
    BY <1>1, BelowHasParent
  <2>3. CASE d \notin Live(c)
    BY <1>1, <1>2, <2>1, <2>3
  <2>4. CASE d \in Live(c)
    <3>1. p = c[d].parent
      BY <1>2, <2>4
    <3>2. p # None => d \in c[p].subs
      BY <1>1, <2>4, <3>1 DEF Tree, Links
    <3>3. p \in Below(c, j) => d \in Below(c, j) /\ d # j
      BY <1>1, <2>1, <2>2, <2>4, <3>1, <3>2
    <3> QED
      BY <2>2, <3>1, <3>3
  <2> QED
    BY <2>3, <2>4
<1>4. i \in Above(c, p) <=> i \in Live(c) /\ p \in Below(c, i)
  BY <1>1, AboveIsBelow
<1> QED
  BY <1>3, <1>4 DEF c, p

LEMMA RemovalAncestors ==
  ASSUME OwnInv, OwnInv', NEW k \in Contexts, NEW x, RemoveMembers(k, x)
  PROVE  /\ target' = k
         /\ ancestors' = {i \in Live(cluster[k]) :
              \E d \in todo' : d \in AccountsBelow(cluster[k], i) \cup (Below(cluster[k], i) \ {i})}
<1> DEFINE D == IF x = File THEN roots[k] ELSE {x}
           c == cluster[k]
<1>1. pc = "idle" /\ target' = k /\ ancestors' = AncestorsOf(k, D) /\ todo' = D
  BY DEF RemoveMembers, Request
<1> HIDE DEF D
<1>2. D \subseteq Ids \cup Entities
  BY <1>1 DEF OwnInv, PlacedInv, TreeInv, TypeOK
<1>3. /\ Clusters(c, Ids) /\ Live(c) \subseteq Ids
      /\ \A i \in Live(c) : c[i].members \subseteq Entities
  BY HereIs DEF OwnInv, PlacedInv, TreeInv
<1>4. \A i : Below(c, i) \subseteq Live(c)
  BY <1>3, BelowIs
<1>5. \A i : AccountsBelow(c, i) \subseteq Entities /\ Below(c, i) \subseteq Ids
  BY <1>3, <1>4 DEF AccountsBelow
<1> HIDE DEF c
<1>6. ASSUME NEW i, NEW d \in D
      PROVE  i \in Above(c, ParentOf(k, d)) <=>
               i \in Live(c) /\ d \in AccountsBelow(c, i) \cup (Below(c, i) \ {i})
  <2>1. CASE d \in Entities
    <3>1. i \in Above(c, ParentOf(k, d)) <=> i \in Live(c) /\ d \in AccountsBelow(c, i)
      BY <1>1, <2>1, AccountAncestors DEF c
    <3>2. d \notin Below(c, i)
      BY <1>5, <2>1, ContextTreeAssumption
    <3> QED
      BY <3>1, <3>2
  <2>2. CASE d \in Ids
    <3>1. i \in Above(c, ParentOf(k, d)) <=> i \in Live(c) /\ d \in Below(c, i) \ {i}
      BY <1>1, <2>2, ClusterAncestors DEF c
    <3>2. d \notin AccountsBelow(c, i)
      BY <1>5, <2>2, ContextTreeAssumption
    <3> QED
      BY <3>1, <3>2
  <2> QED
    BY <1>2, <2>1, <2>2
<1>7. \A i : i \in AncestorsOf(k, D) <=> \E d \in D : i \in Above(c, ParentOf(k, d))
  BY DEF AncestorsOf, c
<1>8. \A i : i \in AncestorsOf(k, D) <=>
        i \in Live(c) /\ \E d \in D : d \in AccountsBelow(c, i) \cup (Below(c, i) \ {i})
  BY <1>6, <1>7
<1> QED
  BY <1>1, <1>8 DEF c

\* The ids that findAncestorIds collects from the parents of what is removed are
\* those of the clusters that have it below them, as long as no cluster of another
\* context is inserted: a shared account names the cluster it is in last, of
\* whichever context.
THEOREM RemovalsReported ==
  ASSUME Separate
  PROVE  Spec => AncestorsFound
<1> DEFINE Reported ==
      pc = "idle" /\ pc' = "remove" =>
        ancestors' = {i \in Live(cluster[target']) :
                        \E d \in todo' : d \in AccountsBelow(cluster[target'], i)
                                               \cup (Below(cluster[target'], i) \ {i})}
<1>1. OwnInv /\ OwnInv' /\ [Next]_vars => [Reported]_vars
  <2> SUFFICES ASSUME OwnInv, OwnInv', Next, pc = "idle", pc' = "remove"
               PROVE  Reported
    OBVIOUS
  <2>1. ~Work
    <3>1. \A x : ~Split(x) /\ ~StartFill(x) /\ ~RemoveCluster(x) /\ ~FillFirst(x) /\ ~FillNew(x)
                 /\ ~FillOverflow(x) /\ ~RemoveAccount(x)
      BY DEF Split, StartFill, RemoveCluster, FillFirst, FillNew, FillOverflow, Move, RemoveAccount
    <3>2. ~EndFill /\ ~NextStage /\ ~EndSplit /\ ~PruneEmpty /\ ~PruneEnds /\ ~EndRemove /\ ~EndCollapse
      BY DEF EndFill, NextStage, EndSplit, PruneEmpty, PruneEnds, EndRemove, EndCollapse
    <3>3. \A x : ~DropChainRoot(x) /\ ~DropChain(x) /\ ~DropSingletonRoot(x) /\ ~DropSingleton(x)
                 /\ ~Keep(x)
      BY DEF DropChainRoot, DropChain, DropSingletonRoot, DropSingleton, Keep, MayVisit
    <3> QED
      BY <3>1, <3>2, <3>3 DEF Work
  <2>2. PICK k \in Contexts : Begin(k)
    BY <2>1 DEF Next
  <2>3. \A objects : ~Insert(k, objects)
    BY DEF Insert, StartCollapse, Go
  <2>4. PICK d : RemoveMembers(k, d)
    BY <2>2, <2>3 DEF Begin, InsertAccounts, InsertCluster
  <2>5. /\ target' = k
        /\ ancestors' = {i \in Live(cluster[k]) :
             \E e \in todo' : e \in AccountsBelow(cluster[k], i) \cup (Below(cluster[k], i) \ {i})}
    BY <2>4, RemovalAncestors
  <2> QED
    BY <2>5
<1>2. Spec => []OwnInv
  BY OwnAlways
<1> QED
  BY <1>1, <1>2, PTL DEF Spec, AncestorsFound

-----------------------------------------------------------------------------
(* Clusters are not left empty                                             *)

Full(c, but) == \A i \in Live(c) \ {but} : c[i].members # {} \/ c[i].subs # {}
LostIn(k) == IF k = target THEN lost ELSE None
ClustersFilled == \A k \in Contexts : Full(cluster[k], LostIn(k))
ViewsFilled == \A k \in Contexts : Full(view[k], None)
\* A cluster that is split has members, and they go somewhere.
QueueFilled ==
  /\ splitting \notin toSplit /\ \A x \in toSplit : Here[x].members # {}
  /\ pc = "fill" => /\ Here[splitting].members # {}
                    /\ rest # Here[splitting].members => moved # {}
\* An insertion always has something to show.
SomePresent ==
  /\ pc \in {"split", "fill"} \/ (pc = "collapse" /\ ~removes) =>
       \E e \in Entities : object[target][e] # None
  /\ pc = "remove" => removes
FullOK == ClustersFilled /\ ViewsFilled /\ QueueFilled /\ SomePresent
FullInv == ShownInv /\ OwnInv /\ FullOK

LEMMA FullIs ==
  ASSUME FullInv
  PROVE  /\ TreeInv /\ PlacedInv /\ ShownInv /\ OwnInv /\ TypeOK /\ target \in Contexts
         /\ Clusters(Here, Ids) /\ Links(Here) /\ Tree(Here) /\ None \notin Live(Here)
         /\ Full(Here, lost) /\ ClustersFilled /\ ViewsFilled /\ QueueFilled /\ SomePresent
<1>1. TreeInv /\ PlacedInv /\ ShownInv /\ OwnInv /\ TypeOK /\ target \in Contexts
  BY DEF FullInv, OwnInv, PlacedInv, TreeInv, TypeOK
<1>2. Clusters(Here, Ids) /\ Tree(Here) /\ None \notin Live(Here)
  BY <1>1, HereIs DEF TreeInv, TreesOK, Here
<1>3. ClustersFilled /\ ViewsFilled /\ QueueFilled /\ SomePresent
  BY DEF FullInv, FullOK
<1>4. Full(Here, lost)
  BY <1>1, <1>3 DEF ClustersFilled, LostIn, Here
<1> QED
  BY <1>1, <1>2, <1>3, <1>4 DEF Tree

LEMMA ClustersFilledNext ==
  ASSUME TypeOK, ClustersFilled, NEW k \in Contexts, NEW c, Clusters(c, Ids),
         cluster' = [cluster EXCEPT ![k] = c], target' = k, target = k \/ lost = None,
         Full(c, lost')
  PROVE  ClustersFilled'
<1>1. cluster'[k] = c /\ \A j \in Contexts \ {k} : cluster'[j] = cluster[j]
  BY ClusterChanged
<1>2. \A j \in Contexts \ {k} : LostIn(j) = None /\ LostIn(j)' = None
  BY DEF LostIn
<1>3. LostIn(k)' = lost'
  BY DEF LostIn
<1> QED
  BY <1>1, <1>2, <1>3 DEF ClustersFilled

\* The copies are as full as what they are made of.
LEMMA CopiesFilled ==
  ASSUME TypeOK, ViewsFilled, NEW k \in Contexts, NEW c, Clusters(c, Ids), StartCollapse(k, c),
         Full(c, None)
  PROVE  ViewsFilled'
<1> DEFINE d == [i \in Ids \cup {File} |-> IF i = File THEN None ELSE c[i]]
<1>1. view' = [view EXCEPT ![k] = d]
  BY DEF StartCollapse
<1>2. Live(d) = Live(c) /\ \A i \in Live(c) : d[i] = c[i]
  BY CopyIs
<1> HIDE DEF d
<1>3. Full(d, None)
  BY <1>2 DEF Full
<1>4. view'[k] = d /\ \A j \in Contexts \ {k} : view'[j] = view[j]
  BY <1>1 DEF TypeOK
<1> QED
  BY <1>3, <1>4 DEF ViewsFilled

\* Nothing is to be split outside an insertion.
LEMMA QueueEmpty ==
  ASSUME TreeInv, pc \notin {"split", "fill"}
  PROVE  QueueFilled
BY DEF TreeInv, StagesOK, QueueFilled

\* Nothing was new: the context is simplified as it is.
LEMMA NothingNewFilled ==
  ASSUME FullInv, TreeInv', pc = "idle", NEW k \in Contexts, StartCollapse(k, cluster[k]),
         target' = k, lost' = lost, \E e \in Entities : object'[k][e] # None
  PROVE  FullOK'
<1>1. /\ TypeOK /\ ClustersFilled /\ ViewsFilled /\ lost = None
  BY FullIs DEF TreeInv, RemoveOK
<1>2. Clusters(cluster[k], Ids)
  BY <1>1, HereIs
<1>3. pc' = "collapse" /\ cluster' = [cluster EXCEPT ![k] = cluster[k]]
  BY DEF StartCollapse, Go
<1>4. Full(cluster[k], None)
  BY <1>1 DEF ClustersFilled, LostIn
<1>5. ClustersFilled'
  BY <1>1, <1>2, <1>3, <1>4, ClustersFilledNext
<1>6. ViewsFilled'
  BY <1>1, <1>2, <1>4, CopiesFilled
<1>7. QueueFilled' /\ SomePresent'
  BY <1>3, QueueEmpty DEF TreeInv, StagesOK, QueueFilled, SomePresent
<1> QED
  BY <1>5, <1>6, <1>7 DEF FullOK

LEMMA InsertFilled ==
  ASSUME FullInv, TreeInv', NEW k \in Contexts, NEW E \in SUBSET Entities, E # {},
         NEW objects \in [E -> Objects], Insert(k, objects)
  PROVE  FullOK'
<1> DEFINE new == NewTo(k, E)
<1>1. /\ pc = "idle" /\ target' = k /\ UNCHANGED fillVars /\ lost' = lost
      /\ object' = [object EXCEPT ![k] = [e \in Entities |-> IF e \in new THEN objects[e] ELSE @[e]]]
  <2>1. DOMAIN objects = E
    OBVIOUS
  <2> QED
    BY <2>1 DEF Insert, Request
<1>2. /\ TypeOK /\ ClustersFilled /\ ViewsFilled /\ lost = None /\ splitting = None
      /\ splitting' = None
  BY <1>1, FullIs DEF TreeInv, RemoveOK, FillOK, fillVars
<1>3. \E e \in Entities : object'[k][e] # None
  <2>1. PICK e \in E : TRUE
    OBVIOUS
  <2>2. object'[k][e] = IF e \in new THEN objects[e] ELSE object[k][e]
    BY <1>1, <1>2, <2>1 DEF TypeOK
  <2>3. e \in new => objects[e] # None
    BY <2>1, ContextTreeAssumption
  <2>4. e \notin new => object[k][e] # None
    BY <2>1 DEF NewTo, Present
  <2> QED
    BY <2>1, <2>2, <2>3, <2>4
<1>4. new \in SUBSET Entities
  BY DEF NewTo
<1>5. CASE StartCollapse(k, cluster[k])
  BY <1>1, <1>3, <1>5, NothingNewFilled
<1>6. ASSUME new # {}, pc' = "split", toSplit' = {}, view' = view, NEW to \in [new -> Ids],
             cluster' = [cluster EXCEPT ![k] = Joined(cluster[k], to)]
      PROVE  FullOK'
  <2> DEFINE c == Joined(cluster[k], to)
  <2>1. Clusters(cluster[k], Ids)
    BY <1>2, HereIs
  <2>2. /\ Clusters(c, Ids) /\ Live(c) = Live(cluster[k]) \cup Range(to)
        /\ \A i \in Live(cluster[k]) :
             /\ c[i].subs = cluster[k][i].subs
             /\ c[i].members = cluster[k][i].members \cup Joining(to, i)
        /\ \A i \in Live(c) \ Live(cluster[k]) : c[i].members = Joining(to, i)
    BY <1>4, <2>1, JoinedIs
  <2>3. cluster' = [cluster EXCEPT ![k] = c]
    BY <1>6
  <2> HIDE DEF c, new
  <2>4. \A i \in Range(to) : Joining(to, i) # {}
    BY DEF Range, Joining
  <2>5. Full(cluster[k], None)
    BY <1>2 DEF ClustersFilled, LostIn
  <2>6. Full(c, None)
    BY <2>2, <2>4, <2>5 DEF Full
  <2>7. ClustersFilled'
    BY <1>1, <1>2, <2>2, <2>3, <2>6, ClustersFilledNext
  <2>8. ViewsFilled'
    BY <1>2, <1>6 DEF ViewsFilled
  <2>9. QueueFilled' /\ SomePresent'
    BY <1>1, <1>3, <1>6 DEF QueueFilled, SomePresent
  <2> QED
    BY <2>7, <2>8, <2>9 DEF FullOK
<1> HIDE DEF new
<1> QED
  BY <1>5, <1>6, InsertTo DEF new

\* A cluster that is shown has accounts below it that are in the context.
LEMMA InsertClusterFilled ==
  ASSUME FullInv, TreeInv', Separate, NEW k \in Contexts, NEW j \in Sources[k], NEW x,
         InsertCluster(k, j, x)
  PROVE  FullOK'
<1>1. j = k /\ ShownInv /\ OwnInv /\ TypeOK /\ ViewsFilled
  BY FullIs DEF Separate
<1>2. StartCollapse(k, cluster[k]) /\ object' = object
  BY <1>1, InsertClusterHome
<1>3. /\ x \in Live(view[k]) /\ pc = "idle" /\ target' = k /\ lost' = lost
  BY <1>1 DEF InsertCluster, Insert, Request
<1>4. Tree(view[k]) /\ Spread(view[k], Present(k)) /\ Clusters(view[k], Copied)
  BY <1>1, <1>3, HereIs DEF ShownInv, ViewOK, Tidy
<1>5. \A i \in Live(view[k]) : view[k][i].members # {} \/ view[k][i].subs # {}
  <2>1. None \notin Live(view[k])
    BY <1>4, LiveIs, ContextTreeAssumption DEF Copied
  <2> QED
    BY <1>1, <2>1 DEF ViewsFilled, Full
<1>6. AccountsBelow(view[k], x) # {}
  BY <1>3, <1>4, <1>5, AccountsFound
<1>7. Below(view[k], x) \subseteq Live(view[k])
  BY <1>4, BelowIs
<1>8. \E e \in Entities : object[k][e] # None
  BY <1>4, <1>6, <1>7 DEF AccountsBelow, Spread, Present
<1> QED
  BY <1>2, <1>3, <1>8, NothingNewFilled

LEMMA SplitFilled ==
  ASSUME FullInv, NEW x \in Ids, Split(x)
  PROVE  FullOK'
<1>1. /\ pc = "split" /\ x \in toSplit /\ toSplit' = toSplit \ {x}
      /\ x \in Live(Here) /\ x \notin Unused /\ Unused \cap Live(Here) = {}
      /\ Here[x].members \in SUBSET Entities
      /\ UNCHANGED <<object, roots, view, pc, requestVars, stage, modified, fillVars, walkVars>>
  BY FullIs, SplitTo
<1>2. PICK to \in [Here[x].members -> Ids] :
        /\ Range(to) \subseteq Here[x].subs \cup Unused
        /\ cluster' = [cluster EXCEPT ![target] = Adopted(Joined(Here, to), x, Range(to))]
  BY FullIs, SplitTo
<1> DEFINE c == Adopted(Joined(Here, to), x, Range(to))
<1>3. /\ TypeOK /\ Clusters(Here, Ids) /\ Tree(Here) /\ RootKnown(Here) /\ splitting = None
      /\ lost = None /\ toSplit \subseteq Live(Here) /\ None \notin Live(Here) /\ target \in Contexts
      /\ ClustersFilled /\ ViewsFilled /\ QueueFilled /\ SomePresent /\ Full(Here, None)
  BY <1>1, FullIs, SplittingIs
<1>4. Clusters(c, Ids) /\ SplitInto(Here, x, to, c)
  BY <1>1, <1>2, <1>3, SplitIs, SplitMembers
<1>5. cluster' = [cluster EXCEPT ![target] = c]
  BY <1>2
<1> HIDE DEF c
<1>6. /\ target' = target /\ lost' = None /\ splitting' = None /\ object' = object /\ pc' = pc
      /\ removes' = removes /\ view' = view
  BY <1>1, <1>3 DEF requestVars, walkVars, fillVars
<1>7. Range(to) # {} /\ \A i \in Range(to) : Joining(to, i) # {}
  <2>1. Here[x].members # {}
    BY <1>1, <1>3 DEF QueueFilled
  <2> QED
    BY <2>1 DEF Range, Joining
<1>8. Full(c, None)
  <2> SUFFICES ASSUME NEW i \in Live(c), i # None
               PROVE  c[i].members # {} \/ c[i].subs # {}
    BY DEF Full
  <2>1. CASE i = x
    BY <1>4, <1>7, <2>1 DEF SplitInto
  <2>2. CASE i \in Live(Here) \ {x}
    BY <1>3, <1>4, <2>2 DEF SplitInto, Full
  <2>3. CASE i \notin Live(Here)
    BY <1>4, <1>7, <2>3 DEF SplitInto
  <2> QED
    BY <2>1, <2>2, <2>3
<1>9. ClustersFilled'
  BY <1>3, <1>4, <1>5, <1>6, <1>8, ClustersFilledNext
<1>10. ViewsFilled' /\ SomePresent'
  BY <1>3, <1>6 DEF ViewsFilled, SomePresent
<1>11. Here' = c
  BY <1>3, <1>4, <1>5, <1>6, ClusterChanged DEF Here
<1>12. \A y \in toSplit' : c[y].members # {}
  <2> TAKE y \in toSplit'
  <2>1. y \in Live(Here) \ {x} /\ Here[y].members # {}
    BY <1>1, <1>3 DEF QueueFilled
  <2> QED
    BY <1>4, <2>1 DEF SplitInto
<1>13. QueueFilled'
  BY <1>1, <1>3, <1>6, <1>11, <1>12 DEF QueueFilled
<1> QED
  BY <1>9, <1>10, <1>13 DEF FullOK

LEMMA StartFillFilled ==
  ASSUME FullInv, NEW x \in Ids, StartFill(x)
  PROVE  FullOK'
<1>1. /\ pc = "split" /\ x \in toSplit /\ toSplit' = toSplit \ {x} /\ splitting' = x
      /\ rest' = Here[x].members /\ pc' = "fill" /\ cluster' = cluster /\ target' = target
      /\ object' = object /\ view' = view /\ lost' = lost
  BY DEF StartFill, LeftToSplit, Go, dataVars, requestVars, walkVars
<1>2. ClustersFilled /\ ViewsFilled /\ QueueFilled /\ SomePresent
  BY FullIs
<1>3. ClustersFilled' /\ ViewsFilled' /\ SomePresent'
  BY <1>1, <1>2 DEF ClustersFilled, LostIn, ViewsFilled, SomePresent
<1>4. Here' = Here
  BY <1>1 DEF Here
<1>5. QueueFilled'
  BY <1>1, <1>2, <1>4 DEF QueueFilled
<1> QED
  BY <1>3, <1>5 DEF FullOK

LEMMA MoveFilled ==
  ASSUME FullInv, NEW e \in Entities, NEW y \in Here[splitting].subs \cup moved \cup Unused, Move(e, y)
  PROVE  FullOK'
<1> DEFINE c == Joined(Here, [a \in {e} |-> y])
<1>1. /\ pc = "fill" /\ moved' = moved \cup {y} /\ y # splitting
      /\ cluster' = [cluster EXCEPT ![target] = c] /\ Clusters(c, Ids)
      /\ MovedInto(Here, e, y, c)
      /\ UNCHANGED <<object, roots, view, pc, requestVars, stageVars, splitting, walkVars>>
  BY FullIs, MoveIs
<1>2. /\ TypeOK /\ target \in Contexts /\ ClustersFilled /\ ViewsFilled /\ QueueFilled /\ SomePresent
      /\ lost = None /\ splitting \in Live(Here) /\ toSplit \subseteq Live(Here) /\ Full(Here, None)
  BY <1>1, FullIs, FillingIs
<1> HIDE DEF c
<1>3. /\ target' = target /\ lost' = None /\ splitting' = splitting /\ toSplit' = toSplit
      /\ object' = object /\ pc' = pc /\ removes' = removes /\ view' = view
  BY <1>1, <1>2 DEF requestVars, walkVars, stageVars
<1>4. Full(c, None)
  BY <1>1, <1>2 DEF Full, MovedInto
<1>5. ClustersFilled'
  BY <1>1, <1>2, <1>3, <1>4, ClustersFilledNext
<1>6. ViewsFilled' /\ SomePresent'
  BY <1>2, <1>3 DEF ViewsFilled, SomePresent
<1>7. Here' = c
  BY <1>1, <1>2, <1>3, ClusterChanged DEF Here
<1>8. \A x \in Live(Here) : Here[x].members # {} => c[x].members # {}
  BY <1>1 DEF MovedInto
<1>9. QueueFilled'
  BY <1>1, <1>2, <1>3, <1>7, <1>8 DEF QueueFilled
<1> QED
  BY <1>5, <1>6, <1>9 DEF FullOK

LEMMA EndFillFilled ==
  ASSUME FullInv, EndFill
  PROVE  FullOK'
<1> DEFINE c == Adopted(Here, splitting, moved)
<1>1. /\ pc = "fill" /\ rest = {} /\ cluster' = [cluster EXCEPT ![target] = c]
      /\ splitting' = None /\ toSplit' = toSplit /\ object' = object /\ target' = target
      /\ pc' = "split" /\ view' = view /\ lost' = lost
  BY DEF EndFill, Go, requestVars, walkVars
<1>2. /\ TypeOK /\ target \in Contexts /\ ClustersFilled /\ ViewsFilled /\ QueueFilled /\ SomePresent
      /\ Clusters(Here, Ids) /\ lost = None /\ None \notin Live(Here)
      /\ splitting \in Live(Here) /\ moved \subseteq Live(Here) /\ splitting \notin moved
      /\ toSplit \subseteq Live(Here) /\ Full(Here, None)
  BY <1>1, FullIs, FillingIs
<1>3. /\ Clusters(c, Ids) /\ Live(c) = Live(Here) /\ c[splitting].subs = Here[splitting].subs \cup moved
      /\ \A i \in moved : c[i].members = Here[i].members /\ c[i].subs = Here[i].subs
      /\ \A i \in Live(Here) \ (moved \cup {splitting}) : c[i] = Here[i]
  BY <1>2, AdoptedIs
<1> HIDE DEF c
<1>4. moved # {}
  BY <1>1, <1>2 DEF QueueFilled
<1>5. Full(c, None)
  <2> SUFFICES ASSUME NEW i \in Live(c), i # None
               PROVE  c[i].members # {} \/ c[i].subs # {}
    BY DEF Full
  <2>1. Here[i].members # {} \/ Here[i].subs # {}
    BY <1>2, <1>3 DEF Full
  <2> QED
    BY <1>3, <1>4, <2>1
<1>6. ClustersFilled'
  BY <1>1, <1>2, <1>3, <1>5, ClustersFilledNext
<1>7. ViewsFilled' /\ SomePresent'
  BY <1>1, <1>2 DEF ViewsFilled, SomePresent
<1>8. Here' = c
  BY <1>1, <1>2, <1>3, ClusterChanged DEF Here
<1>9. \A x \in toSplit : c[x].members # {}
  BY <1>2, <1>3 DEF QueueFilled
<1>10. QueueFilled'
  BY <1>1, <1>2, <1>8, <1>9 DEF QueueFilled
<1> QED
  BY <1>6, <1>7, <1>10 DEF FullOK

LEMMA NextStageFilled ==
  ASSUME FullInv, NextStage
  PROVE  FullOK'
<1>1. /\ pc = "split" /\ toSplit' = ToSplitNext /\ splitting' = splitting /\ pc' = pc
      /\ cluster' = cluster /\ target' = target /\ object' = object /\ view' = view /\ lost' = lost
      /\ removes' = removes
  BY DEF NextStage, dataVars, requestVars, fillVars, walkVars
<1>2. /\ TypeOK /\ ClustersFilled /\ ViewsFilled /\ SomePresent /\ Clusters(Here, Ids)
      /\ splitting = None /\ results \subseteq Live(Here) /\ None \notin Live(Here)
  BY <1>1, FullIs, SplittingIs
<1>3. ClustersFilled' /\ ViewsFilled' /\ SomePresent'
  BY <1>1, <1>2 DEF ClustersFilled, LostIn, ViewsFilled, SomePresent
<1>4. Here' = Here
  BY <1>1 DEF Here
<1>5. \A x \in toSplit' : Here[x].members # {}
  <2> TAKE x \in toSplit'
  <2>1. x \in Live(Here) /\ IsCandidate(Here[x])
    BY <1>1, <1>2 DEF ToSplitNext
  <2>2. Here[x] \in Cluster
    BY <1>2, <2>1, LiveIs
  <2> QED
    BY <2>1, <2>2, NoCandidateIs
<1>6. splitting' \notin toSplit'
  BY <1>1, <1>2 DEF ToSplitNext
<1>7. QueueFilled'
  BY <1>1, <1>4, <1>5, <1>6 DEF QueueFilled
<1> QED
  BY <1>3, <1>7 DEF FullOK

\* What is present stays where it is.
LEMMA UpdatedFull ==
  ASSUME NEW c, Clusters(c, Ids), Links(c), NEW left, NEW S, NEW P,
         Within(c, None, left, P), None \notin Live(c), Full(c, None)
  PROVE  Full(Updated(c, S, P), None)
<1> DEFINE d == Updated(c, S, P)
<1>1. /\ Live(d) = Live(c)
      /\ \A i \in Live(c) :
           /\ d[i].subs = c[i].subs
           /\ d[i].members = IF i \in Under(c, S) THEN c[i].members \cap P ELSE c[i].members
  BY UpdatedIs
<1> HIDE DEF d
<1>2. \A i \in Live(c) : c[i].members \subseteq P
  BY DEF Within, Held
<1>3. \A i \in Live(c) : d[i].members = c[i].members
  BY <1>1, <1>2
<1>4. Full(d, None)
  BY <1>1, <1>3 DEF Full
<1> QED
  BY <1>4 DEF d

LEMMA CollapseFilled ==
  ASSUME FullInv, TreeInv', pc \in {"split", "remove"}, splitting = None, lost = None,
         NEW S, StartCollapse(target, Updated(Here, S, Present(target))),
         target' = target, lost' = lost, object' = object, removes' = removes
  PROVE  FullOK'
<1> DEFINE c == Updated(Here, S, Present(target))
<1>1. /\ TypeOK /\ target \in Contexts /\ ClustersFilled /\ ViewsFilled /\ SomePresent
      /\ Clusters(Here, Ids) /\ Links(Here) /\ None \notin Live(Here) /\ Full(Here, None)
  BY FullIs
<1>2. Within(Here, None, rest, Present(target))
  BY <1>1 DEF FullInv, OwnInv, WithinOK, InHand, Here
<1>3. Clusters(c, Ids) /\ Full(c, None)
  BY <1>1, <1>2, UpdatedFewer, UpdatedFull
<1>4. StartCollapse(target, c)
  OBVIOUS
<1> HIDE DEF c
<1>5. pc' = "collapse" /\ cluster' = [cluster EXCEPT ![target] = c]
  BY <1>4 DEF StartCollapse, Go
<1>6. ClustersFilled'
  BY <1>1, <1>3, <1>5, ClustersFilledNext
<1>7. ViewsFilled'
  BY <1>1, <1>3, <1>4, CopiesFilled
<1>8. QueueFilled'
  BY <1>5 DEF TreeInv, StagesOK, QueueFilled
<1>9. SomePresent'
  BY <1>1, <1>5 DEF SomePresent
<1> QED
  BY <1>6, <1>7, <1>8, <1>9 DEF FullOK

LEMMA EndSplitFilled ==
  ASSUME FullInv, TreeInv', EndSplit
  PROVE  FullOK'
<1>1. /\ pc = "split" /\ target' = target /\ object' = object /\ removes' = removes /\ lost' = lost
      /\ StartCollapse(target, Updated(Here, modified, Present(target)))
  BY DEF EndSplit, requestVars
<1>2. splitting = None /\ lost = None
  BY <1>1, FullIs, SplittingIs
<1> QED
  BY <1>1, <1>2, CollapseFilled

LEMMA EndRemoveFilled ==
  ASSUME FullInv, TreeInv', EndRemove
  PROVE  FullOK'
<1>1. /\ pc = "remove" /\ target' = target /\ object' = object /\ removes' = removes /\ lost' = lost
      /\ StartCollapse(target, Updated(Here, roots[target], Present(target)))
      /\ lost = None
  BY DEF EndRemove, requestVars
<1>2. splitting = None
  BY <1>1, FullIs, RemovingIs
<1> QED
  BY <1>1, <1>2, CollapseFilled

\* A step of a removal, in which one cluster may lose what it has.
LEMMA RemovalFilled ==
  ASSUME FullInv, TreeInv', pc = "remove", NEW c, Clusters(c, Ids),
         cluster' = [cluster EXCEPT ![target] = c], Full(c, lost'),
         UNCHANGED <<view, pc, requestVars>>
  PROVE  FullOK'
<1>1. /\ TypeOK /\ target \in Contexts /\ ClustersFilled /\ ViewsFilled /\ SomePresent
  BY FullIs
<1>2. target' = target /\ pc' = pc /\ removes' = removes /\ view' = view
  BY DEF requestVars
<1>3. ClustersFilled'
  BY <1>1, <1>2, ClustersFilledNext
<1>4. ViewsFilled' /\ SomePresent'
  BY <1>1, <1>2 DEF ViewsFilled, SomePresent
<1>5. QueueFilled'
  BY <1>2 DEF TreeInv, StagesOK, QueueFilled
<1> QED
  BY <1>3, <1>4, <1>5 DEF FullOK

LEMMA RemoveAccountFilled ==
  ASSUME FullInv, TreeInv', NEW e \in Entities, RemoveAccount(e)
  PROVE  FullOK'
<1> DEFINE p == ParentOf(target, e)
           c == IF p \in Live(Here) THEN [Here EXCEPT ![p].members = @ \ {e}] ELSE Here
<1>1. /\ pc = "remove" /\ lost = None /\ UNCHANGED <<view, pc, requestVars>>
      /\ cluster' = IF p \in Live(Here)
                    THEN [cluster EXCEPT ![target][p].members = @ \ {e}] ELSE cluster
      /\ lost' = Affected(Here, p)
  BY DEF RemoveAccount
<1>2. TypeOK /\ target \in Contexts /\ Clusters(Here, Ids) /\ Full(Here, None) /\ None \notin Live(Here)
  BY <1>1, FullIs
<1>3. cluster' = [cluster EXCEPT ![target] = c]
  BY <1>1, <1>2 DEF Here, TypeOK
<1> HIDE DEF p
<1>4. AccountOut(Here, e, p, c)
  BY <1>2, AccountOutIs
<1> HIDE DEF c
<1>5. /\ Clusters(c, Ids) /\ Live(c) = Live(Here)
      /\ \A i \in Live(c) : i # p => c[i].members = Here[i].members
      /\ \A i \in Live(c) : c[i].subs = Here[i].subs
  BY <1>4 DEF AccountOut
<1>6. \A i \in Live(c) : i # lost' => i # p
  BY <1>1, <1>5 DEF Affected
<1>7. Full(c, lost')
  BY <1>2, <1>5, <1>6 DEF Full
<1> QED
  BY <1>1, <1>3, <1>5, <1>7, RemovalFilled

\* Clusters go, and the parent of one of them may be left without any.
LEMMA WithoutFull ==
  ASSUME NEW c, Clusters(c, Ids), Links(c), NEW x \in Live(c), NEW G \in SUBSET Live(c), x \in G,
         NEW but, Full(c, but), but \in G \cup {None}, None \notin Live(c)
  PROVE  Full(Without(c, G, x), Affected(c, c[x].parent))
<1> DEFINE d == Without(c, G, x)
           p == c[x].parent
<1>1. /\ Live(d) = Live(c) \ G
      /\ \A i \in Live(c) \ G : d[i].members = c[i].members /\ d[i].subs = c[i].subs \ {x}
  BY WithoutIs
<1> HIDE DEF d
<1>2. \A i \in Live(c) : i # p => x \notin c[i].subs
  BY DEF Links
<1> HIDE DEF p
<1>3. ASSUME NEW i \in Live(d), i # Affected(c, p)
      PROVE  d[i].members # {} \/ d[i].subs # {}
  <2>1. i \in Live(c) /\ i \notin G /\ i # p
    BY <1>1, <1>3 DEF Affected
  <2>2. c[i].members # {} \/ c[i].subs # {}
    BY <2>1 DEF Full
  <2>3. d[i].subs = c[i].subs
    <3>1. x \notin c[i].subs /\ d[i].subs = c[i].subs \ {x}
      BY <1>1, <1>2, <2>1
    <3> QED
      BY <3>1
  <2> QED
    BY <1>1, <2>1, <2>2, <2>3
<1> QED
  BY <1>3 DEF Full, d, p

LEMMA RemoveClusterFilled ==
  ASSUME FullInv, TreeInv', NEW x \in Ids, RemoveCluster(x)
  PROVE  FullOK'
<1> DEFINE gone == Below(Here, x)
           c == Without(Here, gone, x)
<1>1. /\ pc = "remove" /\ lost = None /\ x \in Live(Here) /\ UNCHANGED <<view, pc, requestVars>>
      /\ cluster' = [cluster EXCEPT ![target] = c]
      /\ lost' = Affected(Here, Here[x].parent)
  BY DEF RemoveCluster
<1>2. /\ Clusters(Here, Ids) /\ Links(Here) /\ Full(Here, None) /\ None \notin Live(Here)
  BY <1>1, FullIs
<1>3. gone \in SUBSET Live(Here) /\ x \in gone
  BY <1>1, <1>2, BelowIs
<1> HIDE DEF gone
<1>4. Clusters(c, Ids) /\ Full(c, lost')
  BY <1>1, <1>2, <1>3, WithoutIs, WithoutFull
<1> HIDE DEF c
<1> QED
  BY <1>1, <1>4, RemovalFilled

LEMMA PruneEmptyFilled ==
  ASSUME FullInv, TreeInv', PruneEmpty
  PROVE  FullOK'
<1> DEFINE c == Without(Here, {lost}, lost)
<1>1. /\ pc = "remove" /\ lost # None /\ UNCHANGED <<view, pc, requestVars>>
      /\ cluster' = [cluster EXCEPT ![target] = c]
      /\ lost' = Affected(Here, Here[lost].parent)
  BY DEF PruneEmpty
<1>2. /\ Clusters(Here, Ids) /\ Links(Here) /\ Full(Here, lost) /\ None \notin Live(Here)
  BY FullIs
<1>3. lost \in Live(Here) /\ {lost} \in SUBSET Live(Here) /\ lost \in {lost}
      /\ lost \in {lost} \cup {None}
  BY <1>1, FullIs, RemovingIs
<1>4. Clusters(c, Ids) /\ Full(c, lost')
  BY <1>1, <1>2, <1>3, WithoutIs, WithoutFull
<1> HIDE DEF c
<1> QED
  BY <1>1, <1>4, RemovalFilled

LEMMA PruneEndsFilled ==
  ASSUME FullInv, TreeInv', PruneEnds
  PROVE  FullOK'
<1>1. /\ pc = "remove" /\ lost' = None /\ ~Empty(Here[lost])
      /\ UNCHANGED <<view, pc, requestVars>> /\ cluster' = cluster
  BY DEF PruneEnds, dataVars
<1>2. TypeOK /\ target \in Contexts /\ Clusters(Here, Ids) /\ Full(Here, lost)
  BY FullIs
<1>3. Full(Here, lost')
  BY <1>1, <1>2 DEF Full, Empty
<1>4. cluster' = [cluster EXCEPT ![target] = Here]
  BY <1>1, <1>2 DEF Here, TypeOK
<1> QED
  BY <1>1, <1>2, <1>3, <1>4, RemovalFilled

LEMMA RemoveMembersFilled ==
  ASSUME FullInv, TreeInv', NEW k \in Contexts, NEW d, RemoveMembers(k, d)
  PROVE  FullOK'
<1>1. /\ pc = "idle" /\ pc' = "remove" /\ removes' = TRUE /\ cluster' = cluster /\ view' = view
      /\ lost' = lost
  BY DEF RemoveMembers, Request, Go, dataVars
<1>2. ClustersFilled /\ ViewsFilled /\ lost = None
  BY <1>1, FullIs DEF TreeInv, RemoveOK
<1>3. ClustersFilled' /\ ViewsFilled' /\ SomePresent'
  BY <1>1, <1>2 DEF ClustersFilled, LostIn, ViewsFilled, SomePresent
<1>4. QueueFilled'
  BY <1>1 DEF TreeInv, StagesOK, QueueFilled
<1> QED
  BY <1>3, <1>4 DEF FullOK

\* A visit that makes the copies c.
LEMMA VisitFilled ==
  ASSUME FullInv, TreeInv', pc = "collapse", NEW x, NEW c, Visit(x, c), Full(c, None)
  PROVE  FullOK'
<1>1. TypeOK /\ target \in Contexts /\ ClustersFilled /\ ViewsFilled /\ SomePresent
  BY FullIs
<1>2. /\ view' = [view EXCEPT ![target] = c] /\ target' = target /\ object' = object /\ pc' = pc
      /\ cluster' = cluster /\ lost' = lost /\ removes' = removes
  BY DEF Visit, requestVars
<1>3. view'[target] = c /\ \A j \in Contexts \ {target} : view'[j] = view[j]
  BY <1>1, <1>2 DEF TypeOK
<1>4. ClustersFilled' /\ ViewsFilled' /\ SomePresent'
  BY <1>1, <1>2, <1>3 DEF ClustersFilled, LostIn, ViewsFilled, SomePresent
<1>5. QueueFilled'
  BY <1>2 DEF TreeInv, StagesOK, QueueFilled
<1> QED
  BY <1>4, <1>5 DEF FullOK

LEMMA VisitingFull ==
  ASSUME FullInv, NEW x, MayVisit(x)
  PROVE  /\ pc = "collapse" /\ x \in Live(Copy) /\ Copies(Copy) /\ Tree(Copy)
         /\ IsFiniteSet(Copy[x].subs) /\ IsFiniteSet(Copy[x].members)
         /\ Full(Copy, None) /\ None \notin Live(Copy)
<1>1. target \in Contexts /\ ViewsFilled /\ ShownInv
  BY FullIs
<1>2. /\ pc = "collapse" /\ x \in Live(Copy) /\ Copies(Copy) /\ Tree(Copy)
      /\ IsFiniteSet(Copy[x].subs) /\ IsFiniteSet(Copy[x].members)
  BY <1>1, CollapsingShown
<1>3. None \notin Live(Copy)
  BY <1>2, CopiesAre
<1> QED
  BY <1>1, <1>2, <1>3 DEF ViewsFilled, Copy

LEMMA DropFilled ==
  ASSUME FullInv, TreeInv', NEW x \in todo,
         DropChainRoot(x) \/ DropChain(x) \/ DropSingletonRoot(x) \/ DropSingleton(x) \/ Keep(x)
  PROVE  FullOK'
<1>1. MayVisit(x)
  BY DEF DropChainRoot, DropChain, DropSingletonRoot, DropSingleton, Keep
<1>2. /\ pc = "collapse" /\ x \in Live(Copy) /\ Copies(Copy) /\ Tree(Copy)
      /\ IsFiniteSet(Copy[x].subs) /\ IsFiniteSet(Copy[x].members)
      /\ Full(Copy, None) /\ None \notin Live(Copy)
  BY <1>1, VisitingFull
<1> DEFINE s == CHOOSE y \in Copy[x].subs : TRUE
           p == Copy[x].parent
<1>3. CASE DropChainRoot(x)
  <2> DEFINE c == NewRoot(Copy, x, s)
  <2>1. IsChain(Copy[x]) /\ Copy[x].parent = None /\ Visit(x, c)
    BY <1>3 DEF DropChainRoot
  <2>2. Copy[x].subs = {s}
    BY <1>2, <2>1, ChainIs
  <2> HIDE DEF s, c
  <2>3. /\ Live(c) = Live(Copy) \ {x}
        /\ \A i \in Live(c) : c[i].members = Copy[i].members /\ c[i].subs = Copy[i].subs
    BY <1>2, <2>1, <2>2, NewRootIs DEF c
  <2>4. Full(c, None)
    BY <1>2, <2>3 DEF Full
  <2> QED
    BY <1>2, <2>1, <2>4, VisitFilled
<1>4. CASE DropChain(x)
  <2> DEFINE c == ChainOut(Copy, x, s, p)
  <2>1. IsChain(Copy[x]) /\ p # None /\ Visit(x, c)
    BY <1>4 DEF DropChain, ChainOut
  <2>2. Copy[x].subs = {s} /\ Copy[x].parent = p
    BY <1>2, <2>1, ChainIs
  <2> HIDE DEF s, p
  <2>3. Live(c) = Live(Copy) \ {x} /\ OutOfChain(Copy, c, x, s, p)
    BY <1>2, <2>1, <2>2, ChainDropped
  <2> HIDE DEF c
  <2>4. \A i \in Live(c) : /\ c[i].members = Copy[i].members
                           /\ i # p => c[i].subs = Copy[i].subs
                           /\ i = p => s \in c[i].subs
    BY <2>3 DEF OutOfChain
  <2>5. Full(c, None)
    BY <1>2, <2>3, <2>4 DEF Full
  <2> QED
    BY <1>2, <2>1, <2>5, VisitFilled
<1>5. CASE DropSingletonRoot(x)
  <2> DEFINE c == [Copy EXCEPT ![x] = None]
  <2>1. Copy[x].subs = {} /\ Copy[x].parent = None /\ Visit(x, c)
    BY <1>5 DEF DropSingletonRoot, IsSingleton
  <2>2. Live(c) = Live(Copy) \ {x} /\ \A i \in Live(c) : c[i] = Copy[i]
    BY <1>2, <2>1, SingletonRootDropped
  <2> HIDE DEF c
  <2>3. Full(c, None)
    BY <1>2, <2>2 DEF Full
  <2> QED
    BY <1>2, <2>1, <2>3, VisitFilled
<1>6. CASE DropSingleton(x)
  <2> DEFINE c == SingletonOut(Copy, x, p)
  <2>1. /\ Copy[x].subs = {} /\ p # None /\ Cardinality(Copy[x].members) = 1
        /\ Visit(x, IF Copy[p] = None THEN [Copy EXCEPT ![x] = None] ELSE c)
    BY <1>6 DEF DropSingleton, IsSingleton, SingletonOut
  <2>2. Copy[x].parent = p
    OBVIOUS
  <2> HIDE DEF p
  <2>3. Live(c) = Live(Copy) \ {x} /\ Copy[p] # None /\ OutOfSingleton(Copy, c, x, p)
    BY <1>2, <2>1, <2>2, SingletonDropped
  <2> HIDE DEF c
  <2>4. Copy[x].members # {}
    BY <1>2, <2>1, OneElement
  <2>5. \A i \in Live(c) \ {p} :
          c[i].members = Copy[i].members /\ c[i].subs = Copy[i].subs \ {x} /\ x \notin Copy[i].subs
    BY <1>2, <2>2, <2>3 DEF OutOfSingleton, Tree, Links
  <2>6. p \in Live(c) => c[p].members # {}
    BY <2>3, <2>4 DEF OutOfSingleton
  <2>7. Full(c, None)
    <3> SUFFICES ASSUME NEW i \in Live(c)
                 PROVE  c[i].members # {} \/ c[i].subs # {}
      BY DEF Full
    <3>1. CASE i = p
      BY <2>6, <3>1
    <3>2. CASE i # p
      <4>1. i \in Live(Copy) /\ c[i].members = Copy[i].members /\ c[i].subs = Copy[i].subs
        BY <2>3, <2>5, <3>2
      <4> QED
        BY <1>2, <4>1 DEF Full
    <3> QED
      BY <3>1, <3>2
  <2> QED
    BY <1>2, <2>1, <2>3, <2>7, VisitFilled
<1>7. CASE Keep(x)
  BY <1>2, <1>7, VisitFilled DEF Keep
<1> HIDE DEF s, p
<1> QED
  BY <1>3, <1>4, <1>5, <1>6, <1>7

\* The file's cluster has accounts or clusters, or there is none.
LEMMA EndCollapseFilled ==
  ASSUME FullInv, TreeInv', EndCollapse
  PROVE  FullOK'
<1> DEFINE shown == entities \cap Present(target)
           c == IF removes /\ shown = {} /\ Tops(Copy) = {} THEN Copy ELSE Gathered(Copy, shown)
<1>1. /\ pc = "collapse" /\ pc' = "idle" /\ target' = target /\ cluster' = cluster /\ lost' = lost
  BY DEF EndCollapse, Go, requestVars
<1>2. TypeOK /\ target \in Contexts /\ Copies(Copy) /\ Tree(Copy)
  BY <1>1, FullIs, CollapsingIs
<1>3. ClustersFilled /\ ViewsFilled /\ SomePresent /\ ShownInv
  BY FullIs
<1>4. view' = [view EXCEPT ![target] = c]
  BY <1>2, CollapsedIs
<1>5. view'[target] = c /\ \A j \in Contexts \ {target} : view'[j] = view[j]
  BY <1>2, <1>4 DEF TypeOK
<1>6. entities \subseteq Present(target) /\ Spread(Copy, Present(target) \ entities)
  BY <1>1, <1>3 DEF ShownInv, CollapseOK
<1>7. Full(Copy, None) /\ None \notin Live(Copy) /\ File \notin Live(Copy)
  BY <1>2, <1>3, CopiesAre DEF ViewsFilled, Copy
<1>8. (removes /\ shown = {} /\ Tops(Copy) = {}) \/ shown # {} \/ Tops(Copy) # {}
  <2>1. CASE removes
    BY <2>1
  <2>2. CASE ~removes
    <3>1. PICK e \in Present(target) : TRUE
      BY <1>1, <1>3, <2>2 DEF SomePresent, Present
    <3>2. e \notin entities => Live(Copy) # {}
      BY <1>6, <3>1 DEF Spread
    <3>3. Live(Copy) # {} => Tops(Copy) # {}
      BY <1>2, TreeLinked DEF Linked, Tops, Copies
    <3> QED
      BY <3>1, <3>2, <3>3
  <2> QED
    BY <2>1, <2>2
<1>9. ASSUME c = Gathered(Copy, shown), shown # {} \/ Tops(Copy) # {}
      PROVE  Full(c, None)
  <2>1. shown \in SUBSET Entities
    BY <1>2 DEF TypeOK
  <2>2. /\ Live(c) = Live(Copy) \cup {File} /\ c[File].members = shown /\ c[File].subs = Tops(Copy)
        /\ \A i \in Live(Copy) : c[i].members = Copy[i].members /\ c[i].subs = Copy[i].subs
    BY <1>2, <1>9, <2>1, GatheredIs
  <2> HIDE DEF c, shown
  <2> SUFFICES ASSUME NEW i \in Live(c)
               PROVE  c[i].members # {} \/ c[i].subs # {}
    BY DEF Full
  <2>3. CASE i = File
    BY <1>9, <2>2, <2>3
  <2>4. CASE i \in Live(Copy)
    BY <1>7, <2>2, <2>4 DEF Full
  <2> QED
    BY <2>2, <2>3, <2>4
<1>10. Full(c, None)
  BY <1>7, <1>8, <1>9
<1> HIDE DEF c
<1>11. ViewsFilled' /\ ClustersFilled'
  BY <1>1, <1>3, <1>5, <1>10 DEF ViewsFilled, ClustersFilled, LostIn
<1>12. QueueFilled' /\ SomePresent'
  BY <1>1 DEF TreeInv, StagesOK, QueueFilled, SomePresent
<1> QED
  BY <1>11, <1>12 DEF FullOK

\* No request inserts nothing.
Nonempty == {} \notin Batches

LEMMA NextFilled == Separate /\ Nonempty /\ FullInv /\ [Next]_vars => FullInv'
<1> SUFFICES ASSUME Separate, Nonempty, FullInv, [Next]_vars
             PROVE  FullInv'
  OBVIOUS
<1>1. ShownInv' /\ OwnInv' /\ TreeInv'
  BY NextTree, NextPlaced, NextShown, NextOwn DEF FullInv, ShownInv, PlacedInv
<1>2. CASE UNCHANGED vars
  BY <1>1, <1>2 DEF FullInv, FullOK, ClustersFilled, LostIn, ViewsFilled, QueueFilled, SomePresent,
                    Here, vars, dataVars, requestVars, stageVars, fillVars, walkVars
<1>3. ASSUME NEW k \in Contexts, Begin(k)
      PROVE  FullOK'
  <2>1. ASSUME NEW E \in Batches, InsertAccounts(k, E)
        PROVE  FullOK'
    <3>1. PICK o \in [E -> Objects] : Insert(k, o)
      BY <2>1 DEF InsertAccounts
    <3>2. E \in SUBSET Entities /\ E # {}
      BY ContextTreeAssumption DEF Nonempty
    <3> QED
      BY <1>1, <3>1, <3>2, InsertFilled
  <2>2. ASSUME NEW j \in Sources[k], NEW x, InsertCluster(k, j, x)
        PROVE  FullOK'
    BY <1>1, <2>2, InsertClusterFilled
  <2>3. ASSUME NEW d, RemoveMembers(k, d)
        PROVE  FullOK'
    BY <1>1, <2>3, RemoveMembersFilled
  <2> QED
    BY <1>3, <2>1, <2>2, <2>3 DEF Begin
<1>4. ASSUME Work
      PROVE  FullOK'
  <2>1. ASSUME NEW x \in Ids, Split(x) \/ StartFill(x) \/ RemoveCluster(x)
        PROVE  FullOK'
    BY <1>1, <2>1, SplitFilled, StartFillFilled, RemoveClusterFilled
  <2>2. ASSUME NEW e \in Entities, FillFirst(e) \/ FillNew(e) \/ FillOverflow(e)
        PROVE  FullOK'
    BY <2>2, MoveTo, MoveFilled, FullIs
  <2>3. ASSUME NEW e \in Entities, RemoveAccount(e)
        PROVE  FullOK'
    BY <1>1, <2>3, RemoveAccountFilled
  <2>4. ASSUME EndFill \/ NextStage \/ EndSplit \/ PruneEmpty \/ PruneEnds \/ EndRemove \/ EndCollapse
        PROVE  FullOK'
    BY <1>1, <2>4, EndFillFilled, NextStageFilled, EndSplitFilled, PruneEmptyFilled,
       PruneEndsFilled, EndRemoveFilled, EndCollapseFilled
  <2>5. ASSUME NEW x \in todo, DropChainRoot(x) \/ DropChain(x) \/ DropSingletonRoot(x)
                               \/ DropSingleton(x) \/ Keep(x)
        PROVE  FullOK'
    BY <1>1, <2>5, DropFilled
  <2> QED
    BY <1>4, <2>1, <2>2, <2>3, <2>4, <2>5 DEF Work
<1> QED
  BY <1>1, <1>2, <1>3, <1>4 DEF Next, FullInv

LEMMA InitFilled == Init => FullInv
<1> SUFFICES ASSUME Init
             PROVE  FullInv
  OBVIOUS
<1>1. \A k \in Contexts : Live(view[k]) = {} /\ Live(cluster[k]) = {}
  BY DEF Init, NoClusters, Live
<1>2. ClustersFilled /\ ViewsFilled
  BY <1>1 DEF ClustersFilled, ViewsFilled, Full
<1>3. QueueFilled /\ SomePresent
  BY DEF Init, QueueFilled, SomePresent
<1> QED
  BY <1>2, <1>3, InitTree, InitPlaced, InitShown, InitOwn DEF FullInv, FullOK, ShownInv, PlacedInv

\* No cluster is without accounts, in a context or in what is shown of it, as long
\* as no cluster of another context is inserted (a removal looks for a shared
\* account in the cluster it names, and leaves it behind in the one it is in) and
\* no request inserts nothing (which shows an empty context as an empty cluster).
THEOREM ClustersHaveAccounts ==
  ASSUME Separate, Nonempty
  PROVE  Spec => []NoEmptyCluster
<1>1. ASSUME FullInv, pc = "idle", NEW k \in Contexts
      PROVE  /\ \A i \in Live(cluster[k]) : AccountsBelow(cluster[k], i) # {}
             /\ \A i \in Live(view[k]) : AccountsBelow(view[k], i) # {}
  <2>1. TypeOK /\ ClustersFilled /\ ViewsFilled /\ ShownInv /\ TreeInv /\ lost = None
    BY <1>1, FullIs DEF TreeInv, RemoveOK
  <2>2. /\ Clusters(cluster[k], Ids) /\ Clusters(view[k], Copied)
        /\ Tree(cluster[k]) /\ Tree(view[k])
    BY <1>1, <2>1, HereIs DEF TreeInv, TreesOK, ShownInv, ViewOK, Tidy
  <2>3. None \notin Live(cluster[k]) /\ None \notin Live(view[k])
    BY <2>2, LiveIs, ContextTreeAssumption DEF Copied
  <2>4. \A i \in Live(cluster[k]) : cluster[k][i].members # {} \/ cluster[k][i].subs # {}
    BY <2>1, <2>3 DEF ClustersFilled, LostIn, Full
  <2>5. \A i \in Live(view[k]) : view[k][i].members # {} \/ view[k][i].subs # {}
    BY <2>1, <2>3 DEF ViewsFilled, Full
  <2> QED
    BY <2>2, <2>4, <2>5, AccountsFound
<1>2. FullInv => NoEmptyCluster
  BY <1>1 DEF NoEmptyCluster
<1>3. FullInv /\ [Next]_vars => FullInv'
  BY NextFilled
<1> QED
  BY <1>2, <1>3, InitFilled, PTL DEF Spec
=============================================================================
