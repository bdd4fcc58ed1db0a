------------------------- MODULE FlowView_patience -------------------------
(***************************************************************************)
(* For a patient user no callback of the flow view throws, and the view    *)
(* shows what the server has once all requests were answered: NoneStuck,   *)
(* Agree and FilesAgree of FlowView, for any accounts, flow and files and  *)
(* however much the user does.                                             *)
(*                                                                         *)
(* The inductive invariant, Calm, takes the requests of a context, the     *)
(* immediate ones first, as one line.  It lists the lines that there are   *)
(* (Shapes) and says of any two contexts whose requests still matter that  *)
(* they work on columns that are neither the same nor neighbours (Apart),  *)
(* unless both only wait for links of one column.  As columns that hold    *)
(* something stay in the row and empty inner ones go, two columns that     *)
(* requests work on could become neighbours only in a row with an empty    *)
(* inner column; Tight says that such a row has one column with anything   *)
(* in it.                                                                  *)
(***************************************************************************)
EXTENDS FlowView_proofs

-----------------------------------------------------------------------------
(* The order of the columns in a row *)

\* The columns of the row up to n that become s, in order: the k-th one stands at g[k].
Chosen(row, S, n, s, g) ==
  /\ s \in Seq(Range(row)) /\ g \in [1..Len(s) -> 1..n]
  /\ \A k \in 1..Len(s) : s[k] = row[g[k]] /\ row[g[k]] \in S
  /\ \A k, l \in 1..Len(s) : k < l => g[k] < g[l]
  /\ \A i \in 1..n : row[i] \in S => \E k \in 1..Len(s) : g[k] = i

\* One more column of the row.
LEMMA ChosenGrows ==
  ASSUME NEW R, NEW row \in Seq(R), NEW S, NEW n \in Nat, n + 1 <= Len(row),
         NEW s, \E g : Chosen(row, S, n, s, g)
  PROVE  \E g : Chosen(row, S, n + 1, IF row[n + 1] \in S THEN Append(s, row[n + 1]) ELSE s, g)
<1>1. /\ DOMAIN row = 1..Len(row) /\ Len(row) \in Nat
      /\ row[n + 1] \in Range(row) /\ n + 1 \in 1..Len(row)
  BY LenProperties DEF Range
<1>2. PICK g : Chosen(row, S, n, s, g)
  OBVIOUS
<1>3. s \in Seq(Range(row)) /\ Len(s) \in Nat /\ g \in [1..Len(s) -> 1..n]
  BY <1>2, LenProperties DEF Chosen
<1>4. CASE row[n + 1] \notin S
  <2>1. g \in [1..Len(s) -> 1..(n + 1)]
    BY <1>3
  <2>2. \A i \in 1..(n + 1) : row[i] \in S => i \in 1..n
    BY <1>4
  <2>3. Chosen(row, S, n + 1, s, g)
    BY <1>2, <2>1, <2>2 DEF Chosen
  <2> QED
    BY <1>4, <2>3
<1>5. CASE row[n + 1] \in S
  <2> DEFINE t == Append(s, row[n + 1])
             m == Len(s) + 1
             h == [k \in 1..m |-> IF k = m THEN n + 1 ELSE g[k]]
  <2>1. /\ t \in Seq(Range(row)) /\ Len(t) = m
        /\ \A i \in 1..Len(s) : t[i] = s[i]
        /\ t[m] = row[n + 1]
    BY <1>1, <1>3, AppendProperties
  <2> HIDE DEF t
  <2>2. /\ h \in [1..m -> 1..(n + 1)] /\ h[m] = n + 1
        /\ \A k \in 1..Len(s) : h[k] = g[k] /\ g[k] \in 1..n
    BY <1>3
  <2>3. \A k \in 1..m : k \in 1..Len(s) \/ k = m
    BY <1>3
  <2> HIDE DEF m, h
  <2>4. \A k \in 1..m : t[k] = row[h[k]] /\ row[h[k]] \in S
    BY <1>2, <1>5, <2>1, <2>2, <2>3 DEF Chosen
  <2>5. \A k, l \in 1..m : k < l => h[k] < h[l]
    <3> SUFFICES ASSUME NEW k \in 1..m, NEW l \in 1..m, k < l
                 PROVE  h[k] < h[l]
      OBVIOUS
    <3>1. k \in 1..Len(s)
      BY <1>3, <2>3 DEF m
    <3>2. CASE l = m
      BY <3>1, <3>2, <2>2
    <3>3. CASE l \in 1..Len(s)
      BY <1>2, <3>1, <3>3, <2>2 DEF Chosen
    <3> QED
      BY <3>2, <3>3, <2>3
  <2>6. \A i \in 1..(n + 1) : row[i] \in S => \E k \in 1..m : h[k] = i
    <3> SUFFICES ASSUME NEW i \in 1..(n + 1), row[i] \in S
                 PROVE  \E k \in 1..m : h[k] = i
      OBVIOUS
    <3>1. CASE i = n + 1
      BY <3>1, <1>3, <2>2 DEF m
    <3>2. CASE i # n + 1
      <4>1. i \in 1..n
        BY <3>2
      <4>2. PICK k \in 1..Len(s) : g[k] = i
        BY <1>2, <4>1 DEF Chosen
      <4> QED
        BY <4>2, <1>3, <2>2 DEF m
    <3> QED
      BY <3>1, <3>2
  <2>7. Chosen(row, S, n + 1, t, h)
    BY <2>1, <2>2, <2>4, <2>5, <2>6 DEF Chosen
  <2> QED
    BY <1>5, <2>7 DEF t
<1> QED
  BY <1>4, <1>5

\* A row without the columns outside S keeps the order of the others.
LEMMA RestrictedOrder ==
  ASSUME NEW R, NEW row \in Seq(R), NEW S
  PROVE  \E g : Chosen(row, S, Len(row), Restricted(row, S), g)
<1>1. Len(row) \in Nat
  BY LenProperties
<1>2. PICK f : IsUpTo(f, row, S, Len(row)) /\ Restricted(row, S) = f[Len(row)]
  <2>1. \E f : IsUpTo(f, row, S, Len(row))
    BY <1>1, UpToExists
  <2> QED
    BY <2>1 DEF Restricted, IsUpTo
<1> DEFINE T == {m \in 0..Len(row) : ~\E g : Chosen(row, S, m, f[m], g)}
<1>3. SUFFICES ASSUME T # {}
               PROVE  FALSE
  <2>1. Len(row) \in 0..Len(row)
    BY <1>1
  <2> QED
    BY <1>2, <2>1
<1>4. PICK m \in T : \A k \in T : m <= k
  <2>1. T \in SUBSET Nat
    BY <1>1
  <2> HIDE DEF T
  <2> QED
    BY <1>3, <2>1, LeastOf
<1>5. CASE m = 0
  <2>1. f[0] = <<>>
    BY <1>1, <1>2 DEF IsUpTo
  <2>2. Chosen(row, S, 0, <<>>, [k \in 1..0 |-> 0])
    <3>1. <<>> \in Seq(Range(row)) /\ Len(<<>>) = 0
      BY EmptySeq
    <3> QED
      BY <3>1 DEF Chosen
  <2> QED
    BY <1>5, <2>1, <2>2
<1>6. CASE m # 0
  <2>1. m - 1 \in Nat /\ m - 1 \in 0..Len(row) /\ \E g : Chosen(row, S, m - 1, f[m - 1], g)
    BY <1>1, <1>4, <1>6
  <2>2. f[m] = IF row[m] \in S THEN Append(f[m - 1], row[m]) ELSE f[m - 1]
    BY <1>1, <1>2, <1>6 DEF IsUpTo
  <2>3. m - 1 + 1 = m /\ m <= Len(row)
    BY <1>1
  <2>4. \E g : Chosen(row, S, m - 1 + 1, IF row[m - 1 + 1] \in S THEN Append(f[m - 1], row[m - 1 + 1])
                                ELSE f[m - 1], g)
    BY <2>1, <2>3, ChosenGrows
  <2> QED
    BY <2>2, <2>3, <2>4
<1> QED
  BY <1>5, <1>6

\* Column b comes right after column a in the row.
Beside(row, a, b) == \E i \in 1..(Len(row) - 1) : row[i] = a /\ row[i + 1] = b

\* r is s, of length m, and then t, of length n.
ConcatAt(s, t, m, n, r) ==
  /\ Len(r) = m + n
  /\ \A i \in 1..m : r[i] = s[i]
  /\ \A i \in 1..n : r[m + i] = t[i]

LEMMA ConcatIsAt ==
  ASSUME NEW S, NEW s \in Seq(S), NEW t \in Seq(S), NEW m \in Nat, NEW n \in Nat,
         m = Len(s), n = Len(t)
  PROVE  s \o t \in Seq(S) /\ ConcatAt(s, t, m, n, s \o t)
<1>1. /\ s \o t \in Seq(S) /\ Len(s \o t) = m + n
      /\ \A i \in 1..(m + n) : (s \o t)[i] = IF i <= m THEN s[i] ELSE t[i - m]
  BY ConcatProperties
<1>2. \A i \in 1..m : (s \o t)[i] = s[i]
  BY <1>1
<1>3. ASSUME NEW i \in 1..n
      PROVE  (s \o t)[m + i] = t[i]
  <2>1. m + i \in 1..(m + n) /\ ~(m + i <= m) /\ m + i - m = i
    OBVIOUS
  <2>2. (s \o t)[m + i] = IF m + i <= m THEN s[m + i] ELSE t[m + i - m]
    BY <1>1, <2>1
  <2> QED
    BY <2>1, <2>2
<1> QED
  BY <1>1, <1>2, <1>3 DEF ConcatAt

\* Numbers that grow with their places tell the places' order.
LEMMA Ordered ==
  ASSUME NEW k \in Nat, NEW l \in Nat, NEW x \in Int, NEW y \in Int,
         k < l => x < y, l < k => y < x, k = l => x = y
  PROVE  (x < y => k < l) /\ (x = y => k = l)
  OBVIOUS

\* The columns kept stand next to each other in the pruned row; the others are new.
LEMMA AroundAt ==
  ASSUME NEW n \in Nat, NEW kept, NEW third, NEW left, NEW right,
         NewAround(n, kept, third, left, right)
  PROVE  LET p == Around(left, kept, third, right)
             z == Len(left)
         IN /\ Len(left) \in 0..1 /\ Len(third) \in 0..1 /\ Len(right) \in 0..1
            /\ Len(p) = z + Len(kept) + Len(third) + Len(right)
            /\ \A k \in 1..Len(kept) : p[z + k] = kept[k]
            /\ \A j \in 1..Len(p) : j - z \in 1..Len(kept) \/ p[j] > n
<1> DEFINE a == left \o kept
           b == a \o third
           p == b \o right
           u == Len(left)
           k0 == Len(kept)
           v == Len(third)
           w == Len(right)
<1>1. kept \in Seq(Nat) /\ k0 \in Nat /\ k0 >= 2
  BY LenProperties DEF NewAround
<1>2. /\ third \in Seq(Nat) /\ v \in 0..1
      /\ \A i \in 1..v : third[i] > n
  BY NewColumn DEF AtMost, NewAround
<1>3. /\ left \in Seq(Nat) /\ u \in 0..1
      /\ \A i \in 1..u : left[i] > n
  <2>1. n + v + 1 \in Nat /\ n + v + 1 > n
    BY <1>2
  <2>2. AtMost(left, n + v + 1)
    BY DEF NewAround
  <2> HIDE DEF v
  <2> QED
    BY <2>1, <2>2, NewColumn DEF AtMost
<1>4. /\ right \in Seq(Nat) /\ w \in 0..1
      /\ \A i \in 1..w : right[i] > n
  <2>1. n + v + u + 1 \in Nat /\ n + v + u + 1 > n
    <3> HIDE DEF u, v
    <3> QED
      BY <1>2, <1>3
  <2>2. AtMost(right, n + v + u + 1)
    BY DEF NewAround
  <2> HIDE DEF u, v
  <2> QED
    BY <2>1, <2>2, NewColumn DEF AtMost
<1>5. a \in Seq(Nat) /\ ConcatAt(left, kept, u, k0, a)
  BY <1>1, <1>3, ConcatIsAt
<1> HIDE DEF a
<1>6. b \in Seq(Nat) /\ ConcatAt(a, third, u + k0, v, b)
  <2>1. Len(a) = u + k0 /\ v = Len(third)
    BY <1>5 DEF ConcatAt
  <2> HIDE DEF u, k0, v
  <2>2. u + k0 \in Nat /\ v \in Nat
    BY <1>1, <1>2, <1>3
  <2> QED
    BY <1>2, <1>5, <2>1, <2>2, ConcatIsAt
<1> HIDE DEF b
<1>7. p \in Seq(Nat) /\ ConcatAt(b, right, u + k0 + v, w, p)
  <2>1. Len(b) = u + k0 + v /\ w = Len(right)
    BY <1>6 DEF ConcatAt
  <2> HIDE DEF u, k0, v, w
  <2>2. u + k0 + v \in Nat /\ w \in Nat
    BY <1>1, <1>2, <1>3, <1>4
  <2> QED
    BY <1>4, <1>6, <2>1, <2>2, ConcatIsAt
<1>8. Around(left, kept, third, right) = p
  BY DEF Around, p, b, a
<1>9. Len(p) = u + k0 + v + w
  BY <1>7 DEF ConcatAt
<1> HIDE DEF p, u, k0, v, w
<1>10. ASSUME NEW k \in 1..k0
       PROVE  p[u + k] = kept[k]
  <2>1. u + k \in 1..(u + k0) /\ u + k \in 1..(u + k0 + v)
    BY <1>1, <1>2, <1>3
  <2> QED
    BY <1>5, <1>6, <1>7, <2>1 DEF ConcatAt
<1>11. ASSUME NEW j \in 1..Len(p)
       PROVE  j - u \in 1..k0 \/ p[j] > n
  <2>1. j \in 1..(u + k0 + v + w)
    BY <1>9
  <2>2. CASE j \in 1..u
    <3>1. j \in 1..(u + k0) /\ j \in 1..(u + k0 + v)
      BY <1>1, <1>2, <1>3, <2>2
    <3> QED
      BY <2>2, <3>1, <1>3, <1>5, <1>6, <1>7 DEF ConcatAt
  <2>3. CASE j - (u + k0) \in 1..v
    <3> DEFINE i == j - (u + k0)
    <3>1. i \in 1..v /\ j = u + k0 + i /\ j \in 1..(u + k0 + v)
      BY <1>1, <1>2, <1>3, <2>3
    <3> HIDE DEF i
    <3> QED
      BY <3>1, <1>2, <1>6, <1>7 DEF ConcatAt
  <2>4. CASE j - (u + k0 + v) \in 1..w
    <3> DEFINE i == j - (u + k0 + v)
    <3>1. i \in 1..w /\ j = u + k0 + v + i
      BY <1>1, <1>2, <1>3, <1>4, <2>4
    <3> HIDE DEF i
    <3> QED
      BY <3>1, <1>4, <1>7 DEF ConcatAt
  <2> QED
    BY <1>1, <1>2, <1>3, <1>4, <2>1, <2>2, <2>3, <2>4
<1>12. /\ u = Len(left) /\ k0 = Len(kept) /\ v = Len(third) /\ w = Len(right)
  BY DEF u, k0, v, w
<1> QED
  BY <1>2, <1>3, <1>4, <1>8, <1>9, <1>10, <1>11, <1>12

\* A row is tight: each inner column holds something, or there are two inner columns at
\* most and one thing is in the row.
TightRow(row, cards, places) ==
  \/ \A i \in 2..(Len(row) - 1) : Occupied(row[i], cards, places)
  \/ /\ Len(row) <= 4
     /\ \A c, d \in Columns : Occupied(c, cards, places) /\ Occupied(d, cards, places) => c = d

\* _pruneColumns keeps the columns that hold something and those at the ends, in order;
\* two of them become neighbours only across columns that are dropped.
OrderKept(row, n, cards, places, p) ==
  LET ends == {row[1], row[Len(row)]} IN
  /\ \A c \in Range(row) : c \in Range(p) <=> c \in ends \/ Occupied(c, cards, places)
  /\ \A c \in Range(p) : c \in Range(row) \/ c > n
  /\ \A a, b \in Range(p) : Beside(row, a, b) => Beside(p, a, b)
  /\ \A a, b \in Range(row) : Beside(p, a, b) =>
       \/ Beside(row, a, b)
       \/ \E d, e \in Range(row) \ Range(p) : Beside(row, a, d) /\ Beside(row, e, b)

\* If something is in the row, but not at its ends, pruning it adds no column.
EndsKept(row, cards, places, p) ==
  /\ p[1] = row[1] /\ p[Len(p)] = row[Len(row)] /\ Range(p) \subseteq Range(row)
  /\ \A e \in Columns : (\A c \in Columns : Occupied(c, cards, places) <=> c = e) =>
       Len(p) = 3 /\ p[2] = e

LEMMA PrunedOrder ==
  ASSUME NEW n \in Nat, NEW row \in Seq(1..n), IsInjective(row), Len(row) >= 2,
         1..n \subseteq Columns,
         NEW cards, NEW places,
         \A c \in Columns : Occupied(c, cards, places) => c \in Range(row)
  PROVE  LET p == Pruned(row, n, cards, places) IN
         /\ OrderKept(row, n, cards, places, p)
         /\ ~(Occupied(row[1], cards, places) /\ Occupied(row[Len(row)], cards, places)) =>
              TightRow(p, cards, places)
         /\ /\ ~Occupied(row[1], cards, places) /\ ~Occupied(row[Len(row)], cards, places)
            /\ \E c \in Columns : Occupied(c, cards, places)
            => EndsKept(row, cards, places, p)
<1> DEFINE occupied == {c \in Columns : In(c, cards) # {} \/ \E f \in Files : places[f] = c}
           S == {row[1], row[Len(row)]} \cup occupied
           kept == Restricted(row, S)
           third == IF Len(kept) < 3 THEN <<n + 1>> ELSE <<>>
           left == IF row[1] \in occupied THEN <<n + Len(third) + 1>> ELSE <<>>
           right == IF row[Len(row)] \in occupied
                    THEN <<n + Len(third) + Len(left) + 1>> ELSE <<>>
           p == left \o kept \o third \o right
           z == Len(left)
<1>0. Pruned(row, n, cards, places) = p
  BY DEF Pruned
<1>1. /\ Len(row) \in Nat /\ DOMAIN row = 1..Len(row)
      /\ \A i \in 1..Len(row) : row[i] \in 1..n /\ row[i] \in Columns
  BY LenProperties, ElementOfSeq
<1>2. PICK g : Chosen(row, S, Len(row), kept, g)
  <2> HIDE DEF S
  <2> QED
    BY RestrictedOrder
<1>3. \A c \in Columns : c \in occupied <=> Occupied(c, cards, places)
  BY DEF Occupied
<1>4. occupied \subseteq Range(row) /\ \A c \in occupied : c \in 1..n
  BY <1>1, <1>3 DEF Range
<1>5. row[1] \in S /\ row[Len(row)] \in S /\ occupied \subseteq S
  OBVIOUS
<1>15. \A c \in S : c \in {row[1], row[Len(row)]} \/ c \in occupied
  OBVIOUS
<1>13. \A i, j \in 1..Len(row) : row[i] = row[j] => i = j
  BY <1>1 DEF IsInjective
<1>6. /\ AtMost(third, n + 1)
      /\ AtMost(left, n + Len(third) + 1)
      /\ AtMost(right, n + Len(third) + Len(left) + 1)
  BY DEF AtMost
<1>7. /\ Len(kept) < 3 <=> third # <<>>
      /\ left # <<>> <=> row[1] \in occupied
      /\ right # <<>> <=> row[Len(row)] \in occupied
  <2>1. \A m : <<m>> # <<>>
    OBVIOUS
  <2> QED
    BY <2>1
<1>8. p = Around(left, kept, third, right)
  BY DEF Around
<1> HIDE DEF occupied, S, kept, third, left, right, p
<1> DEFINE K == Len(kept)
           N == Len(row)
           L == Len(p)
           v == Len(third)
           w == Len(right)
<1>25. K = Len(kept) /\ N = Len(row) /\ L = Len(p) /\ v = Len(third) /\ w = Len(right)
  OBVIOUS
<1>9. /\ kept \in Seq(Range(row)) /\ K \in Nat /\ DOMAIN kept = 1..K
      /\ g \in [1..K -> 1..N]
      /\ \A k \in 1..K : kept[k] = row[g[k]] /\ row[g[k]] \in S
      /\ \A k, l \in 1..K : k < l => g[k] < g[l]
      /\ \A i \in 1..N : row[i] \in S => \E k \in 1..K : g[k] = i
  BY <1>2, LenProperties DEF Chosen
<1>26. /\ N \in Nat /\ N >= 2 /\ DOMAIN row = 1..N
       /\ \A i \in 1..N : row[i] \in 1..n /\ row[i] \in Columns
       /\ \A i, j \in 1..N : row[i] = row[j] => i = j
       /\ row[1] \in S /\ row[N] \in S
       /\ \A c \in S : c \in {row[1], row[N]} \/ c \in occupied
       /\ occupied \subseteq S
       /\ K < 3 <=> third # <<>>
       /\ right # <<>> <=> row[N] \in occupied
  BY <1>1, <1>5, <1>7, <1>13, <1>15
<1>28. \A k, l \in 1..K : /\ g[k] \in 1..N
                          /\ g[k] < g[l] => k < l
                          /\ g[k] = g[l] => k = l
  <2> HIDE DEF K, N
  <2> SUFFICES ASSUME NEW k \in 1..K, NEW l \in 1..K
               PROVE  /\ g[k] \in 1..N
                      /\ g[k] < g[l] => k < l
                      /\ g[k] = g[l] => k = l
    OBVIOUS
  <2>1. g[k] \in 1..N /\ g[l] \in 1..N
    BY <1>9
  <2>2. k < l => g[k] < g[l]
    BY <1>9
  <2>3. l < k => g[l] < g[k]
    BY <1>9
  <2>4. k \in Nat /\ l \in Nat
    BY <1>9
  <2>5. g[k] \in Int /\ g[l] \in Int
    BY <1>26, <2>1
  <2> QED
    BY <2>1, <2>2, <2>3, <2>4, <2>5, Ordered, Zenon
<1>10. /\ K >= 2 /\ g[1] = 1 /\ g[K] = N
       /\ 1 \in 1..K /\ K \in 1..K
  <2> HIDE DEF K, N
  <2>1. PICK k \in 1..K : g[k] = 1
    BY <1>9, <1>26
  <2>2. PICK l \in 1..K : g[l] = N
    BY <1>9, <1>26
  <2>3. 1 \in 1..K /\ K \in 1..K
    BY <1>9, <2>1
  <2>4. k = 1
    <3>1. g[1] \in 1..N
      BY <1>28, <2>3
    <3>2. g[k] < g[1] \/ g[k] = g[1]
      BY <1>26, <2>1, <3>1
    <3> QED
      BY <1>9, <1>28, <2>3, <3>2
  <2>5. l = K
    <3>1. g[K] \in 1..N
      BY <1>28, <2>3
    <3>2. g[K] < g[l] \/ g[K] = g[l]
      BY <1>26, <2>2, <3>1
    <3> QED
      BY <1>9, <1>28, <2>3, <3>2
  <2>6. k # l
    BY <1>26, <2>1, <2>2
  <2> QED
    BY <1>9, <2>1, <2>2, <2>3, <2>4, <2>5, <2>6
<1>11. NewAround(n, kept, third, left, right)
  <2>1. Range(row) \subseteq Nat
    BY <1>1 DEF Range
  <2>2. kept \in Seq(Nat)
    BY <1>9, <2>1, SeqMonotonic
  <2>3. IsInjective(kept)
    <3> HIDE DEF K, N
    <3> SUFFICES ASSUME NEW k \in 1..K, NEW l \in 1..K, kept[k] = kept[l]
                 PROVE  k = l
      BY <1>9 DEF IsInjective
    <3>1. g[k] \in 1..N /\ g[l] \in 1..N /\ g[k] = g[l]
      BY <1>9, <1>26
    <3> QED
      BY <1>28, <3>1
  <2>4. \A k \in 1..Len(kept) : kept[k] \in 1..n
    BY <1>1, <1>9
  <2>5. Len(kept) >= 2
    BY <1>10
  <2> QED
    BY <1>6, <1>7, <2>2, <2>3, <2>4, <2>5 DEF NewAround
<1>12. /\ z \in 0..1 /\ v \in 0..1 /\ w \in 0..1
       /\ L = z + K + v + w /\ L \in Nat
       /\ \A k \in 1..K : p[z + k] = kept[k]
       /\ \A j \in 1..L : j - z \in 1..K \/ p[j] > n
       /\ DOMAIN p = 1..L
  <2>1. IsAround(p, n, kept, left, right)
    BY <1>8, <1>11, RowAround
  <2>2. DOMAIN p = 1..Len(p) /\ Len(p) \in Nat
    BY <2>1, LenProperties DEF IsAround
  <2>3. LET q == Around(left, kept, third, right)
        IN /\ Len(left) \in 0..1 /\ Len(third) \in 0..1 /\ Len(right) \in 0..1
           /\ Len(q) = Len(left) + Len(kept) + Len(third) + Len(right)
           /\ \A k \in 1..Len(kept) : q[Len(left) + k] = kept[k]
           /\ \A j \in 1..Len(q) : j - Len(left) \in 1..Len(kept) \/ q[j] > n
    BY <1>11, AroundAt
  <2> QED
    BY <1>8, <2>2, <2>3
<1>27. /\ third = <<>> => v = 0
       /\ left = <<>> => z = 0
       /\ right = <<>> => w = 0
  BY EmptySeq
<1> HIDE DEF K, N, L, v, w, z
<1>14. \A c : c \in Range(p) /\ c \in Range(row) => \E k \in 1..K : kept[k] = c
  <2> SUFFICES ASSUME NEW c \in Range(p), c \in Range(row)
               PROVE  \E k \in 1..K : kept[k] = c
    OBVIOUS
  <2>1. PICK j \in 1..L : p[j] = c
    BY <1>12 DEF Range
  <2>2. c \in 1..n
    BY <1>26 DEF Range
  <2>3. j - z \in 1..K
    BY <1>12, <2>1, <2>2
  <2>4. p[z + (j - z)] = kept[j - z] /\ z + (j - z) = j
    BY <1>12, <2>3
  <2> QED
    BY <2>1, <2>3, <2>4
<1>16. \A k \in 1..K : z + k \in 1..L
  BY <1>9, <1>12
<1>17. \A c \in Range(row) : c \in Range(p) <=> c \in {row[1], row[N]} \/ Occupied(c, cards, places)
  <2> SUFFICES ASSUME NEW i \in 1..N
               PROVE  row[i] \in Range(p) <=>
                        row[i] \in {row[1], row[N]} \/ Occupied(row[i], cards, places)
    BY <1>26 DEF Range
  <2>1. row[i] \in S <=> row[i] \in {row[1], row[N]} \/ Occupied(row[i], cards, places)
    BY <1>26, <1>3, <1>26
  <2>2. ASSUME row[i] \in S
        PROVE  row[i] \in Range(p)
    <3>1. PICK k \in 1..K : g[k] = i
      BY <1>9, <2>2
    <3>2. p[z + k] = row[i] /\ z + k \in DOMAIN p
      BY <1>9, <1>12, <1>16, <3>1
    <3> QED
      BY <3>2 DEF Range
  <2>3. ASSUME row[i] \in Range(p)
        PROVE  row[i] \in S
    <3>1. PICK k \in 1..K : kept[k] = row[i]
      BY <1>26, <1>14, <2>3 DEF Range
    <3> QED
      BY <1>9, <3>1
  <2> QED
    BY <2>1, <2>2, <2>3
<1>18. \A c \in Range(p) : c \in Range(row) \/ c > n
  <2> SUFFICES ASSUME NEW j \in 1..L
               PROVE  p[j] \in Range(row) \/ p[j] > n
    BY <1>12 DEF Range
  <2>1. CASE j - z \in 1..K
    <3>1. p[z + (j - z)] = kept[j - z] /\ z + (j - z) = j
      BY <1>12, <2>1
    <3>2. kept[j - z] = row[g[j - z]] /\ g[j - z] \in 1..N
      BY <1>9, <2>1
    <3> QED
      BY <1>26, <3>1, <3>2 DEF Range
  <2> QED
    BY <1>12, <2>1
<1>19. \A a, b \in Range(p) : Beside(row, a, b) => Beside(p, a, b)
  <2> SUFFICES ASSUME NEW i \in 1..(N - 1), row[i] \in Range(p), row[i + 1] \in Range(p)
               PROVE  Beside(p, row[i], row[i + 1])
    BY <1>25 DEF Beside
  <2>1. i \in 1..N /\ i + 1 \in 1..N
    BY <1>26
  <2>2. PICK k \in 1..K : kept[k] = row[i]
    BY <1>26, <1>14, <2>1 DEF Range
  <2>3. PICK l \in 1..K : kept[l] = row[i + 1]
    BY <1>26, <1>14, <2>1 DEF Range
  <2>4. g[k] = i /\ g[l] = i + 1
    <3>1. kept[k] = row[g[k]] /\ kept[l] = row[g[l]]
      BY <1>9
    <3>2. g[k] \in 1..N /\ g[l] \in 1..N
      BY <1>28
    <3> QED
      BY <1>26, <2>1, <2>2, <2>3, <3>1, <3>2
  <2>5. k < l
    <3>1. g[k] < g[l]
      BY <1>26, <2>1, <2>4
    <3> QED
      BY <1>28, <3>1
  <2>6. l = k + 1
    <3> SUFFICES ASSUME k + 1 < l
                 PROVE  FALSE
      BY <1>9, <2>5
    <3>1. k + 1 \in 1..K /\ k < k + 1
      BY <1>9
    <3>2. g[k + 1] \in 1..N /\ g[k] < g[k + 1] /\ g[k + 1] < g[l]
      BY <1>9, <3>1
    <3> QED
      BY <2>1, <2>4, <3>2
  <2>7. p[z + k] = row[i] /\ p[z + l] = row[i + 1] /\ z + l = z + k + 1 /\ z + k \in 1..(L - 1)
    <3>1. p[z + k] = row[i] /\ p[z + l] = row[i + 1]
      BY <1>12, <2>2, <2>3
    <3>2. z + k \in 1..L /\ z + l \in 1..L
      BY <1>16
    <3> QED
      BY <1>9, <1>12, <2>6, <3>1, <3>2
  <2> QED
    BY <1>25, <2>7 DEF Beside
<1>20. ASSUME NEW a \in Range(row), NEW b \in Range(row), Beside(p, a, b)
       PROVE  \/ Beside(row, a, b)
              \/ \E d, e \in Range(row) \ Range(p) : Beside(row, a, d) /\ Beside(row, e, b)
  <2>1. PICK j \in 1..(L - 1) : p[j] = a /\ p[j + 1] = b
    BY <1>20, <1>25 DEF Beside
  <2>2. a \in 1..n /\ b \in 1..n
    BY <1>26 DEF Range
  <2> DEFINE k == j - z
  <2>3. k \in 1..K /\ k + 1 \in 1..K /\ z + k = j /\ z + (k + 1) = j + 1
    <3>1. j \in 1..L /\ j + 1 \in 1..L
      BY <1>12, <2>1
    <3>2. j - z \in 1..K /\ j + 1 - z \in 1..K
      BY <1>12, <2>1, <2>2, <3>1
    <3> QED
      BY <1>9, <1>12, <3>2
  <2> HIDE DEF k
  <2>4. /\ g[k] \in 1..N /\ g[k + 1] \in 1..N /\ g[k] < g[k + 1]
        /\ row[g[k]] = a /\ row[g[k + 1]] = b
    <3>1. kept[k] = a /\ kept[k + 1] = b
      BY <1>12, <2>1, <2>3
    <3>2. k < k + 1
      BY <2>3
    <3> QED
      BY <1>9, <2>3, <3>1, <3>2
  <2>5. ASSUME NEW i \in 1..N, g[k] < i, i < g[k + 1]
        PROVE  row[i] \notin Range(p)
    <3> SUFFICES ASSUME row[i] \in Range(p)
                 PROVE  FALSE
      OBVIOUS
    <3>3. row[i] \in Range(row)
      BY <1>26 DEF Range
    <3>4. PICK m \in 1..K : kept[m] = row[i]
      BY <1>14, <3>3
    <3>5. row[i] \in S
      BY <1>9, <3>4
    <3>1. PICK l \in 1..K : g[l] = i
      BY <1>9, <3>5
    <3>2. k < l /\ l < k + 1
      BY <1>28, <2>3, <2>4, <2>5, <3>1
    <3> QED
      BY <2>3, <3>2
  <2>6. CASE g[k + 1] = g[k] + 1
    <3>1. g[k] \in 1..(N - 1)
      BY <1>26, <2>4, <2>6
    <3> QED
      BY <2>4, <2>6, <3>1, <1>25 DEF Beside
  <2>7. CASE g[k + 1] # g[k] + 1
    <3> DEFINE u == g[k] + 1
               v1 == g[k + 1] - 1
    <3>1. /\ u \in 1..N /\ g[k] < u /\ u < g[k + 1] /\ g[k] \in 1..(N - 1)
          /\ v1 \in 1..N /\ g[k] < v1 /\ v1 < g[k + 1] /\ v1 \in 1..(N - 1) /\ v1 + 1 = g[k + 1]
      <4> DEFINE x == g[k]
                 y == g[k + 1]
      <4>1. x \in 1..N /\ y \in 1..N /\ x < y /\ y # x + 1 /\ u = x + 1 /\ v1 = y - 1
        BY <2>4, <2>7
      <4> HIDE DEF x, y
      <4>2. /\ x + 1 \in 1..N /\ x < x + 1 /\ x + 1 < y /\ x \in 1..(N - 1)
            /\ y - 1 \in 1..N /\ x < y - 1 /\ y - 1 < y /\ y - 1 \in 1..(N - 1) /\ y - 1 + 1 = y
        BY <1>26, <4>1
      <4> QED
        BY <4>1, <4>2 DEF x, y
    <3>2. Beside(row, a, row[u]) /\ Beside(row, row[v1], b)
      BY <2>4, <3>1, <1>25 DEF Beside
    <3>3. row[u] \notin Range(p) /\ row[v1] \notin Range(p)
      BY <2>5, <3>1
    <3>4. row[u] \in Range(row) /\ row[v1] \in Range(row)
      BY <1>26, <3>1 DEF Range
    <3> QED
      BY <3>2, <3>3, <3>4
  <2> QED
    BY <2>6, <2>7
<1>21. OrderKept(row, n, cards, places, p)
  <2> QED
    BY <1>25, <1>17, <1>18, <1>19, <1>20 DEF OrderKept
<1>22. ASSUME ~(row[1] \in occupied /\ row[N] \in occupied), K >= 3,
              NEW i \in 2..(L - 1)
       PROVE  Occupied(p[i], cards, places)
  <2>1. third = <<>> /\ v = 0
    BY <1>9, <1>22, <1>26, <1>27
  <2> DEFINE k == i - z
  <2>3. k \in 1..K /\ z + k = i /\ p[i] = kept[k]
    <3>1. k \in 1..K
      BY <1>9, <1>12, <2>1
    <3> QED
      BY <1>12, <3>1
  <2> HIDE DEF k
  <2>4. SUFFICES kept[k] \in occupied
    <3>1. kept[k] \in Columns
      BY <1>26, <1>9, <2>3
    <3> QED
      BY <1>3, <2>3, <3>1
  <2>5. CASE k = 1
    <3>1. z = 1
      BY <1>12, <2>3, <2>5
    <3>2. row[1] \in occupied
      BY <1>7, <1>26, <1>27, <3>1
    <3> QED
      BY <1>9, <1>10, <2>5, <3>2
  <2>6. CASE k = K
    <3>1. w # 0
      BY <1>9, <1>12, <2>1, <2>3, <2>6
    <3>2. row[N] \in occupied
      BY <1>7, <1>26, <1>27, <3>1
    <3> QED
      BY <1>9, <1>10, <2>6, <3>2
  <2>7. CASE k # 1 /\ k # K
    <3>1. 1 < k /\ k < K
      BY <1>9, <2>3, <2>7
    <3>2. g[k] \in 1..N /\ g[1] < g[k] /\ g[k] < g[K]
      BY <1>9, <1>10, <2>3, <3>1
    <3>3. row[g[k]] # row[1] /\ row[g[k]] # row[N]
      <4>1. 1 \in 1..N /\ N \in 1..N /\ g[k] # 1 /\ g[k] # N
        BY <1>26, <1>10, <3>2
      <4> QED
        BY <1>26, <3>2, <4>1
    <3> QED
      BY <1>9, <1>26, <2>3, <3>3
  <2> QED
    BY <2>5, <2>6, <2>7
<1>23. ASSUME ~(row[1] \in occupied /\ row[N] \in occupied), ~(K >= 3)
       PROVE  /\ L <= 4
              /\ \A c, d \in Columns :
                   Occupied(c, cards, places) /\ Occupied(d, cards, places) => c = d
  <2>1. K = 2
    BY <1>9, <1>10, <1>23
  <2>2. left = <<>> \/ right = <<>>
    BY <1>7, <1>23, <1>26
  <2>3. L <= 4
    <3>1. z = 0 \/ w = 0
      BY <2>2, <1>27
    <3> QED
      BY <1>12, <2>1, <3>1
  <2>4. \A c \in occupied : c = row[1] \/ c = row[N]
    <3> SUFFICES ASSUME NEW c \in occupied
                 PROVE  c = row[1] \/ c = row[N]
      OBVIOUS
    <3>1. PICK i \in 1..N : row[i] = c
      BY <1>26, <1>4 DEF Range
    <3>4. row[i] \in S
      BY <1>26, <3>1
    <3>2. PICK k \in 1..K : g[k] = i
      BY <1>9, <3>4
    <3>3. k = 1 \/ k = K
      BY <2>1, <3>2
    <3> QED
      BY <1>10, <3>1, <3>2, <3>3
  <2> QED
    BY <1>3, <1>23, <2>3, <2>4
<1>24. ~(Occupied(row[1], cards, places) /\ Occupied(row[N], cards, places)) =>
         TightRow(p, cards, places)
  <2>1. 1 \in 1..N /\ N \in 1..N
    BY <1>26
  <2>2. row[1] \in Columns /\ row[N] \in Columns
    BY <1>26, <2>1
  <2> QED
    BY <1>3, <1>22, <1>23, <1>25, <2>2 DEF TightRow
<1>29. ASSUME ~Occupied(row[1], cards, places), ~Occupied(row[N], cards, places),
              NEW e \in Columns, Occupied(e, cards, places)
       PROVE  /\ p[1] = row[1] /\ p[L] = row[N] /\ Range(p) \subseteq Range(row)
              /\ (\A c \in Columns : Occupied(c, cards, places) <=> c = e) => L = 3 /\ p[2] = e
  <2>1. e \in occupied /\ row[1] \notin occupied /\ row[N] \notin occupied
    BY <1>3, <1>26, <1>29
  <2>2. PICK i \in 1..N : row[i] = e
    BY <1>4, <1>26, <2>1 DEF Range
  <2>3. PICK k \in 1..K : g[k] = i
    BY <1>9, <1>26, <2>1, <2>2
  <2>4. k # 1 /\ k # K
    BY <1>10, <2>1, <2>2, <2>3
  <2>5. K >= 3
    BY <1>9, <1>10, <2>3, <2>4
  <2>6. z = 0 /\ v = 0 /\ w = 0
    BY <1>7, <1>26, <1>27, <2>1, <2>5, <1>9
  <2>7. L = K /\ \A j \in 1..K : p[j] = kept[j]
    <3>1. \A j \in 1..K : 0 + j = j
      BY <1>9
    <3> QED
      BY <1>9, <1>12, <2>6, <3>1
  <2>8. \A j \in 1..K : p[j] = row[g[j]] /\ g[j] \in 1..N
    BY <1>9, <1>28, <2>7
  <2>9. Range(p) \subseteq Range(row)
    <3> SUFFICES ASSUME NEW j \in 1..L
                 PROVE  p[j] \in Range(row)
      BY <1>12 DEF Range
    <3>1. j \in 1..K
      BY <2>7
    <3>2. g[j] \in DOMAIN row
      BY <1>26, <2>8, <3>1
    <3> QED
      BY <2>8, <3>1, <3>2 DEF Range
  <2>10. ASSUME \A c \in Columns : Occupied(c, cards, places) <=> c = e
         PROVE  K = 3 /\ g[2] = i
    <3>1. \A j \in 1..K : g[j] \in {1, i, N}
      <4> SUFFICES ASSUME NEW j \in 1..K
                   PROVE  g[j] \in {1, i, N}
        OBVIOUS
      <4>1. g[j] \in 1..N /\ row[g[j]] \in S /\ 1 \in 1..N /\ N \in 1..N
        BY <1>9, <1>26, <2>8
      <4>2. row[g[j]] \in {row[1], row[N], row[i]}
        BY <1>3, <1>26, <2>2, <2>10, <4>1
      <4> QED
        BY <1>26, <2>2, <4>1, <4>2
    <3>2. 2 \in 1..K /\ 3 \in 1..K /\ g[1] < g[2] /\ g[2] < g[3]
      BY <1>9, <1>10, <2>5
    <3>3. g[2] = i /\ g[3] = N
      <4>1. g[2] \in 1..N /\ g[3] \in 1..N /\ g[2] \in {1, i, N} /\ g[3] \in {1, i, N}
        BY <2>8, <3>1, <3>2
      <4> PICK y : y = g[2]
        OBVIOUS
      <4> PICK x : x = g[3]
        OBVIOUS
      <4>2. /\ N \in Nat /\ y \in 1..N /\ x \in 1..N /\ 1 < y /\ y < x
            /\ y \in {1, i, N} /\ x \in {1, i, N}
        BY <1>10, <1>26, <3>2, <4>1
      <4>3. y # 1 /\ y # N
        BY <4>2
      <4>4. y = i /\ x # 1 /\ x # i
        BY <4>2, <4>3
      <4>5. x = N
        BY <4>2, <4>4
      <4> QED
        BY <4>4, <4>5
    <3>4. ~(K > 3)
      <4> SUFFICES ASSUME K > 3
                   PROVE  FALSE
        OBVIOUS
      <4>1. 4 \in 1..K
        BY <1>9
      <4>2. g[3] < g[4] /\ g[4] \in 1..N
        BY <1>9, <2>8, <3>2, <4>1
      <4> QED
        BY <1>26, <3>3, <4>2
    <3> QED
      BY <1>9, <2>5, <3>3, <3>4
  <2>11. p[1] = row[1] /\ p[L] = row[N]
    BY <1>10, <2>7, <2>8
  <2>12. ASSUME \A c \in Columns : Occupied(c, cards, places) <=> c = e
         PROVE  L = 3 /\ p[2] = e
    <3>1. K = 3 /\ g[2] = i
      BY <2>10, <2>12
    <3>2. 2 \in 1..K
      BY <3>1
    <3> QED
      BY <2>2, <2>7, <2>8, <3>1, <3>2
  <2> QED
    BY <2>9, <2>11, <2>12
<1>30. /\ ~Occupied(row[1], cards, places) /\ ~Occupied(row[N], cards, places)
       /\ \E c \in Columns : Occupied(c, cards, places)
       => EndsKept(row, cards, places, p)
  BY <1>25, <1>29 DEF EndsKept
<1> QED
  BY <1>0, <1>21, <1>24, <1>25, <1>30

-----------------------------------------------------------------------------
(* What a context waits for *)

\* The requests of a context in one line, with those that wait for no others first.
Quick(s) == {r \in immediate : r.file = s}
line == [s \in Contexts |-> SetToSeq(Quick(s)) \o queue[s]]

LineOK ==
  /\ QueueOK /\ NowOK /\ AskedOK(line)
  /\ \A s \in Contexts : Range(line[s]) = Quick(s) \cup Range(queue[s])

\* Nothing before or after a sequence.
LEMMA NothingAdded ==
  ASSUME NEW s, IsSeq(s)
  PROVE  s \o <<>> = s /\ <<>> \o s = s
  BY ConcatEmptySeq DEF IsSeq

\* One sequence after another, and a third one.
LEMMA Associative ==
  ASSUME NEW u, NEW v, NEW w, IsSeq(u), IsSeq(v), IsSeq(w)
  PROVE  (u \o v) \o w = u \o (v \o w)
<1> DEFINE U == (Range(u) \cup Range(v)) \cup Range(w)
<1>1. Range(u) \subseteq U /\ Range(v) \subseteq U /\ Range(w) \subseteq U
  OBVIOUS
<1> HIDE DEF U
<1>2. u \in Seq(U) /\ v \in Seq(U) /\ w \in Seq(U)
  BY <1>1, SeqMonotonic DEF IsSeq
<1> QED
  BY <1>2, ConcatAssociative

\* None or one, in a sequence.
LEMMA ListedOne ==
  /\ SetToSeq({}) = <<>>
  /\ \A r : SetToSeq({r}) = <<r>>
<1>1. SetToSeq({}) = <<>>
  <2> DEFINE q == SetToSeq({})
  <2>1. IsSeq(q) /\ Range(q) = {}
    BY FS_EmptySet, Listed
  <2> HIDE DEF q
  <2>2. q = <<>>
    <3> SUFFICES ASSUME q # <<>>
                 PROVE  FALSE
      OBVIOUS
    <3>1. Head(q) \in Range(q)
      BY <2>1, TailIs
    <3> QED
      BY <2>1, <3>1
  <2> QED
    BY <2>2 DEF q
<1>2. ASSUME NEW r
      PROVE  SetToSeq({r}) = <<r>>
  <2> DEFINE S == {r}
             q == SetToSeq(S)
  <2>1. IsFiniteSet(S) /\ r \in S /\ \A p \in S : p = r
    BY FS_Singleton
  <2> HIDE DEF S
  <2>2. IsSeq(q) /\ Range(q) = S /\ IsInjective(q)
    BY <2>1, Listed
  <2> HIDE DEF q
  <2>3. q \in Seq(S) /\ Len(q) \in Nat /\ DOMAIN q = 1..Len(q)
    BY <2>2, LenProperties DEF IsSeq
  <2>4. q # <<>>
    BY <2>1, <2>2, NoRequest
  <2>5. Len(q) # 0
    BY <2>3, <2>4, EmptySeq
  <2>6. \A i \in 1..Len(q) : q[i] = r
    BY <2>1, <2>3, ElementOfSeq
  <2>7. \A i, j \in 1..Len(q) : i = j
    BY <2>2, <2>3, <2>6 DEF IsInjective
  <2>8. 1 \in 1..Len(q) /\ Len(q) \in 1..Len(q)
    BY <2>3, <2>5
  <2>9. Len(q) = 1
    BY <2>7, <2>8
  <2>10. <<r>> \in Seq(S) /\ Len(<<r>>) = 1 /\ <<r>>[1] = r
    BY <2>1
  <2>11. q = <<r>>
    BY <2>3, <2>6, <2>9, <2>10, SeqEqual
  <2> QED
    BY <2>11 DEF q, S
<1> QED
  BY <1>1, <1>2

\* Immediate requests T of s, before those of a queue.
LEMMA InLine ==
  ASSUME NEW S, NowAsked(S), NEW queues, AskedOK(queues), NEW s \in Contexts,
         NEW T, T = {r \in S : r.file = s}
  PROVE  /\ IsSeq(SetToSeq(T)) /\ Range(SetToSeq(T)) = T
         /\ IsSeq(SetToSeq(T) \o queues[s])
         /\ Range(SetToSeq(T) \o queues[s]) = T \cup Range(queues[s])
         /\ \A r \in Range(SetToSeq(T) \o queues[s]) : RequestOK(s, r)
<1>1. IsFiniteSet(T) /\ \A r \in T : RequestOK(s, r)
  BY FS_Subset DEF NowAsked
<1> DEFINE u == SetToSeq(T)
           v == queues[s]
<1>2. IsSeq(u) /\ Range(u) = T
  BY <1>1, Listed
<1>3. IsSeq(v) /\ \A r \in Range(v) : RequestOK(s, r)
  BY DEF AskedOK
<1> HIDE DEF u, v
<1>4. IsSeq(u \o v) /\ Range(u \o v) = T \cup Range(v)
  BY <1>2, <1>3, ConcatIs
<1> QED
  BY <1>1, <1>2, <1>3, <1>4 DEF u, v

LEMMA LineIs ==
  /\ FlowInv => LineOK
  /\ FlowInv' => LineOK'
<1>1. ASSUME FlowInv
      PROVE  LineOK
  <2>1. QueueOK /\ NowOK
    BY <1>1 DEF FlowInv
  <2>2. ASSUME NEW s \in Contexts
        PROVE  /\ IsSeq(line[s]) /\ \A r \in Range(line[s]) : RequestOK(s, r)
               /\ Range(line[s]) = Quick(s) \cup Range(queue[s])
    <3>1. line[s] = SetToSeq(Quick(s)) \o queue[s]
      BY DEF line
    <3> QED
      BY <2>1, <3>1, InLine DEF QueueOK, NowOK, Quick
  <2> QED
    BY <2>1, <2>2 DEF LineOK, AskedOK
<1>2. ASSUME FlowInv'
      PROVE  LineOK'
  <2>1. QueueOK' /\ NowOK'
    BY <1>2 DEF FlowInv
  <2>2. ASSUME NEW s \in Contexts
        PROVE  /\ IsSeq(line'[s]) /\ \A r \in Range(line'[s]) : RequestOK(s, r)
               /\ Range(line'[s]) = Quick(s)' \cup Range(queue'[s])
    <3>1. line'[s] = SetToSeq(Quick(s)') \o queue'[s]
      BY DEF line
    <3> QED
      BY <2>1, <3>1, InLine DEF QueueOK, NowOK, Quick
  <2> QED
    BY <2>1, <2>2 DEF LineOK, AskedOK
<1> QED
  BY <1>1, <1>2

-----------------------------------------------------------------------------
(* A patient user's view: the inductive invariant *)

\* Column c holds something.
Occ(c) == Occupied(c, shown, place)
Tight == TightRow(columns, shown, place)

\* Column b is column a or next to it.
NearBy(a, b) == (a = b /\ a \in Range(columns)) \/ Beside(columns, a, b) \/ Beside(columns, b, a)
NextIs(a, right, b) == IF right THEN Beside(columns, a, b) ELSE Beside(columns, b, a)

\* The contexts that the requests of context s work on, and their columns.
Works(s) ==
  {w \in Contexts :
     \/ w = s
     \/ \E r \in Range(line[s]) :
          \/ r.op \in {"branch", "remove", "insert"} /\ r.card.home = w
          \/ r.op = "remove" /\ r.move # None /\ r.move.file = w}
At(s) == {ColumnOf(w) : w \in Works(s)}

\* Requests that change nothing of the view: a new file's, or those of a column that is gone.
Light(s) == \E f \in Files : line[s] = <<Creating(f, {})>>
Alive(s) == line[s] # <<>> /\ ~Light(s) /\ (s \in Columns => s \in Range(columns))

OnlyLinks(s) == \A r \in Range(line[s]) : r.op = "links"
Separate(s, t) == \A a \in At(s), b \in At(t) : ~NearBy(a, b)
Apart ==
  \A s, t \in Contexts : s # t /\ Alive(s) /\ Alive(t) =>
    \/ OnlyLinks(s) /\ OnlyLinks(t) /\ ColumnOf(s) = ColumnOf(t)
    \/ Separate(s, t)

\* The queues there are.
MoveTo(f) == [file |-> f, ids |-> server[f]]
IsBranch(s) ==
  s \in Columns /\ \E o \in shown, right \in BOOLEAN :
    line[s] = <<Branching(o, right)>> /\ NextIs(ColumnOf(o.home), right, s)
IsClean(s) ==
  /\ s \in Columns /\ IsInjective(line[s])
  /\ \A i \in 1..Len(line[s]) :
       \/ \E o \in Members(s) : line[s][i] = Removing(o, None)
       \/ /\ i = Len(line[s]) /\ line[s][i].op = "clear"
          /\ \A o \in Members(s) : Removing(o, None) \in Range(line[s])
          /\ s \in Range(columns) => Occ(s)
IsDrop(s) == s \in Files /\ \E o \in Members(s) : line[s] = <<Removing(o, None)>>
IsMove(s) ==
  \E o \in Members(s), f \in Files :
    /\ Live(f) /\ f # s
    /\ \/ line[s] = <<Removing(o, MoveTo(f))>>
       \/ s \in Columns /\ \E g \in Files : line[s] = <<Creating(g, {}), Removing(o, MoveTo(f))>>
IsInsert(s) == s \in Files /\ Live(s) /\ \E o \in shown : o.home # s /\ line[s] = <<Inserting(o)>>
IsFill(s) == s \in Files /\ Live(s) /\ \E ids \in SUBSET Accounts : line[s] = <<Filling(ids)>>
IsDelete(s) == s \in Columns /\ \E f \in Files : place[f] = s /\ line[s] = <<Deleting(f)>>
IsExpand(s) == s \in Files /\ Live(s) /\ line[s] = <<Expanding(s, cluster[s])>>
IsCreate(s) ==
  s \in Columns /\ \E f \in Files, ids \in SUBSET Accounts :
    line[s] = <<Creating(f, ids)>> /\ (ids # {} => place[f] = s)
IsLinks(s) ==
  /\ ColumnOf(s) \in Range(columns) /\ Occ(ColumnOf(s))
  /\ \A r \in Range(line[s]) : \E d \in Columns, t \in Contexts, found \in BOOLEAN :
       /\ r = Linking(ColumnOf(s), d, t, found)
       /\ found => Occ(d) /\ NearBy(ColumnOf(s), d)
Shape(s) ==
  \/ IsBranch(s) \/ IsClean(s) \/ IsDrop(s) \/ IsMove(s) \/ IsInsert(s) \/ IsFill(s)
  \/ IsDelete(s) \/ IsExpand(s) \/ IsCreate(s) \/ IsLinks(s)
Shapes == \A s \in Contexts : line[s] # <<>> => Shape(s) /\ (s \in Columns => s <= made)

\* Where the view and the server differ, an answer is on its way.
RemovalServed(o) ==
  reply[o.home] # None /\ Head(line[o.home]).op = "remove" /\ Head(line[o.home]).card = o
ColumnsAgree ==
  \A o \in shown : o.home \in Columns => o.account \in server[o.home] \/ RemovalServed(o)
Moving(s, f) == \E r \in Range(line[s]) : r.op = "remove" /\ r.move # None /\ r.move.file = f
Unsettled(f) ==
  \/ reply[f] # None /\ Head(line[f]).op \in {"remove", "insert", "fill"}
  \/ \E s \in Contexts : Moving(s, f) \/ (reply[s] # None /\ Head(line[s]) = Deleting(f))
Settled == \A f \in Files : Live(f) => AccountsOf(Members(f)) = server[f] \/ Unsettled(f)
ReplyIs == \A s \in Contexts : reply[s] # None => reply[s] = server[s]
Dropped ==
  \A f \in Files : reply[f] # None /\ Head(line[f]).op = "remove" =>
    server[f] = AccountsOf(Members(f)) \ {Head(line[f]).card.account}
UnmadeEmpty == \A f \in Files : place[f] = None => server[f] = {}

Calm ==
  /\ stuck = {} /\ Tight /\ Shapes /\ Apart
  /\ ColumnsAgree /\ Settled /\ ReplyIs /\ Dropped /\ UnmadeEmpty

-----------------------------------------------------------------------------
(* Columns near each other *)

\* Neighbours are two different columns of the row.
LEMMA BesideIs ==
  ASSUME RowOK, NEW a, NEW b, Beside(columns, a, b)
  PROVE  a \in Range(columns) /\ b \in Range(columns) /\ a # b
<1>1. /\ Len(columns) \in Nat /\ DOMAIN columns = 1..Len(columns)
      /\ \A i \in 1..Len(columns) : columns[i] \in Range(columns)
  BY RowIs
<1>2. PICK i \in 1..(Len(columns) - 1) : columns[i] = a /\ columns[i + 1] = b
  BY DEF Beside
<1>3. i \in 1..Len(columns) /\ i + 1 \in 1..Len(columns) /\ i # i + 1
  BY <1>1, <1>2
<1> QED
  BY <1>1, <1>2, <1>3 DEF RowOK, IsInjective

\* Being near is mutual, and a column of the row is near itself.
LEMMA NearIs ==
  /\ \A a, b : NearBy(a, b) => NearBy(b, a)
  /\ \A a \in Range(columns) : NearBy(a, a)
  BY DEF NearBy

\* Where a column stands in the row.
LEMMA IndexIs ==
  ASSUME RowOK, NEW i \in 1..Len(columns)
  PROVE  Index(columns[i]) = i
<1>1. Len(columns) \in Nat /\ DOMAIN columns = 1..Len(columns)
  BY RowIs
<1>2. \A j \in DOMAIN columns : columns[j] = columns[i] => j = i
  BY <1>1 DEF RowOK, IsInjective
<1> QED
  BY <1>1, <1>2 DEF Index

\* A column that is not an end has a neighbour on each side.
LEMMA NeighbourIs ==
  ASSUME RowOK, NEW c \in Range(columns), c # columns[1], c # columns[Len(columns)],
         NEW right
  PROVE  NextIs(c, right, NextTo(c, right))
<1>1. Len(columns) \in Nat /\ DOMAIN columns = 1..Len(columns)
  BY RowIs
<1>2. PICK i \in 1..Len(columns) : columns[i] = c
  BY <1>1 DEF Range
<1>3. i \in 2..(Len(columns) - 1)
  BY <1>1, <1>2
<1>4. Index(c) = i
  BY <1>2, IndexIs
<1>5. i \in 1..(Len(columns) - 1) /\ i - 1 \in 1..(Len(columns) - 1) /\ i - 1 + 1 = i
  BY <1>1, <1>3
<1> QED
  BY <1>2, <1>4, <1>5 DEF NextIs, NextTo, Beside

\* A column has one neighbour on each side.
LEMMA OnlyNeighbour ==
  ASSUME RowOK, NEW c, NEW d, NEW right, NextIs(c, right, d)
  PROVE  d = NextTo(c, right)
<1>1. Len(columns) \in Nat /\ DOMAIN columns = 1..Len(columns)
  BY RowIs
<1>2. CASE right
  <2>1. PICK i \in 1..(Len(columns) - 1) : columns[i] = c /\ columns[i + 1] = d
    BY <1>2 DEF NextIs, Beside
  <2>2. Index(c) = i
    BY <1>1, <2>1, IndexIs
  <2> QED
    BY <1>2, <2>1, <2>2 DEF NextTo
<1>3. CASE ~right
  <2>1. PICK i \in 1..(Len(columns) - 1) : columns[i] = d /\ columns[i + 1] = c
    BY <1>3 DEF NextIs, Beside
  <2>2. Index(c) = i + 1 /\ i + 1 - 1 = i
    BY <1>1, <2>1, IndexIs
  <2> QED
    BY <1>3, <2>1, <2>2 DEF NextTo
<1> QED
  BY <1>2, <1>3

-----------------------------------------------------------------------------
(* What requests work on *)

\* A card is in a column that holds something, and so is a file.
LEMMA CardIn ==
  ASSUME View, NEW o \in shown
  PROVE  /\ o \in Card /\ o.home \in Contexts /\ o.account \in Accounts
         /\ ColumnOf(o.home) \in Range(columns) /\ ColumnOf(o.home) \in Columns /\ Occ(ColumnOf(o.home))
         /\ o \in Members(o.home)
<1>1. o \in Card /\ o.home \in Contexts /\ o.account \in Accounts /\ ColumnOf(o.home) \in Range(columns)
  BY DEF View, FitsIn, ColumnOf, Card
<1>2. Range(columns) \subseteq Columns
  BY RowIs DEF View
<1>3. Occ(ColumnOf(o.home))
  BY DEF Occ, Occupied, In, ColumnOf
<1> QED
  BY <1>1, <1>2, <1>3 DEF Members, In

LEMMA FileIn ==
  ASSUME View, NEW f \in Files, Live(f) \/ place[f] \in Columns \/ place[f] \in Range(columns)
  PROVE  /\ f \in Contexts /\ f \notin Columns /\ Live(f)
         /\ ColumnOf(f) = place[f] /\ place[f] \in Range(columns) /\ Occ(place[f])
<1>1. Range(columns) \subseteq Columns
  BY RowIs DEF View
<1>2. f \in Contexts /\ f \notin Columns /\ place[f] \in Range(columns)
  BY <1>1, FlowAssumption DEF View, FitsIn, Live, Contexts
<1> QED
  BY <1>1, <1>2 DEF ColumnOf, Occ, Occupied, Live

\* A column is its own.
LEMMA ColumnIs ==
  ASSUME NEW c \in Columns
  PROVE  c \in Contexts /\ c \notin Files /\ ColumnOf(c) = c
  BY FlowAssumption DEF ColumnOf, Contexts

\* The members of a context that is not in the view are none.
LEMMA NoMembers ==
  ASSUME View, NEW c \in Contexts, ColumnOf(c) \notin Range(columns)
  PROVE  Members(c) = {}
  BY DEF View, FitsIn, Members, In, ColumnOf

\* An occupied column is in the row.
LEMMA OccIn ==
  ASSUME View, NEW c \in Columns, Occ(c)
  PROVE  c \in Range(columns) /\ c # columns[1] /\ c # columns[Len(columns)]
<1>1. c \in Range(columns)
  BY OccupiedIn DEF View, Occ
<1>2. c # columns[1] /\ c # columns[Len(columns)]
  BY DEF View, EndsEmpty, Occ, Occupied, Members, FilesIn
<1> QED
  BY <1>1, <1>2

\* What a context works on beside itself, when it has one request.
LEMMA WorksOne ==
  ASSUME NEW s \in Contexts, NEW r, line[s] = <<r>>
  PROVE  /\ Range(line[s]) = {r}
         /\ s \in Works(s)
         /\ \A w \in Contexts : w \in Works(s) <=>
              \/ w = s
              \/ r.op \in {"branch", "remove", "insert"} /\ r.card.home = w
              \/ r.op = "remove" /\ r.move # None /\ r.move.file = w
<1>1. Range(line[s]) = {r}
  BY OneRequest
<1> QED
  BY <1>1 DEF Works

-----------------------------------------------------------------------------
(* What requests work on is apart *)

\* A patient user acts only on columns that no request's column is near.
LEMMA FreeApart ==
  ASSUME FlowInv, patient, NEW c \in Range(columns), Free(c),
         NEW s \in Contexts, line[s] # <<>>, NEW w \in Works(s)
  PROVE  ~NearBy(ColumnOf(w), c)
<1>0. RowOK /\ LineOK
  BY LineIs DEF FlowInv, View
<1>1. w \in Contexts /\ w \in Busy
  <2>1. w \in Contexts
    BY DEF Works
  <2>2. Range(line[s]) \subseteq Pending
    BY <1>0 DEF LineOK, Quick, Pending
  <2>3. CASE w = s
    <3>1. Quick(s) # {} \/ queue[s] # <<>>
      <4>1. Head(line[s]) \in Range(line[s])
        BY <1>0, TailIs DEF LineOK, AskedOK
      <4> QED
        BY <1>0, <4>1, NoRequest DEF LineOK
    <3> QED
      BY <2>3, <3>1 DEF Busy, Quick
  <2>4. ASSUME NEW r \in Range(line[s]), r.op \in {"branch", "remove", "insert"}, r.card.home = w
        PROVE  w \in Busy
    BY <2>2, <2>4 DEF Busy, HeldCards
  <2>5. ASSUME NEW r \in Range(line[s]), r.op = "remove", r.move # None, r.move.file = w
        PROVE  w \in Busy
    BY <2>1, <2>2, <2>5 DEF Busy, Moves
  <2> QED
    BY <2>1, <2>3, <2>4, <2>5 DEF Works
<1>2. w \notin Near(c)
  BY <1>1 DEF Free
<1>3. Len(columns) \in Nat /\ DOMAIN columns = 1..Len(columns)
  BY <1>0, RowIs
<1>4. PICK i \in 1..Len(columns) : columns[i] = c
  BY <1>3 DEF Range
<1>5. Index(c) = i
  BY <1>0, <1>4, IndexIs
<1>6. \A j \in 1..Len(columns) : columns[j] = ColumnOf(w) => i \notin {j - 1, j, j + 1}
  BY <1>1, <1>2, <1>3, <1>5 DEF Near
<1> SUFFICES ASSUME NearBy(ColumnOf(w), c)
             PROVE  FALSE
  OBVIOUS
<1>7. CASE ColumnOf(w) = c
  BY <1>4, <1>6, <1>7
<1>8. ASSUME Beside(columns, ColumnOf(w), c)
      PROVE  FALSE
  <2>1. PICK j \in 1..(Len(columns) - 1) : columns[j] = ColumnOf(w) /\ columns[j + 1] = c
    BY <1>8 DEF Beside
  <2>2. j + 1 = i /\ j \in 1..Len(columns)
    <3>1. j + 1 \in 1..Len(columns) /\ j \in 1..Len(columns)
      BY <1>3
    <3>2. Index(columns[j + 1]) = j + 1
      BY <1>0, <3>1, IndexIs
    <3> QED
      BY <1>5, <2>1, <3>1, <3>2
  <2> QED
    BY <1>6, <2>1, <2>2
<1>9. ASSUME Beside(columns, c, ColumnOf(w))
      PROVE  FALSE
  <2>1. PICK j \in 1..(Len(columns) - 1) : columns[j] = c /\ columns[j + 1] = ColumnOf(w)
    BY <1>9 DEF Beside
  <2>2. j = i /\ j + 1 \in 1..Len(columns) /\ i = j + 1 - 1
    <3>1. j \in 1..Len(columns) /\ j + 1 \in 1..Len(columns)
      BY <1>3
    <3>2. Index(columns[j]) = j
      BY <1>0, <3>1, IndexIs
    <3> QED
      BY <1>5, <2>1, <3>1, <3>2
  <2> QED
    BY <1>6, <2>1, <2>2
<1> QED
  BY <1>7, <1>8, <1>9 DEF NearBy

\* A queue that is not alive is light, or removed members of a column that is gone.
LEMMA DeadIs ==
  ASSUME View, NEW s \in Contexts, line[s] # <<>>, Shape(s), ~Alive(s), ~Light(s)
  PROVE  s \in Columns /\ s \notin Range(columns) /\ IsClean(s) /\ Members(s) = {}
<1>1. s \in Columns /\ s \notin Range(columns)
  BY DEF Alive
<1>2. ColumnOf(s) = s /\ s \notin Files
  BY <1>1, ColumnIs
<1>3. Members(s) = {}
  BY <1>1, <1>2, NoMembers
<1>4. ~IsBranch(s)
  <2> SUFFICES ASSUME IsBranch(s)
               PROVE  FALSE
    OBVIOUS
  <2>1. PICK a : Beside(columns, a, s) \/ Beside(columns, s, a)
    BY DEF IsBranch, NextIs
  <2> QED
    BY <1>1, <2>1, BesideIs DEF View
<1>5. ~IsDrop(s) /\ ~IsMove(s) /\ ~IsInsert(s) /\ ~IsFill(s) /\ ~IsExpand(s) /\ ~IsLinks(s)
  BY <1>1, <1>2, <1>3 DEF IsDrop, IsMove, IsInsert, IsFill, IsExpand, IsLinks
<1>6. ~IsDelete(s)
  BY <1>1, FileIn DEF IsDelete
<1>7. ~IsCreate(s)
  <2> SUFFICES ASSUME NEW f \in Files, NEW ids \in SUBSET Accounts,
                      line[s] = <<Creating(f, ids)>>, ids # {} => place[f] = s
               PROVE  FALSE
    BY DEF IsCreate
  <2>1. ids # {}
    BY DEF Light
  <2> QED
    BY <1>1, <2>1, FileIn
<1> QED
  BY <1>1, <1>3, <1>4, <1>5, <1>6, <1>7 DEF Shape

\* The requests that are alive work on columns of the row, one of which holds something.
LEMMA ShapeIn ==
  ASSUME View, NEW s \in Contexts, Shape(s), Alive(s)
  PROVE  /\ ColumnOf(s) \in At(s)
         /\ At(s) \subseteq Range(columns)
         /\ \E c \in At(s) : Occ(c)
<1>1. s \in Works(s) /\ ColumnOf(s) \in At(s)
  BY DEF Works, At
<1> SUFFICES /\ \A w \in Works(s) : ColumnOf(w) \in Range(columns)
             /\ \E w \in Works(s) : Occ(ColumnOf(w))
  BY <1>1 DEF At
<1>2. s \in Columns => ColumnOf(s) \in Range(columns)
  BY ColumnIs DEF Alive
<1>3. CASE IsBranch(s)
  <2>1. PICK o \in shown, right \in BOOLEAN : line[s] = <<Branching(o, right)>>
    BY <1>3 DEF IsBranch
  <2>2. Branching(o, right).op = "branch" /\ Branching(o, right).card = o
    BY DEF Branching
  <2>3. o.home \in Works(s) /\ \A w \in Works(s) : w = s \/ w = o.home
    BY <2>1, <2>2, WorksOne, CardIn DEF Works
  <2> QED
    BY <1>2, <1>3, <2>3, CardIn DEF IsBranch
<1>4. CASE IsClean(s)
  <2>1. \A w \in Works(s) : w = s
    <3> SUFFICES ASSUME NEW w \in Works(s), NEW i \in DOMAIN line[s],
                        LET r == line[s][i] IN
                        \/ r.op \in {"branch", "remove", "insert"} /\ r.card.home = w
                        \/ r.op = "remove" /\ r.move # None /\ r.move.file = w
                 PROVE  w = s
      BY DEF Works, Range
    <3>1. i \in 1..Len(line[s])
      BY <1>4 DEF IsClean
    <3>2. PICK o \in Members(s) : line[s][i] = Removing(o, None)
      BY <1>4, <3>1 DEF IsClean
    <3> QED
      BY <3>2 DEF Removing, Members, In
  <2>2. Occ(s)
    <3> SUFFICES ASSUME ~Occ(s)
                 PROVE  FALSE
      OBVIOUS
    <3>1. s \in Columns /\ s \in Range(columns)
      BY <1>4 DEF IsClean, Alive
    <3>2. Members(s) = {}
      BY <3>1 DEF Occ, Occupied, Members
    <3> QED
      BY <1>4, <3>1, <3>2 DEF IsClean, Alive
  <2> QED
    BY <1>1, <1>2, <1>4, <2>1, <2>2, ColumnIs DEF IsClean
<1>5. CASE IsDrop(s)
  <2>1. PICK o \in Members(s) : line[s] = <<Removing(o, None)>>
    BY <1>5 DEF IsDrop
  <2>2. o \in shown /\ o.home = s
    BY DEF Members, In
  <2>3. \A w \in Works(s) : w = s
    BY <2>1, <2>2, WorksOne DEF Works, Removing
  <2> QED
    BY <1>1, <2>2, <2>3, CardIn
<1>6. CASE IsMove(s)
  <2>1. PICK o \in Members(s), f \in Files :
          /\ Live(f)
          /\ \/ line[s] = <<Removing(o, MoveTo(f))>>
             \/ \E g \in Files : line[s] = <<Creating(g, {}), Removing(o, MoveTo(f))>>
    BY <1>6 DEF IsMove
  <2>2. o \in shown /\ o.home = s
    BY DEF Members, In
  <2>3. \A r \in Range(line[s]) : r = Removing(o, MoveTo(f)) \/ r.op = "create"
    <3>1. CASE line[s] = <<Removing(o, MoveTo(f))>>
      BY <3>1, WorksOne
    <3>2. ASSUME NEW g \in Files, line[s] = <<Creating(g, {}), Removing(o, MoveTo(f))>>
          PROVE  \A r \in Range(line[s]) : r = Removing(o, MoveTo(f)) \/ r.op = "create"
      <4>1. Creating(g, {}).op = "create"
        BY DEF Creating
      <4> QED
        BY <3>2, <4>1 DEF Range
    <3> QED
      BY <2>1, <3>1, <3>2
  <2>4. \A w \in Works(s) : w = s \/ w = f
    <3>1. /\ Removing(o, MoveTo(f)).card = o
          /\ Removing(o, MoveTo(f)).move.file = f
      BY DEF Removing, MoveTo
    <3>2. ASSUME NEW w \in Works(s), w # s
          PROVE  w = f
      <4>1. PICK r \in Range(line[s]) :
              \/ r.op \in {"branch", "remove", "insert"} /\ r.card.home = w
              \/ r.op = "remove" /\ r.move # None /\ r.move.file = w
        BY <3>2 DEF Works
      <4>2. r = Removing(o, MoveTo(f))
        BY <2>3, <4>1
      <4> QED
        BY <2>2, <3>1, <3>2, <4>1, <4>2
    <3> QED
      BY <3>2
  <2> QED
    BY <1>1, <2>1, <2>2, <2>4, CardIn, FileIn
<1>7. CASE IsInsert(s)
  <2>1. PICK o \in shown : line[s] = <<Inserting(o)>>
    BY <1>7 DEF IsInsert
  <2>2. \A w \in Works(s) : w = s \/ w = o.home
    BY <2>1, WorksOne DEF Works, Inserting
  <2>3. ColumnOf(s) \in Range(columns) /\ Occ(ColumnOf(s))
    BY <1>7, FileIn DEF IsInsert
  <2> QED
    BY <1>1, <2>2, <2>3, CardIn
<1>8. CASE IsFill(s) \/ IsExpand(s)
  <2>1. PICK r : line[s] = <<r>> /\ r.op \notin {"branch", "remove", "insert"}
    <3>1. \A ids : Filling(ids).op = "fill"
      BY DEF Filling
    <3>2. \A g, n : Expanding(g, n).op = "expand"
      BY DEF Expanding
    <3> QED
      BY <1>8, <3>1, <3>2 DEF IsFill, IsExpand
  <2>2. \A w \in Works(s) : w = s
    BY <2>1, WorksOne DEF Works
  <2>3. ColumnOf(s) \in Range(columns) /\ Occ(ColumnOf(s))
    BY <1>8, FileIn DEF IsFill, IsExpand
  <2> QED
    BY <1>1, <2>2, <2>3
<1>9. CASE IsDelete(s) \/ IsCreate(s)
  <2>1. PICK f, r : /\ line[s] = <<r>> /\ r.op \notin {"branch", "remove", "insert"}
                    /\ s \in Columns /\ f \in Files /\ place[f] = s
    <3>1. CASE IsDelete(s)
      BY <3>1 DEF IsDelete, Deleting
    <3>2. CASE IsCreate(s)
      <4>1. PICK f \in Files, ids \in SUBSET Accounts :
              s \in Columns /\ line[s] = <<Creating(f, ids)>> /\ (ids # {} => place[f] = s)
        BY <3>2 DEF IsCreate
      <4>2. ids # {}
        BY <4>1 DEF Alive, Light
      <4> QED
        BY <4>1, <4>2 DEF Creating
    <3> QED
      BY <1>9, <3>1, <3>2
  <2>2. \A w \in Works(s) : w = s
    BY <2>1, WorksOne DEF Works
  <2>3. ColumnOf(s) = s /\ Occ(s)
    BY <2>1, ColumnIs, FileIn
  <2> QED
    BY <1>1, <1>2, <2>1, <2>2, <2>3
<1>10. CASE IsLinks(s)
  <2>1. \A r \in Range(line[s]) : r.op = "links"
    BY <1>10 DEF IsLinks, Linking
  <2>2. \A w \in Works(s) : w = s
    BY <2>1 DEF Works
  <2> QED
    BY <1>1, <1>10, <2>2 DEF IsLinks
<1> QED
  BY <1>3, <1>4, <1>5, <1>6, <1>7, <1>8, <1>9, <1>10 DEF Shape

\* Only links of one column work on the same column.
LEMMA Clash ==
  ASSUME View, Apart, Shapes, NEW s \in Contexts, NEW t \in Contexts, s # t, Alive(s), Alive(t),
         NEW c \in At(s), c \in At(t)
  PROVE  OnlyLinks(s) /\ OnlyLinks(t) /\ ColumnOf(s) = ColumnOf(t)
<1>1. Shape(s)
  BY DEF Shapes, Alive
<1>2. c \in Range(columns)
  BY <1>1, ShapeIn
<1> QED
  BY <1>2, NearIs DEF Apart, Separate

\* In a row that is not packed, there is only one thing that requests work on.
LEMMA Alone ==
  ASSUME View, Apart, Shapes, Tight, NEW s \in Contexts, NEW t \in Contexts, s # t,
         Alive(s), Alive(t), ~\A i \in 2..(Len(columns) - 1) : Occ(columns[i])
  PROVE  OnlyLinks(s) /\ OnlyLinks(t) /\ ColumnOf(s) = ColumnOf(t)
<1>1. Shape(s) /\ Shape(t)
  BY DEF Shapes, Alive
<1>2. PICK c \in At(s) : Occ(c)
  BY <1>1, ShapeIn
<1>3. PICK d \in At(t) : Occ(d)
  BY <1>1, ShapeIn
<1>4. c \in Columns /\ d \in Columns
  BY <1>1, ShapeIn, RowIs DEF View
<1>5. c = d
  BY <1>2, <1>3, <1>4 DEF Tight, TightRow, Occ
<1> QED
  BY <1>2, <1>3, <1>5, Clash

\* Nothing that context w shows has changed.
Steady(w) ==
  /\ Members(w)' = Members(w)
  /\ w \in Files => place'[w] = place[w] /\ cluster'[w] = cluster[w]

\* Columns that were not in the row are new.
NewOnes == \A c \in Range(columns') : c \in Range(columns) \/ c > made

\* How a pruned row stands to the row before.
RowStep ==
  /\ \A c \in Range(columns) :
       c \in {columns[1], columns[Len(columns)]} \/ Occ(c)' => c \in Range(columns')
  /\ \A a, b \in Range(columns') : Beside(columns, a, b) => Beside(columns', a, b)
  /\ \A a, b \in Range(columns) : Beside(columns', a, b) =>
       \/ Beside(columns, a, b)
       \/ \E d, e \in Range(columns) \ Range(columns') : Beside(columns, a, d) /\ Beside(columns, e, b)

Packed == \A i \in 2..(Len(columns) - 1) : Occ(columns[i])

\* A queue that does not change, and nothing that it works on, keeps its shape.
LEMMA ShapeKept ==
  ASSUME View, View', server \in [Contexts -> SUBSET Accounts],
         NEW s \in Contexts, Shape(s), Alive(s), line'[s] = line[s],
         \A w \in Contexts : ColumnOf(w) \in At(s) => Steady(w) /\ server'[w] = server[w],
         At(s) \subseteq Range(columns'),
         \A a, b \in Range(columns') : Beside(columns, a, b) => Beside(columns', a, b),
         \A d \in Columns : (\E a \in At(s) : NearBy(a, d)) /\ Occ(d) => Occ(d)' /\ d \in Range(columns')
  PROVE  Shape(s)'
<1>1. s \in Works(s) /\ ColumnOf(s) \in At(s) /\ \A w \in Works(s) : ColumnOf(w) \in At(s)
  BY DEF Works, At
<1>16. Works(s) \subseteq Contexts
  BY DEF Works
<1>17. \A w \in Works(s) : Steady(w) /\ server'[w] = server[w]
  BY <1>1, <1>16
<1>2. \A w \in Works(s) : ColumnOf(w)' = ColumnOf(w)
  BY <1>17 DEF Steady, ColumnOf
<1>3. \A o \in shown : o.home \in Works(s) => o \in shown' /\ ColumnOf(o.home)' = ColumnOf(o.home)
  <2> SUFFICES ASSUME NEW o \in shown, o.home \in Works(s)
               PROVE  o \in shown'
    BY <1>2
  <2>1. o \in Members(o.home)
    BY CardIn
  <2>2. Members(o.home)' = Members(o.home)
    BY <1>17 DEF Steady
  <2> QED
    BY <2>1, <2>2 DEF Members, In
<1>4. Members(s)' = Members(s)
  BY <1>1, <1>17 DEF Steady
<1>5. \A f \in Files : f \in Works(s) /\ Live(f) => Live(f)' /\ MoveTo(f)' = MoveTo(f)
  BY <1>17 DEF Steady, Live, MoveTo
<1>6. \A right : \A a, b \in At(s) : NextIs(a, right, b) => NextIs(a, right, b)'
  BY DEF NextIs
<1>7. CASE IsBranch(s)
  <2>1. PICK o \in shown, right \in BOOLEAN :
          line[s] = <<Branching(o, right)>> /\ NextIs(ColumnOf(o.home), right, s)
    BY <1>7 DEF IsBranch
  <2>2. s \in Columns /\ s = ColumnOf(s)
    BY <1>7, ColumnIs DEF IsBranch
  <2>3. o.home \in Works(s)
    BY <2>1, WorksOne, CardIn DEF Branching
  <2>4. NextIs(ColumnOf(o.home), right, s)'
    BY <1>1, <1>6, <2>1, <2>2, <2>3, <1>3
  <2>5. o \in shown' /\ line'[s] = <<Branching(o, right)>>
    BY <1>3, <2>1, <2>3
  <2>6. IsBranch(s)'
    BY <2>2, <2>4, <2>5 DEF IsBranch
  <2> QED
    BY <2>6 DEF Shape
<1>8. CASE IsClean(s)
  <2>1. s \in Columns /\ s = ColumnOf(s) /\ s \in Range(columns)
    BY <1>8, ColumnIs DEF IsClean, Alive
  <2>2. Occ(s) => Occ(s)'
    BY <1>1, <2>1, NearIs
  <2>3. IsClean(s)'
    BY <1>4, <1>8, <2>1, <2>2 DEF IsClean
  <2> QED
    BY <2>3 DEF Shape
<1>9. CASE IsDrop(s)
  <2>1. IsDrop(s)'
    BY <1>4, <1>9 DEF IsDrop
  <2> QED
    BY <2>1 DEF Shape
<1>10. CASE IsMove(s)
  <2>1. PICK o \in Members(s), f \in Files :
          /\ Live(f) /\ f # s
          /\ \/ line[s] = <<Removing(o, MoveTo(f))>>
             \/ s \in Columns /\ \E g \in Files : line[s] = <<Creating(g, {}), Removing(o, MoveTo(f))>>
    BY <1>10 DEF IsMove
  <2>2. f \in Works(s)
    <3>1. Removing(o, MoveTo(f)) \in Range(line[s])
      <4>1. CASE line[s] = <<Removing(o, MoveTo(f))>>
        BY <4>1, OneRequest
      <4>2. ASSUME NEW g \in Files, line[s] = <<Creating(g, {}), Removing(o, MoveTo(f))>>
            PROVE  Removing(o, MoveTo(f)) \in Range(line[s])
        <5>1. 2 \in DOMAIN line[s] /\ line[s][2] = Removing(o, MoveTo(f))
          BY <4>2
        <5> QED
          BY <5>1 DEF Range
      <4> QED
        BY <2>1, <4>1, <4>2
    <3>2. LET r == Removing(o, MoveTo(f)) IN r.op = "remove" /\ r.move = MoveTo(f) /\ MoveTo(f).file = f
      BY DEF Removing, MoveTo
    <3>4. f \in Contexts
      BY DEF Contexts
    <3>5. MoveTo(f) # None
      BY <3>4, FlowAssumption DEF MoveTo
    <3> QED
      BY <3>1, <3>2, <3>4, <3>5 DEF Works
  <2>3. Live(f)' /\ MoveTo(f)' = MoveTo(f)
    BY <1>5, <2>1, <2>2
  <2>4. IsMove(s)'
    BY <1>4, <2>1, <2>3 DEF IsMove
  <2> QED
    BY <2>4 DEF Shape
<1>11. CASE IsInsert(s)
  <2>1. PICK o \in shown : o.home # s /\ line[s] = <<Inserting(o)>>
    BY <1>11 DEF IsInsert
  <2>2. o.home \in Works(s)
    BY <2>1, WorksOne, CardIn DEF Inserting
  <2>3. IsInsert(s)'
    BY <1>1, <1>3, <1>5, <1>11, <2>1, <2>2 DEF IsInsert
  <2> QED
    BY <2>3 DEF Shape
<1>12. CASE IsFill(s)
  <2>1. IsFill(s)'
    BY <1>1, <1>5, <1>12 DEF IsFill
  <2> QED
    BY <2>1 DEF Shape
<1>13. CASE IsDelete(s) \/ IsCreate(s)
  <2>1. \A f \in Files : s \in Columns /\ place[f] = s => place'[f] = s
    <3> SUFFICES ASSUME NEW f \in Files, s \in Columns, place[f] = s
                 PROVE  place'[f] = s
      OBVIOUS
    <3>1. ColumnOf(f) \in At(s) /\ f \in Contexts
      BY <1>1, FileIn, ColumnIs
    <3> QED
      BY <3>1 DEF Steady
  <2>2. IsDelete(s)' \/ IsCreate(s)'
    BY <1>13, <2>1 DEF IsDelete, IsCreate
  <2> QED
    BY <2>2 DEF Shape
<1>14. CASE IsExpand(s)
  <2>1. cluster'[s] = cluster[s]
    BY <1>1, <1>14, <1>17 DEF IsExpand, Steady
  <2>2. IsExpand(s)'
    BY <1>1, <1>5, <1>14, <2>1 DEF IsExpand
  <2> QED
    BY <2>2 DEF Shape
<1>15. CASE IsLinks(s)
  <2>1. ColumnOf(s)' = ColumnOf(s) /\ ColumnOf(s) \in Range(columns') /\ ColumnOf(s) \in Columns
    BY <1>1, <1>2, <1>15, RowIs DEF IsLinks, View
  <2>2. Occ(ColumnOf(s))'
    BY <1>1, <1>15, <2>1, NearIs DEF IsLinks
  <2>3. \A d \in Columns : NearBy(ColumnOf(s), d) /\ Occ(d) => NearBy(ColumnOf(s), d)' /\ Occ(d)'
    BY <1>1, <2>1 DEF NearBy
  <2>4. IsLinks(s)'
    BY <1>15, <2>1, <2>2, <2>3 DEF IsLinks
  <2> QED
    BY <2>4 DEF Shape
<1> QED
  BY <1>7, <1>8, <1>9, <1>10, <1>11, <1>12, <1>13, <1>14, <1>15 DEF Shape

\* In a packed row a column that requests work on gets no new neighbour, unless the view
\* changed right beside it.
LEMMA NearKept ==
  ASSUME RowOK, RowStep, Packed, NEW Z,
         \A c \in Columns \ Z : Occ(c) => Occ(c)',
         NEW a \in Range(columns), NEW b \in Range(columns),
         \A z \in Z : ~NearBy(a, z), NearBy(a, b)'
  PROVE  NearBy(a, b)
<1> SUFFICES ASSUME ~NearBy(a, b)
             PROVE  FALSE
  OBVIOUS
<1>1. a # b
  BY NearIs
<1>2. PICK d \in Range(columns) \ Range(columns') : Beside(columns, a, d) \/ Beside(columns, d, a)
  <2>1. CASE Beside(columns', a, b)
    BY <2>1 DEF RowStep, NearBy
  <2>2. CASE Beside(columns', b, a)
    BY <2>2 DEF RowStep, NearBy
  <2> QED
    BY <1>1, <2>1, <2>2 DEF NearBy
<1>3. d \notin {columns[1], columns[Len(columns)]} /\ ~Occ(d)'
  BY <1>2 DEF RowStep
<1>4. Len(columns) \in Nat /\ DOMAIN columns = 1..Len(columns) /\ Range(columns) \subseteq Columns
  BY RowIs
<1>5. Occ(d)
  <2>1. PICK i \in 1..Len(columns) : columns[i] = d
    BY <1>2, <1>4 DEF Range
  <2>2. i \in 2..(Len(columns) - 1)
    BY <1>3, <1>4, <2>1
  <2> QED
    BY <2>1, <2>2 DEF Packed
<1>6. NearBy(a, d)
  BY <1>2 DEF NearBy
<1> QED
  BY <1>2, <1>3, <1>4, <1>5, <1>6

\* The row may be pruned if it is packed, or if no two requests are left that could come
\* near each other.
Kept(T) ==
  \/ Packed \/ columns' = columns
  \/ /\ \A s \in Contexts \ T : Alive(s) => At(s) \subseteq Range(columns')
     /\ \A s \in Contexts \ T, x \in T : ~(Alive(s) /\ Alive(x)')

\* The queues of the contexts in T change, and the view in the columns of Z; no other
\* request works near those.
Change(T, Z) ==
  /\ T \subseteq Contexts /\ Z \subseteq Range(columns)
  /\ made <= made' /\ NewOnes
  /\ \A s \in Contexts \ T : line'[s] = line[s]
  /\ \A s \in Contexts \ T : Alive(s) => \A a \in At(s), z \in Z : ~NearBy(a, z)
  /\ \A w \in Contexts : ColumnOf(w) \in Range(columns) \ Z => Steady(w) /\ server'[w] = server[w]
  /\ \A x \in T : line'[x] # <<>> => Shape(x)' /\ (x \in Columns => x <= made')
  /\ \A x \in T : Alive(x)' => At(x)' \subseteq Z
  /\ \A x, y \in T : x # y /\ Alive(x)' /\ Alive(y)' =>
       OnlyLinks(x)' /\ OnlyLinks(y)' /\ ColumnOf(x)' = ColumnOf(y)'
  /\ \/ RowStep /\ Kept(T)
     \/ \A s \in Contexts \ T : ~Alive(s)

LEMMA ShapesStep ==
  ASSUME View, View', server \in [Contexts -> SUBSET Accounts], Tight, Shapes, Apart,
         NEW T, NEW Z, Change(T, Z)
  PROVE  Shapes' /\ Apart'
<1>1. Range(columns) \subseteq Columns /\ RowOK /\ made \in Nat
  BY RowIs DEF View, RowOK, Columns
<1>2. \A c \in Columns \ Z : Occ(c) => Occ(c)'
  <2> SUFFICES ASSUME NEW c \in Columns \ Z, Occ(c)
               PROVE  Occ(c)'
    OBVIOUS
  <2>1. c \in Range(columns)
    BY OccIn
  <2>2. CASE In(c, shown) # {}
    <3>1. c \in Contexts /\ ColumnOf(c) = c
      BY ColumnIs
    <3>2. Members(c)' = Members(c)
      BY <2>1, <3>1 DEF Change, Steady
    <3> QED
      BY <2>2, <3>2 DEF Members, Occ, Occupied
  <2>3. ASSUME NEW f \in Files, place[f] = c
        PROVE  Occ(c)'
    <3>1. f \in Contexts /\ ColumnOf(f) = c
      BY <2>3, FileIn
    <3>2. place'[f] = place[f]
      BY <2>1, <3>1 DEF Change, Steady
    <3> QED
      BY <2>3, <3>2 DEF Occ, Occupied
  <2> QED
    BY <2>2, <2>3 DEF Occ, Occupied
<1>3. ASSUME NEW s \in Contexts \ T, Alive(s)
      PROVE  /\ Shape(s)' /\ At(s)' = At(s) /\ Alive(s)' /\ (OnlyLinks(s) => OnlyLinks(s)')
             /\ ColumnOf(s)' = ColumnOf(s)
  <2>0. RowStep /\ Kept(T)
    BY <1>3 DEF Change
  <2>1. Shape(s) /\ ColumnOf(s) \in At(s) /\ At(s) \subseteq Range(columns)
    BY <1>3, ShapeIn DEF Shapes, Alive
  <2>2. \A a \in At(s), z \in Z : ~NearBy(a, z)
    BY <1>3 DEF Change
  <2>3. \A a \in At(s) : a \notin Z
    BY <2>1, <2>2, NearIs
  <2>4. \A w \in Contexts : ColumnOf(w) \in At(s) => Steady(w) /\ server'[w] = server[w]
    BY <2>1, <2>3 DEF Change
  <2>5. At(s) \subseteq Range(columns')
    <3>1. CASE Packed
      <4> SUFFICES ASSUME NEW a \in At(s), a \notin {columns[1], columns[Len(columns)]}
                   PROVE  a \in Range(columns')
        BY <2>0, <2>1 DEF RowStep
      <4>1. Len(columns) \in Nat /\ DOMAIN columns = 1..Len(columns)
        BY <1>1, RowIs
      <4>2. PICK i \in 1..Len(columns) : columns[i] = a
        BY <2>1, <4>1 DEF Range
      <4>3. i \in 2..(Len(columns) - 1)
        BY <4>1, <4>2
      <4>4. Occ(a)
        BY <3>1, <4>2, <4>3 DEF Packed
      <4>5. Occ(a)'
        BY <1>1, <1>2, <2>1, <2>3, <4>4
      <4> QED
        BY <2>0, <2>1, <4>5 DEF RowStep
    <3>2. CASE columns' = columns
      BY <2>1, <3>2
    <3> QED
      BY <1>3, <2>0, <3>1, <3>2 DEF Kept
  <2>6. line'[s] = line[s]
    BY DEF Change
  <2>7. \A d \in Columns : (\E a \in At(s) : NearBy(a, d)) /\ Occ(d) => Occ(d)' /\ d \in Range(columns')
    <3> SUFFICES ASSUME NEW d \in Columns, NEW a \in At(s), NearBy(a, d), Occ(d)
                 PROVE  Occ(d)' /\ d \in Range(columns')
      OBVIOUS
    <3>1. Occ(d)' /\ d \in Range(columns)
      BY <1>2, <2>2, OccIn
    <3> QED
      BY <2>0, <3>1 DEF RowStep
  <2>8. Shape(s)'
    BY <1>3, <2>0, <2>1, <2>4, <2>5, <2>6, <2>7, ShapeKept DEF RowStep
  <2>9. Works(s)' = Works(s)
    BY <2>6 DEF Works
  <2>10. \A w \in Works(s) : ColumnOf(w)' = ColumnOf(w)
    <3> SUFFICES ASSUME NEW w \in Works(s)
                 PROVE  ColumnOf(w)' = ColumnOf(w)
      OBVIOUS
    <3>1. w \in Contexts /\ ColumnOf(w) \in At(s)
      BY DEF Works, At
    <3> QED
      BY <2>4, <3>1 DEF Steady, ColumnOf
  <2>11. At(s)' = At(s)
    BY <2>9, <2>10 DEF At
  <2>12. ColumnOf(s)' = ColumnOf(s)
    BY <2>10 DEF Works
  <2>13. Alive(s)'
    <3>1. s \in Columns => s \in Range(columns')
      BY <2>1, <2>5, ColumnIs
    <3> QED
      BY <1>3, <2>6, <3>1 DEF Alive, Light
  <2> QED
    BY <2>6, <2>8, <2>11, <2>12, <2>13 DEF OnlyLinks
<1>4. ASSUME NEW s \in Contexts \ T, line'[s] # <<>>
      PROVE  Shape(s)' /\ (s \in Columns => s <= made') /\ (Alive(s)' => Alive(s))
  <2>1. line'[s] = line[s] /\ Shape(s) /\ (s \in Columns => s <= made /\ s \in Nat)
    BY <1>4 DEF Change, Shapes, Columns
  <2>2. s \in Columns => s <= made'
    <3>1. made' \in Nat /\ made <= made'
      BY DEF Change, View, RowOK, Columns
    <3> QED
      BY <1>1, <2>1, <3>1
  <2>3. CASE Alive(s)
    BY <1>3, <2>2, <2>3
  <2>4. CASE Light(s)
    <3>1. s \in Columns
      <4>1. PICK f \in Files : line[s] = <<Creating(f, {})>>
        BY <2>4 DEF Light
      <4>2. Creating(f, {}).op = "create" /\ Range(line[s]) = {Creating(f, {})}
        BY <4>1, OneRequest DEF Creating
      <4>3. Len(line[s]) = 1 /\ line[s][1] = Creating(f, {})
        BY <4>1
      <4>8. line[s][1].op = "create"
        BY <4>2, <4>3
      <4>9. \A r : line[s] = <<r>> => r.op = "create"
        BY <4>8
      <4>4. ~IsDrop(s)
        <5>1. \A o : Removing(o, None).op # "create"
          BY DEF Removing
        <5> QED
          BY <4>9, <5>1 DEF IsDrop
      <4>5. s \notin Columns => ~IsMove(s)
        <5>1. \A o, m : Removing(o, m).op # "create"
          BY DEF Removing
        <5> QED
          BY <4>9, <5>1 DEF IsMove
      <4>6. ~IsInsert(s) /\ ~IsFill(s) /\ ~IsExpand(s)
        <5>1. \A o : Inserting(o).op # "create"
          BY DEF Inserting
        <5>2. \A ids : Filling(ids).op # "create"
          BY DEF Filling
        <5>3. \A g, n : Expanding(g, n).op # "create"
          BY DEF Expanding
        <5> QED
          BY <4>9, <5>1, <5>2, <5>3 DEF IsInsert, IsFill, IsExpand
      <4>7. ~IsLinks(s)
        BY <4>2 DEF IsLinks, Linking
      <4> QED
        BY <2>1, <4>4, <4>5, <4>6, <4>7 DEF Shape, IsBranch, IsClean, IsDelete, IsCreate
    <3>2. IsCreate(s)'
      BY <2>1, <2>4, <3>1 DEF Light, IsCreate
    <3>3. ~Alive(s)'
      BY <2>1, <2>4 DEF Light, Alive
    <3> QED
      BY <2>2, <3>2, <3>3 DEF Shape
  <2>5. CASE ~Alive(s) /\ ~Light(s)
    <3>1. s \in Columns /\ s \notin Range(columns) /\ IsClean(s) /\ Members(s) = {}
      BY <1>4, <2>1, <2>5, DeadIs
    <3>2. s \notin Range(columns')
      <4>1. s \in Nat /\ ~(s > made)
        BY <1>1, <2>1, <3>1
      <4> QED
        BY <3>1, <4>1 DEF Change, NewOnes
    <3>3. Members(s)' = {}
      <4>1. ColumnOf(s)' = s
        BY <3>1, FlowAssumption DEF ColumnOf
      <4> QED
        BY <3>2, <4>1 DEF View, FitsIn, Members, In, ColumnOf
    <3>4. IsClean(s)'
      BY <2>1, <3>1, <3>2, <3>3 DEF IsClean
    <3> QED
      BY <2>2, <3>1, <3>2, <3>4 DEF Shape, Alive
  <2> QED
    BY <2>3, <2>4, <2>5
<1>5. Shapes'
  BY <1>4 DEF Shapes, Change
<1>6. ASSUME NEW s \in Contexts \ T, NEW t \in Contexts, s # t, Alive(s)', Alive(t)'
      PROVE  \/ OnlyLinks(s)' /\ OnlyLinks(t)' /\ ColumnOf(s)' = ColumnOf(t)'
             \/ Separate(s, t)'
  <2>1. Alive(s) /\ Shape(s) /\ At(s) \subseteq Range(columns)
    <3>1. Alive(s)
      BY <1>4, <1>6 DEF Alive
    <3> QED
      BY <3>1, ShapeIn DEF Shapes, Alive
  <2>0. RowStep /\ Kept(T)
    BY <2>1 DEF Change
  <2>2. \A a \in At(s), z \in Z : ~NearBy(a, z)
    BY <2>1 DEF Change
  <2>3. ASSUME NEW B \in SUBSET Range(columns), \A a \in At(s), b \in B : ~NearBy(a, b),
               Packed \/ columns' = columns
        PROVE  \A a \in At(s), b \in B : ~NearBy(a, b)'
    <3>1. CASE Packed
      <4> SUFFICES ASSUME NEW a \in At(s), NEW b \in B, NearBy(a, b)'
                   PROVE  FALSE
        OBVIOUS
      <4>1. NearBy(a, b)
        BY <1>1, <1>2, <2>0, <2>1, <2>2, <3>1, NearKept DEF Change
      <4> QED
        BY <2>3, <4>1
    <3>2. CASE columns' = columns
      BY <2>3, <3>2 DEF NearBy
    <3> QED
      BY <2>3, <3>1, <3>2
  <2>4. CASE t \in T
    <3>1. At(t)' \subseteq Z /\ Z \subseteq Range(columns)
      BY <1>6, <2>4 DEF Change
    <3>2. Packed \/ columns' = columns
      BY <1>6, <2>0, <2>1, <2>4 DEF Kept
    <3>3. \A a \in At(s), b \in Z : ~NearBy(a, b)'
      BY <2>2, <2>3, <3>1, <3>2
    <3> QED
      BY <1>3, <2>1, <3>1, <3>3 DEF Separate
  <2>5. CASE t \notin T
    <3>1. Alive(t) /\ Shape(t) /\ At(t) \subseteq Range(columns)
      <4>1. Alive(t)
        BY <1>4, <1>6, <2>5 DEF Alive
      <4> QED
        BY <4>1, ShapeIn DEF Shapes, Alive
    <3>2. CASE OnlyLinks(s) /\ OnlyLinks(t) /\ ColumnOf(s) = ColumnOf(t)
      BY <1>3, <2>1, <2>5, <3>1, <3>2
    <3>3. CASE ~(OnlyLinks(s) /\ OnlyLinks(t) /\ ColumnOf(s) = ColumnOf(t))
      <4>1. Separate(s, t)
        BY <1>6, <2>1, <3>1, <3>3 DEF Apart
      <4>2. Packed
        BY <1>6, <2>1, <3>1, <3>3, Alone DEF Packed
      <4>3. \A a \in At(s), b \in At(t) : ~NearBy(a, b)'
        BY <2>3, <3>1, <4>1, <4>2 DEF Separate
      <4>4. At(s)' = At(s) /\ At(t)' = At(t)
        BY <1>3, <2>1, <2>5, <3>1
      <4> QED
        BY <4>3, <4>4 DEF Separate
    <3> QED
      BY <3>2, <3>3
  <2> QED
    BY <2>4, <2>5
<1>7. ASSUME NEW s \in Contexts, NEW t \in Contexts, s # t, Alive(s)', Alive(t)'
      PROVE  \/ OnlyLinks(s)' /\ OnlyLinks(t)' /\ ColumnOf(s)' = ColumnOf(t)'
             \/ Separate(s, t)'
  <2>1. CASE s \notin T
    BY <1>6, <1>7, <2>1
  <2>2. CASE s \in T /\ t \notin T
    <3>1. \/ OnlyLinks(t)' /\ OnlyLinks(s)' /\ ColumnOf(t)' = ColumnOf(s)'
          \/ Separate(t, s)'
      BY <1>6, <1>7, <2>2
    <3>2. Separate(t, s)' => Separate(s, t)'
      BY DEF Separate, NearBy
    <3> QED
      BY <3>1, <3>2
  <2>3. CASE s \in T /\ t \in T
    BY <1>7, <2>3 DEF Change
  <2> QED
    BY <2>1, <2>2, <2>3
<1>8. Apart'
  BY <1>7 DEF Apart
<1> QED
  BY <1>5, <1>8

-----------------------------------------------------------------------------
(* The row after a step *)

\* The ends are different columns, and hold nothing.
LEMMA EndsAre ==
  ASSUME View
  PROVE  /\ columns[1] \in Range(columns) /\ columns[Len(columns)] \in Range(columns)
         /\ columns[1] # columns[Len(columns)]
         /\ ~Occ(columns[1]) /\ ~Occ(columns[Len(columns)])
<1>1. Len(columns) \in Nat /\ DOMAIN columns = 1..Len(columns) /\ Len(columns) >= 3 /\ RowOK
  BY RowIs DEF View, RowOK
<1>2. 1 \in DOMAIN columns /\ Len(columns) \in DOMAIN columns /\ 1 # Len(columns)
  BY <1>1
<1>3. columns[1] \in Range(columns) /\ columns[Len(columns)] \in Range(columns)
  BY <1>2 DEF Range
<1>4. columns[1] # columns[Len(columns)]
  BY <1>1, <1>2 DEF RowOK, IsInjective
<1>5. ~Occ(columns[1]) /\ ~Occ(columns[Len(columns)])
  BY DEF View, EndsEmpty, Occ, Occupied, Members, FilesIn
<1> QED
  BY <1>3, <1>4, <1>5

\* A row that is pruned, when one more of its columns may hold something.
LEMMA PruneStep ==
  ASSUME View, View', Prune, NEW t \in Range(columns),
         \A d \in Columns : Occ(d)' => d = t \/ Occ(d)
  PROVE  /\ made <= made' /\ NewOnes /\ RowStep /\ Tight'
         /\ \A c \in Range(columns) :
              c \in Range(columns') => c \in {columns[1], columns[Len(columns)]} \/ Occ(c)'
<1>1. /\ RowOK /\ Range(columns) \subseteq Columns /\ made \in Nat /\ made <= MaxColumns
      /\ Len(columns) \in Nat
  BY RowIs, FlowAssumption DEF View, RowOK, Columns
<1>2. /\ columns \in Seq(1..made) /\ IsInjective(columns) /\ Len(columns) >= 2
      /\ 1..made \subseteq Columns
  BY <1>1, FlowAssumption DEF RowOK, Columns
<1> DEFINE cards == shown'
           places == place'
<1>3. \A d : Occ(d)' <=> Occupied(d, cards, places)
  BY DEF Occ
<1>4. columns' = Pruned(columns, made, cards, places) /\ made' = Newest(columns')
  BY DEF Prune
<1>5. Tight' <=> TightRow(columns', cards, places)
  BY DEF Tight
<1> HIDE DEF cards, places
<1>6. \A c \in Columns : Occupied(c, cards, places) => c \in Range(columns)
  BY <1>3, OccIn
<1>7. /\ OrderKept(columns, made, cards, places, columns')
      /\ ~(Occupied(columns[1], cards, places) /\ Occupied(columns[Len(columns)], cards, places)) =>
           TightRow(columns', cards, places)
  BY <1>1, <1>2, <1>4, <1>6, PrunedOrder
<1>8. columns[1] \in Columns /\ columns[Len(columns)] \in Columns
  BY <1>1, EndsAre
<1>9. Tight'
  BY <1>3, <1>5, <1>7, <1>8, EndsAre
<1>10. \A c \in Range(columns) :
         c \in Range(columns') <=> c \in {columns[1], columns[Len(columns)]} \/ Occ(c)'
  BY <1>3, <1>7 DEF OrderKept
<1>11. made <= made'
  <2>1. columns' \in Seq(1..made') /\ made' \in Nat /\ made \in Nat \ {0}
    BY <1>1, FlowAssumption DEF View, RowOK, Columns
  <2>2. Newest(columns') \in Nat /\ Newest(columns') >= made
    BY <2>1, NewestOf
  <2> QED
    BY <1>1, <1>4, <2>2
<1>12. NewOnes
  BY <1>7 DEF OrderKept, NewOnes
<1>13. RowStep
  BY <1>7, <1>10 DEF OrderKept, RowStep
<1> QED
  BY <1>9, <1>10, <1>11, <1>12, <1>13

\* A row that stays.
LEMMA SameRow ==
  ASSUME View, Tight, Unpruned, \A d \in Columns : Occ(d)' <=> Occ(d)
  PROVE  /\ made <= made' /\ NewOnes /\ RowStep /\ Tight'
<1>1. made \in Nat /\ made' = made /\ columns' = columns
  BY DEF View, RowOK, Columns, Unpruned
<1>2. NewOnes /\ RowStep
  BY <1>1 DEF NewOnes, RowStep
<1>3. Tight'
  <2>1. CASE \A i \in 2..(Len(columns) - 1) : Occ(columns[i])
    <3>1. \A i \in 2..(Len(columns) - 1) : columns[i] \in Columns
      BY RowIs DEF View
    <3>2. \A d \in Columns : Occ(d) => Occupied(d, shown', place')
      BY DEF Occ
    <3>3. \A i \in 2..(Len(columns') - 1) : Occupied(columns'[i], shown', place')
      BY <1>1, <2>1, <3>1, <3>2
    <3> QED
      BY <3>3 DEF Tight, TightRow
  <2>2. CASE ~\A i \in 2..(Len(columns) - 1) : Occ(columns[i])
    <3>1. Len(columns) <= 4 /\ \A c, d \in Columns : Occ(c) /\ Occ(d) => c = d
      BY <2>2 DEF Tight, TightRow, Occ
    <3>2. Len(columns') <= 4 /\ \A c, d \in Columns : Occ(c)' /\ Occ(d)' => c = d
      BY <1>1, <3>1
    <3> QED
      BY <3>2 DEF Tight, TightRow, Occ
  <2> QED
    BY <2>1, <2>2
<1> QED
  BY <1>1, <1>2, <1>3

\* A column of the row that is not an end stands between them.
LEMMA InnerIs ==
  ASSUME RowOK, NEW c \in Range(columns), c # columns[1], c # columns[Len(columns)]
  PROVE  \E i \in 2..(Len(columns) - 1) : columns[i] = c
<1>1. Len(columns) \in Nat /\ DOMAIN columns = 1..Len(columns)
  BY RowIs
<1>2. PICK i \in 1..Len(columns) : columns[i] = c
  BY <1>1 DEF Range
<1>3. i \in 2..(Len(columns) - 1)
  BY <1>1, <1>2
<1> QED
  BY <1>2, <1>3

\* A row pruned before and after a file is placed; if it is packed, the first time changes
\* nothing that matters.
LEMMA PrunedTwice ==
  ASSUME View, View', NEW row, row = Pruned(columns, made, shown, place), Newest(row) \in Columns,
         columns' = Pruned(row, Newest(row), shown', place'), made' = Newest(columns'),
         NEW t \in Range(row), \A d \in Columns : Occ(d)' => d = t \/ Occ(d)
  PROVE  made <= made' /\ NewOnes /\ Tight' /\ (Packed => RowStep)
<1>1. /\ RowOK /\ Range(columns) \subseteq Columns /\ made \in Nat /\ made <= MaxColumns
      /\ Len(columns) \in Nat /\ Len(columns) >= 3 /\ DOMAIN columns = 1..Len(columns)
      /\ columns \in Seq(1..made) /\ IsInjective(columns) /\ 1..made \subseteq Columns
  BY RowIs, FlowAssumption DEF View, RowOK, Columns
<1>2. \A c \in Columns : Occ(c) => c \in Range(columns)
  BY OccIn
<1>3. /\ OrderKept(columns, made, shown, place, row)
      /\ Packed => EndsKept(columns, shown, place, row)
  <2>1. Packed => Occ(columns[2]) /\ columns[2] \in Columns
    <3>1. 2 \in 2..(Len(columns) - 1) /\ 2 \in 1..Len(columns)
      BY <1>1
    <3> QED
      BY <1>1, <3>1, RowIs DEF Packed
  <2>2. \A c \in Columns : Occupied(c, shown, place) => c \in Range(columns)
    BY <1>2 DEF Occ
  <2>3. ~Occupied(columns[1], shown, place) /\ ~Occupied(columns[Len(columns)], shown, place)
    BY EndsAre DEF Occ
  <2>4. Packed => \E c \in Columns : Occupied(c, shown, place)
    BY <2>1 DEF Occ
  <2>5. Len(columns) >= 2
    BY <1>1
  <2> QED
    BY <1>1, <2>2, <2>3, <2>4, <2>5, PrunedOrder
<1> DEFINE n == Newest(row)
           cards == shown'
           places == place'
<1>4. /\ row \in Seq(1..(made + 3)) /\ IsInjective(row) /\ Len(row) >= 3
      /\ \A c \in Columns : Occ(c) => c \in Range(row)
      /\ \A c \in Columns : c \in {row[1], row[Len(row)]} => ~Occ(c)
  <2>1. \A d \in Columns : Occupied(d, shown, place) => d \in Range(columns)
    BY <1>2 DEF Occ
  <2>2. Len(columns) >= 2
    BY <1>1
  <2> QED
    BY <1>1, <2>1, <2>2, PrunedRow DEF Occ
<1>5. /\ n \in Nat /\ n >= made /\ row \in Seq(1..n) /\ Len(row) \in Nat
      /\ DOMAIN row = 1..Len(row) /\ n <= MaxColumns
  <2>1. made \in Nat \ {0} /\ made + 3 \in Nat
    BY <1>1, FlowAssumption DEF RowOK, Columns
  <2>2. n \in Nat /\ n >= made /\ row \in Seq(1..n)
    BY <1>4, <2>1, NewestOf
  <2> QED
    BY <2>2, LenProperties, FlowAssumption DEF Columns
<1>6. columns' = Pruned(row, n, cards, places)
  OBVIOUS
<1>7. \A d : Occ(d)' <=> Occupied(d, cards, places)
  BY DEF Occ
<1>8. Tight' <=> TightRow(columns', cards, places)
  BY DEF Tight
<1> HIDE DEF n, cards, places
<1>9. \A c \in Columns : Occupied(c, cards, places) => c \in Range(row)
  BY <1>4, <1>7
<1>10. /\ OrderKept(row, n, cards, places, columns')
       /\ ~(Occupied(row[1], cards, places) /\ Occupied(row[Len(row)], cards, places)) =>
            TightRow(columns', cards, places)
  <2>1. 1..n \subseteq Columns /\ Len(row) >= 2
    BY <1>4, <1>5, FlowAssumption DEF Columns
  <2> QED
    BY <1>4, <1>5, <1>6, <1>9, <2>1, PrunedOrder
<1>11. Tight'
  <2>1. 1 \in DOMAIN row /\ Len(row) \in DOMAIN row /\ 1 # Len(row)
    BY <1>4, <1>5
  <2>2. row[1] # row[Len(row)]
    BY <1>4, <2>1 DEF IsInjective
  <2>3. row[1] \in Range(row) /\ row[Len(row)] \in Range(row)
    BY <2>1 DEF Range
  <2>4. Range(row) \subseteq 1..n /\ 1..n \subseteq Columns
    BY <1>5, SeqIs, FlowAssumption DEF Columns
  <2> QED
    BY <1>4, <1>7, <1>8, <1>10, <2>2, <2>3, <2>4
<1>12. made <= made'
  <2>1. columns' \in Seq(1..made') /\ made' \in Nat /\ made \in Nat \ {0}
    BY <1>1, FlowAssumption DEF View, RowOK, Columns
  <2>2. Newest(columns') \in Nat /\ Newest(columns') >= made
    BY <2>1, NewestOf
  <2> QED
    BY <1>1, <2>2
<1>13. NewOnes
  <2>1. \A c \in Range(columns') : c \in Range(row) \/ c > n
    BY <1>10 DEF OrderKept
  <2>2. \A c \in Range(columns') : c \in Nat
    BY SeqIs DEF View, RowOK, Columns
  <2>3. \A c \in Range(row) : c \in Range(columns) \/ c > made
    BY <1>3 DEF OrderKept
  <2> QED
    BY <1>1, <1>5, <2>1, <2>2, <2>3 DEF NewOnes
<1>14. ASSUME Packed
       PROVE  RowStep
  <2>1. Range(row) = Range(columns)
    <3>1. \A c \in Range(columns) : c \in {columns[1], columns[Len(columns)]} \/ Occ(c)
      <4> SUFFICES ASSUME NEW c \in Range(columns), c # columns[1], c # columns[Len(columns)]
                   PROVE  Occ(c)
        OBVIOUS
      <4>0. RowOK
        BY <1>1
      <4>1. PICK i \in 2..(Len(columns) - 1) : columns[i] = c
        BY <4>0, InnerIs
      <4> QED
        BY <1>14, <4>1 DEF Packed
    <3>2. Range(row) \subseteq Range(columns)
      BY <1>3, <1>14 DEF EndsKept
    <3>3. \A c \in Range(columns) :
            c \in Range(row) <=> c \in {columns[1], columns[Len(columns)]} \/ Occ(c)
      BY <1>3 DEF OrderKept, Occ
    <3> QED
      BY <3>1, <3>2, <3>3
  <2>2. \A a, b \in Range(columns) : Beside(columns, a, b) <=> Beside(row, a, b)
    <3>1. Range(columns) \ Range(row) = {}
      BY <2>1
    <3> QED
      BY <1>3, <2>1, <3>1 DEF OrderKept
  <2>3. row[1] = columns[1] /\ row[Len(row)] = columns[Len(columns)]
    BY <1>3, <1>14 DEF EndsKept
  <2>4. \A c \in Range(columns) :
          c \in Range(columns') <=> c \in {columns[1], columns[Len(columns)]} \/ Occ(c)'
    BY <1>7, <1>10, <2>1, <2>3 DEF OrderKept
  <2>5. \A a, b \in Range(columns') : Beside(columns, a, b) => Beside(columns', a, b)
    <3>1. \A a, b : Beside(columns, a, b) => a \in Range(columns) /\ b \in Range(columns)
      BY <1>1, BesideIs
    <3> QED
      BY <1>10, <2>2, <3>1 DEF OrderKept
  <2>6. \A a, b \in Range(columns) : Beside(columns', a, b) =>
          \/ Beside(columns, a, b)
          \/ \E d, e \in Range(columns) \ Range(columns') : Beside(columns, a, d) /\ Beside(columns, e, b)
    BY <1>10, <2>1, <2>2 DEF OrderKept
  <2> QED
    BY <2>4, <2>5, <2>6 DEF RowStep
<1> QED
  BY <1>11, <1>12, <1>13, <1>14

-----------------------------------------------------------------------------
(* The first request of a context *)

\* The first request tells which queue it is.
LEMMA HeadIs ==
  ASSUME NEW s \in Contexts, IsSeq(line[s]), line[s] # <<>>, NEW r, r = Head(line[s])
  PROVE  /\ IsBranch(s) => r.op = "branch"
         /\ IsClean(s) => r.op \in {"remove", "clear"}
         /\ IsDrop(s) => r.op = "remove"
         /\ IsMove(s) => r.op \in {"remove", "create"}
         /\ IsInsert(s) => r.op = "insert"
         /\ IsFill(s) => r.op = "fill"
         /\ IsDelete(s) => r.op = "delete"
         /\ IsExpand(s) => r.op = "expand"
         /\ IsCreate(s) => r.op = "create"
         /\ IsLinks(s) => r.op = "links"
<1>1. \A p : line[s] = <<p>> => r = p
  OBVIOUS
<1>2. \A o, m : Removing(o, m).op = "remove"
  BY DEF Removing
<1>3. \A f, ids : Creating(f, ids).op = "create"
  BY DEF Creating
<1>4. IsBranch(s) => r.op = "branch"
  <2>1. \A o, right : Branching(o, right).op = "branch"
    BY DEF Branching
  <2> QED
    BY <1>1, <2>1 DEF IsBranch
<1>5. IsClean(s) => r.op \in {"remove", "clear"}
  <2>1. Len(line[s]) \in Nat /\ Len(line[s]) # 0 /\ r = line[s][1]
    BY EmptySeq, LenProperties DEF IsSeq
  <2>2. 1 \in 1..Len(line[s])
    BY <2>1
  <2> QED
    BY <1>2, <2>1, <2>2 DEF IsClean
<1>6. IsDrop(s) => r.op = "remove"
  BY <1>1, <1>2 DEF IsDrop
<1>7. IsMove(s) => r.op \in {"remove", "create"}
  <2>1. \A p, q : line[s] = <<p, q>> => r = p
    OBVIOUS
  <2> QED
    BY <1>1, <1>2, <1>3, <2>1 DEF IsMove
<1>8. IsInsert(s) => r.op = "insert"
  <2>1. \A o : Inserting(o).op = "insert"
    BY DEF Inserting
  <2> QED
    BY <1>1, <2>1 DEF IsInsert
<1>9. IsFill(s) => r.op = "fill"
  <2>1. \A ids : Filling(ids).op = "fill"
    BY DEF Filling
  <2> QED
    BY <1>1, <2>1 DEF IsFill
<1>10. IsDelete(s) => r.op = "delete"
  <2>1. \A f : Deleting(f).op = "delete"
    BY DEF Deleting
  <2> QED
    BY <1>1, <2>1 DEF IsDelete
<1>11. IsExpand(s) => r.op = "expand"
  <2>1. \A g, n : Expanding(g, n).op = "expand"
    BY DEF Expanding
  <2> QED
    BY <1>1, <2>1 DEF IsExpand
<1>12. IsCreate(s) => r.op = "create"
  BY <1>1, <1>3 DEF IsCreate
<1>13. IsLinks(s) => r.op = "links"
  <2>1. r \in Range(line[s])
    BY TailIs
  <2> QED
    BY <2>1 DEF IsLinks, Linking
<1> QED
  BY <1>4, <1>5, <1>6, <1>7, <1>8, <1>9, <1>10, <1>11, <1>12, <1>13

\* What queue has a first request of each kind.
LEMMA HeadShape ==
  ASSUME LineOK, Shapes, NEW s \in Contexts, line[s] # <<>>, NEW r, r = Head(line[s])
  PROVE  /\ r.op = "branch" => IsBranch(s)
         /\ r.op = "remove" => IsClean(s) \/ IsDrop(s) \/ IsMove(s)
         /\ r.op = "clear" => IsClean(s)
         /\ r.op = "insert" => IsInsert(s)
         /\ r.op = "fill" => IsFill(s)
         /\ r.op = "delete" => IsDelete(s)
         /\ r.op = "expand" => IsExpand(s)
         /\ r.op = "create" => IsCreate(s) \/ IsMove(s)
         /\ r.op = "links" => IsLinks(s)
         /\ r.op # "details"
<1>1. Shape(s) /\ IsSeq(line[s])
  BY DEF Shapes, LineOK, AskedOK
<1>2. /\ IsBranch(s) => r.op = "branch"
      /\ IsClean(s) => r.op \in {"remove", "clear"}
      /\ IsDrop(s) => r.op = "remove"
      /\ IsMove(s) => r.op \in {"remove", "create"}
      /\ IsInsert(s) => r.op = "insert"
      /\ IsFill(s) => r.op = "fill"
      /\ IsDelete(s) => r.op = "delete"
      /\ IsExpand(s) => r.op = "expand"
      /\ IsCreate(s) => r.op = "create"
      /\ IsLinks(s) => r.op = "links"
  BY <1>1, HeadIs
<1> QED
  BY <1>1, <1>2 DEF Shape

\* A file with an immediate request asks for nothing else.
LEMMA QuickIs ==
  ASSUME LineOK, Shapes, NEW s \in Contexts, Quick(s) # {}
  PROVE  /\ queue[s] = <<>> /\ line[s] # <<>>
         /\ IsExpand(s) /\ Quick(s) = {Expanding(s, cluster[s])}
<1> DEFINE u == SetToSeq(Quick(s))
           v == queue[s]
           q == line[s]
<1>1. q = u \o v /\ IsSeq(v)
  BY DEF line, LineOK, QueueOK, AskedOK
<1>2. IsSeq(u) /\ Range(u) = Quick(s)
  BY InLine DEF LineOK, QueueOK, NowOK, Quick
<1>3. \A r \in Quick(s) : Immediate(r)
  BY DEF LineOK, NowOK, NowAsked, Quick
<1> HIDE DEF u, v, q
<1>4. u # <<>>
  BY <1>2, NoRequest
<1>5. q # <<>> /\ Head(q) = Head(u) /\ Head(u) \in Quick(s)
  BY <1>1, <1>2, <1>4, ConcatIs, TailIs
<1>6. IsExpand(s)
  <2> PICK r : r = Head(line[s])
    OBVIOUS
  <2>1. line[s] # <<>> /\ r.op \in {"expand", "details"}
    BY <1>3, <1>5 DEF q, Immediate
  <2> QED
    BY <2>1, HeadShape
<1>7. q = <<Expanding(s, cluster[s])>>
  BY <1>6 DEF IsExpand, q
<1> PICK e : e = Expanding(s, cluster[s])
  OBVIOUS
<1>8. Range(q) = {e}
  BY <1>7, OneRequest
<1>9. Quick(s) \subseteq {e}
  BY <1>8 DEF LineOK, q
<1>10. v = <<>>
  <2> DEFINE U == Range(u) \cup Range(v)
  <2>1. Range(u) \subseteq U /\ Range(v) \subseteq U
    OBVIOUS
  <2> HIDE DEF U
  <2>2. u \in Seq(U) /\ v \in Seq(U)
    BY <1>1, <1>2, <2>1, SeqMonotonic DEF IsSeq
  <2>3. Len(q) = Len(u) + Len(v)
    BY <1>1, <2>2, ConcatProperties
  <2>4. Len(q) = 1
    BY <1>7
  <2>5. Len(u) \in Nat \ {0} /\ Len(v) \in Nat
    BY <1>4, <2>2, EmptySeq, LenProperties
  <2>6. Len(v) = 0
    <3> PICK m \in Nat, n \in Nat : m # 0 /\ m = Len(u) /\ n = Len(v)
      BY <2>5
    <3>1. 1 = m + n
      BY <2>3, <2>4
    <3> QED
      BY <3>1
  <2> QED
    BY <2>2, <2>6, EmptySeq
<1> QED
  BY <1>5, <1>6, <1>9, <1>10 DEF v, q

\* Without one, its requests are those of its queue.
LEMMA NotQuick ==
  ASSUME LineOK, NEW s \in Contexts, Quick(s) = {}
  PROVE  line[s] = queue[s]
<1>1. line[s] = SetToSeq({}) \o queue[s] /\ IsSeq(queue[s])
  BY DEF line, LineOK, QueueOK, AskedOK
<1> QED
  BY <1>1, ListedOne, NothingAdded

\* An answer belongs to a request of the queue.
RepliesOK ==
  \A s \in Contexts : reply[s] # None =>
    /\ line[s] # <<>> /\ Quick(s) = {}
    /\ Head(line[s]).op = "remove" => Head(line[s]).card.account \notin reply[s]

LEMMA Lined ==
  ASSUME FlowInv, Calm
  PROVE  LineOK /\ RepliesOK
<1>1. LineOK
  BY LineIs
<1>2. ASSUME NEW s \in Contexts, reply[s] # None
      PROVE  Quick(s) = {} /\ line[s] = queue[s] /\ queue[s] # <<>>
  <2>1. queue[s] # <<>>
    BY <1>2 DEF FlowInv, ReplyOK
  <2>2. Quick(s) = {}
    BY <1>1, <2>1, QuickIs DEF Calm
  <2> QED
    BY <1>1, <2>1, <2>2, NotQuick
<1> QED
  BY <1>1, <1>2 DEF RepliesOK, FlowInv, ReplyOK

-----------------------------------------------------------------------------
(* Queues *)

\* What requests q of context s work on.
Reach(q, s) ==
  {w \in Contexts :
     \/ w = s
     \/ \E r \in Range(q) :
          \/ r.op \in {"branch", "remove", "insert"} /\ r.card.home = w
          \/ r.op = "remove" /\ r.move # None /\ r.move.file = w}

LEMMA WorksReach == \A s : Works(s) = Reach(line[s], s) /\ Works(s)' = Reach(line'[s], s)
  BY DEF Works, Reach

\* What a single request works on.
LEMMA ReachOne ==
  ASSUME NEW s, NEW r, NEW w \in Reach(<<r>>, s)
  PROVE  \/ w = s
         \/ r.op \in {"branch", "remove", "insert"} /\ r.card.home = w
         \/ r.op = "remove" /\ r.move # None /\ r.move.file = w
<1>1. Range(<<r>>) = {r}
  BY OneRequest
<1> QED
  BY <1>1 DEF Reach

\* What is asked for comes after what was there.
LEMMA AddingIs ==
  ASSUME LineOK, NEW asked, AskedOK(asked), Adding(asked), NEW s \in Contexts
  PROVE  /\ asked[s] = <<>> => line'[s] = line[s]
         /\ line[s] = <<>> => line'[s] = asked[s]
         /\ line[s] # <<>> => line'[s] # <<>> /\ Head(line'[s]) = Head(line[s])
         /\ Range(line[s]) \subseteq Range(line'[s])
<1>1. IsSeq(line[s]) /\ IsSeq(asked[s])
  BY DEF LineOK, AskedOK
<1>2. line'[s] = line[s] \o asked[s]
  <2>1. line'[s] = SetToSeq(Quick(s)) \o (queue[s] \o asked[s])
    BY DEF Adding, line, Quick
  <2>2. line[s] = SetToSeq(Quick(s)) \o queue[s] /\ IsSeq(queue[s])
    BY DEF line, LineOK, QueueOK, AskedOK
  <2>3. IsSeq(SetToSeq(Quick(s)))
    BY InLine DEF LineOK, QueueOK, NowOK, Quick
  <2> DEFINE u == SetToSeq(Quick(s))
             q == queue[s]
             a == asked[s]
  <2>4. IsSeq(u) /\ IsSeq(q) /\ IsSeq(a)
    BY <1>1, <2>2, <2>3
  <2>5. line'[s] = u \o (q \o a) /\ line[s] = u \o q
    BY <2>1, <2>2
  <2> HIDE DEF u, q, a
  <2>6. (u \o q) \o a = u \o (q \o a)
    BY <2>4, Associative
  <2> QED
    BY <2>5, <2>6 DEF a
<1>3. asked[s] = <<>> => line'[s] = line[s]
  BY <1>1, <1>2, NothingAdded
<1>4. line[s] = <<>> => line'[s] = asked[s]
  BY <1>1, <1>2, NothingAdded
<1> DEFINE q == line[s]
           a == asked[s]
           b == line'[s]
<1>5. IsSeq(q) /\ IsSeq(a) /\ b = q \o a
  BY <1>1, <1>2
<1> HIDE DEF q, a, b
<1>6. (q # <<>> => b # <<>> /\ Head(b) = Head(q)) /\ Range(q) \subseteq Range(b)
  BY <1>5, ConcatIs
<1> QED
  BY <1>3, <1>4, <1>6 DEF q, b

\* The requests of a file are for one that is in the workspace.
LEMMA FileQueue ==
  ASSUME View, Shapes, NEW f \in Files, line[f] # <<>>
  PROVE  Live(f) /\ Alive(f) /\ Shape(f)
<1>1. f \in Contexts /\ f \notin Columns /\ Shape(f)
  BY FlowAssumption DEF Contexts, Shapes
<1>2. \A o \in Members(f) : Live(f)
  <2> SUFFICES ASSUME NEW o \in Members(f)
               PROVE  Live(f)
    OBVIOUS
  <2>1. o \in shown /\ o.home = f
    BY DEF Members, In
  <2>2. ColumnOf(o.home) \in Columns
    BY <2>1, CardIn
  <2> QED
    BY <2>1, <2>2 DEF ColumnOf, Live
<1>3. ColumnOf(f) \in Range(columns) => Live(f)
  BY RowIs DEF ColumnOf, Live, View
<1>4. Live(f)
  BY <1>1, <1>2, <1>3 DEF Shape, IsBranch, IsClean, IsDrop, IsMove, IsInsert, IsFill, IsDelete,
                          IsExpand, IsCreate, IsLinks
<1>5. ~Light(f)
  <2> SUFFICES ASSUME NEW g \in Files, line[f] = <<Creating(g, {})>>
               PROVE  FALSE
    BY DEF Light
  <2>1. Creating(g, {}).op = "create"
    BY DEF Creating
  <2>2. \A r : line[f] = <<r>> => r.op = "create"
    BY <2>1
  <2>3. ~IsDrop(f) /\ ~IsMove(f)
    <3>1. \A o, m : Removing(o, m).op # "create"
      BY DEF Removing
    <3> QED
      BY <1>1, <2>2, <3>1 DEF IsDrop, IsMove
  <2>4. ~IsInsert(f) /\ ~IsFill(f) /\ ~IsExpand(f)
    <3>1. \A o : Inserting(o).op # "create"
      BY DEF Inserting
    <3>2. \A ids : Filling(ids).op # "create"
      BY DEF Filling
    <3>3. \A e, n : Expanding(e, n).op # "create"
      BY DEF Expanding
    <3> QED
      BY <2>2, <3>1, <3>2, <3>3 DEF IsInsert, IsFill, IsExpand
  <2>5. ~IsLinks(f)
    <3>1. Range(line[f]) = {Creating(g, {})}
      BY OneRequest
    <3> QED
      BY <2>1, <3>1 DEF IsLinks, Linking
  <2> QED
    BY <1>1, <2>3, <2>4, <2>5 DEF Shape, IsBranch, IsClean, IsDelete, IsCreate
<1> QED
  BY <1>1, <1>4, <1>5 DEF Alive

\* A file that is not made yet has no members and no requests.
LEMMA UnmadeIs ==
  ASSUME FlowInv, Calm, Unmade # {}
  PROVE  /\ NewFile \in Files /\ NewFile \in Contexts /\ NewFile \notin Columns
         /\ place[NewFile] = None /\ ColumnOf(NewFile) \notin Range(columns) /\ ~Live(NewFile)
         /\ Members(NewFile) = {} /\ server[NewFile] = {} /\ line[NewFile] = <<>>
<1>1. NewFile \in Files /\ NewFile \in Contexts /\ place[NewFile] = None
  BY NewFileIs
<1> HIDE DEF NewFile
<1>2. NewFile \notin Columns /\ None \notin Columns
  BY <1>1, FlowAssumption DEF Contexts
<1>3. ColumnOf(NewFile) \notin Range(columns) /\ ~Live(NewFile)
  BY <1>1, <1>2, RowIs DEF ColumnOf, Live, FlowInv, View
<1>4. Members(NewFile) = {}
  BY <1>1, <1>3, NoMembers DEF FlowInv
<1>5. line[NewFile] = <<>>
  BY <1>1, <1>3, FileQueue DEF FlowInv, Calm
<1> QED
  BY <1>1, <1>2, <1>3, <1>4, <1>5 DEF Calm, UnmadeEmpty

\* A patient user acts on contexts without requests.
LEMMA FreeQueue ==
  ASSUME FlowInv, patient, NEW s \in Contexts, ColumnOf(s) \in Range(columns), Free(ColumnOf(s))
  PROVE  line[s] = <<>>
<1>1. s \in Works(s)
  BY DEF Works
<1>2. NearBy(ColumnOf(s), ColumnOf(s))
  BY NearIs
<1> QED
  BY <1>1, <1>2, FreeApart

-----------------------------------------------------------------------------
(* What the user does *)

\* The cards are the same, and there may be a new file.
Placing ==
  /\ UNCHANGED <<shown, cluster>>
  /\ \/ place' = place
     \/ Unmade # {} /\ \E d \in Range(columns) : place' = [place EXCEPT ![NewFile] = d]

LEMMA PlacingIs ==
  ASSUME FlowInv, Calm, Placing
  PROVE  /\ \A s : Members(s)' = Members(s)
         /\ \A f \in Files : f # NewFile \/ Unmade = {} => place'[f] = place[f]
         /\ \A f \in Files : place'[f] # place[f] =>
              f = NewFile /\ Unmade # {} /\ place'[f] \in Range(columns)
<1>1. \A s : Members(s)' = Members(s)
  BY DEF Members, In, Placing
<1>2. place \in [Files -> Range(columns) \cup {None, Gone}]
  BY DEF FlowInv, View, FitsIn
<1> QED
  BY <1>1, <1>2 DEF Placing

\* What the view and the server agree on is as before.
LEMMA ActRest ==
  ASSUME FlowInv, Calm, NEW c, Act(c), Placing, NEW asked, AskedOK(asked), Adding(asked)
  PROVE  stuck' = {} /\ ColumnsAgree' /\ Settled' /\ ReplyIs' /\ Dropped' /\ UnmadeEmpty'
<1>1. UNCHANGED <<server, reply, stuck>>
  BY DEF Act
<1>2. \A s \in Contexts : reply[s] # None =>
        line[s] # <<>> /\ line'[s] # <<>> /\ Head(line'[s]) = Head(line[s])
  BY AddingIs, Lined DEF RepliesOK
<1>3. \A s \in Contexts : Range(line[s]) \subseteq Range(line'[s])
  BY AddingIs, LineIs
<1>4. ColumnsAgree'
  <2> SUFFICES ASSUME NEW o \in shown', o.home \in Columns
               PROVE  o.account \in server'[o.home] \/ RemovalServed(o)'
    BY DEF ColumnsAgree
  <2>1. o \in shown /\ o.home \in Contexts
    BY DEF Placing, Contexts
  <2>2. o.account \in server[o.home] \/ RemovalServed(o)
    BY <2>1 DEF Calm, ColumnsAgree
  <2> QED
    BY <1>1, <1>2, <2>1, <2>2 DEF RemovalServed
<1>5. Settled'
  <2> SUFFICES ASSUME NEW f \in Files, Live(f)'
               PROVE  AccountsOf(Members(f)') = server'[f] \/ Unsettled(f)'
    BY DEF Settled, AccountsOf
  <2>1. CASE place'[f] = place[f]
    <3>1. Members(f)' = Members(f) /\ Live(f)
      BY <2>1, PlacingIs DEF Live
    <3>2. AccountsOf(Members(f)) = server[f] \/ Unsettled(f)
      BY <3>1 DEF Calm, Settled
    <3>3. Unsettled(f) => Unsettled(f)'
      <4>1. f \in Contexts
        BY DEF Contexts
      <4>2. \A s \in Contexts : Moving(s, f) => Moving(s, f)'
        BY <1>3 DEF Moving
      <4> QED
        BY <1>1, <1>2, <4>1, <4>2 DEF Unsettled
    <3> QED
      BY <1>1, <3>1, <3>2, <3>3
  <2>2. CASE place'[f] # place[f]
    <3>1. f = NewFile /\ Unmade # {} /\ Members(f)' = Members(f)
      BY <2>2, PlacingIs
    <3>2. Members(f) = {} /\ server[f] = {}
      BY <3>1, UnmadeIs
    <3> QED
      BY <1>1, <3>1, <3>2 DEF AccountsOf
  <2> QED
    BY <2>1, <2>2
<1>6. ReplyIs'
  BY <1>1 DEF Calm, ReplyIs
<1>7. Dropped'
  <2> SUFFICES ASSUME NEW f \in Files, reply'[f] # None, Head(line'[f]).op = "remove"
               PROVE  server'[f] = AccountsOf(Members(f)') \ {Head(line'[f]).card.account}
    BY DEF Dropped, AccountsOf
  <2>1. f \in Contexts /\ Head(line'[f]) = Head(line[f]) /\ reply[f] # None
    BY <1>1, <1>2 DEF Contexts
  <2>2. Members(f)' = Members(f)
    BY PlacingIs
  <2> QED
    BY <1>1, <2>1, <2>2 DEF Calm, Dropped
<1>8. UnmadeEmpty'
  <2> SUFFICES ASSUME NEW f \in Files, place'[f] = None
               PROVE  server'[f] = {}
    BY DEF UnmadeEmpty
  <2>1. None \notin Range(columns)
    BY RowIs, FlowAssumption DEF FlowInv, View, Contexts
  <2>2. place[f] = None
    BY <2>1, PlacingIs
  <2> QED
    BY <1>1, <2>2 DEF Calm, UnmadeEmpty
<1> QED
  BY <1>1, <1>4, <1>5, <1>6, <1>7, <1>8 DEF Calm

\* The user acts in the columns of Z, which no request is near; contexts of T get requests.
LEMMA ActCalm ==
  ASSUME FlowInv, FlowInv', patient, Calm, NEW c, Act(c), Placing,
         NEW asked, AskedOK(asked), Adding(asked),
         NEW T \in SUBSET Contexts, \A s \in Contexts \ T : asked[s] = <<>>,
         NEW Z \in SUBSET Range(columns), \A z \in Z : Free(z),
         \A x \in T : line'[x] # <<>> => Shape(x)' /\ (x \in Columns => x <= made'),
         \A x \in T : Alive(x)' => At(x)' \subseteq Z,
         \A x, y \in T : Alive(x)' /\ Alive(y)' => x = y,
         made <= made', NewOnes, Tight',
         (RowStep /\ Kept(T)) \/ \A s \in Contexts \ T : ~Alive(s)
  PROVE  Calm'
<1>1. View /\ View' /\ LineOK /\ server \in [Contexts -> SUBSET Accounts] /\ server' = server
  BY LineIs DEF FlowInv, Act
<1>2. \A s \in Contexts \ T : line'[s] = line[s]
  BY <1>1, AddingIs
<1>3. ASSUME NEW s \in Contexts \ T, Alive(s), NEW a \in At(s), NEW z \in Z
      PROVE  ~NearBy(a, z)
  <2>1. PICK w \in Works(s) : a = ColumnOf(w)
    BY DEF At
  <2>2. line[s] # <<>>
    BY <1>3 DEF Alive
  <2> QED
    BY <1>1, <2>1, <2>2, FreeApart DEF View
<1>4. ASSUME NEW w \in Contexts, ColumnOf(w) \in Range(columns)
      PROVE  Steady(w) /\ server'[w] = server[w]
  <2>1. Members(w)' = Members(w)
    BY PlacingIs
  <2>2. w \in Files => place'[w] = place[w]
    BY <1>4, PlacingIs, UnmadeIs
  <2> QED
    BY <1>1, <2>1, <2>2 DEF Steady, Placing
<1>5. Change(T, Z)
  BY <1>2, <1>3, <1>4 DEF Change
<1>6. Shapes' /\ Apart'
  BY <1>1, <1>5, ShapesStep DEF Calm
<1>7. stuck' = {} /\ ColumnsAgree' /\ Settled' /\ ReplyIs' /\ Dropped' /\ UnmadeEmpty'
  BY ActRest
<1> QED
  BY <1>6, <1>7 DEF Calm

\* The row stays, and a new file comes to a column that holds something already.
LEMMA UnprunedActs ==
  ASSUME FlowInv, Calm, Placing, Unpruned,
         place' = place \/ \E d \in Range(columns) : Occ(d) /\ Unmade # {} /\ place' = [place EXCEPT ![NewFile] = d]
  PROVE  made <= made' /\ NewOnes /\ Tight' /\ RowStep /\ \A T : Kept(T)
<1>1. View /\ Tight
  BY DEF FlowInv, Calm
<1>2. \A d \in Columns : Occ(d)' <=> Occ(d)
  <2>1. CASE place' = place
    BY <2>1 DEF Occ, Placing
  <2>2. ASSUME NEW e \in Range(columns), Occ(e), Unmade # {}, place' = [place EXCEPT ![NewFile] = e]
        PROVE  \A d \in Columns : Occ(d)' <=> Occ(d)
    <3>1. NewFile \in Files /\ place[NewFile] = None /\ None \notin Columns
      BY <2>2, UnmadeIs, FlowAssumption DEF Contexts
    <3> HIDE DEF NewFile
    <3>2. \A f \in Files : place'[f] = IF f = NewFile THEN e ELSE place[f]
      BY <2>2 DEF FlowInv, View, FitsIn
    <3>3. shown' = shown
      BY DEF Placing
    <3> QED
      BY <2>2, <3>1, <3>2, <3>3 DEF Occ, Occupied
  <2> QED
    BY <2>1, <2>2
<1>3. made <= made' /\ NewOnes /\ RowStep /\ Tight'
  BY <1>1, <1>2, SameRow
<1> QED
  BY <1>3 DEF Kept, Unpruned

\* A column of the row is one of those made.
LEMMA ColumnMade ==
  ASSUME View, NEW c \in Range(columns)
  PROVE  c \in Columns /\ c \in Contexts /\ c \notin Files /\ ColumnOf(c) = c /\ c <= made
<1>1. c \in Columns
  BY RowIs DEF View
<1>2. Range(columns) \subseteq 1..made
  BY SeqIs DEF View, RowOK
<1>3. made \in Nat
  BY DEF View, RowOK, Columns
<1> QED
  BY <1>1, <1>2, <1>3, ColumnIs

\* One context is asked, for what works on it and on another one.
LEMMA OneAsked ==
  ASSUME FlowInv, FlowInv', patient, Calm, NEW c, Act(c),
         UNCHANGED <<columns, made, place, cluster, shown>>,
         NEW x \in Contexts, ColumnOf(x) \in Range(columns), Free(ColumnOf(x)),
         NEW y \in Contexts, ColumnOf(y) \in Range(columns), Free(ColumnOf(y)),
         NEW q, IsSeq(q), \A r \in Range(q) : RequestOK(x, r), Adding(Only(x, q)),
         \A w \in Reach(q, x) : w = x \/ w = y,
         line'[x] = q => Shape(x)'
  PROVE  Calm'
<1> DEFINE asked == Only(x, q)
           Z == {ColumnOf(x), ColumnOf(y)}
           T == {x}
<1>1. View /\ LineOK
  BY LineIs DEF FlowInv
<1>2. AskedOK(asked) /\ asked[x] = q
  BY OnlyIs
<1>3. \A s \in Contexts : s # x => asked[s] = <<>>
  BY DEF Only, Nothing
<1> HIDE DEF asked
<1>4. line[x] = <<>>
  BY <1>1, FreeQueue
<1>5. line'[x] = q
  <2>1. Adding(asked)
    BY DEF asked
  <2> QED
    BY <1>1, <1>2, <1>4, <2>1, AddingIs
<1>6. x \in Columns => x <= made'
  BY <1>1, ColumnMade, ColumnIs
<1>7. At(x)' \subseteq Z
  <2>1. Works(x)' = Reach(q, x)
    BY <1>5, WorksReach
  <2>2. \A w : ColumnOf(w)' = ColumnOf(w)
    BY DEF ColumnOf
  <2> QED
    BY <2>1, <2>2 DEF At
<1>8. Placing /\ Unpruned
  BY DEF Placing, Unpruned
<1>9. made <= made' /\ NewOnes /\ Tight' /\ RowStep /\ \A U : Kept(U)
  BY <1>8, UnprunedActs
<1> HIDE DEF Z
<1>10. Z \in SUBSET Range(columns) /\ \A z \in Z : Free(z)
  BY DEF Z
<1>11. Adding(asked)
  BY DEF asked
<1>12. T \in SUBSET Contexts /\ \A s \in Contexts \ T : asked[s] = <<>>
  BY <1>3
<1>13. \A s \in T : Shape(s)' /\ (s \in Columns => s <= made') /\ At(s)' \subseteq Z
  BY <1>5, <1>6, <1>7
<1>14. \A s, t \in T : s = t
  OBVIOUS
<1> HIDE DEF T
<1>15. Kept(T)
  BY <1>9
<1> QED
  BY <1>2, <1>8, <1>9, <1>10, <1>11, <1>12, <1>13, <1>14, <1>15, ActCalm

\* A branch.
LEMMA BranchCalm ==
  ASSUME FlowInv, FlowInv', patient, Calm, NEW o \in shown, NEW right \in BOOLEAN, Branch(o, right)
  PROVE  Calm'
<1> PICK t : t = NextTo(ColumnOf(o.home), right)
  OBVIOUS
<1> DEFINE e == ColumnOf(o.home)
           r == Branching(o, right)
           q == <<r>>
<1>1. View
  BY DEF FlowInv
<1>2. /\ Act(e) /\ Free(e) /\ Free(t) /\ Adding(Only(t, q)) /\ UNCHANGED viewVars
  BY DEF Branch, Act
<1>3. o.home \in Contexts /\ e \in Range(columns) /\ e \in Columns /\ Occ(e)
  BY <1>1, CardIn
<1>4. t \in Range(columns)
  BY <1>1, NextToIs
<1>5. NextIs(e, right, t)
  BY <1>1, <1>3, OccIn, NeighbourIs DEF View
<1>6. r.op = "branch" /\ r.card = o
  BY DEF Branching
<1>7. UNCHANGED <<columns, made, place, cluster, shown>>
  BY <1>2 DEF viewVars
<1>8. t \in Columns /\ t \in Contexts /\ ColumnOf(t) = t
  BY <1>1, <1>4, ColumnMade
<1>9. line'[t] = q => Shape(t)'
  <2>1. NextIs(ColumnOf(o.home), right, t)'
    BY <1>5, <1>7 DEF NextIs, ColumnOf
  <2>2. line'[t] = q => IsBranch(t)'
    BY <1>7, <1>8, <2>1 DEF IsBranch
  <2> QED
    BY <2>2 DEF Shape
<1>10. IsSeq(q) /\ \A p \in Range(q) : RequestOK(t, p)
  <2>1. RequestOK(t, r)
    BY <1>6 DEF RequestOK, Immediate
  <2>2. IsSeq(q) /\ Range(q) = {r}
    BY OneRequest
  <2> QED
    BY <2>1, <2>2
<1>11. \A w \in Reach(q, t) : w = t \/ w = o.home
  BY <1>6, ReachOne
<1> HIDE DEF q, e
<1>12. ColumnOf(o.home) = e
  BY DEF e
<1> QED
  BY <1>2, <1>3, <1>4, <1>7, <1>8, <1>9, <1>10, <1>11, <1>12, OneAsked

\* The removal of a card.
LEMMA RemoveCardCalm ==
  ASSUME FlowInv, FlowInv', patient, Calm, NEW o \in shown, RemoveCard(o)
  PROVE  Calm'
<1> DEFINE e == ColumnOf(o.home)
           x == o.home
           r == Removing(o, None)
           q == <<r>>
<1>1. View
  BY DEF FlowInv
<1>2. /\ Act(e) /\ Free(e) /\ Adding(Only(x, q)) /\ UNCHANGED <<columns, made, place, cluster, shown>>
  BY DEF RemoveCard, Act
<1>3. x \in Contexts /\ e \in Range(columns) /\ e \in Columns /\ Occ(e) /\ o \in Members(x) /\ o \in Card
  BY <1>1, CardIn
<1>4. r.op = "remove" /\ r.card = o /\ r.move = None
  BY DEF Removing
<1>5. line'[x] = q => Shape(x)'
  <2>1. o \in Members(x)'
    BY <1>2, <1>3 DEF Members, In
  <2>2. CASE x \in Files
    <3>1. line'[x] = q => IsDrop(x)'
      BY <2>1, <2>2 DEF IsDrop
    <3> QED
      BY <3>1 DEF Shape
  <2>3. CASE x \notin Files
    <3>1. x \in Columns
      BY <1>3, <2>3 DEF Contexts
    <3>2. IsInjective(q) /\ Len(q) = 1 /\ q[1] = r
      <4>1. DOMAIN q = {1}
        OBVIOUS
      <4> QED
        BY <4>1 DEF IsInjective
    <3>3. line'[x] = q => IsClean(x)'
      <4> SUFFICES ASSUME line'[x] = q
                   PROVE  IsClean(x)'
        OBVIOUS
      <4>1. IsInjective(line'[x]) /\ Len(line'[x]) = 1 /\ line'[x][1] = Removing(o, None)
        BY <3>2
      <4>2. \A i \in 1..Len(line'[x]) : line'[x][i] = Removing(o, None)
        BY <4>1
      <4> QED
        BY <2>1, <3>1, <4>1, <4>2 DEF IsClean
    <3> QED
      BY <3>3 DEF Shape
  <2> QED
    BY <2>2, <2>3
<1>6. IsSeq(q) /\ \A p \in Range(q) : RequestOK(x, p)
  <2>1. RequestOK(x, r)
    BY <1>3, <1>4 DEF RequestOK, MoveOK, Immediate
  <2>2. IsSeq(q) /\ Range(q) = {r}
    BY OneRequest
  <2> QED
    BY <2>1, <2>2
<1>7. \A w \in Reach(q, x) : w = x \/ w = x
  BY <1>4, ReachOne
<1>8. ColumnOf(x) = e
  OBVIOUS
<1> HIDE DEF q, e, x
<1> QED
  BY <1>2, <1>3, <1>5, <1>6, <1>7, <1>8, OneAsked

\* A card is added to a file.
LEMMA AddToFileCalm ==
  ASSUME FlowInv, FlowInv', patient, Calm, NEW o \in shown, NEW f \in Files, AddToFile(o, f)
  PROVE  Calm'
<1> DEFINE e == ColumnOf(o.home)
           r == Inserting(o)
           q == <<r>>
<1>1. View
  BY DEF FlowInv
<1>2. /\ Act(e) /\ Free(e) /\ Free(place[f]) /\ Adding(Only(f, q)) /\ Live(f) /\ o.home # f
      /\ UNCHANGED <<columns, made, place, cluster, shown>>
  BY DEF AddToFile, Act
<1>3. o.home \in Contexts /\ e \in Range(columns) /\ o \in Card
  BY <1>1, CardIn
<1>4. f \in Contexts /\ ColumnOf(f) = place[f] /\ place[f] \in Range(columns)
  BY <1>1, <1>2, FileIn
<1>5. r.op = "insert" /\ r.card = o
  BY DEF Inserting
<1>6. line'[f] = q => Shape(f)'
  <2>1. Live(f)'
    BY <1>2 DEF Live
  <2>2. line'[f] = q => IsInsert(f)'
    BY <1>2, <2>1 DEF IsInsert
  <2> QED
    BY <2>2 DEF Shape
<1>7. IsSeq(q) /\ \A p \in Range(q) : RequestOK(f, p)
  <2>1. RequestOK(f, r)
    BY <1>3, <1>5 DEF RequestOK, Immediate
  <2>2. IsSeq(q) /\ Range(q) = {r}
    BY OneRequest
  <2> QED
    BY <2>1, <2>2
<1>8. \A w \in Reach(q, f) : w = f \/ w = o.home
  BY <1>5, ReachOne
<1>9. ColumnOf(o.home) = e
  OBVIOUS
<1> HIDE DEF q, e
<1> QED
  BY <1>2, <1>3, <1>4, <1>6, <1>7, <1>8, <1>9, OneAsked

\* The removal of a file.
LEMMA RemoveFileCalm ==
  ASSUME FlowInv, FlowInv', patient, Calm, NEW f \in Files, RemoveFile(f)
  PROVE  Calm'
<1> PICK x : x = place[f]
  OBVIOUS
<1> DEFINE r == Deleting(f)
           q == <<r>>
<1>1. View
  BY DEF FlowInv
<1>2. /\ Act(x) /\ Free(x) /\ Adding(Only(x, q)) /\ Live(f)
      /\ UNCHANGED <<columns, made, place, cluster, shown>>
  BY DEF RemoveFile, Act
<1>3. x \in Range(columns) /\ x \in Contexts /\ ColumnOf(x) = x /\ x \in Columns
  BY <1>1, <1>2, FileIn, ColumnMade
<1>4. r.op = "delete" /\ r.file = f
  BY DEF Deleting
<1>5. line'[x] = q => Shape(x)'
  <2>1. line'[x] = q => IsDelete(x)'
    BY <1>2, <1>3 DEF IsDelete
  <2> QED
    BY <2>1 DEF Shape
<1>6. IsSeq(q) /\ \A p \in Range(q) : RequestOK(x, p)
  <2>1. RequestOK(x, r)
    BY <1>4 DEF RequestOK, Immediate
  <2>2. IsSeq(q) /\ Range(q) = {r}
    BY OneRequest
  <2> QED
    BY <2>1, <2>2
<1>7. \A w \in Reach(q, x) : w = x \/ w = x
  BY <1>4, ReachOne
<1> HIDE DEF q
<1> QED
  BY <1>2, <1>3, <1>5, <1>6, <1>7, OneAsked

\* What is asked for when a column is cleaned.
Cleaning(c) == SetToSeq({Removing(o, None) : o \in Members(c)}) \o <<Clearing(AccountsOf(Members(c)))>>

LEMMA CleanRequests ==
  ASSUME FlowInv, NEW c, NEW q, q = Cleaning(c)
  PROVE  /\ IsSeq(q) /\ IsInjective(q)
         /\ \A i \in 1..Len(q) : \/ \E o \in Members(c) : q[i] = Removing(o, None)
                                 \/ i = Len(q) /\ q[i].op = "clear"
         /\ \A o \in Members(c) : Removing(o, None) \in Range(q)
         /\ \A r \in Range(q) : RequestOK(c, r) /\ (r.op = "clear" \/ \E o \in Members(c) : r = Removing(o, None))
<1> DEFINE objects == Members(c)
           S == {Removing(o, None) : o \in objects}
           s == SetToSeq(S)
           r1 == Clearing(AccountsOf(objects))
           t == <<r1>>
<1>1. IsFiniteSet(S)
  <2> DEFINE g == [o \in objects |-> Removing(o, None)]
  <2>1. DOMAIN g = objects /\ S = {g[o] : o \in objects}
    OBVIOUS
  <2> HIDE DEF g, S, objects
  <2>2. IsFiniteSet(objects)
    BY FiniteMembers DEF objects
  <2> QED
    BY <2>1, <2>2, FiniteImage
<1>2. \A r \in S : r.op = "remove" /\ RequestOK(c, r)
  <2> SUFFICES ASSUME NEW o \in objects
               PROVE  Removing(o, None).op = "remove" /\ RequestOK(c, Removing(o, None))
    OBVIOUS
  <2>1. o \in Card /\ o.home = c
    BY DEF FlowInv, View, FitsIn, Members, In
  <2> QED
    BY <2>1 DEF RequestOK, Removing, MoveOK, Immediate
<1>3. r1.op = "clear" /\ RequestOK(c, r1)
  BY DEF Clearing, RequestOK, Immediate
<1>4. \A r \in S : \E o \in objects : r = Removing(o, None)
  OBVIOUS
<1>5. \A o \in objects : Removing(o, None) \in S
  OBVIOUS
<1>6. q = s \o t
  BY DEF Cleaning
<1> HIDE DEF S, r1, objects
<1>7. IsSeq(s) /\ Range(s) = S /\ IsInjective(s)
  BY <1>1, Listed
<1>8. IsSeq(t) /\ Range(t) = {r1}
  BY OneRequest
<1> DEFINE R == S \cup {r1}
           m == Len(s)
<1>9. s \in Seq(R) /\ t \in Seq(R) /\ m \in Nat /\ DOMAIN s = 1..m
  <2>1. Range(s) \subseteq R /\ Range(t) \subseteq R
    BY <1>7, <1>8
  <2> HIDE DEF R, s, t
  <2>2. s \in Seq(R) /\ t \in Seq(R)
    BY <1>7, <1>8, <2>1, SeqMonotonic DEF IsSeq
  <2> QED
    BY <2>2, LenProperties
<1>10. Len(t) = 1 /\ t[1] = r1 /\ m = Len(s)
  OBVIOUS
<1> HIDE DEF s, t, R, m
<1>11. q \in Seq(R) /\ ConcatAt(s, t, m, 1, q)
  <2>1. s \o t \in Seq(R) /\ ConcatAt(s, t, m, 1, s \o t)
    BY <1>9, <1>10, 1 \in Nat, ConcatIsAt, Zenon
  <2> QED
    BY <1>6, <2>1
<1>12. /\ Len(q) = m + 1 /\ DOMAIN q = 1..(m + 1)
       /\ \A i \in 1..m : q[i] = s[i] /\ s[i] \in S
       /\ q[m + 1] = r1
  <2>1. Len(q) = m + 1 /\ (\A i \in 1..m : q[i] = s[i]) /\ q[m + 1] = r1
    <3>1. 1 \in 1..1
      OBVIOUS
    <3> QED
      BY <1>10, <1>11, <3>1 DEF ConcatAt
  <2>2. \A i \in 1..m : s[i] \in S
    BY <1>7, <1>9 DEF Range
  <2>3. DOMAIN q = 1..Len(q)
    BY <1>11, LenProperties
  <2> QED
    BY <2>1, <2>2, <2>3
<1>13. \A i \in 1..(m + 1) : i \in 1..m \/ i = m + 1
  BY <1>9
<1>14. IsInjective(q)
  <2> SUFFICES ASSUME NEW i \in 1..(m + 1), NEW j \in 1..(m + 1), q[i] = q[j]
               PROVE  i = j
    BY <1>12 DEF IsInjective
  <2>1. CASE i \in 1..m /\ j \in 1..m
    BY <1>7, <1>9, <1>12, <2>1 DEF IsInjective
  <2>2. CASE i = m + 1 \/ j = m + 1
    BY <1>2, <1>3, <1>12, <1>13, <2>2
  <2> QED
    BY <1>13, <2>1, <2>2
<1>15. \A i \in 1..Len(q) : \/ \E o \in objects : q[i] = Removing(o, None)
                            \/ i = Len(q) /\ q[i].op = "clear"
  BY <1>3, <1>4, <1>12, <1>13
<1>16. IsSeq(q) /\ Range(q) = S \cup {r1}
  BY <1>6, <1>7, <1>8, ConcatIs
<1> QED
  BY <1>2, <1>3, <1>4, <1>5, <1>14, <1>15, <1>16 DEF objects

\* A column is cleaned.
LEMMA CleanCalm ==
  ASSUME FlowInv, FlowInv', patient, Calm, NEW c \in Range(columns), CleanColumn(c)
  PROVE  Calm'
<1> PICK q : q = Cleaning(c)
  OBVIOUS
<1>1. View
  BY DEF FlowInv
<1>2. /\ Act(c) /\ Free(c) /\ Adding(Only(c, q)) /\ Members(c) # {}
      /\ UNCHANGED <<columns, made, place, cluster, shown>>
  BY DEF CleanColumn, Act, Cleaning
<1>3. c \in Contexts /\ c \in Columns /\ ColumnOf(c) = c
  BY <1>1, ColumnMade
<1>4. /\ IsSeq(q) /\ IsInjective(q)
      /\ \A i \in 1..Len(q) : \/ \E o \in Members(c) : q[i] = Removing(o, None)
                              \/ i = Len(q) /\ q[i].op = "clear"
      /\ \A o \in Members(c) : Removing(o, None) \in Range(q)
      /\ \A r \in Range(q) : RequestOK(c, r) /\ (r.op = "clear" \/ \E o \in Members(c) : r = Removing(o, None))
  BY CleanRequests
<1>5. Members(c)' = Members(c)
  BY <1>2 DEF Members, In
<1>6. Occ(c)'
  BY <1>2 DEF Occ, Occupied, Members
<1>7. line'[c] = q => Shape(c)'
  <2>1. line'[c] = q => IsClean(c)'
    BY <1>3, <1>4, <1>5, <1>6 DEF IsClean
  <2> QED
    BY <2>1 DEF Shape
<1>8. \A w \in Reach(q, c) : w = c \/ w = c
  <2> SUFFICES ASSUME NEW w \in Contexts, NEW r \in Range(q),
                      \/ r.op \in {"branch", "remove", "insert"} /\ r.card.home = w
                      \/ r.op = "remove" /\ r.move # None /\ r.move.file = w
               PROVE  w = c
    BY DEF Reach
  <2>1. PICK o \in Members(c) : r = Removing(o, None)
    BY <1>4
  <2>2. r.card = o /\ r.move = None
    BY <2>1 DEF Removing
  <2> QED
    BY <2>2 DEF Members, In
<1> QED
  BY <1>2, <1>3, <1>4, <1>7, <1>8, OneAsked

\* A file is made for a card, which is added to it.
LEMMA CreateFileCalm ==
  ASSUME FlowInv, FlowInv', patient, Calm, NEW o \in shown, CreateFile(o)
  PROVE  Calm'
<1> PICK f : f = NewFile
  OBVIOUS
<1> DEFINE x == o.home
           asked == [Only(x, <<Creating(f, {})>>) EXCEPT ![f] = <<Inserting(o)>>]
           Z == {x}
           T == {x, f}
<1>1. View /\ LineOK
  BY LineIs DEF FlowInv
<1>2. /\ Act(x) /\ Free(x) /\ Adding(asked) /\ x \in Columns /\ Unmade # {}
      /\ place' = [place EXCEPT ![f] = x]
      /\ UNCHANGED <<columns, made, cluster, shown>>
  BY DEF CreateFile, Act
<1>3. x \in Contexts /\ ColumnOf(x) = x /\ x \in Range(columns) /\ x \notin Files /\ Occ(x) /\ o \in Card
  BY <1>1, <1>2, CardIn, ColumnIs
<1>4. /\ f \in Files /\ f \in Contexts /\ f \notin Columns /\ line[f] = <<>> /\ f # x
      /\ place[f] = None
  BY <1>2, <1>3, UnmadeIs
<1>5. asked[x] = <<Creating(f, {})>> /\ asked[f] = <<Inserting(o)>>
      /\ \A s \in Contexts \ T : asked[s] = <<>>
  BY <1>3, <1>4 DEF Only, Nothing
<1>6. AskedOK(asked)
  <2>1. RequestOK(x, Creating(f, {})) /\ RequestOK(f, Inserting(o))
    BY <1>3, <1>4 DEF RequestOK, Creating, Inserting, Immediate
  <2>2. /\ IsSeq(<<Creating(f, {})>>) /\ Range(<<Creating(f, {})>>) = {Creating(f, {})}
        /\ IsSeq(<<Inserting(o)>>) /\ Range(<<Inserting(o)>>) = {Inserting(o)}
    BY OneRequest
  <2>3. \A s \in Contexts : s = x \/ s = f \/ asked[s] = <<>>
    BY <1>5
  <2> HIDE DEF asked
  <2> QED
    BY <1>5, <2>1, <2>2, <2>3, NoRequest DEF AskedOK
<1> HIDE DEF asked
<1>7. line[x] = <<>>
  BY <1>1, <1>2, <1>3, FreeQueue
<1>8. line'[x] = <<Creating(f, {})>> /\ line'[f] = <<Inserting(o)>>
  BY <1>1, <1>2, <1>3, <1>4, <1>5, <1>6, <1>7, AddingIs
<1>9. Placing /\ Unpruned
  <2>1. \E d \in Range(columns) : place' = [place EXCEPT ![NewFile] = d]
    BY <1>2, <1>3
  <2> HIDE DEF NewFile
  <2> QED
    BY <1>2, <2>1 DEF Placing, Unpruned
<1>10. made <= made' /\ NewOnes /\ Tight' /\ RowStep /\ \A U : Kept(U)
  <2>1. \E d \in Range(columns) : Occ(d) /\ Unmade # {} /\ place' = [place EXCEPT ![NewFile] = d]
    BY <1>2, <1>3
  <2> HIDE DEF NewFile
  <2> QED
    BY <1>9, <2>1, UnprunedActs
<1>11. ColumnOf(x)' = x /\ ColumnOf(f)' = x /\ place'[f] = x
  BY <1>2, <1>3, <1>4 DEF ColumnOf, FlowInv, View, FitsIn
<1>12. Shape(x)' /\ ~Alive(x)' /\ x <= made'
  <2>1. IsCreate(x)'
    BY <1>2, <1>4, <1>8 DEF IsCreate
  <2>2. Light(x)'
    BY <1>4, <1>8 DEF Light
  <2>3. x <= made'
    BY <1>1, <1>2, <1>3, ColumnMade
  <2> QED
    BY <2>1, <2>2, <2>3 DEF Shape, Alive
<1>13. Shape(f)'
  <2>1. Live(f)'
    BY <1>2, <1>11 DEF Live
  <2>2. IsInsert(f)'
    BY <1>2, <1>4, <1>8, <2>1 DEF IsInsert
  <2> QED
    BY <2>2 DEF Shape
<1>14. At(f)' \subseteq Z
  <2>1. Works(f)' = Reach(<<Inserting(o)>>, f)
    BY <1>8, WorksReach
  <2>2. \A w \in Works(f)' : w = f \/ w = x
    BY <2>1, ReachOne DEF Inserting
  <2> QED
    BY <1>11, <2>2 DEF At
<1>15. Z \in SUBSET Range(columns) /\ \A z \in Z : Free(z)
  BY <1>2, <1>3
<1>16. T \in SUBSET Contexts
  BY <1>3, <1>4
<1>17. \A s \in T : Shape(s)' /\ (s \in Columns => s <= made') /\ (Alive(s)' => s = f /\ At(s)' \subseteq Z)
  BY <1>4, <1>12, <1>13, <1>14
<1>18. \A s \in Contexts \ T : asked[s] = <<>>
  BY <1>5
<1> HIDE DEF T, Z, x
<1>19. Kept(T)
  BY <1>10
<1> QED
  BY <1>2, <1>6, <1>9, <1>10, <1>15, <1>16, <1>17, <1>18, <1>19, ActCalm

-----------------------------------------------------------------------------
(* New files *)

\* In a row with an empty inner column, what requests work on holds something or is an end,
\* if a patient user found a column free.
LEMMA AliveStays ==
  ASSUME FlowInv, Tight, patient, ~Packed, NEW c \in Range(columns), Free(c),
         NEW s \in Contexts, Alive(s), Shape(s), NEW a \in At(s)
  PROVE  a \in {columns[1], columns[Len(columns)]} \/ Occ(a)
<1> SUFFICES ASSUME a # columns[1], a # columns[Len(columns)], ~Occ(a)
             PROVE  FALSE
  OBVIOUS
<1>1. View /\ RowOK /\ Range(columns) \subseteq Columns
  BY RowIs DEF FlowInv, View
<1> DEFINE n == Len(columns)
<1>2. n \in Nat /\ DOMAIN columns = 1..n
  BY <1>1, RowIs
<1>3. n <= 4
  BY DEF Tight, TightRow, Packed, Occ
<1>4. At(s) \subseteq Range(columns)
  BY <1>1, ShapeIn
<1>5. PICK e \in At(s) : Occ(e)
  BY <1>1, ShapeIn
<1>6. e # columns[1] /\ e # columns[Len(columns)] /\ e \in Range(columns) /\ a \in Range(columns)
  BY <1>1, <1>4, <1>5, OccIn
<1>7. PICK j \in 2..(n - 1) : columns[j] = a
  BY <1>1, <1>6, InnerIs
<1>8. PICK k \in 2..(n - 1) : columns[k] = e
  BY <1>1, <1>6, InnerIs
<1>9. PICK i \in 1..n : columns[i] = c
  BY <1>2 DEF Range
<1>10. \A b \in At(s) : ~NearBy(b, c)
  <2> SUFFICES ASSUME NEW b \in At(s)
               PROVE  ~NearBy(b, c)
    OBVIOUS
  <2>1. PICK w \in Works(s) : b = ColumnOf(w)
    BY DEF At
  <2>2. line[s] # <<>>
    BY DEF Alive
  <2> QED
    BY <1>1, <2>1, <2>2, FreeApart
<1>11. j # k
  BY <1>5, <1>7, <1>8
<1>12. \A m \in 2..(n - 1) : columns[m] \in At(s) => i # m /\ i # m + 1 /\ i + 1 # m
  <2> SUFFICES ASSUME NEW m \in 2..(n - 1), columns[m] \in At(s), i = m \/ i = m + 1 \/ i + 1 = m
               PROVE  FALSE
    OBVIOUS
  <2>1. m \in 1..(n - 1) /\ m - 1 \in 1..(n - 1) /\ m - 1 + 1 = m /\ i \in 1..n
    BY <1>2
  <2>2. CASE i = m
    BY <1>9, <1>10, <2>2, <1>4 DEF NearBy
  <2>3. CASE i = m + 1
    BY <1>9, <1>10, <2>1, <2>3 DEF NearBy, Beside
  <2>4. CASE i + 1 = m
    <3>1. i = m - 1
      BY <1>2, <2>4
    <3> QED
      BY <1>9, <1>10, <2>1, <3>1 DEF NearBy, Beside
  <2> QED
    BY <2>2, <2>3, <2>4
<1>13. i # j /\ i # j + 1 /\ i + 1 # j /\ i # k /\ i # k + 1 /\ i + 1 # k
  BY <1>5, <1>7, <1>8, <1>12
<1> HIDE DEF n
<1> QED
  BY <1>2, <1>3, <1>7, <1>8, <1>9, <1>11, <1>13

\* A new file comes to a column, and its context is asked for.
LEMMA CreatingCalm ==
  ASSUME FlowInv, FlowInv', patient, Calm, NEW c \in Range(columns), Act(c), Unmade # {},
         NEW ids \in SUBSET Accounts, Show(shown, [place EXCEPT ![NewFile] = c], cluster),
         Adding(Only(c, <<Creating(NewFile, ids)>>)),
         made <= made', NewOnes, Tight',
         \/ RowStep /\ (Packed \/ ids = {})
         \/ \A s \in Contexts \ {c} : ~Alive(s)
  PROVE  Calm'
<1> PICK f : f = NewFile
  OBVIOUS
<1> DEFINE r == Creating(f, ids)
           q == <<r>>
           asked == Only(c, q)
           T == {c}
<1>1. View /\ LineOK /\ View' /\ Tight /\ Shapes
  BY LineIs DEF FlowInv, Calm
<1>2. c \in Contexts /\ c \in Columns /\ ColumnOf(c) = c /\ c <= made /\ c \notin Files
  BY <1>1, ColumnMade
<1>3. f \in Files /\ f \in Contexts /\ place[f] = None
  BY UnmadeIs
<1>4. Free(c) /\ Adding(asked)
  BY DEF Act
<1>5. /\ shown' = shown /\ cluster' = cluster /\ place' = [place EXCEPT ![f] = c]
      /\ place'[f] = c /\ \A g \in Files : g # f => place'[g] = place[g]
  BY <1>3 DEF Show, FlowInv, View, FitsIn
<1>6. Placing
  BY <1>5 DEF Placing
<1>7. r.op = "create" /\ RequestOK(c, r)
  BY <1>3 DEF Creating, RequestOK, Immediate
<1>8. IsSeq(q) /\ Range(q) = {r}
  BY OneRequest
<1>9. AskedOK(asked) /\ asked[c] = q /\ \A s \in Contexts \ T : asked[s] = <<>>
  <2>1. \A s \in Contexts \ T : asked[s] = <<>>
    BY DEF Only, Nothing
  <2> HIDE DEF q
  <2> QED
    BY <1>2, <1>7, <1>8, <2>1, OnlyIs
<1> HIDE DEF asked
<1>10. line[c] = <<>>
  BY <1>1, <1>2, <1>4, FreeQueue
<1>11. line'[c] = q
  BY <1>1, <1>2, <1>4, <1>9, <1>10, AddingIs
<1>12. Shape(c)' /\ c <= made'
  <2>1. IsCreate(c)'
    BY <1>2, <1>3, <1>5, <1>11 DEF IsCreate
  <2>2. made \in Nat /\ made' \in Nat /\ c \in Nat
    BY <1>1, <1>2 DEF View, RowOK, Columns
  <2> QED
    BY <1>2, <2>1, <2>2 DEF Shape
<1>13. At(c)' \subseteq {c}
  <2>1. Works(c)' = Reach(q, c)
    BY <1>11, WorksReach
  <2>2. \A w \in Works(c)' : w = c
    BY <1>7, <2>1, ReachOne
  <2>3. ColumnOf(c)' = c
    BY <1>2 DEF ColumnOf
  <2> QED
    BY <2>2, <2>3 DEF At
<1>14. ids = {} => ~Alive(c)'
  BY <1>3, <1>11 DEF Alive, Light
<1>15. (RowStep /\ Kept(T)) \/ \A s \in Contexts \ T : ~Alive(s)
  <2> SUFFICES ASSUME RowStep, ~Packed, ids = {}
               PROVE  Kept(T)
    BY DEF Kept
  <2>1. ASSUME NEW s \in Contexts \ T, Alive(s), NEW a \in At(s)
        PROVE  a \in Range(columns')
    <3>1. Shape(s)
      BY <1>1, <2>1 DEF Shapes, Alive
    <3>2. a \in {columns[1], columns[Len(columns)]} \/ Occ(a)
      BY <1>1, <1>4, <2>1, <3>1, AliveStays
    <3>3. Occ(a) => Occ(a)'
      <4>1. At(s) \subseteq Range(columns) /\ Range(columns) \subseteq Columns
        BY <1>1, <2>1, <3>1, ShapeIn, RowIs DEF View
      <4>2. a # None
        BY <2>1, <4>1, FlowAssumption DEF Contexts
      <4> QED
        BY <1>3, <1>5, <4>2 DEF Occ, Occupied
    <3>4. a \in Range(columns)
      BY <1>1, <2>1, <3>1, ShapeIn
    <3> QED
      BY <3>2, <3>3, <3>4 DEF RowStep
  <2> QED
    BY <1>14, <2>1 DEF Kept
<1>16. {c} \in SUBSET Range(columns) /\ \A z \in {c} : Free(z)
  BY <1>4
<1>17. T \in SUBSET Contexts /\ \A x \in T : Shape(x)' /\ x <= made' /\ At(x)' \subseteq {c}
  BY <1>2, <1>12, <1>13
<1>18. \A x, y \in T : x = y
  OBVIOUS
<1> HIDE DEF T, q
<1> QED
  BY <1>4, <1>6, <1>9, <1>15, <1>16, <1>17, <1>18, ActCalm

\* An empty file.
LEMMA CreateEmptyCalm ==
  ASSUME FlowInv, FlowInv', patient, Calm, NEW c \in Range(columns), CreateEmpty(c)
  PROVE  Calm'
<1>1. /\ Unmade # {} /\ Act(c) /\ Show(shown, [place EXCEPT ![NewFile] = c], cluster) /\ Prune
      /\ Adding(Only(c, <<Creating(NewFile, {})>>))
  BY DEF CreateEmpty
<1>2. \A d \in Columns : Occ(d)' => d = c \/ Occ(d)
  <2>1. \A d \in Columns : Occupied(d, shown, [place EXCEPT ![NewFile] = c]) => d = c \/ Occupied(d, shown, place)
    BY <1>1, PlacedIn
  <2>2. shown' = shown /\ place' = [place EXCEPT ![NewFile] = c]
    BY <1>1 DEF Show
  <2> HIDE DEF NewFile
  <2> QED
    BY <2>1, <2>2 DEF Occ
<1>3. made <= made' /\ NewOnes /\ RowStep /\ Tight'
  <2>1. View /\ View'
    BY DEF FlowInv
  <2> QED
    BY <1>1, <1>2, <2>1, PruneStep
<1>4. {} \in SUBSET Accounts
  OBVIOUS
<1> QED
  BY <1>1, <1>3, <1>4, CreatingCalm

\* A file with accounts: in a row with an empty inner column, it comes to the one that holds
\* something.
LEMMA AddFileCalm ==
  ASSUME FlowInv, FlowInv', patient, Calm, NEW ids \in SUBSET Accounts, AddFile(ids)
  PROVE  Calm'
<1> PICK row : row = Pruned(columns, made, shown, place)
  OBVIOUS
<1> DEFINE used == {d \in Range(row) : In(d, shown) # {} \/ FilesIn(d) # {}}
<1>1. /\ Unmade # {}
      /\ \E c \in {row[(Len(row) + 1) \div 2]} \cup used :
          /\ c \in Range(columns) /\ Act(c)
          /\ Show(shown, [place EXCEPT ![NewFile] = c], cluster)
          /\ columns' = Pruned(row, Newest(row), shown', place')
          /\ made' = Newest(columns') /\ {Newest(row), made'} \subseteq Columns
          /\ Adding(Only(c, <<Creating(NewFile, ids)>>))
  BY DEF AddFile
<1>2. PICK c \in {row[(Len(row) + 1) \div 2]} \cup used :
          /\ c \in Range(columns) /\ Act(c)
          /\ Show(shown, [place EXCEPT ![NewFile] = c], cluster)
          /\ columns' = Pruned(row, Newest(row), shown', place')
          /\ made' = Newest(columns') /\ {Newest(row), made'} \subseteq Columns
          /\ Adding(Only(c, <<Creating(NewFile, ids)>>))
  BY <1>1
<1>3. View /\ View' /\ RowOK /\ Tight /\ Shapes /\ Free(c)
  BY <1>2 DEF FlowInv, View, Calm, Act
<1>4. /\ made \in Nat /\ columns \in Seq(1..made) /\ IsInjective(columns) /\ Len(columns) >= 2
      /\ Len(columns) >= 3 /\ 1..made \subseteq Columns
  <2>1. Len(columns) \in Nat
    BY <1>3, RowIs
  <2> QED
    BY <1>3, <2>1, FlowAssumption DEF RowOK, Columns
<1>5. \A d \in Columns : Occupied(d, shown, place) => d \in Range(columns)
  BY <1>3, OccIn DEF Occ
<1>6. /\ row \in Seq(1..(made + 3)) /\ Len(row) >= 3 /\ Len(row) \in Nat /\ DOMAIN row = 1..Len(row)
  <2>1. row \in Seq(1..(made + 3)) /\ Len(row) >= 3
    BY <1>4, <1>5, PrunedRow
  <2> QED
    BY <2>1, LenProperties
<1>7. c \in Range(row)
  <2>1. \A m \in Nat : m >= 3 => (m + 1) \div 2 \in 1..m
    OBVIOUS
  <2>2. (Len(row) + 1) \div 2 \in DOMAIN row
    BY <1>6, <2>1
  <2> QED
    BY <2>2 DEF Range
<1>8. \A d \in Columns : Occ(d)' => d = c \/ Occ(d)
  <2>1. \A d \in Columns : Occupied(d, shown, [place EXCEPT ![NewFile] = c]) => d = c \/ Occupied(d, shown, place)
    BY <1>1, <1>2, PlacedIn
  <2>2. shown' = shown /\ place' = [place EXCEPT ![NewFile] = c]
    BY <1>2 DEF Show
  <2> HIDE DEF NewFile
  <2> QED
    BY <2>1, <2>2 DEF Occ
<1>9. made <= made' /\ NewOnes /\ Tight' /\ (Packed => RowStep)
  <2>1. Newest(row) \in Columns
    BY <1>2
  <2> QED
    BY <1>2, <1>3, <1>7, <1>8, <2>1, PrunedTwice
<1>10. ASSUME ~Packed, NEW s \in Contexts, Alive(s)
       PROVE  FALSE
  <2>1. Shape(s)
    BY <1>3, <1>10 DEF Shapes, Alive
  <2>2. PICK e \in At(s) : Occ(e)
    BY <1>3, <1>10, <2>1, ShapeIn
  <2>3. e \in Columns
    BY <1>3, <1>10, <2>1, <2>2, ShapeIn, RowIs
  <2>4. \A d \in Columns : Occupied(d, shown, place) <=> d = e
    BY <1>3, <1>10, <2>2, <2>3 DEF Tight, TightRow, Packed, Occ
  <2>5. ~Occupied(columns[1], shown, place) /\ ~Occupied(columns[Len(columns)], shown, place)
    BY <1>3, EndsAre DEF Occ
  <2>6. EndsKept(columns, shown, place, row)
    BY <1>4, <1>5, <2>3, <2>4, <2>5, PrunedOrder
  <2>7. Len(row) = 3 /\ row[2] = e
    BY <2>3, <2>4, <2>6 DEF EndsKept
  <2>8. c = e
    <3>1. (3 + 1) \div 2 = 2
      OBVIOUS
    <3>2. ASSUME c \in used
          PROVE  c = e
      <4>1. Occupied(c, shown, place) /\ c \in Columns
        BY <1>2, <1>3, <3>2, RowIs DEF Occupied, FilesIn
      <4> QED
        BY <2>4, <4>1
    <3> QED
      BY <2>7, <3>1, <3>2
  <2>9. PICK w \in Works(s) : e = ColumnOf(w)
    BY <2>2 DEF At
  <2>10. line[s] # <<>>
    BY <1>10 DEF Alive
  <2>11. NearBy(e, c)
    BY <1>2, <2>8 DEF NearBy
  <2> QED
    BY <1>2, <1>3, <2>9, <2>10, <2>11, FreeApart
<1>11. \/ RowStep /\ (Packed \/ ids = {})
       \/ \A s \in Contexts \ {c} : ~Alive(s)
  BY <1>9, <1>10
<1> QED
  BY <1>1, <1>2, <1>9, <1>11, CreatingCalm

-----------------------------------------------------------------------------
(* Moves and deletions *)

\* A card that is moved to a file: its context works on that file.
LEMMA MovingIs ==
  ASSUME View, LineOK, Shapes, NEW s \in Contexts, NEW f \in Files, Moving(s, f)
  PROVE  /\ IsMove(s) /\ f # s /\ Live(f) /\ Alive(s) /\ ~OnlyLinks(s)
         /\ ColumnOf(f) \in At(s)
<1>1. PICK r \in Range(line[s]) : r.op = "remove" /\ r.move # None /\ r.move.file = f
  BY DEF Moving
<1>2. line[s] # <<>>
  <2>1. Range(<<>>) = {}
    BY NoRequest
  <2> QED
    BY <1>1, <2>1
<1>3. Shape(s)
  BY <1>2 DEF Shapes
<1>4. \A p : line[s] = <<p>> => r = p
  BY <1>1, OneRequest
<1>5. \A o : r # Removing(o, None)
  BY <1>1 DEF Removing
<1>6. ~IsBranch(s) /\ ~IsDrop(s) /\ ~IsInsert(s) /\ ~IsFill(s) /\ ~IsDelete(s) /\ ~IsExpand(s) /\ ~IsCreate(s)
  <2>1. \A o, right : Branching(o, right).op # "remove"
    BY DEF Branching
  <2>2. \A o : Inserting(o).op # "remove"
    BY DEF Inserting
  <2>3. \A ids : Filling(ids).op # "remove"
    BY DEF Filling
  <2>4. \A g : Deleting(g).op # "remove"
    BY DEF Deleting
  <2>5. \A g, n : Expanding(g, n).op # "remove"
    BY DEF Expanding
  <2>6. \A g, ids : Creating(g, ids).op # "remove"
    BY DEF Creating
  <2> QED
    BY <1>1, <1>4, <1>5, <2>1, <2>2, <2>3, <2>4, <2>5, <2>6
       DEF IsBranch, IsDrop, IsInsert, IsFill, IsDelete, IsExpand, IsCreate
<1>7. ~IsLinks(s)
  BY <1>1 DEF IsLinks, Linking
<1>8. ~IsClean(s)
  <2> SUFFICES ASSUME IsClean(s)
               PROVE  FALSE
    OBVIOUS
  <2>1. PICK i \in DOMAIN line[s] : line[s][i] = r
    BY <1>1 DEF Range
  <2>2. i \in 1..Len(line[s])
    BY LenProperties DEF LineOK, AskedOK, IsSeq
  <2> QED
    BY <1>1, <1>5, <2>1, <2>2 DEF IsClean
<1>9. IsMove(s)
  BY <1>3, <1>6, <1>7, <1>8 DEF Shape
<1>10. PICK o \in Members(s), g \in Files :
         /\ Live(g) /\ g # s
         /\ \/ line[s] = <<Removing(o, MoveTo(g))>>
            \/ s \in Columns /\ \E h \in Files : line[s] = <<Creating(h, {}), Removing(o, MoveTo(g))>>
  BY <1>9 DEF IsMove
<1>11. r = Removing(o, MoveTo(g))
  <2>1. CASE line[s] = <<Removing(o, MoveTo(g))>>
    BY <1>4, <2>1
  <2>2. ASSUME NEW h \in Files, line[s] = <<Creating(h, {}), Removing(o, MoveTo(g))>>
        PROVE  r = Removing(o, MoveTo(g))
    <3>1. Creating(h, {}).op # "remove"
      BY DEF Creating
    <3>2. Range(line[s]) = {Creating(h, {}), Removing(o, MoveTo(g))}
      BY <2>2 DEF Range
    <3> QED
      BY <1>1, <3>1, <3>2
  <2> QED
    BY <1>10, <2>1, <2>2
<1>12. f = g
  BY <1>1, <1>11 DEF Removing, MoveTo
<1>13. f \in Contexts /\ f \in Works(s)
  BY <1>1 DEF Contexts, Works
<1>14. Alive(s)
  <2>1. ~Light(s)
    <3> SUFFICES ASSUME NEW h \in Files, line[s] = <<Creating(h, {})>>
                 PROVE  FALSE
      BY DEF Light
    <3>1. Creating(h, {}).op # "remove"
      BY DEF Creating
    <3> QED
      BY <1>1, <1>4, <3>1
  <2>2. s \in Columns => s \in Range(columns)
    BY <1>10, NoMembers, ColumnIs
  <2> QED
    BY <1>2, <2>1, <2>2 DEF Alive
<1>15. ~OnlyLinks(s)
  BY <1>1 DEF OnlyLinks
<1> QED
  BY <1>9, <1>10, <1>12, <1>13, <1>14, <1>15 DEF At

\* The removal of a file, from its column.
LEMMA DeletingIs ==
  ASSUME View, LineOK, Shapes, NEW s \in Contexts, line[s] # <<>>, NEW f, Head(line[s]) = Deleting(f)
  PROVE  /\ line[s] = <<Deleting(f)>> /\ f \in Files /\ f \in Contexts /\ Live(f) /\ s \in Columns
         /\ place[f] = s /\ ColumnOf(f) = s /\ ColumnOf(s) = s /\ s \in Range(columns)
         /\ Alive(s) /\ s \in At(s) /\ ~OnlyLinks(s)
<1>1. Deleting(f).op = "delete" /\ Deleting(f).file = f
  BY DEF Deleting
<1>2. IsDelete(s)
  BY <1>1, HeadShape
<1>3. PICK g \in Files : place[g] = s /\ line[s] = <<Deleting(g)>>
  BY <1>2 DEF IsDelete
<1>4. f = g
  BY <1>3 DEF Deleting
<1>5. s \in Columns /\ ColumnOf(s) = s
  BY <1>2, ColumnIs DEF IsDelete
<1>6. f \in Contexts /\ Live(f) /\ ColumnOf(f) = s /\ s \in Range(columns)
  BY <1>3, <1>4, <1>5, FileIn
<1>7. Range(line[s]) = {Deleting(f)}
  BY <1>3, <1>4, OneRequest
<1>8. Alive(s)
  <2>1. \A g1, ids : Creating(g1, ids).op # "delete"
    BY DEF Creating
  <2>2. ~Light(s)
    BY <1>1, <1>3, <1>4, <2>1 DEF Light
  <2> QED
    BY <1>6, <2>2 DEF Alive
<1>9. ~OnlyLinks(s)
  BY <1>1, <1>7 DEF OnlyLinks
<1>10. s \in At(s)
  BY <1>5 DEF At, Works
<1> QED
  BY <1>3, <1>4, <1>5, <1>6, <1>8, <1>9, <1>10

\* What a queue says of the view stays true while the view stays.
LEMMA ShapeStays ==
  ASSUME UNCHANGED <<columns, made, place, cluster, shown>>, NEW s \in Contexts,
         line'[s] = line[s], Shape(s),
         IsMove(s) => \A f \in Files : f # s => server'[f] = server[f]
  PROVE  Shape(s)'
<1>1. Members(s)' = Members(s) /\ ColumnOf(s)' = ColumnOf(s)
  BY DEF Members, In, ColumnOf
<1>2. IsBranch(s) => IsBranch(s)'
  BY DEF IsBranch, NextIs, ColumnOf
<1>3. IsClean(s) => IsClean(s)'
  BY <1>1 DEF IsClean, Occ
<1>4. IsDrop(s) => IsDrop(s)'
  BY <1>1 DEF IsDrop
<1>5. IsMove(s) => IsMove(s)'
  <2> SUFFICES ASSUME IsMove(s)
               PROVE  IsMove(s)'
    OBVIOUS
  <2>1. PICK o \in Members(s), f \in Files :
          /\ Live(f) /\ f # s
          /\ \/ line[s] = <<Removing(o, MoveTo(f))>>
             \/ s \in Columns /\ \E g \in Files : line[s] = <<Creating(g, {}), Removing(o, MoveTo(f))>>
    BY DEF IsMove
  <2>2. MoveTo(f)' = MoveTo(f) /\ Live(f)'
    BY <2>1 DEF MoveTo, Live
  <2> QED
    BY <1>1, <2>1, <2>2 DEF IsMove
<1>6. IsInsert(s) => IsInsert(s)'
  BY DEF IsInsert, Live
<1>7. IsFill(s) => IsFill(s)'
  BY DEF IsFill, Live
<1>8. IsDelete(s) \/ IsExpand(s) \/ IsCreate(s) => IsDelete(s)' \/ IsExpand(s)' \/ IsCreate(s)'
  BY DEF IsDelete, IsExpand, IsCreate, Live
<1>9. IsLinks(s) => IsLinks(s)'
  BY <1>1 DEF IsLinks, NearBy, Occ
<1> QED
  BY <1>2, <1>3, <1>4, <1>5, <1>6, <1>7, <1>8, <1>9 DEF Shape

-----------------------------------------------------------------------------
(* The server *)

\* Steps of the server.
LEMMA ServeCalm ==
  ASSUME FlowInv, FlowInv', Calm, NEW c \in Contexts, Serve(c)
  PROVE  Calm'
<1>1. /\ line[c] # <<>> /\ line[c] = queue[c] /\ UNCHANGED line
  <2>1. queue[c] # <<>> /\ UNCHANGED <<immediate, queue>>
    BY DEF Serve
  <2>2. Quick(c) = {}
    BY <2>1, QuickIs, LineIs DEF Calm
  <2> QED
    BY <2>1, <2>2, NotQuick, LineIs DEF line, Quick
<1> PICK r : r = Head(line[c])
  OBVIOUS
<1>2. /\ line[c] # <<>> /\ reply[c] = None
      /\ server' = [d \in Contexts |->
           IF r.op = "delete" /\ d = r.file THEN {}
           ELSE IF d = c THEN (server[d] \ Taken(r)) \cup Added(r) ELSE server[d]]
      /\ reply' = [reply EXCEPT ![c] = server'[c]]
      /\ UNCHANGED <<viewVars, line, stuck>>
  BY <1>1 DEF Serve
<1>3. /\ View /\ View' /\ LineOK /\ RepliesOK /\ Shapes /\ Apart /\ Tight
      /\ server \in [Contexts -> SUBSET Accounts] /\ server' \in [Contexts -> SUBSET Accounts]
      /\ reply \in [Contexts -> (SUBSET Accounts) \cup {None}]
  BY Lined DEF FlowInv, Calm
<1>4. /\ UNCHANGED <<columns, made, place, cluster, shown>>
      /\ line' = line /\ stuck' = {}
  BY <1>2 DEF viewVars, Calm
<1>5. RequestOK(c, r) /\ r \in Range(line[c]) /\ IsSeq(line[c])
  BY <1>2, <1>3, TailIs DEF LineOK, AskedOK
<1>6. /\ r.op = "branch" => IsBranch(c)
      /\ r.op = "remove" => IsClean(c) \/ IsDrop(c) \/ IsMove(c)
      /\ r.op = "clear" => IsClean(c)
      /\ r.op = "insert" => IsInsert(c)
      /\ r.op = "fill" => IsFill(c)
      /\ r.op = "delete" => IsDelete(c)
      /\ r.op = "create" => IsCreate(c) \/ IsMove(c)
  BY <1>2, <1>3, HeadShape
<1>7. r.op = "delete" => r = Deleting(r.file)
  <2> SUFFICES ASSUME r.op = "delete"
               PROVE  r = Deleting(r.file)
    OBVIOUS
  <2>1. PICK f \in Files : line[c] = <<Deleting(f)>>
    BY <1>6 DEF IsDelete
  <2>2. r = Deleting(f)
    BY <2>1
  <2> QED
    BY <2>2 DEF Deleting
<1>8. r.op = "delete" =>
        /\ r.file \in Files /\ r.file \in Contexts /\ Live(r.file) /\ c \in Columns /\ place[r.file] = c
        /\ ColumnOf(r.file) = c /\ ColumnOf(c) = c /\ Alive(c) /\ c \in At(c) /\ ~OnlyLinks(c)
        /\ r.file # c
  <2> SUFFICES ASSUME r.op = "delete"
               PROVE  /\ r.file \in Files /\ r.file \in Contexts /\ Live(r.file) /\ c \in Columns
                      /\ place[r.file] = c
                      /\ ColumnOf(r.file) = c /\ ColumnOf(c) = c /\ Alive(c) /\ c \in At(c) /\ ~OnlyLinks(c)
                      /\ r.file # c
    OBVIOUS
  <2>1. PICK f : f = r.file
    OBVIOUS
  <2>2. Head(line[c]) = Deleting(f)
    BY <1>7, <2>1
  <2>3. f \in Files /\ c \in Columns => f # c
    BY FlowAssumption
  <2> QED
    BY <1>2, <1>3, <2>1, <2>2, <2>3, DeletingIs
<1>9. \A d \in Contexts : d # c /\ ~(r.op = "delete" /\ d = r.file) => server'[d] = server[d]
  BY <1>2
<1>10. server'[c] = (server[c] \ Taken(r)) \cup Added(r)
  BY <1>2, <1>8
<1>11. r.op = "remove" => server'[c] = server[c] \ {r.card.account}
  <2> SUFFICES ASSUME r.op = "remove"
               PROVE  server'[c] = server[c] \ {r.card.account}
    OBVIOUS
  <2>1. Taken(r) = {r.card.account} /\ Added(r) = {}
    BY DEF Taken, Added
  <2> QED
    BY <1>10, <2>1
<1>12. r.op \notin {"remove", "clear"} => \A a \in server[c] : a \in server'[c]
  <2> SUFFICES ASSUME r.op \notin {"remove", "clear"}
               PROVE  \A a \in server[c] : a \in server'[c]
    OBVIOUS
  <2>1. Taken(r) = {}
    BY DEF Taken
  <2> QED
    BY <1>10, <2>1
<1>13. server'[c] # server[c] => r.op \in {"branch", "insert", "fill", "remove", "clear"}
  <2> SUFFICES ASSUME r.op \notin {"branch", "insert", "fill", "remove", "clear"}
               PROVE  server'[c] = server[c]
    OBVIOUS
  <2>1. Taken(r) = {} /\ Added(r) = {}
    BY DEF Taken, Added
  <2> QED
    BY <1>10, <2>1
<1>14. r.op \in {"links", "create"} => server' = server
  <2> SUFFICES ASSUME r.op \in {"links", "create"}
               PROVE  server' = server
    OBVIOUS
  <2>1. \A d \in Contexts : d # c => server'[d] = server[d]
    BY <1>9
  <2>2. server'[c] = server[c]
    BY <1>13
  <2>3. \A d \in Contexts : server'[d] = server[d]
    BY <2>1, <2>2
  <2> QED
    BY <1>3, <2>3
<1>15. /\ reply'[c] = server'[c] /\ reply'[c] # None
       /\ \A s \in Contexts : s # c => reply'[s] = reply[s]
       /\ \A s \in Contexts : reply[s] # None => s # c /\ reply'[s] # None
  <2>1. reply'[c] = server'[c] /\ \A s \in Contexts : s # c => reply'[s] = reply[s]
    BY <1>2, <1>3
  <2>2. reply'[c] # None
    BY <1>3, <2>1, FlowAssumption
  <2> QED
    BY <1>2, <2>1, <2>2
<1>16. ASSUME NEW s \in Contexts, s # c, line[s] # <<>>
       PROVE  server'[s] = server[s]
  <2> SUFFICES ASSUME r.op = "delete", s = r.file
               PROVE  FALSE
    BY <1>9, <1>16
  <2>1. s \in Files /\ ColumnOf(s) = c /\ c \in At(c)
    BY <1>8
  <2>2. Alive(s)
    BY <1>3, <1>16, <2>1, FileQueue
  <2>3. c \in At(s)
    BY <2>1 DEF At, Works
  <2> QED
    BY <1>3, <1>8, <1>16, <2>1, <2>2, <2>3, Clash
<1>17. \A s : Members(s)' = Members(s)
  BY <1>4 DEF Members, In
<1>18. made <= made' /\ NewOnes /\ RowStep /\ Tight' /\ columns' = columns
  <2>1. Unpruned /\ \A d \in Columns : Occ(d)' <=> Occ(d)
    BY <1>4 DEF Unpruned, Occ
  <2> QED
    BY <1>3, <1>4, <2>1, SameRow
<1>19. \A w : ColumnOf(w)' = ColumnOf(w)
  BY <1>4 DEF ColumnOf
<1>20. \A s : Works(s)' = Works(s) /\ At(s)' = At(s) /\ (Alive(s)' <=> Alive(s))
  <2>1. \A s : Works(s)' = Works(s) /\ (Light(s)' <=> Light(s))
    BY <1>4 DEF Works, Light
  <2> QED
    BY <1>4, <1>19, <2>1 DEF At, Alive
<1>21. Shape(c)' /\ (c \in Columns => c <= made')
  <2>1. Shape(c) /\ (c \in Columns => c <= made')
    BY <1>2, <1>3, <1>4 DEF Shapes
  <2>2. IsMove(c) => \A f \in Files : f # c => server'[f] = server[f]
    <3>1. IsMove(c) => r.op # "delete"
      BY <1>2, <1>5, HeadIs
    <3> QED
      BY <1>9, <3>1 DEF Contexts
  <2> QED
    BY <1>4, <2>1, <2>2, ShapeStays
<1>22. Shapes' /\ Apart'
  <2>1. \E T, Z : Change(T, Z)
    <3>1. CASE server' = server
      <4>1. Change({}, {})
        BY <1>4, <1>17, <1>18, <3>1 DEF Change, Kept, Steady
      <4> QED
        BY <4>1
    <3>2. CASE Alive(c) /\ server' # server
      <4>1. Shape(c) /\ At(c) \subseteq Range(columns) /\ ColumnOf(c) \in At(c)
        BY <1>3, <3>2, ShapeIn DEF Shapes, Alive
      <4>2. ~OnlyLinks(c)
        <5>1. r.op # "links"
          BY <1>14, <3>2
        <5> QED
          BY <1>5, <5>1 DEF OnlyLinks
      <4>3. \A s \in Contexts \ {c} : Alive(s) => \A a \in At(s), z \in At(c) : ~NearBy(a, z)
        BY <3>2, <4>2, <1>3 DEF Apart, Separate
      <4>4. \A w \in Contexts : ColumnOf(w) \notin At(c) => Steady(w) /\ server'[w] = server[w]
        <5> SUFFICES ASSUME NEW w \in Contexts, ColumnOf(w) \notin At(c)
                     PROVE  Steady(w) /\ server'[w] = server[w]
          OBVIOUS
        <5>1. server'[w] = server[w]
          BY <1>8, <1>9, <4>1
        <5> QED
          BY <1>4, <1>17, <5>1 DEF Steady
      <4>5. Change({c}, At(c))
        BY <1>4, <1>18, <1>20, <1>21, <4>1, <4>3, <4>4 DEF Change, Kept
      <4> QED
        BY <4>5
    <3>3. CASE ~Alive(c) /\ server' # server
      <4>1. ~Light(c)
        <5> SUFFICES ASSUME NEW f \in Files, line[c] = <<Creating(f, {})>>
                     PROVE  FALSE
          BY DEF Light
        <5>1. r.op = "create"
          BY DEF Creating
        <5> QED
          BY <1>14, <3>3, <5>1
      <4>2. c \in Columns /\ c \notin Range(columns) /\ ColumnOf(c) = c
        BY <1>2, <1>3, <3>3, <4>1, DeadIs, ColumnIs DEF Shapes
      <4>3. \A w \in Contexts : ColumnOf(w) \in Range(columns) => Steady(w) /\ server'[w] = server[w]
        <5>1. r.op # "delete"
          BY <1>8, <3>3
        <5>2. \A w \in Contexts : w # c => server'[w] = server[w]
          BY <1>9, <5>1
        <5> QED
          BY <1>4, <1>17, <4>2, <5>2 DEF Steady
      <4>4. Change({c}, {})
        BY <1>4, <1>18, <1>20, <1>21, <3>3, <4>3 DEF Change, Kept
      <4> QED
        BY <4>4
    <3> QED
      BY <3>1, <3>2, <3>3
  <2> QED
    BY <1>3, <2>1, ShapesStep
<1>23. ReplyIs'
  <2> SUFFICES ASSUME NEW s \in Contexts, reply'[s] # None
               PROVE  reply'[s] = server'[s]
    BY DEF ReplyIs
  <2>1. CASE s = c
    BY <1>15, <2>1
  <2>2. CASE s # c
    <3>1. reply[s] # None /\ reply'[s] = reply[s]
      BY <1>15, <2>2
    <3>2. reply[s] = server[s] /\ line[s] # <<>>
      BY <1>3, <3>1 DEF Calm, ReplyIs, RepliesOK
    <3> QED
      BY <1>16, <2>2, <3>1, <3>2
  <2> QED
    BY <2>1, <2>2
<1>24. ColumnsAgree'
  <2> SUFFICES ASSUME NEW o \in shown', o.home \in Columns
               PROVE  o.account \in server'[o.home] \/ RemovalServed(o)'
    BY DEF ColumnsAgree
  <2>1. o \in shown /\ o.home \in Contexts /\ o \in Members(o.home)
    BY <1>4 DEF Contexts, Members, In
  <2>2. o.account \in server[o.home] \/ RemovalServed(o)
    BY <2>1 DEF Calm, ColumnsAgree
  <2>3. RemovalServed(o) => RemovalServed(o)'
    BY <1>4, <1>15, <2>1 DEF RemovalServed
  <2>4. CASE o.home # c
    <3>1. server'[o.home] = server[o.home]
      <4>1. r.op = "delete" => o.home # r.file
        BY <1>8, FlowAssumption
      <4> QED
        BY <1>9, <2>1, <2>4, <4>1
    <3> QED
      BY <2>2, <2>3, <3>1
  <2>5. CASE o.home = c /\ r.op = "remove"
    <3>1. r.card.home = c
      BY <1>5, <2>5 DEF RequestOK
    <3>2. r.card \in shown
      <4>1. CASE IsClean(c)
        <5>1. Len(line[c]) \in Nat /\ Len(line[c]) # 0 /\ r = line[c][1]
          BY <1>2, <1>5, EmptySeq, LenProperties DEF IsSeq
        <5>2. 1 \in 1..Len(line[c])
          BY <5>1
        <5>3. PICK p \in Members(c) : r = Removing(p, None)
          BY <2>5, <4>1, <5>1, <5>2 DEF IsClean
        <5> QED
          BY <5>3 DEF Removing, Members, In
      <4>2. CASE IsDrop(c)
        <5>1. PICK p \in Members(c) : r = Removing(p, None)
          BY <4>2 DEF IsDrop
        <5> QED
          BY <5>1 DEF Removing, Members, In
      <4>3. CASE IsMove(c)
        <5>1. PICK p \in Members(c), f \in Files :
                \/ line[c] = <<Removing(p, MoveTo(f))>>
                \/ \E g \in Files : line[c] = <<Creating(g, {}), Removing(p, MoveTo(f))>>
          BY <4>3 DEF IsMove
        <5>2. r = Removing(p, MoveTo(f))
          <6>1. CASE line[c] = <<Removing(p, MoveTo(f))>>
            BY <6>1
          <6>2. ASSUME NEW g \in Files, line[c] = <<Creating(g, {}), Removing(p, MoveTo(f))>>
                PROVE  FALSE
            <7>1. r = Creating(g, {})
              BY <6>2
            <7> QED
              BY <2>5, <7>1 DEF Creating
          <6> QED
            BY <5>1, <6>1, <6>2
        <5> QED
          BY <5>2 DEF Removing, Members, In
      <4> QED
        BY <1>6, <2>5, <4>1, <4>2, <4>3
    <3>3. r.card.account = o.account => r.card = o
      BY <1>3, <2>1, <2>5, <3>1, <3>2 DEF View, FitsIn, One
    <3>4. CASE r.card = o
      BY <1>4, <1>15, <2>5, <3>4 DEF RemovalServed
    <3>5. CASE r.card # o
      <4>1. r.card.account # o.account /\ server'[c] = server[c] \ {r.card.account}
        BY <1>11, <2>5, <3>3, <3>5
      <4>2. o.account \in server[c] => o.account \in server'[c]
        BY <4>1
      <4> QED
        BY <2>2, <2>3, <2>5, <4>2
    <3> QED
      BY <3>4, <3>5
  <2>6. CASE o.home = c /\ r.op = "clear"
    <3>1. IsClean(c)
      BY <1>6, <2>6
    <3>2. Len(line[c]) \in Nat /\ Len(line[c]) # 0 /\ r = line[c][1] /\ DOMAIN line[c] = 1..Len(line[c])
      BY <1>2, <1>5, EmptySeq, LenProperties DEF IsSeq
    <3>3. 1 \in 1..Len(line[c])
      BY <3>2
    <3>4. Removing(o, None) \in Range(line[c]) /\ Len(line[c]) = 1
      <4>1. \A p : Removing(p, None).op # "clear"
        BY DEF Removing
      <4>2. line[c][1].op = "clear"
        BY <2>6, <3>2
      <4>3. /\ 1 = Len(line[c])
            /\ \A p \in Members(c) : Removing(p, None) \in Range(line[c])
        BY <3>1, <3>3, <4>1, <4>2 DEF IsClean
      <4> QED
        BY <2>1, <2>6, <4>3
    <3>5. Removing(o, None) = r
      BY <3>2, <3>4 DEF Range
    <3> QED
      BY <2>6, <3>5 DEF Removing
  <2>7. CASE o.home = c /\ r.op \notin {"remove", "clear"}
    <3>1. o.account \in server[c] => o.account \in server'[c]
      BY <1>12, <2>7
    <3> QED
      BY <2>2, <2>3, <2>7, <3>1
  <2> QED
    BY <2>4, <2>5, <2>6, <2>7
<1>25. \A f \in Files : Unsettled(f) => Unsettled(f)'
  <2> SUFFICES ASSUME NEW f \in Files, Unsettled(f)
               PROVE  Unsettled(f)'
    OBVIOUS
  <2>1. f \in Contexts
    BY DEF Contexts
  <2>2. \A s : Moving(s, f)' <=> Moving(s, f)
    BY <1>4 DEF Moving
  <2> QED
    BY <1>4, <1>15, <2>1, <2>2 DEF Unsettled
<1>26. Settled'
  <2> SUFFICES ASSUME NEW f \in Files, Live(f)'
               PROVE  AccountsOf(Members(f)') = server'[f] \/ Unsettled(f)'
    BY DEF Settled, AccountsOf
  <2>1. Live(f) /\ f \in Contexts
    BY <1>4 DEF Live, Contexts
  <2>2. AccountsOf(Members(f)) = server[f] \/ Unsettled(f)
    BY <2>1 DEF Calm, Settled
  <2>3. CASE server'[f] = server[f]
    BY <1>17, <1>25, <2>2, <2>3
  <2>4. CASE r.op = "delete" /\ f = r.file
    <3>1. Head(line'[c]) = Deleting(f)
      BY <1>4, <1>7, <2>4
    <3> QED
      BY <1>15, <3>1 DEF Unsettled
  <2>5. CASE f = c /\ server'[f] # server[f]
    <3>1. r.op \in {"branch", "insert", "fill", "remove", "clear"}
      BY <1>13, <2>5
    <3>2. r.op \notin {"branch", "clear"}
      BY <1>6, <2>5, FlowAssumption DEF IsBranch, IsClean
    <3> QED
      BY <1>4, <1>15, <2>5, <3>1, <3>2 DEF Unsettled
  <2> QED
    BY <1>9, <2>1, <2>3, <2>4, <2>5
<1>27. Dropped'
  <2> SUFFICES ASSUME NEW f \in Files, reply'[f] # None, Head(line'[f]).op = "remove"
               PROVE  server'[f] = AccountsOf(Members(f)') \ {Head(line'[f]).card.account}
    BY DEF Dropped, AccountsOf
  <2>1. f \in Contexts
    BY DEF Contexts
  <2>2. CASE f # c
    <3>1. reply[f] # None /\ line[f] # <<>>
      BY <1>3, <1>15, <2>1, <2>2 DEF RepliesOK
    <3>2. server'[f] = server[f]
      BY <1>16, <2>1, <2>2, <3>1
    <3> QED
      BY <1>4, <1>17, <3>1, <3>2 DEF Calm, Dropped
  <2>3. CASE f = c
    <3>1. r.op = "remove" /\ Head(line'[f]) = r
      BY <1>4, <2>3
    <3>2. Live(c) /\ Alive(c) /\ ~OnlyLinks(c) /\ ColumnOf(c) \in At(c)
      BY <1>2, <1>3, <1>5, <2>3, <3>1, FileQueue DEF OnlyLinks, At, Works
    <3>3. ~Unsettled(c)
      <4>1. ASSUME NEW s \in Contexts, Moving(s, c)
            PROVE  FALSE
        <5>1. s # c /\ Alive(s) /\ ColumnOf(c) \in At(s)
          BY <1>3, <2>3, <4>1, MovingIs
        <5> QED
          BY <1>3, <3>2, <5>1, Clash
      <4>2. ASSUME NEW s \in Contexts, reply[s] # None, Head(line[s]) = Deleting(c)
            PROVE  FALSE
        <5>1. line[s] # <<>>
          BY <1>3, <4>2 DEF RepliesOK
        <5>2. s # c /\ Alive(s) /\ ColumnOf(c) \in At(s)
          <6>1. s \in Columns /\ Alive(s) /\ s \in At(s) /\ ColumnOf(c) = s
            BY <1>3, <4>2, <5>1, DeletingIs
          <6> QED
            BY <2>3, <6>1, FlowAssumption
        <5> QED
          BY <1>3, <3>2, <5>2, Clash
      <4> QED
        BY <1>2, <4>1, <4>2 DEF Unsettled
    <3>4. AccountsOf(Members(c)) = server[c]
      BY <2>3, <3>2, <3>3 DEF Calm, Settled
    <3>5. server'[c] = server[c] \ {r.card.account}
      BY <1>11, <3>1
    <3>6. AccountsOf(Members(c)') = AccountsOf(Members(c))
      BY <1>17
    <3> QED
      BY <2>3, <3>1, <3>4, <3>5, <3>6
  <2> QED
    BY <2>2, <2>3
<1>28. UnmadeEmpty'
  <2> SUFFICES ASSUME NEW f \in Files, place'[f] = None
               PROVE  server'[f] = {}
    BY DEF UnmadeEmpty
  <2>1. f \in Contexts /\ server[f] = {}
    BY <1>4 DEF Calm, UnmadeEmpty, Contexts
  <2>2. ~Live(f)
    BY <1>4, FlowAssumption DEF Live, Contexts
  <2>3. f # c
    BY <1>2, <1>3, <2>2, FileQueue
  <2>4. ~(r.op = "delete" /\ f = r.file)
    BY <1>8, <2>2
  <2> QED
    BY <1>9, <2>1, <2>3, <2>4
<1> QED
  BY <1>4, <1>18, <1>22, <1>23, <1>24, <1>26, <1>27, <1>28 DEF Calm

-----------------------------------------------------------------------------
(* The answers *)

\* The first request of context c has gone, and its callback asked for more.
Passed(c, asked) ==
  /\ \A s \in Contexts : line'[s] = (IF s = c THEN Tail(line[s]) ELSE line[s]) \o asked[s]
  /\ UNCHANGED stuck

\* What the context that was answered waits for now.
LEMMA DoneIs ==
  ASSUME LineOK, NEW c \in Contexts, line[c] # <<>>, NEW asked, AskedOK(asked), Passed(c, asked)
  PROVE  /\ \A s \in Contexts : s # c /\ asked[s] = <<>> => line'[s] = line[s]
         /\ \A s \in Contexts : s # c /\ line[s] = <<>> => line'[s] = asked[s]
         /\ \A s \in Contexts : s # c /\ line[s] # <<>> =>
              line'[s] # <<>> /\ Head(line'[s]) = Head(line[s])
         /\ \A s \in Contexts : s # c => Range(line[s]) \subseteq Range(line'[s])
         /\ \A q \in Range(line[c]) : q = Head(line[c]) \/ q \in Range(line'[c])
         /\ asked[c] = <<>> => line'[c] = Tail(line[c])
         /\ Tail(line[c]) = <<>> => line'[c] = asked[c]
         /\ stuck' = stuck
<1>1. /\ \A s \in Contexts : line'[s] = (IF s = c THEN Tail(line[s]) ELSE line[s]) \o asked[s]
      /\ stuck' = stuck
  BY DEF Passed
<1>2. \A s \in Contexts : IsSeq(line[s]) /\ IsSeq(asked[s])
  BY DEF LineOK, AskedOK
<1>3. IsSeq(Tail(line[c])) /\ Range(line[c]) = {Head(line[c])} \cup Range(Tail(line[c]))
  BY <1>2, TailIs
<1>4. ASSUME NEW s \in Contexts, s # c
      PROVE  /\ asked[s] = <<>> => line'[s] = line[s]
             /\ line[s] = <<>> => line'[s] = asked[s]
             /\ line[s] # <<>> => line'[s] # <<>> /\ Head(line'[s]) = Head(line[s])
             /\ Range(line[s]) \subseteq Range(line'[s])
  <2>1. line'[s] = line[s] \o asked[s]
    BY <1>1, <1>4
  <2> DEFINE q == line[s]
             a == asked[s]
             b == line'[s]
  <2>2. IsSeq(q) /\ IsSeq(a) /\ b = q \o a
    BY <1>2, <2>1
  <2> HIDE DEF q, a, b
  <2>3. (a = <<>> => b = q) /\ (q = <<>> => b = a)
    BY <2>2, NothingAdded
  <2>4. (q # <<>> => b # <<>> /\ Head(b) = Head(q)) /\ Range(q) \subseteq Range(b)
    BY <2>2, ConcatIs
  <2> QED
    BY <2>3, <2>4 DEF q, a, b
<1>5. /\ \A q \in Range(line[c]) : q = Head(line[c]) \/ q \in Range(line'[c])
      /\ asked[c] = <<>> => line'[c] = Tail(line[c])
      /\ Tail(line[c]) = <<>> => line'[c] = asked[c]
  <2>1. line'[c] = Tail(line[c]) \o asked[c]
    BY <1>1
  <2> DEFINE t == Tail(line[c])
             a == asked[c]
             b == line'[c]
  <2>2. IsSeq(t) /\ IsSeq(a) /\ b = t \o a
    BY <1>2, <1>3, <2>1
  <2>3. \A q \in Range(line[c]) : q = Head(line[c]) \/ q \in Range(t)
    BY <1>3
  <2> HIDE DEF t, a, b
  <2>4. (a = <<>> => b = t) /\ (t = <<>> => b = a)
    BY <2>2, NothingAdded
  <2>5. Range(t) \subseteq Range(b)
    BY <2>2, ConcatIs
  <2> QED
    BY <2>3, <2>4, <2>5 DEF t, a, b
<1> QED
  BY <1>1, <1>4, <1>5

\* Context c is answered: r is its first request, ids its members at the server.
Replied(c, r, ids) ==
  /\ c \in Contexts /\ line[c] # <<>> /\ r = Head(line[c])
  /\ IF Immediate(r) THEN Quick(c) = {r} /\ queue[c] = <<>> ELSE reply[c] # None
  /\ ids = server[c] /\ ids \in SUBSET Accounts
  /\ reply' = [reply EXCEPT ![c] = None] /\ UNCHANGED server

\* A request of the queue waits for no immediate one.
LEMMA QueueReplied ==
  ASSUME FlowInv, Calm, NEW c, NEW r, NEW ids, Replied(c, r, ids), ~Immediate(r)
  PROVE  reply[c] # None /\ Quick(c) = {} /\ line[c] = queue[c] /\ r \notin immediate
<1>1. LineOK /\ RepliesOK
  BY Lined
<1>2. c \in Contexts /\ reply[c] # None
  BY DEF Replied
<1>3. Quick(c) = {}
  BY <1>1, <1>2 DEF RepliesOK
<1>4. line[c] = queue[c]
  BY <1>1, <1>2, <1>3, NotQuick
<1>5. r \notin immediate
  BY <1>1 DEF LineOK, NowOK, NowAsked
<1> QED
  BY <1>2, <1>3, <1>4, <1>5

\* Whatever the request, it has gone, and what was asked for waits behind the others.
LEMMA DonePassed ==
  ASSUME FlowInv, Calm, NEW c, NEW r, NEW ids, Replied(c, r, ids),
         NEW asked, AskedOK(asked), Done(c, r, asked)
  PROVE  Passed(c, asked)
<1>1. /\ LineOK /\ Shapes /\ c \in Contexts /\ stuck' = stuck
      /\ queue' = [s \in Contexts |->
            (IF s = c /\ ~Immediate(r) THEN Tail(queue[s]) ELSE queue[s]) \o asked[s]]
      /\ immediate' = immediate \ {r}
  BY LineIs DEF Calm, Replied, Done, Finished
<1>2. ASSUME NEW s \in Contexts
      PROVE  /\ IsSeq(SetToSeq(Quick(s))) /\ IsSeq(queue[s]) /\ IsSeq(asked[s])
             /\ line[s] = SetToSeq(Quick(s)) \o queue[s]
             /\ line'[s] = SetToSeq(Quick(s)') \o queue'[s]
  <2>1. IsSeq(SetToSeq(Quick(s)))
    BY <1>1, InLine DEF LineOK, QueueOK, NowOK, Quick
  <2>2. IsSeq(queue[s]) /\ IsSeq(asked[s])
    BY <1>1 DEF LineOK, QueueOK, AskedOK
  <2>3. /\ line[s] = SetToSeq(Quick(s)) \o queue[s]
        /\ line'[s] = SetToSeq(Quick(s)') \o queue'[s]
    BY DEF line
  <2> QED
    BY <2>1, <2>2, <2>3
<1>3. ASSUME NEW s \in Contexts, s # c, Quick(s)' = Quick(s)
      PROVE  line'[s] = line[s] \o asked[s]
  <2> DEFINE u == SetToSeq(Quick(s))
             q == queue[s]
             a == asked[s]
  <2>1. line'[s] = u \o (q \o a) /\ line[s] = u \o q
    BY <1>1, <1>2, <1>3
  <2>2. IsSeq(u) /\ IsSeq(q) /\ IsSeq(a)
    BY <1>2
  <2> HIDE DEF u, q, a
  <2>3. (u \o q) \o a = u \o (q \o a)
    BY <2>2, Associative
  <2> QED
    BY <2>1, <2>3 DEF a
<1>4. CASE ~Immediate(r)
  <2>1. Quick(c) = {} /\ line[c] = queue[c] /\ r \notin immediate
    BY <1>4, QueueReplied
  <2>2. \A s : Quick(s)' = Quick(s)
    BY <1>1, <2>1 DEF Quick
  <2>3. line'[c] = Tail(line[c]) \o asked[c]
    <3> DEFINE q == Tail(queue[c]) \o asked[c]
    <3>1. line'[c] = <<>> \o q
      BY <1>1, <1>2, <1>4, <2>1, <2>2, ListedOne
    <3>2. line[c] # <<>>
      BY DEF Replied
    <3>3. IsSeq(Tail(queue[c]))
      BY <1>1, <1>2, <2>1, <3>2, TailIs
    <3>4. IsSeq(q)
      BY <1>1, <1>2, <3>3, ConcatIs
    <3> HIDE DEF q
    <3>5. line'[c] = q
      BY <3>1, <3>4, NothingAdded
    <3> QED
      BY <2>1, <3>5 DEF q
  <2> QED
    BY <1>1, <1>3, <2>2, <2>3 DEF Passed
<1>5. CASE Immediate(r)
  <2>1. Quick(c) = {r} /\ queue[c] = <<>>
    BY <1>5 DEF Replied
  <2>2. r.file = c /\ Quick(c)' = {} /\ \A s : s # c => Quick(s)' = Quick(s)
    BY <1>1, <2>1 DEF Quick
  <2>3. line[c] = <<r>>
    <3>1. line[c] = SetToSeq(Quick(c)) \o queue[c]
      BY <1>1, <1>2
    <3>2. SetToSeq({r}) = <<r>>
      BY ListedOne
    <3>3. line[c] = <<r>> \o <<>>
      BY <2>1, <3>1, <3>2
    <3>4. IsSeq(<<r>>)
      BY OneRequest
    <3> QED
      BY <3>3, <3>4, NothingAdded
  <2>4. Tail(line[c]) = <<>>
    BY <2>3
  <2>5. line'[c] = <<>> \o asked[c]
    <3>1. queue'[c] = <<>> \o asked[c] /\ IsSeq(asked[c])
      BY <1>1, <1>2, <1>5, <2>1
    <3>2. queue'[c] = asked[c]
      BY <3>1, NothingAdded
    <3>3. SetToSeq(Quick(c)') = <<>>
      BY <2>2, ListedOne
    <3> QED
      BY <1>1, <1>2, <3>2, <3>3
  <2> QED
    BY <1>1, <1>3, <2>2, <2>4, <2>5 DEF Passed
<1> QED
  BY <1>4, <1>5

\* A cluster that is expanded is all that its file waits for.
LEMMA SendsPassed ==
  ASSUME FlowInv, Calm, NEW c, NEW r, NEW ids, Replied(c, r, ids), ~Immediate(r),
         Tail(line[c]) = <<>>, NEW f \in Files, f # c => line[f] = <<>>,
         NEW n, Sends(c, r, Expanding(f, n))
  PROVE  Passed(c, Only(f, <<Expanding(f, n)>>))
<1> PICK e : e = Expanding(f, n)
  OBVIOUS
<1> PICK asked : asked = Only(f, <<e>>)
  OBVIOUS
<1>1. /\ LineOK /\ Shapes /\ c \in Contexts /\ f \in Contexts /\ stuck' = stuck /\ e.file = f
      /\ queue' = [s \in Contexts |-> (IF s = c THEN Tail(queue[s]) ELSE queue[s]) \o <<>>]
      /\ immediate' = (immediate \ {r}) \cup {e}
  BY LineIs DEF Calm, Replied, Sends, Finished, Nothing, Expanding, Contexts
<1>2. Quick(c) = {} /\ line[c] = queue[c] /\ r \notin immediate
  BY QueueReplied
<1>3. ASSUME NEW s \in Contexts
      PROVE  /\ IsSeq(queue[s]) /\ line[s] = SetToSeq(Quick(s)) \o queue[s]
             /\ line'[s] = SetToSeq(Quick(s)') \o queue'[s]
             /\ Quick(s)' = IF s = f THEN Quick(s) \cup {e} ELSE Quick(s)
  BY <1>1, <1>2 DEF LineOK, QueueOK, AskedOK, Quick, line
<1>4. IsSeq(<<>>) /\ <<>> \o <<>> = <<>>
  <2>1. IsSeq(<<>>)
    BY EmptySeq DEF IsSeq
  <2> QED
    BY <2>1, NothingAdded
<1>5. queue'[c] = <<>>
  BY <1>1, <1>2, <1>4
<1>6. \A s \in Contexts : s # c => queue'[s] = queue[s]
  BY <1>1, <1>3, NothingAdded
<1>7. asked[f] = <<e>> /\ \A s \in Contexts : s # f => asked[s] = <<>>
  BY <1>1 DEF Only, Nothing
<1>8. Quick(f) = {} /\ queue'[f] = <<>>
  <2>1. CASE f = c
    BY <1>2, <1>5, <2>1
  <2>2. CASE f # c
    <3>1. Quick(f) = {}
      BY <1>1, <2>2, QuickIs
    <3>2. queue[f] = <<>>
      BY <1>1, <2>2, <3>1, NotQuick
    <3> QED
      BY <1>1, <1>6, <2>2, <3>1, <3>2
  <2> QED
    BY <2>1, <2>2
<1>9. IsSeq(<<e>>) /\ <<e>> \o <<>> = <<e>> /\ <<>> \o <<e>> = <<e>>
  BY OneRequest, NothingAdded
<1>10. line'[f] = <<e>>
  <2>1. Quick(f)' = {e}
    BY <1>1, <1>3, <1>8
  <2>2. line'[f] = SetToSeq(Quick(f)') \o queue'[f]
    BY <1>1, <1>3
  <2>3. SetToSeq({e}) = <<e>>
    BY ListedOne
  <2>4. line'[f] = <<e>> \o <<>>
    BY <1>8, <2>1, <2>2, <2>3
  <2> QED
    BY <1>9, <2>4
<1>11. ASSUME NEW s \in Contexts
       PROVE  line'[s] = (IF s = c THEN Tail(line[s]) ELSE line[s]) \o asked[s]
  <2>1. CASE s = f
    BY <1>7, <1>9, <1>10, <2>1
  <2>2. CASE s = c /\ s # f
    <3>1. line'[s] = <<>>
      BY <1>2, <1>3, <1>4, <1>5, <2>2, ListedOne
    <3> QED
      BY <1>4, <1>7, <2>2, <3>1
  <2>3. CASE s # c /\ s # f
    <3>1. line'[s] = line[s]
      BY <1>3, <1>6, <2>3
    <3>2. IsSeq(line[s])
      BY <1>1 DEF LineOK, AskedOK
    <3> QED
      BY <1>7, <2>3, <3>1, <3>2, NothingAdded
  <2> QED
    BY <2>1, <2>2, <2>3
<1> QED
  BY <1>1, <1>11 DEF Passed

\* What the view and the server agree on, when the first request r of c is done.
Agreed(c, r) ==
  /\ \A o \in shown' : o.home \in Columns => o \in shown \/ o.account \in server[o.home]
  /\ r.op = "remove" => r.card \notin shown'
  /\ \A f \in Files : place'[f] = place[f] \/ place'[f] = Gone
  /\ \A f \in Files : f # c /\ reply[f] # None => Members(f)' = Members(f)
  /\ \A f \in Files : Live(f)' =>
       \/ AccountsOf(Members(f)') = server[f] \/ \E s \in Contexts : Moving(s, f)'
       \/ /\ AccountsOf(Members(f)') = AccountsOf(Members(f))
          /\ f = c => r.op \notin {"remove", "insert", "fill"}
          /\ ~(r.op = "remove" /\ r.move # None /\ r.move.file = f) /\ r # Deleting(f)

LEMMA AnswerRest ==
  ASSUME FlowInv, Calm, NEW c \in Contexts, line[c] # <<>>, reply' = [reply EXCEPT ![c] = None],
         UNCHANGED server, NEW asked, AskedOK(asked), Passed(c, asked),
         NEW r, r = Head(line[c]), Agreed(c, r)
  PROVE  stuck' = {} /\ ColumnsAgree' /\ Settled' /\ ReplyIs' /\ Dropped' /\ UnmadeEmpty'
<1>1. /\ LineOK /\ RepliesOK /\ View
      /\ reply \in [Contexts -> (SUBSET Accounts) \cup {None}]
  BY Lined DEF FlowInv
<1>2. /\ reply'[c] = None
      /\ \A s \in Contexts : s # c => reply'[s] = reply[s]
      /\ \A s \in Contexts : reply'[s] # None => s # c /\ reply'[s] = reply[s]
  BY <1>1
<1>3. /\ \A s \in Contexts : s # c /\ line[s] # <<>> => line'[s] # <<>> /\ Head(line'[s]) = Head(line[s])
      /\ \A s \in Contexts : s # c => Range(line[s]) \subseteq Range(line'[s])
      /\ \A q \in Range(line[c]) : q = r \/ q \in Range(line'[c])
      /\ stuck' = stuck
  BY <1>1, DoneIs
<1>4. \A s \in Contexts : s # c /\ reply[s] # None => Head(line'[s]) = Head(line[s])
  BY <1>1, <1>3 DEF RepliesOK
<1>5. ReplyIs'
  BY <1>2 DEF Calm, ReplyIs
<1>6. ColumnsAgree'
  <2> SUFFICES ASSUME NEW o \in shown', o.home \in Columns
               PROVE  o.account \in server'[o.home] \/ RemovalServed(o)'
    BY DEF ColumnsAgree
  <2>1. CASE o.account \in server[o.home]
    BY <2>1
  <2>2. CASE o \in shown /\ o.account \notin server[o.home]
    <3>1. RemovalServed(o) /\ o.home \in Contexts
      BY <2>2 DEF Calm, ColumnsAgree, Contexts
    <3>2. o.home # c
      BY <3>1 DEF RemovalServed, Agreed
    <3> QED
      BY <1>2, <1>4, <3>1, <3>2 DEF RemovalServed
  <2> QED
    BY <2>1, <2>2 DEF Agreed
<1>7. Settled'
  <2> SUFFICES ASSUME NEW f \in Files, Live(f)', AccountsOf(Members(f)') # server[f], ~\E s \in Contexts : Moving(s, f)'
               PROVE  Unsettled(f)'
    BY DEF Settled, AccountsOf, Unsettled
  <2>1. f \in Contexts /\ Gone \notin Columns
    BY FlowAssumption DEF Contexts
  <2>2. /\ AccountsOf(Members(f)') = AccountsOf(Members(f))
        /\ f = c => r.op \notin {"remove", "insert", "fill"}
        /\ ~(r.op = "remove" /\ r.move # None /\ r.move.file = f) /\ r # Deleting(f)
    BY DEF Agreed
  <2>3. Live(f)
    BY <2>1 DEF Agreed, Live
  <2>4. Unsettled(f)
    BY <2>2, <2>3 DEF Calm, Settled
  <2>5. ASSUME NEW s \in Contexts, Moving(s, f)
        PROVE  FALSE
    <3>1. PICK q \in Range(line[s]) : q.op = "remove" /\ q.move # None /\ q.move.file = f
      BY <2>5 DEF Moving
    <3>2. q \in Range(line'[s])
      BY <1>3, <2>2, <3>1
    <3>3. Moving(s, f)'
      BY <3>1, <3>2 DEF Moving
    <3> QED
      BY <3>3
  <2>6. CASE reply[f] # None /\ Head(line[f]).op \in {"remove", "insert", "fill"}
    <3>1. f # c
      BY <2>2, <2>6
    <3> QED
      BY <1>2, <1>4, <2>1, <2>6, <3>1 DEF Unsettled
  <2>7. ASSUME NEW s \in Contexts, reply[s] # None, Head(line[s]) = Deleting(f)
        PROVE  Unsettled(f)'
    <3>1. s # c
      BY <2>2, <2>7
    <3> QED
      BY <1>2, <1>4, <2>7, <3>1 DEF Unsettled
  <2> QED
    BY <2>4, <2>5, <2>6, <2>7 DEF Unsettled
<1>8. Dropped'
  <2> SUFFICES ASSUME NEW f \in Files, reply'[f] # None, Head(line'[f]).op = "remove"
               PROVE  server'[f] = AccountsOf(Members(f)') \ {Head(line'[f]).card.account}
    BY DEF Dropped, AccountsOf
  <2>1. f \in Contexts
    BY DEF Contexts
  <2>2. f # c /\ reply[f] # None /\ Head(line'[f]) = Head(line[f])
    BY <1>2, <1>4, <2>1
  <2>3. Members(f)' = Members(f)
    BY <2>2 DEF Agreed
  <2> QED
    BY <2>2, <2>3 DEF Calm, Dropped
<1>9. UnmadeEmpty'
  BY FlowAssumption DEF Calm, UnmadeEmpty, Agreed
<1> QED
  BY <1>3, <1>5, <1>6, <1>7, <1>8, <1>9 DEF Calm

\* What a first request that is not one of links does, where its context works: nothing
\* else is at work near there.
AnswerOf(c, r, asked, T) ==
  /\ c \in Contexts /\ line[c] # <<>> /\ reply' = [reply EXCEPT ![c] = None] /\ UNCHANGED server
  /\ AskedOK(asked) /\ Passed(c, asked) /\ r = Head(line[c])
  /\ T \subseteq Contexts /\ c \in T /\ \A s \in Contexts \ T : asked[s] = <<>>
  /\ \A x \in T : ColumnOf(x) \in At(c)

\* What the answer leaves in the contexts of T.
Left(c, T) ==
  /\ \A x \in T : line'[x] # <<>> => Shape(x)'
  /\ \A x \in T : Alive(x)' => At(x)' \subseteq At(c)
  /\ \A x, y \in T : x # y /\ Alive(x)' /\ Alive(y)' =>
       OnlyLinks(x)' /\ OnlyLinks(y)' /\ ColumnOf(x)' = ColumnOf(y)'

\* How the view changes where context c works.
Shown(c, r) ==
  /\ \A o \in shown' : o.home \in Columns => o \in shown \/ o.account \in server[o.home]
  /\ r.op = "remove" => r.card \notin shown'
  /\ \A f \in Files : place'[f] = place[f] \/ place'[f] = Gone
  /\ \A w \in Contexts : ColumnOf(w) \in Range(columns) \ At(c) => Steady(w)
  /\ \A f \in Files : Live(f)' /\ place[f] \in At(c) =>
       \/ AccountsOf(Members(f)') = server[f] \/ \E s \in Contexts : Moving(s, f)'
       \/ /\ AccountsOf(Members(f)') = AccountsOf(Members(f))
          /\ f = c => r.op \notin {"remove", "insert", "fill"}
          /\ ~(r.op = "remove" /\ r.move # None /\ r.move.file = f) /\ r # Deleting(f)

LEMMA AloneCalm ==
  ASSUME FlowInv, FlowInv', Calm, NEW c, NEW r, NEW asked, NEW T, AnswerOf(c, r, asked, T),
         Alive(c), ~OnlyLinks(c),
         made <= made', NewOnes, RowStep, Tight', Left(c, T), Shown(c, r)
  PROVE  Calm'
<1>1. /\ View /\ View' /\ LineOK /\ RepliesOK /\ Shapes /\ Apart /\ Tight /\ c \in Contexts
      /\ server \in [Contexts -> SUBSET Accounts]
  BY Lined DEF FlowInv, Calm, AnswerOf
<1>2. line[c] # <<>>
  BY DEF Alive
<1>3. /\ Shape(c) /\ At(c) \subseteq Range(columns) /\ ColumnOf(c) \in At(c)
      /\ Range(columns) \subseteq Columns
  BY <1>1, ShapeIn, RowIs DEF Shapes, Alive, View
<1>4. \A s \in Contexts : s # c /\ asked[s] = <<>> => line'[s] = line[s]
  <2>1. AskedOK(asked) /\ Passed(c, asked)
    BY DEF AnswerOf
  <2> QED
    BY <1>1, <1>2, <2>1, DoneIs
<1>5. \A s \in Contexts \ T : Alive(s) => \A a \in At(s), z \in At(c) : ~NearBy(a, z)
  BY <1>1 DEF Apart, Separate, AnswerOf
<1>6. \A s \in Contexts \ T : Alive(s) => Packed
  BY <1>1, Alone DEF AnswerOf, Packed
<1>7. Change(T, At(c))
  <2>1. \A x \in T : x \in Columns => x <= made'
    <3> SUFFICES ASSUME NEW x \in T, x \in Columns
                 PROVE  x <= made'
      OBVIOUS
    <3>1. x \in Range(columns)
      BY <1>3, ColumnIs DEF AnswerOf
    <3>2. x <= made /\ x \in Nat /\ made \in Nat /\ made' \in Nat
      BY <1>1, <3>1, ColumnMade DEF View, RowOK, Columns
    <3> QED
      BY <3>2
  <2>2. \A s \in Contexts \ T : line'[s] = line[s]
    BY <1>4 DEF AnswerOf
  <2>3. (RowStep /\ Kept(T)) \/ \A s \in Contexts \ T : ~Alive(s)
    BY <1>6 DEF Kept
  <2>4. \A w \in Contexts : ColumnOf(w) \in Range(columns) \ At(c) => Steady(w) /\ server'[w] = server[w]
    BY DEF Shown, AnswerOf
  <2>5. T \subseteq Contexts
    BY DEF AnswerOf
  <2> QED
    BY <1>3, <1>5, <2>1, <2>2, <2>3, <2>4, <2>5 DEF Change, Left
<1>8. Shapes' /\ Apart'
  BY <1>1, <1>7, ShapesStep
<1>9. \A f \in Files : f # c /\ line[f] # <<>> =>
        f \in Contexts /\ ColumnOf(f) = place[f] /\ place[f] \in Range(columns) \ At(c)
  <2> SUFFICES ASSUME NEW f \in Files, f # c, line[f] # <<>>
               PROVE  f \in Contexts /\ ColumnOf(f) = place[f] /\ place[f] \in Range(columns) \ At(c)
    OBVIOUS
  <2>1. Live(f) /\ Alive(f)
    BY <1>1, FileQueue
  <2>2. f \in Contexts /\ ColumnOf(f) = place[f] /\ place[f] \in Range(columns)
    BY <1>1, <2>1, FileIn
  <2>3. ColumnOf(f) \in At(f)
    BY <2>2 DEF At, Works
  <2> QED
    BY <1>1, <2>1, <2>2, <2>3, Clash
<1>10. Agreed(c, r)
  <2>1. \A f \in Files : f # c /\ reply[f] # None => Members(f)' = Members(f)
    <3> SUFFICES ASSUME NEW f \in Files, f # c, reply[f] # None
                 PROVE  Members(f)' = Members(f)
      OBVIOUS
    <3>1. line[f] # <<>>
      BY <1>1 DEF RepliesOK, Contexts
    <3>2. f \in Contexts /\ ColumnOf(f) \in Range(columns) \ At(c)
      BY <1>9, <3>1
    <3> QED
      BY <3>2 DEF Shown, Steady
  <2>2. ASSUME NEW f \in Files, Live(f)', place[f] \notin At(c)
        PROVE  /\ AccountsOf(Members(f)') = AccountsOf(Members(f))
               /\ f = c => r.op \notin {"remove", "insert", "fill"}
               /\ ~(r.op = "remove" /\ r.move # None /\ r.move.file = f) /\ r # Deleting(f)
    <3>1. Live(f)
      BY <2>2, FlowAssumption DEF Shown, Live, Contexts
    <3>2. f \in Contexts /\ ColumnOf(f) = place[f] /\ place[f] \in Range(columns)
      BY <1>1, <3>1, FileIn
    <3>3. Members(f)' = Members(f)
      BY <2>2, <3>2 DEF Shown, Steady
    <3>4. f # c
      BY <1>3, <2>2, <3>2
    <3>5. ~(r.op = "remove" /\ r.move # None /\ r.move.file = f)
      <4> SUFFICES ASSUME r.op = "remove", r.move # None, r.move.file = f
                   PROVE  FALSE
        OBVIOUS
      <4>1. r \in Range(line[c])
        BY <1>1, <1>2, TailIs DEF AnswerOf, LineOK, AskedOK
      <4>2. f \in Works(c)
        BY <3>2, <4>1 DEF Works
      <4> QED
        BY <2>2, <3>2, <4>2 DEF At
    <3>6. r # Deleting(f)
      <4> SUFFICES ASSUME r = Deleting(f)
                   PROVE  FALSE
        OBVIOUS
      <4>1. c \in At(c) /\ place[f] = c
        BY <1>1, <1>2, DeletingIs DEF AnswerOf
      <4> QED
        BY <2>2, <4>1
    <3> QED
      BY <3>3, <3>4, <3>5, <3>6
  <2> QED
    BY <2>1, <2>2 DEF Agreed, Shown
<1>11. stuck' = {} /\ ColumnsAgree' /\ Settled' /\ ReplyIs' /\ Dropped' /\ UnmadeEmpty'
  BY <1>10, AnswerRest DEF AnswerOf
<1> QED
  BY <1>8, <1>11 DEF Calm

\* A request of links, or one that asked for nothing more, is done: the view stays.
LEMMA QuietCalm ==
  ASSUME FlowInv, FlowInv', Calm, NEW c \in Contexts, line[c] # <<>>,
         reply' = [reply EXCEPT ![c] = None], UNCHANGED server,
         Passed(c, Nothing), UNCHANGED viewVars, Head(line[c]).op \notin {"remove", "insert", "fill", "delete"},
         line'[c] # <<>> => Shape(c)' /\ (Alive(c)' => Alive(c))
  PROVE  Calm'
<1> PICK r : r = Head(line[c])
  OBVIOUS
<1>1. /\ View /\ View' /\ LineOK /\ RepliesOK /\ Shapes /\ Apart /\ Tight /\ line[c] # <<>>
      /\ AskedOK(Nothing)
  BY NothingIs, Lined DEF FlowInv, Calm, RepliesOK
<1>2. UNCHANGED <<columns, made, place, cluster, shown>>
  BY DEF viewVars
<1>3. /\ \A s \in Contexts : s # c => line'[s] = line[s]
      /\ line'[c] = Tail(line[c]) /\ Range(line'[c]) \subseteq Range(line[c])
  <2>1. /\ \A s \in Contexts : s # c => line'[s] = line[s]
        /\ line'[c] = Tail(line[c])
    <3>1. \A s \in Contexts : Nothing[s] = <<>>
      BY DEF Nothing
    <3> QED
      BY <1>1, <3>1, DoneIs
  <2>2. Range(Tail(line[c])) \subseteq Range(line[c])
    BY <1>1, TailIs DEF LineOK, AskedOK
  <2> QED
    BY <2>1, <2>2
<1>4. \A w : ColumnOf(w)' = ColumnOf(w) /\ Members(w)' = Members(w)
  BY <1>2 DEF ColumnOf, Members, In
<1>5. ASSUME NEW s \in Contexts, s # c
      PROVE  /\ line[s] # <<>> => Shape(s)'
             /\ At(s)' = At(s) /\ (Alive(s)' <=> Alive(s)) /\ (OnlyLinks(s)' <=> OnlyLinks(s))
  <2>1. line[s] # <<>> => Shape(s)'
    BY <1>1, <1>2, <1>3, <1>5, ShapeStays DEF Shapes
  <2>2. Works(s)' = Works(s) /\ (Light(s)' <=> Light(s)) /\ (OnlyLinks(s)' <=> OnlyLinks(s))
    BY <1>3, <1>5 DEF Works, Light, OnlyLinks
  <2> QED
    BY <1>2, <1>3, <1>4, <1>5, <2>1, <2>2 DEF At, Alive
<1>6. Shapes'
  BY <1>1, <1>2, <1>3, <1>5 DEF Shapes, Alive
<1>7. At(c)' \subseteq At(c) /\ (OnlyLinks(c) => OnlyLinks(c)') /\ (Alive(c)' => Alive(c))
  <2>1. Works(c)' \subseteq Works(c)
    BY <1>3 DEF Works
  <2> QED
    BY <1>3, <1>4, <2>1 DEF At, OnlyLinks, Alive
<1>8. \A s, t \in Contexts : Separate(s, t) => Separate(s, t)'
  <2>1. \A s \in Contexts : At(s)' \subseteq At(s)
    BY <1>5, <1>7
  <2>2. \A a, b : NearBy(a, b)' <=> NearBy(a, b)
    BY <1>2 DEF NearBy
  <2> QED
    BY <2>1, <2>2 DEF Separate
<1>9. Apart'
  <2> SUFFICES ASSUME NEW s \in Contexts, NEW t \in Contexts, s # t, Alive(s)', Alive(t)'
               PROVE  \/ OnlyLinks(s)' /\ OnlyLinks(t)' /\ ColumnOf(s)' = ColumnOf(t)'
                      \/ Separate(s, t)'
    BY DEF Apart
  <2>1. Alive(s) /\ Alive(t)
    BY <1>5, <1>7
  <2>2. (OnlyLinks(s) => OnlyLinks(s)') /\ (OnlyLinks(t) => OnlyLinks(t)')
    BY <1>5, <1>7
  <2>3. \/ OnlyLinks(s) /\ OnlyLinks(t) /\ ColumnOf(s) = ColumnOf(t)
        \/ Separate(s, t)
    BY <1>1, <2>1 DEF Apart
  <2> QED
    BY <1>4, <1>8, <2>2, <2>3
<1>10. Agreed(c, r)
  <2>1. r \in Range(line[c])
    BY <1>1, TailIs DEF LineOK, AskedOK
  <2>2. \A f : r # Deleting(f)
    BY DEF Deleting
  <2> QED
    BY <1>2, <1>4, <2>2 DEF Agreed
<1>11. Tight'
  BY <1>1, <1>2 DEF Tight
<1>12. stuck' = {} /\ ColumnsAgree' /\ Settled' /\ ReplyIs' /\ Dropped' /\ UnmadeEmpty'
  BY <1>1, <1>10, AnswerRest
<1> QED
  BY <1>6, <1>9, <1>11, <1>12 DEF Calm

\* New cards are for the accounts that were told.
LEMMA NewAccounts ==
  ASSUME LineOK, NEW c \in Contexts, NEW ids \in SUBSET Accounts
  PROVE  /\ AccountsOf(NewCards(c, ids)) = ids
         /\ \A o \in NewCards(c, ids) : o.home = c /\ o.account \in ids
<1>1. \A a \in ids : NewCard(c, a).account = a
  BY DEF NewCard
<1>2. \A o \in NewCards(c, ids) : o.home = c /\ o.account \in ids
  BY NewCardsAre DEF LineOK
<1> QED
  BY <1>1, <1>2 DEF AccountsOf, NewCards

\* Links are asked for between a column and those beside it.
LEMMA LinksShape ==
  ASSUME View', NEW objects, NEW e \in Columns, Occ(e)', NEW s \in Contexts,
         NEW q, q = LinksAsked(objects, e)[s]
  PROVE  /\ In(s, objects) = {} => q = <<>>
         /\ e \in Range(columns')
         /\ \A r \in Range(q) : \E d \in Columns, t \in Contexts, found \in BOOLEAN :
              r = Linking(e, d, t, found) /\ (found => Occ(d)' /\ NearBy(e, d)')
<1> PICK row, cards, places : row = columns' /\ cards = shown' /\ places = place'
  OBVIOUS
<1>1. /\ made' \in Columns /\ row \in Seq(1..made') /\ IsInjective(row) /\ Len(row) >= 3
      /\ FitsIn(cards, places, Range(row))
      /\ \A c \in {row[1], row[Len(row)]} : ~Occupied(c, cards, places)
  BY DEF View, RowOK, EndsEmpty, Members, FilesIn, Occupied
<1>2. \A d : Occ(d)' <=> Occupied(d, cards, places)
  BY DEF Occ
<1>3. \A a, b : NearBy(a, b)' <=> (a = b /\ a \in Range(row)) \/ Beside(row, a, b) \/ Beside(row, b, a)
  BY DEF NearBy
<1> DEFINE n == Len(row)
<1>4. n \in Nat /\ DOMAIN row = 1..n /\ n >= 3
  BY <1>1, LenProperties
<1>5. Range(row) \subseteq Columns
  <2>1. Range(row) \subseteq 1..made'
    BY <1>1, SeqIs
  <2>2. 1..made' \subseteq Columns
    BY <1>1, FlowAssumption DEF Columns
  <2> QED
    BY <2>1, <2>2
<1>6. e \in Range(row) /\ e # row[1] /\ e # row[n]
  BY <1>1, <1>2, OccupiedIn
<1> DEFINE at == CHOOSE i \in DOMAIN row : row[i] = e
           next(right) == row[IF right THEN at + 1 ELSE at - 1]
           CardsAt(d) == {o \in cards : o.home = d \/ (o.home \in Files /\ places[o.home] = d)}
           homes(d) == {o.home : o \in CardsAt(d)}
           found(right, t) == \E o \in In(s, objects), p \in In(t, CardsAt(next(right))) :
                                p.account \in Neighbours(o.account, right)
           links(right) == {Linking(e, next(right), t, found(right, t)) : t \in homes(next(right))}
<1>7. at \in 1..n /\ row[at] = e
  BY <1>4, <1>6 DEF Range
<1>8. at + 1 \in 1..n /\ at - 1 \in 1..n /\ at \in 1..(n - 1) /\ at - 1 \in 1..(n - 1) /\ at - 1 + 1 = at
  BY <1>4, <1>6, <1>7
<1>9. \A right \in BOOLEAN : next(right) \in Columns /\ NearBy(e, next(right))'
  <2>1. next(TRUE) \in Columns /\ next(FALSE) \in Columns
    BY <1>4, <1>5, <1>8 DEF Range
  <2>2. Beside(row, e, next(TRUE)) /\ Beside(row, next(FALSE), e)
    <3>1. next(TRUE) = row[at + 1] /\ next(FALSE) = row[at - 1]
      OBVIOUS
    <3> HIDE DEF next, at, n
    <3>2. Beside(row, e, row[at + 1])
      BY <1>7, <1>8 DEF Beside, n
    <3>3. row[at - 1 + 1] = e
      BY <1>7, <1>8
    <3>4. Beside(row, row[at - 1], e)
      BY <1>8, <3>3 DEF Beside, n
    <3> QED
      BY <3>1, <3>2, <3>4
  <2> HIDE DEF next
  <2>3. \A right \in BOOLEAN : right = TRUE \/ right = FALSE
    OBVIOUS
  <2> QED
    BY <1>3, <2>1, <2>2, <2>3
<1>10. ASSUME NEW d, NEW t \in homes(d)
       PROVE  t \in Contexts /\ Occupied(d, cards, places)
  BY <1>1 DEF FitsIn, Card, Occupied, In
<1>11. ASSUME NEW right \in BOOLEAN, NEW r \in links(right)
       PROVE  \E d \in Columns, t \in Contexts, f \in BOOLEAN :
                r = Linking(e, d, t, f) /\ (f => Occ(d)' /\ NearBy(e, d)')
  <2>1. PICK t \in homes(next(right)) : r = Linking(e, next(right), t, found(right, t))
    OBVIOUS
  <2>2. PICK d : d = next(right)
    OBVIOUS
  <2>3. PICK f : f = found(right, t)
    OBVIOUS
  <2>4. f \in BOOLEAN
    BY <2>3
  <2>5. d \in Columns /\ NearBy(e, d)'
    BY <1>9, <2>2
  <2>6. t \in Contexts /\ Occ(d)'
    BY <1>2, <1>10, <2>1, <2>2
  <2>7. r = Linking(e, d, t, f)
    BY <2>1, <2>2, <2>3
  <2> QED
    BY <2>4, <2>5, <2>6, <2>7
<1>12. \A right \in BOOLEAN : IsSeq(SetToSeq(links(right))) /\ Range(SetToSeq(links(right))) = links(right)
  <2> SUFFICES ASSUME NEW right \in BOOLEAN
               PROVE  IsSeq(SetToSeq(links(right))) /\ Range(SetToSeq(links(right))) = links(right)
    OBVIOUS
  <2> DEFINE S == homes(next(right))
             g == [t \in S |-> Linking(e, next(right), t, found(right, t))]
             L == links(right)
  <2>1. S \subseteq Contexts
    BY <1>10
  <2>2. L = {g[t] : t \in S} /\ DOMAIN g = S
    OBVIOUS
  <2> HIDE DEF L, g, S
  <2>3. IsFiniteSet(S)
    BY <2>1, FiniteContexts, FS_Subset
  <2>4. IsFiniteSet(L)
    BY <2>2, <2>3, FiniteImage
  <2>5. IsSeq(SetToSeq(L)) /\ Range(SetToSeq(L)) = L
    BY <2>4, Listed
  <2> QED
    BY <2>5 DEF L
<1>13. q = IF In(s, objects) = {} THEN <<>> ELSE SetToSeq(links(TRUE)) \o SetToSeq(links(FALSE))
  BY DEF LinksAsked
<1> HIDE DEF links, at, next
<1>14. In(s, objects) = {} => q = <<>> /\ Range(q) = {}
  BY <1>13, NoRequest
<1>15. In(s, objects) # {} => Range(q) = links(TRUE) \cup links(FALSE)
  <2> DEFINE u == SetToSeq(links(TRUE))
             v == SetToSeq(links(FALSE))
  <2>1. IsSeq(u) /\ IsSeq(v) /\ Range(u) = links(TRUE) /\ Range(v) = links(FALSE)
    BY <1>12
  <2>2. In(s, objects) # {} => q = u \o v
    BY <1>13
  <2> HIDE DEF u, v
  <2>3. Range(u \o v) = Range(u) \cup Range(v)
    BY <2>1, ConcatIs
  <2> QED
    BY <2>1, <2>2, <2>3
<1>16. \A r \in Range(q) : r \in links(TRUE) \/ r \in links(FALSE)
  BY <1>14, <1>15
<1> QED
  BY <1>6, <1>11, <1>14, <1>16

-----------------------------------------------------------------------------
(* A branch is answered *)

\* Where a context works, no other one has requests, unless it is a column that was asked
\* to make an empty file.
LEMMA NothingElse ==
  ASSUME View, Shapes, Apart, NEW c \in Contexts, Alive(c), ~OnlyLinks(c),
         NEW s \in Contexts, s # c, ColumnOf(s) \in At(c)
  PROVE  line[s] = <<>> \/ (s \in Columns /\ Light(s))
<1> SUFFICES ASSUME line[s] # <<>>
             PROVE  s \in Columns /\ Light(s)
  OBVIOUS
<1>1. ColumnOf(s) \in At(s)
  BY DEF At, Works
<1>2. ~Alive(s)
  BY <1>1, Clash
<1>3. s \in Columns
  BY <1>2, FileQueue DEF Contexts
<1>4. At(c) \subseteq Range(columns) /\ ColumnOf(s) = s
  BY <1>3, ShapeIn, ColumnIs DEF Shapes, Alive
<1> QED
  BY <1>2, <1>3, <1>4 DEF Alive

\* The links that are asked for after an answer.
LEMMA LinksLeft ==
  ASSUME View', NEW objects, NEW e \in Columns, NEW x \in Contexts, ColumnOf(x)' = e,
         line'[x] = LinksAsked(objects, e)[x], In(x, objects) # {} => Occ(e)'
  PROVE  /\ line'[x] # <<>> => Shape(x)'
         /\ At(x)' \subseteq {e} /\ OnlyLinks(x)'
<1>1. CASE In(x, objects) = {}
  <2>1. line'[x] = <<>>
    BY <1>1 DEF LinksAsked
  <2>2. Range(line'[x]) = {}
    BY <2>1, NoRequest
  <2> QED
    BY <2>1, <2>2 DEF At, Works, OnlyLinks
<1>2. CASE In(x, objects) # {}
  <2> PICK q : q = LinksAsked(objects, e)[x]
    OBVIOUS
  <2>1. /\ e \in Range(columns')
        /\ \A r \in Range(q) : \E d \in Columns, t \in Contexts, found \in BOOLEAN :
             r = Linking(e, d, t, found) /\ (found => Occ(d)' /\ NearBy(e, d)')
    BY <1>2, LinksShape
  <2>2. line'[x] = q
    OBVIOUS
  <2>3. IsLinks(x)'
    BY <1>2, <2>1, <2>2 DEF IsLinks
  <2>4. \A r \in Range(q) : r.op = "links"
    BY <2>1 DEF Linking
  <2>5. OnlyLinks(x)' /\ At(x)' \subseteq {e}
    BY <2>2, <2>4 DEF OnlyLinks, At, Works
  <2> QED
    BY <2>3, <2>5 DEF Shape
<1> QED
  BY <1>1, <1>2

\* A branch was answered.
LEMMA BranchDoneCalm ==
  ASSUME FlowInv, FlowInv', Calm, NEW c, NEW r, NEW ids, Replied(c, r, ids), r.op = "branch",
         BranchDone(c, r, ids)
  PROVE  Calm'
<1>1. /\ View /\ View' /\ LineOK /\ Shapes /\ Apart /\ Tight /\ c \in Contexts /\ line[c] # <<>>
      /\ r = Head(line[c]) /\ ids \in SUBSET Accounts /\ ids = server[c]
  BY LineIs DEF FlowInv, Calm, Replied
<1>2. IsBranch(c)
  BY <1>1, HeadShape
<1>3. PICK o \in shown, right \in BOOLEAN :
        line[c] = <<Branching(o, right)>> /\ NextIs(ColumnOf(o.home), right, c)
  BY <1>2 DEF IsBranch
<1>4. r = Branching(o, right) /\ Tail(line[c]) = <<>>
  BY <1>1, <1>3
<1>5. r.card = o /\ r.right = right
  BY <1>4 DEF Branching
<1>6. c \in Columns /\ c \in Range(columns) /\ c \notin Files /\ ColumnOf(c) = c
  <2>1. c \in Columns
    BY <1>2 DEF IsBranch
  <2>2. c \in Range(columns)
    BY <1>1, <1>3, BesideIs DEF NextIs, View
  <2> QED
    BY <2>1, <2>2, ColumnIs
<1>7. c = NextTo(ColumnOf(r.card.home), r.right)
  BY <1>1, <1>3, <1>5, OnlyNeighbour DEF View
<1>8. CASE ids = {}
  <2>1. Passed(c, Nothing) /\ UNCHANGED viewVars
    <3>1. Done(c, r, Nothing) /\ UNCHANGED viewVars
      BY <1>8 DEF BranchDone
    <3> QED
      BY <3>1, NothingIs, DonePassed
  <2>2. \A s \in Contexts : Nothing[s] = <<>>
    BY DEF Nothing
  <2>3. line'[c] = <<>>
    BY <1>1, <1>4, <2>1, <2>2, NothingIs, DoneIs
  <2> QED
    BY <1>1, <2>1, <2>3, QuietCalm DEF Replied
<1>9. CASE ids # {}
  <2> DEFINE filed == {p \in shown : p.home \in FilesIn(c) /\ p.account \in ids}
             cards == NewCards(c, ids \ AccountsOf(filed))
             objects == cards \cup filed
             T == {c} \cup FilesIn(c)
  <2> PICK asked : asked = LinksAsked(objects, c)
    OBVIOUS
  <2>1. /\ Show((shown \ Members(c)) \cup cards, place, cluster) /\ Prune
        /\ Done(c, r, asked)
    BY <1>3, <1>5, <1>7, <1>9 DEF BranchDone
  <2>2. shown' = (shown \ Members(c)) \cup cards /\ place' = place /\ cluster' = cluster
    BY <2>1 DEF Show
  <2>3. /\ \A p \in cards : p.home = c /\ p.account \in ids
    <3>1. ids \ AccountsOf(filed) \in SUBSET Accounts
      BY <1>1
    <3> QED
      BY <1>1, <3>1, NewAccounts
  <2>4. AskedOK(asked)
    BY LinksAre DEF FlowInv, View, FitsIn
  <2>5. Passed(c, asked)
    BY <2>1, <2>4, DonePassed
  <2>6. \A p \in objects : p.home \in T
    BY <2>3
  <2>7. \A s \in Contexts : s \notin T => asked[s] = <<>>
    <3>1. \A s \in Contexts : s \notin T => In(s, objects) = {}
      BY <2>6 DEF In
    <3> HIDE DEF objects
    <3> QED
      BY <3>1 DEF LinksAsked
  <2>8. Alive(c) /\ ~OnlyLinks(c)
    <3>1. ~Light(c)
      <4>1. \A f : <<Creating(f, {})>> # line[c]
        BY <1>3 DEF Creating, Branching
      <4> QED
        BY <4>1 DEF Light
    <3>2. r \in Range(line[c])
      BY <1>1, TailIs DEF LineOK, AskedOK
    <3> QED
      BY <1>1, <1>6, <3>1, <3>2 DEF Alive, OnlyLinks
  <2>9. \A x \in T : x \in Contexts /\ ColumnOf(x) = c /\ ColumnOf(x)' = c
    <3>1. \A f \in FilesIn(c) : f \in Contexts /\ ColumnOf(f) = c
      BY DEF FilesIn, Contexts, ColumnOf
    <3> QED
      BY <1>1, <1>6, <2>2, <3>1 DEF ColumnOf
  <2>10. c \in At(c)
    BY <1>1, <1>6 DEF At, Works
  <2>11. \A x \in T : line'[x] = asked[x]
    <3> SUFFICES ASSUME NEW x \in T
                 PROVE  line'[x] = asked[x]
      OBVIOUS
    <3>1. CASE x = c
      BY <1>1, <1>4, <2>4, <2>5, <3>1, DoneIs
    <3>2. CASE x # c
      <4>1. x \in Contexts /\ ColumnOf(x) \in At(c) /\ x \in Files
        BY <2>9, <2>10, <3>2 DEF FilesIn
      <4>2. line[x] = <<>>
        <5>1. x \notin Columns
          BY <4>1, FlowAssumption
        <5> QED
          BY <1>1, <2>8, <3>2, <4>1, <5>1, NothingElse
      <4> QED
        BY <1>1, <2>4, <2>5, <3>2, <4>1, <4>2, DoneIs
    <3> QED
      BY <3>1, <3>2
  <2>12. \A x \in T : In(x, objects) # {} => Occ(c)'
    <3> SUFFICES ASSUME NEW x \in T, NEW p \in objects, p.home = x
                 PROVE  Occ(c)'
      BY DEF In
    <3>1. CASE p \in cards
      BY <2>2, <2>3, <3>1 DEF Occ, Occupied, In
    <3>2. CASE p \in filed
      BY <2>2, <3>2 DEF Occ, Occupied, FilesIn
    <3> QED
      BY <3>1, <3>2
  <2>13. Left(c, T)
    <3>1. \A x \in T : (line'[x] # <<>> => Shape(x)') /\ At(x)' \subseteq {c} /\ OnlyLinks(x)'
      <4> SUFFICES ASSUME NEW x \in T
                   PROVE  (line'[x] # <<>> => Shape(x)') /\ At(x)' \subseteq {c} /\ OnlyLinks(x)'
        OBVIOUS
      <4>1. x \in Contexts /\ ColumnOf(x)' = c /\ line'[x] = LinksAsked(objects, c)[x]
            /\ (In(x, objects) # {} => Occ(c)')
        BY <2>9, <2>11, <2>12
      <4> HIDE DEF objects, T
      <4> QED
        BY <1>1, <1>6, <4>1, LinksLeft
    <3> QED
      BY <2>9, <2>10, <3>1 DEF Left
  <2>14. \A w : w # c => Members(w)' = Members(w)
    BY <2>2, <2>3 DEF Members, In
  <2>15. made <= made' /\ NewOnes /\ RowStep /\ Tight'
    <3>1. \A d \in Columns : Occ(d)' => d = c \/ Occ(d)
      BY <2>2, <2>14 DEF Occ, Occupied, Members
    <3> QED
      BY <1>1, <1>6, <2>1, <3>1, PruneStep
  <2>16. Shown(c, r)
    <3>1. \A p \in shown' : p.home \in Columns => p \in shown \/ p.account \in server[p.home]
      BY <1>1, <2>2, <2>3
    <3>2. \A w \in Contexts : ColumnOf(w) \in Range(columns) \ At(c) => Steady(w)
      BY <1>6, <2>2, <2>10, <2>14 DEF Steady
    <3>3. \A f : r # Deleting(f)
      BY DEF Deleting
    <3>4. \A f \in Files : Members(f)' = Members(f)
      BY <1>6, <2>14
    <3> QED
      BY <1>6, <2>2, <3>1, <3>2, <3>3, <3>4 DEF Shown
  <2>17. AnswerOf(c, r, asked, T)
    BY <2>5, <2>4, <2>7, <2>9, <2>10 DEF AnswerOf, Replied
  <2> HIDE DEF T
  <2> QED
    BY <2>8, <2>13, <2>15, <2>16, <2>17, AloneCalm
<1> QED
  BY <1>8, <1>9

-----------------------------------------------------------------------------
(* The answers that leave the view as it is *)

\* What is asked of a column that is cleaned, after its first request.
CleanRest(c, o, q) ==
  /\ IsInjective(q) /\ IsSeq(q)
  /\ \A i \in 1..Len(q) :
       \/ \E p \in Members(c) \ {o} : q[i] = Removing(p, None)
       \/ /\ i = Len(q) /\ q[i].op = "clear"
          /\ \A p \in Members(c) \ {o} : Removing(p, None) \in Range(q)
          /\ c \in Range(columns) => Occ(c)
LEMMA CleanTail ==
  ASSUME LineOK, NEW c \in Contexts, line[c] # <<>>, IsClean(c),
         NEW r, r = Head(line[c]), NEW q, q = Tail(line[c])
  PROVE  /\ r.op = "clear" => q = <<>>
         /\ r.op = "remove" => \E o \in Members(c) : r = Removing(o, None) /\ CleanRest(c, o, q)
<1> DEFINE Q == line[c]
           R == Range(Q)
<1>1. Q \in Seq(R) /\ Q # <<>> /\ IsInjective(Q)
  BY DEF LineOK, AskedOK, IsSeq, IsClean
<1>2. \A i \in 1..Len(Q) :
        \/ \E p \in Members(c) : Q[i] = Removing(p, None)
        \/ /\ i = Len(Q) /\ Q[i].op = "clear"
           /\ \A p \in Members(c) : Removing(p, None) \in R
           /\ c \in Range(columns) => Occ(c)
  BY DEF IsClean
<1>3. r = Head(Q) /\ q = Tail(Q)
  OBVIOUS
<1> HIDE DEF Q
<1> PICK n : n = Len(Q)
  OBVIOUS
<1>4. n \in Nat /\ n >= 1 /\ DOMAIN Q = 1..n /\ r = Q[1]
  BY <1>1, <1>3, EmptySeq, LenProperties
<1>5. q \in Seq(R) /\ Len(q) = n - 1 /\ DOMAIN q = 1..(n - 1)
  <2>1. q \in Seq(R) /\ Len(q) = n - 1
    BY <1>1, <1>3, HeadTailProperties
  <2> QED
    BY <2>1, LenProperties
<1>6. \A i \in 1..(n - 1) : q[i] = Q[i + 1] /\ i + 1 \in 1..n
  <2>1. \A i \in 1..Len(Tail(Q)) : Tail(Q)[i] = Q[i + 1]
    BY <1>1, HeadTailProperties
  <2>2. \A i \in 1..Len(q) : q[i] = Q[i + 1]
    BY <1>3, <2>1
  <2> QED
    BY <1>4, <1>5, <2>2
<1>7. r.op = "clear" => q = <<>>
  <2> SUFFICES ASSUME r.op = "clear"
               PROVE  q = <<>>
    OBVIOUS
  <2>1. 1 \in 1..Len(Q) /\ \A p : Q[1] # Removing(p, None)
    <3>1. \A p : Removing(p, None).op # "clear"
      BY DEF Removing
    <3> QED
      BY <1>4, <3>1
  <2>2. n = 1
    BY <1>2, <2>1
  <2> QED
    BY <1>5, <2>2, EmptySeq
<1>8. ASSUME r.op = "remove"
      PROVE  \E o \in Members(c) : r = Removing(o, None) /\ CleanRest(c, o, q)
  <2>1. PICK o \in Members(c) : r = Removing(o, None)
    BY <1>2, <1>4, <1>8
  <2>2. IsSeq(q)
    BY <1>5, SeqIs
  <2>3. IsInjective(q)
    <3> SUFFICES ASSUME NEW i \in DOMAIN q, NEW j \in DOMAIN q, q[i] = q[j]
                 PROVE  i = j
      BY DEF IsInjective
    <3>1. i + 1 \in DOMAIN Q /\ j + 1 \in DOMAIN Q /\ Q[i + 1] = Q[j + 1]
      BY <1>4, <1>5, <1>6
    <3>2. i + 1 = j + 1
      BY <1>1, <3>1 DEF IsInjective
    <3> QED
      BY <1>5, <3>2
  <2>4. ASSUME NEW p \in Members(c) \ {o}, Removing(p, None) \in R
        PROVE  Removing(p, None) \in Range(q)
    <3>1. Removing(p, None) # r
      BY <2>1 DEF Removing
    <3>2. R = {Head(Q)} \cup Range(Tail(Q))
      <4>1. IsSeq(Q) /\ R = Range(Q)
        BY <1>1, SeqIs DEF Q
      <4> QED
        BY <1>1, <4>1, TailIs
    <3> QED
      BY <1>3, <2>4, <3>1, <3>2
  <2>5. ASSUME NEW i \in 1..Len(q)
        PROVE  \/ \E p \in Members(c) \ {o} : q[i] = Removing(p, None)
               \/ /\ i = Len(q) /\ q[i].op = "clear"
                  /\ \A p \in Members(c) \ {o} : Removing(p, None) \in Range(q)
                  /\ c \in Range(columns) => Occ(c)
    <3>1. i \in 1..(n - 1) /\ i + 1 \in 1..n /\ q[i] = Q[i + 1] /\ i + 1 # 1
      BY <1>4, <1>5, <1>6
    <3>2. Q[i + 1] # r
      BY <1>1, <1>4, <3>1 DEF IsInjective
    <3>3. CASE \E p \in Members(c) : Q[i + 1] = Removing(p, None)
      BY <2>1, <3>1, <3>2, <3>3
    <3>4. CASE /\ i + 1 = Len(Q) /\ Q[i + 1].op = "clear"
               /\ \A p \in Members(c) : Removing(p, None) \in R
               /\ c \in Range(columns) => Occ(c)
      <4>1. i = Len(q)
        BY <1>4, <1>5, <3>1, <3>4
      <4> QED
        BY <2>4, <3>1, <3>4, <4>1
    <3>5. i + 1 \in 1..Len(Q)
      BY <3>1
    <3> QED
      BY <1>2, <3>3, <3>4, <3>5
  <2> QED
    BY <2>1, <2>2, <2>3, <2>5 DEF CleanRest
<1> QED
  BY <1>7, <1>8

\* What is left of the queue when nothing more is asked for.
LEMMA NothingDone ==
  ASSUME LineOK, NEW c \in Contexts, line[c] # <<>>, Passed(c, Nothing)
  PROVE  line'[c] = Tail(line[c])
<1>1. Nothing[c] = <<>>
  BY DEF Nothing
<1> QED
  BY <1>1, NothingIs, DoneIs

\* The server forgot the members of a column that was cleaned.
LEMMA ClearDoneCalm ==
  ASSUME FlowInv, FlowInv', Calm, NEW c, NEW r, NEW ids, Replied(c, r, ids), r.op = "clear",
         Passed(c, Nothing), UNCHANGED viewVars
  PROVE  Calm'
<1>1. /\ LineOK /\ Shapes /\ c \in Contexts /\ line[c] # <<>> /\ r = Head(line[c])
      /\ reply' = [reply EXCEPT ![c] = None] /\ UNCHANGED server
  BY LineIs DEF FlowInv, Calm, Replied
<1>2. IsClean(c)
  BY <1>1, HeadShape
<1>3. Tail(line[c]) = <<>>
  BY <1>1, <1>2, CleanTail
<1>4. line'[c] = <<>>
  BY <1>1, <1>3, NothingDone
<1> QED
  BY <1>1, <1>4, QuietCalm

\* A file was made; maybe a card moves to it then.
LEMMA CreatedCalm ==
  ASSUME FlowInv, FlowInv', Calm, NEW c, NEW r, NEW ids, Replied(c, r, ids), r.op = "create",
         Passed(c, Nothing), UNCHANGED viewVars
  PROVE  Calm'
<1>1. /\ View /\ LineOK /\ Shapes /\ c \in Contexts /\ line[c] # <<>> /\ r = Head(line[c])
      /\ reply' = [reply EXCEPT ![c] = None] /\ UNCHANGED server
  BY LineIs DEF FlowInv, Calm, Replied
<1>2. line'[c] = Tail(line[c])
  BY <1>1, NothingDone
<1>3. CASE IsCreate(c)
  <2>1. \A p : line[c] = <<p>> => Tail(line[c]) = <<>>
    OBVIOUS
  <2>2. line'[c] = <<>>
    BY <1>2, <1>3, <2>1 DEF IsCreate
  <2> QED
    BY <1>1, <2>2, QuietCalm
<1>4. CASE IsMove(c)
  <2>1. PICK o \in Members(c), f \in Files :
          /\ Live(f) /\ f # c
          /\ \/ line[c] = <<Removing(o, MoveTo(f))>>
             \/ c \in Columns /\ \E g \in Files : line[c] = <<Creating(g, {}), Removing(o, MoveTo(f))>>
    BY <1>4 DEF IsMove
  <2>2. line[c] # <<Removing(o, MoveTo(f))>>
    <3>1. \A p : line[c] = <<p>> => r = p
      BY <1>1
    <3>2. Removing(o, MoveTo(f)).op # "create"
      BY DEF Removing
    <3> QED
      BY <3>1, <3>2
  <2>3. PICK g \in Files : line[c] = <<Creating(g, {}), Removing(o, MoveTo(f))>>
    BY <2>1, <2>2
  <2>4. \A p, q : line[c] = <<p, q>> => Tail(line[c]) = <<q>>
    OBVIOUS
  <2>5. line'[c] = <<Removing(o, MoveTo(f))>>
    BY <1>2, <2>3, <2>4
  <2>6. o \in Members(c)' /\ Live(f)' /\ MoveTo(f)' = MoveTo(f)
    BY <1>1, <2>1 DEF viewVars, Members, In, Live, MoveTo
  <2>7. IsMove(c)'
    BY <2>1, <2>5, <2>6 DEF IsMove
  <2>8. ~Light(c)
    <3>1. \A p, q, s : <<p, q>> # <<s>>
      OBVIOUS
    <3> QED
      BY <2>3, <3>1 DEF Light
  <2>9. c \in Columns => c \in Range(columns)
    BY <1>1, <2>1, NoMembers, ColumnIs
  <2>10. Shape(c)' /\ Alive(c)
    BY <1>1, <2>7, <2>8, <2>9 DEF Shape, Alive
  <2> QED
    BY <1>1, <2>10, QuietCalm
<1> QED
  BY <1>1, <1>3, <1>4, HeadShape

\* Links are drawn.
LEMMA LinksDoneCalm ==
  ASSUME FlowInv, FlowInv', Calm, NEW c, NEW r, NEW ids, Replied(c, r, ids), r.op = "links",
         LinksDone(c, r)
  PROVE  Calm'
<1>1. /\ View /\ LineOK /\ Shapes /\ c \in Contexts /\ line[c] # <<>> /\ r = Head(line[c])
      /\ reply' = [reply EXCEPT ![c] = None] /\ UNCHANGED server
  BY LineIs DEF FlowInv, Calm, Replied
<1>2. /\ IsLinks(c) /\ r \in Range(line[c]) /\ Range(Tail(line[c])) \subseteq Range(line[c])
  BY <1>1, HeadShape, TailIs DEF LineOK, AskedOK
<1>3. PICK d \in Columns, t \in Contexts, found \in BOOLEAN :
        r = Linking(ColumnOf(c), d, t, found) /\ (found => Occ(d) /\ NearBy(ColumnOf(c), d))
  BY <1>2 DEF IsLinks
<1>4. r.ends = {ColumnOf(c), d} /\ r.found = found
  BY <1>3 DEF Linking
<1>5. ColumnOf(c) \in Range(columns) /\ (found => d \in Range(columns))
  BY <1>1, <1>2, <1>3, OccIn DEF IsLinks
<1>6. Passed(c, Nothing) /\ UNCHANGED viewVars
  <2>1. Done(c, r, Nothing) /\ UNCHANGED viewVars
    BY <1>4, <1>5 DEF LinksDone
  <2> QED
    BY <2>1, NothingIs, DonePassed
<1>7. line'[c] = Tail(line[c])
  BY <1>1, <1>6, NothingDone
<1>8. Shape(c)'
  <2>1. UNCHANGED <<columns, place, shown>> /\ Range(line'[c]) \subseteq Range(line[c])
    BY <1>2, <1>6, <1>7 DEF viewVars
  <2>2. ColumnOf(c)' = ColumnOf(c) /\ (\A d1 : Occ(d1)' <=> Occ(d1)) /\ \A a, b : NearBy(a, b)' <=> NearBy(a, b)
    BY <2>1 DEF ColumnOf, Occ, NearBy
  <2>3. IsLinks(c)'
    BY <1>2, <2>1, <2>2 DEF IsLinks
  <2> QED
    BY <2>3 DEF Shape
<1>9. Alive(c)
  <2>1. ~Light(c)
    <3>1. \A f : line[c] = <<Creating(f, {})>> => r.op = "create"
      BY <1>1 DEF Creating
    <3> QED
      BY <3>1 DEF Light
  <2>2. c \in Columns => c \in Range(columns)
    BY <1>5, ColumnIs
  <2> QED
    BY <1>1, <2>1, <2>2 DEF Alive
<1> QED
  BY <1>1, <1>6, <1>8, <1>9, QuietCalm

-----------------------------------------------------------------------------
(* Files are made, filled and moved to *)

\* A context whose first request does something works in the row.
LEMMA WorkIs ==
  ASSUME LineOK, NEW c \in Contexts, line[c] # <<>>, NEW r, r = Head(line[c]),
         r.op \notin {"create", "links"}, ColumnOf(c) \in Range(columns)
  PROVE  Alive(c) /\ ~OnlyLinks(c) /\ ColumnOf(c) \in At(c) /\ r \in Range(line[c])
<1>1. ~Light(c)
  <2>1. \A f : line[c] = <<Creating(f, {})>> => r.op = "create"
    BY DEF Creating
  <2> QED
    BY <2>1 DEF Light
<1>2. r \in Range(line[c])
  BY TailIs DEF LineOK, AskedOK
<1>3. c \in Columns => c \in Range(columns)
  BY ColumnIs
<1> QED
  BY <1>1, <1>2, <1>3 DEF Alive, OnlyLinks, At, Works

\* Requests for one context only.
LEMMA OnlyAt ==
  ASSUME NEW f \in Contexts, NEW q
  PROVE  /\ Only(f, q)[f] = q
         /\ \A s \in Contexts : s # f => Only(f, q)[s] = <<>>
  BY DEF Only, Nothing

\* A request that leaves the view as it is.
LEMMA StillShown ==
  ASSUME UNCHANGED viewVars, NEW c, NEW r, r.op \notin {"remove", "insert", "fill", "delete"}
  PROVE  Shown(c, r)
<1>1. UNCHANGED <<place, cluster, shown>>
  BY DEF viewVars
<1>2. \A w : Members(w)' = Members(w)
  BY <1>1 DEF Members, In
<1>3. \A f : r # Deleting(f)
  BY DEF Deleting
<1> QED
  BY <1>1, <1>2, <1>3 DEF Shown, Steady

\* The row stays when the view does.
LEMMA StillRow ==
  ASSUME View, Tight, UNCHANGED <<columns, made, place, shown>>
  PROVE  made <= made' /\ NewOnes /\ RowStep /\ Tight'
<1>1. Unpruned /\ \A d \in Columns : Occ(d)' <=> Occ(d)
  BY DEF Unpruned, Occ
<1> QED
  BY <1>1, SameRow

\* The cards of a cluster have appeared.
LEMMA ExpandDoneCalm ==
  ASSUME FlowInv, FlowInv', Calm, NEW c, NEW r, NEW ids, Replied(c, r, ids), r.op = "expand",
         ExpandDone(c, r)
  PROVE  Calm'
<1>1. /\ View /\ View' /\ LineOK /\ Shapes /\ Tight /\ c \in Contexts /\ line[c] # <<>>
      /\ r = Head(line[c]) /\ UNCHANGED viewVars
  BY LineIs DEF FlowInv, Calm, Replied, ExpandDone
<1>2. IsExpand(c)
  BY <1>1, HeadShape
<1>3. c \in Files /\ Live(c) /\ line[c] = <<Expanding(c, cluster[c])>>
  BY <1>2 DEF IsExpand
<1>4. r = Expanding(c, cluster[c]) /\ Tail(line[c]) = <<>>
  BY <1>1, <1>3
<1>5. r.nr = cluster[c]
  BY <1>4 DEF Expanding
<1> PICK e : e = place[c]
  OBVIOUS
<1>6. e \in Columns /\ e \in Range(columns) /\ ColumnOf(c) = e /\ Occ(e) /\ Occ(e)' /\ ColumnOf(c)' = e
  <2>1. e \in Columns /\ e \in Range(columns) /\ ColumnOf(c) = e /\ Occ(e)
    BY <1>1, <1>3, FileIn DEF Live
  <2> QED
    BY <1>1, <2>1 DEF viewVars, Occ, ColumnOf
<1> PICK objects : objects = Members(c)
  OBVIOUS
<1> PICK asked : asked = LinksAsked(objects, e)
  OBVIOUS
<1>7. AskedOK(asked)
  BY <1>1, LinksAre DEF View, FitsIn
<1>8. Passed(c, asked)
  <2>1. Done(c, r, asked)
    BY <1>5 DEF ExpandDone
  <2> QED
    BY <1>7, <2>1, DonePassed
<1>9. \A s \in Contexts : s # c => asked[s] = <<>>
  <2>1. \A s \in Contexts : s # c => In(s, objects) = {}
    BY DEF Members, In
  <2> QED
    BY <2>1 DEF LinksAsked
<1>10. line'[c] = LinksAsked(objects, e)[c]
  BY <1>1, <1>4, <1>7, <1>8, DoneIs
<1>11. (line'[c] # <<>> => Shape(c)') /\ At(c)' \subseteq {e}
  BY <1>1, <1>6, <1>10, LinksLeft
<1>12. Alive(c) /\ ~OnlyLinks(c) /\ e \in At(c)
  BY <1>1, <1>6, WorkIs
<1>13. AnswerOf(c, r, asked, {c})
  BY <1>6, <1>7, <1>8, <1>9, <1>12 DEF AnswerOf, Replied
<1>14. Left(c, {c})
  BY <1>11, <1>12 DEF Left
<1>15. made <= made' /\ NewOnes /\ RowStep /\ Tight'
  BY <1>1, StillRow DEF viewVars
<1>16. Shown(c, r)
  BY <1>1, StillShown
<1> QED
  BY <1>12, <1>13, <1>14, <1>15, <1>16, AloneCalm

\* A file that accounts were chosen for was made: it is filled.
LEMMA FillingCalm ==
  ASSUME FlowInv, FlowInv', Calm, NEW c, NEW r, NEW ids, Replied(c, r, ids), r.op = "create",
         r.ids # {}, CreateDone(c, r)
  PROVE  Calm'
<1>1. /\ View /\ View' /\ LineOK /\ Shapes /\ Apart /\ Tight /\ c \in Contexts /\ line[c] # <<>>
      /\ r = Head(line[c]) /\ UNCHANGED viewVars /\ r \in Range(line[c])
  BY TailIs, LineIs DEF FlowInv, Calm, Replied, CreateDone, LineOK, AskedOK
<1>2. ~IsMove(c)
  <2> SUFFICES ASSUME IsMove(c)
               PROVE  FALSE
    OBVIOUS
  <2>1. PICK o, m, g : line[c] = <<Removing(o, m)>> \/ line[c] = <<Creating(g, {}), Removing(o, m)>>
    BY DEF IsMove
  <2>2. r = Removing(o, m) \/ r = Creating(g, {})
    BY <1>1, <2>1
  <2> QED
    BY <2>2 DEF Removing, Creating
<1>3. IsCreate(c)
  BY <1>1, <1>2, HeadShape
<1>4. PICK f \in Files, new \in SUBSET Accounts :
        line[c] = <<Creating(f, new)>> /\ (new # {} => place[f] = c)
  BY <1>3 DEF IsCreate
<1>5. r = Creating(f, new) /\ Tail(line[c]) = <<>>
  BY <1>1, <1>4
<1>6. r.file = f /\ r.ids = new /\ place[f] = c /\ c \in Columns /\ c \in Contexts /\ ColumnOf(c) = c
  BY <1>3, <1>4, <1>5, ColumnIs DEF Creating, IsCreate
<1>7. f \in Contexts /\ f \notin Columns /\ f # c /\ Live(f) /\ ColumnOf(f) = c /\ c \in Range(columns)
  BY <1>1, <1>6, FileIn
<1>8. Alive(c) /\ ~OnlyLinks(c) /\ c \in At(c)
  <2>1. ~Light(c)
    <3> SUFFICES ASSUME NEW g, line[c] = <<Creating(g, {})>>
                 PROVE  FALSE
      BY DEF Light
    <3>1. r = Creating(g, {})
      BY <1>1
    <3> QED
      BY <3>1 DEF Creating
  <2>2. r.op # "links"
    BY <1>5 DEF Creating
  <2> QED
    BY <1>1, <1>6, <1>7, <2>1, <2>2 DEF Alive, OnlyLinks, At, Works
<1> PICK fill : fill = <<Filling(new)>>
  OBVIOUS
<1> PICK asked : asked = Only(f, fill)
  OBVIOUS
<1>9. AskedOK(asked)
  <2>1. RequestOK(f, Filling(new))
    BY DEF RequestOK, Filling, Immediate
  <2> QED
    BY <2>1, OnlyOne
<1>10. Passed(c, asked) /\ asked[f] = fill /\ \A s \in Contexts : s # f => asked[s] = <<>>
  <2>1. Done(c, r, asked)
    BY <1>6 DEF CreateDone
  <2> QED
    BY <1>7, <1>9, <2>1, OnlyAt, DonePassed
<1>11. line[f] = <<>>
  BY <1>1, <1>7, <1>8, NothingElse
<1>12. line'[f] = fill /\ line'[c] = <<>>
  BY <1>1, <1>5, <1>7, <1>9, <1>10, <1>11, DoneIs
<1>13. Shape(f)' /\ ColumnOf(f)' = c
  <2>1. Live(f)' /\ ColumnOf(f)' = c
    BY <1>1, <1>7 DEF viewVars, Live, ColumnOf
  <2>2. IsFill(f)'
    BY <1>12, <2>1 DEF IsFill
  <2> QED
    BY <2>1, <2>2 DEF Shape
<1>14. At(f)' \subseteq {c}
  <2>1. Filling(new).op = "fill"
    BY DEF Filling
  <2>2. Range(line'[f]) = {Filling(new)}
    BY <1>12, OneRequest
  <2>3. Works(f)' \subseteq {f}
    BY <2>1, <2>2 DEF Works
  <2> QED
    BY <1>13, <2>3 DEF At
<1>15. ~Alive(c)'
  BY <1>12 DEF Alive
<1>16. AnswerOf(c, r, asked, {c, f})
  BY <1>6, <1>7, <1>8, <1>9, <1>10 DEF AnswerOf, Replied
<1>17. Left(c, {c, f})
  <2>1. \A x \in {c, f} : line'[x] # <<>> => Shape(x)'
    BY <1>12, <1>13
  <2>2. \A x \in {c, f} : Alive(x)' => At(x)' \subseteq At(c)
    BY <1>8, <1>14, <1>15
  <2> QED
    BY <1>15, <2>1, <2>2 DEF Left
<1>18. made <= made' /\ NewOnes /\ RowStep /\ Tight'
  BY <1>1, StillRow DEF viewVars
<1>19. Shown(c, r)
  BY <1>1, StillShown
<1> QED
  BY <1>8, <1>16, <1>17, <1>18, <1>19, AloneCalm

\* What a new cluster of file f changes.
IsInstalled(c, r, f, ids, cards, clusters) ==
  /\ place' = place
  /\ \A o \in shown' : o.home # f => o \in cards
  /\ \A w : w # f => Members(w)' = In(w, cards)
  /\ AccountsOf(Members(f)') = ids
  /\ \A g \in Files : g # f => cluster'[g] = clusters[g]
  /\ Sends(c, r, Expanding(f, cluster'[f]))

LEMMA Installed ==
  ASSUME LineOK, NEW c, NEW r, NEW f \in Files, NEW ids \in SUBSET Accounts, NEW cards,
         NEW clusters \in [Files -> Nat], Install(c, r, f, ids, cards, clusters)
  PROVE  IsInstalled(c, r, f, ids, cards, clusters)
<1> DEFINE new == NewCards(f, ids)
           old == cards \ In(f, cards)
<1>1. f \in Contexts
  BY DEF Contexts
<1>2. AccountsOf(new) = ids /\ \A o \in new : o.home = f /\ o.account \in ids
  BY <1>1, NewAccounts
<1>3. shown' = old \cup new /\ place' = place /\ \A g \in Files : g # f => cluster'[g] = clusters[g]
  BY DEF Install, Show
<1>4. Sends(c, r, Expanding(f, cluster'[f]))
  BY DEF Install
<1> HIDE DEF new
<1>5. \A o \in old : o \in cards /\ o.home # f
  BY DEF In
<1>6. Members(f)' = new
  BY <1>2, <1>3, <1>5 DEF Members, In
<1>7. \A w : w # f => Members(w)' = In(w, cards)
  <2>1. \A w : w # f => In(w, old \cup new) = In(w, cards)
    BY <1>2 DEF In
  <2>2. \A w : Members(w)' = In(w, shown')
    BY DEF Members
  <2> QED
    BY <1>3, <2>1, <2>2
<1>8. AccountsOf(Members(f)') = ids
  BY <1>2, <1>6
<1>9. \A o \in shown' : o.home # f => o \in cards
  BY <1>2, <1>3, <1>5
<1> QED
  BY <1>3, <1>4, <1>7, <1>8, <1>9 DEF IsInstalled

LEMMA InstalledAt ==
  ASSUME LineOK, NEW c, NEW r, NEW f \in Files, server[f] \in SUBSET Accounts, NEW cards,
         NEW clusters \in [Files -> Nat], Install(c, r, f, server[f], cards, clusters)
  PROVE  IsInstalled(c, r, f, server[f], cards, clusters)
<1> PICK new : new = server[f]
  OBVIOUS
<1>1. new \in SUBSET Accounts /\ Install(c, r, f, new, cards, clusters)
  OBVIOUS
<1>2. IsInstalled(c, r, f, new, cards, clusters)
  BY <1>1, Installed
<1> QED
  BY <1>2

\* A file gets its cluster: it was filled, or a card arrives there.
LEMMA InstallCalm ==
  ASSUME FlowInv, FlowInv', Calm, NEW c, NEW r, NEW ids, Replied(c, r, ids),
         Alive(c), ~OnlyLinks(c), Tail(line[c]) = <<>>,
         NEW f \in Files, Live(f), ColumnOf(f) \in At(c), ColumnOf(c) \in At(c),
         NEW cards, NEW clusters \in [Files -> Nat], Install(c, r, f, server[f], cards, clusters),
         cards \subseteq shown, \A w : w # c => In(w, cards) = Members(w),
         \A g \in Files : g # c => clusters[g] = cluster[g],
         c \in Files /\ c # f => AccountsOf(In(c, cards)) = server[c],
         r.op \in {"remove", "fill"},
         r.op = "remove" => r.card \notin cards /\ r.card.home # f /\ r.move # None /\ r.move.file = f,
         (c \in Columns /\ Prune) \/ (c \in Files /\ Unpruned)
  PROVE  Calm'
<1>1. /\ View /\ View' /\ LineOK /\ Shapes /\ Apart /\ Tight /\ c \in Contexts /\ line[c] # <<>>
      /\ r = Head(line[c]) /\ server \in [Contexts -> SUBSET Accounts]
  BY LineIs DEF FlowInv, Calm, Replied
<1>2. f \in Contexts /\ f \notin Columns /\ ColumnOf(f) = place[f] /\ place[f] \in Range(columns)
  BY <1>1, FileIn
<1>3. server[f] \in SUBSET Accounts
  BY <1>1, <1>2
<1>4. /\ place' = place
      /\ \A o \in shown' : o.home # f => o \in cards
      /\ \A w : w # f => Members(w)' = In(w, cards)
      /\ AccountsOf(Members(f)') = server[f]
      /\ \A g \in Files : g # f => cluster'[g] = clusters[g]
      /\ Sends(c, r, Expanding(f, cluster'[f]))
  <2>1. IsInstalled(c, r, f, server[f], cards, clusters)
    BY <1>1, <1>3, InstalledAt
  <2> QED
    BY <2>1 DEF IsInstalled
<1> PICK q : q = <<Expanding(f, cluster'[f])>>
  OBVIOUS
<1> PICK asked : asked = Only(f, q)
  OBVIOUS
<1>5. AskedOK(asked)
  <2>1. RequestOK(f, Expanding(f, cluster'[f]))
    BY DEF RequestOK, Expanding, Immediate
  <2> QED
    BY <2>1, OnlyOne
<1>6. f # c => line[f] = <<>>
  BY <1>1, <1>2, NothingElse
<1>7. Passed(c, asked) /\ asked[f] = q /\ \A s \in Contexts : s # f => asked[s] = <<>>
  <2>1. ~Immediate(r)
    BY DEF Immediate
  <2> PICK n : n = cluster'[f]
    OBVIOUS
  <2>2. Sends(c, r, Expanding(f, n)) /\ asked = Only(f, <<Expanding(f, n)>>)
    BY <1>4
  <2>3. Passed(c, asked)
    BY <1>6, <2>1, <2>2, SendsPassed
  <2> QED
    BY <1>2, <2>3, OnlyAt
<1>8. line'[f] = q /\ (f # c => line'[c] = <<>>)
  BY <1>1, <1>2, <1>5, <1>6, <1>7, DoneIs
<1>9. Shape(f)' /\ ColumnOf(f)' = ColumnOf(f)
  <2>1. Live(f)' /\ ColumnOf(f)' = ColumnOf(f)
    BY <1>4 DEF Live, ColumnOf
  <2>2. IsExpand(f)'
    BY <1>8, <2>1 DEF IsExpand
  <2> QED
    BY <2>1, <2>2 DEF Shape
<1>10. At(f)' \subseteq {ColumnOf(f)}
  <2>1. \A g, n : Expanding(g, n).op = "expand"
    BY DEF Expanding
  <2>2. \A p \in Range(line'[f]) : p.op = "expand"
    BY <1>8, <2>1, OneRequest
  <2>3. Works(f)' \subseteq {f}
    BY <2>2 DEF Works
  <2> QED
    BY <1>9, <2>3 DEF At
<1>11. AnswerOf(c, r, asked, {c, f})
  BY <1>1, <1>2, <1>5, <1>7 DEF AnswerOf, Replied
<1>12. Left(c, {c, f})
  <2>1. f # c => ~Alive(c)'
    BY <1>8 DEF Alive
  <2>2. \A x \in {c, f} : line'[x] # <<>> => Shape(x)'
    BY <1>8, <1>9
  <2>3. \A x \in {c, f} : Alive(x)' => At(x)' \subseteq At(c)
    BY <1>10, <2>1
  <2>4. \A x, y \in {c, f} : x # y => ~(Alive(x)' /\ Alive(y)')
    BY <2>1
  <2> QED
    BY <2>2, <2>3, <2>4 DEF Left
<1>13. \A d \in Columns : In(d, shown') = In(d, cards) /\ In(d, cards) \subseteq In(d, shown)
  <2>1. \A d \in Columns : d # f
    BY <1>2
  <2>2. \A d : Members(d)' = In(d, shown')
    BY DEF Members
  <2> QED
    BY <1>4, <2>1, <2>2 DEF In
<1>14. made <= made' /\ NewOnes /\ RowStep /\ Tight'
  <2>1. CASE c \in Columns /\ Prune
    <3>1. c \in Range(columns)
      BY <2>1 DEF Alive
    <3>2. \A d \in Columns : Occ(d)' => d = c \/ Occ(d)
      BY <1>4, <1>13 DEF Occ, Occupied
    <3> QED
      BY <1>1, <2>1, <3>1, <3>2, PruneStep
  <2>2. CASE c \in Files /\ Unpruned
    <3>1. \A d \in Columns : d # c
      BY <2>2, FlowAssumption
    <3>2. \A d \in Columns : In(d, shown') = In(d, shown)
      BY <1>13, <3>1 DEF Members
    <3>3. \A d \in Columns : Occ(d)' <=> Occ(d)
      BY <1>4, <3>2 DEF Occ, Occupied
    <3> QED
      BY <1>1, <2>2, <3>3, SameRow
  <2> QED
    BY <2>1, <2>2
<1>15. Shown(c, r)
  <2>1. \A o \in shown' : o.home \in Columns => o \in shown
    BY <1>2, <1>4
  <2>2. r.op = "remove" => r.card \notin shown'
    BY <1>4
  <2>3. \A w \in Contexts : ColumnOf(w) \in Range(columns) \ At(c) => Steady(w)
    <3> SUFFICES ASSUME NEW w \in Contexts, ColumnOf(w) \notin At(c)
                 PROVE  Steady(w)
      OBVIOUS
    <3>1. w # c /\ w # f
      OBVIOUS
    <3> QED
      BY <1>4, <3>1 DEF Steady
  <2>4. ASSUME NEW g \in Files
        PROVE  \/ AccountsOf(Members(g)') = server[g]
               \/ /\ AccountsOf(Members(g)') = AccountsOf(Members(g))
                  /\ g = c => r.op \notin {"remove", "insert", "fill"}
                  /\ ~(r.op = "remove" /\ r.move # None /\ r.move.file = g) /\ r # Deleting(g)
    <3>1. CASE g = f
      BY <1>4, <3>1
    <3>2. CASE g # f /\ g = c
      BY <1>4, <3>2
    <3>3. CASE g # f /\ g # c
      <4>1. Members(g)' = Members(g)
        BY <1>4, <3>3
      <4>2. r # Deleting(g)
        BY DEF Deleting
      <4> QED
        BY <3>3, <4>1, <4>2
    <3> QED
      BY <3>1, <3>2, <3>3
  <2> QED
    BY <1>4, <2>1, <2>2, <2>3, <2>4 DEF Shown
<1> HIDE DEF Install
<1> QED
  BY <1>11, <1>12, <1>14, <1>15, AloneCalm

\* A new file is filled.
LEMMA FillDoneCalm ==
  ASSUME FlowInv, FlowInv', Calm, NEW c, NEW r, NEW ids, Replied(c, r, ids), r.op = "fill",
         FillDone(c, r, ids)
  PROVE  Calm'
<1>1. /\ View /\ LineOK /\ Shapes /\ c \in Contexts /\ line[c] # <<>> /\ r = Head(line[c])
      /\ ids = server[c] /\ cluster \in [Files -> Nat] /\ Unpruned
  BY LineIs DEF FlowInv, View, Calm, Replied, FillDone
<1>2. IsFill(c)
  BY <1>1, HeadShape
<1>3. c \in Files /\ Live(c) /\ Tail(line[c]) = <<>>
  <2>1. \A p : line[c] = <<p>> => Tail(line[c]) = <<>>
    OBVIOUS
  <2> QED
    BY <1>2, <2>1 DEF IsFill
<1>4. ColumnOf(c) \in Range(columns)
  BY <1>1, <1>3, FileIn
<1>5. Alive(c) /\ ~OnlyLinks(c) /\ ColumnOf(c) \in At(c)
  BY <1>1, <1>4, WorkIs
<1>6. Install(c, r, c, server[c], shown, cluster)
  BY <1>1, <1>3 DEF FillDone
<1>7. \A w : In(w, shown) = Members(w)
  BY DEF Members
<1> QED
  BY <1>1, <1>3, <1>5, <1>6, <1>7, InstallCalm

\* A file was deleted.
LEMMA DeleteDoneCalm ==
  ASSUME FlowInv, FlowInv', Calm, NEW c, NEW r, NEW ids, Replied(c, r, ids), r.op = "delete",
         DeleteDone(c, r)
  PROVE  Calm'
<1>1. /\ View /\ View' /\ LineOK /\ Shapes /\ Apart /\ Tight /\ c \in Contexts /\ line[c] # <<>>
      /\ r = Head(line[c]) /\ Prune /\ Passed(c, Nothing)
  BY LineIs, NothingIs, DonePassed DEF FlowInv, Calm, Replied, DeleteDone
<1>2. IsDelete(c)
  BY <1>1, HeadShape
<1>3. PICK f \in Files : line[c] = <<Deleting(f)>>
  BY <1>2 DEF IsDelete
<1>4. Head(line[c]) = Deleting(f) /\ r.file = f
  BY <1>1, <1>3 DEF Deleting
<1>5. /\ line[c] = <<Deleting(f)>> /\ f \in Contexts /\ place[f] = c /\ ColumnOf(f) = c /\ ColumnOf(c) = c
      /\ c \in Columns /\ c \in Range(columns) /\ Alive(c) /\ c \in At(c) /\ ~OnlyLinks(c)
  BY <1>1, <1>4, DeletingIs
<1>6. Tail(line[c]) = <<>>
  BY <1>3
<1>7. line'[c] = <<>>
  BY <1>1, <1>6, NothingDone
<1>8. /\ shown' = shown \ Members(f) /\ place' = [place EXCEPT ![f] = Gone]
      /\ cluster' = [cluster EXCEPT ![f] = 0]
  BY <1>4 DEF DeleteDone, Show
<1>9. /\ place'[f] = Gone
      /\ \A g \in Files : g # f => place'[g] = place[g] /\ cluster'[g] = cluster[g]
  BY <1>1, <1>8 DEF View, FitsIn
<1>10. \A w : w # f => Members(w)' = Members(w)
  BY <1>8 DEF Members, In
<1>11. AnswerOf(c, r, Nothing, {c})
  <2>1. \A s \in Contexts : Nothing[s] = <<>>
    BY DEF Nothing
  <2> QED
    BY <1>1, <1>5, <2>1, NothingIs DEF AnswerOf, Replied
<1>12. Left(c, {c})
  <2>1. ~Alive(c)'
    BY <1>7 DEF Alive
  <2> QED
    BY <1>7, <2>1 DEF Left
<1>13. made <= made' /\ NewOnes /\ RowStep /\ Tight'
  <2>1. \A d \in Columns : Occ(d)' => Occ(d)
    <3>1. Gone \notin Columns
      BY FlowAssumption DEF Contexts
    <3>2. \A d \in Columns, g \in Files : place'[g] = d => place[g] = d
      BY <1>9, <3>1
    <3>3. \A d : In(d, shown') \subseteq In(d, shown)
      BY <1>8 DEF In
    <3> QED
      BY <3>2, <3>3 DEF Occ, Occupied
  <2> QED
    BY <1>1, <1>5, <2>1, PruneStep
<1>14. Shown(c, r)
  <2>1. \A w \in Contexts : ColumnOf(w) \notin At(c) => Steady(w)
    BY <1>5, <1>9, <1>10 DEF Steady
  <2>2. ASSUME NEW g \in Files, Live(g)'
        PROVE  Members(g)' = Members(g) /\ r # Deleting(g)
    <3>1. g # f
      BY <1>9, <2>2, FlowAssumption DEF Live, Contexts
    <3>2. r # Deleting(g)
      BY <1>4, <3>1 DEF Deleting
    <3> QED
      BY <1>10, <3>1, <3>2
  <2>3. \A o \in shown' : o \in shown
    BY <1>8
  <2>4. \A g \in Files : place'[g] = place[g] \/ place'[g] = Gone
    BY <1>9
  <2> QED
    BY <2>1, <2>2, <2>3, <2>4 DEF Shown
<1> QED
  BY <1>5, <1>11, <1>12, <1>13, <1>14, AloneCalm

\* Two requests, one after the other.
LEMMA TwoRequests == \A a, b : <<a>> \o <<b>> = <<a, b>>
<1> SUFFICES ASSUME NEW a, NEW b
             PROVE  <<a>> \o <<b>> = <<a, b>>
  OBVIOUS
<1> DEFINE S == {a, b}
           s == <<a>>
           t == <<b>>
           u == <<a, b>>
<1>1. s \in Seq(S) /\ t \in Seq(S) /\ Len(s) = 1 /\ Len(t) = 1 /\ s[1] = a /\ t[1] = b
  OBVIOUS
<1>2. u \in Seq(S) /\ Len(u) = 2 /\ u[1] = a /\ u[2] = b
  OBVIOUS
<1> HIDE DEF s, t, u, S
<1>3. /\ s \o t \in Seq(S) /\ Len(s \o t) = 2
      /\ (s \o t)[1] = a /\ (s \o t)[2] = b
  BY <1>1, ConcatProperties
<1> DEFINE v == s \o t
<1>4. v \in Seq(S) /\ Len(v) = 2 /\ v[1] = a /\ v[2] = b
  BY <1>3
<1> HIDE DEF v
<1>5. v = u
  BY <1>2, <1>4, SeqEqual
<1> QED
  BY <1>5 DEF v, u, s, t

\* A card moves to a file: its removal is asked for where it was.
LEMMA InsertDoneCalm ==
  ASSUME FlowInv, FlowInv', Calm, NEW c, NEW r, NEW ids, Replied(c, r, ids), r.op = "insert",
         InsertDone(c, r, ids)
  PROVE  Calm'
<1>1. /\ View /\ View' /\ LineOK /\ LineOK' /\ Shapes /\ Apart /\ Tight /\ c \in Contexts /\ line[c] # <<>>
      /\ r = Head(line[c]) /\ ids = server[c] /\ ids \in SUBSET Accounts /\ Unpruned /\ UNCHANGED server
  BY LineIs DEF FlowInv, Calm, Replied, InsertDone
<1>2. IsInsert(c)
  BY <1>1, HeadShape
<1>3. PICK o \in shown : o.home # c /\ line[c] = <<Inserting(o)>>
  BY <1>2 DEF IsInsert
<1>4. r = Inserting(o) /\ Tail(line[c]) = <<>> /\ c \in Files /\ Live(c)
  BY <1>1, <1>2, <1>3 DEF IsInsert
<1>5. r.card = o
  BY <1>4 DEF Inserting
<1> PICK h : h = o.home
  OBVIOUS
<1> PICK move : move = [file |-> c, ids |-> ids]
  OBVIOUS
<1> PICK p : p = Removing(o, move)
  OBVIOUS
<1> PICK asked : asked = Only(h, <<p>>)
  OBVIOUS
<1>6. /\ o \in Card /\ h \in Contexts /\ h # c /\ ColumnOf(h) \in Range(columns) /\ ColumnOf(c) \in Range(columns)
      /\ o \in Members(h)
  BY <1>1, <1>3, <1>4, CardIn, FileIn
<1>7. /\ Done(c, r, asked) /\ asked[h] = <<p>> /\ \A s \in Contexts : s # h => asked[s] = <<>>
  BY <1>3, <1>5, <1>6, OnlyAt DEF InsertDone
<1>8. UNCHANGED <<columns, made, place, cluster, shown>>
  BY <1>1, <1>3, <1>5 DEF InsertDone, Unpruned
<1>9. p.op = "remove" /\ p.card = o /\ p.move = move /\ move.file = c /\ move # None
  BY <1>1, <1>4, FlowAssumption DEF Removing
<1>10. AskedOK(asked)
  <2>1. RequestOK(h, p)
    BY <1>1, <1>4, <1>6, <1>9 DEF RequestOK, MoveOK, Immediate
  <2> QED
    BY <2>1, OnlyOne
<1>11. Passed(c, asked)
  BY <1>7, <1>10, DonePassed
<1>12. Alive(c) /\ ~OnlyLinks(c) /\ ColumnOf(c) \in At(c)
  BY <1>1, <1>4, <1>6, WorkIs DEF Inserting
<1>13. ColumnOf(h) \in At(c)
  <2>1. r \in Range(line[c]) /\ r.op = "insert"
    BY <1>1, TailIs DEF LineOK, AskedOK
  <2>2. h \in Works(c)
    BY <1>5, <1>6, <2>1 DEF Works
  <2> QED
    BY <2>2 DEF At
<1>14. line[h] = <<>> \/ (h \in Columns /\ Light(h))
  BY <1>1, <1>6, <1>12, <1>13, NothingElse
<1>15. line'[c] = <<>>
  BY <1>1, <1>4, <1>6, <1>7, <1>10, <1>11, DoneIs
<1>16. \/ line'[h] = <<p>>
       \/ h \in Columns /\ \E g \in Files : line'[h] = <<Creating(g, {}), p>>
  <2>1. CASE line[h] = <<>>
    BY <1>1, <1>6, <1>7, <1>10, <1>11, <2>1, DoneIs
  <2>2. CASE h \in Columns /\ Light(h)
    <3>1. PICK g \in Files : line[h] = <<Creating(g, {})>>
      BY <2>2 DEF Light
    <3>2. line'[h] = line[h] \o asked[h]
      BY <1>6, <1>11 DEF Passed
    <3>3. \A a, b : <<a>> \o <<b>> = <<a, b>>
      BY TwoRequests
    <3>4. line'[h] = <<Creating(g, {}), p>>
      BY <1>7, <3>1, <3>2, <3>3
    <3> QED
      BY <2>2, <3>4
  <2> QED
    BY <1>14, <2>1, <2>2
<1>17. Shape(h)'
  <2>1. p = Removing(o, MoveTo(c)') /\ o \in Members(h)' /\ Live(c)'
    BY <1>1, <1>4, <1>6, <1>8 DEF MoveTo, Members, In, Live
  <2>2. IsMove(h)'
    BY <1>4, <1>6, <1>16, <2>1 DEF IsMove
  <2> QED
    BY <2>2 DEF Shape
<1>18. \A q \in Range(line'[h]) : q = p \/ q.op = "create"
  <2>1. CASE line'[h] = <<p>>
    BY <2>1, OneRequest
  <2>2. ASSUME NEW g, line'[h] = <<Creating(g, {}), p>>
        PROVE  \A q \in Range(line'[h]) : q = p \/ q.op = "create"
    <3>1. \A a, b : Range(<<a, b>>) = {a, b}
      BY DEF Range
    <3>2. Creating(g, {}).op = "create"
      BY DEF Creating
    <3> QED
      BY <2>2, <3>1, <3>2
  <2> QED
    BY <1>16, <2>1, <2>2
<1>19. p \in Range(line'[h])
  <2>1. CASE line'[h] = <<p>>
    BY <2>1, OneRequest
  <2>2. ASSUME NEW g, line'[h] = <<Creating(g, {}), p>>
        PROVE  p \in Range(line'[h])
    <3>1. \A a, b : b \in Range(<<a, b>>)
      BY DEF Range
    <3> QED
      BY <2>2, <3>1
  <2> QED
    BY <1>16, <2>1, <2>2
<1>20. At(h)' \subseteq At(c)
  <2>1. Works(h)' \subseteq {h, c}
    BY <1>9, <1>18 DEF Works
  <2>2. ColumnOf(h)' = ColumnOf(h) /\ ColumnOf(c)' = ColumnOf(c)
    BY <1>8 DEF ColumnOf
  <2> QED
    BY <1>12, <1>13, <2>1, <2>2 DEF At
<1>21. AnswerOf(c, r, asked, {c, h})
  BY <1>1, <1>6, <1>7, <1>10, <1>12, <1>13, <1>11 DEF AnswerOf, Replied
<1>22. Left(c, {c, h})
  <2>1. ~Alive(c)'
    BY <1>15 DEF Alive
  <2>2. \A x \in {c, h} : line'[x] # <<>> => Shape(x)'
    BY <1>15, <1>17
  <2>3. \A x \in {c, h} : Alive(x)' => At(x)' \subseteq At(c)
    BY <1>20, <2>1
  <2>4. \A x, y \in {c, h} : x # y => ~(Alive(x)' /\ Alive(y)')
    BY <2>1
  <2> QED
    BY <2>2, <2>3, <2>4 DEF Left
<1>23. made <= made' /\ NewOnes /\ RowStep /\ Tight'
  BY <1>1, <1>8, StillRow
<1>24. Shown(c, r)
  <2>1. Moving(h, c)'
    BY <1>9, <1>19 DEF Moving
  <2>2. \A w : Members(w)' = Members(w)
    BY <1>8 DEF Members, In
  <2>3. \A w : Steady(w)
    BY <1>8, <2>2 DEF Steady
  <2>4. \A g : r # Deleting(g)
    BY DEF Deleting
  <2> QED
    BY <1>6, <1>8, <2>1, <2>2, <2>3, <2>4 DEF Shown
<1> QED
  BY <1>12, <1>21, <1>22, <1>23, <1>24, AloneCalm

-----------------------------------------------------------------------------
(* Removals *)

\* A card of a column that is cleaned, or that was removed, is gone.
LEMMA CleanDoneCalm ==
  ASSUME FlowInv, FlowInv', Calm, NEW c, NEW r, NEW ids, Replied(c, r, ids), r.op = "remove",
         IsClean(c), RemoveDone(c, r, ids)
  PROVE  Calm'
<1>1. /\ View /\ View' /\ LineOK /\ Shapes /\ Apart /\ Tight /\ c \in Contexts /\ line[c] # <<>>
      /\ r = Head(line[c]) /\ c \in Columns /\ c \notin Files /\ ColumnOf(c) = c
  BY ColumnIs, LineIs DEF FlowInv, Calm, Replied, IsClean
<1> PICK q : q = Tail(line[c])
  OBVIOUS
<1>2. PICK o \in Members(c) : r = Removing(o, None) /\ CleanRest(c, o, q)
  BY <1>1, CleanTail
<1>3. r.card = o /\ r.move = None /\ o \in shown /\ o.home = c
  BY <1>2 DEF Removing, Members, In
<1>4. Show(shown \ {o}, place, cluster) /\ Passed(c, Nothing) /\ Prune
  <2>1. Continue(c, r, shown \ {o}, cluster) /\ Prune
    BY <1>1, <1>3 DEF RemoveDone
  <2>2. Show(shown \ {o}, place, cluster) /\ Done(c, r, Nothing)
    BY <1>3, <2>1 DEF Continue
  <2> QED
    BY <2>1, <2>2, NothingIs, DonePassed
<1>5. shown' = shown \ {o} /\ place' = place /\ cluster' = cluster
  BY <1>4 DEF Show
<1>6. c \in Range(columns) /\ Occ(c) /\ c # columns[1] /\ c # columns[Len(columns)]
  BY <1>1, <1>3, CardIn, OccIn
<1>7. Alive(c) /\ ~OnlyLinks(c) /\ c \in At(c)
  BY <1>1, <1>6, WorkIs
<1>8. line'[c] = q
  BY <1>1, <1>4, NothingDone
<1>9. Members(c)' = Members(c) \ {o} /\ \A w : w # c => Members(w)' = Members(w)
  BY <1>3, <1>5 DEF Members, In
<1>10. \A d \in Columns : Occ(d)' => Occ(d)
  BY <1>5 DEF Occ, Occupied, In
<1>11. /\ made <= made' /\ NewOnes /\ RowStep /\ Tight'
       /\ c \in Range(columns') => Occ(c)'
  <2>1. /\ made <= made' /\ NewOnes /\ RowStep /\ Tight'
        /\ \A d \in Range(columns) :
             d \in Range(columns') => d \in {columns[1], columns[Len(columns)]} \/ Occ(d)'
    BY <1>1, <1>4, <1>6, <1>10, PruneStep
  <2> QED
    BY <1>6, <2>1
<1>12. IsClean(c)'
  <2>1. IsInjective(line'[c])
    BY <1>2, <1>8 DEF CleanRest
  <2>2. ASSUME NEW i \in 1..Len(line'[c])
        PROVE  \/ \E p \in Members(c)' : line'[c][i] = Removing(p, None)
               \/ /\ i = Len(line'[c]) /\ line'[c][i].op = "clear"
                  /\ \A p \in Members(c)' : Removing(p, None) \in Range(line'[c])
                  /\ c \in Range(columns') => Occ(c)'
    BY <1>2, <1>8, <1>9, <1>11 DEF CleanRest
  <2> QED
    BY <1>1, <2>1, <2>2 DEF IsClean
<1>13. At(c)' \subseteq At(c)
  <2>1. Range(line'[c]) \subseteq Range(line[c])
    BY <1>1, <1>8, TailIs DEF LineOK, AskedOK
  <2>2. Works(c)' \subseteq Works(c)
    BY <2>1 DEF Works
  <2>3. \A w : ColumnOf(w)' = ColumnOf(w)
    BY <1>5 DEF ColumnOf
  <2> QED
    BY <2>2, <2>3 DEF At
<1>14. AnswerOf(c, r, Nothing, {c})
  <2>1. \A s \in Contexts : Nothing[s] = <<>>
    BY DEF Nothing
  <2> QED
    BY <1>1, <1>4, <1>7, <2>1, NothingIs DEF AnswerOf, Replied
<1>15. Left(c, {c})
  BY <1>12, <1>13 DEF Left, Shape
<1>16. Shown(c, r)
  <2>1. \A w \in Contexts : ColumnOf(w) \notin At(c) => Steady(w)
    BY <1>1, <1>5, <1>7, <1>9 DEF Steady
  <2>2. \A g \in Files : Members(g)' = Members(g) /\ g # c
    BY <1>1, <1>9
  <2>3. \A g : r # Deleting(g)
    BY DEF Deleting
  <2> QED
    BY <1>3, <1>5, <2>1, <2>2, <2>3 DEF Shown
<1> QED
  BY <1>7, <1>11, <1>14, <1>15, <1>16, AloneCalm

\* What a file shows after a card of it was removed: all that the server has.
KeptOf(c, ids) == {p \in Members(c) : p.account \in ids}
LEMMA KeptIs ==
  ASSUME FlowInv, Calm, NEW c \in Files, NEW r, NEW ids, Replied(c, r, ids), r.op = "remove",
         NEW o \in Members(c), r.card = o
  PROVE  /\ AccountsOf(KeptOf(c, ids)) = ids /\ o \notin KeptOf(c, ids)
         /\ NewCards(c, ids \ AccountsOf(KeptOf(c, ids))) = {}
<1> PICK kept : kept = KeptOf(c, ids)
  OBVIOUS
<1>1. reply[c] # None /\ Head(line[c]) = r /\ ids = server[c]
  BY DEF Replied, Immediate
<1>2. ids = AccountsOf(Members(c)) \ {o.account}
  BY <1>1 DEF Calm, Dropped
<1>3. AccountsOf(kept) = ids /\ o \notin kept
  BY <1>2 DEF AccountsOf, KeptOf
<1>4. ids \ AccountsOf(kept) = {}
  BY <1>3
<1>5. NewCards(c, {}) = {}
  BY DEF NewCards
<1> QED
  BY <1>3, <1>4, <1>5

\* A card of a file is gone.
LEMMA DropDoneCalm ==
  ASSUME FlowInv, FlowInv', Calm, NEW c, NEW r, NEW ids, Replied(c, r, ids), r.op = "remove",
         IsDrop(c), RemoveDone(c, r, ids)
  PROVE  Calm'
<1>1. /\ View /\ View' /\ LineOK /\ Shapes /\ Apart /\ Tight /\ c \in Contexts /\ line[c] # <<>>
      /\ r = Head(line[c]) /\ c \in Files /\ c \notin Columns /\ ids = server[c]
  BY FlowAssumption, LineIs DEF FlowInv, Calm, Replied, IsDrop
<1>2. PICK o \in Members(c) : line[c] = <<Removing(o, None)>>
  BY DEF IsDrop
<1>3. r = Removing(o, None) /\ Tail(line[c]) = <<>>
  BY <1>1, <1>2
<1>4. r.card = o /\ r.move = None /\ o \in shown /\ o.home = c
  BY <1>3 DEF Removing, Members, In
<1>5. ColumnOf(c) \in Range(columns)
  BY <1>1, <1>4, CardIn
<1>6. Alive(c) /\ ~OnlyLinks(c) /\ ColumnOf(c) \in At(c)
  BY <1>1, <1>5, WorkIs
<1> PICK kept : kept = KeptOf(c, ids)
  OBVIOUS
<1>7. AccountsOf(kept) = ids /\ o \notin kept /\ NewCards(c, ids \ AccountsOf(kept)) = {}
  BY <1>1, <1>4, KeptIs
<1>8. kept \subseteq Members(c) /\ (ids = {} => kept = {})
  BY DEF KeptOf
<1>9. /\ Unpruned /\ Passed(c, Nothing) /\ shown' = (shown \ Members(c)) \cup kept /\ place' = place
      /\ \A g \in Files : g # c => cluster'[g] = cluster[g]
  <2>1. Unpruned /\ Passed(c, Nothing)
    <3>1. Unpruned /\ Done(c, r, Nothing)
      BY <1>1, <1>4, <1>7 DEF RemoveDone, Continue, KeptOf
    <3> QED
      BY <3>1, NothingIs, DonePassed
  <2>2. CASE ids = {}
    <3>1. Show(shown \ Members(c), place, [cluster EXCEPT ![c] = 0])
      BY <1>1, <1>4, <2>2 DEF RemoveDone, Continue
    <3>2. \A g \in Files : g # c => cluster'[g] = cluster[g]
      BY <1>1, <3>1 DEF Show, View
    <3> QED
      BY <1>8, <2>1, <2>2, <3>1, <3>2 DEF Show
  <2>3. CASE ids # {}
    <3>1. Show((shown \ Members(c)) \cup kept \cup {}, place, cluster)
      BY <1>1, <1>4, <1>7, <2>3 DEF RemoveDone, Continue, KeptOf
    <3> QED
      BY <2>1, <3>1 DEF Show
  <2> QED
    BY <2>2, <2>3
<1>10. line'[c] = <<>>
  BY <1>1, <1>3, <1>9, NothingDone
<1>11. /\ \A w : w # c => Members(w)' = Members(w)
       /\ Members(c)' = kept /\ o \notin shown'
  BY <1>4, <1>7, <1>8, <1>9 DEF Members, In
<1>12. AnswerOf(c, r, Nothing, {c})
  <2>1. \A s \in Contexts : Nothing[s] = <<>>
    BY DEF Nothing
  <2> QED
    BY <1>1, <1>6, <1>9, <2>1, NothingIs DEF AnswerOf, Replied
<1>13. Left(c, {c})
  <2>1. ~Alive(c)'
    BY <1>10 DEF Alive
  <2> QED
    BY <1>10, <2>1 DEF Left
<1>14. made <= made' /\ NewOnes /\ RowStep /\ Tight'
  <2>1. \A d \in Columns : In(d, shown') = In(d, shown)
    <3>1. \A d \in Columns : d # c
      BY <1>1
    <3> QED
      BY <1>11, <3>1 DEF Members
  <2>2. \A d \in Columns : Occ(d)' <=> Occ(d)
    BY <1>9, <2>1 DEF Occ, Occupied
  <2> QED
    BY <1>1, <1>9, <2>2, SameRow
<1>15. Shown(c, r)
  <2>1. \A w \in Contexts : ColumnOf(w) \notin At(c) => Steady(w)
    BY <1>6, <1>9, <1>11 DEF Steady
  <2>2. AccountsOf(Members(c)') = server[c]
    BY <1>1, <1>7, <1>11
  <2>3. \A g \in Files : g # c => AccountsOf(Members(g)') = AccountsOf(Members(g))
    BY <1>11
  <2>4. \A g : r # Deleting(g)
    BY DEF Deleting
  <2>5. \A p \in shown' : p \in shown
    BY <1>8, <1>9 DEF Members, In
  <2> QED
    BY <1>4, <1>9, <1>11, <2>1, <2>2, <2>3, <2>4, <2>5 DEF Shown
<1> QED
  BY <1>6, <1>12, <1>13, <1>14, <1>15, AloneCalm

\* A card has moved to a file.
LEMMA MoveDoneCalm ==
  ASSUME FlowInv, FlowInv', Calm, NEW c, NEW r, NEW ids, Replied(c, r, ids), r.op = "remove",
         IsMove(c), RemoveDone(c, r, ids)
  PROVE  Calm'
<1>1. /\ View /\ LineOK /\ Shapes /\ Apart /\ Tight /\ c \in Contexts /\ line[c] # <<>>
      /\ r = Head(line[c]) /\ ids = server[c] /\ cluster \in [Files -> Nat]
      /\ server \in [Contexts -> SUBSET Accounts]
  BY LineIs DEF FlowInv, View, Calm, Replied
<1>2. PICK o \in Members(c), f \in Files :
        /\ Live(f) /\ f # c
        /\ \/ line[c] = <<Removing(o, MoveTo(f))>>
           \/ c \in Columns /\ \E g \in Files : line[c] = <<Creating(g, {}), Removing(o, MoveTo(f))>>
  BY DEF IsMove
<1>3. line[c] = <<Removing(o, MoveTo(f))>>
  <2>1. \A a, b : line[c] = <<a, b>> => r = a
    BY <1>1
  <2>2. \A g : Creating(g, {}).op # "remove"
    BY DEF Creating
  <2> QED
    BY <1>2, <2>1, <2>2
<1>4. r = Removing(o, MoveTo(f)) /\ Tail(line[c]) = <<>> /\ r \in Range(line[c])
  <2>1. \A p : line[c] = <<p>> => r = p /\ Tail(line[c]) = <<>>
    BY <1>1
  <2> QED
    BY <1>3, <2>1, OneRequest
<1>5. r.card = o /\ r.move = MoveTo(f) /\ o \in shown /\ o.home = c
  BY <1>4 DEF Removing, Members, In
<1>6. r.move.file = f /\ r.move.ids = server[f] /\ r.move # None
  <2>1. f \in Contexts /\ server[f] \in SUBSET Accounts
    BY <1>1 DEF Contexts
  <2>2. MoveTo(f) # None
    BY <2>1, FlowAssumption DEF MoveTo
  <2> QED
    BY <1>5, <2>2 DEF MoveTo
<1>7. Alive(c) /\ ~OnlyLinks(c) /\ ColumnOf(f) \in At(c)
  <2>1. Moving(c, f)
    BY <1>4, <1>6 DEF Moving
  <2> QED
    BY <1>1, <2>1, MovingIs
<1>8. ColumnOf(c) \in At(c)
  BY <1>1 DEF At, Works
<1>9. \A cards, clusters : Continue(c, r, cards, clusters) => Install(c, r, f, server[f], cards, clusters)
  BY <1>2, <1>6 DEF Continue, Arrive
<1>10. CASE c \in Columns
  <2>1. c \notin Files
    BY <1>10, ColumnIs
  <2>2. Prune /\ Install(c, r, f, server[f], shown \ {o}, cluster)
    BY <1>5, <1>9, <2>1, <1>10 DEF RemoveDone
  <2>3. \A w : w # c => In(w, shown \ {o}) = Members(w)
    BY <1>5 DEF Members, In
  <2> PICK cards : cards = shown \ {o}
    OBVIOUS
  <2>4. /\ cards \subseteq shown /\ o \notin cards /\ Install(c, r, f, server[f], cards, cluster)
        /\ \A w : w # c => In(w, cards) = Members(w)
    BY <2>2, <2>3
  <2> QED
    BY <1>1, <1>2, <1>4, <1>5, <1>6, <1>7, <1>8, <1>10, <2>1, <2>2, <2>4, InstallCalm
<1>11. CASE c \in Files
  <2> PICK kept : kept = KeptOf(c, ids)
    OBVIOUS
  <2>1. AccountsOf(kept) = ids /\ o \notin kept /\ NewCards(c, ids \ AccountsOf(kept)) = {}
    BY <1>5, <1>11, KeptIs
  <2>2. kept \subseteq Members(c) /\ (ids = {} => kept = {}) /\ c \notin Columns
    BY <1>11, FlowAssumption DEF KeptOf
  <2>3. /\ Unpruned
        /\ \/ Continue(c, r, (shown \ Members(c)) \cup kept, [cluster EXCEPT ![c] = 0])
           \/ Continue(c, r, (shown \ Members(c)) \cup kept, cluster)
    <3>1. Unpruned
      BY <1>5, <2>2, <1>11 DEF RemoveDone
    <3>2. CASE ids = {}
      <4>1. Continue(c, r, shown \ Members(c), [cluster EXCEPT ![c] = 0])
        BY <1>5, <2>2, <1>11, <3>2 DEF RemoveDone
      <4>2. (shown \ Members(c)) \cup kept = shown \ Members(c)
        BY <2>2, <3>2
      <4> QED
        BY <3>1, <4>1, <4>2
    <3>3. CASE ids # {}
      <4>1. Continue(c, r, (shown \ Members(c)) \cup kept \cup {}, cluster)
        BY <1>5, <2>1, <2>2, <1>11, <3>3 DEF RemoveDone, KeptOf
      <4>2. (shown \ Members(c)) \cup kept \cup {} = (shown \ Members(c)) \cup kept
        OBVIOUS
      <4> QED
        BY <3>1, <4>1, <4>2
    <3> QED
      BY <3>2, <3>3
  <2>4. PICK clusters \in [Files -> Nat] :
          /\ Install(c, r, f, server[f], (shown \ Members(c)) \cup kept, clusters)
          /\ \A g \in Files : g # c => clusters[g] = cluster[g]
    <3>1. CASE Continue(c, r, (shown \ Members(c)) \cup kept, [cluster EXCEPT ![c] = 0])
      <4> PICK k : k = [cluster EXCEPT ![c] = 0]
        OBVIOUS
      <4>1. k \in [Files -> Nat] /\ \A g \in Files : g # c => k[g] = cluster[g]
        BY <1>1
      <4> QED
        BY <1>9, <3>1, <4>1
    <3>2. CASE Continue(c, r, (shown \ Members(c)) \cup kept, cluster)
      BY <1>1, <1>9, <3>2
    <3> QED
      BY <2>3, <3>1, <3>2
  <2>5. PICK cards :
        /\ Install(c, r, f, server[f], cards, clusters)
        /\ \A w : w # c => In(w, cards) = Members(w)
        /\ In(c, cards) = kept /\ cards \subseteq shown /\ o \notin cards
    <3> PICK k : k = (shown \ Members(c)) \cup kept
      OBVIOUS
    <3>1. /\ \A w : w # c => In(w, k) = Members(w)
          /\ In(c, k) = kept /\ k \subseteq shown /\ o \notin k
      BY <1>5, <2>1, <2>2 DEF Members, In
    <3> QED
      BY <2>4, <3>1
  <2>6. AccountsOf(In(c, cards)) = server[c]
    BY <1>1, <2>1, <2>5
  <2>7. /\ Live(f) /\ f # c /\ ColumnOf(f) \in At(c) /\ ColumnOf(c) \in At(c) /\ Alive(c) /\ ~OnlyLinks(c)
        /\ Tail(line[c]) = <<>> /\ r.card \notin cards /\ r.card.home # f /\ r.move # None /\ r.move.file = f
    BY <1>2, <1>4, <1>5, <1>6, <1>7, <1>8, <2>5
  <2> HIDE DEF Install
  <2> QED
    BY <1>11, <2>3, <2>4, <2>5, <2>6, <2>7, InstallCalm
<1> QED
  BY <1>1, <1>10, <1>11 DEF Contexts

-----------------------------------------------------------------------------
(* The invariant and the theorems *)

\* A card was removed.
LEMMA RemoveDoneCalm ==
  ASSUME FlowInv, FlowInv', Calm, NEW c, NEW r, NEW ids, Replied(c, r, ids), r.op = "remove",
         RemoveDone(c, r, ids)
  PROVE  Calm'
<1>1. IsClean(c) \/ IsDrop(c) \/ IsMove(c)
  BY HeadShape, LineIs DEF FlowInv, Calm, Replied
<1> QED
  BY <1>1, CleanDoneCalm, DropDoneCalm, MoveDoneCalm

\* A request of a context was answered.
LEMMA AnswerCalm ==
  ASSUME FlowInv, FlowInv', Calm, NEW c \in Contexts, Answer(c)
  PROVE  Calm'
<1> PICK ids : ids = reply[c]
  OBVIOUS
<1>1. /\ reply[c] # None /\ reply' = [reply EXCEPT ![c] = None] /\ UNCHANGED server
      /\ line[c] # <<>> /\ line[c] = queue[c] /\ LineOK
  <2>1. reply[c] # None /\ reply' = [reply EXCEPT ![c] = None] /\ UNCHANGED server
    BY DEF Answer
  <2>2. LineOK /\ RepliesOK
    BY Lined
  <2> QED
    BY <2>1, <2>2, NotQuick DEF RepliesOK
<1> PICK r : r = Head(line[c])
  OBVIOUS
<1>2. \/ r.op = "branch" /\ BranchDone(c, r, ids)
      \/ r.op = "remove" /\ RemoveDone(c, r, ids)
      \/ r.op = "clear" /\ Done(c, r, Nothing) /\ UNCHANGED viewVars
      \/ r.op = "insert" /\ InsertDone(c, r, ids)
      \/ r.op = "fill" /\ FillDone(c, r, ids)
      \/ r.op = "delete" /\ DeleteDone(c, r)
      \/ r.op = "create" /\ CreateDone(c, r)
      \/ r.op = "links" /\ LinksDone(c, r)
  BY <1>1 DEF Answer
<1>3. Replied(c, r, ids)
  <2>1. ~Immediate(r)
    BY <1>2 DEF Immediate
  <2> QED
    BY <1>1, <2>1 DEF Replied, FlowInv, Calm, ReplyIs
<1>4. Done(c, r, Nothing) => Passed(c, Nothing)
  BY <1>3, NothingIs, DonePassed
<1>5. CASE r.op = "create" /\ CreateDone(c, r)
  <2>1. CASE r.ids = {}
    <3>1. Done(c, r, Nothing) /\ UNCHANGED viewVars
      BY <1>5, <2>1 DEF CreateDone
    <3> QED
      BY <1>3, <1>4, <1>5, <3>1, CreatedCalm
  <2>2. CASE r.ids # {}
    BY <1>3, <1>5, <2>2, FillingCalm
  <2> QED
    BY <2>1, <2>2
<1>6. CASE r.op = "clear" /\ Done(c, r, Nothing) /\ UNCHANGED viewVars
  BY <1>3, <1>4, <1>6, ClearDoneCalm
<1>7. CASE r.op = "branch" /\ BranchDone(c, r, ids)
  BY <1>3, <1>7, BranchDoneCalm
<1>8. CASE r.op = "remove" /\ RemoveDone(c, r, ids)
  BY <1>3, <1>8, RemoveDoneCalm
<1>9. CASE r.op = "insert" /\ InsertDone(c, r, ids)
  BY <1>3, <1>9, InsertDoneCalm
<1>10. CASE r.op = "fill" /\ FillDone(c, r, ids)
  BY <1>3, <1>10, FillDoneCalm
<1>11. CASE r.op = "delete" /\ DeleteDone(c, r)
  BY <1>3, <1>11, DeleteDoneCalm
<1>12. CASE r.op = "links" /\ LinksDone(c, r)
  BY <1>3, <1>12, LinksDoneCalm
<1> QED
  BY <1>2, <1>5, <1>6, <1>7, <1>8, <1>9, <1>10, <1>11, <1>12

\* An immediate request was answered: it was all that its file waited for.
LEMMA AnswerNowCalm ==
  ASSUME FlowInv, FlowInv', Calm, NEW r \in immediate, AnswerNow(r)
  PROVE  Calm'
<1> PICK c : c = r.file
  OBVIOUS
<1>1. c \in Files /\ c \in Contexts /\ Immediate(r) /\ r \in Quick(c)
  BY DEF FlowInv, NowOK, NowAsked, Contexts, Quick
<1>2. LineOK /\ RepliesOK /\ Shapes
  BY Lined DEF Calm
<1>3. /\ queue[c] = <<>> /\ line[c] # <<>> /\ IsExpand(c) /\ Quick(c) = {Expanding(c, cluster[c])}
  BY <1>1, <1>2, QuickIs
<1>4. r = Expanding(c, cluster[c]) /\ r.op = "expand" /\ r = Head(line[c])
  <2>1. r = Expanding(c, cluster[c]) /\ line[c] = <<Expanding(c, cluster[c])>>
    BY <1>1, <1>3 DEF IsExpand
  <2> QED
    BY <2>1 DEF Expanding
<1>5. reply' = [reply EXCEPT ![c] = None] /\ UNCHANGED server
  <2>1. reply[c] = None
    BY <1>1, <1>2 DEF RepliesOK
  <2>2. reply \in [Contexts -> (SUBSET Accounts) \cup {None}] /\ UNCHANGED <<server, reply>>
    BY DEF FlowInv, AnswerNow
  <2> QED
    BY <1>1, <2>1, <2>2
<1> PICK ids : ids = server[c]
  BY Zenon
<1>6. Replied(c, r, ids)
  <2>1. Quick(c) = {r}
    BY <1>3, <1>4
  <2> QED
    BY <1>1, <1>3, <1>4, <1>5, <2>1 DEF Replied, FlowInv
<1>7. ExpandDone(c, r) /\ r.op = "expand"
  BY <1>4 DEF AnswerNow
<1> QED
  BY <1>6, <1>7, ExpandDoneCalm

\* Every step of a patient user's view keeps it calm.
LEMMA StepCalm ==
  ASSUME FlowInv, FlowInv', patient, Calm, [Next]_vars
  PROVE  patient' /\ Calm'
<1>1. ASSUME NEW o \in shown, NEW right \in BOOLEAN, Branch(o, right)
      PROVE  patient' /\ Calm'
  BY <1>1, BranchCalm DEF Branch, Act
<1>2. ASSUME NEW o \in shown, RemoveCard(o)
      PROVE  patient' /\ Calm'
  BY <1>2, RemoveCardCalm DEF RemoveCard, Act
<1>3. ASSUME NEW o \in shown, CreateFile(o)
      PROVE  patient' /\ Calm'
  BY <1>3, CreateFileCalm DEF CreateFile, Act
<1>4. ASSUME NEW o \in shown, NEW f \in Files, AddToFile(o, f)
      PROVE  patient' /\ Calm'
  BY <1>4, AddToFileCalm DEF AddToFile, Act
<1>5. ASSUME NEW c \in Range(columns), CleanColumn(c)
      PROVE  patient' /\ Calm'
  BY <1>5, CleanCalm DEF CleanColumn, Act
<1>6. ASSUME NEW c \in Range(columns), CreateEmpty(c)
      PROVE  patient' /\ Calm'
  BY <1>6, CreateEmptyCalm DEF CreateEmpty, Act
<1>7. ASSUME NEW f \in Files, RemoveFile(f)
      PROVE  patient' /\ Calm'
  BY <1>7, RemoveFileCalm DEF RemoveFile, Act
<1>8. ASSUME NEW ids \in SUBSET Accounts, AddFile(ids)
      PROVE  patient' /\ Calm'
  <2>1. patient' = patient
    BY <1>8 DEF AddFile, Act
  <2> QED
    BY <1>8, <2>1, AddFileCalm
<1>9. ASSUME NEW c \in Contexts, Serve(c)
      PROVE  patient' /\ Calm'
  BY <1>9, ServeCalm DEF Serve
<1>10. ASSUME NEW c \in Contexts, Answer(c)
       PROVE  patient' /\ Calm'
  BY <1>10, AnswerCalm DEF Answer
<1>11. ASSUME NEW r \in immediate, AnswerNow(r)
       PROVE  patient' /\ Calm'
  BY <1>11, AnswerNowCalm DEF AnswerNow
<1>12. CASE UNCHANGED vars
  <2>1. UNCHANGED <<patient, columns, made, place, cluster, shown, server, line, reply, stuck>>
    BY <1>12 DEF vars, viewVars, line, Quick
  <2>2. \A s : /\ Members(s)' = Members(s) /\ ColumnOf(s)' = ColumnOf(s) /\ Works(s)' = Works(s)
               /\ (Light(s)' <=> Light(s)) /\ (OnlyLinks(s)' <=> OnlyLinks(s))
    BY <2>1 DEF Members, In, ColumnOf, Works, Light, OnlyLinks
  <2>3. \A s : /\ At(s)' = At(s) /\ (Alive(s)' <=> Alive(s))
    BY <2>1, <2>2 DEF At, Alive
  <2>4. \A a, b : NearBy(a, b)' <=> NearBy(a, b)
    BY <2>1 DEF NearBy
  <2>5. \A s \in Contexts : Shape(s) => Shape(s)'
    BY <2>1, ShapeStays
  <2>6. Shapes'
    BY <2>1, <2>5 DEF Calm, Shapes
  <2>7. Apart'
    <3>1. \A s, t : Separate(s, t) => Separate(s, t)'
      BY <2>3, <2>4 DEF Separate
    <3> QED
      BY <2>1, <2>2, <2>3, <3>1 DEF Calm, Apart
  <2>8. Tight' /\ stuck' = {} /\ patient'
    BY <2>1 DEF Calm, Tight
  <2>9. ColumnsAgree' /\ ReplyIs' /\ UnmadeEmpty'
    BY <2>1 DEF Calm, ColumnsAgree, RemovalServed, ReplyIs, UnmadeEmpty
  <2>10. Dropped'
    BY <2>1, <2>2 DEF Calm, Dropped
  <2>11. Settled'
    <3>1. \A f \in Files : (Live(f)' <=> Live(f)) /\ (Unsettled(f) => Unsettled(f)')
      BY <2>1 DEF Live, Unsettled, Moving
    <3> QED
      BY <2>1, <2>2, <3>1 DEF Calm, Settled
  <2> QED
    BY <2>6, <2>7, <2>8, <2>9, <2>10, <2>11 DEF Calm
<1>13. CASE Next
  BY <1>1, <1>2, <1>3, <1>4, <1>5, <1>6, <1>7, <1>8, <1>9, <1>10, <1>11, <1>13 DEF Next
<1> QED
  BY <1>12, <1>13

\* A restored workspace is calm.
LEMMA InitCalm == Init => Calm
<1> SUFFICES ASSUME Init
             PROVE  Calm
  OBVIOUS
<1>1. PICK old \in {{}, {CHOOSE f \in Files : TRUE}} :
        LET at == [c \in Contexts |-> IF c \in 2..(made - 1) THEN Restored[patient][c - 1]
                                      ELSE IF c \in old THEN Filed ELSE {}]
        IN /\ place = [f \in Files |-> IF f \in old THEN 2 ELSE None]
           /\ cluster = [f \in Files |-> IF f \in old THEN 1 ELSE 0]
           /\ shown = {o \in [home : 2..(made - 1) \cup old, account : Accounts, nr : {1}] :
                         o.account \in at[o.home]}
           /\ server = at
  BY DEF Init
<1>2. old \subseteq Files
  BY FlowAssumption
<1>3. /\ \A c \in Contexts : line[c] = <<>> /\ reply[c] = None
      /\ stuck = {} /\ FlowInv /\ View /\ columns = [i \in 1..made |-> i] /\ patient \in BOOLEAN
      /\ made = Len(Restored[patient]) + 2
  <2>1. /\ \A c \in Contexts : queue[c] = <<>> /\ reply[c] = None
        /\ immediate = {} /\ stuck = {} /\ columns = [i \in 1..made |-> i] /\ patient \in BOOLEAN
        /\ made = Len(Restored[patient]) + 2
    BY DEF Init, Nothing
  <2>2. FlowInv /\ LineOK
    BY InitFlow, LineIs
  <2>3. \A c : Quick(c) = {}
    BY <2>1 DEF Quick
  <2>4. \A c \in Contexts : line[c] = <<>>
    BY <2>1, <2>2, <2>3, NotQuick
  <2> QED
    BY <2>1, <2>2, <2>4 DEF FlowInv
<1>4. /\ made \in Nat /\ made >= 3 /\ Len(columns) = made /\ 1..made \subseteq Columns
      /\ \A c \in 1..made : columns[c] = c /\ c \in Contexts /\ c \notin Files
      /\ \A f \in Files : f \in Contexts /\ f \notin 1..made
  <2>1. made \in Columns /\ made \in Nat /\ Len(columns) >= 3
    BY <1>3 DEF View, RowOK, Columns
  <2>2. Len(columns) = made /\ \A c \in 1..made : columns[c] = c
    BY <1>3, <2>1
  <2>3. 1..made \subseteq Columns
    BY <2>1, FlowAssumption DEF Columns
  <2> QED
    BY <2>1, <2>2, <2>3, FlowAssumption DEF Contexts
<1>5. /\ \A c \in 2..(made - 1) : server[c] = Restored[patient][c - 1]
      /\ \A f \in Files : server[f] = IF f \in old THEN Filed ELSE {}
  BY <1>1, <1>4
<1>6. \A o \in shown : /\ o.home \in 2..(made - 1) \cup old /\ o.home \in Contexts
                       /\ o.account \in server[o.home]
  BY <1>1, <1>2, <1>4
<1>7. ASSUME NEW c \in 2..(made - 1) \cup old, NEW a \in server[c]
      PROVE  \E o \in shown : o.home = c /\ o.account = a
  <2>1. c \in Contexts
    <3>1. CASE c \in old
      BY <1>2, <1>4, <3>1
    <3>2. CASE c \in 2..(made - 1)
      BY <1>4, <3>2
    <3> QED
      BY <1>7, <3>1, <3>2
  <2>2. server[c] \subseteq Accounts
    BY <1>3, <2>1 DEF FlowInv
  <2>3. [home |-> c, account |-> a, nr |-> 1] \in shown
    BY <1>1, <1>7, <2>1, <2>2
  <2> QED
    BY <2>3
<1>8. Shapes /\ Apart /\ ReplyIs /\ Dropped
  <2>1. \A f \in Files : reply[f] = None
    BY <1>3, <1>4
  <2> QED
    BY <1>3, <2>1 DEF Shapes, Apart, Alive, ReplyIs, Dropped
<1>9. ColumnsAgree
  BY <1>6 DEF ColumnsAgree
<1>10. Settled
  <2> SUFFICES ASSUME NEW f \in Files, Live(f)
               PROVE  AccountsOf(Members(f)) = server[f]
    BY DEF Settled
  <2>1. f \in old
    <3>1. place[f] = IF f \in old THEN 2 ELSE None
      BY <1>1
    <3> QED
      BY <3>1, FlowAssumption DEF Live, Contexts
  <2>2. \A a \in AccountsOf(Members(f)) : a \in server[f]
    BY <1>6 DEF AccountsOf, Members, In
  <2>3. \A a \in server[f] : a \in AccountsOf(Members(f))
    <3> SUFFICES ASSUME NEW a \in server[f]
                 PROVE  a \in AccountsOf(Members(f))
      OBVIOUS
    <3>1. PICK o \in shown : o.home = f /\ o.account = a
      BY <1>7, <2>1
    <3> QED
      BY <3>1 DEF AccountsOf, Members, In
  <2> QED
    BY <2>2, <2>3
<1>11. UnmadeEmpty
  <2> SUFFICES ASSUME NEW f \in Files, place[f] = None
               PROVE  server[f] = {}
    BY DEF UnmadeEmpty
  <2>1. 2 \in Contexts
    BY <1>4
  <2>2. f \notin old
    BY <1>1, <2>1, FlowAssumption
  <2> QED
    BY <1>5, <2>2
<1>12. Tight
  <2>1. CASE Len(Restored[patient]) = 1
    <3>1. made = 3
      BY <1>3, <2>1
    <3>2. \A c \in Columns : Occupied(c, shown, place) => c = 2
      <4> SUFFICES ASSUME NEW c \in Columns, Occupied(c, shown, place)
                   PROVE  c = 2
        OBVIOUS
      <4>1. c \notin Files
        BY FlowAssumption
      <4>2. CASE \E o \in shown : o.home = c
        BY <1>2, <1>6, <3>1, <4>1, <4>2
      <4>3. CASE \E f \in Files : place[f] = c
        <5>1. c # None
          BY FlowAssumption DEF Contexts
        <5> QED
          BY <1>1, <4>3, <5>1
      <4> QED
        BY <4>2, <4>3 DEF Occupied, In
    <3> QED
      BY <1>4, <3>1, <3>2 DEF Tight, TightRow
  <2>2. CASE {} \notin Range(Restored[patient])
    <3>1. \A i \in 2..(made - 1) : Restored[patient][i - 1] # {}
      <4> DEFINE q == Restored[patient]
      <4>1. \A i \in 2..(made - 1) : i - 1 \in 1..Len(q)
        BY <1>3, <1>4
      <4>2. DOMAIN q = 1..Len(q)
        <5>1. q \in Seq(SUBSET Accounts)
          BY <1>3, FlowAssumption
        <5> HIDE DEF q
        <5> QED
          BY <5>1, LenProperties
      <4>3. {} \notin Range(q)
        BY <2>2
      <4> HIDE DEF q
      <4>4. \A i \in 2..(made - 1) : q[i - 1] # {}
        BY <4>1, <4>2, <4>3 DEF Range
      <4> QED
        BY <4>4 DEF q
    <3>2. \A i \in 2..(made - 1) : columns[i] = i /\ \E a : a \in server[i]
      BY <1>4, <1>5, <3>1
    <3>3. \A i \in 2..(made - 1) : Occupied(columns[i], shown, place)
      BY <1>7, <3>2 DEF Occupied, In
    <3> QED
      BY <1>4, <3>3 DEF Tight, TightRow
  <2> QED
    BY <1>3, <2>1, <2>2, FlowAssumption
<1> QED
  BY <1>3, <1>8, <1>9, <1>10, <1>11, <1>12 DEF Calm

\* When nothing is asked for, each file shows what the server has.
LEMMA IdleSettled ==
  ASSUME FlowInv, Calm, Idle, NEW f \in Files, Live(f)
  PROVE  AccountsOf(Members(f)) = server[f]
<1>1. \A c \in Contexts : line[c] = <<>> /\ reply[c] = None
  <2>1. LineOK /\ RepliesOK
    BY Lined
  <2>2. \A c \in Contexts : Quick(c) = {} /\ queue[c] = <<>>
    BY DEF Idle, Quick
  <2> QED
    BY <2>1, <2>2, NotQuick DEF RepliesOK
<1>2. \A c \in Contexts : ~Moving(c, f)
  BY <1>1, NoRequest DEF Moving
<1>3. ~Unsettled(f)
  BY <1>1, <1>2 DEF Unsettled, Contexts
<1> QED
  BY <1>3 DEF Calm, Settled

LEMMA CalmAlways == Spec => [](FlowInv /\ (patient => Calm))
<1>1. Init => FlowInv /\ (patient => Calm)
  BY InitFlow, InitCalm
<1>2. FlowInv /\ (patient => Calm) /\ [Next]_vars => (FlowInv /\ (patient => Calm))'
  <2> SUFFICES ASSUME FlowInv, patient => Calm, [Next]_vars
               PROVE  FlowInv' /\ (patient' => Calm')
    OBVIOUS
  <2>1. FlowInv'
    BY StepFlow
  <2>2. patient' = patient
    BY DEF Next, vars, Branch, RemoveCard, CreateFile, AddToFile, CleanColumn, CreateEmpty,
           RemoveFile, AddFile, Act, Serve, Answer, AnswerNow
  <2> QED
    BY <2>1, <2>2, StepCalm
<1> QED
  BY <1>1, <1>2, PTL DEF Spec

\* If the user leaves a column alone while requests still work on it, on its neighbours or on
\* files there, then no callback of the view throws: none works on a card, a cluster, a file
\* or a column that was disposed before its answer came.
THEOREM PatientNeverStuck == Spec => []NoneStuck
<1>1. FlowInv /\ (patient => Calm) => NoneStuck
  <2> SUFFICES ASSUME FlowInv, Calm, NEW r \in immediate
               PROVE  stuck = {} /\ r = Expanding(r.file, cluster[r.file])
    BY DEF Calm, NoneStuck
  <2> PICK f : f = r.file
    OBVIOUS
  <2>1. f \in Contexts /\ r \in Quick(f)
    BY DEF FlowInv, NowOK, NowAsked, Contexts, Quick
  <2>2. Quick(f) = {Expanding(f, cluster[f])}
    BY <2>1, QuickIs, LineIs DEF Calm
  <2> QED
    BY <2>1, <2>2 DEF Calm
<1> QED
  BY <1>1, CalmAlways, PTL

\* Such a user sees, once all requests were answered, no card that the server's context does
\* not hold.
THEOREM ViewAgrees == Spec => []Agree
<1>1. FlowInv /\ (patient => Calm) => Agree
  <2> SUFFICES ASSUME FlowInv, patient, Calm, Idle, NEW o \in shown
               PROVE  o.account \in server[o.home]
    BY DEF Agree
  <2>1. o.home \in Contexts /\ o.account \in Accounts /\ (o.home \in Columns \/ o.home \in Files)
    BY CardIn DEF FlowInv, Contexts
  <2>2. \A c \in Contexts : reply[c] = None
    BY DEF FlowInv, ReplyOK, Idle
  <2>3. CASE o.home \in Columns
    BY <2>1, <2>2, <2>3 DEF Calm, ColumnsAgree, RemovalServed
  <2>4. CASE o.home \in Files
    <3>1. Live(o.home)
      <4>1. Range(columns) \subseteq Columns /\ ColumnOf(o.home) \in Range(columns)
        BY CardIn, RowIs DEF FlowInv, View
      <4> QED
        BY <2>4, <4>1 DEF Live, ColumnOf
    <3>2. AccountsOf(Members(o.home)) = server[o.home]
      BY <2>4, <3>1, IdleSettled
    <3>3. o \in Members(o.home)
      BY CardIn DEF FlowInv
    <3> QED
      BY <3>2, <3>3 DEF AccountsOf
  <2> QED
    BY <2>1, <2>3, <2>4
<1> QED
  BY <1>1, CalmAlways, PTL

\* Such a user sees in a file, once all requests were answered, exactly the accounts that the
\* server holds: no card that moves to a file is lost.
THEOREM FilesSettle == Spec => []FilesAgree
<1>1. FlowInv /\ (patient => Calm) => FilesAgree
  BY IdleSettled DEF FilesAgree
<1> QED
  BY <1>1, CalmAlways, PTL
=============================================================================
